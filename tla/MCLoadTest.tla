------------------------------ MODULE MCLoadTest ------------------------------
(* LoadTest on a small instance; the constants are in the .cfg file. *)
EXTENDS LoadTest
===============================================================================
