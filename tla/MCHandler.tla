------------------------------- MODULE MCHandler ------------------------------
(* Handler on small instances; the constants are in the .cfg files. *)
EXTENDS Handler
===============================================================================
