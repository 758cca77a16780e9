-------------------------------- MODULE MCPool --------------------------------
(* Pool on a small instance; the constants are in the .cfg file. *)
EXTENDS Pool
===============================================================================
