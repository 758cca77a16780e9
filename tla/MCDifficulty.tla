----------------------------- MODULE MCDifficulty -----------------------------
(* Difficulty on small instances. *)
EXTENDS Difficulty

\* Loads on both sides of main's thresholds, and one with a busy CPU.
SomeLoads ==
  {Gather(a) : a \in {0, 501, 5001}} \cup {[conns |-> 5001, rate |-> 1001, cpu |-> 9]}

===============================================================================
