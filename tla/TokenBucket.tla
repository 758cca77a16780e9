----------------------------- MODULE TokenBucket ------------------------------
(***************************************************************************)
(* What the rate limiter promises: every IP has a bucket of Burst tokens   *)
(* that refills at a steady rate and is never forgotten.  There are no     *)
(* shards, locks, map entries, evictions or cleanups here.                 *)
(*                                                                         *)
(* Tokens are counted in units of 1/Unit token and time in ticks, so that  *)
(* the limiter's fractional token counts are integers: Rate is the number  *)
(* of units that one tick adds.                                            *)
(*                                                                         *)
(* The pair (since, granted) observes one IP, Watched: granted is the      *)
(* number of its requests allowed since the tick at which the observation  *)
(* window was last opened.                                                 *)
(***************************************************************************)
EXTENDS Integers

CONSTANTS IPs, Watched, Rate, Burst, Unit

VARIABLES level,     \* units in each IP's bucket
          clock,     \* the current tick
          since,     \* when the observation window was opened
          granted    \* Watched's requests allowed in the window

vars == <<level, clock, since, granted>>

Cap == Burst * Unit

Least(a, b) == IF a <= b THEN a ELSE b

Init ==
  /\ level = [ip \in IPs |-> Cap]
  /\ clock = 0
  /\ since = 0
  /\ granted = 0

Tick ==
  /\ clock' = clock + 1
  /\ level' = [ip \in IPs |-> Least(Cap, level[ip] + Rate)]
  /\ UNCHANGED <<since, granted>>

\* A request is allowed; one that is refused changes nothing.
Take(ip) ==
  /\ level[ip] >= Unit
  /\ level' = [level EXCEPT ![ip] = @ - Unit]
  /\ granted' = granted + (IF ip = Watched THEN 1 ELSE 0)
  /\ UNCHANGED <<clock, since>>

OpenWindow ==
  /\ since' = clock
  /\ granted' = 0
  /\ UNCHANGED <<level, clock>>

Next == Tick \/ OpenWindow \/ \E ip \in IPs : Take(ip)

Spec == Init /\ [][Next]_vars

\* The promise: over any window an IP gets at most its burst plus what the
\* bucket refilled in that time.
RateBound == granted * Unit <= Cap + Rate * (clock - since)

===============================================================================
