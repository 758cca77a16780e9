--------------------------------- MODULE Pool ---------------------------------
(***************************************************************************)
(* The connection pool of internal/server/pool.go: a buffered channel used *)
(* as a counting semaphore, and two atomic counters kept beside it.  Every *)
(* channel operation and every atomic Add is a step of its own, because    *)
(* goroutines interleave between them.                                     *)
(*                                                                         *)
(* A caller's position in the pool's code is at[p]:                        *)
(*   idle      outside the pool, holding no slot                           *)
(*   refused   outside the pool, its last call returned false              *)
(*   sent      Acquire has sent on sem, active.Add(1) is pending           *)
(*   arrived   a blocking acquire has counted itself in waiting            *)
(*   parked    a blocking acquire sleeps in the channel's send queue       *)
(*   woken     a blocking acquire has sent, active.Add(1) is pending       *)
(*   counted   ... active.Add(1) done, the deferred waiting.Add(-1) pending*)
(*   givingup  ... chose ctx.Done, the deferred waiting.Add(-1) pending    *)
(*   holding   outside the pool, holding a slot                            *)
(*   received  Release has received from sem, active.Add(-1) is pending    *)
(***************************************************************************)
EXTENDS Integers, FiniteSets, Sequences

CONSTANTS Procs,            \* the goroutines that call the pool
          MaxConnections    \* the argument of NewPool

ASSUME ProcsAssumption == IsFiniteSet(Procs)
ASSUME MaxConnectionsAssumption == MaxConnections \in Int

VARIABLES at,        \* where each caller is, see above
          sem,       \* len(p.sem)
          sendq,     \* the senders parked on p.sem, oldest first
          active,    \* p.active
          waiting,   \* p.waiting
          ctxDone    \* the callers whose context is cancelled

vars == <<at, sem, sendq, active, waiting, ctxDone>>

max == IF MaxConnections <= 0 THEN 1 ELSE MaxConnections

Outside == {"idle", "refused"}
Blocking == {"arrived", "parked", "woken", "counted", "givingup"}
Positions == Outside \cup Blocking \cup {"sent", "holding", "received"}

\* The callers that own an element of the channel's buffer.
Holders == {p \in Procs : at[p] \in {"sent", "woken", "counted", "holding"}}

\* The callers between their channel operation and their active.Add.
Entering == {p \in Procs : at[p] \in {"sent", "woken"}}
Leaving == {p \in Procs : at[p] = "received"}

Init ==
  /\ at = [p \in Procs |-> "idle"]
  /\ sem = 0
  /\ sendq = << >>
  /\ active = 0
  /\ waiting = 0
  /\ ctxDone = {}

(***************************************************************************)
(* Acquire: a select with a default, so it never sleeps.                   *)
(***************************************************************************)
Acquire(p) ==
  /\ at[p] \in Outside
  /\ \/ /\ sem < max
        /\ sem' = sem + 1
        /\ at' = [at EXCEPT ![p] = "sent"]
     \/ /\ sem = max
        /\ at' = [at EXCEPT ![p] = "refused"]
        /\ UNCHANGED sem
  /\ UNCHANGED <<sendq, active, waiting, ctxDone>>

\* Mutant: the blocking calls do not count themselves active.
AddActive_NotBlocking(p) ==
  /\ \/ at[p] = "sent" /\ at' = [at EXCEPT ![p] = "holding"] /\ active' = active + 1
     \/ at[p] = "woken" /\ at' = [at EXCEPT ![p] = "counted"] /\ active' = active
  /\ UNCHANGED <<sem, sendq, waiting, ctxDone>>

AddActive(p) ==
  /\ \/ at[p] = "sent" /\ at' = [at EXCEPT ![p] = "holding"]
     \/ at[p] = "woken" /\ at' = [at EXCEPT ![p] = "counted"]
  /\ active' = active + 1
  /\ UNCHANGED <<sem, sendq, waiting, ctxDone>>

(***************************************************************************)
(* AcquireWithContext and TryAcquireBlocking, whose bodies are the same.   *)
(***************************************************************************)
AcquireBlocking(p) ==
  /\ at[p] \in Outside
  /\ at' = [at EXCEPT ![p] = "arrived"]
  /\ waiting' = waiting + 1
  /\ UNCHANGED <<sem, sendq, active, ctxDone>>

\* Mutant: a slot taken when the context is done too is not given back.
Select_KeepsSlot(p) ==
  /\ at[p] = "arrived"
  /\ \/ /\ sem < max
        /\ sem' = sem + 1
        /\ at' = [at EXCEPT ![p] = IF p \in ctxDone THEN "givingup" ELSE "woken"]
        /\ UNCHANGED sendq
     \/ /\ sem = max
        /\ at' = [at EXCEPT ![p] = "parked"]
        /\ sendq' = Append(sendq, p)
        /\ UNCHANGED sem
  /\ UNCHANGED <<active, waiting, ctxDone>>

\* The select.  When both cases are ready Go picks either one.
Select(p) ==
  /\ at[p] = "arrived"
  /\ \/ /\ sem < max
        /\ sem' = sem + 1
        /\ at' = [at EXCEPT ![p] = "woken"]
        /\ UNCHANGED sendq
     \/ /\ p \in ctxDone
        /\ at' = [at EXCEPT ![p] = "givingup"]
        /\ UNCHANGED <<sem, sendq>>
     \/ /\ sem = max /\ p \notin ctxDone
        /\ at' = [at EXCEPT ![p] = "parked"]
        /\ sendq' = Append(sendq, p)
        /\ UNCHANGED sem
  /\ UNCHANGED <<active, waiting, ctxDone>>

\* The deferred waiting.Add(-1), then the return to the caller.
DeferWaiting(p) ==
  /\ \/ at[p] = "counted" /\ at' = [at EXCEPT ![p] = "holding"]
     \/ at[p] = "givingup" /\ at' = [at EXCEPT ![p] = "refused"]
  /\ waiting' = waiting - 1
  /\ ctxDone' = ctxDone \ {p}
  /\ UNCHANGED <<sem, sendq, active>>

\* The queue s without its i-th element.
Without(s, i) ==
  [j \in 1 .. Len(s) - 1 |-> IF j < i THEN s[j] ELSE s[j + 1]]

\* The caller's context is cancelled while it is inside a blocking acquire.
\* Closing the Done channel takes a parked goroutine out of the send queue.
Cancel(p) ==
  /\ p \notin ctxDone
  /\ \/ at[p] = "arrived" /\ UNCHANGED <<at, sendq>>
     \/ /\ at[p] = "parked"
        /\ at' = [at EXCEPT ![p] = "givingup"]
        /\ \E i \in DOMAIN sendq : sendq[i] = p /\ sendq' = Without(sendq, i)
  /\ ctxDone' = ctxDone \cup {p}
  /\ UNCHANGED <<sem, active, waiting>>

(***************************************************************************)
(* Release.  Receiving from a full channel that has parked senders moves   *)
(* the oldest one's element into the freed place in the same step.         *)
(***************************************************************************)
\* Mutants: the slot is freed but no parked goroutine is woken; the newest
\* one is woken.
Receive_NoHandOff(p) ==
  /\ sem > 0
  /\ sem' = sem - 1
  /\ at' = [at EXCEPT ![p] = "received"]
  /\ UNCHANGED sendq

Receive_Newest(p) ==
  \/ /\ sendq # << >>
     /\ sendq' = SubSeq(sendq, 1, Len(sendq) - 1)
     /\ at' = [at EXCEPT ![p] = "received", ![sendq[Len(sendq)]] = "woken"]
     /\ UNCHANGED sem
  \/ sendq = << >> /\ Receive_NoHandOff(p)

Receive(p) ==
  \/ /\ sendq # << >>
     /\ sendq' = Tail(sendq)
     /\ at' = [at EXCEPT ![p] = "received", ![Head(sendq)] = "woken"]
     /\ UNCHANGED sem
  \/ /\ sendq = << >> /\ sem > 0
     /\ sem' = sem - 1
     /\ at' = [at EXCEPT ![p] = "received"]
     /\ UNCHANGED sendq

\* The default case: nothing to receive, nothing done.
ReceiveNothing(p) ==
  /\ sem = 0
  /\ at' = [at EXCEPT ![p] = "idle"]
  /\ UNCHANGED <<sem, sendq>>

Release(p) ==
  /\ at[p] = "holding"
  /\ IF sem > 0 THEN Receive(p) ELSE ReceiveNothing(p)
  /\ UNCHANGED <<active, waiting, ctxDone>>

SubActive(p) ==
  /\ at[p] = "received"
  /\ active' = active - 1
  /\ at' = [at EXCEPT ![p] = "idle"]
  /\ UNCHANGED <<sem, sendq, waiting, ctxDone>>

Step(p) ==
  \/ Acquire(p)
  \/ AcquireBlocking(p)
  \/ AddActive(p)
  \/ Select(p)
  \/ DeferWaiting(p)
  \/ Cancel(p)
  \/ Release(p)
  \/ SubActive(p)

Next == \E p \in Procs : Step(p)

Spec == Init /\ [][Next]_vars

\* The scheduler runs every goroutine that can run, and a caller that holds
\* a slot releases it (handleConnection defers the Release).
Fairness ==
  \A p \in Procs :
    /\ WF_vars(AddActive(p))
    /\ WF_vars(Select(p))
    /\ WF_vars(DeferWaiting(p))
    /\ WF_vars(Release(p))
    /\ WF_vars(SubActive(p))

FairSpec == Spec /\ Fairness

\* A caller that releases a slot it does not hold, against the comment on
\* Release ("Must be called exactly once for each successful Acquire").
StrayRelease(p) ==
  /\ at[p] \in Outside
  /\ IF sem > 0 THEN Receive(p) ELSE ReceiveNothing(p)
  /\ UNCHANGED <<active, waiting, ctxDone>>

StrayNext == Next \/ \E p \in Procs : StrayRelease(p)

StraySpec == Init /\ [][StrayNext]_vars

-------------------------------------------------------------------------------
\* Type invariant.
TypeOK ==
  /\ at \in [Procs -> Positions]
  /\ sem \in 0 .. max
  /\ sendq \in Seq(Procs)
  /\ active \in Int
  /\ waiting \in Int
  /\ ctxDone \in SUBSET Procs

\* Release's default case ("This should never happen if Release is called
\* correctly") is never taken: the channel holds exactly one element for
\* each caller that owns a slot, whatever the interleaving of sends,
\* hand-offs to parked senders and cancellations.
SlotsMatchHolders == sem = Cardinality(Holders)

\* active differs from the channel's length by exactly the Adds that are
\* still to come, so it is right again whenever no caller is between its
\* channel operation and its Add.  This survives stray Releases.
ActiveMatchesSem ==
  active = sem + Cardinality(Leaving) - Cardinality(Entering)

\* What Stats may report: active is never negative, and exceeds the capacity
\* by no more than the Releases caught between their receive and their Add,
\* so Available() is never below minus that number.
ActiveBounds == active \in 0 .. max + Cardinality(Leaving)

\* waiting counts exactly the blocking acquires in progress, through
\* success, hand-off and cancellation alike.
WaitingExact == waiting = Cardinality({p \in Procs : at[p] \in Blocking})

\* No lost wakeup: a goroutine sleeps in the send queue, once, only while
\* every slot is taken and its context is alive.
ParkedOnlyWhenFull ==
  /\ sendq # << >> => sem = max
  /\ {sendq[i] : i \in DOMAIN sendq} = {p \in Procs : at[p] = "parked"}
  /\ \A i, j \in DOMAIN sendq : sendq[i] = sendq[j] => i = j
  /\ \A i \in DOMAIN sendq : sendq[i] \notin ctxDone

\* A freed slot goes to the longest waiter: no step lets a non-blocking
\* Acquire, or a younger waiter, overtake the head of the send queue.
NoOvertaking ==
  [][\A p \in Procs :
       sendq # << >> /\ p \in Holders' \ Holders => p = Head(sendq)]_vars

\* Every blocking acquire returns, even when non-blocking callers keep
\* coming: with a slot, or because its context was cancelled.
BlockingReturns ==
  \A p \in Procs : at[p] = "arrived" ~> at[p] \in {"holding", "refused"}

===============================================================================
