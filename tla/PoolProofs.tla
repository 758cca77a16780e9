------------------------------ MODULE PoolProofs ------------------------------
(***************************************************************************)
(* Proofs about module Pool, for every finite set of callers and every     *)
(* argument of NewPool.                                                    *)
(*                                                                         *)
(* The counters are compared with the number of callers whose position is  *)
(* in some set V.  All the counting is in one lemma, Move: what moving one *)
(* caller does to that number.  The other ingredient is the send queue: a  *)
(* Release moves a second caller, the head of the queue, and that one must *)
(* be known to be parked.                                                  *)
(***************************************************************************)
EXTENDS Pool, FiniteSetTheorems, TLAPS

\* How many callers f places in V.
Count(f, V) == Cardinality({q \in Procs : f[q] \in V})

\* From f to g the caller p moves to position v and nobody else moves.
Moves(g, f, p, v) ==
  f \in [Procs -> Positions] /\ g = [f EXCEPT ![p] = v]

\* 1 if position v is one of V.
One(v, V) == IF v \in V THEN 1 ELSE 0

\* ParkedOnlyWhenFull, element by element.
Queue ==
  /\ sendq # << >> => sem = max
  /\ \A i \in 1 .. Len(sendq) : at[sendq[i]] = "parked"
  /\ \A p \in Procs : at[p] = "parked" => \E i \in 1 .. Len(sendq) : sendq[i] = p
  /\ \A i, j \in 1 .. Len(sendq) : sendq[i] = sendq[j] => i = j
  /\ \A i \in 1 .. Len(sendq) : sendq[i] \notin ctxDone

\* t is the queue s without its i-th element; s has no repetitions.
IsWithout(t, s, i) ==
  /\ t \in Seq(Procs) /\ Len(t) = Len(s) - 1
  /\ \A j \in 1 .. Len(t) : t[j] = IF j < i THEN s[j] ELSE s[j + 1]
Distinct(s) == \A j, k \in 1 .. Len(s) : s[j] = s[k] => j = k

\* The slot is one of max, which is positive.
LEMMA MaxPositive == max \in Nat \ {0}
  BY MaxConnectionsAssumption DEF max

\* A number of callers is a natural number.
LEMMA CountType ==
  ASSUME NEW f, NEW V
  PROVE  Count(f, V) \in Nat
<1>1. IsFiniteSet({q \in Procs : f[q] \in V})
  BY ProcsAssumption, FS_Subset
<1> QED
  BY <1>1, FS_CardinalityType DEF Count

\* Moving caller p to position v takes one from the count of the positions
\* p was in and adds one to the count of the positions v is in.
LEMMA Move ==
  ASSUME NEW f, NEW g, NEW p \in Procs, NEW v \in Positions, NEW V, Moves(g, f, p, v)
  PROVE  /\ Count(f, V) \in Nat
         /\ Count(g, V) = Count(f, V) + One(v, V) - One(f[p], V)
<1> USE DEF Moves, One
<1> DEFINE F == {q \in Procs : f[q] \in V}
           G == {q \in Procs : g[q] \in V}
<1>1. IsFiniteSet(F) /\ Cardinality(F) \in Nat
  BY ProcsAssumption, FS_Subset, FS_CardinalityType
<1>2. CASE v \in V /\ f[p] \notin V
  <2>1. G = F \cup {p} /\ p \notin F
    BY <1>2
  <2> QED
    BY <2>1, <1>1, <1>2, FS_AddElement DEF Count
<1>3. CASE v \notin V /\ f[p] \in V
  <2>1. G = F \ {p} /\ p \in F
    BY <1>3
  <2>2. Cardinality(G) = Cardinality(F) - 1
    <3> HIDE DEF F, G
    <3> QED
      BY <2>1, <1>1, FS_RemoveElement, Zenon
  <2> QED
    BY <2>2, <1>1, <1>3 DEF Count
<1>4. CASE (v \in V) <=> (f[p] \in V)
  <2>1. G = F
    BY <1>4
  <2>2. Count(g, V) = Cardinality(F) /\ Count(f, V) = Cardinality(F)
    BY <2>1 DEF Count
  <2> QED
    BY <1>1, <1>4, <2>2
<1> QED
  BY <1>2, <1>3, <1>4

\* The two forms of the queue invariant say the same.
LEMMA QueueForms ==
  ASSUME TypeOK
  PROVE  Queue <=> ParkedOnlyWhenFull
<1>1. DOMAIN sendq = 1 .. Len(sendq) /\ \A i \in DOMAIN sendq : sendq[i] \in Procs
  BY DEF TypeOK
<1> QED
  BY <1>1 DEF Queue, ParkedOnlyWhenFull

\* The initial state.
LEMMA InitCounts ==
  ASSUME Init
  PROVE  TypeOK /\ Queue /\ SlotsMatchHolders /\ ActiveMatchesSem /\ WaitingExact
<1>1. TypeOK
  BY MaxPositive DEF Init, TypeOK, Positions, Outside
<1>2. Queue
  BY DEF Init, Queue
<1>3. Holders = {} /\ Entering = {} /\ Leaving = {}
  BY DEF Init, Holders, Entering, Leaving
<1>4. {p \in Procs : at[p] \in Blocking} = {}
  BY DEF Init, Blocking
<1>5. SlotsMatchHolders /\ ActiveMatchesSem /\ WaitingExact
  BY <1>3, <1>4, FS_EmptySet DEF Init, SlotsMatchHolders, ActiveMatchesSem, WaitingExact
<1> QED
  BY <1>1, <1>2, <1>5

\* What is left of a queue s without repetitions when its i-th element is
\* taken out.
LEMMA Shrink ==
  ASSUME NEW s \in Seq(Procs), NEW t, NEW i \in 1 .. Len(s),
         IsWithout(t, s, i), Distinct(s)
  PROVE  /\ \A j \in 1 .. Len(t) : \E k \in 1 .. Len(s) : k # i /\ t[j] = s[k]
         /\ \A k \in 1 .. Len(s) : k # i => \E j \in 1 .. Len(t) : t[j] = s[k]
         /\ Distinct(t)
<1> USE DEF IsWithout, Distinct
<1> DEFINE old(j) == IF j < i THEN j ELSE j + 1
<1>1. \A j \in 1 .. Len(t) : old(j) \in 1 .. Len(s) /\ old(j) # i /\ t[j] = s[old(j)]
  OBVIOUS
<1>2. \A j, k \in 1 .. Len(t) : old(j) = old(k) => j = k
  OBVIOUS
<1>3. \A k \in 1 .. Len(s) : k # i => \E j \in 1 .. Len(t) : old(j) = k
  <2> SUFFICES ASSUME NEW k \in 1 .. Len(s), k # i
               PROVE  \E j \in 1 .. Len(t) : old(j) = k
    OBVIOUS
  <2>1. CASE k < i
    <3>1. k \in 1 .. Len(t) /\ old(k) = k
      BY <2>1
    <3> QED
      BY <3>1
  <2>2. CASE k > i
    <3>1. k - 1 \in 1 .. Len(t) /\ old(k - 1) = k
      BY <2>2
    <3> QED
      BY <3>1, Zenon
  <2> QED
    BY <2>1, <2>2
<1> HIDE DEF old
<1>4. \A j \in 1 .. Len(t) : \E k \in 1 .. Len(s) : k # i /\ t[j] = s[k]
  BY <1>1
<1>5. \A k \in 1 .. Len(s) : k # i => \E j \in 1 .. Len(t) : t[j] = s[k]
  <2> SUFFICES ASSUME NEW k \in 1 .. Len(s), k # i
               PROVE  \E j \in 1 .. Len(t) : t[j] = s[k]
    OBVIOUS
  <2>1. PICK j \in 1 .. Len(t) : old(j) = k
    BY <1>3
  <2> QED
    BY <2>1, <1>1
<1>6. \A j, k \in 1 .. Len(t) : t[j] = t[k] => j = k
  <2> SUFFICES ASSUME NEW j \in 1 .. Len(t), NEW k \in 1 .. Len(t), t[j] = t[k]
               PROVE  old(j) = old(k)
    BY <1>2
  <2>1. old(j) \in 1 .. Len(s) /\ old(k) \in 1 .. Len(s) /\ s[old(j)] = s[old(k)]
    BY <1>1
  <2> QED
    BY <2>1
<1> QED
  BY <1>4, <1>5, <1>6

\* A step that takes the i-th goroutine, and no other, out of the send queue
\* and out of its sleep keeps the queue's shape.
LEMMA Dequeue ==
  ASSUME TypeOK, Queue, NEW i \in 1 .. Len(sendq),
         IsWithout(sendq', sendq, i),
         at'[sendq[i]] # "parked",
         \A q \in Procs : q # sendq[i] => (at'[q] = "parked" <=> at[q] = "parked"),
         ctxDone' \subseteq ctxDone \cup {sendq[i]},
         sem' = sem
  PROVE  Queue'
<1>1. \A k \in 1 .. Len(sendq) :
        sendq[k] \in Procs /\ (k # i => sendq[k] # sendq[i])
  BY DEF TypeOK, Queue
<1>2. sendq \in Seq(Procs) /\ Distinct(sendq)
  BY DEF TypeOK, Queue, Distinct
<1>3. /\ \A j \in 1 .. Len(sendq') : \E k \in 1 .. Len(sendq) : k # i /\ sendq'[j] = sendq[k]
      /\ \A k \in 1 .. Len(sendq) : k # i => \E j \in 1 .. Len(sendq') : sendq'[j] = sendq[k]
      /\ Distinct(sendq')
  BY <1>2, Shrink, Zenon
<1>4. ASSUME NEW j \in 1 .. Len(sendq')
      PROVE  at'[sendq'[j]] = "parked" /\ sendq'[j] \notin ctxDone'
  <2>1. PICK k \in 1 .. Len(sendq) : k # i /\ sendq'[j] = sendq[k]
    BY <1>3
  <2>2. sendq[k] \in Procs /\ sendq[k] # sendq[i]
    BY <2>1, <1>1
  <2> QED
    BY <2>1, <2>2 DEF Queue
<1>5. ASSUME NEW q \in Procs, at'[q] = "parked"
      PROVE  \E j \in 1 .. Len(sendq') : sendq'[j] = q
  <2>1. q # sendq[i] /\ at[q] = "parked"
    BY <1>5
  <2>2. PICK k \in 1 .. Len(sendq) : sendq[k] = q
    BY <2>1 DEF Queue
  <2>3. k # i
    BY <2>1, <2>2
  <2> QED
    BY <1>3, <2>2, <2>3, Zenon
<1>6. sendq # << >>
  BY DEF TypeOK
<1> QED
  BY <1>3, <1>4, <1>5, <1>6 DEF Queue, Distinct

\* Every step keeps the types and the shape of the send queue.
LEMMA QueueStep ==
  ASSUME TypeOK, Queue, [StrayNext]_vars
  PROVE  TypeOK' /\ Queue'
<1> USE MaxPositive DEF TypeOK, Queue, Positions, Outside, Blocking
<1> SUFFICES ASSUME NEW p \in Procs, Step(p) \/ StrayRelease(p)
             PROVE  TypeOK' /\ Queue'
  <2>1. CASE UNCHANGED vars
    BY <2>1 DEF vars
  <2> QED
    BY <2>1 DEF StrayNext, Next
<1>1. CASE Acquire(p)
  BY <1>1 DEF Acquire
<1>2. CASE AcquireBlocking(p)
  BY <1>2 DEF AcquireBlocking
<1>3. CASE AddActive(p)
  BY <1>3 DEF AddActive
<1>4. CASE Select(p)
  <2> USE <1>4 DEF Select
  <2>1. CASE UNCHANGED sendq
    BY <2>1
  <2>2. CASE sendq' = Append(sendq, p) /\ at' = [at EXCEPT ![p] = "parked"] /\ UNCHANGED sem
    <3>1. /\ sendq' \in Seq(Procs) /\ Len(sendq') = Len(sendq) + 1
          /\ sendq'[Len(sendq) + 1] = p
          /\ \A i \in 1 .. Len(sendq) : sendq'[i] = sendq[i] /\ sendq[i] \in Procs /\ sendq[i] # p
      BY <2>2
    <3>2. TypeOK'
      BY <2>2, <3>1
    <3>3. \A q \in Procs : at'[q] = IF q = p THEN "parked" ELSE at[q]
      BY <2>2
    <3>4. \A i \in 1 .. Len(sendq') : at'[sendq'[i]] = "parked" /\ sendq'[i] \notin ctxDone'
      BY <2>2, <3>1, <3>3
    <3>5. \A i, j \in 1 .. Len(sendq') : sendq'[i] = sendq'[j] => i = j
      BY <3>1
    <3>6. \A q \in Procs : at'[q] = "parked" => \E i \in 1 .. Len(sendq') : sendq'[i] = q
      BY <3>1, <3>3
    <3> QED
      BY <2>2, <3>2, <3>4, <3>5, <3>6
  <2> QED
    BY <2>1, <2>2
<1>5. CASE DeferWaiting(p)
  BY <1>5 DEF DeferWaiting
<1>6. CASE Cancel(p)
  <2>1. CASE UNCHANGED <<at, sendq>>
    BY <1>6, <2>1 DEF Cancel
  <2>2. CASE at[p] = "parked"
    <3> USE <1>6, <2>2 DEF Cancel
    <3>1. PICK i \in 1 .. Len(sendq) : sendq[i] = p /\ sendq' = Without(sendq, i)
      OBVIOUS
    <3>2. IsWithout(sendq', sendq, i)
      BY <3>1 DEF Without, IsWithout
    <3>3. \A j \in 1 .. Len(sendq) : sendq[j] \in Procs /\ (j # i => sendq[j] # p)
      BY <3>1
    <3>4. \A q \in Procs : at'[q] = IF q = p THEN "givingup" ELSE at[q]
      OBVIOUS
    <3>5. TypeOK'
      BY <3>2 DEF IsWithout
    <3>6. Queue'
      BY <3>1, <3>2, <3>4, Dequeue
    <3> QED
      BY <3>5, <3>6
  <2> QED
    BY <1>6, <2>1, <2>2 DEF Cancel
<1>7. CASE Release(p) \/ StrayRelease(p)
  <2> USE <1>7 DEF Release, StrayRelease, Receive, ReceiveNothing
  <2>1. CASE UNCHANGED sendq
    BY <2>1
  <2>2. CASE sendq # << >> /\ sendq' = Tail(sendq)
             /\ at' = [at EXCEPT ![p] = "received", ![Head(sendq)] = "woken"]
             /\ UNCHANGED sem
    <3>1. /\ sendq' \in Seq(Procs) /\ Len(sendq') = Len(sendq) - 1
          /\ Head(sendq) = sendq[1] /\ Len(sendq) > 0
          /\ \A j \in 1 .. Len(sendq') : sendq'[j] = sendq[j + 1]
          /\ \A j \in 1 .. Len(sendq) : sendq[j] \in Procs /\ sendq[j] # p
      BY <2>2
    <3> DEFINE h == Head(sendq)
    <3>2. h \in Procs /\ h # p /\ 1 \in 1 .. Len(sendq) /\ h = sendq[1]
      BY <3>1
    <3>3. at'[h] = "woken" /\ at'[p] = "received" /\ at[p] # "parked"
      BY <2>2, <3>2
    <3>4. \A q \in Procs \ {h, p} : at'[q] = at[q]
      BY <2>2, <3>2, SMTT(30)
    <3>5. TypeOK'
      BY <2>2, <3>1, Zenon
    <3>6. IsWithout(sendq', sendq, 1)
      BY <3>1 DEF IsWithout
    <3>7. ctxDone' = ctxDone /\ sem' = sem
      BY <2>2
    <3>8. Queue'
      BY <3>2, <3>3, <3>4, <3>6, <3>7, Dequeue
    <3> QED
      BY <3>5, <3>8
  <2> QED
    BY <2>1, <2>2
<1>8. CASE SubActive(p)
  BY <1>8 DEF SubActive
<1> QED
  BY <1>1, <1>2, <1>3, <1>4, <1>5, <1>6, <1>7, <1>8 DEF Step

\* The positions that the pool's counters are about.
Owning == {"sent", "woken", "counted", "holding"}
ToAdd == {"sent", "woken"}
ToSub == {"received"}

\* The three counter invariants in terms of Count.
SlotsCount == sem = Count(at, Owning)
ActiveCount == active = sem + Count(at, ToSub) - Count(at, ToAdd)
WaitingCount == waiting = Count(at, Blocking)

\* The pool's counter invariants are these counts.
LEMMA CountForms ==
  /\ SlotsMatchHolders <=> SlotsCount
  /\ ActiveMatchesSem <=> ActiveCount
  /\ WaitingExact <=> WaitingCount
<1>1. Leaving = {q \in Procs : at[q] \in ToSub}
  BY DEF Leaving, ToSub
<1> QED
  BY <1>1 DEF SlotsMatchHolders, SlotsCount, ActiveMatchesSem, ActiveCount,
              WaitingExact, WaitingCount, Holders, Entering, Count, Owning, ToAdd

\* What a move does to each of the four counts.
MoveCounted(g, f, p, v) ==
  /\ Count(f, Owning) \in Nat /\ Count(f, ToAdd) \in Nat
  /\ Count(f, ToSub) \in Nat /\ Count(f, Blocking) \in Nat
  /\ Count(g, Owning) = Count(f, Owning) + One(v, Owning) - One(f[p], Owning)
  /\ Count(g, ToAdd) = Count(f, ToAdd) + One(v, ToAdd) - One(f[p], ToAdd)
  /\ Count(g, ToSub) = Count(f, ToSub) + One(v, ToSub) - One(f[p], ToSub)
  /\ Count(g, Blocking) = Count(f, Blocking) + One(v, Blocking) - One(f[p], Blocking)

\* One caller moving to position v changes each count by what it gains and
\* loses there.
LEMMA MoveAll ==
  ASSUME NEW f, NEW g, NEW p \in Procs, NEW v \in Positions, Moves(g, f, p, v)
  PROVE  MoveCounted(g, f, p, v)
<1>1. /\ Count(f, Owning) \in Nat
      /\ Count(g, Owning) = Count(f, Owning) + One(v, Owning) - One(f[p], Owning)
  BY Move
<1>2. /\ Count(f, ToAdd) \in Nat
      /\ Count(g, ToAdd) = Count(f, ToAdd) + One(v, ToAdd) - One(f[p], ToAdd)
  BY Move
<1>3. /\ Count(f, ToSub) \in Nat
      /\ Count(g, ToSub) = Count(f, ToSub) + One(v, ToSub) - One(f[p], ToSub)
  BY Move
<1>4. /\ Count(f, Blocking) \in Nat
      /\ Count(g, Blocking) = Count(f, Blocking) + One(v, Blocking) - One(f[p], Blocking)
  BY Move
<1> QED
  BY <1>1, <1>2, <1>3, <1>4 DEF MoveCounted

\* Which counts a caller at position v enters.
Weighs(v, owning, toAdd, toSub, blocking) ==
  /\ One(v, Owning) = owning /\ One(v, ToAdd) = toAdd
  /\ One(v, ToSub) = toSub /\ One(v, Blocking) = blocking

\* Which positions own a slot, owe an Add to active, and count as waiting.
LEMMA Weights ==
  /\ Weighs("sent", 1, 1, 0, 0)
  /\ Weighs("woken", 1, 1, 0, 1)
  /\ Weighs("counted", 1, 0, 0, 1)
  /\ Weighs("holding", 1, 0, 0, 0)
  /\ Weighs("received", 0, 0, 1, 0)
  /\ \A v \in {"arrived", "parked", "givingup"} : Weighs(v, 0, 0, 0, 1)
  /\ \A v \in Outside : Weighs(v, 0, 0, 0, 0)
  BY DEF Weighs, One, Owning, ToAdd, ToSub, Blocking, Outside

\* What a receive does to the counters: the slot it frees is gone or belongs
\* to the goroutine that was parked longest.
LEMMA ReceiveCounts ==
  ASSUME TypeOK, Queue, NEW p \in Procs, at[p] \in Outside \cup {"holding"}, Receive(p)
  PROVE  /\ at[p] = "holding" => Count(at', Owning) = Count(at, Owning) + (sem' - sem)
         /\ sem' + Count(at', ToSub) - Count(at', ToAdd) = sem + Count(at, ToSub) - Count(at, ToAdd)
         /\ Count(at', Blocking) = Count(at, Blocking)
<1>1. CASE sendq # << >>
  <2> DEFINE h == Head(sendq)
             g == [at EXCEPT ![p] = "received"]
  <2>1. h \in Procs /\ at[h] = "parked" /\ h # p /\ g[h] = "parked"
    BY <1>1 DEF TypeOK, Queue, Outside
  <2>2. Moves(g, at, p, "received") /\ Moves(at', g, h, "woken") /\ sem' = sem
    BY <1>1 DEF Receive, TypeOK, Positions, Moves
  <2> HIDE DEF g, h
  <2>3. "received" \in Positions /\ "woken" \in Positions
    BY DEF Positions, Blocking
  <2>4. MoveCounted(g, at, p, "received")
    BY <2>2, <2>3, MoveAll
  <2>5. MoveCounted(at', g, h, "woken")
    BY <2>1, <2>2, <2>3, MoveAll
  <2>6. sem \in Nat /\ Weighs(at[p], IF at[p] = "holding" THEN 1 ELSE 0, 0, 0, 0)
    BY MaxPositive, Weights DEF TypeOK, Outside
  <2> QED
    BY <2>1, <2>2, <2>4, <2>5, <2>6, Weights DEF MoveCounted, Weighs
<1>2. CASE sendq = << >>
  <2>1. Moves(at', at, p, "received") /\ sem' = sem - 1 /\ "received" \in Positions
    BY <1>2 DEF Receive, TypeOK, Moves, Positions
  <2>2. MoveCounted(at', at, p, "received")
    BY <2>1, MoveAll
  <2>3. sem \in Nat /\ Weighs(at[p], IF at[p] = "holding" THEN 1 ELSE 0, 0, 0, 0)
    BY MaxPositive, Weights DEF TypeOK, Outside
  <2> QED
    BY <2>1, <2>2, <2>3, Weights DEF MoveCounted, Weighs
<1> QED
  BY <1>1, <1>2

\* The pool's own steps keep the three counter invariants.
LEMMA CountStep ==
  ASSUME TypeOK, Queue, NEW p \in Procs, Step(p)
  PROVE  /\ SlotsCount => SlotsCount'
         /\ ActiveCount => ActiveCount'
         /\ WaitingCount => WaitingCount'
<1> USE DEF SlotsCount, ActiveCount, WaitingCount
<1>1. sem \in Int /\ active \in Int /\ waiting \in Int
  BY MaxPositive DEF TypeOK
<1>2. ASSUME NEW v \in Positions, at' = [at EXCEPT ![p] = v]
      PROVE  MoveCounted(at', at, p, v)
  BY <1>2, MoveAll, Zenon DEF Moves, TypeOK
<1>3. CASE Acquire(p)
  <2>1. CASE at' = [at EXCEPT ![p] = "sent"] /\ sem' = sem + 1
    <3>1. MoveCounted(at', at, p, "sent")
      BY <1>2, <2>1, Zenon DEF Positions
    <3> QED
      BY <1>1, <1>3, <2>1, <3>1, Weights DEF Acquire, MoveCounted, Weighs
  <2>2. CASE at' = [at EXCEPT ![p] = "refused"] /\ sem' = sem
    <3>1. MoveCounted(at', at, p, "refused") /\ "refused" \in Outside
      BY <1>2, <2>2, Zenon DEF Positions, Outside
    <3> QED
      BY <1>1, <1>3, <2>2, <3>1, Weights DEF Acquire, MoveCounted, Weighs
  <2> QED
    BY <1>3, <2>1, <2>2 DEF Acquire
<1>4. CASE AcquireBlocking(p)
  <2>1. MoveCounted(at', at, p, "arrived")
    BY <1>2, <1>4, Zenon DEF AcquireBlocking, Positions, Blocking
  <2> QED
    BY <1>1, <1>4, <2>1, Weights DEF AcquireBlocking, MoveCounted, Weighs
<1>5. CASE AddActive(p)
  <2>1. CASE at[p] = "sent"
    <3>1. MoveCounted(at', at, p, "holding")
      BY <1>2, <1>5, <2>1 DEF AddActive, Positions
    <3> QED
      BY <1>1, <1>5, <2>1, <3>1, Weights DEF AddActive, MoveCounted, Weighs
  <2>2. CASE at[p] = "woken"
    <3>1. MoveCounted(at', at, p, "counted")
      BY <1>2, <1>5, <2>2 DEF AddActive, Positions, Blocking
    <3> QED
      BY <1>1, <1>5, <2>2, <3>1, Weights DEF AddActive, MoveCounted, Weighs
  <2> QED
    BY <1>5, <2>1, <2>2 DEF AddActive
<1>6. CASE Select(p)
  <2> HIDE DEF SlotsCount, ActiveCount, WaitingCount
  <2>0. at[p] = "arrived" /\ active' = active /\ waiting' = waiting
    BY <1>6 DEF Select
  <2>1. CASE at' = [at EXCEPT ![p] = "woken"] /\ sem' = sem + 1
    <3>1. MoveCounted(at', at, p, "woken")
      BY <1>2, <2>1, Zenon DEF Positions, Blocking
    <3> QED
      BY <1>1, <2>0, <2>1, <3>1, Weights DEF MoveCounted, Weighs, SlotsCount, ActiveCount, WaitingCount
  <2>2. CASE at' = [at EXCEPT ![p] = "givingup"] /\ sem' = sem
    <3>1. MoveCounted(at', at, p, "givingup")
      BY <1>2, <2>2, Zenon DEF Positions, Blocking
    <3> QED
      BY <1>1, <2>0, <2>2, <3>1, Weights DEF MoveCounted, Weighs, SlotsCount, ActiveCount, WaitingCount
  <2>3. CASE at' = [at EXCEPT ![p] = "parked"] /\ sem' = sem
    <3>1. MoveCounted(at', at, p, "parked")
      BY <1>2, <2>3, Zenon DEF Positions, Blocking
    <3> QED
      BY <1>1, <2>0, <2>3, <3>1, Weights DEF MoveCounted, Weighs, SlotsCount, ActiveCount, WaitingCount
  <2> QED
    BY <1>6, <2>1, <2>2, <2>3 DEF Select
<1>7. CASE DeferWaiting(p)
  <2>1. CASE at[p] = "counted"
    <3>1. MoveCounted(at', at, p, "holding")
      BY <1>2, <1>7, <2>1 DEF DeferWaiting, Positions
    <3> QED
      BY <1>1, <1>7, <2>1, <3>1, Weights DEF DeferWaiting, MoveCounted, Weighs
  <2>2. CASE at[p] = "givingup"
    <3>1. MoveCounted(at', at, p, "refused") /\ "refused" \in Outside
      BY <1>2, <1>7, <2>2 DEF DeferWaiting, Positions, Outside
    <3> QED
      BY <1>1, <1>7, <2>2, <3>1, Weights DEF DeferWaiting, MoveCounted, Weighs
  <2> QED
    BY <1>7, <2>1, <2>2 DEF DeferWaiting
<1>8. CASE Cancel(p)
  <2>1. CASE UNCHANGED at
    BY <1>8, <2>1 DEF Cancel
  <2>2. CASE at[p] = "parked"
    <3>1. MoveCounted(at', at, p, "givingup")
      BY <1>2, <1>8, <2>2 DEF Cancel, Positions, Blocking
    <3> QED
      BY <1>1, <1>8, <2>2, <3>1, Weights DEF Cancel, MoveCounted, Weighs
  <2> QED
    BY <1>8, <2>1, <2>2 DEF Cancel
<1>9. CASE SubActive(p)
  <2>1. MoveCounted(at', at, p, "idle") /\ "idle" \in Outside
    BY <1>2, <1>9, Zenon DEF SubActive, Positions, Outside
  <2> QED
    BY <1>1, <1>9, <2>1, Weights DEF SubActive, MoveCounted, Weighs
<1>10. CASE Release(p)
  <2>1. at[p] = "holding" /\ active' = active /\ waiting' = waiting
    BY <1>10 DEF Release
  <2>2. Count(at', Owning) \in Nat /\ Count(at, Owning) \in Nat
    BY CountType
  <2>3. CASE Receive(p)
    <3>1. sem' \in Int
      BY <1>1, <2>3 DEF Receive
    <3>2. Count(at', Owning) = Count(at, Owning) + (sem' - sem)
      BY <2>1, <2>3, ReceiveCounts
    <3>3. /\ sem' + Count(at', ToSub) - Count(at', ToAdd) = sem + Count(at, ToSub) - Count(at, ToAdd)
          /\ Count(at', Blocking) = Count(at, Blocking)
      BY <2>1, <2>3, ReceiveCounts
    <3>4. SlotsCount => SlotsCount'
      BY <1>1, <2>2, <3>1, <3>2
    <3> QED
      BY <2>1, <3>3, <3>4
  <2>4. CASE ReceiveNothing(p)
    <3>1. MoveCounted(at', at, p, "idle") /\ "idle" \in Outside
      BY <1>2, <2>4, Zenon DEF ReceiveNothing, Positions, Outside
    <3> QED
      BY <1>1, <2>1, <2>2, <2>4, <3>1, Weights DEF ReceiveNothing, MoveCounted, Weighs
  <2> QED
    BY <1>10, <2>3, <2>4 DEF Release
<1> QED
  BY <1>3, <1>4, <1>5, <1>6, <1>7, <1>8, <1>9, <1>10 DEF Step

\* A Release that is not due takes a slot away from its holder, but leaves
\* active and waiting consistent.
LEMMA StrayStep ==
  ASSUME TypeOK, Queue, NEW p \in Procs, StrayRelease(p)
  PROVE  /\ ActiveCount => ActiveCount'
         /\ WaitingCount => WaitingCount'
<1> USE DEF StrayRelease, ActiveCount, WaitingCount
<1>1. sem \in Int /\ active \in Int /\ waiting \in Int
  BY MaxPositive DEF TypeOK
<1>2. CASE Receive(p)
  BY <1>1, <1>2, ReceiveCounts, CountType
<1>3. CASE ReceiveNothing(p)
  <2>1. MoveCounted(at', at, p, "idle") /\ "idle" \in Outside
    BY <1>3, MoveAll, Zenon DEF ReceiveNothing, Positions, Outside, Moves, TypeOK
  <2> QED
    BY <1>1, <1>3, <2>1, Weights DEF ReceiveNothing, MoveCounted, Weighs
<1> QED
  BY <1>2, <1>3

-------------------------------------------------------------------------------
\* The inductive invariant of the pool, and the part of it that survives
\* Releases that are not due.
StrayInv == TypeOK /\ Queue /\ ActiveCount /\ WaitingCount
PoolInv == StrayInv /\ SlotsCount

\* The counters of the pool stay right even when Release is called too often.
LEMMA StrayInvariant == StraySpec => []StrayInv
<1>1. Init => StrayInv
  BY InitCounts, CountForms DEF StrayInv
<1>2. StrayInv /\ [StrayNext]_vars => StrayInv'
  <2> SUFFICES ASSUME StrayInv, [StrayNext]_vars
               PROVE  StrayInv'
    OBVIOUS
  <2>1. TypeOK' /\ Queue'
    BY QueueStep DEF StrayInv
  <2>2. CASE UNCHANGED vars
    BY <2>1, <2>2 DEF StrayInv, ActiveCount, WaitingCount, vars
  <2>3. CASE StrayNext
    BY <2>1, <2>3, CountStep, StrayStep DEF StrayInv, StrayNext, Next
  <2> QED
    BY <2>2, <2>3
<1> QED
  BY <1>1, <1>2, PTL DEF StraySpec

\* The inductive invariant holds when every Release matches an acquire.
LEMMA PoolInvariant == Spec => []PoolInv
<1>1. Init => PoolInv
  BY InitCounts, CountForms DEF PoolInv, StrayInv
<1>2. PoolInv /\ [Next]_vars => PoolInv'
  <2> SUFFICES ASSUME PoolInv, [Next]_vars
               PROVE  PoolInv'
    OBVIOUS
  <2>1. TypeOK' /\ Queue'
    BY QueueStep DEF PoolInv, StrayInv, StrayNext
  <2>2. CASE UNCHANGED vars
    BY <2>1, <2>2 DEF PoolInv, StrayInv, SlotsCount, ActiveCount, WaitingCount, vars
  <2>3. CASE Next
    BY <2>1, <2>3, CountStep DEF PoolInv, StrayInv, Next
  <2> QED
    BY <2>2, <2>3
<1> QED
  BY <1>1, <1>2, PTL DEF Spec

\* The pool's variables keep their types; in particular the channel never
\* holds more than max elements.
THEOREM PoolTypes == Spec => []TypeOK
<1>1. PoolInv => TypeOK
  BY DEF PoolInv, StrayInv
<1> QED
  BY <1>1, PoolInvariant, PTL

\* The channel holds exactly one element for each caller that owns a slot, so
\* a due Release always finds one, and no more than max callers own one.
THEOREM SlotsExact == Spec => []SlotsMatchHolders
<1>1. PoolInv => SlotsMatchHolders
  BY CountForms DEF PoolInv
<1> QED
  BY <1>1, PoolInvariant, PTL

\* active and the channel's length agree up to the pending Adds, even when
\* callers release slots that they do not hold.
THEOREM ActiveExact == StraySpec => []ActiveMatchesSem
<1>1. StrayInv => ActiveMatchesSem
  BY CountForms DEF StrayInv
<1> QED
  BY <1>1, StrayInvariant, PTL

\* active stays between 0 and max plus the pending Adds of Release.
THEOREM ActiveBounded == Spec => []ActiveBounds
<1>1. PoolInv => ActiveBounds
  <2> SUFFICES ASSUME PoolInv
               PROVE  ActiveBounds
    OBVIOUS
  <2>1. SlotsMatchHolders /\ ActiveMatchesSem /\ TypeOK
    BY CountForms DEF PoolInv, StrayInv
  <2>2. IsFiniteSet(Holders) /\ Entering \in SUBSET Holders
    BY ProcsAssumption, FS_Subset DEF Holders, Entering
  <2>3. IsFiniteSet(Entering) /\ IsFiniteSet(Leaving)
    BY <2>2, ProcsAssumption, FS_Subset DEF Leaving
  <2>4. Cardinality(Entering) <= Cardinality(Holders)
    BY <2>2, FS_Subset
  <2>5. /\ Cardinality(Holders) \in Nat /\ Cardinality(Entering) \in Nat
        /\ Cardinality(Leaving) \in Nat
    BY <2>2, <2>3, FS_CardinalityType
  <2> QED
    BY <2>1, <2>4, <2>5, MaxPositive
    DEF ActiveBounds, SlotsMatchHolders, ActiveMatchesSem, TypeOK
<1> QED
  BY <1>1, PoolInvariant, PTL

\* waiting is exactly the number of blocking acquires in progress.
THEOREM WaitingCounted == Spec => []WaitingExact
<1>1. PoolInv => WaitingExact
  BY CountForms DEF PoolInv, StrayInv
<1> QED
  BY <1>1, PoolInvariant, PTL

\* A goroutine sleeps in the send queue only while every slot is taken.
THEOREM NoLostWakeup == Spec => []ParkedOnlyWhenFull
<1>1. PoolInv => ParkedOnlyWhenFull
  BY QueueForms DEF PoolInv, StrayInv
<1> QED
  BY <1>1, PoolInvariant, PTL

\* Callers do not wait on one another alone: while a goroutine sleeps in the send
\* queue, max others own a slot, and each of these can go on to its Release.
THEOREM WaitsForHolders == Spec => [](sendq # << >> => Cardinality(Holders) = max /\ max >= 1)
<1>1. SlotsMatchHolders /\ ParkedOnlyWhenFull =>
        (sendq # << >> => Cardinality(Holders) = max /\ max >= 1)
  BY MaxPositive DEF SlotsMatchHolders, ParkedOnlyWhenFull
<1> QED
  BY <1>1, SlotsExact, NoLostWakeup, PTL

\* A freed slot goes to the goroutine that has waited longest.
THEOREM FirstComeFirstServed == Spec => NoOvertaking
<1> DEFINE Fair == \A p \in Procs :
                     sendq # << >> /\ p \in Holders' \ Holders => p = Head(sendq)
<1>1. ASSUME PoolInv, [Next]_vars
      PROVE  Fair \/ UNCHANGED vars
  <2> SUFFICES ASSUME NEW q \in Procs, Step(q), sendq # << >>,
                      NEW p \in Procs, p \in Holders', p \notin Holders
               PROVE  p = Head(sendq)
    BY <1>1 DEF Next
  <2>1. sem = max /\ at \in [Procs -> Positions] /\ max \in Nat
    BY <1>1, MaxPositive DEF PoolInv, StrayInv, Queue, TypeOK
  <2>2. Head(sendq) \in Procs
    BY <1>1 DEF PoolInv, StrayInv, TypeOK
  <2>3. CASE Release(q)
    <3>1. CASE Receive(q)
      BY <2>1, <2>2, <3>1 DEF Receive, Holders
    <3>2. CASE ReceiveNothing(q)
      BY <2>1, <3>2 DEF ReceiveNothing, Holders
    <3> QED
      BY <2>3, <3>1, <3>2 DEF Release
  <2>4. CASE Acquire(q)
    BY <2>1, <2>4 DEF Acquire, Holders
  <2>5. CASE Select(q)
    BY <2>1, <2>5 DEF Select, Holders
  <2>6. CASE AcquireBlocking(q) \/ AddActive(q) \/ DeferWaiting(q) \/ Cancel(q) \/ SubActive(q)
    BY <2>1, <2>6 DEF AcquireBlocking, AddActive, DeferWaiting, Cancel, SubActive, Holders
  <2> QED
    BY <2>3, <2>4, <2>5, <2>6 DEF Step
<1>2. PoolInv /\ [Next]_vars => [Fair]_vars
  BY <1>1
<1> QED
  BY <1>2, PoolInvariant, PTL DEF Spec, NoOvertaking

===============================================================================
