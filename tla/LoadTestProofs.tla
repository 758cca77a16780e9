----------------------------- MODULE LoadTestProofs ---------------------------
(***************************************************************************)
(* Proofs about LoadTest, for every number of workers and all durations.   *)
(***************************************************************************)
EXTENDS LoadTest, FiniteSetTheorems, TLAPS

Places == {"none", "top", "dial", "request", "solve", "solution", "served",
           "failed", "backoff", "returned"}
Active == Places \ {"none", "returned"}
InFlight == {"dial", "request", "solve", "solution", "failed"}

\* How many workers f places in V.
Number(f, V) == Cardinality({w \in Workers : f[w] \in V})

One(v, V) == IF v \in V THEN 1 ELSE 0

\* A number of workers is a natural number, and at most all of them.
LEMMA NumberType ==
  ASSUME NEW f, NEW V
  PROVE  /\ Number(f, V) \in Nat /\ Number(f, V) <= workers
         /\ IsFiniteSet({w \in Workers : f[w] \in V})
<1>1. IsFiniteSet(Workers) /\ Cardinality(Workers) = workers
  <2>1. workers \in Nat \ {0} /\ 1 \in Int /\ workers \in Int /\ ~(1 > workers)
    BY LoadTestAssumption
  <2>2. /\ IsFiniteSet(1 .. workers)
        /\ Cardinality(1 .. workers) = IF 1 > workers THEN 0 ELSE workers - 1 + 1
    BY <2>1, FS_Interval
  <2> QED
    BY <2>1, <2>2 DEF Workers
<1>2. {w \in Workers : f[w] \in V} \subseteq Workers
  OBVIOUS
<1> QED
  BY <1>1, <1>2, FS_Subset, FS_CardinalityType DEF Number

\* No worker is in V just when their number is zero.
LEMMA NumberZero ==
  ASSUME NEW f, NEW V
  PROVE  Number(f, V) = 0 <=> \A w \in Workers : f[w] \notin V
<1>1. IsFiniteSet({w \in Workers : f[w] \in V})
  BY NumberType
<1>2. Number(f, V) = 0 <=> {w \in Workers : f[w] \in V} = {}
  BY <1>1, FS_EmptySet DEF Number
<1> QED
  BY <1>2

\* A worker that moves takes its unit from one count to the other.
LEMMA Move ==
  ASSUME NEW w \in Workers, NEW from, NEW to \in Places, NEW V,
         at \in [Workers -> Places], Goto(w, from, to)
  PROVE  Number(at', V) = Number(at, V) + One(to, V) - One(from, V)
<1> DEFINE F == {d \in Workers : at[d] \in V}
           G == {d \in Workers : at'[d] \in V}
<1>1. /\ IsFiniteSet(F) /\ Cardinality(F) \in Nat
      /\ Number(at, V) = Cardinality(F) /\ Number(at', V) = Cardinality(G)
  BY NumberType, Zenon DEF Number
<1>2. at[w] = from /\ at'[w] = to /\ \A d \in Workers \ {w} : at'[d] = at[d]
  BY DEF Goto
<1>3. CASE from \in V <=> to \in V
  <2>1. G = F
    BY <1>2, <1>3
  <2>2. One(to, V) = One(from, V) /\ One(to, V) \in Nat
    BY <1>3 DEF One
  <2> HIDE DEF F, G
  <2> QED
    BY <1>1, <2>1, <2>2
<1>4. CASE to \in V /\ from \notin V
  <2>1. G = F \cup {w} /\ w \notin F
    BY <1>2, <1>4
  <2>2. Cardinality(G) = Cardinality(F) + 1
    BY <2>1, <1>1, FS_AddElement, Zenon
  <2>3. One(to, V) = 1 /\ One(from, V) = 0
    BY <1>4 DEF One
  <2> HIDE DEF F, G
  <2> QED
    BY <1>1, <2>2, <2>3
<1>5. CASE to \notin V /\ from \in V
  <2>1. G = F \ {w} /\ w \in F
    BY <1>2, <1>5
  <2>2. Cardinality(G) = Cardinality(F) - 1
    BY <2>1, <1>1, FS_RemoveElement
  <2>3. One(to, V) = 0 /\ One(from, V) = 1
    BY <1>5 DEF One
  <2> HIDE DEF F, G
  <2> QED
    BY <1>1, <2>2, <2>3
<1> QED
  BY <1>3, <1>4, <1>5

(***************************************************************************)
(* The invariant.                                                          *)
(***************************************************************************)
Types ==
  /\ mainPc \in {"ramp", "select", "wait", "done"} /\ started \in 0 .. workers
  /\ at \in [Workers -> Places]
  /\ stats \in [total : Nat, success : Nat, failed : Nat, solves : Nat, trips : Nat]
  /\ printer \in {"none", "idle", "total", "success", "failed", "returned"}
  /\ line \in [total : Nat, success : Nat, failed : Nat]

\* Every counter is behind another by the workers at some point of doRequest.
Counts ==
  /\ wg = Number(at, Active)
  /\ stats.total = stats.success + stats.failed + Number(at, InFlight)
  /\ stats.success = stats.trips + Number(at, {"served"})
  /\ stats.success + Number(at, {"solution"}) <= stats.solves

\* main has waited for every worker it started.
Waited ==
  /\ \A w \in Workers : at[w] = "none" <=> w > started
  /\ mainPc # "ramp" => started = workers
  /\ mainPc = "done" => wg = 0

\* The line that is being put together.
Line ==
  /\ printer = "success" => line.total <= stats.success + stats.failed + workers
  /\ printer = "failed" => line.total <= line.success + stats.failed + workers
  /\ printer = "none" => line.total = 0
  /\ mainPc = "ramp" => printer = "none"
  /\ LiveLag

LInv == Types /\ Counts /\ Waited /\ Line

\* The invariant holds at the start.
LEMMA InitLInv == Init => LInv
<1> SUFFICES ASSUME Init PROVE LInv
  OBVIOUS
<1>0. workers \in Nat \ {0}
  BY LoadTestAssumption
<1>1. \A w \in Workers : at[w] = "none"
  BY DEF Init
<1>2. \A V : "none" \notin V => Number(at, V) = 0
  BY <1>1, NumberZero
<1>3. /\ Number(at, Active) = 0 /\ Number(at, InFlight) = 0
      /\ Number(at, {"served"}) = 0 /\ Number(at, {"solution"}) = 0
  BY <1>2 DEF Active, InFlight
<1>4. Types
  BY <1>0 DEF Init, Types, Places
<1>5. Counts
  BY <1>3 DEF Init, Counts
<1>6. Waited
  BY <1>0, <1>1 DEF Init, Waited, Workers
<1>7. Line
  BY <1>0 DEF Init, Line, LiveLag
<1> QED
  BY <1>4, <1>5, <1>6, <1>7 DEF LInv

(***************************************************************************)
(* The steps.                                                              *)
(***************************************************************************)
\* What a step adds to the counters.
Adds(t, s, f, v, r) ==
  /\ stats' \in [total : Nat, success : Nat, failed : Nat, solves : Nat, trips : Nat]
  /\ stats'.total = stats.total + t /\ stats'.success = stats.success + s
  /\ stats'.failed = stats.failed + f /\ stats'.solves = stats.solves + v
  /\ stats'.trips = stats.trips + r

\* Count adds one to its counter.
LEMMA Counted ==
  ASSUME Types
  PROVE  /\ Count("total") => Adds(1, 0, 0, 0, 0)
         /\ Count("success") => Adds(0, 1, 0, 0, 0)
         /\ Count("failed") => Adds(0, 0, 1, 0, 0)
         /\ Count("solves") => Adds(0, 0, 0, 1, 0)
         /\ Count("trips") => Adds(0, 0, 0, 0, 1)
         /\ UNCHANGED stats => Adds(0, 0, 0, 0, 0)
BY DEF Types, Count, Adds

\* How a move from one place to another weighs in the counts.
Weighs(from, to, d, i, s, o) ==
  /\ from \in Active /\ to \in Places \ {"none"}
  /\ One(to, Active) - One(from, Active) = d
  /\ One(to, InFlight) - One(from, InFlight) = i
  /\ One(to, {"served"}) - One(from, {"served"}) = s
  /\ One(to, {"solution"}) - One(from, {"solution"}) = o

\* The moves of a worker.
LEMMA Weights ==
  /\ Weighs("top", "returned", -1, 0, 0, 0) /\ Weighs("backoff", "returned", -1, 0, 0, 0)
  /\ Weighs("top", "dial", 0, 1, 0, 0) /\ Weighs("dial", "request", 0, 0, 0, 0)
  /\ Weighs("request", "solve", 0, 0, 0, 0) /\ Weighs("solve", "solution", 0, 0, 0, 1)
  /\ Weighs("solution", "served", 0, -1, 1, -1) /\ Weighs("served", "top", 0, 0, -1, 0)
  /\ Weighs("dial", "failed", 0, 0, 0, 0) /\ Weighs("request", "failed", 0, 0, 0, 0)
  /\ Weighs("solve", "failed", 0, 0, 0, 0) /\ Weighs("solution", "failed", 0, 0, 0, -1)
  /\ Weighs("failed", "backoff", 0, -1, 0, 0) /\ Weighs("backoff", "top", 0, 0, 0, 0)
BY DEF Weighs, One, Active, Places, InFlight

\* A move whose weight the counters follow preserves the invariant.
LEMMA WorkerMoves ==
  ASSUME LInv, NEW w \in Workers, NEW from, NEW to, Goto(w, from, to),
         NEW d \in Int, NEW i \in Int, NEW s \in Nat, NEW f \in Nat, NEW v \in Nat,
         NEW r \in Nat, NEW o \in Int, NEW t \in Nat,
         Weighs(from, to, d, i, s - r, o), Adds(t, s, f, v, r),
         t = s + f + i, s + o <= v, wg' = wg + d,
         UNCHANGED <<mainPc, started, printer, line>>
  PROVE  LInv'
<1>1. /\ from \in Active /\ to \in Places /\ to # "none" /\ from # "none"
      /\ at \in [Workers -> Places]
  BY DEF Weighs, LInv, Types, Active
<1>2. \A V : /\ Number(at', V) = Number(at, V) + One(to, V) - One(from, V)
             /\ Number(at, V) \in Nat /\ One(to, V) \in Int /\ One(from, V) \in Int
  <2> TAKE V
  <2>1. Number(at', V) = Number(at, V) + One(to, V) - One(from, V)
    BY <1>1, Move
  <2>2. Number(at, V) \in Nat
    BY NumberType, Zenon
  <2>3. One(to, V) \in Int /\ One(from, V) \in Int
    BY DEF One
  <2> QED
    BY <2>1, <2>2, <2>3
<1> DEFINE A == Number(at, Active)
           I == Number(at, InFlight)
           S == Number(at, {"served"})
           O == Number(at, {"solution"})
<1>3. /\ A \in Nat /\ I \in Nat /\ S \in Nat /\ O \in Nat
      /\ Number(at', Active) = A + d /\ Number(at', InFlight) = I + i
      /\ Number(at', {"served"}) = S + (s - r) /\ Number(at', {"solution"}) = O + o
  BY <1>2 DEF Weighs
<1>4. /\ at[w] = from /\ at' \in [Workers -> Places] /\ at'[w] = to
      /\ \A x \in Workers \ {w} : at'[x] = at[x]
  BY <1>1 DEF Goto
<1>5. Types'
  BY <1>4 DEF LInv, Types, Adds
<1>6. Counts'
  <2>1. /\ wg = A /\ stats.total = stats.success + stats.failed + I
        /\ stats.success = stats.trips + S /\ stats.success + O <= stats.solves
        /\ stats.total \in Nat /\ stats.success \in Nat /\ stats.failed \in Nat
        /\ stats.trips \in Nat /\ stats.solves \in Nat
    BY DEF LInv, Counts, Types
  <2> HIDE DEF A, I, S, O
  <2>2. wg' = Number(at', Active)
    BY <1>3, <2>1
  <2>3. stats'.total = stats'.success + stats'.failed + Number(at', InFlight)
    BY <1>3, <2>1 DEF Adds
  <2>4. stats'.success = stats'.trips + Number(at', {"served"})
    BY <1>3, <2>1 DEF Adds
  <2>5. stats'.success + Number(at', {"solution"}) <= stats'.solves
    BY <1>3, <2>1 DEF Adds
  <2> QED
    BY <2>2, <2>3, <2>4, <2>5 DEF Counts
<1>7. Waited'
  <2>1. mainPc # "done"
    <3>1. A # 0
      BY <1>1, <1>4, NumberZero
    <3> QED
      BY <3>1 DEF LInv, Counts, Waited
  <2> QED
    BY <1>1, <1>4, <2>1 DEF LInv, Waited
<1>8. Line'
  <2>1. /\ stats.success \in Nat /\ stats.failed \in Nat /\ workers \in Nat
        /\ line.total \in Nat /\ line.success \in Nat
    BY LoadTestAssumption DEF LInv, Types
  <2>2. stats'.success = stats.success + s /\ stats'.failed = stats.failed + f
    BY DEF Adds
  <2> QED
    BY <2>1, <2>2 DEF LInv, Line, LiveLag
<1> QED
  BY <1>5, <1>6, <1>7, <1>8 DEF LInv

\* runWorker and doRequest.
LEMMA WorkerStepLInv ==
  ASSUME LInv, NEW w \in Workers, WorkerStep(w)
  PROVE  LInv'
<1>0. Types /\ wg \in Int /\ wg + 0 = wg /\ wg + (-1) = wg - 1
  <2>1. wg \in Nat
    BY NumberType, Zenon DEF LInv, Counts
  <2> QED
    BY <2>1 DEF LInv
<1> USE DEF Elsewhere, mainVars, printerVars
<1>1. CASE Over /\ Return(w, "top")
  BY <1>1, <1>0, WorkerMoves, Weights, Counted DEF Return
<1>2. CASE cancelled /\ Return(w, "backoff")
  BY <1>2, <1>0, WorkerMoves, Weights, Counted DEF Return
<1>3. CASE BeginRequest(w)
  BY <1>3, <1>0, WorkerMoves, Weights, Counted DEF BeginRequest
<1>4. CASE Dialled(w)
  BY <1>4, <1>0, WorkerMoves, Weights, Counted DEF Dialled
<1>5. CASE Challenged(w)
  BY <1>5, <1>0, WorkerMoves, Weights, Counted DEF Challenged
<1>6. CASE Solved(w)
  BY <1>6, <1>0, WorkerMoves, Weights, Counted DEF Solved
<1>7. CASE Served(w)
  BY <1>7, <1>0, WorkerMoves, Weights, Counted DEF Served
<1>8. CASE AddRoundTrip(w)
  BY <1>8, <1>0, WorkerMoves, Weights, Counted DEF AddRoundTrip
<1>9. CASE RequestFails(w)
  BY <1>9, <1>0, WorkerMoves, Weights, Counted DEF RequestFails
<1>10. CASE CountFailure(w)
  BY <1>10, <1>0, WorkerMoves, Weights, Counted DEF CountFailure
<1>11. CASE BackedOff(w)
  BY <1>11, <1>0, WorkerMoves, Weights, Counted DEF BackedOff
<1> QED
  BY <1>1, <1>2, <1>3, <1>4, <1>5, <1>6, <1>7, <1>8, <1>9, <1>10, <1>11 DEF WorkerStep

\* main starts a worker.
LEMMA StartWorkerLInv ==
  ASSUME LInv, StartWorker
  PROVE  LInv'
<1> DEFINE w == started + 1
<1>1. /\ workers \in Nat /\ started \in Nat /\ started < workers /\ w \in Workers
      /\ at[w] = "none" /\ at \in [Workers -> Places] /\ mainPc = "ramp"
  <2>1. workers \in Nat /\ started \in Nat /\ started < workers /\ mainPc = "ramp"
    BY LoadTestAssumption DEF LInv, Types, StartWorker
  <2>2. w \in Workers /\ w > started
    BY <2>1 DEF Workers
  <2>3. at[w] = "none" /\ at \in [Workers -> Places]
    BY <2>2, Zenon DEF LInv, Types, Waited
  <2> QED
    BY <2>1, <2>2, <2>3
<1>2. Goto(w, "none", "top") /\ UNCHANGED <<mainPc, stats, printer, line>>
      /\ started' = w /\ wg' = wg + 1
  BY <1>1 DEF StartWorker, Goto, printerVars
<1> HIDE DEF w
<1>3. /\ at' \in [Workers -> Places] /\ at'[w] = "top"
      /\ \A x \in Workers \ {w} : at'[x] = at[x]
  BY <1>1, <1>2 DEF Goto, Places
<1>4. \A V : Number(at', V) = Number(at, V) + One("top", V) - One("none", V)
  BY <1>1, <1>2, Move DEF Places
<1>5. \A V : Number(at, V) \in Nat
  BY NumberType, Zenon
<1>6. Counts'
  <2>1. /\ Number(at', Active) = Number(at, Active) + 1
        /\ Number(at', InFlight) = Number(at, InFlight)
        /\ Number(at', {"served"}) = Number(at, {"served"})
        /\ Number(at', {"solution"}) = Number(at, {"solution"})
    BY <1>4, <1>5 DEF One, Active, Places, InFlight
  <2> QED
    BY <1>2, <2>1 DEF LInv, Counts
<1>7. Types' /\ Line'
  BY <1>1, <1>2, <1>3 DEF LInv, Types, Line, LiveLag, w
<1>8. Waited'
  <2>1. \A x \in Workers : at'[x] = "none" <=> x > started'
    BY <1>1, <1>2, <1>3 DEF LInv, Waited, Workers, w
  <2> QED
    BY <1>1, <1>2, <2>1 DEF Waited
<1> QED
  BY <1>6, <1>7, <1>8 DEF LInv

\* The rest of main, the printer, a signal and the clock.
LEMMA OtherLInv ==
  ASSUME LInv, \/ AllStarted \/ Select \/ Wait \/ Signal \/ PrinterStep \/ Tick
               \/ UNCHANGED vars
  PROVE  LInv'
<1> USE DEF mainVars, workerVars, printerVars
<1>1. /\ at' = at /\ stats' = stats /\ wg' = wg /\ started' = started
      /\ mainPc' = mainPc \/ (mainPc = "ramp" /\ started = workers /\ mainPc' = "select")
         \/ (mainPc = "select" /\ mainPc' = "wait") \/ (mainPc = "wait" /\ wg = 0 /\ mainPc' = "done")
  BY DEF AllStarted, Select, Wait, Signal, PrinterStep, TickerFires, PrinterReturns, Load,
         Tick, vars
<1>2. Counts' /\ Waited'
  BY <1>1 DEF LInv, Counts, Waited
<1>3. /\ stats.total \in Nat /\ stats.success \in Nat /\ stats.failed \in Nat
      /\ workers \in Nat /\ stats.total <= stats.success + stats.failed + workers
  <2>1. Number(at, InFlight) \in Nat /\ Number(at, InFlight) <= workers /\ workers \in Nat
    BY NumberType, LoadTestAssumption, Zenon
  <2>2. /\ stats.total \in Nat /\ stats.success \in Nat /\ stats.failed \in Nat
        /\ stats.total = stats.success + stats.failed + Number(at, InFlight)
    BY DEF LInv, Types, Counts
  <2> QED
    BY <2>1, <2>2
<1>a. printer \in {"total", "success", "failed", "idle"} => mainPc' # "ramp"
  BY <1>1 DEF LInv, Line
<1>4. CASE Load("total", "success")
  BY <1>1, <1>2, <1>3, <1>a, <1>4 DEF Load, LInv, Types, Line, LiveLag
<1>5. CASE Load("success", "failed")
  BY <1>1, <1>2, <1>3, <1>a, <1>5 DEF Load, LInv, Types, Line, LiveLag
<1>6. CASE Load("failed", "idle")
  BY <1>1, <1>2, <1>3, <1>a, <1>6 DEF Load, LInv, Types, Line, LiveLag
<1>7. CASE TickerFires
  BY <1>1, <1>2, <1>3, <1>a, <1>7 DEF TickerFires, LInv, Types, Line, LiveLag
<1>8. CASE line' = line /\ (printer' = printer \/ (printer = "idle" /\ printer' = "returned"))
  BY <1>1, <1>2, <1>8 DEF LInv, Types, Line, LiveLag
<1>9. CASE AllStarted
  <2>1. line.total <= line.success + line.failed + workers
    BY <1>3, <1>9 DEF LInv, Types, Line, AllStarted
  <2> QED
    BY <1>1, <1>2, <1>9, <2>1 DEF AllStarted, LInv, Types, Line, LiveLag
<1> QED
  BY <1>4, <1>5, <1>6, <1>7, <1>8, <1>9 DEF Select, Wait, Signal, PrinterStep,
     PrinterReturns, Tick, vars

\* Every step preserves the invariant.
LEMMA NextLInv == LInv /\ [Next]_vars => LInv'
BY WorkerStepLInv, StartWorkerLInv, OtherLInv DEF Next, MainStep

\* Everything the counters and the live line maintain, together.
THEOREM LoadTestInvariant == Spec => []LInv
BY InitLInv, NextLInv, PTL DEF Spec

\* Spec implies FinalAddsUp: what printFinalStats prints adds up, for any number
\* of workers and however the test ended.
THEOREM FinalStatsAddUp == Spec => []FinalAddsUp
<1>1. LInv => FinalAddsUp
  <2> SUFFICES ASSUME LInv, mainPc = "done" PROVE FinalAddsUp
    BY DEF FinalAddsUp
  <2>1. Number(at, Active) = 0
    BY DEF LInv, Counts, Waited
  <2>2. \A w \in Workers : at[w] \notin Active
    BY <2>1, NumberZero
  <2>3. Number(at, InFlight) = 0 /\ Number(at, {"served"}) = 0 /\ Number(at, {"solution"}) = 0
    BY <2>2, NumberZero DEF Active, Places, InFlight
  <2> QED
    BY <2>3 DEF LInv, Counts, Types, FinalAddsUp
<1> QED
  BY <1>1, LoadTestInvariant, PTL

\* main's wg.Wait sleeps exactly while some worker has its wg.Done ahead of it.
THEOREM MainWaitsForWorkers == Spec => [](wg # 0 <=> \E w \in Workers : at[w] \in Active)
<1>1. LInv => (wg # 0 <=> \E w \in Workers : at[w] \in Active)
  BY NumberZero DEF LInv, Counts
<1> QED
  BY <1>1, LoadTestInvariant, PTL

\* Spec implies LiveLag: a line of printLiveStats hides at most one request of
\* each worker.
THEOREM LiveLineLags == Spec => []LiveLag
<1>1. LInv => LiveLag
  BY DEF LInv, Line
<1> QED
  BY <1>1, LoadTestInvariant, PTL

(***************************************************************************)
(* The time that the tool takes.                                           *)
(***************************************************************************)
\* When the last worker is started, and when the last request must have ended.
RampEnd == (workers - 1) * workerDelay
LastDeadline == duration + connTimeout + ConnDeadline

\* The constants are numbers.
LEMMA Durations ==
  /\ workers \in Nat \ {0} /\ workerDelay \in Nat /\ RampEnd \in Nat
  /\ duration \in Nat /\ connTimeout \in Nat /\ ConnDeadline \in Nat /\ Backoff \in Nat
  /\ LastDeadline = duration + connTimeout + ConnDeadline /\ LastDeadline \in Nat
<1>1. /\ workers \in Nat \ {0} /\ rampUp \in Nat /\ duration \in Nat /\ connTimeout \in Nat
      /\ ConnDeadline \in Nat /\ Backoff \in Nat
  BY LoadTestAssumption
<1>2. workerDelay \in Nat
  BY <1>1 DEF workerDelay
<1>3. RampEnd \in Nat
  <2>1. workers - 1 \in Nat
    BY <1>1
  <2> QED
    BY <1>2, <2>1 DEF RampEnd
<1> QED
  BY <1>1, <1>2, <1>3 DEF LastDeadline

\* A worker that is not the last is started no later than the last.
LEMMA RampOrder ==
  ASSUME NEW n \in Nat, n < workers
  PROVE  n * workerDelay <= RampEnd /\ n * workerDelay \in Nat
<1> DEFINE m == (workers - 1) - n
           d == workerDelay
<1>1. m \in Nat /\ d \in Nat /\ workers - 1 = n + m
  BY Durations
<1> HIDE DEF m, d
<1>2. (n + m) * d = n * d + m * d /\ m * d \in Nat /\ n * d \in Nat
  BY <1>1
<1>3. RampEnd = n * d + m * d
  BY <1>1, <1>2 DEF RampEnd, d
<1> QED
  BY <1>2, <1>3 DEF d

\* The deadlines of the requests, of main's select, and the clock.
Deadline(p, t) ==
  /\ t \in Nat
  /\ p = "dial" => t <= duration + connTimeout
  /\ p \in {"request", "solve", "solution", "served"} => t <= LastDeadline

Clock ==
  /\ clock \in Nat /\ selectBy \in Nat
  /\ \A w \in Workers : Deadline(at[w], by[w])
  /\ by \in [Workers -> Nat]
  /\ mainPc = "ramp" => clock <= RampEnd /\ (started < workers => clock <= started * workerDelay)
  /\ mainPc # "ramp" => selectBy <= duration + RampEnd
  /\ mainPc \in {"wait", "done"} => cancelled
  /\ clock <= duration + RampEnd \/ clock <= LastDeadline

\* The clock starts at zero.
LEMMA InitClock == Init => Clock
<1> SUFFICES ASSUME Init PROVE Clock
  OBVIOUS
<1>1. \A w \in Workers : Deadline(at[w], by[w])
  BY DEF Init, Deadline
<1>2. 0 * workerDelay = 0
  BY Durations
<1> QED
  BY <1>1, <1>2, Durations DEF Init, Clock

\* A worker goes somewhere and has until t.
Rescheduled(w, to, t) ==
  /\ to \in Places /\ t \in Nat /\ Deadline(to, t)
  /\ at' = [at EXCEPT ![w] = to] /\ by' = [by EXCEPT ![w] = t]

Reschedules(w) == \E to, t : Rescheduled(w, to, t)

\* A worker moves on.
LEMMA WorkerClock ==
  ASSUME Types, Clock, NEW w \in Workers, WorkerStep(w)
  PROVE  Clock'
<1> USE DEF Elsewhere, mainVars, printerVars
<1>0. Reschedules(w)
  <2>1. clock \in Nat /\ by \in [Workers -> Nat] /\ by[w] \in Nat /\ Deadline(at[w], by[w])
        /\ by = [by EXCEPT ![w] = by[w]]
    BY DEF Clock
  <2>2. CASE Return(w, "top") \/ Return(w, "backoff")
    <3>1. Rescheduled(w, "returned", 0)
      BY <2>2 DEF Return, Goto, Unblock, Deadline, Places, Rescheduled
    <3> QED
      BY <3>1 DEF Reschedules
  <2>3. CASE BeginRequest(w)
    <3>1. Rescheduled(w, "dial", clock + connTimeout)
      BY <2>1, <2>3, Durations DEF BeginRequest, Goto, Over, Block, Deadline, Places, Rescheduled
    <3> QED
      BY <3>1 DEF Reschedules
  <2>4. CASE Dialled(w)
    <3>1. Rescheduled(w, "request", clock + ConnDeadline)
      BY <2>1, <2>4, Durations DEF Dialled, Goto, Block, Deadline, Places, Rescheduled
    <3> QED
      BY <3>1 DEF Reschedules
  <2>5. CASE Challenged(w)
    <3>1. Rescheduled(w, "solve", by[w])
      BY <2>1, <2>5, Durations DEF Challenged, Goto, Deadline, Places, Rescheduled
    <3> QED
      BY <3>1 DEF Reschedules
  <2>6. CASE Solved(w)
    <3>1. Rescheduled(w, "solution", by[w])
      BY <2>1, <2>6, Durations DEF Solved, Goto, Deadline, Places, Rescheduled
    <3> QED
      BY <3>1 DEF Reschedules
  <2>7. CASE Served(w)
    <3>1. Rescheduled(w, "served", by[w])
      BY <2>1, <2>7, Durations DEF Served, Goto, Deadline, Places, Rescheduled
    <3> QED
      BY <3>1 DEF Reschedules
  <2>8. CASE AddRoundTrip(w)
    <3>1. Rescheduled(w, "top", 0)
      BY <2>1, <2>8, Durations DEF AddRoundTrip, Goto, Unblock, Deadline, Places, Rescheduled
    <3> QED
      BY <3>1 DEF Reschedules
  <2>9. CASE RequestFails(w)
    <3>1. Rescheduled(w, "failed", 0)
      BY <2>1, <2>9, Durations DEF RequestFails, Goto, Unblock, Deadline, Places, Rescheduled
    <3> QED
      BY <3>1 DEF Reschedules
  <2>10. CASE CountFailure(w)
    <3>1. Rescheduled(w, "backoff", clock + Backoff)
      BY <2>1, <2>10, Durations DEF CountFailure, Goto, Block, Deadline, Places, Rescheduled
    <3> QED
      BY <3>1 DEF Reschedules
  <2>11. CASE BackedOff(w)
    <3>1. Rescheduled(w, "top", 0)
      BY <2>1, <2>11, Durations DEF BackedOff, Goto, Unblock, Deadline, Places, Rescheduled
    <3> QED
      BY <3>1 DEF Reschedules
  <2> QED
    BY <2>2, <2>3, <2>4, <2>5, <2>6, <2>7, <2>8, <2>9, <2>10, <2>11 DEF WorkerStep
<1>1. PICK to, t : Rescheduled(w, to, t)
  BY <1>0 DEF Reschedules
<1>2. UNCHANGED <<mainPc, started, selectBy, cancelled, clock>>
  BY DEF WorkerStep, Return, BeginRequest, Dialled, Challenged, Solved, Served, AddRoundTrip,
         RequestFails, CountFailure, BackedOff
<1>3. \A x \in Workers : Deadline(at'[x], by'[x])
  <2> TAKE x \in Workers
  <2>1. CASE x = w
    <3>1. at'[w] = to /\ by'[w] = t
      BY <1>1, Zenon DEF Types, Clock, Rescheduled
    <3> QED
      BY <1>1, <2>1, <3>1 DEF Rescheduled
  <2>2. CASE x # w
    <3>1. at'[x] = at[x] /\ by'[x] = by[x]
      BY <1>1, <2>2 DEF Types, Clock, Rescheduled
    <3> QED
      BY <3>1 DEF Clock
  <2> QED
    BY <2>1, <2>2
<1>4. by' \in [Workers -> Nat]
  BY <1>1 DEF Clock, Rescheduled
<1> QED
  BY <1>2, <1>3, <1>4 DEF Clock

\* main moves on, or a signal arrives.
LEMMA MainClock ==
  ASSUME Types, Waited, Clock, MainStep \/ Signal
  PROVE  Clock'
<1> USE DEF mainVars, workerVars
<1>1. CASE StartWorker
  <2>1. /\ started \in Nat /\ started < workers /\ started' = started + 1 /\ mainPc = "ramp"
        /\ UNCHANGED <<mainPc, selectBy, by, cancelled, clock>>
        /\ at' = [at EXCEPT ![started + 1] = "top"] /\ clock <= RampEnd
        /\ clock <= started * workerDelay /\ clock \in Nat
    BY <1>1 DEF StartWorker, Types, Clock
  <2>2. started + 1 < workers => clock <= (started + 1) * workerDelay
    <3> DEFINE d == workerDelay
               n == started
    <3>1. d \in Nat /\ n \in Nat
      BY <2>1, Durations
    <3> HIDE DEF d, n
    <3>2. (n + 1) * d = n * d + d /\ n * d \in Nat
      BY <3>1
    <3> QED
      BY <2>1, <3>1, <3>2 DEF d, n
  <2>3. \A w \in Workers : Deadline(at'[w], by[w])
    <3> TAKE w \in Workers
    <3>1. Deadline(at[w], by[w])
      BY DEF Clock
    <3>2. at'[w] = at[w] \/ at'[w] = "top"
      BY <2>1 DEF Types
    <3> QED
      BY <3>1, <3>2 DEF Deadline
  <2> QED
    BY <2>1, <2>2, <2>3 DEF Clock
<1>2. CASE AllStarted
  <2>1. selectBy' \in Nat /\ selectBy' <= duration + RampEnd
    BY <1>2, Durations DEF AllStarted, Clock
  <2> QED
    BY <1>2, <2>1 DEF AllStarted, Clock
<1>3. CASE Select \/ Wait \/ Signal
  BY <1>3 DEF Select, Wait, Signal, Clock
<1> QED
  BY <1>1, <1>2, <1>3 DEF MainStep

\* Time passes only while main sleeps, or a request that it waits for is
\* within its deadline.
LEMMA TickClock ==
  ASSUME Types, Waited, Clock, Tick
  PROVE  Clock'
<1>1. /\ clock' = clock + 1 /\ MainBlocked /\ \A w \in Workers : Blocked(w)
      /\ UNCHANGED <<mainPc, started, selectBy, at, by, cancelled>> /\ clock \in Nat
  BY DEF Tick, mainVars, workerVars, Clock
<1>2. CASE mainPc = "ramp"
  <2>1. started \in Nat /\ started < workers /\ clock < started * workerDelay
    BY <1>1, <1>2 DEF MainBlocked, Types
  <2>2. started * workerDelay <= RampEnd /\ started * workerDelay \in Nat
    BY <2>1, RampOrder
  <2>3. clock + 1 <= started * workerDelay /\ clock + 1 <= RampEnd
    BY <1>1, <2>1, <2>2, Durations
  <2>4. clock + 1 <= duration + RampEnd
    BY <1>1, <2>3, Durations
  <2> QED
    BY <1>1, <1>2, <2>3, <2>4 DEF Clock
<1>3. CASE mainPc = "select"
  <2>1. clock < selectBy /\ selectBy \in Nat /\ selectBy <= duration + RampEnd
    BY <1>1, <1>3 DEF MainBlocked, Clock
  <2>2. clock + 1 <= duration + RampEnd
    BY <1>1, <2>1, Durations
  <2> QED
    BY <1>1, <1>3, <2>2 DEF Clock
<1>4. CASE mainPc = "wait"
  <2>1. PICK w \in Workers : at[w] # "returned"
    BY <1>1, <1>4 DEF MainBlocked
  <2>2. cancelled /\ at[w] # "none"
    <3>1. started = workers /\ w <= workers /\ cancelled
      BY <1>4 DEF Waited, Workers, Clock
    <3> QED
      BY <3>1, Durations DEF Waited, Workers
  <2>3. at[w] \in {"request", "solution"} /\ clock < by[w]
    BY <1>1, <2>1, <2>2 DEF Blocked, Over
  <2>4. by[w] \in Nat /\ by[w] <= LastDeadline
    BY <2>3 DEF Clock, Deadline
  <2>5. clock + 1 <= LastDeadline
    BY <1>1, <2>3, <2>4, Durations
  <2> QED
    BY <1>1, <1>4, <2>5 DEF Clock
<1> QED
  BY <1>1, <1>2, <1>3, <1>4 DEF MainBlocked

\* Spec implies ExitBound: the tool comes back within its duration and the
\* ramp-up, or the deadline of a request begun in the last moment.
THEOREM ToolExitsInTime == Spec => []ExitBound
<1>1. LInv /\ Clock /\ [Next]_vars => Clock'
  <2> SUFFICES ASSUME Types, Waited, Clock, [Next]_vars PROVE Clock'
    BY Zenon DEF LInv
  <2>1. CASE PrinterStep \/ UNCHANGED vars
    BY <2>1 DEF PrinterStep, TickerFires, PrinterReturns, Load, vars, mainVars, workerVars, Clock
  <2> QED
    BY <2>1, WorkerClock, MainClock, TickClock DEF Next
<1>2. Clock => ExitBound
  <2> SUFFICES ASSUME Clock PROVE ExitBound
    OBVIOUS
  <2>1. clock \in Nat /\ (clock <= duration + RampEnd \/ clock <= LastDeadline)
    BY DEF Clock
  <2> DEFINE c == connTimeout + ConnDeadline
             r == RampEnd
  <2>2. c \in Nat /\ r \in Nat /\ LastDeadline = duration + c /\ duration \in Nat
    BY Durations
  <2>3. clock <= duration + Longer(r, c)
    <3> HIDE DEF c, r
    <3>1. r <= Longer(r, c) /\ c <= Longer(r, c) /\ Longer(r, c) \in Nat
      BY <2>2 DEF Longer
    <3>2. clock <= duration + r \/ clock <= duration + c
      BY <2>1, <2>2 DEF r
    <3> QED
      BY <2>1, <2>2, <3>1, <3>2
  <2> QED
    BY <2>3 DEF ExitBound, RampEnd
<1> QED
  BY <1>1, <1>2, InitClock, LoadTestInvariant, PTL DEF Spec

===============================================================================
