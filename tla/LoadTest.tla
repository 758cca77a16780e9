------------------------------- MODULE LoadTest -------------------------------
(***************************************************************************)
(* The load test tool, cmd/loadtest/main.go: main starts workers one by    *)
(* one, each sends requests in a loop, a goroutine prints the counters     *)
(* while they change, and main waits for the workers and prints the end.   *)
(* Any request may fail at any point.  The rest of the request, between    *)
(* the points where it blocks, takes no time.                              *)
(***************************************************************************)
EXTENDS Integers, FiniteSets

CONSTANTS workers,       \* the flags: how many, at least one
          rampUp, duration, connTimeout,
          ConnDeadline,  \* 60 seconds
          Backoff,       \* 100 ms
          MaxRequests    \* bound: requests in all

ASSUME LoadTestAssumption ==
  /\ workers \in Nat \ {0}
  /\ {rampUp, duration, connTimeout, ConnDeadline, Backoff, MaxRequests} \subseteq Nat

VARIABLES mainPc,     \* ramp, select, wait or done
          started,    \* how many workers have been started
          selectBy,   \* when main's time.After fires
          wg,
          cancelled,  \* ctx is cancelled
          at,         \* where each worker is
          by,         \* the deadline of what it is blocked in
          stats,      \* Stats: requests, and the samples in the two sums
          printer,    \* none, idle, or the counter it loads next
          line,       \* what it has loaded
          clock       \* since startTime

mainVars == <<mainPc, started, selectBy, wg>>
workerVars == <<at, by, stats>>
printerVars == <<printer, line>>
vars == <<mainVars, workerVars, printerVars, cancelled, clock>>

Workers == 1 .. workers
workerDelay == rampUp \div workers

Init ==
  /\ mainPc = "ramp" /\ started = 0 /\ selectBy = 0 /\ wg = 0 /\ cancelled = FALSE
  /\ at = [w \in Workers |-> "none"] /\ by = [w \in Workers |-> 0]
  /\ stats = [total |-> 0, success |-> 0, failed |-> 0, solves |-> 0, trips |-> 0]
  /\ printer = "none" /\ line = [total |-> 0, success |-> 0, failed |-> 0]
  /\ clock = 0

(***************************************************************************)
(* main.                                                                   *)
(***************************************************************************)
\* The sleep after each worker but the last is not cut short by ctx.
StartWorker ==
  /\ mainPc = "ramp" /\ started < workers /\ clock >= started * workerDelay
  /\ started' = started + 1 /\ wg' = wg + 1
  /\ at' = [at EXCEPT ![started + 1] = "top"]
  /\ UNCHANGED <<mainPc, selectBy, by, stats, printerVars, cancelled, clock>>

AllStarted ==
  /\ mainPc = "ramp" /\ started = workers
  /\ mainPc' = "select" /\ selectBy' = clock + duration
  /\ printer' = "idle"
  /\ UNCHANGED <<started, wg, workerVars, line, cancelled, clock>>

Select ==
  /\ mainPc = "select" /\ (cancelled \/ clock >= selectBy)
  /\ mainPc' = "wait" /\ cancelled' = TRUE
  /\ UNCHANGED <<started, selectBy, wg, workerVars, printerVars, clock>>

\* wg.Wait, then printFinalStats.
Wait ==
  /\ mainPc = "wait" /\ wg = 0
  /\ mainPc' = "done"
  /\ UNCHANGED <<started, selectBy, wg, workerVars, printerVars, cancelled, clock>>

\* The goroutine that waits for a signal.
Signal ==
  /\ mainPc # "done" /\ ~cancelled
  /\ cancelled' = TRUE
  /\ UNCHANGED <<mainVars, workerVars, printerVars, clock>>

(***************************************************************************)
(* runWorker and doRequest.                                                *)
(***************************************************************************)
Goto(w, from, to) == at[w] = from /\ at' = [at EXCEPT ![w] = to]
Block(w, time) == by' = [by EXCEPT ![w] = clock + time]
Unblock(w) == by' = [by EXCEPT ![w] = 0]
Count(counter) == stats' = [stats EXCEPT ![counter] = @ + 1]
Elsewhere == UNCHANGED <<mainVars, printerVars, cancelled, clock>>

Over == cancelled \/ clock > duration

\* Mutant: a worker that sees the end does not call wg.Done.
Return_NoDone(w, from) ==
  /\ Goto(w, from, "returned")
  /\ UNCHANGED <<mainPc, started, selectBy, wg, by, stats, printerVars, cancelled, clock>>

Return(w, from) ==
  /\ Goto(w, from, "returned") /\ Unblock(w)
  /\ wg' = wg - 1
  /\ UNCHANGED <<mainPc, started, selectBy, stats, printerVars, cancelled, clock>>

\* The top of the loop, and the count at the top of doRequest.
BeginRequest(w) ==
  /\ ~Over /\ stats.total < MaxRequests
  /\ Goto(w, "top", "dial") /\ Block(w, connTimeout) /\ Count("total")
  /\ Elsewhere

\* Mutant: no SetDeadline.
Dialled_NoDeadline(w) ==
  /\ clock <= by[w]
  /\ Goto(w, "dial", "request") /\ Block(w, 10 * ConnDeadline) /\ UNCHANGED stats
  /\ Elsewhere

Dialled(w) ==
  /\ clock <= by[w]
  /\ Goto(w, "dial", "request") /\ Block(w, ConnDeadline) /\ UNCHANGED stats
  /\ Elsewhere

\* The request is written and a challenge read.
Challenged(w) ==
  /\ clock <= by[w]
  /\ Goto(w, "request", "solve") /\ UNCHANGED <<by, stats>>
  /\ Elsewhere

Solved(w) ==
  /\ Goto(w, "solve", "solution") /\ Count("solves") /\ UNCHANGED by
  /\ Elsewhere

\* The solution is written and a quote read.
Served(w) ==
  /\ clock <= by[w]
  /\ Goto(w, "solution", "served") /\ Count("success") /\ UNCHANGED by
  /\ Elsewhere

AddRoundTrip(w) ==
  /\ Goto(w, "served", "top") /\ Count("trips") /\ Unblock(w)
  /\ Elsewhere

\* doRequest returns an error, from any of its steps: the dial or the solver
\* by ctx, a read or a write by the deadline, or any other.
RequestFails(w) ==
  /\ \E from \in {"dial", "request", "solve", "solution"} : Goto(w, from, "failed")
  /\ Unblock(w) /\ UNCHANGED stats
  /\ Elsewhere

\* Mutant: only failures while the test runs are counted.
CountFailure_WhileRunning(w) ==
  /\ Goto(w, "failed", "backoff") /\ Block(w, Backoff)
  /\ IF cancelled THEN UNCHANGED stats ELSE Count("failed")
  /\ Elsewhere

CountFailure(w) ==
  /\ Goto(w, "failed", "backoff") /\ Block(w, Backoff) /\ Count("failed")
  /\ Elsewhere

BackedOff(w) ==
  /\ clock >= by[w]
  /\ Goto(w, "backoff", "top") /\ Unblock(w) /\ UNCHANGED stats
  /\ Elsewhere

WorkerStep(w) ==
  \/ Over /\ Return(w, "top")
  \/ cancelled /\ Return(w, "backoff")
  \/ BeginRequest(w) \/ Dialled(w) \/ Challenged(w) \/ Solved(w) \/ Served(w)
  \/ AddRoundTrip(w) \/ RequestFails(w) \/ CountFailure(w) \/ BackedOff(w)

(***************************************************************************)
(* printLiveStats loads the counters one after another.                    *)
(***************************************************************************)
Load(counter, next) ==
  /\ mainPc # "done" /\ printer = counter /\ printer' = next
  /\ line' = [line EXCEPT ![counter] = stats[counter]]
  /\ UNCHANGED <<mainVars, workerVars, cancelled, clock>>

TickerFires ==
  /\ mainPc # "done" /\ printer = "idle"
  /\ printer' = "total" /\ line' = [total |-> 0, success |-> 0, failed |-> 0]
  /\ UNCHANGED <<mainVars, workerVars, cancelled, clock>>

PrinterReturns ==
  /\ mainPc # "done" /\ printer = "idle" /\ cancelled
  /\ printer' = "returned"
  /\ UNCHANGED <<mainVars, workerVars, line, cancelled, clock>>

\* Mutant: the total is loaded last.
PrinterStep_TotalLast ==
  \/ mainPc # "done" /\ printer = "idle" /\ printer' = "success"
     /\ UNCHANGED <<mainVars, workerVars, line, cancelled, clock>>
  \/ Load("success", "failed") \/ Load("failed", "total") \/ Load("total", "idle")

PrinterStep ==
  \/ TickerFires \/ PrinterReturns
  \/ Load("total", "success") \/ Load("success", "failed") \/ Load("failed", "idle")

(***************************************************************************)
(* Time passes while everybody is blocked.                                 *)
(***************************************************************************)
Blocked(w) ==
  \/ at[w] \in {"none", "returned"}
  \/ at[w] \in {"request", "solution"} /\ clock < by[w]
  \/ at[w] \in {"dial", "backoff"} /\ clock < by[w] /\ ~cancelled
  \/ at[w] = "solve" /\ ~cancelled
  \/ at[w] = "top" /\ stats.total = MaxRequests /\ ~Over

MainBlocked ==
  \/ mainPc = "ramp" /\ started < workers /\ clock < started * workerDelay
  \/ mainPc = "select" /\ clock < selectBy /\ ~cancelled
  \/ mainPc = "wait" /\ \E w \in Workers : at[w] # "returned"

Tick ==
  /\ MainBlocked /\ \A w \in Workers : Blocked(w)
  /\ clock' = clock + 1
  /\ UNCHANGED <<mainVars, workerVars, printerVars, cancelled>>

MainStep == StartWorker \/ AllStarted \/ Select \/ Wait

Next == MainStep \/ Signal \/ (\E w \in Workers : WorkerStep(w)) \/ PrinterStep \/ Tick

\* Every goroutine runs when it can, and time passes.
Spec ==
  /\ Init /\ [][Next]_vars
  /\ WF_vars(MainStep) /\ WF_vars(Tick) /\ \A w \in Workers : WF_vars(WorkerStep(w))

-------------------------------------------------------------------------------
\* What printFinalStats prints adds up, however the test ended: each request is
\* a success or a failure, and the sum of the round trips has one for each
\* success.  (The sum of the solve times may have more than one: a request
\* that fails after the solver is in it.)
FinalAddsUp ==
  mainPc = "done" =>
    /\ stats.total = stats.success + stats.failed
    /\ stats.trips = stats.success /\ stats.solves >= stats.success

\* A line of printLiveStats is not a snapshot, but it hides no more than one
\* request of each worker: the total is loaded first, so what is missing from
\* the other two was on its way at that moment.  (They may exceed the total.)
LiveLag ==
  printer \in {"idle", "returned"} => line.total <= line.success + line.failed + workers

Longer(s, t) == IF s > t THEN s ELSE t

\* The tool comes back: no later than its own duration after the ramp-up, or
\* the deadline of a connection that was dialled in the last moment, even
\* though ctx does not interrupt reads and writes.
ExitBound ==
  clock <= duration + Longer((workers - 1) * workerDelay, connTimeout + ConnDeadline)

\* The tool ends, with or without a signal, whatever the server does.
Ends == <>(mainPc = "done")

===============================================================================
