-------------------------------- MODULE Server --------------------------------
(***************************************************************************)
(* The lifecycle of internal/server/server.go: Start, the accept loop, one *)
(* goroutine per connection, and shutdown, which Start runs when its       *)
(* context is cancelled and which Shutdown runs too.  The connection pool  *)
(* is module Pool; its actions are steps of the connection goroutines.     *)
(*                                                                         *)
(* A rate limiter's answer may be yes or no at any time (RateLimiter), and *)
(* a handler may take any time and return any result (Handler).            *)
(***************************************************************************)
EXTENDS Integers, FiniteSets

CONSTANTS Conns,           \* the connections that clients may open
          MaxConnections   \* config.MaxConnections

ASSUME ServerAssumption == IsFiniteSet(Conns) /\ MaxConnections \in Int

VARIABLES startPc,     \* the goroutine in Start
          stopPc,      \* a goroutine that may call Shutdown
          cancelled,   \* Start's context is cancelled
          listener,    \* nil, open or closed
          running,     \* s.running
          acceptPc,    \* the accept loop
          acceptLoopWg,
          conn,        \* where each connection's goroutine is
          wg,
          stats,       \* the server's counters
          uncounted,   \* handlers that returned context.Canceled: no counter
          closeOnce,   \* fresh, running or done
          downPc,      \* the body of shutdown
          waiter,      \* the goroutine in wg.Wait: none, waiting or done
          outcome,     \* how the wait for the connections ended
          limiterClosed,
          at, sem, active  \* the pool, see Pool

life == <<startPc, stopPc, cancelled, listener, running>>
accept == <<acceptPc, acceptLoopWg>>
conns == <<conn, wg, stats, uncounted>>
down == <<closeOnce, downPc, waiter, outcome, limiterClosed>>
pool == <<at, sem, active>>
vars == <<life, accept, conns, down, pool>>

\* The server never uses the pool's blocking calls.
P == INSTANCE Pool WITH
  Procs <- Conns, sendq <- << >>, waiting <- 0, ctxDone <- {}

Init ==
  /\ startPc = "new" /\ stopPc = "idle" /\ cancelled = FALSE
  /\ listener = "nil" /\ running = FALSE
  /\ acceptPc = "none" /\ acceptLoopWg = 0
  /\ conn = [c \in Conns |-> "none"] /\ wg = 0
  /\ stats = [total |-> 0, active |-> 0, rejectedRateLimit |-> 0,
              rejectedPoolFull |-> 0, successful |-> 0, failed |-> 0]
  /\ uncounted = 0
  /\ closeOnce = "fresh" /\ downPc = "none" /\ waiter = "none"
  /\ outcome = "none" /\ limiterClosed = FALSE
  /\ P!Init

(***************************************************************************)
(* Start.                                                                  *)
(***************************************************************************)
\* The check of running, then net.Listen, which may fail.
Listen ==
  /\ startPc = "new" /\ ~running
  /\ startPc' \in {"listening", "failed"}
  /\ UNCHANGED <<stopPc, cancelled, listener, running, accept, conns, down, pool>>

SetListener ==
  /\ startPc = "listening"
  /\ listener' = "open"
  /\ startPc' = "opened"
  /\ UNCHANGED <<stopPc, cancelled, running, accept, conns, down, pool>>

SetRunning ==
  /\ startPc = "opened"
  /\ running' = TRUE
  /\ startPc' = "ready"
  /\ UNCHANGED <<stopPc, cancelled, listener, accept, conns, down, pool>>

StartAcceptLoop ==
  /\ startPc = "ready"
  /\ acceptLoopWg' = acceptLoopWg + 1
  /\ acceptPc' = "top"
  /\ startPc' = "waiting"
  /\ UNCHANGED <<stopPc, cancelled, listener, running, conns, down, pool>>

StartSeesCancel ==
  /\ startPc = "waiting" /\ cancelled
  /\ startPc' = "shutdown"
  /\ UNCHANGED <<stopPc, cancelled, listener, running, accept, conns, down, pool>>

\* The owner of the context cancels it (main, on a signal).
CancelContext ==
  /\ ~cancelled
  /\ cancelled' = TRUE
  /\ UNCHANGED <<startPc, stopPc, listener, running, accept, conns, down, pool>>

Goto(c, from, to) == conn[c] = from /\ conn' = [conn EXCEPT ![c] = to]

(***************************************************************************)
(* acceptLoop.                                                             *)
(***************************************************************************)
\* Mutant: the accept loop ends without acceptLoopWg.Done.
AcceptReturns_NoDone == acceptPc' = "returned" /\ UNCHANGED acceptLoopWg

AcceptReturns == acceptPc' = "returned" /\ acceptLoopWg' = acceptLoopWg - 1

AcceptTop ==
  /\ acceptPc = "top"
  /\ IF cancelled THEN AcceptReturns
     ELSE acceptPc' = "accept" /\ UNCHANGED acceptLoopWg
  /\ UNCHANGED <<life, conns, down, pool>>

\* Accept returns a connection.  The listener may be closed before the loop
\* goes on.
Accept(c) ==
  /\ acceptPc = "accept" /\ listener = "open"
  /\ Goto(c, "none", "accepted")
  /\ acceptPc' = "accepted"
  /\ UNCHANGED <<life, acceptLoopWg, wg, stats, uncounted, down, pool>>

\* Mutant: wg.Add is missing.
AcceptConn_NoAdd(c) ==
  /\ acceptPc = "accepted"
  /\ Goto(c, "accepted", "new")
  /\ stats' = [stats EXCEPT !.total = @ + 1]
  /\ acceptPc' = "top"
  /\ UNCHANGED <<life, wg, acceptLoopWg, uncounted, down, pool>>

\* The connection is counted and its goroutine started.
AcceptConn(c) ==
  /\ acceptPc = "accepted"
  /\ Goto(c, "accepted", "new")
  /\ stats' = [stats EXCEPT !.total = @ + 1]
  /\ wg' = wg + 1
  /\ acceptPc' = "top"
  /\ UNCHANGED <<life, acceptLoopWg, uncounted, down, pool>>

\* Accept fails: by its one-second deadline or any other error while the
\* listener is open, always once it is closed.
AcceptError ==
  /\ acceptPc = "accept"
  /\ IF listener = "closed" \/ ~running THEN AcceptReturns
     ELSE acceptPc' = "top" /\ UNCHANGED acceptLoopWg
  /\ UNCHANGED <<life, conns, down, pool>>

(***************************************************************************)
(* handleConnection.                                                       *)
(***************************************************************************)
Allow(c) ==
  /\ \/ Goto(c, "new", "allowed") /\ UNCHANGED stats
     \/ /\ Goto(c, "new", "closing")
        /\ stats' = [stats EXCEPT !.rejectedRateLimit = @ + 1]
  /\ UNCHANGED <<life, accept, wg, uncounted, down, pool>>

\* Mutant: the deferred Release runs for a connection that was refused.
Acquire_ReleasesAnyway(c) ==
  /\ IF sem < P!max THEN P!Acquire(c) ELSE sem' = sem - 1 /\ UNCHANGED <<at, active>>
  /\ Goto(c, "allowed", IF sem < P!max THEN "acquiring" ELSE "closing")
  /\ UNCHANGED <<life, accept, wg, stats, uncounted, down>>

Acquire(c) ==
  /\ P!Acquire(c)
  /\ \/ /\ at'[c] = "sent"
        /\ Goto(c, "allowed", "acquiring") /\ UNCHANGED stats
     \/ /\ at'[c] = "refused"
        /\ Goto(c, "allowed", "closing")
        /\ stats' = [stats EXCEPT !.rejectedPoolFull = @ + 1]
  /\ UNCHANGED <<life, accept, wg, uncounted, down>>

Acquired(c) ==
  /\ Goto(c, "acquiring", "acquired")
  /\ P!AddActive(c)
  /\ UNCHANGED <<life, accept, wg, stats, uncounted, down>>

AddActiveConnection(c) ==
  /\ Goto(c, "acquired", "handling")
  /\ stats' = [stats EXCEPT !.active = @ + 1]
  /\ UNCHANGED <<life, accept, wg, uncounted, down, pool>>

\* Handle returns nil, an error, or context.Canceled once it is cancelled.
HandlerReturns(c) ==
  /\ Goto(c, "handling", "returned")
  /\ \/ stats' = [stats EXCEPT !.successful = @ + 1] /\ UNCHANGED uncounted
     \/ stats' = [stats EXCEPT !.failed = @ + 1] /\ UNCHANGED uncounted
     \/ cancelled /\ uncounted' = uncounted + 1 /\ UNCHANGED stats
  /\ UNCHANGED <<life, accept, wg, down, pool>>

\* The deferred calls, last deferred first.
SubActiveConnection(c) ==
  /\ Goto(c, "returned", "releasing")
  /\ stats' = [stats EXCEPT !.active = @ - 1]
  /\ UNCHANGED <<life, accept, wg, uncounted, down, pool>>

Release(c) ==
  /\ Goto(c, "releasing", "released")
  /\ P!Release(c)
  /\ UNCHANGED <<life, accept, wg, stats, uncounted, down>>

Released(c) ==
  /\ Goto(c, "released", "closing")
  /\ P!SubActive(c)
  /\ UNCHANGED <<life, accept, wg, stats, uncounted, down>>

CloseConn(c) ==
  /\ Goto(c, "closing", "gone")
  /\ wg' = wg - 1
  /\ UNCHANGED <<life, accept, stats, uncounted, down, pool>>

\* Mutant: the slot is released before activeConnections is lowered.
HandleConnection_ReleasesFirst(c) ==
  \/ Allow(c) \/ Acquire(c) \/ Acquired(c) \/ AddActiveConnection(c)
  \/ HandlerReturns(c)
  \/ /\ Goto(c, "returned", "closing")
     /\ P!Release(c)
     /\ UNCHANGED <<life, accept, wg, stats, uncounted, down>>

HandleConnection(c) ==
  \/ Allow(c) \/ Acquire(c) \/ Acquired(c) \/ AddActiveConnection(c)
  \/ HandlerReturns(c)
  \/ SubActiveConnection(c) \/ Release(c) \/ Released(c) \/ CloseConn(c)

(***************************************************************************)
(* shutdown.  closeOnce lets one caller run the body; another caller       *)
(* blocks until it is done.                                                *)
(***************************************************************************)
EnterOnce ==
  /\ "shutdown" \in {startPc, stopPc} /\ closeOnce = "fresh"
  /\ closeOnce' = "running"
  /\ downPc' = "close"
  /\ UNCHANGED <<life, accept, conns, waiter, outcome, limiterClosed, pool>>

\* Mutant: the listener is left open.
CloseListener_Skipped ==
  /\ downPc = "close"
  /\ downPc' = "waitAccept"
  /\ UNCHANGED <<life, accept, conns, closeOnce, waiter, outcome, limiterClosed, pool>>

CloseListener ==
  /\ downPc = "close"
  /\ listener' = IF listener = "open" THEN "closed" ELSE listener
  /\ downPc' = "waitAccept"
  /\ UNCHANGED <<startPc, stopPc, cancelled, running, accept, conns, closeOnce,
                 waiter, outcome, limiterClosed, pool>>

\* Mutant: no wait for the accept loop.
WaitAcceptLoop_NoWait ==
  /\ downPc = "waitAccept"
  /\ downPc' = "select"
  /\ waiter' = "waiting"
  /\ UNCHANGED <<life, accept, conns, closeOnce, outcome, limiterClosed, pool>>

\* acceptLoopWg.Wait returns, and the goroutine that waits on wg is started.
WaitAcceptLoop ==
  /\ downPc = "waitAccept" /\ acceptLoopWg = 0
  /\ downPc' = "select"
  /\ waiter' = "waiting"
  /\ UNCHANGED <<life, accept, conns, closeOnce, outcome, limiterClosed, pool>>

WaiterDone ==
  /\ waiter = "waiting" /\ wg = 0
  /\ waiter' = "done"
  /\ UNCHANGED <<life, accept, conns, closeOnce, downPc, outcome, limiterClosed,
                 pool>>

\* The select: all connections done, or GracefulTimeout over.
Drained ==
  /\ downPc = "select"
  /\ \/ waiter = "done" /\ outcome' = "drained"
     \/ outcome' = "timeout"
  /\ downPc' = "finish"
  /\ UNCHANGED <<life, accept, conns, closeOnce, waiter, limiterClosed, pool>>

Finish ==
  /\ downPc = "finish"
  /\ limiterClosed' = TRUE
  /\ running' = FALSE
  /\ downPc' = "done"
  /\ closeOnce' = "done"
  /\ UNCHANGED <<startPc, stopPc, cancelled, listener, accept, conns, waiter,
                 outcome, pool>>

ShutdownReturns ==
  /\ closeOnce = "done"
  /\ \/ startPc = "shutdown" /\ startPc' = "stopped" /\ UNCHANGED stopPc
     \/ stopPc = "shutdown" /\ stopPc' = "stopped" /\ UNCHANGED startPc
  /\ UNCHANGED <<cancelled, listener, running, accept, conns, down, pool>>

\* Shutdown is called.
CallShutdown ==
  /\ stopPc = "idle"
  /\ stopPc' = "shutdown"
  /\ UNCHANGED <<startPc, cancelled, listener, running, accept, conns, down, pool>>

StartSteps == Listen \/ SetListener \/ SetRunning \/ StartAcceptLoop \/ StartSeesCancel
AcceptSteps ==
  AcceptTop \/ AcceptError \/ \E c \in Conns : Accept(c) \/ AcceptConn(c)
ShutdownBody == EnterOnce \/ CloseListener \/ WaitAcceptLoop \/ Drained \/ Finish
DownSteps == ShutdownBody \/ WaiterDone \/ ShutdownReturns

Goroutines ==
  StartSteps \/ AcceptSteps \/ DownSteps \/ \E c \in Conns : HandleConnection(c)
Steps == Goroutines \/ CancelContext

\* As the tests use it: Shutdown only once the accept loop has been started.
\* (Before that, acceptLoopWg.Wait would not wait for the loop to come.)
Next == Steps \/ (acceptPc # "none" /\ CallShutdown)

Spec == Init /\ [][Next]_vars

-------------------------------------------------------------------------------
\* Type invariant.
TypeOK ==
  /\ startPc \in {"new", "failed", "listening", "opened", "ready", "waiting",
                  "shutdown", "stopped"}
  /\ stopPc \in {"idle", "shutdown", "stopped"}
  /\ {cancelled, running, limiterClosed} \subseteq BOOLEAN
  /\ listener \in {"nil", "open", "closed"}
  /\ acceptPc \in {"none", "top", "accept", "accepted", "returned"}
  /\ conn \in [Conns -> {"none", "accepted", "new", "allowed", "acquiring", "acquired",
                         "handling", "returned", "releasing", "released",
                         "closing", "gone"}]
  /\ {acceptLoopWg, wg, uncounted} \subseteq Nat
  /\ stats \in [total : Nat, active : Nat, rejectedRateLimit : Nat,
                rejectedPoolFull : Nat, successful : Nat, failed : Nat]
  /\ closeOnce \in {"fresh", "running", "done"}
  /\ downPc \in {"none", "close", "waitAccept", "select", "finish", "done"}
  /\ waiter \in {"none", "waiting", "done"}
  /\ outcome \in {"none", "drained", "timeout"}

In(places) == {c \in Conns : conn[c] \in places}

\* Each connection counted in totalConnections ends in exactly one of the
\* other counters, except those whose handler returned context.Canceled; the
\* difference is the connections still undecided.  activeConnections is raised
\* after the pool's slot is taken and lowered before it is given back, so it
\* never exceeds the slots in use, nor the pool's own count, whose Adds lag, and
\* the slots in use never exceed the configured number of connections.
CountersBalance ==
  /\ stats.total =
       stats.rejectedRateLimit + stats.rejectedPoolFull + stats.successful
       + stats.failed + uncounted
       + Cardinality(In({"new", "allowed", "acquiring", "acquired", "handling"}))
  /\ stats.active <= sem /\ stats.active <= active /\ sem <= P!max

\* The connection goroutines use the pool as its comments ask: they are
\* callers of Pool, and release exactly what they acquired.
UsesPool == P!Spec

\* "all connections closed gracefully" is logged only when it is true: the
\* accept loop is over, no connection goroutine is left and the pool is
\* empty.
DrainedMeansEmpty ==
  outcome = "drained" =>
    /\ acceptPc = "returned"
    /\ \A c \in Conns : conn[c] \in {"none", "gone"}
    /\ sem = 0 /\ active = 0 /\ stats.active = 0

\* What the comment in shutdown says ("This prevents race between wg.Add()
\* and wg.Wait()"): nothing is added to wg while a goroutine waits on it.
NoAddDuringWait == [][waiter = "waiting" => wg' <= wg]_vars

\* Once shutdown has returned the listener is closed and no connection is
\* accepted any more.
NothingAcceptedAfterShutdown ==
  [][closeOnce = "done" => listener # "open" /\ stats.total' = stats.total]_vars

===============================================================================
