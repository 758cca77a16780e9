--------------------------------- MODULE Main ---------------------------------
(***************************************************************************)
(* The server process, cmd/server/main.go: main reads and checks the       *)
(* settings, starts the metrics server, builds the parts and starts the    *)
(* server in a goroutine; it waits for a signal or for the server's error, *)
(* cancels the context, shuts the metrics server down and returns.  When   *)
(* main returns the process ends, and every goroutine with it.             *)
(*                                                                         *)
(* mainPc is "absent" where the server belongs to another program, as it   *)
(* does in the tests, which may also call Shutdown.                        *)
(***************************************************************************)
EXTENDS Server, Config

CONSTANT Envs  \* the environments that main may be started in

ASSUME EnvsAssumption ==
  \A e \in Envs :
    /\ \A s \in Numbers \cap DOMAIN e : e[s] = Malformed \/ e[s] \in Int
    /\ "PowSecret" \in DOMAIN e => e["PowSecret"] \in Nat

VARIABLES mainPc,     \* where main is
          env,        \* the environment variables that are set
          exit,       \* how the process ended
          metricsPc,  \* the goroutine of metrics.StartServer
          signalled,  \* sigChan holds a signal
          errChan     \* errChan holds the error that Start returned

mainVars == <<mainPc, env, exit, metricsPc, signalled, errChan>>
allVars == <<vars, mainVars>>

StartUp == {"load", "validate", "startMetrics", "waitMetrics", "build", "go"}
Serving == {"select", "cancel", "metrics"}

MainInit ==
  /\ Init
  /\ \/ mainPc = "absent" /\ env = << >>
     \/ mainPc = "load" /\ env \in Envs
  /\ exit = "none" /\ metricsPc = "none"
  /\ signalled = FALSE /\ errChan = FALSE

(***************************************************************************)
(* Start-up.                                                               *)
(***************************************************************************)
Exit(how) == mainPc' = "exited" /\ exit' = how
Continue(from, to) ==
  mainPc = from /\ mainPc' = to /\ UNCHANGED <<vars, env, exit, signalled, errChan>>

LoadConfig ==
  /\ mainPc = "load"
  /\ IF LoadFails(env) THEN Exit("panic") ELSE mainPc' = "validate" /\ UNCHANGED exit
  /\ UNCHANGED <<vars, env, metricsPc, signalled, errChan>>

ValidateConfig ==
  /\ mainPc = "validate"
  /\ IF Validate(Load(env)) # "nil" THEN Exit("panic")
     ELSE mainPc' = "startMetrics" /\ UNCHANGED exit
  /\ UNCHANGED <<vars, env, metricsPc, signalled, errChan>>

\* metrics.StartServer: a goroutine is started, and given 100 ms to fail.
StartMetrics == Continue("startMetrics", "waitMetrics") /\ metricsPc' = "starting"

WaitMetrics ==
  \/ Continue("waitMetrics", "build") /\ UNCHANGED metricsPc
  \/ /\ mainPc = "waitMetrics" /\ metricsPc = "failed"
     /\ Exit("metrics")
     /\ UNCHANGED <<vars, env, metricsPc, signalled, errChan>>

\* ListenAndServe in its goroutine; an error goes into the buffered errCh,
\* where nobody looks once the 100 ms are over.
MetricsGoroutine ==
  /\ mainPc # "exited"
  /\ \/ metricsPc = "starting" /\ metricsPc' = "listening"
     \/ metricsPc \in {"starting", "listening"} /\ metricsPc' = "failed"
  /\ UNCHANGED <<vars, mainPc, env, exit, signalled, errChan>>

\* NewGenerator, NewVerifier and the rest, up to the signal handler.
Build ==
  /\ mainPc = "build"
  /\ IF NewGeneratorFails(Load(env)) \/ NewVerifierFails(Load(env))
     THEN Exit("pow") ELSE mainPc' = "go" /\ UNCHANGED exit
  /\ UNCHANGED <<vars, env, metricsPc, signalled, errChan>>

\* signal.Notify, then the goroutine that runs srv.Start.
GoStart == Continue("go", "select") /\ UNCHANGED metricsPc

(***************************************************************************)
(* Serving and shutting down.                                              *)
(***************************************************************************)
\* SIGINT or SIGTERM: before signal.Notify it kills the process.
Signal ==
  \/ /\ mainPc \in StartUp
     /\ Exit("killed") /\ UNCHANGED <<vars, env, metricsPc, signalled, errChan>>
  \/ /\ mainPc \in Serving /\ ~signalled
     /\ signalled' = TRUE
     /\ UNCHANGED <<vars, mainPc, env, exit, metricsPc, errChan>>

\* The goroutine that runs srv.Start passes its error on.
ServerError ==
  /\ mainPc \in Serving /\ startPc = "failed" /\ ~errChan
  /\ errChan' = TRUE
  /\ UNCHANGED <<vars, mainPc, env, exit, metricsPc, signalled>>

\* Mutant: main waits for signals only.
MainSelect_SignalOnly == signalled /\ Continue("select", "cancel") /\ UNCHANGED metricsPc

MainSelect ==
  /\ signalled \/ errChan
  /\ Continue("select", "cancel") /\ UNCHANGED metricsPc

MainCancel ==
  /\ mainPc = "cancel"
  /\ CancelContext
  /\ mainPc' = "metrics"
  /\ UNCHANGED <<env, exit, metricsPc, signalled, errChan>>

\* metricsServer.Shutdown returns, at the latest when its context times out,
\* and main returns.
MainReturns ==
  /\ mainPc = "metrics"
  /\ Exit("returned")
  /\ metricsPc' = IF metricsPc = "failed" THEN "failed" ELSE "closed"
  /\ UNCHANGED <<vars, env, signalled, errChan>>

MainSteps ==
  \/ LoadConfig \/ ValidateConfig \/ StartMetrics \/ WaitMetrics \/ Build \/ GoStart
  \/ MainSelect \/ MainCancel \/ MainReturns

\* The server's goroutines run while the process does.
Live == mainPc \in Serving \cup {"absent"}

MainNext ==
  \/ mainPc = "absent" /\ Next /\ UNCHANGED mainVars
  \/ mainPc \in Serving /\ Goroutines /\ UNCHANGED mainVars
  \/ MainSteps \/ MetricsGoroutine \/ Signal \/ ServerError

\* Server's Fairness, as long as the process lives, and the same for main and
\* the goroutine that reports the error.
MainFairness ==
  /\ WF_allVars(Live /\ StartSteps /\ UNCHANGED mainVars)
  /\ WF_allVars(Live /\ AcceptSteps /\ UNCHANGED mainVars)
  /\ WF_allVars(Live /\ ShutdownBody /\ UNCHANGED mainVars)
  /\ WF_allVars(Live /\ WaiterDone /\ UNCHANGED mainVars)
  /\ WF_allVars(Live /\ ShutdownReturns /\ UNCHANGED mainVars)
  /\ \A c \in Conns : WF_allVars(Live /\ HandleConnection(c) /\ UNCHANGED mainVars)
  /\ WF_allVars(ServerError) /\ WF_allVars(MainSteps)

MainSpec == MainInit /\ [][MainNext]_allVars /\ MainFairness

-------------------------------------------------------------------------------
\* What Validate accepts all the parts can use.  Past it only the metrics server
\* can stop the start: NewGenerator and NewVerifier, which main calls when the
\* metrics server may already be answering, accept every secret that Validate
\* has accepted.  Nothing listens before the settings were read and validated,
\* and the server that main starts has the settings the other modules assume.
ServesUsable ==
  /\ exit # "pow"
  /\ mainPc # "absent" /\ startPc # "new" => ~LoadFails(env) /\ Usable(Load(env))

\* A started server whose context is cancelled stops: Start returns, the
\* limiter is closed, and every connection goroutine ends.  (Unless it is
\* main's, and the process ends first.)
CancelStops ==
  (cancelled /\ startPc = "waiting") ~>
    \/ /\ startPc = "stopped" /\ ~running /\ limiterClosed
       /\ \A c \in Conns : conn[c] \in {"none", "gone"}
    \/ mainPc = "exited"

\* A signal, or a server that cannot listen, ends the process.
SignalOrErrorExits ==
  (signalled \/ (startPc = "failed" /\ mainPc # "absent")) ~> mainPc = "exited"

\* What the README says of graceful shutdown, "Drains existing connections
\* before termination": the process ends only when the connections have, or
\* when GracefulTimeout has run out.
DrainsBeforeExit ==
  mainPc = "exited" =>
    outcome = "timeout" \/ \A c \in Conns : conn[c] \in {"none", "gone"}

===============================================================================
