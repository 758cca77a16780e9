------------------------------ MODULE MainProofs ------------------------------
(***************************************************************************)
(* Proofs about Main: the process runs its server as Server allows, and    *)
(* with settings that every part of it can work with, whatever the         *)
(* environment.                                                            *)
(***************************************************************************)
EXTENDS Main, ServerProofs, TLAPS

\* Every step of the process is a step of its server, or none.
LEMMA MainStepsServer == [MainNext]_allVars => [Next]_vars
<1> SUFFICES ASSUME [MainNext]_allVars PROVE [Next]_vars
  OBVIOUS
<1>1. CASE Goroutines
  BY <1>1 DEF Next, Steps
<1>2. CASE MainSteps
  <2>1. CancelContext \/ UNCHANGED vars
    BY <1>2 DEF MainSteps, LoadConfig, ValidateConfig, StartMetrics, WaitMetrics, Build,
      GoStart, MainSelect, MainCancel, MainReturns, Continue
  <2> QED
    BY <2>1 DEF Next, Steps
<1>3. CASE MetricsGoroutine \/ Signal \/ ServerError
  BY <1>3 DEF MetricsGoroutine, Signal, ServerError
<1> QED
  BY <1>1, <1>2, <1>3 DEF MainNext, allVars

\* The server that main runs is a Server: it keeps all that ServerProofs shows,
\* whenever the process is signalled, fails or ends.
THEOREM MainRunsServer == MainSpec => Spec
<1>1. MainInit => Init
  BY DEF MainInit
<1> QED
  BY <1>1, MainStepsServer, PTL DEF MainSpec, Spec

\* Whatever the environment, the signals and the errors of its listeners, the
\* server that main runs counts its connections, drains them, adds nothing to
\* the wait group during the wait, accepts nothing after shutdown and uses its
\* pool as Pool's callers do.
THEOREM ProcessKeeps ==
  MainSpec => /\ [](CountersBalance /\ DrainedMeansEmpty)
              /\ NoAddDuringWait /\ NothingAcceptedAfterShutdown /\ UsesPool
BY MainRunsServer, CountersAlwaysBalance, DrainedIsEmpty, NoRaceOnWaitGroup, ShutdownIsFinal,
   ServerUsesPool, PTL

\* Where main has loaded, and where it has validated, the settings.
Loaded == {"validate", "startMetrics", "waitMetrics", "build", "go"} \cup Serving
Checked == Loaded \ {"validate"}
Accepted(e) == ~LoadFails(e) /\ Validate(Load(e)) = "nil"

\* What main knows of its settings at each place.
MInv ==
  /\ mainPc \in StartUp \cup Serving \cup {"absent", "exited"}
  /\ mainPc # "absent" => env \in Envs
  /\ mainPc \in Loaded => ~LoadFails(env)
  /\ mainPc \in Checked => Accepted(env)
  /\ mainPc \in StartUp => startPc = "new"
  /\ exit # "pow"
  /\ mainPc # "absent" /\ startPc # "new" => Accepted(env)

\* A setting that is neither malformed nor missing is a number.
LEMMA LoadTyped ==
  ASSUME NEW e \in Envs, ~LoadFails(e)
  PROVE  /\ \A s \in Numbers : Load(e)[s] \in Int
         /\ Load(e)["PowSecret"] \in Nat
<1>1. \A s \in Numbers : s \in DOMAIN Defaults /\ Defaults[s] \in Int
  BY DEF Numbers, Timeouts, Defaults
<1>2. "PowSecret" \in DOMAIN Defaults /\ Defaults["PowSecret"] = 0
  BY DEF Defaults
<1>3. \A s \in DOMAIN Defaults :
        Load(e)[s] = IF s \in DOMAIN e THEN e[s] ELSE Defaults[s]
  BY DEF Load
<1>4. \A s \in Numbers \cap DOMAIN e : e[s] \in Int
  BY EnvsAssumption DEF LoadFails
<1>5. "PowSecret" \in DOMAIN e => e["PowSecret"] \in Nat
  BY EnvsAssumption
<1> QED
  BY <1>1, <1>2, <1>3, <1>4, <1>5

\* What Validate accepts, every part of the server can work with.
LEMMA ValidIsUsable ==
  ASSUME NEW c, \A s \in Numbers : c[s] \in Int, c["PowSecret"] \in Nat,
         Validate(c) = "nil"
  PROVE  Usable(c)
<1>1. /\ c.PowSecret >= 32
      /\ \A s \in Timeouts : ~(c[s] <= 0)
      /\ ~(c.MaxConnections <= 0) /\ ~(c.RateLimitRPS <= 0) /\ ~(c.RateLimitBurst <= 0)
  BY DEF Validate
<1>2. /\ c.ReadTimeout \in Nat \ {0} /\ c.WriteTimeout \in Nat \ {0}
      /\ c.IdleTimeout \in Nat \ {0} /\ c.ChallengeTimeout \in Nat \ {0}
      /\ c.GracefulTimeout \in Nat \ {0} /\ c.MaxConnections \in Nat \ {0}
      /\ c.RateLimitRPS \in Nat \ {0} /\ c.RateLimitBurst \in Nat \ {0}
  BY <1>1 DEF Numbers, Timeouts
<1>3. uint8(c.PowDifficulty) \in 0 .. 255 /\ c.MaxAttemptsPerIP \in Int
  BY DEF Numbers, uint8
<1>4. /\ HandlerConfig(c).WriteTimeout = c.WriteTimeout
      /\ HandlerConfig(c).IdleTimeout = c.IdleTimeout
      /\ HandlerConfig(c).ChallengeTimeout = c.ChallengeTimeout
      /\ HandlerConfig(c).MaxAttempts = c.MaxAttemptsPerIP
      /\ HandlerConfig(c).Difficulty = uint8(c.PowDifficulty)
  BY DEF HandlerConfig
<1>5. VerifierTimeouts(c).ChallengeTimeout = c.ChallengeTimeout
  BY <1>2 DEF VerifierTimeouts
<1>6. RateLimitConfig(c).Rate = c.RateLimitRPS /\ RateLimitConfig(c).Burst = c.RateLimitBurst
  BY DEF RateLimitConfig
<1>7. ~NewGeneratorFails(c) /\ ~NewVerifierFails(c)
  BY <1>1 DEF NewGeneratorFails, NewVerifierFails, MinSecretLength
<1> QED
  BY <1>2, <1>3, <1>4, <1>5, <1>6, <1>7 DEF Usable

\* The invariant of main holds at the start.
LEMMA InitMInv == MainInit => MInv
<1> SUFFICES ASSUME MainInit PROVE MInv
  OBVIOUS
<1>1. startPc = "new"
  BY DEF MainInit, Init
<1>2. /\ mainPc = "absent" \/ (mainPc = "load" /\ env \in Envs)
      /\ exit = "none"
  BY DEF MainInit
<1>3. mainPc \in StartUp \cup {"absent"} /\ mainPc \notin Loaded \cup Checked
  BY <1>2 DEF StartUp, Serving, Loaded, Checked
<1> QED
  BY <1>1, <1>2, <1>3 DEF MInv

\* Every step of main or the server preserves it.
LEMMA NextMInv == MInv /\ [MainNext]_allVars => MInv'
<1> SUFFICES ASSUME MInv, [MainNext]_allVars PROVE MInv'
  OBVIOUS
<1> USE DEF MInv, StartUp, Serving, Loaded, Checked
<1>1. CASE mainPc = "absent" /\ UNCHANGED mainVars
  BY <1>1 DEF mainVars
<1>2. CASE mainPc \in Serving /\ UNCHANGED mainVars
  BY <1>2 DEF mainVars
<1> USE DEF vars, life, Exit, Continue
<1>3. CASE LoadConfig
  BY <1>3 DEF LoadConfig
<1>4. CASE ValidateConfig
  BY <1>4 DEF ValidateConfig, Accepted
<1>5. CASE StartMetrics
  BY <1>5 DEF StartMetrics
<1>6. CASE WaitMetrics
  BY <1>6 DEF WaitMetrics
<1>7. CASE Build
  <2>1. Accepted(env) /\ env \in Envs /\ mainPc = "build"
    BY <1>7 DEF Build
  <2>2. Usable(Load(env))
    BY <2>1, LoadTyped, ValidIsUsable, Zenon DEF Accepted
  <2>3. ~NewGeneratorFails(Load(env)) /\ ~NewVerifierFails(Load(env))
    BY <2>2 DEF Usable
  <2> QED
    BY <1>7, <2>1, <2>3 DEF Build
<1>8. CASE GoStart
  BY <1>8 DEF GoStart
<1>9. CASE MainSelect
  BY <1>9 DEF MainSelect
<1>10. CASE MainCancel
  BY <1>10 DEF MainCancel, CancelContext
<1>11. CASE MainReturns
  BY <1>11 DEF MainReturns
<1>12. CASE MetricsGoroutine
  BY <1>12 DEF MetricsGoroutine
<1>13. CASE Signal
  BY <1>13 DEF Signal
<1>14. CASE ServerError
  BY <1>14 DEF ServerError
<1>15. CASE UNCHANGED allVars
  BY <1>15 DEF allVars, mainVars
<1> QED
  BY <1>1, <1>2, <1>3, <1>4, <1>5, <1>6, <1>7, <1>8, <1>9, <1>10, <1>11, <1>12, <1>13,
     <1>14, <1>15 DEF MainNext, MainSteps

\* For every environment: main starts only a server that all its parts can
\* work with, and NewGenerator and NewVerifier never refuse what Validate
\* accepted.
THEOREM MainServesUsable == MainSpec => []ServesUsable
<1>1. MInv => ServesUsable
  BY LoadTyped, ValidIsUsable DEF MInv, ServesUsable, Accepted
<1> QED
  BY <1>1, InitMInv, NextMInv, PTL DEF MainSpec

===============================================================================
