------------------------------ MODULE Difficulty ------------------------------
(***************************************************************************)
(* The difficulty manager of internal/pow/difficulty.go as cmd/server/main *)
(* runs it: a goroutine that samples the load and updates the difficulty,  *)
(* another that copies the difficulty into a metric, callers of Stop, and  *)
(* the handlers that issue challenges.                                     *)
(*                                                                         *)
(* A load is what gather returns; rates and CPU loads are in tenths.       *)
(***************************************************************************)
EXTENDS Integers

CONSTANTS ConfigBase, ConfigMin, ConfigMax,  \* cfg.Pow*Difficulty, 0 = default
          Loads,                             \* what gather may return
          Stoppers                           \* the callers of Stop

\* NewDifficultyManager's defaults.
Default(v, d) == IF v = 0 THEN d ELSE v
Min == Default(ConfigMin, 16)
Max == Default(ConfigMax, 24)

ASSUME DifficultyAssumption ==
  /\ {ConfigBase, ConfigMin, ConfigMax} \subseteq 0 .. 255 /\ Min <= Max
  /\ Loads \subseteq [conns : Nat, rate : Nat, cpu : Nat] /\ Loads # {}

VARIABLES current,    \* m.current
          loop,       \* updateLoop: select, update or returned
          tick,       \* ticker.C holds a tick
          sample,     \* what updateLoop has gathered
          load,       \* what gather would return now
          stopped,    \* m.stopped
          stopPc,     \* each caller of Stop: idle, close or returned
          closes,     \* how often stopChan was closed
          cancelled,  \* the context is cancelled
          gauge,      \* the difficulty metric
          metering,   \* the goroutine that sets it runs
          issued      \* the difficulty of the last challenge, 0 before

manager == <<current, loop, tick, sample>>
stops == <<stopped, stopPc, closes, cancelled>>
gauges == <<gauge, metering>>
vars == <<manager, load, stops, gauges, issued>>

\* Mutant: no upper limit.
Clamp_NoMax(d) == IF d < Min THEN Min ELSE d

\* The limits, applied in this order to the base and by Update.
Clamp(d) == LET low == IF d < Min THEN Min ELSE d
            IN  IF low > Max THEN Max ELSE low

Base == Clamp(Default(ConfigBase, 20))

\* Points for a value over a high and a medium threshold.
Graded(v, high, medium) == IF v > high THEN 2 ELSE IF v > medium THEN 1 ELSE 0

\* What Update makes of a load, with the thresholds that main sets.
Target(l) ==
  Clamp(Base + Graded(l.conns, 5000, 1000) + Graded(l.rate, 1000, 500)
             + (IF l.cpu > 8 THEN 1 ELSE 0))

\* main's gather: the rate is a tenth of the connections, the CPU load 0.5.
Gather(active) == [conns |-> active, rate |-> active, cpu |-> 5]

Init ==
  /\ current = Base
  /\ loop = "select" /\ tick = FALSE
  /\ load \in Loads /\ sample = load
  /\ stopped = FALSE /\ stopPc = [s \in Stoppers |-> "idle"]
  /\ closes = 0 /\ cancelled = FALSE
  /\ gauge = 0 /\ metering = TRUE /\ issued = 0

TickerFires ==
  /\ loop # "returned" /\ ~tick
  /\ tick' = TRUE
  /\ UNCHANGED <<current, loop, sample, load, stops, gauges, issued>>

\* updateLoop's select takes the tick, and gather reads the server's Stats.
TakeTick ==
  /\ loop = "select" /\ tick
  /\ tick' = FALSE
  /\ sample' = load
  /\ loop' = "update"
  /\ UNCHANGED <<current, load, stops, gauges, issued>>

\* Mutant: the adjustment is added to the current value, not to the base.
Update_Accumulates ==
  /\ loop = "update"
  /\ current' = Clamp(current + Target(sample) - Base)
  /\ loop' = "select"
  /\ UNCHANGED <<tick, sample, load, stops, gauges, issued>>

Update ==
  /\ loop = "update"
  /\ current' = Target(sample)
  /\ loop' = "select"
  /\ UNCHANGED <<tick, sample, load, stops, gauges, issued>>

\* Mutant: updateLoop listens to its context only.
LoopReturns_ContextOnly ==
  /\ loop = "select" /\ cancelled
  /\ loop' = "returned"
  /\ UNCHANGED <<current, tick, sample, load, stops, gauges, issued>>

LoopReturns ==
  /\ loop = "select" /\ (cancelled \/ closes > 0)
  /\ loop' = "returned"
  /\ UNCHANGED <<current, tick, sample, load, stops, gauges, issued>>

\* Mutant: stopped is set but not tested.
Stop_Unchecked(s) ==
  /\ stopPc[s] = "idle"
  /\ stopped' = TRUE
  /\ stopPc' = [stopPc EXCEPT ![s] = "close"]
  /\ UNCHANGED <<closes, cancelled, manager, load, gauges, issued>>

\* Stop: the compare-and-swap, then close(stopChan) by the winner.
Stop(s) ==
  /\ stopPc[s] = "idle"
  /\ stopped' = TRUE
  /\ stopPc' = [stopPc EXCEPT ![s] = IF stopped THEN "returned" ELSE "close"]
  /\ UNCHANGED <<closes, cancelled, manager, load, gauges, issued>>

CloseStopChan(s) ==
  /\ stopPc[s] = "close"
  /\ closes' = closes + 1
  /\ stopPc' = [stopPc EXCEPT ![s] = "returned"]
  /\ UNCHANGED <<stopped, cancelled, manager, load, gauges, issued>>

CancelContext ==
  /\ ~cancelled
  /\ cancelled' = TRUE
  /\ UNCHANGED <<stopped, stopPc, closes, manager, load, gauges, issued>>

\* main's other goroutine: once a second, until it sees the context cancelled.
SetDifficulty ==
  /\ metering
  /\ gauge' = current
  /\ UNCHANGED <<metering, manager, load, stops, issued>>

MeterReturns ==
  /\ metering /\ cancelled
  /\ metering' = FALSE
  /\ UNCHANGED <<gauge, manager, load, stops, issued>>

\* handleConnected generates with config.Difficulty, which main has set to
\* cfg.PowDifficulty.
Generate ==
  /\ ConfigBase \in 16 .. 24
  /\ issued' = ConfigBase
  /\ UNCHANGED <<manager, load, stops, gauges>>

LoadChanges ==
  /\ load' \in Loads \ {load}
  /\ UNCHANGED <<manager, stops, gauges, issued>>

Next ==
  \/ TickerFires \/ TakeTick \/ Update \/ LoopReturns
  \/ \E s \in Stoppers : Stop(s) \/ CloseStopChan(s)
  \/ CancelContext \/ SetDifficulty \/ MeterReturns \/ Generate \/ LoadChanges

\* Tickers fire, goroutines that can run do, and a select with several cases
\* ready picks one at random, so that none is passed over for ever.
Spec ==
  /\ Init /\ [][Next]_vars
  /\ WF_vars(TickerFires) /\ WF_vars(TakeTick) /\ WF_vars(Update)
  /\ SF_vars(LoopReturns) /\ WF_vars(SetDifficulty)
  /\ \A s \in Stoppers : WF_vars(CloseStopChan(s))

-------------------------------------------------------------------------------
\* Type invariant; Current() is always within the configured limits.
TypeOK ==
  /\ current \in Min .. Max
  /\ loop \in {"select", "update", "returned"}
  /\ {tick, stopped, cancelled, metering} \subseteq BOOLEAN
  /\ {load, sample} \subseteq Loads
  /\ stopPc \in [Stoppers -> {"idle", "close", "returned"}]
  /\ {closes, gauge, issued} \subseteq 0 .. 255

\* stopChan is closed at most once, however many callers race in Stop (a
\* second close would panic), and it is closed or about to be once stopped
\* is set.
ClosedOnce ==
  /\ closes <= 1
  /\ stopped <=> closes = 1 \/ \E s \in Stoppers : stopPc[s] = "close"

\* Stop, or the context, ends the update goroutine, even when ticks keep
\* coming.
UpdateLoopReturns == (stopped \/ cancelled) ~> loop = "returned"

\* When the load settles, the difficulty and the metric settle at the value
\* for that load, whatever was sampled before, unless the manager is stopped.
LoadIsFollowed ==
  \A l \in Loads :
    <>[](load = l /\ ~stopped /\ ~cancelled)
      => <>[](current = Target(l) /\ gauge = Target(l))

\* What the README says, "Dynamic Difficulty: Automatically adjusts based on
\* server load": a challenge has the manager's current difficulty.
ChallengesUseCurrent == [][issued' # issued => issued' = current]_vars

===============================================================================
