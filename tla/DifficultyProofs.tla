--------------------------- MODULE DifficultyProofs ---------------------------
(***************************************************************************)
(* Proofs about Difficulty, for all limits, loads and callers of Stop: the *)
(* difficulty stays within its limits, and stopChan is closed once.        *)
(***************************************************************************)
EXTENDS Difficulty, TLAPS

\* At most one caller of Stop wins the compare-and-swap, and while it is about
\* to close stopChan nobody has closed it.
OneWinner ==
  \A s \in Stoppers : stopPc[s] = "close" =>
    closes = 0 /\ \A t \in Stoppers : stopPc[t] = "close" => s = t

\* The inductive invariant.
DInv == TypeOK /\ ClosedOnce /\ OneWinner

\* The configured limits, defaults included, fit the uint8 of the code.
LEMMA Limits == /\ Min \in 0 .. 255 /\ Max \in 0 .. 255 /\ Min <= Max
                /\ Default(ConfigBase, 20) \in 0 .. 255
<1>1. ConfigBase \in 0 .. 255 /\ ConfigMin \in 0 .. 255 /\ ConfigMax \in 0 .. 255
  BY DifficultyAssumption
<1>2. Min <= Max
  BY DifficultyAssumption
<1>3. Min \in 0 .. 255
  BY <1>1 DEF Min, Default
<1>4. Max \in 0 .. 255
  BY <1>1 DEF Max, Default
<1>5. Default(ConfigBase, 20) \in 0 .. 255
  BY <1>1 DEF Default
<1> QED
  BY <1>2, <1>3, <1>4, <1>5

\* The limits hold for whatever Update and NewDifficultyManager clamp.
LEMMA ClampInLimits == \A d \in Int : Clamp(d) \in Min .. Max
BY Limits DEF Clamp

\* newDifficultyManager clamps its base level.
LEMMA BaseInLimits == Base \in Min .. Max
<1>1. Default(ConfigBase, 20) \in Int
  BY Limits
<1> QED
  BY <1>1, ClampInLimits DEF Base

\* So does the level that a load asks for.
LEMMA TargetInLimits == \A l \in Loads : Target(l) \in Min .. Max
<1> TAKE l \in Loads
<1>1. l.conns \in Nat /\ l.rate \in Nat /\ l.cpu \in Nat
  BY DifficultyAssumption
<1>2. Base \in Int
  BY BaseInLimits, Limits
<1> DEFINE a == Graded(l.conns, 5000, 1000)
           b == Graded(l.rate, 1000, 500)
           e == IF l.cpu > 8 THEN 1 ELSE 0
<1>3. a \in Int /\ b \in Int /\ e \in Int
  BY <1>1 DEF Graded
<1>4. Target(l) = Clamp(Base + a + b + e)
  BY DEF Target
<1> HIDE DEF a, b, e
<1>5. Base + a + b + e \in Int
  BY <1>2, <1>3
<1> QED
  BY <1>4, <1>5, ClampInLimits

\* The invariant holds at the start.
LEMMA InitDInv == Init => DInv
<1> SUFFICES ASSUME Init PROVE DInv
  OBVIOUS
<1> USE DEF Init
<1>1. TypeOK
  <2>1. {tick, stopped, cancelled, metering} \subseteq BOOLEAN
    OBVIOUS
  <2>2. current \in Min .. Max
    BY BaseInLimits
  <2>3. /\ {load, sample} \subseteq Loads
        /\ stopPc \in [Stoppers -> {"idle", "close", "returned"}]
        /\ {closes, gauge, issued} \subseteq 0 .. 255
    OBVIOUS
  <2> QED
    BY <2>1, <2>2, <2>3 DEF TypeOK
<1>2. ClosedOnce
  <2>1. closes <= 1 /\ closes # 1 /\ ~stopped
    OBVIOUS
  <2>2. \A s \in Stoppers : stopPc[s] # "close"
    OBVIOUS
  <2> QED
    BY <2>1, <2>2 DEF ClosedOnce
<1>3. OneWinner
  BY DEF OneWinner
<1> QED
  BY <1>1, <1>2, <1>3 DEF DInv

\* The steps of updateLoop, of the meter and of the handlers touch neither
\* stopped nor stopChan.
LEMMA ManagerStep ==
  ASSUME DInv,
         TickerFires \/ TakeTick \/ Update \/ LoopReturns \/ SetDifficulty
           \/ MeterReturns \/ Generate \/ LoadChanges
  PROVE  DInv'
<1>1. UNCHANGED <<stopped, stopPc, closes, cancelled>>
  BY DEF TickerFires, TakeTick, Update, LoopReturns, SetDifficulty,
         MeterReturns, Generate, LoadChanges, stops
<1>2. ClosedOnce' /\ OneWinner'
  BY <1>1 DEF DInv, ClosedOnce, OneWinner
<1> USE DEF DInv, TypeOK, manager, gauges, stops
<1>3. CASE TickerFires
  BY <1>1, <1>2, <1>3 DEF TickerFires
<1>4. CASE TakeTick
  <2>1. tick' \in BOOLEAN
    BY <1>4 DEF TakeTick
  <2> QED
    BY <1>1, <1>2, <1>4, <2>1 DEF TakeTick
<1>5. CASE Update
  BY <1>1, <1>2, <1>5, TargetInLimits DEF Update
<1>6. CASE LoopReturns
  BY <1>1, <1>2, <1>6 DEF LoopReturns
<1>7. CASE SetDifficulty
  BY <1>1, <1>2, <1>7, Limits DEF SetDifficulty
<1>8. CASE MeterReturns
  <2>1. metering' \in BOOLEAN
    BY <1>8 DEF MeterReturns
  <2> QED
    BY <1>1, <1>2, <1>8, <2>1 DEF MeterReturns
<1>9. CASE Generate
  BY <1>1, <1>2, <1>9 DEF Generate
<1>10. CASE LoadChanges
  BY <1>1, <1>2, <1>10 DEF LoadChanges
<1> QED
  BY <1>3, <1>4, <1>5, <1>6, <1>7, <1>8, <1>9, <1>10

\* The compare-and-swap has one winner, who alone closes stopChan.
LEMMA StopStep ==
  ASSUME DInv, NEW s \in Stoppers, Stop(s) \/ CloseStopChan(s)
  PROVE  DInv'
<1>1. /\ UNCHANGED <<current, loop, tick, sample, load, gauge, metering, issued,
                     cancelled>>
      /\ stopPc \in [Stoppers -> {"idle", "close", "returned"}]
      /\ closes \in 0 .. 1 /\ stopped \in BOOLEAN
  BY DEF Stop, CloseStopChan, manager, gauges, DInv, TypeOK, ClosedOnce
<1>2. CASE Stop(s) /\ stopped
  <2>1. /\ stopPc' = [stopPc EXCEPT ![s] = "returned"] /\ stopPc[s] = "idle"
        /\ closes' = closes /\ stopped' = TRUE
    BY <1>2 DEF Stop
  <2>2. \A t \in Stoppers : stopPc'[t] = "close" <=> stopPc[t] = "close"
    BY <2>1, <1>1
  <2>3. TypeOK'
    BY <1>1, <2>1 DEF DInv, TypeOK
  <2>4. ClosedOnce' /\ OneWinner'
    BY <1>2, <2>1, <2>2 DEF DInv, ClosedOnce, OneWinner
  <2> QED
    BY <2>3, <2>4 DEF DInv
<1>3. CASE Stop(s) /\ ~stopped
  <2>1. /\ stopPc' = [stopPc EXCEPT ![s] = "close"]
        /\ closes' = closes /\ stopped' = TRUE
    BY <1>3 DEF Stop
  <2>2. closes = 0 /\ \A t \in Stoppers : stopPc[t] # "close"
    BY <1>1, <1>3 DEF DInv, ClosedOnce
  <2>3. \A t \in Stoppers : stopPc'[t] = "close" <=> t = s
    BY <2>1, <2>2, <1>1
  <2>4. TypeOK'
    BY <1>1, <2>1 DEF DInv, TypeOK
  <2>5. ClosedOnce' /\ OneWinner'
    BY <2>1, <2>2, <2>3 DEF ClosedOnce, OneWinner
  <2> QED
    BY <2>4, <2>5 DEF DInv
<1>4. CASE CloseStopChan(s)
  <2>1. /\ stopPc' = [stopPc EXCEPT ![s] = "returned"] /\ stopPc[s] = "close"
        /\ closes' = closes + 1 /\ stopped' = stopped
    BY <1>4 DEF CloseStopChan
  <2>2. closes' = 1 /\ stopped
    BY <2>1 DEF DInv, OneWinner, ClosedOnce
  <2>3. \A t \in Stoppers : stopPc'[t] # "close"
    BY <2>1, <1>1 DEF DInv, OneWinner
  <2>4. TypeOK'
    BY <1>1, <2>1, <2>2 DEF DInv, TypeOK
  <2>5. ClosedOnce' /\ OneWinner'
    BY <2>1, <2>2, <2>3 DEF ClosedOnce, OneWinner
  <2> QED
    BY <2>4, <2>5 DEF DInv
<1> QED
  BY <1>2, <1>3, <1>4

\* Every step preserves the invariant.
LEMMA NextDInv == DInv /\ [Next]_vars => DInv'
<1> SUFFICES ASSUME DInv, [Next]_vars PROVE DInv'
  OBVIOUS
<1>1. CASE CancelContext
  BY <1>1 DEF CancelContext, manager, gauges, DInv, TypeOK, ClosedOnce, OneWinner
<1>2. CASE UNCHANGED vars
  BY <1>2 DEF vars, manager, stops, gauges, DInv, TypeOK, ClosedOnce, OneWinner
<1> QED
  BY <1>1, <1>2, ManagerStep, StopStep DEF Next

\* Everything Difficulty maintains, together.
THEOREM DInvHolds == Spec => []DInv
BY InitDInv, NextDInv, PTL DEF Spec

\* For all configured limits and every sequence of loads, Current() is within
\* the limits of the configuration.
THEOREM DifficultyInLimits == Spec => []TypeOK
<1>1. DInv => TypeOK
  BY DEF DInv
<1> QED
  BY <1>1, DInvHolds, PTL

\* However many goroutines call Stop, stopChan is closed exactly once.
THEOREM StopChanClosedOnce == Spec => []ClosedOnce
<1>1. DInv => ClosedOnce
  BY DEF DInv
<1> QED
  BY <1>1, DInvHolds, PTL

===============================================================================
