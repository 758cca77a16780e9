----------------------------- MODULE ServerProofs -----------------------------
(***************************************************************************)
(* Proofs about Server, for every finite set of connections and every size *)
(* of the pool.                                                            *)
(***************************************************************************)
EXTENDS Server, FiniteSetTheorems, TLAPS

Places == {"none", "accepted", "new", "allowed", "acquiring", "acquired",
           "handling", "returned", "releasing", "released", "closing", "gone"}

\* How many connections f places in V.
Number(f, V) == Cardinality({c \in Conns : f[c] \in V})

\* From f to g the connection c goes from one place to another.
Moves(g, f, c, from, to) ==
  f \in [Conns -> Places] /\ f[c] = from /\ g = [f EXCEPT ![c] = to]

One(v, V) == IF v \in V THEN 1 ELSE 0

\* A number of connections is a natural number.
LEMMA NumberType ==
  ASSUME NEW f, NEW V
  PROVE  Number(f, V) \in Nat /\ IsFiniteSet({c \in Conns : f[c] \in V})
<1>1. IsFiniteSet({c \in Conns : f[c] \in V})
  BY ServerAssumption, FS_Subset
<1> QED
  BY <1>1, FS_CardinalityType DEF Number

\* A connection that moves takes its unit from one count to the other.
LEMMA Move ==
  ASSUME NEW f, NEW g, NEW c \in Conns, NEW from, NEW to \in Places, NEW V,
         Moves(g, f, c, from, to)
  PROVE  Number(g, V) = Number(f, V) + One(to, V) - One(from, V)
<1> USE DEF Moves, One
<1> DEFINE F == {d \in Conns : f[d] \in V}
           G == {d \in Conns : g[d] \in V}
<1>1. IsFiniteSet(F) /\ Cardinality(F) \in Nat
  BY NumberType, Zenon DEF Number
<1>2. g[c] = to /\ \A d \in Conns \ {c} : g[d] = f[d]
  OBVIOUS
<1>3. CASE to \in V /\ from \in V
  <2>1. \A d \in Conns : g[d] \in V <=> f[d] \in V
    BY <1>2, <1>3
  <2>2. G = F
    BY <2>1
  <2>3. Number(g, V) = Number(f, V) /\ Number(f, V) \in Nat
    BY <2>2, <1>1 DEF Number
  <2>4. One(to, V) = 1 /\ One(from, V) = 1
    BY <1>3
  <2> HIDE DEF One
  <2> QED
    BY <2>3, <2>4
<1>4. CASE to \in V /\ from \notin V
  <2>1. G = F \cup {c} /\ c \notin F
    BY <1>2, <1>4
  <2>2. Cardinality(G) = Cardinality(F) + 1
    BY <2>1, <1>1, FS_AddElement, Zenon
  <2> QED
    BY <2>2, <1>1, <1>4 DEF Number
<1>5. CASE to \notin V /\ from \in V
  <2>1. G = F \ {c} /\ c \in F
    BY <1>2, <1>5
  <2>2. Cardinality(G) = Cardinality(F) - 1
    BY <2>1, <1>1, FS_RemoveElement, SMTT(30)
  <2> QED
    BY <2>2, <1>1, <1>5 DEF Number
<1>6. CASE to \notin V /\ from \notin V
  <2>1. G = F
    BY <1>2, <1>6
  <2> QED
    BY <2>1, <1>1, <1>6 DEF Number
<1> QED
  BY <1>3, <1>4, <1>5, <1>6

\* A connection in V makes the number positive, and none makes it zero.
LEMMA NumberZero ==
  ASSUME NEW f, NEW V
  PROVE  /\ Number(f, V) = 0 => \A c \in Conns : f[c] \notin V
         /\ (\A c \in Conns : f[c] \notin V) => Number(f, V) = 0
<1>1. IsFiniteSet({c \in Conns : f[c] \in V})
  BY NumberType
<1>2. Number(f, V) = 0 <=> {c \in Conns : f[c] \in V} = {}
  BY <1>1, FS_EmptySet DEF Number
<1> QED
  BY <1>2

\* A larger set of places has at least as many.
LEMMA NumberSubset ==
  ASSUME NEW f, NEW V, NEW W, V \subseteq W
  PROVE  Number(f, V) <= Number(f, W)
<1>1. {c \in Conns : f[c] \in V} \subseteq {c \in Conns : f[c] \in W}
  OBVIOUS
<1>2. IsFiniteSet({c \in Conns : f[c] \in W})
  BY NumberType
<1> QED
  BY <1>1, <1>2, FS_Subset DEF Number

(***************************************************************************)
(* The invariant.                                                          *)
(***************************************************************************)
Undecided == {"new", "allowed", "acquiring", "acquired", "handling"}
Slotted == {"acquiring", "acquired", "handling", "returned", "releasing"}
Entered == {"acquired", "handling", "returned", "releasing", "released"}
Handled == {"handling", "returned"}
Running == Undecided \cup {"returned", "releasing", "released", "closing"}

\* Every counter is the number of connections in some stretch of
\* handleConnection.
Counts ==
  /\ stats.total =
       stats.rejectedRateLimit + stats.rejectedPoolFull + stats.successful
       + stats.failed + uncounted + Number(conn, Undecided)
  /\ sem = Number(conn, Slotted)
  /\ active = Number(conn, Entered)
  /\ stats.active = Number(conn, Handled)
  /\ wg = Number(conn, Running)

\* Where a connection's goroutine is in the pool follows from where it is.
PoolPlaces ==
  \A c \in Conns :
    /\ conn[c] = "acquiring" => at[c] = "sent"
    /\ conn[c] \in {"acquired", "handling", "returned", "releasing"} => at[c] = "holding"
    /\ conn[c] = "released" => at[c] = "received"

\* What the code after closeOnce relies on: once the accept loop has been
\* waited for, it is over and the listener is closed.
Life ==
  /\ acceptPc = "none" <=> startPc \in {"new", "failed", "listening", "opened", "ready"}
  /\ acceptPc \in {"none", "returned"} => acceptLoopWg = 0
  /\ acceptPc \notin {"none", "returned"} => acceptLoopWg = 1
  /\ stopPc # "idle" \/ closeOnce # "fresh" => acceptPc # "none"
  /\ closeOnce = "fresh" <=> downPc = "none"
  /\ closeOnce = "done" <=> downPc = "done"
  /\ downPc \in {"waitAccept", "select", "finish", "done"} => listener # "open"
  /\ waiter # "none" <=> downPc \in {"select", "finish", "done"}
  /\ waiter # "none" => acceptPc = "returned"
  /\ outcome = "drained" => waiter = "done"

\* At most one connection is accepted and not yet counted, by the accept loop.
OneAccepted ==
  \A c \in Conns : conn[c] = "accepted" =>
    acceptPc = "accepted" /\ \A d \in Conns : conn[d] = "accepted" => c = d

\* The waiter saw wg = 0, and wg stays 0.
WaiterSawZero == waiter = "done" => wg = 0

PoolTypes == at \in [Conns -> P!Positions] /\ sem \in Int /\ active \in Int

SInv ==
  TypeOK /\ PoolTypes /\ Counts /\ PoolPlaces /\ Life /\ OneAccepted /\ WaiterSawZero

\* A step of one connection, and what it does to all the counts.
LEMMA Shifted ==
  ASSUME NEW c \in Conns, NEW from \in Places, NEW to \in Places,
         conn \in [Conns -> Places], Goto(c, from, to)
  PROVE  /\ conn' \in [Conns -> Places] /\ conn[c] = from /\ conn'[c] = to
         /\ \A d \in Conns \ {c} : conn'[d] = conn[d]
         /\ Number(conn', Undecided) =
              Number(conn, Undecided) + One(to, Undecided) - One(from, Undecided)
         /\ Number(conn', Slotted) =
              Number(conn, Slotted) + One(to, Slotted) - One(from, Slotted)
         /\ Number(conn', Entered) =
              Number(conn, Entered) + One(to, Entered) - One(from, Entered)
         /\ Number(conn', Handled) =
              Number(conn, Handled) + One(to, Handled) - One(from, Handled)
         /\ Number(conn', Running) =
              Number(conn, Running) + One(to, Running) - One(from, Running)
<1>1. Moves(conn', conn, c, from, to)
  BY DEF Goto, Moves
<1>2. \A V : Number(conn', V) = Number(conn, V) + One(to, V) - One(from, V)
  BY <1>1, Move
<1>3. /\ conn' \in [Conns -> Places] /\ conn[c] = from /\ conn'[c] = to
      /\ \A d \in Conns \ {c} : conn'[d] = conn[d]
  BY DEF Goto
<1> QED
  BY <1>2, <1>3

\* The numbers are natural numbers, before and after.
LEMMA NumberTypes ==
  ASSUME NEW f
  PROVE  /\ Number(f, Undecided) \in Nat /\ Number(f, Slotted) \in Nat
         /\ Number(f, Entered) \in Nat /\ Number(f, Handled) \in Nat
         /\ Number(f, Running) \in Nat
BY NumberType, Zenon

\* What a place weighs in each count.
Weighs(v, u, s, e, h, r) ==
  /\ v \in Places /\ One(v, Undecided) = u /\ One(v, Slotted) = s
  /\ One(v, Entered) = e /\ One(v, Handled) = h /\ One(v, Running) = r

\* The weights of all places.
LEMMA Weights ==
  /\ Weighs("none", 0, 0, 0, 0, 0)
  /\ Weighs("accepted", 0, 0, 0, 0, 0)
  /\ Weighs("new", 1, 0, 0, 0, 1)
  /\ Weighs("allowed", 1, 0, 0, 0, 1)
  /\ Weighs("acquiring", 1, 1, 0, 0, 1)
  /\ Weighs("acquired", 1, 1, 1, 0, 1)
  /\ Weighs("handling", 1, 1, 1, 1, 1)
  /\ Weighs("returned", 0, 1, 1, 1, 1)
  /\ Weighs("releasing", 0, 1, 1, 0, 1)
  /\ Weighs("released", 0, 0, 1, 0, 1)
  /\ Weighs("closing", 0, 0, 0, 0, 1)
  /\ Weighs("gone", 0, 0, 0, 0, 0)
BY DEF Weighs, One, Places, Undecided, Slotted, Entered, Handled, Running

\* Initially everything is zero.
LEMMA InitSInv == Init => SInv
<1> SUFFICES ASSUME Init PROVE SInv
  OBVIOUS
<1>1. conn = [c \in Conns |-> "none"] /\ at = [c \in Conns |-> "idle"] /\ sem = 0 /\ active = 0
  BY DEF Init, P!Init
<1>2. \A c \in Conns : conn[c] = "none"
  BY <1>1
<1>3. \A V : "none" \notin V => Number(conn, V) = 0
  BY <1>2, NumberZero
<1>4. /\ Number(conn, Undecided) = 0 /\ Number(conn, Slotted) = 0
      /\ Number(conn, Entered) = 0 /\ Number(conn, Handled) = 0
      /\ Number(conn, Running) = 0
  BY <1>3 DEF Undecided, Slotted, Entered, Handled, Running
<1>5. TypeOK
  <2>1. {cancelled, running, limiterClosed} \subseteq BOOLEAN
    BY Zenon DEF Init
  <2>2. stats \in [total : Nat, active : Nat, rejectedRateLimit : Nat,
                   rejectedPoolFull : Nat, successful : Nat, failed : Nat]
    BY DEF Init
  <2> QED
    BY <1>1, <2>1, <2>2 DEF Init, TypeOK
<1>6. PoolTypes
  BY <1>1 DEF PoolTypes, P!Positions, P!Outside
<1>7. Counts
  BY <1>1, <1>4 DEF Init, Counts
<1>8. PoolPlaces /\ OneAccepted
  BY <1>2 DEF PoolPlaces, OneAccepted
<1>9. Life /\ WaiterSawZero
  BY DEF Init, Life, WaiterSawZero
<1> QED
  BY <1>5, <1>6, <1>7, <1>8, <1>9 DEF SInv

(***************************************************************************)
(* The steps.                                                              *)
(***************************************************************************)
\* Steps that leave the connections and the pool alone keep what is about
\* them alone.
LEMMA Elsewhere ==
  ASSUME SInv, UNCHANGED <<conns, pool>>
  PROVE  PoolTypes' /\ Counts' /\ PoolPlaces'
BY DEF SInv, conns, pool, PoolTypes, Counts, PoolPlaces

\* Start, its context and the callers of shutdown.
LEMMA StartStep ==
  ASSUME SInv,
         StartSteps \/ CancelContext \/ (acceptPc # "none" /\ CallShutdown)
  PROVE  SInv'
<1>1. UNCHANGED <<conns, down, pool>>
  BY DEF StartSteps, Listen, SetListener, SetRunning, StartAcceptLoop, StartSeesCancel,
         CancelContext, CallShutdown
<1>2. PoolTypes' /\ Counts' /\ PoolPlaces'
  BY <1>1, Elsewhere, Zenon
<1>3. Life'
  <2> USE <1>1 DEF SInv, TypeOK, Life, down
  <2>1. CASE Listen
    BY <2>1 DEF Listen, accept
  <2>2. CASE SetListener
    BY <2>2 DEF SetListener, accept
  <2>3. CASE SetRunning
    BY <2>3 DEF SetRunning, accept
  <2>4. CASE StartAcceptLoop
    BY <2>4 DEF StartAcceptLoop
  <2>5. CASE StartSeesCancel
    BY <2>5 DEF StartSeesCancel, accept
  <2>6. CASE CancelContext
    BY <2>6 DEF CancelContext, accept
  <2>7. CASE acceptPc # "none" /\ CallShutdown
    BY <2>7 DEF CallShutdown, accept
  <2> QED
    BY <2>1, <2>2, <2>3, <2>4, <2>5, <2>6, <2>7, Zenon DEF StartSteps
<1>4. OneAccepted' /\ WaiterSawZero'
  <2>1. acceptPc' = acceptPc \/ acceptPc = "none"
    BY DEF SInv, Life, StartSteps, Listen, SetListener, SetRunning, StartAcceptLoop,
           StartSeesCancel, CancelContext, CallShutdown, accept
  <2> QED
    BY <1>1, <2>1 DEF SInv, OneAccepted, WaiterSawZero, conns, down
<1>5. TypeOK'
  <2>1. {cancelled, running, limiterClosed}' \subseteq BOOLEAN
    BY <1>1, Zenon DEF SInv, TypeOK, down, StartSteps, Listen, SetListener, SetRunning,
         StartAcceptLoop, StartSeesCancel, CancelContext, CallShutdown
  <2>2. /\ startPc' \in {"new", "failed", "listening", "opened", "ready", "waiting",
                         "shutdown", "stopped"}
        /\ stopPc' \in {"idle", "shutdown", "stopped"}
        /\ listener' \in {"nil", "open", "closed"}
        /\ acceptPc' \in {"none", "top", "accept", "accepted", "returned"}
        /\ acceptLoopWg' \in Nat
    BY DEF SInv, TypeOK, accept, StartSteps, Listen, SetListener, SetRunning,
         StartAcceptLoop, StartSeesCancel, CancelContext, CallShutdown
  <2> QED
    BY <1>1, <2>1, <2>2, Zenon DEF SInv, TypeOK, conns, down
<1> QED
  BY <1>2, <1>3, <1>4, <1>5 DEF SInv

\* shutdown: the order close, wait for the loop, wait for the connections.
LEMMA DownStep ==
  ASSUME SInv, DownSteps
  PROVE  SInv'
<1>1. UNCHANGED <<cancelled, accept, conns, pool>>
  BY DEF DownSteps, ShutdownBody, EnterOnce, CloseListener, WaitAcceptLoop, WaiterDone,
         Drained, Finish, ShutdownReturns, life
<1>2. PoolTypes' /\ Counts' /\ PoolPlaces'
  BY <1>1, Elsewhere
<1>3. Life' /\ WaiterSawZero'
  <2> USE <1>1 DEF SInv, TypeOK, Life, WaiterSawZero, accept, conns, life, down
  <2>1. CASE EnterOnce
    BY <2>1 DEF EnterOnce
  <2>2. CASE CloseListener
    BY <2>2 DEF CloseListener
  <2>3. CASE WaitAcceptLoop
    BY <2>3 DEF WaitAcceptLoop
  <2>4. CASE WaiterDone
    BY <2>4 DEF WaiterDone
  <2>5. CASE Drained
    BY <2>5 DEF Drained
  <2>6. CASE Finish
    BY <2>6 DEF Finish
  <2>7. CASE ShutdownReturns
    BY <2>7 DEF ShutdownReturns
  <2> QED
    BY <2>1, <2>2, <2>3, <2>4, <2>5, <2>6, <2>7 DEF DownSteps, ShutdownBody
<1>4. OneAccepted'
  BY <1>1 DEF SInv, OneAccepted, accept, conns
<1>5. TypeOK'
  <2>1. {cancelled, running, limiterClosed}' \subseteq BOOLEAN
    BY <1>1, Zenon DEF SInv, TypeOK, life, down, DownSteps, ShutdownBody, EnterOnce, CloseListener,
         WaitAcceptLoop, WaiterDone, Drained, Finish, ShutdownReturns
  <2>2. /\ startPc' \in {"new", "failed", "listening", "opened", "ready", "waiting",
                         "shutdown", "stopped"}
        /\ stopPc' \in {"idle", "shutdown", "stopped"}
        /\ listener' \in {"nil", "open", "closed"}
        /\ closeOnce' \in {"fresh", "running", "done"}
        /\ downPc' \in {"none", "close", "waitAccept", "select", "finish", "done"}
        /\ waiter' \in {"none", "waiting", "done"}
        /\ outcome' \in {"none", "drained", "timeout"}
    BY DEF SInv, TypeOK, life, down, DownSteps, ShutdownBody, EnterOnce, CloseListener,
         WaitAcceptLoop, WaiterDone, Drained, Finish, ShutdownReturns
  <2> QED
    BY <1>1, <2>1, <2>2, Zenon DEF SInv, TypeOK, conns, accept
<1> QED
  BY <1>2, <1>3, <1>4, <1>5 DEF SInv

\* A step of the accept loop that takes no connection.
LEMMA AcceptLoopStep ==
  ASSUME SInv, AcceptTop \/ AcceptError
  PROVE  SInv'
<1>1. UNCHANGED <<life, conns, down, pool>>
  BY DEF AcceptTop, AcceptError
<1>2. PoolTypes' /\ Counts' /\ PoolPlaces'
  BY <1>1, Elsewhere
<1>3. /\ acceptPc \in {"top", "accept"}
      /\ \/ acceptPc' = "returned" /\ acceptLoopWg' = acceptLoopWg - 1
         \/ acceptPc' \in {"top", "accept"} /\ acceptLoopWg' = acceptLoopWg
  BY DEF AcceptTop, AcceptError, AcceptReturns
<1>4. Life' /\ WaiterSawZero' /\ acceptLoopWg' \in Nat
  BY <1>1, <1>3 DEF SInv, Life, WaiterSawZero, life, conns, down
<1>5. OneAccepted'
  BY <1>1, <1>3 DEF SInv, OneAccepted, conns
<1>6. TypeOK'
  BY <1>1, <1>3, <1>4 DEF SInv, TypeOK, life, conns, down
<1> QED
  BY <1>2, <1>4, <1>5, <1>6 DEF SInv

\* The type of stats, and the same before activeConnections is known.
Stat == [total : Nat, active : Nat, rejectedRateLimit : Nat,
         rejectedPoolFull : Nat, successful : Nat, failed : Nat]
IntStat == [total : Nat, active : Int, rejectedRateLimit : Nat,
            rejectedPoolFull : Nat, successful : Nat, failed : Nat]

\* What a step of a connection does to conn and to the counts is Shifted;
\* this is what it leaves alone.
LEMMA ConnFrame ==
  ASSUME SInv, NEW c \in Conns, UNCHANGED <<life, accept, down>>,
         conn' \in [Conns -> Places],
         conn[c] # "accepted", conn'[c] # "accepted",
         \A d \in Conns \ {c} : conn'[d] = conn[d],
         conn[c] \in Running, Counts', uncounted' \in Nat,
         stats' \in IntStat
  PROVE  TypeOK' /\ Life' /\ OneAccepted' /\ WaiterSawZero'
<1>1. Life'
  BY DEF SInv, Life, life, accept, down
<1>2. OneAccepted'
  BY DEF SInv, OneAccepted, accept
<1>3. waiter # "done"
  BY NumberZero DEF SInv, WaiterSawZero, Counts
<1>4. WaiterSawZero'
  BY <1>3 DEF WaiterSawZero, down
<1>5. wg' \in Nat /\ stats'.active \in Nat
  BY NumberTypes DEF Counts
<1>6. stats' \in Stat
  BY <1>5 DEF Stat, IntStat
<1>7. TypeOK'
  BY <1>5, <1>6 DEF SInv, TypeOK, life, accept, down, Places, Stat
<1> QED
  BY <1>1, <1>2, <1>4, <1>7

\* Accept and what follows it.
LEMMA AcceptStep ==
  ASSUME SInv, NEW c \in Conns, Accept(c) \/ AcceptConn(c)
  PROVE  SInv'
<1>1. conn \in [Conns -> Places]
  BY DEF SInv, TypeOK, Places
<1>2. UNCHANGED <<life, acceptLoopWg, uncounted, down, pool>>
  BY DEF Accept, AcceptConn
<1>3. "none" \in Places /\ "accepted" \in Places /\ "new" \in Places
  BY DEF Places
<1>4. CASE Accept(c)
  <2>1. Goto(c, "none", "accepted")
    BY <1>4 DEF Accept
  <2>2. /\ conn' \in [Conns -> Places] /\ conn[c] = "none" /\ conn'[c] = "accepted"
        /\ \A d \in Conns \ {c} : conn'[d] = conn[d]
    BY <2>1, <1>1, <1>3, Shifted, Zenon
  <2>3. Counts'
    BY <2>1, <1>1, <1>2, <1>3, <1>4, Shifted, Weights, NumberTypes, SMTT(30)
       DEF SInv, Counts, Accept, pool, Weighs
  <2>4. PoolTypes' /\ PoolPlaces'
    BY <2>2, <1>2 DEF SInv, PoolTypes, PoolPlaces, pool
  <2>5. acceptPc = "accept" /\ acceptPc' = "accepted"
    BY <1>4 DEF Accept
  <2>6. Life'
    BY <2>5, <1>2 DEF SInv, Life, life, down
  <2>7. OneAccepted'
    BY <2>2, <2>5 DEF SInv, OneAccepted
  <2>8. wg' = wg /\ stats' = stats
    BY <1>4 DEF Accept
  <2>9. TypeOK' /\ WaiterSawZero'
    BY <2>2, <2>5, <2>8, <1>2 DEF SInv, TypeOK, WaiterSawZero, life, down, Places
  <2> QED
    BY <2>3, <2>4, <2>6, <2>7, <2>9 DEF SInv
<1>5. CASE AcceptConn(c)
  <2>1. Goto(c, "accepted", "new")
    BY <1>5 DEF AcceptConn
  <2>2. /\ conn' \in [Conns -> Places] /\ conn[c] = "accepted" /\ conn'[c] = "new"
        /\ \A d \in Conns \ {c} : conn'[d] = conn[d]
    BY <2>1, <1>1, <1>3, Shifted
  <2>3. /\ stats' = [stats EXCEPT !.total = @ + 1] /\ wg' = wg + 1
        /\ acceptPc = "accepted" /\ acceptPc' = "top"
    BY <1>5 DEF AcceptConn
  <2>4. stats \in [total : Nat, active : Nat, rejectedRateLimit : Nat,
                   rejectedPoolFull : Nat, successful : Nat, failed : Nat]
        /\ uncounted \in Nat
    BY DEF SInv, TypeOK
  <2>5. Counts'
    BY <2>1, <2>3, <2>4, <1>1, <1>2, <1>3, Shifted, Weights, NumberTypes, SMTT(30)
       DEF SInv, Counts, pool, Weighs
  <2>6. PoolTypes' /\ PoolPlaces'
    BY <2>2, <1>2 DEF SInv, PoolTypes, PoolPlaces, pool
  <2>7. Life'
    BY <2>3, <1>2 DEF SInv, Life, life, down
  <2>8. OneAccepted'
    BY <2>2, <2>3 DEF SInv, OneAccepted
  <2>9. WaiterSawZero'
    BY <2>3, <1>2 DEF SInv, Life, WaiterSawZero, down
  <2>10. TypeOK'
    BY <2>2, <2>3, <2>4, <1>2, SMTT(30) DEF SInv, TypeOK, life, down, Places
  <2> QED
    BY <2>5, <2>6, <2>7, <2>8, <2>9, <2>10 DEF SInv
<1> QED
  BY <1>4, <1>5

\* The counts change by these numbers.
Delta(u, s, e, h, r) ==
  /\ Number(conn', Undecided) = Number(conn, Undecided) + u
  /\ Number(conn', Slotted) = Number(conn, Slotted) + s
  /\ Number(conn', Entered) = Number(conn, Entered) + e
  /\ Number(conn', Handled) = Number(conn, Handled) + h
  /\ Number(conn', Running) = Number(conn, Running) + r

\* What each step of handleConnection adds to the counts.
LEMMA Deltas ==
  ASSUME conn \in [Conns -> Places], NEW c \in Conns
  PROVE  /\ Goto(c, "new", "allowed") => Delta(0, 0, 0, 0, 0)
         /\ Goto(c, "new", "closing") => Delta(-1, 0, 0, 0, 0)
         /\ Goto(c, "allowed", "acquiring") => Delta(0, 1, 0, 0, 0)
         /\ Goto(c, "allowed", "closing") => Delta(-1, 0, 0, 0, 0)
         /\ Goto(c, "acquiring", "acquired") => Delta(0, 0, 1, 0, 0)
         /\ Goto(c, "acquired", "handling") => Delta(0, 0, 0, 1, 0)
         /\ Goto(c, "handling", "returned") => Delta(-1, 0, 0, 0, 0)
         /\ Goto(c, "returned", "releasing") => Delta(0, 0, 0, -1, 0)
         /\ Goto(c, "releasing", "released") => Delta(0, -1, 0, 0, 0)
         /\ Goto(c, "released", "closing") => Delta(0, 0, -1, 0, 0)
         /\ Goto(c, "closing", "gone") => Delta(0, 0, 0, 0, -1)
<1>1. ASSUME Goto(c, "new", "allowed") PROVE Delta(0, 0, 0, 0, 0)
  <2>1. Weighs("new", 1, 0, 0, 0, 1) /\ Weighs("allowed", 1, 0, 0, 0, 1)
    BY Weights
  <2> QED
    BY <1>1, <2>1, NumberTypes, Shifted DEF Delta, Weighs
<1>2. ASSUME Goto(c, "new", "closing") PROVE Delta(-1, 0, 0, 0, 0)
  <2>1. Weighs("new", 1, 0, 0, 0, 1) /\ Weighs("closing", 0, 0, 0, 0, 1)
    BY Weights
  <2> QED
    BY <1>2, <2>1, NumberTypes, Shifted DEF Delta, Weighs
<1>3. ASSUME Goto(c, "allowed", "acquiring") PROVE Delta(0, 1, 0, 0, 0)
  <2>1. Weighs("allowed", 1, 0, 0, 0, 1) /\ Weighs("acquiring", 1, 1, 0, 0, 1)
    BY Weights
  <2> QED
    BY <1>3, <2>1, NumberTypes, Shifted DEF Delta, Weighs
<1>4. ASSUME Goto(c, "allowed", "closing") PROVE Delta(-1, 0, 0, 0, 0)
  <2>1. Weighs("allowed", 1, 0, 0, 0, 1) /\ Weighs("closing", 0, 0, 0, 0, 1)
    BY Weights, Zenon
  <2> QED
    BY <1>4, <2>1, NumberTypes, Shifted DEF Delta, Weighs
<1>5. ASSUME Goto(c, "acquiring", "acquired") PROVE Delta(0, 0, 1, 0, 0)
  <2>1. Weighs("acquiring", 1, 1, 0, 0, 1) /\ Weighs("acquired", 1, 1, 1, 0, 1)
    BY Weights
  <2> QED
    BY <1>5, <2>1, NumberTypes, Shifted DEF Delta, Weighs
<1>6. ASSUME Goto(c, "acquired", "handling") PROVE Delta(0, 0, 0, 1, 0)
  <2>1. Weighs("acquired", 1, 1, 1, 0, 1) /\ Weighs("handling", 1, 1, 1, 1, 1)
    BY Weights
  <2> QED
    BY <1>6, <2>1, NumberTypes, Shifted DEF Delta, Weighs
<1>7. ASSUME Goto(c, "handling", "returned") PROVE Delta(-1, 0, 0, 0, 0)
  <2>1. Weighs("handling", 1, 1, 1, 1, 1) /\ Weighs("returned", 0, 1, 1, 1, 1)
    BY Weights
  <2> QED
    BY <1>7, <2>1, NumberTypes, Shifted DEF Delta, Weighs
<1>8. ASSUME Goto(c, "returned", "releasing") PROVE Delta(0, 0, 0, -1, 0)
  <2>1. Weighs("returned", 0, 1, 1, 1, 1) /\ Weighs("releasing", 0, 1, 1, 0, 1)
    BY Weights
  <2> QED
    BY <1>8, <2>1, NumberTypes, Shifted DEF Delta, Weighs
<1>9. ASSUME Goto(c, "releasing", "released") PROVE Delta(0, -1, 0, 0, 0)
  <2>1. Weighs("releasing", 0, 1, 1, 0, 1) /\ Weighs("released", 0, 0, 1, 0, 1)
    BY Weights
  <2> QED
    BY <1>9, <2>1, NumberTypes, Shifted DEF Delta, Weighs
<1>10. ASSUME Goto(c, "released", "closing") PROVE Delta(0, 0, -1, 0, 0)
  <2>1. Weighs("released", 0, 0, 1, 0, 1) /\ Weighs("closing", 0, 0, 0, 0, 1)
    BY Weights
  <2> QED
    BY <1>10, <2>1, NumberTypes, Shifted DEF Delta, Weighs
<1>11. ASSUME Goto(c, "closing", "gone") PROVE Delta(0, 0, 0, 0, -1)
  <2>1. Weighs("closing", 0, 0, 0, 0, 1) /\ Weighs("gone", 0, 0, 0, 0, 0)
    BY Weights
  <2> QED
    BY <1>11, <2>1, NumberTypes, Shifted DEF Delta, Weighs
<1> QED
  BY <1>1, <1>2, <1>3, <1>4, <1>5, <1>6, <1>7, <1>8, <1>9, <1>10, <1>11, Zenon

\* The steps of a connection that are not the pool's.
LEMMA HandlingStep ==
  ASSUME SInv, NEW c \in Conns,
         Allow(c) \/ AddActiveConnection(c) \/ HandlerReturns(c)
           \/ SubActiveConnection(c) \/ CloseConn(c)
  PROVE  SInv'
<1>1. conn \in [Conns -> Places] /\ stats \in Stat /\ uncounted \in Nat /\ wg \in Nat
  BY DEF SInv, TypeOK, Places, Stat
<1>2. UNCHANGED <<life, accept, down, pool>>
  BY DEF Allow, AddActiveConnection, HandlerReturns, SubActiveConnection, CloseConn
<1>3. PICK from \in Places, to \in Places :
        /\ Goto(c, from, to)
        /\ <<from, to>> \in {<<"new", "allowed">>, <<"new", "closing">>,
             <<"acquired", "handling">>, <<"handling", "returned">>,
             <<"returned", "releasing">>, <<"closing", "gone">>}
  BY DEF Allow, AddActiveConnection, HandlerReturns, SubActiveConnection, CloseConn, Places
<1>4. /\ conn' \in [Conns -> Places] /\ conn[c] = from /\ conn'[c] = to
      /\ \A d \in Conns \ {c} : conn'[d] = conn[d]
  BY <1>1, <1>3, Shifted
<1>5. PoolTypes' /\ PoolPlaces'
  BY <1>2, <1>3, <1>4, Zenon DEF SInv, PoolTypes, PoolPlaces, pool
<1>6. Counts' /\ uncounted' \in Nat /\ stats' \in IntStat
  <2> USE <1>1, NumberTypes DEF Stat, IntStat, Delta
  <2>1. CASE Goto(c, "new", "allowed") /\ UNCHANGED stats /\ UNCHANGED <<wg, uncounted>>
    <3>1. Delta(0, 0, 0, 0, 0)
      BY <2>1, Deltas, Zenon
    <3> QED
      BY <3>1, <2>1, <1>2, SMTT(30) DEF SInv, Counts, pool
  <2>2. CASE Goto(c, "new", "closing") /\ stats' = [stats EXCEPT !.rejectedRateLimit = @ + 1] /\ UNCHANGED <<wg, uncounted>>
    <3>1. Delta(-1, 0, 0, 0, 0)
      BY <2>2, Deltas
    <3> QED
      BY <3>1, <2>2, <1>2, SMTT(30) DEF SInv, Counts, pool
  <2>3. CASE Goto(c, "acquired", "handling") /\ stats' = [stats EXCEPT !.active = @ + 1] /\ UNCHANGED <<wg, uncounted>>
    <3>1. Delta(0, 0, 0, 1, 0)
      BY <2>3, Deltas
    <3> QED
      BY <3>1, <2>3, <1>2, SMTT(30) DEF SInv, Counts, pool
  <2>4. CASE Goto(c, "handling", "returned") /\ stats' = [stats EXCEPT !.successful = @ + 1] /\ UNCHANGED <<wg, uncounted>>
    <3>1. Delta(-1, 0, 0, 0, 0)
      BY <2>4, Deltas
    <3> QED
      BY <3>1, <2>4, <1>2, SMTT(30) DEF SInv, Counts, pool
  <2>5. CASE Goto(c, "handling", "returned") /\ stats' = [stats EXCEPT !.failed = @ + 1] /\ UNCHANGED <<wg, uncounted>>
    <3>1. Delta(-1, 0, 0, 0, 0)
      BY <2>5, Deltas, Zenon
    <3> QED
      BY <3>1, <2>5, <1>2, SMTT(30) DEF SInv, Counts, pool
  <2>6. CASE Goto(c, "handling", "returned") /\ uncounted' = uncounted + 1 /\ UNCHANGED <<wg, stats>>
    <3>1. Delta(-1, 0, 0, 0, 0)
      BY <2>6, Deltas, Zenon
    <3> QED
      BY <3>1, <2>6, <1>2, SMTT(30) DEF SInv, Counts, pool
  <2>7. CASE Goto(c, "returned", "releasing") /\ stats' = [stats EXCEPT !.active = @ - 1] /\ UNCHANGED <<wg, uncounted>>
    <3>1. Delta(0, 0, 0, -1, 0)
      BY <2>7, Deltas, Zenon
    <3> QED
      BY <3>1, <2>7, <1>2, SMTT(30) DEF SInv, Counts, pool
  <2>8. CASE Goto(c, "closing", "gone") /\ wg' = wg - 1 /\ UNCHANGED <<stats, uncounted>>
    <3>1. Delta(0, 0, 0, 0, -1)
      BY <2>8, Deltas, Zenon
    <3> QED
      BY <3>1, <2>8, <1>2, SMTT(30) DEF SInv, Counts, pool
  <2> QED
    BY <2>1, <2>2, <2>3, <2>4, <2>5, <2>6, <2>7, <2>8, SMTT(30) DEF Allow, AddActiveConnection,
       HandlerReturns, SubActiveConnection, CloseConn
<1>7. from \in Running /\ from # "accepted" /\ to # "accepted"
  BY <1>3 DEF Running, Undecided
<1> QED
  BY <1>2, <1>4, <1>5, <1>6, <1>7, ConnFrame, SMTT(30) DEF SInv

\* The pool's part of a step of a connection: one caller moves.
PoolMove(c, to, ds, da) ==
  /\ at' = [at EXCEPT ![c] = to]
  /\ sem' = sem + ds /\ active' = active + da

\* The slot is there to be given back: Release never takes its default.
LEMMA PoolSteps ==
  ASSUME SInv, NEW c \in Conns
  PROVE  /\ Acquire(c) =>
              \/ /\ PoolMove(c, "sent", 1, 0)
                 /\ Goto(c, "allowed", "acquiring") /\ stats' = stats
              \/ /\ PoolMove(c, "refused", 0, 0)
                 /\ Goto(c, "allowed", "closing")
                 /\ stats' = [stats EXCEPT !.rejectedPoolFull = @ + 1]
         /\ Acquired(c) =>
              PoolMove(c, "holding", 0, 1) /\ Goto(c, "acquiring", "acquired")
         /\ Release(c) =>
              PoolMove(c, "received", -1, 0) /\ Goto(c, "releasing", "released")
         /\ Released(c) =>
              PoolMove(c, "idle", 0, -1) /\ Goto(c, "released", "closing")
<1>1. at \in [Conns -> P!Positions] /\ sem \in Int /\ active \in Int
  BY DEF SInv, PoolTypes
<1>2. ASSUME Acquire(c)
      PROVE  \/ /\ PoolMove(c, "sent", 1, 0)
                /\ Goto(c, "allowed", "acquiring") /\ stats' = stats
             \/ /\ PoolMove(c, "refused", 0, 0)
                /\ Goto(c, "allowed", "closing")
                /\ stats' = [stats EXCEPT !.rejectedPoolFull = @ + 1]
  <2>1. \/ at' = [at EXCEPT ![c] = "sent"] /\ sem' = sem + 1 /\ active' = active
        \/ at' = [at EXCEPT ![c] = "refused"] /\ sem' = sem /\ active' = active
    BY <1>2 DEF Acquire, P!Acquire
  <2> QED
    BY <1>1, <1>2, <2>1 DEF Acquire, PoolMove
<1>3. ASSUME Acquired(c)
      PROVE  PoolMove(c, "holding", 0, 1) /\ Goto(c, "acquiring", "acquired")
  <2>1. at[c] = "sent"
    BY <1>3 DEF Acquired, Goto, SInv, PoolPlaces
  <2> QED
    BY <1>1, <1>3, <2>1 DEF Acquired, P!AddActive, PoolMove
<1>4. ASSUME Release(c)
      PROVE  PoolMove(c, "received", -1, 0) /\ Goto(c, "releasing", "released")
  <2>1. conn[c] \in Slotted
    BY <1>4 DEF Release, Goto, Slotted
  <2>2. sem > 0
    BY <2>1, NumberTypes, NumberZero DEF SInv, Counts
  <2>3. P!Receive(c) /\ active' = active
    BY <1>4, <2>2 DEF Release, P!Release
  <2> QED
    BY <1>1, <1>4, <2>2, <2>3 DEF Release, P!Receive, PoolMove
<1>5. ASSUME Released(c)
      PROVE  PoolMove(c, "idle", 0, -1) /\ Goto(c, "released", "closing")
  BY <1>1, <1>5 DEF Released, P!SubActive, PoolMove
<1> QED
  BY <1>2, <1>3, <1>4, <1>5

\* The steps of a connection that are the pool's.
LEMMA PoolStep ==
  ASSUME SInv, NEW c \in Conns, Acquire(c) \/ Acquired(c) \/ Release(c) \/ Released(c)
  PROVE  SInv'
<1>1. conn \in [Conns -> Places] /\ stats \in Stat /\ uncounted \in Nat
  BY DEF SInv, TypeOK, Places, Stat
<1>2. UNCHANGED <<life, accept, down, wg, uncounted>>
  BY DEF Acquire, Acquired, Release, Released
<1>3. PICK from \in Places, to \in Places, v \in P!Positions :
        /\ Goto(c, from, to) /\ at' = [at EXCEPT ![c] = v]
        /\ <<from, to, v>> \in
             {<<"allowed", "acquiring", "sent">>, <<"allowed", "closing", "refused">>,
              <<"acquiring", "acquired", "holding">>, <<"releasing", "released", "received">>,
              <<"released", "closing", "idle">>}
  BY PoolSteps DEF PoolMove, Places, P!Positions, P!Outside, P!Blocking
<1>4. /\ conn' \in [Conns -> Places] /\ conn[c] = from /\ conn'[c] = to
      /\ \A d \in Conns \ {c} : conn'[d] = conn[d]
  BY <1>1, <1>3, Shifted
<1>5. PoolPlaces' /\ at' \in [Conns -> P!Positions]
  BY <1>3, <1>4 DEF SInv, PoolTypes, PoolPlaces
<1>6. Counts' /\ stats' \in IntStat
  <2> USE <1>1, NumberTypes DEF Stat, IntStat, Delta, PoolMove
  <2>1. CASE /\ PoolMove(c, "sent", 1, 0)
             /\ Goto(c, "allowed", "acquiring") /\ stats' = stats
    <3>1. Delta(0, 1, 0, 0, 0)
      BY <2>1, Deltas, Zenon
    <3> QED
      BY <3>1, <2>1, <1>2, SMTT(30) DEF SInv, Counts
  <2>2. CASE /\ PoolMove(c, "refused", 0, 0)
             /\ Goto(c, "allowed", "closing")
             /\ stats' = [stats EXCEPT !.rejectedPoolFull = @ + 1]
    <3>1. Delta(-1, 0, 0, 0, 0)
      BY <2>2, Deltas, Zenon
    <3> QED
      BY <3>1, <2>2, <1>2, SMTT(30) DEF SInv, Counts
  <2>3. CASE Acquired(c)
    <3>1. Delta(0, 0, 1, 0, 0) /\ PoolMove(c, "holding", 0, 1) /\ stats' = stats
      BY <2>3, Deltas, PoolSteps, Zenon DEF Acquired
    <3> QED
      BY <3>1, <1>2, SMTT(30) DEF SInv, Counts
  <2>4. CASE Release(c)
    <3>1. Delta(0, -1, 0, 0, 0) /\ PoolMove(c, "received", -1, 0) /\ stats' = stats
      BY <2>4, Deltas, PoolSteps, Zenon DEF Release
    <3> QED
      BY <3>1, <1>2, SMTT(30) DEF SInv, Counts
  <2>5. CASE Released(c)
    <3>1. Delta(0, 0, -1, 0, 0) /\ PoolMove(c, "idle", 0, -1) /\ stats' = stats
      BY <2>5, Deltas, PoolSteps DEF Released
    <3> QED
      BY <3>1, <1>2, SMTT(30) DEF SInv, Counts
  <2> QED
    BY <2>1, <2>2, <2>3, <2>4, <2>5, PoolSteps, SMTT(30)
<1>7. from \in Running /\ from # "accepted" /\ to # "accepted"
  BY <1>3 DEF Running, Undecided
<1>8. PoolTypes'
  BY <1>5, <1>6, NumberTypes DEF PoolTypes, Counts
<1> QED
  BY <1>1, <1>2, <1>4, <1>5, <1>6, <1>7, <1>8, ConnFrame, SMTT(30) DEF SInv

\* Every step of the server preserves the invariant.
LEMMA NextSInv == SInv /\ [Next]_vars => SInv'
<1> SUFFICES ASSUME SInv, [Next]_vars PROVE SInv'
  BY Zenon
<1>1. CASE UNCHANGED vars
  BY <1>1 DEF vars, life, accept, conns, down, pool, SInv, TypeOK, PoolTypes, Counts,
              PoolPlaces, Life, OneAccepted, WaiterSawZero
<1>2. ASSUME NEW c \in Conns, HandleConnection(c)
      PROVE  SInv'
  BY <1>2, HandlingStep, PoolStep DEF HandleConnection
<1>3. CASE AcceptSteps
  BY <1>3, AcceptLoopStep, AcceptStep DEF AcceptSteps
<1> QED
  BY <1>1, <1>2, <1>3, StartStep, DownStep DEF Next, Steps, Goroutines

\* All that the server maintains, together.
THEOREM ServerInvariant == Spec => []SInv
BY InitSInv, NextSInv, PTL DEF Spec

\* The two Waits of shutdown sleep exactly while a goroutine has its Done ahead of
\* it: a connection's for wg, the accept loop for acceptLoopWg.
THEOREM WaitsForGoroutines ==
  Spec => [](/\ wg # 0 <=> \E c \in Conns : conn[c] \in Running
             /\ acceptLoopWg # 0 <=> acceptPc \notin {"none", "returned"})
<1>1. ASSUME SInv PROVE wg # 0 <=> \E c \in Conns : conn[c] \in Running
  BY <1>1, NumberZero DEF SInv, Counts
<1>2. ASSUME SInv PROVE acceptLoopWg # 0 <=> acceptPc \notin {"none", "returned"}
  BY <1>2 DEF SInv, Life
<1> QED
  BY <1>1, <1>2, ServerInvariant, PTL

\* "all connections closed gracefully" is true whenever it is logged.
THEOREM DrainedIsEmpty == Spec => []DrainedMeansEmpty
<1>1. SInv => DrainedMeansEmpty
  <2> SUFFICES ASSUME SInv, outcome = "drained" PROVE DrainedMeansEmpty
    BY DEF DrainedMeansEmpty
  <2>1. acceptPc = "returned" /\ Number(conn, Running) = 0
    BY DEF SInv, Life, WaiterSawZero, Counts
  <2>2. \A c \in Conns : conn[c] \notin Running /\ conn[c] # "accepted"
    BY <2>1, NumberZero DEF SInv, OneAccepted
  <2>3. \A c \in Conns : conn[c] \in {"none", "gone"}
    BY <2>2 DEF SInv, TypeOK, Running, Undecided
  <2>4. \A c \in Conns : conn[c] \notin Slotted /\ conn[c] \notin Entered /\ conn[c] \notin Handled
    BY <2>3 DEF Slotted, Entered, Handled
  <2>5. Number(conn, Slotted) = 0 /\ Number(conn, Entered) = 0 /\ Number(conn, Handled) = 0
    BY <2>4, NumberZero
  <2> QED
    BY <2>1, <2>3, <2>5 DEF SInv, Counts, DrainedMeansEmpty
<1> QED
  BY <1>1, ServerInvariant, PTL

\* Only AcceptConn adds to wg.
LEMMA OnlyAcceptAdds ==
  ASSUME SInv, Next, acceptPc # "accepted"
  PROVE  wg' <= wg /\ stats'.total = stats.total
<1> USE DEF SInv, TypeOK
<1>1. CASE UNCHANGED <<wg, stats>>
  BY <1>1
<1>2. ASSUME NEW c \in Conns, CloseConn(c)
      PROVE  wg' <= wg /\ stats'.total = stats.total
  BY <1>2 DEF CloseConn
<1>3. ASSUME NEW c \in Conns, HandleConnection(c), ~CloseConn(c)
      PROVE  wg' = wg /\ stats'.total = stats.total
  <2>1. Acquire(c) => stats'.total = stats.total
    BY Zenon DEF Acquire
  <2> QED
    BY <1>3, <2>1 DEF HandleConnection, Allow, Acquire, Acquired, AddActiveConnection,
      HandlerReturns, SubActiveConnection, Release, Released
<1>4. CASE StartSteps \/ CancelContext \/ CallShutdown
  BY <1>1, <1>4, Zenon DEF conns, StartSteps, Listen, SetListener, SetRunning, StartAcceptLoop,
    StartSeesCancel, CancelContext, CallShutdown
<1>5. CASE DownSteps
  BY <1>1, <1>5 DEF conns, DownSteps, ShutdownBody, EnterOnce, CloseListener,
    WaitAcceptLoop, WaiterDone, Drained, Finish, ShutdownReturns
<1>6. CASE AcceptSteps
  BY <1>1, <1>6 DEF conns, AcceptSteps, AcceptTop, AcceptError, Accept, AcceptConn
<1> QED
  BY <1>2, <1>3, <1>4, <1>5, <1>6, SMTT(30) DEF Next, Steps, Goroutines

\* wg.Add never runs while a goroutine is in wg.Wait: the accept loop, which
\* alone calls it, has been waited for.
THEOREM NoRaceOnWaitGroup == Spec => NoAddDuringWait
<1>1. SInv /\ [Next]_vars => [waiter = "waiting" => wg' <= wg]_vars
  BY OnlyAcceptAdds DEF SInv, Life, TypeOK, vars, conns
<1> QED
  BY <1>1, ServerInvariant, PTL DEF Spec, NoAddDuringWait

\* After shutdown has returned nothing is accepted.
THEOREM ShutdownIsFinal == Spec => NothingAcceptedAfterShutdown
<1>1. SInv /\ [Next]_vars =>
        [closeOnce = "done" => listener # "open" /\ stats.total' = stats.total]_vars
  BY OnlyAcceptAdds DEF SInv, Life, TypeOK, vars, conns
<1> QED
  BY <1>1, ServerInvariant, PTL DEF Spec, NothingAcceptedAfterShutdown

\* The connection goroutines are callers of the pool: all that is proved of
\* Pool holds of the server's.
THEOREM ServerUsesPool == Spec => UsesPool
<1>1. Init => P!Init
  BY DEF Init
<1>2. [Next]_vars => [P!Next]_(P!vars)
  <2> SUFFICES ASSUME [Next]_vars PROVE [P!Next]_(P!vars)
    OBVIOUS
  <2> USE DEF P!Next, P!Step, P!vars
  <2>1. ASSUME NEW c \in Conns, HandleConnection(c)
        PROVE  [P!Next]_(P!vars)
    BY <2>1 DEF HandleConnection, Allow, Acquire, Acquired, AddActiveConnection,
      HandlerReturns, SubActiveConnection, Release, Released, CloseConn, pool
  <2>2. CASE UNCHANGED pool
    BY <2>2, Zenon DEF pool
  <2>3. CASE StartSteps \/ CancelContext \/ CallShutdown
    BY <2>2, <2>3, SMTT(30) DEF StartSteps, Listen, SetListener, SetRunning, StartAcceptLoop,
      StartSeesCancel, CancelContext, CallShutdown
  <2>4. CASE DownSteps
    BY <2>2, <2>4 DEF DownSteps, ShutdownBody, EnterOnce, CloseListener,
      WaitAcceptLoop, WaiterDone, Drained, Finish, ShutdownReturns
  <2>5. CASE AcceptSteps
    BY <2>2, <2>5 DEF AcceptSteps, AcceptTop, AcceptError, Accept, AcceptConn
  <2> QED
    BY <2>1, <2>2, <2>3, <2>4, <2>5, Zenon DEF Next, Steps, Goroutines, vars
<1> QED
  BY <1>1, <1>2, PTL DEF Spec, UsesPool, P!Spec

\* The pool is given no more than its slots.
LEMMA SlotsBounded == Spec => [](sem \in Nat /\ sem <= P!max)
<1> DEFINE Bounded == sem \in Nat /\ sem <= P!max
<1>1. P!max \in Nat \ {0}
  BY ServerAssumption DEF P!max
<1>2. P!Init => Bounded
  BY <1>1 DEF P!Init
<1>3. Bounded /\ [P!Next]_(P!vars) => Bounded'
  <2> SUFFICES ASSUME Bounded, [P!Next]_(P!vars) PROVE Bounded'
    OBVIOUS
  <2>1. CASE UNCHANGED P!vars
    BY <2>1 DEF P!vars, P!max
  <2>2. ASSUME NEW c \in Conns, P!Step(c) PROVE Bounded'
    <3>1. sem' = sem \/ (sem < P!max /\ sem' = sem + 1) \/ (sem > 0 /\ sem' = sem - 1)
      BY <2>2 DEF P!Step, P!Acquire, P!AcquireBlocking, P!AddActive, P!Select, P!DeferWaiting,
                  P!Cancel, P!Release, P!Receive, P!ReceiveNothing, P!SubActive
    <3>2. P!max' = P!max
      BY DEF P!max
    <3> QED
      BY <1>1, <3>1, <3>2
  <2> QED
    BY <2>1, <2>2 DEF P!Next
<1> QED
  BY <1>2, <1>3, ServerUsesPool, PTL DEF UsesPool, P!Spec

\* For any number of connections: the server's counters add up,
\* activeConnections never exceeds the slots in use or the pool's own count, and
\* no more than MaxConnections slots are in use.
THEOREM CountersAlwaysBalance == Spec => []CountersBalance
<1>1. SInv /\ sem <= P!max => CountersBalance
  <2> SUFFICES ASSUME SInv, sem <= P!max PROVE CountersBalance
    OBVIOUS
  <2>1. Number(conn, Undecided)
          = Cardinality(In({"new", "allowed", "acquiring", "acquired", "handling"}))
    BY DEF Number, In, Undecided
  <2>2. Handled \subseteq Slotted /\ Handled \subseteq Entered
    BY DEF Handled, Slotted, Entered
  <2>3. Number(conn, Handled) <= Number(conn, Slotted)
    BY <2>2, NumberSubset
  <2>4. Number(conn, Handled) <= Number(conn, Entered)
    BY <2>2, NumberSubset
  <2> QED
    BY <2>1, <2>3, <2>4 DEF SInv, Counts, CountersBalance
<1> QED
  BY <1>1, ServerInvariant, SlotsBounded, PTL

===============================================================================
