----------------------------- MODULE SessionProofs ----------------------------
(***************************************************************************)
(* Proofs about a connection and its two ends, for every value of the      *)
(* timeouts, the clock skew, the attempts, the difficulty, the intervals   *)
(* of the search and its set of digests.                                   *)
(*                                                                         *)
(* Handler: HInv has four parts: the order of the replies, their number,   *)
(* the counters, and the clock.  Each is proved from what the handlers do  *)
(* to the state, which Connected, Challenging and VerificationError        *)
(* summarise.  It holds for every client.                                  *)
(*                                                                         *)
(* Solver: hasLeadingZeros is the test of the leading bits (BitTest), and  *)
(* SInv is what the search maintains.                                      *)
(*                                                                         *)
(* Session: CInv says, for each place the client can be at, what is on the *)
(* wire and where the server is.  Every step of a session is one of the    *)
(* handler's, but for the clock that goes on after it has returned         *)
(* (HandlerSteps), so that HInv holds here too.                            *)
(***************************************************************************)
EXTENDS Session, TLAPS

(***************************************************************************)
(* The handler: what a step does.                                          *)
(***************************************************************************)
\* A message is received in time and a reply is begun.
Received ==
  /\ pc = "read" /\ clock <= deadline /\ reads' = reads + 1
  /\ pc' = "send" /\ writeBy' = clock + WriteTimeout
  /\ UNCHANGED <<deadline, sent, result, cancelledAt, clock>>

Answer(codes, then, whose) ==
  reply'.msg \in codes /\ reply'.then = then /\ reply'.to = whose

\* handleConnected replies with the challenge or with a final error.
LEMMA Connected ==
  ASSUME NEW msg, handleConnected(msg)
  PROVE  /\ Received /\ state = "CONNECTED" /\ UNCHANGED <<state, attempts, metrics>>
         /\ \/ Answer({"CHALLENGE"}, "loop", "other") /\ issuedAt' = clock
            \/ /\ Answer({"INVALID_STATE", "INVALID_MESSAGE"}, "error", "other")
               /\ issuedAt' = issuedAt
BY DEF handleConnected, Receive, Send, Received, Answer

\* handleVerificationError counts the attempt and replies by kind of error.
LEMMA VerificationError ==
  ASSUME NEW err, NEW whose, Receive("CHALLENGING"), handleVerificationError(err, whose)
  PROVE  /\ Received /\ state' = state /\ attempts' = attempts + 1
         /\ \/ /\ Answer({"CHALLENGE_EXPIRED"}, "error", whose) /\ Record("expired")
               /\ err \in {"ErrChallengeExpired", "ErrFutureTimestamp"}
            \/ /\ Answer({"INVALID_SIGNATURE", "INVALID_MESSAGE", "TOO_MANY_ATTEMPTS"},
                         "error", whose)
               /\ Record("failed")
            \/ /\ Answer({"INVALID_SOLUTION"}, "loop", whose) /\ Record("failed")
               /\ ~(attempts + 1 >= MaxAttempts)
<1> USE DEF handleVerificationError, ChallengeExpired, ChallengeFailed, Receive, Send,
            Received, Answer
<1>1. CASE err \in {"ErrChallengeExpired", "ErrFutureTimestamp"}
  BY <1>1
<1>2. CASE err = "ErrInvalidSignature"
  BY <1>2
<1>3. CASE err = "ErrInsufficientWork"
  BY <1>3
<1>4. CASE err \notin {"ErrChallengeExpired", "ErrFutureTimestamp", "ErrInvalidSignature",
                       "ErrInsufficientWork"}
  BY <1>4
<1> QED
  BY <1>1, <1>2, <1>3, <1>4

\* handleChallenging replies with the quote, or counts an attempt, or neither.
LEMMA Challenging ==
  ASSUME NEW msg, handleChallenging(msg)
  PROVE  /\ Received /\ state = "CHALLENGING" /\ issuedAt' = issuedAt
         /\ \/ /\ Answer({"INVALID_STATE", "INVALID_MESSAGE"}, "error", "other")
               /\ UNCHANGED <<state, attempts, metrics>>
            \/ /\ Answer({"CHALLENGE_EXPIRED"}, "error", msg.whose) /\ Record("expired")
               /\ msg.type = "SOLUTION"
               /\ Verify(msg) \in {"ErrChallengeExpired", "ErrFutureTimestamp"}
               /\ state' = state /\ attempts' = attempts + 1
            \/ /\ Answer({"INVALID_SIGNATURE", "INVALID_MESSAGE", "TOO_MANY_ATTEMPTS"},
                         "error", msg.whose)
               /\ Record("failed") /\ state' = state /\ attempts' = attempts + 1
            \/ /\ Answer({"INVALID_SOLUTION"}, "loop", msg.whose) /\ Record("failed")
               /\ ~(attempts + 1 >= MaxAttempts)
               /\ state' = state /\ attempts' = attempts + 1
            \/ /\ Answer({"QUOTE"}, "nil", msg.whose) /\ Record("solved")
               /\ state' = "AUTHORIZED" /\ attempts' = attempts
<1>1. state = "CHALLENGING" /\ issuedAt' = issuedAt /\ Receive("CHALLENGING")
  BY DEF handleChallenging, Receive
<1>2. CASE /\ msg.type = "SOLUTION" /\ Verify(msg) # "nil"
           /\ handleVerificationError(Verify(msg), msg.whose)
  BY <1>1, <1>2, VerificationError
<1>3. CASE ~(/\ msg.type = "SOLUTION" /\ Verify(msg) # "nil"
             /\ handleVerificationError(Verify(msg), msg.whose))
  BY <1>1, <1>3 DEF handleChallenging, Receive, Send, Received, Answer, ChallengeSolved
<1> QED
  BY <1>1, <1>2, <1>3

\* A failed read always ends Handle: ReadMessage has wrapped the timeout.
LEMMA ReadErrors ==
  ASSUME NEW err \in {Timeout, EOF, Malformed}, ReadError(err)
  PROVE  /\ pc = "read" /\ pc' = "done" /\ result' \in {"nil", "error"}
         /\ UNCHANGED <<state, attempts, issuedAt, deadline, writeBy, reply, sent, reads,
                        cancelledAt, metrics, clock>>
BY DEF ReadError, handleReadError, Return, Timeout, EOF, Malformed

\* The replies in their order, and the reply being written.
Order ==
  /\ state = "CONNECTED" =>
       IF pc = "done"
         THEN /\ Len(sent) <= 1
              /\ \A i \in DOMAIN sent : sent[i] \in ErrorCodes \ {"INVALID_SOLUTION"}
         ELSE Len(sent) = 0
  /\ state # "CONNECTED" => Len(sent) >= 1 /\ sent[1] = "CHALLENGE"
  /\ \A i \in 2 .. Len(sent) - 1 : sent[i] = "INVALID_SOLUTION"
  /\ \A i \in 2 .. Len(sent) :
       sent[i] \in ErrorCodes \/ (sent[i] = "QUOTE" /\ state = "COMPLETED")
  /\ pc # "done" => \A i \in 2 .. Len(sent) : sent[i] = "INVALID_SOLUTION"
  /\ pc \in {"loop", "read"} => state \in {"CONNECTED", "CHALLENGING"}
  /\ pc = "start" => state = "CONNECTED"
  /\ state = "AUTHORIZED" => pc \in {"send", "done"}
  /\ state = "COMPLETED" => pc = "done" /\ result = "nil" /\ sent[Len(sent)] = "QUOTE"
  /\ pc = "send" =>
       \/ state = "CONNECTED" /\ reply.msg = "CHALLENGE" /\ reply.then = "loop"
       \/ /\ state = "CONNECTED" /\ reply.then = "error"
          /\ reply.msg \in {"INVALID_STATE", "INVALID_MESSAGE"}
       \/ state = "CHALLENGING" /\ reply.msg = "INVALID_SOLUTION" /\ reply.then = "loop"
       \/ /\ state = "CHALLENGING" /\ reply.then = "error"
          /\ reply.msg \in ErrorCodes \ {"INVALID_SOLUTION"}
       \/ state = "AUTHORIZED" /\ reply.msg = "QUOTE" /\ reply.then = "nil"

\* How many messages were read: OneReplyEach, from the start.
Reads ==
  /\ pc \in {"start", "loop", "read"} => reads = Len(sent)
  /\ pc = "send" => reads = Len(sent) + 1
  /\ pc = "done" => reads = Len(sent) + (IF result = "writeError" THEN 1 ELSE 0)

\* The counters, and the attempts they count: one for each INVALID_SOLUTION sent
\* and one for that being written.
Counters ==
  /\ metrics.issued = IF state = "CONNECTED" THEN 0 ELSE 1
  /\ metrics.solved = IF state \in {"AUTHORIZED", "COMPLETED"} THEN 1 ELSE 0
  /\ metrics.served = IF state = "COMPLETED" THEN 1 ELSE 0
  /\ metrics.failed + metrics.expired = attempts
  /\ state = "CONNECTED" => attempts = 0
  /\ pc # "done" /\ state = "CHALLENGING" => Len(sent) <= attempts + 1
  /\ pc = "send" /\ reply.msg = "INVALID_SOLUTION" =>
       Len(sent) <= attempts /\ attempts < MaxAttempts
  /\ \A i \in 2 .. Len(sent) : sent[i] = "INVALID_SOLUTION" => i <= AttemptLimit

\* The deadlines and the clock.
Times ==
  LET L == Longer(IdleTimeout, ChallengeTimeout) IN
  /\ pc = "start" => clock = 0
  /\ cancelledAt # NoTime => cancelledAt \in Nat /\ cancelledAt <= clock
  /\ pc \in {"loop", "read", "send"} =>
       /\ deadline \in Nat
       /\ deadline <= IdleTimeout + WriteTimeout + ChallengeTimeout
       /\ deadline <= clock + L
       /\ state = "CONNECTED" => deadline = IdleTimeout
  /\ pc \in {"loop", "read"} => clock <= deadline + WriteTimeout
  /\ pc = "send" =>
       clock <= writeBy /\ writeBy <= deadline + WriteTimeout /\ writeBy <= clock + WriteTimeout
  /\ cancelledAt # NoTime =>
       /\ pc = "loop" => clock <= cancelledAt + L + WriteTimeout
       /\ pc = "read" => deadline <= cancelledAt + L
                           /\ (clock <= deadline \/ clock = cancelledAt)
       /\ pc = "send" => writeBy <= cancelledAt + L + WriteTimeout

\* The challenge's own time.
Issued ==
  /\ pc = "send" /\ reply.msg = "CHALLENGE" =>
       issuedAt \in Nat /\ issuedAt <= clock /\ writeBy = issuedAt + WriteTimeout
  /\ pc # "done" /\ state = "CHALLENGING" =>
       /\ issuedAt \in Nat /\ issuedAt <= clock
       /\ deadline <= issuedAt + WriteTimeout + ChallengeTimeout
  /\ OwnChallengeNeverExpires

\* The inductive invariant.
HInv ==
  /\ TypeOK /\ (pc # "done" => result = "none")
  /\ Order /\ Reads /\ Counters /\ Times /\ Issued

\* The invariant holds when Handle is called.
LEMMA InitHInv == Init => HInv
<1> SUFFICES ASSUME Init PROVE HInv
  OBVIOUS
<1> USE HandlerAssumption DEF Init, NoTime
<1>1. TypeOK
  BY DEF TypeOK, NoReply, Replies, ErrorCodes
<1>2. Order /\ Reads
  BY DEF Order, Reads
<1>3. Counters
  BY DEF Counters, AttemptLimit
<1>4. Times /\ Issued
  BY DEF Times, Issued, OwnChallengeNeverExpires
<1> QED
  BY <1>1, <1>2, <1>3, <1>4 DEF HInv

\* Steps that read, write and count nothing: the start, the context check, a
\* failed read or write, a cancellation, the clock.
Quiet == UNCHANGED <<state, attempts, issuedAt, writeBy, reply, sent, reads, metrics>>

\* The steps that send and count nothing are quiet.
LEMMA QuietSteps ==
  ASSUME Handle \/ CheckContext \/ (\E err \in {Timeout, EOF, Malformed} : ReadError(err))
           \/ SendFails \/ CancelContext \/ Tick \/ UNCHANGED vars
  PROVE  Quiet
BY ReadErrors DEF Quiet, Handle, CheckContext, SendFails, CancelContext, Tick, vars

\* They keep the counters, which depend on nothing else.
LEMMA QuietCounters ==
  ASSUME HInv, Quiet, pc' = "send" => pc = "send", pc' # "done" => pc # "done"
  PROVE  Counters'
BY DEF HInv, Counters, AttemptLimit, Quiet

\* Numbers that are used in sums.
Num ==
  /\ IdleTimeout \in Nat \ {0} /\ ChallengeTimeout \in Nat \ {0}
  /\ WriteTimeout \in Nat \ {0} /\ ClockSkew \in Nat /\ MaxAttempts \in Int
  /\ Longer(IdleTimeout, ChallengeTimeout) \in Nat
  /\ IdleTimeout <= Longer(IdleTimeout, ChallengeTimeout)
  /\ ChallengeTimeout <= Longer(IdleTimeout, ChallengeTimeout)
  /\ clock \in Nat /\ writeBy \in Nat /\ deadline \in Int /\ issuedAt \in Int
  /\ cancelledAt \in Int /\ NoTime \in Int
  /\ attempts \in Nat /\ reads \in Nat /\ Len(sent) \in Nat

\* The type invariant says of every time and counter that it is a number.
LEMMA Numeric == TypeOK => Num
<1> SUFFICES ASSUME TypeOK PROVE Num
  OBVIOUS
<1>1. /\ IdleTimeout \in Nat \ {0} /\ ChallengeTimeout \in Nat \ {0}
      /\ WriteTimeout \in Nat \ {0} /\ ClockSkew \in Nat /\ MaxAttempts \in Int
  BY HandlerAssumption
<1>2. /\ Longer(IdleTimeout, ChallengeTimeout) \in Nat
      /\ IdleTimeout <= Longer(IdleTimeout, ChallengeTimeout)
      /\ ChallengeTimeout <= Longer(IdleTimeout, ChallengeTimeout)
  BY <1>1 DEF Longer
<1>3. NoTime \in Int
  BY DEF NoTime
<1>4. {deadline, issuedAt, cancelledAt} \subseteq Int
  BY <1>3 DEF TypeOK
<1>5. clock \in Nat /\ writeBy \in Nat /\ attempts \in Nat /\ reads \in Nat /\ Len(sent) \in Nat
  BY DEF TypeOK
<1> QED
  BY <1>1, <1>2, <1>3, <1>4, <1>5 DEF Num

\* Handle and the context check.
LEMMA LoopStep ==
  ASSUME HInv, Handle \/ CheckContext
  PROVE  HInv'
<1> Num
  BY Numeric DEF HInv
<1>1. Quiet
  BY QuietSteps
<1>2. pc' # "send" /\ pc \in {"start", "loop"} /\ cancelledAt' = cancelledAt /\ clock' = clock
  BY DEF Handle, SetReadDeadline, CheckContext, Return
<1>3. Counters'
  BY <1>1, <1>2, QuietCounters
<1>4. \/ pc = "start" /\ pc' = "loop" /\ deadline' = clock + IdleTimeout /\ result' = result
      \/ pc' = "done" /\ deadline' = deadline /\ result' \in {"error", "canceled"}
      \/ /\ pc = "loop" /\ pc' = "read" /\ deadline' = deadline /\ result' = result
         /\ cancelledAt = NoTime
  BY DEF HInv, Handle, SetReadDeadline, CheckContext, Return
<1>5. TypeOK' /\ (pc' # "done" => result' = "none")
  <2>1. deadline' \in Nat \cup {NoTime}
    BY <1>4, SMTT(30) DEF Num, HInv, TypeOK
  <2> QED
    BY <1>1, <1>2, <1>4, <2>1 DEF HInv, TypeOK, Quiet
<1>6. Order' /\ Reads'
  BY <1>1, <1>2, <1>4 DEF HInv, Order, Reads, Quiet
<1>7. Times'
  <2>1. CASE pc = "start" /\ pc' = "loop" /\ deadline' = clock + IdleTimeout
    BY <1>1, <1>2, <2>1 DEF Num, HInv, Times, Order, Quiet
  <2>2. CASE pc' = "done"
    BY <1>2, <2>2 DEF HInv, Times
  <2>3. CASE pc = "loop" /\ pc' = "read" /\ deadline' = deadline /\ cancelledAt = NoTime
    BY <1>1, <1>2, <2>3 DEF HInv, Times, Quiet
  <2> QED
    BY <1>4, <2>1, <2>2, <2>3
<1>8. Issued'
  <2>1. pc' # "done" /\ state' = "CHALLENGING" => pc = "loop" /\ deadline' = deadline
    BY <1>1, <1>2, <1>4 DEF HInv, Order, Quiet
  <2> QED
    BY <1>1, <1>2, <2>1 DEF HInv, Issued, OwnChallengeNeverExpires, Quiet
<1> QED
  BY <1>3, <1>5, <1>6, <1>7, <1>8 DEF HInv

\* A read or a write that fails ends Handle.
LEMMA FailStep ==
  ASSUME HInv, (\E err \in {Timeout, EOF, Malformed} : ReadError(err)) \/ SendFails
  PROVE  HInv'
<1> Num
  BY Numeric DEF HInv
<1>1. Quiet
  BY QuietSteps
<1>2. /\ pc' = "done" /\ UNCHANGED <<deadline, cancelledAt, clock>>
      /\ \/ pc = "read" /\ result' \in {"nil", "error"}
         \/ pc = "send" /\ result' = "writeError"
  BY ReadErrors DEF SendFails, Return
<1>3. Counters'
  BY <1>1, <1>2, QuietCounters
<1>4. TypeOK'
  BY <1>1, <1>2 DEF HInv, TypeOK, Quiet
<1>5. Order' /\ Reads'
  BY <1>1, <1>2 DEF HInv, Order, Reads, Quiet
<1>6. Times'
  BY <1>2 DEF HInv, Times
<1>7. Issued'
  BY <1>2 DEF Issued, OwnChallengeNeverExpires
<1> QED
  BY <1>2, <1>3, <1>4, <1>5, <1>6, <1>7 DEF HInv

\* A cancellation, and the clock.
LEMMA OutsideStep ==
  ASSUME HInv, CancelContext \/ Tick \/ UNCHANGED vars
  PROVE  HInv'
<1> Num
  BY Numeric DEF HInv
<1>1. Quiet
  BY QuietSteps
<1>2. UNCHANGED <<pc, deadline, result>>
  BY DEF CancelContext, Tick, vars
<1>3. Counters'
  BY <1>1, <1>2, QuietCounters
<1>4. \/ clock' = clock /\ cancelledAt' = clock /\ cancelledAt = NoTime
      \/ /\ clock' = clock + 1 /\ cancelledAt' = cancelledAt
         /\ \/ pc = "read" /\ clock < deadline
            \/ pc = "send" /\ clock < writeBy
      \/ clock' = clock /\ cancelledAt' = cancelledAt
  BY DEF HInv, CancelContext, Tick, vars
<1>5. TypeOK' /\ (pc' # "done" => result' = "none")
  <2>1. clock \in Nat /\ cancelledAt \in Nat \cup {NoTime}
    BY DEF HInv, TypeOK
  <2>2. clock' \in Nat /\ cancelledAt' \in Nat \cup {NoTime}
    BY <1>4, <2>1
  <2> QED
    BY <1>1, <1>2, <2>2 DEF HInv, TypeOK, Quiet
<1>6. Order' /\ Reads'
  BY <1>1, <1>2 DEF HInv, Order, Reads, Quiet
<1>7. Times'
  <2> USE DEF Num, HInv, Times, Quiet
  <2> HIDE DEF Longer
  <2>1. CASE clock' = clock /\ cancelledAt' = clock /\ cancelledAt = NoTime
    BY <1>1, <1>2, <1>4, <2>1
  <2>2. CASE clock' = clock + 1 /\ cancelledAt' = cancelledAt /\ pc = "read" /\ clock < deadline
    BY <1>1, <1>2, <1>4, <2>2
  <2>3. CASE clock' = clock + 1 /\ cancelledAt' = cancelledAt /\ pc = "send" /\ clock < writeBy
    BY <1>1, <1>2, <1>4, <2>3
  <2>4. CASE clock' = clock /\ cancelledAt' = cancelledAt
    BY <1>1, <1>2, <2>4
  <2> QED
    BY <1>4, <2>1, <2>2, <2>3, <2>4, Zenon
<1>8. Issued'
  BY <1>1, <1>2, <1>4 DEF Num, HInv, Issued, OwnChallengeNeverExpires, Quiet
<1> QED
  BY <1>3, <1>5, <1>6, <1>7, <1>8 DEF HInv

\* What every received message does, whatever its answer.
LEMMA ReceivedStep ==
  ASSUME HInv, Received, state' = "CONNECTED" => state = "CONNECTED"
  PROVE  Reads' /\ Times' /\ result' = "none"
<1> Num
  BY Numeric DEF HInv
<1> USE DEF HInv, Received
<1>1. Reads' /\ result' = "none"
  BY DEF Reads, Num
<1>2. Times'
  <2> DEFINE L == Longer(IdleTimeout, ChallengeTimeout)
  <2>1. /\ deadline' \in Nat
        /\ deadline' <= IdleTimeout + WriteTimeout + ChallengeTimeout
        /\ deadline' <= clock' + L
        /\ state = "CONNECTED" => deadline' = IdleTimeout
    BY DEF Times
  <2>2. /\ clock' <= writeBy' /\ writeBy' <= deadline' + WriteTimeout
        /\ writeBy' <= clock' + WriteTimeout
    BY <2>1 DEF Num
  <2>3. cancelledAt' # NoTime =>
          /\ cancelledAt' \in Nat /\ cancelledAt' <= clock'
          /\ writeBy' <= cancelledAt' + L + WriteTimeout
    <3> SUFFICES ASSUME cancelledAt # NoTime
                 PROVE  /\ cancelledAt \in Nat /\ cancelledAt <= clock
                        /\ clock + WriteTimeout <= cancelledAt + L + WriteTimeout
      OBVIOUS
    <3>1. cancelledAt \in Nat /\ cancelledAt <= clock /\ deadline <= cancelledAt + L
      BY DEF Times
    <3> HIDE DEF L
    <3>2. L \in Nat
      BY DEF L, Num
    <3> QED
      BY <3>1, <3>2 DEF Num
  <2> QED
    BY <2>1, <2>2, <2>3 DEF Times
<1> QED
  BY <1>1, <1>2

\* handleConnected.
LEMMA ConnectedStep ==
  ASSUME HInv, NEW msg \in Messages, handleConnected(msg)
  PROVE  HInv'
<1> Num
  BY Numeric DEF HInv
<1>1. /\ Received /\ state = "CONNECTED" /\ UNCHANGED <<state, attempts, metrics>>
      /\ \/ Answer({"CHALLENGE"}, "loop", "other") /\ issuedAt' = clock
         \/ /\ Answer({"INVALID_STATE", "INVALID_MESSAGE"}, "error", "other")
            /\ issuedAt' = issuedAt
  BY Connected
<1>2. Reads' /\ Times' /\ result' = "none"
  BY <1>1, ReceivedStep
<1>3. reply' \in [msg : Replies, then : {"loop", "nil", "error"}, to : {"own", "other"}]
  BY DEF handleConnected, Send, Replies, ErrorCodes
<1>4. TypeOK'
  <2>1. writeBy' \in Nat /\ reads' \in Nat /\ issuedAt' \in Nat \cup {NoTime}
    BY <1>1 DEF Received, Num, HInv, TypeOK
  <2> QED
    BY <1>1, <1>2, <1>3, <2>1 DEF HInv, TypeOK, Received
<1>5. Order'
  BY <1>1, <1>2 DEF HInv, Order, Received, Answer
<1>6. Counters'
  BY <1>1, <1>2 DEF HInv, Order, Counters, AttemptLimit, Received, Answer, Num
<1>7. Issued'
  BY <1>1 DEF Issued, OwnChallengeNeverExpires, Received, Answer, Num
<1> QED
  BY <1>2, <1>4, <1>5, <1>6, <1>7 DEF HInv

\* A message's owner is known, and the age of an answer to this connection's
\* challenge is the time since it was made, or a second more.
LEMMA MessageFields ==
  ASSUME NEW msg \in Messages
  PROVE  /\ msg.whose \in {"own", "other"}
         /\ msg.whose = "own" =>
              /\ issuedAt # NoTime /\ msg.flaw \in {"work", "none"}
              /\ msg.age \in {clock - issuedAt, clock - issuedAt + 1}
BY DEF Messages, OwnSolutions, Solutions, NoSolutions

\* An answer to this connection's challenge that is read in time is not too old.
LEMMA OwnAge ==
  ASSUME HInv, NEW msg \in Messages, msg.whose = "own", WriteTimeout < ClockSkew,
         pc = "read", clock <= deadline, state = "CHALLENGING"
  PROVE  Verify(msg) \notin {"ErrChallengeExpired", "ErrFutureTimestamp"}
<1> Num
  BY Numeric DEF HInv
<1>1. /\ msg.flaw \in {"work", "none"}
      /\ msg.age \in {clock - issuedAt, clock - issuedAt + 1}
  BY MessageFields
<1>2. /\ issuedAt \in Nat /\ issuedAt <= clock
      /\ deadline <= issuedAt + WriteTimeout + ChallengeTimeout
  BY DEF HInv, Issued
<1>3. /\ msg.age \in Int /\ msg.age >= 0
      /\ msg.age <= ChallengeTimeout + ClockSkew
  BY <1>1, <1>2 DEF Num
<1>4. validateTimestamp(msg.age) = "nil"
  BY <1>3 DEF validateTimestamp, Num
<1> QED
  BY <1>1, <1>4 DEF Verify

\* handleChallenging.
LEMMA ChallengingStep ==
  ASSUME HInv, NEW msg \in Messages, handleChallenging(msg)
  PROVE  HInv'
<1> Num
  BY Numeric DEF HInv
<1>1. Received /\ state = "CHALLENGING" /\ issuedAt' = issuedAt
  BY Challenging
<1>2. Reads' /\ Times' /\ result' = "none"
  BY <1>1, ReceivedStep, Challenging
<1>3. reply' \in [msg : Replies, then : {"loop", "nil", "error"}, to : {"own", "other"}]
  <2>1. msg.whose \in {"own", "other"}
    BY MessageFields
  <2>2. /\ reply' = [msg |-> reply'.msg, then |-> reply'.then, to |-> reply'.to]
        /\ reply'.msg \in Replies /\ reply'.then \in {"loop", "nil", "error"}
        /\ reply'.to \in {msg.whose, "other"}
    BY DEF handleChallenging, handleVerificationError, Send, Replies, ErrorCodes
  <2> QED
    BY <2>1, <2>2
<1>4. metrics \in [issued : Nat, solved : Nat, failed : Nat, expired : Nat, served : Nat]
  BY DEF HInv, TypeOK
<1>5. \A x \in {"failed", "expired", "solved"} : Record(x) =>
        metrics' \in [issued : Nat, solved : Nat, failed : Nat, expired : Nat, served : Nat]
  BY <1>4 DEF Record
<1>6. TypeOK'
  <2>1. writeBy' \in Nat /\ reads' \in Nat
    BY <1>1 DEF Received, Num
  <2>2. metrics' \in [issued : Nat, solved : Nat, failed : Nat, expired : Nat, served : Nat]
    BY <1>4, <1>5, Challenging, Zenon
  <2>3. attempts' \in {attempts, attempts + 1} /\ state' \in {state, "AUTHORIZED"}
    BY Challenging, Zenon
  <2>4. attempts' \in Nat /\ state' \in {"CHALLENGING", "AUTHORIZED"}
    BY <1>1, <2>3 DEF Num
  <2> QED
    BY <1>1, <1>2, <1>3, <2>1, <2>2, <2>4 DEF HInv, TypeOK, Received
<1>7. Order'
  <2>1. \/ state' = "CHALLENGING" /\ reply'.msg = "INVALID_SOLUTION" /\ reply'.then = "loop"
        \/ /\ state' = "CHALLENGING" /\ reply'.then = "error"
           /\ reply'.msg \in ErrorCodes \ {"INVALID_SOLUTION"}
        \/ state' = "AUTHORIZED" /\ reply'.msg = "QUOTE" /\ reply'.then = "nil"
    BY Challenging DEF Answer, ErrorCodes
  <2> QED
    BY <1>1, <2>1 DEF HInv, Order, Received
<1>8. Counters'
  <2> USE <1>1, <1>4 DEF HInv, Counters, AttemptLimit, Received, Answer, Num
  <2>1. CASE /\ Answer({"INVALID_STATE", "INVALID_MESSAGE"}, "error", "other")
             /\ UNCHANGED <<state, attempts, metrics>>
    BY <2>1
  <2>2. CASE /\ Answer({"CHALLENGE_EXPIRED"}, "error", msg.whose) /\ Record("expired")
             /\ state' = state /\ attempts' = attempts + 1
    BY <2>2 DEF Record
  <2>3. CASE /\ Answer({"INVALID_SIGNATURE", "INVALID_MESSAGE", "TOO_MANY_ATTEMPTS"},
                       "error", msg.whose)
             /\ Record("failed") /\ state' = state /\ attempts' = attempts + 1
    BY <2>3 DEF Record
  <2>4. CASE /\ Answer({"INVALID_SOLUTION"}, "loop", msg.whose) /\ Record("failed")
             /\ ~(attempts + 1 >= MaxAttempts)
             /\ state' = state /\ attempts' = attempts + 1
    BY <2>4 DEF Record
  <2>5. CASE /\ Answer({"QUOTE"}, "nil", msg.whose) /\ Record("solved")
             /\ state' = "AUTHORIZED" /\ attempts' = attempts
    BY <2>5 DEF Record
  <2> QED
    BY <2>1, <2>2, <2>3, <2>4, <2>5, Challenging, Zenon
<1>9. Issued'
  <2>1. OwnChallengeNeverExpires'
    BY <1>1, Challenging, OwnAge DEF OwnChallengeNeverExpires, Answer, Received
  <2>2. reply'.msg # "CHALLENGE"
    BY Challenging DEF Answer
  <2> QED
    BY <1>1, <2>1, <2>2 DEF HInv, Issued, Received
<1> QED
  BY <1>2, <1>6, <1>7, <1>8, <1>9 DEF HInv

\* The reply has been written.
Written ==
  /\ pc = "send" /\ sent' = Append(sent, reply.msg)
  /\ UNCHANGED <<issuedAt, writeBy, reply, reads, cancelledAt, clock>>

\* The replies, with one more at their end.
LEMMA WrittenFacts ==
  ASSUME HInv, Written
  PROVE  /\ sent \in Seq(Replies) /\ reply.msg \in Replies
         /\ Len(sent') = Len(sent) + 1 /\ Len(sent) \in Nat /\ sent' \in Seq(Replies)
         /\ sent'[Len(sent) + 1] = reply.msg /\ \A i \in 1 .. Len(sent) : sent'[i] = sent[i]
         /\ DOMAIN sent = 1 .. Len(sent) /\ DOMAIN sent' = 1 .. Len(sent) + 1
<1>1. sent \in Seq(Replies) /\ reply.msg \in Replies
  BY DEF HInv, TypeOK
<1> QED
  BY <1>1 DEF Written

\* After the challenge: challengeSent.
LEMMA ChallengeSentStep ==
  ASSUME HInv, Written, challengeSent
  PROVE  HInv'
<1> Num
  BY Numeric DEF HInv
<1>1. /\ reply.msg = "CHALLENGE" /\ Record("issued") /\ state' = "CHALLENGING"
      /\ attempts' = 0
      /\ \/ deadline' = clock + ChallengeTimeout /\ pc' = "loop" /\ result' = result
         \/ pc' = "done" /\ result' = "error" /\ deadline' = deadline
  BY DEF challengeSent, ChallengeIssued, SetReadDeadline, Return
<1>2. state = "CONNECTED" /\ Len(sent) = 0 /\ pc = "send" /\ result = "none"
  BY <1>1 DEF HInv, Order, Written, ErrorCodes
<1>3. metrics' = [metrics EXCEPT !.issued = @ + 1]
      /\ metrics \in [issued : Nat, solved : Nat, failed : Nat, expired : Nat, served : Nat]
  BY <1>1, Zenon DEF Record, HInv, TypeOK
<1>4. TypeOK' /\ (pc' # "done" => result' = "none")
  <2>1. deadline' \in Nat \cup {NoTime}
    BY <1>1 DEF Num, HInv, TypeOK
  <2>2. metrics' \in [issued : Nat, solved : Nat, failed : Nat, expired : Nat, served : Nat]
    BY <1>3
  <2> QED
    BY <1>1, <1>2, <2>1, <2>2, WrittenFacts DEF HInv, TypeOK, Written
<1>5. Order'
  <2>1. Len(sent') = 1 /\ sent'[1] = "CHALLENGE"
    BY <1>1, <1>2, WrittenFacts
  <2> QED
    BY <1>1, <2>1 DEF Order
<1>6. Reads'
  BY <1>1, <1>2, WrittenFacts DEF HInv, Reads, Written, Num
<1>7. Counters'
  <2>1. /\ metrics.issued = 0 /\ metrics.served = 0 /\ metrics.solved = 0
        /\ metrics.failed + metrics.expired = 0
    BY <1>2 DEF HInv, Counters
  <2>2. /\ metrics'.issued = 1 /\ metrics'.served = 0 /\ metrics'.solved = 0
        /\ metrics'.failed + metrics'.expired = 0
    BY <1>3, <2>1
  <2>3. Len(sent') = 1
    BY <1>2, WrittenFacts
  <2> QED
    BY <1>1, <2>2, <2>3 DEF Counters
<1>8. Times'
  <2>1. CASE pc' = "done"
    BY <2>1 DEF HInv, Times, Written
  <2>2. CASE pc' = "loop" /\ deadline' = clock + ChallengeTimeout
    <3> DEFINE L == Longer(IdleTimeout, ChallengeTimeout)
    <3>1. /\ clock <= IdleTimeout + WriteTimeout
          /\ cancelledAt # NoTime => /\ cancelledAt \in Nat /\ cancelledAt <= clock
                                     /\ clock <= cancelledAt + L + WriteTimeout
      BY <1>2 DEF HInv, Times, Num
    <3>2. /\ deadline' \in Nat /\ clock <= deadline' + WriteTimeout
          /\ deadline' <= IdleTimeout + WriteTimeout + ChallengeTimeout
          /\ deadline' <= clock + L
      BY <2>2, <3>1 DEF Num
    <3> QED
      BY <1>1, <2>2, <3>1, <3>2 DEF Times, Written
  <2> QED
    BY <1>1, <2>1, <2>2
<1>9. Issued'
  <2>1. /\ issuedAt \in Nat /\ issuedAt <= clock /\ clock <= issuedAt + WriteTimeout
    BY <1>1, <1>2 DEF HInv, Issued, Times
  <2> QED
    BY <1>1, <2>1 DEF Issued, OwnChallengeNeverExpires, Written, Num
<1> QED
  BY <1>4, <1>5, <1>6, <1>7, <1>8, <1>9 DEF HInv

\* After the quote: quoteSent.
LEMMA QuoteSentStep ==
  ASSUME HInv, Written, quoteSent
  PROVE  HInv'
<1> Num
  BY Numeric DEF HInv
<1>1. /\ reply.msg = "QUOTE" /\ Record("served") /\ state' = "COMPLETED"
      /\ pc' = "done" /\ result' = "nil" /\ UNCHANGED <<attempts, deadline>>
  BY DEF quoteSent, QuoteServed, Return
<1>2. state = "AUTHORIZED" /\ pc = "send"
  BY <1>1 DEF HInv, Order, Written, ErrorCodes
<1>3. metrics' = [metrics EXCEPT !.served = @ + 1]
      /\ metrics \in [issued : Nat, solved : Nat, failed : Nat, expired : Nat, served : Nat]
  BY <1>1, Zenon DEF Record, HInv, TypeOK
<1>4. TypeOK'
  <2>1. metrics' \in [issued : Nat, solved : Nat, failed : Nat, expired : Nat, served : Nat]
    BY <1>3, SMTT(30)
  <2> QED
    BY <1>1, <2>1, WrittenFacts DEF HInv, TypeOK, Written
<1>5. Order'
  BY <1>1, <1>2, WrittenFacts DEF HInv, Order
<1>6. Reads'
  BY <1>1, <1>2, WrittenFacts DEF HInv, Reads, Written, Num
<1>7. Counters'
  <2>1. \A i \in 2 .. Len(sent') : sent'[i] = "INVALID_SOLUTION" => i <= AttemptLimit
    BY <1>1, WrittenFacts DEF HInv, Counters
  <2> QED
    BY <1>1, <1>2, <1>3, <2>1 DEF HInv, Counters, AttemptLimit, Num
<1>8. Times'
  BY <1>1 DEF HInv, Times, Written
<1>9. Issued'
  BY <1>1 DEF Issued, OwnChallengeNeverExpires
<1> QED
  BY <1>1, <1>4, <1>5, <1>6, <1>7, <1>8, <1>9 DEF HInv

\* After an error message: errorSent.
LEMMA ErrorSentStep ==
  ASSUME HInv, Written, errorSent
  PROVE  HInv'
<1> Num
  BY Numeric DEF HInv
<1>1. /\ reply.msg \in ErrorCodes /\ UNCHANGED <<state, attempts, deadline, metrics>>
      /\ \/ reply.then = "loop" /\ pc' = "loop" /\ result' = result
         \/ reply.then # "loop" /\ pc' = "done" /\ result' = "error"
  BY DEF errorSent, Return
<1>2. /\ pc = "send" /\ result = "none" /\ state \in {"CONNECTED", "CHALLENGING"}
      /\ reply.then = "loop" => state = "CHALLENGING" /\ reply.msg = "INVALID_SOLUTION"
      /\ reply.then # "loop" => reply.msg # "INVALID_SOLUTION"
      /\ reply.msg \notin {"CHALLENGE", "QUOTE"}
  BY <1>1 DEF HInv, Order, Written, ErrorCodes
<1>3. TypeOK' /\ (pc' # "done" => result' = "none")
  BY <1>1, <1>2, WrittenFacts DEF HInv, TypeOK, Written
<1>4. Order'
  <2>1. CASE state = "CONNECTED"
    <3>1. pc' = "done" /\ reply.msg \in ErrorCodes \ {"INVALID_SOLUTION"}
      BY <1>1, <1>2, <2>1
    <3>2. Len(sent) = 0
      BY <1>2, <2>1 DEF HInv, Order
    <3>3. Len(sent') = 1 /\ sent'[1] = reply.msg
      BY <3>2, WrittenFacts, SMTT(30)
    <3> QED
      BY <1>1, <2>1, <3>1, <3>3, WrittenFacts DEF Order
  <2>2. CASE state = "CHALLENGING"
    BY <1>1, <1>2, <2>2, WrittenFacts DEF HInv, Order
  <2> QED
    BY <1>2, <2>1, <2>2
<1>5. Reads'
  BY <1>1, <1>2, WrittenFacts DEF HInv, Reads, Written, Num
<1>6. Counters'
  <2>1. reply.msg = "INVALID_SOLUTION" => Len(sent) + 1 <= AttemptLimit
    BY <1>2 DEF HInv, Counters, AttemptLimit, Num
  <2>2. \A i \in 2 .. Len(sent') : sent'[i] = "INVALID_SOLUTION" => i <= AttemptLimit
    BY <2>1, WrittenFacts, SMTT(30) DEF HInv, Counters
  <2>3. pc' # "done" => Len(sent') <= attempts + 1
    BY <1>1, <1>2, WrittenFacts DEF HInv, Counters, Num
  <2> QED
    BY <1>1, <1>2, <2>2, <2>3 DEF HInv, Counters, AttemptLimit
<1>7. Times'
  <2>1. CASE pc' = "done"
    BY <2>1 DEF HInv, Times, Written
  <2>2. CASE pc' = "loop"
    <3> DEFINE L == Longer(IdleTimeout, ChallengeTimeout)
    <3>1. /\ deadline' \in Nat /\ clock <= deadline' + WriteTimeout
          /\ deadline' <= IdleTimeout + WriteTimeout + ChallengeTimeout
          /\ deadline' <= clock + L
          /\ cancelledAt # NoTime => /\ cancelledAt \in Nat /\ cancelledAt <= clock
                                     /\ clock <= cancelledAt + L + WriteTimeout
      BY <1>1, <1>2 DEF HInv, Times, Num
    <3> QED
      BY <1>1, <1>2, <2>2, <3>1 DEF Times, Written
  <2> QED
    BY <1>1, <2>1, <2>2
<1>8. Issued'
  BY <1>1, <1>2 DEF HInv, Issued, OwnChallengeNeverExpires, Written
<1> QED
  BY <1>3, <1>4, <1>5, <1>6, <1>7, <1>8 DEF HInv

\* Every step preserves the invariant.
LEMMA NextHInv == HInv /\ [Next]_vars => HInv'
<1> SUFFICES ASSUME HInv, [Next]_vars PROVE HInv'
  OBVIOUS
<1>1. CASE Sent
  <2>1. Written
    BY <1>1 DEF Sent, Written
  <2> QED
    BY <1>1, <2>1, ChallengeSentStep, QuoteSentStep, ErrorSentStep DEF Sent
<1> QED
  BY <1>1, LoopStep, FailStep, OutsideStep, ConnectedStep, ChallengingStep DEF Next, Step

\* What the invariant says of the replies.
LEMMA OrderedReplies == HInv => ReplyOrder
<1> SUFFICES ASSUME HInv PROVE ReplyOrder
  OBVIOUS
<1>1. sent \in Seq(Replies) /\ Len(sent) \in Nat /\ DOMAIN sent = 1 .. Len(sent)
  BY DEF HInv, TypeOK
<1>2. \A i \in DOMAIN sent : sent[i] = "CHALLENGE" <=> i = 1 /\ sent[1] \notin ErrorCodes
  BY <1>1 DEF HInv, Order, ErrorCodes
<1>3. \A i \in 2 .. Len(sent) - 1 : sent[i] = "INVALID_SOLUTION"
  BY DEF HInv, Order
<1>4. \A i \in DOMAIN sent : sent[i] = "INVALID_SOLUTION" => i \in 2 .. AttemptLimit
  <2> SUFFICES ASSUME NEW i \in 1 .. Len(sent), sent[i] = "INVALID_SOLUTION"
               PROVE  i \in 2 .. AttemptLimit
    BY <1>1
  <2>1. i # 1
    BY <1>1 DEF HInv, Order
  <2>2. i \in 2 .. Len(sent)
    BY <1>1, <2>1
  <2>3. i <= AttemptLimit
    BY <2>2 DEF HInv, Counters
  <2>4. AttemptLimit \in Int
    BY HandlerAssumption DEF AttemptLimit
  <2> QED
    BY <2>2, <2>3, <2>4
<1>5. Told("QUOTE") => pc = "done" /\ result = "nil"
  <2> SUFFICES ASSUME NEW i \in DOMAIN sent, sent[i] = "QUOTE"
               PROVE  pc = "done" /\ result = "nil"
    BY DEF Told
  <2> QED
    BY <1>1 DEF HInv, Order, ErrorCodes
<1>6. pc = "send" /\ reply.msg \in ErrorCodes =>
        /\ reply.then = "loop" <=> IsRetryable(reply.msg)
        /\ reply.then = "error" <=> ShouldReconnect(reply.msg)
  BY DEF HInv, Order, ErrorCodes, IsRetryable, ShouldReconnect
<1> QED
  BY <1>2, <1>3, <1>4, <1>5, <1>6, Zenon DEF ReplyOrder

\* What it says of the messages read.
LEMMA AnsweredOnce == HInv => OneReplyEach
BY DEF HInv, Reads, Order, OneReplyEach

\* What it says of the counters.
LEMMA CountersRight == HInv => MetricsMatchReplies
<1> SUFFICES ASSUME HInv PROVE MetricsMatchReplies
  OBVIOUS
<1>1. sent \in Seq(Replies) /\ Len(sent) \in Nat /\ DOMAIN sent = 1 .. Len(sent)
  BY DEF HInv, TypeOK
<1>2. Told("CHALLENGE") <=> state # "CONNECTED"
  <2>1. state # "CONNECTED" => Told("CHALLENGE")
    BY <1>1 DEF HInv, Order, Told
  <2>2. state = "CONNECTED" => \A i \in DOMAIN sent : sent[i] \in ErrorCodes
    BY <1>1 DEF HInv, Order
  <2> QED
    BY <2>1, <2>2 DEF Told, ErrorCodes
<1>3. Told("QUOTE") <=> state = "COMPLETED"
  <2>1. state = "COMPLETED" => Told("QUOTE")
    <3> SUFFICES ASSUME state = "COMPLETED" PROVE Told("QUOTE")
      OBVIOUS
    <3>1. Len(sent) >= 1 /\ sent[Len(sent)] = "QUOTE"
      BY DEF HInv, Order
    <3> QED
      BY <1>1, <3>1 DEF Told
  <2>2. ASSUME NEW i \in DOMAIN sent, sent[i] = "QUOTE"
        PROVE  state = "COMPLETED"
    BY <1>1, <2>2 DEF HInv, Order, ErrorCodes
  <2> QED
    BY <2>1, <2>2 DEF Told
<1> QED
  BY <1>2, <1>3 DEF HInv, Counters, MetricsMatchReplies

\* What it says of the clock.
LEMMA TimesBounded == HInv => TimeBounds
<1> SUFFICES ASSUME HInv PROVE TimeBounds
  OBVIOUS
<1> Num
  BY Numeric DEF HInv
<1> DEFINE L == Longer(IdleTimeout, ChallengeTimeout)
<1>1. pc \in {"start", "loop", "read", "send", "done"}
  BY DEF HInv, TypeOK
<1>2. ASSUME pc # "done"
      PROVE  clock <= IdleTimeout + ChallengeTimeout + 2 * WriteTimeout
  BY <1>1, <1>2 DEF HInv, Times, Num
<1>3. ASSUME pc # "done", cancelledAt # NoTime
      PROVE  clock - cancelledAt <= WriteTimeout + L
  <2>1. cancelledAt \in Nat /\ cancelledAt <= clock
    BY <1>3 DEF HInv, Times
  <2>2. clock <= cancelledAt + L + WriteTimeout
    BY <1>1, <1>3, <2>1 DEF HInv, Times, Num
  <2> HIDE DEF L
  <2>3. L \in Nat
    BY DEF Num, L
  <2> QED
    BY <2>1, <2>2, <2>3 DEF Num
<1> QED
  BY <1>2, <1>3 DEF TimeBounds

\* What it says of the age of a solution.
LEMMA NeverTooOld == HInv => OwnChallengeNeverExpires
BY DEF HInv, Issued

\* All that a handler maintains, together.
THEOREM HandlerInvariant == Spec => []HInv
BY InitHInv, NextHInv, PTL DEF Spec

\* Spec implies ReplyOrder: the dialogue over a connection has the order that
\* handleConnected, handleChallenging and handleVerificationError intend, for
\* every attempt limit and all timeouts.
THEOREM RepliesInOrder == Spec => []ReplyOrder
BY OrderedReplies, HandlerInvariant, PTL

\* Spec implies OneReplyEach: every message read is answered exactly once.
THEOREM RepliesMatchReads == Spec => []OneReplyEach
BY AnsweredOnce, HandlerInvariant, PTL

\* Spec implies MetricsMatchReplies: the Prometheus counters a connection
\* moves agree with the replies its client was sent.
THEOREM CountersMatchReplies == Spec => []MetricsMatchReplies
BY CountersRight, HandlerInvariant, PTL

\* Spec implies OwnChallengeNeverExpires, for every choice of the timeouts.
THEOREM OwnChallengeInTime == Spec => []OwnChallengeNeverExpires
BY NeverTooOld, HandlerInvariant, PTL

\* Spec implies TimeBounds: a connection's lifetime is bounded by the
\* configured timeouts, and so is its end after a cancellation.
THEOREM ConnectionTimeBounded == Spec => []TimeBounds
BY TimesBounded, HandlerInvariant, PTL

(***************************************************************************)
(* The bit test.                                                           *)
(***************************************************************************)
\* The eight bits of a byte, and the byte without any.
LEMMA Bytes ==
  ASSUME NEW b \in 0 .. 255
  PROVE  /\ \A k \in 0 .. 7 : S!Bit(b, k) \in {0, 1}
         /\ b = 0 <=> \A k \in 0 .. 7 : S!Bit(b, k) = 0
<1>1. /\ S!Bit(b, 0) = b % 2 /\ S!Bit(b, 1) = (b \div 2) % 2
      /\ S!Bit(b, 2) = (b \div 4) % 2 /\ S!Bit(b, 3) = (b \div 8) % 2
      /\ S!Bit(b, 4) = (b \div 16) % 2 /\ S!Bit(b, 5) = (b \div 32) % 2
      /\ S!Bit(b, 6) = (b \div 64) % 2 /\ S!Bit(b, 7) = (b \div 128) % 2
  BY DEF S!Bit, S!Shl
<1>2. \A k \in 0 .. 7 : k \in {0, 1, 2, 3, 4, 5, 6, 7}
  OBVIOUS
<1>3. \A k \in 0 .. 7 : S!Bit(b, k) \in {0, 1}
  BY <1>1, <1>2
<1>4. ASSUME \A k \in 0 .. 7 : S!Bit(b, k) = 0
      PROVE  b = 0
  <2>1. /\ b % 2 = 0 /\ (b \div 2) % 2 = 0 /\ (b \div 4) % 2 = 0 /\ (b \div 8) % 2 = 0
        /\ (b \div 16) % 2 = 0 /\ (b \div 32) % 2 = 0 /\ (b \div 64) % 2 = 0
        /\ (b \div 128) % 2 = 0
    BY <1>1, <1>4
  <2> QED
    BY <2>1
<1>5. b = 0 => \A k \in 0 .. 7 : S!Bit(b, k) = 0
  BY <1>1, <1>2
<1> QED
  BY <1>3, <1>4, <1>5

\* byte(0xFF << (8 - r)) has the r highest bits and no other.
LEMMA MaskBits ==
  ASSUME NEW r \in 1 .. 7, NEW k \in 0 .. 7
  PROVE  S!Bit((255 * S!Shl(8 - r)) % 256, k) = 1 <=> k >= 8 - r
<1>1. k \in {0, 1, 2, 3, 4, 5, 6, 7}
  OBVIOUS
<1> DEFINE m == (255 * S!Shl(8 - r)) % 256
<1>2. \/ r = 1 /\ m = 128
      \/ r = 2 /\ m = 192
      \/ r = 3 /\ m = 224
      \/ r = 4 /\ m = 240
      \/ r = 5 /\ m = 248
      \/ r = 6 /\ m = 252
      \/ r = 7 /\ m = 254
  BY DEF S!Shl
<1> HIDE DEF m
<1> QED
  BY <1>1, <1>2 DEF m, S!Bit, S!Shl

\* A quotient and a remainder are what they have to be.
LEMMA Quotient ==
  ASSUME NEW c \in Int, NEW m \in Nat \ {0}, NEW q \in Int, NEW r \in 0 .. m - 1,
         c = m * q + r
  PROVE  c \div m = q /\ c % m = r
<1> DEFINE q2 == c \div m
           r2 == c % m
<1>1. q2 \in Int /\ r2 \in 0 .. m - 1 /\ c = m * q2 + r2
  OBVIOUS
<1> HIDE DEF q2, r2
<1>2. q2 = q
  <2>1. CASE q2 < q
    <3>1. m * q2 + m <= m * q
      BY <1>1, <2>1
    <3> QED
      BY <1>1, <3>1
  <2>2. CASE q2 > q
    <3>1. m * q + m <= m * q2
      BY <1>1, <2>2
    <3> QED
      BY <1>1, <3>1
  <2> QED
    BY <1>1, <2>1, <2>2
<1> QED
  BY <1>1, <1>2 DEF q2, r2

\* The place of a bit.
LEMMA Eights ==
  ASSUME NEW i \in Nat
  PROVE  i \div 8 \in Nat /\ i % 8 \in 0 .. 7 /\ i = 8 * (i \div 8) + (i % 8)
OBVIOUS

\* Bit k of the byte a, counted from the left of the digest.
LEMMA BitOf ==
  ASSUME NEW a \in Nat, NEW k \in 0 .. 7
  PROVE  /\ 8 * a + (7 - k) \in Nat
         /\ (8 * a + (7 - k)) \div 8 = a /\ 7 - ((8 * a + (7 - k)) % 8) = k
OBVIOUS

\* A digest is made of bytes.
LEMMA ElementAt ==
  ASSUME NEW T, NEW s \in Seq(T), NEW i \in 1 .. Len(s)
  PROVE  s[i] \in T
OBVIOUS

\* A byte without bits.
LEMMA NoBits ==
  ASSUME NEW k \in 0 .. 7
  PROVE  S!Bit(0, k) = 0
<1>1. k \in {0, 1, 2, 3, 4, 5, 6, 7}
  OBVIOUS
<1> QED
  BY <1>1 DEF S!Bit, S!Shl

\* hasLeadingZeros computes what it should, for every digest that is long enough.
THEOREM BitTest ==
  ASSUME NEW hash \in Seq(0 .. 255), NEW n \in Nat, 8 * Len(hash) >= n
  PROVE  S!hasLeadingZeros(hash, n) <=> S!Meets(hash, n)
<1> DEFINE q == n \div 8
           r == n % 8
           m == (255 * S!Shl(8 - r)) % 256
<1>1. q \in Nat /\ r \in 0 .. 7 /\ n = 8 * q + r
  BY Eights
<1>2. S!hasLeadingZeros(hash, n) <=>
        (\A i \in 1 .. q : hash[i] = 0) /\ (r > 0 => S!NoCommonBit(hash[q + 1], m))
  BY DEF S!hasLeadingZeros
<1>3. S!Meets(hash, n) <=> \A i \in 0 .. n - 1 : S!Bit(hash[i \div 8 + 1], 7 - (i % 8)) = 0
  BY DEF S!Meets
<1> HIDE DEF q, r
<1>4. ASSUME NEW i \in 1 .. q
      PROVE  hash[i] \in 0 .. 255
  <2>1. i \in 1 .. Len(hash)
    BY <1>1
  <2> QED
    BY <2>1, ElementAt, Zenon
<1>5. r > 0 => hash[q + 1] \in 0 .. 255
  <2>1. r > 0 => q + 1 \in 1 .. Len(hash)
    BY <1>1
  <2> QED
    BY <2>1, ElementAt, Zenon
<1>6. ASSUME r > 0
      PROVE  S!NoCommonBit(hash[q + 1], m) <=> \A k \in 8 - r .. 7 : S!Bit(hash[q + 1], k) = 0
  <2>1. r \in 1 .. 7
    BY <1>1, <1>6
  <2>2. ASSUME NEW k \in 0 .. 7
        PROVE  S!Bit(m, k) = 1 <=> k >= 8 - r
    BY <2>1, MaskBits, SMT
  <2>3. \A k \in 0 .. 7 : S!Bit(hash[q + 1], k) \in {0, 1}
    BY <1>5, <1>6, Bytes, Zenon
  <2> HIDE DEF m
  <2> QED
    BY <2>1, <2>2, <2>3 DEF S!NoCommonBit
<1> HIDE DEF m
<1>7. ASSUME S!hasLeadingZeros(hash, n), NEW i \in 0 .. n - 1
      PROVE  S!Bit(hash[i \div 8 + 1], 7 - (i % 8)) = 0
  <2> DEFINE a == i \div 8
             b == i % 8
  <2>1. a \in Nat /\ b \in 0 .. 7 /\ i = 8 * a + b
    BY Eights
  <2> HIDE DEF a, b
  <2>2. CASE a < q
    <3>1. a + 1 \in 1 .. q
      BY <1>1, <2>1, <2>2
    <3>2. hash[a + 1] = 0
      BY <1>2, <1>7, <3>1
    <3>3. 7 - b \in 0 .. 7
      BY <2>1
    <3> QED
      BY <3>2, <3>3, NoBits, Zenon DEF a, b
  <2>3. CASE a >= q
    <3>1. a = q /\ b < r
      BY <1>1, <2>1, <2>3
    <3>2. 7 - b \in 8 - r .. 7 /\ r > 0
      BY <1>1, <2>1, <3>1
    <3> QED
      BY <1>2, <1>6, <1>7, <3>1, <3>2 DEF a, b
  <2> QED
    BY <1>1, <2>1, <2>2, <2>3
<1>8. ASSUME \A i \in 0 .. n - 1 : S!Bit(hash[i \div 8 + 1], 7 - (i % 8)) = 0
      PROVE  S!hasLeadingZeros(hash, n)
  <2>1. ASSUME NEW j \in 1 .. q, NEW k \in 0 .. 7
        PROVE  S!Bit(hash[j], k) = 0
    <3> DEFINE i == 8 * (j - 1) + (7 - k)
    <3>1. j - 1 \in Nat /\ i \in 0 .. n - 1 /\ (j - 1) + 1 = j
      BY <1>1
    <3>2. i \div 8 = j - 1 /\ 7 - (i % 8) = k
      BY <3>1, BitOf, Zenon
    <3> HIDE DEF i
    <3> QED
      BY <1>8, <3>1, <3>2, Zenon
  <2>2. \A j \in 1 .. q : hash[j] = 0
    BY <1>4, <2>1, Bytes, Zenon
  <2>3. ASSUME r > 0, NEW k \in 8 - r .. 7
        PROVE  S!Bit(hash[q + 1], k) = 0
    <3> DEFINE i == 8 * q + (7 - k)
    <3>1. k \in 0 .. 7 /\ i \in 0 .. n - 1
      BY <1>1, <2>3
    <3>2. i \div 8 = q /\ 7 - (i % 8) = k
      BY <1>1, <3>1, BitOf, Zenon
    <3> HIDE DEF i
    <3> QED
      BY <1>8, <3>1, <3>2, Zenon
  <2> QED
    BY <1>2, <1>6, <2>2, <2>3
<1> QED
  BY <1>3, <1>7, <1>8

(***************************************************************************)
(* The search.                                                             *)
(***************************************************************************)
\* Quotients of consecutive numbers.
LEMMA NextQuotient ==
  ASSUME NEW c \in Nat, NEW m \in Nat \ {0}
  PROVE  /\ c % m = 0 => c \div m = (c - 1) \div m + 1 /\ (c \div m) * m = c
         /\ c % m # 0 => c \div m = (c - 1) \div m
         /\ c \div m \in Nat /\ (c - 1) \div m \in Int
<1> DEFINE q == c \div m
           r == c % m
<1>1. q \in Int /\ q >= 0 /\ r \in 0 .. m - 1 /\ c = m * q + r
  OBVIOUS
<1> HIDE DEF q, r
<1>2. ASSUME r = 0
      PROVE  (c - 1) \div m = q - 1 /\ q * m = c
  <2>1. c - 1 = m * (q - 1) + (m - 1) /\ q * m = c
    BY <1>1, <1>2
  <2> QED
    BY <1>1, <2>1, Quotient
<1>3. ASSUME r # 0
      PROVE  (c - 1) \div m = q
  <2>1. c - 1 = m * q + (r - 1) /\ r - 1 \in 0 .. m - 1
    BY <1>1, <1>3
  <2> QED
    BY <1>1, <2>1, Quotient
<1> QED
  BY <1>1, <1>2, <1>3 DEF q, r

\* The digests: none of those passed over has the bits, the last has them if
\* the search has succeeded.
Digests ==
  /\ solver \in {"idle", "running", "solved", "ctxErr", "ErrMaxIterationsExceeded"}
  /\ counter \in 0 .. maxIterations /\ hashes \in Seq(Hashes)
  /\ Len(hashes) = IF solver = "solved" THEN counter + 1 ELSE counter
  /\ \A i \in 1 .. counter : ~S!hasLeadingZeros(hashes[i], Difficulty)
  /\ solver = "solved" => S!hasLeadingZeros(hashes[counter + 1], Difficulty)
  /\ solver = "ErrMaxIterationsExceeded" => counter = maxIterations
  /\ solver = "idle" => counter = 0

\* The context: b is where it was looked at last, and it was not done then.
Looked(b) ==
  /\ b % contextCheckInterval = 0 /\ b < counter /\ counter <= b + contextCheckInterval
  /\ late <= counter - b - 1

\* How late the search is after ctx is done.
Lateness ==
  /\ late \in Nat /\ late < contextCheckInterval
  /\ late > 0 => clock >= ctxBy
  /\ counter = 0 => late = 0
  /\ solver = "running" /\ counter > 0 => \E b \in Nat : Looked(b)

\* The callback's calls, and no others.
Calls ==
  /\ callback \in BOOLEAN
  /\ S!ReportsMultiples

\* What the search maintains.
SInv == Digests /\ Lateness /\ Calls

\* The constants of the search are numbers.
LEMMA SearchNumbers ==
  /\ maxIterations \in Nat \ {0} /\ contextCheckInterval \in Nat \ {0}
  /\ reportInterval \in Nat \ {0} /\ Difficulty \in Nat
BY SessionAssumption, HandlerAssumption

\* A turn that computes a digest.
Computed(hash) ==
  /\ solver = "running" /\ counter < maxIterations
  /\ counter % contextCheckInterval = 0 => ~(clock >= ctxBy)
  /\ hashes' = Append(hashes, hash) /\ S!Report /\ UNCHANGED callback
  /\ late' = IF clock >= ctxBy THEN late + 1 ELSE late
  /\ IF S!hasLeadingZeros(hash, Difficulty)
     THEN solver' = "solved" /\ counter' = counter
     ELSE solver' = "running" /\ counter' = counter + 1

\* A step of the search computes a digest, or ends it and computes nothing.
LEMMA SolverSteps ==
  ASSUME S!SolverStep
  PROVE  \/ \E hash \in Hashes : Computed(hash)
         \/ /\ solver = "running" /\ UNCHANGED <<counter, callback, hashes, reports, late>>
            /\ \/ solver' = "ctxErr"
               \/ solver' = "ErrMaxIterationsExceeded" /\ counter >= maxIterations
BY DEF S!SolverStep, S!Iterate, S!GiveUp, Computed

\* A turn keeps the digests as they should be.
LEMMA DigestsStep ==
  ASSUME Digests, NEW hash \in Hashes, Computed(hash)
  PROVE  Digests'
<1> USE SearchNumbers DEF Digests, Computed
<1>1. /\ hashes' \in Seq(Hashes) /\ Len(hashes') = counter + 1
      /\ \A i \in 1 .. counter : hashes'[i] = hashes[i]
      /\ hashes'[counter + 1] = hash
  OBVIOUS
<1>2. counter \in Nat /\ counter + 1 \in 0 .. maxIterations
  OBVIOUS
<1>3. CASE S!hasLeadingZeros(hash, Difficulty)
  BY <1>1, <1>2, <1>3
<1>4. CASE ~S!hasLeadingZeros(hash, Difficulty)
  <2>1. \A i \in 1 .. counter + 1 : i \in 1 .. counter \/ i = counter + 1
    BY <1>2
  <2> QED
    BY <1>1, <1>2, <1>4, <2>1
<1> QED
  BY <1>3, <1>4

\* The multiples of the interval follow each other at its distance.
LEMMA NextMultiple ==
  ASSUME NEW b \in Nat, NEW m \in Nat \ {0}, b % m = 0
  PROVE  (b + m) % m = 0
<1> DEFINE q == b \div m
<1>1. q \in Int /\ b = m * q + 0
  OBVIOUS
<1> HIDE DEF q
<1>2. b + m = m * (q + 1) + 0
  BY <1>1
<1> QED
  BY <1>1, <1>2, Quotient

\* At most contextCheckInterval - 1 digests are computed after ctx is done: the
\* last look at it is less than an interval away.
LEMMA LatenessStep ==
  ASSUME Digests, Lateness, NEW hash \in Hashes, Computed(hash), UNCHANGED <<clock, ctxBy>>
  PROVE  Lateness'
<1> USE SearchNumbers
<1>1. counter \in Nat /\ late \in Nat
  BY DEF Digests, Lateness
<1>2. 0 % contextCheckInterval = 0
  BY Quotient
<1>3. PICK b \in Nat : /\ b % contextCheckInterval = 0 /\ b <= counter
                       /\ counter < b + contextCheckInterval /\ late' <= counter - b
  <2>1. CASE counter % contextCheckInterval = 0
    <3>1. late' = 0
      BY <2>1 DEF Computed, Lateness
    <3> QED
      BY <1>1, <2>1, <3>1
  <2>2. CASE counter % contextCheckInterval # 0
    <3>1. PICK b \in Nat : Looked(b)
      BY <1>1, <1>2, <2>2 DEF Lateness, Computed
    <3>2. counter # b + contextCheckInterval
      BY <2>2, <3>1, NextMultiple DEF Looked
    <3>3. late' \in Nat /\ late' <= late + 1
      BY <1>1 DEF Computed
    <3>4. b < counter /\ counter <= b + contextCheckInterval /\ late <= counter - b - 1
      BY <3>1 DEF Looked
    <3>5. b <= counter /\ counter < b + contextCheckInterval /\ late' <= counter - b
      BY <1>1, <3>2, <3>3, <3>4
    <3> QED
      BY <3>1, <3>5 DEF Looked
  <2> QED
    BY <2>1, <2>2
<1>4. late' \in Nat /\ late' < contextCheckInterval /\ (late' > 0 => clock' >= ctxBy')
  BY <1>1, <1>3 DEF Computed, Lateness
<1>5. counter' = 0 => late' = 0
  BY <1>1, <1>3 DEF Computed
<1>6. solver' = "running" => Looked(b)'
  BY <1>1, <1>3 DEF Looked, Computed
<1> QED
  BY <1>4, <1>5, <1>6 DEF Lateness

\* The callback is called at the multiples of reportInterval, each once.
LEMMA CallsStep ==
  ASSUME Digests, Calls, NEW hash \in Hashes, Computed(hash)
  PROVE  Calls'
<1> USE SearchNumbers
<1> DEFINE Multiples(n) == [i \in 1 .. n |-> i * reportInterval]
<1>1. counter \in Nat /\ Len(hashes) = counter /\ Len(hashes') = counter + 1
  BY DEF Digests, Computed
<1>2. CASE ~callback
  BY <1>2 DEF Calls, Computed, S!Report, S!ReportsMultiples
<1>3. CASE callback
  <2> DEFINE p == (counter - 1) \div reportInterval
             q == counter \div reportInterval
  <2>1. /\ p \in Int /\ q \in Nat
        /\ counter % reportInterval = 0 => q = p + 1 /\ q * reportInterval = counter
        /\ counter % reportInterval # 0 => q = p
    BY <1>1, NextQuotient, Zenon
  <2>2. reports = Multiples(p)
    BY <1>1, <1>3 DEF Calls, S!ReportsMultiples
  <2>3. (Len(hashes') - 1) \div reportInterval = q
    <3>1. Len(hashes') - 1 = counter
      BY <1>1
    <3> QED
      BY <3>1, Zenon
  <2> HIDE DEF p, q
  <2>4. reports' = Multiples(q)
    <3>1. CASE counter % reportInterval # 0
      <4>1. q = p
        BY <2>1, <3>1
      <4>2. reports' = reports
        BY <3>1 DEF Computed, S!Report
      <4> QED
        BY <2>2, <4>1, <4>2, Zenon
    <3>2. CASE counter % reportInterval = 0 /\ counter = 0
      <4>1. q = p + 1 /\ q * reportInterval = 0
        BY <2>1, <3>2
      <4>2. reports' = reports
        BY <3>2 DEF Computed, S!Report
      <4>3. q = 0
        BY <2>1, <4>1
      <4>4. 1 .. p = {} /\ 1 .. q = {}
        BY <2>1, <4>1, <4>3
      <4> QED
        BY <2>2, <4>2, <4>4, Zenon
    <3>3. CASE counter % reportInterval = 0 /\ counter > 0
      <4>1. q = p + 1 /\ q * reportInterval = counter
        BY <2>1, <3>3
      <4>2. reports' = Append(reports, counter)
        BY <1>3, <3>3 DEF Computed, S!Report
      <4>3. p \in Nat
        BY <1>1, <2>1, <3>3, <4>1
      <4>4. \A i \in 1 .. q : i * reportInterval \in Nat
        BY <2>1
      <4>5. Append(Multiples(p), q * reportInterval) = Multiples(q)
        BY <4>1, <4>3, <4>4
      <4> QED
        BY <2>2, <4>1, <4>2, <4>5, Zenon
    <3> QED
      BY <1>1, <3>1, <3>2, <3>3
  <2> QED
    BY <1>3, <2>3, <2>4 DEF Calls, Computed, S!ReportsMultiples
<1> QED
  BY <1>2, <1>3 DEF Calls

\* Every step of the search preserves what it maintains.
LEMMA SearchStep ==
  ASSUME SInv, S!SolverStep, UNCHANGED <<clock, ctxBy>>
  PROVE  SInv'
<1>1. CASE \E hash \in Hashes : Computed(hash)
  BY <1>1, DigestsStep, LatenessStep, CallsStep DEF SInv
<1>2. CASE /\ solver = "running" /\ UNCHANGED <<counter, callback, hashes, reports, late>>
           /\ \/ solver' = "ctxErr"
              \/ solver' = "ErrMaxIterationsExceeded" /\ counter >= maxIterations
  <2>1. Digests'
    BY <1>2, SearchNumbers DEF SInv, Digests
  <2>2. Lateness'
    BY <1>2 DEF SInv, Lateness
  <2>3. Calls'
    BY <1>2 DEF SInv, Calls, S!ReportsMultiples
  <2> QED
    BY <2>1, <2>2, <2>3 DEF SInv
<1> QED
  BY <1>1, <1>2, SolverSteps

\* So does everything else, because the clock goes on and ctx keeps its
\* deadline once it is made.
LEMMA SearchWaits ==
  ASSUME SInv, S!Solve \/ UNCHANGED search, clock \in Int, clock' \in Int, clock' >= clock,
         ctxBy \in Int, ctxBy' = ctxBy \/ solver = "idle"
  PROVE  SInv'
<1>1. /\ UNCHANGED <<counter, callback, hashes, reports, late>>
      /\ solver' = solver \/ (solver = "idle" /\ solver' = "running")
  BY DEF S!Solve, search
<1>2. Digests'
  BY <1>1 DEF SInv, Digests
<1>3. Lateness'
  <2>1. late' > 0 => clock' >= ctxBy'
    BY <1>1 DEF SInv, Digests, Lateness
  <2>2. solver' = "running" /\ counter' > 0 => \E b \in Nat : Looked(b)'
    BY <1>1 DEF SInv, Digests, Lateness, Looked
  <2> QED
    BY <1>1, <2>1, <2>2 DEF SInv, Lateness
<1>4. Calls'
  BY <1>1 DEF SInv, Calls, S!ReportsMultiples
<1> QED
  BY <1>2, <1>3, <1>4 DEF SInv

\* The search has not begun.
LEMMA InitSInv == S!Init => SInv
<1> SUFFICES ASSUME S!Init PROVE SInv
  OBVIOUS
<1> USE SearchNumbers DEF S!Init
<1>1. Digests /\ Lateness
  BY DEF Digests, Lateness
<1>2. (Len(hashes) - 1) \div reportInterval = -1
  <2>1. Len(hashes) - 1 = reportInterval * (-1) + (reportInterval - 1)
    OBVIOUS
  <2> QED
    BY <2>1, Quotient
<1>3. Calls
  <2>1. 1 .. -1 = {}
    OBVIOUS
  <2> QED
    BY <1>2, <2>1 DEF Calls, S!ReportsMultiples
<1> QED
  BY <1>1, <1>3 DEF SInv

\* What the search maintains is what is asked of it.
LEMMA SearchCorrect == SInv => SolverCorrect
<1> SUFFICES ASSUME SInv PROVE SolverCorrect
  OBVIOUS
<1> USE SearchNumbers
<1>1. counter \in Nat /\ DOMAIN hashes = 1 .. Len(hashes)
  BY DEF SInv, Digests
<1>2. \A i \in DOMAIN hashes :
        S!Meets(hashes[i], Difficulty) <=> S!hasLeadingZeros(hashes[i], Difficulty)
  <2> SUFFICES ASSUME NEW i \in DOMAIN hashes
               PROVE  S!Meets(hashes[i], Difficulty) <=> S!hasLeadingZeros(hashes[i], Difficulty)
    OBVIOUS
  <2>1. hashes[i] \in Hashes
    BY <1>1 DEF SInv, Digests
  <2>2. hashes[i] \in Seq(0 .. 255) /\ 8 * Len(hashes[i]) >= Difficulty
    BY <2>1, SessionAssumption
  <2> QED
    BY <2>2, BitTest
<1>3. S!FindsFirst
  BY <1>1, <1>2 DEF SInv, Digests, S!FindsFirst
<1>4. S!CancelNoticed /\ S!ReportsMultiples
  BY DEF SInv, Lateness, Calls, S!CancelNoticed
<1> QED
  BY <1>3, <1>4 DEF SolverCorrect

(***************************************************************************)
(* The two ends.                                                           *)
(***************************************************************************)
\* The server has not read the request.  It may have refused the connection.
Unasked ==
  /\ state = "CONNECTED" /\ pc # "send"
  /\ \/ toClient = << >>
     \/ pc = "done" /\ toClient \in {<<"RATE_LIMITED">>, <<"SERVER_BUSY">>}

\* The challenge is written: the server waits for the solution, or has a reason
\* not to.  The solution comes, or came, at time t.
Waits(t) ==
  /\ state = "CHALLENGING" /\ pc \in {"loop", "read", "done"}
  /\ pc = "done" => faulty \/ cancelledAt # NoTime \/ t >= deadline

\* The server has read the request.
Asked ==
  \/ /\ pc = "send" /\ reply.msg \in {"CHALLENGE", "INVALID_MESSAGE"}
     /\ state = "CONNECTED" /\ toClient = << >>
  \/ pc = "done" /\ state = "CONNECTED" /\ toClient \in {<< >>, <<"INVALID_MESSAGE">>}
  \/ Waits(clock) /\ toClient = <<"CHALLENGE">>

\* The server has read the solution.
Answered ==
  \/ /\ pc = "send" /\ toClient = << >> /\ writeBy = sentAt + WriteTimeout
     /\ reply.msg \in {"QUOTE", "CHALLENGE_EXPIRED"}
     /\ WriteTimeout < ClockSkew => reply.msg = "QUOTE"
  \/ pc = "done" /\ toClient = << >> /\ faulty
  \/ /\ pc = "done" /\ clock <= sentAt + WriteTimeout
     /\ \/ toClient = <<"QUOTE">> /\ state = "COMPLETED"
        \/ toClient = <<"CHALLENGE_EXPIRED">> /\ ~(WriteTimeout < ClockSkew)

\* Where the client is and what is on the way.
Dialogue ==
  /\ cpc = "dial" => pc = "start" /\ toServer = << >> /\ toClient = << >>
  /\ cpc = "request" => toServer = << >> /\ Unasked
  /\ cpc = "readChallenge" =>
       \/ toServer = <<"REQUEST_CHALLENGE">> /\ Unasked
       \/ toServer = << >> /\ Asked
  /\ cpc \in {"solving", "solution"} => toServer = << >> /\ toClient = << >> /\ Waits(clock)
  /\ cpc = "readQuote" =>
       \/ /\ toServer = <<"SOLUTION">> /\ toClient = << >> /\ Waits(sentAt)
          /\ pc # "done" => clock = sentAt
       \/ toServer = << >> /\ Answered

\* What the client has done: its solver, its solution and its result.
ClientSide ==
  /\ peer \in {"any", "client"} /\ faulty \in BOOLEAN
  /\ cpc \in {"dial", "request", "readChallenge", "solving", "solution", "readQuote", "done"}
  /\ ctxBy \in Int /\ connBy \in Int /\ sentAt \in Nat \cup {NoTime}
  /\ peer = "any" => cpc = "done"
  /\ cpc \in {"dial", "request", "readChallenge"} => solver = "idle"
  /\ cpc = "solving" => solver = "running"
  /\ cpc \in {"solution", "readQuote"} => solver = "solved"
  /\ cpc = "readQuote" => sentAt \in Nat
  /\ sentAt # NoTime => cpc \in {"readQuote", "done"} /\ state # "CONNECTED"
  /\ cpc # "done" => cresult = "none"

\* What it ends with.
Outcome ==
  /\ ClientErrors
  /\ /\ WriteTimeout < ClockSkew /\ cpc = "done" /\ sentAt # NoTime
     /\ ~faulty /\ cancelledAt = NoTime
     /\ sentAt < deadline /\ sentAt + WriteTimeout < connBy
     => cresult = "QUOTE"
  /\ cresult = "QUOTE" => state = "COMPLETED"

\* What the client and the wire maintain.
CInv == Dialogue /\ ClientSide /\ Outcome

\* The handler has returned and the client has not.
DoneTick ==
  /\ pc = "done" /\ clock' = clock + 1
  /\ UNCHANGED <<pc, state, attempts, issuedAt, deadline, writeBy, reply, sent, reads,
                 result, cancelledAt, metrics>>

\* The message that the client's turns into is one that a handler may meet.
LEMMA DeliveredMessages ==
  ASSUME NEW m, NEW msg \in Delivered(m)
  PROVE  msg \in Messages
BY DEF Delivered, Messages, NoSolutions

\* Every step of a session is one of the handler's, or none, but for the clock
\* that goes on after it.
LEMMA HandlerSteps ==
  ASSUME [SessionNext]_sessionVars
  PROVE  [Next]_vars \/ DoneTick
<1>1. CASE Refuse
  <2>1. Handle
    BY <1>1 DEF Refuse, Handle, SetReadDeadline
  <2> QED
    BY <2>1 DEF Next, Step
<1>2. CASE ServerReceives
  <2>1. \E msg \in Messages : handleConnected(msg) \/ handleChallenging(msg)
    BY <1>2, DeliveredMessages, Zenon DEF ServerReceives
  <2> QED
    BY <2>1 DEF Next, Step
<1>3. CASE ServerSends \/ ServerRuns \/ ServerCancelled \/ AnyPeer
  <2>1. \/ Next \/ Sent \/ Handle \/ CheckContext \/ SendFails \/ CancelContext
        \/ \E err \in {Timeout, EOF, Malformed} : ReadError(err)
    BY <1>3, Zenon DEF ServerSends, ServerRuns, ServerCancelled, AnyPeer
  <2> QED
    BY <2>1 DEF Next, Step
<1>4. CASE ClientStep
  BY <1>4 DEF ClientStep, Dial, RequestSent, SolutionSent, Write, WriteFails, ReadReply,
    ReadFails, Solving
<1>5. CASE SessionTick
  BY <1>5 DEF SessionTick, Tick, Next, DoneTick
<1>6. CASE UNCHANGED sessionVars
  BY <1>6 DEF sessionVars
<1> QED
  BY <1>1, <1>2, <1>3, <1>4, <1>5, <1>6 DEF SessionNext, ServerStep

\* The time that passes after Handle has returned disturbs nothing.
LEMMA DoneTickHInv == HInv /\ DoneTick => HInv'
<1> SUFFICES ASSUME HInv, DoneTick PROVE HInv'
  OBVIOUS
<1> Num
  BY Numeric DEF HInv
<1>1. Quiet /\ pc' = pc /\ pc = "done" /\ clock' = clock + 1
      /\ UNCHANGED <<deadline, result, cancelledAt>>
  BY DEF DoneTick, Quiet
<1>2. Counters'
  BY <1>1, QuietCounters
<1>3. TypeOK'
  BY <1>1 DEF HInv, TypeOK, Quiet, Num
<1>4. Order' /\ Reads'
  BY <1>1, Zenon DEF HInv, Order, Reads, Quiet
<1>5. Times'
  BY <1>1 DEF HInv, Times, Num
<1>6. Issued'
  BY <1>1 DEF Issued, OwnChallengeNeverExpires
<1> QED
  BY <1>1, <1>2, <1>3, <1>4, <1>5, <1>6 DEF HInv

\* What a handler's step leaves alone.
LEMMA HandlerKeeps ==
  ASSUME HInv, [Next]_vars \/ DoneTick
  PROVE  /\ clock \in Nat /\ clock' \in Nat /\ clock' >= clock
         /\ cancelledAt # NoTime => cancelledAt' # NoTime
         /\ state # "CONNECTED" => state' # "CONNECTED" /\ deadline' = deadline
         /\ state = "COMPLETED" => state' = "COMPLETED"
<1> Num
  BY Numeric DEF HInv
<1>1. CASE \E msg \in Messages : handleConnected(msg) \/ handleChallenging(msg)
  BY <1>1, Connected, Challenging DEF Received, Num
<1>2. CASE Sent
  <2>1. UNCHANGED <<clock, cancelledAt>>
    BY <1>2 DEF Sent
  <2>2. state # "CONNECTED" => reply.msg # "CHALLENGE" /\ state # "COMPLETED"
    BY <1>2 DEF Sent, HInv, Order, ErrorCodes
  <2>3. state # "CONNECTED" => state' # "CONNECTED" /\ deadline' = deadline
    BY <1>2, <2>2, Zenon DEF Sent, challengeSent, quoteSent, errorSent
  <2> QED
    BY <2>1, <2>2, <2>3 DEF Num
<1>3. CASE Handle
  BY <1>3 DEF Handle, HInv, Order, Num
<1>4. CASE CheckContext \/ (\E err \in {Timeout, EOF, Malformed} : ReadError(err)) \/ SendFails
  BY <1>4, ReadErrors DEF CheckContext, SendFails, Num
<1>5. CASE CancelContext \/ Tick \/ UNCHANGED vars \/ DoneTick
  BY <1>5 DEF CancelContext, Tick, vars, DoneTick, Num
<1> QED
  BY <1>1, <1>2, <1>3, <1>4, <1>5 DEF Next, Step

\* A step that is not the client's leaves the client where it is, and what it
\* has done and ended with as they should be.
LEMMA OthersStep ==
  ASSUME HInv, ClientSide, Outcome, [SessionNext]_sessionVars,
         UNCHANGED <<peer, clientEnd, search>>,
         faulty' \in BOOLEAN, faulty => faulty'
  PROVE  ClientSide' /\ Outcome'
<1>1. UNCHANGED <<peer, cpc, cresult, ctxBy, connBy, sentAt, solver>>
  BY DEF clientEnd, search
<1>2. /\ cancelledAt # NoTime => cancelledAt' # NoTime
      /\ state # "CONNECTED" => state' # "CONNECTED" /\ deadline' = deadline
      /\ state = "COMPLETED" => state' = "COMPLETED"
  BY HandlerSteps, HandlerKeeps
<1>3. ClientSide'
  BY <1>1, <1>2 DEF ClientSide
<1>4. sentAt # NoTime => deadline' = deadline
  BY <1>2 DEF ClientSide
<1>5. Outcome'
  BY <1>1, <1>2, <1>4 DEF Outcome, ClientErrors
<1> QED
  BY <1>3, <1>5

\* What is on the way, as the server works.
LEMMA RefuseDialogue ==
  ASSUME Dialogue, Refuse
  PROVE  Dialogue'
<1>1. /\ pc = "start" /\ cpc # "dial" /\ pc' = "done"
      /\ UNCHANGED <<cpc, toServer, state>>
      /\ \E code \in {"RATE_LIMITED", "SERVER_BUSY"} : toClient' = Append(toClient, code)
  BY DEF Refuse, Accepted, Return, clientEnd
<1>2. cpc \in {"request", "readChallenge"} => Unasked /\ toClient = << >>
  BY <1>1 DEF Dialogue, Unasked, Asked, Waits
<1>3. toClient = << >> => toClient' \in {<<"RATE_LIMITED">>, <<"SERVER_BUSY">>}
  <2>1. PICK code \in {"RATE_LIMITED", "SERVER_BUSY"} : toClient' = Append(toClient, code)
    BY <1>1
  <2>2. Append(<< >>, code) = <<code>>
    OBVIOUS
  <2> QED
    BY <2>1, <2>2, Zenon
<1>4. cpc \in {"request", "readChallenge"} => Unasked'
  BY <1>1, <1>2, <1>3 DEF Unasked
<1>5. cpc = "readChallenge" => toServer = <<"REQUEST_CHALLENGE">>
  BY <1>1 DEF Dialogue, Asked, Waits
<1>6. cpc \notin {"solving", "solution", "readQuote"}
  BY <1>1 DEF Dialogue, Waits, Answered
<1> QED
  BY <1>1, <1>2, <1>4, <1>5, <1>6 DEF Dialogue

\* The server reads what the client has written.
LEMMA ReceivesDialogue ==
  ASSUME HInv, SInv, ClientSide, Dialogue, ServerReceives
  PROVE  Dialogue'
<1> Num
  BY Numeric DEF HInv
<1>1. PICK msg \in Delivered(Head(toServer)) : handleConnected(msg) \/ handleChallenging(msg)
  BY DEF ServerReceives
<1>2. /\ toServer # << >> /\ toServer' = Tail(toServer) /\ cpc # "dial"
      /\ UNCHANGED <<cpc, sentAt, toClient, faulty>>
  BY DEF ServerReceives, Accepted, clientEnd
<1>3. Received
  BY <1>1, Connected, Challenging
<1>4. cpc \notin {"request", "solving", "solution"}
  BY <1>2 DEF Dialogue
<1>5. CASE cpc = "readChallenge"
  <2>1. toServer = <<"REQUEST_CHALLENGE">> /\ Unasked
    BY <1>2, <1>5 DEF Dialogue
  <2>2. toServer' = << >> /\ Head(toServer) = "REQUEST_CHALLENGE"
    BY <1>2, <2>1
  <2>3. msg.type = "REQUEST_CHALLENGE"
    BY <1>1, <2>2 DEF Delivered, NoSolutions
  <2>4. state = "CONNECTED" /\ toClient = << >>
    BY <1>3, <2>1 DEF Unasked, Received
  <2>5. handleConnected(msg)
    BY <1>1, <2>4, Challenging, Zenon
  <2>6. Asked'
    BY <1>2, <2>3, <2>4, <2>5 DEF handleConnected, Receive, Send, Asked
  <2> QED
    BY <1>2, <1>5, <2>2, <2>6 DEF Dialogue
<1>6. CASE cpc = "readQuote"
  <2>1. toServer = <<"SOLUTION">> /\ toClient = << >> /\ Waits(sentAt) /\ (pc # "done" => clock = sentAt)
    BY <1>2, <1>6 DEF Dialogue
  <2>2. toServer' = << >> /\ Head(toServer) = "SOLUTION"
    BY <1>2, <2>1
  <2>3. state = "CHALLENGING" /\ clock = sentAt
    BY <1>3, <2>1 DEF Waits, Received
  <2>4. S!hasLeadingZeros(hashes[counter + 1], Difficulty)
    BY <1>6 DEF ClientSide, SInv, Digests
  <2>5. msg \in OwnSolutions /\ msg.flaw = "none"
    BY <2>2, <2>4, Zenon DEF Delivered
  <2>6. msg \in Messages /\ msg.type = "SOLUTION" /\ msg.whose = "own"
    BY <2>5 DEF Messages, OwnSolutions, Solutions
  <2>7. handleChallenging(msg)
    BY <1>1, <2>3, Connected
  <2>8. WriteTimeout < ClockSkew => Verify(msg) \notin {"ErrChallengeExpired", "ErrFutureTimestamp"}
    BY <1>3, <2>3, <2>6, OwnAge DEF Received
  <2>9. Verify(msg) \in {"nil", "ErrChallengeExpired", "ErrFutureTimestamp"}
    BY <2>5 DEF Verify, validateTimestamp
  <2>10. \/ Verify(msg) = "nil" /\ reply'.msg = "QUOTE"
         \/ /\ Verify(msg) \in {"ErrChallengeExpired", "ErrFutureTimestamp"}
            /\ reply'.msg = "CHALLENGE_EXPIRED"
    BY <2>5, <2>6, <2>7, <2>9 DEF handleChallenging, handleVerificationError, Send
  <2>11. Answered'
    BY <1>2, <1>3, <2>1, <2>3, <2>8, <2>10, Zenon DEF Answered, Received
  <2> QED
    BY <1>2, <1>6, <2>2, <2>11 DEF Dialogue
<1> QED
  BY <1>2, <1>4, <1>5, <1>6 DEF Dialogue, ClientSide

\* The server answers.
LEMMA SendsDialogue ==
  ASSUME HInv, ClientSide, Dialogue, ServerSends
  PROVE  Dialogue'
<1> Num
  BY Numeric DEF HInv
<1>1. /\ pc = "send" /\ (challengeSent \/ quoteSent \/ errorSent)
      /\ toClient' = Append(toClient, reply.msg) /\ toServer' = toServer
      /\ UNCHANGED <<cpc, sentAt, clock, cancelledAt>> /\ cpc # "dial"
      /\ reply.msg = "CHALLENGE" /\ pc' = "done" => faulty'
  BY Zenon DEF ServerSends, Sent, Accepted, clientEnd
<1>2. cpc \notin {"request", "solving", "solution"}
  BY <1>1 DEF Dialogue, Unasked, Waits
<1>3. toClient = << >> => toClient' = <<reply.msg>>
  <2>1. Append(<< >>, reply.msg) = <<reply.msg>>
    OBVIOUS
  <2> QED
    BY <1>1, <2>1, Zenon
<1>4. CASE cpc = "readChallenge"
  <2>1. /\ toServer = << >> /\ toClient = << >> /\ state = "CONNECTED"
        /\ reply.msg \in {"CHALLENGE", "INVALID_MESSAGE"}
    BY <1>1, <1>4 DEF Dialogue, Unasked, Asked, Waits
  <2>2. CASE reply.msg = "CHALLENGE"
    <3>1. challengeSent
      BY <1>1, <2>2 DEF quoteSent, errorSent, ErrorCodes
    <3>2. Waits(clock)'
      BY <1>1, <2>2, <3>1 DEF challengeSent, SetReadDeadline, Return, Waits
    <3>3. Asked'
      BY <1>3, <2>1, <2>2, <3>2 DEF Asked
    <3> QED
      BY <1>1, <1>4, <2>1, <3>3 DEF Dialogue
  <2>3. CASE reply.msg = "INVALID_MESSAGE"
    <3>1. errorSent /\ reply.then = "error"
      BY <1>1, <2>1, <2>3 DEF challengeSent, quoteSent, HInv, Order
    <3>2. pc' = "done" /\ state' = "CONNECTED"
      BY <2>1, <3>1 DEF errorSent, Return
    <3>3. Asked'
      BY <1>3, <2>1, <2>3, <3>2 DEF Asked
    <3> QED
      BY <1>1, <1>4, <2>1, <3>3 DEF Dialogue
  <2> QED
    BY <2>1, <2>2, <2>3
<1>5. CASE cpc = "readQuote"
  <2>1. /\ toServer = << >> /\ toClient = << >> /\ writeBy = sentAt + WriteTimeout
        /\ reply.msg \in {"QUOTE", "CHALLENGE_EXPIRED"}
        /\ WriteTimeout < ClockSkew => reply.msg = "QUOTE"
    BY <1>1, <1>5, Zenon DEF Dialogue, Answered, Waits
  <2>2. clock' <= sentAt' + WriteTimeout
    BY <1>1, <2>1 DEF HInv, Times
  <2>3. CASE reply.msg = "QUOTE"
    <3>1. quoteSent
      BY <1>1, <2>3 DEF challengeSent, errorSent, ErrorCodes
    <3>2. Answered'
      BY <1>3, <2>1, <2>2, <2>3, <3>1 DEF quoteSent, Return, Answered
    <3> QED
      BY <1>1, <1>5, <2>1, <3>2 DEF Dialogue
  <2>4. CASE reply.msg = "CHALLENGE_EXPIRED"
    <3>1. errorSent /\ reply.then = "error"
      BY <1>1, <2>4 DEF challengeSent, quoteSent, HInv, Order
    <3>2. Answered'
      BY <1>3, <2>1, <2>2, <2>4, <3>1, Zenon DEF errorSent, Return, Answered
    <3> QED
      BY <1>1, <1>5, <2>1, <3>2 DEF Dialogue
  <2> QED
    BY <2>1, <2>3, <2>4, Zenon
<1> QED
  BY <1>1, <1>2, <1>4, <1>5, Zenon DEF Dialogue, ClientSide

\* The server starts, looks at its context, or fails to read or write.
LEMMA RunsDialogue ==
  ASSUME HInv, ClientSide, Dialogue, ServerRuns
  PROVE  Dialogue'
<1> Num
  BY Numeric DEF HInv
<1>1. /\ UNCHANGED <<cpc, sentAt, toServer, toClient, state, clock, cancelledAt>>
      /\ cpc # "dial" /\ (faulty => faulty')
  <2>1. UNCHANGED <<cpc, sentAt, toServer, toClient>> /\ cpc # "dial"
    BY DEF ServerRuns, Accepted, clientEnd, wire
  <2>2. UNCHANGED <<state, clock, cancelledAt>>
    BY ReadErrors DEF ServerRuns, Handle, CheckContext, SendFails
  <2>3. faulty => faulty'
    BY Zenon DEF ServerRuns
  <2> QED
    BY <2>1, <2>2, <2>3
<1>2. \/ pc = "start" /\ pc' \in {"loop", "done"}
      \/ /\ pc = "loop" /\ pc' \in {"read", "done"} /\ deadline' = deadline
         /\ pc' = "done" => cancelledAt # NoTime
      \/ /\ pc = "read" /\ pc' = "done" /\ deadline' = deadline
         /\ cpc # "done" => faulty' \/ clock >= deadline
      \/ pc = "send" /\ pc' = "done" /\ faulty'
  BY ReadErrors, Zenon DEF ServerRuns, Handle, SetReadDeadline, Return, CheckContext, SendFails, ReadError
<1>3. Unasked => Unasked'
  BY <1>1, <1>2 DEF Unasked
<1>4. ASSUME NEW t \in {clock, sentAt}, Waits(t), cpc # "done", pc # "done" => clock = t
      PROVE  /\ state' = "CHALLENGING" /\ pc' \in {"loop", "read", "done"}
             /\ pc' = "done" => faulty' \/ cancelledAt' # NoTime \/ t >= deadline'
  BY <1>1, <1>2, <1>4, Zenon DEF Waits
<1>5. Asked /\ cpc # "done" => Asked'
  BY <1>1, <1>2, <1>4 DEF Asked, Waits
<1>6. Answered => Answered'
  BY <1>1, <1>2 DEF Answered
<1> QED
  BY <1>1, <1>2, <1>3, <1>4, <1>5, <1>6, Zenon DEF Dialogue, Waits

\* A cancellation, and the time that passes while both wait.
LEMMA OutsideDialogue ==
  ASSUME HInv, ClientSide, Dialogue, ServerCancelled \/ SessionTick
  PROVE  Dialogue'
<1> Num
  BY Numeric, Zenon DEF HInv
<1>1. UNCHANGED <<cpc, sentAt, toServer, toClient, faulty, pc, state, deadline, writeBy, reply>>
  BY Zenon DEF ServerCancelled, CancelContext, SessionTick, clientEnd, wire
<1>2. CASE ServerCancelled
  <2>1. clock' = clock /\ cancelledAt' # NoTime
    BY <1>2 DEF ServerCancelled, CancelContext, Num, NoTime
  <2> QED
    BY <1>1, <2>1, Zenon DEF Dialogue, Unasked, Asked, Answered, Waits
<1>3. CASE SessionTick
  <2>1. clock' = clock + 1 /\ cancelledAt' = cancelledAt
    BY <1>3, Zenon DEF SessionTick
  <2>2. \/ pc = "read" /\ toServer = << >>
        \/ pc = "send" \/ pc = "done"
    BY <1>3 DEF SessionTick
  <2>3. Reading => toClient = << >>
    BY <1>3 DEF SessionTick, Reading
  <2>4. Unasked => Unasked'
    BY <1>1 DEF Unasked
  <2>5. Waits(clock) => Waits(clock)'
    BY <1>1, <2>1 DEF Waits, Num
  <2>6. Waits(sentAt) => Waits(sentAt)'
    BY <1>1, <2>1 DEF Waits
  <2>7. Asked => Asked'
    BY <1>1, <2>5 DEF Asked
  <2>8. Answered /\ cpc = "readQuote" => Answered'
    BY <1>1, <2>3 DEF Answered, Reading
  <2>9. toServer = <<"SOLUTION">> /\ Waits(sentAt) => pc = "done"
    BY <2>2 DEF Waits
  <2>10. cpc # "dial"
    BY <2>2 DEF Dialogue
  <2> QED
    BY <1>1, <2>4, <2>5, <2>6, <2>7, <2>8, <2>9, <2>10, Zenon DEF Dialogue
<1> QED
  BY <1>2, <1>3

(***************************************************************************)
(* The client's steps.                                                     *)
(***************************************************************************)
\* The client connects, or does not.
LEMMA DialStep ==
  ASSUME HInv, CInv, Dial
  PROVE  CInv'
<1> USE DEF CInv
<1>1. /\ cpc = "dial" /\ pc = "start" /\ state = "CONNECTED" /\ sentAt = NoTime
      /\ toServer = << >> /\ toClient = << >> /\ solver = "idle" /\ cresult = "none"
  BY Zenon DEF Dial, Dialogue, ClientSide, HInv, Order
<1>2. /\ UNCHANGED <<vars, peer, sentAt, toServer, toClient, faulty, solver>>
      /\ \/ cpc' = "request" /\ cresult' = cresult
         \/ cpc' = "done" /\ cresult' = "connect"
  BY DEF Dial, ClientReturns, wire, search
<1>3. ctxBy' \in Int /\ connBy' \in Int
  <2>1. \A x \in Nat : \A y \in 0 .. x : y \in Int
    OBVIOUS
  <2>2. ClientTimeout \in Nat /\ DialTimeout \in Nat /\ MaxQueued \in Nat
    BY SessionAssumption
  <2> QED
    BY <2>1, <2>2 DEF Dial, ClientSide
<1>4. ClientSide'
  BY <1>1, <1>2, <1>3, Zenon DEF ClientSide, vars
<1>5. Dialogue'
  BY <1>1, <1>2 DEF Dialogue, Unasked, vars
<1>6. Outcome'
  BY <1>1, <1>2 DEF Outcome, ClientErrors, ErrorCodes
<1> QED
  BY <1>4, <1>5, <1>6, Zenon

\* The client writes its request or its solution, or fails to.
LEMMA WriteStep ==
  ASSUME HInv, CInv, RequestSent \/ SolutionSent \/ WriteFails
  PROVE  CInv'
<1> Num
  BY Numeric DEF HInv
<1> USE DEF CInv
<1>1. UNCHANGED <<vars, peer, ctxBy, connBy, toClient, faulty, solver>> /\ sentAt = NoTime
      /\ cresult = "none"
  BY DEF RequestSent, SolutionSent, WriteFails, Write, wire, search, ClientSide
<1>2. CASE RequestSent
  <2>1. /\ cpc = "request" /\ cpc' = "readChallenge" /\ toServer' = Append(toServer, "REQUEST_CHALLENGE")
        /\ UNCHANGED <<sentAt, cresult>>
    BY <1>2 DEF RequestSent, Write
  <2>2. toServer' = <<"REQUEST_CHALLENGE">> /\ Unasked
    BY <2>1 DEF Dialogue
  <2>3. Unasked'
    BY <1>1, <2>2 DEF Unasked, vars
  <2>4. Dialogue'
    BY <2>1, <2>2, <2>3 DEF Dialogue
  <2>5. ClientSide' /\ Outcome'
    BY <1>1, <2>1 DEF ClientSide, Outcome, ClientErrors, vars
  <2> QED
    BY <2>4, <2>5
<1>3. CASE SolutionSent
  <2>1. /\ cpc = "solution" /\ cpc' = "readQuote" /\ toServer' = Append(toServer, "SOLUTION")
        /\ sentAt' = clock /\ cresult' = cresult
    BY <1>3 DEF SolutionSent, Write
  <2>2. toServer' = <<"SOLUTION">> /\ toClient = << >> /\ Waits(clock)
    BY <2>1 DEF Dialogue
  <2>3. Waits(sentAt)' /\ clock' = sentAt' /\ state' = "CHALLENGING" /\ sentAt' \in Nat
    BY <1>1, <2>1, <2>2, Zenon DEF Waits, vars, Num
  <2>4. Dialogue'
    BY <1>1, <2>1, <2>2, <2>3 DEF Dialogue
  <2>5. ClientSide' /\ Outcome'
    BY <1>1, <2>1, <2>3 DEF ClientSide, Outcome, ClientErrors
  <2> QED
    BY <2>4, <2>5
<1>4. CASE WriteFails
  <2>1. cpc' = "done" /\ cresult' = "writeError" /\ UNCHANGED <<toServer, sentAt>>
    BY <1>4, Zenon DEF WriteFails, ClientReturns, wire
  <2>2. Dialogue'
    BY <2>1 DEF Dialogue
  <2>3. ClientSide' /\ Outcome'
    BY <1>1, <2>1 DEF ClientSide, Outcome, ClientErrors, ErrorCodes
  <2> QED
    BY <2>2, <2>3
<1> QED
  BY <1>2, <1>3, <1>4

\* The first reply: the challenge, or an error that is expected.
LEMMA ReadChallengeStep ==
  ASSUME CInv, ReadReply("readChallenge", "CHALLENGE")
  PROVE  CInv'
<1> USE DEF CInv
<1>1. /\ cpc = "readChallenge" /\ toClient # << >> /\ toClient' = Tail(toClient)
      /\ UNCHANGED <<vars, peer, ctxBy, connBy, sentAt, toServer, faulty>>
  BY Zenon DEF ReadReply
<1>2. sentAt = NoTime /\ cresult = "none" /\ solver = "idle"
  BY <1>1, Zenon DEF ClientSide
<1>3. \/ toServer = << >> /\ toClient = <<"CHALLENGE">> /\ Waits(clock)
      \/ toClient \in {<<"RATE_LIMITED">>, <<"SERVER_BUSY">>, <<"INVALID_MESSAGE">>}
  BY <1>1 DEF Dialogue, Unasked, Asked
<1>4. CASE toServer = << >> /\ toClient = <<"CHALLENGE">> /\ Waits(clock)
  <2>1. Head(toClient) = "CHALLENGE" /\ toClient' = << >>
    BY <1>1, <1>4
  <2>2. cpc' = "solving" /\ solver' = "running" /\ cresult' = cresult
    BY <2>1 DEF ReadReply, S!Solve
  <2>3. Waits(clock)'
    BY <1>1, <1>4, Zenon DEF Waits, vars
  <2>4. Dialogue'
    BY <1>1, <1>4, <2>1, <2>2, <2>3 DEF Dialogue
  <2>5. ClientSide' /\ Outcome'
    BY <1>1, <1>2, <2>2 DEF ClientSide, Outcome, ClientErrors
  <2> QED
    BY <2>4, <2>5
<1>5. CASE toClient \in {<<"RATE_LIMITED">>, <<"SERVER_BUSY">>, <<"INVALID_MESSAGE">>}
  <2>1. Head(toClient) \in {"RATE_LIMITED", "SERVER_BUSY", "INVALID_MESSAGE"}
    BY <1>5
  <2>2. cpc' = "done" /\ cresult' = Head(toClient) /\ UNCHANGED solver
    BY <2>1, Zenon DEF ReadReply, ClientReturns, search
  <2>3. Dialogue'
    BY <2>2 DEF Dialogue
  <2>4. ClientSide' /\ Outcome'
    BY <1>1, <1>2, <2>1, <2>2 DEF ClientSide, Outcome, ClientErrors, ErrorCodes
  <2> QED
    BY <2>3, <2>4
<1> QED
  BY <1>3, <1>4, <1>5

\* The second: the quote, or an error that the clock skew rules out.
LEMMA ReadQuoteStep ==
  ASSUME CInv, ReadReply("readQuote", "QUOTE")
  PROVE  CInv'
<1> USE DEF CInv
<1>1. /\ cpc = "readQuote" /\ toClient # << >>
      /\ UNCHANGED <<vars, peer, ctxBy, connBy, sentAt, faulty>>
  BY DEF ReadReply
<1>2. \/ toClient = <<"QUOTE">> /\ state = "COMPLETED"
      \/ toClient = <<"CHALLENGE_EXPIRED">> /\ ~(WriteTimeout < ClockSkew)
  BY <1>1 DEF Dialogue, Answered
<1>3. \/ Head(toClient) = "QUOTE" /\ state = "COMPLETED"
      \/ Head(toClient) = "CHALLENGE_EXPIRED" /\ ~(WriteTimeout < ClockSkew)
  BY <1>2
<1>4. cpc' = "done" /\ cresult' = Head(toClient) /\ UNCHANGED solver
  BY <1>3 DEF ReadReply, ClientReturns, search
<1>5. Dialogue'
  BY <1>4, Zenon DEF Dialogue
<1>6. ClientSide'
  BY <1>1, <1>4 DEF ClientSide, vars
<1>7. Outcome'
  BY <1>1, <1>3, <1>4 DEF Outcome, ClientErrors, ErrorCodes, vars
<1> QED
  BY <1>5, <1>6, <1>7

\* A read fails for a reason: one that QuoteForSolver excepts, if the solution
\* has been sent.
LEMMA ReadFailsStep ==
  ASSUME HInv, CInv, ReadFails
  PROVE  CInv'
<1> Num
  BY Numeric DEF HInv
<1> USE DEF CInv
<1>1. /\ cpc \in {"readChallenge", "readQuote"} /\ cpc' = "done" /\ cresult' = "readError"
      /\ UNCHANGED <<vars, peer, ctxBy, connBy, sentAt, solver>>
  BY DEF ReadFails, Reading, ClientReturns, search
<1>2. faulty' \in BOOLEAN /\ (faulty => faulty')
  <2>1. faulty' = faulty \/ faulty' = TRUE
    BY DEF ReadFails
  <2>2. faulty \in BOOLEAN
    BY DEF ClientSide
  <2>3. faulty' \in BOOLEAN
    BY <2>1, <2>2, Zenon
  <2>4. faulty => faulty'
    BY <2>1, Zenon
  <2> QED
    BY <2>3, <2>4
<1>3. Dialogue'
  BY <1>1 DEF Dialogue
<1>4. ClientSide'
  BY <1>1, <1>2 DEF ClientSide, vars
<1>5. ASSUME cpc = "readQuote", ~faulty', cancelledAt = NoTime, sentAt < deadline,
             sentAt + WriteTimeout < connBy
      PROVE  FALSE
  <2>1. ~faulty
    BY <1>2, <1>5
  <2>2. \/ pc = "done" /\ (toClient = << >> \/ toServer # << >>)
        \/ clock >= connBy
    BY <1>5 DEF ReadFails
  <2>3. sentAt \in Nat /\ connBy \in Int
    BY <1>5 DEF ClientSide
  <2>4. CASE toServer = <<"SOLUTION">> /\ Waits(sentAt) /\ (pc # "done" => clock = sentAt)
    <3>1. pc # "done" /\ clock = sentAt
      BY <1>5, <2>1, <2>3, <2>4 DEF Waits, Num
    <3> QED
      BY <1>5, <2>2, <2>3, <3>1 DEF Num
  <2>5. CASE toServer = << >> /\ Answered
    <3>1. pc = "send" => clock <= writeBy
      BY DEF HInv, Times
    <3>2. clock <= sentAt + WriteTimeout /\ (pc = "done" => toClient # << >>)
      BY <2>1, <2>5, <3>1 DEF Answered
    <3> QED
      BY <1>5, <2>2, <2>3, <2>5, <3>2 DEF Num
  <2> QED
    BY <1>5, <2>4, <2>5 DEF Dialogue
<1>6. cpc = "readChallenge" => sentAt = NoTime
  BY DEF ClientSide
<1>7. Outcome'
  BY <1>1, <1>5, <1>6 DEF Outcome, ClientErrors, ErrorCodes, vars
<1> QED
  BY <1>3, <1>4, <1>7

\* The client searches.
LEMMA SolvingStep ==
  ASSUME CInv, Solving
  PROVE  CInv'
<1> USE DEF CInv
<1>1. /\ cpc = "solving" /\ UNCHANGED <<vars, peer, ctxBy, connBy, sentAt, toServer, toClient, faulty>>
      /\ \/ solver' = "running" /\ UNCHANGED <<cpc, cresult>>
         \/ solver' = "solved" /\ cpc' = "solution" /\ UNCHANGED cresult
         \/ cpc' = "done" /\ cresult' = "solveError"
  BY DEF Solving, ClientReturns, wire
<1>2. sentAt = NoTime /\ cresult = "none"
  BY <1>1, Zenon DEF ClientSide
<1>3. Waits(clock)' /\ toServer = << >> /\ toClient = << >>
  BY <1>1, Zenon DEF Dialogue, Waits, vars
<1>4. Dialogue'
  BY <1>1, <1>3 DEF Dialogue
<1>5. ClientSide' /\ Outcome'
  BY <1>1, <1>2 DEF ClientSide, Outcome, ClientErrors, ErrorCodes
<1> QED
  BY <1>4, <1>5

(***************************************************************************)
(* The session.                                                            *)
(***************************************************************************)
\* The inductive invariant.
SessionInv == HInv /\ SInv /\ CInv

\* A session begins with what it maintains.
LEMMA InitSession == SessionInit => SessionInv
<1> SUFFICES ASSUME SessionInit PROVE SessionInv
  OBVIOUS
<1>1. HInv /\ SInv
  BY InitHInv, InitSInv DEF SessionInit
<1>2. /\ peer \in {"any", "client"} /\ cpc = (IF peer = "any" THEN "done" ELSE "dial")
      /\ cresult = "none" /\ ctxBy = 0 /\ connBy = 0 /\ sentAt = NoTime
      /\ toServer = << >> /\ toClient = << >> /\ faulty = FALSE
      /\ pc = "start" /\ solver = "idle"
  BY DEF SessionInit, Init, S!Init
<1>3. Dialogue
  BY <1>2 DEF Dialogue
<1>4. ClientSide
  <2>1. faulty \in BOOLEAN
    BY <1>2, Zenon
  <2> QED
    BY <1>2, <2>1 DEF ClientSide
<1>5. Outcome
  BY <1>2 DEF Outcome, ClientErrors, ErrorCodes
<1> QED
  BY <1>1, <1>3, <1>4, <1>5 DEF SessionInv, CInv

\* The handler's invariant is kept by every step.
LEMMA NextHandler ==
  ASSUME HInv, [SessionNext]_sessionVars
  PROVE  HInv'
BY HandlerSteps, NextHInv, DoneTickHInv

\* So is what the search maintains: it moves in Solve and in Solving alone.
LEMMA NextSearch ==
  ASSUME HInv, SInv, ClientSide, [SessionNext]_sessionVars
  PROVE  SInv'
<1>1. clock \in Nat /\ clock' \in Nat /\ clock' >= clock /\ ctxBy \in Int
  BY HandlerSteps, HandlerKeeps DEF ClientSide
<1>2. CASE Solving
  BY <1>2, SearchStep DEF Solving, vars
<1>3. CASE ~Solving
  <2>1. S!Solve \/ UNCHANGED search
    <3>1. CASE ClientStep
      BY <1>3, <3>1, Zenon DEF ClientStep, Dial, RequestSent, SolutionSent, Write, WriteFails,
        ReadReply, ReadFails
    <3>2. CASE AnyPeer \/ ServerStep \/ ServerCancelled \/ SessionTick \/ UNCHANGED sessionVars
      BY <3>2, Zenon DEF AnyPeer, ServerStep, Refuse, ServerReceives, ServerSends, ServerRuns,
        ServerCancelled, SessionTick, sessionVars
    <3> QED
      BY <3>1, <3>2, Zenon DEF SessionNext
  <2>2. ctxBy' = ctxBy \/ solver = "idle"
    <3>1. CASE ClientStep
      BY <1>3, <3>1, Zenon DEF ClientStep, Dial, RequestSent, SolutionSent, Write, WriteFails,
        ReadReply, ReadFails, ClientSide
    <3>2. CASE AnyPeer \/ ServerStep \/ ServerCancelled \/ SessionTick \/ UNCHANGED sessionVars
      BY <3>2, Zenon DEF AnyPeer, ServerStep, Refuse, ServerReceives, ServerSends, ServerRuns,
        ServerCancelled, SessionTick, sessionVars, clientEnd
    <3> QED
      BY <3>1, <3>2, Zenon DEF SessionNext
  <2> QED
    BY <1>1, <2>1, <2>2, SearchWaits
<1> QED
  BY <1>2, <1>3

\* So is what the client and the wire maintain.
LEMMA NextClient ==
  ASSUME SessionInv, [SessionNext]_sessionVars
  PROVE  CInv'
<1> USE DEF SessionInv, CInv
<1>1. CASE ClientStep
  BY <1>1, DialStep, WriteStep, ReadChallengeStep, ReadQuoteStep, ReadFailsStep, SolvingStep
     DEF ClientStep
<1>2. CASE AnyPeer \/ ServerStep \/ ServerCancelled \/ SessionTick \/ UNCHANGED sessionVars
  <2>1. UNCHANGED <<peer, clientEnd, search>>
    BY <1>2, Zenon DEF AnyPeer, ServerStep, Refuse, ServerReceives, ServerSends, ServerRuns,
      ServerCancelled, SessionTick, sessionVars
  <2>2. faulty \in BOOLEAN
    BY DEF ClientSide
  <2>3. faulty' \in BOOLEAN /\ (faulty => faulty')
    <3>1. \/ faulty' = faulty \/ faulty' = TRUE
          \/ faulty' = (faulty \/ (reply.msg = "CHALLENGE" /\ pc' = "done"))
          \/ faulty' = (faulty \/ pc' = "done")
      BY <1>2, Zenon DEF AnyPeer, ServerStep, Refuse, ServerReceives, ServerSends, ServerRuns,
        ServerCancelled, SessionTick, sessionVars
    <3>2. faulty' \in BOOLEAN
      BY <2>2, <3>1, Zenon
    <3>3. faulty => faulty'
      BY <3>1, Zenon
    <3> QED
      BY <3>2, <3>3
  <2>4. ClientSide' /\ Outcome'
    BY <2>1, <2>3, OthersStep
  <2>5. Dialogue'
    <3>1. CASE AnyPeer
      <4>1. cpc' = "done"
        BY <3>1, <2>1 DEF AnyPeer, ClientSide, clientEnd
      <4> QED
        BY <4>1 DEF Dialogue
    <3>2. CASE ServerStep
      BY <3>2, RefuseDialogue, ReceivesDialogue, SendsDialogue, RunsDialogue DEF ServerStep
    <3>3. CASE ServerCancelled \/ SessionTick
      BY <3>3, OutsideDialogue, Zenon
    <3>4. CASE UNCHANGED sessionVars
      BY <3>4, Zenon DEF sessionVars, vars, clientEnd, wire, Dialogue, Unasked, Asked, Answered, Waits
    <3> QED
      BY <1>2, <3>1, <3>2, <3>3, <3>4
  <2> QED
    BY <2>4, <2>5, Zenon
<1> QED
  BY <1>1, <1>2 DEF SessionNext

\* All that the two ends of a connection maintain, together.
THEOREM SessionInvariant == SessionSpec => []SessionInv
<1>1. SessionInv /\ [SessionNext]_sessionVars => SessionInv'
  BY NextHandler, NextSearch, NextClient DEF SessionInv, CInv
<1> QED
  BY <1>1, InitSession, PTL DEF SessionSpec

\* SessionSpec implies what Handler promises any client: the order of the
\* replies, one for each message, counters that agree with them, no expiry of a
\* challenge answered in time and the bounds on the connection's life.
THEOREM HandlerInSession ==
  SessionSpec => [](ReplyOrder /\ OneReplyEach /\ MetricsMatchReplies
                      /\ OwnChallengeNeverExpires /\ TimeBounds)
<1>1. SessionInv => /\ ReplyOrder /\ OneReplyEach /\ MetricsMatchReplies
                    /\ OwnChallengeNeverExpires /\ TimeBounds
  BY OrderedReplies, AnsweredOnce, CountersRight, NeverTooOld, TimesBounded DEF SessionInv
<1> QED
  BY <1>1, SessionInvariant, PTL

\* SessionSpec implies SolverCorrect: the search of solver.go returns the first
\* counter that the verifier accepts, notices its context in time and reports
\* every multiple once, for every digest, difficulty and interval.
THEOREM SolverFinds == SessionSpec => []SolverCorrect
<1>1. SessionInv => SolverCorrect
  BY SearchCorrect DEF SessionInv
<1> QED
  BY <1>1, SessionInvariant, PTL

\* SessionSpec implies ClientErrors: the client and the server of this repository
\* agree on whose turn it is and on what a solution is.
THEOREM EndsAgree == SessionSpec => []ClientErrors
<1>1. SessionInv => ClientErrors
  BY DEF SessionInv, CInv, Outcome
<1> QED
  BY <1>1, SessionInvariant, PTL

\* SessionSpec implies QuoteForSolver: a client that solves in time is served,
\* for all timeouts that leave room for a write.
THEOREM SolversServed == SessionSpec => []QuoteForSolver
<1>1. SessionInv => QuoteForSolver
  <2> SUFFICES ASSUME SessionInv PROVE QuoteForSolver
    OBVIOUS
  <2>1. state = "COMPLETED" =>
          metrics.solved = 1 /\ metrics.served = 1 /\ pc = "done" /\ result = "nil"
    BY DEF SessionInv, HInv, Order, Counters
  <2> QED
    BY <2>1 DEF SessionInv, CInv, Outcome, QuoteForSolver
<1> QED
  BY <1>1, SessionInvariant, PTL

===============================================================================
