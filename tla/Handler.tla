-------------------------------- MODULE Handler -------------------------------
(***************************************************************************)
(* The protocol of one connection: Handler.Handle and what it calls in     *)
(* internal/server/handler.go, with protocol.ReadMessage, pow.Generate and *)
(* pow.Verify as operators.  The client may send any message at any time,  *)
(* go silent or disconnect; the server's context may be cancelled at any   *)
(* time; any write may fail or take up to WriteTimeout.                    *)
(*                                                                         *)
(* A message is what the handler can tell about it: its type, and for a    *)
(* SOLUTION what UnmarshalSolution and Verify find.  One tick is a second  *)
(* (challenge timestamps are in seconds).  Time passes only while the      *)
(* goroutine is blocked in a read or a write, and never past the deadline  *)
(* that ends it.                                                           *)
(***************************************************************************)
EXTENDS Integers, Sequences

CONSTANTS IdleTimeout, ChallengeTimeout, WriteTimeout, ClockSkew,
          MaxAttempts, Difficulty

MinDifficulty == 16
MaxDifficulty == 24

ASSUME HandlerAssumption ==
  /\ {IdleTimeout, ChallengeTimeout, WriteTimeout} \subseteq Nat \ {0}
  /\ ClockSkew \in Nat /\ MaxAttempts \in Int /\ Difficulty \in 0 .. 255

VARIABLES pc,          \* start, loop, read, send or done
          state,       \* cc.state
          attempts,    \* cc.attempts
          issuedAt,    \* the generated challenge's Timestamp, NoTime before
          deadline,    \* the connection's read deadline
          writeBy,     \* its write deadline
          reply,       \* the message being written, and what follows it
          sent,        \* the messages written so far
          reads,       \* the number of messages read
          result,      \* what Handle returned
          cancelledAt, \* when ctx was cancelled, NoTime before
          metrics,     \* the counters of internal/metrics
          clock

vars == <<pc, state, attempts, issuedAt, deadline, writeBy, reply, sent, reads,
          result, cancelledAt, metrics, clock>>

NoTime == -1
ErrorCodes == {"INVALID_MESSAGE", "INVALID_STATE", "CHALLENGE_EXPIRED",
               "INVALID_SIGNATURE", "INVALID_SOLUTION", "TOO_MANY_ATTEMPTS"}
Replies == {"CHALLENGE", "QUOTE"} \cup ErrorCodes

\* What package protocol tells a client to do about a code.
IsRetryable(code) == code \in {"INVALID_SOLUTION", "RATE_LIMITED", "SERVER_BUSY"}
ShouldReconnect(code) ==
  code \in {"INVALID_MESSAGE", "INVALID_STATE", "CHALLENGE_EXPIRED",
           "INVALID_SIGNATURE", "TOO_MANY_ATTEMPTS"}

\* What follows a write: another turn of the loop, or a return; and what it
\* answers: a solution of this connection's own challenge, or another message.
NoReply == [msg |-> "CHALLENGE", then |-> "loop", to |-> "other"]

(***************************************************************************)
(* Messages.  A SOLUTION carries a challenge and a counter.  flaw is the   *)
(* first check that it fails, that of the age apart: UnmarshalSolution     *)
(* (parse), Challenge.Validate (field), verifySignature (signature) or     *)
(* hasRequiredLeadingZeros (work); age is the age of its challenge in      *)
(* seconds.  The challenge is this connection's own, or any other that     *)
(* this secret signed: Verify does not compare.                            *)
(***************************************************************************)
Solutions(flaws, ages, whose) ==
  [type : {"SOLUTION"}, flaw : flaws, age : ages, whose : {whose}]
NoSolutions(types) == [type : types, flaw : {"none"}, age : {0}, whose : {"other"}]

\* The ages around which Verify changes its mind.
Ages == -(ClockSkew + 1) .. ChallengeTimeout + ClockSkew + 1

\* Answers to this connection's challenge.  Both of its timestamps are Unix(),
\* which drops the fraction of the second: their difference is the time
\* that passed, or one more.
OwnSolutions ==
  IF issuedAt = NoTime THEN {}
  ELSE Solutions({"work", "none"}, {clock - issuedAt, clock - issuedAt + 1}, "own")

Messages ==
  NoSolutions({"REQUEST_CHALLENGE", "OTHER"})
  \cup Solutions({"parse", "field", "signature"}, {0}, "other")
  \cup Solutions({"work", "none"}, Ages, "other")
  \cup OwnSolutions

\* Mutant: no tolerance for old challenges.
validateTimestamp_NoSkew(age) ==
  IF age > ChallengeTimeout THEN "ErrChallengeExpired"
  ELSE IF age < -ClockSkew THEN "ErrFutureTimestamp" ELSE "nil"

validateTimestamp(age) ==
  IF age > ChallengeTimeout + ClockSkew THEN "ErrChallengeExpired"
  ELSE IF age < -ClockSkew THEN "ErrFutureTimestamp" ELSE "nil"

Verify(sol) ==
  IF sol.flaw = "field" THEN "ErrInvalidField"
  ELSE IF sol.flaw = "signature" THEN "ErrInvalidSignature"
  ELSE IF validateTimestamp(sol.age) # "nil" THEN validateTimestamp(sol.age)
  ELSE IF sol.flaw = "work" THEN "ErrInsufficientWork" ELSE "nil"

-------------------------------------------------------------------------------
Init ==
  /\ pc = "start"
  /\ state = "CONNECTED"
  /\ attempts = 0
  /\ issuedAt = NoTime
  /\ deadline = NoTime
  /\ writeBy = 0
  /\ reply = NoReply
  /\ sent = << >>
  /\ reads = 0
  /\ result = "none"
  /\ cancelledAt = NoTime
  /\ metrics = [issued |-> 0, solved |-> 0, failed |-> 0, expired |-> 0,
                served |-> 0]
  /\ clock = 0

Return(r) == pc' = "done" /\ result' = r

\* The counters of package metrics that the handler uses.
Record(counter) == metrics' = [metrics EXCEPT ![counter] = @ + 1]
ChallengeIssued == Record("issued")
ChallengeSolved == Record("solved")
ChallengeFailed == Record("failed")
ChallengeExpired == Record("expired")
QuoteServed == Record("served")

\* sendMessage begins: the write deadline is set, the write may block.
Send(msg, then, whose) ==
  /\ pc' = "send"
  /\ reply' = [msg |-> msg, then |-> then, to |-> whose]
  /\ writeBy' = clock + WriteTimeout
  /\ UNCHANGED <<deadline, sent, result, cancelledAt, clock>>

\* SetReadDeadline, which may fail: then Handle returns the error.
SetReadDeadline(timeout) ==
  \/ deadline' = clock + timeout /\ pc' = "loop" /\ UNCHANGED result
  \/ Return("error") /\ UNCHANGED deadline

Handle ==
  /\ pc = "start"
  /\ SetReadDeadline(IdleTimeout)
  /\ UNCHANGED <<state, attempts, issuedAt, writeBy, reply, sent, reads,
                 cancelledAt, metrics, clock>>

\* The top of Handle's loop: the context check.
CheckContext ==
  /\ pc = "loop"
  /\ IF cancelledAt # NoTime
     THEN Return("canceled") ELSE pc' = "read" /\ UNCHANGED result
  /\ UNCHANGED <<state, attempts, issuedAt, deadline, writeBy, reply, sent,
                 reads, cancelledAt, metrics, clock>>

\* ReadMessage fails and handleReadError returns.  ReadMessage wraps a
\* timeout (fmt.Errorf "read length: %w"), so handleReadError's assertion
\* err.(net.Error) does not see it and the generic branch runs.
Timeout == [kind |-> "timeout", wrapped |-> TRUE]
EOF == [kind |-> "eof", wrapped |-> FALSE]
Malformed == [kind |-> "other", wrapped |-> TRUE]

handleReadError(err) ==
  IF err.kind = "timeout" /\ ~err.wrapped /\ state = "CHALLENGING"
  THEN Send("CHALLENGE_EXPIRED", "error", "other")
  ELSE /\ Return(IF err.kind = "eof" THEN "nil" ELSE "error")
       /\ UNCHANGED <<deadline, writeBy, reply, sent, cancelledAt, clock>>

ReadError(err) ==
  /\ pc = "read"
  /\ err = Timeout => clock >= deadline
  /\ handleReadError(err)
  /\ UNCHANGED <<state, attempts, issuedAt, reads, metrics>>

\* A message is read in time, and processMessage picks its handler.
Receive(s) ==
  /\ pc = "read" /\ clock <= deadline
  /\ state = s
  /\ reads' = reads + 1

\* Mutant: a challenge counts as issued before it is written.
handleConnected_CountsEarly(msg) ==
  /\ Receive("CONNECTED")
  /\ msg.type = "REQUEST_CHALLENGE"
  /\ issuedAt' = clock
  /\ ChallengeIssued
  /\ Send("CHALLENGE", "loop", "other")
  /\ UNCHANGED <<state, attempts>>

handleConnected(msg) ==
  /\ Receive("CONNECTED")
  /\ \/ /\ msg.type # "REQUEST_CHALLENGE"
        /\ Send("INVALID_STATE", "error", "other")
        /\ UNCHANGED issuedAt
     \/ /\ msg.type = "REQUEST_CHALLENGE"
        /\ Difficulty \in MinDifficulty .. MaxDifficulty
        /\ issuedAt' = clock
        /\ Send("CHALLENGE", "loop", "other")
     \/ \* Generate fails: the difficulty, or the source of random bytes
        /\ msg.type = "REQUEST_CHALLENGE"
        /\ Send("INVALID_MESSAGE", "error", "other")
        /\ UNCHANGED issuedAt
  /\ UNCHANGED <<state, attempts, metrics>>

\* Mutant: attempts are compared before they are counted.
handleVerificationError_OffByOne(err, whose) ==
  /\ attempts' = attempts + 1
  /\ ChallengeFailed
  /\ IF attempts >= MaxAttempts THEN Send("TOO_MANY_ATTEMPTS", "error", whose)
                                ELSE Send("INVALID_SOLUTION", "loop", whose)
  /\ UNCHANGED state

\* handleVerificationError: count the attempt, then reply by kind of error.
handleVerificationError(err, whose) ==
  /\ attempts' = attempts + 1
  /\ IF err \in {"ErrChallengeExpired", "ErrFutureTimestamp"}
     THEN ChallengeExpired ELSE ChallengeFailed
  /\ CASE err = "ErrInvalidSignature" -> Send("INVALID_SIGNATURE", "error", whose)
       [] err \in {"ErrChallengeExpired", "ErrFutureTimestamp"} ->
            Send("CHALLENGE_EXPIRED", "error", whose)
       [] err = "ErrInsufficientWork" ->
            IF attempts + 1 >= MaxAttempts
            THEN Send("TOO_MANY_ATTEMPTS", "error", whose)
            ELSE Send("INVALID_SOLUTION", "loop", whose)
       [] OTHER -> Send("INVALID_MESSAGE", "error", whose)
  /\ UNCHANGED state

\* Mutant: an unparsable solution ends the connection without a reply.
handleChallenging_Silent(msg) ==
  /\ Receive("CHALLENGING")
  /\ msg.type = "SOLUTION" /\ msg.flaw = "parse"
  /\ Return("error")
  /\ UNCHANGED <<state, attempts, metrics, issuedAt, deadline, writeBy, reply,
                 sent, cancelledAt, clock>>

handleChallenging(msg) ==
  /\ Receive("CHALLENGING")
  /\ \/ /\ msg.type # "SOLUTION"
        /\ Send("INVALID_STATE", "error", "other")
        /\ UNCHANGED <<state, attempts, metrics>>
     \/ /\ msg.type = "SOLUTION" /\ msg.flaw = "parse"
        /\ Send("INVALID_MESSAGE", "error", "other")
        /\ UNCHANGED <<state, attempts, metrics>>
     \/ /\ msg.type = "SOLUTION" /\ msg.flaw # "parse" /\ Verify(msg) # "nil"
        /\ handleVerificationError(Verify(msg), msg.whose)
     \/ /\ msg.type = "SOLUTION" /\ msg.flaw # "parse" /\ Verify(msg) = "nil"
        /\ state' = "AUTHORIZED"
        /\ ChallengeSolved
        /\ Send("QUOTE", "nil", msg.whose)
        /\ UNCHANGED attempts
  /\ UNCHANGED issuedAt

\* Mutant: a retry renews the deadline.
Sent_RenewsDeadline ==
  /\ pc = "send" /\ reply.then = "loop"
  /\ sent' = Append(sent, reply.msg)
  /\ state' = "CHALLENGING"
  /\ SetReadDeadline(ChallengeTimeout)
  /\ UNCHANGED <<attempts, metrics, issuedAt, writeBy, reply, reads, cancelledAt, clock>>

\* The rest of handleConnected, once the challenge is written.
challengeSent ==
  /\ reply.msg = "CHALLENGE"
  /\ ChallengeIssued
  /\ state' = "CHALLENGING"
  /\ attempts' = 0
  /\ SetReadDeadline(ChallengeTimeout)

\* Mutant: the quote is not counted.
quoteSent_NotCounted ==
  /\ reply.msg = "QUOTE"
  /\ state' = "COMPLETED"
  /\ Return("nil")
  /\ UNCHANGED <<attempts, deadline, metrics>>

\* The rest of sendQuote.
quoteSent ==
  /\ reply.msg = "QUOTE"
  /\ QuoteServed
  /\ state' = "COMPLETED"
  /\ Return("nil")
  /\ UNCHANGED <<attempts, deadline>>

\* After an error message: only INVALID_SOLUTION lets the client go on.
errorSent ==
  /\ reply.msg \in ErrorCodes
  /\ IF reply.then = "loop" THEN pc' = "loop" /\ UNCHANGED result
                            ELSE Return("error")
  /\ UNCHANGED <<state, attempts, deadline, metrics>>

\* The write succeeds; the code after sendMessage runs.
Sent ==
  /\ pc = "send"
  /\ sent' = Append(sent, reply.msg)
  /\ challengeSent \/ quoteSent \/ errorSent
  /\ UNCHANGED <<issuedAt, writeBy, reply, reads, cancelledAt, clock>>

\* The write fails, or its deadline passes.
SendFails ==
  /\ pc = "send"
  /\ Return("writeError")
  /\ UNCHANGED <<state, attempts, issuedAt, deadline, writeBy, reply, sent,
                 reads, cancelledAt, metrics, clock>>

CancelContext ==
  /\ pc # "done" /\ cancelledAt = NoTime
  /\ cancelledAt' = clock
  /\ UNCHANGED <<pc, state, attempts, issuedAt, deadline, writeBy, reply, sent,
                 reads, result, metrics, clock>>

Tick ==
  /\ \/ pc = "read" /\ clock < deadline
     \/ pc = "send" /\ clock < writeBy
  /\ clock' = clock + 1
  /\ UNCHANGED <<pc, state, attempts, issuedAt, deadline, writeBy, reply, sent,
                 reads, result, cancelledAt, metrics>>

Step ==
  \/ Handle
  \/ CheckContext
  \/ \E err \in {Timeout, EOF, Malformed} : ReadError(err)
  \/ \E msg \in Messages : handleConnected(msg) \/ handleChallenging(msg)
  \/ Sent
  \/ SendFails

Next == Step \/ CancelContext \/ Tick

Spec == Init /\ [][Next]_vars

\* The goroutine runs when it can, and time passes while it is blocked.
\* Nothing is assumed of the client.
FairSpec == Spec /\ WF_vars(Step) /\ WF_vars(Tick)

-------------------------------------------------------------------------------
\* Type invariant.
TypeOK ==
  /\ pc \in {"start", "loop", "read", "send", "done"}
  /\ state \in {"CONNECTED", "CHALLENGING", "AUTHORIZED", "COMPLETED"}
  /\ attempts \in Nat
  /\ {issuedAt, deadline, cancelledAt} \subseteq Nat \cup {NoTime}
  /\ {writeBy, reads, clock} \subseteq Nat
  /\ reply \in [msg : Replies, then : {"loop", "nil", "error"}, to : {"own", "other"}]
  /\ sent \in Seq(Replies)
  /\ result \in {"none", "nil", "error", "writeError", "canceled"}
  /\ metrics \in [issued : Nat, solved : Nat, failed : Nat, expired : Nat, served : Nat]

Told(msg) == \E i \in DOMAIN sent : sent[i] = msg
AttemptLimit == IF MaxAttempts < 1 THEN 1 ELSE MaxAttempts

\* What a client can rely on, whatever it sends: the first reply is the
\* CHALLENGE or a final error; after it come fewer than MaxAttempts
\* INVALID_SOLUTIONs, one after the other, then one last reply, a QUOTE or an
\* error.  The code of an error tells what the server does next: the handler
\* reads on after those that IsRetryable names, and closes the connection after
\* those for which ShouldReconnect says to open another.
ReplyOrder ==
  /\ \A i \in DOMAIN sent : sent[i] = "CHALLENGE" <=> i = 1 /\ sent[1] \notin ErrorCodes
  /\ \A i \in 2 .. Len(sent) - 1 : sent[i] = "INVALID_SOLUTION"
  /\ \A i \in DOMAIN sent : sent[i] = "INVALID_SOLUTION" => i \in 2 .. AttemptLimit
  /\ Told("QUOTE") => pc = "done" /\ result = "nil"
  /\ pc = "send" /\ reply.msg \in ErrorCodes =>
       /\ reply.then = "loop" <=> IsRetryable(reply.msg)
       /\ reply.then = "error" <=> ShouldReconnect(reply.msg)

\* Every message that is read is answered exactly once, unless its answer
\* is the write that failed: no path through the handlers forgets a reply or
\* sends two.  AUTHORIZED and COMPLETED never wait for a message, so
\* handleAuthorized and the last branch of processMessage are dead code.
OneReplyEach ==
  /\ pc \in {"loop", "read"} =>
       reads = Len(sent) /\ state \in {"CONNECTED", "CHALLENGING"}
  /\ pc = "send" => reads = Len(sent) + 1
  /\ pc = "done" => reads = Len(sent) + (IF result = "writeError" THEN 1 ELSE 0)

\* The counters tell the story of the replies: one issued for the CHALLENGE that
\* reached the client, one served for the QUOTE (ReplyOrder says that neither is
\* sent twice), at most one solved and none without an issued, and one failed or
\* expired for each counted attempt.
MetricsMatchReplies ==
  /\ metrics.issued = IF Told("CHALLENGE") THEN 1 ELSE 0
  /\ metrics.served = IF Told("QUOTE") THEN 1 ELSE 0
  /\ metrics.served <= metrics.solved /\ metrics.solved <= metrics.issued
  /\ metrics.failed + metrics.expired = attempts
  /\ metrics.solved > metrics.served => state = "AUTHORIZED"

\* A client that answers the challenge of its own connection is never told
\* that it expired: the read deadline, which starts when the challenge has
\* been written, runs out before Verify's age limit, which starts when the
\* challenge is made, because ClockSkew covers the write and the fraction of
\* a second that Unix() drops.
OwnChallengeNeverExpires ==
  WriteTimeout < ClockSkew =>
    ~(pc = "send" /\ reply.to = "own" /\ reply.msg = "CHALLENGE_EXPIRED")

Longer(s, t) == IF s > t THEN s ELSE t

\* No client can hold a connection, and the pool's slot, beyond a fixed time:
\* retries do not move the read deadline.  Once the context is cancelled, the
\* handler is gone after the deadline of the read it is blocked in and one more
\* write.
TimeBounds ==
  pc # "done" =>
    /\ clock <= IdleTimeout + ChallengeTimeout + 2 * WriteTimeout
    /\ cancelledAt # NoTime =>
         clock - cancelledAt <= WriteTimeout + Longer(IdleTimeout, ChallengeTimeout)

\* What the test "timeout in challenging state sends error" and the comment
\* "Send appropriate error based on state" say: a client whose time runs
\* out in CHALLENGING is told CHALLENGE_EXPIRED.
TimeoutIsReported ==
  [][pc = "read" /\ state = "CHALLENGING" /\ ReadError(Timeout)
       => pc' = "send" /\ reply'.msg = "CHALLENGE_EXPIRED"]_vars

\* Every connection ends, whatever the client does or does not do.
HandleReturns == pc = "loop" ~> pc = "done"

===============================================================================
