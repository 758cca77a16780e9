-------------------------------- MODULE Session -------------------------------
(***************************************************************************)
(* A connection with both of its ends.  The server's end is Handler, or    *)
(* the refusal before it.  The other end is any peer at all, or the        *)
(* client of this repository: run of cmd/client/main.go, with its solver.  *)
(*                                                                         *)
(* A message takes less than a tick to arrive, and what has arrived is     *)
(* read before the next tick.  A write of the server's may still take up   *)
(* to WriteTimeout.  The clock starts when the connection is accepted.     *)
(***************************************************************************)
EXTENDS Handler

CONSTANTS ClientTimeout,         \* the client's -timeout
          DialTimeout,           \* 10 seconds
          MaxQueued,             \* bound: time until the server accepts
          maxIterations, contextCheckInterval, reportInterval, Hashes

ASSUME SessionAssumption ==
  /\ {ClientTimeout, DialTimeout, MaxQueued} \subseteq Nat
  /\ {maxIterations, contextCheckInterval, reportInterval} \subseteq Nat \ {0}
  /\ Hashes \subseteq Seq(0 .. 255) /\ \A hash \in Hashes : 8 * Len(hash) >= Difficulty

VARIABLES peer,      \* "any" or "client"
          cpc,       \* where the client's run is
          cresult,   \* what it returned
          ctxBy,     \* the deadline of the client's ctx
          connBy,    \* that of its connection
          toServer, toClient,  \* messages on the way
          sentAt,    \* when the client sent its solution, NoTime before
          faulty,    \* the connection broke, or a deadline could not be set
          solver, counter, callback, hashes, reports, late  \* see Solver

clientEnd == <<cpc, cresult, ctxBy, connBy, sentAt>>
wire == <<toServer, toClient>>
search == <<solver, counter, callback, hashes, reports, late>>
sessionVars == <<vars, peer, clientEnd, wire, faulty, search>>

S == INSTANCE Solver WITH difficulty <- Difficulty, ctxDone <- clock >= ctxBy

SessionInit ==
  /\ Init /\ S!Init
  /\ peer \in {"any", "client"} /\ (peer = "any" => ~callback)
  /\ cpc = (IF peer = "any" THEN "done" ELSE "dial") /\ cresult = "none"
  /\ ctxBy = 0 /\ connBy = 0 /\ sentAt = NoTime
  /\ toServer = << >> /\ toClient = << >> /\ faulty = FALSE

AnyPeer == peer = "any" /\ Next /\ UNCHANGED <<peer, clientEnd, wire, faulty, search>>

(***************************************************************************)
(* The server's end of a client's connection.                              *)
(***************************************************************************)
Accepted == peer = "client" /\ cpc # "dial" /\ cresult # "connect"

\* sendErrorAndClose, before Handle is called.
Refuse ==
  /\ Accepted /\ pc = "start"
  /\ \E code \in {"RATE_LIMITED", "SERVER_BUSY"} : toClient' = Append(toClient, code)
  /\ Return("error")
  /\ UNCHANGED <<state, attempts, issuedAt, deadline, writeBy, reply, sent, reads,
                 cancelledAt, metrics, clock, peer, clientEnd, toServer, faulty, search>>

\* The client's message as the handler finds it: a solution is the answer to
\* this connection's challenge, with the digest that the client found.
Delivered(m) ==
  IF m = "SOLUTION"
  THEN {s \in OwnSolutions :
          (s.flaw = "none") = S!hasLeadingZeros(hashes[counter + 1], Difficulty)}
  ELSE NoSolutions({"REQUEST_CHALLENGE"})

ServerReceives ==
  /\ Accepted /\ toServer # << >>
  /\ \E msg \in Delivered(Head(toServer)) : handleConnected(msg) \/ handleChallenging(msg)
  /\ toServer' = Tail(toServer)
  /\ UNCHANGED <<peer, clientEnd, toClient, faulty, search>>

\* A deadline that cannot be set shows as a return right after it.
ServerSends ==
  /\ Accepted /\ Sent
  /\ toClient' = Append(toClient, reply.msg)
  /\ faulty' = (faulty \/ (reply.msg = "CHALLENGE" /\ pc' = "done"))
  /\ UNCHANGED <<peer, clientEnd, toServer, search>>

ServerRuns ==
  /\ Accepted
  /\ \/ Handle /\ faulty' = (faulty \/ pc' = "done")
     \/ CheckContext /\ UNCHANGED faulty
     \/ ReadError(Timeout) /\ UNCHANGED faulty
     \/ cpc = "done" /\ toServer = << >> /\ ReadError(EOF) /\ UNCHANGED faulty
     \/ (ReadError(Malformed) \/ SendFails) /\ faulty' = TRUE
  /\ UNCHANGED <<peer, clientEnd, wire, search>>

ServerCancelled ==
  /\ Accepted /\ CancelContext
  /\ UNCHANGED <<peer, clientEnd, wire, faulty, search>>

ServerStep == Refuse \/ ServerReceives \/ ServerSends \/ ServerRuns

(***************************************************************************)
(* The client.                                                             *)
(***************************************************************************)
ClientReturns(r) == cpc' = "done" /\ cresult' = r

\* DialContext takes up to DialTimeout and the server up to MaxQueued more to
\* accept.  ctx runs from before the dial, the connection's deadline from after.
Dial ==
  /\ cpc = "dial"
  /\ \/ \E d \in 0 .. DialTimeout, q \in 0 .. MaxQueued :
          /\ d <= ClientTimeout
          /\ ctxBy' = ClientTimeout - d - q /\ connBy' = ClientTimeout - q
          /\ cpc' = "request" /\ UNCHANGED cresult
     \/ ClientReturns("connect") /\ UNCHANGED <<ctxBy, connBy>>
  /\ UNCHANGED <<vars, peer, sentAt, wire, faulty, search>>

\* Mutant: a write that succeeded is done again.
Write_Twice(from, msg, to) ==
  /\ cpc = from /\ cpc' = to
  /\ toServer' = toServer \o <<msg, msg>>
  /\ UNCHANGED <<vars, peer, cresult, ctxBy, connBy, toClient, faulty, search>>

\* WriteMessage of the request, and of the solution.
Write(from, msg, to) ==
  /\ cpc = from /\ cpc' = to
  /\ toServer' = Append(toServer, msg)
  /\ UNCHANGED <<vars, peer, cresult, ctxBy, connBy, toClient, faulty, search>>

RequestSent == Write("request", "REQUEST_CHALLENGE", "readChallenge") /\ UNCHANGED sentAt
SolutionSent == Write("solution", "SOLUTION", "readQuote") /\ sentAt' = clock

WriteFails ==
  /\ cpc \in {"request", "solution"}
  /\ ClientReturns("writeError")
  /\ UNCHANGED <<vars, peer, ctxBy, connBy, sentAt, wire, faulty, search>>

\* ReadMessage returns a message: an error, the one expected, or another.
ReadReply(from, expected) ==
  /\ cpc = from /\ toClient # << >>
  /\ toClient' = Tail(toClient)
  /\ UNCHANGED <<vars, peer, ctxBy, connBy, sentAt, toServer, faulty>>
  /\ IF Head(toClient) = expected /\ expected = "CHALLENGE"
     THEN cpc' = "solving" /\ S!Solve /\ UNCHANGED cresult
     ELSE /\ ClientReturns(IF Head(toClient) \in {"CHALLENGE", "QUOTE"} \ {expected}
                           THEN "unexpected" ELSE Head(toClient))
          /\ UNCHANGED search

Reading == cpc \in {"readChallenge", "readQuote"}

\* Mutant: an error of the read is taken for a temporary one.
ReadFails_Retries ==
  /\ Reading
  /\ UNCHANGED sessionVars

\* The read fails: the server has closed the connection (and what it had not
\* read may make TCP drop what it had sent), the deadline has passed, or the
\* connection broke.
ReadFails ==
  /\ Reading
  /\ \/ pc = "done" /\ (toClient = << >> \/ toServer # << >>) /\ UNCHANGED faulty
     \/ clock >= connBy /\ UNCHANGED faulty
     \/ faulty' = TRUE
  /\ ClientReturns("readError")
  /\ UNCHANGED <<vars, peer, ctxBy, connBy, sentAt, wire, search>>

\* Solve runs and returns.
Solving ==
  /\ cpc = "solving" /\ S!SolverStep
  /\ IF solver' = "running" THEN UNCHANGED <<cpc, cresult>>
     ELSE IF solver' = "solved" THEN cpc' = "solution" /\ UNCHANGED cresult
     ELSE ClientReturns("solveError")
  /\ UNCHANGED <<vars, peer, ctxBy, connBy, sentAt, wire, faulty>>

ClientStep ==
  \/ Dial \/ RequestSent \/ SolutionSent \/ WriteFails
  \/ ReadReply("readChallenge", "CHALLENGE") \/ ReadReply("readQuote", "QUOTE")
  \/ ReadFails \/ Solving

\* Time passes while both ends wait: neither has something to read, and
\* neither is past the deadline that ends its wait.
SessionTick ==
  /\ peer = "client"
  /\ \/ pc = "read" /\ clock < deadline /\ toServer = << >>
     \/ pc = "send" /\ clock < writeBy
     \/ pc = "done" /\ cpc # "done"
  /\ \/ Reading /\ clock < connBy /\ toClient = << >>
     \/ cpc \in {"request", "solution"} /\ clock < connBy
     \/ cpc = "solving" /\ clock < ctxBy
     \/ cpc = "done" /\ pc # "done"
  /\ clock' = clock + 1
  /\ UNCHANGED <<pc, state, attempts, issuedAt, deadline, writeBy, reply, sent,
                 reads, result, cancelledAt, metrics, peer, clientEnd, wire, faulty,
                 search>>

SessionNext == AnyPeer \/ ServerStep \/ ServerCancelled \/ ClientStep \/ SessionTick

SessionSpec == SessionInit /\ [][SessionNext]_sessionVars

\* Both ends run when they can, and time passes while they are blocked.
FairSession ==
  /\ SessionSpec
  /\ WF_sessionVars(ServerStep \/ (AnyPeer /\ Step)) /\ WF_sessionVars(ClientStep)
  /\ WF_sessionVars(SessionTick \/ (AnyPeer /\ Tick))

-------------------------------------------------------------------------------
\* The client keeps to the protocol and the server to the client's idea of it:
\* no message comes out of turn, and the only errors are the refusals and a
\* challenge that could not be made.  In particular the work that the solver
\* finds is the work that the verifier wants, and a solution that arrives is
\* never too old.
ClientErrors ==
  WriteTimeout < ClockSkew =>
    cresult \notin {"unexpected"} \cup (ErrorCodes \ {"INVALID_MESSAGE"})

\* The quote is for those who solve: a client that has solved the challenge
\* before the server stops waiting for it, with time left for the server's
\* write, is given the quote, unless the connection breaks, a write takes too
\* long or the server is being stopped.  And the two ends tell the same story: a
\* client has its quote only when the server has counted a solved challenge and
\* a served quote, and its handler returned nil.
QuoteForSolver ==
  /\ /\ WriteTimeout < ClockSkew /\ cpc = "done" /\ sentAt # NoTime
     /\ ~faulty /\ cancelledAt = NoTime
     /\ sentAt < deadline /\ sentAt + WriteTimeout < connBy
     => cresult = "QUOTE"
  /\ cresult = "QUOTE" =>
       metrics.solved = 1 /\ metrics.served = 1 /\ pc = "done" /\ result = "nil"

\* The search: see FindsFirst, CancelNoticed and ReportsMultiples of Solver.
SolverCorrect == S!FindsFirst /\ S!CancelNoticed /\ S!ReportsMultiples

\* Both ends come back, whatever the other does and whatever becomes of the
\* connection.
SessionEnds == HandleReturns /\ <>(cpc = "done")

===============================================================================
