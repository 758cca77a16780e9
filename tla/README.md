# Verification of the proof-of-work quote server

TLA+ models of the programs in this repository, checked with TLC on small
instances, and theorems about them that TLAPS proves for every instance. The
source (`internal/`, `cmd/`) is the reference for every definition;
`PROJECT.json` maps each one to the lines it models, and lists the hazards of the
code with the properties that would catch them.

## 1. The system

A client connects over TCP, asks for a challenge, solves it and gets a quote.

| Part | Source | State | Hard behaviours | Module | Proofs |
|---|---|---|---|---|---|
| Connection pool | `server/pool.go` | channel `sem`, atomics `active`, `waiting` | parked senders, hand-off, cancellation racing a hand-off | `Pool` | `PoolProofs` |
| Rate limiter | `ratelimit/limiter.go` | per-shard maps, atomic `bucketCount`, cleanup goroutine | check-then-create across shards, sweep with an old clock | `RateLimiter`, `TokenBucket` | `RateLimiterProofs` |
| Connection handler | `server/handler.go` | state, attempts, deadlines | any message at any time, failing and slow writes, cancellation | `Handler` | `SessionProofs` |
| Verifier, generator | `pow/verifier.go`, `generator.go`, `types.go` | none | two clocks for one challenge, whole seconds | operators of `Handler`, `Solver` | `SessionProofs` |
| Solver | `pow/solver.go` | the loop's counter | bit masks, cancellation at intervals | `Solver` | `SessionProofs` |
| Client | `cmd/client/main.go` | its place in `run`, two deadlines | refusals, broken connections, late quotes | `Session` (on `Handler`, `Solver`) | `SessionProofs` |
| Wire protocol | `protocol/` | bytes read so far | streams that end or break anywhere, length limits | `Framing` | `FramingProofs` |
| Server | `server/server.go` | listener, two WaitGroups, counters, `closeOnce` | Add against Wait, concurrent shutdowns, deferred calls | `Server` (on `Pool`) | `ServerProofs` |
| Process | `cmd/server/main.go`, `metrics/prometheus.go` | signal and error channels | start-up failures, exit against drain | `Main` (on `Server`, `Config`) | `MainProofs` |
| Configuration | `config/config.go` | none | values that pass the checks and break a part | `Config` | with `Main` |
| Difficulty manager | `pow/difficulty.go` | `current`, `stopChan`, `stopped` | concurrent Stops, stale samples | `Difficulty` | `DifficultyProofs` |
| Load test tool | `cmd/loadtest/main.go` | atomic counters, WaitGroup | counters read one by one, reads that ctx does not interrupt | `LoadTest` | `LoadTestProofs` |

How they interact: `main` loads and validates the settings, starts the metrics
server, builds the parts and starts the server in a goroutine.
`Server.acceptLoop` starts a goroutine per connection, which asks the rate
limiter, then the pool, then runs the handler, and gives the slot back in
deferred calls. The handler reads and writes framed messages, generates and
verifies. On a signal `main` cancels the context: the accept loop, the handlers
and `Start` each notice it on their own. The difficulty manager samples the
server's statistics. The client and the load test tool talk to the handler.

## 2. The modules and the code

**Pool.** `at[p]` is a caller's position in the pool's code. A channel
operation and an atomic `Add` are separate steps. `sendq` is the runtime's queue
of parked senders: a receive from a full channel hands the freed place to its
head in the same step, and a cancelled context removes a sender from the queue.
`StraySpec` adds callers that Release without holding a slot.

**RateLimiter.** What happens under one shard's mutex is split only at the
accesses to `bucketCount`, the one thing that other shards see. `locked[s]` is
the holder of a mutex and how far it is. `tracked`, `tokens`, `lastSeen` are the
maps. Tokens are integers in units of 1/`Unit` token (float rounding is left
out), the hash is any function `ShardOf`. The ticker may fire at any time, so
the results hold for every `CleanupInterval` (one that is not positive makes
`time.NewTicker` panic). `since` and `granted` are history: the requests of one
IP allowed since an arbitrary moment.

**TokenBucket.** What the limiter promises: one bucket per IP, never forgotten.
`RateLimiter!Promise` maps the limiter to it: an IP without a bucket has a full
level, and a creation under way counts as already decided, because the result is
fixed when the miss reads the clock.

**Handler.** One connection. `pc` is where `Handle` is: at the top of its loop,
in a read, in a write, returned. A message is what the code can find out about
it: its type, the first check that it fails (`flaw`), its age, and whether it
answers this connection's challenge. A handler runs up to its write in one
action (`handleConnected`, `handleChallenging`) and the code after the write in
another (`challengeSent`, `quoteSent`, `errorSent`), because time passes and the
write may fail in between. A tick is a second and passes only while the
goroutine is blocked. `Unix()` drops fractions, so a challenge's age is the time
passed or one more.

**Solver.** `Solve` and `SolveWithProgress` are one loop; `Iterate` is one turn
of it. SHA-256 may give any value of `Hashes` for each counter.
`hasLeadingZeros` works on real bytes, with the mask that the code computes; the
shift and the `&` are spelled out bit by bit.

**Session** puts both ends of a connection together. The peer is either
anything at all (`AnyPeer`: the steps of `Handler`) or the repository's client:
dial, request, solve, send, read, with the deadline of its ctx and that of its
connection. The server may refuse it, may be cancelled, and either end may find
the connection broken.

**Framing.** `input` is every byte that has arrived. The writing side either
calls `WriteMessage`, which may fail after any part of a message, or sends any
bytes; the reading side calls `ReadMessage` until it returns an error.
`UnmarshalMessage`, the second decoder, is an operator.

**Server.** `Start`, the accept loop, the connection goroutines, the body of
`shutdown` and the goroutine in `wg.Wait` are processes with a program counter
each. The pool is `INSTANCE Pool`; its actions are conjuncts of the connection
steps, and `UsesPool` (`P!Spec`) shows that the server is a legal caller, so the
pool's theorems apply. Limiter and handler results are arbitrary here.

**Config, Main.** `Config` has `Load`, `Validate` and what `main` hands to each
part. `Main` extends `Server` with `main`'s steps, from reading the environment
to its return, and with the goroutine of the metrics server; when `main` returns
nothing runs any more. `mainPc` is "absent" when the server belongs to another
program, as in the tests, which may also call `Shutdown`.

**Difficulty.** The update goroutine, the metrics goroutine of `main`, callers
of `Stop`, a changing load, and the issuing of challenges.

**LoadTest.** `main` with its ramp-up, the workers, each step of their requests
that can block or fail, and `printLiveStats`, which loads one counter per step.

Definitions named `X_Something` are mutants: `X` with a plausible mistake. Each
checked property is violated when its mutant takes the place of `X`.

## 3. The runs

Runs that pass:

| Run | Instance | Checks |
|---|---|---|
| `pool` | four callers, one slot | `SlotsMatchHolders`, `ActiveMatchesSem`: exact counters; `ParkedOnlyWhenFull`: no lost wakeup; `NoOvertaking`; `BlockingReturns` |
| `limiter_rate` | two shards, sweeps, no limit on the buckets | `RateBound`; `ImplementsTokenBucket` |
| `limiter_cap` | three IPs, two shards, MaxBuckets 1 | `BucketCountExact`, `BucketCountBound`; `StaleRemoved` |
| `session` | one connection with any peer, or with the client | `ReplyOrder`, `OneReplyEach`, `MetricsMatchReplies`, `OwnChallengeNeverExpires`, `TimeBounds` of the handler; `ClientErrors`, `QuoteForSolver`, `SolverCorrect`, `SessionEnds` of both ends |
| `server` | two connections, one slot; alone or under `main` with eleven environments | `CountersBalance`, `DrainedMeansEmpty`, `NoAddDuringWait`, `NothingAcceptedAfterShutdown`, `UsesPool`, `CancelStops`; `ServesUsable`, `SignalOrErrorExits` |
| `difficulty` | two callers of Stop, four loads | `TypeOK` (the level is in its limits), `ClosedOnce`, `UpdateLoopReturns`, `LoadIsFollowed` |
| `framing` | two messages written, or seven bytes of any value | `LengthChecks`, `Accounted`, `CleanEOF`, `DecodersAgree`, `ReaderReturns` |
| `loadtest` | two workers, three requests | `FinalAddsUp`, `LiveLag`, `ExitBound`, `Ends` |

Runs in which TLC finds what the code does to differ from what a comment, a test
or the README says (the findings in `PROJECT.json` quote the lines):

| Run | Property | Statement that does not hold |
|---|---|---|
| `limiter_main_age` | `RateBound` | the rate limit as `main` configures it: `CleanupAge` is left 0 and sweeps forget empty buckets |
| `handler_timeout` | `TimeoutIsReported` | a timeout in CHALLENGING is reported: the wrapped error is not recognised |
| `difficulty_use` | `ChallengesUseCurrent` | challenges follow the dynamic difficulty: they use the configured one |
| `main_drain` | `DrainsBeforeExit` | connections are drained before termination: `main` does not wait for `Start` |

Two more statements hold only in part. `MaxBuckets` is called a maximum, but a
shard with nothing to evict adds a bucket anyway; `BucketCountBound` is what
holds. Waiting for the accept loop prevents wg.Add beside wg.Wait
(`NoAddDuringWait`) provided that Shutdown does not come before Start has
registered the loop; `Server` assumes this, as all the tests do.

**Bounds.** `pool` has one slot (MaxConnections 0 covers NewPool's default) and
four callers, so three senders can be parked, and the order of hand-off and the
removal from the middle of the queue show. The limiter has two shards, one with
two IPs where eviction has a choice. `MaxTime` stops the clock and `MaxGrants`
stops the observed IP within a window; both are large enough for a bucket to be
emptied, swept, made anew and emptied again. The handler's timeouts are 1 to 3
ticks, MaxAttempts is 3, and message ages cover both sides of both limits of
`validateTimestamp`. The client's timeout (5) lets it outlive the server's
deadline or be cut off by its own; a solver of three turns with an interval of
two passes a check of ctx and a report; the digests are the two on either side
of 20 bits (`MCSession` compares the bit test with the number for every number
of bits up to 23, `BitTest` for all). Two connections on one slot give a
holder and one that is refused or follows it. The environments hold one value at
each limit that `Validate` checks. A byte has three values and a message at most
five bytes, so the length field needs both of its bytes, and two messages fit
into a stream with the largest and the smallest payload; seven raw bytes hold two
headers and a truncated third. Two workers and three requests let one worker end
while the other is anywhere in a request. `MaxQueued`, `MaxStream` and
`MaxRequests` are bounds of the models; no theorem depends on a bound.
Deadlock is not checked where the system ends by itself: a handler returns, a
server stops, a process or a tool exits, a reader returns.

**Fairness.** A goroutine that can run does (the Go scheduler). Deadlines and
tickers fire. Pool: a holder releases, because `handleConnection` defers it.
Limiter: strong fairness for the cleanup's lock, because `sync.Mutex` hands
itself to a waiter that starves. Session: both ends run, and time passes while
both are blocked; nothing is assumed of a peer that is not the client. Server:
every handler returns, which is `SessionEnds`. Difficulty: strong fairness for
the return from the select, because Go chooses among ready cases at random.
Framing: the writing side closes in the end, as `main` and the handlers do.

What the results say in terms of the defaults: a connection lasts at most
IdleTimeout + ChallengeTimeout + 2 WriteTimeout, 85 s (`TimeBounds`), and a
cancelled handler may stay for ChallengeTimeout + WriteTimeout, which is longer
than GracefulTimeout. `OwnChallengeNeverExpires`, and with it `ClientErrors` and
`QuoteForSolver`, need WriteTimeout < ClockSkew (10 s and 30 s).

## 4. The proofs

All are checked by TLAPS, for every value of the constants that satisfies the
named assumptions, which say that sets are finite, numbers are numbers and
durations are not negative; `FramingAssumption` adds that MaxMessageSize fits
the length field, `HandlerAssumption` that the handler's timeouts are
positive, which `ServesUsable` shows of `main`'s settings, and
`SessionAssumption` that a digest has at least Difficulty bits.

**PoolProofs.** `PoolTypes`, `SlotsExact`, `ActiveBounded`, `WaitingCounted`,
`NoLostWakeup`, `FirstComeFirstServed` from `Spec`, and `ActiveExact` from
`StraySpec`. `WaitsForHolders`: a parked caller waits for callers that can go on
to their Release, never for parked ones alone. The invariant `PoolInv` adds to the properties that the send queue
holds exactly the parked callers, each once, and only while the channel is full.
Without it a hand-off could wake a caller that is elsewhere and the counts would
drift. Each counter is the number of callers in a set of positions; `Move` says
how one caller's step changes such a number, and `CountStep` applies it to each
action. `StrayInv` is the part that survives stray Releases.

**RateLimiterProofs.** `LimiterTypes`, `CountExact`, `CountBounded`.
`LimiterInv` adds that an Allow past its miss holds its own shard's mutex and its
IP still has no bucket (`Misses`), so a creation adds one. `BucketCountBound` is
not inductive. `Room` is: a shard is open when its check is behind it or it has
nothing to evict, an open shard may add one bucket, and bucketCount plus the
number of open shards is at most MaxBuckets + shardCount - 1.

Its second part assumes `LongEnough` (no limit on the buckets, and
CleanupAge * Rate covers a whole bucket) and proves `RateBounded` and
`LimiterImplementsTokenBucket`: each step of the limiter is a step of
`TokenBucket` or a stutter. The cleanup of a bucket is a stutter because a stale
bucket has refilled. `Covered` (what was paid out and what is left is covered by
the burst and the refill) makes the rate bound inductive. Both conditions are
needed: `limiter_main_age` shows what happens without the second.

**SessionProofs**, in three parts.

*The handler*, towards any client: `RepliesInOrder`, `RepliesMatchReads`,
`CountersMatchReplies`, `OwnChallengeInTime` and `ConnectionTimeBounded`, from
`Spec` of `Handler`. None of the five is inductive. `HInv` ties them together:
`Order` says which reply may be on its way in which state, `Counters` that an
INVALID_SOLUTION still to be written has been counted as an attempt below the
limit and that there is at most one reply more than attempts, `Times` that the
deadline was set no later than one write after the idle time and is not moved
again, and `Issued` that it lies within WriteTimeout + ChallengeTimeout of the
challenge's own time.

*The search*: `BitTest`, that `hasLeadingZeros` with its bytes and mask is the
comparison of the first n bits with zero, for every n and every digest that has n
bits; and
`SolverFinds` (`SolverCorrect`). `SInv` has `Digests` (none of those passed over
has the bits) and `Calls`, and `Lateness`: `CancelNoticed` bounds the digests
computed after ctx is done, and is inductive only together with a position b at
which ctx was looked at and not done (`Looked`), a multiple of the interval and
less than an interval back.

*Both ends*, from `SessionSpec`: `EndsAgree` (`ClientErrors`) and `SolversServed`
(`QuoteForSolver`). What the client ends with depends on the whole dialogue, so
`Dialogue` gives, for each place in the client's `run`, what can be on the wire
and where the server then is: before the request is read (`Unasked`), between
request and solution (`Asked`, `Waits`) and after the solution is read
(`Answered`). Two facts about time make it inductive: while the client solves, a
handler that has returned had a reason (a fault, a cancellation or its deadline),
and a solution is read in the second in which it is sent. `ClientSide` relates
the client to its solver. `HandlerSteps` shows that every step of a session is a
step of `Handler`, or the clock going on after the handler has returned
(`DoneTick`), which `HInv` survives: `HandlerInSession` states the handler's five
properties for a session.

**ServerProofs.** `CountersAlwaysBalance`, `DrainedIsEmpty`,
`NoRaceOnWaitGroup`, `ShutdownIsFinal`, `ServerUsesPool`. In `SInv`, `Counts`
expresses `wg`, the pool's two counts and the statistics as the number of
connections in some stretch of `handleConnection`; `Life` orders `Start`, the
accept loop and `shutdown`: the goroutine that waits on `wg` exists only when the
accept loop has returned, so nothing can be added, and `wg` = 0 stays
(`WaiterSawZero`). `ServerUsesPool` maps each step to a step of `Pool` or a
stutter; that no more than MaxConnections slots are in use, a part of
`CountersBalance`, comes from the pool through this mapping (`SlotsBounded`).
`WaitsForGoroutines`: each `Wait` of `shutdown` sleeps exactly while a goroutine
has its `Done` ahead of it.

**MainProofs.** `MainRunsServer` shows that `main` cannot make the server do
what `Server` does not allow; `ProcessKeeps` draws the conclusion, the server's
five properties in the process.
`MainServesUsable` follows `main` through `MInv`: past "validate" the settings
have been accepted, and `ValidIsUsable` shows what that implies.

**DifficultyProofs.** `DifficultyInLimits`, `StopChanClosedOnce`. `DInv` adds
that at most one caller of Stop has won the CompareAndSwap and not yet closed the
channel.

**FramingProofs.** `LengthsAreChecked`, `EOFIsClean`, `EveryByteAccounted`
(`Accounted`) and `DecodersMatch` (`DecodersAgree`). `FInv` says
where in the stream each written message begins (`Layout`: some function e, with
every byte of message i in its place after e[i], and at the end at most a part
of a message whose Write failed) and that the reader stands at one of these
places (`Reader`). Position by position, it needs no induction over the
sequence of messages. `EncodeBytes` and `TwoBytes` show that the length field
holds its number.

That holds of a writer that calls `WriteMessage`; the other two theorems are about
any bytes. `StreamInvariant` adds three parts. `Whole`: the bytes consumed are
the encodings of the messages returned. The concatenation is a recursive
function, so the invariant speaks of every f that satisfies its equations
(`IsStream`) and says that there is one; a message returned extends f by one
value, which replaces the induction. `First`: the first message stands at the
start of the stream. `Ended`: what stands after the last message when
`ReadMessage` returned an error. From the two, `UnmarshalMessage` on the whole
stream has the same verdict.

**LoadTestProofs.** `FinalStatsAddUp`, `LiveLineLags`, `ToolExitsInTime`, and
`MainWaitsForWorkers` for the tool's own `Wait`. In
`LInv` each counter is behind another by the number of workers at some point of
`doRequest`, and the line being put together is behind by at most `workers`.
`Clock` bounds the deadlines of the requests by the moment they began; time
passes only while main sleeps or a request it waits for is within its deadline.

**Only model-checked.** Liveness, which needs fairness and ENABLED:
`BlockingReturns`, `StaleRemoved`, `SessionEnds`, `CancelStops`,
`SignalOrErrorExits`, `UpdateLoopReturns`, `LoadIsFollowed`, `ReaderReturns` and
`Ends`. What the provers reach of these is their core: whoever waits, waits for
somebody who can go on (`WaitsForHolders`, `WaitsForGoroutines`,
`MainWaitsForWorkers`), and for how long (`ConnectionTimeBounded`,
`ToolExitsInTime`). Every invariant and every action property of the runs that pass is stated
by a theorem.

## 5. Not modelled, and why

- SHA-256, HMAC and the byte layout of a challenge and a solution: a message
  carries the verdicts of the checks, a digest is any value.
- A second `Start` on the same server: the address is taken, `Listen` fails.
- `accepting` (written, never read), getters, rates and averages of the printed
  statistics.
- `handleAuthorized` and the default of `processMessage`: `OneReplyEach` shows
  that they are never reached.
- Clock changes: time only goes forward. Nothing is persisted, so a crash leaves
  nothing to recover from.
- The quote store (immutable after construction), logging (output only), the
  exposition of metrics (the Prometheus library) and flag parsing.
- `MustLoad` and `LoadFromFile`, which only tests call; float values of
  RATE_LIMIT_RPS that are not whole numbers.

Met while modelling, and not the subject of a run: `Validate` relates the
difficulties to one another but to no fixed range, and `main` converts them with
`uint8`, so a value above 255 wraps around; `ClockSkewTolerance` and
`MaxAttemptsPerIP` are not validated (an attempt limit below 1 acts as 1);
`main` gives the quote store no file, so the built-in default is all that is
served; an error of the metrics server after its first 100 ms is not noticed; the
server never calls the counters of connections and of rate limiting that the
README lists; a client that is refused may see a reset instead of the error
code, because the server closes with unread data; in the load test's live line
successes and failures may add up to more than the total, and the mean solve time
includes requests that failed afterwards.
