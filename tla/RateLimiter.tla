----------------------------- MODULE RateLimiter ------------------------------
(***************************************************************************)
(* The rate limiter of internal/ratelimit/limiter.go: token buckets in a   *)
(* sharded map, one mutex per shard, an atomic count of all the buckets,   *)
(* and a cleanup goroutine.                                                *)
(*                                                                         *)
(* A shard's mutex serialises everything that touches its map, so what an  *)
(* Allow or a cleanup does inside one shard is split only where another    *)
(* shard can see it: at the accesses to bucketCount.  locked[s] says who   *)
(* holds the mutex of shard s and how far it is.                           *)
(*                                                                         *)
(* Tokens are counted in units of 1/Unit token, time in ticks (module      *)
(* TokenBucket); the code uses float64 and time.Time.  getShard's hash is  *)
(* an arbitrary function ShardOf.                                          *)
(***************************************************************************)
EXTENDS Integers, FiniteSets

CONSTANTS IPs,
          ShardCount,   \* cfg.ShardCount
          ShardOf,      \* getShard
          Rate, Burst, Unit,
          CleanupAge,   \* cfg.CleanupAge, in ticks
          MaxBuckets,   \* cfg.MaxBuckets, 0 = unlimited
          Watched,      \* the IP whose grants are observed
          MaxTime,      \* bound: the clock stops here
          MaxGrants     \* bound: Watched asks no more until a new window

shardCount == IF ShardCount <= 0 THEN 16 ELSE ShardCount
Shards == 0 .. shardCount - 1
Cap == Burst * Unit

ASSUME LimiterAssumption ==
  /\ IsFiniteSet(IPs) /\ Watched \in IPs
  /\ ShardCount \in Int /\ ShardOf \in [IPs -> Shards]
  /\ Rate \in Nat /\ Burst \in Nat /\ Unit \in Nat \ {0}
  /\ CleanupAge \in Nat /\ MaxBuckets \in Nat
  /\ MaxTime \in Nat /\ MaxGrants \in Nat

VARIABLES tracked,       \* the keys of all the shards' maps
          tokens,        \* b.tokens in units, 0 for an untracked IP
          lastSeen,      \* b.lastSeen, 0 for an untracked IP
          bucketCount,
          locked,        \* per shard: who holds the mutex
          sweep,         \* the cleanup goroutine
          closed,        \* stopChan is closed
          clock,
          since, granted \* the observed window, see TokenBucket

vars == <<tracked, tokens, lastSeen, bucketCount, locked, sweep, closed,
          clock, since, granted>>
mapVars == <<tracked, tokens, lastSeen>>
observed == <<clock, since, granted>>

Least(a, b) == IF a <= b THEN a ELSE b

Unlocked == [by |-> "none", ip |-> Watched, now |-> 0]
ByCleanup == [by |-> "cleanup", ip |-> Watched, now |-> 0]

\* An Allow that found no bucket for ip: it will first evict, or go straight
\* on to create the bucket.
Evicting(ip, now) == [by |-> "evict", ip |-> ip, now |-> now]
Creating(ip, now) == [by |-> "create", ip |-> ip, now |-> now]

\* The cleanup goroutine: waiting in its select, at shard number next of a
\* sweep that began at now, or returned.
Waiting == [pc |-> "select", now |-> 0, next |-> 0]
Sweeping(now, next) == [pc |-> "sweep", now |-> now, next |-> next]
Returned == [pc |-> "returned", now |-> 0, next |-> 0]

InShard(s) == {ip \in tracked : ShardOf[ip] = s}

Init ==
  /\ tracked = {}
  /\ tokens = [ip \in IPs |-> 0]
  /\ lastSeen = [ip \in IPs |-> 0]
  /\ bucketCount = 0
  /\ locked = [s \in Shards |-> Unlocked]
  /\ sweep = Waiting
  /\ closed = FALSE
  /\ clock = 0
  /\ since = 0
  /\ granted = 0

\* The tail of Allow, from the refill on: the request that read the clock at
\* now finds have units in ip's bucket, last touched at seen.
Refilled(have, seen, now) == Least(Cap, have + (now - seen) * Rate)

\* Mutant: only a refused request updates lastSeen, so the next one is paid
\* for the same time again.
Decide_SeenOnRefusal(ip, have, seen, now) ==
  LET t == Refilled(have, seen, now) IN
  /\ tokens' = [tokens EXCEPT ![ip] = IF t >= Unit THEN t - Unit ELSE t]
  /\ lastSeen' = [lastSeen EXCEPT ![ip] = IF t >= Unit THEN seen ELSE now]
  /\ granted' = granted + (IF t >= Unit /\ ip = Watched THEN 1 ELSE 0)

Decide(ip, have, seen, now) ==
  LET t == Refilled(have, seen, now) IN
  /\ tokens' = [tokens EXCEPT ![ip] = IF t >= Unit THEN t - Unit ELSE t]
  /\ lastSeen' = [lastSeen EXCEPT ![ip] = now]
  /\ granted' = granted + (IF t >= Unit /\ ip = Watched THEN 1 ELSE 0)

Asks(ip) == ip = Watched => granted < MaxGrants

\* Allow for an IP that has a bucket.
AllowHit(ip) ==
  /\ Asks(ip)
  /\ locked[ShardOf[ip]] = Unlocked
  /\ ip \in tracked
  /\ Decide(ip, tokens[ip], lastSeen[ip], clock)
  /\ UNCHANGED <<tracked, bucketCount, locked, sweep, closed, clock, since>>

\* Mutant: the limit is one bucket higher.
AllowMiss_OffByOne(ip) ==
  /\ Asks(ip)
  /\ locked[ShardOf[ip]] = Unlocked
  /\ ip \notin tracked
  /\ locked' = [locked EXCEPT ![ShardOf[ip]] =
                  IF MaxBuckets > 0 /\ bucketCount > MaxBuckets
                  THEN Evicting(ip, clock) ELSE Creating(ip, clock)]
  /\ UNCHANGED <<mapVars, bucketCount, sweep, closed, observed>>

\* Allow for an IP without one: lock, read the clock, miss, load bucketCount.
AllowMiss(ip) ==
  /\ Asks(ip)
  /\ locked[ShardOf[ip]] = Unlocked
  /\ ip \notin tracked
  /\ locked' = [locked EXCEPT ![ShardOf[ip]] =
                  IF MaxBuckets > 0 /\ bucketCount >= MaxBuckets
                  THEN Evicting(ip, clock) ELSE Creating(ip, clock)]
  /\ UNCHANGED <<mapVars, bucketCount, sweep, closed, observed>>

\* The buckets that the map iteration may leave in oldestIP: those with the
\* least lastSeen (the order of the iteration picks one).
Oldest(s) == {ip \in InShard(s) :
                \A other \in InShard(s) : lastSeen[ip] <= lastSeen[other]}

\* Mutant: the bucket goes, the count stays.
Delete_KeepsCount(ip) ==
  /\ tracked' = tracked \ {ip}
  /\ tokens' = [tokens EXCEPT ![ip] = 0]
  /\ lastSeen' = [lastSeen EXCEPT ![ip] = 0]
  /\ bucketCount' = bucketCount

Delete(ip) ==
  /\ tracked' = tracked \ {ip}
  /\ tokens' = [tokens EXCEPT ![ip] = 0]
  /\ lastSeen' = [lastSeen EXCEPT ![ip] = 0]
  /\ bucketCount' = bucketCount - 1

EvictOldestFromShard(s) ==
  /\ locked[s].by = "evict"
  /\ \/ \E ip \in Oldest(s) : Delete(ip)
     \/ InShard(s) = {} /\ UNCHANGED <<mapVars, bucketCount>>
  /\ locked' = [locked EXCEPT ![s] = Creating(@.ip, @.now)]
  /\ UNCHANGED <<sweep, closed, observed>>

\* The rest of Allow after a miss: a full bucket, counted, then the tail.
AllowCreate(s) ==
  LET ip == locked[s].ip
      now == locked[s].now
  IN
  /\ locked[s].by = "create"
  /\ tracked' = tracked \cup {ip}
  /\ bucketCount' = bucketCount + 1
  /\ Decide(ip, Cap, now, now)
  /\ locked' = [locked EXCEPT ![s] = Unlocked]
  /\ UNCHANGED <<sweep, closed, clock, since>>

(***************************************************************************)
(* The cleanup goroutine.  Its ticker may fire at any time, so the results *)
(* hold for every CleanupInterval.  When the ticker and stopChan are both  *)
(* ready the select takes either.                                          *)
(***************************************************************************)
CleanupTick ==
  /\ sweep = Waiting
  /\ sweep' = Sweeping(clock, 0)
  /\ UNCHANGED <<mapVars, bucketCount, locked, closed, observed>>

CleanupLock ==
  /\ sweep.pc = "sweep"
  /\ locked[sweep.next] = Unlocked
  /\ locked' = [locked EXCEPT ![sweep.next] = ByCleanup]
  /\ UNCHANGED <<mapVars, bucketCount, sweep, closed, observed>>

\* Mutant: any idle bucket is stale.
Stale_AnyIdle(ip) == sweep.now - lastSeen[ip] > 0

Stale(ip) == sweep.now - lastSeen[ip] > CleanupAge

CleanupDelete ==
  /\ sweep.pc = "sweep"
  /\ locked[sweep.next] = ByCleanup
  /\ \E ip \in InShard(sweep.next) : Stale(ip) /\ Delete(ip)
  /\ UNCHANGED <<locked, sweep, closed, observed>>

\* Mutant: the sweep ends with the first shard.
CleanupUnlock_FirstOnly ==
  /\ sweep.pc = "sweep"
  /\ locked[sweep.next] = ByCleanup
  /\ \A ip \in InShard(sweep.next) : ~Stale(ip)
  /\ locked' = [locked EXCEPT ![sweep.next] = Unlocked]
  /\ sweep' = Waiting
  /\ UNCHANGED <<mapVars, bucketCount, closed, observed>>

CleanupUnlock ==
  /\ sweep.pc = "sweep"
  /\ locked[sweep.next] = ByCleanup
  /\ \A ip \in InShard(sweep.next) : ~Stale(ip)
  /\ locked' = [locked EXCEPT ![sweep.next] = Unlocked]
  /\ sweep' = IF sweep.next + 1 = shardCount
              THEN Waiting ELSE Sweeping(sweep.now, sweep.next + 1)
  /\ UNCHANGED <<mapVars, bucketCount, closed, observed>>

CleanupReturn ==
  /\ closed /\ sweep = Waiting
  /\ sweep' = Returned
  /\ UNCHANGED <<mapVars, bucketCount, locked, closed, observed>>

\* Close.  stopOnce makes the later calls do nothing.
Close ==
  /\ ~closed
  /\ closed' = TRUE
  /\ UNCHANGED <<mapVars, bucketCount, locked, sweep, observed>>

\* Time passes, at any point of any operation.
Tick ==
  /\ clock < MaxTime
  /\ clock' = clock + 1
  /\ UNCHANGED <<mapVars, bucketCount, locked, sweep, closed, since, granted>>

\* An Allow for ip is between its miss and the creation of the bucket.
Pending(ip) == /\ locked[ShardOf[ip]].by \in {"evict", "create"}
               /\ locked[ShardOf[ip]].ip = ip

\* The observer opens a new window, between two requests of Watched.
OpenWindow ==
  /\ ~Pending(Watched)
  /\ since' = clock
  /\ granted' = 0
  /\ UNCHANGED <<mapVars, bucketCount, locked, sweep, closed, clock>>

Next ==
  \/ \E ip \in IPs : AllowHit(ip) \/ AllowMiss(ip)
  \/ \E s \in Shards : EvictOldestFromShard(s) \/ AllowCreate(s)
  \/ CleanupTick \/ CleanupLock \/ CleanupDelete \/ CleanupUnlock
  \/ CleanupReturn \/ Close
  \/ Tick \/ OpenWindow

Spec == Init /\ [][Next]_vars

\* Goroutines that can run do, the ticker keeps firing, and sync.Mutex hands
\* itself to a waiter that would otherwise starve.
Fairness ==
  /\ \A s \in Shards : WF_vars(EvictOldestFromShard(s)) /\ WF_vars(AllowCreate(s))
  /\ WF_vars(CleanupTick) /\ SF_vars(CleanupLock)
  /\ WF_vars(CleanupDelete) /\ WF_vars(CleanupUnlock)

FairSpec == Spec /\ Fairness

-------------------------------------------------------------------------------
\* Type invariant.
TypeOK ==
  /\ tracked \in SUBSET IPs
  /\ tokens \in [IPs -> 0 .. Cap]
  /\ lastSeen \in [IPs -> Nat]
  /\ bucketCount \in Int
  /\ locked \in [Shards -> [by : {"none", "cleanup", "evict", "create"},
                            ip : IPs, now : Nat]]
  /\ sweep \in [pc : {"select", "sweep", "returned"}, now : Nat, next : Shards]
  /\ closed \in BOOLEAN
  /\ clock \in Nat /\ since \in Nat /\ granted \in Nat

\* bucketCount, which every shard updates without a common lock, is exactly
\* the number of buckets in the maps: creations, evictions and cleanups that
\* interleave never lose or repeat an update.
BucketCountExact == bucketCount = Cardinality(tracked)

\* The check "totalBuckets() >= maxBuckets" and the creation are not one
\* step, and a shard with nothing to evict creates anyway, so MaxBuckets is
\* not the "maximum number of buckets allowed" that its comment calls it.
\* Even so, the buckets never outnumber it by as much as the shards.
BucketCountBound ==
  MaxBuckets > 0 => bucketCount <= MaxBuckets + shardCount - 1

\* Over any window an IP is allowed at most Burst requests plus what refills
\* in that time.
RateBound == granted * Unit <= Cap + Rate * (clock - since)

\* The units an IP could draw on now: a pending creation has already been
\* decided, because the new bucket is full.
Level(ip) ==
  IF ip \in tracked THEN Refilled(tokens[ip], lastSeen[ip], clock)
  ELSE IF Pending(ip)
       THEN Refilled(IF Burst > 0 THEN Cap - Unit ELSE 0,
                     locked[ShardOf[ip]].now, clock)
       ELSE Cap

Promise == INSTANCE TokenBucket WITH
  level <- [ip \in IPs |-> Level(ip)],
  granted <- granted + (IF Pending(Watched) /\ Burst > 0 THEN 1 ELSE 0)

\* The sharded map with its cleanup implements a bucket per IP that is never
\* forgotten, when no bucket is evicted (MaxBuckets = 0) and CleanupAge is
\* long enough for an empty bucket to refill: deleting an idle bucket and
\* making it anew is then invisible.
ImplementsTokenBucket == Promise!Spec

\* The cleanup goroutine gets round to every bucket that is idle for longer
\* than CleanupAge, however busy the shards are, until Close.
StaleRemoved ==
  \A ip \in IPs :
    (ip \in tracked /\ clock - lastSeen[ip] > CleanupAge)
      ~> (ip \notin tracked \/ clock - lastSeen[ip] <= CleanupAge \/ closed)

===============================================================================
