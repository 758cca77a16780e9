-------------------------- MODULE RateLimiterProofs ---------------------------
(***************************************************************************)
(* Proofs about module RateLimiter, for every finite set of IPs, number of *)
(* shards, hash function, rate, burst and limit.                           *)
(***************************************************************************)
EXTENDS RateLimiter, FiniteSetTheorems, TLAPS

\* No time that the limiter remembers is in the future.
Times ==
  /\ \A ip \in IPs : lastSeen[ip] <= clock
  /\ \A s \in Shards : locked[s].now <= clock
  /\ sweep.now <= clock
  /\ since <= clock

\* An Allow that missed holds the mutex of its IP's shard, so the IP is still
\* without a bucket.
Misses ==
  \A s \in Shards : locked[s].by \in {"evict", "create"} =>
    ShardOf[locked[s].ip] = s /\ locked[s].ip \notin tracked

\* The shards that may still add a bucket without having seen bucketCount
\* below MaxBuckets: the check is behind them, or there is nothing to evict.
Open == {s \in Shards : locked[s].by = "create" \/ InShard(s) = {}}

\* Each open shard may add one bucket, and this much room is left for it.
Room ==
  MaxBuckets > 0 => bucketCount + Cardinality(Open) <= MaxBuckets + shardCount - 1

LimiterInv == TypeOK /\ Times /\ Misses /\ BucketCountExact

\* The constants' types.
LEMMA Constants ==
  /\ shardCount \in Nat \ {0} /\ Cap \in Nat
  /\ IsFiniteSet(Shards) /\ Cardinality(Shards) = shardCount
<1>1. shardCount \in Nat \ {0} /\ Cap \in Nat
  BY LimiterAssumption DEF shardCount, Cap
<1>2. IsFiniteSet(Shards) /\ Cardinality(Shards) = shardCount
  BY <1>1, FS_Interval DEF Shards
<1> QED
  BY <1>1, <1>2

\* A refill that starts from a bucket within its capacity stays within it.
LEMMA RefilledType ==
  ASSUME NEW have \in 0 .. Cap, NEW seen \in Nat, NEW now \in Nat, seen <= now
  PROVE  Refilled(have, seen, now) \in 0 .. Cap
<1>1. (now - seen) * Rate \in Nat
  <2>1. now - seen \in Nat
    OBVIOUS
  <2> QED
    BY <2>1, LimiterAssumption
<1> QED
  BY <1>1, Constants DEF Refilled, Least

\* The tail of Allow keeps the types of the bucket it updates.
LEMMA DecideTypes ==
  ASSUME TypeOK, NEW ip \in IPs, NEW have \in 0 .. Cap, NEW seen \in Nat, NEW now \in Nat,
         seen <= now, Decide(ip, have, seen, now)
  PROVE  /\ tokens' \in [IPs -> 0 .. Cap] /\ lastSeen' \in [IPs -> Nat] /\ granted' \in Nat
         /\ \A j \in IPs : lastSeen'[j] = IF j = ip THEN now ELSE lastSeen[j]
<1> DEFINE t == Refilled(have, seen, now)
<1>1. t \in 0 .. Cap
  BY RefilledType
<1>2. (IF t >= Unit THEN t - Unit ELSE t) \in 0 .. Cap
  BY <1>1, Constants, LimiterAssumption
<1> HIDE DEF t
<1>3. /\ tokens' = [tokens EXCEPT ![ip] = IF t >= Unit THEN t - Unit ELSE t]
      /\ lastSeen' = [lastSeen EXCEPT ![ip] = now]
      /\ granted' = granted + (IF t >= Unit /\ ip = Watched THEN 1 ELSE 0)
  BY DEF Decide, t
<1> QED
  BY <1>2, <1>3 DEF TypeOK

\* Deleting a tracked bucket, or tracking a new one, moves the number of
\* tracked IPs by one.
LEMMA TrackedCard ==
  ASSUME TypeOK
  PROVE  /\ Cardinality(tracked) \in Nat
         /\ \A ip \in tracked : Cardinality(tracked \ {ip}) = Cardinality(tracked) - 1
         /\ \A ip \in IPs \ tracked : Cardinality(tracked \cup {ip}) = Cardinality(tracked) + 1
<1>1. IsFiniteSet(tracked)
  BY LimiterAssumption, FS_Subset DEF TypeOK
<1> QED
  BY <1>1, FS_CardinalityType, FS_RemoveElement, FS_AddElement

\* A new limiter, with empty maps and a zero count, satisfies the invariant.
LEMMA LimiterInit == Init => LimiterInv /\ Room
<1> SUFFICES ASSUME Init
             PROVE  LimiterInv /\ Room
  OBVIOUS
<1> USE LimiterAssumption, Constants DEF Init
<1>1. 0 \in Shards
  BY DEF Shards
<1>2. TypeOK
  <2>1. /\ Unlocked \in [by : {"none", "cleanup", "evict", "create"}, ip : IPs, now : Nat]
        /\ Waiting \in [pc : {"select", "sweep", "returned"}, now : Nat, next : Shards]
    BY <1>1 DEF Unlocked, Waiting
  <2>2. tokens \in [IPs -> 0 .. Cap] /\ lastSeen \in [IPs -> Nat]
    OBVIOUS
  <2>3. locked \in [Shards -> [by : {"none", "cleanup", "evict", "create"}, ip : IPs, now : Nat]]
    BY <2>1
  <2>4. sweep \in [pc : {"select", "sweep", "returned"}, now : Nat, next : Shards]
    BY <2>1
  <2>5. bucketCount \in Int /\ clock \in Nat /\ since \in Nat /\ granted \in Nat
    OBVIOUS
  <2>6. tracked \in SUBSET IPs /\ closed \in BOOLEAN
    BY ONLY Init, Zenon DEF Init
  <2> QED
    BY ONLY <2>2, <2>3, <2>4, <2>5, <2>6 DEF TypeOK
<1>3. Times /\ Misses
  BY DEF Times, Misses, Unlocked, Waiting
<1>4. BucketCountExact
  BY FS_EmptySet DEF BucketCountExact
<1>5. Room
  <2>1. Open = Shards
    BY DEF Open, InShard
  <2> QED
    BY <2>1 DEF Room
<1> QED
  BY <1>2, <1>3, <1>4, <1>5 DEF LimiterInv

\* Each action keeps the invariant.
LEMMA LimiterStep == LimiterInv /\ [Next]_vars => LimiterInv'
<1> SUFFICES ASSUME LimiterInv, [Next]_vars
             PROVE  LimiterInv'
  OBVIOUS
<1> USE LimiterAssumption, Constants DEF LimiterInv
<1>1. ASSUME NEW ip \in IPs, AllowHit(ip)
      PROVE  LimiterInv'
  <2> USE <1>1 DEF AllowHit
  <2>1. tokens[ip] \in 0 .. Cap /\ lastSeen[ip] \in Nat /\ lastSeen[ip] <= clock /\ clock \in Nat
    BY DEF TypeOK, Times
  <2>2. /\ tokens' \in [IPs -> 0 .. Cap] /\ lastSeen' \in [IPs -> Nat] /\ granted' \in Nat
        /\ \A j \in IPs : lastSeen'[j] = IF j = ip THEN clock ELSE lastSeen[j]
    BY <2>1, DecideTypes
  <2>3. TypeOK'
    BY <2>2 DEF TypeOK
  <2>4. Times'
    BY <2>1, <2>2 DEF Times
  <2>5. Misses' /\ BucketCountExact'
    BY DEF Misses, BucketCountExact
  <2> QED
    BY <2>3, <2>4, <2>5
<1>2. ASSUME NEW ip \in IPs, AllowMiss(ip)
      PROVE  LimiterInv'
  <2> USE <1>2 DEF AllowMiss, mapVars, observed
  <2>1. ShardOf[ip] \in Shards
    OBVIOUS
  <2>2. PICK b \in {"evict", "create"} :
          locked' = [locked EXCEPT ![ShardOf[ip]] = [by |-> b, ip |-> ip, now |-> clock]]
    BY Zenon DEF Evicting, Creating
  <2>3. TypeOK'
    BY <2>1, <2>2 DEF TypeOK
  <2>4. Times'
    BY <2>1, <2>2 DEF Times, TypeOK
  <2>5. Misses'
    BY <2>1, <2>2 DEF Misses, TypeOK
  <2> QED
    BY <2>3, <2>4, <2>5 DEF BucketCountExact
<1>3. ASSUME NEW s \in Shards, EvictOldestFromShard(s)
      PROVE  LimiterInv'
  <2> USE <1>3 DEF EvictOldestFromShard, observed
  <2>1. /\ locked' = [locked EXCEPT ![s] = [by |-> "create", ip |-> locked[s].ip, now |-> locked[s].now]]
        /\ locked[s].by = "evict"
    BY DEF Creating
  <2>2. CASE \E ip \in Oldest(s) : Delete(ip)
    <3>1. PICK ip \in tracked : Delete(ip)
      BY <2>2 DEF Oldest, InShard
    <3>2. TypeOK'
      BY <2>1, <3>1 DEF Delete, TypeOK
    <3>3. Times'
      BY <2>1, <3>1 DEF Delete, TypeOK, Times
    <3>4. Misses'
      BY <2>1, <3>1 DEF Delete, TypeOK, Misses
    <3>5. BucketCountExact'
      BY <3>1, TrackedCard DEF Delete, BucketCountExact
    <3> QED
      BY <3>2, <3>3, <3>4, <3>5
  <2>3. CASE UNCHANGED <<mapVars, bucketCount>>
    <3>1. TypeOK'
      BY <2>1, <2>3 DEF TypeOK, mapVars
    <3>2. Times' /\ Misses' /\ BucketCountExact'
      BY <2>1, <2>3 DEF TypeOK, Times, Misses, BucketCountExact, mapVars
    <3> QED
      BY <3>1, <3>2
  <2> QED
    BY <2>2, <2>3
<1>4. ASSUME NEW s \in Shards, AllowCreate(s)
      PROVE  LimiterInv'
  <2> DEFINE ip == locked[s].ip
             now == locked[s].now
  <2>1. /\ ip \in IPs /\ now \in Nat /\ now <= clock
        /\ ip \notin tracked /\ ShardOf[ip] = s /\ Cap \in 0 .. Cap
    BY <1>4 DEF AllowCreate, TypeOK, Times, Misses
  <2>2. /\ tracked' = tracked \cup {ip} /\ bucketCount' = bucketCount + 1
        /\ Decide(ip, Cap, now, now)
        /\ locked' = [locked EXCEPT ![s] = Unlocked]
        /\ UNCHANGED <<sweep, closed, clock, since>>
    BY <1>4 DEF AllowCreate
  <2> HIDE DEF ip, now
  <2>3. /\ tokens' \in [IPs -> 0 .. Cap] /\ lastSeen' \in [IPs -> Nat] /\ granted' \in Nat
        /\ \A j \in IPs : lastSeen'[j] = IF j = ip THEN now ELSE lastSeen[j]
    BY <2>1, <2>2, DecideTypes
  <2>4. TypeOK'
    BY <2>1, <2>2, <2>3 DEF TypeOK, Unlocked
  <2>5. Times'
    <3>1. \A j \in IPs : lastSeen'[j] <= clock'
      BY <2>1, <2>2, <2>3 DEF Times
    <3>2. \A r \in Shards : locked'[r].now <= clock'
      BY <2>2 DEF TypeOK, Times, Unlocked
    <3> QED
      BY <2>2, <3>1, <3>2 DEF Times
  <2>6. Misses'
    BY <2>1, <2>2 DEF TypeOK, Misses, Unlocked
  <2>7. BucketCountExact'
    BY <2>1, <2>2, TrackedCard DEF BucketCountExact
  <2> QED
    BY <2>4, <2>5, <2>6, <2>7
<1>5. CASE CleanupTick \/ CleanupReturn \/ Close
  <2>1. UNCHANGED <<mapVars, bucketCount, locked, observed>>
    BY <1>5 DEF CleanupTick, CleanupReturn, Close, mapVars, observed
  <2>2. /\ sweep' \in [pc : {"select", "sweep", "returned"}, now : Nat, next : Shards]
        /\ sweep'.now <= clock /\ closed' \in BOOLEAN
    <3>1. 0 \in Shards /\ clock \in Nat /\ sweep.now <= clock
      BY DEF Shards, TypeOK, Times
    <3>2. CASE CleanupTick
      BY <3>1, <3>2 DEF CleanupTick, Sweeping, TypeOK
    <3>3. CASE CleanupReturn
      BY <3>1, <3>3 DEF CleanupReturn, Returned, TypeOK
    <3>4. CASE Close
      BY <3>1, <3>4 DEF Close, TypeOK
    <3> QED
      BY <1>5, <3>2, <3>3, <3>4
  <2> QED
    BY <2>1, <2>2 DEF mapVars, observed, TypeOK, Times, Misses, BucketCountExact
<1>6. CASE CleanupLock
  <2> USE <1>6 DEF CleanupLock, mapVars, observed, ByCleanup
  <2>1. sweep.next \in Shards
    BY DEF TypeOK
  <2>2. TypeOK'
    BY <2>1 DEF TypeOK
  <2>3. Times' /\ Misses' /\ BucketCountExact'
    BY <2>1 DEF TypeOK, Times, Misses, BucketCountExact
  <2> QED
    BY <2>2, <2>3
<1>7. CASE CleanupDelete
  <2>1. PICK ip \in tracked : Delete(ip)
    BY <1>7 DEF CleanupDelete, InShard
  <2>2. UNCHANGED <<locked, sweep, closed, clock, since, granted>>
    BY <1>7 DEF CleanupDelete, observed
  <2>3. TypeOK'
    BY <2>1, <2>2 DEF Delete, TypeOK
  <2>4. Times'
    BY <2>1, <2>2 DEF Delete, TypeOK, Times
  <2>5. Misses'
    BY <2>1, <2>2 DEF Delete, TypeOK, Misses
  <2>6. BucketCountExact'
    BY <2>1, <2>2, TrackedCard DEF Delete, BucketCountExact
  <2> QED
    BY <2>3, <2>4, <2>5, <2>6
<1>8. CASE CleanupUnlock
  <2>0. sweep.next \in Shards
    BY DEF TypeOK
  <2>1. sweep.next \in Shards /\ 0 \in Shards /\ (sweep.next + 1 # shardCount => sweep.next + 1 \in Shards)
    BY <2>0 DEF Shards
  <2> USE <1>8 DEF CleanupUnlock, mapVars, observed, Unlocked, Waiting, Sweeping
  <2>2. TypeOK'
    BY <2>1 DEF TypeOK
  <2>3. Times' /\ Misses' /\ BucketCountExact'
    BY <2>1 DEF TypeOK, Times, Misses, BucketCountExact
  <2> QED
    BY <2>2, <2>3
<1>9. CASE Tick \/ OpenWindow
  BY <1>9 DEF Tick, OpenWindow, mapVars, TypeOK, Times, Misses, BucketCountExact
<1>10. CASE UNCHANGED vars
  BY <1>10 DEF vars, TypeOK, Times, Misses, BucketCountExact
<1> QED
  BY <1>1, <1>2, <1>3, <1>4, <1>5, <1>6, <1>7, <1>8, <1>9, <1>10 DEF Next

\* One more element, at most one more in number.
LEMMA OneMore ==
  ASSUME NEW S, IsFiniteSet(S), NEW x, NEW T \in SUBSET (S \cup {x})
  PROVE  Cardinality(T) <= Cardinality(S) + 1
<1>1. IsFiniteSet(S \cup {x}) /\ Cardinality(S) \in Nat
  BY FS_AddElement, FS_CardinalityType
<1>2. IsFiniteSet(T) /\ Cardinality(T) <= Cardinality(S \cup {x})
  BY <1>1, FS_Subset
<1>3. Cardinality(T) \in Nat
  BY <1>2, FS_CardinalityType
<1>4. CASE x \in S
  <2>1. Cardinality(S \cup {x}) = Cardinality(S)
    BY <1>4, FS_AddElement
  <2> QED
    BY <1>1, <1>2, <1>3, <2>1
<1>5. CASE x \notin S
  <2>1. Cardinality(S \cup {x}) = Cardinality(S) + 1
    BY <1>5, FS_AddElement
  <2> QED
    BY <1>2, <2>1
<1> QED
  BY <1>4, <1>5

\* How one step changes the open shards.
LEMMA OpenStep ==
  ASSUME LimiterInv, Next, MaxBuckets > 0
  PROVE  Room => Room'
<1> USE LimiterAssumption, Constants DEF LimiterInv
<1>1. IsFiniteSet(Open) /\ Cardinality(Open) \in Nat /\ bucketCount \in Int
  BY FS_Subset, FS_CardinalityType, Zenon DEF Open, TypeOK
<1>2. Cardinality(Open') \in Nat /\ Cardinality(Open') <= shardCount
  <2>1. Open' \in SUBSET Shards
    BY DEF Open
  <2> QED
    BY <2>1, FS_Subset, FS_CardinalityType
<1>3. ASSUME UNCHANGED <<tracked, bucketCount>>,
             \A s \in Shards : locked'[s].by = "create" <=> locked[s].by = "create"
      PROVE  Room => Room'
  <2>1. Open' = Open
    BY <1>3 DEF Open, InShard
  <2> QED
    BY <1>3, <2>1 DEF Room
<1>4. ASSUME NEW ip \in IPs, AllowMiss(ip)
      PROVE  Room => Room'
  <2> USE <1>4 DEF AllowMiss, mapVars
  <2>1. ShardOf[ip] \in Shards
    OBVIOUS
  <2>2. CASE bucketCount >= MaxBuckets
    BY <1>3, <2>1, <2>2 DEF Evicting, Unlocked, TypeOK
  <2>3. CASE bucketCount < MaxBuckets
    BY <1>1, <1>2, <2>3 DEF Room
  <2> QED
    BY <1>1, <2>2, <2>3
<1>5. ASSUME NEW s \in Shards, EvictOldestFromShard(s)
      PROVE  Room => Room'
  <2>1. /\ locked[s].by = "evict" /\ locked'[s].by = "create"
        /\ \A r \in Shards \ {s} : locked'[r] = locked[r]
    BY <1>5 DEF EvictOldestFromShard, Creating, TypeOK
  <2>2. CASE \E ip \in Oldest(s) : Delete(ip)
    <3>1. PICK ip \in InShard(s) : Delete(ip)
      BY <2>2 DEF Oldest
    <3>2. s \notin Open /\ Open' = Open \cup {s}
      BY <2>1, <3>1 DEF Open, InShard, Delete
    <3>3. Cardinality(Open') = Cardinality(Open) + 1 /\ bucketCount' = bucketCount - 1
      BY <1>1, <3>1, <3>2, FS_AddElement, Zenon DEF Delete
    <3> QED
      BY <1>1, <3>3 DEF Room
  <2>3. CASE InShard(s) = {} /\ UNCHANGED <<mapVars, bucketCount>>
    <3>1. Open' = Open
      BY <2>1, <2>3 DEF Open, InShard, mapVars
    <3> QED
      BY <2>3, <3>1 DEF Room
  <2> QED
    BY <1>5, <2>2, <2>3 DEF EvictOldestFromShard
<1>6. ASSUME NEW s \in Shards, AllowCreate(s)
      PROVE  Room => Room'
  <2>1. /\ locked[s].by = "create" /\ locked'[s].by = "none"
        /\ \A r \in Shards \ {s} : locked'[r] = locked[r]
    BY <1>6 DEF AllowCreate, Unlocked, TypeOK
  <2>2. PICK ip \in IPs : ShardOf[ip] = s /\ tracked' = tracked \cup {ip} /\ bucketCount' = bucketCount + 1
    BY <1>6, <2>1 DEF AllowCreate, Misses, TypeOK
  <2>3. s \in Open /\ Open' = Open \ {s}
    BY <2>1, <2>2 DEF Open, InShard
  <2>4. Cardinality(Open') = Cardinality(Open) - 1
    BY <1>1, <2>3, FS_RemoveElement, Zenon
  <2> QED
    BY <1>1, <2>2, <2>4 DEF Room
<1>7. CASE CleanupDelete
  <2> DEFINE s == sweep.next
  <2>1. PICK ip \in InShard(s) : Delete(ip) /\ locked[s] = ByCleanup /\ s \in Shards
    BY <1>7 DEF CleanupDelete, TypeOK
  <2>2. Open' \in SUBSET (Open \cup {s})
    BY <1>7, <2>1 DEF CleanupDelete, Open, InShard, Delete, ByCleanup
  <2>3. Cardinality(Open') <= Cardinality(Open) + 1
    BY <1>1, <2>2, OneMore, Zenon
  <2>4. bucketCount' = bucketCount - 1
    BY <2>1 DEF Delete
  <2> QED
    BY <1>1, <1>2, <2>3, <2>4 DEF Room
<1>8. CASE CleanupLock
  BY <1>3, <1>8 DEF CleanupLock, mapVars, ByCleanup, Unlocked, TypeOK
<1>9. CASE CleanupUnlock
  BY <1>3, <1>9 DEF CleanupUnlock, mapVars, ByCleanup, Unlocked, TypeOK
<1>10. CASE \/ \E ip \in IPs : AllowHit(ip)
            \/ CleanupTick \/ CleanupReturn \/ Close \/ Tick \/ OpenWindow
  BY <1>3, <1>10 DEF AllowHit, CleanupTick, CleanupReturn, Close, Tick, OpenWindow, mapVars
<1> QED
  BY <1>4, <1>5, <1>6, <1>7, <1>8, <1>9, <1>10 DEF Next

-------------------------------------------------------------------------------
\* The inductive invariant, with the room that the open shards leave.
LEMMA LimiterInvariant == Spec => [](LimiterInv /\ Room)
<1>1. LimiterInv /\ Room /\ [Next]_vars => Room'
  <2> SUFFICES ASSUME LimiterInv, Room, [Next]_vars
               PROVE  Room'
    OBVIOUS
  <2>1. CASE UNCHANGED vars
    <3>1. Open' = Open
      BY <2>1 DEF vars, Open, InShard
    <3> QED
      BY <2>1, <3>1 DEF vars, Room
  <2>2. CASE Next /\ MaxBuckets > 0
    BY <2>2, OpenStep
  <2>3. CASE ~(MaxBuckets > 0)
    BY <2>3 DEF Room
  <2> QED
    BY <2>1, <2>2, <2>3
<1> QED
  BY <1>1, LimiterInit, LimiterStep, PTL DEF Spec

\* The limiter's variables keep their types; in particular every bucket holds
\* between 0 and Burst tokens.
THEOREM LimiterTypes == Spec => []TypeOK
<1>1. LimiterInv => TypeOK
  BY DEF LimiterInv
<1> QED
  BY <1>1, LimiterInvariant, PTL

\* The atomic bucketCount is the number of buckets in the shards' maps.
THEOREM CountExact == Spec => []BucketCountExact
<1>1. LimiterInv => BucketCountExact
  BY DEF LimiterInv
<1> QED
  BY <1>1, LimiterInvariant, PTL

\* With a limit on the buckets, they outnumber it by less than the number of
\* shards, for every number of shards and every hash function.
THEOREM CountBounded == Spec => []BucketCountBound
<1>1. LimiterInv /\ Room => BucketCountBound
  <2> SUFFICES ASSUME LimiterInv, Room, MaxBuckets > 0
               PROVE  bucketCount <= MaxBuckets + shardCount - 1
    BY DEF BucketCountBound
  <2>1. IsFiniteSet(Open)
    BY Constants, FS_Subset DEF Open
  <2>2. Cardinality(Open) \in Nat /\ bucketCount \in Int
    BY <2>1, FS_CardinalityType DEF LimiterInv, TypeOK
  <2> QED
    BY <2>2, Constants, LimiterAssumption DEF Room
<1> QED
  BY <1>1, LimiterInvariant, PTL

(***************************************************************************)
(* The sharded limiter implements TokenBucket, a bucket per IP that is     *)
(* never forgotten, and so keeps every IP to its rate, provided that no    *)
(* bucket is evicted and that a bucket that the cleanup deletes would have *)
(* been full: CleanupAge is long enough to refill an empty bucket.         *)
(***************************************************************************)
\* The configurations the results are about.
LongEnough == MaxBuckets = 0 /\ CleanupAge * Rate >= Cap

\* Watched's requests allowed in the window, the decided ones included.
Decided == granted + (IF Pending(Watched) /\ Burst > 0 THEN 1 ELSE 0)

\* Without a limit on the buckets no Allow evicts.
NoEvict == \A s \in Shards : locked[s].by # "evict"

\* Units paid out and units left are covered by the burst and the refill.
Covered == Decided * Unit + Level(Watched) <= Cap + Rate * (clock - since)

\* A refill over no time adds nothing.
LEMMA RefilledNow ==
  ASSUME NEW have \in 0 .. Cap, NEW now \in Nat
  PROVE  Refilled(have, now, now) = have
<1>1. (now - now) * Rate = 0
  BY LimiterAssumption
<1> QED
  BY <1>1, Constants DEF Refilled, Least

\* Refilling for one more tick is refilling, then adding one tick's units.
LEMMA RefilledTick ==
  ASSUME NEW have \in 0 .. Cap, NEW seen \in Nat, NEW now \in Nat, seen <= now
  PROVE  Refilled(have, seen, now + 1) = Least(Cap, Refilled(have, seen, now) + Rate)
<1> DEFINE d == now - seen
<1>1. d \in Nat /\ now + 1 - seen = d + 1
  OBVIOUS
<1> HIDE DEF d
<1>2. (d + 1) * Rate = d * Rate + Rate /\ d * Rate \in Nat /\ Rate \in Nat
  BY <1>1, LimiterAssumption
<1>3. Refilled(have, seen, now) = Least(Cap, have + d * Rate)
  BY DEF Refilled, d
<1>4. Refilled(have, seen, now + 1) = Least(Cap, have + (d * Rate + Rate))
  BY <1>1, <1>2 DEF Refilled
<1> QED
  BY <1>2, <1>3, <1>4, Constants DEF Least

\* A bucket idle for longer than CleanupAge is full.
LEMMA RefilledFull ==
  ASSUME LongEnough, NEW have \in 0 .. Cap, NEW seen \in Nat, NEW now \in Nat,
         now - seen > CleanupAge
  PROVE  Refilled(have, seen, now) = Cap
<1> DEFINE d == now - seen - CleanupAge
<1>1. d \in Nat /\ now - seen = CleanupAge + d
  BY LimiterAssumption
<1> HIDE DEF d
<1>2. /\ (CleanupAge + d) * Rate = CleanupAge * Rate + d * Rate
      /\ d * Rate \in Nat /\ CleanupAge * Rate \in Nat
  BY <1>1, LimiterAssumption
<1> QED
  BY <1>1, <1>2, Constants DEF Refilled, Least, LongEnough

\* A full bucket allows a request exactly when Burst is positive.
LEMMA BurstCap == (Burst > 0 <=> Cap >= Unit) /\ (Burst = 0 => Cap = 0) /\ (Burst > 0 => Cap - Unit \in 0 .. Cap)
<1>1. CASE Burst = 0
  BY <1>1, LimiterAssumption DEF Cap
<1>2. CASE Burst > 0
  <2>1. Burst - 1 \in Nat /\ Burst = (Burst - 1) + 1
    BY <1>2, LimiterAssumption
  <2>2. (Burst - 1) * Unit \in Nat
    BY <2>1, LimiterAssumption
  <2>3. ((Burst - 1) + 1) * Unit = (Burst - 1) * Unit + Unit
    BY <2>1, LimiterAssumption
  <2>4. Cap = (Burst - 1) * Unit + Unit
    BY <2>1, <2>3 DEF Cap
  <2> QED
    BY <1>2, <2>2, <2>4, LimiterAssumption
<1> QED
  BY <1>1, <1>2, LimiterAssumption

\* A level is a number of units within the capacity.
LEMMA LevelType ==
  ASSUME LimiterInv, NEW ip \in IPs
  PROVE  Level(ip) \in 0 .. Cap
<1>1. clock \in Nat /\ Cap \in Nat
  BY Constants DEF LimiterInv, TypeOK
<1>2. CASE ip \in tracked
  <2>1. tokens[ip] \in 0 .. Cap /\ lastSeen[ip] \in Nat /\ lastSeen[ip] <= clock
    BY DEF LimiterInv, TypeOK, Times
  <2> QED
    BY <1>1, <1>2, <2>1, RefilledType, Zenon DEF Level
<1>3. CASE ip \notin tracked /\ Pending(ip)
  <2> DEFINE at == locked[ShardOf[ip]].now
             have == IF Burst > 0 THEN Cap - Unit ELSE 0
  <2>1. at \in Nat /\ at <= clock
    BY LimiterAssumption DEF LimiterInv, TypeOK, Times
  <2>2. have \in 0 .. Cap
    BY <1>1, BurstCap
  <2> HIDE DEF at, have
  <2>3. Refilled(have, at, clock) \in 0 .. Cap
    BY <1>1, <2>1, <2>2, RefilledType
  <2> QED
    BY <1>3, <2>3 DEF Level, at, have
<1>4. CASE ip \notin tracked /\ ~Pending(ip)
  BY <1>1, <1>4 DEF Level
<1> QED
  BY <1>2, <1>3, <1>4

-------------------------------------------------------------------------------
\* What a step may look like from outside: nothing, a tick, a request of ip
\* that is allowed, or a new window.
Stutters ==
  /\ \A ip \in IPs : Level(ip)' = Level(ip)
  /\ Decided' = Decided /\ clock' = clock /\ since' = since

Takes(ip) ==
  /\ Level(ip) >= Unit /\ Level(ip)' = Level(ip) - Unit
  /\ \A j \in IPs \ {ip} : Level(j)' = Level(j)
  /\ Decided' = Decided + (IF ip = Watched THEN 1 ELSE 0)
  /\ clock' = clock /\ since' = since

Ticks ==
  /\ \A ip \in IPs : Level(ip)' = Least(Cap, Level(ip) + Rate)
  /\ clock' = clock + 1
  /\ Decided' = Decided /\ since' = since

Opens ==
  /\ \A ip \in IPs : Level(ip)' = Level(ip)
  /\ Decided' = 0 /\ clock' = clock /\ since' = clock

\* A step that touches neither the maps nor any pending Allow cannot be seen.
LEMMA SilentStep ==
  ASSUME UNCHANGED <<tracked, tokens, lastSeen, clock, since, granted>>,
         \A s \in Shards : \/ locked'[s] = locked[s]
                          \/ /\ locked[s].by \notin {"evict", "create"}
                             /\ locked'[s].by \notin {"evict", "create"}
  PROVE  Stutters
<1>1. ASSUME NEW ip \in IPs
      PROVE  (Pending(ip)' <=> Pending(ip)) /\ Level(ip)' = Level(ip)
  <2> DEFINE s == ShardOf[ip]
  <2>1. s \in Shards
    BY LimiterAssumption, Zenon
  <2>2. CASE locked'[s] = locked[s]
    <3>1. Pending(ip)' <=> Pending(ip)
      BY <2>2 DEF Pending
    <3> QED
      BY <2>2, <3>1 DEF Level, Refilled
  <2>3. CASE locked[s].by \notin {"evict", "create"} /\ locked'[s].by \notin {"evict", "create"}
    <3>1. ~Pending(ip)' /\ ~Pending(ip)
      BY <2>3 DEF Pending
    <3> QED
      BY <3>1 DEF Level, Refilled
  <2> QED
    BY <2>1, <2>2, <2>3
<1>2. Decided' = Decided
  BY <1>1, LimiterAssumption DEF Decided
<1> QED
  BY <1>1, <1>2 DEF Stutters

\* Allow for an IP with a bucket.
LEMMA HitStep ==
  ASSUME LimiterInv, NEW ip \in IPs, AllowHit(ip)
  PROVE  Stutters \/ Takes(ip)
<1> USE LimiterAssumption, Constants
<1> DEFINE t == Level(ip)
<1>1. t = Refilled(tokens[ip], lastSeen[ip], clock) /\ t \in 0 .. Cap
  BY LevelType DEF AllowHit, Level
<1>2. clock \in Nat /\ granted \in Nat /\ ShardOf[ip] \in Shards
  BY DEF LimiterInv, TypeOK
<1>3. /\ UNCHANGED <<tracked, locked, clock, since>> /\ ip \in tracked
      /\ locked[ShardOf[ip]] = Unlocked
  BY DEF AllowHit
<1> HIDE DEF t
<1>4. /\ tokens' = [tokens EXCEPT ![ip] = IF t >= Unit THEN t - Unit ELSE t]
      /\ lastSeen' = [lastSeen EXCEPT ![ip] = clock]
      /\ granted' = granted + (IF t >= Unit /\ ip = Watched THEN 1 ELSE 0)
  BY <1>1 DEF AllowHit, Decide
<1>5. \A j \in IPs : Pending(j)' <=> Pending(j)
  BY <1>3 DEF Pending
<1>6. \A j \in IPs \ {ip} : Level(j)' = Level(j)
  BY <1>3, <1>4, <1>5, Zenon DEF Level, Refilled, LimiterInv, TypeOK
<1>7. Level(ip)' = IF t >= Unit THEN t - Unit ELSE t
  <2>1. Level(ip)' = Refilled(tokens'[ip], lastSeen'[ip], clock)
    BY <1>3 DEF Level, Refilled
  <2>2. /\ tokens'[ip] = (IF t >= Unit THEN t - Unit ELSE t)
        /\ lastSeen'[ip] = clock
    BY <1>4 DEF LimiterInv, TypeOK
  <2>3. (IF t >= Unit THEN t - Unit ELSE t) \in 0 .. Cap
    BY <1>1
  <2> QED
    BY <1>2, <2>1, <2>2, <2>3, RefilledNow, Zenon
<1>8. Decided' = Decided + (IF t >= Unit /\ ip = Watched THEN 1 ELSE 0)
  BY <1>2, <1>4, <1>5 DEF Decided
<1>9. CASE t >= Unit
  BY <1>3, <1>6, <1>7, <1>8, <1>9 DEF Takes, t
<1>10. CASE ~(t >= Unit)
  <2>1. Decided \in Nat
    BY <1>2 DEF Decided
  <2> QED
    BY <1>3, <1>6, <1>7, <1>8, <1>10, <2>1 DEF Stutters, t
<1> QED
  BY <1>9, <1>10

\* Allow for an IP without a bucket: its request is decided here.
LEMMA MissStep ==
  ASSUME LongEnough, LimiterInv, NEW ip \in IPs, AllowMiss(ip)
  PROVE  Stutters \/ Takes(ip)
<1> USE LimiterAssumption, Constants
<1> DEFINE s == ShardOf[ip]
           have == IF Burst > 0 THEN Cap - Unit ELSE 0
<1>1. clock \in Nat /\ granted \in Nat /\ s \in Shards /\ have \in 0 .. Cap
  BY BurstCap DEF LimiterInv, TypeOK
<1>2. /\ UNCHANGED <<tracked, tokens, lastSeen, clock, since, granted>>
      /\ ip \notin tracked /\ locked[s] = Unlocked
      /\ locked' = [locked EXCEPT ![s] = [by |-> "create", ip |-> ip, now |-> clock]]
  BY DEF AllowMiss, mapVars, observed, Creating, LongEnough
<1>3. /\ locked'[s] = [by |-> "create", ip |-> ip, now |-> clock]
      /\ \A r \in Shards \ {s} : locked'[r] = locked[r]
  BY <1>1, <1>2 DEF LimiterInv, TypeOK
<1>4. ~Pending(ip) /\ Pending(ip)'
  BY <1>2, <1>3 DEF Pending, Unlocked
<1>5. ASSUME NEW j \in IPs \ {ip}
      PROVE  (Pending(j)' <=> Pending(j)) /\ Level(j)' = Level(j)
  <2>1. CASE ShardOf[j] = s
    <3>1. ~Pending(j)' /\ ~Pending(j)
      BY <1>2, <1>3, <1>5, <2>1, SMTT(30) DEF Pending, Unlocked
    <3> QED
      BY <1>2, <3>1 DEF Level, Refilled
  <2>2. CASE ShardOf[j] # s
    <3>1. locked'[ShardOf[j]] = locked[ShardOf[j]]
      BY <1>3, <2>2
    <3>2. Pending(j)' <=> Pending(j)
      BY <3>1, SMTT(30) DEF Pending
    <3> QED
      BY <1>2, <3>1, <3>2, SMTT(30) DEF Level, Refilled
  <2> QED
    BY <2>1, <2>2, Zenon
<1>6. Level(ip) = Cap
  BY <1>2, <1>4 DEF Level
<1>7. Level(ip)' = have
  <2>1. Level(ip)' = Refilled(have, clock, clock)
    BY <1>2, <1>3, <1>4 DEF Level, Refilled
  <2> QED
    BY <1>1, <2>1, RefilledNow
<1>8. Decided \in Nat /\ Decided' = Decided + (IF Burst > 0 /\ ip = Watched THEN 1 ELSE 0)
  <2>1. CASE ip = Watched
    BY <1>1, <1>2, <1>4, <2>1 DEF Decided
  <2>2. CASE ip # Watched
    <3>1. Pending(Watched)' <=> Pending(Watched)
      BY <1>5, <2>2
    <3> QED
      BY <1>1, <1>2, <2>2, <3>1 DEF Decided
  <2> QED
    BY <2>1, <2>2
<1>9. CASE Burst > 0
  BY <1>2, <1>5, <1>6, <1>7, <1>8, <1>9, BurstCap DEF Takes
<1>10. CASE ~(Burst > 0)
  <2>1. Burst = 0
    BY <1>10
  <2>2. Level(ip)' = Level(ip) /\ Decided' = Decided
    BY <1>6, <1>7, <1>8, <2>1, BurstCap
  <2> QED
    BY <1>2, <1>5, <2>2 DEF Stutters
<1> QED
  BY <1>9, <1>10

\* The creation of the bucket only records what the miss decided.
LEMMA CreateStep ==
  ASSUME LimiterInv, NEW s \in Shards, AllowCreate(s)
  PROVE  Stutters
<1> USE LimiterAssumption, Constants
<1> DEFINE have == IF Burst > 0 THEN Cap - Unit ELSE 0
<1>0. PICK ip \in IPs, now \in Nat : ip = locked[s].ip /\ now = locked[s].now
  BY DEF LimiterInv, TypeOK
<1>1. /\ now <= clock /\ clock \in Nat /\ granted \in Nat
      /\ ip \notin tracked /\ ShardOf[ip] = s /\ locked[s].by = "create"
  BY <1>0, SMTT(30) DEF AllowCreate, LimiterInv, TypeOK, Times, Misses
<1>2. Refilled(Cap, now, now) = Cap
  BY <1>1, RefilledNow
<1>3. /\ tracked' = tracked \cup {ip} /\ clock' = clock /\ since' = since
      /\ tokens' = [tokens EXCEPT ![ip] = IF Cap >= Unit THEN Cap - Unit ELSE Cap]
      /\ lastSeen' = [lastSeen EXCEPT ![ip] = now]
      /\ granted' = granted + (IF Cap >= Unit /\ ip = Watched THEN 1 ELSE 0)
      /\ locked' = [locked EXCEPT ![s] = Unlocked]
  BY <1>0, <1>2 DEF AllowCreate, Decide
<1>4. Pending(ip)
  BY <1>0, <1>1 DEF Pending
<1>5. tokens'[ip] = have /\ lastSeen'[ip] = now
  BY <1>1, <1>3, BurstCap, SMTT(30) DEF LimiterInv, TypeOK
<1>6. Level(ip)' = Level(ip)
  <2> HIDE DEF have
  <2>1. Level(ip) = Refilled(have, locked[ShardOf[ip]].now, clock)
    BY <1>1, <1>4 DEF Level, have
  <2>2. Level(ip)' = Refilled(have, now, clock)
    BY <1>1, <1>3, <1>5 DEF Level, Refilled
  <2>3. locked[ShardOf[ip]].now = now
    BY <1>0, <1>1
  <2> QED
    BY <2>1, <2>2, <2>3
<1>7. locked'[s] = Unlocked /\ \A r \in Shards \ {s} : locked'[r] = locked[r]
  BY <1>3 DEF LimiterInv, TypeOK
<1>8. ASSUME NEW j \in IPs \ {ip}
      PROVE  (Pending(j)' <=> Pending(j)) /\ Level(j)' = Level(j)
  <2>1. tokens'[j] = tokens[j] /\ lastSeen'[j] = lastSeen[j] /\ (j \in tracked' <=> j \in tracked)
    BY <1>1, <1>3 DEF LimiterInv, TypeOK
  <2>2. CASE ShardOf[j] = s
    <3>1. ~Pending(j)' /\ ~Pending(j)
      BY <1>0, <1>7, <1>8, <2>2 DEF Pending, Unlocked
    <3> QED
      BY <1>3, <2>1, <3>1, SMTT(30) DEF Level, Refilled
  <2>3. CASE ShardOf[j] # s
    <3>1. locked'[ShardOf[j]] = locked[ShardOf[j]]
      BY <1>7, <2>3
    <3>2. Pending(j)' <=> Pending(j)
      BY <3>1 DEF Pending
    <3> QED
      BY <1>3, <2>1, <3>1, <3>2, SMTT(30) DEF Level, Refilled
  <2> QED
    BY <2>2, <2>3
<1>9. Decided' = Decided
  <2>1. CASE ip = Watched
    <3>1. ~Pending(Watched)'
      BY <1>1, <1>7, <2>1 DEF Pending, Unlocked
    <3> QED
      BY <1>1, <1>3, <1>4, <2>1, <3>1, BurstCap, SMTT(30) DEF Decided
  <2>2. CASE ip # Watched
    <3>1. Pending(Watched)' <=> Pending(Watched)
      BY <1>8, <2>2
    <3> QED
      BY <1>1, <1>3, <2>2, <3>1 DEF Decided
  <2> QED
    BY <2>1, <2>2
<1>10. \A j \in IPs : Level(j)' = Level(j)
  BY <1>6, <1>8
<1> QED
  BY <1>3, <1>9, <1>10 DEF Stutters

\* The cleanup deletes only buckets that are full by now.
LEMMA DeleteStep ==
  ASSUME LongEnough, LimiterInv, CleanupDelete
  PROVE  Stutters
<1> USE LimiterAssumption, Constants
<1>1. PICK ip \in InShard(sweep.next) : Stale(ip) /\ Delete(ip)
  BY DEF CleanupDelete
<1>2. /\ UNCHANGED <<locked, clock, since, granted>>
      /\ locked[sweep.next] = ByCleanup
      /\ ip \in IPs /\ ip \in tracked /\ ShardOf[ip] = sweep.next
  BY <1>1 DEF CleanupDelete, observed, InShard, LimiterInv, TypeOK
<1>3. \A j \in IPs : Pending(j)' <=> Pending(j)
  BY <1>2 DEF Pending
<1>4. ~Pending(ip)
  BY <1>2 DEF Pending, ByCleanup
<1>5. Level(ip)' = Cap
  BY <1>1, <1>2, <1>3, <1>4 DEF Level, Delete
<1>6. Level(ip) = Cap
  <2>1. /\ tokens[ip] \in 0 .. Cap /\ lastSeen[ip] \in Nat /\ clock \in Nat
        /\ clock - lastSeen[ip] > CleanupAge
    BY <1>1, <1>2 DEF Stale, LimiterInv, TypeOK, Times
  <2> QED
    BY <1>2, <2>1, RefilledFull DEF Level
<1>7. ASSUME NEW j \in IPs \ {ip}
      PROVE  Level(j)' = Level(j)
  <2>1. tokens'[j] = tokens[j] /\ lastSeen'[j] = lastSeen[j] /\ (j \in tracked' <=> j \in tracked)
    BY <1>1 DEF Delete, LimiterInv, TypeOK
  <2> QED
    BY <1>2, <1>3, <2>1 DEF Level, Refilled
<1>8. \A j \in IPs : Level(j)' = Level(j)
  BY <1>5, <1>6, <1>7, Zenon
<1>9. Decided' = Decided
  BY <1>2, <1>3 DEF Decided
<1> QED
  BY <1>2, <1>8, <1>9 DEF Stutters

\* A tick refills every bucket, the deleted and the pending ones included.
LEMMA TickStep ==
  ASSUME LimiterInv, Tick
  PROVE  Ticks
<1> USE LimiterAssumption, Constants
<1>1. /\ UNCHANGED <<tracked, tokens, lastSeen, locked, since, granted>>
      /\ clock' = clock + 1 /\ clock \in Nat
  BY DEF Tick, mapVars, LimiterInv, TypeOK
<1>2. \A j \in IPs : Pending(j)' <=> Pending(j)
  BY <1>1 DEF Pending
<1>3. ASSUME NEW j \in IPs
      PROVE  Level(j)' = Least(Cap, Level(j) + Rate)
  <2>1. CASE j \in tracked
    <3>1. tokens[j] \in 0 .. Cap /\ lastSeen[j] \in Nat /\ lastSeen[j] <= clock
      BY DEF LimiterInv, TypeOK, Times
    <3>2. Level(j)' = Refilled(tokens[j], lastSeen[j], clock + 1)
      BY <1>1, <2>1 DEF Level, Refilled
    <3> QED
      BY <1>1, <2>1, <3>1, <3>2, RefilledTick DEF Level
  <2>2. CASE j \notin tracked /\ Pending(j)
    <3> DEFINE have == IF Burst > 0 THEN Cap - Unit ELSE 0
               now == locked[ShardOf[j]].now
    <3>1. now \in Nat /\ now <= clock /\ have \in 0 .. Cap
      BY BurstCap DEF LimiterInv, TypeOK, Times
    <3>2. Level(j) = Refilled(have, now, clock)
      BY <2>2 DEF Level
    <3>3. Level(j)' = Refilled(have, now, clock + 1)
      BY <1>1, <1>2, <2>2, SMTT(30) DEF Level, Refilled
    <3> HIDE DEF have, now
    <3> QED
      BY <1>1, <3>1, <3>2, <3>3, RefilledTick
  <2>3. CASE j \notin tracked /\ ~Pending(j)
    BY <1>1, <1>2, <2>3 DEF Level, Least
  <2> QED
    BY <2>1, <2>2, <2>3, SMTT(30)
<1>4. Decided' = Decided
  BY <1>1, <1>2 DEF Decided
<1> QED
  BY <1>1, <1>3, <1>4 DEF Ticks

\* A new window starts the count of allowed requests at zero.
LEMMA WindowStep ==
  ASSUME OpenWindow
  PROVE  Opens
<1>1. UNCHANGED <<tracked, tokens, lastSeen, locked, clock>> /\ ~Pending(Watched)
  BY DEF OpenWindow, mapVars
<1>2. \A j \in IPs : Pending(j)' <=> Pending(j)
  BY <1>1 DEF Pending
<1>3. \A j \in IPs : Level(j)' = Level(j)
  BY <1>1, <1>2 DEF Level, Refilled
<1>4. Decided' = 0
  BY <1>1, <1>2, LimiterAssumption DEF Decided, OpenWindow
<1> QED
  BY <1>1, <1>3, <1>4 DEF Opens, OpenWindow

\* Every step of the limiter is one of the four.
LEMMA SeenStep ==
  ASSUME LongEnough, LimiterInv, NoEvict, [Next]_vars
  PROVE  Stutters \/ Ticks \/ Opens \/ \E ip \in IPs : Takes(ip)
<1> USE LimiterAssumption, Constants
<1>1. CASE UNCHANGED vars
  BY <1>1, SilentStep DEF vars
<1>2. CASE CleanupTick \/ CleanupReturn \/ Close
  BY <1>2, SilentStep, Zenon DEF CleanupTick, CleanupReturn, Close, mapVars, observed
<1>3. CASE CleanupLock \/ CleanupUnlock
  <2>1. sweep.next \in Shards /\ locked \in [Shards -> [by : {"none", "cleanup", "evict", "create"}, ip : IPs, now : Nat]]
    BY DEF LimiterInv, TypeOK
  <2>2. UNCHANGED <<tracked, tokens, lastSeen, clock, since, granted>>
    BY <1>3 DEF CleanupLock, CleanupUnlock, mapVars, observed
  <2>3. /\ locked[sweep.next].by \notin {"evict", "create"}
        /\ locked'[sweep.next].by \notin {"evict", "create"}
        /\ \A s \in Shards \ {sweep.next} : locked'[s] = locked[s]
    BY <1>3, <2>1 DEF CleanupLock, CleanupUnlock, Unlocked, ByCleanup
  <2> QED
    BY <2>2, <2>3, SilentStep
<1>4. ASSUME NEW s \in Shards, EvictOldestFromShard(s)
      PROVE  FALSE
  BY <1>4 DEF EvictOldestFromShard, NoEvict
<1> QED
  BY <1>1, <1>2, <1>3, <1>4, HitStep, MissStep, CreateStep, DeleteStep, TickStep, WindowStep, Zenon DEF Next

\* Without a limit on the buckets no Allow ever evicts.
LEMMA NoEvictStep ==
  ASSUME LongEnough, LimiterInv, NoEvict, [Next]_vars
  PROVE  NoEvict'
<1> USE LimiterAssumption DEF NoEvict
<1>1. CASE \/ UNCHANGED vars \/ CleanupTick \/ CleanupDelete \/ CleanupReturn \/ Close
           \/ Tick \/ OpenWindow \/ \E ip \in IPs : AllowHit(ip)
  BY <1>1, Zenon DEF vars, CleanupTick, CleanupDelete, CleanupReturn, Close, Tick, OpenWindow, AllowHit
<1>2. ASSUME NEW s \in Shards, NEW r, r.by # "evict", locked' = [locked EXCEPT ![s] = r]
      PROVE  NoEvict'
  BY <1>2 DEF LimiterInv, TypeOK
<1>3. CASE \E ip \in IPs : AllowMiss(ip)
  BY <1>2, <1>3 DEF AllowMiss, Creating, LongEnough
<1>4. CASE \E s \in Shards : EvictOldestFromShard(s) \/ AllowCreate(s)
  BY <1>2, <1>4 DEF EvictOldestFromShard, AllowCreate, Unlocked
<1>5. CASE CleanupLock \/ CleanupUnlock
  <2>1. sweep.next \in Shards
    BY DEF LimiterInv, TypeOK
  <2> QED
    BY <1>2, <1>5, <2>1 DEF CleanupLock, CleanupUnlock, ByCleanup, Unlocked
<1> HIDE LimiterAssumption DEF NoEvict
<1> QED
  BY <1>1, <1>3, <1>4, <1>5, Zenon DEF Next

\* The units paid out stay covered.
LEMMA CoveredStep ==
  ASSUME LongEnough, LimiterInv, LimiterInv', NoEvict, Covered, [Next]_vars
  PROVE  Covered'
<1> USE LimiterAssumption, Constants
<1> DEFINE w == Level(Watched)
<1>1. w \in 0 .. Cap /\ clock \in Nat /\ since \in Nat /\ since <= clock /\ granted \in Nat
  BY LevelType, SMTT(30) DEF LimiterInv, TypeOK, Times
<1>2. Decided \in Nat
  BY <1>1 DEF Decided
<1>3. Decided * Unit \in Nat /\ Rate * (clock - since) \in Nat
  BY <1>1, <1>2
<1> HIDE DEF w
<1>4. CASE Stutters
  BY <1>4 DEF Stutters, Covered
<1>5. CASE Ticks
  <2>1. Rate * (clock + 1 - since) = Rate * (clock - since) + Rate
    BY <1>1
  <2>2. Level(Watched)' = Least(Cap, w + Rate) /\ Least(Cap, w + Rate) <= w + Rate
    BY <1>1, <1>5 DEF Ticks, Least, w
  <2>3. Level(Watched)' \in Int
    BY <1>1, <2>2 DEF Least
  <2> QED
    BY <1>1, <1>3, <1>5, <2>1, <2>2, <2>3 DEF Ticks, Covered, w
<1>6. CASE Opens
  <2>1. Rate * (clock - clock) = 0
    BY <1>1
  <2> QED
    BY <1>1, <1>6, <2>1 DEF Opens, Covered, w
<1>7. CASE \E ip \in IPs : Takes(ip)
  <2>1. CASE Takes(Watched)
    <3>1. (Decided + 1) * Unit = Decided * Unit + Unit
      BY <1>2
    <3> QED
      BY <1>1, <1>3, <2>1, <3>1 DEF Takes, Covered, w
  <2>2. CASE \E ip \in IPs \ {Watched} : Takes(ip)
    BY <1>2, <2>2 DEF Takes, Covered
  <2> QED
    BY <1>7, <2>1, <2>2
<1> QED
  BY <1>4, <1>5, <1>6, <1>7, SeenStep, SMTT(30)

\* At first no bucket is tracked, so every level is the capacity.
LEMMA InitSeen ==
  ASSUME Init
  PROVE  /\ NoEvict /\ Covered /\ clock = 0 /\ since = 0 /\ Decided = 0
         /\ \A ip \in IPs : Level(ip) = Cap
<1> USE LimiterAssumption, Constants
<1>1. NoEvict /\ clock = 0 /\ since = 0
  BY DEF Init, NoEvict, Unlocked
<1>2. \A ip \in IPs : ~Pending(ip)
  BY DEF Init, Pending, Unlocked
<1>3. \A ip \in IPs : Level(ip) = Cap
  BY <1>2 DEF Init, Level
<1>4. Decided = 0
  BY <1>2 DEF Init, Decided
<1>5. Covered
  BY <1>1, <1>3, <1>4 DEF Covered
<1> QED
  BY <1>1, <1>3, <1>4, <1>5

-------------------------------------------------------------------------------
\* The inductive invariant behind the rate bound and the refinement.
SeenInv == LimiterInv /\ NoEvict /\ Covered

\* It holds throughout, when CleanupAge lets an empty bucket refill.
LEMMA SeenInvariant ==
  ASSUME LongEnough
  PROVE  Spec => []SeenInv
<1>1. Init => SeenInv
  BY InitSeen, LimiterInit DEF SeenInv
<1>2. SeenInv /\ [Next]_vars => SeenInv'
  BY LimiterStep, NoEvictStep, CoveredStep DEF SeenInv
<1> QED
  BY <1>1, <1>2, PTL DEF Spec

\* Over any window an IP is allowed at most Burst requests plus what refills
\* in that time, however its requests, the cleanup and the other shards
\* interleave, when no bucket is evicted and CleanupAge is long enough.
THEOREM RateBounded ==
  ASSUME LongEnough
  PROVE  Spec => []RateBound
<1>1. SeenInv => RateBound
  <2> SUFFICES ASSUME SeenInv
               PROVE  RateBound
    OBVIOUS
  <2>1. Level(Watched) \in 0 .. Cap /\ clock \in Nat /\ since \in Nat /\ granted \in Nat
    BY LevelType, LimiterAssumption DEF SeenInv, LimiterInv, TypeOK
  <2>2. Decided = granted \/ Decided = granted + 1
    BY <2>1 DEF Decided
  <2>3. (granted + 1) * Unit = granted * Unit + Unit /\ granted * Unit \in Nat
    BY <2>1, LimiterAssumption
  <2>4. Rate * (clock - since) \in Int
    BY <2>1, LimiterAssumption
  <2> QED
    BY <2>1, <2>2, <2>3, <2>4, Constants, LimiterAssumption DEF SeenInv, Covered, RateBound
<1> QED
  BY <1>1, SeenInvariant, PTL

\* Sharding, misses that create buckets and cleanups that delete them cannot
\* be told from one bucket per IP that is never forgotten.
THEOREM LimiterImplementsTokenBucket ==
  ASSUME LongEnough
  PROVE  Spec => ImplementsTokenBucket
<1>1. Init => Promise!Init
  BY InitSeen DEF Promise!Init, Promise!Cap, Cap, Decided
<1>2. SeenInv /\ [Next]_vars => [Promise!Next]_(Promise!vars)
  <2> SUFFICES ASSUME SeenInv, [Next]_vars
               PROVE  [Promise!Next]_(Promise!vars)
    OBVIOUS
  <2>1. CASE Stutters
    BY <2>1 DEF Stutters, Decided, Promise!vars
  <2>2. CASE Ticks
    <3>1. Promise!Tick
      BY <2>2 DEF Ticks, Decided, Promise!Tick, Promise!Least, Promise!Cap, Least, Cap
    <3> QED
      BY <3>1 DEF Promise!Next
  <2>3. CASE Opens
    <3>1. Promise!OpenWindow
      BY <2>3 DEF Opens, Decided, Promise!OpenWindow
    <3> QED
      BY <3>1 DEF Promise!Next
  <2>4. ASSUME NEW ip \in IPs, Takes(ip)
        PROVE  Promise!Next
    <3>1. Promise!Take(ip)
      BY <2>4, Zenon DEF Takes, Decided, Promise!Take
    <3> QED
      BY <3>1 DEF Promise!Next
  <2> QED
    BY <2>1, <2>2, <2>3, <2>4, SeenStep DEF SeenInv
<1> QED
  BY <1>1, <1>2, SeenInvariant, PTL DEF Spec, ImplementsTokenBucket, Promise!Spec

===============================================================================
