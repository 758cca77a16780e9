-------------------------------- MODULE Solver --------------------------------
(***************************************************************************)
(* The brute-force search of internal/pow/solver.go, Solve and             *)
(* SolveWithProgress, with the bit test hasLeadingZeros that it shares     *)
(* with the verifier.  SHA-256 may give any value of Hashes for each       *)
(* counter: the first bytes of a digest, real bytes.                       *)
(***************************************************************************)
EXTENDS Integers, Sequences

CONSTANTS maxIterations,         \* 10^9 by default
          contextCheckInterval,  \* 10000
          reportInterval,        \* 100000 by default
          difficulty,            \* the challenge's
          Hashes                 \* the digests that may occur

VARIABLES solver,    \* idle, running, or what Solve returned
          counter,
          callback,  \* SolveWithProgress was given a callback
          hashes,    \* the digests computed so far, that of counter 0 first
          reports,   \* what the callback was called with
          late,      \* how many of them were computed after ctx was done
          ctxDone    \* ctx.Done() is closed; it stays so

solverVars == <<solver, counter, callback, hashes, reports, late>>

\* 1 << k, and the bits of a byte.
Shl(k) == <<1, 2, 4, 8, 16, 32, 64, 128>>[k + 1]
Bit(b, k) == (b \div Shl(k)) % 2

\* b & c is zero.
NoCommonBit(b, c) == \A k \in 0 .. 7 : ~(Bit(b, k) = 1 /\ Bit(c, k) = 1)

\* byte(0xFF << (8 - remainingBits)) drops what is shifted beyond the byte.
hasLeadingZeros(hash, n) ==
  LET fullBytes == n \div 8  remainingBits == n % 8
      mask == (255 * Shl(8 - remainingBits)) % 256
  IN  /\ \A i \in 1 .. fullBytes : hash[i] = 0
      /\ remainingBits > 0 => NoCommonBit(hash[fullBytes + 1], mask)

Init ==
  /\ solver = "idle" /\ counter = 0 /\ callback \in BOOLEAN
  /\ hashes = << >> /\ reports = << >> /\ late = 0

Solve ==
  /\ solver = "idle"
  /\ solver' = "running"
  /\ UNCHANGED <<counter, callback, hashes, reports, late>>

Report ==
  reports' = IF callback /\ counter > 0 /\ counter % reportInterval = 0
             THEN Append(reports, counter) ELSE reports

\* Mutant: the turn that looks at ctx computes no digest.
Iterate_Skips ==
  /\ solver = "running" /\ counter < maxIterations
  /\ IF counter % contextCheckInterval = 0
     THEN solver' = (IF ctxDone THEN "ctxErr" ELSE "running") /\ counter' = counter + 1
          /\ UNCHANGED <<hashes, reports, late>>
     ELSE \E hash \in Hashes :
            /\ Report
            /\ hashes' = Append(hashes, hash)
            /\ late' = IF ctxDone THEN late + 1 ELSE late
            /\ IF hasLeadingZeros(hash, difficulty)
               THEN solver' = "solved" /\ UNCHANGED counter
               ELSE counter' = counter + 1 /\ UNCHANGED solver
  /\ UNCHANGED callback

\* One turn of the loop.
Iterate ==
  /\ solver = "running" /\ counter < maxIterations
  /\ IF counter % contextCheckInterval = 0 /\ ctxDone
     THEN solver' = "ctxErr" /\ UNCHANGED <<counter, hashes, reports, late>>
     ELSE \E hash \in Hashes :
            /\ Report
            /\ hashes' = Append(hashes, hash)
            /\ late' = IF ctxDone THEN late + 1 ELSE late
            /\ IF hasLeadingZeros(hash, difficulty)
               THEN solver' = "solved" /\ UNCHANGED counter
               ELSE counter' = counter + 1 /\ UNCHANGED solver
  /\ UNCHANGED callback

GiveUp ==
  /\ solver = "running" /\ counter >= maxIterations
  /\ solver' = "ErrMaxIterationsExceeded"
  /\ UNCHANGED <<counter, callback, hashes, reports, late>>

SolverStep == Iterate \/ GiveUp

-------------------------------------------------------------------------------
\* The first n bits of the digest are zero: bit i is in byte i \div 8, the
\* highest bit of a byte first.
Meets(hash, n) == \A i \in 0 .. n - 1 : Bit(hash[i \div 8 + 1], 7 - (i % 8)) = 0

\* Solve returns the first counter whose digest begins with difficulty zero
\* bits and passes over none; it gives up only when none of maxIterations
\* counters has one.
FindsFirst ==
  /\ \A i \in DOMAIN hashes : Meets(hashes[i], difficulty) => i = counter + 1
  /\ solver = "solved" <=> \E i \in DOMAIN hashes : Meets(hashes[i], difficulty)
  /\ solver = "ErrMaxIterationsExceeded" => Len(hashes) = maxIterations

\* Once ctx is done the search computes fewer than contextCheckInterval more
\* digests: it stops at the next multiple of the interval.
CancelNoticed == late < contextCheckInterval

\* The callback hears of every multiple of reportInterval that is reached,
\* once and in order, and never of zero.
ReportsMultiples ==
  /\ reports # << >> => callback
  /\ callback =>
       reports = [i \in 1 .. (Len(hashes) - 1) \div reportInterval |-> i * reportInterval]

===============================================================================
