-------------------------------- MODULE Config --------------------------------
(***************************************************************************)
(* The server's settings, internal/config/config.go, and what              *)
(* cmd/server/main.go makes of them.  A duration is a number of seconds,   *)
(* the secret is its length, and the rate is a whole number.               *)
(***************************************************************************)
EXTENDS Integers

CONSTANT Malformed  \* the text of a variable that Atoi, ParseDuration or
                    \* ParseFloat refuses

Timeouts == {"ReadTimeout", "WriteTimeout", "IdleTimeout", "ChallengeTimeout",
             "GracefulTimeout"}
Numbers == Timeouts \cup
  {"PowDifficulty", "PowMinDifficulty", "PowMaxDifficulty", "ClockSkewTolerance",
   "MaxConnections", "RateLimitRPS", "RateLimitBurst", "MaxConnectionsPerIP",
   "MaxAttemptsPerIP"}
LogLevels == {"debug", "info", "warn", "error"}
LogFormats == {"json", "text"}

Defaults ==
  [ServerAddress |-> ":8080", MetricsAddress |-> ":9090", QuotesFile |-> "quotes.txt",
   MaxConnections |-> 10000, ReadTimeout |-> 10, WriteTimeout |-> 10,
   IdleTimeout |-> 5, ChallengeTimeout |-> 60, GracefulTimeout |-> 30,
   PowSecret |-> 0, PowDifficulty |-> 20, PowMinDifficulty |-> 16,
   PowMaxDifficulty |-> 24, ClockSkewTolerance |-> 30,
   RateLimitRPS |-> 10, RateLimitBurst |-> 20, MaxConnectionsPerIP |-> 100,
   MaxAttemptsPerIP |-> 50, LogLevel |-> "info", LogFormat |-> "json"]

\* Load: env maps the variables that are set and not empty to their values.
LoadFails(env) == \E s \in Numbers \cap DOMAIN env : env[s] = Malformed
Load(env) ==
  [s \in DOMAIN Defaults |-> IF s \in DOMAIN env THEN env[s] ELSE Defaults[s]]

\* Mutant: IDLE_TIMEOUT is not checked.
Validate_NoIdle(c) ==
  IF c.PowSecret < 32 THEN "ErrPowSecretTooShort"
  ELSE IF \E s \in Timeouts \ {"IdleTimeout"} : c[s] <= 0 THEN "ErrNegativeTimeout"
  ELSE IF c.MaxConnections <= 0 THEN "ErrInvalidMaxConnections"
  ELSE IF c.RateLimitRPS <= 0 \/ c.RateLimitBurst <= 0 THEN "ErrInvalidRateLimit"
  ELSE "nil"

Validate(c) ==
  IF c.PowSecret = 0 THEN "ErrMissingPowSecret"
  ELSE IF c.PowSecret < 32 THEN "ErrPowSecretTooShort"
  ELSE IF c.PowMinDifficulty > c.PowMaxDifficulty THEN "ErrInvalidDifficultyRange"
  ELSE IF c.PowDifficulty \notin c.PowMinDifficulty .. c.PowMaxDifficulty
       THEN "ErrDifficultyOutOfRange"
  ELSE IF \E s \in Timeouts : c[s] <= 0 THEN "ErrNegativeTimeout"
  ELSE IF c.MaxConnections <= 0 THEN "ErrInvalidMaxConnections"
  ELSE IF c.RateLimitRPS <= 0 \/ c.RateLimitBurst <= 0 THEN "ErrInvalidRateLimit"
  ELSE IF c.LogLevel \notin LogLevels THEN "ErrInvalidLogLevel"
  ELSE IF c.LogFormat \notin LogFormats THEN "ErrInvalidLogFormat"
  ELSE "nil"

(***************************************************************************)
(* What main passes on.                                                    *)
(***************************************************************************)
MinSecretLength == 32
uint8(n) == n % 256

NewGeneratorFails(c) == c.PowSecret < MinSecretLength
NewVerifierFails(c) == c.PowSecret < MinSecretLength

\* NewVerifier's challengeTimeout and clockSkew.
VerifierTimeouts(c) ==
  [ChallengeTimeout |-> IF c.ChallengeTimeout = 0 THEN 60 ELSE c.ChallengeTimeout,
   ClockSkew |-> IF c.ClockSkewTolerance = 0 THEN 30 ELSE c.ClockSkewTolerance]

\* The configuration of the handlers.
HandlerConfig(c) ==
  [WriteTimeout |-> c.WriteTimeout, IdleTimeout |-> c.IdleTimeout,
   ChallengeTimeout |-> c.ChallengeTimeout, MaxAttempts |-> c.MaxAttemptsPerIP,
   Difficulty |-> uint8(c.PowDifficulty)]

\* The configuration of the rate limiter; CleanupAge is left out, so zero.
RateLimitConfig(c) == [Rate |-> c.RateLimitRPS, Burst |-> c.RateLimitBurst, CleanupAge |-> 0]

\* What the other modules assume of these values: HandlerAssumption of Handler,
\* LimiterAssumption of RateLimiter, a pool of the size that was asked for
\* (Pool!max), and the same challenge lifetime on both sides of a handler.
Usable(c) ==
  /\ {c.ReadTimeout, c.GracefulTimeout} \subseteq Nat \ {0}
  /\ LET hc == HandlerConfig(c) IN
       /\ {hc.WriteTimeout, hc.IdleTimeout, hc.ChallengeTimeout} \subseteq Nat \ {0}
       /\ hc.Difficulty \in 0 .. 255 /\ hc.MaxAttempts \in Int
       /\ VerifierTimeouts(c).ChallengeTimeout = hc.ChallengeTimeout
  /\ RateLimitConfig(c).Rate \in Nat \ {0} /\ RateLimitConfig(c).Burst \in Nat \ {0}
  /\ c.MaxConnections \in Nat \ {0}
  /\ ~NewGeneratorFails(c) /\ ~NewVerifierFails(c)

===============================================================================
