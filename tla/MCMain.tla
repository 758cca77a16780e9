-------------------------------- MODULE MCMain --------------------------------
(* Main on small instances. *)
EXTENDS Main, TLC

\* An environment with a good secret, and with one more variable or without.
Good == [PowSecret |-> 32]
With(name, value) == (name :> value) @@ Good

\* Every way to fail, at the limits of the checks.
SomeEnvs ==
  {Good, [PowSecret |-> 31], [LogLevel |-> "info"],
   With("IdleTimeout", Malformed), With("IdleTimeout", 0), With("MaxConnections", 0),
   With("RateLimitBurst", 0), With("PowMinDifficulty", 25), With("PowDifficulty", 15),
   With("LogLevel", "trace"), With("LogFormat", "xml")}

OneEnv == {Good}

===============================================================================
