SPECIFICATION MainSpec
CONSTANTS
  Conns = {c1}
  MaxConnections = 1
  Malformed = Malformed
  Envs <- OneEnv
CHECK_DEADLOCK FALSE
INVARIANT DrainsBeforeExit
