\* Three requests for two sessions, a killer, a shutdown; room for one.
SPECIFICATION FairSpec
CONSTANTS
  Sessions = {s1, s2}
  Requests = {r1, r2, r3}
  Killers = {k1}
  NoTask = NoTask
  max_concurrent_sessions = 1
INVARIANTS TypeOK Covered OneEvictor Settled
PROPERTIES StartServed KillReturns
CHECK_DEADLOCK FALSE
