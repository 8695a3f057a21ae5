\* The documented tracking of every background task, lost by a second start.
SPECIFICATION Spec
CONSTANTS
  Sessions = {s1, s2}
  Requests = {r1, r2, r3}
  Killers = {k1}
  NoTask = NoTask
  max_concurrent_sessions = 1
INVARIANT TasksTracked
CHECK_DEADLOCK FALSE
