\* One browser on one session, two connections, any two failures.
SPECIFICATION StreamFairSpec
CONSTANTS
  Sessions = {s1}
  Ending = {}
  MAX_BUFFER_SIZE = 2
  MAX_RETRIES = 1
  MAX_ATTEMPTS = 2
  MaxEvents = 3
  MaxFaults = 2
  Watched = s1
  batch_size = 2
  MaxConnections = 2
INVARIANTS StreamTypeOK InOrder NoGap
PROPERTY Delivered
CHECK_DEADLOCK FALSE
