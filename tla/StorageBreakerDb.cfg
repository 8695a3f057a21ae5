\* The postgres breaker: recording clients only.
SPECIFICATION FairSpec
CONSTANTS
  Recorders = {r1, r2}
  CallSyncers = {}
  transient_failure_threshold = 2
  success_threshold = 2
  transient_recovery_timeout = 1
  permanent_recovery_timeout = 1
  CounterCap = 3
PROPERTY LeavesOpen
