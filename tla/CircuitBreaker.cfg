\* Two callers on one breaker, with time and an unreliable provider.
SPECIFICATION FairSpec
CONSTANTS
  Callers = {c1, c2}
  transient_failure_threshold = 2
  success_threshold = 2
  transient_recovery_timeout = 1
  permanent_recovery_timeout = 2
  CounterCap = 2
INVARIANTS CountsExplainState
PROPERTIES NoColdAdmission Recovers
