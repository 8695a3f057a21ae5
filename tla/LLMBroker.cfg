\* Two concurrent calls with one retry, both kinds of fallback enabled.
SPECIFICATION FairSpec
CONSTANTS
  Calls = {c1, c2}
  max_retries = 1
  llm_primary_provider = "anthropic"
  llm_model_fallback_enabled = TRUE
  transient_failure_threshold = 2
  success_threshold = 1
  transient_recovery_timeout = 1
  permanent_recovery_timeout = 1
  CounterCap = 2
INVARIANTS RequestsBounded
PROPERTIES UnavailableMeansOpen EveryCallEnds FailsOver
