\* Two sessions that share the batcher; any four failures.
SPECIFICATION FairSpec
CONSTANTS
  Sessions = {s1, s2}
  Ending = {s1}
  MAX_BUFFER_SIZE = 2
  MAX_RETRIES = 2
  MAX_ATTEMPTS = 2
  MaxEvents = 2
  MaxFaults = 4
INVARIANTS TypeOK LossesPaidFor StoredOnce NoOvertaking ReplayInOrder VerdictTrue
PROPERTIES RetriesSettle MeetingEndFlushes ImplementsLedger
CHECK_DEADLOCK FALSE
