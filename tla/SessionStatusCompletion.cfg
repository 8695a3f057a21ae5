\* The end of a meeting that went through a clarification, in PostgreSQL.
SPECIFICATION Spec
CONSTANTS
  Callers = {c1}
  Tasks = {t1}
  NoTask = NoTask
  MaxFaults = 0
PROPERTY CompletionStored
