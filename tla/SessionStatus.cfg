\* Two requests at a time beside the tasks, one failure of PostgreSQL or crash.
SPECIFICATION Spec
CONSTANTS
  Callers = {c1, c2}
  Tasks = {t1, t2}
  NoTask = NoTask
  MaxFaults = 1
INVARIANTS RunningHasTask FinalMeansStopped OneTask StoresAgree
CONSTRAINT Orderly
SYMMETRY RequestSymmetry
