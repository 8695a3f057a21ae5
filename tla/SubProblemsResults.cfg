\* Two sub-problems are enough for a result without its discussion.
SPECIFICATION Spec
CONSTANTS
  SubProblemCount = 2
  MaxRounds = {3}
  Thresholds = {2}
INVARIANT ResultsComplete
CHECK_DEADLOCK FALSE
