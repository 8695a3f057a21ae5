\* Three sub-problems that hold up to two rounds, two thresholds, both modes.
SPECIFICATION FairSpec
CONSTANTS
  SubProblemCount = 3
  MaxRounds = {3}
  Thresholds = {2, 3}
INVARIANTS InformedStart Joined OneResultEach
PROPERTY EndsWithoutTimeout
\* The node has returned or raised.
CHECK_DEADLOCK FALSE
