\* Up to three sub-problems, every round limit, one raised hand.
SPECIFICATION FairSpec
CONSTANTS
  MaxSubProblems = 3
  RecommendedRounds = {3, 4, 5, 6}
  MaxInterjections = 1
INVARIANTS TypeOK RoundsWithinLimit SilentAfterStop ResultsGrounded EndsComplete
PROPERTY Ends
\* A meeting that has ended runs no further node.
CHECK_DEADLOCK FALSE
