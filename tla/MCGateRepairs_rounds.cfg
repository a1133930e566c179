\* Rounds on the same evidence, and one change of it.
CONSTANTS
  Obl = {1, 2}
  RepairsMax = 2
  Inputs <- MatchedInputs
  MaxRounds = 1
SPECIFICATION Spec
INVARIANTS TypeOK AdmitsExactlyFlawless AbortsWhenExhausted
PROPERTY StubbornEnds
CHECK_DEADLOCK FALSE
