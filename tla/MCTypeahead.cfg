SPECIFICATION Spec
CONSTANTS
  c1 = c1  c2 = c2
  Callers = {c1, c2}
  Rate = 1
  Burst = 3
  Cost = 2
  TypeaheadEnabled = TRUE
  Limit = 2
  Answers <- SmallAnswers
  MaxTime = 4
  MaxBuckets = 2
  MaxCalls = 5
SYMMETRY Symmetry
INVARIANT SuggestInv
INVARIANT OvershootIsTheDelay
PROPERTY RefusedOnlyWhenUsed
CHECK_DEADLOCK FALSE
