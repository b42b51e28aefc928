CONSTANTS
  MaxRoundsSettings <- MCMaxRounds
  DefaultMaxRounds = 3
  LeftSettings <- MCLeft
  Cap = 2
  MaxCalls = 3
  AnswerG2 = {TRUE}
  SummaryG2 = {FALSE}
SPECIFICATION FairSpec
INVARIANT TurnInv
INVARIANT RefusalIsFinal
PROPERTY OnlyInsightOnceOver
PROPERTY EveryTurnEnds
CHECK_DEADLOCK FALSE
