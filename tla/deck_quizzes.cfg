SPECIFICATION Spec
CONSTANTS
  u1 = u1
  u2 = u2
  u3 = u3
  u4 = u4
  u5 = u5
  Unit = {u1, u2, u3, u4, u5}
  Cost <- MCCost
  Board <- MCBoard
  LastMatch = 3
  LastOfOldPatch = 1
  DeckSize = 2
  MinGames = 1
  AppearPercent = 40
  NOptions = 3
  Head = 2
  Batch = 2
  MaxFaults = 2
INVARIANT TypeOK
INVARIANT QuizNeverAheadOfStats
INVARIANT AnswerIsRare
INVARIANT JudgedAsShown
PROPERTY CompleteRunIsComplete
CHECK_DEADLOCK FALSE
