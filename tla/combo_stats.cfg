SPECIFICATION Spec
CONSTANTS
  c1 = c1
  c2 = c2
  oA = oA
  oB = oB
  oC = oC
  oD = oD
  r1 = r1
  r2 = r2
  Carry = {c1, c2}
  Combo = {oA, oB, oC, oD}
  Board <- MCBoard
  LastMatch = 2
  Tanky = {oB}
  CarryPercent = 20
  Batch = 4
  MinPicks = 1
  MinCombos = 4
  PerQuiz = 3
  Shrink = 1
  Run = {r1, r2}
  MaxRuns = 3
  MaxFaults = 1
INVARIANT TypeOK
INVARIANT TablesAreExact
INVARIANT LastClearStands
INVARIANT FlagsFollowCounts
INVARIANT QuizzesAgree
INVARIANT AnswerNotDominated
SYMMETRY Sym
CHECK_DEADLOCK FALSE
