SPECIFICATION FairSpec
CONSTANTS
  m1 = m1
  m2 = m2
  m3 = m3
  m4 = m4
  c1 = c1
  c2 = c2
  o1 = o1
  o2 = o2
  o3 = o3
  Match <- MCMatch
  Carry <- MCCarry
  Combo <- LateCombo
  GameTime <- MCGameTime
  GameVersion <- LateGameVersion
  SetNumber <- MCSetNumber
  Units <- LateUnits
  Built <- LateBuilt
  MinPatchMatches = 1
  PatchMargin = 1
  CarryPercent = 20
  AppearPercent = 33
  MinPicks = 1
  MinCombos = 2
  MinRegen = 3
  RegenEvery = 2
  Images <- DeployedOrFull
  MaxRelease = 2
  MaxFaults = 1
INVARIANT TypeOK
PROPERTY ImplementsPublication
PROPERTY QuizBasisGrows
PROPERTY QuizzesFollowPatch
PROPERTY DeckQuizzesFollowPatch
PROPERTY SpecialStatsFollowRelease
CHECK_DEADLOCK FALSE
