SPECIFICATION DevSpec
CONSTANTS
  p1 = p1
  p2 = p2
  m1 = m1
  m2 = m2
  m3 = m3
  m4 = m4
  Player <- MCPlayer
  Match <- MCMatch
  GameTime <- MCGameTime
  GameVersion <- MCGameVersion
  SetNumber <- MCSetNumber
  Participants <- MCParticipants
  Solo <- MCSolo
  Ladder <- MCLadder
  CurrentSet = 18
  Unreachable <- MCUnreachable
  ManyMatches = 2
  SomeMatches = 1
  MinPatchMatches = 2
  PatchMargin = 1
  Margin = 1
  NotBefore = 0
  PlayersPerCycle = 2
  IdsCount = 4
  PublishLag = 1
  MaxCrawl = 0
  MaxTime = 2
  Faults = {"patch_state", "insert", "reconcile", "league", "crash"}
  MaxFaults = 1
  PlayersPerTier = 1
  TargetMatches = 2
  MaxDevRuns = 1
INVARIANT DevTypeOK
INVARIANT NoMatchLost
INVARIANT CurrentCountIsBacked
PROPERTY RecountRestoresTarget
PROPERTY OnlyLateRecountGoesBack
SYMMETRY Sym
CHECK_DEADLOCK FALSE
