SPECIFICATION Spec
CONSTANTS
  p1 = p1
  p2 = p2
  m1 = m1
  m2 = m2
  m3 = m3
  m4 = m4
  Player <- MCPlayer
  Match <- MCMatch
  GameTime <- MCGameTime
  GameVersion <- MCGameVersion
  SetNumber <- MCSetNumber
  Participants <- MCParticipants
  Solo <- MCSolo
  Ladder <- MCLadder
  CurrentSet = 18
  Unreachable = {}
  ManyMatches = 2
  SomeMatches = 1
  MinPatchMatches = 1
  PatchMargin = 1
  Margin = 2
  NotBefore = 0
  PlayersPerCycle = 2
  IdsCount = 2
  PublishLag = 1
  MaxCrawl = 1
  MaxTime = 5
  Faults = {"patch_state", "league", "upsert", "last_crawled", "match_ids", "existing", "insert", "mark", "reconcile", "prune", "crash"}
  MaxFaults = 2
INVARIANT TypeOK
INVARIANT NoMatchLost
INVARIANT CurrentCountIsBacked
PROPERTY TargetNeverGoesBack
PROPERTY ImplementsMatchStore
CHECK_DEADLOCK FALSE
