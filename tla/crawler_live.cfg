SPECIFICATION FairSpec
CONSTANTS
  p1 = p1
  p2 = p2
  p3 = p3
  m1 = m1
  m2 = m2
  m3 = m3
  Player <- MCPlayer
  Match <- MCMatch
  GameTime <- MCGameTime
  GameVersion <- MCGameVersion
  SetNumber <- MCSetNumber
  Participants <- MCParticipants
  Solo <- MCMatch
  Ladder <- MCLadder
  CurrentSet = 18
  Unreachable <- MCUnreachable
  ManyMatches = 9
  SomeMatches = 9
  MinPatchMatches = 1
  PatchMargin = 1
  Margin = 1
  NotBefore = 0
  PlayersPerCycle = 2
  IdsCount = 3
  PublishLag = 0
  MaxCrawl = 1
  MaxTime = 3
  Faults = {"detail", "insert", "last_crawled", "crash"}
  MaxFaults = 1
PROPERTY NewPatchAdopted
PROPERTY EveryPlayerCrawled
PROPERTY EveryMatchDecided
CHECK_DEADLOCK FALSE
