SPECIFICATION Spec
CONSTANTS
  t1 = t1
  t2 = t2
  u1 = u1
  login = login
  item1 = item1
  item2 = item2
  trait1 = trait1
  Tab <- OneTab
  User <- WithLogin
  UserOf <- MCUserOf
  Puuid <- LoggedIn
  NoUser = NoUser
  Puzzle <- MCPuzzle
  NoPuzzle = NoPuzzle
  TypeOf <- MCTypeOf
  IssuedFor <- MCIssuedFor
  Group <- MCGroup
  LastPatch = 2
  MaxAttempts = 3
  MaxFaults = 0
PROPERTY ReviewServesPending
CHECK_DEADLOCK FALSE
