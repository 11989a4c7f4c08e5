SPECIFICATION Spec
CONSTANTS
  t1 = t1
  t2 = t2
  u1 = u1
  login = login
  item1 = item1
  item2 = item2
  trait1 = trait1
  Tab <- MCTab
  User <- MCUser
  UserOf <- MCUserOf
  Puuid <- MCPuuid
  NoUser = NoUser
  Puzzle <- Items
  NoPuzzle = NoPuzzle
  TypeOf <- MCTypeOf
  IssuedFor <- MCIssuedFor
  Group <- MCGroup
  LastPatch = 2
  MaxAttempts = 3
  MaxFaults = 1
INVARIANT TypeOK
INVARIANT CountedOnce
PROPERTY ServedInOrder
PROPERTY ReviewMissesNothing
SYMMETRY Sym
CHECK_DEADLOCK FALSE
