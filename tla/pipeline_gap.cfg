SPECIFICATION Spec
CONSTANTS
  m1 = m1
  m2 = m2
  m3 = m3
  m4 = m4
  c1 = c1
  c2 = c2
  o1 = o1
  o2 = o2
  o3 = o3
  Match <- MCMatch
  Carry <- MCCarry
  Combo <- MCCombo
  GameTime <- MCGameTime
  GameVersion <- MCGameVersion
  SetNumber <- MCSetNumber
  Units <- MCUnits
  Built <- MCBuilt
  MinPatchMatches = 1
  PatchMargin = 1
  CarryPercent = 20
  AppearPercent = 33
  MinPicks = 1
  MinCombos = 1
  MinRegen = 2
  RegenEvery = 2
  Images <- Deployed
  MaxRelease = 1
  MaxFaults = 0
PROPERTY NoServingGap
CHECK_DEADLOCK FALSE
