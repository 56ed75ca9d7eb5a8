SPECIFICATION Spec
CONSTANTS
  c1 = c1
  c2 = c2
  Codes <- MCCodes
  MaxPlayers = 2
  RegistryCapacity = 2
  MaxSequence = 6
  MaxGeneration = 4
  MaxSessionSequence = 6
  MaxSessionGeneration = 4
SYMMETRY CodeSymmetry
INVARIANTS
  RevokedForever
  RosterKept
  EventsTellRoster
PROPERTIES
  CompanyOnlyShrinks
  ImplementsLedger
CHECK_DEADLOCK FALSE
