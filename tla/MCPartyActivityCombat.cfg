SPECIFICATION Spec
CONSTANTS
  c1 = c1
  c2 = c2
  Clients = {c1, c2}
  Rooms = {1}
  RetryLimit = 1
  StartRepeats = 1
  Plans <- Fights
SYMMETRY Same
PROPERTIES NobodyIsRemoved
CHECK_DEADLOCK FALSE
