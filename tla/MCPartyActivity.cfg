SPECIFICATION Spec
CONSTANTS
  c1 = c1
  c2 = c2
  Clients = {c1, c2}
  Rooms = {1, 2}
  RetryLimit = 1
  StartRepeats = 1
  Plans <- Travels
SYMMETRY Same
INVARIANTS GoTogether SameRoom SpellsAreSeen
CHECK_DEADLOCK FALSE
