SPECIFICATION Spec
CONSTANTS
  h = h
  c1 = c1
  c2 = c2
  m1 = m1
  m2 = m2
  r1 = r1
  r2 = r2
  Clients = {c1, c2}
  Host = h
  Monsters = {m1, m2}
  Rooms = {r1, r2}
  Lair <- MCLair
  Speed = 1
  RetryLimit = 1
  Budgets <- MCBudgets
CHECK_DEADLOCK FALSE
INVARIANT MonstersStrikeOnce
