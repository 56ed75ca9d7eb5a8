SPECIFICATION MCSpec
CONSTANTS
    p1 = p1
    p2 = p2
    m1 = m1
    m2 = m2
    hall = hall
    crypt = crypt
    None = None
    Players = {p1, p2}
    Monsters = {m1, m2}
    Rooms = {hall, crypt}
    Lair <- MCLair
    Native = TRUE
    Speed = 1
    Swings = 2
    Cases <- Duel
    Trouble = 1
PROPERTY TurnsEnd
CHECK_DEADLOCK FALSE
