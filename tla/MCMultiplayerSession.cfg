SPECIFICATION Spec
CONSTANTS
  Devices = {a, b}
  NoDevice = NoDevice
  HostDevice = HostDevice
  MaxPlayers = 3
  ConnectionTimeout = 3
  JoinTimeout = 2
  QueueLength = 4
  MaxSessions = 2
  MaxDisturbances = 6
SYMMETRY Symmetry
INVARIANTS
  SeatsSettle
  SeatsExact
CHECK_DEADLOCK FALSE
