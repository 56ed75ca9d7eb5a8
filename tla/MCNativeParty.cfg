SPECIFICATION Spec
CONSTANTS
  MaxControllers = 3
  Adventures <- MCAdventures
  Resters <- MCResters
  Traders <- MCTraders
  Fighters <- MCFighters
INVARIANTS
  RostersAgree
  WorldsInOrder
  TradesBindPartners
CHECK_DEADLOCK FALSE
