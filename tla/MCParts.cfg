SPECIFICATION MCSpec
CONSTANTS
  Idle = Idle
  Heroes = {rogue}
  Slots = {s0, s1}
  First = s0
  Legacy = legacy
  Nil = Nil
  Progress = 1
  Talkers = {"p", "q"}
  Thresholds = {1}
  Gold = 2
  Walkers = {"p", "m"}
  Plates = {1, 2}
  Levels = {1, 3}
  Warning = 1
  Rounds = 2
  Visitors = {"p", "q"}
  RoomIDs = {"hall", "lair"}
  Entrance = "hall"
  Lair = "lair"
  MaxEntities = 3
  cure = cure
  ration = ration
  page = page
  axe = axe
  sword = sword
  shield = shield
  Capacity = 3
  MaxSequence = 9
  MaxPlayers = 2
  MaxSessionSequence = 6
  MaxSessionGeneration = 4
  Modes = {"party", "serve", "single"}
  Serials = {1, 2, 3}
  MaxConnections = 2
  PrincipalPeers = 2
  AuthFailureLimit = 1
  Principals = {"ann", "ben"}
  TradePlayers = 4
  Items = {"potion", "sword"}
  Stackable = {"potion"}
  MaxStack = 2
  MaxInventory = 2
  MaxLines = 2
  MaxQuantity = 1
  MaxOfferID = 2
  StartingInventory <- Carried
  Adventurers = {0}
  ProtocolVersion = 6
  Builds <- MCBuilds
  Messages <- MCMessages
INVARIANTS
  NothingLost
  NoFreeGuess
  PuzzlesFair
  OnceAndWarned
  RoomsRemember
  RoomsShared
  DungeonHolds
  BelongingsKept
  EffectsEnd
  IdleInTurn
  ControlsObeyed
  RetainsNewest
  NoSilentLoss
  OneVoice
  SessionFollows
  HandsOnTheControls
  OffersApart
  PeersUnderstand
PROPERTIES
  TransfersAreExact
  AnswersAreFinal
CHECK_DEADLOCK FALSE
