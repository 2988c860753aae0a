\* One room, two players on three sockets: one of them reconnects.
CONSTANTS
  Sockets = {s1, s2, s3}
  Players = {alice, bob}
  NoSocket = NoSocket
  NoPID = NoPID
  Evictions = FALSE
  Administrators = {}
  MaxConns = 3
  Sessions <- PublicRoom
  Patches = {}
  NatClass <- EasyNat
  SoloPlayers = {}
  Codes = {}
  NoCode = ""
  NoRoom = NoRoom
  NotifierDeparts = TRUE
  SessionPartPersists = FALSE
  StrangersClose = FALSE
  CodesClash = FALSE
  UseSearchCriteria = FALSE
  MaxGid = 1
SPECIFICATION FairSpec
INVARIANTS TypeOK RoomsConsistent NoPhantoms
PROPERTIES DepartedLeave
CHECK_DEADLOCK FALSE
