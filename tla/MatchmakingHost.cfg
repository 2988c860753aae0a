\* Two players in one room; the host leaves and the room migrates.
CONSTANTS
  Sockets = {s1, s2}
  Players = {alice, bob}
  NoSocket = NoSocket
  NoPID = NoPID
  Evictions = FALSE
  Administrators = {}
  MaxConns = 2
  Sessions <- PublicRoom
  Patches = {}
  NatClass <- EasyNat
  SoloPlayers = {}
  Codes = {}
  NoCode = ""
  NoRoom = NoRoom
  NotifierDeparts = TRUE
  SessionPartPersists = FALSE
  StrangersClose = FALSE
  CodesClash = FALSE
  UseSearchCriteria = FALSE
  MaxGid = 1
SPECIFICATION Spec
INVARIANT HostReachable
CHECK_DEADLOCK FALSE
