\* Two rooms of either kind, two players with a connection each who cannot reach
\* each other directly: searching, friend-joins, codes, abandoned rooms.
CONSTANTS
  Sockets = {s1, s2}
  Players = {alice, bob}
  NoSocket = NoSocket
  NoPID = NoPID
  Evictions = TRUE
  Administrators = {}
  MaxConns = 2
  Sessions <- PrivateRoom
  Patches <- HostPatch
  NatClass <- HardNat
  SoloPlayers = {}
  Codes = {"AAAAA"}
  NoCode = ""
  NoRoom = NoRoom
  NotifierDeparts = TRUE
  SessionPartPersists = TRUE
  StrangersClose = TRUE
  CodesClash = FALSE
  UseSearchCriteria = TRUE
  MaxGid = 2
SPECIFICATION Spec
INVARIANTS CodesResolve
PROPERTIES NeverOverfilled
SYMMETRY PeerSymmetry
CHECK_DEADLOCK FALSE
