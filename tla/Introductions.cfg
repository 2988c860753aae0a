\* Two players and three lists of volunteers; a host and a joiner on six networks.
CONSTANTS
  Gamers = {1, 2}
  VolunteerLists <- Lists
  besoinFenetre = 2
  relayVuTTL = 1
  besoinSeuil = 2
  jamaisConnecteSeuil = 2
  Unknown = Unknown
  MaxTime = 3
  MaxVerdicts = 3
  Consoles = {"h", "j"}
  Hosts = {"h"}
  tcpPort <- MCTcp
  udpPort <- MCUdp
  relayPort = 99
  UnsetPort = 1
  Nothing = Nothing
  maxPolls = 1
  PublicIPs = {"here", "there"}
  PrivateIPs = {"loopback"}
  Loopback = "loopback"
  Titles <- MCTitles
  Networks <- MCNetworks
SPECIFICATION Spec
INVARIANTS RelayEarned CandidatesWithoutPath PointsAtPeer
PROPERTY CallsAnswered
CHECK_DEADLOCK FALSE
