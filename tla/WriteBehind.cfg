\* Two players, two tournament identifiers, one board, two accounts that share an address
\* and a stranger at another; a crash, a failed write and a failed start may come at any step.
CONSTANTS
  Absent = Absent
  MaxCrashes = 2
  MaxFailures = 2
  MaxMarking = 2
  Players = {p1, p2}
  Ids = {1000, 1001}
  Quarantinable = {0, 1000}
  tournamentMax = 2
  Racers = {p1, p2}
  BoardKeys = {board}
  Scores = {0, 1, 2}
  Profiles = {mii}
  Owners = {p1, p2}
  Blobs = {b1, b2}
  commonDataMaxStored = 2
  home = home
  Hosts = {home, elsewhere}
  Accounts = {p1, p2}
  Consoles <- SharedAddress
  authRecallTTL = 1
  authRecallMax = 2
  MaxClock = 2
SPECIFICATION Spec
INVARIANTS SavedWhenQuiet InheritedLoggedInHere
PROPERTY RecordsStand
CHECK_DEADLOCK FALSE
