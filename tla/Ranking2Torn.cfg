\* Two handlers; a crash and a failed write may come at any step.
CONSTANTS
  Stores = {"ranking2"}
  Handlers = {w1, w2}
  NoFile = NoFile
  Empty = Empty
  Torn = Torn
  Absent = Absent
  MaxRequests = 3
  MaxFailures = 1
  MaxCrashes = 1
  PIDs = {1, 2}
  ScoreLists <- MCScoreLists
  RankCategories = {1, 2}
  Players = {"p1"}
  RoundCategories = {0, 1}
  Reports <- MCReports
  InitialRatings = {2}
  RatingModulus = 4
  MaxRounds = 1
  Makers = {m1, m2}
  Outfits = {o1, o2}
  Names = {n1}
  Countries = {c1, c2}
  NoName = NoName
SYMMETRY Symmetry
SPECIFICATION Spec
INVARIANT InterruptionKeepsFile
CHECK_DEADLOCK FALSE
