\* Three pairs that hash to the same port, a range of two, two callers.
CONSTANTS
  far = far
  other = other
  third = third
  Pairs <- ThreePairs
  Souhaite <- HashAlike
  Reseaux <- Networks
  Adresses <- TheirAddresses
  Callers = {c1, c2}
  Span = 2
  Probes = 2
  Sources <- Endpoints
  Reseau <- NetworkOf
  NoPair = NoPair
  NoPort = NoPort
  NoSocket = NoSocket
  NoSource = NoSource
  NoAddress = NoAddress
SPECIFICATION FairSpec
INVARIANTS TypeOK RegistersAgree OneReaper PlacesApart
PROPERTIES OccupantKept 
CHECK_DEADLOCK FALSE
