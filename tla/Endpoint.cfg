\* Two players on two sockets: a player may hold both connections at a time, and
\* three goroutines may be closing one of them.
CONSTANTS
  Sockets = {s1, s2}
  Players = {alice, bob}
  NoSocket = NoSocket
  NoPID = NoPID
  RepeatedConnect = FALSE
  Evictions = TRUE
  Administrators = {admin}
  MaxConns = 2
SPECIFICATION EndpointSpec
INVARIANTS EndpointTypeOK LookupsAreLive NewestIsFound RvcidOwned
PROPERTIES ImplementsRegistry SilentAreEvicted EndedAreForgotten
CHECK_DEADLOCK FALSE
