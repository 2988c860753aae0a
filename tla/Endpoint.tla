------------------------------ MODULE Endpoint ------------------------------
(***************************************************************************)
(* The life of the connections of one Endpoint (endpoint.go, reaper.go,    *)
(* server.go): the registry that matchmaking looks players up in, CONNECT, *)
(* the ways a connection is closed (a DISCONNECT packet, the end of its    *)
(* WebSocket, eviction by the reaper, an administrator's kick) and the     *)
(* OnDisconnect callback.                                                  *)
(*                                                                         *)
(* A socket stands for one WebSocket and the Connection made for it.  Its  *)
(* packets are handled by one goroutine, one after the other; the reaper   *)
(* and the administrators' requests run beside it, each on a goroutine of  *)
(* its own.  close() takes no lock around c.state, so it is three steps    *)
(* here: its test, the assignment, and the removal from the registry       *)
(* followed by the callback; any number of goroutines may be inside it.    *)
(***************************************************************************)
EXTENDS Integers

CONSTANTS
  Sockets, Players,
  NoSocket, NoPID,   \* nil, and the zero PID of a connection that never logged in
  RepeatedConnect,   \* may a console send CONNECT more than once on a socket?
  Evictions,         \* do the reaper and the administrators close connections?
  Administrators,    \* goroutines of the administrators' requests
  MaxConns           \* bound on connCounter

ASSUME EndpointAssumption ==
  /\ NoSocket \notin Sockets /\ NoPID \notin Players
  /\ {"receiver", "reaper"} \cap Administrators = {}
  /\ RepeatedConnect \in BOOLEAN /\ Evictions \in BOOLEAN
  /\ MaxConns \in Nat

VARIABLES
  state,        \* c.state
  connID,       \* c.ID, 0 before the first CONNECT
  connPID,      \* c.PID
  socketOpen,   \* sockets whose read loop runs
  connections,  \* e.connections
  connCounter,  \* e.connCounter
  idle,         \* connections of the registry without a packet for ReapIdleTimeout
  tested,       \* <<socket, closer>>: inside close(), c.state seen not closed
  cleared,      \* <<socket, closer>>: inside close(), c.state assigned
  leaving       \* OnDisconnect callbacks due, per socket: the closers that call

endpointVars == <<state, connID, connPID, socketOpen, connections, connCounter,
                  idle, tested, cleared, leaving>>

ConnIDs == 1 .. MaxConns

(* Who runs close(): the goroutine of the socket, the reaper, the administrators. *)
Evictors == IF Evictions THEN {"reaper"} \cup Administrators ELSE {}
Closers == {"receiver"} \cup Evictors

EndpointInit ==
  /\ state = [s \in Sockets |-> "connecting"]
  /\ connID = [s \in Sockets |-> 0]
  /\ connPID = [s \in Sockets |-> NoPID]
  /\ socketOpen = Sockets
  /\ connections = [i \in ConnIDs |-> NoSocket]
  /\ connCounter = 0
  /\ idle = {} /\ tested = {} /\ cleared = {}
  /\ leaving = [s \in Sockets |-> {}]

-----------------------------------------------------------------------------
(* Lookups *)

Registered == {connections[i] : i \in ConnIDs} \ {NoSocket}

FindConnectionByID(i) == IF i \in ConnIDs THEN connections[i] ELSE NoSocket

MatchesOf(p) == {s \in Registered : connPID[s] = p}

FindConnectionByPID_AnyMatch(p) ==
  IF MatchesOf(p) = {} THEN NoSocket
  ELSE CHOOSE s \in MatchesOf(p) : \A t \in MatchesOf(p) : connID[s] <= connID[t]

(* The newest connection of the player: two may be registered at a time. *)
FindConnectionByPID(p) ==
  IF MatchesOf(p) = {} THEN NoSocket
  ELSE CHOOSE s \in MatchesOf(p) : \A t \in MatchesOf(p) : connID[t] <= connID[s]

-----------------------------------------------------------------------------
(* CONNECT *)

Register_NoIncrement(s) ==
  /\ connCounter < MaxConns
  /\ connCounter' = connCounter
  /\ connID' = [connID EXCEPT ![s] = connCounter + 1]
  /\ connections' = [connections EXCEPT ![connCounter + 1] = s]

Register_IdAhead(s) ==
  /\ connCounter < MaxConns
  /\ connCounter' = connCounter + 1
  /\ connID' = [connID EXCEPT ![s] = connCounter + 2]
  /\ connections' = [connections EXCEPT ![connCounter + 1] = s]

(* A fresh id, whatever id the connection had before. *)
registerConnection(s) ==
  /\ connCounter < MaxConns
  /\ connCounter' = connCounter + 1
  /\ connID' = [connID EXCEPT ![s] = connCounter + 1]
  /\ connections' = [connections EXCEPT ![connCounter + 1] = s]

(* The goroutine of the socket is inside close(): it handles no packet. *)
Busy(s) == <<s, "receiver">> \in tested \cup cleared

(* processCONNECT with a signature and a login that are accepted.  Between    *)
(* c.state and the registration nobody else can reach the connection, which   *)
(* is in no registry yet: they are one step.                                  *)
processCONNECT(s, p) ==
  /\ s \in socketOpen /\ ~Busy(s)
  /\ connPID[s] \in {NoPID, p}
  /\ RepeatedConnect \/ connID[s] = 0
  /\ connPID' = [connPID EXCEPT ![s] = p]
  /\ state' = [state EXCEPT ![s] = "connected"]
  /\ registerConnection(s)
  /\ idle' = idle \ {s}
  /\ UNCHANGED <<socketOpen, tested, cleared, leaving>>

(* Any other packet proves the console alive, its connection closed or not. *)
handlePacket(s) ==
  /\ s \in socketOpen /\ ~Busy(s)
  /\ idle' = idle \ {s}
  /\ UNCHANGED <<state, connID, connPID, socketOpen, connections, connCounter,
                 tested, cleared, leaving>>

-----------------------------------------------------------------------------
(* close() *)

(* The test of c.state: a closed connection is not closed again. *)
BeginClose(s, k) ==
  /\ <<s, k>> \notin tested \cup cleared
  /\ tested' = IF state[s] = "closed" THEN tested ELSE tested \cup {<<s, k>>}

(* c.state = stateClosed. *)
MarkClosed(s, k) ==
  /\ <<s, k>> \in tested
  /\ tested' = tested \ {<<s, k>>}
  /\ cleared' = cleared \cup {<<s, k>>}
  /\ state' = [state EXCEPT ![s] = "closed"]
  /\ UNCHANGED <<connID, connPID, socketOpen, connections, connCounter, idle, leaving>>

Unregister_ByPID(s) ==
  connections' = [i \in ConnIDs |->
    IF connections[i] # NoSocket /\ connPID[connections[i]] = connPID[s]
    THEN NoSocket ELSE connections[i]]

Unregister_Nothing(s) == connections' = connections

(* The entry of the id the connection has now. *)
unregisterConnection(s) ==
  connections' = [i \in ConnIDs |-> IF i = connID[s] THEN NoSocket ELSE connections[i]]

(* The connection leaves the registry and its OnDisconnect callback is due;   *)
(* that of a connection that never logged in concerns no player.              *)
FinishClose(s, k) ==
  /\ <<s, k>> \in cleared
  /\ cleared' = cleared \ {<<s, k>>}
  /\ unregisterConnection(s)
  /\ leaving' = [leaving EXCEPT ![s] = IF connPID[s] = NoPID THEN @ ELSE @ \cup {k}]
  /\ idle' = idle \cap Registered'
  /\ UNCHANGED <<state, connID, connPID, socketOpen, connCounter, tested>>

(* The console says DISCONNECT, logged in or not; the socket stays open, and  *)
(* a CONNECT may still follow.                                                *)
handleDISCONNECT(s) ==
  /\ s \in socketOpen
  /\ BeginClose(s, "receiver")
  /\ idle' = idle \ {s}
  /\ UNCHANGED <<state, connID, connPID, socketOpen, connections, connCounter, cleared, leaving>>

(* The WebSocket ends: Server.OnClose closes the connection it belonged to. *)
OnClose(s) ==
  /\ s \in socketOpen
  /\ socketOpen' = socketOpen \ {s}
  /\ BeginClose(s, "receiver")
  /\ UNCHANGED <<state, connID, connPID, connections, connCounter, idle, cleared, leaving>>

(* A goroutine beside those of the sockets closes a connection of the         *)
(* registry, one at a time; the socket stays open.                            *)
Evict(s, k) ==
  /\ k \in Evictors
  /\ \A t \in Sockets : <<t, k>> \notin tested \cup cleared
  /\ s \in Registered /\ state[s] # "closed"
  /\ BeginClose(s, k)
  /\ UNCHANGED <<state, connID, connPID, socketOpen, connections, connCounter, idle,
                 cleared, leaving>>

(* The reaper finds the connection idle for too long. *)
ReapIdle(s) == s \in idle /\ Evict(s, "reaper")

(* KickPID and KickConnection close any connection of the registry. *)
Kick(s, k) == k \in Administrators /\ Evict(s, k)

(* ReapIdleTimeout passes without a packet. *)
Silence(s) ==
  /\ state[s] = "connected" /\ s \notin idle
  /\ idle' = idle \cup {s}
  /\ UNCHANGED <<state, connID, connPID, socketOpen, connections, connCounter,
                 tested, cleared, leaving>>

(* The OnDisconnect callback, of the game server, has run. *)
CallbackDone(s, k) ==
  /\ k \in leaving[s]
  /\ leaving' = [leaving EXCEPT ![s] = @ \ {k}]
  /\ UNCHANGED <<state, connID, connPID, socketOpen, connections, connCounter,
                 idle, tested, cleared>>

(* What changes the registry, or is about to. *)
ConnectionStep(s) ==
  \/ \E p \in Players : processCONNECT(s, p)
  \/ handleDISCONNECT(s)
  \/ OnClose(s)
  \/ ReapIdle(s)
  \/ \E k \in Administrators : Kick(s, k)
  \/ \E k \in Closers : MarkClosed(s, k) \/ FinishClose(s, k)

EndpointNext ==
  \E s \in Sockets :
    \/ ConnectionStep(s) \/ handlePacket(s) \/ Silence(s)
    \/ \E k \in Closers : CallbackDone(s, k)

EndpointSafety == EndpointInit /\ [][EndpointNext]_endpointVars

(* The reaper's loop runs for ever and every goroutine is scheduled. *)
EndpointFairness ==
  \A s \in Sockets :
    /\ WF_endpointVars(ReapIdle(s))
    /\ \A k \in Closers : WF_endpointVars(MarkClosed(s, k) \/ FinishClose(s, k))

EndpointSpec == EndpointSafety /\ EndpointFairness

-----------------------------------------------------------------------------
(* Properties *)

(* Types of the registry, of the connections' fields and of close()'s steps. *)
EndpointTypeOK ==
  /\ state \in [Sockets -> {"connecting", "connected", "closed"}]
  /\ connID \in [Sockets -> 0 .. MaxConns]
  /\ connPID \in [Sockets -> Players \cup {NoPID}]
  /\ socketOpen \subseteq Sockets
  /\ connections \in [ConnIDs -> Sockets \cup {NoSocket}]
  /\ connCounter \in 0 .. MaxConns
  /\ idle \subseteq Sockets
  /\ tested \subseteq Sockets \X Closers
  /\ cleared \subseteq Sockets \X Closers
  /\ leaving \in [Sockets -> SUBSET Closers]

(* A lookup by id or by player yields a live connection, or one that some     *)
(* goroutine is taking out of the registry at that moment                     *)
(* (FindConnectionByID: "the live connection with the given id, or nil").     *)
LookupsAreLive ==
  \A s \in Registered :
    \/ state[s] = "connected"
    \/ \E k \in Closers : <<s, k>> \in cleared

(* A connected player is found, by its newest connection: a reconnection      *)
(* takes over at once from the connection it replaces, and the late end of    *)
(* the old one does not hide the new one (FindConnectionByPID).               *)
NewestIsFound ==
  \A s \in Sockets : state[s] = "connected" =>
    LET f == FindConnectionByPID(connPID[s])
    IN f # NoSocket /\ connPID[f] = connPID[s] /\ connID[f] >= connID[s]

(* A connected connection is found by its id, and an id handed out never      *)
(* leads to another connection than the one that holds it: the RVCID a joiner *)
(* was given cannot reach somebody else (registerConnection).                 *)
RvcidOwned ==
  /\ \A i \in ConnIDs : connections[i] # NoSocket => connID[connections[i]] = i
  /\ \A s \in Sockets : state[s] = "connected" => FindConnectionByID(connID[s]) = s

(* The endpoint is a registry to the services above it: entering and leaving  *)
(* look atomic, ids are fresh, a connection that leaves is followed by an     *)
(* OnDisconnect call of every goroutine that closed it, and by more than one  *)
(* only when it was evicted (registerConnection, close).                      *)
Promised == INSTANCE Registry WITH live <- Registered
ImplementsRegistry == Promised!RegistrySpec

(* A console that has gone silent does not stay registered: the reaper evicts *)
(* it unless it speaks again (ReapIdle).                                      *)
SilentAreEvicted ==
  \A s \in Sockets :
    (s \in idle /\ s \in Registered) ~> (s \notin Registered \/ s \notin idle)

(* When the WebSocket ends the connection leaves the registry, whatever the   *)
(* reaper or an administrator is doing to it (Server.OnClose).                *)
EndedAreForgotten ==
  \A s \in Sockets : (s \notin socketOpen) ~> [](s \notin Registered)
=============================================================================
