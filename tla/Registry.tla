------------------------------ MODULE Registry ------------------------------
(***************************************************************************)
(* What an Endpoint promises the services above it: a registry of live     *)
(* connections, each with an id of its own that grows with every login, a  *)
(* player found by its newest connection, and for every connection that    *)
(* leaves the registry a call of OnDisconnect, by every goroutine that     *)
(* closed it.  Entering and leaving are one step each.  Endpoint           *)
(* implements this specification; Matchmaking is built on it.              *)
(***************************************************************************)
EXTENDS Integers

CONSTANTS
  Sockets, Players, NoSocket, NoPID,
  Evictions,       \* may connections be closed by the reaper or an administrator?
  Administrators,  \* goroutines of the administrators' requests
  MaxConns         \* bound on connCounter

ASSUME RegistryAssumption ==
  /\ NoSocket \notin Sockets /\ NoPID \notin Players
  /\ {"receiver", "reaper"} \cap Administrators = {}
  /\ Evictions \in BOOLEAN /\ MaxConns \in Nat

VARIABLES
  connID, connPID,  \* of every socket; 0 and NoPID before it logs in
  live,             \* sockets whose connection is in the registry
  socketOpen,       \* sockets that can still send requests
  connCounter,      \* last id handed out
  leaving           \* OnDisconnect calls due, per socket: the goroutines that make them

registryVars == <<connID, connPID, live, socketOpen, connCounter, leaving>>

(* The goroutines that close a connection: that of its socket, and the others. *)
Evictors == IF Evictions THEN {"reaper"} \cup Administrators ELSE {}
Closers == {"receiver"} \cup Evictors

RegistryInit ==
  /\ connID = [s \in Sockets |-> 0]
  /\ connPID = [s \in Sockets |-> NoPID]
  /\ live = {} /\ socketOpen = Sockets
  /\ connCounter = 0
  /\ leaving = [s \in Sockets |-> {}]

(* A login on a socket: a fresh id. *)
Connect(s, p) ==
  /\ s \in socketOpen /\ connID[s] = 0
  /\ connCounter < MaxConns
  /\ connCounter' = connCounter + 1
  /\ connID' = [connID EXCEPT ![s] = connCounter + 1]
  /\ connPID' = [connPID EXCEPT ![s] = p]
  /\ live' = live \cup {s}
  /\ UNCHANGED <<socketOpen, leaving>>

(* A connection leaves the registry and OnDisconnect is due. *)
Leave(s, k) ==
  /\ s \in live
  /\ live' = live \ {s}
  /\ leaving' = [leaving EXCEPT ![s] = @ \cup {k}]
  /\ UNCHANGED <<connID, connPID, socketOpen, connCounter>>

(* Another goroutine closed the connection as well, which takes an eviction:  *)
(* OnDisconnect is due once more.                                             *)
LeaveAgain(s, k) ==
  /\ Evictions /\ k \notin leaving[s]
  /\ s \notin live /\ connID[s] # 0
  /\ leaving' = [leaving EXCEPT ![s] = @ \cup {k}]
  /\ UNCHANGED <<connID, connPID, live, socketOpen, connCounter>>

(* The WebSocket ends: no more requests. *)
HangUp(s) ==
  /\ s \in socketOpen
  /\ socketOpen' = socketOpen \ {s}
  /\ UNCHANGED <<connID, connPID, live, connCounter, leaving>>

(* OnDisconnect has run. *)
Disconnected(s, k) ==
  /\ k \in leaving[s]
  /\ leaving' = [leaving EXCEPT ![s] = @ \ {k}]
  /\ UNCHANGED <<connID, connPID, live, socketOpen, connCounter>>

RegistryStep(s) ==
  \/ \E p \in Players : Connect(s, p)
  \/ \E k \in Closers : Leave(s, k) \/ LeaveAgain(s, k)
  \/ HangUp(s)

RegistryNext ==
  \E s \in Sockets : RegistryStep(s) \/ \E k \in Closers : Disconnected(s, k)

RegistrySpec == RegistryInit /\ [][RegistryNext]_registryVars

-----------------------------------------------------------------------------
(* The lookups of the registry. *)

Of(p) == {s \in live : connPID[s] = p}

(* FindConnectionByPID: the newest one, or nil. *)
NewestOf(p) ==
  IF Of(p) = {} THEN NoSocket
  ELSE CHOOSE s \in Of(p) : \A t \in Of(p) : connID[t] <= connID[s]

Online(p) == Of(p) # {}

(* FindConnectionByID # nil *)
LiveID(i) == \E s \in live : connID[s] = i
=============================================================================
