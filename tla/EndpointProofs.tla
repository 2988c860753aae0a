--------------------------- MODULE EndpointProofs ---------------------------
(***************************************************************************)
(* Proofs about the connections of an Endpoint, for any number of sockets, *)
(* players and ids, when a console sends one CONNECT per WebSocket         *)
(* (RepeatedConnect is FALSE): the registry invariants, and that Endpoint  *)
(* implements Registry.                                                    *)
(***************************************************************************)
EXTENDS Endpoint, WellFoundedInduction, TLAPS

Closing(s, k) == <<s, k>> \in tested \cup cleared

(* The inductive invariant, in parts. *)

\* The registry and the ids agree.
Owned  == \A i \in ConnIDs : connections[i] # NoSocket => connID[connections[i]] = i
Fresh  == \A s \in Sockets : connID[s] <= connCounter
Unique == \A s, t \in Sockets : connID[s] = connID[t] /\ connID[s] # 0 => s = t

\* A connected connection is registered; a registered one that is not
\* connected is about to be taken out by whoever closed it.
Found  == \A s \in Sockets : state[s] = "connected" => connID[s] # 0 /\ connections[connID[s]] = s
Closed == \A s \in Sockets : connID[s] # 0 /\ connections[connID[s]] = s
            => state[s] = "connected" \/ \E k \in Closers : <<s, k>> \in cleared
Marked == /\ tested \cap cleared = {}
          /\ \A s \in Sockets : \A k \in Closers : <<s, k>> \in cleared => state[s] = "closed"

\* A socket that has not logged in yet.
Before ==
  /\ \A s \in Sockets : state[s] = "connecting" => connID[s] = 0
  /\ \A s \in Sockets : connID[s] = 0 <=> connPID[s] = NoPID

\* The evictors only close what they found in the registry.
Evicted == \A s \in Sockets, k \in Evictors : Closing(s, k) => connID[s] # 0

\* A goroutine closes a logged-in connection once, and a second one does so only
\* because an evictor is among them.
Once ==
  /\ \A s \in Sockets : leaving[s] # {} => state[s] = "closed" /\ connID[s] # 0
  /\ \A s \in Sockets, k \in Closers : Closing(s, k) => k \notin leaving[s]
  /\ \A s \in Sockets, k \in Closers :
       Closing(s, k) /\ connID[s] # 0 /\ connections[connID[s]] # s => Evictions

Inv == /\ EndpointTypeOK
       /\ Owned /\ Fresh /\ Unique
       /\ Found /\ Closed /\ Marked
       /\ Before /\ Evicted /\ Once

-----------------------------------------------------------------------------
(* A nonempty set of bounded numbers has a greatest element. *)
LEMMA GreatestExists ==
  ASSUME NEW N \in Nat, NEW T \in SUBSET (0 .. N), T # {}
  PROVE  \E m \in T : \A n \in T : n <= m
<1> DEFINE D == {N - n : n \in T}
<1>1. D \subseteq Nat
  BY DEF D
<1>2. D # {}
  <2>1. PICK n \in T : TRUE
    OBVIOUS
  <2>2. N - n \in D
    BY <2>1 DEF D
  <2> QED
    BY <2>2
<1>3. PICK d \in D : \A e \in D : <<e, d>> \notin OpToRel(<, Nat)
  BY <1>1, <1>2, WFMin, NatLessThanWellFounded
<1>4. \A e \in D : ~(e < d)
  BY <1>1, <1>3 DEF OpToRel
<1>5. PICK m \in T : d = N - m
  BY <1>3 DEF D
<1>6. ASSUME NEW n \in T
      PROVE  n <= m
  <2>1. N - n \in D
    BY DEF D
  <2>2. ~(N - n < N - m)
    BY <2>1, <1>4, <1>5
  <2> QED
    BY <2>2
<1> QED
  BY <1>6

(* Init establishes the invariant. *)
LEMMA InitInv == EndpointInit => Inv
  BY EndpointAssumption
  DEF EndpointInit, Inv, EndpointTypeOK, Owned, Fresh, Unique, Found, Closed, Marked, Before,
      Evicted, Once, Closing, ConnIDs

(* Every step of an endpoint whose consoles connect once keeps the invariant. *)
LEMMA StepInv ==
  ASSUME RepeatedConnect = FALSE, Inv, [EndpointNext]_endpointVars
  PROVE  Inv'
<1> USE EndpointAssumption DEF ConnIDs
<1>1. ASSUME NEW s \in Sockets, NEW p \in Players, processCONNECT(s, p)
      PROVE  Inv'
  <2> USE <1>1 DEF processCONNECT, registerConnection
  <2> DEFINE n == connCounter + 1
  <2>1. /\ EndpointTypeOK /\ s \in socketOpen /\ ~Busy(s)
        /\ connID[s] = 0 /\ leaving[s] = {} /\ n \in 1 .. MaxConns
    BY DEF Inv, EndpointTypeOK, Once
  <2>2. EndpointTypeOK'
    BY <2>1 DEF EndpointTypeOK
  <2>3. /\ connID' = [connID EXCEPT ![s] = n]
        /\ connections' = [connections EXCEPT ![n] = s]
        /\ \A t \in Sockets : connID[t] \in Nat /\ connID[t] < n
    BY <2>1 DEF Inv, Fresh, EndpointTypeOK
  <2>4. Owned'
    BY <2>1, <2>3 DEF Inv, Owned, EndpointTypeOK
  <2>5. Fresh' /\ Unique'
    BY <2>1, <2>3 DEF Inv, Fresh, Unique, EndpointTypeOK
  <2>6. Found' /\ Closed'
    BY <2>1, <2>3 DEF Inv, Found, Closed, EndpointTypeOK
  <2>7. \A k \in Closers : ~Closing(s, k)
    BY <2>1 DEF Inv, Evicted, Closing, Busy, Closers
  <2>8. Marked'
    BY <2>1, <2>7 DEF Inv, Marked, Closing, EndpointTypeOK
  <2>9. Before'
    BY <2>1, <2>3, <2>7 DEF Inv, Before, Closing, EndpointTypeOK
  <2>10. Evicted'
    BY <2>1, <2>3, <2>7 DEF Inv, Evicted, Closing, EndpointTypeOK
  <2>11. Once'
    BY <2>1, <2>3, <2>7 DEF Inv, Once, Closing, EndpointTypeOK
  <2> QED
    BY <2>2, <2>4, <2>5, <2>6, <2>8, <2>9, <2>10, <2>11 DEF Inv
<1>2. ASSUME NEW s \in Sockets, NEW k \in Closers, BeginClose(s, k),
             k \in Evictors => s \in Registered,
             socketOpen' \subseteq socketOpen, idle' \subseteq idle,
             UNCHANGED <<state, connID, connPID, connections, connCounter, cleared, leaving>>
      PROVE  Inv'
  <2> USE <1>2 DEF BeginClose
  <2>1. EndpointTypeOK'
    BY DEF Inv, EndpointTypeOK
  <2>2. Owned' /\ Fresh' /\ Unique' /\ Found' /\ Closed' /\ Marked'
    BY DEF Inv, Owned, Fresh, Unique, Found, Closed, Marked
  <2>3. Before'
    BY DEF Inv, Before, Closing
  <2>4. Evicted'
    BY DEF Inv, Evicted, Closing, Registered, Owned
  <2>5. state[s] # "closed" => connID[s] = 0 \/ connections[connID[s]] = s
    BY DEF Inv, EndpointTypeOK, Found, Before
  <2>6. Once'
    BY <2>5 DEF Inv, Once, Closing, EndpointTypeOK
  <2> QED
    BY <2>1, <2>2, <2>3, <2>4, <2>6 DEF Inv
<1>3. ASSUME NEW s \in Sockets, NEW k \in Closers, MarkClosed(s, k)
      PROVE  Inv'
  <2> USE <1>3 DEF MarkClosed
  <2>1. EndpointTypeOK'
    BY DEF Inv, EndpointTypeOK
  <2>2. Owned' /\ Fresh' /\ Unique'
    BY DEF Inv, Owned, Fresh, Unique
  <2>3. Found' /\ Closed' /\ Marked'
    BY DEF Inv, EndpointTypeOK, Found, Closed, Marked
  <2>4. \A t \in Sockets, j \in Closers : Closing(t, j)' <=> Closing(t, j)
    BY DEF Closing
  <2>5. Before'
    BY DEF Inv, EndpointTypeOK, Before
  <2>6. Evicted'
    BY <2>4 DEF Inv, Evicted, Closers
  <2>7. Once'
    BY <2>4 DEF Inv, EndpointTypeOK, Once
  <2> QED
    BY <2>1, <2>2, <2>3, <2>5, <2>6, <2>7 DEF Inv
<1>4. ASSUME NEW s \in Sockets, NEW k \in Closers, FinishClose(s, k)
      PROVE  Inv'
  <2> USE <1>4 DEF FinishClose, unregisterConnection
  <2>1. state[s] = "closed"
    BY DEF Inv, Marked
  <2>2. EndpointTypeOK'
    BY DEF Inv, EndpointTypeOK
  <2>3. Owned' /\ Fresh' /\ Unique'
    BY DEF Inv, EndpointTypeOK, Owned, Fresh, Unique
  <2>4. Found'
    BY <2>1 DEF Inv, EndpointTypeOK, Found, Unique
  <2>5. Closed'
    <3>1. \A t \in Sockets, j \in Closers : t # s /\ <<t, j>> \in cleared => <<t, j>> \in cleared'
      OBVIOUS
    <3>2. \A t \in Sockets : connID'[t] # 0 /\ connections'[connID'[t]] = t
                             => t # s /\ connections[connID[t]] = t
      BY DEF Inv, EndpointTypeOK
    <3> QED
      BY <3>1, <3>2 DEF Inv, Closed
  <2>m. Marked'
    BY DEF Inv, EndpointTypeOK, Marked
  <2>6. Before' /\ Evicted'
    BY DEF Inv, EndpointTypeOK, Before, Evicted, Closing
  <2>7. \A t \in Sockets, j \in Closers : Closing(t, j)' => Closing(t, j)
    BY DEF Closing
  <2>8. ~Closing(s, k)' /\ Closing(s, k)
    BY DEF Inv, Marked, Closing
  <2>9. Once'
    <3>1. \A t \in Sockets : (leaving[t] # {} => state[t] = "closed" /\ connID[t] # 0)'
      BY <2>1 DEF Inv, EndpointTypeOK, Once, Before
    <3>2. \A t \in Sockets, j \in Closers : (Closing(t, j) => j \notin leaving[t])'
      BY <2>7, <2>8 DEF Inv, EndpointTypeOK, Once
    <3>3. ASSUME NEW t \in Sockets, NEW j \in Closers, Closing(t, j)',
                 connID'[t] # 0, connections'[connID'[t]] # t
          PROVE  Evictions
      <4>1. CASE connections[connID[t]] # t
        BY <4>1, <2>7, <3>3 DEF Inv, Once
      <4>2. CASE connections[connID[t]] = t
        <5>1. t = s
          BY <4>2, <3>3 DEF Inv, EndpointTypeOK, Unique
        <5>2. j # k
          BY <5>1, <2>8, <3>3
        <5> QED
          BY <5>2 DEF Closers, Evictors
      <4> QED
        BY <4>1, <4>2
    <3> QED
      BY <3>1, <3>2, <3>3 DEF Once
  <2> QED
    BY <2>2, <2>3, <2>4, <2>5, <2>m, <2>6, <2>9 DEF Inv
<1>5. ASSUME NEW s \in Sockets, NEW k \in Closers,
             handlePacket(s) \/ Silence(s) \/ CallbackDone(s, k)
      PROVE  Inv'
  <2>1. /\ UNCHANGED <<state, connID, connPID, socketOpen, connections, connCounter, tested, cleared>>
        /\ idle' \subseteq Sockets
        /\ leaving' \in [Sockets -> SUBSET Closers]
        /\ \A t \in Sockets : leaving'[t] \subseteq leaving[t]
    <3>1. CASE handlePacket(s)
      BY <3>1 DEF handlePacket, Inv, EndpointTypeOK
    <3>2. CASE Silence(s)
      BY <3>2 DEF Silence, Inv, EndpointTypeOK
    <3>3. CASE CallbackDone(s, k)
      BY <3>3 DEF CallbackDone, Inv, EndpointTypeOK
    <3> QED
      BY <1>5, <3>1, <3>2, <3>3
  <2>2. EndpointTypeOK'
    BY <2>1 DEF Inv, EndpointTypeOK
  <2>3. Owned' /\ Fresh' /\ Unique' /\ Found' /\ Closed' /\ Marked' /\ Before' /\ Evicted'
    BY <2>1 DEF Inv, Owned, Fresh, Unique, Found, Closed, Marked, Before, Evicted, Closing
  <2>4. Once'
    BY <2>1 DEF Inv, EndpointTypeOK, Once, Closing
  <2> QED
    BY <2>2, <2>3, <2>4 DEF Inv
<1>6. CASE UNCHANGED endpointVars
  BY <1>6 DEF endpointVars, Inv, EndpointTypeOK, Owned, Fresh, Unique, Found, Closed, Marked,
              Before, Evicted, Once, Closing
<1>r. "receiver" \in Closers /\ "receiver" \notin Evictors /\ Evictors \subseteq Closers
  BY DEF Closers, Evictors
<1>7. ASSUME NEW s \in Sockets, handleDISCONNECT(s) \/ OnClose(s)
      PROVE  Inv'
  <2>1. CASE handleDISCONNECT(s)
    BY <1>r, <2>1, <1>2 DEF handleDISCONNECT
  <2>2. CASE OnClose(s)
    BY <1>r, <2>2, <1>2 DEF OnClose
  <2> QED
    BY <1>7, <2>1, <2>2
<1>8. ASSUME NEW s \in Sockets, NEW k, Evict(s, k)
      PROVE  Inv'
  BY <1>r, <1>8, <1>2 DEF Evict
<1>9. CASE EndpointNext
  <2>1. PICK s \in Sockets :
          \/ ConnectionStep(s) \/ handlePacket(s) \/ Silence(s)
          \/ \E k \in Closers : CallbackDone(s, k)
    BY <1>9 DEF EndpointNext
  <2>2. CASE ConnectionStep(s)
    BY <2>2, <1>1, <1>3, <1>4, <1>7, <1>8 DEF ConnectionStep, ReapIdle, Kick
  <2> QED
    BY <2>1, <2>2, <1>5, <1>r
<1> QED
  BY <1>6, <1>9

-----------------------------------------------------------------------------
RegisteredByID ==
  /\ Registered \subseteq Sockets
  /\ \A s \in Sockets : s \in Registered <=> connID[s] # 0 /\ connections[connID[s]] = s

(* The registered connections are those whose entry is their own. *)
LEMMA RegisteredIff == Inv => RegisteredByID
<1> SUFFICES ASSUME Inv
             PROVE  RegisteredByID
  OBVIOUS
<1> USE EndpointAssumption DEF Inv, EndpointTypeOK, ConnIDs
<1>1. ASSUME NEW s \in Registered
      PROVE  s \in Sockets /\ connID[s] # 0 /\ connections[connID[s]] = s
  <2>1. PICK i \in ConnIDs : connections[i] = s /\ s # NoSocket
    BY DEF Registered
  <2> QED
    BY <2>1 DEF Owned
<1>2. ASSUME NEW s \in Sockets, connID[s] # 0, connections[connID[s]] = s
      PROVE  s \in Registered
  <2>1. connID[s] \in ConnIDs /\ s # NoSocket
    BY <1>2
  <2> QED
    BY <1>2, <2>1 DEF Registered
<1> QED
  BY <1>1, <1>2 DEF RegisteredByID

(* Types: the fields of the connections and of the registry keep their types  *)
(* in every behaviour of the endpoint.                                        *)
THEOREM EndpointTypes ==
  ASSUME RepeatedConnect = FALSE
  PROVE  EndpointSafety => []EndpointTypeOK
<1>1. Inv => EndpointTypeOK
  BY DEF Inv
<1> QED
  BY <1>1, InitInv, StepInv, PTL DEF EndpointSafety

(* Whatever the interleaving of consoles, reaper and administrators, a lookup *)
(* yields a live connection or one being taken out of the registry, by        *)
(* FindConnectionByID as by FindConnectionByPID.                              *)
THEOREM LookupsAlwaysLive ==
  ASSUME RepeatedConnect = FALSE
  PROVE  EndpointSafety => []LookupsAreLive
<1>1. Inv => LookupsAreLive
  BY RegisteredIff DEF RegisteredByID, Inv, LookupsAreLive, Closed
<1> QED
  BY <1>1, InitInv, StepInv, PTL DEF EndpointSafety

(* A connection is found by the id it holds, and an id leads to its holder    *)
(* alone (registerConnection, unregisterConnection).                          *)
THEOREM RvcidAlwaysOwned ==
  ASSUME RepeatedConnect = FALSE
  PROVE  EndpointSafety => []RvcidOwned
<1>1. Inv => RvcidOwned
  BY EndpointAssumption
  DEF Inv, RvcidOwned, ConnIDs, Owned, Found, FindConnectionByID, EndpointTypeOK
<1> QED
  BY <1>1, InitInv, StepInv, PTL DEF EndpointSafety

(* A connected player is found, by a connection at least as new as any of     *)
(* its connections: the reconnection the comment of FindConnectionByPID tells *)
(* of cannot go unseen, for any number of connections of the player.          *)
THEOREM NewestAlwaysFound ==
  ASSUME RepeatedConnect = FALSE
  PROVE  EndpointSafety => []NewestIsFound
<1>1. ASSUME Inv
      PROVE  NewestIsFound
  <2> SUFFICES ASSUME NEW s \in Sockets, state[s] = "connected"
               PROVE  LET f == FindConnectionByPID(connPID[s])
                      IN f # NoSocket /\ connPID[f] = connPID[s] /\ connID[f] >= connID[s]
    BY DEF NewestIsFound
  <2> DEFINE M == MatchesOf(connPID[s])
             f == FindConnectionByPID(connPID[s])
  <2>1. s \in M
    BY <1>1, RegisteredIff DEF RegisteredByID, M, MatchesOf, Inv, Found
  <2>2. M \subseteq Sockets
    BY <1>1, RegisteredIff DEF RegisteredByID, M, MatchesOf
  <2>3. \A t \in M : connPID[t] = connPID[s] /\ connID[t] \in 0 .. MaxConns
    BY <1>1, <2>2 DEF M, MatchesOf, Inv, EndpointTypeOK
  <2>4. PICK g \in M : \A t \in M : connID[t] <= connID[g]
    <3> DEFINE T == {connID[t] : t \in M}
    <3>1. T \in SUBSET (0 .. MaxConns) /\ T # {}
      BY <2>1, <2>3 DEF T
    <3>2. PICK m \in T : \A n \in T : n <= m
      BY <3>1, GreatestExists, EndpointAssumption
    <3> QED
      BY <3>2 DEF T
  <2>5. f = CHOOSE x \in M : \A t \in M : connID[t] <= connID[x]
    BY <2>1 DEF f, M, FindConnectionByPID
  <2>6. f \in M /\ \A t \in M : connID[t] <= connID[f]
    BY <2>4, <2>5
  <2> QED
    BY <2>1, <2>2, <2>3, <2>6, EndpointAssumption
<1> QED
  BY <1>1, InitInv, StepInv, PTL DEF EndpointSafety

-----------------------------------------------------------------------------
(* Refinement *)

(* An endpoint without connections is an empty registry. *)
LEMMA InitRefines == EndpointInit => Promised!RegistryInit
<1> SUFFICES ASSUME EndpointInit
             PROVE  Promised!RegistryInit
  OBVIOUS
<1>1. Registered = {}
  BY DEF EndpointInit, Registered, ConnIDs
<1> QED
  BY <1>1 DEF EndpointInit, Promised!RegistryInit

(* Both modules mean the same goroutines. *)
LEMMA SameClosers == Promised!Closers = Closers
  BY DEF Closers, Evictors, Promised!Closers, Promised!Evictors

(* Every step of the endpoint is a step of the registry, or changes nothing   *)
(* the services above can see.                                                *)
LEMMA StepRefines ==
  ASSUME RepeatedConnect = FALSE, Inv, Inv', [EndpointNext]_endpointVars
  PROVE  [Promised!RegistryNext]_(Promised!registryVars)
<1> USE EndpointAssumption
<1>reg. RegisteredByID /\ RegisteredByID'
  BY RegisteredIff, PTL
<1> DEFINE Seen == <<connID, connPID, Registered, socketOpen, connCounter, leaving>>
<1>0. (UNCHANGED Seen) => UNCHANGED Promised!registryVars
  BY DEF Seen, Promised!registryVars
<1>1. ASSUME NEW s \in Sockets, NEW p \in Players, processCONNECT(s, p)
      PROVE  Promised!Connect(s, p)
  <2>1. /\ s \in socketOpen /\ connID[s] = 0 /\ connCounter < MaxConns
        /\ connCounter' = connCounter + 1
        /\ connID' = [connID EXCEPT ![s] = connCounter + 1]
        /\ connPID' = [connPID EXCEPT ![s] = p]
        /\ UNCHANGED <<socketOpen, leaving>>
    BY <1>1 DEF processCONNECT, registerConnection
  <2>2. Registered' = Registered \cup {s}
    <3>1. connections' = [connections EXCEPT ![connCounter + 1] = s]
      BY <1>1 DEF processCONNECT, registerConnection
    <3>2. connCounter + 1 \in ConnIDs
      BY <2>1 DEF Inv, EndpointTypeOK, ConnIDs
    <3>3. connections[connCounter + 1] = NoSocket
      BY <3>2 DEF Inv, EndpointTypeOK, Owned, Fresh
    <3> QED
      BY <3>1, <3>2, <3>3 DEF Registered, Inv, EndpointTypeOK
  <2> QED
    BY <2>1, <2>2 DEF Promised!Connect
<1>2. ASSUME NEW s \in Sockets, OnClose(s)
      PROVE  Promised!HangUp(s)
  BY <1>2 DEF OnClose, Promised!HangUp, Registered
<1>3. ASSUME NEW s \in Sockets, NEW k \in Closers, FinishClose(s, k)
      PROVE  Promised!Leave(s, k) \/ Promised!LeaveAgain(s, k) \/ UNCHANGED Seen
  <2>1. /\ UNCHANGED <<connID, connPID, socketOpen, connCounter>>
        /\ leaving' = [leaving EXCEPT ![s] = IF connPID[s] = NoPID THEN @ ELSE @ \cup {k}]
        /\ connections' = [i \in ConnIDs |-> IF i = connID[s] THEN NoSocket ELSE connections[i]]
        /\ Closing(s, k)
    BY <1>3 DEF FinishClose, unregisterConnection, Closing
  <2>2. Registered' = Registered \ {s}
    <3>1. \A t \in Sockets : t # s /\ connID[t] # 0 => connID[t] # connID[s]
      BY DEF Inv, Unique
    <3>2. \A t \in Sockets : t \in Registered' <=> t \in Registered \ {s}
      <4> SUFFICES ASSUME NEW t \in Sockets
                   PROVE  t \in Registered' <=> t \in Registered \ {s}
        OBVIOUS
      <4>1. /\ t \in Registered <=> connID[t] # 0 /\ connections[connID[t]] = t
            /\ t \in Registered' <=> connID[t] # 0 /\ connections'[connID[t]] = t
        BY <2>1, <1>reg DEF RegisteredByID
      <4>2. connID[t] # 0 => connID[t] \in ConnIDs
        BY DEF Inv, EndpointTypeOK, ConnIDs
      <4>3. CASE t = s
        BY <2>1, <4>1, <4>2, <4>3
      <4>4. CASE t # s
        BY <2>1, <3>1, <4>1, <4>2, <4>4
      <4> QED
        BY <4>3, <4>4
    <3> QED
      BY <3>2, <1>reg DEF RegisteredByID
  <2>3. CASE connID[s] = 0
    <3>1. connPID[s] = NoPID /\ s \notin Registered
      BY <2>3, <1>reg DEF RegisteredByID, Inv, Before
    <3>2. leaving' = leaving
      BY <2>1, <3>1 DEF Inv, EndpointTypeOK
    <3> QED
      BY <2>1, <2>2, <3>1, <3>2 DEF Seen
  <2>4. CASE connID[s] # 0
    <3>1. leaving' = [leaving EXCEPT ![s] = @ \cup {k}]
      BY <2>1, <2>4 DEF Inv, EndpointTypeOK, Before
    <3>2. CASE s \in Registered
      BY <2>1, <2>2, <3>1, <3>2 DEF Promised!Leave
    <3>3. CASE s \notin Registered
      <4>1. Evictions /\ k \notin leaving[s]
        BY <2>1, <2>4, <3>3, <1>reg DEF RegisteredByID, Inv, Once
      <4> QED
        BY <2>1, <2>2, <2>4, <3>1, <3>3, <4>1 DEF Promised!LeaveAgain
    <3> QED
      BY <3>2, <3>3
  <2> QED
    BY <2>3, <2>4
<1>4. ASSUME NEW s \in Sockets, NEW k \in Closers, CallbackDone(s, k)
      PROVE  Promised!Disconnected(s, k)
  BY <1>4 DEF CallbackDone, Promised!Disconnected, Registered
<1>5. ASSUME NEW s \in Sockets, NEW k,
             handleDISCONNECT(s) \/ Evict(s, k) \/ MarkClosed(s, k) \/ handlePacket(s) \/ Silence(s)
      PROVE  UNCHANGED Seen
  BY <1>5 DEF handleDISCONNECT, Evict, MarkClosed, handlePacket, Silence, Seen, Registered
<1>6. CASE UNCHANGED endpointVars
  BY <1>6, <1>0 DEF endpointVars, Seen, Registered
<1>7. CASE EndpointNext
  <2>1. PICK s \in Sockets :
          \/ ConnectionStep(s) \/ handlePacket(s) \/ Silence(s)
          \/ \E k \in Closers : CallbackDone(s, k)
    BY <1>7 DEF EndpointNext
  <2>2. CASE ConnectionStep(s)
    <3>1. \/ \E p \in Players : Promised!Connect(s, p)
          \/ \E k \in Closers : Promised!Leave(s, k) \/ Promised!LeaveAgain(s, k)
          \/ Promised!HangUp(s) \/ UNCHANGED Seen
      BY <2>2, <1>1, <1>2, <1>3, <1>5 DEF ConnectionStep, ReapIdle, Kick
    <3> QED
      BY <3>1, <1>0, SameClosers DEF Promised!RegistryNext, Promised!RegistryStep
  <2>3. CASE \E k \in Closers : CallbackDone(s, k)
    BY <2>3, <1>4, SameClosers DEF Promised!RegistryNext
  <2> QED
    BY <2>1, <2>2, <2>3, <1>0, <1>5
<1> QED
  BY <1>6, <1>7

(* The endpoint implements the registry the other services rely on, for any   *)
(* number of sockets, players and administrators: entering and leaving look   *)
(* atomic although close() is not, ids are fresh, and a connection that       *)
(* leaves is followed by its OnDisconnect call, once for every goroutine that *)
(* closed it; without evictions that is once in all.                          *)
THEOREM EndpointImplementsRegistry ==
  ASSUME RepeatedConnect = FALSE
  PROVE  EndpointSafety => ImplementsRegistry
<1>1. EndpointSafety => []Inv
  BY InitInv, StepInv, PTL DEF EndpointSafety
<1> QED
  BY <1>1, InitRefines, StepRefines, PTL
  DEF EndpointSafety, ImplementsRegistry, Promised!RegistrySpec
=============================================================================
