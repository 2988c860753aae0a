-------------------------- MODULE PairRelayProofs --------------------------
(***************************************************************************)
(* Proofs about the pair relay, for any number of pairs, callers, ports,   *)
(* probes and endpoints: the two registers agree, one reaper watches the   *)
(* open ports, the two places of a port stay apart, and a pair that talks  *)
(* is not displaced.                                                       *)
(***************************************************************************)
EXTENDS PairRelay, TLAPS

(* The inductive invariant, in parts. *)

\* A call that still has its socket is about to fill in that of its own pair.
HeldIsOwn ==
  \A c \in Callers : calls[c].stage = "held" =>
    calls[c].port \in OpenPorts /\ pairSocks[calls[c].port].pair = calls[c].pair

Calling == \A c \in Callers : calls[c].stage \in {"hashed", "sized", "held"} => calls[c].pair \in Pairs

\* The player of the i-th PID has addresses in the network of src.
Comes(pair, i, src) == \E ips \in Adresses[pair] : Reseau[src] = ips[i]

\* The expected addresses are addresses of the pair in PID order, or not known yet,
\* and nobody sits at a place that is not his.
WellSeated(ps) ==
  /\ ps.attendus \in {<<NoAddress, NoAddress>>} \cup Adresses[ps.pair]
  /\ ps.vus[1] = ps.vus[2] => ps.vus[1] = NoSource
  /\ \A i \in {1, 2} : ps.vus[i] # NoSource => Comes(ps.pair, i, ps.vus[i])

Seated == \A q \in OpenPorts : WellSeated(pairSocks[q])

\* Who holds pairSocksMu to close a port is the reaper, and the port is open.
Condemned == condemned # NoPort => condemned \in OpenPorts

Inv == TypeOK /\ RegistersAgree /\ OneReaper /\ HeldIsOwn /\ Calling /\ Seated /\ Condemned

-----------------------------------------------------------------------------
(* What is not a socket is not an open port. *)
LEMMA OpenIsSocket ==
  ASSUME TypeOK
  PROVE  \A q \in Ports : q \in OpenPorts <=> pairSocks[q] \in PairSocket
BY RelayAssumption DEF TypeOK, OpenPorts

(* apparier keeps a socket what it is, and the two players apart. *)
LEMMA ApparierSeats ==
  ASSUME NEW ps \in PairSocket, NEW src \in Sources, WellSeated(ps)
  PROVE  /\ apparier(ps, src) \in PairSocket
         /\ apparier(ps, src).pair = ps.pair
         /\ apparier(ps, src).attendus = ps.attendus
         /\ WellSeated(apparier(ps, src))
<1> DEFINE known  == src \in {ps.vus[1], ps.vus[2]}
           places == IF FreePlaces(ps, src) # {} THEN FreePlaces(ps, src) ELSE RemapPlaces(ps, src)
           i      == CHOOSE j \in places : \A k \in places : j <= k
<1>1. CASE known \/ places = {}
  <2>1. apparier(ps, src) = [ps EXCEPT !.dernier = "recent"]
    BY <1>1 DEF apparier
  <2> QED
    BY <2>1 DEF PairSocket, WellSeated
<1>2. CASE ~known /\ places # {}
  <2>1. places \subseteq {1, 2}
    BY DEF FreePlaces, RemapPlaces
  <2>2. i \in places
    <3>1. \E j \in places : \A k \in places : j <= k
      BY <1>2, <2>1
    <3> HIDE DEF places
    <3> QED
      BY <3>1 DEF i
  <2>3. ps.attendus[i] = Reseau[src]
    BY <2>2 DEF FreePlaces, RemapPlaces
  <2> HIDE DEF places, i
  <2>4. i \in {1, 2}
    BY <2>1, <2>2
  <2>5. ps.attendus \in Adresses[ps.pair] /\ Comes(ps.pair, i, src)
    <3>1. Reseau[src] # NoAddress
      BY RelayAssumption
    <3> QED
      BY <2>3, <2>4, <3>1 DEF WellSeated, Comes
  <2>6. apparier(ps, src) = [ps EXCEPT !.dernier = "recent", !.vus[i] = src]
    BY <1>2 DEF apparier, known, places, i
  <2> DEFINE seats == [ps.vus EXCEPT ![i] = src]
             new   == [ps EXCEPT !.dernier = "recent", !.vus = seats]
  <2>7. seats \in Places \X Places
    BY <2>4 DEF PairSocket, Places
  <2>e. apparier(ps, src) = new
    BY <2>6 DEF PairSocket
  <2>s. seats[i] = src /\ \A j \in {1, 2} \ {i} : seats[j] = ps.vus[j]
    BY <2>4 DEF PairSocket
  <2> HIDE DEF seats
  <2>8. new \in PairSocket
    BY <2>7 DEF PairSocket
  <2>9. new.pair = ps.pair /\ new.attendus = ps.attendus /\ new.vus = seats
    BY DEF PairSocket
  <2>10. WellSeated(new)
    BY <2>4, <2>5, <2>7, <2>9, <2>s, <1>2, RelayAssumption DEF WellSeated, PairSocket, Places, known
  <2> QED
    BY <2>e, <2>8, <2>9, <2>10
<1> QED
  BY <1>1, <1>2

-----------------------------------------------------------------------------
(* Either order of the arguments gives the addresses in PID order. *)
LEMMA OwnOrder ==
  ASSUME NEW r \in Pairs, NEW ips \in Adresses[r], NEW swapped \in BOOLEAN
  PROVE  Expected(ips, swapped) = ips /\ ips \in Addresses \X Addresses
<1>1. ips \in Reseaux \X Reseaux
  BY RelayAssumption
<1> QED
  BY <1>1 DEF Expected, Arguments, Addresses

(* No port, no call, no reaper at the start. *)
LEMMA InitInv == Init => Inv
<1> SUFFICES ASSUME Init
             PROVE  Inv
  OBVIOUS
<1> USE RelayAssumption
<1>1. OpenPorts = {}
  BY DEF Init, OpenPorts
<1>2. TypeOK
  BY DEF Init, TypeOK, Call, NoCall
<1> QED
  BY <1>1, <1>2 
  DEF Init, Inv, RegistersAgree, OneReaper, HeldIsOwn, Calling, Seated, Condemned, NoCall

(* A step that writes only inside one call keeps the registers. *)
LEMMA CallStep ==
  ASSUME Inv, NEW c \in Callers, NEW call \in Call,
         calls' = [calls EXCEPT ![c] = call],
         call.stage \in {"hashed", "sized", "held"} => call.pair \in Pairs,
         call.stage = "held" => call.port \in OpenPorts /\ pairSocks[call.port].pair = call.pair,
         UNCHANGED <<pairSocks, pairPorts, condemned>>,
         {armed', closing', crashed'} \subseteq BOOLEAN,
         pairReaping' \in BOOLEAN /\ reapers' \in Nat,
         OneReaper'
  PROVE  Inv'
<1>1. OpenPorts' = OpenPorts
  BY DEF OpenPorts
<1>2. TypeOK'
  BY DEF Inv, TypeOK
<1>3. HeldIsOwn' /\ Calling'
  BY <1>1 DEF Inv, TypeOK, HeldIsOwn, Calling
<1>4. RegistersAgree' /\ Seated' /\ Condemned'
  BY <1>1 DEF Inv, RegistersAgree, Seated, Condemned
<1> QED
  BY <1>2, <1>3, <1>4 DEF Inv

(* A step that writes only inside one open socket, whose pair and order of    *)
(* players stay, keeps the registers.                                         *)
LEMMA SocketStep ==
  ASSUME Inv, NEW q \in OpenPorts, NEW ps \in PairSocket,
         pairSocks' = [pairSocks EXCEPT ![q] = ps],
         ps.pair = pairSocks[q].pair, WellSeated(ps),
         UNCHANGED <<armed, closing, pairPorts, pairReaping, reapers, condemned, crashed>>,
         \/ UNCHANGED calls
         \/ \E c \in Callers : calls' = [calls EXCEPT ![c] = NoCall]
  PROVE  Inv'
<1> USE RelayAssumption
<1>0. OpenPorts \subseteq Ports /\ pairSocks \in [Ports -> PairSocket \cup {NoSocket}]
  BY DEF Inv, TypeOK, OpenPorts
<1>1. OpenPorts' = OpenPorts
  BY <1>0 DEF OpenPorts
<1>2. \A p \in OpenPorts : pairSocks'[p].pair = pairSocks[p].pair
  BY <1>0
<1>3. NoCall \in Call /\ NoCall.stage = "idle"
  BY DEF NoCall, Call
<1>4. \A c \in Callers : calls'[c] = calls[c] \/ calls'[c] = NoCall
  BY DEF Inv, TypeOK
<1>5. calls' \in [Callers -> Call]
  BY <1>3 DEF Inv, TypeOK
<1>6. TypeOK'
  BY <1>0, <1>5 DEF Inv, TypeOK
<1>7. RegistersAgree'
  BY <1>0, <1>1, <1>2 DEF Inv, TypeOK, RegistersAgree
<1>8. OneReaper' /\ Condemned'
  BY <1>1 DEF Inv, OneReaper, Condemned
<1>9. HeldIsOwn' /\ Calling'
  BY <1>1, <1>2, <1>3, <1>4 DEF Inv, HeldIsOwn, Calling
<1>10. Seated'
  BY <1>0, <1>1 DEF Inv, Seated
<1> QED
  BY <1>6, <1>7, <1>8, <1>9, <1>10 DEF Inv

(* Closing sockets keeps what is left of the registers in order. *)
LEMMA CloseStep ==
  ASSUME Inv, NEW ports \in SUBSET OpenPorts,
         CloseSockets(ports), pairPorts' = ForgetPorts(ports),
         {armed', closing', crashed'} \subseteq BOOLEAN,
         pairReaping' \in BOOLEAN /\ reapers' \in Nat,
         condemned' = NoPort, OneReaper'
  PROVE  Inv'
<1> USE RelayAssumption
<1>0. OpenPorts \subseteq Ports /\ pairSocks \in [Ports -> PairSocket \cup {NoSocket}]
  BY DEF Inv, TypeOK, OpenPorts
<1>1. pairSocks' = [q \in Ports |-> IF q \in ports THEN NoSocket ELSE pairSocks[q]]
  BY DEF CloseSockets
<1>2. OpenPorts' = OpenPorts \ ports
  BY <1>0, <1>1 DEF OpenPorts
<1>3. [NoCall EXCEPT !.stage = "lost"] \in Call
  BY DEF NoCall, Call
<1>4. calls' \in [Callers -> Call]
  BY <1>3 DEF Inv, TypeOK, CloseSockets
<1>5. pairPorts' \in [Pairs -> Ports \cup {NoPort}]
  BY DEF Inv, TypeOK, ForgetPorts
<1>6. TypeOK'
  BY <1>0, <1>1, <1>4, <1>5 DEF TypeOK
<1>7. RegistersAgree'
  <2>1. ASSUME NEW r \in Pairs, pairPorts'[r] # NoPort
        PROVE  pairPorts'[r] \in OpenPorts' /\ pairSocks'[pairPorts'[r]].pair = r
    <3>1. pairPorts'[r] = pairPorts[r] /\ \A q \in ports : pairSocks[q].pair # r
      BY <2>1 DEF ForgetPorts, Inv, TypeOK
    <3>2. pairPorts[r] \in OpenPorts /\ pairSocks[pairPorts[r]].pair = r
      BY <2>1, <3>1 DEF Inv, RegistersAgree
    <3>3. pairPorts[r] \notin ports
      BY <3>1, <3>2
    <3> QED
      BY <1>0, <1>1, <1>2, <3>1, <3>2, <3>3
  <2>2. ASSUME NEW q \in OpenPorts'
        PROVE  pairPorts'[pairSocks'[q].pair] = q
    <3>1. q \in OpenPorts /\ q \notin ports /\ pairSocks'[q] = pairSocks[q]
      BY <1>0, <1>1, <1>2, <2>2
    <3>2. pairSocks[q].pair \in Pairs /\ pairPorts[pairSocks[q].pair] = q
      BY <3>1, <1>0, OpenIsSocket DEF Inv, RegistersAgree, PairSocket
    <3>3. \A p \in ports : pairSocks[p].pair # pairSocks[q].pair
      BY <3>1, <3>2 DEF Inv, RegistersAgree
    <3> QED
      BY <3>1, <3>2, <3>3 DEF ForgetPorts
  <2> QED
    BY <2>1, <2>2 DEF RegistersAgree
<1>8. HeldIsOwn' /\ Calling'
  <2>1. ASSUME NEW c \in Callers
        PROVE  \/ calls'[c] = calls[c] /\ (calls[c].stage = "held" => calls[c].port \notin ports)
               \/ calls'[c].stage = "lost"
    BY DEF CloseSockets, NoCall
  <2>2. \A q \in OpenPorts \ ports : pairSocks'[q] = pairSocks[q]
    BY <1>0, <1>1
  <2> QED
    BY <1>2, <2>1, <2>2 DEF Inv, HeldIsOwn, Calling
<1>9. Seated'
  BY <1>0, <1>1, <1>2 DEF Inv, Seated
<1> QED
  BY <1>6, <1>7, <1>8, <1>9 DEF Inv, Condemned

(* Every step keeps the invariant, one case per action. *)
LEMMA StepInv ==
  ASSUME Inv, [Next]_vars
  PROVE  Inv'
<1> USE RelayAssumption
<1>t. TypeOK
  BY DEF Inv
<1>n. NoCall \in Call /\ NoCall.stage = "idle"
  BY DEF NoCall, Call
<1>c. \A c \in Callers : calls[c] \in Call
  BY <1>t DEF TypeOK
<1>1. ASSUME NEW c \in Callers, NEW r \in Pairs, BeginCall(c, r)
      PROVE  Inv'
  <2> DEFINE call == [calls[c] EXCEPT !.stage = "hashed", !.pair = r]
  <2>1. call \in Call /\ call.stage = "hashed" /\ call.pair = r
    BY <1>c DEF Call
  <2>2. calls' = [calls EXCEPT ![c] = call]
    BY <1>1 DEF BeginCall
  <2> HIDE DEF call
  <2>3. OneReaper'
    BY <1>1 DEF BeginCall, OneReaper, Inv, OpenPorts
  <2> QED
    BY <1>1, <1>t, <2>1, <2>2, <2>3, CallStep DEF BeginCall, TypeOK
<1>2. ASSUME NEW c \in Callers, ReadSpan(c)
      PROVE  Inv'
  <2> DEFINE call == [calls[c] EXCEPT !.stage = "sized", !.span = IF armed THEN Span ELSE 0]
  <2>1. call \in Call /\ call.stage = "sized" /\ call.pair = calls[c].pair
    BY <1>c DEF Call
  <2>2. calls' = [calls EXCEPT ![c] = call]
    BY <1>2 DEF ReadSpan
  <2>3. call.pair \in Pairs
    BY <1>2, <2>1 DEF ReadSpan, Inv, Calling
  <2> HIDE DEF call
  <2>4. OneReaper'
    BY <1>2 DEF ReadSpan, OneReaper, Inv, OpenPorts
  <2> QED
    BY <1>2, <1>t, <2>1, <2>2, <2>3, <2>4, CallStep DEF ReadSpan, TypeOK
<1>3. ASSUME NEW c \in Callers, DivideByZero(c)
      PROVE  Inv'
  BY <1>3 DEF DivideByZero, Inv, TypeOK, RegistersAgree, OneReaper, HeldIsOwn, Calling,
              Seated, Condemned, OpenPorts
<1>4. ASSUME NEW c \in Callers, StayDirect(c)
      PROVE  Inv'
  <2>1. OneReaper'
    BY <1>4 DEF StayDirect, OneReaper, Inv, OpenPorts
  <2> QED
    BY <1>4, <1>t, <1>n, <2>1, CallStep DEF StayDirect, Return, TypeOK
<1>5. ASSUME NEW c \in Callers, NEW port \in Ports, ReusePort(c, port)
      PROVE  Inv'
  <2> DEFINE call == [calls[c] EXCEPT !.stage = "held", !.port = port]
  <2>1. call \in Call /\ call.pair = calls[c].pair /\ call.port = port
    BY <1>c DEF Call
  <2>2. calls' = [calls EXCEPT ![c] = call]
    BY <1>5 DEF ReusePort, Hold
  <2>3. call.pair \in Pairs
    BY <1>5, <2>1 DEF ReusePort, PortFound, Inv, Calling
  <2>4. port \in OpenPorts /\ pairSocks[port].pair = call.pair
    BY <1>5, <2>1 DEF ReusePort, OpenPorts
  <2> HIDE DEF call
  <2>5. OneReaper' /\ pairReaping' \in BOOLEAN /\ reapers' \in Nat
    BY <1>5 DEF ReusePort, StartReaper, OneReaper, Inv, OpenPorts
  <2> QED
    BY <1>5, <1>t, <2>1, <2>2, <2>3, <2>4, <2>5, CallStep DEF ReusePort, TypeOK
<1>6. ASSUME NEW c \in Callers, NEW port \in Ports, OpenPort(c, port)
      PROVE  Inv'
  <2> DEFINE r    == calls[c].pair
             call == [calls[c] EXCEPT !.stage = "held", !.port = port]
  <2>1. call \in Call /\ call.pair = r /\ call.port = port
    BY <1>c DEF Call
  <2>2. calls' = [calls EXCEPT ![c] = call]
    BY <1>6 DEF OpenPort, Hold
  <2>3. r \in Pairs
    BY <1>6 DEF OpenPort, PortFound, Inv, Calling
  <2>4. /\ FreshSocket(r) \in PairSocket /\ FreshSocket(r).pair = r
        /\ WellSeated(FreshSocket(r))
    BY <2>3 DEF FreshSocket, PairSocket, WellSeated, Addresses, Places
  <2> HIDE DEF call
  <2>5. /\ pairSocks' = [pairSocks EXCEPT ![port] = FreshSocket(r)]
        /\ pairPorts' = [pairPorts EXCEPT ![r] = port]
        /\ port \notin OpenPorts
    BY <1>6 DEF OpenPort, OpenPorts
  <2>6. pairPorts[r] = NoPort
    <3>1. pairPorts[r] # NoPort => port = pairPorts[r]
      BY <1>6 DEF OpenPort, PortFound
    <3> QED
      BY <2>3, <2>5, <3>1 DEF Inv, RegistersAgree
  <2>o. OpenPorts \subseteq Ports
    BY DEF OpenPorts
  <2>s. pairSocks \in [Ports -> PairSocket \cup {NoSocket}] /\ pairPorts \in [Pairs -> Ports \cup {NoPort}]
    BY <1>t DEF TypeOK
  <2>7. OpenPorts' = OpenPorts \cup {port}
    BY <2>4, <2>5, <2>s DEF OpenPorts
  <2>8. \A q \in OpenPorts : pairSocks'[q] = pairSocks[q]
    BY <2>5, <2>o, <2>s
  <2>9. pairSocks'[port] = FreshSocket(r)
    BY <2>5, <2>s
  <2>10. TypeOK'
    <3>1. /\ pairSocks' \in [Ports -> PairSocket \cup {NoSocket}]
          /\ pairPorts' \in [Pairs -> Ports \cup {NoPort}]
      BY <2>3, <2>4, <2>5, <2>s
    <3>2. calls' \in [Callers -> Call]
      BY <1>t, <2>1, <2>2 DEF TypeOK
    <3>3. pairReaping' \in BOOLEAN /\ reapers' \in Nat /\ UNCHANGED <<armed, closing, condemned, crashed>>
      BY <1>6, <1>t DEF OpenPort, StartReaper, TypeOK
    <3> QED
      BY <1>t, <3>1, <3>2, <3>3 DEF TypeOK
  <2>11. RegistersAgree'
    <3>1. ASSUME NEW x \in Pairs, pairPorts'[x] # NoPort
          PROVE  pairPorts'[x] \in OpenPorts' /\ pairSocks'[pairPorts'[x]].pair = x
      <4>1. CASE x = r
        BY <4>1, <2>3, <2>4, <2>5, <2>7, <2>9, <2>s
      <4>2. CASE x # r
        BY <3>1, <4>2, <2>5, <2>7, <2>8, <2>s DEF Inv, RegistersAgree
      <4> QED
        BY <4>1, <4>2
    <3>2. ASSUME NEW q \in OpenPorts'
          PROVE  pairPorts'[pairSocks'[q].pair] = q
      <4>1. CASE q = port
        BY <4>1, <2>3, <2>4, <2>5, <2>9, <2>s
      <4>2. CASE q \in OpenPorts
        <5>1. pairPorts[pairSocks[q].pair] = q /\ q # NoPort
          BY <4>2, <2>o DEF Inv, RegistersAgree
        <5>2. pairSocks[q].pair # r
          BY <5>1, <2>6
        <5> QED
          BY <4>2, <5>1, <5>2, <2>5, <2>8, <2>s
      <4> QED
        BY <3>2, <2>7, <4>1, <4>2
    <3> QED
      BY <3>1, <3>2 DEF RegistersAgree
  <2>12. OneReaper' /\ Condemned'
    BY <1>6, <2>7 DEF OpenPort, StartReaper, OneReaper, Condemned, Inv
  <2>13. HeldIsOwn' /\ Calling'
    BY <1>t, <2>1, <2>2, <2>3, <2>4, <2>7, <2>8, <2>9 DEF TypeOK, Inv, HeldIsOwn, Calling
  <2>14. Seated'
    BY <2>4, <2>7, <2>8, <2>9 DEF Inv, Seated
  <2> QED
    BY <2>10, <2>11, <2>12, <2>13, <2>14 DEF Inv
<1>7. ASSUME NEW c \in Callers, NEW swapped \in BOOLEAN, FillIn(c, swapped)
      PROVE  Inv'
  <2>1. CASE calls[c].stage = "lost"
    <3>1. OneReaper'
      BY <1>7, <2>1 DEF FillIn, OneReaper, Inv, OpenPorts
    <3> QED
      BY <1>7, <2>1, <3>1, <1>t, <1>n, CallStep DEF FillIn, Return, TypeOK
  <2>2. CASE calls[c].stage = "held"
    <3> DEFINE q == calls[c].port
               r == calls[c].pair
    <3> PICK ips \in Adresses[r] :
          pairSocks' = [pairSocks EXCEPT ![q].attendus = Expected(ips, swapped),
                                         ![q].dernier = "recent"]
      BY <1>7, <2>2 DEF FillIn
    <3> DEFINE ps == [pairSocks[q] EXCEPT !.attendus = Expected(ips, swapped),
                                          !.dernier = "recent"]
    <3>1. q \in OpenPorts /\ q \in Ports /\ pairSocks[q].pair = r /\ r \in Pairs
      BY <2>2 DEF Inv, HeldIsOwn, Calling, OpenPorts
    <3>2. pairSocks[q] \in PairSocket
      BY <1>t, <3>1, OpenIsSocket
    <3>3. Expected(ips, swapped) = ips /\ ips \in Addresses \X Addresses
      BY <3>1, OwnOrder
    <3>4. pairSocks' = [pairSocks EXCEPT ![q] = ps]
      OBVIOUS
    <3>5. /\ ps \in PairSocket /\ ps.pair = pairSocks[q].pair
          /\ ps.attendus = ips /\ ps.vus = pairSocks[q].vus
      BY <3>2, <3>3 DEF PairSocket
    <3>6. WellSeated(ps)
      BY <3>1, <3>5 DEF Inv, Seated, WellSeated
    <3> HIDE DEF ps
    <3> QED
      BY <1>7, <3>1, <3>4, <3>5, <3>6, SocketStep DEF FillIn, Return
  <2> QED
    BY <1>7, <2>1, <2>2 DEF FillIn
<1>8. ASSUME reapPairSockets
      PROVE  Inv'
  <2> DEFINE ports == {condemned} \ {NoPort}
  <2>1. ports \in SUBSET OpenPorts
    BY DEF Inv, Condemned
  <2>2. OpenPorts' = OpenPorts \ ports
    BY <1>8, <1>t DEF reapPairSockets, CloseSockets, OpenPorts
  <2>3. CloseSockets(ports) /\ pairPorts' = ForgetPorts(ports) /\ EndOfRound(OpenPorts \subseteq ports)
    BY <1>8 DEF reapPairSockets
  <2> HIDE DEF ports
  <2>r. pairReaping \in BOOLEAN /\ reapers > 0 /\ reapers = (IF pairReaping THEN 1 ELSE 0)
    BY <1>8, <1>t DEF reapPairSockets, OneReaper, Inv, TypeOK
  <2>f. pairReaping = TRUE /\ reapers = 1
    BY <2>r
  <2>4. OneReaper' /\ pairReaping' \in BOOLEAN /\ reapers' \in Nat
    <3>1. CASE OpenPorts \subseteq ports
      <4>1. reapers' = reapers - 1 /\ pairReaping' = FALSE
        BY <2>3, <3>1 DEF EndOfRound
      <4>2. reapers' = 0
        BY <2>f, <4>1
      <4>3. OpenPorts' = {}
        BY <2>2, <3>1
      <4>4. OneReaper'
        BY <4>1, <4>2, <4>3, Zenon DEF OneReaper
      <4>5. pairReaping' \in BOOLEAN
        BY <4>1, Zenon
      <4>6. reapers' \in Nat
        BY <4>2
      <4> QED
        BY <4>4, <4>5, <4>6
    <3>2. CASE ~(OpenPorts \subseteq ports)
      <4>1. reapers' = 1 /\ pairReaping' = TRUE
        BY <2>3, <2>f, <3>2 DEF EndOfRound
      <4> QED
        BY <4>1 DEF OneReaper
    <3> QED
      BY <3>1, <3>2
  <2> QED
    BY <1>8, <1>t, <2>1, <2>3, <2>4, CloseStep DEF reapPairSockets, TypeOK
<1>9. ASSUME NEW on \in BOOLEAN, SetPairRelay(on)
      PROVE  Inv'
  <2>1. closing' \in BOOLEAN
    BY <1>9 DEF SetPairRelay
  <2>2. TypeOK'
    BY <1>9, <1>t, <2>1 DEF SetPairRelay, TypeOK
  <2> QED
    BY <1>9, <2>2 DEF SetPairRelay, Inv, RegistersAgree, OneReaper, HeldIsOwn, Calling,
                      Seated, Condemned, OpenPorts
<1>10. ASSUME closeAllPairSockets
       PROVE  Inv'
  <2>1. OpenPorts \in SUBSET OpenPorts
    OBVIOUS
  <2>2. OpenPorts' = {}
    BY <1>10 DEF closeAllPairSockets, CloseSockets, OpenPorts
  <2>3. pairPorts' = ForgetPorts(OpenPorts)
    BY <1>10 DEF closeAllPairSockets, ForgetPorts, Inv, RegistersAgree
  <2>4. OneReaper'
    BY <1>10, <2>2 DEF closeAllPairSockets, OneReaper, Inv
  <2> QED
    BY <1>10, <1>t, <2>1, <2>3, <2>4, CloseStep DEF closeAllPairSockets, Unlocked, TypeOK
<1>11. ASSUME NEW port \in Ports, Silence(port)
       PROVE  Inv'
  <2> DEFINE ps == [pairSocks[port] EXCEPT !.dernier = "old"]
  <2>1. port \in OpenPorts /\ pairSocks' = [pairSocks EXCEPT ![port] = ps]
    BY <1>11 DEF Silence
  <2>2. pairSocks[port] \in PairSocket
    BY <1>t, <2>1, OpenIsSocket
  <2>3. /\ ps \in PairSocket /\ ps.pair = pairSocks[port].pair
        /\ ps.attendus = pairSocks[port].attendus /\ ps.vus = pairSocks[port].vus
    BY <2>2 DEF PairSocket
  <2>4. WellSeated(ps)
    BY <2>1, <2>3 DEF Inv, Seated, WellSeated
  <2> HIDE DEF ps
  <2> QED
    BY <1>11, <2>1, <2>3, <2>4, SocketStep DEF Silence
<1>12. ASSUME NEW port \in Ports, NEW src \in Sources, Datagram(port, src)
       PROVE  Inv'
  <2>1. /\ port \in OpenPorts
        /\ pairSocks' = [pairSocks EXCEPT ![port] = apparier(pairSocks[port], src)]
    BY <1>12 DEF Datagram
  <2>2. pairSocks[port] \in PairSocket /\ WellSeated(pairSocks[port])
    BY <1>t, <2>1, OpenIsSocket DEF Inv, Seated
  <2> QED
    BY <1>12, <2>1, <2>2, ApparierSeats, SocketStep DEF Datagram
<1>13. CASE UNCHANGED vars
  BY <1>13 DEF vars, Inv, TypeOK, RegistersAgree, OneReaper, HeldIsOwn, Calling, Seated,
               Condemned, OpenPorts
<1>14. ASSUME NEW port \in Ports, inactifDepuis(port)
       PROVE  Inv'
  <2>1. port \in OpenPorts
    BY <1>14 DEF inactifDepuis, Inactive
  <2> QED
    BY <1>14, <1>t, <2>1 DEF inactifDepuis, Inv, TypeOK, RegistersAgree, OneReaper, HeldIsOwn,
                             Calling, Seated, Condemned, OpenPorts
<1> QED
  BY <1>1, <1>2, <1>3, <1>4, <1>5, <1>6, <1>7, <1>8, <1>9, <1>10, <1>11, <1>12, <1>13, <1>14
  DEF Next, PairRelayFor

-----------------------------------------------------------------------------
(* Registers, sockets, calls and the count of reapers keep their types: no    *)
(* probe leaves the range of ports and the count never goes below zero        *)
(* (PairRelayFor, reapPairSockets).                                           *)
THEOREM RelayTypes == Spec => []TypeOK
<1>1. Inv => TypeOK
  BY DEF Inv
<1> QED
  BY <1>1, InitInv, StepInv, PTL DEF Spec

(* The registers of ports agree, however calls, reaper, disarming and         *)
(* datagrams interleave (pairSocks, pairPorts).                               *)
THEOREM RegistersAlwaysAgree == Spec => []RegistersAgree
<1>1. Inv => RegistersAgree
  BY DEF Inv
<1> QED
  BY <1>1, InitInv, StepInv, PTL DEF Spec

(* There is one reaper when a port is open, and never two (pairReaping).      *)
THEOREM AlwaysOneReaper == Spec => []OneReaper
<1>1. Inv => OneReaper
  BY DEF Inv
<1> QED
  BY <1>1, InitInv, StepInv, PTL DEF Spec

(* The players of a port keep their own places, for any endpoints their NATs  *)
(* make up and any order of the callers' arguments (apparier, PairRelayFor).  *)
THEOREM PlacesAlwaysApart == Spec => []PlacesApart
<1>1. Inv => PlacesApart
  BY DEF Inv, Seated, WellSeated, Comes, PlacesApart
<1> QED
  BY <1>1, InitInv, StepInv, PTL DEF Spec

(* What a step leaves alone of a socket whose pair talks. *)
Kept(q) ==
  /\ pairSocks'[q] # NoSocket
  /\ pairSocks'[q].pair = pairSocks[q].pair
  /\ pairSocks'[q].attendus \in {pairSocks[q].attendus} \cup Adresses[pairSocks[q].pair]

(* No step but a disarm, or the end a round had decided on, disturbs a socket *)
(* whose pair talks.                                                          *)
LEMMA StepKeeps ==
  ASSUME Inv, Next, NEW q \in OpenPorts, pairSocks[q].dernier = "recent", ~closing,
         q # condemned
  PROVE  Kept(q)
<1> USE RelayAssumption
<1>t. TypeOK
  BY DEF Inv
<1>q. /\ q \in Ports /\ pairSocks[q] # NoSocket /\ pairSocks[q] \in PairSocket
      /\ WellSeated(pairSocks[q])
  BY <1>t, OpenIsSocket DEF OpenPorts, Inv, Seated
<1>s. pairSocks \in [Ports -> PairSocket \cup {NoSocket}]
  BY <1>t DEF TypeOK
<1>0. ASSUME pairSocks'[q] = pairSocks[q]
      PROVE  Kept(q)
  BY <1>0, <1>q DEF Kept
<1>1. ASSUME NEW c \in Callers, NEW port \in Ports, OpenPort(c, port)
      PROVE  Kept(q)
  <2>1. port # q
    BY <1>1, <1>q DEF OpenPort
  <2> QED
    BY <1>0, <1>1, <1>q, <1>s, <2>1 DEF OpenPort
<1>2. ASSUME NEW c \in Callers, NEW swapped \in BOOLEAN, FillIn(c, swapped)
      PROVE  Kept(q)
  <2>1. CASE calls[c].stage = "lost"
    BY <1>0, <1>2, <2>1 DEF FillIn
  <2>2. CASE calls[c].stage = "held" /\ calls[c].port # q
    BY <1>0, <1>2, <1>q, <1>s, <2>2 DEF FillIn
  <2>3. CASE calls[c].stage = "held" /\ calls[c].port = q
    <3>1. pairSocks[q].pair = calls[c].pair /\ calls[c].pair \in Pairs
      BY <2>3 DEF Inv, HeldIsOwn, Calling
    <3> PICK ips \in Adresses[calls[c].pair] :
          pairSocks' = [pairSocks EXCEPT ![q].attendus = Expected(ips, swapped),
                                         ![q].dernier = "recent"]
      BY <1>2, <2>3 DEF FillIn
    <3> DEFINE ps == [pairSocks[q] EXCEPT !.attendus = Expected(ips, swapped),
                                          !.dernier = "recent"]
    <3>2. Expected(ips, swapped) = ips /\ ips \in Addresses \X Addresses
      BY <3>1, OwnOrder
    <3>3. pairSocks' = [pairSocks EXCEPT ![q] = ps]
      OBVIOUS
    <3>4. ps \in PairSocket /\ ps.pair = pairSocks[q].pair /\ ps.attendus = ips
      BY <1>q, <3>2 DEF PairSocket
    <3> HIDE DEF ps
    <3>5. pairSocks'[q] = ps /\ ps # NoSocket
      BY <1>q, <1>s, <3>3, <3>4
    <3> QED
      BY <3>1, <3>4, <3>5 DEF Kept
  <2> QED
    BY <1>2, <2>1, <2>2, <2>3 DEF FillIn
<1>3. ASSUME reapPairSockets
      PROVE  Kept(q)
  BY <1>0, <1>3, <1>q DEF reapPairSockets, CloseSockets
<1>4. ASSUME NEW port \in Ports, Silence(port)
      PROVE  Kept(q)
  <2>1. CASE port # q
    BY <1>0, <1>4, <1>q, <1>s, <2>1 DEF Silence
  <2>2. CASE port = q
    <3> DEFINE ps == [pairSocks[q] EXCEPT !.dernier = "old"]
    <3>1. /\ ps \in PairSocket /\ ps.pair = pairSocks[q].pair
          /\ ps.attendus = pairSocks[q].attendus
      BY <1>q DEF PairSocket
    <3>2. pairSocks' = [pairSocks EXCEPT ![q] = ps]
      BY <1>4, <2>2 DEF Silence
    <3> HIDE DEF ps
    <3>3. pairSocks'[q] = ps /\ ps # NoSocket
      BY <1>q, <1>s, <3>1, <3>2
    <3> QED
      BY <3>1, <3>3 DEF Kept
  <2> QED
    BY <2>1, <2>2
<1>5. ASSUME NEW port \in Ports, NEW src \in Sources, Datagram(port, src)
      PROVE  Kept(q)
  <2>1. CASE port # q
    BY <1>0, <1>5, <1>q, <1>s, <2>1 DEF Datagram
  <2>2. CASE port = q
    <3> DEFINE ps == apparier(pairSocks[q], src)
    <3>1. /\ ps \in PairSocket /\ ps.pair = pairSocks[q].pair
          /\ ps.attendus = pairSocks[q].attendus
      BY <1>q, ApparierSeats
    <3>2. pairSocks' = [pairSocks EXCEPT ![q] = ps]
      BY <1>5, <2>2 DEF Datagram
    <3> HIDE DEF ps
    <3>3. pairSocks'[q] = ps /\ ps # NoSocket
      BY <1>q, <1>s, <3>1, <3>2
    <3> QED
      BY <3>1, <3>3 DEF Kept
  <2> QED
    BY <2>1, <2>2
<1>6. ASSUME UNCHANGED pairSocks
      PROVE  Kept(q)
  BY <1>0, <1>6
<1> QED
  BY <1>1, <1>2, <1>3, <1>4, <1>5, <1>6
  DEF Next, PairRelayFor, BeginCall, ReadSpan, DivideByZero, StayDirect, ReusePort,
      SetPairRelay, closeAllPairSockets, inactifDepuis

(* A pair that talks keeps its port, and is only ever expected from addresses *)
(* of its own two players, each at his place, whatever calls come for other   *)
(* pairs or from the other side of its own (the displaced occupants that the  *)
(* comments of PairRelayFor tell of); the exceptions are a disarm, and a      *)
(* reaper that had found the port inactive before the pair spoke.             *)
THEOREM OccupantsAlwaysKept == Spec => OccupantKept
<1>1. Inv /\ [Next]_vars =>
        [\A q \in OpenPorts :
           pairSocks[q].dernier = "recent" /\ ~closing /\ q # condemned =>
             /\ pairSocks'[q] # NoSocket
             /\ pairSocks'[q].pair = pairSocks[q].pair
             /\ pairSocks'[q].attendus
                  \in {pairSocks[q].attendus} \cup Adresses[pairSocks[q].pair]]_vars
  BY StepKeeps DEF Kept
<1> QED
  BY <1>1, InitInv, StepInv, PTL DEF Spec, OccupantKept
=============================================================================
