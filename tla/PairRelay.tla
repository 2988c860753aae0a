------------------------------ MODULE PairRelay ------------------------------
(***************************************************************************)
(* The relay with one UDP port per pair of players (relaypair.go): the     *)
(* ports given out by PairRelayFor, the goroutine that closes silent ones, *)
(* disarming, and the two places of a port, learnt from the datagrams.     *)
(*                                                                         *)
(* PairRelayFor runs on any connection's goroutine and takes a lock three  *)
(* times: it reads the configuration twice (pairMu), finds or opens the    *)
(* port of the pair (pairSocksMu), and only then fills the socket in       *)
(* (ps.mu).  Whether the two players may and need to be relayed is left    *)
(* open.  The relay is armed with one range of ports, numbered from 0, and *)
(* disarmed as every test does it, with an empty range.                    *)
(***************************************************************************)
EXTENDS Naturals

CONSTANTS
  Pairs,        \* keys of pairs of players, the smaller PID first
  Souhaite,     \* the port a pair hashes to
  Reseaux,      \* networks (/24): all an address is compared by
  Adresses,     \* of a pair: the networks its two players may come from, in PID order
  Callers,      \* goroutines that call PairRelayFor
  Span,         \* pairPortSpan while armed
  Probes,       \* ports tried for a pair: 8 in the code
  Sources,      \* endpoints that datagrams come from
  Reseau,       \* the network of an endpoint
  NoPair, NoPort, NoSocket, NoSource, NoAddress

Ports == 0 .. Span - 1

Addresses == Reseaux \cup {NoAddress}
Places    == Sources \cup {NoSource}

\* A pairSocket; dernier is the zero time, within pairRelayTTL, or before.
PairSocket == [pair : Pairs, dernier : {"zero", "recent", "old"},
               attendus : Addresses \X Addresses, vus : Places \X Places]

ASSUME RelayAssumption ==
  /\ Span \in Nat \ {0} /\ Probes \in Nat \ {0}
  /\ Souhaite \in [Pairs -> Ports]
  /\ Adresses \in [Pairs -> SUBSET (Reseaux \X Reseaux)]
  /\ Reseau \in [Sources -> Reseaux]
  /\ NoAddress \notin Reseaux /\ NoPair \notin Pairs /\ NoPort \notin Ports
  /\ NoSource \notin Sources /\ NoSocket \notin PairSocket

VARIABLES
  armed,        \* pairHost # "" and pairPortSpan # 0
  closing,      \* SetPairRelay("") has stored the configuration, not closed the ports
  pairSocks,    \* for a port its socket
  pairPorts,    \* for a pair its port
  pairReaping,  \* the flag
  reapers,      \* goroutines running reapPairSockets
  condemned,    \* the port a round has found inactive and is about to close
  calls,        \* the calls of PairRelayFor
  crashed       \* the process died of a division by zero

vars == <<armed, closing, pairSocks, pairPorts, pairReaping, reapers, condemned, calls, crashed>>

FreshSocket_NoList(r) ==
  [pair |-> r, dernier |-> "zero", attendus |-> <<>>, vus |-> <<NoSource, NoSource>>]

FreshSocket(r) ==
  [pair |-> r, dernier |-> "zero", attendus |-> <<NoAddress, NoAddress>>,
   vus |-> <<NoSource, NoSource>>]

\* A call of PairRelayFor: the range as it read it, the port whose socket it holds.
Call == [stage : {"idle", "hashed", "sized", "held", "lost"}, pair : Pairs \cup {NoPair},
         span : {0, Span}, port : Ports \cup {NoPort}]

NoCall == [stage |-> "idle", pair |-> NoPair, span |-> 0, port |-> NoPort]

Init ==
  /\ armed = FALSE /\ closing = FALSE /\ crashed = FALSE
  /\ pairSocks = [q \in Ports |-> NoSocket]
  /\ pairPorts = [r \in Pairs |-> NoPort]
  /\ pairReaping = FALSE /\ reapers = 0 /\ condemned = NoPort
  /\ calls = [c \in Callers |-> NoCall]

OpenPorts == {q \in Ports : pairSocks[q] # NoSocket}

(* The reaper does not hold pairSocksMu. *)
Unlocked == condemned = NoPort

Return(c) == calls' = [calls EXCEPT ![c] = NoCall]

-----------------------------------------------------------------------------
(* PairRelayFor *)

(* The relay is armed and the two players qualify; pairPortFor hashes the pair. *)
BeginCall(c, r) ==
  /\ calls[c].stage = "idle" /\ armed
  /\ calls' = [calls EXCEPT ![c].stage = "hashed", ![c].pair = r]
  /\ UNCHANGED <<armed, closing, pairSocks, pairPorts, pairReaping, reapers, condemned, crashed>>

(* The range is read again, armed or not. *)
ReadSpan(c) ==
  /\ calls[c].stage = "hashed"
  /\ calls' = [calls EXCEPT ![c].stage = "sized", ![c].span = IF armed THEN Span ELSE 0]
  /\ UNCHANGED <<armed, closing, pairSocks, pairPorts, pairReaping, reapers, condemned, crashed>>

(* The probes that end at a free port or at the pair's own. *)
Hits(r, span) ==
  {i \in 0 .. Probes - 1 :
     LET occupant == pairSocks[(Souhaite[r] + i) % span]
     IN occupant = NoSocket \/ occupant.pair = r}

FirstHit(r, span) ==
  (Souhaite[r] + CHOOSE i \in Hits(r, span) : \A j \in Hits(r, span) : i <= j) % span

(* (souhaite-base+i)%span with a span that was disarmed after the hash. *)
DivideByZero(c) ==
  /\ Unlocked /\ calls[c].stage = "sized" /\ calls[c].span = 0
  /\ pairPorts[calls[c].pair] = NoPort
  /\ crashed' = TRUE
  /\ UNCHANGED <<armed, closing, pairSocks, pairPorts, pairReaping, reapers, condemned, calls>>

(* The pair has a port, or a probe finds one. *)
PortFound(c, port) ==
  LET r == calls[c].pair
  IN /\ Unlocked /\ calls[c].stage = "sized"
     /\ \/ pairPorts[r] # NoPort /\ port = pairPorts[r]
        \/ /\ pairPorts[r] = NoPort /\ calls[c].span # 0 /\ Hits(r, calls[c].span) # {}
           /\ port = FirstHit(r, calls[c].span)

(* The call gives up: no probe finds a port, the port found belongs to        *)
(* another pair, or the system refuses to listen on it.                       *)
StayDirect(c) ==
  /\ \/ /\ Unlocked /\ calls[c].stage = "sized" /\ calls[c].span # 0
        /\ pairPorts[calls[c].pair] = NoPort /\ Hits(calls[c].pair, calls[c].span) = {}
     \/ \E port \in Ports :
          /\ PortFound(c, port)
          /\ pairSocks[port] # NoSocket => pairSocks[port].pair # calls[c].pair
  /\ Return(c)
  /\ UNCHANGED <<armed, closing, pairSocks, pairPorts, pairReaping, reapers, condemned, crashed>>

StartReaper_Always == pairReaping' = TRUE /\ reapers' = reapers + 1

StartReaper ==
  /\ pairReaping' = TRUE
  /\ reapers' = IF pairReaping THEN reapers ELSE reapers + 1

Hold(c, port) == calls' = [calls EXCEPT ![c].stage = "held", ![c].port = port]

(* A fresh socket is published, its time stamp zero. *)
OpenPort(c, port) ==
  /\ PortFound(c, port)
  /\ pairSocks[port] = NoSocket
  /\ pairSocks' = [pairSocks EXCEPT ![port] = FreshSocket(calls[c].pair)]
  /\ pairPorts' = [pairPorts EXCEPT ![calls[c].pair] = port]
  /\ StartReaper
  /\ Hold(c, port)
  /\ UNCHANGED <<armed, closing, condemned, crashed>>

ReusePort(c, port) ==
  /\ PortFound(c, port)
  /\ pairSocks[port] # NoSocket /\ pairSocks[port].pair = calls[c].pair
  /\ StartReaper
  /\ Hold(c, port)
  /\ UNCHANGED <<armed, closing, pairSocks, pairPorts, condemned, crashed>>

(* What the caller passes when its players come from ips, in PID order;       *)
(* `swapped' when it names the greater PID first.                             *)
Arguments(ips, swapped) == IF swapped THEN <<ips[2], ips[1]>> ELSE <<ips[1], ips[2]>>

Expected_AsGiven(ips, swapped) == Arguments(ips, swapped)

(* The expected addresses, put back in the order of the PIDs. *)
Expected(ips, swapped) ==
  LET given == Arguments(ips, swapped)
  IN IF swapped THEN <<given[2], given[1]>> ELSE given

(* The socket is filled in with the addresses the players have at that        *)
(* moment, and the port announced to the two consoles: the places taken so    *)
(* far stay.  A socket closed since it was found ("lost") is filled in for    *)
(* nobody.                                                                    *)
FillIn(c, swapped) ==
  /\ \/ /\ calls[c].stage = "held"
        /\ \E ips \in Adresses[calls[c].pair] :
             pairSocks' = [pairSocks EXCEPT ![calls[c].port].attendus = Expected(ips, swapped),
                                            ![calls[c].port].dernier = "recent"]
     \/ calls[c].stage = "lost" /\ UNCHANGED pairSocks
  /\ Return(c)
  /\ UNCHANGED <<armed, closing, pairPorts, pairReaping, reapers, condemned, crashed>>

-----------------------------------------------------------------------------
(* The end of sockets *)

(* Sockets are closed: the calls that hold one of them have lost it. *)
CloseSockets(ports) ==
  /\ pairSocks' = [q \in Ports |-> IF q \in ports THEN NoSocket ELSE pairSocks[q]]
  /\ calls' = [c \in Callers |-> IF calls[c].stage = "held" /\ calls[c].port \in ports
                                 THEN [NoCall EXCEPT !.stage = "lost"] ELSE calls[c]]

Inactive == {q \in OpenPorts : pairSocks[q].dernier # "recent"}

ForgetPorts_None(ports) == pairPorts

ForgetPorts(ports) ==
  [r \in Pairs |-> IF \E q \in ports : pairSocks[q].pair = r THEN NoPort ELSE pairPorts[r]]


(* The reaper ends when there is nothing left to watch. *)
EndOfRound(empty) ==
  /\ reapers' = IF empty THEN reapers - 1 ELSE reapers
  /\ pairReaping' = (pairReaping /\ ~empty)

(* A round of reapPairSockets visits the ports one after the other, holding   *)
(* pairSocksMu; inactifDepuis takes and releases ps.mu, and what happens to   *)
(* the socket between that answer and its end comes too late.  The lock of    *)
(* the round is kept here from an answer to the end of that port; between two *)
(* ports the model lets others in, which the code does between two rounds.    *)
inactifDepuis(port) ==
  /\ reapers > 0 /\ Unlocked
  /\ port \in Inactive
  /\ condemned' = port
  /\ UNCHANGED <<armed, closing, pairSocks, pairPorts, pairReaping, reapers, calls, crashed>>

(* The port is closed and forgotten; a round that finds no port, or leaves    *)
(* none, is the last.                                                         *)
reapPairSockets ==
  LET ports == {condemned} \ {NoPort}
  IN /\ reapers > 0 /\ (Unlocked => OpenPorts = {})
     /\ CloseSockets(ports)
     /\ pairPorts' = ForgetPorts(ports)
     /\ EndOfRound(OpenPorts \subseteq ports)
     /\ condemned' = NoPort
     /\ UNCHANGED <<armed, closing, crashed>>

(* SetPairRelay: the configuration first, then the ports if it disarms. *)
SetPairRelay(on) ==
  /\ ~closing
  /\ armed' = on
  /\ closing' = ~on
  /\ UNCHANGED <<pairSocks, pairPorts, pairReaping, reapers, condemned, calls, crashed>>

closeAllPairSockets ==
  /\ closing /\ Unlocked
  /\ CloseSockets(OpenPorts)
  /\ pairPorts' = [r \in Pairs |-> NoPort]
  /\ closing' = FALSE
  /\ UNCHANGED <<armed, pairReaping, reapers, condemned, crashed>>

-----------------------------------------------------------------------------
(* Datagrams *)

(* The places a source may take: a free one it is expected at, or, when the   *)
(* two players can be told apart, the one it had before its NAT remapped.     *)
FreePlaces(ps, src) ==
  {i \in 1 .. 2 : ps.attendus[i] = Reseau[src] /\ ps.vus[i] = NoSource}

RemapPlaces(ps, src) ==
  {i \in 1 .. 2 : ps.attendus[1] # ps.attendus[2] /\ ps.attendus[i] = Reseau[src]}

Apparier_NoLookup(ps, src) ==
  LET places == IF FreePlaces(ps, src) # {} THEN FreePlaces(ps, src) ELSE RemapPlaces(ps, src)
      i      == CHOOSE j \in places : \A k \in places : j <= k
  IN IF places = {} THEN [ps EXCEPT !.dernier = "recent"]
     ELSE [ps EXCEPT !.dernier = "recent", !.vus[i] = src]

(* A source that is known, or refused, changes nothing but the time. *)
apparier(ps, src) ==
  LET known  == src \in {ps.vus[1], ps.vus[2]}
      places == IF FreePlaces(ps, src) # {} THEN FreePlaces(ps, src) ELSE RemapPlaces(ps, src)
      i      == CHOOSE j \in places : \A k \in places : j <= k
  IN IF known \/ places = {} THEN [ps EXCEPT !.dernier = "recent"]
     ELSE [ps EXCEPT !.dernier = "recent", !.vus[i] = src]

(* boucle: a datagram arrives at an open port. *)
Datagram(port, src) ==
  /\ port \in OpenPorts
  /\ pairSocks' = [pairSocks EXCEPT ![port] = apparier(pairSocks[port], src)]
  /\ UNCHANGED <<armed, closing, pairPorts, pairReaping, reapers, condemned, calls, crashed>>

(* pairRelayTTL passes without a datagram. *)
Silence(port) ==
  /\ port \in OpenPorts /\ pairSocks[port].dernier = "recent"
  /\ pairSocks' = [pairSocks EXCEPT ![port].dernier = "old"]
  /\ UNCHANGED <<armed, closing, pairPorts, pairReaping, reapers, condemned, calls, crashed>>

-----------------------------------------------------------------------------
PairRelayFor(c) ==
  \/ \E r \in Pairs : BeginCall(c, r)
  \/ ReadSpan(c) \/ DivideByZero(c) \/ StayDirect(c)
  \/ \E swapped \in BOOLEAN : FillIn(c, swapped)
  \/ \E port \in Ports : OpenPort(c, port) \/ ReusePort(c, port)

Next ==
  /\ ~crashed
  /\ \/ \E c \in Callers : PairRelayFor(c)
     \/ reapPairSockets
     \/ \E on \in BOOLEAN : SetPairRelay(on)
     \/ closeAllPairSockets
     \/ \E port \in Ports :
          \/ inactifDepuis(port) \/ Silence(port)
          \/ \E src \in Sources : Datagram(port, src)

Spec == Init /\ [][Next]_vars

(* The reaper's goroutine wakes up every thirty seconds and looks at every    *)
(* open port, whatever it does to the others.                                 *)
FairSpec ==
  /\ Spec
  /\ WF_vars(~crashed /\ reapPairSockets)
  /\ \A port \in Ports : SF_vars(~crashed /\ inactifDepuis(port))

-----------------------------------------------------------------------------
(* Properties *)

(* Types of the registers, the reaper and the calls. *)
TypeOK ==
  /\ {armed, closing, crashed, pairReaping} \subseteq BOOLEAN
  /\ pairSocks \in [Ports -> PairSocket \cup {NoSocket}]
  /\ pairPorts \in [Pairs -> Ports \cup {NoPort}]
  /\ reapers \in Nat /\ condemned \in Ports \cup {NoPort}
  /\ calls \in [Callers -> Call]

(* The two registers say the same: the port of a pair is open and serves that *)
(* pair, and an open port is the port of its pair; so the two places that ask *)
(* for a pair's port get the same one, and no pair has two (pairPorts:        *)
(* "les deux points d appel doivent donc lire la MEME attribution").          *)
RegistersAgree ==
  /\ \A r \in Pairs : pairPorts[r] # NoPort =>
       pairPorts[r] \in OpenPorts /\ pairSocks[pairPorts[r]].pair = r
  /\ \A q \in OpenPorts : pairPorts[pairSocks[q].pair] = q

(* A pair that talks keeps its port, and the addresses expected there only    *)
(* ever become addresses of its own two players, each at his place, whatever  *)
(* other pairs and the other caller of the pair ask for; unless the relay is  *)
(* disarmed, or the round under way had found the port inactive before it     *)
(* spoke ("Ne JAMAIS reutiliser la socket d une autre paire").                *)
OccupantKept ==
  [][\A q \in OpenPorts :
       pairSocks[q].dernier = "recent" /\ ~closing /\ q # condemned =>
         /\ pairSocks'[q] # NoSocket
         /\ pairSocks'[q].pair = pairSocks[q].pair
         /\ pairSocks'[q].attendus
              \in {pairSocks[q].attendus} \cup Adresses[pairSocks[q].pair]]_vars

(* Open ports are watched, by one reaper: the flag and the goroutine start    *)
(* and end together (pairReaping).                                            *)
OneReaper ==
  /\ reapers = IF pairReaping THEN 1 ELSE 0
  /\ OpenPorts # {} => pairReaping

(* The two places of a port are held by two endpoints, and by the two players *)
(* they are meant for when these can be told apart, each from a network that  *)
(* player has come from: a player never sits in both places, which would      *)
(* leave the other one without a partner (PairRelayFor: "Les deux joueurs     *)
(* finissaient dans la MEME place").                                          *)
PlacesApart ==
  \A q \in OpenPorts :
    LET ps == pairSocks[q]
    IN /\ ps.vus[1] = ps.vus[2] => ps.vus[1] = NoSource
       /\ \A i \in {1, 2} : ps.vus[i] # NoSource =>
            \E ips \in Adresses[ps.pair] : Reseau[ps.vus[i]] = ips[i]

=============================================================================
