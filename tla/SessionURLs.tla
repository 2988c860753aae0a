----------------------------- MODULE SessionURLs -----------------------------
(***************************************************************************)
(* How a console learns where its peer is: Register and ReplaceURL         *)
(* (secureconnection.go), the ports the nncs responder observes and the    *)
(* bridge built on them (natbridge.go, matchmaking_local.go),              *)
(* GetSessionURLs and the goroutine that waits for the host's ReplaceURL   *)
(* (matchmaking_handlers.go), and the probes pushed to a peer              *)
(* (nattraversal.go).                                                      *)
(*                                                                         *)
(* A console has a station for its LAN address and one for its public      *)
(* address: a port, and whether it carries an RVCID, a CID and the public  *)
(* type.  Two addresses of a console are kept apart: the one its           *)
(* connection comes from (RemoteAddr) and the one of its public station.   *)
(* Whether a station has been pointed at the relay is a choice: RelayNeed  *)
(* decides it.                                                             *)
(***************************************************************************)
EXTENDS Naturals, FiniteSets

CONSTANTS
  Consoles, Hosts,      \* the consoles, and those of them that host a session
  tcpPort, udpPort,     \* console -> the port of its connection, its port behind the NAT
  relayPort,            \* any port of the relay
  UnsetPort,            \* 1: what a console registers for a LAN port it does not know
  Nothing,              \* no station; no call; no observation
  maxPolls,             \* hostReplaceURLWait / hostReplaceURLPoll
  PublicIPs, PrivateIPs,  \* the addresses, those of isPrivateIP apart
  Loopback,             \* the private address of consoles on the server's machine
  Titles,               \* options of the games: [preserveIdentity, reportedPort, repoint, loopback]
  Networks              \* console -> [from, reports, overlay]: see net

ASSUME SessionURLsAssumption ==
  /\ maxPolls \in Nat /\ Hosts \subseteq Consoles
  /\ \A c, d \in Consoles : c # d => udpPort[c] \notin {udpPort[d], tcpPort[d]}
  /\ \A c \in Consoles : udpPort[c] \notin {relayPort, UnsetPort, Nothing}
  /\ PublicIPs \cap PrivateIPs = {} /\ Loopback \in PrivateIPs
  /\ Nothing \notin PublicIPs \cup {"lan", "pub"}
  /\ Networks \subseteq [Consoles -> [from : PublicIPs \cup PrivateIPs,
                                     reports : PublicIPs \cup {Nothing}, overlay : BOOLEAN]]
  /\ \A n \in Networks, c \in Consoles : n[c].overlay => n[c].from \in PublicIPs

VARIABLES
  title,      \* the options of the game this server is for
  net,        \* console -> the address its connection comes from, that of the public station
              \* it reports (Nothing: none), and whether its LAN address is one of an overlay
              \* (a VPN adapter), which reads as public
  alive,      \* consoles whose connection is registered
  stations,   \* host -> [lan, pub]: a station each, or Nothing; nobody reads another's
  natFile,    \* address -> the port of the newest probe from there, or Nothing
  natCache,   \* the copy natPortForIP keeps; Nothing before the first read
  call,       \* console -> its GetSessionURLs while it waits: [host, polls, last], or Nothing;
              \* last: the stations of the host's connection once that has ended
  misled      \* history: <<c, peer>> if the last console told where its peer is, c, was told
              \* its own port; Nothing otherwise

urlVars == <<title, net, alive, stations, natFile, natCache, call, misled>>

NoStations == [lan |-> Nothing, pub |-> Nothing]
Station(port, rvcid, cid, type) == [port |-> port, rvcid |-> rvcid, cid |-> cid, type |-> type]

isPrivateIP(ip) == ip \in PrivateIPs

\* The observed public address of a console, or Nothing if it is private.
PublicIPOf(c) == IF isPrivateIP(net[c].from) THEN Nothing ELSE net[c].from

behindSameNAT(a, b) == PublicIPOf(a) # Nothing /\ PublicIPOf(a) = PublicIPOf(b)

\* The address of the public station: what the console reports, or where it connects from.
PublicAddr(c) == IF net[c].reports = Nothing THEN net[c].from ELSE net[c].reports

(* selectStations, by address: a private one is the LAN's; of two that read as *)
(* public the type decides, which a LAN station does not carry.                *)
selectStations(c, st) ==
  IF st.lan = Nothing \/ st.pub = Nothing THEN [local |-> Nothing, public |-> Nothing]
  ELSE IF net[c].overlay
  THEN [local |-> "lan", public |-> IF st.pub.type THEN "pub" ELSE "lan"]
  ELSE [local |-> "lan", public |-> IF isPrivateIP(PublicAddr(c)) THEN Nothing ELSE "pub"]

UrlsInit ==
  /\ title \in Titles /\ net \in Networks
  /\ alive = {} /\ stations = [c \in Hosts |-> NoStations]
  /\ natFile = [i \in PublicIPs \cup PrivateIPs |-> Nothing] /\ natCache = Nothing
  /\ call = [c \in Consoles |-> Nothing] /\ misled = Nothing

(* handleRegister: a LAN station with the port the console knows at that     *)
(* time, and the public one it reports or one derived at the address and     *)
(* port of the connection.  Both get the RVCID, the public one its type.     *)
handleRegister(c, port) ==
  /\ alive' = alive \cup {c}
  /\ stations' = [h \in Hosts |->
                    IF h = c
                    THEN [lan |-> Station(port, TRUE, FALSE, FALSE),
                          pub |-> Station(IF net[c].reports = Nothing THEN tcpPort[c] ELSE port,
                                          TRUE, FALSE, TRUE)]
                    ELSE stations[h]]
  /\ UNCHANGED <<title, net, natFile, natCache, call, misled>>

(* handleReplaceURL: after the NAT check the console reports its UDP port    *)
(* and its CID, in a station for either address, with its RVCID or without,  *)
(* and a public one with its type or without.                                *)
handleReplaceURL(c, which, rvcid, type) ==
  LET old == stations[c]
      s   == selectStations(c, old)
  IN /\ c \in alive \cap Hosts
     /\ stations' = [stations EXCEPT ![c] =
          IF title.preserveIdentity /\ Nothing \notin {s.local, s.public}
          THEN [lan |-> Station(udpPort[c], TRUE, TRUE, FALSE),
                pub |-> Station(old.pub.port, TRUE, TRUE, old.pub.type)]
          ELSE [old EXCEPT ![which] = Station(udpPort[c], rvcid, TRUE, type)]]
     /\ UNCHANGED <<title, net, alive, natFile, natCache, call, misled>>

(* The nncs responder (external) sees a probe at either of the console's     *)
(* addresses: one port per address.                                          *)
SeenAt(c) == {net[c].from, PublicAddr(c)}

NncsObserves(c) ==
  /\ \E ip \in SeenAt(c) : natFile' = [natFile EXCEPT ![ip] = udpPort[c]]
  /\ UNCHANGED <<title, net, alive, stations, natCache, call, misled>>

(* The connection ends; another goroutine may still hold it. *)
Disconnect(c) ==
  /\ c \in alive /\ alive' = alive \ {c}
  /\ call' = [d \in Consoles |->
       IF d = c THEN Nothing
       ELSE IF call[d] # Nothing /\ call[d].host = c /\ call[d].last = Nothing
       THEN [call[d] EXCEPT !.last = stations[c]]
       ELSE call[d]]
  /\ UNCHANGED <<title, net, stations, natFile, natCache, misled>>

-----------------------------------------------------------------------------
\* natPortForIP: from the copy, or from the file when the copy is too old.
NatTables == {natFile} \cup (IF natCache = Nothing THEN {} ELSE {natCache})

Ports(st) == [w \in {"lan", "pub"} |-> IF st[w] = Nothing THEN Nothing ELSE st[w].port]

Both(port) == [lan |-> port, pub |-> port]

Bridge(status, ports) == [status |-> status, ports |-> ports]

(* The port is looked up by the address of the public station. *)
natBridgeStations(host, st, table) ==
  LET s        == selectStations(host, st)
      local    == st[s.local]
      seen     == table[PublicAddr(host)]
      reported == title.reportedPort /\ local.rvcid /\ local.port # UnsetPort
      port     == IF seen # Nothing THEN seen ELSE local.port
  IN IF Nothing \in {s.local, s.public} \/ s.local = s.public THEN Bridge("NoStations", Ports(st))
     ELSE IF seen = Nothing /\ ~reported THEN Bridge("NoObservation", Ports(st))
     ELSE IF ~local.rvcid THEN Bridge("NoRVCID", Ports(st))
     ELSE Bridge("OK", Both(port))

\* A LAN station beside a public one at the loopback address: LocalLoopbackStations.
OnLoopback(host, st) ==
  /\ Nothing \notin {st.lan, st.pub} /\ ~net[host].overlay
  /\ PublicAddr(host) = Loopback /\ st.pub.type

(* Consoles on one machine keep the port each reported itself; title.loopback *)
(* is LocalLoopbackStations without PublicStationFirst.                       *)
bridgeSessionStations(host, st, table) ==
  LET s == selectStations(host, st)
  IN IF title.preserveIdentity
     THEN IF Nothing \in {s.local, s.public} THEN Bridge("NoStations", Ports(st))
          ELSE IF ~st[s.local].cid \/ ~st[s.public].cid THEN Bridge("NoRVCID", Ports(st))
          ELSE Bridge("OK", [lan |-> st[s.local].port, pub |-> st[s.public].port])
     ELSE IF ~title.loopback \/ ~OnLoopback(host, st) THEN natBridgeStations(host, st, table)
     ELSE IF ~st.lan.cid \/ ~st.lan.rvcid \/ st.lan.port = UnsetPort
     THEN Bridge("NoRVCID", Ports(st))
     ELSE Bridge("OK", Ports(st))

bridgeSessionStationsForPair_Observed(joiner, host, st, table) ==
  bridgeSessionStations(host, st, table)

(* Between two consoles at one address the observation may be the joiner's *)
(* own port: the host's is the one it reported.                            *)
bridgeSessionStationsForPair(joiner, host, st, table) ==
  LET s     == selectStations(host, st)
      local == st[s.local]
  IN IF ~behindSameNAT(joiner, host) \/ title.preserveIdentity
     THEN bridgeSessionStations(host, st, table)
     ELSE IF Nothing \in {s.local, s.public} THEN Bridge("NoStations", Ports(st))
     ELSE IF ~local.rvcid \/ local.port = UnsetPort THEN Bridge("NoRVCID", Ports(st))
     ELSE Bridge("OK", Both(local.port))

(* relayedFor: the public candidate may be pointed at the relay; the other *)
(* stays as it is.                                                         *)
relayedFor(ports) == {ports} \cup (IF ports.pub = Nothing THEN {} ELSE {[ports EXCEPT !.pub = relayPort]})

Tell(c, peer, ports) ==
  misled' = IF udpPort[c] \in {ports.lan, ports.pub} THEN <<c, peer>> ELSE Nothing

Answer(joiner, host, ports) ==
  /\ \E p \in relayedFor(ports) : Tell(joiner, host, p)
  /\ call' = [call EXCEPT ![joiner] = Nothing]

(* The stations of the host, now if nothing is to be gained by waiting.  A room *)
(* that has gone is answered as a host that has gone; a game server may replace *)
(* the whole of it (SessionStations), which is not modelled.                    *)
getSessionURLs(joiner, host) ==
  /\ joiner \in alive /\ joiner # host /\ call[joiner] = Nothing
  /\ \/ /\ host \notin alive
        /\ Tell(joiner, host, NoStations)
        /\ UNCHANGED <<call, natCache>>
     \/ /\ host \in alive
        /\ \E table \in NatTables :
             LET b == bridgeSessionStationsForPair(joiner, host, stations[host], table) IN
             /\ natCache' = table
             /\ IF b.status # "NoRVCID" THEN Answer(joiner, host, b.ports)
                ELSE /\ call' = [call EXCEPT ![joiner] = [host |-> host, polls |-> 0, last |-> Nothing]]
                     /\ misled' = misled
  /\ UNCHANGED <<title, net, alive, stations, natFile>>

\* The stations of the connection the goroutine holds.
HostStations(k) == IF k.last = Nothing THEN stations[k.host] ELSE k.last

Poll_UntilReady(joiner) ==
  /\ call[joiner] # Nothing
  /\ LET k == call[joiner] IN
     \E table \in NatTables :
       LET b == bridgeSessionStationsForPair(joiner, k.host, HostStations(k), table) IN
       natCache' = table /\ b.status = "OK" /\ Answer(joiner, k.host, b.ports)
  /\ UNCHANGED <<title, net, alive, stations, natFile>>

(* answerSessionURLsWhenHostIsReady, once every hostReplaceURLPoll: what the *)
(* host has reported by the deadline is the answer if the bridge is not.     *)
Poll(joiner) ==
  /\ call[joiner] # Nothing
  /\ LET k == call[joiner] IN
     \/ /\ k.polls < maxPolls
        /\ \E table \in NatTables :
             LET b == bridgeSessionStationsForPair(joiner, k.host, HostStations(k), table) IN
             /\ natCache' = table
             /\ IF b.status = "OK" THEN Answer(joiner, k.host, b.ports)
                ELSE call' = [call EXCEPT ![joiner].polls = @ + 1] /\ misled' = misled
     \/ /\ k.polls = maxPolls
        /\ Answer(joiner, k.host, Ports(HostStations(k)))
        /\ natCache' = natCache
  /\ UNCHANGED <<title, net, alive, stations, natFile>>

\* natPortUnambiguous: nobody else is connected from that address.
natPortUnambiguous(c) == \A d \in alive : net[d].from = net[c].from => d = c

\* overlayStation: the station sent has the overlay's address, registered beside the observed one.
overlayStation(c, which) ==
  which = "lan" /\ net[c].overlay /\ PublicAddr(c) = net[c].from

(* pushInitiateProbe: the target is told to probe the caller, at the port the *)
(* caller sent, at the observed one, or at the relay.                         *)
pushInitiateProbe(caller, target, port, which) ==
  /\ caller \in alive /\ target \in alive /\ caller # target
  /\ \E table \in NatTables :
       LET repoints == /\ ~isPrivateIP(net[caller].from)
                       /\ title.repoint \/ overlayStation(caller, which)
           seen     == table[net[caller].from]
           moved    == IF repoints /\ seen # Nothing /\ natPortUnambiguous(caller)
                       THEN seen ELSE port
           direct   == IF behindSameNAT(caller, target) THEN port ELSE moved
       IN /\ natCache' = table
          /\ \E p \in {direct, relayPort} : Tell(target, caller, [NoStations EXCEPT !.pub = p])
  /\ UNCHANGED <<title, net, alive, stations, natFile, call>>

UrlsNext ==
  \E c \in Consoles :
    \/ \E port \in {UnsetPort, tcpPort[c]} : handleRegister(c, port)
    \/ \E which \in {"lan", "pub"}, rvcid \in BOOLEAN :
         \E type \in {FALSE, which = "pub"} : handleReplaceURL(c, which, rvcid, type)
    \/ NncsObserves(c)
    \/ Disconnect(c)
    \/ \E host \in Hosts : getSessionURLs(c, host)
    \/ \E target \in Consoles, which \in {"lan", "pub"} :
         pushInitiateProbe(c, target, udpPort[c], which)
    \/ Poll(c)

-----------------------------------------------------------------------------
(* Two consoles that do not connect from one public address, and are seen at  *)
(* one all the same: one of them reports, or probes from, an address that is  *)
(* not the one its connection comes from.                                     *)
Crossed(a, b) == ~behindSameNAT(a, b) /\ SeenAt(a) \cap SeenAt(b) \cap PublicIPs # {}

(* A console is pointed at its own port for its peer, by the answer to        *)
(* GetSessionURLs or by a pushed probe, at most if the two are crossed.  Two  *)
(* behind one router, two on the server's machine and two that have no        *)
(* address in common never are, whoever probed the nncs responder last from   *)
(* an address they share, and however old the copy of its table is.  For      *)
(* crossed consoles behindSameNAT compares the addresses of the connections,  *)
(* the port is looked up by the one of the public station, and the answer may *)
(* be the asker's own.                                                        *)
NeverPointsAtAsker == misled # Nothing => Crossed(misled[1], misled[2])
=============================================================================
