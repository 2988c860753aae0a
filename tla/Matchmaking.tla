---------------------------- MODULE Matchmaking ----------------------------
(***************************************************************************)
(* The matchmaking store of one game server (matchmaking_handlers.go,      *)
(* matchmaking_hebergement.go, matchmaking_acnh.go): the gatherings and    *)
(* their participants, the private-room codes, and what becomes of them    *)
(* when consoles create, search, join, leave, reconnect and vanish.        *)
(*                                                                         *)
(* Every handler runs under m.mu, on the goroutine of the caller's         *)
(* connection, so a handler is one action; the registry it looks players   *)
(* up in (module Registry) changes in between.  The game server calls      *)
(* RemovePlayer, and MigrerHebergementDepuis before it, for every          *)
(* OnDisconnect, after a grace delay: here at any later time.              *)
(*                                                                         *)
(* A session is reduced to what a handler tests: game mode, password,      *)
(* capacity, openness and the flag that allows its owner to change.        *)
(***************************************************************************)
EXTENDS Registry, Sequences, SequencesExt

CONSTANTS
  Sessions,           \* sessions the consoles ask for
  Patches,            \* partial updates they send (UpdateMatchmakeSessionPart)
  NatClass,           \* what each player's console reports of its NAT
  SoloPlayers,        \* NEX_SOLO_PIDS
  Codes, NoCode,      \* private-room codes; "" for none
  NoRoom,             \* nil
  NotifierDeparts, SessionPartPersists, UseSearchCriteria,   \* options of the title
  StrangersClose,     \* may a console open or close a room it is not in?
  CodesClash,         \* may a room be given the code another room has?
  MaxGid              \* bound on nextGID

NoPassword == "none"     \* UserPasswordEnabled is false
EmptyPassword == ""      \* enabled, with an empty password

ASSUME MatchmakingAssumption ==
  /\ \A x \in Sessions :
       /\ DOMAIN x = {"mode", "pwd", "max", "open", "migratable"}
       /\ x.mode \in Nat /\ x.pwd \in STRING
       /\ x.max \in Nat /\ x.open \in BOOLEAN /\ x.migratable \in BOOLEAN
  /\ \A u \in Patches :
       /\ DOMAIN u = {"code", "mode", "max", "open"}
       /\ u.code \in Codes \cup {NoCode, "keep"} /\ u.mode \in Nat /\ u.max \in Nat
       /\ u.open \in {"keep", "open", "close"}
  /\ NatClass \in [Players -> {"unknown", "open", "moderate", "strict"}]
  /\ SoloPlayers \subseteq Players
  /\ {NoCode, "keep"} \cap Codes = {}
  /\ {NotifierDeparts, SessionPartPersists, UseSearchCriteria, StrangersClose, CodesClash}
       \subseteq BOOLEAN
  /\ MaxGid \in Nat

VARIABLES
  gatherings,   \* m.gatherings: for a gathering id its room, or NoRoom
  byCode,       \* m.byCode: for a code a gathering id, 0 for none
  nextGID       \* m.nextGID

storeVars == <<gatherings, byCode, nextGID>>
vars == <<storeVars, registryVars>>

Gids == 1 .. MaxGid

Init ==
  /\ RegistryInit
  /\ gatherings = [g \in Gids |-> NoRoom]
  /\ byCode = [c \in Codes |-> 0]
  /\ nextGID = 1

Rooms == {g \in Gids : gatherings[g] # NoRoom}

-----------------------------------------------------------------------------
(* Helpers *)

(* A request comes from a socket that is open.  A console that left says      *)
(* nothing more; one that was evicted does not know and its requests are      *)
(* handled all the same (handlePacket does not look at c.state).              *)
Calls(s) == s \in socketOpen /\ connPID[s] # NoPID /\ (Evictions \/ s \in live)

containsPID(list, p) == Contains(list, p)

(* The loop of removePID and of setParticipation: the members of `wanted' that *)
(* are in the list, in its order.                                              *)
Kept(list, wanted) ==
  LET out[i \in 0 .. Len(list)] ==
        IF i = 0 THEN <<>>
        ELSE IF list[i] \in wanted THEN Append(out[i - 1], list[i]) ELSE out[i - 1]
  IN out[Len(list)]

removePID(list, p) == Kept(list, Players \ {p})

WithParts(room, parts) == [room EXCEPT !.parts = parts, !.num = Len(parts)]

(* The codes that leave with the rooms that vanish (delete(m.byCode, g.code)). *)
DropCodes(gone) ==
  [c \in Codes |-> IF \E g \in gone : gatherings[g].code = c THEN 0 ELSE byCode[c]]

natCompatible(a, b) ==
  \/ "unknown" \in {a, b}
  \/ "strict" \notin {a, b}
  \/ "open" \in {a, b}

(* The NAT class of a participant is that of its live connection. *)
pidNATClass(p) == IF Online(p) THEN NatClass[p] ELSE "unknown"

gatheringNATCompatible(p, parts) ==
  \A i \in DOMAIN parts :
    parts[i] # p => natCompatible(NatClass[p], pidNATClass(parts[i]))

motDePasseCompatible(cand, src) ==
  \/ cand.pwd = NoPassword
  \/ cand.pwd = src.pwd /\ src.pwd # EmptyPassword

-----------------------------------------------------------------------------
(* Creating *)

FinalizeCreatedSession_NoConn(s, src) ==
  [mode |-> src.mode, pwd |-> src.pwd, max |-> IF src.max = 0 THEN 12 ELSE src.max,
   open |-> src.open, migratable |-> src.migratable,
   owner |-> connPID[s], host |-> connPID[s], hostConn |-> 0,
   parts |-> <<connPID[s]>>, num |-> 1, code |-> NoCode]

(* finalizeCreatedSession: no maximum means twelve. *)
finalizeCreatedSession(s, src) ==
  [mode |-> src.mode, pwd |-> src.pwd, max |-> IF src.max = 0 THEN 12 ELSE src.max,
   open |-> src.open, migratable |-> src.migratable,
   owner |-> connPID[s], host |-> connPID[s], hostConn |-> connID[s],
   parts |-> <<connPID[s]>>, num |-> 1, code |-> NoCode]

(* releaseAbandonedSolo: the rooms the player waits in alone. *)
AbandonedSolo(p) == {g \in Rooms : gatherings[g].parts = <<p>>}

createGathering(s, src) ==
  LET gone == AbandonedSolo(connPID[s])
  IN /\ nextGID <= MaxGid
     /\ nextGID' = nextGID + 1
     /\ gatherings' = [g \in Gids |-> IF g = nextGID THEN finalizeCreatedSession(s, src)
                                      ELSE IF g \in gone THEN NoRoom ELSE gatherings[g]]
     /\ byCode' = DropCodes(gone)

createSession(s, src) ==
  /\ Calls(s)
  /\ createGathering(s, src)
  /\ UNCHANGED registryVars

(* The caller enters a room, unless it is in it. *)
Enter(s, g) ==
  LET parts == gatherings[g].parts
  IN /\ gatherings' = [gatherings EXCEPT ![g] = WithParts(gatherings[g],
           IF containsPID(parts, connPID[s]) THEN parts ELSE Append(parts, connPID[s]))]
     /\ UNCHANGED <<byCode, nextGID>>

(* The rooms a search accepts; `refused' are those the criteria exclude. *)
Candidates(s, src, refused) ==
  {g \in Rooms \ refused :
     LET room == gatherings[g]
     IN /\ room.mode = src.mode /\ room.open
        /\ motDePasseCompatible(room, src)
        /\ Len(room.parts) < room.max
        /\ gatheringNATCompatible(connPID[s], room.parts)}

(* A room whose owner is online if there is one, else any; the map is visited *)
(* in no particular order.                                                    *)
Eligible(s, src, refused) ==
  LET all    == Candidates(s, src, refused)
      hosted == {g \in all : Online(gatherings[g].owner)}
  IN IF connPID[s] \in SoloPlayers THEN {}
     ELSE IF hosted # {} THEN hosted ELSE all

autoMatchmake(s, src, refused) ==
  /\ Calls(s)
  /\ LET eligible == Eligible(s, src, refused)
     IN IF eligible = {} THEN createGathering(s, src)
        ELSE \E g \in eligible : Enter(s, g)
  /\ UNCHANGED registryVars

JoinSession_NoLimit(s, g) ==
  /\ Calls(s) /\ g \in Rooms
  /\ Enter(s, g)
  /\ UNCHANGED registryVars

(* A friend-join: only the capacity is checked. *)
joinSession(s, g) ==
  /\ Calls(s) /\ g \in Rooms
  /\ \/ containsPID(gatherings[g].parts, connPID[s])
     \/ Len(gatherings[g].parts) < gatherings[g].max
  /\ Enter(s, g)
  /\ UNCHANGED registryVars

-----------------------------------------------------------------------------
(* Changing a room *)

(* Nothing looks whether another room has the code a room is given: makeCode  *)
(* draws among 33^5, and consoles choose.                                     *)
Unshared(g, c) == CodesClash \/ \A h \in Rooms \ {g} : gatherings[h].code # c

(* privateRoomCreate and makeCode: neither the caller nor the room is checked, *)
(* and a code given before now leads here.                                     *)
privateRoomCreate(s, g, c) ==
  /\ Calls(s) /\ Unshared(g, c)
  /\ byCode' = [byCode EXCEPT ![c] = g]
  /\ gatherings' = IF g \in Rooms THEN [gatherings EXCEPT ![g].code = c] ELSE gatherings
  /\ UNCHANGED <<nextGID, registryVars>>

SetParticipation_KeepsCount(s, g, open) ==
  /\ Calls(s) /\ g \in Rooms
  /\ StrangersClose \/ containsPID(gatherings[g].parts, connPID[s])
  /\ gatherings' = [gatherings EXCEPT ![g].open = open, ![g].parts =
       IF open THEN @ ELSE Kept(@, {p \in Players : p = connPID[s] \/ Online(p)})]
  /\ UNCHANGED <<byCode, nextGID, registryVars>>

(* CloseParticipation and OpenParticipation: closing takes out whoever has no *)
(* connection, the caller excepted.  The handler does not look whether the    *)
(* caller takes part; consoles open and close their own rooms.                *)
setParticipation(s, g, open) ==
  /\ Calls(s) /\ g \in Rooms
  /\ StrangersClose \/ containsPID(gatherings[g].parts, connPID[s])
  /\ LET room == [gatherings[g] EXCEPT !.open = open]
         vivants == Kept(room.parts, {p \in Players : p = connPID[s] \/ Online(p)})
     IN gatherings' = [gatherings EXCEPT ![g] =
          IF open THEN room ELSE WithParts(room, vivants)]
  /\ UNCHANGED <<byCode, nextGID, registryVars>>

(* applySessionPart: every field of the room the update carries is written. *)
applySessionPart(room, u) ==
  [room EXCEPT !.code = IF u.code = "keep" THEN @ ELSE u.code,
               !.mode = IF u.mode = 0 THEN @ ELSE u.mode,
               !.max  = IF u.max = 0 THEN @ ELSE u.max,
               !.open = IF u.open = "keep" THEN @ ELSE u.open = "open"]

UpdateSessionPart_NotIndexed(s, g, u) ==
  /\ Calls(s) /\ g \in Rooms /\ SessionPartPersists
  /\ u.code \in Codes => Unshared(g, u.code)
  /\ gatherings' = [gatherings EXCEPT ![g] = applySessionPart(@, u)]
  /\ UNCHANGED <<byCode, nextGID, registryVars>>

(* The caller is not checked. *)
updateSessionPart(s, g, u) ==
  /\ Calls(s) /\ g \in Rooms /\ SessionPartPersists
  /\ u.code \in Codes => Unshared(g, u.code)
  /\ gatherings' = [gatherings EXCEPT ![g] = applySessionPart(@, u)]
  /\ byCode' = [c \in Codes |-> IF u.code = c THEN g ELSE byCode[c]]
  /\ UNCHANGED <<nextGID, registryVars>>

(* MigrateGatheringOwnership: the first candidate that takes part goes to the *)
(* head of the list; OwnerPID and HostPID stay.                               *)
migrateGatheringOwnership(s, g, p) ==
  /\ Calls(s) /\ g \in Rooms
  /\ LET parts == gatherings[g].parts
     IN \E i \in DOMAIN parts :
          /\ parts[i] = p
          /\ gatherings' = [gatherings EXCEPT ![g] =
               [@ EXCEPT !.parts = [parts EXCEPT ![1] = parts[i], ![i] = parts[1]]]]
  /\ UNCHANGED <<byCode, nextGID, registryVars>>

-----------------------------------------------------------------------------
(* Leaving *)

(* Only the owner may unregister; the code of the room stays in byCode. *)
unregister(s, g) ==
  /\ Calls(s) /\ g \in Rooms
  /\ gatherings[g].owner = connPID[s]
  /\ gatherings' = [gatherings EXCEPT ![g] = NoRoom]
  /\ UNCHANGED <<byCode, nextGID, registryVars>>

EndParticipation_LeavesEmpty(s, g) ==
  /\ Calls(s) /\ g \in Rooms
  /\ gatherings' = [gatherings EXCEPT ![g] =
       WithParts(gatherings[g], removePID(gatherings[g].parts, connPID[s]))]
  /\ UNCHANGED <<byCode, nextGID, registryVars>>

endParticipation(s, g) ==
  /\ Calls(s) /\ g \in Rooms
  /\ LET rest == removePID(gatherings[g].parts, connPID[s])
     IN gatherings' = [gatherings EXCEPT ![g] =
          IF rest = <<>> THEN NoRoom ELSE WithParts(gatherings[g], rest)]
  /\ UNCHANGED <<byCode, nextGID, registryVars>>

(* What is left of a room when a player is removed: the room disappears when  *)
(* it is empty, or when its owner goes and the title does not migrate.        *)
Without(room, p) ==
  LET rest == removePID(room.parts, p)
  IN IF ~containsPID(room.parts, p) THEN room
     ELSE IF rest = <<>> THEN NoRoom
     ELSE IF room.owner # p THEN WithParts(room, rest)
     ELSE IF NotifierDeparts /\ room.migratable
          THEN [WithParts(room, rest) EXCEPT !.owner = rest[1], !.host = rest[1]]
     ELSE NoRoom

RemovePlayer_OwnRoomsOnly(p) ==
  LET after == [g \in Gids |-> IF g \in Rooms /\ gatherings[g].owner = p
                               THEN Without(gatherings[g], p) ELSE gatherings[g]]
  IN /\ gatherings' = after
     /\ byCode' = DropCodes({g \in Rooms : after[g] = NoRoom})
     /\ UNCHANGED nextGID

RemovePlayer(p) ==
  LET after == [g \in Gids |-> IF g \in Rooms THEN Without(gatherings[g], p) ELSE NoRoom]
  IN /\ gatherings' = after
     /\ byCode' = DropCodes({g \in Rooms : after[g] = NoRoom})
     /\ UNCHANGED nextGID

(* The OnDisconnect callback of a connection, when its grace delay is over. *)
Departure(s) ==
  /\ \E k \in Closers : Disconnected(s, k)
  /\ RemovePlayer(connPID[s])

(* The first participant online, the player itself excepted, takes the room   *)
(* over and goes to the head of the list; without one nothing changes.        *)
Rehosted(room, p) ==
  LET reachable == {i \in DOMAIN room.parts : room.parts[i] # p /\ Online(room.parts[i])}
      heir == room.parts[CHOOSE i \in reachable : \A j \in reachable : i <= j]
  IN IF p \notin {room.host, room.owner} \/ reachable = {} THEN room
     ELSE [room EXCEPT !.host = heir, !.owner = heir, !.hostConn = connID[NewestOf(heir)],
                       !.parts = <<heir>> \o removePID(@, heir)]

(* MigrerHebergementDepuis: called for a connection that is gone, before the  *)
(* grace delay is over.                                                       *)
MigrerHebergementDepuis(s) ==
  /\ leaving[s] # {}
  /\ gatherings' = [g \in Gids |->
       IF g \in Rooms THEN Rehosted(gatherings[g], connPID[s]) ELSE NoRoom]
  /\ UNCHANGED <<byCode, nextGID, registryVars>>

-----------------------------------------------------------------------------
Request(s) ==
  \/ \E src \in Sessions : createSession(s, src)
  \/ \E src \in Sessions, refused \in IF UseSearchCriteria THEN SUBSET Rooms ELSE {{}} :
       autoMatchmake(s, src, refused)
  \/ \E g \in Gids :
       \/ joinSession(s, g) \/ unregister(s, g) \/ endParticipation(s, g)
       \/ \E c \in Codes : privateRoomCreate(s, g, c)
       \/ \E open \in BOOLEAN : setParticipation(s, g, open)
       \/ \E u \in Patches : updateSessionPart(s, g, u)
       \/ \E p \in Players : migrateGatheringOwnership(s, g, p)

Connection(s) == RegistryStep(s) /\ UNCHANGED storeVars

Next ==
  \E s \in Sockets : Request(s) \/ Connection(s) \/ Departure(s) \/ MigrerHebergementDepuis(s)

Spec == Init /\ [][Next]_vars

(* A WebSocket that ends takes its connection out of the registry, and the    *)
(* game server's callback runs in the end.                                    *)
FairSpec ==
  /\ Spec
  /\ \A s \in Sockets :
       /\ WF_vars(s \notin socketOpen /\ Leave(s, "receiver") /\ UNCHANGED storeVars)
       /\ WF_vars(Departure(s))

-----------------------------------------------------------------------------
(* Properties *)

Room == [mode : Nat, pwd : STRING, max : Nat \ {0}, open : BOOLEAN, migratable : BOOLEAN,
         owner : Players, host : Players, hostConn : 1 .. MaxConns,
         parts : Seq(Players), num : Nat, code : Codes \cup {NoCode}]

(* Types of the store. *)
TypeOK ==
  /\ gatherings \in [Gids -> Room \cup {NoRoom}]
  /\ byCode \in [Codes -> 0 .. MaxGid]
  /\ nextGID \in 1 .. MaxGid + 1

(* No participant of a room is listed twice, and NumParticipants, on which    *)
(* Pia sizes its mesh, is their number, through joins, departures and the     *)
(* pruning of CloseParticipation.                                             *)
RoomsConsistent ==
  \A g \in Rooms :
    LET room == gatherings[g]
    IN IsInjective(room.parts) /\ room.num = Len(room.parts)

(* No phantom lobby: a room has participants, and each of them has a live     *)
(* connection, or the OnDisconnect callback that will remove it is still due  *)
(* (RemovePlayer: otherwise a crashed client "leaks its lobby forever").      *)
NoPhantoms ==
  \A g \in Rooms :
    /\ gatherings[g].parts # <<>>
    /\ \A i \in DOMAIN gatherings[g].parts :
         LET p == gatherings[g].parts[i]
         IN Online(p) \/ \E s \in Sockets : connPID[s] = p /\ leaving[s] # {}

(* No step brings a player into a full room, whichever way it comes           *)
(* (joinSession: "Refuser d'entrer dans un salon PLEIN").                     *)
NeverOverfilled ==
  [][\A g \in Rooms \cap {h \in Gids : gatherings'[h] # NoRoom} :
       Len(gatherings'[g].parts) > Len(gatherings[g].parts)
         => Len(gatherings'[g].parts) <= gatherings'[g].max]_vars

(* The code a room shows leads to that room (resolveCode), as long as no two  *)
(* rooms have it: neither another code given to it before or after, nor a     *)
(* code left behind by a room that is gone, nor the end of another room takes *)
(* it away (makeCode, applySessionPart, RemovePlayer, releaseAbandonedSolo).  *)
CodesResolve ==
  \A g \in Rooms : gatherings[g].code # NoCode => byCode[gatherings[g].code] = g

(* A player whose connections have all ended for good is out of every room    *)
(* in the end.                                                                *)
DepartedLeave ==
  \A p \in Players :
    (\A s \in Sockets : connPID[s] = p => s \notin socketOpen)
      ~> \/ \E s \in Sockets : connPID[s] = p /\ s \in socketOpen
         \/ \A g \in Rooms : ~containsPID(gatherings[g].parts, p)

(* A room some participant of which is online, when no departure is being     *)
(* processed, is hosted by a live connection: GetSessionURLs finds it         *)
(* (MigrerHebergementDepuis: "un salon doit TOUJOURS etre heberge par         *)
(* quelqu'un de joignable").                                                  *)
HostReachable ==
  \A g \in Rooms :
    (\E i \in DOMAIN gatherings[g].parts : Online(gatherings[g].parts[i]))
      /\ (\A s \in Sockets : leaving[s] = {})
    => LiveID(gatherings[g].hostConn)
=============================================================================
