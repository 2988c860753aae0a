----------------------------- MODULE Tournaments -----------------------------
(***************************************************************************)
(* The tournaments players create (tournament.go).  The flusher keeps      *)
(* pointers when it has released the lock, so a registration that comes    *)
(* while it marshals is written or not, tournament by tournament; a        *)
(* deletion is not.                                                        *)
(*                                                                         *)
(* A recorded tournament that does not validate (validStoredTournament:    *)
(* left by another version of the server) is quarantined: kept in the file *)
(* and not served.  One without an identifier is skipped, and gone with    *)
(* the next write.  The structure the creator sends stays opaque; payloads *)
(* CreateTournament refuses at once change nothing and are left out.       *)
(***************************************************************************)
EXTENDS WriteBehind, FiniteSets

CONSTANTS
  Players,
  Ids,             \* identifiers from 1000 up; the instance ends with them
  Quarantinable,   \* identifiers the first file may hold of tournaments that do not validate
  tournamentMax

FirstID == 1000
NoID    == 0

ASSUME TournamentsAssumption ==
  /\ Ids \subseteq Nat \ (0 .. FirstID - 1) /\ Quarantinable \subseteq Ids \cup {NoID}
  /\ tournamentMax \in Nat

VARIABLE nextID

Tournament == [owner : Players, participants : SUBSET Players]
NoTournaments == [live |-> [id \in Ids |-> Absent], quarantined |-> {}]
byID(t) == {id \in Ids : t.live[id] # Absent}

TournamentsInit ==
  /\ \E q \in SUBSET Quarantinable :
       WriteBehindInit(NoTournaments, [NoTournaments EXCEPT !.quarantined = q])
  /\ nextID = FirstID

RecordedIds_ValidOnly(d) == byID(d)

(* Every recorded tournament moves nextID on, the quarantined ones too. *)
RecordedIds(d) == byID(d) \cup d.quarantined

(* What is read of a file: entries without an identifier are skipped. *)
Readable(d) == [d EXCEPT !.quarantined = @ \ {NoID}]

(* A file that cannot be read leaves nextID where the process starts. *)
tournamentInit ==
  \/ /\ Load(Readable(disk))
     /\ nextID' \in {FirstID} \cup {id + 1 : id \in RecordedIds(Readable(disk))}
     /\ \A id \in RecordedIds(Readable(disk)) : id < nextID'
  \/ LoadFails(NoTournaments) /\ UNCHANGED nextID

(* The flag is raised after the lock is released.  A payload that does not    *)
(* validate once the identifier is stamped on it has used one up.             *)
CreateTournament(p) ==
  /\ loaded /\ nextID \in Ids
  /\ Cardinality(byID(table)) < tournamentMax
  /\ \/ ChangeThenMark([table EXCEPT !.live[nextID] = [owner |-> p, participants |-> {p}]])
     \/ UNCHANGED <<loaded, table, marking, dirty, diskVars>>
  /\ nextID' = nextID + 1
  /\ UNCHANGED flusherVars

(* The flusher's pointer to the tournament sees the registration. *)
joinTournament(id, p) ==
  /\ id \in byID(table) /\ p \notin table.live[id].participants
  /\ ChangeAndMark([table EXCEPT !.live[id].participants = @ \cup {p}])
  /\ todo' = {IF e.id = id THEN [e EXCEPT !.t.participants = @ \cup {p}] ELSE e : e \in todo}
  /\ UNCHANGED <<nextID, pc, snap>>

deleteTournament(id, p) ==
  /\ id \in byID(table) /\ table.live[id].owner = p
  /\ ChangeAndMark([table EXCEPT !.live[id] = Absent])
  /\ UNCHANGED <<nextID, flusherVars>>

(* Under the read lock: the quarantined entries and a pointer to each other. *)
CollectTournaments ==
  /\ pc = "collect"
  /\ todo' = {[id |-> id, t |-> table.live[id]] : id \in byID(table)}
  /\ snap' = [NoTournaments EXCEPT !.quarantined = table.quarantined]
  /\ pc' = "marshal"
  /\ UNCHANGED <<loaded, table, marking, dirty, diskVars, nextID>>

MarshalTournament(e) ==
  /\ pc = "marshal"
  /\ snap' = [snap EXCEPT !.live[e.id] = e.t]
  /\ todo' = todo \ {e}
  /\ UNCHANGED <<loaded, table, marking, dirty, pc, diskVars, nextID>>

TournamentsMarshalled ==
  /\ pc = "marshal" /\ todo = {}
  /\ pc' = "write"
  /\ UNCHANGED <<loaded, table, marking, dirty, todo, snap, diskVars, nextID>>

TournamentsFlusher ==
  \/ (SwapFlag \/ WriteFile \/ WriteFails) /\ UNCHANGED nextID
  \/ CollectTournaments
  \/ \E e \in todo : MarshalTournament(e)
  \/ TournamentsMarshalled

TournamentsCrash == Crash(NoTournaments) /\ nextID' = FirstID

TournamentsNext ==
  \/ tournamentInit
  \/ \E p \in Players : CreateTournament(p)
  \/ \E id \in Ids, p \in Players : joinTournament(id, p) \/ deleteTournament(id, p)
  \/ MarkDirty /\ UNCHANGED nextID
  \/ TournamentsFlusher
  \/ TournamentsCrash

-----------------------------------------------------------------------------
(* Once nothing waits to be written, the file holds exactly the tournaments *)
(* in memory: no registration, creation or deletion that raced the flusher  *)
(* is missing from it, in whatever order the flag, the lock and the         *)
(* marshalling were passed.                                                 *)
TournamentsSaved == Quiet => Readable(disk) = table

(* A tournament that does not validate is never wiped from the file, and no *)
(* new tournament gets an identifier the file still records, over any       *)
(* number of deletions, writes, crashes and restarts; unless the process    *)
(* could not read the file, which its first write then replaces.            *)
KeepsRecorded ==
  unread \/
  /\ Readable(disk).quarantined \subseteq disk'.quarantined
  /\ loaded => \A id \in byID(table') \ byID(table) :
                 id \notin byID(disk) \cup disk.quarantined
=============================================================================
