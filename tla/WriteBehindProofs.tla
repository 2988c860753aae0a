------------------------- MODULE WriteBehindProofs -------------------------
(***************************************************************************)
(* Proofs about the tables written behind: what is in the file once the    *)
(* flusher has caught up, what is never taken back from it and what a      *)
(* console without a ticket may become, for any number of players,         *)
(* identifiers, boards, addresses, crashes, failed writes and failed       *)
(* starts.                                                                 *)
(***************************************************************************)
EXTENDS MCWriteBehind, FiniteSetTheorems, TLAPS

TournamentTables ==
  [live : [Ids -> {Absent} \cup Tournament], quarantined : SUBSET (Ids \cup {NoID})]
BoardTables   == [BoardKeys \X Racers -> {Absent} \cup Entry]
ProfileTables == [Owners -> {Absent} \cup Blobs]
RecallTables  == [Hosts -> {Absent} \cup [pid : Accounts, at : Nat]]

\* A table of the store this behaviour follows.
OfStore(x) ==
  /\ store = "tournaments" => x \in TournamentTables
  /\ store = "boards" => x \in BoardTables
  /\ store = "profiles" => x \in ProfileTables
  /\ store = "recalls" => x \in RecallTables

Types == marking \in Nat /\ OfStore(table) /\ OfStore(snap) /\ OfStore(disk)

\* Every change of the table has raised the flag, and no flush has lowered it since.
Clean == loaded /\ marking = 0 /\ ~dirty

\* The copy or the file `a' has what it must have of the table `t'.
Covers(a, t) ==
  /\ store = "tournaments" => Readable(a) = t
  /\ store = "boards" => a = t
  /\ store = "profiles" /\ Cardinality(Owners) <= commonDataMaxStored =>
       \A p \in Stored(t) : a[p] = t[p]
  /\ store = "recalls" /\ Cardinality(Hosts) <= authRecallMax =>
       \A h \in Recalled(t) : a[h] = t[h]

\* While the flusher collects, what is not in the copy yet is still to come.
Collected ==
  /\ store = "tournaments" =>
       /\ snap.quarantined = table.quarantined
       /\ \A e \in todo : e.id \in Ids /\ e.t = table.live[e.id]
       /\ \A id \in Ids : snap.live[id] = table.live[id] \/ \E e \in todo : e.id = id
  /\ store = "profiles" /\ Cardinality(Owners) <= commonDataMaxStored =>
       \A p \in Stored(table) : snap[p] = table[p] \/ p \in todo
  /\ store = "recalls" /\ Cardinality(Hosts) <= authRecallMax =>
       \A h \in Recalled(table) : snap[h] = table[h] \/ h \in todo \cup expiring

\* What has not raised the flag is in the copy or in the file.
FlushOK ==
  /\ ~loaded => pc = "idle"
  /\ Clean =>
       /\ pc \in {"marshal", "range"} => Collected
       /\ pc = "write" => Covers(snap, table)
       /\ pc = "idle" /\ ~failed /\ ~unread => Covers(disk, table)

-----------------------------------------------------------------------------
(* What the stores have in common *)

(* The flusher's own steps, a crash and a failed start keep FlushOK. *)
LEMMA FlusherKeeps ==
  ASSUME store' = store, FlushOK, NEW t,
         SwapFlag \/ MarkDirty \/ WriteFile \/ WriteFails \/ Crash(t) \/ LoadFails(t)
  PROVE  FlushOK'
<1>1. CASE SwapFlag
  BY <1>1 DEF SwapFlag, FlushOK
<1>2. CASE MarkDirty
  BY <1>2 DEF MarkDirty, FlushOK, Clean, flusherVars
<1>3. CASE WriteFile
  <2>1. /\ pc = "write" /\ pc' = "idle" /\ disk' = snap
        /\ UNCHANGED <<loaded, table, marking, dirty>>
    BY <1>3 DEF WriteFile
  <2>2. Clean => Covers(snap, table)
    BY <2>1 DEF FlushOK
  <2>3. Clean' => Covers(disk, table)'
    BY <2>1, <2>2 DEF Clean, Covers
  <2> QED
    BY <2>1, <2>3 DEF FlushOK
<1>4. CASE WriteFails
  BY <1>4 DEF WriteFails, FlushOK
<1>5. CASE Crash(t)
  BY <1>5 DEF Crash, FlushOK, Clean
<1>6. CASE LoadFails(t)
  BY <1>6 DEF LoadFails, FlushOK, flusherVars
<1> QED
  BY <1>1, <1>2, <1>3, <1>4, <1>5, <1>6

(* So does the first use of the table, if what it reads is what the file holds. *)
LEMMA LoadKeeps ==
  ASSUME store' = store, FlushOK, NEW t, Load(t), Covers(disk, t)
  PROVE  FlushOK'
<1>1. pc' = "idle" /\ disk' = disk /\ table' = t
  BY DEF Load, FlushOK, flusherVars, diskVars
<1>2. Covers(disk, table)'
  BY <1>1 DEF Covers
<1> QED
  BY <1>1, <1>2 DEF FlushOK

(* A change of the table raises the flag or will raise it. *)
LEMMA ChangeKeeps ==
  ASSUME marking \in Nat, FlushOK, NEW t, ChangeThenMark(t) \/ ChangeAndMark(t)
  PROVE  FlushOK'
<1>1. CASE ChangeThenMark(t)
  <2>1. loaded' /\ ~Clean'
    BY <1>1 DEF ChangeThenMark, Clean
  <2> QED
    BY <2>1 DEF FlushOK
<1>2. CASE ChangeAndMark(t)
  <2>1. loaded' /\ ~Clean'
    BY <1>2 DEF ChangeAndMark, Clean
  <2> QED
    BY <2>1 DEF FlushOK
<1> QED
  BY <1>1, <1>2

(* All steps but those that change the table keep the types. *)
LEMMA TypesKept ==
  ASSUME store' = store, Types, NEW t, OfStore(t),
         SwapFlag \/ MarkDirty \/ WriteFile \/ WriteFails \/ Crash(t) \/ Load(t)
           \/ LoadFails(t)
  PROVE  Types'
<1>1. marking' \in Nat
  BY DEF Types, SwapFlag, MarkDirty, WriteFile, WriteFails, Crash, Load, LoadFails
<1>2. table' \in {table, t} /\ snap' \in {snap, t} /\ disk' \in {disk, snap}
  BY DEF SwapFlag, MarkDirty, WriteFile, WriteFails, Crash, Load, LoadFails, flusherVars, diskVars
<1> QED
  BY <1>1, <1>2 DEF Types, OfStore

-----------------------------------------------------------------------------
(* The boards *)

\* Every score of `a' is in `b', or a better one.
AtMost(a, b) ==
  \A k \in BoardKeys \X Racers : a[k] # Absent => b[k] # Absent /\ b[k].score >= a[k].score

(* No score is lost on its way from the file to the table and back, if the file was read. *)
ScoresOK ==
  /\ loaded /\ ~unread => AtMost(disk, table)
  /\ pc = "write" => (~unread => AtMost(disk, snap)) /\ AtMost(snap, table)

(* Scores are numbers: what is at most something at most a third is so itself. *)
LEMMA AtMostOrder ==
  ASSUME NEW a \in BoardTables
  PROVE  /\ AtMost(a, a)
         /\ \A b, c \in BoardTables : AtMost(a, b) /\ AtMost(b, c) => AtMost(a, c)
<1> USE BoardsAssumption
<1>0. \A b \in BoardTables, k \in BoardKeys \X Racers : b[k] # Absent => b[k].score \in Nat
  BY DEF BoardTables, Entry
<1>1. AtMost(a, a)
  BY <1>0 DEF AtMost
<1>2. ASSUME NEW b \in BoardTables, NEW c \in BoardTables, AtMost(a, b), AtMost(b, c)
      PROVE  AtMost(a, c)
  <2> SUFFICES ASSUME NEW k \in BoardKeys \X Racers, a[k] # Absent
               PROVE  c[k] # Absent /\ c[k].score >= a[k].score
    BY DEF AtMost
  <2>1. b[k] # Absent /\ b[k].score >= a[k].score /\ c[k] # Absent /\ c[k].score >= b[k].score
    BY <1>2 DEF AtMost
  <2>2. a[k].score \in Nat /\ b[k].score \in Nat /\ c[k].score \in Nat
    BY <1>0, <2>1
  <2> QED
    BY <2>1, <2>2
<1> QED
  BY <1>1, <1>2

(* recordScore keeps what the table has, and a table it is. *)
LEMMA RecordKeeps ==
  ASSUME table \in BoardTables, NEW k \in BoardKeys, NEW p \in Racers, NEW s \in Scores,
         NEW f \in Profiles, recordScore(k, p, s, f)
  PROVE  table' \in BoardTables /\ AtMost(table, table')
<1> USE BoardsAssumption
<1> PICK q : q = <<k, p>>
  OBVIOUS
<1> PICK prev : prev = table[q]
  OBVIOUS
<1> DEFINE kept == prev # Absent /\ prev.score >= s
           new  == [score |-> IF kept THEN prev.score ELSE s, profile |-> f]
<1>1. table' = [table EXCEPT ![q] = new]
  BY DEF recordScore, ChangeAndMark
<1>2. q \in BoardKeys \X Racers /\ prev \in {Absent} \cup Entry
  BY DEF BoardTables
<1>3. prev # Absent => prev.score \in Scores /\ prev.score \in Nat
  BY <1>2 DEF Entry
<1>4. new \in Entry /\ new # Absent
  BY <1>3 DEF Entry
<1>5. prev # Absent => new.score >= prev.score
  BY <1>3
<1> HIDE DEF new
<1>6. table' \in BoardTables
  BY <1>1, <1>2, <1>4 DEF BoardTables
<1>7. \A i \in BoardKeys \X Racers : table'[i] = IF i = q THEN new ELSE table[i]
  BY <1>1, <1>2 DEF BoardTables
<1>8. AtMost(table, table)
  BY AtMostOrder
<1> QED
  BY <1>4, <1>5, <1>6, <1>7, <1>8 DEF AtMost

(* Every step of the boards keeps the invariant, and every saved score. *)
LEMMA BoardsStep ==
  ASSUME store = "boards", store' = store, Types, FlushOK, ScoresOK, BoardsNext
  PROVE  Types' /\ FlushOK' /\ ScoresOK' /\ KeepsSavedScores
<1>t. /\ table \in BoardTables /\ snap \in BoardTables /\ disk \in BoardTables /\ marking \in Nat
      /\ NoBoards \in BoardTables /\ DOMAIN disk = BoardKeys \X Racers
  BY DEF Types, OfStore, BoardTables, NoBoards
<1>o. \A x \in BoardTables : OfStore(x)
  BY DEF OfStore
<1>d. (unread \/ AtMost(disk, disk')) => KeepsSavedScores
  BY <1>t DEF AtMost, KeepsSavedScores
<1>r. \A x \in BoardTables : AtMost(x, x)
  BY AtMostOrder
<1>0. CASE LoadFails(NoBoards)
  <2>1. Types' /\ FlushOK'
    BY <1>0, <1>o, <1>t, FlusherKeeps, TypesKept
  <2>2. disk' = disk /\ unread' /\ pc' = pc /\ ~loaded
    BY <1>0 DEF LoadFails, flusherVars
  <2>3. ScoresOK'
    BY <2>2 DEF ScoresOK, FlushOK
  <2> QED
    BY <1>d, <1>r, <1>t, <2>1, <2>2, <2>3
<1>1. CASE Load(disk)
  <2>1. Load(disk) /\ disk' = disk /\ table' = disk /\ pc' = pc /\ ~loaded
    BY <1>1 DEF Load, diskVars, flusherVars
  <2>2. pc' = "idle"
    BY <2>1 DEF FlushOK
  <2>3. Covers(disk, disk)
    BY DEF Covers
  <2>4. ScoresOK'
    BY <1>r, <1>t, <2>1, <2>2 DEF ScoresOK
  <2> QED
    BY <1>d, <1>o, <1>r, <1>t, <2>1, <2>3, <2>4, LoadKeeps, TypesKept
<1>2. ASSUME NEW k \in BoardKeys, NEW p \in Racers, NEW s \in Scores, NEW f \in Profiles,
             recordScore(k, p, s, f)
      PROVE  Types' /\ FlushOK' /\ ScoresOK' /\ KeepsSavedScores
  <2>1. PICK t : ChangeAndMark(t)
    BY <1>2 DEF recordScore
  <2>2. /\ disk' = disk /\ snap' = snap /\ pc' = pc /\ marking' = marking /\ loaded' = loaded /\ loaded
        /\ unread' = unread
    BY <1>2 DEF recordScore, ChangeAndMark, flusherVars, diskVars
  <2>3. table' \in BoardTables /\ AtMost(table, table')
    BY <1>2, <1>t, RecordKeeps
  <2>4. Types'
    BY <1>t, <2>2, <2>3 DEF Types, OfStore
  <2>5. (~unread => AtMost(disk, table')) /\ (pc = "write" => AtMost(snap, table'))
    BY <1>t, <2>2, <2>3, AtMostOrder DEF ScoresOK
  <2>6. ScoresOK'
    BY <2>2, <2>5 DEF ScoresOK
  <2> QED
    BY <1>d, <1>r, <1>t, <2>1, <2>2, <2>4, <2>6, ChangeKeeps
<1>3. CASE SwapFlag \/ WriteFails
  <2>1. Types' /\ FlushOK'
    BY <1>3, <1>o, <1>t, FlusherKeeps, TypesKept
  <2>2. UNCHANGED <<disk, table, snap, loaded, unread>> /\ pc' # "write"
    BY <1>3 DEF SwapFlag, WriteFails, diskVars
  <2>3. ScoresOK'
    BY <2>2 DEF ScoresOK
  <2> QED
    BY <1>d, <1>r, <1>t, <2>1, <2>2, <2>3
<1>4. CASE WriteFile
  <2>1. Types' /\ FlushOK'
    BY <1>4, <1>o, <1>t, FlusherKeeps, TypesKept
  <2>2. UNCHANGED <<table, loaded>> /\ pc = "write" /\ pc' = "idle" /\ disk' = snap
    BY <1>4 DEF WriteFile
  <2>3. ScoresOK' /\ (unread \/ AtMost(disk, disk'))
    BY <2>2 DEF ScoresOK
  <2> QED
    BY <1>d, <2>1, <2>3
<1>5. CASE CollectBoards
  <2>1. /\ UNCHANGED <<loaded, table, marking, dirty, disk, failed, unread>>
        /\ pc = "collect" /\ snap' = table /\ pc' = "write"
    BY <1>5 DEF CollectBoards, diskVars
  <2>2. loaded
    BY <2>1 DEF FlushOK
  <2>3. Types'
    BY <1>t, <2>1 DEF Types, OfStore
  <2>4. FlushOK'
    BY <2>1, <2>2 DEF FlushOK, Covers
  <2>5. ScoresOK'
    BY <1>r, <1>t, <2>1, <2>2 DEF ScoresOK
  <2> QED
    BY <1>d, <1>r, <1>t, <2>1, <2>3, <2>4, <2>5
<1>6. CASE Crash(NoBoards)
  <2>1. Types' /\ FlushOK'
    BY <1>6, <1>o, <1>t, FlusherKeeps, TypesKept
  <2>2. disk' = disk /\ ~loaded' /\ pc' = "idle"
    BY <1>6 DEF Crash
  <2>3. ScoresOK'
    BY <2>2 DEF ScoresOK
  <2> QED
    BY <1>d, <1>r, <1>t, <2>1, <2>2, <2>3
<1> QED
  BY <1>0, <1>1, <1>2, <1>3, <1>4, <1>5, <1>6 DEF BoardsNext, BoardsFlusher, boardInit

-----------------------------------------------------------------------------
(* The tournaments *)

\* Every recorded identifier is below the next one, on its way to the file too, and the
\* quarantined tournaments stay as they were read, if the file was read.
NumbersOK ==
  /\ nextID \in Nat /\ todo \subseteq [id : Ids, t : Tournament]
  /\ NoID \notin table.quarantined
  /\ loaded => \A id \in RecordedIds(table) : id < nextID
  /\ loaded /\ ~unread => /\ table.quarantined = disk.quarantined \ {NoID}
                          /\ \A id \in RecordedIds(disk) : id < nextID
  /\ pc \in {"marshal", "write"} => /\ snap.quarantined = table.quarantined
                                    /\ \A id \in byID(snap) : id < nextID
  /\ pc = "marshal" => \A e \in todo : e.id < nextID

WithEntry(a, id, r) == [a EXCEPT !.live[id] = r]

\* The table `b' is `a' but for the entry of `id'.
OneEntry(b, a, id, r) ==
  /\ b \in TournamentTables /\ b.quarantined = a.quarantined
  /\ \A i \in Ids : b.live[i] = IF i = id THEN r ELSE a.live[i]

(* One entry of a table is set. *)
LEMMA EntrySet ==
  ASSUME NEW a \in TournamentTables, NEW id \in Ids, NEW r \in {Absent} \cup Tournament
  PROVE  OneEntry(WithEntry(a, id, r), a, id, r)
  BY DEF TournamentTables, WithEntry, OneEntry

(* Two tables with the same entries are the same. *)
LEMMA SameTable ==
  ASSUME NEW a \in TournamentTables, NEW b \in TournamentTables, a.quarantined = b.quarantined,
         \A i \in Ids : a.live[i] = b.live[i]
  PROVE  a = b
<1>1. a.live = b.live
  BY DEF TournamentTables
<1> QED
  BY <1>1 DEF TournamentTables

(* Every step of the tournaments keeps the invariant and what is recorded. *)
LEMMA TournamentsStep ==
  ASSUME store = "tournaments", store' = store, Types, FlushOK, NumbersOK, TournamentsNext
  PROVE  Types' /\ FlushOK' /\ NumbersOK' /\ KeepsRecorded
<1> USE TournamentsAssumption
<1>t. /\ table \in TournamentTables /\ snap \in TournamentTables /\ disk \in TournamentTables
      /\ marking \in Nat /\ nextID \in Nat /\ Ids \subseteq Nat
  BY DEF Types, OfStore, NumbersOK
<1>e. /\ NoTournaments \in TournamentTables /\ byID(NoTournaments) = {}
      /\ NoTournaments.quarantined = {} /\ \A i \in Ids : NoTournaments.live[i] = Absent
  BY DEF NoTournaments, TournamentTables, byID
<1>o. \A x \in TournamentTables : OfStore(x)
  BY DEF OfStore
<1>b. \A x \in TournamentTables : byID(x) \subseteq Ids /\ x.quarantined \subseteq Ids \cup {NoID}
  BY DEF byID, TournamentTables
<1>r. \A x \in TournamentTables : /\ Readable(x) \in TournamentTables /\ byID(Readable(x)) = byID(x)
                                  /\ Readable(x).quarantined = x.quarantined \ {NoID}
                                  /\ Readable(x).live = x.live
  BY DEF Readable, byID, TournamentTables
<1>s. \A x \in TournamentTables : NoID \notin x.quarantined => Readable(x) = x
  <2> SUFFICES ASSUME NEW x \in TournamentTables, NoID \notin x.quarantined
               PROVE  Readable(x) = x
    OBVIOUS
  <2>1. x.quarantined \ {NoID} = x.quarantined
    OBVIOUS
  <2> QED
    BY <2>1, SMT DEF Readable, TournamentTables
<1>k. disk' = disk /\ (loaded => byID(table') \subseteq byID(table)) => KeepsRecorded
  BY <1>r, <1>t DEF KeepsRecorded
<1>0. CASE LoadFails(NoTournaments) /\ UNCHANGED nextID
  <2>1. Types' /\ FlushOK'
    BY <1>0, <1>e, <1>o, FlusherKeeps, TypesKept
  <2>2. /\ disk' = disk /\ table' = NoTournaments /\ unread' /\ pc' = pc /\ ~loaded /\ todo' = todo
        /\ pc = "idle" /\ nextID' = nextID
    BY <1>0 DEF LoadFails, flusherVars, FlushOK
  <2>3. RecordedIds(table') = {}
    BY <1>e, <2>2 DEF RecordedIds
  <2>4. NumbersOK'
    BY <1>e, <2>2, <2>3 DEF NumbersOK, RecordedIds, byID
  <2> QED
    BY <1>k, <2>1, <2>2, <2>4
<1>1. CASE /\ Load(Readable(disk))
           /\ nextID' \in {FirstID} \cup {id + 1 : id \in RecordedIds(Readable(disk))}
           /\ \A id \in RecordedIds(Readable(disk)) : id < nextID'
  <2> PICK read : read = Readable(disk)
    OBVIOUS
  <2>1. /\ Load(read) /\ disk' = disk /\ table' = read /\ pc' = pc /\ ~loaded /\ todo' = todo
        /\ nextID' \in {FirstID} \cup {id + 1 : id \in RecordedIds(read)}
        /\ \A id \in RecordedIds(read) : id < nextID'
    BY <1>1 DEF Load, diskVars, flusherVars
  <2>r. /\ read \in TournamentTables /\ byID(read) = byID(disk)
        /\ read.quarantined = disk.quarantined \ {NoID}
    BY <1>r, <1>t
  <2>2. pc' = "idle"
    BY <2>1 DEF FlushOK
  <2>3. Covers(disk, read)
    BY DEF Covers
  <2>4. nextID' \in Nat /\ nextID' >= FirstID
    <3>1. RecordedIds(read) \subseteq Ids
      BY <1>b, <2>r DEF RecordedIds
    <3>2. \A id \in Ids : id \in Nat /\ id >= FirstID
      BY DEF FirstID
    <3>3. CASE nextID' = FirstID
      BY <3>3 DEF FirstID
    <3>4. CASE nextID' # FirstID
      <4>1. PICK id \in RecordedIds(read) : nextID' = id + 1
        BY <2>1, <3>4
      <4>2. id \in Nat /\ id >= FirstID
        BY <3>1, <3>2
      <4> QED
        BY <4>1, <4>2 DEF FirstID
    <3> QED
      BY <3>3, <3>4
  <2>5. \A id \in RecordedIds(disk) : id < nextID'
    <3>1. RecordedIds(disk) \subseteq RecordedIds(read) \cup {NoID}
      BY <2>r DEF RecordedIds
    <3>2. NoID < nextID'
      BY <2>4 DEF NoID, FirstID
    <3> QED
      BY <2>1, <3>1, <3>2
  <2>6. NumbersOK'
    BY <2>1, <2>2, <2>4, <2>5, <2>r DEF NumbersOK, RecordedIds, byID
  <2> QED
    BY <1>k, <1>o, <1>t, <2>1, <2>3, <2>6, <2>r, LoadKeeps, TypesKept
<1>i. ASSUME nextID \in Ids, nextID' = nextID + 1, loaded,
             UNCHANGED <<loaded, table, marking, dirty, diskVars, flusherVars>>
      PROVE  Types' /\ FlushOK' /\ NumbersOK' /\ KeepsRecorded
  <2>1. UNCHANGED <<loaded, table, marking, dirty, disk, failed, unread, pc, snap, todo>>
    BY <1>i DEF diskVars, flusherVars
  <2>2. Types' /\ FlushOK'
    BY <2>1 DEF Types, OfStore, FlushOK, Clean, Covers, Collected
  <2>3. \A id \in Ids \cup {NoID} : id < nextID => id < nextID'
    BY <1>i, <1>t DEF NoID
  <2>4. /\ RecordedIds(table) \subseteq Ids \cup {NoID} /\ RecordedIds(disk) \subseteq Ids \cup {NoID}
        /\ byID(snap) \subseteq Ids /\ \A e \in todo : e.id \in Ids
    BY <1>b, <1>t DEF RecordedIds, NumbersOK
  <2>5. NumbersOK'
    <3>1. nextID' \in Nat
      BY <1>i, <1>t
    <3>2. \A id \in RecordedIds(table) : id < nextID'
      BY <1>i, <2>3, <2>4 DEF NumbersOK
    <3>3. ~unread => /\ table.quarantined = disk.quarantined \ {NoID}
                     /\ \A id \in RecordedIds(disk) : id < nextID'
      BY <1>i, <2>3, <2>4 DEF NumbersOK
    <3>4. pc \in {"marshal", "write"} => /\ snap.quarantined = table.quarantined
                                         /\ \A id \in byID(snap) : id < nextID'
      BY <2>3, <2>4 DEF NumbersOK
    <3>5. pc = "marshal" => \A e \in todo : e.id < nextID'
      BY <2>3, <2>4 DEF NumbersOK
    <3>6. todo \subseteq [id : Ids, t : Tournament] /\ NoID \notin table.quarantined
      BY DEF NumbersOK
    <3> QED
      BY <1>i, <2>1, <3>1, <3>2, <3>3, <3>4, <3>5, <3>6 DEF NumbersOK, RecordedIds, byID
  <2> QED
    BY <1>k, <2>1, <2>2, <2>5
<1>2. ASSUME NEW p \in Players, nextID \in Ids, nextID' = nextID + 1, UNCHANGED flusherVars,
             ChangeThenMark([table EXCEPT !.live[nextID] = [owner |-> p, participants |-> {p}]])
      PROVE  Types' /\ FlushOK' /\ NumbersOK' /\ KeepsRecorded
  <2> PICK new : new = [owner |-> p, participants |-> {p}]
    OBVIOUS
  <2>1. /\ ChangeThenMark([table EXCEPT !.live[nextID] = new]) /\ nextID \in Ids
        /\ nextID' = nextID + 1 /\ UNCHANGED flusherVars
    BY <1>2
  <2>2. /\ UNCHANGED <<pc, snap, todo, disk, loaded, unread>> /\ loaded /\ marking' = marking + 1
        /\ table' = [table EXCEPT !.live[nextID] = new]
    BY <2>1 DEF ChangeThenMark, flusherVars, diskVars
  <2>3. new \in Tournament
    BY DEF Tournament
  <2>4. /\ table' \in TournamentTables /\ table'.quarantined = table.quarantined
        /\ \A i \in Ids : table'.live[i] = IF i = nextID THEN new ELSE table.live[i]
    <3>1. table' = WithEntry(table, nextID, new)
      BY <2>2 DEF WithEntry
    <3>2. new \in {Absent} \cup Tournament /\ nextID \in Ids /\ table \in TournamentTables
      BY <1>t, <2>1, <2>3
    <3>3. OneEntry(WithEntry(table, nextID, new), table, nextID, new)
      BY <3>2, EntrySet, Zenon
    <3> QED
      BY <3>1, <3>3 DEF OneEntry
  <2>5. byID(table') \subseteq byID(table) \cup {nextID}
    BY <2>4 DEF byID
  <2>6. Types'
    BY <1>o, <1>t, <2>2, <2>4 DEF Types, OfStore
  <2>7. FlushOK'
    BY <1>t, <2>1, ChangeKeeps
  <2>8. \A id \in Ids \cup {NoID} : id < nextID => id < nextID'
    BY <1>t, <2>1 DEF NoID
  <2>9. /\ \A id \in RecordedIds(table) : id \in Ids \cup {NoID} /\ id < nextID
        /\ ~unread => \A id \in RecordedIds(disk) : id \in Ids \cup {NoID} /\ id < nextID
    BY <1>b, <1>t, <2>2 DEF NumbersOK, RecordedIds
  <2>10. /\ \A id \in RecordedIds(table') : id < nextID'
         /\ ~unread' => \A id \in RecordedIds(disk') : id < nextID'
    <3>1. /\ RecordedIds(table') \subseteq RecordedIds(table) \cup {nextID}
          /\ RecordedIds(disk') = RecordedIds(disk)
      BY <2>2, <2>4, <2>5 DEF RecordedIds
    <3>2. nextID < nextID'
      BY <1>t, <2>1
    <3> QED
      BY <2>2, <2>8, <2>9, <3>1, <3>2
  <2>11. NumbersOK'
    <3>1. nextID' \in Nat /\ todo' \subseteq [id : Ids, t : Tournament]
      BY <1>t, <2>1, <2>2 DEF NumbersOK
    <3>2. /\ NoID \notin table'.quarantined
          /\ ~unread' => table'.quarantined = disk'.quarantined \ {NoID}
      BY <2>2, <2>4 DEF NumbersOK
    <3>3. pc' \in {"marshal", "write"} => /\ snap'.quarantined = table'.quarantined
                                          /\ \A id \in byID(snap') : id < nextID'
      BY <1>b, <1>t, <2>2, <2>4, <2>8 DEF NumbersOK
    <3>4. pc' = "marshal" => \A e \in todo' : e.id < nextID'
      BY <2>2, <2>8 DEF NumbersOK
    <3> QED
      BY <2>10, <3>1, <3>2, <3>3, <3>4 DEF NumbersOK, RecordedIds, byID
  <2>12. unread \/ nextID \notin byID(disk) \cup disk.quarantined
    BY <1>t, <2>2 DEF NumbersOK, RecordedIds
  <2>13. KeepsRecorded
    BY <1>r, <1>t, <2>2, <2>5, <2>12 DEF KeepsRecorded
  <2> QED
    BY <2>6, <2>7, <2>11, <2>13
<1>3. ASSUME NEW t, ChangeAndMark(t), UNCHANGED <<nextID, pc, snap>>,
             t \in TournamentTables, t.quarantined = table.quarantined, byID(t) \subseteq byID(table),
             todo' \subseteq [id : Ids, t : Tournament],
             \A f \in todo' : \E e \in todo : f.id = e.id
      PROVE  Types' /\ FlushOK' /\ NumbersOK' /\ KeepsRecorded
  <2>1. UNCHANGED <<disk, loaded, marking, unread>> /\ loaded /\ table' = t
    BY <1>3 DEF ChangeAndMark, diskVars
  <2>2. Types'
    BY <1>3, <1>o, <1>t, <2>1 DEF Types, OfStore
  <2>3. FlushOK'
    BY <1>3, <1>t, ChangeKeeps
  <2>4. NumbersOK'
    <3>1. nextID' \in Nat /\ todo' \subseteq [id : Ids, t : Tournament]
      BY <1>3, <1>t
    <3>2. /\ NoID \notin table'.quarantined
          /\ ~unread' => table'.quarantined = disk'.quarantined \ {NoID}
      BY <1>3, <2>1 DEF NumbersOK
    <3>3. /\ \A id \in RecordedIds(table') : id < nextID'
          /\ ~unread' => \A id \in RecordedIds(disk') : id < nextID'
      BY <1>3, <2>1 DEF NumbersOK, RecordedIds
    <3>4. pc' \in {"marshal", "write"} => /\ snap'.quarantined = table'.quarantined
                                          /\ \A id \in byID(snap') : id < nextID'
      BY <1>3, <2>1 DEF NumbersOK
    <3>5. pc' = "marshal" => \A e \in todo' : e.id < nextID'
      BY <1>3 DEF NumbersOK
    <3> QED
      BY <3>1, <3>2, <3>3, <3>4, <3>5 DEF NumbersOK, RecordedIds, byID
  <2> QED
    BY <1>3, <1>k, <2>1, <2>2, <2>3, <2>4
<1>4. ASSUME NEW id \in Ids, NEW p \in Players, joinTournament(id, p)
      PROVE  Types' /\ FlushOK' /\ NumbersOK' /\ KeepsRecorded
  <2> PICK r : r = [table.live[id] EXCEPT !.participants = @ \cup {p}]
    OBVIOUS
  <2> PICK t : t = [table EXCEPT !.live[id] = r]
    OBVIOUS
  <2>1. /\ id \in byID(table) /\ ChangeAndMark(t) /\ UNCHANGED <<nextID, pc, snap>>
        /\ todo' = {IF e.id = id THEN [e EXCEPT !.t.participants = @ \cup {p}] ELSE e : e \in todo}
    BY <1>4, <1>t DEF joinTournament, TournamentTables
  <2>2. table.live[id] \in Tournament /\ r \in Tournament
    BY <1>t, <2>1 DEF byID, TournamentTables, Tournament
  <2>3. /\ t \in TournamentTables /\ t.quarantined = table.quarantined
        /\ \A i \in Ids : t.live[i] = IF i = id THEN r ELSE table.live[i]
    <3>1. t = WithEntry(table, id, r)
      BY DEF WithEntry
    <3>2. r \in {Absent} \cup Tournament /\ table \in TournamentTables
      BY <1>t, <2>2
    <3>3. OneEntry(WithEntry(table, id, r), table, id, r)
      BY <3>2, EntrySet, Zenon
    <3> QED
      BY <3>1, <3>3 DEF OneEntry
  <2>4. byID(t) \subseteq byID(table)
    BY <2>1, <2>3 DEF byID
  <2>5. ASSUME NEW e \in todo
        PROVE  /\ [e EXCEPT !.t.participants = @ \cup {p}] \in [id : Ids, t : Tournament]
               /\ [e EXCEPT !.t.participants = @ \cup {p}].id = e.id
    <3>1. e \in [id : Ids, t : Tournament]
      BY DEF NumbersOK
    <3> QED
      BY <3>1 DEF Tournament
  <2>6. \A f \in todo' : f \in [id : Ids, t : Tournament] /\ \E e \in todo : f.id = e.id
    BY <2>1, <2>5 DEF NumbersOK
  <2> QED
    BY <1>3, <2>1, <2>3, <2>4, <2>6
<1>5. ASSUME NEW id \in Ids, NEW p \in Players, deleteTournament(id, p)
      PROVE  Types' /\ FlushOK' /\ NumbersOK' /\ KeepsRecorded
  <2> PICK t : t = [table EXCEPT !.live[id] = Absent]
    OBVIOUS
  <2>1. ChangeAndMark(t) /\ UNCHANGED <<nextID, pc, snap, todo>>
    BY <1>5 DEF deleteTournament, flusherVars
  <2>2. /\ t \in TournamentTables /\ t.quarantined = table.quarantined
        /\ \A i \in Ids : t.live[i] = IF i = id THEN Absent ELSE table.live[i]
    <3>1. t = WithEntry(table, id, Absent)
      BY DEF WithEntry
    <3>2. Absent \in {Absent} \cup Tournament /\ table \in TournamentTables
      BY <1>t
    <3>3. OneEntry(WithEntry(table, id, Absent), table, id, Absent)
      BY <3>2, EntrySet, Zenon
    <3> QED
      BY <3>1, <3>3 DEF OneEntry
  <2>3. byID(t) \subseteq byID(table)
    BY <2>2 DEF byID
  <2>4. todo' \subseteq [id : Ids, t : Tournament] /\ \A f \in todo' : \E e \in todo : f.id = e.id
    BY <2>1 DEF NumbersOK
  <2> QED
    BY <1>3, <2>1, <2>2, <2>3, <2>4
<1>6. CASE (MarkDirty \/ SwapFlag \/ WriteFails) /\ UNCHANGED nextID
  <2>1. Types' /\ FlushOK'
    BY <1>6, <1>e, <1>o, FlusherKeeps, TypesKept
  <2>2. /\ UNCHANGED <<loaded, table, disk, snap, todo, nextID, unread>>
        /\ pc' = pc \/ pc' \in {"collect", "idle"}
    BY <1>6 DEF MarkDirty, SwapFlag, WriteFails, flusherVars, diskVars
  <2>3. NumbersOK'
    BY <2>2 DEF NumbersOK, RecordedIds, byID
  <2> QED
    BY <1>k, <2>1, <2>2, <2>3
<1>7. CASE WriteFile /\ UNCHANGED nextID
  <2>1. Types' /\ FlushOK'
    BY <1>7, <1>e, <1>o, FlusherKeeps, TypesKept
  <2>2. /\ UNCHANGED <<loaded, table, snap, todo, nextID>> /\ pc = "write" /\ pc' = "idle"
        /\ disk' = snap /\ ~unread'
    BY <1>7 DEF WriteFile
  <2>3. loaded
    BY <2>2 DEF FlushOK
  <2>4. /\ snap.quarantined = table.quarantined /\ NoID \notin table.quarantined
        /\ ~unread => table.quarantined = disk.quarantined \ {NoID}
        /\ \A id \in byID(snap) : id < nextID
        /\ \A id \in RecordedIds(table) : id < nextID
    BY <2>2, <2>3 DEF NumbersOK
  <2>5. \A id \in RecordedIds(snap) : id < nextID
    BY <2>4 DEF RecordedIds
  <2>6. NumbersOK'
    BY <1>t, <2>2, <2>3, <2>4, <2>5 DEF NumbersOK, RecordedIds, byID
  <2>7. KeepsRecorded
    BY <1>r, <1>t, <2>2, <2>4 DEF KeepsRecorded
  <2> QED
    BY <2>1, <2>6, <2>7
<1>8. CASE CollectTournaments
  <2>1. /\ UNCHANGED <<loaded, table, marking, dirty, disk, failed, unread, nextID>>
        /\ pc = "collect" /\ pc' = "marshal"
        /\ todo' = {[id |-> id, t |-> table.live[id]] : id \in byID(table)}
        /\ snap' = [NoTournaments EXCEPT !.quarantined = table.quarantined]
    BY <1>8 DEF CollectTournaments, diskVars
  <2>2. loaded
    BY <2>1 DEF FlushOK
  <2>3. /\ snap' \in TournamentTables /\ snap'.quarantined = table.quarantined
        /\ \A i \in Ids : snap'.live[i] = Absent
    BY <1>e, <1>t, <2>1 DEF TournamentTables
  <2>4. \A e \in todo' : /\ e \in [id : Ids, t : Tournament] /\ e.id \in byID(table)
                         /\ e.id \in Ids /\ e.t = table.live[e.id]
    BY <1>t, <2>1 DEF byID, TournamentTables
  <2>5. \A i \in Ids : snap'.live[i] = table.live[i] \/ \E e \in todo' : e.id = i
    <3> SUFFICES ASSUME NEW i \in Ids, table.live[i] # Absent
                 PROVE  \E e \in todo' : e.id = i
      BY <2>3
    <3>1. [id |-> i, t |-> table.live[i]] \in todo'
      BY <2>1 DEF byID
    <3> QED
      BY <3>1
  <2>6. Types'
    BY <1>o, <1>t, <2>1, <2>3 DEF Types, OfStore
  <2>7. Collected'
    BY <2>1, <2>3, <2>4, <2>5 DEF Collected
  <2>8. FlushOK'
    BY <2>1, <2>2, <2>7 DEF FlushOK
  <2>9. NumbersOK'
    <3>1. byID(snap') = {}
      BY <2>3 DEF byID
    <3>2. \A e \in todo' : e.id < nextID
      BY <2>2, <2>4 DEF NumbersOK, RecordedIds
    <3>3. todo' \subseteq [id : Ids, t : Tournament] /\ nextID' \in Nat
      BY <1>t, <2>1, <2>4
    <3>4. /\ NoID \notin table'.quarantined /\ snap'.quarantined = table'.quarantined
          /\ \A id \in RecordedIds(table') : id < nextID'
          /\ ~unread' => /\ table'.quarantined = disk'.quarantined \ {NoID}
                         /\ \A id \in RecordedIds(disk') : id < nextID'
      BY <2>1, <2>2, <2>3 DEF NumbersOK
    <3> QED
      BY <2>1, <3>1, <3>2, <3>3, <3>4 DEF NumbersOK, RecordedIds, byID
  <2> QED
    BY <1>k, <2>1, <2>6, <2>8, <2>9
<1>9. ASSUME NEW e \in todo, MarshalTournament(e)
      PROVE  Types' /\ FlushOK' /\ NumbersOK' /\ KeepsRecorded
  <2>1. /\ UNCHANGED <<loaded, table, marking, dirty, disk, failed, unread, nextID, pc>>
        /\ pc = "marshal" /\ todo' = todo \ {e} /\ snap' = [snap EXCEPT !.live[e.id] = e.t]
    BY <1>9 DEF MarshalTournament, diskVars
  <2>2. e.id \in Ids /\ e.t \in Tournament /\ e.id < nextID
    BY <2>1 DEF NumbersOK
  <2>3. /\ snap' \in TournamentTables /\ snap'.quarantined = snap.quarantined
        /\ \A i \in Ids : snap'.live[i] = IF i = e.id THEN e.t ELSE snap.live[i]
    <3>1. snap' = WithEntry(snap, e.id, e.t)
      BY <2>1 DEF WithEntry
    <3>2. e.t \in {Absent} \cup Tournament /\ e.id \in Ids /\ snap \in TournamentTables
      BY <1>t, <2>2
    <3>3. OneEntry(WithEntry(snap, e.id, e.t), snap, e.id, e.t)
      BY <3>2, EntrySet, Zenon
    <3> QED
      BY <3>1, <3>3 DEF OneEntry
  <2>4. Types'
    BY <1>o, <1>t, <2>1, <2>3 DEF Types, OfStore
  <2>5. loaded
    BY <2>1 DEF FlushOK
  <2>6. Clean => Collected'
    <3> HAVE Clean
    <3>1. /\ snap.quarantined = table.quarantined
          /\ \A f \in todo : f.id \in Ids /\ f.t = table.live[f.id]
          /\ \A id \in Ids : snap.live[id] = table.live[id] \/ \E f \in todo : f.id = id
      BY <2>1 DEF FlushOK, Collected
    <3>2. \A id \in Ids : snap'.live[id] = table.live[id] \/ \E f \in todo' : f.id = id
      BY <2>1, <2>3, <3>1
    <3> QED
      BY <2>1, <2>3, <3>1, <3>2 DEF Collected
  <2>7. FlushOK'
    BY <2>1, <2>5, <2>6 DEF FlushOK, Clean
  <2>8. NumbersOK'
    <3>1. \A id \in byID(snap') : id < nextID
      BY <2>1, <2>2, <2>3 DEF NumbersOK, byID
    <3>2. /\ todo' \subseteq [id : Ids, t : Tournament] /\ \A f \in todo' : f.id < nextID
          /\ nextID' \in Nat /\ snap'.quarantined = table'.quarantined
      BY <2>1, <2>3 DEF NumbersOK
    <3>3. /\ NoID \notin table'.quarantined
          /\ \A id \in RecordedIds(table') : id < nextID'
          /\ ~unread' => /\ table'.quarantined = disk'.quarantined \ {NoID}
                         /\ \A id \in RecordedIds(disk') : id < nextID'
      BY <2>1, <2>5 DEF NumbersOK
    <3> QED
      BY <2>1, <3>1, <3>2, <3>3 DEF NumbersOK, RecordedIds, byID
  <2> QED
    BY <1>k, <2>1, <2>4, <2>7, <2>8
<1>10. CASE TournamentsMarshalled
  <2>1. /\ UNCHANGED <<loaded, table, marking, dirty, disk, failed, unread, nextID, snap, todo>>
        /\ pc = "marshal" /\ todo = {} /\ pc' = "write"
    BY <1>10 DEF TournamentsMarshalled, diskVars
  <2>2. Clean => Readable(snap) = table
    <3>1. Clean => snap = table
      BY <1>t, <2>1, SameTable DEF FlushOK, Collected
    <3> QED
      BY <1>s, <1>t, <3>1 DEF NumbersOK
  <2>3. FlushOK'
    BY <2>1, <2>2 DEF FlushOK, Clean, Covers
  <2>4. Types' /\ NumbersOK'
    BY <2>1 DEF Types, OfStore, NumbersOK, RecordedIds, byID
  <2> QED
    BY <1>k, <2>1, <2>3, <2>4
<1>11. CASE TournamentsCrash
  <2>1. Crash(NoTournaments) /\ nextID' = FirstID
    BY <1>11 DEF TournamentsCrash
  <2>2. Types' /\ FlushOK'
    BY <1>e, <1>o, <2>1, FlusherKeeps, TypesKept
  <2>3. disk' = disk /\ table' = NoTournaments /\ ~loaded' /\ pc' = "idle" /\ todo' = {}
    BY <2>1 DEF Crash
  <2>4. NumbersOK'
    BY <1>e, <2>1, <2>3 DEF NumbersOK, FirstID
  <2> QED
    BY <1>e, <1>k, <2>2, <2>3, <2>4
<1>12. ASSUME NEW p \in Players, CreateTournament(p)
       PROVE  Types' /\ FlushOK' /\ NumbersOK' /\ KeepsRecorded
  BY <1>12, <1>2, <1>i DEF CreateTournament
<1> QED
  BY <1>0, <1>1, <1>12, <1>4, <1>5, <1>6, <1>7, <1>8, <1>9, <1>10, <1>11 
     DEF TournamentsNext, TournamentsFlusher, tournamentInit

-----------------------------------------------------------------------------
(* The profiles *)

(* A set that lacks a member of a finite one is smaller. *)
LEMMA Room ==
  ASSUME NEW S, IsFiniteSet(S), NEW max \in Nat, Cardinality(S) <= max,
         NEW T \in SUBSET S, NEW x \in S, x \notin T
  PROVE  Cardinality(T) < max
<1>1. IsFiniteSet(S \ {x}) /\ Cardinality(S \ {x}) = Cardinality(S) - 1
  BY FS_RemoveElement
<1>2. T \subseteq S \ {x}
  OBVIOUS
<1>3. IsFiniteSet(T) /\ Cardinality(T) <= Cardinality(S \ {x})
  BY <1>1, <1>2, FS_Subset, Zenon
<1>4. Cardinality(S) \in Nat /\ Cardinality(T) \in Nat
  BY <1>3, FS_CardinalityType
<1> QED
  BY <1>1, <1>3, <1>4

\* What is still to be visited is not in the copy.
ProfilesOK == pc = "range" => todo \subseteq Owners /\ \A p \in todo : snap[p] = Absent

(* Every step of the profiles keeps the invariant. *)
LEMMA CommonDataStep ==
  ASSUME store = "profiles", store' = store, Types, FlushOK, ProfilesOK, CommonDataNext
  PROVE  Types' /\ FlushOK' /\ ProfilesOK'
<1>t. /\ table \in ProfileTables /\ snap \in ProfileTables /\ disk \in ProfileTables
      /\ marking \in Nat
  BY DEF Types, OfStore
<1>e. NoProfiles \in ProfileTables /\ \A p \in Owners : NoProfiles[p] = Absent
  BY DEF NoProfiles, ProfileTables
<1>o. \A x \in ProfileTables : OfStore(x)
  BY DEF OfStore
<1>1. CASE Load(disk)
  <2>1. /\ Load(disk) /\ table' = disk /\ disk' = disk
        /\ UNCHANGED <<snap, todo, pc>>
    BY <1>1 DEF Load, flusherVars, diskVars
  <2>2. Covers(disk, disk)
    BY DEF Covers
  <2>3. ProfilesOK'
    BY <2>1 DEF ProfilesOK
  <2> QED
    BY <1>o, <1>t, <2>1, <2>2, <2>3, LoadKeeps, TypesKept
<1>2. ASSUME NEW p \in Owners, NEW b \in Blobs, PutCommonData(p, b)
      PROVE  Types' /\ FlushOK' /\ ProfilesOK'
  <2>1. /\ ChangeThenMark([table EXCEPT ![p] = b]) /\ marking' = marking + 1
        /\ table' = [table EXCEPT ![p] = b] /\ UNCHANGED <<snap, todo, pc, disk>>
    BY <1>2 DEF PutCommonData, ChangeThenMark, flusherVars, diskVars
  <2>2. table' \in ProfileTables
    BY <1>t, <2>1 DEF ProfileTables
  <2>3. Types'
    <3>1. marking' \in Nat
      <4>1. marking \in Nat /\ marking' = marking + 1
        BY <1>t, <2>1
      <4> QED
        BY <4>1
    <3>2. snap' \in ProfileTables /\ disk' \in ProfileTables
      BY <1>t, <2>1
    <3> QED
      BY <2>2, <3>1, <3>2 DEF Types, OfStore
  <2>4. FlushOK'
    BY <1>t, <2>1, ChangeKeeps
  <2>5. ProfilesOK'
    BY <2>1 DEF ProfilesOK
  <2> QED
    BY <2>3, <2>4, <2>5
<1>3. ASSUME NEW p \in Owners, ForgetCommonData(p)
      PROVE  Types' /\ FlushOK' /\ ProfilesOK'
  <2>1. /\ table' = [table EXCEPT ![p] = Absent]
        /\ UNCHANGED <<loaded, marking, dirty, snap, todo, pc, disk, failed, unread>>
    BY <1>3 DEF ForgetCommonData, flusherVars, diskVars
  <2>2. table' \in ProfileTables /\ \A q \in Stored(table') : q \in Stored(table) /\ table'[q] = table[q]
    BY <1>t, <2>1 DEF ProfileTables, Stored
  <2>3. Types'
    BY <1>o, <1>t, <2>1, <2>2 DEF Types, OfStore
  <2>5. Covers(snap, table) => Covers(snap, table)'
    BY <2>1, <2>2 DEF Covers
  <2>6. Covers(disk, table) => Covers(disk, table)'
    BY <2>1, <2>2 DEF Covers
  <2>7. Collected => Collected'
    BY <2>1, <2>2 DEF Collected
  <2>8. FlushOK'
    BY <2>1, <2>5, <2>6, <2>7 DEF FlushOK, Clean
  <2>9. ProfilesOK'
    BY <1>t, <2>1 DEF ProfilesOK, ProfileTables
  <2> QED
    BY <2>3, <2>8, <2>9
<1>4. CASE MarkDirty \/ SwapFlag \/ WriteFile \/ WriteFails \/ Crash(NoProfiles) \/ LoadFails(NoProfiles)
  <2>1. Types' /\ FlushOK'
    BY <1>4, <1>e, <1>o, FlusherKeeps, TypesKept
  <2>2. /\ table' \in {table, NoProfiles} /\ snap' \in {snap, NoProfiles} /\ disk' \in {disk, snap}
        /\ pc' # "range" \/ UNCHANGED <<pc, todo, snap>>
    BY <1>4 DEF MarkDirty, SwapFlag, WriteFile, WriteFails, Crash, LoadFails, flusherVars, diskVars
  <2>3. ProfilesOK'
    BY <2>2 DEF ProfilesOK
  <2> QED
    BY <2>1, <2>3
<1>5. CASE CollectProfiles
  <2>1. /\ UNCHANGED <<loaded, table, marking, dirty, disk, failed, unread>>
        /\ pc = "collect" /\ pc' = "range" /\ snap' = NoProfiles /\ todo' = Owners
    BY <1>5 DEF CollectProfiles, diskVars
  <2>2. Types'
    BY <1>e, <1>o, <1>t, <2>1 DEF Types, OfStore
  <2>3. Collected'
    BY <2>1 DEF Collected, Stored
  <2>4. FlushOK'
    BY <2>1, <2>3 DEF FlushOK
  <2>5. ProfilesOK'
    BY <1>e, <2>1 DEF ProfilesOK
  <2> QED
    BY <2>2, <2>4, <2>5
<1>6. ASSUME NEW p \in Owners, VisitProfile(p)
      PROVE  Types' /\ FlushOK' /\ ProfilesOK'
  <2>1. /\ UNCHANGED <<loaded, table, marking, dirty, disk, failed, unread, pc>>
        /\ pc = "range" /\ p \in todo /\ todo' = todo \ {p}
        /\ snap' = IF Cardinality(Stored(snap)) < commonDataMaxStored
                   THEN [snap EXCEPT ![p] = table[p]] ELSE snap
    BY <1>6 DEF VisitProfile, diskVars
  <2>2. /\ snap' \in ProfileTables /\ \A q \in Owners : q # p => snap'[q] = snap[q]
        /\ snap'[p] \in {snap[p], table[p]}
    BY <1>t, <2>1 DEF ProfileTables
  <2>3. Types'
    BY <1>o, <1>t, <2>1, <2>2 DEF Types, OfStore
  <2>4. snap[p] = Absent
    BY <2>1 DEF ProfilesOK
  <2>5. Cardinality(Owners) <= commonDataMaxStored => snap'[p] = table[p]
    <3> HAVE Cardinality(Owners) <= commonDataMaxStored
    <3>1. Stored(snap) \in SUBSET Owners /\ p \notin Stored(snap)
      BY <2>4 DEF Stored
    <3>2. Cardinality(Stored(snap)) < commonDataMaxStored
      BY <3>1, Room, CommonDataAssumption
    <3> QED
      BY <1>t, <2>1, <3>2 DEF ProfileTables
  <2>6. Collected => Collected'
    BY <2>1, <2>2, <2>5 DEF Collected, Stored
  <2>7. FlushOK'
    BY <2>1, <2>6 DEF FlushOK, Clean
  <2>8. ProfilesOK'
    <3>1. \A q \in todo' : q \in Owners /\ snap'[q] = Absent
      BY <2>1, <2>2 DEF ProfilesOK
    <3> QED
      BY <2>1, <3>1 DEF ProfilesOK
  <2> QED
    BY <2>3, <2>7, <2>8
<1>7. CASE ProfilesVisited
  <2>1. /\ UNCHANGED <<loaded, table, marking, dirty, disk, failed, unread, snap, todo>>
        /\ pc = "range" /\ todo = {} /\ pc' = "write"
    BY <1>7 DEF ProfilesVisited, diskVars
  <2>2. Collected => Covers(snap, table)'
    BY <2>1 DEF Collected, Covers
  <2>3. FlushOK'
    BY <2>1, <2>2 DEF FlushOK, Clean
  <2>4. Types' /\ ProfilesOK'
    BY <2>1 DEF Types, OfStore, ProfilesOK
  <2> QED
    BY <2>3, <2>4
<1> QED
  BY <1>1, <1>2, <1>3, <1>4, <1>5, <1>6, <1>7 DEF CommonDataNext, CommonDataFlusher, commonDataInit

-----------------------------------------------------------------------------
(* The accounts to recall *)

\* The account of each record of `x' has logged in from the address since the record was made.
Minted(x) == \A h \in Hosts : x[h] # Absent => x[h].at <= logins[h][x[h].pid] /\ logins[h][x[h].pid] <= clock

\* No record of `a' is newer than that of `b' for the same address.
NotNewer(a, b) == \A h \in Recalled(a) \cap Recalled(b) : a[h].at <= b[h].at

\* The file is not newer than the copy, nor the copy than the table.
Ordered ==
  /\ loaded => NotNewer(disk, table)
  /\ pc \in {"range", "write"} => NotNewer(disk, snap) /\ NotNewer(snap, table)

\* What is still to be visited is not in the copy, the flusher holds one expired record at
\* a time, and every record is of a login.
RecallsOK ==
  /\ clock \in 0 .. MaxClock /\ logins \in [Hosts -> [Accounts -> Nat]] /\ ~foreign
  /\ \A g, h \in expiring : g = h
  /\ pc = "range" => todo \subseteq Hosts /\ \A h \in todo : snap[h] = Absent
  /\ Minted(table) /\ Minted(snap) /\ Minted(disk)
  /\ Ordered

(* Every step of the accounts keeps the invariant. *)
LEMMA AuthRecallStep ==
  ASSUME store = "recalls", store' = store, Types, FlushOK, RecallsOK, AuthRecallNext
  PROVE  Types' /\ FlushOK' /\ RecallsOK'
<1>t. /\ table \in RecallTables /\ snap \in RecallTables /\ disk \in RecallTables
      /\ marking \in Nat
  BY DEF Types, OfStore
<1>e. NoRecalls \in RecallTables /\ \A h \in Hosts : NoRecalls[h] = Absent
  BY DEF NoRecalls, RecallTables
<1>o. \A x \in RecallTables : OfStore(x)
  BY DEF OfStore
<1>m. Minted(NoRecalls)
  BY <1>e DEF Minted
<1>c. clock \in Nat /\ clock <= MaxClock /\ MaxClock \in Nat /\ authRecallTTL \in Nat
  <2>1. clock \in 0 .. MaxClock
    BY DEF RecallsOK
  <2>2. MaxClock \in Nat /\ authRecallTTL \in 0 .. MaxClock
    BY AuthRecallAssumption
  <2> QED
    BY <2>1, <2>2
<1>l. logins \in [Hosts -> [Accounts -> Nat]]
  BY DEF RecallsOK
<1>d. ~foreign /\ Minted(table) /\ Minted(snap) /\ Minted(disk) /\ Ordered
  BY DEF RecallsOK
<1>n. \A x \in RecallTables : NotNewer(x, x) /\ NotNewer(NoRecalls, x) /\ NotNewer(x, NoRecalls)
  BY <1>e DEF NotNewer, Recalled, RecallTables
<1>p. ~loaded => pc = "idle"
  BY DEF FlushOK
<1>0. CASE LoadFails(NoRecalls) /\ UNCHANGED authVars
  <2>1. Types' /\ FlushOK'
    BY <1>0, <1>e, <1>o, FlusherKeeps, TypesKept
  <2>2. /\ table' = NoRecalls /\ UNCHANGED <<disk, snap, todo, pc>> /\ ~loaded
        /\ UNCHANGED <<clock, expiring, logins, foreign>>
    BY <1>0 DEF LoadFails, flusherVars, authVars
  <2>3. Ordered'
    BY <1>n, <1>p, <1>t, <2>2 DEF Ordered
  <2>4. RecallsOK'
    BY <1>m, <2>2, <2>3 DEF RecallsOK, Minted
  <2> QED
    BY <2>1, <2>4
<1>1. ASSUME NEW t, t = [h \in Hosts |-> IF disk[h] # Absent /\ ~Expired(disk[h])
                                       THEN disk[h] ELSE Absent],
             Load(t), UNCHANGED authVars
      PROVE  Types' /\ FlushOK' /\ RecallsOK'
  <2>1. /\ Load(t) /\ table' = t /\ disk' = disk /\ UNCHANGED <<snap, todo, pc>> /\ ~loaded
        /\ UNCHANGED <<clock, expiring, logins, foreign>>
    BY <1>1 DEF Load, flusherVars, diskVars, authVars
  <2>2. \A h \in Hosts : t[h] = Absent \/ t[h] = disk[h]
    BY <1>1
  <2>3. t \in RecallTables
    BY <1>1, <1>t DEF RecallTables
  <2>4. Covers(disk, t)
    BY <2>2 DEF Covers, Recalled
  <2>5. Minted(t)
    BY <1>d, <2>2 DEF Minted
  <2>6. Ordered'
    <3>1. NotNewer(disk, t)
      BY <1>n, <1>t, <2>2 DEF NotNewer, Recalled
    <3> QED
      BY <1>p, <2>1, <3>1 DEF Ordered
  <2>7. RecallsOK'
    BY <2>1, <2>5, <2>6 DEF RecallsOK, Minted
  <2> QED
    BY <1>o, <2>1, <2>3, <2>4, <2>7, LoadKeeps, TypesKept
<1>2. ASSUME NEW h \in Hosts, NEW pid \in Accounts, handleLogin(h, pid)
      PROVE  Types' /\ FlushOK' /\ RecallsOK'
  <2> PICK new : new = [pid |-> pid, at |-> clock]
    OBVIOUS
  <2>1. /\ ChangeThenMark([table EXCEPT ![h] = new]) /\ marking' = marking + 1
        /\ table' = [table EXCEPT ![h] = new] /\ UNCHANGED <<snap, todo, pc, disk>>
        /\ logins' = [logins EXCEPT ![h][pid] = clock]
        /\ UNCHANGED <<clock, expiring, foreign>>
    BY <1>2 DEF handleLogin, RememberAuthPID, ChangeThenMark, flusherVars, diskVars
  <2>2. new \in [pid : Accounts, at : Nat] /\ new.pid = pid /\ new.at = clock
    BY <1>c
  <2>3. table' \in RecallTables /\ table'[h] = new /\ \A g \in Hosts : g # h => table'[g] = table[g]
    BY <1>t, <2>1, <2>2 DEF RecallTables
  <2>4. Types'
    <3>1. marking' \in Nat
      <4>1. marking \in Nat /\ marking' = marking + 1
        BY <1>t, <2>1
      <4> QED
        BY <4>1
    <3>2. snap' \in RecallTables /\ disk' \in RecallTables
      BY <1>t, <2>1
    <3> QED
      BY <2>3, <3>1, <3>2 DEF Types, OfStore
  <2>5. FlushOK'
    BY <1>t, <2>1, ChangeKeeps
  <2>6. /\ logins' \in [Hosts -> [Accounts -> Nat]]
        /\ \A g \in Hosts, q \in Accounts :
             logins'[g][q] = IF g = h /\ q = pid THEN clock ELSE logins[g][q]
    BY <1>c, <1>l, <2>1
  <2>7. ASSUME NEW x \in RecallTables, Minted(x), NEW g \in Hosts, x[g] # Absent
        PROVE  x[g].at <= logins'[g][x[g].pid] /\ logins'[g][x[g].pid] <= clock
    <3>1. x[g].pid \in Accounts /\ x[g].at \in Nat /\ logins[g][x[g].pid] \in Nat
      BY <1>l, <2>7 DEF RecallTables
    <3>2. x[g].at <= logins[g][x[g].pid] /\ logins[g][x[g].pid] <= clock
      BY <2>7 DEF Minted
    <3>3. x[g].at <= clock /\ clock <= clock
      BY <1>c, <3>1, <3>2
    <3> QED
      BY <2>6, <3>1, <3>2, <3>3
  <2>8. Minted(snap)' /\ Minted(disk)'
    BY <1>d, <1>t, <2>1, <2>7 DEF Minted
  <2>9. Minted(table)'
    <3>1. new.at <= logins'[h][new.pid] /\ logins'[h][new.pid] <= clock
      <4>1. new.at = clock /\ logins'[h][new.pid] = clock /\ clock <= clock
        BY <1>c, <2>2, <2>6
      <4> QED
        BY <4>1
    <3>2. \A g \in Hosts : g # h => (table[g] # Absent =>
            table[g].at <= logins'[g][table[g].pid] /\ logins'[g][table[g].pid] <= clock)
      BY <1>d, <1>t, <2>7
    <3> QED
      BY <2>1, <2>3, <3>1, <3>2 DEF Minted
  <2>10. Ordered'
    <3>1. ASSUME NEW x \in RecallTables, Minted(x), NotNewer(x, table)
          PROVE  NotNewer(x, table')
      <4>1. x[h] # Absent => x[h].at <= new.at
        <5> HAVE x[h] # Absent
        <5>1. x[h].pid \in Accounts /\ x[h].at \in Nat /\ logins[h][x[h].pid] \in Nat
          BY <1>l DEF RecallTables
        <5>2. x[h].at <= logins[h][x[h].pid] /\ logins[h][x[h].pid] <= clock
          BY <3>1 DEF Minted
        <5> QED
          BY <1>c, <2>2, <5>1, <5>2
      <4> QED
        BY <2>3, <3>1, <4>1 DEF NotNewer, Recalled
    <3>2. loaded' = loaded
      BY <2>1 DEF ChangeThenMark
    <3> QED
      BY <1>d, <1>t, <2>1, <3>1, <3>2 DEF Ordered
  <2>11. RecallsOK'
    BY <2>1, <2>6, <2>8, <2>9, <2>10 DEF RecallsOK
  <2> QED
    BY <2>4, <2>5, <2>11
<1>3. ASSUME NEW h \in Hosts, RecallAuthPID(h)
      PROVE  Types' /\ FlushOK' /\ RecallsOK'
  <2>1. /\ UNCHANGED <<loaded, table, marking, dirty, snap, todo, pc, disk, failed, unread>>
        /\ UNCHANGED <<clock, expiring, logins>> /\ table[h] # Absent
        /\ \/ ~Expired(table[h]) /\ foreign' = ~MintedHere(h, table[h].pid)
           \/ foreign' = foreign
    BY <1>3 DEF RecallAuthPID, flusherVars, diskVars
  <2>2. ~Expired(table[h]) => MintedHere(h, table[h].pid)
    <3> HAVE ~Expired(table[h])
    <3>1. table[h].pid \in Accounts /\ table[h].at \in Nat
      BY <1>t, <2>1 DEF RecallTables
    <3>2. table[h].at <= logins[h][table[h].pid] /\ logins[h][table[h].pid] <= clock
      BY <1>d, <2>1 DEF Minted
    <3>3. ~(clock - table[h].at > authRecallTTL)
      BY DEF Expired
    <3>4. logins[h][table[h].pid] \in Nat
      BY <1>l, <3>1
    <3>5. /\ logins[h][table[h].pid] # MaxClock + 1
          /\ clock - logins[h][table[h].pid] <= authRecallTTL
      BY <1>c, <3>1, <3>2, <3>3, <3>4
    <3> QED
      BY <3>5 DEF MintedHere, Never
  <2>3. ~foreign'
    BY <1>d, <2>1, <2>2
  <2>4. Types' /\ FlushOK'
    BY <2>1 DEF Types, OfStore, FlushOK, Clean, Covers, Collected
  <2>5. RecallsOK'
    BY <2>1, <2>3 DEF RecallsOK, Minted, Ordered, NotNewer, Recalled
  <2> QED
    BY <2>4, <2>5
<1>4. ASSUME NEW h \in Hosts, table' = [table EXCEPT ![h] = Absent],
             UNCHANGED <<loaded, marking, dirty, snap, todo, pc, disk, failed, unread>>,
             UNCHANGED <<clock, logins, foreign>>, expiring' \subseteq expiring,
             \A g \in expiring : g \in expiring' \/ g = h
      PROVE  Types' /\ FlushOK' /\ RecallsOK'
  <2>1. table' \in RecallTables /\ \A g \in Hosts : table'[g] = IF g = h THEN Absent ELSE table[g]
    BY <1>4, <1>t DEF RecallTables
  <2>2. \A g \in Recalled(table') : g \in Recalled(table) /\ g # h /\ table'[g] = table[g]
    BY <2>1 DEF Recalled
  <2>3. Types'
    BY <1>4, <1>o, <1>t, <2>1 DEF Types, OfStore
  <2>4. Covers(snap, table) => Covers(snap, table)'
    BY <1>4, <2>2 DEF Covers
  <2>5. Covers(disk, table) => Covers(disk, table)'
    BY <1>4, <2>2 DEF Covers
  <2>6. Collected => Collected'
    BY <1>4, <2>2 DEF Collected
  <2>7. FlushOK'
    BY <1>4, <2>4, <2>5, <2>6 DEF FlushOK, Clean
  <2>8. Minted(table)'
    BY <1>4, <1>d, <2>1 DEF Minted
  <2>9. Ordered'
    <3>1. \A x : NotNewer(x, table) => NotNewer(x, table')
      BY <2>2 DEF NotNewer
    <3> QED
      BY <1>4, <1>d, <3>1 DEF Ordered
  <2>10. RecallsOK'
    BY <1>4, <2>8, <2>9 DEF RecallsOK, Minted
  <2> QED
    BY <2>3, <2>7, <2>10
<1>5. ASSUME NEW h \in Hosts, RecallForgets(h) \/ RangeForgets(h)
      PROVE  Types' /\ FlushOK' /\ RecallsOK'
  <2>1. /\ table' = [table EXCEPT ![h] = Absent]
        /\ UNCHANGED <<loaded, marking, dirty, snap, todo, pc, disk, failed, unread>>
        /\ UNCHANGED <<clock, logins, foreign>>
    BY <1>5 DEF RecallForgets, RangeForgets, flusherVars, diskVars
  <2>2. expiring' \subseteq expiring /\ \A g \in expiring : g \in expiring' \/ g = h
    BY <1>5 DEF RecallForgets, RangeForgets, RecallsOK
  <2> QED
    BY <1>4, <2>1, <2>2
<1>6. CASE (MarkDirty \/ SwapFlag \/ WriteFile \/ WriteFails) /\ UNCHANGED authVars
  <2>1. Types' /\ FlushOK'
    BY <1>6, <1>e, <1>o, FlusherKeeps, TypesKept
  <2>2. /\ UNCHANGED <<table, snap, todo, loaded>>
        /\ disk' = disk \/ (pc = "write" /\ disk' = snap /\ pc' = "idle")
        /\ pc' \notin {"range", "write"} \/ pc' = pc
        /\ UNCHANGED <<clock, expiring, logins, foreign>>
    BY <1>6 DEF MarkDirty, SwapFlag, WriteFile, WriteFails, flusherVars, diskVars, authVars
  <2>3. Ordered'
    BY <1>d, <2>2 DEF Ordered
  <2>4. RecallsOK'
    BY <2>2, <2>3 DEF RecallsOK, Minted
  <2> QED
    BY <2>1, <2>4
<1>7. CASE AuthRecallCrash
  <2>1. Crash(NoRecalls) /\ expiring' = {} /\ UNCHANGED <<clock, logins, foreign>>
    BY <1>7 DEF AuthRecallCrash
  <2>2. Types' /\ FlushOK'
    BY <1>e, <1>o, <2>1, FlusherKeeps, TypesKept
  <2>3. table' = NoRecalls /\ snap' = NoRecalls /\ disk' = disk /\ pc' = "idle" /\ ~loaded'
    BY <2>1 DEF Crash
  <2>4. RecallsOK'
    BY <1>m, <2>1, <2>3 DEF RecallsOK, Minted, Ordered
  <2> QED
    BY <2>2, <2>4
<1>8. CASE CollectRecalls
  <2>1. /\ UNCHANGED <<loaded, table, marking, dirty, disk, failed, unread, clock, expiring, logins, foreign>>
        /\ pc = "collect" /\ pc' = "range" /\ snap' = NoRecalls /\ todo' = Hosts
    BY <1>8 DEF CollectRecalls, diskVars, authVars
  <2>2. Types'
    BY <1>e, <1>o, <1>t, <2>1 DEF Types, OfStore
  <2>3. Collected'
    BY <2>1 DEF Collected, Recalled
  <2>4. FlushOK'
    BY <2>1, <2>3 DEF FlushOK
  <2>5. Ordered'
    BY <1>d, <1>n, <1>t, <2>1 DEF Ordered
  <2>6. RecallsOK'
    BY <1>e, <1>m, <2>1, <2>5 DEF RecallsOK, Minted
  <2> QED
    BY <2>2, <2>4, <2>6
<1>9. ASSUME NEW h \in Hosts, RangeVisits(h)
      PROVE  Types' /\ FlushOK' /\ RecallsOK'
  <2>1. /\ UNCHANGED <<loaded, table, marking, dirty, disk, failed, unread, pc, clock, logins, foreign>>
        /\ pc = "range" /\ h \in todo /\ todo' = todo \ {h} /\ expiring = {}
        /\ \/ expiring' = {h} /\ snap' = snap
           \/ /\ expiring' = {}
              /\ snap' = IF Cardinality(Recalled(snap)) < authRecallMax
                         THEN [snap EXCEPT ![h] = table[h]] ELSE snap
    BY <1>9 DEF RangeVisits, diskVars
  <2>2. /\ snap' \in RecallTables /\ \A g \in Hosts : g # h => snap'[g] = snap[g]
        /\ snap'[h] \in {snap[h], table[h]}
    BY <1>t, <2>1 DEF RecallTables
  <2>3. Types'
    BY <1>o, <1>t, <2>1, <2>2 DEF Types, OfStore
  <2>4. snap[h] = Absent
    BY <2>1 DEF RecallsOK
  <2>5. Cardinality(Hosts) <= authRecallMax => h \in expiring' \/ snap'[h] = table[h]
    <3> HAVE Cardinality(Hosts) <= authRecallMax
    <3>1. Recalled(snap) \in SUBSET Hosts /\ h \notin Recalled(snap)
      BY <2>4 DEF Recalled
    <3>2. Cardinality(Recalled(snap)) < authRecallMax
      BY <3>1, Room, AuthRecallAssumption
    <3> QED
      BY <1>t, <2>1, <3>2 DEF RecallTables
  <2>6. Collected => Collected'
    BY <2>1, <2>2, <2>5 DEF Collected, Recalled
  <2>7. FlushOK'
    BY <2>1, <2>6 DEF FlushOK, Clean
  <2>8. RecallsOK'
    <3>1. Minted(snap)'
      BY <1>d, <2>1, <2>2 DEF Minted
    <3>2. \A g \in todo' : g \in Hosts /\ snap'[g] = Absent
      BY <2>1, <2>2 DEF RecallsOK
    <3>3. NotNewer(disk, table) /\ NotNewer(disk, snap) /\ NotNewer(snap, table)
      BY <1>d, <1>p, <2>1 DEF Ordered
    <3>4. table[h] # Absent => table[h].at <= table[h].at
      BY <1>t DEF RecallTables
    <3>5. NotNewer(disk, snap') /\ NotNewer(snap', table)
      BY <2>2, <3>3, <3>4 DEF NotNewer, Recalled
    <3>6. Ordered'
      BY <2>1, <3>3, <3>5 DEF Ordered
    <3> QED
      BY <2>1, <3>1, <3>2, <3>6 DEF RecallsOK, Minted
  <2> QED
    BY <2>3, <2>7, <2>8
<1>10. CASE RangeEnds
  <2>1. /\ UNCHANGED <<loaded, table, marking, dirty, disk, failed, unread, snap, todo>>
        /\ UNCHANGED <<clock, expiring, logins, foreign>>
        /\ pc = "range" /\ todo = {} /\ expiring = {} /\ pc' = "write"
    BY <1>10 DEF RangeEnds, diskVars, authVars
  <2>2. Collected => Covers(snap, table)'
    BY <2>1 DEF Collected, Covers
  <2>3. FlushOK'
    BY <2>1, <2>2 DEF FlushOK, Clean
  <2>4. Types'
    BY <2>1 DEF Types, OfStore
  <2>5. RecallsOK'
    BY <2>1 DEF RecallsOK, Minted, Ordered
  <2> QED
    BY <2>3, <2>4, <2>5
<1>11. CASE Second
  <2>1. /\ UNCHANGED <<loaded, table, marking, dirty, disk, failed, unread, pc, snap, todo>>
        /\ UNCHANGED <<expiring, logins, foreign>> /\ clock < MaxClock /\ clock' = clock + 1
    BY <1>11 DEF Second, flusherVars, diskVars
  <2>2. Types' /\ FlushOK'
    BY <2>1 DEF Types, OfStore, FlushOK, Clean, Covers, Collected
  <2>c. clock < MaxClock /\ clock' = clock + 1
    BY <2>1
  <2>3. ASSUME NEW x \in RecallTables, Minted(x), NEW g \in Hosts, x[g] # Absent
        PROVE  x[g].at <= logins[g][x[g].pid] /\ logins[g][x[g].pid] <= clock'
    <3>1. x[g].at \in Nat /\ x[g].pid \in Accounts /\ logins[g][x[g].pid] \in Nat
      BY <1>l, <2>3 DEF RecallTables
    <3>2. x[g].at <= logins[g][x[g].pid] /\ logins[g][x[g].pid] <= clock
      BY <2>3 DEF Minted
    <3> QED
      BY <1>c, <2>c, <3>1, <3>2
  <2>4. Minted(table)' /\ Minted(snap)' /\ Minted(disk)'
    BY <1>d, <1>t, <2>1, <2>3 DEF Minted
  <2>5. clock' \in 0 .. MaxClock
    BY <1>c, <2>c
  <2>6. RecallsOK'
    BY <2>1, <2>4, <2>5 DEF RecallsOK, Ordered
  <2> QED
    BY <2>2, <2>6
<1> QED
  BY <1>0, <1>1, <1>2, <1>3, <1>5, <1>6, <1>7, <1>8, <1>9, <1>10, <1>11
     DEF AuthRecallNext, AuthRecallFlusher, authRecallInit

-----------------------------------------------------------------------------
(* The four tables together *)

WriteBehindInv ==
  /\ store \in {"tournaments", "boards", "profiles", "recalls"} /\ Types /\ FlushOK
  /\ store = "tournaments" => NumbersOK
  /\ store = "boards" => ScoresOK
  /\ store = "profiles" => ProfilesOK
  /\ store = "recalls" => RecallsOK

(* The process starts with an empty table and, for the tournaments, any quarantine. *)
LEMMA InitWriteBehind == Init => WriteBehindInv
<1>f. ASSUME NEW t, NEW d, WriteBehindInit(t, d)
      PROVE  /\ ~loaded /\ table = t /\ snap = t /\ disk = d /\ pc = "idle" /\ todo = {}
             /\ marking \in Nat /\ FlushOK
  BY <1>f DEF WriteBehindInit, FlushOK, Clean
<1>1. CASE store = "tournaments" /\ TournamentsInit
  <2> PICK q \in SUBSET Quarantinable :
           WriteBehindInit(NoTournaments, [NoTournaments EXCEPT !.quarantined = q])
    BY <1>1 DEF TournamentsInit
  <2>1. NoTournaments \in TournamentTables
    BY DEF NoTournaments, TournamentTables
  <2>2. [NoTournaments EXCEPT !.quarantined = q] \in TournamentTables
    BY <2>1, TournamentsAssumption DEF TournamentTables
  <2>3. Types
    BY <1>1, <1>f, <2>1, <2>2 DEF Types, OfStore
  <2>4. NumbersOK
    BY <1>1, <1>f DEF NumbersOK, TournamentsInit, FirstID, NoTournaments
  <2> QED
    BY <1>1, <1>f, <2>3, <2>4 DEF WriteBehindInv
<1>2. CASE store = "boards" /\ BoardsInit
  <2>1. WriteBehindInit(NoBoards, NoBoards) /\ NoBoards \in BoardTables
    BY <1>2 DEF BoardsInit, NoBoards, BoardTables
  <2>2. Types /\ ScoresOK
    BY <1>2, <1>f, <2>1 DEF Types, OfStore, ScoresOK
  <2> QED
    BY <1>2, <1>f, <2>1, <2>2 DEF WriteBehindInv
<1>3. CASE store = "profiles" /\ CommonDataInit
  <2>1. /\ WriteBehindInit(NoProfiles, NoProfiles) /\ NoProfiles \in ProfileTables
    BY <1>3 DEF CommonDataInit, NoProfiles, ProfileTables
  <2>2. Types
    BY <1>3, <1>f, <2>1 DEF Types, OfStore
  <2>3. ProfilesOK
    BY <1>f, <2>1 DEF ProfilesOK
  <2> QED
    BY <1>3, <1>f, <2>1, <2>2, <2>3 DEF WriteBehindInv
<1>4. CASE store = "recalls" /\ AuthRecallInit
  <2>1. /\ WriteBehindInit(NoRecalls, NoRecalls) /\ NoRecalls \in RecallTables
        /\ clock = 0 /\ expiring = {} /\ logins = NoLogins /\ foreign = FALSE
    BY <1>4 DEF AuthRecallInit, NoRecalls, RecallTables
  <2>2. Types
    BY <1>4, <1>f, <2>1 DEF Types, OfStore
  <2>3. MaxClock + 1 \in Nat /\ 0 \in 0 .. MaxClock
    BY AuthRecallAssumption
  <2>4. logins \in [Hosts -> [Accounts -> Nat]]
    BY <2>1, <2>3 DEF NoLogins, Never
  <2>5. RecallsOK
    BY <1>f, <2>1, <2>3, <2>4 DEF RecallsOK, Minted, Ordered, NoRecalls
  <2> QED
    BY <1>4, <1>f, <2>1, <2>2, <2>5 DEF WriteBehindInv
<1> QED
  BY <1>1, <1>2, <1>3, <1>4 DEF Init

(* Every step keeps the invariant and what stands in the files. *)
LEMMA StepWriteBehind ==
  ASSUME WriteBehindInv, [Next]_vars
  PROVE  /\ WriteBehindInv'
         /\ [/\ store = "tournaments" => KeepsRecorded
             /\ store = "boards" => KeepsSavedScores]_vars
<1>i. /\ Types /\ FlushOK
      /\ store = "tournaments" => NumbersOK
      /\ store = "boards" => ScoresOK
      /\ store = "profiles" => ProfilesOK
      /\ store = "recalls" => RecallsOK
  BY DEF WriteBehindInv
<1>1. CASE store = "tournaments" /\ TournamentsNext /\ store' = store
  <2>1. Types' /\ FlushOK' /\ NumbersOK' /\ KeepsRecorded
    BY <1>1, <1>i, TournamentsStep
  <2> QED
    BY <1>1, <2>1 DEF WriteBehindInv
<1>2. CASE store = "boards" /\ BoardsNext /\ store' = store
  <2>1. Types' /\ FlushOK' /\ ScoresOK' /\ KeepsSavedScores
    BY <1>2, <1>i, BoardsStep
  <2> QED
    BY <1>2, <2>1 DEF WriteBehindInv
<1>3. CASE store = "profiles" /\ CommonDataNext /\ store' = store
  <2>1. Types' /\ FlushOK' /\ ProfilesOK'
    BY <1>3, <1>i, CommonDataStep
  <2> QED
    BY <1>3, <2>1 DEF WriteBehindInv
<1>4. CASE store = "recalls" /\ AuthRecallNext /\ store' = store
  <2>1. Types' /\ FlushOK' /\ RecallsOK'
    BY <1>4, <1>i, AuthRecallStep
  <2> QED
    BY <1>4, <2>1 DEF WriteBehindInv
<1>5. CASE UNCHANGED vars
  <2>1. /\ UNCHANGED <<loaded, table, marking, dirty, pc, todo, snap, disk, failed, unread, store>>
        /\ UNCHANGED <<nextID, clock, expiring, logins, foreign>>
    BY <1>5 DEF vars
  <2>2. Types' /\ FlushOK'
    BY <1>i, <2>1 DEF Types, OfStore, FlushOK, Clean, Covers, Collected
  <2>3. /\ NumbersOK => NumbersOK'
        /\ ScoresOK => ScoresOK'
    BY <2>1 DEF NumbersOK, RecordedIds, byID, ScoresOK, AtMost
  <2>4. /\ ProfilesOK => ProfilesOK'
        /\ RecallsOK => RecallsOK'
    BY <2>1 DEF ProfilesOK, RecallsOK, Minted, Ordered, NotNewer, Recalled
  <2> QED
    BY <1>5, <1>i, <2>1, <2>2, <2>3, <2>4 DEF WriteBehindInv
<1> QED
  BY <1>1, <1>2, <1>3, <1>4, <1>5 DEF Next

(* The invariant holds of every behaviour. *)
LEMMA WriteBehindStands == Spec => []WriteBehindInv
<1>1. WriteBehindInv /\ [Next]_vars => WriteBehindInv'
  BY StepWriteBehind
<1> QED
  BY <1>1, InitWriteBehind, PTL DEF Spec

(* SavedWhenQuiet: in each of the four tables, once no change waits to be written and the *)
(* newest write has not failed, the file has all of the table, however the operations,    *)
(* the flag, the flusher's collecting and a crash fell together; also again after a start *)
(* that could not read the file, from its first write on.                                 *)
THEOREM QuietMeansSaved == Spec => []SavedWhenQuiet
<1>1. WriteBehindInv => SavedWhenQuiet
  <2> SUFFICES ASSUME WriteBehindInv, Quiet
               PROVE  /\ store = "tournaments" => Readable(disk) = table
                      /\ store = "boards" => disk = table
                      /\ store = "profiles" => ProfilesStored
                      /\ store = "recalls" => RecallsSaved
    BY DEF SavedWhenQuiet, TournamentsSaved, BoardsSaved, ProfilesStored, RecallsSaved
  <2>1. Covers(disk, table)
    BY DEF WriteBehindInv, FlushOK, Clean, Quiet
  <2> QED
    BY <2>1 DEF Covers, ProfilesStored, RecallsSaved
<1> QED
  BY <1>1, WriteBehindStands, PTL

(* RecordsStand: no step wipes a recorded tournament that does not validate, gives the    *)
(* identifier of a recorded one to a new one, or takes a score back from the file, as     *)
(* long as the process has been able to read the file it started with or has replaced it. *)
THEOREM RecordsAlwaysStand == Spec => RecordsStand
<1>1. WriteBehindInv /\ [Next]_vars =>
        [/\ store = "tournaments" => KeepsRecorded
         /\ store = "boards" => KeepsSavedScores]_vars
  BY StepWriteBehind
<1> QED
  BY <1>1, WriteBehindStands, PTL DEF Spec, RecordsStand

(* InheritedLoggedInHere: a console without a ticket only ever becomes an account that    *)
(* logged in from its address within the TTL, and no login the file has held for an       *)
(* address gives way to an older one (RecallAuthPID, authRecallInit, authRecallFlusher).  *)
THEOREM RecallsOfTheAddressOnly == Spec => []InheritedLoggedInHere
<1>1. WriteBehindInv => InheritedLoggedInHere
  BY DEF WriteBehindInv, InheritedLoggedInHere, RecallsOfTheAddress, RecallsOK, Ordered, NotNewer
<1> QED
  BY <1>1, WriteBehindStands, PTL
=============================================================================
