------------------------- MODULE WriteThroughProofs -------------------------
(***************************************************************************)
(* Proofs about the tables that the handlers write themselves: the file    *)
(* can always be read again, an answered change is in it, a result counts  *)
(* once and the answers about ranks agree, for any number of handlers,     *)
(* requests, players, crashes and failed calls of the file system.         *)
(***************************************************************************)
EXTENDS MCWriteThrough, FiniteSetTheorems, TLAPS

StatTables    == [Keys -> {Absent} \cup Stat]
ProfileTables == [Makers -> {Absent} \cup Profile]

\* What a handler of the store this behaviour follows may marshal.
OfStore(x) ==
  /\ store = "ranking2" => x \in Ranking
  /\ store = "referee" => x \in StatTables
  /\ store = "profiles" => x \in ProfileTables

Content(x) == x \in Unreadable \/ OfStore(x)

Steps ==
  IF store = "ranking2" THEN {"idle", "scores", "open", "fill", "rename"}
  ELSE IF store = "referee"
  THEN {"idle", "results", "count", "rating", "marshal", "open", "fill", "rename"}
  ELSE {"idle", "store", "save", "range", "open", "fill", "rename"}

Types ==
  /\ store \in {"ranking2", "referee", "profiles"}
  /\ pc \in [Handlers -> Steps] /\ DOMAIN req = Handlers /\ DOMAIN snap = Handlers
  /\ fd \in [Handlers -> {"tmp", "file", "gone", "closed"}]
  /\ Content(tmp) /\ Content(file)
  /\ \A w \in Handlers : pc[w] \in {"open", "fill", "rename"} => OfStore(snap[w])

Busy == {"marshal", "range", "open", "fill", "rename"}

\* As long as no two handlers wrote at the same time, the one that does finds in the
\* temporary file what it has put there.
WriterOK ==
  ~overlapped =>
    /\ \A v, w \in Handlers : pc[v] \in Busy /\ pc[w] \in Busy => v = w
    /\ \A w \in Handlers : fd[w] = IF pc[w] = "fill" THEN "tmp" ELSE "closed"
    /\ \A w \in Handlers : pc[w] = "fill" => tmp = Empty
    /\ \A w \in Handlers : pc[w] = "rename" => tmp = snap[w]
    /\ file \notin {Empty, Torn}

\* Before the file is read no request is in progress.
Stopped == ~up => ~modifie /\ \A w \in Handlers : pc[w] = "idle" /\ req[w] = Absent

Common == Types /\ WriterOK /\ Stopped

-----------------------------------------------------------------------------
(* What the stores have in common *)

\* The three ways a step of a writer may end.
Advanced(w) ==
  /\ pc[w] \in {"open", "fill"} /\ Goto(w, IF pc[w] = "open" THEN "fill" ELSE "rename")
  /\ UNCHANGED <<req, snap, failed>> /\ (~overlapped => file' = file)

GaveUp(w) ==
  /\ pc[w] \in {"open", "fill", "rename"} /\ Answer(w) /\ failed' = TRUE
  /\ ~overlapped => file' = file

Renamed(w) ==
  /\ pc[w] = "rename" /\ Answer(w) /\ failed' = FALSE
  /\ ~overlapped => file' = snap[w]

(* What can be read is not one of the three contents that cannot. *)
LEMMA Readable ==
  ASSUME Types, NEW x, OfStore(x)
  PROVE  x \notin Unreadable
  BY Ranking2Assumption, RefereeAssumption, ProfilesAssumption
     DEF Types, OfStore, StatTables, ProfileTables

(* A step of the file system keeps the invariant, if contents and descriptors do. *)
LEMMA WriterStep ==
  ASSUME Common, store' = store, NEW w \in Handlers,
         UNCHANGED <<up, modifie, overlapped>>, up,
         fd' \in [Handlers -> {"tmp", "file", "gone", "closed"}],
         Content(tmp)', Content(file)',
         Advanced(w) \/ GaveUp(w) \/ Renamed(w),
         ~overlapped =>
           /\ \A v \in Handlers \ {w} : fd'[v] = fd[v]
           /\ fd'[w] = IF pc'[w] = "fill" THEN "tmp" ELSE "closed"
           /\ pc'[w] = "fill" => tmp' = Empty
           /\ pc'[w] = "rename" => tmp' = snap[w]
  PROVE  Common'
<1>t. /\ pc \in [Handlers -> Steps] /\ DOMAIN snap = Handlers /\ DOMAIN req = Handlers
      /\ {"idle", "open", "fill", "rename"} \subseteq Steps /\ Steps' = Steps
  BY DEF Common, Types, Steps
<1>1. pc[w] \in {"open", "fill", "rename"} /\ OfStore(snap[w])
  BY DEF Advanced, GaveUp, Renamed, Common, Types
<1>2. /\ pc' \in [Handlers -> Steps] /\ pc'[w] \in {"idle", "fill", "rename"}
      /\ \A v \in Handlers \ {w} : pc'[v] = pc[v]
      /\ DOMAIN snap' = Handlers /\ DOMAIN req' = Handlers
      /\ \A v \in Handlers \ {w} : snap'[v] = snap[v]
      /\ pc'[w] # "idle" => snap'[w] = snap[w]
  BY <1>t DEF Advanced, GaveUp, Renamed, Goto, Answer
<1>3. \A v \in Handlers : pc'[v] \in {"open", "fill", "rename"} => OfStore(snap'[v])
  BY <1>1, <1>2 DEF Common, Types
<1>4. Types'
  BY <1>2, <1>3, <1>t DEF Common, Types, OfStore
<1>5. ~overlapped => file' \notin {Empty, Torn}
  <2>1. snap[w] \notin Unreadable
    BY <1>1, Readable DEF Common
  <2>2. ~overlapped => file' \in {file, snap[w]}
    BY DEF Advanced, GaveUp, Renamed
  <2> QED
    BY <2>1, <2>2 DEF Common, WriterOK, Unreadable
<1>6. WriterOK'
  <2> SUFFICES ASSUME ~overlapped
               PROVE  /\ \A v, u \in Handlers : pc'[v] \in Busy /\ pc'[u] \in Busy => v = u
                      /\ \A v \in Handlers : fd'[v] = IF pc'[v] = "fill" THEN "tmp" ELSE "closed"
                      /\ \A v \in Handlers : pc'[v] = "fill" => tmp' = Empty
                      /\ \A v \in Handlers : pc'[v] = "rename" => tmp' = snap'[v]
    BY <1>5 DEF WriterOK
  <2>1. \A v \in Handlers \ {w} : pc[v] \notin Busy /\ pc'[v] \notin Busy
    BY <1>1, <1>2 DEF Common, WriterOK, Busy
  <2>2. \A v, u \in Handlers : pc'[v] \in Busy /\ pc'[u] \in Busy => v = u
    BY <2>1
  <2>3. \A v \in Handlers \ {w} : fd'[v] = fd[v] /\ fd[v] = "closed"
    BY <2>1 DEF Common, WriterOK, Busy
  <2> QED
    BY <1>2, <2>1, <2>2, <2>3 DEF Busy
<1>7. Stopped'
  BY DEF Stopped
<1> QED
  BY <1>4, <1>6, <1>7 DEF Common

(* Whatever a writer's step meets, it keeps the invariant and ends in one of three ways. *)
LEMMA WriteKeeps ==
  ASSUME Common, store' = store, NEW w \in Handlers,
         WriteSteps(w) \/ RenameFails(w) \/ RenameFailsRemoves(w)
  PROVE  /\ Common' /\ up /\ UNCHANGED <<up, table, modifie, overlapped>>
         /\ Advanced(w) \/ GaveUp(w) \/ Renamed(w)
<1>u. UNCHANGED <<up, table, modifie, overlapped>>
  BY DEF WriteSteps, OpenTmp, OpenFails, FillTmp, FillFails, RenameTmp, RenameMisses, RenameFails,
         RenameFailsRemoves, Fails
<1>p. pc[w] \in {"open", "fill", "rename"}
  BY DEF WriteSteps, OpenTmp, OpenFails, FillTmp, FillFails, RenameTmp, RenameMisses, RenameFails,
         RenameFailsRemoves
<1>up. up
  BY <1>p DEF Common, Stopped
<1>t. /\ fd \in [Handlers -> {"tmp", "file", "gone", "closed"}] /\ pc \in [Handlers -> Steps]
      /\ Content(tmp) /\ Content(file) /\ OfStore(snap[w])
  BY <1>p DEF Common, Types
<1>w. ~overlapped =>
        /\ \A v \in Handlers \ {w} : fd[v] = "closed"
        /\ fd[w] = IF pc[w] = "fill" THEN "tmp" ELSE "closed"
        /\ pc[w] = "fill" => tmp = Empty
        /\ pc[w] = "rename" => tmp = snap[w]
  BY <1>p DEF Common, WriterOK, Busy
<1>e. NoFile \in Unreadable /\ Empty \in Unreadable /\ Torn \in Unreadable
  BY DEF Unreadable
<1>s. ASSUME fd' \in [Handlers -> {"tmp", "file", "gone", "closed"}],
             tmp' \in Unreadable \cup {tmp, snap[w]}, file' \in Unreadable \cup {file, tmp, snap[w]},
             Advanced(w) \/ GaveUp(w) \/ Renamed(w),
             ~overlapped =>
               /\ \A v \in Handlers \ {w} : fd'[v] = fd[v]
               /\ fd'[w] = IF pc'[w] = "fill" THEN "tmp" ELSE "closed"
               /\ pc'[w] = "fill" => tmp' = Empty
               /\ pc'[w] = "rename" => tmp' = snap[w]
      PROVE  Common' /\ (Advanced(w) \/ GaveUp(w) \/ Renamed(w))
  <2>1. Content(tmp)' /\ Content(file)'
    BY <1>s, <1>t DEF Content, OfStore, Unreadable
  <2> QED
    BY <1>s, <1>u, <1>up, <2>1, WriterStep
<1>1. CASE OpenTmp(w)
  <2>1. /\ pc[w] = "open" /\ tmp' = Empty /\ fd' = [fd EXCEPT ![w] = "tmp"] /\ file' = file
        /\ Goto(w, "fill") /\ UNCHANGED <<req, snap, failed>>
    BY <1>1 DEF OpenTmp, faultVars
  <2>2. Advanced(w) /\ pc'[w] = "fill"
    BY <1>t, <2>1 DEF Advanced, Goto
  <2>3. /\ fd' \in [Handlers -> {"tmp", "file", "gone", "closed"}] /\ fd'[w] = "tmp"
        /\ \A v \in Handlers \ {w} : fd'[v] = fd[v]
    BY <1>t, <2>1
  <2> QED
    BY <1>e, <1>s, <1>u, <1>up, <2>1, <2>2, <2>3
<1>2. CASE OpenFails(w) \/ RenameMisses(w) \/ RenameFails(w) \/ RenameFailsRemoves(w)
  <2>1. /\ pc[w] \in {"open", "rename"} /\ fd' = fd /\ file' = file /\ tmp' \in {tmp, NoFile}
        /\ Answer(w) /\ failed' = TRUE
    BY <1>2 DEF OpenFails, RenameMisses, RenameFails, RenameFailsRemoves, Fails, osVars
  <2>2. GaveUp(w) /\ pc'[w] = "idle"
    BY <1>t, <2>1 DEF GaveUp, Answer, Goto
  <2> QED
    BY <1>e, <1>s, <1>t, <1>u, <1>up, <1>w, <2>1, <2>2
<1>3. CASE FillTmp(w)
  <2>1. /\ pc[w] = "fill" /\ fd' = [fd EXCEPT ![w] = "closed"]
        /\ IF fd[w] = "tmp" THEN tmp' \in Written(tmp, snap[w]) ELSE tmp' = tmp
        /\ IF fd[w] = "file" THEN file' \in Written(file, snap[w]) ELSE file' = file
        /\ Goto(w, "rename") /\ UNCHANGED <<req, snap, failed>>
    BY <1>3 DEF FillTmp, Fill, faultVars
  <2>2. tmp' \in Unreadable \cup {tmp, snap[w]} /\ file' \in Unreadable \cup {file, tmp, snap[w]}
    BY <1>e, <2>1 DEF Written
  <2>3. ~overlapped => tmp' = snap[w] /\ file' = file
    BY <1>w, <2>1 DEF Written
  <2>4. Advanced(w) /\ pc'[w] = "rename"
    BY <1>t, <2>1, <2>3 DEF Advanced, Goto
  <2>5. /\ fd' \in [Handlers -> {"tmp", "file", "gone", "closed"}] /\ fd'[w] = "closed"
        /\ \A v \in Handlers \ {w} : fd'[v] = fd[v]
    BY <1>t, <2>1
  <2> QED
    BY <1>s, <1>u, <1>up, <2>2, <2>3, <2>4, <2>5
<1>4. CASE FillFails(w)
  <2>1. /\ pc[w] = "fill" /\ fd' = [fd EXCEPT ![w] = "closed"] /\ Answer(w) /\ failed' = TRUE
        /\ IF fd[w] = "tmp" THEN tmp' = Torn ELSE tmp' = tmp
        /\ IF fd[w] = "file" THEN file' = Torn ELSE file' = file
    BY <1>4 DEF FillFails, Fill, Fails
  <2>2. tmp' \in Unreadable \cup {tmp, snap[w]} /\ file' \in Unreadable \cup {file, tmp, snap[w]}
    BY <1>e, <2>1
  <2>3. ~overlapped => file' = file
    BY <1>w, <2>1
  <2>4. GaveUp(w) /\ pc'[w] = "idle"
    BY <1>t, <2>1, <2>3 DEF GaveUp, Answer, Goto
  <2>5. /\ fd' \in [Handlers -> {"tmp", "file", "gone", "closed"}] /\ fd'[w] = "closed"
        /\ \A v \in Handlers \ {w} : fd'[v] = fd[v]
    BY <1>t, <2>1
  <2> QED
    BY <1>s, <1>u, <1>up, <2>2, <2>4, <2>5
<1>5. CASE RenameTmp(w)
  <2>1. /\ pc[w] = "rename" /\ file' = tmp /\ tmp' = NoFile /\ Answer(w) /\ failed' = FALSE
        /\ fd' = [v \in Handlers |-> CASE fd[v] = "tmp" -> "file"
                                       [] fd[v] = "file" -> "gone"
                                       [] OTHER -> fd[v]]
    BY <1>5 DEF RenameTmp
  <2>2. fd' \in [Handlers -> {"tmp", "file", "gone", "closed"}]
    BY <1>t, <2>1
  <2>3. ~overlapped => file' = snap[w] /\ \A v \in Handlers : fd'[v] = fd[v]
    BY <1>w, <2>1
  <2>4. Renamed(w) /\ pc'[w] = "idle"
    BY <1>t, <2>1, <2>3 DEF Renamed, Answer, Goto
  <2> QED
    BY <1>e, <1>s, <1>u, <1>up, <1>w, <2>1, <2>2, <2>3, <2>4
<1> QED
  BY <1>1, <1>2, <1>3, <1>4, <1>5, <1>u, <1>up DEF WriteSteps

(* A step of a handler that leaves the files alone keeps the invariant, if it begins to  *)
(* write when no other does or raises the flag `overlapped'.                             *)
LEMMA HandlerStep ==
  ASSUME Common, store' = store, NEW w \in Handlers, up, UNCHANGED <<up, fd, tmp, file>>,
         pc' \in [Handlers -> Steps], DOMAIN req' = Handlers, DOMAIN snap' = Handlers,
         \A v \in Handlers \ {w} : pc'[v] = pc[v] /\ snap'[v] = snap[v],
         pc[w] \notin {"fill", "rename"}, pc'[w] \notin {"fill", "rename"},
         pc'[w] = "open" => OfStore(snap'[w]),
         ~overlapped' => /\ ~overlapped
                         /\ \/ pc'[w] \notin Busy \/ pc[w] \in Busy
                            \/ \A v \in Handlers : pc[v] \notin Busy
  PROVE  Common'
<1>t. Steps' = Steps
  BY DEF Steps
<1>1. \A v \in Handlers : pc'[v] \in {"open", "fill", "rename"} => OfStore(snap'[v])
  BY DEF Common, Types
<1>2. Types'
  BY <1>1, <1>t DEF Common, Types, OfStore, Content
<1>3. WriterOK'
  <2> SUFFICES ASSUME ~overlapped'
               PROVE  /\ \A v, u \in Handlers : pc'[v] \in Busy /\ pc'[u] \in Busy => v = u
                      /\ \A v \in Handlers : fd'[v] = IF pc'[v] = "fill" THEN "tmp" ELSE "closed"
                      /\ \A v \in Handlers : pc'[v] = "fill" => tmp' = Empty
                      /\ \A v \in Handlers : pc'[v] = "rename" => tmp' = snap'[v]
                      /\ file' \notin {Empty, Torn}
    BY DEF WriterOK
  <2>1. /\ \A v, u \in Handlers : pc[v] \in Busy /\ pc[u] \in Busy => v = u
        /\ \A v \in Handlers : fd[v] = IF pc[v] = "fill" THEN "tmp" ELSE "closed"
        /\ \A v \in Handlers : pc[v] = "fill" => tmp = Empty
        /\ \A v \in Handlers : pc[v] = "rename" => tmp = snap[v]
        /\ file \notin {Empty, Torn}
    BY DEF Common, WriterOK
  <2>2. \A v, u \in Handlers : pc'[v] \in Busy /\ pc'[u] \in Busy => v = u
    BY <2>1
  <2> QED
    BY <2>1, <2>2
<1>4. Stopped'
  BY DEF Stopped
<1> QED
  BY <1>2, <1>3, <1>4 DEF Common

(* The end of the process and its start keep it too. *)
LEMMA CrashKeeps ==
  ASSUME Common, store' = store, NEW t, Crash(t)
  PROVE  Common'
<1>1. /\ pc' = [w \in Handlers |-> "idle"] /\ req' = [w \in Handlers |-> Absent]
      /\ snap' = [w \in Handlers |-> Absent] /\ fd' = [w \in Handlers |-> "closed"]
      /\ UNCHANGED <<tmp, file, overlapped>> /\ ~modifie'
  BY DEF Crash
<1>2. Types'
  BY <1>1 DEF Common, Types, OfStore, Content, Steps
<1>3. WriterOK'
  BY <1>1 DEF Common, WriterOK, Busy
<1>4. Stopped'
  BY <1>1 DEF Stopped
<1> QED
  BY <1>2, <1>3, <1>4 DEF Common

(* The start reads a table and finds no request in progress. *)
LEMMA StartKeeps ==
  ASSUME Common, store' = store, NEW t, Start(t)
  PROVE  /\ Common' /\ UNCHANGED <<pc, req, snap, file, modifie, overlapped>> /\ table' = t
         /\ \A w \in Handlers : pc[w] = "idle" /\ req[w] = Absent
         /\ ~modifie /\ up' /\ ~up
<1>1. /\ UNCHANGED <<modifie, pc, req, snap, fd, tmp, file, overlapped>> /\ up' /\ ~up /\ table' = t
  BY DEF Start, osVars
<1>2. Types'
  BY <1>1 DEF Common, Types, OfStore, Content, Steps
<1>3. WriterOK'
  BY <1>1 DEF Common, WriterOK
<1>4. Stopped'
  BY <1>1 DEF Stopped
<1> QED
  BY <1>1, <1>2, <1>3, <1>4 DEF Common, Stopped

-----------------------------------------------------------------------------
(* The profiles *)

ProfileTyped ==
  /\ ~overlapped /\ table \in ProfileTables
  /\ \A w \in Handlers :
       /\ pc[w] = "idle" => req[w] = Absent
       /\ pc[w] = "store" => req[w] \in [pid : Makers, profile : Profile]
       /\ pc[w] \in {"save", "range", "open", "fill", "rename"} => req[w] \in [pid : Makers]
       /\ pc[w] = "range" => DOMAIN snap[w] \subseteq Makers
       /\ pc[w] = "range" => \A p \in DOMAIN snap[w] : snap[w][p] \in {Absent} \cup Profile

InFile(p) == IF file = NoFile THEN table[p] = Absent ELSE file[p] = table[p]
Serves(v, p) == req[v] # Absent /\ req[v].pid = p
WillSave(v, p) == pc[v] \in {"store", "save"} /\ req[v].pid = p

\* What the saver has copied is what the table holds, or the handler that changed the
\* table has yet to save.
CopyFresh ==
  \A w \in Handlers : pc[w] \in Busy =>
    \A p \in Makers \cap DOMAIN snap[w] :
      snap[w][p] = table[p] \/ \E v \in Handlers \ {w} : WillSave(v, p)

\* After a write that succeeded the file lacks nothing but what is still being handled.
ProfilesSaved ==
  up /\ ~failed => \A p \in Makers : InFile(p) \/ \E v \in Handlers : Serves(v, p)

ProfilesOK == ProfileTyped /\ CopyFresh /\ ProfilesSaved

(* A handler that will save serves its player. *)
LEMMA WillSaveServes ==
  ASSUME ProfileTyped, NEW v \in Handlers, NEW p, WillSave(v, p)
  PROVE  Serves(v, p)
  BY ProfilesAssumption DEF ProfileTyped, WillSave, Serves

(* The steps of the file system: only a rename changes the file, to a copy that is fresh. *)
LEMMA ProfilesWrite ==
  ASSUME Common, ProfilesOK, store = "profiles", store' = store, NEW w \in Handlers,
         WriteSteps(w) \/ RenameFailsRemoves(w)
  PROVE  Common' /\ ProfilesOK'
<1>1. /\ Common' /\ UNCHANGED <<up, table, modifie, overlapped>>
      /\ Advanced(w) \/ GaveUp(w) \/ Renamed(w)
  BY WriteKeeps
<1>t. /\ pc \in [Handlers -> Steps] /\ DOMAIN req = Handlers /\ DOMAIN snap = Handlers
  BY DEF Common, Types
<1>2. /\ pc[w] \in {"open", "fill", "rename"} /\ pc'[w] \in {"idle", "fill", "rename"}
      /\ pc'[w] = "idle" => req'[w] = Absent
      /\ pc'[w] # "idle" => req'[w] = req[w] /\ snap'[w] = snap[w]
      /\ \A v \in Handlers \ {w} : pc'[v] = pc[v] /\ req'[v] = req[v] /\ snap'[v] = snap[v]
  BY <1>1, <1>t DEF Advanced, GaveUp, Renamed, Goto, Answer
<1>o. ~overlapped /\ \A v \in Handlers \ {w} : pc[v] \notin Busy
  BY <1>2 DEF Common, WriterOK, Busy, ProfilesOK, ProfileTyped
<1>3. ProfileTyped'
  <2>1. ~overlapped' /\ table' \in ProfileTables'
    BY <1>1 DEF ProfilesOK, ProfileTyped, ProfileTables
  <2>2. ASSUME NEW v \in Handlers
        PROVE  /\ pc'[v] = "idle" => req'[v] = Absent
               /\ pc'[v] = "store" => req'[v] \in [pid : Makers, profile : Profile]
               /\ pc'[v] \in {"save", "range", "open", "fill", "rename"} => req'[v] \in [pid : Makers]
               /\ pc'[v] = "range" => DOMAIN snap'[v] \subseteq Makers
               /\ pc'[v] = "range" => \A p \in DOMAIN snap'[v] : snap'[v][p] \in {Absent} \cup Profile
    <3>1. CASE v = w
      BY <1>2, <3>1 DEF ProfilesOK, ProfileTyped
    <3>2. CASE v # w
      BY <1>2, <3>2 DEF ProfilesOK, ProfileTyped
    <3> QED
      BY <3>1, <3>2
  <2> QED
    BY <2>1, <2>2 DEF ProfileTyped
<1>4. \A v \in Handlers \ {w}, p \in Makers : WillSave(v, p) => WillSave(v, p)'
  BY <1>2 DEF WillSave
<1>5. CopyFresh'
  <2>1. \A v \in Handlers : pc'[v] \in Busy => v = w /\ snap'[w] = snap[w]
    BY <1>2, <1>o DEF Busy
  <2>2. \A p \in Makers \cap DOMAIN snap[w] :
          snap[w][p] = table[p] \/ \E v \in Handlers \ {w} : WillSave(v, p)
    BY <1>2 DEF ProfilesOK, CopyFresh, Busy
  <2> QED
    BY <1>1, <1>4, <2>1, <2>2 DEF CopyFresh
<1>6. ProfilesSaved'
  <2> SUFFICES ASSUME up', ~failed', NEW p \in Makers
               PROVE  InFile(p)' \/ \E v \in Handlers : Serves(v, p)'
    BY DEF ProfilesSaved
  <2>1. CASE Advanced(w)
    <3>1. file' = file /\ req' = req /\ table' = table /\ ~failed /\ up
      BY <1>1, <1>o, <2>1 DEF Advanced
    <3> QED
      BY <3>1 DEF ProfilesOK, ProfilesSaved, InFile, Serves
  <2>2. CASE GaveUp(w)
    BY <2>2 DEF GaveUp
  <2>3. CASE Renamed(w)
    <3>1. file' = snap[w] /\ snap[w] \in ProfileTables /\ snap[w] # NoFile
      <4>1. OfStore(snap[w])
        BY <1>2 DEF Common, Types
      <4> QED
        BY <1>o, <2>3, <4>1, Readable DEF Renamed, OfStore, Unreadable, Common
    <3>2. snap[w][p] = table[p] \/ \E v \in Handlers \ {w} : WillSave(v, p)
      BY <1>2, <3>1 DEF ProfilesOK, CopyFresh, Busy, ProfileTables
    <3>3. CASE snap[w][p] = table[p]
      BY <1>1, <3>1, <3>3 DEF InFile
    <3>4. ASSUME NEW v \in Handlers \ {w}, WillSave(v, p)
          PROVE  Serves(v, p)'
      <4>1. Serves(v, p)
        BY <3>4, WillSaveServes DEF ProfilesOK
      <4> QED
        BY <1>2, <4>1 DEF Serves
    <3> QED
      BY <3>2, <3>3, <3>4
  <2> QED
    BY <1>1, <2>1, <2>2, <2>3
<1> QED
  BY <1>1, <1>3, <1>5, <1>6 DEF ProfilesOK

(* A handler changes the profile of its player, and has yet to save it. *)
LEMMA ProfileChanges ==
  ASSUME Common, ProfilesOK, store = "profiles", store' = store, NEW w \in Handlers, NEW p \in Makers,
         UNCHANGED <<up, snap, osVars, overlapped, failed>>, up,
         pc[w] \in {"idle", "store"}, pc' \in [Handlers -> Steps], pc'[w] \in {"store", "save"},
         DOMAIN req' = Handlers,
         \A v \in Handlers \ {w} : pc'[v] = pc[v] /\ req'[v] = req[v],
         pc'[w] = "store" => req'[w] \in [pid : Makers, profile : Profile],
         pc'[w] = "save" => req'[w] \in [pid : Makers],
         req'[w].pid = p, pc[w] = "store" => req[w].pid = p,
         table' \in ProfileTables, \A q \in Makers \ {p} : table'[q] = table[q]
  PROVE  Common' /\ ProfilesOK'
<1>u. fd' = fd /\ tmp' = tmp /\ file' = file /\ snap' = snap
  BY DEF osVars
<1>o. ~overlapped
  BY DEF ProfilesOK, ProfileTyped
<1>1. Common'
  <2>1. DOMAIN snap' = Handlers
    BY <1>u DEF Common, Types
  <2> QED
    BY <1>o, <1>u, <2>1, HandlerStep DEF Busy
<1>2. ProfileTyped'
  <2>1. ASSUME NEW v \in Handlers
        PROVE  /\ pc'[v] = "idle" => req'[v] = Absent
               /\ pc'[v] = "store" => req'[v] \in [pid : Makers, profile : Profile]
               /\ pc'[v] \in {"save", "range", "open", "fill", "rename"} => req'[v] \in [pid : Makers]
               /\ pc'[v] = "range" => DOMAIN snap'[v] \subseteq Makers
               /\ pc'[v] = "range" => \A q \in DOMAIN snap'[v] : snap'[v][q] \in {Absent} \cup Profile
    <3>1. CASE v = w
      BY <3>1
    <3>2. CASE v # w
      BY <1>u, <3>2 DEF ProfilesOK, ProfileTyped
    <3> QED
      BY <3>1, <3>2
  <2> QED
    BY <1>o, <2>1 DEF ProfileTyped, ProfileTables
<1>3. WillSave(w, p)'
  BY DEF WillSave
<1>4. \A v \in Handlers, q \in Makers : WillSave(v, q) => WillSave(v, q)'
  <2>1. \A q \in Makers : WillSave(w, q) => WillSave(w, q)'
    BY <1>3 DEF WillSave
  <2>2. \A v \in Handlers \ {w}, q \in Makers : WillSave(v, q) => WillSave(v, q)'
    BY DEF WillSave
  <2> QED
    BY <2>1, <2>2
<1>5. CopyFresh'
  <2> SUFFICES ASSUME NEW v \in Handlers, pc'[v] \in Busy, NEW q \in Makers \cap DOMAIN snap[v]
               PROVE  snap[v][q] = table'[q] \/ \E u \in Handlers \ {v} : WillSave(u, q)'
    BY <1>u DEF CopyFresh
  <2>1. v # w /\ pc[v] \in Busy
    BY DEF Busy
  <2>2. snap[v][q] = table[q] \/ \E u \in Handlers \ {v} : WillSave(u, q)
    BY <2>1 DEF ProfilesOK, CopyFresh
  <2>3. CASE q = p
    BY <1>3, <2>1, <2>3
  <2>4. CASE q # p
    BY <1>4, <2>2, <2>4
  <2> QED
    BY <2>3, <2>4
<1>6. ProfilesSaved'
  <2> SUFFICES ASSUME ~failed, NEW q \in Makers
               PROVE  InFile(q)' \/ \E v \in Handlers : Serves(v, q)'
    BY DEF ProfilesSaved
  <2>1. Serves(w, p)'
    <3>1. req'[w] # Absent
      BY ProfilesAssumption
    <3> QED
      BY <3>1 DEF Serves
  <2>2. InFile(q) \/ \E v \in Handlers : Serves(v, q)
    BY DEF ProfilesOK, ProfilesSaved
  <2>3. \A v \in Handlers \ {w} : Serves(v, q) => Serves(v, q)'
    BY DEF Serves
  <2>4. Serves(w, q) => q = p
    BY DEF Serves, ProfilesOK, ProfileTyped
  <2>5. q # p => (InFile(q) => InFile(q)')
    BY <1>u DEF InFile
  <2> QED
    BY <2>1, <2>2, <2>3, <2>4, <2>5
<1> QED
  BY <1>1, <1>2, <1>5, <1>6 DEF ProfilesOK

(* RegisterUser, SyncUserProfile and its second step are changes of that kind. *)
LEMMA ProfilesChange ==
  ASSUME Common, ProfilesOK, store = "profiles", store' = store, NEW w \in Handlers,
         \/ \E p \in Makers : \/ \E profile \in Profile : RegisterUser(w, p, profile)
                              \/ \E outfit \in Outfits, name \in Names \cup {NoName} :
                                   SyncUserProfile(w, p, outfit, name)
         \/ StoreSynced(w)
  PROVE  Common' /\ ProfilesOK'
<1>t. /\ pc \in [Handlers -> Steps] /\ DOMAIN req = Handlers /\ DOMAIN snap = Handlers
      /\ {"idle", "store", "save"} \subseteq Steps /\ table \in ProfileTables
  BY DEF Common, Types, Steps, ProfilesOK, ProfileTyped
<1>1. ASSUME NEW p \in Makers, NEW profile \in Profile, RegisterUser(w, p, profile)
      PROVE  Common' /\ ProfilesOK'
  <2>1. /\ up /\ pc[w] = "idle" /\ pc' = [pc EXCEPT ![w] = "save"] /\ req' = [req EXCEPT ![w] = [pid |-> p]]
        /\ table' = [table EXCEPT ![p] = profile]
        /\ UNCHANGED <<up, snap, osVars, overlapped, failed>>
    BY <1>1 DEF RegisterUser, Begin, Goto, faultVars
  <2>2. table' \in ProfileTables /\ \A q \in Makers \ {p} : table'[q] = table[q]
    BY <1>t, <2>1 DEF ProfileTables
  <2>3. /\ pc' \in [Handlers -> Steps] /\ pc'[w] = "save" /\ DOMAIN req' = Handlers
        /\ req'[w] \in [pid : Makers] /\ req'[w].pid = p
        /\ \A v \in Handlers \ {w} : pc'[v] = pc[v] /\ req'[v] = req[v]
    BY <1>t, <2>1
  <2>4. UNCHANGED <<up, snap, osVars, overlapped, failed>> /\ up /\ pc[w] = "idle"
    BY <2>1
  <2> QED
    BY <2>2, <2>3, <2>4, ProfileChanges
<1>2. ASSUME NEW p \in Makers, NEW outfit \in Outfits, NEW name \in Names \cup {NoName},
             SyncUserProfile(w, p, outfit, name)
      PROVE  Common' /\ ProfilesOK'
  <2>1. /\ up /\ pc[w] = "idle" /\ pc' = [pc EXCEPT ![w] = "store"] /\ table[p] # Absent
        /\ req' = [req EXCEPT ![w] =
             [pid |-> p, profile |-> [table[p] EXCEPT !.outfit = outfit,
                                                      !.name = IF name = NoName THEN @ ELSE name]]]
        /\ UNCHANGED <<up, table, snap, osVars, overlapped, failed>>
    BY <1>2 DEF SyncUserProfile, Begin, Goto, faultVars
  <2>2. table[p] \in Profile
    BY <1>t, <2>1 DEF ProfileTables
  <2>3. [table[p] EXCEPT !.outfit = outfit, !.name = IF name = NoName THEN @ ELSE name] \in Profile
    BY <2>2 DEF Profile
  <2>4. /\ pc' \in [Handlers -> Steps] /\ pc'[w] = "store" /\ DOMAIN req' = Handlers
        /\ req'[w] \in [pid : Makers, profile : Profile] /\ req'[w].pid = p
        /\ \A v \in Handlers \ {w} : pc'[v] = pc[v] /\ req'[v] = req[v]
    BY <1>t, <2>1, <2>3
  <2> QED
    BY <1>t, <2>1, <2>4, ProfileChanges
<1>3. ASSUME StoreSynced(w)
      PROVE  Common' /\ ProfilesOK'
  <2>1. /\ pc[w] = "store" /\ pc' = [pc EXCEPT ![w] = "save"]
        /\ req' = [req EXCEPT ![w] = [pid |-> req[w].pid]]
        /\ table' = [table EXCEPT ![req[w].pid] = req[w].profile]
        /\ UNCHANGED <<up, snap, osVars, overlapped, failed>>
    BY <1>3, <1>t DEF StoreSynced, Goto, faultVars
  <2>2. up
    BY <2>1 DEF Common, Stopped
  <2>3. req[w] \in [pid : Makers, profile : Profile]
    BY <2>1 DEF ProfilesOK, ProfileTyped
  <2>4. PICK p \in Makers : p = req[w].pid
    BY <2>3
  <2>5. table' \in ProfileTables /\ \A q \in Makers \ {p} : table'[q] = table[q]
    BY <1>t, <2>1, <2>3, <2>4 DEF ProfileTables
  <2>6. /\ pc' \in [Handlers -> Steps] /\ pc'[w] = "save" /\ DOMAIN req' = Handlers
        /\ req'[w] \in [pid : Makers] /\ req'[w].pid = p
        /\ \A v \in Handlers \ {w} : pc'[v] = pc[v] /\ req'[v] = req[v]
    BY <1>t, <2>1, <2>4
  <2>7. UNCHANGED <<up, snap, osVars, overlapped, failed>> /\ pc[w] = "store" /\ req[w].pid = p
    BY <2>1, <2>4
  <2> QED
    BY <2>2, <2>5, <2>6, <2>7, ProfileChanges
<1> QED
  BY <1>1, <1>2, <1>3

(* A step of the saver's copy: nobody else is saving. *)
LEMMA ProfilesCopy ==
  ASSUME Common, ProfilesOK, store = "profiles", store' = store, NEW w \in Handlers,
         LockSave(w) \/ \E p \in Makers : RangeProfile(w, p)
  PROVE  Common' /\ ProfilesOK'
<1>t. /\ pc \in [Handlers -> Steps] /\ DOMAIN req = Handlers /\ DOMAIN snap = Handlers
      /\ Steps = {"idle", "store", "save", "range", "open", "fill", "rename"}
      /\ table \in ProfileTables
  BY DEF Common, Types, Steps, ProfilesOK, ProfileTyped
<1>o. ~overlapped
  BY DEF ProfilesOK, ProfileTyped
<1>u. /\ fd' = fd /\ tmp' = tmp /\ file' = file /\ req' = req
      /\ UNCHANGED <<up, table, overlapped, failed>>
  BY DEF LockSave, RangeProfile, osVars, faultVars
<1>1. /\ pc[w] \in {"save", "range"} /\ pc' \in [Handlers -> Steps] /\ DOMAIN snap' = Handlers
      /\ pc'[w] \in {"range", "open"}
      /\ \A v \in Handlers \ {w} : pc'[v] = pc[v] /\ snap'[v] = snap[v]
  BY <1>t DEF LockSave, RangeProfile, Goto
<1>2. \A v \in Handlers \ {w} : pc[v] \notin Busy
  <2>1. CASE LockSave(w)
    BY <1>t, <2>1 DEF LockSave, Saving, Busy
  <2>2. CASE \E p \in Makers : RangeProfile(w, p)
    BY <1>o, <2>2 DEF RangeProfile, Common, WriterOK, Busy
  <2> QED
    BY <2>1, <2>2
<1>3. /\ DOMAIN snap'[w] \subseteq Makers
      /\ \A q \in DOMAIN snap'[w] : snap'[w][q] \in {Absent} \cup Profile
      /\ pc'[w] = "open" => snap'[w] \in ProfileTables
      /\ \A q \in Makers \cap DOMAIN snap'[w] :
           snap'[w][q] = table[q] \/ \E v \in Handlers \ {w} : WillSave(v, q)
  <2>1. CASE LockSave(w)
    <3>1. snap'[w] = [p \in {} |-> Absent] /\ pc'[w] = "range"
      BY <1>t, <2>1 DEF LockSave, Goto
    <3> QED
      BY <3>1
  <2>2. ASSUME NEW p \in Makers, RangeProfile(w, p)
        PROVE  /\ DOMAIN snap'[w] \subseteq Makers
               /\ \A q \in DOMAIN snap'[w] : snap'[w][q] \in {Absent} \cup Profile
               /\ pc'[w] = "open" => snap'[w] \in ProfileTables
               /\ \A q \in Makers \cap DOMAIN snap'[w] :
                    snap'[w][q] = table[q] \/ \E v \in Handlers \ {w} : WillSave(v, q)
    <3>1. PICK old : old = snap[w]
      OBVIOUS
    <3>2. /\ snap'[w] = [q \in DOMAIN old \cup {p} |-> IF q = p THEN table[p] ELSE old[q]]
          /\ pc[w] = "range" /\ pc'[w] = IF DOMAIN snap'[w] = Makers THEN "open" ELSE "range"
      BY <1>t, <2>2, <3>1 DEF RangeProfile, Goto
    <3>3. /\ DOMAIN old \subseteq Makers
          /\ \A q \in DOMAIN old : old[q] \in {Absent} \cup Profile
          /\ \A q \in Makers \cap DOMAIN old :
               old[q] = table[q] \/ \E v \in Handlers \ {w} : WillSave(v, q)
      BY <3>1, <3>2 DEF ProfilesOK, ProfileTyped, CopyFresh, Busy
    <3>4. table[p] \in {Absent} \cup Profile
      BY <1>t DEF ProfileTables
    <3>5. /\ DOMAIN snap'[w] \subseteq Makers
          /\ \A q \in DOMAIN snap'[w] : snap'[w][q] \in {Absent} \cup Profile
      BY <3>2, <3>3, <3>4
    <3>6. pc'[w] = "open" => snap'[w] \in ProfileTables
      BY <3>2, <3>3, <3>4 DEF ProfileTables
    <3>7. \A q \in Makers \cap DOMAIN snap'[w] :
            snap'[w][q] = table[q] \/ \E v \in Handlers \ {w} : WillSave(v, q)
      BY <3>2, <3>3
    <3> QED
      BY <3>5, <3>6, <3>7
  <2> QED
    BY <2>1, <2>2
<1>up. up
  BY <1>1 DEF Common, Stopped
<1>4. Common'
  <2>1. pc'[w] = "open" => OfStore(snap'[w])
    BY <1>3 DEF OfStore
  <2>2. pc[w] \in Busy \/ \A v \in Handlers : pc[v] \notin Busy
    BY <1>2
  <2>3. pc[w] \notin {"fill", "rename"} /\ pc'[w] \notin {"fill", "rename"} /\ DOMAIN req' = Handlers
    BY <1>1, <1>t, <1>u
  <2> QED
    BY <1>1, <1>o, <1>u, <1>up, <2>1, <2>2, <2>3, HandlerStep
<1>5. ProfileTyped'
  <2>1. ASSUME NEW v \in Handlers
        PROVE  /\ pc'[v] = "idle" => req'[v] = Absent
               /\ pc'[v] = "store" => req'[v] \in [pid : Makers, profile : Profile]
               /\ pc'[v] \in {"save", "range", "open", "fill", "rename"} => req'[v] \in [pid : Makers]
               /\ pc'[v] = "range" => DOMAIN snap'[v] \subseteq Makers
               /\ pc'[v] = "range" => \A q \in DOMAIN snap'[v] : snap'[v][q] \in {Absent} \cup Profile
    <3>1. CASE v = w
      <4>1. req'[w] \in [pid : Makers]
        BY <1>1, <1>u DEF ProfilesOK, ProfileTyped
      <4> QED
        BY <1>1, <1>3, <3>1, <4>1
    <3>2. CASE v # w
      BY <1>1, <1>u, <3>2 DEF ProfilesOK, ProfileTyped
    <3> QED
      BY <3>1, <3>2
  <2> QED
    BY <1>o, <1>t, <1>u, <2>1 DEF ProfileTyped, ProfileTables
<1>6. CopyFresh'
  <2>1. \A v \in Handlers : pc'[v] \in Busy => v = w
    BY <1>1, <1>2
  <2>2. \A v \in Handlers \ {w}, q \in Makers : WillSave(v, q) => WillSave(v, q)'
    BY <1>1, <1>u DEF WillSave
  <2> QED
    BY <1>3, <1>u, <2>1, <2>2 DEF CopyFresh
<1>7. ProfilesSaved'
  BY <1>u DEF ProfilesOK, ProfilesSaved, InFile, Serves
<1> QED
  BY <1>4, <1>5, <1>6, <1>7 DEF ProfilesOK

(* Every step of the profiles keeps their invariant. *)
LEMMA ProfilesStep ==
  ASSUME Common, ProfilesOK, store = "profiles", store' = store, ProfilesNext
  PROVE  Common' /\ ProfilesOK'
<1>1. CASE SMM2ChargerProfils
  <2> DEFINE t == IF file \in Unreadable THEN NoProfiles ELSE file
  <2>1. /\ Common' /\ UNCHANGED <<pc, req, snap, file, modifie, overlapped>> /\ table' = t
        /\ \A w \in Handlers : pc[w] = "idle" /\ req[w] = Absent
    BY <1>1, StartKeeps DEF SMM2ChargerProfils
  <2>2. t \in ProfileTables
    BY DEF Common, Types, Content, OfStore, ProfileTables, NoProfiles
  <2>3. file \notin {Empty, Torn}
    BY DEF Common, WriterOK, ProfilesOK, ProfileTyped
  <2>4. ProfileTyped'
    BY <2>1, <2>2 DEF ProfilesOK, ProfileTyped, ProfileTables
  <2>5. CopyFresh'
    BY <2>1 DEF CopyFresh, Busy
  <2>6. ProfilesSaved'
    BY <2>1, <2>3 DEF ProfilesSaved, InFile, Unreadable, NoProfiles
  <2> QED
    BY <2>1, <2>4, <2>5, <2>6 DEF ProfilesOK
<1>2. CASE ProfilesCrash
  <2>1. /\ Common' /\ table' = NoProfiles /\ overlapped' = overlapped /\ ~up'
        /\ \A w \in Handlers : pc'[w] = "idle" /\ req'[w] = Absent
    BY <1>2, CrashKeeps DEF ProfilesCrash, Crash
  <2>2. NoProfiles \in ProfileTables
    BY DEF NoProfiles, ProfileTables
  <2>3. ProfileTyped'
    BY <2>1, <2>2 DEF ProfilesOK, ProfileTyped, ProfileTables
  <2>4. CopyFresh' /\ ProfilesSaved'
    BY <2>1 DEF CopyFresh, Busy, ProfilesSaved
  <2> QED
    BY <2>1, <2>3, <2>4 DEF ProfilesOK
<1> QED
  BY <1>1, <1>2, ProfilesChange, ProfilesCopy, ProfilesWrite DEF ProfilesNext

-----------------------------------------------------------------------------
(* The ranking *)

ScoreRequest == [pid : PIDs, scores : Seq([cat : RankCategories, score : Nat])]

RankingTyped ==
  /\ table \in Ranking
  /\ \A w \in Handlers : pc[w] = "scores" => req[w] \in ScoreRequest

\* A handler that has yet to write follows every change.
FlagSeen == modifie => \E w \in Handlers : pc[w] = "scores"

\* While the flag is down the table is what the only writer writes, or what the file holds.
RankingSaved ==
  up /\ ~overlapped /\ ~modifie =>
    /\ \A w \in Handlers : pc[w] \in Busy => snap[w] = table
    /\ (\A w \in Handlers : pc[w] \notin Busy) /\ ~failed => Holds(table, NoScores)

RankingOK == RankingTyped /\ FlagSeen /\ RankingSaved

(* The steps of the file system. *)
LEMMA RankingWrite ==
  ASSUME Common, RankingOK, store = "ranking2", store' = store, NEW w \in Handlers,
         WriteSteps(w) \/ RenameFails(w)
  PROVE  Common' /\ RankingOK'
<1>1. /\ Common' /\ UNCHANGED <<up, table, modifie, overlapped>>
      /\ Advanced(w) \/ GaveUp(w) \/ Renamed(w)
  BY WriteKeeps
<1>t. /\ pc \in [Handlers -> Steps] /\ DOMAIN req = Handlers /\ DOMAIN snap = Handlers
  BY DEF Common, Types
<1>2. /\ pc[w] \in {"open", "fill", "rename"} /\ pc'[w] \in {"idle", "fill", "rename"}
      /\ pc'[w] # "idle" => snap'[w] = snap[w]
      /\ \A v \in Handlers \ {w} : pc'[v] = pc[v] /\ req'[v] = req[v] /\ snap'[v] = snap[v]
  BY <1>1, <1>t DEF Advanced, GaveUp, Renamed, Goto, Answer
<1>3. RankingTyped'
  BY <1>1, <1>2 DEF RankingOK, RankingTyped, Ranking, ScoreRequest
<1>4. FlagSeen'
  BY <1>1, <1>2 DEF RankingOK, FlagSeen
<1>5. RankingSaved'
  <2> SUFFICES ASSUME up, ~overlapped, ~modifie
               PROVE  /\ \A v \in Handlers : pc'[v] \in Busy => snap'[v] = table
                      /\ (\A v \in Handlers : pc'[v] \notin Busy) /\ ~failed' => Holds(table, NoScores)'
    BY <1>1 DEF RankingSaved
  <2>1. \A v \in Handlers \ {w} : pc[v] \notin Busy
    BY <1>2 DEF Common, WriterOK, Busy
  <2>2. snap[w] = table
    BY <1>2 DEF RankingOK, RankingSaved, Busy
  <2>3. \A v \in Handlers : pc'[v] \in Busy => snap'[v] = table
    BY <1>2, <2>1, <2>2 DEF Busy
  <2>4. ASSUME \A v \in Handlers : pc'[v] \notin Busy, ~failed'
        PROVE  Holds(table, NoScores)'
    <3>1. Renamed(w)
      BY <1>1, <1>t, <2>4 DEF Advanced, GaveUp, Goto, Busy
    <3>2. file' = table' /\ OfStore(snap[w])
      BY <1>1, <1>2, <2>2, <3>1 DEF Renamed, Common, Types
    <3>3. file' \notin Unreadable
      BY <1>1, <2>2, <3>2, Readable DEF Common
    <3> QED
      BY <3>2, <3>3 DEF Holds, Unreadable
  <2> QED
    BY <2>3, <2>4
<1> QED
  BY <1>1, <1>3, <1>4, <1>5 DEF RankingOK

(* One score of a list. *)
LEMMA RankingDeposer ==
  ASSUME Common, RankingOK, store = "ranking2", store' = store, NEW w \in Handlers, deposer(w)
  PROVE  Common' /\ RankingOK'
<1>t. /\ pc \in [Handlers -> Steps] /\ DOMAIN req = Handlers /\ DOMAIN snap = Handlers
      /\ table \in Ranking /\ pc[w] = "scores" /\ req[w] \in ScoreRequest /\ req[w].scores # <<>>
  BY DEF Common, Types, RankingOK, RankingTyped, deposer
<1>u. /\ fd' = fd /\ tmp' = tmp /\ file' = file /\ pc' = pc /\ snap' = snap
      /\ UNCHANGED <<up, overlapped, failed>>
      /\ req' = [req EXCEPT ![w].scores = Tail(@)]
  BY DEF deposer, osVars, faultVars
<1>1. PICK r \in ScoreRequest : r = req[w]
  BY <1>t
<1>2. /\ DOMAIN req' = Handlers /\ req'[w] = [r EXCEPT !.scores = Tail(@)]
      /\ \A v \in Handlers \ {w} : req'[v] = req[v]
  BY <1>1, <1>t, <1>u
<1>3. [r EXCEPT !.scores = Tail(@)] \in ScoreRequest /\ Head(r.scores) \in [cat : RankCategories, score : Nat]
  <2>1. PICK S : S = [cat : RankCategories, score : Nat]
    OBVIOUS
  <2>2. r \in [pid : PIDs, scores : Seq(S)] /\ r.scores \in Seq(S) /\ r.scores # <<>>
    BY <1>1, <1>t, <2>1 DEF ScoreRequest
  <2>3. Tail(r.scores) \in Seq(S) /\ Head(r.scores) \in S
    BY <2>2
  <2>4. [r EXCEPT !.scores = Tail(@)] \in [pid : PIDs, scores : Seq(S)]
    BY <2>2, <2>3
  <2> QED
    BY <2>1, <2>3, <2>4 DEF ScoreRequest
<1>4. \/ table' = table /\ modifie' = modifie
      \/ table' \in Ranking /\ modifie'
  <2>1. PICK sd \in [cat : RankCategories, score : Nat] : sd = Head(req[w].scores)
    BY <1>1, <1>3
  <2>2. \/ table' = [table EXCEPT ![sd.cat][req[w].pid] = sd.score] /\ modifie'
        \/ table' = table /\ modifie' = modifie
    BY <2>1 DEF deposer
  <2>3. sd.cat \in RankCategories /\ sd.score \in Nat /\ req[w].pid \in PIDs
    BY <1>t, <2>1 DEF ScoreRequest
  <2>4. [table EXCEPT ![sd.cat][req[w].pid] = sd.score] \in Ranking
    BY <1>t, <2>3 DEF Ranking
  <2> QED
    BY <2>2, <2>4
<1>up. up
  BY <1>t DEF Common, Stopped
<1>5. Common'
  BY <1>2, <1>t, <1>u, <1>up, HandlerStep DEF Busy
<1>6. RankingTyped'
  <2>1. table' \in Ranking
    BY <1>4, <1>t
  <2>2. \A v \in Handlers : pc'[v] = "scores" => req'[v] \in ScoreRequest
    BY <1>2, <1>3, <1>u DEF RankingOK, RankingTyped
  <2> QED
    BY <2>1, <2>2 DEF RankingTyped, Ranking, ScoreRequest
<1>7. FlagSeen'
  BY <1>t, <1>u DEF FlagSeen
<1>8. RankingSaved'
  BY <1>4, <1>u DEF RankingOK, RankingSaved, Holds, Unreadable
<1> QED
  BY <1>5, <1>6, <1>7, <1>8 DEF RankingOK

(* Ecrire up to the unlock: the table and the flag are taken together. *)
LEMMA RankingEcrire ==
  ASSUME Common, RankingOK, store = "ranking2", store' = store, NEW w \in Handlers, Ranking2Ecrire(w)
  PROVE  Common' /\ RankingOK'
<1>t. /\ pc \in [Handlers -> Steps] /\ DOMAIN req = Handlers /\ DOMAIN snap = Handlers
      /\ Steps = {"idle", "scores", "open", "fill", "rename"}
      /\ table \in Ranking /\ pc[w] = "scores"
  BY DEF Common, Types, Steps, RankingOK, RankingTyped, Ranking2Ecrire
<1>u. /\ fd' = fd /\ tmp' = tmp /\ file' = file
      /\ UNCHANGED <<up, table, failed>>
  BY DEF Ranking2Ecrire, osVars, faultVars
<1>1. \/ ~modifie /\ Answer(w) /\ overlapped' = overlapped /\ ~modifie'
      \/ /\ modifie /\ ~modifie' /\ Goto(w, "open") /\ req' = req
         /\ snap' = [snap EXCEPT ![w] = table] /\ overlapped' = (overlapped \/ Writing # {})
  BY DEF Ranking2Ecrire
<1>2. /\ pc' \in [Handlers -> Steps] /\ DOMAIN snap' = Handlers /\ DOMAIN req' = Handlers
      /\ \A v \in Handlers \ {w} : pc'[v] = pc[v] /\ snap'[v] = snap[v] /\ req'[v] = req[v]
      /\ pc'[w] \in {"idle", "open"} /\ (pc'[w] = "open" => snap'[w] = table)
  BY <1>1, <1>t DEF Answer, Goto
<1>3. ~overlapped' => /\ ~overlapped
                      /\ pc'[w] \notin Busy \/ \A v \in Handlers : pc[v] \notin Busy
  <2>1. CASE ~modifie /\ Answer(w) /\ overlapped' = overlapped
    BY <1>t, <2>1 DEF Answer, Goto, Busy
  <2>2. CASE overlapped' = (overlapped \/ Writing # {})
    BY <1>t, <2>2 DEF Writing, Busy
  <2> QED
    BY <1>1, <2>1, <2>2
<1>up. up
  BY <1>t DEF Common, Stopped
<1>4. Common'
  <2>1. pc'[w] = "open" => OfStore(snap'[w])
    BY <1>2, <1>t DEF OfStore
  <2> QED
    BY <1>2, <1>3, <1>t, <1>u, <1>up, <2>1, HandlerStep
<1>5. RankingTyped' /\ FlagSeen'
  BY <1>1, <1>2, <1>u DEF RankingOK, RankingTyped, FlagSeen, Ranking, ScoreRequest
<1>6. RankingSaved'
  <2> SUFFICES ASSUME ~overlapped'
               PROVE  /\ \A v \in Handlers : pc'[v] \in Busy => snap'[v] = table
                      /\ (\A v \in Handlers : pc'[v] \notin Busy) /\ ~failed' => Holds(table, NoScores)'
    BY <1>u DEF RankingSaved
  <2>1. CASE ~modifie /\ Answer(w)
    <3>1. pc'[w] = "idle" /\ pc[w] \notin Busy
      BY <1>t, <2>1 DEF Answer, Goto, Busy
    <3>2. /\ \A v \in Handlers : pc[v] \in Busy => snap[v] = table
          /\ (\A v \in Handlers : pc[v] \notin Busy) /\ ~failed => Holds(table, NoScores)
      BY <1>3, <1>up, <2>1 DEF RankingOK, RankingSaved
    <3>3. Holds(table, NoScores)' = Holds(table, NoScores)
      BY <1>u DEF Holds, Unreadable
    <3> QED
      BY <1>2, <1>u, <3>1, <3>2, <3>3 DEF Busy
  <2>2. CASE modifie
    <3>1. pc'[w] = "open" /\ pc'[w] \in Busy
      BY <1>1, <1>t, <2>2 DEF Goto, Busy
    <3>2. \A v \in Handlers \ {w} : pc'[v] \notin Busy
      BY <1>2, <1>3, <3>1
    <3> QED
      BY <1>2, <3>1, <3>2
  <2> QED
    BY <1>1, <2>1, <2>2
<1> QED
  BY <1>4, <1>5, <1>6 DEF RankingOK

(* Every step of the ranking keeps its invariant. *)
LEMMA RankingStep ==
  ASSUME Common, RankingOK, store = "ranking2", store' = store, Ranking2Next
  PROVE  Common' /\ RankingOK'
<1>1. CASE Ranking2Charger
  <2> DEFINE t == IF file \in Unreadable THEN NoScores ELSE file
  <2>1. /\ Common' /\ UNCHANGED <<pc, req, snap, file, modifie, overlapped>> /\ table' = t
        /\ \A w \in Handlers : pc[w] = "idle" /\ req[w] = Absent
        /\ ~modifie
    BY <1>1, StartKeeps DEF Ranking2Charger
  <2>2. t \in Ranking
    BY DEF Common, Types, Content, OfStore, Ranking, NoScores
  <2>3. RankingTyped' /\ FlagSeen'
    BY <2>1, <2>2 DEF RankingTyped, FlagSeen, Ranking
  <2>4. RankingSaved'
    BY <2>1 DEF RankingSaved, Holds, Busy, Unreadable, NoScores
  <2> QED
    BY <2>1, <2>3, <2>4 DEF RankingOK
<1>2. CASE Ranking2Crash
  <2>1. /\ Common' /\ table' = NoScores /\ ~up' /\ ~modifie'
        /\ \A w \in Handlers : pc'[w] = "idle"
    BY <1>2, CrashKeeps DEF Ranking2Crash, Crash
  <2>2. NoScores \in Ranking
    BY DEF NoScores, Ranking
  <2> QED
    BY <2>1, <2>2 DEF RankingOK, RankingTyped, FlagSeen, RankingSaved, Ranking
<1>3. ASSUME NEW w \in Handlers, NEW p \in PIDs, NEW scores \in ScoreLists, PutScore(w, p, scores)
      PROVE  Common' /\ RankingOK'
  <2>t. /\ pc \in [Handlers -> Steps] /\ DOMAIN req = Handlers /\ DOMAIN snap = Handlers
        /\ {"idle", "scores"} \subseteq Steps
    BY DEF Common, Types, Steps
  <2>1. /\ up /\ pc[w] = "idle" /\ pc' = [pc EXCEPT ![w] = "scores"]
        /\ req' = [req EXCEPT ![w] = [pid |-> p, scores |-> scores]]
        /\ UNCHANGED <<up, table, modifie, snap, overlapped, failed>>
        /\ fd' = fd /\ tmp' = tmp /\ file' = file
    BY <1>3 DEF PutScore, Begin, Goto, osVars, faultVars
  <2>2. [pid |-> p, scores |-> scores] \in ScoreRequest
    BY Ranking2Assumption DEF ScoreRequest
  <2>3. /\ pc' \in [Handlers -> Steps] /\ DOMAIN req' = Handlers /\ pc'[w] = "scores"
        /\ req'[w] \in ScoreRequest
        /\ \A v \in Handlers \ {w} : pc'[v] = pc[v] /\ req'[v] = req[v]
    BY <2>1, <2>2, <2>t
  <2>4. /\ UNCHANGED <<up, table, modifie, snap, overlapped, failed>> /\ up /\ pc[w] = "idle"
        /\ fd' = fd /\ tmp' = tmp /\ file' = file /\ DOMAIN snap' = Handlers
    BY <2>1, <2>t
  <2>5. Common'
    BY <2>3, <2>4, HandlerStep DEF Busy
  <2>6. RankingTyped' /\ FlagSeen'
    BY <2>3, <2>4 DEF RankingOK, RankingTyped, FlagSeen, Ranking, ScoreRequest
  <2>7. RankingSaved'
    <3>1. \A v \in Handlers : pc'[v] \in Busy <=> pc[v] \in Busy
      BY <2>3, <2>4 DEF Busy
    <3>2. Holds(table, NoScores)' = Holds(table, NoScores)
      BY <2>4 DEF Holds, Unreadable, NoScores
    <3> QED
      BY <2>4, <3>1, <3>2 DEF RankingOK, RankingSaved
  <2> QED
    BY <2>5, <2>6, <2>7 DEF RankingOK
<1> QED
  BY <1>1, <1>2, <1>3, RankingDeposer, RankingEcrire, RankingWrite DEF Ranking2Next

-----------------------------------------------------------------------------
(* The records of the players *)

Places(n) == {Absent} \cup 1 .. n

\* The entries lead to records, no two to the same one.
RecordsIn(t, h) ==
  /\ h \in Seq(Stat) /\ t \in [Keys -> Places(Len(h))]
  /\ \A k, l \in Keys : t[k] # Absent /\ t[k] = t[l] => k = l

CountsOf(t, h) == [k \in Keys |-> IF t[k] = Absent THEN NoTally[k] ELSE h[t[k]].count]
StatsOf(t, h)  == [k \in Keys |-> IF t[k] = Absent THEN Absent ELSE h[t[k]]]

(* The place an entry names is a record of the heap. *)
LEMMA PlaceIn ==
  ASSUME NEW t, NEW h, RecordsIn(t, h), NEW k \in Keys, t[k] # Absent
  PROVE  t[k] \in 1 .. Len(h) /\ h[t[k]] \in Stat
<1>1. t[k] \in Places(Len(h)) /\ h \in Seq(Stat)
  BY DEF RecordsIn
<1>2. t[k] \in 1 .. Len(h)
  BY <1>1 DEF Places
<1> QED
  BY <1>1, <1>2

Alloc(t, h, k, rating, t2, h2) ==
  t2 = [t EXCEPT ![k] = Len(h) + 1] /\ h2 = Append(h, NewStats(rating))

(* A new record changes what no entry but its own leads to. *)
LEMMA AllocRecord ==
  ASSUME NEW t, NEW h, RecordsIn(t, h), NEW k \in Keys, t[k] = Absent, NEW rating \in Nat,
         NEW t2, NEW h2, Alloc(t, h, k, rating, t2, h2)
  PROVE  /\ RecordsIn(t2, h2) /\ CountsOf(t2, h2) = CountsOf(t, h)
         /\ Len(h2) = Len(h) + 1 /\ t2[k] = Len(h) + 1
         /\ \A l \in Keys \ {k} : t2[l] = t[l]
<1>t. /\ h \in Seq(Stat) /\ t \in [Keys -> Places(Len(h))] /\ Len(h) \in Nat
      /\ Absent \notin Nat
      /\ t2 = [t EXCEPT ![k] = Len(h) + 1] /\ h2 = Append(h, NewStats(rating))
  BY RefereeAssumption DEF RecordsIn, Alloc
<1>1. NewStats(rating) \in Stat /\ NewStats(rating).count = [o \in Outcomes |-> 0]
  BY DEF NewStats, Stat
<1>2. /\ h2 \in Seq(Stat) /\ Len(h2) = Len(h) + 1 /\ h2[Len(h) + 1] = NewStats(rating)
      /\ \A i \in 1 .. Len(h) : h2[i] = h[i]
  <2>1. PICK s \in Stat : s = NewStats(rating)
    BY <1>1
  <2>2. PICK T : T = Stat
    OBVIOUS
  <2>3. h \in Seq(T) /\ s \in T /\ h2 = Append(h, s)
    BY <1>t, <2>1, <2>2
  <2>4. /\ h2 \in Seq(T) /\ Len(h2) = Len(h) + 1 /\ h2[Len(h) + 1] = s
        /\ \A i \in 1 .. Len(h) : h2[i] = h[i]
    BY <2>3
  <2> QED
    BY <2>1, <2>2, <2>4
<1>3. t2[k] = Len(h) + 1 /\ \A l \in Keys \ {k} : t2[l] = t[l]
  BY <1>t
<1>4. Places(Len(h)) \subseteq Places(Len(h2)) /\ Len(h) + 1 \in Places(Len(h2))
  BY <1>2, <1>t DEF Places
<1>5. t2 \in [Keys -> Places(Len(h2))]
  BY <1>4, <1>t
<1>6. \A l \in Keys \ {k} : t[l] # Len(h) + 1
  BY <1>t DEF Places
<1>7. RecordsIn(t2, h2)
  <2> SUFFICES ASSUME NEW l \in Keys, NEW m \in Keys, t2[l] # Absent, t2[l] = t2[m]
               PROVE  l = m
    BY <1>2, <1>5 DEF RecordsIn
  <2> QED
    BY <1>3, <1>6 DEF RecordsIn
<1>8. ASSUME NEW l \in Keys
      PROVE  CountsOf(t2, h2)[l] = CountsOf(t, h)[l]
  <2>1. CASE l = k
    <3>1. t2[l] # Absent /\ h2[t2[l]].count = NoTally[l]
      BY <1>1, <1>2, <1>3, <1>t, <2>1 DEF NoTally
    <3> QED
      BY <2>1, <3>1 DEF CountsOf
  <2>2. CASE l # k
    <3>1. t2[l] = t[l]
      BY <1>3, <2>2
    <3>2. t[l] # Absent => h2[t[l]] = h[t[l]]
      BY <1>2, PlaceIn
    <3>3. CASE t[l] = Absent
      BY <3>1, <3>3 DEF CountsOf
    <3>4. CASE t[l] # Absent
      <4>1. PICK j : j = t[l]
        OBVIOUS
      <4>2. CountsOf(t2, h2)[l] = h2[j].count /\ CountsOf(t, h)[l] = h[j].count
        BY <3>1, <3>4, <4>1 DEF CountsOf
      <4> QED
        BY <3>2, <3>4, <4>1, <4>2
    <3> QED
      BY <3>3, <3>4
  <2> QED
    BY <2>1, <2>2
<1>9. CountsOf(t2, h2) = CountsOf(t, h)
  BY <1>8 DEF CountsOf
<1> QED
  BY <1>2, <1>3, <1>7, <1>9

Put(h, i, s) == [h EXCEPT ![i] = s]

Replaced(t, h, i, s, h2) ==
  /\ RecordsIn(t, h2) /\ Len(h2) = Len(h) /\ h2[i] = s
  /\ \A j \in 1 .. Len(h) : j # i => h2[j] = h[j]

(* Replacing a record moves none. *)
LEMMA ReplaceRecord ==
  ASSUME NEW t, NEW h, RecordsIn(t, h), NEW i \in 1 .. Len(h), NEW s \in Stat
  PROVE  Replaced(t, h, i, s, Put(h, i, s))
<1> DEFINE h2 == Put(h, i, s)
<1>t. h \in Seq(Stat)
  BY DEF RecordsIn
<1>1. /\ h2 \in Seq(Stat) /\ Len(h2) = Len(h) /\ h2[i] = s
      /\ \A j \in 1 .. Len(h) : j # i => h2[j] = h[j]
  <2>1. PICK T : T = Stat
    OBVIOUS
  <2>2. h \in Seq(T) /\ s \in T
    BY <1>t, <2>1
  <2>3. h2 \in Seq(T) /\ Len(h2) = Len(h) /\ h2[i] = s
        /\ \A j \in 1 .. Len(h) : j # i => h2[j] = h[j]
    BY <2>2 DEF Put
  <2> QED
    BY <2>1, <2>3
<1> QED
  BY <1>1 DEF RecordsIn, Replaced

CountAt(h, i, o, h2) == h2 = [h EXCEPT ![i].count[o] = @ + 1]
OneMore(f, k, o)     == [f EXCEPT ![k][o] = @ + 1]

(* An outcome counted at a place counts for the player whose entry leads there, if any. *)
LEMMA CountRecord ==
  ASSUME NEW t, NEW h, RecordsIn(t, h), NEW i \in 1 .. Len(h), NEW o \in Outcomes,
         NEW h2, CountAt(h, i, o, h2)
  PROVE  /\ RecordsIn(t, h2) /\ Len(h2) = Len(h)
         /\ (\A k \in Keys : t[k] # i) => CountsOf(t, h2) = CountsOf(t, h)
         /\ \A k \in Keys : t[k] = i => CountsOf(t, h2) = OneMore(CountsOf(t, h), k, o)
<1>t. /\ h \in Seq(Stat) /\ h[i] \in Stat /\ Absent \notin Nat /\ i \in Nat
      /\ h2 = [h EXCEPT ![i].count[o] = @ + 1]
  BY RefereeAssumption DEF RecordsIn, CountAt
<1>1. PICK s : s = [h[i] EXCEPT !.count[o] = @ + 1]
  OBVIOUS
<1>2. s \in Stat /\ s.count = [h[i].count EXCEPT ![o] = @ + 1]
  <2>1. PICK c \in [Outcomes -> Nat] : c = h[i].count
    BY <1>t DEF Stat
  <2>2. PICK c2 : c2 = [c EXCEPT ![o] = @ + 1]
    OBVIOUS
  <2>3. c2 \in [Outcomes -> Nat]
    BY <2>2
  <2>4. s = [h[i] EXCEPT !.count = c2]
    BY <1>1, <2>1, <2>2
  <2>5. s \in Stat /\ s.count = c2
    BY <1>t, <2>3, <2>4 DEF Stat
  <2> QED
    BY <2>1, <2>2, <2>5
<1>3. h2 = Put(h, i, s)
  BY <1>1, <1>t DEF Put
<1>4. /\ RecordsIn(t, h2) /\ Len(h2) = Len(h) /\ h2[i] = s
      /\ \A j \in 1 .. Len(h) : j # i => h2[j] = h[j]
  <2>1. Replaced(t, h, i, s, Put(h, i, s))
    BY <1>2, ReplaceRecord
  <2> QED
    BY <1>3, <2>1 DEF Replaced
<1>5. ASSUME NEW k \in Keys, t[k] # i
      PROVE  CountsOf(t, h2)[k] = CountsOf(t, h)[k]
  BY <1>4, <1>5, PlaceIn DEF CountsOf
<1>6. ASSUME NEW k \in Keys, t[k] = i
      PROVE  CountsOf(t, h2) = OneMore(CountsOf(t, h), k, o)
  <2>1. \A l \in Keys \ {k} : t[l] # i
    BY <1>6, <1>t DEF RecordsIn
  <2>2. CountsOf(t, h)[k] = h[i].count /\ CountsOf(t, h2)[k] = s.count
    BY <1>4, <1>6, <1>t DEF CountsOf
  <2>3. PICK f : f = CountsOf(t, h)
    OBVIOUS
  <2>4. PICK g : g = CountsOf(t, h2)
    OBVIOUS
  <2>5. DOMAIN f = Keys /\ DOMAIN g = Keys /\ f = [l \in Keys |-> f[l]] /\ g = [l \in Keys |-> g[l]]
    BY <2>3, <2>4 DEF CountsOf
  <2>6. g[k] = [f[k] EXCEPT ![o] = @ + 1] /\ \A l \in Keys \ {k} : g[l] = f[l]
    BY <1>2, <1>5, <2>1, <2>2, <2>3, <2>4
  <2>7. g = [f EXCEPT ![k][o] = @ + 1]
    BY <2>5, <2>6
  <2> QED
    BY <2>3, <2>4, <2>7 DEF OneMore
<1>7. ASSUME \A k \in Keys : t[k] # i
      PROVE  CountsOf(t, h2) = CountsOf(t, h)
  BY <1>5, <1>7 DEF CountsOf
<1> QED
  BY <1>4, <1>6, <1>7

RateAt(h, i, d, h2) == h2 = [h EXCEPT ![i].rating = Rated(@, d)]

(* The rating is not a count. *)
LEMMA RateRecord ==
  ASSUME NEW t, NEW h, RecordsIn(t, h), NEW i \in 1 .. Len(h), NEW d \in Int,
         NEW h2, RateAt(h, i, d, h2)
  PROVE  RecordsIn(t, h2) /\ Len(h2) = Len(h) /\ CountsOf(t, h2) = CountsOf(t, h)
<1>t. h \in Seq(Stat) /\ h[i] \in Stat /\ h2 = [h EXCEPT ![i].rating = Rated(@, d)]
  BY DEF RecordsIn, RateAt
<1>0. PICK r \in Nat : r = h[i].rating
  BY <1>t DEF Stat
<1>1. Rated(r, d) \in Nat
  <2>1. RatingModulus \in Nat \ {0}
    BY RefereeAssumption
  <2>2. (r + d) % RatingModulus \in Nat
    BY <2>1
  <2> QED
    BY <2>2 DEF Rated
<1>2. PICK s : s = [h[i] EXCEPT !.rating = Rated(@, d)]
  OBVIOUS
<1>3. s \in Stat /\ s.count = h[i].count
  BY <1>0, <1>1, <1>2, <1>t DEF Stat
<1>4. h2 = Put(h, i, s)
  BY <1>2, <1>t DEF Put
<1>5. /\ RecordsIn(t, h2) /\ Len(h2) = Len(h) /\ h2[i] = s
      /\ \A j \in 1 .. Len(h) : j # i => h2[j] = h[j]
  <2>1. Replaced(t, h, i, s, Put(h, i, s))
    BY <1>3, ReplaceRecord
  <2> QED
    BY <1>4, <2>1 DEF Replaced
<1>6. \A k \in Keys : t[k] # Absent => h2[t[k]].count = h[t[k]].count
  BY <1>3, <1>5, PlaceIn
<1> QED
  BY <1>5, <1>6 DEF CountsOf

Forgets(t, p, t2) == t2 = [k \in Keys |-> IF k[1] = p THEN Absent ELSE t[k]]
Cleared(f, p)     == [k \in Keys |-> IF k[1] = p THEN NoTally[k] ELSE f[k]]

(* A reset forgets the entries of one player. *)
LEMMA ResetRecords ==
  ASSUME NEW t, NEW h, RecordsIn(t, h), NEW p,
         NEW t2, Forgets(t, p, t2)
  PROVE  /\ RecordsIn(t2, h)
         /\ CountsOf(t2, h) = Cleared(CountsOf(t, h), p)
<1>1. t2 \in [Keys -> Places(Len(h))]
  BY DEF RecordsIn, Places, Forgets
<1>2. RecordsIn(t2, h)
  BY <1>1 DEF RecordsIn, Forgets
<1> QED
  BY <1>2 DEF CountsOf, Forgets, Cleared

SomeOrder(saved, n, order, t) ==
  /\ n = Cardinality(saved)
  /\ order = CHOOSE g \in [1 .. n -> saved] : \A k \in saved : \E i \in 1 .. n : g[i] = k
  /\ t = [k \in Keys |-> IF k \in saved THEN CHOOSE i \in 1 .. n : order[i] = k ELSE Absent]

PlacesOf(saved, n, order, t) ==
  /\ n \in Nat /\ order \in [1 .. n -> saved] /\ t \in [Keys -> Places(n)]
  /\ \A k \in saved : t[k] \in 1 .. n /\ order[t[k]] = k
  /\ \A k \in Keys \ saved : t[k] = Absent

InOrder(f, n, order, h) == h = [i \in 1 .. n |-> f[order[i]]]

Loaded(f, saved, t, h) ==
  /\ RecordsIn(t, h)
  /\ StatsOf(t, h) = [k \in Keys |-> IF k \in saved THEN f[k] ELSE Absent]
  /\ CountsOf(t, h) = [k \in Keys |-> IF k \in saved THEN f[k].count ELSE NoTally[k]]

(* The records of the file can be enumerated, and every one has a place in the order. *)
LEMMA Enumerated ==
  ASSUME NEW saved \in SUBSET Keys, NEW n, NEW order, NEW t, SomeOrder(saved, n, order, t)
  PROVE  PlacesOf(saved, n, order, t)
<1>0. /\ n = Cardinality(saved)
      /\ order = CHOOSE g \in [1 .. n -> saved] : \A k \in saved : \E i \in 1 .. n : g[i] = k
      /\ t = [k \in Keys |-> IF k \in saved THEN CHOOSE i \in 1 .. n : order[i] = k ELSE Absent]
  BY DEF SomeOrder
<1>1. IsFiniteSet(saved)
  <2>1. IsFiniteSet(Keys)
    BY FS_Product, RefereeAssumption DEF Keys
  <2> QED
    BY <2>1, FS_Subset
<1>2. n \in Nat /\ ExistsBijection(1 .. n, saved)
  BY <1>0, <1>1, FS_CardinalityType
<1>3. \E g \in [1 .. n -> saved] : \A k \in saved : \E i \in 1 .. n : g[i] = k
  BY <1>2 DEF ExistsBijection, Bijection, Injection, Surjection
<1>4. order \in [1 .. n -> saved] /\ \A k \in saved : \E i \in 1 .. n : order[i] = k
  <2> DEFINE P(g) == \A k \in saved : \E i \in 1 .. n : g[i] = k
  <2>1. order = CHOOSE g \in [1 .. n -> saved] : P(g)
    BY <1>0
  <2>2. \E g \in [1 .. n -> saved] : P(g)
    BY <1>3
  <2>3. order \in [1 .. n -> saved] /\ P(order)
    <3> HIDE DEF P
    <3> QED
      BY <2>1, <2>2
  <2> QED
    BY <2>3
<1>5. \A k \in saved : t[k] \in 1 .. n /\ order[t[k]] = k
  <2> SUFFICES ASSUME NEW k \in saved
               PROVE  t[k] \in 1 .. n /\ order[t[k]] = k
    OBVIOUS
  <2>1. t[k] = CHOOSE i \in 1 .. n : order[i] = k
    BY <1>0
  <2>2. \E i \in 1 .. n : order[i] = k
    BY <1>4
  <2> QED
    BY <2>1, <2>2
<1>6. \A k \in Keys \ saved : t[k] = Absent
  BY <1>0
<1>7. t \in [Keys -> Places(n)]
  <2>1. \A k \in Keys : (IF k \in saved THEN CHOOSE i \in 1 .. n : order[i] = k ELSE Absent) \in Places(n)
    BY <1>0, <1>5, <1>6 DEF Places
  <2> QED
    BY <1>0, <2>1
<1> QED
  BY <1>2, <1>4, <1>5, <1>6, <1>7 DEF PlacesOf

(* So whatever the order, each record gets a place of its own. *)
LEMMA LoadRecords ==
  ASSUME NEW f, NEW saved \in SUBSET Keys, \A k \in saved : f[k] \in Stat,
         NEW n, NEW order, NEW t, PlacesOf(saved, n, order, t), NEW h, InOrder(f, n, order, h)
  PROVE  Loaded(f, saved, t, h)
<1> USE DEF PlacesOf, InOrder
<1>1. h \in Seq(Stat) /\ Len(h) = n /\ \A i \in 1 .. n : h[i] = f[order[i]]
  <2>1. \A i \in 1 .. n : f[order[i]] \in Stat
    OBVIOUS
  <2>2. PICK T : T = Stat
    OBVIOUS
  <2>3. h \in [1 .. n -> T]
    BY <2>1, <2>2
  <2>4. h \in Seq(T) /\ Len(h) = n
    BY <2>3
  <2> QED
    BY <2>2, <2>4
<1>2. \A k \in saved : t[k] # Absent /\ h[t[k]] = f[k]
  <2>1. Absent \notin Nat
    BY RefereeAssumption
  <2> SUFFICES ASSUME NEW k \in saved
               PROVE  t[k] # Absent /\ h[t[k]] = f[k]
    OBVIOUS
  <2>2. PICK i \in 1 .. n : i = t[k]
    OBVIOUS
  <2>3. i \in Nat /\ order[i] = k /\ h[i] = f[order[i]]
    BY <1>1, <2>2
  <2> QED
    BY <2>1, <2>2, <2>3
<1>3. RecordsIn(t, h)
  <2>1. \A k, l \in Keys : t[k] # Absent /\ t[k] = t[l] => k = l
    <3> SUFFICES ASSUME NEW k \in Keys, NEW l \in Keys, t[k] # Absent, t[k] = t[l]
                 PROVE  k = l
      OBVIOUS
    <3>1. k \in saved /\ l \in saved
      OBVIOUS
    <3> QED
      BY <3>1
  <2> QED
    BY <1>1, <2>1 DEF RecordsIn
<1>4. \A k \in Keys : StatsOf(t, h)[k] = IF k \in saved THEN f[k] ELSE Absent
  BY <1>2 DEF StatsOf
<1>5. \A k \in Keys : CountsOf(t, h)[k] = IF k \in saved THEN f[k].count ELSE NoTally[k]
  BY <1>2 DEF CountsOf
<1> HIDE DEF PlacesOf, InOrder
<1>6. StatsOf(t, h) = [k \in Keys |-> IF k \in saved THEN f[k] ELSE Absent]
  BY <1>4 DEF StatsOf
<1>7. CountsOf(t, h) = [k \in Keys |-> IF k \in saved THEN f[k].count ELSE NoTally[k]]
  BY <1>5 DEF CountsOf
<1> QED
  BY <1>3, <1>6, <1>7 DEF Loaded

-----------------------------------------------------------------------------
(* The handlers of the referee *)

RoundRequest(n) == [cat : RoundCategories, report : Seq(Result), ref : Places(n)]

\* What a handler is about; where its pointer leads, and that a reset player's leads nowhere.
RoundOK(w) ==
  /\ pc[w] = "results" =>
       req[w] \in RoundRequest(Len(heap)) \/ req[w] \in [report : {<<>>}]
  /\ pc[w] \in {"count", "rating"} =>
       /\ req[w] \in RoundRequest(Len(heap)) /\ req[w].report # <<>>
       /\ req[w].ref \in 1 .. Len(heap)
  /\ pc[w] = "marshal" =>
       req[w] \in [refs : [Keys -> Places(Len(heap))]] /\ snap[w] \in StatTables
  /\ w \in stale => pc[w] = "count"
  /\ pc[w] = "count" =>
       IF w \in stale THEN \A k \in Keys : table[k] # req[w].ref ELSE table[Key(w)] = req[w].ref

LockOK == mu # Absent => mu \in Handlers /\ pc[mu] = "rating"

Playing == {"results", "count", "rating"}

\* A handler that has yet to write follows every change.
ChangeSeen == modifie => \E w \in Handlers : pc[w] \in Playing

QuietStats == up /\ ~overlapped /\ ~modifie /\ mu = Absent

\* While the flag is down and the lock free, the records are what the only writer has
\* copied and will copy, or what the file holds.
SavedAs(s) ==
  /\ \A w \in Handlers : pc[w] = "marshal" =>
       \A k \in Keys : \/ req[w].refs[k] # Absent /\ req[w].refs[k] = table[k]
                       \/ req[w].refs[k] = Absent /\ snap[w][k] = s[k]
  /\ \A w \in Handlers : pc[w] \in {"open", "fill", "rename"} => snap[w] = s
  /\ (\A w \in Handlers : pc[w] \notin Busy) /\ ~failed => Holds(s, NoStats)

StatsSaved == QuietStats => SavedAs(StatsOf(table, heap))

RefereeOK ==
  /\ RecordsIn(table, heap) /\ manches \in Seq(RoundCategories)
  /\ tally = CountsOf(table, heap)
  /\ \A w \in Handlers : RoundOK(w)
  /\ LockOK /\ ChangeSeen /\ StatsSaved

(* What another handler is about stays so while records are added. *)
LEMMA OtherKept ==
  ASSUME NEW v \in Handlers, RoundOK(v), RecordsIn(table, heap), RecordsIn(table, heap)',
         pc'[v] = pc[v], req'[v] = req[v], snap'[v] = snap[v], v \in stale' <=> v \in stale,
         Len(heap) <= Len(heap'),
         \A k \in Keys : table'[k] = table[k] \/ (table[k] = Absent /\ table'[k] = Len(heap) + 1)
  PROVE  RoundOK(v)'
<1>1. PICK n \in Nat : n = Len(heap)
  BY DEF RecordsIn
<1>2. PICK m \in Nat : m = Len(heap')
  BY DEF RecordsIn
<1>3. Places(n) \subseteq Places(m) /\ 1 .. n \subseteq 1 .. m
  BY <1>1, <1>2 DEF Places
<1>4. /\ req[v] \in RoundRequest(n) => req[v] \in RoundRequest(m)
      /\ req[v] \in [refs : [Keys -> Places(n)]] => req[v] \in [refs : [Keys -> Places(m)]]
  BY <1>3 DEF RoundRequest
<1>5. Key(v)' = Key(v)
  BY DEF Key
<1>6. /\ pc[v] = "results" => req[v] \in RoundRequest(n) \/ req[v] \in [report : {<<>>}]
      /\ pc[v] \in {"count", "rating"} =>
           req[v] \in RoundRequest(n) /\ req[v].report # <<>> /\ req[v].ref \in 1 .. n
      /\ pc[v] = "marshal" => req[v] \in [refs : [Keys -> Places(n)]] /\ snap[v] \in StatTables
  BY <1>1 DEF RoundOK
<1>7. ASSUME pc[v] = "count"
      PROVE  IF v \in stale THEN \A k \in Keys : table'[k] # req[v].ref
                            ELSE table'[Key(v)] = req[v].ref
  <2>1. req[v].ref \in 1 .. n /\ Absent \notin Nat
    BY <1>6, <1>7, RefereeAssumption
  <2>2. Key(v) \in Keys
    <3>1. req[v] \in RoundRequest(n) /\ req[v].report # <<>>
      BY <1>6, <1>7
    <3>2. PICK S : S = Result
      OBVIOUS
    <3>3. req[v].report \in Seq(S) /\ req[v].report # <<>> /\ req[v].cat \in RoundCategories
      BY <3>1, <3>2 DEF RoundRequest
    <3>4. Head(req[v].report) \in S
      BY <3>3
    <3> QED
      BY <3>2, <3>3, <3>4 DEF Key, Keys, Result
  <2>3. CASE v \in stale
    BY <1>1, <1>7, <2>1, <2>3 DEF RoundOK
  <2>4. CASE v \notin stale
    BY <1>1, <1>7, <2>1, <2>2, <2>4 DEF RoundOK
  <2> QED
    BY <2>3, <2>4
<1>8. v \in stale => pc[v] = "count"
  BY DEF RoundOK
<1>9. StatTables' = StatTables
  BY DEF StatTables
<1> QED
  BY <1>2, <1>3, <1>4, <1>5, <1>6, <1>7, <1>8, <1>9 DEF RoundOK

(* A step of a handler that does not write: what is saved stays saved, or the flag or the *)
(* lock tells that it is not.                                                             *)
LEMMA PlayingStep ==
  ASSUME Common, RefereeOK, store = "referee", store' = store, NEW w \in Handlers, up,
         UNCHANGED <<up, fd, tmp, file, overlapped, failed>>,
         pc[w] \in Playing \cup {"idle"}, pc'[w] \in Playing \cup {"idle"},
         pc' \in [Handlers -> Steps], DOMAIN req' = Handlers, DOMAIN snap' = Handlers,
         \A v \in Handlers \ {w} : pc'[v] = pc[v] /\ req'[v] = req[v] /\ snap'[v] = snap[v],
         RecordsIn(table, heap)', tally' = CountsOf(table', heap'), manches' = manches,
         \A v \in Handlers : RoundOK(v)',
         modifie' => pc'[w] \in Playing,
         \/ mu' = Absent
         \/ mu' = w /\ pc'[w] = "rating"
         \/ mu' = mu /\ pc[w] # "rating",
         ~modifie' /\ mu' = Absent => ~modifie /\ mu = Absent /\ table' = table /\ heap' = heap
  PROVE  Common' /\ RefereeOK'
<1>1. Common'
  BY HandlerStep DEF Playing, Busy
<1>2. LockOK'
  BY DEF RefereeOK, LockOK
<1>3. ChangeSeen'
  BY DEF ChangeSeen
<1>4. StatsSaved'
  <2> SUFFICES ASSUME QuietStats'
               PROVE  SavedAs(StatsOf(table, heap))'
    BY DEF StatsSaved
  <2>1. QuietStats /\ table' = table /\ heap' = heap
    BY DEF QuietStats
  <2>2. PICK s : s = StatsOf(table, heap)
    OBVIOUS
  <2>3. SavedAs(s)
    BY <2>1, <2>2 DEF RefereeOK, StatsSaved
  <2>4. \A v \in Handlers : /\ pc'[v] \in Busy <=> pc[v] \in Busy
                            /\ pc'[v] \in Busy => pc'[v] = pc[v] /\ req'[v] = req[v] /\ snap'[v] = snap[v]
    BY DEF Playing, Busy
  <2>6. Holds(s, NoStats)' <=> Holds(s, NoStats)
    BY DEF Holds, Unreadable, NoStats
  <2>7. \A v \in Handlers : pc'[v] = "marshal" =>
          \A k \in Keys : \/ req'[v].refs[k] # Absent /\ req'[v].refs[k] = table'[k]
                          \/ req'[v].refs[k] = Absent /\ snap'[v][k] = s[k]
    BY <2>1, <2>3, <2>4 DEF Busy, SavedAs
  <2>8. \A v \in Handlers : pc'[v] \in {"open", "fill", "rename"} => snap'[v] = s
    BY <2>3, <2>4 DEF Busy, SavedAs
  <2>9. (\A v \in Handlers : pc'[v] \notin Busy) /\ ~failed' => Holds(s, NoStats)'
    BY <2>3, <2>4, <2>6 DEF SavedAs
  <2>10. SavedAs(s)'
    BY <2>7, <2>8, <2>9 DEF SavedAs
  <2>11. s = StatsOf(table, heap)'
    BY <2>1, <2>2 DEF StatsOf
  <2> QED
    BY <2>10, <2>11
<1> QED
  BY <1>1, <1>2, <1>3, <1>4 DEF RefereeOK

(* The facts about a handler that is in the middle of a report. *)
LEMMA InReport ==
  ASSUME RefereeOK, NEW w \in Handlers, pc[w] \in Playing, req[w].report # <<>>
  PROVE  /\ req[w] \in RoundRequest(Len(heap))
         /\ Head(req[w].report) \in Result /\ Tail(req[w].report) \in Seq(Result)
         /\ Key(w) \in Keys /\ Key(w)[1] = Head(req[w].report).pid
<1>1. req[w] \in RoundRequest(Len(heap))
  BY DEF RefereeOK, RoundOK, Playing
<1>2. PICK S : S = Result
  OBVIOUS
<1>3. req[w].report \in Seq(S) /\ req[w].cat \in RoundCategories
  BY <1>1, <1>2 DEF RoundRequest
<1>4. Head(req[w].report) \in S /\ Tail(req[w].report) \in Seq(S)
  BY <1>3
<1>5. Key(w) \in Keys /\ Key(w)[1] = Head(req[w].report).pid
  BY <1>2, <1>3, <1>4 DEF Key, Keys, Result
<1> QED
  BY <1>1, <1>2, <1>4, <1>5

(* obtenirOuCreer: a record is added or nothing changes. *)
LEMMA Obtained ==
  ASSUME RefereeOK, NEW k \in Keys, NEW rating \in Nat, obtenirOuCreer(k, rating), tally' = tally
  PROVE  /\ RecordsIn(table, heap)' /\ tally' = CountsOf(table', heap') /\ Len(heap) <= Len(heap')
         /\ \A l \in Keys : table'[l] = table[l] \/ (table[l] = Absent /\ table'[l] = Len(heap) + 1)
         /\ table'[k] = IF table[k] = Absent THEN Len(heap) + 1 ELSE table[k]
         /\ table'[k] \in 1 .. Len(heap')
         /\ ~modifie' => ~modifie /\ table' = table /\ heap' = heap
<1>t. RecordsIn(table, heap) /\ tally = CountsOf(table, heap) /\ Len(heap) \in Nat
  BY DEF RefereeOK, RecordsIn
<1>1. CASE table[k] # Absent
  <2>1. table' = table /\ heap' = heap /\ modifie' = modifie
    BY <1>1 DEF obtenirOuCreer
  <2>2. table[k] \in 1 .. Len(heap)
    BY <1>1, <1>t, PlaceIn
  <2> QED
    BY <1>1, <1>t, <2>1, <2>2
<1>2. CASE table[k] = Absent
  <2>1. heap' = Append(heap, NewStats(rating)) /\ table' = [table EXCEPT ![k] = Len(heap) + 1] /\ modifie'
    BY <1>2 DEF obtenirOuCreer
  <2>2. PICK t2 : t2 = table'
    OBVIOUS
  <2>3. PICK h2 : h2 = heap'
    OBVIOUS
  <2>4. /\ RecordsIn(t2, h2) /\ CountsOf(t2, h2) = CountsOf(table, heap)
        /\ Len(h2) = Len(heap) + 1 /\ t2[k] = Len(heap) + 1
        /\ \A l \in Keys \ {k} : t2[l] = table[l]
    <3>1. Alloc(table, heap, k, rating, t2, h2)
      BY <2>1, <2>2, <2>3 DEF Alloc
    <3> QED
      BY <1>2, <1>t, <3>1, AllocRecord
  <2>5. RecordsIn(table, heap)' /\ tally' = CountsOf(table', heap')
    BY <1>t, <2>2, <2>3, <2>4
  <2>6. Len(heap') = Len(heap) + 1 /\ table'[k] = Len(heap) + 1 /\ \A l \in Keys \ {k} : table'[l] = table[l]
    BY <2>2, <2>3, <2>4
  <2>7. Len(heap) <= Len(heap') /\ table'[k] \in 1 .. Len(heap')
    BY <1>t, <2>6
  <2> QED
    BY <1>2, <2>1, <2>5, <2>6, <2>7
<1> QED
  BY <1>1, <1>2

(* EndRound, CreateStats and what they have in common: a request arrives. *)
LEMMA RefereeBegins ==
  ASSUME Common, RefereeOK, store = "referee", store' = store, NEW w \in Handlers, NEW r,
         Begin(w, "results", r), r \in RoundRequest(Len(heap)) \/ r \in [report : {<<>>}],
         UNCHANGED <<up, snap, osVars, overlapped, faultVars, mu, manches, stale>>,
         RecordsIn(table, heap)', tally' = CountsOf(table', heap'), Len(heap) <= Len(heap'),
         \A k \in Keys : table'[k] = table[k] \/ (table[k] = Absent /\ table'[k] = Len(heap) + 1),
         ~modifie' => ~modifie /\ table' = table /\ heap' = heap
  PROVE  Common' /\ RefereeOK'
<1>t. /\ pc \in [Handlers -> Steps] /\ DOMAIN req = Handlers /\ DOMAIN snap = Handlers
      /\ {"idle", "results"} \subseteq Steps
  BY DEF Common, Types, Steps
<1>1. /\ up /\ pc[w] = "idle" /\ pc' = [pc EXCEPT ![w] = "results"] /\ req' = [req EXCEPT ![w] = r]
      /\ UNCHANGED <<up, fd, tmp, file, overlapped, failed>>
  BY DEF Begin, Goto, osVars, faultVars
<1>2. /\ pc' \in [Handlers -> Steps] /\ DOMAIN req' = Handlers /\ DOMAIN snap' = Handlers
      /\ pc'[w] = "results" /\ req'[w] = r
      /\ \A v \in Handlers \ {w} : pc'[v] = pc[v] /\ req'[v] = req[v] /\ snap'[v] = snap[v]
  BY <1>1, <1>t
<1>3. RoundOK(w)'
  <2>1. w \notin stale'
    BY <1>1 DEF RefereeOK, RoundOK
  <2>2. PICK n \in Nat : n = Len(heap)
    BY DEF RefereeOK, RecordsIn
  <2>3. PICK m \in Nat : m = Len(heap')
    BY DEF RecordsIn
  <2>4. Places(n) \subseteq Places(m)
    BY <2>2, <2>3 DEF Places
  <2>5. r \in RoundRequest(n) => r \in RoundRequest(m)
    BY <2>4 DEF RoundRequest
  <2> QED
    BY <1>2, <2>1, <2>2, <2>3, <2>5 DEF RoundOK
<1>4. \A v \in Handlers : RoundOK(v)'
  <2>1. RecordsIn(table, heap) /\ \A v \in Handlers : RoundOK(v)
    BY DEF RefereeOK
  <2>2. ASSUME NEW v \in Handlers \ {w}
        PROVE  RoundOK(v)'
    BY <1>2, <2>1, OtherKept
  <2> QED
    BY <1>3, <2>2
<1>5. /\ pc[w] \in Playing \cup {"idle"} /\ pc'[w] \in Playing \cup {"idle"} /\ pc'[w] \in Playing
      /\ pc[w] # "rating"
  BY <1>1, <1>2 DEF Playing
<1>6. UNCHANGED <<up, fd, tmp, file, overlapped, failed>> /\ up /\ mu' = mu /\ manches' = manches
  BY <1>1
<1> QED
  BY <1>2, <1>4, <1>5, <1>6, PlayingStep

(* A report is a request with its category, found or 0. *)
LEMMA RefereeEndRound ==
  ASSUME Common, RefereeOK, store = "referee", store' = store, NEW w \in Handlers,
         NEW round, NEW report \in Reports, EndRound(w, round, report)
  PROVE  Common' /\ RefereeOK'
<1>1. PICK c : c = refereeCategorie(round)
  OBVIOUS
<1>2. c \in RoundCategories
  <2>1. manches \in Seq(RoundCategories) /\ 0 \in RoundCategories
    BY RefereeAssumption DEF RefereeOK
  <2> QED
    BY <1>1, <2>1 DEF refereeCategorie
<1>3. PICK r : r = [cat |-> c, report |-> report, ref |-> Absent]
  OBVIOUS
<1>4. r \in RoundRequest(Len(heap))
  BY <1>2, <1>3, RefereeAssumption DEF RoundRequest, Places
<1>5. Begin(w, "results", r)
  BY <1>1, <1>3 DEF EndRound
<1>6. /\ UNCHANGED <<up, snap, osVars, overlapped, faultVars, mu, manches, stale>>
      /\ UNCHANGED <<table, modifie, heap, tally>>
  BY DEF EndRound, refereeVars
<1>7. RecordsIn(table, heap)' /\ tally' = CountsOf(table', heap') /\ Len(heap) <= Len(heap')
  BY <1>6 DEF RefereeOK, RecordsIn
<1> QED
  BY <1>4, <1>5, <1>6, <1>7, RefereeBegins

(* CreateStats and GetOrCreateStats add a record if there is none. *)
LEMMA RefereeCreates ==
  ASSUME Common, RefereeOK, store = "referee", store' = store, NEW w \in Handlers, NEW p \in Players,
         NEW cat \in RoundCategories, NEW rating \in InitialRatings, CreateStats(w, p, cat, rating)
  PROVE  Common' /\ RefereeOK'
<1>1. PICK k \in Keys : k = <<p, cat>>
  BY DEF Keys
<1>2. /\ Begin(w, "results", [report |-> <<>>]) /\ obtenirOuCreer(k, rating)
      /\ UNCHANGED <<up, snap, osVars, overlapped, faultVars, mu, manches, stale>> /\ tally' = tally
  BY <1>1 DEF CreateStats
<1>3. rating \in Nat
  BY RefereeAssumption
<1>4. /\ RecordsIn(table, heap)' /\ tally' = CountsOf(table', heap') /\ Len(heap) <= Len(heap')
      /\ \A l \in Keys : table'[l] = table[l] \/ (table[l] = Absent /\ table'[l] = Len(heap) + 1)
      /\ ~modifie' => ~modifie /\ table' = table /\ heap' = heap
  BY <1>2, <1>3, Obtained
<1>5. [report |-> <<>>] \in [report : {<<>>}]
  OBVIOUS
<1> QED
  BY <1>2, <1>4, <1>5, RefereeBegins

(* TakeRecord: the pointer leads to the player's record. *)
LEMMA RefereeTakes ==
  ASSUME Common, RefereeOK, store = "referee", store' = store, NEW w \in Handlers, TakeRecord(w)
  PROVE  Common' /\ RefereeOK'
<1>t. /\ pc \in [Handlers -> Steps] /\ DOMAIN req = Handlers /\ DOMAIN snap = Handlers
      /\ {"idle", "results", "count"} \subseteq Steps
  BY DEF Common, Types, Steps
<1>1. /\ pc[w] = "results" /\ req[w].report # <<>> /\ obtenirOuCreer(Key(w), 0)
      /\ pc' = [pc EXCEPT ![w] = "count"]
      /\ req' = [req EXCEPT ![w].ref = IF table[Key(w)] = Absent THEN Len(heap) + 1 ELSE table[Key(w)]]
      /\ UNCHANGED <<up, fd, tmp, file, overlapped, failed, snap, mu, manches, stale, tally>>
  BY DEF TakeRecord, Goto, osVars, faultVars
<1>2. PICK k \in Keys : k = Key(w)
  BY <1>1, InReport DEF Playing
<1>3. /\ RecordsIn(table, heap)' /\ tally' = CountsOf(table', heap') /\ Len(heap) <= Len(heap')
      /\ \A l \in Keys : table'[l] = table[l] \/ (table[l] = Absent /\ table'[l] = Len(heap) + 1)
      /\ table'[k] = IF table[k] = Absent THEN Len(heap) + 1 ELSE table[k]
      /\ table'[k] \in 1 .. Len(heap')
      /\ ~modifie' => ~modifie /\ table' = table /\ heap' = heap
  BY <1>1, <1>2, Obtained
<1>4. /\ pc' \in [Handlers -> Steps] /\ DOMAIN req' = Handlers /\ DOMAIN snap' = Handlers
      /\ pc'[w] = "count" /\ req'[w] = [req[w] EXCEPT !.ref = table'[k]]
      /\ \A v \in Handlers \ {w} : pc'[v] = pc[v] /\ req'[v] = req[v] /\ snap'[v] = snap[v]
  BY <1>1, <1>2, <1>3, <1>t
<1>5. RoundOK(w)'
  <2>1. w \notin stale'
    BY <1>1 DEF RefereeOK, RoundOK
  <2>2. PICK m \in Nat : m = Len(heap')
    BY <1>3 DEF RecordsIn
  <2>3. PICK i \in 1 .. m : i = table'[k]
    BY <1>3, <2>2
  <2>4. req[w] \in RoundRequest(Len(heap))
    BY <1>1, InReport DEF Playing
  <2>5. PICK r : r = [req[w] EXCEPT !.ref = i]
    OBVIOUS
  <2>6. i \in Places(m)
    BY DEF Places
  <2>7. r \in RoundRequest(m) /\ r.report = req[w].report /\ r.cat = req[w].cat /\ r.ref = i
    BY <2>4, <2>5, <2>6 DEF RoundRequest
  <2>8. req'[w] = r
    BY <1>4, <2>3, <2>5
  <2>9. Key(w)' = k
    BY <1>2, <2>7, <2>8 DEF Key
  <2> QED
    BY <1>1, <1>4, <2>1, <2>2, <2>3, <2>7, <2>8, <2>9 DEF RoundOK
<1>6. \A v \in Handlers : RoundOK(v)'
  <2>1. RecordsIn(table, heap) /\ \A v \in Handlers : RoundOK(v)
    BY DEF RefereeOK
  <2>2. ASSUME NEW v \in Handlers \ {w}
        PROVE  RoundOK(v)'
    <3>1. v \in stale' <=> v \in stale
      BY <1>1
    <3> QED
      BY <1>3, <1>4, <2>1, <3>1, OtherKept
  <2> QED
    BY <1>5, <2>2
<1>7. /\ pc[w] \in Playing \cup {"idle"} /\ pc'[w] \in Playing \cup {"idle"} /\ pc'[w] \in Playing
      /\ pc[w] # "rating" /\ up
  BY <1>1, <1>4 DEF Playing, Common, Stopped
<1>8. UNCHANGED <<up, fd, tmp, file, overlapped, failed>> /\ mu' = mu /\ manches' = manches
  BY <1>1
<1> QED
  BY <1>3, <1>4, <1>6, <1>7, <1>8, PlayingStep

(* CountResult: the outcome counts where the pointer leads. *)
LEMMA RefereeCounts ==
  ASSUME Common, RefereeOK, store = "referee", store' = store, NEW w \in Handlers, CountResult(w)
  PROVE  Common' /\ RefereeOK'
<1>t. /\ pc \in [Handlers -> Steps] /\ DOMAIN req = Handlers /\ DOMAIN snap = Handlers
      /\ {"idle", "rating", "count"} \subseteq Steps
  BY DEF Common, Types, Steps
<1>1. PICK r : r = Head(req[w].report)
  OBVIOUS
<1>2. /\ pc[w] = "count" /\ mu' = w /\ pc' = [pc EXCEPT ![w] = "rating"]
      /\ IF r.winLoss \in Outcomes THEN CountAt(heap, req[w].ref, r.winLoss, heap') ELSE heap' = heap
      /\ stale' = stale \ {w}
      /\ IF r.winLoss \in Outcomes /\ w \notin stale
         THEN tally' = [tally EXCEPT ![Key(w)][r.winLoss] = @ + 1] ELSE tally' = tally
      /\ UNCHANGED <<up, fd, tmp, file, overlapped, failed, table, modifie, req, snap, manches>>
  BY <1>1 DEF CountResult, Counted, Goto, osVars, faultVars, CountAt
<1>3. /\ RecordsIn(table, heap) /\ tally = CountsOf(table, heap)
      /\ req[w] \in RoundRequest(Len(heap)) /\ req[w].report # <<>> /\ req[w].ref \in 1 .. Len(heap)
      /\ IF w \in stale THEN \A k \in Keys : table[k] # req[w].ref ELSE table[Key(w)] = req[w].ref
  BY <1>2 DEF RefereeOK, RoundOK
<1>4. Key(w) \in Keys
  BY <1>2, <1>3, InReport DEF Playing
<1>5. RecordsIn(table, heap') /\ Len(heap') = Len(heap) /\ tally' = CountsOf(table, heap')
  <2>1. CASE r.winLoss \notin Outcomes
    BY <1>2, <1>3, <2>1
  <2>2. CASE r.winLoss \in Outcomes
    <3>1. PICK i \in 1 .. Len(heap) : i = req[w].ref
      BY <1>3
    <3>2. PICK o \in Outcomes : o = r.winLoss
      BY <2>2
    <3>3. PICK k \in Keys : k = Key(w)
      BY <1>4
    <3>4. PICK h2 : h2 = heap'
      OBVIOUS
    <3>5. CountAt(heap, i, o, h2)
      BY <1>2, <2>2, <3>1, <3>2, <3>4
    <3>6. /\ RecordsIn(table, h2) /\ Len(h2) = Len(heap)
          /\ (\A l \in Keys : table[l] # i) => CountsOf(table, h2) = CountsOf(table, heap)
          /\ \A l \in Keys : table[l] = i => CountsOf(table, h2) = OneMore(CountsOf(table, heap), l, o)
      BY <1>3, <3>5, CountRecord
    <3>7. CASE w \in stale
      <4>1. \A l \in Keys : table[l] # i
        BY <1>3, <3>1, <3>7
      <4>2. tally' = tally
        BY <1>2, <3>7
      <4> QED
        BY <1>3, <3>4, <3>6, <4>1, <4>2
    <3>8. CASE w \notin stale
      <4>1. table[k] = i
        BY <1>3, <3>1, <3>3, <3>8
      <4>2. CountsOf(table, h2) = OneMore(CountsOf(table, heap), k, o)
        BY <3>6, <4>1
      <4>3. tally' = [tally EXCEPT ![k][o] = @ + 1]
        BY <1>2, <2>2, <3>2, <3>3, <3>8
      <4>4. tally' = CountsOf(table, h2)
        BY <1>3, <4>2, <4>3 DEF OneMore
      <4> QED
        BY <3>4, <3>6, <4>4
    <3> QED
      BY <3>7, <3>8
  <2> QED
    BY <2>1, <2>2
<1>6. RecordsIn(table, heap)' /\ tally' = CountsOf(table', heap')
  BY <1>2, <1>5
<1>7. /\ pc' \in [Handlers -> Steps] /\ DOMAIN req' = Handlers /\ DOMAIN snap' = Handlers
      /\ pc'[w] = "rating" /\ req' = req
      /\ \A v \in Handlers \ {w} : pc'[v] = pc[v] /\ req'[v] = req[v] /\ snap'[v] = snap[v]
  BY <1>2, <1>t
<1>8. RoundOK(w)'
  <2>1. w \notin stale'
    BY <1>2
  <2> QED
    BY <1>3, <1>5, <1>7, <2>1 DEF RoundOK
<1>9. \A v \in Handlers : RoundOK(v)'
  <2>1. \A v \in Handlers : RoundOK(v)
    BY DEF RefereeOK
  <2>2. Len(heap) <= Len(heap') /\ \A k \in Keys : table'[k] = table[k]
    BY <1>2, <1>3, <1>5 DEF RecordsIn
  <2>3. ASSUME NEW v \in Handlers \ {w}
        PROVE  RoundOK(v)'
    <3>1. v \in stale' <=> v \in stale
      BY <1>2
    <3> QED
      BY <1>3, <1>6, <1>7, <2>1, <2>2, <3>1, OtherKept
  <2> QED
    BY <1>8, <2>3
<1>10. /\ pc[w] \in Playing \cup {"idle"} /\ pc'[w] \in Playing \cup {"idle"} /\ pc'[w] \in Playing
       /\ up /\ mu' = w /\ w # Absent
  BY <1>2, <1>7, WriteThroughAssumption DEF Playing, Common, Stopped
<1>11. UNCHANGED <<up, fd, tmp, file, overlapped, failed>> /\ manches' = manches
  BY <1>2
<1> QED
  BY <1>6, <1>7, <1>9, <1>10, <1>11, PlayingStep

(* RateResult: raises the flag and releases the lock. *)
LEMMA RefereeRates ==
  ASSUME Common, RefereeOK, store = "referee", store' = store, NEW w \in Handlers, RateResult(w)
  PROVE  Common' /\ RefereeOK'
<1>t. /\ pc \in [Handlers -> Steps] /\ DOMAIN req = Handlers /\ DOMAIN snap = Handlers
      /\ {"idle", "rating", "results"} \subseteq Steps
  BY DEF Common, Types, Steps
<1>1. /\ pc[w] = "rating" /\ mu' = Absent /\ modifie' /\ pc' = [pc EXCEPT ![w] = "results"]
      /\ RateAt(heap, req[w].ref, Head(req[w].report).delta, heap')
      /\ req' = [req EXCEPT ![w].report = Tail(@), ![w].ref = Absent]
      /\ UNCHANGED <<up, fd, tmp, file, overlapped, failed, table, snap, manches, stale, tally>>
  BY DEF RateResult, Goto, osVars, faultVars, RateAt
<1>2. /\ RecordsIn(table, heap) /\ tally = CountsOf(table, heap)
      /\ req[w] \in RoundRequest(Len(heap)) /\ req[w].report # <<>> /\ req[w].ref \in 1 .. Len(heap)
  BY <1>1 DEF RefereeOK, RoundOK
<1>3. Head(req[w].report) \in Result /\ Tail(req[w].report) \in Seq(Result)
  BY <1>1, <1>2, InReport DEF Playing
<1>4. RecordsIn(table, heap') /\ Len(heap') = Len(heap) /\ CountsOf(table, heap') = CountsOf(table, heap)
  <2>1. PICK i \in 1 .. Len(heap) : i = req[w].ref
    BY <1>2
  <2>2. PICK d \in Int : d = Head(req[w].report).delta
    BY <1>3 DEF Result
  <2>3. PICK h2 : h2 = heap'
    OBVIOUS
  <2>4. RateAt(heap, i, d, h2)
    BY <1>1, <2>1, <2>2, <2>3
  <2>5. RecordsIn(table, h2) /\ Len(h2) = Len(heap) /\ CountsOf(table, h2) = CountsOf(table, heap)
    BY <1>2, <2>4, RateRecord
  <2> QED
    BY <2>3, <2>5
<1>5. RecordsIn(table, heap)' /\ tally' = CountsOf(table', heap')
  BY <1>1, <1>2, <1>4
<1>6. PICK r : r = [req[w] EXCEPT !.report = Tail(@), !.ref = Absent]
  OBVIOUS
<1>7. r \in RoundRequest(Len(heap))
  BY <1>2, <1>3, <1>6 DEF RoundRequest, Places
<1>8. /\ pc' \in [Handlers -> Steps] /\ DOMAIN req' = Handlers /\ DOMAIN snap' = Handlers
      /\ pc'[w] = "results" /\ req'[w] = r
      /\ \A v \in Handlers \ {w} : pc'[v] = pc[v] /\ req'[v] = req[v] /\ snap'[v] = snap[v]
  BY <1>1, <1>6, <1>t
<1>9. RoundOK(w)'
  <2>1. w \notin stale'
    BY <1>1 DEF RefereeOK, RoundOK
  <2> QED
    BY <1>4, <1>7, <1>8, <2>1 DEF RoundOK
<1>10. \A v \in Handlers : RoundOK(v)'
  <2>1. \A v \in Handlers : RoundOK(v)
    BY DEF RefereeOK
  <2>2. Len(heap) <= Len(heap') /\ (\A k \in Keys : table'[k] = table[k]) /\ stale' = stale
    BY <1>1, <1>2, <1>4 DEF RecordsIn
  <2>3. ASSUME NEW v \in Handlers \ {w}
        PROVE  RoundOK(v)'
    BY <1>2, <1>5, <1>8, <2>1, <2>2, OtherKept
  <2> QED
    BY <1>9, <2>3
<1>11. /\ pc[w] \in Playing \cup {"idle"} /\ pc'[w] \in Playing \cup {"idle"} /\ pc'[w] \in Playing
       /\ up /\ mu' = Absent /\ modifie'
  BY <1>1, <1>8 DEF Playing, Common, Stopped
<1>12. UNCHANGED <<up, fd, tmp, file, overlapped, failed>> /\ manches' = manches
  BY <1>1
<1> QED
  BY <1>5, <1>8, <1>10, <1>11, <1>12, PlayingStep

(* ResetStats: a handler whose pointer led to one of the removed records is stale, and no *)
(* entry leads where its pointer does.                                                    *)
LEMMA RefereeResets ==
  ASSUME Common, RefereeOK, store = "referee", store' = store, NEW w \in Handlers, NEW p \in Players,
         ResetStats(w, p)
  PROVE  Common' /\ RefereeOK'
<1>t. /\ pc \in [Handlers -> Steps] /\ DOMAIN req = Handlers /\ DOMAIN snap = Handlers
      /\ {"idle", "results"} \subseteq Steps /\ RecordsIn(table, heap) /\ tally = CountsOf(table, heap)
  BY DEF Common, Types, Steps, RefereeOK
<1>1. /\ up /\ pc[w] = "idle" /\ pc' = [pc EXCEPT ![w] = "results"]
      /\ req' = [req EXCEPT ![w] = [report |-> <<>>]] /\ mu = Absent
      /\ UNCHANGED <<up, fd, tmp, file, overlapped, failed, snap, heap, mu, manches>>
      /\ table' = [k \in Keys |-> IF k[1] = p THEN Absent ELSE table[k]]
      /\ modifie' = (modifie \/ table' # table)
      /\ tally' = [k \in Keys |-> IF k[1] = p THEN NoTally[k] ELSE tally[k]]
      /\ stale' = stale \cup {v \in Handlers : pc[v] = "count" /\ Key(v)[1] = p}
  BY DEF ResetStats, Begin, Goto, Free, osVars, faultVars
<1>2. RecordsIn(table', heap) /\ tally' = CountsOf(table', heap)
  <2>1. PICK t2 : t2 = table'
    OBVIOUS
  <2>2. Forgets(table, p, t2)
    BY <1>1, <2>1 DEF Forgets
  <2>3. RecordsIn(t2, heap) /\ CountsOf(t2, heap) = Cleared(CountsOf(table, heap), p)
    BY <1>t, <2>2, ResetRecords
  <2> QED
    BY <1>1, <1>t, <2>1, <2>3 DEF Cleared
<1>3. RecordsIn(table, heap)' /\ tally' = CountsOf(table', heap')
  BY <1>1, <1>2
<1>4. /\ pc' \in [Handlers -> Steps] /\ DOMAIN req' = Handlers /\ DOMAIN snap' = Handlers
      /\ pc'[w] = "results" /\ req'[w] = [report |-> <<>>]
      /\ \A v \in Handlers \ {w} : pc'[v] = pc[v] /\ req'[v] = req[v] /\ snap'[v] = snap[v]
  BY <1>1, <1>t
<1>5. RoundOK(w)'
  <2>1. w \notin stale'
    BY <1>1 DEF RefereeOK, RoundOK
  <2>2. req'[w] \in [report : {<<>>}]
    BY <1>4
  <2> QED
    BY <1>4, <2>1, <2>2 DEF RoundOK
<1>6. ASSUME NEW v \in Handlers \ {w}
      PROVE  RoundOK(v)'
  <2>1. RoundOK(v)
    BY DEF RefereeOK
  <2>2. heap' = heap /\ Key(v)' = Key(v) /\ StatTables' = StatTables
    BY <1>1, <1>4 DEF Key, StatTables
  <2>3. v \in stale' => pc[v] = "count"
    BY <1>1, <2>1 DEF RoundOK
  <2>4. ASSUME pc[v] = "count"
        PROVE  IF v \in stale' THEN \A k \in Keys : table'[k] # req[v].ref
                               ELSE table'[Key(v)] = req[v].ref
    <3>1. req[v].ref \in 1 .. Len(heap) /\ req[v].report # <<>>
      BY <2>1, <2>4 DEF RoundOK
    <3>2. Key(v) \in Keys
      BY <2>4, <3>1, InReport DEF Playing
    <3>3. req[v].ref # Absent
      BY <1>t, <3>1, RefereeAssumption DEF RecordsIn
    <3>4. \A k \in Keys : table'[k] = IF k[1] = p THEN Absent ELSE table[k]
      BY <1>1
    <3>5. CASE v \in stale
      <4>1. \A k \in Keys : table[k] # req[v].ref
        BY <2>1, <2>4, <3>5 DEF RoundOK
      <4> QED
        BY <1>1, <3>3, <3>4, <3>5, <4>1
    <3>6. CASE v \notin stale
      <4>1. table[Key(v)] = req[v].ref
        BY <2>1, <2>4, <3>6 DEF RoundOK
      <4>2. \A k \in Keys : table[k] = req[v].ref => k = Key(v)
        BY <1>t, <3>2, <3>3, <4>1 DEF RecordsIn
      <4>3. CASE Key(v)[1] = p
        <5>1. v \in stale'
          BY <1>1, <2>4, <4>3
        <5> QED
          BY <3>3, <3>4, <4>2, <4>3, <5>1
      <4>4. CASE Key(v)[1] # p
        <5>1. v \notin stale'
          BY <1>1, <3>6, <4>4
        <5> QED
          BY <3>2, <3>4, <4>1, <4>4, <5>1
      <4> QED
        BY <4>3, <4>4
    <3> QED
      BY <3>5, <3>6
  <2> QED
    BY <1>4, <2>1, <2>2, <2>3, <2>4 DEF RoundOK
<1>7. \A v \in Handlers : RoundOK(v)'
  BY <1>5, <1>6
<1>8. /\ pc[w] \in Playing \cup {"idle"} /\ pc'[w] \in Playing \cup {"idle"} /\ pc'[w] \in Playing
      /\ pc[w] # "rating" /\ mu' = mu /\ up
      /\ ~modifie' => ~modifie /\ mu = Absent /\ table' = table /\ heap' = heap
  BY <1>1, <1>4 DEF Playing
<1>9. UNCHANGED <<up, fd, tmp, file, overlapped, failed>> /\ manches' = manches
  BY <1>1
<1> QED
  BY <1>3, <1>4, <1>7, <1>8, <1>9, PlayingStep

(* Ecrire up to the unlock: nothing to do, or the pointers are copied and the flag lowered. *)
LEMMA RefereeCopies ==
  ASSUME Common, RefereeOK, store = "referee", store' = store, NEW w \in Handlers, RefereeEcrire(w)
  PROVE  Common' /\ RefereeOK'
<1>t. /\ pc \in [Handlers -> Steps] /\ DOMAIN req = Handlers /\ DOMAIN snap = Handlers
      /\ Steps = {"idle", "results", "count", "rating", "marshal", "open", "fill", "rename"}
      /\ RecordsIn(table, heap) /\ tally = CountsOf(table, heap) /\ \A v \in Handlers : RoundOK(v)
  BY DEF Common, Types, Steps, RefereeOK
<1>1. /\ pc[w] = "results" /\ mu = Absent
      /\ UNCHANGED <<up, fd, tmp, file, failed, table, heap, mu, manches, stale, tally>>
      /\ \/ ~modifie /\ Answer(w) /\ overlapped' = overlapped /\ ~modifie'
         \/ /\ modifie /\ ~modifie' /\ pc' = [pc EXCEPT ![w] = "marshal"]
            /\ req' = [req EXCEPT ![w] = [refs |-> table]]
            /\ snap' = [snap EXCEPT ![w] = NoStats] /\ overlapped' = (overlapped \/ Writing # {})
  BY DEF RefereeEcrire, Goto, Free, osVars, faultVars, refereeVars
<1>2. up /\ w \notin stale /\ w \notin stale'
  BY <1>1, <1>t DEF RoundOK, Common, Stopped
<1>3. RecordsIn(table, heap)' /\ tally' = CountsOf(table', heap') /\ Len(heap) <= Len(heap')
  BY <1>1, <1>t DEF RecordsIn
<1>4. CASE ~modifie /\ Answer(w) /\ overlapped' = overlapped /\ ~modifie'
  <2>1. /\ pc' \in [Handlers -> Steps] /\ DOMAIN req' = Handlers /\ DOMAIN snap' = Handlers
        /\ pc'[w] = "idle"
        /\ \A v \in Handlers \ {w} : pc'[v] = pc[v] /\ req'[v] = req[v] /\ snap'[v] = snap[v]
    BY <1>4, <1>t DEF Answer, Goto
  <2>2. RoundOK(w)'
    BY <1>2, <2>1 DEF RoundOK
  <2>3. ASSUME NEW v \in Handlers \ {w}
        PROVE  RoundOK(v)'
    <3>1. table' = table /\ stale' = stale
      BY <1>1
    <3> QED
      BY <1>3, <1>t, <2>1, <3>1, OtherKept
  <2>4. \A v \in Handlers : RoundOK(v)'
    BY <2>2, <2>3
  <2>5. /\ pc[w] \in Playing \cup {"idle"} /\ pc'[w] \in Playing \cup {"idle"}
    BY <1>1, <2>1 DEF Playing
  <2>6. /\ UNCHANGED <<up, fd, tmp, file, overlapped, failed>> /\ mu' = Absent /\ manches' = manches
        /\ ~modifie' /\ ~modifie /\ mu = Absent /\ table' = table /\ heap' = heap
    BY <1>1, <1>4
  <2> QED
    BY <1>2, <1>3, <2>1, <2>4, <2>5, <2>6, PlayingStep
<1>5. CASE /\ modifie /\ ~modifie' /\ pc' = [pc EXCEPT ![w] = "marshal"]
           /\ req' = [req EXCEPT ![w] = [refs |-> table]]
           /\ snap' = [snap EXCEPT ![w] = NoStats] /\ overlapped' = (overlapped \/ Writing # {})
  <2>1. /\ pc' \in [Handlers -> Steps] /\ DOMAIN req' = Handlers /\ DOMAIN snap' = Handlers
        /\ pc'[w] = "marshal" /\ req'[w] = [refs |-> table] /\ snap'[w] = NoStats
        /\ \A v \in Handlers \ {w} : pc'[v] = pc[v] /\ req'[v] = req[v] /\ snap'[v] = snap[v]
    BY <1>5, <1>t
  <2>2. ~overlapped' => ~overlapped /\ \A v \in Handlers : pc[v] \notin Busy
    BY <1>5, <1>t DEF Writing, Busy
  <2>3. Common'
    <3>1. /\ UNCHANGED <<up, fd, tmp, file>>
          /\ pc[w] \notin {"fill", "rename"} /\ pc'[w] \notin {"fill", "rename", "open"}
      BY <1>1, <2>1
    <3> QED
      BY <1>2, <2>1, <2>2, <3>1, HandlerStep
  <2>4. RoundOK(w)'
    <3>1. table \in [Keys -> Places(Len(heap'))] /\ NoStats \in StatTables'
      BY <1>1, <1>t DEF RecordsIn, NoStats, StatTables
    <3>2. req'[w] \in [refs : [Keys -> Places(Len(heap'))]]
      BY <2>1, <3>1
    <3> QED
      BY <1>2, <2>1, <3>1, <3>2 DEF RoundOK
  <2>5. ASSUME NEW v \in Handlers \ {w}
        PROVE  RoundOK(v)'
    <3>1. table' = table /\ stale' = stale
      BY <1>1
    <3> QED
      BY <1>3, <1>t, <2>1, <3>1, OtherKept
  <2>6. LockOK' /\ ChangeSeen' /\ manches' \in Seq(RoundCategories)
    BY <1>1, <1>5 DEF LockOK, ChangeSeen, RefereeOK
  <2>7. StatsSaved'
    <3> SUFFICES ASSUME QuietStats'
                 PROVE  SavedAs(StatsOf(table, heap))'
      BY DEF StatsSaved
    <3>1. \A v \in Handlers : pc'[v] \in Busy => v = w
      BY <2>1, <2>2 DEF QuietStats
    <3>2. \A k \in Keys : \/ req'[w].refs[k] # Absent /\ req'[w].refs[k] = table'[k]
                          \/ req'[w].refs[k] = Absent /\ snap'[w][k] = StatsOf(table', heap')[k]
      BY <1>1, <2>1 DEF StatsOf, NoStats
    <3> QED
      BY <2>1, <3>1, <3>2 DEF SavedAs, Busy
  <2>8. \A v \in Handlers : RoundOK(v)'
    BY <2>4, <2>5
  <2> QED
    BY <1>3, <2>3, <2>6, <2>7, <2>8 DEF RefereeOK
<1> QED
  BY <1>1, <1>4, <1>5

(* json.Marshal: one record, or the end. *)
LEMMA RefereeMarshals ==
  ASSUME Common, RefereeOK, store = "referee", store' = store, NEW w \in Handlers,
         (\E k \in Keys : MarshalRecord(w, k)) \/ Marshalled(w)
  PROVE  Common' /\ RefereeOK'
<1>t. /\ pc \in [Handlers -> Steps] /\ DOMAIN req = Handlers /\ DOMAIN snap = Handlers
      /\ Steps = {"idle", "results", "count", "rating", "marshal", "open", "fill", "rename"}
      /\ RecordsIn(table, heap) /\ tally = CountsOf(table, heap) /\ \A v \in Handlers : RoundOK(v)
  BY DEF Common, Types, Steps, RefereeOK
<1>1. /\ pc[w] = "marshal"
      /\ UNCHANGED <<up, fd, tmp, file, overlapped, failed, table, modifie>>
      /\ UNCHANGED <<heap, mu, manches, stale, tally>>
  BY DEF MarshalRecord, Marshalled, osVars, faultVars, refereeVars
<1>2. up /\ w \notin stale'
  BY <1>1, <1>t DEF RoundOK, Common, Stopped
<1>3. RecordsIn(table, heap)' /\ tally' = CountsOf(table', heap') /\ Len(heap) <= Len(heap')
  BY <1>1, <1>t DEF RecordsIn
<1>4. PICK refs \in [Keys -> Places(Len(heap))] : req[w] = [refs |-> refs]
  BY <1>1, <1>t DEF RoundOK
<1>5. PICK old \in StatTables : old = snap[w]
  BY <1>1, <1>t DEF RoundOK
<1>6. PICK s : s = StatsOf(table, heap)
  OBVIOUS
<1>q. QuietStats' =>
        /\ QuietStats /\ SavedAs(s)
        /\ \A k \in Keys : (refs[k] # Absent /\ refs[k] = table[k]) \/ (refs[k] = Absent /\ old[k] = s[k])
        /\ \A v \in Handlers \ {w} : pc[v] \notin Busy
  <2>1. QuietStats' => QuietStats
    BY <1>1 DEF QuietStats
  <2>2. QuietStats => SavedAs(s)
    BY <1>6 DEF RefereeOK, StatsSaved
  <2>3. SavedAs(s) => \A k \in Keys : \/ refs[k] # Absent /\ refs[k] = table[k]
                                      \/ refs[k] = Absent /\ old[k] = s[k]
    BY <1>1, <1>4, <1>5 DEF SavedAs
  <2>4. QuietStats => \A v \in Handlers \ {w} : pc[v] \notin Busy
    BY <1>1 DEF QuietStats, Common, WriterOK, Busy
  <2> QED
    BY <2>1, <2>2, <2>3, <2>4
<1>7. ASSUME NEW k \in Keys, MarshalRecord(w, k)
      PROVE  /\ pc' = pc /\ DOMAIN req' = Handlers /\ DOMAIN snap' = Handlers
             /\ req'[w] \in [refs : [Keys -> Places(Len(heap))]] /\ snap'[w] \in StatTables
             /\ \A v \in Handlers \ {w} : req'[v] = req[v] /\ snap'[v] = snap[v]
             /\ QuietStats' =>
                  \A l \in Keys : \/ req'[w].refs[l] # Absent /\ req'[w].refs[l] = table[l]
                                  \/ req'[w].refs[l] = Absent /\ snap'[w][l] = s[l]
  <2>1. /\ refs[k] # Absent /\ pc' = pc
        /\ snap' = [snap EXCEPT ![w][k] = heap[refs[k]]] /\ req' = [req EXCEPT ![w].refs[k] = Absent]
    BY <1>4, <1>7 DEF MarshalRecord
  <2>2. PICK i \in 1 .. Len(heap) : i = refs[k]
    BY <2>1 DEF Places
  <2>3. heap[i] \in Stat
    BY <1>t DEF RecordsIn
  <2>4. PICK new : new = [refs EXCEPT ![k] = Absent]
    OBVIOUS
  <2>5. new \in [Keys -> Places(Len(heap))] /\ new[k] = Absent /\ \A l \in Keys \ {k} : new[l] = refs[l]
    BY <2>4 DEF Places
  <2>6. PICK cp : cp = [old EXCEPT ![k] = heap[i]]
    OBVIOUS
  <2>7. cp \in StatTables /\ cp[k] = heap[i] /\ \A l \in Keys \ {k} : cp[l] = old[l]
    BY <2>3, <2>6 DEF StatTables
  <2>8. /\ DOMAIN req' = Handlers /\ DOMAIN snap' = Handlers
        /\ req'[w] = [refs |-> new] /\ snap'[w] = cp
        /\ \A v \in Handlers \ {w} : req'[v] = req[v] /\ snap'[v] = snap[v]
    BY <1>4, <1>5, <1>t, <2>1, <2>2, <2>4, <2>6
  <2>9. ASSUME QuietStats', NEW l \in Keys
        PROVE  (new[l] # Absent /\ new[l] = table[l]) \/ (new[l] = Absent /\ cp[l] = s[l])
    <3>1. CASE l = k
      <4>1. table[k] = i /\ table[k] # Absent
        BY <1>q, <2>1, <2>2, <2>9
      <4>2. s[k] = heap[i]
        BY <1>6, <4>1 DEF StatsOf
      <4> QED
        BY <2>5, <2>7, <3>1, <4>2
    <3>2. CASE l # k
      BY <1>q, <2>5, <2>7, <2>9, <3>2
    <3> QED
      BY <3>1, <3>2
  <2>10. req'[w].refs = new /\ req'[w] \in [refs : [Keys -> Places(Len(heap))]]
    BY <2>5, <2>8
  <2> QED
    BY <2>1, <2>7, <2>8, <2>9, <2>10
<1>8. ASSUME Marshalled(w)
      PROVE  /\ pc' = [pc EXCEPT ![w] = "open"] /\ req' = req /\ snap' = snap
             /\ QuietStats' => old = s
  <2>1. /\ pc' = [pc EXCEPT ![w] = "open"] /\ req' = req /\ snap' = snap /\ refs = NoStats
    BY <1>4, <1>8 DEF Marshalled, Goto
  <2>2. \A k \in Keys : refs[k] = Absent
    BY <2>1 DEF NoStats
  <2>3. QuietStats' => \A k \in Keys : old[k] = s[k]
    BY <1>q, <2>2
  <2>4. DOMAIN s = Keys /\ s = [k \in Keys |-> s[k]]
    BY <1>6 DEF StatsOf
  <2>5. (\A k \in Keys : old[k] = s[k]) => old = s
    BY <2>4 DEF StatTables
  <2> QED
    BY <2>1, <2>3, <2>5
<1>9. /\ pc' \in [Handlers -> Steps] /\ DOMAIN req' = Handlers /\ DOMAIN snap' = Handlers
      /\ pc'[w] \in {"marshal", "open"} /\ snap'[w] \in StatTables
      /\ pc'[w] = "marshal" => req'[w] \in [refs : [Keys -> Places(Len(heap))]]
      /\ \A v \in Handlers \ {w} : pc'[v] = pc[v] /\ req'[v] = req[v] /\ snap'[v] = snap[v]
  <2>1. CASE \E k \in Keys : MarshalRecord(w, k)
    BY <1>1, <1>7, <1>t, <2>1
  <2>2. CASE Marshalled(w)
    BY <1>5, <1>8, <1>t, <2>2
  <2> QED
    BY <2>1, <2>2
<1>10. Common'
  <2>1. OfStore(snap'[w])
    BY <1>9 DEF OfStore
  <2>2. /\ UNCHANGED <<up, fd, tmp, file, overlapped>>
        /\ pc[w] \notin {"fill", "rename"} /\ pc'[w] \notin {"fill", "rename"} /\ pc[w] \in Busy
    BY <1>1, <1>9 DEF Busy
  <2> QED
    BY <1>2, <1>9, <2>1, <2>2, HandlerStep
<1>11. RoundOK(w)'
  <2>1. heap' = heap /\ StatTables' = StatTables
    BY <1>1 DEF StatTables
  <2> QED
    BY <1>2, <1>9, <2>1 DEF RoundOK
<1>12. \A v \in Handlers : RoundOK(v)'
  <2>1. ASSUME NEW v \in Handlers \ {w}
        PROVE  RoundOK(v)'
    <3>1. table' = table /\ stale' = stale
      BY <1>1
    <3> QED
      BY <1>3, <1>9, <1>t, <3>1, OtherKept
  <2> QED
    BY <1>11, <2>1
<1>13. LockOK' /\ ChangeSeen' /\ manches' \in Seq(RoundCategories)
  BY <1>1, <1>9 DEF LockOK, ChangeSeen, RefereeOK, Playing
<1>14. StatsSaved'
  <2> SUFFICES ASSUME QuietStats'
               PROVE  SavedAs(s)'
    BY <1>1, <1>6 DEF StatsSaved, StatsOf
  <2>1. \A v \in Handlers \ {w} : pc'[v] \notin Busy
    BY <1>9, <1>q
  <2>2. pc'[w] = "marshal" =>
          \A l \in Keys : \/ req'[w].refs[l] # Absent /\ req'[w].refs[l] = table'[l]
                          \/ req'[w].refs[l] = Absent /\ snap'[w][l] = s[l]
    <3>1. CASE \E k \in Keys : MarshalRecord(w, k)
      BY <1>1, <1>7, <3>1
    <3>2. CASE Marshalled(w)
      BY <1>8, <1>t, <3>2
    <3> QED
      BY <3>1, <3>2
  <2>3. pc'[w] = "open" => snap'[w] = s
    <3>1. CASE \E k \in Keys : MarshalRecord(w, k)
      BY <1>1, <1>7, <3>1
    <3>2. CASE Marshalled(w)
      BY <1>5, <1>8, <3>2
    <3> QED
      BY <3>1, <3>2
  <2> QED
    BY <1>9, <2>1, <2>2, <2>3 DEF SavedAs, Busy
<1> QED
  BY <1>3, <1>10, <1>12, <1>13, <1>14 DEF RefereeOK

(* The steps of the file system. *)
LEMMA RefereeWrites ==
  ASSUME Common, RefereeOK, store = "referee", store' = store, NEW w \in Handlers,
         WriteSteps(w) \/ RenameFails(w), UNCHANGED refereeVars
  PROVE  Common' /\ RefereeOK'
<1>1. /\ Common' /\ UNCHANGED <<up, table, modifie, overlapped>>
      /\ Advanced(w) \/ GaveUp(w) \/ Renamed(w)
  BY WriteKeeps
<1>t. /\ pc \in [Handlers -> Steps] /\ DOMAIN req = Handlers /\ DOMAIN snap = Handlers
      /\ UNCHANGED <<heap, mu, manches, stale, tally>>
      /\ RecordsIn(table, heap) /\ tally = CountsOf(table, heap) /\ \A v \in Handlers : RoundOK(v)
  BY DEF Common, Types, refereeVars, RefereeOK
<1>2. /\ pc[w] \in {"open", "fill", "rename"} /\ pc'[w] \in {"idle", "fill", "rename"}
      /\ pc'[w] # "idle" => snap'[w] = snap[w]
      /\ \A v \in Handlers \ {w} : pc'[v] = pc[v] /\ req'[v] = req[v] /\ snap'[v] = snap[v]
  BY <1>1, <1>t DEF Advanced, GaveUp, Renamed, Goto, Answer
<1>3. RecordsIn(table, heap)' /\ tally' = CountsOf(table', heap') /\ Len(heap) <= Len(heap')
  BY <1>1, <1>t DEF RecordsIn
<1>4. RoundOK(w)'
  <2>1. w \notin stale'
    BY <1>2, <1>t DEF RoundOK
  <2> QED
    BY <1>2, <2>1 DEF RoundOK
<1>5. ASSUME NEW v \in Handlers \ {w}
      PROVE  RoundOK(v)'
  <2>1. table' = table /\ stale' = stale
    BY <1>1, <1>t
  <2> QED
    BY <1>2, <1>3, <1>t, <2>1, OtherKept
<1>6. LockOK' /\ ChangeSeen' /\ manches' \in Seq(RoundCategories)
  BY <1>1, <1>2, <1>t DEF LockOK, ChangeSeen, RefereeOK, Playing
<1>7. StatsSaved'
  <2>1. PICK s : s = StatsOf(table, heap)
    OBVIOUS
  <2> SUFFICES ASSUME QuietStats'
               PROVE  SavedAs(s)'
    BY <1>1, <1>t, <2>1 DEF StatsSaved, StatsOf
  <2>2. QuietStats /\ SavedAs(s) /\ ~overlapped
    BY <1>1, <1>t, <2>1 DEF QuietStats, RefereeOK, StatsSaved
  <2>3. \A v \in Handlers \ {w} : pc[v] \notin Busy /\ pc'[v] \notin Busy
    BY <1>2, <2>2 DEF Common, WriterOK, Busy
  <2>4. snap[w] = s
    BY <1>2, <2>2 DEF SavedAs
  <2>5. ASSUME \A v \in Handlers : pc'[v] \notin Busy, ~failed'
        PROVE  Holds(s, NoStats)'
    <3>1. Renamed(w)
      BY <1>1, <1>t, <2>5 DEF Advanced, GaveUp, Goto, Busy
    <3>2. file' = s /\ OfStore(s)
      BY <1>2, <2>2, <2>4, <3>1 DEF Renamed, Common, Types
    <3>3. file' \notin Unreadable
      BY <3>2, Readable DEF Common
    <3> QED
      BY <3>2, <3>3 DEF Holds, Unreadable
  <2> QED
    BY <1>2, <2>3, <2>4, <2>5 DEF SavedAs, Busy
<1>8. \A v \in Handlers : RoundOK(v)'
  BY <1>4, <1>5
<1> QED
  BY <1>1, <1>3, <1>6, <1>7, <1>8 DEF RefereeOK

(* Charger: the file becomes the records, and holds them. *)
LEMMA RefereeLoads ==
  ASSUME Common, RefereeOK, store = "referee", store' = store, RefereeCharger
  PROVE  Common' /\ RefereeOK'
<1>1. PICK saved : saved = IF file \in Unreadable THEN {} ELSE {k \in Keys : file[k] # Absent}
  OBVIOUS
<1>2. PICK n : n = Cardinality(saved)
  OBVIOUS
<1>3. PICK order : order = CHOOSE g \in [1 .. n -> saved] : \A k \in saved : \E i \in 1 .. n : g[i] = k
  OBVIOUS
<1>4. PICK t : t = [k \in Keys |-> IF k \in saved THEN CHOOSE i \in 1 .. n : order[i] = k ELSE Absent]
  OBVIOUS
<1>5. PICK h : h = [i \in 1 .. n |-> file[order[i]]]
  OBVIOUS
<1>6. /\ Start(t) /\ heap' = h
      /\ tally' = [k \in Keys |-> IF k \in saved THEN file[k].count ELSE NoTally[k]]
      /\ UNCHANGED <<mu, manches, stale>>
  BY <1>1, <1>2, <1>3, <1>4, <1>5 DEF RefereeCharger
<1>7. /\ Common' /\ UNCHANGED <<pc, req, snap, file, modifie, overlapped>> /\ table' = t
      /\ \A w \in Handlers : pc[w] = "idle" /\ req[w] = Absent
      /\ ~modifie
  BY <1>6, StartKeeps
<1>8. saved \in SUBSET Keys
  BY <1>1
<1>9. file \in Unreadable \/ file \in StatTables
  BY DEF Common, Types, Content, OfStore
<1>10. \A k \in saved : file[k] \in Stat
  BY <1>1, <1>9 DEF StatTables
<1>11. PlacesOf(saved, n, order, t)
  <2>1. SomeOrder(saved, n, order, t)
    BY <1>2, <1>3, <1>4 DEF SomeOrder
  <2> QED
    BY <1>8, <2>1, Enumerated
<1>12. PICK f : f = file
  OBVIOUS
<1>13. Loaded(f, saved, t, h)
  <2>1. (\A k \in saved : f[k] \in Stat) /\ InOrder(f, n, order, h)
    BY <1>5, <1>10, <1>12 DEF InOrder
  <2> QED
    BY <1>8, <1>11, <2>1, LoadRecords
<1>14. RecordsIn(table, heap)' /\ tally' = CountsOf(table', heap')
  BY <1>6, <1>7, <1>12, <1>13 DEF Loaded
<1>15. \A w \in Handlers : RoundOK(w)'
  <2>1. \A w \in Handlers : w \notin stale'
    BY <1>6, <1>7 DEF RefereeOK, RoundOK
  <2> QED
    BY <1>7, <2>1 DEF RoundOK
<1>16. LockOK' /\ ChangeSeen' /\ manches' \in Seq(RoundCategories)
  BY <1>6, <1>7 DEF LockOK, ChangeSeen, RefereeOK
<1>17. StatsSaved'
  <2>1. PICK s : s = StatsOf(t, h)
    OBVIOUS
  <2>2. s = [k \in Keys |-> IF k \in saved THEN f[k] ELSE Absent]
    BY <1>13, <2>1 DEF Loaded
  <2>3. IF file \in Unreadable THEN s = NoStats ELSE file = s
    <3>1. CASE file \in Unreadable
      BY <1>1, <2>2, <3>1 DEF NoStats
    <3>2. CASE file \notin Unreadable
      <4>1. f \in StatTables
        BY <1>9, <1>12, <3>2
      <4>2. \A k \in Keys : s[k] = f[k]
        BY <1>1, <1>12, <2>2, <3>2
      <4>3. s = [k \in Keys |-> s[k]] /\ DOMAIN s = Keys
        BY <2>2
      <4>4. f = s
        BY <4>1, <4>2, <4>3 DEF StatTables
      <4> QED
        BY <1>12, <3>2, <4>4
    <3> QED
      BY <3>1, <3>2
  <2>4. Holds(s, NoStats)'
    BY <1>7, <2>3 DEF Holds, Unreadable, NoStats
  <2>5. SavedAs(s)'
    BY <1>7, <2>4 DEF SavedAs
  <2> QED
    BY <1>6, <1>7, <2>1, <2>5 DEF StatsSaved, StatsOf
<1> QED
  BY <1>7, <1>14, <1>15, <1>16, <1>17 DEF RefereeOK

(* Every step of the referee keeps its invariant. *)
LEMMA RefereeStep ==
  ASSUME Common, RefereeOK, store = "referee", store' = store, RefereeNext
  PROVE  Common' /\ RefereeOK'
<1>1. CASE RefereeCrash
  <2>1. /\ Common' /\ table' = NoStats /\ ~up' /\ ~modifie'
        /\ heap' = <<>> /\ mu' = Absent /\ manches' = <<>> /\ stale' = {} /\ tally' = NoTally
        /\ \A w \in Handlers : pc'[w] = "idle"
    BY <1>1, CrashKeeps DEF RefereeCrash, Crash
  <2>2. RecordsIn(NoStats, <<>>) /\ CountsOf(NoStats, <<>>) = NoTally
    BY DEF RecordsIn, NoStats, Places, CountsOf, NoTally
  <2>3. RecordsIn(table, heap)' /\ tally' = CountsOf(table', heap')
    BY <2>1, <2>2
  <2>4. \A w \in Handlers : RoundOK(w)'
    BY <2>1 DEF RoundOK
  <2>5. LockOK' /\ ChangeSeen' /\ StatsSaved' /\ manches' \in Seq(RoundCategories)
    BY <2>1 DEF LockOK, ChangeSeen, StatsSaved, QuietStats
  <2> QED
    BY <2>1, <2>3, <2>4, <2>5 DEF RefereeOK
<1>2. ASSUME NEW cat \in RoundCategories, StartRound(cat)
      PROVE  Common' /\ RefereeOK'
  <2>1. /\ manches' = Append(manches, cat) /\ UNCHANGED <<heap, mu, stale, tally>>
        /\ UNCHANGED <<up, table, modifie, pc, req, snap, fd, tmp, file, overlapped, failed>>
    BY <1>2 DEF StartRound, throughVars, osVars, faultVars
  <2>2. Common'
    BY <2>1 DEF Common, Types, OfStore, Content, Steps, WriterOK, Stopped
  <2>3. manches' \in Seq(RoundCategories)
    BY <2>1 DEF RefereeOK
  <2>4. RecordsIn(table, heap)' /\ tally' = CountsOf(table', heap')
    BY <2>1 DEF RefereeOK
  <2>5. \A w \in Handlers : RoundOK(w)'
    BY <2>1 DEF RefereeOK, RoundOK, Key, StatTables
  <2>6. LockOK' /\ ChangeSeen'
    BY <2>1 DEF RefereeOK, LockOK, ChangeSeen
  <2>7. StatsSaved'
    <3>1. PICK s : s = StatsOf(table, heap)
      OBVIOUS
    <3>2. StatsOf(table, heap)' = s
      BY <2>1, <3>1 DEF StatsOf
    <3>3. QuietStats' => SavedAs(s)
      BY <2>1, <3>1 DEF RefereeOK, StatsSaved, QuietStats
    <3>4. SavedAs(s) => SavedAs(s)'
      BY <2>1 DEF SavedAs, Holds, Unreadable, NoStats
    <3> QED
      BY <3>2, <3>3, <3>4 DEF StatsSaved
  <2> QED
    BY <2>2, <2>3, <2>4, <2>5, <2>6, <2>7 DEF RefereeOK
<1> QED
  BY <1>1, <1>2, RefereeLoads, RefereeEndRound, RefereeTakes, RefereeCounts, RefereeRates, RefereeCreates,
     RefereeResets, RefereeCopies, RefereeMarshals, RefereeWrites
     DEF RefereeNext

-----------------------------------------------------------------------------
(* Sorting *)

\* R orders the members of S, all of them.
Orders(R, S) ==
  /\ \A x \in S : <<x, x>> \notin R
  /\ \A x, y \in S : x = y \/ <<x, y>> \in R \/ <<y, x>> \in R
  /\ \A x, y, z \in S : <<x, y>> \in R /\ <<y, z>> \in R => <<x, z>> \in R

Below(R, S, x) == {y \in S : <<y, x>> \in R}

InOrderOf(s, R, n) == \A i, j \in 1 .. n : i < j => <<s[i], s[j]>> \in R

(* What is below a member is below all that is above it. *)
LEMMA BelowGrows ==
  ASSUME NEW S, IsFiniteSet(S), NEW R, Orders(R, S), NEW x \in S, NEW y \in S, <<x, y>> \in R
  PROVE  Cardinality(Below(R, S, x)) < Cardinality(Below(R, S, y))
<1>1. Below(R, S, x) \subseteq Below(R, S, y) /\ x \in Below(R, S, y) /\ x \notin Below(R, S, x)
  BY DEF Below, Orders
<1>2. IsFiniteSet(Below(R, S, y))
  BY FS_Subset DEF Below
<1>3. /\ IsFiniteSet(Below(R, S, x)) /\ Cardinality(Below(R, S, x)) <= Cardinality(Below(R, S, y))
      /\ Cardinality(Below(R, S, y)) = Cardinality(Below(R, S, x)) => Below(R, S, x) = Below(R, S, y)
  BY <1>1, <1>2, FS_Subset
<1>4. Cardinality(Below(R, S, x)) \in Nat /\ Cardinality(Below(R, S, y)) \in Nat
  BY <1>2, <1>3, FS_CardinalityType
<1> QED
  BY <1>1, <1>3, <1>4

(* A finite set can be put in order: the place of a member is one more than the number  *)
(* of members below it.                                                                 *)
LEMMA SortExists ==
  ASSUME NEW S, IsFiniteSet(S), NEW R, Orders(R, S)
  PROVE  \E s \in [1 .. Cardinality(S) -> S] : InOrderOf(s, R, Cardinality(S))
<1> DEFINE n == Cardinality(S)
           place == [x \in S |-> Cardinality(Below(R, S, x)) + 1]
<1>1. n \in Nat
  BY FS_CardinalityType
<1>2. ASSUME NEW x \in S
      PROVE  place[x] \in 1 .. n
  <2>1. Below(R, S, x) \subseteq S /\ x \in S \ Below(R, S, x)
    BY DEF Below, Orders
  <2>2. /\ IsFiniteSet(Below(R, S, x)) /\ Cardinality(Below(R, S, x)) <= n
        /\ n = Cardinality(Below(R, S, x)) => S = Below(R, S, x)
    BY <2>1, FS_Subset
  <2>3. Cardinality(Below(R, S, x)) \in Nat
    BY <2>2, FS_CardinalityType
  <2> QED
    BY <1>1, <2>1, <2>2, <2>3
<1>3. ASSUME NEW x \in S, NEW y \in S, <<x, y>> \in R
      PROVE  place[x] < place[y]
  <2>1. Cardinality(Below(R, S, x)) < Cardinality(Below(R, S, y))
    BY <1>3, BelowGrows
  <2>2. place[x] \in Nat /\ place[y] \in Nat
    BY <1>1, <1>2
  <2>3. IsFiniteSet(Below(R, S, x)) /\ IsFiniteSet(Below(R, S, y))
    BY FS_Subset DEF Below
  <2>4. Cardinality(Below(R, S, x)) \in Nat /\ Cardinality(Below(R, S, y)) \in Nat
    BY <2>3, FS_CardinalityType
  <2> QED
    BY <2>1, <2>4
<1> HIDE DEF place
<1>4. place \in [S -> 1 .. n]
  <2>1. place = [x \in S |-> place[x]]
    BY DEF place
  <2> QED
    BY <1>2, <2>1
<1>5. \A x, y \in S : place[x] = place[y] => x = y
  <2> SUFFICES ASSUME NEW x \in S, NEW y \in S, place[x] = place[y], x # y
               PROVE  FALSE
    OBVIOUS
  <2>1. place[x] < place[y] \/ place[y] < place[x]
    BY <1>3 DEF Orders
  <2> QED
    BY <1>1, <1>2, <2>1
<1>6. place \in Injection(S, 1 .. n)
  BY <1>4, <1>5 DEF Injection, IsInjective
<1>7. IsFiniteSet(1 .. n) /\ Cardinality(1 .. n) = n
  BY <1>1, FS_Interval
<1>8. place \in Surjection(S, 1 .. n)
  BY <1>6, <1>7, FS_Injection
<1>9. \A k \in 1 .. n : \E x \in S : place[x] = k
  BY <1>8 DEF Surjection
<1> DEFINE s == [k \in 1 .. n |-> CHOOSE x \in S : place[x] = k]
<1>10. \A k \in 1 .. n : s[k] \in S /\ place[s[k]] = k
  BY <1>9
<1>11. s \in [1 .. n -> S]
  BY <1>10
<1>12. ASSUME NEW i \in 1 .. n, NEW j \in 1 .. n, i < j
       PROVE  <<s[i], s[j]>> \in R
  <2>1. s[i] \in S /\ s[j] \in S /\ place[s[i]] = i /\ place[s[j]] = j
    BY <1>10
  <2> HIDE DEF s
  <2>2. s[i] # s[j] /\ ~(place[s[j]] < place[s[i]])
    BY <1>1, <1>12, <2>1
  <2>3. <<s[j], s[i]>> \notin R
    BY <1>3, <2>1, <2>2
  <2> QED
    BY <2>1, <2>2, <2>3 DEF Orders
<1> HIDE DEF s
<1> QED
  BY <1>11, <1>12 DEF InOrderOf

\* Every member has one place in s, behind those below it.
Placed(s, R, S, n) ==
  /\ \A x \in S : \E k \in 1 .. n : s[k] = x
  /\ \A i, j \in 1 .. n : s[i] = s[j] => i = j
  /\ \A k \in 1 .. n : Cardinality(Below(R, S, s[k])) = k - 1

(* The places of a finite set in order. *)
LEMMA SortPlaces ==
  ASSUME NEW S, IsFiniteSet(S), NEW R, Orders(R, S),
         NEW n, n = Cardinality(S), NEW s, s \in [1 .. n -> S], InOrderOf(s, R, n)
  PROVE  Placed(s, R, S, n)
<1>1. n \in Nat
  BY FS_CardinalityType
<1>2. ASSUME NEW i \in 1 .. n, NEW j \in 1 .. n, s[i] = s[j]
      PROVE  i = j
  <2>1. s[i] \in S /\ ~(i < j) /\ ~(j < i)
    BY <1>2 DEF InOrderOf, Orders
  <2> QED
    BY <1>1, <2>1
<1>3. s \in Injection(1 .. n, S)
  BY <1>2 DEF Injection, IsInjective
<1>4. IsFiniteSet(1 .. n) /\ Cardinality(1 .. n) = n
  BY <1>1, FS_Interval
<1>5. s \in Surjection(1 .. n, S)
  BY <1>3, <1>4, FS_Injection
<1>6. \A x \in S : \E k \in 1 .. n : s[k] = x
  BY <1>5 DEF Surjection
<1>7. ASSUME NEW k \in 1 .. n
      PROVE  Cardinality(Below(R, S, s[k])) = k - 1
  <2> DEFINE f == [i \in 1 .. k - 1 |-> s[i]]
  <2>1. ASSUME NEW i \in 1 .. n
        PROVE  <<s[i], s[k]>> \in R <=> i < k
    <3>1. s[i] \in S /\ s[k] \in S
      OBVIOUS
    <3>2. i < k \/ i = k \/ k < i
      BY <1>1
    <3>3. i < k => <<s[i], s[k]>> \in R
      BY DEF InOrderOf
    <3>4. k < i => <<s[k], s[i]>> \in R
      BY DEF InOrderOf
    <3>5. <<s[i], s[k]>> \in R /\ <<s[k], s[i]>> \in R => <<s[i], s[i]>> \in R
      BY <3>1 DEF Orders
    <3>6. <<s[i], s[i]>> \notin R
      BY <3>1 DEF Orders
    <3> QED
      BY <3>2, <3>3, <3>4, <3>5, <3>6
  <2>2. \A i \in 1 .. k - 1 : i \in 1 .. n /\ i < k
    BY <1>1
  <2>3. f \in [1 .. k - 1 -> Below(R, S, s[k])]
    BY <2>1, <2>2 DEF Below
  <2>4. f \in Injection(1 .. k - 1, Below(R, S, s[k]))
    <3>1. \A i, j \in 1 .. k - 1 : f[i] = f[j] => i = j
      BY <1>2, <2>2
    <3> QED
      BY <2>3, <3>1 DEF Injection, IsInjective
  <2>5. f \in Surjection(1 .. k - 1, Below(R, S, s[k]))
    <3>1. ASSUME NEW x \in Below(R, S, s[k])
          PROVE  \E i \in 1 .. k - 1 : f[i] = x
      <4>1. PICK i \in 1 .. n : s[i] = x
        BY <1>6 DEF Below
      <4>2. i < k
        BY <2>1, <4>1 DEF Below
      <4>3. i \in 1 .. k - 1
        BY <1>1, <4>2
      <4> QED
        BY <4>1, <4>3
    <3> QED
      BY <2>3, <3>1 DEF Surjection
  <2>6. ExistsBijection(1 .. k - 1, Below(R, S, s[k]))
    BY <2>4, <2>5 DEF ExistsBijection, Bijection
  <2>7. k - 1 \in Nat
    BY <1>1
  <2> HIDE DEF f
  <2> QED
    BY <2>6, <2>7, FS_CountingElements
<1> QED
  BY <1>2, <1>6, <1>7 DEF Placed

-----------------------------------------------------------------------------
(* Ranks *)

\* The order of a category, as a set of pairs.
Precedes(cat) ==
  {e \in Ranked(cat) \X Ranked(cat) :
     \/ table[cat][e[1]] > table[cat][e[2]]
     \/ table[cat][e[1]] = table[cat][e[2]] /\ e[1] < e[2]}

(* It is an order: the PIDs are numbers, and no two players share one. *)
LEMMA PrecedesOrders ==
  ASSUME table \in Ranking, NEW cat \in RankCategories
  PROVE  /\ Orders(Precedes(cat), Ranked(cat)) /\ IsFiniteSet(Ranked(cat))
         /\ \A p, q \in Ranked(cat) :
              <<p, q>> \in Precedes(cat) <=> \/ table[cat][p] > table[cat][q]
                                             \/ table[cat][p] = table[cat][q] /\ p < q
<1> DEFINE S == Ranked(cat)
<1>1. \A p, q \in S : <<p, q>> \in Precedes(cat) <=> \/ table[cat][p] > table[cat][q]
                                                     \/ table[cat][p] = table[cat][q] /\ p < q
  BY DEF Precedes
<1>2. S \subseteq PIDs /\ IsFiniteSet(S)
  BY FS_Subset, Ranking2Assumption DEF Ranked
<1>3. \A p \in S : p \in Nat /\ table[cat][p] \in Nat
  BY Ranking2Assumption DEF Ranked, Ranking
<1>4. Orders(Precedes(cat), S)
  <2> HIDE DEF S
  <2> QED
    BY <1>1, <1>3 DEF Orders
<1> QED
  BY <1>1, <1>2, <1>4

(* classement: every ranked player once, in order. *)
LEMMA ClassementSorted ==
  ASSUME table \in Ranking, NEW cat \in RankCategories
  PROVE  LET S == Ranked(cat) n == Cardinality(Ranked(cat)) T == classement(cat)
         IN /\ n \in Nat /\ T \in [1 .. n -> S] /\ T \in Seq(S) /\ Len(T) = n
            /\ InOrderOf(T, Precedes(cat), n)
<1> DEFINE S == Ranked(cat)
           n == Cardinality(S)
           Good(s) == \A i, j \in 1 .. n :
                        i < j => \/ table[cat][s[i]] > table[cat][s[j]]
                                 \/ table[cat][s[i]] = table[cat][s[j]] /\ s[i] < s[j]
<1>1. n \in Nat
  BY PrecedesOrders, FS_CardinalityType
<1>2. ASSUME NEW s \in [1 .. n -> S]
      PROVE  Good(s) <=> InOrderOf(s, Precedes(cat), n)
  <2>1. \A i \in 1 .. n : s[i] \in S
    OBVIOUS
  <2> QED
    BY <2>1, PrecedesOrders DEF InOrderOf
<1>3. \E s \in [1 .. n -> S] : Good(s)
  <2>1. PICK s \in [1 .. n -> S] : InOrderOf(s, Precedes(cat), n)
    BY PrecedesOrders, SortExists
  <2> QED
    BY <1>2, <2>1
<1>4. classement(cat) = CHOOSE s \in [1 .. n -> S] : Good(s)
  BY DEF classement, Sorted
<1> HIDE DEF Good
<1>5. classement(cat) \in [1 .. n -> S] /\ Good(classement(cat))
  BY <1>3, <1>4
<1>6. classement(cat) \in Seq(S) /\ Len(classement(cat)) = n
  <2> HIDE DEF S, n
  <2> QED
    BY <1>1, <1>5
<1> QED
  BY <1>1, <1>2, <1>5, <1>6

(* The places in it are the ranks. *)
LEMMA ClassementPlaces ==
  ASSUME table \in Ranking, NEW cat \in RankCategories
  PROVE  LET n == Cardinality(Ranked(cat)) T == classement(cat)
         IN /\ \A p \in Ranked(cat) : \E k \in 1 .. n : T[k] = p
            /\ \A i, j \in 1 .. n : T[i] = T[j] => i = j
            /\ \A k \in 1 .. n : Cardinality(Ahead(cat, T[k])) = k - 1
<1> DEFINE S == Ranked(cat)
           n == Cardinality(S)
           T == classement(cat)
<1>1. n \in Nat /\ T \in [1 .. n -> S] /\ InOrderOf(T, Precedes(cat), n)
  BY ClassementSorted
<1>2. /\ \A p \in S : \E k \in 1 .. n : T[k] = p
      /\ \A i, j \in 1 .. n : T[i] = T[j] => i = j
      /\ \A k \in 1 .. n : Cardinality(Below(Precedes(cat), S, T[k])) = k - 1
  <2>1. Orders(Precedes(cat), S) /\ IsFiniteSet(S)
    BY PrecedesOrders
  <2>2. Placed(T, Precedes(cat), S, n)
    BY <1>1, <2>1, SortPlaces
  <2> QED
    BY <2>2 DEF Placed
<1>3. ASSUME NEW p \in S
      PROVE  Ahead(cat, p) = Below(Precedes(cat), S, p)
  BY PrecedesOrders DEF Ahead, Below
<1>4. \A k \in 1 .. n : T[k] \in S
  BY <1>1
<1> QED
  BY <1>2, <1>3, <1>4

\* The lines of a category.
Lines(cat) == [k \in 1 .. Cardinality(Ranked(cat)) |-> [pid |-> classement(cat)[k], rank |-> k]]

LEMMA LinesType ==
  ASSUME table \in Ranking, NEW cat \in RankCategories
  PROVE  /\ Cardinality(Ranked(cat)) \in Nat
         /\ Lines(cat) \in [1 .. Cardinality(Ranked(cat)) -> [pid : PIDs, rank : Nat]]
<1>1. Cardinality(Ranked(cat)) \in Nat /\ classement(cat) \in [1 .. Cardinality(Ranked(cat)) -> Ranked(cat)]
  BY ClassementSorted
<1>2. \A k \in 1 .. Cardinality(Ranked(cat)) : k \in Nat /\ classement(cat)[k] \in PIDs
  BY <1>1 DEF Ranked
<1> QED
  BY <1>1, <1>2 DEF Lines

\* The window of n lines that a page asks for.
Asked(n, offset, length, debut, fin) ==
  /\ debut = IF offset > n THEN n ELSE offset
  /\ fin = IF length > 0 /\ debut + length < n THEN debut + length ELSE n

(* A page of a category is a part of them. *)
LEMMA Page ==
  ASSUME table \in Ranking, NEW cat \in RankCategories, NEW offset \in Nat, NEW length \in Nat,
         NEW n, n = Cardinality(Ranked(cat)),
         NEW debut, NEW fin, Asked(n, offset, length, debut, fin)
  PROVE  GetRanking(cat, offset, length) = [k \in 1 .. fin - debut |-> Lines(cat)[debut + k]]
<1>1. n \in Nat /\ debut \in 0 .. n /\ fin \in debut .. n
  BY LinesType DEF Asked
<1>2. Len(classement(cat)) = n
  BY ClassementSorted
<1>3. GetRanking(cat, offset, length)
        = [k \in 1 .. fin - debut |-> RankLine(classement(cat)[debut + k], debut + k)]
  BY <1>2 DEF GetRanking, Asked
<1>4. ASSUME NEW k \in 1 .. fin - debut
      PROVE  RankLine(classement(cat)[debut + k], debut + k) = Lines(cat)[debut + k]
  <2>1. debut + k \in 1 .. n
    BY <1>1
  <2> QED
    BY <2>1 DEF Lines, RankLine
<1> QED
  BY <1>3, <1>4

(* Two parts that meet are the whole. *)
LEMMA PartsMeet ==
  ASSUME NEW L, NEW n \in Nat, NEW d \in Nat, d <= n, NEW f \in [1 .. n -> L],
         NEW a, a = [k \in 1 .. d |-> f[k]],
         NEW b, b = [k \in 1 .. n - d |-> f[d + k]]
  PROVE  a \o b = f
<1>1. a \in Seq(L) /\ Len(a) = d
  OBVIOUS
<1>2. b \in Seq(L) /\ Len(b) = n - d
  OBVIOUS
<1>3. f \in Seq(L) /\ Len(f) = n
  OBVIOUS
<1>4. PICK x \in Seq(L), y \in Seq(L) : x = a /\ y = b
  BY <1>1, <1>2
<1>5. x \o y \in Seq(L) /\ Len(x \o y) = Len(x) + Len(y)
  OBVIOUS
<1>6. ASSUME NEW k \in 1 .. n
      PROVE  (x \o y)[k] = f[k]
  <2>1. CASE k <= d
    <3>1. (x \o y)[k] = x[k]
      BY <1>1, <1>2, <1>4, <2>1
    <3> QED
      BY <1>4, <2>1, <3>1
  <2>2. CASE k > d
    <3>1. k - d \in 1 .. n - d /\ d + (k - d) = k
      BY <2>2
    <3>2. (x \o y)[k] = y[k - d]
      BY <1>1, <1>2, <1>4, <2>2
    <3>3. b[k - d] = f[d + (k - d)]
      BY <3>1
    <3> QED
      BY <1>4, <3>1, <3>2, <3>3
  <2>3. k <= d \/ k > d
    OBVIOUS
  <2> QED
    BY <2>1, <2>2, <2>3, Zenon
<1>7. Len(x \o y) = n
  BY <1>1, <1>2, <1>4, <1>5
<1>8. x \o y = f
  BY <1>3, <1>5, <1>6, <1>7
<1> QED
  BY <1>4, <1>8

(* The first page, and all that follows it. *)
LEMMA PagesMeet ==
  ASSUME table \in Ranking, NEW cat \in RankCategories, NEW m \in Nat \ {0}
  PROVE  /\ GetRanking(cat, 0, 0) = Lines(cat)
         /\ GetRanking(cat, 0, m) \o GetRanking(cat, m, 0) = Lines(cat)
<1>0. PICK n \in Nat : n = Cardinality(Ranked(cat))
  BY LinesType
<1>1. PICK f \in [1 .. n -> [pid : PIDs, rank : Nat]] :
        n = Cardinality(Ranked(cat)) /\ f = Lines(cat)
  BY <1>0, LinesType
<1>2. PICK d \in 0 .. n : d = IF m > n THEN n ELSE m
  OBVIOUS
<1>a. GetRanking(cat, 0, m) = [k \in 1 .. d |-> f[k]]
  <2>1. Asked(n, 0, m, 0, d)
    BY <1>2 DEF Asked
  <2>2. GetRanking(cat, 0, m) = [k \in 1 .. d - 0 |-> Lines(cat)[0 + k]]
    BY <1>1, <2>1, Page
  <2> QED
    BY <1>1, <2>2
<1>b. GetRanking(cat, m, 0) = [k \in 1 .. n - d |-> f[d + k]]
  <2>1. Asked(n, m, 0, d, n)
    BY <1>2 DEF Asked
  <2> QED
    BY <1>1, <2>1, Page
<1>c. GetRanking(cat, 0, 0) = f
  <2>1. Asked(n, 0, 0, 0, n)
    BY DEF Asked
  <2>2. GetRanking(cat, 0, 0) = [k \in 1 .. n - 0 |-> Lines(cat)[0 + k]]
    BY <1>1, <2>1, Page
  <2> QED
    BY <1>1, <2>2
<1>d. [k \in 1 .. d |-> f[k]] \o [k \in 1 .. n - d |-> f[d + k]] = f
  <2>1. d \in Nat /\ d <= n
    OBVIOUS
  <2> QED
    BY <2>1, PartsMeet
<1> QED
  BY <1>1, <1>a, <1>b, <1>c, <1>d

(* The rank that is answered to the player itself. *)
LEMMA Estimate ==
  ASSUME table \in Ranking, NEW cat \in RankCategories
  PROVE  /\ \A k \in 1 .. Cardinality(Ranked(cat)) : GetEstimateMyRank(cat, classement(cat)[k]) = k
         /\ \A p \in PIDs : table[cat][p] = Absent =>
              GetEstimateMyRank(cat, p) = Cardinality(Ranked(cat)) + 1
<1> DEFINE n == Cardinality(Ranked(cat))
           T == classement(cat)
<1>1. DOMAIN T = 1 .. n /\ Len(T) = n /\ \A k \in 1 .. n : T[k] \in Ranked(cat)
  BY ClassementSorted
<1>2. ASSUME NEW k \in 1 .. n
      PROVE  GetEstimateMyRank(cat, T[k]) = k
  <2>1. {i \in DOMAIN T : T[i] = T[k]} = {k}
    BY <1>1, ClassementPlaces
  <2> QED
    BY <2>1 DEF GetEstimateMyRank
<1>3. ASSUME NEW p \in PIDs, table[cat][p] = Absent
      PROVE  GetEstimateMyRank(cat, p) = n + 1
  <2>1. {i \in DOMAIN T : T[i] = p} = {}
    BY <1>1, <1>3 DEF Ranked
  <2> QED
    BY <1>1, <2>1 DEF GetEstimateMyRank
<1> QED
  BY <1>2, <1>3

(* The places of the players of a list, in order. *)
LEMMA ListedPlaces ==
  ASSUME table \in Ranking, NEW cat \in RankCategories, NEW voulus,
         NEW K, K = {k \in DOMAIN classement(cat) : classement(cat)[k] \in voulus}
  PROVE  \E listed \in [1 .. Cardinality(K) -> K] :
           /\ GetRankingByPIDs(cat, voulus)
                = [i \in 1 .. Cardinality(K) |-> [pid |-> classement(cat)[listed[i]], rank |-> listed[i]]]
           /\ \A k \in K : \E i \in 1 .. Cardinality(K) : listed[i] = k
           /\ \A i, j \in 1 .. Cardinality(K) : i < j => listed[i] < listed[j]
<1> DEFINE n == Cardinality(Ranked(cat))
           m == Cardinality(K)
           R == {e \in K \X K : e[1] < e[2]}
           Good(s) == \A i, j \in 1 .. m : i < j => s[i] < s[j]
           listed == CHOOSE s \in [1 .. m -> K] : Good(s)
<1>1. n \in Nat /\ DOMAIN classement(cat) = 1 .. n
  BY ClassementSorted
<1>2. K \subseteq 1 .. n /\ IsFiniteSet(1 .. n)
  BY <1>1, FS_Interval
<1>3. IsFiniteSet(K)
  BY <1>2, FS_Subset
<1>4. Orders(R, K) /\ \A x, y \in K : <<x, y>> \in R <=> x < y
  <2>1. \A x \in K : x \in Nat
    BY <1>2
  <2>2. \A x, y \in K : <<x, y>> \in R <=> x < y
    OBVIOUS
  <2> HIDE DEF R
  <2> QED
    BY <2>1, <2>2 DEF Orders
<1> HIDE DEF R
<1>5. ASSUME NEW s \in [1 .. m -> K]
      PROVE  Good(s) <=> InOrderOf(s, R, m)
  <2>1. \A i \in 1 .. m : s[i] \in K
    OBVIOUS
  <2> QED
    BY <1>4, <2>1 DEF InOrderOf
<1>6. \E s \in [1 .. m -> K] : Good(s)
  <2>1. PICK s \in [1 .. m -> K] : InOrderOf(s, R, m)
    BY <1>3, <1>4, SortExists
  <2> QED
    BY <1>5, <2>1
<1> HIDE DEF Good
<1>7. listed \in [1 .. m -> K] /\ Good(listed)
  BY <1>6
<1>8. GetRankingByPIDs(cat, voulus)
        = [i \in 1 .. m |-> [pid |-> classement(cat)[listed[i]], rank |-> listed[i]]]
  <2>1. GetRankingByPIDs(cat, voulus)
          = [i \in DOMAIN listed |-> RankLine(classement(cat)[listed[i]], listed[i])]
    BY DEF GetRankingByPIDs, Sorted, Good
  <2>2. DOMAIN listed = 1 .. m
    BY <1>7
  <2> HIDE DEF listed
  <2> QED
    BY <2>1, <2>2 DEF RankLine
<1> HIDE DEF listed
<1>9. \A k \in K : \E i \in 1 .. m : listed[i] = k
  <2>1. InOrderOf(listed, R, m)
    BY <1>5, <1>7
  <2>2. Placed(listed, R, K, m)
    BY <1>3, <1>4, <1>7, <2>1, SortPlaces
  <2> QED
    BY <2>2 DEF Placed
<1>10. \A i, j \in 1 .. m : i < j => listed[i] < listed[j]
  BY <1>7 DEF Good
<1> QED
  BY <1>7, <1>8, <1>9, <1>10

(* All of it together. *)
LEMMA RanksOfTable ==
  ASSUME table \in Ranking
  PROVE  RanksAgree
<1> SUFFICES ASSUME NEW cat \in RankCategories
             PROVE  LET tous == GetRanking(cat, 0, 0)
                        n    == Cardinality(PIDs) + 1
                    IN /\ \A k \in DOMAIN tous :
                            /\ tous[k].rank = Cardinality(Ahead(cat, tous[k].pid)) + 1
                            /\ GetEstimateMyRank(cat, tous[k].pid) = tous[k].rank
                       /\ \A p \in PIDs : table[cat][p] = Absent => GetEstimateMyRank(cat, p) = Len(tous) + 1
                       /\ \A m \in 1 .. n : GetRanking(cat, 0, m) \o GetRanking(cat, m, 0) = tous
                       /\ \A voulus \in SUBSET PIDs :
                            LET lines == GetRankingByPIDs(cat, voulus)
                            IN /\ Range(lines) = {l \in Range(tous) : l.pid \in voulus}
                               /\ \A i, j \in DOMAIN lines : i < j => lines[i].rank < lines[j].rank
  BY DEF RanksAgree
<1> DEFINE n == Cardinality(Ranked(cat))
           T == classement(cat)
           tous == Lines(cat)
<1>1. n \in Nat /\ DOMAIN T = 1 .. n
  BY ClassementSorted
<1>2. GetRanking(cat, 0, 0) = tous
  <2>1. 1 \in Nat \ {0}
    OBVIOUS
  <2> QED
    BY <2>1, PagesMeet
<1>3. /\ DOMAIN tous = 1 .. n /\ Len(tous) = n
      /\ \A k \in 1 .. n : tous[k] = [pid |-> T[k], rank |-> k]
  BY <1>1 DEF Lines
<1> HIDE DEF tous, n, T
<1>4. ASSUME NEW k \in DOMAIN tous
      PROVE  /\ tous[k].rank = Cardinality(Ahead(cat, tous[k].pid)) + 1
             /\ GetEstimateMyRank(cat, tous[k].pid) = tous[k].rank
  <2>1. k \in 1 .. n /\ tous[k].rank = k /\ tous[k].pid = T[k]
    BY <1>3
  <2>2. Cardinality(Ahead(cat, T[k])) = k - 1 /\ GetEstimateMyRank(cat, T[k]) = k
    BY <2>1, ClassementPlaces, Estimate DEF n, T
  <2> QED
    BY <1>1, <2>1, <2>2
<1>5. ASSUME NEW p \in PIDs, table[cat][p] = Absent
      PROVE  GetEstimateMyRank(cat, p) = Len(tous) + 1
  BY <1>3, <1>5, Estimate DEF n
<1>6. ASSUME NEW m \in 1 .. Cardinality(PIDs) + 1
      PROVE  GetRanking(cat, 0, m) \o GetRanking(cat, m, 0) = tous
  <2>1. Cardinality(PIDs) \in Nat
    BY FS_CardinalityType, Ranking2Assumption
  <2>2. m \in Nat \ {0}
    BY <2>1
  <2> QED
    BY <2>2, PagesMeet DEF tous
<1>7. ASSUME NEW voulus \in SUBSET PIDs, NEW lines, lines = GetRankingByPIDs(cat, voulus)
      PROVE  /\ Range(lines) = {l \in Range(tous) : l.pid \in voulus}
             /\ \A i, j \in DOMAIN lines : i < j => lines[i].rank < lines[j].rank
  <2> DEFINE K == {k \in DOMAIN T : T[k] \in voulus}
             m == Cardinality(K)
  <2>1. PICK listed \in [1 .. m -> K] :
          /\ lines = [i \in 1 .. m |-> [pid |-> T[listed[i]], rank |-> listed[i]]]
          /\ \A k \in K : \E i \in 1 .. m : listed[i] = k
          /\ \A i, j \in 1 .. m : i < j => listed[i] < listed[j]
    BY <1>7, ListedPlaces DEF T
  <2>2. \A k \in K : k \in 1 .. n /\ T[k] \in voulus
    BY <1>1
  <2>3. \A k \in 1 .. n : T[k] \in voulus => k \in K
    BY <1>1
  <2> HIDE DEF K, m
  <2>4. DOMAIN lines = 1 .. m /\ \A i \in 1 .. m : listed[i] \in 1 .. n /\ lines[i] = tous[listed[i]]
    BY <1>3, <2>1, <2>2
  <2>5. \A i \in 1 .. m : lines[i].rank = listed[i] /\ lines[i].pid = T[listed[i]]
    BY <2>1
  <2>6. Range(lines) \subseteq {l \in Range(tous) : l.pid \in voulus}
    BY <1>3, <2>1, <2>2, <2>4, <2>5 DEF Range
  <2>7. ASSUME NEW l \in Range(tous), l.pid \in voulus
        PROVE  l \in Range(lines)
    <3>1. PICK k \in 1 .. n : l = tous[k]
      BY <1>3 DEF Range
    <3>2. k \in K
      BY <1>3, <2>3, <2>7, <3>1
    <3>3. PICK i \in 1 .. m : listed[i] = k
      BY <2>1, <3>2
    <3> QED
      BY <2>4, <3>1, <3>3 DEF Range
  <2> QED
    BY <2>1, <2>4, <2>5, <2>6, <2>7
<1> QED
  BY <1>2, <1>4, <1>5, <1>6, <1>7

-----------------------------------------------------------------------------
(* The theorems *)

Inv ==
  /\ Common
  /\ store = "ranking2" => RankingOK
  /\ store = "referee" => RefereeOK
  /\ store = "profiles" => ProfilesOK

(* It holds before the file has been read. *)
LEMMA InitInv ==
  ASSUME Init
  PROVE  Inv
<1>1. /\ ~up /\ ~modifie /\ ~overlapped
      /\ pc = [w \in Handlers |-> "idle"] /\ req = [w \in Handlers |-> Absent]
      /\ snap = [w \in Handlers |-> Absent] /\ fd = [w \in Handlers |-> "closed"]
      /\ tmp = NoFile /\ file = NoFile /\ store \in {"ranking2", "referee", "profiles"}
  BY StoresAssumption DEF Init, Ranking2Init, RefereeInit, ProfilesInit, WriteThroughInit
<1>2. Common
  <2>1. Types
    BY <1>1 DEF Types, Steps, Content, Unreadable
  <2>2. WriterOK
    BY <1>1, WriteThroughAssumption DEF WriterOK, Busy
  <2> QED
    BY <1>1, <2>1, <2>2 DEF Common, Stopped
<1>3. ASSUME store = "ranking2"
      PROVE  RankingOK
  <2>1. table = NoScores
    BY <1>3 DEF Init, Ranking2Init, WriteThroughInit
  <2> QED
    BY <1>1, <2>1 DEF RankingOK, RankingTyped, FlagSeen, RankingSaved, NoScores, Ranking
<1>4. ASSUME store = "referee"
      PROVE  RefereeOK
  <2>1. /\ table = NoStats /\ heap = <<>> /\ mu = Absent /\ manches = <<>> /\ stale = {}
        /\ tally = NoTally
    BY <1>4 DEF Init, RefereeInit, WriteThroughInit
  <2>2. RecordsIn(NoStats, <<>>) /\ CountsOf(NoStats, <<>>) = NoTally
    BY DEF RecordsIn, NoStats, Places, CountsOf, NoTally
  <2>3. \A w \in Handlers : RoundOK(w)
    BY <1>1, <2>1 DEF RoundOK
  <2>4. LockOK /\ ChangeSeen /\ StatsSaved /\ manches \in Seq(RoundCategories)
    BY <1>1, <2>1 DEF LockOK, ChangeSeen, StatsSaved, QuietStats
  <2> QED
    BY <2>1, <2>2, <2>3, <2>4 DEF RefereeOK
<1>5. ASSUME store = "profiles"
      PROVE  ProfilesOK
  <2>1. table = NoProfiles
    BY <1>5 DEF Init, ProfilesInit, WriteThroughInit
  <2> QED
    BY <1>1, <2>1 DEF ProfilesOK, ProfileTyped, CopyFresh, ProfilesSaved, NoProfiles, ProfileTables, Busy
<1> QED
  BY <1>2, <1>3, <1>4, <1>5 DEF Inv

(* And every step keeps it. *)
LEMMA StepInv ==
  ASSUME Inv, [Next]_vars
  PROVE  Inv'
<1>1. CASE Next
  <2>1. CASE store = "ranking2" /\ Ranking2Next /\ store' = store
    BY <2>1, RankingStep DEF Inv
  <2>2. CASE store = "referee" /\ RefereeNext /\ store' = store
    BY <2>2, RefereeStep DEF Inv
  <2>3. CASE store = "profiles" /\ ProfilesNext /\ store' = store
    BY <2>3, ProfilesStep DEF Inv
  <2> QED
    BY <1>1, <2>1, <2>2, <2>3 DEF Next
<1>2. CASE UNCHANGED vars
  <2>1. /\ UNCHANGED <<heap, mu, manches, stale, tally, store>>
        /\ UNCHANGED <<up, table, modifie, pc, req, snap, fd, tmp, file, overlapped, failed>>
    BY <1>2 DEF vars, throughVars, refereeVars, osVars, faultVars
  <2>2. Common'
    BY <2>1 DEF Inv, Common, Types, OfStore, Content, Steps, WriterOK, Stopped
  <2>3. RankingOK => RankingOK'
    BY <2>1 DEF RankingOK, RankingTyped, FlagSeen, RankingSaved, Holds
  <2>4. RefereeOK => RefereeOK'
    BY <2>1 DEF RefereeOK, RoundOK, Key, LockOK, ChangeSeen, StatsSaved, QuietStats, SavedAs, Holds
  <2>5. ProfilesOK => ProfilesOK'
    BY <2>1 DEF ProfilesOK, ProfileTyped, CopyFresh, WillSave, ProfilesSaved, InFile, Serves
  <2> QED
    BY <2>1, <2>2, <2>3, <2>4, <2>5 DEF Inv
<1> QED
  BY <1>1, <1>2

(* The inductive invariant holds in every state. *)
LEMMA AlwaysInv == Spec => []Inv
<1>1. Init => Inv
  BY InitInv
<1>2. Inv /\ [Next]_vars => Inv'
  BY StepInv
<1> QED
  BY <1>1, <1>2, PTL DEF Spec

(* FileWhole for any number of handlers, failures and crashes: the profiles' file can be *)
(* read whenever the process ends, because smm2EcritureMu covers the whole write; the    *)
(* other two can as long as no two calls of Ecrire overlapped.                           *)
THEOREM FileAlwaysWhole == Spec => []FileWhole
<1>1. Inv => FileWhole
  BY DEF Inv, Common, Types, WriterOK, ProfilesOK, ProfileTyped, FileWhole
<1> QED
  BY <1>1, AlwaysInv, PTL

(* AnsweredIsSaved: a profile is in the file when its player has been answered, whatever *)
(* the Range of another handler has read of it, and the scores and the records are when  *)
(* every handler has answered, unless two of them wrote at the same time.                *)
THEOREM AnsweredAlwaysSaved == Spec => []AnsweredIsSaved
<1>1. ASSUME Inv, store = "profiles", up, ~failed, NEW p \in Makers,
             \A w \in Handlers : req[w] = Absent \/ req[w].pid # p
      PROVE  IF file = NoFile THEN table[p] = Absent ELSE file[p] = table[p]
  BY <1>1 DEF Inv, ProfilesOK, ProfilesSaved, InFile, Serves
<1>2. ASSUME Inv, store = "ranking2", Settled, ~overlapped
      PROVE  Holds(table, NoScores)
  <2>1. up /\ ~failed /\ \A w \in Handlers : pc[w] = "idle" /\ pc[w] \notin Busy
    BY <1>2 DEF Settled, Busy
  <2>2. ~modifie
    BY <1>2, <2>1 DEF Inv, RankingOK, FlagSeen
  <2> QED
    BY <1>2, <2>1, <2>2 DEF Inv, RankingOK, RankingSaved
<1>3. ASSUME Inv, store = "referee", Settled, ~overlapped
      PROVE  Holds(Stats, NoStats)
  <2>1. up /\ ~failed /\ \A w \in Handlers : pc[w] = "idle" /\ pc[w] \notin Busy
    BY <1>3 DEF Settled, Busy
  <2>2. ~modifie /\ mu = Absent
    BY <1>3, <2>1 DEF Inv, RefereeOK, ChangeSeen, LockOK, Playing
  <2>3. SavedAs(StatsOf(table, heap))
    BY <1>3, <2>1, <2>2 DEF Inv, RefereeOK, StatsSaved, QuietStats
  <2>4. Stats = StatsOf(table, heap)
    BY DEF Stats, StatsOf
  <2> QED
    BY <2>1, <2>3, <2>4 DEF SavedAs
<1>4. Inv => AnsweredIsSaved
  BY <1>1, <1>2, <1>3 DEF AnsweredIsSaved
<1> QED
  BY <1>4, AlwaysInv, PTL

(* ResultsCounted: whatever resets, creations and reports of other handlers come between *)
(* taking the pointer and counting through it, a result counts once in the record of its *)
(* player, and one taken up before a reset is not brought back.                          *)
THEOREM ResultsAlwaysCounted == Spec => []ResultsCounted
<1>1. ASSUME Inv, store = "referee", NEW k \in Keys
      PROVE  tally[k] = IF table[k] = Absent THEN NoTally[k] ELSE Stats[k].count
  <2>1. tally[k] = CountsOf(table, heap)[k]
    BY <1>1 DEF Inv, RefereeOK
  <2>2. CountsOf(table, heap)[k] = IF table[k] = Absent THEN NoTally[k] ELSE heap[table[k]].count
    BY DEF CountsOf
  <2>3. table[k] # Absent => Stats[k] = heap[table[k]]
    BY DEF Stats
  <2> QED
    BY <2>1, <2>2, <2>3
<1>2. Inv => ResultsCounted
  BY <1>1 DEF ResultsCounted, ResultsCountOnce
<1> QED
  BY <1>2, AlwaysInv, PTL

(* RanksCoherent: in every state of the table the page, the list and the estimate give a  *)
(* player the rank that its score and its PID give it, for any number of players and      *)
(* categories: classement leaves no two of them in the same place.                        *)
THEOREM RanksAlwaysCoherent == Spec => []RanksCoherent
<1>1. Inv => RanksCoherent
  BY RanksOfTable DEF Inv, RankingOK, RankingTyped, RanksCoherent
<1> QED
  BY <1>1, AlwaysInv, PTL
=============================================================================
