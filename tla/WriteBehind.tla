----------------------------- MODULE WriteBehind -----------------------------
(***************************************************************************)
(* A table in memory that a background goroutine copies to a file: what    *)
(* authRecallFlusher, tournamentFlusher, boardFlusher and                  *)
(* commonDataFlusher have in common.  An operation changes the table and   *)
(* raises a flag; every five seconds the flusher swaps the flag down,      *)
(* collects the table, writes a temporary file and renames it.  The file   *)
(* is read once, at the first use of the table; when it cannot be read or  *)
(* parsed the table starts empty, and the next flush writes it over the    *)
(* file.                                                                   *)
(*                                                                         *)
(* There is one flusher per file, so writing and renaming are one step:    *)
(* the old file stays until the rename (a crash in between is a crash      *)
(* before this step).  The result of the write is not looked at beyond     *)
(* leaving the rename out: a failed write is not tried again.              *)
(***************************************************************************)
EXTENDS Naturals

CONSTANTS
  Absent,       \* no entry under a key
  MaxCrashes, MaxFailures, MaxMarking   \* bounds of the instance

ASSUME WriteBehindAssumption ==
  MaxCrashes \in Nat /\ MaxFailures \in Nat /\ MaxMarking \in Nat \ {0}

VARIABLES
  loaded,    \* the sync.Once of the table has run
  table,     \* the table in memory
  marking,   \* operations that have changed the table and not yet raised the flag
  dirty,     \* the flag
  pc,        \* flusher: "idle", "collect" or "write"
  todo,      \* flusher: what is left to collect
  snap,      \* flusher: what it has collected
  disk,      \* the file
  failed,    \* history: the newest write has failed
  unread,    \* history: this process could not read the file that is still there
  crashes, failures

flusherVars == <<pc, todo, snap>>
diskVars    == <<disk, failed, unread, crashes, failures>>

\* Process start, with the file `d' on disk and the empty table `t'.
WriteBehindInit(t, d) ==
  /\ loaded = FALSE /\ table = t /\ marking = 0 /\ dirty = FALSE
  /\ pc = "idle" /\ todo = {} /\ snap = t
  /\ disk = d /\ failed = FALSE /\ unread = FALSE /\ crashes = 0 /\ failures = 0

(* The file is read before the first operation, which is inside the Once. *)
Load(t) ==
  /\ ~loaded
  /\ loaded' = TRUE /\ table' = t
  /\ UNCHANGED <<marking, dirty, flusherVars, diskVars>>

(* ReadFile or Unmarshal fails: the table stays empty, `t', and the file as it is. *)
LoadFails(t) ==
  /\ ~loaded /\ failures < MaxFailures
  /\ loaded' = TRUE /\ table' = t /\ unread' = TRUE /\ failures' = failures + 1
  /\ UNCHANGED <<marking, dirty, flusherVars, disk, failed, crashes>>

(* An operation that stores first and raises the flag in a second step. *)
ChangeThenMark(t) ==
  /\ loaded /\ marking < MaxMarking
  /\ table' = t /\ marking' = marking + 1
  /\ UNCHANGED <<loaded, dirty, diskVars>>

MarkDirty ==
  /\ marking > 0
  /\ marking' = marking - 1 /\ dirty' = TRUE
  /\ UNCHANGED <<loaded, table, flusherVars, diskVars>>

(* An operation that does both under the lock of the table. *)
ChangeAndMark(t) ==
  /\ loaded
  /\ table' = t /\ dirty' = TRUE
  /\ UNCHANGED <<loaded, marking, diskVars>>

(* A tick of the flusher: nothing happens when the flag is down. *)
SwapFlag ==
  /\ loaded /\ pc = "idle" /\ dirty
  /\ dirty' = FALSE /\ pc' = "collect"
  /\ UNCHANGED <<loaded, table, marking, todo, snap, diskVars>>

WriteFile_LowersFlag ==
  /\ pc = "write"
  /\ pc' = "idle" /\ disk' = snap /\ failed' = FALSE /\ unread' = FALSE /\ dirty' = FALSE
  /\ UNCHANGED <<loaded, table, marking, todo, snap, crashes, failures>>

WriteFile ==
  /\ pc = "write"
  /\ pc' = "idle" /\ disk' = snap /\ failed' = FALSE /\ unread' = FALSE
  /\ UNCHANGED <<loaded, table, marking, dirty, todo, snap, crashes, failures>>

WriteFails ==
  /\ pc = "write" /\ failures < MaxFailures
  /\ pc' = "idle" /\ failed' = TRUE /\ failures' = failures + 1
  /\ UNCHANGED <<loaded, table, marking, dirty, todo, snap, disk, unread, crashes>>

(* The process ends at any moment and starts again with an empty table `t'. *)
Crash(t) ==
  /\ loaded /\ crashes < MaxCrashes
  /\ crashes' = crashes + 1
  /\ loaded' = FALSE /\ table' = t /\ marking' = 0 /\ dirty' = FALSE
  /\ pc' = "idle" /\ todo' = {} /\ snap' = t
  /\ failed' = FALSE /\ unread' = FALSE
  /\ UNCHANGED <<disk, failures>>

\* Nothing of the table waits to be written, and the file is one this process has read or
\* written.
Quiet == loaded /\ marking = 0 /\ ~dirty /\ pc = "idle" /\ ~failed /\ ~unread
=============================================================================
