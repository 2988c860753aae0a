---------------------------- MODULE WriteThrough ----------------------------
(***************************************************************************)
(* A table in memory that the handler of a request writes to a file before *)
(* it answers: what Ecrire of Ranking2Store, Ecrire of MagasinStats and    *)
(* smm2SauverProfils have in common.  Each marshals the table, makes sure  *)
(* of the directory, writes <file>.tmp and renames it.  Handlers of        *)
(* different connections run at the same time, and all of them use the     *)
(* same name for the temporary file.                                       *)
(*                                                                         *)
(* The file system (os.WriteFile, os.Rename) is external.  os.WriteFile    *)
(* opens with O_TRUNC and then writes: a step each.  A descriptor follows  *)
(* its file when that is renamed, and a write to a file another handler    *)
(* has written since it was emptied leaves the new bytes only if they      *)
(* cover the old ones.                                                     *)
(***************************************************************************)
EXTENDS Naturals, Sequences, TLC

CONSTANTS
  Handlers,                 \* connections, each with at most one request in progress
  NoFile, Empty, Torn,      \* no file of that name; a file without bytes; one that does not parse
  Absent,                   \* no entry under a key
  MaxRequests, MaxFailures, MaxCrashes   \* bounds of the instance

ASSUME WriteThroughAssumption ==
  /\ MaxRequests \in Nat /\ MaxFailures \in Nat /\ MaxCrashes \in Nat
  /\ NoFile \notin {Empty, Torn} /\ Absent \notin Handlers

VARIABLES
  up,           \* the file has been read since the process started
  table,        \* the table in memory
  modifie,      \* the table has changed since it was last marshalled
  pc, req,      \* of each handler: where it stands, what it is about
  snap,         \* of each handler: the bytes it is about to write
  fd,           \* of each handler: the file it has open: "tmp", "file", "gone" or "closed"
  tmp, file,    \* contents under the two names
  failed,       \* history: the newest write has failed
  overlapped,   \* history: a handler began to write while another had not finished
  requests, failures, crashes

osVars    == <<fd, tmp, file>>
faultVars == <<failed, failures, crashes>>
throughVars == <<up, table, modifie, pc, req, snap, osVars, overlapped, requests, faultVars>>

Unreadable == {NoFile, Empty, Torn}

WriteThroughInit(t) ==
  /\ up = FALSE /\ table = t /\ modifie = FALSE
  /\ pc = [w \in Handlers |-> "idle"] /\ req = [w \in Handlers |-> Absent]
  /\ snap = [w \in Handlers |-> Absent] /\ fd = [w \in Handlers |-> "closed"]
  /\ tmp = NoFile /\ file = NoFile
  /\ failed = FALSE /\ overlapped = FALSE /\ requests = 0 /\ failures = 0 /\ crashes = 0

\* Handlers that have marshalled, or begun to, and not renamed yet.
Writing == {w \in Handlers : pc[w] \in {"marshal", "open", "fill", "rename"}}

Goto(w, at) == pc' = [pc EXCEPT ![w] = at]

\* A request arrives.
Begin(w, at, r) ==
  /\ up /\ pc[w] = "idle" /\ requests < MaxRequests
  /\ requests' = requests + 1
  /\ Goto(w, at) /\ req' = [req EXCEPT ![w] = r]

Answer(w) ==
  /\ Goto(w, "idle")
  /\ req' = [req EXCEPT ![w] = Absent] /\ snap' = [snap EXCEPT ![w] = Absent]

Fails(w) ==
  /\ failures < MaxFailures /\ failures' = failures + 1 /\ failed' = TRUE
  /\ Answer(w)

(* MkdirAll, and the open of os.WriteFile: truncates what is there. *)
OpenTmp(w) ==
  /\ pc[w] = "open"
  /\ tmp' = Empty /\ fd' = [fd EXCEPT ![w] = "tmp"]
  /\ Goto(w, "fill")
  /\ UNCHANGED <<up, table, modifie, req, snap, file, overlapped, requests, faultVars>>

OpenFails(w) ==
  /\ pc[w] = "open" /\ Fails(w)
  /\ UNCHANGED <<up, table, modifie, osVars, overlapped, requests, crashes>>

Written(old, new) == IF old = Empty THEN {new} ELSE {new, Torn}

\* The file under the descriptor of w becomes one of `contents', and is closed.
Fill(w, contents(_)) ==
  /\ fd' = [fd EXCEPT ![w] = "closed"]
  /\ IF fd[w] = "tmp" THEN tmp' \in contents(tmp) ELSE tmp' = tmp
  /\ IF fd[w] = "file" THEN file' \in contents(file) ELSE file' = file

(* The write of os.WriteFile. *)
FillTmp(w) ==
  /\ pc[w] = "fill"
  /\ LET contents(old) == Written(old, snap[w]) IN Fill(w, contents)
  /\ Goto(w, "rename")
  /\ UNCHANGED <<up, table, modifie, req, snap, overlapped, requests, faultVars>>

FillFails(w) ==
  /\ pc[w] = "fill" /\ Fails(w)
  /\ LET contents(old) == {Torn} IN Fill(w, contents)
  /\ UNCHANGED <<up, table, modifie, overlapped, requests, crashes>>

(* os.Rename: the descriptors follow their files. *)
RenameTmp(w) ==
  /\ pc[w] = "rename" /\ tmp # NoFile
  /\ file' = tmp /\ tmp' = NoFile
  /\ fd' = [v \in Handlers |-> CASE fd[v] = "tmp" -> "file"
                                 [] fd[v] = "file" -> "gone"
                                 [] OTHER -> fd[v]]
  /\ Answer(w) /\ failed' = FALSE
  /\ UNCHANGED <<up, table, modifie, overlapped, requests, failures, crashes>>

\* Another handler has already renamed the file.
RenameMisses(w) ==
  /\ pc[w] = "rename" /\ tmp = NoFile
  /\ Answer(w) /\ failed' = TRUE
  /\ UNCHANGED <<up, table, modifie, osVars, overlapped, requests, failures, crashes>>

RenameFails(w) ==
  /\ pc[w] = "rename" /\ tmp # NoFile /\ Fails(w)
  /\ UNCHANGED <<up, table, modifie, osVars, overlapped, requests, crashes>>

WriteSteps(w) ==
  OpenTmp(w) \/ OpenFails(w) \/ FillTmp(w) \/ FillFails(w) \/ RenameTmp(w) \/ RenameMisses(w)

(* The process ends at any moment; it starts again with the empty table `t'. *)
Crash(t) ==
  /\ up /\ crashes < MaxCrashes /\ crashes' = crashes + 1
  /\ up' = FALSE /\ table' = t /\ modifie' = FALSE
  /\ pc' = [w \in Handlers |-> "idle"] /\ req' = [w \in Handlers |-> Absent]
  /\ snap' = [w \in Handlers |-> Absent] /\ fd' = [w \in Handlers |-> "closed"]
  /\ failed' = FALSE
  /\ UNCHANGED <<tmp, file, overlapped, requests, failures>>

\* Start of the process, once the table `t' has been read.
Start(t) ==
  /\ ~up
  /\ up' = TRUE /\ table' = t
  /\ UNCHANGED <<modifie, pc, req, snap, osVars, overlapped, requests, faultVars>>

Settled == up /\ ~failed /\ \A w \in Handlers : pc[w] = "idle"
=============================================================================
