------------------------------- MODULE Boards -------------------------------
(***************************************************************************)
(* The boards of the tournaments (ranking_board.go): per tournament and    *)
(* category the best score of each player, with the profile the player     *)
(* last sent.  Every access is under boardsMu, the flag included, and the  *)
(* flusher copies the whole table under it.  The time of a score only      *)
(* orders equal scores and is left out.                                    *)
(***************************************************************************)
EXTENDS WriteBehind

CONSTANTS
  Racers,      \* players of the tournaments
  BoardKeys,   \* pairs of a tournament and a category
  Scores, Profiles

Entry == [score : Scores, profile : Profiles]

ASSUME BoardsAssumption == Scores \subseteq Nat /\ Absent \notin Entry

NoBoards == [k \in BoardKeys \X Racers |-> Absent]

BoardsInit == WriteBehindInit(NoBoards, NoBoards)

(* Entries with a profile of another length or without a tournament are       *)
(* skipped; recordScore makes none.                                           *)
boardInit == Load(disk) \/ LoadFails(NoBoards)

(* A score that is not better only brings the new profile. *)
recordScore(k, p, s, f) ==
  LET prev == table[<<k, p>>]
      kept == prev # Absent /\ prev.score >= s
  IN /\ ChangeAndMark([table EXCEPT ![<<k, p>>] =
           [score |-> IF kept THEN prev.score ELSE s, profile |-> f]])
     /\ UNCHANGED flusherVars

CollectBoards ==
  /\ pc = "collect"
  /\ snap' = table /\ pc' = "write"
  /\ UNCHANGED <<loaded, table, marking, dirty, todo, diskVars>>

BoardsFlusher == SwapFlag \/ CollectBoards \/ WriteFile \/ WriteFails

BoardsNext ==
  \/ boardInit
  \/ \E k \in BoardKeys, p \in Racers, s \in Scores, f \in Profiles : recordScore(k, p, s, f)
  \/ BoardsFlusher
  \/ Crash(NoBoards)

-----------------------------------------------------------------------------
(* Once nothing waits to be written the file holds the boards in memory. *)
BoardsSaved == Quiet => disk = table

(* A score that has once been in the file is never replaced there by a      *)
(* smaller one and never disappears, whatever is submitted afterwards and   *)
(* wherever the process crashes and reads its file again; unless it could   *)
(* not read the file, which its first write then replaces.                  *)
KeepsSavedScores ==
  unread \/ \A k \in DOMAIN disk :
    disk[k] # Absent => disk'[k] # Absent /\ disk'[k].score >= disk[k].score
=============================================================================
