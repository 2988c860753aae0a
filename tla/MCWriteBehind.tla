---------------------------- MODULE MCWriteBehind ----------------------------
(***************************************************************************)
(* The four tables that are written behind.  They share no state and each  *)
(* has its own file and flusher, so a behaviour follows one of them,       *)
(* chosen at the start.                                                    *)
(***************************************************************************)
EXTENDS Tournaments, Boards, CommonData, AuthRecall

CONSTANT home   \* an address

\* Both accounts log in from one address, nobody from the others.
SharedAddress == {home} \X Accounts

VARIABLE store   \* the table this behaviour follows

vars == <<loaded, table, marking, dirty, pc, todo, snap, disk, failed, unread, crashes, failures,
          nextID, clock, seen, expiring, logins, foreign, store>>

\* Fixed values for the variables of the tables that are not followed.
NotTournaments == nextID = FirstID
NotAuthRecall  ==
  clock = 0 /\ seen = NotSeen /\ expiring = {} /\ logins = NoLogins /\ foreign = FALSE

Init ==
  \/ store = "tournaments" /\ TournamentsInit /\ NotAuthRecall
  \/ store = "boards" /\ BoardsInit /\ NotTournaments /\ NotAuthRecall
  \/ store = "profiles" /\ CommonDataInit /\ NotTournaments /\ NotAuthRecall
  \/ store = "recalls" /\ AuthRecallInit /\ NotTournaments

Next ==
  \/ store = "tournaments" /\ TournamentsNext /\ UNCHANGED <<authVars, store>>
  \/ store = "boards" /\ BoardsNext /\ UNCHANGED <<nextID, authVars, store>>
  \/ store = "profiles" /\ CommonDataNext /\ UNCHANGED <<nextID, authVars, store>>
  \/ store = "recalls" /\ AuthRecallNext /\ UNCHANGED <<nextID, store>>

Spec == Init /\ [][Next]_vars

-----------------------------------------------------------------------------
(* In each of the four tables: once the flag is down, the flusher idle, the *)
(* newest write successful and the file one this process has read or        *)
(* written, what is in memory is in the file.                               *)
SavedWhenQuiet ==
  /\ store = "tournaments" => TournamentsSaved
  /\ store = "boards"      => BoardsSaved
  /\ store = "profiles" => ProfilesStored
  /\ store = "recalls" => RecallsSaved

(* No step wipes a recorded tournament that does not validate from the      *)
(* file, or gives the identifier of a recorded one to a new one; no step    *)
(* takes back a score the file of the boards once held: over any number of  *)
(* submissions, deletions, writes, crashes and restarts, but for the first  *)
(* write of a process that could not read its file and started empty.       *)
RecordsStand ==
  [][/\ store = "tournaments" => KeepsRecorded
     /\ store = "boards"      => KeepsSavedScores]_vars

(* A console without a ticket becomes an account that logged in from its    *)
(* address within authRecallTTL, never by a login older than the file's     *)
(* (RecallAuthPID).                                                         *)
InheritedLoggedInHere == store = "recalls" => RecallsOfTheAddress
==============================================================================
