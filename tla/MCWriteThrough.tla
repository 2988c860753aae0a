--------------------------- MODULE MCWriteThrough ---------------------------
(***************************************************************************)
(* The three tables that the handlers write themselves.  They share no     *)
(* state and each has its own file, so a behaviour follows one of them,    *)
(* chosen at the start.                                                    *)
(***************************************************************************)
EXTENDS Ranking2, Referee, Profiles

CONSTANT Stores   \* the tables this instance follows

ASSUME StoresAssumption == Stores \subseteq {"ranking2", "referee", "profiles"}

VARIABLE store    \* the one this behaviour follows

vars == <<throughVars, refereeVars, store>>

NotReferee == heap = <<>> /\ mu = Absent /\ manches = <<>> /\ stale = {} /\ tally = NoTally

MCScoreLists ==
  {<<>>, <<[cat |-> 1, score |-> 1]>>,
   <<[cat |-> 1, score |-> 2], [cat |-> 2, score |-> 1]>>}

MCReports ==
  {<<[pid |-> "p1", winLoss |-> 1, delta |-> 3]>>,
   <<[pid |-> "p1", winLoss |-> 2, delta |-> -1], [pid |-> "p1", winLoss |-> 0, delta |-> 0]>>}

Symmetry == Permutations(Handlers)

Init ==
  /\ store \in Stores
  /\ \/ store = "ranking2" /\ Ranking2Init /\ NotReferee
     \/ store = "referee" /\ RefereeInit
     \/ store = "profiles" /\ ProfilesInit /\ NotReferee

Next ==
  \/ store = "ranking2" /\ Ranking2Next /\ UNCHANGED <<refereeVars, store>>
  \/ store = "referee" /\ RefereeNext /\ UNCHANGED store
  \/ store = "profiles" /\ ProfilesNext /\ UNCHANGED <<refereeVars, store>>

Spec == Init /\ [][Next]_vars

-----------------------------------------------------------------------------
Holds(t, empty) == IF file \in Unreadable THEN t = empty ELSE file = t

(* The file can be read at the next start, whenever the process ends: the    *)
(* profiles always, the scores and the records as long as two handlers never *)
(* wrote at the same time.                                                   *)
FileWhole ==
  store = "profiles" \/ ~overlapped => file \notin {Empty, Torn}

(* A profile is in the file when its player has been answered, whatever the *)
(* other handlers are doing.  The scores and the records are in their file  *)
(* when every handler has answered, unless two of them wrote at the same    *)
(* time.                                                                    *)
AnsweredIsSaved ==
  /\ store = "profiles" /\ up /\ ~failed =>
       \A p \in Makers : (\A w \in Handlers : req[w] = Absent \/ req[w].pid # p) =>
         IF file = NoFile THEN table[p] = Absent ELSE file[p] = table[p]
  /\ store = "ranking2" /\ Settled /\ ~overlapped => Holds(table, NoScores)
  /\ store = "referee" /\ Settled /\ ~overlapped => Holds(Stats, NoStats)

(* Every result of a round counts once in its player's record: see          *)
(* ResultsCountOnce of module Referee.                                      *)
ResultsCounted == store = "referee" => ResultsCountOnce

(* All answers about ranks agree: see RanksAgree of module Ranking2. *)
RanksCoherent == store = "ranking2" => RanksAgree

(* What the comment on Ecrire says of the ranking: an interruption at the *)
(* wrong moment leaves the previous file, never one that does not parse.  *)
InterruptionKeepsFile == ~up => file \notin {Empty, Torn}
=============================================================================
