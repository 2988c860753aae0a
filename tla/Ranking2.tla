------------------------------ MODULE Ranking2 ------------------------------
(***************************************************************************)
(* The best score of each player in each category (ranking2.go,            *)
(* ranking2_scores.go).  An entry is its score: the rest of it travels     *)
(* with the score and is not looked at.                                    *)
(***************************************************************************)
EXTENDS WriteThrough, FiniteSets, Functions

CONSTANTS
  PIDs,           \* players: naturals, the tie-break of the ranking compares them
  ScoreLists,     \* what a PutScore may carry: sequences of [cat, score]
  RankCategories

Ranking == [RankCategories -> [PIDs -> {Absent} \cup Nat]]

ASSUME Ranking2Assumption ==
  /\ IsFiniteSet(PIDs) /\ PIDs \subseteq Nat
  /\ ScoreLists \subseteq Seq([cat : RankCategories, score : Nat])
  /\ \A bytes \in Unreadable : bytes \notin Ranking

NoScores == [c \in RankCategories |-> [p \in PIDs |-> Absent]]

Ranking2Init == WriteThroughInit(NoScores)

(* NewRanking2Store and Charger: a file that does not parse is an empty ranking. *)
Ranking2Charger == Start(IF file \in Unreadable THEN NoScores ELSE file)

PutScore(w, p, scores) ==
  /\ Begin(w, "scores", [pid |-> p, scores |-> scores])
  /\ UNCHANGED <<up, table, modifie, snap, osVars, overlapped, faultVars>>

Better(old, score) == old = Absent \/ score > old

(* deposer, once per score of the list: a critical section each. *)
deposer(w) ==
  /\ pc[w] = "scores" /\ req[w].scores # <<>>
  /\ LET sd  == Head(req[w].scores)
         old == table[sd.cat][req[w].pid]
     IN IF Better(old, sd.score)
        THEN table' = [table EXCEPT ![sd.cat][req[w].pid] = sd.score] /\ modifie' = TRUE
        ELSE UNCHANGED <<table, modifie>>
  /\ req' = [req EXCEPT ![w].scores = Tail(@)]
  /\ UNCHANGED <<up, pc, snap, osVars, overlapped, requests, faultVars>>

(* Ecrire up to the unlock: nothing to do, or the table marshalled and the flag down. *)
Ranking2Ecrire(w) ==
  /\ pc[w] = "scores" /\ req[w].scores = <<>>
  /\ \/ ~modifie /\ Answer(w) /\ UNCHANGED <<overlapped, modifie>>
     \/ /\ modifie /\ modifie' = FALSE
        /\ Goto(w, "open") /\ req' = req /\ snap' = [snap EXCEPT ![w] = table]
        /\ overlapped' = (overlapped \/ Writing # {})
  /\ UNCHANGED <<up, table, osVars, requests, faultVars>>

Ranking2Crash == Crash(NoScores)

Ranking2Next ==
  \/ Ranking2Charger
  \/ \E w \in Handlers :
       \/ \E p \in PIDs, scores \in ScoreLists : PutScore(w, p, scores)
       \/ deposer(w)
       \/ Ranking2Ecrire(w)
       \/ WriteSteps(w) \/ RenameFails(w)
  \/ Ranking2Crash

-----------------------------------------------------------------------------
(* What the reading methods answer from the table. *)
Ranked(cat) == {p \in PIDs : table[cat][p] # Absent}

(* sort.Slice, of members that `less' always tells apart. *)
Sorted(S, less(_, _)) ==
  CHOOSE s \in [1 .. Cardinality(S) -> S] :
    \A i, j \in 1 .. Cardinality(S) : i < j => less(s[i], s[j])

(* The better score first, then the smaller PID. *)
classement(cat) ==
  LET before(p, q) == \/ table[cat][p] > table[cat][q]
                      \/ table[cat][p] = table[cat][q] /\ p < q
  IN Sorted(Ranked(cat), before)

RankLine(p, rank) == [pid |-> p, rank |-> rank]

GetRanking_RankInPage(cat, offset, length) ==
  LET tous  == classement(cat)
      debut == IF offset > Len(tous) THEN Len(tous) ELSE offset
      fin   == IF length > 0 /\ debut + length < Len(tous) THEN debut + length ELSE Len(tous)
  IN [k \in 1 .. fin - debut |-> RankLine(tous[debut + k], k)]

GetRanking(cat, offset, length) ==
  LET tous  == classement(cat)
      debut == IF offset > Len(tous) THEN Len(tous) ELSE offset
      fin   == IF length > 0 /\ debut + length < Len(tous) THEN debut + length ELSE Len(tous)
  IN [k \in 1 .. fin - debut |-> RankLine(tous[debut + k], debut + k)]

GetRankingByPIDs(cat, voulus) ==
  LET tous   == classement(cat)
      listed == Sorted({k \in DOMAIN tous : tous[k] \in voulus}, <)
  IN [k \in DOMAIN listed |-> RankLine(tous[listed[k]], listed[k])]

GetEstimateMyRank(cat, p) ==
  LET tous == classement(cat)
      mine == {k \in DOMAIN tous : tous[k] = p}
  IN IF mine = {} THEN Len(tous) + 1 ELSE CHOOSE k \in mine : TRUE

Ahead(cat, p) ==
  {q \in Ranked(cat) : \/ table[cat][q] > table[cat][p]
                       \/ table[cat][q] = table[cat][p] /\ q < p}

(* The three methods that answer with a rank agree: the rank of a player is *)
(* one more than the number of players before it, in whichever page, list   *)
(* or estimate it is read; the pages of a category put together are the     *)
(* whole of it; and a list of players gets the lines of those who have one, *)
(* in the order of the whole.                                               *)
RanksAgree ==
  \A cat \in RankCategories :
    LET tous == GetRanking(cat, 0, 0)
        n    == Cardinality(PIDs) + 1
    IN /\ \A k \in DOMAIN tous :
            /\ tous[k].rank = Cardinality(Ahead(cat, tous[k].pid)) + 1
            /\ GetEstimateMyRank(cat, tous[k].pid) = tous[k].rank
       /\ \A p \in PIDs : table[cat][p] = Absent => GetEstimateMyRank(cat, p) = Len(tous) + 1
       /\ \A m \in 1 .. n : GetRanking(cat, 0, m) \o GetRanking(cat, m, 0) = tous
       /\ \A voulus \in SUBSET PIDs :
            LET lines == GetRankingByPIDs(cat, voulus)
            IN /\ Range(lines) = {l \in Range(tous) : l.pid \in voulus}
               /\ \A i, j \in DOMAIN lines : i < j => lines[i].rank < lines[j].rank
=============================================================================
