------------------------------ MODULE Referee ------------------------------
(***************************************************************************)
(* The rounds and the records of the players (referee.go,                  *)
(* referee_stats.go).  parCle maps a player and a category to a pointer:   *)
(* the objects are in `heap', and `table' holds their places in it.  A     *)
(* handler keeps the pointer between two critical sections, and Ecrire     *)
(* marshals the objects after it has released the lock.                    *)
(*                                                                         *)
(* A record is what it counts per outcome (the recent and the total        *)
(* counts advance together) and the rating.  Notifying the players of a    *)
(* round uses the push path, which ReliableSend models.                    *)
(***************************************************************************)
EXTENDS WriteThrough, Integers, FiniteSets

CONSTANTS
  Players, RoundCategories,  \* 0, the category of an unknown round, is one of them
  Reports,          \* what an EndRound may carry: sequences of [pid, winLoss, delta]
  InitialRatings,
  RatingModulus,    \* 2^32: the rating is a uint32
  MaxRounds         \* bound of the instance

Keys     == Players \X RoundCategories
Outcomes == 1 .. 3                       \* won, lost, drawn; any other value counts nothing
Result   == [pid : Players, winLoss : Int, delta : Int]
Stat     == [count : [Outcomes -> Nat], rating : Nat]

ASSUME RefereeAssumption ==
  /\ IsFiniteSet(Players) /\ IsFiniteSet(RoundCategories) /\ 0 \in RoundCategories
  /\ Reports \subseteq Seq(Result) /\ InitialRatings \subseteq Nat
  /\ MaxRounds \in Nat /\ RatingModulus \in Nat \ {0}
  /\ Absent \notin Nat /\ Absent \notin Stat
  /\ \A bytes \in Unreadable : bytes \notin [Keys -> {Absent} \cup Stat]

VARIABLES
  heap,      \* the objects, in the order of their allocation
  mu,        \* the handler that holds the lock over more than one step, or Absent
  manches,   \* categories of the rounds opened since the start; compteurManches is its length
  stale,     \* history: handlers whose player was reset since they took their pointer
  tally      \* history: results of each outcome since the last reset

refereeVars == <<heap, mu, manches, stale, tally>>

NoStats  == [k \in Keys |-> Absent]
NewStats(rating) == [count |-> [o \in Outcomes |-> 0], rating |-> rating]
NoTally  == [k \in Keys |-> [o \in Outcomes |-> 0]]

RefereeInit ==
  /\ WriteThroughInit(NoStats)
  /\ heap = <<>> /\ mu = Absent /\ manches = <<>> /\ stale = {} /\ tally = NoTally

Free == mu = Absent

\* Some enumeration of the records in the file becomes the heap.
RefereeCharger ==
  LET saved == IF file \in Unreadable THEN {} ELSE {k \in Keys : file[k] # Absent}
      n     == Cardinality(saved)
      order == CHOOSE f \in [1 .. n -> saved] : \A k \in saved : \E i \in 1 .. n : f[i] = k
  IN /\ Start([k \in Keys |-> IF k \in saved THEN CHOOSE i \in 1 .. n : order[i] = k ELSE Absent])
     /\ heap' = [i \in 1 .. n |-> file[order[i]]]
     /\ tally' = [k \in Keys |-> IF k \in saved THEN file[k].count ELSE NoTally[k]]
     /\ UNCHANGED <<mu, manches, stale>>

StartRound(cat) ==
  /\ up /\ Len(manches) < MaxRounds
  /\ manches' = Append(manches, cat)
  /\ UNCHANGED <<throughVars, heap, mu, stale, tally>>

refereeCategorie(round) == IF round \in DOMAIN manches THEN manches[round] ELSE 0

EndRound(w, round, report) ==
  /\ Begin(w, "results", [cat |-> refereeCategorie(round), report |-> report, ref |-> Absent])
  /\ UNCHANGED <<up, table, modifie, snap, osVars, overlapped, faultVars, refereeVars>>

\* obtenirOuCreer: the place of the record of `k', a new one if there is none.
obtenirOuCreer(k, rating) ==
  IF table[k] # Absent
  THEN UNCHANGED <<table, heap, modifie>>
  ELSE /\ heap' = Append(heap, NewStats(rating))
       /\ table' = [table EXCEPT ![k] = Len(heap) + 1]
       /\ modifie' = TRUE

Key(w) == <<Head(req[w].report).pid, req[w].cat>>

(* appliquerResultat takes the pointer in a critical section of its own ... *)
TakeRecord(w) ==
  /\ pc[w] = "results" /\ req[w].report # <<>> /\ Free
  /\ obtenirOuCreer(Key(w), 0)
  /\ req' = [req EXCEPT ![w].ref = IF table[Key(w)] = Absent THEN Len(heap) + 1 ELSE table[Key(w)]]
  /\ Goto(w, "count")
  /\ UNCHANGED <<up, snap, osVars, overlapped, requests, faultVars, mu, manches, stale, tally>>

Counted(w) ==
  LET r == Head(req[w].report) IN
  /\ stale' = stale \ {w}
  /\ IF r.winLoss \in Outcomes /\ w \notin stale
     THEN tally' = [tally EXCEPT ![Key(w)][r.winLoss] = @ + 1] ELSE tally' = tally

CountResult_WhereNow(w) ==
  LET r == Head(req[w].report) IN
  /\ pc[w] = "count" /\ Free /\ mu' = w
  /\ IF r.winLoss \in Outcomes /\ table[Key(w)] # Absent
     THEN heap' = [heap EXCEPT ![table[Key(w)]].count[r.winLoss] = @ + 1] ELSE heap' = heap
  /\ Counted(w) /\ Goto(w, "rating")
  /\ UNCHANGED <<up, table, modifie, req, snap, osVars, overlapped, requests, faultVars, manches>>

(* ... and in a second one counts the outcome where the pointer leads, *)
CountResult(w) ==
  LET r == Head(req[w].report) IN
  /\ pc[w] = "count" /\ Free /\ mu' = w
  /\ IF r.winLoss \in Outcomes
     THEN heap' = [heap EXCEPT ![req[w].ref].count[r.winLoss] = @ + 1] ELSE heap' = heap
  /\ Counted(w) /\ Goto(w, "rating")
  /\ UNCHANGED <<up, table, modifie, req, snap, osVars, overlapped, requests, faultVars, manches>>

Rated(rating, delta) ==
  IF delta < 0 /\ 0 - delta > rating THEN 0 ELSE (rating + delta) % RatingModulus

(* then adjusts the rating. *)
RateResult(w) ==
  /\ pc[w] = "rating" /\ mu' = Absent
  /\ heap' = [heap EXCEPT ![req[w].ref].rating = Rated(@, Head(req[w].report).delta)]
  /\ modifie' = TRUE
  /\ req' = [req EXCEPT ![w].report = Tail(@), ![w].ref = Absent]
  /\ Goto(w, "results")
  /\ UNCHANGED <<up, table, snap, osVars, overlapped, requests, faultVars, manches, stale, tally>>

(* CreateStats and GetOrCreateStats. *)
CreateStats(w, p, cat, rating) ==
  /\ Free /\ Begin(w, "results", [report |-> <<>>])
  /\ obtenirOuCreer(<<p, cat>>, rating)
  /\ UNCHANGED <<up, snap, osVars, overlapped, faultVars, mu, manches, stale, tally>>

(* ResetStats: reinitialiser removes the records of the player. *)
ResetStats(w, p) ==
  /\ Free /\ Begin(w, "results", [report |-> <<>>])
  /\ table' = [k \in Keys |-> IF k[1] = p THEN Absent ELSE table[k]]
  /\ modifie' = (modifie \/ table' # table)
  /\ tally' = [k \in Keys |-> IF k[1] = p THEN NoTally[k] ELSE tally[k]]
  /\ stale' = stale \cup {v \in Handlers : pc[v] = "count" /\ Key(v)[1] = p}
  /\ UNCHANGED <<up, snap, osVars, overlapped, faultVars, heap, mu, manches>>

(* Ecrire up to the unlock: copies the pointers, lowers the flag. *)
RefereeEcrire(w) ==
  /\ pc[w] = "results" /\ req[w].report = <<>> /\ Free
  /\ \/ ~modifie /\ Answer(w) /\ UNCHANGED <<overlapped, modifie>>
     \/ /\ modifie /\ modifie' = FALSE
        /\ Goto(w, "marshal") /\ req' = [req EXCEPT ![w] = [refs |-> table]]
        /\ snap' = [snap EXCEPT ![w] = NoStats]
        /\ overlapped' = (overlapped \/ Writing # {})
  /\ UNCHANGED <<up, table, osVars, requests, faultVars, refereeVars>>

(* json.Marshal reads the objects one after the other, without the lock. *)
MarshalRecord(w, k) ==
  /\ pc[w] = "marshal" /\ req[w].refs[k] # Absent
  /\ snap' = [snap EXCEPT ![w][k] = heap[req[w].refs[k]]] /\ req' = [req EXCEPT ![w].refs[k] = Absent]
  /\ UNCHANGED <<up, table, modifie, pc, osVars, overlapped, requests, faultVars, refereeVars>>

Marshalled_LowersFlag(w) ==
  /\ pc[w] = "marshal" /\ req[w].refs = NoStats
  /\ Goto(w, "open") /\ modifie' = FALSE
  /\ UNCHANGED <<up, table, req, snap, osVars, overlapped, requests, faultVars, refereeVars>>

Marshalled(w) ==
  /\ pc[w] = "marshal" /\ req[w].refs = NoStats
  /\ Goto(w, "open")
  /\ UNCHANGED <<up, table, modifie, req, snap, osVars, overlapped, requests, faultVars, refereeVars>>

RefereeCrash ==
  /\ Crash(NoStats)
  /\ heap' = <<>> /\ mu' = Absent /\ manches' = <<>> /\ stale' = {} /\ tally' = NoTally

RefereeNext ==
  \/ RefereeCharger
  \/ \E cat \in RoundCategories : StartRound(cat)
  \/ \E w \in Handlers :
       \/ \E round \in 1 .. MaxRounds, report \in Reports : EndRound(w, round, report)
       \/ TakeRecord(w) \/ CountResult(w) \/ RateResult(w)
       \/ \E p \in Players, cat \in RoundCategories, rating \in InitialRatings :
            CreateStats(w, p, cat, rating)
       \/ \E p \in Players : ResetStats(w, p)
       \/ RefereeEcrire(w)
       \/ \E k \in Keys : MarshalRecord(w, k)
       \/ Marshalled(w)
       \/ (WriteSteps(w) \/ RenameFails(w)) /\ UNCHANGED refereeVars
  \/ RefereeCrash

-----------------------------------------------------------------------------
Stats == [k \in Keys |-> IF table[k] = Absent THEN Absent ELSE heap[table[k]]]

(* What a record counts are the results taken up since the last reset of its *)
(* player: each once, none lost between two reports and none, taken up       *)
(* before a reset and counted after it, brought back.                        *)
ResultsCountOnce ==
  up => \A k \in Keys : tally[k] = IF table[k] = Absent THEN NoTally[k] ELSE Stats[k].count
=============================================================================
