----------------------------- MODULE RelayNeed -----------------------------
(***************************************************************************)
(* Who is introduced through the relay (relaybesoin.go, relayvu.go,        *)
(* relayvolontaires.go, the gate of PairRelayFor in relaypair.go,          *)
(* logNATResult in nattraversal.go).  A console that failed besoinSeuil    *)
(* times to reach its peers directly needs the relay; the verdicts of a    *)
(* pair that was relayed say nothing of the direct path and must not count.*)
(*                                                                         *)
(* Each of the maps has a lock of its own: each question of the gate is a  *)
(* step, and the list of volunteers may be replaced between two of them.   *)
(* The last question looks up four entries in one step: a list replaced    *)
(* between these only leaves a pair direct.                                *)
(* A tick of the clock is longer than the minute between two cleanings of  *)
(* the maps, so each call cleans.  What PairRelayFor does with the port is *)
(* in module PairRelay.                                                    *)
(***************************************************************************)
EXTENDS Naturals, FiniteSets

CONSTANTS
  Gamers,               \* PIDs: naturals, a pair is named by the smaller one first
  VolunteerLists,       \* arguments of SetRelayVolontaires: [pids, forces, ouvert]
  besoinFenetre, relayVuTTL,            \* in ticks
  besoinSeuil, jamaisConnecteSeuil,
  Unknown,              \* no entry under a key; no gate in progress
  MaxTime, MaxVerdicts  \* bounds of the instance

Needs == [echecs : Nat, dernier : Nat, essais : Nat, reussites : Nat]

ASSUME RelayNeedAssumption ==
  /\ Gamers \subseteq Nat /\ Unknown \notin Nat /\ Unknown \notin Needs
  /\ relayVuTTL \in Nat /\ besoinFenetre \in Nat /\ relayVuTTL < besoinFenetre
  /\ besoinSeuil \in Nat \ {0} /\ jamaisConnecteSeuil \in Nat \ {0}
  /\ MaxTime \in Nat /\ MaxVerdicts \in Nat

VARIABLES
  now,
  volunteers,  \* volontaires, volForces and volOuvert
  besoins,     \* player -> [echecs, dernier, essais, reussites] or Unknown
  vues,        \* pair -> when it was last relayed, or Unknown
  gate,        \* PairRelayFor in progress: [a, b, at, agreed, caused], or Unknown; agreed and
               \* caused: who was on a list in force at one of its look-ups, and who had a
               \* cause to be relayed at one of them (history)
  intro,       \* pair -> how the two were last introduced: [how, at], or Unknown
  causes,      \* history: failures of the direct path since the last success
  success,     \* history: when each last reported, in a verdict that counts, to have reached
               \* a peer directly, or Unknown
  unearned,    \* history: a pair was relayed without the consent of both or without a cause
  verdicts

needVars == <<now, volunteers, besoins, vues, gate, intro, causes, success, unearned, verdicts>>

clePaire_AsGiven(a, b) == <<a, b>>

clePaire(a, b) == IF a > b THEN <<b, a>> ELSE <<a, b>>

Pairs == Gamers \X Gamers

NeedInit ==
  /\ now = 0 /\ volunteers = [pids |-> {}, forces |-> {}, ouvert |-> FALSE]
  /\ besoins = [p \in Gamers |-> Unknown] /\ vues = [k \in Pairs |-> Unknown]
  /\ gate = Unknown /\ intro = [k \in Pairs |-> Unknown]
  /\ causes = [p \in Gamers |-> 0] /\ success = [p \in Gamers |-> Unknown]
  /\ unearned = FALSE /\ verdicts = 0

(* Read from a file by the game server, at any time. *)
SetRelayVolontaires(list) ==
  /\ list # volunteers /\ volunteers' = list
  /\ UNCHANGED <<now, besoins, vues, gate, intro, causes, success, unearned, verdicts>>

RelayVolontaire(p) == volunteers.ouvert \/ p \in volunteers.pids \cup volunteers.forces
RelayForce(p) == p \in volunteers.forces

BesoinDeRelais(p) ==
  /\ besoins[p] # Unknown
  /\ besoins[p].echecs >= besoinSeuil /\ now - besoins[p].dernier <= besoinFenetre

PaireRelayee(a, b) ==
  vues[clePaire(a, b)] # Unknown /\ now - vues[clePaire(a, b)] <= relayVuTTL

-----------------------------------------------------------------------------
(* GetSessionURLs or InitiateProbe is about to hand `b' to `a'. *)
Introduce(a, b) ==
  /\ gate = Unknown /\ a # b
  /\ gate' = [a |-> a, b |-> b, at |-> "first", agreed |-> {}, caused |-> {}]
  /\ UNCHANGED <<now, volunteers, besoins, vues, intro, causes, success, unearned, verdicts>>

Introduced(how) ==
  intro' = [k \in Pairs |-> IF k \in {<<gate.a, gate.b>>, <<gate.b, gate.a>>}
                            THEN [how |-> how, at |-> now] ELSE intro[k]]

Caused(p) == causes[p] >= besoinSeuil \/ RelayForce(p)

\* One look-up of the gate: on to the next, or the pair is left direct.
Ask(at, yes, next) ==
  /\ gate # Unknown /\ gate.at = at
  /\ IF yes
     THEN /\ gate' = [gate EXCEPT !.at = next,
                       !.agreed = @ \cup {p \in {gate.a, gate.b} : RelayVolontaire(p)},
                       !.caused = @ \cup {p \in {gate.a, gate.b} : Caused(p)}]
          /\ intro' = intro
     ELSE gate' = Unknown /\ Introduced("direct")
  /\ UNCHANGED <<now, volunteers, besoins, vues, causes, success, unearned, verdicts>>

AskFirst == gate # Unknown /\ Ask("first", RelayVolontaire(gate.a), "second")

AskSecond == gate # Unknown /\ Ask("second", RelayVolontaire(gate.b), "need")

AskNeed ==
  /\ gate # Unknown
  /\ Ask("need", \E p \in {gate.a, gate.b} : BesoinDeRelais(p) \/ RelayForce(p), "note")

\* No port is free, or the relay has been disarmed: see PairRelay.
NoPort == gate # Unknown /\ Ask("note", FALSE, "note")

(* The end of PairRelayFor: the pair is noted before its port is handed out. *)
NoterPaireRelayee ==
  /\ gate # Unknown /\ gate.at = "note"
  /\ vues' = [k \in Pairs |->
                IF k = clePaire(gate.a, gate.b) THEN now
                ELSE IF vues[k] # Unknown /\ now - vues[k] > relayVuTTL THEN Unknown
                ELSE vues[k]]
  /\ unearned' = (gate.agreed # {gate.a, gate.b} \/ gate.caused = {})
  /\ Introduced("relayed") /\ gate' = Unknown
  /\ UNCHANGED <<now, volunteers, besoins, causes, success, verdicts>>

-----------------------------------------------------------------------------
Forgettable_Early(e) == e # Unknown /\ e.reussites > 0

Forgettable(e) == e # Unknown /\ now - e.dernier > besoinFenetre /\ e.reussites > 0

NewNeed == [echecs |-> 0, dernier |-> now, essais |-> 0, reussites |-> 0]

(* NotePercage: forgets the connected players not heard of for a while, *)
(* then counts the verdict.                                             *)
NotePercage(p, reussi) ==
  LET kept == [q \in Gamers |-> IF Forgettable(besoins[q]) THEN Unknown ELSE besoins[q]]
      fond == IF kept[p] = Unknown THEN NewNeed ELSE kept[p]
      echecs == IF now - fond.dernier > besoinFenetre THEN 0 ELSE fond.echecs
  IN [kept EXCEPT ![p] =
        IF reussi
        THEN [echecs |-> 0, dernier |-> now, essais |-> fond.essais + 1,
              reussites |-> fond.reussites + 1]
        ELSE [echecs |-> echecs + 1, dernier |-> now, essais |-> fond.essais + 1,
              reussites |-> fond.reussites]]

(* logNATResult: p on its attempt to reach q, which `found' says is still    *)
(* connected.  Between two consoles pointed at the relay the attempt fails.  *)
logNATResult(p, q, result, found) ==
  LET relaye  == found /\ PaireRelayee(p, q)
      relayed == intro[<<p, q>>].how = "relayed"
      spoiled == relayed /\ found /\ now - intro[<<p, q>>].at <= relayVuTTL
  IN /\ intro[<<p, q>>] # Unknown /\ (relayed => ~result)
     /\ verdicts < MaxVerdicts /\ verdicts' = verdicts + 1
     /\ besoins' = IF relaye THEN besoins ELSE NotePercage(p, result)
     /\ causes' = CASE relaye \/ spoiled -> causes
                    [] OTHER -> [causes EXCEPT ![p] = IF result THEN 0
                                                      ELSE IF @ < besoinSeuil THEN @ + 1 ELSE @]
     /\ success' = IF result /\ ~relaye THEN [success EXCEPT ![p] = now] ELSE success
     /\ UNCHANGED <<now, volunteers, vues, gate, intro, unearned>>

Tick ==
  /\ now < MaxTime /\ now' = now + 1
  /\ UNCHANGED <<volunteers, besoins, vues, gate, intro, causes, success, unearned, verdicts>>

CandidatsRelais ==
  {p \in Gamers : /\ besoins[p] # Unknown
                  /\ besoins[p].essais >= jamaisConnecteSeuil /\ besoins[p].reussites = 0}

NeedNext ==
  \/ \E list \in VolunteerLists : SetRelayVolontaires(list)
  \/ \E a, b \in Gamers : Introduce(a, b)
  \/ AskFirst \/ AskSecond \/ AskNeed \/ NoPort \/ NoterPaireRelayee
  \/ \E p, q \in Gamers, result, found \in BOOLEAN : logNATResult(p, q, result, found)
  \/ Tick

-----------------------------------------------------------------------------
(* No pair is relayed unless each of the two was on a list in force while   *)
(* PairRelayFor decided and one of them had failed besoinSeuil times on the *)
(* direct path, or was forced: the failures that the relay itself causes    *)
(* never make anybody eligible while the peer is connected.                 *)
GrantsEarned == ~unearned

(* Whom CandidatsRelais proposes for the list has not been seen to reach    *)
(* anybody directly for as long as a verdict says something of his network. *)
CandidatesNeverConnected ==
  \A p \in CandidatsRelais : success[p] # Unknown => now - success[p] > besoinFenetre
=============================================================================
