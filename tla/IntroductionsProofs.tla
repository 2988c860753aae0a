------------------------ MODULE IntroductionsProofs ------------------------
(***************************************************************************)
(* Proofs about introductions: whom the relay is granted to, whom the      *)
(* server proposes for it, and where a console is pointed for its peer,    *)
(* for any number of players and consoles, any windows and thresholds, any *)
(* lists of volunteers and any options of the titles.                      *)
(***************************************************************************)
EXTENDS MCIntroductions, TLAPS

Moments == {Unknown} \cup Nat

Questions == {"first", "second", "need", "note"}

Gates == [a : Gamers, b : Gamers, at : Questions, agreed : SUBSET Gamers, caused : SUBSET Gamers]

\* The types of the maps of the need half.
NeedTypes ==
  /\ now \in Nat
  /\ besoins \in [Gamers -> {Unknown} \cup Needs]
  /\ vues \in [Pairs -> Moments]
  /\ gate \in {Unknown} \cup Gates
  /\ intro \in [Pairs -> {Unknown} \cup [how : {"direct", "relayed"}, at : Nat]]
  /\ causes \in [Gamers -> Nat]
  /\ success \in [Gamers -> Moments]

\* What the look-ups of PairRelayFor passed so far have established.
GateOK ==
  gate # Unknown =>
    /\ gate.agreed \subseteq {gate.a, gate.b}
    /\ gate.at \in {"second", "need", "note"} => gate.a \in gate.agreed
    /\ gate.at \in {"need", "note"} => gate.b \in gate.agreed
    /\ gate.at = "note" => gate.caused # {}

\* NotePercage counts no more failures than the direct path had.
FailuresOK ==
  \A p \in Gamers : besoins[p] # Unknown =>
    besoins[p].echecs <= causes[p] \/ causes[p] >= besoinSeuil

\* A pair relayed a short while ago, or since, is still noted, under one key.
NotedOK ==
  \A p, q \in Gamers :
    intro[<<p, q>>] # Unknown /\ intro[<<p, q>>].how = "relayed"
        /\ now - intro[<<p, q>>].at <= relayVuTTL
      => LET v == vues[clePaire(p, q)]
         IN v # Unknown /\ intro[<<p, q>>].at <= v /\ v <= now

\* Who was seen to connect lately has an entry, which says so and is not older.
SuccessOK ==
  \A p \in Gamers : success[p] # Unknown =>
    /\ success[p] <= now
    /\ now - success[p] <= besoinFenetre =>
         besoins[p] # Unknown /\ besoins[p].reussites > 0 /\ besoins[p].dernier >= success[p]

NeedInv == NeedTypes /\ GateOK /\ FailuresOK /\ NotedOK /\ SuccessOK /\ ~unearned

-----------------------------------------------------------------------------
(* The counters of failed attempts *)

(* One key stands for both orders of a pair. *)
LEMMA OneKey ==
  ASSUME NEW a \in Gamers, NEW b \in Gamers
  PROVE  clePaire(a, b) = clePaire(b, a) /\ clePaire(a, b) \in Pairs
<1>1. a \in Nat /\ b \in Nat
  BY RelayNeedAssumption
<1> QED
  BY <1>1 DEF clePaire, Pairs

(* What a verdict does to the entries: NotePercage forgets the stale ones of   *)
(* players who have connected, and counts the verdict in the player's own.     *)
LEMMA VerdictCounted ==
  ASSUME NeedTypes, FailuresOK, SuccessOK, NEW p \in Gamers, NEW reussi \in BOOLEAN,
         NEW B, B = NotePercage(p, reussi)
  PROVE  /\ B \in [Gamers -> {Unknown} \cup Needs]
         /\ \A q \in Gamers : q # p => B[q] \in {Unknown, besoins[q]}
         /\ \A q \in Gamers : q # p /\ B[q] # besoins[q] =>
              now - besoins[q].dernier > besoinFenetre
         /\ B[p] # Unknown /\ B[p].dernier = now
         /\ reussi => B[p].echecs = 0 /\ B[p].reussites > 0
         /\ ~reussi => \/ B[p].echecs = 1
                       \/ besoins[p] # Unknown /\ B[p].echecs = besoins[p].echecs + 1
         /\ ~reussi /\ besoins[p] # Unknown /\ now - besoins[p].dernier <= besoinFenetre =>
              B[p].reussites = besoins[p].reussites
<1> USE RelayNeedAssumption
<1> DEFINE kept == [q \in Gamers |-> IF Forgettable(besoins[q]) THEN Unknown ELSE besoins[q]]
           fond == IF kept[p] = Unknown THEN NewNeed ELSE kept[p]
           echecs == IF now - fond.dernier > besoinFenetre THEN 0 ELSE fond.echecs
           new == IF reussi
                  THEN [echecs |-> 0, dernier |-> now, essais |-> fond.essais + 1,
                        reussites |-> fond.reussites + 1]
                  ELSE [echecs |-> echecs + 1, dernier |-> now, essais |-> fond.essais + 1,
                        reussites |-> fond.reussites]
<1>1. B = [kept EXCEPT ![p] = new]
  BY DEF NotePercage
<1>2. now \in Nat /\ besoins \in [Gamers -> {Unknown} \cup Needs]
  BY DEF NeedTypes
<1>3. kept \in [Gamers -> {Unknown} \cup Needs]
  BY <1>2
<1>4. \A q \in Gamers : kept[q] # besoins[q] => /\ kept[q] = Unknown
                                                /\ now - besoins[q].dernier > besoinFenetre
  BY DEF Forgettable
<1>5. NewNeed \in Needs /\ NewNeed.echecs = 0
  BY <1>2 DEF NewNeed, Needs
<1>6. fond \in Needs /\ (fond = NewNeed \/ (fond = besoins[p] /\ besoins[p] # Unknown))
  BY <1>3, <1>4, <1>5
<1>7. /\ fond.echecs \in Nat /\ fond.essais \in Nat /\ fond.reussites \in Nat /\ fond.dernier \in Nat
  <2>1. fond \in Needs
    BY <1>6
  <2> HIDE DEF fond
  <2> QED
    BY <2>1 DEF Needs
<1>8. echecs \in Nat /\ (echecs = 0 \/ (besoins[p] # Unknown /\ echecs = besoins[p].echecs))
  <2>1. fond.echecs = 0 \/ (besoins[p] # Unknown /\ fond.echecs = besoins[p].echecs)
    BY <1>5, <1>6
  <2> HIDE DEF fond
  <2> QED
    BY <1>7, <2>1
<1>9. besoins[p] # Unknown /\ now - besoins[p].dernier <= besoinFenetre => fond = besoins[p]
  <2> HAVE besoins[p] # Unknown /\ now - besoins[p].dernier <= besoinFenetre
  <2>1. besoins[p] \in Needs
    BY <1>2
  <2>2. besoins[p].dernier \in Nat
    BY <2>1 DEF Needs
  <2>3. kept[p] = besoins[p]
    BY <1>2, <2>2 DEF Forgettable
  <2> QED
    BY <2>3
<1> HIDE DEF fond, echecs, kept
<1>10. /\ new \in Needs /\ new.dernier = now
       /\ reussi => new.echecs = 0 /\ new.reussites = fond.reussites + 1
       /\ ~reussi => new.echecs = echecs + 1 /\ new.reussites = fond.reussites
  BY <1>2, <1>7, <1>8 DEF Needs
<1> HIDE DEF new
<1>11. B[p] = new /\ \A q \in Gamers : q # p => B[q] = kept[q]
  BY <1>1, <1>3
<1>12. B \in [Gamers -> {Unknown} \cup Needs]
  BY <1>1, <1>3, <1>10
<1>13. new # Unknown
  BY <1>10
<1>14. ~reussi => new.echecs = 1 \/ (besoins[p] # Unknown /\ new.echecs = besoins[p].echecs + 1)
  BY <1>8, <1>10
<1>15. reussi => new.reussites > 0
  BY <1>7, <1>10
<1> QED
  BY <1>4, <1>9, <1>10, <1>11, <1>12, <1>13, <1>14, <1>15

(* A verdict on a pair that was relayed is not counted: if the history takes  *)
(* it for one the relay spoiled, PaireRelayee finds the pair.                  *)
LEMMA SpoiledIsNoted ==
  ASSUME NeedTypes, NotedOK, NEW p \in Gamers, NEW q \in Gamers,
         intro[<<p, q>>] # Unknown, intro[<<p, q>>].how = "relayed",
         now - intro[<<p, q>>].at <= relayVuTTL
  PROVE  PaireRelayee(p, q)
<1>1. <<p, q>> \in Pairs /\ clePaire(p, q) \in Pairs
  BY OneKey DEF Pairs
<1> PICK v, i : v = vues[clePaire(p, q)] /\ i = intro[<<p, q>>].at
  OBVIOUS
<1>2. v # Unknown /\ i <= v /\ v <= now
  BY DEF NotedOK
<1>3. now \in Nat /\ v \in Nat /\ i \in Nat /\ relayVuTTL \in Nat
  BY <1>1, <1>2, RelayNeedAssumption DEF NeedTypes, Moments
<1>4. now - i <= relayVuTTL
  OBVIOUS
<1>5. now - v <= relayVuTTL
  BY <1>2, <1>3, <1>4
<1> QED
  BY <1>2, <1>5 DEF PaireRelayee

(* A verdict keeps the counts. *)
LEMMA VerdictStep ==
  ASSUME NeedInv, NEW p \in Gamers, NEW q \in Gamers, NEW result \in BOOLEAN, NEW found \in BOOLEAN,
         logNATResult(p, q, result, found)
  PROVE  NeedInv'
<1> USE RelayNeedAssumption
<1> DEFINE relaye  == found /\ PaireRelayee(p, q)
           spoiled == /\ intro[<<p, q>>].how = "relayed" /\ found
                      /\ now - intro[<<p, q>>].at <= relayVuTTL
<1>1. UNCHANGED <<now, volunteers, vues, gate, intro, unearned>> /\ intro[<<p, q>>] # Unknown
  BY DEF logNATResult
<1>2. spoiled => relaye
  BY <1>1, SpoiledIsNoted DEF NeedInv
<1>3. /\ besoins' = IF relaye THEN besoins ELSE NotePercage(p, result)
      /\ success' = IF result /\ ~relaye THEN [success EXCEPT ![p] = now] ELSE success
  BY DEF logNATResult
<1>4. causes' = IF relaye THEN causes
                ELSE [causes EXCEPT ![p] = IF result THEN 0
                                           ELSE IF @ < besoinSeuil THEN @ + 1 ELSE @]
  BY <1>2 DEF logNATResult
<1> HIDE DEF relaye, spoiled
<1>5. GateOK' /\ NotedOK' /\ ~unearned'
  BY <1>1 DEF NeedInv, GateOK, NotedOK
<1>6. CASE relaye
  <2>1. UNCHANGED <<besoins, success, causes>>
    BY <1>3, <1>4, <1>6
  <2>2. NeedTypes' /\ FailuresOK' /\ SuccessOK'
    BY <1>1, <2>1 DEF NeedInv, NeedTypes, FailuresOK, SuccessOK
  <2> QED
    BY <1>5, <2>2 DEF NeedInv
<1>7. CASE ~relaye
  <2>1. besoins' = NotePercage(p, result)
    BY <1>3, <1>7
  <2> PICK B : B = besoins'
    OBVIOUS
  <2>2. /\ B \in [Gamers -> {Unknown} \cup Needs]
        /\ \A r \in Gamers : r # p => B[r] \in {Unknown, besoins[r]}
        /\ \A r \in Gamers : r # p /\ B[r] # besoins[r] => now - besoins[r].dernier > besoinFenetre
        /\ B[p] # Unknown /\ B[p].dernier = now
        /\ result => B[p].echecs = 0 /\ B[p].reussites > 0
        /\ ~result => \/ B[p].echecs = 1
                      \/ besoins[p] # Unknown /\ B[p].echecs = besoins[p].echecs + 1
        /\ ~result /\ besoins[p] # Unknown /\ now - besoins[p].dernier <= besoinFenetre =>
             B[p].reussites = besoins[p].reussites
    BY <2>1, VerdictCounted DEF NeedInv
  <2>3. now \in Nat /\ causes \in [Gamers -> Nat] /\ success \in [Gamers -> Moments]
        /\ besoins \in [Gamers -> {Unknown} \cup Needs]
    BY DEF NeedInv, NeedTypes
  <2>4. /\ causes' \in [Gamers -> Nat] /\ \A r \in Gamers : r # p => causes'[r] = causes[r]
        /\ result => causes'[p] = 0
        /\ ~result => causes'[p] = IF causes[p] < besoinSeuil THEN causes[p] + 1 ELSE causes[p]
    BY <1>4, <1>7, <2>3
  <2>5. /\ success' \in [Gamers -> Moments] /\ \A r \in Gamers : r # p => success'[r] = success[r]
        /\ success'[p] = IF result THEN now ELSE success[p]
    BY <1>3, <1>7, <2>3 DEF Moments
  <2>6. NeedTypes'
    BY <1>1, <2>2, <2>4, <2>5 DEF NeedInv, NeedTypes
  <2>7. FailuresOK'
    <3> SUFFICES ASSUME NEW r \in Gamers, B[r] # Unknown
                 PROVE  B[r].echecs <= causes'[r] \/ causes'[r] >= besoinSeuil
      BY DEF FailuresOK
    <3>1. CASE r # p
      BY <2>2, <2>4, <3>1 DEF NeedInv, FailuresOK
    <3>2. CASE r = p /\ result
      BY <2>2, <2>4, <3>2
    <3>3. CASE r = p /\ ~result
      <4>1. CASE B[p].echecs = 1
        BY <2>3, <2>4, <3>3, <4>1
      <4>2. CASE besoins[p] # Unknown /\ B[p].echecs = besoins[p].echecs + 1
        <5>1. besoins[p].echecs <= causes[p] \/ causes[p] >= besoinSeuil
          BY <4>2 DEF NeedInv, FailuresOK
        <5>2. besoins[p].echecs \in Nat
          BY <2>3, <4>2 DEF Needs
        <5> QED
          BY <2>3, <2>4, <3>3, <4>2, <5>1, <5>2
      <4> QED
        BY <2>2, <3>3, <4>1, <4>2
    <3> QED
      BY <3>1, <3>2, <3>3
  <2>8. SuccessOK'
    <3> SUFFICES ASSUME NEW r \in Gamers, success'[r] # Unknown
                 PROVE  /\ success'[r] <= now
                        /\ now - success'[r] <= besoinFenetre =>
                             B[r] # Unknown /\ B[r].reussites > 0 /\ B[r].dernier >= success'[r]
      BY <1>1 DEF SuccessOK
    <3>1. CASE r = p /\ result
      BY <2>2, <2>3, <2>5, <3>1
    <3>2. CASE ~(r = p /\ result)
      <4>1. success'[r] = success[r] /\ success[r] # Unknown
        BY <2>5, <3>2
      <4>2. /\ success[r] <= now
            /\ now - success[r] <= besoinFenetre =>
                 besoins[r] # Unknown /\ besoins[r].reussites > 0 /\ besoins[r].dernier >= success[r]
        BY <4>1 DEF NeedInv, SuccessOK
      <4> SUFFICES ASSUME now - success[r] <= besoinFenetre
                   PROVE  B[r] # Unknown /\ B[r].reussites > 0 /\ B[r].dernier >= success[r]
        BY <4>1, <4>2
      <4>3. success[r] \in Nat /\ besoins[r].dernier \in Nat /\ besoins[r] # Unknown
            /\ besoins[r].reussites > 0 /\ besoins[r].dernier >= success[r]
        BY <2>3, <4>1, <4>2 DEF Moments, Needs
      <4>4. now - besoins[r].dernier <= besoinFenetre
        BY <2>3, <4>3
      <4>5. CASE r = p
        BY <2>2, <3>2, <4>1, <4>2, <4>3, <4>4, <4>5
      <4>6. CASE r # p
        <5>1. B[r] = besoins[r]
          BY <2>2, <2>3, <4>3, <4>4, <4>6
        <5> QED
          BY <4>3, <5>1
      <4> QED
        BY <4>5, <4>6
    <3> QED
      BY <3>1, <3>2
  <2> QED
    BY <1>5, <2>6, <2>7, <2>8 DEF NeedInv
<1> QED
  BY <1>6, <1>7

-----------------------------------------------------------------------------
(* The gate of PairRelayFor *)

(* What the last look-up found is a cause. *)
LEMMA NeedIsCause ==
  ASSUME NeedTypes, FailuresOK, NEW p \in Gamers, BesoinDeRelais(p) \/ RelayForce(p)
  PROVE  Caused(p)
<1>1. CASE RelayForce(p)
  BY <1>1 DEF Caused
<1>2. CASE BesoinDeRelais(p)
  <2>1. besoins[p] # Unknown /\ besoins[p].echecs >= besoinSeuil
    BY <1>2 DEF BesoinDeRelais
  <2>2. besoins[p].echecs \in Nat /\ causes[p] \in Nat /\ besoinSeuil \in Nat
    BY <2>1, RelayNeedAssumption DEF NeedTypes, Needs
  <2>3. besoins[p].echecs <= causes[p] \/ causes[p] >= besoinSeuil
    BY <2>1 DEF FailuresOK
  <2>4. causes[p] >= besoinSeuil
    BY <2>1, <2>2, <2>3
  <2> QED
    BY <2>4 DEF Caused
<1> QED
  BY <1>1, <1>2

(* A pair introduced now keeps the notes right, if it is relayed only when it *)
(* has been noted now.                                                        *)
LEMMA IntroducedNoted ==
  ASSUME NeedTypes, NotedOK, gate # Unknown, NEW how \in {"direct", "relayed"}, Introduced(how),
         now' = now, vues' \in [Pairs -> Moments],
         \A k \in Pairs : vues[k] # Unknown /\ vues[k] <= now /\ now - vues[k] <= relayVuTTL =>
           vues'[k] # Unknown /\ vues'[k] >= vues[k] /\ vues'[k] <= now,
         how = "relayed" => vues'[clePaire(gate.a, gate.b)] = now
  PROVE  NotedOK' /\ intro' \in [Pairs -> {Unknown} \cup [how : {"direct", "relayed"}, at : Nat]]
<1> USE RelayNeedAssumption
<1>1. now \in Nat /\ gate.a \in Gamers /\ gate.b \in Gamers
  BY DEF NeedTypes, Gates
<1>2. intro' = [k \in Pairs |-> IF k \in {<<gate.a, gate.b>>, <<gate.b, gate.a>>}
                                THEN [how |-> how, at |-> now] ELSE intro[k]]
  BY DEF Introduced
<1>3. intro' \in [Pairs -> {Unknown} \cup [how : {"direct", "relayed"}, at : Nat]]
  BY <1>1, <1>2 DEF NeedTypes
<1>4. ASSUME NEW p \in Gamers, NEW q \in Gamers, intro'[<<p, q>>] # Unknown,
             intro'[<<p, q>>].how = "relayed", now - intro'[<<p, q>>].at <= relayVuTTL
      PROVE  /\ vues'[clePaire(p, q)] # Unknown /\ intro'[<<p, q>>].at <= vues'[clePaire(p, q)]
             /\ vues'[clePaire(p, q)] <= now
  <2>1. <<p, q>> \in Pairs /\ clePaire(p, q) \in Pairs
    BY OneKey DEF Pairs
  <2>2. CASE <<p, q>> \in {<<gate.a, gate.b>>, <<gate.b, gate.a>>}
    <3>1. intro'[<<p, q>>] = [how |-> how, at |-> now]
      BY <1>2, <2>1, <2>2
    <3>2. how = "relayed" /\ intro'[<<p, q>>].at = now
      BY <1>4, <3>1
    <3>3. clePaire(p, q) = clePaire(gate.a, gate.b)
      BY <1>1, <2>2, OneKey
    <3> QED
      BY <1>1, <3>2, <3>3
  <2>3. CASE <<p, q>> \notin {<<gate.a, gate.b>>, <<gate.b, gate.a>>}
    <3> PICK i, v, w : i = intro[<<p, q>>].at /\ v = vues[clePaire(p, q)] /\ w = vues'[clePaire(p, q)]
      OBVIOUS
    <3>1. intro'[<<p, q>>] = intro[<<p, q>>]
      BY <1>2, <2>1, <2>3
    <3>2. v # Unknown /\ i <= v /\ v <= now /\ now - i <= relayVuTTL
      BY <1>4, <3>1 DEF NotedOK
    <3>3. v \in Nat /\ i \in Nat
      BY <1>4, <2>1, <3>1, <3>2 DEF NeedTypes, Moments
    <3>4. now - v <= relayVuTTL
      BY <1>1, <3>2, <3>3
    <3>5. w # Unknown /\ w >= v /\ w <= now
      BY <2>1, <3>2, <3>4
    <3>6. w \in Nat
      BY <2>1, <3>5 DEF Moments
    <3> QED
      BY <1>1, <3>1, <3>2, <3>3, <3>5, <3>6
  <2> QED
    BY <2>2, <2>3
<1> QED
  BY <1>3, <1>4 DEF NotedOK

\* The two outcomes of a look-up.
PassedTo(next) ==
  /\ gate' = [gate EXCEPT !.at = next,
               !.agreed = @ \cup {p \in {gate.a, gate.b} : RelayVolontaire(p)},
               !.caused = @ \cup {p \in {gate.a, gate.b} : Caused(p)}]
  /\ UNCHANGED <<now, volunteers, besoins, vues, intro, causes, success, unearned, verdicts>>

LeftDirect ==
  /\ gate' = Unknown /\ Introduced("direct")
  /\ UNCHANGED <<now, volunteers, besoins, vues, causes, success, unearned, verdicts>>

(* A look-up that leads on keeps the invariant, if it leads on after the       *)
(* volunteer it has asked for, and to the last step after a cause.             *)
LEMMA PassedStep ==
  ASSUME NeedInv, gate # Unknown, NEW next \in Questions, PassedTo(next),
         \/ gate.at = "first" /\ next = "second" /\ RelayVolontaire(gate.a)
         \/ gate.at = "second" /\ next = "need" /\ RelayVolontaire(gate.b)
         \/ gate.at = "need" /\ next = "note" /\ (Caused(gate.a) \/ Caused(gate.b))
  PROVE  NeedInv'
<1> DEFINE volunteer == {p \in {gate.a, gate.b} : RelayVolontaire(p)}
           cause == {p \in {gate.a, gate.b} : Caused(p)}
           new == [gate EXCEPT !.at = next, !.agreed = @ \cup volunteer, !.caused = @ \cup cause]
<1>1. /\ UNCHANGED <<now, volunteers, besoins, vues, intro, causes, success, unearned, verdicts>>
      /\ gate' = new
  BY DEF PassedTo
<1>2. FailuresOK' /\ NotedOK' /\ SuccessOK' /\ ~unearned'
  BY <1>1 DEF NeedInv, FailuresOK, SuccessOK, NotedOK
<1>3. gate \in Gates
  BY DEF NeedInv, NeedTypes
<1>4. volunteer \subseteq {gate.a, gate.b} /\ cause \subseteq {gate.a, gate.b}
      /\ gate.a \in Gamers /\ gate.b \in Gamers
  BY <1>3 DEF Gates
<1>5. \/ gate.at = "first" /\ next = "second" /\ gate.a \in volunteer
      \/ gate.at = "second" /\ next = "need" /\ gate.b \in volunteer
      \/ gate.at = "need" /\ next = "note" /\ cause # {}
  OBVIOUS
<1> HIDE DEF volunteer, cause
<1>6. /\ new \in Gates /\ new.a = gate.a /\ new.b = gate.b /\ new.at = next
      /\ new.agreed = gate.agreed \cup volunteer /\ new.caused = gate.caused \cup cause
  BY <1>3, <1>4 DEF Gates
<1> HIDE DEF new
<1>7. GateOK'
  BY <1>1, <1>4, <1>5, <1>6 DEF NeedInv, GateOK
<1>8. NeedTypes'
  BY <1>1, <1>6 DEF NeedInv, NeedTypes
<1> QED
  BY <1>2, <1>7, <1>8 DEF NeedInv

(* A look-up that leaves the pair direct keeps it. *)
LEMMA DirectStep ==
  ASSUME NeedInv, gate # Unknown, LeftDirect
  PROVE  NeedInv'
<1>1. /\ UNCHANGED <<now, volunteers, besoins, vues, causes, success, unearned, verdicts>>
      /\ gate' = Unknown /\ Introduced("direct")
  BY DEF LeftDirect
<1>2. GateOK' /\ FailuresOK' /\ SuccessOK' /\ ~unearned'
  BY <1>1 DEF NeedInv, GateOK, FailuresOK, SuccessOK
<1>3. \A k \in Pairs : vues[k] # Unknown /\ vues[k] <= now /\ now - vues[k] <= relayVuTTL =>
        vues'[k] # Unknown /\ vues'[k] >= vues[k] /\ vues'[k] <= now
  BY <1>1 DEF NeedInv, NeedTypes, Moments
<1>4. NotedOK' /\ intro' \in [Pairs -> {Unknown} \cup [how : {"direct", "relayed"}, at : Nat]]
  BY <1>1, <1>3, IntroducedNoted DEF NeedInv, NeedTypes
<1>5. NeedTypes'
  BY <1>1, <1>4 DEF NeedInv, NeedTypes
<1> QED
  BY <1>2, <1>4, <1>5 DEF NeedInv

(* The step that hands out the port: the pair has consented and has a cause,   *)
(* and is noted before it is introduced.                                       *)
LEMMA NoteStep ==
  ASSUME NeedInv, NoterPaireRelayee
  PROVE  NeedInv'
<1> USE RelayNeedAssumption
<1>1. /\ UNCHANGED <<now, volunteers, besoins, causes, success, verdicts>>
      /\ gate # Unknown /\ gate.at = "note" /\ gate' = Unknown /\ Introduced("relayed")
      /\ unearned' = (gate.agreed # {gate.a, gate.b} \/ gate.caused = {})
  BY DEF NoterPaireRelayee
<1>2. ~unearned'
  BY <1>1 DEF NeedInv, GateOK
<1>3. GateOK' /\ FailuresOK' /\ SuccessOK'
  BY <1>1 DEF NeedInv, GateOK, FailuresOK, SuccessOK
<1>4. now \in Nat /\ vues \in [Pairs -> Moments] /\ gate.a \in Gamers /\ gate.b \in Gamers
  BY <1>1 DEF NeedInv, NeedTypes, Gates
<1> PICK key : key = clePaire(gate.a, gate.b)
  OBVIOUS
<1>5. key \in Pairs
  BY <1>4, OneKey
<1>6. vues' = [k \in Pairs |->
                IF k = key THEN now
                ELSE IF vues[k] # Unknown /\ now - vues[k] > relayVuTTL THEN Unknown
                ELSE vues[k]]
  BY DEF NoterPaireRelayee
<1>7. vues' \in [Pairs -> Moments] /\ vues'[key] = now
  BY <1>4, <1>5, <1>6 DEF Moments
<1>8. ASSUME NEW k \in Pairs, vues[k] # Unknown, vues[k] <= now, now - vues[k] <= relayVuTTL
      PROVE  vues'[k] # Unknown /\ vues'[k] >= vues[k] /\ vues'[k] <= now
  <2>1. vues[k] \in Nat
    BY <1>4, <1>8 DEF Moments
  <2>2. vues'[k] \in {now, vues[k]}
    BY <1>4, <1>6, <1>8, <2>1
  <2> QED
    BY <1>4, <1>8, <2>1, <2>2
<1>9. NotedOK' /\ intro' \in [Pairs -> {Unknown} \cup [how : {"direct", "relayed"}, at : Nat]]
  BY <1>1, <1>7, <1>8, IntroducedNoted DEF NeedInv
<1>10. NeedTypes'
  BY <1>1, <1>7, <1>9 DEF NeedInv, NeedTypes
<1> QED
  BY <1>2, <1>3, <1>9, <1>10 DEF NeedInv

(* Every step of the need half keeps its invariant. *)
LEMMA NeedStep ==
  ASSUME NeedInv, NeedNext
  PROVE  NeedInv'
<1> USE RelayNeedAssumption
<1>1. ASSUME NEW list \in VolunteerLists, SetRelayVolontaires(list)
      PROVE  NeedInv'
  BY <1>1 DEF SetRelayVolontaires, NeedInv, NeedTypes, GateOK, FailuresOK, NotedOK, SuccessOK
<1>2. ASSUME NEW a \in Gamers, NEW b \in Gamers, Introduce(a, b)
      PROVE  NeedInv'
  <2>1. /\ UNCHANGED <<now, volunteers, besoins, vues, intro, causes, success, unearned, verdicts>>
        /\ gate' = [a |-> a, b |-> b, at |-> "first", agreed |-> {}, caused |-> {}]
    BY <1>2 DEF Introduce
  <2>2. gate' \in Gates /\ GateOK'
    <3> PICK g : g = [a |-> a, b |-> b, at |-> "first", agreed |-> {}, caused |-> {}]
      OBVIOUS
    <3>1. g.agreed = {} /\ g.at = "first"
      OBVIOUS
    <3>2. "first" \in Questions /\ {} \in SUBSET Gamers
      BY DEF Questions
    <3>3. g \in Gates
      BY <3>2 DEF Gates
    <3>4. gate' = g
      BY <2>1
    <3> QED
      BY <3>1, <3>3, <3>4 DEF GateOK
  <2>3. FailuresOK' /\ NotedOK' /\ SuccessOK' /\ ~unearned'
    BY <2>1 DEF NeedInv, FailuresOK, NotedOK, SuccessOK
  <2>4. NeedTypes'
    BY <2>1, <2>2 DEF NeedInv, NeedTypes
  <2> QED
    BY <2>2, <2>3, <2>4 DEF NeedInv
<1>3. CASE AskFirst
  <2>1. gate # Unknown /\ gate.at = "first"
    BY <1>3 DEF AskFirst, Ask
  <2>2. LeftDirect \/ (RelayVolontaire(gate.a) /\ PassedTo("second"))
    BY <1>3 DEF AskFirst, Ask, LeftDirect, PassedTo
  <2>3. CASE RelayVolontaire(gate.a) /\ PassedTo("second")
    BY <2>1, <2>3, PassedStep DEF Questions
  <2> QED
    BY <2>1, <2>2, <2>3, DirectStep
<1>4. CASE AskSecond
  <2>1. gate # Unknown /\ gate.at = "second"
    BY <1>4 DEF AskSecond, Ask
  <2>2. LeftDirect \/ (RelayVolontaire(gate.b) /\ PassedTo("need"))
    BY <1>4 DEF AskSecond, Ask, LeftDirect, PassedTo
  <2>3. CASE RelayVolontaire(gate.b) /\ PassedTo("need")
    BY <2>1, <2>3, PassedStep DEF Questions
  <2> QED
    BY <2>1, <2>2, <2>3, DirectStep
<1>5. CASE AskNeed
  <2>1. gate # Unknown /\ gate.at = "need"
    BY <1>5 DEF AskNeed, Ask
  <2>2. \/ LeftDirect
        \/ /\ \E p \in {gate.a, gate.b} : BesoinDeRelais(p) \/ RelayForce(p)
           /\ PassedTo("note")
    BY <1>5 DEF AskNeed, Ask, LeftDirect, PassedTo
  <2>3. gate.a \in Gamers /\ gate.b \in Gamers
    BY <2>1 DEF NeedInv, NeedTypes, Gates
  <2>4. LeftDirect \/ ((Caused(gate.a) \/ Caused(gate.b)) /\ PassedTo("note"))
    BY <2>2, <2>3, NeedIsCause DEF NeedInv
  <2>5. CASE (Caused(gate.a) \/ Caused(gate.b)) /\ PassedTo("note")
    BY <2>1, <2>5, PassedStep DEF Questions
  <2> QED
    BY <2>1, <2>4, <2>5, DirectStep
<1>6. CASE NoPort
  BY <1>6, DirectStep DEF NoPort, Ask, LeftDirect
<1>7. ASSUME NEW p \in Gamers, NEW q \in Gamers, NEW result \in BOOLEAN, NEW found \in BOOLEAN,
             logNATResult(p, q, result, found)
      PROVE  NeedInv'
  BY <1>7, VerdictStep
<1>8. CASE Tick
  <2>1. /\ now' = now + 1
        /\ UNCHANGED <<volunteers, besoins, vues, gate, intro, causes, success, unearned, verdicts>>
    BY <1>8 DEF Tick
  <2>2. NeedTypes' /\ GateOK' /\ FailuresOK' /\ ~unearned'
    BY <2>1 DEF NeedInv, NeedTypes, GateOK, FailuresOK
  <2>3. NotedOK'
    <3> SUFFICES ASSUME NEW p \in Gamers, NEW q \in Gamers, intro'[<<p, q>>] # Unknown,
                        intro'[<<p, q>>].how = "relayed", now' - intro'[<<p, q>>].at <= relayVuTTL
                 PROVE  /\ vues'[clePaire(p, q)] # Unknown
                        /\ intro'[<<p, q>>].at <= vues'[clePaire(p, q)]
                        /\ vues'[clePaire(p, q)] <= now'
      BY DEF NotedOK
    <3> PICK v, i : v = vues[clePaire(p, q)] /\ i = intro[<<p, q>>].at
      OBVIOUS
    <3>1. <<p, q>> \in Pairs /\ clePaire(p, q) \in Pairs
      BY OneKey DEF Pairs
    <3>2. now \in Nat /\ i \in Nat /\ now + 1 - i <= relayVuTTL
      BY <2>1, <3>1 DEF NeedInv, NeedTypes
    <3>3. now - i <= relayVuTTL
      BY <3>2
    <3>4. v # Unknown /\ i <= v /\ v <= now
      BY <2>1, <3>3 DEF NeedInv, NotedOK
    <3>5. v \in Nat
      BY <3>1, <3>4 DEF NeedInv, NeedTypes, Moments
    <3> QED
      BY <2>1, <3>2, <3>4, <3>5
  <2>4. SuccessOK'
    <3> SUFFICES ASSUME NEW p \in Gamers, success'[p] # Unknown
                 PROVE  /\ success'[p] <= now'
                        /\ now' - success'[p] <= besoinFenetre =>
                             /\ besoins'[p] # Unknown /\ besoins'[p].reussites > 0
                             /\ besoins'[p].dernier >= success'[p]
      BY DEF SuccessOK
    <3>1. now \in Nat /\ success[p] \in Nat /\ success[p] # Unknown
      BY <2>1 DEF NeedInv, NeedTypes, Moments
    <3> QED
      BY <2>1, <3>1 DEF NeedInv, SuccessOK
  <2> QED
    BY <2>2, <2>3, <2>4 DEF NeedInv
<1> QED
  BY <1>1, <1>2, <1>3, <1>4, <1>5, <1>6, <1>7, <1>8, NoteStep DEF NeedNext

-----------------------------------------------------------------------------
(* Where a console is pointed *)

\* The ports a host may be known under, and its stations.
PortsOf(h) == {UnsetPort, tcpPort[h], udpPort[h]}
StationOf(h) == {Nothing} \cup [port : PortsOf(h), rvcid : BOOLEAN, cid : BOOLEAN, type : BOOLEAN]
StationsOf(h) == [lan : StationOf(h), pub : StationOf(h)]

\* At a public address the responder has seen only consoles that use it.
TableOK(t) ==
  \A i \in PublicIPs : t[i] = Nothing \/ \E c \in Consoles : t[i] = udpPort[c] /\ i \in SeenAt(c)

Calls == [host : Hosts, polls : Nat, last : {Nothing} \cup UNION {StationsOf(h) : h \in Hosts}]

\* A call that waits is about another console, and holds stations of that one.
CallOK(c, k) == k # Nothing =>
  /\ k.host # c
  /\ k.last = Nothing \/ k.last \in StationsOf(k.host)

UrlsInv ==
  /\ net \in Networks
  /\ \A h \in Hosts : stations[h] \in StationsOf(h)
  /\ stations = [h \in Hosts |-> stations[h]]
  /\ natFile = [i \in PublicIPs \cup PrivateIPs |-> natFile[i]] /\ TableOK(natFile)
  /\ natCache # Nothing => TableOK(natCache)
  /\ call \in [Consoles -> {Nothing} \cup Calls]
  /\ \A c \in Consoles : CallOK(c, call[c])
  /\ NeverPointsAtAsker

\* What a console may be told of a host, before it is pointed at the relay: its own
\* port only if the two are crossed.
AllPorts == {Nothing} \cup UNION {PortsOf(d) : d \in Consoles}
PortsFor(c, h) == {p \in AllPorts : p = udpPort[c] => Crossed(c, h)}
Told(c, h) == [lan : PortsFor(c, h), pub : PortsFor(c, h)]

(* The ports of another console may be told. *)
LEMMA OthersPorts ==
  ASSUME NEW c \in Consoles, NEW h \in Consoles, c # h
  PROVE  PortsOf(h) \cup {Nothing} \subseteq PortsFor(c, h)
<1>1. udpPort[c] \notin PortsOf(h) \cup {Nothing}
  BY SessionURLsAssumption DEF PortsOf
<1> QED
  BY <1>1 DEF PortsFor, AllPorts

(* A console that is told of another learns nothing that is its own port, and  *)
(* neither does it at the relay, unless the two are crossed.                   *)
LEMMA ToldStep ==
  ASSUME NEW c \in Consoles, NEW h \in Consoles, NEW ports \in Told(c, h),
         NEW p \in relayedFor(ports), Tell(c, h, p), net' = net
  PROVE  NeverPointsAtAsker'
<1>1. misled' = IF udpPort[c] \in {p.lan, p.pub} THEN <<c, h>> ELSE Nothing
  BY DEF Tell
<1>2. p.lan \in PortsFor(c, h) \cup {relayPort} /\ p.pub \in PortsFor(c, h) \cup {relayPort}
  BY DEF relayedFor, Told
<1>3. udpPort[c] \in {p.lan, p.pub} => Crossed(c, h)
  BY <1>2, SessionURLsAssumption DEF PortsFor
<1>4. misled' # Nothing => misled' = <<c, h>> /\ Crossed(c, h)
  BY <1>1, <1>3
<1>5. Crossed(c, h) => Crossed(c, h)'
  BY DEF Crossed, behindSameNAT, PublicIPOf, isPrivateIP, SeenAt, PublicAddr
<1> QED
  BY <1>4, <1>5 DEF NeverPointsAtAsker

(* The ports of a host's stations are its own. *)
LEMMA PortsTold ==
  ASSUME NEW c \in Consoles, NEW h \in Consoles, c # h, NEW st \in StationsOf(h)
  PROVE  Ports(st) \in Told(c, h)
<1>1. /\ st.lan # Nothing => st.lan.port \in PortsOf(h)
      /\ st.pub # Nothing => st.pub.port \in PortsOf(h)
  BY DEF StationsOf, StationOf
<1>2. Ports(st) \in [lan : PortsOf(h) \cup {Nothing}, pub : PortsOf(h) \cup {Nothing}]
  BY <1>1 DEF Ports
<1> QED
  BY <1>2, OthersPorts DEF Told

(* What the responder has seen at a public address of a host may be told a     *)
(* console that does not connect from the host's address: it is the console's  *)
(* own port only if they are crossed.                                          *)
LEMMA SeenTold ==
  ASSUME NEW c \in Consoles, NEW h \in Consoles, NEW table, TableOK(table),
         ~behindSameNAT(c, h), NEW i \in PublicIPs \cap SeenAt(h)
  PROVE  table[i] \in PortsFor(c, h)
<1>1. CASE table[i] = Nothing
  BY <1>1, SessionURLsAssumption DEF PortsFor, AllPorts
<1>2. CASE table[i] # Nothing
  <2>1. PICK d \in Consoles : table[i] = udpPort[d] /\ i \in SeenAt(d)
    BY <1>2 DEF TableOK
  <2>2. udpPort[d] \in AllPorts
    BY DEF AllPorts, PortsOf
  <2>3. udpPort[d] = udpPort[c] => d = c
    BY SessionURLsAssumption
  <2>4. d = c => Crossed(c, h)
    BY <2>1 DEF Crossed
  <2> QED
    BY <2>1, <2>2, <2>3, <2>4 DEF PortsFor
<1> QED
  BY <1>1, <1>2

(* The address of a public station, if it is not the LAN one, is public. *)
LEMMA PublicStation ==
  ASSUME net \in Networks, NEW h \in Consoles, NEW st, selectStations(h, st).public = "pub"
  PROVE  PublicAddr(h) \in PublicIPs \cap SeenAt(h)
<1>1. /\ net[h].from \in PublicIPs \cup PrivateIPs /\ net[h].reports \in PublicIPs \cup {Nothing}
      /\ net[h].overlay => net[h].from \in PublicIPs
  BY SessionURLsAssumption
<1>2. ~net[h].overlay => ~isPrivateIP(PublicAddr(h))
  BY SessionURLsAssumption DEF selectStations
<1> QED
  BY <1>1, <1>2 DEF PublicAddr, SeenAt, isPrivateIP

(* Which stations are selected: the two, unless one is missing or reads as the *)
(* other.                                                                      *)
LEMMA Selected ==
  ASSUME NEW h, NEW st
  PROVE  LET s == selectStations(h, st) IN
         /\ s.local \in {Nothing, "lan"} /\ s.public \in {Nothing, "lan", "pub"}
         /\ s.local # Nothing => st.lan # Nothing /\ st.pub # Nothing
  BY DEF selectStations

(* Nothing of the bridge is the asker's own port: between two consoles at one  *)
(* address the port the responder saw there is not used, and between others    *)
(* only crossed ones may be seen at one address.                               *)
LEMMA NatBridgeTold ==
  ASSUME net \in Networks, NEW joiner \in Consoles, NEW host \in Consoles, joiner # host,
         NEW st \in StationsOf(host), NEW table, TableOK(table), ~behindSameNAT(joiner, host)
  PROVE  natBridgeStations(host, st, table).ports \in Told(joiner, host)
<1>1. Ports(st) \in Told(joiner, host)
  BY PortsTold
<1>2. \A p \in PortsFor(joiner, host) : Both(p) \in Told(joiner, host)
  BY DEF Both, Told
<1>3. st.lan # Nothing => st.lan.port \in PortsFor(joiner, host)
  BY OthersPorts DEF StationsOf, StationOf
<1> PICK l, q : l = selectStations(host, st).local /\ q = selectStations(host, st).public
  OBVIOUS
<1> PICK seen : seen = table[PublicAddr(host)]
  OBVIOUS
<1>4. CASE Nothing \in {l, q} \/ l = q
  BY <1>1, <1>4 DEF natBridgeStations, Bridge
<1>5. CASE ~(Nothing \in {l, q} \/ l = q)
  <2>1. l = "lan" /\ q = "pub" /\ st.lan # Nothing
    BY <1>5, Selected
  <2>2. seen \in PortsFor(joiner, host)
    BY <2>1, PublicStation, SeenTold
  <2>3. natBridgeStations(host, st, table).ports
          \in {Ports(st), Both(seen), Both(st.lan.port)}
    BY <1>5, <2>1 DEF natBridgeStations, Bridge
  <2> QED
    BY <1>1, <1>2, <1>3, <2>1, <2>2, <2>3
<1> QED
  BY <1>4, <1>5

(* The same of every branch of the bridge, the loopback one and the one that    *)
(* preserves the identity included: these hand out the host's own ports.       *)
LEMMA BridgeTold ==
  ASSUME net \in Networks, NEW joiner \in Consoles, NEW host \in Consoles, joiner # host,
         NEW st \in StationsOf(host), NEW table, TableOK(table)
  PROVE  bridgeSessionStationsForPair(joiner, host, st, table).ports \in Told(joiner, host)
<1>1. Ports(st) \in Told(joiner, host)
  BY PortsTold
<1>2. \A p \in PortsFor(joiner, host) : Both(p) \in Told(joiner, host)
  BY DEF Both, Told
<1>3. /\ st.lan # Nothing => st.lan.port \in PortsFor(joiner, host)
      /\ st.pub # Nothing => st.pub.port \in PortsFor(joiner, host)
  BY OthersPorts DEF StationsOf, StationOf
<1> PICK l, q : l = selectStations(host, st).local /\ q = selectStations(host, st).public
  OBVIOUS
<1>4. /\ l \in {Nothing, "lan"} /\ q \in {Nothing, "lan", "pub"}
      /\ l # Nothing => st.lan # Nothing /\ st.pub # Nothing
  BY Selected
<1>5. CASE ~behindSameNAT(joiner, host) \/ title.preserveIdentity
  <2>1. CASE title.preserveIdentity
    <3>1. ASSUME Nothing \notin {l, q}
          PROVE  bridgeSessionStations(host, st, table).ports \in Told(joiner, host)
      <4>1. /\ st[l].port \in PortsFor(joiner, host) /\ st[q].port \in PortsFor(joiner, host)
        BY <1>3, <1>4, <3>1
      <4>2. [lan |-> st[l].port, pub |-> st[q].port] \in Told(joiner, host)
        BY <4>1 DEF Told
      <4>3. bridgeSessionStations(host, st, table).ports
              \in {Ports(st), [lan |-> st[l].port, pub |-> st[q].port]}
        BY <2>1, <3>1 DEF bridgeSessionStations, Bridge
      <4> QED
        BY <1>1, <4>2, <4>3
    <3>2. Nothing \in {l, q} => bridgeSessionStations(host, st, table).ports = Ports(st)
      BY <2>1 DEF bridgeSessionStations, Bridge
    <3>3. bridgeSessionStations(host, st, table).ports \in Told(joiner, host)
      BY <1>1, <3>1, <3>2
    <3> QED
      BY <2>1, <3>3 DEF bridgeSessionStationsForPair
  <2>2. CASE ~title.preserveIdentity
    <3>1. natBridgeStations(host, st, table).ports \in Told(joiner, host)
      BY <1>5, <2>2, NatBridgeTold
    <3>2. \/ bridgeSessionStations(host, st, table) = natBridgeStations(host, st, table)
          \/ bridgeSessionStations(host, st, table).ports = Ports(st)
      BY <2>2 DEF bridgeSessionStations, Bridge
    <3> QED
      BY <1>1, <1>5, <3>1, <3>2 DEF bridgeSessionStationsForPair
  <2> QED
    BY <2>1, <2>2
<1>6. CASE ~(~behindSameNAT(joiner, host) \/ title.preserveIdentity)
  <2>1. CASE Nothing \in {l, q}
    BY <1>1, <1>6, <2>1 DEF bridgeSessionStationsForPair, Bridge
  <2>2. CASE Nothing \notin {l, q}
    <3>1. bridgeSessionStationsForPair(joiner, host, st, table).ports
            \in {Ports(st), Both(st.lan.port)}
      BY <1>4, <1>6, <2>2 DEF bridgeSessionStationsForPair, Bridge
    <3> QED
      BY <1>1, <1>2, <1>3, <1>4, <2>2, <3>1
  <2> QED
    BY <2>1, <2>2
<1> QED
  BY <1>5, <1>6

(* An answer misleads only a crossed console, and ends the call. *)
LEMMA AnswerStep ==
  ASSUME UrlsInv, NEW c \in Consoles, NEW h \in Consoles, NEW ports \in Told(c, h),
         Answer(c, h, ports), net' = net
  PROVE  /\ NeverPointsAtAsker' /\ call' \in [Consoles -> {Nothing} \cup Calls]
         /\ \A d \in Consoles : CallOK(d, call'[d])
<1>1. call' = [call EXCEPT ![c] = Nothing]
  BY DEF Answer
<1>2. PICK p \in relayedFor(ports) : Tell(c, h, p)
  BY DEF Answer
<1>3. NeverPointsAtAsker'
  BY <1>2, ToldStep
<1>4. call \in [Consoles -> {Nothing} \cup Calls] /\ \A d \in Consoles : CallOK(d, call[d])
  BY DEF UrlsInv
<1>5. call' \in [Consoles -> {Nothing} \cup Calls]
  BY <1>1, <1>4
<1>6. \A d \in Consoles : call'[d] = Nothing \/ call'[d] = call[d]
  BY <1>1, <1>4
<1>7. \A d \in Consoles : CallOK(d, call'[d])
  BY <1>4, <1>6 DEF CallOK
<1> QED
  BY <1>3, <1>5, <1>7

(* The tables of the responder are right wherever they are read. *)
LEMMA TablesRead ==
  ASSUME UrlsInv, NEW table \in NatTables
  PROVE  TableOK(table)
  BY DEF UrlsInv, NatTables

(* Every step of the URL half keeps its invariant. *)
LEMMA UrlsStep ==
  ASSUME UrlsInv, UrlsNext
  PROVE  UrlsInv'
<1> USE SessionURLsAssumption
<1>s. /\ \A h \in Hosts : stations[h] \in StationsOf(h) /\ h \in Consoles
      /\ stations = [h \in Hosts |-> stations[h]]
  BY DEF UrlsInv
<1>n. net \in Networks
  BY DEF UrlsInv
<1>f. natFile = [i \in PublicIPs \cup PrivateIPs |-> natFile[i]] /\ TableOK(natFile)
  BY DEF UrlsInv
<1>k. call \in [Consoles -> {Nothing} \cup Calls] /\ \A c \in Consoles : CallOK(c, call[c])
  BY DEF UrlsInv
<1>q. ASSUME /\ net' = net
             /\ \A h \in Hosts : stations'[h] \in StationsOf(h)
             /\ stations' = [h \in Hosts |-> stations'[h]]
             /\ natFile' = natFile
             /\ natCache' # Nothing => TableOK(natCache')
             /\ call' \in [Consoles -> {Nothing} \cup Calls]
             /\ \A c \in Consoles : CallOK(c, call'[c])
             /\ NeverPointsAtAsker'
      PROVE  UrlsInv'
  <2>1. TableOK(natFile)'
    BY <1>f, <1>q DEF TableOK, SeenAt, PublicAddr
  <2>2. natCache' # Nothing => TableOK(natCache)'
    BY <1>q DEF TableOK, SeenAt, PublicAddr
  <2> QED
    BY <1>f, <1>n, <1>q, <2>1, <2>2 DEF UrlsInv
<1>c. natCache # Nothing => TableOK(natCache)
  BY DEF UrlsInv
<1>m. ASSUME misled' = misled, net' = net
      PROVE  NeverPointsAtAsker'
  BY <1>m DEF UrlsInv, NeverPointsAtAsker, Crossed, behindSameNAT, PublicIPOf, isPrivateIP,
              SeenAt, PublicAddr
<1>1. ASSUME NEW c \in Consoles, NEW port \in {UnsetPort, tcpPort[c]}, handleRegister(c, port)
      PROVE  UrlsInv'
  <2>1. /\ UNCHANGED <<title, net, natFile, natCache, call, misled>>
        /\ stations' = [h \in Hosts |->
                    IF h = c
                    THEN [lan |-> Station(port, TRUE, FALSE, FALSE),
                          pub |-> Station(IF net[c].reports = Nothing THEN tcpPort[c] ELSE port,
                                          TRUE, FALSE, TRUE)]
                    ELSE stations[h]]
    BY <1>1 DEF handleRegister
  <2>2. [lan |-> Station(port, TRUE, FALSE, FALSE),
         pub |-> Station(IF net[c].reports = Nothing THEN tcpPort[c] ELSE port,
                         TRUE, FALSE, TRUE)] \in StationsOf(c)
    BY DEF Station, StationsOf, StationOf, PortsOf
  <2>3. \A h \in Hosts : stations'[h] \in StationsOf(h)
    BY <1>s, <2>1, <2>2
  <2> QED
    BY <1>c, <1>k, <1>m, <1>q, <2>1, <2>3
<1>2. ASSUME NEW c \in Consoles, NEW which \in {"lan", "pub"}, NEW rvcid \in BOOLEAN,
             NEW type \in BOOLEAN, handleReplaceURL(c, which, rvcid, type)
      PROVE  UrlsInv'
  <2> PICK old, sel : old = stations[c] /\ sel = selectStations(c, old)
    OBVIOUS
  <2> DEFINE new == IF title.preserveIdentity /\ Nothing \notin {sel.local, sel.public}
                    THEN [lan |-> Station(udpPort[c], TRUE, TRUE, FALSE),
                          pub |-> Station(old.pub.port, TRUE, TRUE, old.pub.type)]
                    ELSE [old EXCEPT ![which] = Station(udpPort[c], rvcid, TRUE, type)]
  <2>1. /\ UNCHANGED <<title, net, natFile, natCache, call, misled>> /\ c \in Hosts
        /\ stations' = [stations EXCEPT ![c] = new]
    BY <1>2 DEF handleReplaceURL
  <2>2. old \in StationsOf(c)
    BY <1>s, <2>1
  <2>3. /\ Station(udpPort[c], rvcid, TRUE, type) \in StationOf(c)
        /\ Station(udpPort[c], TRUE, TRUE, FALSE) \in StationOf(c)
    BY DEF Station, StationOf, PortsOf
  <2>4. old.pub # Nothing => Station(old.pub.port, TRUE, TRUE, old.pub.type) \in StationOf(c)
    BY <2>2 DEF Station, StationsOf, StationOf
  <2>5. Nothing \notin {sel.local, sel.public} => old.pub # Nothing
    BY Selected
  <2>6. new \in StationsOf(c)
    BY <2>2, <2>3, <2>4, <2>5 DEF StationsOf
  <2> HIDE DEF new
  <2>7. \A h \in Hosts : stations'[h] \in StationsOf(h)
    BY <1>s, <2>1, <2>6
  <2>8. stations' = [h \in Hosts |-> stations'[h]]
    BY <1>s, <2>1
  <2> QED
    BY <1>c, <1>k, <1>m, <1>q, <2>1, <2>7, <2>8
<1>3. ASSUME NEW c \in Consoles, NncsObserves(c)
      PROVE  UrlsInv'
  <2>1. UNCHANGED <<title, net, alive, stations, natCache, call, misled>>
    BY <1>3 DEF NncsObserves
  <2>2. PICK ip \in SeenAt(c) : natFile' = [natFile EXCEPT ![ip] = udpPort[c]]
    BY <1>3 DEF NncsObserves
  <2>3. natFile' = [i \in PublicIPs \cup PrivateIPs |-> natFile'[i]]
    BY <1>f, <2>2
  <2>4. \A i \in PublicIPs : natFile'[i] = IF i = ip THEN udpPort[c] ELSE natFile[i]
    BY <1>f, <2>2
  <2>5. TableOK(natFile')
    BY <1>f, <2>4 DEF TableOK
  <2>6. TableOK(natFile)' /\ (natCache' # Nothing => TableOK(natCache)')
    BY <1>c, <2>1, <2>5 DEF TableOK, SeenAt, PublicAddr
  <2> QED
    BY <1>k, <1>m, <1>s, <2>1, <2>3, <2>6 DEF UrlsInv
<1>4. ASSUME NEW c \in Consoles, Disconnect(c)
      PROVE  UrlsInv'
  <2>1. /\ UNCHANGED <<title, net, stations, natFile, natCache, misled>>
        /\ call' = [d \in Consoles |->
             IF d = c THEN Nothing
             ELSE IF call[d] # Nothing /\ call[d].host = c /\ call[d].last = Nothing
             THEN [call[d] EXCEPT !.last = stations[c]]
             ELSE call[d]]
    BY <1>4 DEF Disconnect
  <2>2. ASSUME NEW d \in Consoles
        PROVE  call'[d] \in {Nothing} \cup Calls /\ CallOK(d, call'[d])
    <3>1. CASE d # c /\ call[d] # Nothing /\ call[d].host = c /\ call[d].last = Nothing
      <4> PICK k : k = call[d]
        OBVIOUS
      <4>1. k \in Calls /\ k.host = c /\ k.host \in Hosts /\ k.host # d
        BY <1>k, <3>1 DEF Calls, CallOK
      <4>2. call'[d] = [k EXCEPT !.last = stations[c]] /\ stations[c] \in StationsOf(c)
        BY <1>s, <2>1, <3>1, <4>1
      <4>3. /\ call'[d] \in Calls /\ call'[d].host = c /\ call'[d].last = stations[c]
        BY <4>1, <4>2 DEF Calls
      <4> QED
        BY <4>1, <4>2, <4>3 DEF CallOK
    <3>2. CASE ~(d # c /\ call[d] # Nothing /\ call[d].host = c /\ call[d].last = Nothing)
      <4>1. call'[d] = Nothing \/ call'[d] = call[d]
        BY <2>1, <3>2
      <4> QED
        BY <1>k, <4>1 DEF CallOK
    <3> QED
      BY <3>1, <3>2
  <2>3. call' \in [Consoles -> {Nothing} \cup Calls]
    BY <2>1, <2>2
  <2> QED
    BY <1>c, <1>m, <1>q, <1>s, <2>1, <2>2, <2>3
<1>5. ASSUME NEW c \in Consoles, NEW host \in Hosts, getSessionURLs(c, host)
      PROVE  UrlsInv'
  <2>1. UNCHANGED <<title, net, alive, stations, natFile>> /\ c # host /\ host \in Consoles
    BY <1>5 DEF getSessionURLs
  <2>2. CASE Tell(c, host, NoStations) /\ UNCHANGED <<call, natCache>>
    <3>1. misled' = IF udpPort[c] \in {Nothing} THEN <<c, host>> ELSE Nothing
      BY <2>2 DEF Tell, NoStations
    <3>2. misled' = Nothing
      BY <3>1
    <3>3. NeverPointsAtAsker'
      BY <3>2 DEF NeverPointsAtAsker
    <3> QED
      BY <1>c, <1>k, <1>q, <1>s, <2>1, <2>2, <3>3
  <2>3. ASSUME NEW table \in NatTables, natCache' = table,
               NEW b, b = bridgeSessionStationsForPair(c, host, stations[host], table),
               IF b.status # "NoRVCID" THEN Answer(c, host, b.ports)
               ELSE /\ call' = [call EXCEPT ![c] = [host |-> host, polls |-> 0, last |-> Nothing]]
                    /\ misled' = misled
        PROVE  UrlsInv'
    <3>1. TableOK(natCache')
      BY <2>3, TablesRead
    <3>2. b.ports \in Told(c, host)
      BY <1>n, <1>s, <2>1, <2>3, BridgeTold, TablesRead
    <3>3. CASE Answer(c, host, b.ports)
      BY <1>q, <1>s, <2>1, <3>1, <3>2, <3>3, AnswerStep
    <3>4. CASE /\ call' = [call EXCEPT ![c] = [host |-> host, polls |-> 0, last |-> Nothing]]
               /\ misled' = misled
      <4> PICK new : new = [host |-> host, polls |-> 0, last |-> Nothing]
        OBVIOUS
      <4>1. new \in Calls /\ CallOK(c, new)
        BY <2>1 DEF Calls, CallOK
      <4>2. call' \in [Consoles -> {Nothing} \cup Calls] /\ \A d \in Consoles : call'[d] = IF d = c THEN new ELSE call[d]
        BY <1>k, <3>4, <4>1
      <4>3. \A d \in Consoles : CallOK(d, call'[d])
        BY <1>k, <4>1, <4>2
      <4>4. NeverPointsAtAsker'
        BY <1>m, <2>1, <3>4
      <4> QED
        BY <1>q, <1>s, <2>1, <3>1, <4>2, <4>3, <4>4
    <3> QED
      BY <2>3, <3>3, <3>4
  <2> QED
    BY <1>5, <2>2, <2>3 DEF getSessionURLs
<1>6. ASSUME NEW c \in Consoles, Poll(c)
      PROVE  UrlsInv'
  <2> PICK k : k = call[c]
    OBVIOUS
  <2>1. UNCHANGED <<title, net, alive, stations, natFile>> /\ k # Nothing
    BY <1>6 DEF Poll
  <2>2. k \in Calls /\ k.host \in Hosts /\ k.host \in Consoles /\ k.host # c /\ k.polls \in Nat
        /\ (k.last = Nothing \/ k.last \in StationsOf(k.host))
    BY <1>k, <1>s, <2>1 DEF Calls, CallOK
  <2>3. HostStations(k) \in StationsOf(k.host)
    BY <1>s, <2>2 DEF HostStations
  <2>4. ASSUME NEW table \in NatTables, natCache' = table,
               NEW b, b = bridgeSessionStationsForPair(c, k.host, HostStations(k), table),
               IF b.status = "OK" THEN Answer(c, k.host, b.ports)
               ELSE call' = [call EXCEPT ![c].polls = @ + 1] /\ misled' = misled
        PROVE  UrlsInv'
    <3>1. TableOK(natCache')
      BY <2>4, TablesRead
    <3>2. b.ports \in Told(c, k.host)
      BY <1>n, <2>2, <2>3, <2>4, BridgeTold, TablesRead
    <3>3. CASE Answer(c, k.host, b.ports)
      BY <1>q, <1>s, <2>1, <2>2, <3>1, <3>2, <3>3, AnswerStep
    <3>4. CASE call' = [call EXCEPT ![c].polls = @ + 1] /\ misled' = misled
      <4> PICK new : new = [k EXCEPT !.polls = @ + 1]
        OBVIOUS
      <4>1. new \in Calls /\ new.host = k.host /\ new.last = k.last
        BY <2>2 DEF Calls
      <4>2. CallOK(c, new)
        BY <2>2, <4>1 DEF CallOK
      <4>3. call' = [call EXCEPT ![c] = new]
        BY <3>4
      <4>4. call' \in [Consoles -> {Nothing} \cup Calls] /\ \A d \in Consoles : call'[d] = IF d = c THEN new ELSE call[d]
        BY <1>k, <4>1, <4>3
      <4>5. \A d \in Consoles : CallOK(d, call'[d])
        BY <1>k, <4>2, <4>4
      <4>6. NeverPointsAtAsker'
        BY <1>m, <2>1, <3>4
      <4> QED
        BY <1>q, <1>s, <2>1, <3>1, <4>4, <4>5, <4>6
    <3> QED
      BY <2>4, <3>3, <3>4
  <2>5. CASE Answer(c, k.host, Ports(HostStations(k))) /\ natCache' = natCache
    <3>1. Ports(HostStations(k)) \in Told(c, k.host)
      BY <2>2, <2>3, PortsTold
    <3> QED
      BY <1>c, <1>q, <1>s, <2>1, <2>2, <2>5, <3>1, AnswerStep
  <2> QED
    BY <1>6, <2>4, <2>5 DEF Poll
<1>7. ASSUME NEW c \in Consoles, NEW target \in Consoles, NEW which \in {"lan", "pub"},
             pushInitiateProbe(c, target, udpPort[c], which)
      PROVE  UrlsInv'
  <2>1. UNCHANGED <<title, net, alive, stations, natFile, call>> /\ c # target
    BY <1>7 DEF pushInitiateProbe
  <2>2. PICK table \in NatTables :
          LET repoints == /\ ~isPrivateIP(net[c].from)
                          /\ title.repoint \/ overlayStation(c, which)
              seen     == table[net[c].from]
              moved    == IF repoints /\ seen # Nothing /\ natPortUnambiguous(c)
                          THEN seen ELSE udpPort[c]
              direct   == IF behindSameNAT(c, target) THEN udpPort[c] ELSE moved
          IN /\ natCache' = table
             /\ \E p \in {direct, relayPort} : Tell(target, c, [NoStations EXCEPT !.pub = p])
    BY <1>7 DEF pushInitiateProbe
  <2>3. TableOK(table) /\ TableOK(natCache')
    BY <2>2, TablesRead
  <2>4. ~isPrivateIP(net[c].from) => net[c].from \in PublicIPs \cap SeenAt(c)
    BY <1>n DEF isPrivateIP, SeenAt
  <2>5. behindSameNAT(target, c) <=> behindSameNAT(c, target)
    BY DEF behindSameNAT
  <2>6. ~behindSameNAT(c, target) /\ ~isPrivateIP(net[c].from)
          => table[net[c].from] \in PortsFor(target, c)
    BY <2>3, <2>4, <2>5, SeenTold
  <2>7. udpPort[c] \in PortsFor(target, c) /\ Nothing \in PortsFor(target, c)
    BY <2>1, OthersPorts DEF PortsOf
  <2>8. PICK p \in PortsFor(target, c) \cup {relayPort} :
          Tell(target, c, [NoStations EXCEPT !.pub = p])
    BY <2>2, <2>6, <2>7
  <2>9. misled' = IF udpPort[target] \in {Nothing, p} THEN <<target, c>> ELSE Nothing
    BY <2>8 DEF Tell, NoStations
  <2>10. udpPort[target] \in {Nothing, p} => Crossed(target, c)
    BY <2>8 DEF PortsFor
  <2>11. Crossed(target, c) => Crossed(target, c)'
    BY <2>1 DEF Crossed, behindSameNAT, PublicIPOf, isPrivateIP, SeenAt, PublicAddr
  <2>12. NeverPointsAtAsker'
    BY <2>9, <2>10, <2>11 DEF NeverPointsAtAsker
  <2> QED
    BY <1>k, <1>q, <1>s, <2>1, <2>3, <2>12
<1> QED
  BY <1>1, <1>2, <1>3, <1>4, <1>5, <1>6, <1>7 DEF UrlsNext

-----------------------------------------------------------------------------
(* The theorems *)

IntroductionsInv ==
  /\ half \in {"need", "urls"}
  /\ half = "need" => NeedInv
  /\ half = "urls" => UrlsInv

(* The tables are empty at the start. *)
LEMMA InitIntroductions == Init => IntroductionsInv
<1> SUFFICES ASSUME Init PROVE IntroductionsInv
  OBVIOUS
<1>1. CASE half = "need" /\ NeedInit
  <2>1. NeedTypes /\ GateOK /\ FailuresOK /\ NotedOK /\ SuccessOK /\ ~unearned
    BY <1>1, OneKey DEF NeedInit, NeedTypes, GateOK, FailuresOK, NotedOK, SuccessOK, Moments, Pairs
  <2> QED
    BY <1>1, <2>1 DEF IntroductionsInv, NeedInv
<1>2. CASE half = "urls" /\ UrlsInit
  <2>1. NoStations \in [lan : {Nothing}, pub : {Nothing}]
    BY DEF NoStations
  <2>2. \A h \in Hosts : NoStations \in StationsOf(h)
    BY <2>1 DEF StationsOf, StationOf
  <2>3. TableOK(natFile)
    BY <1>2 DEF UrlsInit, TableOK
  <2>4. UrlsInv
    BY <1>2, <2>2, <2>3 DEF UrlsInit, UrlsInv, CallOK, NeverPointsAtAsker
  <2> QED
    BY <1>2, <2>4 DEF IntroductionsInv
<1> QED
  BY <1>1, <1>2 DEF Init

(* Every step keeps the invariant. *)
LEMMA StepIntroductions == IntroductionsInv /\ [Next]_vars => IntroductionsInv'
<1> SUFFICES ASSUME IntroductionsInv, [Next]_vars PROVE IntroductionsInv'
  OBVIOUS
<1>1. CASE half = "need" /\ NeedNext /\ UNCHANGED <<urlVars, half>>
  BY <1>1, NeedStep DEF IntroductionsInv
<1>2. CASE half = "urls" /\ UrlsNext /\ UNCHANGED <<needVars, half>>
  BY <1>2, UrlsStep DEF IntroductionsInv
<1>3. CASE UNCHANGED vars
  <2>1. UNCHANGED <<needVars, urlVars, half>>
    BY <1>3 DEF vars
  <2>2. NeedInv => NeedInv'
    BY <2>1 DEF needVars, NeedInv, NeedTypes, GateOK, FailuresOK, NotedOK, SuccessOK
  <2>3. UrlsInv => UrlsInv'
    BY <2>1 DEF urlVars, UrlsInv, TableOK, CallOK, NeverPointsAtAsker, Crossed, behindSameNAT,
                PublicIPOf, isPrivateIP, SeenAt, PublicAddr
  <2> QED
    BY <2>1, <2>2, <2>3 DEF IntroductionsInv
<1> QED
  BY <1>1, <1>2, <1>3 DEF Next

(* Nobody is introduced through the relay (PairRelayFor) who has not agreed to *)
(* it, and no pair without failures of the direct path behind it: the failures *)
(* the relay itself causes never count, because a pair relayed within          *)
(* relayVuTTL is still noted when its verdict arrives.                         *)
THEOREM GrantsAreEarned == Spec => []RelayEarned
<1>1. IntroductionsInv => RelayEarned
  BY DEF IntroductionsInv, NeedInv, RelayEarned, GrantsEarned
<1> QED
  BY <1>1, InitIntroductions, StepIntroductions, PTL DEF Spec

(* Whom CandidatsRelais proposes has not reached anybody directly within       *)
(* besoinFenetre: NotePercage forgets an entry only when its last success is   *)
(* older than that.                                                            *)
THEOREM CandidatesHaveNoPath == Spec => []CandidatesWithoutPath
<1>1. IntroductionsInv => CandidatesWithoutPath
  <2> SUFFICES ASSUME NeedInv, NEW p \in CandidatsRelais, success[p] # Unknown
               PROVE  now - success[p] > besoinFenetre
    BY DEF IntroductionsInv, CandidatesWithoutPath, CandidatesNeverConnected
  <2>1. p \in Gamers /\ besoins[p].reussites = 0
    BY DEF CandidatsRelais
  <2>2. ~(now - success[p] <= besoinFenetre)
    BY <2>1 DEF NeedInv, SuccessOK
  <2>3. now \in Nat /\ success[p] \in Nat /\ besoinFenetre \in Nat
    BY <2>1, RelayNeedAssumption DEF NeedInv, NeedTypes, Moments
  <2> QED
    BY <2>2, <2>3
<1> QED
  BY <1>1, InitIntroductions, StepIntroductions, PTL DEF Spec

(* A console is pointed at its own port for its peer, by GetSessionURLs, by    *)
(* the goroutine that answers it later or by a pushed probe, only if the two   *)
(* are crossed: not between two consoles of one household, of one machine or   *)
(* without an address in common, at whatever moment the host registers,        *)
(* reports its port, leaves or is replaced in the nncs responder's table by a  *)
(* console that shares its address.                                            *)
THEOREM PeersNotAskers == Spec => []PointsAtPeer
<1>1. IntroductionsInv => PointsAtPeer
  BY DEF IntroductionsInv, UrlsInv, PointsAtPeer
<1> QED
  BY <1>1, InitIntroductions, StepIntroductions, PTL DEF Spec
=============================================================================
