------------------------- MODULE MatchmakingProofs -------------------------
(***************************************************************************)
(* Proofs about the matchmaking store, for any number of sockets, players, *)
(* rooms, codes and sessions.                                              *)
(***************************************************************************)
EXTENDS Matchmaking, WellFoundedInduction, TLAPS

-----------------------------------------------------------------------------
(* Lists of participants *)

(* Induction over the natural numbers, for a set: the least number outside of *)
(* the set would have a predecessor in it.                                    *)
LEMMA SetInduction ==
  ASSUME NEW S, 0 \in S, \A n \in Nat : n \in S => n + 1 \in S
  PROVE  Nat \subseteq S
<1> DEFINE T == Nat \ S
<1> SUFFICES ASSUME T # {} PROVE FALSE
  BY DEF T
<1>1. T \subseteq Nat
  BY DEF T
<1>2. PICK x \in T : \A y \in T : <<y, x>> \notin OpToRel(<, Nat)
  BY <1>1, WFMin, NatLessThanWellFounded
<1>3. x \in Nat /\ x # 0 /\ x - 1 \in Nat
  BY DEF T
<1>4. <<x - 1, x>> \in OpToRel(<, Nat)
  BY <1>3 DEF OpToRel
<1>5. x - 1 \in S
  BY <1>2, <1>3, <1>4 DEF T
<1> QED
  BY <1>3, <1>5 DEF T

\* The list after its first i members have been looked at.
Loop(out, list, wanted, n) ==
  out = [i \in 0 .. n |->
           IF i = 0 THEN <<>>
           ELSE IF list[i] \in wanted THEN Append(out[i - 1], list[i]) ELSE out[i - 1]]

\* The same, turn by turn.
Turns(out, list, wanted, n) ==
  /\ out[0] = <<>>
  /\ \A i \in 1 .. n :
       out[i] = IF list[i] \in wanted THEN Append(out[i - 1], list[i]) ELSE out[i - 1]

(* What the recursive function of Kept computes in each turn. *)
LEMMA LoopTurn ==
  ASSUME NEW E, NEW list \in Seq(E), NEW wanted, NEW n \in Nat, NEW out,
         Loop(out, list, wanted, n)
  PROVE  Turns(out, list, wanted, n)
<1> DEFINE turned == [i \in 0 .. n |->
              IF i = 0 THEN <<>>
              ELSE IF list[i] \in wanted THEN Append(out[i - 1], list[i]) ELSE out[i - 1]]
<1>1. turned[0] = <<>>
  OBVIOUS
<1>2. ASSUME NEW i \in 1 .. n
      PROVE  turned[i] = IF list[i] \in wanted THEN Append(out[i - 1], list[i]) ELSE out[i - 1]
  OBVIOUS
<1>3. out = turned
  BY DEF Loop
<1> HIDE DEF turned
<1> QED
  BY <1>1, <1>2, <1>3 DEF Turns

(* The loop has a result for every length of the list. *)
LEMMA LoopExists ==
  ASSUME NEW E, NEW list \in Seq(E), NEW wanted
  PROVE  \A n \in Nat : n <= Len(list) => \E out : Loop(out, list, wanted, n)
<1> DEFINE S == {n \in Nat : n <= Len(list) => \E out : Loop(out, list, wanted, n)}
<1>1. 0 \in S
  <2>1. Loop([i \in 0 .. 0 |-> <<>>], list, wanted, 0)
    BY DEF Loop
  <2> QED
    BY <2>1
<1>2. ASSUME NEW n \in Nat, n \in S
      PROVE  n + 1 \in S
  <2> SUFFICES ASSUME n + 1 <= Len(list)
               PROVE  \E out : Loop(out, list, wanted, n + 1)
    OBVIOUS
  <2>1. PICK f : Loop(f, list, wanted, n)
    BY <1>2
  <2> DEFINE g == [i \in 0 .. n + 1 |->
                     IF i <= n THEN f[i]
                     ELSE IF list[i] \in wanted THEN Append(f[n], list[i]) ELSE f[n]]
  <2>a. /\ \A i \in 0 .. n : g[i] = f[i]
        /\ g[n + 1] = IF list[n + 1] \in wanted THEN Append(f[n], list[n + 1]) ELSE f[n]
        /\ g = [i \in 0 .. n + 1 |-> g[i]]
    OBVIOUS
  <2>b. /\ f[0] = <<>>
        /\ \A i \in 1 .. n :
             f[i] = IF list[i] \in wanted THEN Append(f[i - 1], list[i]) ELSE f[i - 1]
    <3>1. Turns(f, list, wanted, n)
      BY <2>1, LoopTurn
    <3> QED
      BY <3>1 DEF Turns
  <2> HIDE DEF g
  <2>2. \A i \in 0 .. n + 1 :
          g[i] = IF i = 0 THEN <<>>
                 ELSE IF list[i] \in wanted THEN Append(g[i - 1], list[i]) ELSE g[i - 1]
    <3> SUFFICES ASSUME NEW i \in 1 .. n + 1
                 PROVE  g[i] = IF list[i] \in wanted THEN Append(g[i - 1], list[i])
                               ELSE g[i - 1]
      <4>1. g[0] = <<>>
        BY <2>a, <2>b
      <4> QED
        BY <4>1
    <3>1. CASE i = n + 1
      BY <2>a, <3>1
    <3>2. CASE i # n + 1
      <4>1. i \in 1 .. n /\ i \in 0 .. n /\ i - 1 \in 0 .. n
        BY <3>2
      <4>2. g[i] = f[i] /\ g[i - 1] = f[i - 1]
        BY <2>a, <4>1
      <4> QED
        BY <2>b, <4>1, <4>2
    <3> QED
      BY <3>1, <3>2
  <2>3. Loop(g, list, wanted, n + 1)
    BY <2>2, <2>a DEF Loop
  <2> QED
    BY <2>3
<1>3. Nat \subseteq S
  BY <1>1, <1>2, SetInduction
<1> QED
  BY <1>3

(* What the loop leaves: nothing that is not wanted, everything that is, each *)
(* as often as before at most; and one less when one player is unwanted.      *)
LEMMA KeptProperties ==
  ASSUME NEW E, NEW list \in Seq(E), NEW wanted
  PROVE  /\ Kept(list, wanted) \in Seq(E)
         /\ Len(Kept(list, wanted)) <= Len(list)
         /\ \A x : Contains(Kept(list, wanted), x) <=> Contains(list, x) /\ x \in wanted
         /\ IsInjective(list) => IsInjective(Kept(list, wanted))
         /\ \A p : /\ IsInjective(list) /\ Contains(list, p)
                   /\ \A x \in E : x \in wanted <=> x # p
                   => Len(Kept(list, wanted)) = Len(list) - 1
<1> DEFINE out == CHOOSE f : Loop(f, list, wanted, Len(list))
<1>1. Loop(out, list, wanted, Len(list))
  BY LoopExists
<1>2. Kept(list, wanted) = out[Len(list)]
  BY DEF Kept, Loop
<1> HIDE DEF out
<1>a. Turns(out, list, wanted, Len(list))
  BY <1>1, LoopTurn
<1>3. out[0] = <<>>
  BY <1>a DEF Turns
<1>4. \A i \in 1 .. Len(list) :
        out[i] = IF list[i] \in wanted THEN Append(out[i - 1], list[i]) ELSE out[i - 1]
  BY <1>a DEF Turns
<1> DEFINE Among(x, n) == \E i \in 1 .. n : list[i] = x
           P(n) == /\ out[n] \in Seq(E) /\ Len(out[n]) <= n
                   /\ \A x : Contains(out[n], x) <=> Among(x, n) /\ x \in wanted
                   /\ IsInjective(list) => IsInjective(out[n])
                   /\ \A p : IsInjective(list) /\ (\A x \in E : x \in wanted <=> x # p)
                             => Len(out[n]) = IF Among(p, n) THEN n - 1 ELSE n
           S == {n \in Nat : n <= Len(list) => P(n)}
<1> HIDE DEF P
<1>5. 0 \in S
  <2>1. P(0)
    BY <1>3 DEF P, Contains, IsInjective
  <2> QED
    BY <2>1
<1>6. ASSUME NEW n \in Nat, n \in S
      PROVE  n + 1 \in S
  <2> SUFFICES ASSUME n + 1 <= Len(list)
               PROVE  P(n + 1)
    OBVIOUS
  <2>1. P(n)
    BY <1>6
  <2>2. list[n + 1] \in E /\ n + 1 \in 1 .. Len(list) /\ (n + 1) - 1 = n
    OBVIOUS
  <2>3. \A x : Among(x, n + 1) <=> Among(x, n) \/ x = list[n + 1]
    BY <2>2
  <2>4. IsInjective(list) => ~Among(list[n + 1], n)
    BY <2>2 DEF IsInjective
  <2> HIDE DEF Among
  <2>5. CASE list[n + 1] \in wanted
    <3>1. out[n + 1] = Append(out[n], list[n + 1])
      BY <1>4, <2>2, <2>5
    <3>2. out[n] \in Seq(E) /\ Len(out[n]) <= n
      BY <2>1 DEF P
    <3>3. out[n + 1] \in Seq(E) /\ Len(out[n + 1]) = Len(out[n]) + 1
      BY <2>2, <3>1, <3>2
    <3>4. \A x : Contains(out[n + 1], x) <=> Contains(out[n], x) \/ x = list[n + 1]
      BY <2>2, <3>1, <3>2 DEF Contains
    <3>5. IsInjective(list) => IsInjective(out[n + 1])
      <4>1. IsInjective(list) => IsInjective(out[n]) /\ ~Contains(out[n], list[n + 1])
        BY <2>1, <2>4 DEF P
      <4> QED
        BY <2>2, <3>1, <3>2, <4>1 DEF Contains, IsInjective
    <3>6. ASSUME NEW p, IsInjective(list), \A x \in E : x \in wanted <=> x # p
          PROVE  Len(out[n + 1]) = IF Among(p, n + 1) THEN (n + 1) - 1 ELSE n + 1
      <4>1. p # list[n + 1]
        BY <2>2, <2>5, <3>6
      <4>2. Len(out[n]) = IF Among(p, n) THEN n - 1 ELSE n
        BY <2>1, <3>6 DEF P
      <4> QED
        BY <2>3, <3>3, <4>1, <4>2
    <3>7. \A x : Contains(out[n + 1], x) <=> Among(x, n + 1) /\ x \in wanted
      BY <2>1, <2>3, <2>5, <3>4 DEF P
    <3> QED
      BY <3>2, <3>3, <3>5, <3>6, <3>7 DEF P
  <2>6. CASE list[n + 1] \notin wanted
    <3>1. out[n + 1] = out[n]
      BY <1>4, <2>2, <2>6
    <3>2. out[n] \in Seq(E) /\ Len(out[n]) <= n
      BY <2>1 DEF P
    <3>3. ASSUME NEW p, IsInjective(list), \A x \in E : x \in wanted <=> x # p
          PROVE  Len(out[n + 1]) = IF Among(p, n + 1) THEN (n + 1) - 1 ELSE n + 1
      <4>1. p = list[n + 1]
        BY <2>2, <2>6, <3>3
      <4>2. Len(out[n]) = IF Among(p, n) THEN n - 1 ELSE n
        BY <2>1, <3>3 DEF P
      <4> QED
        BY <2>3, <2>4, <3>1, <3>3, <4>1, <4>2
    <3>4. \A x : Contains(out[n + 1], x) <=> Among(x, n + 1) /\ x \in wanted
      BY <2>1, <2>3, <2>6, <3>1 DEF P
    <3>5. IsInjective(list) => IsInjective(out[n + 1])
      BY <2>1, <3>1 DEF P
    <3> QED
      BY <3>1, <3>2, <3>3, <3>4, <3>5 DEF P
  <2> QED
    BY <2>5, <2>6
<1>7. P(Len(list))
  <2>1. Nat \subseteq S
    BY <1>5, <1>6, SetInduction
  <2> QED
    BY <2>1
<1>8. \A x : Among(x, Len(list)) <=> Contains(list, x)
  BY DEF Contains
<1> QED
  BY <1>2, <1>7, <1>8 DEF P

(* What removePID returns. *)
LEMMA RemovePIDProperties ==
  ASSUME NEW list \in Seq(Players), NEW p \in Players, IsInjective(list)
  PROVE  /\ removePID(list, p) \in Seq(Players)
         /\ Len(removePID(list, p)) <= Len(list)
         /\ \A x : Contains(removePID(list, p), x) <=> Contains(list, x) /\ x # p
         /\ IsInjective(removePID(list, p))
         /\ Contains(list, p) => Len(removePID(list, p)) = Len(list) - 1
<1>1. \A x \in Players : x \in Players \ {p} <=> x # p
  OBVIOUS
<1>2. \A x : Contains(list, x) => x \in Players
  BY DEF Contains
<1> QED
  BY <1>1, <1>2, KeptProperties DEF removePID

(* A player is put at the end of a list it is not in. *)
LEMMA AppendProperties1 ==
  ASSUME NEW list \in Seq(Players), NEW p \in Players, IsInjective(list), ~Contains(list, p)
  PROVE  /\ Append(list, p) \in Seq(Players)
         /\ IsInjective(Append(list, p))
         /\ Len(Append(list, p)) = Len(list) + 1
         /\ \A x : Contains(Append(list, p), x) <=> Contains(list, x) \/ x = p
  BY DEF IsInjective, Contains

(* A player is put at the head of a list it is not in. *)
LEMMA PrependProperties ==
  ASSUME NEW list \in Seq(Players), NEW p \in Players, IsInjective(list), ~Contains(list, p)
  PROVE  /\ <<p>> \o list \in Seq(Players)
         /\ IsInjective(<<p>> \o list)
         /\ Len(<<p>> \o list) = Len(list) + 1
         /\ \A x : Contains(<<p>> \o list, x) <=> Contains(list, x) \/ x = p
<1> DEFINE parts == <<p>> \o list
<1>1. parts \in Seq(Players) /\ Len(parts) = Len(list) + 1 /\ parts[1] = p
  OBVIOUS
<1>2. \A i \in 1 .. Len(list) : i + 1 \in 1 .. Len(parts) /\ parts[i + 1] = list[i]
  OBVIOUS
<1>3. \A i \in 2 .. Len(parts) : i - 1 \in 1 .. Len(list) /\ parts[i] = list[i - 1]
  OBVIOUS
<1> HIDE DEF parts
<1>4. \A x : Contains(parts, x) <=> Contains(list, x) \/ x = p
  <2>1. ASSUME NEW x, Contains(parts, x)
        PROVE  Contains(list, x) \/ x = p
    <3>1. PICK i \in 1 .. Len(parts) : parts[i] = x
      BY <2>1 DEF Contains
    <3>2. CASE i = 1
      BY <1>1, <3>1, <3>2
    <3>3. CASE i # 1
      <4>1. i \in 2 .. Len(parts)
        BY <1>1, <3>3
      <4> QED
        BY <1>3, <3>1, <4>1 DEF Contains
    <3> QED
      BY <3>2, <3>3
  <2>2. ASSUME NEW x, Contains(list, x) \/ x = p
        PROVE  Contains(parts, x)
    <3>1. 1 \in 1 .. Len(parts)
      BY <1>1
    <3> QED
      BY <1>1, <1>2, <2>2, <3>1 DEF Contains
  <2> QED
    BY <2>1, <2>2
<1>5. IsInjective(parts)
  <2> SUFFICES ASSUME NEW a \in DOMAIN parts, NEW b \in DOMAIN parts, parts[a] = parts[b], a # b
               PROVE  FALSE
    BY DEF IsInjective
  <2>1. \A i \in 1 .. Len(list) : list[i] # p
    BY DEF Contains
  <2>2. a \in 1 .. Len(parts) /\ b \in 1 .. Len(parts)
    BY <1>1
  <2>3. CASE a = 1
    <3>1. b \in 2 .. Len(parts)
      BY <1>1, <2>2, <2>3
    <3> QED
      BY <1>1, <1>3, <2>1, <2>3, <3>1
  <2>4. CASE b = 1
    <3>1. a \in 2 .. Len(parts)
      BY <1>1, <2>2, <2>4
    <3> QED
      BY <1>1, <1>3, <2>1, <2>4, <3>1
  <2>5. CASE a # 1 /\ b # 1
    <3>1. a \in 2 .. Len(parts) /\ b \in 2 .. Len(parts)
      BY <1>1, <2>2, <2>5
    <3>2. list[a - 1] = list[b - 1] /\ a - 1 # b - 1
      BY <1>1, <1>3, <3>1
    <3> QED
      BY <1>3, <3>1, <3>2 DEF IsInjective
  <2> QED
    BY <2>3, <2>4, <2>5
<1> QED
  BY <1>1, <1>4, <1>5 DEF parts

-----------------------------------------------------------------------------
(* The inductive invariant *)

\* A room as it should be.
RoomOK(r) == r \in Room /\ IsInjective(r.parts) /\ r.num = Len(r.parts)

\* Types of the registry, and what an id says about a socket.
RegistryOK ==
  /\ connID \in [Sockets -> 0 .. MaxConns]
  /\ connPID \in [Sockets -> Players \cup {NoPID}]
  /\ live \subseteq Sockets /\ socketOpen \subseteq Sockets
  /\ connCounter \in 0 .. MaxConns
  /\ leaving \in [Sockets -> SUBSET Closers]
  /\ \A s \in Sockets : connID[s] = 0 <=> connPID[s] = NoPID
  /\ \A s \in live : connID[s] # 0
  /\ \A s \in Sockets : leaving[s] # {} => connID[s] # 0

\* Identifiers not handed out yet have no room.
Unborn == \A g \in Gids : nextGID <= g => gatherings[g] = NoRoom

Inv == TypeOK /\ RegistryOK /\ RoomsConsistent /\ Unborn

(* The empty store satisfies the invariant. *)
LEMMA InitInv == Init => Inv
  BY RegistryAssumption, MatchmakingAssumption
  DEF Init, RegistryInit, Inv, TypeOK, RegistryOK, RoomsConsistent, Unborn, Rooms, Gids

(* Steps of the registry, alone or with a callback, keep its part. *)
LEMMA RegistryStepOK ==
  ASSUME RegistryOK, NEW s \in Sockets,
         RegistryStep(s) \/ \E k \in Closers : Disconnected(s, k)
  PROVE  RegistryOK'
<1> USE RegistryAssumption
<1>1. ASSUME NEW p \in Players, Connect(s, p)
      PROVE  RegistryOK'
  BY <1>1 DEF Connect, RegistryOK
<1>2. ASSUME NEW k \in Closers, Leave(s, k)
      PROVE  RegistryOK'
  BY <1>2 DEF Leave, RegistryOK
<1>3. ASSUME NEW k \in Closers, LeaveAgain(s, k)
      PROVE  RegistryOK'
  BY <1>3 DEF LeaveAgain, RegistryOK
<1>4. CASE HangUp(s)
  BY <1>4 DEF HangUp, RegistryOK
<1>5. ASSUME NEW k \in Closers, Disconnected(s, k)
      PROVE  RegistryOK'
  BY <1>5 DEF Disconnected, RegistryOK
<1> QED
  BY <1>1, <1>2, <1>3, <1>4, <1>5 DEF RegistryStep

(* FindConnectionByPID finds a connection of a player who is online. *)
LEMMA NewestFound ==
  ASSUME RegistryOK, NEW p \in Players, Online(p)
  PROVE  NewestOf(p) \in Of(p) /\ connID[NewestOf(p)] \in 1 .. MaxConns
<1> USE RegistryAssumption
<1> DEFINE D == {MaxConns - connID[s] : s \in Of(p)}
<1>1. D \subseteq Nat /\ D # {}
  BY DEF Of, Online, RegistryOK
<1>2. PICK d \in D : \A e \in D : <<e, d>> \notin OpToRel(<, Nat)
  BY <1>1, WFMin, NatLessThanWellFounded
<1>3. \A e \in D : ~(e < d)
  BY <1>1, <1>2 DEF OpToRel
<1>4. PICK s \in Of(p) : d = MaxConns - connID[s]
  BY <1>2
<1>5. \A t \in Of(p) : connID[t] <= connID[s]
  <2> SUFFICES ASSUME NEW t \in Of(p)
               PROVE  connID[t] <= connID[s]
    OBVIOUS
  <2>1. MaxConns - connID[t] \in D
    OBVIOUS
  <2>2. ~(MaxConns - connID[t] < MaxConns - connID[s])
    BY <1>3, <1>4, <2>1
  <2> QED
    BY <2>2 DEF Of, RegistryOK
<1>6. NewestOf(p) \in Of(p)
  BY <1>5 DEF NewestOf, Online
<1> QED
  BY <1>6 DEF Of, RegistryOK

-----------------------------------------------------------------------------
(* What each operation makes of a room *)

(* A session just created is a room its creator is alone in. *)
LEMMA CreatedOK ==
  ASSUME RegistryOK, NEW s \in Sockets, connPID[s] # NoPID, NEW src \in Sessions
  PROVE  RoomOK(finalizeCreatedSession(s, src))
<1> DEFINE r == finalizeCreatedSession(s, src)
<1>1. connPID[s] \in Players /\ connID[s] \in 1 .. MaxConns
  BY RegistryAssumption DEF RegistryOK
<1>2. r \in Room
  BY <1>1, MatchmakingAssumption DEF finalizeCreatedSession, Room
<1>3. IsInjective(r.parts) /\ r.num = Len(r.parts)
  BY <1>1 DEF finalizeCreatedSession, IsInjective
<1> QED
  BY <1>2, <1>3 DEF RoomOK

\* A room whose list and count are replaced together.
LEMMA WithPartsOK ==
  ASSUME NEW r, r \in Room, NEW parts \in Seq(Players), IsInjective(parts)
  PROVE  /\ RoomOK(WithParts(r, parts))
         /\ WithParts(r, parts).parts = parts
         /\ WithParts(r, parts).max = r.max
<1> DEFINE w == WithParts(r, parts)
<1>1. w \in Room
  <2>1. \A n \in Nat : [r EXCEPT !.parts = parts, !.num = n] \in Room
    BY DEF Room
  <2>2. Len(parts) \in Nat
    OBVIOUS
  <2> QED
    BY <2>1, <2>2 DEF WithParts
<1>2. w.parts = parts /\ w.num = Len(parts) /\ w.max = r.max
  BY DEF WithParts, Room
<1> HIDE DEF w
<1>3. RoomOK(w)
  BY <1>1, <1>2 DEF RoomOK
<1> QED
  BY <1>2, <1>3 DEF w

(* A room somebody leaves is gone or still a proper room, without that player. *)
LEMMA WithoutOK ==
  ASSUME NEW r, RoomOK(r), NEW p \in Players
  PROVE  \/ Without(r, p) = NoRoom
         \/ /\ RoomOK(Without(r, p))
            /\ ~Contains(Without(r, p).parts, p)
            /\ \A x : Contains(Without(r, p).parts, x) => Contains(r.parts, x)
            /\ Len(Without(r, p).parts) <= Len(r.parts)
            /\ r.parts # <<>> => Without(r, p).parts # <<>>
<1> DEFINE rest == removePID(r.parts, p)
<1>1. r \in Room /\ r.parts \in Seq(Players) /\ IsInjective(r.parts)
  BY DEF RoomOK, Room
<1>2. /\ rest \in Seq(Players) /\ Len(rest) <= Len(r.parts) /\ IsInjective(rest)
      /\ \A x : Contains(rest, x) <=> Contains(r.parts, x) /\ x # p
  BY <1>1, RemovePIDProperties
<1> HIDE DEF rest
<1>3. CASE ~containsPID(r.parts, p)
  BY <1>3 DEF Without, containsPID
<1>4. CASE containsPID(r.parts, p) /\ rest = <<>>
  BY <1>4 DEF Without, rest
<1>5. CASE containsPID(r.parts, p) /\ rest # <<>> /\ r.owner # p
  <2>1. Without(r, p) = WithParts(r, rest)
    BY <1>5 DEF Without, rest
  <2> QED
    BY <1>1, <1>2, <1>5, <2>1, WithPartsOK
<1>6. CASE containsPID(r.parts, p) /\ rest # <<>> /\ r.owner = p
  <2> DEFINE w == [WithParts(r, rest) EXCEPT !.owner = rest[1], !.host = rest[1]]
  <2>1. Without(r, p) \in {w, NoRoom}
    BY <1>6 DEF Without, rest
  <2>2. rest[1] \in Players
    BY <1>2, <1>6
  <2>3. RoomOK(WithParts(r, rest)) /\ WithParts(r, rest).parts = rest
    BY <1>1, <1>2, WithPartsOK
  <2>4. RoomOK(w) /\ w.parts = rest
    BY <2>2, <2>3 DEF RoomOK, Room
  <2> QED
    BY <1>2, <1>6, <2>1, <2>4
<1> QED
  BY <1>3, <1>4, <1>5, <1>6

(* Handing the host over keeps the room proper and its players the same. *)
LEMMA RehostedOK ==
  ASSUME RegistryOK, NEW r, RoomOK(r), NEW p \in Players
  PROVE  /\ RoomOK(Rehosted(r, p))
         /\ \A x : Contains(Rehosted(r, p).parts, x) <=> Contains(r.parts, x)
         /\ Len(Rehosted(r, p).parts) = Len(r.parts)
<1> DEFINE reachable == {i \in DOMAIN r.parts : r.parts[i] # p /\ Online(r.parts[i])}
           first == CHOOSE i \in reachable : \A j \in reachable : i <= j
           heir == r.parts[first]
           rest == removePID(r.parts, heir)
           w == [r EXCEPT !.host = heir, !.owner = heir, !.hostConn = connID[NewestOf(heir)],
                          !.parts = <<heir>> \o rest]
<1>1. r \in Room /\ r.parts \in Seq(Players) /\ IsInjective(r.parts)
  BY DEF RoomOK, Room
<1>2. CASE reachable = {} \/ p \notin {r.host, r.owner}
  BY <1>2 DEF Rehosted
<1>3. CASE reachable # {} /\ p \in {r.host, r.owner}
  <2>1. Rehosted(r, p) = w
    BY <1>3 DEF Rehosted
  <2>2. first \in reachable
    <3>1. reachable \subseteq Nat
      BY <1>1
    <3>2. PICK i \in reachable : \A j \in reachable : <<j, i>> \notin OpToRel(<, Nat)
      BY <1>3, <3>1, WFMin, NatLessThanWellFounded
    <3> HIDE DEF reachable
    <3>3. ASSUME NEW j \in reachable
          PROVE  i <= j
      <4>1. j \in Nat /\ i \in Nat /\ <<j, i>> \notin OpToRel(<, Nat)
        BY <3>1, <3>2
      <4> QED
        BY <4>1 DEF OpToRel
    <3> QED
      BY <3>3
  <2> HIDE DEF first
  <2>3. heir \in Players /\ Online(heir) /\ Contains(r.parts, heir)
    BY <1>1, <2>2 DEF Contains
  <2>4. connID[NewestOf(heir)] \in 1 .. MaxConns
    BY <2>3, NewestFound
  <2> HIDE DEF heir
  <2>5. /\ rest \in Seq(Players) /\ IsInjective(rest) /\ Len(rest) = Len(r.parts) - 1
        /\ \A x : Contains(rest, x) <=> Contains(r.parts, x) /\ x # heir
    BY <1>1, <2>3, RemovePIDProperties
  <2> HIDE DEF rest
  <2> DEFINE parts == <<heir>> \o rest
  <2>6. /\ parts \in Seq(Players) /\ IsInjective(parts) /\ Len(parts) = Len(rest) + 1
        /\ \A x : Contains(parts, x) <=> Contains(rest, x) \/ x = heir
    BY <2>3, <2>5, PrependProperties
  <2> HIDE DEF parts
  <2>7. \A x : Contains(parts, x) <=> Contains(r.parts, x)
    BY <2>3, <2>5, <2>6
  <2>8. Len(parts) = Len(r.parts)
    BY <1>1, <2>5, <2>6
  <2>9. w \in Room /\ w.parts = parts /\ w.num = r.num
    BY <1>1, <2>3, <2>4, <2>6 DEF Room, parts
  <2> HIDE DEF w
  <2>10. RoomOK(w)
    BY <2>6, <2>8, <2>9 DEF RoomOK
  <2> QED
    BY <2>1, <2>7, <2>8, <2>9, <2>10
<1> QED
  BY <1>2, <1>3

\* migrateGatheringOwnership exchanges two participants.
Swapped(r, i) == [r EXCEPT !.parts = [r.parts EXCEPT ![1] = r.parts[i], ![i] = r.parts[1]]]

(* The exchange keeps the room well formed, with the same participants. *)
LEMMA SwapOK ==
  ASSUME NEW r, RoomOK(r), NEW i \in DOMAIN r.parts
  PROVE  /\ RoomOK(Swapped(r, i)) /\ Len(Swapped(r, i).parts) = Len(r.parts)
         /\ \A x : Contains(Swapped(r, i).parts, x) <=> Contains(r.parts, x)
<1> DEFINE w == Swapped(r, i)
           parts == [r.parts EXCEPT ![1] = r.parts[i], ![i] = r.parts[1]]
<1>1. r \in Room /\ r.parts \in Seq(Players) /\ IsInjective(r.parts)
  BY DEF RoomOK, Room
<1>2. 1 \in 1 .. Len(r.parts) /\ i \in 1 .. Len(r.parts)
  BY <1>1
<1>3. /\ parts \in Seq(Players) /\ Len(parts) = Len(r.parts)
      /\ parts[i] = r.parts[1] /\ parts[1] = r.parts[i]
      /\ \A j \in 1 .. Len(r.parts) : j # 1 /\ j # i => parts[j] = r.parts[j]
  BY <1>1, <1>2
<1> HIDE DEF parts
<1>4. IsInjective(parts)
  BY <1>1, <1>2, <1>3 DEF IsInjective
<1>5. \A x : Contains(parts, x) <=> Contains(r.parts, x)
  BY <1>1, <1>2, <1>3 DEF Contains
<1>6. w.parts = parts /\ w.num = r.num /\ w \in Room
  BY <1>1, <1>3 DEF Room, parts, Swapped
<1> HIDE DEF w
<1> QED
  BY <1>3, <1>4, <1>5, <1>6 DEF RoomOK, w

(* applySessionPart keeps the room well formed, and its participants. *)
LEMMA PatchedOK ==
  ASSUME NEW room \in Room, NEW u \in Patches
  PROVE  /\ applySessionPart(room, u) \in Room
         /\ applySessionPart(room, u).parts = room.parts
         /\ applySessionPart(room, u).num = room.num
<1> DEFINE c == IF u.code = "keep" THEN room.code ELSE u.code
           m == IF u.mode = 0 THEN room.mode ELSE u.mode
           x == IF u.max = 0 THEN room.max ELSE u.max
           o == IF u.open = "keep" THEN room.open ELSE u.open = "open"
           w == [room EXCEPT !.code = c, !.mode = m, !.max = x, !.open = o]
<1>1. applySessionPart(room, u) = w
  BY DEF applySessionPart
<1>2. c \in Codes \cup {NoCode} /\ m \in Nat /\ x \in Nat \ {0} /\ o \in BOOLEAN
  BY MatchmakingAssumption DEF Room
<1> HIDE DEF c, m, x, o
<1>3. w \in Room /\ w.parts = room.parts /\ w.num = room.num
  BY <1>2 DEF Room
<1> HIDE DEF w
<1> QED
  BY <1>1, <1>3

-----------------------------------------------------------------------------
(* What a step makes of the store *)

\* What may become of gathering g: nothing, a room that was there and has not
\* grown beyond its maximum, or a new one under the next identifier.
Follows(g, r) ==
  \/ r = NoRoom
  \/ /\ RoomOK(r)
     /\ gatherings[g] = NoRoom => g = nextGID /\ nextGID' = nextGID + 1
     /\ gatherings[g] # NoRoom /\ Len(r.parts) > Len(gatherings[g].parts)
          => Len(r.parts) <= r.max

StoreStep ==
  /\ gatherings' = [g \in Gids |-> gatherings'[g]]
  /\ \A g \in Gids : Follows(g, gatherings'[g])
  /\ byCode' \in [Codes -> 0 .. MaxGid]
  /\ nextGID' \in {nextGID, nextGID + 1} /\ nextGID' <= MaxGid + 1

(* What the invariant says of one room. *)
LEMMA RoomFacts ==
  ASSUME Inv, NEW g \in Rooms
  PROVE  /\ g \in Gids /\ RoomOK(gatherings[g])
         /\ gatherings[g].parts \in Seq(Players) /\ gatherings[g].max \in Nat
  BY DEF Inv, TypeOK, RoomsConsistent, RoomOK, Rooms, Room

(* A caller is a player. *)
LEMMA CallerFacts ==
  ASSUME Inv, NEW s \in Sockets, Calls(s)
  PROVE  connPID[s] \in Players
  BY DEF Inv, RegistryOK, Calls

(* A step that leaves a room as it is. *)
LEMMA FollowsSame ==
  ASSUME Inv, NEW g \in Gids
  PROVE  Follows(g, gatherings[g])
<1>1. CASE gatherings[g] = NoRoom
  BY <1>1 DEF Follows
<1>2. CASE gatherings[g] # NoRoom
  <2>1. g \in Rooms
    BY <1>2 DEF Rooms
  <2> QED
    BY <1>2, <2>1, RoomFacts DEF Follows
<1> QED
  BY <1>1, <1>2

(* A step that puts a room in the place of another, and changes no other. *)
LEMMA OneRoomStep ==
  ASSUME Inv, NEW g \in Rooms, NEW r, Follows(g, r),
         gatherings' = [gatherings EXCEPT ![g] = r],
         byCode' \in [Codes -> 0 .. MaxGid], UNCHANGED nextGID
  PROVE  StoreStep
<1>1. g \in Gids
  BY RoomFacts
<1>2. DOMAIN gatherings = Gids
  BY DEF Inv, TypeOK
<1>3. \A h \in Gids : gatherings'[h] = IF h = g THEN r ELSE gatherings[h]
  BY <1>1, <1>2
<1>4. gatherings' = [h \in Gids |-> gatherings'[h]]
  BY <1>2
<1>5. \A h \in Gids : Follows(h, gatherings'[h])
  BY <1>3, FollowsSame
<1>6. nextGID' \in {nextGID, nextGID + 1} /\ nextGID' <= MaxGid + 1
  BY MatchmakingAssumption DEF Inv, TypeOK
<1> QED
  BY <1>4, <1>5, <1>6 DEF StoreStep

(* Codes of removed rooms are taken out. *)
LEMMA DropCodesType ==
  ASSUME Inv, NEW gone
  PROVE  DropCodes(gone) \in [Codes -> 0 .. MaxGid]
  BY MatchmakingAssumption DEF Inv, TypeOK, DropCodes

(* Creating a room removes the abandoned ones of its creator and changes no other. *)
LEMMA CreateStep ==
  ASSUME Inv, NEW s \in Sockets, Calls(s), NEW src \in Sessions, createGathering(s, src)
  PROVE  StoreStep
<1> DEFINE gone == AbandonedSolo(connPID[s])
<1>1. RoomOK(finalizeCreatedSession(s, src))
  BY CreatedOK DEF Inv, Calls
<1>2. /\ nextGID' = nextGID + 1 /\ nextGID <= MaxGid /\ byCode' = DropCodes(gone)
      /\ gatherings' = [g \in Gids |-> IF g = nextGID THEN finalizeCreatedSession(s, src)
                                       ELSE IF g \in gone THEN NoRoom ELSE gatherings[g]]
  BY DEF createGathering
<1>3. nextGID \in 1 .. MaxGid + 1
  BY DEF Inv, TypeOK
<1> HIDE DEF gone
<1>4. ASSUME NEW g \in Gids
      PROVE  Follows(g, gatherings'[g])
  <2>1. CASE g = nextGID
    <3>1. gatherings[g] = NoRoom
      BY <1>3, <2>1 DEF Inv, Unborn
    <3> QED
      BY <1>1, <1>2, <2>1, <3>1 DEF Follows
  <2>2. CASE g # nextGID /\ g \in gone
    BY <1>2, <2>2 DEF Follows
  <2>3. CASE g # nextGID /\ g \notin gone
    BY <1>2, <2>3, FollowsSame
  <2> QED
    BY <2>1, <2>2, <2>3
<1>5. gatherings' = [g \in Gids |-> gatherings'[g]]
  BY <1>2
<1>6. byCode' \in [Codes -> 0 .. MaxGid]
  BY <1>2, DropCodesType
<1> QED
  BY <1>2, <1>3, <1>4, <1>5, <1>6, MatchmakingAssumption DEF StoreStep

(* Entering a room there is a place in changes that room only. *)
LEMMA EnterStep ==
  ASSUME Inv, NEW s \in Sockets, Calls(s), NEW g \in Rooms, Enter(s, g),
         \/ containsPID(gatherings[g].parts, connPID[s])
         \/ Len(gatherings[g].parts) < gatherings[g].max
  PROVE  StoreStep
<1> DEFINE parts == gatherings[g].parts
           after == IF containsPID(parts, connPID[s]) THEN parts ELSE Append(parts, connPID[s])
           r == WithParts(gatherings[g], after)
<1>1. /\ RoomOK(gatherings[g]) /\ parts \in Seq(Players) /\ gatherings[g].max \in Nat
      /\ IsInjective(parts) /\ gatherings[g] \in Room
  BY RoomFacts DEF RoomOK
<1>2. connPID[s] \in Players
  BY CallerFacts
<1>3. /\ after \in Seq(Players) /\ IsInjective(after)
      /\ Len(after) > Len(parts) => Len(after) = Len(parts) + 1 /\ ~containsPID(parts, connPID[s])
  BY <1>1, <1>2, AppendProperties1 DEF containsPID
<1> HIDE DEF after
<1>4. RoomOK(r) /\ r.parts = after /\ r.max = gatherings[g].max
  BY <1>1, <1>3, WithPartsOK
<1>5. gatherings' = [gatherings EXCEPT ![g] = r] /\ UNCHANGED <<byCode, nextGID>>
  BY DEF Enter, r, after
<1> HIDE DEF r
<1>6. Len(r.parts) > Len(parts) => Len(r.parts) <= r.max
  BY <1>1, <1>3, <1>4
<1>7. Follows(g, r)
  BY <1>4, <1>6 DEF Follows, Rooms
<1> QED
  BY <1>5, <1>7, OneRoomStep DEF Inv, TypeOK

(* Every request keeps to StoreStep. *)
LEMMA RequestStep ==
  ASSUME Inv, NEW s \in Sockets, Request(s)
  PROVE  StoreStep /\ UNCHANGED registryVars
<1> USE MatchmakingAssumption
<1>t. /\ byCode \in [Codes -> 0 .. MaxGid] /\ DOMAIN gatherings = Gids
      /\ gatherings = [g \in Gids |-> gatherings[g]] /\ nextGID \in 1 .. MaxGid + 1
  BY DEF Inv, TypeOK
<1>1. ASSUME NEW src \in Sessions, createSession(s, src)
      PROVE  StoreStep /\ UNCHANGED registryVars
  BY <1>1, CreateStep DEF createSession
<1>2. ASSUME NEW src \in Sessions, NEW refused, autoMatchmake(s, src, refused)
      PROVE  StoreStep /\ UNCHANGED registryVars
  <2>1. Calls(s) /\ UNCHANGED registryVars
    BY <1>2 DEF autoMatchmake
  <2>2. CASE createGathering(s, src)
    BY <2>1, <2>2, CreateStep
  <2>3. ASSUME NEW g \in Eligible(s, src, refused), Enter(s, g)
        PROVE  StoreStep
    <3>1. g \in Rooms /\ Len(gatherings[g].parts) < gatherings[g].max
      BY <2>3 DEF Eligible, Candidates
    <3> QED
      BY <2>1, <2>3, <3>1, EnterStep
  <2> QED
    BY <1>2, <2>1, <2>2, <2>3 DEF autoMatchmake
<1>3. ASSUME NEW g \in Gids, joinSession(s, g)
      PROVE  StoreStep /\ UNCHANGED registryVars
  BY <1>3, EnterStep DEF joinSession
<1>4. ASSUME NEW g \in Gids, unregister(s, g)
      PROVE  StoreStep /\ UNCHANGED registryVars
  BY <1>4, <1>t, OneRoomStep DEF unregister, Follows
<1>5. ASSUME NEW g \in Gids, endParticipation(s, g)
      PROVE  StoreStep /\ UNCHANGED registryVars
  <2> DEFINE rest == removePID(gatherings[g].parts, connPID[s])
             r == IF rest = <<>> THEN NoRoom ELSE WithParts(gatherings[g], rest)
  <2>1. /\ g \in Rooms /\ gatherings' = [gatherings EXCEPT ![g] = r]
        /\ UNCHANGED <<byCode, nextGID, registryVars>>
    BY <1>5 DEF endParticipation
  <2>2. connPID[s] \in Players
    BY <1>5, CallerFacts DEF endParticipation
  <2>3. /\ gatherings[g] \in Room /\ gatherings[g].parts \in Seq(Players)
        /\ IsInjective(gatherings[g].parts)
    BY <2>1, RoomFacts DEF RoomOK
  <2>4. rest \in Seq(Players) /\ IsInjective(rest) /\ Len(rest) <= Len(gatherings[g].parts)
    BY <2>2, <2>3, RemovePIDProperties
  <2> HIDE DEF rest
  <2>5. RoomOK(WithParts(gatherings[g], rest)) /\ WithParts(gatherings[g], rest).parts = rest
    BY <2>3, <2>4, WithPartsOK
  <2>6. Follows(g, r)
    BY <2>1, <2>3, <2>4, <2>5 DEF Follows, Rooms
  <2> HIDE DEF r
  <2> QED
    BY <1>t, <2>1, <2>6, OneRoomStep
<1>6. ASSUME NEW g \in Gids, NEW c \in Codes, privateRoomCreate(s, g, c)
      PROVE  StoreStep /\ UNCHANGED registryVars
  <2>1. /\ byCode' \in [Codes -> 0 .. MaxGid] /\ UNCHANGED <<nextGID, registryVars>>
        /\ gatherings' = IF g \in Rooms THEN [gatherings EXCEPT ![g].code = c] ELSE gatherings
    BY <1>6, <1>t DEF privateRoomCreate, Gids
  <2>2. CASE g \in Rooms
    <3> DEFINE r == [gatherings[g] EXCEPT !.code = c]
    <3>1. gatherings' = [gatherings EXCEPT ![g] = r]
      BY <2>1, <2>2
    <3>2. RoomOK(gatherings[g])
      BY <2>2, RoomFacts
    <3>3. r \in Room /\ r.parts = gatherings[g].parts /\ r.num = gatherings[g].num
      BY <3>2 DEF RoomOK, Room
    <3> HIDE DEF r
    <3>4. RoomOK(r)
      BY <3>2, <3>3 DEF RoomOK
    <3>5. Follows(g, r)
      BY <2>2, <3>3, <3>4, RoomFacts DEF Follows, Rooms
    <3> QED
      BY <2>1, <2>2, <3>1, <3>5, OneRoomStep
  <2>3. CASE g \notin Rooms
    BY <1>t, <2>1, <2>3, FollowsSame DEF StoreStep
  <2> QED
    BY <2>2, <2>3
<1>7. ASSUME NEW g \in Gids, NEW open \in BOOLEAN, setParticipation(s, g, open)
      PROVE  StoreStep /\ UNCHANGED registryVars
  <2> DEFINE room == [gatherings[g] EXCEPT !.open = open]
             wanted == {p \in Players : p = connPID[s] \/ Online(p)}
             vivants == Kept(room.parts, wanted)
             r == IF open THEN room ELSE WithParts(room, vivants)
  <2>1. /\ g \in Rooms /\ gatherings' = [gatherings EXCEPT ![g] = r]
        /\ UNCHANGED <<byCode, nextGID, registryVars>>
    BY <1>7 DEF setParticipation
  <2>2. RoomOK(gatherings[g])
    BY <2>1, RoomFacts
  <2>3. room \in Room /\ room.parts = gatherings[g].parts /\ room.num = gatherings[g].num
    BY <2>2 DEF RoomOK, Room
  <2> HIDE DEF room, wanted
  <2>4. RoomOK(room) /\ room.parts \in Seq(Players) /\ IsInjective(room.parts)
    BY <2>2, <2>3 DEF RoomOK, Room
  <2>5. vivants \in Seq(Players) /\ IsInjective(vivants) /\ Len(vivants) <= Len(room.parts)
    BY <2>4, KeptProperties
  <2> HIDE DEF vivants
  <2>6. RoomOK(WithParts(room, vivants)) /\ WithParts(room, vivants).parts = vivants
    BY <2>3, <2>5, WithPartsOK
  <2>7. Follows(g, r)
    BY <2>1, <2>3, <2>4, <2>5, <2>6 DEF Follows, Rooms
  <2> HIDE DEF r
  <2> QED
    BY <1>t, <2>1, <2>7, OneRoomStep
<1>8. ASSUME NEW g \in Gids, NEW u \in Patches, updateSessionPart(s, g, u)
      PROVE  StoreStep /\ UNCHANGED registryVars
  <2> DEFINE room == gatherings[g]
             r == applySessionPart(room, u)
  <2>1. /\ g \in Rooms /\ gatherings' = [gatherings EXCEPT ![g] = r]
        /\ byCode' = [c \in Codes |-> IF u.code = c THEN g ELSE byCode[c]]
        /\ UNCHANGED <<nextGID, registryVars>>
    BY <1>8 DEF updateSessionPart
  <2>2. RoomOK(room)
    BY <2>1, RoomFacts
  <2>3. r \in Room /\ r.parts = room.parts /\ r.num = room.num
    BY <2>2, PatchedOK DEF RoomOK
  <2> HIDE DEF r
  <2>4. RoomOK(r)
    BY <2>2, <2>3 DEF RoomOK
  <2>5. Follows(g, r)
    BY <2>1, <2>3, <2>4, RoomFacts DEF Follows, Rooms
  <2>6. byCode' \in [Codes -> 0 .. MaxGid]
    BY <1>t, <2>1 DEF Gids
  <2> QED
    BY <2>1, <2>5, <2>6, OneRoomStep
<1>9. ASSUME NEW g \in Gids, NEW p \in Players, migrateGatheringOwnership(s, g, p)
      PROVE  StoreStep /\ UNCHANGED registryVars
  <2>1. g \in Rooms /\ UNCHANGED <<byCode, nextGID, registryVars>>
    BY <1>9 DEF migrateGatheringOwnership
  <2> DEFINE room == gatherings[g]
  <2>2. PICK i \in DOMAIN room.parts :
          /\ room.parts[i] = p
          /\ gatherings' = [gatherings EXCEPT ![g] = [room EXCEPT !.parts =
               [room.parts EXCEPT ![1] = room.parts[i], ![i] = room.parts[1]]]]
    BY <1>9 DEF migrateGatheringOwnership
  <2> DEFINE r == Swapped(room, i)
  <2>3. RoomOK(room)
    BY <2>1, RoomFacts
  <2>4. gatherings' = [gatherings EXCEPT ![g] = r]
    BY <2>2 DEF Swapped
  <2>5. RoomOK(r) /\ Len(r.parts) = Len(room.parts)
    BY <2>3, SwapOK
  <2> HIDE DEF r
  <2>6. Follows(g, r)
    BY <2>1, <2>5, RoomFacts DEF Follows, Rooms
  <2> QED
    BY <1>t, <2>1, <2>4, <2>6, OneRoomStep
<1> QED
  BY <1>1, <1>2, <1>3, <1>4, <1>5, <1>6, <1>7, <1>8, <1>9 DEF Request

(* So does the callback of a departure: RemovePlayer in every room. *)
LEMMA DepartureStep ==
  ASSUME Inv, NEW s \in Sockets, Departure(s)
  PROVE  StoreStep
<1> USE MatchmakingAssumption
<1> DEFINE p == connPID[s]
           after == [g \in Gids |-> IF g \in Rooms THEN Without(gatherings[g], p) ELSE NoRoom]
           gone == {g \in Rooms : after[g] = NoRoom}
<1>1. p \in Players
  BY DEF Departure, Disconnected, Inv, RegistryOK
<1>2. gatherings' = after /\ byCode' = DropCodes(gone) /\ nextGID' = nextGID
  BY DEF Departure, RemovePlayer
<1>3. ASSUME NEW g \in Gids
      PROVE  Follows(g, after[g])
  <2>1. CASE g \in Rooms
    <3>1. RoomOK(gatherings[g]) /\ after[g] = Without(gatherings[g], p)
      BY <2>1, RoomFacts
    <3>2. \/ after[g] = NoRoom
          \/ RoomOK(after[g]) /\ Len(after[g].parts) <= Len(gatherings[g].parts)
      BY <1>1, <3>1, WithoutOK
    <3> HIDE DEF after
    <3>3. after[g] # NoRoom => Len(after[g].parts) \in Nat /\ Len(gatherings[g].parts) \in Nat
      BY <3>1, <3>2 DEF RoomOK, Room
    <3> QED
      BY <2>1, <3>2, <3>3 DEF Follows, Rooms
  <2>2. CASE g \notin Rooms
    BY <2>2 DEF Follows
  <2> QED
    BY <2>1, <2>2
<1>4. after = [g \in Gids |-> after[g]]
  OBVIOUS
<1> HIDE DEF after, gone
<1>5. byCode' \in [Codes -> 0 .. MaxGid]
  BY <1>2, DropCodesType
<1>6. nextGID' \in {nextGID, nextGID + 1} /\ nextGID' <= MaxGid + 1
  BY <1>2 DEF Inv, TypeOK
<1> QED
  BY <1>2, <1>3, <1>4, <1>5, <1>6 DEF StoreStep

(* And the handing over of rooms whose host is gone. *)
LEMMA RehostStep ==
  ASSUME Inv, NEW s \in Sockets, MigrerHebergementDepuis(s)
  PROVE  StoreStep
<1> USE MatchmakingAssumption
<1> DEFINE p == connPID[s]
           after == [g \in Gids |-> IF g \in Rooms THEN Rehosted(gatherings[g], p) ELSE NoRoom]
<1>1. p \in Players /\ RegistryOK
  BY DEF MigrerHebergementDepuis, Inv, RegistryOK
<1>2. gatherings' = after /\ byCode' = byCode /\ nextGID' = nextGID
  BY DEF MigrerHebergementDepuis
<1>3. ASSUME NEW g \in Gids
      PROVE  Follows(g, after[g])
  <2>1. CASE g \in Rooms
    <3>1. RoomOK(gatherings[g]) /\ after[g] = Rehosted(gatherings[g], p)
      BY <2>1, RoomFacts
    <3>2. RoomOK(after[g]) /\ Len(after[g].parts) = Len(gatherings[g].parts)
      BY <1>1, <3>1, RehostedOK
    <3> HIDE DEF after
    <3>3. Len(after[g].parts) \in Nat /\ Len(gatherings[g].parts) \in Nat
      BY <3>1, <3>2 DEF RoomOK, Room
    <3> QED
      BY <2>1, <3>2, <3>3 DEF Follows, Rooms
  <2>2. CASE g \notin Rooms
    BY <2>2 DEF Follows
  <2> QED
    BY <2>1, <2>2
<1>4. after = [g \in Gids |-> after[g]]
  OBVIOUS
<1> HIDE DEF after
<1>5. /\ byCode' \in [Codes -> 0 .. MaxGid]
      /\ nextGID' \in {nextGID, nextGID + 1} /\ nextGID' <= MaxGid + 1
  BY <1>2 DEF Inv, TypeOK
<1> QED
  BY <1>2, <1>3, <1>4, <1>5 DEF StoreStep

(* A step that leaves the store alone. *)
LEMMA StoreUnchanged ==
  ASSUME Inv, UNCHANGED storeVars
  PROVE  StoreStep
<1> USE MatchmakingAssumption
<1>1. gatherings' = gatherings /\ byCode' = byCode /\ nextGID' = nextGID
  BY DEF storeVars
<1>2. /\ gatherings = [g \in Gids |-> gatherings[g]] /\ byCode \in [Codes -> 0 .. MaxGid]
      /\ nextGID \in 1 .. MaxGid + 1
  BY DEF Inv, TypeOK
<1> QED
  BY <1>1, <1>2, FollowsSame DEF StoreStep

(* Every step keeps to StoreStep, and the registry to its part of the invariant. *)
LEMMA NextStep ==
  ASSUME Inv, [Next]_vars
  PROVE  StoreStep /\ RegistryOK'
<1>r. ASSUME UNCHANGED registryVars PROVE RegistryOK'
  BY <1>r DEF Inv, registryVars, RegistryOK
<1>1. ASSUME NEW s \in Sockets, Request(s)
      PROVE  StoreStep /\ RegistryOK'
  BY <1>1, <1>r, RequestStep
<1>2. ASSUME NEW s \in Sockets, Connection(s)
      PROVE  StoreStep /\ RegistryOK'
  BY <1>2, StoreUnchanged, RegistryStepOK DEF Connection, Inv
<1>3. ASSUME NEW s \in Sockets, Departure(s)
      PROVE  StoreStep /\ RegistryOK'
  BY <1>3, DepartureStep, RegistryStepOK DEF Departure, Inv
<1>4. ASSUME NEW s \in Sockets, MigrerHebergementDepuis(s)
      PROVE  StoreStep /\ RegistryOK'
  <2>1. UNCHANGED registryVars
    BY <1>4 DEF MigrerHebergementDepuis
  <2> QED
    BY <1>4, <2>1, <1>r, RehostStep
<1>5. CASE UNCHANGED vars
  BY <1>5, <1>r, StoreUnchanged DEF vars
<1> QED
  BY <1>1, <1>2, <1>3, <1>4, <1>5 DEF Next

(* Every step keeps the invariant. *)
LEMMA StepInv ==
  ASSUME Inv, [Next]_vars
  PROVE  Inv'
<1> USE MatchmakingAssumption
<1>1. StoreStep /\ RegistryOK'
  BY NextStep
<1>2. \A g \in Gids : gatherings'[g] = NoRoom \/ RoomOK(gatherings'[g])
  BY <1>1 DEF StoreStep, Follows
<1>3. TypeOK'
  <2>1. \A g \in Gids : gatherings'[g] \in Room \cup {NoRoom}
    BY <1>2 DEF RoomOK
  <2>2. gatherings' \in [Gids -> Room \cup {NoRoom}]
    BY <1>1, <2>1 DEF StoreStep
  <2>3. nextGID' \in 1 .. MaxGid + 1
    BY <1>1 DEF StoreStep, Inv, TypeOK
  <2> QED
    BY <1>1, <2>2, <2>3 DEF StoreStep, TypeOK, Gids, Room
<1>4. RoomsConsistent'
  BY <1>2 DEF RoomsConsistent, Rooms, RoomOK, Gids
<1>5. Unborn'
  <2> SUFFICES ASSUME NEW g \in Gids, nextGID' <= g
               PROVE  gatherings'[g] = NoRoom
    BY DEF Unborn, Gids
  <2>1. nextGID \in Nat /\ g \in Nat /\ nextGID' \in {nextGID, nextGID + 1}
    BY <1>1 DEF StoreStep, Inv, TypeOK, Gids
  <2>2. gatherings[g] = NoRoom
    BY <2>1 DEF Inv, Unborn
  <2>3. Follows(g, gatherings'[g])
    BY <1>1 DEF StoreStep
  <2> QED
    BY <2>1, <2>2, <2>3 DEF Follows
<1> QED
  BY <1>1, <1>3, <1>4, <1>5 DEF Inv

(* The store has its types: whatever the consoles ask for, a room carries a   *)
(* capacity of at least one, an owner and a host that are players, and the id *)
(* of a connection that logged in (finalizeCreatedSession, Rehosted).         *)
THEOREM TypesStand == Spec => []TypeOK
<1>1. Inv => TypeOK
  BY DEF Inv
<1> QED
  BY <1>1, InitInv, StepInv, PTL DEF Spec

(* Through joins, reconnections, migrations, departures and the pruning of    *)
(* CloseParticipation a player is listed once in a room and the count a       *)
(* session announces is the number of its participants.                       *)
THEOREM ConsistentAlways == Spec => []RoomsConsistent
<1>1. Inv => RoomsConsistent
  BY DEF Inv
<1> QED
  BY <1>1, InitInv, StepInv, PTL DEF Spec

(* No step of any handler brings a player into a room that is full. *)
THEOREM NoRoomOverfilled == Spec => NeverOverfilled
<1>1. Inv /\ [Next]_vars =>
        [\A g \in Rooms \cap {h \in Gids : gatherings'[h] # NoRoom} :
           Len(gatherings'[g].parts) > Len(gatherings[g].parts)
             => Len(gatherings'[g].parts) <= gatherings'[g].max]_vars
  <2> SUFFICES ASSUME Inv, [Next]_vars, NEW g \in Gids, gatherings[g] # NoRoom,
                      gatherings'[g] # NoRoom,
                      Len(gatherings'[g].parts) > Len(gatherings[g].parts)
               PROVE  Len(gatherings'[g].parts) <= gatherings'[g].max
    BY DEF Rooms
  <2> QED
    BY NextStep DEF StoreStep, Follows
<1> QED
  BY <1>1, InitInv, StepInv, PTL DEF Spec, NeverOverfilled

-----------------------------------------------------------------------------
(* Private-room codes *)

\* What becomes of gathering g has no code, or the one g had.
KeepsCode(g, r) ==
  r # NoRoom => r.code = NoCode \/ (g \in Rooms /\ r.code = gatherings[g].code)

(* The operations on the participants of a room leave its code alone. *)
LEMMA CodeKept ==
  ASSUME NEW r \in Room, NEW parts, NEW p
  PROVE  /\ WithParts(r, parts).code = r.code
         /\ Without(r, p) = NoRoom \/ Without(r, p).code = r.code
         /\ Rehosted(r, p).code = r.code
  BY DEF Room, WithParts, Without, Rehosted

(* A step that gives no code and drops none. *)
LEMMA CodesSame ==
  ASSUME Inv, CodesResolve, byCode' = byCode, \A g \in Gids : KeepsCode(g, gatherings'[g])
  PROVE  CodesResolve'
  BY DEF CodesResolve, KeepsCode, Rooms, Gids

(* A step that drops the codes of the rooms it ends: no other room had them. *)
LEMMA CodesDropped ==
  ASSUME Inv, CodesResolve, NEW gone \in SUBSET Rooms, byCode' = DropCodes(gone),
         \A g \in Gids : KeepsCode(g, gatherings'[g]),
         \A g \in gone : gatherings'[g] = NoRoom
  PROVE  CodesResolve'
<1> SUFFICES ASSUME NEW g \in Gids, gatherings'[g] # NoRoom, gatherings'[g].code # NoCode
             PROVE  byCode'[gatherings'[g].code] = g
  BY DEF CodesResolve, Rooms, Gids
<1> DEFINE c == gatherings[g].code
<1>1. g \in Rooms \ gone /\ gatherings'[g].code = c /\ c # NoCode
  BY DEF KeepsCode
<1>2. c \in Codes /\ byCode[c] = g
  BY <1>1 DEF CodesResolve, Inv, TypeOK, Rooms, Room
<1>3. \A h \in gone : gatherings[h].code # c
  BY <1>1, <1>2 DEF CodesResolve
<1> QED
  BY <1>1, <1>2, <1>3 DEF DropCodes

(* A step that gives room g the code c, which no other room has. *)
LEMMA CodeGiven ==
  ASSUME Inv, CodesResolve, ~CodesClash, NEW g \in Gids, NEW c \in Codes, Unshared(g, c),
         byCode' = [d \in Codes |-> IF d = c THEN g ELSE byCode[d]],
         \A h \in Gids : h # g => gatherings'[h] = gatherings[h],
         gatherings'[g] # NoRoom => gatherings'[g].code = c
  PROVE  CodesResolve'
<1> SUFFICES ASSUME NEW h \in Gids, gatherings'[h] # NoRoom, gatherings'[h].code # NoCode
             PROVE  byCode'[gatherings'[h].code] = h
  BY DEF CodesResolve, Rooms, Gids
<1>1. CASE h = g
  BY <1>1
<1>2. CASE h # g
  <2>1. h \in Rooms /\ gatherings'[h] = gatherings[h] /\ gatherings[h].code \in Codes
    BY <1>2, MatchmakingAssumption DEF Rooms, Inv, TypeOK, Room
  <2>2. gatherings[h].code # c
    BY <1>2, <2>1 DEF Unshared
  <2> QED
    BY <2>1, <2>2 DEF CodesResolve
<1> QED
  BY <1>1, <1>2

(* Requests keep the codes, when no two rooms are given the same. *)
LEMMA RequestCodes ==
  ASSUME Inv, CodesResolve, ~CodesClash, NEW s \in Sockets, Request(s)
  PROVE  CodesResolve'
<1> USE MatchmakingAssumption
<1>t. /\ DOMAIN gatherings = Gids /\ DOMAIN byCode = Codes
      /\ \A g \in Rooms : g \in Gids /\ gatherings[g] \in Room
  BY DEF Inv, TypeOK, Rooms
<1>u. \A g \in Gids : KeepsCode(g, gatherings[g])
  BY DEF KeepsCode, Rooms
<1>c. ASSUME NEW src \in Sessions, createGathering(s, src)
      PROVE  CodesResolve'
  <2> DEFINE gone == AbandonedSolo(connPID[s])
  <2>1. /\ byCode' = DropCodes(gone)
        /\ gatherings' = [g \in Gids |-> IF g = nextGID THEN finalizeCreatedSession(s, src)
                                         ELSE IF g \in gone THEN NoRoom ELSE gatherings[g]]
    BY <1>c DEF createGathering
  <2>2. gone \subseteq Rooms /\ \A g \in gone : g # nextGID
    BY DEF gone, AbandonedSolo, Rooms, Inv, Unborn, TypeOK, Gids
  <2>3. finalizeCreatedSession(s, src).code = NoCode
    BY DEF finalizeCreatedSession
  <2> HIDE DEF gone
  <2>4. \A g \in Gids : KeepsCode(g, gatherings'[g])
    BY <2>1, <2>3, <1>u DEF KeepsCode
  <2>5. \A g \in gone : gatherings'[g] = NoRoom
    BY <2>1, <2>2 DEF Rooms
  <2> QED
    BY <2>1, <2>2, <2>4, <2>5, CodesDropped
<1>o. ASSUME NEW g \in Rooms, NEW r, KeepsCode(g, r),
             gatherings' = [gatherings EXCEPT ![g] = r], byCode' = byCode
      PROVE  CodesResolve'
  <2>1. \A h \in Gids : KeepsCode(h, gatherings'[h])
    BY <1>o, <1>t, <1>u
  <2> QED
    BY <1>o, <2>1, CodesSame
<1>e. ASSUME NEW g \in Rooms, Enter(s, g)
      PROVE  CodesResolve'
  <2>1. \A parts : KeepsCode(g, WithParts(gatherings[g], parts))
    BY <1>t, CodeKept DEF KeepsCode
  <2> QED
    BY <1>e, <1>o, <2>1 DEF Enter
<1>1. ASSUME NEW src \in Sessions, createSession(s, src)
      PROVE  CodesResolve'
  BY <1>1, <1>c DEF createSession
<1>2. ASSUME NEW src \in Sessions, NEW refused, autoMatchmake(s, src, refused)
      PROVE  CodesResolve'
  <2>1. Eligible(s, src, refused) \subseteq Rooms
    BY DEF Eligible, Candidates
  <2> QED
    BY <1>2, <2>1, <1>c, <1>e DEF autoMatchmake
<1>3. ASSUME NEW g \in Gids, joinSession(s, g)
      PROVE  CodesResolve'
  BY <1>3, <1>e DEF joinSession
<1>4. ASSUME NEW g \in Gids, unregister(s, g)
      PROVE  CodesResolve'
  BY <1>4, <1>o DEF unregister, KeepsCode
<1>5. ASSUME NEW g \in Gids, endParticipation(s, g)
      PROVE  CodesResolve'
  <2> DEFINE rest == removePID(gatherings[g].parts, connPID[s])
             r == IF rest = <<>> THEN NoRoom ELSE WithParts(gatherings[g], rest)
  <2>1. g \in Rooms /\ gatherings' = [gatherings EXCEPT ![g] = r] /\ byCode' = byCode
    BY <1>5 DEF endParticipation
  <2>2. KeepsCode(g, r)
    BY <1>t, <2>1, CodeKept DEF KeepsCode
  <2> QED
    BY <2>1, <2>2, <1>o
<1>6. ASSUME NEW g \in Gids, NEW c \in Codes, privateRoomCreate(s, g, c)
      PROVE  CodesResolve'
  <2>1. /\ Unshared(g, c) /\ byCode' = [d \in Codes |-> IF d = c THEN g ELSE byCode[d]]
        /\ \A h \in Gids : h # g => gatherings'[h] = gatherings[h]
    BY <1>6, <1>t DEF privateRoomCreate
  <2>2. gatherings'[g] # NoRoom => gatherings'[g].code = c
    <3>1. CASE g \in Rooms
      BY <1>6, <3>1, <1>t DEF privateRoomCreate, Room
    <3>2. CASE g \notin Rooms
      BY <1>6, <3>2 DEF privateRoomCreate, Rooms
    <3> QED
      BY <3>1, <3>2
  <2> QED
    BY <2>1, <2>2, CodeGiven
<1>7. ASSUME NEW g \in Gids, NEW open \in BOOLEAN, setParticipation(s, g, open)
      PROVE  CodesResolve'
  <2> DEFINE room == [gatherings[g] EXCEPT !.open = open]
             vivants == Kept(room.parts, {p \in Players : p = connPID[s] \/ Online(p)})
             r == IF open THEN room ELSE WithParts(room, vivants)
  <2>1. g \in Rooms /\ gatherings' = [gatherings EXCEPT ![g] = r] /\ byCode' = byCode
    BY <1>7 DEF setParticipation
  <2>2. room \in Room /\ room.code = gatherings[g].code
    BY <1>t, <2>1 DEF Room
  <2> HIDE DEF room, vivants
  <2>3. KeepsCode(g, r)
    BY <2>1, <2>2, CodeKept DEF KeepsCode
  <2> HIDE DEF r
  <2> QED
    BY <2>1, <2>3, <1>o
<1>8. ASSUME NEW g \in Gids, NEW u \in Patches, updateSessionPart(s, g, u)
      PROVE  CodesResolve'
  <2> DEFINE r == applySessionPart(gatherings[g], u)
  <2>1. /\ g \in Rooms /\ gatherings' = [gatherings EXCEPT ![g] = r]
        /\ byCode' = [c \in Codes |-> IF u.code = c THEN g ELSE byCode[c]]
        /\ u.code \in Codes => Unshared(g, u.code)
    BY <1>8 DEF updateSessionPart
  <2>2. r.code = IF u.code = "keep" THEN gatherings[g].code ELSE u.code
    BY <1>t, <2>1 DEF applySessionPart, Room
  <2>3. u.code \in Codes \cup {NoCode, "keep"}
    OBVIOUS
  <2> HIDE DEF r
  <2>4. CASE u.code \notin Codes
    <3>1. byCode' = byCode
      BY <2>1, <2>4, <1>t DEF Inv, TypeOK
    <3>2. KeepsCode(g, r)
      BY <2>1, <2>2, <2>3, <2>4 DEF KeepsCode
    <3> QED
      BY <2>1, <3>1, <3>2, <1>o
  <2>5. CASE u.code \in Codes
    <3>1. /\ \A h \in Gids : h # g => gatherings'[h] = gatherings[h]
          /\ gatherings'[g] = r /\ g \in Gids
          /\ byCode' = [d \in Codes |-> IF d = u.code THEN g ELSE byCode[d]]
      BY <2>1, <1>t
    <3>2. r.code = u.code
      BY <2>2, <2>5
    <3> QED
      BY <2>1, <2>5, <3>1, <3>2, CodeGiven
  <2> QED
    BY <2>4, <2>5
<1>9. ASSUME NEW g \in Gids, NEW p \in Players, migrateGatheringOwnership(s, g, p)
      PROVE  CodesResolve'
  <2>1. g \in Rooms /\ byCode' = byCode
    BY <1>9 DEF migrateGatheringOwnership
  <2>2. PICK i \in DOMAIN gatherings[g].parts :
          gatherings' = [gatherings EXCEPT ![g] = Swapped(gatherings[g], i)]
    BY <1>9 DEF migrateGatheringOwnership, Swapped
  <2>3. KeepsCode(g, Swapped(gatherings[g], i))
    BY <1>t, <2>1 DEF KeepsCode, Swapped, Room
  <2> QED
    BY <2>1, <2>2, <2>3, <1>o
<1> QED
  BY <1>1, <1>2, <1>3, <1>4, <1>5, <1>6, <1>7, <1>8, <1>9 DEF Request

(* So do departures, migrations and the steps of the registry. *)
LEMMA CodesStep ==
  ASSUME Inv, CodesResolve, ~CodesClash, [Next]_vars
  PROVE  CodesResolve'
<1>t. \A g \in Rooms : gatherings[g] \in Room
  BY DEF Inv, TypeOK, Rooms
<1>1. ASSUME NEW s \in Sockets, Departure(s)
      PROVE  CodesResolve'
  <2> DEFINE after == [g \in Gids |->
                         IF g \in Rooms THEN Without(gatherings[g], connPID[s]) ELSE NoRoom]
             gone == {g \in Rooms : after[g] = NoRoom}
  <2>1. gatherings' = after /\ byCode' = DropCodes(gone)
    BY <1>1 DEF Departure, RemovePlayer
  <2>2. \A g \in Gids : KeepsCode(g, after[g])
    BY <1>t, CodeKept DEF KeepsCode
  <2> HIDE DEF after
  <2> QED
    BY <2>1, <2>2, CodesDropped
<1>2. ASSUME NEW s \in Sockets, MigrerHebergementDepuis(s)
      PROVE  CodesResolve'
  <2>1. /\ byCode' = byCode
        /\ gatherings' = [g \in Gids |->
             IF g \in Rooms THEN Rehosted(gatherings[g], connPID[s]) ELSE NoRoom]
    BY <1>2 DEF MigrerHebergementDepuis
  <2>2. \A g \in Gids : KeepsCode(g, gatherings'[g])
    BY <1>t, <2>1, CodeKept DEF KeepsCode
  <2> QED
    BY <2>1, <2>2, CodesSame
<1>3. ASSUME UNCHANGED storeVars
      PROVE  CodesResolve'
  BY <1>3 DEF storeVars, CodesResolve, Rooms, Gids
<1> QED
  BY <1>1, <1>2, <1>3, RequestCodes DEF Next, Connection, vars

(* As long as no two rooms are given the same code, the code a room shows     *)
(* leads to it, whatever other codes come and go and whichever rooms end: for *)
(* any number of rooms, codes and players (makeCode, applySessionPart,        *)
(* RemovePlayer, resolveCode).                                                *)
THEOREM CodesAlwaysResolve ==
  ASSUME ~CodesClash
  PROVE  Spec => []CodesResolve
<1>1. Init => CodesResolve
  BY DEF Init, CodesResolve, Rooms, Gids
<1>2. Spec => []Inv
  BY InitInv, StepInv, PTL DEF Spec
<1> QED
  BY <1>1, <1>2, CodesStep, PTL DEF Spec

-----------------------------------------------------------------------------
(* Phantoms *)

\* A player who is connected, or whose departure is still to be processed.
Present(p) == Online(p) \/ \E s \in Sockets : connPID[s] = p /\ leaving[s] # {}

\* NoPhantoms, of members instead of places in the list.
AllPresent ==
  \A g \in Rooms : /\ gatherings[g].parts # <<>>
                   /\ \A x : Contains(gatherings[g].parts, x) => Present(x)

\* What may become of the participants of gathering g in a step of player p:
\* somebody is left in a room, and nobody but p is new in it.
Peopled(g, r, p) ==
  \/ r = NoRoom
  \/ /\ r.parts # <<>>
     /\ \A x : Contains(r.parts, x)
          => x = p \/ (g \in Rooms /\ Contains(gatherings[g].parts, x))

(* The two ways to say that there are no phantoms. *)
LEMMA PhantomsByMember ==
  ASSUME Inv
  PROVE  NoPhantoms <=> AllPresent
<1>1. \A g \in Rooms : gatherings[g].parts \in Seq(Players)
  BY RoomFacts
<1> QED
  BY <1>1 DEF NoPhantoms, AllPresent, Present, Contains

(* A room that stays is as peopled as before. *)
LEMMA PeopledSame ==
  ASSUME AllPresent, NEW g \in Gids, NEW p
  PROVE  Peopled(g, gatherings[g], p)
  BY DEF AllPresent, Peopled, Rooms

(* A step that puts a room in the place of another, and changes no other. *)
LEMMA OneRoomPeopled ==
  ASSUME Inv, AllPresent, NEW g \in Rooms, NEW r, NEW p, Peopled(g, r, p),
         gatherings' = [gatherings EXCEPT ![g] = r]
  PROVE  \A h \in Gids : Peopled(h, gatherings'[h], p)
<1>1. \A h \in Gids : gatherings'[h] = IF h = g THEN r ELSE gatherings[h]
  BY RoomFacts DEF Inv, TypeOK
<1> QED
  BY <1>1, PeopledSame

(* A new room holds its creator, and nobody enters another. *)
LEMMA CreatePeopled ==
  ASSUME Inv, AllPresent, NEW s \in Sockets, NEW src \in Sessions, createGathering(s, src)
  PROVE  \A g \in Gids : Peopled(g, gatherings'[g], connPID[s])
<1> SUFFICES ASSUME NEW g \in Gids
             PROVE  Peopled(g, gatherings'[g], connPID[s])
  OBVIOUS
<1> DEFINE r == finalizeCreatedSession(s, src)
<1>1. gatherings'[g] \in {r, NoRoom, gatherings[g]}
  BY DEF createGathering
<1>2. Peopled(g, r, connPID[s])
  <2>1. r.parts = <<connPID[s]>>
    BY DEF finalizeCreatedSession
  <2> HIDE DEF r
  <2> QED
    BY <2>1 DEF Peopled, Contains
<1> HIDE DEF r
<1> QED
  BY <1>1, <1>2, PeopledSame DEF Peopled

(* Whoever enters a room is the caller. *)
LEMMA EnterPeopled ==
  ASSUME Inv, AllPresent, NEW s \in Sockets, Calls(s), NEW g \in Rooms, Enter(s, g)
  PROVE  \A h \in Gids : Peopled(h, gatherings'[h], connPID[s])
<1> DEFINE parts == gatherings[g].parts
           after == IF containsPID(parts, connPID[s]) THEN parts ELSE Append(parts, connPID[s])
           r == WithParts(gatherings[g], after)
<1>1. /\ parts \in Seq(Players) /\ gatherings[g] \in Room
      /\ IsInjective(parts) /\ connPID[s] \in Players
  BY RoomFacts, CallerFacts DEF RoomOK
<1>2. /\ after \in Seq(Players) /\ after # <<>> /\ IsInjective(after)
      /\ \A x : Contains(after, x) => x = connPID[s] \/ Contains(parts, x)
  <2>1. parts # <<>>
    BY DEF AllPresent
  <2>2. CASE containsPID(parts, connPID[s])
    BY <1>1, <2>1, <2>2
  <2>3. CASE ~containsPID(parts, connPID[s])
    <3>1. Append(parts, connPID[s]) # <<>>
      BY <1>1
    <3> QED
      BY <1>1, <2>3, <3>1, AppendProperties1 DEF containsPID
  <2> QED
    BY <2>2, <2>3
<1> HIDE DEF after
<1>3. r.parts = after
  BY <1>1, <1>2, WithPartsOK
<1>4. gatherings' = [gatherings EXCEPT ![g] = r]
  BY DEF Enter, r, after
<1> HIDE DEF r
<1>5. Peopled(g, r, connPID[s])
  BY <1>2, <1>3 DEF Peopled
<1> QED
  BY <1>4, <1>5, OneRoomPeopled

(* No request brings anyone but its caller into a room, or leaves it empty. *)
LEMMA RequestPeopled ==
  ASSUME Inv, AllPresent, ~StrangersClose, NEW s \in Sockets, Request(s)
  PROVE  Calls(s) /\ \A h \in Gids : Peopled(h, gatherings'[h], connPID[s])
<1> DEFINE Goal == Calls(s) /\ \A h \in Gids : Peopled(h, gatherings'[h], connPID[s])
<1> SUFFICES Goal
  OBVIOUS
<1>1. ASSUME NEW src \in Sessions, createSession(s, src)
      PROVE  Goal
  BY <1>1, CreatePeopled DEF createSession
<1>2. ASSUME NEW src \in Sessions, NEW refused, autoMatchmake(s, src, refused)
      PROVE  Goal
  <2>1. Calls(s)
    BY <1>2 DEF autoMatchmake
  <2>2. CASE createGathering(s, src)
    BY <2>1, <2>2, CreatePeopled
  <2>3. ASSUME NEW g \in Eligible(s, src, refused), Enter(s, g)
        PROVE  Goal
    <3>1. g \in Rooms
      BY <2>3 DEF Eligible, Candidates
    <3> QED
      BY <2>1, <2>3, <3>1, EnterPeopled
  <2> HIDE DEF Goal
  <2> QED
    BY <1>2, <2>1, <2>2, <2>3 DEF autoMatchmake
<1>3. ASSUME NEW g \in Gids, joinSession(s, g)
      PROVE  Goal
  BY <1>3, EnterPeopled DEF joinSession
<1>4. ASSUME NEW g \in Gids, unregister(s, g)
      PROVE  Goal
  BY <1>4, OneRoomPeopled DEF unregister, Peopled
<1>5. ASSUME NEW g \in Gids, endParticipation(s, g)
      PROVE  Goal
  <2> DEFINE rest == removePID(gatherings[g].parts, connPID[s])
             r == IF rest = <<>> THEN NoRoom ELSE WithParts(gatherings[g], rest)
  <2>1. Calls(s) /\ g \in Rooms /\ gatherings' = [gatherings EXCEPT ![g] = r]
    BY <1>5 DEF endParticipation
  <2>2. /\ gatherings[g] \in Room /\ gatherings[g].parts \in Seq(Players)
        /\ IsInjective(gatherings[g].parts) /\ connPID[s] \in Players
    BY <2>1, RoomFacts, CallerFacts DEF RoomOK
  <2>3. /\ rest \in Seq(Players) /\ IsInjective(rest)
        /\ \A x : Contains(rest, x) => Contains(gatherings[g].parts, x)
    BY <2>2, RemovePIDProperties
  <2> HIDE DEF rest
  <2>4. WithParts(gatherings[g], rest).parts = rest
    BY <2>2, <2>3, WithPartsOK
  <2>5. Peopled(g, r, connPID[s])
    BY <2>1, <2>3, <2>4 DEF Peopled
  <2> HIDE DEF r
  <2> QED
    BY <2>1, <2>5, OneRoomPeopled
<1>6. ASSUME NEW g \in Gids, NEW c \in Codes, privateRoomCreate(s, g, c)
      PROVE  Goal
  <2>1. /\ Calls(s)
        /\ gatherings' = IF g \in Rooms THEN [gatherings EXCEPT ![g].code = c] ELSE gatherings
    BY <1>6 DEF privateRoomCreate
  <2>2. CASE g \in Rooms
    <3> DEFINE r == [gatherings[g] EXCEPT !.code = c]
    <3>1. gatherings' = [gatherings EXCEPT ![g] = r] /\ gatherings[g] \in Room
      BY <2>1, <2>2, RoomFacts DEF RoomOK
    <3>2. r.parts = gatherings[g].parts
      BY <3>1 DEF Room
    <3> HIDE DEF r
    <3>3. Peopled(g, r, connPID[s])
      BY <2>2, <3>2 DEF Peopled, AllPresent
    <3> QED
      BY <2>1, <2>2, <3>1, <3>3, OneRoomPeopled
  <2>3. CASE g \notin Rooms
    BY <2>1, <2>3, PeopledSame
  <2> QED
    BY <2>2, <2>3
<1>7. ASSUME NEW g \in Gids, NEW open \in BOOLEAN, setParticipation(s, g, open)
      PROVE  Goal
  <2> DEFINE room == [gatherings[g] EXCEPT !.open = open]
             wanted == {p \in Players : p = connPID[s] \/ Online(p)}
             vivants == Kept(room.parts, wanted)
             r == IF open THEN room ELSE WithParts(room, vivants)
  <2>1. /\ Calls(s) /\ g \in Rooms /\ gatherings' = [gatherings EXCEPT ![g] = r]
        /\ Contains(gatherings[g].parts, connPID[s])
    BY <1>7 DEF setParticipation, containsPID
  <2>2. RoomOK(gatherings[g]) /\ connPID[s] \in Players
    BY <2>1, RoomFacts, CallerFacts
  <2>3. room \in Room /\ room.parts = gatherings[g].parts
    BY <2>2 DEF RoomOK, Room
  <2>4. connPID[s] \in wanted
    BY <2>2
  <2> HIDE DEF room, wanted
  <2>5. room.parts \in Seq(Players) /\ IsInjective(room.parts)
    BY <2>2, <2>3 DEF RoomOK, Room
  <2>6. /\ vivants \in Seq(Players) /\ IsInjective(vivants)
        /\ \A x : Contains(vivants, x) <=> Contains(room.parts, x) /\ x \in wanted
    BY <2>5, KeptProperties
  <2> HIDE DEF vivants
  <2>7. vivants # <<>>
    <3>1. Contains(vivants, connPID[s])
      BY <2>1, <2>3, <2>4, <2>6
    <3> QED
      BY <3>1 DEF Contains
  <2>8. WithParts(room, vivants).parts = vivants
    BY <2>3, <2>6, WithPartsOK
  <2>9. Peopled(g, r, connPID[s])
    BY <2>1, <2>3, <2>6, <2>7, <2>8 DEF Peopled, AllPresent
  <2> HIDE DEF r
  <2> QED
    BY <2>1, <2>9, OneRoomPeopled
<1>8. ASSUME NEW g \in Gids, NEW u \in Patches, updateSessionPart(s, g, u)
      PROVE  Goal
  <2> DEFINE r == applySessionPart(gatherings[g], u)
  <2>1. Calls(s) /\ g \in Rooms /\ gatherings' = [gatherings EXCEPT ![g] = r]
    BY <1>8 DEF updateSessionPart
  <2>2. r.parts = gatherings[g].parts
    BY <2>1, RoomFacts, PatchedOK DEF RoomOK
  <2> HIDE DEF r
  <2>3. Peopled(g, r, connPID[s])
    BY <2>1, <2>2 DEF Peopled, AllPresent
  <2> QED
    BY <2>1, <2>3, OneRoomPeopled
<1>9. ASSUME NEW g \in Gids, NEW p \in Players, migrateGatheringOwnership(s, g, p)
      PROVE  Goal
  <2>1. Calls(s) /\ g \in Rooms
    BY <1>9 DEF migrateGatheringOwnership
  <2> DEFINE room == gatherings[g]
  <2>2. PICK i \in DOMAIN room.parts :
          gatherings' = [gatherings EXCEPT ![g] = [room EXCEPT !.parts =
            [room.parts EXCEPT ![1] = room.parts[i], ![i] = room.parts[1]]]]
    BY <1>9 DEF migrateGatheringOwnership
  <2> DEFINE r == Swapped(room, i)
  <2>3. RoomOK(room)
    BY <2>1, RoomFacts
  <2>4. /\ RoomOK(r) /\ Len(r.parts) = Len(room.parts)
        /\ \A x : Contains(r.parts, x) <=> Contains(room.parts, x)
    BY <2>3, SwapOK
  <2>5. gatherings' = [gatherings EXCEPT ![g] = r]
    BY <2>2 DEF Swapped
  <2> HIDE DEF r
  <2>6. room.parts # <<>> /\ room.parts \in Seq(Players) /\ r.parts \in Seq(Players)
    BY <2>1, <2>3, <2>4 DEF AllPresent, RoomOK, Room
  <2>7. r.parts # <<>>
    BY <2>4, <2>6
  <2>8. Peopled(g, r, connPID[s])
    BY <2>1, <2>4, <2>7 DEF Peopled
  <2> QED
    BY <2>1, <2>5, <2>8, OneRoomPeopled
<1> HIDE DEF Goal
<1> QED
  BY <1>1, <1>2, <1>3, <1>4, <1>5, <1>6, <1>7, <1>8, <1>9 DEF Request

(* A caller is online when nobody is evicted. *)
LEMMA CallerPresent ==
  ASSUME Inv, ~Evictions, NEW s \in Sockets, Calls(s)
  PROVE  Present(connPID[s])
  BY DEF Calls, Present, Online, Of

(* Nobody vanishes from the registry without a departure that is due. *)
LEMMA StaysPresent ==
  ASSUME Inv, NEW s \in Sockets, RegistryStep(s), NEW p \in Players, Present(p)
  PROVE  Present(p)'
<1> USE RegistryAssumption DEF Inv, RegistryOK, Present, Online, Of
<1>1. ASSUME NEW q \in Players, Connect(s, q)
      PROVE  Present(p)'
  BY <1>1 DEF Connect
<1>2. ASSUME NEW k \in Closers, Leave(s, k)
      PROVE  Present(p)'
  BY <1>2 DEF Leave
<1>3. ASSUME NEW k \in Closers, LeaveAgain(s, k)
      PROVE  Present(p)'
  BY <1>3 DEF LeaveAgain
<1>4. CASE HangUp(s)
  BY <1>4 DEF HangUp
<1> QED
  BY <1>1, <1>2, <1>3, <1>4 DEF RegistryStep

(* Every step leaves rooms without phantoms. *)
LEMMA PresentStep ==
  ASSUME Inv, AllPresent, ~Evictions, ~StrangersClose, [Next]_vars
  PROVE  AllPresent'
<1>p. \A g \in Rooms : \A x : Contains(gatherings[g].parts, x) => x \in Players
  BY RoomFacts DEF Contains
<1>1. ASSUME NEW p, \A g \in Gids : Peopled(g, gatherings'[g], p),
             \A x : x = p \/ (\E g \in Rooms : Contains(gatherings[g].parts, x))
                    => Present(x)'
      PROVE  AllPresent'
  <2> SUFFICES ASSUME NEW g \in Gids, gatherings'[g] # NoRoom
               PROVE  /\ gatherings'[g].parts # <<>>
                      /\ \A x : Contains(gatherings'[g].parts, x) => Present(x)'
    BY DEF AllPresent, Rooms, Gids, Contains
  <2> QED
    BY <1>1 DEF Peopled
<1>2. ASSUME UNCHANGED registryVars, NEW x, Present(x)
      PROVE  Present(x)'
  BY <1>2 DEF registryVars, Present, Online, Of
<1>3. ASSUME NEW s \in Sockets, Request(s)
      PROVE  AllPresent'
  <2>1. Calls(s) /\ \A g \in Gids : Peopled(g, gatherings'[g], connPID[s])
    BY <1>3, RequestPeopled
  <2>2. UNCHANGED registryVars
    BY <1>3, RequestStep
  <2>3. \A x : x = connPID[s] \/ (\E g \in Rooms : Contains(gatherings[g].parts, x))
               => Present(x)'
    BY <1>2, <2>1, <2>2, CallerPresent DEF AllPresent
  <2> QED
    BY <1>1, <2>1, <2>3
<1>4. ASSUME NEW s \in Sockets, Connection(s)
      PROVE  AllPresent'
  <2>1. RegistryStep(s) /\ gatherings' = gatherings
    BY <1>4 DEF Connection, storeVars
  <2>2. \A g \in Rooms : \A x : Contains(gatherings[g].parts, x) => Present(x)'
    BY <1>p, <2>1, StaysPresent DEF AllPresent
  <2> QED
    BY <2>1, <2>2 DEF AllPresent, Rooms, Contains, Gids
<1>5. ASSUME NEW s \in Sockets, Departure(s)
      PROVE  AllPresent'
  <2> DEFINE p == connPID[s]
  <2>1. p \in Players /\ UNCHANGED <<connID, connPID, live>>
    BY <1>5 DEF Departure, Disconnected, Inv, RegistryOK
  <2>2. ASSUME NEW x, x # p, Present(x)
        PROVE  Present(x)'
    BY <1>5, <2>1, <2>2 DEF Departure, Disconnected, Present, Online, Of, Inv, RegistryOK
  <2> SUFFICES ASSUME NEW g \in Gids, gatherings'[g] # NoRoom
               PROVE  /\ gatherings'[g].parts # <<>>
                      /\ \A x : Contains(gatherings'[g].parts, x) => Present(x)'
    BY DEF AllPresent, Rooms, Gids, Contains
  <2>3. g \in Rooms /\ gatherings'[g] = Without(gatherings[g], p)
    BY <1>5 DEF Departure, RemovePlayer
  <2>4. RoomOK(gatherings[g]) /\ gatherings[g].parts # <<>>
    BY <2>3, RoomFacts DEF AllPresent
  <2>5. /\ ~Contains(gatherings'[g].parts, p) /\ gatherings'[g].parts # <<>>
        /\ \A x : Contains(gatherings'[g].parts, x) => Contains(gatherings[g].parts, x)
    BY <2>1, <2>3, <2>4, WithoutOK
  <2> HIDE DEF p
  <2> QED
    BY <2>2, <2>3, <2>5 DEF AllPresent
<1>6. ASSUME NEW s \in Sockets, MigrerHebergementDepuis(s)
      PROVE  AllPresent'
  <2> DEFINE p == connPID[s]
  <2>1. p \in Players /\ RegistryOK /\ UNCHANGED registryVars
    BY <1>6 DEF MigrerHebergementDepuis, Inv, RegistryOK
  <2> SUFFICES ASSUME NEW g \in Gids, gatherings'[g] # NoRoom
               PROVE  /\ gatherings'[g].parts # <<>>
                      /\ \A x : Contains(gatherings'[g].parts, x) => Present(x)'
    BY DEF AllPresent, Rooms, Gids, Contains
  <2>3. g \in Rooms /\ gatherings'[g] = Rehosted(gatherings[g], p)
    BY <1>6 DEF MigrerHebergementDepuis
  <2>4. RoomOK(gatherings[g]) /\ gatherings[g].parts # <<>>
    BY <2>3, RoomFacts DEF AllPresent
  <2>5. /\ RoomOK(gatherings'[g]) /\ Len(gatherings'[g].parts) = Len(gatherings[g].parts)
        /\ \A x : Contains(gatherings'[g].parts, x) <=> Contains(gatherings[g].parts, x)
    BY <2>1, <2>3, <2>4, RehostedOK
  <2>6. gatherings'[g].parts # <<>>
    BY <2>4, <2>5 DEF RoomOK, Room
  <2> QED
    BY <1>2, <2>1, <2>3, <2>5, <2>6 DEF AllPresent
<1>7. CASE UNCHANGED vars
  <2>1. UNCHANGED registryVars /\ gatherings' = gatherings
    BY <1>7 DEF vars, storeVars
  <2>2. \A g \in Rooms : \A x : Contains(gatherings[g].parts, x) => Present(x)'
    BY <1>2, <2>1 DEF AllPresent
  <2> QED
    BY <2>1, <2>2 DEF AllPresent, Rooms, Contains, Gids
<1> QED
  BY <1>3, <1>4, <1>5, <1>6, <1>7 DEF Next

(* As long as nobody is evicted and consoles close only their own rooms, no   *)
(* room outlives its players: each of them is online, or the callback that    *)
(* will take it out is still to come.                                         *)
THEOREM NoPhantomLobby ==
  ASSUME ~Evictions, ~StrangersClose
  PROVE  Spec => []NoPhantoms
<1> DEFINE K == Inv /\ AllPresent
<1>1. Init => K
  <2>1. Init => AllPresent
    BY DEF Init, AllPresent, Rooms
  <2> QED
    BY <2>1, InitInv
<1>2. K /\ [Next]_vars => K'
  BY StepInv, PresentStep
<1>3. K => NoPhantoms
  BY PhantomsByMember
<1> HIDE DEF K
<1> QED
  BY <1>1, <1>2, <1>3, PTL DEF Spec
=============================================================================
