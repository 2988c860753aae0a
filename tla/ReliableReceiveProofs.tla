----------------------- MODULE ReliableReceiveProofs -----------------------
(***************************************************************************)
(* Proofs about the request path, for requests of any size, any length of  *)
(* the ring and any number of sequence ids, messages and sessions.         *)
(***************************************************************************)
EXTENDS ReliableReceive, Integers, TLAPS

-----------------------------------------------------------------------------
(* Remainders *)

(* Division with remainder. *)
LEMMA Quotient ==
  ASSUME NEW a \in Nat, NEW n \in Nat \ {0}
  PROVE  \E q \in Nat : a = n * q + (a % n)
<1>1. a = n * (a \div n) + (a % n)
  OBVIOUS
<1>2. a \div n \in Nat
  OBVIOUS
<1> QED
  BY <1>1, <1>2

(* The remainder is the only one below the divisor. *)
LEMMA RemainderOf ==
  ASSUME NEW q \in Nat, NEW r \in Nat, NEW n \in Nat \ {0}, r < n
  PROVE  (n * q + r) % n = r
  OBVIOUS

(* Two numbers less than a whole turn apart have different remainders. *)
LEMMA LessThanATurn ==
  ASSUME NEW a \in Nat, NEW b \in Nat, NEW n \in Nat \ {0}, a < b, b - a < n
  PROVE  a % n # b % n
<1> SUFFICES ASSUME a % n = b % n PROVE FALSE
  OBVIOUS
<1>1. PICK q \in Nat : a = n * q + (a % n)
  BY Quotient
<1>2. PICK r \in Nat : b = n * r + (b % n)
  BY Quotient
<1>3. a % n \in Nat /\ n * q \in Nat /\ n * r \in Nat
  OBVIOUS
<1>4. n * q < n * r /\ n * r < n * q + n
  BY <1>1, <1>2, <1>3
<1>5. r >= q + 1
  <2>1. r <= q => n * r <= n * q
    OBVIOUS
  <2> QED
    BY <1>3, <1>4, <2>1
<1>6. n * r >= n * (q + 1)
  BY <1>5
<1>7. n * (q + 1) = n * q + n
  OBVIOUS
<1> QED
  BY <1>3, <1>4, <1>6, <1>7

(* A whole turn later the remainder is the same. *)
LEMMA TurnLater ==
  ASSUME NEW a \in Nat, NEW n \in Nat \ {0}
  PROVE  (a + n) % n = a % n
<1>1. a % n \in Nat /\ a % n < n
  OBVIOUS
<1>2. PICK q \in Nat : a = n * q + (a % n)
  BY Quotient
<1>3. a + n = n * (q + 1) + (a % n)
  BY <1>1, <1>2
<1>4. (n * (q + 1) + (a % n)) % n = a % n
  BY <1>1, RemainderOf
<1> QED
  BY <1>3, <1>4

(* The next remainder is that of the next number. *)
LEMMA NextRemainder ==
  ASSUME NEW a \in Nat, NEW n \in Nat \ {0}
  PROVE  ((a % n) + 1) % n = (a + 1) % n
<1>1. a % n \in Nat /\ a % n < n
  OBVIOUS
<1>2. PICK q \in Nat : a = n * q + (a % n)
  BY Quotient
<1>3. CASE (a % n) + 1 < n
  <2>1. a + 1 = n * q + ((a % n) + 1)
    BY <1>1, <1>2
  <2>2. (n * q + ((a % n) + 1)) % n = (a % n) + 1
    BY <1>1, <1>3, RemainderOf
  <2>3. ((a % n) + 1) % n = (a % n) + 1
    BY <1>1, <1>3
  <2> QED
    BY <2>1, <2>2, <2>3
<1>4. CASE (a % n) + 1 = n
  <2>1. a + 1 = n * (q + 1) + 0
    BY <1>1, <1>2, <1>4
  <2>2. (n * (q + 1) + 0) % n = 0
    BY RemainderOf
  <2>3. n % n = 0
    OBVIOUS
  <2> QED
    BY <1>4, <2>1, <2>2, <2>3
<1> QED
  BY <1>1, <1>3, <1>4

-----------------------------------------------------------------------------
(* Types *)

(* The types hold at the start. *)
LEMMA InitTypes == Init => TypeOK
  BY ReceiveAssumption DEF Init, TypeOK, EmptyWindow, NoSeq, SeqIds

(* A packet the console numbers has its type. *)
LEMMA DataPacketType ==
  ASSUME session \in Nat, NEW m \in Nat, NEW no \in Nat, NEW size \in Nat, NEW k \in Nat,
         NEW reliable \in BOOLEAN
  PROVE  DataPacket(m, no, size, k, reliable) \in Packets
<1>1. k % SeqSpace \in SeqIds
  BY ReceiveAssumption DEF SeqIds
<1> QED
  BY <1>1 DEF DataPacket, Packets, Fragments

(* Every step keeps the types. *)
LEMMA StepTypes ==
  ASSUME TypeOK, [Next]_vars
  PROVE  TypeOK'
<1> USE ReceiveAssumption
<1>l. LastSize \in Nat
  BY DEF TypeOK, LastSize
<1>f. ASSUME NEW m \in Nat, NEW n \in Nat, NEW size \in Nat, SendFragment(m, n, size),
             msgs' \in Seq(Nat)
      PROVE  TypeOK'
  <2> DEFINE pkt == DataPacket(m, n, size, Len(log) + 1, TRUE)
  <2>1. pkt \in Packets
    <3>1. session \in Nat /\ Len(log) + 1 \in Nat
      BY DEF TypeOK
    <3> QED
      BY <3>1, DataPacketType, Zenon
  <2>2. /\ fragsOut' = n /\ log' = Append(log, pkt) /\ wire' = Append(wire, pkt)
        /\ UNCHANGED <<acked, session, acks, recus, recusPos, fragBuf, dispatched>>
    BY <1>f DEF SendFragment, serverVars
  <2> HIDE DEF pkt
  <2>3. log' \in Seq(Packets) /\ wire' \in Seq(Packets)
    BY <2>1, <2>2 DEF TypeOK
  <2> QED
    BY <1>f, <2>2, <2>3 DEF TypeOK
<1>1. CASE IssueRequest
  <2>1. PICK n \in Sizes : msgs' = Append(msgs, n) /\ SendFragment(Len(msgs) + 1, 1, n)
    BY <1>1 DEF IssueRequest
  <2>2. n \in Nat /\ Len(msgs) + 1 \in Nat /\ msgs' \in Seq(Nat)
    BY <2>1 DEF TypeOK
  <2> QED
    BY <1>f, <2>1, <2>2
<1>2. CASE ContinueRequest
  <2>1. msgs' = msgs /\ SendFragment(Len(msgs), fragsOut + 1, LastSize)
    BY <1>2 DEF ContinueRequest
  <2>2. Len(msgs) \in Nat /\ fragsOut + 1 \in Nat /\ msgs' \in Seq(Nat)
    BY <2>1 DEF TypeOK
  <2> QED
    BY <1>f, <1>l, <2>1, <2>2
<1>3. CASE IssueUnreliable
  <2> DEFINE pkt == DataPacket(Len(msgs) + 1, 1, 1, 0, FALSE)
  <2>1. pkt \in Packets
    <3>1. session \in Nat /\ Len(msgs) + 1 \in Nat /\ 0 \in Nat /\ 1 \in Nat
      BY DEF TypeOK
    <3> QED
      BY <3>1, DataPacketType, Zenon
  <2>2. /\ msgs' = Append(msgs, 1) /\ fragsOut' = 1 /\ wire' = Append(wire, pkt)
        /\ UNCHANGED <<log, acked, session, acks, recus, recusPos, fragBuf, dispatched>>
    BY <1>3 DEF IssueUnreliable, serverVars
  <2> HIDE DEF pkt
  <2>3. wire' \in Seq(Packets) /\ msgs' \in Seq(Nat)
    BY <2>1, <2>2 DEF TypeOK
  <2> QED
    BY <2>2, <2>3 DEF TypeOK
<1>4. CASE Repeat
  BY <1>4 DEF Repeat, TypeOK, consoleVars, serverVars
<1>5. CASE SeeAck
  <2>1. acks' \subseteq acks /\ acked' \subseteq acked \cup DOMAIN log
    BY <1>5 DEF SeeAck
  <2>2. UNCHANGED <<msgs, fragsOut, log, session, wire, recus, recusPos, fragBuf, dispatched>>
    BY <1>5 DEF SeeAck, serverVars
  <2>3. DOMAIN log \subseteq Nat
    BY DEF TypeOK
  <2> QED
    BY <2>1, <2>2, <2>3 DEF TypeOK
<1>6. CASE LoseAck
  BY <1>6 DEF LoseAck, TypeOK, consoleVars, serverVars
<1>7. CASE RestartSession
  <2> DEFINE pkt == [type |-> "SYN", ses |-> session + 1, pid |-> 0, needAck |-> TRUE,
                     fragmentID |-> 0, payload |-> [msg |-> 0, no |-> 0]]
  <2>1. pkt \in Packets
    BY DEF TypeOK, Packets, Fragments, SeqIds
  <2>2. /\ session' = session + 1 /\ log' = <<>> /\ acked' = {} /\ fragsOut' = LastSize
        /\ wire' = Append(wire, pkt)
        /\ UNCHANGED <<msgs, acks, recus, recusPos, fragBuf, dispatched>>
    BY <1>7 DEF RestartSession, serverVars
  <2> HIDE DEF pkt
  <2> QED
    BY <1>l, <2>1, <2>2 DEF TypeOK
<1>8. CASE handlePacket
  <2> DEFINE p == Head(wire)
  <2>1. /\ wire # <<>> /\ wire' = Tail(wire)
        /\ UNCHANGED <<msgs, fragsOut, log, acked, session>>
        /\ processSYN(p) \/ processData(p)
    BY <1>8 DEF handlePacket, consoleVars
  <2>2. p \in Packets /\ wire' \in Seq(Packets)
    BY <2>1 DEF TypeOK
  <2>3. /\ p.pid \in SeqIds /\ p.ses \in Nat /\ p.payload \in Fragments
        /\ (recusPos + 1) % Window \in 0 .. Window - 1
    BY <2>2 DEF Packets, TypeOK
  <2> HIDE DEF p
  <2>4. recus' \in [0 .. Window - 1 -> SeqIds \cup {NoSeq}] /\ recusPos' \in 0 .. Window - 1
    <3>1. CASE processSYN(p)
      BY <3>1 DEF processSYN, EmptyWindow
    <3>2. CASE UNCHANGED <<recus, recusPos>>
      BY <3>2 DEF TypeOK
    <3>3. CASE Remember(p.pid)
      BY <2>3, <3>3 DEF Remember, TypeOK
    <3> QED
      BY <2>1, <3>1, <3>2, <3>3 DEF processData, serverVars
  <2>5. acks' \subseteq [ses : Nat, pid : SeqIds]
    <3>1. [ses |-> p.ses, pid |-> p.pid] \in [ses : Nat, pid : SeqIds]
      BY <2>3
    <3>2. acks' \subseteq acks \cup {[ses |-> p.ses, pid |-> p.pid]}
      BY <2>1 DEF processSYN, processData, sendAck, serverVars
    <3> QED
      BY <3>1, <3>2 DEF TypeOK
  <2>6. fragBuf' \in Seq(Fragments) /\ dispatched' \in Seq(Seq(Fragments))
    <3>1. CASE UNCHANGED <<fragBuf, dispatched>>
      BY <3>1 DEF TypeOK
    <3>2. CASE Reassemble(p)
      <4>1. Append(fragBuf, p.payload) \in Seq(Fragments)
        BY <2>3 DEF TypeOK
      <4>2. Append(dispatched, Append(fragBuf, p.payload)) \in Seq(Seq(Fragments))
        BY <4>1 DEF TypeOK
      <4>3. fragBuf' \in {<<>>, Append(fragBuf, p.payload)}
        BY <3>2 DEF Reassemble
      <4>4. dispatched' \in {dispatched, Append(dispatched, Append(fragBuf, p.payload))}
        BY <3>2 DEF Reassemble
      <4>5. <<>> \in Seq(Fragments) /\ dispatched \in Seq(Seq(Fragments))
        BY DEF TypeOK
      <4> QED
        BY <4>1, <4>2, <4>3, <4>4, <4>5, Zenon
    <3> QED
      BY <2>1, <3>1, <3>2 DEF processSYN, processData, serverVars
  <2> QED
    BY <2>1, <2>2, <2>4, <2>5, <2>6 DEF TypeOK
<1>9. CASE UNCHANGED vars
  BY <1>9 DEF vars, TypeOK
<1> QED
  BY <1>1, <1>2, <1>3, <1>4, <1>5, <1>6, <1>7, <1>8, <1>9 DEF Next

(* The variables of the console, the socket and the connection keep their     *)
(* types; in particular recusPos stays a slot of the ring (dejaRecu).         *)
THEOREM ReceiveTypes == Spec => []TypeOK
  BY InitTypes, StepTypes, PTL DEF Spec

-----------------------------------------------------------------------------
(* The ring *)

\* After h reliable packets of a session the ring holds the ids of the newest
\* ones, each in the slot of its number.
Ring(h) ==
  /\ recusPos = h % Window
  /\ \A k \in 1 .. h : k + Window > h => recus[(k - 1) % Window] = k % SeqSpace
  /\ \A i \in 0 .. Window - 1 :
       \/ recus[i] = NoSeq
       \/ \E k \in 1 .. h : /\ k + Window > h /\ i = (k - 1) % Window
                            /\ recus[i] = k % SeqSpace

\* A packet whose id is that of one of the MaxLag newest.
Known(h, pid) == \E k \in 1 .. h : k + MaxLag > h /\ pid = k % SeqSpace

(* processSYN leaves the ring of a session that has no packets. *)
LEMMA EmptyRing ==
  ASSUME recus' = EmptyWindow, recusPos' = 0
  PROVE  Ring(0)'
<1>1. 0 % Window = 0
  BY ReceiveAssumption
<1> QED
  BY <1>1, ReceiveAssumption DEF Ring, EmptyWindow

(* dejaRecu knows the packets that may be repeated. *)
LEMMA RepeatKnown ==
  ASSUME TypeOK, NEW h \in Nat, Ring(h), NEW pid, Known(h, pid)
  PROVE  dejaRecu(pid)
<1> USE ReceiveAssumption
<1>1. PICK k \in 1 .. h : k + MaxLag > h /\ pid = k % SeqSpace
  BY DEF Known
<1>2. recus[(k - 1) % Window] = pid
  <2>1. k + Window > h
    BY <1>1
  <2> QED
    BY <1>1, <2>1 DEF Ring
<1>3. (k - 1) % Window \in 0 .. Window - 1
  BY <1>1
<1> QED
  BY <1>2, <1>3 DEF dejaRecu, TypeOK

(* ... and does not take the next packet for one of them, although the ids    *)
(* wrap: a turn of the ids is longer than the ring.                           *)
LEMMA NextUnknown ==
  ASSUME TypeOK, NEW h \in Nat, Ring(h)
  PROVE  ~dejaRecu((h + 1) % SeqSpace)
<1> USE ReceiveAssumption
<1> SUFFICES ASSUME NEW i \in 0 .. Window - 1, recus[i] = (h + 1) % SeqSpace
             PROVE  FALSE
  BY DEF dejaRecu, TypeOK
<1>1. (h + 1) % SeqSpace \in 0 .. SeqSpace - 1
  OBVIOUS
<1>2. recus[i] # NoSeq
  BY <1>1 DEF NoSeq
<1>3. PICK k \in 1 .. h : k + Window > h /\ recus[i] = k % SeqSpace
  BY <1>2 DEF Ring
<1>4. k \in Nat /\ h + 1 \in Nat /\ k < h + 1 /\ h + 1 - k < SeqSpace
  BY <1>3
<1>5. k % SeqSpace # (h + 1) % SeqSpace
  <2> DEFINE b == h + 1
  <2>1. b \in Nat /\ k < b /\ b - k < SeqSpace
    BY <1>4
  <2> HIDE DEF b
  <2>2. k % SeqSpace # b % SeqSpace
    BY <1>4, <2>1, LessThanATurn
  <2> QED
    BY <2>2 DEF b
<1> QED
  BY <1>3, <1>5

(* The next packet takes the slot of the one that is forgotten. *)
LEMMA RingTurns ==
  ASSUME TypeOK, NEW h \in Nat, Ring(h), Remember((h + 1) % SeqSpace)
  PROVE  Ring(h + 1)'
<1> USE ReceiveAssumption
<1> DEFINE pid == (h + 1) % SeqSpace
<1>1. recus' = [recus EXCEPT ![h % Window] = pid] /\ recusPos' = ((h % Window) + 1) % Window
  BY DEF Remember, Ring
<1>2. h % Window \in 0 .. Window - 1 /\ DOMAIN recus = 0 .. Window - 1
  BY DEF TypeOK
<1> HIDE DEF pid
<1>3. /\ recus'[h % Window] = pid
      /\ \A i \in 0 .. Window - 1 : i # h % Window => recus'[i] = recus[i]
  BY <1>1, <1>2
<1>4. recusPos' = (h + 1) % Window
  BY <1>1, NextRemainder
<1>5. ASSUME NEW k \in 1 .. h + 1, k + Window > h + 1
      PROVE  recus'[(k - 1) % Window] = k % SeqSpace
  <2>1. CASE k = h + 1
    BY <1>3, <2>1 DEF pid
  <2>2. CASE k # h + 1
    <3>1. k - 1 \in Nat /\ k - 1 < h /\ h - (k - 1) < Window /\ k \in 1 .. h /\ k + Window > h
      BY <1>5, <2>2
    <3>2. (k - 1) % Window # h % Window
      BY <3>1, LessThanATurn
    <3>3. (k - 1) % Window \in 0 .. Window - 1
      BY <3>1
    <3> QED
      BY <1>3, <3>1, <3>2, <3>3 DEF Ring
  <2> QED
    BY <2>1, <2>2
<1>6. ASSUME NEW i \in 0 .. Window - 1, recus'[i] # NoSeq
      PROVE  \E k \in 1 .. h + 1 : /\ k + Window > h + 1 /\ i = (k - 1) % Window
                                   /\ recus'[i] = k % SeqSpace
  <2>1. CASE i = h % Window
    <3>1. /\ h + 1 \in 1 .. h + 1 /\ h + 1 + Window > h + 1 /\ i = ((h + 1) - 1) % Window
          /\ recus'[i] = (h + 1) % SeqSpace
      BY <1>3, <2>1 DEF pid
    <3> QED
      BY <3>1
  <2>2. CASE i # h % Window
    <3>1. recus'[i] = recus[i]
      BY <1>3, <2>2
    <3>2. PICK k \in 1 .. h : /\ k + Window > h /\ i = (k - 1) % Window
                              /\ recus[i] = k % SeqSpace
      BY <1>6, <3>1 DEF Ring
    <3>3. k + Window # h + 1
      <4> SUFFICES ASSUME k + Window = h + 1 PROVE FALSE
        OBVIOUS
      <4>1. k - 1 \in Nat /\ h = (k - 1) + Window
        OBVIOUS
      <4>2. h % Window = (k - 1) % Window
        BY <4>1, TurnLater
      <4> QED
        BY <2>2, <3>2, <4>2
    <3>4. k \in 1 .. h + 1 /\ k + Window > h + 1
      BY <3>2, <3>3
    <3> QED
      BY <3>1, <3>2, <3>4
  <2> QED
    BY <2>1, <2>2
<1> QED
  BY <1>4, <1>5, <1>6 DEF Ring

-----------------------------------------------------------------------------
(* What is under way *)

\* A place in the stream of packets: `high' reliable packets of session `ses' are
\* past, and fragment `no' of request `msg' is the next one to come.
Positions == [ses : Nat, high : Nat, msg : Nat \ {0}, no : Nat \ {0}]
At(ses, high, msg, no) == [ses |-> ses, high |-> high, msg |-> msg, no |-> no]

\* The packet carries the fragment that comes next; m: the sizes of the requests.
IsNext(m, s, p) ==
  /\ s.msg \in 1 .. Len(m) /\ s.no <= m[s.msg]
  /\ p.payload = [msg |-> s.msg, no |-> s.no]
  /\ p.fragmentID = 0 <=> s.no = m[s.msg]

\* The place behind that fragment.
Onward(m, s, high) ==
  IF s.no = m[s.msg] THEN At(s.ses, high, s.msg + 1, 1) ELSE At(s.ses, high, s.msg, s.no + 1)

\* A packet that may come at place s, and the place t behind it: a new session
\* between two requests, a fragment without or with a number, or a repetition.
Takes(m, s, p, t) ==
  \/ p.type = "SYN" /\ s.no = 1 /\ p.ses > s.ses /\ t = At(p.ses, 0, s.msg, 1)
  \/ /\ p.type = "DATA" /\ p.needAck = FALSE
     /\ IsNext(m, s, p) /\ t = Onward(m, s, s.high)
  \/ /\ p.type = "DATA" /\ p.needAck = TRUE /\ p.ses = s.ses
     /\ p.pid = (s.high + 1) % SeqSpace
     /\ IsNext(m, s, p) /\ t = Onward(m, s, s.high + 1)
  \/ /\ p.type = "DATA" /\ p.needAck = TRUE /\ p.ses = s.ses
     /\ Known(s.high, p.pid) /\ t = s

\* Fragment x is past at place s.
Before(x, s) == x.msg < s.msg \/ (x.msg = s.msg /\ x.no < s.no)

ConsoleAt ==
  IF BetweenMessages THEN At(session, Len(log), Len(msgs) + 1, 1)
                     ELSE At(session, Len(log), Len(msgs), fragsOut + 1)

ConsoleOK ==
  /\ \A k \in 1 .. Len(log) :
       /\ log[k].type = "DATA" /\ log[k].needAck = TRUE /\ log[k].ses = session
       /\ log[k].pid = k % SeqSpace /\ log[k].payload.no >= 1
  /\ \A m \in 1 .. Len(msgs) : msgs[m] >= 1
  /\ IF msgs = <<>> THEN fragsOut = 0 ELSE fragsOut \in 1 .. LastSize
  /\ Len(wire) <= MaxWire

\* The server has the beginning of the request that comes next, and those before.
ServerOK ==
  /\ fragBuf = Request(Len(dispatched) + 1, Len(fragBuf))
  /\ ExactlyOnceInOrder

\* What is known of the session with packets lg at place s, with the packets of
\* wire w from i on still to come: the numbered packets that are past were
\* received, and the others are under way.
Current(w, lg, s, i) ==
  /\ s.high <= Len(lg) /\ Len(lg) <= s.high + (Len(w) + 1 - i)
  /\ \A k \in 1 .. s.high : Before(lg[k].payload, s)
  /\ \A k \in s.high + 1 .. Len(lg) : \E l \in i .. Len(w) : w[l] = lg[k]

\* The packets of wire w lead through the places f.
Leads(m, w, f) ==
  /\ f \in [1 .. Len(w) + 1 -> Positions]
  /\ \A i \in 1 .. Len(w) : Takes(m, f[i], w[i], f[i + 1])

\* Each place is in the session the console is in, or a SYN is still to come.
Within(w, lg, ses, f) ==
  \A i \in 1 .. Len(w) + 1 :
    /\ f[i].ses <= ses
    /\ f[i].ses = ses \/ \E l \in i .. Len(w) : w[l].type = "SYN"
    /\ f[i].ses = ses => Current(w, lg, f[i], i)

\* The wire leads from the place of the server, f[1], to that of the console.
Path(f) ==
  /\ Leads(msgs, wire, f) /\ Within(wire, log, session, f)
  /\ f[1].msg = Len(dispatched) + 1 /\ f[1].no = Len(fragBuf) + 1
  /\ Ring(f[1].high)
  /\ f[Len(wire) + 1] = ConsoleAt

\* What the console holds acknowledged, or may take an ack for, is past at s.
AcksSound(s) ==
  /\ \A k \in acked : k \in 1 .. Len(log) /\ s.ses = session /\ k <= s.high
  /\ \A a \in acks, k \in 1 .. Len(log) :
       a.ses = session /\ a.pid = k % SeqSpace /\ k + MaxLag > Len(log)
         => s.ses = session /\ k <= s.high

\* The ids wrap too late for an ack under way to be that of another packet.
IdsLast == MaxWire + MaxLag <= SeqSpace + 1

Inv ==
  /\ TypeOK /\ ConsoleOK /\ ServerOK
  /\ \E f : Path(f) /\ (IdsLast => AcksSound(f[1]))

(* Nothing that is past comes again. *)
LEMMA TakesOnward ==
  ASSUME NEW m \in Seq(Nat), NEW s \in Positions, NEW p, NEW t, Takes(m, s, p, t)
  PROVE  /\ t \in Positions \/ p.type = "SYN"
         /\ p.type = "DATA" => t.ses = s.ses
         /\ \A x \in Fragments : Before(x, s) => Before(x, t)
         /\ t.high = s.high + 1 => Before(p.payload, t)
<1>1. CASE p.type = "SYN" /\ s.no = 1 /\ t = At(p.ses, 0, s.msg, 1)
  BY <1>1 DEF Positions, At, Before
<1>2. ASSUME NEW h \in Nat, IsNext(m, s, p), t = Onward(m, s, h)
      PROVE  /\ t \in Positions /\ t.ses = s.ses
             /\ \A x \in Fragments : Before(x, s) => Before(x, t)
             /\ Before(p.payload, t)
  <2>1. CASE s.no = m[s.msg]
    BY <1>2, <2>1 DEF IsNext, Onward, Positions, At, Before, Fragments
  <2>2. CASE s.no # m[s.msg]
    BY <1>2, <2>2 DEF IsNext, Onward, Positions, At, Before, Fragments
  <2> QED
    BY <2>1, <2>2
<1>3. CASE t = s
  BY <1>3 DEF Positions
<1> QED
  BY <1>1, <1>2, <1>3 DEF Takes, Positions

(* More requests do not change what may come. *)
LEMMA TakesStill ==
  ASSUME NEW m \in Seq(Nat), NEW n \in Nat, NEW s \in Positions, NEW p, NEW t,
         Takes(m, s, p, t)
  PROVE  Takes(Append(m, n), s, p, t)
<1> DEFINE m2 == Append(m, n)
<1>1. s.msg \in 1 .. Len(m) => s.msg \in 1 .. Len(m2) /\ m2[s.msg] = m[s.msg]
  OBVIOUS
<1> HIDE DEF m2
<1>2. IsNext(m, s, p) => IsNext(m2, s, p) /\ \A h : Onward(m2, s, h) = Onward(m, s, h)
  BY <1>1 DEF IsNext, Onward
<1>3. Takes(m2, s, p, t)
  BY <1>2 DEF Takes
<1> QED
  BY <1>3 DEF m2

\* A path with one more place at the end.
Longer(f, n, e) == [i \in 1 .. n + 1 |-> IF i = n + 1 THEN e ELSE f[i]]

Extension(w, p, f, e, v, g) ==
  /\ Len(v) = Len(w) + 1 /\ Len(w) \in Nat
  /\ v[Len(w) + 1] = p /\ \A i \in 1 .. Len(w) : v[i] = w[i]
  /\ g \in [1 .. Len(v) + 1 -> Positions] /\ g[Len(v) + 1] = e /\ g[1] = f[1]
  /\ \A i \in 1 .. Len(w) + 1 : g[i] = f[i] /\ f[i] \in Positions

(* A packet added at the end of the wire adds its place at the end. *)
LEMMA LongerPlaces ==
  ASSUME NEW w \in Seq(Packets), NEW p \in Packets, NEW f \in [1 .. Len(w) + 1 -> Positions],
         NEW e \in Positions
  PROVE  Extension(w, p, f, e, Append(w, p), Longer(f, Len(w) + 1, e))
  BY DEF Longer, Extension

(* The console puts a packet on the wire that may come where it is. *)
LEMMA LeadsFurther ==
  ASSUME NEW m \in Seq(Nat), NEW m2, m2 = m \/ \E n \in Nat : m2 = Append(m, n),
         NEW w \in Seq(Packets), NEW p \in Packets, NEW f, Leads(m, w, f),
         NEW e \in Positions, Takes(m2, f[Len(w) + 1], p, e)
  PROVE  Leads(m2, Append(w, p), Longer(f, Len(w) + 1, e))
<1> DEFINE v == Append(w, p)
           g == Longer(f, Len(w) + 1, e)
<1>1. f \in [1 .. Len(w) + 1 -> Positions]
  BY DEF Leads
<1>2. /\ Len(v) = Len(w) + 1 /\ Len(w) \in Nat
      /\ v[Len(w) + 1] = p /\ \A i \in 1 .. Len(w) : v[i] = w[i]
      /\ g \in [1 .. Len(v) + 1 -> Positions] /\ g[Len(v) + 1] = e
      /\ \A i \in 1 .. Len(w) + 1 : g[i] = f[i]
  <2>1. Extension(w, p, f, e, v, g)
    BY <1>1, LongerPlaces
  <2> HIDE DEF v, g
  <2> QED
    BY <2>1 DEF Extension
<1> HIDE DEF v, g
<1>3. ASSUME NEW i \in 1 .. Len(v)
      PROVE  Takes(m2, g[i], v[i], g[i + 1])
  <2>1. CASE i = Len(v)
    BY <1>2, <2>1
  <2>2. CASE i # Len(v)
    <3>1. i \in 1 .. Len(w) /\ i + 1 \in 1 .. Len(w) + 1 /\ i \in 1 .. Len(w) + 1
      BY <1>2, <2>2
    <3>2. Takes(m, f[i], w[i], f[i + 1]) /\ f[i] \in Positions
      BY <1>1, <3>1 DEF Leads
    <3>3. Takes(m2, f[i], w[i], f[i + 1])
      BY <3>2, TakesStill
    <3> QED
      BY <1>2, <3>1, <3>3
  <2> QED
    BY <2>1, <2>2
<1>4. Leads(m2, v, g)
  BY <1>2, <1>3 DEF Leads
<1> QED
  BY <1>4 DEF v, g

(* One packet more on the wire, at most one more in the log. *)
LEMMA OneMore ==
  ASSUME NEW n \in Nat, NEW i \in 1 .. n + 1
  PROVE  /\ n + 1 \in i .. n + 1
         /\ \A h, l, l2 \in Nat :
              h <= l /\ l <= h + (n + 1 - i) /\ l <= l2 /\ l2 <= l + 1
                => h <= l2 /\ l2 <= h + ((n + 1) + 1 - i)
  OBVIOUS

(* ... within the session: a repetition, a packet without a number (lg2 = lg) *)
(* or a new one.                                                              *)
LEMMA WithinFurther ==
  ASSUME NEW ses \in Nat, NEW lg \in Seq(Packets), NEW lg2 \in Seq(Packets),
         NEW w \in Seq(Packets), NEW p \in Packets,
         NEW f \in [1 .. Len(w) + 1 -> Positions], Within(w, lg, ses, f),
         NEW e \in Positions, lg2 = lg \/ lg2 = Append(lg, p),
         e.ses = ses, e.high = Len(lg2), \A k \in 1 .. Len(lg2) : Before(lg2[k].payload, e)
  PROVE  Within(Append(w, p), lg2, ses, Longer(f, Len(w) + 1, e))
<1> DEFINE v == Append(w, p)
           g == Longer(f, Len(w) + 1, e)
<1>1. /\ Len(v) = Len(w) + 1 /\ Len(w) \in Nat
      /\ v[Len(w) + 1] = p /\ \A i \in 1 .. Len(w) : v[i] = w[i]
      /\ g[Len(v) + 1] = e
      /\ \A i \in 1 .. Len(w) + 1 : g[i] = f[i] /\ f[i] \in Positions
  <2>1. Extension(w, p, f, e, v, g)
    BY LongerPlaces
  <2> HIDE DEF v, g
  <2> QED
    BY <2>1 DEF Extension
<1>2. /\ Len(lg) \in Nat /\ Len(lg2) \in Nat /\ Len(lg) <= Len(lg2) /\ Len(lg2) <= Len(lg) + 1
      /\ \A k \in 1 .. Len(lg) : lg2[k] = lg[k]
      /\ Len(lg2) = Len(lg) + 1 => lg2[Len(lg) + 1] = p
  <2>1. CASE lg2 = lg
    BY <2>1
  <2>2. CASE lg2 = Append(lg, p)
    BY <2>2
  <2> QED
    BY <2>1, <2>2
<1> HIDE DEF v, g
<1>3. ASSUME NEW i \in 1 .. Len(v) + 1
      PROVE  /\ g[i].ses <= ses
             /\ g[i].ses = ses \/ \E l \in i .. Len(v) : v[l].type = "SYN"
             /\ g[i].ses = ses => Current(v, lg2, g[i], i)
  <2>1. CASE i = Len(v) + 1
    <3>1. Current(v, lg2, e, i)
      <4>1. Len(v) + 1 - i = 0
        BY <1>1, <2>1
      <4> QED
        BY <1>2, <4>1 DEF Current
    <3> QED
      BY <1>1, <2>1, <3>1
  <2>2. CASE i # Len(v) + 1
    <3>o. i \in 1 .. Len(w) + 1
      BY <1>1, <2>2
    <3>p. i \in 1 .. Len(w) + 1 /\ g[i] = f[i] /\ f[i] \in Positions
      BY <1>1, <3>o, Zenon
    <3>1. i \in 1 .. Len(w) + 1 /\ g[i] = f[i] /\ f[i].high \in Nat /\ f[i].ses \in Nat
      BY <3>p DEF Positions
    <3>2. /\ f[i].ses <= ses
          /\ f[i].ses = ses \/ \E l \in i .. Len(w) : w[l].type = "SYN"
          /\ f[i].ses = ses => Current(w, lg, f[i], i)
      BY <3>1 DEF Within
    <3>3. ASSUME NEW l \in i .. Len(w)
          PROVE  l \in 1 .. Len(w) /\ l \in i .. Len(v) /\ v[l] = w[l]
      BY <1>1, <3>1
    <3>4. ASSUME Current(w, lg, f[i], i)
          PROVE  Current(v, lg2, f[i], i)
      <4>1. f[i].high <= Len(lg2) /\ Len(lg2) <= f[i].high + (Len(v) + 1 - i)
        <5>1. f[i].high <= Len(lg) /\ Len(lg) <= f[i].high + (Len(w) + 1 - i)
          BY <3>4 DEF Current
        <5> QED
          <6>1. /\ Len(w) \in Nat /\ Len(v) = Len(w) + 1 /\ Len(lg) \in Nat /\ Len(lg2) \in Nat
                /\ Len(lg) <= Len(lg2) /\ Len(lg2) <= Len(lg) + 1 /\ i \in Nat /\ f[i].high \in Nat
            BY <1>1, <1>2, <3>1
          <6>2. /\ f[i].high <= Len(lg2)
                /\ Len(lg2) <= f[i].high + ((Len(w) + 1) + 1 - i)
            BY <3>1, <5>1, <6>1, OneMore, Zenon
          <6> QED
            BY <6>1, <6>2, Zenon
      <4>2. \A k \in 1 .. f[i].high : Before(lg2[k].payload, f[i])
        <5> SUFFICES ASSUME NEW k \in 1 .. f[i].high
                     PROVE  Before(lg2[k].payload, f[i])
          OBVIOUS
        <5>1. k \in 1 .. Len(lg)
          BY <1>2, <3>1, <3>4 DEF Current
        <5> QED
          BY <1>2, <3>4, <5>1 DEF Current
      <4>3. ASSUME NEW k \in f[i].high + 1 .. Len(lg2)
            PROVE  \E l \in i .. Len(v) : v[l] = lg2[k]
        <5>1. CASE k = Len(lg) + 1
          <6>1. Len(w) + 1 \in i .. Len(v)
            BY <1>1, <3>1, OneMore
          <6>2. lg2[k] = p
            BY <1>2, <5>1
          <6> QED
            BY <1>1, <6>1, <6>2
        <5>2. CASE k # Len(lg) + 1
          <6>1. k \in f[i].high + 1 .. Len(lg) /\ k \in 1 .. Len(lg)
            BY <1>2, <3>1, <5>2
          <6>2. PICK l \in i .. Len(w) : w[l] = lg[k]
            BY <3>4, <6>1 DEF Current
          <6> QED
            BY <1>2, <3>3, <6>1, <6>2
        <5> QED
          BY <5>1, <5>2
      <4> QED
        BY <4>1, <4>2, <4>3 DEF Current
    <3> QED
      BY <3>1, <3>2, <3>3, <3>4
  <2> QED
    BY <2>1, <2>2
<1>4. Within(v, lg2, ses, g)
  BY <1>3 DEF Within
<1> QED
  BY <1>4 DEF v, g

(* ... or it starts a new session, with no packets yet. *)
LEMMA WithinAnew ==
  ASSUME NEW ses \in Nat, NEW lg, NEW w \in Seq(Packets), NEW p \in Packets, p.type = "SYN",
         NEW f \in [1 .. Len(w) + 1 -> Positions], Within(w, lg, ses, f),
         NEW e \in Positions, e.ses = ses + 1, e.high = 0
  PROVE  Within(Append(w, p), <<>>, ses + 1, Longer(f, Len(w) + 1, e))
<1> DEFINE v == Append(w, p)
           g == Longer(f, Len(w) + 1, e)
<1>1. /\ Len(v) = Len(w) + 1 /\ Len(w) \in Nat /\ v[Len(w) + 1] = p
      /\ g[Len(v) + 1] = e
      /\ \A i \in 1 .. Len(w) + 1 : g[i] = f[i] /\ f[i] \in Positions
  <2>1. Extension(w, p, f, e, v, g)
    BY LongerPlaces
  <2> HIDE DEF v, g
  <2> QED
    BY <2>1 DEF Extension
<1> HIDE DEF v, g
<1>2. ASSUME NEW i \in 1 .. Len(v) + 1
      PROVE  /\ g[i].ses <= ses + 1
             /\ g[i].ses = ses + 1 \/ \E l \in i .. Len(v) : v[l].type = "SYN"
             /\ g[i].ses = ses + 1 => Current(v, <<>>, g[i], i)
  <2>1. CASE i = Len(v) + 1
    BY <1>1, <2>1 DEF Current
  <2>2. CASE i # Len(v) + 1
    <3>p. i \in 1 .. Len(w) + 1 /\ g[i] = f[i] /\ f[i] \in Positions
      BY <1>1, <2>2
    <3>1. i \in 1 .. Len(w) + 1 /\ g[i] = f[i] /\ f[i].ses \in Nat
      BY <3>p DEF Positions
    <3>2. f[i].ses <= ses
      BY <3>1 DEF Within
    <3>3. Len(w) + 1 \in i .. Len(v)
      BY <1>1, <3>1
    <3> QED
      BY <1>1, <3>1, <3>2, <3>3
  <2> QED
    BY <2>1, <2>2
<1>3. Within(v, <<>>, ses + 1, g)
  BY <1>2 DEF Within
<1> QED
  BY <1>3 DEF v, g

\* A path without its first place.
Shorter(f, n) == [i \in 1 .. n |-> f[i + 1]]

\* g leads over wire v from the second place of f to its last one.
Rest(m, v, lg, ses, f, n, g) ==
  /\ Leads(m, v, g) /\ Within(v, lg, ses, g)
  /\ g[1] = f[2] /\ g[Len(v) + 1] = f[n + 1]

(* The server takes the first packet off the wire. *)
LEMMA PathShortens ==
  ASSUME NEW m, NEW lg, NEW ses, NEW w \in Seq(Packets), w # <<>>, NEW f,
         Leads(m, w, f), Within(w, lg, ses, f)
  PROVE  Rest(m, Tail(w), lg, ses, f, Len(w), Shorter(f, Len(w)))
<1> DEFINE v == Tail(w)
           g == Shorter(f, Len(w))
<1>1. /\ Len(w) \in Nat \ {0} /\ Len(v) = Len(w) - 1
      /\ \A i \in 1 .. Len(v) : v[i] = w[i + 1]
  OBVIOUS
<1>2. f \in [1 .. Len(w) + 1 -> Positions]
  BY DEF Leads
<1>3. g \in [1 .. Len(w) -> Positions] /\ \A i \in 1 .. Len(w) : g[i] = f[i + 1]
  BY <1>1, <1>2 DEF Shorter
<1> HIDE DEF v, g
<1>4. Leads(m, v, g)
  <2>1. ASSUME NEW i \in 1 .. Len(v)
        PROVE  Takes(m, g[i], v[i], g[i + 1])
    <3>1. /\ i + 1 \in 1 .. Len(w) /\ i \in 1 .. Len(w)
      BY <1>1
    <3>2. Takes(m, f[i + 1], w[i + 1], f[i + 1 + 1])
      BY <3>1 DEF Leads
    <3> QED
      BY <1>1, <1>3, <3>1, <3>2
  <2> QED
    BY <1>1, <1>3, <2>1 DEF Leads
<1>5. Within(v, lg, ses, g)
  <2> SUFFICES ASSUME NEW i \in 1 .. Len(v) + 1
               PROVE  /\ g[i].ses <= ses
                      /\ g[i].ses = ses \/ \E l \in i .. Len(v) : v[l].type = "SYN"
                      /\ g[i].ses = ses => Current(v, lg, g[i], i)
    BY DEF Within
  <2>1. i + 1 \in 1 .. Len(w) + 1 /\ i \in 1 .. Len(w) /\ g[i] = f[i + 1]
    BY <1>1, <1>3
  <2>2. /\ f[i + 1].ses <= ses
        /\ f[i + 1].ses = ses \/ \E l \in i + 1 .. Len(w) : w[l].type = "SYN"
        /\ f[i + 1].ses = ses => Current(w, lg, f[i + 1], i + 1)
    BY <2>1 DEF Within
  <2>3. ASSUME NEW l \in i + 1 .. Len(w)
        PROVE  l - 1 \in i .. Len(v) /\ v[l - 1] = w[l]
    <3>1. l - 1 \in 1 .. Len(v) /\ (l - 1) + 1 = l
      BY <1>1
    <3> QED
      BY <1>1, <3>1
  <2>4. Len(w) + 1 - (i + 1) = Len(v) + 1 - i
    BY <1>1
  <2>5. Current(w, lg, g[i], i + 1) => Current(v, lg, g[i], i)
    BY <2>3, <2>4 DEF Current
  <2> QED
    BY <2>1, <2>2, <2>3, <2>5
<1>6. g[1] = f[2] /\ g[Len(v) + 1] = f[Len(w) + 1]
  BY <1>1, <1>3
<1> QED
  BY <1>4, <1>5, <1>6 DEF Rest, v, g

-----------------------------------------------------------------------------
(* The console's steps *)

(* The place of the console is one, and everything it numbered is past there. *)
LEMMA ConsolePlace ==
  ASSUME TypeOK, ConsoleOK
  PROVE  /\ ConsoleAt \in Positions /\ ConsoleAt.ses = session /\ ConsoleAt.high = Len(log)
         /\ BetweenMessages => ConsoleAt = At(session, Len(log), Len(msgs) + 1, 1)
         /\ ~BetweenMessages => /\ ConsoleAt = At(session, Len(log), Len(msgs), fragsOut + 1)
                                /\ msgs # <<>> /\ fragsOut + 1 <= LastSize
         /\ msgs # <<>> => LastSize = msgs[Len(msgs)] /\ Len(msgs) \in Nat \ {0}
<1>1. /\ Len(msgs) \in Nat /\ Len(log) \in Nat /\ session \in Nat /\ fragsOut \in Nat
      /\ msgs # <<>> => Len(msgs) # 0
  BY DEF TypeOK
<1>2. CASE BetweenMessages
  BY <1>1, <1>2 DEF ConsoleAt, At, Positions, LastSize
<1>3. CASE ~BetweenMessages
  <2>1. msgs # <<>> /\ fragsOut \in 1 .. LastSize /\ fragsOut # LastSize
    BY <1>3 DEF ConsoleOK, BetweenMessages, LastSize
  <2>2. LastSize \in Nat
    BY DEF TypeOK, LastSize
  <2> QED
    BY <1>1, <1>3, <2>1, <2>2 DEF ConsoleAt, At, Positions, LastSize
<1> QED
  BY <1>2, <1>3

(* A packet the console sends at its place leads to the place it is at next. *)
LEMMA Sends ==
  ASSUME TypeOK, NEW f, Path(f), NEW p \in Packets, wire' = Append(wire, p),
         msgs' = msgs \/ \E n \in Nat : msgs' = Append(msgs, n),
         log' \in Seq(Packets), log' = log \/ log' = Append(log, p),
         session' = session, UNCHANGED serverVars,
         ConsoleAt' \in Positions, (ConsoleAt').ses = session, (ConsoleAt').high = Len(log'),
         \A k \in 1 .. Len(log') : Before(log'[k].payload, ConsoleAt'),
         Takes(msgs', ConsoleAt, p, ConsoleAt')
  PROVE  \E g : Path(g)' /\ g[1] = f[1]
<1> PICK e : e = ConsoleAt'
  OBVIOUS
<1> PICK g : g = Longer(f, Len(wire) + 1, e)
  OBVIOUS
<1>1. /\ msgs \in Seq(Nat) /\ wire \in Seq(Packets) /\ log \in Seq(Packets) /\ session \in Nat
      /\ Len(wire) \in Nat
  BY DEF TypeOK
<1>2. /\ Leads(msgs, wire, f) /\ Within(wire, log, session, f)
      /\ f \in [1 .. Len(wire) + 1 -> Positions] /\ f[Len(wire) + 1] = ConsoleAt
  BY DEF Path, Leads
<1>3. /\ e \in Positions /\ e.ses = session /\ e.high = Len(log')
      /\ \A k \in 1 .. Len(log') : Before(log'[k].payload, e)
      /\ Takes(msgs', f[Len(wire) + 1], p, e)
  BY <1>2
<1>4. Leads(msgs', wire', g)
  BY <1>1, <1>2, <1>3, LeadsFurther
<1>5. Within(wire', log', session', g)
  BY <1>1, <1>2, <1>3, WithinFurther
<1>6. Extension(wire, p, f, e, Append(wire, p), g)
  BY <1>1, <1>2, <1>3, LongerPlaces
<1>7. g[1] = f[1] /\ g[Len(wire') + 1] = e
  BY <1>6 DEF Extension
<1>8. Path(g)'
  <2>1. /\ f[1].msg = Len(dispatched) + 1 /\ f[1].no = Len(fragBuf) + 1 /\ Ring(f[1].high)
    BY DEF Path
  <2>2. Ring(f[1].high)' /\ dispatched' = dispatched /\ fragBuf' = fragBuf
    BY <2>1 DEF Ring, serverVars
  <2> QED
    BY <1>4, <1>5, <1>7, <2>1, <2>2 DEF Path
<1> QED
  BY <1>7, <1>8

(* The fragment the console sends is the one that comes next. *)
LEMMA FragmentNext ==
  ASSUME TypeOK, TypeOK', msgs' # <<>>, NEW no \in Nat \ {0}, no <= LastSize', fragsOut' = no,
         session' = session, NEW h \in Nat, NEW k \in Nat, NEW r \in BOOLEAN,
         NEW p, p = DataPacket(Len(msgs'), no, LastSize', k, r),
         NEW s, s = At(session, h, Len(msgs'), no)
  PROVE  /\ IsNext(msgs', s, p) /\ ConsoleAt' = Onward(msgs', s, Len(log'))
         /\ Before(p.payload, ConsoleAt')
<1>1. Len(msgs') \in Nat \ {0} /\ LastSize' = (msgs')[Len(msgs')]
  BY DEF TypeOK, LastSize
<1>2. /\ p.payload = [msg |-> Len(msgs'), no |-> no]
      /\ p.fragmentID = IF no = LastSize' THEN 0 ELSE no
      /\ s.msg = Len(msgs') /\ s.no = no /\ s.ses = session
  BY DEF DataPacket, At
<1>3. IsNext(msgs', s, p)
  BY <1>1, <1>2 DEF IsNext
<1>4. ConsoleAt' = Onward(msgs', s, Len(log'))
  BY <1>1, <1>2 DEF ConsoleAt, Onward, BetweenMessages, At
<1>5. Before(p.payload, ConsoleAt')
  <2>1. p.payload.msg = s.msg /\ p.payload.no = s.no /\ s.msg \in Nat /\ s.no \in Nat
    BY <1>1, <1>2
  <2>2. Before(p.payload, Onward(msgs', s, Len(log')))
    <3>1. CASE s.no = (msgs')[s.msg]
      BY <2>1, <3>1 DEF Onward, At, Before
    <3>2. CASE s.no # (msgs')[s.msg]
      BY <2>1, <3>2 DEF Onward, At, Before
    <3> QED
      BY <3>1, <3>2
  <2> QED
    BY <1>4, <2>2
<1> QED
  BY <1>3, <1>4, <1>5

(* A packet that was never numbered, or has the next number, is sent on. *)
LEMMA FragmentSent ==
  ASSUME TypeOK, TypeOK', ConsoleOK, NEW f, Path(f),
         NEW no \in Nat \ {0}, NEW r \in BOOLEAN, NEW p,
         msgs' = msgs \/ \E n \in Nat \ {0} : msgs' = Append(msgs, n),
         msgs' # <<>>, no <= LastSize', fragsOut' = no,
         ConsoleAt = At(session, Len(log), Len(msgs'), no),
         p = DataPacket(Len(msgs'), no, LastSize', IF r THEN Len(log) + 1 ELSE 0, r),
         Len(wire) < MaxWire, wire' = Append(wire, p), log' = IF r THEN Append(log, p) ELSE log,
         session' = session, UNCHANGED serverVars
  PROVE  ConsoleOK' /\ \E g : Path(g)' /\ g[1] = f[1]
<1> USE ReceiveAssumption
<1> PICK k : k = IF r THEN Len(log) + 1 ELSE 0
  OBVIOUS
<1>1. /\ Len(log) \in Nat /\ Len(log') \in Nat /\ Len(msgs') \in Nat \ {0} /\ k \in Nat
      /\ LastSize' \in Nat /\ session \in Nat /\ Len(wire) \in Nat
      /\ Len(wire') = Len(wire) + 1 /\ log' \in Seq(Packets)
      /\ log \in Seq(Packets) /\ msgs \in Seq(Nat)
  <2>1. /\ log \in Seq(Packets) /\ msgs \in Seq(Nat) /\ session \in Nat /\ wire \in Seq(Packets)
        /\ log' \in Seq(Packets) /\ msgs' \in Seq(Nat)
    BY DEF TypeOK
  <2>2. Len(msgs') \in Nat \ {0} /\ LastSize' \in Nat
    BY <2>1 DEF LastSize
  <2>3. Len(wire') = Len(wire) + 1 /\ Len(wire) \in Nat
    BY <2>1
  <2>4. Len(log) \in Nat /\ Len(log') \in Nat /\ k \in Nat
    BY <2>1
  <2> QED
    BY <2>1, <2>2, <2>3, <2>4
<1>2. p \in Packets /\ p = DataPacket(Len(msgs'), no, LastSize', k, r)
  <2>1. p = DataPacket(Len(msgs'), no, LastSize', k, r)
    OBVIOUS
  <2> QED
    BY <1>1, <2>1, DataPacketType
<1>3. /\ p.type = "DATA" /\ p.needAck = r /\ p.ses = session /\ p.pid = k % SeqSpace
      /\ p.payload = [msg |-> Len(msgs'), no |-> no]
  BY <1>2 DEF DataPacket
<1>4. /\ IsNext(msgs', ConsoleAt, p) /\ ConsoleAt' = Onward(msgs', ConsoleAt, Len(log'))
      /\ Before(p.payload, ConsoleAt')
  <2>1. ConsoleAt = At(session, Len(log), Len(msgs'), no)
    OBVIOUS
  <2> QED
    BY <1>1, <1>2, <2>1, FragmentNext
<1>5. ConsoleAt.ses = session /\ ConsoleAt.high = Len(log) /\ ConsoleAt \in Positions
  BY ConsolePlace
<1>6. Takes(msgs', ConsoleAt, p, ConsoleAt')
  <2>1. CASE r = TRUE
    <3>1. Len(log') = Len(log) + 1
      BY <1>1, <2>1
    <3> QED
      BY <1>3, <1>4, <1>5, <2>1, <3>1 DEF Takes
  <2>2. CASE r = FALSE
    BY <1>3, <1>4, <1>5, <2>2 DEF Takes
  <2> QED
    BY <2>1, <2>2
<1>7. ConsoleOK'
  <2>1. ASSUME NEW i \in 1 .. Len(log')
        PROVE  /\ log'[i].type = "DATA" /\ log'[i].needAck = TRUE /\ log'[i].ses = session'
               /\ log'[i].pid = i % SeqSpace /\ log'[i].payload.no >= 1
    <3>1. CASE i \in 1 .. Len(log)
      <4>1. log'[i] = log[i]
        BY <1>1, <3>1
      <4> QED
        BY <3>1, <4>1 DEF ConsoleOK
    <3>2. CASE i \notin 1 .. Len(log)
      <4>1. r = TRUE /\ i = k /\ log'[i] = p
        BY <1>1, <3>2
      <4> QED
        <5>1. p.payload.no = no /\ no >= 1
          BY <1>3
        <5> QED
          BY <1>3, <4>1, <5>1
    <3> QED
      BY <3>1, <3>2
  <2>2. \A m \in 1 .. Len(msgs') : msgs'[m] >= 1
    <3>1. CASE msgs' = msgs
      BY <3>1 DEF ConsoleOK
    <3>2. CASE \E n \in Nat \ {0} : msgs' = Append(msgs, n)
      BY <1>1, <3>2 DEF ConsoleOK
    <3> QED
      BY <3>1, <3>2
  <2>3. Len(wire') <= MaxWire
    BY <1>1
  <2> QED
    <3>1. IF msgs' = <<>> THEN fragsOut' = 0 ELSE fragsOut' \in 1 .. LastSize'
      BY <1>1
    <3>2. \A i \in 1 .. Len(log') :
            /\ log'[i].type = "DATA" /\ log'[i].needAck = TRUE /\ log'[i].ses = session'
            /\ log'[i].pid = i % SeqSpace /\ log'[i].payload.no >= 1
      BY <2>1
    <3> QED
      BY <2>2, <2>3, <3>1, <3>2, Zenon DEF ConsoleOK
<1>8. /\ ConsoleAt' \in Positions /\ (ConsoleAt').ses = session /\ (ConsoleAt').high = Len(log')
      /\ session' = session
  <2>1. ConsoleAt.msg \in Nat \ {0} /\ ConsoleAt.no \in Nat \ {0} /\ session \in Nat
    BY <1>1, <1>5 DEF Positions
  <2>2. Onward(msgs', ConsoleAt, Len(log')) \in Positions
    BY <1>1, <1>5, <2>1 DEF Onward, At, Positions
  <2>3. /\ Onward(msgs', ConsoleAt, Len(log')).ses = ConsoleAt.ses
        /\ Onward(msgs', ConsoleAt, Len(log')).high = Len(log')
    BY DEF Onward, At
  <2> QED
    BY <1>4, <1>5, <2>2, <2>3
<1>9. ASSUME NEW i \in 1 .. Len(log')
      PROVE  Before(log'[i].payload, ConsoleAt')
  <2>1. CASE i \in 1 .. Len(log)
    <3>1. log'[i] = log[i] /\ log[i] \in Packets
      BY <1>1, <2>1
    <3>2. Before(log[i].payload, ConsoleAt)
      <4>1. /\ f[Len(wire) + 1] = ConsoleAt /\ Within(wire, log, session, f)
            /\ Len(wire) + 1 \in 1 .. Len(wire) + 1
        BY <1>1 DEF Path
      <4>2. Current(wire, log, ConsoleAt, Len(wire) + 1)
        BY <1>5, <4>1 DEF Within
      <4> QED
        BY <1>5, <2>1, <4>2 DEF Current
    <3>3. log[i].payload \in Fragments
      BY <3>1 DEF Packets
    <3>4. \A x \in Fragments : Before(x, ConsoleAt) => Before(x, ConsoleAt')
      <4>1. msgs' \in Seq(Nat)
        BY DEF TypeOK
      <4> QED
        BY <1>5, <1>6, <4>1, TakesOnward
    <3> QED
      BY <3>1, <3>2, <3>3, <3>4
  <2>2. CASE i \notin 1 .. Len(log)
    <3>1. log'[i] = p
      BY <1>1, <2>2
    <3> QED
      BY <1>4, <3>1
  <2> QED
    BY <2>1, <2>2
<1>10. \E g : Path(g)' /\ g[1] = f[1]
  <2>1. msgs' = msgs \/ \E n \in Nat : msgs' = Append(msgs, n)
    OBVIOUS
  <2>2. log' = log \/ log' = Append(log, p)
    OBVIOUS
  <2> QED
    BY <1>1, <1>2, <1>6, <1>8, <1>9, <2>1, <2>2, Sends
<1> QED
  BY <1>7, <1>10

(* The console begins or continues a request. *)
LEMMA RequestSteps ==
  ASSUME TypeOK, TypeOK', ConsoleOK, NEW f, Path(f),
         IssueRequest \/ ContinueRequest \/ IssueUnreliable
  PROVE  ConsoleOK' /\ \E g : Path(g)' /\ g[1] = f[1]
<1> USE ReceiveAssumption
<1>1. /\ msgs \in Seq(Nat) /\ fragsOut \in Nat /\ Len(msgs) \in Nat
  BY DEF TypeOK
<1>2. ASSUME NEW n \in Nat \ {0}, msgs' = Append(msgs, n)
      PROVE  /\ msgs' # <<>> /\ Len(msgs') = Len(msgs) + 1 /\ LastSize' = n
             /\ \E i \in Nat \ {0} : msgs' = Append(msgs, i)
  BY <1>1, <1>2 DEF LastSize
<1>3. CASE IssueRequest
  <2>1. PICK n \in Sizes : msgs' = Append(msgs, n) /\ SendFragment(Len(msgs) + 1, 1, n)
    BY <1>3 DEF IssueRequest
  <2>2. n \in Nat \ {0} /\ 1 \in Nat \ {0}
    OBVIOUS
  <2> PICK p : p = DataPacket(Len(msgs) + 1, 1, n, Len(log) + 1, TRUE)
    OBVIOUS
  <2>3. /\ Len(wire) < MaxWire /\ wire' = Append(wire, p) /\ log' = Append(log, p)
        /\ fragsOut' = 1 /\ session' = session /\ UNCHANGED serverVars
    BY <2>1 DEF SendFragment
  <2>4. ConsoleAt = At(session, Len(log), Len(msgs) + 1, 1)
    BY <1>3, ConsolePlace DEF IssueRequest
  <2>5. 1 <= LastSize' /\ LastSize' = n /\ Len(msgs') = Len(msgs) + 1
    BY <1>2, <2>1, <2>2
  <2>6. /\ p = DataPacket(Len(msgs'), 1, LastSize', IF TRUE THEN Len(log) + 1 ELSE 0, TRUE)
        /\ log' = (IF TRUE THEN Append(log, p) ELSE log) /\ TRUE \in BOOLEAN
        /\ ConsoleAt = At(session, Len(log), Len(msgs'), 1)
    BY <2>3, <2>4, <2>5
  <2> QED
    BY <1>2, <2>1, <2>2, <2>3, <2>5, <2>6, FragmentSent
<1>4. CASE ContinueRequest
  <2>1. msgs' = msgs /\ SendFragment(Len(msgs), fragsOut + 1, LastSize) /\ ~BetweenMessages
    BY <1>4 DEF ContinueRequest
  <2> PICK p : p = DataPacket(Len(msgs), fragsOut + 1, LastSize, Len(log) + 1, TRUE)
    OBVIOUS
  <2> PICK no : no = fragsOut + 1
    OBVIOUS
  <2>2. /\ Len(wire) < MaxWire /\ wire' = Append(wire, p) /\ log' = Append(log, p)
        /\ fragsOut' = no /\ session' = session /\ UNCHANGED serverVars
    BY <2>1 DEF SendFragment
  <2>3. /\ ConsoleAt = At(session, Len(log), Len(msgs'), no) /\ msgs' # <<>>
        /\ no <= LastSize' /\ no \in Nat \ {0} /\ LastSize' = LastSize
    <3>1. LastSize' = LastSize
      BY <2>1 DEF LastSize
    <3>2. no \in Nat \ {0}
      BY <1>1
    <3> QED
      BY <2>1, <3>1, <3>2, ConsolePlace
  <2>4. /\ p = DataPacket(Len(msgs'), no, LastSize', IF TRUE THEN Len(log) + 1 ELSE 0, TRUE)
        /\ log' = (IF TRUE THEN Append(log, p) ELSE log) /\ TRUE \in BOOLEAN
    BY <2>1, <2>2, <2>3
  <2> QED
    BY <2>1, <2>2, <2>3, <2>4, FragmentSent
<1>5. CASE IssueUnreliable
  <2>1. msgs' = Append(msgs, 1) /\ 1 \in Nat \ {0} /\ FALSE \in BOOLEAN
    BY <1>5 DEF IssueUnreliable
  <2> PICK p : p = DataPacket(Len(msgs) + 1, 1, 1, 0, FALSE)
    OBVIOUS
  <2>3. /\ Len(wire) < MaxWire /\ wire' = Append(wire, p) /\ log' = log
        /\ fragsOut' = 1 /\ session' = session /\ UNCHANGED serverVars
    BY <1>5 DEF IssueUnreliable
  <2>4. ConsoleAt = At(session, Len(log), Len(msgs) + 1, 1)
    BY <1>5, ConsolePlace DEF IssueUnreliable
  <2>5. 1 <= LastSize' /\ LastSize' = 1 /\ Len(msgs') = Len(msgs) + 1
    BY <1>2, <2>1
  <2>6. /\ p = DataPacket(Len(msgs'), 1, LastSize', IF FALSE THEN Len(log) + 1 ELSE 0, FALSE)
        /\ log' = (IF FALSE THEN Append(log, p) ELSE log)
        /\ ConsoleAt = At(session, Len(log), Len(msgs'), 1)
    BY <2>3, <2>4, <2>5
  <2> QED
    BY <1>2, <2>1, <2>3, <2>5, <2>6, FragmentSent
<1> QED
  BY <1>3, <1>4, <1>5

(* The console repeats one of its newest packets. *)
LEMMA RepeatStep ==
  ASSUME TypeOK, ConsoleOK, NEW f, Path(f), Repeat
  PROVE  ConsoleOK' /\ \E g : Path(g)' /\ g[1] = f[1]
<1> USE ReceiveAssumption
<1>1. PICK k \in DOMAIN log : k + MaxLag > Len(log) /\ wire' = Append(wire, log[k])
  BY DEF Repeat
<1>2. /\ UNCHANGED <<msgs, fragsOut, log, session>> /\ UNCHANGED serverVars
      /\ Len(wire) < MaxWire
  BY DEF Repeat, consoleVars
<1>3. /\ log \in Seq(Packets) /\ k \in 1 .. Len(log) /\ Len(log) \in Nat /\ log[k] \in Packets
      /\ wire \in Seq(Packets) /\ Len(wire) \in Nat /\ msgs \in Seq(Nat)
  BY <1>1 DEF TypeOK
<1>4. ConsoleAt' = ConsoleAt
  BY <1>2 DEF ConsoleAt, BetweenMessages, LastSize
<1>5. ConsoleAt \in Positions /\ ConsoleAt.ses = session /\ ConsoleAt.high = Len(log)
  BY ConsolePlace
<1>6. /\ log[k].type = "DATA" /\ log[k].needAck = TRUE /\ log[k].ses = session
      /\ log[k].pid = k % SeqSpace
  BY <1>3 DEF ConsoleOK
<1>7. Takes(msgs', ConsoleAt, log[k], ConsoleAt')
  <2>1. Known(ConsoleAt.high, log[k].pid)
    BY <1>1, <1>3, <1>5, <1>6 DEF Known
  <2> QED
    BY <1>4, <1>5, <1>6, <2>1 DEF Takes
<1>8. \A i \in 1 .. Len(log) : Before(log[i].payload, ConsoleAt)
  <2>1. /\ f[Len(wire) + 1] = ConsoleAt /\ Within(wire, log, session, f)
        /\ Len(wire) + 1 \in 1 .. Len(wire) + 1
    BY <1>3 DEF Path
  <2>2. Current(wire, log, ConsoleAt, Len(wire) + 1)
    BY <1>5, <2>1 DEF Within
  <2> QED
    BY <1>5, <2>2 DEF Current
<1>9. ConsoleOK'
  <2>1. Len(wire') <= MaxWire
    BY <1>1, <1>2, <1>3
  <2> QED
    BY <1>2, <2>1 DEF ConsoleOK, LastSize
<1>10. \E g : Path(g)' /\ g[1] = f[1]
  <2>1. /\ ConsoleAt' \in Positions /\ (ConsoleAt').ses = session /\ (ConsoleAt').high = Len(log')
        /\ \A i \in 1 .. Len(log') : Before(log'[i].payload, ConsoleAt')
        /\ msgs' = msgs /\ log' = log /\ log' \in Seq(Packets) /\ session' = session
    BY <1>2, <1>3, <1>4, <1>5, <1>8
  <2> QED
    BY <1>1, <1>2, <1>3, <1>7, <2>1, Sends
<1> QED
  BY <1>9, <1>10

(* The console starts a new session between two requests. *)
LEMMA RestartStep ==
  ASSUME SynMidMessage = FALSE, TypeOK, TypeOK', ConsoleOK, NEW f, Path(f), RestartSession
  PROVE  ConsoleOK' /\ \E g : Path(g)' /\ g[1] = f[1]
<1> USE ReceiveAssumption
<1> PICK p : p = [type |-> "SYN", ses |-> session + 1, pid |-> 0, needAck |-> TRUE,
                  fragmentID |-> 0, payload |-> [msg |-> 0, no |-> 0]]
  OBVIOUS
<1>1. /\ BetweenMessages /\ Len(wire) < MaxWire /\ session' = session + 1
      /\ log' = <<>> /\ fragsOut' = LastSize /\ msgs' = msgs /\ wire' = Append(wire, p)
      /\ UNCHANGED serverVars
  BY DEF RestartSession
<1>2. /\ wire \in Seq(Packets) /\ Len(wire) \in Nat /\ session \in Nat /\ Len(msgs) \in Nat
      /\ wire' \in Seq(Packets) /\ Len(wire') = Len(wire) + 1 /\ msgs \in Seq(Nat)
      /\ session + 1 \in Nat /\ LastSize \in Nat
  <2>1. /\ wire \in Seq(Packets) /\ wire' \in Seq(Packets) /\ session \in Nat /\ msgs \in Seq(Nat)
    BY DEF TypeOK
  <2>2. LastSize \in Nat
    BY <2>1 DEF LastSize
  <2>3. Len(wire') = Len(wire) + 1
    BY <1>1, <2>1
  <2> QED
    BY <2>1, <2>2, <2>3
<1>3. p \in Packets /\ p.type = "SYN" /\ p.ses = session + 1
  BY <1>2 DEF Packets, Fragments, SeqIds
<1> PICK e : e = ConsoleAt'
  OBVIOUS
<1> PICK g : g = Longer(f, Len(wire) + 1, e)
  OBVIOUS
<1>4. e = At(session + 1, 0, Len(msgs) + 1, 1) /\ LastSize' = LastSize
  BY <1>1 DEF ConsoleAt, BetweenMessages, LastSize
<1>5. /\ ConsoleAt.no = 1 /\ ConsoleAt.ses = session /\ ConsoleAt.msg = Len(msgs) + 1
  BY <1>1, ConsolePlace DEF At
<1>6. e \in Positions /\ e.ses = session + 1 /\ e.high = 0
  BY <1>2, <1>4 DEF At, Positions
<1>7. /\ Leads(msgs, wire, f) /\ Within(wire, log, session, f)
      /\ f \in [1 .. Len(wire) + 1 -> Positions] /\ f[Len(wire) + 1] = ConsoleAt
      /\ f[1].msg = Len(dispatched) + 1 /\ f[1].no = Len(fragBuf) + 1 /\ Ring(f[1].high)
  BY DEF Path, Leads
<1>8. Takes(msgs, f[Len(wire) + 1], p, e)
  BY <1>2, <1>3, <1>4, <1>5, <1>7 DEF Takes
<1>9. Leads(msgs, Append(wire, p), g)
  BY <1>2, <1>3, <1>6, <1>7, <1>8, LeadsFurther
<1>10. Within(Append(wire, p), <<>>, session + 1, g)
  BY <1>2, <1>3, <1>6, <1>7, WithinAnew
<1>11. Extension(wire, p, f, e, Append(wire, p), g)
  BY <1>2, <1>3, <1>6, <1>7, LongerPlaces
<1>12. g[1] = f[1] /\ g[Len(wire') + 1] = e
  BY <1>1, <1>11 DEF Extension
<1>13. Path(g)'
  <2>1. Ring(f[1].high)' /\ dispatched' = dispatched /\ fragBuf' = fragBuf
    BY <1>1, <1>7 DEF Ring, serverVars
  <2>2. Leads(msgs', wire', g) /\ Within(wire', log', session', g)
    BY <1>1, <1>9, <1>10
  <2> QED
    BY <1>7, <1>12, <2>1, <2>2 DEF Path
<1>14. ConsoleOK'
  <2>1. Len(wire') <= MaxWire /\ Len(log') = 0
    BY <1>1, <1>2
  <2>2. IF msgs' = <<>> THEN fragsOut' = 0 ELSE fragsOut' \in 1 .. LastSize'
    BY <1>1, <1>4 DEF ConsoleOK, BetweenMessages, LastSize
  <2>3. \A m \in 1 .. Len(msgs') : msgs'[m] >= 1
    BY <1>1 DEF ConsoleOK
  <2> QED
    BY <2>1, <2>2, <2>3 DEF ConsoleOK
<1> QED
  BY <1>12, <1>13, <1>14

ConsoleNext ==
  \/ IssueRequest \/ ContinueRequest \/ IssueUnreliable \/ Repeat
  \/ SeeAck \/ LoseAck \/ RestartSession

(* The console's steps leave the server as it is; the list of requests grows. *)
LEMMA ServerStill ==
  ASSUME TypeOK, TypeOK', ServerOK, ConsoleNext
  PROVE  ServerOK' /\ UNCHANGED serverVars
<1>1. UNCHANGED serverVars
  BY DEF ConsoleNext, IssueRequest, ContinueRequest, IssueUnreliable, Repeat, SeeAck, LoseAck,
         RestartSession, SendFragment
<1>2. msgs' = msgs \/ \E n \in Nat : msgs' = Append(msgs, n)
  BY ReceiveAssumption DEF ConsoleNext, IssueRequest, ContinueRequest, IssueUnreliable, Repeat,
     SeeAck, LoseAck, RestartSession, consoleVars
<1>3. fragBuf' = fragBuf /\ dispatched' = dispatched
  BY <1>1 DEF serverVars
<1>4. Len(msgs) \in Nat /\ Len(dispatched) \in Nat /\ msgs \in Seq(Nat)
  BY DEF TypeOK
<1>5. Len(msgs) <= Len(msgs') /\ Len(msgs') \in Nat /\ \A i \in 1 .. Len(msgs) : msgs'[i] = msgs[i]
  BY <1>2, <1>4
<1>6. ExactlyOnceInOrder'
  <2>1. Len(dispatched) <= Len(msgs)
    BY DEF ServerOK, ExactlyOnceInOrder
  <2>2. ASSUME NEW i \in 1 .. Len(dispatched)
        PROVE  dispatched[i] = Request(i, msgs'[i])
    <3>1. i \in 1 .. Len(msgs) /\ dispatched[i] = Request(i, msgs[i])
      BY <1>4, <2>1 DEF ServerOK, ExactlyOnceInOrder
    <3> QED
      BY <1>5, <3>1
  <2>3. Len(dispatched) <= Len(msgs')
    BY <1>4, <1>5, <2>1
  <2> QED
    BY <1>3, <2>2, <2>3 DEF ExactlyOnceInOrder
<1> QED
  BY <1>1, <1>3, <1>6 DEF ServerOK

(* An ack stands for the packet it was sent for, although the ids wrap: no    *)
(* step of the console makes it stand for one that the server has not had.    *)
LEMMA AcksStill ==
  ASSUME TypeOK, TypeOK', ConsoleOK, ConsoleNext, NEW s \in Positions, AcksSound(s)
  PROVE  AcksSound(s)'
<1> USE ReceiveAssumption
<1>1. /\ Len(log) \in Nat /\ log \in Seq(Packets) /\ session \in Nat /\ s.high \in Nat
  BY DEF TypeOK, Positions
<1>2. ASSUME NEW m, NEW n, NEW size, SendFragment(m, n, size)
      PROVE  AcksSound(s)'
  <2> PICK p : p = DataPacket(m, n, size, Len(log) + 1, TRUE)
    OBVIOUS
  <2>1. /\ log' = Append(log, p) /\ UNCHANGED <<acked, session, acks>>
        /\ [ses |-> session, pid |-> p.pid] \notin acks
    BY <1>2 DEF SendFragment
  <2>2. p.pid = (Len(log) + 1) % SeqSpace
    BY DEF DataPacket
  <2>3. Len(log') = Len(log) + 1
    BY <1>1, <2>1
  <2>4. \A k \in acked' : k \in 1 .. Len(log') /\ s.ses = session' /\ k <= s.high
    BY <1>1, <2>1, <2>3 DEF AcksSound
  <2>5. ASSUME NEW a \in acks', NEW k \in 1 .. Len(log'),
               a.ses = session', a.pid = k % SeqSpace, k + MaxLag > Len(log')
        PROVE  s.ses = session' /\ k <= s.high
    <3>1. a \in [ses : Nat, pid : SeqIds]
      BY DEF TypeOK
    <3>2. a.pid # p.pid
      BY <2>1, <2>5, <3>1
    <3>3. k # Len(log) + 1
      BY <2>2, <2>5, <3>2
    <3>4. k \in 1 .. Len(log) /\ k + MaxLag > Len(log)
      BY <1>1, <2>3, <2>5, <3>3
    <3> QED
      BY <2>1, <2>5, <3>4 DEF AcksSound
  <2> QED
    BY <2>4, <2>5 DEF AcksSound
<1>3. CASE IssueRequest
  BY <1>2, <1>3 DEF IssueRequest
<1>4. CASE ContinueRequest
  BY <1>2, <1>4 DEF ContinueRequest
<1>5. CASE IssueUnreliable
  BY <1>5 DEF IssueUnreliable, AcksSound
<1>6. CASE Repeat
  BY <1>6 DEF Repeat, AcksSound, consoleVars
<1>7. CASE SeeAck
  <2>1. PICK a \in acks :
          /\ acks' = acks \ {a}
          /\ acked' = IF a.ses = session
                THEN acked \cup {k \in DOMAIN log : log[k].pid = a.pid /\ k + MaxLag > Len(log)}
                ELSE acked
    BY <1>7 DEF SeeAck
  <2>2. log' = log /\ session' = session
    BY <1>7 DEF SeeAck
  <2>3. ASSUME NEW k \in acked'
        PROVE  k \in 1 .. Len(log) /\ s.ses = session /\ k <= s.high
    <3>1. CASE k \in acked
      BY <3>1 DEF AcksSound
    <3>2. CASE k \notin acked
      <4>1. k \in 1 .. Len(log) /\ a.ses = session /\ log[k].pid = a.pid /\ k + MaxLag > Len(log)
        BY <1>1, <2>1, <2>3, <3>2
      <4>2. a.pid = k % SeqSpace
        BY <4>1 DEF ConsoleOK
      <4> QED
        BY <4>1, <4>2 DEF AcksSound
    <3> QED
      BY <3>1, <3>2
  <2> QED
    BY <2>1, <2>2, <2>3 DEF AcksSound
<1>8. CASE LoseAck
  BY <1>8 DEF LoseAck, AcksSound, consoleVars
<1>9. CASE RestartSession
  <2>1. log' = <<>> /\ acked' = {}
    BY <1>9 DEF RestartSession
  <2> QED
    BY <2>1 DEF AcksSound
<1> QED
  BY <1>3, <1>4, <1>5, <1>6, <1>7, <1>8, <1>9 DEF ConsoleNext

(* Every step of the console keeps the invariant. *)
LEMMA ConsoleStep ==
  ASSUME SynMidMessage = FALSE, Inv, TypeOK', ConsoleNext
  PROVE  Inv'
<1>1. PICK f : Path(f) /\ (IdsLast => AcksSound(f[1]))
  BY DEF Inv
<1>2. TypeOK /\ ConsoleOK /\ ServerOK
  BY DEF Inv
<1>3. ConsoleOK' /\ \E g : Path(g)' /\ g[1] = f[1]
  <2>1. CASE IssueRequest \/ ContinueRequest \/ IssueUnreliable
    BY <1>1, <1>2, <2>1, RequestSteps
  <2>2. CASE Repeat
    BY <1>1, <1>2, <2>2, RepeatStep
  <2>3. CASE RestartSession
    BY <1>1, <1>2, <2>3, RestartStep
  <2>4. CASE SeeAck \/ LoseAck
    <3>1. UNCHANGED <<msgs, fragsOut, log, session, wire, recus, recusPos, fragBuf, dispatched>>
      BY <2>4 DEF SeeAck, LoseAck, consoleVars, serverVars
    <3>2. Path(f)'
      BY <1>1, <3>1 DEF Path, Ring, ConsoleAt, BetweenMessages, LastSize
    <3>3. ConsoleOK'
      BY <1>2, <3>1 DEF ConsoleOK, LastSize
    <3> QED
      BY <3>2, <3>3
  <2> QED
    BY <2>1, <2>2, <2>3, <2>4 DEF ConsoleNext
<1>4. PICK g : Path(g)' /\ g[1] = f[1]
  BY <1>3
<1>5. f[1] \in Positions
  <2>1. f \in [1 .. Len(wire) + 1 -> Positions]
    BY <1>1 DEF Path, Leads
  <2>2. Len(wire) \in Nat
    BY <1>2 DEF TypeOK
  <2> QED
    BY <2>1, <2>2
<1>6. IdsLast => AcksSound(g[1])'
  <2>1. IdsLast => AcksSound(f[1])'
    BY <1>1, <1>2, <1>5, AcksStill
  <2> QED
    BY <1>4, <2>1 DEF AcksSound
<1>7. ServerOK'
  BY <1>2, ServerStill
<1> QED
  BY <1>3, <1>4, <1>6, <1>7 DEF Inv, IdsLast

-----------------------------------------------------------------------------
(* The server's step *)

(* A request grows by the fragment that comes next. *)
LEMMA RequestGrows ==
  ASSUME NEW m \in Nat, NEW n \in Nat
  PROVE  Append(Request(m, n), [msg |-> m, no |-> n + 1]) = Request(m, n + 1)
<1> DEFINE x == [msg |-> m, no |-> n + 1]
<1>1. Request(m, n) \in Seq(Fragments) /\ Len(Request(m, n)) = n /\ x \in Fragments
  BY DEF Request, Fragments
<1> DEFINE a == Append(Request(m, n), x)
           b == Request(m, n + 1)
<1>2. a \in Seq(Fragments) /\ Len(a) = n + 1
  BY <1>1
<1>3. b \in Seq(Fragments) /\ Len(b) = n + 1
  BY DEF Request, Fragments
<1>4. \A i \in 1 .. n + 1 : a[i] = b[i]
  BY <1>1 DEF Request
<1> HIDE DEF a, b
<1>5. a = b
  BY <1>2, <1>3, <1>4
<1> QED
  BY <1>5 DEF a, b

(* Reassembly of the fragment that comes next: the buffer is the beginning of *)
(* the request, or the request is whole and is dispatched after the others.   *)
LEMMA ReassembleNext ==
  ASSUME TypeOK, ServerOK, NEW s \in Positions, NEW p, NEW h \in Nat,
         s.msg = Len(dispatched) + 1, s.no = Len(fragBuf) + 1,
         IsNext(msgs, s, p), Reassemble(p), msgs' = msgs
  PROVE  /\ ServerOK'
         /\ Onward(msgs, s, h).msg = Len(dispatched') + 1
         /\ Onward(msgs, s, h).no = Len(fragBuf') + 1
         /\ Onward(msgs, s, h).high = h
<1> DEFINE d == Len(dispatched)
           b == Len(fragBuf)
<1>1. /\ msgs \in Seq(Nat) /\ dispatched \in Seq(Seq(Fragments)) /\ fragBuf \in Seq(Fragments)
      /\ d \in Nat /\ b \in Nat /\ Len(msgs) \in Nat
  BY DEF TypeOK
<1>2. /\ d + 1 \in 1 .. Len(msgs) /\ p.payload = [msg |-> d + 1, no |-> b + 1]
      /\ p.fragmentID = 0 <=> b + 1 = msgs[d + 1]
  BY DEF IsNext
<1>3. Append(fragBuf, p.payload) = Request(d + 1, b + 1)
  <2> PICK m : m = d + 1
    OBVIOUS
  <2>1. fragBuf = Request(m, b) /\ m \in Nat /\ p.payload = [msg |-> m, no |-> b + 1]
    BY <1>1, <1>2 DEF ServerOK
  <2> HIDE DEF b
  <2>2. Append(Request(m, b), [msg |-> m, no |-> b + 1]) = Request(m, b + 1)
    BY <1>1, <2>1, RequestGrows
  <2> QED
    BY <2>1, <2>2
<1>4. Append(fragBuf, p.payload) \in Seq(Fragments) /\ Len(Append(fragBuf, p.payload)) = b + 1
  <2>1. p.payload \in Fragments
    BY <1>1, <1>2 DEF Fragments
  <2> QED
    BY <1>1, <2>1
<1>5. CASE p.fragmentID = 0
  <2>1. dispatched' = Append(dispatched, Request(d + 1, b + 1)) /\ fragBuf' = <<>>
    BY <1>3, <1>5 DEF Reassemble
  <2>2. b + 1 = msgs[d + 1] /\ Request(d + 1, b + 1) \in Seq(Fragments)
    BY <1>2, <1>3, <1>4, <1>5
  <2>3. Len(dispatched') = d + 1 /\ Len(fragBuf') = 0
    BY <1>1, <2>1, <2>2
  <2>4. ExactlyOnceInOrder'
    <3>1. ASSUME NEW i \in 1 .. d + 1
          PROVE  dispatched'[i] = Request(i, msgs[i])
      <4>1. CASE i = d + 1
        BY <1>1, <2>1, <2>2, <4>1
      <4>2. CASE i # d + 1
        <5>1. i \in 1 .. d
          BY <1>1, <4>2
        <5>2. dispatched'[i] = dispatched[i]
          BY <1>1, <2>1, <2>2, <5>1
        <5> QED
          BY <5>1, <5>2 DEF ServerOK, ExactlyOnceInOrder
      <4> QED
        BY <4>1, <4>2
    <3>2. d + 1 <= Len(msgs)
      BY <1>1, <1>2
    <3> QED
      BY <2>3, <3>1, <3>2 DEF ExactlyOnceInOrder
  <2>5. fragBuf' = Request(Len(dispatched') + 1, Len(fragBuf'))
    <3>1. \A k : Request(k, 0) = <<>>
      BY DEF Request
    <3> QED
      BY <2>1, <2>3, <3>1
  <2>6. Onward(msgs, s, h) = At(s.ses, h, d + 2, 1)
    BY <1>1, <2>2 DEF Onward
  <2> QED
    BY <1>1, <2>3, <2>4, <2>5, <2>6 DEF ServerOK, At
<1>6. CASE p.fragmentID # 0
  <2>1. fragBuf' = Request(d + 1, b + 1) /\ dispatched' = dispatched
    BY <1>3, <1>6 DEF Reassemble
  <2>2. Len(fragBuf') = b + 1
    BY <1>3, <1>4, <2>1
  <2>3. ServerOK'
    BY <2>1, <2>2 DEF ServerOK, ExactlyOnceInOrder
  <2>4. Onward(msgs, s, h) = At(s.ses, h, d + 1, b + 2)
    BY <1>1, <1>2, <1>6 DEF Onward
  <2> QED
    BY <1>1, <2>1, <2>2, <2>3, <2>4 DEF At
<1> QED
  BY <1>5, <1>6

(* One packet, handled at the place it may come: the server is at the place   *)
(* behind it.  A repetition changes nothing, the next packet is remembered    *)
(* and reassembled, a SYN empties the ring.                                   *)
LEMMA ServerMoves ==
  ASSUME TypeOK, ServerOK, NEW s \in Positions, NEW p, NEW t, Takes(msgs, s, p, t),
         s.msg = Len(dispatched) + 1, s.no = Len(fragBuf) + 1, Ring(s.high),
         processSYN(p) \/ processData(p), msgs' = msgs
  PROVE  /\ ServerOK' /\ Ring(t.high)'
         /\ t.msg = Len(dispatched') + 1 /\ t.no = Len(fragBuf') + 1
<1> USE ReceiveAssumption
<1>h. s.high \in Nat /\ s.high + 1 \in Nat
  BY DEF Positions
<1>1. CASE p.type = "SYN" /\ s.no = 1 /\ t = At(p.ses, 0, s.msg, 1)
  <2>1. processSYN(p)
    BY <1>1 DEF processData
  <2>2. UNCHANGED <<fragBuf, dispatched>> /\ Ring(0)'
    BY <2>1, EmptyRing DEF processSYN
  <2>3. t.high = 0 /\ t.msg = s.msg /\ t.no = s.no
    BY <1>1 DEF At
  <2>4. ServerOK'
    BY <2>2 DEF ServerOK, ExactlyOnceInOrder
  <2> QED
    BY <2>2, <2>3, <2>4
<1>2. CASE /\ p.type = "DATA" /\ p.needAck = FALSE
           /\ IsNext(msgs, s, p) /\ t = Onward(msgs, s, s.high)
  <2>1. Reassemble(p) /\ UNCHANGED <<recus, recusPos>>
    BY <1>2 DEF processSYN, processData
  <2>2. Ring(s.high)'
    BY <2>1 DEF Ring
  <2>3. /\ ServerOK' /\ t.msg = Len(dispatched') + 1 /\ t.no = Len(fragBuf') + 1
        /\ t.high = s.high
    BY <1>h, <1>2, <2>1, ReassembleNext
  <2> QED
    BY <2>2, <2>3
<1>3. CASE /\ p.type = "DATA" /\ p.needAck = TRUE
           /\ p.pid = (s.high + 1) % SeqSpace
           /\ IsNext(msgs, s, p) /\ t = Onward(msgs, s, s.high + 1)
  <2>1. ~dejaRecu(p.pid)
    <3>1. ~dejaRecu((s.high + 1) % SeqSpace)
      BY <1>h, NextUnknown
    <3> QED
      BY <1>3, <3>1
  <2>2. Remember(p.pid) /\ Reassemble(p)
    BY <1>3, <2>1 DEF processSYN, processData
  <2>3. Ring(s.high + 1)'
    <3>1. Remember((s.high + 1) % SeqSpace)
      BY <1>3, <2>2
    <3> QED
      BY <1>h, <3>1, RingTurns
  <2> PICK h : h = s.high + 1
    OBVIOUS
  <2>4. /\ ServerOK' /\ t.msg = Len(dispatched') + 1 /\ t.no = Len(fragBuf') + 1
        /\ t.high = h
    <3>1. t = Onward(msgs, s, h) /\ h \in Nat
      BY <1>h, <1>3
    <3> QED
      BY <1>3, <2>2, <3>1, ReassembleNext
  <2> QED
    BY <2>3, <2>4
<1>4. CASE /\ p.type = "DATA" /\ p.needAck = TRUE /\ Known(s.high, p.pid) /\ t = s
  <2>1. dejaRecu(p.pid)
    BY <1>h, <1>4, RepeatKnown
  <2>2. UNCHANGED <<recus, recusPos, fragBuf, dispatched>>
    BY <1>4, <2>1 DEF processSYN, processData, serverVars
  <2>3. ServerOK' /\ Ring(s.high)'
    BY <2>2 DEF ServerOK, ExactlyOnceInOrder, Ring
  <2> QED
    BY <1>4, <2>2, <2>3
<1> QED
  BY <1>1, <1>2, <1>3, <1>4 DEF Takes

(* An ack is sent for a packet that is past then; no other packet that the    *)
(* console may take it for is still to come.                                  *)
LEMMA AckSent ==
  ASSUME TypeOK, IdsLast, NEW s \in Positions, AcksSound(s), NEW p \in Packets, NEW t \in Positions,
         Takes(msgs, s, p, t), processSYN(p) \/ processData(p),
         UNCHANGED <<log, acked, session>>, t.ses <= session,
         t.ses = session => Len(log) <= t.high + (MaxWire - 1)
  PROVE  AcksSound(t)'
<1> USE ReceiveAssumption
<1>1. /\ Len(log) \in Nat /\ session \in Nat /\ s.high \in Nat /\ t.high \in Nat
      /\ s.ses \in Nat /\ t.ses \in Nat /\ p.ses \in Nat
  BY DEF TypeOK, Positions, Packets
<1>2. s.ses = session => t.ses = session /\ s.high <= t.high
  <2>1. CASE p.type = "SYN" /\ p.ses > s.ses /\ t = At(p.ses, 0, s.msg, 1)
    BY <1>1, <2>1 DEF At
  <2>2. CASE t = Onward(msgs, s, s.high) \/ t = Onward(msgs, s, s.high + 1) \/ t = s
    <3>1. t.ses = s.ses /\ t.high \in {s.high, s.high + 1}
      BY <2>2 DEF Onward, At
    <3> QED
      BY <1>1, <3>1
  <2> QED
    BY <2>1, <2>2 DEF Takes
<1>3. \A k \in acked' : k \in 1 .. Len(log') /\ t.ses = session' /\ k <= t.high
  <2> SUFFICES ASSUME NEW k \in acked
               PROVE  k \in 1 .. Len(log) /\ t.ses = session /\ k <= t.high
    OBVIOUS
  <2>1. k \in 1 .. Len(log) /\ s.ses = session /\ k <= s.high
    BY DEF AcksSound
  <2> QED
    BY <1>1, <1>2, <2>1
<1>4. ASSUME NEW a \in acks', NEW k \in 1 .. Len(log),
             a.ses = session, a.pid = k % SeqSpace, k + MaxLag > Len(log)
      PROVE  t.ses = session /\ k <= t.high
  <2>1. CASE a \in acks
    <3>1. s.ses = session /\ k <= s.high
      BY <1>4, <2>1 DEF AcksSound
    <3> QED
      BY <1>1, <1>2, <3>1
  <2>2. CASE a \notin acks
    <3>1. a = [ses |-> p.ses, pid |-> p.pid] /\ p.type = "DATA" /\ p.needAck = TRUE
      BY <1>4, <2>2 DEF processSYN, processData, sendAck
    <3>2. p.pid = k % SeqSpace /\ p.ses = session
      BY <1>4, <3>1
    <3>3. /\ p.ses = s.ses
          /\ \/ p.pid = (s.high + 1) % SeqSpace /\ t = Onward(msgs, s, s.high + 1)
             \/ Known(s.high, p.pid) /\ t = s
      BY <3>1 DEF Takes
    <3>4. t.ses = session
      BY <1>2, <3>2, <3>3
    <3> SUFFICES ASSUME k > t.high PROVE FALSE
      BY <1>1, <3>4
    <3>5. PICK j \in Nat : /\ p.pid = j % SeqSpace /\ j <= t.high /\ j + MaxLag > t.high
      <4>1. CASE p.pid = (s.high + 1) % SeqSpace /\ t = Onward(msgs, s, s.high + 1)
        <5>1. t.high = s.high + 1
          BY <4>1 DEF Onward, At
        <5>2. MaxLag > 0
          BY <1>1, <1>4
        <5> QED
          <6>1. p.pid = t.high % SeqSpace
            BY <4>1, <5>1
          <6>2. t.high <= t.high /\ t.high + MaxLag > t.high
            BY <1>1, <5>2
          <6> QED
            BY <1>1, <6>1, <6>2
      <4>2. CASE Known(s.high, p.pid) /\ t = s
        BY <1>1, <4>2 DEF Known
      <4> QED
        BY <3>3, <4>1, <4>2
    <3>6. k \in Nat /\ j < k /\ k - j < SeqSpace
      <4>1. Len(log) <= t.high + (MaxWire - 1)
        BY <3>4
      <4> QED
        <5>1. k \in Nat /\ k <= Len(log) /\ k > t.high /\ MaxWire + MaxLag <= SeqSpace + 1
          BY <1>1 DEF IdsLast
        <5>2. k <= t.high + (MaxWire - 1)
          BY <1>1, <4>1, <5>1
        <5> QED
          <6>1. t.high \in Nat /\ j \in Nat /\ j <= t.high /\ j + MaxLag > t.high
            BY <1>1, <3>5
          <6>2. MaxWire \in Nat /\ MaxLag \in Nat /\ SeqSpace \in Nat
            OBVIOUS
          <6> QED
            BY <5>1, <5>2, <6>1, <6>2
    <3>7. j % SeqSpace # k % SeqSpace
      BY <3>6, LessThanATurn
    <3> QED
      BY <3>2, <3>5, <3>7
  <2> QED
    BY <2>1, <2>2
<1> QED
  BY <1>3, <1>4 DEF AcksSound

(* A packet handled to the end keeps the invariant. *)
LEMMA HandleStep ==
  ASSUME Inv, TypeOK', handlePacket
  PROVE  Inv'
<1> USE ReceiveAssumption
<1>1. PICK f : Path(f) /\ (IdsLast => AcksSound(f[1]))
  BY DEF Inv
<1>2. TypeOK /\ ConsoleOK /\ ServerOK
  BY DEF Inv
<1> PICK p : p = Head(wire)
  OBVIOUS
<1>3. /\ wire # <<>> /\ wire' = Tail(wire)
      /\ processSYN(p) \/ processData(p)
      /\ UNCHANGED <<msgs, fragsOut, log, acked, session>>
  BY DEF handlePacket, consoleVars
<1>4. /\ wire \in Seq(Packets) /\ Len(wire) \in Nat \ {0} /\ p = wire[1] /\ p \in Packets
      /\ 1 \in 1 .. Len(wire) + 1 /\ 2 \in 1 .. Len(wire) + 1 /\ 1 \in 1 .. Len(wire)
      /\ Len(wire') = Len(wire) - 1 /\ Len(log) \in Nat /\ session \in Nat
  BY <1>2, <1>3 DEF TypeOK
<1>5. /\ Leads(msgs, wire, f) /\ Within(wire, log, session, f)
      /\ f \in [1 .. Len(wire) + 1 -> Positions] /\ f[Len(wire) + 1] = ConsoleAt
      /\ f[1].msg = Len(dispatched) + 1 /\ f[1].no = Len(fragBuf) + 1 /\ Ring(f[1].high)
  BY <1>1 DEF Path, Leads
<1>6. f[1] \in Positions /\ f[2] \in Positions /\ Takes(msgs, f[1], p, f[2])
  <2>1. Takes(msgs, f[1], wire[1], f[1 + 1])
    BY <1>4, <1>5 DEF Leads
  <2> QED
    BY <1>4, <1>5, <2>1
<1>7. /\ ServerOK' /\ Ring(f[2].high)'
      /\ f[2].msg = Len(dispatched') + 1 /\ f[2].no = Len(fragBuf') + 1
  BY <1>2, <1>3, <1>5, <1>6, ServerMoves
<1> PICK g : g = Shorter(f, Len(wire))
  OBVIOUS
<1>8. /\ Leads(msgs', wire', g) /\ Within(wire', log', session', g)
      /\ g[1] = f[2] /\ g[Len(wire') + 1] = f[Len(wire) + 1]
  <2>1. Rest(msgs, Tail(wire), log, session, f, Len(wire), Shorter(f, Len(wire)))
    <3>1. /\ wire \in Seq(Packets) /\ wire # <<>>
          /\ Leads(msgs, wire, f) /\ Within(wire, log, session, f)
      BY <1>3, <1>4, <1>5
    <3> QED
      BY <3>1, PathShortens
  <2>2. msgs' = msgs /\ log' = log /\ session' = session /\ wire' = Tail(wire)
    BY <1>3
  <2>3. Rest(msgs', wire', log', session', f, Len(wire), g)
    BY <2>1, <2>2, Zenon
  <2> QED
    BY <2>3, Zenon DEF Rest
<1>9. Path(g)'
  <2>1. ConsoleAt' = ConsoleAt
    BY <1>3 DEF ConsoleAt, BetweenMessages, LastSize
  <2> QED
    BY <1>5, <1>7, <1>8, <2>1 DEF Path
<1>10. IdsLast => AcksSound(g[1])'
  <2> HAVE IdsLast
  <2>1. f[2].ses <= session /\ (f[2].ses = session => Current(wire, log, f[2], 2))
    BY <1>4, <1>5 DEF Within
  <2>2. f[2].ses = session => Len(log) <= f[2].high + (MaxWire - 1)
    <3> HAVE f[2].ses = session
    <3>1. Len(log) <= f[2].high + (Len(wire) + 1 - 2)
      BY <2>1 DEF Current
    <3>2. Len(wire) <= MaxWire /\ f[2].high \in Nat
      BY <1>2, <1>6 DEF ConsoleOK, Positions
    <3> QED
      BY <1>4, <3>1, <3>2
  <2>3. UNCHANGED <<log, acked, session>> /\ AcksSound(f[1])
    BY <1>1, <1>3
  <2>4. AcksSound(f[2])'
    BY <1>2, <1>3, <1>4, <1>6, <2>1, <2>2, <2>3, AckSent
  <2> QED
    BY <1>8, <2>4
<1>11. ConsoleOK'
  <2>1. Len(wire') <= MaxWire
    BY <1>2, <1>4 DEF ConsoleOK
  <2> QED
    BY <1>2, <1>3, <2>1 DEF ConsoleOK, LastSize
<1> QED
  BY <1>7, <1>9, <1>10, <1>11 DEF Inv, IdsLast

(* The invariant holds before the first packet. *)
LEMMA InitInv == Init => Inv
<1> SUFFICES ASSUME Init PROVE Inv
  OBVIOUS
<1> USE ReceiveAssumption
<1>1. TypeOK
  BY InitTypes
<1>2. /\ msgs = <<>> /\ fragsOut = 0 /\ log = <<>> /\ acked = {} /\ session = 1
      /\ wire = <<>> /\ acks = {} /\ recus = EmptyWindow /\ recusPos = 0
      /\ fragBuf = <<>> /\ dispatched = <<>>
  BY DEF Init
<1>3. ConsoleOK
  BY <1>2 DEF ConsoleOK
<1>4. ServerOK
  <2>1. Request(1, 0) = <<>>
    BY DEF Request
  <2>2. ExactlyOnceInOrder
    BY <1>2 DEF ExactlyOnceInOrder
  <2> QED
    BY <1>2, <2>1, <2>2 DEF ServerOK
<1> PICK f : f = [i \in 1 .. 1 |-> At(1, 0, 1, 1)]
  OBVIOUS
<1>5. f \in [1 .. 1 -> Positions] /\ f[1] = At(1, 0, 1, 1) /\ At(1, 0, 1, 1) \in Positions
  BY DEF At, Positions
<1>6. Leads(msgs, wire, f)
  BY <1>2, <1>5 DEF Leads
<1>7. Within(wire, log, session, f)
  <2>1. f[1].ses = 1 /\ f[1].high = 0
    BY <1>5 DEF At
  <2>2. Current(wire, log, f[1], 1)
    BY <1>2, <2>1 DEF Current
  <2>3. ASSUME NEW i \in 1 .. Len(wire) + 1
        PROVE  i = 1
    BY <1>2
  <2> QED
    BY <1>2, <2>1, <2>2, <2>3 DEF Within
<1>8. ConsoleAt = At(1, 0, 1, 1)
  BY <1>2 DEF ConsoleAt, BetweenMessages, LastSize
<1>9. Ring(0)
  <2>1. 0 % Window = 0
    OBVIOUS
  <2> QED
    BY <1>2, <2>1 DEF Ring, EmptyWindow
<1>10. Path(f)
  BY <1>2, <1>5, <1>6, <1>7, <1>8, <1>9 DEF Path, At
<1>11. AcksSound(f[1])
  BY <1>2 DEF AcksSound
<1> QED
  BY <1>1, <1>3, <1>4, <1>10, <1>11 DEF Inv

(* Every step keeps the invariant. *)
LEMMA StepInv ==
  ASSUME SynMidMessage = FALSE, Inv, [Next]_vars
  PROVE  Inv'
<1>1. TypeOK'
  BY StepTypes DEF Inv
<1>2. CASE ConsoleNext
  BY <1>1, <1>2, ConsoleStep
<1>3. CASE handlePacket
  BY <1>1, <1>3, HandleStep
<1>4. CASE UNCHANGED vars
  BY <1>1, <1>4 DEF Inv, vars, ConsoleOK, ServerOK, ExactlyOnceInOrder, LastSize, Path, Ring,
     ConsoleAt, BetweenMessages, AcksSound
<1> QED
  BY <1>2, <1>3, <1>4 DEF Next, ConsoleNext

(* The invariant holds throughout when sessions restart between requests. *)
LEMMA InvAlways ==
  ASSUME SynMidMessage = FALSE
  PROVE  Spec => []Inv
  BY InitInv, StepInv, PTL DEF Spec

-----------------------------------------------------------------------------
(* Theorems *)

(* Every buffer dispatchRMC is given is one request, whole and alone, and the *)
(* requests come in the order the console issued them, each once, whatever it *)
(* repeats and however often it restarts its session between two requests.    *)
THEOREM RequestsExactlyOnce ==
  ASSUME SynMidMessage = FALSE
  PROVE  Spec => []ExactlyOnceInOrder
<1>1. Inv => ExactlyOnceInOrder
  BY DEF Inv, ServerOK
<1> QED
  BY <1>1, InvAlways, PTL

(* The ring of c.recus still holds every packet that was received and that    *)
(* the console may repeat: MaxLag <= Window is all it takes.                  *)
THEOREM RingIsLongEnough ==
  ASSUME SynMidMessage = FALSE
  PROVE  Spec => []RepeatableStillKnown
<1>1. Inv => RepeatableStillKnown
  <2> SUFFICES ASSUME Inv, NEW k \in DOMAIN log, k + MaxLag > Len(log),
                      \A i \in DOMAIN wire : wire[i].type = "DATA" /\ wire[i] # log[k]
               PROVE  dejaRecu(log[k].pid)
    BY DEF RepeatableStillKnown
  <2> USE ReceiveAssumption
  <2>1. PICK f : Path(f)
    BY DEF Inv
  <2>2. TypeOK /\ ConsoleOK
    BY DEF Inv
  <2>3. /\ k \in 1 .. Len(log) /\ Len(log) \in Nat /\ Len(wire) \in Nat /\ DOMAIN wire = 1 .. Len(wire)
    BY <2>2 DEF TypeOK
  <2>4. 1 \in 1 .. Len(wire) + 1 /\ f[1] \in Positions /\ Ring(f[1].high)
    BY <2>1, <2>3 DEF Path, Leads
  <2>5. /\ f[1].ses = session \/ \E l \in 1 .. Len(wire) : wire[l].type = "SYN"
        /\ f[1].ses = session => Current(wire, log, f[1], 1)
    BY <2>1, <2>4 DEF Path, Within
  <2>6. f[1].ses = session /\ Current(wire, log, f[1], 1)
    BY <2>3, <2>5
  <2>7. f[1].high \in Nat
    BY <2>4 DEF Positions
  <2>8. k <= f[1].high /\ f[1].high <= Len(log)
    <3>1. k \notin f[1].high + 1 .. Len(log)
      BY <2>3, <2>6 DEF Current
    <3>2. f[1].high <= Len(log)
      BY <2>6 DEF Current
    <3> QED
      BY <2>3, <2>7, <3>1, <3>2
  <2>9. Known(f[1].high, log[k].pid)
    <3>1. log[k].pid = k % SeqSpace
      BY <2>2, <2>3 DEF ConsoleOK
    <3>2. k \in 1 .. f[1].high /\ k + MaxLag > f[1].high
      BY <2>3, <2>7, <2>8
    <3> QED
      BY <3>1, <3>2 DEF Known
  <2> QED
    BY <2>2, <2>4, <2>7, <2>9, RepeatKnown
<1> QED
  BY <1>1, InvAlways, PTL

(* What the console holds acknowledged was received: it is dispatched or in   *)
(* fragBuf.  The ids may wrap, but not while a packet that has one of them is *)
(* under way or may be repeated.                                              *)
THEOREM AcksAreHonest ==
  ASSUME SynMidMessage = FALSE, MaxWire + MaxLag <= SeqSpace + 1
  PROVE  Spec => []AckedWasReceived
<1>1. Inv => AckedWasReceived
  <2> SUFFICES ASSUME Inv, NEW k \in acked
               PROVE  \/ log[k].payload.msg <= Len(dispatched)
                      \/ \E i \in DOMAIN fragBuf : fragBuf[i] = log[k].payload
    BY DEF AckedWasReceived
  <2>1. PICK f : Path(f) /\ AcksSound(f[1])
    BY DEF Inv, IdsLast
  <2>2. TypeOK /\ ConsoleOK /\ ServerOK
    BY DEF Inv
  <2>3. /\ k \in 1 .. Len(log) /\ f[1].ses = session /\ k <= f[1].high
    BY <2>1 DEF AcksSound
  <2>4. /\ Len(log) \in Nat /\ Len(wire) \in Nat /\ log[k].payload \in Fragments
        /\ Len(dispatched) \in Nat /\ Len(fragBuf) \in Nat /\ DOMAIN fragBuf = 1 .. Len(fragBuf)
    <3>1. /\ log \in Seq(Packets) /\ wire \in Seq(Packets) /\ fragBuf \in Seq(Fragments)
          /\ Len(dispatched) \in Nat
      BY <2>2 DEF TypeOK
    <3>2. log[k] \in Packets
      BY <2>3, <3>1
    <3> QED
      BY <3>1, <3>2 DEF Packets
  <2>5. f[1] \in Positions /\ Current(wire, log, f[1], 1)
    BY <2>1, <2>3, <2>4 DEF Path, Leads, Within
  <2>6. f[1].high \in Nat
    BY <2>5 DEF Positions
  <2>7. Before(log[k].payload, f[1])
    BY <2>3, <2>4, <2>5, <2>6 DEF Current
  <2>8. f[1].msg = Len(dispatched) + 1 /\ f[1].no = Len(fragBuf) + 1 /\ log[k].payload.no >= 1
    BY <2>1, <2>2, <2>3 DEF Path, ConsoleOK
  <2> PICK x : x = log[k].payload
    OBVIOUS
  <2>9. /\ x.msg \in Nat /\ x.no \in Nat /\ x = [msg |-> x.msg, no |-> x.no]
    BY <2>4 DEF Fragments
  <2>10. CASE x.msg < Len(dispatched) + 1
    BY <2>4, <2>9, <2>10
  <2>11. CASE x.msg = Len(dispatched) + 1 /\ x.no < Len(fragBuf) + 1
    <3>1. x.no \in 1 .. Len(fragBuf)
      BY <2>4, <2>8, <2>9, <2>11
    <3>2. fragBuf[x.no] = [msg |-> Len(dispatched) + 1, no |-> x.no]
      BY <2>2, <3>1 DEF ServerOK, Request
    <3> QED
      BY <2>4, <2>9, <2>11, <3>1, <3>2
  <2> QED
    BY <2>7, <2>8, <2>10, <2>11 DEF Before
<1> QED
  BY <1>1, InvAlways, PTL

\* The requests as OrderedDelivery sees them.
Issued(sizes) == [m \in DOMAIN sizes |-> Request(m, sizes[m])]

(* A new request is appended. *)
LEMMA IssuedGrows ==
  ASSUME NEW m \in Seq(Nat), NEW n \in Nat
  PROVE  /\ Len(Issued(m)) = Len(m) /\ Len(m) \in Nat
         /\ Issued(Append(m, n)) = Append(Issued(m), Request(Len(m) + 1, n))
<1>1. \A k, i \in Nat : Request(k, i) \in Seq(Fragments)
  BY DEF Request, Fragments
<1> DEFINE S == Seq(Fragments)
           a == Issued(Append(m, n))
           x == Request(Len(m) + 1, n)
           b == Append(Issued(m), x)
<1>2. DOMAIN m = 1 .. Len(m) /\ Len(m) \in Nat /\ \A k \in 1 .. Len(m) : m[k] \in Nat
  OBVIOUS
<1>3. /\ DOMAIN Append(m, n) = 1 .. Len(m) + 1 /\ Append(m, n)[Len(m) + 1] = n
      /\ \A k \in 1 .. Len(m) : Append(m, n)[k] = m[k]
  BY <1>2
<1> HIDE DEF S
<1>4. Issued(m) \in Seq(S) /\ Len(Issued(m)) = Len(m) /\ x \in S
  <2>1. Issued(m) = [k \in 1 .. Len(m) |-> Request(k, m[k])]
    BY <1>2 DEF Issued
  <2>2. \A k \in 1 .. Len(m) : Request(k, m[k]) \in S
    BY <1>1, <1>2 DEF S
  <2>3. Issued(m) \in [1 .. Len(m) -> S]
    BY <2>1, <2>2
  <2>4. x \in S
    BY <1>1, <1>2 DEF S
  <2> QED
    BY <1>2, <2>3, <2>4
<1>5. a \in Seq(S) /\ Len(a) = Len(m) + 1
  <2> PICK m2 : m2 = Append(m, n)
    OBVIOUS
  <2>1. Issued(m2) = [k \in 1 .. Len(m) + 1 |-> Request(k, m2[k])]
    BY <1>3 DEF Issued
  <2>2. \A k \in 1 .. Len(m) + 1 : m2[k] \in Nat /\ k \in Nat
    BY <1>2, <1>3
  <2>3. \A k \in 1 .. Len(m) + 1 : Request(k, m2[k]) \in S
    BY <1>1, <2>2 DEF S
  <2>4. Issued(m2) \in [1 .. Len(m) + 1 -> S]
    BY <2>1, <2>3
  <2> QED
    BY <1>2, <2>4
<1> HIDE DEF x
<1>6. b \in Seq(S) /\ Len(b) = Len(m) + 1
  BY <1>2, <1>4
<1>7. ASSUME NEW k \in 1 .. Len(m) + 1
      PROVE  a[k] = b[k]
  <2>1. CASE k = Len(m) + 1
    BY <1>2, <1>3, <1>4, <2>1 DEF Issued, x
  <2>2. CASE k # Len(m) + 1
    <3>1. k \in 1 .. Len(m)
      BY <1>2, <2>2
    <3>2. a[k] = Request(k, m[k])
      BY <1>3, <3>1 DEF Issued
    <3>3. b[k] = Issued(m)[k]
      BY <1>4, <3>1
    <3> QED
      BY <1>2, <3>1, <3>2, <3>3 DEF Issued
  <2> QED
    BY <2>1, <2>2
<1> HIDE DEF a, b
<1>8. a = b
  BY <1>2, <1>5, <1>6, <1>7
<1> QED
  BY <1>2, <1>4, <1>8 DEF a, b, x

(* The request path implements ordered exactly-once delivery: the console     *)
(* issues requests, a last fragment dispatches the next one of them, and      *)
(* every other step of the console, the socket and the server changes nothing *)
(* that OrderedDelivery speaks of.                                            *)
THEOREM RequestPathDelivers ==
  ASSUME SynMidMessage = FALSE
  PROVE  Spec => ImplementsDelivery
<1>1. Init => Delivery!Init
  <2> SUFFICES ASSUME Init PROVE Issued(msgs) = <<>> /\ dispatched = <<>>
    BY DEF Delivery!Init, Issued
  <2>1. msgs = <<>> /\ dispatched = <<>>
    BY DEF Init
  <2> QED
    BY <2>1 DEF Issued
<1>2. Inv /\ Inv' /\ [Next]_vars => [Delivery!Next]_<<Issued(msgs), dispatched>>
  <2> SUFFICES ASSUME Inv, Inv', [Next]_vars
               PROVE  [Delivery!Next]_<<Issued(msgs), dispatched>>
    OBVIOUS
  <2> USE ReceiveAssumption
  <2>t. /\ msgs \in Seq(Nat) /\ dispatched \in Seq(Seq(Fragments)) /\ fragBuf \in Seq(Fragments)
        /\ Len(dispatched) \in Nat /\ Len(msgs) \in Nat
    BY DEF Inv, TypeOK
  <2>1. CASE ConsoleNext
    <3>1. dispatched' = dispatched
      BY <2>1, ServerStill DEF Inv, serverVars
    <3>2. CASE msgs' = msgs
      BY <3>1, <3>2 DEF Issued
    <3>3. CASE \E n \in Sizes : msgs' = Append(msgs, n)
      <4>1. PICK n \in Sizes : msgs' = Append(msgs, n)
        BY <3>3
      <4>2. /\ Len(Issued(msgs)) = Len(msgs)
            /\ Issued(msgs)' = Append(Issued(msgs), Request(Len(msgs) + 1, n))
        BY <2>t, <4>1, IssuedGrows
      <4>3. Request(Len(msgs) + 1, n) \in RequestsOf(Len(Issued(msgs)) + 1)
        BY <4>2 DEF RequestsOf
      <4>4. Delivery!Issue
        BY <3>1, <4>2, <4>3 DEF Delivery!Issue, Issued
      <4> QED
        BY <4>4 DEF Delivery!Next
    <3> QED
      BY <2>1, <3>2, <3>3 DEF ConsoleNext, IssueRequest, ContinueRequest, IssueUnreliable,
         Repeat, SeeAck, LoseAck, RestartSession, consoleVars
  <2>2. CASE handlePacket
    <3>1. msgs' = msgs
      BY <2>2 DEF handlePacket, consoleVars
    <3>2. Issued(msgs)' = Issued(msgs)
      BY <3>1 DEF Issued
    <3>3. CASE dispatched' = dispatched
      BY <3>2, <3>3
    <3>4. ASSUME NEW x \in Seq(Fragments), dispatched' = Append(dispatched, x)
          PROVE  Delivery!Dispatch
      <4>1. /\ Len(dispatched') = Len(dispatched) + 1
            /\ dispatched'[Len(dispatched) + 1] = x
        BY <2>t, <3>4
      <4>2. Len(dispatched) + 1 \in 1 .. Len(msgs) /\ x = Request(Len(dispatched) + 1, msgs[Len(dispatched) + 1])
        <5>1. ExactlyOnceInOrder'
          BY DEF Inv, ServerOK
        <5>2. Len(dispatched) + 1 <= Len(msgs)
          BY <3>1, <4>1, <5>1 DEF ExactlyOnceInOrder
        <5>3. Len(dispatched) + 1 \in 1 .. Len(dispatched')
          BY <2>t, <4>1
        <5>4. x = Request(Len(dispatched) + 1, msgs[Len(dispatched) + 1])
          BY <3>1, <4>1, <5>1, <5>3 DEF ExactlyOnceInOrder
        <5> QED
          BY <2>t, <5>2, <5>4
      <4>3. Len(Issued(msgs)) = Len(msgs) /\ Issued(msgs)[Len(dispatched) + 1] = x
        <5>1. Len(Issued(msgs)) = Len(msgs)
          <6>1. 0 \in Nat
            OBVIOUS
          <6> QED
            BY <2>t, <6>1, IssuedGrows
        <5> QED
          BY <2>t, <4>2, <5>1 DEF Issued
      <4>4. Len(dispatched) < Len(Issued(msgs))
        BY <2>t, <4>2, <4>3
      <4> QED
        BY <3>2, <3>4, <4>3, <4>4 DEF Delivery!Dispatch, Issued
    <3>5. CASE dispatched' # dispatched
      <4>1. PICK p : p = Head(wire) /\ Reassemble(p) /\ p \in Packets
        <5>1. Reassemble(Head(wire)) /\ wire # <<>>
          BY <2>2, <3>5 DEF handlePacket, processSYN, processData, serverVars
        <5>2. wire \in Seq(Packets)
          BY DEF Inv, TypeOK
        <5>3. Head(wire) \in Packets
          BY <5>1, <5>2
        <5> QED
          BY <5>1, <5>3
      <4>2. dispatched' = Append(dispatched, Append(fragBuf, p.payload))
        BY <3>5, <4>1 DEF Reassemble
      <4>3. Append(fragBuf, p.payload) \in Seq(Fragments)
        BY <2>t, <4>1 DEF Packets
      <4>4. Delivery!Dispatch
        BY <3>4, <4>2, <4>3
      <4> QED
        BY <4>4 DEF Delivery!Next
    <3> QED
      BY <3>3, <3>5
  <2>3. CASE UNCHANGED vars
    BY <2>3 DEF vars, Issued
  <2> QED
    BY <2>1, <2>2, <2>3 DEF Next, ConsoleNext
<1>3. Inv /\ Inv' /\ [Next]_vars
        => [Delivery!Next]_<<[m \in DOMAIN msgs |-> Request(m, msgs[m])], dispatched>>
  BY <1>2 DEF Issued
<1> QED
  BY <1>1, <1>3, InvAlways, PTL DEF Spec, ImplementsDelivery, Delivery!Spec
=============================================================================
