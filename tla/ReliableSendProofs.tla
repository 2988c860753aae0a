------------------------ MODULE ReliableSendProofs ------------------------
(***************************************************************************)
(* Proofs about the response and push path, for messages of any size, any  *)
(* number of sends in parallel, any pool and any drops and acks.           *)
(***************************************************************************)
EXTENDS ReliableSend, TLAPS

\* A fragment about to enter the pool is the one its send has sent last.
LastOK ==
  \A j \in DOMAIN jobs :
    jobs[j].stage = "register" =>
      /\ jobs[j].last \in 1 .. Len(sent) /\ jobs[j].no # 0
      /\ sent[jobs[j].last].job = j /\ sent[jobs[j].last].no = jobs[j].no

\* How far each send is, and what its goroutine's counter is worth.
CountersOK ==
  \A j \in DOMAIN jobs :
    LET job == jobs[j]
    IN /\ job.size \in Sizes /\ job.no <= job.size
       /\ job.stage = "ready" => /\ job.no < job.size
                                 /\ job.no + 1 < job.size => job.fragmentID = job.no + 1
       /\ job.stage = "register" => job.fragmentID = IF job.no = job.size THEN 0 ELSE job.no
       /\ job.stage = "done" => job.no = job.size

\* The fragments sent so far of each message are those its counter says.
SentOK ==
  /\ \A k \in 1 .. Len(sent) : sent[k].job \in DOMAIN jobs
  /\ \A j \in DOMAIN jobs :
       /\ \A k \in FragmentsOf(j) :
            /\ sent[k].no \in 1 .. jobs[j].no
            /\ sent[k].fragmentID = 0 <=> sent[k].no = jobs[j].size
       /\ \A k, l \in FragmentsOf(j) : k < l => sent[k].no < sent[l].no
       /\ \A n \in 1 .. jobs[j].no : \E k \in FragmentsOf(j) : sent[k].no = n

\* As long as no id is used twice, the id of a packet is its number, a slot of the
\* pool holds the packet of its own id, and an ack stands for accepted packets.
Numbered ==
  /\ outReliable = (Len(sent) + 1) % SeqSpace
  /\ \A k \in 1 .. Len(sent) : sent[k].pid = k
  /\ \A p \in SeqIds : pending[p] \in {0, p}
  /\ \A a \in acks : \A p \in AckedBy(a) : p = 0 \/ p \in got
  /\ NeverForgotten

-----------------------------------------------------------------------------
(* What each step does to the sends *)

(* The fields of a send. *)
LEMMA JobFields ==
  ASSUME NEW js \in Seq(Jobs), NEW j \in DOMAIN js
  PROVE  /\ js[j] \in Jobs /\ j \in Nat /\ js[j].no \in Nat /\ js[j].size \in Nat
         /\ js[j].fragmentID \in FragIds /\ js[j].last \in Nat
<1>1. js[j] \in Jobs /\ j \in Nat
  OBVIOUS
<1> QED
  BY <1>1 DEF Jobs

\* One send moves, the others stay where they are.
Moves(j) ==
  /\ jobs' \in Seq(Jobs) /\ DOMAIN jobs' = DOMAIN jobs
  /\ \A i \in DOMAIN jobs : i # j => jobs'[i] = jobs[i]
  /\ jobs'[j].size = jobs[j].size

(* sendOneFragment moves one send on by a fragment, which is appended. *)
LEMMA SendMoves ==
  ASSUME TypeOK, NEW j \in DOMAIN jobs, sendOneFragment(j)
  PROVE  /\ Moves(j) /\ jobs[j].stage = "ready" /\ j \in Nat
         /\ jobs'[j].no = jobs[j].no + 1 /\ jobs'[j].last = Len(sent) + 1
         /\ jobs'[j].stage = "register"
         /\ jobs'[j].fragmentID = IF jobs[j].no + 1 >= jobs[j].size THEN 0 ELSE jobs[j].fragmentID
         /\ sent' = Append(sent, [job |-> j, no |-> jobs[j].no + 1, pid |-> outReliable,
                                  fragmentID |-> jobs'[j].fragmentID])
<1> USE SendAssumption
<1> PICK fid : fid = IF IsLastChunk(jobs[j]) THEN 0 ELSE jobs[j].fragmentID
  OBVIOUS
<1>1. /\ jobs \in Seq(Jobs) /\ jobs[j] \in Jobs /\ j \in 1 .. Len(jobs) /\ DOMAIN jobs = 1 .. Len(jobs)
      /\ Len(sent) \in Nat
  BY DEF TypeOK
<1>2. jobs[j].no \in Nat /\ jobs[j].size \in Nat /\ jobs[j].fragmentID \in FragIds /\ fid \in FragIds
  <2>1. jobs[j].no \in Nat /\ jobs[j].size \in Nat /\ jobs[j].fragmentID \in FragIds
    BY <1>1, JobFields
  <2>2. 0 \in FragIds
    BY DEF FragIds
  <2> QED
    BY <2>1, <2>2
<1> DEFINE new == [jobs[j] EXCEPT !.no = @ + 1, !.fragmentID = fid, !.last = Len(sent) + 1,
                                  !.stage = "register"]
<1>3. new \in Jobs
  <2> PICK r : r = jobs[j]
    OBVIOUS
  <2>1. r \in Jobs /\ r.no + 1 \in Nat /\ Len(sent) + 1 \in Nat
    BY <1>1, <1>2
  <2>2. [r EXCEPT !.no = @ + 1, !.fragmentID = fid, !.last = Len(sent) + 1, !.stage = "register"]
          \in Jobs
    BY <1>2, <2>1 DEF Jobs
  <2> QED
    BY <2>2
<1>4. jobs' = [jobs EXCEPT ![j] = new] /\ jobs[j].stage = "ready"
  BY <1>1 DEF sendOneFragment, Jobs
<1>5. /\ new.size = jobs[j].size /\ new.no = jobs[j].no + 1 /\ new.last = Len(sent) + 1
      /\ new.stage = "register" /\ new.fragmentID = fid
  BY <1>1 DEF Jobs
<1> HIDE DEF new
<1>6. Moves(j) /\ jobs'[j] = new
  BY <1>1, <1>3, <1>4, <1>5 DEF Moves
<1>7. sent' = Append(sent, [job |-> j, no |-> jobs[j].no + 1, pid |-> outReliable, fragmentID |-> fid])
  BY DEF sendOneFragment
<1> QED
  BY <1>1, <1>4, <1>5, <1>6, <1>7 DEF IsLastChunk

(* RememberFragment lets it go on to the next fragment, or ends it. *)
LEMMA RememberMoves ==
  ASSUME TypeOK, NEW j \in DOMAIN jobs, RememberFragment(j)
  PROVE  /\ Moves(j) /\ jobs[j].stage = "register"
         /\ jobs'[j].no = jobs[j].no /\ jobs'[j].last = jobs[j].last
         /\ jobs'[j].stage = IF jobs[j].fragmentID = 0 THEN "done" ELSE "ready"
         /\ jobs'[j].fragmentID = (jobs[j].fragmentID + 1) % FragSpace
<1> USE SendAssumption
<1>1. /\ jobs \in Seq(Jobs) /\ jobs[j] \in Jobs /\ j \in 1 .. Len(jobs) /\ DOMAIN jobs = 1 .. Len(jobs)
  BY DEF TypeOK
<1>2. jobs[j].fragmentID \in Nat /\ (jobs[j].fragmentID + 1) % FragSpace \in FragIds
  <2>1. jobs[j].fragmentID \in FragIds
    BY <1>1 DEF Jobs
  <2>2. \A i \in FragIds : i \in Nat /\ (i + 1) % FragSpace \in FragIds
    BY DEF FragIds
  <2> QED
    BY <2>1, <2>2
<1> DEFINE new == [jobs[j] EXCEPT !.stage = IF jobs[j].fragmentID = 0 THEN "done" ELSE "ready",
                                  !.fragmentID = (jobs[j].fragmentID + 1) % FragSpace]
<1>3. new \in Jobs
  BY <1>1, <1>2 DEF Jobs
<1>4. jobs' = [jobs EXCEPT ![j] = new] /\ jobs[j].stage = "register"
  BY <1>1 DEF RememberFragment, Jobs
<1>5. /\ new.size = jobs[j].size /\ new.no = jobs[j].no /\ new.last = jobs[j].last
      /\ new.stage = (IF jobs[j].fragmentID = 0 THEN "done" ELSE "ready")
      /\ new.fragmentID = (jobs[j].fragmentID + 1) % FragSpace
  BY <1>1 DEF Jobs
<1> HIDE DEF new
<1>6. Moves(j) /\ jobs'[j] = new
  BY <1>1, <1>3, <1>4, <1>5 DEF Moves
<1> QED
  BY <1>4, <1>5, <1>6

(* CutSend ends it where it is. *)
LEMMA CutMoves ==
  ASSUME TypeOK, NEW j \in DOMAIN jobs, CutSend(j)
  PROVE  /\ Moves(j) /\ jobs[j].stage = "ready"
         /\ jobs'[j].no = jobs[j].no /\ jobs'[j].last = jobs[j].last
         /\ jobs'[j].stage = "cut"
<1>1. /\ jobs \in Seq(Jobs) /\ jobs[j] \in Jobs /\ j \in 1 .. Len(jobs) /\ DOMAIN jobs = 1 .. Len(jobs)
  BY DEF TypeOK
<1> DEFINE new == [jobs[j] EXCEPT !.stage = "cut"]
<1>2. new \in Jobs
  BY <1>1 DEF Jobs
<1>3. jobs' = [jobs EXCEPT ![j] = new] /\ jobs[j].stage = "ready"
  BY <1>1 DEF CutSend, Jobs
<1>4. new.size = jobs[j].size /\ new.no = jobs[j].no /\ new.last = jobs[j].last /\ new.stage = "cut"
  BY <1>1 DEF Jobs
<1> HIDE DEF new
<1>5. Moves(j) /\ jobs'[j] = new
  BY <1>1, <1>2, <1>3, <1>4 DEF Moves
<1> QED
  BY <1>3, <1>4, <1>5

(* SendRMC begins another. *)
LEMMA BeginMoves ==
  ASSUME TypeOK, SendRMC
  PROVE  /\ jobs' \in Seq(Jobs) /\ Len(jobs) \in Nat
         /\ DOMAIN jobs = 1 .. Len(jobs) /\ DOMAIN jobs' = 1 .. Len(jobs) + 1
         /\ \A i \in DOMAIN jobs : jobs'[i] = jobs[i]
         /\ jobs'[Len(jobs) + 1].size \in Sizes /\ jobs'[Len(jobs) + 1].no = 0
         /\ jobs'[Len(jobs) + 1].fragmentID = 1 /\ jobs'[Len(jobs) + 1].stage = "ready"
<1> USE SendAssumption
<1>1. jobs \in Seq(Jobs) /\ DOMAIN jobs = 1 .. Len(jobs) /\ Len(jobs) \in Nat
  BY DEF TypeOK
<1>2. PICK n \in Sizes, onRecv \in BOOLEAN :
        jobs' = Append(jobs, [size |-> n, no |-> 0, fragmentID |-> 1, last |-> 0,
                              onRecv |-> onRecv, stage |-> "ready"])
  BY DEF SendRMC
<1> DEFINE new == [size |-> n, no |-> 0, fragmentID |-> 1, last |-> 0,
                   onRecv |-> onRecv, stage |-> "ready"]
<1>3. /\ new \in Jobs /\ new.size \in Sizes /\ new.no = 0 /\ new.fragmentID = 1
      /\ new.stage = "ready"
  BY DEF Jobs, FragIds
<1> HIDE DEF new
<1>4. jobs' = Append(jobs, new)
  BY <1>2 DEF new
<1> QED
  BY <1>1, <1>3, <1>4

Sendings == [job : Nat, no : Nat, pid : SeqIds, fragmentID : FragIds]

\* The list of what was sent grows by a fragment of send j.
Grows(j) ==
  /\ Len(sent) \in Nat /\ Len(sent') = Len(sent) + 1 /\ sent' \in Seq(Sendings)
  /\ \A k \in 1 .. Len(sent) : sent'[k] = sent[k]
  /\ sent'[Len(sent) + 1].job = j /\ sent'[Len(sent) + 1].no = jobs[j].no + 1
  /\ sent'[Len(sent) + 1].pid = outReliable
  /\ sent'[Len(sent) + 1].fragmentID = jobs'[j].fragmentID

(* What sendOneFragment sends is the next fragment under the next id. *)
LEMMA SendGrows ==
  ASSUME TypeOK, NEW j \in DOMAIN jobs, sendOneFragment(j)
  PROVE  Grows(j)
<1> DEFINE new == [job |-> j, no |-> jobs[j].no + 1, pid |-> outReliable,
                   fragmentID |-> jobs'[j].fragmentID]
<1>1. sent' = Append(sent, new) /\ j \in Nat /\ Moves(j)
  BY SendMoves
<1>2. sent \in Seq(Sendings) /\ outReliable \in SeqIds /\ jobs[j].no \in Nat
  BY JobFields DEF TypeOK, Sendings
<1>3. jobs'[j].fragmentID \in FragIds
  <2>1. jobs' \in Seq(Jobs) /\ j \in DOMAIN jobs'
    BY <1>1 DEF Moves
  <2> QED
    BY <2>1, JobFields
<1>4. new \in Sendings
  BY <1>1, <1>2, <1>3 DEF Sendings
<1>5. /\ new.job = j /\ new.no = jobs[j].no + 1 /\ new.pid = outReliable
      /\ new.fragmentID = jobs'[j].fragmentID
  OBVIOUS
<1> HIDE DEF new
<1> QED
  BY <1>1, <1>2, <1>4, <1>5 DEF Grows

(* An ack of the console is one: ids, not numbers. *)
LEMMA AckTypes ==
  ASSUME TypeOK, NEW k \in 1 .. Len(sent), NEW a \in AckFor(k, got \cup {k})
  PROVE  a \in [base : SeqIds, extra : SUBSET SeqIds]
<1> USE SendAssumption
<1>1. \A n \in Nat : n % SeqSpace \in SeqIds
  BY DEF SeqIds
<1>2. got \cup {k} \subseteq Nat /\ Len(sent) \in Nat
  BY DEF TypeOK
<1>3. CASE a = [base |-> k % SeqSpace, extra |-> {}]
  BY <1>1, <1>3
<1>4. ASSUME NEW n \in 0 .. Len(sent),
             a = [base |-> n % SeqSpace, extra |-> {e % SeqSpace : e \in (got \cup {k}) \ (1 .. n)}]
      PROVE  a \in [base : SeqIds, extra : SUBSET SeqIds]
  <2>1. {e % SeqSpace : e \in (got \cup {k}) \ (1 .. n)} \subseteq SeqIds
    BY <1>1, <1>2
  <2>2. n % SeqSpace \in SeqIds
    BY <1>1
  <2> QED
    BY <1>4, <2>1, <2>2
<1> QED
  BY <1>3, <1>4 DEF AckFor

(* Every step keeps the types; a send that is about to remember a fragment    *)
(* remembers the one it has sent.                                             *)
LEMMA TypeStep ==
  ASSUME TypeOK, LastOK, [Next]_vars
  PROVE  TypeOK' /\ LastOK'
<1> USE SendAssumption
<1>t. /\ jobs \in Seq(Jobs) /\ DOMAIN jobs = 1 .. Len(jobs) /\ sent \in Seq(Sendings)
      /\ Len(sent) \in Nat /\ wire \in Seq(1 .. Len(sent))
  BY DEF TypeOK, Sendings
<1>1. CASE SendRMC
  <2>1. UNCHANGED <<state, outReliable, sent, pending, batch, wire, got, acks>>
    BY <1>1 DEF SendRMC
  <2>2. jobs' \in Seq(Jobs) /\ LastOK'
    BY <1>1, <2>1, BeginMoves DEF LastOK
  <2> QED
    BY <2>1, <2>2 DEF TypeOK
<1>2. CASE ProcessAck
  <2>1. UNCHANGED <<state, outReliable, jobs, sent, batch, wire, got>> /\ acks' \subseteq acks
    BY <1>2 DEF ProcessAck
  <2>2. pending' \in [SeqIds -> 0 .. Len(sent)]
    <3>1. PICK a \in acks : ackPackets(a)
      BY <1>2 DEF ProcessAck
    <3>2. \A p \in SeqIds : pending[p] \in 0 .. Len(sent)
      BY DEF TypeOK
    <3> QED
      BY <1>t, <3>1, <3>2 DEF ackPackets
  <2>3. LastOK'
    BY <2>1 DEF LastOK
  <2> QED
    BY <2>1, <2>2, <2>3 DEF TypeOK
<1>3. CASE RetransmitTick
  <2>1. UNCHANGED <<state, outReliable, jobs, sent, pending, wire, got, acks>> /\ batch' = Pooled
    BY <1>3 DEF RetransmitTick, Snapshot
  <2>2. Pooled \subseteq 1 .. Len(sent)
    <3>1. \A p \in SeqIds : pending[p] \in 0 .. Len(sent)
      BY DEF TypeOK
    <3> QED
      BY <1>t, <3>1 DEF Pooled
  <2>3. LastOK'
    BY <2>1 DEF LastOK
  <2> QED
    BY <2>1, <2>2, <2>3 DEF TypeOK
<1>4. CASE Resend
  <2>1. UNCHANGED <<state, outReliable, jobs, sent, pending, got, acks>> /\ batch' \subseteq batch
    BY <1>4 DEF Resend
  <2>2. wire' \in Seq(1 .. Len(sent))
    <3>1. PICK k \in batch : wire' = Append(wire, k)
      BY <1>4 DEF Resend
    <3>2. k \in 1 .. Len(sent)
      BY DEF TypeOK
    <3> QED
      BY <1>t, <3>1, <3>2
  <2>3. LastOK'
    BY <2>1 DEF LastOK
  <2> QED
    BY <2>1, <2>2, <2>3 DEF TypeOK
<1>5. CASE close
  BY <1>5 DEF close, TypeOK, LastOK
<1>6. CASE Drop
  <2>1. UNCHANGED <<state, outReliable, jobs, sent, pending, batch, got, acks>>
    BY <1>6 DEF Drop
  <2>2. wire' \in Seq(1 .. Len(sent))
    BY <1>t, <1>6 DEF Drop
  <2>3. LastOK'
    BY <2>1 DEF LastOK
  <2> QED
    BY <2>1, <2>2, <2>3 DEF TypeOK
<1>7. ASSUME NEW j \in DOMAIN jobs, CutSend(j)
      PROVE  TypeOK' /\ LastOK'
  <2>1. UNCHANGED <<state, outReliable, sent, pending, batch, wire, got, acks>>
    BY <1>7 DEF CutSend
  <2>2. jobs' \in Seq(Jobs) /\ LastOK'
    BY <1>7, <2>1, CutMoves DEF LastOK, Moves
  <2> QED
    BY <2>1, <2>2 DEF TypeOK
<1>8. ASSUME NEW j \in DOMAIN jobs, sendOneFragment(j)
      PROVE  TypeOK' /\ LastOK'
  <2>1. /\ UNCHANGED <<state, pending, batch, got, acks>>
        /\ outReliable' = (outReliable + 1) % SeqSpace /\ wire' = Append(wire, Len(sent) + 1)
    BY <1>8 DEF sendOneFragment
  <2>2. Grows(j)
    BY <1>8, SendGrows
  <2>3. /\ Moves(j) /\ jobs'[j].no = jobs[j].no + 1 /\ jobs'[j].last = Len(sent) + 1
    BY <1>8, SendMoves
  <2>4. outReliable' \in SeqIds
    <3>1. outReliable \in Nat
      BY DEF TypeOK, SeqIds
    <3> QED
      BY <2>1, <3>1 DEF SeqIds
  <2>5. /\ Len(sent') = Len(sent) + 1 /\ sent' \in Seq(Sendings)
        /\ \A k \in 1 .. Len(sent) : k \in 1 .. Len(sent')
        /\ \A k \in 0 .. Len(sent) : k \in 0 .. Len(sent')
    BY <1>t, <2>2 DEF Grows
  <2>6. wire' \in Seq(1 .. Len(sent'))
    <3>1. wire \in Seq(1 .. Len(sent'))
      BY <1>t, <2>5
    <3>2. Len(sent) + 1 \in 1 .. Len(sent')
      BY <1>t, <2>5
    <3> QED
      BY <2>1, <3>1, <3>2
  <2>7. /\ pending' \in [SeqIds -> 0 .. Len(sent')] /\ batch' \subseteq 1 .. Len(sent')
        /\ got' \subseteq 1 .. Len(sent')
    BY <2>1, <2>5 DEF TypeOK
  <2>8. LastOK'
    <3> SUFFICES ASSUME NEW i \in DOMAIN jobs', jobs'[i].stage = "register"
                 PROVE  /\ jobs'[i].last \in 1 .. Len(sent') /\ jobs'[i].no # 0
                        /\ sent'[jobs'[i].last].job = i /\ sent'[jobs'[i].last].no = jobs'[i].no
      BY DEF LastOK
    <3>1. CASE i = j
      <4>1. jobs[j].no \in Nat
        BY <1>t, JobFields
      <4> QED
        BY <1>t, <2>2, <2>3, <2>5, <3>1, <4>1 DEF Grows
    <3>2. CASE i # j
      <4>1. i \in DOMAIN jobs /\ jobs'[i] = jobs[i]
        BY <2>3, <3>2 DEF Moves
      <4>2. /\ jobs[i].last \in 1 .. Len(sent) /\ jobs[i].no # 0
            /\ sent[jobs[i].last].job = i /\ sent[jobs[i].last].no = jobs[i].no
        BY <4>1 DEF LastOK
      <4>3. sent'[jobs[i].last] = sent[jobs[i].last]
        BY <2>2, <4>2 DEF Grows
      <4> QED
        BY <2>5, <4>1, <4>2, <4>3
    <3> QED
      BY <3>1, <3>2
  <2>9. jobs' \in Seq(Jobs) /\ acks' = acks /\ state' = state
    BY <2>1, <2>3 DEF Moves
  <2> QED
    BY <2>4, <2>5, <2>6, <2>7, <2>8, <2>9 DEF TypeOK, Sendings
<1>9. ASSUME NEW j \in DOMAIN jobs, RememberFragment(j)
      PROVE  TypeOK' /\ LastOK'
  <2>1. /\ UNCHANGED <<state, outReliable, sent, batch, wire, got, acks>>
        /\ pending' = [pending EXCEPT ![sent[jobs[j].last].pid] = jobs[j].last]
    BY <1>9 DEF RememberFragment
  <2>2. Moves(j) /\ jobs[j].stage = "register" /\ jobs'[j].stage \in {"done", "ready"}
    BY <1>9, RememberMoves
  <2>3. LastOK'
    BY <2>1, <2>2 DEF LastOK, Moves
  <2>4. pending' \in [SeqIds -> 0 .. Len(sent)]
    <3>1. jobs[j].last \in 1 .. Len(sent)
      BY <2>2 DEF LastOK
    <3>2. pending \in [SeqIds -> 0 .. Len(sent)]
      BY DEF TypeOK
    <3>3. jobs[j].last \in 0 .. Len(sent)
      BY <3>1
    <3> QED
      BY <2>1, <3>2, <3>3
  <2> QED
    BY <2>1, <2>2, <2>3, <2>4 DEF TypeOK, Moves
<1>10. ASSUME NEW k \in DOMAIN sent, Accept(k)
       PROVE  TypeOK' /\ LastOK'
  <2>1. /\ UNCHANGED <<state, outReliable, jobs, sent, pending, batch>> /\ got' = got \cup {k}
        /\ wire # <<>> /\ wire' = Tail(wire)
    BY <1>10 DEF Accept
  <2>2. k \in 1 .. Len(sent)
    BY <1>t
  <2>3. wire' \in Seq(1 .. Len(sent))
    BY <1>t, <2>1
  <2>4. acks' \subseteq [base : SeqIds, extra : SUBSET SeqIds]
    <3>1. PICK a \in AckFor(k, got \cup {k}) : acks' \subseteq acks \cup {a}
      BY <1>10 DEF Accept
    <3>2. a \in [base : SeqIds, extra : SUBSET SeqIds]
      BY <2>2, AckTypes
    <3> QED
      BY <3>1, <3>2 DEF TypeOK
  <2>5. LastOK'
    BY <2>1 DEF LastOK
  <2> QED
    BY <2>1, <2>2, <2>3, <2>4, <2>5 DEF TypeOK
<1>11. CASE UNCHANGED vars
  BY <1>11 DEF vars, TypeOK, LastOK
<1> QED
  BY <1>1, <1>2, <1>3, <1>4, <1>5, <1>6, <1>7, <1>8, <1>9, <1>10, <1>11 DEF Next

(* The initial state. *)
LEMMA InitTypes == Init => TypeOK /\ LastOK
  BY SendAssumption DEF Init, TypeOK, LastOK, SeqIds

(* The variables of the connection, the socket and the console keep their     *)
(* types; in particular a packet that enters the pool is one that was sent    *)
(* (sendOneFragment registers after it has let c.mu go).                      *)
THEOREM SendTypes == Spec => []TypeOK
<1>1. TypeOK /\ LastOK /\ [Next]_vars => (TypeOK /\ LastOK)'
  BY TypeStep
<1> QED
  BY <1>1, InitTypes, PTL DEF Spec

-----------------------------------------------------------------------------
(* Messages *)

\* What CountersOK and SentOK say of one send.
CounterOK(job) ==
  /\ job.size \in Sizes /\ job.no <= job.size
  /\ job.stage = "ready" => /\ job.no < job.size
                            /\ job.no + 1 < job.size => job.fragmentID = job.no + 1
  /\ job.stage = "register" => job.fragmentID = IF job.no = job.size THEN 0 ELSE job.no
  /\ job.stage = "done" => job.no = job.size

ListOK(j) ==
  /\ \A k \in FragmentsOf(j) :
       /\ sent[k].no \in 1 .. jobs[j].no
       /\ sent[k].fragmentID = 0 <=> sent[k].no = jobs[j].size
  /\ \A k, l \in FragmentsOf(j) : k < l => sent[k].no < sent[l].no
  /\ \A n \in 1 .. jobs[j].no : \E k \in FragmentsOf(j) : sent[k].no = n

(* A send that has nothing new on the wire keeps its list. *)
LEMMA ListStill ==
  ASSUME NEW j, ListOK(j), FragmentsOf(j)' = FragmentsOf(j),
         \A k \in FragmentsOf(j) : sent'[k] = sent[k],
         jobs'[j].no = jobs[j].no, jobs'[j].size = jobs[j].size
  PROVE  ListOK(j)'
  BY DEF ListOK

(* The list of a send grows by the fragment that comes next. *)
LEMMA ListGrows ==
  ASSUME TypeOK, NEW j \in DOMAIN jobs, ListOK(j), CounterOK(jobs[j]), sendOneFragment(j)
  PROVE  ListOK(j)' /\ CounterOK(jobs'[j])
<1> USE SendAssumption
<1> PICK n : n = jobs[j].no
  OBVIOUS
<1> PICK z : z = Len(sent) + 1
  OBVIOUS
<1>1. /\ jobs[j].stage = "ready" /\ jobs'[j].no = n + 1 /\ jobs'[j].stage = "register"
      /\ jobs'[j].fragmentID = (IF n + 1 >= jobs[j].size THEN 0 ELSE jobs[j].fragmentID)
      /\ jobs'[j].size = jobs[j].size
  BY SendMoves DEF Moves
<1>2. n \in Nat /\ jobs[j].size \in Nat
  BY JobFields DEF TypeOK
<1>3. /\ n < jobs[j].size /\ jobs[j].size \in Sizes
      /\ n + 1 < jobs[j].size => jobs[j].fragmentID = n + 1
  BY <1>1 DEF CounterOK
<1>4. /\ Len(sent) \in Nat /\ Len(sent') = z /\ \A k \in 1 .. Len(sent) : sent'[k] = sent[k]
      /\ sent'[z].job = j /\ sent'[z].no = n + 1
      /\ sent'[z].fragmentID = jobs'[j].fragmentID
  BY SendGrows DEF Grows
<1>5. /\ FragmentsOf(j)' = FragmentsOf(j) \cup {z} /\ FragmentsOf(j) \subseteq 1 .. Len(sent)
      /\ \A k \in FragmentsOf(j) : k \in Nat /\ k < z
  BY <1>4 DEF FragmentsOf
<1>6. jobs'[j].fragmentID = 0 <=> n + 1 = jobs[j].size
  BY <1>1, <1>2, <1>3
<1>7. \A k \in FragmentsOf(j) : sent[k].no \in 1 .. n /\ sent'[k] = sent[k]
  BY <1>4, <1>5 DEF ListOK
<1>8. ASSUME NEW k \in FragmentsOf(j) \cup {z}
      PROVE  /\ sent'[k].no \in 1 .. n + 1
             /\ sent'[k].fragmentID = 0 <=> sent'[k].no = jobs[j].size
  <2>1. CASE k = z
    BY <1>2, <1>4, <1>6, <2>1
  <2>2. CASE k # z
    <3>1. k \in FragmentsOf(j) /\ sent'[k] = sent[k] /\ sent[k].no \in 1 .. n
      BY <1>7, <1>8, <2>2
    <3> QED
      BY <1>2, <3>1 DEF ListOK
  <2> QED
    BY <2>1, <2>2
<1>9. ASSUME NEW k \in FragmentsOf(j) \cup {z}, NEW l \in FragmentsOf(j) \cup {z}, k < l
      PROVE  sent'[k].no < sent'[l].no
  <2>1. CASE l = z
    <3>1. k \in FragmentsOf(j)
      BY <1>4, <1>9, <2>1
    <3>2. sent'[k].no = sent[k].no /\ sent[k].no \in 1 .. n
      BY <1>7, <3>1
    <3>3. sent'[l].no = n + 1
      BY <1>4, <2>1
    <3> QED
      BY <1>2, <3>2, <3>3
  <2>2. CASE l # z
    <3>1. l \in FragmentsOf(j) /\ k # z
      BY <1>4, <1>5, <1>9, <2>2
    <3> QED
      BY <1>7, <1>9, <3>1 DEF ListOK
  <2> QED
    BY <2>1, <2>2
<1>10. ASSUME NEW i \in 1 .. n + 1
       PROVE  \E k \in FragmentsOf(j) \cup {z} : sent'[k].no = i
  <2>1. CASE i = n + 1
    BY <1>4, <2>1
  <2>2. CASE i # n + 1
    <3>1. i \in 1 .. n
      BY <1>2, <2>2
    <3>2. PICK k \in FragmentsOf(j) : sent[k].no = i
      BY <3>1 DEF ListOK
    <3> QED
      BY <1>7, <3>2
  <2> QED
    BY <2>1, <2>2
<1>11. ListOK(j)'
  BY <1>1, <1>5, <1>8, <1>9, <1>10 DEF ListOK
<1>12. CounterOK(jobs'[j])
  BY <1>1, <1>2, <1>3 DEF CounterOK
<1> QED
  BY <1>11, <1>12

(* Every step keeps the counters and the lists of all sends. *)
LEMMA MessageStep ==
  ASSUME Sizes \subseteq 1 .. FragSpace, TypeOK, LastOK, CountersOK, SentOK, [Next]_vars
  PROVE  CountersOK' /\ SentOK'
<1> USE SendAssumption
<1>t. /\ jobs \in Seq(Jobs) /\ DOMAIN jobs = 1 .. Len(jobs) /\ Len(jobs) \in Nat /\ Len(sent) \in Nat
  BY DEF TypeOK
<1>o. \A i \in DOMAIN jobs : CounterOK(jobs[i]) /\ ListOK(i)
  BY DEF CountersOK, SentOK, CounterOK, ListOK
<1>q. ASSUME \A i \in DOMAIN jobs' : CounterOK(jobs'[i]) /\ ListOK(i)',
             \A k \in 1 .. Len(sent') : sent'[k].job \in DOMAIN jobs'
      PROVE  CountersOK' /\ SentOK'
  BY <1>q DEF CountersOK, SentOK, CounterOK, ListOK
<1>f. UNCHANGED sent => \A i : FragmentsOf(i)' = FragmentsOf(i)
  BY DEF FragmentsOf
<1>1. CASE SendRMC
  <2> PICK z : z = Len(jobs) + 1
    OBVIOUS
  <2>1. sent' = sent
    BY <1>1 DEF SendRMC
  <2>2. /\ DOMAIN jobs' = 1 .. z /\ z \notin DOMAIN jobs
        /\ \A i \in DOMAIN jobs : jobs'[i] = jobs[i]
        /\ jobs'[z].size \in Sizes /\ jobs'[z].no = 0
        /\ jobs'[z].fragmentID = 1 /\ jobs'[z].stage = "ready"
    BY <1>t, <1>1, BeginMoves
  <2>3. CounterOK(jobs'[z])
    <3> PICK s, w : s = jobs'[z].size /\ w = jobs'[z]
      OBVIOUS
    <3>1. s \in Sizes /\ w.size = s /\ w.no = 0 /\ w.fragmentID = 1 /\ w.stage = "ready"
      BY <2>2, Zenon
    <3>2. s \in Nat \ {0}
      BY <3>1
    <3>3. s \in Nat /\ s > 0
      BY <3>2
    <3>4. CounterOK(w)
      BY <3>1, <3>3 DEF CounterOK
    <3> QED
      BY <3>4
  <2>4. ListOK(z)'
    <3>1. FragmentsOf(z)' = {}
      BY <2>1, <2>2 DEF FragmentsOf, SentOK
    <3> QED
      BY <2>2, <3>1 DEF ListOK
  <2>5. ASSUME NEW i \in DOMAIN jobs', i # z
        PROVE  CounterOK(jobs'[i]) /\ ListOK(i)'
    <3>1. i \in DOMAIN jobs
      BY <1>t, <2>2, <2>5
    <3> QED
      BY <1>f, <1>o, <2>1, <2>2, <3>1, ListStill
  <2>6. \A k \in 1 .. Len(sent') : sent'[k].job \in DOMAIN jobs'
    BY <1>t, <2>1, <2>2 DEF SentOK
  <2> QED
    BY <1>q, <2>3, <2>4, <2>5, <2>6
<1>2. CASE UNCHANGED <<jobs, sent>>
  BY <1>2 DEF CountersOK, SentOK, FragmentsOf
<1>3. ASSUME NEW j \in DOMAIN jobs, Moves(j), sent' = sent, jobs'[j].no = jobs[j].no,
             CounterOK(jobs'[j])
      PROVE  CountersOK' /\ SentOK'
  <2>1. ASSUME NEW i \in DOMAIN jobs'
        PROVE  CounterOK(jobs'[i]) /\ ListOK(i)'
    <3>1. i \in DOMAIN jobs /\ (i # j => jobs'[i] = jobs[i]) /\ jobs'[j].size = jobs[j].size
      BY <1>3 DEF Moves
    <3> QED
      BY <1>f, <1>o, <1>3, <3>1, ListStill
  <2>2. \A k \in 1 .. Len(sent') : sent'[k].job \in DOMAIN jobs'
    BY <1>3 DEF Moves, SentOK
  <2> QED
    BY <1>q, <2>1, <2>2
<1>4. ASSUME NEW j \in DOMAIN jobs, CutSend(j)
      PROVE  CountersOK' /\ SentOK'
  <2>1. /\ Moves(j) /\ sent' = sent /\ jobs'[j].no = jobs[j].no /\ jobs'[j].stage = "cut"
    BY <1>4, CutMoves DEF CutSend
  <2>2. CounterOK(jobs'[j])
    BY <1>o, <2>1 DEF CounterOK, Moves
  <2> QED
    BY <1>3, <2>1, <2>2
<1>5. ASSUME NEW j \in DOMAIN jobs, RememberFragment(j)
      PROVE  CountersOK' /\ SentOK'
  <2>1. /\ Moves(j) /\ sent' = sent /\ jobs'[j].no = jobs[j].no /\ jobs[j].stage = "register"
        /\ jobs'[j].stage = (IF jobs[j].fragmentID = 0 THEN "done" ELSE "ready")
        /\ jobs'[j].fragmentID = (jobs[j].fragmentID + 1) % FragSpace
    BY <1>5, RememberMoves DEF RememberFragment
  <2>2. jobs'[j].size = jobs[j].size
    BY <2>1 DEF Moves
  <2> PICK n : n = jobs[j].no
    OBVIOUS
  <2>3. /\ n \in Nat \ {0} /\ n <= jobs[j].size /\ jobs[j].size \in Sizes /\ jobs[j].size \in 1 .. FragSpace
        /\ jobs[j].fragmentID = IF n = jobs[j].size THEN 0 ELSE n
    BY <1>t, <1>o, <2>1, JobFields DEF CounterOK, LastOK
  <2>4. CASE n = jobs[j].size
    <3>1. jobs'[j].stage = "done"
      BY <2>1, <2>3, <2>4
    <3>2. CounterOK(jobs'[j])
      BY <2>1, <2>2, <2>3, <2>4, <3>1 DEF CounterOK
    <3> QED
      BY <1>3, <2>1, <3>2
  <2>5. CASE n # jobs[j].size
    <3>1. jobs[j].fragmentID = n /\ n < jobs[j].size /\ jobs'[j].stage = "ready"
      BY <2>1, <2>3, <2>5
    <3>2. n + 1 < jobs[j].size => (n + 1) % FragSpace = n + 1
      BY <2>3
    <3>3. CounterOK(jobs'[j])
      BY <2>1, <2>2, <2>3, <3>1, <3>2 DEF CounterOK
    <3> QED
      BY <1>3, <2>1, <3>3
  <2> QED
    BY <2>4, <2>5
<1>6. ASSUME NEW j \in DOMAIN jobs, sendOneFragment(j)
      PROVE  CountersOK' /\ SentOK'
  <2>1. Moves(j) /\ Grows(j)
    BY <1>6, SendMoves, SendGrows
  <2>2. ListOK(j)' /\ CounterOK(jobs'[j])
    BY <1>o, <1>6, ListGrows
  <2>3. ASSUME NEW i \in DOMAIN jobs', i # j
        PROVE  CounterOK(jobs'[i]) /\ ListOK(i)'
    <3>1. i \in DOMAIN jobs /\ jobs'[i] = jobs[i]
      BY <2>1, <2>3 DEF Moves
    <3>2. FragmentsOf(i)' = FragmentsOf(i) /\ \A k \in FragmentsOf(i) : sent'[k] = sent[k]
      BY <2>1, <2>3 DEF Grows, FragmentsOf
    <3> QED
      BY <1>o, <3>1, <3>2, ListStill
  <2>4. \A k \in 1 .. Len(sent') : sent'[k].job \in DOMAIN jobs'
    BY <2>1 DEF Moves, Grows, SentOK
  <2> QED
    BY <1>q, <2>2, <2>3, <2>4
<1>7. CASE ProcessAck \/ RetransmitTick \/ Resend \/ close \/ Drop \/ UNCHANGED vars
            \/ \E k \in DOMAIN sent : Accept(k)
  <2>1. UNCHANGED <<jobs, sent>>
    BY <1>7 DEF ProcessAck, RetransmitTick, Resend, close, Drop, vars, Accept
  <2> QED
    BY <1>2, <2>1
<1> QED
  BY <1>1, <1>4, <1>5, <1>6, <1>7 DEF Next

(* Whatever other sends go on meanwhile, the fragments of a message leave in  *)
(* order, each once, with 0 on the last alone, and a send that has ended has  *)
(* sent all of them.  The counter is a byte: a message has at most as many    *)
(* fragments as there are fragment ids (SendRMC).                             *)
THEOREM MessagesComplete ==
  ASSUME Sizes \subseteq 1 .. FragSpace
  PROVE  Spec => []MessageComplete
<1> DEFINE I == TypeOK /\ LastOK /\ CountersOK /\ SentOK
<1>1. Init => I
  <2>1. Init => CountersOK /\ SentOK
    BY DEF Init, CountersOK, SentOK
  <2> QED
    BY <2>1, InitTypes
<1>2. I /\ [Next]_vars => I'
  BY TypeStep, MessageStep
<1>3. I => MessageComplete
  <2> SUFFICES ASSUME I, NEW j \in DOMAIN jobs
               PROVE  /\ \A k \in FragmentsOf(j) : sent[k].fragmentID = 0 <=> sent[k].no = jobs[j].size
                      /\ \A k, l \in FragmentsOf(j) : k < l => sent[k].no < sent[l].no
                      /\ \A k \in FragmentsOf(j) : \A n \in 1 .. sent[k].no - 1 :
                           \E l \in FragmentsOf(j) : sent[l].no = n
                      /\ jobs[j].stage = "done" => \E k \in FragmentsOf(j) : sent[k].no = jobs[j].size
    BY DEF MessageComplete
  <2>1. jobs[j].no \in Nat /\ jobs[j].size \in Nat \ {0}
    BY JobFields, SendAssumption DEF TypeOK, CountersOK
  <2>2. ASSUME NEW k \in FragmentsOf(j), NEW n \in 1 .. sent[k].no - 1
        PROVE  \E l \in FragmentsOf(j) : sent[l].no = n
    <3>1. sent[k].no \in 1 .. jobs[j].no
      BY DEF SentOK
    <3>2. n \in 1 .. jobs[j].no
      BY <2>1, <3>1
    <3> QED
      BY <3>2 DEF SentOK
  <2>3. jobs[j].stage = "done" => \E k \in FragmentsOf(j) : sent[k].no = jobs[j].size
    <3> HAVE jobs[j].stage = "done"
    <3>1. jobs[j].no = jobs[j].size /\ jobs[j].size \in 1 .. jobs[j].no
      BY <2>1 DEF CountersOK
    <3> QED
      BY <3>1 DEF SentOK
  <2> QED
    BY <2>2, <2>3 DEF SentOK
<1> QED
  BY <1>1, <1>2, <1>3, PTL DEF Spec
-----------------------------------------------------------------------------
(* The pool *)

(* As long as no id has been used twice an ack of the console stands for      *)
(* packets that it has accepted, and for no others.                           *)
LEMMA AckHonest ==
  ASSUME TypeOK, AckStyles \subseteq {"multi"}, Len(sent) < SeqSpace, NEW k \in 1 .. Len(sent),
         NEW a \in AckFor(k, got \cup {k}), NEW p \in AckedBy(a)
  PROVE  p = 0 \/ p \in got \cup {k}
<1> USE SendAssumption
<1>1. Len(sent) \in Nat /\ got \cup {k} \subseteq 1 .. Len(sent)
  BY DEF TypeOK
<1>2. PICK n \in 0 .. Len(sent) :
        /\ 1 .. n \subseteq got \cup {k}
        /\ a = [base |-> n % SeqSpace, extra |-> {e % SeqSpace : e \in (got \cup {k}) \ (1 .. n)}]
  BY DEF AckFor
<1>3. \A i \in 0 .. Len(sent) : i % SeqSpace = i
  BY <1>1
<1>4. a.base = n /\ a.extra \subseteq got \cup {k}
  BY <1>1, <1>2, <1>3
<1>5. p \in Nat /\ (p <= a.base \/ p \in a.extra)
  BY DEF AckedBy, SeqIds
<1>6. p <= n => p = 0 \/ p \in 1 .. n
  BY <1>1, <1>5
<1> QED
  BY <1>2, <1>4, <1>5, <1>6

\* NeverForgotten, a packet at a time.
Kept(k) == k \in got \/ k \in Pooled \/ Registering(k)

(* A step that does not touch the sends and the pool forgets nothing. *)
LEMMA KeptStill ==
  ASSUME UNCHANGED <<jobs, pending>>, got \subseteq got', NEW k, Kept(k)
  PROVE  Kept(k)'
  BY DEF Kept, Pooled, Registering

(* Every step keeps the numbering and the pool, until an id is used again.    *)
LEMMA PoolStep ==
  ASSUME AckStyles \subseteq {"multi"}, TypeOK, LastOK, Len(sent) < SeqSpace => Numbered,
         [Next]_vars, Len(sent') < SeqSpace
  PROVE  Numbered'
<1> USE SendAssumption
<1>t. /\ jobs \in Seq(Jobs) /\ DOMAIN jobs = 1 .. Len(jobs) /\ sent \in Seq(Sendings)
      /\ Len(sent) \in Nat
  BY DEF TypeOK, Sendings
<1>p. pending \in [SeqIds -> 0 .. Len(sent)]
  BY DEF TypeOK
<1>n. ASSUME Len(sent) < SeqSpace
      PROVE  /\ outReliable = (Len(sent) + 1) % SeqSpace
             /\ \A k \in 1 .. Len(sent) : sent[k].pid = k
             /\ \A q \in SeqIds : pending[q] \in {0, q}
             /\ \A a \in acks : \A q \in AckedBy(a) : q = 0 \/ q \in got
             /\ \A k \in 1 .. Len(sent) : Kept(k)
  BY <1>n DEF Numbered, NeverForgotten, Kept
<1>q. ASSUME /\ outReliable' = (Len(sent') + 1) % SeqSpace
             /\ \A k \in 1 .. Len(sent') : sent'[k].pid = k
             /\ \A q \in SeqIds : pending'[q] \in {0, q}
             /\ \A a \in acks' : \A q \in AckedBy(a) : q = 0 \/ q \in got'
             /\ \A k \in 1 .. Len(sent') : Kept(k)'
      PROVE  Numbered'
  BY <1>q DEF Numbered, NeverForgotten, Kept, AckedBy
<1>1. CASE SendRMC
  <2>1. UNCHANGED <<outReliable, sent, pending, got, acks>>
    BY <1>1 DEF SendRMC
  <2>2. DOMAIN jobs \subseteq DOMAIN jobs' /\ \A i \in DOMAIN jobs : jobs'[i] = jobs[i]
    BY <1>1, BeginMoves
  <2>3. ASSUME NEW k \in 1 .. Len(sent) PROVE Kept(k)'
    <3>1. Kept(k)
      BY <1>n, <2>1
    <3>2. Registering(k) => Registering(k)'
      BY <2>2 DEF Registering
    <3> QED
      BY <2>1, <3>1, <3>2 DEF Kept, Pooled
  <2> QED
    BY <1>n, <1>q, <2>1, <2>3
<1>2. CASE ProcessAck
  <2>1. UNCHANGED <<outReliable, jobs, sent, got>> /\ acks' \subseteq acks
    BY <1>2 DEF ProcessAck
  <2>2. PICK a \in acks : pending' = [q \in SeqIds |-> IF q \in AckedBy(a) THEN 0 ELSE pending[q]]
    BY <1>2 DEF ProcessAck, ackPackets
  <2>3. ASSUME NEW k \in 1 .. Len(sent) PROVE Kept(k)'
    <3>1. Kept(k) /\ (Registering(k) => Registering(k)')
      BY <1>n, <2>1 DEF Registering
    <3>2. CASE k \in Pooled
      <4>1. PICK q \in SeqIds : k = pending[q]
        BY <3>2 DEF Pooled
      <4>2. q = k /\ k # 0
        BY <1>n, <1>t, <2>1, <4>1
      <4>3. CASE q \in AckedBy(a)
        BY <1>n, <2>1, <4>2, <4>3 DEF Kept
      <4>4. CASE q \notin AckedBy(a)
        BY <2>2, <4>1, <4>2, <4>4 DEF Kept, Pooled
      <4> QED
        BY <4>3, <4>4
    <3> QED
      BY <2>1, <3>1, <3>2 DEF Kept
  <2>4. \A q \in SeqIds : pending'[q] \in {0, q}
    BY <1>n, <2>1, <2>2
  <2> QED
    BY <1>n, <1>q, <2>1, <2>3, <2>4
<1>3. CASE \/ RetransmitTick \/ Resend \/ close \/ Drop \/ UNCHANGED vars
  <2>1. UNCHANGED <<outReliable, jobs, sent, pending, got, acks>>
    BY <1>3 DEF RetransmitTick, Resend, close, Drop, vars
  <2> QED
    BY <1>n, <1>q, <2>1, KeptStill
<1>4. ASSUME NEW j \in DOMAIN jobs, CutSend(j)
      PROVE  Numbered'
  <2>1. UNCHANGED <<outReliable, sent, pending, got, acks>>
    BY <1>4 DEF CutSend
  <2>2. Moves(j) /\ jobs[j].stage = "ready"
    BY <1>4, CutMoves
  <2>3. ASSUME NEW k \in 1 .. Len(sent) PROVE Kept(k)'
    <3>1. Kept(k)
      BY <1>n, <2>1
    <3>2. Registering(k) => Registering(k)'
      BY <2>2 DEF Registering, Moves
    <3> QED
      BY <2>1, <3>1, <3>2 DEF Kept, Pooled
  <2> QED
    BY <1>n, <1>q, <2>1, <2>3
<1>5. ASSUME NEW j \in DOMAIN jobs, sendOneFragment(j)
      PROVE  Numbered'
  <2> PICK z : z = Len(sent) + 1
    OBVIOUS
  <2>1. UNCHANGED <<pending, got, acks>> /\ outReliable' = (outReliable + 1) % SeqSpace
    BY <1>5 DEF sendOneFragment
  <2>2. /\ Moves(j) /\ jobs[j].stage = "ready" /\ jobs'[j].last = z /\ jobs'[j].stage = "register"
    BY <1>5, SendMoves
  <2>3. /\ Len(sent') = z /\ \A k \in 1 .. Len(sent) : sent'[k] = sent[k]
        /\ sent'[z].pid = outReliable
    BY <1>5, SendGrows DEF Grows
  <2>4. Len(sent) < SeqSpace /\ z < SeqSpace /\ z \in Nat
    BY <1>t, <2>3
  <2>5. outReliable = z /\ outReliable' = (Len(sent') + 1) % SeqSpace
    <3>1. outReliable = z % SeqSpace
      BY <1>n, <2>4
    <3>2. z % SeqSpace = z
      BY <2>4
    <3>3. outReliable = z
      BY <3>1, <3>2
    <3> QED
      BY <2>1, <2>3, <3>3
  <2>6. \A k \in 1 .. Len(sent') : k \in 1 .. Len(sent) \/ k = z
    BY <1>t, <2>3
  <2>7. ASSUME NEW k \in 1 .. Len(sent') PROVE Kept(k)'
    <3>1. CASE k = z
      BY <2>2, <3>1 DEF Kept, Registering, Moves
    <3>2. CASE k \in 1 .. Len(sent)
      <4>1. Kept(k)
        BY <1>n, <2>4, <3>2
      <4>2. Registering(k) => Registering(k)'
        BY <2>2 DEF Registering, Moves
      <4> QED
        BY <2>1, <4>1, <4>2 DEF Kept, Pooled
    <3> QED
      BY <2>6, <3>1, <3>2
  <2>8. \A k \in 1 .. Len(sent') : sent'[k].pid = k
    BY <1>n, <2>3, <2>4, <2>5, <2>6
  <2> QED
    BY <1>n, <1>q, <2>1, <2>4, <2>5, <2>7, <2>8
<1>6. ASSUME NEW j \in DOMAIN jobs, RememberFragment(j)
      PROVE  Numbered'
  <2> PICK m : m = jobs[j].last
    OBVIOUS
  <2>1. /\ UNCHANGED <<outReliable, sent, got, acks>>
        /\ pending' = [pending EXCEPT ![sent[m].pid] = m]
    BY <1>6 DEF RememberFragment
  <2>2. Moves(j) /\ jobs[j].stage = "register" /\ jobs'[j].stage \in {"done", "ready"}
    BY <1>6, RememberMoves
  <2>3. m \in 1 .. Len(sent) /\ sent[m].pid = m /\ m \in SeqIds
    <3>1. m \in 1 .. Len(sent)
      BY <2>2 DEF LastOK
    <3> QED
      BY <1>n, <1>t, <2>1, <3>1 DEF SeqIds
  <2>4. pending' = [pending EXCEPT ![m] = m]
    BY <2>1, <2>3
  <2>5. \A q \in SeqIds : pending'[q] \in {0, q}
    BY <1>n, <1>p, <2>1, <2>4
  <2>6. ASSUME NEW k \in 1 .. Len(sent) PROVE Kept(k)'
    <3>1. Kept(k)
      BY <1>n, <2>1
    <3>2. CASE k = m
      BY <1>p, <1>t, <2>3, <2>4, <3>2 DEF Kept, Pooled
    <3>3. CASE k # m
      <4>1. k \in Pooled => k \in Pooled'
        <5> HAVE k \in Pooled
        <5>1. PICK q \in SeqIds : k = pending[q] /\ k # 0
          BY DEF Pooled
        <5>2. q = k
          BY <1>n, <2>1, <5>1
        <5>3. pending'[q] = k
          BY <1>p, <2>4, <3>3, <5>1, <5>2
        <5> QED
          BY <5>1, <5>3 DEF Pooled
      <4>2. Registering(k) => Registering(k)'
        BY <2>2, <3>3 DEF Registering, Moves
      <4> QED
        BY <2>1, <3>1, <4>1, <4>2 DEF Kept
    <3> QED
      BY <3>2, <3>3
  <2> QED
    BY <1>n, <1>q, <2>1, <2>5, <2>6
<1>7. ASSUME NEW k \in DOMAIN sent, Accept(k)
      PROVE  Numbered'
  <2>1. UNCHANGED <<outReliable, jobs, sent, pending>> /\ got' = got \cup {k}
    BY <1>7 DEF Accept
  <2>2. k \in 1 .. Len(sent)
    BY <1>t
  <2>3. PICK b \in AckFor(k, got \cup {k}) : acks' \subseteq acks \cup {b}
    BY <1>7 DEF Accept
  <2>4. \A q \in AckedBy(b) : q = 0 \/ q \in got'
    BY <2>1, <2>2, AckHonest
  <2>5. \A a \in acks' : \A q \in AckedBy(a) : q = 0 \/ q \in got'
    BY <1>n, <2>1, <2>3, <2>4
  <2> QED
    BY <1>n, <1>q, <2>1, <2>5, KeptStill
<1> QED
  BY <1>1, <1>2, <1>3, <1>4, <1>5, <1>6, <1>7 DEF Next

(* Until the sequence ids wrap, whatever the console drops, in whatever order *)
(* its cumulative acks are processed, and wherever a send stands between      *)
(* numbering a fragment and remembering it, a packet that the console has not *)
(* accepted is never taken out of `pending' (ackPackets).  The console's      *)
(* other style, an ACK of one packet, is treated like a cumulative one by     *)
(* ackPackets, which is why it is excluded here.                              *)
THEOREM NothingForgotten ==
  ASSUME AckStyles \subseteq {"multi"}
  PROVE  Spec => [](Len(sent) < SeqSpace => NeverForgotten)
<1> DEFINE Pool == Len(sent) < SeqSpace => Numbered
<1>1. Init => TypeOK /\ LastOK /\ Pool
  <2>1. Init => Numbered
    BY SendAssumption DEF Init, Numbered, NeverForgotten, SeqIds
  <2> QED
    BY <2>1, InitTypes
<1>2. TypeOK /\ LastOK /\ Pool /\ [Next]_vars => (TypeOK /\ LastOK /\ Pool)'
  BY TypeStep, PoolStep
<1>3. Pool => (Len(sent) < SeqSpace => NeverForgotten)
  BY DEF Numbered
<1> QED
  BY <1>1, <1>2, <1>3, PTL DEF Spec
=============================================================================
