---------------------------- MODULE ReliableSend ----------------------------
(***************************************************************************)
(* The sending half of a Connection (endpoint.go): SendRMC cuts a message  *)
(* into fragments, sendOneFragment numbers and sends each one and only     *)
(* then records it in `pending', ackPackets empties that pool as the       *)
(* console acknowledges, retransmitLoop sends again what is left in it.    *)
(*                                                                         *)
(* One job is one call of SendRMC.  A message of one fragment is sent by   *)
(* the caller (the connection's receive goroutine for a response, another  *)
(* connection's for a push), a longer one by a goroutine of its own; acks  *)
(* are processed by the receive goroutine, so never in the middle of a     *)
(* send it is itself doing.  The socket to the console is first-in         *)
(* first-out; the console is external: it may drop a packet that does not  *)
(* fit its window, and acknowledges what it accepts.                       *)
(***************************************************************************)
EXTENDS Naturals, Sequences, FiniteSets

CONSTANTS
  Sizes,       \* sizes of messages, in fragments
  SeqSpace,    \* number of reliable sequence ids: 2^16 in the code
  FragSpace,   \* number of fragment ids: 2^8 in the code
  AckStyles,   \* acks the console uses: "single" (ACK) and "multi" (MULTI-ACK)
  MaxJobs, MaxWire, MaxAcks   \* bounds of the instance

ASSUME SendAssumption ==
  /\ Sizes \subseteq Nat \ {0}
  /\ SeqSpace \in Nat \ {0, 1} /\ FragSpace \in Nat \ {0, 1}
  /\ AckStyles \subseteq {"single", "multi"}
  /\ MaxJobs \in Nat /\ MaxWire \in Nat /\ MaxAcks \in Nat

VARIABLES
  state,        \* c.state after the handshake
  outReliable,  \* the next reliable sequence id
  jobs,         \* the calls of SendRMC
  sent,         \* history: every fragment sent, first transmissions only
  pending,      \* c.pending: for a sequence id the index in sent it holds, 0 if none
  batch,        \* retransmitLoop: what is left to send of its snapshot
  wire,         \* socket to the console: indices in sent
  got,          \* console: the packets it has accepted
  acks          \* acks under way to the server

vars == <<state, outReliable, jobs, sent, pending, batch, wire, got, acks>>

SeqIds  == 0 .. SeqSpace - 1
FragIds == 0 .. FragSpace - 1

\* `no' fragments of the job are sent, `fragmentID' is the goroutine's counter,
\* `last' the index in sent of the newest fragment.
Jobs == [size : Nat, no : Nat, fragmentID : FragIds, last : Nat, onRecv : BOOLEAN,
         stage : {"ready", "register", "done", "cut"}]

Init ==
  /\ state = "connected"
  /\ outReliable = 1
  /\ jobs = <<>> /\ sent = <<>>
  /\ pending = [p \in SeqIds |-> 0] /\ batch = {}
  /\ wire = <<>> /\ got = {} /\ acks = {}

Pooled == {pending[p] : p \in SeqIds} \ {0}

ReceiveLoopFree == \A j \in DOMAIN jobs : jobs[j].onRecv => jobs[j].stage = "done"

-----------------------------------------------------------------------------
(* SendRMC, called by the receive loop (a response) or by anyone (a push). *)
SendRMC ==
  /\ Len(jobs) < MaxJobs
  /\ \E n \in Sizes, onRecv \in BOOLEAN :
       /\ onRecv => n = 1 /\ ReceiveLoopFree
       /\ jobs' = Append(jobs, [size |-> n, no |-> 0, fragmentID |-> 1, last |-> 0,
                                onRecv |-> onRecv, stage |-> "ready"])
  /\ UNCHANGED <<state, outReliable, sent, pending, batch, wire, got, acks>>

(* The goroutine of a long message stops when the connection has closed. *)
CutSend(j) ==
  /\ jobs[j].stage = "ready" /\ jobs[j].size > 1 /\ state = "closed"
  /\ jobs' = [jobs EXCEPT ![j].stage = "cut"]
  /\ UNCHANGED <<state, outReliable, sent, pending, batch, wire, got, acks>>

IsLastChunk_Early(job) == job.no + 2 >= job.size

(* No more than one fragment's worth of data remains. *)
IsLastChunk(job) == job.no + 1 >= job.size

(* sendOneFragment, under c.mu: number the fragment and send it. *)
sendOneFragment(j) ==
  LET job == jobs[j]
      fid == IF IsLastChunk(job) THEN 0 ELSE job.fragmentID
      k   == Len(sent) + 1
  IN /\ job.stage = "ready"
     /\ job.size = 1 \/ state # "closed"
     /\ Len(wire) < MaxWire
     /\ sent' = Append(sent, [job |-> j, no |-> job.no + 1, pid |-> outReliable,
                              fragmentID |-> fid])
     /\ outReliable' = (outReliable + 1) % SeqSpace
     /\ wire' = Append(wire, k)
     /\ jobs' = [jobs EXCEPT ![j].no = @ + 1, ![j].fragmentID = fid,
                             ![j].last = k, ![j].stage = "register"]
     /\ UNCHANGED <<state, pending, batch, got, acks>>

RememberFragment_NoWrap(j) ==
  LET job == jobs[j]
  IN /\ job.stage = "register"
     /\ pending' = [pending EXCEPT ![sent[job.last].pid] = job.last]
     /\ jobs' = [jobs EXCEPT ![j].stage = IF job.fragmentID = 0 THEN "done" ELSE "ready",
                             ![j].fragmentID = job.fragmentID + 1]
     /\ UNCHANGED <<state, outReliable, sent, batch, wire, got, acks>>

(* sendOneFragment, under c.pendingMu: remember the fragment; then the loop *)
(* of sendData ends on fragment id 0 or counts one up.                      *)
RememberFragment(j) ==
  LET job == jobs[j]
  IN /\ job.stage = "register"
     /\ pending' = [pending EXCEPT ![sent[job.last].pid] = job.last]
     /\ jobs' = [jobs EXCEPT ![j].stage = IF job.fragmentID = 0 THEN "done" ELSE "ready",
                             ![j].fragmentID = (job.fragmentID + 1) % FragSpace]
     /\ UNCHANGED <<state, outReliable, sent, batch, wire, got, acks>>

AckedBy_ThroughGaps(a) ==
  {p \in SeqIds : p <= a.base \/ \E e \in a.extra : p <= e}

(* The sequence ids an acknowledgement stands for. *)
AckedBy(a) == {p \in SeqIds : p <= a.base \/ p \in a.extra}

ackPackets(a) == pending' = [p \in SeqIds |-> IF p \in AckedBy(a) THEN 0 ELSE pending[p]]

(* processData on an ACK or a MULTI-ACK. *)
ProcessAck ==
  /\ ReceiveLoopFree
  /\ \E a \in acks : acks' = acks \ {a} /\ ackPackets(a)
  /\ UNCHANGED <<state, outReliable, jobs, sent, batch, wire, got>>

Snapshot_SkipsNewest == {k \in Pooled : \E other \in Pooled : k < other}

Snapshot == Pooled

(* A tick of retransmitLoop takes a copy of the pool ... *)
RetransmitTick ==
  /\ state # "closed" /\ batch = {} /\ Pooled # {}
  /\ batch' = Snapshot
  /\ UNCHANGED <<state, outReliable, jobs, sent, pending, wire, got, acks>>

(* ... and sends the packets of that copy one by one. *)
Resend ==
  /\ Len(wire) < MaxWire
  /\ \E k \in batch : batch' = batch \ {k} /\ wire' = Append(wire, k)
  /\ UNCHANGED <<state, outReliable, jobs, sent, pending, got, acks>>

close ==
  /\ state # "closed" /\ state' = "closed"
  /\ UNCHANGED <<outReliable, jobs, sent, pending, batch, wire, got, acks>>

-----------------------------------------------------------------------------
(* The console (external) *)

(* ACK names one packet; MULTI-ACK the end of the gapless prefix and the rest. *)
AckFor(k, accepted) ==
  { [base |-> k % SeqSpace, extra |-> {}] : s \in AckStyles \cap {"single"} }
  \cup
  { [base |-> n % SeqSpace, extra |-> {e % SeqSpace : e \in accepted \ (1 .. n)}] :
      n \in IF "multi" \in AckStyles
            THEN {m \in 0 .. Len(sent) : 1 .. m \subseteq accepted /\ m + 1 \notin accepted}
            ELSE {} }

Accept(k) ==
  /\ wire # <<>> /\ k = Head(wire) /\ wire' = Tail(wire)
  /\ got' = got \cup {k}
  /\ \E a \in AckFor(k, got \cup {k}) :   \* an ack too many for the instance is lost
       acks' = IF Cardinality(acks) < MaxAcks THEN acks \cup {a} ELSE acks
  /\ UNCHANGED <<state, outReliable, jobs, sent, pending, batch>>

Drop ==
  /\ wire # <<>> /\ Head(wire) \notin got /\ wire' = Tail(wire)
  /\ UNCHANGED <<state, outReliable, jobs, sent, pending, batch, got, acks>>

Next ==
  \/ SendRMC \/ ProcessAck \/ RetransmitTick \/ Resend \/ close \/ Drop
  \/ \E j \in DOMAIN jobs : CutSend(j) \/ sendOneFragment(j) \/ RememberFragment(j)
  \/ \E k \in DOMAIN sent : Accept(k)

Spec == Init /\ [][Next]_vars

MaxSent == MaxJobs * (CHOOSE n \in Sizes \cup {0} : \A m \in Sizes : m <= n)

(* The goroutines of the code are scheduled, the ticker ticks, and a console *)
(* that is sent the same packet again and again has room for it in the end.  *)
FairSpec ==
  /\ Spec
  /\ WF_vars(ProcessAck) /\ WF_vars(RetransmitTick) /\ SF_vars(Resend)
  /\ \A j \in 1 .. MaxJobs :
       /\ SF_vars(j \in DOMAIN jobs /\ sendOneFragment(j))
       /\ WF_vars(j \in DOMAIN jobs /\ (RememberFragment(j) \/ CutSend(j)))
  /\ WF_vars(Drop \/ \E k \in DOMAIN sent : Accept(k))
  /\ \A k \in 1 .. MaxSent : SF_vars(Accept(k))

-----------------------------------------------------------------------------
(* Properties *)

(* Types of the connection's, the socket's and the console's variables. *)
TypeOK ==
  /\ state \in {"connected", "closed"}
  /\ outReliable \in SeqIds
  /\ jobs \in Seq(Jobs)
  /\ sent \in Seq([job : Nat, no : Nat, pid : SeqIds, fragmentID : FragIds])
  /\ pending \in [SeqIds -> 0 .. Len(sent)]
  /\ batch \subseteq 1 .. Len(sent)
  /\ wire \in Seq(1 .. Len(sent))
  /\ got \subseteq 1 .. Len(sent)
  /\ acks \subseteq [base : SeqIds, extra : SUBSET SeqIds]

Registering(k) == \E j \in DOMAIN jobs : jobs[j].stage = "register" /\ jobs[j].last = k

(* A packet the console has not accepted is still in the pool (or about to    *)
(* enter it), so retransmitLoop will send it again: no acknowledgement, in    *)
(* whatever order it is processed, takes a dropped fragment out of `pending'. *)
(* (retransmitLoop "re-sends any unacknowledged reliable packet").            *)
NeverForgotten ==
  \A k \in 1 .. Len(sent) : k \in got \/ k \in Pooled \/ Registering(k)

FragmentsOf(j) == {k \in 1 .. Len(sent) : sent[k].job = j}

(* The fragments of one message leave in order, numbered 1, 2, ... and 0 on   *)
(* the last alone, and a send that ended without being cut by a close sent    *)
(* all of them (sendData), whatever the other sends do meanwhile.             *)
MessageComplete ==
  \A j \in DOMAIN jobs :
    /\ \A k \in FragmentsOf(j) : sent[k].fragmentID = 0 <=> sent[k].no = jobs[j].size
    /\ \A k, l \in FragmentsOf(j) : k < l => sent[k].no < sent[l].no
    /\ \A k \in FragmentsOf(j) : \A n \in 1 .. sent[k].no - 1 :
         \E l \in FragmentsOf(j) : sent[l].no = n
    /\ jobs[j].stage = "done" => \E k \in FragmentsOf(j) : sent[k].no = jobs[j].size

(* The fragments of a message are consecutive in the numbered stream, so the  *)
(* console, which reassembles in sequence order, can put it back together.    *)
(* processData on fragments that "s'entrelacaient": "la console ne pouvait    *)
(* plus reassembler ni l'une ni l'autre".                                     *)
FragmentsContiguous ==
  \A k \in 2 .. Len(sent) :
    sent[k].no > 1 => sent[k - 1].job = sent[k].job

Arrived(j) ==
  j \in DOMAIN jobs /\ Cardinality({k \in got : sent[k].job = j}) = jobs[j].size

(* On a connection that stays open every message reaches the console whole.   *)
EverythingArrives ==
  \A j \in 1 .. MaxJobs : (j \in DOMAIN jobs) ~> (state = "closed" \/ Arrived(j))
=============================================================================
