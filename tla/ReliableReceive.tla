--------------------------- MODULE ReliableReceive ---------------------------
(***************************************************************************)
(* The receiving half of a Connection (endpoint.go): acknowledgement,      *)
(* duplicate suppression (dejaRecu), reassembly (fragBuf) and hand-over to *)
(* dispatchRMC of the requests a console sends over one WebSocket.         *)
(*                                                                         *)
(* The console is external.  It numbers its reliable packets from one in   *)
(* every session, repeats a packet whose ack it has not seen, and may      *)
(* start a new session (SYN) on the socket it already has.  The socket is  *)
(* first-in first-out and its frames are fed by one goroutine (server.go,  *)
(* ParallelEnabled: false); acks may be late or ignored by the console.    *)
(***************************************************************************)
EXTENDS Naturals, Sequences, FiniteSets

CONSTANTS
  Sizes,          \* the sizes, in fragments, a request may have
  Window,         \* len(c.recus): 128 in the code
  SeqSpace,       \* number of sequence ids: 2^16 in the code
  MaxLag,         \* the console repeats only its MaxLag newest packets
  SynMidMessage,  \* may the console restart the session inside a request?
  MaxMessages, MaxSessions, MaxWire   \* bounds of the instance

ASSUME ReceiveAssumption ==
  /\ Sizes \subseteq Nat \ {0}
  /\ Window \in Nat \ {0} /\ SeqSpace \in Nat \ {0} /\ Window < SeqSpace
  /\ MaxLag \in 0 .. Window
  /\ SynMidMessage \in BOOLEAN
  /\ MaxMessages \in Nat /\ MaxSessions \in Nat /\ MaxWire \in Nat

VARIABLES
  msgs,       \* console: sizes of all requests issued so far (all sessions)
  fragsOut,   \* console: fragments of the last request already sent
  log,        \* console: reliable packets of this session, in order
  acked,      \* console: indices of log it has seen acknowledged
  session,    \* console: number of SYNs sent
  wire,       \* socket, console to server
  acks,       \* acks under way to the console
  recus,      \* server: ring of the last sequence ids received (recusVus merged in)
  recusPos,   \* server: next slot of the ring
  fragBuf,    \* server: fragments awaiting the last one of their request
  dispatched  \* server: the buffers handed to dispatchRMC, oldest first

consoleVars == <<msgs, fragsOut, log, acked, session>>
serverVars  == <<recus, recusPos, fragBuf, dispatched>>
vars == <<msgs, fragsOut, log, acked, session, wire, acks,
          recus, recusPos, fragBuf, dispatched>>

SeqIds == 0 .. SeqSpace - 1
NoSeq  == SeqSpace                    \* a slot whose recusVus flag is false

Fragments == [msg : Nat, no : Nat]    \* fragment `no' of request `msg'
Packets == [type : {"SYN", "DATA"}, ses : Nat, pid : SeqIds, needAck : BOOLEAN,
            fragmentID : Nat, payload : Fragments]

(* Request m as the sequence of its n fragments. *)
Request(m, n) == [i \in 1 .. n |-> [msg |-> m, no |-> i]]

EmptyWindow == [i \in 0 .. Window - 1 |-> NoSeq]

(* A connection whose handshake is over: window and buffer are empty. *)
Init ==
  /\ msgs = <<>> /\ fragsOut = 0 /\ log = <<>> /\ acked = {} /\ session = 1
  /\ wire = <<>> /\ acks = {}
  /\ recus = EmptyWindow /\ recusPos = 0
  /\ fragBuf = <<>> /\ dispatched = <<>>

-----------------------------------------------------------------------------
(* The console (external) *)

LastSize == IF msgs = <<>> THEN 0 ELSE msgs[Len(msgs)]

BetweenMessages == fragsOut = LastSize

(* Fragments are numbered 1, 2, ... and the last one of a request 0. *)
DataPacket(m, no, size, k, reliable) ==
  [type |-> "DATA", ses |-> session, pid |-> k % SeqSpace, needAck |-> reliable,
   fragmentID |-> IF no = size THEN 0 ELSE no, payload |-> [msg |-> m, no |-> no]]

SendFragment(m, n, size) ==
  LET pkt == DataPacket(m, n, size, Len(log) + 1, TRUE)
  IN /\ Len(wire) < MaxWire
     /\ [ses |-> session, pid |-> pkt.pid] \notin acks  \* no ack is late by a whole turn of ids
     /\ fragsOut' = n
     /\ log' = Append(log, pkt)
     /\ wire' = Append(wire, pkt)
     /\ UNCHANGED <<acked, session, acks, serverVars>>

IssueRequest ==
  /\ BetweenMessages /\ Len(msgs) < MaxMessages
  /\ \E n \in Sizes : msgs' = Append(msgs, n) /\ SendFragment(Len(msgs) + 1, 1, n)

ContinueRequest ==
  /\ ~BetweenMessages
  /\ UNCHANGED msgs
  /\ SendFragment(Len(msgs), fragsOut + 1, LastSize)

(* A request that asks for no ack fits one packet and is sent once. *)
IssueUnreliable ==
  /\ BetweenMessages /\ Len(msgs) < MaxMessages /\ Len(wire) < MaxWire
  /\ 1 \in Sizes /\ msgs' = Append(msgs, 1)
  /\ fragsOut' = 1
  /\ wire' = Append(wire, DataPacket(Len(msgs) + 1, 1, 1, 0, FALSE))
  /\ UNCHANGED <<log, acked, session, acks, serverVars>>

Repeat ==
  /\ Len(wire) < MaxWire
  /\ \E k \in DOMAIN log \ acked :
       /\ k + MaxLag > Len(log)
       /\ wire' = Append(wire, log[k])
  /\ UNCHANGED <<consoleVars, acks, serverVars>>

(* The console reads an ack; one of another session means nothing to it. *)
SeeAck ==
  \E a \in acks :
    /\ acks' = acks \ {a}
    /\ acked' = IF a.ses = session
                THEN acked \cup {k \in DOMAIN log : log[k].pid = a.pid /\ k + MaxLag > Len(log)}
                ELSE acked
    /\ UNCHANGED <<msgs, fragsOut, log, session, wire, serverVars>>

LoseAck ==
  /\ \E a \in acks : acks' = acks \ {a}
  /\ UNCHANGED <<consoleVars, wire, serverVars>>

RestartSession ==
  /\ session < MaxSessions /\ Len(wire) < MaxWire
  /\ SynMidMessage \/ BetweenMessages
  /\ session' = session + 1
  /\ log' = <<>> /\ acked' = {}
  /\ fragsOut' = LastSize      \* a cut request is given up
  /\ wire' = Append(wire, [type |-> "SYN", ses |-> session + 1, pid |-> 0, needAck |-> TRUE,
                           fragmentID |-> 0, payload |-> [msg |-> 0, no |-> 0]])
  /\ UNCHANGED <<msgs, acks, serverVars>>

-----------------------------------------------------------------------------
(* The server: one packet of the socket, handled to the end *)

ProcessSYN_KeepsWindow(p) == p.type = "SYN" /\ UNCHANGED <<serverVars, acks>>

(* processSYN: the window of received ids is forgotten, nothing else is. *)
processSYN(p) ==
  /\ p.type = "SYN"
  /\ recus' = EmptyWindow /\ recusPos' = 0
  /\ UNCHANGED <<fragBuf, dispatched, acks>>

DejaRecu_Never(seq) == FALSE

dejaRecu(seq) == \E i \in DOMAIN recus : recus[i] = seq

Remember_NoWrap(seq) ==
  recus' = [recus EXCEPT ![recusPos] = seq] /\ recusPos' = recusPos + 1

Remember_ShortRing(seq) ==
  recus' = [recus EXCEPT ![recusPos] = seq] /\ recusPos' = (recusPos + 1) % (Window - 1)

(* dejaRecu on an id it does not know: the id takes the oldest slot. *)
Remember(seq) ==
  /\ recus' = [recus EXCEPT ![recusPos] = seq]
  /\ recusPos' = (recusPos + 1) % Window

sendAck(p) == acks' = acks \cup {[ses |-> p.ses, pid |-> p.pid]}

Reassemble_Discards(p) ==
  IF p.fragmentID = 0
  THEN dispatched' = Append(dispatched, Append(fragBuf, p.payload)) /\ fragBuf' = <<>>
  ELSE UNCHANGED <<fragBuf, dispatched>>

Reassemble(p) ==
  IF p.fragmentID = 0
  THEN /\ dispatched' = Append(dispatched, Append(fragBuf, p.payload))
       /\ fragBuf' = <<>>
  ELSE /\ fragBuf' = Append(fragBuf, p.payload)
       /\ UNCHANGED dispatched

processData(p) ==
  /\ p.type = "DATA"
  /\ \/ /\ p.needAck /\ dejaRecu(p.pid)      \* acknowledged again, not processed again
        /\ sendAck(p)
        /\ UNCHANGED serverVars
     \/ /\ p.needAck /\ ~dejaRecu(p.pid)
        /\ sendAck(p)
        /\ Remember(p.pid)
        /\ Reassemble(p)
     \/ /\ ~p.needAck
        /\ Reassemble(p)
        /\ UNCHANGED <<acks, recus, recusPos>>

handlePacket ==
  /\ wire # <<>>
  /\ wire' = Tail(wire)
  /\ UNCHANGED consoleVars
  /\ processSYN(Head(wire)) \/ processData(Head(wire))

Next ==
  \/ IssueRequest \/ ContinueRequest \/ IssueUnreliable \/ Repeat
  \/ SeeAck \/ LoseAck \/ RestartSession
  \/ handlePacket

Spec == Init /\ [][Next]_vars

(* The socket's read loop serves every frame it is given; a console that     *)
(* began a request sends the rest of it, whatever it repeats meanwhile, and  *)
(* reads the acks it is sent.                                                *)
FairSpec ==
  Spec /\ WF_vars(handlePacket) /\ SF_vars(ContinueRequest) /\ WF_vars(SeeAck)

-----------------------------------------------------------------------------
(* Properties *)

(* Types of the console's, the socket's and the connection's variables. *)
TypeOK ==
  /\ msgs \in Seq(Nat) /\ fragsOut \in Nat
  /\ log \in Seq(Packets) /\ acked \subseteq Nat /\ session \in Nat
  /\ wire \in Seq(Packets)
  /\ acks \subseteq [ses : Nat, pid : SeqIds]
  /\ recus \in [0 .. Window - 1 -> SeqIds \cup {NoSeq}]
  /\ recusPos \in 0 .. Window - 1
  /\ fragBuf \in Seq(Fragments) /\ dispatched \in Seq(Seq(Fragments))

(* Every buffer handed to dispatchRMC is one request, whole and alone, and    *)
(* the requests come in the order they were issued, each once: a repeated     *)
(* packet is acknowledged again but never processed again (processData,       *)
(* dejaRecu), whatever the acks, the repetitions and the session restarts.    *)
ExactlyOnceInOrder ==
  /\ Len(dispatched) <= Len(msgs)
  /\ \A i \in 1 .. Len(dispatched) : dispatched[i] = Request(i, msgs[i])

(* The ring forgets only what the console can no longer repeat: every packet  *)
(* that the console may still repeat and that was processed is in the window, *)
(* so the 128 slots of c.recus are enough.                                    *)
RepeatableStillKnown ==
  \A k \in DOMAIN log :
    ( /\ k + MaxLag > Len(log)
      /\ \A i \in DOMAIN wire : wire[i].type = "DATA" /\ wire[i] # log[k] )
    => dejaRecu(log[k].pid)

(* An ack is sent only for a packet that has been received: what the console  *)
(* holds acknowledged is either dispatched or in fragBuf, so the console      *)
(* never discards a fragment the server is missing (sendAck before dejaRecu). *)
AckedWasReceived ==
  \A k \in acked :
    \/ log[k].payload.msg <= Len(dispatched)
    \/ \E i \in DOMAIN fragBuf : fragBuf[i] = log[k].payload

RequestsOf(k) == {Request(k, n) : n \in Sizes}

Delivery == INSTANCE OrderedDelivery WITH
              Requests  <- RequestsOf,
              sent      <- [m \in DOMAIN msgs |-> Request(m, msgs[m])],
              delivered <- dispatched

(* The request path implements ordered exactly-once delivery. *)
ImplementsDelivery == Delivery!Spec

(* Every request begun is eventually dispatched. *)
EveryRequestDispatched ==
  \A m \in 1 .. MaxMessages : (Len(msgs) >= m) ~> (Len(dispatched) >= m)
=============================================================================
