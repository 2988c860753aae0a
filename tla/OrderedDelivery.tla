--------------------------- MODULE OrderedDelivery ---------------------------
(***************************************************************************)
(* What the request path of a connection promises: the requests a console  *)
(* issues are handed to the RMC dispatcher whole, in the order they were    *)
(* issued, each of them once.  A request is the sequence of its fragments;  *)
(* `sent' holds the requests issued, `delivered' those dispatched.          *)
(***************************************************************************)
EXTENDS Naturals, Sequences

CONSTANT Requests(_)   \* Requests(k): what the k-th request may be

VARIABLES sent, delivered

Init == sent = <<>> /\ delivered = <<>>

Issue ==
  /\ \E r \in Requests(Len(sent) + 1) : sent' = Append(sent, r)
  /\ UNCHANGED delivered

Dispatch ==
  /\ Len(delivered) < Len(sent)
  /\ delivered' = Append(delivered, sent[Len(delivered) + 1])
  /\ UNCHANGED sent

Next == Issue \/ Dispatch

Spec == Init /\ [][Next]_<<sent, delivered>>
=============================================================================
