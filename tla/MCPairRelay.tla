---------------------------- MODULE MCPairRelay ----------------------------
(* An instance of PairRelay for TLC. *)
EXTENDS PairRelay

CONSTANTS far, other, third

(* Three pairs that want the same port.  The players of one come from two     *)
(* networks, and the second may move to the network of the first; those of    *)
(* the two others ask for ports and never send a datagram.                    *)
ThreePairs == {far, other, third}
HashAlike == [r \in ThreePairs |-> 0]
TheirAddresses ==
  [r \in ThreePairs |-> IF r = far THEN {<<"n1", "n2">>, <<"n1", "n1">>} ELSE {<<"n3", "n3">>}]

Networks == {"n1", "n2", "n3"}

(* Two endpoints of network n1 (another console, or a NAT that remaps) and one of n2. *)
Endpoints == {"n1:1", "n1:2", "n2:1"}
NetworkOf == [src \in Endpoints |-> IF src = "n2:1" THEN "n2" ELSE "n1"]
=============================================================================
