--------------------------- MODULE MCMatchmaking ---------------------------
(* Instances of Matchmaking for TLC. *)
EXTENDS Matchmaking

(* A public room for two that may change owner. *)
PublicRoom ==
  {[mode |-> 1, pwd |-> NoPassword, max |-> 2, open |-> TRUE, migratable |-> TRUE]}

(* A protected room for two that goes with its owner. *)
PrivateRoom ==
  {[mode |-> 1, pwd |-> "secret", max |-> 2, open |-> TRUE, migratable |-> FALSE]}

(* A host publishes a code for its room and makes it smaller, or withdraws it. *)
HostPatch ==
  {[code |-> c, mode |-> 0, max |-> IF c = NoCode THEN 0 ELSE 1, open |-> "keep"] :
     c \in Codes \cup {NoCode}}

(* Two consoles that can reach each other, and two that cannot. *)
EasyNat == [p \in Players |-> "open"]
HardNat == [p \in Players |-> "strict"]

(* Sockets are interchangeable, and so are players whose NATs are alike; used *)
(* where only safety is checked.                                              *)
PeerSymmetry == Permutations(Sockets) \cup Permutations(Players)
=============================================================================
