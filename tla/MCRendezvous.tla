---------------------------- MODULE MCRendezvous ----------------------------
(* An instance of Rendezvous: either thread above the other.               *)
EXTENDS Rendezvous

AllOrders == {p \in [Users -> 1 .. 2] : p["entry"] # p["accept"]}
=============================================================================
