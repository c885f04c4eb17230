--------------------------- MODULE MCAtomicQueue ---------------------------
(* Two producers, and a consumer below, between or above them.  A node is   *)
(* pushed twice only where the consumer is below the producers, as a thread  *)
(* is that pops at the end of the preemption lock.                          *)
EXTENDS AtomicQueue

Ranks(consumer) == [c \in Contexts |-> CASE c = "P1" -> 2 [] c = "P2" -> 4 [] OTHER -> consumer]

MCUses == {[rank |-> Ranks(1), max |-> 2], [rank |-> Ranks(3), max |-> 1], [rank |-> Ranks(5), max |-> 1]}
=============================================================================
