----------------------------- MODULE MCChannel ------------------------------
(* An instance of Channel: the producers p1 and p2 and the consumer c, in  *)
(* every order of priority, with all calls that threads make.              *)
EXTENDS Channel, FiniteSetsExt

AllOrders == {p \in [Users -> 1 .. 3] : Cardinality(Range(p)) = 3}
AllCalls == [u \in Users |-> IF u = "c" THEN {"recv", "try_recv"} ELSE {"send", "try_send"}]
=============================================================================
