----------------------------- MODULE MCHandlers -----------------------------
(* Two handlers with interrupts of their own, B above A, and four programs. *)
EXTENDS Handlers

MCNumber == [h \in Handlers |-> IF h = "B" THEN 2 ELSE 1]
MCHwPriority == [n \in Numbers |-> n]
MCPrograms ==
  {{"lock", "cell"}, {"lock", "borrow"}, {"lock", "storage"}, {"storage", "request"}}
=============================================================================
