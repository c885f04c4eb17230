----------------------------- MODULE MCCeilings -----------------------------
(* Instances of Ceilings: three interrupts, the values at the boundaries   *)
(* between the kinds included.                                             *)
EXTENDS Ceilings

MCHw == [i \in Interrupts |-> CASE i = "I1" -> 1 [] i = "I2" -> 2 [] i = "I3" -> 3]
MCCeiling ==
  [l \in Locks |-> CASE l = "t255" -> Thread(255) [] l = "i0" -> Interrupt(0)
                     [] l = "i2" -> Interrupt(2) [] l = "i3" -> Interrupt(3)]
=============================================================================
