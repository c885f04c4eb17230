----------------------------- MODULE MCEventSet -----------------------------
(* Instances of EventSet: waits for one event, for any and for all of two. *)
EXTENDS EventSet

OneEvent == [events : {{e} : e \in Events}, all : BOOLEAN]
AnyOfTwo == {[events |-> Events, all |-> FALSE]}
AllOfTwo == {[events |-> Events, all |-> TRUE]}
=============================================================================
