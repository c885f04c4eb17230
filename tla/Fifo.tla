-------------------------------- MODULE Fifo --------------------------------
(* What a channel promises: a bounded queue that delivers every item once, *)
(* in the order the items were sent.  No two items are the same.           *)
EXTENDS Naturals, Sequences

CONSTANTS Values, Capacity
VARIABLES queue, received

\* An item that has not been in the queue before is sent.
Put == /\ Len(queue) < Capacity
       /\ \E v \in Values : /\ \A i \in DOMAIN queue : queue[i] # v
                            /\ \A i \in DOMAIN received : received[i] # v
                            /\ queue' = Append(queue, v)
       /\ UNCHANGED received

Get == /\ queue # <<>>
       /\ queue' = Tail(queue)
       /\ received' = Append(received, Head(queue))

Init == queue = <<>> /\ received = <<>>
Next == Put \/ Get
Spec == Init /\ [][Next]_<<queue, received>>
=============================================================================
