---------------------------- MODULE PendingQueue ----------------------------
(***************************************************************************)
(* The atomic queue of scars/src/kernel/atomic_queue.rs as its callers see *)
(* it: every operation in one step.  The queue is intrusive and keeps the  *)
(* node popped last as its dummy head, so the record has                   *)
(*   items   the nodes after the dummy, in queue order                     *)
(*   dummy   the node `head` points to                                     *)
(*   owned   the nodes whose `owned` flag is set                           *)
(*   looped  the dummy's `next` points to the dummy itself                 *)
(***************************************************************************)
EXTENDS Sequences

\* The node embedded in the queue, its first dummy.
Sentinel == "sentinel"

\* AtomicQueue::new and init_once.
EmptyQueue ==
  [items |-> <<>>, dummy |-> Sentinel, owned |-> {}, looped |-> FALSE]

\* AtomicQueue::is_empty: the dummy has no successor.
IsEmpty(q) == q.items = <<>> /\ ~q.looped

\* push_back stops with ItemAlreadyInQueue when the node is still owned.
PushFails(q, x) == x \in q.owned

\* Once the dummy is its own successor, push_back and pop_front both keep
\* advancing `tail` from the dummy to the dummy and never return.
Spins(q) == q.looped

\* push_back.  The new node's `next` is cleared first; when the new node is
\* the dummy this drops every item behind it, and linking it after `tail`
\* makes it its own successor if nothing was behind it.
Push(q, x) ==
  [q EXCEPT !.owned  = @ \cup {x},
            !.looped = x = q.dummy /\ q.items = <<>>,
            !.items  = IF x = q.dummy THEN <<>> ELSE Append(@, x)]

\* pop_front of a queue that is not empty: the first item's node becomes the
\* dummy and is released.
Pop(q) ==
  [q EXCEPT !.items = Tail(@),
            !.dummy = Head(q.items),
            !.owned = @ \ {Head(q.items)}]
=============================================================================
