----------------------------- MODULE KernelList -----------------------------
(***************************************************************************)
(* The intrusive doubly linked list of scars/src/kernel/list.rs, seen as   *)
(* the sequence of its items from head to tail.  A node belongs to at most *)
(* one list per tag, so the items of a list are distinct; the code panics  *)
(* in take_ownership when an item is inserted that already has an owner,   *)
(* and the modules that use a list state that case themselves.             *)
(*                                                                         *)
(* A predicate over list items is given as the set of the items for which  *)
(* it returns true.                                                        *)
(***************************************************************************)
EXTENDS Integers, Sequences

\* The items of list s.
Items(s) == {s[i] : i \in DOMAIN s}

\* No item is linked twice in s.
Distinct(s) == \A i, j \in 1 .. Len(s) : s[i] = s[j] => i = j

\* How many items the cursor of insert_after passes: the longest prefix of s
\* whose items all satisfy the predicate.
Passed(s, Pred) ==
  CHOOSE n \in 0 .. Len(s) : /\ \A i \in 1 .. n : s[i] \in Pred
                             /\ n < Len(s) => s[n + 1] \notin Pred

\* LinkedList::insert_after: move past the items that satisfy the predicate
\* and link the new item in front of the first that does not.
InsertAfter(s, e, Pred) ==
  LET n == Passed(s, Pred)
  IN SubSeq(s, 1, n) \o <<e>> \o SubSeq(s, n + 1, Len(s))

\* LinkedList::remove: unlink an item wherever it is.
Unlink(s, e) ==
  LET k == CHOOSE i \in 1 .. Len(s) : s[i] = e
  IN SubSeq(s, 1, k - 1) \o SubSeq(s, k + 1, Len(s))

\* LinkedList::pop_front_if: the head, when there is one and it satisfies the
\* predicate.
HeadSatisfies(s, Pred) == s # <<>> /\ Head(s) \in Pred
=============================================================================
