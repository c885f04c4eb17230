----------------------------- MODULE AtomicQueue -----------------------------
(***************************************************************************)
(* The lock-free queue of scars/src/kernel/atomic_queue.rs, one atomic     *)
(* access per step.  Contexts of one core push nodes, and one of them      *)
(* pops.  A context is interrupted before any access by one of a higher    *)
(* rank, which runs its call to the end.                                   *)
(*                                                                         *)
(* The queue keeps the node that was popped last as its dummy head, so a   *)
(* node is reused while the queue still points to it.  The algorithm does  *)
(* not allow for that: the constants Uses and PushDummy say which reuse    *)
(* there is.  Module PendingQueue has the same queue with an operation per *)
(* step, as its callers see it.                                            *)
(***************************************************************************)
EXTENDS Integers, Sequences, FiniteSets

CONSTANTS
  Nodes,       \* the nodes that are pushed
  Producers,   \* the contexts that push
  Consumer,    \* the context that pops
  Uses,        \* the ways the queue is used: the ranks of the contexts, and how
               \* many times a node is pushed, a bound
  Requested,   \* the nodes that set_pending_executor_poll pushes
  MaxPops,     \* calls that pop: a bound
  PushDummy    \* whether a node is pushed again while it is the dummy

Contexts == Producers \cup {Consumer}
Sentinel == "sentinel"
Null == "null"
AllNodes == Nodes \cup {Sentinel}

ASSUME AtomicQueueAssumption ==
  /\ IsFiniteSet(Nodes) /\ {Sentinel, Null} \cap Nodes = {}
  /\ Consumer \notin Producers
  /\ Uses \subseteq [rank : [Contexts -> Nat], max : Nat]
  /\ Requested \subseteq Nodes /\ MaxPops \in Nat /\ PushDummy \in BOOLEAN

VARIABLES
  use,               \* one of Uses
  head, tail,        \* the pointers of the queue
  next, owned,       \* the fields of the nodes
  stack,             \* the contexts in a call, innermost last
  pc,                \* the next access of a context
  node,              \* the node a context pushes, or has popped
  headPtr, tailPtr, nextPtr,  \* the locals of a call
  emptyAtCall,       \* history: pop_front found the queue empty when it was called
  pushes, pops, fault

queueVars == <<head, tail, next, owned>>
localVars == <<headPtr, tailPtr, nextPtr>>
callVars == <<use, stack, node, emptyAtCall, pushes, pops>>
vars == <<queueVars, localVars, callVars, pc, fault>>

\* The context that runs, its next access and its locals
Me == stack[Len(stack)]
At(at) == fault = "none" /\ stack # <<>> /\ pc[Me] = at
Goto(at) == pc' = [pc EXCEPT ![Me] = at]
Let(register, value) == register' = [register EXCEPT ![Me] = value]

\* The nodes from n on, up to the end or to the first node that comes again.
RECURSIVE From(_, _)
From(n, seen) == IF n = Null \/ n \in seen THEN <<>> ELSE <<n>> \o From(next[n], seen \cup {n})

\* The items of the queue: the nodes after the dummy
Items == IF head = Null THEN <<>> ELSE From(next[head], {head})
InQueue == {Items[i] : i \in DOMAIN Items}

-----------------------------------------------------------------------------
(* Calls                                                                   *)

\* Interrupts nest: the contexts in a call are all below the one that calls.
CanCall(c) ==
  /\ fault = "none"
  /\ \A i \in DOMAIN stack : stack[i] # c /\ use.rank[stack[i]] < use.rank[c]

Call(c, at) ==
  /\ stack' = Append(stack, c)
  /\ pc' = [pc EXCEPT ![c] = at]

\* push_back of a node that is not in the queue, and set_pending_executor_poll
CallPush(c, n) ==
  /\ CanCall(c) /\ pushes[n] < use.max
  /\ PushDummy \/ n # head
  /\ IF n \in Requested
     THEN Call(c, "isLinked")
     ELSE /\ ~owned[n] /\ \A d \in Contexts : node[d] # n
          /\ Call(c, "initHead")
  /\ node' = [node EXCEPT ![c] = n]
  /\ pushes' = [pushes EXCEPT ![n] = @ + 1]
  /\ UNCHANGED <<use, queueVars, localVars, emptyAtCall, pops, fault>>

\* pop_front
CallPop ==
  /\ CanCall(Consumer) /\ pops < MaxPops
  /\ Call(Consumer, "initHead")
  /\ node' = [node EXCEPT ![Consumer] = Null]
  /\ emptyAtCall' = (Items = <<>>)
  /\ pops' = pops + 1
  /\ UNCHANGED <<use, queueVars, localVars, pushes, fault>>

Return ==
  /\ At("return")
  /\ stack' = SubSeq(stack, 1, Len(stack) - 1)
  /\ Goto("idle")
  /\ Let(node, Null) /\ Let(headPtr, Null) /\ Let(tailPtr, Null) /\ Let(nextPtr, Null)
  /\ UNCHANGED <<use, queueVars, emptyAtCall, pushes, pops, fault>>

\* set_pending_executor_poll: nothing is pushed when the node is linked
IsLinked ==
  /\ At("isLinked")
  /\ Goto(IF owned[node[Me]] THEN "return" ELSE "initHead")
  /\ UNCHANGED <<queueVars, localVars, callVars, fault>>

\* init_once
InitHead ==
  /\ At("initHead")
  /\ head' = IF head = Null THEN Sentinel ELSE head
  /\ Goto("initTail")
  /\ UNCHANGED <<tail, next, owned, localVars, callVars, fault>>

InitTail ==
  /\ At("initTail")
  /\ tail' = IF tail = Null THEN Sentinel ELSE tail
  /\ Goto(IF Me = Consumer THEN "loadHead" ELSE "own")
  /\ UNCHANGED <<head, next, owned, localVars, callVars, fault>>

-----------------------------------------------------------------------------
(* push_back                                                               *)

\* owned: false to true
Own ==
  /\ At("own")
  /\ IF owned[node[Me]]
     THEN fault' = "ItemAlreadyInQueue" /\ UNCHANGED <<owned, pc>>
     ELSE owned' = [owned EXCEPT ![node[Me]] = TRUE] /\ Goto("clear") /\ UNCHANGED fault
  /\ UNCHANGED <<head, tail, next, localVars, callVars>>

\* "Ensure next is null initially"
Clear ==
  /\ At("clear")
  /\ next' = [next EXCEPT ![node[Me]] = Null]
  /\ Goto("pushTail")
  /\ UNCHANGED <<head, tail, owned, localVars, callVars, fault>>

\* The loop: tail, its next, and whether tail is still the same
PushTail ==
  /\ At("pushTail")
  /\ Let(tailPtr, tail)
  /\ Goto("pushNext")
  /\ UNCHANGED <<queueVars, headPtr, nextPtr, callVars, fault>>

PushNext ==
  /\ At("pushNext")
  /\ Let(nextPtr, next[tailPtr[Me]])
  /\ Goto("pushCheck")
  /\ UNCHANGED <<queueVars, headPtr, tailPtr, callVars, fault>>

PushCheck ==
  /\ At("pushCheck")
  /\ Goto(CASE tail # tailPtr[Me] -> "pushTail"
            [] nextPtr[Me] = Null -> "link"
            [] OTHER -> "help")
  /\ UNCHANGED <<queueVars, localVars, callVars, fault>>

\* Mutant: the node is linked by a store.
LinkStore ==
  /\ At("link")
  /\ next' = [next EXCEPT ![tailPtr[Me]] = node[Me]] /\ Goto("advance")
  /\ UNCHANGED <<head, tail, owned, localVars, callVars, fault>>

\* The node is linked after the last one, if that still is the last.
Link ==
  /\ At("link")
  /\ IF next[tailPtr[Me]] = Null
     THEN next' = [next EXCEPT ![tailPtr[Me]] = node[Me]] /\ Goto("advance")
     ELSE Goto("pushTail") /\ UNCHANGED next
  /\ UNCHANGED <<head, tail, owned, localVars, callVars, fault>>

\* Mutant: tail is advanced by a store.
AdvanceStore ==
  /\ At("advance")
  /\ tail' = node[Me]
  /\ Goto("return")
  /\ UNCHANGED <<head, next, owned, localVars, callVars, fault>>

\* tail is advanced, if nobody else has done it.
Advance ==
  /\ At("advance")
  /\ tail' = IF tail = tailPtr[Me] THEN node[Me] ELSE tail
  /\ Goto("return")
  /\ UNCHANGED <<head, next, owned, localVars, callVars, fault>>

\* Mutant: a tail that lags is left to the one who pushes.
HelpNot ==
  /\ At("help")
  /\ Goto(IF Me = Consumer THEN "loadHead" ELSE "pushTail")
  /\ UNCHANGED <<queueVars, localVars, callVars, fault>>

\* A tail that lags is advanced, in push_back and in pop_front.
Help ==
  /\ At("help")
  /\ tail' = IF tail = tailPtr[Me] THEN nextPtr[Me] ELSE tail
  /\ Goto(IF Me = Consumer THEN "loadHead" ELSE "pushTail")
  /\ UNCHANGED <<head, next, owned, localVars, callVars, fault>>

-----------------------------------------------------------------------------
(* pop_front                                                               *)

\* The loop: head, tail, the next of head, and whether head is still the same
LoadHead ==
  /\ At("loadHead")
  /\ Let(headPtr, head)
  /\ Goto("popTail")
  /\ UNCHANGED <<queueVars, tailPtr, nextPtr, callVars, fault>>

PopTail ==
  /\ At("popTail")
  /\ Let(tailPtr, tail)
  /\ Goto("popNext")
  /\ UNCHANGED <<queueVars, headPtr, nextPtr, callVars, fault>>

PopNext ==
  /\ At("popNext")
  /\ Let(nextPtr, next[headPtr[Me]])
  /\ Goto("popCheck")
  /\ UNCHANGED <<queueVars, headPtr, tailPtr, callVars, fault>>

\* Mutant: the queue counts as empty when head and tail are equal.
PopCheckTail ==
  /\ At("popCheck")
  /\ Goto(CASE head # headPtr[Me] -> "loadHead"
            [] headPtr[Me] = tailPtr[Me] -> "return"
            [] OTHER -> IF nextPtr[Me] = Null THEN "loadHead" ELSE "take")
  /\ UNCHANGED <<queueVars, localVars, callVars, fault>>

PopCheck ==
  /\ At("popCheck")
  /\ Goto(CASE head # headPtr[Me] -> "loadHead"
            [] headPtr[Me] = tailPtr[Me] -> IF nextPtr[Me] = Null THEN "return" ELSE "help"
            [] OTHER -> IF nextPtr[Me] = Null THEN "loadHead" ELSE "take")
  /\ UNCHANGED <<queueVars, localVars, callVars, fault>>

\* head moves to the first item, which becomes the dummy.
Take ==
  /\ At("take")
  /\ IF head = headPtr[Me]
     THEN head' = nextPtr[Me] /\ Goto("disown")
     ELSE Goto("loadHead") /\ UNCHANGED head
  /\ UNCHANGED <<tail, next, owned, localVars, callVars, fault>>

\* owned: true to false
Disown ==
  /\ At("disown")
  /\ IF owned[nextPtr[Me]]
     THEN /\ owned' = [owned EXCEPT ![nextPtr[Me]] = FALSE]
          /\ node' = [node EXCEPT ![Me] = nextPtr[Me]]
          /\ Goto("return") /\ UNCHANGED fault
     ELSE fault' = "ItemNotInQueue" /\ UNCHANGED <<owned, node, pc>>
  /\ UNCHANGED <<use, head, tail, next, localVars, stack, emptyAtCall, pushes, pops>>

-----------------------------------------------------------------------------
Init ==
  /\ use \in Uses
  /\ head = Null /\ tail = Null
  /\ next = [n \in AllNodes |-> Null]
  /\ owned = [n \in AllNodes |-> FALSE]
  /\ stack = <<>>
  /\ pc = [c \in Contexts |-> "idle"]
  /\ node = [c \in Contexts |-> Null]
  /\ headPtr = [c \in Contexts |-> Null]
  /\ tailPtr = [c \in Contexts |-> Null]
  /\ nextPtr = [c \in Contexts |-> Null]
  /\ emptyAtCall = TRUE
  /\ pushes = [n \in Nodes |-> 0] /\ pops = 0 /\ fault = "none"

Calls == CallPop \/ \E c \in Producers, n \in Nodes : CallPush(c, n)

PushStep == Own \/ Clear \/ PushTail \/ PushNext \/ PushCheck \/ Link \/ Advance
PopStep == LoadHead \/ PopTail \/ PopNext \/ PopCheck \/ Take \/ Disown
Step == IsLinked \/ InitHead \/ InitTail \/ PushStep \/ PopStep \/ Help \/ Return

Next == Calls \/ Step

Spec == Init /\ [][Next]_vars

\* A context that is in a call goes on, until a higher one interrupts it.
FairSpec == Spec /\ WF_vars(Step)

-----------------------------------------------------------------------------
(* Properties                                                              *)

\* The queue is first in, first out.  Its items only change when push_back appends its node
\* and when pop_front removes the first item, which is the one that it returns; no access
\* of an interrupted call does anything else to them.
FifoSteps ==
  [][\/ At("link") /\ Items' = Append(Items, node[Me])
     \/ At("take") /\ Items # <<>> /\ Items' = Tail(Items) /\ head' = Head(Items)]_Items

\* The accesses of push_back between the claim of the node and its link
Pushing == {"clear", "pushTail", "pushNext", "pushCheck", "link", "help"}

\* The pointers and the flags tell the truth while calls are interrupted: tail is the dummy
\* or a node of the queue, though it may lag ("tail always points to a valid node"), and a
\* node is owned exactly while it is in the queue, is about to be, or is being taken out.
QueueSound ==
  /\ tail \in {Null, head} \cup InQueue
  /\ \A n \in Nodes :
       owned[n] <=> \/ n \in InQueue
                    \/ \E c \in Producers : node[c] = n /\ pc[c] \in Pushing
                    \/ pc[Consumer] = "disown" /\ nextPtr[Consumer] = n

\* pop_front returns None only if the queue was empty when it was called, also when the
\* push of an item was interrupted before tail was advanced.
NoneIsEmpty == pc[Consumer] = "return" /\ node[Consumer] = Null => emptyAtCall

\* Every call returns: a context never waits in a loop for the one that it interrupted.
CallsReturn == (stack # <<>>) ~> (stack = <<>> \/ fault # "none")

-----------------------------------------------------------------------------
(* What the code does not keep; see the README for the counterexamples.    *)

\* push_back never finds its node in the queue when set_pending_executor_poll has found that
\* it is not linked (interrupt.rs:289, "Poll already pending").
NeverLinkedTwice == fault # "ItemAlreadyInQueue"
=============================================================================
