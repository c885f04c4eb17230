------------------------------ MODULE Channel -------------------------------
(***************************************************************************)
(* sync/channel.rs: a bounded channel, a ring buffer behind a mutex with a *)
(* condition variable for the receiver and one for the senders.            *)
(*                                                                         *)
(* A call locks the mutex, checks the buffer, and pushes or pops, or waits *)
(* in between: the guard is unlocked, the user is put into the wait queue, *)
(* and when it has been notified it locks the mutex again and checks again.*)
(***************************************************************************)
EXTENDS Monitor

CONSTANTS
  Capacity,   \* the size of the ring buffer
  Calls,      \* the calls each user makes
  MaxItems    \* the number of items sent: a bound

VARIABLES
  head, tail, used, slots,  \* the ring buffer
  op, item,                 \* the call of a user, and the item it sends
  count,                    \* the items handed to senders so far
  received                  \* the items received so far, in order

fifoVars == <<head, tail, used, slots>>
vars == <<prio, pc, owner, waiters, fifoVars, op, item, count, received>>

NoItem == 0
Values == 1 .. MaxItems
Sends == {"send", "try_send"}
Receives == {"recv", "try_recv", "async_recv"}

ASSUME ChannelAssumption ==
  /\ Capacity \in Nat \ {0} /\ MaxItems \in Nat
  /\ Calls \in [Users -> SUBSET (Sends \cup Receives)]
  /\ Mutexes = {"fifo"} /\ Condvars = {"receivers", "senders"}

\* The condition variable of a call, and the one it notifies
Own(o) == IF o \in Sends THEN "senders" ELSE "receivers"
Other(o) == IF o \in Sends THEN "receivers" ELSE "senders"

\* is_full for a sender, is_empty for the receiver
Unable(o) == used = (IF o \in Sends THEN Capacity ELSE 0)

-----------------------------------------------------------------------------
(* The ring buffer                                                         *)

\* Mutant: the head does not wrap around.
PushNoWrap(x) ==
  /\ slots' = [slots EXCEPT ![head] = x]
  /\ head' = head + 1
  /\ used' = used + 1

\* push_to_slice: an item that finds no free slot is dropped
PushToSlice(x) ==
  IF used = Capacity THEN UNCHANGED <<slots, head, used>>
  ELSE /\ slots' = [slots EXCEPT ![head] = x]
       /\ head' = (head + 1) % Capacity
       /\ used' = used + 1

\* pop_from_slice, unwrapped: the receiver panics when there is no item.  The slot
\* keeps its bits.
PopFromSlice ==
  /\ used > 0
  /\ received' = Append(received, slots[tail])
  /\ tail' = (tail + 1) % Capacity
  /\ used' = used - 1

Transfer(t) ==
  \/ op[t] \in Sends /\ PushToSlice(item[t]) /\ UNCHANGED <<tail, received>>
  \/ op[t] \notin Sends /\ PopFromSlice /\ UNCHANGED <<head, slots>>

-----------------------------------------------------------------------------
(* Calls                                                                   *)

\* A user is made ready to make one of its calls.
Wake(t) ==
  /\ pc[t] = "idle"
  /\ \E o \in Calls[t] :
       /\ op' = [op EXCEPT ![t] = o]
       /\ IF o \in Sends
          THEN /\ count < MaxItems
               /\ count' = count + 1
               /\ item' = [item EXCEPT ![t] = count + 1]
          ELSE UNCHANGED <<count, item>>
  /\ Go(t, "call", {})
  /\ UNCHANGED <<prio, owner, waiters, fifoVars, received>>

\* The lock of the mutex at the start of every call
Call(t) ==
  /\ At(t, "call")
  /\ owner' = Locked("fifo", t)
  /\ Go(t, "check", {})
  /\ UNCHANGED <<prio, waiters, fifoVars, op, item, count, received>>

\* The test of wait_while, and of try_send and try_recv.  wait_lock begins by
\* unlocking the guard.
Check(t) ==
  /\ At(t, "check")
  /\ IF ~Unable(op[t])
     THEN Go(t, "act", {}) /\ UNCHANGED owner
     ELSE IF op[t] \in {"try_send", "try_recv"}
     THEN Go(t, "release", {}) /\ UNCHANGED owner
     ELSE Go(t, "wait", {}) /\ owner' = Unlocked("fifo", t)
  /\ UNCHANGED <<prio, waiters, fifoVars, op, item, count, received>>

\* WaitQueue::wait, and the first poll of async_wait
Wait(t) ==
  /\ At(t, "wait")
  /\ waiters' = IF op[t] = "async_recv" THEN EnqueuedLast(Own(op[t]), t)
                                        ELSE Enqueued(Own(op[t]), t)
  /\ Go(t, "waiting", {})
  /\ UNCHANGED <<prio, owner, fifoVars, op, item, count, received>>

\* wait_lock locks the mutex again.  async_wait calls lock instead of relock and
\* drops the guard it returns, which unlocks the mutex at once.
Relock(t) ==
  /\ At(t, "relock")
  /\ owner' = IF op[t] = "async_recv" THEN owner ELSE Locked("fifo", t)
  /\ Go(t, "check", {})
  /\ UNCHANGED <<prio, waiters, fifoVars, op, item, count, received>>

\* Mutant: nobody is notified.
ActSilent(t) ==
  /\ At(t, "act")
  /\ Transfer(t)
  /\ Go(t, "release", {})
  /\ UNCHANGED <<prio, owner, waiters, op, item, count>>

\* The push or the pop, and notify_one on the other condition variable
Act(t) ==
  /\ At(t, "act")
  /\ Transfer(t)
  /\ waiters' = Notified(Other(op[t]))
  /\ Go(t, "release", Resumed(Other(op[t])))
  /\ UNCHANGED <<prio, owner, op, item, count>>

\* The drop of the guard
Release(t) ==
  /\ At(t, "release")
  /\ owner' = Unlocked("fifo", t)
  /\ Go(t, "idle", {})
  /\ UNCHANGED <<prio, waiters, fifoVars, op, item, count, received>>

-----------------------------------------------------------------------------
Init ==
  /\ prio \in Orders /\ pc = [t \in Users |-> "idle"]
  /\ owner = [m \in Mutexes |-> Nobody] /\ waiters = [c \in Condvars |-> <<>>]
  /\ head = 0 /\ tail = 0 /\ used = 0
  /\ slots \in [0 .. Capacity - 1 -> {NoItem}]
  /\ op = [t \in Users |-> "none"]
  /\ item = [t \in Users |-> NoItem]
  /\ count = 0 /\ received = <<>>

Step(t) == Call(t) \/ Check(t) \/ Wait(t) \/ Relock(t) \/ Act(t) \/ Release(t)
Next == \E t \in Users : Wake(t) \/ Step(t)

Spec == Init /\ [][Next]_vars

\* The processor does not stop while there is a user to run, and a server calls
\* again.
FairSpec ==
  Spec /\ WF_vars(\E t \in Users : Step(t)) /\ \A t \in Servers : WF_vars(Wake(t))

-----------------------------------------------------------------------------
(* Properties                                                              *)

\* Type correctness: the indices stay inside the ring buffer.
TypeOK ==
  /\ pc \in [Users -> {"idle", "call", "check", "act", "wait", "waiting", "relock", "release"}]
  /\ owner \in [Mutexes -> Users \cup {Nobody}]
  /\ waiters \in [Condvars -> Seq(Users)]
  /\ head \in 0 .. Capacity - 1 /\ tail \in 0 .. Capacity - 1 /\ used \in 0 .. Capacity
  /\ slots \in [0 .. Capacity - 1 -> Values \cup {NoItem}]
  /\ op \in [Users -> Sends \cup Receives \cup {"none"}]
  /\ item \in [Users -> Values \cup {NoItem}]
  /\ count \in 0 .. MaxItems /\ received \in Seq(Values)

\* The items in the ring buffer, oldest first
Contents == [k \in 1 .. used |-> slots[(tail + k - 1) % Capacity]]

F == INSTANCE Fifo WITH queue <- Contents

\* The channel implements the bounded queue of Fifo, whatever the interleaving of
\* its users and however often the indices have wrapped around (FIFO, push_to_slice,
\* pop_from_slice).
ImplementsFifo == F!Spec

\* A user above all others is never left waiting when its condition holds: no lower
\* user runs between its check and its entry into the wait queue (Condvar::wait_lock).
HighestNotLeft ==
  (\A t \in Users : ~Ready(t)) =>
    \A t \in Users : OnTop(t) /\ pc[t] = "waiting" => Unable(op[t])

\* Every item in the channel is received when the consumer is above the producers: recv
\* does not sleep through one, whatever becomes of the senders.
EveryItemArrives ==
  \A t \in Servers, v \in Values : OnTop(t) /\ v \in Items(Contents) ~> v \in Items(received)

-----------------------------------------------------------------------------
(* What comments of the code promise and the code does not keep; see the   *)
(* README for the counterexamples.                                         *)

\* When nobody is left to run, the receiver only waits on an empty channel and a
\* sender only on a full one: no notification has been lost (recv: "Wait file FIFO
\* is empty"; send: "Wait while FIFO is full").
NoneLeftWaiting ==
  (\A t \in Users : ~Ready(t)) =>
    /\ waiters["receivers"] # <<>> => used = 0
    /\ waiters["senders"] # <<>> => used = Capacity

\* A receiver that pops has locked the buffer and finds an item in it (recv and
\* async_recv: "FIFO is locked and cannot be empty, pop one item").
PopLocked ==
  \A t \in Users :
    pc[t] = "act" /\ op[t] \notin Sends => owner["fifo"] = t /\ used > 0
=============================================================================
