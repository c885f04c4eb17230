------------------------------ MODULE Monitor -------------------------------
(***************************************************************************)
(* Threads and interrupt handlers that share mutexes and condition         *)
(* variables: sync/mutex.rs, sync/condvar.rs and the wait queues of        *)
(* kernel/waiter.rs.                                                       *)
(*                                                                         *)
(* The scheduler is taken as it promises to be: the ready user of highest  *)
(* priority runs, and a user that holds a mutex has the ceiling priority,  *)
(* which is above every user.  A user becomes ready at any moment.         *)
(***************************************************************************)
EXTENDS KernelList

CONSTANTS
  Users,      \* the threads and interrupt handlers
  Orders,     \* the base priorities that the users may have
  Servers,    \* the users that call again when a call is done
  Mutexes,
  Condvars

VARIABLES
  prio,       \* the base priorities, one of Orders
  pc,         \* where a user is in a call
  owner,      \* the user that holds a mutex, or Nobody
  waiters     \* the wait queue of a condition variable

Nobody == "nobody"

ASSUME MonitorAssumption ==
  /\ Nobody \notin Users /\ Servers \subseteq Users
  /\ \A p \in Orders : p \in [Users -> Nat]

Asleep == {"idle", "waiting"}
Ready(t) == pc[t] \notin Asleep
Holds(t) == \E m \in Mutexes : owner[m] = t

\* The scheduler lets user t run.
CanRun(t) ==
  /\ Ready(t)
  /\ \A u \in Users \ {t} : Ready(u) => ~Holds(u) /\ (Holds(t) \/ prio[u] <= prio[t])

At(t, at) == pc[t] = at /\ CanRun(t)

\* User t has the highest priority of all.
OnTop(t) == \A u \in Users \ {t} : prio[u] < prio[t]

\* Mutex::lock
Locked(m, t) == [owner EXCEPT ![m] = t]

\* The drop of a MutexGuard and RawCeilingLockGuard::unlock: nothing is released
\* by a guard whose lock is free.
Unlocked(m, t) == [owner EXCEPT ![m] = IF @ = t THEN Nobody ELSE @]

\* wait_current_thread: a thread waits behind those of its priority
Enqueued(c, t) ==
  [waiters EXCEPT ![c] = InsertAfter(@, t, {u \in Users : prio[u] >= prio[t]})]

\* WaitQueue::async_wait: a task waits behind all others
EnqueuedLast(c, t) == [waiters EXCEPT ![c] = Append(@, t)]

\* WaitQueue::notify_one: the first waiter is taken from the queue and resumed
Notified(c) == [waiters EXCEPT ![c] = IF @ = <<>> THEN @ ELSE Tail(@)]
Resumed(c) == IF waiters[c] = <<>> THEN {} ELSE {Head(waiters[c])}

\* The program counters when user t goes on at `at` and those in S are resumed
Go(t, at, S) ==
  pc' = [u \in Users |-> IF u \in S THEN "relock" ELSE IF u = t THEN at ELSE pc[u]]
=============================================================================
