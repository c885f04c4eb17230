----------------------------- MODULE Rendezvous -----------------------------
(***************************************************************************)
(* sync/rendezvous.rs: the thread "entry" hands an argument to the thread  *)
(* "accept" and waits for the result.  Argument and result are options     *)
(* behind a mutex each; both threads wait on the same condition variable.  *)
(* The argument of a call is its number, and the result tells which        *)
(* argument it was computed from.                                          *)
(***************************************************************************)
EXTENDS Monitor

CONSTANT MaxCalls   \* bound on the calls of entry

VARIABLES
  option,     \* the argument and the result, or None
  taken,      \* what a thread has taken from its option
  calls       \* the number of calls of entry

vars == <<prio, pc, owner, waiters, option, taken, calls>>

None == 0

ASSUME RendezvousAssumption ==
  /\ Users = {"entry", "accept"} /\ Servers \subseteq {"accept"}
  /\ Mutexes = {"arg", "result"} /\ Condvars = {"waiter"} /\ MaxCalls \in Nat

\* The option a thread fills, and the one it waits for
Gives(t) == IF t = "entry" THEN "arg" ELSE "result"
Takes(t) == IF t = "entry" THEN "result" ELSE "arg"

\* Where a thread is between two calls: a server is in the next one.
Rest(t) == IF t \in Servers THEN "call" ELSE "idle"

\* The thread is made ready.
Wake(t) ==
  /\ pc[t] = "idle"
  /\ t = "entry" => calls < MaxCalls
  /\ calls' = IF t = "entry" THEN calls + 1 ELSE calls
  /\ Go(t, "call", {})
  /\ UNCHANGED <<prio, owner, waiters, option, taken>>

\* "Provide argument" is the first thing entry does, "Return result" the last thing
\* accept does.
Put(t) ==
  /\ At(t, IF t = "entry" THEN "call" ELSE "put")
  /\ owner' = Locked(Gives(t), t)
  /\ option' = [option EXCEPT ![Gives(t)] = IF t = "entry" THEN calls ELSE taken[t]]
  /\ Go(t, "drop", {})
  /\ UNCHANGED <<prio, waiters, taken, calls>>

\* The drop of the guard after Put
DropGuard(t) ==
  /\ At(t, "drop")
  /\ owner' = Unlocked(Gives(t), t)
  /\ Go(t, "notify", {})
  /\ UNCHANGED <<prio, waiters, option, taken, calls>>

\* Mutant: nobody is notified.
NotifySilent(t) ==
  /\ At(t, "notify")
  /\ Go(t, IF t = "entry" THEN "get" ELSE Rest(t), {})
  /\ UNCHANGED <<prio, owner, waiters, option, taken, calls>>

\* "Notify thread waiting for the argument if any", and for the result
Notify(t) ==
  /\ At(t, "notify")
  /\ waiters' = Notified("waiter")
  /\ Go(t, IF t = "entry" THEN "get" ELSE Rest(t), Resumed("waiter"))
  /\ UNCHANGED <<prio, owner, option, taken, calls>>

\* The lock in front of wait_while
Get(t) ==
  /\ At(t, IF t = "entry" THEN "get" ELSE "call")
  /\ owner' = Locked(Takes(t), t)
  /\ Go(t, "check", {})
  /\ UNCHANGED <<prio, waiters, option, taken, calls>>

\* Mutant: the option keeps what is taken from it.
CheckKeep(t) ==
  /\ At(t, "check")
  /\ IF option[Takes(t)] = None
     THEN owner' = Unlocked(Takes(t), t) /\ Go(t, "wait", {}) /\ UNCHANGED taken
     ELSE /\ taken' = [taken EXCEPT ![t] = option[Takes(t)]]
          /\ Go(t, "release", {})
          /\ UNCHANGED owner
  /\ UNCHANGED <<prio, waiters, option, calls>>

\* The test of wait_while: the option is taken, or wait_lock unlocks the guard.
Check(t) ==
  /\ At(t, "check")
  /\ IF option[Takes(t)] = None
     THEN owner' = Unlocked(Takes(t), t) /\ Go(t, "wait", {}) /\ UNCHANGED <<option, taken>>
     ELSE /\ taken' = [taken EXCEPT ![t] = option[Takes(t)]]
          /\ option' = [option EXCEPT ![Takes(t)] = None]
          /\ Go(t, "release", {})
          /\ UNCHANGED owner
  /\ UNCHANGED <<prio, waiters, calls>>

\* WaitQueue::wait
Wait(t) ==
  /\ At(t, "wait")
  /\ waiters' = Enqueued("waiter", t)
  /\ Go(t, "waiting", {})
  /\ UNCHANGED <<prio, owner, option, taken, calls>>

\* wait_lock locks the mutex again.
Relock(t) ==
  /\ At(t, "relock")
  /\ owner' = Locked(Takes(t), t)
  /\ Go(t, "check", {})
  /\ UNCHANGED <<prio, waiters, option, taken, calls>>

\* The drop of the guard of the taken option: entry returns, accept computes.
Release(t) ==
  /\ At(t, "release")
  /\ owner' = Unlocked(Takes(t), t)
  /\ Go(t, IF t = "entry" THEN Rest(t) ELSE "put", {})
  /\ UNCHANGED <<prio, waiters, option, taken, calls>>

-----------------------------------------------------------------------------
Init ==
  /\ prio \in Orders /\ pc = [t \in Users |-> Rest(t)]
  /\ owner = [m \in Mutexes |-> Nobody] /\ waiters = [c \in Condvars |-> <<>>]
  /\ option = [m \in Mutexes |-> None] /\ taken = [t \in Users |-> None]
  /\ calls = 0

Step(t) ==
  \/ Put(t) \/ DropGuard(t) \/ Notify(t) \/ Get(t) \/ Check(t) \/ Wait(t) \/ Relock(t)
  \/ Release(t)

Next == \E t \in Users : Wake(t) \/ Step(t)

Spec == Init /\ [][Next]_vars

\* The processor does not stop while there is a thread to run.
FairSpec == Spec /\ WF_vars(\E t \in Users : Step(t))

-----------------------------------------------------------------------------
(* Properties                                                              *)

\* Type correctness: a thread is in the wait queue once.
TypeOK ==
  /\ pc \in [Users -> {"idle", "call", "put", "drop", "notify", "get", "check", "wait",
                       "waiting", "relock", "release"}]
  /\ owner \in [Mutexes -> Users \cup {Nobody}]
  /\ waiters \in [Condvars -> Seq(Users)] /\ Distinct(waiters["waiter"])
  /\ option \in [Mutexes -> 0 .. MaxCalls] /\ taken \in [Users -> 0 .. MaxCalls]
  /\ calls \in 0 .. MaxCalls

\* The result that a call of entry returns was computed from its own argument.
OwnResult == pc["entry"] = "release" => taken["entry"] = calls

\* When no thread is left to run, none of them waits for an option that is filled: no
\* notification has been lost (entry: "Notify thread waiting for the argument if any";
\* accept: "Notify thread waiting for the result").
NoneLeftWaiting ==
  (\A t \in Users : ~Ready(t)) =>
    \A t \in Users : pc[t] = "waiting" => option[Takes(t)] = None

\* The notifications both ways arrive when accept is a server above entry: it cannot be
\* overtaken between its check and its entry into the wait queue (Condvar::wait_lock),
\* and it waits there when entry calls.
NoneLeftBelow == OnTop("accept") /\ "accept" \in Servers => NoneLeftWaiting

\* Every call of entry returns when its server accepts again and again above it.
EntryReturns == OnTop("accept") /\ pc["entry"] # "idle" ~> pc["entry"] = "idle"
=============================================================================
