----------------------------- MODULE Scheduler ------------------------------
(***************************************************************************)
(* The SCARS kernel core: the scheduler with its ready, blocked, suspended *)
(* and sleep lists, the preemption lock with its deferred work, interrupt  *)
(* contexts and their exit path, system calls, ceiling locks and one wait  *)
(* queue.                                                                  *)
(*                                                                         *)
(* The processor runs one context at a time.  A context is a record with a *)
(* program counter: thr[t] for thread t in thread mode, and one record per *)
(* active interrupt context in `frames`, the innermost last.  An interrupt *)
(* may arrive between any two steps unless the hardware masks it.          *)
(*                                                                         *)
(* Priorities are the integers of Priority::into_any; Invalid is -1.       *)
(***************************************************************************)
EXTENDS KernelList, PendingQueue, FiniteSets

CONSTANTS
  Threads,        \* the application's threads
  Idle,           \* the idle thread
  Devices,        \* the interrupt control blocks of the attached interrupts
  Locks,          \* the ceiling locks
  BasePriority,   \* base priority of every thread
  Ceiling,        \* ceiling of every lock
  WaitCeiling,    \* ceiling of the wait queue
  HwPriority,     \* hardware priority of every interrupt source
  Masked,         \* the sources whose handlers run with interrupts disabled
  MaxTime,        \* the last tick of the clock: a bound
  MaxSections,    \* nesting depth of `with` sections of a thread: a bound
  Apps            \* the applications: their threads, devices and locks, and the
                  \* services their threads and their handlers call

AllThreads == Threads \cup {Idle}

ASSUME ConstantsAssumption ==
  /\ Idle \notin Threads /\ Threads \cap Devices = {}
  /\ \A t \in AllThreads : BasePriority[t] \in Nat
  /\ \A l \in Locks : Ceiling[l] \in Nat
  /\ WaitCeiling \in Nat /\ MaxTime \in Nat
  /\ \A a \in Apps : a.parts \subseteq Threads \cup Devices \cup Locks

SYSCALL == "SYSCALL"
TIMER == "TIMER"
Icbs == Devices \cup {SYSCALL, TIMER}
Null == "null"
NoTime == -1
INVALID == -1
MIN == 0

\* The preemption lock holds the address of a thread or of an interrupt control block.
ASSUME AddressAssumption ==
  /\ AllThreads \cap Icbs = {} /\ Null \notin AllThreads \cup Icbs
  /\ {SYSCALL, TIMER} \cap Devices = {}
  /\ \A i \in Icbs : HwPriority[i] \in Nat

VARIABLES
  tstate, ready, blocked, suspended, sleep, current, deadline,
  section, saved, scoped, owner,
  waitq, waited,
  preemptLock, pendingResume, pendingSleep, pendingKind, polls,
  thr, frames,
  now, alarm, fault,
  app             \* the application, one of Apps

queueVars == <<tstate, ready, blocked, suspended, sleep, current>>
lockVars == <<section, saved, scoped, owner>>
waitVars == <<waitq, waited>>
pendingVars == <<pendingResume, pendingSleep, pendingKind, polls>>
vars == <<queueVars, deadline, lockVars, waitVars, preemptLock, pendingVars,
          thr, frames, now, alarm, fault, app>>

\* Frames and saved priorities are stacks with the newest at the end.
Top(s) == s[Len(s)]
Popped(s) == SubSeq(s, 1, Len(s) - 1)

-----------------------------------------------------------------------------
(* Priorities                                                              *)

Higher(p, q) == IF p >= q THEN p ELSE q

\* RawThread::lock_priority, from the nesting priority s and the scoped locks
\* sc of a thread: the list of scoped locks has the highest ceiling first.
LockPriorityOf(s, sc) ==
  Higher(s, IF sc = <<>> THEN INVALID ELSE Ceiling[Head(sc)])

LockPriority(t) == LockPriorityOf(section[t], scoped[t])

\* RawThread::priority
Priority(t) == Higher(BasePriority[t], LockPriority(t))

\* RawScheduler::locks_priority_ceiling with b as the blocked list
LocksCeiling(b) ==
  IF b = <<>> THEN LockPriority(current)
              ELSE Higher(LockPriority(Head(b)), LockPriority(current))

-----------------------------------------------------------------------------
(* Insertion into the lists of the scheduler                               *)

\* Mutant: a lock holder goes behind its equals.
ReadyAheadFifo(t) == {u \in Threads : Priority(u) >= Priority(t)}

\* insert_to_ready_queue: behind the threads of its priority, but in front of
\* them while it holds a lock; the idle thread is never queued.
ReadyAhead(t) ==
  IF LockPriority(t) = INVALID
  THEN {u \in Threads : Priority(u) >= Priority(t)}
  ELSE {u \in Threads : Priority(u) > Priority(t)}

ReadyWith(r, t) == IF t = Idle THEN r ELSE InsertAfter(r, t, ReadyAhead(t))

\* Mutant: blocked threads are kept in order of blocking.
BlockedAheadTail(t) == Threads

\* insert_to_blocked_queue
BlockedAhead(t) ==
  {u \in Threads : /\ LockPriority(u) # INVALID
                   /\ LockPriority(t) # INVALID => LockPriority(u) >= LockPriority(t)}

\* Mutant: sleepers are kept in order of going to sleep.
SleepWithTail(s, x, dl) == Append(s, x)

\* insert_to_wakeup_queue and the insertion of schedule_interrupt_wakeup, with
\* dl as the deadlines
SleepWith(s, x, dl) == InsertAfter(s, x, {y \in Threads \cup Devices : dl[y] <= dl[x]})

\* reprogram_alarm with s as the sleep queue
AlarmFor(s, dl) == IF s = <<>> THEN NoTime ELSE dl[Head(s)]

-----------------------------------------------------------------------------
(* Contexts                                                                *)

\* A context outside the kernel: a thread in its own code (icb Null) or an
\* interrupt context in its handler.  `op` and its arguments describe the
\* service in progress, `ret` is the place to go on at when it is done, and
\* `outer` says that the preemption lock was free when the service took it.
Context(icb, pc) ==
  [icb |-> icb, pc |-> pc, op |-> "none", arg |-> Null, at |-> NoTime,
   kind |-> {}, ret |-> "user", outer |-> TRUE]

InIsr == frames # <<>>

\* Scheduler::current_execution_context
Ctx == IF InIsr THEN Top(frames) ELSE thr[current]
Me == IF InIsr THEN Ctx.icb ELSE current

Goto(c) ==
  IF InIsr
  THEN frames' = [frames EXCEPT ![Len(frames)] = c] /\ UNCHANGED thr
  ELSE thr' = [thr EXCEPT ![current] = c] /\ UNCHANGED frames

\* Begin `PreemptLock::with(op)` and go on at ret.
Section(c, op, arg, ret) ==
  [icb |-> c.icb, pc |-> "acquire", op |-> op, arg |-> arg, at |-> c.at,
   kind |-> c.kind, ret |-> ret, outer |-> c.outer]

Return(c) == Context(c.icb, c.ret)

At(pc) == fault = "none" /\ Ctx.pc = pc

\* What the body of a critical section goes on with: releasing the lock, or
\* the caller if the lock was already held.
Release(c) == IF c.outer THEN [c EXCEPT !.pc = "complete_resume"] ELSE Return(c)

-----------------------------------------------------------------------------
(* RawScheduler: the effects of its operations on the lists, without the   *)
(* control.  Each is part of an action below.                              *)

\* resume_thread
ResumeThread(t) ==
  LET queued == tstate[t] \in {"blocked", "suspended", "started"}
  IN /\ tstate' = IF queued THEN [tstate EXCEPT ![t] = "ready"] ELSE tstate
     /\ ready' = IF queued THEN ReadyWith(ready, t) ELSE ready
     /\ blocked' = IF tstate[t] = "blocked" THEN Unlink(blocked, t) ELSE blocked
     /\ suspended' = IF tstate[t] = "suspended" THEN Unlink(suspended, t) ELSE suspended
     /\ sleep' = IF tstate[t] = "blocked" /\ t \in Items(sleep)
                 THEN Unlink(sleep, t) ELSE sleep
     /\ pendingKind' =
          IF Higher(Priority(current), LocksCeiling(blocked')) < Priority(t)
          THEN pendingKind \cup {"higher"} ELSE pendingKind
     /\ UNCHANGED current

\* Mutant: the next thread must be above the thread that stops running.
NextAboveCurrent ==
  IF HeadSatisfies(ready, {t \in Threads : Priority(t) > Priority(current)})
  THEN Head(ready) ELSE Idle

\* The thread that runs when the current one stops running: the head of the
\* ready queue if it is above every lock held, else the idle thread.
NextAboveCeiling ==
  IF HeadSatisfies(ready, {t \in Threads : Priority(t) > Higher(LocksCeiling(blocked), MIN)})
  THEN Head(ready) ELSE Idle

\* Mutant: the thread switched to stays in the ready queue.
SwitchAwayPeek(st) ==
  /\ tstate' = [tstate EXCEPT ![current] = st, ![NextAboveCeiling] = "running"]
  /\ current' = NextAboveCeiling
  /\ UNCHANGED ready

\* switch_thread to NextAboveCeiling, leaving the old thread in state st
SwitchAway(st) ==
  LET next == NextAboveCeiling
  IN /\ tstate' = [tstate EXCEPT ![current] = st, ![next] = "running"]
     /\ ready' = IF next = Idle THEN ready ELSE Tail(ready)
     /\ current' = next

\* The switch and block_thread of delay_thread_until, wait_current_thread and
\* wait_current_thread_event, with deadline d or none.
BlockCurrent(d) ==
  /\ SwitchAway("blocked")
  /\ deadline' = [deadline EXCEPT ![current] = d]
  /\ sleep' = IF d = NoTime THEN sleep ELSE SleepWith(sleep, current, deadline')
  /\ alarm' = IF d = NoTime THEN alarm ELSE AlarmFor(sleep', deadline')
  /\ blocked' = InsertAfter(blocked, current, BlockedAhead(current))
  /\ UNCHANGED suspended

\* suspend_thread(None): the current thread
SuspendCurrent ==
  /\ SwitchAway("suspended")
  /\ suspended' = Append(suspended, current)
  /\ UNCHANGED <<blocked, sleep>>

\* schedule_interrupt_wakeup of RawScheduler
ScheduleWakeup(i) ==
  /\ sleep' = SleepWith(IF i \in Items(sleep) THEN Unlink(sleep, i) ELSE sleep,
                        i, deadline)
  /\ alarm' = AlarmFor(sleep', deadline)

\* Mutant: a thread of equal priority is enough.
CondRescheduleEqual(s, sc) ==
  pendingKind' =
    IF /\ ready # <<>>
       /\ Higher(BasePriority[current], LockPriorityOf(s, sc)) <= Priority(Head(ready))
    THEN pendingKind \cup {"higher"} ELSE pendingKind

\* cond_reschedule with s and sc as the current thread's locks
CondReschedule(s, sc) ==
  pendingKind' =
    IF /\ ready # <<>>
       /\ Higher(BasePriority[current], LockPriorityOf(s, sc)) < Priority(Head(ready))
    THEN pendingKind \cup {"higher"} ELSE pendingKind

-----------------------------------------------------------------------------
(* PreemptLock.  These actions are taken by threads and interrupts alike.  *)

\* Mutant: an interrupt swaps the lock like a thread does.
AcquireSwap ==
  /\ At("acquire")
  /\ preemptLock' = Me
  /\ Goto([Ctx EXCEPT !.pc = "locked", !.outer = preemptLock = Null])
  /\ UNCHANGED <<queueVars, deadline, lockVars, waitVars, pendingVars, app, now,
                 alarm, fault>>

\* acquire_nesting_lock and try_acquire_nesting_lock.  A thread swaps its own
\* address in; an interrupt takes the lock only if it is free, or already its.
Acquire ==
  /\ At("acquire")
  /\ InIsr => preemptLock \in {Null, Me}
  /\ preemptLock' = Me
  /\ Goto([Ctx EXCEPT !.pc = "locked", !.outer = preemptLock = Null])
  /\ UNCHANGED <<queueVars, deadline, lockVars, waitVars, pendingVars, app, now,
                 alarm, fault>>

\* push_back of x to queue q, when it does not return
PushFault(q, x) ==
  IF PushFails(q, x) THEN "ItemAlreadyInQueue" ELSE IF Spins(q) THEN "spin" ELSE "none"

\* try_with failed in an interrupt: a resume or a sleep is deferred to the
\* holder of the lock, a reschedule is made pending again, and a service that
\* would block the thread holding the lock is an error.
WouldBlock ==
  /\ At("acquire")
  /\ InIsr /\ preemptLock \notin {Null, Me}
  /\ pendingResume' = IF Ctx.op = "resume" THEN Push(pendingResume, Ctx.arg) ELSE pendingResume
  /\ pendingSleep' = IF Ctx.op = "sleep" THEN Push(pendingSleep, Ctx.arg) ELSE pendingSleep
  /\ pendingKind' = IF Ctx.op = "resched" THEN pendingKind \cup Ctx.kind ELSE pendingKind
  /\ fault' = CASE Ctx.op = "resume" -> PushFault(pendingResume, Ctx.arg)
                [] Ctx.op = "sleep" -> PushFault(pendingSleep, Ctx.arg)
                [] Ctx.op = "resched" -> "none"
                [] OTHER -> "BlocksWithPreemptLock"
  /\ Goto(Return(Ctx))
  /\ UNCHANGED <<queueVars, deadline, lockVars, waitVars, preemptLock, polls, app, now, alarm>>

\* complete_pending, first loop: one pending resume
CompleteResume ==
  /\ At("complete_resume")
  /\ IF Spins(pendingResume)
     THEN fault' = "spin" /\ UNCHANGED <<queueVars, pendingVars, thr, frames>>
     ELSE IF pendingResume.items = <<>>
     THEN /\ Goto([Ctx EXCEPT !.pc = "complete_sleep"])
          /\ UNCHANGED <<queueVars, pendingVars, fault>>
     ELSE /\ ResumeThread(Head(pendingResume.items))
          /\ pendingResume' = Pop(pendingResume)
          /\ UNCHANGED <<pendingSleep, polls, thr, frames, fault>>
  /\ UNCHANGED <<deadline, lockVars, waitVars, preemptLock, app, now, alarm>>

\* complete_pending, second loop: one pending sleep.  suspend_suspendable_now
\* reprograms the alarm once more, to the same time.
CompleteSleep ==
  /\ At("complete_sleep")
  /\ IF Spins(pendingSleep)
     THEN fault' = "spin" /\ UNCHANGED <<sleep, alarm, pendingSleep, thr, frames>>
     ELSE IF pendingSleep.items = <<>>
     THEN /\ Goto([Ctx EXCEPT !.pc = "store"])
          /\ UNCHANGED <<sleep, alarm, pendingSleep, fault>>
     ELSE /\ ScheduleWakeup(Head(pendingSleep.items))
          /\ pendingSleep' = Pop(pendingSleep)
          /\ UNCHANGED <<thr, frames, fault>>
  /\ UNCHANGED <<tstate, ready, blocked, suspended, current, deadline, lockVars, waitVars,
                 preemptLock, pendingResume, pendingKind, polls, app, now>>

\* release_nesting_lock: the store that frees the lock
Store ==
  /\ At("store")
  /\ preemptLock' = Null
  /\ Goto(IF InIsr THEN Return(Ctx) ELSE [Ctx EXCEPT !.pc = "check"])
  /\ UNCHANGED <<queueVars, deadline, lockVars, waitVars, pendingVars, app, now,
                 alarm, fault>>

\* release_nesting_lock in a thread: execute a pending reschedule by a yield
Check ==
  /\ At("check")
  /\ IF pendingKind = {}
     THEN Goto(Return(Ctx)) /\ UNCHANGED pendingKind
     ELSE /\ thr' = [thr EXCEPT ![current].pc = "released"]
          /\ frames' = <<Context(SYSCALL, "exit")>>
          /\ pendingKind' = pendingKind \cup {"equal", "higher"}
  /\ UNCHANGED <<queueVars, deadline, lockVars, waitVars, preemptLock,
                 pendingResume, pendingSleep, polls, app, now, alarm, fault>>

Released ==
  /\ At("released")
  /\ Goto(Return(Ctx))
  /\ UNCHANGED <<queueVars, deadline, lockVars, waitVars, preemptLock, pendingVars,
                 app, now, alarm, fault>>

-----------------------------------------------------------------------------
(* The critical sections, run while holding the preemption lock            *)

Locked(op) == At("locked") /\ Ctx.op = op

\* Scheduler::resume_thread, and start_thread
DoResume ==
  /\ Locked("resume")
  /\ ResumeThread(Ctx.arg)
  /\ Goto(Release(Ctx))
  /\ UNCHANGED <<deadline, lockVars, waitVars, preemptLock, pendingResume, pendingSleep,
                 polls, app, now, alarm, fault>>

\* Scheduler::schedule_interrupt_wakeup
DoSleep ==
  /\ Locked("sleep")
  /\ ScheduleWakeup(Ctx.arg)
  /\ Goto(Release(Ctx))
  /\ UNCHANGED <<tstate, ready, blocked, suspended, current, deadline, lockVars, waitVars,
                 preemptLock, pendingVars, app, now, fault>>

\* delay_thread_until
DoDelay ==
  /\ Locked("delay")
  /\ BlockCurrent(Ctx.at)
  /\ Goto(Release(Ctx))
  /\ UNCHANGED <<lockVars, waitVars, preemptLock, pendingVars, app, now, fault>>

\* wait_current_thread_event: whether the events already sent are enough to
\* go on is left open here.
DoWaitEvent ==
  /\ Locked("wait_event")
  /\ waited' = [waited EXCEPT ![current] = TRUE]
  /\ \/ BlockCurrent(Ctx.at)
     \/ UNCHANGED <<queueVars, deadline, alarm>>
  /\ Goto(Release(Ctx))
  /\ UNCHANGED <<lockVars, waitq, preemptLock, pendingVars, app, now, fault>>

\* wait_current_thread: the wait queue is in order of base priority; linking a
\* thread that is still linked is an error of the list.
DoWait ==
  /\ Locked("wait")
  /\ BlockCurrent(NoTime)
  /\ waitq' = InsertAfter(waitq, current,
                          {u \in Threads : BasePriority[u] >= BasePriority[current]})
  /\ fault' = IF current \in Items(waitq) THEN "AlreadyInList" ELSE fault
  /\ Goto(Release(Ctx))
  /\ UNCHANGED <<lockVars, waited, preemptLock, pendingVars, app, now>>

\* suspend_thread
DoSuspend ==
  /\ Locked("suspend")
  /\ SuspendCurrent
  /\ Goto(Release(Ctx))
  /\ UNCHANGED <<deadline, lockVars, waitVars, preemptLock, pendingVars, app, now,
                 alarm, fault>>

\* The critical section of set_nesting_lock_priority and release_nesting_lock
DoCond ==
  /\ Locked("cond")
  /\ CondReschedule(section[current], scoped[current])
  /\ Goto(Release(Ctx))
  /\ UNCHANGED <<queueVars, deadline, lockVars, waitVars, preemptLock, pendingResume,
                 pendingSleep, polls, app, now, alarm, fault>>

\* The errors RawCeilingLock::acquire_in_thread and acquire_scoped_lock find
LockFault(t, l) ==
  CASE owner[l] = t -> "RecursiveLock"
    [] Priority(t) > Ceiling[l] -> "CeilingPriorityViolation"
    [] owner[l] \notin {Null, t} /\ Priority(t) <= Ceiling[l] -> "LockAlreadyOwned"
    [] OTHER -> "none"

\* acquire_scoped_lock
DoLock ==
  /\ Locked("lock")
  /\ owner' = [owner EXCEPT ![Ctx.arg] = current]
  /\ scoped' = [scoped EXCEPT ![current] =
                  InsertAfter(@, Ctx.arg, {k \in Locks : Ceiling[k] > Ceiling[Ctx.arg]})]
  /\ fault' = LockFault(current, Ctx.arg)
  /\ Goto(Release(Ctx))
  /\ UNCHANGED <<queueVars, deadline, section, saved, waitVars, preemptLock, pendingVars,
                 app, now, alarm>>

\* release_scoped_lock, cond_reschedule included
DoUnlock ==
  /\ Locked("unlock")
  /\ owner' = [owner EXCEPT ![Ctx.arg] = Null]
  /\ scoped' = [scoped EXCEPT ![current] = Unlink(@, Ctx.arg)]
  /\ CondReschedule(section[current], Unlink(scoped[current], Ctx.arg))
  /\ Goto(Release(Ctx))
  /\ UNCHANGED <<queueVars, deadline, section, saved, waitVars, preemptLock, pendingResume,
                 pendingSleep, polls, app, now, alarm, fault>>

-----------------------------------------------------------------------------
(* interrupt_context: what follows the handler                             *)

\* A nested context returns to the one it interrupted; the outermost goes on
\* with the pending work.
Exit ==
  /\ At("exit")
  /\ IF Len(frames) = 1
     THEN Goto([Ctx EXCEPT !.pc = "polls"])
     ELSE frames' = Popped(frames) /\ UNCHANGED thr
  /\ UNCHANGED <<queueVars, deadline, lockVars, waitVars, preemptLock, pendingVars,
                 app, now, alarm, fault>>

\* One pending executor poll, run in a nested context of its interrupt
PollExecutor ==
  /\ At("polls")
  /\ IF Spins(polls)
     THEN fault' = "spin" /\ UNCHANGED <<polls, thr, frames>>
     ELSE IF polls.items = <<>>
     THEN Goto([Ctx EXCEPT !.pc = "swap"]) /\ UNCHANGED <<polls, fault>>
     ELSE /\ frames' = Append(frames, Context(Head(polls.items), "body"))
          /\ polls' = Pop(polls)
          /\ UNCHANGED <<thr, fault>>
  /\ UNCHANGED <<queueVars, deadline, lockVars, waitVars, preemptLock, pendingResume,
                 pendingSleep, pendingKind, app, now, alarm>>

\* execute_pending_reschedule: take the pending kind
SwapPending ==
  /\ At("swap")
  /\ pendingKind' = {}
  /\ Goto(IF pendingKind = {} THEN [Ctx EXCEPT !.pc = "again"]
          ELSE [Section(Ctx, "resched", Null, "again") EXCEPT !.kind = pendingKind])
  /\ UNCHANGED <<queueVars, deadline, lockVars, waitVars, preemptLock, pendingResume,
                 pendingSleep, polls, app, now, alarm, fault>>

\* reschedule: the time is read once
DoResched ==
  /\ Locked("resched")
  /\ Goto([Ctx EXCEPT !.pc = "wake", !.at = now])
  /\ UNCHANGED <<queueVars, deadline, lockVars, waitVars, preemptLock, pendingVars,
                 app, now, alarm, fault>>

\* set_pending_executor_poll
SetPendingPoll(i) ==
  /\ polls' = IF PushFails(polls, i) THEN polls ELSE Push(polls, i)
  /\ fault' = IF ~PushFails(polls, i) /\ Spins(polls) THEN "spin" ELSE fault

\* Mutant: a sleeper is due only after its deadline.
SleeperOverdue == sleep # <<>> /\ deadline[Head(sleep)] < Ctx.at

SleeperDue == sleep # <<>> /\ deadline[Head(sleep)] <= Ctx.at

\* reschedule: wakeup_suspendable of one sleeper whose time has come
WakeSleeper ==
  /\ At("wake")
  /\ SleeperDue
  /\ sleep' = Tail(sleep)
  /\ LET x == Head(sleep)
     IN IF x \in Devices
        THEN SetPendingPoll(x) /\ UNCHANGED <<tstate, ready, blocked>>
        ELSE /\ IF tstate[x] = "blocked"
                THEN /\ tstate' = [tstate EXCEPT ![x] = "ready"]
                     /\ blocked' = Unlink(blocked, x)
                     /\ ready' = ReadyWith(ready, x)
                ELSE UNCHANGED <<tstate, ready, blocked>>
             /\ UNCHANGED <<polls, fault>>
  /\ UNCHANGED <<suspended, current, deadline, lockVars, waitVars, preemptLock,
                 pendingResume, pendingSleep, pendingKind, thr, frames, app, now, alarm>>

\* reschedule: no more to wake up, program the alarm for the next sleeper
SetAlarm ==
  /\ At("wake")
  /\ ~SleeperDue
  /\ alarm' = AlarmFor(sleep, deadline)
  /\ Goto([Ctx EXCEPT !.pc = "pick"])
  /\ UNCHANGED <<queueVars, deadline, lockVars, waitVars, preemptLock, pendingVars, app, now,
                 fault>>

\* The ready threads reschedule may switch to
Eligible(kind) ==
  IF "equal" \in kind THEN {t \in Threads : Priority(t) >= Priority(current)}
                      ELSE {t \in Threads : Priority(t) > Priority(current)}

\* reschedule: switch to the head of the ready queue if it is eligible
PickNext ==
  /\ At("pick")
  /\ IF HeadSatisfies(ready, Eligible(Ctx.kind))
     THEN /\ tstate' = [tstate EXCEPT ![current] = "ready", ![Head(ready)] = "running"]
          /\ ready' = ReadyWith(Tail(ready), current)
          /\ current' = Head(ready)
     ELSE UNCHANGED <<tstate, ready, current>>
  /\ Goto(Release(Ctx))
  /\ UNCHANGED <<blocked, suspended, sleep, deadline, lockVars, waitVars, preemptLock,
                 pendingVars, app, now,
                 alarm, fault>>

\* interrupt_context: loop while there are executors to poll
Again ==
  /\ At("again")
  /\ Goto([Ctx EXCEPT !.pc = IF IsEmpty(polls) THEN "leave" ELSE "polls"])
  /\ UNCHANGED <<queueVars, deadline, lockVars, waitVars, preemptLock, pendingVars,
                 app, now, alarm, fault>>

\* restore_current_interrupt, and the return to the current thread
Leave ==
  /\ At("leave")
  /\ frames' = <<>>
  /\ UNCHANGED <<queueVars, deadline, lockVars, waitVars, preemptLock, pendingVars, thr,
                 app, now, alarm, fault>>

-----------------------------------------------------------------------------
(* Services called by threads.  The idle thread makes no blocking call and *)
(* takes no ceiling lock.                                                  *)

Calls(op) == At("user") /\ ~InIsr /\ op \in app.calls

\* Entry to a system call whose handler is one service; the thread goes on at
\* ret when the call returns.
Syscall(op, arg, at, ret) ==
  /\ thr' = [thr EXCEPT ![current] = Context(Null, ret)]
  /\ frames' = <<[Section(Context(SYSCALL, "body"), op, arg, "exit") EXCEPT !.at = at]>>
  /\ UNCHANGED <<queueVars, deadline, lockVars, waitVars, preemptLock, pendingVars,
                 app, now, alarm, fault>>

Times == 0 .. MaxTime

\* A blocking call.  Whether threads block while they hold a lock or are in a
\* `with` section is a choice of the application.
Blocks(op) ==
  /\ Calls(op) /\ current # Idle
  /\ LockPriority(current) = INVALID \/ "block_holding" \in app.calls

DelayUntil == Blocks("delay") /\ \E d \in Times : Syscall("delay", Null, d, "user")
WaitEvents == Blocks("wait_event") /\ Syscall("wait_event", Null, NoTime, "clear")
WaitEventsUntil ==
  Blocks("wait_event_until") /\ \E d \in Times : Syscall("wait_event", Null, d, "clear")
WaitInQueue == Blocks("wait") /\ Syscall("wait", Null, NoTime, "user")
SuspendSelf == Blocks("suspend") /\ Syscall("suspend", Null, NoTime, "user")

\* RawThread::start: the state is set before the system call
StartThread ==
  /\ Calls("start")
  /\ \E t \in Threads :
       /\ t \in app.parts /\ tstate[t] = "created"
       /\ tstate' = [tstate EXCEPT ![t] = "started"]
       /\ frames' = <<Section(Context(SYSCALL, "body"), "resume", t, "exit")>>
  /\ UNCHANGED <<ready, blocked, suspended, sleep, current, deadline, lockVars, waitVars,
                 preemptLock, pendingVars, thr, app, now, alarm, fault>>

\* thread_yield
Yield ==
  /\ Calls("yield")
  /\ frames' = <<Context(SYSCALL, "exit")>>
  /\ pendingKind' = pendingKind \cup {"equal", "higher"}
  /\ UNCHANGED <<queueVars, deadline, lockVars, waitVars, preemptLock, pendingResume,
                 pendingSleep, polls, thr, app, now, alarm, fault>>

\* poll_interrupt_executor: the executor runs inside the system call
PollNow ==
  /\ Calls("poll")
  /\ \E i \in Devices :
       i \in app.parts /\ frames' = <<Context(SYSCALL, "exit"), Context(i, "body")>>
  /\ UNCHANGED <<queueVars, deadline, lockVars, waitVars, preemptLock, pendingVars, thr,
                 app, now, alarm, fault>>

\* wait_events and wait_events_until after the system call
ClearWaited ==
  /\ At("clear")
  /\ waited' = [waited EXCEPT ![current] = FALSE]
  /\ Goto(Return(Ctx))
  /\ UNCHANGED <<queueVars, deadline, lockVars, waitq, preemptLock, pendingVars, app, now,
                 alarm, fault>>

\* RawCeilingLock::lock and the drop of its guard
LockScoped ==
  /\ Calls("lock") /\ current # Idle
  /\ \E l \in Locks : l \in app.parts /\ Goto(Section(Ctx, "lock", l, "user"))
  /\ UNCHANGED <<queueVars, deadline, lockVars, waitVars, preemptLock, pendingVars, app, now,
                 alarm, fault>>
UnlockScoped ==
  /\ Calls("lock")
  /\ \E l \in Items(scoped[current]) : Goto(Section(Ctx, "unlock", l, "user"))
  /\ UNCHANGED <<queueVars, deadline, lockVars, waitVars, preemptLock, pendingVars, app, now,
                 alarm, fault>>

\* raise_nesting_lock_priority of the current thread
RaiseNesting(c) ==
  /\ saved' = [saved EXCEPT ![current] = Append(@, section[current])]
  /\ section' = [section EXCEPT ![current] = Higher(@, Higher(c, BasePriority[current]))]

\* CeilingLock::with: acquire_nesting_lock
EnterNesting ==
  /\ Calls("with") /\ current # Idle /\ Len(saved[current]) < MaxSections
  /\ \E l \in Locks : l \in app.parts /\ RaiseNesting(Ceiling[l])
  /\ UNCHANGED <<queueVars, deadline, scoped, owner, waitVars, preemptLock, pendingVars, thr,
                 frames, app, now, alarm, fault>>

\* CeilingLock::with: release_nesting_lock.  set_nesting_lock_priority checks
\* for a reschedule, and release_nesting_lock checks again.
RestoreNesting ==
  /\ section' = [section EXCEPT ![current] = Top(saved[current])]
  /\ saved' = [saved EXCEPT ![current] = Popped(@)]
  /\ Goto(Section(Ctx, "cond", Null, "cond"))
  /\ UNCHANGED <<queueVars, deadline, scoped, owner, waitVars, preemptLock, pendingVars, app, now,
                 alarm, fault>>
LeaveNesting == Calls("with") /\ saved[current] # <<>> /\ RestoreNesting
SecondCond ==
  /\ At("cond")
  /\ Goto(Section(Ctx, "cond", Null, "user"))
  /\ UNCHANGED <<queueVars, deadline, lockVars, waitVars, preemptLock, pendingVars, app, now,
                 alarm, fault>>

\* PreemptLock::with around code of the application
HoldPreemption ==
  /\ Calls("hold") /\ preemptLock = Null
  /\ preemptLock' = current
  /\ UNCHANGED <<queueVars, deadline, lockVars, waitVars, pendingVars, thr, frames, app, now,
                 alarm, fault>>
UnholdPreemption ==
  /\ Calls("hold") /\ preemptLock = current
  /\ Goto(Release(Ctx))
  /\ UNCHANGED <<queueVars, deadline, lockVars, waitVars, preemptLock, pendingVars, app, now,
                 alarm, fault>>

-----------------------------------------------------------------------------
(* Services called by threads and by handlers                              *)

\* At the place where a thread or a handler may call service op
MayCall(op) ==
  IF InIsr THEN At("body") /\ op \in app.handlers ELSE Calls(op)
Here == IF InIsr THEN "body" ELSE "user"

\* RawThread::send_events: the receiver is resumed if it was found waiting
SendEvents ==
  /\ MayCall("send")
  /\ \E t \in Threads : waited[t] /\ Goto(Section(Ctx, "resume", t, Here))
  /\ UNCHANGED <<queueVars, deadline, lockVars, waitVars, preemptLock, pendingVars, app, now,
                 alarm, fault>>

\* WaitQueue::notify_one and notify_all: enter the section of the queue.  A
\* thread raises its priority here, a handler has it raised while its program
\* counter or return address is in the section.
Notify ==
  /\ \E all \in {"notify_one", "notify_all"} :
       /\ MayCall(all)
       /\ Goto(IF all = "notify_all" \/ waitq = <<>>
               THEN [Ctx EXCEPT !.pc = IF all = "notify_all" THEN "notify" ELSE "notified"]
               ELSE Section(Ctx, "resume", Head(waitq), "notified"))
       /\ waitq' = IF all = "notify_all" \/ waitq = <<>> THEN waitq ELSE Tail(waitq)
  /\ IF InIsr THEN UNCHANGED <<section, saved>>
              ELSE current # Idle /\ RaiseNesting(WaitCeiling)
  /\ UNCHANGED <<queueVars, deadline, scoped, owner, waited, preemptLock, pendingVars, app, now,
                 alarm, fault>>

\* notify_all: the next waiter
NotifyNext ==
  /\ At("notify")
  /\ IF waitq = <<>>
     THEN Goto([Ctx EXCEPT !.pc = "notified"]) /\ UNCHANGED waitq
     ELSE Goto(Section(Ctx, "resume", Head(waitq), "notify")) /\ waitq' = Tail(waitq)
  /\ UNCHANGED <<queueVars, deadline, lockVars, waited, preemptLock, pendingVars, app, now,
                 alarm, fault>>

\* The end of the section of the wait queue
Notified ==
  /\ At("notified")
  /\ IF InIsr
     THEN /\ Goto(Context(Ctx.icb, "body"))
          /\ UNCHANGED <<queueVars, deadline, lockVars, waitVars, preemptLock, pendingVars, app,
                         now, alarm, fault>>
     ELSE RestoreNesting

-----------------------------------------------------------------------------
(* Services of handlers and interrupt executors                            *)

\* Scheduler::schedule_interrupt_wakeup: the deadline is set first
SleepUntil ==
  /\ InIsr /\ MayCall("sleep")
  /\ \E d \in Times : deadline' = [deadline EXCEPT ![Ctx.icb] = d]
  /\ Goto(Section(Ctx, "sleep", Ctx.icb, "body"))
  /\ UNCHANGED <<queueVars, lockVars, waitVars, preemptLock, pendingVars, app, now,
                 alarm, fault>>

\* resume_task in an interrupt: set_poll_pending
WakeExecutor ==
  /\ InIsr /\ MayCall("wake")
  /\ \E i \in Devices : i \in app.parts /\ ~PushFails(polls, i) /\ SetPendingPoll(i)
  /\ UNCHANGED <<queueVars, deadline, lockVars, waitVars, preemptLock, pendingResume,
                 pendingSleep, pendingKind, thr, frames, app, now, alarm>>

\* The handler or the executor's poll returns
HandlerReturns ==
  /\ At("body")
  /\ Goto([Ctx EXCEPT !.pc = "exit"])
  /\ UNCHANGED <<queueVars, deadline, lockVars, waitVars, preemptLock, pendingVars, app, now,
                 alarm, fault>>

-----------------------------------------------------------------------------
(* Interrupts, time and failure                                            *)

\* The context is inside the section of the wait queue.
InQueueSection(c) == {c.pc, c.ret} \cap {"notify", "notified"} # {}

\* Mutant: the section of the wait queue does not raise the priority.
LevelBase(f) == HwPriority[f.icb]

\* The hardware priority an interrupt context runs at, with its ceiling raised
\* in the section of the wait queue.
Level(f) ==
  IF InQueueSection(f) THEN Higher(HwPriority[f.icb], WaitCeiling) ELSE HwPriority[f.icb]

\* Mutant: an interrupt of the same priority is let in.
CanInterruptEqual(i) ==
  /\ fault = "none"
  /\ IF InIsr
     THEN \A k \in 1 .. Len(frames) :
            frames[k].icb \notin Masked /\ HwPriority[i] >= Level(frames[k])
     ELSE HwPriority[i] > LockPriority(current)

\* set_ceiling_threshold keeps out the interrupts up to the lock priority of
\* the running thread.
CanInterrupt(i) ==
  /\ fault = "none"
  /\ IF InIsr
     THEN \A k \in 1 .. Len(frames) :
            frames[k].icb \notin Masked /\ HwPriority[i] > Level(frames[k])
     ELSE HwPriority[i] > LockPriority(current)

\* _private_kernel_interrupt_handler
DeviceInterrupt ==
  /\ \E i \in Devices :
       i \in app.parts /\ CanInterrupt(i) /\ frames' = Append(frames, Context(i, "body"))
  /\ UNCHANGED <<queueVars, deadline, lockVars, waitVars, preemptLock, pendingVars, thr, app, now,
                 alarm, fault>>

\* _private_kernel_wakeup_handler: wakeup_scheduler_isr.  The alarm fires once.
TimerInterrupt ==
  /\ CanInterrupt(TIMER) /\ alarm # NoTime /\ alarm <= now
  /\ frames' = Append(frames, Context(TIMER, "exit"))
  /\ pendingKind' = pendingKind \cup {"higher"}
  /\ alarm' = NoTime
  /\ UNCHANGED <<queueVars, deadline, lockVars, waitVars, preemptLock, pendingResume,
                 pendingSleep, polls, thr, app, now, fault>>

Tick ==
  /\ now < MaxTime /\ now' = now + 1
  /\ UNCHANGED <<queueVars, deadline, lockVars, waitVars, preemptLock, pendingVars, thr, frames,
                 app, alarm, fault>>

\* A thread runs code of its own, or the system has stopped in the handler of
\* an unrecoverable error.
Compute == (fault # "none" \/ (At("user") /\ ~InIsr)) /\ UNCHANGED vars

-----------------------------------------------------------------------------
(* The specification                                                       *)

Init ==
  /\ tstate = [t \in AllThreads |-> IF t = Idle THEN "running" ELSE "created"]
  /\ ready = <<>> /\ blocked = <<>> /\ suspended = <<>> /\ sleep = <<>>
  /\ current = Idle
  /\ deadline = [x \in Threads \cup Devices |-> NoTime]
  /\ section = [t \in AllThreads |-> INVALID]
  /\ saved = [t \in AllThreads |-> <<>>]
  /\ scoped = [t \in AllThreads |-> <<>>]
  /\ owner = [l \in Locks |-> Null]
  /\ waitq = <<>> /\ waited = [t \in AllThreads |-> FALSE]
  /\ preemptLock = Null
  /\ pendingResume = EmptyQueue /\ pendingSleep = EmptyQueue /\ polls = EmptyQueue
  /\ pendingKind = {}
  /\ thr = [t \in AllThreads |-> Context(Null, "user")]
  /\ frames = <<>>
  /\ now = 0 /\ alarm = NoTime /\ fault = "none"
  /\ app \in Apps

\* The next step of the running context, where it has no choice
LockStep == Acquire \/ WouldBlock \/ CompleteResume \/ CompleteSleep \/ Store \/ Check \/ Released
SectionStep ==
  \/ DoResume \/ DoSleep \/ DoDelay \/ DoWaitEvent \/ DoWait \/ DoSuspend
  \/ DoCond \/ DoLock \/ DoUnlock \/ DoResched \/ WakeSleeper \/ SetAlarm \/ PickNext
ExitStep == Exit \/ PollExecutor \/ SwapPending \/ Again \/ Leave
ReturnStep == ClearWaited \/ SecondCond \/ NotifyNext \/ Notified
KernelStep == LockStep \/ SectionStep \/ ExitStep \/ ReturnStep

ThreadCall ==
  \/ DelayUntil \/ WaitEvents \/ WaitEventsUntil \/ WaitInQueue \/ SuspendSelf
  \/ StartThread \/ Yield \/ PollNow \/ LockScoped \/ UnlockScoped
  \/ EnterNesting \/ LeaveNesting \/ HoldPreemption \/ UnholdPreemption
HandlerCall == SleepUntil \/ WakeExecutor \/ HandlerReturns
Call == ThreadCall \/ HandlerCall \/ SendEvents \/ Notify
Environment == DeviceInterrupt \/ TimerInterrupt \/ Tick \/ Compute

Next == KernelStep \/ Call \/ Environment

Spec == Init /\ [][Next]_vars

\* Fairness: the processor runs, the clock advances, every handler returns, and
\* a timer interrupt is taken although system calls mask it time and again: it
\* stays pending in the hardware until the mask is lifted.
FairSpec ==
  Spec /\ WF_vars(KernelStep) /\ WF_vars(Tick) /\ SF_vars(TimerInterrupt)
       /\ SF_vars(HandlerReturns)

-----------------------------------------------------------------------------
(* Properties                                                              *)

Running == fault = "none"

ThreadContexts ==
  [icb : {Null},
   pc : {"user", "clear", "cond", "notify", "notified", "acquire", "locked",
         "complete_resume", "complete_sleep", "store", "check", "released"},
   op : {"none", "resume", "lock", "unlock", "cond"},
   arg : Threads \cup Locks \cup {Null}, at : Times \cup {NoTime},
   kind : SUBSET {"higher", "equal"}, ret : {"user", "cond", "notify", "notified"},
   outer : BOOLEAN]

FrameContexts ==
  [icb : Icbs,
   pc : {"body", "notify", "notified", "acquire", "locked", "complete_resume",
         "complete_sleep", "store", "exit", "polls", "swap", "wake", "pick", "again",
         "leave"},
   op : {"none", "resume", "sleep", "delay", "wait_event", "wait", "suspend", "resched"},
   arg : Threads \cup Devices \cup {Null}, at : Times \cup {NoTime},
   kind : SUBSET {"higher", "equal"},
   ret : {"user", "body", "notify", "notified", "exit", "again"}, outer : BOOLEAN]

\* The ways the kernel stops: an error it detects, or a loop without an end.
Faults == {"none", "ItemAlreadyInQueue", "spin", "BlocksWithPreemptLock", "AlreadyInList",
           "RecursiveLock", "CeilingPriorityViolation", "LockAlreadyOwned"}

Queues(S) == [items : Seq(S), dummy : S \cup {Sentinel}, owned : SUBSET S, looped : BOOLEAN]

\* Type correctness: the places a thread and an interrupt context can be at, and
\* the services each of the two can have in progress.
TypeOK ==
  /\ tstate \in [AllThreads -> {"created", "started", "ready", "running", "blocked", "suspended"}]
  /\ ready \in Seq(Threads) /\ blocked \in Seq(Threads)
  /\ suspended \in Seq(Threads) /\ waitq \in Seq(Threads)
  /\ sleep \in Seq(Threads \cup Devices)
  /\ current \in AllThreads
  /\ deadline \in [Threads \cup Devices -> Times \cup {NoTime}]
  /\ section \in [AllThreads -> Nat \cup {INVALID}]
  /\ saved \in [AllThreads -> Seq(Nat \cup {INVALID})]
  /\ scoped \in [AllThreads -> Seq(Locks)]
  /\ owner \in [Locks -> AllThreads \cup {Null}]
  /\ waited \in [AllThreads -> BOOLEAN]
  /\ preemptLock \in AllThreads \cup Icbs \cup {Null}
  /\ pendingResume \in Queues(Threads)
  /\ pendingSleep \in Queues(Devices) /\ polls \in Queues(Devices)
  /\ pendingKind \in SUBSET {"higher", "equal"}
  /\ thr \in [AllThreads -> ThreadContexts] /\ frames \in Seq(FrameContexts)
  /\ now \in Times /\ alarm \in Times \cup {NoTime}
  /\ fault \in Faults

\* The lists agree with the thread states: a thread is in the ready queue, the
\* blocked list or the suspended list exactly when its state says so, and only
\* once; the running thread is current_thread and in none; the idle thread is
\* never queued; a thread in the sleep queue is blocked.  Every operation that
\* moves a thread unlinks it from the list the state names, and the unlink is
\* undefined when it is not there (scheduler.rs, module comments on the lists).
ListsMatchStates ==
  Running =>
    /\ Distinct(ready) /\ Distinct(blocked) /\ Distinct(suspended) /\ Distinct(sleep)
    /\ \A t \in Threads : /\ t \in Items(ready) <=> tstate[t] = "ready"
                          /\ t \in Items(blocked) <=> tstate[t] = "blocked"
                          /\ t \in Items(suspended) <=> tstate[t] = "suspended"
                          /\ t \in Items(sleep) => tstate[t] = "blocked"
    /\ \A t \in AllThreads : tstate[t] = "running" <=> t = current

\* The ready queue is in descending order of priority and the blocked list in
\* descending order of lock priority, so that the head of the one is the thread
\* to run and the head of the other carries the ceiling of the blocked threads
\* (scheduler.rs, comments on ready_queue and blocked_list).
ListsSorted ==
  Running =>
    /\ \A i, j \in 1 .. Len(ready) : i < j => Priority(ready[i]) >= Priority(ready[j])
    /\ \A i, j \in 1 .. Len(blocked) :
         i < j => LockPriority(blocked[i]) >= LockPriority(blocked[j])

\* A thread runs code of its own and nothing of the kernel is in progress.
Quiet == Running /\ ~InIsr /\ thr[current].pc = "user" /\ preemptLock = Null

\* Whoever holds the preemption lock keeps it until it releases it: no swap by
\* a thread and no exchange by an interrupt takes it from another context.
PreemptLockKept == [][preemptLock # Null => preemptLock' \in {preemptLock, Null}]_vars

\* While a thread runs outside the kernel no ready thread of higher priority
\* waits, unless it is held back by the ceiling of a lock (interrupt_context:
\* "If interrupt handler has woken up higher priority thread, a reschedule to
\* higher-priority thread is needed").
HighestRuns ==
  Quiet /\ ready # <<>> =>
    Priority(Head(ready)) <= Higher(Priority(current), LocksCeiling(blocked))

\* Deferred work does not outlive the preemption lock (Scheduler::resume_thread:
\* "it will be moved to ready list when the preempt lock is released").
NothingStranded ==
  Quiet => pendingResume.items = <<>> /\ pendingSleep.items = <<>>

\* Where no device handler interrupts the end of another, threads that wake each other
\* leave nothing undone: the highest ready thread runs, and no deferred work is left
\* (Scheduler::reschedule, execute_pending_reschedule, PreemptLock::release).
SwitchesDone == app.handlers = {} => HighestRuns /\ NothingStranded

\* While a thread runs outside the kernel the alarm is set, and for no later than
\* the deadline of any sleeper, so no wakeup is lost (reprogram_alarm, reschedule).
AlarmSet ==
  Quiet => \A x \in Items(sleep) : alarm # NoTime /\ alarm <= deadline[x]

\* The immediate ceiling protocol: a thread other than idle that runs outside
\* the kernel has a higher priority than every lock another thread holds
\* (sync/mod.rs: "Threads or interrupts below the ceiling are not allowed to
\* run while higher priority locks are held").
CeilingHonoured ==
  Quiet /\ current # Idle =>
    \A t \in AllThreads \ {current} :
      LockPriority(t) # INVALID => Priority(current) > LockPriority(t)

\* At most one context is in the section of the wait queue, which borrows the
\* queue mutably until its last waiter has been resumed (WaitQueue::notify_one,
\* notify_all).
QueueExclusive ==
  LET inside == {t \in AllThreads : InQueueSection(thr[t])}
      nested == {k \in 1 .. Len(frames) : InQueueSection(frames[k])}
  IN Cardinality(inside) + Cardinality(nested) <= 1

\* Handlers and executor polls of one interrupt never overlap: a context inside
\* another of the same interrupt finds the outer one past its handler, where it
\* runs the pending polls (RawInterruptHandler::poll_executor; the executor is
\* borrowed for the whole poll, RawInterruptExecutor::poll).
NoReentry ==
  \A j, k \in 1 .. Len(frames) :
    j < k /\ frames[j].icb = frames[k].icb => frames[j].pc = "polls"

\* A thread that did not call yield is only replaced by a thread of higher
\* priority (tests/nopreempt.rs).
NoEqualPreemption ==
  [][fault = "none" /\ Ctx.pc = "pick" /\ current' # current
       => \/ Priority(current') > Priority(current)
          \/ frames[1].icb = SYSCALL /\ thr[current].pc # "released"]_vars

\* Every sleeper is woken up.
SleepersWake == \A t \in Threads : t \in Items(sleep) ~> fault # "none" \/ t \notin Items(sleep)

-----------------------------------------------------------------------------
(* What comments of the code promise and the code does not keep; see the   *)
(* README for the counterexamples.                                         *)

\* Outside the kernel the sleep queue is in order of deadline (scheduler.rs: "A
\* wakeup-time sorted queue of suspendables that are waiting to be woken up").
SleepSorted ==
  Quiet => \A i, j \in 1 .. Len(sleep) : i < j => deadline[sleep[i]] <= deadline[sleep[j]]

\* A lock that is taken is free (acquire_scoped_lock: "Lock already owned. The
\* scheduler should have prevented this.").
LockFree == fault # "LockAlreadyOwned"

\* An executor marked for polling is in the queue of pending polls, so that
\* interrupt_context finds it ("poll them again until no more are pending").
PollsDelivered == Running => polls.owned = Items(polls.items)

\* No executor is left to be polled when the outermost handler has returned
\* (RawInterruptExecutor::resume_task: "the task will be polled when the
\* outermost interrupt handler returns").
PollsTaken == Quiet => polls.items = <<>>

\* A thread is linked in a wait queue only while it waits, so it is never found
\* linked already when it waits again (list.rs, take_ownership: "Cannot acquire a
\* node that is already in a list").
NeverLinkedTwice == fault # "AlreadyInList"

\* Every push and pop on the queues of deferred work returns (atomic_queue.rs:
\* "Intrusive Lock-free FIFO queue").
QueuesReturn == fault # "spin"
=============================================================================
