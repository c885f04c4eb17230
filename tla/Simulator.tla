------------------------------ MODULE Simulator ------------------------------
(***************************************************************************)
(* The hardware layer that simulates a board on a POSIX host               *)
(* (src/khal/scars-khal-sim/src/lib.rs).  Every kernel thread is a pthread *)
(* of its own, a trap is a signal, and the alarm clock is one more pthread *)
(* which sends SIGALRM to the pthread of the current thread.  Only one     *)
(* pthread is meant to run at a time: a trap handler that finds another    *)
(* thread current resumes the pthread of that thread and suspends its own. *)
(*                                                                         *)
(* The kernel is here only what it does to this layer inside a trap: it    *)
(* makes some thread current and sets some alarm, any number of times.     *)
(***************************************************************************)
EXTENDS Naturals

CONSTANTS
    Threads,   \* the kernel threads
    Idle,      \* the thread start_first_thread is given
    Alarms,    \* the times the kernel sets the alarm for
    Early,     \* whether it does so before all threads have run
    MaxTime    \* bound on the clock

VARIABLES
    pc,        \* where the pthread of each thread is
    back,      \* where its trap handler returns to
    from,      \* interrupted_context of its trap handler
    saved,     \* restore_state of its trap handler
    resumed,   \* VirtualContext::resumed of each thread
    alarmed,   \* threads whose pthread has SIGALRM pending
    current,   \* CURRENT_THREAD_CONTEXT
    enabled,   \* INTERRUPTS_ENABLED
    timer,     \* where the timer thread is
    target,    \* the context it has loaded
    waitUntil, \* VirtualTimer::wait_until
    until,     \* the time its pthread_cond_timedwait waits for
    now        \* the clock

handler == <<back, from, saved>>
clock == <<timer, target, waitUntil, until, now>>
vars == <<pc, handler, resumed, alarmed, current, enabled, clock>>

Never == MaxTime + 1
Times == Alarms \cup {Never}

ASSUME SimulatorAssumption ==
    /\ Idle \in Threads
    /\ MaxTime \in Nat
    /\ Alarms \subseteq 0 .. MaxTime
    /\ Early \in BOOLEAN

(* Code of the thread itself, as against its start and its trap handlers. *)
User == {"user", "masking", "critical", "unmasking"}
RunsUserCode(t) == pc[t] \in User

Goto(t, at) == pc' = [pc EXCEPT ![t] = at]

-----------------------------------------------------------------------------
(* thread_main_wrapper: the pthread waits to be resumed, then enables      *)
(* interrupts and enters the thread's main function.                       *)
FirstResumed(t) ==
    /\ pc[t] = "fresh"
    /\ resumed[t]
    /\ resumed' = [resumed EXCEPT ![t] = FALSE]
    /\ Goto(t, "starting")
    /\ UNCHANGED <<handler, alarmed, current, enabled, clock>>

EnterMain(t) ==
    /\ pc[t] = "starting"
    /\ enabled' = TRUE
    /\ Goto(t, "user")
    /\ UNCHANGED <<handler, resumed, alarmed, current, clock>>

-----------------------------------------------------------------------------
(* InterruptController::acquire and restore.  Each is two steps, the flag  *)
(* and the signal mask, and SIGALRM may be delivered in between.           *)
AcquireFlag(t) ==
    /\ pc[t] = "user"
    /\ enabled' = FALSE
    /\ Goto(t, IF enabled THEN "masking" ELSE "user")
    /\ UNCHANGED <<handler, resumed, alarmed, current, clock>>

AcquireMask(t) ==
    /\ pc[t] = "masking"
    /\ Goto(t, "critical")
    /\ UNCHANGED <<handler, resumed, alarmed, current, enabled, clock>>

RestoreFlag(t) ==
    /\ pc[t] = "critical"
    /\ enabled' = TRUE
    /\ Goto(t, "unmasking")
    /\ UNCHANGED <<handler, resumed, alarmed, current, clock>>

RestoreMask(t) ==
    /\ pc[t] = "unmasking"
    /\ Goto(t, "user")
    /\ UNCHANGED <<handler, resumed, alarmed, current, enabled, clock>>

-----------------------------------------------------------------------------
(* The mask of SIGALRM: both signal handlers run with both signals masked, *)
(* a critical section masks it, and a pthread that has yet to be resumed   *)
(* for the first time does not.                                            *)
UnmaskedAlways(t) == TRUE
Unmasked(t) == pc[t] \in {"fresh", "starting", "user", "masking"}

(* The first line of trap_signal_handler. *)
Trap(t) ==
    /\ back' = [back EXCEPT ![t] = pc[t]]
    /\ from' = [from EXCEPT ![t] = current]
    /\ Goto(t, "trap")

(* FlowController::syscall: the thread sends SIGUSR1 to itself, and the    *)
(* signal is delivered before pthread_sigqueue returns.                    *)
Syscall(t) ==
    /\ current = t
    /\ pc[t] \in {"user", "critical"}
    /\ Trap(t)
    /\ UNCHANGED <<saved, resumed, alarmed, current, enabled, clock>>

Alarm(t) ==
    /\ t \in alarmed
    /\ Unmasked(t)
    /\ alarmed' = alarmed \ {t}
    /\ Trap(t)
    /\ UNCHANGED <<saved, resumed, current, enabled, clock>>

EnterKernel(t) ==
    /\ pc[t] = "trap"
    /\ saved' = [saved EXCEPT ![t] = enabled]
    /\ enabled' = FALSE
    /\ Goto(t, "kernel")
    /\ UNCHANGED <<back, from, resumed, alarmed, current, clock>>

(* The kernel's set_current_thread_context. *)
SwitchThread(t) ==
    /\ pc[t] = "kernel"
    /\ current' \in Threads
    /\ UNCHANGED <<pc, handler, resumed, alarmed, enabled, clock>>

(* The alarm is set by this application. *)
SetsAlarms == Early \/ \A t \in Threads : pc[t] \notin {"fresh", "starting"}

(* AlarmClockController::set_wakeup, under the timer's lock.  The signal   *)
(* of the condition variable wakes a timer thread that waits on it.        *)
SetWakeup(t) ==
    /\ pc[t] = "kernel"
    /\ timer # "send"
    /\ SetsAlarms
    /\ waitUntil' \in Times
    /\ timer' = IF timer \in {"idle", "timed"} THEN "check" ELSE timer
    /\ UNCHANGED <<pc, handler, resumed, alarmed, current, enabled, target, until, now>>

(* The end of the trap: VirtualContext::resume of the thread that is now   *)
(* current, if the trap has switched.                                      *)
ResumeNobody(t) ==
    /\ pc[t] = "kernel"
    /\ Goto(t, "restore")
    /\ UNCHANGED <<handler, resumed, alarmed, current, enabled, clock>>

Resume(t) ==
    /\ pc[t] = "kernel"
    /\ IF current # from[t]
       THEN /\ resumed' = [resumed EXCEPT ![current] = @ \/ current # t]
            /\ Goto(t, "switched")
       ELSE UNCHANGED resumed /\ Goto(t, "restore")
    /\ UNCHANGED <<handler, alarmed, current, enabled, clock>>

(* VirtualContext::suspend of the thread that was interrupted, which       *)
(* another trap handler may already have resumed.                          *)
Suspend(t) ==
    /\ pc[t] = "switched"
    /\ ~resumed[from[t]]
    /\ Goto(t, "suspend")
    /\ UNCHANGED <<handler, resumed, alarmed, current, enabled, clock>>

Resumed(t) ==
    /\ pc[t] \in {"switched", "suspend"}
    /\ resumed[from[t]]
    /\ resumed' = [resumed EXCEPT ![from[t]] = FALSE]
    /\ Goto(t, "restore")
    /\ UNCHANGED <<handler, alarmed, current, enabled, clock>>

ReturnEnabled(t) ==
    /\ pc[t] = "restore"
    /\ enabled' = TRUE
    /\ Goto(t, back[t])
    /\ UNCHANGED <<handler, resumed, alarmed, current, clock>>

Return(t) ==
    /\ pc[t] = "restore"
    /\ enabled' = saved[t]
    /\ Goto(t, back[t])
    /\ UNCHANGED <<handler, resumed, alarmed, current, clock>>

-----------------------------------------------------------------------------
(* timer_thread.  It holds the timer's lock from a test of wait_until to   *)
(* the next wait; "check" and "expired" are waits that have ended, by a    *)
(* signal and by the time, and have yet to get the lock back.              *)
Take ==
    /\ waitUntil' = Never
    /\ target' = current
    /\ timer' = "send"
    /\ UNCHANGED until

TimerCheck ==
    /\ timer = "check"
    /\ \/ waitUntil = Never /\ timer' = "idle" /\ UNCHANGED <<target, waitUntil, until>>
       \/ waitUntil # Never /\ now >= waitUntil /\ Take
       \/ /\ waitUntil # Never /\ now < waitUntil
          /\ timer' = "timed" /\ until' = waitUntil
          /\ UNCHANGED <<target, waitUntil>>
    /\ UNCHANGED <<pc, handler, resumed, alarmed, current, enabled, now>>

TimerExpired ==
    /\ timer = "timed"
    /\ now >= until
    /\ timer' = "expired"
    /\ UNCHANGED <<pc, handler, resumed, alarmed, current, enabled, target, waitUntil, until, now>>

TimerTake ==
    /\ timer = "expired"
    /\ Take
    /\ UNCHANGED <<pc, handler, resumed, alarmed, current, enabled, now>>

SendAlarm ==
    /\ timer = "send"
    /\ alarmed' = alarmed \cup {target}
    /\ timer' = "idle"
    /\ UNCHANGED <<pc, handler, resumed, current, enabled, target, waitUntil, until, now>>

Tick ==
    /\ now < MaxTime
    /\ now' = now + 1
    /\ UNCHANGED <<pc, handler, resumed, alarmed, current, enabled, timer, target, waitUntil, until>>

-----------------------------------------------------------------------------
(* start_first_thread has resumed the idle thread.  The other pthreads are *)
(* in thread_main_wrapper.                                                 *)
Init ==
    /\ pc = [t \in Threads |-> "fresh"]
    /\ back = [t \in Threads |-> "user"]
    /\ from = [t \in Threads |-> t]
    /\ saved = [t \in Threads |-> TRUE]
    /\ resumed = [t \in Threads |-> t = Idle]
    /\ alarmed = {}
    /\ current = Idle
    /\ enabled = FALSE
    /\ timer = "idle" /\ target = Idle /\ waitUntil = Never /\ until = Never
    /\ now = 0

(* What a pthread does without being asked: the end of a start or a trap. *)
Proceeds(t) ==
    \/ FirstResumed(t) \/ EnterMain(t)
    \/ EnterKernel(t) \/ Resume(t) \/ Suspend(t) \/ Resumed(t) \/ Return(t)

Thread(t) ==
    \/ Proceeds(t)
    \/ AcquireFlag(t) \/ AcquireMask(t) \/ RestoreFlag(t) \/ RestoreMask(t)
    \/ Syscall(t) \/ Alarm(t) \/ SwitchThread(t) \/ SetWakeup(t)

Timer == TimerCheck \/ TimerExpired \/ TimerTake \/ SendAlarm \/ Tick

Next == Timer \/ \E t \in Threads : Thread(t)

Spec == Init /\ [][Next]_vars

(* The host runs every pthread that is able to run, and a trap ends. *)
FairSpec == Spec /\ \A t \in Threads : WF_vars(Proceeds(t))

-----------------------------------------------------------------------------
(* Types: every pthread, the timer thread and their variables are in one   *)
(* of the states the code of the simulator has.                            *)
TypeOK ==
    /\ pc \in [Threads -> User \cup {"fresh", "starting"} \cup
                 {"trap", "kernel", "switched", "suspend", "restore"}]
    /\ back \in [Threads -> {"fresh", "starting"} \cup User]
    /\ from \in [Threads -> Threads]
    /\ saved \in [Threads -> BOOLEAN]
    /\ resumed \in [Threads -> BOOLEAN]
    /\ alarmed \subseteq Threads
    /\ current \in Threads /\ enabled \in BOOLEAN
    /\ timer \in {"idle", "check", "timed", "expired", "send"}
    /\ target \in Threads
    /\ waitUntil \in Times /\ until \in Times /\ now \in 0 .. MaxTime

(* A pthread that runs the code of its thread is the pthread of the        *)
(* current thread: no two threads run at once, whatever the order in which *)
(* one trap handler resumes a pthread and suspends its own.                *)
RunnerIsCurrent == \A t \in Threads : RunsUserCode(t) => t = current

(* INTERRUPTS_ENABLED, one flag for all pthreads, agrees with the signal   *)
(* mask of the pthread that runs: set outside critical sections, clear in  *)
(* them, even if a critical section makes a syscall which switches away.   *)
InterruptFlag ==
    \A t \in Threads : /\ pc[t] = "user" => enabled
                       /\ pc[t] = "critical" => ~enabled

(* trap_signal_handler runs the kernel with interrupts disabled: no two    *)
(* pthreads are in the kernel at once.                                     *)
KernelExclusive ==
    \A t, u \in Threads : pc[t] = "kernel" /\ pc[u] = "kernel" => t = u

(* A thread that the kernel makes current runs, unless another is made     *)
(* current first: the resume of one trap handler is not lost on a pthread  *)
(* that has yet to suspend.                                                *)
SwitchCompletes ==
    \A t \in Threads : current = t ~> RunsUserCode(t) \/ current # t

-----------------------------------------------------------------------------
(* What a comment of the code promises and the code does not keep; see the *)
(* README for the counterexample.                                          *)

(* SIGALRM is handled by the running thread: it is not left pending at a   *)
(* suspended pthread while another one runs the code of its thread.        *)
AlarmAtCurrent ==
    \A t \in alarmed, u \in Threads : pc[t] = "suspend" => ~RunsUserCode(u)
=============================================================================
