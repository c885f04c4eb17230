--------------------------- MODULE ProtocolProofs ---------------------------
(***************************************************************************)
(* Two protocols of a few shared words each, which have nothing else in    *)
(* common.                                                                 *)
(*                                                                         *)
(* The simulator: one pthread runs at a time, whatever the number of       *)
(* threads, for applications that set their first alarm when every thread  *)
(* has run (~Early).                                                       *)
(*                                                                         *)
(* The event set (E): it is type correct and loses no event, for every set *)
(* of events, senders and waits; and when every wait is for one event, no  *)
(* wakeup is lost.                                                         *)
(***************************************************************************)
EXTENDS Simulator, TLAPS

\* More time for the provers than they have by default
USE SMTT(30), ZenonT(30)

Waits == {"fresh", "switched", "suspend"}
Runs == User \cup {"starting", "trap", "kernel", "restore"}

\* Where a trap may be taken: never in a pthread that has yet to run its thread.
Trapped == {"user", "masking", "critical"}

\* The pthread has the processor, or has been given it and is about to run.
Awake(t) == pc[t] \in Runs \/ resumed[t]

\* Every thread has run.
Started == \A t \in Threads : pc[t] \notin {"fresh", "starting"}

\* INTERRUPTS_ENABLED as it is in the code at `at`
FlagAt(at) == at \in {"user", "unmasking"}

\* The types that the proof needs
Types ==
    /\ pc \in [Threads -> Runs \cup Waits]
    /\ back \in [Threads -> Trapped]
    /\ saved \in [Threads -> BOOLEAN]
    /\ resumed \in [Threads -> BOOLEAN]
    /\ alarmed \subseteq Threads
    /\ current \in Threads /\ enabled \in BOOLEAN
    /\ target \in Threads

\* A pthread is resumed only while it waits, and a trap handler interrupts the
\* thread of its own pthread.
Handover ==
    \A t \in Threads : /\ resumed[t] => pc[t] \in Waits
                       /\ from[t] = t

\* At most one pthread has the processor: that of the current thread, unless it is
\* in the kernel, which chooses the next current thread.
OneAwake ==
    /\ \A t, u \in Threads : Awake(t) /\ Awake(u) => t = u
    /\ \A t \in Threads : Awake(t) => t = current \/ pc[t] = "kernel"

\* The flag agrees with the place of the pthread that runs, and a trap handler
\* remembers the flag of the place it returns to.
FlagKept ==
    \A t \in Threads :
        /\ pc[t] \in User => enabled = FlagAt(pc[t])
        /\ pc[t] = "trap" => enabled = FlagAt(back[t])
        /\ pc[t] = "kernel" => ~enabled
        /\ pc[t] \in {"kernel", "restore", "switched", "suspend"} => saved[t] = FlagAt(back[t])

\* Nothing of an alarm is under way before every thread has run.
AlarmsAfterStart == timer # "idle" \/ alarmed # {} => Started

IInv == Types /\ Handover /\ OneAwake /\ FlagKept /\ AlarmsAfterStart

-----------------------------------------------------------------------------
(* Steps                                                                   *)

\* When one pthread is awake, all others wait.
LEMMA OthersWait ==
  ASSUME IInv, NEW t \in Threads, Awake(t)
  PROVE  \A u \in Threads \ {t} : pc[u] \in Waits /\ ~resumed[u]
BY DEF IInv, Types, OneAwake, Awake, Runs, Waits, User

\* The start of a thread
LEMMA StartSteps ==
  ASSUME IInv, NEW t \in Threads, FirstResumed(t) \/ EnterMain(t)
  PROVE  IInv'
<1> USE DEF IInv, Types, Handover, Goto, handler, clock, Runs, Waits, Trapped, User
<1>1. \A u \in Threads \ {t} : pc[u] \in Waits /\ ~resumed[u]
  BY OthersWait DEF Awake, FirstResumed, EnterMain
<1>2. t = current
  BY DEF OneAwake, Awake, FirstResumed, EnterMain
<1>3. CASE FirstResumed(t)
  BY <1>1, <1>2, <1>3
  DEF FirstResumed, OneAwake, Awake, FlagKept, FlagAt, AlarmsAfterStart, Started
<1>4. CASE EnterMain(t)
  <2>1. Types' /\ Handover' /\ OneAwake'
    BY <1>1, <1>2, <1>4 DEF EnterMain, OneAwake, Awake
  <2>2. FlagKept'
    BY <1>1, <1>4, Zenon DEF EnterMain, FlagKept, FlagAt
  <2>3. AlarmsAfterStart'
    BY <1>4 DEF EnterMain, AlarmsAfterStart, Started
  <2> QED BY <2>1, <2>2, <2>3
<1> QED BY <1>3, <1>4

\* InterruptController::acquire and restore
LEMMA SectionSteps ==
  ASSUME IInv, NEW t \in Threads,
         AcquireFlag(t) \/ AcquireMask(t) \/ RestoreFlag(t) \/ RestoreMask(t)
  PROVE  IInv'
<1> USE DEF IInv, Types, Handover, Goto, handler, clock, Runs, Waits, Trapped, User
<1>1. /\ pc[t] \in User /\ pc'[t] \in User
      /\ pc' = [pc EXCEPT ![t] = pc'[t]]
      /\ UNCHANGED <<back, from, saved, resumed, alarmed, current, timer, target>>
      /\ enabled' \in BOOLEAN
  BY ZenonT(30) DEF AcquireFlag, AcquireMask, RestoreFlag, RestoreMask
<1>2. \A u \in Threads \ {t} : pc[u] \in Waits /\ ~resumed[u]
  BY <1>1, OthersWait DEF Awake
<1>3. Types' /\ Handover' /\ OneAwake'
  BY <1>1, <1>2 DEF OneAwake, Awake
<1>4. FlagKept'
  <2>1. enabled' = FlagAt(pc'[t])
    BY <1>1 DEF AcquireFlag, AcquireMask, RestoreFlag, RestoreMask, FlagKept, FlagAt
  <2> QED BY <1>1, <1>2, <2>1 DEF FlagKept
<1>5. AlarmsAfterStart'
  BY <1>1 DEF AlarmsAfterStart, Started
<1> QED BY <1>3, <1>4, <1>5

\* The entry of a trap handler.  No alarm comes to a pthread that has yet to start.
LEMMA TrapSteps ==
  ASSUME IInv, NEW t \in Threads, Syscall(t) \/ Alarm(t) \/ EnterKernel(t)
  PROVE  IInv'
<1> USE DEF IInv, Types, Handover, Goto, handler, clock, Runs, Waits, Trapped, User
<1>1. CASE Syscall(t) \/ Alarm(t)
  <2>1. pc[t] \in Trapped
    BY <1>1 DEF Syscall, Alarm, Unmasked, AlarmsAfterStart, Started
  <2>2. /\ pc' = [pc EXCEPT ![t] = "trap"]
        /\ back' = [back EXCEPT ![t] = pc[t]] /\ from' = [from EXCEPT ![t] = current]
        /\ UNCHANGED <<saved, resumed, current, enabled, timer, target>>
        /\ alarmed' \subseteq alarmed
    BY <1>1 DEF Syscall, Alarm, Trap
  <2>3. t = current
    BY <2>1 DEF OneAwake, Awake
  <2>4. \A u \in Threads \ {t} : pc[u] \in Waits /\ ~resumed[u]
    BY <2>1, OthersWait DEF Awake
  <2>5. Types' /\ Handover' /\ OneAwake'
    BY <2>1, <2>2, <2>3, <2>4 DEF OneAwake, Awake
  <2>6. FlagKept'
    BY <2>1, <2>2, <2>4 DEF FlagKept
  <2>7. AlarmsAfterStart'
    BY <2>2 DEF AlarmsAfterStart, Started
  <2> QED BY <2>5, <2>6, <2>7
<1>2. CASE EnterKernel(t)
  <2>1. \A u \in Threads \ {t} : pc[u] \in Waits /\ ~resumed[u]
    BY <1>2, OthersWait DEF Awake, EnterKernel
  <2>2. Types' /\ Handover'
    BY <1>2, Zenon DEF EnterKernel
  <2>3. OneAwake'
    BY <1>2, <2>1 DEF EnterKernel, OneAwake, Awake
  <2>4. FlagKept'
    BY <1>2, <2>1 DEF EnterKernel, FlagKept
  <2>5. AlarmsAfterStart'
    BY <1>2 DEF EnterKernel, AlarmsAfterStart, Started
  <2> QED BY <2>2, <2>3, <2>4, <2>5
<1> QED BY <1>1, <1>2

\* What the kernel does inside a trap.  It sets no alarm before every thread has run.
LEMMA KernelSteps ==
  ASSUME IInv, ~Early, NEW t \in Threads, SwitchThread(t) \/ SetWakeup(t)
  PROVE  IInv'
<1> USE DEF IInv, Types, handler, clock
<1>1. CASE SwitchThread(t)
  <2>1. \A u \in Threads \ {t} : pc[u] \in Waits /\ ~resumed[u]
    BY <1>1, OthersWait DEF Awake, Runs, SwitchThread
  <2>2. OneAwake'
    BY <1>1, <2>1 DEF SwitchThread, OneAwake, Awake, Runs, Waits, User
  <2> QED BY <1>1, <2>2 DEF SwitchThread, Handover, FlagKept, AlarmsAfterStart, Started
<1>2. CASE SetWakeup(t)
  <2>1. Started'
    BY <1>2 DEF SetWakeup, SetsAlarms, Started
  <2> QED BY <1>2, <2>1 DEF SetWakeup, Handover, OneAwake, Awake, FlagKept, AlarmsAfterStart
<1> QED BY <1>1, <1>2
\* The end of a trap.  The pthread of the current thread waits when another one
\* resumes it; the handler then waits for its own thread to be resumed.
LEMMA ReturnSteps ==
  ASSUME IInv, NEW t \in Threads, Resume(t) \/ Suspend(t) \/ Resumed(t) \/ Return(t)
  PROVE  IInv'
<1> USE DEF IInv, Types, Handover, Goto, handler, clock, Runs, Waits, Trapped, User
<1>1. CASE Resume(t)
  <2>1. \A u \in Threads \ {t} : pc[u] \in Waits /\ ~resumed[u]
    BY <1>1, OthersWait DEF Awake, Resume
  <2>2. CASE current = t
    BY <1>1, <2>1, <2>2
    DEF Resume, OneAwake, Awake, FlagKept, AlarmsAfterStart, Started
  <2>3. CASE current # t
    <3>1. resumed' = [resumed EXCEPT ![current] = TRUE] /\ pc' = [pc EXCEPT ![t] = "switched"]
      BY <1>1, <2>3, Zenon DEF Resume
    <3>2. ~resumed[t]
      BY <1>1 DEF Resume
    <3>3. \A u \in Threads : Awake(u)' => u = current
      BY <2>1, <3>1, <3>2 DEF Awake
    <3>4. Types' /\ Handover' /\ OneAwake'
      BY <1>1, <2>1, <2>3, <3>1, <3>2, <3>3 DEF Resume, OneAwake
    <3>5. FlagKept' /\ AlarmsAfterStart'
      BY <1>1, <2>1, <3>1 DEF Resume, FlagKept, AlarmsAfterStart, Started
    <3> QED BY <3>4, <3>5
  <2> QED BY <2>2, <2>3
<1>2. CASE Suspend(t)
  BY <1>2 DEF Suspend, OneAwake, Awake, FlagKept, AlarmsAfterStart, Started
<1>3. CASE Resumed(t)
  <2>1. \A u \in Threads \ {t} : pc[u] \in Waits /\ ~resumed[u]
    BY <1>3, OthersWait DEF Awake, Resumed
  <2> QED BY <1>3, <2>1 DEF Resumed, OneAwake, Awake, FlagKept, AlarmsAfterStart, Started
<1>4. CASE Return(t)
  <2>1. \A u \in Threads \ {t} : pc[u] \in Waits /\ ~resumed[u]
    BY <1>4, OthersWait DEF Awake, Return
  <2>2. Types' /\ Handover' /\ OneAwake'
    BY <1>4, <2>1 DEF Return, OneAwake, Awake
  <2>3. FlagKept'
    BY <1>4, <2>1 DEF Return, FlagKept
  <2>4. AlarmsAfterStart'
    BY <1>4 DEF Return, AlarmsAfterStart, Started
  <2> QED BY <2>2, <2>3, <2>4
<1> QED BY <1>1, <1>2, <1>3, <1>4

\* The timer thread, which is busy only once every thread has run
LEMMA TimerSteps ==
  ASSUME IInv, Timer
  PROVE  IInv'
<1>1. /\ UNCHANGED <<pc, back, from, saved, resumed, current, enabled>>
      /\ alarmed' = alarmed \/ alarmed' = alarmed \cup {target}
      /\ target' \in {target, current}
      /\ timer' # "idle" \/ alarmed' # {} => timer # "idle" \/ alarmed # {}
  BY DEF Timer, TimerCheck, TimerExpired, TimerTake, SendAlarm, Tick, Take, handler
<1> QED
  BY <1>1 DEF IInv, Types, Handover, OneAwake, Awake, FlagKept, AlarmsAfterStart, Started

-----------------------------------------------------------------------------
(* The theorems                                                            *)

LEMMA InitIInv == Init => IInv
<1> SUFFICES ASSUME Init PROVE IInv
  OBVIOUS
<1> USE DEF Init, Runs, Waits, User
<1>1. Types
  BY SimulatorAssumption, Zenon DEF Types, Trapped
<1>2. Handover /\ OneAwake
  BY Zenon DEF Handover, OneAwake, Awake
<1>3. FlagKept /\ AlarmsAfterStart
  BY DEF FlagKept, AlarmsAfterStart
<1> QED BY <1>1, <1>2, <1>3 DEF IInv

LEMMA NextIInv == ~Early /\ IInv /\ [Next]_vars => IInv'
<1> SUFFICES ASSUME ~Early, IInv, [Next]_vars PROVE IInv'
  OBVIOUS
<1>1. CASE Timer
  BY <1>1, TimerSteps
<1>2. ASSUME NEW t \in Threads, Thread(t) PROVE IInv'
  BY <1>2, StartSteps, SectionSteps, TrapSteps, KernelSteps, ReturnSteps DEF Thread, Proceeds
<1>3. CASE UNCHANGED vars
  BY <1>3 DEF vars, handler, clock, IInv, Types, Handover, OneAwake, Awake, FlagKept,
              AlarmsAfterStart, Started
<1> QED BY <1>1, <1>2, <1>3 DEF Next

\* The inductive invariant holds, for any number of threads.
THEOREM Inductive == ~Early /\ Spec => []IInv
<1> SUFFICES ASSUME ~Early PROVE Spec => []IInv
  OBVIOUS
<1>1. IInv /\ [Next]_vars => IInv'
  BY NextIInv
<1> QED BY <1>1, InitIInv, PTL DEF Spec

\* A pthread that runs the code of its thread is that of the current thread
\* (VirtualContext::resume and suspend, trap_signal_handler), for any number of threads.
THEOREM OnlyCurrentRuns == ~Early /\ Spec => []RunnerIsCurrent
<1>1. IInv => RunnerIsCurrent
  BY DEF IInv, OneAwake, Awake, Runs, User, RunnerIsCurrent, RunsUserCode
<1> QED BY <1>1, Inductive, PTL

\* INTERRUPTS_ENABLED agrees with the signal mask of the pthread that runs (acquire,
\* restore, trap_signal_handler), for any number of threads.
THEOREM FlagFollowsMask == ~Early /\ Spec => []InterruptFlag
<1>1. IInv => InterruptFlag
  BY Zenon DEF IInv, FlagKept, FlagAt, User, InterruptFlag
<1> QED BY <1>1, Inductive, PTL

\* No two pthreads are in the kernel at once (trap_signal_handler), for any number of
\* threads.
THEOREM KernelIsExclusive == ~Early /\ Spec => []KernelExclusive
<1>1. IInv => KernelExclusive
  BY DEF IInv, OneAwake, Awake, Runs, KernelExclusive
<1> QED BY <1>1, Inductive, PTL

-----------------------------------------------------------------------------
(* The event set of a thread.  Its parameters have the names they have in  *)
(* EventSet, but for two that the simulator uses for something else.       *)

CONSTANTS Events, Below, Calls, EventWaits
VARIABLES waited, sent, receiver, want, received, deferred, sender, result, owed, late

E == INSTANCE EventSet WITH Waits <- EventWaits, pc <- receiver

\* The type invariant is inductive (EventSet and wait_current_thread_event).
THEOREM EventTypes == E!WaitsOK /\ E!Spec => []E!TypeOK
<1> SUFFICES ASSUME E!WaitsOK PROVE E!Spec => []E!TypeOK
  OBVIOUS
<1>1. E!Init => E!TypeOK
  <2> SUFFICES ASSUME E!Init PROVE E!TypeOK
    OBVIOUS
  <2>1. sender \in [Below -> [pc : {"idle", "load", "resume"}, seen : SUBSET (Events \cup {E!WAKEUP})]]
    BY DEF E!Init, E!NoSend
  <2>2. want \in [events : SUBSET Events, all : BOOLEAN, timed : BOOLEAN, try : BOOLEAN]
    BY DEF E!Init
  <2>3. result \in [events : SUBSET Events, timeout : BOOLEAN]
    BY DEF E!Init
  <2>4. receiver = "user" /\ waited = E!NoWait /\ sent = {} /\ received = {} /\ owed = {}
    BY DEF E!Init
  <2>5. deferred \in BOOLEAN /\ late \in BOOLEAN
    BY Zenon DEF E!Init
  <2> QED
    BY <2>1, <2>2, <2>3, <2>4, <2>5 DEF E!TypeOK
<1>2. E!TypeOK /\ [E!Next]_E!vars => E!TypeOK'
  <2> SUFFICES ASSUME E!TypeOK, [E!Next]_E!vars PROVE E!TypeOK'
    OBVIOUS
  <2>1. CASE E!WaitEvents \/ E!WaitEventsUntil \/ E!TryWaitEvents
    <3>1. PICK w \in EventWaits, all \in BOOLEAN, timed \in BOOLEAN, try \in BOOLEAN :
            E!Starts(w.events, all, timed, try)
      <4>1. ASSUME NEW w \in EventWaits PROVE w.all \in BOOLEAN
        BY DEF E!WaitsOK
      <4> QED
        BY <2>1, <4>1, Zenon DEF E!WaitEvents, E!WaitEventsUntil, E!TryWaitEvents
    <3>2. w.events \in SUBSET Events
      BY DEF E!WaitsOK
    <3>3. receiver = "user"
      BY <2>1, Zenon DEF E!WaitEvents, E!WaitEventsUntil, E!TryWaitEvents
    <3>4. want' \in [events : SUBSET Events, all : BOOLEAN, timed : BOOLEAN, try : BOOLEAN]
      BY <3>1, <3>2 DEF E!Starts
    <3>5. /\ receiver' = "call" /\ received' = {} /\ late' \in BOOLEAN
          /\ UNCHANGED <<waited, sent, deferred, sender, result, owed>>
      BY <3>1, Zenon DEF E!Starts, E!maskVars
    <3> QED
      BY <3>3, <3>4, <3>5 DEF E!TypeOK
  <2>2. CASE E!SetWaited
    BY <2>2 DEF E!SetWaited, E!TypeOK
  <2>3. CASE E!ReadAndClear
    BY <2>3 DEF E!ReadAndClear, E!TypeOK
  <2>4. CASE E!Decide
    BY <2>4, Zenon DEF E!Decide, E!TypeOK, E!maskVars
  <2>5. CASE E!TimeOut
    BY <2>5 DEF E!TimeOut, E!TypeOK
  <2>6. CASE E!ClearWaited
    BY <2>6 DEF E!ClearWaited, E!TypeOK
  <2>7. CASE E!Collect
    <3>1. result' \in [events : SUBSET Events, timeout : BOOLEAN]
      BY <2>7 DEF E!Collect, E!TypeOK
    <3> QED
      BY <2>7, <3>1 DEF E!Collect, E!TypeOK
  <2>8. CASE E!Delay \/ E!DelayEnds
    BY <2>8 DEF E!Delay, E!DelayEnds, E!TypeOK, E!maskVars
  <2>9. CASE E!SendAtOnce
    BY <2>9, ZenonT(30) DEF E!SendAtOnce, E!Resume, E!TypeOK
  <2>10. ASSUME NEW s \in Below, E!BeginSend(s) PROVE E!TypeOK'
    BY <2>10 DEF E!BeginSend, E!TypeOK, E!callVars
  <2>11. ASSUME NEW s \in Below, E!LoadWaited(s) PROVE E!TypeOK'
    BY <2>11 DEF E!LoadWaited, E!TypeOK, E!callVars, E!maskVars, E!NoSend
  <2>12. ASSUME NEW s \in Below, E!EndSend(s) PROVE E!TypeOK'
    BY <2>12 DEF E!EndSend, E!Resume, E!TypeOK, E!maskVars, E!NoSend
  <2>13. CASE UNCHANGED E!vars
    BY <2>13 DEF E!vars, E!maskVars, E!callVars, E!TypeOK
  <2> QED
    BY <2>1, <2>2, <2>3, <2>4, <2>5, <2>6, <2>7, <2>8, <2>9, <2>10, <2>11, <2>12, <2>13
    DEF E!Next, E!Receive, E!Send
<1> QED
  BY <1>1, <1>2, PTL DEF E!Spec

\* No event is lost between a send and the wait that returns it (wait_events).
THEOREM NoEventLost == E!WaitsOK /\ E!Spec => []E!EventsKept
<1> SUFFICES ASSUME E!WaitsOK PROVE E!Spec => []E!EventsKept
  OBVIOUS
<1>1. E!Init => E!EventsKept
  BY DEF E!Init, E!EventsKept, E!InCall
<1>2. E!TypeOK /\ E!EventsKept /\ [E!Next]_E!vars => E!EventsKept'
  <2> SUFFICES ASSUME E!TypeOK, E!EventsKept, [E!Next]_E!vars PROVE E!EventsKept'
    OBVIOUS
  <2>1. CASE E!WaitEvents \/ E!WaitEventsUntil \/ E!TryWaitEvents
    BY <2>1 DEF E!WaitEvents, E!WaitEventsUntil, E!TryWaitEvents, E!Starts, E!maskVars, E!EventsKept, E!InCall
  <2>2. CASE E!SetWaited
    BY <2>2 DEF E!SetWaited, E!EventsKept, E!InCall
  <2>3. CASE E!ReadAndClear
    BY <2>3 DEF E!ReadAndClear, E!EventsKept, E!InCall, E!TypeOK
  <2>4. CASE E!Decide
    BY <2>4 DEF E!Decide, E!EventsKept, E!InCall, E!maskVars
  <2>5. CASE E!TimeOut
    BY <2>5 DEF E!WaitsOK, E!TimeOut, E!EventsKept, E!InCall
  <2>6. CASE E!ClearWaited
    BY <2>6 DEF E!ClearWaited, E!EventsKept, E!InCall
  <2>7. CASE E!Collect
    <3>1. /\ owed' = owed \ (received \cup (sent \cap want.events))
          /\ sent' = sent \ E!Collected /\ receiver' = "user"
      BY <2>7 DEF E!Collect
    <3>2. E!Collected \cap Events = want.events
      BY DEF E!WaitsOK, E!Collected, E!TypeOK
    <3>3. owed = (sent \cap Events) \cup received
      BY <2>7 DEF E!Collect, E!EventsKept, E!InCall
    <3>4. owed' = (sent' \cap Events)
      <4>1. want.events \subseteq Events /\ received \subseteq want.events
        BY DEF E!TypeOK
      <4>2. ASSUME NEW e PROVE e \in owed' <=> e \in sent' /\ e \in Events
        BY <3>1, <3>2, <3>3, <4>1
      <4> QED
        BY <4>2
    <3> QED
      BY <3>1, <3>4 DEF E!EventsKept, E!InCall
  <2>8. CASE E!Delay \/ E!DelayEnds
    BY <2>8 DEF E!WaitsOK, E!Delay, E!DelayEnds, E!EventsKept, E!InCall, E!maskVars
  <2>9. CASE E!SendAtOnce
    BY <2>9 DEF E!SendAtOnce, E!Resume, E!EventsKept, E!InCall, E!TypeOK
  <2>10. ASSUME NEW s \in Below, E!BeginSend(s) PROVE E!EventsKept'
    BY <2>10 DEF E!BeginSend, E!EventsKept, E!InCall, E!callVars, E!TypeOK
  <2>11. ASSUME NEW s \in Below, E!LoadWaited(s) PROVE E!EventsKept'
    BY <2>11 DEF E!LoadWaited, E!EventsKept, E!InCall, E!callVars, E!maskVars
  <2>12. ASSUME NEW s \in Below, E!EndSend(s) PROVE E!EventsKept'
    BY <2>12 DEF E!EndSend, E!Resume, E!EventsKept, E!InCall, E!maskVars
  <2>13. CASE UNCHANGED E!vars
    BY <2>13 DEF E!vars, E!maskVars, E!callVars, E!EventsKept, E!InCall
  <2> QED
    BY <2>1, <2>2, <2>3, <2>4, <2>5, <2>6, <2>7, <2>8, <2>9, <2>10, <2>11, <2>12, <2>13
    DEF E!Next, E!Receive, E!Send
<1> QED
  BY <1>1, <1>2, EventTypes, PTL DEF E!Spec

\* Every wait is for one event.
OneEventWaits == \A w \in EventWaits : \E e \in Events : w.events = {e}

\* A thread below has still to look at the mask, or to resume the receiver.
SenderOnItsWay ==
  \E s \in Below : \/ sender[s].pc = "resume"
                   \/ sender[s].pc = "load" /\ want.events \cap sender[s].seen # {}

\* The strengthening of NoLostWakeup for waits for one event: from the moment
\* the mask is read, the event in the mask means that a resume is deferred or,
\* once the receiver is blocked, that a sender is on its way to resume it.
OneWaitInv ==
  /\ receiver \in {"call", "read", "decide", "blocked"} => \E e \in Events : want.events = {e}
  /\ receiver = "decide" /\ want.events \cap sent # {} => deferred
  /\ receiver = "blocked" => received = {}
  /\ receiver = "blocked" /\ want.events \cap sent # {} => SenderOnItsWay

\* With one event waited for, should_notify is true when it has been seen.
LEMMA NotifiesOne ==
  ASSUME E!TypeOK, receiver \in {"read", "decide", "blocked"}, NEW seen,
         \E e \in Events : want.events = {e}
  PROVE  E!Notifies(seen) <=> want.events \cap seen # {}
BY DEF E!Notifies, E!ShouldNotify, E!TypeOK

\* OneWaitInv is inductive (send_events against wait_current_thread_event).
LEMMA OneWaitStep ==
  ASSUME OneEventWaits, E!TypeOK, OneWaitInv, [E!Next]_E!vars
  PROVE  OneWaitInv'
<1>1. CASE E!WaitEvents \/ E!WaitEventsUntil \/ E!TryWaitEvents
  <2>1. PICK w \in EventWaits : receiver' = "call" /\ want'.events = w.events
    BY <1>1 DEF E!WaitEvents, E!WaitEventsUntil, E!TryWaitEvents, E!Starts
  <2> QED
    BY <2>1 DEF OneEventWaits, OneWaitInv
<1>2. CASE E!SetWaited
  BY <1>2 DEF E!SetWaited, OneWaitInv
<1>3. CASE E!ReadAndClear
  BY <1>3 DEF E!ReadAndClear, OneWaitInv
<1>4. CASE E!Decide
  <2>1. receiver = "decide" /\ UNCHANGED <<want, received, sent, sender>> /\ receiver' \in {"blocked", "woken"}
    BY <1>4 DEF E!Decide, E!maskVars
  <2>2. PICK e \in Events : want.events = {e}
    BY <2>1 DEF OneWaitInv
  <2>3. receiver' = "blocked" => ~deferred /\ received = {}
    BY <1>4, <2>2 DEF E!Decide, E!MustBlock, E!TypeOK
  <2> QED
    BY <2>1, <2>2, <2>3 DEF OneWaitInv
<1>5. CASE E!TimeOut \/ E!ClearWaited \/ E!Collect \/ E!Delay \/ E!DelayEnds
  BY <1>5 DEF E!TimeOut, E!ClearWaited, E!Collect, E!Delay, E!DelayEnds, OneWaitInv
<1>6. CASE E!SendAtOnce
  <2>1. PICK e \in Events :
          /\ sent' = sent \cup {e}
          /\ IF E!Notifies(sent \cup {e}) THEN E!Resume ELSE UNCHANGED <<receiver, deferred>>
    BY <1>6, Zenon DEF E!SendAtOnce
  <2>2. UNCHANGED <<want, received, sender>>
    BY <1>6 DEF E!SendAtOnce
  <2>3. CASE E!Notifies(sent \cup {e})
    <3>1. /\ receiver' = IF receiver = "blocked" THEN "woken" ELSE IF receiver = "delay" THEN "user" ELSE receiver
          /\ receiver = "decide" => deferred'
      BY <2>1, <2>3, Zenon DEF E!Resume
    <3> QED
      BY <2>2, <3>1 DEF OneWaitInv
  <2>4. CASE ~E!Notifies(sent \cup {e}) /\ receiver \in {"decide", "blocked"}
    <3>1. UNCHANGED <<receiver, deferred>>
      BY <2>1, <2>4
    <3>2. want.events \cap (sent \cup {e}) = {}
      BY <2>4, NotifiesOne DEF OneWaitInv
    <3> QED
      BY <2>1, <2>2, <3>1, <3>2 DEF OneWaitInv
  <2>5. CASE ~E!Notifies(sent \cup {e}) /\ receiver \notin {"decide", "blocked"}
    BY <2>1, <2>2, <2>5 DEF OneWaitInv
  <2> QED
    BY <2>3, <2>4, <2>5
<1>7. ASSUME NEW s \in Below, E!BeginSend(s) PROVE OneWaitInv'
  <2>1. PICK e \in Events :
          /\ sent' = sent \cup {e}
          /\ sender' = [sender EXCEPT ![s] = [pc |-> "load", seen |-> sent \cup {e}]]
    BY <1>7, Zenon DEF E!BeginSend
  <2>2. receiver \in {"blocked", "delay"} /\ UNCHANGED <<receiver, want, received, deferred>>
    BY <1>7 DEF E!BeginSend, E!callVars
  <2>3. sender'[s].pc = "load" /\ sender'[s].seen = sent'
    BY <2>1 DEF E!TypeOK
  <2>4. want'.events \cap sent' # {} => SenderOnItsWay'
    BY <2>2, <2>3 DEF SenderOnItsWay
  <2> QED
    BY <2>2, <2>4 DEF OneWaitInv
<1>8. ASSUME NEW s \in Below, E!LoadWaited(s) PROVE OneWaitInv'
  <2>1. /\ receiver \in {"blocked", "delay"} /\ sender[s].pc = "load"
        /\ UNCHANGED <<receiver, want, received, deferred, sent>>
    BY <1>8 DEF E!LoadWaited, E!callVars, E!maskVars
  <2>2. ASSUME receiver = "blocked", SenderOnItsWay PROVE SenderOnItsWay'
    <3>1. PICK r \in Below : \/ sender[r].pc = "resume"
                             \/ sender[r].pc = "load" /\ want.events \cap sender[r].seen # {}
      BY <2>2 DEF SenderOnItsWay
    <3>2. CASE r # s
      BY <1>8, <2>1, <3>1, <3>2 DEF E!LoadWaited, SenderOnItsWay, E!TypeOK
    <3>3. CASE r = s
      <4>1. E!Notifies(sender[s].seen)
        BY <2>1, <2>2, <3>1, <3>3, NotifiesOne DEF OneWaitInv
      <4>2. sender'[s].pc = "resume"
        BY <1>8, <4>1 DEF E!LoadWaited, E!TypeOK
      <4> QED
        BY <4>2 DEF SenderOnItsWay
    <3> QED
      BY <3>2, <3>3
  <2> QED
    BY <2>1, <2>2 DEF OneWaitInv
<1>9. ASSUME NEW s \in Below, E!EndSend(s) PROVE OneWaitInv'
  BY <1>9 DEF E!EndSend, E!Resume, OneWaitInv
<1>10. CASE UNCHANGED E!vars
  BY <1>10 DEF E!vars, E!maskVars, E!callVars, OneWaitInv, SenderOnItsWay
<1> QED
  BY <1>1, <1>2, <1>3, <1>4, <1>5, <1>6, <1>7, <1>8, <1>9, <1>10 DEF E!Next, E!Receive, E!Send

\* No wakeup is lost when every wait is for one event: the receiver is not left
\* blocked with its event sent and nobody to resume it (send_events).  For waits
\* for several events this is false of the code.
THEOREM OneEventNoLostWakeup == E!WaitsOK /\ OneEventWaits /\ E!Spec => []E!NoLostWakeup
<1> SUFFICES ASSUME E!WaitsOK, OneEventWaits PROVE E!Spec => []E!NoLostWakeup
  OBVIOUS
<1>1. E!Init => OneWaitInv
  BY DEF E!Init, OneWaitInv
<1>2. E!TypeOK /\ OneWaitInv /\ [E!Next]_E!vars => OneWaitInv'
  BY OneWaitStep
<1>3. E!TypeOK /\ OneWaitInv => E!NoLostWakeup
  <2> SUFFICES ASSUME E!TypeOK, OneWaitInv, receiver = "blocked", E!Satisfied(received \cup sent)
               PROVE  \E s \in Below : \/ sender[s].pc = "resume"
                                       \/ sender[s].pc = "load" /\ E!Notifies(sender[s].seen)
    BY DEF E!NoLostWakeup
  <2>1. PICK e \in Events : want.events = {e}
    BY DEF OneWaitInv
  <2>2. want.events \cap sent # {}
    BY <2>1 DEF E!Satisfied, OneWaitInv
  <2>3. SenderOnItsWay
    BY <2>2 DEF OneWaitInv
  <2> QED
    BY <2>1, <2>3, NotifiesOne DEF SenderOnItsWay
<1> QED
  BY <1>1, <1>2, <1>3, EventTypes, PTL DEF E!Spec
=============================================================================
