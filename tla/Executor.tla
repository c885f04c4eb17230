------------------------------ MODULE Executor ------------------------------
(***************************************************************************)
(* task/mod.rs, task/task.rs and task/task_pool.rs: a thread executor and  *)
(* the tasks it polls.                                                     *)
(*                                                                         *)
(* block_on puts a task on the stack of the thread and polls it until it   *)
(* is finished.  A future waits for a timer, for an event that another     *)
(* context notifies, or for both.  The wakeup event of the executor is the *)
(* one event of EventSet, sent and taken.                                  *)
(*                                                                         *)
(* The pending queue keeps the node popped last.  Once that is the node of *)
(* a task that is gone, what a further call meets depends on what the      *)
(* stack holds there, and the model makes no further call.                 *)
(***************************************************************************)
EXTENDS KernelList, PendingQueue

CONSTANTS
  Futures,    \* the futures: [parts |-> what they wait for, all |-> all or any]
  Wakers,     \* the threads and interrupt handlers that notify
  Repeats,    \* an event source keeps its waker and wakes again
  Pool,       \* the cells of a task pool
  Stack,      \* the tasks the calls of block_on make, in order
  MaxTicks    \* bound on the clock

VARIABLES
  pc,         \* where the thread is
  call,       \* the number of the current call of block_on
  state,      \* the state of a task, and of a cell of the pool
  future,     \* the future of a task
  done,       \* the parts of its future that are ready
  deadline,   \* the deadline of its timer
  wakeup,     \* RawTask::wakeup_time
  ready, sleep, pending,  \* the queues of the executor
  current,    \* the task that is polled
  event,      \* EXECUTOR_WAKEUP_EVENT is sent
  waiting,    \* the tasks whose waker an event source holds
  notified,   \* the tasks whose event has happened
  wpc, wtask, \* where a waker is, and the task it wakes
  now,
  panic       \* why the program stopped

exec == <<pc, call, current>>
tasks == <<state, future, done, deadline, wakeup>>
queues == <<ready, sleep, pending>>
wakers == <<waiting, notified, wpc, wtask>>
vars == <<exec, tasks, queues, event, wakers, now, panic>>

Tasks == Items(Stack)
NoTask == "none"
Called == {Stack[n] : n \in 1 .. call}
Parts == {"timer", "event"}
Future == [parts : SUBSET Parts, all : BOOLEAN]

ASSUME ExecutorAssumption ==
  /\ Futures \subseteq Future /\ Repeats \in BOOLEAN
  /\ Distinct(Stack) /\ MaxTicks \in Nat /\ Tasks \cap (Pool \cup {NoTask, Sentinel}) = {}

Running == panic = "none"
At(at) == pc = at /\ Running

\* A future is ready when all of its parts are, or any of them.
Complete(t) == IF future[t].all THEN done[t] = future[t].parts ELSE done[t] # {}

\* A part is polled until it is ready or the future is.
Polls(t, part) == part \in future[t].parts \ done[t] /\ ~Complete(t)
Done(t, part) == [done EXCEPT ![t] = @ \cup {part}]

\* LinkedList::push_back of the ready queue: a node that is in a list panics
PushReady(t) ==
  IF t \in Items(ready) THEN panic' = "linked" /\ UNCHANGED ready
  ELSE ready' = Append(ready, t) /\ UNCHANGED panic

-----------------------------------------------------------------------------
(* The thread                                                              *)

\* block_on: the task is initialised and made ready
BlockOn ==
  /\ At("out") /\ call < Len(Stack) /\ pending = EmptyQueue
  /\ LET t == Stack[call + 1]
     IN /\ \E f \in Futures : future' = [future EXCEPT ![t] = f]
        /\ \E d \in 0 .. MaxTicks : deadline' = [deadline EXCEPT ![t] = d]
        /\ state' = [state EXCEPT ![t] = "running"]
        /\ PushReady(t)
  /\ call' = call + 1
  /\ pc' = "sleepers"
  /\ UNCHANGED <<current, done, wakeup, sleep, pending, event, wakers, now>>

\* TaskPool::alloc and TaskBuilder::attach: the cell is claimed, and Task::init asks
\* LocalExecutor::None for its priority.
Attach ==
  /\ At("out")
  /\ \E c \in Pool : state[c] = "free" /\ state' = [state EXCEPT ![c] = "uninit"]
  /\ panic' = "executor"
  /\ UNCHANGED <<exec, future, done, deadline, wakeup, queues, event, wakers, now>>

\* Mutant: the task stays in the sleep queue.
ResumeSleepingKeep ==
  /\ At("sleepers")
  /\ IF sleep # <<>> /\ wakeup[Head(sleep)] <= now
     THEN PushReady(Head(sleep)) /\ UNCHANGED <<pc, sleep>>
     ELSE pc' = "pending" /\ UNCHANGED <<sleep, ready, panic>>
  /\ UNCHANGED <<call, current, tasks, pending, event, wakers, now>>

\* One round of resume_sleeping_tasks
ResumeSleeping ==
  /\ At("sleepers")
  /\ IF sleep # <<>> /\ wakeup[Head(sleep)] <= now
     THEN sleep' = Tail(sleep) /\ PushReady(Head(sleep)) /\ UNCHANGED pc
     ELSE pc' = "pending" /\ UNCHANGED <<sleep, ready, panic>>
  /\ UNCHANGED <<call, current, tasks, pending, event, wakers, now>>

\* One round of resume_pending_tasks
ResumePending ==
  /\ At("pending") /\ ~Spins(pending)
  /\ IF ~IsEmpty(pending)
     THEN pending' = Pop(pending) /\ PushReady(Head(pending.items)) /\ UNCHANGED pc
     ELSE pc' = "poll" /\ UNCHANGED <<pending, ready, panic>>
  /\ UNCHANGED <<call, current, tasks, sleep, event, wakers, now>>

\* The next ready task is taken to be polled; when there is none, the thread waits.
PollReady ==
  /\ At("poll")
  /\ IF ready # <<>>
     THEN current' = Head(ready) /\ ready' = Tail(ready) /\ pc' = "event"
     ELSE pc' = "wait" /\ UNCHANGED <<current, ready>>
  /\ UNCHANGED <<call, tasks, sleep, pending, event, wakers, now, panic>>

\* The event of the future is polled (AsyncWaiterQueue::wait): the task waits in a
\* queue until it is taken from it.
PollEvent ==
  /\ At("event")
  /\ IF Polls(current, "event")
     THEN IF current \in notified
          THEN done' = Done(current, "event") /\ UNCHANGED waiting
          ELSE waiting' = waiting \cup {current} /\ UNCHANGED done
     ELSE UNCHANGED <<waiting, done>>
  /\ pc' = "timer"
  /\ UNCHANGED <<call, current, state, future, deadline, wakeup, queues, event, notified, wpc,
                 wtask, now, panic>>

\* task_sleep_until: the wakeup time is set before the list is found to own the task
TaskSleepUntil(t) ==
  /\ wakeup' = [wakeup EXCEPT ![t] = deadline[t]]
  /\ IF t \in Items(sleep) THEN panic' = "linked" /\ UNCHANGED sleep
     ELSE /\ sleep' = InsertAfter(sleep, t, {u \in Tasks : wakeup[u] <= deadline[t]})
          /\ UNCHANGED panic

\* Mutant: the task goes to sleep before the clock is read.
PollTimerLate ==
  /\ At("timer")
  /\ IF Polls(current, "timer")
     THEN /\ TaskSleepUntil(current)
          /\ done' = IF deadline[current] <= now THEN Done(current, "timer") ELSE done
     ELSE UNCHANGED <<done, wakeup, sleep, panic>>
  /\ pc' = "result"
  /\ UNCHANGED <<call, current, state, future, deadline, ready, pending, event, wakers, now>>

\* The timer of the future is polled (Sleep::poll).
PollTimer ==
  /\ At("timer")
  /\ IF ~Polls(current, "timer")
     THEN UNCHANGED <<done, wakeup, sleep, panic>>
     ELSE IF deadline[current] <= now
     THEN done' = Done(current, "timer") /\ UNCHANGED <<wakeup, sleep, panic>>
     ELSE TaskSleepUntil(current) /\ UNCHANGED done
  /\ pc' = "result"
  /\ UNCHANGED <<call, current, state, future, deadline, ready, pending, event, wakers, now>>

\* The end of Task::poll, and of RawThreadExecutor::block_on when its task is finished
PollResult ==
  /\ At("result")
  /\ IF Complete(current)
     THEN /\ state' = [state EXCEPT ![current] = "finished"]
          /\ pc' = IF current = Stack[call] THEN "read" ELSE "poll"
     ELSE pc' = "poll" /\ UNCHANGED state
  /\ current' = NoTask
  /\ UNCHANGED <<call, future, done, deadline, wakeup, queues, event, wakers, now, panic>>

\* wait_events_until: the wakeup event, or the deadline of the first sleeper
AwaitEvents ==
  /\ At("wait")
  /\ event \/ (sleep # <<>> /\ wakeup[Head(sleep)] <= now)
  /\ event' = FALSE
  /\ pc' = "sleepers"
  /\ UNCHANGED <<call, current, tasks, queues, wakers, now, panic>>

\* try_read_output at the end of block_on: the drop of the control block makes the
\* pending tasks ready, and the wakeup event is sent when there are any.
ReadOutput ==
  /\ At("read") /\ ~Spins(pending)
  /\ IF ~IsEmpty(pending)
     THEN /\ pending' = Pop(pending) /\ PushReady(Head(pending.items))
          /\ event' = TRUE
          /\ UNCHANGED <<pc, state>>
     ELSE /\ state' = [state EXCEPT ![Stack[call]] = "free"]
          /\ pc' = "out"
          /\ UNCHANGED <<pending, ready, event, panic>>
  /\ UNCHANGED <<call, current, future, done, deadline, wakeup, sleep, wakers, now>>

-----------------------------------------------------------------------------
(* The contexts that wake tasks                                            *)

\* The event of a task happens: a wait queue lets go of the task, a driver that
\* keeps the waker does not (AsyncWaiterQueue::notify_one).
Notify(w) ==
  /\ wpc[w] = "idle" /\ Running
  /\ \E t \in waiting :
       /\ waiting' = IF Repeats THEN waiting ELSE waiting \ {t}
       /\ notified' = notified \cup {t}
       /\ wtask' = [wtask EXCEPT ![w] = t]
  /\ wpc' = [wpc EXCEPT ![w] = "push"]
  /\ UNCHANGED <<exec, tasks, queues, event, now, panic>>

\* Mutant: the executor is not told.
WakeSilent(w) ==
  /\ wpc[w] = "push" /\ Running
  /\ pending' = Push(pending, wtask[w])
  /\ wpc' = [wpc EXCEPT ![w] = "idle"]
  /\ UNCHANGED <<exec, tasks, ready, sleep, event, waiting, notified, wtask, now, panic>>

\* RawThreadExecutor::resume_task by way of the waker: the task is put into the
\* pending queue, which is fatal when it is in it already.
Wake(w) ==
  /\ wpc[w] = "push" /\ Running
  /\ IF PushFails(pending, wtask[w]) THEN panic' = "queued" /\ UNCHANGED pending
     ELSE ~Spins(pending) /\ pending' = Push(pending, wtask[w]) /\ UNCHANGED panic
  /\ wpc' = [wpc EXCEPT ![w] = "send"]
  /\ UNCHANGED <<exec, tasks, ready, sleep, event, waiting, notified, wtask, now>>

\* The second half of resume_task: the wakeup event is sent to the thread.
SendEvent(w) ==
  /\ wpc[w] = "send" /\ Running
  /\ event' = TRUE
  /\ wpc' = [wpc EXCEPT ![w] = "idle"]
  /\ UNCHANGED <<exec, tasks, queues, waiting, notified, wtask, now, panic>>

Tick ==
  /\ now < MaxTicks /\ Running
  /\ now' = now + 1
  /\ UNCHANGED <<exec, tasks, queues, event, wakers, panic>>

-----------------------------------------------------------------------------
Init ==
  /\ pc = "out" /\ call = 0 /\ current = NoTask
  /\ state = [c \in Tasks \cup Pool |-> "free"]
  /\ future = [t \in Tasks |-> [parts |-> {}, all |-> TRUE]]
  /\ done = [t \in Tasks |-> {}]
  /\ deadline = [t \in Tasks |-> 0] /\ wakeup = [t \in Tasks |-> 0]
  /\ ready = <<>> /\ sleep = <<>> /\ pending = EmptyQueue
  /\ event = FALSE /\ waiting = {} /\ notified = {}
  /\ wpc = [w \in Wakers |-> "idle"] /\ wtask = [w \in Wakers |-> NoTask]
  /\ now = 0 /\ panic = "none"

Thread ==
  \/ BlockOn \/ Attach \/ ResumeSleeping \/ ResumePending \/ PollReady
  \/ PollEvent \/ PollTimer \/ PollResult \/ AwaitEvents \/ ReadOutput

Waking(w) == Notify(w) \/ Wake(w) \/ SendEvent(w)

Next == Thread \/ Tick \/ \E w \in Wakers : Waking(w)

Spec == Init /\ [][Next]_vars

\* The thread runs when it can, the clock does not stop, and every event that is
\* waited for happens.
FairSpec ==
  Spec /\ WF_vars(Thread) /\ WF_vars(Tick) /\ \A w \in Wakers : WF_vars(Waking(w))

-----------------------------------------------------------------------------
(* Properties                                                              *)

\* Type correctness: a task sleeps until a time the clock reaches.
TypeOK ==
  /\ pc \in {"out", "sleepers", "pending", "poll", "event", "timer", "result", "wait", "read"}
  /\ call \in 0 .. Len(Stack) /\ current \in Tasks \cup {NoTask}
  /\ state \in [Tasks \cup Pool -> {"free", "uninit", "running", "finished"}]
  /\ future \in [Tasks -> Future] /\ done \in [Tasks -> SUBSET Parts]
  /\ deadline \in [Tasks -> 0 .. MaxTicks] /\ wakeup \in [Tasks -> 0 .. MaxTicks]
  /\ ready \in Seq(Tasks) /\ sleep \in Seq(Tasks)
  /\ pending \in [items : Seq(Tasks), dummy : Tasks \cup {Sentinel}, owned : SUBSET Tasks,
                  looped : BOOLEAN]
  /\ event \in BOOLEAN /\ waiting \subseteq Tasks /\ notified \subseteq Tasks
  /\ wpc \in [Wakers -> {"idle", "push", "send"}] /\ wtask \in [Wakers -> Tasks \cup {NoTask}]
  /\ now \in 0 .. MaxTicks /\ panic \in {"none", "linked", "queued", "executor"}

\* No task is put into a queue that it is in already, whoever wakes it and whenever
\* (resume_task: "Safe to call from ISR or another thread").
WakeIsSafe == panic \notin {"linked", "queued"}

\* When block_on has returned and its task is gone from the stack, neither list of the
\* executor holds the task (Drop for RawTask makes the pending tasks ready, "allowing
\* safe dropping").
NoneLeftBehind ==
  pc = "out" => Called \cap (Items(ready) \cup Items(sleep)) = {}

\* block_on returns when what its future waits for has happened: no wakeup is lost
\* between the pending queue, the sleep queue and the wait of the thread.
BlockOnReturns == pc # "out" ~> pc = "out"

-----------------------------------------------------------------------------
(* What comments of the code promise and the code does not keep; see the   *)
(* README for the counterexamples.                                         *)

\* When block_on has returned, the pending queue does not use the node of its task
\* (Drop for RawTask: "Readying pending tasks will free the task from the atomic
\* pending_ready_tasks list if it is there").
LinkFreed ==
  pc = "out" => Called \cap (Items(pending.items) \cup {pending.dummy}) = {}

\* A task that is taken from a pool can be attached (InitializedTask: "Task is
\* initialized and ready to be executed").
TasksAttach == panic # "executor"
=============================================================================
