---------------------------- MODULE MCScheduler -----------------------------
(* Instances of Scheduler for TLC: applications of a few threads, devices  *)
(* and locks, each of which uses a few services of the kernel.             *)
EXTENDS Scheduler

MCBase == [t \in AllThreads |-> CASE t = Idle -> 0 [] t = "L" -> 1 [] t = "M" -> 2 [] t = "H" -> 3]
MCHw == [i \in Icbs |-> IF i = "D" THEN 11 ELSE IF i = "E" THEN 12 ELSE 10]
MCCeiling == [l \in Locks |-> IF l = "lk" THEN 2 ELSE 3]

App(parts, calls, handlers) == [parts |-> parts, calls |-> calls, handlers |-> handlers]

\* Threads that start, yield, wait, suspend and hold the preemption lock
Switching == App({"L", "M", "H"}, {"start", "yield", "wait_event", "send", "suspend", "hold"}, {})

\* Threads that share a lock of ceiling 2; that also block while they hold locks
\* of ceilings 2 and 3
Sharing == App({"L", "M", "H", "lk"}, {"start", "lock", "with", "wait_event", "send"}, {})
Holding == App({"L", "M", "H", "lk", "hi"},
               {"start", "lock", "wait_event", "send", "block_holding"}, {})

\* Threads that sleep, with and without events
Sleeping == App({"L", "M"}, {"start", "delay", "wait_event_until", "send"}, {})

\* Two nested devices and two threads around one wait queue
Queueing == App({"L", "H", "D", "E"}, {"start", "wait", "notify_all"}, {"notify_one"})

\* An interrupt executor that sleeps, is woken up and is polled
Polling == App({"L", "D"}, {"start", "poll", "delay"}, {"sleep", "wake"})

\* A device that wakes a thread up
Waking == App({"L", "H", "lk", "D"}, {"start", "wait_event", "yield", "with"}, {"send"})

Together == {Switching, Sharing, Holding, Queueing, Polling}
WithTimer == {Sleeping}
WithDevice == {Waking}
=============================================================================
