------------------------------ MODULE EventSet ------------------------------
(***************************************************************************)
(* The event set of one thread, the receiver: scars/src/event_set.rs with  *)
(* the scheduler's wait_current_thread_event and the sends of other        *)
(* contexts, one step per access to the two atomic masks.                  *)
(*                                                                         *)
(* Handlers and threads above the receiver run to the end of send_events   *)
(* before the receiver goes on.  A thread below it runs only while the     *)
(* receiver is blocked, and may lose the processor between two accesses.   *)
(* A mask is the set of its event bits; SCHEDULER_NOTIFY_EVENT, which is   *)
(* set and never read, is left out.                                        *)
(***************************************************************************)
EXTENDS FiniteSets

CONSTANTS
  Events,   \* the application's event bits
  Below,    \* the threads of lower priority that send
  Waits,    \* the [events, all] the receiver waits for
  Calls     \* the services the receiver calls

WAKEUP == "SCHEDULER_WAKEUP_EVENT"

\* What is waited for is a set of the application's events
WaitsOK ==
  /\ WAKEUP \notin Events
  /\ Waits \subseteq [events : SUBSET Events \ {{}}, all : BOOLEAN]

ASSUME EventsAssumption == WaitsOK

VARIABLES
  waited,     \* waited_events_mask: its events and the require_all flag
  sent,       \* sent_events_mask
  pc, want,   \* the receiver and the wait it is in
  received,   \* the events the system call has read
  deferred,   \* the receiver is in the queue of pending resumes
  sender,     \* send_events in progress in the threads below
  result,     \* what the last wait returned
  owed,       \* history: events sent and not yet returned by a wait
  late        \* history: the deadline of the wait has passed

maskVars == <<waited, sent>>
callVars == <<pc, want, received, deferred>>
vars == <<maskVars, callVars, sender, result, owed, late>>

NoWait == [events |-> {}, all |-> FALSE]
NoSend == [pc |-> "idle", seen |-> {}]

-----------------------------------------------------------------------------
(* The conditions                                                          *)

\* will_not_block
WillNotBlock(all, s, events) == (~all /\ s \cap events # {}) \/ s \cap events = events

\* should_notify
ShouldNotify(all, got, receiving) == got # {} /\ (~all \/ got = receiving)

\* The condition of wait_current_thread_event
MustBlock == (~want.all /\ received = {}) \/ received # want.events

-----------------------------------------------------------------------------
(* The receiver                                                            *)

Starts(events, all, timed, try) ==
  /\ pc' = "call"
  /\ want' = [events |-> events, all |-> all, timed |-> timed, try |-> try]
  /\ received' = {} /\ late' = FALSE
  /\ UNCHANGED <<maskVars, deferred, sender, result, owed>>

\* wait_events and wait_events_until
WaitEvents ==
  /\ pc = "user" /\ "wait" \in Calls
  /\ \E w \in Waits : Starts(w.events, w.all, FALSE, FALSE)
WaitEventsUntil ==
  /\ pc = "user" /\ "wait_until" \in Calls
  /\ \E w \in Waits : Starts(w.events, w.all, TRUE, FALSE)

\* try_wait_events: the flag is removed before the wait
TryWaitEvents ==
  /\ pc = "user" /\ "try" \in Calls
  /\ \E w \in Waits : /\ WillNotBlock(w.all, sent, w.events)
                      /\ Starts(w.events, FALSE, FALSE, TRUE)

\* wait_current_thread_event: set_waited_events
SetWaited ==
  /\ pc = "call"
  /\ waited' = [events |-> want.events, all |-> want.all]
  /\ pc' = "read"
  /\ UNCHANGED <<sent, want, received, deferred, sender, result, owed, late>>

\* wait_current_thread_event: read_and_clear_matching_sent_events
ReadAndClear ==
  /\ pc = "read"
  /\ received' = sent \cap want.events
  /\ sent' = sent \ want.events
  /\ pc' = "decide"
  /\ UNCHANGED <<waited, want, deferred, sender, result, owed, late>>

\* Mutant: a resume that came before the thread is blocked has no effect.
DecideForget ==
  /\ pc = "decide"
  /\ pc' = IF MustBlock THEN "blocked" ELSE "woken"
  /\ deferred' = FALSE
  /\ UNCHANGED <<maskVars, want, received, sender, result, owed, late>>

\* wait_current_thread_event: block the thread or not.  A resume that came in
\* between is completed when the preemption lock is released.
Decide ==
  /\ pc = "decide"
  /\ pc' = IF MustBlock /\ ~deferred THEN "blocked" ELSE "woken"
  /\ deferred' = FALSE
  /\ UNCHANGED <<maskVars, want, received, sender, result, owed, late>>

\* wakeup_thread at the deadline of the wait
TimeOut ==
  /\ pc = "blocked" /\ want.timed
  /\ sent' = sent \cup {WAKEUP}
  /\ pc' = "woken" /\ late' = TRUE
  /\ UNCHANGED <<waited, want, received, deferred, sender, result, owed>>

\* wait_events and wait_events_until after the system call: the mask is cleared
ClearWaited ==
  /\ pc = "woken"
  /\ waited' = NoWait
  /\ pc' = "collect"
  /\ UNCHANGED <<sent, want, received, deferred, sender, result, owed, late>>

\* The bits read at the end: wait_events_until adds the scheduler's.
Collected == want.events \cup (IF want.timed THEN {WAKEUP} ELSE {})

\* Mutant: the events of the system call are overwritten.
CollectOver ==
  /\ pc = "collect"
  /\ result' = [events |-> sent \cap want.events, timeout |-> want.timed /\ WAKEUP \in sent]
  /\ sent' = sent \ Collected
  /\ owed' = owed \ result'.events
  /\ pc' = "user"
  /\ UNCHANGED <<waited, want, received, deferred, sender, late>>

\* ... and the events that came since are added to those of the system call.
Collect ==
  /\ pc = "collect"
  /\ result' = [events |-> received \cup (sent \cap want.events),
                timeout |-> want.timed /\ WAKEUP \in sent]
  /\ sent' = sent \ Collected
  /\ owed' = owed \ result'.events
  /\ pc' = "user"
  /\ UNCHANGED <<waited, want, received, deferred, sender, late>>

\* delay_until and the wakeup_thread that ends it
Delay ==
  /\ pc = "user" /\ "delay" \in Calls
  /\ pc' = "delay"
  /\ UNCHANGED <<maskVars, want, received, deferred, sender, result, owed, late>>
DelayEnds ==
  /\ pc = "delay"
  /\ pc' = "user"
  /\ sent' = sent \cup {WAKEUP}
  /\ UNCHANGED <<waited, want, received, deferred, sender, result, owed, late>>

-----------------------------------------------------------------------------
(* The senders                                                             *)

\* Scheduler::resume_thread on the receiver.  While its system call holds the
\* preemption lock the resume is deferred; it does nothing to a running thread.
Resume ==
  /\ pc' = IF pc = "blocked" THEN "woken" ELSE IF pc = "delay" THEN "user" ELSE pc
  /\ deferred' = (deferred \/ pc \in {"read", "decide"})

Notifies(seen) == ShouldNotify(waited.all, waited.events \cap seen, waited.events)

\* RawThread::send_events by a handler, or by a thread above the receiver
SendAtOnce ==
  /\ \E e \in Events :
       /\ sent' = sent \cup {e} /\ owed' = owed \cup {e}
       /\ IF Notifies(sent \cup {e}) THEN Resume ELSE UNCHANGED <<pc, deferred>>
  /\ UNCHANGED <<waited, want, received, sender, result, late>>

\* send_events by a thread below: the fetch_or on the sent events
BeginSend(s) ==
  /\ pc \in {"blocked", "delay"} /\ sender[s].pc = "idle"
  /\ \E e \in Events :
       /\ sent' = sent \cup {e} /\ owed' = owed \cup {e}
       /\ sender' = [sender EXCEPT ![s] = [pc |-> "load", seen |-> sent \cup {e}]]
  /\ UNCHANGED <<waited, callVars, result, late>>

\* ... the load of the waited events
LoadWaited(s) ==
  /\ pc \in {"blocked", "delay"} /\ sender[s].pc = "load"
  /\ sender' = [sender EXCEPT ![s] =
                  IF Notifies(sender[s].seen) THEN [pc |-> "resume", seen |-> {}] ELSE NoSend]
  /\ UNCHANGED <<maskVars, callVars, result, owed, late>>

\* ... and the resume
EndSend(s) ==
  /\ pc \in {"blocked", "delay"} /\ sender[s].pc = "resume"
  /\ Resume
  /\ sender' = [sender EXCEPT ![s] = NoSend]
  /\ UNCHANGED <<maskVars, want, received, result, owed, late>>

-----------------------------------------------------------------------------
Init ==
  /\ waited = NoWait /\ sent = {}
  /\ pc = "user"
  /\ want = [events |-> {}, all |-> FALSE, timed |-> FALSE, try |-> FALSE]
  /\ received = {} /\ deferred = FALSE
  /\ sender = [s \in Below |-> NoSend]
  /\ result = [events |-> {}, timeout |-> FALSE]
  /\ owed = {} /\ late = FALSE

Receive ==
  \/ WaitEvents \/ WaitEventsUntil \/ TryWaitEvents \/ SetWaited \/ ReadAndClear \/ Decide
  \/ TimeOut \/ ClearWaited \/ Collect \/ Delay \/ DelayEnds
Send == SendAtOnce \/ \E s \in Below : BeginSend(s) \/ LoadWaited(s) \/ EndSend(s)
Next == Receive \/ Send

Spec == Init /\ [][Next]_vars

-----------------------------------------------------------------------------
(* Properties                                                              *)

InCall == pc \in {"decide", "blocked", "woken", "collect"}

\* Type correctness: while the receiver is in the system call the waited mask is
\* the wait it is in, and outside a wait the mask is empty.
TypeOK ==
  /\ sent \subseteq Events \cup {WAKEUP}
  /\ pc \in {"user", "call", "read", "decide", "blocked", "woken", "collect", "delay"}
  /\ want \in [events : SUBSET Events, all : BOOLEAN, timed : BOOLEAN, try : BOOLEAN]
  /\ received \subseteq want.events
  /\ deferred \in BOOLEAN /\ late \in BOOLEAN
  /\ sender \in [Below -> [pc : {"idle", "load", "resume"}, seen : SUBSET (Events \cup {WAKEUP})]]
  /\ result \in [events : SUBSET Events, timeout : BOOLEAN]
  /\ owed \subseteq Events
  /\ waited = IF pc \in {"read", "decide", "blocked", "woken"}
              THEN [events |-> want.events, all |-> want.all] ELSE NoWait

\* No event is lost: what was sent and has not been returned by a wait is in the
\* mask, or held by the wait in progress (wait_events reads the mask twice and
\* returns the union).
EventsKept == owed = (sent \cap Events) \cup (IF InCall THEN received ELSE {})

\* What the wait in progress asks for, with s as the events that have come
Satisfied(s) == IF want.all THEN want.events \subseteq s ELSE want.events \cap s # {}

\* The receiver is never left blocked when what it waits for has been sent: a
\* sender has still to look at the mask or to resume it (wait_current_thread_event:
\* "it will be notified if the required events are received").
NoLostWakeup ==
  pc = "blocked" /\ Satisfied(received \cup sent) =>
    \E s \in Below : \/ sender[s].pc = "resume"
                     \/ sender[s].pc = "load" /\ Notifies(sender[s].seen)

-----------------------------------------------------------------------------
(* What comments of the code promise and the code does not keep; see the   *)
(* README for the counterexamples.                                         *)

\* wait_events_until reports a timeout only when its deadline has passed
\* (wait_events_until: events "that could have lead to the thread wakeup").
TimeoutTrue == pc = "user" /\ result.timeout => late

\* A wait that reports no timeout returns what it waited for (wait_events: "Wait
\* for the events"; send_events: "Filter out events that have not been received").
ReturnsEvents ==
  pc = "user" /\ want.events # {} /\ ~result.timeout => Satisfied(result.events)
=============================================================================
