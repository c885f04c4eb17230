------------------------------ MODULE Ceilings ------------------------------
(***************************************************************************)
(* Ceiling locks against interrupts: the lock priorities of one thread and *)
(* of the interrupt handlers nested over it, kept in one packed word per   *)
(* context, and the interrupt threshold of the hardware that they set.     *)
(*                                                                         *)
(* A context changes its own word only, so the compare_exchange loops need *)
(* one step; the threshold is written in a later step, and an interrupt    *)
(* may come in between.  Acquiring a lock in a way its rules forbid (above *)
(* the ceiling, or a lock the context holds already) is left out.          *)
(***************************************************************************)
EXTENDS Priorities, KernelList

CONSTANTS
  Interrupts,   \* the interrupt sources
  HwPriority,   \* their priorities in the kernel
  ThreadBase,   \* base priority of the thread
  Locks,        \* the ceiling locks
  Ceiling,      \* their ceilings
  MaxNesting,   \* depth of `with` sections of a context: a bound
  Hals,         \* the interrupt controllers, of "nvic" (stm32f4) and "plic" (e310x)
  Lockers,      \* the contexts that take locks
  AttachLocked  \* whether the thread attaches handlers while it holds locks

Main == "thread"
Contexts == Interrupts \cup {Main}
NoLock == "none"

ASSUME CeilingsAssumption ==
  /\ Main \notin Interrupts /\ NoLock \notin Locks
  /\ HwPriority \in [Interrupts -> 0 .. 15]
  /\ ThreadBase \in Bytes
  /\ Ceiling \in [Locks -> Priority]
  /\ Lockers \subseteq Contexts /\ AttachLocked \in BOOLEAN

VARIABLES
  hal,         \* the interrupt controller, one of Hals
  phase,       \* of a handler: "static", "attached" or "enabled"
  stack,       \* the thread and the active interrupts, innermost last
  word,        \* lock_priorities: the nesting and the owned lock priority
  nested,      \* the `with` sections a context is in: ceiling and saved priority
  owned,       \* the list of scoped locks of a context
  pc, taking,  \* where a context is in a lock operation, and the lock it takes
  threshold,   \* the threshold register
  claims,      \* the thresholds to restore of the claimed interrupts (plic)
  fault

vars == <<hal, phase, stack, word, nested, owned, pc, taking, threshold, claims, fault>>

\* The top of a stack, and what is below it
Last(s) == s[Len(s)]
Front(s) == SubSeq(s, 1, Len(s) - 1)

Me == Last(stack)

Base(c) == IF c = Main THEN Thread(ThreadBase) ELSE Interrupt(HwPriority[c])

\* lock_priority and priority
LockPriority(c) == LET p == ToStatusPair(word[c]) IN StatusMax(p[1], p[2])
ActivePriority(c) == StatusMax(Base(c), LockPriority(c))

\* set_ceiling_threshold
ThresholdFor(p) == IF p.kind = "Interrupt" THEN p.value ELSE 0

At(at) == fault = "none" /\ pc[Me] = at
Goto(at) == pc' = [pc EXCEPT ![Me] = at]

-----------------------------------------------------------------------------
(* Lock operations of the running context                                  *)

\* raise_nesting_lock_priority
Enter(l) ==
  /\ At("run") /\ Me \in Lockers /\ Len(nested[Me]) < MaxNesting
  /\ LET old == ToStatusPair(word[Me])
     IN /\ word' = [word EXCEPT ![Me] =
                      FromStatusPair(StatusMax(old[1], StatusMax(Ceiling[l], Base(Me))), old[2])]
        /\ nested' = [nested EXCEPT ![Me] = Append(@, [ceiling |-> Ceiling[l], saved |-> old[1]])]
  /\ Goto("entering")
  /\ UNCHANGED <<hal, phase, stack, owned, taking, threshold, claims, fault>>

\* Mutant: the nesting priority is dropped and not restored.
LeaveInvalid ==
  /\ At("run") /\ nested[Me] # <<>>
  /\ word' = [word EXCEPT ![Me] = FromStatusPair(Invalid, ToStatusPair(@)[2])]
  /\ nested' = [nested EXCEPT ![Me] = Front(@)]
  /\ Goto("leaving")
  /\ UNCHANGED <<hal, phase, stack, owned, taking, threshold, claims, fault>>

\* set_nesting_lock_priority
Leave ==
  /\ At("run") /\ nested[Me] # <<>>
  /\ word' = [word EXCEPT ![Me] = FromStatusPair(Last(nested[Me]).saved, ToStatusPair(@)[2])]
  /\ nested' = [nested EXCEPT ![Me] = Front(@)]
  /\ Goto("leaving")
  /\ UNCHANGED <<hal, phase, stack, owned, taking, threshold, claims, fault>>

\* acquire_scoped_lock and acquire_lock: the lock is linked in the list of the
\* context, which is an error of the list when it is linked in another.
Lock(l) ==
  /\ At("run") /\ Me \in Lockers
  /\ l \notin Items(owned[Me]) /\ ~Less(Ceiling[l], ActivePriority(Me))
  /\ IF \E c \in Contexts : l \in Items(owned[c])
     THEN fault' = "AlreadyInList" /\ UNCHANGED <<owned, taking, pc>>
     ELSE /\ owned' = [owned EXCEPT ![Me] =
                         InsertAfter(@, l, {k \in Locks : Less(Ceiling[l], Ceiling[k])})]
          /\ taking' = [taking EXCEPT ![Me] = l]
          /\ Goto("update")
          /\ UNCHANGED fault
  /\ UNCHANGED <<hal, phase, stack, word, nested, threshold, claims>>

\* release_scoped_lock and release_lock
Unlock(l) ==
  /\ At("run")
  /\ l \in Items(owned[Me])
  /\ owned' = [owned EXCEPT ![Me] = Unlink(@, l)]
  /\ Goto("update")
  /\ UNCHANGED <<hal, phase, stack, word, nested, taking, threshold, claims, fault>>

\* update_owned_lock_priority: the ceiling of the head of the list
OwnedPriority(s) == IF s = <<>> THEN Invalid ELSE Ceiling[Head(s)]

\* update_owned_lock_priority
UpdateOwned ==
  /\ At("update")
  /\ word' = [word EXCEPT ![Me] = FromStatusPair(ToStatusPair(@)[1], OwnedPriority(owned[Me]))]
  /\ Goto("set")
  /\ UNCHANGED <<hal, phase, stack, nested, owned, taking, threshold, claims, fault>>

\* The end of the three operations: set_ceiling_threshold
SetThreshold ==
  /\ \E at \in {"entering", "leaving", "set"} : At(at)
  /\ threshold' = ThresholdFor(LockPriority(Me))
  /\ taking' = [taking EXCEPT ![Me] = NoLock]
  /\ Goto("run")
  /\ UNCHANGED <<hal, phase, stack, word, nested, owned, claims, fault>>

-----------------------------------------------------------------------------
(* Interrupts                                                              *)

\* attach, by the thread inside an interrupt lock.  The handler's priority is raised to
\* its base and set back, and both write the threshold.
Attach(i) ==
  /\ Me = Main /\ At("run") /\ phase[i] = "static"
  /\ AttachLocked \/ (nested[Main] = <<>> /\ owned[Main] = <<>>)
  /\ phase' = [phase EXCEPT ![i] = "attached"]
  /\ threshold' = ThresholdFor(LockPriority(i))
  /\ UNCHANGED <<hal, stack, word, nested, owned, pc, taking, claims, fault>>

\* InitializedInterruptHandler::enable
Enable(i) ==
  /\ Me = Main /\ At("run") /\ phase[i] = "attached"
  /\ phase' = [phase EXCEPT ![i] = "enabled"]
  /\ UNCHANGED <<hal, stack, word, nested, owned, pc, taking, threshold, claims, fault>>

\* STM32F4: set_interrupt_priority.  The nvic keeps the upper four bits of the
\* byte it is given; a low value is a high priority.
NVIC_PRIO_MAX == 15
NvicPriority(p) == LET byte == NVIC_PRIO_MAX - p IN (byte \div 16) * 16

\* STM32F4: set_interrupt_threshold writes basepri.
Basepri(t) == (NVIC_PRIO_MAX - t) * 16

\* What the nvic lets in: an interrupt not masked by basepri (zero masks none)
\* and above the active ones
NvicLetsIn(i) ==
  /\ Basepri(threshold) = 0 \/ NvicPriority(HwPriority[i]) < Basepri(threshold)
  /\ \A k \in 2 .. Len(stack) : NvicPriority(HwPriority[i]) < NvicPriority(HwPriority[stack[k]])

\* Mutant: an interrupt at the threshold is let in.
PlicLetsInAt(i) == HwPriority[i] >= threshold

\* What the plic lets in: an interrupt above the threshold
PlicLetsIn(i) == HwPriority[i] > threshold

LetIn(i) == IF hal = "plic" THEN PlicLetsIn(i) ELSE NvicLetsIn(i)

\* Mutant: the plic's threshold is saved and not raised.
ClaimKeep(i) ==
  /\ fault = "none" /\ phase[i] = "enabled" /\ i \notin Items(stack) /\ LetIn(i)
  /\ stack' = Append(stack, i)
  /\ claims' = IF hal = "plic" THEN Append(claims, threshold) ELSE claims
  /\ UNCHANGED <<hal, phase, word, nested, owned, pc, taking, threshold, fault>>

\* claim_interrupt: the plic's saves the threshold and raises it
Claim(i) ==
  /\ fault = "none" /\ phase[i] = "enabled" /\ i \notin Items(stack) /\ LetIn(i)
  /\ stack' = Append(stack, i)
  /\ IF hal = "plic"
     THEN claims' = Append(claims, threshold) /\ threshold' = HwPriority[i]
     ELSE UNCHANGED <<claims, threshold>>
  /\ UNCHANGED <<hal, phase, word, nested, owned, pc, taking, fault>>

\* complete_interrupt: the plic's restores the threshold, with interrupts enabled
\* (restore(false) does not disable them), before it completes the claim.
RestoreThreshold ==
  /\ hal = "plic" /\ Me \in Interrupts /\ At("run") /\ nested[Me] = <<>> /\ owned[Me] = <<>>
  /\ threshold' = Last(claims)
  /\ Goto("completing")
  /\ UNCHANGED <<hal, phase, stack, word, nested, owned, taking, claims, fault>>

\* The claim is completed and the interrupted context goes on.  On the nvic nothing is
\* left to do, and _switch_context leaves the threshold alone when the thread is the same.
Complete ==
  /\ Me \in Interrupts
  /\ IF hal = "plic" THEN At("completing") /\ claims' = Front(claims)
     ELSE At("run") /\ nested[Me] = <<>> /\ owned[Me] = <<>> /\ UNCHANGED claims
  /\ stack' = Front(stack)
  /\ Goto("run")
  /\ UNCHANGED <<hal, phase, word, nested, owned, taking, threshold, fault>>

Stopped == fault # "none" /\ UNCHANGED vars

-----------------------------------------------------------------------------
Init ==
  /\ hal \in Hals
  /\ phase = [i \in Interrupts |-> "static"]
  /\ stack = <<Main>>
  /\ word = [c \in Contexts |-> FromStatusPair(IF c = Main THEN Invalid ELSE Base(c), Invalid)]
  /\ nested = [c \in Contexts |-> <<>>]
  /\ owned = [c \in Contexts |-> <<>>]
  /\ pc = [c \in Contexts |-> "run"]
  /\ taking = [c \in Contexts |-> NoLock]
  /\ threshold = (IF hal = "plic" THEN 0 ELSE NVIC_PRIO_MAX) /\ claims = <<>> /\ fault = "none"

LockOperation ==
  \/ \E l \in Locks : Enter(l) \/ Lock(l) \/ Unlock(l)
  \/ Leave \/ UpdateOwned \/ SetThreshold

Next ==
  \/ LockOperation \/ RestoreThreshold \/ Complete \/ Stopped
  \/ \E i \in Interrupts : Attach(i) \/ Enable(i) \/ Claim(i)

Spec == Init /\ [][Next]_vars

-----------------------------------------------------------------------------
(* Properties                                                              *)

\* The halves of a word: the i16 forms of the priorities
Halves == {AsU16(IntoAny(p)) : p \in PriorityStatus}

\* Type correctness: a word always holds the i16 forms of two priorities.
TypeOK ==
  /\ phase \in [Interrupts -> {"static", "attached", "enabled"}] /\ stack \in Seq(Contexts)
  /\ word \in [Contexts -> [lo : Halves, hi : Halves]]
  /\ nested \in [Contexts -> Seq([ceiling : Priority, saved : PriorityStatus])]
  /\ owned \in [Contexts -> Seq(Locks)]
  /\ pc \in [Contexts -> {"run", "entering", "leaving", "update", "set", "completing"}]
  /\ taking \in [Contexts -> Locks \cup {NoLock}]
  /\ threshold \in Bytes /\ claims \in Seq(Bytes)
  /\ fault \in {"none", "AlreadyInList"}

\* The ceilings of the locks and sections context c is in
Held(c) == {s.ceiling : s \in Items(nested[c])} \cup {Ceiling[l] : l \in Items(owned[c])}

\* The lock priority of a context is the highest ceiling of the locks it holds,
\* whatever the order they were taken and released in; a section, and the lock priority of
\* a handler, are at least the context's base priority (sync/mod.rs: the "highest priority of any locks
\* acquired at any given time", "released in an arbitrary order").
HighestCeiling ==
  \A c \in Contexts :
    pc[c] # "update" =>
      LET all == Held(c) \cup (IF c = Main /\ nested[c] = <<>> THEN {} ELSE {Base(c)})
      IN IF all = {} THEN LockPriority(c) = Invalid
         ELSE LockPriority(c) \in all /\ \A p \in all : ~Less(LockPriority(c), p)

\* The ceilings that are in force: those of the locks that have been taken
InForce(c) ==
  {nested[c][n].ceiling : n \in 1 .. (IF pc[c] = "entering" THEN Len(nested[c]) - 1
                                                            ELSE Len(nested[c]))}
  \cup {Ceiling[l] : l \in Items(owned[c]) \ {taking[c]}}

\* An interrupt handler only runs over contexts whose locks have lower ceilings.
CeilingKeptOn(h) ==
  hal = h =>
    \A k \in 2 .. Len(stack) : \A j \in 1 .. k - 1 : \A p \in InForce(stack[j]) :
      Less(p, Interrupt(HwPriority[stack[k]]))

\* The plic keeps the ceilings of the locks that are held (CeilingLock: "the lock will
\* prevent interrupts up to the ceiling priority").
CeilingKept == CeilingKeptOn("plic")

\* Interrupts nest in ascending order of priority, except over one that has restored the
\* threshold and is about to complete, whatever locks the handlers take and release
\* (scars-khal: "No interrupt below the threshold can preempt an interrupt above the
\* threshold").
NestingOrder ==
  \A j, k \in 2 .. Len(stack) :
    j < k /\ pc[stack[j]] # "completing" => HwPriority[stack[j]] < HwPriority[stack[k]]

-----------------------------------------------------------------------------
(* What comments of the code promise and the code does not keep; see the   *)
(* README for the counterexamples.                                         *)

\* The nvic keeps the ceilings of the locks that are held (CeilingLock, as above; the
\* priorities are not shifted into the bits the nvic implements, set_interrupt_priority).
NvicCeilingKept == CeilingKeptOn("nvic")

\* Interrupts nest in ascending order of priority (as above), over all of their steps.
NestingOrderAlways ==
  \A j, k \in 2 .. Len(stack) : j < k => HwPriority[stack[j]] < HwPriority[stack[k]]

\* A lock that is taken is not linked in the list of another context
\* (RawInterruptHandler::acquire_lock: "the lock is free").
LockIsFree == fault # "AlreadyInList"
=============================================================================
