------------------------------ MODULE Handlers ------------------------------
(***************************************************************************)
(* Interrupt handlers and what they share: how a handler is built,         *)
(* attached and enabled, how it is dispatched inside interrupt_context,    *)
(* the interrupt lock with the cells that it protects, and local storage.  *)
(*                                                                         *)
(* One thread runs, with interrupts nested over it.  The contexts are a    *)
(* stack of frames, one for the thread, one for each interrupt and one for *)
(* each call of interrupt_context that is not made for an interrupt.  An   *)
(* interrupt comes between any two steps if interrupts are enabled.  The   *)
(* executors have no tasks, so a poll only looks the executor up; what the *)
(* end of interrupt_context asks of the scheduler is in module Scheduler.  *)
(***************************************************************************)
EXTENDS Integers, PendingQueue, FiniteSets

CONSTANTS
  Handlers,      \* the interrupt handlers
  Number,        \* the interrupt number of a handler
  HwPriority,    \* the priority of an interrupt number
  StorageSize,   \* entries of a local storage
  Objects,       \* the scoped interrupt locks
  Programs,      \* what the thread and the closures do: sets of Operations
  MaxSections,   \* locks and `with` sections of a context: a bound
  MaxGuards,     \* guards of the cell that a context keeps: a bound
  MaxUpdates     \* updates of the cell: a bound

Numbers == {Number[h] : h \in Handlers}
Null == "null"
With == "with"
Executor == "executor"
Operations == {"lock", "cell", "borrow", "storage", "request"}

ASSUME HandlersAssumption ==
  /\ Null \notin Handlers /\ With \notin Objects /\ Programs \subseteq SUBSET Operations
  /\ HwPriority \in [Numbers -> Nat] /\ StorageSize \in Nat \ {0}
  /\ MaxSections \in Nat /\ MaxGuards \in Nat /\ MaxUpdates \in Nat

VARIABLES
  program,   \* what the thread and the closures do, fixed at the start
  frames,    \* the contexts, innermost last
  current,   \* CURRENT_INTERRUPT_CONTROL_BLOCK
  enabled,   \* interrupts are enabled
  nesting,   \* INTERRUPT_LOCK_NESTING
  owned,     \* the scoped locks whose `owned` flag is set
  cell,      \* the number in a LockedCell or in a LockedRefCell
  updates,   \* history: the updates of the cell that are complete
  flag,      \* the borrow flag of a LockedRefCell
  phase,     \* how far a handler is: "static", "builder", "attached", "enabled"
  storage,   \* the local storages: NoStorage or a sequence of entries
  vector,    \* INTERRUPT_VECTORS
  armed,     \* the interrupts that are enabled in the controller
  polls,     \* PENDING_INTERRUPT_EXECUTOR_POLLS
  fault

lockVars == <<enabled, nesting, owned>>
cellVars == <<cell, updates, flag>>
handlerVars == <<phase, storage, vector, armed>>
vars == <<program, frames, current, lockVars, cellVars, handlerVars, polls, fault>>

\* A frame: icb is the handler it runs, num the number of the interrupt, prev the handler
\* to restore, withs the number of `with` closures it is in, locks the scoped locks it
\* holds, guards those of the ref cell, reg a local.
Frame(kind, h, at) ==
  [kind |-> kind, icb |-> h, num |-> 0, prev |-> Null, pc |-> at,
   withs |-> 0, locks |-> <<>>, guards |-> <<>>, reg |-> 0]

\* The sections of the interrupt lock that a context is in
Sections(f) == f.withs + Len(f.locks)

\* The innermost context, which runs
Depth == Len(frames)
Me == frames[Depth]
At(at) == fault = "none" /\ Me.pc = at
Goto(at) == frames' = [frames EXCEPT ![Depth].pc = at]

\* The closure of a handler, or the thread, between two calls
Body == At("run")
Doing(operation) == Body /\ operation \in program

-----------------------------------------------------------------------------
(* InterruptLock                                                           *)

\* with and acquire_scoped_lock: acquire
Acquire(s) ==
  /\ Doing("lock") /\ Sections(Me) < MaxSections
  /\ enabled' = FALSE
  /\ frames' = [frames EXCEPT ![Depth].reg = s, ![Depth].pc = "count"]
  /\ UNCHANGED <<current, nesting, owned, cellVars, handlerVars, polls, fault>>

\* fetch_add; a `with` section calls its closure.
Count ==
  /\ At("count")
  /\ nesting' = nesting + 1
  /\ IF Me.reg = With
     THEN frames' = [frames EXCEPT ![Depth].withs = @ + 1, ![Depth].reg = 0, ![Depth].pc = "run"]
     ELSE Goto("own")
  /\ UNCHANGED <<current, enabled, owned, cellVars, handlerVars, polls, fault>>

\* A scoped lock cannot be acquired recursively.
Own ==
  /\ At("own")
  /\ IF Me.reg \in owned
     THEN fault' = "RecursiveLock" /\ UNCHANGED <<frames, owned>>
     ELSE /\ owned' = owned \cup {Me.reg}
          /\ frames' = [frames EXCEPT ![Depth].locks = Append(@, Me.reg), ![Depth].reg = 0, ![Depth].pc = "run"]
          /\ UNCHANGED fault
  /\ UNCHANGED <<current, enabled, nesting, cellVars, handlerVars, polls>>

Without(s, n) == SubSeq(s, 1, n - 1) \o SubSeq(s, n + 1, Len(s))

\* The closure of the innermost `with` section returns; no guard outlives its key.
Leave ==
  /\ Body /\ Me.withs > 0 /\ \A g \in DOMAIN Me.guards : Me.guards[g].key < Me.withs
  /\ frames' = [frames EXCEPT ![Depth].withs = @ - 1, ![Depth].pc = "uncount"]
  /\ UNCHANGED <<current, lockVars, cellVars, handlerVars, polls, fault>>

\* release_scoped_lock, at the drop of the guard
Unlock(o) ==
  /\ Body
  /\ \E n \in DOMAIN Me.locks :
       /\ Me.locks[n] = o
       /\ owned' = owned \ {o}
       /\ frames' = [frames EXCEPT ![Depth].locks = Without(@, n),
                                   ![Depth].pc = IF o \in owned THEN "uncount" ELSE "run"]
  /\ UNCHANGED <<current, enabled, nesting, cellVars, handlerVars, polls, fault>>

\* Mutant: interrupts are enabled at the end of every section.
UncountEach ==
  /\ At("uncount")
  /\ nesting' = nesting - 1
  /\ Goto("restore")
  /\ UNCHANGED <<current, enabled, owned, cellVars, handlerVars, polls, fault>>

\* Mutant: the count that fetch_sub returns is taken for the new one.
UncountNew ==
  /\ At("uncount")
  /\ nesting' = nesting - 1
  /\ Goto(IF nesting = 2 THEN "restore" ELSE "run")
  /\ UNCHANGED <<current, enabled, owned, cellVars, handlerVars, polls, fault>>

\* fetch_sub: the end of the last section enables interrupts.
Uncount ==
  /\ At("uncount")
  /\ nesting' = nesting - 1
  /\ Goto(IF nesting = 1 THEN "restore" ELSE "run")
  /\ UNCHANGED <<current, enabled, owned, cellVars, handlerVars, polls, fault>>

\* restore(true)
Restore ==
  /\ At("restore")
  /\ enabled' = TRUE
  /\ Goto("run")
  /\ UNCHANGED <<current, nesting, owned, cellVars, handlerVars, polls, fault>>

\* A whole `with` section in which nothing else happens, as the others see it
WithAtOnce == enabled' = (nesting = 0 \/ enabled) /\ UNCHANGED <<nesting, owned>>

-----------------------------------------------------------------------------
(* Cells, with the key of a `with` section                                 *)

\* LockedCell::update: get, and then set
UpdateGet ==
  /\ Doing("cell") /\ Me.withs > 0 /\ updates < MaxUpdates
  /\ frames' = [frames EXCEPT ![Depth].reg = cell, ![Depth].pc = "set"]
  /\ UNCHANGED <<current, lockVars, cellVars, handlerVars, polls, fault>>

UpdateSet ==
  /\ At("set")
  /\ cell' = Me.reg + 1
  /\ updates' = updates + 1
  /\ frames' = [frames EXCEPT ![Depth].reg = 0, ![Depth].pc = "run"]
  /\ UNCHANGED <<current, lockVars, flag, handlerVars, polls, fault>>

CanBorrow == Doing("borrow") /\ Me.withs > 0 /\ Len(Me.guards) < MaxGuards

\* BorrowRef::new_mutable and new_immutable: a guard is made if the flag is free for it.
Guard(kind, free, new) ==
  /\ IF free
     THEN /\ flag' = new
          /\ frames' = [frames EXCEPT ![Depth].guards = Append(@, [kind |-> kind, key |-> Me.withs])]
          /\ UNCHANGED fault
     ELSE fault' = "borrowed" /\ UNCHANGED <<frames, flag>>
  /\ UNCHANGED <<current, lockVars, cell, updates, handlerVars, polls>>

NewMutable == Guard("mut", flag = 0, -1)
NewImmutable == Guard("shared", flag >= 0, flag + 1)

\* borrow, and the clone of a Ref; try_borrow returns an error instead of a panic.
BorrowShared == CanBorrow /\ NewImmutable
TryBorrow == CanBorrow /\ flag >= 0 /\ NewImmutable

\* borrow_mut and try_borrow_mut
BorrowMut == CanBorrow /\ NewMutable
TryBorrowMut == CanBorrow /\ flag = 0 /\ NewMutable

\* The clone of a Ref that the context keeps
CloneRef ==
  /\ CanBorrow /\ \E g \in DOMAIN Me.guards : Me.guards[g].kind = "shared"
  /\ NewImmutable

\* replace, replace_with and take: the cell is borrowed, and then written.
Replace ==
  /\ Doing("borrow") /\ Me.withs > 0 /\ updates < MaxUpdates
  /\ IF flag = 0
     THEN /\ flag' = -1
          /\ frames' = [frames EXCEPT ![Depth].reg = cell, ![Depth].pc = "replace",
                ![Depth].guards = Append(@, [kind |-> "mut", key |-> Me.withs])]
          /\ UNCHANGED fault
     ELSE fault' = "borrowed" /\ UNCHANGED <<frames, flag>>
  /\ UNCHANGED <<current, lockVars, cell, updates, handlerVars, polls>>

ReplaceSet ==
  /\ At("replace")
  /\ cell' = Me.reg + 1 /\ updates' = updates + 1 /\ flag' = 0
  /\ frames' = [frames EXCEPT ![Depth].reg = 0, ![Depth].pc = "run", ![Depth].guards = <<>>]
  /\ UNCHANGED <<current, lockVars, handlerVars, polls, fault>>

\* Mutant: the drop of a mutable guard counts down as well.
DropCount ==
  /\ Body
  /\ \E g \in DOMAIN Me.guards :
       frames' = [frames EXCEPT ![Depth].guards = Without(@, g)]
  /\ flag' = flag - 1
  /\ UNCHANGED <<current, lockVars, cell, updates, handlerVars, polls, fault>>

\* BorrowRef::drop
Drop ==
  /\ Body
  /\ \E g \in DOMAIN Me.guards :
       frames' = [frames EXCEPT ![Depth].guards = Without(@, g)]
  /\ IF flag = 0 THEN fault' = "unreachable" /\ UNCHANGED flag
     ELSE flag' = (IF flag < 0 THEN 0 ELSE flag - 1) /\ UNCHANGED fault
  /\ UNCHANGED <<current, lockVars, cell, updates, handlerVars, polls>>

-----------------------------------------------------------------------------
(* Local storage                                                           *)

Thread == "thread"
NoKey == "none"
NoStorage == <<>>
EmptyStorage == [i \in 1 .. StorageSize |-> [key |-> NoKey, value |-> Null]]

\* Once::is_completed of the OnceLock that keeps a local storage
IsSet(c) == storage[c] # NoStorage

\* current_execution_context
Mine == IF current = Null THEN Thread ELSE current

\* find_entry: the first entry with a key
Entries(c, k) == {i \in DOMAIN storage[c] : storage[c][i].key = k}
FirstOf(S) == CHOOSE i \in S : \A j \in S : i <= j

\* put_by_type_id: the key of a free entry is set, and then the value.
PutKey(c, k) ==
  IF Entries(c, NoKey) = {}
  THEN fault' = "storage" /\ UNCHANGED <<storage, frames>>
  ELSE LET i == FirstOf(Entries(c, NoKey))
       IN /\ storage' = [storage EXCEPT ![c][i].key = k]
          /\ frames' = [frames EXCEPT ![Depth].reg = <<c, i>>, ![Depth].pc = "put"]
          /\ UNCHANGED fault

\* put, put_with, put_init and put_init_with, in the storage of the context
Put ==
  /\ Doing("storage")
  /\ PutKey(Mine, "data")
  /\ UNCHANGED <<current, lockVars, cellVars, phase, vector, armed, polls>>

PutValue ==
  /\ At("put")
  /\ storage' = [storage EXCEPT ![Me.reg[1]][Me.reg[2]].value = Me.reg[1]]
  /\ frames' = [frames EXCEPT ![Depth].reg = 0, ![Depth].pc = "run"]
  /\ UNCHANGED <<current, lockVars, cellVars, phase, vector, armed, polls, fault>>

\* remove
Remove ==
  /\ Doing("storage") /\ Entries(Mine, "data") # {}
  /\ storage' = [storage EXCEPT ![Mine][FirstOf(Entries(Mine, "data"))] =
                   [key |-> NoKey, value |-> Null]]
  /\ UNCHANGED <<frames, current, lockVars, cellVars, phase, vector, armed, polls, fault>>

\* get and raw_get: the value that is found, if any
Found(c, k) ==
  IF Entries(c, k) = {} THEN {} ELSE {storage[c][FirstOf(Entries(c, k))].value}

-----------------------------------------------------------------------------
(* The life of a handler                                                   *)

\* InterruptHandler::init
Build(h) ==
  /\ Body /\ Me.kind = "thread" /\ phase[h] = "static"
  /\ phase' = [phase EXCEPT ![h] = "builder"]
  /\ UNCHANGED <<frames, current, lockVars, cellVars, storage, vector, armed, polls, fault>>

\* set_local_storage of the builder and of the initialized handler: OnceLock::set
SetStorage(h) ==
  /\ Body /\ Me.kind = "thread" /\ phase[h] \in {"builder", "attached"}
  /\ IF IsSet(h) THEN fault' = "storage already set" /\ UNCHANGED storage
                 ELSE storage' = [storage EXCEPT ![h] = EmptyStorage] /\ UNCHANGED fault
  /\ WithAtOnce
  /\ UNCHANGED <<frames, current, cellVars, phase, vector, armed, polls>>

\* Mutant: the executor can still be started once the interrupt is enabled.
StartExecutorLate(h) ==
  /\ Body /\ Me.kind = "thread" /\ phase[h] \in {"builder", "attached", "enabled"}
  /\ PutKey(h, Executor)
  /\ UNCHANGED <<current, lockVars, cellVars, phase, vector, armed, polls>>

\* start_executor
StartExecutor(h) ==
  /\ Body /\ Me.kind = "thread" /\ phase[h] \in {"builder", "attached"}
  /\ PutKey(h, Executor)
  /\ UNCHANGED <<current, lockVars, cellVars, phase, vector, armed, polls>>

\* attach, inside a `with` section: the vector is set, and the executor is polled in
\* the context of the handler.
Attach(h) ==
  /\ Body /\ Me.kind = "thread" /\ phase[h] = "builder"
  /\ phase' = [phase EXCEPT ![h] = "attached"]
  /\ vector' = [vector EXCEPT ![Number[h]] = h]
  /\ enabled' = FALSE /\ nesting' = nesting + 1
  /\ frames' = Append([frames EXCEPT ![Depth].pc = "uncount"], Frame("attach", h, "switch"))
  /\ UNCHANGED <<current, owned, cellVars, storage, armed, polls, fault>>

\* enable, inside a `with` section
Enable(h) ==
  /\ Body /\ Me.kind = "thread" /\ phase[h] = "attached"
  /\ phase' = [phase EXCEPT ![h] = "enabled"]
  /\ armed' = armed \cup {Number[h]}
  /\ WithAtOnce
  /\ UNCHANGED <<frames, current, cellVars, storage, vector, polls, fault>>

\* set_pending_executor_poll
Request(h) ==
  /\ Doing("request") /\ phase[h] = "enabled"
  /\ IF PushFails(polls, h) THEN UNCHANGED <<polls, fault>>
     ELSE IF Spins(polls) THEN fault' = "spin" /\ UNCHANGED polls
     ELSE polls' = Push(polls, h) /\ UNCHANGED fault
  /\ UNCHANGED <<frames, current, lockVars, cellVars, handlerVars>>

-----------------------------------------------------------------------------
(* Dispatch                                                                *)

\* The controller lets an interrupt in that is enabled and above the active ones.
Interrupt(n) ==
  /\ fault = "none" /\ enabled /\ n \in armed
  /\ \A k \in DOMAIN frames :
       frames[k].kind \in {"isr", "poll"} => HwPriority[frames[k].num] < HwPriority[n]
  /\ frames' = Append(frames, [Frame("isr", Null, "vector") EXCEPT !.num = n])
  /\ UNCHANGED <<current, lockVars, cellVars, handlerVars, polls, fault>>

\* _private_kernel_interrupt_handler: the handler of the vector
Vector ==
  /\ At("vector")
  /\ frames' = [frames EXCEPT ![Depth].icb = vector[Me.num], ![Depth].pc = "switch"]
  /\ UNCHANGED <<current, lockVars, cellVars, handlerVars, polls, fault>>

\* interrupt_context: switch_current_interrupt
Switch ==
  /\ At("switch")
  /\ current' = Me.icb
  /\ frames' = [frames EXCEPT ![Depth].prev = current,
                              ![Depth].pc = IF Me.kind = "isr" THEN "run" ELSE "poll"]
  /\ UNCHANGED <<lockVars, cellVars, handlerVars, polls, fault>>

\* The closure of the handler returns to closure_wrapper.
EndClosure ==
  /\ Body /\ Me.kind = "isr" /\ Sections(Me) = 0
  /\ Goto("poll")
  /\ UNCHANGED <<current, lockVars, cellVars, handlerVars, polls, fault>>

\* The executor is looked up and polled: by the handler in closure_wrapper, in the local
\* storage of the context in attach and poll_executor.
Poll ==
  /\ At("poll")
  /\ IF Null \in Found(IF Me.kind = "isr" THEN Me.icb ELSE Mine, Executor)
     THEN fault' = "null" /\ UNCHANGED frames
     ELSE Goto(IF Me.prev = Null THEN "drain" ELSE "leave") /\ UNCHANGED fault
  /\ UNCHANGED <<current, lockVars, cellVars, handlerVars, polls>>

\* The outermost interrupt polls the executors that are pending: poll_executor.
Drain ==
  /\ At("drain")
  /\ IF Spins(polls) THEN fault' = "spin" /\ UNCHANGED <<frames, polls>>
     ELSE /\ IF polls.items = <<>> THEN Goto("again") /\ UNCHANGED polls
             ELSE /\ polls' = Pop(polls)
                  /\ LET h == Head(polls.items)
                     IN frames' = Append(frames, [Frame("poll", h, "switch") EXCEPT !.num = Number[h]])
          /\ UNCHANGED fault
  /\ UNCHANGED <<current, lockVars, cellVars, handlerVars>>

\* After execute_pending_reschedule
Again ==
  /\ At("again")
  /\ Goto(IF IsEmpty(polls) THEN "leave" ELSE "drain")
  /\ UNCHANGED <<current, lockVars, cellVars, handlerVars, polls, fault>>

\* Mutant: the end of any interrupt means that there is none.
LeaveContextNone ==
  /\ At("leave")
  /\ current' = Null
  /\ Goto("complete")
  /\ UNCHANGED <<lockVars, cellVars, handlerVars, polls, fault>>

\* restore_current_interrupt
LeaveContext ==
  /\ At("leave")
  /\ current' = Me.prev
  /\ Goto("complete")
  /\ UNCHANGED <<lockVars, cellVars, handlerVars, polls, fault>>

\* The return of interrupt_context, for an interrupt after complete_interrupt
Complete ==
  /\ At("complete")
  /\ frames' = SubSeq(frames, 1, Depth - 1)
  /\ UNCHANGED <<current, lockVars, cellVars, handlerVars, polls, fault>>

-----------------------------------------------------------------------------
Init ==
  /\ program \in Programs
  /\ frames = <<Frame("thread", Null, "run")>>
  /\ current = Null
  /\ enabled = TRUE /\ nesting = 0 /\ owned = {}
  /\ cell = 0 /\ updates = 0 /\ flag = 0
  /\ phase = [h \in Handlers |-> "static"]
  /\ storage = [c \in Handlers \cup {Thread} |-> IF c = Thread THEN EmptyStorage ELSE NoStorage]
  /\ vector = [n \in Numbers |-> Null]
  /\ armed = {}
  /\ polls = EmptyQueue /\ fault = "none"

LockStep ==
  \/ \E s \in Objects \cup {With} : Acquire(s)
  \/ Count \/ Own \/ Leave \/ (\E o \in Objects : Unlock(o)) \/ Uncount \/ Restore

CellStep == UpdateGet \/ UpdateSet \/ BorrowShared \/ TryBorrow \/ BorrowMut \/ TryBorrowMut
              \/ CloneRef \/ Replace \/ ReplaceSet \/ Drop
StorageStep == Put \/ PutValue \/ Remove

HandlerStep ==
  \E h \in Handlers :
    Build(h) \/ SetStorage(h) \/ StartExecutor(h) \/ Attach(h) \/ Enable(h) \/ Request(h)

Dispatch == Vector \/ Switch \/ EndClosure \/ Poll \/ Drain \/ Again \/ LeaveContext \/ Complete

Next ==
  /\ \/ LockStep \/ CellStep \/ StorageStep \/ HandlerStep \/ Dispatch
     \/ \E n \in Numbers : Interrupt(n)
  /\ UNCHANGED program

Spec == Init /\ [][Next]_vars

-----------------------------------------------------------------------------
(* Properties                                                              *)

\* The sections of the interrupt lock exclude interrupts.  A context that an interrupt comes
\* over is in no section and keeps no guard; between two calls of a context the count is
\* the number of its sections, and interrupts are enabled exactly when it is zero, in
\* whatever order scoped guards and `with` closures end (interrupt_lock.rs).
SectionsExclude ==
  /\ \A k \in 1 .. Depth - 1 :
       frames[k + 1].kind = "isr" => Sections(frames[k]) = 0 /\ frames[k].guards = <<>>
  /\ Body => nesting = Sections(Me) /\ enabled = (nesting = 0)

\* No update is lost: the number in the cell counts the calls of LockedCell::update and
\* LockedRefCell::replace_with by the thread and by the nested handlers (locked_cell.rs).
NoLostUpdate == cell = updates

Guards == UNION {{<<k, g>> : g \in DOMAIN frames[k].guards} : k \in DOMAIN frames}

\* The borrow flag tells which guards exist, in all contexts: -1 for one mutable guard that
\* is alone, or the number of shared ones (refcell.rs, BorrowRef).
BorrowsExact ==
  LET mutable == {p \in Guards : frames[p[1]].guards[p[2]].kind = "mut"}
  IN /\ mutable # {} => Cardinality(Guards) = 1
     /\ flag = IF mutable = {} THEN Cardinality(Guards) ELSE -1

\* The interrupt_context calls that have switched and not yet restored
Active == {k \in DOMAIN frames : frames[k].kind # "thread"
             /\ frames[k].pc \notin {"vector", "switch", "complete"}}

\* Interrupt contexts nest.  The current handler is the one of the innermost context, also
\* when interrupts come between the steps of another's entry and exit, and only the outermost
\* context polls the pending executors (interrupt.rs, interrupt_context).
ContextsNest ==
  /\ current = IF Active = {} THEN Null
               ELSE frames[CHOOSE k \in Active : \A j \in Active : j <= k].icb
  /\ \A k \in Active : frames[k].pc \in {"drain", "again"} => \A j \in Active : k <= j

\* An executor that is found in a local storage is initialized: no interrupt looks between
\* the two writes of put_by_type_id (tls.rs:43; start_executor and enable of interrupt.rs).
ReadsInitialised == fault # "null"
=============================================================================
