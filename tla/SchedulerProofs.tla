-------------------------- MODULE SchedulerProofs ---------------------------
(***************************************************************************)
(* Type correctness, the agreement and the order of the scheduler's lists, *)
(* and who holds the preemption lock, for every set of threads, devices    *)
(* and locks and all priorities: the moves of a context and the lock, the  *)
(* last steps of the contexts, the types of the other variables, the       *)
(* inductive invariant, and the steps of the preemption lock.              *)
(***************************************************************************)
EXTENDS SchedulerLists

\* More time for the provers than they have by default
USE SMTT(30), ZenonT(30)

-----------------------------------------------------------------------------
(* The preemption lock                                                     *)

\* The context is inside a critical section of the kernel.
InSection(c) ==
  c.pc \in {"locked", "wake", "pick", "complete_resume", "complete_sleep", "store"}

\* A thread that holds the preemption lock is the current one; an interrupt context
\* holds it exactly while it is inside a critical section, the outermost of its kind.
PreemptOK ==
  /\ preemptLock \in AllThreads => preemptLock = current
  /\ preemptLock \in Icbs =>
       \E k \in 1 .. Len(frames) : frames[k].icb = preemptLock /\ InSection(frames[k])
  /\ \A k \in 1 .. Len(frames) :
       InSection(frames[k]) => frames[k].icb = preemptLock /\ frames[k].outer

\* A step that moves no context keeps both.
LEMMA FramesStay ==
  ASSUME NoReentry, PreemptOK, UNCHANGED <<frames, current, preemptLock>>
  PROVE  NoReentry' /\ PreemptOK'
BY ZenonT(30) DEF NoReentry, PreemptOK

\* So does a step of the running context that stays inside its critical section or
\* outside of it.  It may switch threads if it is inside.
LEMMA ContextMoves ==
  ASSUME ContextTypes, NoReentry, PreemptOK, NEW c, Goto(c), preemptLock' = preemptLock,
         InIsr => /\ c.icb = Ctx.icb /\ (InSection(c) <=> InSection(Ctx))
                  /\ (InSection(c) => c.outer) /\ Ctx.icb \in Icbs,
         current' = current \/ (InIsr /\ InSection(Ctx))
  PROVE  NoReentry' /\ PreemptOK'
<1>1. CASE ~InIsr
  BY <1>1, FramesStay DEF Goto
<1>2. CASE InIsr
  <2> DEFINE n == Len(frames)
  <2>1. frames' = [frames EXCEPT ![n] = c]
    BY <1>2 DEF Goto
  <2>2. n \in 1 .. n /\ n \in Nat /\ Ctx = frames[n]
    BY <1>2 DEF InIsr, ContextTypes, Ctx, Top
  <2>3. Len(frames') = n /\ \A k \in 1 .. n : frames'[k] = IF k = n THEN c ELSE frames[k]
    BY <2>1, <2>2 DEF ContextTypes
  <2>4. \A k \in 1 .. n : /\ frames'[k].icb = frames[k].icb
                          /\ InSection(frames'[k]) <=> InSection(frames[k])
    BY <1>2, <2>2, <2>3
  <2>5. \A k \in 1 .. n : InSection(frames'[k]) => frames'[k].outer
    BY <1>2, <2>2, <2>3, ZenonT(30) DEF PreemptOK
  <2>6. current' = current \/ preemptLock \notin AllThreads
    <3>1. InSection(Ctx) => preemptLock = Ctx.icb
      BY <2>2, ZenonT(30) DEF PreemptOK
    <3> QED BY <1>2, <3>1, AddressAssumption
  <2>7. \A j \in 1 .. n : j # n => frames'[j] = frames[j]
    BY <2>3
  <2>8. NoReentry'
    <3> SUFFICES ASSUME NEW j \in 1 .. n, NEW k \in 1 .. n, j < k, frames'[j].icb = frames'[k].icb
                 PROVE  frames'[j].pc = "polls"
      BY <2>3, ZenonT(30) DEF NoReentry
    <3>1. j # n
      BY <2>2
    <3>2. frames[j].icb = frames[k].icb
      BY <2>4
    <3>3. frames[j].pc = "polls"
      BY <3>2, ZenonT(30) DEF NoReentry
    <3> QED BY <2>7, <3>1, <3>3
  <2> HIDE DEF n
  <2>9. preemptLock \in Icbs =>
          \E k \in 1 .. n : frames'[k].icb = preemptLock /\ InSection(frames'[k])
    BY <2>4, ZenonT(30) DEF PreemptOK, n
  <2>10. \A k \in 1 .. n : InSection(frames'[k]) => frames'[k].icb = preemptLock
    BY <2>4, ZenonT(30) DEF PreemptOK, n
  <2> QED BY <2>3, <2>5, <2>6, <2>8, <2>9, <2>10, ZenonT(30) DEF PreemptOK
<1> QED BY <1>1, <1>2

\* The same for a step to a place outside of any critical section
LEMMA ContextLeaves ==
  ASSUME ContextTypes, NoReentry, PreemptOK, NEW c, Goto(c), UNCHANGED <<preemptLock, current>>,
         InIsr => c.icb = Ctx.icb /\ Ctx.icb \in Icbs /\ ~InSection(c) /\ ~InSection(Ctx)
  PROVE  NoReentry' /\ PreemptOK'
BY ContextMoves

\* A new context is outside of any critical section.  It is of another interrupt than
\* those it comes over, unless the outermost of them runs the pending polls.
LEMMA ContextEnters ==
  ASSUME ContextTypes, NoReentry, PreemptOK, NEW c, frames' = Append(frames, c),
         UNCHANGED <<preemptLock, current>>, c.icb \in Icbs, ~InSection(c),
         \/ \A k \in 1 .. Len(frames) : frames[k].icb # c.icb
         \/ Len(frames) = 1 /\ frames[1].pc = "polls"
  PROVE  NoReentry' /\ PreemptOK'
<1> DEFINE n == Len(frames)
<1>1. n \in Nat /\ Len(frames') = n + 1 /\ n + 1 \in 1 .. n + 1
  BY DEF ContextTypes
<1>2. /\ \A k \in 1 .. n : k \in 1 .. n + 1 /\ frames'[k] = frames[k]
      /\ frames'[n + 1] = c
  BY DEF ContextTypes
<1>3. \A k \in 1 .. n + 1 : k \in 1 .. n \/ k = n + 1
  BY <1>1
<1>4. NoReentry'
  <2> SUFFICES ASSUME NEW j \in 1 .. n + 1, NEW k \in 1 .. n + 1, j < k,
                      frames'[j].icb = frames'[k].icb
               PROVE  frames'[j].pc = "polls"
    BY <1>1, ZenonT(30) DEF NoReentry
  <2>1. j \in 1 .. n
    BY <1>1
  <2>2. CASE k \in 1 .. n
    <3>1. frames[j].icb = frames[k].icb
      BY <1>2, <2>1, <2>2
    <3>2. frames[j].pc = "polls"
      BY <2>1, <2>2, <3>1, ZenonT(30) DEF NoReentry
    <3> QED BY <1>2, <2>1, <3>2
  <2>3. CASE k = n + 1
    <3>1. frames[j].icb = c.icb
      BY <1>2, <2>1, <2>3
    <3>2. n = 1 /\ frames[1].pc = "polls"
      BY <2>1, <3>1
    <3> QED BY <1>2, <2>1, <3>2
  <2> QED BY <1>3, <2>2, <2>3
<1> HIDE DEF n
<1>5. preemptLock \in Icbs =>
        \E k \in 1 .. n + 1 : frames'[k].icb = preemptLock /\ InSection(frames'[k])
  BY <1>2, ZenonT(30) DEF PreemptOK, n
<1>6. \A k \in 1 .. n + 1 : InSection(frames'[k]) => frames'[k].icb = preemptLock /\ frames'[k].outer
  BY <1>2, <1>3, ZenonT(30) DEF PreemptOK, n
<1> QED BY <1>1, <1>4, <1>5, <1>6, ZenonT(30) DEF PreemptOK

\* A context that returns was outside of any critical section.
LEMMA ContextExits ==
  ASSUME ContextTypes, NoReentry, PreemptOK, InIsr, ~InSection(Ctx),
         frames' = Popped(frames) \/ (Len(frames) = 1 /\ frames' = <<>>),
         UNCHANGED <<preemptLock, current>>
  PROVE  NoReentry' /\ PreemptOK'
<1> DEFINE n == Len(frames)
           m == Len(frames')
<1>1. n \in Nat /\ n \in 1 .. n /\ Ctx = frames[n]
  BY DEF InIsr, ContextTypes, Ctx, Top
<1>2. m = n - 1 /\ \A k \in 1 .. m : frames'[k] = frames[k]
  <2>0. frames \in Seq(FrameContexts) /\ n >= 1
    BY <1>1 DEF ContextTypes
  <2>1. CASE frames' = Popped(frames)
    BY <2>0, <2>1, PoppedElements
  <2>2. CASE n = 1 /\ frames' = <<>>
    BY <2>2
  <2> QED BY <2>1, <2>2
<1>3. \A k \in 1 .. n : k # n => k \in 1 .. m
  BY <1>1, <1>2
<1>4. \A k \in 1 .. m : k \in 1 .. n
  BY <1>1, <1>2
<1> HIDE DEF n, m
<1>5. NoReentry'
  BY <1>2, <1>4, ZenonT(30) DEF NoReentry, n, m
<1>6. preemptLock \in Icbs => \E k \in 1 .. m : frames'[k].icb = preemptLock /\ InSection(frames'[k])
  <2> SUFFICES ASSUME preemptLock \in Icbs
               PROVE  \E k \in 1 .. m : frames'[k].icb = preemptLock /\ InSection(frames'[k])
    OBVIOUS
  <2>1. PICK k \in 1 .. n : frames[k].icb = preemptLock /\ InSection(frames[k])
    BY ZenonT(30) DEF PreemptOK, n
  <2>2. k # n
    BY <1>1, <2>1
  <2> QED BY <1>2, <1>3, <2>1, <2>2
<1>7. \A k \in 1 .. m : InSection(frames'[k]) => frames'[k].icb = preemptLock /\ frames'[k].outer
  BY <1>2, <1>4, ZenonT(30) DEF PreemptOK, n
<1> QED BY <1>5, <1>6, <1>7, ZenonT(30) DEF PreemptOK, m

\* The entry to a system call
LEMMA SyscallEnters ==
  ASSUME ContextTypes, NoReentry, PreemptOK, ~InIsr, NEW c, frames' = <<c>>,
         UNCHANGED <<preemptLock, current>>, c.icb \in Icbs, ~InSection(c)
  PROVE  NoReentry' /\ PreemptOK'
<1>1. frames = <<>> /\ frames' = Append(frames, c) /\ Len(frames) = 0
  BY DEF InIsr
<1> QED BY <1>1, ContextEnters

\* A context takes the lock.  An interrupt context finds it free: where it is held by its
\* own interrupt, that would be by a context it has come over, inside a critical section.
LEMMA AcquireLock ==
  ASSUME ListTypes, ContextTypes, ContextsOK, OtherTypes, NoReentry, PreemptOK, Acquire
  PROVE  /\ NoReentry' /\ PreemptOK'
         /\ preemptLock # Null => preemptLock' = preemptLock
<1>1. /\ preemptLock' = Me /\ Ctx.pc = "acquire" /\ current' = current
      /\ InIsr => preemptLock \in {Null, Me}
      /\ Goto([Ctx EXCEPT !.pc = "locked", !.outer = preemptLock = Null])
  BY ZenonT(30) DEF Acquire, At, queueVars
<1>2. /\ current \in AllThreads
      /\ InIsr => Ctx \in FrameContexts
  BY CtxOf
<1>3. CASE ~InIsr
  <2>1. Me = current /\ frames' = frames /\ frames = <<>>
    BY <1>1, <1>3 DEF Me, Goto, InIsr
  <2>2. preemptLock \notin Icbs
    BY <2>1 DEF PreemptOK
  <2>3. preemptLock \in {Null, current}
    BY <2>2 DEF PreemptOK, OtherTypes
  <2>4. preemptLock' \notin Icbs
    BY <1>1, <1>2, <2>1, AddressAssumption
  <2> QED BY <1>1, <2>1, <2>3, <2>4 DEF NoReentry, PreemptOK
<1>4. CASE InIsr
  <2> DEFINE n == Len(frames)
             c == [Ctx EXCEPT !.pc = "locked", !.outer = preemptLock = Null]
  <2>1. n \in Nat /\ n \in 1 .. n /\ Ctx = frames[n] /\ Me = Ctx.icb /\ Ctx.icb \in Icbs
    <3>1. Ctx.icb \in Icbs
      BY <1>2, <1>4 DEF FrameContexts
    <3> QED BY <1>4, <3>1 DEF InIsr, ContextTypes, Ctx, Top, Me
  <2>2. ~InSection(frames[n])
    BY <1>1, <2>1 DEF InSection
  <2>3. ASSUME NEW k \in 1 .. n, InSection(frames[k]) PROVE FALSE
    <3>1. frames[k].icb = preemptLock /\ k # n
      BY <2>2, <2>3, ZenonT(30) DEF PreemptOK
    <3>2. frames[k].icb \in Icbs
      <4>1. frames[k] \in FrameContexts
        BY DEF ContextTypes
      <4> QED BY <4>1 DEF FrameContexts
    <3>3. frames[k].icb = frames[n].icb
      BY <1>1, <1>4, <2>1, <3>1, <3>2, AddressAssumption
    <3>4. k < n
      BY <2>1, <3>1
    <3>5. frames[k].pc = "polls"
      BY <2>1, <3>3, <3>4, ZenonT(30) DEF NoReentry
    <3> QED BY <2>3, <3>5 DEF InSection
  <2>4. preemptLock = Null
    BY <1>1, <1>4, <2>1, <2>3, ZenonT(30) DEF PreemptOK
  <2>5. c.icb = Ctx.icb /\ c.pc = "locked" /\ c.outer
    BY <1>2, <1>4, <2>4, ZenonT(30) DEF FrameContexts
  <2>6. frames' = [frames EXCEPT ![n] = c]
    BY <1>1, <1>4 DEF Goto
  <2> HIDE DEF c
  <2>7. Len(frames') = n /\ \A k \in 1 .. n : frames'[k] = IF k = n THEN c ELSE frames[k]
    BY <2>1, <2>6 DEF ContextTypes
  <2>8. \A k \in 1 .. n : /\ frames'[k].icb = frames[k].icb
                          /\ k # n => frames'[k] = frames[k]
    BY <2>1, <2>5, <2>7
  <2>9. NoReentry'
    <3> SUFFICES ASSUME NEW j \in 1 .. n, NEW k \in 1 .. n, j < k, frames'[j].icb = frames'[k].icb
                 PROVE  frames'[j].pc = "polls"
      BY <2>7, ZenonT(30) DEF NoReentry
    <3>1. j # n
      BY <2>1
    <3>2. frames[j].icb = frames[k].icb
      BY <2>8
    <3>3. frames[j].pc = "polls"
      BY <3>2, ZenonT(30) DEF NoReentry
    <3> QED BY <2>8, <3>1, <3>3
  <2>10. InSection(c) /\ preemptLock' \notin AllThreads /\ preemptLock' = c.icb
    BY <1>1, <2>1, <2>5, AddressAssumption DEF InSection
  <2>11. PreemptOK'
    BY <2>1, <2>3, <2>5, <2>7, <2>8, <2>10 DEF PreemptOK
  <2> QED BY <2>4, <2>9, <2>11
<1> QED BY <1>3, <1>4

\* The store of release_nesting_lock: the context at it is the only one in a section.
LEMMA StoreLock ==
  ASSUME ListTypes, ContextTypes, ContextsOK, OtherTypes, NoReentry, PreemptOK, Store
  PROVE  NoReentry' /\ PreemptOK'
<1>1. /\ preemptLock' = Null /\ Ctx.pc = "store" /\ current' = current
      /\ Goto(IF InIsr THEN Return(Ctx) ELSE [Ctx EXCEPT !.pc = "check"])
  BY ZenonT(30) DEF Store, At, queueVars
<1>2. preemptLock' \notin AllThreads \cup Icbs
  BY <1>1, AddressAssumption
<1>3. CASE ~InIsr
  <2>1. frames' = <<>>
    BY <1>1, <1>3 DEF Goto, InIsr
  <2> QED BY <1>2, <2>1 DEF NoReentry, PreemptOK
<1>4. CASE InIsr
  <2> DEFINE n == Len(frames)
             c == Return(Ctx)
  <2>0. Ctx \in FrameContexts /\ FrameOK(n, Ctx, current)
    BY <1>4, CtxOf
  <2>1. n \in Nat /\ n \in 1 .. n /\ Ctx = frames[n] /\ InSection(Ctx)
    BY <1>1, <1>4 DEF InIsr, ContextTypes, Ctx, Top, InSection
  <2>2. c.icb = Ctx.icb /\ ~InSection(c)
    BY <2>0 DEF Return, Context, FrameContexts, InSection
  <2>3. frames' = [frames EXCEPT ![n] = c]
    BY <1>1, <1>4 DEF Goto
  <2> HIDE DEF c
  <2>4. Len(frames') = n /\ \A k \in 1 .. n : frames'[k] = IF k = n THEN c ELSE frames[k]
    BY <2>1, <2>3 DEF ContextTypes
  <2>5. \A k \in 1 .. n : /\ frames'[k].icb = frames[k].icb
                          /\ k # n => frames'[k] = frames[k]
    BY <2>1, <2>2, <2>4
  <2>6. ASSUME NEW k \in 1 .. n PROVE ~InSection(frames'[k])
    <3>1. CASE k = n
      BY <2>2, <2>4, <3>1
    <3>2. CASE k # n
      <4>1. SUFFICES ASSUME InSection(frames[k]) PROVE FALSE
        BY <2>5, <3>2
      <4>2. frames[k].icb = frames[n].icb
        BY <2>1, <4>1, ZenonT(30) DEF PreemptOK
      <4>3. k < n
        BY <2>1, <3>2
      <4>4. frames[k].pc = "polls"
        BY <2>1, <4>2, <4>3, ZenonT(30) DEF NoReentry
      <4> QED BY <4>1, <4>4 DEF InSection
    <3> QED BY <3>1, <3>2
  <2>7. NoReentry'
    <3> SUFFICES ASSUME NEW j \in 1 .. n, NEW k \in 1 .. n, j < k, frames'[j].icb = frames'[k].icb
                 PROVE  frames'[j].pc = "polls"
      BY <2>4, ZenonT(30) DEF NoReentry
    <3>1. j # n
      BY <2>1
    <3>2. frames[j].icb = frames[k].icb
      BY <2>5
    <3>3. frames[j].pc = "polls"
      BY <3>2, ZenonT(30) DEF NoReentry
    <3> QED BY <2>5, <3>1, <3>3
  <2>8. PreemptOK'
    BY <1>2, <2>4, <2>6, ZenonT(30) DEF PreemptOK
  <2> QED BY <2>7, <2>8
<1> QED BY <1>3, <1>4

\* What a running interrupt context is
LEMMA RunningFrame ==
  ASSUME ListTypes, ContextTypes, ContextsOK, PreemptOK, InIsr
  PROVE  /\ Ctx \in FrameContexts /\ Ctx.icb \in Icbs /\ FrameOK(Len(frames), Ctx, current)
         /\ InSection(Ctx) => Ctx.outer
         /\ Len(frames) \in 1 .. Len(frames) /\ Ctx = frames[Len(frames)]
<1>1. Ctx \in FrameContexts /\ FrameOK(Len(frames), Ctx, current)
  BY CtxOf
<1>2. Len(frames) \in 1 .. Len(frames) /\ Ctx = frames[Len(frames)]
  BY DEF InIsr, ContextTypes, Ctx, Top
<1>3. InSection(Ctx) => Ctx.outer
  BY <1>2, ZenonT(30) DEF PreemptOK
<1>4. Ctx.icb \in Icbs
  BY <1>1 DEF FrameContexts
<1> QED BY <1>1, <1>2, <1>3, <1>4

\* A critical section releases the lock it has taken in this context.
LEMMA ReleaseMoves ==
  ASSUME ListTypes, ContextTypes, ContextsOK, NoReentry, PreemptOK, Goto(Release(Ctx)),
         Ctx.pc \in {"locked", "pick"}, preemptLock' = preemptLock, current' = current \/ InIsr
  PROVE  NoReentry' /\ PreemptOK'
<1> DEFINE c == Release(Ctx)
<1>1. InSection(Ctx)
  BY DEF InSection
<1>2. InIsr => Ctx \in FrameContexts /\ Ctx.icb \in Icbs /\ Ctx.outer
  BY <1>1, RunningFrame, ZenonT(30)
<1>3. InIsr => c.icb = Ctx.icb /\ InSection(c) /\ c.outer
  BY <1>2 DEF FrameContexts, InSection, Release
<1>4. Goto(c)
  OBVIOUS
<1> HIDE DEF c
<1> QED BY <1>1, <1>2, <1>3, <1>4, ContextMoves

-----------------------------------------------------------------------------
(* The last steps of the contexts                                          *)

\* The calls of threads and handlers alike
LEMMA SendEventsContexts ==
  ASSUME ListTypes, ContextTypes, ContextsOK, OtherTypes, SendEvents
  PROVE  ContextTypes' /\ ContextsOK'
<1>0. /\ current \in AllThreads
      /\ InIsr => Ctx \in FrameContexts /\ FrameOK(Len(frames), Ctx, current)
      /\ ~InIsr => Ctx \in ThreadContexts
  BY CtxFacts DEF ListTypes
<1>1. PICK t \in Threads : Goto(Section(Ctx, "resume", t, Here))
  BY DEF SendEvents
<1> DEFINE c == Section(Ctx, "resume", t, Here)
<1>2. UNCHANGED <<scoped, saved, current>> /\ (InIsr => Ctx.pc = "body")
  BY DEF SendEvents, MayCall, At, queueVars, lockVars
<1>3. InIsr => c \in FrameContexts /\ FrameOK(Len(frames), c, current)
  <2>1. InIsr => Here = "body" /\ Ctx.icb \in Devices
    BY <1>0, <1>2, ZenonT(30) DEF Here, FrameOK
  <2> QED BY <1>0, <2>1, SectionFrame, ZenonT(30)
<1>4. ~InIsr => c \in ThreadContexts /\ ThreadOK(c, scoped[current], saved[current])
  <2>1. ~InIsr => Here = "user"
    BY DEF Here
  <2> QED BY <1>0, <2>1, SectionThread, Zenon
<1>5. Goto(c)
  BY <1>1
<1> HIDE DEF c
<1> QED BY <1>0, <1>2, <1>3, <1>4, <1>5, GotoKeeps

\* Entering the section of the wait queue keeps the contexts in order.
LEMMA NotifyContexts ==
  ASSUME ListTypes, ContextTypes, ContextsOK, OtherTypes, Notify
  PROVE  ContextTypes' /\ ContextsOK'
<1>0. /\ current \in AllThreads
      /\ InIsr => Ctx \in FrameContexts /\ FrameOK(Len(frames), Ctx, current)
      /\ ~InIsr => Ctx \in ThreadContexts /\ ThreadOK(Ctx, scoped[current], saved[current])
  BY CtxFacts DEF ListTypes
<1>1. PICK c : /\ Goto(c)
               /\ \/ \E pc \in {"notify", "notified"} : c = [Ctx EXCEPT !.pc = pc]
                  \/ waitq # <<>> /\ c = Section(Ctx, "resume", Head(waitq), "notified")
  BY DEF Notify
<1>2. /\ UNCHANGED <<scoped, current>>
      /\ InIsr => Ctx.pc = "body" /\ saved' = saved
  BY DEF Notify, MayCall, At, queueVars
<1>3. InIsr => Ctx.icb \in Devices
  BY <1>0, <1>2, Zenon DEF FrameOK
<1>4. ~InIsr => saved'[current] # <<>> /\ \A t \in AllThreads : t # current => saved'[t] = saved[t]
  <2>1. ~InIsr => saved' = [saved EXCEPT ![current] = Append(@, section[current])]
    BY DEF Notify, RaiseNesting
  <2>2. saved[current] \in Seq(Nat \cup {INVALID}) /\ section[current] \in Nat \cup {INVALID}
    BY <1>0 DEF OtherTypes, ListTypes
  <2>3. Append(saved[current], section[current]) # <<>>
    BY <2>2
  <2> QED BY <1>0, <2>1, <2>3 DEF OtherTypes
<1>5. CASE \E pc \in {"notify", "notified"} : c = [Ctx EXCEPT !.pc = pc]
  <2>1. PICK pc \in {"notify", "notified"} : c = [Ctx EXCEPT !.pc = pc]
    BY <1>5
  <2>2. InIsr => c \in FrameContexts /\ FrameOK(Len(frames), c, current)
    BY <1>0, <1>2, <1>3, <2>1 DEF FrameContexts, FrameOK, Before
  <2>3. ~InIsr => c \in ThreadContexts /\ ThreadOK(c, scoped[current], saved'[current])
    BY <1>0, <1>4, <2>1 DEF ThreadContexts, ThreadOK, Before, InQueueSection
  <2> QED BY <1>0, <1>1, <1>2, <1>4, <2>2, <2>3, GotoOK
<1>6. CASE waitq # <<>> /\ c = Section(Ctx, "resume", Head(waitq), "notified")
  <2> DEFINE w == Head(waitq)
             sv == saved'[current]
  <2>1. w \in Threads
    BY <1>6 DEF OtherTypes
  <2>2. c = Section(Ctx, "resume", w, "notified") /\ (~InIsr => sv # <<>>)
    BY <1>4, <1>6
  <2> HIDE DEF w, sv
  <2>3. InIsr => c \in FrameContexts /\ FrameOK(Len(frames), c, current)
    BY <1>0, <1>3, <2>1, <2>2, SectionFrame, ZenonT(30)
  <2>4. ~InIsr => c \in ThreadContexts /\ ThreadOK(c, scoped[current], sv)
    <3> DEFINE d == Section(Ctx, "resume", w, "notified")
    <3>1. ASSUME ~InIsr
          PROVE  d \in ThreadContexts /\ ThreadOK(d, scoped[current], sv)
      <4>1. Ctx \in ThreadContexts /\ sv # <<>> /\ w \in Threads \cup Locks \cup {Null}
        BY <1>0, <2>1, <2>2, <3>1
      <4> QED BY <2>1, <4>1, SectionThread, ZenonT(30)
    <3> QED BY <2>2, <3>1
  <2> QED BY <1>0, <1>1, <1>2, <1>4, <2>3, <2>4, GotoOK DEF sv
<1> QED BY <1>1, <1>5, <1>6

\* Interrupts and time
LEMMA EnvironmentContexts ==
  ASSUME ListTypes, ContextTypes, ContextsOK, OtherTypes, Environment
  PROVE  ContextTypes' /\ ContextsOK'
<1>1. CASE DeviceInterrupt
  <2>1. PICK i \in Devices : frames' = Append(frames, Context(i, "body"))
    BY <1>1 DEF DeviceInterrupt
  <2>2. UNCHANGED <<scoped, saved, current, thr>>
    BY <1>1 DEF DeviceInterrupt, queueVars, lockVars
  <2> DEFINE f == Context(i, "body")
  <2>3. f \in FrameContexts /\ \A k \in Nat : FrameOK(k, f, current)
    BY FreshFrame DEF Icbs
  <2>4. frames' = Append(frames, f)
    BY <2>1
  <2> HIDE DEF f
  <2> QED BY <2>2, <2>3, <2>4, PushFrame
<1>2. CASE TimerInterrupt
  <2> DEFINE f == Context(TIMER, "exit")
  <2>1. frames' = Append(frames, f) /\ UNCHANGED <<scoped, saved, current, thr>>
    BY <1>2 DEF TimerInterrupt, queueVars, lockVars
  <2>2. f \in FrameContexts /\ \A k \in Nat : FrameOK(k, f, current)
    BY FreshFrame DEF Icbs
  <2> HIDE DEF f
  <2> QED BY <2>1, <2>2, PushFrame
<1>3. CASE Tick \/ Compute
  BY <1>3, ContextsKept DEF Tick, Compute, vars, queueVars, lockVars
<1> QED BY <1>1, <1>2, <1>3 DEF Environment

-----------------------------------------------------------------------------
(* Every step keeps the types of the other variables                       *)

otherVars == <<deadline, saved, owner, waitVars, preemptLock, pendingVars, now, alarm, fault>>

\* The other variables of a step that changes none of them
LEMMA OthersKept ==
  ASSUME OtherTypes, UNCHANGED otherVars
  PROVE  OtherTypes'
BY DEF OtherTypes, otherVars, waitVars, pendingVars

\* reprogram_alarm sets a time that some sleeper has.
LEMMA AlarmType ==
  ASSUME NEW s \in Seq(Threads \cup Devices),
         NEW dl \in [Threads \cup Devices -> Times \cup {NoTime}]
  PROVE  AlarmFor(s, dl) \in Times \cup {NoTime}
<1>1. s # <<>> => Head(s) \in Threads \cup Devices
  OBVIOUS
<1> QED BY <1>1 DEF AlarmFor

\* Blocking the running thread sets a deadline and an alarm of the right type.
LEMMA BlockTypes ==
  ASSUME ListTypes, ListTypes', OtherTypes, NEW d \in Times \cup {NoTime}, BlockCurrent(d)
  PROVE  /\ deadline' \in [Threads \cup Devices -> Times \cup {NoTime}]
         /\ alarm' \in Times \cup {NoTime}
<1>1. deadline' \in [Threads \cup Devices -> Times \cup {NoTime}]
  BY Zenon DEF BlockCurrent, OtherTypes
<1>2. sleep' \in Seq(Threads \cup Devices)
  BY DEF ListTypes
<1>3. alarm' = IF d = NoTime THEN alarm ELSE AlarmFor(sleep', deadline')
  BY DEF BlockCurrent
<1> QED BY <1>1, <1>2, <1>3, AlarmType, ZenonT(30) DEF OtherTypes

\* set_pending_executor_poll
LEMMA PollTypes ==
  ASSUME OtherTypes, NEW i \in Devices, SetPendingPoll(i)
  PROVE  polls' \in Queues(Devices) /\ fault' \in Faults
<1>1. polls' = polls \/ polls' = Push(polls, i)
  BY DEF SetPendingPoll
<1>2. fault' \in {fault, "spin"}
  BY DEF SetPendingPoll
<1>3. fault' \in Faults
  BY <1>2 DEF OtherTypes, Faults
<1>4. polls \in Queues(Devices)
  BY DEF OtherTypes
<1>5. Push(polls, i) \in Queues(Devices)
  BY <1>4, QueueTypes, ZenonT(30)
<1> QED BY <1>1, <1>3, <1>4, <1>5

\* The steps of the preemption lock keep the types of the other variables.
LEMMA LockStepOthers ==
  ASSUME ListTypes, ListTypes', ContextTypes, ContextsOK, OtherTypes, LockStep
  PROVE  OtherTypes'
<1>0. /\ current \in AllThreads
      /\ InIsr => Ctx \in FrameContexts /\ FrameOK(Len(frames), Ctx, current)
      /\ ~InIsr => Ctx \in ThreadContexts
  BY CtxOf
<1>1. CASE Acquire
  <2>1. Me \in AllThreads \cup Icbs
    BY <1>0 DEF Me, FrameContexts
  <2> QED BY <1>1, <2>1 DEF Acquire, OtherTypes, lockVars, waitVars, pendingVars
<1>2. CASE WouldBlock
  <2>1. InIsr /\ fault' \in Faults
    <3>1. \A q, x : PushFault(q, x) \in Faults
      BY DEF PushFault, Faults
    <3>2. "none" \in Faults /\ "BlocksWithPreemptLock" \in Faults
      BY DEF Faults
    <3> QED BY <1>2, <3>1, <3>2 DEF WouldBlock
  <2>2. /\ pendingResume' \in Queues(Threads) /\ pendingSleep' \in Queues(Devices)
    <3>1. /\ Ctx.op = "resume" => Ctx.arg \in Threads
          /\ Ctx.op = "sleep" => Ctx.arg \in Devices
      BY <1>0, <2>1 DEF FrameOK
    <3> QED BY <1>2, <3>1, QueueTypes, ZenonT(30) DEF WouldBlock, OtherTypes
  <2>3. pendingKind' \in SUBSET {"higher", "equal"}
    BY <1>0, <1>2, <2>1 DEF WouldBlock, OtherTypes, FrameContexts
  <2> QED BY <1>2, <2>1, <2>2, <2>3 DEF WouldBlock, OtherTypes, lockVars, waitVars
<1>3. CASE CompleteResume
  <2>1. /\ UNCHANGED <<deadline, saved, owner, waitq, waited, preemptLock, now, alarm>>
    BY <1>3 DEF CompleteResume, lockVars, waitVars
  <2>2. UNCHANGED <<pendingSleep, polls>> /\ fault' \in {fault, "spin"}
    BY <1>3 DEF CompleteResume, pendingVars
  <2>3. pendingResume' \in Queues(Threads)
    <3>1. \/ pendingResume' = pendingResume
          \/ pendingResume.items # <<>> /\ pendingResume' = Pop(pendingResume)
      BY <1>3 DEF CompleteResume, pendingVars
    <3>2. pendingResume \in Queues(Threads)
      BY DEF OtherTypes
    <3>3. pendingResume.items # <<>> => Pop(pendingResume) \in Queues(Threads)
      BY <3>2, QueueTypes, ZenonT(30)
    <3> QED BY <3>1, <3>2, <3>3
  <2>4. pendingKind' \in SUBSET {"higher", "equal"}
    BY <1>3 DEF CompleteResume, pendingVars, OtherTypes, ResumeThread
  <2> QED BY <2>1, <2>2, <2>3, <2>4 DEF OtherTypes, Faults
<1>4. CASE CompleteSleep
  <2>1. UNCHANGED <<deadline, saved, owner, waitq, waited, preemptLock, pendingResume, pendingKind,
                    polls, now>>
    BY <1>4 DEF CompleteSleep, lockVars, waitVars
  <2>2. fault' \in {fault, "spin"}
    BY <1>4 DEF CompleteSleep
  <2>3. pendingSleep' \in Queues(Devices)
    <3>1. \/ pendingSleep' = pendingSleep
          \/ pendingSleep.items # <<>> /\ pendingSleep' = Pop(pendingSleep)
      BY <1>4 DEF CompleteSleep
    <3>2. pendingSleep \in Queues(Devices)
      BY DEF OtherTypes
    <3>3. pendingSleep.items # <<>> => Pop(pendingSleep) \in Queues(Devices)
      BY <3>2, QueueTypes, Zenon
    <3> QED BY <3>1, <3>2, <3>3
  <2>4. alarm' \in Times \cup {NoTime}
    <3>1. alarm' = alarm \/ alarm' = AlarmFor(sleep', deadline)
      BY <1>4 DEF CompleteSleep, ScheduleWakeup
    <3> QED BY <3>1, AlarmType, ZenonT(30) DEF OtherTypes, ListTypes
  <2> QED BY <2>1, <2>2, <2>3, <2>4 DEF OtherTypes, Faults
<1>5. CASE Store
  BY <1>5 DEF Store, OtherTypes, lockVars, waitVars, pendingVars
<1>6. CASE Check
  BY <1>6 DEF Check, OtherTypes, lockVars, waitVars
<1>7. CASE Released
  BY <1>7, OthersKept DEF Released, otherVars, lockVars
<1> QED BY <1>1, <1>2, <1>3, <1>4, <1>5, <1>6, <1>7 DEF LockStep

\* So does each critical section of the scheduler.
LEMMA SectionStepOthers ==
  ASSUME ListTypes, ListTypes', ContextTypes, ContextsOK, OtherTypes, SectionStep
  PROVE  OtherTypes'
<1>0. /\ current \in AllThreads
      /\ InIsr => Ctx \in FrameContexts
      /\ ~InIsr => Ctx \in ThreadContexts
      /\ Ctx.at \in Times \cup {NoTime}
  BY CtxOf DEF FrameContexts, ThreadContexts
<1>1. CASE DoResume
  BY <1>1 DEF DoResume, ResumeThread, OtherTypes, lockVars, waitVars
<1>2. CASE DoSleep
  <2>1. alarm' = AlarmFor(sleep', deadline)
    BY <1>2 DEF DoSleep, ScheduleWakeup
  <2>2. alarm' \in Times \cup {NoTime}
    BY <2>1, AlarmType, ZenonT(30) DEF OtherTypes, ListTypes
  <2> QED BY <1>2, <2>2 DEF DoSleep, OtherTypes, lockVars, waitVars, pendingVars
<1>3. CASE DoDelay
  <2>1. BlockCurrent(Ctx.at)
    BY <1>3 DEF DoDelay
  <2>2. /\ deadline' \in [Threads \cup Devices -> Times \cup {NoTime}]
        /\ alarm' \in Times \cup {NoTime}
    BY <1>0, <2>1, BlockTypes
  <2> QED BY <1>3, <2>2 DEF DoDelay, OtherTypes, lockVars, waitVars, pendingVars
<1>4. CASE DoWaitEvent
  <2>1. BlockCurrent(Ctx.at) \/ UNCHANGED <<deadline, alarm>>
    BY <1>4 DEF DoWaitEvent
  <2>2. /\ deadline' \in [Threads \cup Devices -> Times \cup {NoTime}]
        /\ alarm' \in Times \cup {NoTime}
    BY <1>0, <2>1, BlockTypes DEF OtherTypes
  <2>3. waited' \in [AllThreads -> BOOLEAN]
    BY <1>4, ZenonT(30) DEF DoWaitEvent, OtherTypes
  <2> QED BY <1>4, <2>2, <2>3 DEF DoWaitEvent, OtherTypes, lockVars, pendingVars
<1>5. CASE DoWait
  <2> DEFINE P == {u \in Threads : BasePriority[u] >= BasePriority[current]}
  <2>1. /\ BlockCurrent(NoTime) /\ waitq' = InsertAfter(waitq, current, P)
        /\ Ctx.pc = "locked" /\ Ctx.op \in Blocking
    BY <1>5 DEF DoWait, Locked, At, Blocking
  <2>2. /\ deadline' \in [Threads \cup Devices -> Times \cup {NoTime}]
        /\ alarm' \in Times \cup {NoTime}
    BY <2>1, BlockTypes
  <2>3. current \in Threads
    BY <1>0, <2>1, BlockingFrame DEF AllThreads
  <2> HIDE DEF P
  <2>4. waitq' \in Seq(Threads)
    BY <2>1, <2>3, InsertAfterItems DEF OtherTypes
  <2>5. fault' \in Faults
    BY <1>5 DEF DoWait, OtherTypes, Faults
  <2> QED BY <1>5, <2>2, <2>4, <2>5 DEF DoWait, OtherTypes, lockVars, pendingVars
<1>6. CASE DoSuspend \/ DoResched
  BY <1>6, OthersKept DEF DoSuspend, DoResched, otherVars, lockVars
<1>7. CASE DoCond
  BY <1>7 DEF DoCond, CondReschedule, OtherTypes, lockVars, waitVars
<1>8. CASE DoLock
  <2>1. owner' \in [Locks -> AllThreads \cup {Null}]
    BY <1>0, <1>8, ZenonT(30) DEF DoLock, OtherTypes
  <2>2. fault' \in Faults
    BY <1>8 DEF DoLock, LockFault, Faults
  <2> QED BY <1>8, <2>1, <2>2 DEF DoLock, OtherTypes, waitVars, pendingVars
<1>9. CASE DoUnlock
  <2>1. owner' \in [Locks -> AllThreads \cup {Null}]
    BY <1>9, ZenonT(30) DEF DoUnlock, OtherTypes
  <2>2. pendingKind' \in SUBSET {"higher", "equal"}
    BY <1>9 DEF DoUnlock, CondReschedule, OtherTypes
  <2> QED BY <1>9, <2>1, <2>2 DEF DoUnlock, OtherTypes, waitVars
<1>10. CASE WakeSleeper
  <2>1. /\ polls' \in Queues(Devices) /\ fault' \in Faults
    <3>1. UNCHANGED <<polls, fault>> \/ (Head(sleep) \in Devices /\ SetPendingPoll(Head(sleep)))
      BY <1>10 DEF WakeSleeper
    <3> QED BY <3>1, PollTypes DEF OtherTypes
  <2> QED BY <1>10, <2>1 DEF WakeSleeper, OtherTypes, lockVars, waitVars
<1>11. CASE SetAlarm
  <2>1. alarm' = AlarmFor(sleep, deadline)
    BY <1>11 DEF SetAlarm
  <2>2. alarm' \in Times \cup {NoTime}
    BY <2>1, AlarmType, ZenonT(30) DEF OtherTypes, ListTypes
  <2> QED BY <1>11, <2>2 DEF SetAlarm, OtherTypes, lockVars, waitVars, pendingVars
<1>12. CASE PickNext
  BY <1>12, OthersKept DEF PickNext, otherVars, lockVars
<1> QED BY <1>1, <1>2, <1>3, <1>4, <1>5, <1>6, <1>7, <1>8, <1>9, <1>10, <1>11, <1>12 DEF SectionStep

\* raise_nesting_lock_priority saves the old priority, its reverse takes it back.
LEMMA RaiseTypes ==
  ASSUME ListTypes, OtherTypes, NEW c, RaiseNesting(c)
  PROVE  saved' \in [AllThreads -> Seq(Nat \cup {INVALID})]
<1> DEFINE sv == Append(saved[current], section[current])
<1>1. saved[current] \in Seq(Nat \cup {INVALID}) /\ section[current] \in Nat \cup {INVALID}
  BY DEF ListTypes, OtherTypes
<1>2. sv \in Seq(Nat \cup {INVALID})
  BY <1>1
<1>3. saved' = [saved EXCEPT ![current] = sv]
  BY DEF RaiseNesting
<1> HIDE DEF sv
<1> QED BY <1>2, <1>3, ZenonT(30) DEF OtherTypes

\* The end of a `with` section takes the saved priority back.
LEMMA RestoreTypes ==
  ASSUME ListTypes, OtherTypes, saved[current] # <<>>, RestoreNesting
  PROVE  OtherTypes'
<1> DEFINE sv == Popped(saved[current])
<1>1. saved[current] \in Seq(Nat \cup {INVALID})
  BY DEF ListTypes, OtherTypes
<1>2. sv \in Seq(Nat \cup {INVALID})
  <2>1. Len(saved[current]) >= 1
    BY <1>1
  <2> QED BY <1>1, <2>1, PoppedElements, ZenonT(30)
<1>3. saved' = [saved EXCEPT ![current] = sv]
  BY DEF RestoreNesting
<1> HIDE DEF sv
<1>4. saved' \in [AllThreads -> Seq(Nat \cup {INVALID})]
  BY <1>2, <1>3, ZenonT(30) DEF OtherTypes
<1> QED BY <1>4 DEF RestoreNesting, OtherTypes, waitVars, pendingVars

\* The steps after a handler or a service keep the types of the other variables.
LEMMA ReturnStepOthers ==
  ASSUME ListTypes, ContextTypes, ContextsOK, OtherTypes, ExitStep \/ ReturnStep
  PROVE  OtherTypes'
<1>1. CASE Exit \/ Again \/ Leave \/ SecondCond
  BY <1>1, OthersKept DEF Exit, Again, Leave, SecondCond, otherVars, lockVars
<1>2. CASE PollExecutor
  <2>1. polls' \in Queues(Devices)
    <3>1. polls' = polls \/ (polls.items # <<>> /\ polls' = Pop(polls))
      BY <1>2 DEF PollExecutor
    <3>2. polls \in Queues(Devices)
      BY DEF OtherTypes
    <3>3. polls.items # <<>> => Pop(polls) \in Queues(Devices)
      BY <3>2, QueueTypes, ZenonT(30)
    <3> QED BY <3>1, <3>2, <3>3
  <2>2. fault' \in Faults
    <3>1. fault' \in {fault, "spin"}
      BY <1>2 DEF PollExecutor
    <3> QED BY <3>1 DEF OtherTypes, Faults
  <2> QED BY <1>2, <2>1, <2>2 DEF PollExecutor, OtherTypes, lockVars, waitVars
<1>3. CASE SwapPending
  BY <1>3 DEF SwapPending, OtherTypes, lockVars, waitVars
<1>4. CASE ClearWaited
  <2>1. waited' \in [AllThreads -> BOOLEAN]
    BY <1>4, Zenon DEF ClearWaited, OtherTypes
  <2> QED BY <1>4, <2>1 DEF ClearWaited, OtherTypes, lockVars, pendingVars
<1>5. CASE NotifyNext
  <2>1. waitq' \in Seq(Threads)
    <3>1. waitq' = waitq \/ (waitq # <<>> /\ waitq' = Tail(waitq))
      BY <1>5 DEF NotifyNext
    <3>2. waitq \in Seq(Threads)
      BY DEF OtherTypes
    <3> QED BY <3>1, <3>2
  <2> QED BY <1>5, <2>1 DEF NotifyNext, OtherTypes, lockVars, pendingVars
<1>6. CASE Notified
  <2>1. CASE InIsr
    BY <1>6, <2>1, OthersKept DEF Notified, otherVars, lockVars
  <2>2. CASE ~InIsr
    <3>1. RestoreNesting /\ Ctx.pc = "notified"
      BY <1>6, <2>2 DEF Notified, At
    <3>2. saved[current] # <<>>
      BY <2>2, <3>1, CtxOf DEF ThreadOK, InQueueSection
    <3> QED BY <3>1, <3>2, RestoreTypes
  <2> QED BY <2>1, <2>2
<1> QED BY <1>1, <1>2, <1>3, <1>4, <1>5, <1>6 DEF ExitStep, ReturnStep

\* So do the calls of threads and handlers.
LEMMA CallOthers ==
  ASSUME ListTypes, ContextTypes, ContextsOK, OtherTypes, Call
  PROVE  OtherTypes'
<1>0. /\ current \in AllThreads
      /\ InIsr => Ctx \in FrameContexts /\ FrameOK(Len(frames), Ctx, current)
      /\ ~InIsr => Ctx \in ThreadContexts
  BY CtxOf
<1>1. CASE DelayUntil \/ WaitEvents \/ WaitEventsUntil \/ WaitInQueue \/ SuspendSelf
  BY <1>1, OthersKept DEF DelayUntil, WaitEvents, WaitEventsUntil, WaitInQueue, SuspendSelf,
                          Syscall, otherVars, lockVars
<1>2. CASE StartThread \/ PollNow \/ LockScoped \/ UnlockScoped \/ UnholdPreemption
  BY <1>2, OthersKept DEF StartThread, PollNow, LockScoped, UnlockScoped, UnholdPreemption,
                          otherVars, lockVars
<1>3. CASE HandlerReturns \/ SendEvents
  BY <1>3, OthersKept DEF HandlerReturns, SendEvents, otherVars, lockVars
<1>4. CASE Yield
  BY <1>4 DEF Yield, OtherTypes, lockVars, waitVars
<1>5. CASE EnterNesting
  <2>1. PICK l \in Locks : RaiseNesting(Ceiling[l])
    BY <1>5 DEF EnterNesting
  <2>2. saved' \in [AllThreads -> Seq(Nat \cup {INVALID})]
    BY <2>1, RaiseTypes
  <2> QED BY <1>5, <2>2 DEF EnterNesting, OtherTypes, waitVars, pendingVars
<1>6. CASE LeaveNesting
  BY <1>6, RestoreTypes DEF LeaveNesting
<1>7. CASE HoldPreemption
  BY <1>0, <1>7 DEF HoldPreemption, OtherTypes, lockVars, waitVars, pendingVars
<1>8. CASE SleepUntil
  <2>1. deadline' \in [Threads \cup Devices -> Times \cup {NoTime}]
    BY <1>8, ZenonT(30) DEF SleepUntil, OtherTypes
  <2> QED BY <1>8, <2>1 DEF SleepUntil, OtherTypes, lockVars, waitVars, pendingVars
<1>9. CASE WakeExecutor
  <2>1. polls' \in Queues(Devices) /\ fault' \in Faults
    BY <1>9, PollTypes, Zenon DEF WakeExecutor
  <2> QED BY <1>9, <2>1, Zenon DEF WakeExecutor, OtherTypes, lockVars, waitVars
<1>10. CASE Notify
  <2>1. saved' \in [AllThreads -> Seq(Nat \cup {INVALID})]
    <3>1. saved' = saved \/ RaiseNesting(WaitCeiling)
      BY <1>10 DEF Notify
    <3> QED BY <3>1, RaiseTypes DEF OtherTypes
  <2>2. waitq' \in Seq(Threads)
    <3>1. waitq' = waitq \/ (waitq # <<>> /\ waitq' = Tail(waitq))
      BY <1>10 DEF Notify
    <3>2. waitq \in Seq(Threads)
      BY DEF OtherTypes
    <3> QED BY <3>1, <3>2
  <2> QED BY <1>10, <2>1, <2>2 DEF Notify, OtherTypes, pendingVars
<1> QED BY <1>1, <1>2, <1>3, <1>4, <1>5, <1>6, <1>7, <1>8, <1>9, <1>10
        DEF Call, ThreadCall, HandlerCall

\* So do interrupts and the clock.
LEMMA EnvironmentOthers ==
  ASSUME OtherTypes, Environment
  PROVE  OtherTypes'
<1>1. CASE DeviceInterrupt \/ Compute
  BY <1>1, OthersKept DEF DeviceInterrupt, Compute, vars, otherVars, lockVars
<1>2. CASE TimerInterrupt
  BY <1>2 DEF TimerInterrupt, OtherTypes, lockVars, waitVars
<1>3. CASE Tick
  <2>1. now' \in Times
    <3>1. now \in Times
      BY DEF OtherTypes
    <3>2. now < MaxTime /\ now' = now + 1
      BY <1>3 DEF Tick
    <3>3. MaxTime \in Nat
      BY ConstantsAssumption
    <3> QED BY <3>1, <3>2, <3>3 DEF Times
  <2> QED BY <1>3, <2>1 DEF Tick, OtherTypes, lockVars, waitVars, pendingVars
<1> QED BY <1>1, <1>2, <1>3 DEF Environment

\* Every step keeps the types of the variables the lists and the contexts leave out.
LEMMA OthersStep ==
  ASSUME ListTypes, ListTypes', ContextTypes, ContextsOK, OtherTypes, Next
  PROVE  OtherTypes'
BY LockStepOthers, SectionStepOthers, ReturnStepOthers, CallOthers, EnvironmentOthers
   DEF Next, KernelStep

\* Every step keeps the contexts in order.
LEMMA ContextsStep ==
  ASSUME ListTypes, ContextTypes, ContextsOK, OtherTypes, Next
  PROVE  ContextTypes' /\ ContextsOK'
BY LockStepContexts, SectionStepContexts, ExitStepContexts, ReturnStepContexts,
   ThreadCallContexts, HandlerCallContexts, SendEventsContexts, NotifyContexts,
   EnvironmentContexts
   DEF Next, KernelStep, Call

-----------------------------------------------------------------------------
(* The inductive invariant                                                 *)

\* The inductive invariant: the types, what each context carries, and, until a
\* fault stops the system, the agreement and the order of the lists
IInv ==
  /\ ListTypes /\ ContextTypes /\ OtherTypes /\ ContextsOK
  /\ Running => Agree /\ Sorted

-----------------------------------------------------------------------------
(* The theorems                                                            *)

\* A system that has stopped at a fault takes no step but the clock's.
LEMMA Stopped ==
  ASSUME Next, ~Running
  PROVE  UNCHANGED <<queueVars, lockVars, thr, frames, fault>>
<1>1. fault # "none"
  BY DEF Running
<1>2. ~KernelStep
  BY <1>1 DEF KernelStep, LockStep, SectionStep, ExitStep, ReturnStep, Locked, At,
     Acquire, WouldBlock, CompleteResume, CompleteSleep, Store, Check, Released,
     DoResume, DoSleep, DoDelay, DoWaitEvent, DoWait, DoSuspend, DoCond, DoLock, DoUnlock,
     DoResched, WakeSleeper, SetAlarm, PickNext, Exit, PollExecutor, SwapPending, Again, Leave,
     ClearWaited, SecondCond, NotifyNext, Notified
<1>3. ~Call
  BY <1>1 DEF Call, ThreadCall, HandlerCall, MayCall, Calls, Blocks, At,
     DelayUntil, WaitEvents, WaitEventsUntil, WaitInQueue, SuspendSelf, StartThread, Yield,
     PollNow, LockScoped, UnlockScoped, EnterNesting, LeaveNesting, HoldPreemption,
     UnholdPreemption, SleepUntil, WakeExecutor, HandlerReturns, SendEvents, Notify
<1>4. ~DeviceInterrupt /\ ~TimerInterrupt
  BY <1>1 DEF DeviceInterrupt, TimerInterrupt, CanInterrupt
<1> QED BY <1>2, <1>3, <1>4 DEF Next, Environment, Tick, Compute, vars

\* The inductive invariant holds when the idle thread starts.
LEMMA InitIInv == Init => IInv
<1> SUFFICES ASSUME Init PROVE IInv
  OBVIOUS
<1>1. ListTypes
  BY DEF Init, ListTypes, AllThreads
<1>2. ContextTypes
  <2>1. thr = [t \in AllThreads |-> Context(Null, "user")] /\ frames = <<>>
    BY DEF Init
  <2>2. Context(Null, "user") \in ThreadContexts
    BY DEF ThreadContexts, Context, Null, NoTime
  <2>3. frames \in Seq(FrameContexts)
    BY <2>1
  <2> QED BY <2>1, <2>2, <2>3, Zenon DEF ContextTypes
<1>3. OtherTypes
  <2>1. ASSUME NEW S PROVE EmptyQueue \in Queues(S)
    <3>1. <<>> \in Seq(S) /\ {} \in SUBSET S /\ FALSE \in BOOLEAN /\ Sentinel \in S \cup {Sentinel}
      OBVIOUS
    <3> QED BY <3>1, ZenonT(30) DEF EmptyQueue, Queues
  <2>2. 0 \in Times
    BY ConstantsAssumption DEF Times
  <2> QED BY <2>1, <2>2 DEF Init, OtherTypes, Faults
<1>4. ContextsOK
  BY DEF Init, ContextsOK, ThreadOK, Context, InQueueSection, Before
<1>5. Agree
  <2>1. Distinct(<<>>)
    BY DEF Distinct
  <2>2. \A t : t \notin Items(<<>>)
    BY DEF Items
  <2>3. /\ \A t \in Threads : tstate[t] = "created"
        /\ \A t \in AllThreads : tstate[t] = "running" <=> t = current
    BY ConstantsAssumption DEF Init, AllThreads
  <2> QED BY <2>1, <2>2, <2>3 DEF Init, Agree
<1>6. Sorted
  BY DEF Init, Sorted, Descending
<1> QED BY <1>1, <1>2, <1>3, <1>4, <1>5, <1>6 DEF IInv

\* Every step, of the kernel, of an application or of the hardware, keeps it.
LEMMA NextIInv == IInv /\ [Next]_vars => IInv'
<1> SUFFICES ASSUME IInv, [Next]_vars PROVE IInv'
  OBVIOUS
<1>0. ListTypes /\ ContextTypes /\ OtherTypes /\ ContextsOK
  BY DEF IInv
<1>1. CASE Next /\ Running
  <2>1. Agree /\ Sorted
    BY <1>1 DEF IInv
  <2>2. ListTypes' /\ Agree' /\ Sorted'
    BY <1>0, <1>1, <2>1, ListsStep
  <2>3. ContextTypes' /\ ContextsOK'
    BY <1>0, <1>1, ContextsStep
  <2>4. OtherTypes'
    BY <1>0, <1>1, <2>2, OthersStep
  <2> QED BY <2>2, <2>3, <2>4 DEF IInv
<1>2. CASE Next /\ ~Running
  <2>1. UNCHANGED <<queueVars, lockVars, thr, frames, fault>>
    BY <1>2, Stopped
  <2>2. ListTypes'
    BY <1>0, <2>1 DEF ListTypes, queueVars, lockVars
  <2>3. ContextTypes' /\ ContextsOK'
    BY <1>0, <1>2, ContextsStep
  <2>4. OtherTypes'
    BY <1>0, <1>2, <2>2, OthersStep
  <2>5. ~Running'
    BY <1>2, <2>1 DEF Running
  <2> QED BY <2>2, <2>3, <2>4, <2>5 DEF IInv
<1>3. CASE UNCHANGED vars
  <2>1. ListTypes' /\ (Running' => Agree' /\ Sorted')
    <3>1. Running' => Running
      BY <1>3 DEF vars, Running
    <3>2. Running => ListTypes' /\ Agree' /\ Sorted'
      BY <1>0, <1>3, ListsKept DEF IInv, vars, queueVars, lockVars
    <3>3. ListTypes'
      BY <1>0, <1>3 DEF ListTypes, vars, queueVars, lockVars
    <3> QED BY <3>1, <3>2, <3>3
  <2>2. ContextTypes' /\ ContextsOK'
    BY <1>0, <1>3, ZenonT(30) DEF ContextTypes, ContextsOK, ThreadOK, FrameOK, vars, queueVars, lockVars
  <2>3. OtherTypes'
    BY <1>0, <1>3, OthersKept DEF vars, otherVars, lockVars
  <2> QED BY <2>1, <2>2, <2>3 DEF IInv
<1> QED BY <1>1, <1>2, <1>3

\* The inductive invariant holds for every set of threads, devices and locks,
\* every assignment of priorities and ceilings, and every mix of services.
THEOREM Inductive == Spec => []IInv
BY InitIInv, NextIInv, PTL DEF Spec

\* Type correctness: every context of the kernel is at one of the places the
\* code has, with one of the services a thread or a handler can have in progress.
THEOREM TypeCorrect == Spec => []TypeOK
<1>1. IInv => TypeOK
  BY TypesOf DEF IInv
<1> QED BY <1>1, Inductive, PTL

\* The ready queue, the blocked list, the suspended list and the sleep queue agree
\* with the thread states, so that every unlink finds the thread it unlinks.
THEOREM ListsAgree == Spec => []ListsMatchStates
<1>1. IInv => ListsMatchStates
  BY AgreeOf DEF IInv
<1> QED BY <1>1, Inductive, PTL

\* The ready queue stays in order of priority and the blocked list in order of
\* lock priority: a priority changes only while its thread is in neither.
THEOREM ListsOrdered == Spec => []ListsSorted
<1>1. IInv => ListsSorted
  BY SortedOf DEF IInv, ListTypes
<1> QED BY <1>1, Inductive, PTL

-----------------------------------------------------------------------------
(* Every step keeps the preemption lock with its holder                    *)

\* The steps of the preemption lock
LEMMA LockStepPreempt ==
  ASSUME ListTypes, ContextTypes, ContextsOK, OtherTypes, NoReentry, PreemptOK, LockStep
  PROVE  /\ NoReentry' /\ PreemptOK'
         /\ preemptLock # Null => preemptLock' \in {preemptLock, Null}
<1>0. InIsr => /\ Ctx \in FrameContexts /\ Ctx.icb \in Icbs
               /\ InSection(Ctx) => Ctx.outer
  BY RunningFrame
<1>1. CASE Acquire
  BY <1>1, AcquireLock
<1>2. CASE WouldBlock
  <2>1. /\ Goto(Return(Ctx)) /\ Ctx.pc = "acquire" /\ UNCHANGED <<preemptLock, current>>
    BY <1>2 DEF WouldBlock, At, queueVars
  <2>2. InIsr => Return(Ctx).icb = Ctx.icb /\ ~InSection(Return(Ctx)) /\ ~InSection(Ctx)
    BY <1>0, <2>1 DEF Return, Context, FrameContexts, InSection
  <2> QED BY <1>0, <2>1, <2>2, ContextLeaves
<1>3. CASE CompleteResume
  <2>1. Ctx.pc = "complete_resume" /\ UNCHANGED <<preemptLock, current>>
    BY <1>3 DEF CompleteResume, At, queueVars, ResumeThread
  <2>2. CASE UNCHANGED frames
    BY <2>1, <2>2, FramesStay
  <2>3. CASE Goto([Ctx EXCEPT !.pc = "complete_sleep"])
    <3> DEFINE c == [Ctx EXCEPT !.pc = "complete_sleep"]
    <3>1. InIsr => c.icb = Ctx.icb /\ InSection(c) /\ InSection(Ctx) /\ c.outer
      BY <1>0, <2>1 DEF FrameContexts, InSection
    <3> HIDE DEF c
    <3>2. Goto(c)
      BY <2>3 DEF c
    <3> QED BY <1>0, <2>1, <3>1, <3>2, ContextMoves
  <2> QED BY <1>3, <2>2, <2>3 DEF CompleteResume
<1>4. CASE CompleteSleep
  <2>1. Ctx.pc = "complete_sleep" /\ UNCHANGED <<preemptLock, current>>
    BY <1>4 DEF CompleteSleep, At
  <2>2. CASE UNCHANGED frames
    BY <2>1, <2>2, FramesStay
  <2>3. CASE Goto([Ctx EXCEPT !.pc = "store"])
    <3> DEFINE c == [Ctx EXCEPT !.pc = "store"]
    <3>1. InIsr => c.icb = Ctx.icb /\ InSection(c) /\ InSection(Ctx) /\ c.outer
      BY <1>0, <2>1 DEF FrameContexts, InSection
    <3> HIDE DEF c
    <3>2. Goto(c)
      BY <2>3 DEF c
    <3> QED BY <1>0, <2>1, <3>1, <3>2, ContextMoves
  <2> QED BY <1>4, <2>2, <2>3 DEF CompleteSleep
<1>5. CASE Store
  BY <1>5, StoreLock DEF Store
<1>6. CASE Check \/ Released
  <2>1. UNCHANGED <<preemptLock, current>> /\ Ctx.pc \in {"check", "released"}
    BY <1>6 DEF Check, Released, queueVars, At
  <2>2. ~InIsr
    BY <1>0, <2>1 DEF FrameContexts
  <2>3. frames' = frames \/ frames' = <<Context(SYSCALL, "exit")>>
    BY <1>6, <2>2 DEF Check, Released, Goto
  <2>4. Context(SYSCALL, "exit").icb \in Icbs /\ ~InSection(Context(SYSCALL, "exit"))
    BY DEF Context, InSection, Icbs
  <2> QED BY <2>1, <2>2, <2>3, <2>4, FramesStay, SyscallEnters
<1> QED BY <1>1, <1>2, <1>3, <1>4, <1>5, <1>6 DEF LockStep

\* The critical sections
LEMMA SectionStepPreempt ==
  ASSUME ListTypes, ContextTypes, ContextsOK, NoReentry, PreemptOK, SectionStep
  PROVE  NoReentry' /\ PreemptOK' /\ preemptLock' = preemptLock
<1>0. preemptLock' = preemptLock
  BY ZenonT(30) DEF SectionStep, DoResume, DoSleep, DoDelay, DoWaitEvent, DoWait,
     DoSuspend, DoCond, DoLock, DoUnlock, DoResched, WakeSleeper, SetAlarm, PickNext
<1>1. CASE DoResume \/ DoSleep \/ DoCond \/ DoLock \/ DoUnlock
  <2>1. Goto(Release(Ctx)) /\ Ctx.pc = "locked" /\ current' = current
    BY <1>1, ZenonT(30) DEF DoResume, DoSleep, DoCond, DoLock, DoUnlock, Locked, At, ResumeThread, queueVars
  <2> QED BY <1>0, <2>1, ReleaseMoves
<1>2. CASE DoDelay \/ DoWaitEvent \/ DoWait \/ DoSuspend
  <2>1. Goto(Release(Ctx)) /\ Ctx.pc = "locked" /\ Ctx.op \in Blocking
    BY <1>2, ZenonT(30) DEF DoDelay, DoWaitEvent, DoWait, DoSuspend, Locked, At, Blocking
  <2>2. InIsr
    <3>1. ~InIsr => Ctx \in ThreadContexts
      BY CtxOf
    <3> QED BY <2>1, <3>1 DEF ThreadContexts, Blocking
  <2> QED BY <1>0, <2>1, <2>2, ReleaseMoves
<1>3. CASE PickNext
  <2>1. Goto(Release(Ctx)) /\ Ctx.pc = "pick"
    BY <1>3 DEF PickNext, At
  <2>2. InIsr
    <3>1. ~InIsr => Ctx \in ThreadContexts
      BY CtxOf
    <3> QED BY <2>1, <3>1 DEF ThreadContexts
  <2> QED BY <1>0, <2>1, <2>2, ReleaseMoves
<1>4. CASE WakeSleeper
  BY <1>4, FramesStay DEF WakeSleeper
<1>5. CASE DoResched \/ SetAlarm
  <2>1. PICK c : /\ Goto(c)
                 /\ \/ c = [Ctx EXCEPT !.pc = "wake", !.at = now]
                    \/ c = [Ctx EXCEPT !.pc = "pick"]
    BY <1>5 DEF DoResched, SetAlarm
  <2>2. InSection(Ctx) /\ current' = current
    BY <1>5 DEF DoResched, SetAlarm, Locked, At, InSection, queueVars
  <2>3. InIsr => Ctx \in FrameContexts /\ Ctx.icb \in Icbs /\ Ctx.outer
    BY <2>2, RunningFrame
  <2>4. InIsr => c.icb = Ctx.icb /\ InSection(c) /\ c.outer
    BY <2>1, <2>3, ZenonT(30) DEF FrameContexts, InSection
  <2> QED BY <1>0, <2>1, <2>2, <2>3, <2>4, ContextMoves
<1> QED BY <1>0, <1>1, <1>2, <1>3, <1>4, <1>5 DEF SectionStep

\* The end of interrupt_context
LEMMA ExitStepPreempt ==
  ASSUME ListTypes, ContextTypes, ContextsOK, OtherTypes, NoReentry, PreemptOK, ExitStep
  PROVE  NoReentry' /\ PreemptOK' /\ preemptLock' = preemptLock
<1>0. /\ UNCHANGED <<preemptLock, current>>
      /\ Ctx.pc \in {"exit", "polls", "swap", "again", "leave"}
  BY ZenonT(30) DEF ExitStep, Exit, PollExecutor, SwapPending, Again, Leave, At, queueVars
<1>1. InIsr
  <2>1. ~InIsr => Ctx \in ThreadContexts
    BY CtxOf
  <2> QED BY <1>0, <2>1 DEF ThreadContexts
<1>2. /\ Ctx \in FrameContexts /\ Ctx.icb \in Icbs /\ FrameOK(Len(frames), Ctx, current)
      /\ Ctx = frames[Len(frames)]
  BY <1>1, RunningFrame
<1>3. ~InSection(Ctx)
  BY <1>0 DEF InSection
<1>4. CASE \E pc \in {"polls", "swap", "again", "leave"} : Goto([Ctx EXCEPT !.pc = pc])
  <2>1. PICK pc \in {"polls", "swap", "again", "leave"} : Goto([Ctx EXCEPT !.pc = pc])
    BY <1>4
  <2> DEFINE c == [Ctx EXCEPT !.pc = pc]
  <2>2. c.icb = Ctx.icb /\ ~InSection(c)
    BY <1>2 DEF FrameContexts, InSection
  <2>3. Goto(c)
    BY <2>1
  <2> HIDE DEF c
  <2> QED BY <1>0, <1>2, <1>3, <2>2, <2>3, ContextLeaves
<1>5. CASE Exit
  <2>1. CASE Len(frames) = 1
    BY <1>4, <1>5, <2>1 DEF Exit
  <2>2. CASE Len(frames) # 1
    BY <1>0, <1>1, <1>3, <1>5, <2>2, ContextExits DEF Exit
  <2> QED BY <2>1, <2>2
<1>6. CASE PollExecutor
  <2>1. CASE Spins(polls)
    BY <1>0, <1>6, <2>1, FramesStay DEF PollExecutor
  <2>2. CASE ~Spins(polls) /\ polls.items = <<>>
    BY <1>4, <1>6, <2>2 DEF PollExecutor
  <2>3. CASE ~Spins(polls) /\ polls.items # <<>>
    <3> DEFINE f == Context(Head(polls.items), "body")
    <3>1. Head(polls.items) \in Devices
      BY <2>3, QueueTypes DEF OtherTypes
    <3>2. frames' = Append(frames, f) /\ Ctx.pc = "polls"
      BY <1>6, <2>3 DEF PollExecutor, At
    <3>3. f.icb \in Icbs /\ ~InSection(f)
      BY <3>1 DEF Context, InSection, Icbs
    <3>4. Len(frames) = 1 /\ frames[1].pc = "polls"
      BY <1>2, <3>2, ZenonT(30) DEF FrameOK
    <3> HIDE DEF f
    <3> QED BY <1>0, <3>2, <3>3, <3>4, ContextEnters
  <2> QED BY <2>1, <2>2, <2>3
<1>7. CASE SwapPending
  <2>1. CASE pendingKind = {}
    BY <1>4, <1>7, <2>1 DEF SwapPending
  <2>2. CASE pendingKind # {}
    <3> DEFINE c == [Section(Ctx, "resched", Null, "again") EXCEPT !.kind = pendingKind]
    <3>1. Goto(c)
      BY <1>7, <2>2 DEF SwapPending
    <3>2. c.icb = Ctx.icb /\ ~InSection(c)
      BY DEF Section, InSection
    <3> HIDE DEF c
    <3> QED BY <1>0, <1>2, <1>3, <3>1, <3>2, ContextLeaves
  <2> QED BY <2>1, <2>2
<1>8. CASE Again
  BY <1>4, <1>8 DEF Again
<1>9. CASE Leave
  <2>1. Len(frames) = 1 /\ frames' = <<>>
    BY <1>2, <1>9 DEF Leave, At, FrameOK
  <2> QED BY <1>0, <1>1, <1>3, <2>1, ContextExits
<1> QED BY <1>0, <1>5, <1>6, <1>7, <1>8, <1>9 DEF ExitStep

\* What follows a service in a thread, and the section of the wait queue
LEMMA ReturnStepPreempt ==
  ASSUME ListTypes, ContextTypes, ContextsOK, NoReentry, PreemptOK, ReturnStep
  PROVE  NoReentry' /\ PreemptOK' /\ preemptLock' = preemptLock
<1>0. /\ UNCHANGED <<preemptLock, current>>
      /\ Ctx.pc \in {"clear", "cond", "notify", "notified"}
  BY ZenonT(30) DEF ReturnStep, ClearWaited, SecondCond, NotifyNext, Notified, RestoreNesting, At, queueVars
<1>1. CASE ~InIsr
  <2>1. frames' = frames
    BY <1>1, ZenonT(30) DEF ReturnStep, ClearWaited, SecondCond, NotifyNext, Notified, RestoreNesting, Goto
  <2> QED BY <1>0, <2>1, FramesStay
<1>2. CASE InIsr
  <2>1. Ctx \in FrameContexts /\ Ctx.icb \in Icbs
    BY <1>2, RunningFrame
  <2>2. Ctx.pc \in {"notify", "notified"}
    BY <1>0, <2>1 DEF FrameContexts
  <2>3. NotifyNext \/ Notified
    BY <2>2 DEF ReturnStep, ClearWaited, SecondCond, At
  <2>4. PICK c : /\ Goto(c)
                 /\ \/ c = [Ctx EXCEPT !.pc = "notified"]
                    \/ c = Section(Ctx, "resume", Head(waitq), "notify")
                    \/ c = Context(Ctx.icb, "body")
    BY <1>2, <2>3 DEF NotifyNext, Notified
  <2>5. c.icb = Ctx.icb /\ ~InSection(c) /\ ~InSection(Ctx)
    BY <2>1, <2>2, <2>4 DEF Section, Context, FrameContexts, InSection
  <2> QED BY <1>0, <2>1, <2>4, <2>5, ContextLeaves
<1> QED BY <1>0, <1>1, <1>2

\* The calls of threads
LEMMA ThreadCallPreempt ==
  ASSUME ListTypes, ContextTypes, ContextsOK, NoReentry, PreemptOK, ThreadCall
  PROVE  /\ NoReentry' /\ PreemptOK'
         /\ preemptLock # Null => preemptLock' = preemptLock
<1>0. ~InIsr /\ current \in AllThreads /\ current' = current
  <2>1. ~InIsr
    BY ZenonT(30) DEF ThreadCall, DelayUntil, WaitEvents, WaitEventsUntil, WaitInQueue, SuspendSelf,
           StartThread, Yield, PollNow, LockScoped, UnlockScoped, EnterNesting, LeaveNesting,
           HoldPreemption, UnholdPreemption, Blocks, Calls
  <2>2. current' = current
    BY ZenonT(30) DEF ThreadCall, DelayUntil, WaitEvents, WaitEventsUntil, WaitInQueue, SuspendSelf,
           StartThread, Yield, PollNow, LockScoped, UnlockScoped, EnterNesting, LeaveNesting,
           HoldPreemption, UnholdPreemption, RestoreNesting, Syscall, queueVars
  <2> QED BY <2>1, <2>2, CtxOf
<1>1. CASE DelayUntil \/ WaitEvents \/ WaitEventsUntil \/ WaitInQueue \/ SuspendSelf \/ StartThread
           \/ Yield
  <2>1. PICK c : /\ frames' = <<c>> /\ preemptLock' = preemptLock
                 /\ c.icb = SYSCALL /\ c.pc \in {"acquire", "exit"}
    <3>1. ASSUME NEW op, NEW at, NEW ret, Syscall(op, Null, at, ret)
          PROVE  \E c : /\ frames' = <<c>> /\ preemptLock' = preemptLock
                        /\ c.icb = SYSCALL /\ c.pc \in {"acquire", "exit"}
      <4> DEFINE c == [Section(Context(SYSCALL, "body"), op, Null, "exit") EXCEPT !.at = at]
      <4>1. frames' = <<c>> /\ preemptLock' = preemptLock
        BY <3>1 DEF Syscall
      <4>2. c.icb = SYSCALL /\ c.pc = "acquire"
        BY DEF Section, Context
      <4> HIDE DEF c
      <4> QED BY <4>1, <4>2
    <3>2. CASE StartThread
      <4>1. PICK t \in Threads : frames' = <<Section(Context(SYSCALL, "body"), "resume", t, "exit")>>
        BY <3>2, ZenonT(30) DEF StartThread
      <4>2. preemptLock' = preemptLock
        BY <3>2, ZenonT(30) DEF StartThread
      <4> QED BY <4>1, <4>2 DEF Section, Context
    <3>3. CASE Yield
      BY <3>3 DEF Yield, Context
    <3> QED BY <1>1, <3>1, <3>2, <3>3 DEF DelayUntil, WaitEvents, WaitEventsUntil, WaitInQueue, SuspendSelf
  <2>2. c.icb \in Icbs /\ ~InSection(c)
    BY <2>1 DEF Icbs, InSection
  <2> QED BY <1>0, <2>1, <2>2, SyscallEnters
<1>2. CASE PollNow
  <2>1. PICK i \in Devices : frames' = <<Context(SYSCALL, "exit"), Context(i, "body")>>
    BY <1>2 DEF PollNow
  <2>2. preemptLock' = preemptLock /\ frames = <<>>
    BY <1>0, <1>2 DEF PollNow, InIsr
  <2>3. /\ Len(frames') = 2
        /\ frames'[1].icb = SYSCALL /\ frames'[1].pc = "exit"
        /\ frames'[2].icb = i /\ frames'[2].pc = "body"
    BY <2>1 DEF Context
  <2>4. \A k \in 1 .. Len(frames') : k = 1 \/ k = 2
    BY <2>3
  <2>5. NoReentry'
    BY <2>3, <2>4, AddressAssumption DEF NoReentry
  <2>6. preemptLock \notin Icbs
    BY <2>2 DEF PreemptOK
  <2>7. \A k \in 1 .. Len(frames') : ~InSection(frames'[k])
    BY <2>3, <2>4 DEF InSection
  <2>8. PreemptOK'
    BY <1>0, <2>2, <2>6, <2>7, ZenonT(30) DEF PreemptOK
  <2> QED BY <2>2, <2>5, <2>8
<1>3. CASE LockScoped \/ UnlockScoped \/ EnterNesting \/ LeaveNesting \/ UnholdPreemption
  <2>1. UNCHANGED <<frames, preemptLock>>
    BY <1>0, <1>3, ZenonT(30) DEF LockScoped, UnlockScoped, EnterNesting, LeaveNesting, RestoreNesting,
       UnholdPreemption, Goto
  <2> QED BY <1>0, <2>1, FramesStay
<1>4. CASE HoldPreemption
  <2>1. preemptLock = Null /\ preemptLock' = current /\ frames' = <<>> /\ frames = <<>>
    BY <1>0, <1>4 DEF HoldPreemption, InIsr
  <2>2. preemptLock' \notin Icbs
    BY <1>0, <2>1, AddressAssumption
  <2> QED BY <1>0, <2>1, <2>2 DEF NoReentry, PreemptOK
<1> QED BY <1>1, <1>2, <1>3, <1>4 DEF ThreadCall

\* The calls of handlers, and those that threads and handlers share
LEMMA OtherCallPreempt ==
  ASSUME ListTypes, ContextTypes, ContextsOK, NoReentry, PreemptOK,
         HandlerCall \/ SendEvents \/ Notify
  PROVE  NoReentry' /\ PreemptOK' /\ preemptLock' = preemptLock
<1>0. UNCHANGED <<preemptLock, current>> /\ (InIsr => Ctx.pc = "body")
  BY ZenonT(30) DEF HandlerCall, SleepUntil, WakeExecutor, HandlerReturns, SendEvents, Notify, MayCall, At,
     queueVars
<1>1. CASE WakeExecutor
  BY <1>0, <1>1, FramesStay, ZenonT(30) DEF WakeExecutor
<1>2. CASE ~WakeExecutor
  <2>1. PICK c : /\ Goto(c)
                 /\ \/ \E pc \in {"notify", "notified", "exit"} : c = [Ctx EXCEPT !.pc = pc]
                    \/ \E op, arg, ret : c = Section(Ctx, op, arg, ret)
    <3>1. CASE SleepUntil \/ SendEvents
      <4>1. \E op, arg, ret : Goto(Section(Ctx, op, arg, ret))
        BY <3>1, ZenonT(30) DEF SleepUntil, SendEvents
      <4> QED BY <4>1, ZenonT(30)
    <3>2. CASE HandlerReturns
      BY <3>2 DEF HandlerReturns
    <3>3. CASE Notify
      <4>1. PICK c : /\ Goto(c)
                     /\ \/ \E pc \in {"notify", "notified"} : c = [Ctx EXCEPT !.pc = pc]
                        \/ c = Section(Ctx, "resume", Head(waitq), "notified")
        BY <3>3 DEF Notify
      <4> QED BY <4>1, ZenonT(30)
    <3> QED BY <1>2, <3>1, <3>2, <3>3 DEF HandlerCall
  <2>2. InIsr => Ctx \in FrameContexts /\ Ctx.icb \in Icbs
    BY RunningFrame
  <2>3. InIsr => c.icb = Ctx.icb /\ ~InSection(c) /\ ~InSection(Ctx)
    <3>1. InIsr => ~InSection(Ctx)
      BY <1>0 DEF InSection
    <3>2. ASSUME NEW pc \in {"notify", "notified", "exit"}, c = [Ctx EXCEPT !.pc = pc], InIsr
          PROVE  c.icb = Ctx.icb /\ ~InSection(c)
      BY <2>2, <3>2 DEF FrameContexts, InSection
    <3>3. ASSUME NEW op, NEW arg, NEW ret, c = Section(Ctx, op, arg, ret)
          PROVE  c.icb = Ctx.icb /\ ~InSection(c)
      BY <3>3 DEF Section, InSection
    <3> QED BY <2>1, <3>1, <3>2, <3>3
  <2> QED BY <1>0, <2>1, <2>2, <2>3, ContextLeaves
<1> QED BY <1>0, <1>1, <1>2

\* An interrupt comes over contexts of a lower level only, so of other interrupts.
LEMMA InterruptIsNew ==
  ASSUME ContextTypes, NEW i \in Icbs, CanInterrupt(i)
  PROVE  \A k \in 1 .. Len(frames) : frames[k].icb # i
<1> SUFFICES ASSUME NEW k \in 1 .. Len(frames), frames[k].icb = i PROVE FALSE
  OBVIOUS
<1>1. InIsr
  BY DEF InIsr
<1>2. HwPriority[i] > Level(frames[k])
  BY <1>1 DEF CanInterrupt
<1>3. Level(frames[k]) \in {HwPriority[i], Higher(HwPriority[i], WaitCeiling)}
  BY DEF Level
<1>4. HwPriority[i] \in Nat /\ WaitCeiling \in Nat
  BY AddressAssumption, ConstantsAssumption, ZenonT(30)
<1> QED BY <1>2, <1>3, <1>4 DEF Higher

\* Interrupts and time
LEMMA EnvironmentPreempt ==
  ASSUME ContextTypes, NoReentry, PreemptOK, Environment
  PROVE  NoReentry' /\ PreemptOK' /\ preemptLock' = preemptLock
<1>1. CASE DeviceInterrupt \/ TimerInterrupt
  <2>1. PICK i \in Icbs, pc \in {"body", "exit"} :
          CanInterrupt(i) /\ frames' = Append(frames, Context(i, pc))
    BY <1>1 DEF DeviceInterrupt, TimerInterrupt, Icbs
  <2>2. UNCHANGED <<preemptLock, current>>
    BY <1>1 DEF DeviceInterrupt, TimerInterrupt, queueVars
  <2>3. Context(i, pc).icb = i /\ ~InSection(Context(i, pc))
    BY DEF Context, InSection
  <2> QED BY <2>1, <2>2, <2>3, InterruptIsNew, ContextEnters
<1>2. CASE Tick \/ Compute
  BY <1>2, FramesStay DEF Tick, Compute, vars, queueVars
<1> QED BY <1>1, <1>2 DEF Environment

\* Every step keeps both, and takes the lock from no one.
LEMMA PreemptStep ==
  ASSUME IInv, NoReentry, PreemptOK, [Next]_vars
  PROVE  /\ NoReentry' /\ PreemptOK'
         /\ preemptLock # Null => preemptLock' \in {preemptLock, Null}
<1>0. ListTypes /\ ContextTypes /\ OtherTypes /\ ContextsOK
  BY DEF IInv
<1>1. CASE UNCHANGED vars
  BY <1>1, FramesStay DEF vars, queueVars
<1>2. CASE LockStep
  BY <1>0, <1>2, LockStepPreempt
<1>3. CASE SectionStep \/ ExitStep \/ ReturnStep
  BY <1>0, <1>3, SectionStepPreempt, ExitStepPreempt, ReturnStepPreempt
<1>4. CASE Call
  BY <1>0, <1>4, ThreadCallPreempt, OtherCallPreempt DEF Call
<1>5. CASE Environment
  BY <1>0, <1>5, EnvironmentPreempt
<1> QED BY <1>1, <1>2, <1>3, <1>4, <1>5 DEF Next, KernelStep

PreemptInv == NoReentry /\ PreemptOK

\* The holder of the preemption lock is the current thread, or the interrupt context that
\* is inside a critical section, for every set of threads and devices and all priorities
\* (PreemptLock::acquire_nesting_lock, try_acquire_nesting_lock, release_nesting_lock).
THEOREM LockHolder == Spec => []PreemptInv
<1>1. Init => PreemptInv
  <2> SUFFICES ASSUME Init PROVE PreemptInv
    OBVIOUS
  <2>1. frames = <<>> /\ preemptLock = Null
    BY DEF Init
  <2> QED BY <2>1, AddressAssumption DEF NoReentry, PreemptOK, PreemptInv
<1>2. IInv /\ PreemptInv /\ [Next]_vars => PreemptInv'
  BY PreemptStep DEF PreemptInv
<1> QED BY <1>1, <1>2, Inductive, PTL DEF Spec

\* Handlers and executor polls of one interrupt never overlap, whatever the priorities
\* of the interrupts (RawInterruptHandler::poll_executor).
THEOREM PollsAreExclusive == Spec => []NoReentry
<1>1. PreemptInv => NoReentry
  BY DEF PreemptInv
<1> QED BY <1>1, LockHolder, PTL

\* No swap by a thread and no exchange by an interrupt takes the preemption lock from
\* its holder (PreemptLock::acquire_nesting_lock, try_acquire_nesting_lock).
THEOREM LockIsKept == Spec => PreemptLockKept
<1>1. IInv /\ PreemptInv /\ [Next]_vars
        => [preemptLock # Null => preemptLock' \in {preemptLock, Null}]_vars
  BY PreemptStep DEF PreemptInv
<1> QED BY <1>1, LockHolder, Inductive, PTL DEF Spec, PreemptLockKept
=============================================================================
