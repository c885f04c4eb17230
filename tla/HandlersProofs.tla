--------------------------- MODULE HandlersProofs ---------------------------
(***************************************************************************)
(* The sections of the interrupt lock exclude interrupts, and no update of *)
(* a locked cell is lost, for every number of handlers, interrupts and     *)
(* scoped locks, all priorities, and any depth of nesting.                 *)
(*                                                                         *)
(* Both follow from one invariant.  A context with an interrupt above it   *)
(* is quiet: it is in no section.  The innermost thread or interrupt that  *)
(* has none above it owns the lock: the count and the interrupt flag are   *)
(* what the place it has come to in its calls says.  The contexts that     *)
(* attach and poll_executor put above the owner never touch the lock.      *)
(***************************************************************************)
EXTENDS Handlers, TLAPS

\* More time for the provers than they have by default
USE SMTT(30), ZenonT(30)

GuardSet == [kind : {"mut", "shared"}, key : Nat \ {0}]

\* The steps of interrupt_context, and all places of a frame
Context == {"switch", "poll", "drain", "again", "leave", "complete"}
Pcs == Context \cup {"vector", "run", "put", "set", "replace", "count", "own", "uncount", "restore"}

\* The frames whose handlers, numbers and locals are in R
Frames(R) ==
  [kind : {"thread", "isr", "attach", "poll"}, icb : R, num : R, prev : R, pc : Pcs,
   withs : Nat, locks : Seq(R), guards : Seq(GuardSet), reg : R]

\* A frame that neither is in a section nor is about to enter one
Free(f) == Sections(f) = 0 /\ f.guards = <<>>
Passive(f) == f.pc \in Context /\ Free(f)
Quiet(f) ==
  /\ Free(f)
  /\ IF f.kind = "thread" THEN f.pc \in {"run", "put"}
                          ELSE f.pc \in Context \cup {"vector", "run", "put"}

\* A guard lives in a `with` section.
Keyed(f) == f.guards = <<>> \/ f.withs > 0

\* What the calls of the owner have done to the interrupt flag e and to the count n, and
\* that an update it is in the middle of has read the value c of the cell
Owner(f, e, n, c) ==
  /\ Keyed(f)
  /\ \/ f.pc \in {"run", "put"} /\ n = Sections(f) /\ (e <=> n = 0)
     \/ f.pc \in {"set", "replace"} /\ n = Sections(f) /\ n > 0 /\ ~e /\ f.reg = c
     \/ f.pc = "count" /\ n = Sections(f) /\ ~e
     \/ f.pc \in {"own", "uncount"} /\ n = Sections(f) + 1 /\ ~e
     \/ f.pc = "restore" /\ Free(f) /\ n = 0 /\ ~e
     \/ f.kind = "isr" /\ f.pc \in Context \cup {"vector"} /\ Free(f) /\ n = 0 /\ e

Covered(k) == \E j \in k + 1 .. Len(frames) : frames[j].kind = "isr"

Places ==
  \A k \in 1 .. Len(frames) :
    IF frames[k].kind \in {"attach", "poll"} THEN Passive(frames[k])
    ELSE IF Covered(k) THEN Quiet(frames[k])
    ELSE Owner(frames[k], enabled, nesting, cell)

Typed(F) ==
  /\ frames \in Seq(F) /\ Len(frames) > 0
  /\ \A k \in 1 .. Len(frames) : frames[k].kind = "thread" <=> k = 1
  /\ enabled \in BOOLEAN /\ nesting \in Nat /\ cell \in Nat /\ (enabled => nesting = 0)

\* A context has a scoped lock at most once, with its flag set.
Holds(f, w) ==
  \A n \in 1 .. Len(f.locks) :
    f.locks[n] \in w /\ \A m \in 1 .. Len(f.locks) : f.locks[m] = f.locks[n] => m = n

Held == fault = "none" => \A k \in 1 .. Len(frames) : Holds(frames[k], owned)

IInv == (\E R : Typed(Frames(R))) /\ Places /\ Held /\ cell = updates

-----------------------------------------------------------------------------
(* Steps that change the innermost frame                                   *)

\* The sequences over a larger set
LEMMA SeqGrows ==
  ASSUME NEW S, NEW T, S \subseteq T
  PROVE  Seq(S) \subseteq Seq(T)
OBVIOUS

\* The set of frames grows with the set of values.
LEMMA FramesGrow ==
  ASSUME NEW R, NEW Q
  PROVE  /\ Frames(R) \subseteq Frames(R \cup Q) /\ Frames(Q) \subseteq Frames(R \cup Q)
         /\ Seq(Frames(R)) \subseteq Seq(Frames(R \cup Q))
<1>1. Seq(R) \subseteq Seq(R \cup Q) /\ Seq(Q) \subseteq Seq(R \cup Q)
  BY SeqGrows
<1>2. Frames(R) \subseteq Frames(R \cup Q) /\ Frames(Q) \subseteq Frames(R \cup Q)
  BY <1>1 DEF Frames
<1> QED
  BY <1>2, SeqGrows, Zenon

\* A context in no section has no lock and is in no `with` closure.
LEMMA SectionsCount ==
  ASSUME NEW R, NEW f \in Frames(R)
  PROVE  /\ Sections(f) \in Nat /\ f.withs \in Nat /\ f.locks \in Seq(R) /\ Len(f.locks) \in Nat
         /\ f.withs > 0 => Sections(f) > 0
         /\ Sections(f) = 0 => f.withs = 0 /\ f.locks = <<>>
<1>1. f.withs \in Nat /\ f.locks \in Seq(R)
  BY DEF Frames
<1> QED
  BY <1>1 DEF Sections

LEMMA SectionsMore ==
  ASSUME NEW f, NEW g, f.withs \in Nat, g.withs \in Nat, Len(f.locks) \in Nat, Len(g.locks) \in Nat,
         \/ g.withs = f.withs + 1 /\ Len(g.locks) = Len(f.locks)
         \/ g.withs = f.withs /\ Len(g.locks) = Len(f.locks) + 1
  PROVE  Sections(g) = Sections(f) + 1
BY DEF Sections

\* A step of the running context replaces its frame by g and leaves the others alone.
Replaces(g) == frames' = [frames EXCEPT ![Len(frames)] = g] /\ g.kind = Me.kind

LEMMA TopReplaced ==
  ASSUME NEW R, Typed(Frames(R)), NEW Q, NEW g \in Frames(Q), Replaces(g)
  PROVE  /\ frames' \in Seq(Frames(R \cup Q)) /\ Len(frames') = Len(frames)
         /\ frames'[Len(frames)] = g
         /\ \A k \in 1 .. Len(frames) - 1 : frames'[k] = frames[k]
         /\ \A k \in 1 .. Len(frames) : frames'[k].kind = frames[k].kind
<1>1. frames \in Seq(Frames(R \cup Q)) /\ g \in Frames(R \cup Q) /\ Len(frames) \in 1 .. Len(frames)
  BY FramesGrow DEF Typed
<1> QED
  BY <1>1 DEF Replaces, Me, Depth

\* A frame that is in no section holds no lock.
LEMMA FreeHolds ==
  ASSUME NEW R, NEW f \in Frames(R), Free(f), NEW w
  PROVE  Holds(f, w)
<1>1. f.locks = <<>> /\ Len(f.locks) = 0
  BY SectionsCount DEF Free
<1> QED
  BY <1>1 DEF Holds

\* A context of attach or poll_executor goes on and leaves the lock alone.
LEMMA PassiveStep ==
  ASSUME IInv, Me.kind \in {"attach", "poll"},
         NEW Q, NEW g \in Frames(Q), Replaces(g), Passive(g),
         UNCHANGED <<enabled, nesting, cell, updates, owned>>, fault = "none"
  PROVE  IInv'
<1>1. PICK R : Typed(Frames(R))
  BY DEF IInv
<1>2. /\ frames' \in Seq(Frames(R \cup Q)) /\ Len(frames') = Len(frames)
      /\ frames'[Len(frames)] = g
      /\ \A k \in 1 .. Len(frames) - 1 : frames'[k] = frames[k]
      /\ \A k \in 1 .. Len(frames) : frames'[k].kind = frames[k].kind
  BY <1>1, TopReplaced
<1>3. Typed(Frames(R \cup Q))'
  BY <1>1, <1>2 DEF Typed
<1>4. ASSUME NEW k \in 1 .. Len(frames) PROVE Covered(k)' <=> Covered(k)
  <2>1. \A j \in k + 1 .. Len(frames) : j \in 1 .. Len(frames)
    BY <1>1 DEF Typed
  <2> QED
    BY <2>1, <1>2 DEF Covered
<1>5. Places'
  <2> SUFFICES ASSUME NEW k \in 1 .. Len(frames)
               PROVE  IF frames'[k].kind \in {"attach", "poll"} THEN Passive(frames'[k])
                      ELSE IF Covered(k)' THEN Quiet(frames'[k])
                      ELSE Owner(frames'[k], enabled', nesting', cell')
    BY <1>2 DEF Places
  <2>1. CASE k = Len(frames)
    BY <2>1, <1>2 DEF Replaces, Me, Depth
  <2>2. CASE k # Len(frames)
    <3>1. frames'[k] = frames[k]
      BY <2>2, <1>1, <1>2 DEF Typed
    <3> QED
      BY <3>1, <1>4 DEF IInv, Places
  <2> QED
    BY <2>1, <2>2
<1>6. Held'
  <2> SUFFICES ASSUME fault' = "none", NEW k \in 1 .. Len(frames)
               PROVE  Holds(frames'[k], owned')
    BY <1>2 DEF Held
  <2>1. CASE k = Len(frames)
    BY <2>1, <1>2, FreeHolds DEF Passive
  <2>2. CASE k # Len(frames)
    <3>1. frames'[k] = frames[k] /\ k \in 1 .. Len(frames) - 1
      BY <2>2, <1>1, <1>2 DEF Typed
    <3> QED
      BY <3>1, <1>1 DEF IInv, Held
  <2> QED
    BY <2>1, <2>2
<1> QED
  BY <1>3, <1>5, <1>6 DEF IInv

\* The owner goes on: it has no frame above, and those below it are covered by it.
LEMMA OwnerStep ==
  ASSUME IInv, Me.kind \in {"thread", "isr"},
         NEW Q, NEW g \in Frames(Q), Replaces(g),
         enabled' \in BOOLEAN, nesting' \in Nat, cell' \in Nat, cell' = updates',
         Owner(g, enabled', nesting', cell'), fault' = "none" => Holds(g, owned')
  PROVE  IInv'
<1>1. PICK R : Typed(Frames(R))
  BY DEF IInv
<1>2. /\ frames' \in Seq(Frames(R \cup Q)) /\ Len(frames') = Len(frames)
      /\ frames'[Len(frames)] = g
      /\ \A k \in 1 .. Len(frames) - 1 : frames'[k] = frames[k]
      /\ \A k \in 1 .. Len(frames) : frames'[k].kind = frames[k].kind
  BY <1>1, TopReplaced
<1>3. Typed(Frames(R \cup Q))'
  <2>1. enabled' => nesting' = 0
    BY DEF Owner
  <2> QED
    BY <2>1, <1>1, <1>2 DEF Typed
<1>4. ASSUME NEW k \in 1 .. Len(frames) PROVE Covered(k)' <=> Covered(k)
  <2>1. \A j \in k + 1 .. Len(frames) : j \in 1 .. Len(frames)
    BY <1>1 DEF Typed
  <2> QED
    BY <2>1, <1>2, Zenon DEF Covered
<1>5. Places'
  <2> SUFFICES ASSUME NEW k \in 1 .. Len(frames)
               PROVE  IF frames'[k].kind \in {"attach", "poll"} THEN Passive(frames'[k])
                      ELSE IF Covered(k)' THEN Quiet(frames'[k])
                      ELSE Owner(frames'[k], enabled', nesting', cell')
    BY <1>2 DEF Places
  <2>1. CASE k = Len(frames)
    <3>1. ~Covered(k)
      BY <2>1, <1>1 DEF Covered, Typed
    <3> QED
      BY <2>1, <3>1, <1>2, <1>4 DEF Replaces, Me, Depth
  <2>2. CASE k # Len(frames)
    <3>1. frames'[k] = frames[k] /\ Len(frames) # 1 /\ Len(frames) \in k + 1 .. Len(frames)
      BY <2>2, <1>1, <1>2 DEF Typed
    <3>2. Me.kind = "isr"
      BY <3>1, <1>1 DEF Typed, Me, Depth
    <3>3. Covered(k)
      BY <3>1, <3>2 DEF Covered, Me, Depth
    <3> QED
      BY <3>1, <3>3, <1>4 DEF IInv, Places
  <2> QED
    BY <2>1, <2>2
<1>7. ASSUME NEW k \in 1 .. Len(frames) - 1 PROVE Holds(frames[k], owned')
  <2>1. k \in 1 .. Len(frames) /\ Len(frames) # 1 /\ Len(frames) \in k + 1 .. Len(frames)
    BY <1>1 DEF Typed
  <2>2. Me.kind = "isr"
    BY <2>1, <1>1 DEF Typed, Me, Depth
  <2>3. Covered(k)
    BY <2>1, <2>2 DEF Covered, Me, Depth
  <2>4. Free(frames[k]) /\ frames[k] \in Frames(R)
    BY <2>1, <2>3, <1>1 DEF IInv, Places, Passive, Quiet, Typed
  <2> QED
    BY <2>4, FreeHolds
<1>6. Held'
  <2> SUFFICES ASSUME fault' = "none", NEW k \in 1 .. Len(frames)
               PROVE  Holds(frames'[k], owned')
    BY <1>2 DEF Held
  <2>1. CASE k = Len(frames)
    BY <2>1, <1>2, <1>1
  <2>2. CASE k # Len(frames)
    <3>1. frames'[k] = frames[k] /\ k \in 1 .. Len(frames) - 1
      BY <2>2, <1>1, <1>2 DEF Typed
    <3> QED
      BY <3>1, <1>7
  <2> QED
    BY <2>1, <2>2
<1> QED
  BY <1>3, <1>5, <1>6 DEF IInv

-----------------------------------------------------------------------------
(* The running context                                                     *)

\* The innermost frame owns the lock or belongs to attach or poll_executor.
LEMMA Running ==
  ASSUME IInv
  PROVE  /\ \E R : Me \in Frames(R)
         /\ Me.kind \in {"attach", "poll"} => Passive(Me)
         /\ Me.kind \in {"thread", "isr"} => Owner(Me, enabled, nesting, cell)
         /\ Me.kind \in {"thread", "isr", "attach", "poll"}
         /\ fault = "none" => Holds(Me, owned)
<1>1. PICK R : Typed(Frames(R))
  BY DEF IInv
<1>2. Len(frames) \in 1 .. Len(frames) /\ ~Covered(Len(frames))
  BY <1>1 DEF Typed, Covered
<1>3. Me \in Frames(R)
  BY <1>1, <1>2 DEF Typed, Me, Depth
<1>4. Me.kind \in {"thread", "isr", "attach", "poll"}
  BY <1>3 DEF Frames
<1>5. IF Me.kind \in {"attach", "poll"} THEN Passive(Me) ELSE Owner(Me, enabled, nesting, cell)
  BY <1>2 DEF IInv, Places, Me, Depth
<1>6. fault = "none" => Holds(Me, owned)
  BY <1>2 DEF IInv, Held, Me, Depth
<1> QED
  BY <1>3, <1>4, <1>5, <1>6

\* A frame in the same sections
Same(g) == g.withs = Me.withs /\ g.locks = Me.locks

\* A step that leaves the sections alone keeps the locks.
LEMMA SameHolds ==
  ASSUME IInv, NEW g, Same(g)
  PROVE  Sections(g) = Sections(Me) /\ (fault = "none" => Holds(g, owned))
BY Running DEF Same, Sections, Holds

\* Between two calls, and while it puts an entry, a context owns the lock.
LEMMA BodyOwns ==
  ASSUME IInv, Me.pc \in {"run", "put"}
  PROVE  /\ Me.kind \in {"thread", "isr"} /\ Keyed(Me)
         /\ nesting = Sections(Me) /\ (enabled <=> nesting = 0)
<1>1. Me.kind \in {"thread", "isr"} /\ Owner(Me, enabled, nesting, cell)
  BY Running DEF Passive, Context
<1> QED
  BY <1>1 DEF Owner, Context

\* The places of the calls in which only an owner is
LEMMA CallOwns ==
  ASSUME IInv, Me.pc \in {"set", "replace", "count", "own", "uncount", "restore", "vector"}
  PROVE  Me.kind \in {"thread", "isr"} /\ Owner(Me, enabled, nesting, cell)
BY Running DEF Passive, Context

\* A context that is in interrupt_context and is no owner is passive; an owner is free.
LEMMA InContext ==
  ASSUME IInv, Me.pc \in Context
  PROVE  /\ Free(Me) /\ Me.kind # "thread"
         /\ Me.kind = "isr" => nesting = 0 /\ enabled
<1>1. CASE Me.kind \in {"attach", "poll"}
  BY <1>1, Running DEF Passive
<1>2. CASE Me.kind \in {"thread", "isr"}
  BY <1>2, Running DEF Owner, Context
<1> QED
  BY <1>1, <1>2, Running


LEMMA ConcatIs ==
  ASSUME NEW S, NEW a \in Seq(S), NEW b \in Seq(S)
  PROVE  /\ a \o b \in Seq(S) /\ Len(a \o b) = Len(a) + Len(b)
         /\ \A i \in 1 .. Len(a) + Len(b) :
              (a \o b)[i] = IF i <= Len(a) THEN a[i] ELSE b[i - Len(a)]
OBVIOUS

\* A sequence without its n-th element
Skip(n, i) == IF i < n THEN i ELSE i + 1

LEMMA WithoutOne ==
  ASSUME NEW S, NEW s \in Seq(S), NEW n \in 1 .. Len(s)
  PROVE  /\ Without(s, n) \in Seq(S) /\ Len(Without(s, n)) = Len(s) - 1
         /\ \A i \in 1 .. Len(s) - 1 : Without(s, n)[i] = s[Skip(n, i)]
<1> DEFINE a == SubSeq(s, 1, n - 1)
           b == SubSeq(s, n + 1, Len(s))
<1>1. a \in Seq(S) /\ Len(a) = n - 1 /\ \A i \in 1 .. n - 1 : a[i] = s[i]
  OBVIOUS
<1>2. b \in Seq(S) /\ Len(b) = Len(s) - n /\ \A i \in 1 .. Len(s) - n : b[i] = s[n + i]
  OBVIOUS
<1>3. Without(s, n) = a \o b
  BY DEF Without
<1> HIDE DEF a, b
<1>4. /\ a \o b \in Seq(S) /\ Len(a \o b) = Len(a) + Len(b)
      /\ \A i \in 1 .. Len(a) + Len(b) :
           (a \o b)[i] = IF i <= Len(a) THEN a[i] ELSE b[i - Len(a)]
  BY <1>1, <1>2, ConcatIs, Zenon
<1>5. Len(a) + Len(b) = Len(s) - 1
  BY <1>1, <1>2
<1>6. ASSUME NEW i \in 1 .. Len(s) - 1
      PROVE  (a \o b)[i] = s[Skip(n, i)]
  <2>1. CASE i < n
    <3>1. i <= Len(a) /\ i \in 1 .. n - 1
      BY <2>1, <1>1
    <3> QED
      BY <2>1, <3>1, <1>1, <1>4, <1>5 DEF Skip
  <2>2. CASE ~(i < n)
    <3>1. ~(i <= Len(a)) /\ i - Len(a) \in 1 .. Len(s) - n /\ n + (i - Len(a)) = i + 1
      BY <2>2, <1>1
    <3>2. (a \o b)[i] = b[i - Len(a)]
      BY <3>1, <1>4, <1>5
    <3> QED
      BY <2>2, <3>1, <3>2, <1>2, Zenon DEF Skip
  <2> QED
    BY <2>1, <2>2, Zenon
<1> QED
  BY <1>3, <1>4, <1>5, <1>6, Zenon

-----------------------------------------------------------------------------
(* InterruptLock                                                           *)

\* The variables of the lock and of the cell
LEMMA LockTyped ==
  ASSUME IInv
  PROVE  /\ enabled \in BOOLEAN /\ nesting \in Nat /\ cell \in Nat /\ cell = updates
         /\ enabled => nesting = 0
BY DEF IInv, Typed

\* The running context goes to a place, and its local becomes r.
Placed(at) == [Me EXCEPT !.pc = at]
Written(r, at) == [Me EXCEPT !.reg = r, !.pc = at]
Writes(r, at) == frames' = [frames EXCEPT ![Depth].reg = r, ![Depth].pc = at]

LEMMA PlaceChanged ==
  ASSUME IInv, NEW at \in Pcs, Goto(at)
  PROVE  \E Q, g :
           g \in Frames(Q) /\ Replaces(g) /\ Same(g) /\ g.pc = at /\ g.guards = Me.guards /\ g.reg = Me.reg
<1>1. PICK R : Me \in Frames(R)
  BY Running
<1>2. /\ Placed(at) \in Frames(R) /\ Placed(at).pc = at /\ Placed(at).kind = Me.kind
      /\ Placed(at).withs = Me.withs /\ Placed(at).locks = Me.locks
      /\ Placed(at).guards = Me.guards /\ Placed(at).reg = Me.reg
  BY <1>1 DEF Placed, Frames
<1>3. frames' = [frames EXCEPT ![Len(frames)] = Placed(at)]
  BY DEF Goto, Placed, Me, Depth
<1> QED
  BY <1>2, <1>3, Zenon DEF Replaces, Same

LEMMA LocalWritten ==
  ASSUME IInv, NEW r, NEW at \in Pcs, Writes(r, at)
  PROVE  \E Q, g :
           g \in Frames(Q) /\ Replaces(g) /\ Same(g) /\ g.pc = at /\ g.guards = Me.guards /\ g.reg = r
<1>1. PICK R : Me \in Frames(R)
  BY Running
<1>2. Me \in Frames(R \cup {r})
  BY <1>1, FramesGrow
<1>3. /\ Written(r, at) \in Frames(R \cup {r})
      /\ Written(r, at).pc = at /\ Written(r, at).reg = r /\ Written(r, at).kind = Me.kind
      /\ Written(r, at).withs = Me.withs /\ Written(r, at).locks = Me.locks
      /\ Written(r, at).guards = Me.guards
  BY <1>2, Zenon DEF Written, Frames
<1>4. frames' = [frames EXCEPT ![Len(frames)] = Written(r, at)]
  BY Zenon DEF Writes, Written, Me, Depth
<1> QED
  BY <1>3, <1>4, Zenon DEF Replaces, Same

\* A step that leaves the contexts, the lock and the cell alone
LEMMA NothingMoves ==
  ASSUME IInv, UNCHANGED <<frames, enabled, nesting, owned, cell, updates>>,
         fault' = "none" => fault = "none"
  PROVE  IInv'
<1>1. PICK R : Typed(Frames(R))
  BY DEF IInv
<1>2. Typed(Frames(R))'
  BY <1>1 DEF Typed
<1>3. Places'
  BY DEF IInv, Places, Covered
<1>4. Held'
  BY DEF IInv, Held
<1> QED
  BY <1>2, <1>3, <1>4 DEF IInv

\* Interrupts are disabled before the section is counted.
LEMMA AcquireKeeps ==
  ASSUME IInv, NEW s, Acquire(s)
  PROVE  IInv'
<1>1. /\ Me.pc = "run" /\ enabled' = FALSE /\ fault = "none"
      /\ UNCHANGED <<nesting, cell, updates, owned>>
  BY DEF Acquire, Doing, Body, At, cellVars
<1>2. "count" \in Pcs /\ Writes(s, "count")
  BY DEF Acquire, Writes, Pcs
<1>3. PICK Q, g : g \in Frames(Q) /\ Replaces(g) /\ Same(g) /\ g.pc = "count" /\ g.guards = Me.guards
  BY <1>2, LocalWritten
<1>4. Me.kind \in {"thread", "isr"} /\ Keyed(Me) /\ nesting = Sections(Me)
  BY <1>1, BodyOwns
<1>5. Sections(g) = Sections(Me) /\ Holds(g, owned')
  BY <1>1, <1>3, SameHolds
<1>6. Owner(g, enabled', nesting', cell')
  BY <1>1, <1>3, <1>4, <1>5 DEF Owner, Keyed, Same
<1> QED
  BY <1>1, <1>3, <1>4, <1>5, <1>6, LockTyped, OwnerStep, Zenon

\* The count follows when interrupts are disabled.
LEMMA CountKeeps ==
  ASSUME IInv, Count
  PROVE  IInv'
<1>1. /\ Me.pc = "count" /\ nesting' = nesting + 1 /\ fault = "none"
      /\ UNCHANGED <<enabled, cell, updates, owned>>
  BY DEF Count, At, cellVars
<1>2. Me.kind \in {"thread", "isr"} /\ Owner(Me, enabled, nesting, cell)
  BY <1>1, CallOwns
<1>3. Keyed(Me) /\ nesting = Sections(Me) /\ ~enabled
  BY <1>1, <1>2 DEF Owner, Context
<1>4. CASE Me.reg = With
  <2>1. PICK R : Me \in Frames(R)
    BY Running
  <2>2. /\ Me \in Frames(R \cup {0}) /\ Me.withs \in Nat /\ Len(Me.locks) \in Nat
        /\ Me.withs + 1 \in Nat /\ "run" \in Pcs
    BY <2>1, FramesGrow, SectionsCount DEF Pcs
  <2> DEFINE w == Me.withs + 1
             g == [Me EXCEPT !.withs = w, !.reg = 0, !.pc = "run"]
  <2>3. frames' = [frames EXCEPT ![Len(frames)] = g]
    BY <1>4, Zenon DEF Count, Me, Depth
  <2> HIDE DEF w
  <2>4. w \in Nat /\ w = Me.withs + 1
    BY <2>2 DEF w
  <2>5. /\ g \in Frames(R \cup {0}) /\ g.pc = "run" /\ g.kind = Me.kind /\ g.locks = Me.locks
        /\ g.guards = Me.guards /\ g.withs = w
    BY <2>2, <2>4, Zenon DEF Frames
  <2> HIDE DEF g
  <2>6. Replaces(g) /\ Sections(g) = Sections(Me) + 1 /\ g.withs > 0
    BY <2>2, <2>5, <2>3, <2>4 DEF Replaces, Sections
  <2>7. Holds(g, owned')
    BY <2>5, <1>1, Running DEF Holds
  <2>8. Owner(g, enabled', nesting', cell')
    BY <2>5, <2>6, <1>1, <1>3, LockTyped DEF Owner, Keyed
  <2> QED
    BY <2>5, <2>6, <2>7, <2>8, <1>1, <1>2, LockTyped, OwnerStep
<1>5. CASE Me.reg # With
  <2>1. "own" \in Pcs /\ Goto("own")
    BY <1>5 DEF Count, Pcs
  <2>2. PICK Q, g : g \in Frames(Q) /\ Replaces(g) /\ Same(g) /\ g.pc = "own" /\ g.guards = Me.guards
    BY <2>1, PlaceChanged
  <2>3. Sections(g) = Sections(Me) /\ Holds(g, owned')
    BY <2>2, <1>1, SameHolds
  <2>4. Owner(g, enabled', nesting', cell')
    BY <2>2, <2>3, <1>1, <1>3 DEF Owner, Keyed, Same
  <2> QED
    BY <2>2, <2>3, <2>4, <1>1, <1>2, LockTyped, OwnerStep
<1> QED
  BY <1>4, <1>5

\* A scoped lock is had from when its flag is set, or the lock is recursive.
LEMMA OwnKeeps ==
  ASSUME IInv, Own
  PROVE  IInv'
<1>1. Me.pc = "own" /\ fault = "none" /\ UNCHANGED <<enabled, nesting, cell, updates>>
  BY DEF Own, At, cellVars
<1>2. CASE Me.reg \in owned
  BY <1>1, <1>2, NothingMoves DEF Own
<1>3. CASE Me.reg \notin owned
  <2>1. PICK R : Me \in Frames(R)
    BY Running
  <2>2. /\ Me \in Frames(R \cup {0}) /\ Me.reg \in R \cup {0} /\ "run" \in Pcs
        /\ Me.locks \in Seq(R \cup {0}) /\ Me.withs \in Nat
    <3>1. Me \in Frames(R \cup {0})
      BY <2>1, FramesGrow
    <3> QED
      BY <3>1 DEF Frames, Pcs
  <2> DEFINE l == Append(Me.locks, Me.reg)
             g == [Me EXCEPT !.locks = l, !.reg = 0, !.pc = "run"]
  <2>3. /\ l \in Seq(R \cup {0}) /\ Len(l) = Len(Me.locks) + 1 /\ l[Len(Me.locks) + 1] = Me.reg
        /\ \A n \in 1 .. Len(Me.locks) : l[n] = Me.locks[n]
        /\ Len(Me.locks) \in Nat /\ \A n \in 1 .. Len(l) : n \in 1 .. Len(Me.locks) \/ n = Len(Me.locks) + 1
    BY <2>2
  <2>4. frames' = [frames EXCEPT ![Len(frames)] = g] /\ owned' = owned \cup {Me.reg}
    BY <1>3, Zenon DEF Own, Me, Depth
  <2> HIDE DEF l
  <2>5. /\ g \in Frames(R \cup {0}) /\ g.pc = "run" /\ g.kind = Me.kind /\ g.locks = l
        /\ g.guards = Me.guards /\ g.withs = Me.withs
    BY <2>2, <2>3, Zenon DEF Frames
  <2> HIDE DEF g
  <2>6. Replaces(g) /\ Sections(g) = Sections(Me) + 1
    <3>1. Replaces(g)
      BY <2>4, <2>5 DEF Replaces
    <3>2. Sections(g) = Sections(Me) + 1
      <4>1. /\ Me.withs \in Nat /\ g.withs \in Nat /\ Len(Me.locks) \in Nat /\ Len(g.locks) \in Nat
            /\ g.withs = Me.withs /\ Len(g.locks) = Len(Me.locks) + 1
        BY <2>2, <2>3, <2>5
      <4> QED
        BY <4>1, SectionsMore
    <3> QED
      BY <3>1, <3>2
  <2>7. Me.kind \in {"thread", "isr"} /\ Owner(Me, enabled, nesting, cell)
    BY <1>1, CallOwns
  <2>8. Keyed(Me) /\ nesting = Sections(Me) + 1 /\ ~enabled /\ nesting > 0
    BY <1>1, <2>1, <2>7, SectionsCount DEF Owner, Context
  <2>9. Owner(g, enabled', nesting', cell')
    BY <2>5, <2>6, <2>8, <1>1 DEF Owner, Keyed
  <2>10. Holds(g, owned')
    <3>1. /\ \A n \in 1 .. Len(Me.locks) : Me.locks[n] \in owned
          /\ \A n, m \in 1 .. Len(Me.locks) : Me.locks[m] = Me.locks[n] => m = n
      BY <1>1, Running DEF Holds
    <3>2. \A n \in 1 .. Len(l) : l[n] \in owned'
      BY <3>1, <2>3, <2>4
    <3>3. ASSUME NEW n \in 1 .. Len(l), NEW m \in 1 .. Len(l), l[m] = l[n]
          PROVE  m = n
      BY <3>1, <3>3, <2>3, <1>3
    <3> QED
      BY <3>2, <3>3, <2>5 DEF Holds
  <2> QED
    BY <2>5, <2>6, <2>7, <2>9, <2>10, <1>1, LockTyped, OwnerStep
<1> QED
  BY <1>2, <1>3

\* The closure of a `with` section returns.
LEMMA LeaveKeeps ==
  ASSUME IInv, Leave
  PROVE  IInv'
<1>1. /\ Me.pc = "run" /\ fault = "none" /\ UNCHANGED <<enabled, nesting, owned, cell, updates>>
      /\ Me.withs > 0 /\ \A k \in DOMAIN Me.guards : Me.guards[k].key < Me.withs
  BY DEF Leave, Body, At, lockVars, cellVars
<1>2. PICK R : Me \in Frames(R)
  BY Running
<1> DEFINE w == Me.withs - 1
           g == [Me EXCEPT !.withs = w, !.pc = "uncount"]
<1>3. frames' = [frames EXCEPT ![Len(frames)] = g]
  BY Zenon DEF Leave, Me, Depth
<1>4. w \in Nat /\ Me.withs = w + 1 /\ Len(Me.locks) \in Nat /\ "uncount" \in Pcs
  BY <1>1, <1>2, SectionsCount DEF Pcs
<1> HIDE DEF w
<1>5. /\ g \in Frames(R) /\ g.pc = "uncount" /\ g.kind = Me.kind /\ g.locks = Me.locks
      /\ g.guards = Me.guards /\ g.withs = w
  BY <1>2, <1>4, Zenon DEF Frames
<1> HIDE DEF g
<1>6. Replaces(g) /\ Sections(Me) = Sections(g) + 1
  <2>1. Replaces(g)
    BY <1>3, <1>5 DEF Replaces
  <2>2. Sections(Me) = Sections(g) + 1
    <3>1. /\ Me.withs \in Nat /\ g.withs \in Nat /\ Len(Me.locks) \in Nat /\ Len(g.locks) \in Nat
          /\ Me.withs = g.withs + 1 /\ Len(Me.locks) = Len(g.locks)
      BY <1>4, <1>5
    <3> QED
      BY <3>1, SectionsMore
  <2> QED
    BY <2>1, <2>2
<1>7. Me.kind \in {"thread", "isr"} /\ nesting = Sections(Me) /\ (enabled <=> nesting = 0)
  BY <1>1, BodyOwns
<1>8. Keyed(g)
  <2>1. Me.guards \in Seq(GuardSet)
    BY <1>2 DEF Frames
  <2>2. CASE Me.guards # <<>>
    <3>1. 1 \in DOMAIN Me.guards /\ Me.guards[1] \in GuardSet
      BY <2>1, <2>2
    <3>2. Me.guards[1].key \in Nat \ {0}
      BY <3>1 DEF GuardSet
    <3> QED
      BY <3>1, <3>2, <1>1, <1>4, <1>5 DEF Keyed
  <2> QED
    BY <2>2, <1>5 DEF Keyed
<1>9. Owner(g, enabled', nesting', cell')
  <2>1. Sections(g) \in Nat
    BY <1>5, SectionsCount
  <2> QED
    BY <2>1, <1>1, <1>5, <1>6, <1>7, <1>8, LockTyped DEF Owner
<1>10. Holds(g, owned')
  BY <1>1, <1>5, Running DEF Holds
<1> QED
  BY <1>1, <1>5, <1>6, <1>7, <1>9, <1>10, LockTyped, OwnerStep

\* The guard of a scoped lock is dropped: the flag of the lock is set.
LEMMA UnlockKeeps ==
  ASSUME IInv, NEW o, Unlock(o)
  PROVE  IInv'
<1>1. Me.pc = "run" /\ fault = "none" /\ UNCHANGED <<enabled, nesting, cell, updates>>
  BY DEF Unlock, Body, At, cellVars
<1>2. PICK R : Me \in Frames(R)
  BY Running
<1>3. Me.locks \in Seq(R) /\ Len(Me.locks) \in Nat /\ Me.withs \in Nat
  BY <1>2, SectionsCount
<1>4. /\ \A n \in 1 .. Len(Me.locks) : Me.locks[n] \in owned
      /\ \A n, m \in 1 .. Len(Me.locks) : Me.locks[m] = Me.locks[n] => m = n
  BY <1>1, Running DEF Holds
<1>14. PICK n \in DOMAIN Me.locks :
        /\ Me.locks[n] = o /\ owned' = owned \ {o}
        /\ frames' = [frames EXCEPT ![Depth].locks = Without(@, n),
                                   ![Depth].pc = IF o \in owned THEN "uncount" ELSE "run"]
  BY Zenon DEF Unlock
<1>5. n \in 1 .. Len(Me.locks) /\ Me.locks[n] = o /\ owned' = owned \ {o} /\ o \in owned
  BY <1>3, <1>4, <1>14
<1> DEFINE l == Without(Me.locks, n)
           g == [Me EXCEPT !.locks = l, !.pc = "uncount"]
<1>6. frames' = [frames EXCEPT ![Len(frames)] = g]
  BY <1>5, <1>14, Zenon DEF Me, Depth
<1>7. /\ l \in Seq(R) /\ Len(l) = Len(Me.locks) - 1
      /\ \A i \in 1 .. Len(Me.locks) - 1 : l[i] = Me.locks[Skip(n, i)]
  BY <1>3, <1>5, WithoutOne, Zenon
<1> HIDE DEF l
<1>8. /\ g \in Frames(R) /\ g.pc = "uncount" /\ g.kind = Me.kind /\ g.locks = l
      /\ g.guards = Me.guards /\ g.withs = Me.withs
  <2>1. "uncount" \in Pcs
    BY DEF Pcs
  <2> QED
    BY <2>1, <1>2, <1>7, Zenon DEF Frames
<1> HIDE DEF g
<1>9. Replaces(g)
  BY <1>6, <1>8 DEF Replaces
<1>10. Sections(Me) = Sections(g) + 1 /\ Sections(g) \in Nat
  <2>1. /\ Me.withs \in Nat /\ g.withs \in Nat /\ Len(Me.locks) \in Nat /\ Len(g.locks) \in Nat
        /\ Me.withs = g.withs /\ Len(Me.locks) = Len(g.locks) + 1
    BY <1>3, <1>5, <1>7, <1>8
  <2> QED
    BY <2>1, <1>8, SectionsMore, SectionsCount
<1>11. /\ Me.kind \in {"thread", "isr"} /\ nesting = Sections(Me) /\ (enabled <=> nesting = 0)
       /\ Keyed(Me)
  BY <1>1, BodyOwns
<1>12. Owner(g, enabled', nesting', cell')
  BY <1>1, <1>8, <1>10, <1>11, LockTyped DEF Owner, Keyed
<1>13. Holds(g, owned')
  <2>1. ASSUME NEW i \in 1 .. Len(l)
        PROVE  Skip(n, i) \in 1 .. Len(Me.locks) /\ Skip(n, i) # n /\ l[i] = Me.locks[Skip(n, i)]
    BY <1>3, <1>5, <1>7 DEF Skip
  <2>2. ASSUME NEW i \in 1 .. Len(l), NEW m \in 1 .. Len(l), Skip(n, m) = Skip(n, i)
        PROVE  m = i
    BY <2>2, <1>3, <1>5, <1>7 DEF Skip
  <2>3. \A i \in 1 .. Len(l) : l[i] \in owned'
    BY <2>1, <1>4, <1>5, Zenon
  <2>4. ASSUME NEW i \in 1 .. Len(l), NEW m \in 1 .. Len(l), l[m] = l[i]
        PROVE  m = i
    BY <2>1, <2>2, <2>4, <1>4
  <2> QED
    BY <2>3, <2>4, <1>8 DEF Holds
<1> QED
  BY <1>1, <1>8, <1>9, <1>11, <1>12, <1>13, LockTyped, OwnerStep

\* The end of a section is counted, and of the last one restores the interrupts.
LEMMA UncountKeeps ==
  ASSUME IInv, Uncount
  PROVE  IInv'
<1>1. /\ Me.pc = "uncount" /\ nesting' = nesting - 1 /\ fault = "none"
      /\ UNCHANGED <<enabled, owned, cell, updates>>
  BY DEF Uncount, At, cellVars
<1>2. PICK at \in {"run", "restore"} : Goto(at) /\ (at = "restore" <=> nesting = 1)
  BY DEF Uncount
<1>3. at \in Pcs
  BY <1>2 DEF Pcs
<1>4. PICK Q, g : g \in Frames(Q) /\ Replaces(g) /\ Same(g) /\ g.pc = at /\ g.guards = Me.guards
  BY <1>2, <1>3, PlaceChanged
<1>5. Me.kind \in {"thread", "isr"} /\ Owner(Me, enabled, nesting, cell)
  BY <1>1, CallOwns
<1>6. Keyed(Me) /\ nesting = Sections(Me) + 1 /\ ~enabled
  BY <1>1, <1>5 DEF Owner, Context
<1>7. Sections(g) = Sections(Me) /\ Holds(g, owned') /\ Sections(g) \in Nat
  BY <1>1, <1>4, SameHolds, SectionsCount
<1>8. Owner(g, enabled', nesting', cell') /\ nesting' \in Nat
  <2>1. CASE at = "run"
    BY <2>1, <1>1, <1>2, <1>4, <1>6, <1>7 DEF Owner, Keyed, Same
  <2>2. CASE at = "restore"
    <3>1. Sections(g) = 0 /\ nesting' = 0
      BY <2>2, <1>1, <1>2, <1>6, <1>7
    <3>2. Free(g) /\ Keyed(g)
      BY <3>1, <1>4, <1>6, SectionsCount DEF Keyed, Free, Same
    <3> QED
      BY <3>1, <3>2, <2>2, <1>1, <1>4, <1>6 DEF Owner
  <2> QED
    BY <2>1, <2>2, <1>2
<1> QED
  BY <1>1, <1>4, <1>5, <1>7, <1>8, LockTyped, OwnerStep

\* Interrupts are enabled when no section is left.
LEMMA RestoreKeeps ==
  ASSUME IInv, Restore
  PROVE  IInv'
<1>1. /\ Me.pc = "restore" /\ enabled' = TRUE /\ fault = "none"
      /\ UNCHANGED <<nesting, owned, cell, updates>>
  BY DEF Restore, At, cellVars
<1>2. "run" \in Pcs /\ Goto("run")
  BY DEF Restore, Pcs
<1>3. PICK Q, g : g \in Frames(Q) /\ Replaces(g) /\ Same(g) /\ g.pc = "run" /\ g.guards = Me.guards
  BY <1>2, PlaceChanged
<1>4. Me.kind \in {"thread", "isr"} /\ Owner(Me, enabled, nesting, cell)
  BY <1>1, CallOwns
<1>5. Free(Me) /\ nesting = 0
  BY <1>1, <1>4 DEF Owner, Context
<1>6. Sections(g) = 0 /\ Holds(g, owned')
  BY <1>1, <1>3, <1>5, SameHolds DEF Free
<1>7. Owner(g, enabled', nesting', cell')
  BY <1>1, <1>3, <1>5, <1>6 DEF Owner, Keyed, Free
<1> QED
  BY <1>1, <1>3, <1>4, <1>6, <1>7, LockTyped, OwnerStep, Zenon

-----------------------------------------------------------------------------
(* Cells and storage                                                       *)

\* The owner goes on and its sections stay.
LEMMA OwnerMoves ==
  ASSUME IInv, Me.kind \in {"thread", "isr"}, fault = "none",
         NEW Q, NEW g \in Frames(Q), Replaces(g), Same(g),
         UNCHANGED <<enabled, nesting, owned>>, cell' \in Nat, cell' = updates',
         Owner(g, enabled, nesting, cell')
  PROVE  IInv'
<1>1. Holds(g, owned')
  BY SameHolds
<1>2. enabled' \in BOOLEAN /\ nesting' \in Nat /\ Owner(g, enabled', nesting', cell')
  BY LockTyped
<1> QED
  BY <1>1, <1>2, OwnerStep

\* A context in a `with` section has interrupts disabled.
LEMMA WithDisables ==
  ASSUME IInv, Me.pc = "run", Me.withs > 0
  PROVE  nesting > 0 /\ ~enabled
BY Running, BodyOwns, SectionsCount

LEMMA UpdateGetKeeps ==
  ASSUME IInv, UpdateGet
  PROVE  IInv'
<1>1. /\ Me.pc = "run" /\ fault = "none" /\ Me.withs > 0
      /\ UNCHANGED <<enabled, nesting, owned, cell, updates>>
  BY DEF UpdateGet, Doing, Body, At, lockVars, cellVars
<1>2. "set" \in Pcs /\ Writes(cell, "set")
  BY DEF UpdateGet, Writes, Pcs
<1>3. PICK Q, g :
           g \in Frames(Q) /\ Replaces(g) /\ g.pc = "set" /\ g.reg = cell /\ Same(g) /\ g.guards = Me.guards
  BY <1>2, LocalWritten
<1>4. Me.kind \in {"thread", "isr"} /\ nesting = Sections(Me) /\ nesting > 0 /\ ~enabled /\ Keyed(Me)
  BY <1>1, BodyOwns, WithDisables
<1>5. Owner(g, enabled, nesting, cell')
  BY <1>1, <1>3, <1>4, SameHolds DEF Owner, Keyed, Same
<1> QED
  BY <1>1, <1>3, <1>4, <1>5, LockTyped, OwnerMoves

\* The value that was read is still in the cell.
LEMMA UpdateSetKeeps ==
  ASSUME IInv, UpdateSet
  PROVE  IInv'
<1>1. /\ Me.pc = "set" /\ fault = "none" /\ cell' = Me.reg + 1 /\ updates' = updates + 1
      /\ UNCHANGED <<enabled, nesting, owned>>
  BY DEF UpdateSet, At, lockVars
<1>2. "run" \in Pcs /\ Writes(0, "run")
  BY DEF UpdateSet, Writes, Pcs
<1>3. PICK Q, g :
           g \in Frames(Q) /\ Replaces(g) /\ g.pc = "run" /\ g.reg = 0 /\ Same(g) /\ g.guards = Me.guards
  BY <1>2, LocalWritten
<1>4. Me.kind \in {"thread", "isr"} /\ Owner(Me, enabled, nesting, cell)
  BY <1>1, CallOwns
<1>5. Keyed(Me) /\ nesting = Sections(Me) /\ nesting > 0 /\ ~enabled /\ Me.reg = cell
  BY <1>1, <1>4 DEF Owner, Context
<1>6. cell' \in Nat /\ cell' = updates'
  BY <1>1, <1>5, LockTyped
<1>7. Owner(g, enabled, nesting, cell')
  BY <1>3, <1>5, LockTyped, SameHolds DEF Owner, Keyed, Same
<1> QED
  BY <1>1, <1>3, <1>4, <1>6, <1>7, OwnerMoves

\* A frame whose guards change
Guarded(t) == [Me EXCEPT !.guards = t]
Regards(t) == frames' = [frames EXCEPT ![Depth].guards = t]

\* Guards are made in a `with` section, and dropped anywhere.
LEMMA GuardsChange ==
  ASSUME IInv, Me.pc = "run", fault = "none", NEW t \in Seq(GuardSet), Regards(t),
         Me.withs > 0 \/ Me.guards # <<>>,
         UNCHANGED <<enabled, nesting, owned, cell, updates>>
  PROVE  IInv'
<1>1. PICK R : Me \in Frames(R)
  BY Running
<1> DEFINE g == Guarded(t)
<1>2. /\ g \in Frames(R) /\ g.pc = "run" /\ g.kind = Me.kind
      /\ g.withs = Me.withs /\ g.locks = Me.locks /\ g.guards = t
  BY <1>1 DEF Guarded, Frames
<1>3. frames' = [frames EXCEPT ![Len(frames)] = g]
  BY DEF Regards, Guarded, Me, Depth
<1> HIDE DEF g
<1>4. Replaces(g) /\ Same(g)
  BY <1>2, <1>3 DEF Replaces, Same
<1>5. /\ Me.kind \in {"thread", "isr"} /\ nesting = Sections(Me) /\ (enabled <=> nesting = 0)
      /\ Keyed(Me)
  BY BodyOwns
<1>6. Me.withs > 0
  BY <1>5 DEF Keyed
<1>7. Owner(g, enabled, nesting, cell')
  BY <1>2, <1>4, <1>5, <1>6, SameHolds DEF Owner, Keyed
<1> QED
  BY <1>2, <1>4, <1>5, <1>7, LockTyped, OwnerMoves

LEMMA GuardKeeps ==
  ASSUME IInv, Me.pc = "run", fault = "none", Me.withs > 0,
         NEW kind \in {"mut", "shared"}, NEW free, NEW new, Guard(kind, free, new)
  PROVE  IInv'
<1>1. UNCHANGED <<enabled, nesting, owned, cell, updates>>
  BY DEF Guard, lockVars
<1>2. CASE free
  <2>1. PICK R : Me \in Frames(R)
    BY Running
  <2> DEFINE a == [kind |-> kind, key |-> Me.withs]
  <2>2. a \in GuardSet
    BY <2>1, SectionsCount DEF GuardSet
  <2>3. Append(Me.guards, a) \in Seq(GuardSet)
    BY <2>1, <2>2 DEF Frames
  <2>4. Regards(Append(Me.guards, a))
    BY <1>2 DEF Guard, Regards, Me
  <2> HIDE DEF a
  <2> QED
    BY <1>1, <2>3, <2>4, GuardsChange, Zenon
<1>3. CASE ~free
  BY <1>1, <1>3, NothingMoves DEF Guard
<1> QED
  BY <1>2, <1>3

\* The calls that borrow the ref cell
LEMMA BorrowKeeps ==
  ASSUME IInv, BorrowShared \/ TryBorrow \/ BorrowMut \/ TryBorrowMut \/ CloneRef
  PROVE  IInv'
<1>1. CanBorrow /\ (NewImmutable \/ NewMutable)
  BY DEF BorrowShared, TryBorrow, BorrowMut, TryBorrowMut, CloneRef
<1>2. Me.pc = "run" /\ fault = "none" /\ Me.withs > 0
  BY <1>1 DEF CanBorrow, Doing, Body, At
<1>3. CASE NewImmutable
  BY <1>2, <1>3, GuardKeeps DEF NewImmutable
<1>4. CASE NewMutable
  BY <1>2, <1>4, GuardKeeps DEF NewMutable
<1> QED
  BY <1>1, <1>3, <1>4

LEMMA DropKeeps ==
  ASSUME IInv, Drop
  PROVE  IInv'
<1>1. Me.pc = "run" /\ fault = "none" /\ UNCHANGED <<enabled, nesting, owned, cell, updates>>
  BY DEF Drop, Body, At, lockVars
<1>2. PICK k \in DOMAIN Me.guards : Regards(Without(Me.guards, k))
  BY Zenon DEF Drop, Regards, Me
<1>3. PICK R : Me \in Frames(R)
  BY Running
<1>4. Me.guards \in Seq(GuardSet) /\ k \in 1 .. Len(Me.guards)
  BY <1>2, <1>3 DEF Frames
<1>5. Without(Me.guards, k) \in Seq(GuardSet) /\ Me.guards # <<>>
  BY <1>4, WithoutOne
<1> QED
  BY <1>1, <1>2, <1>5, GuardsChange

\* A frame that begins or ends to replace the value
Replaced(r, at, t) == [Me EXCEPT !.reg = r, !.pc = at, !.guards = t]
ReplacedBy(r, at, t) ==
  frames' = [frames EXCEPT ![Depth].reg = r, ![Depth].pc = at, ![Depth].guards = t]

LEMMA ValueReplaced ==
  ASSUME IInv, NEW r, NEW at \in Pcs, NEW t \in Seq(GuardSet), ReplacedBy(r, at, t)
  PROVE  \E Q, g :
           g \in Frames(Q) /\ Replaces(g) /\ Same(g) /\ g.pc = at /\ g.guards = t /\ g.reg = r
<1>1. PICK R : Me \in Frames(R)
  BY Running
<1>2. Me \in Frames(R \cup {r})
  BY <1>1, FramesGrow
<1> DEFINE g == Replaced(r, at, t)
<1>3. /\ g \in Frames(R \cup {r}) /\ g.pc = at /\ g.reg = r /\ g.kind = Me.kind
      /\ g.withs = Me.withs /\ g.locks = Me.locks /\ g.guards = t
  BY <1>2, Zenon DEF Replaced, Frames
<1>4. frames' = [frames EXCEPT ![Len(frames)] = g]
  BY Zenon DEF ReplacedBy, Replaced, Me, Depth
<1> HIDE DEF g
<1> QED
  BY <1>3, <1>4, Zenon DEF Replaces, Same

LEMMA ReplaceKeeps ==
  ASSUME IInv, Replace
  PROVE  IInv'
<1>1. /\ Me.pc = "run" /\ fault = "none" /\ Me.withs > 0
      /\ UNCHANGED <<enabled, nesting, owned, cell, updates>>
  BY DEF Replace, Doing, Body, At, lockVars
<1>2. CASE flag = 0
  <2> DEFINE t == Append(Me.guards, [kind |-> "mut", key |-> Me.withs])
  <2>1. PICK R : Me \in Frames(R)
    BY Running
  <2>2. [kind |-> "mut", key |-> Me.withs] \in GuardSet
    BY <1>1, <2>1, SectionsCount DEF GuardSet
  <2>3. t \in Seq(GuardSet)
    BY <2>1, <2>2 DEF Frames
  <2>4. "replace" \in Pcs /\ ReplacedBy(cell, "replace", t)
    BY <1>2 DEF Replace, ReplacedBy, Me, Pcs
  <2> HIDE DEF t
  <2>5. PICK Q, g : /\ g \in Frames(Q) /\ Replaces(g) /\ Same(g)
                    /\ g.pc = "replace" /\ g.guards = t /\ g.reg = cell
    BY <2>3, <2>4, ValueReplaced
  <2>6. Me.kind \in {"thread", "isr"} /\ nesting = Sections(Me) /\ nesting > 0 /\ ~enabled
    BY <1>1, BodyOwns, WithDisables
  <2>7. Owner(g, enabled, nesting, cell')
    BY <1>1, <2>5, <2>6, SameHolds DEF Owner, Keyed, Same
  <2> QED
    BY <1>1, <2>5, <2>6, <2>7, LockTyped, OwnerMoves
<1>3. CASE flag # 0
  BY <1>1, <1>3, NothingMoves DEF Replace
<1> QED
  BY <1>2, <1>3

LEMMA ReplaceSetKeeps ==
  ASSUME IInv, ReplaceSet
  PROVE  IInv'
<1>1. /\ Me.pc = "replace" /\ fault = "none" /\ cell' = Me.reg + 1 /\ updates' = updates + 1
      /\ UNCHANGED <<enabled, nesting, owned>>
  BY DEF ReplaceSet, At, lockVars
<1> DEFINE t == <<>>
<1>2. "run" \in Pcs /\ t \in Seq(GuardSet) /\ ReplacedBy(0, "run", t)
  BY DEF ReplaceSet, ReplacedBy, Pcs
<1> HIDE DEF t
<1>3. PICK Q, g : g \in Frames(Q) /\ Replaces(g) /\ Same(g) /\ g.pc = "run" /\ g.guards = t
  BY <1>2, ValueReplaced
<1>4. Me.kind \in {"thread", "isr"} /\ Owner(Me, enabled, nesting, cell)
  BY <1>1, CallOwns
<1>5. nesting = Sections(Me) /\ nesting > 0 /\ ~enabled /\ Me.reg = cell
  BY <1>1, <1>4 DEF Owner, Context
<1>6. cell' \in Nat /\ cell' = updates'
  BY <1>1, <1>5, LockTyped
<1>7. Owner(g, enabled, nesting, cell')
  BY <1>3, <1>5, LockTyped, SameHolds DEF Owner, Keyed, t
<1> QED
  BY <1>1, <1>3, <1>4, <1>6, <1>7, OwnerMoves

\* A key is put in a storage, by a context between two calls.
LEMMA PutKeyKeeps ==
  ASSUME IInv, Me.pc = "run", fault = "none", NEW c, NEW k, PutKey(c, k),
         UNCHANGED <<enabled, nesting, owned, cell, updates>>
  PROVE  IInv'
<1>1. CASE Entries(c, NoKey) = {}
  BY <1>1, NothingMoves DEF PutKey
<1>2. CASE Entries(c, NoKey) # {}
  <2>1. "put" \in Pcs /\ \E r : Writes(r, "put")
    BY <1>2 DEF PutKey, Writes, Pcs
  <2>2. PICK r : Writes(r, "put")
    BY <2>1
  <2>3. PICK Q, g : g \in Frames(Q) /\ Replaces(g) /\ Same(g) /\ g.pc = "put" /\ g.guards = Me.guards
    BY <2>1, <2>2, LocalWritten
  <2>4. /\ Me.kind \in {"thread", "isr"} /\ nesting = Sections(Me) /\ (enabled <=> nesting = 0)
        /\ Keyed(Me)
    BY BodyOwns
  <2>5. Owner(g, enabled, nesting, cell')
    BY <2>3, <2>4, SameHolds DEF Owner, Keyed, Same
  <2> QED
    BY <2>3, <2>4, <2>5, LockTyped, OwnerMoves
<1> QED
  BY <1>1, <1>2

LEMMA PutValueKeeps ==
  ASSUME IInv, PutValue
  PROVE  IInv'
<1>1. Me.pc = "put" /\ fault = "none" /\ UNCHANGED <<enabled, nesting, owned, cell, updates>>
  BY DEF PutValue, At, lockVars, cellVars
<1>2. "run" \in Pcs /\ Writes(0, "run")
  BY DEF PutValue, Writes, Pcs
<1>3. PICK Q, g : g \in Frames(Q) /\ Replaces(g) /\ Same(g) /\ g.pc = "run" /\ g.guards = Me.guards
  BY <1>2, LocalWritten
<1>4. /\ Me.kind \in {"thread", "isr"} /\ nesting = Sections(Me) /\ (enabled <=> nesting = 0)
      /\ Keyed(Me)
  BY <1>1, BodyOwns
<1>5. Owner(g, enabled, nesting, cell')
  BY <1>1, <1>3, <1>4, SameHolds DEF Owner, Keyed, Same
<1> QED
  BY <1>1, <1>3, <1>4, <1>5, LockTyped, OwnerMoves

\* The calls that move no context; a whole `with` section leaves interrupts as they were.
LEMMA QuickKeeps ==
  ASSUME IInv, NEW h, Remove \/ Build(h) \/ SetStorage(h) \/ Enable(h) \/ Request(h)
  PROVE  IInv'
<1>1. UNCHANGED <<frames, nesting, owned, cell, updates>> /\ Me.pc = "run" /\ fault = "none"
  BY Zenon DEF Remove, Build, SetStorage, Enable, Request, WithAtOnce, Doing, Body, At, lockVars, cellVars
<1>2. enabled' = enabled \/ enabled' = (nesting = 0 \/ enabled)
  BY Zenon DEF Remove, Build, SetStorage, Enable, Request, WithAtOnce, lockVars
<1>3. enabled' = enabled
  BY <1>1, <1>2, BodyOwns, LockTyped
<1> QED
  BY <1>1, <1>3, NothingMoves

-----------------------------------------------------------------------------
(* Dispatch                                                                *)

\* A context goes on in interrupt_context.
LEMMA ContextStep ==
  ASSUME IInv, fault = "none", Me.pc \in Context \cup {"vector"},
         NEW Q, NEW g \in Frames(Q), Replaces(g), Same(g), g.guards = Me.guards,
         g.pc \in Context \/ (g.pc = "run" /\ Me.kind = "isr"),
         UNCHANGED <<enabled, nesting, owned, cell, updates>>
  PROVE  IInv'
<1>1. Free(Me) => Free(g) /\ Keyed(g)
  BY SameHolds DEF Free, Keyed
<1>2. CASE Me.kind \in {"attach", "poll"}
  <2>1. Passive(g)
    BY <1>1, <1>2, Running DEF Passive
  <2> QED
    BY <1>2, <2>1, PassiveStep
<1>3. CASE Me.kind \in {"thread", "isr"}
  <2>1. Owner(Me, enabled, nesting, cell)
    BY <1>3, Running
  <2>2. Free(Me) /\ nesting = 0 /\ enabled /\ Me.kind = "isr"
    BY <2>1 DEF Owner, Context
  <2>3. Free(g) /\ Keyed(g) /\ g.kind = "isr" /\ Sections(g) = 0
    BY <1>1, <2>2 DEF Replaces, Free
  <2>4. Owner(g, enabled, nesting, cell')
    BY <2>2, <2>3 DEF Owner
  <2> QED
    BY <1>3, <2>4, LockTyped, OwnerMoves
<1> QED
  BY <1>2, <1>3, Running

LEMMA VectorKeeps ==
  ASSUME IInv, Vector
  PROVE  IInv'
<1>1. Me.pc = "vector" /\ fault = "none" /\ UNCHANGED <<enabled, nesting, owned, cell, updates>>
  BY DEF Vector, At, lockVars, cellVars
<1>2. PICK R : Me \in Frames(R)
  BY Running
<1> DEFINE v == vector[Me.num]
           g == [Me EXCEPT !.icb = v, !.pc = "switch"]
<1>3. frames' = [frames EXCEPT ![Len(frames)] = g]
  BY Zenon DEF Vector, Me, Depth
<1> HIDE DEF v
<1>4. Me \in Frames(R \cup {v}) /\ "switch" \in Pcs /\ "switch" \in Context
  BY <1>2, FramesGrow DEF Pcs, Context
<1>5. /\ g \in Frames(R \cup {v}) /\ g.pc = "switch" /\ g.kind = Me.kind
      /\ g.withs = Me.withs /\ g.locks = Me.locks /\ g.guards = Me.guards
  BY <1>4, Zenon DEF Frames
<1> HIDE DEF g
<1>6. Replaces(g) /\ Same(g)
  BY <1>3, <1>5 DEF Replaces, Same
<1> QED
  BY <1>1, <1>4, <1>5, <1>6, ContextStep

LEMMA SwitchKeeps ==
  ASSUME IInv, Switch
  PROVE  IInv'
<1>1. /\ Me.pc = "switch" /\ fault = "none" /\ Me.pc \in Context
      /\ UNCHANGED <<enabled, nesting, owned, cell, updates>>
  BY DEF Switch, At, lockVars, cellVars, Context
<1>2. PICK R : Me \in Frames(R)
  BY Running
<1>3. PICK at \in {"run", "poll"} :
        /\ at = "run" => Me.kind = "isr"
        /\ frames' = [frames EXCEPT ![Len(frames)] = [Me EXCEPT !.prev = current, !.pc = at]]
  BY Zenon DEF Switch, Me, Depth
<1>4. at \in Pcs /\ (at \in Context \/ (at = "run" /\ Me.kind = "isr"))
  BY <1>3 DEF Pcs, Context
<1> DEFINE g == [Me EXCEPT !.prev = current, !.pc = at]
<1>5. Me \in Frames(R \cup {current})
  BY <1>2, FramesGrow
<1>6. /\ g \in Frames(R \cup {current}) /\ g.pc = at /\ g.kind = Me.kind
      /\ g.withs = Me.withs /\ g.locks = Me.locks /\ g.guards = Me.guards
  BY <1>4, <1>5, Zenon DEF Frames
<1>7. Replaces(g) /\ Same(g)
  BY <1>3, <1>6 DEF Replaces, Same
<1> HIDE DEF g
<1> QED
  BY <1>1, <1>4, <1>6, <1>7, ContextStep

\* The closure of the handler has left its sections when it returns.
LEMMA EndClosureKeeps ==
  ASSUME IInv, EndClosure
  PROVE  IInv'
<1>1. /\ Me.pc = "run" /\ fault = "none" /\ Me.kind = "isr" /\ Sections(Me) = 0 /\ Goto("poll")
      /\ UNCHANGED <<enabled, nesting, owned, cell, updates>>
  BY DEF EndClosure, Body, At, lockVars, cellVars
<1>2. "poll" \in Pcs /\ "poll" \in Context
  BY DEF Pcs, Context
<1>3. PICK Q, g : g \in Frames(Q) /\ Replaces(g) /\ Same(g) /\ g.pc = "poll" /\ g.guards = Me.guards
  BY <1>1, <1>2, PlaceChanged
<1>4. nesting = 0 /\ enabled /\ Keyed(Me)
  BY <1>1, BodyOwns
<1>5. Sections(g) = 0 /\ g.withs = 0
  BY <1>1, <1>3, SameHolds, SectionsCount
<1>6. Free(g) /\ Keyed(g) /\ g.kind = "isr"
  BY <1>1, <1>3, <1>4, <1>5 DEF Keyed, Free, Same, Replaces
<1>7. Owner(g, enabled, nesting, cell')
  BY <1>2, <1>3, <1>4, <1>6 DEF Owner
<1> QED
  BY <1>1, <1>3, <1>7, LockTyped, OwnerMoves

\* The other steps of interrupt_context that change only the place
LEMMA PlaceStep ==
  ASSUME IInv, fault = "none", Me.pc \in Context, NEW at \in Context, Goto(at),
         UNCHANGED <<enabled, nesting, owned, cell, updates>>
  PROVE  IInv'
<1>1. at \in Pcs
  BY DEF Pcs
<1>2. PICK Q, g : g \in Frames(Q) /\ Replaces(g) /\ Same(g) /\ g.pc = at /\ g.guards = Me.guards
  BY <1>1, PlaceChanged
<1> QED
  BY <1>2, ContextStep

\* A context g is put over the others; the frame below it may have become f.
Pushes(f, g) ==
  /\ Len(frames') = Len(frames) + 1
  /\ frames'[Len(frames)] = f /\ frames'[Len(frames) + 1] = g
  /\ \A k \in 1 .. Len(frames) - 1 : frames'[k] = frames[k]

\* attach and poll_executor put a context over the one that runs.
LEMMA PassivePushed ==
  ASSUME IInv, fault = "none", NEW R, Typed(Frames(R)), NEW Q, frames' \in Seq(Frames(Q)),
         NEW f, NEW g, Pushes(f, g), f.kind = Me.kind,
         g.kind \in {"attach", "poll"}, Passive(g),
         IF Me.kind \in {"attach", "poll"} THEN Passive(f) ELSE Owner(f, enabled', nesting', cell'),
         Holds(f, owned), enabled' \in BOOLEAN, nesting' \in Nat, enabled' => nesting' = 0,
         UNCHANGED <<owned, cell, updates>>,
         Me.kind \in {"attach", "poll"} => UNCHANGED <<enabled, nesting>>
  PROVE  IInv'
<1>1. Len(frames) \in Nat /\ Len(frames) > 0 /\ Len(frames) \in 1 .. Len(frames)
  BY DEF Typed
<1>2. \A k \in 1 .. Len(frames) : frames'[k].kind = frames[k].kind
  BY <1>1 DEF Pushes, Me, Depth
<1>3. Typed(Frames(Q))'
  <2>1. frames'[Len(frames) + 1].kind # "thread"
    BY DEF Pushes
  <2>2. \A k \in 1 .. Len(frames) + 1 : k \in 1 .. Len(frames) \/ k = Len(frames) + 1
    BY <1>1
  <2>3. \A k \in 1 .. Len(frames) + 1 : frames'[k].kind = "thread" <=> k = 1
    BY <2>1, <2>2, <1>1, <1>2 DEF Typed
  <2> QED
    BY <2>3, <1>1 DEF Typed, Pushes
<1>4. ASSUME NEW k \in 1 .. Len(frames) PROVE Covered(k)' <=> Covered(k)
  <2>1. /\ \A j \in k + 1 .. Len(frames) : j \in 1 .. Len(frames) /\ j \in k + 1 .. Len(frames) + 1
        /\ \A j \in k + 1 .. Len(frames) + 1 : j \in k + 1 .. Len(frames) \/ j = Len(frames) + 1
    BY <1>1
  <2>2. frames'[Len(frames) + 1].kind # "isr" /\ Len(frames') = Len(frames) + 1
    BY DEF Pushes
  <2> QED
    BY <2>1, <2>2, <1>2 DEF Covered
<1>8. \A k \in 1 .. Len(frames') : k = Len(frames) + 1 \/ k = Len(frames) \/ k \in 1 .. Len(frames) - 1
  BY <1>1, SMTT(30) DEF Pushes
<1>5. ASSUME NEW k \in 1 .. Len(frames') PROVE
        IF frames'[k].kind \in {"attach", "poll"} THEN Passive(frames'[k])
        ELSE IF Covered(k)' THEN Quiet(frames'[k])
        ELSE Owner(frames'[k], enabled', nesting', cell')
  <2>1. CASE k = Len(frames) + 1
    BY <2>1 DEF Pushes
  <2>2. CASE k = Len(frames)
    <3>1. ~Covered(k)
      BY <2>2, <1>1, SMTT(30) DEF Covered
    <3> QED
      BY <2>2, <3>1, <1>1, <1>4 DEF Pushes
  <2>3. CASE k \in 1 .. Len(frames) - 1
    <3>1. k \in 1 .. Len(frames) /\ frames'[k] = frames[k]
      BY <2>3, <1>1 DEF Pushes
    <3>2. CASE Me.kind \in {"attach", "poll"}
      BY <3>1, <3>2, <1>4, SMTT(30) DEF IInv, Places
    <3>3. CASE Me.kind \notin {"attach", "poll"}
      <4>1. Me.kind = "isr"
        BY <3>3, <2>3, <1>1, Running DEF Typed, Me, Depth
      <4>2. Covered(k)
        BY <4>1, <2>3, <1>1 DEF Covered, Me, Depth
      <4> QED
        BY <4>2, <3>1, <1>4, SMTT(30) DEF IInv, Places
    <3> QED
      BY <3>2, <3>3
  <2> QED
    BY <2>1, <2>2, <2>3, <1>8, SMTT(30)
<1>6. ASSUME NEW k \in 1 .. Len(frames') PROVE Holds(frames'[k], owned')
  <2>1. CASE k = Len(frames) + 1
    <3>1. g \in Frames(Q)
      BY <1>1 DEF Pushes
    <3> QED
      BY <2>1, <3>1, FreeHolds DEF Pushes, Passive
  <2>2. CASE k = Len(frames)
    BY <2>2 DEF Pushes
  <2>3. CASE k \in 1 .. Len(frames) - 1
    <3>1. k \in 1 .. Len(frames) /\ frames'[k] = frames[k]
      BY <2>3, <1>1 DEF Pushes
    <3> QED
      BY <3>1, SMTT(30) DEF IInv, Held
  <2> QED
    BY <2>1, <2>2, <2>3, <1>8
<1>7. Places' /\ Held'
  BY <1>5, <1>6 DEF Places, Held
<1> QED
  BY <1>3, <1>7 DEF IInv

\* A new frame
LEMMA NewFrame ==
  ASSUME NEW kind \in {"thread", "isr", "attach", "poll"}, NEW h, NEW at \in Pcs
  PROVE  /\ Frame(kind, h, at) \in Frames({h, 0, Null}) /\ Frame(kind, h, at).kind = kind
         /\ Frame(kind, h, at).pc = at /\ Free(Frame(kind, h, at))
<1>1. <<>> \in Seq({h, 0, Null}) /\ <<>> \in Seq(GuardSet)
  OBVIOUS
<1> QED
  BY <1>1 DEF Frame, Frames, Free, Sections

\* attach runs interrupt_context for the handler inside its `with` section.
LEMMA AttachKeeps ==
  ASSUME IInv, NEW h, Attach(h)
  PROVE  IInv'
<1>1. /\ Me.pc = "run" /\ fault = "none" /\ Me.kind = "thread" /\ enabled' = FALSE
      /\ nesting' = nesting + 1 /\ UNCHANGED <<owned, cell, updates>>
  BY DEF Attach, Body, At, cellVars
<1>2. PICK R : Typed(Frames(R))
  BY DEF IInv
<1> DEFINE f == Placed("uncount")
           g == Frame("attach", h, "switch")
           Q == R \cup {h, 0, Null}
<1>3. Len(frames) \in 1 .. Len(frames) /\ Me \in Frames(R) /\ Len(frames) \in Nat
  BY <1>2 DEF Typed, Me, Depth
<1>4. "uncount" \in Pcs /\ "switch" \in Pcs /\ "switch" \in Context
  BY DEF Pcs, Context
<1>5. /\ f \in Frames(R) /\ f.pc = "uncount" /\ f.kind = Me.kind
      /\ f.withs = Me.withs /\ f.locks = Me.locks /\ f.guards = Me.guards
  BY <1>3, <1>4 DEF Placed, Frames
<1>6. g \in Frames({h, 0, Null}) /\ g.kind = "attach" /\ g.pc = "switch" /\ Free(g)
  BY <1>4, NewFrame
<1>7. frames' = Append([frames EXCEPT ![Len(frames)] = f], g)
  BY DEF Attach, Placed, Me, Depth
<1> HIDE DEF f, g
<1>8. /\ frames \in Seq(Frames(Q)) /\ f \in Frames(Q) /\ g \in Frames(Q)
  <2>1. /\ Seq(Frames(R)) \subseteq Seq(Frames(Q)) /\ Frames({h, 0, Null}) \subseteq Frames(Q)
        /\ Frames(R) \subseteq Frames(Q)
    BY FramesGrow
  <2> QED
    BY <2>1, <1>2, <1>5, <1>6, Zenon DEF Typed
<1> HIDE DEF Q
<1>9. frames' \in Seq(Frames(Q)) /\ Pushes(f, g)
  <2> DEFINE F == [frames EXCEPT ![Len(frames)] = f]
  <2>1. /\ F \in Seq(Frames(Q)) /\ Len(F) = Len(frames) /\ F[Len(frames)] = f
        /\ \A k \in 1 .. Len(frames) - 1 : F[k] = frames[k]
    BY <1>3, <1>8
  <2>2. frames' = Append(F, g)
    BY <1>7
  <2> HIDE DEF F
  <2> QED
    BY <2>1, <2>2, <1>3, <1>8 DEF Pushes
<1>10. nesting = Sections(Me) /\ Keyed(Me)
  BY <1>1, BodyOwns
<1>11. Sections(f) = Sections(Me) /\ Holds(f, owned)
  BY <1>1, <1>5, SameHolds DEF Same
<1>12. Owner(f, enabled', nesting', cell')
  BY <1>1, <1>5, <1>10, <1>11, LockTyped DEF Owner, Keyed
<1>13. Passive(g)
  BY <1>4, <1>6 DEF Passive
<1>14. /\ IF Me.kind \in {"attach", "poll"} THEN Passive(f) ELSE Owner(f, enabled', nesting', cell')
       /\ Me.kind \in {"attach", "poll"} => UNCHANGED <<enabled, nesting>>
       /\ enabled' \in BOOLEAN /\ nesting' \in Nat /\ (enabled' => nesting' = 0)
  <2>1. Me.kind \notin {"attach", "poll"}
    BY <1>1
  <2>2. enabled' \in BOOLEAN /\ ~enabled'
    BY <1>1, Zenon
  <2>3. nesting' \in Nat
    BY <1>1, LockTyped
  <2> QED
    BY <2>1, <2>2, <2>3, <1>12
<1> QED
  BY <1>1, <1>2, <1>5, <1>6, <1>9, <1>11, <1>13, <1>14, PassivePushed

\* The executor is looked up; a context that finds it uninitialized goes no further.
LEMMA PollKeeps ==
  ASSUME IInv, Poll
  PROVE  IInv'
<1>1. /\ Me.pc = "poll" /\ fault = "none" /\ Me.pc \in Context
      /\ UNCHANGED <<enabled, nesting, owned, cell, updates>>
  BY DEF Poll, At, lockVars, cellVars, Context
<1>2. \/ UNCHANGED frames
      \/ Goto("drain") \/ Goto("leave")
  BY DEF Poll
<1>3. "drain" \in Context /\ "leave" \in Context
  BY DEF Context
<1> QED
  BY <1>1, <1>2, <1>3, NothingMoves, PlaceStep

\* A pending executor is polled in a context of its own.
LEMMA DrainKeeps ==
  ASSUME IInv, Drain
  PROVE  IInv'
<1>1. /\ Me.pc = "drain" /\ fault = "none" /\ Me.pc \in Context
      /\ UNCHANGED <<enabled, nesting, owned, cell, updates>>
  BY DEF Drain, At, lockVars, cellVars, Context
<1>2. \/ UNCHANGED frames
      \/ Goto("again")
      \/ \E h : frames' = Append(frames, [Frame("poll", h, "switch") EXCEPT !.num = Number[h]])
  BY DEF Drain
<1>3. CASE UNCHANGED frames
  BY <1>1, <1>3, NothingMoves
<1>4. CASE Goto("again")
  <2>1. "again" \in Context
    BY DEF Context
  <2> QED
    BY <2>1, <1>1, <1>4, PlaceStep
<1>5. ASSUME NEW h, frames' = Append(frames, [Frame("poll", h, "switch") EXCEPT !.num = Number[h]])
      PROVE  IInv'
  <2>1. PICK R : Typed(Frames(R))
    BY DEF IInv
  <2> DEFINE a == Frame("poll", h, "switch")
             g == [a EXCEPT !.num = Number[h]]
             P == {h, 0, Null, Number[h]}
             Q == R \cup P
  <2>2. "switch" \in Pcs /\ "switch" \in Context
    BY DEF Pcs, Context
  <2>3. a \in Frames({h, 0, Null}) /\ a.kind = "poll" /\ a.pc = "switch" /\ Free(a)
    BY <2>2, NewFrame
  <2> HIDE DEF a
  <2>11. a \in Frames(P)
    <3>1. P = {h, 0, Null} \cup {Number[h]}
      OBVIOUS
    <3> QED
      BY <2>3, <3>1, FramesGrow
  <2>4. g \in Frames(P) /\ g.kind = "poll" /\ g.pc = "switch" /\ Free(g)
    BY <2>3, <2>11 DEF Frames, Free, Sections
  <2>5. frames' = Append(frames, g)
    BY <1>5 DEF a
  <2> HIDE DEF g, P
  <2>6. Seq(Frames(R)) \subseteq Seq(Frames(Q)) /\ Frames(P) \subseteq Frames(Q)
    BY FramesGrow
  <2> HIDE DEF Q
  <2>7. frames \in Seq(Frames(Q)) /\ g \in Frames(Q) /\ Len(frames) \in Nat /\ Len(frames) > 0
    BY <2>1, <2>4, <2>6 DEF Typed
  <2>8. frames' \in Seq(Frames(Q)) /\ Pushes(Me, g)
    BY <2>5, <2>7 DEF Pushes, Me, Depth
  <2>9. Passive(g)
    BY <2>2, <2>4 DEF Passive
  <2>10. /\ IF Me.kind \in {"attach", "poll"} THEN Passive(Me) ELSE Owner(Me, enabled', nesting', cell')
         /\ Me.kind \in {"attach", "poll"} => UNCHANGED <<enabled, nesting>>
         /\ enabled' \in BOOLEAN /\ nesting' \in Nat /\ (enabled' => nesting' = 0) /\ Holds(Me, owned)
    BY <1>1, Running, LockTyped
  <2> QED
    BY <1>1, <2>1, <2>4, <2>8, <2>9, <2>10, PassivePushed
<1> QED
  BY <1>2, <1>3, <1>4, <1>5, Zenon

LEMMA AgainKeeps ==
  ASSUME IInv, Again \/ LeaveContext
  PROVE  IInv'
<1>1. /\ Me.pc \in Context /\ fault = "none" /\ UNCHANGED <<enabled, nesting, owned, cell, updates>>
  BY DEF Again, LeaveContext, At, lockVars, cellVars, Context
<1>2. Goto("leave") \/ Goto("drain") \/ Goto("complete")
  BY DEF Again, LeaveContext
<1>3. "leave" \in Context /\ "drain" \in Context /\ "complete" \in Context
  BY DEF Context
<1> QED
  BY <1>1, <1>2, <1>3, PlaceStep

\* An interrupt comes when interrupts are enabled: over contexts that are in no section.
LEMMA InterruptKeeps ==
  ASSUME IInv, NEW n, Interrupt(n)
  PROVE  IInv'
<1>1. fault = "none" /\ enabled /\ UNCHANGED <<enabled, nesting, owned, cell, updates>>
  BY DEF Interrupt, lockVars, cellVars
<1>2. PICK R : Typed(Frames(R))
  BY DEF IInv
<1> DEFINE a == Frame("isr", Null, "vector")
           g == [a EXCEPT !.num = n]
           P == {Null, 0, n}
           Q == R \cup P
<1>3. a \in Frames({Null, 0, Null}) /\ a.kind = "isr" /\ a.pc = "vector" /\ Free(a)
  <2>1. "vector" \in Pcs
    BY DEF Pcs
  <2> QED
    BY <2>1, NewFrame
<1>4. frames' = Append(frames, g)
  BY DEF Interrupt
<1> HIDE DEF a
<1>19. a \in Frames(P)
  <2>1. P = {Null, 0, Null} \cup {n}
    OBVIOUS
  <2> QED
    BY <1>3, <2>1, FramesGrow
<1>5. g \in Frames(P) /\ g.kind = "isr" /\ g.pc = "vector" /\ Free(g)
  BY <1>3, <1>19 DEF Frames, Free, Sections
<1> HIDE DEF g, P
<1>6. Seq(Frames(R)) \subseteq Seq(Frames(Q)) /\ Frames(P) \subseteq Frames(Q)
  BY FramesGrow
<1> HIDE DEF Q
<1>7. frames \in Seq(Frames(Q)) /\ g \in Frames(Q) /\ Len(frames) \in Nat /\ Len(frames) > 0
  BY <1>2, <1>5, <1>6 DEF Typed
<1>8. /\ frames' \in Seq(Frames(Q)) /\ Len(frames') = Len(frames) + 1
      /\ frames'[Len(frames) + 1] = g /\ \A k \in 1 .. Len(frames) : frames'[k] = frames[k]
  BY <1>4, <1>7
<1>9. \A k \in 1 .. Len(frames') : k \in 1 .. Len(frames) \/ k = Len(frames) + 1
  BY <1>7, <1>8
<1>10. Typed(Frames(Q))'
  <2>1. \A k \in 1 .. Len(frames') : frames'[k].kind = "thread" <=> k = 1
    BY <1>2, <1>5, <1>7, <1>8, <1>9 DEF Typed
  <2> QED
    BY <2>1, <1>1, <1>2, <1>7, <1>8 DEF Typed
<1>11. nesting = 0 /\ enabled
  BY <1>1, LockTyped
<1>12. ASSUME NEW k \in 1 .. Len(frames) PROVE Covered(k)'
  <2>1. Len(frames) + 1 \in k + 1 .. Len(frames')
    BY <1>7, <1>8
  <2> QED
    BY <2>1, <1>5, <1>8 DEF Covered
<1>13. ASSUME NEW k \in 1 .. Len(frames)
       PROVE  IF frames[k].kind \in {"attach", "poll"} THEN Passive(frames[k]) ELSE Quiet(frames[k])
  <2>1. CASE frames[k].kind \in {"attach", "poll"} \/ Covered(k)
    BY <2>1 DEF IInv, Places
  <2>2. CASE frames[k].kind \notin {"attach", "poll"} /\ ~Covered(k)
    <3>1. Owner(frames[k], enabled, nesting, cell)
      BY <2>2, Zenon DEF IInv, Places
    <3>2. frames[k] \in Frames(R)
      BY <1>2 DEF Typed
    <3>3. Free(frames[k])
      <4>1. Sections(frames[k]) = 0
        BY <3>1, <1>11 DEF Owner, Free, Context
      <4>2. frames[k].withs = 0
        BY <3>2, <4>1, SectionsCount
      <4> QED
        BY <3>1, <4>1, <4>2 DEF Owner, Keyed, Free
    <3> QED
      BY <2>2, <3>1, <3>3, <1>11 DEF Owner, Quiet, Context
  <2> QED
    BY <2>1, <2>2
<1>14. Owner(g, enabled', nesting', cell')
  BY <1>1, <1>5, <1>11 DEF Owner, Keyed, Free
<1>15. ASSUME NEW k, k = Len(frames) + 1 PROVE ~Covered(k)'
  BY <1>15, <1>7, <1>8 DEF Covered
<1>16. ASSUME NEW k \in 1 .. Len(frames') PROVE
         IF frames'[k].kind \in {"attach", "poll"} THEN Passive(frames'[k])
         ELSE IF Covered(k)' THEN Quiet(frames'[k])
         ELSE Owner(frames'[k], enabled', nesting', cell')
  <2>1. CASE k = Len(frames) + 1
    <3>1. frames'[k] = g /\ ~Covered(k)'
      BY <2>1, <1>8, <1>15
    <3> QED
      BY <3>1, <1>5, <1>14, Zenon
  <2>2. CASE k \in 1 .. Len(frames)
    BY <2>2, <1>8, <1>12, <1>13, Zenon
  <2> QED
    BY <2>1, <2>2, <1>9, Zenon
<1>17. ASSUME NEW k \in 1 .. Len(frames') PROVE Holds(frames'[k], owned')
  <2>1. CASE k = Len(frames) + 1
    BY <2>1, <1>5, <1>8, FreeHolds
  <2>2. CASE k \in 1 .. Len(frames)
    BY <2>2, <1>1, <1>8, SMTT(30) DEF IInv, Held
  <2> QED
    BY <2>1, <2>2, <1>9
<1>18. Places' /\ Held'
  BY <1>16, <1>17 DEF Places, Held
<1> QED
  BY <1>1, <1>10, <1>18 DEF IInv

\* interrupt_context returns: the context below goes on with the lock as it left it.
LEMMA CompleteKeeps ==
  ASSUME IInv, Complete
  PROVE  IInv'
<1>1. /\ Me.pc = "complete" /\ Me.pc \in Context /\ fault = "none"
      /\ UNCHANGED <<enabled, nesting, owned, cell, updates>>
  BY DEF Complete, At, lockVars, cellVars, Context
<1>2. PICK R : Typed(Frames(R))
  BY DEF IInv
<1> DEFINE l == Len(frames)
<1>3. l \in Nat /\ l > 1
  BY <1>1, <1>2, InContext DEF Typed, Me, Depth
<1>4. /\ frames' \in Seq(Frames(R)) /\ Len(frames') = l - 1
      /\ \A k \in 1 .. l - 1 : frames'[k] = frames[k]
  <2>1. frames' = SubSeq(frames, 1, l - 1) /\ frames \in Seq(Frames(R)) /\ l - 1 \in 0 .. l
    BY <1>2, <1>3 DEF Complete, Depth, Typed
  <2> QED
    BY <2>1, <1>3
<1> HIDE DEF l
<1>5. l = Len(frames)
  BY DEF l
<1>6. Typed(Frames(R))'
  BY <1>1, <1>2, <1>3, <1>4, <1>5 DEF Typed
<1>7. ASSUME NEW k \in 1 .. l - 1, Me.kind # "isr" PROVE Covered(k)' <=> Covered(k)
  <2>1. /\ \A j \in k + 1 .. l - 1 : j \in 1 .. l - 1 /\ j \in k + 1 .. l
        /\ \A j \in k + 1 .. l : j \in k + 1 .. l - 1 \/ j = l
    BY <1>3
  <2>2. frames[l].kind # "isr"
    BY <1>5, <1>7 DEF Me, Depth
  <2> QED
    BY <2>1, <2>2, <1>4, <1>5, Zenon DEF Covered
<1>8. ASSUME NEW k \in 1 .. l - 1, Me.kind = "isr"
      PROVE  /\ Covered(k)
             /\ frames[k].kind \notin {"attach", "poll"} => Owner(frames[k], enabled, nesting, cell)
  <2>1. l \in k + 1 .. l /\ k \in 1 .. l
    BY <1>3
  <2>2. Covered(k)
    BY <2>1, <1>5, <1>8 DEF Covered, Me, Depth
  <2>3. frames[k].kind \notin {"attach", "poll"} => Quiet(frames[k])
    BY <2>1, <2>2, <1>5 DEF IInv, Places
  <2>4. nesting = 0 /\ enabled
    BY <1>1, <1>8, InContext
  <2>5. frames[k] \in Frames(R)
    BY <2>1, <1>2, <1>5 DEF Typed
  <2>6. frames[k].kind \in {"thread", "isr", "attach", "poll"}
    BY <2>5, SMTT(30) DEF Frames
  <2>7. frames[k].kind \notin {"attach", "poll"} => Owner(frames[k], enabled, nesting, cell)
    <3> SUFFICES ASSUME frames[k].kind \notin {"attach", "poll"}
                 PROVE  Owner(frames[k], enabled, nesting, cell)
      OBVIOUS
    <3>1. Free(frames[k]) /\ Keyed(frames[k]) /\ Sections(frames[k]) = 0
      BY <2>3 DEF Quiet, Free, Keyed
    <3> QED
      BY <2>3, <2>4, <2>6, <3>1, SMTT(30) DEF Quiet, Owner
  <2> QED
    BY <2>2, <2>7
<1>9. ASSUME NEW k \in 1 .. Len(frames') PROVE
        IF frames'[k].kind \in {"attach", "poll"} THEN Passive(frames'[k])
        ELSE IF Covered(k)' THEN Quiet(frames'[k])
        ELSE Owner(frames'[k], enabled', nesting', cell')
  <2>1. k \in 1 .. l - 1 /\ k \in 1 .. Len(frames) /\ frames'[k] = frames[k]
    BY <1>3, <1>4, <1>5, SMTT(30)
  <2>2. CASE Me.kind = "isr"
    BY <2>1, <2>2, <1>1, <1>8, SMTT(30) DEF IInv, Places
  <2>3. CASE Me.kind # "isr"
    BY <2>1, <2>3, <1>1, <1>7 DEF IInv, Places
  <2> QED
    BY <2>2, <2>3
<1>10. ASSUME NEW k \in 1 .. Len(frames') PROVE Holds(frames'[k], owned')
  <2>1. k \in 1 .. Len(frames) /\ frames'[k] = frames[k]
    BY <1>3, <1>4, <1>5, SMTT(30)
  <2> QED
    BY <2>1, <1>1 DEF IInv, Held
<1>11. Places' /\ Held'
  BY <1>9, <1>10 DEF Places, Held
<1> QED
  BY <1>1, <1>6, <1>11 DEF IInv

-----------------------------------------------------------------------------
(* The invariant and the theorems                                          *)

LEMMA InitInv ==
  ASSUME Init
  PROVE  IInv
<1> DEFINE f == Frame("thread", Null, "run")
           R == {Null, 0, Null}
<1>1. f \in Frames(R) /\ f.kind = "thread" /\ f.pc = "run" /\ Free(f)
  <2>1. "run" \in Pcs
    BY DEF Pcs
  <2> QED
    BY <2>1, NewFrame
<1>2. frames = <<f>> /\ enabled = TRUE /\ nesting = 0 /\ cell = 0 /\ updates = 0
  BY DEF Init
<1> HIDE DEF f, R
<1>3. frames \in Seq(Frames(R)) /\ Len(frames) = 1 /\ frames[1] = f
  BY <1>1, <1>2
<1>4. Typed(Frames(R))
  BY <1>1, <1>2, <1>3 DEF Typed
<1>5. Owner(f, enabled, nesting, cell)
  BY <1>1, <1>2 DEF Owner, Keyed, Free
<1>6. ~Covered(1)
  BY <1>3 DEF Covered
<1>7. Places
  BY <1>1, <1>3, <1>5, <1>6 DEF Places
<1>8. Held
  BY <1>1, <1>3, FreeHolds DEF Held
<1> QED
  BY <1>2, <1>4, <1>7, <1>8 DEF IInv

LEMMA NextInv ==
  ASSUME IInv, [Next]_vars
  PROVE  IInv'
<1>1. CASE LockStep
  BY <1>1, AcquireKeeps, CountKeeps, OwnKeeps, LeaveKeeps, UnlockKeeps, UncountKeeps, RestoreKeeps
     DEF LockStep
<1>2. CASE CellStep
  BY <1>2, UpdateGetKeeps, UpdateSetKeeps, BorrowKeeps, ReplaceKeeps, ReplaceSetKeeps, DropKeeps
     DEF CellStep
<1>3. CASE Put
  <2>1. /\ Me.pc = "run" /\ fault = "none" /\ PutKey(Mine, "data")
        /\ UNCHANGED <<enabled, nesting, owned, cell, updates>>
    BY <1>3 DEF Put, Doing, Body, At, lockVars, cellVars
  <2> QED
    BY <2>1, PutKeyKeeps
<1>4. CASE PutValue
  BY <1>4, PutValueKeeps
<1>5. CASE Remove
  BY <1>5, QuickKeeps
<1>6. ASSUME NEW h \in Handlers, StartExecutor(h) PROVE IInv'
  <2>1. /\ Me.pc = "run" /\ fault = "none" /\ PutKey(h, Executor)
        /\ UNCHANGED <<enabled, nesting, owned, cell, updates>>
    BY <1>6 DEF StartExecutor, Body, At, lockVars, cellVars
  <2> QED
    BY <2>1, PutKeyKeeps
<1>7. CASE HandlerStep
  BY <1>6, <1>7, QuickKeeps, AttachKeeps DEF HandlerStep
<1>8. CASE Dispatch
  BY <1>8, VectorKeeps, SwitchKeeps, EndClosureKeeps, PollKeeps, DrainKeeps, AgainKeeps, CompleteKeeps
     DEF Dispatch
<1>9. CASE \E n \in Numbers : Interrupt(n)
  BY <1>9, InterruptKeeps
<1>10. CASE UNCHANGED vars
  BY <1>10, NothingMoves DEF vars, lockVars, cellVars
<1> QED
  BY <1>1, <1>2, <1>3, <1>4, <1>5, <1>7, <1>8, <1>9, <1>10 DEF Next, StorageStep

LEMMA InvExcludes ==
  ASSUME IInv
  PROVE  SectionsExclude /\ NoLostUpdate
<1>1. PICK R : Typed(Frames(R))
  BY DEF IInv
<1>2. ASSUME NEW k \in 1 .. Depth - 1, frames[k + 1].kind = "isr"
      PROVE  Sections(frames[k]) = 0 /\ frames[k].guards = <<>>
  <2>1. k \in 1 .. Len(frames) /\ k + 1 \in k + 1 .. Len(frames)
    BY <1>1 DEF Typed, Depth
  <2>2. Covered(k)
    BY <2>1, <1>2 DEF Covered
  <2> QED
    BY <2>1, <2>2 DEF IInv, Places, Passive, Quiet, Free
<1>3. Body => nesting = Sections(Me) /\ enabled = (nesting = 0)
  BY BodyOwns, LockTyped DEF Body, At
<1> QED
  BY <1>2, <1>3 DEF SectionsExclude, NoLostUpdate, IInv

-----------------------------------------------------------------------------
(* What a step does to the contexts, for the invariants below              *)

\* The running context becomes g, and the others stay.
Moved(g) ==
  /\ Len(frames') = Len(frames) /\ frames'[Len(frames)] = g
  /\ \A k \in 1 .. Len(frames) - 1 : frames'[k] = frames[k]

\* It runs for the same handler, and has the same one to restore.
Kept(g) == g.kind = Me.kind /\ g.icb = Me.icb /\ g.num = Me.num /\ g.prev = Me.prev

LEMMA TopSet ==
  ASSUME IInv, NEW g, frames' = [frames EXCEPT ![Len(frames)] = g]
  PROVE  Moved(g)
<1>1. PICK R : Typed(Frames(R))
  BY DEF IInv
<1> DEFINE S == Frames(R) \cup {g}
<1>2. frames \in Seq(S) /\ g \in S /\ Len(frames) \in 1 .. Len(frames)
  BY <1>1, SeqGrows DEF Typed
<1> HIDE DEF S
<1> QED
  BY <1>2 DEF Moved

\* Where a closure or the thread is in its calls, but for those that put an entry
Calls == {"run", "set", "replace", "count", "own", "uncount", "restore"}

\* The guards s of the one context that has any are those that the flag x tells.
Matches(s, x) ==
  \/ x = -1 /\ Len(s) = 1 /\ s[1].kind = "mut"
  \/ x = Len(s) /\ \A i \in 1 .. Len(s) : s[i].kind = "shared"

\* A step of a call
Works ==
  \E g :
    /\ Moved(g) /\ Kept(g) /\ Me.pc \in Calls /\ g.pc \in Calls
    /\ Matches(Me.guards, flag) => Matches(g.guards, flag')

LEMMA WorksStays ==
  ASSUME IInv, Me.pc \in Calls, UNCHANGED <<frames, flag>>
  PROVE  Works
<1>1. Moved(Me)
  BY DEF Moved, Me, Depth
<1> QED
  BY <1>1, Zenon DEF Works, Kept

\* The step changes the local, the sections and the place of the context.
LEMMA WorksFor ==
  ASSUME IInv, Me.pc \in Calls, flag' = flag, NEW g, g.pc \in Calls, Kept(g), g.guards = Me.guards,
         frames' = [frames EXCEPT ![Len(frames)] = g]
  PROVE  Works
<1>1. Moved(g)
  BY TopSet, Zenon
<1> QED
  BY <1>1, Zenon DEF Works

LEMMA GotoWorks ==
  ASSUME IInv, Me.pc \in Calls, flag' = flag, NEW at \in Calls, Goto(at)
  PROVE  Works
<1>1. PICK R : Me \in Frames(R)
  BY Running
<1> DEFINE g == [Me EXCEPT !.pc = at]
<1>2. g.pc = at /\ Kept(g) /\ g.guards = Me.guards
  BY <1>1 DEF Frames, Kept
<1>3. frames' = [frames EXCEPT ![Len(frames)] = g]
  BY DEF Goto, Me, Depth
<1> HIDE DEF g
<1> QED
  BY <1>2, <1>3, WorksFor, Zenon

LEMMA WriteWorks ==
  ASSUME IInv, Me.pc \in Calls, flag' = flag, NEW r, NEW at \in Calls, Writes(r, at)
  PROVE  Works
<1>1. PICK R : Me \in Frames(R)
  BY Running
<1> DEFINE g == [Me EXCEPT !.reg = r, !.pc = at]
<1>2. g.pc = at /\ Kept(g) /\ g.guards = Me.guards
  BY <1>1, Zenon DEF Frames, Kept
<1>3. frames' = [frames EXCEPT ![Len(frames)] = g]
  BY Zenon DEF Writes, Me, Depth
<1> HIDE DEF g
<1> QED
  BY <1>2, <1>3, WorksFor, Zenon

LEMMA LockWorks ==
  ASSUME IInv, LockStep
  PROVE  Works
<1>1. Me.pc \in Calls /\ flag' = flag
  BY Zenon DEF LockStep, Acquire, Count, Own, Leave, Unlock, Uncount, Restore, Doing, Body, At, cellVars, Calls
<1>2. PICK R : Me \in Frames(R)
  BY Running
<1>3. "run" \in Calls /\ "own" \in Calls /\ "uncount" \in Calls /\ "restore" \in Calls /\ "count" \in Calls
  BY DEF Calls
<1>4. ASSUME NEW s, Acquire(s) PROVE Works
  <2>1. Writes(s, "count")
    BY <1>4 DEF Acquire, Writes
  <2> QED
    BY <1>1, <1>3, <2>1, WriteWorks
<1>5. CASE Count
  <2>1. CASE Me.reg = With
    <3> DEFINE w == Me.withs + 1
               g == [Me EXCEPT !.withs = w, !.reg = 0, !.pc = "run"]
    <3>1. frames' = [frames EXCEPT ![Len(frames)] = g]
      BY <1>5, <2>1, Zenon DEF Count, Me, Depth
    <3> HIDE DEF w
    <3>2. g.pc = "run" /\ Kept(g) /\ g.guards = Me.guards
      BY <1>2, Zenon DEF Frames, Kept
    <3> HIDE DEF g
    <3> QED
      BY <1>1, <1>3, <3>1, <3>2, WorksFor, Zenon
  <2>2. CASE Me.reg # With
    BY <1>1, <1>3, <1>5, <2>2, GotoWorks DEF Count
  <2> QED
    BY <2>1, <2>2
<1>6. CASE Own
  <2>1. CASE Me.reg \in owned
    BY <1>1, <1>6, <2>1, WorksStays DEF Own
  <2>2. CASE Me.reg \notin owned
    <3> DEFINE l == Append(Me.locks, Me.reg)
               g == [Me EXCEPT !.locks = l, !.reg = 0, !.pc = "run"]
    <3>1. frames' = [frames EXCEPT ![Len(frames)] = g]
      BY <1>6, <2>2, Zenon DEF Own, Me, Depth
    <3> HIDE DEF l
    <3>2. g.pc = "run" /\ Kept(g) /\ g.guards = Me.guards
      BY <1>2, Zenon DEF Frames, Kept
    <3> HIDE DEF g
    <3> QED
      BY <1>1, <1>3, <3>1, <3>2, WorksFor
  <2> QED
    BY <2>1, <2>2
<1>7. CASE Leave
  <2> DEFINE w == Me.withs - 1
             g == [Me EXCEPT !.withs = w, !.pc = "uncount"]
  <2>1. frames' = [frames EXCEPT ![Len(frames)] = g]
    BY <1>7, Zenon DEF Leave, Me, Depth
  <2> HIDE DEF w
  <2>2. g.pc = "uncount" /\ Kept(g) /\ g.guards = Me.guards
    BY <1>2, Zenon DEF Frames, Kept
  <2> HIDE DEF g
  <2> QED
    BY <1>1, <1>3, <2>1, <2>2, WorksFor, Zenon
<1>8. ASSUME NEW o, Unlock(o) PROVE Works
  <2>1. PICK l, at : frames' = [frames EXCEPT ![Len(frames)] = [Me EXCEPT !.locks = l, !.pc = at]]
                     /\ at \in {"run", "uncount"}
    <3>1. PICK n : frames' = [frames EXCEPT ![Depth].locks = Without(@, n),
                                   ![Depth].pc = IF o \in owned THEN "uncount" ELSE "run"]
      BY <1>8, Zenon DEF Unlock
    <3> DEFINE l == Without(Me.locks, n)
               at == IF o \in owned THEN "uncount" ELSE "run"
    <3>2. frames' = [frames EXCEPT ![Len(frames)] = [Me EXCEPT !.locks = l, !.pc = at]]
      BY <3>1, Zenon DEF Me, Depth
    <3>3. at \in {"run", "uncount"}
      OBVIOUS
    <3> HIDE DEF l, at
    <3> QED
      BY <3>2, <3>3, Zenon
  <2> DEFINE g == [Me EXCEPT !.locks = l, !.pc = at]
  <2>2. g.pc = at /\ Kept(g) /\ g.guards = Me.guards
    BY <1>2, Zenon DEF Frames, Kept
  <2>3. frames' = [frames EXCEPT ![Len(frames)] = g] /\ at \in Calls
    BY <2>1, <1>3
  <2> HIDE DEF g
  <2> QED
    BY <1>1, <2>2, <2>3, WorksFor, Zenon
<1>9. CASE Uncount
  BY <1>1, <1>3, <1>9, GotoWorks DEF Uncount
<1>10. CASE Restore
  BY <1>1, <1>3, <1>10, GotoWorks DEF Restore
<1> QED
  BY <1>4, <1>5, <1>6, <1>7, <1>8, <1>9, <1>10, Zenon DEF LockStep

\* What a new guard, and the drop of one, do to the flag
LEMMA MatchesShared ==
  ASSUME NEW s \in Seq(GuardSet), NEW x \in Int, x >= 0, Matches(s, x),
         NEW a \in GuardSet, a.kind = "shared"
  PROVE  Matches(Append(s, a), x + 1)
<1> DEFINE t == Append(s, a)
<1>1. /\ Len(t) = Len(s) + 1 /\ Len(s) \in Nat /\ t[Len(s) + 1] = a
      /\ \A i \in 1 .. Len(s) : t[i] = s[i]
      /\ \A i \in 1 .. Len(t) : i \in 1 .. Len(s) \/ i = Len(s) + 1
  OBVIOUS
<1> HIDE DEF t
<1>2. x = Len(s) /\ \A i \in 1 .. Len(s) : s[i].kind = "shared"
  BY DEF Matches
<1>3. \A i \in 1 .. Len(t) : t[i].kind = "shared"
  BY <1>1, <1>2
<1>4. Matches(t, x + 1)
  BY <1>1, <1>2, <1>3, Zenon DEF Matches
<1> QED
  BY <1>4 DEF t

LEMMA MatchesMut ==
  ASSUME NEW s \in Seq(GuardSet), Matches(s, 0), NEW a \in GuardSet, a.kind = "mut"
  PROVE  Matches(Append(s, a), -1)
<1>1. Len(s) = 0
  BY DEF Matches
<1> DEFINE t == Append(s, a)
<1>2. Len(t) = 1 /\ t[1] = a
  BY <1>1
<1> HIDE DEF t
<1>3. Matches(t, -1)
  BY <1>2 DEF Matches
<1> QED
  BY <1>3 DEF t

LEMMA MatchesDrop ==
  ASSUME NEW s \in Seq(GuardSet), NEW x \in Int, Matches(s, x), NEW n \in 1 .. Len(s)
  PROVE  x # 0 /\ Matches(Without(s, n), IF x < 0 THEN 0 ELSE x - 1)
<1> DEFINE t == Without(s, n)
<1>1. /\ Len(t) = Len(s) - 1 /\ Len(s) \in Nat /\ \A i \in 1 .. Len(s) - 1 : t[i] = s[Skip(n, i)]
  BY WithoutOne
<1> HIDE DEF t
<1>2. \A i \in 1 .. Len(s) - 1 : Skip(n, i) \in 1 .. Len(s)
  BY <1>1 DEF Skip
<1>3. CASE x = -1 /\ Len(s) = 1
  BY <1>1, <1>3 DEF Matches, t
<1>4. CASE x = Len(s) /\ \A i \in 1 .. Len(s) : s[i].kind = "shared"
  <2>1. \A i \in 1 .. Len(t) : t[i].kind = "shared"
    BY <1>1, <1>2, <1>4
  <2>2. x > 0 /\ x - 1 = Len(t)
    BY <1>1, <1>4
  <2>3. Matches(t, x - 1)
    BY <2>1, <2>2 DEF Matches
  <2> QED
    BY <2>2, <2>3 DEF t
<1> QED
  BY <1>3, <1>4, Zenon DEF Matches

\* The step changes the guards of the context.
LEMMA WorksGuard ==
  ASSUME IInv, Me.pc \in Calls, NEW g, g.pc \in Calls, Kept(g),
         Matches(Me.guards, flag) => Matches(g.guards, flag'),
         frames' = [frames EXCEPT ![Len(frames)] = g]
  PROVE  Works
<1>1. Moved(g)
  BY TopSet, Zenon
<1> QED
  BY <1>1, Zenon DEF Works

LEMMA RegardWorks ==
  ASSUME IInv, Me.pc = "run", NEW t, Regards(t), Matches(Me.guards, flag) => Matches(t, flag')
  PROVE  Works
<1>1. PICK R : Me \in Frames(R)
  BY Running
<1> DEFINE g == Guarded(t)
<1>2. g.pc = "run" /\ Kept(g) /\ g.guards = t
  BY <1>1 DEF Guarded, Frames, Kept
<1>3. frames' = [frames EXCEPT ![Len(frames)] = g]
  BY DEF Regards, Guarded, Me, Depth
<1>4. "run" \in Calls
  BY DEF Calls
<1> HIDE DEF g
<1> QED
  BY <1>2, <1>3, <1>4, WorksGuard, Zenon

LEMMA ReplacedWorks ==
  ASSUME IInv, Me.pc \in Calls, NEW r, NEW at \in Calls, NEW t, ReplacedBy(r, at, t),
         Matches(Me.guards, flag) => Matches(t, flag')
  PROVE  Works
<1>1. PICK R : Me \in Frames(R)
  BY Running
<1> DEFINE g == Replaced(r, at, t)
<1>2. g.pc = at /\ Kept(g) /\ g.guards = t
  BY <1>1, Zenon DEF Replaced, Frames, Kept
<1>3. frames' = [frames EXCEPT ![Len(frames)] = g]
  BY Zenon DEF ReplacedBy, Replaced, Me, Depth
<1> HIDE DEF g
<1> QED
  BY <1>2, <1>3, WorksGuard, Zenon

\* A new guard is one that the flag leaves room for.
LEMMA GuardWorks ==
  ASSUME IInv, flag \in Int, Me.pc = "run", Me.withs > 0, NewImmutable \/ NewMutable
  PROVE  Works
<1>1. PICK R : Me \in Frames(R)
  BY Running
<1>2. Me.guards \in Seq(GuardSet) /\ Me.withs \in Nat /\ Me.pc \in Calls
  BY <1>1 DEF Frames, Calls
<1> DEFINE a(kind) == [kind |-> kind, key |-> Me.withs]
<1>3. \A kind \in {"mut", "shared"} : a(kind) \in GuardSet /\ a(kind).kind = kind
  BY <1>2 DEF GuardSet
<1>4. CASE NewImmutable
  <2>1. CASE flag >= 0
    <3>1. Regards(Append(Me.guards, a("shared"))) /\ flag' = flag + 1
      BY <1>4, <2>1 DEF NewImmutable, Guard, Regards, Me
    <3>2. a("shared") \in GuardSet /\ a("shared").kind = "shared"
      BY <1>3
    <3> HIDE DEF a
    <3>3. Matches(Me.guards, flag) => Matches(Append(Me.guards, a("shared")), flag')
      BY <2>1, <3>1, <3>2, <1>2, MatchesShared
    <3> QED
      BY <3>1, <3>3, RegardWorks
  <2>2. CASE ~(flag >= 0)
    BY <1>2, <1>4, <2>2, WorksStays DEF NewImmutable, Guard
  <2> QED
    BY <2>1, <2>2
<1>5. CASE NewMutable
  <2>1. CASE flag = 0
    <3>1. Regards(Append(Me.guards, a("mut"))) /\ flag' = -1
      BY <1>5, <2>1 DEF NewMutable, Guard, Regards, Me
    <3>2. a("mut") \in GuardSet /\ a("mut").kind = "mut"
      BY <1>3
    <3> HIDE DEF a
    <3>3. Matches(Me.guards, flag) => Matches(Append(Me.guards, a("mut")), flag')
      BY <2>1, <3>1, <3>2, <1>2, MatchesMut
    <3> QED
      BY <3>1, <3>3, RegardWorks
  <2>2. CASE flag # 0
    BY <1>2, <1>5, <2>2, WorksStays DEF NewMutable, Guard
  <2> QED
    BY <2>1, <2>2
<1> QED
  BY <1>4, <1>5

LEMMA CellWorks ==
  ASSUME IInv, flag \in Int, CellStep
  PROVE  Works
<1>1. Me.pc \in {"run", "set", "replace"} /\ Me.pc \in Calls
  <2>1. Me.pc \in {"run", "set", "replace"}
    BY Zenon DEF CellStep, UpdateGet, UpdateSet, BorrowShared, TryBorrow, BorrowMut, TryBorrowMut, CloneRef,
       Replace, ReplaceSet, Drop, CanBorrow, Doing, Body, At
  <2> QED
    BY <2>1 DEF Calls
<1>2. "run" \in Calls /\ "set" \in Calls /\ "replace" \in Calls
  BY DEF Calls
<1>3. PICK R : Me \in Frames(R)
  BY Running
<1>4. Me.guards \in Seq(GuardSet) /\ Me.withs \in Nat
  BY <1>3 DEF Frames
<1>5. CASE UpdateGet
  <2>1. Writes(cell, "set") /\ flag' = flag
    BY <1>5 DEF UpdateGet, Writes, cellVars
  <2> QED
    BY <1>1, <1>2, <2>1, WriteWorks
<1>6. CASE UpdateSet
  <2>1. Writes(0, "run") /\ flag' = flag
    BY <1>6 DEF UpdateSet, Writes
  <2> QED
    BY <1>1, <1>2, <2>1, WriteWorks
<1>7. CASE BorrowShared \/ TryBorrow \/ BorrowMut \/ TryBorrowMut \/ CloneRef
  <2>1. CanBorrow /\ (NewImmutable \/ NewMutable)
    BY <1>7 DEF BorrowShared, TryBorrow, BorrowMut, TryBorrowMut, CloneRef
  <2>2. Me.pc = "run" /\ Me.withs > 0
    BY <2>1 DEF CanBorrow, Doing, Body, At
  <2> QED
    BY <2>1, <2>2, GuardWorks
<1>8. CASE Replace
  <2>1. CASE flag = 0
    <3> DEFINE a == [kind |-> "mut", key |-> Me.withs]
    <3>1. ReplacedBy(cell, "replace", Append(Me.guards, a)) /\ flag' = -1 /\ Me.withs > 0
      BY <1>8, <2>1 DEF Replace, ReplacedBy, Me
    <3>2. a \in GuardSet /\ a.kind = "mut"
      BY <3>1, <1>4 DEF GuardSet
    <3> HIDE DEF a
    <3>3. Matches(Me.guards, flag) => Matches(Append(Me.guards, a), flag')
      BY <2>1, <3>1, <3>2, <1>4, MatchesMut
    <3> QED
      BY <3>1, <3>3, <1>1, <1>2, ReplacedWorks
  <2>2. CASE flag # 0
    BY <1>1, <1>8, <2>2, WorksStays DEF Replace
  <2> QED
    BY <2>1, <2>2
<1>9. CASE ReplaceSet
  <2> DEFINE t == <<>>
  <2>1. ReplacedBy(0, "run", t) /\ flag' = 0
    BY <1>9 DEF ReplaceSet, ReplacedBy
  <2>2. Matches(t, 0)
    BY DEF Matches
  <2> HIDE DEF t
  <2> QED
    BY <2>1, <2>2, <1>1, <1>2, ReplacedWorks
<1>10. CASE Drop
  <2>1. PICK k \in DOMAIN Me.guards : Regards(Without(Me.guards, k))
    BY <1>10, Zenon DEF Drop, Regards, Me
  <2>2. k \in 1 .. Len(Me.guards) /\ Me.pc = "run"
    BY <2>1, <1>4, <1>10 DEF Drop, Body, At
  <2>3. flag # 0 => flag' = IF flag < 0 THEN 0 ELSE flag - 1
    BY <1>10 DEF Drop
  <2>4. ASSUME Matches(Me.guards, flag) PROVE Matches(Without(Me.guards, k), flag')
    <3>1. flag # 0 /\ Matches(Without(Me.guards, k), IF flag < 0 THEN 0 ELSE flag - 1)
      BY <2>2, <2>4, <1>4, MatchesDrop
    <3> QED
      BY <3>1, <2>3
  <2> QED
    BY <2>1, <2>2, <2>4, RegardWorks
<1> QED
  BY <1>5, <1>6, <1>7, <1>8, <1>9, <1>10 DEF CellStep

\* The running context goes to a place, and may write its local.
LEMMA GotoMoves ==
  ASSUME IInv, NEW at, Goto(at)
  PROVE  \E g : Moved(g) /\ Kept(g) /\ g.guards = Me.guards /\ g.pc = at /\ g.reg = Me.reg
<1>1. PICK R : Me \in Frames(R)
  BY Running
<1> DEFINE g == [Me EXCEPT !.pc = at]
<1>2. g.pc = at /\ Kept(g) /\ g.guards = Me.guards /\ g.reg = Me.reg
  BY <1>1 DEF Frames, Kept
<1>3. frames' = [frames EXCEPT ![Len(frames)] = g]
  BY DEF Goto, Me, Depth
<1> HIDE DEF g
<1> QED
  BY <1>2, <1>3, TopSet, Zenon

LEMMA WriteMoves ==
  ASSUME IInv, NEW r, NEW at, Writes(r, at)
  PROVE  \E g : Moved(g) /\ Kept(g) /\ g.guards = Me.guards /\ g.pc = at /\ g.reg = r
<1>1. PICK R : Me \in Frames(R)
  BY Running
<1> DEFINE g == [Me EXCEPT !.reg = r, !.pc = at]
<1>2. g.pc = at /\ Kept(g) /\ g.guards = Me.guards /\ g.reg = r
  BY <1>1, Zenon DEF Frames, Kept
<1>3. frames' = [frames EXCEPT ![Len(frames)] = g]
  BY Zenon DEF Writes, Me, Depth
<1> HIDE DEF g
<1> QED
  BY <1>2, <1>3, TopSet, Zenon

-----------------------------------------------------------------------------
(* The contexts as a chain                                                 *)

\* A call of interrupt_context that has switched and not yet restored
Act(f) == f.kind # "thread" /\ f.pc \notin {"vector", "switch", "complete"}

\* h is the handler of the innermost such call among the first n contexts, or null.
Inner(F, h, n) ==
  \/ h = Null /\ \A j \in 1 .. n : ~Act(F[j])
  \/ \E k \in 1 .. n : Act(F[k]) /\ F[k].icb = h /\ \A j \in k + 1 .. n : ~Act(F[j])

\* Where only the outermost call may be
Outer == {"drain", "again"}

Chain(F, c) ==
  /\ Inner(F, c, Len(F))
  /\ \A k \in 1 .. Len(F) :
       /\ Act(F[k]) => Inner(F, F[k].prev, k - 1)
       /\ F[k].pc \in Outer => \A j \in 1 .. k - 1 : ~Act(F[j])

\* The context g is in the chain as f was.
Alike(f, g) ==
  /\ Act(g) <=> Act(f)
  /\ Act(f) => g.icb = f.icb /\ g.prev = f.prev
  /\ g.pc \in Outer => f.pc \in Outer

LEMMA InnerAlike ==
  ASSUME NEW F, NEW G, NEW n \in Nat, \A k \in 1 .. n : Alike(F[k], G[k]), NEW h
  PROVE  Inner(G, h, n) <=> Inner(F, h, n)
<1>1. \A k \in 1 .. n : \A j \in k + 1 .. n : j \in 1 .. n
  OBVIOUS
<1>2. \A k \in 1 .. n : (Act(G[k]) <=> Act(F[k])) /\ (Act(F[k]) => G[k].icb = F[k].icb)
  BY Zenon DEF Alike
<1> QED
  BY <1>1, <1>2, Zenon DEF Inner

\* The contexts below n are in the chain as they were.
LEMMA ChainBelow ==
  ASSUME NEW F, NEW G, NEW n \in Nat, \A k \in 1 .. n : Alike(F[k], G[k]),
         NEW k \in 1 .. n,
         /\ Act(F[k]) => Inner(F, F[k].prev, k - 1)
         /\ F[k].pc \in Outer => \A j \in 1 .. k - 1 : ~Act(F[j])
  PROVE  /\ Act(G[k]) => Inner(G, G[k].prev, k - 1)
         /\ G[k].pc \in Outer => \A j \in 1 .. k - 1 : ~Act(G[j])
<1>1. k - 1 \in Nat /\ \A j \in 1 .. k - 1 : j \in 1 .. n
  OBVIOUS
<1>2. Inner(G, F[k].prev, k - 1) <=> Inner(F, F[k].prev, k - 1)
  BY <1>1, InnerAlike
<1> QED
  BY <1>1, <1>2, Zenon DEF Alike

\* The innermost context moves on, and a context that is not active may come over it.
LEMMA ChainMoves ==
  ASSUME NEW F, NEW G, NEW c, Len(F) \in Nat, Chain(F, c),
         \A k \in 1 .. Len(F) : Alike(F[k], G[k]),
         \/ Len(G) = Len(F)
         \/ Len(G) = Len(F) + 1 /\ ~Act(G[Len(G)]) /\ G[Len(G)].pc \notin Outer
  PROVE  Chain(G, c)
<1>1. Inner(G, c, Len(F))
  BY InnerAlike DEF Chain
<1>2. \A k \in 1 .. Len(F) :
        /\ Act(G[k]) => Inner(G, G[k].prev, k - 1)
        /\ G[k].pc \in Outer => \A j \in 1 .. k - 1 : ~Act(G[j])
  BY ChainBelow, Zenon DEF Chain
<1>3. CASE Len(G) = Len(F)
  BY <1>1, <1>2, <1>3 DEF Chain
<1>4. CASE Len(G) = Len(F) + 1 /\ ~Act(G[Len(G)]) /\ G[Len(G)].pc \notin Outer
  <2>1. \A k \in 1 .. Len(G) : k \in 1 .. Len(F) \/ k = Len(G)
    BY <1>4
  <2>2. /\ \A k \in 1 .. Len(F) : k \in 1 .. Len(G)
        /\ \A k \in 1 .. Len(F) : \A j \in k + 1 .. Len(G) : j \in k + 1 .. Len(F) \/ j = Len(G)
    BY <1>4
  <2>3. Inner(G, c, Len(G))
    BY <1>1, <1>4, <2>1, <2>2, Zenon DEF Inner
  <2> QED
    BY <2>1, <2>3, <1>2, <1>4, Zenon DEF Chain
<1> QED
  BY <1>3, <1>4

\* The contexts below the innermost one, when they stay
Below(F, G, c, n) ==
  /\ n \in 1 .. n /\ n - 1 \in Nat /\ \A k \in 1 .. n : k \in 1 .. n - 1 \/ k = n
  /\ \A k \in 1 .. n - 1 : k \in 1 .. n /\ (Act(G[k]) <=> Act(F[k]))
  /\ \A h : Inner(G, h, n - 1) <=> Inner(F, h, n - 1)
  /\ \A k \in 1 .. n - 1 :
       /\ Act(G[k]) => Inner(G, G[k].prev, k - 1)
       /\ G[k].pc \in Outer => \A j \in 1 .. k - 1 : ~Act(G[j])
  /\ Act(F[n]) => Inner(F, F[n].prev, n - 1)
  /\ ~Act(F[n]) => Inner(F, c, n - 1)

LEMMA ChainPrefix ==
  ASSUME NEW F, NEW G, NEW c, NEW n \in Nat \ {0}, n = Len(F), Chain(F, c),
         \A k \in 1 .. n - 1 : G[k] = F[k]
  PROVE  Below(F, G, c, n)
<1>1. n \in 1 .. n /\ n - 1 \in Nat /\ \A k \in 1 .. n : k \in 1 .. n - 1 \/ k = n
  OBVIOUS
<1>2. \A k \in 1 .. n - 1 : Alike(F[k], G[k]) /\ k \in 1 .. n
  BY <1>1 DEF Alike
<1>3. \A h : Inner(G, h, n - 1) <=> Inner(F, h, n - 1)
  BY <1>1, <1>2, InnerAlike
<1>4. \A k \in 1 .. n :
        /\ Act(F[k]) => Inner(F, F[k].prev, k - 1)
        /\ F[k].pc \in Outer => \A j \in 1 .. k - 1 : ~Act(F[j])
  BY Zenon DEF Chain
<1>5. \A k \in 1 .. n - 1 :
        /\ Act(G[k]) => Inner(G, G[k].prev, k - 1)
        /\ G[k].pc \in Outer => \A j \in 1 .. k - 1 : ~Act(G[j])
  BY <1>1, <1>2, <1>4, ChainBelow, Zenon
<1>6. ~Act(F[n]) => Inner(F, c, n - 1)
  <2>1. \A k \in 1 .. n - 1 : \A j \in k + 1 .. n - 1 : j \in k + 1 .. n
    OBVIOUS
  <2>2. Inner(F, c, n)
    BY Zenon DEF Chain
  <2> QED
    BY <2>1, <2>2, <1>1, <1>2, Zenon DEF Inner
<1> QED
  BY <1>1, <1>2, <1>3, <1>4, <1>5, <1>6, Zenon DEF Alike, Below

\* The innermost context goes where only the outermost one may be.
LEMMA ChainOuter ==
  ASSUME NEW F, NEW G, NEW c, NEW n \in Nat \ {0}, n = Len(F), n = Len(G), Chain(F, c),
         \A k \in 1 .. n - 1 : G[k] = F[k],
         Act(F[n]), Act(G[n]), G[n].icb = F[n].icb, G[n].prev = F[n].prev,
         \A j \in 1 .. n - 1 : ~Act(F[j])
  PROVE  Chain(G, c)
<1>1. Below(F, G, c, n)
  BY ChainPrefix, Zenon
<1>2. Inner(G, c, n)
  <2>1. \A k \in 1 .. n : (Act(G[k]) <=> Act(F[k])) /\ G[k].icb = F[k].icb
    BY <1>1, Zenon DEF Below
  <2>2. \A k \in 1 .. n : \A j \in k + 1 .. n : j \in 1 .. n
    OBVIOUS
  <2>3. Inner(F, c, n)
    BY Zenon DEF Chain
  <2> QED
    BY <2>1, <2>2, <2>3, Zenon DEF Inner
<1> QED
  BY <1>1, <1>2, Zenon DEF Chain, Below

\* switch_current_interrupt: the innermost context becomes active, and keeps the handler
\* that was current.
LEMMA ChainEnters ==
  ASSUME NEW F, NEW G, NEW c, NEW n \in Nat \ {0}, n = Len(F), n = Len(G), Chain(F, c),
         \A k \in 1 .. n - 1 : G[k] = F[k],
         ~Act(F[n]), Act(G[n]), G[n].prev = c, G[n].pc \notin Outer
  PROVE  Chain(G, G[n].icb)
<1>1. Below(F, G, c, n)
  BY ChainPrefix, Zenon
<1>2. Inner(G, G[n].icb, n)
  <2>1. \A j \in n + 1 .. n : FALSE
    OBVIOUS
  <2> QED
    BY <2>1, <1>1, Zenon DEF Inner, Below
<1> QED
  BY <1>1, <1>2, Zenon DEF Chain, Below

\* restore_current_interrupt: the innermost context is not active any more.
LEMMA ChainLeaves ==
  ASSUME NEW F, NEW G, NEW c, NEW n \in Nat \ {0}, n = Len(F), n = Len(G), Chain(F, c),
         \A k \in 1 .. n - 1 : G[k] = F[k],
         Act(F[n]), ~Act(G[n]), G[n].pc \notin Outer
  PROVE  Chain(G, F[n].prev)
<1>1. Below(F, G, c, n)
  BY ChainPrefix, Zenon
<1>2. \A k \in 1 .. n - 1 : \A j \in k + 1 .. n : j \in k + 1 .. n - 1 \/ j = n
  OBVIOUS
<1>3. Inner(G, F[n].prev, n - 1)
  BY <1>1, Zenon DEF Below
<1>4. Inner(G, F[n].prev, n)
  BY <1>1, <1>2, <1>3, Zenon DEF Inner, Below
<1> QED
  BY <1>1, <1>4, Zenon DEF Chain, Below

\* interrupt_context returns.
LEMMA ChainPops ==
  ASSUME NEW F, NEW G, NEW c, NEW n \in Nat \ {0}, n = Len(F), Len(G) = n - 1, Chain(F, c),
         \A k \in 1 .. n - 1 : G[k] = F[k], ~Act(F[n])
  PROVE  Chain(G, c)
<1>1. Below(F, G, c, n)
  BY ChainPrefix, Zenon
<1> QED
  BY <1>1, Zenon DEF Chain, Below

-----------------------------------------------------------------------------
(* Interrupt contexts nest                                                 *)

Queues ==
  [items : Seq(Handlers), dummy : Handlers \cup {Sentinel}, owned : SUBSET Handlers, looped : BOOLEAN]

\* Every interrupt that may come has a handler, and so has every poll that is pending.
Tables ==
  /\ vector \in [Numbers -> Handlers \cup {Null}] /\ armed \subseteq Numbers
  /\ phase \in [Handlers -> {"static", "builder", "attached", "enabled"}] /\ polls \in Queues
  /\ \A h \in Handlers : phase[h] \in {"attached", "enabled"} => vector[Number[h]] \in Handlers
  /\ \A n \in armed : vector[n] \in Handlers

\* An interrupt is of a number in A, and is for a handler once the vector is read.
Bound(f, A) ==
  f.kind # "thread" => (f.pc # "vector" => f.icb \in Handlers) /\ (f.kind = "isr" => f.num \in A)

Nest ==
  /\ Chain(frames, current) /\ Tables
  /\ \A k \in 1 .. Len(frames) : Bound(frames[k], armed)

LEMMA Depths ==
  ASSUME IInv
  PROVE  /\ Len(frames) \in Nat \ {0} /\ Len(frames) \in 1 .. Len(frames) /\ Me = frames[Len(frames)]
         /\ \A k \in 1 .. Len(frames) : k \in 1 .. Len(frames) - 1 \/ k = Len(frames)
         /\ \A k \in 1 .. Len(frames) - 1 : k \in 1 .. Len(frames)
         /\ \A k \in 1 .. Len(frames) : frames[k].kind = "thread" <=> k = 1
         /\ Me.kind = "thread" <=> Len(frames) = 1
<1>1. PICK R : Typed(Frames(R))
  BY DEF IInv
<1>2. Len(frames) \in Nat \ {0} /\ \A k \in 1 .. Len(frames) : frames[k].kind = "thread" <=> k = 1
  BY <1>1 DEF Typed
<1>3. /\ Len(frames) \in 1 .. Len(frames)
      /\ \A k \in 1 .. Len(frames) : k \in 1 .. Len(frames) - 1 \/ k = Len(frames)
      /\ \A k \in 1 .. Len(frames) - 1 : k \in 1 .. Len(frames)
  BY <1>2
<1> QED
  BY <1>2, <1>3, Zenon DEF Me, Depth

LEMMA BoundGrows ==
  ASSUME NEW f, NEW A, NEW B, A \subseteq B, Bound(f, A)
  PROVE  Bound(f, B)
BY DEF Bound

LEMMA TablesStay ==
  ASSUME Tables, UNCHANGED <<vector, phase, armed, polls>>
  PROVE  Tables'
BY DEF Tables

\* The innermost context becomes g.
LEMMA NestTop ==
  ASSUME IInv, Nest, NEW g, Moved(g), Bound(g, armed), armed' = armed, Tables',
         Chain(frames', current')
  PROVE  Nest'
<1>1. ASSUME NEW k \in 1 .. Len(frames') PROVE Bound(frames'[k], armed')
  <2>1. k \in 1 .. Len(frames)
    BY DEF Moved
  <2>2. CASE k = Len(frames)
    BY <2>2 DEF Moved
  <2>3. CASE k \in 1 .. Len(frames) - 1
    BY <2>1, <2>3 DEF Moved, Nest
  <2> QED
    BY <2>1, <2>2, <2>3, Depths, Zenon
<1> QED
  BY <1>1 DEF Nest

\* It is in the chain as it was.
LEMMA NestMoves ==
  ASSUME IInv, Nest, NEW g, Moved(g), Alike(Me, g), Bound(g, armed), UNCHANGED <<current, armed>>, Tables'
  PROVE  Nest'
<1>1. \A k \in 1 .. Len(frames) : Alike(frames[k], frames'[k])
  <2>1. \A k \in 1 .. Len(frames) - 1 : Alike(frames[k], frames'[k])
    BY Zenon DEF Moved, Alike
  <2>2. Alike(frames[Len(frames)], frames'[Len(frames)])
    BY Depths, Zenon DEF Moved
  <2> QED
    BY <2>1, <2>2, Depths, Zenon
<1>2. Chain(frames', current')
  BY <1>1, Depths, ChainMoves, Zenon DEF Nest, Moved
<1> QED
  BY <1>2, NestTop

\* A step of a call
LEMMA NestCall ==
  ASSUME IInv, Nest, NEW g, Moved(g), Kept(g), Me.pc \in Calls \cup {"put"}, g.pc \in Calls \cup {"put"},
         UNCHANGED <<current, armed>>, Tables'
  PROVE  Nest'
<1>1. Alike(Me, g)
  BY DEF Alike, Act, Kept, Calls, Outer
<1>2. Bound(Me, armed)
  BY Depths, Zenon DEF Nest
<1>3. Bound(g, armed)
  BY <1>2, Zenon DEF Bound, Kept, Calls
<1> QED
  BY <1>1, <1>3, NestMoves

LEMMA NestStays ==
  ASSUME Nest, UNCHANGED <<frames, current>>, armed \subseteq armed', Tables'
  PROVE  Nest'
<1>1. \A k \in 1 .. Len(frames) : Bound(frames[k], armed')
  BY BoundGrows DEF Nest
<1> QED
  BY <1>1 DEF Nest

\* A context comes over the innermost one.
LEMMA NestPushes ==
  ASSUME IInv, Nest, NEW f, NEW g, Pushes(f, g), Alike(Me, f), Bound(f, armed),
         ~Act(g), g.pc \notin Outer, Bound(g, armed), UNCHANGED <<current, armed>>, Tables'
  PROVE  Nest'
<1>1. \A k \in 1 .. Len(frames) : Alike(frames[k], frames'[k])
  <2>1. \A k \in 1 .. Len(frames) - 1 : Alike(frames[k], frames'[k])
    BY Zenon DEF Pushes, Alike
  <2>2. Alike(frames[Len(frames)], frames'[Len(frames)])
    BY Depths, Zenon DEF Pushes
  <2> QED
    BY <2>1, <2>2, Depths, Zenon
<1>2. Len(frames') = Len(frames) + 1 /\ frames'[Len(frames')] = g
  BY Zenon DEF Pushes
<1>3. Chain(frames', current')
  BY <1>1, <1>2, Depths, ChainMoves, Zenon DEF Nest
<1>4. ASSUME NEW k \in 1 .. Len(frames') PROVE Bound(frames'[k], armed')
  <2>1. k \in 1 .. Len(frames) - 1 \/ k = Len(frames) \/ k = Len(frames')
    BY <1>2, Depths
  <2>2. CASE k = Len(frames')
    BY <1>2, <2>2
  <2>3. CASE k = Len(frames)
    BY <2>3 DEF Pushes
  <2>4. CASE k \in 1 .. Len(frames) - 1
    BY <2>4, Depths, Zenon DEF Pushes, Nest
  <2> QED
    BY <2>1, <2>2, <2>3, <2>4
<1> QED
  BY <1>3, <1>4 DEF Nest

LEMMA AppendPushes ==
  ASSUME IInv, NEW f, NEW g,
         \/ frames' = Append(frames, g) /\ f = Me
         \/ frames' = Append([frames EXCEPT ![Len(frames)] = f], g)
  PROVE  Pushes(f, g)
<1>1. PICK R : Typed(Frames(R))
  BY DEF IInv
<1> DEFINE S == Frames(R) \cup {f, g}
<1>2. frames \in Seq(S) /\ f \in S /\ g \in S /\ Len(frames) \in 1 .. Len(frames) /\ Len(frames) \in Nat
  BY <1>1, SeqGrows DEF Typed
<1> HIDE DEF S
<1>3. CASE frames' = Append(frames, g) /\ f = Me
  BY <1>2, <1>3 DEF Pushes, Me, Depth
<1>4. CASE frames' = Append([frames EXCEPT ![Len(frames)] = f], g)
  <2> DEFINE F == [frames EXCEPT ![Len(frames)] = f]
  <2>1. /\ F \in Seq(S) /\ Len(F) = Len(frames) /\ F[Len(frames)] = f
        /\ \A k \in 1 .. Len(frames) - 1 : F[k] = frames[k]
    BY <1>2
  <2>2. frames' = Append(F, g)
    BY <1>4
  <2> HIDE DEF F
  <2> QED
    BY <2>1, <2>2, <1>2 DEF Pushes
<1> QED
  BY <1>3, <1>4

LEMMA CompletePops ==
  ASSUME IInv, Complete
  PROVE  /\ Len(frames) > 1 /\ Len(frames') = Len(frames) - 1 /\ Me.kind # "thread" /\ Free(Me)
         /\ \A k \in 1 .. Len(frames) - 1 : frames'[k] = frames[k]
<1>1. Me.pc = "complete" /\ Me.pc \in Context
  BY DEF Complete, At, Context
<1>2. Me.kind # "thread" /\ Free(Me)
  BY <1>1, InContext
<1>3. Len(frames) > 1 /\ Len(frames) \in Nat
  BY <1>2, Depths
<1>4. PICK R : Typed(Frames(R))
  BY DEF IInv
<1>5. frames' = SubSeq(frames, 1, Len(frames) - 1) /\ frames \in Seq(Frames(R))
  BY <1>4 DEF Complete, Depth, Typed
<1> QED
  BY <1>2, <1>3, <1>5

\* The innermost context, and what its handler is
LEMMA MeBound ==
  ASSUME IInv, Nest
  PROVE  /\ Bound(Me, armed)
         /\ Act(Me) => Inner(frames, Me.prev, Len(frames) - 1) /\ Me.icb \in Handlers /\ current = Me.icb
<1>1. Bound(Me, armed)
  BY Depths DEF Nest
<1>2. ASSUME Act(Me) PROVE current = Me.icb
  <2>1. Inner(frames, current, Len(frames)) /\ Len(frames) \in 1 .. Len(frames) /\ Act(frames[Len(frames)])
    BY <1>2, Depths, Zenon DEF Nest, Chain
  <2>2. PICK k \in 1 .. Len(frames) : /\ frames[k].icb = current
                                      /\ \A j \in k + 1 .. Len(frames) : ~Act(frames[j])
    BY <2>1, Zenon DEF Inner
  <2>3. k = Len(frames)
    BY <2>1, <2>2, Depths
  <2> QED
    BY <2>2, <2>3, Depths, Zenon
<1>3. Act(Me) => Inner(frames, Me.prev, Len(frames) - 1)
  BY Depths, Zenon DEF Nest, Chain
<1>4. Act(Me) => Me.icb \in Handlers
  BY <1>1 DEF Act, Bound
<1> QED
  BY <1>1, <1>2, <1>3, <1>4

\* The handler that is current is null or a handler.
LEMMA CurrentBound ==
  ASSUME IInv, Nest
  PROVE  current \in Handlers \cup {Null}
<1>1. Inner(frames, current, Len(frames)) /\ \A k \in 1 .. Len(frames) : Bound(frames[k], armed)
  BY DEF Nest, Chain
<1> QED
  BY <1>1, Zenon DEF Inner, Bound, Act

LEMMA StorageNest ==
  ASSUME IInv, Nest, StorageStep \/ \E h \in Handlers : StartExecutor(h)
  PROVE  Nest'
<1>1. UNCHANGED <<current, vector, phase, armed, polls>>
  BY Zenon DEF StorageStep, Put, PutValue, Remove, StartExecutor
<1>2. Tables'
  BY <1>1, TablesStay DEF Nest
<1>3. \/ UNCHANGED frames
      \/ \E r, at : Me.pc \in {"run", "put"} /\ at \in {"run", "put"} /\ Writes(r, at)
  <2>1. CASE Put \/ \E h \in Handlers : StartExecutor(h)
    <3>1. PICK c, k : PutKey(c, k) /\ Me.pc = "run"
      BY <2>1, Zenon DEF Put, StartExecutor, Doing, Body, At
    <3>2. UNCHANGED frames \/ \E r : Writes(r, "put")
      BY <3>1, Zenon DEF PutKey, Writes
    <3> QED
      BY <3>1, <3>2
  <2>2. CASE PutValue
    BY <2>2, Zenon DEF PutValue, At, Writes
  <2>3. CASE Remove
    BY <2>3 DEF Remove
  <2> QED
    BY <2>1, <2>2, <2>3 DEF StorageStep
<1>4. CASE UNCHANGED frames
  BY <1>1, <1>2, <1>4, NestStays
<1>5. ASSUME NEW r, NEW at, Me.pc \in {"run", "put"}, at \in {"run", "put"}, Writes(r, at) PROVE Nest'
  <2>1. PICK g : Moved(g) /\ Kept(g) /\ g.pc = at
    BY <1>5, WriteMoves
  <2>2. Me.pc \in Calls \cup {"put"} /\ g.pc \in Calls \cup {"put"}
    BY <1>5, <2>1 DEF Calls
  <2> QED
    BY <1>1, <1>2, <2>1, <2>2, NestCall
<1> QED
  BY <1>3, <1>4, <1>5

\* The calls that move no context
LEMMA QuickNest ==
  ASSUME IInv, Nest, NEW h \in Handlers, Build(h) \/ SetStorage(h) \/ Enable(h) \/ Request(h)
  PROVE  Nest'
<1>1. UNCHANGED <<frames, current>>
  BY Zenon DEF Build, SetStorage, Enable, Request
<1>2. CASE Build(h)
  <2>1. phase' = [phase EXCEPT ![h] = "builder"] /\ UNCHANGED <<vector, armed, polls>>
    BY <1>2 DEF Build
  <2>2. Tables'
    BY <2>1 DEF Nest, Tables
  <2> QED
    BY <1>1, <2>1, <2>2, NestStays
<1>3. CASE SetStorage(h)
  <2>1. UNCHANGED <<phase, vector, armed, polls>>
    BY <1>3 DEF SetStorage
  <2> QED
    BY <1>1, <2>1, TablesStay, NestStays DEF Nest
<1>4. CASE Enable(h)
  <2>1. /\ phase' = [phase EXCEPT ![h] = "enabled"] /\ armed' = armed \cup {Number[h]}
        /\ UNCHANGED <<vector, polls>> /\ phase[h] = "attached"
    BY <1>4 DEF Enable
  <2>2. Number[h] \in Numbers
    BY DEF Numbers
  <2>3. Tables'
    BY <2>1, <2>2 DEF Nest, Tables
  <2> QED
    BY <1>1, <2>1, <2>3, NestStays
<1>5. CASE Request(h)
  <2>1. UNCHANGED <<phase, vector, armed>> /\ (polls' = polls \/ polls' = Push(polls, h))
    BY <1>5, Zenon DEF Request, handlerVars
  <2>2. polls \in Queues
    BY DEF Nest, Tables
  <2>3. Push(polls, h) \in Queues
    <3>1. /\ polls.items \in Seq(Handlers) /\ polls.owned \in SUBSET Handlers
          /\ polls.dummy \in Handlers \cup {Sentinel}
      BY <2>2 DEF Queues
    <3> DEFINE o == polls.owned \cup {h}
               l == h = polls.dummy /\ polls.items = <<>>
               i == IF h = polls.dummy THEN <<>> ELSE Append(polls.items, h)
    <3>2. o \in SUBSET Handlers /\ l \in BOOLEAN /\ i \in Seq(Handlers)
      BY <3>1
    <3>3. Push(polls, h) = [polls EXCEPT !.owned = o, !.looped = l, !.items = i]
      BY DEF Push
    <3> HIDE DEF o, l, i
    <3> QED
      BY <2>2, <3>2, <3>3, Zenon DEF Queues
  <2>4. Tables'
    BY <2>1, <2>2, <2>3 DEF Nest, Tables
  <2> QED
    BY <1>1, <2>1, <2>4, NestStays
<1> QED
  BY <1>2, <1>3, <1>4, <1>5

LEMMA AttachPushes ==
  ASSUME IInv, NEW h \in Handlers, Attach(h)
  PROVE  \E f, g :
           /\ Pushes(f, g) /\ Kept(f) /\ f.pc = "uncount" /\ f.guards = Me.guards
           /\ g.kind = "attach" /\ g.icb = h /\ g.pc = "switch" /\ g.guards = <<>>
<1>1. PICK R : Me \in Frames(R)
  BY Running
<1> DEFINE f == Placed("uncount")
           g == Frame("attach", h, "switch")
<1>2. Kept(f) /\ f.pc = "uncount" /\ f.guards = Me.guards
  BY <1>1 DEF Placed, Frames, Kept
<1>3. g.kind = "attach" /\ g.icb = h /\ g.pc = "switch" /\ g.guards = <<>>
  BY DEF Frame
<1>4. frames' = Append([frames EXCEPT ![Len(frames)] = f], g)
  BY DEF Attach, Placed, Me, Depth
<1> HIDE DEF f, g
<1>5. Pushes(f, g)
  BY <1>4, AppendPushes
<1> QED
  BY <1>2, <1>3, <1>5, Zenon

LEMMA AttachNest ==
  ASSUME IInv, Nest, NEW h \in Handlers, Attach(h)
  PROVE  Nest'
<1>1. /\ Me.kind = "thread" /\ phase[h] = "builder" /\ phase' = [phase EXCEPT ![h] = "attached"]
      /\ vector' = [vector EXCEPT ![Number[h]] = h] /\ UNCHANGED <<current, armed, polls>> /\ Me.pc = "run"
  BY Zenon DEF Attach, Body, At
<1>2. PICK f, g :
        /\ Pushes(f, g) /\ Kept(f) /\ f.pc = "uncount"
        /\ g.kind = "attach" /\ g.icb = h /\ g.pc = "switch"
  BY AttachPushes
<1>3. Number[h] \in Numbers
  BY DEF Numbers
<1>4. Tables'
  <2>1. /\ vector \in [Numbers -> Handlers \cup {Null}] /\ armed \subseteq Numbers
        /\ phase \in [Handlers -> {"static", "builder", "attached", "enabled"}] /\ polls \in Queues
        /\ \A i \in Handlers : phase[i] \in {"attached", "enabled"} => vector[Number[i]] \in Handlers
        /\ \A n \in armed : vector[n] \in Handlers
    BY DEF Nest, Tables
  <2>2. /\ \A n \in Numbers : vector'[n] = IF n = Number[h] THEN h ELSE vector[n]
        /\ \A i \in Handlers : phase'[i] = IF i = h THEN "attached" ELSE phase[i]
    BY <1>1, <1>3, <2>1
  <2>3. /\ vector' \in [Numbers -> Handlers \cup {Null}]
        /\ phase' \in [Handlers -> {"static", "builder", "attached", "enabled"}]
    BY <1>1, <2>1, Zenon
  <2>4. \A i \in Handlers : Number[i] \in Numbers
    BY DEF Numbers
  <2>5. \A i \in Handlers : phase'[i] \in {"attached", "enabled"} => vector'[Number[i]] \in Handlers
    BY <2>1, <2>2, <2>4
  <2>6. \A n \in armed : vector'[n] \in Handlers
    BY <2>1, <2>2
  <2> QED
    BY <1>1, <2>1, <2>3, <2>5, <2>6 DEF Tables
<1>5. Alike(Me, f) /\ Bound(f, armed)
  BY <1>1, <1>2 DEF Alike, Bound, Kept, Act, Outer
<1>6. ~Act(g) /\ g.pc \notin Outer /\ Bound(g, armed)
  BY <1>2 DEF Act, Outer, Bound
<1> QED
  BY <1>1, <1>2, <1>4, <1>5, <1>6, NestPushes

\* The steps of interrupt_context that set the place only
LEMMA PlaceNest ==
  ASSUME IInv, Nest, NEW at, Goto(at), UNCHANGED <<current, vector, phase, armed, polls>>,
         Me.kind # "thread", Me.pc \in {"run", "poll", "drain", "again"},
         at \in {"poll", "leave", "drain", "again"},
         at \in Outer => Me.pc \in Outer \/ Me.prev = Null
  PROVE  Nest'
<1>1. PICK g : Moved(g) /\ Kept(g) /\ g.pc = at
  BY GotoMoves
<1>2. Act(Me) /\ Act(g) /\ Bound(g, armed)
  BY <1>1, MeBound DEF Act, Kept, Bound
<1>3. Tables'
  BY TablesStay DEF Nest
<1>4. CASE at \in Outer => Me.pc \in Outer
  <2>1. Alike(Me, g)
    BY <1>1, <1>2, <1>4 DEF Alike, Kept
  <2> QED
    BY <1>1, <1>2, <1>3, <2>1, NestMoves
<1>5. CASE Me.prev = Null
  <2>1. Inner(frames, Null, Len(frames) - 1) /\ Null \notin Handlers
    BY <1>2, <1>5, MeBound, HandlersAssumption, Zenon
  <2>2. \A k \in 1 .. Len(frames) - 1 : Act(frames[k]) => frames[k].icb \in Handlers
    BY Depths DEF Nest, Bound, Act
  <2>3. \A k \in 1 .. Len(frames) - 1 : ~Act(frames[k])
    BY <2>1, <2>2, Zenon DEF Inner
  <2>4. Chain(frames', current)
    <3> DEFINE n == Len(frames)
    <3>1. /\ n \in Nat \ {0} /\ n = Len(frames) /\ n = Len(frames') /\ Chain(frames, current)
          /\ \A k \in 1 .. n - 1 : frames'[k] = frames[k]
          /\ Act(frames[n]) /\ Act(frames'[n]) /\ frames'[n].icb = frames[n].icb
          /\ frames'[n].prev = frames[n].prev /\ \A j \in 1 .. n - 1 : ~Act(frames[j])
      BY <1>1, <1>2, <2>3, Depths, Zenon DEF Nest, Moved, Kept
    <3> HIDE DEF n
    <3> QED
      BY <3>1, ChainOuter, Zenon
  <2> QED
    BY <1>1, <1>2, <1>3, <2>4, NestTop
<1> QED
  BY <1>4, <1>5

LEMMA VectorMoves ==
  ASSUME IInv, Vector
  PROVE  \E g : /\ Moved(g) /\ g.kind = Me.kind /\ g.num = Me.num /\ g.icb = vector[Me.num]
                /\ g.pc = "switch" /\ g.guards = Me.guards /\ Me.kind = "isr"
<1>1. Me.pc = "vector"
  BY DEF Vector, At
<1>2. PICK R : Me \in Frames(R)
  BY Running
<1> DEFINE v == vector[Me.num]
           g == [Me EXCEPT !.icb = v, !.pc = "switch"]
<1>3. frames' = [frames EXCEPT ![Len(frames)] = g]
  BY Zenon DEF Vector, Me, Depth
<1> HIDE DEF v
<1>4. g.kind = Me.kind /\ g.num = Me.num /\ g.icb = v /\ g.pc = "switch" /\ g.guards = Me.guards
  BY <1>2, Zenon DEF Frames
<1> HIDE DEF g
<1>5. Me.kind = "isr"
  BY <1>1, CallOwns DEF Owner
<1> QED
  BY <1>3, <1>4, <1>5, TopSet, Zenon DEF v

LEMMA VectorNest ==
  ASSUME IInv, Nest, Vector
  PROVE  Nest'
<1>1. Me.pc = "vector" /\ UNCHANGED <<current, vector, phase, armed, polls>>
  BY DEF Vector, At, handlerVars
<1>2. PICK g : /\ Moved(g) /\ g.kind = Me.kind /\ g.num = Me.num /\ g.icb = vector[Me.num]
               /\ g.pc = "switch" /\ Me.kind = "isr"
  BY VectorMoves
<1>3. Me.num \in armed
  BY <1>2, MeBound DEF Bound
<1>4. Bound(g, armed)
  BY <1>2, <1>3 DEF Bound, Nest, Tables
<1>5. Alike(Me, g)
  BY <1>1, <1>2 DEF Alike, Act, Outer
<1> QED
  BY <1>1, <1>2, <1>4, <1>5, NestMoves, TablesStay, Zenon DEF Nest

LEMMA SwitchMoves ==
  ASSUME IInv, Switch
  PROVE  \E g : /\ Moved(g) /\ g.kind = Me.kind /\ g.num = Me.num /\ g.icb = Me.icb /\ g.prev = current
                /\ g.pc \in {"run", "poll"} /\ g.guards = Me.guards /\ Me.kind # "thread"
<1>1. Me.pc = "switch" /\ Me.pc \in Context
  BY DEF Switch, At, Context
<1>2. PICK R : Me \in Frames(R)
  BY Running
<1>3. PICK at \in {"run", "poll"} :
        frames' = [frames EXCEPT ![Len(frames)] = [Me EXCEPT !.prev = current, !.pc = at]]
  BY Zenon DEF Switch, Me, Depth
<1> DEFINE g == [Me EXCEPT !.prev = current, !.pc = at]
<1>4. /\ g.kind = Me.kind /\ g.num = Me.num /\ g.icb = Me.icb /\ g.prev = current /\ g.pc = at
      /\ g.guards = Me.guards
  BY <1>2, Zenon DEF Frames
<1>5. frames' = [frames EXCEPT ![Len(frames)] = g]
  BY <1>3
<1> HIDE DEF g
<1> QED
  BY <1>1, <1>3, <1>4, <1>5, InContext, TopSet, Zenon

LEMMA SwitchNest ==
  ASSUME IInv, Nest, Switch
  PROVE  Nest'
<1>1. Me.pc = "switch" /\ current' = Me.icb /\ UNCHANGED <<vector, phase, armed, polls>>
  BY DEF Switch, At, handlerVars
<1>2. PICK g : /\ Moved(g) /\ g.kind = Me.kind /\ g.num = Me.num /\ g.icb = Me.icb /\ g.prev = current
               /\ g.pc \in {"run", "poll"} /\ Me.kind # "thread"
  BY SwitchMoves, Zenon
<1>3. Bound(g, armed)
  BY <1>1, <1>2, MeBound, Zenon DEF Bound
<1>4. Chain(frames', current')
  <2> DEFINE n == Len(frames)
  <2>1. /\ n \in Nat \ {0} /\ n = Len(frames) /\ n = Len(frames') /\ Chain(frames, current)
        /\ \A k \in 1 .. n - 1 : frames'[k] = frames[k]
        /\ ~Act(frames[n]) /\ Act(frames'[n]) /\ frames'[n].icb = current'
        /\ frames'[n].prev = current /\ frames'[n].pc \notin Outer
    BY <1>1, <1>2, Depths, Zenon DEF Nest, Moved, Act, Outer
  <2> HIDE DEF n
  <2> QED
    BY <2>1, ChainEnters, Zenon
<1> QED
  BY <1>1, <1>2, <1>3, <1>4, NestTop, TablesStay, Zenon DEF Nest

LEMMA LeaveNest ==
  ASSUME IInv, Nest, LeaveContext
  PROVE  Nest'
<1>1. /\ Me.pc = "leave" /\ Me.pc \in Context /\ current' = Me.prev /\ Goto("complete")
      /\ UNCHANGED <<vector, phase, armed, polls>>
  BY DEF LeaveContext, At, handlerVars, Context
<1>2. PICK g : Moved(g) /\ Kept(g) /\ g.pc = "complete"
  BY <1>1, GotoMoves, Zenon
<1>3. Me.kind # "thread"
  BY <1>1, InContext
<1>4. Bound(g, armed)
  BY <1>1, <1>2, MeBound, Zenon DEF Bound, Kept
<1>5. Chain(frames', current')
  <2> DEFINE n == Len(frames)
  <2>1. /\ n \in Nat \ {0} /\ n = Len(frames) /\ n = Len(frames') /\ Chain(frames, current)
        /\ \A k \in 1 .. n - 1 : frames'[k] = frames[k]
        /\ Act(frames[n]) /\ ~Act(frames'[n]) /\ frames[n].prev = current' /\ frames'[n].pc \notin Outer
    BY <1>1, <1>2, <1>3, Depths, Zenon DEF Nest, Moved, Act, Outer, Kept
  <2> HIDE DEF n
  <2> QED
    BY <2>1, ChainLeaves, Zenon
<1> QED
  BY <1>1, <1>2, <1>4, <1>5, NestTop, TablesStay, Zenon DEF Nest

LEMMA CompleteNest ==
  ASSUME IInv, Nest, Complete
  PROVE  Nest'
<1>1. Me.pc = "complete" /\ UNCHANGED <<current, vector, phase, armed, polls>>
  BY DEF Complete, At, handlerVars
<1> DEFINE n == Len(frames)
<1>2. /\ n \in Nat \ {0} /\ n = Len(frames) /\ Len(frames') = n - 1 /\ Chain(frames, current)
      /\ \A k \in 1 .. n - 1 : frames'[k] = frames[k]
      /\ ~Act(frames[n])
  BY <1>1, CompletePops, Depths DEF Nest, Act
<1>3. \A k \in 1 .. n - 1 : Bound(frames'[k], armed)
  BY <1>2, Depths, Zenon DEF Nest
<1> HIDE DEF n
<1>4. Chain(frames', current)
  BY <1>2, ChainPops
<1>5. Tables'
  BY <1>1, TablesStay DEF Nest
<1> QED
  BY <1>1, <1>2, <1>3, <1>4, <1>5 DEF Nest

LEMMA InterruptPushes ==
  ASSUME IInv, NEW n, Interrupt(n)
  PROVE  \E g : Pushes(Me, g) /\ g.kind = "isr" /\ g.num = n /\ g.pc = "vector" /\ g.guards = <<>>
<1> DEFINE g == [Frame("isr", Null, "vector") EXCEPT !.num = n]
<1>1. g.kind = "isr" /\ g.num = n /\ g.pc = "vector" /\ g.guards = <<>>
  BY DEF Frame
<1>2. frames' = Append(frames, g)
  BY DEF Interrupt
<1> HIDE DEF g
<1> QED
  BY <1>1, <1>2, AppendPushes

LEMMA InterruptNest ==
  ASSUME IInv, Nest, NEW n, Interrupt(n)
  PROVE  Nest'
<1>1. n \in armed /\ UNCHANGED <<current, vector, phase, armed, polls>>
  BY DEF Interrupt, handlerVars
<1>2. PICK g : Pushes(Me, g) /\ g.kind = "isr" /\ g.num = n /\ g.pc = "vector"
  BY InterruptPushes
<1>3. ~Act(g) /\ g.pc \notin Outer /\ Bound(g, armed)
  BY <1>1, <1>2 DEF Act, Outer, Bound
<1>4. Alike(Me, Me) /\ Bound(Me, armed)
  BY MeBound DEF Alike
<1> QED
  BY <1>1, <1>2, <1>3, <1>4, NestPushes, TablesStay, Zenon DEF Nest

\* A pending poll has a context of its own.
LEMMA DrainPushes ==
  ASSUME IInv, Drain
  PROVE  \/ UNCHANGED <<frames, polls>>
         \/ UNCHANGED polls /\ Goto("again")
         \/ /\ polls.items # <<>> /\ polls' = Pop(polls)
            /\ \E g : /\ Pushes(Me, g) /\ g.kind = "poll" /\ g.icb = Head(polls.items)
                      /\ g.pc = "switch" /\ g.guards = <<>>
<1>1. CASE Spins(polls) \/ polls.items = <<>>
  BY <1>1, Zenon DEF Drain
<1>2. CASE ~Spins(polls) /\ polls.items # <<>>
  <2> DEFINE h == Head(polls.items)
             g == [Frame("poll", h, "switch") EXCEPT !.num = Number[h]]
  <2>1. g.kind = "poll" /\ g.icb = h /\ g.pc = "switch" /\ g.guards = <<>>
    BY DEF Frame
  <2>2. polls' = Pop(polls) /\ frames' = Append(frames, g)
    BY <1>2, Zenon DEF Drain
  <2> HIDE DEF g, h
  <2>3. Pushes(Me, g)
    BY <2>2, AppendPushes
  <2> QED
    BY <1>2, <2>1, <2>2, <2>3, Zenon DEF h
<1> QED
  BY <1>1, <1>2, Zenon

LEMMA DrainNest ==
  ASSUME IInv, Nest, Drain
  PROVE  Nest'
<1>1. /\ Me.pc = "drain" /\ Me.pc \in Context /\ Me.pc \in Outer
      /\ UNCHANGED <<current, vector, phase, armed>>
  BY Zenon DEF Drain, At, handlerVars, Context, Outer
<1>2. CASE UNCHANGED <<frames, polls>>
  BY <1>1, <1>2, NestStays, TablesStay DEF Nest
<1>3. CASE UNCHANGED polls /\ Goto("again")
  BY <1>1, <1>3, InContext, PlaceNest
<1>4. CASE /\ polls.items # <<>> /\ polls' = Pop(polls)
           /\ \E g : /\ Pushes(Me, g) /\ g.kind = "poll" /\ g.icb = Head(polls.items)
                     /\ g.pc = "switch"
  <2>1. PICK g : Pushes(Me, g) /\ g.kind = "poll" /\ g.icb = Head(polls.items) /\ g.pc = "switch"
    BY <1>4, Zenon
  <2>2. polls \in Queues
    BY DEF Nest, Tables
  <2>3. polls.items \in Seq(Handlers) /\ polls.owned \in SUBSET Handlers
    BY <2>2 DEF Queues
  <2>4. Head(polls.items) \in Handlers /\ Tail(polls.items) \in Seq(Handlers)
    BY <1>4, <2>3
  <2>5. Pop(polls) \in Queues
    BY <2>2, <2>3, <2>4, Zenon DEF Queues, Pop
  <2>6. Tables'
    BY <1>1, <1>4, <2>5, Zenon DEF Nest, Tables
  <2>7. ~Act(g) /\ g.pc \notin Outer /\ Bound(g, armed)
    BY <2>1, <2>4 DEF Act, Outer, Bound
  <2>8. Alike(Me, Me) /\ Bound(Me, armed)
    BY MeBound DEF Alike
  <2> QED
    BY <1>1, <2>1, <2>6, <2>7, <2>8, NestPushes
<1> QED
  BY <1>2, <1>3, <1>4, DrainPushes, Zenon

LEMMA PollNest ==
  ASSUME IInv, Nest, EndClosure \/ Poll \/ Again
  PROVE  Nest'
<1>1. UNCHANGED <<current, vector, phase, armed, polls>>
  BY DEF EndClosure, Poll, Again, handlerVars
<1>2. CASE EndClosure
  <2>1. Me.pc = "run" /\ Me.kind # "thread" /\ Goto("poll") /\ "poll" \notin Outer
    BY <1>2 DEF EndClosure, Body, At, Outer
  <2> QED
    BY <1>1, <2>1, PlaceNest
<1>3. CASE Poll
  <2>1. Me.pc = "poll" /\ Me.pc \in Context
    BY <1>3 DEF Poll, At, Context
  <2>2. CASE UNCHANGED frames
    BY <1>1, <2>2, NestStays, TablesStay DEF Nest
  <2>3. CASE Goto("drain") /\ Me.prev = Null
    BY <1>1, <2>1, <2>3, InContext, PlaceNest
  <2>4. CASE Goto("leave")
    <3>1. "leave" \notin Outer
      BY DEF Outer
    <3> QED
      BY <1>1, <2>1, <2>4, <3>1, InContext, PlaceNest
  <2> QED
    BY <1>3, <2>2, <2>3, <2>4 DEF Poll
<1>4. CASE Again
  <2>1. Me.pc = "again" /\ Me.pc \in Context /\ Me.pc \in Outer
    BY <1>4 DEF Again, At, Context, Outer
  <2>2. PICK at \in {"leave", "drain"} : Goto(at)
    BY <1>4 DEF Again
  <2> QED
    BY <1>1, <2>1, <2>2, InContext, PlaceNest
<1> QED
  BY <1>2, <1>3, <1>4

LEMMA InitNest ==
  ASSUME Init
  PROVE  Nest
<1> DEFINE f == Frame("thread", Null, "run")
<1>1. f.kind = "thread" /\ f.pc = "run"
  BY DEF Frame
<1>2. frames = <<f>> /\ current = Null /\ armed = {}
  BY DEF Init
<1> HIDE DEF f
<1>3. Len(frames) = 1 /\ frames[1] = f
  BY <1>2
<1>4. ~Act(f) /\ f.pc \notin Outer /\ Bound(f, armed)
  BY <1>1 DEF Act, Outer, Bound
<1>5. \A k \in 1 .. Len(frames) : frames[k] = f
  BY <1>3
<1>6. Chain(frames, current)
  BY <1>2, <1>4, <1>5, Zenon DEF Chain, Inner
<1>7. Tables
  <2>1. EmptyQueue \in Queues
    BY DEF EmptyQueue, Queues
  <2>2. phase = [h \in Handlers |-> "static"] /\ vector = [n \in Numbers |-> Null] /\ polls = EmptyQueue
    BY DEF Init
  <2> QED
    BY <1>2, <2>1, <2>2 DEF Tables
<1> QED
  BY <1>4, <1>5, <1>6, <1>7 DEF Nest

LEMMA NextNest ==
  ASSUME IInv, flag \in Int, Nest, [Next]_vars
  PROVE  Nest'
<1>1. CASE LockStep \/ CellStep
  <2>1. Works
    BY <1>1, LockWorks, CellWorks
  <2>2. UNCHANGED <<current, handlerVars, polls>>
    <3>1. CASE LockStep
      BY <3>1, Zenon DEF LockStep, Acquire, Count, Own, Leave, Unlock, Uncount, Restore
    <3>2. CASE CellStep
      BY <3>2, Zenon DEF CellStep, UpdateGet, UpdateSet, BorrowShared, TryBorrow, BorrowMut, TryBorrowMut,
         CloneRef, Replace, ReplaceSet, Drop, NewMutable, NewImmutable, Guard
    <3> QED
      BY <1>1, <3>1, <3>2
  <2>3. UNCHANGED <<vector, phase, armed, polls, current>>
    BY <2>2 DEF handlerVars
  <2> QED
    BY <2>1, <2>3, NestCall, TablesStay, Zenon DEF Works, Nest
<1>2. CASE StorageStep \/ \E h \in Handlers : StartExecutor(h)
  BY <1>2, StorageNest
<1>3. CASE HandlerStep
  BY <1>2, <1>3, QuickNest, AttachNest DEF HandlerStep
<1>4. CASE Dispatch
  BY <1>4, VectorNest, SwitchNest, PollNest, DrainNest, LeaveNest, CompleteNest DEF Dispatch
<1>5. CASE \E n \in Numbers : Interrupt(n)
  BY <1>5, InterruptNest
<1>6. CASE UNCHANGED vars
  <2>1. UNCHANGED <<frames, current, vector, phase, armed, polls>>
    BY <1>6 DEF vars, handlerVars
  <2> QED
    BY <2>1, NestStays, TablesStay DEF Nest
<1> QED
  BY <1>1, <1>2, <1>3, <1>4, <1>5, <1>6 DEF Next

LEMMA NestIs ==
  ASSUME IInv, Nest
  PROVE  ContextsNest
<1>1. PICK R : Typed(Frames(R))
  BY DEF IInv
<1>2. DOMAIN frames = 1 .. Len(frames) /\ Len(frames) \in Nat
  BY <1>1 DEF Typed
<1>3. \A k : k \in Active <=> k \in 1 .. Len(frames) /\ Act(frames[k])
  BY <1>2 DEF Active, Act
<1>4. Inner(frames, current, Len(frames))
  BY DEF Nest, Chain
<1> DEFINE top == CHOOSE k \in Active : \A j \in Active : j <= k
<1> HIDE DEF top
<1>5. current = IF Active = {} THEN Null ELSE frames[top].icb
  <2>1. CASE Active = {}
    BY <1>3, <1>4, <2>1, Zenon DEF Inner
  <2>2. CASE Active # {}
    <3>1. PICK k \in 1 .. Len(frames) : /\ Act(frames[k]) /\ frames[k].icb = current
                                        /\ \A j \in k + 1 .. Len(frames) : ~Act(frames[j])
      BY <1>3, <1>4, <2>2, Zenon DEF Inner
    <3>2. k \in Active
      BY <1>3, <3>1, Zenon
    <3>3. \A j \in Active : j <= k /\ j \in Nat /\ k \in Nat
      BY <1>2, <1>3, <3>1
    <3>4. \A m \in Active : (\A j \in Active : j <= m) => m = k
      BY <3>2, <3>3
    <3> DEFINE Last(m) == m \in Active /\ \A j \in Active : j <= m
    <3>6. Last(k) /\ \A m : Last(m) => m = k
      BY <3>2, <3>3, <3>4, Zenon
    <3>7. (CHOOSE m : Last(m)) = k
      <4> HIDE DEF Last
      <4> QED
        BY <3>6
    <3>5. top = k
      BY <3>7 DEF top
    <3> QED
      BY <2>2, <3>1, <3>5, Zenon
  <2> QED
    BY <2>1, <2>2
<1>6. ASSUME NEW k \in Active, frames[k].pc \in {"drain", "again"}, NEW j \in Active PROVE k <= j
  <2>1. \A i \in 1 .. k - 1 : ~Act(frames[i])
    BY <1>3, <1>6, Zenon DEF Nest, Chain, Outer
  <2> QED
    BY <1>2, <1>3, <2>1
<1> QED
  BY <1>5, <1>6, Zenon DEF ContextsNest, top

-----------------------------------------------------------------------------
(* Theorems                                                                *)

\* The sections of the interrupt lock exclude interrupts, for any handlers, scoped locks,
\* priorities and programs and any depth of nesting (interrupt_lock.rs, with,
\* acquire_scoped_lock and release_scoped_lock).
THEOREM LockExcludes == Spec => []SectionsExclude
<1>1. Init => IInv
  BY InitInv
<1>2. IInv /\ [Next]_vars => IInv'
  BY NextInv
<1>3. IInv => SectionsExclude
  BY InvExcludes
<1> QED
  BY <1>1, <1>2, <1>3, PTL DEF Spec

\* No update of a locked cell is lost, whatever interrupts come between the read and the
\* write of a thread or of a handler (locked_cell.rs, update; refcell.rs, replace_with).
THEOREM UpdatesKept == Spec => []NoLostUpdate
<1>1. Init => IInv
  BY InitInv
<1>2. IInv /\ [Next]_vars => IInv'
  BY NextInv
<1>3. IInv => NoLostUpdate
  BY InvExcludes
<1> QED
  BY <1>1, <1>2, <1>3, PTL DEF Spec
=============================================================================
