-------------------------- MODULE HandlersContexts --------------------------
(***************************************************************************)
(* Interrupt contexts nest: by Chain, each one that has switched keeps the *)
(* handler of the next one out.  The borrow flag tells the guards: by      *)
(* Borrowed, they all belong to one context.  An executor that is found is *)
(* initialized: by Stored, an entry is halfway written only while the      *)
(* thread writes it, for a handler that no interrupt can reach.            *)
(***************************************************************************)
EXTENDS HandlersProofs, FiniteSetTheorems, WellFoundedInduction

\* More time for the provers than they have by default
USE SMTT(30), ZenonT(30)

-----------------------------------------------------------------------------
(* The borrow flag                                                         *)

\* At most one context has guards, and the flag x tells them.
Borrowed(F, x) ==
  \E o \in 1 .. Len(F) :
    Matches(F[o].guards, x) /\ \A k \in 1 .. Len(F) : k # o => F[k].guards = <<>>

LEMMA FlagTyped ==
  ASSUME IInv, Borrowed(frames, flag)
  PROVE  flag \in Int
<1>1. PICK R : Typed(Frames(R))
  BY DEF IInv
<1>2. PICK o \in 1 .. Len(frames) : Matches(frames[o].guards, flag)
  BY DEF Borrowed
<1>3. frames[o].guards \in Seq(GuardSet)
  <2>1. frames[o] \in Frames(R)
    BY <1>1 DEF Typed
  <2> QED
    BY <2>1 DEF Frames
<1> QED
  BY <1>2, <1>3 DEF Matches

\* The contexts below the thread or an interrupt have no guard.
LEMMA LowerFree ==
  ASSUME IInv, Me.kind \in {"thread", "isr"}
  PROVE  \A k \in 1 .. Len(frames) - 1 : frames[k].guards = <<>>
<1> SUFFICES ASSUME NEW k \in 1 .. Len(frames) - 1 PROVE frames[k].guards = <<>>
  OBVIOUS
<1>1. Me.kind = "isr" /\ k \in 1 .. Len(frames) /\ Len(frames) \in k + 1 .. Len(frames)
  BY Depths
<1>2. Covered(k)
  BY <1>1, Depths DEF Covered
<1> QED
  BY <1>1, <1>2, Zenon DEF IInv, Places, Passive, Quiet, Free

\* A step of a call: the guards are those of the running context.
LEMMA WorksBorrowed ==
  ASSUME IInv, Borrowed(frames, flag), Works
  PROVE  Borrowed(frames', flag')
<1>1. PICK g : /\ Moved(g) /\ Me.pc \in Calls
               /\ Matches(Me.guards, flag) => Matches(g.guards, flag')
  BY Zenon DEF Works
<1>2. Me.kind \in {"thread", "isr"}
  BY <1>1, BodyOwns, CallOwns, Zenon DEF Calls
<1>3. \A k \in 1 .. Len(frames) - 1 : frames[k].guards = <<>>
  BY <1>2, LowerFree
<1>4. PICK o \in 1 .. Len(frames) :
        /\ Matches(frames[o].guards, flag)
        /\ \A k \in 1 .. Len(frames) : k # o => frames[k].guards = <<>>
  BY DEF Borrowed
<1>5. Matches(Me.guards, flag)
  <2>1. CASE o = Len(frames)
    BY <1>4, <2>1, Depths, Zenon
  <2>2. CASE o # Len(frames)
    <3>1. frames[o].guards = <<>> /\ Me.guards = <<>>
      BY <1>3, <1>4, <2>2, Depths, Zenon
    <3> QED
      BY <1>4, <3>1
  <2> QED
    BY <2>1, <2>2
<1>6. Matches(frames'[Len(frames)].guards, flag') /\ Len(frames') = Len(frames)
  BY <1>1, <1>5, Zenon DEF Moved
<1>7. \A k \in 1 .. Len(frames) : k # Len(frames) => frames'[k].guards = <<>>
  BY <1>1, <1>3, Depths, Zenon DEF Moved
<1> QED
  BY <1>6, <1>7, Depths, Zenon DEF Borrowed

\* A step that leaves the guards alone; a new context has none.
LEMMA BorrowedStays ==
  ASSUME IInv, Borrowed(frames, flag), flag' = flag,
         Len(frames') = Len(frames) \/ Len(frames') = Len(frames) + 1,
         \A k \in 1 .. Len(frames) : frames'[k].guards = frames[k].guards,
         Len(frames') = Len(frames) + 1 => frames'[Len(frames) + 1].guards = <<>>
  PROVE  Borrowed(frames', flag')
<1>1. PICK o \in 1 .. Len(frames) :
        /\ Matches(frames[o].guards, flag)
        /\ \A k \in 1 .. Len(frames) : k # o => frames[k].guards = <<>>
  BY Zenon DEF Borrowed
<1>2. /\ o \in 1 .. Len(frames')
      /\ \A k \in 1 .. Len(frames') :
           k \in 1 .. Len(frames) \/ (k = Len(frames) + 1 /\ Len(frames') = Len(frames) + 1)
  BY Depths
<1>3. Matches(frames'[o].guards, flag') /\ \A k \in 1 .. Len(frames') : k # o => frames'[k].guards = <<>>
  BY <1>1, <1>2, Zenon
<1> QED
  BY <1>2, <1>3, Zenon DEF Borrowed

LEMMA MovedBorrowed ==
  ASSUME IInv, Borrowed(frames, flag), flag' = flag, NEW g, Moved(g), g.guards = Me.guards
  PROVE  Borrowed(frames', flag')
<1>1. Len(frames') = Len(frames) /\ \A k \in 1 .. Len(frames) : frames'[k].guards = frames[k].guards
  BY Depths, Zenon DEF Moved
<1>2. Len(frames') # Len(frames) + 1
  BY <1>1, Depths
<1> QED
  BY <1>1, <1>2, BorrowedStays, Zenon

LEMMA PushedBorrowed ==
  ASSUME IInv, Borrowed(frames, flag), flag' = flag, NEW f, NEW g, Pushes(f, g), f.guards = Me.guards,
         g.guards = <<>>
  PROVE  Borrowed(frames', flag')
<1>1. /\ Len(frames') = Len(frames) + 1 /\ frames'[Len(frames) + 1].guards = <<>>
      /\ \A k \in 1 .. Len(frames) : frames'[k].guards = frames[k].guards
  BY Depths DEF Pushes
<1> QED
  BY <1>1, BorrowedStays, Zenon

LEMMA PoppedBorrowed ==
  ASSUME IInv, Borrowed(frames, flag), Complete
  PROVE  Borrowed(frames', flag')
<1>1. /\ Len(frames) > 1 /\ Len(frames') = Len(frames) - 1 /\ Me.guards = <<>> /\ flag' = flag
      /\ \A k \in 1 .. Len(frames) - 1 : frames'[k] = frames[k]
  BY CompletePops, Zenon DEF Free, Complete, cellVars
<1>2. PICK o \in 1 .. Len(frames) :
        /\ Matches(frames[o].guards, flag)
        /\ \A k \in 1 .. Len(frames) : k # o => frames[k].guards = <<>>
  BY DEF Borrowed
<1>3. CASE o = Len(frames)
  <2>1. /\ \A k \in 1 .. Len(frames) - 1 : frames'[k].guards = <<>>
        /\ 1 \in 1 .. Len(frames) - 1 /\ Matches(<<>>, flag')
    BY <1>1, <1>2, <1>3, Depths
  <2>2. Matches(frames'[1].guards, flag')
    BY <2>1, Zenon
  <2> QED
    BY <1>1, <2>1, <2>2, Zenon DEF Borrowed
<1>4. CASE o # Len(frames)
  <2>1. /\ o \in 1 .. Len(frames) - 1 /\ Matches(frames'[o].guards, flag')
        /\ \A k \in 1 .. Len(frames) - 1 : k # o => frames'[k].guards = <<>>
    BY <1>1, <1>2, <1>4, Depths, Zenon
  <2> QED
    BY <1>1, <2>1, Zenon DEF Borrowed
<1> QED
  BY <1>3, <1>4

LEMMA NextBorrowed ==
  ASSUME IInv, Borrowed(frames, flag), [Next]_vars
  PROVE  Borrowed(frames', flag')
<1>1. CASE LockStep \/ CellStep
  BY <1>1, FlagTyped, LockWorks, CellWorks, WorksBorrowed
<1>2. ASSUME UNCHANGED <<frames, flag>> PROVE Borrowed(frames', flag')
  BY <1>2
<1>3. ASSUME NEW at, Goto(at), flag' = flag PROVE Borrowed(frames', flag')
  BY <1>3, GotoMoves, MovedBorrowed
<1>4. CASE StorageStep \/ \E h \in Handlers : StartExecutor(h)
  <2>1. flag' = flag
    BY <1>4, Zenon DEF StorageStep, Put, PutValue, Remove, StartExecutor, cellVars
  <2>2. UNCHANGED frames \/ \E r, at : Writes(r, at)
    <3>1. CASE Put \/ \E h \in Handlers : StartExecutor(h)
      <4>1. PICK c, k : PutKey(c, k)
        BY <3>1, Zenon DEF Put, StartExecutor
      <4> QED
        BY <4>1 DEF PutKey, Writes
    <3>2. CASE PutValue
      BY <3>2, Zenon DEF PutValue, Writes
    <3>3. CASE Remove
      BY <3>3 DEF Remove
    <3> QED
      BY <1>4, <3>1, <3>2, <3>3 DEF StorageStep
  <2> QED
    BY <1>2, <2>1, <2>2, WriteMoves, MovedBorrowed, Zenon
<1>5. CASE \E h \in Handlers : Build(h) \/ SetStorage(h) \/ Enable(h) \/ Request(h)
  <2>1. UNCHANGED <<frames, flag>>
    BY <1>5, Zenon DEF Build, SetStorage, Enable, Request, cellVars
  <2> QED
    BY <1>2, <2>1
<1>6. ASSUME NEW h \in Handlers, Attach(h) PROVE Borrowed(frames', flag')
  <2>1. flag' = flag
    BY <1>6, Zenon DEF Attach, cellVars
  <2> QED
    BY <1>6, <2>1, AttachPushes, PushedBorrowed, Zenon
<1>7. CASE HandlerStep
  BY <1>4, <1>5, <1>6, <1>7 DEF HandlerStep
<1>8. CASE Dispatch
  <2>1. flag' = flag
    BY <1>8, Zenon DEF Dispatch, Vector, Switch, EndClosure, Poll, Drain, Again, LeaveContext, Complete, cellVars
  <2>2. CASE Vector
    BY <2>1, <2>2, VectorMoves, MovedBorrowed, Zenon
  <2>3. CASE Switch
    BY <2>1, <2>3, SwitchMoves, MovedBorrowed, Zenon
  <2>4. CASE EndClosure \/ Poll \/ Again \/ LeaveContext
    <3>1. UNCHANGED frames \/ \E at : Goto(at)
      BY <2>4, Zenon DEF EndClosure, Poll, Again, LeaveContext
    <3> QED
      BY <1>2, <1>3, <2>1, <3>1
  <2>5. CASE Drain
    <3>1. \/ UNCHANGED frames \/ Goto("again")
          \/ \E g : Pushes(Me, g) /\ g.guards = <<>>
      BY <2>5, DrainPushes, Zenon
    <3> QED
      BY <1>2, <1>3, <2>1, <3>1, PushedBorrowed, Zenon
  <2>6. CASE Complete
    BY <2>6, PoppedBorrowed
  <2> QED
    BY <1>8, <2>2, <2>3, <2>4, <2>5, <2>6 DEF Dispatch
<1>9. ASSUME NEW n \in Numbers, Interrupt(n) PROVE Borrowed(frames', flag')
  <2>1. flag' = flag
    BY <1>9, Zenon DEF Interrupt, cellVars
  <2> QED
    BY <1>9, <2>1, InterruptPushes, PushedBorrowed, Zenon
<1>10. CASE UNCHANGED vars
  BY <1>2, <1>10 DEF vars, cellVars
<1> QED
  BY <1>1, <1>4, <1>7, <1>8, <1>9, <1>10, Zenon DEF Next

LEMMA BorrowedIs ==
  ASSUME IInv, Borrowed(frames, flag)
  PROVE  BorrowsExact
<1>1. PICK R : Typed(Frames(R))
  BY DEF IInv
<1>2. PICK o \in 1 .. Len(frames) :
        /\ Matches(frames[o].guards, flag)
        /\ \A k \in 1 .. Len(frames) : k # o => frames[k].guards = <<>>
  BY DEF Borrowed
<1>3. DOMAIN frames = 1 .. Len(frames) /\ frames[o].guards \in Seq(GuardSet)
  <2>1. DOMAIN frames = 1 .. Len(frames) /\ frames[o] \in Frames(R)
    BY <1>1 DEF Typed
  <2> QED
    BY <2>1 DEF Frames
<1> DEFINE s == frames[o].guards
           n == Len(s)
<1>4. n \in Nat /\ DOMAIN s = 1 .. n
  BY <1>3
<1>5. \A p : p \in Guards <=> \E g \in 1 .. n : p = <<o, g>>
  <2>1. \A k \in DOMAIN frames : k # o => DOMAIN frames[k].guards = {}
    BY <1>2, <1>3
  <2> QED
    BY <1>2, <1>3, <1>4, <2>1 DEF Guards
<1> HIDE DEF s, n
<1>6. IsFiniteSet(Guards) /\ Cardinality(Guards) = n
  <2> DEFINE f == [g \in 1 .. n |-> <<o, g>>]
  <2>1. f \in Bijection(1 .. n, Guards)
    <3>1. f \in [1 .. n -> Guards]
      BY <1>5
    <3>2. \A a, b \in 1 .. n : f[a] = f[b] => a = b
      OBVIOUS
    <3>3. \A t \in Guards : \E a \in 1 .. n : f[a] = t
      BY <1>5
    <3> HIDE DEF f
    <3> QED
      BY <3>1, <3>2, <3>3, Zenon DEF Bijection, Injection, Surjection, IsInjective
  <2>2. IsFiniteSet(1 .. n) /\ Cardinality(1 .. n) = n
    BY <1>4, FS_Interval
  <2> HIDE DEF f
  <2>3. ExistsBijection(1 .. n, Guards)
    BY <2>1 DEF ExistsBijection
  <2> QED
    BY <2>2, <2>3, FS_Bijection, Zenon
<1> DEFINE mutable == {p \in Guards : frames[p[1]].guards[p[2]].kind = "mut"}
<1>7. \A g \in 1 .. n : <<o, g>> \in mutable <=> s[g].kind = "mut"
  BY <1>5, Zenon DEF s
<1>8. mutable # {} <=> \E g \in 1 .. n : s[g].kind = "mut"
  BY <1>5, <1>7, Zenon
<1>9. Matches(s, flag)
  BY <1>2 DEF s
<1> HIDE DEF mutable
<1>10. (mutable # {} => n = 1) /\ flag = IF mutable = {} THEN n ELSE -1
  BY <1>4, <1>8, <1>9 DEF Matches, n
<1> QED
  BY <1>6, <1>10, Zenon DEF BorrowsExact, mutable

-----------------------------------------------------------------------------
(* An executor that is found is initialized                                *)

\* Each interrupt number has at most one handler.
OneHandler == \A g, h \in Handlers : Number[g] = Number[h] => g = h

EntrySet == [key : {NoKey, "data", Executor}, value : Handlers \cup {Thread, Null}]
Stores == storage \in [Handlers \cup {Thread} -> Seq(EntrySet)]

\* The key of an executor is set and its value is not.
Halfway(e) == e.key = Executor /\ e.value = Null

\* This is so only while the thread is between the two writes, and for a handler whose
\* interrupt is not enabled.
Halves ==
  \A c \in Handlers : \A i \in DOMAIN storage[c] :
    Halfway(storage[c][i]) =>
      frames[1].pc = "put" /\ frames[1].reg = <<c, i>> /\ phase[c] \in {"builder", "attached"}

\* An interrupt and a pending poll are for a handler that is enabled, and an entry is put in
\* the storage of a context.
Ready(f, p) ==
  /\ f.kind \in {"isr", "poll"} /\ f.pc # "vector" => p[f.icb] = "enabled"
  /\ f.pc = "put" => f.reg[1] \in Handlers \cup {Thread}

\* The thread waits in the `with` section of attach.
Attaching(f) == f.kind = "attach" => frames[1].pc = "uncount"

Live ==
  /\ \A h \in Handlers : phase[h] \in {"attached", "enabled"} => vector[Number[h]] = h
  /\ \A n \in armed : \E h \in Handlers : Number[h] = n /\ phase[h] = "enabled"
  /\ \A i \in 1 .. Len(polls.items) : phase[polls.items[i]] = "enabled"

Stored ==
  /\ Stores /\ Halves /\ Live /\ fault # "null"
  /\ \A k \in 1 .. Len(frames) : Ready(frames[k], phase) /\ Attaching(frames[k])

LEMMA SeqSet ==
  ASSUME NEW E, NEW s \in Seq(E), NEW i, NEW e, i \in DOMAIN s => e \in E
  PROVE  LET t == [s EXCEPT ![i] = e]
         IN /\ t \in Seq(E) /\ DOMAIN t = DOMAIN s
            /\ \A j \in DOMAIN s : t[j] = IF j = i THEN e ELSE s[j]
<1> DEFINE t == [s EXCEPT ![i] = e]
<1>1. CASE i \in DOMAIN s
  BY <1>1
<1>2. CASE i \notin DOMAIN s
  <2>1. t = s
    BY <1>2
  <2> QED
    BY <1>2, <2>1, Zenon
<1> QED
  BY <1>1, <1>2, Zenon

\* An entry of a storage becomes e.
Entered(c, i, e) == storage' = [storage EXCEPT ![c] = [storage[c] EXCEPT ![i] = e]]

LEMMA EntrySets ==
  ASSUME Stores, NEW c \in Handlers \cup {Thread}, NEW i, NEW e,
         i \in DOMAIN storage[c] => e \in EntrySet, Entered(c, i, e)
  PROVE  /\ Stores'
         /\ \A d \in Handlers : DOMAIN storage'[d] = DOMAIN storage[d]
         /\ \A d \in Handlers : \A j \in DOMAIN storage[d] :
              storage'[d][j] = IF d = c /\ j = i THEN e ELSE storage[d][j]
<1> DEFINE s == storage[c]
           t == [s EXCEPT ![i] = e]
<1>1. s \in Seq(EntrySet) /\ (i \in DOMAIN s => e \in EntrySet)
  BY DEF Stores
<1> HIDE DEF s
<1>2. /\ t \in Seq(EntrySet) /\ DOMAIN t = DOMAIN s
      /\ \A j \in DOMAIN s : t[j] = IF j = i THEN e ELSE s[j]
  BY <1>1, SeqSet
<1>3. storage' = [storage EXCEPT ![c] = t]
  BY DEF Entered, s
<1> HIDE DEF t
<1>4. Stores'
  BY <1>2, <1>3, Zenon DEF Stores
<1>5. \A d \in Handlers : storage'[d] = IF d = c THEN t ELSE storage[d]
  BY <1>3 DEF Stores
<1> QED
  BY <1>2, <1>4, <1>5, Zenon DEF s

\* The thread, when it is not between the two writes
LEMMA NoneHalfway ==
  ASSUME IInv, Stored, Len(frames) = 1, Me.pc # "put"
  PROVE  \A c \in Handlers : \A i \in DOMAIN storage[c] : ~Halfway(storage[c][i])
BY Zenon DEF Stored, Halves, Me, Depth

\* The contexts stay ready when the innermost one becomes g.
LEMMA ReadyTop ==
  ASSUME IInv, Stored, NEW g, Moved(g), g.kind = Me.kind, Ready(g, phase), phase' = phase
  PROVE  \A k \in 1 .. Len(frames') : Ready(frames'[k], phase') /\ Attaching(frames[k])'
<1>1. CASE Len(frames) = 1
  <2>1. g.kind = "thread"
    BY <1>1, Depths
  <2>2. \A k \in 1 .. Len(frames') : frames'[k] = g
    BY <1>1 DEF Moved
  <2> QED
    BY <2>1, <2>2, Zenon DEF Attaching
<1>2. CASE Len(frames) # 1
  <2>1. frames'[1] = frames[1]
    BY <1>2, Depths DEF Moved
  <2> SUFFICES ASSUME NEW k \in 1 .. Len(frames')
               PROVE  Ready(frames'[k], phase') /\ Attaching(frames[k])'
    BY Zenon
  <2>2. k \in 1 .. Len(frames)
    BY DEF Moved
  <2>3. frames'[k].kind = frames[k].kind
    BY <2>2, Depths, Zenon DEF Moved
  <2>4. Attaching(frames[k])'
    BY <2>1, <2>2, <2>3, Zenon DEF Attaching, Stored
  <2>5. Ready(frames'[k], phase')
    BY <2>2, Depths, Zenon DEF Moved, Stored
  <2> QED
    BY <2>4, <2>5, Zenon
<1> QED
  BY <1>1, <1>2, Zenon

\* The innermost context moves on, and the storages stay.
LEMMA StoredTop ==
  ASSUME IInv, Stored, NEW g, Moved(g), Me.pc # "put", g.kind = Me.kind, Ready(g, phase),
         UNCHANGED <<storage, phase, vector, armed, polls>>, fault' # "null"
  PROVE  Stored'
<1>1. Stores' /\ Live'
  BY Zenon DEF Stored, Stores, Live
<1>2. Halves'
  <2>1. CASE Len(frames) = 1
    BY <2>1, NoneHalfway, Zenon DEF Halves
  <2>2. CASE Len(frames) # 1
    <3>1. frames'[1] = frames[1]
      BY <2>2, Depths DEF Moved
    <3> QED
      BY <3>1, Zenon DEF Stored, Halves
  <2> QED
    BY <2>1, <2>2, Zenon
<1> QED
  BY <1>1, <1>2, ReadyTop, Zenon DEF Stored

LEMMA WorksStored ==
  ASSUME IInv, Stored, LockStep \/ CellStep, Works
  PROVE  Stored'
<1>1. PICK g : Moved(g) /\ Kept(g) /\ Me.pc \in Calls /\ g.pc \in Calls
  BY Zenon DEF Works
<1>2. Ready(Me, phase)
  BY Depths DEF Stored
<1>3. Me.pc # "put" /\ Ready(g, phase) /\ g.kind = Me.kind
  BY <1>1, <1>2, Zenon DEF Calls, Ready, Kept
<1>4. UNCHANGED <<storage, phase, vector, armed, polls>> /\ fault' # "null"
  <2>1. CASE LockStep
    <3>1. UNCHANGED <<storage, phase, vector, armed, polls>>
      BY <2>1, Zenon DEF LockStep, Acquire, Count, Own, Leave, Unlock, Uncount, Restore, handlerVars
    <3>2. fault' = fault \/ fault' = "RecursiveLock"
      BY <2>1, Zenon DEF LockStep, Acquire, Count, Own, Leave, Unlock, Uncount, Restore
    <3> QED
      BY <3>1, <3>2 DEF Stored
  <2>2. CASE CellStep
    <3>1. UNCHANGED <<storage, phase, vector, armed, polls>>
      BY <2>2, Zenon DEF CellStep, UpdateGet, UpdateSet, BorrowShared, TryBorrow, BorrowMut, TryBorrowMut,
         CloneRef, Replace, ReplaceSet, Drop, NewMutable, NewImmutable, Guard, handlerVars
    <3>2. fault' \in {fault, "borrowed", "unreachable"}
      BY <2>2, Zenon DEF CellStep, UpdateGet, UpdateSet, BorrowShared, TryBorrow, BorrowMut, TryBorrowMut,
         CloneRef, Replace, ReplaceSet, Drop, NewMutable, NewImmutable, Guard
    <3> QED
      BY <3>1, <3>2 DEF Stored
  <2> QED
    BY <2>1, <2>2
<1> QED
  BY <1>1, <1>3, <1>4, StoredTop, Zenon

\* A step that leaves the contexts and the storages alone
LEMMA StoredStays ==
  ASSUME Stored, UNCHANGED <<frames, storage, phase>>, Live', fault' # "null"
  PROVE  Stored'
BY Zenon DEF Stored, Stores, Halves, Attaching

LEMMA LiveStays ==
  ASSUME Stored, UNCHANGED <<vector, phase, armed, polls>>
  PROVE  Live'
BY Zenon DEF Stored, Live

\* A key is put in the storage c: that of the context, or of a handler whose executor the
\* thread starts.
LEMMA PutKeyStored ==
  ASSUME IInv, Stored, NEW c \in Handlers \cup {Thread}, NEW k, PutKey(c, k), Me.pc = "run", fault = "none",
         UNCHANGED <<phase, vector, armed, polls>>,
         \/ k = "data"
         \/ k = Executor /\ c \in Handlers /\ phase[c] \in {"builder", "attached"} /\ Me.kind = "thread"
  PROVE  Stored'
<1>1. Live'
  BY LiveStays
<1>2. CASE Entries(c, NoKey) = {}
  <2>1. fault' = "storage" /\ UNCHANGED <<storage, frames>>
    BY <1>2 DEF PutKey
  <2> QED
    BY <1>1, <2>1, StoredStays, Zenon
<1>3. CASE Entries(c, NoKey) # {}
  <2>1. PICK i : /\ storage' = [storage EXCEPT ![c][i].key = k]
                 /\ Writes(<<c, i>>, "put") /\ fault' = fault
    BY <1>3, Zenon DEF PutKey, Writes
  <2> DEFINE e == [storage[c][i] EXCEPT !.key = k]
  <2>2. Entered(c, i, e)
    BY <2>1, Zenon DEF Entered
  <2>3. i \in DOMAIN storage[c] => e \in EntrySet /\ e.key = k
    <3> SUFFICES ASSUME i \in DOMAIN storage[c] PROVE e \in EntrySet /\ e.key = k
      OBVIOUS
    <3>1. storage[c][i] \in EntrySet
      BY DEF Stored, Stores
    <3> QED
      BY <3>1 DEF EntrySet
  <2> HIDE DEF e
  <2>4. /\ Stores' /\ \A d \in Handlers : DOMAIN storage'[d] = DOMAIN storage[d]
        /\ \A d \in Handlers : \A j \in DOMAIN storage[d] :
             storage'[d][j] = IF d = c /\ j = i THEN e ELSE storage[d][j]
    BY <2>2, <2>3, EntrySets DEF Stored
  <2>5. PICK g : Moved(g) /\ Kept(g) /\ g.pc = "put" /\ g.reg = <<c, i>>
    BY <2>1, WriteMoves
  <2>6. Ready(g, phase)
    <3>1. Ready(Me, phase)
      BY Depths, Zenon DEF Stored
    <3> QED
      BY <2>5, <3>1 DEF Ready, Kept
  <2>7. \A d \in Handlers : \A j \in DOMAIN storage'[d] :
          Halfway(storage'[d][j]) =>
            \/ Halfway(storage[d][j]) /\ j \in DOMAIN storage[d]
            \/ d = c /\ j = i /\ k = Executor
    BY <2>3, <2>4, Zenon DEF Halfway
  <2>8. Halves'
    <3>1. CASE Len(frames) = 1
      <4>1. frames'[1] = g
        BY <3>1, <2>5, Zenon DEF Moved
      <4>2. \A d \in Handlers : \A j \in DOMAIN storage'[d] :
              Halfway(storage'[d][j]) => d = c /\ j = i /\ k = Executor
        BY <2>7, <3>1, NoneHalfway, Zenon
      <4>3. k = Executor => phase'[c] \in {"builder", "attached"}
        BY DEF Executor
      <4> QED
        BY <2>5, <4>1, <4>2, <4>3, Zenon DEF Halves
    <3>2. CASE Len(frames) # 1
      <4>1. frames'[1] = frames[1]
        BY <3>2, <2>5, Depths DEF Moved
      <4>2. k # Executor
        BY <3>2, Depths, Zenon DEF Executor
      <4>3. \A d \in Handlers : \A j \in DOMAIN storage'[d] :
              Halfway(storage'[d][j]) => Halfway(storage[d][j]) /\ j \in DOMAIN storage[d]
        BY <2>7, <4>2, Zenon
      <4> QED
        BY <4>1, <4>3 DEF Halves, Stored
    <3> QED
      BY <3>1, <3>2, Zenon
  <2>9. \A m \in 1 .. Len(frames') : Ready(frames'[m], phase') /\ Attaching(frames[m])'
    BY <2>5, <2>6, ReadyTop, Zenon DEF Kept
  <2>10. fault' # "null"
    BY <2>1
  <2> QED
    BY <1>1, <2>4, <2>8, <2>9, <2>10, Zenon DEF Stored
<1> QED
  BY <1>2, <1>3

LEMMA PutValueStored ==
  ASSUME IInv, Stored, PutValue
  PROVE  Stored'
<1>1. /\ Me.pc = "put" /\ fault = "none" /\ UNCHANGED <<phase, vector, armed, polls, fault>>
      /\ Writes(0, "run")
  BY Zenon DEF PutValue, At, Writes
<1> DEFINE c == Me.reg[1]
           i == Me.reg[2]
           e == [storage[c][i] EXCEPT !.value = c]
<1>2. Ready(Me, phase)
  BY Depths DEF Stored
<1>3. c \in Handlers \cup {Thread} /\ c # Null
  BY <1>1, <1>2, HandlersAssumption, Zenon DEF Ready, Thread, Null
<1>4. Entered(c, i, e)
  BY Zenon DEF PutValue, Entered
<1> HIDE DEF c, i
<1>5. i \in DOMAIN storage[c] => e \in EntrySet /\ e.value = c
  <2> SUFFICES ASSUME i \in DOMAIN storage[c] PROVE e \in EntrySet /\ e.value = c
    OBVIOUS
  <2>1. storage[c][i] \in EntrySet
    BY <1>3 DEF Stored, Stores
  <2> QED
    BY <1>3, <2>1 DEF EntrySet
<1> HIDE DEF e
<1>6. /\ Stores' /\ \A d \in Handlers : DOMAIN storage'[d] = DOMAIN storage[d]
      /\ \A d \in Handlers : \A j \in DOMAIN storage[d] :
           storage'[d][j] = IF d = c /\ j = i THEN e ELSE storage[d][j]
  BY <1>3, <1>4, <1>5, EntrySets DEF Stored
<1>7. PICK g : Moved(g) /\ Kept(g) /\ g.pc = "run"
  BY <1>1, WriteMoves, Zenon
<1>8. Ready(g, phase)
  BY <1>1, <1>2, <1>7, Zenon DEF Ready, Kept
<1>9. \A d \in Handlers : \A j \in DOMAIN storage'[d] :
        Halfway(storage'[d][j]) => /\ Halfway(storage[d][j]) /\ j \in DOMAIN storage[d]
                                   /\ ~(d = c /\ j = i)
  BY <1>3, <1>5, <1>6, Zenon DEF Halfway
<1>10. Halves'
  <2>1. CASE Len(frames) = 1
    <3>1. ASSUME NEW d \in Handlers, NEW j \in DOMAIN storage'[d], Halfway(storage'[d][j]) PROVE FALSE
      <4>1. Me.reg = <<d, j>> /\ ~(d = c /\ j = i)
        BY <1>9, <2>1, <3>1, Zenon DEF Stored, Halves, Me, Depth
      <4> QED
        BY <4>1 DEF c, i
    <3> QED
      BY <3>1, Zenon DEF Halves
  <2>2. CASE Len(frames) # 1
    <3>1. frames'[1] = frames[1]
      BY <2>2, <1>7, Depths DEF Moved
    <3> QED
      BY <1>1, <1>9, <3>1, Zenon DEF Halves, Stored
  <2> QED
    BY <2>1, <2>2
<1>11. \A m \in 1 .. Len(frames') : Ready(frames'[m], phase') /\ Attaching(frames[m])'
  BY <1>1, <1>7, <1>8, ReadyTop, Zenon DEF Kept
<1> QED
  BY <1>1, <1>6, <1>10, <1>11, LiveStays, Zenon DEF Stored

LEMMA StorageStored ==
  ASSUME IInv, Nest, Stored, StorageStep \/ \E h \in Handlers : StartExecutor(h)
  PROVE  Stored'
<1>1. Mine \in Handlers \cup {Thread}
  BY CurrentBound DEF Mine
<1>2. CASE Put
  <2>1. PutKey(Mine, "data") /\ Me.pc = "run" /\ fault = "none" /\ UNCHANGED <<phase, vector, armed, polls>>
    BY <1>2 DEF Put, Doing, Body, At
  <2> QED
    BY <1>1, <2>1, PutKeyStored
<1>3. CASE PutValue
  BY <1>3, PutValueStored
<1>4. CASE Remove
  <2> DEFINE e == [key |-> NoKey, value |-> Null]
             c == Mine
             i == FirstOf(Entries(c, "data"))
  <2>1. Entered(c, i, e) /\ c \in Handlers \cup {Thread}
    BY <1>1, <1>4, Zenon DEF Remove, Entered
  <2> HIDE DEF c, i
  <2>2. (i \in DOMAIN storage[c] => e \in EntrySet) /\ ~Halfway(e)
    BY Zenon DEF EntrySet, Halfway, NoKey, Executor
  <2> HIDE DEF e
  <2>7. Stores
    BY DEF Stored
  <2>3. /\ Stores' /\ \A d \in Handlers : DOMAIN storage'[d] = DOMAIN storage[d]
        /\ \A d \in Handlers : \A j \in DOMAIN storage[d] :
             storage'[d][j] = IF d = c /\ j = i THEN e ELSE storage[d][j]
    BY <2>1, <2>2, <2>7, EntrySets
  <2>4. UNCHANGED <<frames, phase, vector, armed, polls, fault>>
    BY <1>4, Zenon DEF Remove
  <2>5. \A d \in Handlers : \A j \in DOMAIN storage'[d] :
          Halfway(storage'[d][j]) => Halfway(storage[d][j]) /\ j \in DOMAIN storage[d]
    BY <2>2, <2>3, Zenon
  <2>6. Halves'
    BY <2>4, <2>5, Zenon DEF Halves, Stored
  <2> QED
    BY <2>3, <2>4, <2>6, LiveStays, Zenon DEF Stored, Attaching
<1>5. ASSUME NEW h \in Handlers, StartExecutor(h) PROVE Stored'
  <2>1. /\ PutKey(h, Executor) /\ Me.pc = "run" /\ fault = "none" /\ UNCHANGED <<phase, vector, armed, polls>>
        /\ phase[h] \in {"builder", "attached"} /\ Me.kind = "thread"
    BY <1>5, Zenon DEF StartExecutor, Body, At
  <2> QED
    BY <2>1, PutKeyStored, Zenon
<1> QED
  BY <1>2, <1>3, <1>4, <1>5 DEF StorageStep

\* find_entry returns an entry when there is one.
LEMMA FirstIn ==
  ASSUME NEW S \in SUBSET Nat, S # {}
  PROVE  FirstOf(S) \in S
<1> DEFINE R == {ss \in Nat \X Nat : ss[1] < ss[2]}
           First(i) == i \in S /\ \A j \in S : i <= j
<1>1. IsWellFoundedOn(R, Nat)
  BY NatLessThanWellFounded DEF OpToRel
<1>2. \A m, n \in Nat : <<m, n>> \in R <=> m < n
  OBVIOUS
<1> HIDE DEF R
<1>3. \E n \in S : \A m \in S : ~(<<m, n>> \in R)
  BY <1>1, WFMin, Zenon
<1>4. PICK n \in S : \A m \in S : ~(<<m, n>> \in R)
  BY <1>3
<1>5. ASSUME NEW m \in S PROVE n <= m
  <2>1. m \in Nat /\ n \in Nat /\ ~(m < n)
    BY <1>2, <1>4, Zenon
  <2> QED
    BY <2>1
<1>6. First(n)
  BY <1>5
<1>7. First(CHOOSE i : First(i))
  <2> HIDE DEF First
  <2> QED
    BY <1>6, Zenon
<1> QED
  BY <1>7 DEF FirstOf

LEMMA EmptyStored ==
  EmptyStorage \in Seq(EntrySet) /\ \A i \in DOMAIN EmptyStorage : ~Halfway(EmptyStorage[i])
<1>1. StorageSize \in Nat
  BY HandlersAssumption
<1>2. [key |-> NoKey, value |-> Null] \in EntrySet /\ ~Halfway([key |-> NoKey, value |-> Null])
  BY DEF EntrySet, Halfway, NoKey, Executor
<1> QED
  BY <1>1, <1>2 DEF EmptyStorage

\* The handlers are set up by the thread, which is then in no other call.
LEMMA SetUpStored ==
  ASSUME IInv, Nest, Stored, NEW h \in Handlers, Build(h) \/ SetStorage(h) \/ Enable(h)
  PROVE  Stored'
<1>1. Me.pc = "run" /\ Me.kind = "thread" /\ UNCHANGED frames /\ fault = "none"
  BY Zenon DEF Build, SetStorage, Enable, Body, At
<1>2. Len(frames) = 1 /\ \A k \in 1 .. Len(frames) : frames[k] = Me
  BY <1>1, Depths
<1>3. \A c \in Handlers : \A i \in DOMAIN storage[c] : ~Halfway(storage[c][i])
  BY <1>1, <1>2, NoneHalfway, Zenon
<1>4. \A k \in 1 .. Len(frames') : Ready(frames'[k], phase') /\ Attaching(frames[k])'
  BY <1>1, <1>2, Zenon DEF Ready, Attaching
<1>5. /\ phase \in [Handlers -> {"static", "builder", "attached", "enabled"}] /\ Live
      /\ polls.items \in Seq(Handlers)
  BY Zenon DEF Nest, Tables, Queues, Stored
<1>6. CASE Build(h)
  <2>1. /\ phase[h] = "static" /\ phase' = [phase EXCEPT ![h] = "builder"]
        /\ UNCHANGED <<storage, vector, armed, polls, fault>>
    BY <1>6, Zenon DEF Build
  <2>2. \A i \in Handlers : phase'[i] = IF i = h THEN "builder" ELSE phase[i]
    BY <1>5, <2>1, Zenon
  <2>3. Live'
    <3>1. \A i \in Handlers : phase'[i] \in {"attached", "enabled"} => vector'[Number[i]] = i
      BY <1>5, <2>1, <2>2, Zenon DEF Live
    <3>2. \A n \in armed' : \E i \in Handlers : Number[i] = n /\ phase'[i] = "enabled"
      BY <1>5, <2>1, <2>2, Zenon DEF Live
    <3>3. \A i \in 1 .. Len(polls'.items) : phase'[polls'.items[i]] = "enabled"
      BY <1>5, <2>1, <2>2 DEF Live
    <3> QED
      BY <3>1, <3>2, <3>3, Zenon DEF Live
  <2>4. Stores' /\ Halves'
    BY <1>3, <2>1, Zenon DEF Stored, Stores, Halves
  <2> QED
    BY <1>1, <1>4, <2>1, <2>3, <2>4, Zenon DEF Stored
<1>7. CASE SetStorage(h)
  <2>1. UNCHANGED <<phase, vector, armed, polls>>
    BY <1>7, Zenon DEF SetStorage
  <2>2. CASE IsSet(h)
    <3>1. fault' = "storage already set" /\ UNCHANGED storage
      BY <1>7, <2>2 DEF SetStorage
    <3> QED
      BY <1>1, <2>1, <3>1, LiveStays, StoredStays
  <2>3. CASE ~IsSet(h)
    <3>1. storage' = [storage EXCEPT ![h] = EmptyStorage] /\ fault' = fault
      BY <1>7, <2>3 DEF SetStorage
    <3>2. EmptyStorage \in Seq(EntrySet) /\ \A i \in DOMAIN EmptyStorage : ~Halfway(EmptyStorage[i])
      BY EmptyStored
    <3>3. Stores' /\ \A c \in Handlers : storage'[c] = IF c = h THEN EmptyStorage ELSE storage[c]
      BY <3>1, <3>2, Zenon DEF Stored, Stores
    <3>4. Halves'
      BY <1>3, <3>2, <3>3, Zenon DEF Halves
    <3> QED
      BY <1>1, <1>4, <2>1, <3>1, <3>3, <3>4, LiveStays, Zenon DEF Stored
  <2> QED
    BY <2>2, <2>3
<1>8. CASE Enable(h)
  <2>1. /\ phase[h] = "attached" /\ phase' = [phase EXCEPT ![h] = "enabled"]
        /\ armed' = armed \cup {Number[h]} /\ UNCHANGED <<storage, vector, polls, fault>>
    BY <1>8, Zenon DEF Enable
  <2>2. \A i \in Handlers : phase'[i] = IF i = h THEN "enabled" ELSE phase[i]
    BY <1>5, <2>1
  <2>3. Live'
    <3>1. \A i \in Handlers : phase'[i] \in {"attached", "enabled"} => vector'[Number[i]] = i
      BY <1>5, <2>1, <2>2, Zenon DEF Live
    <3>2. \A n \in armed' : \E i \in Handlers : Number[i] = n /\ phase'[i] = "enabled"
      BY <1>5, <2>1, <2>2, Zenon DEF Live
    <3>3. \A i \in 1 .. Len(polls'.items) : phase'[polls'.items[i]] = "enabled"
      BY <1>5, <2>1, <2>2 DEF Live
    <3> QED
      BY <3>1, <3>2, <3>3 DEF Live
  <2>4. Stores' /\ Halves'
    BY <1>3, <2>1, Zenon DEF Stored, Stores, Halves
  <2> QED
    BY <1>1, <1>4, <2>1, <2>3, <2>4, Zenon DEF Stored
<1> QED
  BY <1>6, <1>7, <1>8

LEMMA RequestStored ==
  ASSUME IInv, Nest, Stored, NEW h \in Handlers, Request(h)
  PROVE  Stored'
<1>1. UNCHANGED <<frames, storage, phase, vector, armed>> /\ phase[h] = "enabled"
  BY DEF Request, handlerVars
<1>2. (polls' = polls \/ polls' = Push(polls, h)) /\ (fault' = fault \/ fault' = "spin")
  BY Zenon DEF Request
<1>3. polls \in Queues /\ Live
  BY DEF Nest, Tables, Stored
<1>4. polls.items \in Seq(Handlers)
  BY <1>3 DEF Queues
<1>5. Push(polls, h).items = IF h = polls.dummy THEN <<>> ELSE Append(polls.items, h)
  BY <1>3 DEF Queues, Push
<1>6. \A i \in 1 .. Len(polls'.items) : phase[polls'.items[i]] = "enabled"
  <2>1. CASE polls' = polls
    BY <1>3, <2>1, Zenon DEF Live
  <2>2. CASE polls' = Push(polls, h) /\ h = polls.dummy
    <3>1. polls'.items = <<>>
      BY <1>5, <2>2
    <3> QED
      BY <3>1
  <2>3. CASE polls' = Push(polls, h) /\ h # polls.dummy
    <3>1. polls'.items = Append(polls.items, h)
      BY <1>5, <2>3, Zenon
    <3>2. \A i \in 1 .. Len(polls'.items) :
            polls'.items[i] = h \/ (i \in 1 .. Len(polls.items) /\ polls'.items[i] = polls.items[i])
      BY <1>4, <3>1
    <3> QED
      BY <1>1, <1>3, <3>2, Zenon DEF Live
  <2> QED
    BY <1>2, <2>1, <2>2, <2>3, Zenon
<1>7. Live'
  BY <1>1, <1>3, <1>6, Zenon DEF Live
<1> QED
  BY <1>1, <1>2, <1>7, StoredStays, Zenon DEF Stored

LEMMA AttachStored ==
  ASSUME OneHandler, IInv, Nest, Stored, NEW h \in Handlers, Attach(h)
  PROVE  Stored'
<1>1. /\ Me.kind = "thread" /\ phase[h] = "builder" /\ phase' = [phase EXCEPT ![h] = "attached"]
      /\ vector' = [vector EXCEPT ![Number[h]] = h] /\ UNCHANGED <<armed, polls, storage, fault>> /\ Me.pc = "run"
  BY DEF Attach, Body, At
<1>2. PICK f, g : /\ Pushes(f, g) /\ Kept(f) /\ f.pc = "uncount" /\ g.kind = "attach" /\ g.pc = "switch"
  BY AttachPushes
<1>3. Len(frames) = 1 /\ Len(frames') = 2 /\ frames'[1] = f /\ frames'[2] = g
  <2>1. Len(frames) = 1
    BY <1>1, Depths, Zenon
  <2>2. /\ Len(frames') = Len(frames) + 1
        /\ frames'[Len(frames)] = f /\ frames'[Len(frames) + 1] = g
    BY <1>2, Zenon DEF Pushes
  <2> QED
    BY <2>1, <2>2
<1>4. \A c \in Handlers : \A i \in DOMAIN storage[c] : ~Halfway(storage[c][i])
  BY <1>1, <1>3, NoneHalfway, Zenon
<1>5. \A k \in 1 .. Len(frames') : Ready(frames'[k], phase') /\ Attaching(frames[k])'
  <2>1. \A k \in 1 .. Len(frames') : k = 1 \/ k = 2
    BY <1>3
  <2>2. Ready(f, phase') /\ Ready(g, phase')
    BY <1>1, <1>2, Zenon DEF Ready, Kept
  <2>3. Attaching(frames[1])' /\ Attaching(frames[2])'
    BY <1>2, <1>3 DEF Attaching
  <2> QED
    BY <2>1, <2>2, <2>3, <1>3
<1>6. Stores' /\ Halves'
  BY <1>1, <1>4, Zenon DEF Stored, Stores, Halves
<1>7. Live'
  <2>1. /\ vector \in [Numbers -> Handlers \cup {Null}] /\ Live /\ polls.items \in Seq(Handlers)
        /\ phase \in [Handlers -> {"static", "builder", "attached", "enabled"}]
    BY DEF Nest, Tables, Queues, Stored
  <2>2. \A i \in Handlers : Number[i] \in Numbers
    BY DEF Numbers
  <2>3. \A i \in Handlers : /\ phase'[i] = IF i = h THEN "attached" ELSE phase[i]
                            /\ vector'[Number[i]] = IF Number[i] = Number[h] THEN h ELSE vector[Number[i]]
    BY <1>1, <2>1, <2>2
  <2>4. \A i \in Handlers : phase'[i] \in {"attached", "enabled"} => vector'[Number[i]] = i
    <3> SUFFICES ASSUME NEW i \in Handlers, phase'[i] \in {"attached", "enabled"}
                 PROVE  vector'[Number[i]] = i
      OBVIOUS
    <3>1. CASE i = h
      BY <2>3, <3>1
    <3>2. CASE i # h
      <4>1. Number[i] # Number[h]
        BY <3>2, Zenon DEF OneHandler
      <4>2. vector[Number[i]] = i
        BY <2>1, <2>3, <3>2, Zenon DEF Live
      <4> QED
        BY <2>3, <4>1, <4>2
    <3> QED
      BY <3>1, <3>2
  <2>5. \A n \in armed' : \E i \in Handlers : Number[i] = n /\ phase'[i] = "enabled"
    BY <1>1, <2>1, <2>3, Zenon DEF Live
  <2>6. \A i \in 1 .. Len(polls'.items) : phase'[polls'.items[i]] = "enabled"
    BY <1>1, <2>1, <2>3 DEF Live
  <2> QED
    BY <2>4, <2>5, <2>6, Zenon DEF Live
<1> QED
  BY <1>1, <1>5, <1>6, <1>7, Zenon DEF Stored

\* The innermost context goes on in interrupt_context.
LEMMA PlaceStored ==
  ASSUME IInv, Stored, NEW at, Goto(at), Me.pc \notin {"put", "vector"}, at # "put",
         UNCHANGED <<storage, phase, vector, armed, polls>>, fault' # "null"
  PROVE  Stored'
<1>1. PICK g : Moved(g) /\ Kept(g) /\ g.pc = at
  BY GotoMoves
<1>2. Ready(Me, phase)
  BY Depths, Zenon DEF Stored
<1>3. Ready(g, phase) /\ g.kind = Me.kind
  BY <1>1, <1>2 DEF Ready, Kept
<1> QED
  BY <1>1, <1>3, StoredTop, Zenon

\* An interrupt or a pending poll gets a context.
LEMMA PushStored ==
  ASSUME IInv, Stored, NEW g, Pushes(Me, g), Ready(g, phase), g.kind # "attach",
         UNCHANGED <<storage, phase>>, Live', fault' # "null"
  PROVE  Stored'
<1>1. \A k \in 1 .. Len(frames) : frames'[k] = frames[k]
  BY Depths DEF Pushes
<1>2. frames'[1] = frames[1]
  BY <1>1, Depths
<1>3. Stores' /\ Halves'
  BY <1>2, Zenon DEF Stored, Stores, Halves
<1>4. \A k \in 1 .. Len(frames') : k \in 1 .. Len(frames) \/ frames'[k] = g
  BY Depths DEF Pushes
<1>5. ASSUME NEW k \in 1 .. Len(frames') PROVE Ready(frames'[k], phase') /\ Attaching(frames[k])'
  <2>1. CASE k \in 1 .. Len(frames)
    BY <1>1, <1>2, <2>1, Zenon DEF Stored, Attaching
  <2>2. CASE frames'[k] = g
    BY <2>2, Zenon DEF Attaching
  <2> QED
    BY <1>4, <2>1, <2>2, Zenon
<1> QED
  BY <1>3, <1>5, Zenon DEF Stored

LEMMA InterruptStored ==
  ASSUME IInv, Stored, NEW n, Interrupt(n)
  PROVE  Stored'
<1>1. PICK g : Pushes(Me, g) /\ g.kind = "isr" /\ g.pc = "vector"
  BY InterruptPushes
<1>2. UNCHANGED <<storage, phase, vector, armed, polls, fault>>
  BY DEF Interrupt, handlerVars
<1>3. Ready(g, phase)
  BY <1>1 DEF Ready
<1> QED
  BY <1>1, <1>2, <1>3, LiveStays, PushStored, Zenon DEF Stored

\* The handler that the vector gives is the one that is enabled.
LEMMA VectorStored ==
  ASSUME IInv, Nest, Stored, Vector
  PROVE  Stored'
<1>1. PICK g : /\ Moved(g) /\ g.kind = Me.kind /\ g.icb = vector[Me.num] /\ g.pc = "switch"
               /\ Me.kind = "isr"
  BY VectorMoves, Zenon
<1>2. UNCHANGED <<storage, phase, vector, armed, polls, fault>> /\ Me.pc = "vector"
  BY DEF Vector, handlerVars, At
<1>3. Me.num \in armed
  BY <1>1, MeBound, Zenon DEF Bound
<1>4. phase[vector[Me.num]] = "enabled"
  BY <1>3 DEF Stored, Live
<1>5. Ready(g, phase)
  BY <1>1, <1>4, Zenon DEF Ready
<1> QED
  BY <1>1, <1>2, <1>5, StoredTop, Zenon DEF Stored

LEMMA SwitchStored ==
  ASSUME IInv, Stored, Switch
  PROVE  Stored'
<1>1. PICK g : Moved(g) /\ g.kind = Me.kind /\ g.icb = Me.icb /\ g.pc \in {"run", "poll"}
  BY SwitchMoves, Zenon
<1>2. UNCHANGED <<storage, phase, vector, armed, polls, fault>> /\ Me.pc = "switch"
  BY DEF Switch, handlerVars, At
<1>3. Ready(Me, phase)
  BY Depths DEF Stored
<1>4. Ready(g, phase)
  BY <1>1, <1>2, <1>3, Zenon DEF Ready
<1> QED
  BY <1>1, <1>2, <1>4, StoredTop, Zenon DEF Stored

LEMMA CompleteStored ==
  ASSUME IInv, Stored, Complete
  PROVE  Stored'
<1>1. UNCHANGED <<storage, phase, vector, armed, polls, fault>>
  BY DEF Complete, handlerVars
<1>2. /\ Len(frames) > 1 /\ Len(frames') = Len(frames) - 1 /\ Len(frames) \in Nat
      /\ \A k \in 1 .. Len(frames) - 1 : frames'[k] = frames[k]
  BY CompletePops, Depths, Zenon
<1>3. frames'[1] = frames[1] /\ \A k \in 1 .. Len(frames') : k \in 1 .. Len(frames) /\ frames'[k] = frames[k]
  BY <1>2
<1>4. Stores' /\ Halves' /\ Live'
  BY <1>1, <1>3, LiveStays DEF Stored, Stores, Halves
<1>5. \A k \in 1 .. Len(frames') : Ready(frames'[k], phase') /\ Attaching(frames[k])'
  BY <1>1, <1>3, Zenon DEF Stored, Attaching
<1> QED
  BY <1>1, <1>4, <1>5, Zenon DEF Stored

LEMMA DrainStored ==
  ASSUME IInv, Nest, Stored, Drain
  PROVE  Stored'
<1>1. UNCHANGED <<storage, phase, vector, armed>> /\ Me.pc = "drain"
  BY Zenon DEF Drain, handlerVars, At
<1>2. fault' # "null"
  BY Zenon DEF Drain, Stored
<1>3. CASE UNCHANGED <<frames, polls>>
  BY <1>1, <1>2, <1>3, LiveStays, StoredStays
<1>4. CASE UNCHANGED polls /\ Goto("again")
  BY <1>1, <1>2, <1>4, PlaceStored
<1>5. CASE /\ polls.items # <<>> /\ polls' = Pop(polls)
           /\ \E g : /\ Pushes(Me, g) /\ g.kind = "poll" /\ g.icb = Head(polls.items) /\ g.pc = "switch"
  <2>1. polls \in Queues /\ Live
    BY DEF Nest, Tables, Stored
  <2>2. polls.items \in Seq(Handlers) /\ Pop(polls).items = Tail(polls.items)
    BY <2>1 DEF Queues, Pop
  <2>3. \A i \in 1 .. Len(polls'.items) : i + 1 \in 1 .. Len(polls.items) /\ polls'.items[i] = polls.items[i + 1]
    BY <1>5, <2>2
  <2>4. Live'
    BY <1>1, <2>1, <2>3 DEF Live
  <2>5. 1 \in 1 .. Len(polls.items) /\ Head(polls.items) = polls.items[1]
    BY <1>5, <2>2
  <2>6. phase[Head(polls.items)] = "enabled"
    BY <2>1, <2>5 DEF Live
  <2>7. PICK g : Pushes(Me, g) /\ g.kind = "poll" /\ g.icb = Head(polls.items) /\ g.pc = "switch"
    BY <1>5
  <2>8. Ready(g, phase)
    BY <2>6, <2>7 DEF Ready
  <2> QED
    BY <1>1, <1>2, <2>4, <2>7, <2>8, PushStored
<1> QED
  BY <1>3, <1>4, <1>5, DrainPushes, Zenon

\* The executor that is looked up is that of the handler of the context, and no write of it
\* is halfway.
LEMMA PollStored ==
  ASSUME IInv, Nest, Stored, Poll
  PROVE  Stored'
<1>1. UNCHANGED <<storage, phase, vector, armed, polls>> /\ Me.pc = "poll" /\ Me.pc \in Context
  BY DEF Poll, handlerVars, At, Context
<1>2. Me.kind \in {"isr", "attach", "poll"}
  BY <1>1, InContext, Running
<1>3. Me.icb \in Handlers /\ current = Me.icb /\ Null \notin Handlers
  BY <1>1, <1>2, MeBound, HandlersAssumption DEF Act
<1> DEFINE c == Me.icb
<1>4. (IF Me.kind = "isr" THEN Me.icb ELSE Mine) = c
  BY <1>3 DEF Mine
<1>5. ASSUME NEW i \in DOMAIN storage[c], Halfway(storage[c][i]) PROVE FALSE
  <2>1. frames[1].pc = "put" /\ phase[c] \in {"builder", "attached"}
    BY <1>3, <1>5, Zenon DEF Stored, Halves
  <2>2. Ready(Me, phase) /\ Attaching(Me)
    BY Depths DEF Stored
  <2> QED
    BY <1>1, <1>2, <2>1, <2>2 DEF Ready, Attaching
<1>6. Null \notin Found(c, Executor)
  <2> SUFFICES ASSUME Null \in Found(c, Executor) PROVE FALSE
    OBVIOUS
  <2> DEFINE S == Entries(c, Executor)
             i == FirstOf(S)
  <2>1. S # {} /\ storage[c][i].value = Null
    BY DEF Found
  <2>2. storage[c] \in Seq(EntrySet)
    BY <1>3 DEF Stored, Stores
  <2>3. S \in SUBSET Nat
    BY <2>2 DEF Entries
  <2>4. i \in S
    <3> HIDE DEF S
    <3> QED
      BY <2>1, <2>3, FirstIn
  <2>5. i \in DOMAIN storage[c] /\ storage[c][i].key = Executor
    BY <2>4, Zenon DEF Entries
  <2> HIDE DEF i
  <2> QED
    BY <1>5, <2>1, <2>5, Zenon DEF Halfway
<1>7. (Goto("drain") \/ Goto("leave")) /\ fault' = fault
  BY <1>4, <1>6 DEF Poll
<1> QED
  BY <1>1, <1>7, PlaceStored, Zenon DEF Stored

LEMMA DispatchStored ==
  ASSUME IInv, Nest, Stored, Dispatch
  PROVE  Stored'
<1>1. CASE EndClosure \/ Again \/ LeaveContext
  <2>1. UNCHANGED <<storage, phase, vector, armed, polls, fault>> /\ Me.pc \in {"run", "again", "leave"}
    BY <1>1 DEF EndClosure, Again, LeaveContext, Body, At, handlerVars
  <2>2. PICK at \in {"poll", "leave", "drain", "complete"} : Goto(at)
    BY <1>1 DEF EndClosure, Again, LeaveContext
  <2> QED
    BY <2>1, <2>2, PlaceStored DEF Stored
<1> QED
  BY <1>1, VectorStored, SwitchStored, PollStored, DrainStored, CompleteStored DEF Dispatch

LEMMA InitStored ==
  ASSUME Init
  PROVE  Stored
<1> DEFINE f == Frame("thread", Null, "run")
<1>1. f.kind = "thread" /\ f.pc = "run"
  BY DEF Frame
<1>2. frames = <<f>>
  BY DEF Init
<1> HIDE DEF f
<1>3. \A k \in 1 .. Len(frames) : frames[k] = f
  BY <1>2
<1>4. \A k \in 1 .. Len(frames) : Ready(frames[k], phase) /\ Attaching(frames[k])
  BY <1>1, <1>3 DEF Ready, Attaching
<1>5. /\ storage = [c \in Handlers \cup {Thread} |-> IF c = Thread THEN EmptyStorage ELSE NoStorage]
      /\ phase = [h \in Handlers |-> "static"] /\ armed = {} /\ polls.items = <<>> /\ fault = "none"
  BY DEF Init, EmptyQueue
<1>6. EmptyStorage \in Seq(EntrySet) /\ \A i \in DOMAIN EmptyStorage : ~Halfway(EmptyStorage[i])
  BY EmptyStored
<1>7. NoStorage \in Seq(EntrySet) /\ \A i \in DOMAIN NoStorage : FALSE
  BY DEF NoStorage
<1>8. Stores
  BY <1>5, <1>6, <1>7 DEF Stores
<1>9. \A c \in Handlers : storage[c] = EmptyStorage \/ storage[c] = NoStorage
  BY <1>5
<1>10. Halves
  BY <1>6, <1>7, <1>9, Zenon DEF Halves
<1>11. Live
  BY <1>5 DEF Live
<1> QED
  BY <1>4, <1>5, <1>8, <1>10, <1>11, Zenon DEF Stored

LEMMA NextStored ==
  ASSUME OneHandler, IInv, flag \in Int, Nest, Stored, [Next]_vars
  PROVE  Stored'
<1>1. CASE LockStep \/ CellStep
  BY <1>1, LockWorks, CellWorks, WorksStored
<1>2. CASE StorageStep \/ \E h \in Handlers : StartExecutor(h)
  BY <1>2, StorageStored
<1>3. CASE HandlerStep
  BY <1>2, <1>3, SetUpStored, RequestStored, AttachStored DEF HandlerStep
<1>4. CASE Dispatch
  BY <1>4, DispatchStored
<1>5. CASE \E n \in Numbers : Interrupt(n)
  BY <1>5, InterruptStored
<1>6. CASE UNCHANGED vars
  <2>1. UNCHANGED <<frames, storage, vector, phase, armed, polls, fault>>
    BY <1>6 DEF vars, handlerVars
  <2> QED
    BY <2>1, StoredStays, LiveStays DEF Stored
<1> QED
  BY <1>1, <1>2, <1>3, <1>4, <1>5, <1>6 DEF Next

LEMMA InitBorrowed ==
  ASSUME Init
  PROVE  Borrowed(frames, flag)
<1> DEFINE f == Frame("thread", Null, "run")
<1>1. f.guards = <<>>
  BY DEF Frame
<1>2. frames = <<f>> /\ flag = 0
  BY DEF Init
<1> HIDE DEF f
<1>3. 1 \in 1 .. Len(frames) /\ frames[1].guards = <<>> /\ \A k \in 1 .. Len(frames) : k = 1
  BY <1>1, <1>2
<1>4. Matches(<<>>, flag)
  BY <1>2 DEF Matches
<1> QED
  BY <1>3, <1>4, Zenon DEF Borrowed

\* The inductive invariant of the contexts and of the borrow flag
Nested == IInv /\ Borrowed(frames, flag) /\ Nest

LEMMA NestedInductive ==
  /\ Init => Nested
  /\ Nested /\ [Next]_vars => Nested'
<1>1. Init => Nested
  BY InitInv, InitBorrowed, InitNest DEF Nested
<1>2. Nested /\ [Next]_vars => Nested'
  <2>1. ASSUME Nested, [Next]_vars PROVE IInv' /\ Nest' /\ Borrowed(frames', flag')
    BY <2>1, NextInv, NextBorrowed, NextNest, FlagTyped DEF Nested
  <2> QED
    BY <2>1 DEF Nested, Borrowed
<1> QED
  BY <1>1, <1>2

-----------------------------------------------------------------------------
(* Theorems                                                                *)

\* Interrupt contexts nest, however many handlers there are and wherever an interrupt comes:
\* the current handler is that of the innermost context that has switched and not restored,
\* and only the outermost one polls pending executors (interrupt.rs, interrupt_context).
THEOREM ContextsAreNested == Spec => []ContextsNest
<1>1. Nested => ContextsNest
  BY NestIs DEF Nested
<1> QED
  BY <1>1, NestedInductive, PTL DEF Spec

\* The borrow flag of a locked ref cell tells which guards exist in all contexts, for any
\* nesting of handlers and any number of guards (refcell.rs, BorrowRef).
THEOREM FlagTellsGuards == Spec => []BorrowsExact
<1>1. Nested => BorrowsExact
  BY BorrowedIs DEF Nested
<1> QED
  BY <1>1, NestedInductive, PTL DEF Spec

\* When each interrupt number has one handler, an executor that a handler finds in its local
\* storage is initialized: no interrupt, attach or pending poll looks between the two writes
\* of put_by_type_id (tls.rs; interrupt.rs, start_executor, attach and enable).
THEOREM ExecutorsAreInitialised == OneHandler /\ Spec => []ReadsInitialised
<1> SUFFICES ASSUME OneHandler PROVE Spec => []ReadsInitialised
  OBVIOUS
<1> DEFINE I == Nested /\ Stored
<1>1. Init => I
  BY NestedInductive, InitStored
<1>2. I /\ [Next]_vars => I'
  <2>1. ASSUME I, [Next]_vars PROVE Stored'
    BY <2>1, NextStored, FlagTyped DEF Nested
  <2> QED
    BY <2>1, NestedInductive
<1>3. I => ReadsInitialised
  BY DEF Stored, ReadsInitialised
<1> HIDE DEF I
<1> QED
  BY <1>1, <1>2, <1>3, PTL DEF Spec

=============================================================================
