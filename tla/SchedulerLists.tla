--------------------------- MODULE SchedulerLists ---------------------------
(***************************************************************************)
(* The operations of the scheduler on its lists keep the lists in order    *)
(* and in agreement with the states of the threads; so does every step,    *)
(* given what holds of the contexts of threads and interrupts: where each  *)
(* can be, with which service in progress.  The critical sections, and the *)
(* calls of threads and of handlers, keep that too.                        *)
(***************************************************************************)
EXTENDS Scheduler, KernelListProofs

\* More time for the provers than they have by default
USE SMTT(30), ZenonT(30)

\* What ListsMatchStates says of a running system
Agree ==
  /\ Distinct(ready) /\ Distinct(blocked) /\ Distinct(suspended) /\ Distinct(sleep)
  /\ \A t \in Threads : /\ t \in Items(ready) <=> tstate[t] = "ready"
                        /\ t \in Items(blocked) <=> tstate[t] = "blocked"
                        /\ t \in Items(suspended) <=> tstate[t] = "suspended"
                        /\ t \in Items(sleep) => tstate[t] = "blocked"
  /\ \A t \in AllThreads : tstate[t] = "running" <=> t = current

PriorityRank == [t \in Threads |-> Priority(t)]
LockRank == [t \in Threads |-> LockPriority(t)]

\* What ListsSorted says of a running system
Sorted == Descending(ready, PriorityRank) /\ Descending(blocked, LockRank)

\* The types of the variables the list operations work on
ListTypes ==
  /\ tstate \in [AllThreads -> {"created", "started", "ready", "running", "blocked", "suspended"}]
  /\ ready \in Seq(Threads) /\ blocked \in Seq(Threads) /\ suspended \in Seq(Threads)
  /\ sleep \in Seq(Threads \cup Devices)
  /\ current \in AllThreads
  /\ section \in [AllThreads -> Nat \cup {INVALID}]
  /\ scoped \in [AllThreads -> Seq(Locks)]

\* The types of the list variables are part of type correctness.
LEMMA ListTypesOf == TypeOK => ListTypes
BY DEF TypeOK, ListTypes

\* ListsMatchStates says that the lists agree until a fault.
LEMMA AgreeOf == ListsMatchStates <=> (Running => Agree)
BY DEF ListsMatchStates, Agree

\* ListsSorted, stated with the ranks the list lemmas speak of.
LEMMA SortedOf ==
  ASSUME ready \in Seq(Threads), blocked \in Seq(Threads)
  PROVE  ListsSorted <=> (Running => Sorted)
<1>1. \A i \in 1 .. Len(ready) : PriorityRank[ready[i]] = Priority(ready[i])
  BY DEF PriorityRank
<1>2. \A i \in 1 .. Len(blocked) : LockRank[blocked[i]] = LockPriority(blocked[i])
  BY DEF LockRank
<1> QED BY <1>1, <1>2, Zenon DEF ListsSorted, Sorted, Descending

\* Lock priorities are naturals or Invalid, priorities are naturals.
LEMMA PriorityTypes ==
  ASSUME ListTypes, NEW t \in AllThreads
  PROVE  /\ LockPriority(t) \in Nat \cup {INVALID}
         /\ Priority(t) \in Nat
<1>1. section[t] \in Nat \cup {INVALID} /\ scoped[t] \in Seq(Locks) /\ BasePriority[t] \in Nat
  BY ConstantsAssumption DEF ListTypes
<1>2. scoped[t] # <<>> => Ceiling[Head(scoped[t])] \in Nat
  <2>1. scoped[t] # <<>> => Head(scoped[t]) \in Locks
    BY <1>1
  <2> QED BY <2>1, ConstantsAssumption
<1>3. LockPriority(t) \in Nat \cup {INVALID}
  BY <1>1, <1>2 DEF LockPriority, LockPriorityOf, Higher, INVALID
<1> QED BY <1>1, <1>3 DEF Priority, Higher, INVALID

\* The ranks the two lists are ordered by are integers.
LEMMA RankTypes ==
  ASSUME ListTypes
  PROVE  PriorityRank \in [Threads -> Int] /\ LockRank \in [Threads -> Int]
<1>1. \A t \in Threads : Priority(t) \in Int /\ LockPriority(t) \in Int
  BY PriorityTypes DEF AllThreads, INVALID
<1> QED BY <1>1 DEF PriorityRank, LockRank

\* insert_to_ready_queue keeps the ready queue sorted.
LEMMA ReadyInsert ==
  ASSUME ListTypes, NEW t \in Threads, NEW r \in Seq(Threads), Descending(r, PriorityRank)
  PROVE  /\ ReadyWith(r, t) \in Seq(Threads)
         /\ Items(ReadyWith(r, t)) = Items(r) \cup {t}
         /\ Distinct(r) /\ t \notin Items(r) => Distinct(ReadyWith(r, t))
         /\ Descending(ReadyWith(r, t), PriorityRank)
<1>1. ReadyWith(r, t) = InsertAfter(r, t, ReadyAhead(t))
  BY ConstantsAssumption DEF ReadyWith
<1>2. \A u \in Threads : PriorityRank[u] = Priority(u) /\ Priority(u) \in Int
  BY PriorityTypes DEF PriorityRank, AllThreads
<1>3. \A u \in Threads : u \in ReadyAhead(t) => PriorityRank[u] >= PriorityRank[t]
  BY <1>2 DEF ReadyAhead
<1>4. \A u \in Threads : u \notin ReadyAhead(t) => PriorityRank[u] <= PriorityRank[t]
  BY <1>2 DEF ReadyAhead
<1>5. PriorityRank \in [Threads -> Int]
  BY RankTypes
<1>6. Descending(InsertAfter(r, t, ReadyAhead(t)), PriorityRank)
  BY <1>3, <1>4, <1>5, InsertAfterDescending
<1> QED BY <1>1, <1>6, InsertAfterItems

\* insert_to_blocked_queue keeps the blocked list sorted.
LEMMA BlockedInsert ==
  ASSUME ListTypes, NEW t \in Threads, Descending(blocked, LockRank)
  PROVE  Descending(InsertAfter(blocked, t, BlockedAhead(t)), LockRank)
<1>1. \A u \in Threads : LockRank[u] = LockPriority(u) /\ LockPriority(u) \in Nat \cup {INVALID}
  BY PriorityTypes DEF LockRank, AllThreads
<1>2. \A u \in Threads : u \in BlockedAhead(t) => LockRank[u] >= LockRank[t]
  BY <1>1 DEF BlockedAhead, INVALID
<1>3. \A u \in Threads : u \notin BlockedAhead(t) => LockRank[u] <= LockRank[t]
  BY <1>1 DEF BlockedAhead, INVALID
<1>4. LockRank \in [Threads -> Int]
  BY RankTypes
<1>5. blocked \in Seq(Threads)
  BY DEF ListTypes
<1> QED BY <1>2, <1>3, <1>4, <1>5, InsertAfterDescending

\* The order of the lists depends on the locks of their threads alone.
LEMMA RankKept ==
  ASSUME UNCHANGED <<section, scoped>>
  PROVE  PriorityRank' = PriorityRank /\ LockRank' = LockRank
BY DEF PriorityRank, LockRank, Priority, LockPriority, LockPriorityOf

\* resume_thread keeps the lists in agreement with the states, and in order.
LEMMA ResumeLists ==
  ASSUME ListTypes, Agree, Sorted, NEW t \in Threads, ResumeThread(t),
         UNCHANGED <<section, scoped>>
  PROVE  ListTypes' /\ Agree' /\ Sorted'
<1>0. PriorityRank' = PriorityRank /\ LockRank' = LockRank
  BY RankKept
<1>1. CASE tstate[t] \notin {"blocked", "suspended", "started"}
  <2>1. UNCHANGED <<tstate, ready, blocked, suspended, sleep, current>>
    BY <1>1 DEF ResumeThread
  <2> QED BY <1>0, <2>1 DEF ListTypes, Agree, Sorted
<1>2. CASE tstate[t] \in {"blocked", "suspended", "started"}
  <2>1. /\ tstate' = [tstate EXCEPT ![t] = "ready"]
        /\ ready' = ReadyWith(ready, t)
        /\ blocked' = IF tstate[t] = "blocked" THEN Unlink(blocked, t) ELSE blocked
        /\ suspended' = IF tstate[t] = "suspended" THEN Unlink(suspended, t) ELSE suspended
        /\ sleep' = IF tstate[t] = "blocked" /\ t \in Items(sleep)
                    THEN Unlink(sleep, t) ELSE sleep
        /\ current' = current
    BY <1>2 DEF ResumeThread
  <2>2. t \notin Items(ready) /\ t # current
    BY <1>2 DEF Agree, AllThreads
  <2>3. /\ ready' \in Seq(Threads) /\ Items(ready') = Items(ready) \cup {t}
        /\ Distinct(ready') /\ Descending(ready', PriorityRank)
    BY <2>1, <2>2, ReadyInsert DEF ListTypes, Agree, Sorted
  <2>4. /\ blocked' \in Seq(Threads) /\ Items(blocked') = Items(blocked) \ {t}
        /\ Distinct(blocked') /\ Descending(blocked', LockRank)
    <3>1. tstate[t] = "blocked" <=> t \in Items(blocked)
      BY DEF Agree
    <3> QED BY <2>1, <3>1, UnlinkItems, UnlinkDescending DEF ListTypes, Agree, Sorted
  <2>5. /\ suspended' \in Seq(Threads) /\ Items(suspended') = Items(suspended) \ {t}
        /\ Distinct(suspended')
    <3>1. tstate[t] = "suspended" <=> t \in Items(suspended)
      BY DEF Agree
    <3> QED BY <2>1, <3>1, UnlinkItems DEF ListTypes, Agree
  <2>6. /\ sleep' \in Seq(Threads \cup Devices) /\ Items(sleep') = Items(sleep) \ {t}
        /\ Distinct(sleep')
    <3>1. t \in Items(sleep) => tstate[t] = "blocked"
      BY DEF Agree
    <3> QED BY <2>1, <3>1, UnlinkItems DEF ListTypes, Agree
  <2>7. ListTypes'
    BY <2>1, <2>3, <2>4, <2>5, <2>6 DEF ListTypes, AllThreads
  <2>8. Agree'
    <3>1. ASSUME NEW u \in Threads
          PROVE  /\ u \in Items(ready') <=> tstate'[u] = "ready"
                 /\ u \in Items(blocked') <=> tstate'[u] = "blocked"
                 /\ u \in Items(suspended') <=> tstate'[u] = "suspended"
                 /\ u \in Items(sleep') => tstate'[u] = "blocked"
      BY <2>1, <2>3, <2>4, <2>5, <2>6 DEF Agree, ListTypes, AllThreads
    <3>2. \A u \in AllThreads : tstate'[u] = "running" <=> u = current'
      BY <1>2, <2>1, <2>2 DEF Agree, ListTypes, AllThreads
    <3> QED BY <2>3, <2>4, <2>5, <2>6, <3>1, <3>2 DEF Agree
  <2> QED BY <1>0, <2>3, <2>4, <2>7, <2>8 DEF Sorted
<1> QED BY <1>1, <1>2

\* schedule_interrupt_wakeup moves an interrupt inside the sleep queue only.
LEMMA SleepLists ==
  ASSUME ListTypes, Agree, Sorted, NEW i \in Devices, ScheduleWakeup(i),
         UNCHANGED <<tstate, ready, blocked, suspended, current, section, scoped>>
  PROVE  ListTypes' /\ Agree' /\ Sorted'
<1> DEFINE S == Threads \cup Devices
           out == IF i \in Items(sleep) THEN Unlink(sleep, i) ELSE sleep
<1>1. out \in Seq(S) /\ Items(out) = Items(sleep) \ {i} /\ Distinct(out)
  BY UnlinkItems DEF ListTypes, Agree
<1>2. sleep' = InsertAfter(out, i, {y \in S : deadline[y] <= deadline[i]})
  BY DEF ScheduleWakeup, SleepWith
<1> HIDE DEF out
<1>3. sleep' \in Seq(S) /\ Items(sleep') = Items(sleep) \cup {i} /\ Distinct(sleep')
  BY <1>1, <1>2, InsertAfterItems
<1>4. \A t \in Threads : t # i
  BY ConstantsAssumption
<1>5. Agree'
  BY <1>3, <1>4 DEF Agree
<1> QED BY <1>3, <1>5, RankKept DEF ListTypes, Sorted

\* switch_thread away from the current thread, which goes to state st
LEMMA SwitchLists ==
  ASSUME ListTypes, Agree, Sorted, current # Idle,
         NEW st \in {"blocked", "suspended"}, SwitchAway(st)
  PROVE  /\ tstate' \in [AllThreads -> {"created", "started", "ready", "running", "blocked",
                                        "suspended"}]
         /\ ready' \in Seq(Threads) /\ Distinct(ready') /\ Descending(ready', PriorityRank)
         /\ current' \in AllThreads
         /\ \A u \in AllThreads : tstate'[u] = "running" <=> u = current'
         /\ \A u \in Threads :
              /\ u \in Items(ready') <=> tstate'[u] = "ready"
              /\ tstate'[u] = "blocked" <=> tstate[u] = "blocked" \/ (u = current /\ st = "blocked")
              /\ tstate'[u] = "suspended" <=>
                   tstate[u] = "suspended" \/ (u = current /\ st = "suspended")
<1> DEFINE next == NextAboveCeiling
<1>1. /\ tstate' = [tstate EXCEPT ![current] = st, ![next] = "running"]
      /\ ready' = IF next = Idle THEN ready ELSE Tail(ready)
      /\ current' = next
  BY DEF SwitchAway
<1>2. next = Idle \/ (ready # <<>> /\ next = Head(ready))
  BY DEF NextAboveCeiling, HeadSatisfies
<1> HIDE DEF next
<1>3. CASE next = Idle
  <2>1. next \in AllThreads /\ next # current /\ next \notin Threads
    BY <1>3, ConstantsAssumption DEF AllThreads
  <2>2. ready' = ready /\ current \notin Items(ready)
    BY <1>1, <1>3 DEF Agree, ListTypes, AllThreads
  <2>3. tstate[next] # "running" /\ tstate[current] = "running"
    BY <2>1 DEF Agree, ListTypes
  <2>4. \A u \in AllThreads : tstate'[u] = IF u = next THEN "running"
                                          ELSE IF u = current THEN st ELSE tstate[u]
    BY <1>1, <2>1 DEF ListTypes
  <2>5. \A u \in AllThreads : tstate'[u] = "running" <=> u = current'
    BY <1>1, <2>1, <2>4, ZenonT(30) DEF Agree
  <2>6. \A u \in Threads :
              /\ u \in Items(ready') <=> tstate'[u] = "ready"
              /\ tstate'[u] = "blocked" <=> tstate[u] = "blocked" \/ (u = current /\ st = "blocked")
              /\ tstate'[u] = "suspended" <=>
                   tstate[u] = "suspended" \/ (u = current /\ st = "suspended")
    BY <2>1, <2>2, <2>3, <2>4 DEF Agree, AllThreads
  <2> QED BY <1>1, <2>1, <2>2, <2>5, <2>6, ZenonT(30) DEF ListTypes, Agree, Sorted
<1>4. CASE next # Idle
  <2>1. ready # <<>> /\ next = Head(ready)
    BY <1>2, <1>4
  <2>2. /\ ready' \in Seq(Threads) /\ next \in Items(ready) /\ next \in Threads
        /\ Items(ready') = Items(ready) \ {next} /\ Distinct(ready')
        /\ Descending(ready', PriorityRank)
    BY <1>1, <1>4, <2>1, TailItems, TailDescending DEF ListTypes, Agree, Sorted
  <2>3. tstate[next] = "ready" /\ tstate[current] = "running" /\ next # current
    BY <2>2 DEF Agree, ListTypes
  <2>4. \A u \in AllThreads : tstate'[u] = IF u = next THEN "running"
                                          ELSE IF u = current THEN st ELSE tstate[u]
    BY <1>1, <2>2, <2>3 DEF ListTypes, AllThreads
  <2>5. \A u \in AllThreads : tstate'[u] = "running" <=> u = current'
    BY <1>1, <2>3, <2>4, ZenonT(30) DEF Agree
  <2>6. \A u \in Threads :
              /\ u \in Items(ready') <=> tstate'[u] = "ready"
              /\ tstate'[u] = "blocked" <=> tstate[u] = "blocked" \/ (u = current /\ st = "blocked")
              /\ tstate'[u] = "suspended" <=>
                   tstate[u] = "suspended" \/ (u = current /\ st = "suspended")
    BY <2>2, <2>3, <2>4 DEF Agree, AllThreads
  <2> QED BY <1>1, <2>2, <2>5, <2>6, ZenonT(30) DEF ListTypes, AllThreads
<1> QED BY <1>3, <1>4

\* block_thread of the current thread keeps the lists in agreement and in order.
LEMMA BlockLists ==
  ASSUME ListTypes, Agree, Sorted, current # Idle, NEW d, BlockCurrent(d),
         UNCHANGED <<section, scoped>>
  PROVE  ListTypes' /\ Agree' /\ Sorted'
<1>1. current \in Threads
  BY DEF ListTypes, AllThreads
<1>2. SwitchAway("blocked") /\ suspended' = suspended
  BY DEF BlockCurrent
<1>3. current \notin Items(blocked) /\ current \notin Items(sleep)
  BY <1>1 DEF Agree, AllThreads
<1>4. /\ blocked' \in Seq(Threads) /\ Items(blocked') = Items(blocked) \cup {current}
      /\ Distinct(blocked') /\ Descending(blocked', LockRank)
  BY <1>1, <1>3, BlockedInsert, InsertAfterItems DEF BlockCurrent, ListTypes, Agree, Sorted
<1>5. /\ sleep' \in Seq(Threads \cup Devices) /\ Distinct(sleep')
      /\ Items(sleep') \subseteq Items(sleep) \cup {current}
  <2>1. CASE d = NoTime
    BY <2>1 DEF BlockCurrent, ListTypes, Agree
  <2>2. CASE d # NoTime
    <3> DEFINE P == {y \in Threads \cup Devices : deadline'[y] <= deadline'[current]}
    <3>1. sleep' = InsertAfter(sleep, current, P)
      BY <2>2 DEF BlockCurrent, SleepWith
    <3>2. sleep \in Seq(Threads \cup Devices) /\ Distinct(sleep) /\ current \in Threads \cup Devices
      BY <1>1 DEF ListTypes, Agree
    <3> HIDE DEF P
    <3> QED BY <1>3, <3>1, <3>2, InsertAfterItems
  <2> QED BY <2>1, <2>2
<1> DEFINE S == {"created", "started", "ready", "running", "blocked", "suspended"}
<1>6. /\ tstate' \in [AllThreads -> S]
      /\ ready' \in Seq(Threads) /\ Distinct(ready') /\ Descending(ready', PriorityRank)
      /\ current' \in AllThreads
      /\ \A u \in AllThreads : tstate'[u] = "running" <=> u = current'
      /\ \A u \in Threads :
              /\ u \in Items(ready') <=> tstate'[u] = "ready"
              /\ tstate'[u] = "blocked" <=> tstate[u] = "blocked" \/ u = current
              /\ tstate'[u] = "suspended" <=> tstate[u] = "suspended"
  BY <1>2, SwitchLists
<1>7. Agree'
  <2>1. \A u \in Threads : /\ u \in Items(blocked') <=> tstate'[u] = "blocked"
                           /\ u \in Items(suspended') <=> tstate'[u] = "suspended"
                           /\ u \in Items(sleep') => tstate'[u] = "blocked"
    BY <1>2, <1>4, <1>5, <1>6 DEF Agree
  <2> QED BY <1>2, <1>4, <1>5, <1>6, <2>1 DEF Agree
<1> QED BY <1>2, <1>4, <1>5, <1>6, <1>7, RankKept DEF ListTypes, Sorted

\* suspend_thread of the current thread likewise
LEMMA SuspendLists ==
  ASSUME ListTypes, Agree, Sorted, current # Idle, SuspendCurrent,
         UNCHANGED <<section, scoped>>
  PROVE  ListTypes' /\ Agree' /\ Sorted'
<1>1. current \in Threads
  BY DEF ListTypes, AllThreads
<1>2. SwitchAway("suspended") /\ blocked' = blocked /\ sleep' = sleep
  BY DEF SuspendCurrent
<1>3. current \notin Items(suspended) /\ current \notin Items(sleep)
  BY <1>1 DEF Agree, AllThreads
<1>4. /\ suspended' \in Seq(Threads) /\ Items(suspended') = Items(suspended) \cup {current}
      /\ Distinct(suspended')
  BY <1>1, <1>3, AppendItems DEF SuspendCurrent, ListTypes, Agree
<1> DEFINE S == {"created", "started", "ready", "running", "blocked", "suspended"}
<1>6. /\ tstate' \in [AllThreads -> S]
      /\ ready' \in Seq(Threads) /\ Distinct(ready') /\ Descending(ready', PriorityRank)
      /\ current' \in AllThreads
      /\ \A u \in AllThreads : tstate'[u] = "running" <=> u = current'
      /\ \A u \in Threads :
              /\ u \in Items(ready') <=> tstate'[u] = "ready"
              /\ tstate'[u] = "blocked" <=> tstate[u] = "blocked"
              /\ tstate'[u] = "suspended" <=> tstate[u] = "suspended" \/ u = current
  BY <1>2, SwitchLists
<1>7. Agree'
  <2>1. \A u \in Threads : /\ u \in Items(blocked') <=> tstate'[u] = "blocked"
                           /\ u \in Items(suspended') <=> tstate'[u] = "suspended"
                           /\ u \in Items(sleep') => tstate'[u] = "blocked"
    BY <1>2, <1>4, <1>6 DEF Agree
  <2> QED BY <1>2, <1>4, <1>6, <2>1 DEF Agree
<1> QED BY <1>2, <1>4, <1>6, <1>7, RankKept DEF ListTypes, Sorted

\* wakeup_thread of the head of the sleep queue
LEMMA WakeLists ==
  ASSUME ListTypes, Agree, Sorted, sleep # <<>>, sleep' = Tail(sleep),
         NEW t, t = Head(sleep), t \in Threads,
         IF tstate[t] = "blocked"
         THEN /\ tstate' = [tstate EXCEPT ![t] = "ready"]
              /\ blocked' = Unlink(blocked, t)
              /\ ready' = ReadyWith(ready, t)
         ELSE UNCHANGED <<tstate, ready, blocked>>,
         UNCHANGED <<suspended, current, section, scoped>>
  PROVE  ListTypes' /\ Agree' /\ Sorted'
<1>1. /\ sleep' \in Seq(Threads \cup Devices) /\ t \in Items(sleep)
      /\ Items(sleep') = Items(sleep) \ {t} /\ Distinct(sleep')
  BY TailItems DEF ListTypes, Agree
<1>2. tstate[t] = "blocked"
  BY <1>1 DEF Agree
<1>3. t \notin Items(ready) /\ t \in Items(blocked) /\ t # current
  BY <1>2 DEF Agree, AllThreads
<1>4. /\ ready' \in Seq(Threads) /\ Items(ready') = Items(ready) \cup {t}
      /\ Distinct(ready') /\ Descending(ready', PriorityRank)
  BY <1>2, <1>3, ReadyInsert DEF ListTypes, Agree, Sorted
<1>5. /\ blocked' \in Seq(Threads) /\ Items(blocked') = Items(blocked) \ {t}
      /\ Distinct(blocked') /\ Descending(blocked', LockRank)
  BY <1>2, <1>3, UnlinkItems, UnlinkDescending DEF ListTypes, Agree, Sorted
<1>6. tstate' = [tstate EXCEPT ![t] = "ready"]
  BY <1>2
<1>7. ListTypes'
  BY <1>1, <1>4, <1>5, <1>6 DEF ListTypes, AllThreads
<1>8. Agree'
  <2>1. \A u \in Threads : /\ u \in Items(ready') <=> tstate'[u] = "ready"
                           /\ u \in Items(blocked') <=> tstate'[u] = "blocked"
                           /\ u \in Items(suspended') <=> tstate'[u] = "suspended"
                           /\ u \in Items(sleep') => tstate'[u] = "blocked"
    BY <1>1, <1>2, <1>4, <1>5, <1>6 DEF Agree, ListTypes, AllThreads
  <2>2. \A u \in AllThreads : tstate'[u] = "running" <=> u = current'
    BY <1>2, <1>3, <1>6 DEF Agree, ListTypes, AllThreads
  <2> QED BY <1>1, <1>4, <1>5, <2>1, <2>2 DEF Agree
<1> QED BY <1>4, <1>5, <1>7, <1>8, RankKept DEF Sorted

\* reschedule: the switch to the head of the ready queue
LEMMA PickLists ==
  ASSUME ListTypes, Agree, Sorted, ready # <<>>,
         tstate' = [tstate EXCEPT ![current] = "ready", ![Head(ready)] = "running"],
         ready' = ReadyWith(Tail(ready), current),
         current' = Head(ready),
         UNCHANGED <<blocked, suspended, sleep, section, scoped>>
  PROVE  ListTypes' /\ Agree' /\ Sorted'
<1> DEFINE h == Head(ready)
           r == Tail(ready)
<1>1. /\ r \in Seq(Threads) /\ h \in Items(ready) /\ h \in Threads
      /\ Items(r) = Items(ready) \ {h} /\ Distinct(r) /\ Descending(r, PriorityRank)
  BY TailItems, TailDescending DEF ListTypes, Agree, Sorted
<1>2. tstate' = [tstate EXCEPT ![current] = "ready", ![h] = "running"] /\ current' = h
      /\ ready' = ReadyWith(r, current)
  OBVIOUS
<1> HIDE DEF h, r
<1>3. tstate[h] = "ready" /\ tstate[current] = "running" /\ h # current /\ current \notin Items(ready)
  BY <1>1, ConstantsAssumption DEF Agree, ListTypes, AllThreads, Items
<1>4. \A u \in AllThreads : tstate'[u] = IF u = h THEN "running"
                                        ELSE IF u = current THEN "ready" ELSE tstate[u]
  BY <1>1, <1>2, <1>3 DEF ListTypes, AllThreads
<1>5. /\ ready' \in Seq(Threads) /\ Distinct(ready') /\ Descending(ready', PriorityRank)
      /\ \A u \in Threads : u \in Items(ready') <=> u \in Items(r) \/ u = current
  <2>1. CASE current = Idle
    BY <1>1, <1>2, <2>1, ConstantsAssumption, ZenonT(30) DEF ReadyWith
  <2>2. CASE current # Idle
    <3>1. current \in Threads /\ current \notin Items(r)
      BY <1>1, <1>3, <2>2 DEF ListTypes, AllThreads
    <3>2. /\ ReadyWith(r, current) \in Seq(Threads)
          /\ Items(ReadyWith(r, current)) = Items(r) \cup {current}
          /\ Distinct(ReadyWith(r, current))
          /\ Descending(ReadyWith(r, current), PriorityRank)
      BY <1>1, <3>1, ReadyInsert, Zenon
    <3> QED BY <1>2, <3>2
  <2> QED BY <2>1, <2>2
<1>6. ListTypes'
  BY <1>1, <1>2, <1>5, ZenonT(30) DEF ListTypes, AllThreads
<1>7. Agree'
  <2>1. \A u \in Threads : /\ u \in Items(ready') <=> tstate'[u] = "ready"
                           /\ u \in Items(blocked') <=> tstate'[u] = "blocked"
                           /\ u \in Items(suspended') <=> tstate'[u] = "suspended"
                           /\ u \in Items(sleep') => tstate'[u] = "blocked"
    BY <1>1, <1>3, <1>4, <1>5, ZenonT(30) DEF Agree, AllThreads
  <2>2. \A u \in AllThreads : tstate'[u] = "running" <=> u = current'
    <3>1. \A u \in AllThreads : tstate[u] = "running" <=> u = current
      BY DEF Agree
    <3>2. \A u \in AllThreads : tstate'[u] = "running" <=> u = h
      BY <1>3, <1>4, <3>1, ZenonT(30)
    <3> QED BY <1>2, <3>2, ZenonT(30)
  <2> QED BY <1>5, <2>1, <2>2, Zenon DEF Agree
<1> QED BY <1>5, <1>6, <1>7, RankKept DEF Sorted

\* A lock taken or released by the current thread changes the priority of no
\* thread in the lists.
LEMMA LockLists ==
  ASSUME ListTypes, Agree, Sorted, UNCHANGED queueVars,
         \A t \in Threads : t # current => section'[t] = section[t] /\ scoped'[t] = scoped[t]
  PROVE  Agree' /\ Sorted'
<1>1. UNCHANGED <<tstate, ready, blocked, suspended, sleep, current>>
  BY DEF queueVars
<1>2. \A t \in Threads : t # current => /\ PriorityRank'[t] = PriorityRank[t]
                                       /\ LockRank'[t] = LockRank[t]
  BY DEF PriorityRank, LockRank, Priority, LockPriority, LockPriorityOf
<1>3. \A i \in 1 .. Len(ready) : ready[i] \in Threads /\ ready[i] # current
  <2>1. \A i \in 1 .. Len(ready) : ready[i] \in Threads /\ ready[i] \in Items(ready)
    BY DEF ListTypes, Items
  <2> QED BY <2>1 DEF Agree, AllThreads
<1>4. \A i \in 1 .. Len(blocked) : blocked[i] \in Threads /\ blocked[i] # current
  <2>1. \A i \in 1 .. Len(blocked) : blocked[i] \in Threads /\ blocked[i] \in Items(blocked)
    BY DEF ListTypes, Items
  <2> QED BY <2>1 DEF Agree, AllThreads
<1>5. Descending(ready, PriorityRank') /\ Descending(blocked, LockRank')
  BY <1>2, <1>3, <1>4, ZenonT(30) DEF Sorted, Descending
<1>6. Agree'
  BY <1>1 DEF Agree
<1> QED BY <1>1, <1>5, <1>6 DEF Sorted

-----------------------------------------------------------------------------
(* The contexts                                                            *)

\* The service in progress has not had its effect yet.
Before(c) == c.pc \in {"acquire", "locked"}

Blocking == {"delay", "wait_event", "wait", "suspend"}

\* What holds of context c of a thread with scoped locks sc and saved nesting
\* priorities sv: its service has an argument of the right kind, a lock that it
\* is about to release is held, and a section of the wait queue has raised it.
ThreadOK(c, sc, sv) ==
  /\ c.op = "resume" => c.arg \in Threads
  /\ c.op = "lock" => c.arg \in Locks
  /\ c.op = "unlock" /\ Before(c) => c.arg \in Items(sc)
  /\ InQueueSection(c) => sv # <<>>

\* What holds of context c at depth k while thread cur is the current one: only
\* the outermost context reschedules or carries a blocking call, whose caller is
\* not the idle thread; only an attached interrupt runs a handler; a service of
\* the kernel returns to a place inside the context.
FrameOK(k, c, cur) ==
  /\ c.op = "resume" => c.arg \in Threads
  /\ c.op = "sleep" => c.arg \in Devices
  /\ c.op \in Blocking /\ Before(c) => k = 1 /\ cur # Idle
  /\ {c.pc, c.ret} \cap {"body", "notify", "notified"} # {} => c.icb \in Devices
  /\ c.pc \in {"polls", "swap", "again", "leave", "wake", "pick"} => k = 1
  /\ c.op = "resched" \/ c.ret = "again" => k = 1
  /\ c.pc \in {"acquire", "locked", "complete_resume", "complete_sleep", "store",
               "wake", "pick"} => c.ret # "user"

ContextsOK ==
  /\ \A t \in AllThreads : ThreadOK(thr[t], scoped[t], saved[t])
  /\ \A k \in 1 .. Len(frames) : FrameOK(k, frames[k], current)

ContextTypes == thr \in [AllThreads -> ThreadContexts] /\ frames \in Seq(FrameContexts)

\* The context that runs is one of the contexts the invariant speaks of.
LEMMA CtxFacts ==
  ASSUME ContextTypes, ContextsOK, current \in AllThreads
  PROVE  /\ InIsr => /\ Ctx \in FrameContexts /\ FrameOK(Len(frames), Ctx, current)
                     /\ Len(frames) \in 1 .. Len(frames)
         /\ ~InIsr => Ctx \in ThreadContexts /\ ThreadOK(Ctx, scoped[current], saved[current])
<1>1. CASE InIsr
  <2>1. Ctx = frames[Len(frames)] /\ Len(frames) \in 1 .. Len(frames)
    BY <1>1 DEF Ctx, Top, InIsr, ContextTypes
  <2>2. frames[Len(frames)] \in FrameContexts
    BY <2>1 DEF ContextTypes
  <2>3. FrameOK(Len(frames), frames[Len(frames)], current)
    BY <2>1, Zenon DEF ContextsOK
  <2> QED BY <1>1, <2>1, <2>2, <2>3
<1>2. CASE ~InIsr
  <2>1. Ctx = thr[current]
    BY <1>2 DEF Ctx
  <2>2. thr[current] \in ThreadContexts
    BY DEF ContextTypes
  <2>3. ThreadOK(thr[current], scoped[current], saved[current])
    BY Zenon DEF ContextsOK
  <2> QED BY <1>2, <2>1, <2>2, <2>3
<1> QED BY <1>1, <1>2

\* Goto keeps the contexts in order if the new context is.
LEMMA GotoOK ==
  ASSUME ContextTypes, ContextsOK, current \in AllThreads, NEW c, Goto(c),
         InIsr => c \in FrameContexts /\ FrameOK(Len(frames), c, current'),
         ~InIsr => c \in ThreadContexts /\ ThreadOK(c, scoped'[current], saved'[current]),
         \A t \in AllThreads : InIsr \/ t # current => /\ scoped'[t] = scoped[t]
                                                     /\ saved'[t] = saved[t],
         current' = current \/ Len(frames) = 1
  PROVE  ContextTypes' /\ ContextsOK'
<1>1. CASE InIsr
  <2> DEFINE n == Len(frames)
  <2>1. frames' = [frames EXCEPT ![n] = c] /\ thr' = thr
    BY <1>1 DEF Goto
  <2>2. n \in 1 .. n /\ n \in Nat
    BY <1>1 DEF InIsr, ContextTypes
  <2>3. /\ frames' \in Seq(FrameContexts) /\ Len(frames') = n
        /\ \A k \in 1 .. n : frames'[k] = IF k = n THEN c ELSE frames[k]
    BY <1>1, <2>1, <2>2, ExceptOf DEF ContextTypes
  <2>4. \A t \in AllThreads : ThreadOK(thr'[t], scoped'[t], saved'[t])
    <3>1. \A t \in AllThreads : /\ scoped'[t] = scoped[t] /\ saved'[t] = saved[t]
                                /\ ThreadOK(thr[t], scoped[t], saved[t])
      BY <1>1, Zenon DEF ContextsOK
    <3> QED BY <2>1, <3>1
  <2>5. ASSUME NEW k \in 1 .. n PROVE FrameOK(k, frames'[k], current')
    <3>1. CASE k = n
      BY <1>1, <2>2, <2>3, <3>1
    <3>2. CASE k # n
      <4>1. frames'[k] = frames[k] /\ current' = current
        BY <2>2, <2>3, <3>2
      <4>2. FrameOK(k, frames[k], current)
        BY Zenon DEF ContextsOK
      <4> QED BY <4>1, <4>2
    <3> QED BY <3>1, <3>2
  <2> HIDE DEF n
  <2> QED BY <2>1, <2>3, <2>4, <2>5, ZenonT(30) DEF ContextTypes, ContextsOK
<1>2. CASE ~InIsr
  <2>1. thr' = [thr EXCEPT ![current] = c] /\ frames' = frames /\ frames = <<>>
    BY <1>2 DEF Goto, InIsr
  <2>2. thr' \in [AllThreads -> ThreadContexts]
    BY <1>2, <2>1 DEF ContextTypes
  <2>3. ASSUME NEW t \in AllThreads PROVE ThreadOK(thr'[t], scoped'[t], saved'[t])
    <3>1. CASE t = current
      BY <1>2, <2>1, <3>1 DEF ContextTypes
    <3>2. CASE t # current
      <4>1. thr'[t] = thr[t] /\ scoped'[t] = scoped[t] /\ saved'[t] = saved[t]
        BY <2>1, <3>2 DEF ContextTypes
      <4>2. ThreadOK(thr[t], scoped[t], saved[t])
        BY Zenon DEF ContextsOK
      <4> QED BY <4>1, <4>2
    <3> QED BY <3>1, <3>2
  <2>4. \A k \in 1 .. Len(frames') : FrameOK(k, frames'[k], current')
    BY <2>1
  <2> QED BY <2>1, <2>2, <2>3, <2>4 DEF ContextTypes, ContextsOK
<1> QED BY <1>1, <1>2

\* The same, where no lock and no saved priority changes
LEMMA GotoKeeps ==
  ASSUME ContextTypes, ContextsOK, current \in AllThreads, NEW c, Goto(c),
         UNCHANGED <<scoped, saved, current>>,
         InIsr => c \in FrameContexts /\ FrameOK(Len(frames), c, current),
         ~InIsr => c \in ThreadContexts /\ ThreadOK(c, scoped[current], saved[current])
  PROVE  ContextTypes' /\ ContextsOK'
BY GotoOK

\* A step that touches neither contexts nor locks keeps the contexts in order.
LEMMA ContextsKept ==
  ASSUME ContextTypes, ContextsOK, UNCHANGED <<scoped, saved, current, thr, frames>>
  PROVE  ContextTypes' /\ ContextsOK'
BY DEF ContextTypes, ContextsOK

\* Return, and Release, of a context that is inside a service of the kernel
LEMMA ReturnFrame ==
  ASSUME NEW c \in FrameContexts, NEW k, NEW cur, FrameOK(k, c, cur), c.ret # "user", NEW cur2
  PROVE  /\ Return(c) \in FrameContexts /\ FrameOK(k, Return(c), cur2)
         /\ Release(c) \in FrameContexts /\ FrameOK(k, Release(c), cur2)
<1>1. Return(c) \in FrameContexts
  BY DEF FrameContexts, Return, Context, Times, NoTime, Null
<1>2. FrameOK(k, Return(c), cur2)
  BY DEF FrameContexts, FrameOK, Return, Context, Blocking, Before
<1>3. [c EXCEPT !.pc = "complete_resume"] \in FrameContexts
  BY DEF FrameContexts
<1>4. FrameOK(k, [c EXCEPT !.pc = "complete_resume"], cur2)
  BY DEF FrameContexts, FrameOK, Blocking, Before
<1> QED BY <1>1, <1>2, <1>3, <1>4 DEF Release

\* A thread that returns from a service is at a place of its own code.
LEMMA ReturnThread ==
  ASSUME NEW c \in ThreadContexts, NEW sc, NEW sv, ThreadOK(c, sc, sv), NEW sc2
  PROVE  /\ Return(c) \in ThreadContexts /\ ThreadOK(Return(c), sc2, sv)
         /\ Release(c) \in ThreadContexts /\ ThreadOK(Release(c), sc2, sv)
<1>1. Return(c) \in ThreadContexts
  BY DEF ThreadContexts, Return, Context, Times, NoTime, Null
<1>2. ThreadOK(Return(c), sc2, sv)
  BY DEF ThreadContexts, ThreadOK, Return, Context, Before, InQueueSection
<1>3. [c EXCEPT !.pc = "complete_resume"] \in ThreadContexts
  BY DEF ThreadContexts
<1>4. ThreadOK([c EXCEPT !.pc = "complete_resume"], sc2, sv)
  BY DEF ThreadContexts, ThreadOK, Before, InQueueSection
<1> QED BY <1>1, <1>2, <1>3, <1>4 DEF Release

\* The entry to a critical section
LEMMA SectionFrame ==
  ASSUME NEW c \in FrameContexts, NEW k, NEW cur,
         NEW op \in {"resume", "sleep", "resched"}, NEW arg \in Threads \cup Devices \cup {Null},
         NEW ret \in {"body", "notify", "notified", "again"},
         op = "resume" => arg \in Threads, op = "sleep" => arg \in Devices,
         ret # "again" => c.icb \in Devices, op = "resched" \/ ret = "again" => k = 1
  PROVE  Section(c, op, arg, ret) \in FrameContexts /\ FrameOK(k, Section(c, op, arg, ret), cur)
<1>1. Section(c, op, arg, ret) \in FrameContexts
  BY DEF FrameContexts, Section
<1>2. FrameOK(k, Section(c, op, arg, ret), cur)
  BY DEF FrameContexts, Section, FrameOK, Blocking, Before
<1> QED BY <1>1, <1>2

\* A thread that enters a service carries an argument of the right kind.
LEMMA SectionThread ==
  ASSUME NEW c \in ThreadContexts, NEW sc, NEW sv,
         NEW op \in {"resume", "lock", "unlock", "cond"}, NEW arg \in Threads \cup Locks \cup {Null},
         NEW ret \in {"user", "cond", "notify", "notified"},
         op = "resume" => arg \in Threads, op = "lock" => arg \in Locks,
         op = "unlock" => arg \in Items(sc), ret \in {"notify", "notified"} => sv # <<>>
  PROVE  Section(c, op, arg, ret) \in ThreadContexts /\ ThreadOK(Section(c, op, arg, ret), sc, sv)
<1>1. Section(c, op, arg, ret) \in ThreadContexts
  BY DEF ThreadContexts, Section
<1>2. ThreadOK(Section(c, op, arg, ret), sc, sv)
  BY DEF ThreadContexts, Section, ThreadOK, Before, InQueueSection
<1> QED BY <1>1, <1>2

\* The types of the other variables
OtherTypes ==
  /\ deadline \in [Threads \cup Devices -> Times \cup {NoTime}]
  /\ saved \in [AllThreads -> Seq(Nat \cup {INVALID})]
  /\ owner \in [Locks -> AllThreads \cup {Null}]
  /\ waitq \in Seq(Threads)
  /\ waited \in [AllThreads -> BOOLEAN]
  /\ preemptLock \in AllThreads \cup Icbs \cup {Null}
  /\ pendingResume \in Queues(Threads)
  /\ pendingSleep \in Queues(Devices) /\ polls \in Queues(Devices)
  /\ pendingKind \in SUBSET {"higher", "equal"}
  /\ now \in Times /\ alarm \in Times \cup {NoTime}
  /\ fault \in Faults

\* Type correctness, split into the three parts the proof treats in turn.
LEMMA TypesOf == TypeOK <=> ListTypes /\ ContextTypes /\ OtherTypes
BY Zenon DEF TypeOK, ListTypes, ContextTypes, OtherTypes

\* The end of the body of a critical section
LEMMA ReleaseOK ==
  ASSUME ContextTypes, ContextsOK, current \in AllThreads, Goto(Release(Ctx)),
         Ctx.pc \in {"locked", "pick"}, saved' = saved,
         \A t \in AllThreads : InIsr \/ t # current => scoped'[t] = scoped[t],
         current' = current \/ Len(frames) = 1
  PROVE  ContextTypes' /\ ContextsOK'
<1>1. /\ InIsr => Ctx \in FrameContexts /\ FrameOK(Len(frames), Ctx, current)
      /\ ~InIsr => Ctx \in ThreadContexts /\ ThreadOK(Ctx, scoped[current], saved[current])
  BY CtxFacts
<1>2. InIsr => Ctx.ret # "user"
  BY <1>1 DEF FrameOK
<1>3. InIsr => Release(Ctx) \in FrameContexts /\ FrameOK(Len(frames), Release(Ctx), current')
  BY <1>1, <1>2, ReturnFrame
<1>4. ~InIsr => /\ Release(Ctx) \in ThreadContexts
                /\ ThreadOK(Release(Ctx), scoped'[current], saved'[current])
  BY <1>1, ReturnThread
<1> QED BY <1>3, <1>4, GotoOK

\* A blocking call is carried by the outermost context, for a thread that is not
\* idle.
LEMMA BlockingFrame ==
  ASSUME ContextTypes, ContextsOK, current \in AllThreads, Ctx.pc = "locked", Ctx.op \in Blocking
  PROVE  InIsr /\ Len(frames) = 1 /\ current # Idle
<1>1. /\ InIsr => FrameOK(Len(frames), Ctx, current)
      /\ ~InIsr => Ctx \in ThreadContexts
  BY CtxFacts
<1>2. InIsr
  BY <1>1 DEF ThreadContexts, Blocking
<1> QED BY <1>1, <1>2 DEF FrameOK, Before

-----------------------------------------------------------------------------
(* Every step keeps the lists in order and in agreement with the states    *)

\* The lists of a step that changes neither them nor any lock
LEMMA ListsKept ==
  ASSUME ListTypes, Agree, Sorted, UNCHANGED <<queueVars, section, scoped>>
  PROVE  ListTypes' /\ Agree' /\ Sorted'
<1>1. UNCHANGED <<tstate, ready, blocked, suspended, sleep, current>>
  BY DEF queueVars
<1>2. PriorityRank' = PriorityRank /\ LockRank' = LockRank
  BY RankKept
<1>3. Agree'
  BY <1>1 DEF Agree
<1> QED BY <1>1, <1>2, <1>3 DEF ListTypes, Sorted

\* What the running context is, for the steps that use its service
LEMMA CtxOf ==
  ASSUME ListTypes, ContextTypes, ContextsOK
  PROVE  /\ current \in AllThreads
         /\ InIsr => Ctx \in FrameContexts /\ FrameOK(Len(frames), Ctx, current)
         /\ ~InIsr => Ctx \in ThreadContexts /\ ThreadOK(Ctx, scoped[current], saved[current])
BY CtxFacts DEF ListTypes

\* The queues of deferred work hold nodes of their kind.
LEMMA QueueTypes ==
  ASSUME NEW S, NEW q \in Queues(S)
  PROVE  /\ q.items \in Seq(S)
         /\ q.items # <<>> => Head(q.items) \in S /\ Pop(q) \in Queues(S)
         /\ \A x \in S : Push(q, x) \in Queues(S)
<1>1. q.items \in Seq(S) /\ q.dummy \in S \cup {Sentinel} /\ q.owned \in SUBSET S
  BY DEF Queues
<1>2. q.items # <<>> => Head(q.items) \in S /\ Tail(q.items) \in Seq(S)
  BY <1>1
<1>3. q.items # <<>> => Pop(q) \in Queues(S)
  BY <1>1, <1>2, Zenon DEF Pop, Queues
<1>4. ASSUME NEW x \in S PROVE Push(q, x) \in Queues(S)
  <2> DEFINE items == IF x = q.dummy THEN <<>> ELSE Append(q.items, x)
  <2>1. items \in Seq(S) /\ q.owned \cup {x} \in SUBSET S
    BY <1>1
  <2>2. Push(q, x) = [q EXCEPT !.owned = @ \cup {x}, !.looped = x = q.dummy /\ q.items = <<>>,
                               !.items = items]
    BY DEF Push
  <2> HIDE DEF items
  <2> QED BY <2>1, <2>2, Zenon DEF Queues
<1> QED BY <1>1, <1>2, <1>3, <1>4

\* The steps of the preemption lock, deferred resumes included, keep the lists.
LEMMA LockStepLists ==
  ASSUME ListTypes, Agree, Sorted, ContextTypes, ContextsOK, OtherTypes, LockStep
  PROVE  ListTypes' /\ Agree' /\ Sorted'
<1>1. CASE Acquire \/ WouldBlock \/ Store \/ Check \/ Released
  BY <1>1, ListsKept DEF Acquire, WouldBlock, Store, Check, Released, lockVars
<1>2. CASE CompleteResume
  <2>1. UNCHANGED <<section, scoped>>
    BY <1>2 DEF CompleteResume, lockVars
  <2>2. CASE UNCHANGED queueVars
    BY <2>1, <2>2, ListsKept
  <2>3. CASE pendingResume.items # <<>> /\ ResumeThread(Head(pendingResume.items))
    <3>1. Head(pendingResume.items) \in Threads
      BY <2>3, QueueTypes DEF OtherTypes
    <3> QED BY <2>1, <2>3, <3>1, ResumeLists
  <2> QED BY <1>2, <2>2, <2>3 DEF CompleteResume
<1>3. CASE CompleteSleep
  <2>1. UNCHANGED <<tstate, ready, blocked, suspended, current, section, scoped>>
    BY <1>3 DEF CompleteSleep, lockVars
  <2>2. CASE sleep' = sleep
    BY <2>1, <2>2, ListsKept DEF queueVars
  <2>3. CASE pendingSleep.items # <<>> /\ ScheduleWakeup(Head(pendingSleep.items))
    <3>1. Head(pendingSleep.items) \in Devices
      BY <2>3, QueueTypes DEF OtherTypes
    <3> QED BY <2>1, <2>3, <3>1, SleepLists
  <2> QED BY <1>3, <2>2, <2>3 DEF CompleteSleep
<1> QED BY <1>1, <1>2, <1>3 DEF LockStep

\* Each critical section of the scheduler keeps the lists.
LEMMA SectionStepLists ==
  ASSUME ListTypes, Agree, Sorted, ContextTypes, ContextsOK, OtherTypes, SectionStep
  PROVE  ListTypes' /\ Agree' /\ Sorted'
<1>0. /\ current \in AllThreads
      /\ InIsr => Ctx \in FrameContexts /\ FrameOK(Len(frames), Ctx, current)
      /\ ~InIsr => Ctx \in ThreadContexts /\ ThreadOK(Ctx, scoped[current], saved[current])
  BY CtxOf
<1>1. CASE DoCond \/ DoResched \/ SetAlarm
  BY <1>1, ListsKept DEF DoCond, DoResched, SetAlarm, lockVars
<1>2. CASE DoResume
  <2>1. ResumeThread(Ctx.arg) /\ Ctx.op = "resume" /\ UNCHANGED <<section, scoped>>
    BY <1>2 DEF DoResume, Locked, lockVars
  <2>2. Ctx.arg \in Threads
    BY <1>0, <2>1 DEF FrameOK, ThreadOK
  <2> QED BY <2>1, <2>2, ResumeLists
<1>3. CASE DoSleep
  <2>1. /\ ScheduleWakeup(Ctx.arg) /\ Ctx.op = "sleep"
        /\ UNCHANGED <<tstate, ready, blocked, suspended, current, section, scoped>>
    BY <1>3 DEF DoSleep, Locked, lockVars
  <2>2. Ctx.arg \in Devices
    BY <1>0, <2>1 DEF FrameOK, ThreadContexts
  <2> QED BY <2>1, <2>2, SleepLists
<1>4. CASE DoDelay \/ DoWaitEvent \/ DoWait
  <2>1. /\ Ctx.pc = "locked" /\ Ctx.op \in Blocking /\ UNCHANGED <<section, scoped>>
        /\ (\E d : BlockCurrent(d)) \/ UNCHANGED queueVars
    BY <1>4 DEF DoDelay, DoWaitEvent, DoWait, Locked, At, lockVars, Blocking
  <2>2. current # Idle
    BY <1>0, <2>1, BlockingFrame
  <2> QED BY <2>1, <2>2, BlockLists, ListsKept
<1>5. CASE DoSuspend
  <2>1. Ctx.pc = "locked" /\ Ctx.op \in Blocking /\ UNCHANGED <<section, scoped>> /\ SuspendCurrent
    BY <1>5 DEF DoSuspend, Locked, At, lockVars, Blocking
  <2>2. current # Idle
    BY <1>0, <2>1, BlockingFrame
  <2> QED BY <2>1, <2>2, SuspendLists
<1>6. ASSUME NEW sc \in Seq(Locks), scoped' = [scoped EXCEPT ![current] = sc],
             section' = section, UNCHANGED queueVars
      PROVE  ListTypes' /\ Agree' /\ Sorted'
  <2>1. \A t \in Threads : t # current => section'[t] = section[t] /\ scoped'[t] = scoped[t]
    BY <1>6 DEF ListTypes, AllThreads
  <2>2. Agree' /\ Sorted'
    BY <1>6, <2>1, LockLists
  <2>3. ListTypes'
    BY <1>6 DEF ListTypes, queueVars
  <2> QED BY <2>2, <2>3
<1>7. CASE DoLock
  <2> DEFINE P == {k \in Locks : Ceiling[k] > Ceiling[Ctx.arg]}
             sc == InsertAfter(scoped[current], Ctx.arg, P)
  <2>1. /\ Ctx.op = "lock" /\ section' = section /\ UNCHANGED queueVars
        /\ scoped' = [scoped EXCEPT ![current] = sc]
    BY <1>7 DEF DoLock, Locked
  <2>2. Ctx.arg \in Locks
    BY <1>0, <2>1 DEF ThreadOK, FrameContexts
  <2>3. scoped[current] \in Seq(Locks)
    BY <1>0 DEF ListTypes
  <2> HIDE DEF P
  <2>4. sc \in Seq(Locks)
    BY <2>2, <2>3, InsertAfterItems
  <2> HIDE DEF sc
  <2> QED BY <1>6, <2>1, <2>4, ZenonT(30)
<1>8. CASE DoUnlock
  <2> DEFINE sc == Unlink(scoped[current], Ctx.arg)
  <2>1. /\ Ctx.op = "unlock" /\ Ctx.pc = "locked" /\ section' = section /\ UNCHANGED queueVars
        /\ scoped' = [scoped EXCEPT ![current] = sc]
    BY <1>8 DEF DoUnlock, Locked, At
  <2>2. Ctx.arg \in Items(scoped[current])
    BY <1>0, <2>1 DEF ThreadOK, Before, FrameContexts
  <2>3. scoped[current] \in Seq(Locks)
    BY <1>0 DEF ListTypes
  <2>4. sc \in Seq(Locks)
    BY <2>2, <2>3, UnlinkItems
  <2> HIDE DEF sc
  <2> QED BY <1>6, <2>1, <2>4, ZenonT(30)
<1>9. CASE WakeSleeper
  <2> DEFINE x == Head(sleep)
  <2>1. /\ sleep # <<>> /\ sleep' = Tail(sleep)
        /\ UNCHANGED <<suspended, current, section, scoped>>
    BY <1>9 DEF WakeSleeper, SleeperDue, lockVars
  <2>2. CASE x \in Devices
    <3>1. UNCHANGED <<tstate, ready, blocked>>
      BY <1>9, <2>2 DEF WakeSleeper
    <3>2. /\ sleep' \in Seq(Threads \cup Devices) /\ Distinct(sleep')
          /\ Items(sleep') \subseteq Items(sleep)
      BY <2>1, TailItems DEF ListTypes, Agree
    <3>3. Agree'
      BY <2>1, <3>1, <3>2 DEF Agree
    <3> QED BY <2>1, <3>1, <3>2, <3>3, RankKept DEF ListTypes, Sorted
  <2>3. CASE x \notin Devices
    <3>1. x \in Threads
      <4>1. sleep \in Seq(Threads \cup Devices)
        BY DEF ListTypes
      <4> QED BY <2>1, <2>3, <4>1
    <3>2. IF tstate[x] = "blocked"
          THEN /\ tstate' = [tstate EXCEPT ![x] = "ready"]
               /\ blocked' = Unlink(blocked, x)
               /\ ready' = ReadyWith(ready, x)
          ELSE UNCHANGED <<tstate, ready, blocked>>
      BY <1>9, <2>3 DEF WakeSleeper
    <3> QED BY <2>1, <3>1, <3>2, WakeLists
  <2> QED BY <2>2, <2>3
<1>10. CASE PickNext
  <2>1. UNCHANGED <<blocked, suspended, sleep, section, scoped>>
    BY <1>10 DEF PickNext, lockVars
  <2>2. CASE UNCHANGED <<tstate, ready, current>>
    BY <2>1, <2>2, ListsKept DEF queueVars
  <2>3. CASE /\ ready # <<>>
             /\ tstate' = [tstate EXCEPT ![current] = "ready", ![Head(ready)] = "running"]
             /\ ready' = ReadyWith(Tail(ready), current)
             /\ current' = Head(ready)
    BY <2>1, <2>3, PickLists
  <2> QED BY <1>10, <2>2, <2>3 DEF PickNext, HeadSatisfies
<1> QED BY <1>1, <1>2, <1>3, <1>4, <1>5, <1>7, <1>8, <1>9, <1>10 DEF SectionStep

\* raise_nesting_lock_priority and its reverse
LEMMA NestingLists ==
  ASSUME ListTypes, Agree, Sorted, NEW p \in Nat \cup {INVALID},
         section' = [section EXCEPT ![current] = p], UNCHANGED <<queueVars, scoped>>
  PROVE  ListTypes' /\ Agree' /\ Sorted'
<1>1. \A t \in Threads : t # current => section'[t] = section[t] /\ scoped'[t] = scoped[t]
  BY DEF ListTypes, AllThreads
<1>2. Agree' /\ Sorted'
  BY <1>1, LockLists
<1>3. ListTypes'
  BY DEF ListTypes, queueVars
<1> QED BY <1>2, <1>3

\* Raising the priority of the running thread keeps the lists: it is in none.
LEMMA RaiseLists ==
  ASSUME ListTypes, Agree, Sorted, NEW c \in Nat, RaiseNesting(c), UNCHANGED <<queueVars, scoped>>
  PROVE  ListTypes' /\ Agree' /\ Sorted'
<1> DEFINE p == Higher(section[current], Higher(c, BasePriority[current]))
<1>1. section' = [section EXCEPT ![current] = p]
  BY DEF RaiseNesting
<1>2. p \in Nat \cup {INVALID}
  BY ConstantsAssumption DEF ListTypes, Higher, INVALID
<1> HIDE DEF p
<1> QED BY <1>1, <1>2, NestingLists, ZenonT(30)

\* So does lowering it again at the end of a `with` section.
LEMMA RestoreLists ==
  ASSUME ListTypes, Agree, Sorted, OtherTypes, saved[current] # <<>>, RestoreNesting
  PROVE  ListTypes' /\ Agree' /\ Sorted'
<1> DEFINE p == Top(saved[current])
<1>1. section' = [section EXCEPT ![current] = p] /\ UNCHANGED <<queueVars, scoped>>
  BY DEF RestoreNesting
<1>2. p \in Nat \cup {INVALID}
  <2>1. saved[current] \in Seq(Nat \cup {INVALID})
    BY DEF ListTypes, OtherTypes
  <2> HIDE DEF INVALID
  <2> QED BY <2>1 DEF Top
<1> HIDE DEF p
<1> QED BY <1>1, <1>2, NestingLists, ZenonT(30)

\* The steps after a handler or a service keep the lists.
LEMMA ReturnStepLists ==
  ASSUME ListTypes, Agree, Sorted, ContextTypes, ContextsOK, OtherTypes, ExitStep \/ ReturnStep
  PROVE  ListTypes' /\ Agree' /\ Sorted'
<1>1. CASE ExitStep
  BY <1>1, ListsKept DEF ExitStep, Exit, PollExecutor, SwapPending, Again, Leave,
                           lockVars
<1>2. CASE ClearWaited \/ SecondCond \/ NotifyNext
  BY <1>2, ListsKept DEF ClearWaited, SecondCond, NotifyNext, lockVars
<1>3. CASE Notified
  <2>1. CASE InIsr
    BY <1>3, <2>1, ListsKept DEF Notified, lockVars
  <2>2. CASE ~InIsr
    <3>1. RestoreNesting /\ Ctx.pc = "notified"
      BY <1>3, <2>2 DEF Notified, At
    <3>2. saved[current] # <<>>
      BY <2>2, <3>1, CtxOf DEF ThreadOK, InQueueSection
    <3> QED BY <3>1, <3>2, RestoreLists
  <2> QED BY <2>1, <2>2
<1> QED BY <1>1, <1>2, <1>3 DEF ReturnStep

\* The calls of threads and handlers keep the lists.
LEMMA CallLists ==
  ASSUME ListTypes, Agree, Sorted, ContextTypes, ContextsOK, OtherTypes, Call
  PROVE  ListTypes' /\ Agree' /\ Sorted'
<1>1. CASE DelayUntil \/ WaitEvents \/ WaitEventsUntil \/ WaitInQueue \/ SuspendSelf
  BY <1>1, ListsKept DEF DelayUntil, WaitEvents, WaitEventsUntil, WaitInQueue, SuspendSelf,
                         Syscall, lockVars
<1>2. CASE Yield \/ PollNow \/ LockScoped \/ UnlockScoped \/ HoldPreemption \/ UnholdPreemption
  BY <1>2, ListsKept, ZenonT(30) DEF Yield, PollNow, LockScoped, UnlockScoped, HoldPreemption,
                         UnholdPreemption, lockVars
<1>3. CASE HandlerCall \/ SendEvents
  BY <1>3, ListsKept DEF HandlerCall, SleepUntil, WakeExecutor, HandlerReturns, SendEvents, lockVars
<1>4. CASE StartThread
  <2>1. PICK t \in Threads : tstate[t] = "created" /\ tstate' = [tstate EXCEPT ![t] = "started"]
    BY <1>4, ZenonT(30) DEF StartThread
  <2>2. UNCHANGED <<ready, blocked, suspended, sleep, current, section, scoped>>
    BY <1>4 DEF StartThread, lockVars
  <2>3. t \in AllThreads
    BY DEF AllThreads
  <2>4. \A u \in AllThreads : tstate'[u] = IF u = t THEN "started" ELSE tstate[u]
    BY <2>1 DEF ListTypes
  <2>5. \A u \in Threads : u \in AllThreads
    BY DEF AllThreads
  <2>6. Agree'
    BY <2>1, <2>2, <2>3, <2>4, <2>5 DEF Agree
  <2>7. ListTypes'
    BY <2>1, <2>2, ZenonT(30) DEF ListTypes
  <2> QED BY <2>2, <2>6, <2>7, RankKept DEF Sorted
<1>5. CASE EnterNesting
  <2>1. PICK l \in Locks : RaiseNesting(Ceiling[l])
    BY <1>5 DEF EnterNesting
  <2>2. UNCHANGED <<queueVars, scoped>> /\ Ceiling[l] \in Nat
    BY <1>5, ConstantsAssumption DEF EnterNesting
  <2> QED BY <2>1, <2>2, RaiseLists
<1>6. CASE LeaveNesting
  BY <1>6, RestoreLists DEF LeaveNesting
<1>7. CASE Notify
  <2>1. UNCHANGED <<queueVars, scoped>>
    BY <1>7 DEF Notify
  <2>2. CASE InIsr
    BY <1>7, <2>1, <2>2, ListsKept DEF Notify
  <2>3. CASE ~InIsr
    <3>1. RaiseNesting(WaitCeiling) /\ WaitCeiling \in Nat
      BY <1>7, <2>3, ConstantsAssumption DEF Notify
    <3> QED BY <2>1, <3>1, RaiseLists
  <2> QED BY <2>2, <2>3
<1> QED BY <1>1, <1>2, <1>3, <1>4, <1>5, <1>6, <1>7 DEF Call, ThreadCall

\* Every step of a running system
LEMMA ListsStep ==
  ASSUME ListTypes, Agree, Sorted, ContextTypes, ContextsOK, OtherTypes, Next
  PROVE  ListTypes' /\ Agree' /\ Sorted'
<1>1. CASE Environment
  BY <1>1, ListsKept, ZenonT(30) DEF Environment, DeviceInterrupt, TimerInterrupt, Tick, Compute, vars, lockVars
<1> QED BY <1>1, LockStepLists, SectionStepLists, ReturnStepLists, CallLists DEF Next, KernelStep

-----------------------------------------------------------------------------
(* The contexts                                                            *)

\* The steps of the preemption lock keep the contexts in order.
LEMMA LockStepContexts ==
  ASSUME ListTypes, ContextTypes, ContextsOK, OtherTypes, LockStep
  PROVE  ContextTypes' /\ ContextsOK'
<1>0. /\ current \in AllThreads
      /\ InIsr => /\ Ctx \in FrameContexts /\ FrameOK(Len(frames), Ctx, current)
                  /\ Len(frames) \in 1 .. Len(frames)
      /\ ~InIsr => Ctx \in ThreadContexts /\ ThreadOK(Ctx, scoped[current], saved[current])
  BY CtxFacts DEF ListTypes
<1>1. CASE Acquire
  <2> DEFINE c == [Ctx EXCEPT !.pc = "locked", !.outer = preemptLock = Null]
  <2>1. Goto(c) /\ UNCHANGED <<scoped, saved, current>> /\ Ctx.pc = "acquire"
    BY <1>1 DEF Acquire, queueVars, lockVars, At
  <2>2. InIsr => c \in FrameContexts /\ FrameOK(Len(frames), c, current)
    BY <1>0, <2>1, ZenonT(30) DEF FrameContexts, FrameOK, Before
  <2>3. ~InIsr => c \in ThreadContexts /\ ThreadOK(c, scoped[current], saved[current])
    BY <1>0, <2>1, ZenonT(30) DEF ThreadContexts, ThreadOK, Before, InQueueSection
  <2> HIDE DEF c
  <2> QED BY <1>0, <2>1, <2>2, <2>3, GotoKeeps
<1>2. CASE WouldBlock
  <2>1. /\ Goto(Return(Ctx)) /\ UNCHANGED <<scoped, saved, current>>
        /\ Ctx.pc = "acquire" /\ InIsr
    BY <1>2 DEF WouldBlock, queueVars, lockVars, At
  <2>2. Ctx.ret # "user"
    BY <1>0, <2>1 DEF FrameOK
  <2> QED BY <1>0, <2>1, <2>2, ReturnFrame, GotoKeeps
<1>3. CASE CompleteResume
  <2>1. UNCHANGED <<scoped, saved>> /\ Ctx.pc = "complete_resume"
    BY <1>3 DEF CompleteResume, lockVars, At
  <2>2. current' = current
    BY <1>3 DEF CompleteResume, queueVars, ResumeThread
  <2>3. CASE UNCHANGED <<thr, frames>>
    BY <2>1, <2>2, <2>3, ContextsKept
  <2>4. CASE Goto([Ctx EXCEPT !.pc = "complete_sleep"])
    <3> DEFINE c == [Ctx EXCEPT !.pc = "complete_sleep"]
    <3>1. InIsr => c \in FrameContexts /\ FrameOK(Len(frames), c, current)
      BY <1>0, <2>1 DEF FrameContexts, FrameOK, Before
    <3>2. ~InIsr => c \in ThreadContexts /\ ThreadOK(c, scoped[current], saved[current])
      BY <1>0, <2>1 DEF ThreadContexts, ThreadOK, Before, InQueueSection
    <3> HIDE DEF c
    <3>3. Goto(c)
      BY <2>4 DEF c
    <3> QED BY <1>0, <2>1, <2>2, <3>1, <3>2, <3>3, GotoKeeps
  <2> QED BY <1>3, <2>3, <2>4 DEF CompleteResume
<1>4. CASE CompleteSleep
  <2>1. UNCHANGED <<scoped, saved, current>> /\ Ctx.pc = "complete_sleep"
    BY <1>4 DEF CompleteSleep, lockVars, At
  <2>3. CASE UNCHANGED <<thr, frames>>
    BY <2>1, <2>3, ContextsKept
  <2>4. CASE Goto([Ctx EXCEPT !.pc = "store"])
    <3> DEFINE c == [Ctx EXCEPT !.pc = "store"]
    <3>1. InIsr => c \in FrameContexts /\ FrameOK(Len(frames), c, current)
      BY <1>0, <2>1 DEF FrameContexts, FrameOK, Before
    <3>2. ~InIsr => c \in ThreadContexts /\ ThreadOK(c, scoped[current], saved[current])
      BY <1>0, <2>1 DEF ThreadContexts, ThreadOK, Before, InQueueSection
    <3> HIDE DEF c
    <3>3. Goto(c)
      BY <2>4 DEF c
    <3> QED BY <1>0, <2>1, <3>1, <3>2, <3>3, GotoKeeps
  <2> QED BY <1>4, <2>3, <2>4 DEF CompleteSleep
<1>5. CASE Store
  <2>1. UNCHANGED <<scoped, saved, current>> /\ Ctx.pc = "store"
    BY <1>5 DEF Store, queueVars, lockVars, At
  <2>2. CASE InIsr
    <3>1. Goto(Return(Ctx)) /\ Ctx.ret # "user"
      BY <1>0, <1>5, <2>1, <2>2 DEF Store, FrameOK
    <3> QED BY <1>0, <2>1, <2>2, <3>1, ReturnFrame, GotoKeeps
  <2>3. CASE ~InIsr
    <3> DEFINE c == [Ctx EXCEPT !.pc = "check"]
    <3>1. c \in ThreadContexts /\ ThreadOK(c, scoped[current], saved[current])
      BY <1>0, <2>1, <2>3 DEF ThreadContexts, ThreadOK, Before, InQueueSection
    <3> HIDE DEF c
    <3>2. Goto(c)
      BY <1>5, <2>3 DEF Store, c
    <3> QED BY <1>0, <2>1, <2>3, <3>1, <3>2, GotoKeeps
  <2> QED BY <2>2, <2>3
<1>6. CASE Check
  <2>1. UNCHANGED <<scoped, saved, current>> /\ Ctx.pc = "check"
    BY <1>6 DEF Check, queueVars, lockVars, At
  <2>2. ~InIsr
    BY <1>0, <2>1 DEF FrameContexts
  <2>3. CASE pendingKind = {}
    <3>1. Goto(Return(Ctx))
      BY <1>6, <2>3 DEF Check
    <3> QED BY <1>0, <2>1, <2>2, <3>1, ReturnThread, GotoKeeps
  <2>4. CASE pendingKind # {}
    <3> DEFINE c == [Ctx EXCEPT !.pc = "released"]
               f == Context(SYSCALL, "exit")
    <3>1. c \in ThreadContexts /\ ThreadOK(c, scoped[current], saved[current])
      BY <1>0, <2>1, <2>2 DEF ThreadContexts, ThreadOK, Before, InQueueSection
    <3>2. f \in FrameContexts /\ FrameOK(1, f, current)
      BY DEF FrameContexts, Context, FrameOK, Before, Icbs, SYSCALL, Times, NoTime, Null
    <3>3. thr' = [thr EXCEPT ![current] = c] /\ frames' = <<f>>
      BY <1>6, <2>2, <2>4 DEF Check, Ctx, Top
    <3> HIDE DEF c, f
    <3>4. ContextTypes'
      BY <1>0, <3>1, <3>2, <3>3 DEF ContextTypes
    <3>5. ASSUME NEW t \in AllThreads PROVE ThreadOK(thr'[t], scoped'[t], saved'[t])
      <4>1. thr'[t] = IF t = current THEN c ELSE thr[t]
        BY <1>0, <3>3 DEF ContextTypes
      <4>2. ThreadOK(thr[t], scoped[t], saved[t])
        BY Zenon DEF ContextsOK
      <4> QED BY <2>1, <3>1, <4>1, <4>2
    <3>6. \A k \in 1 .. Len(frames') : FrameOK(k, frames'[k], current')
      <4>1. Len(frames') = 1 /\ frames'[1] = f
        BY <3>3
      <4> QED BY <2>1, <3>2, <4>1
    <3> QED BY <3>4, <3>5, <3>6 DEF ContextsOK
  <2> QED BY <2>3, <2>4
<1>7. CASE Released
  <2>1. /\ UNCHANGED <<scoped, saved, current>> /\ Ctx.pc = "released"
        /\ Goto(Return(Ctx))
    BY <1>7 DEF Released, queueVars, lockVars, At
  <2>2. ~InIsr
    BY <1>0, <2>1 DEF FrameContexts
  <2> QED BY <1>0, <2>1, <2>2, ReturnThread, GotoKeeps
<1> QED BY <1>1, <1>2, <1>3, <1>4, <1>5, <1>6, <1>7 DEF LockStep

\* The critical sections keep the contexts in order.
LEMMA SectionStepContexts ==
  ASSUME ListTypes, ContextTypes, ContextsOK, OtherTypes, SectionStep
  PROVE  ContextTypes' /\ ContextsOK'
<1>0. /\ current \in AllThreads
      /\ InIsr => /\ Ctx \in FrameContexts /\ FrameOK(Len(frames), Ctx, current)
                  /\ Len(frames) \in 1 .. Len(frames)
      /\ ~InIsr => Ctx \in ThreadContexts /\ ThreadOK(Ctx, scoped[current], saved[current])
  BY CtxFacts DEF ListTypes
<1>1. CASE DoResume \/ DoSleep \/ DoCond
  <2>1. /\ Goto(Release(Ctx)) /\ Ctx.pc = "locked"
        /\ UNCHANGED <<scoped, saved, current>>
    BY <1>1 DEF DoResume, DoSleep, DoCond, Locked, At, lockVars, queueVars, ResumeThread
  <2> QED BY <1>0, <2>1, ReleaseOK
<1>2. CASE DoDelay \/ DoWaitEvent \/ DoWait \/ DoSuspend
  <2>1. /\ Goto(Release(Ctx)) /\ Ctx.pc = "locked" /\ Ctx.op \in Blocking
        /\ UNCHANGED <<scoped, saved>>
    BY <1>2 DEF DoDelay, DoWaitEvent, DoWait, DoSuspend, Locked, At, lockVars, Blocking
  <2>2. InIsr /\ Len(frames) = 1
    BY <1>0, <2>1, BlockingFrame
  <2> QED BY <1>0, <2>1, <2>2, ReleaseOK
<1>3. CASE DoLock \/ DoUnlock
  <2>1. /\ Goto(Release(Ctx)) /\ Ctx.pc = "locked" /\ Ctx.op \in {"lock", "unlock"}
        /\ UNCHANGED <<saved, current>>
    BY <1>3 DEF DoLock, DoUnlock, Locked, At, queueVars
  <2>2. ~InIsr
    BY <1>0, <2>1 DEF FrameContexts
  <2>3. \A t \in AllThreads : t # current => scoped'[t] = scoped[t]
    BY <1>3 DEF DoLock, DoUnlock, ListTypes
  <2> QED BY <1>0, <2>1, <2>2, <2>3, ReleaseOK
<1>4. CASE DoResched
  <2> DEFINE c == [Ctx EXCEPT !.pc = "wake", !.at = now]
  <2>1. /\ Goto(c) /\ Ctx.pc = "locked" /\ Ctx.op = "resched"
        /\ UNCHANGED <<scoped, saved, current>>
    BY <1>4 DEF DoResched, Locked, At, lockVars, queueVars
  <2>2. InIsr
    BY <1>0, <2>1 DEF ThreadContexts
  <2>3. c \in FrameContexts /\ FrameOK(Len(frames), c, current)
    BY <1>0, <2>1, <2>2, ZenonT(30) DEF FrameContexts, FrameOK, Before, OtherTypes
  <2> HIDE DEF c
  <2> QED BY <1>0, <2>1, <2>2, <2>3, GotoKeeps
<1>5. CASE WakeSleeper
  BY <1>5, ContextsKept DEF WakeSleeper, lockVars
<1>6. CASE SetAlarm
  <2> DEFINE c == [Ctx EXCEPT !.pc = "pick"]
  <2>1. Goto(c) /\ Ctx.pc = "wake" /\ UNCHANGED <<scoped, saved, current>>
    BY <1>6 DEF SetAlarm, At, lockVars, queueVars
  <2>2. InIsr
    BY <1>0, <2>1 DEF ThreadContexts
  <2>3. c \in FrameContexts /\ FrameOK(Len(frames), c, current)
    BY <1>0, <2>1, <2>2 DEF FrameContexts, FrameOK, Before
  <2> HIDE DEF c
  <2> QED BY <1>0, <2>1, <2>2, <2>3, GotoKeeps
<1>7. CASE PickNext
  <2>1. Goto(Release(Ctx)) /\ Ctx.pc = "pick" /\ UNCHANGED <<scoped, saved>>
    BY <1>7 DEF PickNext, At, lockVars
  <2>2. InIsr
    BY <1>0, <2>1 DEF ThreadContexts
  <2>3. Len(frames) = 1
    BY <1>0, <2>1, <2>2 DEF FrameOK
  <2> QED BY <1>0, <2>1, <2>2, <2>3, ReleaseOK
<1> QED BY <1>1, <1>2, <1>3, <1>4, <1>5, <1>6, <1>7 DEF SectionStep

\* Taking the last context off the stack
LEMMA PoppedElements ==
  ASSUME NEW S, NEW s \in Seq(S), Len(s) >= 1
  PROVE  /\ Popped(s) \in Seq(S) /\ Len(Popped(s)) = Len(s) - 1
         /\ \A k \in 1 .. Len(Popped(s)) : Popped(s)[k] = s[k] /\ k \in 1 .. Len(s)
<1> DEFINE n == Len(s) - 1
<1>1. n \in Nat /\ Len(s) \in Nat /\ \A k \in 1 .. n : s[k] \in S /\ k \in 1 .. Len(s)
  OBVIOUS
<1>2. Popped(s) = SubSeq(s, 1, n)
  BY DEF Popped
<1> HIDE DEF n
<1>3. /\ SubSeq(s, 1, n) \in Seq(S) /\ Len(SubSeq(s, 1, n)) = n
      /\ \A k \in 1 .. n : SubSeq(s, 1, n)[k] = s[k]
  BY <1>1
<1>4. n = Len(s) - 1
  BY DEF n
<1> QED BY <1>1, <1>2, <1>3, <1>4

\* What follows the handler, and what follows a service, keep the contexts in
\* order.
LEMMA ExitStepContexts ==
  ASSUME ListTypes, ContextTypes, ContextsOK, OtherTypes, ExitStep
  PROVE  ContextTypes' /\ ContextsOK'
<1>0. /\ current \in AllThreads
      /\ InIsr => /\ Ctx \in FrameContexts /\ FrameOK(Len(frames), Ctx, current)
                  /\ Len(frames) \in 1 .. Len(frames)
      /\ ~InIsr => Ctx \in ThreadContexts /\ ThreadOK(Ctx, scoped[current], saved[current])
  BY CtxFacts DEF ListTypes
<1>1. /\ InIsr /\ Ctx.pc \in {"exit", "polls", "swap", "again", "leave"}
      /\ UNCHANGED <<scoped, saved, current>>
  <2>1. Ctx.pc \in {"exit", "polls", "swap", "again", "leave"} /\ UNCHANGED <<scoped, saved, current>>
    BY DEF ExitStep, Exit, PollExecutor, SwapPending, Again, Leave, At, lockVars,
           queueVars
  <2> QED BY <1>0, <2>1 DEF ThreadContexts
<1>2. ASSUME NEW pc \in {"polls", "swap", "again", "leave"}, Goto([Ctx EXCEPT !.pc = pc]),
             Len(frames) = 1
      PROVE  ContextTypes' /\ ContextsOK'
  <2> DEFINE c == [Ctx EXCEPT !.pc = pc]
  <2>1. c \in FrameContexts /\ FrameOK(Len(frames), c, current)
    BY <1>0, <1>1, <1>2 DEF FrameContexts, FrameOK, Before
  <2> HIDE DEF c
  <2>2. Goto(c)
    BY <1>2 DEF c
  <2> QED BY <1>0, <1>1, <2>1, <2>2, GotoKeeps
<1>3. ASSUME thr' = thr, frames' \in Seq(FrameContexts),
             \A k \in 1 .. Len(frames') : FrameOK(k, frames'[k], current)
      PROVE  ContextTypes' /\ ContextsOK'
  BY <1>1, <1>3 DEF ContextTypes, ContextsOK
<1>4. CASE Exit
  <2>1. CASE Len(frames) = 1
    BY <1>2, <1>4, <2>1 DEF Exit
  <2>2. CASE Len(frames) # 1
    <3>1. thr' = thr /\ frames' = Popped(frames)
      BY <1>4, <2>2 DEF Exit
    <3>2. /\ frames' \in Seq(FrameContexts) /\ Len(frames') = Len(frames) - 1
          /\ \A k \in 1 .. Len(frames') : frames'[k] = frames[k] /\ k \in 1 .. Len(frames)
      <4>1. frames \in Seq(FrameContexts) /\ Len(frames) >= 1
        BY <1>0, <1>1 DEF ContextTypes
      <4> QED BY <3>1, <4>1, PoppedElements, ZenonT(30)
    <3>3. \A k \in 1 .. Len(frames') : FrameOK(k, frames'[k], current)
      BY <3>2, Zenon DEF ContextsOK
    <3> QED BY <1>3, <3>1, <3>2, <3>3
  <2> QED BY <2>1, <2>2
<1>5. CASE PollExecutor
  <2>1. Ctx.pc = "polls" /\ Len(frames) = 1
    BY <1>0, <1>1, <1>5 DEF PollExecutor, At, FrameOK
  <2>2. CASE UNCHANGED <<thr, frames>>
    BY <1>1, <2>2, ContextsKept
  <2>3. CASE Goto([Ctx EXCEPT !.pc = "swap"])
    BY <1>2, <2>1, <2>3
  <2>4. CASE /\ polls.items # <<>> /\ thr' = thr
             /\ frames' = Append(frames, Context(Head(polls.items), "body"))
    <3> DEFINE f == Context(Head(polls.items), "body")
    <3>1. Head(polls.items) \in Devices
      <4>1. polls.items \in Seq(Devices)
        BY DEF OtherTypes, Queues
      <4> QED BY <2>4, <4>1
    <3>2. f \in FrameContexts /\ FrameOK(2, f, current)
      BY <3>1 DEF FrameContexts, Context, FrameOK, Before, Blocking, Icbs, Times, NoTime, Null
    <3> HIDE DEF f
    <3>3. /\ frames' \in Seq(FrameContexts) /\ Len(frames') = 2
          /\ frames'[1] = frames[1] /\ frames'[2] = f
      <4>1. frames \in Seq(FrameContexts) /\ frames' = Append(frames, f)
        BY <2>4 DEF ContextTypes, f
      <4>2. Append(frames, f) \in Seq(FrameContexts) /\ Len(Append(frames, f)) = Len(frames) + 1
            /\ Append(frames, f)[Len(frames) + 1] = f
            /\ \A k \in 1 .. Len(frames) : Append(frames, f)[k] = frames[k]
        BY <3>2, <4>1
      <4> QED BY <2>1, <4>1, <4>2
    <3>4. FrameOK(1, frames[1], current)
      BY <2>1 DEF ContextsOK
    <3>5. \A k \in 1 .. Len(frames') : FrameOK(k, frames'[k], current)
      BY <3>2, <3>3, <3>4
    <3> QED BY <1>3, <2>4, <3>3, <3>5
  <2> QED BY <1>5, <2>2, <2>3, <2>4 DEF PollExecutor
<1>6. CASE SwapPending
  <2>1. Ctx.pc = "swap" /\ Len(frames) = 1
    BY <1>0, <1>1, <1>6 DEF SwapPending, At, FrameOK
  <2>2. CASE pendingKind = {}
    <3>1. Goto([Ctx EXCEPT !.pc = "again"])
      BY <1>6, <2>2 DEF SwapPending
    <3> QED BY <1>2, <2>1, <3>1
  <2>3. CASE pendingKind # {}
    <3> DEFINE d == Section(Ctx, "resched", Null, "again")
               c == [d EXCEPT !.kind = pendingKind]
    <3>1. d \in FrameContexts /\ FrameOK(1, d, current) /\ d.ret = "again" /\ d.pc = "acquire"
      <4>1. d \in FrameContexts /\ FrameOK(1, d, current)
        BY <1>0, <1>1, SectionFrame
      <4>2. d.ret = "again" /\ d.pc = "acquire"
        BY <1>0, <1>1 DEF Section, FrameContexts
      <4> QED BY <4>1, <4>2
    <3>2. Goto(c)
      BY <1>6, <2>3 DEF SwapPending
    <3> HIDE DEF d
    <3>3. c \in FrameContexts /\ FrameOK(1, c, current)
      <4>1. /\ c \in FrameContexts /\ c.pc = d.pc /\ c.op = d.op /\ c.arg = d.arg
            /\ c.ret = d.ret /\ c.icb = d.icb
        BY <3>1, Zenon DEF FrameContexts, OtherTypes
      <4> HIDE DEF c
      <4> QED BY <3>1, <4>1 DEF FrameOK, Before
    <3> HIDE DEF c
    <3> QED BY <1>0, <1>1, <2>1, <3>2, <3>3, GotoKeeps
  <2> QED BY <2>2, <2>3
<1>7. CASE Again
  <2>1. Ctx.pc = "again" /\ Len(frames) = 1
    BY <1>0, <1>1, <1>7 DEF Again, At, FrameOK
  <2>2. Goto([Ctx EXCEPT !.pc = "leave"]) \/ Goto([Ctx EXCEPT !.pc = "polls"])
    BY <1>7 DEF Again
  <2> QED BY <1>2, <2>1, <2>2
<1>8. CASE Leave
  <2>1. frames' = <<>> /\ thr' = thr
    BY <1>8 DEF Leave
  <2> QED BY <1>3, <2>1
<1> QED BY <1>4, <1>5, <1>6, <1>7, <1>8 DEF ExitStep

-----------------------------------------------------------------------------
(* Calls                                                                   *)

\* A context of the stack that has only a handler, or nothing, to run
LEMMA FreshFrame ==
  ASSUME NEW i \in Icbs, NEW pc \in {"body", "exit"}, pc = "body" => i \in Devices, NEW k, NEW cur
  PROVE  Context(i, pc) \in FrameContexts /\ FrameOK(k, Context(i, pc), cur)
<1>1. Context(i, pc) \in FrameContexts
  BY DEF FrameContexts, Context, Times, NoTime, Null
<1>2. FrameOK(k, Context(i, pc), cur)
  BY DEF FrameOK, Context, Before, Blocking
<1> QED BY <1>1, <1>2

\* Entry to an interrupt
LEMMA PushFrame ==
  ASSUME ContextTypes, ContextsOK, UNCHANGED <<scoped, saved, current, thr>>,
         NEW f \in FrameContexts, frames' = Append(frames, f),
         \A k \in Nat : FrameOK(k, f, current)
  PROVE  ContextTypes' /\ ContextsOK'
<1> DEFINE n == Len(frames)
<1>1. frames \in Seq(FrameContexts) /\ n \in Nat
  BY DEF ContextTypes
<1>2. /\ frames' \in Seq(FrameContexts) /\ Len(frames') = n + 1 /\ frames'[n + 1] = f
      /\ \A k \in 1 .. n : frames'[k] = frames[k]
  BY <1>1
<1>3. \A k \in 1 .. n : FrameOK(k, frames[k], current)
  BY Zenon DEF ContextsOK
<1> HIDE DEF n
<1>4. \A k \in 1 .. n + 1 : k \in Nat /\ (k = n + 1 \/ k \in 1 .. n)
  BY <1>1
<1>5. \A k \in 1 .. n + 1 : FrameOK(k, frames'[k], current')
  BY <1>2, <1>3, <1>4
<1> QED BY <1>2, <1>5 DEF ContextTypes, ContextsOK

\* Entry to a system call: the frames are fs, the caller goes on with c.
LEMMA EnterSyscall ==
  ASSUME ContextTypes, ContextsOK, UNCHANGED <<scoped, saved, current>>, current \in AllThreads,
         NEW c \in ThreadContexts, ThreadOK(c, scoped[current], saved[current]),
         thr' = [thr EXCEPT ![current] = c],
         frames' \in Seq(FrameContexts),
         \A k \in 1 .. Len(frames') : FrameOK(k, frames'[k], current)
  PROVE  ContextTypes' /\ ContextsOK'
<1>1. ASSUME NEW t \in AllThreads PROVE ThreadOK(thr'[t], scoped'[t], saved'[t])
  <2>1. thr'[t] = IF t = current THEN c ELSE thr[t]
    BY DEF ContextTypes
  <2>2. ThreadOK(thr[t], scoped[t], saved[t])
    BY Zenon DEF ContextsOK
  <2> QED BY <2>1, <2>2
<1> QED BY <1>1 DEF ContextTypes, ContextsOK

\* The entry to a blocking system call
LEMMA BlockingCall ==
  ASSUME ContextTypes, ContextsOK, current \in AllThreads, current # Idle,
         NEW op \in Blocking, NEW at \in Times \cup {NoTime}, NEW ret \in {"user", "clear"},
         Syscall(op, Null, at, ret)
  PROVE  ContextTypes' /\ ContextsOK'
<1> DEFINE c == Context(Null, ret)
           f == [Section(Context(SYSCALL, "body"), op, Null, "exit") EXCEPT !.at = at]
<1>1. /\ thr' = [thr EXCEPT ![current] = c] /\ frames' = <<f>>
      /\ UNCHANGED <<scoped, saved, current>>
  BY DEF Syscall, queueVars, lockVars
<1>2. c \in ThreadContexts /\ ThreadOK(c, scoped[current], saved[current])
  BY DEF ThreadContexts, ThreadOK, Context, Times, NoTime, InQueueSection
<1>3. /\ f \in FrameContexts /\ f.pc = "acquire" /\ f.op = op /\ f.ret = "exit" /\ f.arg = Null
  <2> DEFINE b == Context(SYSCALL, "body")
  <2>1. b \in FrameContexts
    BY DEF FrameContexts, Context, Icbs, Times, NoTime, Null
  <2>2. f = [Section(b, op, Null, "exit") EXCEPT !.at = at]
    OBVIOUS
  <2> HIDE DEF b, f
  <2>3. op \in {"delay", "wait_event", "wait", "suspend"}
    BY DEF Blocking
  <2>4. f \in FrameContexts
    BY <2>1, <2>2, <2>3 DEF FrameContexts, Section
  <2>5. f.pc = "acquire" /\ f.op = op /\ f.ret = "exit" /\ f.arg = Null
    BY <2>1, <2>2 DEF FrameContexts, Section
  <2> QED BY <2>4, <2>5
<1> HIDE DEF c, f
<1>4. FrameOK(1, f, current)
  BY <1>3 DEF FrameOK, Blocking
<1>5. frames' \in Seq(FrameContexts) /\ Len(frames') = 1 /\ frames'[1] = f
  BY <1>1, <1>3
<1>6. \A k \in 1 .. Len(frames') : FrameOK(k, frames'[k], current)
  BY <1>4, <1>5
<1> QED BY <1>1, <1>2, <1>5, <1>6, EnterSyscall, ZenonT(30)

\* release_nesting_lock
LEMMA RestoreContexts ==
  ASSUME ListTypes, ContextTypes, ContextsOK, OtherTypes, ~InIsr, RestoreNesting
  PROVE  ContextTypes' /\ ContextsOK'
<1> DEFINE c == Section(Ctx, "cond", Null, "cond")
<1>1. /\ Goto(c) /\ UNCHANGED <<scoped, current>>
      /\ \A t \in AllThreads : t # current => saved'[t] = saved[t]
  BY DEF RestoreNesting, queueVars, OtherTypes
<1>2. current \in AllThreads /\ Ctx \in ThreadContexts
  BY CtxFacts DEF ListTypes
<1>3. c \in ThreadContexts /\ ThreadOK(c, scoped[current], saved'[current])
  BY <1>2, SectionThread, ZenonT(30)
<1> HIDE DEF c
<1> QED BY <1>1, <1>2, <1>3, GotoOK

\* The services that follow a system call or a section keep the contexts in
\* order.
LEMMA ReturnStepContexts ==
  ASSUME ListTypes, ContextTypes, ContextsOK, OtherTypes, ReturnStep
  PROVE  ContextTypes' /\ ContextsOK'
<1>0. /\ current \in AllThreads
      /\ InIsr => Ctx \in FrameContexts /\ FrameOK(Len(frames), Ctx, current)
      /\ ~InIsr => Ctx \in ThreadContexts /\ ThreadOK(Ctx, scoped[current], saved[current])
  BY CtxFacts DEF ListTypes
<1>1. CASE ClearWaited
  <2>1. Goto(Return(Ctx)) /\ UNCHANGED <<scoped, saved, current>> /\ Ctx.pc = "clear"
    BY <1>1 DEF ClearWaited, At, queueVars, lockVars
  <2>2. ~InIsr
    BY <1>0, <2>1 DEF FrameContexts
  <2> QED BY <1>0, <2>1, <2>2, ReturnThread, GotoKeeps
<1>2. CASE SecondCond
  <2> DEFINE c == Section(Ctx, "cond", Null, "user")
  <2>1. Goto(c) /\ UNCHANGED <<scoped, saved, current>> /\ Ctx.pc = "cond"
    BY <1>2 DEF SecondCond, At, queueVars, lockVars
  <2>2. ~InIsr
    BY <1>0, <2>1 DEF FrameContexts
  <2>3. c \in ThreadContexts /\ ThreadOK(c, scoped[current], saved[current])
    BY <1>0, <2>2, SectionThread, ZenonT(30)
  <2> HIDE DEF c
  <2> QED BY <1>0, <2>1, <2>2, <2>3, GotoKeeps
<1>3. CASE NotifyNext
  <2>1. UNCHANGED <<scoped, saved, current>> /\ Ctx.pc = "notify"
    BY <1>3 DEF NotifyNext, At, queueVars, lockVars
  <2>2. /\ InIsr => Ctx.icb \in Devices
        /\ ~InIsr => saved[current] # <<>>
    BY <1>0, <2>1 DEF FrameOK, ThreadOK, InQueueSection
  <2>3. CASE waitq = <<>>
    <3> DEFINE c == [Ctx EXCEPT !.pc = "notified"]
    <3>1. Goto(c)
      BY <1>3, <2>3 DEF NotifyNext
    <3>2. InIsr => c \in FrameContexts /\ FrameOK(Len(frames), c, current)
      BY <1>0, <2>1 DEF FrameContexts, FrameOK, Before
    <3>3. ~InIsr => c \in ThreadContexts /\ ThreadOK(c, scoped[current], saved[current])
      BY <1>0, <2>1 DEF ThreadContexts, ThreadOK, Before, InQueueSection
    <3> HIDE DEF c
    <3> QED BY <1>0, <2>1, <3>1, <3>2, <3>3, GotoKeeps
  <2>4. CASE waitq # <<>>
    <3> DEFINE w == Head(waitq)
               c == Section(Ctx, "resume", w, "notify")
    <3>1. Goto(c)
      BY <1>3, <2>4 DEF NotifyNext
    <3>2. w \in Threads
      BY <2>4 DEF OtherTypes
    <3> HIDE DEF w
    <3>3. InIsr => c \in FrameContexts /\ FrameOK(Len(frames), c, current)
      BY <1>0, <2>2, <3>2, SectionFrame, ZenonT(30)
    <3>4. ~InIsr => c \in ThreadContexts /\ ThreadOK(c, scoped[current], saved[current])
      BY <1>0, <2>2, <3>2, SectionThread, ZenonT(30)
    <3> HIDE DEF c
    <3> QED BY <1>0, <2>1, <3>1, <3>3, <3>4, GotoKeeps
  <2> QED BY <2>3, <2>4
<1>4. CASE Notified
  <2>1. Ctx.pc = "notified"
    BY <1>4 DEF Notified, At
  <2>2. CASE InIsr
    <3>1. Ctx.icb \in Devices /\ Ctx.icb \in Icbs
      BY <1>0, <2>1, <2>2 DEF FrameOK, Icbs
    <3>2. /\ Context(Ctx.icb, "body") \in FrameContexts
          /\ FrameOK(Len(frames), Context(Ctx.icb, "body"), current)
      BY <3>1, FreshFrame
    <3>3. Goto(Context(Ctx.icb, "body")) /\ UNCHANGED <<scoped, saved, current>>
      BY <1>4, <2>2 DEF Notified, queueVars, lockVars
    <3> QED BY <1>0, <2>2, <3>2, <3>3, GotoKeeps
  <2>3. CASE ~InIsr
    <3>1. RestoreNesting
      BY <1>4, <2>3 DEF Notified
    <3> QED BY <2>3, <3>1, RestoreContexts
  <2> QED BY <2>2, <2>3
<1> QED BY <1>1, <1>2, <1>3, <1>4 DEF ReturnStep

\* The calls of threads keep the contexts in order.
LEMMA ThreadCallContexts ==
  ASSUME ListTypes, ContextTypes, ContextsOK, OtherTypes, ThreadCall
  PROVE  ContextTypes' /\ ContextsOK'
<1>0. /\ ~InIsr /\ current \in AllThreads
      /\ Ctx \in ThreadContexts /\ ThreadOK(Ctx, scoped[current], saved[current])
  <2>1. ~InIsr
    BY Zenon DEF ThreadCall, DelayUntil, WaitEvents, WaitEventsUntil, WaitInQueue, SuspendSelf,
           StartThread, Yield, PollNow, LockScoped, UnlockScoped, EnterNesting, LeaveNesting,
           HoldPreemption, UnholdPreemption, Blocks, Calls
  <2> QED BY <2>1, CtxFacts DEF ListTypes
<1>1. CASE DelayUntil
  <2>1. PICK d \in Times : Syscall("delay", Null, d, "user")
    BY <1>1 DEF DelayUntil
  <2>2. current # Idle /\ "delay" \in Blocking
    BY <1>1 DEF DelayUntil, Blocks, Blocking
  <2> QED BY <1>0, <2>1, <2>2, BlockingCall, ZenonT(30)
<1>2. CASE WaitEvents
  <2>1. current # Idle /\ Syscall("wait_event", Null, NoTime, "clear") /\ "wait_event" \in Blocking
    BY <1>2 DEF WaitEvents, Blocks, Blocking
  <2> QED BY <1>0, <2>1, BlockingCall, ZenonT(30)
<1>3. CASE WaitEventsUntil
  <2>1. PICK d \in Times : Syscall("wait_event", Null, d, "clear")
    BY <1>3 DEF WaitEventsUntil
  <2>2. current # Idle /\ "wait_event" \in Blocking
    BY <1>3 DEF WaitEventsUntil, Blocks, Blocking
  <2> QED BY <1>0, <2>1, <2>2, BlockingCall, ZenonT(30)
<1>4. CASE WaitInQueue
  <2>1. current # Idle /\ Syscall("wait", Null, NoTime, "user") /\ "wait" \in Blocking
    BY <1>4 DEF WaitInQueue, Blocks, Blocking
  <2> QED BY <1>0, <2>1, BlockingCall, Zenon
<1>5. CASE SuspendSelf
  <2>1. current # Idle /\ Syscall("suspend", Null, NoTime, "user") /\ "suspend" \in Blocking
    BY <1>5 DEF SuspendSelf, Blocks, Blocking
  <2> QED BY <1>0, <2>1, BlockingCall, ZenonT(30)
<1>6. ASSUME UNCHANGED <<scoped, saved, current, thr>>, frames' \in Seq(FrameContexts),
             \A k \in 1 .. Len(frames') : FrameOK(k, frames'[k], current)
      PROVE  ContextTypes' /\ ContextsOK'
  BY <1>6 DEF ContextTypes, ContextsOK
<1>7. CASE StartThread
  <2> DEFINE b == Context(SYSCALL, "body")
  <2>1. PICK t \in Threads : frames' = <<Section(b, "resume", t, "exit")>>
    BY <1>7 DEF StartThread
  <2> DEFINE f == Section(b, "resume", t, "exit")
  <2>2. UNCHANGED <<scoped, saved, current, thr>>
    BY <1>7 DEF StartThread, lockVars
  <2>3. b \in FrameContexts
    BY DEF FrameContexts, Context, Icbs, Times, NoTime, Null
  <2> HIDE DEF b
  <2>4. f \in FrameContexts
    BY <2>3 DEF FrameContexts, Section
  <2>5. FrameOK(1, f, current)
    BY <2>3 DEF Section, FrameOK, Blocking
  <2> HIDE DEF f
  <2>6. frames' \in Seq(FrameContexts) /\ Len(frames') = 1 /\ frames'[1] = f
    BY <2>1, <2>4 DEF f
  <2> QED BY <1>6, <2>2, <2>5, <2>6
<1>8. CASE Yield
  <2> DEFINE f == Context(SYSCALL, "exit")
  <2>1. frames' = <<f>> /\ UNCHANGED <<scoped, saved, current, thr>>
    BY <1>8 DEF Yield, queueVars, lockVars
  <2>2. f \in FrameContexts /\ FrameOK(1, f, current)
    BY FreshFrame DEF Icbs
  <2> HIDE DEF f
  <2>3. frames' \in Seq(FrameContexts) /\ Len(frames') = 1 /\ frames'[1] = f
    BY <2>1, <2>2
  <2> QED BY <1>6, <2>1, <2>2, <2>3
<1>9. CASE PollNow
  <2> DEFINE f == Context(SYSCALL, "exit")
  <2>1. PICK i \in Devices : frames' = <<f, Context(i, "body")>>
    BY <1>9 DEF PollNow
  <2> DEFINE g == Context(i, "body")
  <2>2. UNCHANGED <<scoped, saved, current, thr>>
    BY <1>9 DEF PollNow, queueVars, lockVars
  <2>3. f \in FrameContexts /\ FrameOK(1, f, current)
    BY FreshFrame DEF Icbs
  <2>4. g \in FrameContexts /\ FrameOK(2, g, current)
    BY FreshFrame DEF Icbs
  <2> HIDE DEF f
  <2>5. frames' = <<f, g>>
    BY <2>1
  <2> HIDE DEF g
  <2>6. frames' \in Seq(FrameContexts) /\ Len(frames') = 2 /\ frames'[1] = f /\ frames'[2] = g
    BY <2>3, <2>4, <2>5
  <2>7. \A k \in 1 .. 2 : k = 1 \/ k = 2
    OBVIOUS
  <2>8. \A k \in 1 .. Len(frames') : FrameOK(k, frames'[k], current)
    BY <2>3, <2>4, <2>6, <2>7
  <2> QED BY <1>6, <2>2, <2>6, <2>8
<1>10. CASE LockScoped
  <2>1. PICK l \in Locks : Goto(Section(Ctx, "lock", l, "user"))
    BY <1>10 DEF LockScoped
  <2>2. UNCHANGED <<scoped, saved, current>>
    BY <1>10 DEF LockScoped, queueVars, lockVars
  <2> DEFINE c == Section(Ctx, "lock", l, "user")
  <2>3. c \in ThreadContexts /\ ThreadOK(c, scoped[current], saved[current])
    BY <1>0, SectionThread, ZenonT(30)
  <2>4. Goto(c)
    BY <2>1
  <2> HIDE DEF c
  <2> QED BY <1>0, <2>2, <2>3, <2>4, GotoKeeps
<1>11. CASE UnlockScoped
  <2>1. PICK l \in Items(scoped[current]) : Goto(Section(Ctx, "unlock", l, "user"))
    BY <1>11 DEF UnlockScoped
  <2>2. UNCHANGED <<scoped, saved, current>>
    BY <1>11 DEF UnlockScoped, queueVars, lockVars
  <2> DEFINE c == Section(Ctx, "unlock", l, "user")
  <2>3. l \in Locks
    <3>1. scoped[current] \in Seq(Locks)
      BY <1>0 DEF ListTypes
    <3> QED BY <3>1 DEF Items
  <2>4. c \in ThreadContexts /\ ThreadOK(c, scoped[current], saved[current])
    BY <1>0, <2>3, SectionThread, ZenonT(30)
  <2>5. Goto(c)
    BY <2>1
  <2> HIDE DEF c
  <2> QED BY <1>0, <2>2, <2>4, <2>5, GotoKeeps
<1>12. CASE EnterNesting
  <2>1. /\ UNCHANGED <<scoped, current, thr, frames>>
        /\ saved' = [saved EXCEPT ![current] = Append(@, section[current])]
    BY <1>12 DEF EnterNesting, RaiseNesting, queueVars
  <2>2. ASSUME NEW t \in AllThreads PROVE ThreadOK(thr'[t], scoped'[t], saved'[t])
    <3>1. saved'[t] = saved[t] \/ saved'[t] # <<>>
      <4>1. saved[current] \in Seq(Nat \cup {INVALID}) /\ section[current] \in Nat \cup {INVALID}
        BY <1>0 DEF OtherTypes, ListTypes
      <4>2. Append(saved[current], section[current]) # <<>>
        BY <4>1
      <4> QED BY <1>0, <2>1, <4>2 DEF OtherTypes
    <3>2. ThreadOK(thr[t], scoped[t], saved[t])
      BY ZenonT(30) DEF ContextsOK
    <3> QED BY <2>1, <3>1, <3>2 DEF ThreadOK
  <2> QED BY <2>1, <2>2 DEF ContextTypes, ContextsOK
<1>13. CASE LeaveNesting
  BY <1>0, <1>13, RestoreContexts DEF LeaveNesting
<1>14. CASE HoldPreemption
  BY <1>14, ContextsKept DEF HoldPreemption, queueVars, lockVars
<1>15. CASE UnholdPreemption
  <2>1. Goto(Release(Ctx)) /\ UNCHANGED <<scoped, saved, current>>
    BY <1>15 DEF UnholdPreemption, queueVars, lockVars
  <2> QED BY <1>0, <2>1, ReturnThread, GotoKeeps
<1> QED BY <1>1, <1>2, <1>3, <1>4, <1>5, <1>7, <1>8, <1>9, <1>10, <1>11, <1>12, <1>13,
           <1>14, <1>15 DEF ThreadCall

\* The calls of handlers keep the contexts in order.
LEMMA HandlerCallContexts ==
  ASSUME ListTypes, ContextTypes, ContextsOK, OtherTypes, HandlerCall
  PROVE  ContextTypes' /\ ContextsOK'
<1>0. /\ current \in AllThreads
      /\ InIsr => Ctx \in FrameContexts /\ FrameOK(Len(frames), Ctx, current)
      /\ ~InIsr => Ctx \in ThreadContexts
  BY CtxFacts DEF ListTypes
<1>1. CASE SleepUntil
  <2> DEFINE c == Section(Ctx, "sleep", Ctx.icb, "body")
  <2>1. /\ Goto(c) /\ UNCHANGED <<scoped, saved, current>> /\ Ctx.pc = "body" /\ InIsr
    BY <1>1 DEF SleepUntil, MayCall, At, queueVars, lockVars
  <2>2. Ctx.icb \in Devices
    BY <1>0, <2>1 DEF FrameOK
  <2>3. c \in FrameContexts /\ FrameOK(Len(frames), c, current)
    BY <1>0, <2>1, <2>2, SectionFrame, ZenonT(30)
  <2> HIDE DEF c
  <2> QED BY <1>0, <2>1, <2>3, GotoKeeps
<1>2. CASE WakeExecutor
  BY <1>2, ContextsKept DEF WakeExecutor, queueVars, lockVars
<1>3. CASE HandlerReturns
  <2> DEFINE c == [Ctx EXCEPT !.pc = "exit"]
  <2>1. Goto(c) /\ UNCHANGED <<scoped, saved, current>> /\ Ctx.pc = "body"
    BY <1>3 DEF HandlerReturns, At, queueVars, lockVars
  <2>2. InIsr
    BY <1>0, <2>1 DEF ThreadContexts
  <2>3. c \in FrameContexts /\ FrameOK(Len(frames), c, current)
    BY <1>0, <2>1, <2>2 DEF FrameContexts, FrameOK, Before
  <2> HIDE DEF c
  <2> QED BY <1>0, <2>1, <2>2, <2>3, GotoKeeps
<1> QED BY <1>1, <1>2, <1>3 DEF HandlerCall
=============================================================================
