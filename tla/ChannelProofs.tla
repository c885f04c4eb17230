--------------------------- MODULE ChannelProofs ----------------------------
(***************************************************************************)
(* The channel implements the bounded queue of Fifo, for every capacity,   *)
(* every set of users and every order of their priorities; and the user of *)
(* highest priority is not left waiting.                                   *)
(***************************************************************************)
EXTENDS Channel, KernelListProofs

\* More time for the provers than they have by default
USE SMTT(30), ZenonT(30)

\* The head of the ring buffer is behind its last item.
RingOK == head = (tail + used) % Capacity

\* Only those who wait are in a wait queue: once, and in that of their call.
Queued ==
  \A c \in Condvars :
    /\ Distinct(waiters[c])
    /\ \A u \in Items(waiters[c]) : pc[u] = "waiting" /\ Own(op[u]) = c

\* User t has an item that it has yet to push.
Sending(t) ==
  op[t] \in Sends /\ pc[t] \in {"call", "check", "act", "wait", "waiting", "relock"}

\* An item has entered the channel.
Sent(x) == x \in Items(Contents) \/ x \in Items(received)

\* Items are handed out one after the other, and one that is yet to be pushed is new
\* and has one sender.
Fresh ==
  /\ \A x \in Values : Sent(x) => x <= count
  /\ \A t \in Users : Sending(t) => item[t] \in 1 .. count /\ ~Sent(item[t])
  /\ \A t, u \in Users : Sending(t) /\ Sending(u) /\ item[t] = item[u] => t = u

\* The items in the ring buffer have been sent.
Filled == Contents \in Seq(Values)

IInv ==
  /\ TypeOK /\ prio \in [Users -> Nat]
  /\ RingOK /\ Filled /\ Queued /\ Fresh

\* Only a user inside a call holds the mutex.
Inside == \A t \in Users : owner["fifo"] = t => pc[t] \in {"check", "act", "release"}

\* From its check on, the condition that user t waits for cannot change without
\* t being the one that is notified.
TopWaits(t) ==
  /\ pc[t] = "wait" => owner["fifo"] = Nobody /\ Unable(op[t])
  /\ pc[t] = "waiting" => /\ Unable(op[t])
                          /\ waiters[Own(op[t])] # <<>> /\ Head(waiters[Own(op[t])]) = t

\* Users are threads: none of them awaits an item.
NoAsync == \A t \in Users : "async_recv" \notin Calls[t]

TInv ==
  /\ IInv /\ Inside
  /\ \A t \in Users : op[t] # "async_recv" /\ (OnTop(t) => TopWaits(t))

-----------------------------------------------------------------------------
(* The ring buffer                                                         *)

Slots == 0 .. Capacity - 1

\* n items from slot t on
Window(sl, t, n) == [k \in 1 .. n |-> sl[(t + k - 1) % Capacity]]

LEMMA CapacityType == Capacity \in Nat /\ Capacity >= 1
BY ChannelAssumption

\* An index that has run past the end of the buffer goes on at its start.
LEMMA Wrap ==
  ASSUME NEW a \in Slots, NEW b \in 0 .. Capacity
  PROVE  \E c \in Slots : /\ c = (a + b) % Capacity
                         /\ c = IF a + b < Capacity THEN a + b ELSE a + b - Capacity
BY CapacityType DEF Slots

\* A sequence is a function of its indices.
LEMMA SeqFunction ==
  ASSUME NEW S, NEW s \in Seq(S)
  PROVE  s = [k \in 1 .. Len(s) |-> s[k]]
OBVIOUS

LEMMA AppendOf ==
  ASSUME NEW S, NEW s \in Seq(S), NEW x \in S
  PROVE  /\ Append(s, x) \in Seq(S) /\ Len(Append(s, x)) = Len(s) + 1 /\ Len(s) \in Nat
         /\ \A k \in 1 .. Len(s) + 1 : Append(s, x)[k] = IF k = Len(s) + 1 THEN x ELSE s[k]
OBVIOUS

LEMMA TailOf ==
  ASSUME NEW S, NEW s \in Seq(S), s # <<>>
  PROVE  /\ Tail(s) \in Seq(S) /\ Len(Tail(s)) = Len(s) - 1 /\ Len(s) \in Nat
         /\ \A k \in 1 .. Len(s) - 1 : Tail(s)[k] = s[k + 1]
         /\ Head(s) = s[1] /\ Head(s) \in S /\ Len(s) >= 1
OBVIOUS

\* push_to_slice appends to the window.
LEMMA WindowPush ==
  ASSUME NEW sl, NEW t \in Slots, NEW n \in 0 .. Capacity - 1,
         NEW S, NEW x \in S, Window(sl, t, n) \in Seq(S),
         NEW h, h = (t + n) % Capacity, NEW g, g = (h + 1) % Capacity,
         NEW new, \A k \in Slots : new[k] = IF k = h THEN x ELSE sl[k]
  PROVE  /\ Window(new, t, n + 1) = Append(Window(sl, t, n), x)
         /\ h \in Slots /\ g \in Slots
         /\ g = (t + (n + 1)) % Capacity
<1> DEFINE old == Window(sl, t, n)
<1>1. n \in 0 .. Capacity /\ n + 1 \in 0 .. Capacity /\ 1 \in 0 .. Capacity
  BY CapacityType
<1>2. h \in Slots /\ h = IF t + n < Capacity THEN t + n ELSE t + n - Capacity
  BY <1>1, Wrap
<1>3. g = (t + (n + 1)) % Capacity /\ g \in Slots
  <2>1. PICK a \in Slots : /\ a = (h + 1) % Capacity
                           /\ a = IF h + 1 < Capacity THEN h + 1 ELSE h + 1 - Capacity
    BY <1>1, <1>2, Wrap, Zenon
  <2>2. PICK b \in Slots : /\ b = (t + (n + 1)) % Capacity
                           /\ b = IF t + (n + 1) < Capacity THEN t + (n + 1)
                                  ELSE t + (n + 1) - Capacity
    BY <1>1, Wrap
  <2>3. a = IF h + 1 < Capacity THEN h + 1 ELSE h + 1 - Capacity
    BY <2>1
  <2>4. b = IF t + (n + 1) < Capacity THEN t + (n + 1) ELSE t + (n + 1) - Capacity
    BY <2>2
  <2>5. a = b
    BY <1>2, <2>3, <2>4, CapacityType DEF Slots
  <2> QED BY <2>1, <2>2, <2>5
<1>4. ASSUME NEW k \in 1 .. n + 1
      PROVE  new[(t + k - 1) % Capacity] = IF k = n + 1 THEN x ELSE sl[(t + k - 1) % Capacity]
  <2>1. k - 1 \in 0 .. Capacity /\ t + k - 1 = t + (k - 1)
    BY CapacityType DEF Slots
  <2>2. PICK a \in Slots : /\ a = (t + (k - 1)) % Capacity
                           /\ a = IF t + (k - 1) < Capacity THEN t + (k - 1)
                                  ELSE t + (k - 1) - Capacity
    BY <2>1, Wrap
  <2>3. a = IF t + (k - 1) < Capacity THEN t + (k - 1) ELSE t + (k - 1) - Capacity
    BY <2>2
  <2>4. a = h <=> k = n + 1
    BY <1>2, <2>3, CapacityType DEF Slots
  <2>5. new[a] = IF k = n + 1 THEN x ELSE sl[a]
    BY <2>4
  <2> QED BY <2>1, <2>2, <2>5
<1>5. /\ old \in Seq(S) /\ Len(old) = n
      /\ \A k \in 1 .. n : old[k] = sl[(t + k - 1) % Capacity]
  BY CapacityType DEF Window
<1> HIDE DEF old
<1>6. ASSUME NEW k \in 1 .. n + 1 PROVE new[(t + k - 1) % Capacity] = Append(old, x)[k]
  <2>1. Append(old, x)[k] = IF k = n + 1 THEN x ELSE old[k]
    <3>1. k \in 1 .. Len(old) + 1
      BY <1>5
    <3> QED BY <1>5, <3>1, AppendOf
  <2>2. k # n + 1 => k \in 1 .. n
    OBVIOUS
  <2> QED BY <1>4, <1>5, <2>1, <2>2
<1>7. [k \in 1 .. n + 1 |-> new[(t + k - 1) % Capacity]] = Append(old, x)
  <2>1. Append(old, x) = [k \in 1 .. n + 1 |-> Append(old, x)[k]]
    <3>1. Append(old, x) \in Seq(S) /\ Len(Append(old, x)) = n + 1
      BY <1>5, AppendOf
    <3> QED BY <3>1, SeqFunction, Zenon
  <2> QED BY <1>6, <2>1, Zenon
<1> QED BY <1>2, <1>3, <1>7, Zenon DEF Window, old

\* pop_from_slice takes the first item of the window.
LEMMA WindowPop ==
  ASSUME NEW sl, NEW t \in Slots, NEW n \in 1 .. Capacity, NEW S, Window(sl, t, n) \in Seq(S),
         NEW u, u = (t + 1) % Capacity
  PROVE  /\ Window(sl, t, n) # <<>> /\ sl[t] = Head(Window(sl, t, n))
         /\ Window(sl, u, n - 1) = Tail(Window(sl, t, n))
         /\ u \in Slots
         /\ (t + n) % Capacity = (u + (n - 1)) % Capacity
<1> DEFINE old == Window(sl, t, n)
<1>1. 1 \in 0 .. Capacity /\ 0 \in 0 .. Capacity /\ n - 1 \in 0 .. n - 1
  BY CapacityType
<1>2. u \in Slots /\ u = IF t + 1 < Capacity THEN t + 1 ELSE t + 1 - Capacity
  BY <1>1, Wrap
<1>3. ASSUME NEW k \in 0 .. n - 1
      PROVE  (u + k) % Capacity = (t + (k + 1)) % Capacity
  <2>1. k \in 0 .. Capacity /\ k + 1 \in 0 .. Capacity
    BY CapacityType
  <2>2. PICK a \in Slots : /\ a = (u + k) % Capacity
                           /\ a = IF u + k < Capacity THEN u + k ELSE u + k - Capacity
    BY <1>2, <2>1, Wrap, Zenon
  <2>3. PICK b \in Slots : /\ b = (t + (k + 1)) % Capacity
                           /\ b = IF t + (k + 1) < Capacity THEN t + (k + 1)
                                  ELSE t + (k + 1) - Capacity
    BY <2>1, Wrap
  <2>4. a = IF u + k < Capacity THEN u + k ELSE u + k - Capacity
    BY <2>2
  <2>5. b = IF t + (k + 1) < Capacity THEN t + (k + 1) ELSE t + (k + 1) - Capacity
    BY <2>3
  <2>6. a = b
    BY <1>2, <2>4, <2>5, CapacityType DEF Slots
  <2> QED BY <2>2, <2>3, <2>6
<1>4. (t + 1 - 1) % Capacity = t
  <2>1. PICK a \in Slots : /\ a = (t + 0) % Capacity
                           /\ a = IF t + 0 < Capacity THEN t + 0 ELSE t + 0 - Capacity
    BY <1>1, Wrap
  <2>3. a = IF t + 0 < Capacity THEN t + 0 ELSE t + 0 - Capacity
    BY <2>1
  <2>4. a = t
    BY <2>3, CapacityType DEF Slots
  <2>2. t + 1 - 1 = t + 0
    BY DEF Slots
  <2> QED BY <2>1, <2>2, <2>4
<1>5. /\ old \in Seq(S) /\ Len(old) = n
      /\ \A k \in 1 .. n : old[k] = sl[(t + k - 1) % Capacity]
  BY CapacityType DEF Window
<1> HIDE DEF old
<1>6. old # <<>> /\ Head(old) = sl[t]
  <2>1. old # <<>> /\ Head(old) = old[1] /\ 1 \in 1 .. n
    BY <1>5, CapacityType
  <2> QED BY <1>4, <1>5, <2>1
<1>7. ASSUME NEW k \in 1 .. n - 1 PROVE sl[(u + k - 1) % Capacity] = Tail(old)[k]
  <2>1. /\ u + k - 1 = u + (k - 1) /\ t + (k + 1) - 1 = t + ((k - 1) + 1)
        /\ k - 1 \in 0 .. n - 1 /\ k + 1 \in 1 .. n
    BY <1>2, CapacityType DEF Slots
  <2>2. Tail(old)[k] = old[k + 1]
    BY <1>5, <1>6, CapacityType
  <2>3. (u + (k - 1)) % Capacity = (t + ((k - 1) + 1)) % Capacity
    BY <1>3, <2>1
  <2>4. old[k + 1] = sl[(t + (k + 1) - 1) % Capacity]
    BY <1>5, <2>1
  <2> QED BY <2>1, <2>2, <2>3, <2>4, Zenon
<1>8. [k \in 1 .. n - 1 |-> sl[(u + k - 1) % Capacity]] = Tail(old)
  <2>1. Tail(old) = [k \in 1 .. n - 1 |-> Tail(old)[k]]
    <3>1. Tail(old) \in Seq(S) /\ Len(Tail(old)) = n - 1
      BY <1>5, <1>6, TailOf
    <3> QED BY <3>1, SeqFunction, Zenon
  <2> QED BY <1>7, <2>1, Zenon
<1>9. (t + n) % Capacity = (u + (n - 1)) % Capacity
  <2>1. (u + (n - 1)) % Capacity = (t + ((n - 1) + 1)) % Capacity
    BY <1>1, <1>3
  <2>2. (n - 1) + 1 = n
    BY CapacityType
  <2> QED BY <2>1, <2>2
<1> QED BY <1>2, <1>6, <1>8, <1>9, Zenon DEF Window, old

-----------------------------------------------------------------------------
(* The wait queues                                                         *)

LEMMA CondvarsOf ==
  ASSUME NEW o
  PROVE  Own(o) \in Condvars /\ Other(o) \in Condvars /\ Own(o) # Other(o) /\ "fifo" \in Mutexes
BY ChannelAssumption DEF Own, Other

\* The users in a queue
LEMMA QueuedUsers ==
  ASSUME waiters \in [Condvars -> Seq(Users)], Queued, NEW c \in Condvars
  PROVE  /\ waiters[c] \in Seq(Users) /\ Distinct(waiters[c])
         /\ \A u \in Items(waiters[c]) : u \in Users /\ pc[u] = "waiting" /\ Own(op[u]) = c
<1>1. waiters[c] \in Seq(Users)
  OBVIOUS
<1>2. /\ Distinct(waiters[c])
      /\ \A u \in Items(waiters[c]) : pc[u] = "waiting" /\ Own(op[u]) = c
  BY Zenon DEF Queued
<1>3. \A s \in Seq(Users) : \A u \in Items(s) : u \in Users
  BY DEF Items
<1> QED BY <1>1, <1>2, <1>3, Zenon

\* The queues are kept by a step that leaves them, and those who wait, alone.
LEMMA QueuedKept ==
  ASSUME Queued, waiters' = waiters,
         \A u \in Users : pc[u] = "waiting" => pc'[u] = "waiting" /\ op'[u] = op[u],
         waiters \in [Condvars -> Seq(Users)]
  PROVE  Queued'
<1> SUFFICES ASSUME NEW c \in Condvars
             PROVE  /\ Distinct(waiters[c])
                    /\ \A u \in Items(waiters[c]) : pc'[u] = "waiting" /\ Own(op'[u]) = c
  BY DEF Queued
<1>1. /\ Distinct(waiters[c])
      /\ \A u \in Items(waiters[c]) : u \in Users /\ pc[u] = "waiting" /\ Own(op[u]) = c
  BY QueuedUsers, Zenon
<1> QED BY <1>1

\* A user that waits is added to the queue of its call, wherever that may be.
LEMMA WaitQueued ==
  ASSUME TypeOK, Queued, NEW t \in Users, Wait(t)
  PROVE  Queued' /\ waiters' \in [Condvars -> Seq(Users)]
<1> DEFINE c == Own(op[t])
           new == waiters'[c]
<1>1. c \in Condvars /\ waiters[c] \in Seq(Users) /\ Distinct(waiters[c])
  BY CondvarsOf DEF TypeOK, Queued
<1>2. t \notin Items(waiters[c])
  BY <1>1 DEF Queued, Wait, At
<1>3. waiters' = [waiters EXCEPT ![c] = new]
  BY <1>1, Zenon DEF Wait, Enqueued, EnqueuedLast, TypeOK
<1>4. new \in Seq(Users) /\ Items(new) = Items(waiters[c]) \cup {t} /\ Distinct(new)
  <2>1. CASE op[t] = "async_recv"
    <3>1. new = Append(waiters[c], t)
      BY <1>1, <2>1 DEF Wait, EnqueuedLast, TypeOK
    <3> HIDE DEF new, c
    <3> QED BY <1>1, <1>2, <3>1, AppendItems
  <2>2. CASE op[t] # "async_recv"
    <3>1. new = InsertAfter(waiters[c], t, {u \in Users : prio[u] >= prio[t]})
      BY <1>1, <2>2 DEF Wait, Enqueued, TypeOK
    <3> HIDE DEF new, c
    <3> QED BY <1>1, <1>2, <3>1, InsertAfterItems
  <2> QED BY <2>1, <2>2
<1> HIDE DEF new
<1>5. waiters' \in [Condvars -> Seq(Users)]
  BY <1>1, <1>3, <1>4 DEF TypeOK
<1>6. /\ pc'[t] = "waiting" /\ op' = op
      /\ \A u \in Users : pc[u] = "waiting" => pc'[u] = "waiting"
  BY DEF Wait, Go
<1> SUFFICES ASSUME NEW d \in Condvars
             PROVE  /\ Distinct(waiters'[d])
                    /\ \A u \in Items(waiters'[d]) : pc'[u] = "waiting" /\ Own(op[u]) = d
  BY <1>5, <1>6 DEF Queued
<1>7. \A u \in Items(waiters[d]) : u \in Users /\ pc[u] = "waiting" /\ Own(op[u]) = d
  BY QueuedUsers, Zenon DEF TypeOK
<1>8. Distinct(waiters[d])
  BY QueuedUsers, Zenon DEF TypeOK
<1>9. CASE d = c
  <2>1. waiters'[d] = new
    BY <1>9 DEF new
  <2> QED BY <1>4, <1>6, <1>7, <1>9, <2>1
<1>10. CASE d # c
  <2>1. waiters'[d] = waiters[d]
    BY <1>3, <1>10 DEF TypeOK
  <2> QED BY <1>6, <1>7, <1>8, <2>1
<1> QED BY <1>9, <1>10

\* notify_one takes one user from its queue, and from no other.
LEMMA ActQueued ==
  ASSUME TypeOK, Queued, NEW t \in Users, Act(t)
  PROVE  /\ Queued' /\ waiters' \in [Condvars -> Seq(Users)]
         /\ Resumed(Other(op[t])) \subseteq {u \in Users : pc[u] = "waiting"}
<1> DEFINE d == Other(op[t])
           old == waiters[d]
<1>1. d \in Condvars /\ old \in Seq(Users) /\ Distinct(old)
  BY CondvarsOf DEF TypeOK, Queued
<1>2. /\ waiters' = [waiters EXCEPT ![d] = IF old = <<>> THEN old ELSE Tail(old)]
      /\ pc' = [u \in Users |-> IF u \in Resumed(d) THEN "relock"
                               ELSE IF u = t THEN "release" ELSE pc[u]]
      /\ op' = op /\ pc[t] = "act"
  BY DEF Act, Go, Notified, At
<1>3. \A c \in Condvars : /\ Distinct(waiters[c]) /\ waiters[c] \in Seq(Users)
                          /\ \A u \in Items(waiters[c]) : /\ u \in Users /\ pc[u] = "waiting"
                                                          /\ Own(op[u]) = c
  BY QueuedUsers, Zenon DEF TypeOK
<1> HIDE DEF d
<1>4. CASE old = <<>>
  <2>1. Resumed(d) = {} /\ waiters' = waiters
    BY <1>1, <1>2, <1>4 DEF Resumed, TypeOK
  <2>2. \A u \in Users : pc[u] = "waiting" => pc'[u] = "waiting"
    BY <1>2, <2>1
  <2> QED BY <1>2, <2>1, <2>2, QueuedKept, Zenon DEF TypeOK, d
<1>5. CASE old # <<>>
  <2>1. /\ Tail(old) \in Seq(Users) /\ Head(old) \in Items(old)
        /\ Items(Tail(old)) = Items(old) \ {Head(old)} /\ Distinct(Tail(old))
    BY <1>1, <1>5, TailItems
  <2>2. Resumed(d) = {Head(old)}
    BY <1>5 DEF Resumed
  <2>3. waiters' \in [Condvars -> Seq(Users)]
    BY <1>1, <1>2, <2>1 DEF TypeOK
  <2>4. Head(old) \in Users /\ pc[Head(old)] = "waiting" /\ Own(op[Head(old)]) = d
    BY <1>1, <1>3, <2>1
  <2>5. ASSUME NEW c \in Condvars
        PROVE  /\ Distinct(waiters'[c])
               /\ \A u \in Items(waiters'[c]) : pc'[u] = "waiting" /\ Own(op[u]) = c
    <3>1. CASE c = d
      <4>1. waiters'[c] = Tail(old)
        BY <1>1, <1>2, <1>5, <3>1 DEF TypeOK
      <4>2. \A u \in Items(old) : u \in Users /\ pc[u] = "waiting" /\ Own(op[u]) = c
        BY <1>3, <3>1
      <4> HIDE DEF old
      <4> QED BY <1>2, <2>1, <2>2, <4>1, <4>2, Zenon
    <3>2. CASE c # d
      <4>1. waiters'[c] = waiters[c]
        BY <1>2, <3>2 DEF TypeOK
      <4> QED BY <1>2, <1>3, <2>2, <2>4, <3>2, <4>1
    <3> QED BY <3>1, <3>2
  <2>6. Queued'
    BY <1>2, <2>5 DEF Queued
  <2> QED BY <2>2, <2>3, <2>4, <2>6 DEF d
<1> QED BY <1>4, <1>5

-----------------------------------------------------------------------------
(* Every step keeps IInv                                                   *)

\* What the ring buffer holds is what the invariant says of Window.
LEMMA ContentsWindow == Contents = Window(slots, tail, used)
BY Zenon DEF Contents, Window

\* Nothing becomes stale by a step that neither sends, receives nor begins a call.
LEMMA FreshKept ==
  ASSUME Fresh, UNCHANGED <<fifoVars, item, count, received>>,
         \A u \in Users : Sending(u)' => Sending(u)
  PROVE  Fresh' /\ Contents' = Contents
<1>1. Contents' = Contents
  BY Zenon DEF Contents, fifoVars
<1>2. \A x : Sent(x)' <=> Sent(x)
  BY <1>1, Zenon DEF Sent
<1> QED BY <1>1, <1>2 DEF Fresh

LEMMA QuietStep ==
  ASSUME IInv, NEW t \in Users,
         Call(t) \/ Check(t) \/ Wait(t) \/ Relock(t) \/ Release(t)
  PROVE  IInv'
<1>1. /\ UNCHANGED <<prio, fifoVars, op, item, count, received>>
      /\ pc[t] \in {"call", "check", "wait", "relock", "release"}
      /\ \/ pc[t] # "release" /\ pc'[t] \in {"check", "act", "wait", "waiting", "release"}
         \/ pc[t] = "release" /\ pc'[t] = "idle"
      /\ pc' = [u \in Users |-> IF u = t THEN pc'[t] ELSE pc[u]]
  BY DEF Call, Check, Wait, Relock, Release, Go, At
<1>2. owner' \in [Mutexes -> Users \cup {Nobody}]
  BY Zenon DEF IInv, TypeOK, Call, Check, Wait, Relock, Release, Locked, Unlocked
<1>3. Queued' /\ waiters' \in [Condvars -> Seq(Users)]
  <2>1. CASE Wait(t)
    BY <2>1, WaitQueued DEF IInv
  <2>2. CASE ~Wait(t)
    <3>1. waiters' = waiters
      BY <2>2 DEF Call, Check, Relock, Release
    <3>2. \A u \in Users : pc[u] = "waiting" => pc'[u] = "waiting" /\ op'[u] = op[u]
      BY <1>1
    <3> QED BY <3>1, <3>2, QueuedKept DEF IInv, TypeOK
  <2> QED BY <2>1, <2>2
<1>4. \A u \in Users : Sending(u)' => Sending(u)
  BY <1>1 DEF Sending
<1>5. Fresh' /\ Contents' = Contents
  BY <1>1, <1>4, FreshKept DEF IInv
<1>6. pc' \in [Users -> {"idle", "call", "check", "act", "wait", "waiting", "relock", "release"}]
  BY <1>1 DEF IInv, TypeOK
<1>7. TypeOK' /\ prio' \in [Users -> Nat] /\ RingOK'
  BY <1>1, <1>2, <1>3, <1>6 DEF IInv, TypeOK, RingOK, fifoVars
<1> QED BY <1>3, <1>5, <1>7 DEF IInv, Filled

LEMMA WakeStep ==
  ASSUME IInv, NEW t \in Users, Wake(t)
  PROVE  IInv'
<1>1. PICK o \in Calls[t] :
        /\ op' = [op EXCEPT ![t] = o]
        /\ IF o \in Sends
           THEN /\ count < MaxItems /\ count' = count + 1
                /\ item' = [item EXCEPT ![t] = count + 1]
           ELSE count' = count /\ item' = item
  BY Zenon DEF Wake
<1>2. o \in Sends \cup Receives
  BY ChannelAssumption
<1>3. /\ UNCHANGED <<prio, owner, waiters, fifoVars, received>> /\ pc[t] = "idle"
      /\ pc' = [pc EXCEPT ![t] = "call"]
  BY Zenon DEF Wake, Go, IInv, TypeOK
<1>4. count' \in 0 .. MaxItems /\ item' \in [Users -> Values \cup {NoItem}]
  <2>1. CASE o \notin Sends
    BY <1>1, <2>1 DEF IInv, TypeOK
  <2>2. CASE o \in Sends
    <3>1. count + 1 \in Values /\ count' \in 0 .. MaxItems
      BY <1>1, <2>2, ChannelAssumption DEF IInv, TypeOK, Values
    <3> QED BY <1>1, <2>2, <3>1, Zenon DEF IInv, TypeOK
  <2> QED BY <2>1, <2>2
<1>5. TypeOK' /\ prio' \in [Users -> Nat] /\ RingOK'
  BY <1>1, <1>2, <1>3, <1>4, Zenon DEF IInv, TypeOK, RingOK, fifoVars
<1>6. \A u \in Users : pc[u] = "waiting" => pc'[u] = "waiting" /\ op'[u] = op[u]
  BY <1>1, <1>3 DEF IInv, TypeOK
<1>7. Queued'
  BY <1>3, <1>6, QueuedKept DEF IInv, TypeOK
<1>8. Contents' = Contents
  BY <1>3, Zenon DEF Contents, fifoVars
<1>9. \A x : Sent(x)' <=> Sent(x)
  BY <1>3, <1>8, Zenon DEF Sent
<1>10. \A u \in Users \ {t} : /\ Sending(u)' <=> Sending(u)
                              /\ item'[u] = item[u]
  BY <1>1, <1>3 DEF Sending, IInv, TypeOK
<1>11. Fresh'
  <2>1. CASE o \notin Sends
    <3>1. ~Sending(t)'
      BY <1>1, <2>1 DEF Sending, IInv, TypeOK
    <3>2. count' = count
      BY <1>1, <2>1
    <3> QED BY <1>9, <1>10, <3>1, <3>2 DEF Fresh, IInv
  <2>2. CASE o \in Sends
    <3>1. count \in Nat /\ count' = count + 1 /\ count + 1 \in Values
      BY <1>1, <2>2, ChannelAssumption DEF IInv, TypeOK, Values
    <3>2. item'[t] = count + 1
      BY <1>1, <2>2 DEF IInv, TypeOK
    <3>3. ~Sent(count + 1)
      BY <3>1 DEF Fresh, IInv
    <3>4. \A x \in Values : Sent(x)' => x <= count'
      BY <1>9, <3>1 DEF Fresh, IInv, Values
    <3>5. \A u \in Users \ {t} : Sending(u)' => item'[u] \in 1 .. count /\ ~Sent(item'[u])
      BY <1>10 DEF Fresh, IInv
    <3>6. \A u \in Users : Sending(u)' => item'[u] \in 1 .. count' /\ ~Sent(item'[u])
      BY <3>1, <3>2, <3>3, <3>5
    <3>7. \A u, v \in Users : Sending(u)' /\ Sending(v)' /\ item'[u] = item'[v] => u = v
      <4>1. \A u, v \in Users \ {t} : Sending(u)' /\ Sending(v)' /\ item'[u] = item'[v] => u = v
        BY <1>10 DEF Fresh, IInv
      <4>2. \A u \in Users \ {t} : Sending(u)' => item'[u] # item'[t]
        BY <3>1, <3>2, <3>5
      <4> QED BY <4>1, <4>2
    <3>8. \A u \in Users : Sent(item[u])' <=> Sent(item'[u])
      BY <1>3, <1>8, Zenon DEF Sent
    <3> QED BY <3>4, <3>6, <3>7, <3>8, Zenon DEF Fresh
  <2> QED BY <2>1, <2>2
<1> QED BY <1>5, <1>7, <1>8, <1>11 DEF IInv, Filled

\* A push appends an item that is new to the channel.
LEMMA PushStep ==
  ASSUME IInv, NEW t \in Users, pc[t] = "act", op[t] \in Sends, used # Capacity,
         PushToSlice(item[t]), UNCHANGED <<tail, received>>
  PROVE  /\ item[t] \in Values /\ ~Sent(item[t])
         /\ Contents' = Append(Contents, item[t]) /\ Len(Contents) < Capacity
         /\ RingOK' /\ head' \in Slots /\ used' \in 0 .. Capacity
         /\ slots' \in [Slots -> Values \cup {NoItem}]
<1>1. item[t] \in 1 .. count /\ ~Sent(item[t])
  BY DEF IInv, Fresh, Sending
<1>2. item[t] \in Values
  BY <1>1, ChannelAssumption DEF IInv, TypeOK, Values
<1>3. /\ slots' = [slots EXCEPT ![head] = item[t]] /\ head' = (head + 1) % Capacity
      /\ used' = used + 1 /\ tail' = tail
  BY DEF PushToSlice
<1>4. /\ slots \in [Slots -> Values \cup {NoItem}] /\ DOMAIN slots = Slots
      /\ tail \in Slots /\ head = (tail + used) % Capacity
  BY DEF IInv, TypeOK, RingOK, Slots
<1>5. used \in 0 .. Capacity - 1 /\ used + 1 \in 0 .. Capacity
  BY CapacityType DEF IInv, TypeOK
<1>6. Window(slots, tail, used) \in Seq(Values)
  BY ContentsWindow DEF IInv, Filled
<1>7. /\ Window(slots', tail, used + 1) = Append(Window(slots, tail, used), item[t])
      /\ head \in Slots /\ head' \in Slots /\ head' = (tail + (used + 1)) % Capacity
  <2>1. \A k \in Slots : slots'[k] = IF k = head THEN item[t] ELSE slots[k]
    BY <1>3, <1>4
  <2>2. head' = (head + 1) % Capacity
    BY <1>3
  <2>3. tail \in Slots /\ head = (tail + used) % Capacity
    BY <1>4
  <2> QED BY <1>2, <1>5, <1>6, <2>1, <2>2, <2>3, WindowPush
<1>8. Contents' = Window(slots', tail', used')
  BY Zenon DEF Contents, Window
<1>9. Contents' = Append(Contents, item[t])
  BY <1>3, <1>7, <1>8, ContentsWindow, Zenon
<1>10. RingOK' /\ head' \in Slots
  BY <1>3, <1>7, Zenon DEF RingOK
<1>11. slots' \in [Slots -> Values \cup {NoItem}]
  BY <1>2, <1>3, <1>4, <1>7
<1>12. Len(Contents) = used
  BY <1>5 DEF Contents
<1>13. Len(Contents) < Capacity
  BY <1>5, <1>12, CapacityType
<1> QED BY <1>1, <1>2, <1>3, <1>5, <1>9, <1>10, <1>11, <1>13

\* A pop takes the oldest item.
LEMMA PopStep ==
  ASSUME IInv, PopFromSlice, UNCHANGED <<head, slots>>
  PROVE  /\ Contents # <<>> /\ Contents' = Tail(Contents)
         /\ received' = Append(received, Head(Contents))
         /\ RingOK' /\ tail' \in Slots /\ used' \in 0 .. Capacity
<1>1. /\ received' = Append(received, slots[tail]) /\ tail' = (tail + 1) % Capacity
      /\ used' = used - 1 /\ head' = head /\ slots' = slots /\ used > 0
  BY DEF PopFromSlice
<1>2. tail \in Slots /\ head = (tail + used) % Capacity
  BY DEF IInv, TypeOK, RingOK, Slots
<1>3. used \in 1 .. Capacity /\ used - 1 \in 0 .. Capacity
  BY <1>1, CapacityType DEF IInv, TypeOK
<1>4. Window(slots, tail, used) \in Seq(Values)
  BY ContentsWindow DEF IInv, Filled
<1>5. /\ Window(slots, tail, used) # <<>> /\ slots[tail] = Head(Window(slots, tail, used))
      /\ Window(slots, tail', used - 1) = Tail(Window(slots, tail, used))
      /\ tail' \in Slots
      /\ (tail + used) % Capacity = (tail' + (used - 1)) % Capacity
  BY <1>1, <1>2, <1>3, <1>4, WindowPop
<1>6. Contents' = Window(slots', tail', used')
  BY Zenon DEF Contents, Window
<1>7. /\ Contents # <<>> /\ Contents' = Tail(Contents)
      /\ received' = Append(received, Head(Contents))
  BY <1>1, <1>5, <1>6, ContentsWindow, Zenon
<1>8. RingOK'
  BY <1>1, <1>2, <1>5, Zenon DEF RingOK
<1> QED BY <1>1, <1>3, <1>5, <1>7, <1>8

LEMMA ActStep ==
  ASSUME IInv, NEW t \in Users, Act(t)
  PROVE  IInv'
<1>1. /\ UNCHANGED <<prio, owner, op, item, count>> /\ Transfer(t) /\ pc[t] = "act"
      /\ pc' = [u \in Users |-> IF u \in Resumed(Other(op[t])) THEN "relock"
                               ELSE IF u = t THEN "release" ELSE pc[u]]
  BY DEF Act, Go, At
<1>2. /\ Queued' /\ waiters' \in [Condvars -> Seq(Users)]
      /\ \A u \in Resumed(Other(op[t])) : pc[u] = "waiting"
  BY ActQueued DEF IInv
<1>3. pc' \in [Users -> {"idle", "call", "check", "act", "wait", "waiting", "relock", "release"}]
  BY <1>1 DEF IInv, TypeOK
<1>4. /\ \A u \in Users : Sending(u)' => Sending(u) /\ u # t
      /\ Sending(t) <=> op[t] \in Sends
  BY <1>1, <1>2 DEF Sending
<1>5. Contents \in Seq(Values) /\ received \in Seq(Values)
  BY DEF IInv, Filled, TypeOK
<1>6. SUFFICES /\ TypeOK' /\ RingOK' /\ Contents' \in Seq(Values)
               /\ \A x : x \in Items(Contents') \/ x \in Items(received')
                        => Sent(x) \/ (op[t] \in Sends /\ x = item[t])
  <2>1. \A x : Sent(x)' => Sent(x) \/ (op[t] \in Sends /\ x = item[t])
    BY <1>6 DEF Sent
  <2>2. \A u \in Users : Sent(item[u])' => Sent(item[u]) \/ (op[t] \in Sends /\ item[u] = item[t])
    BY <1>1, <1>6 DEF Sent
  <2>3. \A x \in Values : Sent(x)' => x <= count
    BY <1>4, <2>1 DEF IInv, Fresh
  <2>4. \A u \in Users : Sending(u)' => item[u] \in 1 .. count /\ ~Sent(item[u])'
    BY <1>4, <2>2 DEF IInv, Fresh
  <2>5. \A u, v \in Users : Sending(u)' /\ Sending(v)' /\ item[u] = item[v] => u = v
    BY <1>4 DEF IInv, Fresh
  <2>6. Fresh'
    BY <1>1, <2>3, <2>4, <2>5, Zenon DEF Fresh
  <2> QED BY <1>1, <1>2, <1>6, <2>6 DEF IInv, Filled
<1>7. CASE op[t] \in Sends /\ used # Capacity
  <2>1. PushToSlice(item[t]) /\ UNCHANGED <<tail, received>>
    BY <1>1, <1>7 DEF Transfer
  <2>2. /\ item[t] \in Values /\ Contents' = Append(Contents, item[t])
        /\ RingOK' /\ head' \in Slots /\ used' \in 0 .. Capacity
        /\ slots' \in [Slots -> Values \cup {NoItem}]
    BY <1>1, <1>7, <2>1, PushStep
  <2>3. TypeOK'
    BY <1>1, <1>2, <1>3, <2>1, <2>2 DEF IInv, TypeOK, Slots
  <2>4. Contents' \in Seq(Values) /\ Items(Contents') = Items(Contents) \cup {item[t]}
    BY <1>5, <2>2, AppendItems
  <2> QED BY <1>7, <2>1, <2>2, <2>3, <2>4 DEF Sent
<1>8. CASE op[t] \in Sends /\ used = Capacity
  <2>1. UNCHANGED <<fifoVars, received>>
    BY <1>1, <1>8 DEF Transfer, PushToSlice, fifoVars
  <2>2. Contents' = Contents
    BY <2>1, Zenon DEF Contents, fifoVars
  <2>3. TypeOK' /\ RingOK'
    BY <1>1, <1>2, <1>3, <2>1 DEF IInv, TypeOK, RingOK, fifoVars
  <2> QED BY <1>5, <2>1, <2>2, <2>3 DEF Sent
<1>9. CASE op[t] \notin Sends
  <2>1. PopFromSlice /\ UNCHANGED <<head, slots>>
    BY <1>1, <1>9 DEF Transfer
  <2>2. /\ Contents # <<>> /\ Contents' = Tail(Contents)
        /\ received' = Append(received, Head(Contents))
        /\ RingOK' /\ tail' \in Slots /\ used' \in 0 .. Capacity
    BY <2>1, PopStep
  <2>3. /\ Contents' \in Seq(Values) /\ Head(Contents) \in Items(Contents)
        /\ Head(Contents) \in Values
        /\ \A x \in Items(Contents') : x \in Items(Contents)
    <3>1. \A k \in 1 .. Len(Tail(Contents)) : /\ k + 1 \in 1 .. Len(Contents)
                                            /\ Tail(Contents)[k] = Contents[k + 1]
      BY <1>5, <2>2, TailOf
    <3>2. /\ Tail(Contents) \in Seq(Values) /\ 1 \in 1 .. Len(Contents)
          /\ Head(Contents) = Contents[1] /\ Head(Contents) \in Values
      BY <1>5, <2>2, TailOf
    <3>3. ASSUME NEW x \in Items(Contents') PROVE x \in Items(Contents)
      <4>1. PICK k \in 1 .. Len(Tail(Contents)) : Tail(Contents)[k] = x
        BY <2>2, <3>2, ItemsOf, Zenon
      <4> QED BY <1>5, <3>1, <4>1, ItemsOf, Zenon
    <3>4. Head(Contents) \in Items(Contents)
      BY <1>5, <3>2, ItemsOf, Zenon
    <3> QED BY <2>2, <3>2, <3>3, <3>4, Zenon
  <2>4. received' \in Seq(Values) /\ Items(received') = Items(received) \cup {Head(Contents)}
    BY <1>5, <2>2, <2>3, AppendItems
  <2>5. TypeOK'
    BY <1>1, <1>2, <1>3, <2>1, <2>2, <2>4 DEF IInv, TypeOK, Slots
  <2> QED BY <2>2, <2>3, <2>4, <2>5 DEF Sent
<1> QED BY <1>7, <1>8, <1>9

LEMMA InitIInv == Init => IInv
<1> SUFFICES ASSUME Init PROVE IInv
  OBVIOUS
<1>1. TypeOK /\ prio \in [Users -> Nat]
  BY MonitorAssumption, ChannelAssumption DEF Init, TypeOK, Values
<1>2. RingOK
  BY CapacityType DEF Init, RingOK
<1>3. Contents = <<>>
  BY DEF Init, Contents
<1>4. Queued
  BY DEF Init, Queued, Distinct, Items
<1>5. Fresh
  BY <1>3 DEF Init, Fresh, Sent, Sending, Items
<1> QED BY <1>1, <1>2, <1>3, <1>4, <1>5 DEF IInv, Filled

LEMMA NextIInv == IInv /\ [Next]_vars => IInv'
<1> SUFFICES ASSUME IInv, [Next]_vars PROVE IInv'
  OBVIOUS
<1>1. ASSUME NEW t \in Users, Wake(t) \/ Step(t) PROVE IInv'
  BY <1>1, WakeStep, QuietStep, ActStep DEF Step
<1>2. CASE UNCHANGED vars
  <2>1. Contents' = Contents
    BY <1>2, Zenon DEF Contents, vars, fifoVars
  <2> QED BY <1>2, <2>1 DEF vars, fifoVars, IInv, TypeOK, RingOK, Filled, Queued,
                             Fresh, Sent, Sending
<1> QED BY <1>1, <1>2 DEF Next

-----------------------------------------------------------------------------
(* The channel implements Fifo                                             *)

\* A push is a Put, a pop a Get, and no other step touches the queue.
LEMMA FifoStep == IInv /\ [Next]_vars => [F!Next]_<<Contents, received>>
<1> SUFFICES ASSUME IInv, [Next]_vars
             PROVE  F!Next \/ (Contents' = Contents /\ received' = received)
  BY Zenon
<1>1. ASSUME UNCHANGED <<fifoVars, received>> PROVE Contents' = Contents /\ received' = received
  BY <1>1, Zenon DEF Contents, fifoVars
<1>2. CASE UNCHANGED vars
  BY <1>1, <1>2 DEF vars
<1>3. ASSUME NEW t \in Users, Wake(t) \/ (Step(t) /\ ~Act(t))
      PROVE  Contents' = Contents /\ received' = received
  BY <1>1, <1>3, Zenon DEF Wake, Step, Call, Check, Wait, Relock, Release
<1>4. ASSUME NEW t \in Users, Act(t)
      PROVE  F!Next \/ (Contents' = Contents /\ received' = received)
  <2>1. pc[t] = "act" /\ Transfer(t)
    BY <1>4 DEF Act, At
  <2>2. CASE op[t] \in Sends /\ used = Capacity
    <3>1. UNCHANGED <<fifoVars, received>>
      BY <2>1, <2>2 DEF Transfer, PushToSlice, fifoVars
    <3> QED BY <1>1, <3>1
  <2>3. CASE op[t] \in Sends /\ used # Capacity
    <3>1. PushToSlice(item[t]) /\ tail' = tail /\ received' = received
      BY <2>1, <2>3 DEF Transfer
    <3>2. /\ item[t] \in Values /\ ~Sent(item[t])
          /\ Contents' = Append(Contents, item[t]) /\ Len(Contents) < Capacity
      BY <2>1, <2>3, <3>1, PushStep
    <3>3. /\ \A i \in DOMAIN Contents : Contents[i] # item[t]
          /\ \A i \in DOMAIN received : received[i] # item[t]
      BY <3>2, Zenon DEF Sent, Items
    <3>4. F!Put
      BY <3>1, <3>2, <3>3, Zenon DEF F!Put
    <3> QED BY <3>4 DEF F!Next
  <2>4. CASE op[t] \notin Sends
    <3>1. PopFromSlice /\ UNCHANGED <<head, slots>>
      BY <2>1, <2>4 DEF Transfer
    <3>2. F!Get
      BY <3>1, PopStep, Zenon DEF F!Get
    <3> QED BY <3>2 DEF F!Next
  <2> QED BY <2>2, <2>3, <2>4
<1> QED BY <1>2, <1>3, <1>4 DEF Next, Step

\* The invariant: types, the ring buffer's indices, who is in which wait queue, and
\* which items have been sent.
THEOREM Inductive == Spec => []IInv
BY InitIInv, NextIInv, PTL DEF Spec

\* Every value has its type; the indices never leave the ring buffer (FIFO,
\* push_to_slice, pop_from_slice).
THEOREM Types == Spec => []TypeOK
<1>1. IInv => TypeOK
  BY DEF IInv
<1> QED BY <1>1, Inductive, PTL

\* However many users call send, try_send, recv, try_recv and async_recv, whatever
\* their priorities and however often the indices of the ring buffer have wrapped
\* around, a channel of any capacity is a bounded queue: every item that is pushed is
\* received once, in the order of the pushes.
THEOREM ChannelImplementsFifo == Spec => ImplementsFifo
<1>1. Init => F!Init
  BY DEF Init, F!Init, Contents
<1> QED BY <1>1, Inductive, FifoStep, PTL DEF Spec, ImplementsFifo, F!Spec

-----------------------------------------------------------------------------
(* The user of highest priority is not left waiting                        *)

\* An item that no item of the list is to stay in front of becomes the head.
LEMMA InsertFirst ==
  ASSUME NEW S, NEW s \in Seq(S), NEW e \in S, NEW Pred, \A x \in Items(s) : x \notin Pred,
         NEW r, r = InsertAfter(s, e, Pred)
  PROVE  r # <<>> /\ Head(r) = e
<1> DEFINE n == Passed(s, Pred)
<1>1. n \in 0 .. Len(s) /\ \A i \in 1 .. n : s[i] \in Pred
  BY PassedExists
<1>2. r \in Seq(S) /\ Len(r) = Len(s) + 1 /\ r[n + 1] = e
  BY InsertAfterShape
<1> HIDE DEF n
<1>3. n = 0
  <2>1. \A i \in 1 .. n : i \in 1 .. Len(s)
    BY <1>1
  <2>2. \A i \in 1 .. n : s[i] \in Items(s)
    BY <2>1, ItemsOf, Zenon
  <2> QED BY <1>1, <2>2
<1> QED BY <1>2, <1>3

\* A head that the new item is to stay behind remains the head.
LEMMA InsertBehindHead ==
  ASSUME NEW S, NEW s \in Seq(S), NEW e \in S, NEW Pred, s # <<>>, Head(s) \in Pred,
         NEW r, r = InsertAfter(s, e, Pred)
  PROVE  r # <<>> /\ Head(r) = Head(s)
<1> DEFINE n == Passed(s, Pred)
<1>1. n \in 0 .. Len(s) /\ (n < Len(s) => s[n + 1] \notin Pred)
  BY PassedExists
<1>2. /\ r \in Seq(S) /\ Len(r) = Len(s) + 1
      /\ \A i \in 1 .. n : r[i] = s[i]
  BY InsertAfterShape
<1> HIDE DEF n
<1>3. Len(s) \in Nat /\ Len(s) >= 1 /\ Head(s) = s[1]
  BY TailOf
<1>4. n >= 1
  BY <1>1, <1>3
<1>5. r # <<>> /\ Head(r) = r[1] /\ r[1] = s[1]
  BY <1>1, <1>2, <1>3, <1>4
<1> QED BY <1>3, <1>5

LEMMA HoldsFifo == ASSUME NEW t PROVE Holds(t) <=> owner["fifo"] = t
BY ChannelAssumption DEF Holds

\* Nobody runs while another user holds the mutex.
LEMMA RunsAlone ==
  ASSUME TypeOK, Inside, NEW t \in Users, CanRun(t)
  PROVE  owner["fifo"] \in {t, Nobody}
<1>1. owner["fifo"] \in Users \cup {Nobody}
  BY CondvarsOf, Zenon DEF TypeOK
<1>2. \A u \in Users \ {t} : owner["fifo"] = u => Ready(u) /\ Holds(u)
  BY HoldsFifo DEF Inside, Ready, Asleep
<1> QED BY <1>1, <1>2 DEF CanRun

\* While the user of highest priority is ready, only a holder of the mutex runs instead.
LEMMA RunsBelow ==
  ASSUME prio \in [Users -> Nat], NEW t \in Users, OnTop(t), Ready(t),
         NEW u \in Users \ {t}, CanRun(u)
  PROVE  owner["fifo"] = u
<1>1. Holds(u) \/ prio[t] <= prio[u]
  BY DEF CanRun
<1>2. prio[u] < prio[t] /\ prio[u] \in Nat /\ prio[t] \in Nat
  BY DEF OnTop
<1> QED BY <1>1, <1>2, HoldsFifo

LEMMA InsideStep ==
  ASSUME TInv, NEW t \in Users, Wake(t) \/ Step(t)
  PROVE  Inside'
<1>1. owner \in [Mutexes -> Users \cup {Nobody}] /\ "fifo" \in Mutexes /\ Nobody \notin Users
  BY CondvarsOf, MonitorAssumption, Zenon DEF TInv, IInv, TypeOK
<1>2. CASE Wake(t)
  BY <1>1, <1>2 DEF TInv, Inside, Wake, Go
<1>3. CASE Call(t) \/ Relock(t)
  <2>1. /\ pc' = [u \in Users |-> IF u = t THEN "check" ELSE pc[u]]
        /\ pc[t] \notin {"check", "act", "release"}
        /\ owner' = owner \/ owner' = [owner EXCEPT !["fifo"] = t]
    BY <1>3, Zenon DEF Call, Relock, Go, Locked, At
  <2> QED BY <1>1, <2>1 DEF TInv, Inside
<1>4. CASE Check(t)
  BY <1>1, <1>4 DEF TInv, Inside, Check, Go, Unlocked
<1>5. CASE Wait(t)
  <2>1. /\ pc' = [u \in Users |-> IF u = t THEN "waiting" ELSE pc[u]]
        /\ pc[t] = "wait" /\ owner' = owner
    BY <1>5, Zenon DEF Wait, Go, At
  <2> QED BY <2>1 DEF TInv, Inside
<1>6. CASE Act(t)
  <2>1. \A u \in Resumed(Other(op[t])) : pc[u] = "waiting"
    BY <1>6, ActQueued DEF TInv, IInv
  <2> QED BY <1>1, <1>6, <2>1 DEF TInv, Inside, Act, Go
<1>7. CASE Release(t)
  BY <1>1, <1>7 DEF TInv, Inside, Release, Go, Unlocked
<1> QED BY <1>2, <1>3, <1>4, <1>5, <1>6, <1>7 DEF Step

\* Its own steps: when it has found the buffer full or empty nobody holds the mutex,
\* and it becomes the head of its wait queue.
LEMMA TopOwnStep ==
  ASSUME TInv, NEW t \in Users, OnTop(t), Wake(t) \/ Step(t)
  PROVE  TopWaits(t)'
<1>1. TypeOK /\ Queued /\ prio \in [Users -> Nat] /\ Inside /\ op[t] # "async_recv"
  BY DEF TInv, IInv
<1>2. CASE Check(t)
  <2>1. owner["fifo"] \in {t, Nobody} /\ "fifo" \in Mutexes
    BY <1>1, <1>2, RunsAlone, CondvarsOf DEF Check, At
  <2>2. /\ op' = op /\ used' = used /\ pc'[t] # "waiting"
        /\ pc'[t] = "wait" => Unable(op[t]) /\ owner' = Unlocked("fifo", t)
    BY <1>2 DEF Check, Go, fifoVars
  <2>3. pc'[t] = "wait" => owner'["fifo"] = Nobody
    BY <1>1, <2>1, <2>2 DEF Unlocked, TypeOK
  <2> QED BY <2>2, <2>3 DEF TopWaits, Unable
<1>3. CASE Wait(t)
  <2> DEFINE c == Own(op[t])
             Pred == {u \in Users : prio[u] >= prio[t]}
  <2>1. /\ op' = op /\ used' = used /\ pc[t] = "wait" /\ pc'[t] = "waiting"
        /\ waiters' = Enqueued(c, t)
    BY <1>1, <1>3, Zenon DEF Wait, Go, At, fifoVars
  <2>2. c \in Condvars /\ waiters[c] \in Seq(Users)
    BY <1>1, CondvarsOf DEF TypeOK
  <2>3. waiters'[c] = InsertAfter(waiters[c], t, Pred)
    BY <1>1, <2>1, <2>2 DEF Enqueued, TypeOK
  <2>4. \A u \in Items(waiters[c]) : u \in Users /\ pc[u] = "waiting"
    BY <1>1, <2>2, QueuedUsers, Zenon DEF TypeOK
  <2>5. \A u \in Users \ {t} : u \notin Pred
    BY <1>1 DEF OnTop
  <2>6. \A u \in Items(waiters[c]) : u \notin Pred
    BY <2>1, <2>4, <2>5, Zenon
  <2>7. waiters'[c] # <<>> /\ Head(waiters'[c]) = t
    <3> HIDE DEF c, Pred
    <3> QED BY <2>2, <2>3, <2>6, InsertFirst
  <2>8. Unable(op[t])
    BY <2>1, ZenonT(30) DEF TInv, TopWaits
  <2> QED BY <2>1, <2>7, <2>8 DEF TopWaits, Unable
<1>4. CASE Wake(t) \/ Call(t) \/ Relock(t) \/ Act(t) \/ Release(t)
  <2>1. pc'[t] \notin {"wait", "waiting"}
    BY <1>4, Zenon DEF Wake, Call, Relock, Act, Release, Go
  <2> QED BY <2>1, Zenon DEF TopWaits
<1> QED BY <1>2, <1>3, <1>4 DEF Step

\* The steps of others: none runs before it waits; while it waits, its condition only
\* comes true by a push or a pop that notifies it.
LEMMA TopOtherStep ==
  ASSUME TInv, NEW t \in Users, OnTop(t), NEW u \in Users \ {t}, Wake(u) \/ Step(u)
  PROVE  TopWaits(t)'
<1>1. /\ TypeOK /\ Queued /\ prio \in [Users -> Nat] /\ Inside
      /\ op[u] # "async_recv" /\ TopWaits(t)
  BY DEF TInv, IInv
<1>2. CASE Wake(u)
  <2>1. /\ op'[t] = op[t] /\ used' = used /\ pc'[t] = pc[t] /\ waiters' = waiters
        /\ owner' = owner
    BY <1>1, <1>2 DEF Wake, Go, fifoVars, TypeOK
  <2> QED BY <1>1, <2>1, Zenon DEF TopWaits, Unable
<1>3. CASE Step(u) /\ pc[t] = "wait"
  <2>1. CanRun(u)
    BY <1>3, Zenon DEF Step, Call, Check, Wait, Relock, Act, Release, At
  <2>2. owner["fifo"] = u
    BY <1>1, <1>3, <2>1, RunsBelow DEF Ready, Asleep
  <2> QED BY <1>1, <1>3, <2>2, MonitorAssumption DEF TopWaits
<1>4. CASE Step(u) /\ pc[t] \notin {"wait", "waiting"}
  <2>1. CASE Act(u)
    <3>1. t \notin Resumed(Other(op[u]))
      BY <1>1, <1>4, <2>1, ActQueued
    <3>2. pc'[t] = pc[t]
      BY <2>1, <3>1 DEF Act, Go
    <3> QED BY <1>4, <3>2 DEF TopWaits
  <2>2. CASE ~Act(u)
    <3>1. pc'[t] = pc[t]
      BY <1>4, <2>2, Zenon DEF Step, Call, Check, Wait, Relock, Release, Go
    <3> QED BY <1>4, <3>1 DEF TopWaits
  <2> QED BY <2>1, <2>2
<1>5. CASE pc[t] = "waiting" /\ (Call(u) \/ Check(u) \/ Relock(u) \/ Release(u))
  <2>1. op' = op /\ used' = used /\ pc'[t] = pc[t] /\ waiters' = waiters
    BY <1>5, Zenon DEF Call, Check, Relock, Release, Go, fifoVars
  <2> QED BY <1>1, <1>5, <2>1 DEF TopWaits, Unable
<1>6. CASE pc[t] = "waiting" /\ Wait(u)
  <2> DEFINE c == Own(op[u])
             Pred == {v \in Users : prio[v] >= prio[u]}
  <2>1. /\ op' = op /\ used' = used /\ pc'[t] = pc[t]
        /\ waiters' = Enqueued(c, u)
    BY <1>1, <1>6 DEF Wait, Go, fifoVars
  <2>2. /\ c \in Condvars /\ waiters[c] \in Seq(Users)
        /\ waiters'[c] = InsertAfter(waiters[c], u, Pred)
        /\ \A d \in Condvars \ {c} : waiters'[d] = waiters[d]
    BY <1>1, <2>1, CondvarsOf DEF Enqueued, TypeOK
  <2>3. t \in Pred
    BY <1>1 DEF OnTop
  <2>4. CASE Own(op[t]) = c
    <3>1. waiters[c] # <<>> /\ Head(waiters[c]) = t
      BY <1>1, <1>6, <2>4, ZenonT(30) DEF TopWaits
    <3>2. waiters'[c] # <<>> /\ Head(waiters'[c]) = t
      <4>1. waiters[c] \in Seq(Users) /\ Head(waiters[c]) \in Pred /\ u \in Users
        BY <2>2, <2>3, <3>1, Zenon
      <4>2. waiters'[c] = InsertAfter(waiters[c], u, Pred)
        BY <2>2, Zenon
      <4> HIDE DEF c, Pred
      <4> QED BY <3>1, <4>1, <4>2, InsertBehindHead
    <3> QED BY <1>1, <1>6, <2>1, <2>4, <3>2, Zenon DEF TopWaits, Unable
  <2>5. CASE Own(op[t]) # c
    <3>1. waiters'[Own(op[t])] = waiters[Own(op[t])]
      BY <2>2, <2>5, CondvarsOf
    <3> QED BY <1>1, <1>6, <2>1, <3>1, Zenon DEF TopWaits, Unable
  <2> QED BY <2>4, <2>5
<1>7. CASE pc[t] = "waiting" /\ Act(u)
  <2> DEFINE d == Other(op[u])
  <2>1. /\ op' = op /\ Transfer(u) /\ waiters' = Notified(d)
        /\ pc'[t] = IF t \in Resumed(d) THEN "relock" ELSE pc[t]
    BY <1>7 DEF Act, Go
  <2>2. /\ Unable(op[t]) /\ waiters[Own(op[t])] # <<>> /\ Head(waiters[Own(op[t])]) = t
    BY <1>1, <1>7, Zenon DEF TopWaits
  <2>3. CASE Own(op[t]) = d
    <3>1. t \in Resumed(d)
      BY <2>2, <2>3 DEF Resumed
    <3> QED BY <2>1, <3>1 DEF TopWaits
  <2>4. CASE Own(op[t]) # d
    <3>1. op[t] \in Sends <=> op[u] \in Sends
      BY <2>4 DEF Own, Other
    <3>2. used' = used
      <4>1. CASE op[u] \in Sends
        BY <2>1, <2>2, <3>1, <4>1 DEF Transfer, PushToSlice, Unable
      <4>2. CASE op[u] \notin Sends
        BY <2>1, <2>2, <3>1, <4>2 DEF Transfer, PopFromSlice, Unable
      <4> QED BY <4>1, <4>2
    <3>3. waiters'[Own(op[t])] = waiters[Own(op[t])]
      BY <1>1, <2>1, <2>4, CondvarsOf DEF Notified, TypeOK
    <3>4. pc'[t] \in {"waiting", "relock"}
      BY <1>7, <2>1
    <3> QED BY <2>1, <2>2, <3>2, <3>3, <3>4 DEF TopWaits, Unable
  <2> QED BY <2>3, <2>4
<1> QED BY <1>2, <1>3, <1>4, <1>5, <1>6, <1>7 DEF Step

LEMMA NextTInv == NoAsync /\ TInv /\ [Next]_vars => TInv'
<1> SUFFICES ASSUME NoAsync, TInv, [Next]_vars PROVE TInv'
  OBVIOUS
<1>1. IInv'
  BY NextIInv DEF TInv
<1>2. ASSUME NEW u \in Users, Wake(u) \/ Step(u) PROVE TInv'
  <2>1. Inside'
    BY <1>2, InsideStep
  <2>2. prio' = prio
    BY <1>2, Zenon DEF Wake, Step, Call, Check, Wait, Relock, Act, Release
  <2>3. \A t \in Users : OnTop(t)' => TopWaits(t)'
    BY <1>2, <2>2, TopOwnStep, TopOtherStep DEF OnTop
  <2>4. \A t \in Users : op'[t] # "async_recv"
    <3>1. CASE Wake(u)
      <4>1. PICK o \in Calls[u] : op' = [op EXCEPT ![u] = o]
        BY <3>1, Zenon DEF Wake
      <4> QED BY <4>1 DEF NoAsync, TInv, IInv, TypeOK
    <3>2. CASE Step(u)
      BY <3>2 DEF Step, Call, Check, Wait, Relock, Act, Release, TInv
    <3> QED BY <1>2, <3>1, <3>2
  <2> QED BY <1>1, <2>1, <2>3, <2>4 DEF TInv
<1>3. CASE UNCHANGED vars
  BY <1>1, <1>3, Zenon DEF vars, fifoVars, TInv, Inside, OnTop, TopWaits, Unable
<1> QED BY <1>2, <1>3 DEF Next

\* Among threads, the one whose priority is above that of all others does not wait on
\* an empty channel that has been filled or on a full one that has been emptied: nobody
\* runs between its check and its entry into the wait queue, and there it is the first
\* to be notified (Condvar::wait_lock, WaitQueue::notify_one).
THEOREM HighestIsNotLeft == NoAsync /\ Spec => []HighestNotLeft
<1> SUFFICES ASSUME NoAsync PROVE Spec => []HighestNotLeft
  OBVIOUS
<1>1. Init => TInv
  <2> SUFFICES ASSUME Init PROVE TInv
    OBVIOUS
  <2>1. IInv
    BY InitIInv
  <2>2. Inside
    BY MonitorAssumption, CondvarsOf, Zenon DEF Init, Inside
  <2> QED BY <2>1, <2>2 DEF Init, TInv, TopWaits
<1>2. TInv /\ [Next]_vars => TInv'
  BY NextTInv
<1>3. TInv => HighestNotLeft
  BY DEF TInv, TopWaits, HighestNotLeft
<1> QED BY <1>1, <1>2, <1>3, PTL DEF Spec
=============================================================================
