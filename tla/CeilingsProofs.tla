--------------------------- MODULE CeilingsProofs ---------------------------
(***************************************************************************)
(* For every set of interrupts, locks, ceilings and priorities: the lock   *)
(* priority is the highest ceiling, the plic keeps the ceilings of the     *)
(* locks that are held, and interrupts nest in ascending order.            *)
(***************************************************************************)
EXTENDS Ceilings, KernelListProofs

\* More time for the provers than they have by default
USE SMTT(30), ZenonT(30)

-----------------------------------------------------------------------------
(* Priorities                                                              *)

\* The last item of a list, and the items before it
LEMMA LastFront ==
  ASSUME NEW S, NEW s \in Seq(S), s # <<>>
  PROVE  /\ Last(s) = s[Len(s)] /\ Last(s) \in S /\ Len(s) \in Nat /\ Len(s) >= 1
         /\ Front(s) \in Seq(S) /\ Len(Front(s)) = Len(s) - 1
         /\ \A i \in 1 .. Len(s) - 1 : Front(s)[i] = s[i]
<1>1. Len(s) \in Nat /\ Len(s) >= 1 /\ s[Len(s)] \in S
  OBVIOUS
<1>2. Last(s) = s[Len(s)]
  BY Zenon DEF Last
<1> DEFINE k == Len(s) - 1
<1>3. Front(s) = SubSeq(s, 1, k) /\ k \in 0 .. Len(s) /\ k = Len(s) - 1
  BY <1>1 DEF Front
<1> HIDE DEF k
<1>4. /\ SubSeq(s, 1, k) \in Seq(S) /\ Len(SubSeq(s, 1, k)) = k
      /\ \A i \in 1 .. k : SubSeq(s, 1, k)[i] = s[i]
  BY <1>1, <1>3
<1> QED
  BY <1>1, <1>2, <1>3, <1>4, Zenon

\* The fields of a priority
LEMMA PriorityFields ==
  ASSUME NEW p \in Priority
  PROVE  /\ p.kind \in {"Thread", "Interrupt"} /\ p.value \in 0 .. 255
         /\ p = [kind |-> p.kind, value |-> p.value]
BY DEF Priority, Bytes

\* The i16 form of a priority
LEMMA Forms ==
  ASSUME NEW p \in Priority
  PROVE  /\ p.kind = "Thread" => IntoAny(p) = p.value
         /\ p.kind = "Interrupt" => IntoAny(p) = p.value + 16384
         /\ IntoAny(p) \in Int
<1>1. p.kind \in {"Thread", "Interrupt"} /\ p.value \in 0 .. 255
  BY PriorityFields
<1>2. p.kind = "Thread" => IntoAny(p) = p.value
  BY DEF IntoAny
<1>3. p.kind = "Interrupt" => IntoAny(p) = p.value + 16384
  BY DEF IntoAny, INTERRUPT_BIT
<1> QED
  BY <1>1, <1>2, <1>3

\* partial_cmp is the order of the i16 forms.
LEMMA LessIsOrder ==
  ASSUME NEW p \in Priority, NEW q \in Priority
  PROVE  Less(p, q) <=> IntoAny(p) < IntoAny(q)
<1>1. /\ p.kind \in {"Thread", "Interrupt"} /\ p.value \in 0 .. 255
      /\ q.kind \in {"Thread", "Interrupt"} /\ q.value \in 0 .. 255
  BY PriorityFields
<1> DEFINE a == IntoAny(p)
           b == IntoAny(q)
           x == p.value
           y == q.value
<1>2. x \in 0 .. 255 /\ y \in 0 .. 255
  BY <1>1
<1>3. CASE p.kind = q.kind
  <2>1. Less(p, q) <=> x < y
    BY <1>3, Zenon DEF Less
  <2>2. (a = x /\ b = y) \/ (a = x + 16384 /\ b = y + 16384)
    BY <1>1, <1>3, Forms
  <2> HIDE DEF a, b, x, y
  <2>3. x < y <=> a < b
    BY <1>2, <2>2
  <2> QED
    BY <2>1, <2>3, Zenon DEF a, b
<1>4. CASE p.kind = "Thread" /\ q.kind = "Interrupt"
  <2>1. Less(p, q)
    BY <1>4 DEF Less
  <2>2. a = x /\ b = y + 16384
    BY <1>4, Forms
  <2> HIDE DEF a, b, x, y
  <2>3. a < b
    BY <1>2, <2>2
  <2> QED
    BY <2>1, <2>3, Zenon DEF a, b
<1>5. CASE p.kind = "Interrupt" /\ q.kind = "Thread"
  <2>1. ~Less(p, q)
    BY <1>5 DEF Less
  <2>2. a = x + 16384 /\ b = y
    BY <1>5, Forms
  <2> HIDE DEF a, b, x, y
  <2>3. ~(a < b)
    BY <1>2, <2>2
  <2> QED
    BY <2>1, <2>3, Zenon DEF a, b
<1> QED
  BY <1>1, <1>3, <1>4, <1>5, Zenon

\* A priority is read back from the half of a word it is stored in.
LEMMA HalfBack ==
  ASSUME NEW p \in PriorityStatus
  PROVE  FromAny(AsI16(AsU16(IntoAny(p)))) = p
<1>1. CASE p \in Priority /\ p.kind = "Thread"
  <2>1. p.value \in 0 .. 255 /\ p = Thread(p.value) /\ IntoAny(p) = p.value
    BY <1>1, PriorityFields DEF IntoAny, Thread
  <2>2. AsI16(AsU16(p.value)) = p.value /\ p.value % 256 = p.value /\ p.value \div 16384 = 0
    BY <2>1 DEF AsI16, AsU16
  <2> QED
    BY <2>1, <2>2 DEF FromAny, INTERRUPT_BIT, INVALID_PRIORITY
<1>2. CASE p \in Priority /\ p.kind = "Interrupt"
  <2> DEFINE a == p.value + 16384
  <2>1. p.value \in 0 .. 255 /\ p = Interrupt(p.value) /\ IntoAny(p) = a
    BY <1>2, PriorityFields DEF IntoAny, Interrupt, INTERRUPT_BIT
  <2>2. AsI16(AsU16(a)) = a /\ a % 256 = p.value /\ a \div 16384 = 1 /\ a # -1
    BY <2>1 DEF AsI16, AsU16
  <2> QED
    BY <2>1, <2>2 DEF FromAny, INTERRUPT_BIT, INVALID_PRIORITY
<1>3. CASE p = Invalid
  BY <1>3 DEF IntoAny, FromAny, AsI16, AsU16, INTERRUPT_BIT, INVALID_PRIORITY, Invalid
<1>4. p \in Priority => p.kind \in {"Thread", "Interrupt"}
  BY PriorityFields
<1> QED
  BY <1>1, <1>2, <1>3, <1>4 DEF PriorityStatus

\* to_status_pair reads what from_status_pair has stored.
LEMMA PairBack ==
  ASSUME NEW p \in PriorityStatus, NEW q \in PriorityStatus
  PROVE  /\ ToStatusPair(FromStatusPair(p, q)) = <<p, q>>
         /\ FromStatusPair(p, q) \in [lo : Halves, hi : Halves]
<1>1. /\ FromAny(AsI16(AsU16(IntoAny(p)))) = p /\ FromAny(AsI16(AsU16(IntoAny(q)))) = q
  BY HalfBack
<1>2. AsU16(IntoAny(p)) \in Halves /\ AsU16(IntoAny(q)) \in Halves
  BY DEF Halves
<1> QED
  BY <1>1, <1>2 DEF ToStatusPair, FromStatusPair

\* p is the highest priority of set S, invalid when there is none.
IsHighest(p, S) ==
  /\ S = {} => p = Invalid
  /\ S # {} => p \in S /\ \A q \in S : ~Less(p, q)

\* PriorityStatus::max gives the highest of two sets.
LEMMA MaxHighest ==
  ASSUME NEW S \in SUBSET Priority, NEW U \in SUBSET Priority, NEW p, NEW q,
         IsHighest(p, S), IsHighest(q, U)
  PROVE  IsHighest(StatusMax(p, q), S \cup U)
<1>1. CASE S = {} /\ U = {}
  BY <1>1 DEF IsHighest, StatusMax, Invalid, MaxU8
<1>2. CASE S = {} /\ U # {}
  <2>1. p = Invalid /\ q \in Priority /\ S \cup U = U /\ q.kind \in {"Thread", "Interrupt"}
    BY <1>2, PriorityFields DEF IsHighest
  <2>2. StatusMax(p, q) = q
    BY <2>1 DEF StatusMax, Invalid
  <2> QED
    BY <2>1, <2>2
<1>3. CASE S # {} /\ U = {}
  <2>1. q = Invalid /\ p \in Priority /\ S \cup U = S /\ p.kind \in {"Thread", "Interrupt"}
    BY <1>3, PriorityFields DEF IsHighest
  <2>2. StatusMax(p, q) = p
    BY <2>1 DEF StatusMax, Invalid
  <2> QED
    BY <2>1, <2>2
<1>4. CASE S # {} /\ U # {}
  <2> DEFINE m == StatusMax(p, q)
  <2>1. p \in S /\ q \in U /\ p \in Priority /\ q \in Priority
    BY <1>4 DEF IsHighest
  <2>2. /\ p.kind \in {"Thread", "Interrupt"} /\ p.value \in 0 .. 255
        /\ q.kind \in {"Thread", "Interrupt"} /\ q.value \in 0 .. 255
        /\ p = [kind |-> p.kind, value |-> p.value] /\ q = [kind |-> q.kind, value |-> q.value]
    BY <2>1, PriorityFields
  <2>3. (m = p \/ m = q) /\ IntoAny(p) <= IntoAny(m) /\ IntoAny(q) <= IntoAny(m)
        /\ IntoAny(p) \in Int /\ IntoAny(q) \in Int /\ IntoAny(m) \in Int
    <3>1. CASE p.kind = q.kind
      <4>1. m = [kind |-> p.kind, value |-> MaxU8(p.value, q.value)]
        BY <2>2, <3>1 DEF StatusMax
      <4>0. PICK a \in Int, b \in Int, o \in Int :
              a = p.value /\ b = q.value /\ IntoAny(p) = a + o /\ IntoAny(q) = b + o
        <5>1. CASE p.kind = "Thread"
          <6>1. p.value \in Int /\ q.value \in Int /\ IntoAny(p) = p.value /\ IntoAny(q) = q.value
            BY <5>1, <3>1, <2>1, <2>2, Forms
          <6>2. 0 \in Int /\ \A x \in Int : x + 0 = x
            OBVIOUS
          <6> QED
            BY <6>1, <6>2, Zenon
        <5>2. CASE p.kind = "Interrupt"
          <6>1. /\ p.value \in Int /\ q.value \in Int
                /\ IntoAny(p) = p.value + 16384 /\ IntoAny(q) = q.value + 16384
            BY <5>2, <3>1, <2>1, <2>2, Forms
          <6>2. PICK o \in Int : o = 16384
            OBVIOUS
          <6>3. IntoAny(p) = p.value + o /\ IntoAny(q) = q.value + o
            BY <6>1, <6>2
          <6>4. p.value \in Int /\ q.value \in Int
            BY <6>1
          <6> QED
            BY <6>3, <6>4, Zenon
        <5> QED
          BY <5>1, <5>2, <2>2
      <4>2. CASE p.value > q.value
        <5>1. m = p
          BY <4>1, <4>2, <2>2 DEF MaxU8
        <5> QED
          BY <5>1, <4>2, <4>0
      <4>3. CASE ~(p.value > q.value)
        <5>1. m = q
          BY <4>1, <4>3, <2>2, <3>1 DEF MaxU8
        <5> QED
          BY <5>1, <4>3, <4>0
      <4> QED
        BY <4>2, <4>3
    <3>2. CASE p.kind = "Interrupt" /\ q.kind = "Thread"
      <4>1. m = p
        BY <2>2, <3>2 DEF StatusMax
      <4> QED
        BY <4>1, <2>2, <3>2, <2>1, Forms
    <3>3. CASE p.kind = "Thread" /\ q.kind = "Interrupt"
      <4>1. m = q
        BY <2>2, <3>3 DEF StatusMax
      <4> QED
        BY <4>1, <2>2, <3>3, <2>1, Forms
    <3> QED
      BY <2>2, <3>1, <3>2, <3>3
  <2>4. m \in Priority /\ m \in S \cup U
    BY <2>1, <2>3
  <2> HIDE DEF m
  <2>5. ASSUME NEW r \in S \cup U PROVE ~Less(m, r)
    <3>1. r \in Priority /\ (~Less(p, r) \/ ~Less(q, r))
      BY <1>4 DEF IsHighest
    <3>2. ~(IntoAny(p) < IntoAny(r)) \/ ~(IntoAny(q) < IntoAny(r))
      BY <3>1, <2>1, LessIsOrder
    <3>3. IntoAny(r) \in Int
      BY <3>1, Forms
    <3>4. ~(IntoAny(m) < IntoAny(r))
      BY <3>2, <3>3, <2>3
    <3> QED
      BY <3>1, <3>4, <2>4, LessIsOrder
  <2> QED
    BY <2>4, <2>5 DEF IsHighest, m
<1> QED
  BY <1>1, <1>2, <1>3, <1>4

-----------------------------------------------------------------------------
(* The word of one context                                                 *)

Sections == Seq([ceiling : Priority, saved : PriorityStatus])

\* The ceilings of the k outermost sections of context c, and its base priority when it is
\* in one or is a handler
Above(c, ns, k) ==
  {ns[n].ceiling : n \in 1 .. k} \cup (IF c = Main /\ k = 0 THEN {} ELSE {Base(c)})

\* The nesting lock priority of depth k: the word's, and those saved below it
Level(ns, p, k) == IF k = Len(ns) THEN p ELSE ns[k + 1].saved

\* The nesting lock priority of every depth is the highest ceiling of that depth.
LevelsOK(c, ns, p) == \A k \in 0 .. Len(ns) : IsHighest(Level(ns, p, k), Above(c, ns, k))

LockRank == [l \in Locks |-> IntoAny(Ceiling[l])]

\* The halves of a word agree with the sections and the scoped locks; the second follows
\* the list of locks one step later.
ContextOK(c, w, ns, os, at) ==
  \E p, q \in PriorityStatus :
    /\ w = FromStatusPair(p, q) /\ LevelsOK(c, ns, p)
    /\ at # "update" => q = OwnedPriority(os)
    /\ Descending(os, LockRank) /\ Distinct(os)

LEMMA BaseIs ==
  ASSUME NEW c \in Contexts
  PROVE  /\ Base(c) \in Priority
         /\ c \in Interrupts => c # Main /\ Base(c) = Interrupt(HwPriority[c]) /\ HwPriority[c] \in 0 .. 15
<1>1. CASE c = Main
  BY <1>1, CeilingsAssumption DEF Base, Thread, Priority, Contexts
<1>2. CASE c # Main
  BY <1>2, CeilingsAssumption DEF Base, Interrupt, Priority, Contexts, Bytes
<1> QED
  BY <1>1, <1>2

\* The halves of a word that was stored as a pair
LEMMA WordIs ==
  ASSUME NEW w, NEW p \in PriorityStatus, NEW q \in PriorityStatus, w = FromStatusPair(p, q)
  PROVE  ToStatusPair(w)[1] = p /\ ToStatusPair(w)[2] = q
BY PairBack

\* The highest of one priority
LEMMA OneHighest ==
  ASSUME NEW p \in Priority
  PROVE  IsHighest(p, {p})
<1>1. ~Less(p, p)
  <2>1. p.value \in 0 .. 255
    BY PriorityFields
  <2>2. Less(p, p) <=> p.value < p.value
    BY Zenon DEF Less
  <2> QED
    BY <2>1, <2>2
<1> QED
  BY <1>1 DEF IsHighest

LEMMA HighestIs ==
  ASSUME NEW S \in SUBSET Priority, NEW p, IsHighest(p, S)
  PROVE  p \in PriorityStatus
BY DEF IsHighest, PriorityStatus

LEMMA ElementOf ==
  ASSUME NEW S, NEW s \in Seq(S), NEW n \in 1 .. Len(s)
  PROVE  s[n] \in S
OBVIOUS

LEMMA AboveIs ==
  ASSUME NEW c \in Contexts, NEW ns \in Sections, NEW k \in 0 .. Len(ns)
  PROVE  Above(c, ns, k) \in SUBSET Priority
<1>1. ASSUME NEW n \in 1 .. k PROVE ns[n].ceiling \in Priority
  <2>1. n \in 1 .. Len(ns)
    BY DEF Sections
  <2>2. ns[n] \in [ceiling : Priority, saved : PriorityStatus]
    BY <2>1, ElementOf, Zenon DEF Sections
  <2> QED
    BY <2>2
<1>2. Base(c) \in Priority
  BY BaseIs
<1> QED
  BY <1>1, <1>2 DEF Above

\* raise_nesting_lock_priority
LEMMA EnterOK ==
  ASSUME NEW c \in Contexts, NEW w, NEW ns \in Sections, NEW os, NEW l \in Locks,
         ContextOK(c, w, ns, os, "run"), NEW old, old = ToStatusPair(w),
         NEW new, new = FromStatusPair(StatusMax(old[1], StatusMax(Ceiling[l], Base(c))), old[2]),
         NEW more, more = Append(ns, [ceiling |-> Ceiling[l], saved |-> old[1]])
  PROVE  /\ ContextOK(c, new, more, os, "entering") /\ more \in Sections
         /\ new \in [lo : Halves, hi : Halves]
<1>1. PICK p, q \in PriorityStatus :
        /\ w = FromStatusPair(p, q) /\ LevelsOK(c, ns, p) /\ q = OwnedPriority(os)
        /\ Descending(os, LockRank) /\ Distinct(os)
  BY Zenon DEF ContextOK
<1>2. ToStatusPair(w)[1] = p /\ ToStatusPair(w)[2] = q
  BY <1>1, WordIs, Zenon
<1> DEFINE a == Ceiling[l]
           b == Base(c)
           m == StatusMax(p, StatusMax(a, b))
           s == [ceiling |-> a, saved |-> p]
           ms == Append(ns, s)
<1>3. a \in Priority /\ b \in Priority
  BY BaseIs, CeilingsAssumption
<1>4. /\ ms \in Sections /\ Len(ms) = Len(ns) + 1 /\ Len(ns) \in Nat
      /\ ms[Len(ns) + 1] = s /\ \A n \in 1 .. Len(ns) : ms[n] = ns[n]
  BY <1>3 DEF Sections
<1>5. s.ceiling = a /\ s.saved = p
  OBVIOUS
<1> HIDE DEF a, b, s, ms
<1>6. \A k \in 0 .. Len(ns) : Level(ms, m, k) = Level(ns, p, k)
  <2> SUFFICES ASSUME NEW k \in 0 .. Len(ns) PROVE Level(ms, m, k) = Level(ns, p, k)
    OBVIOUS
  <2>1. CASE k = Len(ns)
    BY <2>1, <1>4, <1>5 DEF Level
  <2>2. CASE k # Len(ns)
    <3>1. k + 1 \in 1 .. Len(ns) /\ k # Len(ms)
      BY <2>2, <1>4
    <3> QED
      BY <2>2, <3>1, <1>4, Zenon DEF Level
  <2> QED
    BY <2>1, <2>2
<1>7. \A k \in 0 .. Len(ns) : Above(c, ms, k) = Above(c, ns, k)
  <2> SUFFICES ASSUME NEW k \in 0 .. Len(ns) PROVE Above(c, ms, k) = Above(c, ns, k)
    OBVIOUS
  <2>1. \A n \in 1 .. k : n \in 1 .. Len(ns)
    BY <1>4
  <2>2. \A n \in 1 .. k : ms[n] = ns[n]
    BY <2>1, <1>4, Zenon
  <2>3. {ms[n].ceiling : n \in 1 .. k} = {ns[n].ceiling : n \in 1 .. k}
    BY <2>2
  <2> QED
    BY <2>3, Zenon DEF Above
<1>8. IsHighest(m, Above(c, ms, Len(ms)))
  <2>1. IsHighest(p, Above(c, ns, Len(ns))) /\ Above(c, ns, Len(ns)) \in SUBSET Priority
    <3>1. Len(ns) \in 0 .. Len(ns)
      BY <1>4
    <3> QED
      BY <3>1, <1>1, AboveIs DEF LevelsOK, Level
  <2>2. IsHighest(StatusMax(a, b), {a} \cup {b})
    BY <1>3, OneHighest, MaxHighest, Zenon
  <2>3. IsHighest(m, Above(c, ns, Len(ns)) \cup ({a} \cup {b}))
    BY <2>1, <2>2, <1>3, MaxHighest
  <2>4. Above(c, ms, Len(ms)) = Above(c, ns, Len(ns)) \cup ({a} \cup {b})
    <3>1. {ms[n].ceiling : n \in 1 .. Len(ms)} = {ns[n].ceiling : n \in 1 .. Len(ns)} \cup {a}
      BY <1>4, <1>5
    <3>2. Len(ms) # 0
      BY <1>4
    <3> QED
      BY <3>1, <3>2 DEF Above, b
  <2> QED
    BY <2>3, <2>4, Zenon
<1> HIDE DEF m
<1>9. LevelsOK(c, ms, m)
  <2> SUFFICES ASSUME NEW k \in 0 .. Len(ms) PROVE IsHighest(Level(ms, m, k), Above(c, ms, k))
    BY Zenon DEF LevelsOK
  <2>1. CASE k = Len(ms)
    BY <2>1, <1>8, Zenon DEF Level
  <2>2. CASE k # Len(ms)
    <3>1. k \in 0 .. Len(ns)
      BY <2>2, <1>4
    <3> QED
      BY <3>1, <1>1, <1>6, <1>7, Zenon DEF LevelsOK
  <2> QED
    BY <2>1, <2>2
<1>10. m \in PriorityStatus
  <2>1. Len(ms) \in 0 .. Len(ms)
    BY <1>4
  <2> QED
    BY <2>1, <1>4, <1>8, AboveIs, HighestIs
<1>11. ContextOK(c, FromStatusPair(m, q), ms, os, "entering")
  BY <1>1, <1>9, <1>10, Zenon DEF ContextOK
<1>12. FromStatusPair(m, q) \in [lo : Halves, hi : Halves]
  BY <1>10, PairBack
<1> QED
  BY <1>2, <1>4, <1>11, <1>12, Zenon DEF m, ms, s, a, b

\* set_nesting_lock_priority
LEMMA LeaveOK ==
  ASSUME NEW c \in Contexts, NEW w, NEW ns \in Sections, NEW os, ns # <<>>,
         ContextOK(c, w, ns, os, "run"),
         NEW new, new = FromStatusPair(Last(ns).saved, ToStatusPair(w)[2])
  PROVE  /\ ContextOK(c, new, Front(ns), os, "leaving") /\ Front(ns) \in Sections
         /\ new \in [lo : Halves, hi : Halves]
<1>1. PICK p, q \in PriorityStatus :
        /\ w = FromStatusPair(p, q) /\ LevelsOK(c, ns, p) /\ q = OwnedPriority(os)
        /\ Descending(os, LockRank) /\ Distinct(os)
  BY Zenon DEF ContextOK
<1>2. ToStatusPair(w)[2] = q
  BY <1>1, WordIs, Zenon
<1> DEFINE m == Last(ns).saved
           ms == Front(ns)
<1>3. /\ Last(ns) = ns[Len(ns)] /\ Last(ns) \in [ceiling : Priority, saved : PriorityStatus]
      /\ Len(ns) \in Nat /\ Len(ns) >= 1 /\ ms \in Sections /\ Len(ms) = Len(ns) - 1
      /\ \A n \in 1 .. Len(ns) - 1 : ms[n] = ns[n]
  BY LastFront, Zenon DEF Sections
<1>4. m \in PriorityStatus /\ m = ns[Len(ns)].saved
  BY <1>3
<1> HIDE DEF m, ms
<1>5. LevelsOK(c, ms, m)
  <2> SUFFICES ASSUME NEW k \in 0 .. Len(ms) PROVE IsHighest(Level(ms, m, k), Above(c, ms, k))
    BY Zenon DEF LevelsOK
  <2>1. k \in 0 .. Len(ns) /\ k # Len(ns) /\ k \in Nat
    BY <1>3
  <2>2. Level(ms, m, k) = Level(ns, p, k)
    <3>1. CASE k = Len(ms)
      <4>1. k + 1 = Len(ns)
        BY <3>1, <1>3
      <4> QED
        BY <3>1, <4>1, <1>4, <2>1, Zenon DEF Level
    <3>2. CASE k # Len(ms)
      <4>1. k + 1 \in 1 .. Len(ns) - 1
        BY <3>2, <1>3
      <4> QED
        BY <3>2, <4>1, <1>3, <2>1, Zenon DEF Level
    <3> QED
      BY <3>1, <3>2
  <2>3. Above(c, ms, k) = Above(c, ns, k)
    <3>1. \A n \in 1 .. k : n \in 1 .. Len(ns) - 1
      BY <1>3
    <3>2. \A n \in 1 .. k : ms[n] = ns[n]
      BY <3>1, <1>3, Zenon
    <3>3. {ms[n].ceiling : n \in 1 .. k} = {ns[n].ceiling : n \in 1 .. k}
      BY <3>2
    <3> QED
      BY <3>3, Zenon DEF Above
  <2> QED
    BY <2>1, <2>2, <2>3, <1>1, Zenon DEF LevelsOK
<1>6. ContextOK(c, FromStatusPair(m, q), ms, os, "leaving")
  BY <1>1, <1>4, <1>5, Zenon DEF ContextOK
<1>7. FromStatusPair(m, q) \in [lo : Halves, hi : Halves]
  BY <1>4, PairBack
<1> QED
  BY <1>2, <1>3, <1>6, <1>7, Zenon DEF m, ms

LEMMA RankIs ==
  /\ LockRank \in [Locks -> Int]
  /\ \A l, k \in Locks : Less(Ceiling[l], Ceiling[k]) <=> LockRank[l] < LockRank[k]
<1>1. \A l \in Locks : Ceiling[l] \in Priority
  BY CeilingsAssumption
<1>2. \A l \in Locks : IntoAny(Ceiling[l]) \in Int
  BY <1>1, Forms
<1>3. \A l, k \in Locks : Less(Ceiling[l], Ceiling[k]) <=> IntoAny(Ceiling[l]) < IntoAny(Ceiling[k])
  BY <1>1, LessIsOrder, Zenon
<1> QED
  BY <1>2, <1>3 DEF LockRank

\* acquire_scoped_lock
LEMMA LockOK ==
  ASSUME NEW c \in Contexts, NEW w, NEW ns, NEW os \in Seq(Locks), NEW l \in Locks, l \notin Items(os),
         ContextOK(c, w, ns, os, "run"),
         NEW P, P = {k \in Locks : Less(Ceiling[l], Ceiling[k])}
  PROVE  /\ ContextOK(c, w, ns, InsertAfter(os, l, P), "update") /\ InsertAfter(os, l, P) \in Seq(Locks)
         /\ Items(InsertAfter(os, l, P)) = Items(os) \cup {l}
<1> DEFINE new == InsertAfter(os, l, P)
<1>1. PICK p, q \in PriorityStatus :
        /\ w = FromStatusPair(p, q) /\ LevelsOK(c, ns, p)
        /\ Descending(os, LockRank) /\ Distinct(os)
  BY Zenon DEF ContextOK
<1>2. /\ \A u \in Locks : u \in P => LockRank[u] >= LockRank[l]
      /\ \A u \in Locks : u \notin P => LockRank[u] <= LockRank[l]
  BY RankIs
<1>3. Descending(new, LockRank)
  BY <1>1, <1>2, RankIs, InsertAfterDescending
<1>4. new \in Seq(Locks) /\ Items(new) = Items(os) \cup {l} /\ Distinct(new)
  BY <1>1, InsertAfterItems
<1> HIDE DEF new
<1>5. ContextOK(c, w, ns, new, "update")
  BY <1>1, <1>3, <1>4, Zenon DEF ContextOK
<1> QED
  BY <1>4, <1>5 DEF new

\* release_scoped_lock
LEMMA UnlockOK ==
  ASSUME NEW c \in Contexts, NEW w, NEW ns, NEW os \in Seq(Locks), NEW l \in Items(os),
         ContextOK(c, w, ns, os, "run")
  PROVE  /\ ContextOK(c, w, ns, Unlink(os, l), "update") /\ Unlink(os, l) \in Seq(Locks)
         /\ Items(Unlink(os, l)) \subseteq Items(os)
<1>1. PICK p, q \in PriorityStatus :
        /\ w = FromStatusPair(p, q) /\ LevelsOK(c, ns, p)
        /\ Descending(os, LockRank) /\ Distinct(os)
  BY Zenon DEF ContextOK
<1>2. Descending(Unlink(os, l), LockRank)
  BY <1>1, UnlinkDescending, Zenon
<1>3. Unlink(os, l) \in Seq(Locks) /\ Items(Unlink(os, l)) = Items(os) \ {l} /\ Distinct(Unlink(os, l))
  BY <1>1, UnlinkItems, Zenon
<1>4. ContextOK(c, w, ns, Unlink(os, l), "update")
  BY <1>1, <1>2, <1>3, Zenon DEF ContextOK
<1> QED
  BY <1>3, <1>4

\* The head of the list has the highest ceiling.
LEMMA HeadHighest ==
  ASSUME NEW os \in Seq(Locks), Descending(os, LockRank)
  PROVE  /\ IsHighest(OwnedPriority(os), {Ceiling[l] : l \in Items(os)})
         /\ {Ceiling[l] : l \in Items(os)} \in SUBSET Priority
         /\ OwnedPriority(os) \in PriorityStatus
<1> DEFINE S == {Ceiling[l] : l \in Items(os)}
<1>1. Items(os) \subseteq Locks
  BY DEF Items
<1>2. S \in SUBSET Priority
  BY <1>1, CeilingsAssumption
<1>3. IsHighest(OwnedPriority(os), S)
  <2>1. CASE os = <<>>
    <3>1. S = {}
      BY <2>1 DEF Items
    <3> QED
      BY <2>1, <3>1, Zenon DEF IsHighest, OwnedPriority
  <2>2. CASE os # <<>>
    <3>1. Len(os) \in Nat /\ Len(os) >= 1 /\ Head(os) = os[1] /\ os[1] \in Locks
      BY <2>2
    <3>2. OwnedPriority(os) = Ceiling[os[1]] /\ os[1] \in Items(os)
      BY <2>2, <3>1 DEF OwnedPriority, Items
    <3>3. ASSUME NEW l \in Items(os) PROVE ~Less(Ceiling[os[1]], Ceiling[l])
      <4>1. PICK i \in 1 .. Len(os) : os[i] = l
        BY ItemsOf
      <4>2. l \in Locks
        BY <1>1
      <4>3. i = 1 \/ LockRank[os[1]] >= LockRank[l]
        BY <4>1, <3>1 DEF Descending
      <4>4. ~(LockRank[os[1]] < LockRank[l])
        BY <4>1, <4>2, <4>3, <3>1, RankIs
      <4> QED
        BY <4>2, <4>4, <3>1, RankIs, Zenon
    <3> QED
      BY <3>2, <3>3, Zenon DEF IsHighest
  <2> QED
    BY <2>1, <2>2
<1> QED
  BY <1>2, <1>3, HighestIs

\* update_owned_lock_priority
LEMMA UpdateOK ==
  ASSUME NEW c \in Contexts, NEW w, NEW ns, NEW os \in Seq(Locks),
         ContextOK(c, w, ns, os, "update"),
         NEW new, new = FromStatusPair(ToStatusPair(w)[1], OwnedPriority(os))
  PROVE  ContextOK(c, new, ns, os, "set") /\ new \in [lo : Halves, hi : Halves]
<1>1. PICK p, q \in PriorityStatus :
        /\ w = FromStatusPair(p, q) /\ LevelsOK(c, ns, p)
        /\ Descending(os, LockRank) /\ Distinct(os)
  BY Zenon DEF ContextOK
<1>2. ToStatusPair(w)[1] = p
  BY <1>1, WordIs, Zenon
<1>3. OwnedPriority(os) \in PriorityStatus
  BY <1>1, HeadHighest, Zenon
<1>4. ContextOK(c, FromStatusPair(p, OwnedPriority(os)), ns, os, "set")
  BY <1>1, <1>3, Zenon DEF ContextOK
<1> QED
  BY <1>2, <1>3, <1>4, PairBack

\* A step between two places where the halves agree with the list
LEMMA MoveOK ==
  ASSUME NEW c, NEW w, NEW ns, NEW os, NEW at, NEW to, at # "update", ContextOK(c, w, ns, os, at)
  PROVE  ContextOK(c, w, ns, os, to)
BY Zenon DEF ContextOK

\* The lock priority is the highest ceiling.
LEMMA PriorityIs ==
  ASSUME NEW c \in Contexts, word[c] \in [lo : Halves, hi : Halves],
         NEW at, at # "update", nested[c] \in Sections, owned[c] \in Seq(Locks),
         ContextOK(c, word[c], nested[c], owned[c], at)
  PROVE  LET all == Held(c) \cup (IF c = Main /\ nested[c] = <<>> THEN {} ELSE {Base(c)})
         IN  /\ IsHighest(LockPriority(c), all) /\ all \in SUBSET Priority
             /\ LockPriority(c) \in PriorityStatus
<1> DEFINE ns == nested[c]
           os == owned[c]
           U == {Ceiling[l] : l \in Items(os)}
           all == Held(c) \cup (IF c = Main /\ nested[c] = <<>> THEN {} ELSE {Base(c)})
<1>1. PICK p, q \in PriorityStatus :
        /\ word[c] = FromStatusPair(p, q) /\ LevelsOK(c, ns, p) /\ q = OwnedPriority(os)
        /\ Descending(os, LockRank)
  BY Zenon DEF ContextOK
<1>2. LockPriority(c) = StatusMax(p, q)
  <2>1. ToStatusPair(word[c])[1] = p /\ ToStatusPair(word[c])[2] = q
    BY <1>1, WordIs, Zenon
  <2> QED
    BY <2>1, Zenon DEF LockPriority
<1>3. IsHighest(q, U) /\ U \in SUBSET Priority
  BY <1>1, HeadHighest
<1>4. Len(ns) \in Nat /\ Len(ns) \in 0 .. Len(ns)
  BY DEF Sections
<1>5. IsHighest(p, Above(c, ns, Len(ns))) /\ Above(c, ns, Len(ns)) \in SUBSET Priority
  BY <1>1, <1>4, AboveIs DEF LevelsOK, Level
<1>6. IsHighest(StatusMax(p, q), Above(c, ns, Len(ns)) \cup U)
  BY <1>3, <1>5, MaxHighest
<1>7. all = Above(c, ns, Len(ns)) \cup U
  <2>1. {s.ceiling : s \in Items(ns)} = {ns[n].ceiling : n \in 1 .. Len(ns)}
    <3>1. DOMAIN ns = 1 .. Len(ns)
      BY DEF Sections
    <3> QED
      BY <3>1 DEF Items
  <2>2. ns = <<>> <=> Len(ns) = 0
    BY DEF Sections
  <2> QED
    BY <2>1, <2>2, Zenon DEF Above, Held
<1>8. IsHighest(LockPriority(c), all) /\ all \in SUBSET Priority
  BY <1>2, <1>3, <1>5, <1>6, <1>7, Zenon
<1> HIDE DEF all
<1>9. LockPriority(c) \in PriorityStatus
  BY <1>8, HighestIs
<1> QED
  BY <1>8, <1>9 DEF all

-----------------------------------------------------------------------------
(* The inductive invariant                                                 *)

WordsOK == \A c \in Contexts : ContextOK(c, word[c], nested[c], owned[c], pc[c])

\* A handler that is not active, or is about to complete, holds nothing.
StackOK ==
  /\ Len(stack) >= 1 /\ stack[1] = Main /\ Distinct(stack)
  /\ \A c \in Contexts :
       /\ c \notin Items(stack) => pc[c] = "run"
       /\ c \notin Items(stack) \/ pc[c] = "completing" => nested[c] = <<>> /\ owned[c] = <<>>
       /\ pc[c] \notin {"update", "set"} => taking[c] = NoLock

\* The threshold of the j-th context of the stack: the register for the innermost, the
\* claim of the next for the others
Threshold(j) == IF j = Len(stack) THEN threshold ELSE claims[j]

\* The thresholds ascend, and each is below the interrupts that came over it.
OrderOK ==
  hal = "plic" =>
    /\ Len(claims) = Len(stack) - 1
    /\ \A j, k \in 1 .. Len(stack) :
         j < k => Threshold(j) <= Threshold(k) /\ Threshold(j) < HwPriority[stack[k]]
    /\ \A k \in 2 .. Len(stack) :
         /\ pc[stack[k]] = "completing" => Threshold(k) = Threshold(k - 1)
         /\ pc[stack[k]] # "completing" => HwPriority[stack[k]] <= Threshold(k)

\* The ceilings in force in a context are at most its threshold, as long as the thread
\* attaches handlers only while it holds no lock: attach writes the threshold of the handler.
ForceOK ==
  hal = "plic" /\ ~AttachLocked =>
    \A k \in 1 .. Len(stack) : \A p \in InForce(stack[k]) :
      p.kind = "Interrupt" => p.value <= Threshold(k)

\* The interrupts of the nvic have one priority, so they do not nest.
NvicOK == hal # "plic" => Len(stack) <= 2

IInv == TypeOK /\ WordsOK /\ StackOK /\ OrderOK /\ ForceOK /\ NvicOK

-----------------------------------------------------------------------------
(* Steps of the running context                                            *)

\* The running context is the last of the stack, and is there once.
LEMMA Running ==
  ASSUME IInv
  PROVE  /\ stack \in Seq(Contexts) /\ Len(stack) \in Nat /\ Len(stack) >= 1
         /\ Me = stack[Len(stack)] /\ Me \in Contexts /\ Me \in Items(stack)
         /\ \A k \in 1 .. Len(stack) : stack[k] \in Contexts /\ stack[k] \in Items(stack)
         /\ \A k \in 1 .. Len(stack) : k # Len(stack) => stack[k] # Me
         /\ \A k \in 1 .. Len(stack) : k # 1 => stack[k] \in Interrupts
         /\ Me = Main <=> Len(stack) = 1
         /\ Len(stack) \in 1 .. Len(stack) /\ (Me # Main => Len(stack) \in 2 .. Len(stack))
<1>1. stack \in Seq(Contexts) /\ Len(stack) \in Nat /\ Len(stack) >= 1 /\ stack[1] = Main /\ Distinct(stack)
  BY DEF IInv, TypeOK, StackOK
<1>2. Me = stack[Len(stack)]
  <2>1. stack # <<>>
    BY <1>1
  <2> QED
    BY <1>1, <2>1, LastFront, Zenon DEF Me
<1>3. \A k \in 1 .. Len(stack) : stack[k] \in Contexts /\ stack[k] \in Items(stack)
  BY <1>1, ItemsOf, ElementOf
<1>4. \A k \in 1 .. Len(stack) : k # Len(stack) => stack[k] # Me
  BY <1>1, <1>2 DEF Distinct
<1>5. \A k \in 1 .. Len(stack) : k # 1 => stack[k] # Main
  BY <1>1 DEF Distinct
<1>6. \A k \in 1 .. Len(stack) : k # 1 => stack[k] \in Interrupts
  BY <1>3, <1>5 DEF Contexts
<1>7. Len(stack) \in 1 .. Len(stack) /\ (Me = Main <=> Len(stack) = 1)
  <2>1. Len(stack) \in 1 .. Len(stack)
    BY <1>1
  <2>2. Me = Main => Len(stack) = 1
    BY <2>1, <1>2, <1>5, Zenon
  <2>3. Len(stack) = 1 => Me = Main
    BY <1>1, <1>2, Zenon
  <2> QED
    BY <2>1, <2>2, <2>3, Zenon
<1>8. Len(stack) # 1 => Len(stack) \in 2 .. Len(stack)
  BY <1>1
<1> QED
  BY <1>1, <1>2, <1>3, <1>4, <1>6, <1>7, <1>8, Zenon

LEMMA HwIs == \A i \in Interrupts : HwPriority[i] \in 0 .. 15 /\ i # Main /\ i \in Contexts
BY CeilingsAssumption DEF Contexts

LEMMA ThresholdIs ==
  ASSUME IInv, hal = "plic"
  PROVE  /\ \A k \in 1 .. Len(stack) : Threshold(k) \in 0 .. 255
         /\ Threshold(Len(stack)) = threshold
         /\ \A k \in 1 .. Len(stack) : k # Len(stack) => Threshold(k) = claims[k]
         /\ Len(claims) = Len(stack) - 1 /\ claims \in Seq(0 .. 255) /\ threshold \in 0 .. 255
<1>1. Len(claims) = Len(stack) - 1 /\ claims \in Seq(0 .. 255) /\ threshold \in 0 .. 255
  BY DEF IInv, TypeOK, OrderOK, Bytes
<1>2. /\ Threshold(Len(stack)) = threshold
      /\ \A k \in 1 .. Len(stack) : k # Len(stack) => Threshold(k) = claims[k]
  BY Zenon DEF Threshold
<1>3. \A k \in 1 .. Len(stack) : k # Len(stack) => claims[k] \in 0 .. 255
  <2> SUFFICES ASSUME NEW k \in 1 .. Len(stack), k # Len(stack) PROVE claims[k] \in 0 .. 255
    OBVIOUS
  <2>1. k \in 1 .. Len(claims)
    BY <1>1, Running
  <2> QED
    BY <1>1, <2>1, ElementOf, Zenon
<1>4. \A k \in 1 .. Len(stack) : Threshold(k) \in 0 .. 255
  BY <1>1, <1>2, <1>3, Zenon
<1> QED
  BY <1>1, <1>2, <1>4

\* The step changes the running context and, perhaps, the threshold.
Steps(c) ==
  /\ UNCHANGED <<hal, stack, claims>>
  /\ \A d \in Contexts : d # c =>
       /\ word'[d] = word[d] /\ nested'[d] = nested[d] /\ owned'[d] = owned[d]
       /\ pc'[d] = pc[d] /\ taking'[d] = taking[d]
  /\ ContextOK(c, word'[c], nested'[c], owned'[c], pc'[c])
  /\ pc[c] # "completing" /\ pc'[c] # "completing"
  /\ pc'[c] \notin {"update", "set"} => taking'[c] = NoLock

\* The threshold the step leaves keeps the running context's own priority and ceilings.
Masks(c) ==
  hal = "plic" =>
    /\ c \in Interrupts => HwPriority[c] <= threshold'
    /\ ~AttachLocked => \A p \in InForce(c)' : p.kind = "Interrupt" => p.value <= threshold'

LEMMA ForceStays ==
  ASSUME NEW c, nested'[c] = nested[c], owned'[c] = owned[c], pc'[c] = pc[c], taking'[c] = taking[c]
  PROVE  InForce(c)' = InForce(c)
BY Zenon DEF InForce

LEMMA OwnStep ==
  ASSUME IInv, TypeOK', NEW m, m = Me, Steps(m), Masks(m)
  PROVE  IInv'
<1>n. PICK n : n = Len(stack)
  BY Zenon
<1>0. /\ m \in Contexts /\ m \in Items(stack) /\ n \in Nat /\ n >= 1 /\ m = stack[n]
      /\ \A k \in 1 .. n : stack[k] \in Contexts /\ stack[k] \in Items(stack)
      /\ \A k \in 1 .. n : k # n => stack[k] # m
      /\ \A k \in 1 .. n : k # 1 => stack[k] \in Interrupts
  BY <1>n, Running, Zenon
<1>1. stack' = stack /\ hal' = hal /\ claims' = claims /\ Len(stack') = n
  BY <1>n DEF Steps
<1>s. Steps(m) /\ Masks(m)
  OBVIOUS
<1>2. WordsOK'
  <2> SUFFICES ASSUME NEW c \in Contexts
               PROVE  ContextOK(c, word'[c], nested'[c], owned'[c], pc'[c])
    BY Zenon DEF WordsOK
  <2>1. CASE c = m
    BY <2>1, <1>s, Zenon DEF Steps
  <2>2. CASE c # m
    BY <2>2, <1>s, Zenon DEF Steps, IInv, WordsOK
  <2> QED
    BY <2>1, <2>2
<1>3. StackOK'
  <2>1. Len(stack') >= 1 /\ stack'[1] = Main /\ Distinct(stack')
    BY <1>1 DEF IInv, StackOK
  <2>2. ASSUME NEW c \in Contexts
        PROVE  /\ c \notin Items(stack') => pc'[c] = "run"
               /\ c \notin Items(stack') \/ pc'[c] = "completing" => nested'[c] = <<>> /\ owned'[c] = <<>>
               /\ pc'[c] \notin {"update", "set"} => taking'[c] = NoLock
    <3>1. CASE c = m
      BY <3>1, <1>0, <1>1, <1>s, Zenon DEF Steps
    <3>2. CASE c # m
      BY <3>2, <1>1, <1>s, Zenon DEF Steps, IInv, StackOK
    <3> QED
      BY <3>1, <3>2
  <2> QED
    BY <2>1, <2>2, Zenon DEF StackOK
<1>4. hal = "plic" => /\ \A k \in 1 .. n : k # n => Threshold(k)' = Threshold(k)
                      /\ Threshold(n)' = threshold'
                      /\ \A k \in 1 .. n : Threshold(k) \in 0 .. 255
                      /\ Len(claims) = n - 1
  <2> SUFFICES ASSUME hal = "plic"
               PROVE  /\ \A k \in 1 .. n : k # n => Threshold(k)' = Threshold(k)
                      /\ Threshold(n)' = threshold'
                      /\ \A k \in 1 .. n : Threshold(k) \in 0 .. 255
                      /\ Len(claims) = n - 1
    OBVIOUS
  <2>1. (\A k \in 1 .. n : Threshold(k) \in 0 .. 255) /\ Len(claims) = n - 1
    BY <1>n, ThresholdIs
  <2>2. Threshold(n)' = threshold' /\ \A k \in 1 .. n : k # n => Threshold(k)' = Threshold(k)
    BY <1>n, <1>1, Zenon DEF Threshold
  <2> QED
    BY <2>1, <2>2
<1>5. threshold' \in 0 .. 255
  BY DEF TypeOK, Bytes
<1>6. OrderOK'
  <2> SUFFICES ASSUME hal = "plic" PROVE OrderOK'
    BY <1>1 DEF OrderOK
  <2>1. /\ \A j, k \in 1 .. n : j < k => Threshold(j) <= Threshold(k) /\ Threshold(j) < HwPriority[stack[k]]
        /\ \A k \in 2 .. n :
             /\ pc[stack[k]] = "completing" => Threshold(k) = Threshold(k - 1)
             /\ pc[stack[k]] # "completing" => HwPriority[stack[k]] <= Threshold(k)
    BY <1>n, Zenon DEF IInv, OrderOK
  <2>2. n # 1 => HwPriority[m] <= threshold' /\ HwPriority[m] \in 0 .. 15
    BY <1>0, <1>s, HwIs DEF Masks
  <2>3. ASSUME NEW j \in 1 .. n, NEW k \in 1 .. n, j < k
        PROVE  Threshold(j)' <= Threshold(k)' /\ Threshold(j)' < HwPriority[stack[k]]
    <3>1. j # n /\ Threshold(j)' = Threshold(j) /\ Threshold(j) < HwPriority[stack[k]]
      BY <2>1, <2>3, <1>0, <1>4
    <3>2. CASE k # n
      BY <3>1, <3>2, <2>1, <2>3, <1>4
    <3>3. CASE k = n
      <4>1. HwPriority[m] <= threshold' /\ HwPriority[m] \in 0 .. 15 /\ Threshold(j) \in 0 .. 255
        BY <2>2, <2>3, <3>3, <1>4
      <4>2. Threshold(k)' = threshold' /\ stack[k] = m
        BY <3>3, <1>0, <1>4
      <4>3. Threshold(j) < HwPriority[m]
        BY <3>1, <4>2
      <4>4. Threshold(j) <= threshold'
        BY <4>1, <4>3, <1>5
      <4> QED
        BY <3>1, <4>2, <4>3, <4>4
    <3> QED
      BY <3>2, <3>3
  <2>4. ASSUME NEW k \in 2 .. n
        PROVE  /\ pc'[stack[k]] = "completing" => Threshold(k)' = Threshold(k - 1)'
               /\ pc'[stack[k]] # "completing" => HwPriority[stack[k]] <= Threshold(k)'
    <3>1. k \in 1 .. n /\ k - 1 \in 1 .. n /\ k - 1 # n /\ n # 1
      BY <1>0
    <3>2. CASE k # n
      <4>1. pc'[stack[k]] = pc[stack[k]]
        BY <3>1, <3>2, <1>0, <1>s, Zenon DEF Steps
      <4> QED
        BY <3>1, <3>2, <4>1, <2>1, <1>4
    <3>3. CASE k = n
      <4>1. pc'[m] # "completing" /\ HwPriority[m] <= threshold'
        BY <3>1, <2>2, <1>s DEF Steps
      <4> QED
        BY <3>3, <4>1, <1>0, <1>4
    <3> QED
      BY <3>2, <3>3
  <2> QED
    BY <2>3, <2>4, <1>1, <1>4 DEF OrderOK
<1>7. ForceOK'
  <2> SUFFICES ASSUME hal = "plic", ~AttachLocked PROVE ForceOK'
    BY <1>1 DEF ForceOK
  <2> SUFFICES ASSUME NEW k \in 1 .. n, NEW p \in InForce(stack[k])', p.kind = "Interrupt"
               PROVE  p.value <= Threshold(k)'
    BY <1>1, Zenon DEF ForceOK
  <2>1. CASE k # n
    <3>1. InForce(stack[k])' = InForce(stack[k])
      <4>1. stack[k] \in Contexts /\ stack[k] # m
        BY <2>1, <1>0
      <4> QED
        BY <4>1, <1>1, <1>s, ForceStays, Zenon DEF Steps
    <3>2. p.value <= Threshold(k)
      BY <1>n, <3>1, Zenon DEF IInv, ForceOK
    <3> QED
      BY <2>1, <3>2, <1>4
  <2>2. CASE k = n
    <3>1. p \in InForce(m)'
      BY <2>2, <1>0, <1>1
    <3> QED
      BY <2>2, <3>1, <1>4, <1>s DEF Masks
  <2> QED
    BY <2>1, <2>2
<1>8. NvicOK'
  BY <1>1 DEF IInv, NvicOK
<1> QED
  BY <1>2, <1>3, <1>6, <1>7, <1>8 DEF IInv

\* InForce of a context with sections ns and locks os, that is at `at` and takes t
ForceOf(ns, os, at, t) ==
  {ns[n].ceiling : n \in 1 .. (IF at = "entering" THEN Len(ns) - 1 ELSE Len(ns))}
  \cup {Ceiling[l] : l \in Items(os) \ {t}}

Places == {"run", "entering", "leaving", "update", "set", "completing"}
Words == [lo : Halves, hi : Halves]

\* The values of the running context after a step, and what the step leaves alone
Becomes(m, w, ns, os, at, t) ==
  /\ word' = [word EXCEPT ![m] = w] /\ nested' = [nested EXCEPT ![m] = ns]
  /\ owned' = [owned EXCEPT ![m] = os] /\ pc' = [pc EXCEPT ![m] = at]
  /\ taking' = [taking EXCEPT ![m] = t] /\ UNCHANGED <<hal, stack, claims>>

LEMMA BecomesStep ==
  ASSUME IInv, NEW m, m = Me, NEW w \in Words, NEW ns \in Sections, NEW os \in Seq(Locks),
         NEW at \in Places, NEW t \in Locks \cup {NoLock}, Becomes(m, w, ns, os, at, t),
         threshold' \in Bytes, fault' \in {"none", "AlreadyInList"},
         phase' \in [Interrupts -> {"static", "attached", "enabled"}],
         ContextOK(m, w, ns, os, at), pc[m] # "completing", at # "completing",
         at \notin {"update", "set"} => t = NoLock,
         hal = "plic" =>
           /\ m \in Interrupts => HwPriority[m] <= threshold'
           /\ ~AttachLocked =>
                \A p \in ForceOf(ns, os, at, t) : p.kind = "Interrupt" => p.value <= threshold'
  PROVE  IInv'
<1>1. m \in Contexts
  BY Running
<1>2. /\ word \in [Contexts -> Words] /\ nested \in [Contexts -> Sections]
      /\ owned \in [Contexts -> Seq(Locks)] /\ pc \in [Contexts -> Places]
      /\ taking \in [Contexts -> Locks \cup {NoLock}] /\ stack \in Seq(Contexts) /\ claims \in Seq(Bytes)
  BY Zenon DEF IInv, TypeOK, Words, Sections, Places
<1>3. /\ word' \in [Contexts -> Words] /\ nested' \in [Contexts -> Sections]
      /\ owned' \in [Contexts -> Seq(Locks)] /\ pc' \in [Contexts -> Places]
      /\ taking' \in [Contexts -> Locks \cup {NoLock}]
  BY <1>1, <1>2 DEF Becomes
<1>4. TypeOK'
  BY <1>2, <1>3, Zenon DEF TypeOK, Becomes, Words, Sections, Places
<1>5. word'[m] = w /\ nested'[m] = ns /\ owned'[m] = os /\ pc'[m] = at /\ taking'[m] = t
  BY <1>1, <1>2 DEF Becomes
<1>6. ASSUME NEW d \in Contexts, d # m
      PROVE  /\ word'[d] = word[d] /\ nested'[d] = nested[d] /\ owned'[d] = owned[d]
             /\ pc'[d] = pc[d] /\ taking'[d] = taking[d]
  BY <1>1, <1>2, <1>6 DEF Becomes
<1>7. Steps(m)
  BY <1>5, <1>6, Zenon DEF Steps, Becomes
<1>8. InForce(m)' = ForceOf(ns, os, at, t)
  BY <1>5, Zenon DEF InForce, ForceOf
<1>9. Masks(m)
  BY <1>8, Zenon DEF Masks
<1> QED
  BY <1>4, <1>7, <1>9, OwnStep, Zenon

\* The threshold stays, and no ceiling is added to those in force.
LEMMA BecomesQuiet ==
  ASSUME IInv, NEW m, m = Me, NEW w \in Words, NEW ns \in Sections, NEW os \in Seq(Locks),
         NEW at \in Places, NEW t \in Locks \cup {NoLock}, Becomes(m, w, ns, os, at, t),
         UNCHANGED <<threshold, phase>>, fault' \in {"none", "AlreadyInList"},
         ContextOK(m, w, ns, os, at), pc[m] # "completing", at # "completing",
         at \notin {"update", "set"} => t = NoLock,
         ForceOf(ns, os, at, t) \subseteq InForce(m)
  PROVE  IInv'
<1>1. threshold' \in Bytes /\ phase' \in [Interrupts -> {"static", "attached", "enabled"}]
  BY DEF IInv, TypeOK
<1>2. ASSUME hal = "plic", m \in Interrupts PROVE HwPriority[m] <= threshold'
  <2>1. m = stack[Len(stack)] /\ Len(stack) \in 2 .. Len(stack)
    BY <1>2, Running, HwIs, Zenon
  <2>2. Threshold(Len(stack)) = threshold /\ threshold' = threshold
    BY <1>2, ThresholdIs, Zenon
  <2> QED
    BY <1>2, <2>1, <2>2, Zenon DEF IInv, OrderOK
<1>3. ASSUME hal = "plic", ~AttachLocked, NEW p \in ForceOf(ns, os, at, t), p.kind = "Interrupt" PROVE p.value <= threshold'
  <2>1. m = stack[Len(stack)] /\ Len(stack) \in 1 .. Len(stack)
    BY Running, Zenon
  <2>2. p \in InForce(stack[Len(stack)])
    BY <1>3, <2>1, Zenon
  <2>3. Threshold(Len(stack)) = threshold /\ threshold' = threshold
    BY <1>3, ThresholdIs, Zenon
  <2> QED
    BY <1>3, <2>1, <2>2, <2>3, Zenon DEF IInv, ForceOK
<1> QED
  BY <1>1, <1>2, <1>3, BecomesStep

\* What the invariant says of the running context
LEMMA Mine ==
  ASSUME IInv, NEW m, m = Me
  PROVE  /\ m \in Contexts /\ word[m] \in Words /\ nested[m] \in Sections /\ owned[m] \in Seq(Locks)
         /\ pc[m] \in Places /\ taking[m] \in Locks \cup {NoLock}
         /\ ContextOK(m, word[m], nested[m], owned[m], pc[m])
         /\ pc[m] = "run" => taking[m] = NoLock
         /\ InForce(m) = ForceOf(nested[m], owned[m], pc[m], taking[m])
         /\ word = [word EXCEPT ![m] = word[m]] /\ nested = [nested EXCEPT ![m] = nested[m]]
         /\ owned = [owned EXCEPT ![m] = owned[m]] /\ pc = [pc EXCEPT ![m] = pc[m]]
         /\ taking = [taking EXCEPT ![m] = taking[m]]
<1>1. m \in Contexts
  BY Running
<1>2. /\ word \in [Contexts -> Words] /\ nested \in [Contexts -> Sections]
      /\ owned \in [Contexts -> Seq(Locks)] /\ pc \in [Contexts -> Places]
      /\ taking \in [Contexts -> Locks \cup {NoLock}]
  BY Zenon DEF IInv, TypeOK, Words, Sections, Places
<1>3. /\ word[m] \in Words /\ nested[m] \in Sections /\ owned[m] \in Seq(Locks)
      /\ pc[m] \in Places /\ taking[m] \in Locks \cup {NoLock}
  BY <1>1, <1>2
<1>4. /\ word = [word EXCEPT ![m] = word[m]] /\ nested = [nested EXCEPT ![m] = nested[m]]
      /\ owned = [owned EXCEPT ![m] = owned[m]] /\ pc = [pc EXCEPT ![m] = pc[m]]
      /\ taking = [taking EXCEPT ![m] = taking[m]]
  BY <1>1, <1>2
<1>5. InForce(m) = ForceOf(nested[m], owned[m], pc[m], taking[m])
  BY Zenon DEF InForce, ForceOf
<1>6. ContextOK(m, word[m], nested[m], owned[m], pc[m]) /\ (pc[m] = "run" => taking[m] = NoLock)
  BY <1>1 DEF IInv, WordsOK, StackOK
<1> QED
  BY <1>1, <1>3, <1>4, <1>5, <1>6

LEMMA LockIs == \A l \in Locks : Ceiling[l] \in Priority /\ l # NoLock
BY CeilingsAssumption

LEMMA EnterStep ==
  ASSUME IInv, NEW l \in Locks, Enter(l)
  PROVE  IInv'
<1>1. PICK m : m = Me
  OBVIOUS
<1> DEFINE old == ToStatusPair(word[m])
           w == FromStatusPair(StatusMax(old[1], StatusMax(Ceiling[l], Base(m))), old[2])
           s == [ceiling |-> Ceiling[l], saved |-> old[1]]
           ns == Append(nested[m], s)
<1>2. pc[m] = "run"
  BY <1>1 DEF Enter, At
<1>3. w \in Words /\ ns \in Sections /\ ContextOK(m, w, ns, owned[m], "entering")
  <2>1. /\ m \in Contexts /\ nested[m] \in Sections
        /\ ContextOK(m, word[m], nested[m], owned[m], "run")
    BY <1>1, <1>2, Mine, Zenon
  <2> QED
    BY <2>1, EnterOK, Zenon DEF Words
<1>4. Becomes(m, w, ns, owned[m], "entering", NoLock)
  <2>1. /\ word' = [word EXCEPT ![m] = w] /\ nested' = [nested EXCEPT ![m] = ns]
        /\ pc' = [pc EXCEPT ![m] = "entering"] /\ UNCHANGED <<owned, taking, hal, stack, claims>>
    BY <1>1, Zenon DEF Enter, Goto
  <2> HIDE DEF w, ns
  <2> QED
    BY <1>1, <1>2, <2>1, Mine, Zenon DEF Becomes
<1>5. ForceOf(ns, owned[m], "entering", NoLock) \subseteq InForce(m)
  <2>1. nested[m] \in Sections /\ InForce(m) = ForceOf(nested[m], owned[m], "run", NoLock)
    BY <1>1, <1>2, Mine, Zenon
  <2>2. nested[m] \in Seq([ceiling : Priority, saved : PriorityStatus])
    BY <2>1 DEF Sections
  <2> HIDE DEF s
  <2>3. Len(nested[m]) \in Nat
    BY <2>2
  <2>4. Len(ns) - 1 = Len(nested[m]) /\ \A n \in 1 .. Len(nested[m]) : ns[n] = nested[m][n]
    <3>1. Len(ns) = Len(nested[m]) + 1 /\ \A n \in 1 .. Len(nested[m]) : ns[n] = nested[m][n]
      BY <2>2
    <3> HIDE DEF ns
    <3> QED
      BY <2>3, <3>1
  <2> HIDE DEF ns
  <2>5. {ns[n].ceiling : n \in 1 .. Len(ns) - 1} = {nested[m][n].ceiling : n \in 1 .. Len(nested[m])}
    BY <2>4
  <2> QED
    BY <2>1, <2>5, Zenon DEF ForceOf
<1>6. fault' \in {"none", "AlreadyInList"} /\ UNCHANGED <<threshold, phase>>
  BY Zenon DEF Enter, IInv, TypeOK
<1> HIDE DEF w, ns
<1>7. "entering" \in Places /\ "entering" # "completing" /\ pc[m] # "completing" /\ owned[m] \in Seq(Locks)
  BY <1>1, <1>2, Mine DEF Places
<1> QED
  BY <1>1, <1>3, <1>4, <1>5, <1>6, <1>7, BecomesQuiet, Zenon

LEMMA LeaveStep ==
  ASSUME IInv, Leave
  PROVE  IInv'
<1>1. PICK m : m = Me
  OBVIOUS
<1> DEFINE w == FromStatusPair(Last(nested[m]).saved, ToStatusPair(word[m])[2])
           ns == Front(nested[m])
<1>2. pc[m] = "run" /\ nested[m] # <<>>
  BY <1>1 DEF Leave, At
<1>3. w \in Words /\ ns \in Sections /\ ContextOK(m, w, ns, owned[m], "leaving")
  <2>1. /\ m \in Contexts /\ nested[m] \in Sections
        /\ ContextOK(m, word[m], nested[m], owned[m], "run")
    BY <1>1, <1>2, Mine
  <2> QED
    BY <1>2, <2>1, LeaveOK, Zenon DEF Words
<1>4. Becomes(m, w, ns, owned[m], "leaving", NoLock)
  <2>1. /\ word' = [word EXCEPT ![m] = w] /\ nested' = [nested EXCEPT ![m] = ns]
        /\ pc' = [pc EXCEPT ![m] = "leaving"] /\ UNCHANGED <<owned, taking, hal, stack, claims>>
    BY <1>1, Zenon DEF Leave, Goto
  <2> HIDE DEF w, ns
  <2> QED
    BY <1>1, <1>2, <2>1, Mine, Zenon DEF Becomes
<1>5. ForceOf(ns, owned[m], "leaving", NoLock) \subseteq InForce(m)
  <2>1. nested[m] \in Sections /\ InForce(m) = ForceOf(nested[m], owned[m], "run", NoLock)
    BY <1>1, <1>2, Mine, Zenon
  <2>2. /\ Len(nested[m]) \in Nat /\ Len(nested[m]) >= 1 /\ Len(ns) = Len(nested[m]) - 1
        /\ \A n \in 1 .. Len(nested[m]) - 1 : ns[n] = nested[m][n]
    BY <2>1, <1>2, LastFront, Zenon DEF Sections
  <2> HIDE DEF ns
  <2>3. {ns[n].ceiling : n \in 1 .. Len(ns)} \subseteq {nested[m][n].ceiling : n \in 1 .. Len(nested[m])}
    BY <2>2
  <2> QED
    BY <2>1, <2>3, Zenon DEF ForceOf
<1>6. fault' \in {"none", "AlreadyInList"} /\ UNCHANGED <<threshold, phase>>
  BY DEF Leave, IInv, TypeOK
<1> HIDE DEF w, ns
<1>7. "leaving" \in Places /\ "leaving" # "completing" /\ pc[m] # "completing" /\ owned[m] \in Seq(Locks)
  BY <1>1, <1>2, Mine DEF Places
<1> QED
  BY <1>1, <1>3, <1>4, <1>5, <1>6, <1>7, BecomesQuiet, Zenon

\* The list operations leave the sections alone.
LEMMA ListForce ==
  ASSUME NEW ns, NEW os, NEW r, NEW t, Items(r) \ {t} \subseteq Items(os) \ {NoLock}
  PROVE  ForceOf(ns, r, "update", t) \subseteq ForceOf(ns, os, "run", NoLock)
BY Zenon DEF ForceOf

LEMMA LockStep ==
  ASSUME IInv, NEW l \in Locks, Lock(l)
  PROVE  IInv'
<1>1. PICK m : m = Me
  OBVIOUS
<1>2. pc[m] = "run" /\ l \notin Items(owned[m])
  BY <1>1 DEF Lock, At
<1>3. CASE \E c \in Contexts : l \in Items(owned[c])
  <2>1. Becomes(m, word[m], nested[m], owned[m], "run", NoLock)
    <3>1. UNCHANGED <<word, nested, owned, pc, taking, hal, stack, claims>>
      BY <1>3, Zenon DEF Lock
    <3> QED
      BY <1>1, <1>2, <3>1, Mine, Zenon DEF Becomes
  <2>2. fault' \in {"none", "AlreadyInList"} /\ UNCHANGED <<threshold, phase>>
    BY <1>3 DEF Lock
  <2>3. /\ "run" \in Places /\ "run" # "completing" /\ pc[m] # "completing" /\ NoLock \in Locks \cup {NoLock}
    BY <1>2 DEF Places
  <2>4. /\ word[m] \in Words /\ nested[m] \in Sections /\ owned[m] \in Seq(Locks)
        /\ ContextOK(m, word[m], nested[m], owned[m], "run")
        /\ ForceOf(nested[m], owned[m], "run", NoLock) \subseteq InForce(m)
    BY <1>1, <1>2, Mine, Zenon
  <2> QED
    BY <1>1, <2>1, <2>2, <2>3, <2>4, BecomesQuiet, Zenon
<1>4. CASE ~\E c \in Contexts : l \in Items(owned[c])
  <2> DEFINE os == InsertAfter(owned[m], l, {k \in Locks : Less(Ceiling[l], Ceiling[k])})
  <2>1. Becomes(m, word[m], nested[m], os, "update", l)
    <3>1. /\ owned' = [owned EXCEPT ![m] = os] /\ taking' = [taking EXCEPT ![m] = l]
          /\ pc' = [pc EXCEPT ![m] = "update"] /\ UNCHANGED <<word, nested, hal, stack, claims>>
      BY <1>1, <1>4, Zenon DEF Lock, Goto
    <3> HIDE DEF os
    <3> QED
      BY <1>1, <1>2, <3>1, Mine, Zenon DEF Becomes
  <2>2. fault' \in {"none", "AlreadyInList"} /\ UNCHANGED <<threshold, phase>>
    BY <1>4 DEF Lock, IInv, TypeOK
  <2>3. /\ "update" \in Places /\ "update" # "completing" /\ pc[m] # "completing"
        /\ "update" \in {"update", "set"}
    BY <1>2 DEF Places
  <2>4. /\ word[m] \in Words /\ nested[m] \in Sections /\ owned[m] \in Seq(Locks) /\ m \in Contexts
        /\ ContextOK(m, word[m], nested[m], owned[m], "run")
        /\ ForceOf(nested[m], owned[m], "run", NoLock) = InForce(m)
    BY <1>1, <1>2, Mine, Zenon
  <2>5. ContextOK(m, word[m], nested[m], os, "update") /\ os \in Seq(Locks) /\ Items(os) = Items(owned[m]) \cup {l}
    <3>1. PICK P : P = {k \in Locks : Less(Ceiling[l], Ceiling[k])}
      BY Zenon
    <3>2. os = InsertAfter(owned[m], l, P)
      BY <3>1, Zenon
    <3> HIDE DEF os
    <3>3. /\ ContextOK(m, word[m], nested[m], InsertAfter(owned[m], l, P), "update")
          /\ InsertAfter(owned[m], l, P) \in Seq(Locks)
          /\ Items(InsertAfter(owned[m], l, P)) = Items(owned[m]) \cup {l}
      <4>1. /\ m \in Contexts /\ owned[m] \in Seq(Locks) /\ l \notin Items(owned[m])
            /\ ContextOK(m, word[m], nested[m], owned[m], "run")
        BY <1>2, <2>4, Zenon
      <4> QED
        BY <4>1, <3>1, LockOK
    <3> QED
      BY <3>2, <3>3, Zenon
  <2> HIDE DEF os
  <2>6. ForceOf(nested[m], os, "update", l) \subseteq InForce(m)
    <3>1. NoLock \notin Items(owned[m])
      BY <2>4, LockIs, ItemsOf, ElementOf
    <3>2. Items(os) \ {l} \subseteq Items(owned[m]) \ {NoLock}
      BY <2>5, <3>1
    <3>3. ForceOf(nested[m], os, "update", l) \subseteq ForceOf(nested[m], owned[m], "run", NoLock)
      BY <3>2, ListForce
    <3> QED
      BY <2>4, <3>3
  <2> QED
    BY <1>1, <2>1, <2>2, <2>3, <2>4, <2>5, <2>6, BecomesQuiet, Zenon
<1> QED
  BY <1>3, <1>4

LEMMA UnlockStep ==
  ASSUME IInv, NEW l \in Locks, Unlock(l)
  PROVE  IInv'
<1>1. PICK m : m = Me
  OBVIOUS
<1>2. pc[m] = "run" /\ l \in Items(owned[m])
  BY <1>1 DEF Unlock, At
<1> DEFINE os == Unlink(owned[m], l)
<1>3. Becomes(m, word[m], nested[m], os, "update", NoLock)
  <2>1. /\ owned' = [owned EXCEPT ![m] = os] /\ pc' = [pc EXCEPT ![m] = "update"]
        /\ UNCHANGED <<word, nested, taking, hal, stack, claims>>
    BY <1>1, Zenon DEF Unlock, Goto
  <2> HIDE DEF os
  <2> QED
    BY <1>1, <1>2, <2>1, Mine, Zenon DEF Becomes
<1>4. fault' \in {"none", "AlreadyInList"} /\ UNCHANGED <<threshold, phase>>
  BY DEF Unlock, IInv, TypeOK
<1>5. /\ "update" \in Places /\ "update" # "completing" /\ pc[m] # "completing"
      /\ NoLock \in Locks \cup {NoLock}
  BY <1>2 DEF Places
<1>6. /\ word[m] \in Words /\ nested[m] \in Sections /\ owned[m] \in Seq(Locks) /\ m \in Contexts
      /\ ContextOK(m, word[m], nested[m], owned[m], "run")
      /\ ForceOf(nested[m], owned[m], "run", NoLock) = InForce(m)
  BY <1>1, <1>2, Mine, Zenon
<1>7. ContextOK(m, word[m], nested[m], os, "update") /\ os \in Seq(Locks) /\ Items(os) \subseteq Items(owned[m])
  BY <1>2, <1>6, UnlockOK, Zenon
<1> HIDE DEF os
<1>8. ForceOf(nested[m], os, "update", NoLock) \subseteq InForce(m)
  <2>1. Items(os) \ {NoLock} \subseteq Items(owned[m]) \ {NoLock}
    BY <1>7
  <2>2. ForceOf(nested[m], os, "update", NoLock) \subseteq ForceOf(nested[m], owned[m], "run", NoLock)
    BY <2>1, ListForce
  <2> QED
    BY <1>6, <2>2
<1> QED
  BY <1>1, <1>3, <1>4, <1>5, <1>6, <1>7, <1>8, BecomesQuiet, Zenon

LEMMA UpdateStep ==
  ASSUME IInv, UpdateOwned
  PROVE  IInv'
<1>1. PICK m : m = Me
  OBVIOUS
<1>2. pc[m] = "update"
  BY <1>1 DEF UpdateOwned, At
<1> DEFINE w == FromStatusPair(ToStatusPair(word[m])[1], OwnedPriority(owned[m]))
<1>3. Becomes(m, w, nested[m], owned[m], "set", taking[m])
  <2>1. /\ word' = [word EXCEPT ![m] = w] /\ pc' = [pc EXCEPT ![m] = "set"]
        /\ UNCHANGED <<nested, owned, taking, hal, stack, claims>>
    BY <1>1, Zenon DEF UpdateOwned, Goto
  <2> HIDE DEF w
  <2> QED
    BY <1>1, <1>2, <2>1, Mine, Zenon DEF Becomes
<1>4. fault' \in {"none", "AlreadyInList"} /\ UNCHANGED <<threshold, phase>>
  BY DEF UpdateOwned, IInv, TypeOK
<1>5. /\ "set" \in Places /\ "set" # "completing" /\ pc[m] # "completing"
      /\ "set" \in {"update", "set"}
  BY <1>2 DEF Places
<1>6. /\ nested[m] \in Sections /\ owned[m] \in Seq(Locks) /\ taking[m] \in Locks \cup {NoLock}
      /\ InForce(m) = ForceOf(nested[m], owned[m], "update", taking[m])
  BY <1>1, <1>2, Mine, Zenon
<1>7. w \in Words /\ ContextOK(m, w, nested[m], owned[m], "set")
  <2>1. m \in Contexts /\ ContextOK(m, word[m], nested[m], owned[m], "update")
    BY <1>1, <1>2, Mine, Zenon
  <2> QED
    BY <1>6, <2>1, UpdateOK, Zenon DEF Words
<1> HIDE DEF w
<1>8. ForceOf(nested[m], owned[m], "set", taking[m]) \subseteq InForce(m)
  BY <1>6, Zenon DEF ForceOf
<1> QED
  BY <1>1, <1>3, <1>4, <1>5, <1>6, <1>7, <1>8, BecomesQuiet, Zenon

\* set_ceiling_threshold masks up to the highest ceiling, and in a handler up to its base.
LEMMA ThresholdMasks ==
  ASSUME NEW p \in PriorityStatus, NEW q \in Priority, q.kind = "Interrupt", p # Invalid, ~Less(p, q)
  PROVE  p.kind = "Interrupt" /\ q.value <= ThresholdFor(p) /\ ThresholdFor(p) \in 0 .. 255
<1>1. p \in Priority
  BY DEF PriorityStatus
<1>2. /\ p.kind \in {"Thread", "Interrupt"} /\ p.value \in 0 .. 255 /\ q.value \in 0 .. 255
  BY <1>1, PriorityFields
<1>3. p.kind = "Interrupt"
  BY <1>2 DEF Less
<1> DEFINE x == p.value
           y == q.value
<1>4. ~(x < y) /\ x \in 0 .. 255 /\ y \in 0 .. 255
  BY <1>2, <1>3, Zenon DEF Less
<1>5. ThresholdFor(p) = x
  BY <1>3, Zenon DEF ThresholdFor
<1> HIDE DEF x
<1>6. y <= x
  <2> HIDE DEF y
  <2> QED
    BY <1>4
<1> QED
  BY <1>3, <1>4, <1>5, <1>6, Zenon

LEMMA ThresholdTyped ==
  ASSUME NEW p \in PriorityStatus
  PROVE  ThresholdFor(p) \in Bytes
<1>1. CASE p \in Priority
  BY <1>1, PriorityFields DEF ThresholdFor, Bytes
<1>2. CASE p = Invalid
  BY <1>2 DEF ThresholdFor, Bytes, Invalid
<1> QED
  BY <1>1, <1>2 DEF PriorityStatus

LEMMA SetStep ==
  ASSUME IInv, SetThreshold
  PROVE  IInv'
<1>1. PICK m : m = Me
  OBVIOUS
<1>2. pc[m] \in {"entering", "leaving", "set"}
  BY <1>1 DEF SetThreshold, At
<1> DEFINE p == LockPriority(m)
           all == Held(m) \cup (IF m = Main /\ nested[m] = <<>> THEN {} ELSE {Base(m)})
<1>3. threshold' = ThresholdFor(p)
  BY <1>1, Zenon DEF SetThreshold
<1>4. Becomes(m, word[m], nested[m], owned[m], "run", NoLock)
  <2>1. /\ taking' = [taking EXCEPT ![m] = NoLock] /\ pc' = [pc EXCEPT ![m] = "run"]
        /\ UNCHANGED <<word, nested, owned, hal, stack, claims>>
    BY <1>1, Zenon DEF SetThreshold, Goto
  <2> QED
    BY <1>1, <2>1, Mine, Zenon DEF Becomes
<1>5. /\ m \in Contexts /\ word[m] \in Words /\ nested[m] \in Sections /\ owned[m] \in Seq(Locks)
      /\ ContextOK(m, word[m], nested[m], owned[m], pc[m]) /\ pc[m] # "update"
  BY <1>1, <1>2, Mine, Zenon
<1>6. IsHighest(p, all) /\ all \in SUBSET Priority /\ p \in PriorityStatus
  BY <1>5, PriorityIs, Zenon DEF Words
<1>7. ContextOK(m, word[m], nested[m], owned[m], "run")
  BY <1>5, MoveOK, Zenon
<1>8. threshold' \in Bytes
  BY <1>3, <1>6, ThresholdTyped
<1>9. fault' \in {"none", "AlreadyInList"} /\ phase' \in [Interrupts -> {"static", "attached", "enabled"}]
  BY DEF SetThreshold, IInv, TypeOK
<1>10. "run" \in Places /\ "run" # "completing" /\ pc[m] # "completing" /\ NoLock \in Locks \cup {NoLock}
  BY <1>2 DEF Places
<1>11. ASSUME NEW q \in all, q.kind = "Interrupt" PROVE q.value <= threshold'
  <2>1. q \in Priority /\ p # Invalid /\ ~Less(p, q)
    <3>1. p \in all /\ ~Less(p, q)
      BY <1>6, <1>11 DEF IsHighest
    <3>2. p \in Priority
      BY <1>6, <3>1
    <3>3. p.kind # "Invalid"
      BY <3>2, PriorityFields
    <3> QED
      BY <1>6, <3>1, <3>3 DEF Invalid
  <2> QED
    BY <1>3, <1>6, <1>11, <2>1, ThresholdMasks
<1>12. ASSUME m \in Interrupts PROVE HwPriority[m] <= threshold'
  <2>1. Base(m) \in all /\ Base(m) = Interrupt(HwPriority[m])
    BY <1>5, <1>12, BaseIs
  <2>2. Base(m).kind = "Interrupt" /\ Base(m).value = HwPriority[m]
    BY <2>1 DEF Interrupt
  <2> QED
    BY <1>11, <2>1, <2>2
<1>13. ForceOf(nested[m], owned[m], "run", NoLock) \subseteq all
  <2>1. {nested[m][n].ceiling : n \in 1 .. Len(nested[m])} \subseteq {s.ceiling : s \in Items(nested[m])}
    <3>1. DOMAIN nested[m] = 1 .. Len(nested[m])
      BY <1>5 DEF Sections
    <3> QED
      BY <3>1 DEF Items
  <2> QED
    BY <2>1, Zenon DEF ForceOf, Held
<1> HIDE DEF all, p
<1> QED
  BY <1>1, <1>4, <1>5, <1>7, <1>8, <1>9, <1>10, <1>11, <1>12, <1>13, BecomesStep, Zenon

\* A context that holds nothing has no ceiling in force.
LEMMA NoForce ==
  ASSUME NEW at, NEW t
  PROVE  ForceOf(<<>>, <<>>, at, t) = {}
<1>1. Items(<<>>) = {}
  BY DEF Items
<1>2. 1 .. (IF at = "entering" THEN Len(<<>>) - 1 ELSE Len(<<>>)) = {}
  BY Len(<<>>) = 0
<1> QED
  BY <1>1, <1>2 DEF ForceOf

LEMMA AttachStep ==
  ASSUME IInv, NEW i \in Interrupts, Attach(i)
  PROVE  IInv'
<1>1. PICK m : m = Me
  OBVIOUS
<1>2. pc[m] = "run" /\ m = Main /\ (~AttachLocked => nested[m] = <<>> /\ owned[m] = <<>>)
  BY <1>1 DEF Attach, At
<1>3. Becomes(m, word[m], nested[m], owned[m], "run", NoLock)
  <2>1. UNCHANGED <<word, nested, owned, pc, taking, hal, stack, claims>>
    BY Zenon DEF Attach
  <2> QED
    BY <1>1, <1>2, <2>1, Mine, Zenon DEF Becomes
<1>4. /\ word[m] \in Words /\ nested[m] \in Sections /\ owned[m] \in Seq(Locks)
      /\ ContextOK(m, word[m], nested[m], owned[m], "run")
  BY <1>1, <1>2, Mine, Zenon
<1>5. threshold' \in Bytes
  <2>1. i \in Contexts
    BY DEF Contexts
  <2>2. pc[i] # "update" /\ word[i] \in Words /\ nested[i] \in Sections /\ owned[i] \in Seq(Locks)
        /\ ContextOK(i, word[i], nested[i], owned[i], pc[i])
    <3>1. i \notin Items(stack)
      <4>1. Len(stack) = 1 /\ stack \in Seq(Contexts) /\ stack[1] = Main /\ i # Main
        BY <1>1, <1>2, Running, HwIs, Zenon
      <4> QED
        BY <4>1, ItemsOf
    <3> QED
      BY <2>1, <3>1 DEF IInv, StackOK, WordsOK, TypeOK, Words, Sections
  <2>3. LockPriority(i) \in PriorityStatus
    BY <2>1, <2>2, PriorityIs, Zenon DEF Words
  <2> QED
    BY <2>3, ThresholdTyped DEF Attach
<1>6. fault' \in {"none", "AlreadyInList"} /\ phase' \in [Interrupts -> {"static", "attached", "enabled"}]
  BY DEF Attach, IInv, TypeOK
<1>7. /\ "run" \in Places /\ "run" # "completing" /\ pc[m] # "completing" /\ NoLock \in Locks \cup {NoLock}
      /\ m \notin Interrupts
  BY <1>2, HwIs DEF Places
<1>8. ~AttachLocked => ForceOf(nested[m], owned[m], "run", NoLock) = {}
  BY <1>2, NoForce
<1> QED
  BY <1>1, <1>3, <1>4, <1>5, <1>6, <1>7, <1>8, BecomesStep

LEMMA EnableStep ==
  ASSUME IInv, NEW i \in Interrupts, Enable(i)
  PROVE  IInv'
<1>1. UNCHANGED <<hal, stack, word, nested, owned, pc, taking, threshold, claims, fault>>
  BY Zenon DEF Enable
<1>2. phase' \in [Interrupts -> {"static", "attached", "enabled"}]
  BY DEF Enable, IInv, TypeOK
<1>3. TypeOK'
  BY <1>1, <1>2, Zenon DEF IInv, TypeOK
<1>4. WordsOK' /\ StackOK' /\ NvicOK'
  BY <1>1, Zenon DEF IInv, WordsOK, StackOK, NvicOK
<1>5. OrderOK'
  BY <1>1, Zenon DEF IInv, OrderOK, Threshold
<1>6. ForceOK'
  <2> SUFFICES ASSUME hal = "plic", ~AttachLocked, NEW k \in 1 .. Len(stack), NEW p \in InForce(stack[k])',
                      p.kind = "Interrupt"
               PROVE  p.value <= Threshold(k)'
    BY <1>1, Zenon DEF ForceOK
  <2>1. InForce(stack[k])' = InForce(stack[k])
    BY <1>1, ForceStays, Zenon
  <2>2. Threshold(k)' = Threshold(k)
    BY <1>1, Zenon DEF Threshold
  <2> QED
    BY <2>1, <2>2 DEF IInv, ForceOK
<1> QED
  BY <1>3, <1>4, <1>5, <1>6 DEF IInv

-----------------------------------------------------------------------------
(* Interrupts                                                              *)

\* What the invariant says of an interrupt that is not active
LEMMA Idle ==
  ASSUME IInv, NEW i \in Contexts, i \notin Items(stack)
  PROVE  pc[i] = "run" /\ nested[i] = <<>> /\ owned[i] = <<>> /\ InForce(i) = {}
<1>1. pc[i] = "run" /\ nested[i] = <<>> /\ owned[i] = <<>>
  BY DEF IInv, StackOK
<1>2. InForce(i) = ForceOf(nested[i], owned[i], pc[i], taking[i])
  BY Zenon DEF InForce, ForceOf
<1> QED
  BY <1>1, <1>2, NoForce

\* The nvic lets an interrupt in over the thread only.
LEMMA NvicOnce ==
  ASSUME IInv, NEW i \in Interrupts, hal # "plic", LetIn(i)
  PROVE  Len(stack) = 1
<1>1. NvicLetsIn(i)
  BY Zenon DEF LetIn
<1>2. ASSUME NEW h \in Interrupts PROVE NvicPriority(HwPriority[h]) = 0
  <2> DEFINE x == HwPriority[h]
  <2>1. x \in 0 .. 15
    BY HwIs
  <2> HIDE DEF x
  <2>2. (15 - x) \div 16 = 0
    BY <2>1
  <2>3. NvicPriority(x) = 0
    BY <2>2 DEF NvicPriority, NVIC_PRIO_MAX
  <2> QED
    BY <2>3 DEF x
<1>3. Len(stack) \in Nat /\ Len(stack) >= 1
  BY Running
<1>4. ASSUME Len(stack) # 1 PROVE FALSE
  <2>1. 2 \in 2 .. Len(stack) /\ stack[2] \in Interrupts
    <3> DEFINE n == Len(stack)
    <3>0. n \in Nat /\ n >= 1 /\ n # 1
      BY <1>3, <1>4
    <3> HIDE DEF n
    <3>1. 2 \in 2 .. n /\ 2 \in 1 .. n /\ 2 # 1
      BY <3>0
    <3> USE DEF n
    <3> QED
      BY <3>1, Running, Zenon
  <2>2. NvicPriority(HwPriority[i]) < NvicPriority(HwPriority[stack[2]])
    BY <1>1, <2>1, Zenon DEF NvicLetsIn
  <2>3. NvicPriority(HwPriority[i]) = 0 /\ NvicPriority(HwPriority[stack[2]]) = 0
    BY <1>2, <2>1
  <2> QED
    BY <2>2, <2>3
<1> QED
  BY <1>4

LEMMA ClaimStep ==
  ASSUME IInv, NEW i \in Interrupts, Claim(i)
  PROVE  IInv'
<1>n. PICK n : n = Len(stack)
  BY Zenon
<1>1. /\ i \notin Items(stack) /\ stack' = Append(stack, i) /\ LetIn(i)
      /\ UNCHANGED <<hal, phase, word, nested, owned, pc, taking, fault>>
  BY Zenon DEF Claim
<1>2. /\ stack \in Seq(Contexts) /\ n \in Nat /\ n >= 1 /\ i \in Contexts
      /\ \A k \in 1 .. n : stack[k] \in Contexts
  BY <1>n, Running, HwIs
<1>3. /\ stack' \in Seq(Contexts) /\ Len(stack') = n + 1 /\ stack'[n + 1] = i
      /\ \A k \in 1 .. n : stack'[k] = stack[k]
  BY <1>n, <1>1, <1>2
<1>4. Items(stack') = Items(stack) \cup {i} /\ Distinct(stack')
  BY <1>1, <1>2, AppendItems DEF IInv, StackOK
<1>5. TypeOK'
  <2>1. threshold' \in Bytes /\ claims' \in Seq(Bytes)
    <3>1. HwPriority[i] \in Bytes /\ threshold \in Bytes /\ claims \in Seq(Bytes)
      BY HwIs DEF IInv, TypeOK, Bytes
    <3>2. CASE hal = "plic"
      <4>1. claims' = Append(claims, threshold) /\ threshold' = HwPriority[i]
        BY <3>2, Zenon DEF Claim
      <4> QED
        BY <3>1, <4>1
    <3>3. CASE hal # "plic"
      BY <3>1, <3>3, Zenon DEF Claim
    <3> QED
      BY <3>2, <3>3
  <2> QED
    BY <1>1, <1>3, <2>1, Zenon DEF IInv, TypeOK
<1>6. WordsOK'
  BY <1>1, Zenon DEF IInv, WordsOK
<1>7. StackOK'
  <2>1. Len(stack') >= 1 /\ stack'[1] = Main
    BY <1>2, <1>3 DEF IInv, StackOK
  <2>2. pc'[i] = "run" /\ nested'[i] = <<>> /\ owned'[i] = <<>>
    BY <1>1, <1>2, Idle, Zenon
  <2> QED
    BY <1>1, <1>4, <2>1, <2>2 DEF IInv, StackOK
<1>8. NvicOK'
  BY <1>1, <1>n, <1>3, NvicOnce DEF NvicOK
<1>9. CASE hal # "plic"
  <2>1. OrderOK' /\ ForceOK'
    BY <1>9, <1>1 DEF OrderOK, ForceOK
  <2> QED
    BY <1>5, <1>6, <1>7, <1>8, <2>1 DEF IInv
<1>10. CASE hal = "plic"
  <2>1. claims' = Append(claims, threshold) /\ threshold' = HwPriority[i] /\ threshold < HwPriority[i]
    BY <1>1, <1>10 DEF Claim, LetIn, PlicLetsIn
  <2>2. /\ \A k \in 1 .. n : Threshold(k) \in 0 .. 255
        /\ Threshold(n) = threshold
        /\ \A k \in 1 .. n : k # n => Threshold(k) = claims[k]
        /\ Len(claims) = n - 1 /\ claims \in Seq(0 .. 255) /\ threshold \in 0 .. 255
    BY <1>10, <1>n, ThresholdIs
  <2>3. Len(claims') = n /\ claims'[n] = threshold /\ \A k \in 1 .. n : k # n => claims'[k] = claims[k]
    BY <2>1, <2>2, <1>2
  <2>4. Threshold(n + 1)' = HwPriority[i] /\ \A k \in 1 .. n : Threshold(k)' = Threshold(k)
    <3>1. Threshold(n + 1)' = HwPriority[i]
      BY <1>3, <2>1 DEF Threshold
    <3>2. ASSUME NEW k \in 1 .. n PROVE Threshold(k)' = Threshold(k)
      <4>1. k # Len(stack')
        BY <1>2, <1>3
      <4>2. Threshold(k)' = claims'[k]
        BY <4>1, Zenon DEF Threshold
      <4> QED
        BY <4>2, <2>2, <2>3
    <3> QED
      BY <3>1, <3>2
  <2>5. /\ \A j, k \in 1 .. n : j < k => Threshold(j) <= Threshold(k) /\ Threshold(j) < HwPriority[stack[k]]
        /\ \A k \in 2 .. n :
             /\ pc[stack[k]] = "completing" => Threshold(k) = Threshold(k - 1)
             /\ pc[stack[k]] # "completing" => HwPriority[stack[k]] <= Threshold(k)
        /\ ~AttachLocked =>
             \A k \in 1 .. n : \A p \in InForce(stack[k]) : p.kind = "Interrupt" => p.value <= Threshold(k)
    BY <1>n, <1>10, Zenon DEF IInv, OrderOK, ForceOK
  <2>6. \A k \in 1 .. n : Threshold(k) < HwPriority[i] /\ Threshold(k) <= HwPriority[i]
    <3> SUFFICES ASSUME NEW k \in 1 .. n PROVE Threshold(k) < HwPriority[i] /\ Threshold(k) <= HwPriority[i]
      OBVIOUS
    <3>1. n \in 1 .. n /\ k \in Nat /\ (k < n \/ k = n)
      BY <1>2
    <3>2. Threshold(k) <= threshold
      BY <2>2, <2>5, <3>1
    <3>3. HwPriority[i] \in 0 .. 15 /\ Threshold(k) \in 0 .. 255
      BY HwIs, <2>2
    <3> DEFINE x == Threshold(k)
               h == HwPriority[i]
    <3>4. x <= threshold /\ threshold < h /\ h \in 0 .. 15 /\ x \in 0 .. 255 /\ threshold \in 0 .. 255
      BY <2>1, <2>2, <3>2, <3>3, Zenon
    <3> HIDE DEF x, h
    <3>5. x < h /\ x <= h
      BY <3>4
    <3> QED
      BY <3>5 DEF x, h
  <2>7. ASSUME NEW j \in 1 .. n + 1, NEW k \in 1 .. n + 1, j < k
        PROVE  Threshold(j)' <= Threshold(k)' /\ Threshold(j)' < HwPriority[stack'[k]]
    <3>1. j \in 1 .. n /\ (k \in 1 .. n \/ k = n + 1)
      BY <1>2, <2>7
    <3>2. CASE k \in 1 .. n
      BY <2>4, <2>5, <2>7, <3>1, <3>2, <1>3
    <3>3. CASE k = n + 1
      BY <2>4, <2>6, <3>1, <3>3, <1>3
    <3> QED
      BY <3>1, <3>2, <3>3
  <2>8. ASSUME NEW k \in 2 .. n + 1
        PROVE  /\ pc'[stack'[k]] = "completing" => Threshold(k)' = Threshold(k - 1)'
               /\ pc'[stack'[k]] # "completing" => HwPriority[stack'[k]] <= Threshold(k)'
    <3>1. k \in 2 .. n \/ k = n + 1
      BY <1>2
    <3>2. CASE k \in 2 .. n
      <4>1. k \in 1 .. n /\ k - 1 \in 1 .. n
        BY <1>2, <3>2
      <4> QED
        BY <2>4, <2>5, <3>2, <4>1, <1>1, <1>3, Zenon
    <3>3. CASE k = n + 1
      <4>1. pc'[i] # "completing"
        BY <1>1, <1>2, Idle
      <4>2. HwPriority[i] <= HwPriority[i]
        BY HwIs
      <4> QED
        BY <2>4, <3>3, <4>1, <4>2, <1>3
    <3> QED
      BY <3>1, <3>2, <3>3
  <2>9. OrderOK'
    <3>1. Len(claims') = Len(stack') - 1
      BY <2>3, <1>2, <1>3
    <3> QED
      BY <3>1, <2>7, <2>8, <1>3, Zenon DEF OrderOK
  <2>10. ForceOK'
    <3> SUFFICES ASSUME ~AttachLocked, NEW k \in 1 .. n + 1, NEW p \in InForce(stack[k])', p.kind = "Interrupt"
                 PROVE  p.value <= Threshold(k)'
      BY <1>3, Zenon DEF ForceOK
    <3>1. k \in 1 .. n \/ k = n + 1
      BY <1>2
    <3>2. CASE k \in 1 .. n
      <4>1. InForce(stack[k])' = InForce(stack[k])
        BY <3>2, <1>1, <1>3, ForceStays, Zenon
      <4> QED
        BY <3>2, <4>1, <2>4, <2>5
    <3>3. CASE k = n + 1
      <4>1. InForce(i)' = InForce(i) /\ InForce(i) = {}
        BY <1>1, <1>2, Idle, ForceStays, Zenon
      <4>3. (stack[k])' = i
        BY <3>3, <1>3
      <4>2. InForce(stack[k])' = InForce(i)'
        BY <4>3, Zenon DEF InForce
      <4> QED
        BY <4>1, <4>2
    <3> QED
      BY <3>1, <3>2, <3>3
  <2> QED
    BY <1>5, <1>6, <1>7, <1>8, <2>9, <2>10 DEF IInv
<1> QED
  BY <1>9, <1>10

LEMMA RestoreStep ==
  ASSUME IInv, RestoreThreshold
  PROVE  IInv'
<1>1. PICK m, n : m = Me /\ n = Len(stack)
  BY Zenon
<1>2. /\ m \in Contexts /\ m \in Items(stack) /\ n \in Nat /\ n >= 1 /\ m = stack[n]
      /\ \A k \in 1 .. n : stack[k] \in Contexts /\ stack[k] \in Items(stack)
      /\ \A k \in 1 .. n : k # n => stack[k] # m
      /\ (m = Main <=> n = 1)
  BY <1>1, Running, Zenon
<1>3. /\ hal = "plic" /\ m \in Interrupts /\ nested[m] = <<>> /\ owned[m] = <<>> /\ pc[m] = "run"
      /\ threshold' = Last(claims) /\ pc' = [pc EXCEPT ![m] = "completing"]
      /\ UNCHANGED <<hal, phase, stack, word, nested, owned, taking, claims, fault>>
  BY <1>1, Zenon DEF RestoreThreshold, At, Goto
<1>4. n # 1 /\ n - 1 \in 1 .. n /\ n - 1 # n /\ n - 1 \in Nat
  BY <1>2, <1>3, HwIs
<1>5. /\ \A k \in 1 .. n : Threshold(k) \in 0 .. 255
      /\ Threshold(n) = threshold
      /\ \A k \in 1 .. n : k # n => Threshold(k) = claims[k]
      /\ Len(claims) = n - 1 /\ claims \in Seq(0 .. 255)
  BY <1>1, <1>3, ThresholdIs, Zenon
<1>6. threshold' = Threshold(n - 1)
  <2>1. claims # <<>>
    BY <1>4, <1>5
  <2>2. Last(claims) = claims[n - 1]
    BY <1>5, Zenon DEF Last
  <2> QED
    BY <1>3, <1>4, <1>5, <2>2
<1>7. Threshold(n)' = Threshold(n - 1) /\ \A k \in 1 .. n : k # n => Threshold(k)' = Threshold(k)
  BY <1>1, <1>3, <1>6, Zenon DEF Threshold
<1>8. pc \in [Contexts -> Places]
  BY Zenon DEF IInv, TypeOK, Places
<1>9. pc'[m] = "completing" /\ \A c \in Contexts : c # m => pc'[c] = pc[c]
  BY <1>2, <1>3, <1>8
<1>10. TypeOK'
  <2>1. threshold' \in Bytes
    BY <1>4, <1>5, <1>6, Zenon DEF Bytes
  <2>2. pc' \in [Contexts -> Places]
    BY <1>2, <1>3, <1>8 DEF Places
  <2> QED
    BY <1>3, <2>1, <2>2, Zenon DEF IInv, TypeOK, Places
<1>11. WordsOK'
  <2> SUFFICES ASSUME NEW c \in Contexts
               PROVE  ContextOK(c, word[c], nested[c], owned[c], pc'[c])
    BY <1>3, Zenon DEF WordsOK
  <2>1. ContextOK(c, word[c], nested[c], owned[c], pc[c])
    BY Zenon DEF IInv, WordsOK
  <2>2. CASE c = m
    <3>1. pc[m] # "update"
      BY <1>3
    <3> QED
      BY <2>1, <2>2, <3>1, MoveOK, Zenon
  <2> QED
    BY <2>1, <2>2, <1>9
<1>12. StackOK'
  <2> SUFFICES ASSUME NEW c \in Contexts
               PROVE  /\ c \notin Items(stack) => pc'[c] = "run"
                      /\ c \notin Items(stack) \/ pc'[c] = "completing" => nested[c] = <<>> /\ owned[c] = <<>>
                      /\ pc'[c] \notin {"update", "set"} => taking[c] = NoLock
    BY <1>3, Zenon DEF IInv, StackOK
  <2>1. CASE c = m
    <3>1. taking[m] = NoLock
      BY <1>2, <1>3 DEF IInv, StackOK
    <3> QED
      BY <2>1, <3>1, <1>2, <1>3, <1>9, Zenon
  <2>2. CASE c # m
    BY <2>2, <1>9, Zenon DEF IInv, StackOK
  <2> QED
    BY <2>1, <2>2
<1>13. /\ \A j, k \in 1 .. n : j < k => Threshold(j) <= Threshold(k) /\ Threshold(j) < HwPriority[stack[k]]
       /\ \A k \in 2 .. n :
            /\ pc[stack[k]] = "completing" => Threshold(k) = Threshold(k - 1)
            /\ pc[stack[k]] # "completing" => HwPriority[stack[k]] <= Threshold(k)
       /\ ~AttachLocked =>
            \A k \in 1 .. n : \A p \in InForce(stack[k]) : p.kind = "Interrupt" => p.value <= Threshold(k)
  BY <1>1, <1>3, Zenon DEF IInv, OrderOK, ForceOK
<1>14. OrderOK'
  <2>1. ASSUME NEW j \in 1 .. n, NEW k \in 1 .. n, j < k
        PROVE  Threshold(j)' <= Threshold(k)' /\ Threshold(j)' < HwPriority[stack[k]]
    <3>1. j # n /\ Threshold(j)' = Threshold(j) /\ Threshold(j) < HwPriority[stack[k]]
      BY <2>1, <1>2, <1>7, <1>13
    <3>2. CASE k # n
      BY <3>1, <3>2, <2>1, <1>7, <1>13
    <3>3. CASE k = n
      <4>1. j = n - 1 \/ j < n - 1
        BY <2>1, <3>3, <1>2
      <4>2. Threshold(j) <= Threshold(n - 1)
        <5>1. CASE j = n - 1
          <6> DEFINE x == Threshold(n - 1)
          <6>1. x \in 0 .. 255 /\ Threshold(j) = x
            BY <5>1, <1>4, <1>5, Zenon
          <6> HIDE DEF x
          <6>2. x <= x
            BY <6>1
          <6> QED
            BY <6>1, <6>2 DEF x
        <5>2. CASE j < n - 1
          BY <5>2, <1>4, <1>13
        <5> QED
          BY <4>1, <5>1, <5>2
      <4> QED
        BY <3>1, <3>3, <4>2, <1>7
    <3> QED
      BY <3>2, <3>3
  <2>2. ASSUME NEW k \in 2 .. n
        PROVE  /\ pc'[stack[k]] = "completing" => Threshold(k)' = Threshold(k - 1)'
               /\ pc'[stack[k]] # "completing" => HwPriority[stack[k]] <= Threshold(k)'
    <3>1. k \in 1 .. n /\ k - 1 \in 1 .. n /\ k - 1 # n
      BY <1>2
    <3>2. CASE k # n
      <4>1. pc'[stack[k]] = pc[stack[k]]
        BY <3>1, <3>2, <1>2, <1>9, Zenon
      <4> QED
        BY <3>1, <3>2, <4>1, <1>7, <1>13
    <3>3. CASE k = n
      BY <3>1, <3>3, <1>2, <1>7, <1>9
    <3> QED
      BY <3>2, <3>3
  <2> QED
    BY <2>1, <2>2, <1>1, <1>3, <1>5, ZenonT(60) DEF OrderOK
<1>15. ForceOK'
  <2> SUFFICES ASSUME ~AttachLocked, NEW k \in 1 .. n, NEW p \in InForce(stack[k])', p.kind = "Interrupt"
               PROVE  p.value <= Threshold(k)'
    BY <1>1, <1>3, Zenon DEF ForceOK
  <2>1. CASE k # n
    <3>1. InForce(stack[k])' = InForce(stack[k])
      <4>1. pc'[stack[k]] = pc[stack[k]]
        BY <2>1, <1>2, <1>9, Zenon
      <4> QED
        BY <4>1, <1>3, ForceStays, Zenon
    <3> QED
      BY <2>1, <3>1, <1>7, <1>13
  <2>2. CASE k = n
    <3>1. InForce(stack[k])' = ForceOf(nested'[m], owned'[m], pc'[m], taking'[m])
      <4>1. stack'[k] = m
        BY <2>2, <1>2, <1>3
      <4> QED
        BY <4>1, Zenon DEF InForce, ForceOf
    <3> QED
      BY <3>1, <1>3, NoForce
  <2> QED
    BY <2>1, <2>2
<1>16. NvicOK'
  BY <1>3 DEF NvicOK
<1> QED
  BY <1>10, <1>11, <1>12, <1>14, <1>15, <1>16 DEF IInv

LEMMA CompleteStep ==
  ASSUME IInv, Complete
  PROVE  IInv'
<1>1. PICK m, n : m = Me /\ n = Len(stack)
  BY Zenon
<1>2. /\ m \in Contexts /\ n \in Nat /\ n >= 1 /\ m = stack[n] /\ stack \in Seq(Contexts)
      /\ \A k \in 1 .. n : stack[k] \in Contexts /\ stack[k] \in Items(stack)
      /\ \A k \in 1 .. n : k # n => stack[k] # m
      /\ (m = Main <=> n = 1)
  BY <1>1, Running, Zenon
<1>3. /\ m \in Interrupts /\ stack' = Front(stack) /\ pc' = [pc EXCEPT ![m] = "run"]
      /\ UNCHANGED <<hal, phase, word, nested, owned, taking, threshold, fault>>
      /\ hal = "plic" => pc[m] = "completing" /\ claims' = Front(claims)
      /\ hal # "plic" => pc[m] = "run" /\ nested[m] = <<>> /\ owned[m] = <<>> /\ claims' = claims
  BY <1>1, Zenon DEF Complete, At, Goto
<1>4. n # 1 /\ n - 1 \in 1 .. n /\ n - 1 # n /\ n - 1 \in Nat /\ n \in 2 .. n
  BY <1>2, <1>3, HwIs
<1>5. stack' \in Seq(Contexts) /\ Len(stack') = n - 1 /\ \A k \in 1 .. n - 1 : stack'[k] = stack[k]
  <2>1. stack # <<>>
    BY <1>1, <1>4
  <2> QED
    BY <1>1, <1>2, <1>3, <2>1, LastFront, Zenon
<1>6. \A k \in 1 .. n - 1 : k \in 1 .. n /\ k # n
  BY <1>2
<1>7. pc \in [Contexts -> Places]
  BY Zenon DEF IInv, TypeOK, Places
<1>8. pc'[m] = "run" /\ \A c \in Contexts : c # m => pc'[c] = pc[c]
  BY <1>2, <1>3, <1>7
<1>9. nested[m] = <<>> /\ owned[m] = <<>> /\ taking[m] \in Locks \cup {NoLock}
  BY <1>2, <1>3 DEF IInv, StackOK, TypeOK
<1>10. hal = "plic" => Len(claims) = n - 1 /\ claims \in Seq(0 .. 255) /\ claims # <<>>
  BY <1>1, <1>4, ThresholdIs
<1>11. TypeOK'
  <2>1. claims' \in Seq(Bytes)
    <3>1. CASE hal = "plic"
      <4>1. claims \in Seq(Bytes) /\ claims # <<>>
        BY <1>10, <3>1 DEF Bytes
      <4> QED
        BY <1>3, <3>1, <4>1, LastFront, Zenon
    <3>2. CASE hal # "plic"
      BY <1>3, <3>2 DEF IInv, TypeOK
    <3> QED
      BY <3>1, <3>2
  <2>2. pc' \in [Contexts -> Places]
    BY <1>2, <1>3, <1>7 DEF Places
  <2> QED
    BY <1>3, <1>5, <2>1, <2>2, Zenon DEF IInv, TypeOK, Places
<1>12. WordsOK'
  <2> SUFFICES ASSUME NEW c \in Contexts
               PROVE  ContextOK(c, word[c], nested[c], owned[c], pc'[c])
    BY <1>3, Zenon DEF WordsOK
  <2>1. ContextOK(c, word[c], nested[c], owned[c], pc[c])
    BY Zenon DEF IInv, WordsOK
  <2>2. CASE c = m
    <3>1. pc[m] # "update"
      BY <1>3
    <3> QED
      BY <2>1, <2>2, <3>1, MoveOK, Zenon
  <2> QED
    BY <2>1, <2>2, <1>8
<1>13. StackOK'
  <2>1. Len(stack') >= 1 /\ stack'[1] = Main
    BY <1>4, <1>5 DEF IInv, StackOK
  <2>2. Distinct(stack')
    BY <1>1, <1>5, <1>6 DEF IInv, StackOK, Distinct
  <2>3. ASSUME NEW c \in Contexts, c \notin Items(stack') PROVE c = m \/ c \notin Items(stack)
    <3>1. ASSUME c \in Items(stack), c # m PROVE FALSE
      <4>1. PICK k \in 1 .. n : stack[k] = c
        BY <3>1, <1>1, <1>2, ItemsOf
      <4>2. k \in 1 .. n - 1
        BY <4>1, <3>1, <1>2
      <4>3. stack'[k] = c /\ k \in 1 .. Len(stack')
        BY <4>1, <4>2, <1>5
      <4> QED
        BY <4>3, <2>3, <1>5, ItemsOf
    <3> QED
      BY <3>1
  <2>4. taking[m] = NoLock
    BY <1>2, <1>3 DEF IInv, StackOK
  <2>5. ASSUME NEW c \in Contexts
        PROVE  /\ c \notin Items(stack') => pc'[c] = "run"
               /\ c \notin Items(stack') \/ pc'[c] = "completing" => nested'[c] = <<>> /\ owned'[c] = <<>>
               /\ pc'[c] \notin {"update", "set"} => taking'[c] = NoLock
    <3>1. CASE c = m
      <4>1. pc'[c] = "run" /\ nested'[c] = <<>> /\ owned'[c] = <<>> /\ taking'[c] = NoLock
        BY <3>1, <2>4, <1>3, <1>8, <1>9, Zenon
      <4> QED
        BY <4>1
    <3>2. CASE c # m
      BY <3>2, <2>3, <1>3, <1>8 DEF IInv, StackOK
    <3> QED
      BY <3>1, <3>2
  <2> QED
    BY <2>1, <2>2, <2>5, Zenon DEF StackOK
<1>14. NvicOK'
  BY <1>1, <1>2, <1>3, <1>5 DEF IInv, NvicOK
<1>15. CASE hal # "plic"
  <2>1. OrderOK' /\ ForceOK'
    BY <1>15, <1>3, Zenon DEF OrderOK, ForceOK
  <2> QED
    BY <1>11, <1>12, <1>13, <1>14, <2>1 DEF IInv
<1>16. CASE hal = "plic"
  <2>1. /\ \A j, k \in 1 .. n : j < k => Threshold(j) <= Threshold(k) /\ Threshold(j) < HwPriority[stack[k]]
        /\ \A k \in 2 .. n :
             /\ pc[stack[k]] = "completing" => Threshold(k) = Threshold(k - 1)
             /\ pc[stack[k]] # "completing" => HwPriority[stack[k]] <= Threshold(k)
        /\ ~AttachLocked =>
             \A k \in 1 .. n : \A p \in InForce(stack[k]) : p.kind = "Interrupt" => p.value <= Threshold(k)
    BY <1>1, <1>16, Zenon DEF IInv, OrderOK, ForceOK
  <2>2. /\ Threshold(n) = threshold
        /\ \A k \in 1 .. n : k # n => Threshold(k) = claims[k]
    BY <1>1, <1>16, ThresholdIs
  <2>3. threshold = Threshold(n - 1)
    BY <2>1, <2>2, <1>2, <1>3, <1>4, <1>16
  <2>4. Len(claims') = n - 2 /\ \A k \in 1 .. n - 2 : claims'[k] = claims[k]
    <3>1. Len(claims') = Len(claims) - 1 /\ \A k \in 1 .. Len(claims) - 1 : claims'[k] = claims[k]
      <4>1. claims' = Front(claims) /\ claims \in Seq(0 .. 255) /\ claims # <<>>
        BY <1>3, <1>10, <1>16, Zenon
      <4> QED
        BY <4>1, LastFront, Zenon
    <3>2. Len(claims) = n - 1 /\ Len(claims) - 1 = n - 2
      BY <1>4, <1>10, <1>16
    <3> QED
      BY <3>1, <3>2
  <2>5. ASSUME NEW k \in 1 .. n - 1 PROVE Threshold(k)' = Threshold(k)
    <3>1. CASE k = n - 1
      <4>1. Threshold(k)' = threshold'
        BY <3>1, <1>5, Zenon DEF Threshold
      <4> QED
        BY <3>1, <4>1, <2>3, <1>3
    <3>2. CASE k # n - 1
      <4>1. k # Len(stack')
        BY <3>2, <1>5
      <4>2. Threshold(k)' = claims'[k]
        BY <4>1, Zenon DEF Threshold
      <4>3. k \in 1 .. n - 2
        BY <3>2, <1>4
      <4> QED
        BY <4>2, <4>3, <2>2, <2>4, <1>6
    <3> QED
      BY <3>1, <3>2
  <2>6. \A k \in 1 .. n - 1 : pc'[stack'[k]] = pc[stack[k]]
    BY <1>2, <1>5, <1>6, <1>8
  <2>7. OrderOK'
    <3>1. ASSUME NEW j \in 1 .. n - 1, NEW k \in 1 .. n - 1, j < k
          PROVE  Threshold(j)' <= Threshold(k)' /\ Threshold(j)' < HwPriority[stack'[k]]
      <4>1. /\ j \in 1 .. n /\ k \in 1 .. n /\ stack'[k] = stack[k]
            /\ Threshold(j)' = Threshold(j) /\ Threshold(k)' = Threshold(k)
        BY <2>5, <1>5, <1>6, Zenon
      <4> QED
        BY <3>1, <4>1, <2>1, Zenon
    <3>2. ASSUME NEW k \in 2 .. n - 1
          PROVE  /\ pc'[stack'[k]] = "completing" => Threshold(k)' = Threshold(k - 1)'
                 /\ pc'[stack'[k]] # "completing" => HwPriority[stack'[k]] <= Threshold(k)'
      <4>1. k \in 1 .. n - 1 /\ k - 1 \in 1 .. n - 1 /\ k \in 2 .. n
        BY <1>2
      <4> QED
        BY <4>1, <2>1, <2>5, <2>6, <1>5
    <3>3. Len(claims') = Len(stack') - 1
      BY <2>4, <1>2, <1>5
    <3> QED
      BY <3>1, <3>2, <3>3, <1>5, Zenon DEF OrderOK
  <2>8. ForceOK'
    <3> SUFFICES ASSUME ~AttachLocked, NEW k \in 1 .. n - 1, NEW p \in InForce(stack[k])', p.kind = "Interrupt"
                 PROVE  p.value <= Threshold(k)'
      BY <1>5, Zenon DEF ForceOK
    <3>1. InForce(stack[k])' = InForce(stack[k])
      <4>1. pc'[stack[k]] = pc[stack[k]] /\ stack'[k] = stack[k]
        BY <2>6, <1>5
      <4> QED
        BY <4>1, <1>3, ForceStays, Zenon
    <3> QED
      BY <3>1, <2>1, <2>5, <1>6
  <2> QED
    BY <1>11, <1>12, <1>13, <1>14, <2>7, <2>8 DEF IInv
<1> QED
  BY <1>15, <1>16

-----------------------------------------------------------------------------
(* The theorems                                                            *)

\* The word of a context at the start
LEMMA InitWord ==
  ASSUME NEW c \in Contexts,
         NEW w, w = FromStatusPair(IF c = Main THEN Invalid ELSE Base(c), Invalid)
  PROVE  ContextOK(c, w, <<>>, <<>>, "run") /\ w \in Words
<1> DEFINE p == IF c = Main THEN Invalid ELSE Base(c)
<1>1. p \in PriorityStatus /\ Invalid \in PriorityStatus
  BY BaseIs DEF PriorityStatus
<1>2. IsHighest(p, IF c = Main THEN {} ELSE {Base(c)})
  BY BaseIs, OneHighest DEF IsHighest
<1>3. Above(c, <<>>, 0) = IF c = Main THEN {} ELSE {Base(c)}
  BY DEF Above
<1>4. w = FromStatusPair(p, Invalid)
  OBVIOUS
<1> HIDE DEF p
<1>5. \A k \in 0 .. 0 : k = 0
  OBVIOUS
<1>6. Len(<<>>) = 0
  OBVIOUS
<1>7. IsHighest(Level(<<>>, p, 0), Above(c, <<>>, 0))
  BY <1>2, <1>3, <1>6, Zenon DEF Level
<1>8. LevelsOK(c, <<>>, p)
  BY <1>5, <1>6, <1>7, Zenon DEF LevelsOK
<1>9. Descending(<<>>, LockRank) /\ Distinct(<<>>) /\ Invalid = OwnedPriority(<<>>)
  BY DEF Descending, Distinct, OwnedPriority
<1>10. w \in Words
  BY <1>1, <1>4, PairBack DEF Words
<1> QED
  BY <1>1, <1>4, <1>8, <1>9, <1>10, Zenon DEF ContextOK

LEMMA InitOK ==
  ASSUME Init
  PROVE  IInv
<1> USE DEF Init
<1>1. /\ word \in [Contexts -> Words]
      /\ \A c \in Contexts : ContextOK(c, word[c], <<>>, <<>>, "run")
  BY InitWord
<1>2. /\ nested \in [Contexts -> Sections] /\ owned \in [Contexts -> Seq(Locks)]
      /\ pc \in [Contexts -> Places] /\ taking \in [Contexts -> Locks \cup {NoLock}]
      /\ \A c \in Contexts : nested[c] = <<>> /\ owned[c] = <<>> /\ pc[c] = "run" /\ taking[c] = NoLock
  BY DEF Sections, Places
<1>3. stack \in Seq(Contexts) /\ Len(stack) = 1 /\ stack[1] = Main
  BY DEF Contexts
<1>4. threshold \in Bytes /\ claims \in Seq(Bytes) /\ Len(claims) = 0
  BY DEF Bytes, NVIC_PRIO_MAX
<1>5. TypeOK
  <2>1. phase \in [Interrupts -> {"static", "attached", "enabled"}] /\ fault \in {"none", "AlreadyInList"}
    OBVIOUS
  <2> QED
    BY <1>1, <1>2, <1>3, <1>4, <2>1, Zenon DEF TypeOK, Words, Sections, Places
<1>6. WordsOK
  BY <1>1, <1>2 DEF WordsOK
<1>7. StackOK
  <2>1. Distinct(stack)
    BY <1>3 DEF Distinct
  <2> QED
    BY <1>2, <1>3, <2>1 DEF StackOK
<1>8. OrderOK
  BY <1>3, <1>4 DEF OrderOK
<1>9. ForceOK
  <2> SUFFICES ASSUME NEW k \in 1 .. 1 PROVE InForce(stack[k]) = {}
    BY <1>3 DEF ForceOK
  <2>1. nested[stack[k]] = <<>> /\ owned[stack[k]] = <<>>
    BY <1>2, <1>3 DEF Contexts
  <2>2. InForce(stack[k]) = ForceOf(<<>>, <<>>, pc[stack[k]], taking[stack[k]])
    BY <2>1, Zenon DEF InForce, ForceOf
  <2> QED
    BY <2>2, NoForce
<1>10. NvicOK
  BY <1>3 DEF NvicOK
<1> QED
  BY <1>5, <1>6, <1>7, <1>8, <1>9, <1>10 DEF IInv

LEMMA StayOK ==
  ASSUME IInv, UNCHANGED vars
  PROVE  IInv'
<1>1. UNCHANGED <<hal, phase, stack, word, nested, owned, pc, taking, threshold, claims, fault>>
  BY DEF vars
<1>2. TypeOK' /\ WordsOK' /\ StackOK' /\ NvicOK'
  BY <1>1, Zenon DEF IInv, TypeOK, WordsOK, StackOK, NvicOK
<1>3. OrderOK'
  BY <1>1, Zenon DEF IInv, OrderOK, Threshold
<1>4. ForceOK'
  <2> SUFFICES ASSUME hal = "plic", ~AttachLocked, NEW k \in 1 .. Len(stack), NEW p \in InForce(stack[k])',
                      p.kind = "Interrupt"
               PROVE  p.value <= Threshold(k)'
    BY <1>1, Zenon DEF ForceOK
  <2>1. InForce(stack[k])' = InForce(stack[k])
    BY <1>1, ForceStays, Zenon
  <2>2. Threshold(k)' = Threshold(k)
    BY <1>1, Zenon DEF Threshold
  <2> QED
    BY <2>1, <2>2 DEF IInv, ForceOK
<1> QED
  BY <1>2, <1>3, <1>4 DEF IInv

\* The inductive invariant holds in every reachable state.
THEOREM Inductive == Spec => []IInv
<1>1. Init => IInv
  BY InitOK
<1>2. IInv /\ [Next]_vars => IInv'
  <2> SUFFICES ASSUME IInv, [Next]_vars PROVE IInv'
    OBVIOUS
  <2>1. ASSUME NEW l \in Locks, Enter(l) PROVE IInv'
    BY <2>1, EnterStep
  <2>2. ASSUME NEW l \in Locks, Lock(l) PROVE IInv'
    BY <2>2, LockStep
  <2>3. ASSUME NEW l \in Locks, Unlock(l) PROVE IInv'
    BY <2>3, UnlockStep
  <2>4. CASE Leave
    BY <2>4, LeaveStep
  <2>5. CASE UpdateOwned
    BY <2>5, UpdateStep
  <2>6. CASE SetThreshold
    BY <2>6, SetStep
  <2>7. CASE RestoreThreshold
    BY <2>7, RestoreStep
  <2>8. CASE Complete
    BY <2>8, CompleteStep
  <2>9. ASSUME NEW i \in Interrupts, Attach(i) PROVE IInv'
    BY <2>9, AttachStep
  <2>10. ASSUME NEW i \in Interrupts, Enable(i) PROVE IInv'
    BY <2>10, EnableStep
  <2>11. ASSUME NEW i \in Interrupts, Claim(i) PROVE IInv'
    BY <2>11, ClaimStep
  <2>12. CASE UNCHANGED vars
    BY <2>12, StayOK
  <2> QED
    BY <2>1, <2>2, <2>3, <2>4, <2>5, <2>6, <2>7, <2>8, <2>9, <2>10, <2>11, <2>12, Zenon
       DEF Next, LockOperation, Stopped
<1> QED
  BY <1>1, <1>2, PTL DEF Spec

\* The lock priority of a context is the highest ceiling of the locks and sections it
\* holds, whatever the order they are taken and released in (raise_nesting_lock_priority,
\* update_owned_lock_priority), for every set of locks and ceilings.
THEOREM PriorityIsHighest == Spec => []HighestCeiling
<1>1. IInv => HighestCeiling
  <2> SUFFICES ASSUME IInv, NEW c \in Contexts, pc[c] # "update"
               PROVE  LET all == Held(c) \cup (IF c = Main /\ nested[c] = <<>> THEN {} ELSE {Base(c)})
                      IN IF all = {} THEN LockPriority(c) = Invalid
                         ELSE LockPriority(c) \in all /\ \A p \in all : ~Less(LockPriority(c), p)
    BY Zenon DEF HighestCeiling
  <2> DEFINE all == Held(c) \cup (IF c = Main /\ nested[c] = <<>> THEN {} ELSE {Base(c)})
  <2>1. /\ word[c] \in [lo : Halves, hi : Halves] /\ nested[c] \in Sections /\ owned[c] \in Seq(Locks)
        /\ ContextOK(c, word[c], nested[c], owned[c], pc[c])
    BY Zenon DEF IInv, TypeOK, WordsOK, Sections
  <2>2. IsHighest(LockPriority(c), all)
    BY <2>1, PriorityIs, Zenon
  <2> QED
    BY <2>2, Zenon DEF IsHighest
<1> QED
  BY <1>1, Inductive, PTL

\* The plic lets no handler run over a context that holds a lock of the handler's priority
\* or above it (set_ceiling_threshold, claim_interrupt), whatever the locks the handlers
\* take in between, as long as the thread attaches handlers only while it holds no lock.
THEOREM CeilingsAreKept == ~AttachLocked /\ Spec => []CeilingKept
<1> SUFFICES ASSUME ~AttachLocked PROVE Spec => []CeilingKept
  OBVIOUS
<1>1. IInv => CeilingKept
  <2> SUFFICES ASSUME IInv, hal = "plic", NEW k \in 2 .. Len(stack), NEW j \in 1 .. k - 1,
                      NEW p \in InForce(stack[j])
               PROVE  Less(p, Interrupt(HwPriority[stack[k]]))
    BY Zenon DEF CeilingKept, CeilingKeptOn
  <2>1. j \in 1 .. Len(stack) /\ k \in 1 .. Len(stack) /\ j < k
    BY Running
  <2>2. Threshold(j) < HwPriority[stack[k]]
    BY <2>1 DEF IInv, OrderOK
  <2>3. p.kind = "Interrupt" => p.value <= Threshold(j)
    BY <2>1 DEF IInv, ForceOK
  <2>4. p \in Priority
    <3>1. stack[j] \in Contexts
      BY <2>1, Running
    <3> DEFINE ns == nested[stack[j]]
               os == owned[stack[j]]
               top == IF pc[stack[j]] = "entering" THEN Len(ns) - 1 ELSE Len(ns)
    <3>2. ns \in Sections /\ os \in Seq(Locks)
      BY <3>1, Zenon DEF IInv, TypeOK, Sections
    <3>3. (\E n \in 1 .. top : p = ns[n].ceiling) \/ (\E l \in Items(os) : p = Ceiling[l])
      BY Zenon DEF InForce
    <3>4. ASSUME NEW n \in 1 .. top PROVE ns[n].ceiling \in Priority
      <4>1. n \in 1 .. Len(ns)
        BY <3>2 DEF Sections
      <4>2. ns[n] \in [ceiling : Priority, saved : PriorityStatus]
        BY <3>2, <4>1, ElementOf, Zenon DEF Sections
      <4> QED
        BY <4>2
    <3>5. ASSUME NEW l \in Items(os) PROVE Ceiling[l] \in Priority
      <4>1. l \in Locks
        BY <3>2, ItemsOf, ElementOf
      <4> QED
        BY <4>1, LockIs
    <3> QED
      BY <3>3, <3>4, <3>5
  <2> DEFINE x == p.value
             t == Threshold(j)
             h == HwPriority[stack[k]]
  <2>5. p.kind \in {"Thread", "Interrupt"} /\ x \in 0 .. 255
    BY <2>4, PriorityFields
  <2>6. t \in 0 .. 255 /\ h \in 0 .. 15
    <3>1. stack[k] \in Interrupts
      BY <2>1, Running
    <3> QED
      BY <2>1, <3>1, ThresholdIs, HwIs
  <2>7. CASE p.kind = "Thread"
    BY <2>7 DEF Less, Interrupt
  <2>8. CASE p.kind = "Interrupt"
    <3>1. x <= t /\ t < h
      BY <2>2, <2>3, <2>8
    <3> HIDE DEF x, t, h
    <3>2. x < h
      BY <2>5, <2>6, <3>1
    <3>3. Interrupt(h).kind = "Interrupt" /\ Interrupt(h).value = h
      BY DEF Interrupt
    <3>4. Less(p, Interrupt(h))
      BY <2>8, <3>2, <3>3, Zenon DEF Less, x
    <3> QED
      BY <3>4 DEF h
  <2> QED
    BY <2>5, <2>7, <2>8, Zenon
<1> QED
  BY <1>1, Inductive, PTL

\* Interrupts nest in ascending order of priority, but for one that has restored the
\* threshold and is about to complete (claim_interrupt, complete_interrupt).
THEOREM NestingAscends == Spec => []NestingOrder
<1>1. IInv => NestingOrder
  <2> SUFFICES ASSUME IInv, NEW j \in 2 .. Len(stack), NEW k \in 2 .. Len(stack), j < k,
                      pc[stack[j]] # "completing"
               PROVE  HwPriority[stack[j]] < HwPriority[stack[k]]
    BY Zenon DEF NestingOrder
  <2>1. j \in 1 .. Len(stack) /\ k \in 1 .. Len(stack) /\ j # 1 /\ k # 1 /\ Len(stack) \in Nat
    BY Running
  <2>2. CASE hal # "plic"
    <3>1. Len(stack) <= 2
      BY <2>2 DEF IInv, NvicOK
    <3> QED
      BY <2>1, <3>1
  <2>3. CASE hal = "plic"
    <3> DEFINE t == Threshold(j)
               g == HwPriority[stack[j]]
               h == HwPriority[stack[k]]
    <3>1. t < h /\ g <= t
      BY <2>1, <2>3, Zenon DEF IInv, OrderOK
    <3>2. t \in 0 .. 255 /\ g \in 0 .. 15 /\ h \in 0 .. 15
      BY <2>1, <2>3, Running, ThresholdIs, HwIs
    <3> HIDE DEF t, g, h
    <3>3. g < h
      BY <3>1, <3>2
    <3> QED
      BY <3>3 DEF g, h
  <2> QED
    BY <2>2, <2>3
<1> QED
  BY <1>1, Inductive, PTL
=============================================================================
