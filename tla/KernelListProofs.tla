-------------------------- MODULE KernelListProofs --------------------------
(***************************************************************************)
(* What the list operations return and preserve, for every list.           *)
(***************************************************************************)
EXTENDS KernelList, WellFoundedInduction, TLAPS

\* More time for the provers than they have by default
USE SMTT(30), ZenonT(30)

\* Every set of naturals that is not empty has a least element.
LEMMA LeastNatural ==
  ASSUME NEW T \in SUBSET Nat, T # {}
  PROVE  \E n \in T : \A m \in T : n <= m
<1> DEFINE R == {ss \in Nat \X Nat : ss[1] < ss[2]}
<1>1. IsWellFoundedOn(R, Nat)
  BY NatLessThanWellFounded, Zenon DEF OpToRel
<1>2. \A m, n \in Nat : m < n => <<m, n>> \in R
  OBVIOUS
<1> HIDE DEF R
<1>3. PICK n \in T : \A m \in T : ~ (<<m, n>> \in R)
  BY <1>1, WFMin, Zenon
<1>4. ASSUME NEW m \in T PROVE n <= m
  <2>1. ~ (m < n)
    BY <1>2, <1>3, Zenon
  <2> QED BY <2>1
<1> QED
  BY <1>4

\* The items of two sequences put together.
LEMMA ConcatOf ==
  ASSUME NEW S, NEW s \in Seq(S), NEW r \in Seq(S)
  PROVE  /\ s \o r \in Seq(S)
         /\ Len(s \o r) = Len(s) + Len(r)
         /\ \A i \in 1 .. Len(s) + Len(r) :
              (s \o r)[i] = IF i <= Len(s) THEN s[i] ELSE r[i - Len(s)]
  OBVIOUS

\* A sequence with one item replaced.
LEMMA ExceptOf ==
  ASSUME NEW S, NEW s \in Seq(S), NEW i \in 1 .. Len(s), NEW e \in S
  PROVE  /\ [s EXCEPT ![i] = e] \in Seq(S)
         /\ Len([s EXCEPT ![i] = e]) = Len(s)
         /\ \A j \in 1 .. Len(s) : [s EXCEPT ![i] = e][j] = IF j = i THEN e ELSE s[j]
  OBVIOUS

\* The cursor of insert_after always stops: at the first item that fails the
\* predicate or behind the tail.
LEMMA PassedExists ==
  ASSUME NEW S, NEW s \in Seq(S), NEW Pred
  PROVE  /\ Passed(s, Pred) \in 0 .. Len(s)
         /\ \A i \in 1 .. Passed(s, Pred) : s[i] \in Pred
         /\ Passed(s, Pred) < Len(s) => s[Passed(s, Pred) + 1] \notin Pred
<1> DEFINE Stops == {n \in Nat : n = Len(s) \/ (n < Len(s) /\ s[n + 1] \notin Pred)}
<1>1. Len(s) \in Stops
  OBVIOUS
<1>2. PICK n \in Stops : \A m \in Stops : n <= m
  BY <1>1, LeastNatural, Zenon
<1>3. n \in 0 .. Len(s)
  OBVIOUS
<1>4. ASSUME NEW i \in 1 .. n PROVE s[i] \in Pred
  <2>1. i - 1 \notin Stops
    BY <1>2, <1>3
  <2> QED BY <2>1, <1>3
<1>5. \E k \in 0 .. Len(s) : /\ \A i \in 1 .. k : s[i] \in Pred
                             /\ k < Len(s) => s[k + 1] \notin Pred
  BY <1>3, <1>4
<1> QED BY <1>5 DEF Passed

\* insert_after links the new item at one place and keeps the others in order.
LEMMA InsertAfterShape ==
  ASSUME NEW S, NEW s \in Seq(S), NEW e \in S, NEW Pred
  PROVE  LET n == Passed(s, Pred)
             r == InsertAfter(s, e, Pred)
         IN  /\ r \in Seq(S)
             /\ Len(r) = Len(s) + 1
             /\ \A i \in 1 .. n : r[i] = s[i]
             /\ r[n + 1] = e
             /\ \A i \in n + 2 .. Len(s) + 1 : r[i] = s[i - 1]
<1> DEFINE n == Passed(s, Pred)
           front == SubSeq(s, 1, n)
           back == SubSeq(s, n + 1, Len(s))
<1>1. n \in 0 .. Len(s)
  BY PassedExists
<1>2. InsertAfter(s, e, Pred) = front \o <<e>> \o back
  BY Zenon DEF InsertAfter
<1> HIDE DEF n
<1>3. /\ front \in Seq(S) /\ Len(front) = n /\ \A i \in 1 .. n : front[i] = s[i]
      /\ back \in Seq(S) /\ Len(back) = Len(s) - n
      /\ \A i \in 1 .. Len(s) - n : back[i] = s[n + i]
  BY <1>1
<1> HIDE DEF front, back
<1>4. /\ front \o <<e>> \in Seq(S)
      /\ Len(front \o <<e>>) = n + 1
      /\ \A i \in 1 .. n : (front \o <<e>>)[i] = s[i]
      /\ (front \o <<e>>)[n + 1] = e
  BY <1>1, <1>3
<1> DEFINE fe == front \o <<e>>
<1> HIDE DEF fe
<1>5. /\ fe \o back \in Seq(S)
      /\ Len(fe \o back) = Len(s) + 1
      /\ \A i \in 1 .. n + 1 : (fe \o back)[i] = fe[i]
      /\ \A i \in n + 2 .. Len(s) + 1 : (fe \o back)[i] = back[i - (n + 1)]
  BY <1>1, <1>3, <1>4 DEF fe
<1>6. \A i \in n + 2 .. Len(s) + 1 : (fe \o back)[i] = s[i - 1]
  BY <1>1, <1>3, <1>5
<1>7. \A i \in 1 .. n : (fe \o back)[i] = s[i]
  <2>1. \A i \in 1 .. n : i \in 1 .. n + 1
    BY <1>1
  <2> QED BY <1>4, <1>5, <2>1, Zenon DEF fe
<1>8. (fe \o back)[n + 1] = e
  BY <1>1, <1>4, <1>5 DEF fe
<1> QED BY <1>2, <1>5, <1>6, <1>7, <1>8, Zenon DEF fe, n

\* remove takes out one item and keeps the others in order.
LEMMA UnlinkShape ==
  ASSUME NEW S, NEW s \in Seq(S), NEW e \in Items(s)
  PROVE  \E k \in 1 .. Len(s) :
             /\ s[k] = e
             /\ Unlink(s, e) \in Seq(S)
             /\ Len(Unlink(s, e)) = Len(s) - 1
             /\ \A i \in 1 .. k - 1 : Unlink(s, e)[i] = s[i]
             /\ \A i \in k .. Len(s) - 1 : Unlink(s, e)[i] = s[i + 1]
<1> DEFINE k == CHOOSE i \in 1 .. Len(s) : s[i] = e
           front == SubSeq(s, 1, k - 1)
           back == SubSeq(s, k + 1, Len(s))
<1>1. k \in 1 .. Len(s) /\ s[k] = e
  BY DEF Items
<1>2. Unlink(s, e) = front \o back
  BY DEF Unlink
<1> HIDE DEF k
<1>3. /\ front \in Seq(S) /\ Len(front) = k - 1
      /\ \A i \in 1 .. k - 1 : front[i] = s[i]
      /\ back \in Seq(S) /\ Len(back) = Len(s) - k
      /\ \A i \in 1 .. Len(s) - k : back[i] = s[k + i]
  BY <1>1
<1> HIDE DEF front, back
<1>4. /\ front \o back \in Seq(S)
      /\ Len(front \o back) = Len(s) - 1
      /\ \A i \in 1 .. k - 1 : (front \o back)[i] = s[i]
      /\ \A i \in k .. Len(s) - 1 : (front \o back)[i] = back[i - (k - 1)]
  <2>1. /\ front \o back \in Seq(S)
        /\ Len(front \o back) = Len(front) + Len(back)
        /\ \A i \in 1 .. Len(front) + Len(back) : (front \o back)[i] =
              IF i <= Len(front) THEN front[i] ELSE back[i - Len(front)]
    BY <1>3, ConcatOf, Zenon
  <2>2. k \in Int /\ Len(s) \in Nat /\ k >= 1 /\ k <= Len(s)
    BY <1>1
  <2>3. \A i \in 1 .. k - 1 : (front \o back)[i] = s[i]
    BY <1>3, <2>1, <2>2
  <2>4. \A i \in k .. Len(s) - 1 : (front \o back)[i] = back[i - (k - 1)]
    BY <1>3, <2>1, <2>2
  <2> QED BY <1>3, <2>1, <2>2, <2>3, <2>4
<1>5. \A i \in k .. Len(s) - 1 : (front \o back)[i] = s[i + 1]
  BY <1>1, <1>3, <1>4
<1> QED BY <1>1, <1>2, <1>4, <1>5, Zenon

\* The items of a list are what its positions hold.
LEMMA ItemsOf ==
  ASSUME NEW S, NEW s \in Seq(S), NEW x
  PROVE  x \in Items(s) <=> \E i \in 1 .. Len(s) : s[i] = x
BY DEF Items

\* insert_after adds the new item and links no item twice, provided that it was
\* not linked before.
LEMMA InsertAfterItems ==
  ASSUME NEW S, NEW s \in Seq(S), NEW e \in S, NEW Pred
  PROVE  /\ InsertAfter(s, e, Pred) \in Seq(S)
         /\ Items(InsertAfter(s, e, Pred)) = Items(s) \cup {e}
         /\ Distinct(s) /\ e \notin Items(s) => Distinct(InsertAfter(s, e, Pred))
<1> DEFINE n == Passed(s, Pred)
           r == InsertAfter(s, e, Pred)
<1>1. n \in 0 .. Len(s)
  BY PassedExists
<1>2. /\ r \in Seq(S) /\ Len(r) = Len(s) + 1
      /\ \A i \in 1 .. n : r[i] = s[i]
      /\ r[n + 1] = e
      /\ \A i \in n + 2 .. Len(s) + 1 : r[i] = s[i - 1]
  BY InsertAfterShape
<1> HIDE DEF n, r
<1>3. ASSUME NEW x PROVE x \in Items(r) <=> x \in Items(s) \cup {e}
  <2>1. ASSUME x \in Items(r) PROVE x \in Items(s) \cup {e}
    <3>1. PICK i \in 1 .. Len(r) : r[i] = x
      BY <1>2, <2>1, ItemsOf
    <3>2. i \in 1 .. n \/ i = n + 1 \/ (i \in n + 2 .. Len(s) + 1 /\ i - 1 \in 1 .. Len(s))
      BY <1>1, <1>2, <3>1
    <3>3. CASE i \in 1 .. n
      <4>1. i \in 1 .. Len(s) /\ s[i] = x
        BY <1>1, <1>2, <3>1, <3>3
      <4> QED BY <4>1, ItemsOf
    <3>4. CASE i \in n + 2 .. Len(s) + 1 /\ i - 1 \in 1 .. Len(s)
      BY <1>2, <3>1, <3>4, ItemsOf
    <3> QED BY <1>2, <3>1, <3>2, <3>3, <3>4
  <2>2. ASSUME x \in Items(s) PROVE x \in Items(r)
    <3>1. PICK i \in 1 .. Len(s) : s[i] = x
      BY <2>2, ItemsOf
    <3>2. CASE i \in 1 .. n
      BY <1>1, <1>2, <3>1, <3>2, ItemsOf
    <3>3. CASE i \in n + 1 .. Len(s)
      <4>1. i + 1 \in n + 2 .. Len(s) + 1 /\ i + 1 \in 1 .. Len(r) /\ (i + 1) - 1 = i
        BY <1>1, <1>2, <3>3
      <4> QED BY <1>2, <3>1, <4>1, ItemsOf
    <3> QED BY <1>1, <3>1, <3>2, <3>3
  <2>3. e \in Items(r)
    <3>1. n + 1 \in 1 .. Len(r)
      BY <1>1, <1>2
    <3> QED BY <1>2, <3>1, ItemsOf
  <2> QED BY <2>1, <2>2, <2>3
<1>4. ASSUME Distinct(s), e \notin Items(s) PROVE Distinct(r)
  <2> SUFFICES ASSUME NEW i \in 1 .. Len(r), NEW j \in 1 .. Len(r), r[i] = r[j], i < j
               PROVE  FALSE
    BY DEF Distinct
  <2>1. \A k \in 1 .. Len(s) : s[k] # e
    BY <1>4, ItemsOf
  <2>2. \A k, l \in 1 .. Len(s) : s[k] = s[l] => k = l
    BY <1>4 DEF Distinct
  <2>3. /\ i \in 1 .. n \/ i = n + 1 \/ i \in n + 2 .. Len(s) + 1
        /\ j \in 1 .. n \/ j = n + 1 \/ j \in n + 2 .. Len(s) + 1
    BY <1>1, <1>2
  <2> QED BY <1>1, <1>2, <2>1, <2>2, <2>3
<1> QED BY <1>2, <1>3, <1>4 DEF r

\* remove takes the item out, and nothing else.
LEMMA UnlinkItems ==
  ASSUME NEW S, NEW s \in Seq(S), NEW e \in Items(s)
  PROVE  /\ Unlink(s, e) \in Seq(S)
         /\ Distinct(s) => /\ Items(Unlink(s, e)) = Items(s) \ {e}
                           /\ Distinct(Unlink(s, e))
<1> DEFINE r == Unlink(s, e)
<1>1. PICK k \in 1 .. Len(s) :
             /\ s[k] = e
             /\ r \in Seq(S) /\ Len(r) = Len(s) - 1
             /\ \A i \in 1 .. k - 1 : r[i] = s[i]
             /\ \A i \in k .. Len(s) - 1 : r[i] = s[i + 1]
  BY UnlinkShape
<1> HIDE DEF r
<1>2. ASSUME Distinct(s) PROVE Items(r) = Items(s) \ {e} /\ Distinct(r)
  <2>1. \A i, j \in 1 .. Len(s) : s[i] = s[j] => i = j
    BY <1>2 DEF Distinct
  <2>2. ASSUME NEW x \in Items(r) PROVE x \in Items(s) \ {e}
    <3>1. PICK i \in 1 .. Len(r) : r[i] = x
      BY <1>1, <2>2, ItemsOf
    <3>2. CASE i \in 1 .. k - 1
      <4>1. i \in 1 .. Len(s) /\ i # k
        BY <1>1, <3>2
      <4> QED BY <1>1, <2>1, <3>1, <3>2, <4>1, ItemsOf
    <3>3. CASE i \in k .. Len(s) - 1
      <4>1. i + 1 \in 1 .. Len(s) /\ i + 1 # k
        BY <1>1, <3>3
      <4> QED BY <1>1, <2>1, <3>1, <3>3, <4>1, ItemsOf
    <3> QED BY <1>1, <3>1, <3>2, <3>3
  <2>3. ASSUME NEW x \in Items(s), x # e PROVE x \in Items(r)
    <3>1. PICK i \in 1 .. Len(s) : s[i] = x
      BY <2>3, ItemsOf
    <3>2. CASE i < k
      <4>1. i \in 1 .. k - 1 /\ i \in 1 .. Len(r)
        BY <1>1, <3>1, <3>2
      <4> QED BY <1>1, <3>1, <4>1, ItemsOf
    <3>3. CASE i > k
      <4>1. i - 1 \in k .. Len(s) - 1 /\ i - 1 \in 1 .. Len(r) /\ (i - 1) + 1 = i
        BY <1>1, <3>1, <3>3
      <4> QED BY <1>1, <3>1, <4>1, ItemsOf, Zenon
    <3> QED BY <1>1, <2>3, <3>1, <3>2, <3>3
  <2>4. Distinct(r)
    <3> SUFFICES ASSUME NEW i \in 1 .. Len(r), NEW j \in 1 .. Len(r), r[i] = r[j], i < j
                 PROVE  FALSE
      BY DEF Distinct
    <3>1. /\ i \in 1 .. k - 1 \/ i \in k .. Len(s) - 1
          /\ j \in 1 .. k - 1 \/ j \in k .. Len(s) - 1
      BY <1>1
    <3> QED BY <1>1, <2>1, <3>1
  <2> QED BY <2>2, <2>3, <2>4
<1> QED BY <1>1, <1>2 DEF r

\* pop_front takes the head out, and nothing else.
LEMMA TailItems ==
  ASSUME NEW S, NEW s \in Seq(S), s # <<>>
  PROVE  /\ Tail(s) \in Seq(S) /\ Head(s) \in Items(s) /\ Head(s) \in S
         /\ Items(Tail(s)) \subseteq Items(s)
         /\ Distinct(s) => /\ Items(Tail(s)) = Items(s) \ {Head(s)}
                           /\ Distinct(Tail(s))
<1>1. /\ Len(s) \in Nat /\ Len(s) >= 1 /\ Head(s) = s[1] /\ Head(s) \in S
      /\ Tail(s) \in Seq(S) /\ Len(Tail(s)) = Len(s) - 1
      /\ \A i \in 1 .. Len(s) - 1 : Tail(s)[i] = s[i + 1]
  OBVIOUS
<1> DEFINE r == Tail(s)
           h == Head(s)
<1> HIDE DEF r, h
<1>2. h \in Items(s)
  BY <1>1, ItemsOf DEF h
<1>3. ASSUME NEW x \in Items(r) PROVE \E i \in 2 .. Len(s) : s[i] = x
  <2>0. r \in Seq(S)
    BY <1>1 DEF r
  <2>1. PICK i \in 1 .. Len(r) : r[i] = x
    BY <2>0, <1>3, ItemsOf
  <2>2. i + 1 \in 2 .. Len(s) /\ s[i + 1] = x
    BY <1>1, <2>1 DEF r
  <2> QED BY <2>2
<1>4. ASSUME NEW x \in Items(s), x # h PROVE x \in Items(r)
  <2>1. PICK i \in 1 .. Len(s) : s[i] = x
    BY <1>4, ItemsOf
  <2>2. i - 1 \in 1 .. Len(r) /\ r[i - 1] = x
    BY <1>1, <1>4, <2>1 DEF r, h
  <2> QED BY <1>1, <2>2, ItemsOf, Zenon DEF r
<1>5. \A x \in Items(r) : x \in Items(s)
  <2>1. \A i \in 2 .. Len(s) : i \in 1 .. Len(s)
    BY <1>1
  <2> QED BY <1>3, <2>1, ItemsOf, Zenon
<1>6. ASSUME Distinct(s) PROVE h \notin Items(r) /\ Distinct(r)
  <2>1. h \notin Items(r)
    BY <1>1, <1>3, <1>6 DEF Distinct, h
  <2>2. Distinct(r)
    <3> SUFFICES ASSUME NEW i \in 1 .. Len(r), NEW j \in 1 .. Len(r), r[i] = r[j]
                 PROVE  i = j
      BY DEF Distinct
    <3>1. i + 1 \in 1 .. Len(s) /\ j + 1 \in 1 .. Len(s) /\ s[i + 1] = s[j + 1]
      BY <1>1 DEF r
    <3> QED BY <1>1, <1>6, <3>1 DEF Distinct, r
  <2> QED BY <2>1, <2>2
<1> QED BY <1>1, <1>2, <1>4, <1>5, <1>6 DEF r, h

\* push_back adds the item.
LEMMA AppendItems ==
  ASSUME NEW S, NEW s \in Seq(S), NEW e \in S
  PROVE  /\ Append(s, e) \in Seq(S)
         /\ Items(Append(s, e)) = Items(s) \cup {e}
         /\ Distinct(s) /\ e \notin Items(s) => Distinct(Append(s, e))
<1> DEFINE r == Append(s, e)
<1>1. /\ r \in Seq(S) /\ Len(r) = Len(s) + 1 /\ Len(s) \in Nat
      /\ \A i \in 1 .. Len(s) : r[i] = s[i]
      /\ r[Len(s) + 1] = e
  OBVIOUS
<1> HIDE DEF r
<1>2. ASSUME NEW x \in Items(r) PROVE x \in Items(s) \cup {e}
  <2>1. PICK i \in 1 .. Len(r) : r[i] = x
    BY <1>1, <1>2, ItemsOf
  <2>2. i \in 1 .. Len(s) \/ i = Len(s) + 1
    BY <1>1, <2>1
  <2> QED BY <1>1, <2>1, <2>2, ItemsOf
<1>3. ASSUME NEW x \in Items(s) PROVE x \in Items(r)
  <2>1. PICK i \in 1 .. Len(s) : s[i] = x
    BY <1>3, ItemsOf
  <2>2. i \in 1 .. Len(r) /\ r[i] = x
    BY <1>1, <2>1
  <2> QED BY <1>1, <2>2, ItemsOf
<1>4. e \in Items(r)
  BY <1>1, ItemsOf
<1>5. ASSUME Distinct(s), e \notin Items(s) PROVE Distinct(r)
  <2>1. \A k \in 1 .. Len(s) : s[k] # e
    BY <1>5, ItemsOf
  <2> QED BY <1>1, <1>5, <2>1 DEF Distinct
<1> QED BY <1>1, <1>2, <1>3, <1>4, <1>5 DEF r

-----------------------------------------------------------------------------
(* Sorted lists                                                            *)

\* The ranks of the items of s descend from head to tail.
Descending(s, rank) ==
  \A i, j \in 1 .. Len(s) : i < j => rank[s[i]] >= rank[s[j]]

\* insert_after keeps a list sorted when its predicate holds only of items that
\* rank as high as the new one and fails only of items that rank no higher.
LEMMA InsertAfterDescending ==
  ASSUME NEW S, NEW s \in Seq(S), NEW e \in S, NEW Pred, NEW rank \in [S -> Int],
         \A u \in S : u \in Pred => rank[u] >= rank[e],
         \A u \in S : u \notin Pred => rank[u] <= rank[e],
         Descending(s, rank)
  PROVE  Descending(InsertAfter(s, e, Pred), rank)
<1> DEFINE n == Passed(s, Pred)
           r == InsertAfter(s, e, Pred)
<1>1. /\ n \in 0 .. Len(s)
      /\ \A i \in 1 .. n : s[i] \in Pred
      /\ n < Len(s) => s[n + 1] \notin Pred
  BY PassedExists
<1>2. /\ r \in Seq(S) /\ Len(r) = Len(s) + 1
      /\ \A i \in 1 .. n : r[i] = s[i]
      /\ r[n + 1] = e
      /\ \A i \in n + 2 .. Len(s) + 1 : r[i] = s[i - 1]
  BY InsertAfterShape
<1> HIDE DEF n, r
<1>3. \A i \in 1 .. Len(s) : s[i] \in S
  OBVIOUS
<1>4. \A i \in 1 .. n : rank[s[i]] >= rank[e]
  BY <1>1, <1>3
<1>5. \A i \in n + 1 .. Len(s) : rank[s[i]] <= rank[e]
  <2> SUFFICES ASSUME NEW i \in n + 1 .. Len(s) PROVE rank[s[i]] <= rank[e]
    OBVIOUS
  <2>1. n + 1 \in 1 .. Len(s) /\ rank[s[n + 1]] <= rank[e]
    BY <1>1, <1>3
  <2>2. rank[s[i]] <= rank[s[n + 1]]
    BY <1>1, <1>3, <2>1 DEF Descending
  <2>3. rank[s[i]] \in Int /\ rank[s[n + 1]] \in Int /\ rank[e] \in Int
    BY <1>1, <1>3, <2>1
  <2> QED BY <2>1, <2>2, <2>3
<1> SUFFICES ASSUME NEW i \in 1 .. Len(r), NEW j \in 1 .. Len(r), i < j
             PROVE  rank[r[i]] >= rank[r[j]]
  BY DEF Descending, r
<1> DEFINE l == Len(s)
<1>a. l \in Nat /\ n \in Nat /\ n <= l /\ i \in Nat /\ j \in Nat /\ 1 <= i /\ j <= l + 1
  BY <1>1, <1>2
<1>b. \A p, q \in 1 .. l : p < q => rank[s[p]] >= rank[s[q]]
  BY DEF Descending
<1> HIDE DEF l
<1>6. CASE i \in 1 .. n /\ j \in 1 .. n
  <2>1. r[i] = s[i] /\ r[j] = s[j]
    BY <1>2, <1>6
  <2>2. i \in 1 .. l /\ j \in 1 .. l
    BY <1>a, <1>6
  <2> QED BY <1>b, <2>1, <2>2
<1>7. CASE i \in 1 .. n /\ j = n + 1
  BY <1>2, <1>4, <1>7, Zenon
<1>8. CASE i \in 1 .. n /\ j \in n + 2 .. l + 1
  <2>1. r[i] = s[i] /\ r[j] = s[j - 1]
    BY <1>2, <1>8, Zenon DEF l
  <2>2. i \in 1 .. l /\ j - 1 \in 1 .. l /\ i < j - 1
    BY <1>a, <1>8
  <2> QED BY <1>b, <2>1, <2>2
<1>9. CASE i = n + 1 /\ j \in n + 2 .. l + 1
  <2>1. r[i] = e /\ r[j] = s[j - 1]
    BY <1>2, <1>9, Zenon DEF l
  <2>2. j - 1 \in n + 1 .. l /\ j - 1 \in 1 .. l
    BY <1>a, <1>9
  <2>3. rank[s[j - 1]] <= rank[e]
    BY <1>5, <2>2 DEF l
  <2>4. rank[s[j - 1]] \in Int /\ rank[e] \in Int
    BY <1>3, <2>2 DEF l
  <2> QED BY <2>1, <2>3, <2>4
<1>10. CASE i \in n + 2 .. l + 1 /\ j \in n + 2 .. l + 1
  <2>1. r[i] = s[i - 1] /\ r[j] = s[j - 1]
    BY <1>2, <1>10, Zenon DEF l
  <2>2. i - 1 \in 1 .. l /\ j - 1 \in 1 .. l /\ i - 1 < j - 1
    BY <1>a, <1>10
  <2> QED BY <1>b, <2>1, <2>2
<1> QED BY <1>a, <1>6, <1>7, <1>8, <1>9, <1>10

\* pop_front and remove keep a list sorted.
LEMMA TailDescending ==
  ASSUME NEW S, NEW s \in Seq(S), s # <<>>, NEW rank, Descending(s, rank)
  PROVE  Descending(Tail(s), rank)
<1>1. /\ Len(s) \in Nat /\ Len(Tail(s)) = Len(s) - 1
      /\ \A i \in 1 .. Len(s) - 1 : Tail(s)[i] = s[i + 1]
  OBVIOUS
<1> SUFFICES ASSUME NEW i \in 1 .. Len(s) - 1, NEW j \in 1 .. Len(s) - 1, i < j
             PROVE  rank[Tail(s)[i]] >= rank[Tail(s)[j]]
  BY <1>1 DEF Descending
<1>2. i + 1 \in 1 .. Len(s) /\ j + 1 \in 1 .. Len(s) /\ i + 1 < j + 1
  BY <1>1
<1>3. Tail(s)[i] = s[i + 1] /\ Tail(s)[j] = s[j + 1]
  BY <1>1
<1>4. rank[s[i + 1]] >= rank[s[j + 1]]
  BY <1>2, Zenon DEF Descending
<1> QED BY <1>3, <1>4

\* Unlinking keeps the order.
LEMMA UnlinkDescending ==
  ASSUME NEW S, NEW s \in Seq(S), NEW e \in Items(s), NEW rank, Descending(s, rank)
  PROVE  Descending(Unlink(s, e), rank)
<1> DEFINE r == Unlink(s, e)
           l == Len(s)
<1>1. PICK k \in 1 .. l :
             /\ s[k] = e
             /\ r \in Seq(S) /\ Len(r) = l - 1
             /\ \A i \in 1 .. k - 1 : r[i] = s[i]
             /\ \A i \in k .. l - 1 : r[i] = s[i + 1]
  BY UnlinkShape
<1>2. \A p, q \in 1 .. l : p < q => rank[s[p]] >= rank[s[q]]
  BY DEF Descending
<1>3. l \in Nat
  OBVIOUS
<1> HIDE DEF r, l
<1> SUFFICES ASSUME NEW i \in 1 .. l - 1, NEW j \in 1 .. l - 1, i < j
             PROVE  rank[r[i]] >= rank[r[j]]
  BY <1>1, Zenon DEF Descending, r
<1>4. CASE i \in 1 .. k - 1 /\ j \in 1 .. k - 1
  <2>1. r[i] = s[i] /\ r[j] = s[j]
    BY <1>1, <1>4
  <2>2. i \in 1 .. l /\ j \in 1 .. l
    BY <1>3
  <2> QED BY <1>2, <2>1, <2>2
<1>5. CASE i \in 1 .. k - 1 /\ j \in k .. l - 1
  <2>1. r[i] = s[i] /\ r[j] = s[j + 1]
    BY <1>1, <1>5
  <2>2. i \in 1 .. l /\ j + 1 \in 1 .. l /\ i < j + 1
    BY <1>3
  <2> QED BY <1>2, <2>1, <2>2
<1>6. CASE i \in k .. l - 1 /\ j \in k .. l - 1
  <2>1. r[i] = s[i + 1] /\ r[j] = s[j + 1]
    BY <1>1, <1>6
  <2>2. i + 1 \in 1 .. l /\ j + 1 \in 1 .. l /\ i + 1 < j + 1
    BY <1>3
  <2> QED BY <1>2, <2>1, <2>2
<1> QED BY <1>3, <1>4, <1>5, <1>6
=============================================================================
