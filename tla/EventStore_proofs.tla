--------------------------- MODULE EventStore_proofs ---------------------------
(***************************************************************************)
(* Proofs about EventStore, for every capacity, page size and filter and   *)
(* any number of events: the ring implements the log of the newest events, *)
(* its readers answer what the log says, its pages repeat and skip nothing *)
(* while the cursor finds its event, and the dashboards agree with the     *)
(* lists of events.                                                        *)
(***************************************************************************)
EXTENDS Dashboard, FiniteSetTheorems, FunctionTheorems, TLAPS

\* Remainders of the numbers the ring computes with, all below twice its size.
LEMMA SmallMod ==
  ASSUME NEW n \in Nat \ {0}, NEW a \in 0..(2 * n - 1)
  PROVE  a % n = IF a < n THEN a ELSE a - n
OBVIOUS

LEMMA RingTypeCorrect == Spec => []RingTypeOK
<1>1. Init => RingTypeOK
  BY MaxEventsAssumption, MaxAddsAssumption DEF Init, RingTypeOK
<1>2. RingTypeOK /\ [Next]_vars => RingTypeOK'
  <2> SUFFICES ASSUME RingTypeOK, [Next]_vars PROVE RingTypeOK'
    OBVIOUS
  <2>1. ASSUME NEW kind \in Kinds, NEW id \in Ids, AddEvent(kind, id) PROVE RingTypeOK'
    <3>1. Arriving(kind, id) \in Event /\ count + 1 \in 0..MaxAdds
      BY <2>1, MaxAddsAssumption DEF AddEvent, RingTypeOK, Event, Arriving
    <3>2. (head + 1) % MaxEvents \in 0..(MaxEvents - 1)
      BY MaxEventsAssumption, SmallMod DEF RingTypeOK
    <3> QED
      BY <2>1, <3>1, <3>2 DEF AddEvent, RingTypeOK
  <2>2. CASE UNCHANGED ringVars
    BY <2>2 DEF RingTypeOK, ringVars
  <2> QED
    BY <2>1, <2>2 DEF Next, FetchPage, vars
<1> QED
  BY <1>1, <1>2, PTL DEF Spec

\* Adding an event makes it the newest and moves every other one down by one.
LEMMA SlotsShift ==
  ASSUME RingTypeOK, NEW kind \in Kinds, NEW id \in Ids, AddEvent(kind, id)
  PROVE  /\ Slot(0)' = Arriving(kind, id)
         /\ \A i \in 1..(MaxEvents - 1) : Slot(i)' = Slot(i - 1)
<1> DEFINE N == MaxEvents
<1>1. N \in Nat \ {0} /\ head \in 0..(N - 1)
  BY MaxEventsAssumption DEF RingTypeOK
<1>2. head' = IF head = N - 1 THEN 0 ELSE head + 1
  <2> DEFINE a == head + 1
  <2>1. a \in 0..(2 * N - 1)
    BY <1>1
  <2> HIDE DEF a, N
  <2>2. a % N = IF a < N THEN a ELSE a - N
    BY <1>1, <2>1, SmallMod
  <2>3. head' = a % N
    BY DEF AddEvent, a, N
  <2> QED
    BY <1>1, <2>2, <2>3 DEF a
<1>3. (head' - 1 - 0 + N) % N = head
  BY <1>1, <1>2, SmallMod
<1>4. ASSUME NEW i \in 1..(N - 1)
      PROVE  /\ (head' - 1 - i + N) % N = (head - 1 - (i - 1) + N) % N
             /\ (head - 1 - (i - 1) + N) % N \in (0..(N - 1)) \ {head}
  <2> DEFINE a == head' - 1 - i + N
             b == head - 1 - (i - 1) + N
  <2>1. a \in 0..(2 * N - 1) /\ b \in 0..(2 * N - 1)
    BY <1>1, <1>2
  <2>2. /\ a % N = IF a < N THEN a ELSE a - N
        /\ b % N = IF b < N THEN b ELSE b - N
    BY <1>1, <2>1, SmallMod
  <2>3. /\ (IF a < N THEN a ELSE a - N) = (IF b < N THEN b ELSE b - N)
        /\ (IF b < N THEN b ELSE b - N) \in (0..(N - 1)) \ {head}
    BY <1>1, <1>2
  <2> HIDE DEF a, b
  <2>4. a % N = b % N /\ b % N \in (0..(N - 1)) \ {head}
    BY <2>2, <2>3
  <2> QED
    BY <2>4 DEF a, b
<1>5. \A j \in 0..(N - 1) : events'[j] =
         IF j = head THEN Arriving(kind, id) ELSE events[j]
  BY DEF AddEvent, RingTypeOK
<1> QED
  BY <1>1, <1>3, <1>4, <1>5 DEF Slot, AddEvent

\* Every AddEvent of the ring is a Remember of the log, whether the ring is still
\* filling up or already overwrites its oldest event; readers change nothing.
THEOREM RingImplementsLog == Spec => LogSpec
<1> DEFINE W == [k \in 1..Size |-> Slot(k - 1)]
           N == MaxEvents
<1>1. Init => Log!Init
  BY MaxEventsAssumption DEF Init, Log!Init, Size, Min2
<1>2. RingTypeOK /\ [Next]_vars => [Log!Next]_W
  <2> SUFFICES ASSUME RingTypeOK, [Next]_vars PROVE Log!Next \/ W' = W
    OBVIOUS
  <2>1. ASSUME NEW kind \in Kinds, NEW id \in Ids, AddEvent(kind, id) PROVE Log!Next
    <3> DEFINE ev == Arriving(kind, id)
    <3>1. N \in Nat \ {0} /\ count \in Nat /\ count' = count + 1
      BY <2>1, MaxEventsAssumption, MaxAddsAssumption DEF AddEvent, RingTypeOK
    <3>2. ev \in Event
      BY <2>1, <3>1, MaxAddsAssumption DEF AddEvent, Event, Arriving
    <3>3. /\ Slot(0)' = ev
          /\ \A i \in 1..(N - 1) : Slot(i)' = Slot(i - 1)
      BY <2>1, SlotsShift
    <3>4. Size \in 0..N /\ Size' = IF Size < N THEN Size + 1 ELSE N
      BY <3>1 DEF Size, Min2
    <3>5. W' = [k \in 1..Size' |-> IF k = 1 THEN ev ELSE Slot(k - 2)]
      <4>1. \A k \in 1..Size' : Slot(k - 1)' = IF k = 1 THEN ev ELSE Slot(k - 2)
        BY <3>1, <3>3, <3>4
      <4> QED
        BY <4>1
    <3>6. W' = IF Len(W) < N THEN <<ev>> \o W ELSE <<ev>> \o SubSeq(W, 1, N - 1)
      <4> DEFINE S == Event \cup {Blank}
                 Older == IF Size < N THEN W ELSE SubSeq(W, 1, N - 1)
      <4>1. ASSUME NEW i \in 0..(N - 1) PROVE Slot(i) \in S
        <5> DEFINE a == head - 1 - i + N
        <5>1. a \in 0..(2 * N - 1)
          BY <3>1 DEF RingTypeOK
        <5> HIDE DEF a, N
        <5>2. a % N \in 0..(N - 1)
          BY <3>1, <5>1, SmallMod
        <5> QED
          BY <5>2 DEF Slot, RingTypeOK, a, N
      <4>2. W \in Seq(S) /\ Len(W) = Size
        BY <3>1, <3>4, <4>1
      <4>3. /\ Older \in Seq(S) /\ Len(Older) = Size' - 1
            /\ \A k \in 1..Len(Older) : Older[k] = Slot(k - 1)
        <5>1. CASE Size < N
          BY <5>1, <3>1, <3>4, <4>2
        <5>2. CASE ~(Size < N)
          <6>1. Size = N /\ N - 1 \in 0..Size
            BY <3>1, <3>4, <5>2
          <6>2. Older = SubSeq(W, 1, N - 1)
            BY <5>2
          <6> QED
            BY <6>1, <6>2, <3>1, <3>4, <4>2
        <5> QED
          BY <5>1, <5>2
      <4>4. <<ev>> \o Older = [k \in 1..Size' |-> IF k = 1 THEN ev ELSE Slot(k - 2)]
        <5>1. ev \in S
          BY <3>2
        <5> HIDE DEF Older, S, ev
        <5>2. <<ev>> \o Older \in Seq(S)
          BY <5>1, <4>3
        <5>3. Len(<<ev>> \o Older) = Size' /\ Size' \in Nat
          BY <3>1, <3>4, <4>3
        <5>4. \A k \in 1..Size' : (<<ev>> \o Older)[k] = IF k = 1 THEN ev ELSE Slot(k - 2)
          BY <3>1, <3>4, <4>3
        <5> DEFINE L == <<ev>> \o Older
        <5>5. L = [k \in 1..Len(L) |-> L[k]]
          <6> HIDE DEF L
          <6>1. L \in Seq(S)
            BY <5>2 DEF L
          <6> QED
            BY <6>1
        <5>6. [k \in 1..Len(L) |-> L[k]] =
                 [k \in 1..Size' |-> IF k = 1 THEN ev ELSE Slot(k - 2)]
          <6>1. Len(L) = Size' /\ \A k \in 1..Size' : L[k] = IF k = 1 THEN ev ELSE Slot(k - 2)
            BY <5>3, <5>4
          <6> HIDE DEF L
          <6> QED
            BY <6>1
        <5> QED
          BY <5>5, <5>6
      <4> QED
        BY <3>5, <4>2, <4>4
    <3> QED
      BY <3>2, <3>6 DEF Log!Next, Log!Remember
  <2>2. CASE UNCHANGED ringVars
    BY <2>2 DEF ringVars, Size, Slot
  <2> QED
    BY <2>1, <2>2 DEF Next, FetchPage, vars
<1> QED
  BY <1>1, <1>2, RingTypeCorrect, PTL DEF Spec, LogSpec, Log!Spec

-----------------------------------------------------------------------------
(* The loop of the readers *)

Rank(at, i) == Cardinality({j \in at : j < i})

\* The positions of a set are ranked from nought on, in their order.
LEMMA Ranks ==
  ASSUME NEW at \in SUBSET Int, IsFiniteSet(at)
  PROVE  /\ Cardinality(at) \in Nat
         /\ \A i \in at : Rank(at, i) \in 0..(Cardinality(at) - 1)
         /\ \A i, j \in at : i < j => Rank(at, i) < Rank(at, j)
<1> DEFINE Below(i) == {j \in at : j < i}
<1>1. Cardinality(at) \in Nat
  BY FS_CardinalityType
<1>0. \A i, j \in at : j \in Below(i) <=> j < i
  OBVIOUS
<1>a. \A i \in at : Below(i) \subseteq at
  OBVIOUS
<1>b. \A i \in at : i \in Int
  OBVIOUS
<1>2. ASSUME NEW i \in at
      PROVE  /\ IsFiniteSet(Below(i)) /\ Cardinality(Below(i)) \in Nat
             /\ IsFiniteSet(Below(i) \cup {i})
             /\ Cardinality(Below(i) \cup {i}) = Cardinality(Below(i)) + 1
  <2>1. Below(i) \in SUBSET at /\ i \notin Below(i)
    OBVIOUS
  <2> HIDE DEF Below
  <2>2. IsFiniteSet(Below(i))
    BY <2>1, FS_Subset
  <2> QED
    BY <2>1, <2>2, FS_CardinalityType, FS_AddElement
<1>3. ASSUME NEW i \in at, NEW S, IsFiniteSet(S), Below(i) \cup {i} \subseteq S
      PROVE  Cardinality(Below(i)) + 1 <= Cardinality(S)
  <2> HIDE DEF Below
  <2>1. Cardinality(Below(i) \cup {i}) <= Cardinality(S)
    BY <1>3, FS_Subset
  <2> QED
    BY <1>2, <2>1
<1> HIDE DEF Below
<1>4. ASSUME NEW i \in at PROVE Cardinality(Below(i)) \in 0..(Cardinality(at) - 1)
  <2>1. Below(i) \cup {i} \subseteq at
    BY <1>a
  <2>2. Cardinality(Below(i)) + 1 <= Cardinality(at)
    BY <1>3, <2>1
  <2>3. Cardinality(Below(i)) \in Nat
    BY <1>2
  <2> QED
    BY <1>1, <2>2, <2>3
<1>5. ASSUME NEW i \in at, NEW j \in at, i < j PROVE Cardinality(Below(i)) < Cardinality(Below(j))
  <2>1. Below(i) \cup {i} \subseteq Below(j)
    <3>1. ASSUME NEW x \in Below(i) PROVE x \in Below(j)
      <4>1. x \in at /\ x < i
        BY <1>0, <1>a
      <4>2. x \in Int /\ i \in Int /\ j \in Int
        BY <1>b, <4>1
      <4> QED
        BY <1>0, <1>5, <4>1, <4>2
    <3>2. i \in Below(j)
      BY <1>0, <1>5
    <3> QED
      BY <3>1, <3>2
  <2>2. IsFiniteSet(Below(j)) /\ Cardinality(Below(j)) \in Nat /\ Cardinality(Below(i)) \in Nat
    BY <1>2
  <2>3. Cardinality(Below(i)) + 1 <= Cardinality(Below(j))
    BY <1>3, <2>1, <2>2
  <2> QED
    BY <2>2, <2>3
<1>6. \A i \in at : Rank(at, i) = Cardinality(Below(i))
  BY DEF Rank, Below
<1> QED
  BY <1>1, <1>4, <1>5, <1>6

\* So there is one of every rank.
LEMMA NthRank ==
  ASSUME NEW at \in SUBSET Int, IsFiniteSet(at), NEW k \in 1..Cardinality(at)
  PROVE  Nth(at, k) \in at /\ Rank(at, Nth(at, k)) = k - 1
<1> DEFINE T == 0..(Cardinality(at) - 1)
           f == [i \in at |-> Rank(at, i)]
<1>1. /\ Cardinality(at) \in Nat
      /\ \A i \in at : Rank(at, i) \in T
      /\ \A i, j \in at : Rank(at, i) = Rank(at, j) => i = j
  BY Ranks
<1>2. IsFiniteSet(T) /\ Cardinality(T) = Cardinality(at)
  <2> DEFINE c == Cardinality(at) - 1
  <2>1. c \in Int /\ 0 \in Int
    BY <1>1
  <2>2. c - 0 + 1 = Cardinality(at) /\ (0 > c => Cardinality(at) = 0)
    BY <1>1
  <2> HIDE DEF c
  <2>3. IsFiniteSet(0..c) /\ Cardinality(0..c) = IF 0 > c THEN 0 ELSE c - 0 + 1
    BY <2>1, FS_Interval
  <2> QED
    BY <2>2, <2>3 DEF c
<1>3. k - 1 \in T
  BY <1>1
<1> HIDE DEF T
<1>4. f \in [at -> T] /\ \A i \in at : f[i] = Rank(at, i)
  BY <1>1
<1> HIDE DEF f
<1>5. f \in Injection(at, T)
  BY <1>1, <1>4, Fun_IsInj
<1>6. f \in Surjection(at, T)
  BY <1>2, <1>5, FS_Injection
<1>7. \E i \in at : f[i] = k - 1
  BY <1>3, <1>6 DEF Surjection
<1>8. \E i \in at : Cardinality({j \in at : j < i}) = k - 1
  BY <1>4, <1>7 DEF Rank
<1> QED
  BY <1>8 DEF Nth, Rank

\* A page has the events at the first, second and so on of some positions, which
\* rise, and leaves none of them out but behind the last of as many as asked for.
At(page, at) == \A k \in 1..Len(page) : Nth(at, k) \in at /\ page[k] = Slot(Nth(at, k))
Rising(page, at) == \A k, l \in 1..Len(page) : k < l => Nth(at, k) < Nth(at, l)
Whole(page, at, n) ==
    \A i \in at :
        \/ \E k \in 1..Len(page) : Nth(at, k) = i
        \/ Len(page) = n /\ \A k \in 1..Len(page) : Nth(at, k) < i

\* What a reader is given: matching events, newest first, and none left out but
\* behind the last of as many as it asked for.
LEMMA ScanGives ==
  ASSUME NEW start \in Nat, Size \in Nat, NEW q, NEW n \in Nat,
         NEW page, page = Scan(start, q, n)
  PROVE  /\ Len(page) \in Nat /\ Len(page) <= n /\ DOMAIN page = 1..Len(page)
         /\ At(page, Matching(start, q))
         /\ Rising(page, Matching(start, q))
         /\ Whole(page, Matching(start, q), n)
<1> DEFINE at == Matching(start, q)
           len == Min2(Cardinality(at), n)
<1>1. at \in SUBSET Int /\ IsFiniteSet(at)
  <2> DEFINE last == Size - 1
  <2>0. start \in Int /\ last \in Int
    OBVIOUS
  <2>1. IsFiniteSet(start..last) /\ start..last \subseteq Int
    <3> HIDE DEF last
    <3> QED
      BY <2>0, FS_Interval
  <2>2. at \in SUBSET (start..(Size - 1))
    BY DEF Matching
  <2> HIDE DEF at
  <2> QED
    BY <2>1, <2>2, FS_Subset
<1> HIDE DEF at
<1>2. Cardinality(at) \in Nat
  BY <1>1, Ranks
<1>3. /\ len \in Nat /\ len <= n /\ len <= Cardinality(at)
      /\ len = n \/ len = Cardinality(at)
  BY <1>2 DEF Min2
<1>4. page = [k \in 1..len |-> Slot(Nth(at, k))]
  BY DEF Scan, at
<1> HIDE DEF len
<1>5. Len(page) = len /\ DOMAIN page = 1..len /\ \A k \in 1..len : page[k] = Slot(Nth(at, k))
  BY <1>3, <1>4
<1>6. \A k \in 1..len : Nth(at, k) \in at /\ Rank(at, Nth(at, k)) = k - 1 /\ Nth(at, k) \in Int
  <2> SUFFICES ASSUME NEW k \in 1..len
               PROVE  Nth(at, k) \in at /\ Rank(at, Nth(at, k)) = k - 1 /\ Nth(at, k) \in Int
    OBVIOUS
  <2>1. k \in 1..Cardinality(at)
    BY <1>2, <1>3
  <2> QED
    BY <1>1, <2>1, NthRank
<1>7. \A i \in at : Rank(at, i) \in 0..(Cardinality(at) - 1)
  BY <1>1, Ranks
<1>8. \A i, j \in at : i < j => Rank(at, i) < Rank(at, j)
  BY <1>1, Ranks
<1>9. \A i, j \in at : Rank(at, i) < Rank(at, j) => i < j
  <2> SUFFICES ASSUME NEW i \in at, NEW j \in at, Rank(at, i) < Rank(at, j) PROVE i < j
    OBVIOUS
  <2>1. i \in Int /\ j \in Int /\ Rank(at, i) \in Int /\ Rank(at, j) \in Int
    BY <1>1, <1>2, <1>7
  <2>2. j < i => Rank(at, j) < Rank(at, i)
    BY <1>8
  <2> QED
    BY <2>1, <2>2
<1>10. ASSUME NEW k \in 1..len, NEW l \in 1..len, k < l PROVE Nth(at, k) < Nth(at, l)
  BY <1>3, <1>6, <1>9, <1>10
<1>11. ASSUME NEW i \in at
       PROVE  \/ \E k \in 1..len : Nth(at, k) = i
              \/ len = n /\ \A k \in 1..len : Nth(at, k) < i
  <2> DEFINE r == Rank(at, i)
  <2>1. r \in 0..(Cardinality(at) - 1) /\ i \in Int
    BY <1>1, <1>7
  <2>2. CASE r + 1 <= len
    <3> DEFINE j == Nth(at, r + 1)
    <3>1. r + 1 \in 1..len
      BY <1>2, <1>3, <2>1, <2>2
    <3>2. j \in at /\ j \in Int /\ Rank(at, j) = r
      BY <1>6, <2>1, <3>1
    <3>3. j = i
      <4> HIDE DEF j
      <4>1. ~ (j < i) /\ ~ (i < j)
        BY <1>2, <1>8, <2>1, <3>2
      <4> QED
        BY <2>1, <3>2, <4>1
    <3> QED
      BY <3>1, <3>3
  <2>3. CASE ~ (r + 1 <= len)
    <3>1. len = n
      BY <1>2, <1>3, <2>1, <2>3
    <3>2. ASSUME NEW k \in 1..len PROVE Nth(at, k) < i
      <4>1. Nth(at, k) \in at /\ Rank(at, Nth(at, k)) < r
        BY <1>2, <1>3, <1>6, <2>1, <2>3
      <4> QED
        BY <1>9, <4>1
    <3> QED
      BY <3>1, <3>2
  <2> QED
    BY <2>2, <2>3
<1>12. At(page, at)
  BY <1>5, <1>6 DEF At
<1>13. Rising(page, at)
  BY <1>5, <1>10 DEF Rising
<1>14. Whole(page, at, n)
  BY <1>5, <1>11 DEF Whole
<1>15. Len(page) \in Nat /\ Len(page) <= n /\ DOMAIN page = 1..Len(page)
  BY <1>3, <1>5
<1> QED
  BY <1>12, <1>13, <1>14, <1>15 DEF at

-----------------------------------------------------------------------------
(* What the slots hold *)

\* The i-th newest slot holds the event that arrived i before the last.
InOrder == \A i \in 0..(Size - 1) : Slot(i) \in Event /\ Slot(i).n = count - i

RingInv == RingTypeOK /\ InOrder

LEMMA Sizes ==
  ASSUME RingTypeOK
  PROVE  /\ Size \in Nat /\ Size <= count /\ Size <= MaxEvents
         /\ count \in Nat /\ MaxEvents \in Nat \ {0} /\ MaxAdds \in Nat /\ count <= MaxAdds
         /\ Size = count \/ Size = MaxEvents
BY MaxEventsAssumption, MaxAddsAssumption DEF RingTypeOK, Size, Min2

LEMMA AddKeepsOrder ==
  ASSUME RingInv, NEW kind \in Kinds, NEW id \in Ids, AddEvent(kind, id)
  PROVE  InOrder'
<1> DEFINE ev == Arriving(kind, id)
<1>1. /\ Slot(0)' = ev
      /\ \A i \in 1..(MaxEvents - 1) : Slot(i)' = Slot(i - 1)
  BY SlotsShift DEF RingInv
<1>2. /\ count \in Nat /\ count' = count + 1 /\ MaxEvents \in Nat \ {0}
      /\ Size' \in Nat /\ Size' <= MaxEvents /\ Size' <= Size + 1 /\ Size \in Nat
  BY MaxEventsAssumption, MaxAddsAssumption DEF RingInv, RingTypeOK, AddEvent, Size, Min2
<1>3. ev \in Event /\ ev.n = count + 1
  BY <1>2, MaxAddsAssumption DEF AddEvent, Event, Arriving
<1>4. ASSUME NEW i \in 0..(Size' - 1)
      PROVE  Slot(i)' \in Event /\ Slot(i)'.n = count' - i
  <2>1. CASE i = 0
    <3> HIDE DEF ev
    <3> QED
      BY <1>1, <1>2, <1>3, <2>1
  <2>2. CASE i # 0
    <3>1. i \in 1..(MaxEvents - 1) /\ i - 1 \in 0..(Size - 1)
      <4> DEFINE s == Size'
      <4>1. s \in Nat /\ i \in 0..(s - 1)
        BY <1>2
      <4>2. s <= MaxEvents /\ s <= Size + 1
        BY <1>2
      <4> HIDE DEF s
      <4> QED
        BY <1>2, <2>2, <4>1, <4>2
    <3>2. Slot(i)' = Slot(i - 1)
      BY <1>1, <3>1
    <3>3. Slot(i - 1) \in Event /\ Slot(i - 1).n = count - (i - 1)
      BY <3>1 DEF RingInv, InOrder
    <3>4. count - (i - 1) = count' - i
      BY <1>2
    <3> QED
      BY <3>2, <3>3, <3>4
  <2> QED
    BY <2>1, <2>2
<1> QED
  BY <1>4 DEF InOrder

LEMMA RingCorrect == Spec => []RingInv
<1>1. Init => InOrder
  BY MaxEventsAssumption DEF Init, InOrder, Size, Min2
<1>2. RingInv /\ RingTypeOK' /\ [Next]_vars => InOrder'
  <2> SUFFICES ASSUME RingInv, [Next]_vars PROVE InOrder'
    OBVIOUS
  <2>1. ASSUME NEW kind \in Kinds, NEW id \in Ids, AddEvent(kind, id) PROVE InOrder'
    BY <2>1, AddKeepsOrder
  <2>2. CASE UNCHANGED ringVars
    BY <2>2 DEF RingInv, InOrder, ringVars, Size, Slot
  <2> QED
    BY <2>1, <2>2 DEF Next, FetchPage, vars
<1> QED
  BY <1>1, <1>2, RingTypeCorrect, PTL DEF Spec, RingInv

\* A query lets an event through by its kind.
LEMMA MatchingIs ==
  ASSUME RingInv, NEW start \in Nat, NEW q, NEW i \in Int
  PROVE  i \in Matching(start, q) <=> start <= i /\ i < Size /\ Slot(i).kind \in q
<1>1. Size \in Nat
  BY Sizes DEF RingInv
<1>2. i \in 0..(Size - 1) => Slot(i) # Blank
  BY DEF RingInv, InOrder, Event, Blank
<1> QED
  BY <1>1, <1>2 DEF Matching, matchEvent

LEMMA ReadsAreNewest ==
  ASSUME RingInv, NEW q \in Queries, NEW n \in 1..MaxPage
  PROVE  Log!Newest(RecentEvents(q, n), {ev \in Event : ev.kind \in q}, n)
<1> DEFINE page == RecentEvents(q, n)
           W == [k \in 1..Size |-> Slot(k - 1)]
           P == {ev \in Event : ev.kind \in q}
           nth(k) == Nth(Matching(0, q), k)
           at == [k \in 1..Len(page) |-> nth(k) + 1]
<1>1. Size \in Nat /\ n \in Nat /\ 0 \in Nat
  BY Sizes, PageAssumption DEF RingInv
<1>2. page = Scan(0, q, n)
  BY DEF RecentEvents
<1> HIDE DEF page
<1>3. /\ Len(page) \in Nat /\ Len(page) <= n /\ DOMAIN page = 1..Len(page)
      /\ At(page, Matching(0, q)) /\ Rising(page, Matching(0, q)) /\ Whole(page, Matching(0, q), n)
  BY <1>1, <1>2, ScanGives
<1>a. Len(page) \in Nat /\ Len(page) <= n
  BY <1>3
<1>b. DOMAIN page = 1..Len(page)
  BY <1>3
<1>c. \A k \in 1..Len(page) : nth(k) \in Matching(0, q) /\ page[k] = Slot(nth(k))
  BY <1>3 DEF At
<1>d. \A k, l \in 1..Len(page) : k < l => nth(k) < nth(l)
  BY <1>3, SMTT(60) DEF Rising
<1>e. \A i \in Matching(0, q) :
          \/ \E k \in 1..Len(page) : nth(k) = i
          \/ Len(page) = n /\ \A k \in 1..Len(page) : nth(k) < i
  BY <1>3 DEF Whole
<1> HIDE DEF nth
<1>4. \A k \in 1..Len(page) : nth(k) \in 0..(Size - 1) /\ Slot(nth(k)) \in P
  <2> SUFFICES ASSUME NEW k \in 1..Len(page) PROVE nth(k) \in 0..(Size - 1) /\ Slot(nth(k)) \in P
    OBVIOUS
  <2>1. nth(k) \in Matching(0, q)
    BY <1>c
  <2>2. nth(k) \in 0..(Size - 1)
    BY <2>1 DEF Matching
  <2>3. Slot(nth(k)) \in Event /\ Slot(nth(k)).kind \in q
    BY <1>1, <2>1, <2>2, MatchingIs DEF RingInv, InOrder
  <2> QED
    BY <2>2, <2>3
<1>5. DOMAIN W = 1..Size /\ \A p \in 1..Size : W[p] = Slot(p - 1)
  OBVIOUS
<1>6. \A p \in 1..Size : W[p] \in P => p - 1 \in Matching(0, q)
  <2> SUFFICES ASSUME NEW p \in 1..Size, W[p] \in P PROVE p - 1 \in Matching(0, q)
    OBVIOUS
  <2>1. p - 1 \in Int /\ 0 <= p - 1 /\ p - 1 < Size /\ Slot(p - 1).kind \in q
    BY <1>1, <1>5
  <2> QED
    BY <1>1, <2>1, MatchingIs
<1> HIDE DEF W, P
<1>7. at \in [DOMAIN page -> DOMAIN W] /\ \A k \in DOMAIN page : at[k] = nth(k) + 1
  <2>1. DOMAIN at = 1..Len(page) /\ \A k \in 1..Len(page) : at[k] = nth(k) + 1
    OBVIOUS
  <2>2. \A k \in 1..Len(page) : nth(k) + 1 \in 1..Size
    BY <1>1, <1>4
  <2>3. at \in [1..Len(page) -> 1..Size]
    BY <2>2
  <2> HIDE DEF at
  <2> QED
    BY <1>b, <1>5, <2>1, <2>3
<1> HIDE DEF at
<1>8. \A k \in DOMAIN page : page[k] = W[at[k]] /\ page[k] \in P
  <2> SUFFICES ASSUME NEW k \in DOMAIN page PROVE page[k] = W[at[k]] /\ page[k] \in P
    OBVIOUS
  <2>1. at[k] \in 1..Size /\ at[k] - 1 = nth(k) /\ page[k] = Slot(nth(k)) /\ Slot(nth(k)) \in P
    <3>1. k \in 1..Len(page)
      BY <1>b
    <3>2. nth(k) \in 0..(Size - 1) /\ Slot(nth(k)) \in P /\ page[k] = Slot(nth(k))
      BY <1>c, <1>4, <3>1
    <3>3. at[k] = nth(k) + 1
      BY <1>7
    <3> QED
      BY <1>1, <3>2, <3>3
  <2>2. W[at[k]] = Slot(at[k] - 1)
    BY <1>5, <2>1
  <2> QED
    BY <2>1, <2>2
<1>9. \A k, l \in DOMAIN page : k < l => at[k] < at[l]
  <2> SUFFICES ASSUME NEW k \in DOMAIN page, NEW l \in DOMAIN page, k < l PROVE at[k] < at[l]
    OBVIOUS
  <2>1. k \in 1..Len(page) /\ l \in 1..Len(page)
    BY <1>b
  <2>2. nth(k) < nth(l) /\ nth(k) \in Int /\ nth(l) \in Int
    BY <1>d, <1>4, <2>1
  <2> QED
    BY <1>7, <2>2
<1>10. \A p \in DOMAIN W : W[p] \in P =>
          \/ \E k \in DOMAIN page : at[k] = p
          \/ Len(page) = n /\ \A k \in DOMAIN page : at[k] < p
  <2> SUFFICES ASSUME NEW p \in DOMAIN W, W[p] \in P
               PROVE  \/ \E k \in DOMAIN page : at[k] = p
                      \/ Len(page) = n /\ \A k \in DOMAIN page : at[k] < p
    OBVIOUS
  <2>1. p \in Int /\ p - 1 \in Matching(0, q)
    BY <1>5, <1>6
  <2>2. \/ \E k \in 1..Len(page) : nth(k) = p - 1
        \/ Len(page) = n /\ \A k \in 1..Len(page) : nth(k) < p - 1
    BY <1>e, <2>1
  <2>3. CASE \E k \in 1..Len(page) : nth(k) = p - 1
    <3>1. PICK k \in 1..Len(page) : nth(k) = p - 1
      BY <2>3
    <3>2. k \in DOMAIN page
      BY <1>b, <3>1
    <3>3. at[k] = (p - 1) + 1
      BY <1>7, <3>1, <3>2
    <3> QED
      BY <2>1, <3>2, <3>3
  <2>4. CASE Len(page) = n /\ \A k \in 1..Len(page) : nth(k) < p - 1
    <3>1. ASSUME NEW k \in DOMAIN page PROVE at[k] < p
      <4>1. k \in 1..Len(page)
        BY <1>b
      <4>2. nth(k) < p - 1 /\ nth(k) \in Int
        BY <1>4, <2>4, <4>1
      <4> QED
        BY <1>7, <2>1, <4>2
    <3> QED
      BY <2>4, <3>1
  <2> QED
    BY <2>2, <2>3, <2>4
<1>11. Len(page) <= n
  BY <1>a
<1>12. Log!Newest(page, P, n)
  BY <1>7, <1>8, <1>9, <1>10, <1>11 DEF Log!Newest, W
<1> QED
  BY <1>12 DEF page, P

-----------------------------------------------------------------------------
(* The events at some positions *)

\* Distinct values of a function are as many as its arguments.
LEMMA ImageCount ==
  ASSUME NEW S, IsFiniteSet(S), NEW T, NEW f \in [S -> T],
         \A x, y \in S : f[x] = f[y] => x = y, \A y \in T : \E x \in S : f[x] = y
  PROVE  IsFiniteSet(T) /\ Cardinality(T) = Cardinality(S)
<1>2. f \in Surjection(S, T)
  BY DEF Surjection
<1>3. f \in Injection(S, T)
  BY DEF Injection, IsInjective
<1> QED
  BY <1>2, <1>3, FS_Surjection

LEMMA Distinct ==
  ASSUME RingInv, NEW i \in 0..(Size - 1), NEW j \in 0..(Size - 1), Slot(i) = Slot(j)
  PROVE  i = j
<1>1. Slot(i).n = count - i /\ Slot(j).n = count - j
  BY DEF RingInv, InOrder
<1>2. i \in Int /\ j \in Int /\ count \in Int
  BY Sizes DEF RingInv
<1>3. count - i = count - j
  BY <1>1
<1> QED
  BY <1>2, <1>3

\* The events at some positions are as many as the positions.
LEMMA PositionsCount ==
  ASSUME RingInv, NEW at \in SUBSET (0..(Size - 1)), NEW E, \A ev : ev \in E <=> \E i \in at : Slot(i) = ev
  PROVE  /\ IsFiniteSet(at) /\ Cardinality(at) \in Nat /\ Cardinality(at) <= Size
         /\ IsFiniteSet(E) /\ Cardinality(E) = Cardinality(at)
<1>1. Size \in Nat
  BY Sizes DEF RingInv
<1>2. IsFiniteSet(0..(Size - 1)) /\ Cardinality(0..(Size - 1)) = Size
  <2> DEFINE last == Size - 1
  <2>1. last \in Int /\ 0 \in Int /\ last - 0 + 1 = Size /\ (0 > last => Size = 0)
    BY <1>1
  <2> HIDE DEF last
  <2>2. IsFiniteSet(0..last) /\ Cardinality(0..last) = IF 0 > last THEN 0 ELSE last - 0 + 1
    BY <2>1, FS_Interval
  <2> QED
    BY <2>1, <2>2 DEF last
<1>3. IsFiniteSet(at) /\ Cardinality(at) <= Size
  BY <1>2, FS_Subset, ZenonT(60)
<1>4. Cardinality(at) \in Nat
  BY <1>3, FS_CardinalityType
<1> DEFINE f == [i \in at |-> Slot(i)]
<1>5. f \in [at -> E] /\ \A i \in at : f[i] = Slot(i)
  OBVIOUS
<1> HIDE DEF f
<1>6. \A i, j \in at : f[i] = f[j] => i = j
  <2> SUFFICES ASSUME NEW i \in at, NEW j \in at, f[i] = f[j] PROVE i = j
    OBVIOUS
  <2>1. i \in 0..(Size - 1) /\ j \in 0..(Size - 1) /\ Slot(i) = Slot(j)
    BY <1>5
  <2> QED
    BY <2>1, Distinct
<1>7. \A ev \in E : \E i \in at : f[i] = ev
  BY <1>5
<1>8. IsFiniteSet(E) /\ Cardinality(E) = Cardinality(at)
  BY <1>3, <1>5, <1>6, <1>7, ImageCount
<1> QED
  BY <1>3, <1>4, <1>8

\* The least of some positions.
LEMMA Least ==
  ASSUME RingInv, NEW at \in SUBSET (0..(Size - 1)), at # {}
  PROVE  \E i \in at : \A j \in at : i <= j
<1> DEFINE first == Nth(at, 1)
<1>1. at \in SUBSET Int
  BY Sizes DEF RingInv
<1>2. IsFiniteSet(at) /\ Cardinality(at) \in Nat
  <2>1. \A ev : ev \in {Slot(i) : i \in at} <=> \E i \in at : Slot(i) = ev
    OBVIOUS
  <2> QED
    BY <2>1, PositionsCount
<1>3. 1 \in 1..Cardinality(at)
  <2>1. Cardinality(at) # 0
    BY <1>2, FS_EmptySet
  <2> QED
    BY <1>2, <2>1
<1>4. first \in at /\ Rank(at, first) = 1 - 1
  BY <1>1, <1>2, <1>3, NthRank
<1> HIDE DEF first
<1>5. ASSUME NEW j \in at PROVE first <= j
  <2>1. ~(j < first)
    <3>1. j < first => Rank(at, j) < Rank(at, first) /\ Rank(at, j) \in 0..(Cardinality(at) - 1)
      BY <1>1, <1>2, <1>4, Ranks
    <3> QED
      BY <1>2, <1>4, <3>1
  <2> QED
    BY <1>1, <1>4, <2>1
<1> QED
  BY <1>4, <1>5

\* GetEvent finds the newest event with the id and nothing else, and nothing when
\* there is none.
LEMMA FoundById ==
  ASSUME RingInv, NEW id
  PROVE  \/ GetEvent(id) = {} /\ \A i \in 0..(Size - 1) : Slot(i).id # id
         \/ \E i \in 0..(Size - 1) :
               /\ Slot(i).id = id /\ \A j \in 0..(Size - 1) : Slot(j).id = id => i <= j
               /\ GetEvent(id) = {Slot(i)}
<1> DEFINE at == {i \in 0..(Size - 1) : Slot(i).id = id}
<1>1. CASE at = {}
  BY <1>1 DEF GetEvent
<1>2. CASE at # {}
  <2>1. at \in SUBSET (0..(Size - 1))
    OBVIOUS
  <2>2. \E i \in at : \A j \in at : i <= j
    <3> HIDE DEF at
    <3> QED
      BY <1>2, <2>1, Least
  <2>3. PICK i \in at : \A j \in at : i <= j
    BY <2>2
  <2>4. Size \in Nat
    BY Sizes DEF RingInv
  <2>5. \A k \in 0..(i - 1) : Slot(k).id # id
    BY <2>3, <2>4
  <2>6. \A j \in 0..(Size - 1) : Slot(j).id = id /\ (\A k \in 0..(j - 1) : Slot(k).id # id) => j = i
    <3> SUFFICES ASSUME NEW j \in 0..(Size - 1), Slot(j).id = id, \A k \in 0..(j - 1) : Slot(k).id # id
                 PROVE  j = i
      OBVIOUS
    <3>1. i \in 0..(Size - 1) /\ Slot(i).id = id /\ i <= j
      BY <2>3
    <3>2. i \notin 0..(j - 1)
      BY <3>1
    <3> QED
      BY <2>4, <3>1, <3>2
  <2>7. GetEvent(id) = {Slot(i)}
    BY <2>3, <2>5, <2>6 DEF GetEvent
  <2> QED
    BY <2>3, <2>7
<1> QED
  BY <1>1, <1>2

LEMMA FoundIsNewest ==
  ASSUME RingInv, NEW id \in Ids
  PROVE  \E answer \in {<<>>} \cup {<<ev>> : ev \in GetEvent(id)} :
            /\ Log!Newest(answer, {ev \in Event : ev.id = id}, 1)
            /\ {answer[k] : k \in DOMAIN answer} = GetEvent(id)
<1> DEFINE P == {ev \in Event : ev.id = id}
           W == [k \in 1..Size |-> Slot(k - 1)]
<1>1. Size \in Nat
  BY Sizes DEF RingInv
<1>2. \A i \in 0..(Size - 1) : Slot(i) \in Event
  BY DEF RingInv, InOrder
<1>3. DOMAIN W = 1..Size /\ \A p \in 1..Size : W[p] = Slot(p - 1) /\ p - 1 \in 0..(Size - 1)
  BY <1>1
<1> HIDE DEF W
<1>4. CASE GetEvent(id) = {} /\ \A i \in 0..(Size - 1) : Slot(i).id # id
  <2> DEFINE none == << >>
             at == [k \in {} |-> 1]
  <2>1. Len(none) = 0 /\ DOMAIN none = {} /\ {none[k] : k \in DOMAIN none} = {}
    OBVIOUS
  <2>2. at \in [DOMAIN none -> DOMAIN W]
    BY <2>1
  <2>3. \A p \in DOMAIN W : W[p] \notin P
    BY <1>3, <1>4
  <2> HIDE DEF P
  <2>4. /\ \A k \in DOMAIN none : none[k] = W[at[k]] /\ none[k] \in P
        /\ \A k, l \in DOMAIN none : k < l => at[k] < at[l]
        /\ \A p \in DOMAIN W : W[p] \in P =>
              \/ \E k \in DOMAIN none : at[k] = p
              \/ Len(none) = 1 /\ \A k \in DOMAIN none : at[k] < p
    BY <2>1, <2>3
  <2>5. Log!Newest(none, P, 1)
    <3> HIDE DEF at, none
    <3>1. Len(none) <= 1
      BY <2>1
    <3> QED
      BY <2>2, <2>4, <3>1 DEF Log!Newest, W
  <2> QED
    BY <1>4, <2>1, <2>5 DEF P
<1>5. ASSUME NEW i \in 0..(Size - 1), Slot(i).id = id,
             \A j \in 0..(Size - 1) : Slot(j).id = id => i <= j, GetEvent(id) = {Slot(i)}
      PROVE  \E answer \in {<<ev>> : ev \in GetEvent(id)} :
                /\ Log!Newest(answer, P, 1)
                /\ {answer[k] : k \in DOMAIN answer} = GetEvent(id)
  <2> DEFINE one == <<Slot(i)>>
             at == [k \in {1} |-> i + 1]
  <2>1. Len(one) = 1 /\ DOMAIN one = {1} /\ one[1] = Slot(i)
    OBVIOUS
  <2>2. at \in [{1} -> DOMAIN W] /\ at[1] = i + 1
    BY <1>1, <1>3
  <2>3. Slot(i) \in P /\ W[i + 1] = Slot(i)
    BY <1>1, <1>2, <1>3, <1>5
  <2>4. \A p \in DOMAIN W : W[p] \in P => p = i + 1 \/ i + 1 < p
    <3> SUFFICES ASSUME NEW p \in DOMAIN W, W[p] \in P PROVE p = i + 1 \/ i + 1 < p
      OBVIOUS
    <3>1. p \in 1..Size /\ p - 1 \in 0..(Size - 1) /\ Slot(p - 1).id = id
      BY <1>3
    <3>2. i <= p - 1
      BY <1>5, <3>1
    <3> QED
      BY <1>1, <3>1, <3>2
  <2> HIDE DEF at, one, P
  <2>5. /\ \A k \in DOMAIN one : one[k] = W[at[k]] /\ one[k] \in P
        /\ \A k, l \in DOMAIN one : k < l => at[k] < at[l]
        /\ \A p \in DOMAIN W : W[p] \in P =>
              \/ \E k \in DOMAIN one : at[k] = p
              \/ Len(one) = 1 /\ \A k \in DOMAIN one : at[k] < p
    <3>1. \A k \in DOMAIN one : k = 1
      BY <2>1
    <3> QED
      BY <2>1, <2>2, <2>3, <2>4, <3>1
  <2>6. Log!Newest(one, P, 1)
    <3>1. Len(one) <= 1 /\ at \in [DOMAIN one -> DOMAIN W]
      BY <2>1, <2>2
    <3> QED
      BY <2>5, <3>1 DEF Log!Newest, W
  <2>7. {one[k] : k \in DOMAIN one} = GetEvent(id)
    BY <1>5, <2>1
  <2>8. one \in {<<ev>> : ev \in GetEvent(id)}
    BY <1>5 DEF one
  <2> QED
    BY <2>6, <2>7, <2>8
<1> HIDE DEF P
<1>6. CASE \E i \in 0..(Size - 1) :
               /\ Slot(i).id = id /\ \A j \in 0..(Size - 1) : Slot(j).id = id => i <= j
               /\ GetEvent(id) = {Slot(i)}
  <2>1. PICK i \in 0..(Size - 1) :
               /\ Slot(i).id = id /\ \A j \in 0..(Size - 1) : Slot(j).id = id => i <= j
               /\ GetEvent(id) = {Slot(i)}
    BY <1>6
  <2> QED
    BY <1>5, <2>1 DEF P
<1> QED
  BY <1>4, <1>6, FoundById

\* The readers answer with the newest matching events the log remembers, and GetEvent
\* with the newest that has the id, for every capacity, page size and filter and
\* whatever ids events come with.
THEOREM ReadsAgreeCorrect == Spec => []ReadsAgree
<1>1. RingInv => ReadsAgree
  <2> SUFFICES ASSUME RingInv PROVE ReadsAgree
    OBVIOUS
  <2>1. \A q \in Queries, n \in 1..MaxPage :
          Log!Newest(RecentEvents(q, n), {ev \in Event : ev.kind \in q}, n)
    BY ReadsAreNewest
  <2> QED
    BY <2>1, FoundIsNewest DEF ReadsAgree
<1> QED
  BY <1>1, RingCorrect, PTL

-----------------------------------------------------------------------------
(* The client that walks the pages *)

\* What the client has been given since it last lost its place: newest first, and all
\* that match between the first and the last of them.
Falling == \A i, j \in DOMAIN got : i < j => got[i] > got[j]
Complete ==
    \A k \in 0..(Size - 1) :
        got # <<>> /\ Slot(k).kind \in query /\ Slot(k).n <= got[1] /\ Slot(k).n >= got[Len(got)]
            => \E i \in DOMAIN got : got[i] = Slot(k).n

\* While it reads on, its cursor is the id of the last event it was given, if that is
\* still stored, and it has none only when it was given nothing.
ClientTypeOK ==
    /\ got \in Seq(Nat) /\ limit \in Int /\ cursor \in Nat
    /\ \A i \in DOMAIN got : got[i] \in 1..count
CursorIsLast ==
    /\ cursor # 0 => got # <<>> /\ \A k \in 0..(Size - 1) : Slot(k).n = got[Len(got)] => Slot(k).id = cursor
    /\ reading /\ cursor = 0 => got = <<>>

PagesInv == ClientTypeOK /\ CursorIsLast /\ Falling /\ Complete

LEMMA PageLimitIs ==
  ASSUME NEW n \in Int
  PROVE  PageLimit(n) \in Nat /\ PageLimit(n) >= 1
BY PageAssumption DEF PageLimit

\* A page begins somewhere in the ring or behind it, and after the newest event with the
\* id of the cursor when there is one.
LEMMA StartIs ==
  ASSUME RingInv, NEW c
  PROVE  /\ StartIdx(c) \in Nat
         /\ c # 0 => \A ev \in GetEvent(c) : ev.n \in 1..count /\ StartIdx(c) = 1 + (count - ev.n)
<1> DEFINE at == {i \in 0..(Size - 1) : c # 0 /\ Slot(i).id = c}
           newest == CHOOSE i \in at : \A j \in at : i <= j
<1>1. Size \in Nat /\ count \in Nat /\ Size <= count
  BY Sizes DEF RingInv
<1>2. StartIdx(c) = IF at = {} THEN 0 ELSE 1 + newest
  BY DEF StartIdx
<1>3. \A i \in at : i \in 0..(Size - 1) /\ i \in Nat /\ c # 0 /\ Slot(i).id = c
  BY <1>1
<1>4. at \in SUBSET (0..(Size - 1)) /\ \A i \in 0..(Size - 1) : c # 0 /\ Slot(i).id = c => i \in at
  OBVIOUS
<1>5. ASSUME at # {} PROVE newest \in at /\ \A j \in at : newest <= j
  <2> HIDE DEF at
  <2>1. \E i \in at : \A j \in at : i <= j
    BY <1>4, <1>5, Least
  <2> QED
    BY <2>1
<1> HIDE DEF at, newest
<1>6. StartIdx(c) \in Nat
  BY <1>2, <1>3, <1>5
<1>7. ASSUME c # 0, NEW ev \in GetEvent(c) PROVE ev.n \in 1..count /\ StartIdx(c) = 1 + (count - ev.n)
  <2>1. PICK i \in 0..(Size - 1) :
               /\ Slot(i).id = c /\ \A j \in 0..(Size - 1) : Slot(j).id = c => i <= j
               /\ GetEvent(c) = {Slot(i)}
    BY <1>7, FoundById
  <2>2. i \in at
    BY <1>4, <1>7, <2>1
  <2>3. newest \in at /\ newest <= i /\ i <= newest
    BY <1>3, <1>5, <2>1, <2>2
  <2>4. newest = i
    BY <1>3, <2>2, <2>3
  <2>5. ev = Slot(i) /\ Slot(i).n = count - i
    BY <1>7, <2>1 DEF RingInv, InOrder
  <2> QED
    BY <1>1, <1>2, <2>2, <2>4, <2>5
<1> QED
  BY <1>6, <1>7

\* Every event of a page is stored and arrived start or more before the last.
Dated(page, start) ==
    \A k \in 1..Len(page) :
        /\ page[k].n \in 1..count /\ page[k].n <= count - start
        /\ \E i \in 0..(Size - 1) : page[k] = Slot(i)

\* A page has the event of a slot, or ends before it.
Has(page, i) == \E k \in 1..Len(page) : page[k].n = Slot(i).n
EndsBefore(page, i) == \A k \in 1..Len(page) : page[k].n > Slot(i).n

\* The events of a page: falling from one that arrived no later than start before
\* the last, and none that matches left out but behind them.
LEMMA PageGives ==
  ASSUME RingInv, NEW start \in Nat, NEW q, NEW n \in Nat,
         NEW page, page = Scan(start, q, n)
  PROVE  /\ Len(page) \in Nat /\ Len(page) <= n
         /\ Dated(page, start)
         /\ \A k, l \in 1..Len(page) : k < l => page[k].n > page[l].n
         /\ \A i \in 0..(Size - 1) : start <= i /\ Slot(i).kind \in q =>
              Has(page, i) \/ EndsBefore(page, i)
<1> DEFINE nth(k) == Nth(Matching(start, q), k)
<1>1. Size \in Nat /\ count \in Nat /\ Size <= count
  BY Sizes DEF RingInv
<1>2. /\ Len(page) \in Nat /\ Len(page) <= n
      /\ At(page, Matching(start, q)) /\ Rising(page, Matching(start, q)) /\ Whole(page, Matching(start, q), n)
  BY <1>1, ScanGives
<1>3. Len(page) \in Nat /\ Len(page) <= n
  BY <1>2
<1>a. \A k \in 1..Len(page) : nth(k) \in Matching(start, q) /\ page[k] = Slot(nth(k))
  BY <1>2 DEF At
<1>b. \A k, l \in 1..Len(page) : k < l => nth(k) < nth(l)
  BY <1>2 DEF Rising
<1>c. \A i \in Matching(start, q) :
         (\E k \in 1..Len(page) : nth(k) = i) \/ (\A k \in 1..Len(page) : nth(k) < i)
  BY <1>2 DEF Whole
<1> HIDE DEF nth
<1>4. \A i \in 0..(Size - 1) : Slot(i).n = count - i
  BY DEF RingInv, InOrder
<1>5. ASSUME NEW k \in 1..Len(page)
      PROVE  /\ nth(k) \in 0..(Size - 1) /\ start <= nth(k)
             /\ page[k].n = count - nth(k) /\ page[k] = Slot(nth(k))
  <2>1. nth(k) \in Matching(start, q) /\ page[k] = Slot(nth(k))
    BY <1>a
  <2>2. nth(k) \in 0..(Size - 1) /\ start <= nth(k)
    BY <1>1, <2>1 DEF Matching
  <2> QED
    BY <1>4, <2>1, <2>2
<1>6. ASSUME NEW k \in 1..Len(page)
      PROVE  /\ page[k].n \in 1..count /\ page[k].n <= count - start
             /\ \E i \in 0..(Size - 1) : page[k] = Slot(i)
  BY <1>1, <1>5
<1>7. ASSUME NEW k \in 1..Len(page), NEW l \in 1..Len(page), k < l
      PROVE  page[k].n > page[l].n
  <2>1. nth(k) < nth(l)
    BY <1>b, <1>7
  <2>2. nth(k) \in Int /\ nth(l) \in Int /\ page[k].n = count - nth(k) /\ page[l].n = count - nth(l)
    BY <1>5
  <2> QED
    BY <1>1, <2>1, <2>2
<1>8. ASSUME NEW i \in 0..(Size - 1), start <= i, Slot(i).kind \in q
      PROVE  \/ \E k \in 1..Len(page) : page[k].n = Slot(i).n
             \/ \A k \in 1..Len(page) : page[k].n > Slot(i).n
  <2>1. i \in Int /\ i < Size /\ Slot(i).n = count - i
    BY <1>1, <1>4
  <2>2. i \in Matching(start, q)
    BY <1>8, <2>1, MatchingIs
  <2>3. (\E k \in 1..Len(page) : nth(k) = i) \/ (\A k \in 1..Len(page) : nth(k) < i)
    BY <1>c, <2>2
  <2>4. CASE \E k \in 1..Len(page) : nth(k) = i
    BY <1>5, <2>1, <2>4
  <2>5. CASE \A k \in 1..Len(page) : nth(k) < i
    <3>1. ASSUME NEW k \in 1..Len(page) PROVE page[k].n > Slot(i).n
      <4>1. nth(k) < i /\ nth(k) \in Int /\ page[k].n = count - nth(k)
        BY <1>5, <2>5
      <4> QED
        BY <1>1, <2>1, <4>1
    <3> QED
      BY <3>1
  <2> QED
    BY <2>3, <2>4, <2>5
<1>9. \A i \in 0..(Size - 1) : start <= i /\ Slot(i).kind \in q => Has(page, i) \/ EndsBefore(page, i)
  BY <1>8 DEF Has, EndsBefore
<1>10. Dated(page, start)
  BY <1>6 DEF Dated
<1> QED
  BY <1>3, <1>7, <1>9, <1>10

\* A page joined to what the client was given before.
LEMMA Joined ==
  ASSUME NEW given \in Seq(Nat), NEW m \in Nat, NEW val, \A i \in 1..m : val[i] \in Nat,
         NEW all, all = given \o [i \in 1..m |-> val[i]]
  PROVE  /\ all \in Seq(Nat) /\ Len(given) \in Nat /\ Len(all) = Len(given) + m
         /\ DOMAIN all = 1..(Len(given) + m) /\ DOMAIN given = 1..Len(given)
         /\ \A i \in 1..Len(given) : all[i] = given[i]
         /\ \A i \in 1..m : all[Len(given) + i] = val[i]
<1> DEFINE new == [i \in 1..m |-> val[i]]
<1>1. new \in Seq(Nat) /\ Len(new) = m /\ \A i \in 1..m : new[i] = val[i]
  OBVIOUS
<1>2. all = given \o new
  OBVIOUS
<1> HIDE DEF new
<1>3. all \in Seq(Nat) /\ Len(given) \in Nat /\ Len(all) = Len(given) + m
  BY <1>1, <1>2
<1>4. DOMAIN all = 1..(Len(given) + m) /\ DOMAIN given = 1..Len(given)
  BY <1>3
<1>5. \A i \in 1..Len(given) : all[i] = given[i]
  BY <1>1, <1>2
<1>6. \A i \in 1..m : all[Len(given) + i] = val[i]
  BY <1>1, <1>2, <1>3
<1> QED
  BY <1>3, <1>4, <1>5, <1>6

LEMMA FetchKeepsWalk ==
  ASSUME RingInv, PagesInv, FetchPage
  PROVE  PagesInv'
<1> DEFINE start == StartIdx(cursor)
           n == PageLimit(limit)
           page == EventsPage(query, cursor, limit)
           next == NextCursor(page, limit)
           ns == [i \in 1..Len(page) |-> page[i].n]
           base == IF CursorLost THEN <<>> ELSE got
           L == Len(base)
           m == Len(page)
<1>1. /\ got \in Seq(Nat) /\ limit \in Int /\ cursor \in Nat /\ count \in Nat
      /\ \A i \in DOMAIN got : got[i] \in 1..count /\ got[i] \in Nat
  BY Sizes DEF PagesInv, ClientTypeOK, RingInv
<1>2. n \in Nat /\ n >= 1
  BY <1>1, PageLimitIs
<1>3. /\ base \in Seq(Nat)
      /\ base # <<>> => base = got /\ cursor # 0 /\ start = 1 + (count - base[Len(base)])
  <2>1. CASE CursorLost
    <3>1. base = <<>>
      BY <2>1
    <3> HIDE DEF base
    <3> QED
      BY <3>1
  <2>2. CASE ~CursorLost
    <3>1. base = got
      BY <2>2
    <3> HIDE DEF base, start
    <3>2. ASSUME got # <<>> PROVE cursor # 0 /\ start = 1 + (count - got[Len(got)])
      <4>1. cursor # 0
        BY <3>2 DEF PagesInv, CursorIsLast, FetchPage
      <4>2. PICK ev \in GetEvent(cursor) : ev.n = got[Len(got)]
        BY <2>2, <4>1 DEF CursorLost
      <4> QED
        BY <4>1, <4>2, StartIs DEF start
    <3> QED
      BY <1>1, <3>1, <3>2
  <2> QED
    BY <2>1, <2>2
<1>4. start \in Nat
  BY StartIs
<1>5. page = Scan(start, query, n)
  BY DEF EventsPage
<1>6. /\ got' = base \o ns /\ cursor' = next /\ reading' = (next # 0)
      /\ reading
      /\ count' = count /\ query' = query /\ limit' = limit
  BY DEF FetchPage, ringVars
<1>7. next = IF m = n THEN page[m].id ELSE 0
  BY DEF NextCursor
<1>8. Size' = Size /\ \A i \in 0..(Size - 1) : Slot(i)' = Slot(i)
  BY DEF FetchPage, ringVars, Size, Slot
<1> HIDE DEF start, n, next, page, base
<1>9. /\ m \in Nat /\ m <= n
      /\ \A k \in 1..m : /\ page[k].n \in 1..count /\ page[k].n <= count - start
                         /\ \E i \in 0..(Size - 1) : page[k] = Slot(i)
      /\ \A k, l \in 1..m : k < l => page[k].n > page[l].n
      /\ \A i \in 0..(Size - 1) : start <= i /\ Slot(i).kind \in query =>
           \/ \E k \in 1..m : page[k].n = Slot(i).n
           \/ \A k \in 1..m : page[k].n > Slot(i).n
  <2> HIDE DEF m
  <2>1. PICK st : st = start
    OBVIOUS
  <2>2. PICK pg : pg = page
    OBVIOUS
  <2>3. PICK q : q = query
    OBVIOUS
  <2>4. PICK k : k = n
    OBVIOUS
  <2>5. st \in Nat /\ k \in Nat /\ pg = Scan(st, q, k)
    BY <1>2, <1>4, <1>5, <2>1, <2>2, <2>3, <2>4
  <2> HIDE DEF ns, L
  <2>a. Len(pg) \in Nat /\ Len(pg) <= k
    BY <2>5, PageGives
  <2>b. Dated(pg, st)
    BY <2>5, PageGives
  <2>c. \A i, l \in 1..Len(pg) : i < l => pg[i].n > pg[l].n
    BY <2>5, PageGives
  <2>d. \A i \in 0..(Size - 1) : st <= i /\ Slot(i).kind \in q =>
             Has(pg, i) \/ EndsBefore(pg, i)
    BY <2>5, PageGives
  <2>7. m = Len(pg)
    BY <2>2 DEF m
  <2>f. \A l \in 1..Len(pg) : /\ pg[l].n \in 1..count /\ pg[l].n <= count - st
                              /\ \E i \in 0..(Size - 1) : pg[l] = Slot(i)
    BY <2>b DEF Dated
  <2>e. \A i \in 0..(Size - 1) : st <= i /\ Slot(i).kind \in q =>
             \/ \E l \in 1..Len(pg) : pg[l].n = Slot(i).n
             \/ \A l \in 1..Len(pg) : pg[l].n > Slot(i).n
    BY <2>d DEF Has, EndsBefore
  <2> QED
    BY <2>1, <2>2, <2>3, <2>4, <2>a, <2>c, <2>e, <2>f, <2>7
<1>a. m \in Nat /\ m <= n
  BY <1>9
<1>b. \A k \in 1..m : page[k].n \in Nat /\ page[k].n >= 1 /\ page[k].n <= count
                      /\ page[k].n <= count - start
  BY <1>1, <1>9
<1>c. \A k, l \in 1..m : k < l => page[k].n > page[l].n
  BY <1>9
<1>d. \A i \in 0..(Size - 1) : start <= i /\ Slot(i).kind \in query =>
           \/ \E k \in 1..m : page[k].n = Slot(i).n
           \/ \A k \in 1..m : page[k].n > Slot(i).n
  BY <1>9
<1>e. \A i \in 0..(Size - 1) : Slot(i).n = count - i /\ Slot(i).id \in Nat /\ Slot(i).id # 0
  BY IdsAssumption DEF RingInv, InOrder, Event
<1>f. Size \in Nat
  BY Sizes DEF RingInv
<1>10. PICK all : all = got'
  OBVIOUS
<1>11. /\ all \in Seq(Nat) /\ L \in Nat /\ Len(all) = L + m
       /\ DOMAIN all = 1..(L + m) /\ DOMAIN base = 1..L
       /\ \A i \in 1..L : all[i] = base[i]
       /\ \A i \in 1..m : all[L + i] = ns[i]
  <2>1. \A i \in 1..m : ns[i] \in Nat
    BY <1>b
  <2>2. ns = [i \in 1..m |-> ns[i]]
    OBVIOUS
  <2> HIDE DEF ns
  <2>3. all = base \o [i \in 1..m |-> ns[i]]
    BY <1>6, <1>10, <2>2
  <2> HIDE DEF m
  <2> QED
    BY <1>3, <1>a, <2>1, <2>3, Joined DEF L
<1>12. \A i \in 1..m : all[L + i] = page[i].n
  BY <1>11
<1> HIDE DEF ns
<1>13. \A i \in 1..(L + m) : (i \in 1..L) \/ (i - L \in 1..m /\ all[i] = page[i - L].n)
  <2> HIDE DEF L, m
  <2> SUFFICES ASSUME NEW i \in 1..(L + m), i \notin 1..L
               PROVE  i - L \in 1..m /\ all[i] = page[i - L].n
    OBVIOUS
  <2>1. i - L \in 1..m /\ L + (i - L) = i
    BY <1>11, <1>a
  <2> QED
    BY <1>12, <2>1
<1>14. ASSUME L >= 1
       PROVE  /\ base = got /\ got # <<>> /\ L = Len(got) /\ start = 1 + (count - base[L])
              /\ \A i \in 1..L : base[i] \in 1..count /\ base[i] \in Nat
              /\ \A i, k \in 1..L : i < k => base[i] > base[k]
  <2>1. base # <<>>
    BY <1>3, <1>14
  <2>2. base = got /\ start = 1 + (count - base[L])
    BY <1>3, <2>1
  <2>3. DOMAIN got = 1..L /\ L = Len(got)
    BY <1>11, <2>2
  <2>4. /\ \A i \in 1..L : got[i] \in 1..count /\ got[i] \in Nat
        /\ \A i, k \in 1..L : i < k => got[i] > got[k]
    <3>1. \A i, k \in DOMAIN got : i < k => got[i] > got[k]
      BY DEF PagesInv, Falling
    <3>2. \A i \in DOMAIN got : got[i] \in 1..count /\ got[i] \in Nat
      BY <1>1
    <3> HIDE DEF L
    <3> QED
      BY <2>3, <3>1, <3>2
  <2> QED
    BY <2>1, <2>2, <2>3, <2>4
<1> HIDE DEF L, m
<1>15. ClientTypeOK'
  <2>1. \A i \in DOMAIN all : all[i] \in 1..count
    <3> SUFFICES ASSUME NEW i \in DOMAIN all PROVE all[i] \in 1..count
      OBVIOUS
    <3>1. CASE i \in 1..L
      <4>1. L >= 1
        BY <1>11, <3>1
      <4> QED
        BY <1>11, <1>14, <3>1, <4>1
    <3>2. CASE i - L \in 1..m /\ all[i] = page[i - L].n
      BY <1>1, <1>b, <3>2
    <3> QED
      BY <1>11, <1>13, <3>1, <3>2
  <2>2. next \in Nat
    <3>1. CASE m = n
      <4>1. m \in 1..m
        BY <1>2, <1>a, <3>1
      <4>2. page[m].id \in Nat
        BY <1>9, <1>e, <4>1
      <4> QED
        BY <1>7, <3>1, <4>2
    <3>2. CASE m # n
      BY <1>7, <3>2
    <3> QED
      BY <3>1, <3>2
  <2> QED
    BY <1>1, <1>6, <1>10, <1>11, <2>1, <2>2 DEF ClientTypeOK
<1>16. CursorIsLast'
  <2>1. ASSUME next # 0
        PROVE  all # <<>> /\ \A k \in 0..(Size - 1) : Slot(k).n = all[Len(all)] => Slot(k).id = next
    <3>1. m = n /\ next = page[m].id
      BY <1>7, <2>1
    <3>2. m \in 1..m
      BY <1>2, <1>a, <3>1
    <3>3. all[L + m] = page[m].n
      BY <1>12, <3>2
    <3>4. Len(all) >= 1
      BY <1>2, <1>11, <1>a, <3>1
    <3>5. all # <<>>
      BY <1>11, <3>4
    <3>6. PICK i \in 0..(Size - 1) : page[m] = Slot(i)
      BY <1>9, <3>2
    <3>7. ASSUME NEW k \in 0..(Size - 1), Slot(k).n = all[Len(all)] PROVE Slot(k).id = next
      <4>1. Slot(k).n = Slot(i).n
        BY <1>11, <3>3, <3>6, <3>7
      <4>2. count - k = count - i /\ k \in Int /\ i \in Int
        BY <1>e, <1>f, <4>1
      <4>3. k = i
        BY <1>1, <4>2
      <4> QED
        BY <3>1, <3>6, <4>3
    <3> QED
      BY <3>5, <3>7
  <2>2. (all # <<>> /\ \A k \in 0..(Size - 1) : Slot(k).n = all[Len(all)] => Slot(k).id = next)
          => (got' # <<>> /\ \A k \in 0..(Size' - 1) : Slot(k)'.n = got'[Len(got')] => Slot(k)'.id = next)
    BY <1>8, <1>10
  <2> QED
    BY <1>6, <2>1, <2>2 DEF CursorIsLast
<1>17. Falling' /\ Complete'
  <2>5. ASSUME NEW i \in 1..L, NEW k \in 1..m PROVE base[i] > page[k].n
    <3>1. L >= 1 /\ L \in 1..L /\ i \in Int /\ (i < L \/ i = L)
      BY <1>11
    <3>2. /\ start = 1 + (count - base[L]) /\ base[i] \in Nat /\ base[L] \in Nat
          /\ i < L => base[i] > base[L]
      BY <1>14, <3>1
    <3>3. page[k].n \in Nat /\ page[k].n <= count - start
      BY <1>b
    <3> QED
      BY <1>1, <3>1, <3>2, <3>3
  <2>6. ASSUME NEW i \in DOMAIN all, NEW j \in DOMAIN all, i < j PROVE all[i] > all[j]
    <3>1. i \in 1..(L + m) /\ j \in 1..(L + m) /\ i \in Int /\ j \in Int
      BY <1>11
    <3>2. CASE i \in 1..L /\ j \in 1..L
      <4>1. base[i] > base[j]
        BY <1>11, <1>14, <2>6, <3>2
      <4> QED
        BY <1>11, <3>2, <4>1
    <3>3. CASE i \in 1..L /\ j \notin 1..L
      BY <1>11, <1>13, <2>5, <3>1, <3>3
    <3>4. CASE i \notin 1..L /\ j \notin 1..L
      <4>1. /\ i - L \in 1..m /\ all[i] = page[i - L].n
            /\ j - L \in 1..m /\ all[j] = page[j - L].n
        BY <1>13, <3>1, <3>4
      <4>2. i - L < j - L
        BY <1>11, <2>6, <3>1
      <4> QED
        BY <1>c, <4>1, <4>2
    <3>5. i \notin 1..L => j \notin 1..L
      BY <1>11, <2>6, <3>1
    <3> QED
      BY <3>2, <3>3, <3>4, <3>5
  <2>7. ASSUME NEW k \in 0..(Size - 1), all # <<>>, Slot(k).kind \in query,
               Slot(k).n <= all[1], Slot(k).n >= all[Len(all)]
        PROVE  \E i \in DOMAIN all : all[i] = Slot(k).n
    <3>1. Slot(k).n = count - k /\ k \in Int
      BY <1>e, <1>f
    <3>2. L + m >= 1
      <4>1. Len(all) # 0
        BY <1>11, <2>7
      <4> QED
        BY <1>11, <1>a, <4>1
    <3>3. CASE L >= 1 /\ Slot(k).n >= base[L]
      <4>1. 1 \in 1..L /\ all[1] = got[1] /\ L = Len(got) /\ got # <<>> /\ base = got
        BY <1>11, <1>14, <3>3
      <4>2. \E i \in DOMAIN got : got[i] = Slot(k).n
        BY <2>7, <3>3, <4>1 DEF PagesInv, Complete
      <4>3. PICK i \in 1..L : base[i] = Slot(k).n
        BY <1>11, <4>1, <4>2
      <4>4. i \in DOMAIN all /\ all[i] = base[i]
        BY <1>11, <1>a
      <4> QED
        BY <4>3, <4>4
    <3>4. CASE ~ (L >= 1 /\ Slot(k).n >= base[L])
      <4>2. m >= 1
        <5>1. CASE m = 0
          <6>1. L >= 1 /\ L \in 1..L /\ Len(all) = L
            BY <1>11, <3>2, <5>1
          <6>2. all[Len(all)] = base[L]
            BY <1>11, <6>1
          <6> QED
            BY <2>7, <3>4, <6>1, <6>2
        <5> QED
          BY <1>a, <5>1
      <4>3. m \in 1..m /\ all[Len(all)] = page[m].n
        BY <1>11, <1>12, <1>a, <4>2
      <4>1. start <= k
        <5>1. CASE L >= 1
          <6>1. start = 1 + (count - base[L]) /\ base[L] \in Nat
            BY <1>11, <1>14, <5>1
          <6>2. ~ (count - k >= base[L])
            BY <3>1, <3>4, <5>1
          <6> QED
            BY <1>1, <3>1, <6>1, <6>2
        <5>2. CASE ~ (L >= 1)
          <6>1. L = 0 /\ 1 \in 1..m
            BY <1>11, <1>a, <4>2, <5>2
          <6>2. all[1] = page[1].n /\ page[1].n <= count - start /\ page[1].n \in Nat
            BY <1>12, <1>b, <6>1
          <6>3. Slot(k).n <= page[1].n
            BY <2>7, <6>2
          <6> QED
            BY <1>1, <1>4, <3>1, <6>2, <6>3
        <5> QED
          BY <5>1, <5>2
      <4>4. ~ (\A l \in 1..m : page[l].n > Slot(k).n)
        <5>1. page[m].n \in Nat
          BY <1>b, <4>3
        <5>2. ~ (page[m].n > Slot(k).n)
          BY <1>1, <2>7, <3>1, <4>3, <5>1
        <5> QED
          BY <4>3, <5>2
      <4>5. PICK l \in 1..m : page[l].n = Slot(k).n
        BY <1>d, <2>7, <4>1, <4>4
      <4>6. L + l \in DOMAIN all
        BY <1>11, <1>a
      <4>7. all[L + l] = Slot(k).n
        BY <1>12, <4>5
      <4> QED
        BY <4>6, <4>7
    <3> QED
      BY <3>3, <3>4
  <2>8. Falling'
    BY <1>10, <2>6 DEF Falling
  <2>9. Complete'
    <3> SUFFICES ASSUME NEW k \in 0..(Size' - 1),
                        got' # <<>> /\ Slot(k)'.kind \in query' /\ Slot(k)'.n <= got'[1]
                            /\ Slot(k)'.n >= got'[Len(got')]
                 PROVE  \E i \in DOMAIN got' : got'[i] = Slot(k)'.n
      BY DEF Complete
    <3>1. k \in 0..(Size - 1) /\ Slot(k)' = Slot(k) /\ query' = query
      BY <1>6, <1>8
    <3> QED
      BY <1>10, <2>7, <3>1
  <2> QED
    BY <2>8, <2>9
<1> QED
  BY <1>15, <1>16, <1>17 DEF PagesInv

LEMMA AddKeepsWalk ==
  ASSUME RingInv, PagesInv, NEW kind \in Kinds, NEW id \in Ids, AddEvent(kind, id)
  PROVE  PagesInv'
<1>1. /\ Slot(0)' = Arriving(kind, id)
      /\ \A i \in 1..(MaxEvents - 1) : Slot(i)' = Slot(i - 1)
  BY SlotsShift DEF RingInv
<1>2. /\ count \in Nat /\ count' = count + 1 /\ MaxEvents \in Nat \ {0}
      /\ Size' \in Nat /\ Size' <= MaxEvents /\ Size' <= Size + 1 /\ Size \in Nat
  BY MaxEventsAssumption, MaxAddsAssumption DEF RingInv, RingTypeOK, AddEvent, Size, Min2
<1>3. got' = got /\ query' = query /\ limit' = limit /\ cursor' = cursor
      /\ reading' = reading
  BY DEF AddEvent, clientVars
<1>4. got \in Seq(Nat) /\ limit \in Int /\ cursor \in Nat /\ \A i \in DOMAIN got : got[i] \in 1..count
  BY DEF PagesInv, ClientTypeOK
<1>5. \A i \in DOMAIN got : got[i] \in Nat /\ got[i] <= count /\ got[i] \in 1..(count + 1)
  BY <1>2, <1>4
<1>6. ClientTypeOK'
  BY <1>2, <1>3, <1>4, <1>5 DEF ClientTypeOK
<1>10. ASSUME NEW k \in 0..(Size' - 1)
       PROVE  \/ Slot(k)'.n = count + 1
              \/ k - 1 \in 0..(Size - 1) /\ Slot(k)' = Slot(k - 1)
  <2>1. CASE k = 0
    BY <1>1, <2>1 DEF Arriving
  <2>2. CASE k # 0
    <3>1. k \in 1..(MaxEvents - 1) /\ k - 1 \in 0..(Size - 1)
      <4> DEFINE s == Size'
      <4>1. s \in Nat /\ k \in 0..(s - 1)
        BY <1>2
      <4>2. s <= MaxEvents /\ s <= Size + 1
        BY <1>2
      <4> HIDE DEF s
      <4> QED
        BY <1>2, <2>2, <4>1, <4>2
    <3> QED
      BY <1>1, <3>1
  <2> QED
    BY <2>1, <2>2
<1>7. CursorIsLast'
  <2>1. ASSUME cursor # 0, NEW k \in 0..(Size' - 1), Slot(k)'.n = got[Len(got)]
        PROVE  Slot(k)'.id = cursor
    <3>1. got # <<>>
      BY <2>1 DEF PagesInv, CursorIsLast
    <3>2. Len(got) \in DOMAIN got
      BY <1>4, <3>1
    <3>3. Slot(k)'.n # count + 1
      BY <1>2, <1>5, <2>1, <3>2
    <3>4. k - 1 \in 0..(Size - 1) /\ Slot(k)' = Slot(k - 1)
      BY <1>10, <3>3
    <3> QED
      BY <2>1, <3>4 DEF PagesInv, CursorIsLast
  <2> QED
    BY <1>3, <2>1 DEF PagesInv, CursorIsLast
<1>8. Falling => Falling'
  BY <1>3 DEF Falling
<1>9. ASSUME Complete PROVE Complete'
  <2> SUFFICES ASSUME NEW k \in 0..(Size' - 1),
                      got' # <<>> /\ Slot(k)'.kind \in query' /\ Slot(k)'.n <= got'[1]
                          /\ Slot(k)'.n >= got'[Len(got')]
               PROVE  \E i \in DOMAIN got' : got'[i] = Slot(k)'.n
    BY DEF Complete
  <2>1. CASE Slot(k)'.n = count + 1
    <3>1. 1 \in DOMAIN got
      BY <1>3, <1>4
    <3> QED
      BY <1>2, <1>3, <1>5, <2>1, <3>1
  <2>2. CASE k - 1 \in 0..(Size - 1) /\ Slot(k)' = Slot(k - 1)
    BY <1>3, <1>9, <2>2 DEF Complete
  <2> QED
    BY <1>10, <2>1, <2>2
<1> QED
  BY <1>6, <1>7, <1>8, <1>9 DEF PagesInv

LEMMA PagesInvCorrect == Spec => []PagesInv
<1>1. Init => PagesInv
  BY MaxEventsAssumption, MaxAddsAssumption, PageAssumption
     DEF Init, PagesInv, ClientTypeOK, CursorIsLast, Falling, Complete
<1>2. RingInv /\ PagesInv /\ [Next]_vars => PagesInv'
  <2> SUFFICES ASSUME RingInv, PagesInv, [Next]_vars PROVE PagesInv'
    OBVIOUS
  <2>1. ASSUME NEW kind \in Kinds, NEW id \in Ids, AddEvent(kind, id) PROVE PagesInv'
    BY <2>1, AddKeepsWalk
  <2>2. CASE FetchPage
    BY <2>2, FetchKeepsWalk
  <2>3. CASE UNCHANGED vars
    BY <2>3 DEF vars, ringVars, clientVars, PagesInv, ClientTypeOK, CursorIsLast,
                Falling, Complete, Size, Slot
  <2> QED
    BY <2>1, <2>2, <2>3 DEF Next
<1> QED
  BY <1>1, <1>2, RingCorrect, PTL DEF Spec

\* Since it last lost its place, a client that walks the pages has been given the events
\* newest first, none twice and none missed, and it loses its place only when the event
\* of its cursor was overwritten or a newer one has the same id: for every capacity,
\* page size and filter, whatever ids the events come with and however many arrive
\* between its pages.
THEOREM PagesExactCorrect == Spec => []PagesExact
<1>1. ASSUME RingInv, PagesInv, CursorLost
      PROVE  \/ got[Len(got)] <= count - MaxEvents
             \/ \E k \in 0..(Size - 1) : Slot(k).id = cursor /\ Slot(k).n > got[Len(got)]
  <2> DEFINE g == got[Len(got)]
  <2>1. cursor # 0 /\ \A ev \in GetEvent(cursor) : ev.n # g
    BY <1>1 DEF CursorLost
  <2>2. /\ got \in Seq(Nat) /\ got # <<>>
        /\ \A i \in DOMAIN got : got[i] \in 1..count
        /\ \A k \in 0..(Size - 1) : Slot(k).n = g => Slot(k).id = cursor
    BY <1>1, <2>1 DEF PagesInv, ClientTypeOK, CursorIsLast
  <2>3. g \in 1..count
    <3>1. Len(got) \in DOMAIN got
      BY <2>2
    <3> QED
      BY <2>2, <3>1
  <2> HIDE DEF g
  <2>4. /\ Size \in Nat /\ count \in Nat /\ MaxEvents \in Nat
        /\ Size = count \/ Size = MaxEvents
        /\ \A k \in 0..(Size - 1) : Slot(k).n = count - k
    BY <1>1, Sizes DEF RingInv, InOrder
  <2>5. ASSUME g > count - MaxEvents
        PROVE  \E k \in 0..(Size - 1) : Slot(k).id = cursor /\ Slot(k).n > g
    <3>1. count - g \in 0..(Size - 1) /\ count - (count - g) = g
      BY <2>3, <2>4, <2>5
    <3>2. Slot(count - g).n = g /\ Slot(count - g).id = cursor
      BY <2>2, <2>4, <3>1
    <3>3. PICK i \in 0..(Size - 1) :
               /\ Slot(i).id = cursor /\ \A j \in 0..(Size - 1) : Slot(j).id = cursor => i <= j
               /\ GetEvent(cursor) = {Slot(i)}
      BY <1>1, <3>1, <3>2, FoundById
    <3>4. i <= count - g /\ Slot(i).n # g /\ Slot(i).n = count - i
      BY <2>1, <2>4, <3>1, <3>2, <3>3
    <3>5. Slot(i).n > g
      BY <2>3, <2>4, <3>4
    <3> QED
      BY <3>3, <3>5
  <2>6. g <= count - MaxEvents \/ g > count - MaxEvents
    BY <2>3, <2>4
  <2> QED
    BY <2>5, <2>6 DEF g
<1>2. RingInv /\ PagesInv => PagesExact
  <2> SUFFICES ASSUME RingInv, PagesInv PROVE PagesExact
    OBVIOUS
  <2>1. /\ \A i, j \in DOMAIN got : i < j => got[i] > got[j]
        /\ \A k \in 0..(Size - 1) :
              got # <<>> /\ Slot(k).kind \in query /\ Slot(k).n <= got[1] /\ Slot(k).n >= got[Len(got)]
                  => \E i \in DOMAIN got : got[i] = Slot(k).n
    BY DEF PagesInv, Falling, Complete
  <2> QED
    BY <1>1, <2>1 DEF PagesExact
<1> QED
  BY <1>2, RingCorrect, PagesInvCorrect, PTL

-----------------------------------------------------------------------------
(* The dashboards *)

LEMMA StoredIs ==
  ASSUME RingInv
  PROVE  IsFiniteSet(Stored) /\ \A ev \in Stored : ev \in Event /\ ev.kind \in Kinds
<1>1. \A ev : ev \in Stored <=> \E i \in 0..(Size - 1) : Slot(i) = ev
  BY DEF Stored
<1>2. IsFiniteSet(Stored)
  BY <1>1, PositionsCount
<1>3. \A i \in 0..(Size - 1) : Slot(i) \in Event /\ Slot(i).kind \in Kinds
  BY DEF RingInv, InOrder, Event
<1> QED
  BY <1>1, <1>2, <1>3

\* A list of events without a limit has all that match, once each.
LEMMA ListCounts ==
  ASSUME RingInv, NEW q, NEW E, \A ev : ev \in E <=> ev \in Stored /\ ev.kind \in q
  PROVE  IsFiniteSet(E) /\ Cardinality(E) = Len(RecentEvents(q, MaxEvents)) /\ Cardinality(E) \in Nat
<1> DEFINE at == Matching(0, q)
<1>1. Size \in Nat /\ Size <= MaxEvents /\ MaxEvents \in Nat
  BY Sizes DEF RingInv
<1>2. at \in SUBSET (0..(Size - 1))
  BY DEF Matching
<1>3. \A i \in 0..(Size - 1) : i \in at <=> Slot(i).kind \in q
  <2> SUFFICES ASSUME NEW i \in 0..(Size - 1) PROVE i \in at <=> Slot(i).kind \in q
    OBVIOUS
  <2>1. i \in Int /\ 0 <= i /\ i < Size /\ 0 \in Nat
    BY <1>1
  <2> HIDE DEF at
  <2> QED
    BY <2>1, MatchingIs DEF at
<1> HIDE DEF at
<1>4. \A ev : ev \in Stored <=> \E i \in 0..(Size - 1) : Slot(i) = ev
  BY DEF Stored
<1>5. \A ev : ev \in E <=> \E i \in at : Slot(i) = ev
  BY <1>2, <1>3, <1>4
<1>6. /\ IsFiniteSet(at) /\ Cardinality(at) \in Nat /\ Cardinality(at) <= Size
      /\ IsFiniteSet(E) /\ Cardinality(E) = Cardinality(at)
  BY <1>2, <1>5, PositionsCount
<1>7. Min2(Cardinality(at), MaxEvents) = Cardinality(at)
  BY <1>1, <1>6 DEF Min2
<1> DEFINE c == Cardinality(at)
<1>8. RecentEvents(q, MaxEvents) = [k \in 1..c |-> Slot(Nth(at, k))]
  BY <1>7 DEF RecentEvents, Scan, at
<1>9. c \in Nat
  BY <1>6
<1> HIDE DEF c
<1>10. Len(RecentEvents(q, MaxEvents)) = c
  BY <1>8, <1>9
<1> QED
  BY <1>6, <1>10 DEF c

LEMMA TenantsAgree ==
  ASSUME RingInv, NEW now \in Times, NEW t \in Tenants
  PROVE  TenantActivity(now, t).hour = Listed(now, Hour, LAMBDA kind : kind.tenant = t)
<1> DEFINE q == {kind \in Kinds : kind.at >= now - Hour /\ kind.tenant = t}
           E == {ev \in Since(now, Hour) : ev.kind.tenant = t}
<1>1. \A ev : ev \in E <=> ev \in Stored /\ ev.kind \in q
  BY StoredIs DEF Since
<1>2. TenantActivity(now, t).hour = Cardinality(E)
  BY DEF TenantActivity, With
<1>3. Listed(now, Hour, LAMBDA kind : kind.tenant = t) = Len(RecentEvents(q, MaxEvents))
  BY DEF Listed
<1> HIDE DEF q, E
<1>4. Cardinality(E) = Len(RecentEvents(q, MaxEvents))
  BY <1>1, ListCounts
<1> QED
  BY <1>2, <1>3, <1>4

LEMMA HealthIs ==
  ASSUME NEW total \in Nat, NEW errors, NEW ms
  PROVE  Health(total, errors, ms) = "unknown" <=> total = 0
BY DEF Health

LEMMA ModulesAgree ==
  ASSUME RingInv, NEW now \in Times, NEW m \in Modules
  PROVE  LET n == Listed(now, FiveMinutes, LAMBDA kind : kind.module = m)
         IN  Topology(now)[m].events = n /\ (Topology(now)[m].status = "unknown" <=> n = 0)
<1> DEFINE q == {kind \in Kinds : kind.at >= now - FiveMinutes /\ kind.module = m}
           E == {ev \in Since(now, FiveMinutes) : ev.kind.module = m}
           errors == Cardinality({ev \in E : ev.kind.status = "error"})
           n == Listed(now, FiveMinutes, LAMBDA kind : kind.module = m)
<1>1. \A ev : ev \in E <=> ev \in Stored /\ ev.kind \in q
  BY StoredIs DEF Since
<1>2. /\ Topology(now)[m].events = Cardinality(E)
      /\ Topology(now)[m].status = Health(Cardinality(E), errors, TotalMs(E))
  BY DEF Topology, With
<1>3. n = Len(RecentEvents(q, MaxEvents))
  BY DEF Listed
<1> HIDE DEF q, E, errors, n
<1>4. Cardinality(E) = Len(RecentEvents(q, MaxEvents)) /\ Cardinality(E) \in Nat
  BY <1>1, ListCounts
<1>5. Health(Cardinality(E), errors, TotalMs(E)) = "unknown" <=> Cardinality(E) = 0
  BY <1>4, HealthIs
<1>6. Topology(now)[m].events = n /\ (Topology(now)[m].status = "unknown" <=> n = 0)
  BY <1>2, <1>3, <1>4, <1>5
<1> QED
  BY <1>6 DEF n

LEMMA PipelinesAgree ==
  ASSUME RingInv, NEW now \in Times, NEW p \in Pipelines \ {NoPipeline}
  PROVE  PipelineStats(now)[p] <= Listed(now, Hour, LAMBDA kind : kind.module = "sentinel")
<1> DEFINE q == {kind \in Kinds : kind.at >= now - Hour /\ kind.module = "sentinel"}
           E == {ev \in Since(now, Hour) : ev.kind.module = "sentinel"}
           own == {ev \in Since(now, Hour) : ev.kind.pipeline = p /\ ev.kind.module = "sentinel"}
<1>1. \A ev : ev \in E <=> ev \in Stored /\ ev.kind \in q
  BY StoredIs DEF Since
<1>2. PipelineStats(now)[p] = Cardinality(own)
  BY DEF PipelineStats, With
<1>3. Listed(now, Hour, LAMBDA kind : kind.module = "sentinel") = Len(RecentEvents(q, MaxEvents))
  BY DEF Listed
<1>4. own \in SUBSET E
  OBVIOUS
<1> HIDE DEF q, E, own
<1>5. IsFiniteSet(E) /\ Cardinality(E) = Len(RecentEvents(q, MaxEvents))
  BY <1>1, ListCounts
<1>6. Cardinality(own) <= Cardinality(E)
  BY <1>4, <1>5, FS_Subset
<1> QED
  BY <1>2, <1>3, <1>5, <1>6

-----------------------------------------------------------------------------
(* The summary *)

\* The walk from the newest event sees events of the last day only, and all of them if
\* none that is a day old arrived after a newer one.
LEMMA WalkedIs ==
  ASSUME RingInv, NEW now \in Times
  PROVE  /\ \A ev \in Walked(now) : ev \in Stored /\ ev.kind.at >= now - Day
         /\ Timely(now) => \A ev \in Stored : ev.kind.at >= now - Day => ev \in Walked(now)
<1>1. Size \in Nat
  BY Sizes DEF RingInv
<1>2. \A i \in 0..(Size - 1) : Slot(i).kind.at \in Nat
  BY KindsAssumption, SpansAssumption DEF RingInv, InOrder, Event, Kind
<1>3. now \in Nat /\ Day \in Nat
  BY SpansAssumption
<1>4. ASSUME NEW ev \in Walked(now) PROVE ev \in Stored /\ ev.kind.at >= now - Day
  <2>1. PICK j \in 0..(Size - 1) : ev = Slot(j) /\ \A k \in 0..j : Slot(k).kind.at >= now - Day
    BY DEF Walked
  <2>2. j \in 0..j
    BY <1>1, <2>1
  <2> QED
    BY <2>1, <2>2 DEF Stored
<1>5. ASSUME Timely(now), NEW ev \in Stored, ev.kind.at >= now - Day PROVE ev \in Walked(now)
  <2>1. PICK j \in 0..(Size - 1) : ev = Slot(j)
    BY DEF Stored
  <2>2. ASSUME NEW k \in 0..j PROVE Slot(k).kind.at >= now - Day
    <3>1. k \in 0..(Size - 1) /\ (k = j \/ k < j)
      BY <1>1, <2>1
    <3>2. ~ (k < j /\ Slot(k).kind.at < now - Day)
      <4>1. k < j /\ Slot(k).kind.at < now - Day => Slot(j).kind.at < now - Day
        BY <1>5, <3>1 DEF Timely
      <4>2. Slot(j).kind.at \in Nat /\ Slot(j).kind.at >= now - Day
        BY <1>2, <1>5, <2>1
      <4> QED
        BY <1>3, <4>1, <4>2
    <3>3. Slot(k).kind.at \in Nat
      BY <1>2, <3>1
    <3> QED
      BY <1>3, <1>5, <2>1, <3>1, <3>2, <3>3
  <2> QED
    BY <2>1, <2>2 DEF Walked
<1> QED
  BY <1>4, <1>5

LEMMA SplitCount ==
  ASSUME NEW S, IsFiniteSet(S), NEW A \in SUBSET S, NEW B \in SUBSET S,
         \A x \in S : x \in A <=> x \notin B
  PROVE  /\ Cardinality(S) = Cardinality(A) + Cardinality(B)
         /\ Cardinality(A) \in Nat /\ Cardinality(B) \in Nat /\ IsFiniteSet(A) /\ IsFiniteSet(B)
<1>1. IsFiniteSet(A) /\ IsFiniteSet(B)
  BY FS_Subset
<1>2. A \cup B = S /\ A \cap B = {}
  OBVIOUS
<1>3. Cardinality(A) \in Nat /\ Cardinality(B) \in Nat
  BY <1>1, FS_CardinalityType
<1>4. Cardinality(A \cup B) = Cardinality(A) + Cardinality(B) - Cardinality(A \cap B)
  BY <1>1, FS_Union
<1>5. Cardinality(A \cap B) = 0
  BY <1>2, FS_EmptySet
<1> QED
  BY <1>1, <1>2, <1>3, <1>4, <1>5

\* The events of the last hour that pass a filter, those exactly an hour old, and those
\* of them the walk sees.
HourSets(now, q, E, O, H) ==
    /\ \A ev : ev \in E <=> ev \in Stored /\ ev.kind.at >= now - Hour /\ ev.kind \in q
    /\ \A ev : ev \in O <=> ev \in Stored /\ ev.kind.at = now - Hour /\ ev.kind \in q
    /\ \A ev : ev \in H <=> ev \in Walked(now) /\ ev.kind.at > now - Hour /\ ev.kind \in q

\* The events of the last hour the walk sees: no more than there are, and all of them if
\* the walk ends in time; those exactly an hour old it leaves out.
LEMMA HourIs ==
  ASSUME RingInv, NEW now \in Times, NEW q, NEW E, NEW O, NEW H, HourSets(now, q, E, O, H)
  PROVE  /\ Cardinality(H) \in Nat /\ Cardinality(O) \in Nat /\ Cardinality(E) \in Nat
         /\ Cardinality(H) <= Cardinality(E) - Cardinality(O)
         /\ Timely(now) => Cardinality(H) = Cardinality(E) - Cardinality(O)
<1> DEFINE A == {ev \in Stored : ev.kind.at > now - Hour /\ ev.kind \in q}
<1>1. IsFiniteSet(Stored) /\ \A ev \in Stored : ev.kind.at \in Nat
  <2>1. IsFiniteSet(Stored) /\ \A ev \in Stored : ev.kind \in Kinds
    BY StoredIs
  <2> QED
    BY <2>1, KindsAssumption, SpansAssumption DEF Kind
<1>2. now \in Nat /\ Hour \in Nat /\ Day \in Nat /\ Hour <= Day
  BY SpansAssumption
<1>3. E \in SUBSET Stored /\ O \in SUBSET E /\ A \in SUBSET E /\ \A ev \in E : ev \in A <=> ev \notin O
  BY <1>1, <1>2 DEF HourSets
<1>4. H \in SUBSET A
  BY WalkedIs DEF HourSets
<1>5. Timely(now) => A \in SUBSET H
  BY <1>1, <1>2, WalkedIs DEF HourSets
<1> HIDE DEF A
<1>6. IsFiniteSet(E)
  BY <1>1, <1>3, FS_Subset
<1>7. /\ Cardinality(E) = Cardinality(A) + Cardinality(O)
      /\ Cardinality(A) \in Nat /\ Cardinality(O) \in Nat /\ IsFiniteSet(A)
  BY <1>3, <1>6, SplitCount
<1>8. Cardinality(H) <= Cardinality(A) /\ IsFiniteSet(H)
  BY <1>4, <1>7, FS_Subset
<1>9. Timely(now) => H = A
  BY <1>4, <1>5
<1>10. Cardinality(H) \in Nat
  BY <1>8, FS_CardinalityType
<1> QED
  BY <1>7, <1>8, <1>9, <1>10

-----------------------------------------------------------------------------
(* The sum over the tenants *)

\* Sorted by the value of a function, the numbers of each value are together all of them:
\* a number goes with its rank among those of its value.
LEMMA TotalCounts ==
  ASSUME NEW X \in SUBSET Int, IsFiniteSet(X), NEW S, NEW g \in [X -> S], NEW f, DOMAIN f = S,
         NEW of \in [S -> SUBSET X], \A s \in S : f[s] = Cardinality(of[s]),
         \A s \in S, i \in X : i \in of[s] <=> g[i] = s
  PROVE  Total(f) = Cardinality(X)
<1> DEFINE T == UNION {{s} \X (1..f[s]) : s \in S}
           h == [i \in X |-> <<g[i], Rank(of[g[i]], i) + 1>>]
<1>1. ASSUME NEW s \in S
      PROVE  /\ of[s] \in SUBSET Int /\ IsFiniteSet(of[s]) /\ Cardinality(of[s]) \in Nat
             /\ \A i \in of[s] : Rank(of[s], i) \in 0..(Cardinality(of[s]) - 1)
             /\ \A i, j \in of[s] : i < j => Rank(of[s], i) < Rank(of[s], j)
             /\ \A k \in 1..Cardinality(of[s]) :
                   Nth(of[s], k) \in of[s] /\ Rank(of[s], Nth(of[s], k)) = k - 1
  <2> DEFINE O == of[s]
  <2>1. O \in SUBSET X
    OBVIOUS
  <2> HIDE DEF O
  <2>2. O \in SUBSET Int /\ IsFiniteSet(O)
    BY <2>1, FS_Subset
  <2>3. /\ Cardinality(O) \in Nat
        /\ \A i \in O : Rank(O, i) \in 0..(Cardinality(O) - 1)
        /\ \A i, j \in O : i < j => Rank(O, i) < Rank(O, j)
    BY <2>2, Ranks
  <2>4. \A k \in 1..Cardinality(O) : Nth(O, k) \in O /\ Rank(O, Nth(O, k)) = k - 1
    BY <2>2, NthRank
  <2> QED
    BY <2>2, <2>3, <2>4 DEF O
<1>2. ASSUME NEW i \in X PROVE g[i] \in S /\ i \in of[g[i]] /\ Rank(of[g[i]], i) + 1 \in 1..f[g[i]]
  <2>1. g[i] \in S /\ i \in of[g[i]]
    OBVIOUS
  <2>2. /\ Cardinality(of[g[i]]) \in Nat /\ f[g[i]] = Cardinality(of[g[i]])
        /\ Rank(of[g[i]], i) \in 0..(Cardinality(of[g[i]]) - 1)
    BY <1>1, <2>1
  <2> QED
    BY <2>1, <2>2
<1>3. \A s, k : <<s, k>> \in T <=> s \in S /\ k \in 1..f[s]
  OBVIOUS
<1>4. h \in [X -> T] /\ \A i \in X : h[i] = <<g[i], Rank(of[g[i]], i) + 1>>
  <2>1. \A i \in X : <<g[i], Rank(of[g[i]], i) + 1>> \in T
    BY <1>2, <1>3
  <2> HIDE DEF T
  <2> QED
    BY <2>1
<1>5. \A y \in T : \E s \in S : \E k \in 1..f[s] : y = <<s, k>>
  OBVIOUS
<1>6. Total(f) = Cardinality(T)
  BY DEF Total
<1> HIDE DEF T, h
<1>7. ASSUME NEW i \in X, NEW j \in X, h[i] = h[j] PROVE i = j
  <2>1. g[i] = g[j] /\ Rank(of[g[i]], i) + 1 = Rank(of[g[i]], j) + 1
    BY <1>4, <1>7
  <2> DEFINE O == of[g[i]]
  <2>2. i \in O /\ j \in O /\ g[i] \in S
    BY <1>2, <2>1
  <2>3. /\ O \in SUBSET Int
        /\ Cardinality(O) \in Nat
        /\ \A k \in O : Rank(O, k) \in 0..(Cardinality(O) - 1)
        /\ \A k, l \in O : k < l => Rank(O, k) < Rank(O, l)
    BY <1>1, <2>2
  <2>4. Rank(O, i) + 1 = Rank(O, j) + 1
    BY <2>1
  <2> HIDE DEF O
  <2>5. Rank(O, i) \in Int /\ Rank(O, j) \in Int /\ i \in Int /\ j \in Int
    BY <2>2, <2>3
  <2>6. Rank(O, i) = Rank(O, j)
    BY <2>4, <2>5
  <2>7. ~ i < j /\ ~ j < i
    BY <2>2, <2>3, <2>5, <2>6
  <2> QED
    BY <2>5, <2>7
<1>8. ASSUME NEW y \in T PROVE \E i \in X : h[i] = y
  <2>1. PICK s \in S : \E k \in 1..f[s] : y = <<s, k>>
    BY <1>5
  <2>0. PICK k \in 1..f[s] : y = <<s, k>>
    BY <2>1
  <2>2. f[s] = Cardinality(of[s]) /\ of[s] \in SUBSET X
    OBVIOUS
  <2> DEFINE i == Nth(of[s], k)
  <2>3. i \in of[s] /\ Rank(of[s], i) = k - 1
    BY <1>1, <2>2
  <2> HIDE DEF i
  <2>4. i \in X /\ g[i] = s
    BY <2>2, <2>3
  <2>5. k \in Int
    OBVIOUS
  <2>6. h[i] = <<s, k - 1 + 1>>
    BY <1>4, <2>3, <2>4
  <2>7. k - 1 + 1 = k
    BY <2>5
  <2> QED
    BY <2>0, <2>4, <2>6, <2>7
<1>9. h \in [X -> T] /\ (\A i, j \in X : h[i] = h[j] => i = j) /\ (\A y \in T : \E i \in X : h[i] = y)
  BY <1>4, <1>7, <1>8
<1>10. h \in Surjection(X, T) /\ h \in Injection(X, T)
  BY <1>9 DEF Surjection, Injection, IsInjective
<1> QED
  BY <1>6, <1>10, FS_Surjection

LEMMA BlockedTotal ==
  ASSUME RingInv, NEW now \in Times, NEW E,
         \A ev : ev \in E <=> ev \in Stored /\ ev.kind.at >= now - Hour /\ ev.kind.status = "blocked"
  PROVE  Total([t \in Tenants |-> TenantActivity(now, t).blocked]) = Cardinality(E)
<1> DEFINE X == {i \in 0..(Size - 1) : Slot(i) \in E}
           f == [t \in Tenants |-> TenantActivity(now, t).blocked]
           g == [i \in X |-> Slot(i).kind.tenant]
           of == [t \in Tenants |-> {i \in X : Slot(i).kind.tenant = t}]
           Own(t) == {ev \in {o \in Since(now, Hour) : o.kind.tenant = t} : ev.kind.status = "blocked"}
<1>1. \A ev : ev \in Stored <=> \E i \in 0..(Size - 1) : Slot(i) = ev
  BY DEF Stored
<1>2. \A i \in 0..(Size - 1) : Slot(i).kind.tenant \in Tenants
  BY KindsAssumption DEF RingInv, InOrder, Event, Kind
<1>3. X \in SUBSET (0..(Size - 1)) /\ X \in SUBSET Int
  BY Sizes DEF RingInv
<1>4. \A ev : ev \in E <=> \E i \in X : Slot(i) = ev
  BY <1>1
<1>5. \A i \in X : Slot(i) \in E
  OBVIOUS
<1>6. \A t \in Tenants : f[t] = Cardinality(Own(t))
  BY DEF TenantActivity, With
<1>7. \A t, ev : ev \in Own(t) <=> ev \in E /\ ev.kind.tenant = t
  BY DEF Since
<1>8. DOMAIN f = Tenants
  OBVIOUS
<1>9. g \in [X -> Tenants] /\ \A i \in X : g[i] = Slot(i).kind.tenant
  BY <1>2
<1>10. /\ of \in [Tenants -> SUBSET X]
       /\ \A t \in Tenants, i \in X : i \in of[t] <=> Slot(i).kind.tenant = t
  OBVIOUS
<1> HIDE DEF X, f, g, of, Own
<1>11. IsFiniteSet(X) /\ Cardinality(E) = Cardinality(X)
  BY <1>3, <1>4, PositionsCount
<1>12. ASSUME NEW t \in Tenants PROVE f[t] = Cardinality(of[t])
  <2> DEFINE at == of[t]
             B == Own(t)
  <2>1. at \in SUBSET X
    BY <1>10
  <2>2. at \in SUBSET (0..(Size - 1))
    BY <1>3, <2>1
  <2>3. \A ev : ev \in B <=> \E i \in at : Slot(i) = ev
    BY <1>4, <1>7, <1>10
  <2> HIDE DEF at, B
  <2>4. Cardinality(B) = Cardinality(at)
    BY <2>2, <2>3, PositionsCount
  <2> QED
    BY <1>6, <2>4 DEF at, B
<1>13. \A t \in Tenants, i \in X : i \in of[t] <=> g[i] = t
  BY <1>9, <1>10
<1>14. \A t \in Tenants : f[t] = Cardinality(of[t])
  BY <1>12
<1>15. Total(f) = Cardinality(X)
  BY <1>3, <1>8, <1>9, <1>10, <1>11, <1>13, <1>14, TotalCounts
<1> QED
  BY <1>11, <1>15 DEF f

\* What the summary promises of the list and of the tenants' answers.
LEMMA SummaryAgrees ==
  ASSUME RingInv, NEW now \in Times
  PROVE  LET s == DashboardSummary(now)
             Blocked(kind) == kind.status = "blocked"
             Any(kind) == TRUE
         IN  /\ s.day <= Listed(now, Day, Any)
             /\ s.hour <= Listed(now, Hour, Any) - OnTheHour(now, Any)
             /\ s.blocked <= Total([t \in Tenants |-> TenantActivity(now, t).blocked])
             /\ Timely(now) =>
                   /\ s.day = Listed(now, Day, Any)
                   /\ s.hour = Listed(now, Hour, Any) - OnTheHour(now, Any)
                   /\ s.blocked + OnTheHour(now, Blocked)
                         = Total([t \in Tenants |-> TenantActivity(now, t).blocked])
<1> DEFINE s == DashboardSummary(now)
           Blocked(kind) == kind.status = "blocked"
           Any(kind) == TRUE
           W == Walked(now)
           D == {ev \in Stored : ev.kind.at >= now - Day}
           qD == {kind \in Kinds : kind.at >= now - Day /\ TRUE}
           qH == {kind \in Kinds : kind.at >= now - Hour /\ TRUE}
           qB == {kind \in Kinds : kind.status = "blocked"}
           H == {ev \in W : ev.kind.at > now - Hour}
           E == {ev \in Stored : ev.kind.at >= now - Hour}
           O == {ev \in Stored : ev.kind.at = now - Hour}
           HB == {ev \in H : ev.kind.status = "blocked"}
           EB == {ev \in E : ev.kind.status = "blocked"}
           OB == {ev \in O : ev.kind.status = "blocked"}
           total == Total([t \in Tenants |-> TenantActivity(now, t).blocked])
<1>0. IsFiniteSet(Stored) /\ \A ev \in Stored : ev.kind \in Kinds
  BY StoredIs
<1>1. s.day = Cardinality(W) /\ s.hour = Cardinality(H) /\ s.blocked = Cardinality(HB)
  BY DEF DashboardSummary, With
<1>2. Listed(now, Day, Any) = Len(RecentEvents(qD, MaxEvents)) /\ Listed(now, Hour, Any) = Len(RecentEvents(qH, MaxEvents))
  BY DEF Listed
<1>3. OnTheHour(now, Any) = Cardinality(O) /\ OnTheHour(now, Blocked) = Cardinality(OB)
  <2>1. O = {ev \in O : TRUE}
    OBVIOUS
  <2> QED
    BY <2>1 DEF OnTheHour, With
<1>4. /\ \A ev : ev \in D <=> ev \in Stored /\ ev.kind \in qD
      /\ \A ev : ev \in E <=> ev \in Stored /\ ev.kind \in qH
  BY <1>0
<1>5. /\ \A ev \in W : ev \in Stored /\ ev.kind.at >= now - Day
      /\ Timely(now) => \A ev \in Stored : ev.kind.at >= now - Day => ev \in W
  BY WalkedIs
<1>6. W \in SUBSET D /\ (Timely(now) => W = D)
  BY <1>5
<1>7. HourSets(now, Kinds, E, O, H)
  BY <1>0, <1>5 DEF HourSets
<1>8. /\ HourSets(now, qB, EB, OB, HB)
      /\ \A ev : ev \in EB <=> ev \in Stored /\ ev.kind.at >= now - Hour /\ ev.kind.status = "blocked"
  BY <1>0, <1>5 DEF HourSets
<1> HIDE DEF s, Blocked, Any, W, D, qD, qH, qB, H, E, O, HB, EB, OB
<1>9. IsFiniteSet(D) /\ Cardinality(D) = Len(RecentEvents(qD, MaxEvents)) /\ Cardinality(D) \in Nat
  BY <1>4, ListCounts
<1>10. Cardinality(E) = Len(RecentEvents(qH, MaxEvents))
  BY <1>4, ListCounts
<1>11. Cardinality(W) <= Cardinality(D) /\ (Timely(now) => Cardinality(W) = Cardinality(D))
  BY <1>6, <1>9, FS_Subset
<1>12. /\ Cardinality(H) <= Cardinality(E) - Cardinality(O)
       /\ Timely(now) => Cardinality(H) = Cardinality(E) - Cardinality(O)
  BY <1>7, HourIs
<1>13. /\ Cardinality(HB) \in Nat /\ Cardinality(OB) \in Nat /\ Cardinality(EB) \in Nat
       /\ Cardinality(HB) <= Cardinality(EB) - Cardinality(OB)
       /\ Timely(now) => Cardinality(HB) = Cardinality(EB) - Cardinality(OB)
  BY <1>8, HourIs
<1>14. total = Cardinality(EB)
  BY <1>8, BlockedTotal
<1> HIDE DEF total
<1>15. /\ s.day <= Listed(now, Day, Any)
       /\ s.hour <= Listed(now, Hour, Any) - OnTheHour(now, Any)
       /\ Timely(now) => s.day = Listed(now, Day, Any)
       /\ Timely(now) => s.hour = Listed(now, Hour, Any) - OnTheHour(now, Any)
  BY <1>1, <1>2, <1>3, <1>9, <1>10, <1>11, <1>12
<1>16. s.blocked <= total /\ (Timely(now) => s.blocked + OnTheHour(now, Blocked) = total)
  BY <1>1, <1>3, <1>13, <1>14
<1> QED
  BY <1>15, <1>16 DEF s, Blocked, Any, total

-----------------------------------------------------------------------------
(* Recent activity *)

\* The newest events that pass are those ranked below the limit, and none is listed twice.
LEMMA NewestAre ==
  ASSUME RingInv, NEW q, NEW n \in Nat
  PROVE  LET at == Matching(0, q)
             page == RecentEvents(q, n)
         IN  /\ IsFiniteSet(at) /\ at \in SUBSET (0..(Size - 1)) /\ Cardinality(at) \in Nat
             /\ \A ev : ev \in Range(page) <=> \E i \in at : Rank(at, i) < n /\ Slot(i) = ev
             /\ IsFiniteSet(Range(page)) /\ Cardinality(Range(page)) = Min2(Cardinality(at), n)
<1> DEFINE at == Matching(0, q)
           c == Min2(Cardinality(at), n)
           page == RecentEvents(q, n)
           R == Range(page)
           E == {Slot(i) : i \in at}
<1>1. at \in SUBSET (0..(Size - 1)) /\ at \in SUBSET Int
  BY Sizes DEF Matching, RingInv
<1>2. page = [k \in 1..c |-> Slot(Nth(at, k))]
  BY DEF RecentEvents, Scan
<1>3. \A ev : ev \in E <=> \E i \in at : Slot(i) = ev
  OBVIOUS
<1>4. \A ev : ev \in R <=> \E k \in 1..c : ev = Slot(Nth(at, k))
  BY <1>2 DEF Range
<1> HIDE DEF at, E, R
<1>5. IsFiniteSet(at) /\ Cardinality(at) \in Nat
  BY <1>1, <1>3, PositionsCount
<1>6. c \in Nat /\ c <= n /\ c <= Cardinality(at) /\ (c = Cardinality(at) \/ c = n)
  BY <1>5 DEF Min2
<1> HIDE DEF c
<1>7. /\ \A i \in at : Rank(at, i) \in 0..(Cardinality(at) - 1)
      /\ \A i, j \in at : i < j => Rank(at, i) < Rank(at, j)
  BY <1>1, <1>5, Ranks
<1>8. \A k \in 1..c : Nth(at, k) \in at /\ Rank(at, Nth(at, k)) = k - 1
  <2> SUFFICES ASSUME NEW k \in 1..c PROVE Nth(at, k) \in at /\ Rank(at, Nth(at, k)) = k - 1
    OBVIOUS
  <2>1. k \in 1..Cardinality(at)
    BY <1>5, <1>6
  <2> QED
    BY <1>1, <1>5, <2>1, NthRank
<1>9. ASSUME NEW i \in at, NEW j \in at, Rank(at, i) = Rank(at, j) PROVE i = j
  <2>1. i \in Int /\ j \in Int /\ Rank(at, i) \in Int
    BY <1>1, <1>5, <1>7
  <2>2. ~ i < j /\ ~ j < i
    BY <1>7, <1>9, <2>1
  <2> QED
    BY <2>1, <2>2
<1>10. ASSUME NEW ev, ev \in R PROVE \E i \in at : Rank(at, i) < n /\ Slot(i) = ev
  <2>1. PICK k \in 1..c : ev = Slot(Nth(at, k))
    BY <1>4, <1>10
  <2>2. Nth(at, k) \in at /\ Rank(at, Nth(at, k)) = k - 1
    BY <1>8
  <2>3. k - 1 < n
    BY <1>6
  <2> QED
    BY <2>1, <2>2, <2>3
<1>11. ASSUME NEW i \in at, Rank(at, i) < n PROVE Slot(i) \in R
  <2> DEFINE k == Rank(at, i) + 1
  <2>1. Rank(at, i) \in 0..(Cardinality(at) - 1)
    BY <1>7
  <2>2. k \in 1..c /\ k - 1 = Rank(at, i)
    BY <1>5, <1>6, <1>11, <2>1
  <2> HIDE DEF k
  <2>3. Nth(at, k) \in at /\ Rank(at, Nth(at, k)) = Rank(at, i)
    BY <1>8, <2>2
  <2>4. Nth(at, k) = i
    BY <1>9, <2>3
  <2> QED
    BY <1>4, <2>2, <2>4
<1>12. \A ev : ev \in R <=> \E i \in at : Rank(at, i) < n /\ Slot(i) = ev
  BY <1>10, <1>11
<1>13. IsFiniteSet(R) /\ Cardinality(R) = c
  <2> DEFINE f == [k \in 1..c |-> Slot(Nth(at, k))]
  <2>1. f \in [1..c -> R] /\ \A k \in 1..c : f[k] = Slot(Nth(at, k))
    BY <1>4
  <2> HIDE DEF f
  <2>2. \A k, l \in 1..c : f[k] = f[l] => k = l
    <3> SUFFICES ASSUME NEW k \in 1..c, NEW l \in 1..c, f[k] = f[l] PROVE k = l
      OBVIOUS
    <3>1. /\ Nth(at, k) \in 0..(Size - 1) /\ Nth(at, l) \in 0..(Size - 1)
          /\ Slot(Nth(at, k)) = Slot(Nth(at, l))
      BY <1>1, <1>8, <2>1
    <3>2. Nth(at, k) = Nth(at, l)
      BY <3>1, Distinct
    <3>3. k - 1 = l - 1 /\ k \in Int /\ l \in Int
      BY <1>8, <3>2
    <3> QED
      BY <3>3
  <2>3. \A ev \in R : \E k \in 1..c : f[k] = ev
    BY <1>4, <2>1
  <2>4. IsFiniteSet(1..c) /\ Cardinality(1..c) = c
    <3>1. 1 \in Int /\ c \in Int /\ (1 > c => c = 0) /\ c - 1 + 1 = c
      BY <1>6
    <3>2. IsFiniteSet(1..c) /\ Cardinality(1..c) = IF 1 > c THEN 0 ELSE c - 1 + 1
      BY <3>1, FS_Interval
    <3> QED
      BY <3>1, <3>2
  <2> DEFINE S == 1..c
  <2> HIDE DEF S
  <2>5. IsFiniteSet(S) /\ f \in Surjection(S, R) /\ f \in Injection(S, R)
    BY <2>1, <2>2, <2>3, <2>4 DEF S, Surjection, Injection, IsInjective
  <2>6. IsFiniteSet(R) /\ Cardinality(R) = Cardinality(S)
    BY <2>5, FS_Surjection
  <2> QED
    BY <2>4, <2>6 DEF S
<1> QED
  BY <1>1, <1>5, <1>12, <1>13 DEF at, c, R

\* Among fewer positions none is ranked higher.
LEMMA FewerRank ==
  ASSUME NEW at, IsFiniteSet(at), NEW some \in SUBSET at, NEW i
  PROVE  /\ Rank(some, i) \in Nat /\ Rank(at, i) \in Nat
         /\ Rank(some, i) <= Rank(at, i)
<1> DEFINE A == {j \in at : j < i}
           B == {j \in some : j < i}
<1>1. A \in SUBSET at /\ B \in SUBSET A /\ Rank(some, i) = Cardinality(B) /\ Rank(at, i) = Cardinality(A)
  BY DEF Rank
<1> HIDE DEF A, B
<1>2. IsFiniteSet(A)
  BY <1>1, FS_Subset
<1>3. IsFiniteSet(B) /\ Cardinality(B) <= Cardinality(A)
  BY <1>1, <1>2, FS_Subset
<1> QED
  BY <1>1, <1>2, <1>3, FS_CardinalityType

\* The positions of a severity are among those of the events that are no information,
\* and each of these is of one such severity.
LEMMA SeverityPositions ==
  ASSUME RingInv
  PROVE  LET q == {kind \in Kinds : kind.severity # "info"}
             Of(sev) == {kind \in Kinds : kind.severity = sev}
         IN  /\ \A sev \in Severities \ {"info"} : Matching(0, Of(sev)) \in SUBSET Matching(0, q)
             /\ \A i \in Matching(0, q) :
                   \E sev \in Severities \ {"info"} : i \in Matching(0, Of(sev))
<1> DEFINE q == {kind \in Kinds : kind.severity # "info"}
           Of(sev) == {kind \in Kinds : kind.severity = sev}
<1>1. \A sev \in Severities \ {"info"} : Of(sev) \in SUBSET q
  OBVIOUS
<1>2. \A kind \in q : kind.severity \in Severities \ {"info"} /\ kind \in Of(kind.severity)
  BY KindsAssumption DEF Kind
<1> HIDE DEF q, Of
<1>3. \A i, s : i \in Matching(0, s) <=> i \in 0..(Size - 1) /\ Slot(i) # Blank /\ Slot(i).kind \in s
  BY DEF Matching, matchEvent
<1>4. \A sev \in Severities \ {"info"} : Matching(0, Of(sev)) \in SUBSET Matching(0, q)
  BY <1>1, <1>3
<1>5. \A i \in Matching(0, q) : \E sev \in Severities \ {"info"} : i \in Matching(0, Of(sev))
  BY <1>2, <1>3
<1> QED
  BY <1>4, <1>5 DEF q, Of

\* When the ring is in the order of time, the newest events that are no information are
\* an answer of the merge: each is among the newest of its own severity, and no merged
\* event that they leave out is newer.
LEMMA ActivityAgrees ==
  ASSUME RingInv, \A i, j \in 0..(Size - 1) : i < j => Slot(i).kind.at >= Slot(j).kind.at
  PROVE  Range(RecentEvents({kind \in Kinds : kind.severity # "info"}, ActivityLimit)) \in RecentActivity
<1> DEFINE q == {kind \in Kinds : kind.severity # "info"}
           Of(sev) == {kind \in Kinds : kind.severity = sev}
           at == Matching(0, q)
           P == Range(RecentEvents(q, ActivityLimit))
           Part(sev) == Range(RecentEvents(Of(sev), ActivityLimit))
           merged == UNION {Part(sev) : sev \in Severities \ {"info"}}
           A == {Slot(i) : i \in at}
<1>1. ActivityLimit \in Nat
  BY SpansAssumption
<1>2. /\ \A sev \in Severities \ {"info"} : Matching(0, Of(sev)) \in SUBSET at
      /\ \A i \in at : \E sev \in Severities \ {"info"} : i \in Matching(0, Of(sev))
  BY SeverityPositions
<1>3. \A ev : ev \in merged <=> \E sev \in Severities \ {"info"} : ev \in Part(sev)
  OBVIOUS
<1>4. \A ev : ev \in A <=> \E i \in at : Slot(i) = ev
  OBVIOUS
<1>5. /\ IsFiniteSet(at) /\ at \in SUBSET (0..(Size - 1)) /\ Cardinality(at) \in Nat
      /\ \A ev : ev \in P <=> \E i \in at : Rank(at, i) < ActivityLimit /\ Slot(i) = ev
      /\ IsFiniteSet(P) /\ Cardinality(P) = Min2(Cardinality(at), ActivityLimit)
  BY <1>1, NewestAre
<1>6. \A sev : \A ev : ev \in Part(sev) <=>
                   \E i \in Matching(0, Of(sev)) :
                       Rank(Matching(0, Of(sev)), i) < ActivityLimit /\ Slot(i) = ev
  BY <1>1, NewestAre
<1>7. RecentActivity = {evs \in kSubset(Min2(ActivityLimit, Cardinality(merged)), merged) :
                            \A x \in evs, y \in merged \ evs : x.kind.at >= y.kind.at}
  BY DEF RecentActivity
<1> HIDE DEF q, Of, at, P, Part, merged, A
<1>8. ASSUME NEW ev \in P PROVE ev \in merged
  <2>1. PICK i \in at : Rank(at, i) < ActivityLimit /\ Slot(i) = ev
    BY <1>5
  <2>2. PICK sev \in Severities \ {"info"} : i \in Matching(0, Of(sev))
    BY <1>2
  <2> DEFINE some == Matching(0, Of(sev))
  <2>3. some \in SUBSET at
    BY <1>2
  <2> HIDE DEF some
  <2>4. Rank(some, i) \in Nat /\ Rank(at, i) \in Nat /\ Rank(some, i) <= Rank(at, i)
    BY <1>5, <2>3, FewerRank
  <2>5. Rank(some, i) < ActivityLimit
    BY <1>1, <2>1, <2>4
  <2>6. ev \in Part(sev)
    BY <1>6, <2>1, <2>2, <2>5 DEF some
  <2> QED
    BY <1>3, <2>6
<1>9. ASSUME NEW ev \in merged PROVE ev \in A
  BY <1>2, <1>3, <1>4, <1>6
<1>10. IsFiniteSet(A) /\ Cardinality(A) = Cardinality(at)
  BY <1>4, <1>5, PositionsCount
<1>11. P \in SUBSET merged /\ merged \in SUBSET A
  BY <1>8, <1>9
<1>12. IsFiniteSet(merged) /\ Cardinality(merged) <= Cardinality(at)
  BY <1>10, <1>11, FS_Subset
<1>13. Cardinality(P) <= Cardinality(merged)
  BY <1>11, <1>12, FS_Subset
<1>14. Cardinality(merged) \in Nat
  BY <1>12, FS_CardinalityType
<1>15. Cardinality(P) = Min2(ActivityLimit, Cardinality(merged))
  BY <1>1, <1>5, <1>12, <1>13, <1>14 DEF Min2
<1>16. ASSUME NEW x \in P, NEW y \in merged \ P PROVE x.kind.at >= y.kind.at
  <2>1. PICK i \in at : Rank(at, i) < ActivityLimit /\ Slot(i) = x
    BY <1>5
  <2>2. PICK j \in at : Slot(j) = y
    BY <1>4, <1>9
  <2>3. ~ (Rank(at, j) < ActivityLimit)
    BY <1>5, <2>2
  <2>4. at \in SUBSET Int /\ i \in Int /\ j \in Int
    BY <1>5
  <2>5. /\ Rank(at, i) \in 0..(Cardinality(at) - 1) /\ Rank(at, j) \in 0..(Cardinality(at) - 1)
        /\ (j < i => Rank(at, j) < Rank(at, i))
    BY <1>5, <2>4, Ranks
  <2>6. ~ j < i /\ i # j
    BY <1>1, <1>5, <2>1, <2>3, <2>5
  <2>7. i < j
    BY <2>4, <2>6
  <2>8. i \in 0..(Size - 1) /\ j \in 0..(Size - 1)
    BY <1>5
  <2> QED
    BY <2>1, <2>2, <2>7, <2>8
<1>17. P \in kSubset(Min2(ActivityLimit, Cardinality(merged)), merged)
  BY <1>11, <1>15 DEF kSubset
<1> QED
  BY <1>7, <1>16, <1>17 DEF P, q

\* Whatever has arrived and wherever the ring has wrapped around, the dashboards count
\* what the lists of events with the same filters show.
THEOREM DashboardsAgreeCorrect == Spec => []DashboardsAgree
<1>1. RingInv => DashboardsAgree
  <2> SUFFICES ASSUME RingInv PROVE DashboardsAgree
    OBVIOUS
  <2>1. \A now \in Times : \A t \in Tenants :
           TenantActivity(now, t).hour = Listed(now, Hour, LAMBDA kind : kind.tenant = t)
    BY TenantsAgree
  <2>2. \A now \in Times : \A m \in Modules :
           LET n == Listed(now, FiveMinutes, LAMBDA kind : kind.module = m)
           IN  Topology(now)[m].events = n /\ (Topology(now)[m].status = "unknown" <=> n = 0)
    BY ModulesAgree
  <2>3. \A now \in Times : \A p \in Pipelines \ {NoPipeline} :
           PipelineStats(now)[p] <= Listed(now, Hour, LAMBDA kind : kind.module = "sentinel")
    BY PipelinesAgree
  <2>4. \A now \in Times :
           LET s == DashboardSummary(now)
               Blocked(kind) == kind.status = "blocked"
               Any(kind) == TRUE
           IN  /\ s.day <= Listed(now, Day, Any)
               /\ s.hour <= Listed(now, Hour, Any) - OnTheHour(now, Any)
               /\ s.blocked <= Total([t \in Tenants |-> TenantActivity(now, t).blocked])
               /\ Timely(now) =>
                     /\ s.day = Listed(now, Day, Any)
                     /\ s.hour = Listed(now, Hour, Any) - OnTheHour(now, Any)
                     /\ s.blocked + OnTheHour(now, Blocked)
                           = Total([t \in Tenants |-> TenantActivity(now, t).blocked])
    BY SummaryAgrees
  <2>5. (\A i, j \in 0..(Size - 1) : i < j => Slot(i).kind.at >= Slot(j).kind.at) =>
           Range(RecentEvents({kind \in Kinds : kind.severity # "info"}, ActivityLimit)) \in RecentActivity
    BY ActivityAgrees
  <2> QED
    BY <2>1, <2>2, <2>3, <2>4, <2>5 DEF DashboardsAgree
<1> QED
  BY <1>1, RingCorrect, PTL
=============================================================================
