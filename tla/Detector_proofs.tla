---------------------------- MODULE Detector_proofs ----------------------------
(***************************************************************************)
(* Proofs about Detector, for any events, times, windows and limits and    *)
(* any number of goroutines in Inspect.                                    *)
(***************************************************************************)
EXTENDS Detector, FiniteSetTheorems, FunctionTheorems, TLAPS

-----------------------------------------------------------------------------
(* Least elements.  They take the place of induction: a counterexample would  *)
(* have a least one.                                                          *)

LEMMA MinimalSubset ==
  ASSUME NEW S, IsFiniteSet(S), NEW F \in SUBSET (SUBSET S), F # {}
  PROVE  \E A \in F : \A B \in F : B \subseteq A => B = A
<1>1. IsWellFoundedOn(StrictSubsetOrdering(S), FiniteSubsetsOf(S))
  BY FS_StrictSubsetOrderingWellFounded
<1>2. F \subseteq FiniteSubsetsOf(S)
  BY FS_FiniteSubsetsOfFinite
<1>3. \E A \in F : \A B \in F : ~ (<<B, A>> \in StrictSubsetOrdering(S))
  BY <1>1, <1>2, WFMin
<1> QED
  BY <1>3 DEF StrictSubsetOrdering

LEMMA LeastNumber ==
  ASSUME NEW T \in SUBSET Nat, T # {}
  PROVE  \E m \in T : \A k \in T : m <= k
<1>1. PICK n \in T : TRUE
  OBVIOUS
<1> DEFINE F == {A \in SUBSET (1..n) : \E k \in T : A = 1..k}
<1>2. IsFiniteSet(1..n)
  BY FS_Interval
<1>3. F \in SUBSET (SUBSET (1..n)) /\ F # {}
  BY <1>1
<1>4. PICK A \in F : \A B \in F : B \subseteq A => B = A
  <2> DEFINE S == 1..n
  <2>1. IsFiniteSet(S) /\ F \in SUBSET (SUBSET S) /\ F # {}
    BY <1>2, <1>3
  <2> HIDE DEF F, S
  <2> QED
    BY <2>1, MinimalSubset
<1>5. PICK m \in T : A = 1..m
  BY <1>4
<1>6. ASSUME NEW k \in T, k < m PROVE FALSE
  <2>1. 1..k \subseteq A /\ 1..k \in F
    <3>1. 1..k \subseteq 1..m
      BY <1>6
    <3> QED
      BY <1>5, <3>1
  <2>2. 1..k = 1..m
    BY <1>4, <1>5, <2>1
  <2>3. m \in 1..m /\ m \notin 1..k
    BY <1>6
  <2> QED
    BY <2>2, <2>3
<1> QED
  BY <1>6

-----------------------------------------------------------------------------
(* Spikes.  The samples of a window fall into minutes; the more they gather in *)
(* few, the more pairs of samples share a minute.                              *)

Minutes(W) == {MinuteOf(e) : e \in W}
Pairs(W) == {p \in W \X W : MinuteOf(p[1]) = MinuteOf(p[2])}
Of(W, K) == {e \in W : MinuteOf(e) \in K}

\* Cardinalities of a window: what a minute adds to the samples and to the pairs.
LEMMA OneMinuteMore ==
  ASSUME NEW W, IsFiniteSet(W), NEW V \in SUBSET W, NEW x,
         W = V \cup {e \in W : MinuteOf(e) = x}, \A e \in V : MinuteOf(e) # x,
         NEW c, c = Cardinality({e \in W : MinuteOf(e) = x})
  PROVE  /\ c \in Nat /\ Cardinality(V) \in Nat /\ Cardinality(Pairs(V)) \in Nat
         /\ Cardinality(W) = Cardinality(V) + c
         /\ Cardinality(Pairs(W)) = Cardinality(Pairs(V)) + c * c
<1> DEFINE C == {e \in W : MinuteOf(e) = x}
<1>1. /\ IsFiniteSet(V) /\ IsFiniteSet(C)
      /\ Cardinality(V) \in Nat /\ Cardinality(C) \in Nat
  BY FS_Subset, FS_CardinalityType
<1>2. Cardinality(W) = Cardinality(V) + Cardinality(C)
  <2>1. V \cap C = {} /\ W = V \cup C
    OBVIOUS
  <2> HIDE DEF C
  <2>2. Cardinality(V \cup C) = Cardinality(V) + Cardinality(C) - Cardinality(V \cap C)
    BY <1>1, FS_Union
  <2>3. Cardinality(V \cap C) = 0
    BY <2>1, FS_EmptySet
  <2> QED
    BY <1>1, <2>1, <2>2, <2>3
<1>3. /\ IsFiniteSet(C \X C) /\ Cardinality(C \X C) = Cardinality(C) * Cardinality(C)
      /\ IsFiniteSet(V \X V)
  BY <1>1, FS_Product
<1>4. IsFiniteSet(Pairs(V)) /\ Cardinality(Pairs(V)) \in Nat
  <2>1. Pairs(V) \in SUBSET (V \X V)
    BY DEF Pairs
  <2> QED
    BY <1>3, <2>1, FS_Subset, FS_CardinalityType
<1>5. Pairs(W) = Pairs(V) \cup (C \X C) /\ Pairs(V) \cap (C \X C) = {}
  <2>1. \A p \in Pairs(W) : p \in Pairs(V) \cup (C \X C)
    BY DEF Pairs
  <2>2. \A p \in Pairs(V) \cup (C \X C) : p \in Pairs(W)
    BY DEF Pairs
  <2>3. \A p \in Pairs(V) : p \notin C \X C
    BY DEF Pairs
  <2> QED
    BY <2>1, <2>2, <2>3
<1>6. Cardinality(Pairs(W)) = Cardinality(Pairs(V)) + Cardinality(C \X C)
  <2> DEFINE P == Pairs(V)
             Q == C \X C
  <2>1. Cardinality(P \cap Q) = 0
    BY <1>5, FS_EmptySet
  <2>2. Cardinality(Q) \in Nat /\ Cardinality(P) \in Nat
    BY <1>3, <1>4, FS_CardinalityType
  <2> HIDE DEF P, Q
  <2>3. Cardinality(P \cup Q) = Cardinality(P) + Cardinality(Q) - Cardinality(P \cap Q)
    BY <1>3, <1>4, FS_Union DEF P, Q
  <2>4. Cardinality(P \cup Q) = Cardinality(P) + Cardinality(Q)
    BY <2>1, <2>2, <2>3
  <2> QED
    BY <1>5, <2>4 DEF P, Q
<1> QED
  BY <1>1, <1>2, <1>3, <1>4, <1>6

\* A minute of c samples more keeps the square of the samples within the product
\* of minutes and pairs.
LEMMA SquareStep ==
  ASSUME NEW k \in Nat, NEW q \in Nat, NEW s \in Nat, NEW c \in Nat, k * q >= s * s
  PROVE  (k + 1) * (q + c * c) >= (s + c) * (s + c)
<1> DEFINE d == (k + 1) * (q + c * c) - (s + c) * (s + c)
<1>1. d = k * q - s * s + k * (c * c) + q - 2 * (s * c)
  BY SMTT(30)
<1>2. CASE k = 0
  <2>1. s * s <= 0
    BY <1>2
  <2>2. s = 0
    BY <2>1
  <2> QED
    BY <1>2, <2>2
<1>3. CASE k > 0
  <2>1. k * d = k * (k * q - s * s) + (k * q - s * s) + (k * c - s) * (k * c - s)
    BY <1>1, SMTT(30)
  <2>2. (k * c - s) * (k * c - s) >= 0
    <3>1. k * c - s \in Int
      OBVIOUS
    <3> HIDE DEF d
    <3>2. \A y \in Int : y * y >= 0
      OBVIOUS
    <3> QED
      BY <3>1, <3>2
  <2>3. k * (k * q - s * s) >= 0
    <3>1. \A y \in Nat : k * y >= 0
      OBVIOUS
    <3>2. k * q - s * s \in Nat
      OBVIOUS
    <3> QED
      BY <3>1, <3>2
  <2>4. d \in Int /\ k * d >= 0
    BY <2>1, <2>2, <2>3
  <2> HIDE DEF d
  <2>5. d >= 0
    BY <1>3, <2>4
  <2> QED
    BY <2>5 DEF d
<1> QED
  BY <1>2, <1>3

\* Samples spread over few minutes make many pairs (Cauchy and Schwarz): a window
\* for which that fails would have a least set of minutes for which it does.
LEMMA PairsAreMany ==
  ASSUME NEW W, IsFiniteSet(W)
  PROVE  /\ IsFiniteSet(Minutes(W)) /\ Cardinality(Minutes(W)) \in Nat
         /\ Cardinality(Minutes(W)) * Cardinality(Pairs(W)) >= Cardinality(W) * Cardinality(W)
<1> DEFINE M == Minutes(W)
           Holds(K) == Cardinality(K) * Cardinality(Pairs(Of(W, K))) >=
                           Cardinality(Of(W, K)) * Cardinality(Of(W, K))
           Bad == {K \in SUBSET M : ~ Holds(K)}
<1>1. IsFiniteSet(M) /\ Cardinality(M) \in Nat
  <2>1. IsFiniteSet(M)
    <3> DEFINE f == [e \in W |-> MinuteOf(e)]
    <3>1. f \in Surjection(W, M)
      BY Fun_IsSurj DEF Minutes
    <3> QED
      BY <3>1, FS_Surjection
  <2> QED
    BY <2>1, FS_CardinalityType
<1>2. Bad = {}
  <2> SUFFICES ASSUME Bad # {} PROVE FALSE
    OBVIOUS
  <2>1. PICK K \in Bad : \A B \in Bad : B \subseteq K => B = K
    <3>1. Bad \in SUBSET (SUBSET M)
      OBVIOUS
    <3> HIDE DEF Bad, M
    <3> QED
      BY <1>1, <3>1, MinimalSubset
  <2>2. IsFiniteSet(K)
    BY <1>1, FS_Subset
  <2>3. CASE K = {}
    <3>1. Of(W, {}) = {} /\ Pairs({}) = {}
      BY DEF Of, Pairs
    <3>2. Cardinality({}) = 0
      BY FS_EmptySet
    <3> QED
      BY <2>3, <3>1, <3>2
  <2>4. ASSUME NEW x \in K PROVE FALSE
    <3> DEFINE L == K \ {x}
    <3>1. L \in SUBSET M /\ L \notin Bad
      <4> HIDE DEF Holds
      <4> QED
        BY <2>1, <2>4
    <3>2. Holds(L)
      <4> HIDE DEF Holds
      <4> QED
        BY <3>1
    <3>3. Cardinality(L) \in Nat /\ Cardinality(K) = Cardinality(L) + 1
      <4>1. IsFiniteSet(L) /\ Cardinality(L) = Cardinality(K) - 1
        BY <2>2, <2>4, FS_RemoveElement
      <4> QED
        BY <2>2, <4>1, FS_CardinalityType
    <3> DEFINE A == Of(W, K)
               V == Of(W, L)
    <3>4. IsFiniteSet(A)
      <4>1. A \in SUBSET W
        BY DEF Of
      <4> QED
        BY <4>1, FS_Subset
    <3>d. V \in SUBSET A /\ \A e \in V : MinuteOf(e) # x
      BY DEF Of
    <3>5. A = V \cup {e \in A : MinuteOf(e) = x}
      BY DEF Of
    <3> DEFINE c == Cardinality({e \in A : MinuteOf(e) = x})
    <3>c. c = Cardinality({e \in A : MinuteOf(e) = x})
      OBVIOUS
    <3> HIDE DEF A, V, L, c
    <3>6. /\ c \in Nat /\ Cardinality(V) \in Nat /\ Cardinality(Pairs(V)) \in Nat
          /\ Cardinality(A) = Cardinality(V) + c
          /\ Cardinality(Pairs(A)) = Cardinality(Pairs(V)) + c * c
      BY <3>4, <3>5, <3>c, <3>d, OneMinuteMore, SMTT(60)
    <3>7. Cardinality(L) * Cardinality(Pairs(V)) >= Cardinality(V) * Cardinality(V)
      BY <3>2 DEF V
    <3>8. Cardinality(K) * Cardinality(Pairs(A)) >= Cardinality(A) * Cardinality(A)
      BY <3>3, <3>6, <3>7, SquareStep
    <3> QED
      BY <2>1, <3>8 DEF A
  <2> QED
    BY <2>3, <2>4
<1>3. Holds(M)
  <2> HIDE DEF Holds
  <2> QED
    BY <1>2
<1>4. Of(W, M) = W
  BY DEF Of, Minutes
<1> QED
  BY <1>1, <1>3, <1>4

\* The arithmetic of a spike: k other minutes with s samples and q pairs, and c
\* samples in its own.
LEMMA SpikeArithmetic ==
  ASSUME NEW k \in Nat, NEW q \in Nat, NEW s \in Nat, NEW c \in Nat, NEW sigma \in Nat,
         k * q >= s * s, k * c - s > 0,
         (k * c - s) * (k * c - s) * k
             > sigma * (k + 1) * ((k + 1) * (q + c * c) - (s + c) * (s + c))
  PROVE  k * k > sigma * (k + 1)
<1>1. PICK v \in Int : v = (k + 1) * (q + c * c) - (s + c) * (s + c)
  OBVIOUS
<1>2. PICK d \in Int : d = k * c - s
  OBVIOUS
<1>3. k * v = k * (k * q - s * s) + (k * q - s * s) + d * d
  BY <1>1, <1>2, SMTT(30)
<1>4. PICK y \in Nat : y = k * q - s * s
  OBVIOUS
<1>5. k * v >= d * d
  <2>1. k * y >= 0
    OBVIOUS
  <2> QED
    BY <1>3, <1>4, <2>1
<1>6. PICK a \in Nat : a = sigma * (k + 1)
  OBVIOUS
<1>7. d > 0 /\ d * d * k > a * v
  BY <1>1, <1>2, <1>6
<1>8. k > 0
  BY <1>2, <1>7
<1>9. (d * d * k) * k > (a * v) * k
  <2>1. PICK b \in Int : b = d * d * k
    OBVIOUS
  <2>2. PICK f \in Int : f = a * v
    OBVIOUS
  <2>3. b * k > f * k
    BY <1>7, <1>8, <2>1, <2>2
  <2> QED
    BY <2>1, <2>2, <2>3
<1>10. a * (k * v) >= a * (d * d)
  <2>1. PICK b \in Int : b = k * v
    OBVIOUS
  <2>2. PICK f \in Int : f = d * d
    OBVIOUS
  <2>3. a * b >= a * f
    BY <1>5, <2>1, <2>2
  <2> QED
    BY <2>1, <2>2, <2>3
<1>11. (d * d) * (k * k) > (d * d) * a
  <2>1. (d * d * k) * k = (d * d) * (k * k) /\ (a * v) * k = a * (k * v) /\ a * (d * d) = (d * d) * a
    BY SMTT(30)
  <2> QED
    BY <1>9, <1>10, <2>1
<1>12. PICK e \in Int : e = d * d /\ e > 0
  BY <1>7
<1>13. PICK g \in Int : g = k * k
  OBVIOUS
<1>14. g > a
  BY <1>11, <1>12, <1>13
<1> QED
  BY <1>6, <1>13, <1>14

\* A spike needs minutes: whatever the samples, one minute above the mean by more
\* than sigma deviations is one of enough minutes.
LEMMA SpikeIsRare ==
  ASSUME NEW w, IsFiniteSet(w), NEW ev, MinuteOf(ev) \in Minutes(w), Spike(w, ev)
  PROVE  (Stats(w).minutes - 1) * (Stats(w).minutes - 1) > SigmaSquared * Stats(w).minutes
<1> DEFINE x == MinuteOf(ev)
           V == {e \in w : MinuteOf(e) # x}
           c == Cardinality({e \in w : MinuteOf(e) = x})
           k == Cardinality(Minutes(V))
           q == Cardinality(Pairs(V))
           s == Cardinality(V)
<1>1. IsFiniteSet(V) /\ V \in SUBSET w /\ (\A e \in V : MinuteOf(e) # x)
      /\ w = V \cup {e \in w : MinuteOf(e) = x}
  BY FS_Subset
<1>2. /\ c \in Nat /\ s \in Nat /\ q \in Nat
      /\ Cardinality(w) = s + c /\ Cardinality(Pairs(w)) = q + c * c
  <2> HIDE DEF V, x, c
  <2> QED
    BY <1>1, OneMinuteMore DEF c, s, q
<1>3. IsFiniteSet(Minutes(V)) /\ k \in Nat /\ k * q >= s * s
  <2> HIDE DEF V
  <2> QED
    BY <1>1, PairsAreMany
<1>4. Minutes(w) = Minutes(V) \cup {x} /\ x \notin Minutes(V)
  BY DEF Minutes
<1>5. Cardinality(Minutes(w)) = k + 1
  <2> HIDE DEF V, x
  <2> QED
    BY <1>3, <1>4, FS_AddElement
<1>6. /\ Stats(w).minutes = k + 1 /\ Stats(w).samples = s + c /\ Stats(w).pairs = q + c * c
  <2> HIDE DEF V, c, k, q, s
  <2> QED
    BY <1>2, <1>5 DEF Stats, Minutes, Pairs
<1>7. Above(c, Stats(w))
  BY DEF Spike
<1> HIDE DEF V, c, k, q, s
<1>8. /\ (k + 1) * c - (s + c) > 0
      /\ ((k + 1) * c - (s + c)) * ((k + 1) * c - (s + c)) * ((k + 1) - 1)
             > SigmaSquared * (k + 1) * ((k + 1) * (q + c * c) - (s + c) * (s + c))
  BY <1>6, <1>7 DEF Above
<1>9. (k + 1) * c - (s + c) = k * c - s /\ (k + 1) - 1 = k
  BY <1>2, <1>3
<1>10. k * k > SigmaSquared * (k + 1)
  <2>1. SigmaSquared \in Nat
    BY WindowAssumption
  <2>2. /\ k * c - s > 0
        /\ (k * c - s) * (k * c - s) * k
             > SigmaSquared * (k + 1) * ((k + 1) * (q + c * c) - (s + c) * (s + c))
    BY <1>8, <1>9
  <2> QED
    BY <1>2, <1>3, <2>1, <2>2, SpikeArithmetic
<1> QED
  BY <1>3, <1>6, <1>9, <1>10

-----------------------------------------------------------------------------
(* Types.  An event is looked at only for patterns it is concerned by, and   *)
(* windows are finite: with these the types are inductive.                   *)

Work == [ev : Event, left : Left, hit : BOOLEAN]

EventInv ==
    \A g \in Inspectors : work[g] # Idle =>
        /\ Key(work[g].ev) \in Keys
        /\ \A i \in work[g].left : Applies(Stages[i], work[g].ev)

WindowsFinite == \A k \in Keys : IsFiniteSet(windows[k])

TypeInv == TypeOK /\ EventInv /\ WindowsFinite

LEMMA StageNames ==
  /\ DOMAIN Stages = 1..6
  /\ \A i \in 1..6 : Stages[i] \in {"baseline", "user", "block", "cross", "honey", "hours"}
  /\ \A i, j \in 1..6 : Stages[i] = Stages[j] => i = j
  /\ Stages[1] = "baseline"
<1>1. /\ Stages[1] = "baseline" /\ Stages[2] = "user" /\ Stages[3] = "block"
      /\ Stages[4] = "cross" /\ Stages[5] = "honey" /\ Stages[6] = "hours"
      /\ DOMAIN Stages = 1..6
  BY DEF Stages
<1>2. 1..6 = {1, 2, 3, 4, 5, 6}
  OBVIOUS
<1> HIDE DEF Stages
<1> QED
  BY <1>1, <1>2

LEMMA FirstLeft ==
  ASSUME NEW left \in Left
  PROVE  First(left) \in left /\ First(left) \in 1..6 /\ left \subseteq 1..6
<1>1. left \in SUBSET (1..6) /\ left # {}
  <2>1. DOMAIN Stages = 1..6
    BY StageNames
  <2> HIDE DEF Stages
  <2> QED
    BY <2>1 DEF Left
<1>2. left \in SUBSET Nat
  BY <1>1
<1>3. \E i \in left : \A j \in left : i <= j
  BY <1>1, <1>2, LeastNumber
<1> QED
  BY <1>1, <1>3 DEF First

LEMMA IdleShape == Idle \notin Work /\ Idle.left = {} /\ Idle.hit = FALSE
<1>1. Idle.left = {} /\ Idle.hit = FALSE
  BY DEF Idle
<1>2. \A w \in Work : w.left \in Left
  BY DEF Work
<1>3. {} \notin Left
  BY DEF Left
<1> QED
  BY <1>1, <1>2, <1>3

\* Further(g, p): goroutine g got on with pattern p, and no other moved.
Further(g, p) ==
    /\ work' \in [Inspectors -> Work \cup {Idle}]
    /\ work[g] \in Work
    /\ \A h \in Inspectors : h # g => work'[h] = work[h]
    /\ work'[g] # Idle =>
          /\ work'[g].ev = work[g].ev /\ work'[g].left \subseteq work[g].left
          /\ \A i \in work'[g].left :
                ~ (work'[g].hit /\ i = First(work'[g].left)) =>
                    Stages[i] # p /\ ~ (work[g].hit /\ i = First(work[g].left))

\* On to the next pattern, or to the end.
LEMMA RestMoves ==
  ASSUME TypeOK, NEW g \in Inspectors, work[g] \in Work, work' = [work EXCEPT ![g] = Rest(work[g])]
  PROVE  Further(g, Pattern(work[g].left)) /\ ~ work'[g].hit
<1> DEFINE w == work[g]
           v == Rest(w)
           left == w.left \ {First(w.left)}
<1>1. /\ w.ev \in Event /\ w.left \in Left /\ w.hit \in BOOLEAN
      /\ w = [ev |-> w.ev, left |-> w.left, hit |-> w.hit]
  BY DEF Work
<1>2. First(w.left) \in w.left /\ w.left \subseteq 1..6 /\ First(w.left) \in 1..6
  BY <1>1, FirstLeft
<1>3. /\ v \in Work \cup {Idle} /\ ~ v.hit
      /\ v # Idle => v.ev = w.ev /\ v.left = left
  <2>1. CASE left = {}
    <3>1. v = Idle
      BY <2>1 DEF Rest
    <3> HIDE DEF v
    <3> QED
      BY <3>1, IdleShape
  <2>2. CASE left # {}
    <3>1. v = [ev |-> w.ev, left |-> left, hit |-> FALSE]
      BY <1>1, <2>2 DEF Rest
    <3>2. left \in Left
      BY <1>1, <2>2 DEF Left
    <3> HIDE DEF v, left, w
    <3> QED
      BY <1>1, <3>1, <3>2 DEF Work
  <2> QED
    BY <2>1, <2>2
<1>4. work \in [Inspectors -> Work \cup {Idle}]
  BY DEF TypeOK, Work
<1>5. work' = [work EXCEPT ![g] = v]
  OBVIOUS
<1> HIDE DEF v
<1>6. /\ work' \in [Inspectors -> Work \cup {Idle}]
      /\ work'[g] = v /\ \A h \in Inspectors : h # g => work'[h] = work[h]
  BY <1>3, <1>4, <1>5
<1>7. \A i \in left : Stages[i] # Pattern(w.left)
  BY <1>2, StageNames DEF Pattern
<1> QED
  BY <1>2, <1>3, <1>6, <1>7 DEF Further

LEMMA VerdictMoves ==
  ASSUME TypeOK, NEW g \in Inspectors, NEW hit \in BOOLEAN, NEW p, At(g, p), Verdict(g, hit)
  PROVE  Further(g, p) /\ work'[g].hit = hit /\ Pattern(work[g].left) = p /\ (hit => work'[g].left = work[g].left)
<1>1. work \in [Inspectors -> Work \cup {Idle}]
  BY DEF TypeOK, Work
<1>2. work[g] \in Work /\ Pattern(work[g].left) = p /\ ~ work[g].hit
  BY <1>1, IdleShape DEF At
<1>3. CASE ~ hit
  <2>1. work' = [work EXCEPT ![g] = Rest(work[g])]
    BY <1>3 DEF Verdict
  <2>2. Further(g, p) /\ ~ work'[g].hit
    BY <1>2, <2>1, RestMoves
  <2>3. work'[g].hit = FALSE
    <3>1. work'[g] \in Work \cup {Idle}
      BY <2>2 DEF Further
    <3>2. work'[g].hit \in BOOLEAN
      BY <3>1, IdleShape DEF Work
    <3> QED
      BY <2>2, <3>2
  <2> QED
    BY <1>2, <1>3, <2>2, <2>3
<1>4. CASE hit
  <2> DEFINE w == work[g]
  <2>1. /\ w.ev \in Event /\ w.left \in Left
        /\ w = [ev |-> w.ev, left |-> w.left, hit |-> w.hit]
    BY <1>2 DEF Work
  <2>2. PICK v \in Work : v = [w EXCEPT !.hit = TRUE] /\ v.ev = w.ev /\ v.left = w.left /\ v.hit = TRUE
    <3>1. w \in Work
      BY <1>2
    <3> HIDE DEF w
    <3>2. [w EXCEPT !.hit = TRUE] \in Work
      BY <3>1 DEF Work
    <3>3. [w EXCEPT !.hit = TRUE].ev = w.ev
      BY <3>1 DEF Work
    <3>4. [w EXCEPT !.hit = TRUE].left = w.left
      BY <3>1 DEF Work
    <3>5. [w EXCEPT !.hit = TRUE].hit = TRUE
      BY <3>1 DEF Work
    <3> QED
      BY <3>2, <3>3, <3>4, <3>5
  <2>3. work' = [work EXCEPT ![g] = v]
    BY <1>4, <2>2 DEF Verdict
  <2>4. /\ work' \in [Inspectors -> Work \cup {Idle}]
        /\ work'[g] = v /\ \A h \in Inspectors : h # g => work'[h] = work[h]
    BY <1>1, <2>3
  <2>5. v.ev = w.ev /\ v.left = w.left /\ v.hit = TRUE
    BY <2>2
  <2>6. \A i \in w.left : i # First(w.left) => Stages[i] # p
    <3>1. First(w.left) \in w.left /\ w.left \subseteq 1..6 /\ First(w.left) \in 1..6
      BY <2>1, FirstLeft
    <3> QED
      BY <1>2, <3>1, StageNames DEF Pattern
  <2> QED
    BY <1>2, <1>4, <2>4, <2>5, <2>6 DEF Further
<1> QED
  BY <1>3, <1>4

\* Whatever was asked of an event is asked of it still.
LEMMA EventsKept ==
  ASSUME EventInv, NEW g \in Inspectors, NEW p, Further(g, p)
  PROVE  EventInv'
<1>1. work[g] # Idle
  BY IdleShape DEF Further
<1> SUFFICES ASSUME NEW h \in Inspectors, work'[h] # Idle
             PROVE  /\ Key(work'[h].ev) \in Keys
                    /\ \A i \in work'[h].left : Applies(Stages[i], work'[h].ev)
  BY DEF EventInv, Applies, Key
<1>2. CASE h = g
  BY <1>1, <1>2 DEF EventInv, Further
<1>3. CASE h # g
  BY <1>3 DEF EventInv, Further
<1> QED
  BY <1>2, <1>3

\* What a goroutine is about to look for concerns its event.
LEMMA Concerned ==
  ASSUME TypeOK, EventInv, NEW g \in Inspectors, NEW p, At(g, p)
  PROVE  work[g].ev \in Event /\ Key(work[g].ev) \in Keys /\ Applies(p, work[g].ev)
<1>1. work[g] \in Work
  BY IdleShape DEF At, TypeOK, Work
<1>2. First(work[g].left) \in work[g].left
  BY <1>1, FirstLeft DEF Work
<1> QED
  BY <1>1, <1>2, IdleShape DEF EventInv, At, Pattern, Work

\* An event that is added to a window.
LEMMA AddedTyped ==
  ASSUME NEW old \in SUBSET Entry, NEW ev \in Event, NEW size
  PROVE  /\ Added(old, ev, size) \in SUBSET Entry
         /\ IsFiniteSet(old) => IsFiniteSet(Added(old, ev, size))
<1>1. [at |-> ev.at, n |-> ev.n] \in Entry
  BY DEF Event, Entry
<1>2. Within(old, ev.at, size) \in SUBSET old
  BY DEF Within
<1> QED
  BY <1>1, <1>2, FS_Subset, FS_AddElement DEF Added

LEMMA StatsTyped ==
  ASSUME NEW w, IsFiniteSet(w)
  PROVE  Stats(w) \in [samples : Nat, minutes : Nat, pairs : Nat]
<1>1. Cardinality(w) \in Nat /\ Cardinality(Minutes(w)) \in Nat
  BY PairsAreMany, FS_CardinalityType
<1>2. Pairs(w) \in SUBSET (w \X w) /\ IsFiniteSet(w \X w)
  BY FS_Product DEF Pairs
<1>3. Cardinality(Pairs(w)) \in Nat
  BY <1>2, FS_Subset, FS_CardinalityType
<1> QED
  BY <1>1, <1>3 DEF Stats, Minutes, Pairs

LEMMA TypeInit == Init => TypeInv
<1> SUFFICES ASSUME Init PROVE TypeInv
  OBVIOUS
<1>1. TypeOK
  BY WindowAssumption DEF Init, TypeOK, Never
<1>2. WindowsFinite
  BY FS_EmptySet DEF Init, WindowsFinite
<1> QED
  BY <1>1, <1>2 DEF Init, TypeInv, EventInv

\* An event is taken up.
LEMMA BeginTyped ==
  ASSUME TypeInv, NEW g \in Inspectors, NEW t \in Template, <<t.module, t.type>> \in Keys,
         NEW at \in Time, Begin(g, t, at)
  PROVE  /\ work' \in [Inspectors -> Work \cup {Idle}]
         /\ \A h \in Inspectors : h # g => work'[h] = work[h]
         /\ work[g] = Idle /\ work'[g] \in Work
         /\ work'[g].ev.n = inspected + 1 /\ ~ work'[g].hit
         /\ inspected' = inspected + 1 /\ inspected' \in 0..MaxInspected
         /\ EventInv'
<1> DEFINE ev == [of |-> t, at |-> at, n |-> inspected + 1]
           left == {i \in DOMAIN Stages : Applies(Stages[i], ev)}
           w == [ev |-> ev, hit |-> FALSE, left |-> left]
<1>0. inspected \in Nat /\ MaxInspected \in Nat
  BY WindowAssumption DEF TypeInv, TypeOK
<1>1. ev \in Event /\ Key(ev) \in Keys /\ ev.n = inspected + 1
  BY <1>0 DEF Event, Key
<1>2. left \in Left /\ \A i \in left : Applies(Stages[i], ev)
  <2>1. 1 \in left
    BY StageNames DEF Applies
  <2>2. left \in SUBSET DOMAIN Stages
    OBVIOUS
  <2>3. \A i \in left : Applies(Stages[i], ev)
    OBVIOUS
  <2> HIDE DEF left
  <2> QED
    BY <2>1, <2>2, <2>3 DEF Left
<1>3. work' = [work EXCEPT ![g] = w] /\ work[g] = Idle /\ inspected' = inspected + 1 /\ inspected < MaxInspected
  BY DEF Begin
<1> HIDE DEF ev, left
<1>4. w \in Work /\ w.ev = ev /\ w.left = left /\ w.hit = FALSE
  BY <1>1, <1>2 DEF Work
<1> HIDE DEF w
<1>5. work \in [Inspectors -> Work \cup {Idle}]
  BY DEF TypeInv, TypeOK, Work
<1>6. /\ work' \in [Inspectors -> Work \cup {Idle}] /\ work'[g] = w
      /\ \A h \in Inspectors : h # g => work'[h] = work[h]
  BY <1>3, <1>4, <1>5
<1>7. EventInv'
  <2> SUFFICES ASSUME NEW h \in Inspectors, work'[h] # Idle
               PROVE  /\ Key(work'[h].ev) \in Keys
                      /\ \A i \in work'[h].left : Applies(Stages[i], work'[h].ev)
    BY DEF EventInv, Applies, Key
  <2>1. CASE h = g
    BY <1>1, <1>2, <1>4, <1>6, <2>1
  <2>2. CASE h # g
    BY <1>6, <2>2 DEF TypeInv, EventInv
  <2> QED
    BY <2>1, <2>2
<1> QED
  BY <1>0, <1>1, <1>3, <1>4, <1>6, <1>7

\* Events of the detector's own and of modules.
LEMMA OwnEventTyped ==
  ASSUME NEW r \in Report
  PROVE  OwnEvent(r) \in Template /\ <<OwnEvent(r).module, OwnEvent(r).type>> \in Keys
<1>1. r.ev.of \in Template
  BY DEF Report, Event
<1>2. PICK o \in Template : o = OwnEvent(r) /\ o.module = "tracker" /\ o.type = "anomaly"
  <2> DEFINE t == r.ev.of
  <2>1. t \in Template
    BY <1>1
  <2> HIDE DEF t
  <2>2. [t EXCEPT !.module = "tracker", !.type = "anomaly", !.blocked = FALSE] \in Template
    BY <2>1 DEF Template, Types
  <2>3. /\ [t EXCEPT !.module = "tracker", !.type = "anomaly", !.blocked = FALSE].module = "tracker"
        /\ [t EXCEPT !.module = "tracker", !.type = "anomaly", !.blocked = FALSE].type = "anomaly"
    BY <2>1 DEF Template
  <2> QED
    BY <2>2, <2>3 DEF OwnEvent, t
<1> QED
  BY <1>2 DEF Keys

LEMMA TemplateTyped ==
  ASSUME NEW t \in Templates
  PROVE  t \in Template /\ <<t.module, t.type>> \in Keys
<1>1. t \in [module : {t.module}, type : {"request", "honey", "cross_tenant", "anomaly"},
             blocked : BOOLEAN, user : Users \cup {NoUser}, trace : Traces \cup {NoTrace}]
  BY TemplatesAssumption
<1>2. t.module \in {s.module : s \in Templates} \cup {"tracker"}
  OBVIOUS
<1> QED
  BY <1>1, <1>2 DEF Template, Types, Keys

LEMMA ReceiveTyped ==
  ASSUME TypeInv, NEW g \in Inspectors, NEW t \in Templates, NEW at \in Time, Receive(g, t, at)
  PROVE  TypeInv'
<1>1. Begin(g, t, at) /\ t \in Template /\ <<t.module, t.type>> \in Keys
  BY TemplateTyped DEF Receive
<1>2. work' \in [Inspectors -> Work \cup {Idle}] /\ inspected' \in 0..MaxInspected /\ EventInv'
  BY <1>1, BeginTyped
<1>3. UNCHANGED <<fed, spawned, baseVars, users, blocks, honeyVars, reportVars, logVars>>
  BY DEF Receive, Begin
<1>4. TypeOK'
  BY <1>2, <1>3 DEF TypeInv, TypeOK, Work, baseVars, honeyVars, reportVars, logVars
<1>5. WindowsFinite'
  BY <1>3 DEF TypeInv, WindowsFinite, baseVars
<1> QED
  BY <1>2, <1>4, <1>5 DEF TypeInv

LEMMA TakeOwnTyped ==
  ASSUME TypeInv, NEW g \in Inspectors, NEW r \in spawned, NEW at \in Time, TakeOwn(g, r, at)
  PROVE  TypeInv'
<1>1. r \in Report
  BY DEF TypeInv, TypeOK
<1>2. Begin(g, OwnEvent(r), at) /\ OwnEvent(r) \in Template
      /\ <<OwnEvent(r).module, OwnEvent(r).type>> \in Keys
  BY <1>1, OwnEventTyped DEF TakeOwn
<1>3. work' \in [Inspectors -> Work \cup {Idle}] /\ inspected' \in 0..MaxInspected /\ EventInv'
  <2> DEFINE t == OwnEvent(r)
  <2>1. Begin(g, t, at) /\ t \in Template /\ <<t.module, t.type>> \in Keys
    BY <1>2
  <2> HIDE DEF t
  <2> QED
    BY <2>1, BeginTyped
<1>4. UNCHANGED <<baseVars, users, blocks, honeyVars, reportVars, logVars>>
  BY DEF TakeOwn, Begin
<1>5. fed' \in 0..MaxFed /\ spawned' \in SUBSET Report
  BY WindowAssumption, SMTT(60) DEF TakeOwn, TypeInv, TypeOK
<1>6. TypeOK'
  BY <1>3, <1>4, <1>5 DEF TypeInv, TypeOK, Work, baseVars, honeyVars, reportVars, logVars
<1>7. WindowsFinite'
  BY <1>4 DEF TypeInv, WindowsFinite, baseVars
<1> QED
  BY <1>3, <1>6, <1>7 DEF TypeInv

LEMMA SpikeBoolean ==
  ASSUME NEW w, NEW ev
  PROVE  Spike(w, ev) \in BOOLEAN
BY DEF Spike, Above

LEMMA BaselineTyped ==
  ASSUME TypeInv, NEW g \in Inspectors, RecordBaseline(g)
  PROVE  TypeInv'
<1> DEFINE ev == work[g].ev
           w == Added(windows[Key(ev)], ev, BaselineWindow)
<1>1. At(g, "baseline") /\ Verdict(g, Spike(w, ev))
  BY DEF RecordBaseline
<1>2. Further(g, "baseline")
  BY <1>1, SpikeBoolean, VerdictMoves DEF TypeInv
<1>3. EventInv' /\ work' \in [Inspectors -> Work \cup {Idle}]
  BY <1>2, EventsKept DEF TypeInv, Further
<1>4. ev \in Event /\ Key(ev) \in Keys
  BY <1>1, Concerned DEF TypeInv
<1>5. w \in SUBSET Entry /\ IsFiniteSet(w)
  <2> DEFINE old == windows[Key(ev)]
  <2>1. old \in SUBSET Entry /\ IsFiniteSet(old)
    BY <1>4 DEF TypeInv, TypeOK, WindowsFinite
  <2> HIDE DEF old, ev
  <2> QED
    BY <1>4, <2>1, AddedTyped DEF old
<1>6. Stats(w) \in [samples : Nat, minutes : Nat, pairs : Nat]
  <2> HIDE DEF w
  <2> QED
    BY <1>5, StatsTyped
<1>7. /\ windows' = [windows EXCEPT ![Key(ev)] = w]
      /\ baselines' = [baselines EXCEPT ![Key(ev)] =
                          IF Cardinality(w) >= MinSamples THEN Stats(w) ELSE @]
      /\ UNCHANGED <<flowVars, users, blocks, honeyVars, reportVars, logVars>>
  BY DEF RecordBaseline
<1> HIDE DEF w, ev
<1>8. /\ windows' \in [Keys -> SUBSET Entry]
      /\ baselines' \in [Keys -> [samples : Nat, minutes : Nat, pairs : Nat]]
      /\ WindowsFinite'
  BY <1>4, <1>5, <1>6, <1>7 DEF TypeInv, TypeOK, WindowsFinite
<1>9. TypeOK'
  BY <1>3, <1>7, <1>8 DEF TypeInv, TypeOK, Work, flowVars, honeyVars, reportVars, logVars
<1> QED
  BY <1>3, <1>8, <1>9 DEF TypeInv

\* An event that is looked at for a pattern of its user has one.
LEMMA OfUser ==
  ASSUME NEW ev \in Event, NEW p \in {"user", "block"}, Applies(p, ev)
  PROVE  ev.of.user \in Users /\ (p = "user" => UserLimit > 0)
BY DEF Applies, Event, Template

LEMMA UserTyped ==
  ASSUME TypeInv, NEW g \in Inspectors, RecordUser(g)
  PROVE  TypeInv'
<1> DEFINE ev == work[g].ev
           u == ev.of.user
           w == Added(users[u], ev, UserWindow)
           hit == Cardinality(w) = UserLimit
<1>1. At(g, "user") /\ Verdict(g, hit) /\ hit \in BOOLEAN
  BY DEF RecordUser
<1>2. Further(g, "user")
  <2> HIDE DEF hit
  <2> QED
    BY <1>1, VerdictMoves DEF TypeInv
<1>3. EventInv' /\ work' \in [Inspectors -> Work \cup {Idle}]
  BY <1>2, EventsKept DEF TypeInv, Further
<1>4. ev \in Event /\ u \in Users
  BY <1>1, Concerned, OfUser DEF TypeInv
<1>5. w \in SUBSET Entry
  <2>1. users[u] \in SUBSET Entry
    BY <1>4 DEF TypeInv, TypeOK
  <2> HIDE DEF ev, u
  <2> QED
    BY <1>4, <2>1, AddedTyped
<1>6. [at |-> ev.at, n |-> ev.n] \in Entry
  BY <1>4, SMTT(60) DEF Event, Entry
<1>7. /\ users' = [users EXCEPT ![u] = w]
      /\ userLog' = [userLog EXCEPT ![u] = Append(@, [at |-> ev.at, n |-> ev.n])]
      /\ UNCHANGED <<flowVars, baseVars, blocks, honeyVars, reportVars, blockLog, honeyLog>>
  BY DEF RecordUser
<1> HIDE DEF w, ev, u
<1>8. users' \in [Users -> SUBSET Entry] /\ userLog' \in [Users -> Seq(Entry)]
  BY <1>4, <1>5, <1>6, <1>7 DEF TypeInv, TypeOK
<1>9. TypeOK'
  BY <1>3, <1>7, <1>8, SMTT(60) DEF TypeInv, TypeOK, Work, flowVars, baseVars, honeyVars, reportVars, logVars
<1>10. WindowsFinite'
  BY <1>7 DEF TypeInv, WindowsFinite, baseVars
<1> QED
  BY <1>3, <1>9, <1>10, SMTT(60) DEF TypeInv

LEMMA BlockTyped ==
  ASSUME TypeInv, NEW g \in Inspectors, RecordBlock(g)
  PROVE  TypeInv'
<1> DEFINE ev == work[g].ev
           u == ev.of.user
           w == Added(blocks[u], ev, BlockWindow)
           hit == Cardinality(w) >= BlockCount
<1>1. At(g, "block") /\ Verdict(g, hit) /\ hit \in BOOLEAN
  BY DEF RecordBlock
<1>2. Further(g, "block")
  <2> HIDE DEF hit
  <2> QED
    BY <1>1, VerdictMoves DEF TypeInv
<1>3. EventInv' /\ work' \in [Inspectors -> Work \cup {Idle}]
  BY <1>2, EventsKept DEF TypeInv, Further
<1>4. ev \in Event /\ u \in Users
  BY <1>1, Concerned, OfUser DEF TypeInv
<1>5. w \in SUBSET Entry
  <2>1. blocks[u] \in SUBSET Entry
    BY <1>4 DEF TypeInv, TypeOK
  <2> HIDE DEF ev, u
  <2> QED
    BY <1>4, <2>1, AddedTyped
<1>6. [at |-> ev.at, n |-> ev.n] \in Entry
  BY <1>4 DEF Event, Entry
<1>7. /\ blocks' = [blocks EXCEPT ![u] = w]
      /\ blockLog' = [blockLog EXCEPT ![u] = Append(@, [at |-> ev.at, n |-> ev.n])]
      /\ UNCHANGED <<flowVars, baseVars, users, honeyVars, reportVars, userLog, honeyLog>>
  BY DEF RecordBlock
<1> HIDE DEF w, ev, u
<1>8. blocks' \in [Users -> SUBSET Entry] /\ blockLog' \in [Users -> Seq(Entry)]
  BY <1>4, <1>5, <1>6, <1>7 DEF TypeInv, TypeOK
<1>9. TypeOK'
  BY <1>3, <1>7, <1>8 DEF TypeInv, TypeOK, Work, flowVars, baseVars, honeyVars, reportVars, logVars
<1>10. WindowsFinite'
  BY <1>7 DEF TypeInv, WindowsFinite, baseVars
<1> QED
  BY <1>3, <1>9, <1>10 DEF TypeInv

LEMMA HoneyTyped ==
  ASSUME TypeInv, NEW g \in Inspectors, RecordHoney(g)
  PROVE  TypeInv'
<1> DEFINE ev == work[g].ev
           hit == Cardinality(layers'[ev.of.trace]) >= 2
<1>1. At(g, "honey") /\ Verdict(g, hit) /\ hit \in BOOLEAN
  BY DEF RecordHoney
<1>2. Further(g, "honey")
  <2> HIDE DEF hit
  <2> QED
    BY <1>1, VerdictMoves DEF TypeInv
<1>3. EventInv' /\ work' \in [Inspectors -> Work \cup {Idle}]
  BY <1>2, EventsKept DEF TypeInv, Further
<1>4. ev \in Event
  BY <1>1, Concerned DEF TypeInv
<1>5. ev.of.module \in Modules \cup {"tracker"} /\ ev.at \in Time
  BY <1>4 DEF Event, Template, Modules
<1>6. /\ layers' = [t \in Traces |->
            (IF t \in Forgotten(ev.at) THEN {} ELSE layers[t])
                \cup IF t = ev.of.trace THEN {ev.of.module} ELSE {}]
      /\ times' = [t \in Traces |->
            IF t = ev.of.trace THEN ev.at ELSE IF t \in Forgotten(ev.at) THEN Never ELSE times[t]]
      /\ honeyLog' = Append(honeyLog, ev)
      /\ UNCHANGED <<flowVars, baseVars, users, blocks, reportVars, userLog, blockLog>>
  BY DEF RecordHoney
<1> HIDE DEF ev
<1>7. /\ layers' \in [Traces -> SUBSET (Modules \cup {"tracker"})]
      /\ times' \in [Traces -> Time \cup {Never}]
      /\ honeyLog' \in Seq(Event)
  BY <1>4, <1>5, <1>6 DEF TypeInv, TypeOK
<1>8. TypeOK'
  BY <1>3, <1>6, <1>7 DEF TypeInv, TypeOK, Work, flowVars, baseVars, reportVars, logVars
<1>9. WindowsFinite'
  BY <1>6 DEF TypeInv, WindowsFinite, baseVars
<1> QED
  BY <1>3, <1>8, <1>9 DEF TypeInv

LEMMA FireTyped ==
  ASSUME TypeInv, NEW g \in Inspectors, Fire(g)
  PROVE  /\ TypeInv'
         /\ work[g] \in Work /\ Further(g, Pattern(work[g].left)) /\ ~ work'[g].hit
<1> DEFINE r == [ev |-> work[g].ev, pattern |-> Pattern(work[g].left)]
<1>1. work[g] \in Work
  BY IdleShape DEF Fire, At, TypeInv, TypeOK, Work
<1>2. Further(g, Pattern(work[g].left)) /\ ~ work'[g].hit
  <2>1. work' = [work EXCEPT ![g] = Rest(work[g])]
    BY DEF Fire
  <2> QED
    BY <1>1, <2>1, RestMoves DEF TypeInv
<1>3. EventInv' /\ work' \in [Inspectors -> Work \cup {Idle}]
  BY <1>2, EventsKept DEF TypeInv, Further
<1>4. r \in Report
  <2>1. work[g].ev \in Event /\ First(work[g].left) \in DOMAIN Stages
    BY <1>1, FirstLeft, StageNames DEF Work
  <2> QED
    BY <2>1 DEF Report, Pattern
<1>5. /\ detected' = Append(IF Len(detected) >= Capacity THEN Tail(detected) ELSE detected, r)
      /\ reported' = reported \cup {r}
      /\ spawned' = spawned \cup {r}
      /\ UNCHANGED <<inspected, fed, baseVars, users, blocks, honeyVars, logVars>>
  BY DEF Fire
<1> HIDE DEF r
<1>6. detected' \in Seq(Report) /\ Len(detected') <= Capacity
  <2>1. detected \in Seq(Report) /\ Len(detected) <= Capacity /\ Capacity \in Nat \ {0}
    BY WindowAssumption DEF TypeInv, TypeOK
  <2>2. CASE Len(detected) >= Capacity
    BY <1>4, <1>5, <2>1, <2>2
  <2>3. CASE ~ (Len(detected) >= Capacity)
    BY <1>4, <1>5, <2>1, <2>3
  <2> QED
    BY <2>2, <2>3
<1>7. TypeOK'
  BY <1>3, <1>4, <1>5, <1>6 DEF TypeInv, TypeOK, Work, baseVars, honeyVars, logVars
<1>8. WindowsFinite'
  BY <1>5 DEF TypeInv, WindowsFinite, baseVars
<1> QED
  BY <1>1, <1>2, <1>3, <1>7, <1>8 DEF TypeInv

LEMMA StutterTyped == TypeInv /\ UNCHANGED vars => TypeInv'
<1> SUFFICES ASSUME TypeInv, UNCHANGED vars PROVE TypeInv'
  OBVIOUS
<1>1. TypeOK' /\ WindowsFinite'
  BY DEF TypeInv, TypeOK, WindowsFinite, vars, flowVars, baseVars, honeyVars, reportVars, logVars
<1>2. EventInv'
  BY DEF TypeInv, EventInv, Applies, Key, vars
<1> QED
  BY <1>1, <1>2 DEF TypeInv

LEMMA TypeStep == TypeInv /\ [Next]_vars => TypeInv'
<1> SUFFICES ASSUME TypeInv, [Next]_vars PROVE TypeInv'
  OBVIOUS
<1>1. ASSUME NEW g \in Inspectors, NEW t \in Templates, NEW at \in Time, Receive(g, t, at) PROVE TypeInv'
  BY <1>1, ReceiveTyped
<1>2. ASSUME NEW g \in Inspectors, NEW r \in spawned, NEW at \in Time, TakeOwn(g, r, at) PROVE TypeInv'
  BY <1>2, TakeOwnTyped
<1>3. ASSUME NEW g \in Inspectors, Inspect(g) PROVE TypeInv'
  BY <1>3, BaselineTyped, UserTyped, BlockTyped, HoneyTyped, FireTyped DEF Inspect
<1>4. CASE UNCHANGED vars
  BY <1>4, StutterTyped
<1> QED
  BY <1>1, <1>2, <1>3, <1>4 DEF Next

\* Every state of the detector is of its type: a window never holds more than was
\* added to it, the reports kept never exceed the capacity, and an event is only
\* looked at for patterns it is concerned by.
THEOREM TypeCorrect == Spec => []TypeOK
<1>1. Spec => []TypeInv
  BY TypeInit, TypeStep, PTL DEF Spec
<1>2. TypeInv => TypeOK
  BY DEF TypeInv
<1> QED
  BY <1>1, <1>2, PTL

-----------------------------------------------------------------------------
(* Steps of the pipeline, by the goroutine that takes them *)

\* A goroutine that takes up an event or records one, or reports it: the others
\* stay where they are.
LEMMA InspectMoves ==
  ASSUME TypeInv, NEW g \in Inspectors, NEW p, Further(g, p), NEW h \in Inspectors, h # g
  PROVE  work'[h] = work[h]
BY DEF Further

\* The goroutine that records an event in the baseline.
LEMMA SpikeRecorded ==
  ASSUME TypeInv, NEW g \in Inspectors, RecordBaseline(g)
  PROVE  /\ Further(g, "baseline")
         /\ work'[g].hit =>
              (baselines'[Key(work[g].ev)].minutes - 1) * (baselines'[Key(work[g].ev)].minutes - 1)
                  > SigmaSquared * baselines'[Key(work[g].ev)].minutes
<1> DEFINE ev == work[g].ev
           w == Added(windows[Key(ev)], ev, BaselineWindow)
<1>1. At(g, "baseline") /\ Verdict(g, Spike(w, ev))
  BY DEF RecordBaseline
<1>2. Further(g, "baseline") /\ work'[g].hit = Spike(w, ev)
  BY <1>1, SpikeBoolean, VerdictMoves DEF TypeInv
<1>3. ev \in Event /\ Key(ev) \in Keys
  BY <1>1, Concerned DEF TypeInv
<1>4. IsFiniteSet(w)
  <2> DEFINE old == windows[Key(ev)]
  <2>1. old \in SUBSET Entry /\ IsFiniteSet(old)
    BY <1>3 DEF TypeInv, TypeOK, WindowsFinite
  <2> HIDE DEF old, ev
  <2> QED
    BY <1>3, <2>1, AddedTyped DEF old
<1>5. MinuteOf(ev) \in Minutes(w)
  <2>1. [at |-> ev.at, n |-> ev.n] \in w
    BY DEF Added
  <2>2. MinuteOf([at |-> ev.at, n |-> ev.n]) = MinuteOf(ev)
    BY DEF MinuteOf
  <2> HIDE DEF w, ev
  <2> QED
    BY <2>1, <2>2 DEF Minutes
<1>6. baselines' = [baselines EXCEPT ![Key(ev)] = IF Cardinality(w) >= MinSamples THEN Stats(w) ELSE @]
  BY DEF RecordBaseline
<1>7. ASSUME Spike(w, ev)
      PROVE  /\ baselines'[Key(ev)] = Stats(w)
             /\ (Stats(w).minutes - 1) * (Stats(w).minutes - 1) > SigmaSquared * Stats(w).minutes
  <2> HIDE DEF w, ev
  <2>1. Cardinality(w) >= MinSamples
    BY <1>7 DEF Spike
  <2>2. baselines'[Key(ev)] = Stats(w)
    BY <1>3, <1>6, <2>1 DEF TypeInv, TypeOK
  <2> QED
    BY <1>4, <1>5, <1>7, <2>2, SpikeIsRare
<1> HIDE DEF w
<1> QED
  BY <1>2, <1>7

LEMMA SpikeStep ==
  TypeInv /\ [Next]_vars =>
    [\A g \in Inspectors :
        At(g, "baseline") /\ work'[g].hit =>
            LET st == baselines'[Key(work[g].ev)]
            IN  (st.minutes - 1) * (st.minutes - 1) > SigmaSquared * st.minutes]_vars
<1> SUFFICES ASSUME TypeInv, [Next]_vars, ~ UNCHANGED vars,
                    NEW h \in Inspectors, At(h, "baseline"), work'[h].hit
             PROVE  (baselines'[Key(work[h].ev)].minutes - 1) * (baselines'[Key(work[h].ev)].minutes - 1)
                        > SigmaSquared * baselines'[Key(work[h].ev)].minutes
  OBVIOUS
<1>1. work[h].left # {} /\ Pattern(work[h].left) = "baseline" /\ ~ work[h].hit
  BY DEF At
<1>2. ASSUME NEW g \in Inspectors, NEW p, Further(g, p), g # h PROVE FALSE
  BY <1>1, <1>2, InspectMoves
<1>3. ASSUME NEW g \in Inspectors, NEW t \in Template, <<t.module, t.type>> \in Keys,
             NEW at \in Time, Begin(g, t, at)
      PROVE  FALSE
  <2>1. work[g] = Idle /\ \A i \in Inspectors : i # g => work'[i] = work[i]
    BY <1>3, BeginTyped
  <2> QED
    BY <1>1, <2>1, IdleShape
<1>4. ASSUME NEW g \in Inspectors, NEW t \in Templates, NEW at \in Time, Receive(g, t, at) PROVE FALSE
  BY <1>3, <1>4, TemplateTyped DEF Receive
<1>5. ASSUME NEW g \in Inspectors, NEW r \in spawned, NEW at \in Time, TakeOwn(g, r, at) PROVE FALSE
  <2>1. r \in Report
    BY DEF TypeInv, TypeOK
  <2> QED
    BY <1>3, <1>5, <2>1, OwnEventTyped DEF TakeOwn
<1>6. ASSUME NEW g \in Inspectors, NEW p, p # "baseline", Pattern(work[g].left) = p, Further(g, p) PROVE FALSE
  BY <1>1, <1>2, <1>6
<1>7. ASSUME NEW g \in Inspectors, RecordUser(g) PROVE FALSE
  <2>1. At(g, "user") /\ Verdict(g, Cardinality(Added(users[work[g].ev.of.user], work[g].ev, UserWindow)) = UserLimit)
    BY <1>7 DEF RecordUser
  <2>2. Further(g, "user") /\ Pattern(work[g].left) = "user"
    BY <2>1, VerdictMoves DEF TypeInv
  <2> QED
    BY <1>6, <2>2, SMTT(60)
<1>8. ASSUME NEW g \in Inspectors, RecordBlock(g) PROVE FALSE
  <2> DEFINE hit == Cardinality(Added(blocks[work[g].ev.of.user], work[g].ev, BlockWindow)) >= BlockCount
  <2>1. At(g, "block") /\ Verdict(g, hit) /\ hit \in BOOLEAN
    BY <1>8 DEF RecordBlock
  <2>2. Further(g, "block") /\ Pattern(work[g].left) = "block"
    <3> HIDE DEF hit
    <3> QED
      BY <2>1, VerdictMoves DEF TypeInv
  <2> QED
    BY <1>6, <2>2
<1>9. ASSUME NEW g \in Inspectors, RecordHoney(g) PROVE FALSE
  <2> DEFINE hit == Cardinality(layers'[work[g].ev.of.trace]) >= 2
  <2>1. At(g, "honey") /\ Verdict(g, hit) /\ hit \in BOOLEAN
    BY <1>9 DEF RecordHoney
  <2>2. Further(g, "honey") /\ Pattern(work[g].left) = "honey"
    <3> HIDE DEF hit
    <3> QED
      BY <2>1, VerdictMoves DEF TypeInv
  <2> QED
    BY <1>6, <2>2, SMTT(60)
<1>10. ASSUME NEW g \in Inspectors, Fire(g) PROVE FALSE
  <2>1. Further(g, Pattern(work[g].left)) /\ ~ work'[g].hit
    BY <1>10, FireTyped
  <2> QED
    BY <1>2, <2>1
<1>11. ASSUME NEW g \in Inspectors, RecordBaseline(g)
       PROVE  (baselines'[Key(work[h].ev)].minutes - 1) * (baselines'[Key(work[h].ev)].minutes - 1)
                  > SigmaSquared * baselines'[Key(work[h].ev)].minutes
  <2>1. Further(g, "baseline")
    BY <1>11, SpikeRecorded
  <2>2. g = h
    BY <1>2, <2>1
  <2> QED
    BY <1>11, <2>2, SpikeRecorded
<1> QED
  BY <1>4, <1>5, <1>7, <1>8, <1>9, <1>10, <1>11 DEF Next, Inspect

\* No spike is seen before enough minutes have events of the kind, for any number of
\* samples: a minute far above the others raises the mean and the deviation with it.
THEOREM SpikeCorrect == Spec => SpikeNeedsMinutes
<1>1. Spec => []TypeInv
  BY TypeInit, TypeStep, PTL DEF Spec
<1> QED
  BY <1>1, SpikeStep, PTL DEF Spec, SpikeNeedsMinutes

-----------------------------------------------------------------------------
(* Numbers.  An event has one goroutine, that looks at it for a pattern once: *)
(* until it has, no log and no report of the pattern has the event's number.  *)

Windowed == {"user", "block", "honey"}

\* The number was added to a window of the pattern, reported, or is to be looked at.
Logged(p, n) ==
    \/ p = "user" /\ \E u \in Users : \E i \in DOMAIN userLog[u] : userLog[u][i].n = n
    \/ p = "block" /\ \E u \in Users : \E i \in DOMAIN blockLog[u] : blockLog[u][i].n = n
    \/ p = "honey" /\ \E i \in DOMAIN honeyLog : honeyLog[i].n = n
Said(p, n) == \E r \in reported : r.ev.n = n /\ r.pattern = p
Pending(g, p) ==
    \E i \in work[g].left : Stages[i] = p /\ ~ (work[g].hit /\ i = First(work[g].left))
Told(p, n) ==
    \/ Said(p, n)
    \/ \E g \in Inspectors : work[g].ev.n = n /\ work[g].hit /\ Pattern(work[g].left) = p

NumberInv ==
    /\ \A g \in Inspectors : work[g] # Idle => work[g].ev.n <= inspected
    /\ \A g, h \in Inspectors : work[g] # Idle /\ work[h] # Idle /\ work[g].ev.n = work[h].ev.n => g = h
    /\ \A r \in reported : r.ev.n <= inspected
    /\ \A p \in Windowed, n \in Nat : Logged(p, n) => n <= inspected

FreshInv ==
    \A g \in Inspectors, p \in Windowed :
        Pending(g, p) => ~ Logged(p, work[g].ev.n) /\ ~ Said(p, work[g].ev.n)

FlowInv == TypeInv /\ NumberInv /\ FreshInv

\* What a step does to the numbers: a goroutine takes up an event, ...
Begun(g) ==
    /\ work' \in [Inspectors -> Work \cup {Idle}]
    /\ \A h \in Inspectors : h # g => work'[h] = work[h]
    /\ work[g] = Idle /\ work'[g] \in Work
    /\ work'[g].ev.n = inspected + 1 /\ ~ work'[g].hit
    /\ inspected' = inspected + 1
    /\ UNCHANGED <<reported, userLog, blockLog, honeyLog>>

\* ... adds it to a window of a pattern, ...
Recorded(g, p, hit) ==
    /\ Further(g, p)
    /\ Pattern(work[g].left) = p /\ ~ work[g].hit
    /\ work'[g].hit = hit /\ (hit => work'[g].left = work[g].left)
    /\ UNCHANGED <<inspected, reported>>
    /\ \A q \in Windowed, n \in Nat : Logged(q, n)' => Logged(q, n) \/ (q = p /\ n = work[g].ev.n)

\* ... or reports it, after a window said so when the pattern has one.
Fired(g) ==
    /\ Further(g, Pattern(work[g].left))
    /\ ~ work'[g].hit
    /\ Pattern(work[g].left) \in Windowed => work[g].hit
    /\ reported' = reported \cup {[ev |-> work[g].ev, pattern |-> Pattern(work[g].left)]}
    /\ UNCHANGED <<inspected, userLog, blockLog, honeyLog>>

LEMMA ReportsTold ==
  ASSUME NEW ev, NEW p
  PROVE  Reports(ev, p) <=> Told(p, ev.n)
BY DEF Reports, Told, Said

\* The pattern a goroutine is at is one it is still to look for.
LEMMA AtPending ==
  ASSUME TypeInv, NEW g \in Inspectors, NEW p, At(g, p)
  PROVE  work[g] \in Work /\ Pending(g, p)
<1>1. work[g] \in Work
  BY IdleShape DEF At, TypeInv, TypeOK, Work
<1>2. First(work[g].left) \in work[g].left
  BY <1>1, FirstLeft DEF Work
<1> QED
  BY <1>1, <1>2 DEF Pending, At, Pattern

LEMMA PendingKept ==
  ASSUME NEW g \in Inspectors, NEW p, Further(g, p), NEW q, Pending(g, q)'
  PROVE  Pending(g, q) /\ q # p /\ work'[g].ev = work[g].ev
<1>1. work'[g] # Idle
  BY IdleShape DEF Pending
<1> QED
  BY <1>1 DEF Pending, Further

LEMMA NumberBegun ==
  ASSUME FlowInv, NEW g \in Inspectors, Begun(g)
  PROVE  /\ NumberInv' /\ FreshInv'
         /\ \A q \in Windowed, n \in Nat : Told(q, n)' <=> Told(q, n)
<1>1. inspected \in Nat
  BY DEF FlowInv, TypeInv, TypeOK
<1>2. \A h \in Inspectors : h # g => work'[h] = work[h]
  BY DEF Begun
<1>3. \A h \in Inspectors : work[h] # Idle => work[h].ev.n \in Nat /\ work[h].ev.n <= inspected
  BY DEF FlowInv, NumberInv, TypeInv, TypeOK, Event
<1>4. \A q \in Windowed, n \in Nat : (Logged(q, n)' <=> Logged(q, n)) /\ (Said(q, n)' <=> Said(q, n))
  BY DEF Begun, Logged, Said
<1>5. NumberInv'
  <2>1. \A h \in Inspectors : work'[h] # Idle => work'[h].ev.n <= inspected'
    BY <1>1, <1>2, <1>3 DEF Begun
  <2>2. ASSUME NEW h \in Inspectors, NEW k \in Inspectors, work'[h] # Idle, work'[k] # Idle,
               work'[h].ev.n = work'[k].ev.n
        PROVE  h = k
    <3>1. CASE h # g /\ k # g
      BY <1>2, <2>2, <3>1 DEF FlowInv, NumberInv
    <3>2. CASE h = g /\ k # g
      BY <1>1, <1>2, <1>3, <2>2, <3>2 DEF Begun
    <3>3. CASE h # g /\ k = g
      BY <1>1, <1>2, <1>3, <2>2, <3>3 DEF Begun
    <3> QED
      BY <3>1, <3>2, <3>3
  <2>3. \A r \in reported' : r.ev.n <= inspected'
    <3>1. \A r \in reported : r.ev.n \in Nat
      BY DEF FlowInv, TypeInv, TypeOK, Report, Event
    <3> QED
      BY <1>1, <3>1 DEF Begun, FlowInv, NumberInv
  <2>4. \A p \in Windowed, n \in Nat : Logged(p, n)' => n <= inspected'
    BY <1>1, <1>4 DEF Begun, FlowInv, NumberInv
  <2> QED
    BY <2>1, <2>2, <2>3, <2>4 DEF NumberInv
<1>6. FreshInv'
  <2> SUFFICES ASSUME NEW h \in Inspectors, NEW p \in Windowed, Pending(h, p)',
                      NEW n, n = work'[h].ev.n
               PROVE  ~ Logged(p, n)' /\ ~ Said(p, n)'
    BY DEF FreshInv, Logged, Said
  <2>1. CASE h = g
    <3>1. work'[h].ev.n = inspected + 1 /\ inspected + 1 \in Nat
      BY <1>1, <2>1 DEF Begun
    <3>2. ~ Logged(p, inspected + 1)
      BY <1>1, <3>1 DEF FlowInv, NumberInv
    <3>3. ~ Said(p, inspected + 1)
      BY <1>1, <3>1 DEF FlowInv, NumberInv, Said
    <3> QED
      BY <1>4, <3>1, <3>2, <3>3
  <2>2. CASE h # g
    <3>1. work'[h] = work[h]
      BY <1>2, <2>2
    <3>2. Pending(h, p)
      BY <3>1 DEF Pending
    <3>3. work[h].ev.n \in Nat
      BY <1>3, <3>2, IdleShape DEF Pending
    <3> QED
      BY <1>4, <3>1, <3>2, <3>3 DEF FlowInv, FreshInv
  <2> QED
    BY <2>1, <2>2
<1>7. \A q \in Windowed, n \in Nat : Told(q, n)' <=> Told(q, n)
  BY <1>2, <1>4, IdleShape DEF Told, Begun
<1> QED
  BY <1>5, <1>6, <1>7

LEMMA NumberRecorded ==
  ASSUME FlowInv, NEW g \in Inspectors, NEW p, NEW hit \in BOOLEAN, Recorded(g, p, hit)
  PROVE  /\ NumberInv' /\ FreshInv'
         /\ \A q \in Windowed, n \in Nat :
              Told(q, n)' <=> (Told(q, n) \/ (hit /\ q = p /\ n = work[g].ev.n))
<1>1. inspected \in Nat /\ inspected' = inspected /\ reported' = reported
  BY DEF FlowInv, TypeInv, TypeOK, Recorded
<1>2. \A h \in Inspectors : h # g => work'[h] = work[h]
  BY DEF Recorded, Further
<1>3. /\ work[g] # Idle /\ work[g].ev.n \in Nat
      /\ work'[g] # Idle => work'[g].ev = work[g].ev
  BY IdleShape DEF Recorded, Further, Work, Event
<1>4. \A q \in Windowed, n \in Nat : Said(q, n)' <=> Said(q, n)
  BY <1>1 DEF Said
<1>5. NumberInv'
  <2>1. \A h \in Inspectors : work'[h] # Idle => work'[h].ev.n <= inspected'
    BY <1>1, <1>2, <1>3 DEF FlowInv, NumberInv
  <2>2. \A h, k \in Inspectors : work'[h] # Idle /\ work'[k] # Idle /\ work'[h].ev.n = work'[k].ev.n => h = k
    BY <1>2, <1>3 DEF FlowInv, NumberInv
  <2>3. \A r \in reported' : r.ev.n <= inspected'
    BY <1>1 DEF FlowInv, NumberInv
  <2>4. \A q \in Windowed, n \in Nat : Logged(q, n)' => n <= inspected'
    BY <1>1, <1>3 DEF Recorded, FlowInv, NumberInv
  <2> QED
    BY <2>1, <2>2, <2>3, <2>4 DEF NumberInv
<1>6. FreshInv'
  <2> SUFFICES ASSUME NEW h \in Inspectors, NEW q \in Windowed, Pending(h, q)',
                      NEW n, n = work'[h].ev.n
               PROVE  ~ Logged(q, n)' /\ ~ Said(q, n)'
    BY DEF FreshInv, Logged, Said
  <2>1. CASE h = g
    <3>1. Pending(g, q) /\ q # p /\ work'[g].ev = work[g].ev
      BY <2>1, PendingKept DEF Recorded
    <3>2. ~ Logged(q, work[g].ev.n) /\ ~ Said(q, work[g].ev.n)
      BY <3>1 DEF FlowInv, FreshInv
    <3> QED
      BY <1>3, <1>4, <2>1, <3>1, <3>2 DEF Recorded
  <2>2. CASE h # g
    <3>1. work'[h] = work[h] /\ Pending(h, q)
      BY <1>2, <2>2 DEF Pending
    <3>2. work[h] # Idle
      BY <3>1, IdleShape DEF Pending
    <3>3. work[h].ev.n \in Nat /\ work[h].ev.n # work[g].ev.n
      BY <1>3, <2>2, <3>2 DEF FlowInv, NumberInv, TypeInv, TypeOK, Event
    <3>4. ~ Logged(q, work[h].ev.n) /\ ~ Said(q, work[h].ev.n)
      BY <3>1 DEF FlowInv, FreshInv
    <3> QED
      BY <1>4, <3>1, <3>3, <3>4 DEF Recorded
  <2> QED
    BY <2>1, <2>2
<1>7. ASSUME NEW q \in Windowed, NEW n \in Nat
      PROVE  Told(q, n)' <=> (Told(q, n) \/ (hit /\ q = p /\ n = work[g].ev.n))
  <2>1. CASE hit
    <3>1. work'[g].hit /\ work'[g].left = work[g].left /\ Pattern(work[g].left) = p /\ ~ work[g].hit
      BY <2>1 DEF Recorded
    <3>2. work'[g].ev = work[g].ev
      BY <1>3, <3>1, IdleShape
    <3> QED
      BY <1>2, <1>4, <2>1, <3>1, <3>2 DEF Told
  <2>2. CASE ~ hit
    <3>1. ~ work'[g].hit /\ ~ work[g].hit
      BY <2>2 DEF Recorded
    <3> QED
      BY <1>2, <1>4, <2>2, <3>1 DEF Told
  <2> QED
    BY <2>1, <2>2
<1> QED
  BY <1>5, <1>6, <1>7

LEMMA NumberFired ==
  ASSUME FlowInv, NEW g \in Inspectors, Fired(g)
  PROVE  /\ NumberInv' /\ FreshInv'
         /\ \A q \in Windowed, n \in Nat : Told(q, n)' <=> Told(q, n)
<1> DEFINE p == Pattern(work[g].left)
           r == [ev |-> work[g].ev, pattern |-> p]
<1>1. inspected \in Nat /\ inspected' = inspected /\ reported' = reported \cup {r}
  BY DEF FlowInv, TypeInv, TypeOK, Fired
<1>2. \A h \in Inspectors : h # g => work'[h] = work[h]
  BY DEF Fired, Further
<1>3. /\ work[g] # Idle /\ work[g].ev.n \in Nat
      /\ work'[g] # Idle => work'[g].ev = work[g].ev
  BY IdleShape DEF Fired, Further, Work, Event
<1>4. r.ev = work[g].ev /\ r.pattern = p
  OBVIOUS
<1>5. \A q \in Windowed, n \in Nat : Logged(q, n)' <=> Logged(q, n)
  BY DEF Logged, Fired
<1> HIDE DEF r
<1>6. \A q \in Windowed, n \in Nat : Said(q, n)' <=> (Said(q, n) \/ (q = p /\ n = work[g].ev.n))
  BY <1>1, <1>4 DEF Said
<1>7. Further(g, p) /\ ~ work'[g].hit /\ (p \in Windowed => work[g].hit)
  BY DEF Fired
<1> HIDE DEF p
<1>8. NumberInv'
  <2>1. \A h \in Inspectors : work'[h] # Idle => work'[h].ev.n <= inspected'
    BY <1>1, <1>2, <1>3 DEF FlowInv, NumberInv
  <2>2. \A h, k \in Inspectors : work'[h] # Idle /\ work'[k] # Idle /\ work'[h].ev.n = work'[k].ev.n => h = k
    BY <1>2, <1>3 DEF FlowInv, NumberInv
  <2>3. \A s \in reported' : s.ev.n <= inspected'
    BY <1>1, <1>3, <1>4 DEF FlowInv, NumberInv
  <2>4. \A q \in Windowed, n \in Nat : Logged(q, n)' => n <= inspected'
    BY <1>1, <1>5 DEF FlowInv, NumberInv
  <2> QED
    BY <2>1, <2>2, <2>3, <2>4 DEF NumberInv
<1>9. FreshInv'
  <2> SUFFICES ASSUME NEW h \in Inspectors, NEW q \in Windowed, Pending(h, q)',
                      NEW n, n = work'[h].ev.n
               PROVE  ~ Logged(q, n)' /\ ~ Said(q, n)'
    BY DEF FreshInv, Logged, Said
  <2>1. CASE h = g
    <3>1. Pending(g, q) /\ q # p /\ work'[g].ev = work[g].ev
      BY <1>7, <2>1, PendingKept
    <3>2. ~ Logged(q, work[g].ev.n) /\ ~ Said(q, work[g].ev.n)
      BY <3>1 DEF FlowInv, FreshInv
    <3> QED
      BY <1>3, <1>5, <1>6, <2>1, <3>1, <3>2
  <2>2. CASE h # g
    <3>1. work'[h] = work[h] /\ Pending(h, q)
      BY <1>2, <2>2 DEF Pending
    <3>2. work[h] # Idle
      BY <3>1, IdleShape DEF Pending
    <3>3. work[h].ev.n \in Nat /\ work[h].ev.n # work[g].ev.n
      BY <1>3, <2>2, <3>2 DEF FlowInv, NumberInv, TypeInv, TypeOK, Event
    <3>4. ~ Logged(q, work[h].ev.n) /\ ~ Said(q, work[h].ev.n)
      BY <3>1 DEF FlowInv, FreshInv
    <3> QED
      BY <1>5, <1>6, <3>1, <3>3, <3>4
  <2> QED
    BY <2>1, <2>2
<1>10. ASSUME NEW q \in Windowed, NEW n \in Nat
       PROVE  Told(q, n)' <=> Told(q, n)
  <2>1. Pattern(work[g].left) = p
    BY DEF p
  <2>2. CASE q = p /\ n = work[g].ev.n
    BY <1>6, <1>7, <2>1, <2>2 DEF Told
  <2>3. CASE ~ (q = p /\ n = work[g].ev.n)
    BY <1>2, <1>6, <1>7, <2>1, <2>3 DEF Told
  <2> QED
    BY <2>2, <2>3
<1> QED
  BY <1>8, <1>9, <1>10

-----------------------------------------------------------------------------
(* What a window holds.  An entry is dropped by the first that is a window    *)
(* ahead of it and never comes back, so the window is the entries of the log  *)
(* that no later one was a window ahead of.                                   *)

Kept(log, i, size) == {j \in 1..i : \A m \in (j + 1)..i : log[j].at > log[m].at - size}

WindowOf(log, w, size) ==
    /\ w = {log[j] : j \in Kept(log, Len(log), size)}
    /\ \A i, j \in DOMAIN log : log[i].n = log[j].n => i = j

LEMMA EntryTimes ==
  ASSUME NEW e \in Entry
  PROVE  e.at \in Int /\ e.at \in Time
<1>1. MaxTime \in Nat /\ e.at \in Time
  BY WindowAssumption DEF Entry
<1> QED
  BY <1>1 DEF Time

\* A window is as long as the list of the entries that were kept.
LEMMA WindowSize ==
  ASSUME NEW log \in Seq(Entry), NEW w, NEW size, WindowOf(log, w, size)
  PROVE  Cardinality(w) = Cardinality(Kept(log, Len(log), size)) /\ Cardinality(w) \in Nat
<1> DEFINE K == Kept(log, Len(log), size)
           f == [j \in K |-> log[j]]
<1>1. K \subseteq 1..Len(log) /\ IsFiniteSet(1..Len(log)) /\ DOMAIN log = 1..Len(log)
  BY FS_Interval DEF Kept
<1>2. IsFiniteSet(K)
  <2> HIDE DEF K
  <2> QED
    BY <1>1, FS_Subset
<1>3. f \in Bijection(K, w)
  <2>1. w = {log[j] : j \in K} /\ \A i, j \in K : log[i] = log[j] => i = j
    BY <1>1 DEF WindowOf
  <2> HIDE DEF K
  <2>2. f \in [K -> w] /\ \A j \in K : f[j] = log[j]
    BY <2>1
  <2> HIDE DEF f
  <2>3. f \in Injection(K, w)
    BY <2>1, <2>2 DEF Injection, IsInjective
  <2>4. f \in Surjection(K, w)
    BY <2>1, <2>2 DEF Surjection
  <2> QED
    BY <2>3, <2>4 DEF Bijection
<1>4. ExistsBijection(K, w)
  <2> HIDE DEF K, f
  <2> QED
    BY <1>3 DEF ExistsBijection
<1> HIDE DEF K, f
<1>5. Cardinality(w) = Cardinality(K)
  BY <1>2, <1>4, FS_Bijection
<1>6. Cardinality(K) \in Nat
  BY <1>2, FS_CardinalityType
<1> QED
  BY <1>5, <1>6 DEF K

\* One entry more.
LEMMA KeptNext ==
  ASSUME NEW log \in Seq(Entry), NEW e \in Entry, NEW size \in Nat \ {0}, NEW next, next = Append(log, e)
  PROVE  \A j : j \in Kept(next, Len(next), size) <=>
           (j \in Kept(log, Len(log), size) /\ log[j].at > e.at - size) \/ j = Len(next)
<1>1. /\ Len(next) = Len(log) + 1 /\ Len(log) \in Nat /\ DOMAIN log = 1..Len(log)
      /\ \A j \in 1..Len(log) : next[j] = log[j]
      /\ next[Len(log) + 1] = e
  OBVIOUS
<1>2. /\ e.at \in Int /\ size \in Int /\ size > 0
      /\ \A j \in 1..Len(log) : log[j].at \in Int
  <2>1. \A j \in 1..Len(log) : log[j] \in Entry
    OBVIOUS
  <2> QED
    BY <2>1, EntryTimes
<1>3. ASSUME NEW j
      PROVE  j \in Kept(next, Len(next), size) <=>
                (j \in Kept(log, Len(log), size) /\ log[j].at > e.at - size) \/ j = Len(next)
  <2>1. CASE j \in 1..Len(log)
    <3>1. j \in Kept(next, Len(next), size) <=>
             \A m \in (j + 1)..Len(next) : next[j].at > next[m].at - size
      BY <1>1, <2>1 DEF Kept
    <3>2. j \in Kept(log, Len(log), size) <=>
             \A m \in (j + 1)..Len(log) : log[j].at > log[m].at - size
      BY <2>1 DEF Kept
    <3>3. (j + 1)..Len(next) = ((j + 1)..Len(log)) \cup {Len(next)}
      BY <1>1, <2>1
    <3>4. \A m \in (j + 1)..Len(log) : next[m] = log[m]
      BY <1>1, <2>1
    <3>5. j # Len(next) /\ next[j] = log[j] /\ next[Len(next)] = e
      BY <1>1, <2>1
    <3> QED
      BY <3>1, <3>2, <3>3, <3>4, <3>5
  <2>2. CASE j = Len(next)
    BY <1>1, <1>2, <2>2 DEF Kept
  <2>3. CASE j \notin 1..Len(log) /\ j # Len(next)
    BY <1>1, <2>3 DEF Kept
  <2> QED
    BY <2>1, <2>2, <2>3
<1> QED
  BY <1>3

\* An event is added to its window: the others it is not ahead of stay.
LEMMA WindowNext ==
  ASSUME NEW log \in Seq(Entry), NEW w, NEW size \in Nat \ {0}, WindowOf(log, w, size),
         NEW ev \in Event, \A i \in DOMAIN log : log[i].n # ev.n,
         NEW next, next = Append(log, [at |-> ev.at, n |-> ev.n])
  PROVE  /\ WindowOf(next, Added(w, ev, size), size)
         /\ next \in Seq(Entry)
<1> DEFINE e == [at |-> ev.at, n |-> ev.n]
           old == Kept(log, Len(log), size)
<1>1. e \in Entry /\ e.at = ev.at /\ e.n = ev.n
  BY DEF Entry, Event
<1>2. next = Append(log, e) /\ Added(w, ev, size) = {x \in w : x.at > e.at - size} \cup {e}
  BY DEF Added, Within
<1> HIDE DEF e
<1>3. /\ Len(next) = Len(log) + 1 /\ Len(log) \in Nat /\ DOMAIN log = 1..Len(log)
      /\ DOMAIN next = 1..Len(next) /\ next \in Seq(Entry)
      /\ \A j \in 1..Len(log) : next[j] = log[j]
      /\ next[Len(next)] = e
  BY <1>1, <1>2
<1>4. \A j : j \in Kept(next, Len(next), size) <=>
          (j \in old /\ log[j].at > e.at - size) \/ j = Len(next)
  <2>1. e \in Entry /\ next = Append(log, e)
    BY <1>1, <1>2
  <2> QED
    BY <2>1, KeptNext
<1>5. old \subseteq 1..Len(log) /\ w = {log[j] : j \in old}
  BY DEF Kept, WindowOf
<1> HIDE DEF old
<1>6. Added(w, ev, size) = {next[j] : j \in Kept(next, Len(next), size)}
  <2>1. \A j \in old : next[j] = log[j] /\ j # Len(next)
    BY <1>3, <1>5
  <2>2. ASSUME NEW x \in Added(w, ev, size)
        PROVE  \E j \in Kept(next, Len(next), size) : x = next[j]
    <3>1. CASE x = e
      BY <1>3, <1>4, <3>1
    <3>2. CASE x \in w /\ x.at > e.at - size
      BY <1>4, <1>5, <2>1, <3>2
    <3> QED
      BY <1>2, <2>2, <3>1, <3>2
  <2>3. ASSUME NEW j \in Kept(next, Len(next), size)
        PROVE  next[j] \in Added(w, ev, size)
    <3>1. CASE j = Len(next)
      BY <1>2, <1>3, <3>1
    <3>2. CASE j \in old /\ log[j].at > e.at - size
      BY <1>2, <1>5, <2>1, <3>2
    <3> QED
      BY <1>4, <2>3, <3>1, <3>2
  <2> DEFINE A == Added(w, ev, size)
             K == Kept(next, Len(next), size)
  <2>4. (\A x \in A : \E j \in K : x = next[j]) /\ \A j \in K : next[j] \in A
    BY <2>2, <2>3
  <2> HIDE DEF A, K
  <2>5. A = {next[j] : j \in K}
    BY <2>4
  <2> QED
    BY <2>5 DEF A, K
<1>7. \A i, j \in DOMAIN next : next[i].n = next[j].n => i = j
  <2>1. \A i, j \in DOMAIN log : log[i].n = log[j].n => i = j
    BY DEF WindowOf
  <2>2. \A i \in DOMAIN log : log[i].n # e.n
    BY <1>1
  <2> QED
    BY <1>3, <2>1, <2>2
<1>8. WindowOf(next, Added(w, ev, size), size)
  BY <1>6, <1>7 DEF WindowOf
<1> QED
  BY <1>3, <1>4, <1>8

\* The window before an event holds at least all but one of those it holds after it.
LEMMA KeptGrows ==
  ASSUME NEW log \in Seq(Entry), NEW size, NEW i \in 1..Len(log)
  PROVE  /\ IsFiniteSet(Kept(log, i, size)) /\ Cardinality(Kept(log, i, size)) \in Nat
         /\ i - 1 \in 1..Len(log) =>
              Cardinality(Kept(log, i, size)) <= Cardinality(Kept(log, i - 1, size)) + 1
         /\ i = 1 => Cardinality(Kept(log, i, size)) <= 1
<1> DEFINE K == Kept(log, i, size)
           old == Kept(log, i - 1, size)
<1>1. K \subseteq old \cup {i} /\ K \in SUBSET (1..i) /\ old \in SUBSET (1..(i - 1))
  BY DEF Kept
<1>2. IsFiniteSet(1..i) /\ IsFiniteSet(1..(i - 1))
  BY FS_Interval
<1> HIDE DEF K, old
<1>3. IsFiniteSet(K) /\ IsFiniteSet(old) /\ Cardinality(K) \in Nat /\ Cardinality(old) \in Nat
  BY <1>1, <1>2, FS_Subset, FS_CardinalityType
<1>4. IsFiniteSet(old \cup {i}) /\ Cardinality(old \cup {i}) <= Cardinality(old) + 1
  <2>1. /\ IsFiniteSet(old \cup {i})
        /\ Cardinality(old \cup {i}) = IF i \in old THEN Cardinality(old) ELSE Cardinality(old) + 1
    BY <1>3, FS_AddElement
  <2> QED
    BY <1>3, <2>1
<1>5. Cardinality(K) <= Cardinality(old \cup {i})
  BY <1>1, <1>4, FS_Subset
<1>6. i = 1 => Cardinality(old) = 0
  <2> SUFFICES ASSUME i = 1 PROVE Cardinality(old) = 0
    OBVIOUS
  <2>1. old = {}
    BY <1>1
  <2> QED
    BY <2>1, FS_EmptySet
<1>7. Cardinality(old \cup {i}) \in Nat
  BY <1>4, FS_CardinalityType
<1>8. Cardinality(K) <= Cardinality(old) + 1
  BY <1>3, <1>4, <1>5, <1>7
<1> QED
  BY <1>3, <1>6, <1>8 DEF K, old

\* A window that has the limit by now had exactly the limit at some event.
LEMMA LimitReached ==
  ASSUME NEW log \in Seq(Entry), NEW size, NEW i \in 1..Len(log), NEW limit \in Nat \ {0},
         Cardinality(Kept(log, i, size)) >= limit
  PROVE  \E j \in 1..i : Cardinality(Kept(log, j, size)) = limit
<1> DEFINE C(j) == Cardinality(Kept(log, j, size))
           T == {j \in 1..i : C(j) >= limit}
<1>1. \A j \in 1..i : C(j) \in Nat /\ (j - 1 \in 1..i => C(j) <= C(j - 1) + 1) /\ (j = 1 => C(j) <= 1)
  BY KeptGrows
<1> HIDE DEF C
<1>2. T \in SUBSET Nat /\ i \in T
  BY DEF C
<1>3. PICK m \in T : \A k \in T : m <= k
  <2> HIDE DEF T
  <2> QED
    BY <1>2, LeastNumber
<1>4. C(m) = limit
  <2>1. m \in 1..i /\ C(m) >= limit /\ C(m) \in Nat
    BY <1>1
  <2>2. CASE m = 1
    BY <1>1, <2>1, <2>2
  <2>3. CASE m # 1
    <3>1. m - 1 \in 1..i /\ m - 1 \notin T
      BY <1>3, <2>1, <2>3
    <3>2. C(m - 1) \in Nat /\ ~ (C(m - 1) >= limit)
      BY <1>1, <3>1
    <3> QED
      BY <1>1, <2>1, <3>1, <3>2, SMTT(60)
  <2> QED
    BY <2>2, <2>3
<1> QED
  BY <1>4 DEF C

\* How late the events of a log came is a number, and nothing came later.
LEMMA LatenessBounds ==
  ASSUME NEW log, NEW i \in Nat \ {0}, \A j \in 1..i : log[j].at \in Time
  PROVE  /\ Lateness(log, i) \in Nat
         /\ \A p, q \in 1..i : p <= q => log[p].at - log[q].at <= Lateness(log, i)
<1> DEFINE behind == {log[p[1]].at - log[p[2]].at : p \in {q \in (1..i) \X (1..i) : q[1] <= q[2]}}
           T == {MaxTime - d : d \in behind}
<1>0. MaxTime \in Nat /\ \A j \in 1..i : log[j].at \in Nat /\ log[j].at <= MaxTime
  BY WindowAssumption DEF Time
<1>1. \A p, q \in 1..i : p <= q => log[p].at - log[q].at \in behind
  <2> SUFFICES ASSUME NEW p \in 1..i, NEW q \in 1..i, p <= q PROVE log[p].at - log[q].at \in behind
    OBVIOUS
  <2>1. <<p, q>> \in {r \in (1..i) \X (1..i) : r[1] <= r[2]} /\ <<p, q>>[1] = p /\ <<p, q>>[2] = q
    OBVIOUS
  <2> QED
    BY <2>1
<1>2. \A d \in behind : d \in Int /\ d <= MaxTime
  <2> SUFFICES ASSUME NEW p \in (1..i) \X (1..i)
               PROVE  log[p[1]].at - log[p[2]].at \in Int /\ log[p[1]].at - log[p[2]].at <= MaxTime
    OBVIOUS
  <2>1. p[1] \in 1..i /\ p[2] \in 1..i
    OBVIOUS
  <2> QED
    BY <1>0, <2>1
<1>3. 1 \in 1..i /\ log[1].at - log[1].at = 0
  BY <1>0
<1>4. 0 \in behind
  <2> HIDE DEF behind
  <2> QED
    BY <1>1, <1>3
<1>5. Lateness(log, i) = CHOOSE d \in behind : \A e \in behind : e <= d
  BY DEF Lateness
<1> HIDE DEF behind
<1>6. T \in SUBSET Nat /\ T # {}
  BY <1>0, <1>2, <1>4
<1>7. PICK m \in T : \A k \in T : m <= k
  <2> HIDE DEF T
  <2> QED
    BY <1>6, LeastNumber
<1>8. PICK d \in behind : m = MaxTime - d
  OBVIOUS
<1>9. \A e \in behind : e <= d
  BY <1>0, <1>2, <1>7, <1>8
<1>10. Lateness(log, i) \in behind /\ \A e \in behind : e <= Lateness(log, i)
  BY <1>5, <1>8, <1>9
<1>11. Lateness(log, i) \in Nat
  BY <1>2, <1>4, <1>10
<1> QED
  BY <1>1, <1>10, <1>11

\* What is that much closer together was kept, whatever the order, and in the
\* order of the times it is what was kept.
LEMMA RateKept ==
  ASSUME NEW log \in Seq(Entry), NEW i \in DOMAIN log, NEW size \in Nat \ {0}
  PROVE  /\ Rate(log, i, size - Lateness(log, i)) <= Cardinality(Kept(log, i, size))
         /\ Lateness(log, i) = 0 => Rate(log, i, size) = Cardinality(Kept(log, i, size))
         /\ Rate(log, i, size - Lateness(log, i)) \in Nat
<1> DEFINE d == Lateness(log, i)
           K == Kept(log, i, size)
           R == {j \in 1..i : log[j].at > log[i].at - (size - d)}
<1>1. i \in 1..Len(log) /\ i \in Nat \ {0} /\ \A j \in 1..i : log[j].at \in Time /\ log[j].at \in Int
  <2>1. i \in 1..Len(log) /\ \A j \in 1..i : log[j] \in Entry
    OBVIOUS
  <2> QED
    BY <2>1, EntryTimes
<1>2. d \in Nat /\ \A p, q \in 1..i : p <= q => log[p].at - log[q].at <= d
  BY <1>1, LatenessBounds
<1>3. Rate(log, i, size - d) = Cardinality(R)
  BY DEF Rate
<1> HIDE DEF d
<1>4. R \subseteq K
  <2> SUFFICES ASSUME NEW j \in 1..i, log[j].at > log[i].at - (size - d), NEW m \in (j + 1)..i
               PROVE  log[j].at > log[m].at - size
    BY DEF Kept
  <2>1. m \in 1..i /\ log[m].at - log[i].at <= d
    BY <1>1, <1>2, SMTT(60)
  <2> QED
    BY <1>1, <1>2, <2>1, SMTT(60)
<1>5. d = 0 => K \subseteq R
  <2> SUFFICES ASSUME d = 0, NEW j \in K PROVE j \in R
    OBVIOUS
  <2>1. j \in 1..i /\ \A m \in (j + 1)..i : log[j].at > log[m].at - size
    BY DEF Kept
  <2>2. log[j].at > log[i].at - size
    BY <1>1, <2>1
  <2> QED
    BY <1>1, <2>1, <2>2
<1>6. IsFiniteSet(K) /\ Cardinality(K) \in Nat
  BY <1>1, KeptGrows
<1>7. IsFiniteSet(R) /\ Cardinality(R) <= Cardinality(K) /\ Cardinality(R) \in Nat
  <2> HIDE DEF R, K
  <2> QED
    BY <1>4, <1>6, FS_Subset, FS_CardinalityType
<1>8. d = 0 => Rate(log, i, size) = Cardinality(K)
  <2> SUFFICES ASSUME d = 0 PROVE Rate(log, i, size) = Cardinality(K)
    OBVIOUS
  <2>1. K = R /\ size - d = size
    BY <1>4, <1>5
  <2> HIDE DEF K, R
  <2> QED
    BY <1>3, <2>1
<1> QED
  BY <1>3, <1>7, <1>8 DEF d

-----------------------------------------------------------------------------
(* The steps in these terms *)

\* Nothing is told of the pattern by the step.
Quiet(p) == \A n \in Nat : Told(p, n)' <=> Told(p, n)

LEMMA BaselineRecorded ==
  ASSUME FlowInv, NEW g \in Inspectors, RecordBaseline(g)
  PROVE  \E hit \in BOOLEAN : Recorded(g, "baseline", hit)
<1> DEFINE hit == Spike(Added(windows[Key(work[g].ev)], work[g].ev, BaselineWindow), work[g].ev)
<1>1. At(g, "baseline") /\ Verdict(g, hit) /\ hit \in BOOLEAN
  BY SpikeBoolean DEF RecordBaseline
<1>2. UNCHANGED <<inspected, reported, userLog, blockLog, honeyLog>>
  BY DEF RecordBaseline, flowVars, reportVars, logVars
<1>3. \A q \in Windowed, n \in Nat : Logged(q, n)' => Logged(q, n)
  BY <1>2 DEF Logged
<1> HIDE DEF hit
<1>4. /\ Further(g, "baseline") /\ work'[g].hit = hit /\ Pattern(work[g].left) = "baseline"
      /\ (hit => work'[g].left = work[g].left)
  BY <1>1, VerdictMoves DEF FlowInv, TypeInv
<1>5. ~ work[g].hit
  BY <1>1 DEF At
<1>6. Recorded(g, "baseline", hit)
  BY <1>2, <1>3, <1>4, <1>5 DEF Recorded
<1> QED
  BY <1>1, <1>6

LEMMA UserRecorded ==
  ASSUME FlowInv, NEW g \in Inspectors, RecordUser(g),
         NEW hit, hit = (Cardinality(Added(users[work[g].ev.of.user], work[g].ev, UserWindow)) = UserLimit)
  PROVE  hit \in BOOLEAN /\ Recorded(g, "user", hit)
<1> DEFINE u == work[g].ev.of.user
           e == [at |-> work[g].ev.at, n |-> work[g].ev.n]
<1>1. At(g, "user") /\ Verdict(g, hit) /\ hit \in BOOLEAN
  BY SMTT(60) DEF RecordUser
<1>2. UNCHANGED <<inspected, reported, blockLog, honeyLog>> /\ userLog' = [userLog EXCEPT ![u] = Append(@, e)]
  BY DEF RecordUser, flowVars, reportVars
<1>3. u \in Users /\ e \in Entry /\ e.n = work[g].ev.n /\ work[g].ev.n \in Nat
  <2>1. work[g].ev \in Event /\ u \in Users
    BY <1>1, Concerned, OfUser DEF FlowInv, TypeInv
  <2> QED
    BY <2>1 DEF Entry, Event
<1> HIDE DEF e, u
<1>4. \A v \in Users : \A i \in DOMAIN userLog'[v] : userLog'[v][i].n = work[g].ev.n
                          \/ (i \in DOMAIN userLog[v] /\ userLog'[v][i] = userLog[v][i])
  <2> SUFFICES ASSUME NEW v \in Users, NEW i \in DOMAIN userLog'[v]
               PROVE  userLog'[v][i].n = work[g].ev.n
                          \/ (i \in DOMAIN userLog[v] /\ userLog'[v][i] = userLog[v][i])
    OBVIOUS
  <2>1. userLog \in [Users -> Seq(Entry)]
    BY DEF FlowInv, TypeInv, TypeOK
  <2>2. CASE v = u
    <3>1. userLog[u] \in Seq(Entry) /\ userLog'[u] = Append(userLog[u], e)
      BY <1>2, <1>3, <2>1
    <3> QED
      BY <1>3, <2>2, <3>1
  <2>3. CASE v # u
    BY <1>2, <2>1, <2>3
  <2> QED
    BY <2>2, <2>3
<1>5. \A q \in Windowed, n \in Nat : Logged(q, n)' => Logged(q, n) \/ (q = "user" /\ n = work[g].ev.n)
  BY <1>2, <1>4 DEF Logged
<1>6. /\ Further(g, "user") /\ work'[g].hit = hit /\ Pattern(work[g].left) = "user"
      /\ (hit => work'[g].left = work[g].left)
  BY <1>1, VerdictMoves DEF FlowInv, TypeInv
<1>7. ~ work[g].hit
  BY <1>1 DEF At
<1> QED
  BY <1>1, <1>2, <1>5, <1>6, <1>7, SMTT(60) DEF Recorded

LEMMA BlockRecorded ==
  ASSUME FlowInv, NEW g \in Inspectors, RecordBlock(g),
         NEW hit, hit = (Cardinality(Added(blocks[work[g].ev.of.user], work[g].ev, BlockWindow)) >= BlockCount)
  PROVE  hit \in BOOLEAN /\ Recorded(g, "block", hit)
<1> DEFINE u == work[g].ev.of.user
           e == [at |-> work[g].ev.at, n |-> work[g].ev.n]
<1>1. At(g, "block") /\ Verdict(g, hit) /\ hit \in BOOLEAN
  BY SMTT(60) DEF RecordBlock
<1>2. UNCHANGED <<inspected, reported, userLog, honeyLog>> /\ blockLog' = [blockLog EXCEPT ![u] = Append(@, e)]
  BY DEF RecordBlock, flowVars, reportVars
<1>3. u \in Users /\ e \in Entry /\ e.n = work[g].ev.n /\ work[g].ev.n \in Nat
  <2>1. work[g].ev \in Event /\ u \in Users
    BY <1>1, Concerned, OfUser DEF FlowInv, TypeInv
  <2> QED
    BY <2>1 DEF Entry, Event
<1> HIDE DEF e, u
<1>4. \A v \in Users : \A i \in DOMAIN blockLog'[v] : blockLog'[v][i].n = work[g].ev.n
                          \/ (i \in DOMAIN blockLog[v] /\ blockLog'[v][i] = blockLog[v][i])
  <2> SUFFICES ASSUME NEW v \in Users, NEW i \in DOMAIN blockLog'[v]
               PROVE  blockLog'[v][i].n = work[g].ev.n
                          \/ (i \in DOMAIN blockLog[v] /\ blockLog'[v][i] = blockLog[v][i])
    OBVIOUS
  <2>1. blockLog \in [Users -> Seq(Entry)]
    BY DEF FlowInv, TypeInv, TypeOK
  <2>2. CASE v = u
    <3>1. blockLog[u] \in Seq(Entry) /\ blockLog'[u] = Append(blockLog[u], e)
      BY <1>2, <1>3, <2>1
    <3> QED
      BY <1>3, <2>2, <3>1
  <2>3. CASE v # u
    BY <1>2, <2>1, <2>3
  <2> QED
    BY <2>2, <2>3
<1>5. \A q \in Windowed, n \in Nat : Logged(q, n)' => Logged(q, n) \/ (q = "block" /\ n = work[g].ev.n)
  BY <1>2, <1>4 DEF Logged
<1>6. /\ Further(g, "block") /\ work'[g].hit = hit /\ Pattern(work[g].left) = "block"
      /\ (hit => work'[g].left = work[g].left)
  BY <1>1, VerdictMoves DEF FlowInv, TypeInv
<1>7. ~ work[g].hit
  BY <1>1 DEF At
<1> QED
  BY <1>1, <1>2, <1>5, <1>6, <1>7, SMTT(60) DEF Recorded

LEMMA HoneyRecorded ==
  ASSUME FlowInv, NEW g \in Inspectors, RecordHoney(g),
         NEW hit, hit = (Cardinality(layers'[work[g].ev.of.trace]) >= 2)
  PROVE  hit \in BOOLEAN /\ Recorded(g, "honey", hit)
<1>1. At(g, "honey") /\ Verdict(g, hit) /\ hit \in BOOLEAN
  <2> DEFINE seen == Cardinality(layers'[work[g].ev.of.trace])
  <2>1. At(g, "honey") /\ Verdict(g, seen >= 2)
    BY Zenon DEF RecordHoney
  <2> HIDE DEF seen
  <2>2. hit = (seen >= 2)
    BY DEF seen
  <2> QED
    BY <2>1, <2>2
<1>2. UNCHANGED <<inspected, reported, userLog, blockLog>> /\ honeyLog' = Append(honeyLog, work[g].ev)
  BY DEF RecordHoney, flowVars, reportVars
<1>3. work[g].ev \in Event
  BY <1>1, Concerned DEF FlowInv, TypeInv
<1>4. \A i \in DOMAIN honeyLog' : honeyLog'[i].n = work[g].ev.n
                          \/ (i \in DOMAIN honeyLog /\ honeyLog'[i] = honeyLog[i])
  <2>1. honeyLog \in Seq(Event)
    BY DEF FlowInv, TypeInv, TypeOK
  <2> QED
    BY <1>2, <1>3, <2>1
<1>5. \A q \in Windowed, n \in Nat : Logged(q, n)' => Logged(q, n) \/ (q = "honey" /\ n = work[g].ev.n)
  BY <1>2, <1>4 DEF Logged
<1>6. /\ Further(g, "honey") /\ work'[g].hit = hit /\ Pattern(work[g].left) = "honey"
      /\ (hit => work'[g].left = work[g].left)
  BY <1>1, VerdictMoves DEF FlowInv, TypeInv
<1>7. ~ work[g].hit
  BY <1>1 DEF At
<1> QED
  BY <1>1, <1>2, <1>5, <1>6, <1>7, SMTT(60) DEF Recorded

LEMMA FireFired ==
  ASSUME FlowInv, NEW g \in Inspectors, Fire(g)
  PROVE  Fired(g)
<1>1. Further(g, Pattern(work[g].left)) /\ ~ work'[g].hit
  BY FireTyped DEF FlowInv
<1>2. Pattern(work[g].left) \in Windowed => work[g].hit
  BY DEF Fire, At, Windowed
<1> QED
  BY <1>1, <1>2 DEF Fire, Fired, logVars

LEMMA BeginBegun ==
  ASSUME FlowInv, NEW g \in Inspectors, NEW t \in Template, <<t.module, t.type>> \in Keys,
         NEW at \in Time, Begin(g, t, at)
  PROVE  Begun(g)
<1>1. UNCHANGED <<reported, userLog, blockLog, honeyLog>>
  BY DEF Begin, reportVars, logVars
<1> QED
  BY <1>1, BeginTyped DEF Begun, FlowInv

LEMMA QuietRecorded ==
  ASSUME FlowInv, NEW g \in Inspectors, NEW p, NEW hit \in BOOLEAN, Recorded(g, p, hit)
  PROVE  NumberInv' /\ FreshInv' /\ \A q \in Windowed : q # p => Quiet(q)
BY NumberRecorded DEF Quiet

\* What any step does: each pattern's window and what is told of it are left alone
\* unless an event is recorded for it.
LEMMA FlowStep ==
  ASSUME FlowInv, [Next]_vars
  PROVE  /\ FlowInv'
         /\ (Quiet("user") /\ UNCHANGED <<users, userLog>>) \/ \E g \in Inspectors : RecordUser(g)
         /\ (Quiet("block") /\ UNCHANGED <<blocks, blockLog>>) \/ \E g \in Inspectors : RecordBlock(g)
         /\ (Quiet("honey") /\ UNCHANGED <<layers, times, honeyLog>>) \/ \E g \in Inspectors : RecordHoney(g)
<1>0. TypeInv'
  BY TypeStep DEF FlowInv
<1>1. {"user", "block", "honey"} = Windowed
  BY DEF Windowed
<1>2. ASSUME NEW g \in Inspectors, Begun(g)
      PROVE  NumberInv' /\ FreshInv' /\ \A q \in Windowed : Quiet(q)
  BY <1>2, NumberBegun DEF Quiet
<1>3. ASSUME NEW g \in Inspectors, NEW t \in Templates, NEW at \in Time, Receive(g, t, at)
      PROVE  /\ NumberInv' /\ FreshInv' /\ \A q \in Windowed : Quiet(q)
             /\ UNCHANGED <<users, userLog, blocks, blockLog, layers, times, honeyLog>>
  <2>1. Begun(g)
    BY <1>3, TemplateTyped, BeginBegun DEF Receive
  <2> QED
    BY <1>2, <1>3, <2>1 DEF Receive, Begin, honeyVars, logVars
<1>4. ASSUME NEW g \in Inspectors, NEW r \in spawned, NEW at \in Time, TakeOwn(g, r, at)
      PROVE  /\ NumberInv' /\ FreshInv' /\ \A q \in Windowed : Quiet(q)
             /\ UNCHANGED <<users, userLog, blocks, blockLog, layers, times, honeyLog>>
  <2>1. r \in Report
    BY DEF FlowInv, TypeInv, TypeOK
  <2>2. Begun(g)
    BY <1>4, <2>1, OwnEventTyped, BeginBegun DEF TakeOwn
  <2> QED
    BY <1>2, <1>4, <2>2 DEF TakeOwn, Begin, honeyVars, logVars
<1>5. ASSUME NEW g \in Inspectors, RecordBaseline(g)
      PROVE  /\ NumberInv' /\ FreshInv' /\ \A q \in Windowed : Quiet(q)
             /\ UNCHANGED <<users, userLog, blocks, blockLog, layers, times, honeyLog>>
  <2>1. NumberInv' /\ FreshInv' /\ \A q \in Windowed : q # "baseline" => Quiet(q)
    BY <1>5, BaselineRecorded, QuietRecorded
  <2>2. "baseline" \notin Windowed
    BY SMTT(60) DEF Windowed
  <2> QED
    BY <1>5, <2>1, <2>2 DEF RecordBaseline, honeyVars, logVars
<1>6. ASSUME NEW g \in Inspectors, RecordUser(g)
      PROVE  /\ NumberInv' /\ FreshInv' /\ \A q \in Windowed : q # "user" => Quiet(q)
             /\ UNCHANGED <<blocks, blockLog, layers, times, honeyLog>>
  BY <1>6, UserRecorded, QuietRecorded, ZenonT(60) DEF RecordUser, honeyVars
<1>7. ASSUME NEW g \in Inspectors, RecordBlock(g)
      PROVE  /\ NumberInv' /\ FreshInv' /\ \A q \in Windowed : q # "block" => Quiet(q)
             /\ UNCHANGED <<users, userLog, layers, times, honeyLog>>
  BY <1>7, BlockRecorded, QuietRecorded, ZenonT(60) DEF RecordBlock, honeyVars
<1>8. ASSUME NEW g \in Inspectors, RecordHoney(g)
      PROVE  /\ NumberInv' /\ FreshInv' /\ \A q \in Windowed : q # "honey" => Quiet(q)
             /\ UNCHANGED <<users, userLog, blocks, blockLog>>
  BY <1>8, HoneyRecorded, QuietRecorded DEF RecordHoney
<1>9. ASSUME NEW g \in Inspectors, Fire(g)
      PROVE  /\ NumberInv' /\ FreshInv' /\ \A q \in Windowed : Quiet(q)
             /\ UNCHANGED <<users, userLog, blocks, blockLog, layers, times, honeyLog>>
  <2>1. Fired(g)
    BY <1>9, FireFired
  <2> QED
    BY <1>9, <2>1, NumberFired DEF Fire, Quiet, honeyVars, logVars
<1>10. CASE UNCHANGED vars
  <2>1. UNCHANGED <<inspected, work, reported, users, userLog, blocks, blockLog, layers, times, honeyLog>>
    BY <1>10 DEF vars, flowVars, honeyVars, reportVars, logVars
  <2>2. NumberInv' /\ FreshInv'
    BY <2>1 DEF FlowInv, NumberInv, FreshInv, Pending, Logged, Said
  <2>3. Quiet("user") /\ Quiet("block") /\ Quiet("honey")
    BY <2>1 DEF Quiet, Told, Said
  <2> QED
    BY <1>0, <2>1, <2>2, <2>3 DEF FlowInv
<1> QED
  BY <1>0, <1>1, <1>3, <1>4, <1>5, <1>6, <1>7, <1>8, <1>9, <1>10 DEF Next, Inspect, FlowInv

-----------------------------------------------------------------------------
(* The verdicts.  What was told of an entry is what its window held when it   *)
(* was added.                                                                 *)

UserCounts ==
    \A u \in Users :
        /\ WindowOf(userLog[u], users[u], UserWindow)
        /\ userLog[u] # <<>> => UserLimit > 0
        /\ \A i \in DOMAIN userLog[u] :
              Told("user", userLog[u][i].n) <=> Cardinality(Kept(userLog[u], i, UserWindow)) = UserLimit

BlockCounts ==
    \A u \in Users :
        /\ WindowOf(blockLog[u], blocks[u], BlockWindow)
        /\ \A i \in DOMAIN blockLog[u] :
              Told("block", blockLog[u][i].n) <=> Cardinality(Kept(blockLog[u], i, BlockWindow)) >= BlockCount

LEMMA LogsTyped ==
  ASSUME TypeOK, NEW u \in Users
  PROVE  /\ userLog[u] \in Seq(Entry) /\ blockLog[u] \in Seq(Entry)
         /\ \A i \in DOMAIN userLog[u] : userLog[u][i].n \in Nat
         /\ \A i \in DOMAIN blockLog[u] : blockLog[u][i].n \in Nat
<1>1. userLog[u] \in Seq(Entry) /\ blockLog[u] \in Seq(Entry)
  BY DEF TypeOK
<1>2. \A log \in Seq(Entry) : \A i \in DOMAIN log : log[i] \in Entry
  OBVIOUS
<1>3. \A e \in Entry : e.n \in Nat
  BY DEF Entry
<1> QED
  BY <1>1, <1>2, <1>3

LEMMA UserQuiet ==
  ASSUME TypeOK, UserCounts, Quiet("user"), UNCHANGED <<users, userLog>>
  PROVE  UserCounts'
<1>1. ASSUME NEW u \in Users
      PROVE  WindowOf(userLog[u], users[u], UserWindow)' /\ (userLog'[u] # <<>> => UserLimit > 0)
  <2>1. WindowOf(userLog[u], users[u], UserWindow) /\ (userLog[u] # <<>> => UserLimit > 0)
    BY DEF UserCounts
  <2> QED
    BY <2>1 DEF WindowOf, Kept
<1>2. ASSUME NEW u \in Users, NEW i \in DOMAIN userLog'[u], NEW n, n = userLog'[u][i].n
      PROVE  Told("user", n)' <=> Cardinality(Kept(userLog'[u], i, UserWindow)) = UserLimit
  <2>1. userLog' = userLog
    OBVIOUS
  <2>2. i \in DOMAIN userLog[u] /\ n = userLog[u][i].n /\ n \in Nat
    BY <1>2, <2>1, LogsTyped
  <2>3. Told("user", n) <=> Cardinality(Kept(userLog[u], i, UserWindow)) = UserLimit
    BY <2>2 DEF UserCounts
  <2> QED
    BY <2>1, <2>2, <2>3 DEF Quiet
<1>3. ASSUME NEW u \in Users, NEW i \in DOMAIN userLog'[u]
      PROVE  Told("user", userLog[u][i].n)' <=> (Cardinality(Kept(userLog[u], i, UserWindow)) = UserLimit)'
  BY <1>2 DEF Told, Said, Kept
<1> QED
  BY <1>1, <1>3 DEF UserCounts

LEMMA BlockQuiet ==
  ASSUME TypeOK, BlockCounts, Quiet("block"), UNCHANGED <<blocks, blockLog>>
  PROVE  BlockCounts'
<1>1. ASSUME NEW u \in Users
      PROVE  WindowOf(blockLog[u], blocks[u], BlockWindow)'
  <2>1. WindowOf(blockLog[u], blocks[u], BlockWindow)
    BY DEF BlockCounts
  <2> QED
    BY <2>1 DEF WindowOf, Kept
<1>2. ASSUME NEW u \in Users, NEW i \in DOMAIN blockLog'[u], NEW n, n = blockLog'[u][i].n
      PROVE  Told("block", n)' <=> Cardinality(Kept(blockLog'[u], i, BlockWindow)) >= BlockCount
  <2>1. blockLog' = blockLog
    OBVIOUS
  <2>2. i \in DOMAIN blockLog[u] /\ n = blockLog[u][i].n /\ n \in Nat
    BY <1>2, <2>1, LogsTyped
  <2>3. Told("block", n) <=> Cardinality(Kept(blockLog[u], i, BlockWindow)) >= BlockCount
    BY <2>2 DEF BlockCounts
  <2> QED
    BY <2>1, <2>2, <2>3 DEF Quiet
<1>3. ASSUME NEW u \in Users, NEW i \in DOMAIN blockLog'[u]
      PROVE  Told("block", blockLog[u][i].n)' <=> (Cardinality(Kept(blockLog[u], i, BlockWindow)) >= BlockCount)'
  BY <1>2 DEF Told, Said, Kept
<1> QED
  BY <1>1, <1>3 DEF BlockCounts

\* Recording an event tells of no other.
LEMMA RecordTells ==
  ASSUME FlowInv, NEW g \in Inspectors, NEW p \in Windowed, At(g, p),
         NEW hit \in BOOLEAN, Recorded(g, p, hit)
  PROVE  /\ work[g].ev \in Event /\ work[g].ev.n \in Nat /\ ~ Logged(p, work[g].ev.n)
         /\ \A n \in Nat : n = work[g].ev.n => (Told(p, n)' <=> hit)
         /\ \A n \in Nat : n # work[g].ev.n => (Told(p, n)' <=> Told(p, n))
<1>1. work[g] \in Work /\ Pending(g, p)
  BY AtPending DEF FlowInv
<1>2. work[g].ev \in Event /\ work[g].ev.n \in Nat
  BY <1>1 DEF Work, Event
<1>3. ~ Logged(p, work[g].ev.n) /\ ~ Said(p, work[g].ev.n)
  BY <1>1 DEF FlowInv, FreshInv
<1>4. PICK m \in Nat : m = work[g].ev.n
  BY <1>2
<1>5. ~ Told(p, m)
  <2>1. work[g] # Idle /\ ~ work[g].hit
    BY <1>1, IdleShape DEF At
  <2>2. \A h \in Inspectors : work[h].hit /\ work[h].ev.n = m => h = g
    BY <1>4, <2>1, IdleShape DEF FlowInv, NumberInv
  <2> QED
    BY <1>3, <1>4, <2>1, <2>2 DEF Told
<1>6. \A n \in Nat : Told(p, n)' <=> (Told(p, n) \/ (hit /\ n = m))
  BY <1>4, NumberRecorded
<1>7. Told(p, m)' <=> hit
  BY <1>5, <1>6
<1> QED
  BY <1>2, <1>3, <1>4, <1>6, <1>7

LEMMA UserCounted ==
  ASSUME FlowInv, UserCounts, NEW g \in Inspectors, RecordUser(g)
  PROVE  UserCounts'
<1> DEFINE ev == work[g].ev
           v == ev.of.user
           e == [at |-> ev.at, n |-> ev.n]
           w == Added(users[v], ev, UserWindow)
           next == Append(userLog[v], e)
           hit == (Cardinality(w) = UserLimit)
<1>1. At(g, "user") /\ hit \in BOOLEAN /\ Recorded(g, "user", hit) /\ "user" \in Windowed
  BY UserRecorded DEF RecordUser, Windowed
<1>2. /\ ev \in Event /\ ev.n \in Nat /\ ~ Logged("user", ev.n)
      /\ \A n \in Nat : n = ev.n => (Told("user", n)' <=> hit)
      /\ \A n \in Nat : n # ev.n => (Told("user", n)' <=> Told("user", n))
  <2> HIDE DEF hit
  <2> QED
    BY <1>1, RecordTells
<1>3. v \in Users /\ UserLimit > 0
  BY <1>1, Concerned, OfUser DEF FlowInv, TypeInv
<1>4. /\ users' = [users EXCEPT ![v] = w]
      /\ userLog' = [userLog EXCEPT ![v] = Append(@, e)]
  BY DEF RecordUser
<1>5. /\ users \in [Users -> SUBSET Entry] /\ userLog \in [Users -> Seq(Entry)]
      /\ UserWindow \in Nat \ {0}
  BY WindowAssumption DEF FlowInv, TypeInv, TypeOK
<1>6. \A u \in Users : \A i \in DOMAIN userLog[u] : userLog[u][i].n # ev.n
  BY <1>2 DEF Logged
<1>7. /\ WindowOf(next, w, UserWindow)
      /\ Cardinality(w) = Cardinality(Kept(next, Len(next), UserWindow))
      /\ \A i \in DOMAIN userLog[v] : Kept(next, i, UserWindow) = Kept(userLog[v], i, UserWindow)
  <2> DEFINE log == userLog[v]
             old == users[v]
  <2>1. log \in Seq(Entry) /\ WindowOf(log, old, UserWindow) /\ \A i \in DOMAIN log : log[i].n # ev.n
    BY <1>3, <1>5, <1>6 DEF UserCounts
  <2> HIDE DEF log, old, ev
  <2>2. Append(log, [at |-> ev.at, n |-> ev.n]) = next
    BY DEF log
  <2> HIDE DEF next
  <2>3. WindowOf(next, Added(old, ev, UserWindow), UserWindow)
    BY <1>2, <1>5, <2>1, <2>2, WindowNext
  <2>4. Cardinality(Added(old, ev, UserWindow)) = Cardinality(Kept(next, Len(next), UserWindow))
    <3>1. next \in Seq(Entry)
      BY <1>2, <1>5, <2>1, <2>2, WindowNext
    <3> DEFINE after == Added(old, ev, UserWindow)
    <3>2. WindowOf(next, after, UserWindow)
      BY <2>3
    <3> HIDE DEF after
    <3>3. Cardinality(after) = Cardinality(Kept(next, Len(next), UserWindow))
      BY <3>1, <3>2, WindowSize
    <3> QED
      BY <3>3 DEF after
  <2>5. ASSUME NEW i \in DOMAIN log
        PROVE  Kept(next, i, UserWindow) = Kept(log, i, UserWindow)
    <3>1. \A j \in 1..i : next[j] = log[j] /\ \A m \in (j + 1)..i : next[m] = log[m]
      BY <2>1, <2>2
    <3> QED
      BY <3>1 DEF Kept
  <2> QED
    BY <2>3, <2>4, <2>5 DEF log, old
<1>8. e.n = ev.n
  OBVIOUS
<1> HIDE DEF ev, v, e, w
<1>9. /\ users'[v] = w /\ userLog'[v] = next
      /\ \A u \in Users : u # v => users'[u] = users[u] /\ userLog'[u] = userLog[u]
  BY <1>3, <1>4, <1>5
<1>10. /\ userLog[v] \in Seq(Entry) /\ DOMAIN next = 1..(Len(userLog[v]) + 1) /\ Len(next) = Len(userLog[v]) + 1
       /\ next[Len(next)] = e /\ \A i \in DOMAIN userLog[v] : next[i] = userLog[v][i]
       /\ DOMAIN userLog[v] = 1..Len(userLog[v]) /\ Len(userLog[v]) \in Nat
  BY <1>3, <1>5
<1> HIDE DEF next
<1>11. ASSUME NEW u \in Users
       PROVE  WindowOf(userLog[u], users[u], UserWindow)' /\ (userLog'[u] # <<>> => UserLimit > 0)
  <2>1. CASE u = v
    BY <1>3, <1>7, <1>9, <2>1 DEF WindowOf, Kept
  <2>2. CASE u # v
    <3>1. WindowOf(userLog[u], users[u], UserWindow) /\ (userLog[u] # <<>> => UserLimit > 0)
      BY DEF UserCounts
    <3>2. userLog'[u] = userLog[u] /\ users'[u] = users[u]
      BY <1>9, <2>2
    <3> QED
      BY <3>1, <3>2 DEF WindowOf, Kept
  <2> QED
    BY <2>1, <2>2
<1>12. ASSUME NEW u \in Users, NEW i \in DOMAIN userLog[u]
       PROVE  /\ userLog[u][i].n \in Nat /\ userLog[u][i].n # ev.n
              /\ Told("user", userLog[u][i].n) <=> Cardinality(Kept(userLog[u], i, UserWindow)) = UserLimit
  BY <1>6, LogsTyped DEF UserCounts, FlowInv, TypeInv
<1>13. ASSUME NEW u \in Users, NEW i \in DOMAIN userLog'[u], NEW n, n = userLog'[u][i].n
       PROVE  Told("user", n)' <=> Cardinality(Kept(userLog'[u], i, UserWindow)) = UserLimit
  <2>1. CASE u # v
    <3>1. userLog'[u] = userLog[u] /\ i \in DOMAIN userLog[u] /\ n = userLog[u][i].n
      BY <1>9, <1>13, <2>1
    <3> QED
      BY <1>2, <1>12, <3>1
  <2>2. CASE u = v /\ i = Len(next)
    <3>1. userLog'[u] = next /\ n = ev.n /\ n \in Nat
      BY <1>2, <1>8, <1>9, <1>10, <1>13, <2>2
    <3>2. Told("user", n)' <=> hit
      BY <1>2, <3>1
    <3>3. Cardinality(Kept(userLog'[u], i, UserWindow)) = Cardinality(w)
      BY <1>7, <2>2, <3>1
    <3> QED
      BY <3>2, <3>3
  <2>3. CASE u = v /\ i # Len(next)
    <3>1. userLog'[u] = next /\ i \in DOMAIN userLog[v] /\ n = userLog[v][i].n
      BY <1>9, <1>10, <1>13, <2>3
    <3>2. Kept(next, i, UserWindow) = Kept(userLog[v], i, UserWindow)
      BY <1>7, <3>1
    <3> QED
      BY <1>2, <1>3, <1>12, <3>1, <3>2
  <2> QED
    BY <2>1, <2>2, <2>3
<1>14. ASSUME NEW u \in Users, NEW i \in DOMAIN userLog'[u]
       PROVE  Told("user", userLog[u][i].n)' <=> (Cardinality(Kept(userLog[u], i, UserWindow)) = UserLimit)'
  BY <1>13 DEF Told, Said, Kept
<1> QED
  BY <1>11, <1>14, SMTT(60) DEF UserCounts

LEMMA BlockCounted ==
  ASSUME FlowInv, BlockCounts, NEW g \in Inspectors, RecordBlock(g)
  PROVE  BlockCounts'
<1> DEFINE ev == work[g].ev
           v == ev.of.user
           e == [at |-> ev.at, n |-> ev.n]
           w == Added(blocks[v], ev, BlockWindow)
           next == Append(blockLog[v], e)
           hit == (Cardinality(w) >= BlockCount)
<1>1. At(g, "block") /\ hit \in BOOLEAN /\ Recorded(g, "block", hit) /\ "block" \in Windowed
  BY BlockRecorded DEF RecordBlock, Windowed
<1>2. /\ ev \in Event /\ ev.n \in Nat /\ ~ Logged("block", ev.n)
      /\ \A n \in Nat : n = ev.n => (Told("block", n)' <=> hit)
      /\ \A n \in Nat : n # ev.n => (Told("block", n)' <=> Told("block", n))
  <2> HIDE DEF hit
  <2> QED
    BY <1>1, RecordTells
<1>3. v \in Users
  BY <1>1, Concerned, OfUser DEF FlowInv, TypeInv
<1>4. /\ blocks' = [blocks EXCEPT ![v] = w]
      /\ blockLog' = [blockLog EXCEPT ![v] = Append(@, e)]
  BY DEF RecordBlock
<1>5. /\ blocks \in [Users -> SUBSET Entry] /\ blockLog \in [Users -> Seq(Entry)]
      /\ BlockWindow \in Nat \ {0}
  BY WindowAssumption DEF FlowInv, TypeInv, TypeOK
<1>6. \A u \in Users : \A i \in DOMAIN blockLog[u] : blockLog[u][i].n # ev.n
  BY <1>2 DEF Logged
<1>7. /\ WindowOf(next, w, BlockWindow)
      /\ Cardinality(w) = Cardinality(Kept(next, Len(next), BlockWindow))
      /\ \A i \in DOMAIN blockLog[v] : Kept(next, i, BlockWindow) = Kept(blockLog[v], i, BlockWindow)
  <2> DEFINE log == blockLog[v]
             old == blocks[v]
  <2>1. log \in Seq(Entry) /\ WindowOf(log, old, BlockWindow) /\ \A i \in DOMAIN log : log[i].n # ev.n
    BY <1>3, <1>5, <1>6 DEF BlockCounts
  <2> HIDE DEF log, old, ev
  <2>2. Append(log, [at |-> ev.at, n |-> ev.n]) = next
    BY DEF log
  <2> HIDE DEF next
  <2>3. WindowOf(next, Added(old, ev, BlockWindow), BlockWindow)
    BY <1>2, <1>5, <2>1, <2>2, WindowNext
  <2>4. Cardinality(Added(old, ev, BlockWindow)) = Cardinality(Kept(next, Len(next), BlockWindow))
    <3>1. next \in Seq(Entry)
      BY <1>2, <1>5, <2>1, <2>2, WindowNext
    <3> DEFINE after == Added(old, ev, BlockWindow)
    <3>2. WindowOf(next, after, BlockWindow)
      BY <2>3
    <3> HIDE DEF after
    <3>3. Cardinality(after) = Cardinality(Kept(next, Len(next), BlockWindow))
      BY <3>1, <3>2, WindowSize
    <3> QED
      BY <3>3 DEF after
  <2>5. ASSUME NEW i \in DOMAIN log
        PROVE  Kept(next, i, BlockWindow) = Kept(log, i, BlockWindow)
    <3>1. \A j \in 1..i : next[j] = log[j] /\ \A m \in (j + 1)..i : next[m] = log[m]
      BY <2>1, <2>2
    <3> QED
      BY <3>1 DEF Kept
  <2> QED
    BY <2>3, <2>4, <2>5 DEF log, old
<1>8. e.n = ev.n
  OBVIOUS
<1> HIDE DEF ev, v, e, w
<1>9. /\ blocks'[v] = w /\ blockLog'[v] = next
      /\ \A u \in Users : u # v => blocks'[u] = blocks[u] /\ blockLog'[u] = blockLog[u]
  BY <1>3, <1>4, <1>5
<1>10. /\ blockLog[v] \in Seq(Entry) /\ DOMAIN next = 1..(Len(blockLog[v]) + 1) /\ Len(next) = Len(blockLog[v]) + 1
       /\ next[Len(next)] = e /\ \A i \in DOMAIN blockLog[v] : next[i] = blockLog[v][i]
       /\ DOMAIN blockLog[v] = 1..Len(blockLog[v]) /\ Len(blockLog[v]) \in Nat
  BY <1>3, <1>5
<1> HIDE DEF next
<1>11. ASSUME NEW u \in Users
       PROVE  WindowOf(blockLog[u], blocks[u], BlockWindow)'
  <2>1. CASE u = v
    BY <1>3, <1>7, <1>9, <2>1 DEF WindowOf, Kept
  <2>2. CASE u # v
    <3>1. WindowOf(blockLog[u], blocks[u], BlockWindow)
      BY DEF BlockCounts
    <3>2. blockLog'[u] = blockLog[u] /\ blocks'[u] = blocks[u]
      BY <1>9, <2>2
    <3> QED
      BY <3>1, <3>2 DEF WindowOf, Kept
  <2> QED
    BY <2>1, <2>2
<1>12. ASSUME NEW u \in Users, NEW i \in DOMAIN blockLog[u]
       PROVE  /\ blockLog[u][i].n \in Nat /\ blockLog[u][i].n # ev.n
              /\ Told("block", blockLog[u][i].n) <=> Cardinality(Kept(blockLog[u], i, BlockWindow)) >= BlockCount
  BY <1>6, LogsTyped DEF BlockCounts, FlowInv, TypeInv
<1>13. ASSUME NEW u \in Users, NEW i \in DOMAIN blockLog'[u], NEW n, n = blockLog'[u][i].n
       PROVE  Told("block", n)' <=> Cardinality(Kept(blockLog'[u], i, BlockWindow)) >= BlockCount
  <2>1. CASE u # v
    <3>1. blockLog'[u] = blockLog[u] /\ i \in DOMAIN blockLog[u] /\ n = blockLog[u][i].n
      BY <1>9, <1>13, <2>1
    <3> QED
      BY <1>2, <1>12, <3>1
  <2>2. CASE u = v /\ i = Len(next)
    <3>1. blockLog'[u] = next /\ n = ev.n /\ n \in Nat
      BY <1>2, <1>8, <1>9, <1>10, <1>13, <2>2
    <3>2. Told("block", n)' <=> hit
      BY <1>2, <3>1
    <3>3. Cardinality(Kept(blockLog'[u], i, BlockWindow)) = Cardinality(w)
      BY <1>7, <2>2, <3>1
    <3> QED
      BY <3>2, <3>3
  <2>3. CASE u = v /\ i # Len(next)
    <3>1. blockLog'[u] = next /\ i \in DOMAIN blockLog[v] /\ n = blockLog[v][i].n
      BY <1>9, <1>10, <1>13, <2>3
    <3>2. Kept(next, i, BlockWindow) = Kept(blockLog[v], i, BlockWindow)
      BY <1>7, <3>1
    <3> QED
      BY <1>2, <1>3, <1>12, <3>1, <3>2
  <2> QED
    BY <2>1, <2>2, <2>3
<1>14. ASSUME NEW u \in Users, NEW i \in DOMAIN blockLog'[u]
       PROVE  Told("block", blockLog[u][i].n)' <=> (Cardinality(Kept(blockLog[u], i, BlockWindow)) >= BlockCount)'
  BY <1>13 DEF Told, Said, Kept
<1> QED
  BY <1>11, <1>14, SMTT(60) DEF BlockCounts

-----------------------------------------------------------------------------
(* Honey layers.  A layer that was hit is remembered until a hit that is a    *)
(* layer window ahead of the last one of its trace, and whether another was   *)
(* remembered is what was told of a hit.                                      *)

Others(log, j) ==
    {i \in 1..j : log[i].of.trace = log[j].of.trace /\ log[i].of.module # log[j].of.module}

\* Between the hits i and j one came that was a layer window ahead of an earlier one.
Split(log, i, j) ==
    \E l, k \in 1..j : i <= l /\ l < k /\ log[l].at < log[k].at - LayerWindow

LayerInv ==
    /\ \A t \in Traces : IsFiniteSet(layers[t])
    /\ \A t \in Traces : \A m \in layers[t] :
          \E i \in DOMAIN honeyLog : honeyLog[i].of.trace = t /\ honeyLog[i].of.module = m
    /\ \A i \in DOMAIN honeyLog :
          /\ honeyLog[i].of.trace \in Traces
          /\ honeyLog[i].of.module \in layers[honeyLog[i].of.trace] \/ Split(honeyLog, i, Len(honeyLog))
    /\ \A t \in Traces : times[t] # Never =>
          \E l \in DOMAIN honeyLog :
              times[t] = honeyLog[l].at /\ \A i \in DOMAIN honeyLog : honeyLog[i].of.trace = t => i <= l

HoneyCounts ==
    \A j \in DOMAIN honeyLog :
        /\ Told("honey", honeyLog[j].n) => Others(honeyLog, j) # {}
        /\ Told("honey", honeyLog[j].n) \/ \A i \in Others(honeyLog, j) : Split(honeyLog, i, j)

\* One hit more leaves what was said of the others.
LEMMA HitNext ==
  ASSUME NEW log \in Seq(Event), NEW ev \in Event, NEW next, next = Append(log, ev)
  PROVE  /\ next \in Seq(Event) /\ Len(log) \in Nat /\ Len(next) = Len(log) + 1
         /\ DOMAIN log = 1..Len(log) /\ DOMAIN next = 1..Len(next)
         /\ next[Len(next)] = ev /\ \A i \in 1..Len(log) : next[i] = log[i]
         /\ \A j \in 1..Len(log) : \A i \in 1..Len(log) : Split(log, i, j) => Split(next, i, j)
         /\ \A i \in 1..Len(log) : Split(log, i, Len(log)) => Split(next, i, Len(next))
<1>1. /\ next \in Seq(Event) /\ Len(log) \in Nat /\ Len(next) = Len(log) + 1
      /\ DOMAIN log = 1..Len(log) /\ DOMAIN next = 1..Len(next)
      /\ next[Len(next)] = ev /\ \A i \in 1..Len(log) : next[i] = log[i]
  OBVIOUS
<1>2. ASSUME NEW j \in 1..Len(log), NEW i \in 1..Len(log), Split(log, i, j)
      PROVE  Split(next, i, j) /\ Split(next, i, Len(next))
  <2>1. PICK l \in 1..j, k \in 1..j : i <= l /\ l < k /\ log[l].at < log[k].at - LayerWindow
    BY <1>2 DEF Split
  <2>2. next[l] = log[l] /\ next[k] = log[k] /\ l \in 1..Len(next) /\ k \in 1..Len(next)
    BY <1>1
  <2> QED
    BY <2>1, <2>2 DEF Split
<1>3. ASSUME NEW i \in 1..Len(log), Split(log, i, Len(log)) PROVE Split(next, i, Len(next))
  <2>1. Len(log) \in 1..Len(log)
    BY <1>1
  <2> QED
    BY <1>2, <1>3, <2>1
<1> QED
  BY <1>1, <1>2, <1>3

LEMMA LayerStep ==
  ASSUME FlowInv, LayerInv, NEW g \in Inspectors, RecordHoney(g)
  PROVE  LayerInv'
<1> DEFINE ev == work[g].ev
           hit == ev.of.trace
           gone == Forgotten(ev.at)
<1>1. ev \in Event /\ hit \in Traces /\ ev.at \in Int
  <2>1. ev \in Event /\ Applies("honey", ev)
    BY Concerned DEF RecordHoney, FlowInv, TypeInv
  <2> QED
    BY <2>1, WindowAssumption DEF Applies, Event, Template, Time
<1>2. /\ layers' = [t \in Traces |->
            (IF t \in gone THEN {} ELSE layers[t]) \cup IF t = hit THEN {ev.of.module} ELSE {}]
      /\ times' = [t \in Traces |-> IF t = hit THEN ev.at ELSE IF t \in gone THEN Never ELSE times[t]]
      /\ honeyLog' = Append(honeyLog, ev)
  BY DEF RecordHoney
<1>3. honeyLog \in Seq(Event)
  BY DEF FlowInv, TypeInv, TypeOK
<1>4. gone = {t \in Traces : times[t] # Never /\ times[t] < ev.at - LayerWindow}
  BY DEF Forgotten
<1> DEFINE log == honeyLog
           next == honeyLog'
<1>5. /\ next \in Seq(Event) /\ Len(log) \in Nat /\ Len(next) = Len(log) + 1
      /\ DOMAIN log = 1..Len(log) /\ DOMAIN next = 1..Len(next)
      /\ next[Len(next)] = ev /\ \A i \in 1..Len(log) : next[i] = log[i]
      /\ \A i \in 1..Len(log) : Split(log, i, Len(log)) => Split(next, i, Len(next))
  <2>1. log \in Seq(Event) /\ next = Append(log, ev)
    BY <1>2, <1>3
  <2> HIDE DEF log, next, ev
  <2>2. /\ next \in Seq(Event) /\ Len(log) \in Nat /\ Len(next) = Len(log) + 1
        /\ DOMAIN log = 1..Len(log) /\ DOMAIN next = 1..Len(next)
        /\ next[Len(next)] = ev /\ \A i \in 1..Len(log) : next[i] = log[i]
    BY <1>1, <2>1
  <2>3. \A i \in 1..Len(log) : Split(log, i, Len(log)) => Split(next, i, Len(next))
    BY <1>1, <2>1, HitNext
  <2> QED
    BY <2>2, <2>3
<1> HIDE DEF ev, hit, gone
<1>6. hit = ev.of.trace
  BY DEF hit
<1>7. ASSUME NEW t \in Traces PROVE IsFiniteSet(layers'[t])
  <2>1. IsFiniteSet(layers[t]) /\ IsFiniteSet({}) /\ IsFiniteSet({ev.of.module})
    BY FS_EmptySet, FS_Singleton DEF LayerInv
  <2>2. layers'[t] = (IF t \in gone THEN {} ELSE layers[t]) \cup IF t = hit THEN {ev.of.module} ELSE {}
    BY <1>2
  <2> DEFINE A == IF t \in gone THEN {} ELSE layers[t]
             B == IF t = hit THEN {ev.of.module} ELSE {}
  <2>3. IsFiniteSet(A) /\ IsFiniteSet(B)
    BY <2>1
  <2>4. layers'[t] = A \cup B
    BY <2>2
  <2> HIDE DEF A, B
  <2> QED
    BY <2>3, <2>4, FS_Union
<1>8. ASSUME NEW t \in Traces, NEW m \in layers'[t]
      PROVE  \E i \in DOMAIN next : next[i].of.trace = t /\ next[i].of.module = m
  <2>1. CASE t = hit /\ m = ev.of.module
    BY <1>5, <1>6, <2>1
  <2>2. CASE m \in layers[t]
    <3>1. PICK i \in DOMAIN log : log[i].of.trace = t /\ log[i].of.module = m
      BY <2>2 DEF LayerInv
    <3>2. i \in DOMAIN next /\ next[i] = log[i]
      BY <1>5
    <3> QED
      BY <3>1, <3>2
  <2> QED
    BY <1>2, <1>8, <2>1, <2>2
<1>9. ASSUME NEW i \in DOMAIN next
      PROVE  /\ next[i].of.trace \in Traces
             /\ next[i].of.module \in layers'[next[i].of.trace] \/ Split(next, i, Len(next))
  <2>1. CASE i = Len(next)
    BY <1>1, <1>2, <1>5, <1>6, <2>1
  <2>2. CASE i # Len(next)
    <3>1. i \in DOMAIN log /\ i \in 1..Len(log) /\ next[i] = log[i]
      BY <1>5, <2>2
    <3> DEFINE t == log[i].of.trace
               m == log[i].of.module
    <3>2. t \in Traces /\ (m \in layers[t] \/ Split(log, i, Len(log)))
      BY <3>1 DEF LayerInv
    <3>3. CASE Split(log, i, Len(log))
      BY <1>5, <3>1, <3>2, <3>3
    <3>4. CASE m \in layers[t] /\ t \notin gone
      BY <1>2, <3>1, <3>2, <3>4
    <3>5. CASE t \in gone
      <4>1. times[t] # Never /\ times[t] < ev.at - LayerWindow
        BY <1>4, <3>5
      <4>2. PICK l \in DOMAIN log : times[t] = log[l].at /\ \A j \in DOMAIN log : log[j].of.trace = t => j <= l
        BY <3>2, <4>1 DEF LayerInv
      <4>3. i <= l /\ l \in 1..Len(next) /\ Len(next) \in 1..Len(next) /\ l < Len(next)
        BY <1>5, <3>1, <4>2
      <4>4. next[l].at < next[Len(next)].at - LayerWindow
        BY <1>5, <4>1, <4>2
      <4>5. Split(next, i, Len(next))
        <5> HIDE DEF next
        <5> QED
          BY <4>3, <4>4 DEF Split
      <4> QED
        BY <3>1, <3>2, <4>5
    <3> QED
      BY <3>2, <3>3, <3>4, <3>5
  <2> QED
    BY <2>1, <2>2
<1>10. ASSUME NEW t \in Traces, times'[t] # Never
       PROVE  \E l \in DOMAIN next :
                 times'[t] = next[l].at /\ \A i \in DOMAIN next : next[i].of.trace = t => i <= l
  <2>1. CASE t = hit
    <3>1. Len(next) \in DOMAIN next /\ times'[t] = next[Len(next)].at
      BY <1>2, <1>5, <2>1
    <3> QED
      BY <1>5, <3>1
  <2>2. CASE t # hit
    <3>1. times'[t] = times[t]
      BY <1>2, <1>10, <2>2
    <3>2. PICK l \in DOMAIN log : times[t] = log[l].at /\ \A i \in DOMAIN log : log[i].of.trace = t => i <= l
      BY <1>10, <3>1 DEF LayerInv
    <3>3. l \in DOMAIN next /\ next[l] = log[l]
      BY <1>5
    <3>4. \A i \in DOMAIN next : next[i].of.trace = t => i <= l
      BY <1>5, <1>6, <2>2, <3>2
    <3> QED
      BY <3>1, <3>2, <3>3, <3>4
  <2> QED
    BY <2>1, <2>2
<1> QED
  BY <1>7, <1>8, <1>9, <1>10 DEF LayerInv, Split

LEMMA LayersQuiet ==
  ASSUME LayerInv, UNCHANGED <<layers, times, honeyLog>>
  PROVE  LayerInv'
BY DEF LayerInv, Split

LEMMA HitsTyped ==
  ASSUME TypeOK
  PROVE  honeyLog \in Seq(Event) /\ \A j \in DOMAIN honeyLog : honeyLog[j] \in Event /\ honeyLog[j].n \in Nat
<1>1. honeyLog \in Seq(Event)
  BY DEF TypeOK
<1>2. \A e \in Event : e.n \in Nat
  BY DEF Event
<1> QED
  BY <1>1, <1>2

LEMMA HoneyQuiet ==
  ASSUME TypeOK, HoneyCounts, Quiet("honey"), UNCHANGED honeyLog
  PROVE  HoneyCounts'
<1>1. ASSUME NEW j \in DOMAIN honeyLog', NEW n, n = honeyLog'[j].n
      PROVE  /\ Told("honey", n)' => Others(honeyLog', j) # {}
             /\ Told("honey", n)' \/ \A i \in Others(honeyLog', j) : Split(honeyLog', i, j)
  <2>1. honeyLog' = honeyLog
    OBVIOUS
  <2>2. j \in DOMAIN honeyLog /\ n = honeyLog[j].n /\ n \in Nat
    BY <1>1, <2>1, HitsTyped
  <2>3. /\ Told("honey", n) => Others(honeyLog, j) # {}
        /\ Told("honey", n) \/ \A i \in Others(honeyLog, j) : Split(honeyLog, i, j)
    BY <2>2 DEF HoneyCounts
  <2>4. Told("honey", n)' <=> Told("honey", n)
    BY <2>2 DEF Quiet
  <2> QED
    BY <2>1, <2>3, <2>4
<1>2. ASSUME NEW j \in DOMAIN honeyLog'
      PROVE  /\ Told("honey", honeyLog[j].n)' => Others(honeyLog', j) # {}
             /\ Told("honey", honeyLog[j].n)' \/ \A i \in Others(honeyLog', j) : Split(honeyLog', i, j)
  BY <1>1 DEF Told, Said
<1> QED
  BY <1>2 DEF HoneyCounts, Others, Split

\* Two layers are two of a finite set, and one that is not the other.
LEMMA TwoLayers ==
  ASSUME NEW S, IsFiniteSet(S), NEW x \in S
  PROVE  Cardinality(S) >= 2 <=> \E y \in S : y # x
<1>1. IsFiniteSet(S \ {x}) /\ Cardinality(S \ {x}) = Cardinality(S) - 1
  BY FS_RemoveElement
<1>2. Cardinality(S \ {x}) \in Nat /\ Cardinality(S) \in Nat
  BY <1>1, FS_CardinalityType
<1>3. Cardinality(S \ {x}) = 0 <=> S \ {x} = {}
  BY <1>1, FS_EmptySet
<1>4. Cardinality(S) >= 2 <=> S \ {x} # {}
  BY <1>1, <1>2, <1>3
<1>5. S \ {x} # {} <=> \E y \in S : y # x
  OBVIOUS
<1> QED
  BY <1>4, <1>5

LEMMA HoneyCounted ==
  ASSUME FlowInv, LayerInv, LayerInv', HoneyCounts, NEW g \in Inspectors, RecordHoney(g)
  PROVE  HoneyCounts'
<1> DEFINE ev == work[g].ev
           t == ev.of.trace
           hit == (Cardinality(layers'[t]) >= 2)
           log == honeyLog
           next == honeyLog'
<1>1. At(g, "honey") /\ hit \in BOOLEAN /\ Recorded(g, "honey", hit) /\ "honey" \in Windowed
  BY HoneyRecorded DEF RecordHoney, Windowed
<1>2. /\ ev \in Event /\ ev.n \in Nat /\ ~ Logged("honey", ev.n)
      /\ \A n \in Nat : n = ev.n => (Told("honey", n)' <=> hit)
      /\ \A n \in Nat : n # ev.n => (Told("honey", n)' <=> Told("honey", n))
  <2> HIDE DEF hit
  <2> QED
    BY <1>1, RecordTells
<1>3. t \in Traces
  <2>1. ev \in Event /\ Applies("honey", ev)
    BY <1>1, Concerned DEF FlowInv, TypeInv
  <2> QED
    BY <2>1 DEF Applies, Event, Template
<1>4. /\ log \in Seq(Event) /\ next = Append(log, ev)
      /\ layers' = [x \in Traces |->
            (IF x \in Forgotten(ev.at) THEN {} ELSE layers[x]) \cup IF x = t THEN {ev.of.module} ELSE {}]
  BY HitsTyped DEF RecordHoney, FlowInv, TypeInv
<1>5. \A i \in DOMAIN log : log[i].n # ev.n
  BY <1>2 DEF Logged
<1>6. ev.of.module \in layers'[t] /\ t = ev.of.trace
  BY <1>3, <1>4
<1>7. /\ IsFiniteSet(layers'[t])
      /\ \A m \in layers'[t] : \E i \in DOMAIN next : next[i].of.trace = t /\ next[i].of.module = m
      /\ \A i \in DOMAIN next :
            next[i].of.module \in layers'[next[i].of.trace] \/ Split(next, i, Len(next))
  BY <1>3 DEF LayerInv, Split
<1>8. \A j \in DOMAIN log :
        /\ log[j].n \in Nat
        /\ Told("honey", log[j].n) => Others(log, j) # {}
        /\ Told("honey", log[j].n) \/ \A i \in Others(log, j) : Split(log, i, j)
  BY HitsTyped DEF HoneyCounts, FlowInv, TypeInv
<1> HIDE DEF ev, t, log, next
<1>9. /\ next \in Seq(Event) /\ Len(log) \in Nat /\ Len(next) = Len(log) + 1
      /\ DOMAIN log = 1..Len(log) /\ DOMAIN next = 1..Len(next)
      /\ next[Len(next)] = ev /\ \A i \in 1..Len(log) : next[i] = log[i]
  BY <1>2, <1>4
<1>10. ASSUME NEW j \in 1..Len(log) PROVE Others(next, j) = Others(log, j)
  <2>1. next[j] = log[j] /\ \A i \in 1..j : next[i] = log[i]
    BY <1>9
  <2> QED
    BY <2>1 DEF Others
<1>11. \A j \in 1..Len(log) : \A i \in 1..Len(log) : Split(log, i, j) => Split(next, i, j)
  BY <1>2, <1>4, HitNext
<1>12. ASSUME NEW j \in DOMAIN next, NEW n, n = next[j].n
       PROVE  /\ Told("honey", n)' => Others(next, j) # {}
              /\ Told("honey", n)' \/ \A i \in Others(next, j) : Split(next, i, j)
  <2>1. CASE j = Len(next)
    <3>1. n = ev.n /\ n \in Nat /\ next[j] = ev
      BY <1>2, <1>9, <1>12, <2>1
    <3>2. Told("honey", n)' <=> hit
      BY <1>2, <3>1
    <3>3. hit <=> \E m \in layers'[t] : m # ev.of.module
      BY <1>6, <1>7, TwoLayers
    <3>4. ASSUME NEW m \in layers'[t], m # ev.of.module PROVE Others(next, j) # {}
      <4>1. PICK i \in DOMAIN next : next[i].of.trace = t /\ next[i].of.module = m
        BY <1>7
      <4>2. i \in 1..j
        BY <1>9, <2>1
      <4>3. i \in Others(next, j)
        BY <1>6, <3>1, <3>4, <4>1, <4>2 DEF Others
      <4> QED
        BY <4>3
    <3>5. ASSUME NEW i \in Others(next, j), ~ Split(next, i, j)
          PROVE  \E m \in layers'[t] : m # ev.of.module
      <4>1. i \in 1..j /\ next[i].of.trace = t /\ next[i].of.module # ev.of.module
        BY <1>6, <3>1 DEF Others
      <4>2. i \in DOMAIN next
        BY <1>9, <2>1, <4>1
      <4>3. next[i].of.module \in layers'[t]
        BY <1>7, <2>1, <3>5, <4>1, <4>2
      <4> QED
        BY <4>1, <4>3
    <3> HIDE DEF hit
    <3> QED
      BY <3>2, <3>3, <3>4, <3>5
  <2>2. CASE j # Len(next)
    <3>1. j \in 1..Len(log) /\ j \in DOMAIN log /\ n = log[j].n
      BY <1>9, <1>12, <2>2
    <3>2. n \in Nat /\ n # ev.n
      BY <1>5, <1>8, <3>1
    <3>3. Told("honey", n)' <=> Told("honey", n)
      BY <1>2, <3>2
    <3>4. Others(next, j) = Others(log, j) /\ Others(log, j) \subseteq 1..Len(log)
      BY <1>10, <3>1 DEF Others
    <3> QED
      BY <1>8, <1>11, <3>1, <3>3, <3>4
  <2> QED
    BY <2>1, <2>2
<1>13. ASSUME NEW j \in DOMAIN honeyLog'
       PROVE  /\ Told("honey", honeyLog[j].n)' => Others(honeyLog', j) # {}
              /\ Told("honey", honeyLog[j].n)' \/ \A i \in Others(honeyLog', j) : Split(honeyLog', i, j)
  BY <1>12 DEF Told, Said, next
<1> QED
  BY <1>13 DEF HoneyCounts, Others, Split

-----------------------------------------------------------------------------
(* The theorems about what is reported *)

DetectorInv ==
    /\ FlowInv
    /\ UserCounts
    /\ BlockCounts
    /\ LayerInv
    /\ HoneyCounts

LEMMA DetectorInit == Init => DetectorInv
<1> SUFFICES ASSUME Init PROVE DetectorInv
  OBVIOUS
<1>1. TypeInv
  BY TypeInit
<1>2. inspected = 0 /\ work = [g \in Inspectors |-> Idle] /\ reported = {} /\ honeyLog = <<>>
      /\ layers = [t \in Traces |-> {}] /\ times = [t \in Traces |-> Never]
  BY DEF Init
<1>3. \A u \in Users : userLog[u] = <<>> /\ blockLog[u] = <<>> /\ users[u] = {} /\ blocks[u] = {}
  BY DEF Init
<1>4. \A g \in Inspectors : work[g] = Idle
  BY <1>2
<1>5. NumberInv
  BY <1>2, <1>3, <1>4 DEF NumberInv, Logged
<1>6. FreshInv
  BY <1>4, IdleShape DEF FreshInv, Pending
<1>7. \A size : WindowOf(<<>>, {}, size)
  BY DEF WindowOf, Kept
<1>8. UserCounts /\ BlockCounts
  <2>1. DOMAIN <<>> = {}
    OBVIOUS
  <2>2. ASSUME NEW u \in Users
        PROVE  /\ WindowOf(userLog[u], users[u], UserWindow) /\ WindowOf(blockLog[u], blocks[u], BlockWindow)
               /\ userLog[u] = <<>> /\ DOMAIN userLog[u] = {} /\ DOMAIN blockLog[u] = {}
    BY <1>3, <1>7, <2>1
  <2>3. UserCounts
    BY <2>2 DEF UserCounts
  <2>4. BlockCounts
    BY <2>2 DEF BlockCounts
  <2> QED
    BY <2>3, <2>4
<1>9. LayerInv
  BY <1>2, FS_EmptySet DEF LayerInv
<1>10. HoneyCounts
  BY <1>2 DEF HoneyCounts
<1> QED
  BY <1>1, <1>5, <1>6, <1>8, <1>9, <1>10 DEF DetectorInv, FlowInv

LEMMA DetectorStep == DetectorInv /\ [Next]_vars => DetectorInv'
<1> SUFFICES ASSUME DetectorInv, [Next]_vars PROVE DetectorInv'
  OBVIOUS
<1>1. FlowInv /\ TypeOK /\ UserCounts /\ BlockCounts /\ LayerInv /\ HoneyCounts
  BY DEF DetectorInv, FlowInv, TypeInv
<1>2. FlowInv'
  BY <1>1, FlowStep
<1>3. UserCounts'
  BY <1>1, FlowStep, UserQuiet, UserCounted
<1>4. BlockCounts'
  BY <1>1, FlowStep, BlockQuiet, BlockCounted
<1>5. LayerInv' /\ HoneyCounts'
  <2>1. CASE Quiet("honey") /\ UNCHANGED <<layers, times, honeyLog>>
    BY <1>1, <2>1, LayersQuiet, HoneyQuiet
  <2>2. ASSUME NEW g \in Inspectors, RecordHoney(g) PROVE LayerInv' /\ HoneyCounts'
    BY <1>1, <2>2, LayerStep, HoneyCounted
  <2> QED
    BY <1>1, <2>1, <2>2, FlowStep
<1> QED
  BY <1>2, <1>3, <1>4, <1>5 DEF DetectorInv

LEMMA DetectorAlways == Spec => []DetectorInv
BY DetectorInit, DetectorStep, PTL DEF Spec

\* As long as the events of a user are added in the order of their times, the one
\* that reaches the limit of a minute is reported by high_freq_user and no other, and
\* so is by repeated_block every blocked one from the count on: for any number of
\* goroutines, windows and limits.
THEOREM ReportsExactCorrect == Spec => []ReportsExact
<1>1. DetectorInv => ReportsExact
  <2> SUFFICES ASSUME DetectorInv, NEW u \in Users
               PROVE  /\ \A i \in DOMAIN userLog[u] : Lateness(userLog[u], i) = 0 =>
                            (Reports(userLog[u][i], "user") <=> Rate(userLog[u], i, UserWindow) = UserLimit)
                      /\ \A i \in DOMAIN blockLog[u] : Lateness(blockLog[u], i) = 0 =>
                            (Reports(blockLog[u][i], "block") <=> Rate(blockLog[u], i, BlockWindow) >= BlockCount)
    BY DEF ReportsExact
  <2>1. userLog[u] \in Seq(Entry) /\ blockLog[u] \in Seq(Entry)
    BY LogsTyped DEF DetectorInv, FlowInv, TypeInv
  <2>2. UserWindow \in Nat \ {0} /\ BlockWindow \in Nat \ {0}
    BY WindowAssumption
  <2>3. ASSUME NEW i \in DOMAIN userLog[u], Lateness(userLog[u], i) = 0
        PROVE  Reports(userLog[u][i], "user") <=> Rate(userLog[u], i, UserWindow) = UserLimit
    <3>1. Told("user", userLog[u][i].n) <=> Cardinality(Kept(userLog[u], i, UserWindow)) = UserLimit
      BY DEF DetectorInv, UserCounts
    <3>2. Rate(userLog[u], i, UserWindow) = Cardinality(Kept(userLog[u], i, UserWindow))
      BY <2>1, <2>2, <2>3, RateKept
    <3> QED
      BY <3>1, <3>2, ReportsTold
  <2>4. ASSUME NEW i \in DOMAIN blockLog[u], Lateness(blockLog[u], i) = 0
        PROVE  Reports(blockLog[u][i], "block") <=> Rate(blockLog[u], i, BlockWindow) >= BlockCount
    <3>1. Told("block", blockLog[u][i].n) <=> Cardinality(Kept(blockLog[u], i, BlockWindow)) >= BlockCount
      BY DEF DetectorInv, BlockCounts
    <3>2. Rate(blockLog[u], i, BlockWindow) = Cardinality(Kept(blockLog[u], i, BlockWindow))
      BY <2>1, <2>2, <2>4, RateKept
    <3> QED
      BY <3>1, <3>2, ReportsTold
  <2> QED
    BY <2>3, <2>4
<1> QED
  BY <1>1, DetectorAlways, PTL

\* Hits of two modules close together, less the lateness twice: no hit split them.
LEMMA CloseHits ==
  ASSUME TypeOK, NEW j \in DOMAIN honeyLog, NEW i \in 1..j,
         honeyLog[j].at - honeyLog[i].at <= LayerWindow - 2 * Lateness(honeyLog, j)
  PROVE  ~ Split(honeyLog, i, j)
<1> DEFINE d == Lateness(honeyLog, j)
<1>1. j \in Nat \ {0} /\ \A k \in 1..j : honeyLog[k].at \in Time /\ honeyLog[k].at \in Int
  <2>1. j \in 1..Len(honeyLog) /\ \A k \in 1..j : honeyLog[k] \in Event
    BY HitsTyped
  <2>2. \A e \in Event : e.at \in Time
    BY DEF Event
  <2> QED
    BY <2>1, <2>2, WindowAssumption, SMTT(60) DEF Time
<1>2. d \in Nat /\ \A p, q \in 1..j : p <= q => honeyLog[p].at - honeyLog[q].at <= d
  BY <1>1, LatenessBounds
<1>3. LayerWindow \in Nat /\ j \in 1..j
  BY <1>1, WindowAssumption
<1> HIDE DEF d
<1>4. honeyLog[j].at - honeyLog[i].at <= LayerWindow - 2 * d
  BY DEF d
<1> SUFFICES ASSUME NEW l \in 1..j, NEW k \in 1..j, i <= l, l < k,
                    honeyLog[l].at < honeyLog[k].at - LayerWindow
             PROVE  FALSE
  BY DEF Split
<1>5. honeyLog[i].at - honeyLog[l].at <= d
  BY <1>2
<1>6. honeyLog[k].at - honeyLog[j].at <= d
  BY <1>2, <1>3
<1>7. /\ honeyLog[i].at \in Int /\ honeyLog[j].at \in Int
      /\ honeyLog[l].at \in Int /\ honeyLog[k].at \in Int
  BY <1>1, <1>3
<1> QED
  BY <1>2, <1>3, <1>4, <1>5, <1>6, <1>7

\* In any order of the events, what is closer together than the window less the
\* lateness is reported, and an intrusion is only reported of a trace that two
\* modules hit.
THEOREM LateCorrect == Spec => []LateStillReported
<1>1. DetectorInv => LateStillReported
  <2> SUFFICES ASSUME DetectorInv PROVE LateStillReported
    OBVIOUS
  <2>1. UserWindow \in Nat \ {0} /\ BlockWindow \in Nat \ {0} /\ UserLimit \in Nat /\ BlockCount \in Nat
    BY WindowAssumption, LimitAssumption
  <2>2. TypeOK
    BY DEF DetectorInv, FlowInv, TypeInv
  <2>3. ASSUME NEW u \in Users, NEW i \in DOMAIN userLog[u],
               Rate(userLog[u], i, UserWindow - Lateness(userLog[u], i)) >= UserLimit
        PROVE  \E j \in 1..i : Reports(userLog[u][j], "user")
    <3> DEFINE log == userLog[u]
    <3>1. log \in Seq(Entry) /\ i \in 1..Len(log)
      BY <2>2, LogsTyped
    <3>2. Cardinality(Kept(log, i, UserWindow)) >= UserLimit
      <4>1. /\ Rate(log, i, UserWindow - Lateness(log, i)) <= Cardinality(Kept(log, i, UserWindow))
            /\ Rate(log, i, UserWindow - Lateness(log, i)) \in Nat
        BY <2>1, <3>1, RateKept
      <4>2. Cardinality(Kept(log, i, UserWindow)) \in Nat
        BY <3>1, KeptGrows
      <4>3. Rate(log, i, UserWindow - Lateness(log, i)) >= UserLimit
        BY <2>3
      <4> QED
        BY <2>1, <4>1, <4>2, <4>3
    <3>3. UserLimit \in Nat \ {0}
      BY <2>1, <3>1 DEF DetectorInv, UserCounts
    <3>4. PICK j \in 1..i : Cardinality(Kept(log, j, UserWindow)) = UserLimit
      <4> HIDE DEF log
      <4> QED
        BY <3>1, <3>2, <3>3, LimitReached
    <3>5. j \in DOMAIN userLog[u]
      BY <3>1
    <3>6. Told("user", userLog[u][j].n)
      BY <3>4, <3>5 DEF DetectorInv, UserCounts
    <3> QED
      BY <3>6, ReportsTold
  <2>4. ASSUME NEW u \in Users, NEW i \in DOMAIN blockLog[u],
               Rate(blockLog[u], i, BlockWindow - Lateness(blockLog[u], i)) >= BlockCount
        PROVE  Reports(blockLog[u][i], "block")
    <3> DEFINE log == blockLog[u]
    <3>1. log \in Seq(Entry) /\ i \in 1..Len(log)
      BY <2>2, LogsTyped
    <3>2. Cardinality(Kept(log, i, BlockWindow)) >= BlockCount
      <4>1. /\ Rate(log, i, BlockWindow - Lateness(log, i)) <= Cardinality(Kept(log, i, BlockWindow))
            /\ Rate(log, i, BlockWindow - Lateness(log, i)) \in Nat
        BY <2>1, <3>1, RateKept
      <4>2. Cardinality(Kept(log, i, BlockWindow)) \in Nat
        BY <3>1, KeptGrows
      <4>3. Rate(log, i, BlockWindow - Lateness(log, i)) >= BlockCount
        BY <2>4
      <4> QED
        BY <2>1, <4>1, <4>2, <4>3
    <3>3. Told("block", blockLog[u][i].n)
      BY <3>2 DEF DetectorInv, BlockCounts
    <3> QED
      BY <3>3, ReportsTold
  <2>5. ASSUME NEW j \in DOMAIN honeyLog
        PROVE  /\ (\E i \in OtherLayers(j) :
                      honeyLog[j].at - honeyLog[i].at <= LayerWindow - 2 * Lateness(honeyLog, j))
                      => Reports(honeyLog[j], "honey")
               /\ Reports(honeyLog[j], "honey") => OtherLayers(j) # {}
    <3>1. OtherLayers(j) = Others(honeyLog, j)
      BY DEF OtherLayers, Others
    <3>2. /\ Told("honey", honeyLog[j].n) => Others(honeyLog, j) # {}
          /\ Told("honey", honeyLog[j].n) \/ \A i \in Others(honeyLog, j) : Split(honeyLog, i, j)
      BY DEF DetectorInv, HoneyCounts
    <3>3. Reports(honeyLog[j], "honey") <=> Told("honey", honeyLog[j].n)
      BY ReportsTold
    <3>4. ASSUME NEW i \in OtherLayers(j),
                 honeyLog[j].at - honeyLog[i].at <= LayerWindow - 2 * Lateness(honeyLog, j)
          PROVE  ~ Split(honeyLog, i, j)
      <4>1. i \in 1..j
        BY DEF OtherLayers
      <4> QED
        BY <2>2, <3>4, <4>1, CloseHits
    <3> QED
      BY <3>1, <3>2, <3>3, <3>4
  <2> QED
    BY <2>3, <2>4, <2>5 DEF LateStillReported
<1> QED
  BY <1>1, DetectorAlways, PTL
================================================================================
