---------------------------- MODULE CommonFacts -----------------------------
(***************************************************************************)
(* Facts that several proofs use: the least number principle and induction *)
(* for sets of numbers instead of predicates, so that they can be cited    *)
(* like any other fact, sequences without repetition, sums and             *)
(* concatenations.                                                         *)
(***************************************************************************)
EXTENDS Integers, SequencesExt, FiniteSetsExt, FiniteSetTheorems, SequenceTheorems, TLAPS

\* A set of natural numbers has a least element: the intervals below its elements are
\* ordered by inclusion, which is well-founded on finite sets.
LEMMA LeastNumber ==
  ASSUME NEW X \in SUBSET Nat, X # {}
  PROVE  \E m \in X : \A k \in X : m <= k
<1> DEFINE T == {0..n : n \in X}
<1>1. IsWellFoundedOn(StrictSubsetOrdering(Nat), FiniteSubsetsOf(Nat))
  BY FS_StrictSubsetOrderingWellFounded
<1>2. \A n \in X : 0..n \in FiniteSubsetsOf(Nat)
  BY FS_Interval DEF FiniteSubsetsOf
<1>3. T \subseteq FiniteSubsetsOf(Nat) /\ T # {}
  BY <1>2
<1>4. PICK t \in T : \A y \in T : ~ (<<y, t>> \in StrictSubsetOrdering(Nat))
  BY <1>1, <1>3, WFMin
<1>5. PICK m \in X : t = 0..m
  OBVIOUS
<1>6. ASSUME NEW k \in X, k < m PROVE FALSE
  <2>1. 0..k \in T /\ 0..k \subseteq 0..m /\ m \notin 0..k /\ m \in 0..m
    BY <1>6
  <2>2. <<0..k, t>> \in StrictSubsetOrdering(Nat)
    BY <1>5, <2>1 DEF StrictSubsetOrdering, FiniteSubsetsOf
  <2> QED
    BY <1>4, <2>1, <2>2
<1> QED
  BY <1>6

\* Min of the community modules is that element.
LEMMA MinOfNaturals ==
  ASSUME NEW X \in SUBSET Nat, X # {}
  PROVE  Min(X) \in X /\ \A k \in X : Min(X) <= k
  BY LeastNumber DEF Min

\* What holds at 0 and goes from each number to the next up to n holds up to n.
LEMMA SetInduction ==
  ASSUME NEW n \in Nat, NEW X, 0 \in X, \A i \in 0..(n - 1) : i \in X => i + 1 \in X
  PROVE  0..n \subseteq X
<1> SUFFICES ASSUME 0..n \ X # {} PROVE FALSE
  OBVIOUS
<1> DEFINE Y == 0..n \ X
<1>1. Y \in SUBSET Nat /\ Y # {}
  OBVIOUS
<1> HIDE DEF Y
<1>2. PICK m \in Y : \A k \in Y : m <= k
  BY <1>1, LeastNumber
<1>3. m \in 0..n /\ m \notin X
  BY <1>2 DEF Y
<1>4. m # 0
  BY <1>3
<1>5. m - 1 \in 0..(n - 1) /\ m - 1 \notin Y
  BY <1>2, <1>3, <1>4
<1>6. m - 1 \in X
  BY <1>5 DEF Y
<1>7. (m - 1) + 1 \in X
  BY <1>5, <1>6
<1> QED
  BY <1>3, <1>7

\* Functions can be applied one after the other from a start: the values in between, which is
\* what a recursive definition over 0..n asks for.
IsRun(g, n, D, base, step) ==
  g \in [0..n -> D] /\ g[0] = base /\ \A i \in 1..n : g[i] = step[i][g[i - 1]]

\* The values exist.
LEMMA Iterates ==
  ASSUME NEW n \in Nat, NEW D, NEW base \in D, NEW step \in [1..n -> [D -> D]]
  PROVE  \E g : IsRun(g, n, D, base, step)
<1> DEFINE Up(m) == \E g \in [0..m -> D] : g[0] = base /\ \A i \in 1..m : g[i] = step[i][g[i - 1]]
           X == {m \in 0..n : Up(m)}
<1>1. 0 \in X
  <2>1. Up(0)
    <3> DEFINE g == [k \in 0..0 |-> base]
    <3>1. g \in [0..0 -> D] /\ g[0] = base
      OBVIOUS
    <3>2. 1..0 = {}
      OBVIOUS
    <3> HIDE DEF g
    <3> QED
      BY <3>1, <3>2
  <2> QED
    BY <2>1
<1>2. ASSUME NEW m \in 0..(n - 1), m \in X PROVE m + 1 \in X
  <2>1. PICK g \in [0..m -> D] : g[0] = base /\ \A i \in 1..m : g[i] = step[i][g[i - 1]]
    BY <1>2
  <2>2. m + 1 \in 1..n /\ g[m] \in D
    BY <2>1
  <2>3. step[m + 1][g[m]] \in D
    BY <2>2
  <2> DEFINE h == [k \in 0..(m + 1) |-> IF k = m + 1 THEN step[m + 1][g[m]] ELSE g[k]]
  <2>4. h \in [0..(m + 1) -> D]
    BY <2>1, <2>3
  <2>5. \A k \in 0..m : h[k] = g[k]
    BY <2>2
  <2>6. h[m + 1] = step[m + 1][g[m]]
    BY <2>2
  <2> HIDE DEF h
  <2>7. ASSUME NEW i \in 1..(m + 1) PROVE h[i] = step[i][h[i - 1]]
    <3>1. CASE i = m + 1
      BY <2>5, <2>6, <3>1
    <3>2. CASE i # m + 1
      BY <2>1, <2>5, <3>2
    <3> QED
      BY <3>1, <3>2
  <2>8. h[0] = base
    BY <2>1, <2>5
  <2> QED
    BY <2>2, <2>4, <2>7, <2>8
<1>3. 0..n \subseteq X
  <2> HIDE DEF X
  <2> QED
    BY <1>1, <1>2, SetInduction
<1> QED
  BY <1>3 DEF IsRun

-----------------------------------------------------------------------------
(* Sequences without repetition *)

\* ToSet and IsInjective by positions.
LEMMA SeqAsSet ==
  ASSUME NEW S, NEW s \in Seq(S)
  PROVE  /\ Len(s) \in Nat /\ ToSet(s) \subseteq S
         /\ \A e : e \in ToSet(s) <=> \E j \in 1..Len(s) : s[j] = e
         /\ IsInjective(s) <=> \A j, k \in 1..Len(s) : s[j] = s[k] => j = k
<1>1. DOMAIN s = 1..Len(s) /\ Len(s) \in Nat /\ s \in [1..Len(s) -> S]
  BY LenProperties
<1> QED
  BY <1>1 DEF ToSet, IsInjective

\* A new element at the end.
LEMMA AppendAsSet ==
  ASSUME NEW S, NEW s \in Seq(S), NEW e \in S
  PROVE  /\ Append(s, e) \in Seq(S) /\ Len(Append(s, e)) = Len(s) + 1
         /\ ToSet(Append(s, e)) = ToSet(s) \cup {e}
         /\ IsInjective(s) /\ e \notin ToSet(s) => IsInjective(Append(s, e))
<1> DEFINE t == Append(s, e)
<1>1. /\ t \in Seq(S) /\ Len(t) = Len(s) + 1 /\ t[Len(s) + 1] = e
      /\ \A j \in 1..Len(s) : t[j] = s[j]
  BY AppendProperties
<1>2. Len(s) \in Nat /\ \A j \in 1..Len(t) : j \in 1..Len(s) \/ j = Len(s) + 1
  BY <1>1, LenProperties
<1>3. 1..Len(s) \subseteq 1..Len(t) /\ Len(s) + 1 \in 1..Len(t)
  BY <1>1, <1>2
<1> HIDE DEF t
<1>4. ToSet(t) = ToSet(s) \cup {e}
  <2>1. ASSUME NEW x PROVE x \in ToSet(t) <=> x \in ToSet(s) \cup {e}
    BY <1>1, <1>2, <1>3, SeqAsSet
  <2> QED
    BY <2>1
<1>5. IsInjective(s) /\ e \notin ToSet(s) => IsInjective(t)
  BY <1>1, <1>2, SeqAsSet
<1> QED
  BY <1>1, <1>4, <1>5 DEF t

\* Taking out one place of a sequence without repetition takes out its element.
LEMMA RemoveAtAsSet ==
  ASSUME NEW S, NEW s \in Seq(S), NEW k \in 1..Len(s), IsInjective(s)
  PROVE  /\ RemoveAt(s, k) \in Seq(S) /\ Len(RemoveAt(s, k)) = Len(s) - 1
         /\ ToSet(RemoveAt(s, k)) = ToSet(s) \ {s[k]}
         /\ IsInjective(RemoveAt(s, k))
<1> DEFINE a == SubSeq(s, 1, k - 1)
           b == SubSeq(s, k + 1, Len(s))
           t == RemoveAt(s, k)
<1>0. Len(s) \in Nat /\ \A j \in 1..Len(s) : s[j] \in S
  BY LenProperties, ElementOfSeq
<1>1. a \in Seq(S) /\ Len(a) = k - 1 /\ \A j \in 1..(k - 1) : a[j] = s[j]
  BY <1>0, SubSeqProperties
<1>2. b \in Seq(S) /\ Len(b) = Len(s) - k /\ \A j \in 1..(Len(s) - k) : b[j] = s[j + k]
  <2>0. k + 1 \in Int /\ Len(s) \in Int /\ \A j \in (k + 1)..Len(s) : s[j] \in S
    BY <1>0
  <2>1. b \in Seq(S) /\ Len(b) = IF k + 1 <= Len(s) THEN Len(s) - (k + 1) + 1 ELSE 0
    BY <2>0, SubSeqProperties
  <2>2. \A j \in 1..(Len(s) - (k + 1) + 1) : b[j] = s[(k + 1) + j - 1]
    BY <2>0, SubSeqProperties
  <2> HIDE DEF b
  <2>3. Len(b) = Len(s) - k
    BY <1>0, <2>1
  <2>4. ASSUME NEW j \in 1..(Len(s) - k) PROVE b[j] = s[j + k]
    <3>1. j \in 1..(Len(s) - (k + 1) + 1) /\ (k + 1) + j - 1 = j + k
      BY <1>0
    <3> QED
      BY <2>2, <3>1
  <2> QED
    BY <2>1, <2>3, <2>4
<1>3. t = a \o b
  BY DEF RemoveAt
<1> HIDE DEF a, b, t
<1>4. /\ t \in Seq(S) /\ Len(t) = Len(s) - 1
      /\ \A j \in 1..(Len(s) - 1) : t[j] = IF j < k THEN s[j] ELSE s[j + 1]
  <2>1. t \in Seq(S) /\ Len(t) = Len(a) + Len(b)
        /\ \A j \in 1..(Len(a) + Len(b)) : t[j] = IF j <= Len(a) THEN a[j] ELSE b[j - Len(a)]
    BY <1>1, <1>2, <1>3, ConcatProperties
  <2>2. Len(a) + Len(b) = Len(s) - 1
    BY <1>0, <1>1, <1>2
  <2>3. ASSUME NEW j \in 1..(Len(s) - 1), j < k PROVE t[j] = s[j]
    BY <1>0, <1>1, <2>1, <2>2, <2>3
  <2>4. ASSUME NEW j \in 1..(Len(s) - 1), ~(j < k) PROVE t[j] = s[j + 1]
    <3>1. j - (k - 1) \in 1..(Len(s) - k) /\ (j - (k - 1)) + k = j + 1 /\ ~(j <= k - 1)
      BY <1>0, <2>4
    <3> QED
      BY <1>1, <1>2, <2>1, <2>2, <3>1
  <2> QED
    BY <2>1, <2>2, <2>3, <2>4
<1>5. \A j, l \in 1..Len(s) : s[j] = s[l] => j = l
  BY SeqAsSet
<1>6. IsInjective(t)
  <2>1. \A j, l \in 1..Len(t) : t[j] = t[l] => j = l
    BY <1>0, <1>4, <1>5
  <2> QED
    BY <1>4, <2>1, SeqAsSet
<1>7. ASSUME NEW x \in ToSet(t) PROVE x \in ToSet(s) \ {s[k]}
  <2>1. PICK j \in 1..Len(t) : t[j] = x
    BY <1>4, SeqAsSet
  <2>2. PICK l \in 1..Len(s) : s[l] = x /\ l # k
    BY <1>0, <1>4, <2>1
  <2> QED
    BY <1>5, <2>2, SeqAsSet
<1>8. ASSUME NEW x \in ToSet(s), x # s[k] PROVE x \in ToSet(t)
  <2>1. PICK l \in 1..Len(s) : s[l] = x
    BY SeqAsSet
  <2>2. PICK j \in 1..(Len(s) - 1) : t[j] = x
    <3>1. CASE l < k
      BY <1>0, <1>4, <2>1, <3>1
    <3>2. CASE l > k
      <4>1. l - 1 \in 1..(Len(s) - 1) /\ ~(l - 1 < k) /\ (l - 1) + 1 = l
        BY <1>0, <3>2
      <4> QED
        BY <1>4, <2>1, <4>1
    <3> QED
      BY <1>8, <2>1, <3>1, <3>2
  <2> QED
    BY <1>4, <2>2, SeqAsSet
<1>9. ToSet(t) = ToSet(s) \ {s[k]}
  BY <1>7, <1>8
<1> QED
  BY <1>4, <1>6, <1>9 DEF t

\* So does taking out an element.
LEMMA RemoveFirstAsSet ==
  ASSUME NEW S, NEW s \in Seq(S), NEW e, IsInjective(s)
  PROVE  /\ RemoveFirst(s, e) \in Seq(S) /\ Len(RemoveFirst(s, e)) <= Len(s)
         /\ ToSet(RemoveFirst(s, e)) = ToSet(s) \ {e}
         /\ IsInjective(RemoveFirst(s, e))
<1>0. Len(s) \in Nat
  BY LenProperties
<1>1. CASE \E j \in 1..Len(s) : s[j] = e
  <2> DEFINE I == {j \in 1..Len(s) : s[j] = e}
             k == Min(I)
  <2>1. I \in SUBSET Nat /\ I # {}
    BY <1>1
  <2>2. k \in 1..Len(s) /\ s[k] = e
    <3> HIDE DEF I
    <3>1. k \in I
      BY <2>1, MinOfNaturals
    <3> QED
      BY <3>1 DEF I
  <2>3. RemoveFirst(s, e) = RemoveAt(s, k)
    BY <1>1, <2>1 DEF RemoveFirst, SelectInSeq
  <2> HIDE DEF I, k
  <2> QED
    BY <1>0, <2>2, <2>3, RemoveAtAsSet
<1>2. CASE ~\E j \in 1..Len(s) : s[j] = e
  <2>1. RemoveFirst(s, e) = s
    BY <1>2 DEF RemoveFirst
  <2>2. e \notin ToSet(s)
    BY <1>2, SeqAsSet
  <2> QED
    BY <1>0, <2>1, <2>2
<1> QED
  BY <1>1, <1>2

-----------------------------------------------------------------------------
(* Sums over finite sets *)

\* What holds for a set when it holds for its proper subsets holds for all finite sets.
LEMMA SubsetInduction ==
  ASSUME NEW S, IsFiniteSet(S), NEW X,
         \A T \in SUBSET S : (\A R \in SUBSET T : R # T => R \in X) => T \in X
  PROVE  SUBSET S \subseteq X
<1> DEFINE Y == {n \in Nat : \A T \in SUBSET S : Cardinality(T) <= n => T \in X}
<1>1. \A T \in SUBSET S : IsFiniteSet(T) /\ Cardinality(T) \in Nat /\ Cardinality(T) <= Cardinality(S)
  BY FS_Subset, FS_CardinalityType
<1>2. Cardinality(S) \in Nat
  BY FS_CardinalityType
<1>3. ASSUME NEW T \in SUBSET S, NEW R \in SUBSET T, R # T PROVE R \in SUBSET S /\ Cardinality(R) < Cardinality(T)
  BY <1>1, <1>3, FS_Subset, FS_CardinalityType
<1>4. 0 \in Y
  <2>1. ASSUME NEW T \in SUBSET S, Cardinality(T) <= 0 PROVE T \in X
    <3>1. ASSUME NEW R \in SUBSET T, R # T PROVE FALSE
      <4>1. R \in SUBSET S /\ Cardinality(R) < Cardinality(T)
        BY <1>3, <3>1
      <4> QED
        BY <1>1, <2>1, <4>1
    <3> QED
      BY <3>1
  <2> QED
    BY <2>1
<1>5. ASSUME NEW n \in Nat, n \in Y PROVE n + 1 \in Y
  <2>1. ASSUME NEW T \in SUBSET S, Cardinality(T) <= n + 1 PROVE T \in X
    <3>1. ASSUME NEW R \in SUBSET T, R # T PROVE R \in X
      <4>1. R \in SUBSET S /\ Cardinality(R) < Cardinality(T) /\ Cardinality(R) \in Nat /\ Cardinality(T) \in Nat
        BY <1>1, <1>3, <3>1
      <4>2. Cardinality(R) <= n
        BY <2>1, <4>1
      <4> QED
        BY <1>5, <4>1, <4>2
    <3> QED
      BY <3>1
  <2> QED
    BY <2>1
<1>6. 0..Cardinality(S) \subseteq Y
  <2> HIDE DEF Y
  <2> QED
    BY <1>2, <1>4, <1>5, SetInduction
<1>7. Cardinality(S) \in Y
  BY <1>2, <1>6
<1> QED
  BY <1>1, <1>7

\* g folds every subset of S, pick saying which element is taken first.
IsFoldOver(g, S, V, base, step, pick) ==
  /\ g \in [SUBSET S -> V]
  /\ \A t \in SUBSET S : g[t] = IF t = {} THEN base ELSE step[pick[t]][g[t \ {pick[t]}]]

\* A fold over a finite set, whatever element is taken first, exists: layer by layer of
\* the subsets.
LEMMA FoldOverSubsets ==
  ASSUME NEW S, IsFiniteSet(S), NEW V, NEW base \in V, NEW step \in [S -> [V -> V]], NEW pick,
         \A T \in SUBSET S : T # {} => pick[T] \in T
  PROVE  \E g : IsFoldOver(g, S, V, base, step, pick)
<1> DEFINE L(n) == {T \in SUBSET S : Cardinality(T) <= n}
           Good(g, n) == \A t \in L(n) : g[t] = IF t = {} THEN base ELSE step[pick[t]][g[t \ {pick[t]}]]
           Y == {n \in Nat : \E g \in [L(n) -> V] : Good(g, n)}
<1>1. \A T \in SUBSET S : IsFiniteSet(T) /\ Cardinality(T) \in Nat /\ Cardinality(T) <= Cardinality(S)
  BY FS_Subset, FS_CardinalityType
<1>2. Cardinality(S) \in Nat
  BY FS_CardinalityType
<1>3. \A T \in SUBSET S : T # {} => /\ pick[T] \in S /\ T \ {pick[T]} \in SUBSET S
                                    /\ Cardinality(T \ {pick[T]}) = Cardinality(T) - 1
  BY <1>1, FS_RemoveElement
<1>4. 0 \in Y
  <2> DEFINE g == [t \in L(0) |-> base]
  <2>1. g \in [L(0) -> V]
    OBVIOUS
  <2>2. \A t \in L(0) : t = {}
    BY <1>1, FS_EmptySet
  <2>3. \A t \in L(0) : g[t] = base
    OBVIOUS
  <2> HIDE DEF g
  <2>4. Good(g, 0)
    BY <2>2, <2>3
  <2> QED
    BY <2>1, <2>4
<1>5. ASSUME NEW n \in Nat, n \in Y PROVE n + 1 \in Y
  <2>1. PICK g \in [L(n) -> V] : Good(g, n)
    BY <1>5
  <2> DEFINE h == [t \in L(n + 1) |-> IF t = {} THEN base ELSE step[pick[t]][g[t \ {pick[t]}]]]
  <2>2. ASSUME NEW t \in L(n + 1), t # {} PROVE t \ {pick[t]} \in L(n)
    BY <1>1, <1>3, <2>2
  <2>3. \A t \in L(n) : t \in L(n + 1)
    BY <1>1
  <2>4. \A t \in L(n) : h[t] = g[t]
    BY <2>1, <2>3
  <2>5. h \in [L(n + 1) -> V]
    <3>1. ASSUME NEW t \in L(n + 1), t # {} PROVE step[pick[t]][g[t \ {pick[t]}]] \in V
      <4>1. g[t \ {pick[t]}] \in V /\ pick[t] \in S
        BY <1>3, <2>1, <2>2, <3>1
      <4>2. \A x \in S, v \in V : step[x][v] \in V
        OBVIOUS
      <4> QED
        BY <4>1, <4>2
    <3> QED
      BY <3>1
  <2>6. ASSUME NEW t \in L(n + 1) PROVE h[t] = IF t = {} THEN base ELSE step[pick[t]][h[t \ {pick[t]}]]
    BY <2>2, <2>4
  <2> HIDE DEF h
  <2>7. Good(h, n + 1)
    BY <2>6
  <2>8. \E u \in [L(n + 1) -> V] : Good(u, n + 1)
    BY <2>5, <2>7
  <2> HIDE DEF L, Good
  <2> QED
    BY <2>8
<1>6. 0..Cardinality(S) \subseteq Y
  <2> HIDE DEF Y
  <2> QED
    BY <1>2, <1>4, <1>5, SetInduction
<1>7. Cardinality(S) \in Y
  <2> HIDE DEF Y
  <2> QED
    BY <1>2, <1>6
<1>8. PICK g \in [L(Cardinality(S)) -> V] : Good(g, Cardinality(S))
  BY <1>7
<1>9. L(Cardinality(S)) = SUBSET S
  BY <1>1
<1>10. \A t \in SUBSET S : g[t] = IF t = {} THEN base ELSE step[pick[t]][g[t \ {pick[t]}]]
  BY <1>8, <1>9
<1>11. g \in [SUBSET S -> V]
  BY <1>8, <1>9
<1> QED
  BY <1>10, <1>11 DEF IsFoldOver

\* A sum as MapThenSumSet computes it, and a sum in any order.
Elt(T) == CHOOSE x \in T : TRUE
IsFold(g, f, S) == g = [t \in SUBSET S |-> IF t = {} THEN 0 ELSE f[Elt(t)] + g[t \ {Elt(t)}]]
IsSum(g, f, S) ==
  /\ g \in [SUBSET S -> Int] /\ g[{}] = 0
  /\ \A T \in SUBSET S : \A x \in T : g[T] = f[x] + g[T \ {x}]

\* The function that MapThenSumSet chooses exists.
LEMMA FoldExists ==
  ASSUME NEW S, IsFiniteSet(S), NEW f \in [S -> Int]
  PROVE  \E g : IsFold(g, f, S)
<1> DEFINE step == [x \in S |-> [v \in Int |-> f[x] + v]]
           pick == [T \in SUBSET S |-> Elt(T)]
<1>1. step \in [S -> [Int -> Int]]
  OBVIOUS
<1>2. \A T \in SUBSET S : pick[T] = Elt(T) /\ (T # {} => pick[T] \in T)
  BY DEF Elt
<1>3. \A x \in S, v \in Int : step[x][v] = f[x] + v
  OBVIOUS
<1> HIDE DEF step, pick
<1>0. PICK g : IsFoldOver(g, S, Int, 0, step, pick)
  <2>1. 0 \in Int /\ \A T \in SUBSET S : T # {} => pick[T] \in T
    BY <1>2
  <2> QED
    BY <1>1, <2>1, FoldOverSubsets
<1>4. /\ g \in [SUBSET S -> Int]
      /\ \A t \in SUBSET S : g[t] = IF t = {} THEN 0 ELSE step[pick[t]][g[t \ {pick[t]}]]
  BY <1>0 DEF IsFoldOver
<1>5. ASSUME NEW t \in SUBSET S PROVE g[t] = IF t = {} THEN 0 ELSE f[Elt(t)] + g[t \ {Elt(t)}]
  <2>1. CASE t = {}
    BY <1>4, <2>1
  <2>2. CASE t # {}
    <3>1. Elt(t) \in S /\ pick[t] = Elt(t) /\ t \ {Elt(t)} \in SUBSET S
      BY <1>2, <2>2
    <3>2. g[t \ {Elt(t)}] \in Int
      BY <1>4, <3>1
    <3>3. g[t] = step[Elt(t)][g[t \ {Elt(t)}]]
      BY <1>4, <2>2, <3>1
    <3> QED
      BY <1>3, <2>2, <3>1, <3>2, <3>3
  <2> QED
    BY <2>1, <2>2
<1>6. g = [t \in SUBSET S |-> g[t]]
  BY <1>4
<1>7. g = [t \in SUBSET S |-> IF t = {} THEN 0 ELSE f[Elt(t)] + g[t \ {Elt(t)}]]
  BY <1>5, <1>6
<1> QED
  BY <1>7 DEF IsFold

\* The order does not matter.
LEMMA FoldIsSum ==
  ASSUME NEW S, IsFiniteSet(S), NEW f \in [S -> Int], NEW g, IsFold(g, f, S)
  PROVE  IsSum(g, f, S)
<1>1. \A t \in SUBSET S : g[t] = IF t = {} THEN 0 ELSE f[Elt(t)] + g[t \ {Elt(t)}]
  BY DEF IsFold
<1>2. g = [t \in SUBSET S |-> g[t]]
  BY DEF IsFold
<1>3. \A t \in SUBSET S : t # {} => Elt(t) \in t
  BY DEF Elt
<1> DEFINE X == {T \in SUBSET S : g[T] \in Int /\ \A x \in T : g[T] = f[x] + g[T \ {x}]}
<1>4. ASSUME NEW T \in SUBSET S, \A R \in SUBSET T : R # T => R \in X PROVE T \in X
  <2>1. CASE T = {}
    <3>1. g[T] = 0 /\ \A x \in T : FALSE
      BY <1>1, <2>1
    <3> QED
      BY <3>1
  <2>2. CASE T # {}
    <3> DEFINE c == Elt(T)
    <3>1. c \in T /\ f[c] \in Int /\ T \ {c} \in X
      BY <1>3, <1>4, <2>2
    <3>2. g[T] = f[c] + g[T \ {c}] /\ g[T \ {c}] \in Int
      BY <1>1, <2>2, <3>1
    <3> HIDE DEF c
    <3>3. ASSUME NEW x \in T, x # c PROVE g[T] = f[x] + g[T \ {x}]
      <4>1. T \ {x} \in X /\ c \in T \ {x} /\ x \in T \ {c} /\ f[x] \in Int
        BY <1>4, <3>1, <3>3
      <4>2. (T \ {x}) \ {c} = (T \ {c}) \ {x}
        OBVIOUS
      <4>3. g[T \ {c}] = f[x] + g[(T \ {c}) \ {x}]
        BY <3>1, <4>1
      <4>4. g[T \ {x}] = f[c] + g[(T \ {x}) \ {c}]
        BY <4>1
      <4>5. (T \ {c}) \ {x} \in X
        BY <1>4, <4>1
      <4>6. g[(T \ {c}) \ {x}] \in Int
        BY <4>5
      <4> QED
        BY <3>1, <3>2, <4>1, <4>2, <4>3, <4>4, <4>6
    <3>4. \A x \in T : g[T] = f[x] + g[T \ {x}]
      <4>1. ASSUME NEW x \in T PROVE g[T] = f[x] + g[T \ {x}]
        <5>1. CASE x = c
          BY <3>2, <5>1
        <5> QED
          BY <3>3, <5>1
      <4> QED
        BY <4>1
    <3>5. g[T] \in Int
      BY <3>1, <3>2
    <3> QED
      BY <3>4, <3>5
  <2> QED
    BY <2>1, <2>2
<1>5. SUBSET S \subseteq X
  <2> HIDE DEF X
  <2> QED
    BY <1>4, SubsetInduction
<1> QED
  BY <1>1, <1>2, <1>5 DEF IsSum

\* Sums of the same numbers are equal.
LEMMA SumsAgree ==
  ASSUME NEW S, NEW R, NEW T, IsFiniteSet(T), T \subseteq S, T \subseteq R, NEW f, NEW e, NEW g, NEW h,
         IsSum(g, f, S), IsSum(h, e, R), \A x \in T : f[x] = e[x]
  PROVE  g[T] = h[T]
<1> DEFINE X == {t \in SUBSET T : g[t] = h[t]}
<1>1. ASSUME NEW t \in SUBSET T, \A r \in SUBSET t : r # t => r \in X PROVE t \in X
  <2>1. CASE t = {}
    BY <2>1 DEF IsSum
  <2>2. CASE t # {}
    <3>1. PICK x \in t : TRUE
      BY <2>2
    <3>2. t \ {x} \in X
      BY <1>1, <3>1
    <3>3. g[t] = f[x] + g[t \ {x}] /\ h[t] = e[x] + h[t \ {x}]
      BY <3>1 DEF IsSum
    <3> QED
      BY <3>1, <3>2, <3>3
  <2> QED
    BY <2>1, <2>2
<1>2. SUBSET T \subseteq X
  <2> HIDE DEF X
  <2> QED
    BY <1>1, SubsetInduction
<1> QED
  BY <1>2

-----------------------------------------------------------------------------
(* Concatenations *)

\* FlattenSeq adds one sequence after the other.
LEMMA FlattenSteps ==
  ASSUME NEW S, NEW c \in Seq(Seq(S))
  PROVE  \E g \in [0..Len(c) -> Seq(S)] :
           /\ g[0] = <<>> /\ FlattenSeq(c) = g[Len(c)]
           /\ \A i \in 1..Len(c) : g[i] = g[i - 1] \o c[i]
<1> DEFINE N == Len(c)
           Step(h) == [i \in 1..N |-> IF i = 1 THEN c[i] ELSE h[i - 1] \o c[i]]
           flat == CHOOSE h : h = Step(h)
           step == [k \in 1..N |-> [x \in Seq(S) |-> x \o c[k]]]
<1>1. N \in Nat /\ \A k \in 1..N : c[k] \in Seq(S)
  BY LenProperties, ElementOfSeq
<1>2. <<>> \in Seq(S)
  BY EmptySeq
<1>3. step \in [1..N -> [Seq(S) -> Seq(S)]]
  <2>1. \A k \in 1..N : \A x \in Seq(S) : x \o c[k] \in Seq(S)
    BY <1>1, ConcatProperties
  <2> QED
    BY <2>1
<1>4. \A x \in Seq(S), k \in 1..N : step[k][x] = x \o c[k]
  OBVIOUS
<1> HIDE DEF step, N
<1>5. PICK g : IsRun(g, N, Seq(S), <<>>, step)
  BY <1>1, <1>2, <1>3, Iterates
<1>6. g \in [0..N -> Seq(S)] /\ g[0] = <<>> /\ \A i \in 1..N : g[i] = g[i - 1] \o c[i]
  <2>1. g \in [0..N -> Seq(S)] /\ g[0] = <<>> /\ \A i \in 1..N : g[i] = step[i][g[i - 1]]
    BY <1>5 DEF IsRun
  <2>2. ASSUME NEW i \in 1..N PROVE g[i] = g[i - 1] \o c[i]
    <3>1. g[i - 1] \in Seq(S)
      BY <1>1, <2>1
    <3> DEFINE x == g[i - 1]
    <3> HIDE DEF x
    <3>2. x \in Seq(S) /\ g[i] = step[i][x]
      BY <2>1, <3>1 DEF x
    <3>3. g[i] = x \o c[i]
      BY <1>4, <3>2
    <3> QED
      BY <3>3 DEF x
  <2> QED
    BY <2>1, <2>2
<1>7. CASE N = 0
  <2>1. c = <<>> /\ FlattenSeq(c) = c
    BY <1>7, EmptySeq DEF FlattenSeq, N
  <2> QED
    BY <1>6, <1>7, <2>1 DEF N
<1>8. CASE N # 0
  <2> DEFINE h == [i \in 1..N |-> g[i]]
  <2>1. h = Step(h)
    <3>1. ASSUME NEW i \in 1..N PROVE h[i] = IF i = 1 THEN c[i] ELSE h[i - 1] \o c[i]
      <4>1. CASE i = 1
        <5>1. g[1] = g[1 - 1] \o c[1] /\ c[1] \in Seq(S)
          BY <1>1, <1>6, <4>1
        <5>2. 1 - 1 = 0
          OBVIOUS
        <5>3. g[1] = g[0] \o c[1]
          BY <5>1, <5>2
        <5>4. g[1] = c[1]
          BY <1>6, <5>1, <5>3, ConcatEmptySeq
        <5> QED
          BY <4>1, <5>4
      <4>2. CASE i # 1
        <5>1. i - 1 \in 1..N /\ h[i - 1] = g[i - 1]
          BY <1>1, <4>2
        <5>2. g[i] = g[i - 1] \o c[i]
          BY <1>6
        <5> QED
          BY <4>2, <5>1, <5>2
      <4> QED
        BY <4>1, <4>2
    <3> HIDE DEF h
    <3>2. h = [i \in 1..N |-> h[i]]
      BY DEF h
    <3> QED
      BY <3>1, <3>2
  <2>2. flat = Step(flat)
    <3> HIDE DEF Step
    <3> QED
      BY <2>1
  <2>3. FlattenSeq(c) = flat[N]
    BY <1>8 DEF FlattenSeq, flat, N
  <2> HIDE DEF flat
  <2> DEFINE X == {n \in 0..N : n = 0 \/ flat[n] = g[n]}
  <2>4. 0..N \subseteq X
    <3>1. 0 \in X
      BY <1>1
    <3>2. ASSUME NEW i \in 0..(N - 1), i \in X PROVE i + 1 \in X
      <4>1. i + 1 \in 1..N /\ (i + 1) - 1 = i
        BY <1>1
      <4>2. flat[i + 1] = (IF i + 1 = 1 THEN c[i + 1] ELSE flat[i] \o c[i + 1])
        BY <2>2, <4>1
      <4>3. g[i + 1] = g[i] \o c[i + 1]
        BY <1>6, <4>1
      <4>4. flat[i + 1] = g[i + 1]
        <5>1. CASE i = 0
          <6>1. g[i + 1] = c[i + 1]
            BY <1>1, <1>6, <4>1, <4>3, <5>1, ConcatEmptySeq
          <6> QED
            BY <4>2, <5>1, <6>1
        <5>2. CASE i # 0
          <6>1. i + 1 # 1 /\ flat[i] = g[i]
            BY <3>2, <5>2
          <6> QED
            BY <4>2, <4>3, <6>1
        <5> QED
          BY <5>1, <5>2
      <4> QED
        BY <1>1, <4>1, <4>4
    <3> HIDE DEF X
    <3> QED
      BY <1>1, <3>1, <3>2, SetInduction
  <2>5. flat[N] = g[N]
    BY <1>1, <1>8, <2>4
  <2> QED
    BY <1>6, <2>3, <2>5 DEF N
<1> QED
  BY <1>7, <1>8

\* One more sequence goes to the end.
LEMMA FlattenAppend ==
  ASSUME NEW S, NEW c \in Seq(Seq(S)), NEW p \in Seq(S)
  PROVE  FlattenSeq(c) \in Seq(S) /\ FlattenSeq(Append(c, p)) = FlattenSeq(c) \o p
<1> DEFINE d == Append(c, p)
           N == Len(c)
<1>1. d \in Seq(Seq(S)) /\ Len(d) = N + 1 /\ d[N + 1] = p /\ \A j \in 1..N : d[j] = c[j]
  BY AppendProperties
<1>2. N \in Nat
  BY LenProperties
<1> HIDE DEF d
<1>3. PICK g \in [0..N -> Seq(S)] : /\ g[0] = <<>> /\ FlattenSeq(c) = g[N]
                                    /\ \A i \in 1..N : g[i] = g[i - 1] \o c[i]
  BY FlattenSteps
<1>4. PICK h \in [0..Len(d) -> Seq(S)] : /\ h[0] = <<>> /\ FlattenSeq(d) = h[Len(d)]
                                         /\ \A i \in 1..Len(d) : h[i] = h[i - 1] \o d[i]
  BY <1>1, FlattenSteps
<1> HIDE DEF N
<1> DEFINE X == {n \in 0..N : h[n] = g[n]}
<1>5. 0..N \subseteq X
  <2>1. 0 \in X
    BY <1>2, <1>3, <1>4
  <2>2. ASSUME NEW i \in 0..(N - 1), i \in X PROVE i + 1 \in X
    <3>1. i + 1 \in 1..N /\ i + 1 \in 1..(N + 1) /\ (i + 1) - 1 = i /\ h[i] = g[i] /\ i + 1 \in 0..N
      BY <1>2, <2>2
    <3>2. g[i + 1] = g[i] \o c[i + 1]
      BY <1>3, <3>1
    <3>3. h[i + 1] = h[i] \o d[i + 1]
      BY <1>1, <1>4, <3>1
    <3> QED
      BY <1>1, <3>1, <3>2, <3>3
  <2> HIDE DEF X
  <2> QED
    BY <1>2, <2>1, <2>2, SetInduction
<1>6. h[N] = g[N] /\ N \in 0..N /\ N + 1 \in 1..(N + 1) /\ (N + 1) - 1 = N
  BY <1>2, <1>5
<1>7. h[N + 1] = h[N] \o d[N + 1]
  BY <1>1, <1>4, <1>6
<1> QED
  BY <1>1, <1>3, <1>4, <1>6, <1>7 DEF d
=============================================================================
