---------------------------- MODULE PeersProofs -----------------------------
(***************************************************************************)
(* The invariants of Peers for any number of nodes, sessions, chains and   *)
(* blocks mined.  Every step of a node is a turn of one end of a session:  *)
(* it replaces one Peer object, takes the head of its inbox and appends to *)
(* the inbox of the other end.  The turns are sorted by kind once, and the *)
(* invariants are then proved kind by kind.                                *)
(***************************************************************************)
EXTENDS Peers, CommonFacts

-----------------------------------------------------------------------------
(* Prefixes *)

\* A prefix agrees place by place.
LEMMA PrefixPlaces ==
  ASSUME NEW S, NEW s \in Seq(S), NEW t \in Seq(S)
  PROVE  IsPrefix(s, t) <=> Len(s) <= Len(t) /\ \A i \in 1..Len(s) : s[i] = t[i]
<1>1. Len(s) \in Nat /\ Len(t) \in Nat
  BY LenProperties
<1>2. SubSeq(s, 1, Len(s)) = s
  BY <1>1
<1>3. CASE Len(s) <= Len(t)
  <2> DEFINE u == SubSeq(t, 1, Len(s))
  <2>1. \A i \in 1..Len(s) : t[i] \in S
    BY <1>1, <1>3, ElementOfSeq
  <2>2. u \in Seq(S) /\ Len(u) = Len(s) /\ \A i \in 1..Len(s) : u[i] = t[i]
    BY <1>1, <2>1, SubSeqProperties
  <2> HIDE DEF u
  <2>3. s = u <=> \A i \in 1..Len(s) : s[i] = u[i]
    BY <2>2, SeqEqual
  <2>4. IsPrefix(s, t) <=> s = u
    BY <1>2, <1>3 DEF IsPrefix, u
  <2> QED
    BY <1>3, <2>2, <2>3, <2>4
<1> QED
  BY <1>1, <1>3 DEF IsPrefix

LEMMA PrefixReflexive ==
  ASSUME NEW S, NEW s \in Seq(S)
  PROVE  IsPrefix(s, s)
<1>1. Len(s) \in Nat
  BY LenProperties
<1> QED
  BY <1>1, PrefixPlaces

LEMMA PrefixTransitive ==
  ASSUME NEW S, NEW s \in Seq(S), NEW t \in Seq(S), NEW u \in Seq(S), IsPrefix(s, t), IsPrefix(t, u)
  PROVE  IsPrefix(s, u)
<1>1. Len(s) \in Nat /\ Len(t) \in Nat /\ Len(u) \in Nat
  BY LenProperties
<1>2. /\ Len(s) <= Len(t) /\ \A i \in 1..Len(s) : s[i] = t[i]
      /\ Len(t) <= Len(u) /\ \A i \in 1..Len(t) : t[i] = u[i]
  BY PrefixPlaces
<1>3. Len(s) <= Len(u) /\ \A i \in 1..Len(s) : s[i] = u[i]
  BY <1>1, <1>2
<1> QED
  BY <1>3, PrefixPlaces

\* A prefix is shorter, and equal when it is as long.
LEMMA PrefixLength ==
  ASSUME NEW S, NEW s \in Seq(S), NEW t \in Seq(S), IsPrefix(s, t)
  PROVE  Len(s) \in Nat /\ Len(t) \in Nat /\ Len(s) <= Len(t) /\ (Len(s) >= Len(t) => s = t)
<1>1. Len(s) \in Nat /\ Len(t) \in Nat
  BY LenProperties
<1>2. Len(s) <= Len(t) /\ \A i \in 1..Len(s) : s[i] = t[i]
  BY PrefixPlaces
<1>3. ASSUME Len(s) >= Len(t) PROVE s = t
  <2>1. Len(s) = Len(t)
    BY <1>1, <1>2, <1>3
  <2> QED
    BY <1>2, <2>1, SeqEqual
<1> QED
  BY <1>1, <1>2, <1>3

\* Two prefixes of one sequence: the shorter is a prefix of the longer.
LEMMA PrefixesNest ==
  ASSUME NEW S, NEW s \in Seq(S), NEW t \in Seq(S), NEW u \in Seq(S),
         IsPrefix(s, u), IsPrefix(t, u), Len(s) <= Len(t)
  PROVE  IsPrefix(s, t)
<1>1. Len(s) \in Nat /\ Len(t) \in Nat /\ Len(u) \in Nat
  BY LenProperties
<1>2. (\A i \in 1..Len(s) : s[i] = u[i]) /\ (\A i \in 1..Len(t) : t[i] = u[i])
  BY PrefixPlaces
<1>3. \A i \in 1..Len(s) : s[i] = t[i]
  BY <1>1, <1>2
<1> QED
  BY <1>3, PrefixPlaces

\* The first k places of a sequence.
LEMMA FirstPlaces ==
  ASSUME NEW S, NEW s \in Seq(S), NEW k \in 0..Len(s)
  PROVE  /\ SubSeq(s, 1, k) \in Seq(S) /\ Len(SubSeq(s, 1, k)) = k /\ IsPrefix(SubSeq(s, 1, k), s)
         /\ \A i \in 1..k : SubSeq(s, 1, k)[i] = s[i]
<1>1. Len(s) \in Nat
  BY LenProperties
<1> DEFINE u == SubSeq(s, 1, k)
<1>2. \A i \in 1..k : s[i] \in S
  BY <1>1, ElementOfSeq
<1>3. u \in Seq(S) /\ Len(u) = k /\ \A i \in 1..k : u[i] = s[i]
  BY <1>1, <1>2, SubSeqProperties
<1> HIDE DEF u
<1>4. IsPrefix(u, s)
  BY <1>1, <1>3, PrefixPlaces
<1> QED
  BY <1>3, <1>4 DEF u

\* A prefix is the first places of the sequence.
LEMMA PrefixIsFirst ==
  ASSUME NEW S, NEW s \in Seq(S), NEW t \in Seq(S), IsPrefix(s, t)
  PROVE  Len(s) \in 0..Len(t) /\ s = SubSeq(t, 1, Len(s))
<1>1. Len(s) \in Nat /\ Len(t) \in Nat /\ Len(s) <= Len(t)
  BY PrefixLength
<1>2. SubSeq(s, 1, Len(s)) = s
  BY <1>1
<1> QED
  BY <1>1, <1>2 DEF IsPrefix

\* The parent of a block.
LEMMA ParentFacts ==
  ASSUME NEW S, NEW b \in Seq(S), b # <<>>
  PROVE  /\ Parent(b) \in Seq(S) /\ Len(Parent(b)) = Len(b) - 1 /\ IsPrefix(Parent(b), b)
         /\ Parent(b) = SubSeq(b, 1, Len(b) - 1) /\ Len(b) \in Nat \ {0}
<1>1. Len(b) \in Nat /\ Len(b) # 0
  BY LenProperties, EmptySeq
<1>2. Len(b) - 1 \in 0..Len(b)
  BY <1>1
<1> QED
  BY <1>1, <1>2, FirstPlaces DEF Parent, Front

\* What is before a block is its parent or before that.
LEMMA BeforeParent ==
  ASSUME NEW S, NEW b \in Seq(S), b # <<>>, NEW c \in Seq(S), IsPrefix(c, b), c # b
  PROVE  IsPrefix(c, Parent(b))
<1>1. Len(c) \in Nat /\ Len(b) \in Nat /\ Len(c) < Len(b)
  BY PrefixLength
<1>2. Parent(b) \in Seq(S) /\ Len(Parent(b)) = Len(b) - 1 /\ IsPrefix(Parent(b), b)
  BY ParentFacts
<1>3. Len(c) <= Len(Parent(b))
  BY <1>1, <1>2
<1> QED
  BY <1>2, <1>3, PrefixesNest

\* What a miner adds has the chain as its parent.
LEMMA MinedFacts ==
  ASSUME NEW S, NEW c \in Seq(S), NEW a \in S
  PROVE  /\ Append(c, a) \in Seq(S) \ {<<>>} /\ Len(Append(c, a)) = Len(c) + 1 /\ IsPrefix(c, Append(c, a))
         /\ Append(c, a)[Len(c) + 1] = a
<1> DEFINE d == Append(c, a)
<1>1. /\ d \in Seq(S) /\ Len(d) = Len(c) + 1 /\ Len(c) \in Nat /\ d[Len(c) + 1] = a
      /\ \A i \in 1..Len(c) : d[i] = c[i]
  BY AppendProperties, LenProperties
<1> HIDE DEF d
<1>2. IsPrefix(c, d) /\ d # <<>>
  BY <1>1, PrefixPlaces, EmptySeq
<1> QED
  BY <1>1, <1>2 DEF d

-----------------------------------------------------------------------------
(* Queues *)

\* Taking the head leaves everything else.
LEMMA TailAsSet ==
  ASSUME NEW S, NEW q \in Seq(S), q # <<>>
  PROVE  /\ Head(q) \in S /\ Head(q) \in ToSet(q) /\ Tail(q) \in Seq(S)
         /\ ToSet(Tail(q)) \subseteq ToSet(q)
         /\ \A x \in ToSet(q) : x = Head(q) \/ x \in ToSet(Tail(q))
<1> DEFINE r == Tail(q)
<1>1. /\ Head(q) \in S /\ r \in Seq(S) /\ Len(r) = Len(q) - 1 /\ Head(q) = q[1]
      /\ \A i \in 1..Len(r) : r[i] = q[i + 1]
  BY HeadTailProperties
<1>2. Len(q) \in Nat /\ Len(q) # 0
  BY LenProperties, EmptySeq
<1> HIDE DEF r
<1>3. /\ \A x : x \in ToSet(q) <=> \E j \in 1..Len(q) : q[j] = x
      /\ \A x : x \in ToSet(r) <=> \E j \in 1..Len(r) : r[j] = x
  BY <1>1, SeqAsSet
<1>4. Head(q) \in ToSet(q)
  BY <1>1, <1>2, <1>3
<1>5. ASSUME NEW x \in ToSet(r) PROVE x \in ToSet(q)
  <2>1. PICK j \in 1..Len(r) : r[j] = x
    BY <1>3
  <2>2. j + 1 \in 1..Len(q) /\ q[j + 1] = x
    BY <1>1, <1>2, <2>1
  <2> QED
    BY <1>3, <2>2
<1>6. ASSUME NEW x \in ToSet(q), x # Head(q) PROVE x \in ToSet(r)
  <2>1. PICK j \in 1..Len(q) : q[j] = x
    BY <1>3
  <2>2. j # 1
    BY <1>1, <1>6, <2>1
  <2>3. j - 1 \in 1..Len(r) /\ r[j - 1] = x
    BY <1>1, <1>2, <2>1, <2>2
  <2> QED
    BY <1>3, <2>3
<1> QED
  BY <1>1, <1>4, <1>5, <1>6 DEF r

\* What is sent comes to what was there.
LEMMA ConcatAsSet ==
  ASSUME NEW S, NEW q \in Seq(S), NEW r \in Seq(S)
  PROVE  q \o r \in Seq(S) /\ ToSet(q \o r) = ToSet(q) \cup ToSet(r)
<1> DEFINE t == q \o r
<1>1. /\ t \in Seq(S) /\ Len(t) = Len(q) + Len(r)
      /\ \A i \in 1..Len(t) : t[i] = IF i <= Len(q) THEN q[i] ELSE r[i - Len(q)]
  BY ConcatProperties
<1>2. Len(q) \in Nat /\ Len(r) \in Nat
  BY LenProperties
<1> HIDE DEF t
<1>3. /\ \A x : x \in ToSet(q) <=> \E j \in 1..Len(q) : q[j] = x
      /\ \A x : x \in ToSet(r) <=> \E j \in 1..Len(r) : r[j] = x
      /\ \A x : x \in ToSet(t) <=> \E j \in 1..Len(t) : t[j] = x
  BY <1>1, SeqAsSet
<1>4. ASSUME NEW x \in ToSet(t) PROVE x \in ToSet(q) \/ x \in ToSet(r)
  <2>1. PICK j \in 1..Len(t) : t[j] = x
    BY <1>3
  <2>2. CASE j <= Len(q)
    BY <1>1, <1>2, <1>3, <2>1, <2>2
  <2>3. CASE j > Len(q)
    <3>1. j - Len(q) \in 1..Len(r) /\ r[j - Len(q)] = x
      BY <1>1, <1>2, <2>1, <2>3
    <3> QED
      BY <1>3, <3>1
  <2> QED
    BY <1>2, <2>2, <2>3
<1>5. ASSUME NEW x \in ToSet(q) PROVE x \in ToSet(t)
  <2>1. PICK j \in 1..Len(q) : q[j] = x
    BY <1>3
  <2>2. j \in 1..Len(t) /\ t[j] = x
    BY <1>1, <1>2, <2>1
  <2> QED
    BY <1>3, <2>2
<1>6. ASSUME NEW x \in ToSet(r) PROVE x \in ToSet(t)
  <2>1. PICK j \in 1..Len(r) : r[j] = x
    BY <1>3
  <2> DEFINE k == j + Len(q)
  <2>2. k \in 1..Len(t) /\ ~(k <= Len(q)) /\ k - Len(q) = j
    BY <1>1, <1>2
  <2>3. t[k] = x
    BY <1>1, <2>1, <2>2
  <2> QED
    BY <1>3, <2>2, <2>3
<1>7. ToSet(t) = ToSet(q) \cup ToSet(r)
  BY <1>4, <1>5, <1>6
<1> QED
  BY <1>1, <1>7 DEF t

IsTop(m) == m.type \in {"Connect", "Accepted"}
Topless(q) == \A m \in ToSet(q) : ~IsTop(m)
OneTop(q) == \A i, j \in 1..Len(q) : IsTop(q[i]) /\ IsTop(q[j]) => i = j

\* After the only top block nothing else is one.
LEMMA OneTopTail ==
  ASSUME NEW S, NEW q \in Seq(S), q # <<>>, OneTop(q)
  PROVE  OneTop(Tail(q)) /\ (IsTop(Head(q)) => Topless(Tail(q)))
<1> DEFINE r == Tail(q)
<1>1. /\ r \in Seq(S) /\ Len(r) = Len(q) - 1 /\ Head(q) = q[1]
      /\ \A i \in 1..Len(r) : r[i] = q[i + 1]
  BY HeadTailProperties
<1>2. Len(q) \in Nat /\ Len(q) # 0
  BY LenProperties, EmptySeq
<1> HIDE DEF r
<1>3. \A i \in 1..Len(r) : i + 1 \in 1..Len(q) /\ i + 1 # 1
  BY <1>1, <1>2
<1>4. OneTop(r)
  <2> SUFFICES ASSUME NEW i \in 1..Len(r), NEW j \in 1..Len(r), IsTop(r[i]), IsTop(r[j]) PROVE i = j
    BY DEF OneTop
  <2>1. i + 1 = j + 1
    BY <1>1, <1>3 DEF OneTop
  <2> QED
    BY <2>1
<1>5. ASSUME IsTop(Head(q)) PROVE Topless(r)
  <2> SUFFICES ASSUME NEW m \in ToSet(r), IsTop(m) PROVE FALSE
    BY DEF Topless
  <2>1. PICK j \in 1..Len(r) : r[j] = m
    BY <1>1, SeqAsSet
  <2>2. 1 \in 1..Len(q)
    BY <1>2
  <2> QED
    BY <1>1, <1>3, <1>5, <2>1, <2>2 DEF OneTop
<1> QED
  BY <1>4, <1>5 DEF r

LEMMA OneTopConcat ==
  ASSUME NEW S, NEW q \in Seq(S), NEW r \in Seq(S), OneTop(q), OneTop(r), Topless(q) \/ Topless(r)
  PROVE  OneTop(q \o r)
<1> DEFINE t == q \o r
<1>1. /\ t \in Seq(S) /\ Len(t) = Len(q) + Len(r)
      /\ \A i \in 1..Len(t) : t[i] = IF i <= Len(q) THEN q[i] ELSE r[i - Len(q)]
  BY ConcatProperties
<1>2. Len(q) \in Nat /\ Len(r) \in Nat
  BY LenProperties
<1> HIDE DEF t
<1>3. \A i \in 1..Len(q) : q[i] \in ToSet(q)
  BY SeqAsSet
<1>4. \A i \in 1..Len(r) : r[i] \in ToSet(r)
  BY SeqAsSet
<1>5. ASSUME NEW i \in 1..Len(t), NEW j \in 1..Len(t), IsTop(t[i]), IsTop(t[j]) PROVE i = j
  <2>1. CASE Topless(q)
    <3>1. ASSUME NEW k \in 1..Len(t), IsTop(t[k]) PROVE k > Len(q)
      <4>1. k <= Len(q) => k \in 1..Len(q) /\ t[k] = q[k]
        BY <1>1, <1>2
      <4>2. ~(k <= Len(q))
        BY <1>3, <2>1, <3>1, <4>1 DEF Topless
      <4> QED
        BY <1>2, <4>2
    <3>2. i > Len(q) /\ j > Len(q)
      BY <1>5, <3>1
    <3>3. i - Len(q) \in 1..Len(r) /\ j - Len(q) \in 1..Len(r)
      BY <1>1, <1>2, <3>2
    <3>4. t[i] = r[i - Len(q)] /\ t[j] = r[j - Len(q)]
      BY <1>1, <1>2, <3>2
    <3>5. i - Len(q) = j - Len(q)
      BY <1>5, <3>3, <3>4 DEF OneTop
    <3> QED
      BY <1>2, <3>5
  <2>2. CASE Topless(r)
    <3>1. \A k \in 1..Len(t) : k > Len(q) => k - Len(q) \in 1..Len(r) /\ t[k] = r[k - Len(q)]
      BY <1>1, <1>2
    <3>2. ASSUME NEW k \in 1..Len(t), IsTop(t[k]) PROVE k <= Len(q)
      <4>1. k > Len(q) => t[k] \in ToSet(r)
        BY <1>4, <3>1
      <4>2. ~(k > Len(q))
        BY <2>2, <3>2, <4>1 DEF Topless
      <4> QED
        BY <1>2, <4>2
    <3>3. i <= Len(q) /\ j <= Len(q)
      BY <1>5, <3>2
    <3>4. i \in 1..Len(q) /\ j \in 1..Len(q) /\ t[i] = q[i] /\ t[j] = q[j]
      BY <1>1, <1>2, <3>3
    <3> QED
      BY <1>5, <3>4 DEF OneTop
  <2> QED
    BY <2>1, <2>2
<1> QED
  BY <1>5 DEF OneTop, t

-----------------------------------------------------------------------------
(* The blocks of a download *)

Added == [chain : Seq(Names), ok : BOOLEAN]
AddOne(b, acc) ==
  IF acc.ok /\ Extends(acc.chain, b) THEN [chain |-> b, ok |-> TRUE]
  ELSE [chain |-> acc.chain, ok |-> FALSE]

\* The loop over _sync_blocks as a sequence of steps, g[i] being what i blocks from the
\* back have made of the chain.
LEMMA ApplySteps ==
  ASSUME NEW c \in Seq(Names), NEW bs \in Seq(Chains)
  PROVE  \E g \in [0..Len(bs) -> Added] :
           /\ g[0] = [chain |-> c, ok |-> TRUE] /\ ApplySyncBlocks(c, bs) = g[Len(bs)].chain
           /\ \A i \in 1..Len(bs) : g[i] = AddOne(bs[Len(bs) + 1 - i], g[i - 1])
<1> DEFINE N == Len(bs)
           base == [chain |-> c, ok |-> TRUE]
           D == DOMAIN bs
           Step(h) == [t \in SUBSET D |-> IF t = {} THEN base ELSE AddOne(bs[Min(t)], h[t \ {Min(t)}])]
           fold == CHOOSE h : h = Step(h)
<1>1. N \in Nat /\ D = 1..N
  BY LenProperties
<1>2. ApplySyncBlocks(c, bs) = fold[D].chain
  BY Zenon DEF ApplySyncBlocks, FoldRight, MapThenFoldSet, AddOne
<1> HIDE DEF base, N, D
<1>3. fold = Step(fold)
  <2> DEFINE step == [k \in D |-> [a \in Added |-> AddOne(bs[k], a)]]
             pick == [T \in SUBSET D |-> Min(T)]
  <2>1. base \in Added
    BY DEF base, Added
  <2>2. \A k \in D : bs[k] \in Chains
    BY <1>1, ElementOfSeq DEF N
  <2>3. \A k \in D : \A a \in Added : AddOne(bs[k], a) \in Added
    BY <2>2 DEF AddOne, Added, Chains
  <2>4. step \in [D -> [Added -> Added]]
    BY <2>3
  <2>5. \A T \in SUBSET D : pick[T] = Min(T) /\ (T # {} => pick[T] \in T)
    BY <1>1, MinOfNaturals
  <2>6. \A k \in D, a \in Added : step[k][a] = AddOne(bs[k], a)
    OBVIOUS
  <2>7. IsFiniteSet(D)
    BY <1>1, FS_Interval
  <2> HIDE DEF step, pick
  <2>8. PICK h : IsFoldOver(h, D, Added, base, step, pick)
    <3>1. \A T \in SUBSET D : T # {} => pick[T] \in T
      BY <2>5
    <3> QED
      BY <2>1, <2>4, <2>7, <3>1, FoldOverSubsets
  <2>9. /\ h \in [SUBSET D -> Added]
        /\ \A t \in SUBSET D : h[t] = IF t = {} THEN base ELSE step[pick[t]][h[t \ {pick[t]}]]
    BY <2>8 DEF IsFoldOver
  <2>10. ASSUME NEW t \in SUBSET D
         PROVE  h[t] = IF t = {} THEN base ELSE AddOne(bs[Min(t)], h[t \ {Min(t)}])
    <3>1. CASE t = {}
      BY <2>9, <3>1
    <3>2. CASE t # {}
      <4>1. Min(t) \in D /\ pick[t] = Min(t) /\ t \ {Min(t)} \in SUBSET D
        BY <2>5, <3>2
      <4>2. h[t \ {Min(t)}] \in Added /\ h[t] = step[Min(t)][h[t \ {Min(t)}]]
        BY <2>9, <3>2, <4>1
      <4> QED
        BY <2>6, <3>2, <4>1, <4>2
    <3> QED
      BY <3>1, <3>2
  <2>11. h = [t \in SUBSET D |-> h[t]]
    BY <2>9
  <2>12. h = Step(h)
    BY <2>10, <2>11
  <2> HIDE DEF Step
  <2> QED
    BY <2>12
<1>4. \A t \in SUBSET D : fold[t] = IF t = {} THEN base ELSE AddOne(bs[Min(t)], fold[t \ {Min(t)}])
  BY <1>3
<1> HIDE DEF fold
<1> DEFINE Rest(i) == (N + 1 - i)..N
           g == [i \in 0..N |-> fold[Rest(i)]]
<1>5. g[0] = base
  <2>1. Rest(0) = {} /\ 0 \in 0..N
    BY <1>1
  <2> QED
    BY <1>4, <2>1
<1>6. ASSUME NEW i \in 1..N PROVE g[i] = AddOne(bs[N + 1 - i], g[i - 1])
  <2> DEFINE k == N + 1 - i
  <2>1. /\ Rest(i) \in SUBSET D /\ k \in Rest(i) /\ Rest(i) \in SUBSET Nat /\ \A j \in Rest(i) : k <= j
        /\ Rest(i - 1) = Rest(i) \ {k} /\ i \in 0..N /\ i - 1 \in 0..N /\ k \in Nat
    BY <1>1
  <2>2. Min(Rest(i)) = k
    <3>1. Rest(i) # {}
      BY <2>1
    <3> HIDE DEF Rest, k
    <3>2. Min(Rest(i)) \in Rest(i) /\ Min(Rest(i)) <= k
      BY <2>1, <3>1, MinOfNaturals
    <3> QED
      BY <2>1, <3>2
  <2>3. fold[Rest(i)] = AddOne(bs[k], fold[Rest(i - 1)])
    BY <1>4, <2>1, <2>2
  <2> QED
    BY <2>1, <2>3
<1>7. g[N] = fold[D]
  BY <1>1
<1> HIDE DEF g
<1>8. \A i \in 0..N : g[i] \in Added
  <2> DEFINE X == {i \in 0..N : g[i] \in Added}
  <2>1. 0 \in X
    <3>1. base \in Added
      BY DEF base, Added
    <3> QED
      BY <1>1, <1>5, <3>1
  <2>2. ASSUME NEW i \in 0..(N - 1), i \in X PROVE i + 1 \in X
    <3>1. i + 1 \in 1..N /\ (i + 1) - 1 = i /\ N + 1 - (i + 1) \in 1..N
      BY <1>1
    <3>2. bs[N + 1 - (i + 1)] \in Chains
      BY <3>1, ElementOfSeq DEF N
    <3>3. g[i + 1] = AddOne(bs[N + 1 - (i + 1)], g[i])
      BY <1>6, <3>1
    <3>4. g[i + 1] \in Added
      BY <2>2, <3>2, <3>3 DEF AddOne, Added, Chains
    <3> QED
      BY <1>1, <3>1, <3>4
  <2> HIDE DEF X
  <2>3. 0..N \subseteq X
    BY <1>1, <2>1, <2>2, SetInduction
  <2> QED
    BY <2>3 DEF X
<1>9. g \in [0..N -> Added]
  BY <1>8 DEF g
<1> QED
  BY <1>2, <1>5, <1>6, <1>7, <1>9 DEF base, N

\* What is added to a chain has it as its parent.
LEMMA ExtendsFacts ==
  ASSUME NEW c \in Seq(Names), NEW b \in Chains, Extends(c, b)
  PROVE  IsPrefix(c, b) /\ c = Parent(b) /\ Len(b) = Len(c) + 1
<1>1. b \in Seq(Names) /\ b # <<>>
  BY DEF Chains, NoBlock
<1> QED
  BY <1>1, ParentFacts DEF Extends

\* The loop leaves the chain or replaces it by one of the blocks, above it.
LEMMA ApplyFacts ==
  ASSUME NEW c \in Chains, NEW bs \in Seq(Chains)
  PROVE  /\ ApplySyncBlocks(c, bs) \in Chains /\ IsPrefix(c, ApplySyncBlocks(c, bs))
         /\ ApplySyncBlocks(c, bs) = c \/ ApplySyncBlocks(c, bs) \in ToSet(bs)
<1> DEFINE N == Len(bs)
<1>1. c \in Seq(Names) /\ N \in Nat
  BY LenProperties DEF Chains
<1>2. PICK g \in [0..N -> Added] :
           /\ g[0] = [chain |-> c, ok |-> TRUE] /\ ApplySyncBlocks(c, bs) = g[N].chain
           /\ \A i \in 1..N : g[i] = AddOne(bs[N + 1 - i], g[i - 1])
  BY <1>1, ApplySteps
<1> HIDE DEF N
<1> DEFINE Good(d) == d \in Chains /\ IsPrefix(c, d) /\ (d = c \/ d \in ToSet(bs))
           X == {i \in 0..N : Good(g[i].chain)}
<1>3. 0 \in X
  <2>1. IsPrefix(c, c)
    BY <1>1, PrefixReflexive
  <2> QED
    BY <1>1, <1>2, <2>1
<1>4. ASSUME NEW i \in 0..(N - 1), i \in X PROVE i + 1 \in X
  <2> DEFINE b == bs[N + 1 - (i + 1)]
             d == g[i].chain
  <2>1. i + 1 \in 1..N /\ i + 1 \in 0..N /\ (i + 1) - 1 = i /\ N + 1 - (i + 1) \in 1..N /\ i \in 0..N
    BY <1>1
  <2>2. b \in Chains /\ b \in ToSet(bs)
    <3>1. \A k \in 1..Len(bs) : bs[k] \in Chains /\ bs[k] \in ToSet(bs)
      BY ElementOfSeq, SeqAsSet
    <3> QED
      BY <2>1, <3>1 DEF N
  <2>3. g[i + 1] = AddOne(b, g[i])
    BY <1>2, <2>1
  <2>4. Good(d) /\ d \in Seq(Names) /\ b \in Seq(Names)
    BY <1>4, <2>2 DEF Chains
  <2> HIDE DEF b
  <2>5. CASE g[i].ok /\ Extends(d, b)
    <3>1. IsPrefix(d, b)
      BY <2>2, <2>4, <2>5, ExtendsFacts
    <3>2. IsPrefix(c, b)
      BY <1>1, <2>4, <3>1, PrefixTransitive
    <3>3. g[i + 1].chain = b
      BY <2>3, <2>5 DEF AddOne
    <3> QED
      BY <2>1, <2>2, <3>2, <3>3
  <2>6. CASE ~(g[i].ok /\ Extends(d, b))
    <3>1. g[i + 1].chain = d
      BY <2>3, <2>6 DEF AddOne
    <3> QED
      BY <2>1, <2>4, <3>1
  <2> QED
    BY <2>5, <2>6
<1>5. N \in X
  <2> HIDE DEF X
  <2>1. 0..N \subseteq X
    BY <1>1, <1>3, <1>4, SetInduction
  <2> QED
    BY <1>1, <2>1
<1> QED
  BY <1>2, <1>5

\* Blocks that go down from the goal to a child of the chain are all added: the chain
\* reaches the goal.
LEMMA ApplyReachesGoal ==
  ASSUME NEW goal \in Chains, NEW bs \in Seq(Chains), NEW k \in 1..Len(bs), k < Len(goal),
         \A i \in 1..k : bs[Len(bs) - k + i] = SubSeq(goal, 1, Len(goal) - i + 1)
  PROVE  IsPrefix(goal, ApplySyncBlocks(SubSeq(goal, 1, Len(goal) - k), bs))
<1> DEFINE N == Len(bs)
           G == Len(goal)
           c == SubSeq(goal, 1, G - k)
<1>1. goal \in Seq(Names) /\ N \in Nat /\ G \in Nat /\ k \in 1..N /\ k < G
  BY LenProperties DEF Chains
<1>2. c \in Seq(Names)
  BY <1>1, FirstPlaces
<1>3. PICK g \in [0..N -> Added] :
           /\ g[0] = [chain |-> c, ok |-> TRUE] /\ ApplySyncBlocks(c, bs) = g[N].chain
           /\ \A i \in 1..N : g[i] = AddOne(bs[N + 1 - i], g[i - 1])
  BY <1>2, ApplySteps
<1> HIDE DEF N, G
<1> DEFINE X == {j \in 0..N : /\ j <= k => g[j] = [chain |-> SubSeq(goal, 1, G - k + j), ok |-> TRUE]
                              /\ j >= k => IsPrefix(goal, g[j].chain)}
<1>4. 0 \in X
  BY <1>1, <1>3
<1>5. SubSeq(goal, 1, G) = goal
  BY <1>1 DEF G
<1>6. ASSUME NEW i \in 0..(N - 1), i \in X PROVE i + 1 \in X
  <2> DEFINE b == bs[N + 1 - (i + 1)]
             d == g[i].chain
  <2>1. i + 1 \in 1..N /\ i + 1 \in 0..N /\ (i + 1) - 1 = i /\ N + 1 - (i + 1) \in 1..N /\ i \in 0..N
    BY <1>1
  <2>2. b \in Chains /\ b \in Seq(Names)
    <3>1. \A j \in 1..Len(bs) : bs[j] \in Chains
      BY ElementOfSeq
    <3> QED
      BY <2>1, <3>1 DEF N, Chains
  <2>3. g[i + 1] = AddOne(b, g[i])
    BY <1>3, <2>1
  <2>4. CASE i < k
    <3> DEFINE j == k - i
    <3>1. j \in 1..k /\ N - k + j = N + 1 - (i + 1) /\ G - j + 1 = G - k + (i + 1)
      BY <1>1, <2>4
    <3>2. b = SubSeq(goal, 1, G - k + (i + 1))
      BY <3>1 DEF N, G
    <3>3. g[i] = [chain |-> SubSeq(goal, 1, G - k + i), ok |-> TRUE]
      BY <1>6, <2>4
    <3>4. Extends(SubSeq(goal, 1, G - k + i), b)
      <4> DEFINE m == G - k + (i + 1)
                 u == SubSeq(goal, 1, m)
                 v == SubSeq(goal, 1, m - 1)
      <4>1. m \in 0..G /\ m - 1 \in 0..G /\ m - 1 = G - k + i /\ m # 0 /\ m - 1 < m
        BY <1>1, <2>4
      <4>2. /\ u \in Seq(Names) /\ Len(u) = m /\ IsPrefix(u, goal)
            /\ v \in Seq(Names) /\ Len(v) = m - 1 /\ IsPrefix(v, goal)
        BY <1>1, <4>1, FirstPlaces DEF G
      <4> HIDE DEF u, v
      <4>3. IsPrefix(v, u)
        BY <1>1, <4>1, <4>2, PrefixesNest
      <4>4. u # <<>>
        BY <4>1, <4>2, EmptySeq
      <4>5. Len(Parent(u)) = m - 1 /\ Parent(u) \in Seq(Names) /\ IsPrefix(Parent(u), u)
        BY <4>2, <4>4, ParentFacts
      <4>6. IsPrefix(v, Parent(u))
        BY <4>1, <4>2, <4>3, <4>5, PrefixesNest
      <4>7. v = Parent(u)
        BY <4>1, <4>2, <4>5, <4>6, PrefixLength
      <4> QED
        BY <3>2, <4>1, <4>7 DEF Extends, u, v
    <3> HIDE DEF b
    <3>5. g[i + 1] = [chain |-> b, ok |-> TRUE]
      BY <2>3, <3>3, <3>4 DEF AddOne
    <3>6. ASSUME i + 1 >= k PROVE IsPrefix(goal, b)
      <4>1. G - k + (i + 1) = G
        BY <1>1, <2>4, <3>6
      <4>2. b = goal
        BY <1>5, <3>2, <4>1
      <4> QED
        BY <1>1, <4>2, PrefixReflexive
    <3>7. i + 1 >= k => IsPrefix(goal, g[i + 1].chain)
      BY <3>5, <3>6
    <3>8. g[i + 1] = [chain |-> SubSeq(goal, 1, G - k + (i + 1)), ok |-> TRUE]
      BY <3>2, <3>5
    <3> HIDE DEF G
    <3> QED
      BY <2>1, <3>7, <3>8
  <2>5. CASE i >= k
    <3>1. IsPrefix(goal, d) /\ d \in Seq(Names)
      BY <1>6, <2>5, <2>1 DEF Added
    <3>2. IsPrefix(goal, g[i + 1].chain)
      <4>1. CASE g[i].ok /\ Extends(d, b)
        <5>1. IsPrefix(d, b)
          BY <2>2, <3>1, <4>1, ExtendsFacts
        <5>2. IsPrefix(goal, b)
          BY <1>1, <2>2, <3>1, <5>1, PrefixTransitive
        <5> QED
          BY <2>3, <4>1, <5>2 DEF AddOne
      <4>2. CASE ~(g[i].ok /\ Extends(d, b))
        BY <2>3, <3>1, <4>2 DEF AddOne
      <4> QED
        BY <4>1, <4>2
    <3>3. ~(i + 1 <= k)
      BY <1>1, <2>5
    <3> QED
      BY <2>1, <3>2, <3>3
  <2> QED
    BY <1>1, <2>4, <2>5
<1>7. N \in X
  <2> HIDE DEF X
  <2>1. 0..N \subseteq X
    BY <1>1, <1>4, <1>6, SetInduction
  <2> QED
    BY <1>1, <2>1
<1>8. IsPrefix(goal, g[N].chain)
  BY <1>1, <1>7
<1> QED
  BY <1>3, <1>8 DEF G

-----------------------------------------------------------------------------
(* Ends *)

\* The two ends of a session.
LEMMA EndFacts ==
  ASSUME NEW e \in End
  PROVE  /\ Other(e) \in End /\ Other(e) # e /\ Other(Other(e)) = e /\ Other(e)[2] = e[2]
         /\ e[2] \in Session /\ Here(e) \in Node /\ There(e) \in Node /\ Here(e) # There(e)
         /\ Here(Other(e)) = There(e) /\ There(Other(e)) = Here(e)
         /\ Dialed(Other(e)) <=> ~Dialed(e)
         /\ \A x \in End : x[2] = e[2] => x = e \/ x = Other(e)
<1> DEFINE n == e[1]
           s == e[2]
           m == IF n = s[1] THEN s[2] ELSE s[1]
<1>1. n \in Node /\ s \in Session /\ n \in {s[1], s[2]} /\ e = <<n, s>>
  BY DEF End
<1>2. s[1] \in Node /\ s[2] \in Node /\ s[1] # s[2]
  BY <1>1, PeersAssumption
<1>3. Other(e) = <<m, s>>
  BY <1>1 DEF Other, Dialed
<1>4. m \in Node /\ m \in {s[1], s[2]} /\ m # n /\ {s[1], s[2]} = {n, m}
  BY <1>1, <1>2
<1>5. <<m, s>> \in End
  BY <1>1, <1>4 DEF End
<1>6. Other(<<m, s>>) = <<n, s>>
  BY <1>1, <1>2, <1>4 DEF Other, Dialed
<1>7. Dialed(<<m, s>>) <=> ~Dialed(e)
  BY <1>1, <1>2 DEF Dialed
<1>8. ASSUME NEW x \in End, x[2] = s PROVE x = e \/ x = <<m, s>>
  <2>1. x = <<x[1], s>> /\ x[1] \in {n, m}
    BY <1>4, <1>8 DEF End
  <2> QED
    BY <1>1, <2>1
<1>9. Here(e) = n /\ There(e) = m /\ There(<<m, s>>) = n /\ Here(<<m, s>>) = m
  BY <1>3, <1>6 DEF Here, There
<1> HIDE DEF m
<1> QED
  BY <1>1, <1>3, <1>4, <1>5, <1>6, <1>7, <1>8, <1>9

-----------------------------------------------------------------------------
(* Peer objects *)

\* Two Peer objects that are downloading the same.
SameDownload(p, r) == p.requested = r.requested /\ p.goal = r.goal /\ p.blocks = r.blocks
SamePlace(p, r) == p.status = r.status /\ p.pool = r.pool
Ended(p) == p.status = "ending" /\ p.pool = "none"

\* A block is a non-empty sequence of names.
LEMMA BlockFacts ==
  /\ Chains \cup {NoBlock} = Seq(Names) /\ Node \subseteq Names
  /\ \A b \in Chains : b \in Seq(Names) /\ b # NoBlock /\ Len(b) \in Nat /\ Len(b) >= 1
  /\ Len(NoBlock) = 0
<1>1. <<>> \in Seq(Names) /\ Len(<<>>) = 0
  BY EmptySeq
<1>2. \A b \in Chains : b \in Seq(Names) /\ b # NoBlock /\ Len(b) \in Nat /\ Len(b) >= 1
  <2> SUFFICES ASSUME NEW b \in Chains PROVE b \in Seq(Names) /\ b # NoBlock /\ Len(b) \in Nat /\ Len(b) >= 1
    OBVIOUS
  <2>1. b \in Seq(Names) /\ b # <<>>
    BY DEF Chains, NoBlock
  <2>2. Len(b) \in Nat /\ Len(b) # 0
    BY <2>1, LenProperties, EmptySeq
  <2> QED
    BY <2>1, <2>2 DEF NoBlock
<1>3. Chains \cup {NoBlock} = Seq(Names)
  BY <1>1 DEF Chains, NoBlock
<1>4. Node \subseteq Names
  BY DEF Names
<1>5. Len(NoBlock) = 0
  BY <1>1 DEF NoBlock
<1> QED
  BY <1>2, <1>3, <1>4, <1>5

\* A block is the first of its chain or has others before it.
LEMMA NotFirst ==
  ASSUME NEW b \in Chains
  PROVE  Len(b) > 1 <=> Len(b) # 1
<1> DEFINE k == Len(b)
<1>1. k \in Nat /\ k >= 1
  BY BlockFacts
<1> HIDE DEF k
<1>2. k > 1 <=> k # 1
  BY <1>1
<1> QED
  BY <1>2 DEF k

\* The parent of a block that is not the first is a block, and shorter.
LEMMA ParentIsBlock ==
  ASSUME NEW b \in Chains, Len(b) > 1
  PROVE  Parent(b) \in Chains /\ Len(Parent(b)) = Len(b) - 1 /\ Parent(b) # NoBlock /\ IsPrefix(Parent(b), b)
<1>1. b \in Seq(Names) /\ b # <<>> /\ Len(b) \in Nat
  BY BlockFacts DEF NoBlock
<1>2. Parent(b) \in Seq(Names) /\ Len(Parent(b)) = Len(b) - 1 /\ IsPrefix(Parent(b), b)
  BY <1>1, ParentFacts
<1>3. Parent(b) # <<>>
  BY <1>1, <1>2, EmptySeq
<1> QED
  BY <1>2, <1>3 DEF Chains, NoBlock

\* A top block that is not known is asked for.
LEMMA TopFields ==
  ASSUME NEW r \in PeerObjects, NEW n \in Node, NEW top \in Chains
  PROVE  LET p == TopReceived(r, n, top) IN
         /\ p \in PeerObjects /\ p.pool = r.pool /\ p.blocks = r.blocks /\ p.rating = r.rating
         /\ FindBlock(n, top) => SameDownload(p, r) /\ p.status = r.status
         /\ ~FindBlock(n, top) /\ r.requested = NoBlock =>
              p.status = r.status /\ p.goal = top /\ p.requested = top
         /\ ~FindBlock(n, top) /\ r.requested # NoBlock =>
              p.status = "deaf" /\ p.goal = top /\ p.requested = r.requested
<1> DEFINE p == TopReceived(r, n, top)
           f == [r EXCEPT !.goal = top]
<1>1. CASE FindBlock(n, top)
  BY <1>1 DEF TopReceived, SameDownload
<1>2. CASE ~FindBlock(n, top)
  <2>1. f \in PeerObjects /\ f.requested = r.requested /\ f.goal = top /\ SamePlace(f, r)
        /\ f.blocks = r.blocks /\ f.rating = r.rating
    BY DEF PeerObjects, SamePlace
  <2>2. p = IF f.requested # NoBlock THEN [f EXCEPT !.status = "deaf"] ELSE [f EXCEPT !.requested = top]
    BY <1>2 DEF TopReceived, Request
  <2> HIDE DEF f, p
  <2>3. CASE f.requested # NoBlock
    <3>1. p = [f EXCEPT !.status = "deaf"]
      BY <2>2, <2>3
    <3> QED
      BY <1>2, <2>1, <2>3, <3>1 DEF PeerObjects, Statuses, SamePlace, p
  <2>4. CASE f.requested = NoBlock
    <3>1. p = [f EXCEPT !.requested = top]
      BY <2>2, <2>4
    <3> QED
      BY <1>2, <2>1, <2>4, <3>1 DEF PeerObjects, SamePlace, p
  <2> QED
    BY <2>3, <2>4
<1> QED
  BY <1>1, <1>2

\* A penalty ends the session or leaves it.
LEMMA PunishFields ==
  ASSUME NEW r \in PeerObjects, NEW k \in Int
  PROVE  /\ Punish(r, k) \in PeerObjects /\ SameDownload(Punish(r, k), r)
         /\ SamePlace(Punish(r, k), r) \/ Ended(Punish(r, k))
<1> DEFINE q == [r EXCEPT !.rating = @ - k]
<1>1. q \in PeerObjects /\ SameDownload(q, r) /\ SamePlace(q, r)
  BY DEF PeerObjects, SameDownload, SamePlace
<1>2. Punish(r, k) = IF q.rating > 0 THEN q ELSE [q EXCEPT !.pool = "none", !.status = "ending"]
  BY DEF Punish, EndSession
<1> HIDE DEF q
<1>3. CASE q.rating > 0
  BY <1>1, <1>2, <1>3
<1>4. CASE ~(q.rating > 0)
  <2>1. Punish(r, k) = [q EXCEPT !.pool = "none", !.status = "ending"]
    BY <1>2, <1>4
  <2> QED
    BY <1>1, <2>1 DEF PeerObjects, Statuses, SameDownload, Ended
<1> QED
  BY <1>3, <1>4

LEMMA AnsweredFields ==
  ASSUME NEW r \in PeerObjects, NEW b \in Chains
  PROVE  LET p == Answered(r, b) IN
         /\ p \in PeerObjects /\ p.requested = NoBlock /\ p.blocks = Append(r.blocks, b)
         /\ p.goal = r.goal /\ SamePlace(p, r)
<1>1. Append(r.blocks, b) \in Seq(Chains)
  BY AppendProperties DEF PeerObjects
<1> QED
  BY <1>1 DEF Answered, PeerObjects, SamePlace

\* A block that was not asked for changes nothing in the download, the one asked for is
\* the first of its chain, ends the download, or is followed by its parent.
TookBlock(p, r, n, b) ==
  /\ r.requested # b => SameDownload(p, r) /\ (SamePlace(p, r) \/ Ended(p))
  /\ r.requested = b => p.goal = r.goal /\ (SamePlace(p, r) \/ Ended(p))
  /\ r.requested = b /\ Len(b) = 1 => p.requested = NoBlock /\ p.blocks = Append(r.blocks, b)
  /\ r.requested = b /\ Len(b) # 1 /\ FindBlock(n, Parent(b)) =>
       p.requested = NoBlock /\ p.blocks = <<>> /\ SamePlace(p, r)
  /\ r.requested = b /\ Len(b) # 1 /\ ~FindBlock(n, Parent(b)) =>
       p.requested = Parent(b) /\ p.blocks = Append(r.blocks, b) /\ SamePlace(p, r)

LEMMA BlockFields ==
  ASSUME NEW r \in PeerObjects, NEW n \in Node, NEW b \in Chains
  PROVE  BlockReceived(r, n, b) \in PeerObjects /\ TookBlock(BlockReceived(r, n, b), r, n, b)
<1> DEFINE p == BlockReceived(r, n, b)
           a == Answered(r, b)
<1> SUFFICES p \in PeerObjects /\ TookBlock(p, r, n, b)
  OBVIOUS
<1>1. /\ a \in PeerObjects /\ a.requested = NoBlock /\ a.blocks = Append(r.blocks, b)
      /\ a.goal = r.goal /\ SamePlace(a, r)
  BY AnsweredFields
<1>2. b # NoBlock /\ Len(b) \in Nat /\ Len(b) >= 1
  BY BlockFacts
<1> HIDE DEF a
<1>3. CASE r.requested = NoBlock
  <2>1. p = Punish(r, 20)
    BY <1>3, <1>2 DEF BlockReceived
  <2> QED
    BY <1>2, <1>3, <2>1, PunishFields DEF TookBlock
<1>4. CASE r.requested \notin {NoBlock, b}
  <2>1. p = Punish(r, 30)
    BY <1>4 DEF BlockReceived
  <2> QED
    BY <1>4, <2>1, PunishFields DEF TookBlock
<1>5. CASE r.requested = b /\ Len(b) = 1
  <2>1. p = Punish(a, 40)
    BY <1>2, <1>5 DEF BlockReceived, a
  <2>2. Punish(a, 40) \in PeerObjects /\ SameDownload(Punish(a, 40), a)
        /\ (SamePlace(Punish(a, 40), a) \/ Ended(Punish(a, 40)))
    BY <1>1, PunishFields
  <2> HIDE DEF p
  <2>3. /\ p \in PeerObjects /\ p.goal = r.goal /\ p.requested = NoBlock /\ p.blocks = Append(r.blocks, b)
        /\ SamePlace(p, r) \/ Ended(p)
    BY <1>1, <2>1, <2>2 DEF SameDownload, SamePlace
  <2> QED
    BY <1>5, <2>3 DEF TookBlock
<1>6. CASE r.requested = b /\ Len(b) > 1
  <2>0. Len(b) # 1
    <3>1. \A k \in Nat : k > 1 => k # 1
      OBVIOUS
    <3>2. Len(b) \in Nat /\ Len(b) > 1
      BY <1>2, <1>6, Zenon
    <3> QED
      BY <3>1, <3>2, Zenon
  <2>1. p = IF FindBlock(n, Parent(b)) THEN [a EXCEPT !.blocks = <<>>] ELSE Request(a, Parent(b))
    BY <1>2, <1>6 DEF BlockReceived, a
  <2>2. Parent(b) \in Chains
    BY <1>6, ParentIsBlock
  <2>3. Request(a, Parent(b)) = [a EXCEPT !.requested = Parent(b)]
    BY <1>1 DEF Request
  <2>4. <<>> \in Seq(Chains)
    BY EmptySeq
  <2> HIDE DEF p
  <2>5. CASE FindBlock(n, Parent(b))
    <3>1. p = [a EXCEPT !.blocks = <<>>]
      BY <2>1, <2>5
    <3>2. p \in PeerObjects /\ p.goal = r.goal /\ p.requested = NoBlock /\ p.blocks = <<>> /\ SamePlace(p, r)
      BY <1>1, <2>4, <3>1 DEF PeerObjects, SamePlace
    <3> QED
      BY <1>6, <2>5, <2>0, <3>2 DEF TookBlock
  <2>6. CASE ~FindBlock(n, Parent(b))
    <3>1. p = [a EXCEPT !.requested = Parent(b)]
      BY <2>1, <2>3, <2>6
    <3>2. p \in PeerObjects /\ p.goal = r.goal /\ p.requested = Parent(b) /\ p.blocks = Append(r.blocks, b) /\ SamePlace(p, r)
      BY <1>1, <2>2, <3>1 DEF PeerObjects, SamePlace
    <3> QED
      BY <1>6, <2>6, <2>0, <3>2 DEF TookBlock
  <2> QED
    BY <2>5, <2>6
<1> QED
  BY <1>2, <1>3, <1>4, <1>5, <1>6

-----------------------------------------------------------------------------
(* Turns *)

Said(e, msgs) == IF Reaches(e) THEN msgs ELSE <<>>

\* An end e becomes p, in is left in its inbox, and out comes to the other end, if
\* anything still reaches it.
Turn(e, p, in, out) ==
  /\ peer' \in [End -> PeerObjects] /\ inbox' \in [End -> Seq(Messages)]
  /\ peer'[e] = p /\ \A x \in End : x # e => peer'[x] = peer[x]
  /\ inbox'[e] = in /\ inbox'[Other(e)] = inbox[Other(e)] \o out
  /\ \A x \in End : x # e /\ x # Other(e) => inbox'[x] = inbox[x]
  /\ ~Reaches(e) => out = <<>>

LEMMA TurnOf ==
  ASSUME TypeOK, NEW e \in End, NEW p \in PeerObjects, NEW in \in Seq(Messages), NEW msgs \in Seq(Messages),
         peer' = [peer EXCEPT ![e] = p],
         inbox' = [inbox EXCEPT ![e] = in, ![Other(e)] = IF Reaches(e) THEN @ \o msgs ELSE @]
  PROVE  Turn(e, p, in, Said(e, msgs)) /\ Said(e, msgs) \in Seq(Messages)
<1>1. Other(e) \in End /\ Other(e) # e
  BY EndFacts
<1>2. peer \in [End -> PeerObjects] /\ inbox \in [End -> Seq(Messages)] /\ inbox[Other(e)] \in Seq(Messages)
  BY <1>1 DEF TypeOK
<1> DEFINE q == inbox[Other(e)]
           t == IF Reaches(e) THEN q \o msgs ELSE q
<1>3. q \o msgs \in Seq(Messages) /\ q \o <<>> = q /\ <<>> \in Seq(Messages)
  BY <1>2, ConcatProperties, ConcatEmptySeq, EmptySeq
<1>4. t = q \o Said(e, msgs) /\ t \in Seq(Messages) /\ Said(e, msgs) \in Seq(Messages)
  BY <1>2, <1>3 DEF Said
<1>5. inbox' = [inbox EXCEPT ![e] = in, ![Other(e)] = t]
  BY <1>1, <1>2
<1> HIDE DEF t
<1>6. inbox' \in [End -> Seq(Messages)] /\ inbox'[e] = in /\ inbox'[Other(e)] = t
      /\ \A x \in End : x # e /\ x # Other(e) => inbox'[x] = inbox[x]
  BY <1>1, <1>2, <1>4, <1>5
<1>7. peer' \in [End -> PeerObjects] /\ peer'[e] = p /\ \A x \in End : x # e => peer'[x] = peer[x]
  BY <1>2
<1>8. ~Reaches(e) => Said(e, msgs) = <<>>
  BY DEF Said
<1> QED
  BY <1>4, <1>6, <1>7, <1>8 DEF Turn

Live(e) == peer[e].status \in {"open", "ending"} /\ inbox[e] # <<>>
Word(e) == Head(inbox[e])
Rest(e) == Tail(inbox[e])
Still == chain' = chain /\ mined' = mined

\* OnConnect and OnAccept
Starts(e, p, out) ==
  /\ peer[e].status = "none" /\ p.status \in {"open", "refusing"} /\ p.pool \in {"none", "new"}
  /\ SameDownload(p, peer[e]) /\ Turn(e, p, inbox[e], out) /\ Still
  /\ out # <<>> => Dialed(e)
  /\ out \in {<<>>, <<Msg("Connect", chain[Here(e)])>>, <<Msg("CannotAccept", {})>>}

\* CloseAfterLastMessage and HandleClose
Closes(e, p, out) ==
  /\ peer[e].status \in {"open", "ending", "refusing"} /\ p = GonePeer
  /\ out = Said(e, <<Eof>>) /\ Turn(e, p, <<>>, out) /\ Still

\* HandleConnect and HandleAccepted
Hears(e, p, out) ==
  /\ Live(e) /\ IsTop(Word(e)) /\ p = TopReceived([peer[e] EXCEPT !.pool = "handshaked"], Here(e), Word(e).arg)
  /\ \E words \in {<<>>, <<Msg("Accepted", chain[Here(e)])>>} :
       /\ (Word(e).type = "Connect") <=> (words # <<>>)
       /\ out = Said(e, words \o <<Msg("Lookup", NoBlock)>> \o Asks(p))
  /\ Turn(e, p, Rest(e), out) /\ Still

Refuses(e, p, out) ==
  /\ Live(e) /\ IsTop(Word(e)) /\ SameDownload(p, peer[e]) /\ Ended(p)
  /\ \A m \in ToSet(out) : m.type \in {"Lookup", "CannotAccept"}
  /\ Turn(e, p, Rest(e), out) /\ Still

\* HandleCannotAccept, HandleLookup, HandleLookupResponse and HandleGetBlock
Chats(e, p, out) ==
  /\ Live(e) /\ Word(e).type \in {"CannotAccept", "Lookup", "LookupResponse", "GetBlock"}
  /\ SameDownload(p, peer[e]) /\ SamePlace(p, peer[e])
  /\ \A m \in ToSet(out) :
       \/ m.type \in {"LookupResponse", "BlockNotFound"}
       \/ m.type = "Block" /\ Word(e).type = "GetBlock" /\ m.arg = Word(e).arg /\ FindBlock(Here(e), m.arg)
  /\ Turn(e, p, Rest(e), out) /\ Still

\* HandleBlock
GetsBlock(e, p, out) ==
  /\ Live(e) /\ Word(e).type = "Block" /\ p = BlockReceived(peer[e], Here(e), Word(e).arg)
  /\ \A m \in ToSet(out) : m.type = "Close" \/ (p.requested # NoBlock /\ m = Msg("GetBlock", p.requested))
  /\ Turn(e, p, Rest(e), out) /\ mined' = mined
  /\ chain' = IF Applies(peer[e], Here(e), Word(e).arg)
              THEN [chain EXCEPT ![Here(e)] = ApplySyncBlocks(@, Append(peer[e].blocks, Word(e).arg))]
              ELSE chain

\* HandleNewBlock
GetsNew(e, p, out) ==
  /\ Live(e) /\ Word(e).type = "NewBlock" /\ out = <<>>
  /\ p = IF Extends(chain[Here(e)], Word(e).arg) \/ peer[e].requested = NoBlock THEN peer[e]
         ELSE [peer[e] EXCEPT !.blocks = <<Word(e).arg>> \o @]
  /\ Turn(e, p, Rest(e), out) /\ mined' = mined
  /\ chain' = [chain EXCEPT ![Here(e)] = AddBlock(@, Word(e).arg)]

Turns(e, p, out) ==
  \/ Starts(e, p, out) \/ Closes(e, p, out) \/ Hears(e, p, out) \/ Refuses(e, p, out)
  \/ Chats(e, p, out) \/ GetsBlock(e, p, out) \/ GetsNew(e, p, out)

\* The variables that the proofs of the protocol do not need.
RestTyped ==
  /\ todo \in [Node -> SUBSET Node] /\ connecting \in [Node -> SUBSET Node]
  /\ ratings \in [Node -> [Node -> Int]]
  /\ link \in [Session -> {"idle", "dialing", "failed"}]

ATurn == \E e \in End, p \in PeerObjects, out \in Seq(Messages) : Turns(e, p, out)

-----------------------------------------------------------------------------
(* Every step is a turn or one of a few others *)

BlockTypes == {"Connect", "Accepted", "GetBlock", "Block", "BlockNotFound", "NewBlock"}

\* What the types of messages carry.
LEMMA MessageFacts ==
  /\ \A t \in BlockTypes, b \in Chains : Msg(t, b) \in Messages
  /\ \A t \in {"CannotAccept", "LookupResponse"}, ms \in SUBSET Node : Msg(t, ms) \in Messages
  /\ \A t \in {"Lookup", "Close", "Eof", "Lost"} : Msg(t, NoBlock) \in Messages
  /\ \A m \in Messages : /\ m.type \in BlockTypes => m.arg \in Chains
                         /\ m.type \in {"CannotAccept", "LookupResponse"} => m.arg \in SUBSET Node
<1>1. \A t \in BlockTypes, b \in Chains : Msg(t, b) \in Messages
  BY DEF Msg, Messages, BlockTypes
<1>2. \A t \in {"CannotAccept", "LookupResponse"}, ms \in SUBSET Node : Msg(t, ms) \in Messages
  BY DEF Msg, Messages
<1>3. \A t \in {"Lookup", "Close", "Eof", "Lost"} : Msg(t, NoBlock) \in Messages
  BY DEF Msg, Messages
<1>4. \A m \in Messages : /\ m.type \in BlockTypes => m.arg \in Chains
                          /\ m.type \in {"CannotAccept", "LookupResponse"} => m.arg \in SUBSET Node
  BY DEF Messages, BlockTypes
<1> QED
  BY <1>1, <1>2, <1>3, <1>4

LEMMA SingleMessage ==
  ASSUME NEW S, NEW m \in S
  PROVE  <<m>> \in Seq(S) /\ <<>> \in Seq(S) /\ ToSet(<<m>>) = {m} /\ ToSet(<<>>) = {} /\ <<m>> # <<>>
<1>1. <<m>> \in Seq(S) /\ <<>> \in Seq(S) /\ <<m>> # <<>>
  OBVIOUS
<1>2. ToSet(<<m>>) = {m}
  BY DEF ToSet
<1>3. ToSet(<<>>) = {}
  BY DEF ToSet
<1> QED
  BY <1>1, <1>2, <1>3

\* The next request of a download, if there is one.
LEMMA AsksFacts ==
  ASSUME NEW p \in PeerObjects
  PROVE  /\ Asks(p) \in Seq(Messages)
         /\ \A m \in ToSet(Asks(p)) : p.requested # NoBlock /\ m = Msg("GetBlock", p.requested)
<1> DEFINE g == Msg("GetBlock", p.requested)
<1>1. CASE p.requested = NoBlock \/ p.status = "deaf"
  <2>1. Asks(p) = <<>>
    BY <1>1 DEF Asks
  <2>2. ToSet(<<>>) = {} /\ <<>> \in Seq(Messages)
    BY EmptySeq DEF ToSet
  <2> QED
    BY <2>1, <2>2
<1>2. CASE ~(p.requested = NoBlock \/ p.status = "deaf")
  <2>1. Asks(p) = <<g>>
    BY <1>2 DEF Asks
  <2>2. p.requested \in Chains
    BY <1>2 DEF PeerObjects
  <2>3. g \in Messages
    BY <2>2, MessageFacts DEF BlockTypes
  <2> HIDE DEF g
  <2>4. <<g>> \in Seq(Messages) /\ ToSet(<<g>>) = {g}
    BY <2>3, SingleMessage
  <2> QED
    BY <1>2, <2>1, <2>4 DEF g
<1> QED
  BY <1>1, <1>2

\* What is at the head of an inbox.
LEMMA WordFacts ==
  ASSUME TypeOK, NEW e \in End, Live(e)
  PROVE  /\ Word(e) \in Messages /\ Rest(e) \in Seq(Messages) /\ inbox[e] \in Seq(Messages) /\ inbox[e] # <<>>
         /\ Word(e) \in ToSet(inbox[e]) /\ ToSet(Rest(e)) \subseteq ToSet(inbox[e])
         /\ \A m \in ToSet(inbox[e]) : m = Word(e) \/ m \in ToSet(Rest(e))
         /\ Word(e).type \in BlockTypes => Word(e).arg \in Chains
         /\ Word(e).type \in {"CannotAccept", "LookupResponse"} => Word(e).arg \in SUBSET Node
<1>1. inbox[e] \in Seq(Messages) /\ inbox[e] # <<>>
  BY DEF TypeOK, Live
<1>2. /\ Word(e) \in Messages /\ Rest(e) \in Seq(Messages) /\ Word(e) \in ToSet(inbox[e])
      /\ ToSet(Rest(e)) \subseteq ToSet(inbox[e])
      /\ \A m \in ToSet(inbox[e]) : m = Word(e) \/ m \in ToSet(Rest(e))
  BY <1>1, TailAsSet DEF Word, Rest
<1> QED
  BY <1>1, <1>2, MessageFacts

LEMMA LiveTakes ==
  ASSUME NEW e, NEW t, Takes(e, t)
  PROVE  Live(e) /\ Word(e).type = t /\ Arg(e) = Word(e).arg
  BY DEF Takes, Live, Word, Arg

\* checkOutPeer changes the dials of one node.
LEMMA CheckOutFacts ==
  ASSUME TypeOK, NEW n \in Node, NEW ms \in SUBSET Node, NEW rated, CheckOutPeers(n, ms, rated)
  PROVE  /\ connecting' \in [Node -> SUBSET Node]
         /\ link' \in [Session -> {"idle", "dialing", "failed"}]
<1> DEFINE candidates == {m \in ms \ ({n} \cup connecting[n]) :
                            ~IsConnectedTo(n, m) /\ IdleSessions(n, m) # {}}
           dialled == {NextSession(n, m) : m \in {c \in candidates : rated[n][c] > 0}}
<1>1. /\ connecting' = [connecting EXCEPT ![n] = @ \cup candidates]
      /\ link' = [s \in Session |-> IF s \in dialled THEN "dialing" ELSE link[s]]
  BY DEF CheckOutPeers
<1>4. connecting \in [Node -> SUBSET Node] /\ link \in [Session -> {"idle", "dialing", "failed"}]
  BY DEF TypeOK
<1>5. candidates \in SUBSET Node
  OBVIOUS
<1> HIDE DEF candidates, dialled
<1>6. connecting' \in [Node -> SUBSET Node]
  BY <1>1, <1>4, <1>5
<1>7. link' \in [Session -> {"idle", "dialing", "failed"}]
  BY <1>1, <1>4
<1> QED
  BY <1>6, <1>7

LEMMA StoreRatingType ==
  ASSUME TypeOK, NEW e \in End, NEW v \in Int
  PROVE  StoreRating(e, v) \in [Node -> [Node -> Int]]
<1>1. ratings \in [Node -> [Node -> Int]] /\ Here(e) \in Node /\ There(e) \in Node
  BY EndFacts DEF TypeOK
<1>2. ratings[Here(e)] \in [Node -> Int]
  BY <1>1
<1>3. [ratings[Here(e)] EXCEPT ![There(e)] = v] \in [Node -> Int]
  BY <1>2
<1>4. [ratings EXCEPT ![Here(e)] = [ratings[Here(e)] EXCEPT ![There(e)] = v]] \in [Node -> [Node -> Int]]
  BY <1>1, <1>3
<1> QED
  BY <1>1, <1>4 DEF StoreRating

Typical == ATurn /\ RestTyped'

\* Nothing of the rest moves.
LEMMA RestStays ==
  ASSUME TypeOK, todo' = todo, connecting' = connecting, link' = link
  PROVE  ratings' \in [Node -> [Node -> Int]] => RestTyped'
  BY DEF TypeOK, RestTyped

LEMMA OnConnectTurn ==
  ASSUME TypeOK, NEW s \in Session, OnConnect(s)
  PROVE  Typical
<1> DEFINE e == <<s[1], s>>
           good == ratings[s[1]][s[2]] > 0
           start == IF good THEN Msg("Connect", chain[s[1]]) ELSE Msg("CannotAccept", {})
           p == [peer[e] EXCEPT !.status = IF good THEN "open" ELSE "refusing",
                                !.pool = IF good THEN "new" ELSE "none",
                                !.rating = ratings[s[1]][s[2]]]
<1>1. /\ peer[e].status = "none"
      /\ connecting' = [connecting EXCEPT ![s[1]] = @ \ {s[2]}]
      /\ peer' = [peer EXCEPT ![e].status = IF good THEN "open" ELSE "refusing",
                              ![e].pool   = IF good THEN "new" ELSE "none",
                              ![e].rating = ratings[s[1]][s[2]]]
      /\ inbox' = [inbox EXCEPT ![Other(e)] = IF Reaches(e) THEN Append(@, start) ELSE @]
      /\ UNCHANGED <<chain, mined, todo, ratings, link>>
  BY DEF OnConnect
<1>2. s[1] \in Node /\ s[2] \in Node /\ e \in End /\ Dialed(e) /\ Here(e) = s[1]
  BY PeersAssumption DEF End, Dialed, Here
<1>3. /\ peer \in [End -> PeerObjects] /\ inbox \in [End -> Seq(Messages)] /\ chain[s[1]] \in Chains
      /\ ratings \in [Node -> [Node -> Int]] /\ peer[e] \in PeerObjects /\ ratings[s[1]][s[2]] \in Int
      /\ todo \in [Node -> SUBSET Node] /\ connecting \in [Node -> SUBSET Node]
      /\ link \in [Session -> {"idle", "dialing", "failed"}]
  BY <1>2 DEF TypeOK
<1>4. Other(e) \in End /\ Other(e) # e
  BY <1>2, EndFacts
<1> HIDE DEF e
<1>5. start \in Messages
  BY <1>3, MessageFacts DEF BlockTypes
<1>6. p \in PeerObjects /\ p.status \in {"open", "refusing"} /\ p.pool \in {"none", "new"} /\ SameDownload(p, peer[e])
  BY <1>3 DEF PeerObjects, Statuses, SameDownload
<1> HIDE DEF start
<1>7. peer' = [peer EXCEPT ![e] = p]
  BY <1>1, <1>2, <1>3
<1>8. <<start>> \in Seq(Messages) /\ inbox[e] \in Seq(Messages) /\ inbox[Other(e)] \in Seq(Messages)
  BY <1>2, <1>3, <1>4, <1>5, SingleMessage
<1>9. Append(inbox[Other(e)], start) = inbox[Other(e)] \o <<start>>
  BY <1>5, <1>8, AppendIsConcat
<1>10. inbox' = [inbox EXCEPT ![e] = inbox[e], ![Other(e)] = IF Reaches(e) THEN @ \o <<start>> ELSE @]
  BY <1>1, <1>2, <1>3, <1>4, <1>9
<1> HIDE DEF p
<1>11. Turn(e, p, inbox[e], Said(e, <<start>>)) /\ Said(e, <<start>>) \in Seq(Messages)
  BY <1>2, <1>6, <1>7, <1>8, <1>10, TurnOf
<1>12. Said(e, <<start>>) = <<>> \/ Said(e, <<start>>) = <<Msg("Connect", chain[Here(e)])>>
       \/ Said(e, <<start>>) = <<Msg("CannotAccept", {})>>
  BY <1>2 DEF Said, start
<1>13. Starts(e, p, Said(e, <<start>>))
  <2>1. peer[e].status = "none" /\ Still
    BY <1>1 DEF Still
  <2> DEFINE out == Said(e, <<start>>)
  <2> HIDE DEF out
  <2>2. /\ Turn(e, p, inbox[e], out)
        /\ out = <<>> \/ out = <<Msg("Connect", chain[Here(e)])>> \/ out = <<Msg("CannotAccept", {})>>
    BY <1>11, <1>12 DEF out
  <2>3. Starts(e, p, out)
    BY <1>2, <1>6, <2>1, <2>2 DEF Starts
  <2> QED
    BY <2>3 DEF out
<1>14. ATurn
  BY <1>2, <1>6, <1>11, <1>13 DEF ATurn, Turns
<1>15. connecting' \in [Node -> SUBSET Node]
  BY <1>1, <1>3
<1>16. RestTyped'
  BY <1>1, <1>3, <1>15 DEF RestTyped
<1> QED
  BY <1>14, <1>16 DEF Typical

LEMMA OnAcceptTurn ==
  ASSUME TypeOK, NEW s \in Session, OnAccept(s)
  PROVE  Typical
<1> DEFINE e == <<s[2], s>>
           p == [peer[e] EXCEPT !.status = "open", !.pool = "new"]
<1>1. /\ peer[e].status = "none"
      /\ peer' = [peer EXCEPT ![e].status = "open", ![e].pool = "new"]
      /\ UNCHANGED <<chain, mined, todo, connecting, ratings, link, inbox>>
  BY DEF OnAccept
<1>2. e \in End
  BY PeersAssumption DEF End
<1>3. peer \in [End -> PeerObjects] /\ inbox \in [End -> Seq(Messages)] /\ peer[e] \in PeerObjects
  BY <1>2 DEF TypeOK
<1>4. Other(e) \in End /\ Other(e) # e
  BY <1>2, EndFacts
<1> HIDE DEF e
<1>5. p \in PeerObjects /\ p.status \in {"open", "refusing"} /\ p.pool \in {"none", "new"} /\ SameDownload(p, peer[e])
  BY <1>3 DEF PeerObjects, Statuses, SameDownload
<1>6. peer' = [peer EXCEPT ![e] = p]
  BY <1>1, <1>2, <1>3
<1>7. <<>> \in Seq(Messages) /\ inbox[e] \in Seq(Messages) /\ inbox[Other(e)] \o <<>> = inbox[Other(e)]
  BY <1>2, <1>3, <1>4, ConcatEmptySeq, EmptySeq
<1>8. inbox' = [inbox EXCEPT ![e] = inbox[e], ![Other(e)] = IF Reaches(e) THEN @ \o <<>> ELSE @]
  BY <1>1, <1>2, <1>3, <1>4, <1>7
<1> HIDE DEF p
<1>9. Turn(e, p, inbox[e], Said(e, <<>>)) /\ Said(e, <<>>) = <<>>
  BY <1>2, <1>5, <1>6, <1>7, <1>8, TurnOf DEF Said
<1>10. Starts(e, p, <<>>)
  <2>1. peer[e].status = "none" /\ Still
    BY <1>1 DEF Still
  <2>2. Turn(e, p, inbox[e], <<>>)
    BY <1>9
  <2> QED
    BY <1>5, <2>1, <2>2 DEF Starts
<1>11. ATurn
  BY <1>2, <1>5, <1>7, <1>10 DEF ATurn, Turns
<1>12. ratings' \in [Node -> [Node -> Int]]
  BY <1>1 DEF TypeOK
<1> QED
  BY <1>1, <1>11, <1>12, RestStays DEF Typical

LEMMA CloseTurn ==
  ASSUME TypeOK, NEW e \in End, CloseAfterLastMessage(e) \/ HandleClose(e)
  PROVE  Typical
<1>1. peer[e].status \in {"open", "ending", "refusing"} /\ CloseEnd(e)
      /\ UNCHANGED <<chain, mined, todo, connecting, ratings, link>>
  BY DEF CloseAfterLastMessage, HandleClose, Takes, dialVars
<1>2. GonePeer \in PeerObjects
  BY BlockFacts, EmptySeq DEF GonePeer, NoPeer, PeerObjects, Statuses, InitialRating
<1>3. Eof \in Messages
  BY MessageFacts DEF Eof
<1>4. <<Eof>> \in Seq(Messages) /\ <<>> \in Seq(Messages)
  BY <1>3, SingleMessage
<1>5. Other(e) \in End /\ inbox \in [End -> Seq(Messages)]
  BY EndFacts DEF TypeOK
<1>6. Append(inbox[Other(e)], Eof) = inbox[Other(e)] \o <<Eof>>
  BY <1>3, <1>5, AppendIsConcat
<1>7. /\ peer' = [peer EXCEPT ![e] = GonePeer]
      /\ inbox' = [inbox EXCEPT ![e] = <<>>, ![Other(e)] = IF Reaches(e) THEN Append(@, Eof) ELSE @]
  BY <1>1 DEF CloseEnd
<1>8. inbox' = [inbox EXCEPT ![e] = <<>>, ![Other(e)] = IF Reaches(e) THEN @ \o <<Eof>> ELSE @]
  <2>1. Other(e) # e
    BY EndFacts
  <2> QED
    BY <1>5, <1>6, <1>7, <2>1
<1>9. Turn(e, GonePeer, <<>>, Said(e, <<Eof>>)) /\ Said(e, <<Eof>>) \in Seq(Messages)
  BY <1>2, <1>4, <1>7, <1>8, TurnOf
<1>10. Closes(e, GonePeer, Said(e, <<Eof>>))
  BY <1>1, <1>9 DEF Closes, Still
<1>11. ATurn
  BY <1>2, <1>9, <1>10 DEF ATurn, Turns
<1>12. ratings' \in [Node -> [Node -> Int]]
  BY <1>1 DEF TypeOK
<1> QED
  BY <1>1, <1>11, <1>12, RestStays DEF Typical

\* An answer is a turn that takes the head of the inbox.
LEMMA AnswerTurn ==
  ASSUME TypeOK, NEW e \in End, Live(e), NEW p \in PeerObjects, NEW msgs \in Seq(Messages),
         SetPeer(e, p), Answer(e, msgs)
  PROVE  /\ Turn(e, p, Rest(e), Said(e, msgs)) /\ Said(e, msgs) \in Seq(Messages)
         /\ \A m \in ToSet(Said(e, msgs)) : m \in ToSet(msgs)
<1>1. Rest(e) \in Seq(Messages) /\ inbox \in [End -> Seq(Messages)] /\ Other(e) \in End /\ Other(e) # e
  BY WordFacts, EndFacts DEF TypeOK
<1>2. peer' = [peer EXCEPT ![e] = p]
  BY DEF SetPeer
<1>3. inbox' = [inbox EXCEPT ![e] = Rest(e), ![Other(e)] = IF Reaches(e) THEN @ \o msgs ELSE @]
  BY <1>1 DEF Answer, Rest
<1>4. Turn(e, p, Rest(e), Said(e, msgs)) /\ Said(e, msgs) \in Seq(Messages)
  BY <1>1, <1>2, <1>3, TurnOf
<1>5. ToSet(<<>>) = {}
  BY DEF ToSet
<1>6. \A m \in ToSet(Said(e, msgs)) : m \in ToSet(msgs)
  BY <1>5 DEF Said
<1> QED
  BY <1>4, <1>6

\* A peer that stays as it is.
LEMMA SetSame ==
  ASSUME TypeOK, NEW e \in End, peer' = peer
  PROVE  SetPeer(e, peer[e]) /\ peer[e] \in PeerObjects
  BY DEF SetPeer, TypeOK

LEMMA RefuseTurn ==
  ASSUME TypeOK, NEW e \in End, Live(e), IsTop(Word(e)), NEW words \in {<<>>, <<Msg("Lookup", NoBlock)>>},
         RefusePeer(e, words), UNCHANGED <<chain, mined, todo, dialVars>>
  PROVE  Typical
<1> DEFINE q == [peer[e] EXCEPT !.rating = @ - 10]
           p == EndSession(q)
           last == <<Msg("CannotAccept", AllPeersInfo(Here(e)))>>
<1>1. SetPeer(e, p) /\ ratings' = StoreRating(e, p.rating) /\ Answer(e, words \o last)
  BY DEF RefusePeer
<1>2. peer[e] \in PeerObjects
  BY DEF TypeOK
<1>3. q \in PeerObjects /\ SameDownload(q, peer[e])
  BY <1>2 DEF PeerObjects, SameDownload
<1> HIDE DEF q
<1>4. p \in PeerObjects /\ SameDownload(p, peer[e]) /\ Ended(p)
  BY <1>3 DEF PeerObjects, Statuses, SameDownload, Ended, EndSession
<1> HIDE DEF p
<1>5. AllPeersInfo(Here(e)) \in SUBSET Node
  BY EndFacts DEF AllPeersInfo, Handshaked, EndsOf
<1>6. Msg("CannotAccept", AllPeersInfo(Here(e))) \in Messages /\ Msg("Lookup", NoBlock) \in Messages
  BY <1>5, MessageFacts
<1>7. /\ last \in Seq(Messages) /\ words \in Seq(Messages)
      /\ \A m \in ToSet(last) \cup ToSet(words) : m.type \in {"Lookup", "CannotAccept"}
  <2> DEFINE c == Msg("CannotAccept", AllPeersInfo(Here(e)))
             l == Msg("Lookup", NoBlock)
  <2>1. c.type = "CannotAccept" /\ l.type = "Lookup"
    BY DEF Msg
  <2>2. c \in Messages /\ l \in Messages /\ last = <<c>> /\ words \in {<<>>, <<l>>}
    BY <1>6
  <2> HIDE DEF c, l, last
  <2>3. /\ <<c>> \in Seq(Messages) /\ <<l>> \in Seq(Messages) /\ <<>> \in Seq(Messages)
        /\ ToSet(<<c>>) = {c} /\ ToSet(<<l>>) = {l} /\ ToSet(<<>>) = {}
    BY <2>2, SingleMessage
  <2>4. words \in Seq(Messages) /\ last \in Seq(Messages)
    BY <2>2, <2>3
  <2>5. ToSet(last) = {c} /\ ToSet(words) \subseteq {l}
    BY <2>2, <2>3
  <2> QED
    BY <2>1, <2>4, <2>5
<1> HIDE DEF last
<1>8. words \o last \in Seq(Messages) /\ \A m \in ToSet(words \o last) : m.type \in {"Lookup", "CannotAccept"}
  BY <1>7, ConcatAsSet
<1> DEFINE out == Said(e, words \o last)
<1>9. Turn(e, p, Rest(e), out) /\ out \in Seq(Messages) /\ \A m \in ToSet(out) : m \in ToSet(words \o last)
  BY <1>1, <1>4, <1>8, AnswerTurn
<1> HIDE DEF out
<1>10. chain' = chain /\ mined' = mined /\ todo' = todo /\ connecting' = connecting /\ link' = link
  BY DEF dialVars
<1>11. Refuses(e, p, out)
  BY <1>4, <1>8, <1>9, <1>10 DEF Refuses, Still
<1>12. ATurn
  BY <1>4, <1>9, <1>11 DEF ATurn, Turns
<1>13. ratings' \in [Node -> [Node -> Int]]
  BY <1>1, <1>4, StoreRatingType DEF PeerObjects
<1> QED
  BY <1>10, <1>12, <1>13, RestStays DEF Typical

\* A Connect or Accepted message of a node that there is room for.
LEMMA HearTurn ==
  ASSUME TypeOK, NEW e \in End, Live(e), IsTop(Word(e)),
         NEW words \in {<<>>, <<Msg("Accepted", chain[Here(e)])>>},
         (Word(e).type = "Connect") <=> (words # <<>>),
         NEW p, p = TopReceived([peer[e] EXCEPT !.pool = "handshaked"], Here(e), Word(e).arg),
         SetPeer(e, p), Answer(e, words \o <<Msg("Lookup", NoBlock)>> \o Asks(p)),
         UNCHANGED <<chain, mined, todo, ratings, dialVars>>
  PROVE  Typical
<1> DEFINE q == [peer[e] EXCEPT !.pool = "handshaked"]
           msgs == words \o <<Msg("Lookup", NoBlock)>> \o Asks(p)
<1>1. peer[e] \in PeerObjects /\ Here(e) \in Node /\ chain[Here(e)] \in Chains
  BY EndFacts DEF TypeOK
<1>2. q \in PeerObjects
  BY <1>1 DEF PeerObjects
<1>3. Word(e).arg \in Chains
  BY WordFacts DEF IsTop, BlockTypes
<1> HIDE DEF q
<1>4. p \in PeerObjects
  BY <1>1, <1>2, <1>3, TopFields DEF q
<1>5. Msg("Accepted", chain[Here(e)]) \in Messages /\ Msg("Lookup", NoBlock) \in Messages
  BY <1>1, MessageFacts DEF BlockTypes
<1>6. words \in Seq(Messages) /\ <<Msg("Lookup", NoBlock)>> \in Seq(Messages) /\ Asks(p) \in Seq(Messages)
  <2>1. Asks(p) \in Seq(Messages)
    BY <1>4, AsksFacts
  <2> DEFINE a == Msg("Accepted", chain[Here(e)])
             l == Msg("Lookup", NoBlock)
  <2>2. a \in Messages /\ l \in Messages /\ words \in {<<>>, <<a>>}
    BY <1>5
  <2> HIDE DEF a, l
  <2>3. <<a>> \in Seq(Messages) /\ <<l>> \in Seq(Messages) /\ <<>> \in Seq(Messages)
    BY <2>2, SingleMessage
  <2>4. words \in Seq(Messages)
    BY <2>2, <2>3
  <2> QED
    BY <2>1, <2>3, <2>4 DEF l
<1>7. words \o <<Msg("Lookup", NoBlock)>> \in Seq(Messages)
  BY <1>6, ConcatAsSet
<1>8. msgs \in Seq(Messages)
  BY <1>6, <1>7, ConcatAsSet
<1> HIDE DEF msgs
<1>9. Turn(e, p, Rest(e), Said(e, msgs)) /\ Said(e, msgs) \in Seq(Messages)
  <2>1. Answer(e, msgs)
    BY DEF msgs
  <2> QED
    BY <1>4, <1>8, <2>1, AnswerTurn
<1>10. chain' = chain /\ mined' = mined /\ todo' = todo /\ connecting' = connecting /\ link' = link /\ ratings' = ratings
  BY DEF dialVars
<1>11. Hears(e, p, Said(e, msgs))
  <2>1. \E ws \in {<<>>, <<Msg("Accepted", chain[Here(e)])>>} :
       /\ (Word(e).type = "Connect") <=> (ws # <<>>)
       /\ Said(e, msgs) = Said(e, ws \o <<Msg("Lookup", NoBlock)>> \o Asks(p))
    BY DEF msgs
  <2> QED
    BY <1>9, <1>10, <2>1 DEF Hears, Still
<1>12. ATurn
  BY <1>4, <1>9, <1>11 DEF ATurn, Turns
<1>13. ratings' \in [Node -> [Node -> Int]]
  BY <1>10 DEF TypeOK
<1> QED
  BY <1>10, <1>12, <1>13, RestStays DEF Typical

LEMMA HandleConnectTurn ==
  ASSUME TypeOK, NEW e \in End, HandleConnect(e) \/ HandleAccepted(e)
  PROVE  Typical
<1> DEFINE p == TopReceived([peer[e] EXCEPT !.pool = "handshaked"], Here(e), Arg(e))
           look == <<Msg("Lookup", NoBlock)>>
           acc == <<Msg("Accepted", chain[Here(e)])>>
<1>1. CASE HandleConnect(e)
  <2>1. Takes(e, "Connect") /\ UNCHANGED <<chain, mined, todo, dialVars>>
    BY <1>1 DEF HandleConnect
  <2>2. Live(e) /\ IsTop(Word(e)) /\ Word(e).type = "Connect" /\ Arg(e) = Word(e).arg
    BY <2>1, LiveTakes DEF IsTop
  <2>3. CASE ~CanAddToPool(e)
    <3>1. RefusePeer(e, <<>>)
      BY <1>1, <2>3 DEF HandleConnect
    <3> QED
      BY <2>1, <2>2, <3>1, RefuseTurn
  <2>4. CASE CanAddToPool(e)
    <3>1. /\ SetPeer(e, p) /\ ratings' = ratings
          /\ Answer(e, <<Msg("Accepted", chain[Here(e)]), Msg("Lookup", NoBlock)>> \o Asks(p))
      BY <1>1, <2>4 DEF HandleConnect
    <3>2. acc # <<>> /\ <<Msg("Accepted", chain[Here(e)]), Msg("Lookup", NoBlock)>> = acc \o look
      OBVIOUS
    <3>3. Answer(e, acc \o look \o Asks(p))
      BY <3>1, <3>2
    <3>4. p = TopReceived([peer[e] EXCEPT !.pool = "handshaked"], Here(e), Word(e).arg)
      BY <2>2
    <3>5. UNCHANGED <<chain, mined, todo, ratings, dialVars>>
      BY <2>1, <3>1
    <3> HIDE DEF p
    <3> QED
      BY <2>2, <3>1, <3>2, <3>3, <3>4, <3>5, HearTurn
  <2> QED
    BY <2>3, <2>4
<1>2. CASE HandleAccepted(e)
  <2>1. Takes(e, "Accepted") /\ UNCHANGED <<chain, mined, todo, dialVars>>
    BY <1>2 DEF HandleAccepted
  <2>2. Live(e) /\ IsTop(Word(e)) /\ Word(e).type = "Accepted" /\ Arg(e) = Word(e).arg
    BY <2>1, LiveTakes DEF IsTop
  <2>3. CASE ~CanAddToPool(e)
    <3>1. RefusePeer(e, look)
      BY <1>2, <2>3 DEF HandleAccepted
    <3> QED
      BY <2>1, <2>2, <3>1, RefuseTurn
  <2>4. CASE CanAddToPool(e)
    <3>1. SetPeer(e, p) /\ ratings' = ratings /\ Answer(e, look \o Asks(p))
      BY <1>2, <2>4 DEF HandleAccepted
    <3>2. <<>> \o look = look
      OBVIOUS
    <3>3. Answer(e, <<>> \o look \o Asks(p))
      BY <3>1, <3>2
    <3>4. p = TopReceived([peer[e] EXCEPT !.pool = "handshaked"], Here(e), Word(e).arg)
      BY <2>2
    <3>5. UNCHANGED <<chain, mined, todo, ratings, dialVars>>
      BY <2>1, <3>1
    <3>6. (Word(e).type = "Connect") <=> (<<>> # <<>>)
      BY <2>2
    <3> HIDE DEF p
    <3> QED
      BY <2>2, <3>1, <3>3, <3>4, <3>5, <3>6, HearTurn
  <2> QED
    BY <2>3, <2>4
<1> QED
  BY <1>1, <1>2

\* The messages that change nothing in a session.
LEMMA ChatTurn ==
  ASSUME TypeOK, NEW e \in End, Live(e), NEW p \in PeerObjects, NEW msgs \in Seq(Messages),
         Word(e).type \in {"CannotAccept", "Lookup", "LookupResponse", "GetBlock"},
         SameDownload(p, peer[e]), SamePlace(p, peer[e]), SetPeer(e, p), Answer(e, msgs),
         \A m \in ToSet(msgs) :
           \/ m.type \in {"LookupResponse", "BlockNotFound"}
           \/ m.type = "Block" /\ Word(e).type = "GetBlock" /\ m.arg = Word(e).arg /\ FindBlock(Here(e), m.arg),
         chain' = chain, mined' = mined
  PROVE  ATurn
<1> DEFINE out == Said(e, msgs)
<1>1. Turn(e, p, Rest(e), out) /\ out \in Seq(Messages) /\ \A m \in ToSet(out) : m \in ToSet(msgs)
  BY AnswerTurn
<1> HIDE DEF out
<1>2. Chats(e, p, out)
  BY <1>1 DEF Chats, Still
<1> QED
  BY <1>1, <1>2 DEF ATurn, Turns

LEMMA HandleChatTurn ==
  ASSUME TypeOK, NEW e \in End,
         HandleCannotAccept(e) \/ HandleLookup(e) \/ HandleLookupResponse(e) \/ HandleGetBlock(e)
  PROVE  Typical
<1>1. peer[e] \in PeerObjects /\ Here(e) \in Node /\ todo \in [Node -> SUBSET Node] /\ ratings \in [Node -> [Node -> Int]]
  BY EndFacts DEF TypeOK
<1>2. SameDownload(peer[e], peer[e]) /\ SamePlace(peer[e], peer[e])
  BY DEF SameDownload, SamePlace
<1>3. <<>> \in Seq(Messages) /\ ToSet(<<>>) = {}
  BY EmptySeq DEF ToSet
<1>4. CASE HandleCannotAccept(e)
  <2> DEFINE p == [peer[e] EXCEPT !.rating = -InitialRating - 10]
             rated == StoreRating(e, p.rating)
             ms == {m \in Arg(e) : rated[Here(e)][m] > 0}
  <2>1. /\ Takes(e, "CannotAccept") /\ SetPeer(e, p) /\ ratings' = rated
        /\ CheckOutPeers(Here(e), ms, rated) /\ Answer(e, <<>>)
        /\ chain' = chain /\ mined' = mined /\ todo' = todo
    BY <1>4 DEF HandleCannotAccept
  <2>2. Live(e) /\ Word(e).type = "CannotAccept" /\ Arg(e) = Word(e).arg
    BY <2>1, LiveTakes
  <2>3. Arg(e) \in SUBSET Node
    BY <2>2, WordFacts
  <2>4. ms \in SUBSET Node
    BY <2>3
  <2>5. p \in PeerObjects /\ SameDownload(p, peer[e]) /\ SamePlace(p, peer[e]) /\ p.rating \in Int
    <3> DEFINE v == -InitialRating - 10
    <3>1. v \in Int
      BY DEF InitialRating
    <3> HIDE DEF v
    <3>2. p = [peer[e] EXCEPT !.rating = v]
      BY DEF v
    <3> QED
      BY <1>1, <3>1, <3>2 DEF PeerObjects, SameDownload, SamePlace
  <2> HIDE DEF p, ms
  <2>6. ATurn
    BY <1>3, <2>1, <2>2, <2>5, ChatTurn
  <2>7. rated \in [Node -> [Node -> Int]]
    BY <2>5, StoreRatingType
  <2> HIDE DEF rated
  <2>8. /\ connecting' \in [Node -> SUBSET Node]
        /\ link' \in [Session -> {"idle", "dialing", "failed"}]
    BY <1>1, <2>1, <2>4, CheckOutFacts
  <2>9. RestTyped'
    BY <1>1, <2>1, <2>7, <2>8 DEF RestTyped
  <2> QED
    BY <2>6, <2>8, <2>9 DEF Typical
<1>5. CASE HandleLookupResponse(e)
  <2> DEFINE ms == {m \in Arg(e) : ratings[Here(e)][m] > 0}
  <2>1. /\ Takes(e, "LookupResponse") /\ CheckOutPeers(Here(e), ms, ratings) /\ Answer(e, <<>>)
        /\ chain' = chain /\ mined' = mined /\ todo' = todo /\ ratings' = ratings /\ peer' = peer
    BY <1>5 DEF HandleLookupResponse
  <2>2. Live(e) /\ Word(e).type = "LookupResponse" /\ Arg(e) = Word(e).arg
    BY <2>1, LiveTakes
  <2>3. ms \in SUBSET Node
    BY <2>2, WordFacts
  <2>4. SetPeer(e, peer[e])
    BY <2>1, SetSame
  <2> HIDE DEF ms
  <2>5. ATurn
    BY <1>1, <1>2, <1>3, <2>1, <2>2, <2>4, ChatTurn
  <2>6. /\ connecting' \in [Node -> SUBSET Node]
        /\ link' \in [Session -> {"idle", "dialing", "failed"}]
    BY <1>1, <2>1, <2>3, CheckOutFacts
  <2>7. RestTyped'
    BY <1>1, <2>1, <2>6 DEF RestTyped
  <2> QED
    BY <2>5, <2>6, <2>7 DEF Typical
<1>6. CASE HandleLookup(e)
  <2> DEFINE m == Msg("LookupResponse", AllPeersInfo(Here(e)))
  <2>1. Takes(e, "Lookup") /\ Answer(e, <<m>>) /\ UNCHANGED <<chain, mined, todo, ratings, peer, connecting, link>>
    BY <1>6 DEF HandleLookup, dialVars
  <2>2. Live(e) /\ Word(e).type = "Lookup"
    BY <2>1, LiveTakes
  <2>3. AllPeersInfo(Here(e)) \in SUBSET Node
    BY EndFacts DEF AllPeersInfo, Handshaked, EndsOf
  <2>4. m \in Messages
    BY <2>3, MessageFacts
  <2>5. m.type = "LookupResponse"
    BY DEF Msg
  <2> HIDE DEF m
  <2>6. <<m>> \in Seq(Messages) /\ ToSet(<<m>>) = {m}
    BY <2>4, SingleMessage
  <2>7. SetPeer(e, peer[e])
    BY <2>1, SetSame
  <2>8. ATurn
    BY <1>1, <1>2, <2>1, <2>2, <2>5, <2>6, <2>7, ChatTurn
  <2> QED
    BY <1>1, <2>1, <2>8, RestStays DEF Typical
<1>7. CASE HandleGetBlock(e)
  <2> DEFINE m == Msg(IF FindBlock(Here(e), Arg(e)) THEN "Block" ELSE "BlockNotFound", Arg(e))
  <2>1. Takes(e, "GetBlock") /\ Answer(e, <<m>>) /\ UNCHANGED <<chain, mined, todo, ratings, peer, connecting, link>>
    BY <1>7 DEF HandleGetBlock, dialVars
  <2>2. Live(e) /\ Word(e).type = "GetBlock" /\ Arg(e) = Word(e).arg
    BY <2>1, LiveTakes
  <2>3. Arg(e) \in Chains
    BY <2>2, WordFacts DEF BlockTypes
  <2>4. m \in Messages
    BY <2>3, MessageFacts DEF BlockTypes
  <2>5. m.type = "BlockNotFound" \/ (m.type = "Block" /\ m.arg = Word(e).arg /\ FindBlock(Here(e), m.arg))
    BY <2>2 DEF Msg
  <2> HIDE DEF m
  <2>6. <<m>> \in Seq(Messages) /\ ToSet(<<m>>) = {m}
    BY <2>4, SingleMessage
  <2>7. SetPeer(e, peer[e])
    BY <2>1, SetSame
  <2>8. ATurn
    BY <1>1, <1>2, <2>1, <2>2, <2>5, <2>6, <2>7, ChatTurn
  <2> QED
    BY <1>1, <2>1, <2>8, RestStays DEF Typical
<1> QED
  BY <1>4, <1>5, <1>6, <1>7

LEMMA HandleBlockTurn ==
  ASSUME TypeOK, NEW e \in End, HandleBlock(e)
  PROVE  Typical
<1> DEFINE p == BlockReceived(peer[e], Here(e), Arg(e))
           msgs == IF p.status = "ending" THEN LastWords(p) ELSE Asks(p)
<1>1. /\ Takes(e, "Block") /\ SetPeer(e, p) /\ Answer(e, msgs)
      /\ chain' = IF Applies(peer[e], Here(e), Arg(e))
                  THEN [chain EXCEPT ![Here(e)] = ApplySyncBlocks(@, Append(peer[e].blocks, Arg(e)))]
                  ELSE chain
      /\ ratings' = IF p.rating = peer[e].rating THEN ratings ELSE StoreRating(e, p.rating)
      /\ mined' = mined /\ todo' = todo /\ connecting' = connecting /\ link' = link
  BY DEF HandleBlock, dialVars
<1>2. Live(e) /\ Word(e).type = "Block" /\ Arg(e) = Word(e).arg
  BY <1>1, LiveTakes
<1>3. peer[e] \in PeerObjects /\ Here(e) \in Node /\ Arg(e) \in Chains
  BY <1>2, WordFacts, EndFacts DEF TypeOK, BlockTypes
<1>4. p \in PeerObjects
  BY <1>3, BlockFields
<1>5. p = BlockReceived(peer[e], Here(e), Word(e).arg)
  BY <1>2
<1> HIDE DEF p
<1>6. /\ LastWords(p) \in Seq(Messages)
      /\ \A m \in ToSet(LastWords(p)) : m.type = "Close"
  <2> DEFINE c == Msg("Close", NoBlock)
  <2>1. c \in Messages /\ c.type = "Close"
    BY MessageFacts DEF Msg
  <2>2. LastWords(p) \in {<<c>>, <<>>}
    BY DEF LastWords
  <2> HIDE DEF c
  <2>3. <<c>> \in Seq(Messages) /\ <<>> \in Seq(Messages) /\ ToSet(<<c>>) = {c} /\ ToSet(<<>>) = {}
    BY <2>1, SingleMessage
  <2> QED
    BY <2>1, <2>2, <2>3
<1>7. /\ msgs \in Seq(Messages)
      /\ \A m \in ToSet(msgs) : m.type = "Close" \/ (p.requested # NoBlock /\ m = Msg("GetBlock", p.requested))
  BY <1>4, <1>6, AsksFacts
<1> HIDE DEF msgs
<1> DEFINE out == Said(e, msgs)
<1>8. Turn(e, p, Rest(e), out) /\ out \in Seq(Messages) /\ \A m \in ToSet(out) : m \in ToSet(msgs)
  BY <1>1, <1>2, <1>4, <1>7, AnswerTurn
<1> HIDE DEF out
<1>9. \A m \in ToSet(out) : m.type = "Close" \/ (p.requested # NoBlock /\ m = Msg("GetBlock", p.requested))
  BY <1>7, <1>8
<1>10. chain' = IF Applies(peer[e], Here(e), Word(e).arg)
                THEN [chain EXCEPT ![Here(e)] = ApplySyncBlocks(@, Append(peer[e].blocks, Word(e).arg))]
                ELSE chain
  BY <1>1, <1>2
<1>11. GetsBlock(e, p, out)
  BY <1>1, <1>2, <1>5, <1>8, <1>9, <1>10 DEF GetsBlock
<1>12. ATurn
  BY <1>4, <1>8, <1>11 DEF ATurn, Turns
<1>13. ratings' \in [Node -> [Node -> Int]]
  <2>1. ratings \in [Node -> [Node -> Int]] /\ p.rating \in Int
    BY <1>4 DEF TypeOK, PeerObjects
  <2>2. StoreRating(e, p.rating) \in [Node -> [Node -> Int]]
    BY <2>1, StoreRatingType
  <2> QED
    BY <1>1, <2>1, <2>2
<1> QED
  BY <1>1, <1>12, <1>13, RestStays DEF Typical

LEMMA HandleNewBlockTurn ==
  ASSUME TypeOK, NEW e \in End, HandleNewBlock(e)
  PROVE  Typical
<1> DEFINE p == IF Extends(chain[Here(e)], Word(e).arg) \/ peer[e].requested = NoBlock THEN peer[e]
                ELSE [peer[e] EXCEPT !.blocks = <<Word(e).arg>> \o @]
<1>1. Takes(e, "NewBlock")
  BY DEF HandleNewBlock
<1>2. Live(e) /\ Word(e).type = "NewBlock" /\ Arg(e) = Word(e).arg
  BY <1>1, LiveTakes
<1>3. /\ SetPeer(e, p) /\ Answer(e, <<>>) /\ chain' = [chain EXCEPT ![Here(e)] = AddBlock(@, Word(e).arg)]
      /\ mined' = mined /\ todo' = todo /\ connecting' = connecting /\ link' = link /\ ratings' = ratings
  BY <1>2 DEF HandleNewBlock, dialVars
<1>4. peer[e] \in PeerObjects /\ peer[e].blocks \in Seq(Chains) /\ Word(e).arg \in Chains
  BY <1>2, WordFacts DEF TypeOK, BlockTypes, PeerObjects
<1>5. p \in PeerObjects
  <2>1. <<Word(e).arg>> \o peer[e].blocks \in Seq(Chains)
    BY <1>4, SingleMessage, ConcatAsSet
  <2> QED
    BY <1>4, <2>1 DEF PeerObjects
<1>6. <<>> \in Seq(Messages)
  BY EmptySeq
<1>7. Said(e, <<>>) = <<>>
  BY DEF Said
<1>8. GetsNew(e, p, <<>>)
  <2> HIDE DEF p
  <2>1. Turn(e, p, Rest(e), <<>>)
    BY <1>2, <1>3, <1>5, <1>6, <1>7, AnswerTurn
  <2> QED
    BY <1>2, <1>3, <2>1 DEF GetsNew, p
<1> HIDE DEF p
<1>9. ATurn
  BY <1>5, <1>6, <1>8 DEF ATurn, Turns
<1>10. ratings' \in [Node -> [Node -> Int]]
  BY <1>3 DEF TypeOK
<1> QED
  BY <1>3, <1>9, <1>10, RestStays DEF Typical

-----------------------------------------------------------------------------
(* The steps that are no turns *)

\* Bootstrap and ConnectFails touch neither blocks nor sessions.
Idle == UNCHANGED <<chain, mined, peer, inbox>> /\ RestTyped'

\* a block is mined
Mined(n) ==
  /\ mined[n] = NoBlock /\ UNCHANGED <<peer, inbox>> /\ RestTyped'
  /\ chain' = [chain EXCEPT ![n] = Append(@, n)]
  /\ mined' = [mined EXCEPT ![n] = Append(chain[n], n)]

\* what a broadcast brings to e
News(e) ==
  IF peer[Other(e)].pool = "handshaked" /\ Reaches(Other(e)) THEN <<Msg("NewBlock", mined[There(e)])>> ELSE <<>>

Announced(n) ==
  /\ mined[n] # NoBlock /\ UNCHANGED <<chain, peer>> /\ RestTyped'
  /\ mined' = [mined EXCEPT ![n] = NoBlock] /\ inbox' \in [End -> Seq(Messages)]
  /\ \A e \in End : inbox'[e] = IF There(e) = n THEN inbox[e] \o News(e) ELSE inbox[e]

Broken(e) ==
  /\ UNCHANGED <<chain, mined, peer>> /\ RestTyped' /\ inbox' \in [End -> Seq(Messages)]
  /\ peer[e].status # "closed" /\ inbox'[e] \in {<<Eof>>, <<Lost>>}
  /\ \A x \in End : x # e => inbox'[x] = inbox[x]

LEMMA AnnouncedStep ==
  ASSUME TypeOK, NEW n \in Node, BroadcastNewBlock(n)
  PROVE  Announced(n)
<1>1. /\ mined[n] # NoBlock /\ mined' = [mined EXCEPT ![n] = NoBlock]
      /\ inbox' = [e \in End |-> IF Other(e) \in Handshaked(n) /\ Reaches(Other(e))
                                 THEN Append(inbox[e], Msg("NewBlock", mined[n])) ELSE inbox[e]]
      /\ chain' = chain /\ todo' = todo /\ connecting' = connecting /\ ratings' = ratings /\ link' = link /\ peer' = peer
  BY DEF BroadcastNewBlock
<1>2. mined[n] \in Chains /\ inbox \in [End -> Seq(Messages)] /\ ratings \in [Node -> [Node -> Int]]
  BY <1>1 DEF TypeOK
<1> DEFINE m == Msg("NewBlock", mined[n])
<1>3. m \in Messages
  BY <1>2, MessageFacts DEF BlockTypes
<1>4. ASSUME NEW e \in End
      PROVE  inbox'[e] \in Seq(Messages) /\ inbox'[e] = IF There(e) = n THEN inbox[e] \o News(e) ELSE inbox[e]
  <2>1. Other(e) \in End /\ Here(Other(e)) = There(e)
    BY EndFacts
  <2>2. Other(e) \in Handshaked(n) <=> There(e) = n /\ peer[Other(e)].pool = "handshaked"
    BY <2>1 DEF Handshaked, EndsOf
  <2> HIDE DEF m
  <2>3. /\ Append(inbox[e], m) = inbox[e] \o <<m>> /\ inbox[e] \o <<>> = inbox[e]
        /\ inbox[e] \o <<m>> \in Seq(Messages)
    <3>1. <<m>> \in Seq(Messages)
      BY <1>3, SingleMessage
    <3> QED
      BY <1>2, <1>3, <3>1, AppendIsConcat, ConcatEmptySeq, ConcatAsSet
  <2>4. inbox'[e] = IF There(e) = n /\ peer[Other(e)].pool = "handshaked" /\ Reaches(Other(e))
                    THEN inbox[e] \o <<m>> ELSE inbox[e]
    BY <1>1, <2>2, <2>3 DEF m
  <2>5. There(e) = n =>
        News(e) = IF peer[Other(e)].pool = "handshaked" /\ Reaches(Other(e)) THEN <<m>> ELSE <<>>
    BY DEF News, m
  <2> QED
    BY <1>2, <2>3, <2>4, <2>5
<1>5. inbox' \in [End -> Seq(Messages)]
  <2>1. inbox' = [e \in End |-> inbox'[e]]
    BY <1>1
  <2> QED
    BY <1>4, <2>1
<1>6. RestTyped'
  BY <1>1, <1>2, RestStays
<1> QED
  BY <1>1, <1>4, <1>5, <1>6 DEF Announced

LEMMA BrokenStep ==
  ASSUME TypeOK, NEW e \in End, Break(e)
  PROVE  Broken(e)
<1>1. PICK m \in {Eof, Lost} : inbox' = [inbox EXCEPT ![e] = <<m>>]
  BY DEF Break
<1>2. m \in Messages
  BY MessageFacts DEF Eof, Lost
<1>3. <<m>> \in Seq(Messages)
  BY <1>2, SingleMessage
<1>4. inbox' \in [End -> Seq(Messages)] /\ inbox'[e] = <<m>> /\ \A x \in End : x # e => inbox'[x] = inbox[x]
  BY <1>1, <1>3 DEF TypeOK
<1>5. peer[e].status # "closed" /\ UNCHANGED <<chain, mined, todo, connecting, ratings, link, peer>>
  BY DEF Break
<1>6. RestTyped'
  BY <1>5 DEF TypeOK, RestTyped
<1> QED
  BY <1>4, <1>5, <1>6 DEF Broken

\* What is then in an inbox: what was in it, or the one message.
LEMMA BrokenInbox ==
  ASSUME NEW e \in End, Broken(e), NEW x \in End
  PROVE  \/ inbox'[x] = inbox[x]
         \/ \E m : /\ m.type \in {"Eof", "Lost"} /\ inbox'[x] = <<m>>
                  /\ ToSet(inbox'[x]) = {m} /\ Len(inbox'[x]) = 1
<1>1. Eof.type = "Eof" /\ Lost.type = "Lost"
  BY DEF Eof, Lost, Msg
<1>2. \A m : ToSet(<<m>>) = {m} /\ Len(<<m>>) = 1
  BY DEF ToSet
<1>3. CASE x = e
  <2>1. PICK m \in {Eof, Lost} : inbox'[x] = <<m>>
    BY <1>3 DEF Broken
  <2> QED
    BY <1>1, <1>2, <2>1
<1>4. CASE x # e
  BY <1>4 DEF Broken
<1> QED
  BY <1>3, <1>4

LEMMA IdleStep ==
  ASSUME TypeOK, (\E n, m \in Node : Bootstrap(n, m)) \/ (\E s \in Session : ConnectFails(s))
  PROVE  Idle
<1>1. ASSUME NEW n \in Node, NEW m \in Node, Bootstrap(n, m) PROVE Idle
  <2>1. /\ todo' = [todo EXCEPT ![n] = @ \ {m}] /\ CheckOutPeers(n, {m}, ratings)
        /\ UNCHANGED <<chain, mined, ratings, peer, inbox>>
    BY <1>1 DEF Bootstrap
  <2>2. /\ connecting' \in [Node -> SUBSET Node]
        /\ link' \in [Session -> {"idle", "dialing", "failed"}]
    BY <2>1, CheckOutFacts
  <2>3. RestTyped'
    BY <2>1, <2>2 DEF TypeOK, RestTyped
  <2> QED
    BY <2>1, <2>2, <2>3 DEF Idle
<1>2. ASSUME NEW s \in Session, ConnectFails(s) PROVE Idle
  <2>1. /\ link[s] = "dialing" /\ link' = [link EXCEPT ![s] = "failed"]
        /\ connecting' = [connecting EXCEPT ![s[1]] = @ \ {s[2]}]
        /\ UNCHANGED <<chain, mined, todo, ratings, peer, inbox>>
    BY <1>2 DEF ConnectFails
  <2>2. RestTyped'
    BY <2>1 DEF TypeOK, RestTyped
  <2> QED
    BY <2>1, <2>2 DEF Idle
<1> QED
  BY <1>1, <1>2

\* The kinds of steps there are.
Kinds ==
  \/ Typical \/ Idle
  \/ \E n \in Node : Mined(n) \/ Announced(n)
  \/ \E e \in End : Broken(e)

LEMMA StepKinds ==
  ASSUME TypeOK, [Next]_vars
  PROVE  Kinds
<1>1. CASE UNCHANGED vars
  <2>1. UNCHANGED <<chain, mined, todo, connecting, ratings, link, peer, inbox>>
    BY <1>1 DEF vars
  <2>2. RestTyped'
    BY <2>1, RestStays DEF TypeOK
  <2> QED
    BY <2>1, <2>2 DEF Kinds, Idle
<1>2. ASSUME NEW n \in Node, NetworkThread(n) PROVE Kinds
  <2>1. ASSUME NEW e \in EndsOf(n), Handle(e) \/ CloseAfterLastMessage(e) PROVE Typical
    <3>1. e \in End
      BY DEF EndsOf
    <3>2. \/ HandleConnect(e) \/ HandleAccepted(e)
          \/ HandleCannotAccept(e) \/ HandleLookup(e) \/ HandleLookupResponse(e) \/ HandleGetBlock(e)
          \/ HandleBlock(e) \/ HandleNewBlock(e)
          \/ HandleClose(e) \/ CloseAfterLastMessage(e)
      BY <2>1 DEF Handle
    <3> QED
      BY <3>1, <3>2, HandleConnectTurn, HandleChatTurn, HandleBlockTurn, HandleNewBlockTurn, CloseTurn
  <2>2. ASSUME NEW s \in Session, OnConnect(s) \/ OnAccept(s) PROVE Typical
    BY <2>2, OnConnectTurn, OnAcceptTurn
  <2>3. ASSUME NEW s \in Session, ConnectFails(s) PROVE Idle
    BY <2>3, IdleStep
  <2> QED
    BY <1>2, <2>1, <2>2, <2>3 DEF NetworkThread, Kinds
<1>3. ASSUME NEW n \in Node, Mine(n) PROVE Kinds
  <2>1. Mined(n)
    <3>1. /\ mined[n] = NoBlock /\ chain' = [chain EXCEPT ![n] = Append(@, n)]
          /\ mined' = [mined EXCEPT ![n] = Append(chain[n], n)]
          /\ UNCHANGED <<todo, connecting, ratings, link, peer, inbox>>
      BY <1>3 DEF Mine
    <3>2. RestTyped'
      BY <3>1, RestStays DEF TypeOK
    <3> QED
      BY <3>1, <3>2 DEF Mined
  <2> QED
    BY <2>1 DEF Kinds
<1>4. ASSUME NEW n \in Node, BroadcastNewBlock(n) PROVE Kinds
  BY <1>4, AnnouncedStep DEF Kinds
<1>5. ASSUME NEW n \in Node, NEW m \in Node, Bootstrap(n, m) PROVE Kinds
  BY <1>5, IdleStep DEF Kinds
<1>6. ASSUME NEW e \in End, Break(e) PROVE Kinds
  BY <1>6, BrokenStep DEF Kinds
<1> QED
  BY <1>1, <1>2, <1>3, <1>4, <1>5, <1>6 DEF Next

-----------------------------------------------------------------------------
(* The handshake *)

Fresh(p) == p.requested = NoBlock /\ p.goal = NoBlock /\ p.pool # "handshaked"
Has(q, type) == \E m \in ToSet(q) : m.type = type

\* The end e that is p with q in its inbox, and the other end that is r with t in its
\* inbox.  A top block comes once, before anything is downloaded, Connect to the end that
\* was dialled and Accepted to the other; until Connect is heard both ends are fresh.
Early(p, t) == p.status = "none" \/ Has(t, "Connect")
Shakes(e, p, q, r, t) ==
  /\ p.status # "deaf" /\ (p.status = "none" => p = NoPeer)
  /\ OneTop(q) /\ (~Topless(q) => Fresh(p))
  /\ Has(q, "Connect") => ~Dialed(e) /\ r.status # "none"
  /\ Has(q, "Accepted") => Dialed(e)
  /\ Dialed(e) /\ Early(p, t) => Fresh(p) /\ Fresh(r) /\ ~Has(q, "Accepted") /\ ~Has(q, "NewBlock")
  /\ p.status = "none" => ~Has(t, "NewBlock")

Handshakes == \A e \in End : Shakes(e, peer[e], inbox[e], peer[Other(e)], inbox[Other(e)])

\* What a turn leaves in the two inboxes of its session, and that it leaves the others.
LEMMA TurnFacts ==
  ASSUME TypeOK, NEW e \in End, NEW p, NEW in, NEW out \in Seq(Messages), Turn(e, p, in, out)
  PROVE  LET o == Other(e) IN
         /\ peer'[e] = p /\ inbox'[e] = in /\ peer'[o] = peer[o] /\ inbox'[o] = inbox[o] \o out
         /\ inbox[o] \in Seq(Messages) /\ inbox'[o] \in Seq(Messages)
         /\ ToSet(inbox'[o]) = ToSet(inbox[o]) \cup ToSet(out)
         /\ \A x \in End : \/ x = e \/ x = o
                           \/ /\ peer'[x] = peer[x] /\ inbox'[x] = inbox[x]
                              /\ peer'[Other(x)] = peer[Other(x)] /\ inbox'[Other(x)] = inbox[Other(x)]
<1> DEFINE o == Other(e)
<1>1. o \in End /\ o # e /\ Other(o) = e
  BY EndFacts
<1>2. inbox[o] \in Seq(Messages)
  BY <1>1 DEF TypeOK
<1>3. peer'[e] = p /\ inbox'[e] = in /\ peer'[o] = peer[o] /\ inbox'[o] = inbox[o] \o out
  BY <1>1 DEF Turn
<1>4. inbox'[o] \in Seq(Messages) /\ ToSet(inbox'[o]) = ToSet(inbox[o]) \cup ToSet(out)
  BY <1>2, <1>3, ConcatAsSet
<1>5. ASSUME NEW x \in End, x # e, x # o
      PROVE  /\ peer'[x] = peer[x] /\ inbox'[x] = inbox[x]
             /\ peer'[Other(x)] = peer[Other(x)] /\ inbox'[Other(x)] = inbox[Other(x)]
  <2>1. Other(x) \in End /\ Other(Other(x)) = x
    BY EndFacts
  <2>2. Other(x) # e /\ Other(x) # o
    BY <1>1, <1>5, <2>1
  <2> QED
    BY <1>5, <2>1, <2>2 DEF Turn
<1> QED
  BY <1>2, <1>3, <1>4, <1>5

LEMMA ShakesTurn ==
  ASSUME TypeOK, Handshakes, NEW e \in End, NEW p, NEW in, NEW out \in Seq(Messages), Turn(e, p, in, out),
         Shakes(e, p, in, peer[Other(e)], inbox'[Other(e)]),
         Shakes(Other(e), peer[Other(e)], inbox'[Other(e)], p, in)
  PROVE  Handshakes'
<1> DEFINE o == Other(e)
<1>1. /\ peer'[e] = p /\ inbox'[e] = in /\ peer'[o] = peer[o]
      /\ \A x \in End : \/ x = e \/ x = o
                        \/ /\ peer'[x] = peer[x] /\ inbox'[x] = inbox[x]
                           /\ peer'[Other(x)] = peer[Other(x)] /\ inbox'[Other(x)] = inbox[Other(x)]
  BY TurnFacts
<1>2. o \in End /\ Other(o) = e
  BY EndFacts
<1>3. SUFFICES ASSUME NEW x \in End
               PROVE  Shakes(x, peer'[x], inbox'[x], peer'[Other(x)], inbox'[Other(x)])
  BY DEF Handshakes, Shakes, Dialed, Early, Has, OneTop, Topless, Fresh, IsTop
<1>4. CASE x = e
  BY <1>1, <1>4
<1>5. CASE x = o
  BY <1>1, <1>2, <1>5
<1>6. CASE x # e /\ x # o
  <2>1. Shakes(x, peer[x], inbox[x], peer[Other(x)], inbox[Other(x)])
    BY DEF Handshakes
  <2> QED
    BY <1>1, <1>6, <2>1
<1> QED
  BY <1>4, <1>5, <1>6

\* An end that is there, hears no top block and says none.
LEMMA QuietTurn ==
  ASSUME TypeOK, Handshakes, NEW e \in End, NEW p, NEW in \in Seq(Messages), NEW out \in Seq(Messages),
         Turn(e, p, in, out), OneTop(in), ToSet(in) \subseteq ToSet(inbox[e]),
         peer[e].status # "none", p.status \notin {"none", "deaf"}, Fresh(peer[e]) => Fresh(p),
         Topless(out), ~Has(out, "NewBlock")
  PROVE  Handshakes'
<1> DEFINE o == Other(e)
           q == inbox'[Other(e)]
<1>1. o \in End /\ Other(o) = e /\ (Dialed(o) <=> ~Dialed(e))
  BY EndFacts
<1>2. /\ inbox[o] \in Seq(Messages) /\ q = inbox[o] \o out
      /\ ToSet(q) = ToSet(inbox[o]) \cup ToSet(out)
  BY TurnFacts
<1>3. /\ Shakes(e, peer[e], inbox[e], peer[o], inbox[o])
      /\ Shakes(o, peer[o], inbox[o], peer[e], inbox[e])
  BY <1>1 DEF Handshakes
<1>4. OneTop(q)
  <2>1. OneTop(out)
    <3>1. \A i \in 1..Len(out) : out[i] \in ToSet(out)
      BY SeqAsSet
    <3> QED
      BY <3>1 DEF Topless, OneTop
  <2>2. OneTop(inbox[o])
    BY <1>3 DEF Shakes
  <2> QED
    BY <1>2, <2>1, <2>2, OneTopConcat
<1> HIDE DEF q, o
<1>5. /\ \A type \in {"Connect", "Accepted", "NewBlock"} : Has(q, type) => Has(inbox[o], type)
      /\ Topless(inbox[o]) => Topless(q)
  BY <1>2 DEF Has, Topless, IsTop
<1>6. /\ \A type \in {"Connect", "Accepted", "NewBlock"} : Has(in, type) => Has(inbox[e], type)
      /\ Topless(inbox[e]) => Topless(in)
  BY DEF Has, Topless
<1>7. Shakes(e, p, in, peer[o], q)
  BY <1>3, <1>5, <1>6 DEF Shakes, Early
<1>8. Shakes(o, peer[o], q, p, in)
  BY <1>1, <1>3, <1>4, <1>5, <1>6 DEF Shakes, Early
<1> QED
  BY <1>7, <1>8, ShakesTurn DEF o, q

\* A dial that succeeds, or a connection that is accepted.
LEMMA StartShakes ==
  ASSUME TypeOK, Handshakes, NEW e \in End, NEW p \in PeerObjects, NEW out \in Seq(Messages), Starts(e, p, out)
  PROVE  Handshakes'
<1> DEFINE o == Other(e)
           q == inbox'[Other(e)]
<1>1. o \in End /\ Other(o) = e /\ (Dialed(o) <=> ~Dialed(e))
  BY EndFacts
<1>2. /\ peer[e].status = "none" /\ p.status \in {"open", "refusing"} /\ p.pool \in {"none", "new"}
      /\ SameDownload(p, peer[e]) /\ Turn(e, p, inbox[e], out) /\ (out # <<>> => Dialed(e))
      /\ out \in {<<>>, <<Msg("Connect", chain[Here(e)])>>, <<Msg("CannotAccept", {})>>}
  BY DEF Starts
<1>3. /\ inbox[o] \in Seq(Messages) /\ q = inbox[o] \o out
      /\ ToSet(q) = ToSet(inbox[o]) \cup ToSet(out)
  BY <1>2, TurnFacts
<1>4. /\ Shakes(e, peer[e], inbox[e], peer[o], inbox[o])
      /\ Shakes(o, peer[o], inbox[o], peer[e], inbox[e])
  BY <1>1 DEF Handshakes
<1>5. peer[e] = NoPeer
  BY <1>2, <1>4 DEF Shakes
<1>6. Fresh(p)
  BY <1>2, <1>5 DEF NoPeer, SameDownload, Fresh
<1>7. \/ out = <<>>
      \/ \E m : out = <<m>> /\ m.type \in {"Connect", "CannotAccept"} /\ Dialed(e)
  <2>1. Msg("Connect", chain[Here(e)]).type = "Connect" /\ Msg("CannotAccept", {}).type = "CannotAccept"
    BY DEF Msg
  <2>2. <<Msg("Connect", chain[Here(e)])>> # <<>> /\ <<Msg("CannotAccept", {})>> # <<>>
    OBVIOUS
  <2> QED
    BY <1>2, <2>1, <2>2
<1>8. OneTop(out) /\ \A m \in ToSet(out) : m.type \in {"Connect", "CannotAccept"} /\ Dialed(e)
  <2>1. CASE out = <<>>
    BY <2>1 DEF ToSet, OneTop
  <2>2. ASSUME NEW m, out = <<m>>, m.type \in {"Connect", "CannotAccept"}, Dialed(e)
        PROVE  OneTop(out) /\ \A x \in ToSet(out) : x = m
    <3>1. ToSet(<<m>>) = {m} /\ Len(<<m>>) = 1
      BY SingleMessage
    <3> QED
      BY <2>2, <3>1 DEF OneTop
  <2> QED
    BY <1>7, <2>1, <2>2
<1> HIDE DEF q, o
<1>9. Dialed(e) => Topless(inbox[o]) /\ ~Has(inbox[o], "NewBlock") /\ Fresh(peer[o]) /\ ~Has(inbox[e], "Accepted") /\ ~Has(inbox[e], "NewBlock")
  BY <1>1, <1>2, <1>4 DEF Shakes, Early, Topless, IsTop, Has
<1>10. OneTop(q)
  <2>1. CASE Dialed(e)
    <3>1. Topless(inbox[o]) /\ OneTop(inbox[o])
      BY <1>4, <1>9, <2>1 DEF Shakes
    <3> QED
      BY <1>3, <1>8, <3>1, OneTopConcat
  <2>2. CASE ~Dialed(e)
    <3>1. Topless(out)
      BY <1>8, <2>2 DEF Topless
    <3>2. OneTop(inbox[o])
      BY <1>4 DEF Shakes
    <3> QED
      BY <1>3, <1>8, <3>1, <3>2, OneTopConcat
  <2> QED
    BY <2>1, <2>2
<1>11. Shakes(e, p, inbox[e], peer[o], q)
  <2>1. Has(q, "Connect") => Dialed(e) \/ Has(inbox[o], "Connect")
    BY <1>3, <1>8 DEF Has
  <2> QED
    BY <1>1, <1>2, <1>4, <1>6, <1>9, <2>1 DEF Shakes, Early
<1>12. Shakes(o, peer[o], q, p, inbox[e])
  <2>1. /\ Has(q, "Connect") => Dialed(e) \/ Has(inbox[o], "Connect")
        /\ Has(q, "Accepted") => Has(inbox[o], "Accepted")
        /\ Has(q, "NewBlock") => Has(inbox[o], "NewBlock")
        /\ ~Topless(q) => Dialed(e) \/ ~Topless(inbox[o])
    BY <1>3, <1>8 DEF Has, Topless, IsTop
  <2> QED
    BY <1>1, <1>2, <1>4, <1>6, <1>9, <1>10, <2>1 DEF Shakes, Early
<1> QED
  BY <1>2, <1>11, <1>12, ShakesTurn DEF o, q

\* A top block is heard.
LEMMA HearShakes ==
  ASSUME TypeOK, Handshakes, NEW e \in End, NEW p \in PeerObjects, NEW out \in Seq(Messages), Hears(e, p, out)
  PROVE  Handshakes' /\ Fresh(peer[e]) /\ p.status = peer[e].status
<1> DEFINE o == Other(e)
           q == inbox'[Other(e)]
           in == Rest(e)
           r == [peer[e] EXCEPT !.pool = "handshaked"]
<1>1. o \in End /\ Other(o) = e /\ (Dialed(o) <=> ~Dialed(e)) /\ Here(e) \in Node
  BY EndFacts
<1>2. Live(e) /\ IsTop(Word(e)) /\ Turn(e, p, in, out) /\ p = TopReceived(r, Here(e), Word(e).arg)
  BY DEF Hears
<1>3. /\ inbox[o] \in Seq(Messages) /\ q = inbox[o] \o out
      /\ ToSet(q) = ToSet(inbox[o]) \cup ToSet(out)
  BY <1>2, TurnFacts
<1>4. /\ Shakes(e, peer[e], inbox[e], peer[o], inbox[o])
      /\ Shakes(o, peer[o], inbox[o], peer[e], inbox[e])
  BY <1>1 DEF Handshakes
<1>5. Word(e) \in ToSet(inbox[e]) /\ inbox[e] \in Seq(Messages) /\ inbox[e] # <<>> /\ ToSet(in) \subseteq ToSet(inbox[e])
      /\ Word(e).arg \in Chains
  BY <1>2, WordFacts DEF IsTop, BlockTypes
<1>6. OneTop(in) /\ Topless(in)
  <2>1. OneTop(inbox[e])
    BY <1>4 DEF Shakes
  <2> QED
    BY <1>2, <1>5, <2>1, OneTopTail DEF Rest, Word
<1>7. Fresh(peer[e])
  BY <1>2, <1>4, <1>5 DEF Shakes, Topless
<1>8. peer[e] \in PeerObjects
  BY DEF TypeOK
<1>9. r \in PeerObjects /\ r.requested = NoBlock /\ r.status = peer[e].status
  BY <1>7, <1>8 DEF PeerObjects, Fresh
<1> HIDE DEF r
<1>10. p.status = peer[e].status
  BY <1>1, <1>2, <1>5, <1>9, TopFields
<1>11. p.status \in {"open", "ending"}
  BY <1>2, <1>10 DEF Live
<1>12. /\ OneTop(out) /\ ~Has(out, "NewBlock") /\ ~Has(out, "Connect")
       /\ Word(e).type # "Connect" => Topless(out)
  <2> DEFINE l == Msg("Lookup", NoBlock)
             a == Msg("Accepted", chain[Here(e)])
  <2>1. PICK words \in {<<>>, <<a>>} :
       /\ (Word(e).type = "Connect") <=> (words # <<>>)
       /\ out = Said(e, words \o <<l>> \o Asks(p))
    BY DEF Hears
  <2>2. a \in Messages /\ l \in Messages /\ a.type = "Accepted" /\ l.type = "Lookup"
    <3>1. chain[Here(e)] \in Chains
      BY <1>1 DEF TypeOK
    <3> QED
      BY <3>1, MessageFacts DEF BlockTypes, Msg
  <2> HIDE DEF a, l
  <2>3. /\ <<a>> \in Seq(Messages) /\ <<l>> \in Seq(Messages) /\ <<>> \in Seq(Messages)
        /\ ToSet(<<a>>) = {a} /\ ToSet(<<l>>) = {l} /\ ToSet(<<>>) = {} /\ Len(<<a>>) = 1
    BY <2>2, SingleMessage
  <2>4. Asks(p) \in Seq(Messages) /\ \A m \in ToSet(Asks(p)) : m.type = "GetBlock"
    <3>1. \A b : Msg("GetBlock", b).type = "GetBlock"
      BY DEF Msg
    <3> QED
      BY <3>1, AsksFacts
  <2> DEFINE L == <<l>>
             u == words \o L
             v == u \o Asks(p)
  <2>5. words \in Seq(Messages) /\ ToSet(words) \subseteq {a} /\ OneTop(words) /\ (Word(e).type # "Connect" => ToSet(words) = {})
    <3>1. OneTop(<<>>)
      BY DEF OneTop
    <3>2. OneTop(<<a>>)
      BY <2>3 DEF OneTop
    <3> QED
      BY <2>1, <2>3, <3>1, <3>2
  <2>6. L \in Seq(Messages) /\ ToSet(L) = {l} /\ Topless(L) /\ OneTop(L)
    <3>1. Len(L) = 1
      OBVIOUS
    <3>2. L \in Seq(Messages) /\ ToSet(L) = {l}
      BY <2>3
    <3> HIDE DEF L
    <3>3. OneTop(L)
      BY <3>1 DEF OneTop
    <3>4. Topless(L)
      BY <2>2, <3>2 DEF Topless, IsTop
    <3> QED
      BY <3>2, <3>3, <3>4
  <2> HIDE DEF L
  <2>7. u \in Seq(Messages) /\ ToSet(u) = ToSet(words) \cup {l}
    <3>1. u \in Seq(Messages) /\ ToSet(u) = ToSet(words) \cup ToSet(L)
      BY <2>5, <2>6, ConcatAsSet
    <3> QED
      BY <2>6, <3>1
  <2>8. OneTop(u)
    BY <2>5, <2>6, OneTopConcat
  <2> HIDE DEF u
  <2>9. v \in Seq(Messages) /\ ToSet(v) = ToSet(u) \cup ToSet(Asks(p))
    BY <2>4, <2>7, ConcatAsSet
  <2>10. OneTop(v)
    <3>1. Topless(Asks(p))
      BY <2>4 DEF Topless, IsTop
    <3>2. OneTop(Asks(p))
      <4>1. \A i \in 1..Len(Asks(p)) : Asks(p)[i] \in ToSet(Asks(p))
        BY <2>4, SeqAsSet
      <4> QED
        BY <3>1, <4>1 DEF OneTop, Topless
    <3> QED
      BY <2>4, <2>7, <2>8, <3>1, <3>2, OneTopConcat
  <2>11. \A m \in ToSet(v) : /\ m.type \in {"Accepted", "Lookup", "GetBlock"}
                             /\ Word(e).type # "Connect" => m.type \in {"Lookup", "GetBlock"}
    BY <2>2, <2>4, <2>5, <2>7, <2>9
  <2>12. out = v \/ out = <<>>
    BY <2>1 DEF Said, u, L
  <2> HIDE DEF v
  <2>13. OneTop(out)
    BY <2>10, <2>12 DEF OneTop
  <2>14. \A m \in ToSet(out) : m \in ToSet(v)
    BY <2>3, <2>12
  <2> QED
    BY <2>11, <2>13, <2>14 DEF Has, Topless, IsTop
<1> HIDE DEF q, o, in
<1>13. CASE Word(e).type = "Connect"
  <2>1. Has(inbox[e], "Connect")
    BY <1>5, <1>13 DEF Has
  <2>2. ~Dialed(e) /\ Dialed(o) /\ peer[o].status # "none" /\ Fresh(peer[o]) /\ ~Has(inbox[o], "Accepted")
    BY <1>1, <1>4, <2>1 DEF Shakes, Early
  <2>3. Topless(inbox[o]) /\ OneTop(inbox[o])
    BY <1>4, <2>2 DEF Shakes, Topless, Has, IsTop
  <2>4. OneTop(q)
    BY <1>3, <1>12, <2>3, OneTopConcat
  <2>5. ~Has(in, "Connect") /\ ~Has(in, "Accepted")
    BY <1>6 DEF Has, Topless, IsTop
  <2>6. Shakes(e, p, in, peer[o], q)
    BY <1>6, <1>11, <2>2, <2>5 DEF Shakes
  <2>7. ~Has(q, "Connect")
    BY <1>3, <1>12, <2>3 DEF Has, Topless, IsTop
  <2>8. Shakes(o, peer[o], q, p, in)
    BY <1>4, <2>2, <2>4, <2>5, <2>7 DEF Shakes, Early
  <2> QED
    BY <1>2, <1>7, <1>10, <2>6, <2>8, ShakesTurn DEF o, q
<1>14. CASE Word(e).type # "Connect"
  <2>1. Has(inbox[e], "Accepted")
    BY <1>2, <1>5, <1>14 DEF Has, IsTop
  <2>2. Dialed(e) /\ ~Dialed(o) /\ peer[e].status # "none" /\ ~Has(inbox[o], "Connect")
    BY <1>1, <1>4, <2>1 DEF Shakes, Early
  <2>3. OneTop(q)
    <3>1. OneTop(inbox[o])
      BY <1>4 DEF Shakes
    <3> QED
      BY <1>3, <1>12, <1>14, <3>1, OneTopConcat
  <2>4. /\ ~Has(q, "Connect") /\ (Has(q, "Accepted") => Has(inbox[o], "Accepted"))
        /\ Topless(inbox[o]) => Topless(q)
    BY <1>3, <1>12, <1>14, <2>2 DEF Has, Topless, IsTop
  <2>5. ~Has(in, "Connect") /\ ~Has(in, "Accepted")
    BY <1>6 DEF Has, Topless, IsTop
  <2>6. Has(in, "NewBlock") => Has(inbox[e], "NewBlock")
    BY <1>5 DEF Has
  <2>7. Shakes(e, p, in, peer[o], q)
    BY <1>6, <1>11, <2>2, <2>4, <2>5 DEF Shakes, Early
  <2>8. Shakes(o, peer[o], q, p, in)
    BY <1>4, <1>11, <2>2, <2>3, <2>4, <2>6 DEF Shakes
  <2> QED
    BY <1>2, <1>7, <1>10, <2>7, <2>8, ShakesTurn DEF o, q
<1> QED
  BY <1>13, <1>14

\* The turns that are about no top block.
LEMMA OtherShakes ==
  ASSUME TypeOK, Handshakes, NEW e \in End, NEW p \in PeerObjects, NEW out \in Seq(Messages),
         \/ Closes(e, p, out) \/ Refuses(e, p, out) \/ Chats(e, p, out)
         \/ GetsBlock(e, p, out) \/ GetsNew(e, p, out)
  PROVE  Handshakes'
<1>1. CASE Closes(e, p, out)
  <2>1. /\ peer[e].status \in {"open", "ending", "refusing"} /\ p = GonePeer
        /\ out = Said(e, <<Eof>>) /\ Turn(e, p, <<>>, out)
    BY <1>1 DEF Closes
  <2>2. p.status = "closed" /\ Fresh(p)
    BY <2>1 DEF GonePeer, NoPeer, Fresh
  <2>3. <<>> \in Seq(Messages) /\ ToSet(<<>>) = {} /\ OneTop(<<>>) /\ ToSet(<<Eof>>) = {Eof}
    <3>1. <<>> \in Seq(Messages) /\ ToSet(<<>>) = {} /\ ToSet(<<Eof>>) = {Eof}
      BY MessageFacts, SingleMessage DEF Eof
    <3>2. OneTop(<<>>)
      BY DEF OneTop
    <3> QED
      BY <3>1, <3>2
  <2>4. \A m \in ToSet(out) : m.type = "Eof"
    <3>1. Eof.type = "Eof"
      BY DEF Eof, Msg
    <3> QED
      BY <2>1, <2>3, <3>1 DEF Said
  <2>5. Topless(out) /\ ~Has(out, "NewBlock")
    BY <2>4 DEF Topless, IsTop, Has
  <2> HIDE DEF Fresh
  <2> QED
    BY <2>1, <2>2, <2>3, <2>5, QuietTurn
<1>2. CASE ~Closes(e, p, out)
  <2>1. Live(e) /\ Turn(e, p, Rest(e), out)
    BY <1>2 DEF Refuses, Chats, GetsBlock, GetsNew
  <2>2. OneTop(inbox[e])
    BY DEF Handshakes, Shakes
  <2>3. Rest(e) \in Seq(Messages) /\ ToSet(Rest(e)) \subseteq ToSet(inbox[e]) /\ OneTop(Rest(e))
    BY <2>1, <2>2, WordFacts, OneTopTail DEF Rest
  <2>4. peer[e] \in PeerObjects /\ Here(e) \in Node /\ peer[e].status \in {"open", "ending"}
    BY <2>1, EndFacts DEF TypeOK, Live
  <2>5. /\ p.status \in {"open", "ending"} /\ (Fresh(peer[e]) => Fresh(p))
        /\ \A m \in ToSet(out) : ~IsTop(m) /\ m.type # "NewBlock"
    <3>1. CASE Refuses(e, p, out)
      BY <2>4, <3>1 DEF Refuses, SameDownload, Ended, Fresh, IsTop
    <3>2. CASE Chats(e, p, out)
      <4>1. SameDownload(p, peer[e]) /\ SamePlace(p, peer[e])
        BY <3>2 DEF Chats
      <4>2. \A m \in ToSet(out) : m.type \in {"LookupResponse", "BlockNotFound", "Block"}
        BY <3>2 DEF Chats
      <4> QED
        BY <2>4, <4>1, <4>2 DEF SameDownload, SamePlace, Fresh, IsTop
    <3>3. CASE GetsBlock(e, p, out)
      <4> DEFINE b == Word(e).arg
      <4>1. b \in Chains /\ b # NoBlock
        BY <2>1, <3>3, WordFacts, BlockFacts DEF GetsBlock, BlockTypes
      <4>2. TookBlock(p, peer[e], Here(e), b)
        BY <2>4, <3>3, <4>1, BlockFields DEF GetsBlock
      <4>3. SamePlace(p, peer[e]) \/ Ended(p)
        BY <4>2 DEF TookBlock
      <4>4. Fresh(peer[e]) => Fresh(p)
        BY <4>1, <4>2, <4>3 DEF TookBlock, SameDownload, SamePlace, Ended, Fresh
      <4>5. \A m \in ToSet(out) : m.type \in {"Close", "GetBlock"}
        <5>1. \A x : Msg("GetBlock", x).type = "GetBlock"
          BY DEF Msg
        <5> QED
          BY <3>3, <5>1 DEF GetsBlock
      <4> QED
        BY <2>4, <4>3, <4>4, <4>5 DEF SamePlace, Ended, IsTop
    <3>4. CASE GetsNew(e, p, out)
      <4>1. out = <<>> /\ (p = peer[e] \/ p = [peer[e] EXCEPT !.blocks = <<Word(e).arg>> \o @])
        BY <3>4 DEF GetsNew
      <4>2. p.status = peer[e].status /\ p.pool = peer[e].pool /\ p.requested = peer[e].requested /\ p.goal = peer[e].goal
        BY <2>4, <4>1 DEF PeerObjects
      <4>3. ToSet(<<>>) = {}
        BY DEF ToSet
      <4> QED
        BY <2>4, <4>1, <4>2, <4>3 DEF Fresh
    <3> QED
      BY <1>2, <3>1, <3>2, <3>3, <3>4
  <2>6. Topless(out) /\ ~Has(out, "NewBlock")
    BY <2>5 DEF Topless, Has
  <2> QED
    BY <2>1, <2>3, <2>4, <2>5, <2>6, QuietTurn
<1> QED
  BY <1>1, <1>2

\* A block is announced.
LEMMA AnnounceShakes ==
  ASSUME TypeOK, Handshakes, NEW n \in Node, Announced(n)
  PROVE  Handshakes'
<1>1. /\ peer' = peer /\ inbox' \in [End -> Seq(Messages)]
      /\ \A e \in End : inbox'[e] = IF There(e) = n THEN inbox[e] \o News(e) ELSE inbox[e]
  BY DEF Announced
<1>2. ASSUME NEW e \in End
      PROVE  /\ OneTop(inbox[e]) => OneTop(inbox'[e])
             /\ \A type \in {"Connect", "Accepted"} : Has(inbox'[e], type) => Has(inbox[e], type)
             /\ Topless(inbox[e]) => Topless(inbox'[e])
             /\ Has(inbox'[e], "NewBlock") => Has(inbox[e], "NewBlock") \/ peer[Other(e)].pool = "handshaked"
  <2>1. CASE There(e) # n
    BY <1>1, <2>1
  <2>2. CASE There(e) = n
    <3>1. mined[n] \in Chains /\ inbox[e] \in Seq(Messages)
      BY DEF Announced, TypeOK
    <3> DEFINE m == Msg("NewBlock", mined[n])
    <3>2. m \in Messages /\ m.type = "NewBlock"
      BY <3>1, MessageFacts DEF Msg, BlockTypes
    <3>3. News(e) = IF peer[Other(e)].pool = "handshaked" /\ Reaches(Other(e)) THEN <<m>> ELSE <<>>
      BY <2>2 DEF News
    <3> HIDE DEF m
    <3>4. /\ News(e) \in Seq(Messages) /\ ToSet(News(e)) \subseteq {m} /\ Len(News(e)) <= 1
          /\ ToSet(News(e)) # {} => peer[Other(e)].pool = "handshaked"
      BY <3>2, <3>3, SingleMessage
    <3>5. inbox'[e] = inbox[e] \o News(e)
      BY <1>1, <2>2
    <3>6. ToSet(inbox'[e]) = ToSet(inbox[e]) \cup ToSet(News(e))
      BY <3>1, <3>4, <3>5, ConcatAsSet
    <3>7. Topless(News(e))
      BY <3>2, <3>4 DEF Topless, IsTop
    <3>8. OneTop(News(e))
      <4>1. \A i \in 1..Len(News(e)) : News(e)[i] \in ToSet(News(e))
        BY <3>4, SeqAsSet
      <4> QED
        BY <3>7, <4>1 DEF OneTop, Topless
    <3>9. OneTop(inbox[e]) => OneTop(inbox'[e])
      BY <3>1, <3>4, <3>5, <3>7, <3>8, OneTopConcat
    <3> QED
      BY <3>2, <3>4, <3>6, <3>9 DEF Has, Topless, IsTop
  <2> QED
    BY <2>1, <2>2
<1>3. ASSUME NEW e \in End
      PROVE  Shakes(e, peer[e], inbox'[e], peer[Other(e)], inbox'[Other(e)])
  <2> DEFINE o == Other(e)
  <2>1. o \in End /\ Other(o) = e /\ (Dialed(o) <=> ~Dialed(e))
    BY EndFacts
  <2>2. /\ Shakes(e, peer[e], inbox[e], peer[o], inbox[o])
        /\ Shakes(o, peer[o], inbox[o], peer[e], inbox[e])
    BY <2>1 DEF Handshakes
  <2> HIDE DEF o
  <2>3. /\ OneTop(inbox[e]) => OneTop(inbox'[e])
        /\ \A type \in {"Connect", "Accepted"} : Has(inbox'[e], type) => Has(inbox[e], type)
        /\ Topless(inbox[e]) => Topless(inbox'[e])
        /\ Has(inbox'[e], "NewBlock") => Has(inbox[e], "NewBlock") \/ peer[o].pool = "handshaked"
    BY <1>2 DEF o
  <2>4. /\ Has(inbox'[o], "Connect") => Has(inbox[o], "Connect")
        /\ Has(inbox'[o], "NewBlock") => Has(inbox[o], "NewBlock") \/ peer[e].pool = "handshaked"
    BY <1>2, <2>1
  <2>5. NoPeer.pool # "handshaked"
    BY DEF NoPeer
  <2>6. Shakes(e, peer[e], inbox'[e], peer[o], inbox'[o])
    BY <2>2, <2>3, <2>4, <2>5 DEF Shakes, Early, Fresh
  <2> QED
    BY <2>6 DEF o
<1> QED
  BY <1>1, <1>3 DEF Handshakes, Shakes, Dialed, Early, Has, OneTop, Topless, Fresh, IsTop

\* A connection breaks.
LEMMA BreakShakes ==
  ASSUME TypeOK, Handshakes, NEW b \in End, Broken(b)
  PROVE  Handshakes'
<1>1. peer' = peer
  BY DEF Broken
<1>2. ASSUME NEW e \in End
      PROVE  /\ OneTop(inbox[e]) => OneTop(inbox'[e])
             /\ \A type \in {"Connect", "Accepted", "NewBlock"} : Has(inbox'[e], type) => Has(inbox[e], type)
             /\ Topless(inbox[e]) => Topless(inbox'[e])
  <2>1. CASE inbox'[e] = inbox[e]
    BY <2>1
  <2>2. CASE inbox'[e] # inbox[e]
    <3>1. PICK m : m.type \in {"Eof", "Lost"} /\ ToSet(inbox'[e]) = {m} /\ Len(inbox'[e]) = 1
      BY <2>2, BrokenInbox
    <3>2. OneTop(inbox'[e])
      BY <3>1 DEF OneTop
    <3> QED
      BY <3>1, <3>2 DEF Has, Topless, IsTop
  <2> QED
    BY <2>1, <2>2
<1>3. ASSUME NEW e \in End
      PROVE  Shakes(e, peer[e], inbox'[e], peer[Other(e)], inbox'[Other(e)])
  <2> DEFINE o == Other(e)
  <2>1. o \in End
    BY EndFacts
  <2>2. Shakes(e, peer[e], inbox[e], peer[o], inbox[o])
    BY DEF Handshakes
  <2> HIDE DEF o
  <2>3. Shakes(e, peer[e], inbox'[e], peer[o], inbox'[o])
    <3>1. /\ OneTop(inbox[e]) => OneTop(inbox'[e])
          /\ \A type \in {"Connect", "Accepted", "NewBlock"} : Has(inbox'[e], type) => Has(inbox[e], type)
          /\ Topless(inbox[e]) => Topless(inbox'[e])
      BY <1>2
    <3>2. \A type \in {"Connect", "Accepted", "NewBlock"} : Has(inbox'[o], type) => Has(inbox[o], type)
      BY <1>2, <2>1
    <3> QED
      BY <2>2, <3>1, <3>2 DEF Shakes, Early
  <2> QED
    BY <2>3 DEF o
<1> QED
  BY <1>1, <1>3 DEF Handshakes, Shakes, Dialed, Early, Has, OneTop, Topless, Fresh, IsTop

LEMMA HandshakesStep ==
  ASSUME TypeOK, Handshakes, Kinds
  PROVE  Handshakes'
<1>1. CASE Typical
  <2>1. PICK e \in End, p \in PeerObjects, out \in Seq(Messages) : Turns(e, p, out)
    BY <1>1 DEF Typical, ATurn
  <2> QED
    BY <2>1, StartShakes, HearShakes, OtherShakes DEF Turns
<1>2. CASE peer' = peer /\ inbox' = inbox
  BY <1>2 DEF Handshakes, Shakes, Dialed, Early, Has, OneTop, Topless, Fresh, IsTop
<1> QED
  BY <1>1, <1>2, AnnounceShakes, BreakShakes DEF Kinds, Idle, Mined

LEMMA HandshakesInit ==
  ASSUME Init
  PROVE  Handshakes
<1>1. \A e \in End : peer[e] = NoPeer /\ inbox[e] = <<>> /\ Other(e) \in End
  BY EndFacts DEF Init
<1>2. ToSet(<<>>) = {} /\ Len(<<>>) = 0
  BY DEF ToSet
<1>3. OneTop(<<>>) /\ Topless(<<>>) /\ \A type : ~Has(<<>>, type)
  BY <1>2 DEF OneTop, Topless, Has
<1>4. Fresh(NoPeer) /\ NoPeer.status = "none"
  BY DEF Fresh, NoPeer
<1> QED
  BY <1>1, <1>3, <1>4 DEF Handshakes, Shakes

-----------------------------------------------------------------------------
(* Types and chains *)

LEMMA AddBlockFacts ==
  ASSUME NEW c \in Chains, NEW b \in Chains
  PROVE  /\ AddBlock(c, b) \in Chains /\ IsPrefix(c, AddBlock(c, b)) /\ AddBlock(c, b) \in {b, c}
         /\ Extends(c, b) => AddBlock(c, b) = b
         /\ ~Extends(c, b) => AddBlock(c, b) = c
<1>1. c \in Seq(Names)
  BY DEF Chains
<1>2. CASE Extends(c, b)
  BY <1>1, <1>2, ExtendsFacts DEF AddBlock
<1>3. CASE ~Extends(c, b)
  BY <1>1, <1>3, PrefixReflexive DEF AddBlock
<1> QED
  BY <1>2, <1>3

\* A chain changes by a block that is mined, or by one or more that a peer sent.
ChainGrows ==
  /\ chain' \in [Node -> Chains]
  /\ \A n \in Node : IsPrefix(chain[n], chain'[n])

LEMMA ChainsStep ==
  ASSUME TypeOK, Kinds
  PROVE  ChainGrows
<1>1. chain \in [Node -> Chains]
  BY DEF TypeOK
<1>2. CASE chain' = chain
  <2>1. \A n \in Node : chain[n] \in Seq(Names)
    BY <1>1 DEF Chains
  <2>2. \A n \in Node : IsPrefix(chain[n], chain[n])
    BY <2>1, PrefixReflexive
  <2> QED
    BY <1>1, <1>2, <2>2 DEF ChainGrows
<1>3. ASSUME NEW n \in Node, NEW c \in Chains, IsPrefix(chain[n], c), chain' = [chain EXCEPT ![n] = c]
      PROVE  ChainGrows
  <2>1. \A m \in Node : chain[m] \in Seq(Names)
    BY <1>1 DEF Chains
  <2>2. \A m \in Node : IsPrefix(chain[m], chain[m])
    BY <2>1, PrefixReflexive
  <2> QED
    BY <1>1, <1>3, <2>2 DEF ChainGrows
<1>4. CASE Typical
  <2>1. PICK e \in End, p \in PeerObjects, out \in Seq(Messages) : Turns(e, p, out)
    BY <1>4 DEF Typical, ATurn
  <2> DEFINE n == Here(e)
             b == Word(e).arg
  <2>2. n \in Node /\ chain[n] \in Chains /\ peer[e] \in PeerObjects /\ peer[e].blocks \in Seq(Chains)
    BY <1>1, EndFacts DEF TypeOK, PeerObjects
  <2>3. CASE GetsBlock(e, p, out)
    <3>1. CASE ~Applies(peer[e], n, b)
      BY <1>2, <2>3, <3>1 DEF GetsBlock
    <3>2. CASE Applies(peer[e], n, b)
      <4> DEFINE bs == Append(peer[e].blocks, b)
      <4>1. b \in Chains
        BY <2>3, WordFacts DEF GetsBlock, BlockTypes
      <4>2. bs \in Seq(Chains)
        BY <2>2, <4>1, AppendProperties
      <4>3. chain' = [chain EXCEPT ![n] = ApplySyncBlocks(chain[n], bs)]
        BY <2>3, <3>2 DEF GetsBlock
      <4> QED
        BY <1>3, <2>2, <4>2, <4>3, ApplyFacts
    <3> QED
      BY <3>1, <3>2
  <2>4. CASE GetsNew(e, p, out)
    <3>1. b \in Chains
      BY <2>4, WordFacts DEF GetsNew, BlockTypes
    <3>2. chain' = [chain EXCEPT ![n] = AddBlock(chain[n], b)]
      BY <2>4 DEF GetsNew
    <3> QED
      BY <1>3, <2>2, <3>1, <3>2, AddBlockFacts
  <2>5. CASE chain' = chain
    BY <1>2, <2>5
  <2> QED
    BY <2>1, <2>3, <2>4, <2>5 DEF Turns, Starts, Closes, Hears, Refuses, Chats, Still
<1>5. ASSUME NEW n \in Node, Mined(n) PROVE ChainGrows
  <2>1. chain[n] \in Seq(Names) /\ n \in Names
    BY <1>1, BlockFacts DEF Chains
  <2>2. Append(chain[n], n) \in Chains /\ IsPrefix(chain[n], Append(chain[n], n))
    BY <2>1, MinedFacts DEF Chains, NoBlock
  <2>3. chain' = [chain EXCEPT ![n] = Append(chain[n], n)]
    BY <1>5 DEF Mined
  <2> QED
    BY <1>3, <2>2, <2>3
<1> QED
  BY <1>2, <1>4, <1>5 DEF Kinds, Idle, Announced, Broken

\* A request goes down from its goal.
LEMMA GoalStep ==
  ASSUME TypeOK, Handshakes, NEW e \in End, NEW p \in PeerObjects, NEW out \in Seq(Messages), Turns(e, p, out)
  PROVE  Len(p.requested) <= Len(p.goal)
<1>1. peer[e] \in PeerObjects /\ Here(e) \in Node /\ Len(peer[e].requested) <= Len(peer[e].goal)
  BY EndFacts DEF TypeOK
<1>2. Len(NoBlock) = 0 /\ Len(NoBlock) <= Len(NoBlock)
  BY BlockFacts
<1>3. CASE SameDownload(p, peer[e])
  BY <1>1, <1>3 DEF SameDownload
<1>4. CASE Closes(e, p, out)
  <2>1. p.requested = NoBlock /\ p.goal = NoBlock
    BY <1>4 DEF Closes, GonePeer, NoPeer
  <2> QED
    BY <1>2, <2>1
<1>5. CASE Hears(e, p, out)
  <2> DEFINE r == [peer[e] EXCEPT !.pool = "handshaked"]
             top == Word(e).arg
  <2>1. Live(e) /\ IsTop(Word(e)) /\ p = TopReceived(r, Here(e), top)
    BY <1>5 DEF Hears
  <2>2. top \in Chains
    BY <2>1, WordFacts DEF IsTop, BlockTypes
  <2>3. peer[e].requested = NoBlock /\ peer[e].goal = NoBlock
    BY <1>5, HearShakes DEF Fresh
  <2>4. r \in PeerObjects /\ r.requested = NoBlock /\ r.goal = NoBlock
    BY <1>1, <2>3 DEF PeerObjects
  <2> HIDE DEF r
  <2>5. (p.requested = NoBlock /\ p.goal = NoBlock) \/ (p.requested = top /\ p.goal = top)
    BY <1>1, <2>1, <2>2, <2>4, TopFields DEF SameDownload
  <2>6. Len(top) \in Nat
    BY <2>2, BlockFacts
  <2>7. Len(top) <= Len(top)
    BY <2>6
  <2> QED
    BY <1>2, <2>5, <2>7
<1>6. CASE GetsBlock(e, p, out)
  <2> DEFINE b == Word(e).arg
  <2>1. b \in Chains
    BY <1>6, WordFacts DEF GetsBlock, BlockTypes
  <2>2. TookBlock(p, peer[e], Here(e), b)
    BY <1>1, <1>6, <2>1, BlockFields DEF GetsBlock
  <2>3. CASE peer[e].requested # b
    BY <1>3, <2>2, <2>3 DEF TookBlock
  <2>4. CASE peer[e].requested = b
    <3>1. p.goal = peer[e].goal /\ (p.requested = NoBlock \/ (p.requested = Parent(b) /\ Len(b) # 1))
      BY <2>2, <2>4 DEF TookBlock
    <3>2. Len(b) \in Nat /\ Len(b) >= 1 /\ Len(peer[e].goal) \in Nat
      BY <1>1, <2>1, BlockFacts, LenProperties DEF PeerObjects
    <3>3. CASE p.requested = NoBlock
      BY <1>2, <3>1, <3>2, <3>3
    <3>4. CASE p.requested = Parent(b) /\ Len(b) # 1
      <4>1. Len(Parent(b)) = Len(b) - 1
        <5>1. \A k \in Nat : k >= 1 /\ k # 1 => k > 1
          OBVIOUS
        <5>2. Len(b) > 1
          BY <3>2, <3>4, <5>1
        <5> QED
          BY <2>1, <5>2, ParentIsBlock
      <4>2. Len(b) <= Len(peer[e].goal)
        BY <1>1, <2>4
      <4>3. \A k, g \in Nat : k <= g => k - 1 <= g
        OBVIOUS
      <4>4. Len(b) - 1 <= Len(peer[e].goal)
        BY <3>2, <4>2, <4>3
      <4> QED
        BY <3>1, <3>4, <4>1, <4>4
    <3> QED
      BY <3>1, <3>3, <3>4
  <2> QED
    BY <2>3, <2>4
<1>7. CASE GetsNew(e, p, out)
  <2>1. p.requested = peer[e].requested /\ p.goal = peer[e].goal
    BY <1>1, <1>7 DEF GetsNew, PeerObjects
  <2> QED
    BY <1>1, <2>1
<1> QED
  BY <1>3, <1>4, <1>5, <1>6, <1>7 DEF Turns, Starts, Refuses, Chats

LEMMA TypeStep ==
  ASSUME TypeOK, Handshakes, Kinds
  PROVE  TypeOK'
<1>1. ChainGrows
  BY ChainsStep
<1>2. RestTyped'
  BY DEF Kinds, Typical, Idle, Mined, Announced, Broken
<1>3. /\ peer' \in [End -> PeerObjects] /\ inbox' \in [End -> Seq(Messages)]
      /\ \A e \in End : Len(peer'[e].requested) <= Len(peer'[e].goal)
  <2>1. CASE Typical
    <3>1. PICK e \in End, p \in PeerObjects, out \in Seq(Messages) : Turns(e, p, out)
      BY <2>1 DEF Typical, ATurn
    <3>2. \E in : Turn(e, p, in, out)
      BY <3>1 DEF Turns, Starts, Closes, Hears, Refuses, Chats, GetsBlock, GetsNew
    <3>3. Len(p.requested) <= Len(p.goal)
      BY <3>1, GoalStep
    <3>4. \A x \in End : Len(peer[x].requested) <= Len(peer[x].goal)
      BY DEF TypeOK
    <3> QED
      BY <3>2, <3>3, <3>4 DEF Turn
  <2>2. CASE peer' = peer /\ inbox' \in [End -> Seq(Messages)]
    BY <2>2 DEF TypeOK
  <2>3. CASE UNCHANGED <<peer, inbox>>
    BY <2>3 DEF TypeOK
  <2> QED
    BY <2>1, <2>2, <2>3 DEF Kinds, Idle, Mined, Announced, Broken
<1>4. /\ mined' \in [Node -> Chains \cup {NoBlock}]
      /\ \A n \in Node : mined'[n] = NoBlock \/ IsPrefix(mined'[n], chain'[n])
  <2>1. /\ mined \in [Node -> Chains \cup {NoBlock}] /\ chain \in [Node -> Chains]
        /\ \A n \in Node : mined[n] = NoBlock \/ IsPrefix(mined[n], chain[n])
    BY DEF TypeOK
  <2>2. ASSUME NEW n \in Node, mined[n] # NoBlock PROVE IsPrefix(mined[n], chain'[n])
    <3>1. mined[n] \in Seq(Names) /\ chain[n] \in Seq(Names) /\ chain'[n] \in Seq(Names)
      BY <1>1, <2>1, <2>2 DEF ChainGrows, Chains
    <3>2. IsPrefix(mined[n], chain[n]) /\ IsPrefix(chain[n], chain'[n])
      BY <1>1, <2>1, <2>2 DEF ChainGrows
    <3> QED
      BY <3>1, <3>2, PrefixTransitive
  <2>3. CASE mined' = mined
    BY <2>1, <2>2, <2>3
  <2>4. ASSUME NEW k \in Node, Mined(k)
        PROVE  /\ mined' \in [Node -> Chains \cup {NoBlock}]
               /\ \A n \in Node : mined'[n] = NoBlock \/ IsPrefix(mined'[n], chain'[n])
    <3> DEFINE c == Append(chain[k], k)
    <3>1. chain[k] \in Seq(Names) /\ k \in Names
      BY <2>1, BlockFacts DEF Chains
    <3>2. c \in Chains /\ c \in Seq(Names)
      BY <3>1, MinedFacts DEF Chains, NoBlock
    <3>3. mined' = [mined EXCEPT ![k] = c] /\ chain'[k] = c
      BY <2>1, <2>4 DEF Mined
    <3> HIDE DEF c
    <3>4. IsPrefix(c, c)
      BY <3>2, PrefixReflexive
    <3> QED
      BY <2>1, <2>2, <3>2, <3>3, <3>4
  <2>5. ASSUME NEW k \in Node, Announced(k)
        PROVE  /\ mined' \in [Node -> Chains \cup {NoBlock}]
               /\ \A n \in Node : mined'[n] = NoBlock \/ IsPrefix(mined'[n], chain'[n])
    <3>1. mined' = [mined EXCEPT ![k] = NoBlock]
      BY <2>5 DEF Announced
    <3> QED
      BY <2>1, <2>2, <3>1
  <2>6. Typical => mined' = mined
    BY DEF Typical, ATurn, Turns, Starts, Closes, Hears, Refuses, Chats, GetsBlock, GetsNew, Still
  <2> QED
    BY <2>3, <2>4, <2>5, <2>6 DEF Kinds, Idle, Broken
<1> QED
  BY <1>1, <1>2, <1>3, <1>4 DEF TypeOK, ChainGrows, RestTyped

LEMMA TypeInit ==
  ASSUME Init
  PROVE  TypeOK
<1>1. /\ chain \in InitialChains /\ mined = [n \in Node |-> NoBlock]
      /\ todo = Seeds /\ connecting = [n \in Node |-> {}]
      /\ ratings = [n \in Node |-> [m \in Node |-> InitialRating]]
      /\ link = [s \in Session |-> "idle"]
      /\ peer = [e \in End |-> NoPeer] /\ inbox = [e \in End |-> <<>>]
  BY DEF Init
<1>2. chain \in [Node -> Chains] /\ todo \in [Node -> SUBSET Node]
  BY <1>1, PeersAssumption
<1>3. ratings \in [Node -> [Node -> Int]]
  BY <1>1 DEF InitialRating
<1>4. NoPeer \in PeerObjects /\ <<>> \in Seq(Messages)
  BY EmptySeq DEF NoPeer, PeerObjects, Statuses, InitialRating
<1>5. peer \in [End -> PeerObjects] /\ inbox \in [End -> Seq(Messages)]
  BY <1>1, <1>4
<1>6. Len(NoPeer.requested) <= Len(NoPeer.goal)
  <2>1. NoPeer.requested = NoBlock /\ NoPeer.goal = NoBlock
    BY DEF NoPeer
  <2>2. Len(NoBlock) <= Len(NoBlock)
    BY BlockFacts
  <2> QED
    BY <2>1, <2>2
<1>7. \A e \in End : Len(peer[e].requested) <= Len(peer[e].goal)
  BY <1>1, <1>6
<1>8. mined \in [Node -> Chains \cup {NoBlock}] /\ \A n \in Node : mined[n] = NoBlock
  BY <1>1
<1> QED
  BY <1>1, <1>2, <1>3, <1>5, <1>7, <1>8 DEF TypeOK

\* TypeOK always holds.  It needs the invariant of the handshake: a top block comes
\* while nothing is being downloaded, so that a new goal is never below a request.
THEOREM PeersTyped == Spec => []TypeOK
<1>1. Init => TypeOK /\ Handshakes
  BY TypeInit, HandshakesInit
<1>2. TypeOK /\ Handshakes /\ [Next]_vars => TypeOK' /\ Handshakes'
  BY StepKinds, TypeStep, HandshakesStep
<1> QED
  BY <1>1, <1>2, PTL DEF Spec

LEMMA HandshakesHold == Spec => []Handshakes
<1>1. Init => TypeOK /\ Handshakes
  BY TypeInit, HandshakesInit
<1>2. TypeOK /\ Handshakes /\ [Next]_vars => TypeOK' /\ Handshakes'
  BY StepKinds, TypeStep, HandshakesStep
<1> QED
  BY <1>1, <1>2, PTL DEF Spec

-----------------------------------------------------------------------------
(* What the peers know of each other's chains *)

\* With the chains c: what is sent to e is on the chain of the sender, what is asked of e
\* is on its own, and what e downloads is on the chain of the other node.
KnownWord(c, e, m) ==
  /\ m.type \in {"Connect", "Accepted", "Block", "NewBlock"} => IsPrefix(m.arg, c[There(e)])
  /\ m.type = "GetBlock" => IsPrefix(m.arg, c[Here(e)])
KnownPeer(c, e, p) ==
  /\ IsPrefix(p.requested, c[There(e)]) /\ IsPrefix(p.goal, c[There(e)])
  /\ \A b \in ToSet(p.blocks) : IsPrefix(b, c[There(e)])

Known == \A e \in End : KnownPeer(chain, e, peer[e]) /\ \A m \in ToSet(inbox[e]) : KnownWord(chain, e, m)

\* It stays so while the chains grow.
LEMMA StaysKnown ==
  ASSUME TypeOK, ChainGrows, NEW e \in End
  PROVE  /\ \A m \in Messages : KnownWord(chain, e, m) => KnownWord(chain', e, m)
         /\ \A p \in PeerObjects : KnownPeer(chain, e, p) => KnownPeer(chain', e, p)
<1>1. Here(e) \in Node /\ There(e) \in Node
  BY EndFacts
<1>2. ASSUME NEW b \in Seq(Names), NEW n \in Node, IsPrefix(b, chain[n]) PROVE IsPrefix(b, chain'[n])
  <2>1. chain[n] \in Seq(Names) /\ chain'[n] \in Seq(Names) /\ IsPrefix(chain[n], chain'[n])
    BY DEF TypeOK, ChainGrows, Chains
  <2> QED
    BY <1>2, <2>1, PrefixTransitive
<1>3. ASSUME NEW m \in Messages, KnownWord(chain, e, m) PROVE KnownWord(chain', e, m)
  <2>1. m.type \in BlockTypes => m.arg \in Seq(Names)
    BY MessageFacts, BlockFacts
  <2> QED
    BY <1>1, <1>2, <1>3, <2>1 DEF KnownWord, BlockTypes
<1>4. ASSUME NEW p \in PeerObjects, KnownPeer(chain, e, p) PROVE KnownPeer(chain', e, p)
  <2>1. p.requested \in Seq(Names) /\ p.goal \in Seq(Names) /\ p.blocks \in Seq(Chains)
    BY BlockFacts DEF PeerObjects
  <2>2. \A b \in ToSet(p.blocks) : b \in Seq(Names)
    BY <2>1, SeqAsSet, BlockFacts
  <2> QED
    BY <1>1, <1>2, <1>4, <2>1, <2>2 DEF KnownPeer
<1> QED
  BY <1>3, <1>4

\* NoBlock is known everywhere.
LEMMA NothingKnown ==
  ASSUME TypeOK, NEW n \in Node
  PROVE  IsPrefix(NoBlock, chain[n]) /\ IsPrefix(chain[n], chain[n]) /\ chain[n] \in Seq(Names)
<1>1. chain[n] \in Seq(Names) /\ <<>> \in Seq(Names) /\ Len(<<>>) = 0 /\ Len(chain[n]) \in Nat
  BY EmptySeq, LenProperties DEF TypeOK, Chains
<1>2. IsPrefix(chain[n], chain[n])
  BY <1>1, PrefixReflexive
<1> DEFINE z == <<>>
<1>3. z \in Seq(Names) /\ Len(z) <= Len(chain[n]) /\ \A i \in 1..Len(z) : z[i] = chain[n][i]
  BY <1>1
<1> HIDE DEF z
<1>4. IsPrefix(z, chain[n])
  BY <1>1, <1>3, PrefixPlaces
<1> QED
  BY <1>1, <1>2, <1>4 DEF NoBlock, z

LEMMA KnownTurn ==
  ASSUME TypeOK, Handshakes, Known, NEW e \in End, NEW p \in PeerObjects, NEW out \in Seq(Messages), Turns(e, p, out)
  PROVE  /\ KnownPeer(chain, e, p)
         /\ \A m \in ToSet(inbox'[e]) : m \in ToSet(inbox[e])
         /\ \A m \in ToSet(out) : KnownWord(chain, Other(e), m)
<1> DEFINE o == Other(e)
           n == There(e)
<1>1. n \in Node /\ Here(e) \in Node /\ There(o) = Here(e) /\ Here(o) = n
  BY EndFacts
<1>2. KnownPeer(chain, e, peer[e]) /\ \A m \in ToSet(inbox[e]) : KnownWord(chain, e, m)
  BY DEF Known
<1>3. /\ IsPrefix(NoBlock, chain[n]) /\ chain[n] \in Seq(Names)
      /\ IsPrefix(chain[Here(e)], chain[Here(e)])
  BY <1>1, NothingKnown
<1>4. peer[e] \in PeerObjects
  BY DEF TypeOK
<1> HIDE DEF o, n
<1>5. ToSet(<<>>) = {} /\ \A x : ToSet(<<x>>) = {x}
  BY DEF ToSet
<1>6. \A t, b : Msg(t, b).type = t /\ Msg(t, b).arg = b
  BY DEF Msg
<1>7. ASSUME SameDownload(p, peer[e]) PROVE KnownPeer(chain, e, p)
  BY <1>2, <1>7 DEF SameDownload, KnownPeer
<1>8. ASSUME Live(e), Turn(e, p, Rest(e), out) PROVE \A m \in ToSet(inbox'[e]) : m \in ToSet(inbox[e])
  BY <1>8, WordFacts DEF Turn
<1>9. ASSUME KnownPeer(chain, e, p), NEW m, m = Msg("GetBlock", p.requested) PROVE KnownWord(chain, o, m)
  BY <1>1, <1>6, <1>9 DEF KnownPeer, KnownWord, n
<1>10. CASE Starts(e, p, out)
  <2>1. inbox'[e] = inbox[e] /\ SameDownload(p, peer[e])
    BY <1>10 DEF Starts, Turn
  <2>2. \A m \in ToSet(out) : KnownWord(chain, o, m)
    <3>1. \A m \in ToSet(out) : m = Msg("Connect", chain[Here(e)]) \/ m = Msg("CannotAccept", {})
      BY <1>5, <1>10 DEF Starts
    <3> QED
      BY <1>1, <1>3, <1>6, <3>1 DEF KnownWord
  <2> QED
    BY <1>7, <2>1, <2>2 DEF o
<1>11. CASE Closes(e, p, out)
  <2>1. inbox'[e] = <<>> /\ out = Said(e, <<Eof>>) /\ p = GonePeer
    BY <1>11 DEF Closes, Turn
  <2>2. \A m \in ToSet(out) : m.type = "Eof"
    BY <1>5, <1>6, <2>1 DEF Said, Eof
  <2>3. \A m \in ToSet(out) : KnownWord(chain, o, m)
    BY <2>2 DEF KnownWord
  <2>4. p.requested = NoBlock /\ p.goal = NoBlock /\ p.blocks = <<>>
    BY <2>1 DEF GonePeer, NoPeer
  <2>5. KnownPeer(chain, e, p)
    BY <1>3, <1>5, <2>4 DEF KnownPeer, n
  <2> QED
    BY <1>5, <2>1, <2>3, <2>5 DEF o
<1>12. CASE Hears(e, p, out)
  <2> DEFINE r == [peer[e] EXCEPT !.pool = "handshaked"]
             top == Word(e).arg
             l == Msg("Lookup", NoBlock)
             a == Msg("Accepted", chain[Here(e)])
  <2>1. Live(e) /\ IsTop(Word(e)) /\ p = TopReceived(r, Here(e), top) /\ Turn(e, p, Rest(e), out)
    BY <1>12 DEF Hears
  <2>2. top \in Chains /\ Word(e) \in ToSet(inbox[e])
    BY <2>1, WordFacts DEF IsTop, BlockTypes
  <2>3. IsPrefix(top, chain[n])
    BY <1>2, <2>1, <2>2 DEF KnownWord, IsTop, n
  <2>4. r \in PeerObjects /\ SameDownload(r, peer[e])
    BY <1>4 DEF PeerObjects, SameDownload
  <2> HIDE DEF r, top
  <2>5. /\ p.blocks = r.blocks
        /\ p.requested \in {r.requested, top} /\ p.goal \in {r.goal, top}
    BY <1>1, <2>1, <2>2, <2>4, TopFields DEF SameDownload
  <2>6. KnownPeer(chain, e, p)
    BY <1>2, <2>3, <2>4, <2>5 DEF KnownPeer, SameDownload, n
  <2>7. PICK words \in {<<>>, <<a>>} : out = Said(e, words \o <<l>> \o Asks(p))
    BY <1>12 DEF Hears
  <2>8. a \in Messages /\ l \in Messages /\ Asks(p) \in Seq(Messages)
    <3>1. chain[Here(e)] \in Chains
      BY <1>1 DEF TypeOK
    <3> QED
      BY <3>1, MessageFacts, AsksFacts DEF BlockTypes
  <2> HIDE DEF a, l
  <2> DEFINE L == <<l>>
             u == words \o L
             v == u \o Asks(p)
  <2>9. L \in Seq(Messages) /\ ToSet(L) = {l} /\ words \in Seq(Messages) /\ ToSet(words) \subseteq {a}
    <3>1. /\ <<a>> \in Seq(Messages) /\ <<l>> \in Seq(Messages) /\ <<>> \in Seq(Messages)
          /\ ToSet(<<a>>) = {a} /\ ToSet(<<l>>) = {l} /\ ToSet(<<>>) = {}
      BY <2>8, SingleMessage
    <3> QED
      BY <2>7, <3>1
  <2> HIDE DEF L
  <2>10. u \in Seq(Messages) /\ ToSet(u) = ToSet(words) \cup ToSet(L)
    BY <2>9, ConcatAsSet
  <2> HIDE DEF u
  <2>11. ToSet(v) = ToSet(u) \cup ToSet(Asks(p))
    BY <2>8, <2>10, ConcatAsSet
  <2>12. out = v \/ out = <<>>
    BY <2>7 DEF Said, u, L
  <2> HIDE DEF v
  <2>13. \A m \in ToSet(out) : m = a \/ m = l \/ m \in ToSet(Asks(p))
    BY <1>5, <2>9, <2>10, <2>11, <2>12
  <2>14. KnownWord(chain, o, a) /\ KnownWord(chain, o, l)
    BY <1>1, <1>3, <1>6 DEF KnownWord, a, l
  <2>15. \A m \in ToSet(Asks(p)) : KnownWord(chain, o, m)
    BY <1>9, <2>6, AsksFacts
  <2> QED
    BY <1>8, <2>1, <2>6, <2>13, <2>14, <2>15 DEF o
<1>13. CASE Refuses(e, p, out)
  <2>1. \A m \in ToSet(out) : KnownWord(chain, o, m)
    BY <1>13 DEF Refuses, KnownWord
  <2> QED
    BY <1>7, <1>8, <1>13, <2>1 DEF Refuses, o
<1>14. CASE Chats(e, p, out)
  <2>1. \A m \in ToSet(out) : m.type \in {"LookupResponse", "BlockNotFound"} \/ (m.type = "Block" /\ FindBlock(Here(e), m.arg))
    BY <1>14 DEF Chats
  <2>2. \A m \in ToSet(out) : KnownWord(chain, o, m)
    BY <1>1, <2>1 DEF KnownWord, FindBlock
  <2> QED
    BY <1>7, <1>8, <1>14, <2>2 DEF Chats, o
<1>15. CASE GetsBlock(e, p, out)
  <2> DEFINE b == Word(e).arg
             bs == peer[e].blocks
  <2>1. Live(e) /\ Word(e).type = "Block" /\ p = BlockReceived(peer[e], Here(e), b) /\ Turn(e, p, Rest(e), out)
        /\ \A m \in ToSet(out) : m.type = "Close" \/ (p.requested # NoBlock /\ m = Msg("GetBlock", p.requested))
    BY <1>15 DEF GetsBlock
  <2>2. b \in Chains /\ Word(e) \in ToSet(inbox[e])
    BY <2>1, WordFacts DEF BlockTypes
  <2>3. IsPrefix(b, chain[n])
    BY <1>2, <2>1, <2>2 DEF KnownWord, n
  <2>4. TookBlock(p, peer[e], Here(e), b)
    BY <1>1, <1>4, <2>1, <2>2, BlockFields
  <2>5. bs \in Seq(Chains) /\ b \in Seq(Names) /\ Len(b) \in Nat /\ Len(b) >= 1
    BY <1>4, <2>2, BlockFacts DEF PeerObjects
  <2>6. ToSet(Append(bs, b)) = ToSet(bs) \cup {b}
    BY <2>2, <2>5, AppendAsSet
  <2> HIDE DEF b, bs
  <2>7. b # <<>>
    BY <2>2, BlockFacts DEF NoBlock
  <2>8. IsPrefix(Parent(b), chain[n])
    <3>1. Parent(b) \in Seq(Names) /\ IsPrefix(Parent(b), b)
      BY <2>5, <2>7, ParentFacts
    <3> QED
      BY <1>3, <2>3, <2>5, <3>1, PrefixTransitive
  <2>9. KnownPeer(chain, e, p)
    <3>1. CASE peer[e].requested # b
      BY <1>7, <2>4, <3>1 DEF TookBlock
    <3>2. CASE peer[e].requested = b
      <4>1. /\ p.goal = peer[e].goal /\ p.requested \in {NoBlock, Parent(b)}
            /\ p.blocks \in {<<>>, Append(bs, b)}
        BY <2>4, <3>2 DEF TookBlock, bs
      <4>2. \A x \in ToSet(p.blocks) : x \in ToSet(bs) \/ x = b
        BY <1>5, <2>6, <4>1
      <4> QED
        BY <1>2, <1>3, <2>3, <2>8, <4>1, <4>2 DEF KnownPeer, n, bs
    <3> QED
      BY <3>1, <3>2
  <2>10. \A m \in ToSet(out) : KnownWord(chain, o, m)
    BY <1>9, <2>1, <2>9 DEF KnownWord
  <2> QED
    BY <1>8, <2>1, <2>9, <2>10 DEF o
<1>16. CASE GetsNew(e, p, out)
  <2> DEFINE b == Word(e).arg
             bs == peer[e].blocks
  <2>1. Live(e) /\ Word(e).type = "NewBlock" /\ out = <<>> /\ Turn(e, p, Rest(e), out)
        /\ (p = peer[e] \/ p = [peer[e] EXCEPT !.blocks = <<b>> \o @])
    BY <1>16 DEF GetsNew
  <2>2. b \in Chains /\ Word(e) \in ToSet(inbox[e])
    BY <2>1, WordFacts DEF BlockTypes
  <2>3. IsPrefix(b, chain[n])
    BY <1>2, <2>1, <2>2 DEF KnownWord, n
  <2>4. /\ p.requested = peer[e].requested /\ p.goal = peer[e].goal /\ bs \in Seq(Chains)
        /\ p.blocks = bs \/ p.blocks = <<b>> \o bs
    BY <1>4, <2>1 DEF PeerObjects
  <2> HIDE DEF b, bs
  <2> DEFINE one == <<b>>
  <2>5. one \in Seq(Chains) /\ ToSet(one) = {b}
    BY <2>2, SingleMessage
  <2> HIDE DEF one
  <2>6. ToSet(one \o bs) = {b} \cup ToSet(bs)
    BY <2>4, <2>5, ConcatAsSet
  <2>7. \A x \in ToSet(p.blocks) : x = b \/ x \in ToSet(bs)
    BY <2>4, <2>6 DEF one
  <2>8. KnownPeer(chain, e, p)
    BY <1>2, <2>3, <2>4, <2>7 DEF KnownPeer, n, bs
  <2> QED
    BY <1>5, <1>8, <2>1, <2>8
<1> QED
  BY <1>10, <1>11, <1>12, <1>13, <1>14, <1>15, <1>16 DEF Turns

LEMMA KnownStep ==
  ASSUME TypeOK, Handshakes, Known, Kinds
  PROVE  Known'
<1>0. TypeOK' /\ ChainGrows
  BY TypeStep, ChainsStep
<1>1. SUFFICES ASSUME NEW x \in End
               PROVE  /\ KnownPeer(chain, x, peer'[x])
                      /\ \A m \in ToSet(inbox'[x]) : KnownWord(chain, x, m)
  <2>1. \A x \in End : peer'[x] \in PeerObjects /\ inbox'[x] \in Seq(Messages)
    BY <1>0 DEF TypeOK
  <2>2. \A x \in End : ToSet(inbox'[x]) \subseteq Messages
    BY <2>1, SeqAsSet
  <2>3. \A x \in End : KnownPeer(chain', x, peer'[x]) /\ \A m \in ToSet(inbox'[x]) : KnownWord(chain', x, m)
    BY <1>0, <1>1, <2>1, <2>2, StaysKnown
  <2> QED
    BY <2>3 DEF Known, KnownPeer, KnownWord, There, Here, Other, Dialed
<1>2. KnownPeer(chain, x, peer[x]) /\ \A m \in ToSet(inbox[x]) : KnownWord(chain, x, m)
  BY DEF Known
<1>3. CASE Typical
  <2>1. PICK e \in End, p \in PeerObjects, out \in Seq(Messages) : Turns(e, p, out)
    BY <1>3 DEF Typical, ATurn
  <2>2. PICK in : Turn(e, p, in, out)
    BY <2>1 DEF Turns, Starts, Closes, Hears, Refuses, Chats, GetsBlock, GetsNew
  <2>3. /\ KnownPeer(chain, e, p) /\ \A m \in ToSet(inbox'[e]) : m \in ToSet(inbox[e])
        /\ \A m \in ToSet(out) : KnownWord(chain, Other(e), m)
    BY <2>1, KnownTurn
  <2>4. /\ peer'[e] = p /\ peer'[Other(e)] = peer[Other(e)]
        /\ ToSet(inbox'[Other(e)]) = ToSet(inbox[Other(e)]) \cup ToSet(out)
        /\ x = e \/ x = Other(e) \/ (peer'[x] = peer[x] /\ inbox'[x] = inbox[x])
    BY <2>2, TurnFacts
  <2> QED
    BY <1>2, <2>3, <2>4
<1>4. CASE peer' = peer /\ inbox' = inbox
  BY <1>2, <1>4
<1>5. ASSUME NEW n \in Node, Announced(n)
      PROVE  peer' = peer /\ \A m \in ToSet(inbox'[x]) : KnownWord(chain, x, m)
  <2>1. peer' = peer /\ inbox'[x] = IF There(x) = n THEN inbox[x] \o News(x) ELSE inbox[x]
    BY <1>5 DEF Announced
  <2>2. mined[n] \in Chains /\ IsPrefix(mined[n], chain[n]) /\ inbox[x] \in Seq(Messages)
    BY <1>5 DEF Announced, TypeOK
  <2> DEFINE a == Msg("NewBlock", mined[n])
  <2>3. a \in Messages /\ a.type = "NewBlock" /\ a.arg = mined[n]
    BY <2>2, MessageFacts DEF BlockTypes, Msg
  <2>4. CASE There(x) = n
    <3>1. News(x) \in {<<a>>, <<>>}
      BY <2>4 DEF News
    <3> HIDE DEF a
    <3>2. News(x) \in Seq(Messages) /\ ToSet(News(x)) \subseteq {a}
      <4>1. /\ <<a>> \in Seq(Messages) /\ <<>> \in Seq(Messages)
            /\ ToSet(<<a>>) = {a} /\ ToSet(<<>>) = {}
        BY <2>3, SingleMessage
      <4> QED
        BY <3>1, <4>1
    <3>3. ToSet(inbox'[x]) = ToSet(inbox[x]) \cup ToSet(News(x))
      BY <2>1, <2>2, <2>4, <3>2, ConcatAsSet
    <3>4. KnownWord(chain, x, a)
      BY <2>2, <2>3, <2>4 DEF KnownWord
    <3> QED
      BY <1>2, <2>1, <3>2, <3>3, <3>4
  <2>5. CASE There(x) # n
    BY <1>2, <2>1, <2>5
  <2> QED
    BY <2>4, <2>5
<1>6. ASSUME NEW b \in End, Broken(b)
      PROVE  peer' = peer /\ \A m \in ToSet(inbox'[x]) : KnownWord(chain, x, m)
  <2>1. peer' = peer
    BY <1>6 DEF Broken
  <2>2. \A m \in ToSet(inbox'[x]) : m \in ToSet(inbox[x]) \/ m.type \in {"Eof", "Lost"}
    BY <1>6, BrokenInbox
  <2> QED
    BY <1>2, <2>1, <2>2 DEF KnownWord
<1> QED
  BY <1>2, <1>3, <1>4, <1>5, <1>6 DEF Kinds, Idle, Mined

LEMMA KnownInit ==
  ASSUME Init
  PROVE  Known
<1>1. TypeOK /\ \A e \in End : peer[e] = NoPeer /\ inbox[e] = <<>>
  BY TypeInit DEF Init
<1>2. NoPeer.requested = NoBlock /\ NoPeer.goal = NoBlock /\ NoPeer.blocks = <<>> /\ ToSet(<<>>) = {}
  BY DEF NoPeer, ToSet
<1>3. \A e \in End : There(e) \in Node
  BY EndFacts
<1>4. \A e \in End : IsPrefix(NoBlock, chain[There(e)])
  BY <1>1, <1>3, NothingKnown
<1> QED
  BY <1>1, <1>2, <1>4 DEF Known, KnownPeer

\* RequestsCanBeAnswered always holds: what is asked of a node was on its chain when it
\* sent it or its child, and chains only grow; and a top block, the only thing that starts
\* a download, comes once in a session and before anything is asked for.
THEOREM RequestsAnswered == Spec => []RequestsCanBeAnswered
<1>1. Init => TypeOK /\ Handshakes /\ Known
  BY TypeInit, HandshakesInit, KnownInit
<1>2. TypeOK /\ Handshakes /\ Known /\ [Next]_vars => TypeOK' /\ Handshakes' /\ Known'
  BY StepKinds, TypeStep, HandshakesStep, KnownStep
<1>3. Handshakes /\ Known => RequestsCanBeAnswered
  BY DEF Handshakes, Shakes, Known, KnownPeer, RequestsCanBeAnswered, FindBlock
<1> QED
  BY <1>1, <1>2, <1>3, PTL DEF Spec

-----------------------------------------------------------------------------
(* The blocks of a download under way *)

\* The last of the blocks bs go down from g to the child of x.
Gap(x, g) == Len(g) - Len(x)
Trail(x, g, bs) ==
  /\ IsPrefix(x, g) /\ Gap(x, g) <= Len(bs)
  /\ \A i \in 1..Gap(x, g) : bs[Len(bs) - Gap(x, g) + i] = SubSeq(g, 1, Len(g) - i + 1)

\* The blocks kept last go down from the goal to the child of the block that is asked for.
Descends(p) == p.requested # NoBlock => Trail(p.requested, p.goal, p.blocks)

Descending == \A e \in End : Descends(peer[e])

\* Every field of a peer is of its type.
LEMMA PeerFields ==
  ASSUME NEW p \in PeerObjects
  PROVE  /\ p.requested \in Seq(Names) /\ p.goal \in Seq(Names) /\ p.blocks \in Seq(Chains)
         /\ Len(p.requested) \in Nat /\ Len(p.goal) \in Nat /\ Len(p.blocks) \in Nat
         /\ p.requested \in Chains \cup {NoBlock} /\ p.goal \in Chains \cup {NoBlock}
<1>1. /\ p.requested \in Chains \cup {NoBlock} /\ p.goal \in Chains \cup {NoBlock} /\ p.blocks \in Seq(Chains)
  BY DEF PeerObjects
<1>2. p.requested \in Seq(Names) /\ p.goal \in Seq(Names)
  BY <1>1, BlockFacts
<1> QED
  BY <1>1, <1>2, LenProperties

\* The answer is kept behind the others and its parent is asked for.
LEMMA TrailFurther ==
  ASSUME NEW b \in Chains, NEW g \in Seq(Names), NEW bs \in Seq(Chains), Trail(b, g, bs)
  PROVE  Trail(Parent(b), g, Append(bs, b))
<1> DEFINE k == Gap(b, g)
           n == Len(bs)
           t == Append(bs, b)
<1>1. b \in Seq(Names) /\ Len(b) \in Nat /\ Len(g) \in Nat /\ n \in Nat /\ b # <<>>
  BY BlockFacts, LenProperties DEF NoBlock
<1>2. IsPrefix(b, g) /\ k <= n /\ \A i \in 1..k : bs[n - k + i] = SubSeq(g, 1, Len(g) - i + 1)
  BY DEF Trail
<1>3. Parent(b) \in Seq(Names) /\ Len(Parent(b)) = Len(b) - 1 /\ IsPrefix(Parent(b), b)
  BY <1>1, ParentFacts
<1>4. IsPrefix(Parent(b), g)
  BY <1>1, <1>2, <1>3, PrefixTransitive
<1>5. Len(b) <= Len(g) /\ b = SubSeq(g, 1, Len(b))
  BY <1>1, <1>2, PrefixIsFirst
<1>6. Len(t) = n + 1 /\ (\A i \in 1..n : t[i] = bs[i]) /\ t[n + 1] = b
  BY AppendProperties
<1>7. k = Len(g) - Len(b) /\ k \in Nat /\ Gap(Parent(b), g) = k + 1
  BY <1>1, <1>3, <1>5 DEF Gap
<1> HIDE DEF k, n, t
<1>8. k <= n /\ k + 1 <= n + 1
  BY <1>1, <1>2, <1>7
<1>9. ASSUME NEW i \in 1..(k + 1) PROVE t[n + 1 - (k + 1) + i] = SubSeq(g, 1, Len(g) - i + 1)
  <2>1. CASE i = k + 1
    <3>1. n + 1 - (k + 1) + i = n + 1 /\ Len(g) - i + 1 = Len(b)
      BY <1>1, <1>7, <2>1
    <3> QED
      BY <1>5, <1>6, <3>1
  <2>2. CASE i # k + 1
    <3>1. i \in 1..k
      BY <1>7, <2>2
    <3>2. n + 1 - (k + 1) + i = n - k + i /\ n - k + i \in 1..n
      BY <1>1, <1>7, <1>8, <3>1
    <3> QED
      BY <1>2, <1>6, <3>1, <3>2
  <2> QED
    BY <2>1, <2>2
<1>10. Gap(Parent(b), g) <= Len(t)
  BY <1>6, <1>7, <1>8
<1>11. ASSUME NEW i \in 1..Gap(Parent(b), g)
       PROVE  t[Len(t) - Gap(Parent(b), g) + i] = SubSeq(g, 1, Len(g) - i + 1)
  <2>1. i \in 1..(k + 1)
    BY <1>7
  <2>2. Len(t) - Gap(Parent(b), g) + i = n + 1 - (k + 1) + i
    BY <1>1, <1>6, <1>7, <2>1
  <2>3. t[n + 1 - (k + 1) + i] = SubSeq(g, 1, Len(g) - i + 1)
    BY <1>9, <2>1
  <2> QED
    BY <2>2, <2>3
<1>12. Trail(Parent(b), g, t)
  BY <1>4, <1>10, <1>11 DEF Trail
<1> QED
  BY <1>12 DEF t

\* A block that is announced meanwhile goes to the other end.
LEMMA TrailBehind ==
  ASSUME NEW x \in Seq(Names), NEW g \in Seq(Names), NEW bs \in Seq(Chains), NEW b \in Chains, Trail(x, g, bs)
  PROVE  Trail(x, g, <<b>> \o bs)
<1> DEFINE k == Gap(x, g)
           n == Len(bs)
           u == <<b>>
           t == u \o bs
<1>1. n \in Nat /\ k \in Int
  BY LenProperties DEF Gap
<1>2. IsPrefix(x, g) /\ k <= n /\ \A i \in 1..k : bs[n - k + i] = SubSeq(g, 1, Len(g) - i + 1)
  BY DEF Trail
<1>3. u \in Seq(Chains) /\ Len(u) = 1
  BY SingleMessage
<1> HIDE DEF u
<1>4. /\ Len(t) = Len(u) + Len(bs)
      /\ \A i \in 1..(Len(u) + Len(bs)) : t[i] = IF i <= Len(u) THEN u[i] ELSE bs[i - Len(u)]
  BY <1>3, ConcatProperties, Zenon
<1> HIDE DEF k, n, t
<1>5. Len(t) = 1 + n /\ \A i \in 1..Len(t) : t[i] = IF i <= 1 THEN u[i] ELSE bs[i - 1]
  BY <1>3, <1>4 DEF n
<1>6. ASSUME NEW i \in 1..k PROVE t[Len(t) - k + i] = SubSeq(g, 1, Len(g) - i + 1)
  <2> DEFINE j == Len(t) - k + i
  <2>1. j \in 1..Len(t) /\ ~(j <= 1) /\ j - 1 = n - k + i
    BY <1>1, <1>2, <1>5
  <2>2. t[j] = bs[j - 1]
    BY <1>5, <2>1
  <2> QED
    BY <1>2, <2>1, <2>2
<1>7. k <= Len(t)
  BY <1>1, <1>2, <1>5
<1>8. Trail(x, g, t)
  BY <1>2, <1>6, <1>7 DEF Trail, k
<1> QED
  BY <1>8 DEF t, u

LEMMA DescendsTurn ==
  ASSUME TypeOK, Handshakes, NEW e \in End, Descends(peer[e]), NEW p \in PeerObjects, NEW out \in Seq(Messages),
         Turns(e, p, out)
  PROVE  Descends(p)
<1>1. peer[e] \in PeerObjects /\ Here(e) \in Node
  BY EndFacts DEF TypeOK
<1>2. CASE SameDownload(p, peer[e])
  BY <1>2 DEF SameDownload, Descends
<1>3. CASE p.requested = NoBlock
  BY <1>3 DEF Descends
<1>4. CASE Closes(e, p, out)
  BY <1>3, <1>4 DEF Closes, GonePeer, NoPeer
<1>5. CASE Hears(e, p, out)
  <2> DEFINE r == [peer[e] EXCEPT !.pool = "handshaked"]
             top == Word(e).arg
  <2>1. Live(e) /\ IsTop(Word(e)) /\ p = TopReceived(r, Here(e), top)
    BY <1>5 DEF Hears
  <2>2. top \in Chains
    BY <2>1, WordFacts DEF IsTop, BlockTypes
  <2>3. peer[e].requested = NoBlock
    BY <1>5, HearShakes DEF Fresh
  <2>4. r \in PeerObjects /\ r.requested = NoBlock
    BY <1>1, <2>3 DEF PeerObjects
  <2> HIDE DEF r, top
  <2>5. p.requested = NoBlock \/ (p.requested = top /\ p.goal = top)
    BY <1>1, <2>1, <2>2, <2>4, TopFields DEF SameDownload
  <2>6. CASE p.requested = top /\ p.goal = top
    <3>1. top \in Seq(Names) /\ Len(top) \in Nat
      BY <2>2, BlockFacts
    <3>2. IsPrefix(top, top)
      BY <3>1, PrefixReflexive
    <3>3. Gap(top, top) = 0
      BY <3>1 DEF Gap
    <3>4. Len(p.blocks) \in Nat
      BY PeerFields
    <3>5. Trail(top, top, p.blocks)
      BY <3>2, <3>3, <3>4 DEF Trail
    <3> QED
      BY <2>6, <3>5 DEF Descends
  <2> QED
    BY <1>3, <2>5, <2>6
<1>6. CASE GetsBlock(e, p, out)
  <2> DEFINE b == Word(e).arg
  <2>1. b \in Chains
    BY <1>6, WordFacts DEF GetsBlock, BlockTypes
  <2>2. TookBlock(p, peer[e], Here(e), b)
    BY <1>1, <1>6, <2>1, BlockFields DEF GetsBlock
  <2>3. CASE peer[e].requested = b /\ Len(b) # 1 /\ ~FindBlock(Here(e), Parent(b))
    <3>1. p.goal = peer[e].goal /\ p.requested = Parent(b) /\ p.blocks = Append(peer[e].blocks, b)
      BY <2>2, <2>3 DEF TookBlock
    <3>2. Trail(b, peer[e].goal, peer[e].blocks)
      BY <2>1, <2>3, BlockFacts DEF Descends
    <3>3. peer[e].goal \in Seq(Names) /\ peer[e].blocks \in Seq(Chains)
      BY <1>1, PeerFields
    <3>4. Trail(Parent(b), peer[e].goal, Append(peer[e].blocks, b))
      BY <2>1, <3>2, <3>3, TrailFurther
    <3> QED
      BY <3>1, <3>4 DEF Descends
  <2> QED
    BY <1>2, <1>3, <2>2, <2>3 DEF TookBlock
<1>7. CASE GetsNew(e, p, out)
  <2> DEFINE b == Word(e).arg
  <2>1. b \in Chains
    BY <1>7, WordFacts DEF GetsNew, BlockTypes
  <2>2. p = peer[e] \/ p = [peer[e] EXCEPT !.blocks = <<b>> \o @]
    BY <1>7 DEF GetsNew
  <2>3. CASE p = [peer[e] EXCEPT !.blocks = <<b>> \o @]
    <3>1. p.goal = peer[e].goal /\ p.requested = peer[e].requested /\ p.blocks = <<b>> \o peer[e].blocks
      BY <1>1, <2>3 DEF PeerObjects
    <3>2. peer[e].requested \in Seq(Names) /\ peer[e].goal \in Seq(Names) /\ peer[e].blocks \in Seq(Chains)
      BY <1>1, PeerFields
    <3>3. ASSUME peer[e].requested # NoBlock
          PROVE  Trail(peer[e].requested, peer[e].goal, <<b>> \o peer[e].blocks)
      BY <2>1, <3>2, <3>3, TrailBehind DEF Descends
    <3> QED
      BY <3>1, <3>3 DEF Descends
  <2> QED
    BY <2>2, <2>3
<1> QED
  BY <1>2, <1>4, <1>5, <1>6, <1>7 DEF Turns, Starts, Refuses, Chats

LEMMA DescendingStep ==
  ASSUME TypeOK, Handshakes, Descending, Kinds
  PROVE  Descending'
<1>1. SUFFICES ASSUME NEW x \in End PROVE Descends(peer'[x])
  BY DEF Descending, Descends, Trail, Gap
<1>2. Descends(peer[x])
  BY DEF Descending
<1>3. CASE Typical
  <2>1. PICK e \in End, p \in PeerObjects, out \in Seq(Messages) : Turns(e, p, out)
    BY <1>3 DEF Typical, ATurn
  <2>2. peer'[e] = p /\ (x # e => peer'[x] = peer[x])
    BY <2>1 DEF Turns, Starts, Closes, Hears, Refuses, Chats, GetsBlock, GetsNew, Turn
  <2>3. CASE x = e
    BY <1>2, <2>1, <2>2, <2>3, DescendsTurn
  <2> QED
    BY <1>2, <2>2, <2>3
<1> QED
  BY <1>2, <1>3 DEF Kinds, Idle, Mined, Announced, Broken

\* The block kept last is the child of the block that is asked for.
LEMMA TrailIsConnected ==
  ASSUME NEW b \in Seq(Names), NEW g \in Seq(Names), NEW bs \in Seq(Chains), Trail(b, g, bs), b # g
  PROVE  Parent(Last(bs)) = b
<1> DEFINE k == Gap(b, g)
           n == Len(b) + 1
           c == SubSeq(g, 1, n)
<1>1. Len(b) \in Nat /\ Len(g) \in Nat /\ Len(bs) \in Nat
  BY LenProperties
<1>2. IsPrefix(b, g) /\ \A i \in 1..k : bs[Len(bs) - k + i] = SubSeq(g, 1, Len(g) - i + 1)
  BY DEF Trail
<1>3. Len(b) <= Len(g) /\ (Len(b) >= Len(g) => b = g)
  BY <1>2, PrefixLength
<1>4. k = Len(g) - Len(b) /\ k \in Nat /\ k >= 1 /\ n \in 1..Len(g) /\ n \in 0..Len(g)
  BY <1>1, <1>3 DEF Gap
<1> HIDE DEF k
<1>5. k \in 1..k /\ Len(bs) - k + k = Len(bs) /\ Len(g) - k + 1 = n
  BY <1>1, <1>4
<1>6. Last(bs) = c
  BY <1>2, <1>5 DEF Last
<1>7. c \in Seq(Names) /\ Len(c) = n /\ IsPrefix(c, g)
  BY <1>4, FirstPlaces
<1> HIDE DEF c
<1>8. c # <<>> /\ Len(b) <= Len(c) /\ Len(b) = n - 1 /\ c # b
  BY <1>1, <1>7, EmptySeq
<1>9. IsPrefix(b, c)
  BY <1>2, <1>7, <1>8, PrefixesNest
<1>10. Parent(c) \in Seq(Names) /\ Len(Parent(c)) = n - 1
  BY <1>7, <1>8, ParentFacts
<1>11. IsPrefix(b, Parent(c))
  BY <1>7, <1>8, <1>9, BeforeParent
<1>12. Len(b) >= Len(Parent(c))
  BY <1>1, <1>8, <1>10
<1>13. b = Parent(c)
  BY <1>10, <1>11, <1>12, PrefixLength
<1> QED
  BY <1>6, <1>13

\* DownloadIsConnected always holds, because the blocks that are kept last go down from
\* the goal to the child of the block asked for, whatever is announced meanwhile.
THEOREM DownloadsConnected == Spec => []DownloadIsConnected
<1>1. Init => TypeOK /\ Handshakes /\ Descending
  <2>1. Init => \A e \in End : peer[e] = NoPeer
    BY DEF Init
  <2>2. NoPeer.requested = NoBlock
    BY DEF NoPeer
  <2> QED
    BY <2>1, <2>2, TypeInit, HandshakesInit DEF Descending, Descends
<1>2. TypeOK /\ Handshakes /\ Descending /\ [Next]_vars => TypeOK' /\ Handshakes' /\ Descending'
  BY StepKinds, TypeStep, HandshakesStep, DescendingStep
<1>3. TypeOK /\ Descending => DownloadIsConnected
  <2> SUFFICES ASSUME TypeOK, Descending, NEW e \in End, peer[e].requested # NoBlock, peer[e].requested # peer[e].goal
               PROVE  Parent(Last(peer[e].blocks)) = peer[e].requested
    BY DEF DownloadIsConnected, Asked
  <2>1. peer[e].requested \in Seq(Names) /\ peer[e].goal \in Seq(Names) /\ peer[e].blocks \in Seq(Chains)
    BY PeerFields DEF TypeOK
  <2>2. Trail(peer[e].requested, peer[e].goal, peer[e].blocks)
    BY DEF Descending, Descends
  <2> QED
    BY <2>1, <2>2, TrailIsConnected
<1> QED
  BY <1>1, <1>2, <1>3, PTL DEF Spec

-----------------------------------------------------------------------------
(* The pools *)

\* An end that is closed reads nothing, and one that has shaken hands is in use.
Shaped(p, q) ==
  /\ p.status = "closed" => q = <<>>
  /\ p.pool = "handshaked" => p.status \in {"open", "ending"}

\* The end of a closed session comes to the other side, unless nothing comes there any more,
\* and what shook hands has a partner that did so, ends, has yet to hear of it or never
\* will, or has said that it is gone.
Gone(q) == Has(q, "Eof") \/ Has(q, "Lost")
Closing(q) == Has(q, "Close") \/ Gone(q)
Matched(p, q, r, t) ==
  /\ p.status = "closed" => r.status = "closed" \/ Gone(t)
  /\ p.pool = "handshaked" =>
       r.pool = "handshaked" \/ r.status = "ending" \/ Has(t, "Accepted") \/ Gone(t) \/ Closing(q)
  /\ Has(q, "Accepted") => r.pool = "handshaked" \/ r.status = "ending" \/ Closing(q)

Pools ==
  \A e \in End : /\ Shaped(peer[e], inbox[e])
                 /\ Matched(peer[e], inbox[e], peer[Other(e)], inbox[Other(e)])

LEMMA PoolsTurn ==
  ASSUME TypeOK, Pools, NEW e \in End, NEW p, NEW in, NEW out \in Seq(Messages), Turn(e, p, in, out),
         Shaped(p, in), Shaped(peer[Other(e)], inbox'[Other(e)]),
         Matched(p, in, peer[Other(e)], inbox'[Other(e)]), Matched(peer[Other(e)], inbox'[Other(e)], p, in)
  PROVE  Pools'
<1> DEFINE o == Other(e)
<1>1. /\ peer'[e] = p /\ inbox'[e] = in /\ peer'[o] = peer[o]
      /\ \A x \in End : \/ x = e \/ x = o
                        \/ /\ peer'[x] = peer[x] /\ inbox'[x] = inbox[x]
                           /\ peer'[Other(x)] = peer[Other(x)] /\ inbox'[Other(x)] = inbox[Other(x)]
  BY TurnFacts
<1>2. o \in End /\ Other(o) = e /\ o[2] = e[2]
  BY EndFacts
<1>3. SUFFICES ASSUME NEW x \in End
               PROVE  /\ Shaped(peer'[x], inbox'[x])
                      /\ Matched(peer'[x], inbox'[x], peer'[Other(x)], inbox'[Other(x)])
  BY DEF Pools, Shaped, Matched, Closing, Gone, Has
<1>5. Shaped(peer[x], inbox[x]) /\ Matched(peer[x], inbox[x], peer[Other(x)], inbox[Other(x)])
  BY DEF Pools
<1>6. CASE x = e
  BY <1>1, <1>6
<1>7. CASE x = o
  BY <1>1, <1>2, <1>7
<1>8. CASE x # e /\ x # o
  BY <1>1, <1>5, <1>8
<1> QED
  BY <1>6, <1>7, <1>8

\* What the ends of a session are before a turn of e.
LEMMA PoolsBefore ==
  ASSUME TypeOK, Pools, NEW e \in End, NEW p, NEW in, NEW out \in Seq(Messages), Turn(e, p, in, out)
  PROVE  LET o == Other(e) IN
         /\ o \in End /\ Shaped(peer[e], inbox[e]) /\ Shaped(peer[o], inbox[o])
         /\ Matched(peer[e], inbox[e], peer[o], inbox[o])
         /\ Matched(peer[o], inbox[o], peer[e], inbox[e])
         /\ ToSet(inbox'[o]) = ToSet(inbox[o]) \cup ToSet(out)
         /\ peer[o].status = "closed" => out = <<>> /\ inbox'[o] = <<>>
         /\ ~Reaches(e) => peer[o].status = "closed" \/ Gone(inbox[o])
         /\ peer[o].status # "closed" => Shaped(peer[o], inbox'[o])
         /\ Shaped(peer[o], inbox'[o])
<1> DEFINE o == Other(e)
<1>1. o \in End /\ Other(o) = e /\ o[2] = e[2]
  BY EndFacts
<1>2. /\ inbox'[o] = inbox[o] \o out /\ inbox[o] \in Seq(Messages)
      /\ ToSet(inbox'[o]) = ToSet(inbox[o]) \cup ToSet(out)
  BY TurnFacts
<1>3. /\ Shaped(peer[e], inbox[e]) /\ Shaped(peer[o], inbox[o])
      /\ Matched(peer[e], inbox[e], peer[o], inbox[o])
      /\ Matched(peer[o], inbox[o], peer[e], inbox[e])
  BY <1>1 DEF Pools
<1>4. peer[o].status = "closed" => out = <<>>
  BY DEF Turn, Reaches
<1>5. ~Reaches(e) => peer[o].status = "closed" \/ Gone(inbox[o])
  BY DEF Reaches, Gone, Has, Eof, Lost, Msg
<1>6. peer[o].status = "closed" => inbox'[o] = <<>>
  <2>1. <<>> \o <<>> = <<>>
    OBVIOUS
  <2> QED
    BY <1>2, <1>3, <1>4, <2>1 DEF Shaped
<1>7. Shaped(peer[o], inbox'[o])
  BY <1>3, <1>6 DEF Shaped
<1> QED
  BY <1>1, <1>2, <1>3, <1>4, <1>5, <1>6, <1>7

\* A turn that is neither about a handshake nor about the end of the session, or that ends it.
LEMMA ChatPools ==
  ASSUME TypeOK, Pools, NEW e \in End, NEW p, NEW out \in Seq(Messages), Live(e), Turn(e, p, Rest(e), out),
         (SamePlace(p, peer[e]) /\ Word(e).type \notin {"Accepted", "Close", "Eof", "Lost"}) \/ (Ended(p) /\ Word(e).type \notin {"Close", "Eof", "Lost"}),
         ~Has(out, "Accepted")
  PROVE  Pools'
<1> DEFINE o == Other(e)
           in == Rest(e)
           t == inbox'[Other(e)]
<1>1. /\ Shaped(peer[e], inbox[e]) /\ Shaped(peer[o], t)
      /\ Matched(peer[e], inbox[e], peer[o], inbox[o])
      /\ Matched(peer[o], inbox[o], peer[e], inbox[e])
      /\ ToSet(t) = ToSet(inbox[o]) \cup ToSet(out)
  BY PoolsBefore
<1>2. /\ ToSet(in) \subseteq ToSet(inbox[e]) /\ \A m \in ToSet(inbox[e]) : m = Word(e) \/ m \in ToSet(in)
  BY WordFacts
<1> HIDE DEF o, in, t
<1>3. /\ Has(in, "Accepted") => Has(inbox[e], "Accepted")
      /\ Closing(inbox[e]) => Closing(in)
      /\ Gone(inbox[e]) => Gone(in)
      /\ Has(inbox[e], "Accepted") => Has(in, "Accepted") \/ Ended(p)
  BY <1>2 DEF Has, Closing, Gone
<1>4. /\ Has(t, "Accepted") <=> Has(inbox[o], "Accepted")
      /\ Closing(inbox[o]) => Closing(t)
      /\ Gone(inbox[o]) => Gone(t)
  BY <1>1 DEF Has, Closing, Gone
<1>5. peer[e].status \in {"open", "ending"}
  BY DEF Live
<1>6. p.status # "closed" /\ Shaped(p, in)
  BY <1>1, <1>5 DEF SamePlace, Ended, Shaped
<1>7. Matched(p, in, peer[o], t) /\ Matched(peer[o], t, p, in)
  <2>1. Matched(p, in, peer[o], t)
    <3>1. CASE SamePlace(p, peer[e])
      BY <1>1, <1>3, <1>4, <1>6, <1>7, <3>1 DEF Matched, SamePlace
    <3>2. CASE Ended(p)
      BY <1>1, <1>3, <1>4, <1>6, <1>7, <3>2 DEF Matched, Ended
    <3> QED
      BY <3>1, <3>2
  <2>2. Matched(peer[o], t, p, in)
    BY <1>1, <1>3, <1>4, <1>5, <1>7 DEF Matched, SamePlace, Ended
  <2> QED
    BY <2>1, <2>2
<1> QED
  BY <1>1, <1>6, <1>7, PoolsTurn DEF o, in, t

LEMMA StartPools ==
  ASSUME TypeOK, Handshakes, Pools, NEW e \in End, NEW p \in PeerObjects, NEW out \in Seq(Messages), Starts(e, p, out)
  PROVE  Pools'
<1> DEFINE o == Other(e)
           in == inbox[e]
           t == inbox'[Other(e)]
<1>1. /\ peer[e].status = "none" /\ p.status \in {"open", "refusing"} /\ p.pool \in {"none", "new"} /\ Turn(e, p, in, out)
      /\ out \in {<<>>, <<Msg("Connect", chain[Here(e)])>>, <<Msg("CannotAccept", {})>>}
  BY DEF Starts
<1>2. /\ Shaped(peer[e], inbox[e]) /\ Shaped(peer[o], t)
      /\ Matched(peer[e], inbox[e], peer[o], inbox[o])
      /\ Matched(peer[o], inbox[o], peer[e], inbox[e])
      /\ ToSet(t) = ToSet(inbox[o]) \cup ToSet(out)
  BY <1>1, PoolsBefore
<1>3. peer[e] = NoPeer
  BY <1>1 DEF Handshakes, Shakes
<1>4. NoPeer.pool = "none" /\ NoPeer.status = "none"
  BY DEF NoPeer
<1>5. ~Has(out, "Accepted")
  <2>1. ToSet(<<>>) = {} /\ \A x : ToSet(<<x>>) = {x}
    BY DEF ToSet
  <2>2. \A b : Msg("Connect", b).type = "Connect" /\ Msg("CannotAccept", b).type = "CannotAccept"
    BY DEF Msg
  <2> QED
    BY <1>1, <2>1, <2>2 DEF Has
<1> HIDE DEF o, in, t
<1>6. /\ Has(t, "Accepted") <=> Has(inbox[o], "Accepted")
      /\ Closing(inbox[o]) => Closing(t)
      /\ Gone(inbox[o]) => Gone(t)
  BY <1>2, <1>5 DEF Has, Closing, Gone
<1>7. Shaped(p, in)
  BY <1>1 DEF Shaped
<1>8. Matched(p, in, peer[o], t) /\ Matched(peer[o], t, p, in)
  BY <1>1, <1>2, <1>3, <1>4, <1>6, <1>8 DEF Matched, in
<1> QED
  BY <1>1, <1>2, <1>7, <1>8, PoolsTurn DEF o, t

LEMMA ClosePools ==
  ASSUME TypeOK, Pools, NEW e \in End, NEW p \in PeerObjects, NEW out \in Seq(Messages), Closes(e, p, out)
  PROVE  Pools'
<1> DEFINE o == Other(e)
           t == inbox'[Other(e)]
<1>1. p = GonePeer /\ out = Said(e, <<Eof>>) /\ Turn(e, p, <<>>, out)
  BY DEF Closes
<1>2. /\ Shaped(peer[o], t) /\ Shaped(peer[o], inbox[o])
      /\ ToSet(t) = ToSet(inbox[o]) \cup ToSet(out)
      /\ ~Reaches(e) => peer[o].status = "closed" \/ Gone(inbox[o])
      /\ peer[o].status = "closed" => t = <<>>
  BY <1>1, PoolsBefore
<1>3. p.status = "closed" /\ p.pool = "none"
  BY <1>1 DEF GonePeer, NoPeer
<1>4. ToSet(<<>>) = {} /\ ToSet(<<Eof>>) = {Eof} /\ Eof.type = "Eof"
  BY DEF ToSet, Eof, Msg
<1> HIDE DEF o, t
<1>5. ~Has(<<>>, "Accepted") /\ Shaped(p, <<>>)
  BY <1>3, <1>4 DEF Has, Shaped
<1>6. peer[o].status = "closed" \/ Gone(t)
  <2>1. CASE Reaches(e)
    BY <1>1, <1>2, <1>4, <2>1 DEF Said, Has, Gone
  <2>2. CASE ~Reaches(e)
    BY <1>2, <2>2 DEF Gone, Has
  <2> QED
    BY <2>1, <2>2
<1>7. Matched(p, <<>>, peer[o], t) /\ Matched(peer[o], t, p, <<>>)
  <2>1. Matched(p, <<>>, peer[o], t)
    BY <1>3, <1>5, <1>6, <1>7 DEF Matched
  <2>2. CASE peer[o].status = "closed"
    <3>1. t = <<>> /\ peer[o].pool # "handshaked"
      BY <1>2, <2>2 DEF Shaped
    <3> QED
      BY <1>3, <1>5, <2>1, <3>1 DEF Matched
  <2>3. CASE peer[o].status # "closed"
    BY <1>3, <1>6, <1>7, <2>1, <2>3 DEF Matched, Closing
  <2> QED
    BY <2>2, <2>3
<1> QED
  BY <1>1, <1>2, <1>5, <1>7, PoolsTurn DEF o, t

LEMMA HearPools ==
  ASSUME TypeOK, Handshakes, Pools, NEW e \in End, NEW p \in PeerObjects, NEW out \in Seq(Messages), Hears(e, p, out)
  PROVE  Pools'
<1> DEFINE o == Other(e)
           in == Rest(e)
           t == inbox'[Other(e)]
           r == [peer[e] EXCEPT !.pool = "handshaked"]
<1>1. Live(e) /\ IsTop(Word(e)) /\ Turn(e, p, in, out) /\ p = TopReceived(r, Here(e), Word(e).arg)
  BY DEF Hears
<1>2. /\ Shaped(peer[o], t)
      /\ Matched(peer[e], inbox[e], peer[o], inbox[o])
      /\ Matched(peer[o], inbox[o], peer[e], inbox[e])
      /\ ToSet(t) = ToSet(inbox[o]) \cup ToSet(out)
      /\ ~Reaches(e) => peer[o].status = "closed" \/ Gone(inbox[o])
  BY <1>1, PoolsBefore
<1>3. /\ Word(e) \in ToSet(inbox[e]) /\ inbox[e] \in Seq(Messages) /\ inbox[e] # <<>> /\ Word(e).arg \in Chains
      /\ \A m \in ToSet(inbox[e]) : m = Word(e) \/ m \in ToSet(in)
  BY <1>1, WordFacts DEF IsTop, BlockTypes
<1>4. p.status = peer[e].status /\ p.status \in {"open", "ending"}
  BY <1>1, HearShakes DEF Live
<1>5. p.pool = "handshaked"
  <2>1. r \in PeerObjects /\ r.pool = "handshaked" /\ Here(e) \in Node
    BY EndFacts DEF PeerObjects, TypeOK
  <2> HIDE DEF r
  <2> QED
    BY <1>1, <1>3, <2>1, TopFields
<1>6. ~Has(in, "Accepted")
  <2>1. OneTop(inbox[e])
    BY DEF Handshakes, Shakes
  <2>2. Topless(in)
    BY <1>1, <1>3, <2>1, OneTopTail DEF Rest, Word
  <2> QED
    BY <2>2 DEF Has, Topless, IsTop
<1>7. Word(e).type = "Connect" /\ Reaches(e) => Has(t, "Accepted")
  <2> SUFFICES ASSUME Word(e).type = "Connect", Reaches(e) PROVE Has(t, "Accepted")
    OBVIOUS
  <2> DEFINE a == Msg("Accepted", chain[Here(e)])
             l == Msg("Lookup", NoBlock)
  <2>1. PICK words \in {<<>>, <<a>>} : words # <<>> /\ out = Said(e, words \o <<l>> \o Asks(p))
    BY DEF Hears
  <2>2. a \in Messages /\ l \in Messages /\ a.type = "Accepted" /\ Asks(p) \in Seq(Messages)
    <3>1. chain[Here(e)] \in Chains
      BY EndFacts DEF TypeOK
    <3> QED
      BY <3>1, MessageFacts, AsksFacts DEF BlockTypes, Msg
  <2> HIDE DEF a, l
  <2> DEFINE A == <<a>>
             L == <<l>>
             u == A \o L
  <2>3. A \in Seq(Messages) /\ L \in Seq(Messages) /\ ToSet(A) = {a}
    BY <2>2, SingleMessage
  <2>4. out = u \o Asks(p)
    BY <2>1 DEF Said
  <2> HIDE DEF A, L
  <2>5. u \in Seq(Messages) /\ ToSet(u) = ToSet(A) \cup ToSet(L)
    BY <2>3, ConcatAsSet
  <2> HIDE DEF u
  <2>6. ToSet(out) = ToSet(u) \cup ToSet(Asks(p))
    BY <2>2, <2>4, <2>5, ConcatAsSet
  <2> HIDE DEF t
  <2>7. a \in ToSet(t)
    BY <1>2, <2>3, <2>5, <2>6
  <2> QED
    BY <2>2, <2>7 DEF Has
<1> HIDE DEF o, in, t, r
<1>8. /\ Closing(inbox[e]) => Closing(in)
      /\ Gone(inbox[e]) => Gone(in)
  BY <1>1, <1>3 DEF Has, Closing, Gone, IsTop
<1>9. Shaped(p, in)
  BY <1>4 DEF Shaped
<1>10. Matched(peer[o], t, p, in)
  <2>1. peer[o].status = "closed" => Gone(in)
    BY <1>2, <1>4, <1>8 DEF Matched
  <2> QED
    BY <1>5, <2>1 DEF Matched
<1>11. Matched(p, in, peer[o], t)
  <2>1. CASE Word(e).type = "Connect"
    <3>1. Has(t, "Accepted") \/ Gone(t) \/ Closing(in)
      <4>1. CASE ~Reaches(e)
        <5>1. Gone(inbox[o]) => Gone(t)
          BY <1>2 DEF Gone, Has
        <5>2. peer[o].status = "closed" => Gone(in)
          BY <1>2, <1>4, <1>8 DEF Matched
        <5> QED
          BY <1>2, <4>1, <5>1, <5>2 DEF Closing
      <4> QED
        BY <1>7, <2>1, <4>1
    <3> QED
      BY <1>4, <1>6, <3>1 DEF Matched
  <2>2. CASE Word(e).type # "Connect"
    <3>1. Has(inbox[e], "Accepted")
      BY <1>1, <1>3, <2>2 DEF Has, IsTop
    <3>2. peer[o].pool = "handshaked" \/ peer[o].status = "ending" \/ Closing(in)
      BY <1>2, <1>8, <3>1 DEF Matched
    <3> QED
      BY <1>4, <1>6, <3>2 DEF Matched
  <2> QED
    BY <2>1, <2>2
<1> QED
  BY <1>1, <1>2, <1>9, <1>10, <1>11, PoolsTurn DEF o, t

LEMMA TurnPools ==
  ASSUME TypeOK, Handshakes, Pools, Typical
  PROVE  Pools'
<1>1. PICK e \in End, p \in PeerObjects, out \in Seq(Messages) : Turns(e, p, out)
  BY DEF Typical, ATurn
<1>3. peer[e] \in PeerObjects /\ Here(e) \in Node
  BY EndFacts DEF TypeOK
<1>4. CASE Refuses(e, p, out)
  <2>1. Live(e) /\ Turn(e, p, Rest(e), out) /\ Ended(p) /\ Word(e).type \notin {"Close", "Eof", "Lost"} /\ ~Has(out, "Accepted")
    BY <1>4 DEF Refuses, IsTop, Has
  <2> QED
    BY <2>1, ChatPools
<1>5. CASE Chats(e, p, out)
  <2>1. /\ Live(e) /\ Turn(e, p, Rest(e), out) /\ SamePlace(p, peer[e])
        /\ Word(e).type \notin {"Accepted", "Close", "Eof", "Lost"} /\ ~Has(out, "Accepted")
    BY <1>5 DEF Chats, Has
  <2> QED
    BY <2>1, ChatPools
<1>6. CASE GetsBlock(e, p, out)
  <2>1. Live(e) /\ Turn(e, p, Rest(e), out) /\ Word(e).type = "Block" /\ p = BlockReceived(peer[e], Here(e), Word(e).arg)
    BY <1>6 DEF GetsBlock
  <2>2. Word(e).arg \in Chains
    BY <2>1, WordFacts DEF BlockTypes
  <2>3. SamePlace(p, peer[e]) \/ Ended(p)
    BY <1>3, <2>1, <2>2, BlockFields DEF TookBlock
  <2>4. ~Has(out, "Accepted")
    <3>1. \A b : Msg("GetBlock", b).type = "GetBlock"
      BY DEF Msg
    <3> QED
      BY <1>6, <3>1 DEF GetsBlock, Has
  <2> QED
    BY <2>1, <2>3, <2>4, ChatPools
<1>7. CASE GetsNew(e, p, out)
  <2>1. /\ Live(e) /\ Turn(e, p, Rest(e), out) /\ Word(e).type = "NewBlock" /\ out = <<>>
        /\ p = peer[e] \/ p = [peer[e] EXCEPT !.blocks = <<Word(e).arg>> \o @]
    BY <1>7 DEF GetsNew
  <2>2. SamePlace(p, peer[e])
    BY <1>3, <2>1 DEF PeerObjects, SamePlace
  <2>3. ~Has(out, "Accepted")
    BY <2>1 DEF Has, ToSet
  <2> QED
    BY <2>1, <2>2, <2>3, ChatPools
<1> QED
  BY <1>1, <1>4, <1>5, <1>6, <1>7, StartPools, ClosePools, HearPools DEF Turns

LEMMA AnnouncePools ==
  ASSUME TypeOK, Pools, NEW n \in Node, Announced(n)
  PROVE  Pools'
<1>1. /\ peer' = peer
      /\ \A e \in End : inbox'[e] = IF There(e) = n THEN inbox[e] \o News(e) ELSE inbox[e]
  BY DEF Announced
<1>2. ASSUME NEW e \in End
      PROVE  /\ peer[e].status = "closed" => inbox'[e] = inbox[e]
             /\ \A type \in {"Accepted", "Close", "Eof", "Lost"} : Has(inbox'[e], type) <=> Has(inbox[e], type)
  <2>1. mined[n] \in Chains /\ inbox[e] \in Seq(Messages)
    BY DEF Announced, TypeOK
  <2> DEFINE a == Msg("NewBlock", mined[n])
  <2>2. a \in Messages /\ a.type = "NewBlock"
    BY <2>1, MessageFacts DEF BlockTypes, Msg
  <2>3. CASE There(e) = n
    <3>1. News(e) \in {<<a>>, <<>>}
      BY <2>3 DEF News
    <3>2. peer[e].status = "closed" => News(e) = <<>>
      BY EndFacts DEF News, Reaches
    <3> HIDE DEF a
    <3>3. News(e) \in Seq(Messages) /\ ToSet(News(e)) \subseteq {a}
      <4>1. /\ <<a>> \in Seq(Messages) /\ <<>> \in Seq(Messages)
            /\ ToSet(<<a>>) = {a} /\ ToSet(<<>>) = {}
        BY <2>2, SingleMessage
      <4> QED
        BY <3>1, <4>1
    <3>4. inbox'[e] = inbox[e] \o News(e)
      BY <1>1, <2>3
    <3>5. ToSet(inbox'[e]) = ToSet(inbox[e]) \cup ToSet(News(e))
      BY <2>1, <3>3, <3>4, ConcatAsSet
    <3>6. inbox[e] \o <<>> = inbox[e]
      BY <2>1, ConcatEmptySeq
    <3>7. peer[e].status = "closed" => inbox'[e] = inbox[e]
      BY <3>2, <3>4, <3>6
    <3> QED
      BY <2>2, <3>3, <3>5, <3>7 DEF Has
  <2>4. CASE There(e) # n
    BY <1>1, <2>4
  <2> QED
    BY <2>3, <2>4
<1>3. ASSUME NEW e \in End
      PROVE  /\ Shaped(peer[e], inbox'[e])
             /\ Matched(peer[e], inbox'[e], peer[Other(e)], inbox'[Other(e)])
  <2> DEFINE o == Other(e)
  <2>1. o \in End
    BY EndFacts
  <2>2. Shaped(peer[e], inbox[e]) /\ Matched(peer[e], inbox[e], peer[o], inbox[o])
    BY DEF Pools
  <2> HIDE DEF o
  <2>4. /\ peer[e].status = "closed" => inbox'[e] = inbox[e]
        /\ \A type \in {"Accepted", "Close", "Eof", "Lost"} : Has(inbox'[e], type) <=> Has(inbox[e], type)
        /\ \A type \in {"Accepted", "Close", "Eof", "Lost"} : Has(inbox'[o], type) <=> Has(inbox[o], type)
    BY <1>2, <2>1
  <2>5. Matched(peer[e], inbox'[e], peer[o], inbox'[o])
    BY <2>2, <2>4 DEF Matched, Closing, Gone
  <2> QED
    BY <2>2, <2>4, <2>5 DEF Shaped, o
<1> QED
  BY <1>1, <1>3 DEF Pools, Shaped, Matched, Closing, Has

LEMMA BreakPools ==
  ASSUME TypeOK, Pools, NEW b \in End, Broken(b)
  PROVE  Pools'
<1>1. /\ peer' = peer /\ peer[b].status # "closed"
      /\ \A e \in End : e # b => inbox'[e] = inbox[e]
  BY DEF Broken
<1>2. Gone(inbox'[b]) /\ ~Has(inbox'[b], "Accepted")
  <2>1. PICK m \in {Eof, Lost} : inbox'[b] = <<m>>
    BY DEF Broken
  <2>2. m.type \in {"Eof", "Lost"}
    BY DEF Eof, Lost, Msg
  <2>3. ToSet(<<m>>) = {m}
    BY DEF ToSet
  <2> QED
    BY <2>1, <2>2, <2>3 DEF Gone, Has
<1>3. ASSUME NEW e \in End
      PROVE  /\ Shaped(peer[e], inbox'[e])
             /\ Matched(peer[e], inbox'[e], peer[Other(e)], inbox'[Other(e)])
  <2> DEFINE o == Other(e)
  <2>1. o \in End /\ o # e /\ Other(o) = e
    BY EndFacts
  <2>2. Shaped(peer[e], inbox[e]) /\ Matched(peer[e], inbox[e], peer[o], inbox[o])
    BY DEF Pools
  <2> HIDE DEF o
  <2>3. Shaped(peer[e], inbox'[e])
    BY <1>1, <2>2 DEF Shaped
  <2>4. Matched(peer[e], inbox'[e], peer[o], inbox'[o])
    <3>1. CASE e = b
      BY <1>1, <1>2, <2>1, <3>1 DEF Matched, Closing
    <3>2. CASE o = b
      BY <1>1, <1>2, <2>1, <2>2, <3>2 DEF Matched
    <3>3. CASE e # b /\ o # b
      BY <1>1, <2>1, <2>2, <3>3
    <3> QED
      BY <3>1, <3>2, <3>3
  <2> QED
    BY <2>3, <2>4 DEF o
<1> QED
  BY <1>1, <1>3 DEF Pools, Shaped, Matched, Closing, Gone, Has

LEMMA PoolsStep ==
  ASSUME TypeOK, Handshakes, Pools, Kinds
  PROVE  Pools'
<1>1. CASE peer' = peer /\ inbox' = inbox
  BY <1>1 DEF Pools, Shaped, Matched, Closing, Gone, Has
<1> QED
  BY <1>1, TurnPools, AnnouncePools, BreakPools DEF Kinds, Idle, Mined

\* PoolsAgree always holds: a node that ends a session tells the other, and what was said
\* last is read before the session is quiet.
THEOREM PoolsMatch == Spec => []PoolsAgree
<1>1. Init => TypeOK /\ Handshakes /\ Pools
  <2>1. Init => \A e \in End : peer[e] = NoPeer /\ inbox[e] = <<>>
    BY DEF Init
  <2>2. NoPeer.status = "none" /\ NoPeer.pool = "none" /\ ToSet(<<>>) = {}
    BY DEF NoPeer, ToSet
  <2>3. \A e \in End : Other(e) \in End
    BY EndFacts
  <2> QED
    BY <2>1, <2>2, <2>3, TypeInit, HandshakesInit DEF Pools, Shaped, Matched, Has
<1>2. TypeOK /\ Handshakes /\ Pools /\ [Next]_vars => TypeOK' /\ Handshakes' /\ Pools'
  BY StepKinds, TypeStep, HandshakesStep, PoolsStep
<1>3. Pools => PoolsAgree
  <2> SUFFICES ASSUME Pools, NEW e \in End, Quiet(e[2])
               PROVE  peer[e].pool = "handshaked" <=> peer[Other(e)].pool = "handshaked"
    BY DEF PoolsAgree
  <2> DEFINE o == Other(e)
  <2>1. o \in End /\ Other(o) = e /\ o[2] = e[2]
    BY EndFacts
  <2>2. \A x \in End : x[2] = e[2] => inbox[x] = <<>> /\ peer[x].status # "ending"
    <3> SUFFICES ASSUME NEW x \in End, x[2] = e[2] PROVE inbox[x] = <<>> /\ peer[x].status # "ending"
      OBVIOUS
    <3>1. x = <<x[1], e[2]>> /\ x[1] \in {e[2][1], e[2][2]}
      BY DEF End
    <3> QED
      BY <3>1 DEF Quiet
  <2>3. inbox[e] = <<>> /\ inbox[o] = <<>> /\ peer[e].status # "ending" /\ peer[o].status # "ending"
    BY <2>1, <2>2
  <2>4. \A type : ~Has(<<>>, type)
    BY DEF Has, ToSet
  <2>5. /\ Matched(peer[e], inbox[e], peer[o], inbox[o])
        /\ Matched(peer[o], inbox[o], peer[e], inbox[e])
    BY <2>1 DEF Pools
  <2> HIDE DEF o
  <2>6. peer[e].pool = "handshaked" <=> peer[o].pool = "handshaked"
    BY <2>3, <2>4, <2>5 DEF Matched, Closing, Gone
  <2> QED
    BY <2>6 DEF o
<1> QED
  BY <1>1, <1>2, <1>3, PTL DEF Spec

-----------------------------------------------------------------------------
(* A download from one source *)

\* Sessions do not become unborn again.
LEMMA OnlyBefore ==
  ASSUME TypeOK, Handshakes, Kinds, NEW e \in End, OnlySession(e)'
  PROVE  OnlySession(e)
<1>1. ASSUME NEW f \in End, peer'[f].status = "none" PROVE peer[f].status = "none"
  <2>1. CASE Typical
    <3>1. PICK x \in End, p \in PeerObjects, out \in Seq(Messages) : Turns(x, p, out)
      BY <2>1 DEF Typical, ATurn
    <3>2. peer'[x] = p /\ (f # x => peer'[f] = peer[f])
      BY <3>1 DEF Turns, Starts, Closes, Hears, Refuses, Chats, GetsBlock, GetsNew, Turn
    <3>3. p.status # "none" \/ p.status = peer[x].status
      <4>1. peer[x] \in PeerObjects /\ Here(x) \in Node
        BY EndFacts DEF TypeOK
      <4>2. CASE Starts(x, p, out)
        BY <4>2 DEF Starts
      <4>3. CASE Closes(x, p, out)
        BY <4>3 DEF Closes, GonePeer, NoPeer
      <4>4. CASE Hears(x, p, out)
        BY <4>4, HearShakes
      <4>5. CASE Refuses(x, p, out) \/ Chats(x, p, out)
        BY <4>5 DEF Refuses, Chats, Ended, SamePlace
      <4>6. CASE GetsBlock(x, p, out)
        <5>1. Word(x).arg \in Chains
          BY <4>6, WordFacts DEF GetsBlock, BlockTypes
        <5> QED
          BY <4>1, <4>6, <5>1, BlockFields DEF GetsBlock, TookBlock, SamePlace, Ended
      <4>7. CASE GetsNew(x, p, out)
        BY <4>1, <4>7 DEF GetsNew, PeerObjects
      <4> QED
        BY <3>1, <4>2, <4>3, <4>4, <4>5, <4>6, <4>7 DEF Turns
    <3> QED
      BY <1>1, <3>2, <3>3
  <2>2. CASE peer' = peer
    BY <1>1, <2>2
  <2> QED
    BY <2>1, <2>2 DEF Kinds, Idle, Mined, Announced, Broken
<1> QED
  BY <1>1 DEF OnlySession

\* Only the two ends of its only session can bring a node blocks.
LEMMA OnlyLive ==
  ASSUME NEW e \in End, OnlySession(e), NEW f \in End, Live(f)
  PROVE  /\ Here(f) = Here(e) => f = e
         /\ Here(f) = There(e) => f = Other(e)
<1>1. Here(f) \in {Here(e), There(e)} => f[2] = e[2]
  BY DEF OnlySession, Live
<1>2. /\ Here(Other(e)) = There(e) /\ Here(e) # There(e)
      /\ f[2] = e[2] => f = e \/ f = Other(e)
  BY EndFacts
<1> QED
  BY <1>1, <1>2

\* How a chain can change in a step.
LEMMA GrowthKinds ==
  ASSUME TypeOK, Known, Kinds, NEW n \in Node
  PROVE  \/ chain'[n] = chain[n]
         \/ Mined(n)
         \/ \E e \in End, p \in PeerObjects, out \in Seq(Messages) :
              /\ Here(e) = n /\ Live(e) /\ (GetsBlock(e, p, out) \/ GetsNew(e, p, out))
              /\ IsPrefix(chain'[n], chain[There(e)])
<1>1. chain \in [Node -> Chains]
  BY DEF TypeOK
<1>2. CASE Typical
  <2>1. PICK e \in End, p \in PeerObjects, out \in Seq(Messages) : Turns(e, p, out)
    BY <1>2 DEF Typical, ATurn
  <2> DEFINE b == Word(e).arg
             c == chain[Here(e)]
             bs == peer[e].blocks
  <2>2. Here(e) \in Node /\ c \in Chains /\ peer[e] \in PeerObjects /\ bs \in Seq(Chains)
    BY <1>1, EndFacts DEF TypeOK, PeerObjects
  <2>3. KnownPeer(chain, e, peer[e]) /\ \A m \in ToSet(inbox[e]) : KnownWord(chain, e, m)
    BY DEF Known
  <2>4. CASE chain' = chain
    BY <2>4
  <2>5. CASE GetsBlock(e, p, out)
    <3>1. Live(e) /\ Word(e).type = "Block" /\ b \in Chains /\ Word(e) \in ToSet(inbox[e])
      BY <2>5, WordFacts DEF GetsBlock, BlockTypes
    <3>2. CASE ~Applies(peer[e], Here(e), b)
      BY <2>4, <2>5, <3>2 DEF GetsBlock
    <3>3. CASE Applies(peer[e], Here(e), b)
      <4> DEFINE d == ApplySyncBlocks(c, Append(bs, b))
      <4>1. Append(bs, b) \in Seq(Chains) /\ ToSet(Append(bs, b)) = ToSet(bs) \cup {b}
        BY <2>2, <3>1, AppendProperties, AppendAsSet
      <4>2. chain' = [chain EXCEPT ![Here(e)] = d]
        BY <2>5, <3>3 DEF GetsBlock
      <4>3. d = c \/ d \in ToSet(bs) \/ d = b
        BY <2>2, <4>1, ApplyFacts
      <4> HIDE DEF d
      <4>4. CASE d = c
        BY <1>1, <2>2, <4>2, <4>4
      <4>5. CASE d # c
        <5>1. IsPrefix(d, chain[There(e)])
          BY <2>3, <3>1, <4>3, <4>5 DEF KnownPeer, KnownWord
        <5>2. chain'[Here(e)] = d /\ (n # Here(e) => chain'[n] = chain[n])
          BY <1>1, <2>2, <4>2
        <5> QED
          BY <2>5, <3>1, <5>1, <5>2
      <4> QED
        BY <4>4, <4>5
    <3> QED
      BY <3>2, <3>3
  <2>6. CASE GetsNew(e, p, out)
    <3>1. Live(e) /\ Word(e).type = "NewBlock" /\ b \in Chains /\ Word(e) \in ToSet(inbox[e])
      BY <2>6, WordFacts DEF GetsNew, BlockTypes
    <3> DEFINE d == AddBlock(c, b)
    <3>2. chain' = [chain EXCEPT ![Here(e)] = d]
      BY <2>6 DEF GetsNew
    <3>3. d \in {b, c}
      BY <2>2, <3>1, AddBlockFacts
    <3> HIDE DEF d
    <3>4. CASE d = c
      BY <1>1, <2>2, <3>2, <3>4
    <3>5. CASE d # c
      <4>1. IsPrefix(d, chain[There(e)])
        BY <2>3, <3>1, <3>3, <3>5 DEF KnownWord
      <4>2. chain'[Here(e)] = d /\ (n # Here(e) => chain'[n] = chain[n])
        BY <1>1, <2>2, <3>2
      <4> QED
        BY <2>6, <3>1, <4>1, <4>2
    <3> QED
      BY <3>4, <3>5
  <2> QED
    BY <2>1, <2>4, <2>5, <2>6 DEF Turns, Starts, Closes, Hears, Refuses, Chats, Still
<1>3. ASSUME NEW k \in Node, Mined(k) PROVE Mined(n) \/ chain'[n] = chain[n]
  BY <1>1, <1>3 DEF Mined
<1> QED
  BY <1>2, <1>3 DEF Kinds, Idle, Announced, Broken

\* Whoever has a block, its miner has it.
Owned == \A m, n \in Node : \A x \in Chains : IsPrefix(x, chain[m]) /\ x[Len(x)] = n => IsPrefix(x, chain[n])

LEMMA OwnedStep ==
  ASSUME TypeOK, Known, Owned, Kinds
  PROVE  Owned'
<1>1. ChainGrows
  BY ChainsStep
<1> SUFFICES ASSUME NEW m \in Node, NEW n \in Node, NEW x \in Chains, IsPrefix(x, chain'[m]), x[Len(x)] = n
             PROVE  IsPrefix(x, chain'[n])
  BY DEF Owned
<1>2. \A k \in Node : /\ chain[k] \in Seq(Names) /\ chain'[k] \in Seq(Names)
                      /\ IsPrefix(chain[k], chain'[k])
  BY <1>1 DEF ChainGrows, TypeOK, Chains
<1>3. x \in Seq(Names)
  BY BlockFacts
<1>4. ASSUME NEW k \in Node, IsPrefix(x, chain[k]) PROVE IsPrefix(x, chain'[n])
  <2>1. IsPrefix(x, chain[n])
    BY <1>4 DEF Owned
  <2> QED
    BY <1>2, <1>3, <2>1, PrefixTransitive
<1>5. CASE chain'[m] = chain[m]
  BY <1>4, <1>5
<1>6. CASE Mined(m)
  <2> DEFINE c == chain[m]
             d == Append(c, m)
  <2>1. c \in Seq(Names) /\ m \in Names
    BY <1>2, BlockFacts
  <2>2. d \in Seq(Names) /\ d # <<>> /\ Len(d) = Len(c) + 1 /\ IsPrefix(c, d) /\ d[Len(c) + 1] = m
    BY <2>1, MinedFacts
  <2>3. chain'[m] = d
    BY <1>6 DEF Mined, TypeOK
  <2> HIDE DEF d
  <2>4. CASE x = d
    <3>1. n = m
      BY <2>2, <2>4
    <3> QED
      BY <2>3, <3>1
  <2>5. CASE x # d
    <3>1. IsPrefix(x, Parent(d)) /\ Parent(d) \in Seq(Names) /\ Len(Parent(d)) = Len(d) - 1
      BY <1>3, <2>2, <2>3, <2>5, BeforeParent, ParentFacts
    <3>2. Len(c) \in Nat /\ Len(Parent(d)) <= Len(c) /\ IsPrefix(Parent(d), d)
      BY <2>1, <2>2, <3>1, LenProperties, ParentFacts
    <3>3. IsPrefix(Parent(d), c)
      BY <2>1, <2>2, <3>1, <3>2, PrefixesNest
    <3>4. IsPrefix(x, c)
      BY <1>3, <2>1, <3>1, <3>3, PrefixTransitive
    <3> QED
      BY <1>4, <3>4
  <2> QED
    BY <2>4, <2>5
<1>7. ASSUME NEW e \in End, IsPrefix(chain'[m], chain[There(e)]) PROVE IsPrefix(x, chain'[n])
  <2>1. There(e) \in Node
    BY EndFacts
  <2>2. IsPrefix(x, chain[There(e)])
    BY <1>2, <1>3, <1>7, <2>1, PrefixTransitive
  <2> QED
    BY <1>4, <2>1, <2>2
<1> QED
  BY <1>5, <1>6, <1>7, GrowthKinds

LEMMA OwnedInit ==
  ASSUME Init
  PROVE  Owned
<1> SUFFICES ASSUME NEW m \in Node, NEW n \in Node, NEW x \in Chains, IsPrefix(x, chain[m]), x[Len(x)] = n
             PROVE  IsPrefix(x, chain[n])
  BY DEF Owned
<1>1. chain \in InitialChains /\ chain[m] \in Seq(Names) /\ x \in Seq(Names) /\ Len(x) \in Nat /\ Len(x) >= 1
  BY BlockFacts, TypeInit DEF Init, TypeOK, Chains
<1>2. Len(x) \in 0..Len(chain[m]) /\ x = SubSeq(chain[m], 1, Len(x))
  BY <1>1, PrefixIsFirst
<1>3. Len(chain[m]) \in Nat
  BY <1>1, LenProperties
<1>4. Len(x) \in 1..Len(chain[m]) /\ Len(x) \in 1..Len(x)
  BY <1>1, <1>2, <1>3
<1>5. x[Len(x)] = chain[m][Len(x)]
  <2>1. \A i \in 1..Len(x) : x[i] = chain[m][i]
    BY <1>1, PrefixPlaces
  <2> QED
    BY <1>4, <2>1
<1>6. IsPrefix(SubSeq(chain[m], 1, Len(x)), chain[n])
  BY <1>1, <1>4, <1>5, OwnBlocks
<1> QED
  BY <1>2, <1>6

-----------------------------------------------------------------------------
(* Why a download from one source reaches its goal *)

\* A chain that grows does not come back below a block.
LEMMA StrictGrow ==
  ASSUME NEW c \in Seq(Names), NEW d \in Seq(Names), NEW g \in Seq(Names), IsPrefix(c, d), IsStrictPrefix(d, g)
  PROVE  IsStrictPrefix(c, g)
<1>1. IsPrefix(d, g) /\ d # g
  BY DEF IsStrictPrefix
<1>2. IsPrefix(c, g)
  BY <1>1, PrefixTransitive
<1>3. Len(c) \in Nat /\ Len(d) \in Nat /\ Len(g) \in Nat /\ Len(c) <= Len(d) /\ Len(d) < Len(g)
  BY <1>1, PrefixLength
<1>4. c # g
  BY <1>3
<1> QED
  BY <1>2, <1>4 DEF IsStrictPrefix

\* What is above a prefix of another is not strictly below it.
LEMMA NotStrictlyBelow ==
  ASSUME NEW c \in Seq(Names), NEW g \in Seq(Names), IsPrefix(g, c)
  PROVE  ~IsStrictPrefix(c, g)
<1> SUFFICES ASSUME IsPrefix(c, g), c # g PROVE FALSE
  BY DEF IsStrictPrefix
<1>1. Len(c) \in Nat /\ Len(g) \in Nat /\ Len(c) <= Len(g) /\ Len(g) <= Len(c)
  BY PrefixLength
<1>2. Len(c) >= Len(g)
  BY <1>1
<1> QED
  BY <1>2, PrefixLength

\* A turn of another end leaves the end of an only session and the chain there.
LEMMA OnlyTurns ==
  ASSUME TypeOK, NEW e \in End, OnlySession(e), NEW x \in End, x # e,
         NEW p \in PeerObjects, NEW out \in Seq(Messages), Turns(x, p, out)
  PROVE  peer'[e] = peer[e] /\ chain'[Here(e)] = chain[Here(e)]
<1>1. peer'[e] = peer[e]
  BY DEF Turns, Starts, Closes, Hears, Refuses, Chats, GetsBlock, GetsNew, Turn
<1>2. chain \in [Node -> Chains]
  BY DEF TypeOK
<1>3. CASE chain' = chain
  BY <1>1, <1>3
<1>4. CASE GetsBlock(x, p, out) \/ GetsNew(x, p, out)
  <2>1. Live(x)
    BY <1>4 DEF GetsBlock, GetsNew
  <2>2. Here(x) # Here(e)
    BY <2>1, OnlyLive
  <2>3. chain'[Here(e)] = chain[Here(e)]
    BY <1>2, <1>4, <2>2, EndFacts DEF GetsBlock, GetsNew
  <2> QED
    BY <1>1, <2>3
<1> QED
  BY <1>3, <1>4 DEF Turns, Starts, Closes, Hears, Refuses, Chats, Still

\* A block that the only peer has mined and not announced is its newest, unless it has
\* taken blocks since, and then they are known here.
IsNewest(b, c, d) == b = NoBlock \/ b = c \/ IsPrefix(b, d)
Newest == \A e \in End : OnlySession(e) => IsNewest(mined[There(e)], chain[There(e)], chain[Here(e)])

LEMMA NewestStep ==
  ASSUME TypeOK, Handshakes, Known, Newest, Kinds
  PROVE  Newest'
<1> SUFFICES ASSUME NEW e \in End, OnlySession(e)'
             PROVE  IsNewest(mined'[There(e)], chain'[There(e)], chain'[Here(e)])
  BY DEF Newest, IsNewest, There, Here, Other, Dialed
<1> DEFINE n == Here(e)
           m == There(e)
           b == mined[m]
<1>1. OnlySession(e)
  BY OnlyBefore
<1>2. n \in Node /\ m \in Node /\ n # m
  BY EndFacts
<1>3. ChainGrows
  BY ChainsStep
<1>4. /\ chain[n] \in Seq(Names) /\ chain[m] \in Seq(Names) /\ chain'[n] \in Seq(Names) /\ chain'[m] \in Seq(Names)
      /\ IsPrefix(chain[n], chain'[n]) /\ IsPrefix(chain[m], chain'[m])
  BY <1>2, <1>3 DEF TypeOK, ChainGrows, Chains
<1>5. b \in Seq(Names) /\ (b = NoBlock \/ IsPrefix(b, chain[m])) /\ mined \in [Node -> Chains \cup {NoBlock}]
  BY <1>2, BlockFacts DEF TypeOK
<1>6. IsNewest(b, chain[m], chain[n])
  BY <1>1 DEF Newest
<1> HIDE DEF n, m, b
<1>7. ASSUME IsPrefix(b, chain[n]) PROVE IsPrefix(b, chain'[n])
  BY <1>4, <1>5, <1>7, PrefixTransitive
<1>8. CASE mined'[m] = NoBlock
  BY <1>8 DEF IsNewest, m
<1>9. CASE Mined(m)
  <2>1. mined'[m] = Append(chain[m], m) /\ chain'[m] = Append(chain[m], m)
    BY <1>2, <1>5, <1>9 DEF Mined, TypeOK
  <2> QED
    BY <2>1 DEF IsNewest, m
<1>10. CASE mined'[m] = b /\ ~Mined(m)
  <2>1. CASE chain'[m] = chain[m]
    BY <1>6, <1>7, <1>10, <2>1 DEF IsNewest, n, m
  <2>2. ASSUME NEW f \in End, Here(f) = m, Live(f), IsPrefix(chain'[m], chain[There(f)])
        PROVE  IsNewest(b, chain'[m], chain'[n])
    <3>1. f = Other(e)
      BY <1>1, <2>2, OnlyLive DEF m
    <3>2. There(f) = n
      BY <3>1, EndFacts DEF n
    <3>3. IsPrefix(chain[m], chain[n])
      BY <1>4, <2>2, <3>2, PrefixTransitive
    <3>4. b = NoBlock \/ IsPrefix(b, chain[n])
      BY <1>4, <1>5, <3>3, PrefixTransitive
    <3> QED
      BY <1>7, <3>4 DEF IsNewest
  <2> QED
    BY <1>2, <1>10, <2>1, <2>2, GrowthKinds DEF n, m
<1>11. mined'[m] = NoBlock \/ Mined(m) \/ mined'[m] = b
  <2>1. CASE mined' = mined
    BY <2>1 DEF b
  <2>2. ASSUME NEW k \in Node, Mined(k) PROVE Mined(m) \/ mined'[m] = b
    BY <1>2, <1>5, <2>2 DEF Mined, b
  <2>3. ASSUME NEW k \in Node, Announced(k) PROVE mined'[m] = NoBlock \/ mined'[m] = b
    BY <1>2, <1>5, <2>3 DEF Announced, b
  <2>4. Typical => mined' = mined
    BY DEF Typical, ATurn, Turns, Starts, Closes, Hears, Refuses, Chats, GetsBlock, GetsNew, Still
  <2> QED
    BY <2>1, <2>2, <2>3, <2>4 DEF Kinds, Idle, Broken
<1> QED
  BY <1>8, <1>9, <1>10, <1>11 DEF n, m

\* With q in the inbox, the goal g and the chain c: the block b that is announced is known
\* already, or it is not below the goal, and not below a goal that is still to come.
NotBelow(b, q, g, c) ==
  \/ IsPrefix(b, c)
  \/ ~IsStrictPrefix(b, g) /\ \A t \in ToSet(q) : IsTop(t) => ~IsStrictPrefix(b, t.arg)
Late ==
  \A e \in End : OnlySession(e) =>
    \A x \in ToSet(inbox[e]) : x.type = "NewBlock" => NotBelow(x.arg, inbox[e], peer[e].goal, chain[Here(e)])

\* It stays so while messages are taken and one of the top blocks becomes the goal.
LEMMA NotBelowStays ==
  ASSUME NEW b \in Chains, NEW c \in Seq(Names), NEW d \in Seq(Names), IsPrefix(c, d),
         NEW q, NEW g, NEW r, NEW h, NotBelow(b, q, g, c),
         \A t \in ToSet(r) : IsTop(t) => t \in ToSet(q),
         h = g \/ h = NoBlock \/ \E t \in ToSet(q) : IsTop(t) /\ h = t.arg
  PROVE  NotBelow(b, r, h, d)
<1>1. b \in Seq(Names) /\ Len(b) \in Nat /\ Len(b) >= 1 /\ Len(NoBlock) = 0 /\ NoBlock \in Seq(Names)
  BY BlockFacts
<1>2. CASE IsPrefix(b, c)
  BY <1>1, <1>2, PrefixTransitive DEF NotBelow
<1>3. CASE ~IsStrictPrefix(b, g) /\ \A t \in ToSet(q) : IsTop(t) => ~IsStrictPrefix(b, t.arg)
  <2>1. ASSUME IsPrefix(b, NoBlock) PROVE FALSE
    <3>1. Len(b) <= Len(NoBlock)
      BY <1>1, <2>1, PrefixLength
    <3> QED
      BY <1>1, <3>1
  <2>2. ~IsStrictPrefix(b, NoBlock)
    BY <2>1 DEF IsStrictPrefix
  <2>3. ~IsStrictPrefix(b, h)
    BY <1>3, <2>2
  <2> QED
    BY <1>3, <2>3 DEF NotBelow
<1> QED
  BY <1>2, <1>3 DEF NotBelow

\* The goal after a turn: the one before, none, or the top block that was heard.
LEMMA GoalTurn ==
  ASSUME TypeOK, Handshakes, NEW e \in End, NEW p \in PeerObjects, NEW out \in Seq(Messages), Turns(e, p, out)
  PROVE  /\ p.goal = peer[e].goal \/ p.goal = NoBlock \/ \E t \in ToSet(inbox[e]) : IsTop(t) /\ p.goal = t.arg
         /\ ToSet(inbox'[e]) \subseteq ToSet(inbox[e])
<1>1. peer[e] \in PeerObjects /\ Here(e) \in Node
  BY EndFacts DEF TypeOK
<1>2. CASE Starts(e, p, out)
  BY <1>2 DEF Starts, SameDownload, Turn
<1>3. CASE Closes(e, p, out)
  <2>1. p.goal = NoBlock /\ inbox'[e] = <<>>
    BY <1>3 DEF Closes, GonePeer, NoPeer, Turn
  <2>2. ToSet(<<>>) = {}
    BY DEF ToSet
  <2> QED
    BY <2>1, <2>2
<1>4. ASSUME Live(e), inbox'[e] = Rest(e) PROVE ToSet(inbox'[e]) \subseteq ToSet(inbox[e])
  BY <1>4, WordFacts
<1>5. CASE Refuses(e, p, out) \/ Chats(e, p, out)
  BY <1>4, <1>5 DEF Refuses, Chats, SameDownload, Turn
<1>6. CASE Hears(e, p, out)
  <2> DEFINE r == [peer[e] EXCEPT !.pool = "handshaked"]
             top == Word(e).arg
  <2>1. Live(e) /\ IsTop(Word(e)) /\ p = TopReceived(r, Here(e), top) /\ inbox'[e] = Rest(e)
    BY <1>6 DEF Hears, Turn
  <2>2. top \in Chains /\ Word(e) \in ToSet(inbox[e])
    BY <2>1, WordFacts DEF IsTop, BlockTypes
  <2>3. r \in PeerObjects /\ r.goal = peer[e].goal
    BY <1>1 DEF PeerObjects
  <2> HIDE DEF r, top
  <2>4. p.goal = peer[e].goal \/ p.goal = top
    BY <1>1, <2>1, <2>2, <2>3, TopFields DEF SameDownload
  <2> QED
    BY <1>4, <2>1, <2>2, <2>4 DEF top
<1>7. CASE GetsBlock(e, p, out)
  <2>1. Live(e) /\ inbox'[e] = Rest(e) /\ p = BlockReceived(peer[e], Here(e), Word(e).arg) /\ Word(e).arg \in Chains
    BY <1>7, WordFacts DEF GetsBlock, Turn, BlockTypes
  <2>2. p.goal = peer[e].goal
    BY <1>1, <2>1, BlockFields DEF TookBlock, SameDownload
  <2> QED
    BY <1>4, <2>1, <2>2
<1>8. CASE GetsNew(e, p, out)
  <2>1. p.goal = peer[e].goal
    BY <1>1, <1>8 DEF GetsNew, PeerObjects
  <2> QED
    BY <1>4, <1>8, <2>1 DEF GetsNew, Turn
<1> QED
  BY <1>2, <1>3, <1>5, <1>6, <1>7, <1>8 DEF Turns

\* A turn announces nothing, and sends a top block only before anything is announced.
LEMMA TurnSaysTop ==
  ASSUME TypeOK, Handshakes, NEW e \in End, NEW p \in PeerObjects, NEW out \in Seq(Messages), Turns(e, p, out)
  PROVE  /\ \A m \in ToSet(out) : m.type # "NewBlock"
         /\ ~Topless(out) => ~Has(inbox[Other(e)], "NewBlock")
<1> DEFINE o == Other(e)
<1>1. o \in End /\ Other(o) = e /\ (Dialed(o) <=> ~Dialed(e)) /\ peer[e] \in PeerObjects /\ Here(e) \in Node
  BY EndFacts DEF TypeOK
<1>2. /\ Shakes(e, peer[e], inbox[e], peer[o], inbox[o])
      /\ Shakes(o, peer[o], inbox[o], peer[e], inbox[e])
  BY <1>1 DEF Handshakes
<1> HIDE DEF o
<1>3. ToSet(<<>>) = {} /\ \A x : ToSet(<<x>>) = {x}
  BY DEF ToSet
<1>4. \A t, b : Msg(t, b).type = t
  BY DEF Msg
<1>5. CASE Starts(e, p, out)
  <2>1. \A m \in ToSet(out) : m = Msg("Connect", chain[Here(e)]) \/ m = Msg("CannotAccept", {})
    BY <1>3, <1>5 DEF Starts
  <2>2. ~Has(inbox[o], "NewBlock")
    BY <1>2, <1>5 DEF Starts, Shakes
  <2> QED
    BY <1>4, <2>1, <2>2 DEF o
<1>6. CASE Closes(e, p, out)
  <2>1. \A m \in ToSet(out) : m.type = "Eof"
    BY <1>3, <1>4, <1>6 DEF Closes, Said, Eof
  <2> QED
    BY <2>1 DEF Topless, IsTop
<1>7. CASE Refuses(e, p, out) \/ Chats(e, p, out)
  BY <1>7 DEF Refuses, Chats, Topless, IsTop
<1>8. CASE GetsBlock(e, p, out)
  BY <1>4, <1>8 DEF GetsBlock, Topless, IsTop
<1>9. CASE GetsNew(e, p, out)
  BY <1>3, <1>9 DEF GetsNew, Topless
<1>10. CASE Hears(e, p, out)
  <2>1. PICK words \in {<<>>, <<Msg("Accepted", chain[Here(e)])>>} :
             /\ (Word(e).type = "Connect") <=> (words # <<>>)
             /\ out = Said(e, words \o <<Msg("Lookup", NoBlock)>> \o Asks(p))
    BY <1>10 DEF Hears
  <2> DEFINE look == <<Msg("Lookup", NoBlock)>>
             acc == <<Msg("Accepted", chain[Here(e)])>>
  <2>2. chain[Here(e)] \in Chains
    BY <1>1 DEF TypeOK
  <2>3. Msg("Lookup", NoBlock) \in Messages /\ Msg("Accepted", chain[Here(e)]) \in Messages
    BY <2>2, MessageFacts DEF BlockTypes
  <2>4. look \in Seq(Messages) /\ acc \in Seq(Messages) /\ <<>> \in Seq(Messages)
        /\ ToSet(look) = {Msg("Lookup", NoBlock)} /\ ToSet(acc) = {Msg("Accepted", chain[Here(e)])}
    BY <2>3, SingleMessage
  <2>5. Asks(p) \in Seq(Messages) /\ \A m \in ToSet(Asks(p)) : m = Msg("GetBlock", p.requested)
    BY AsksFacts
  <2> HIDE DEF look, acc
  <2>6. words \in Seq(Messages) /\ \A m \in ToSet(words) : m = Msg("Accepted", chain[Here(e)]) /\ words # <<>>
    BY <1>3, <2>1, <2>4 DEF acc
  <2> DEFINE v == words \o look
  <2>7. v \in Seq(Messages) /\ ToSet(v) = ToSet(words) \cup ToSet(look)
    BY <2>4, <2>6, ConcatAsSet
  <2> HIDE DEF v
  <2>8. ToSet(v \o Asks(p)) = ToSet(v) \cup ToSet(Asks(p))
    BY <2>5, <2>7, ConcatAsSet
  <2>9. \A m \in ToSet(out) : m \in ToSet(words) \/ m \in ToSet(look) \/ m \in ToSet(Asks(p))
    <3>1. out = v \o Asks(p) \/ out = <<>>
      BY <2>1 DEF Said, look, v
    <3> QED
      BY <1>3, <2>7, <2>8, <3>1
  <2>10. \A m \in ToSet(out) : m.type # "NewBlock" /\ (IsTop(m) => words # <<>>)
    <3>1. \A m \in ToSet(words) : m.type = "Accepted" /\ words # <<>>
      BY <1>4, <2>6
    <3>2. \A m \in ToSet(look) \cup ToSet(Asks(p)) : m.type = "Lookup" \/ m.type = "GetBlock"
      BY <1>4, <2>4, <2>5
    <3> QED
      BY <2>9, <3>1, <3>2 DEF IsTop
  <2>11. ASSUME words # <<>> PROVE ~Has(inbox[o], "NewBlock")
    <3>1. Word(e).type = "Connect" /\ Word(e) \in ToSet(inbox[e])
      BY <1>10, <2>1, <2>11, WordFacts DEF Hears
    <3>2. Has(inbox[e], "Connect")
      BY <3>1 DEF Has
    <3> QED
      BY <1>1, <1>2, <3>2 DEF Shakes, Early
  <2> QED
    BY <2>10, <2>11 DEF Topless, o
<1> QED
  BY <1>5, <1>6, <1>7, <1>8, <1>9, <1>10 DEF Turns

LEMMA LateStep ==
  ASSUME TypeOK, Handshakes, Known, Newest, Late, Kinds
  PROVE  Late'
<1> SUFFICES ASSUME NEW e \in End, OnlySession(e)', NEW x \in ToSet(inbox'[e]), x.type = "NewBlock"
             PROVE  NotBelow(x.arg, inbox'[e], peer'[e].goal, chain'[Here(e)])
  BY DEF Late, NotBelow, IsTop, Here
<1> DEFINE o == Other(e)
           n == Here(e)
           g == peer[e].goal
           q == inbox[e]
<1>1. OnlySession(e)
  BY OnlyBefore
<1>2. o \in End /\ Other(o) = e /\ n \in Node /\ There(e) \in Node
  BY EndFacts
<1>3. ChainGrows
  BY ChainsStep
<1>4. chain[n] \in Seq(Names) /\ chain'[n] \in Seq(Names) /\ IsPrefix(chain[n], chain'[n])
  BY <1>2, <1>3 DEF TypeOK, ChainGrows, Chains
<1>5. \A m \in ToSet(q) : m.type = "NewBlock" => NotBelow(m.arg, q, g, chain[n])
  BY <1>1 DEF Late
<1>6. q \in Seq(Messages)
  BY DEF TypeOK
<1>7. \A m \in ToSet(q) : m \in Messages /\ (m.type \in BlockTypes => m.arg \in Chains)
  BY <1>6, SeqAsSet, MessageFacts
<1> HIDE DEF o, n, g, q
<1>8. ASSUME x \in ToSet(q), \A t \in ToSet(inbox'[e]) : IsTop(t) => t \in ToSet(q),
             peer'[e].goal = g \/ peer'[e].goal = NoBlock \/ \E t \in ToSet(q) : IsTop(t) /\ peer'[e].goal = t.arg
      PROVE  NotBelow(x.arg, inbox'[e], peer'[e].goal, chain'[n])
  <2>1. x.arg \in Chains /\ NotBelow(x.arg, q, g, chain[n])
    BY <1>5, <1>7, <1>8 DEF BlockTypes
  <2> QED
    BY <1>4, <1>8, <2>1, NotBelowStays
<1>9. CASE inbox'[e] = inbox[e] /\ peer' = peer
  BY <1>8, <1>9 DEF q, g, n
<1>10. ASSUME NEW f \in End, NEW p \in PeerObjects, NEW out \in Seq(Messages), Turns(f, p, out)
       PROVE  NotBelow(x.arg, inbox'[e], peer'[e].goal, chain'[n])
  <2>1. PICK in : Turn(f, p, in, out)
    BY <1>10 DEF Turns, Starts, Closes, Hears, Refuses, Chats, GetsBlock, GetsNew
  <2>2. CASE f = e
    <3>1. peer'[e] = p
      BY <2>1, <2>2 DEF Turn
    <3>2. /\ p.goal = g \/ p.goal = NoBlock \/ \E t \in ToSet(q) : IsTop(t) /\ p.goal = t.arg
          /\ ToSet(inbox'[e]) \subseteq ToSet(q)
      BY <1>10, <2>2, GoalTurn DEF g, q
    <3> QED
      BY <1>8, <3>1, <3>2
  <2>3. CASE f = o
    <3>1. peer'[e] = peer[e] /\ ToSet(inbox'[e]) = ToSet(q) \cup ToSet(out)
      BY <1>2, <2>1, <2>3, TurnFacts DEF q
    <3>2. /\ \A m \in ToSet(out) : m.type # "NewBlock"
          /\ ~Topless(out) => ~Has(q, "NewBlock")
      BY <1>2, <1>10, <2>3, TurnSaysTop DEF q
    <3>3. x \in ToSet(q)
      BY <3>1, <3>2
    <3>4. Topless(out)
      BY <3>2, <3>3 DEF Has
    <3>5. \A t \in ToSet(inbox'[e]) : IsTop(t) => t \in ToSet(q)
      BY <3>1, <3>4 DEF Topless
    <3> QED
      BY <1>8, <3>1, <3>3, <3>5 DEF g
  <2>4. CASE f # e /\ f # o
    <3>1. e # f /\ e # Other(f)
      BY <1>2, <2>4, EndFacts DEF o
    <3>2. peer'[e] = peer[e] /\ inbox'[e] = inbox[e]
      BY <2>1, <3>1, TurnFacts
    <3> QED
      BY <1>8, <3>2 DEF g, q
  <2> QED
    BY <2>2, <2>3, <2>4
<1>11. ASSUME NEW k \in Node, Announced(k)
       PROVE  NotBelow(x.arg, inbox'[e], peer'[e].goal, chain'[n])
  <2> DEFINE b == mined[There(e)]
             new == Msg("NewBlock", b)
             c == chain[There(e)]
  <2>1. peer' = peer /\ chain' = chain /\ inbox'[e] = IF There(e) = k THEN q \o News(e) ELSE q
    BY <1>11 DEF Announced, q
  <2>2. CASE inbox'[e] = q
    BY <1>9, <2>1, <2>2 DEF q, n
  <2>3. CASE inbox'[e] # q
    <3>1. There(e) = k /\ inbox'[e] = q \o News(e) /\ b # NoBlock
      BY <1>11, <2>1, <2>3 DEF Announced
    <3>2. b \in Chains /\ b \in Seq(Names) /\ c \in Seq(Names) /\ new.type = "NewBlock" /\ new.arg = b
      BY <1>2, <3>1, BlockFacts DEF TypeOK, Chains, Msg
    <3>3. new \in Messages
      BY <3>2, MessageFacts DEF BlockTypes
    <3>4. News(e) = <<>> \/ News(e) = <<new>>
      BY DEF News
    <3> HIDE DEF new
    <3> DEFINE one == <<new>>
    <3>5. one \in Seq(Messages) /\ <<>> \in Seq(Messages) /\ ToSet(one) = {new} /\ ToSet(<<>>) = {}
      BY <3>3, SingleMessage
    <3> HIDE DEF one
    <3>6. News(e) \in Seq(Messages) /\ \A m \in ToSet(News(e)) : m = new
      BY <3>4, <3>5 DEF one
    <3>7. ToSet(inbox'[e]) = ToSet(q) \cup ToSet(News(e))
      BY <1>6, <3>1, <3>6, ConcatAsSet
    <3>8. \A t \in ToSet(inbox'[e]) : IsTop(t) => t \in ToSet(q)
      BY <3>2, <3>6, <3>7 DEF IsTop
    <3>9. CASE x \in ToSet(q)
      BY <1>8, <2>1, <3>8, <3>9 DEF g
    <3>10. CASE x \notin ToSet(q)
      <4>1. x.arg = b
        BY <3>2, <3>6, <3>7, <3>10
      <4>2. IsNewest(b, c, chain[n])
        BY <1>1 DEF Newest, n
      <4>3. CASE IsPrefix(b, chain[n])
        BY <2>1, <4>1, <4>3 DEF NotBelow
      <4>4. CASE b = c
        <5>1. IsPrefix(g, c) /\ \A t \in ToSet(q) : IsTop(t) => IsPrefix(t.arg, c)
          BY DEF Known, KnownPeer, KnownWord, IsTop, g, q
        <5>2. g \in Seq(Names) /\ \A t \in ToSet(q) : IsTop(t) => t.arg \in Seq(Names)
          BY <1>7, PeerFields, BlockFacts DEF TypeOK, g, IsTop, BlockTypes
        <5>3. ~IsStrictPrefix(b, g)
          BY <3>2, <4>4, <5>1, <5>2, NotStrictlyBelow
        <5>4. \A t \in ToSet(inbox'[e]) : IsTop(t) => ~IsStrictPrefix(b, t.arg)
          BY <3>2, <3>8, <4>4, <5>1, <5>2, NotStrictlyBelow
        <5> QED
          BY <2>1, <4>1, <5>3, <5>4 DEF NotBelow, g
      <4> QED
        BY <3>1, <4>2, <4>3, <4>4 DEF IsNewest
    <3> QED
      BY <3>9, <3>10
  <2> QED
    BY <2>2, <2>3
<1>12. ASSUME NEW b \in End, Broken(b)
       PROVE  NotBelow(x.arg, inbox'[e], peer'[e].goal, chain'[n])
  <2>1. peer' = peer
    BY <1>12 DEF Broken
  <2>2. inbox'[e] # inbox[e] => \A m \in ToSet(inbox'[e]) : m.type \in {"Eof", "Lost"}
    BY <1>12, BrokenInbox
  <2>3. inbox'[e] = inbox[e]
    BY <2>2
  <2> QED
    BY <1>9, <2>1, <2>3 DEF n
<1> QED
  BY <1>9, <1>10, <1>11, <1>12 DEF Kinds, Typical, ATurn, Idle, Mined, n

\* The block that is asked for is not known yet, unless the goal is.
AimsAt(p, c) == p.requested # NoBlock => IsPrefix(p.goal, c) \/ ~IsPrefix(p.requested, c)
Aims == \A e \in End : OnlySession(e) => AimsAt(peer[e], chain[Here(e)])

LEMMA AimsTurn ==
  ASSUME TypeOK, Handshakes, Descending, Late, NEW e \in End, OnlySession(e), AimsAt(peer[e], chain[Here(e)]),
         NEW p \in PeerObjects, NEW out \in Seq(Messages), Turns(e, p, out)
  PROVE  AimsAt(p, chain'[Here(e)])
<1> DEFINE n == Here(e)
           b == Word(e).arg
<1>1. n \in Node /\ peer[e] \in PeerObjects /\ chain \in [Node -> Chains] /\ chain[n] \in Chains
  BY EndFacts DEF TypeOK
<1>2. peer[e].requested \in Seq(Names) /\ peer[e].goal \in Seq(Names) /\ chain[n] \in Seq(Names)
  BY <1>1, PeerFields, BlockFacts
<1> HIDE DEF n
<1>3. CASE SameDownload(p, peer[e]) /\ chain' = chain
  BY <1>3 DEF SameDownload, AimsAt
<1>4. CASE p.requested = NoBlock
  BY <1>4 DEF AimsAt
<1>5. CASE Closes(e, p, out)
  BY <1>4, <1>5 DEF Closes, GonePeer, NoPeer
<1>6. CASE Hears(e, p, out)
  <2> DEFINE r == [peer[e] EXCEPT !.pool = "handshaked"]
  <2>1. Live(e) /\ IsTop(Word(e)) /\ p = TopReceived(r, n, b) /\ chain' = chain
    BY <1>6 DEF Hears, Still, n
  <2>2. b \in Chains
    BY <2>1, WordFacts DEF IsTop, BlockTypes
  <2>3. peer[e].requested = NoBlock
    BY <1>6, HearShakes DEF Fresh
  <2>4. r \in PeerObjects /\ r.requested = NoBlock
    BY <1>1, <2>3 DEF PeerObjects
  <2> HIDE DEF r
  <2>5. p.requested = NoBlock \/ (p.requested = b /\ ~FindBlock(n, b))
    BY <1>1, <2>1, <2>2, <2>4, TopFields DEF SameDownload
  <2> QED
    BY <2>1, <2>5 DEF AimsAt, FindBlock, n
<1>7. CASE GetsBlock(e, p, out)
  <2>1. Live(e) /\ b \in Chains
    BY <1>7, WordFacts DEF GetsBlock, BlockTypes
  <2>2. TookBlock(p, peer[e], n, b)
    BY <1>1, <1>7, <2>1, BlockFields DEF GetsBlock, n
  <2>3. chain' = chain \/ Applies(peer[e], n, b)
    BY <1>7 DEF GetsBlock, n
  <2>4. CASE Applies(peer[e], n, b)
    <3>1. Len(b) > 1 /\ peer[e].requested = b /\ FindBlock(n, Parent(b))
      BY <2>4 DEF Applies
    <3>2. Len(b) # 1
      BY <2>1, <3>1, NotFirst
    <3> QED
      BY <1>4, <2>2, <3>1, <3>2 DEF TookBlock
  <2>5. CASE chain' = chain
    BY <1>3, <1>4, <2>2, <2>5 DEF TookBlock, AimsAt, FindBlock, n
  <2> QED
    BY <2>3, <2>4, <2>5
<1>8. CASE GetsNew(e, p, out)
  <2>1. Live(e) /\ Word(e).type = "NewBlock" /\ b \in Chains /\ Word(e) \in ToSet(inbox[e])
    BY <1>8, WordFacts DEF GetsNew, BlockTypes
  <2>2. p.requested = peer[e].requested /\ p.goal = peer[e].goal
    BY <1>1, <1>8 DEF GetsNew, PeerObjects
  <2>3. chain'[n] = AddBlock(chain[n], b)
    BY <1>1, <1>8 DEF GetsNew, n
  <2>4. CASE ~Extends(chain[n], b)
    <3>1. chain'[n] = chain[n]
      BY <1>1, <2>1, <2>3, <2>4, AddBlockFacts
    <3> QED
      BY <2>2, <3>1 DEF AimsAt, n
  <2>5. CASE Extends(chain[n], b)
    <3> DEFINE x == peer[e].requested
               g == peer[e].goal
    <3>1. chain'[n] = b
      BY <1>1, <2>1, <2>3, <2>5, AddBlockFacts
    <3>2. b \in Seq(Names) /\ b # <<>> /\ IsPrefix(chain[n], b) /\ chain[n] = Parent(b) /\ Len(b) = Len(chain[n]) + 1
      BY <1>2, <2>1, <2>5, ExtendsFacts, BlockFacts DEF NoBlock
    <3>3. SUFFICES ASSUME x # NoBlock, IsPrefix(x, b) PROVE IsPrefix(g, b)
      BY <2>2, <3>1 DEF AimsAt, n
    <3>4. CASE IsPrefix(g, chain[n])
      BY <1>2, <3>2, <3>4, PrefixTransitive
    <3>5. CASE ~IsPrefix(x, chain[n])
      <4>1. x = b
        BY <1>2, <3>2, <3>3, <3>5, BeforeParent
      <4>2. IsPrefix(b, g)
        BY <3>3, <4>1 DEF Descending, Descends, Trail
      <4>3. ~IsPrefix(b, chain[n])
        BY <3>5, <4>1
      <4>4. ~IsStrictPrefix(b, g)
        BY <2>1, <4>3 DEF Late, NotBelow, n
      <4>5. g = b
        BY <4>2, <4>4 DEF IsStrictPrefix
      <4> QED
        BY <3>3, <4>1, <4>5
    <3> QED
      BY <3>3, <3>4, <3>5 DEF AimsAt, n
  <2> QED
    BY <2>4, <2>5 DEF n
<1> QED
  BY <1>3, <1>5, <1>6, <1>7, <1>8 DEF Turns, Starts, Refuses, Chats, Still

LEMMA AimsStep ==
  ASSUME TypeOK, Handshakes, Known, Descending, Owned, Late, Aims, Kinds
  PROVE  Aims'
<1> SUFFICES ASSUME NEW e \in End, OnlySession(e)' PROVE AimsAt(peer'[e], chain'[Here(e)])
  BY DEF Aims, AimsAt, Here
<1> DEFINE n == Here(e)
<1>1. OnlySession(e)
  BY OnlyBefore
<1>2. AimsAt(peer[e], chain[n])
  BY <1>1 DEF Aims
<1>3. CASE peer'[e] = peer[e] /\ chain'[n] = chain[n]
  BY <1>2, <1>3
<1>4. ASSUME NEW x \in End, NEW p \in PeerObjects, NEW out \in Seq(Messages), Turns(x, p, out)
      PROVE  AimsAt(peer'[e], chain'[n])
  <2>1. CASE x = e
    <3>1. peer'[e] = p
      BY <1>4, <2>1 DEF Turns, Starts, Closes, Hears, Refuses, Chats, GetsBlock, GetsNew, Turn
    <3> QED
      BY <1>1, <1>2, <1>4, <2>1, <3>1, AimsTurn
  <2>2. CASE x # e
    BY <1>1, <1>3, <1>4, <2>2, OnlyTurns
  <2> QED
    BY <2>1, <2>2
<1>5. ASSUME NEW k \in Node, Mined(k) PROVE AimsAt(peer'[e], chain'[n])
  <2> DEFINE c == chain[n]
             d == Append(c, n)
             x == peer[e].requested
             g == peer[e].goal
  <2>1. n \in Node /\ There(e) \in Node /\ chain \in [Node -> Chains] /\ peer[e] \in PeerObjects
    BY EndFacts DEF TypeOK
  <2>2. peer' = peer
    BY <1>5 DEF Mined
  <2>3. CASE k # n
    BY <1>3, <1>5, <2>1, <2>2, <2>3 DEF Mined
  <2>4. CASE k = n
    <3>1. c \in Seq(Names) /\ n \in Names /\ x \in Seq(Names) /\ g \in Seq(Names) /\ Len(c) \in Nat
      BY <2>1, BlockFacts, PeerFields, LenProperties
    <3>2. d \in Seq(Names) /\ d # <<>> /\ Len(d) = Len(c) + 1 /\ IsPrefix(c, d) /\ d[Len(c) + 1] = n
      BY <3>1, MinedFacts
    <3>3. chain'[n] = d
      BY <1>5, <2>1, <2>4 DEF Mined
    <3> HIDE DEF d
    <3>4. SUFFICES ASSUME x # NoBlock, IsPrefix(x, d) PROVE IsPrefix(g, d)
      BY <2>2, <3>3 DEF AimsAt
    <3>5. CASE IsPrefix(g, c)
      BY <3>1, <3>2, <3>5, PrefixTransitive
    <3>6. CASE ~IsPrefix(x, c)
      <4>1. Parent(d) \in Seq(Names) /\ Len(Parent(d)) = Len(c) /\ IsPrefix(Parent(d), d)
        BY <3>1, <3>2, ParentFacts
      <4>2. IsPrefix(Parent(d), c)
        BY <3>1, <3>2, <4>1, PrefixesNest
      <4>3. x = d
        <5>1. ASSUME x # d PROVE FALSE
          <6>1. IsPrefix(x, Parent(d))
            BY <3>1, <3>2, <3>4, <5>1, BeforeParent
          <6> QED
            BY <3>1, <3>6, <4>1, <4>2, <6>1, PrefixTransitive
        <5> QED
          BY <5>1
      <4>4. x \in Chains /\ IsPrefix(x, chain[There(e)]) /\ x[Len(x)] = n
        BY <3>1, <3>2, <3>4, <4>3 DEF Chains, Known, KnownPeer
      <4>5. IsPrefix(x, c)
        BY <2>1, <4>4 DEF Owned
      <4> QED
        BY <3>6, <4>5
    <3> QED
      BY <1>2, <3>4, <3>5, <3>6 DEF AimsAt
  <2> QED
    BY <2>3, <2>4
<1> QED
  BY <1>3, <1>4, <1>5 DEF Kinds, Typical, ATurn, Idle, Announced, Broken

\* A download from one source that ends has reached its goal.
LEMMA EndReaches ==
  ASSUME NEW b \in Chains, NEW g \in Chains, NEW bs \in Seq(Chains), NEW c \in Chains,
         Trail(b, g, bs), Len(b) > 1, IsPrefix(Parent(b), c), ~IsPrefix(b, c), IsPrefix(c, g)
  PROVE  IsPrefix(g, ApplySyncBlocks(c, Append(bs, b)))
<1> DEFINE u == Parent(b)
           t == Append(bs, b)
           k == Gap(u, g)
<1>1. b \in Seq(Names) /\ g \in Seq(Names) /\ c \in Seq(Names) /\ Len(b) \in Nat /\ Len(g) \in Nat /\ Len(c) \in Nat
  BY BlockFacts
<1>2. u \in Seq(Names) /\ Len(u) = Len(b) - 1 /\ IsPrefix(u, b)
  BY ParentIsBlock, BlockFacts
<1>3. IsPrefix(b, g)
  BY DEF Trail
<1>4. Len(c) < Len(b)
  <2>1. ~(Len(b) <= Len(c))
    BY <1>1, <1>3, PrefixesNest
  <2> QED
    BY <1>1, <2>1
<1>5. c = u
  <2>1. Len(u) >= Len(c)
    BY <1>1, <1>2, <1>4
  <2> QED
    BY <1>1, <1>2, <2>1, PrefixLength
<1>6. t \in Seq(Chains) /\ Len(t) \in Nat
  BY AppendProperties, LenProperties
<1>7. Trail(u, g, t)
  BY <1>1, TrailFurther
<1> HIDE DEF t, u
<1>8. k = Len(g) - Len(u) /\ k <= Len(t) /\ \A i \in 1..k : t[Len(t) - k + i] = SubSeq(g, 1, Len(g) - i + 1)
  BY <1>7 DEF Trail, Gap
<1>9. Len(b) <= Len(g)
  BY <1>1, <1>3, PrefixLength
<1> HIDE DEF k
<1>10. k \in 1..Len(t) /\ k < Len(g) /\ Len(g) - k = Len(u)
  BY <1>1, <1>2, <1>6, <1>8, <1>9
<1>11. IsPrefix(u, g)
  BY <1>1, <1>2, <1>3, PrefixTransitive
<1>12. u = SubSeq(g, 1, Len(u))
  BY <1>1, <1>2, <1>11, PrefixIsFirst
<1>13. IsPrefix(g, ApplySyncBlocks(SubSeq(g, 1, Len(g) - k), t))
  BY <1>6, <1>8, <1>10, ApplyReachesGoal
<1> QED
  BY <1>5, <1>10, <1>12, <1>13 DEF t

\* With the chain c: p is at the end of a download, below its goal.
StopsBelow(p, c) ==
  p.goal # NoBlock /\ p.requested = NoBlock /\ p.status \in {"open", "ending"} /\ IsStrictPrefix(c, p.goal)

LEMMA DeliversTurn ==
  ASSUME TypeOK, Handshakes, Descending, ChainGrows, NEW e \in End, AimsAt(peer[e], chain[Here(e)]),
         ~StopsBelow(peer[e], chain[Here(e)]),
         NEW p \in PeerObjects, NEW out \in Seq(Messages), Turns(e, p, out)
  PROVE  ~StopsBelow(p, chain'[Here(e)])
<1> DEFINE n == Here(e)
           b == Word(e).arg
           c == chain[n]
           d == chain'[n]
           g == peer[e].goal
<1>1. n \in Node /\ peer[e] \in PeerObjects /\ chain \in [Node -> Chains] /\ c \in Chains
  BY EndFacts DEF TypeOK
<1>2. c \in Seq(Names) /\ d \in Seq(Names) /\ IsPrefix(c, d) /\ g \in Seq(Names)
  BY <1>1, BlockFacts, PeerFields DEF ChainGrows
<1> HIDE DEF n, c, d, g
<1>3. SUFFICES ASSUME StopsBelow(p, d) PROVE FALSE
  BY DEF d, n
<1>4. p.goal # NoBlock /\ p.requested = NoBlock /\ p.status \in {"open", "ending"} /\ IsStrictPrefix(d, p.goal)
  BY <1>3 DEF StopsBelow
<1>5. ASSUME SameDownload(p, peer[e]), Live(e) PROVE FALSE
  <2>1. IsStrictPrefix(c, g)
    BY <1>2, <1>4, <1>5, StrictGrow DEF SameDownload, g
  <2> QED
    BY <1>4, <1>5, <2>1 DEF SameDownload, Live, StopsBelow, c, n, g
<1>6. CASE Starts(e, p, out)
  <2>1. peer[e] = NoPeer
    BY <1>6 DEF Starts, Handshakes, Shakes
  <2> QED
    BY <1>4, <1>6, <2>1 DEF Starts, SameDownload, NoPeer
<1>7. CASE Closes(e, p, out)
  BY <1>4, <1>7 DEF Closes, GonePeer, NoPeer
<1>8. CASE Refuses(e, p, out) \/ Chats(e, p, out)
  BY <1>5, <1>8 DEF Refuses, Chats
<1>9. CASE Hears(e, p, out)
  <2> DEFINE r == [peer[e] EXCEPT !.pool = "handshaked"]
  <2>1. Live(e) /\ IsTop(Word(e)) /\ p = TopReceived(r, n, b)
    BY <1>9 DEF Hears, n
  <2>2. b \in Chains
    BY <2>1, WordFacts DEF IsTop, BlockTypes
  <2>3. peer[e].requested = NoBlock /\ peer[e].goal = NoBlock
    BY <1>9, HearShakes DEF Fresh
  <2>4. r \in PeerObjects /\ r.requested = NoBlock /\ r.goal = NoBlock
    BY <1>1, <2>3 DEF PeerObjects
  <2> HIDE DEF r
  <2>5. p.goal = NoBlock \/ p.requested = b
    BY <1>1, <2>1, <2>2, <2>4, TopFields DEF SameDownload
  <2> QED
    BY <1>4, <2>2, <2>5, BlockFacts
<1>10. CASE GetsNew(e, p, out)
  <2>1. Live(e) /\ p.requested = peer[e].requested /\ p.goal = g
    BY <1>1, <1>10 DEF GetsNew, PeerObjects, g
  <2>2. IsStrictPrefix(c, g)
    BY <1>2, <1>4, <2>1, StrictGrow
  <2> QED
    BY <1>4, <2>1, <2>2 DEF Live, StopsBelow, c, n, g
<1>11. CASE GetsBlock(e, p, out)
  <2>1. Live(e) /\ b \in Chains
    BY <1>11, WordFacts DEF GetsBlock, BlockTypes
  <2>2. TookBlock(p, peer[e], n, b)
    BY <1>1, <1>11, <2>1, BlockFields DEF GetsBlock, n
  <2>3. CASE peer[e].requested # b
    BY <1>5, <2>1, <2>2, <2>3 DEF TookBlock
  <2>4. CASE peer[e].requested = b
    <3>1. p.goal = g
      BY <2>2, <2>4 DEF TookBlock, g
    <3>2. Trail(b, g, peer[e].blocks) /\ b # NoBlock /\ b \in Seq(Names) /\ Len(b) \in Nat /\ Len(b) >= 1
      BY <2>1, <2>4, BlockFacts DEF Descending, Descends, g
    <3>3. g \in Chains /\ peer[e].blocks \in Seq(Chains)
      BY <1>1, <1>4, <3>1, PeerFields DEF g
    <3>4. IsPrefix(d, g) /\ d # g /\ IsPrefix(b, g)
      BY <1>4, <3>1, <3>2 DEF IsStrictPrefix, Trail
    <3>5. ~IsPrefix(g, d)
      BY <1>2, <1>4, <3>1, NotStrictlyBelow
    <3>6. IsPrefix(c, g)
      BY <1>2, <3>4, PrefixTransitive
    <3>7. ~IsPrefix(g, c)
      BY <1>2, <3>5, PrefixTransitive
    <3>8. ~IsPrefix(b, c)
      BY <2>4, <3>2, <3>7 DEF AimsAt, c, n, g
    <3>9. CASE Len(b) = 1
      <4>1. Len(b) <= Len(c)
        BY <1>1, <3>9, BlockFacts
      <4> QED
        BY <1>2, <3>2, <3>4, <3>6, <3>8, <4>1, PrefixesNest
    <3>10. CASE Len(b) # 1 /\ FindBlock(n, Parent(b))
      <4>1. Len(b) > 1
        BY <2>1, <3>10, NotFirst
      <4>2. Applies(peer[e], n, b)
        BY <2>4, <3>10, <4>1 DEF Applies
      <4>3. d = ApplySyncBlocks(c, Append(peer[e].blocks, b))
        BY <1>1, <1>11, <4>2 DEF GetsBlock, n, c, d
      <4>4. IsPrefix(Parent(b), c)
        BY <3>10 DEF FindBlock, c
      <4>5. IsPrefix(g, d)
        BY <1>1, <2>1, <3>2, <3>3, <3>6, <3>8, <4>1, <4>3, <4>4, EndReaches
      <4> QED
        BY <3>5, <4>5
    <3>11. CASE Len(b) # 1 /\ ~FindBlock(n, Parent(b))
      <4>1. Len(b) > 1
        BY <2>1, <3>11, NotFirst
      <4>2. Parent(b) # NoBlock
        BY <2>1, <4>1, ParentIsBlock
      <4> QED
        BY <1>4, <2>2, <2>4, <3>11, <4>2 DEF TookBlock
    <3> QED
      BY <3>9, <3>10, <3>11
  <2> QED
    BY <2>3, <2>4
<1> QED
  BY <1>6, <1>7, <1>8, <1>9, <1>10, <1>11 DEF Turns

LEMMA DeliversStep ==
  ASSUME TypeOK, Handshakes, Descending, Aims, OneSourceDelivers, Kinds
  PROVE  OneSourceDelivers'
<1> SUFFICES ASSUME NEW e \in End, OnlySession(e)' PROVE ~StopsBelow(peer'[e], chain'[Here(e)])
  BY DEF OneSourceDelivers, EndsBelowGoal, StopsBelow, Behind, Asked, Here
<1> DEFINE n == Here(e)
<1>1. OnlySession(e)
  BY OnlyBefore
<1>2. AimsAt(peer[e], chain[n]) /\ ~StopsBelow(peer[e], chain[n])
  BY <1>1 DEF Aims, OneSourceDelivers, EndsBelowGoal, StopsBelow, Behind, Asked
<1>3. ChainGrows
  BY ChainsStep
<1>4. CASE peer'[e] = peer[e]
  <2>1. n \in Node /\ peer[e] \in PeerObjects
    BY EndFacts DEF TypeOK
  <2>2. chain[n] \in Seq(Names) /\ chain'[n] \in Seq(Names) /\ IsPrefix(chain[n], chain'[n]) /\ peer[e].goal \in Seq(Names)
    BY <1>3, <2>1, PeerFields DEF ChainGrows, TypeOK, Chains
  <2>3. IsStrictPrefix(chain'[n], peer[e].goal) => IsStrictPrefix(chain[n], peer[e].goal)
    BY <2>2, StrictGrow
  <2> QED
    BY <1>2, <1>4, <2>3 DEF StopsBelow
<1>5. ASSUME NEW x \in End, NEW p \in PeerObjects, NEW out \in Seq(Messages), Turns(x, p, out)
      PROVE  ~StopsBelow(peer'[e], chain'[n])
  <2>1. peer'[x] = p /\ (x # e => peer'[e] = peer[e])
    BY <1>5 DEF Turns, Starts, Closes, Hears, Refuses, Chats, GetsBlock, GetsNew, Turn
  <2>2. CASE x = e
    BY <1>2, <1>3, <1>5, <2>1, <2>2, DeliversTurn
  <2> QED
    BY <1>4, <2>1, <2>2
<1> QED
  BY <1>4, <1>5 DEF Kinds, Typical, ATurn, Idle, Mined, Announced, Broken

\* OneSourceDelivers always holds, for every number of nodes, whatever they mine: as long
\* as two nodes talk only to each other, a download that ends has reached its goal.
THEOREM OneSourceReaches == Spec => []OneSourceDelivers
<1> DEFINE Inv == /\ TypeOK /\ Handshakes /\ Known /\ Descending /\ Owned
                  /\ Newest /\ Late /\ Aims /\ OneSourceDelivers
<1>1. Init => Inv
  <2> SUFFICES ASSUME Init PROVE Inv
    OBVIOUS
  <2>1. /\ mined = [n \in Node |-> NoBlock]
        /\ \A e \in End : peer[e] = NoPeer /\ inbox[e] = <<>>
    BY DEF Init
  <2>2. NoPeer.requested = NoBlock /\ NoPeer.goal = NoBlock /\ ToSet(<<>>) = {}
    BY DEF NoPeer, ToSet
  <2>3. Descending /\ Late /\ Aims /\ OneSourceDelivers
    BY <2>1, <2>2 DEF Descending, Descends, Late, Aims, AimsAt, OneSourceDelivers, EndsBelowGoal
  <2>4. Newest
    BY <2>1, EndFacts DEF Newest, IsNewest
  <2> QED
    BY <2>3, <2>4, TypeInit, HandshakesInit, KnownInit, OwnedInit
<1>2. Inv /\ [Next]_vars => Inv'
  <2> SUFFICES ASSUME Inv, [Next]_vars PROVE Inv'
    OBVIOUS
  <2>1. Kinds
    BY StepKinds
  <2>2. TypeOK' /\ Handshakes' /\ Known' /\ Descending' /\ Owned'
    BY <2>1, TypeStep, HandshakesStep, KnownStep, DescendingStep, OwnedStep
  <2>3. Newest' /\ Late' /\ Aims' /\ OneSourceDelivers'
    BY <2>1, NewestStep, LateStep, AimsStep, DeliversStep
  <2> QED
    BY <2>2, <2>3
<1>3. Inv => OneSourceDelivers
  OBVIOUS
<1> QED
  BY <1>1, <1>2, <1>3, PTL DEF Spec

\* A step never takes a block away from a chain: what a node has told its peers of, asked
\* for or announced, it keeps, although the handlers and the miner all write the chain.
THEOREM ChainsKeepBlocks == Spec => [][\A n \in Node : IsPrefix(chain[n], chain'[n])]_vars
<1>1. TypeOK /\ [Next]_vars => [\A n \in Node : IsPrefix(chain[n], chain'[n])]_vars
  BY StepKinds, ChainsStep DEF ChainGrows
<1> QED
  BY <1>1, PeersTyped, PTL DEF Spec
=============================================================================
