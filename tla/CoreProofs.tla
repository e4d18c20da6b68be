----------------------------- MODULE CoreProofs -----------------------------
(***************************************************************************)
(* Proofs about Core, for any number of clients, transactions, submissions *)
(* and blocks, any selection of transactions and any interleaving.         *)
(***************************************************************************)
EXTENDS Core, CommonFacts

-----------------------------------------------------------------------------
(* The inductive invariant *)

Account == {From[t] : t \in Tx} \cup {To[t] : t \in Tx}
             \cup {CoinbaseOf[th] : th \in Adder} \cup DOMAIN InitialBalance
Balances == UNION {[S -> Nat] : S \in SUBSET Account}
Job == [parent : Nat, txs : Seq(Tx)]
StoredBlock == [txs : Seq(Tx), coinbase : {CoinbaseOf[th] : th \in Adder}]
Applying == {"remove", "apply"}

CoreTypes ==
  /\ chain \in Seq(StoredBlock) /\ pending \in Seq(Tx) /\ IsInjective(pending)
  /\ accounts \in Balances /\ outputs \in [Tx -> Codes]
  /\ job \in Job /\ block \in [Thread -> Job] /\ index \in [Adder -> Nat]
  /\ pc \in [Thread -> Steps] /\ tx \in [Client -> Tx \cup {NoTx}] /\ accepted \subseteq Tx
  /\ \A c \in Client : pc[c] \notin {"idle", "dead"} => tx[c] \in Tx

\* _blockchain_mutex is held from the extension of the chain to the last transaction.
LockIsHeld ==
  /\ chainLock \in Adder \cup {"free"}
  /\ \A th \in Adder : pc[th] \in Applying <=> chainLock = th

\* None of the first k transactions of a block raises.
NoneRaises(s, b, k) == \A n \in 1..k : ~RaisesAt(s, b, n)

\* The thread that holds it executes the last block, and has executed the transactions
\* below its index, none of which raised.
TopIsExecuted ==
  \A th \in Adder : pc[th] \in Applying =>
    \E c \in Seq(StoredBlock), b \in StoredBlock :
      /\ chain = Append(c, b) /\ b.txs = block[th].txs /\ b.coinbase = CoinbaseOf[th]
      /\ pc[th] = "remove" => accounts = ExecutedChain(c)
      /\ pc[th] = "apply" => /\ index[th] \in 1..(Len(b.txs) + 1)
                             /\ accounts = Executed(ExecutedChain(c), b, index[th] - 1)
                             /\ NoneRaises(ExecutedChain(c), b, index[th] - 1)

Execution == LockIsHeld /\ TopIsExecuted /\ BalancesFollowChain
CoreInv == CoreTypes /\ Execution /\ AcceptedIsKept

-----------------------------------------------------------------------------
(* Balances *)

\* Balances are functions.
LEMMA BalancesAreFunctions ==
  ASSUME NEW s \in Balances
  PROVE  /\ DOMAIN s \subseteq Account /\ s \in [DOMAIN s -> Nat]
         /\ \A a : BalanceOf(s, a) \in Nat
<1>1. PICK S \in SUBSET Account : s \in [S -> Nat]
  BY DEF Balances
<1> QED
  BY <1>1 DEF BalanceOf

\* addBalance and subBalance change one account.
LEMMA CreditBalances ==
  ASSUME NEW s \in Balances, NEW a \in Account, NEW n \in Int, BalanceOf(s, a) + n >= 0
  PROVE  /\ Credit(s, a, n) \in Balances
         /\ \A x : BalanceOf(Credit(s, a, n), x) = IF x = a THEN BalanceOf(s, a) + n ELSE BalanceOf(s, x)
<1> DEFINE S == DOMAIN s \cup {a}
           c == Credit(s, a, n)
<1>1. s \in [DOMAIN s -> Nat] /\ S \in SUBSET Account /\ BalanceOf(s, a) + n \in Nat
  BY BalancesAreFunctions
<1>2. c = [x \in S |-> IF x = a THEN BalanceOf(s, a) + n ELSE s[x]]
  BY DEF Credit
<1>3. c \in [S -> Nat]
  BY <1>1, <1>2
<1>4. ASSUME NEW x PROVE BalanceOf(c, x) = IF x = a THEN BalanceOf(s, a) + n ELSE BalanceOf(s, x)
  BY <1>2 DEF BalanceOf
<1> QED
  BY <1>1, <1>3, <1>4 DEF Balances

\* A transfer leaves balances behind that are not negative.
LEMMA PerformedBalances ==
  ASSUME NEW s \in Balances, NEW t \in Tx, NEW coinbase \in Account
  PROVE  Performed(s, t, coinbase) \in Balances
<1>0. /\ From[t] \in Account /\ To[t] \in Account /\ Amount[t] \in Nat /\ Fee[t] \in Nat
      /\ Cost(t) \in Nat
  BY CoreAssumption DEF Account, Cost
<1>1. \A r \in Balances : \A x : BalanceOf(r, x) \in Nat
  BY BalancesAreFunctions
<1>2. CASE BalanceOf(s, From[t]) >= Cost(t)
  <2> DEFINE r == Credit(s, From[t], -Cost(t))
             q == Credit(r, To[t], Amount[t])
  <2>1. -Cost(t) \in Int /\ BalanceOf(s, From[t]) + (-Cost(t)) >= 0
    BY <1>0, <1>1, <1>2
  <2>2. r \in Balances
    BY <1>0, <2>1, CreditBalances
  <2> HIDE DEF r
  <2>3. BalanceOf(r, To[t]) + Amount[t] >= 0
    BY <1>0, <1>1, <2>2
  <2>4. q \in Balances
    BY <1>0, <2>2, <2>3, CreditBalances
  <2> HIDE DEF q
  <2>5. BalanceOf(q, coinbase) + Fee[t] >= 0
    BY <1>0, <1>1, <2>4
  <2>6. Credit(q, coinbase, Fee[t]) \in Balances
    BY <1>0, <2>4, <2>5, CreditBalances
  <2> QED
    BY <1>2, <2>6 DEF r, q, Performed
<1>3. CASE ~(BalanceOf(s, From[t]) >= Cost(t))
  <2> DEFINE r == Credit(s, From[t], 0)
  <2>1. BalanceOf(s, From[t]) + 0 >= 0
    BY <1>1
  <2>2. r \in Balances
    BY <1>0, <2>1, CreditBalances
  <2> HIDE DEF r
  <2>3. BalanceOf(r, To[t]) + 0 >= 0
    BY <1>1, <2>2
  <2>4. Credit(r, To[t], 0) \in Balances
    BY <1>0, <2>2, <2>3, CreditBalances
  <2> QED
    BY <1>3, <2>4 DEF r, Performed
<1> QED
  BY <1>2, <1>3

\* The emission.
LEMMA EmissionBalances ==
  ASSUME NEW s \in Balances, NEW a \in Account
  PROVE  Credit(s, a, EmissionValue) \in Balances
<1>1. EmissionValue \in Nat /\ BalanceOf(s, a) \in Nat
  BY CoreAssumption, BalancesAreFunctions
<1>2. EmissionValue \in Int /\ BalanceOf(s, a) + EmissionValue >= 0
  BY <1>1
<1> QED
  BY <1>2, CreditBalances

\* The execution of a block, transaction by transaction.
LEMMA ExecutedSteps ==
  ASSUME NEW s \in Balances, NEW b \in StoredBlock
  PROVE  /\ Executed(s, b, 0) = Credit(s, b.coinbase, EmissionValue)
         /\ \A k \in 0..Len(b.txs) : Executed(s, b, k) \in Balances
         /\ \A k \in 1..Len(b.txs) : Executed(s, b, k) = Performed(Executed(s, b, k - 1), b.txs[k], b.coinbase)
<1> DEFINE N == Len(b.txs)
           base == Credit(s, b.coinbase, EmissionValue)
           Step(g) == [n \in 0..N |-> IF n = 0 THEN base ELSE Performed(g[n - 1], b.txs[n], b.coinbase)]
           done == CHOOSE g : g = Step(g)
           step == [k \in 1..N |-> [x \in Balances |-> Performed(x, b.txs[k], b.coinbase)]]
<1>0. b.txs \in Seq(Tx) /\ b.coinbase \in Account
  BY DEF StoredBlock, Account
<1>1. N \in Nat /\ \A k \in 1..N : b.txs[k] \in Tx
  BY <1>0, LenProperties, ElementOfSeq
<1>2. base \in Balances
  BY <1>0, EmissionBalances
<1>3. step \in [1..N -> [Balances -> Balances]]
  BY <1>0, <1>1, PerformedBalances
<1>4. \A x \in Balances, k \in 1..N : step[k][x] = Performed(x, b.txs[k], b.coinbase)
  OBVIOUS
<1> HIDE DEF step, base, N
<1>5. PICK g : IsRun(g, N, Balances, base, step)
  BY <1>1, <1>2, <1>3, Iterates
<1>6. g \in [0..N -> Balances] /\ g[0] = base /\ \A i \in 1..N : g[i] = Performed(g[i - 1], b.txs[i], b.coinbase)
  BY <1>1, <1>4, <1>5 DEF IsRun
<1>7. g = Step(g)
  BY <1>1, <1>6
<1>8. done = Step(done)
  <2> HIDE DEF Step
  <2> QED
    BY <1>7
<1> HIDE DEF done
<1>9. done[0] = base /\ \A i \in 1..N : done[i] = Performed(done[i - 1], b.txs[i], b.coinbase)
  BY <1>1, <1>8
<1> DEFINE X == {n \in 0..N : done[n] \in Balances}
<1>10. 0..N \subseteq X
  <2>1. 0 \in X
    BY <1>1, <1>2, <1>9
  <2>2. ASSUME NEW i \in 0..(N - 1), i \in X PROVE i + 1 \in X
    <3>1. i + 1 \in 1..N /\ (i + 1) - 1 = i /\ done[i] \in Balances
      BY <1>1, <2>2
    <3>2. done[i + 1] = Performed(done[i], b.txs[i + 1], b.coinbase)
      BY <1>9, <3>1
    <3>3. done[i + 1] \in Balances
      BY <1>0, <1>1, <3>1, <3>2, PerformedBalances
    <3> QED
      BY <3>1, <3>3
  <2> HIDE DEF X
  <2> QED
    BY <1>1, <2>1, <2>2, SetInduction
<1>11. \A k : Executed(s, b, k) = done[k]
  BY DEF Executed, done, N, base
<1> QED
  BY <1>1, <1>9, <1>10, <1>11 DEF N, base

\* A block ends at one of its transactions.
LEMMA BlockEnds ==
  ASSUME NEW s \in Balances, NEW b \in StoredBlock
  PROVE  /\ \E k \in 0..Len(b.txs) : EndsAt(s, b, k)
         /\ \A k \in 0..Len(b.txs) : EndsAt(s, b, k) => ExecutedBlock(s, b) = Executed(s, b, k)
         /\ ExecutedBlock(s, b) \in Balances
<1> DEFINE N == Len(b.txs)
           R == {n \in 1..N : RaisesAt(s, b, n)}
           end == CHOOSE k \in 0..N : EndsAt(s, b, k)
<1>1. N \in Nat
  BY LenProperties DEF StoredBlock
<1>2. \E k \in 0..N : EndsAt(s, b, k)
  <2>1. CASE R = {}
    <3>1. N \in 0..N /\ \A n \in 1..(N - 1) : n \in 1..N
      BY <1>1
    <3> QED
      BY <2>1, <3>1 DEF EndsAt
  <2>2. CASE R # {}
    <3>1. R \in SUBSET Nat
      BY <1>1
    <3>2. PICK m \in R : \A k \in R : m <= k
      BY <2>2, <3>1, LeastNumber
    <3>3. m \in 1..N /\ m \in 0..N /\ m > 0 /\ RaisesAt(s, b, m)
      BY <1>1, <3>2
    <3>4. ASSUME NEW n \in 1..(m - 1) PROVE ~RaisesAt(s, b, n)
      <4>1. n \in 1..N /\ ~(m <= n)
        BY <1>1, <3>3
      <4> QED
        BY <3>2, <4>1
    <3> QED
      BY <3>3, <3>4 DEF EndsAt
  <2> QED
    BY <2>1, <2>2
<1> HIDE DEF N, R
<1>3. ASSUME NEW j \in 0..N, NEW k \in 0..N, EndsAt(s, b, j), EndsAt(s, b, k), j < k PROVE FALSE
  <2>1. j \in 1..(k - 1) /\ RaisesAt(s, b, j)
    BY <1>1, <1>3 DEF EndsAt, N
  <2> QED
    BY <1>3, <2>1 DEF EndsAt
<1>4. \A j, k \in 0..N : EndsAt(s, b, j) /\ EndsAt(s, b, k) => j = k
  <2> SUFFICES ASSUME NEW j \in 0..N, NEW k \in 0..N, EndsAt(s, b, j), EndsAt(s, b, k) PROVE j = k
    OBVIOUS
  <2>1. j < k \/ k < j \/ j = k
    BY <1>1
  <2> QED
    BY <1>3, <2>1
<1>5. end \in 0..N /\ EndsAt(s, b, end)
  BY <1>2
<1>6. ExecutedBlock(s, b) = Executed(s, b, end)
  BY DEF ExecutedBlock, N
<1> HIDE DEF end
<1>7. \A k \in 0..N : Executed(s, b, k) \in Balances
  BY ExecutedSteps DEF N
<1>8. \A k \in 0..N : EndsAt(s, b, k) => k = end
  BY <1>4, <1>5
<1> QED
  BY <1>2, <1>5, <1>6, <1>7, <1>8 DEF N

\* The balances in between the blocks of a chain.
LEMMA ChainSteps ==
  ASSUME NEW c \in Seq(StoredBlock)
  PROVE  \E g \in [0..Len(c) -> Balances] :
           /\ g[0] = InitialBalance /\ ExecutedChain(c) = g[Len(c)]
           /\ \A i \in 1..Len(c) : g[i] = ExecutedBlock(g[i - 1], c[i])
<1> DEFINE N == Len(c)
           All(s, b) == ExecutedBlock(s, b)
           Step(g) == [n \in 0..N |-> IF n = 0 THEN InitialBalance ELSE ExecutedBlock(g[n - 1], c[n])]
           done == CHOOSE g : g = Step(g)
           step == [k \in 1..N |-> [x \in Balances |-> All(x, c[k])]]
<1>1. N \in Nat /\ \A k \in 1..N : c[k] \in StoredBlock
  BY LenProperties, ElementOfSeq
<1>2. InitialBalance \in Balances
  BY CoreAssumption DEF Balances, Account
<1>3. ASSUME NEW s \in Balances, NEW b \in StoredBlock PROVE All(s, b) \in Balances
  BY BlockEnds
<1> HIDE DEF All
<1>4. step \in [1..N -> [Balances -> Balances]]
  BY <1>1, <1>3
<1>5. \A x \in Balances, k \in 1..N : step[k][x] = All(x, c[k])
  OBVIOUS
<1> HIDE DEF step, N
<1>6. PICK g : IsRun(g, N, Balances, InitialBalance, step)
  BY <1>1, <1>2, <1>4, Iterates
<1>7. g \in [0..N -> Balances] /\ g[0] = InitialBalance /\ \A i \in 1..N : g[i] = All(g[i - 1], c[i])
  BY <1>1, <1>5, <1>6 DEF IsRun
<1>8. g = Step(g)
  BY <1>1, <1>7 DEF All
<1>9. done = Step(done)
  <2> HIDE DEF Step
  <2> QED
    BY <1>8
<1> HIDE DEF done
<1> DEFINE X == {n \in 0..N : done[n] = g[n]}
<1>10. 0..N \subseteq X
  <2>1. 0 \in X
    BY <1>1, <1>7, <1>9
  <2>2. ASSUME NEW i \in 0..(N - 1), i \in X PROVE i + 1 \in X
    <3>1. i + 1 \in 1..N /\ (i + 1) - 1 = i /\ done[i] = g[i] /\ i + 1 # 0
      BY <1>1, <2>2
    <3>2. done[i + 1] = All(done[i], c[i + 1])
      BY <1>1, <1>9, <3>1 DEF All
    <3>3. g[i + 1] = All(g[i], c[i + 1])
      BY <1>7, <3>1
    <3> QED
      BY <3>1, <3>2, <3>3
  <2> HIDE DEF X
  <2> QED
    BY <1>1, <2>1, <2>2, SetInduction
<1>11. ExecutedChain(c) = done[N]
  BY DEF ExecutedChain, done, N
<1>12. ExecutedChain(c) = g[N]
  BY <1>1, <1>10, <1>11
<1> QED
  BY <1>7, <1>12 DEF N, All

\* The execution of a chain, block by block.
LEMMA ExecutedChainSteps ==
  /\ ExecutedChain(<<>>) = InitialBalance
  /\ \A c \in Seq(StoredBlock) : ExecutedChain(c) \in Balances
  /\ \A c \in Seq(StoredBlock), b \in StoredBlock :
       ExecutedChain(Append(c, b)) = ExecutedBlock(ExecutedChain(c), b)
<1>1. ExecutedChain(<<>>) = InitialBalance
  <2>1. <<>> \in Seq(StoredBlock) /\ Len(<<>>) = 0
    BY EmptySeq
  <2> QED
    BY <2>1, ChainSteps
<1>2. ASSUME NEW c \in Seq(StoredBlock) PROVE ExecutedChain(c) \in Balances
  <2>1. Len(c) \in 0..Len(c)
    BY LenProperties
  <2> QED
    BY <2>1, ChainSteps
<1>3. ASSUME NEW c \in Seq(StoredBlock), NEW b \in StoredBlock
      PROVE  ExecutedChain(Append(c, b)) = ExecutedBlock(ExecutedChain(c), b)
  <2> DEFINE d == Append(c, b)
             N == Len(c)
             All(s, x) == ExecutedBlock(s, x)
  <2>1. /\ d \in Seq(StoredBlock) /\ N \in Nat /\ Len(d) = N + 1 /\ d[N + 1] = b
        /\ \A i \in 1..N : d[i] = c[i]
    BY AppendProperties, LenProperties
  <2>2. PICK g : /\ g[0] = InitialBalance /\ ExecutedChain(c) = g[N]
                 /\ \A i \in 1..N : g[i] = All(g[i - 1], c[i])
    BY ChainSteps
  <2>3. PICK h : /\ h[0] = InitialBalance /\ ExecutedChain(d) = h[Len(d)]
                 /\ \A i \in 1..Len(d) : h[i] = All(h[i - 1], d[i])
    BY <2>1, ChainSteps
  <2> HIDE DEF All, d, N
  <2> DEFINE X == {n \in 0..N : g[n] = h[n]}
  <2>4. 0..N \subseteq X
    <3>1. 0 \in X
      BY <2>1, <2>2, <2>3
    <3>2. ASSUME NEW i \in 0..(N - 1), i \in X PROVE i + 1 \in X
      <4>1. i + 1 \in 1..N /\ i + 1 \in 1..Len(d) /\ (i + 1) - 1 = i /\ g[i] = h[i]
        BY <2>1, <3>2
      <4>2. g[i + 1] = All(g[i], c[i + 1]) /\ h[i + 1] = All(h[i], d[i + 1]) /\ d[i + 1] = c[i + 1]
        BY <2>1, <2>2, <2>3, <4>1
      <4> QED
        BY <4>1, <4>2
    <3> HIDE DEF X
    <3> QED
      BY <2>1, <3>1, <3>2, SetInduction
  <2>5. h[N] = g[N]
    BY <2>1, <2>4
  <2>6. N + 1 \in 1..Len(d) /\ (N + 1) - 1 = N
    BY <2>1
  <2>7. h[N + 1] = All(h[N], b)
    BY <2>1, <2>3, <2>6
  <2> QED
    BY <2>1, <2>2, <2>3, <2>5, <2>7 DEF All, d
<1> QED
  BY <1>1, <1>2, <1>3

-----------------------------------------------------------------------------
(* TransactionsSet *)

Distinct == {s \in Seq(Tx) : IsInjective(s)}

\* remove: the last transaction takes the place of the one removed, none is lost.
LEMMA RemoveTxAsSet ==
  ASSUME NEW txs \in Distinct, NEW t
  PROVE  RemoveTx(txs, t) \in Distinct /\ ToSet(RemoveTx(txs, t)) = ToSet(txs) \ {t}
<1>0. txs \in Seq(Tx) /\ IsInjective(txs)
  BY DEF Distinct
<1>1. CASE ~Find(txs, t)
  BY <1>1 DEF RemoveTx, Find
<1>2. CASE Find(txs, t)
  <2> DEFINE N == Len(txs)
             i == CHOOSE i \in DOMAIN txs : txs[i] = t
             u == [txs EXCEPT ![i] = txs[N]]
             r == SubSeq(u, 1, N - 1)
  <2>1. /\ N \in Nat /\ DOMAIN txs = 1..N /\ txs \in [1..N -> Tx]
        /\ \A j, k \in 1..N : txs[j] = txs[k] => j = k
        /\ \A e : e \in ToSet(txs) <=> \E j \in 1..N : txs[j] = e
    BY <1>0, SeqAsSet, LenProperties
  <2>2. i \in 1..N /\ txs[i] = t
    <3>1. PICK j \in 1..N : txs[j] = t
      BY <1>2, <2>1 DEF Find
    <3> QED
      BY <2>1, <3>1
  <2>3. RemoveTx(txs, t) = r
    <3>1. Len(u) = N
      BY <2>1, <2>2
    <3>2. RemoveTx(txs, t) = Front(u)
      BY <1>2 DEF RemoveTx, Last
    <3> QED
      BY <3>1, <3>2 DEF Front
  <2> HIDE DEF i
  <2>4. u \in Seq(Tx) /\ Len(u) = N /\ \A j \in 1..N : u[j] = IF j = i THEN txs[N] ELSE txs[j]
    <3>1. N \in 1..N /\ u \in [1..N -> Tx]
      BY <2>1, <2>2
    <3>2. u \in Seq(Tx)
      BY <2>1, <3>1, IsASeq
    <3> QED
      BY <2>1, <2>2, <3>1, <3>2
  <2> HIDE DEF u, N
  <2>5. r \in Seq(Tx) /\ Len(r) = N - 1 /\ \A j \in 1..(N - 1) : r[j] = u[j]
    <3>1. \A j \in 1..(N - 1) : u[j] \in Tx
      BY <2>1, <2>4, ElementOfSeq
    <3> QED
      BY <2>1, <2>2, <2>4, <3>1, SubSeqProperties
  <2> HIDE DEF r
  <2>6. \A j \in 1..(N - 1) : r[j] = IF j = i THEN txs[N] ELSE txs[j]
    BY <2>1, <2>4, <2>5
  <2>7. IsInjective(r)
    <3>1. \A j, k \in 1..(N - 1) : r[j] = r[k] => j = k
      BY <2>1, <2>2, <2>6
    <3> QED
      BY <2>5, <3>1, SeqAsSet
  <2>8. ASSUME NEW x \in ToSet(r) PROVE x \in ToSet(txs) \ {t}
    <3>1. PICK j \in 1..(N - 1) : r[j] = x
      BY <2>5, SeqAsSet
    <3>2. j \in 1..N /\ N \in 1..N /\ j # N
      BY <2>1, <3>1
    <3>3. x = IF j = i THEN txs[N] ELSE txs[j]
      BY <2>6, <3>1
    <3>4. x # t
      BY <2>1, <2>2, <3>2, <3>3
    <3> QED
      BY <2>1, <3>2, <3>3, <3>4
  <2>9. ASSUME NEW x \in ToSet(txs), x # t PROVE x \in ToSet(r)
    <3>1. PICK l \in 1..N : txs[l] = x
      BY <2>1
    <3>2. l # i
      BY <2>2, <2>9, <3>1
    <3>3. PICK j \in 1..(N - 1) : r[j] = x
      <4>1. CASE l = N
        <5>1. i \in 1..(N - 1)
          BY <2>1, <2>2, <3>2, <4>1
        <5> QED
          BY <2>6, <3>1, <4>1, <5>1
      <4>2. CASE l # N
        <5>1. l \in 1..(N - 1)
          BY <2>1, <4>2
        <5> QED
          BY <2>6, <3>1, <3>2, <5>1
      <4> QED
        BY <4>1, <4>2
    <3> QED
      BY <2>5, <3>3, SeqAsSet
  <2> QED
    BY <2>3, <2>5, <2>7, <2>8, <2>9 DEF Distinct
<1> QED
  BY <1>1, <1>2

\* Removing the transactions of a block keeps all others.
LEMMA RemoveAllAsSet ==
  ASSUME NEW txs \in Distinct, NEW others \in Seq(Tx)
  PROVE  RemoveAll(txs, others) \in Distinct /\ ToSet(RemoveAll(txs, others)) = ToSet(txs) \ ToSet(others)
<1> DEFINE N == Len(others)
           Step(g) == [n \in 0..N |-> IF n = 0 THEN txs ELSE RemoveTx(g[n - 1], others[n])]
           left == CHOOSE g : g = Step(g)
           step == [k \in 1..N |-> [x \in Distinct |-> RemoveTx(x, others[k])]]
<1>1. N \in Nat /\ \A e : e \in ToSet(others) <=> \E j \in 1..N : others[j] = e
  BY SeqAsSet
<1>2. step \in [1..N -> [Distinct -> Distinct]]
  BY RemoveTxAsSet
<1>3. \A x \in Distinct, k \in 1..N : step[k][x] = RemoveTx(x, others[k])
  OBVIOUS
<1> HIDE DEF step, N
<1>4. PICK g : IsRun(g, N, Distinct, txs, step)
  BY <1>1, <1>2, Iterates
<1>5. g \in [0..N -> Distinct] /\ g[0] = txs /\ \A i \in 1..N : g[i] = RemoveTx(g[i - 1], others[i])
  BY <1>1, <1>3, <1>4 DEF IsRun
<1>6. g = Step(g)
  BY <1>1, <1>5
<1>7. left = Step(left)
  <2> HIDE DEF Step
  <2> QED
    BY <1>6
<1> HIDE DEF left
<1> DEFINE X == {n \in 0..N : /\ left[n] \in Distinct
                             /\ ToSet(left[n]) = ToSet(txs) \ {others[j] : j \in 1..n}}
<1>8. 0..N \subseteq X
  <2>1. 0 \in X
    <3>1. left[0] = txs
      BY <1>1, <1>7
    <3>2. {others[j] : j \in 1..0} = {}
      OBVIOUS
    <3> QED
      BY <1>1, <3>1, <3>2
  <2>2. ASSUME NEW i \in 0..(N - 1), i \in X PROVE i + 1 \in X
    <3>1. i + 1 \in 1..N /\ (i + 1) - 1 = i /\ i + 1 # 0
      BY <1>1
    <3>2. left[i + 1] = RemoveTx(left[i], others[i + 1])
      BY <1>1, <1>7, <3>1
    <3>3. left[i] \in Distinct /\ ToSet(left[i]) = ToSet(txs) \ {others[j] : j \in 1..i}
      BY <2>2
    <3>4. left[i + 1] \in Distinct /\ ToSet(left[i + 1]) = ToSet(left[i]) \ {others[i + 1]}
      BY <3>2, <3>3, RemoveTxAsSet
    <3>5. {others[j] : j \in 1..(i + 1)} = {others[j] : j \in 1..i} \cup {others[i + 1]}
      <4>1. \A j : j \in 1..(i + 1) <=> j \in 1..i \/ j = i + 1
        BY <3>1
      <4> QED
        BY <4>1
    <3>6. ToSet(left[i + 1]) = ToSet(txs) \ {others[j] : j \in 1..(i + 1)}
      BY <3>3, <3>4, <3>5
    <3>7. i + 1 \in 0..N
      BY <3>1
    <3> QED
      BY <3>4, <3>6, <3>7
  <2> HIDE DEF X
  <2> QED
    BY <1>1, <2>1, <2>2, SetInduction
<1>9. RemoveAll(txs, others) = left[N]
  BY DEF RemoveAll, left, N
<1>10. N \in X
  <2> HIDE DEF X
  <2> QED
    BY <1>1, <1>8
<1>11. ToSet(others) = {others[j] : j \in 1..N}
  BY <1>1
<1> QED
  BY <1>9, <1>10, <1>11

\* addTransaction.
LEMMA AddTxAsSet ==
  ASSUME NEW txs \in Distinct, NEW t \in Tx
  PROVE  AddTx(txs, t) \in Distinct /\ ToSet(AddTx(txs, t)) = ToSet(txs) \cup {t}
<1>1. CASE Find(txs, t)
  BY <1>1 DEF AddTx, Find
<1>2. CASE ~Find(txs, t)
  BY <1>2, AppendAsSet DEF AddTx, Find, Distinct
<1> QED
  BY <1>1, <1>2

\* selectBestByFee gives transactions.
LEMMA SelectionsAreTxs ==
  ASSUME NEW txs \in Seq(Tx), NEW s \in Selections(txs)
  PROVE  s \in Seq(Tx)
<1>1. CASE s \in [1..MaxTxInBlock -> ToSet(txs)]
  <2>1. ToSet(txs) \subseteq Tx
    BY SeqAsSet
  <2>2. s \in [1..MaxTxInBlock -> Tx] /\ MaxTxInBlock \in Nat
    BY <1>1, <2>1, CoreAssumption
  <2> QED
    BY <2>2, IsASeq
<1> QED
  BY <1>1 DEF Selections

-----------------------------------------------------------------------------
(* Types *)

\* A worker without a job.
LEMMA NoJobIsJob == NoJob \in Job
BY EmptySeq DEF NoJob, Job

\* A client goes from one step to another, its transaction stays until it is idle.
LEMMA ClientTypes ==
  ASSUME CoreTypes, NEW c \in Client, NEW st \in Steps, Jump(c, st),
         tx' \in [Client -> Tx \cup {NoTx}], \A d \in Client \ {c} : tx'[d] = tx[d],
         st # "idle" => tx'[c] \in Tx,
         pending' \in Distinct, outputs' \in [Tx -> Codes], job' \in Job, block' \in [Thread -> Job],
         accepted' \subseteq Tx, UNCHANGED <<chain, accounts, index>>
  PROVE  CoreTypes'
<1>1. pc' = [pc EXCEPT ![c] = st] /\ c \in Thread
  BY DEF Jump, Thread
<1>2. pc' \in [Thread -> Steps] /\ pc'[c] = st /\ \A d \in Thread \ {c} : pc'[d] = pc[d]
  BY <1>1 DEF CoreTypes
<1>3. \A d \in Client : pc'[d] \notin {"idle", "dead"} => tx'[d] \in Tx
  BY <1>2 DEF CoreTypes, Thread
<1> QED
  BY <1>2, <1>3 DEF CoreTypes, Distinct

\* A thread that adds blocks goes from one step to another.
LEMMA AdderTypes ==
  ASSUME CoreTypes, NEW th \in Adder, NEW st \in Steps, Jump(th, st),
         chain' \in Seq(StoredBlock), pending' \in Distinct, accounts' \in Balances,
         job' \in Job, block' \in [Thread -> Job], index' \in [Adder -> Nat],
         UNCHANGED <<outputs, tx, accepted>>
  PROVE  CoreTypes'
<1>1. pc' = [pc EXCEPT ![th] = st] /\ th \in Thread /\ \A c \in Client : c \in Thread /\ c # th
  BY CoreAssumption DEF Jump, Thread
<1>2. pc' \in [Thread -> Steps] /\ \A c \in Client : pc'[c] = pc[c]
  BY <1>1 DEF CoreTypes
<1> QED
  BY <1>2 DEF CoreTypes, Distinct

\* An answer to a client.
LEMMA ReplyTypes ==
  ASSUME CoreTypes, NEW c \in Client, pc[c] \notin {"idle", "dead"}, NEW code \in Codes, Reply(c, code),
         UNCHANGED <<chain, pending, accounts, job, block, index, accepted>>
  PROVE  CoreTypes'
<1>1. tx[c] \in Tx
  BY DEF CoreTypes
<1>2. outputs' \in [Tx -> Codes]
  BY <1>1 DEF CoreTypes, Reply, Output
<1>3. tx' = [tx EXCEPT ![c] = NoTx] /\ Jump(c, "idle") /\ "idle" \in Steps
  BY DEF Reply, Steps
<1>4. tx' \in [Client -> Tx \cup {NoTx}] /\ \A d \in Client \ {c} : tx'[d] = tx[d]
  BY <1>3 DEF CoreTypes
<1>5. pending' \in Distinct /\ job' \in Job /\ block' \in [Thread -> Job] /\ accepted' \subseteq Tx
  BY DEF CoreTypes, Distinct
<1> QED
  BY <1>2, <1>3, <1>4, <1>5, ClientTypes

\* Every step keeps the types.
LEMMA TypesStep == CoreInv /\ [Next]_vars => CoreTypes'
<1> SUFFICES ASSUME CoreInv, [Next]_vars PROVE CoreTypes'
  OBVIOUS
<1>0. /\ CoreTypes /\ pending \in Distinct /\ job \in Job /\ block \in [Thread -> Job] /\ accepted \subseteq Tx
      /\ tx \in [Client -> Tx \cup {NoTx}] /\ outputs \in [Tx -> Codes] /\ chain \in Seq(StoredBlock)
      /\ accounts \in Balances /\ index \in [Adder -> Nat] /\ \A c \in Client : pc[c] \notin {"idle", "dead"} => tx[c] \in Tx
      /\ Client \subseteq Thread /\ Adder \subseteq Thread
  BY DEF CoreInv, CoreTypes, Distinct, Thread
<1>00. /\ {"idle", "chain", "pending", "balance", "check", "add", "mining", "post", "output", "found", "lock",
         "remove", "apply", "dead"} \subseteq Steps
       /\ {"Success", "Pending", "BadSign", "NotEnoughBalance"} \subseteq Codes
  BY DEF Steps, Codes
<1>1. ASSUME NEW c \in Client, NEW t \in Tx, Submit(c, t) PROVE CoreTypes'
  <2>1. /\ tx' = [tx EXCEPT ![c] = t] /\ Jump(c, "chain")
        /\ UNCHANGED <<chain, pending, accounts, outputs, job, block, index, accepted>>
    BY <1>1 DEF Submit, shared
  <2>2. tx' \in [Client -> Tx \cup {NoTx}] /\ tx'[c] \in Tx /\ \A d \in Client \ {c} : tx'[d] = tx[d]
    BY <1>0, <2>1
  <2>3. "chain" \in Steps
    BY <1>00
  <2> QED
    BY <1>0, <2>1, <2>2, <2>3, ClientTypes
<1>2. ASSUME NEW c \in Client, NEW t \in Tx, SubmitBadSign(c, t) PROVE CoreTypes'
  BY <1>0, <1>00, <1>2 DEF SubmitBadSign, Output, CoreTypes
<1>3. ASSUME NEW c \in Client, FindTransaction(c) PROVE CoreTypes'
  <2>0. pc[c] \notin {"idle", "dead"} /\ tx[c] \in Tx
    BY <1>0, <1>3 DEF FindTransaction
  <2>1. UNCHANGED <<chain, pending, accounts, outputs, job, block, index, accepted>>
    BY <1>3 DEF FindTransaction, shared
  <2>2. CASE Jump(c, "idle") /\ tx' = [tx EXCEPT ![c] = NoTx]
    <3>1. tx' \in [Client -> Tx \cup {NoTx}] /\ \A d \in Client \ {c} : tx'[d] = tx[d]
      BY <1>0, <2>2
    <3>2. "idle" \in Steps
      BY <1>00
    <3> QED
      BY <1>0, <2>1, <2>2, <3>1, <3>2, ClientTypes
  <2>3. CASE Jump(c, "pending") /\ tx' = tx
    <3>1. "pending" \in Steps
      BY <1>00
    <3> QED
      BY <1>0, <2>0, <2>1, <2>3, <3>1, ClientTypes
  <2> QED
    BY <1>3, <2>2, <2>3 DEF FindTransaction
<1>4. ASSUME NEW c \in Client, FindPending(c) \/ CheckPendingBalance(c) \/ CheckTransaction(c) \/ WriteOutput(c)
      PROVE  CoreTypes'
  <2>0. pc[c] \notin {"idle", "dead"} /\ tx[c] \in Tx
    BY <1>0, <1>4 DEF FindPending, CheckPendingBalance, CheckTransaction, WriteOutput
  <2>1. UNCHANGED <<chain, pending, accounts, job, block, index, accepted>>
    BY <1>4 DEF FindPending, CheckPendingBalance, CheckTransaction, WriteOutput
  <2>2. \/ \E code \in Codes : Reply(c, code)
        \/ \E st \in Steps : Jump(c, st) /\ UNCHANGED <<outputs, tx>>
    BY <1>00, <1>4 DEF FindPending, CheckPendingBalance, CheckTransaction, WriteOutput
  <2>3. ASSUME NEW code \in Codes, Reply(c, code) PROVE CoreTypes'
    BY <1>0, <2>0, <2>1, <2>3, ReplyTypes
  <2>4. ASSUME NEW st \in Steps, Jump(c, st), UNCHANGED <<outputs, tx>> PROVE CoreTypes'
    BY <1>0, <2>0, <2>1, <2>4, ClientTypes
  <2> QED
    BY <2>2, <2>3, <2>4
<1>5. ASSUME NEW c \in Client, AddPending(c) PROVE CoreTypes'
  <2>1. /\ tx[c] \in Tx /\ pending' = AddTx(pending, tx[c]) /\ accepted' = accepted \cup {tx[c]} /\ Jump(c, "mining")
        /\ UNCHANGED <<chain, accounts, outputs, job, tx, block, index>>
    BY <1>0, <1>5 DEF AddPending
  <2>2. pending' \in Distinct /\ accepted' \subseteq Tx /\ "mining" \in Steps
    BY <1>0, <1>00, <2>1, AddTxAsSet
  <2> QED
    BY <1>0, <2>1, <2>2, ClientTypes
<1>6. ASSUME NEW th \in Client \cup {"network"}, GetMiningData(th) \/ PostJob(th) PROVE CoreTypes'
  <2>0. th \in Thread /\ pc[th] \notin {"idle", "dead"} /\ ("network" \in Adder)
    BY <1>0, <1>6 DEF GetMiningData, PostJob, Adder
  <2>1. UNCHANGED <<chain, pending, accounts, outputs, tx, index, accepted>>
    BY <1>6 DEF GetMiningData, PostJob, shared
  <2>2. job' \in Job /\ block' \in [Thread -> Job]
    <3>1. CASE GetMiningData(th)
      <4>1. PICK txs \in Selections(pending) : block' = [block EXCEPT ![th] = [parent |-> Len(chain), txs |-> txs]]
        BY <3>1 DEF GetMiningData
      <4>2. txs \in Seq(Tx) /\ Len(chain) \in Nat
        BY <1>0, SelectionsAreTxs, LenProperties DEF Distinct
      <4>3. [parent |-> Len(chain), txs |-> txs] \in Job
        BY <4>2 DEF Job
      <4> QED
        BY <1>0, <2>0, <3>1, <4>1, <4>3 DEF GetMiningData, shared
    <3>2. CASE PostJob(th)
      BY <1>0, <2>0, <3>2, NoJobIsJob DEF PostJob
    <3> QED
      BY <1>6, <3>1, <3>2
  <2>3. PICK st \in Steps : Jump(th, st)
    BY <1>00, <1>6 DEF GetMiningData, PostJob
  <2>4. CASE th \in Client
    <3>1. tx[th] \in Tx
      BY <1>0, <2>0, <2>4
    <3> QED
      BY <1>0, <2>1, <2>2, <2>3, <2>4, <3>1, ClientTypes
  <2>5. CASE th = "network"
    BY <1>0, <2>0, <2>1, <2>2, <2>3, <2>5, AdderTypes
  <2> QED
    BY <2>4, <2>5
<1>7. ASSUME NEW parent \in 0..Len(chain), NEW txs \in ForeignLists, ReceiveBlock(parent, txs) PROVE CoreTypes'
  <2>2. txs \in Seq(Tx)
    BY CoreAssumption
  <2>3. Len(chain) \in Nat /\ parent \in Nat
    BY <1>0, LenProperties
  <2>4. [parent |-> parent, txs |-> txs] \in Job
    BY <2>2, <2>3 DEF Job
  <2>5. /\ block' = [block EXCEPT !["network"] = [parent |-> parent, txs |-> txs]] /\ Jump("network", "lock")
        /\ UNCHANGED <<chain, pending, accounts, outputs, job, tx, index, accepted>>
    BY <1>7 DEF ReceiveBlock, shared
  <2>6. block' \in [Thread -> Job] /\ "network" \in Adder /\ "lock" \in Steps
    BY <1>0, <1>00, <2>4, <2>5 DEF Adder
  <2> QED
    BY <1>0, <2>5, <2>6, AdderTypes
<1>8. CASE FindNonce \/ DropJob
  <2>1. UNCHANGED <<chain, pending, accounts, outputs, tx, index, accepted>>
    BY <1>8 DEF FindNonce, DropJob, shared
  <2>2. PICK st \in Steps : Jump("miner", st)
    BY <1>00, <1>8 DEF FindNonce, DropJob
  <2>3. job' \in Job /\ "miner" \in Adder
    BY <1>0, <1>8, NoJobIsJob DEF FindNonce, DropJob, shared, Adder
  <2>4. block' \in [Thread -> Job]
    BY <1>0, <1>8, NoJobIsJob DEF FindNonce, DropJob
  <2> QED
    BY <1>0, <2>1, <2>2, <2>3, <2>4, AdderTypes
<1>9. ASSUME NEW th \in Adder, AddToChain(th) PROVE CoreTypes'
  <2>1. UNCHANGED <<pending, accounts, outputs, job, tx, index, accepted>>
    BY <1>9 DEF AddToChain
  <2>2. block' \in [Thread -> Job]
    BY <1>0, <1>9, NoJobIsJob DEF AddToChain
  <2>3. PICK st \in Steps : Jump(th, st)
    BY <1>00, <1>9 DEF AddToChain
  <2> DEFINE b == [txs |-> block[th].txs, coinbase |-> CoinbaseOf[th]]
  <2>4. b \in StoredBlock /\ (chain' = chain \/ chain' = Append(chain, b))
    <3>1. b \in StoredBlock
      BY <1>0 DEF StoredBlock, Job
    <3> HIDE DEF b
    <3>2. chain' = chain \/ chain' = Append(chain, b)
      BY <1>9 DEF AddToChain, b
    <3> QED
      BY <3>1, <3>2
  <2> HIDE DEF b
  <2>5. chain' \in Seq(StoredBlock)
    <3>1. Append(chain, b) \in Seq(StoredBlock)
      BY <1>0, <2>4, AppendProperties
    <3> QED
      BY <1>0, <2>4, <3>1
  <2> QED
    BY <1>0, <2>1, <2>2, <2>3, <2>5, AdderTypes
<1>10. ASSUME NEW th \in Adder, RemovePending(th) PROVE CoreTypes'
  <2>1. /\ pending' = RemoveAll(pending, block[th].txs) /\ accounts' = Credit(accounts, CoinbaseOf[th], EmissionValue)
        /\ index' = [index EXCEPT ![th] = 1] /\ Jump(th, "apply")
        /\ UNCHANGED <<chain, outputs, job, tx, block, accepted>>
    BY <1>10 DEF RemovePending
  <2>2. block[th].txs \in Seq(Tx) /\ CoinbaseOf[th] \in Account /\ "apply" \in Steps
    BY <1>0, <1>00 DEF Job, Account
  <2>3. pending' \in Distinct
    BY <1>0, <2>1, <2>2, RemoveAllAsSet
  <2>4. accounts' \in Balances
    BY <1>0, <2>1, <2>2, EmissionBalances
  <2>5. index' \in [Adder -> Nat]
    BY <1>0, <2>1
  <2> QED
    BY <1>0, <2>1, <2>2, <2>3, <2>4, <2>5, AdderTypes
<1>11. ASSUME NEW th \in Adder, ApplyTransaction(th) PROVE CoreTypes'
  <2> DEFINE t == block[th].txs[index[th]]
  <2>1. block[th].txs \in Seq(Tx)
    BY <1>0 DEF Job
  <2>2. t \in Tx
    BY <1>11, <2>1, LenProperties, ElementOfSeq DEF ApplyTransaction
  <2>3. accounts' = Performed(accounts, t, CoinbaseOf[th]) /\ CoinbaseOf[th] \in Account
    BY <1>11 DEF ApplyTransaction, Account
  <2>4. PICK code \in Codes : Output(t, code)
    BY <1>00, <1>11 DEF ApplyTransaction
  <2>5. index' = [index EXCEPT ![th] = @ + 1] /\ UNCHANGED <<chain, pending, job, pc, tx, block, accepted>>
    BY <1>11 DEF ApplyTransaction
  <2> HIDE DEF t
  <2>6. accounts' \in Balances
    BY <1>0, <2>2, <2>3, PerformedBalances
  <2>7. outputs' \in [Tx -> Codes]
    BY <1>0, <2>2, <2>4 DEF Output
  <2>8. index' \in [Adder -> Nat]
    BY <1>0, <2>5
  <2> QED
    BY <1>0, <2>5, <2>6, <2>7, <2>8 DEF CoreTypes
<1>12. ASSUME NEW th \in Adder, FinishBlock(th) PROVE CoreTypes'
  <2>1. /\ block' = [block EXCEPT ![th] = NoJob] /\ index' = [index EXCEPT ![th] = 0]
        /\ UNCHANGED <<chain, pending, accounts, outputs, job, tx, accepted>>
    BY <1>12 DEF FinishBlock
  <2>2. PICK st \in Steps : Jump(th, st)
    BY <1>00, <1>12 DEF FinishBlock
  <2>3. block' \in [Thread -> Job] /\ index' \in [Adder -> Nat]
    BY <1>0, <2>1, NoJobIsJob
  <2> QED
    BY <1>0, <2>1, <2>2, <2>3, AdderTypes
<1>14. ASSUME NEW th \in Adder, RaiseOutOfBlock(th) PROVE CoreTypes'
  <2> DEFINE t == block[th].txs[index[th]]
  <2>1. /\ accounts' = Performed(accounts, t, CoinbaseOf[th]) /\ CoinbaseOf[th] \in Account
        /\ block' = [block EXCEPT ![th] = NoJob] /\ index' = [index EXCEPT ![th] = 0]
        /\ UNCHANGED <<chain, pending, outputs, job, tx, accepted>>
    BY <1>14 DEF RaiseOutOfBlock, Account
  <2>2. block[th].txs \in Seq(Tx)
    BY <1>0 DEF Job
  <2>3. t \in Tx
    BY <1>14, <2>2, LenProperties, ElementOfSeq DEF RaiseOutOfBlock
  <2> HIDE DEF t
  <2>4. accounts' \in Balances
    BY <1>0, <2>1, <2>3, PerformedBalances
  <2>5. block' \in [Thread -> Job] /\ index' \in [Adder -> Nat]
    BY <1>0, <2>1, NoJobIsJob
  <2>6. CASE th = "network"
    <3>1. Jump(th, "idle") /\ "idle" \in Steps /\ pending' \in Distinct
      BY <1>0, <1>00, <1>14, <2>1, <2>6 DEF RaiseOutOfBlock, Jump
    <3> QED
      BY <1>0, <2>1, <2>4, <2>5, <3>1, AdderTypes
  <2>7. CASE th # "network"
    <3>1. pc' = [o \in Thread |-> "dead"] /\ "dead" \in Steps
      BY <1>00, <1>14, <2>7 DEF RaiseOutOfBlock
    <3>2. pc' \in [Thread -> Steps]
      BY <3>1
    <3>3. \A c \in Client : pc'[c] = "dead"
      BY <1>0, <3>1
    <3> QED
      BY <1>0, <2>1, <2>4, <2>5, <3>2, <3>3 DEF CoreTypes
  <2> QED
    BY <2>6, <2>7
<1>13. CASE UNCHANGED vars
  BY <1>0, <1>13 DEF vars, CoreTypes
<1> QED
  BY <1>1, <1>2, <1>3, <1>4, <1>5, <1>6, <1>7, <1>8, <1>9, <1>10, <1>11, <1>12, <1>13, <1>14
  DEF Next, ClientStep, AdderStep, NetworkCallback

-----------------------------------------------------------------------------
(* Execution of the blocks *)

\* Steps of threads that do not hold the lock.
LEMMA ExecutionKept ==
  ASSUME CoreInv, UNCHANGED <<chain, accounts, chainLock>>,
         \A th \in Adder : pc[th] \in Applying \/ pc'[th] \in Applying =>
                            pc'[th] = pc[th] /\ block'[th] = block[th] /\ index'[th] = index[th]
  PROVE  Execution'
<1>1. LockIsHeld'
  BY DEF CoreInv, Execution, LockIsHeld
<1>2. TopIsExecuted'
  BY DEF CoreInv, Execution, TopIsExecuted
<1>3. BalancesFollowChain'
  BY DEF CoreInv, Execution, BalancesFollowChain
<1> QED
  BY <1>1, <1>2, <1>3 DEF Execution

\* A jump of another thread.
LEMMA OtherThread ==
  ASSUME CoreInv, NEW th \in Thread, NEW st \in Steps, Jump(th, st),
         th \in Adder => pc[th] \notin Applying /\ st \notin Applying,
         UNCHANGED <<chain, accounts, chainLock, index>>,
         \A o \in Thread \ {th} : block'[o] = block[o]
  PROVE  Execution'
<1>1. \A o \in Thread : pc'[o] = IF o = th THEN st ELSE pc[o]
  BY DEF Jump, CoreInv, CoreTypes
<1>2. Adder \subseteq Thread
  BY DEF Thread
<1> QED
  BY <1>1, <1>2, ExecutionKept

\* The lock passes to the thread that extends the chain.
LEMMA AddToChainStep ==
  ASSUME CoreInv, NEW th \in Adder, AddToChain(th)
  PROVE  Execution'
<1>0. th \in Thread /\ Adder \subseteq Thread /\ pc \in [Thread -> Steps] /\ chain \in Seq(StoredBlock) /\ block[th] \in Job
  BY DEF Thread, CoreInv, CoreTypes
<1>1. CASE Acceptable(block[th])
  <2> DEFINE b == [txs |-> block[th].txs, coinbase |-> CoinbaseOf[th]]
  <2>1. /\ pc[th] = "lock" /\ chainLock = "free" /\ chain' = Append(chain, b) /\ chainLock' = th
        /\ Jump(th, "remove") /\ UNCHANGED <<block, accounts, index>>
    BY <1>1 DEF AddToChain
  <2>2. b \in StoredBlock /\ b.txs = block[th].txs /\ b.coinbase = CoinbaseOf[th]
    BY <1>0 DEF StoredBlock, Job
  <2> HIDE DEF b
  <2>3. \A o \in Thread : pc'[o] = IF o = th THEN "remove" ELSE pc[o]
    BY <1>0, <2>1 DEF Jump
  <2>4. accounts = ExecutedChain(chain) /\ \A o \in Adder : pc[o] \notin Applying
    BY <2>1 DEF CoreInv, Execution, BalancesFollowChain, LockIsHeld, Adder
  <2>5. LockIsHeld'
    BY <1>0, <2>1, <2>3, <2>4 DEF LockIsHeld, Applying
  <2>6. TopIsExecuted'
    <3> SUFFICES ASSUME NEW o \in Adder, pc'[o] \in Applying
                 PROVE  \E c \in Seq(StoredBlock), e \in StoredBlock :
                          /\ chain' = Append(c, e) /\ e.txs = block'[o].txs /\ e.coinbase = CoinbaseOf[o]
                          /\ pc'[o] = "remove" => accounts' = ExecutedChain(c)
                          /\ pc'[o] = "apply" => /\ index'[o] \in 1..(Len(e.txs) + 1)
                                                 /\ accounts' = Executed(ExecutedChain(c), e, index'[o] - 1)
                                                 /\ NoneRaises(ExecutedChain(c), e, index'[o] - 1)
      BY DEF TopIsExecuted
    <3>1. o = th /\ pc'[o] = "remove"
      BY <1>0, <2>3, <2>4
    <3> QED
      BY <1>0, <2>1, <2>2, <2>4, <3>1
  <2>7. BalancesFollowChain'
    BY <2>1 DEF BalancesFollowChain, Adder
  <2> QED
    BY <2>5, <2>6, <2>7 DEF Execution
<1>2. CASE ~Acceptable(block[th])
  <2>1. /\ pc[th] = "lock" /\ Jump(th, "idle") /\ block' = [block EXCEPT ![th] = NoJob]
        /\ UNCHANGED <<chain, chainLock, accounts, index>>
    BY <1>2 DEF AddToChain
  <2>2. \A o \in Thread \ {th} : block'[o] = block[o]
    BY <2>1 DEF CoreInv, CoreTypes
  <2>3. "idle" \in Steps /\ "idle" \notin Applying /\ pc[th] \notin Applying
    BY <2>1 DEF Steps, Applying
  <2> QED
    BY <1>0, <2>1, <2>2, <2>3, OtherThread
<1> QED
  BY <1>1, <1>2

\* The holder of the lock: the last block, executed up to its index.
LEMMA Holder ==
  ASSUME CoreInv, NEW th \in Adder, pc[th] \in Applying
  PROVE  /\ chainLock = th /\ th # "free" /\ \A o \in Adder : pc[o] \in Applying => o = th
         /\ \E c \in Seq(StoredBlock), b \in StoredBlock :
              /\ chain = Append(c, b) /\ b.txs = block[th].txs /\ b.coinbase = CoinbaseOf[th]
              /\ pc[th] = "remove" => accounts = ExecutedChain(c)
              /\ pc[th] = "apply" => /\ index[th] \in 1..(Len(b.txs) + 1)
                                     /\ accounts = Executed(ExecutedChain(c), b, index[th] - 1)
                                     /\ NoneRaises(ExecutedChain(c), b, index[th] - 1)
<1>1. chainLock = th /\ th # "free" /\ \A o \in Adder : pc[o] \in Applying => o = th
  BY DEF CoreInv, Execution, LockIsHeld, Adder
<1> QED
  BY <1>1 DEF CoreInv, Execution, TopIsExecuted

\* The holder of the lock goes on with its block.
LEMMA HolderStep ==
  ASSUME CoreInv, NEW th \in Adder, pc[th] \in Applying, pc'[th] = "apply",
         \A o \in Adder \ {th} : pc'[o] = pc[o],
         NEW c \in Seq(StoredBlock), NEW b \in StoredBlock,
         chain = Append(c, b), b.txs = block[th].txs, b.coinbase = CoinbaseOf[th],
         index'[th] \in 1..(Len(b.txs) + 1),
         accounts' = Executed(ExecutedChain(c), b, index'[th] - 1),
         NoneRaises(ExecutedChain(c), b, index'[th] - 1),
         UNCHANGED <<chain, chainLock, block>>
  PROVE  Execution'
<1>1. chainLock = th /\ th # "free" /\ \A o \in Adder : pc[o] \in Applying => o = th
  BY Holder
<1>2. \A o \in Adder : pc'[o] \in Applying <=> o = th
  BY <1>1 DEF Applying
<1>3. LockIsHeld'
  BY <1>1, <1>2 DEF LockIsHeld
<1>4. TopIsExecuted'
  <2> SUFFICES ASSUME NEW o \in Adder, pc'[o] \in Applying
               PROVE  \E d \in Seq(StoredBlock), e \in StoredBlock :
                        /\ chain' = Append(d, e) /\ e.txs = block'[o].txs /\ e.coinbase = CoinbaseOf[o]
                        /\ pc'[o] = "remove" => accounts' = ExecutedChain(d)
                        /\ pc'[o] = "apply" => /\ index'[o] \in 1..(Len(e.txs) + 1)
                                               /\ accounts' = Executed(ExecutedChain(d), e, index'[o] - 1)
                                               /\ NoneRaises(ExecutedChain(d), e, index'[o] - 1)
    BY DEF TopIsExecuted
  <2>1. o = th
    BY <1>2
  <2> QED
    BY <2>1
<1>5. BalancesFollowChain'
  BY <1>1 DEF BalancesFollowChain
<1> QED
  BY <1>3, <1>4, <1>5 DEF Execution

\* The emission, one transaction after the other, and the unlock.
LEMMA ApplyStep ==
  ASSUME CoreInv, NEW th \in Adder,
         RemovePending(th) \/ ApplyTransaction(th) \/ RaiseOutOfBlock(th) \/ FinishBlock(th)
  PROVE  Execution'
<1>0. /\ th \in Thread /\ Adder \subseteq Thread /\ pc \in [Thread -> Steps] /\ index \in [Adder -> Nat]
      /\ block \in [Thread -> Job] /\ \A d \in Seq(StoredBlock) : ExecutedChain(d) \in Balances
  BY ExecutedChainSteps DEF Thread, CoreInv, CoreTypes
<1>1. pc[th] \in Applying
  BY DEF RemovePending, ApplyTransaction, RaiseOutOfBlock, FinishBlock, Applying
<1>2. PICK c \in Seq(StoredBlock), b \in StoredBlock :
        /\ chain = Append(c, b) /\ b.txs = block[th].txs /\ b.coinbase = CoinbaseOf[th]
        /\ pc[th] = "remove" => accounts = ExecutedChain(c)
        /\ pc[th] = "apply" => /\ index[th] \in 1..(Len(b.txs) + 1)
                               /\ accounts = Executed(ExecutedChain(c), b, index[th] - 1)
                               /\ NoneRaises(ExecutedChain(c), b, index[th] - 1)
  BY <1>1, Holder
<1>3. Len(b.txs) \in Nat /\ DOMAIN b.txs = 1..Len(b.txs) /\ ExecutedChain(c) \in Balances
  BY <1>0, LenProperties DEF StoredBlock
<1>4. CASE RemovePending(th)
  <2>1. /\ pc[th] = "remove" /\ accounts' = Credit(accounts, CoinbaseOf[th], EmissionValue)
        /\ index' = [index EXCEPT ![th] = 1] /\ Jump(th, "apply") /\ UNCHANGED <<chain, chainLock, block>>
    BY <1>4 DEF RemovePending
  <2>2. index'[th] = 1 /\ 1 - 1 = 0 /\ 1 \in 1..(Len(b.txs) + 1)
    BY <1>0, <1>3, <2>1
  <2>3. accounts' = Executed(ExecutedChain(c), b, 0)
    BY <1>2, <1>3, <2>1, ExecutedSteps
  <2>4. pc'[th] = "apply" /\ \A o \in Adder \ {th} : pc'[o] = pc[o]
    BY <1>0, <2>1 DEF Jump
  <2>5. /\ index'[th] \in 1..(Len(b.txs) + 1) /\ accounts' = Executed(ExecutedChain(c), b, index'[th] - 1)
        /\ NoneRaises(ExecutedChain(c), b, index'[th] - 1)
    BY <2>2, <2>3 DEF NoneRaises
  <2> QED
    BY <1>1, <1>2, <2>1, <2>4, <2>5, HolderStep
<1>5. CASE ApplyTransaction(th)
  <2> DEFINE i == index[th]
  <2>1. /\ pc[th] = "apply" /\ i \in DOMAIN b.txs /\ accounts' = Performed(accounts, b.txs[i], b.coinbase)
        /\ ~Raises(accounts, b.txs[i])
        /\ index' = [index EXCEPT ![th] = @ + 1] /\ UNCHANGED <<pc, chain, chainLock, block>>
    BY <1>2, <1>5 DEF ApplyTransaction
  <2>2. i \in 1..Len(b.txs) /\ index'[th] = i + 1 /\ (i + 1) - 1 = i /\ i + 1 \in 1..(Len(b.txs) + 1)
    BY <1>0, <1>3, <2>1
  <2>3. accounts = Executed(ExecutedChain(c), b, i - 1) /\ NoneRaises(ExecutedChain(c), b, i - 1)
    BY <1>2, <2>1
  <2>4. Executed(ExecutedChain(c), b, i) = Performed(Executed(ExecutedChain(c), b, i - 1), b.txs[i], b.coinbase)
    BY <1>3, <2>2, ExecutedSteps
  <2> HIDE DEF i
  <2>5. index'[th] \in 1..(Len(b.txs) + 1) /\ accounts' = Executed(ExecutedChain(c), b, index'[th] - 1)
    BY <2>1, <2>2, <2>3, <2>4
  <2>7. NoneRaises(ExecutedChain(c), b, index'[th] - 1)
    <3>1. ~RaisesAt(ExecutedChain(c), b, i)
      BY <2>1, <2>3 DEF RaisesAt
    <3>2. \A n \in 1..i : n \in 1..(i - 1) \/ n = i
      BY <2>2
    <3> QED
      BY <2>2, <2>3, <3>1, <3>2 DEF NoneRaises
  <2>6. pc'[th] = "apply" /\ \A o \in Adder \ {th} : pc'[o] = pc[o]
    BY <2>1
  <2> QED
    BY <1>1, <1>2, <2>1, <2>5, <2>6, <2>7, HolderStep
<1>a. ASSUME NEW k \in 0..Len(b.txs), EndsAt(ExecutedChain(c), b, k),
             accounts' = Executed(ExecutedChain(c), b, k),
             chain' = chain, chainLock' = "free", \A o \in Adder : pc'[o] \notin Applying
      PROVE  Execution'
  <2>1. accounts' = ExecutedBlock(ExecutedChain(c), b)
    BY <1>3, <1>a, BlockEnds
  <2>2. accounts' = ExecutedChain(chain')
    BY <1>2, <1>a, <2>1, ExecutedChainSteps
  <2>3. LockIsHeld' /\ TopIsExecuted' /\ BalancesFollowChain'
    BY <1>a, <2>2 DEF LockIsHeld, TopIsExecuted, BalancesFollowChain, Adder
  <2> QED
    BY <2>3 DEF Execution
<1>b. \A o \in Adder : pc[o] \in Applying => o = th
  BY <1>1, Holder
<1>6. CASE FinishBlock(th)
  <2>1. /\ pc[th] = "apply" /\ index[th] \notin DOMAIN b.txs /\ chainLock' = "free"
        /\ UNCHANGED <<chain, accounts>>
    BY <1>2, <1>6 DEF FinishBlock
  <2>2. PICK st \in {"mining", "idle"} : Jump(th, st)
    BY <1>6 DEF FinishBlock
  <2>3. \A o \in Adder : pc'[o] \notin Applying
    <3>1. \A o \in Adder : pc'[o] = IF o = th THEN st ELSE pc[o]
      BY <1>0, <2>2 DEF Jump
    <3> QED
      BY <1>b, <3>1 DEF Applying
  <2>4. index[th] - 1 = Len(b.txs) /\ Len(b.txs) \in 0..Len(b.txs)
    BY <1>0, <1>2, <1>3, <2>1
  <2>5. accounts' = Executed(ExecutedChain(c), b, Len(b.txs)) /\ NoneRaises(ExecutedChain(c), b, Len(b.txs))
    BY <1>2, <2>1, <2>4
  <2>6. \A n \in 1..(Len(b.txs) - 1) : n \in 1..Len(b.txs)
    BY <1>3
  <2>7. EndsAt(ExecutedChain(c), b, Len(b.txs))
    BY <2>5, <2>6 DEF EndsAt, NoneRaises
  <2> QED
    BY <1>a, <2>1, <2>3, <2>4, <2>5, <2>7
<1>7. CASE RaiseOutOfBlock(th)
  <2> DEFINE i == index[th]
  <2>1. /\ pc[th] = "apply" /\ i \in DOMAIN b.txs /\ accounts' = Performed(accounts, b.txs[i], b.coinbase)
        /\ Raises(accounts, b.txs[i]) /\ chainLock' = "free" /\ chain' = chain
    BY <1>2, <1>7 DEF RaiseOutOfBlock
  <2>2. i \in 1..Len(b.txs) /\ i \in 0..Len(b.txs) /\ i > 0
    BY <1>0, <1>3, <2>1
  <2>3. accounts = Executed(ExecutedChain(c), b, i - 1) /\ NoneRaises(ExecutedChain(c), b, i - 1)
    BY <1>2, <2>1
  <2>4. Executed(ExecutedChain(c), b, i) = Performed(Executed(ExecutedChain(c), b, i - 1), b.txs[i], b.coinbase)
    BY <1>3, <2>2, ExecutedSteps
  <2> HIDE DEF i
  <2>5. accounts' = Executed(ExecutedChain(c), b, i)
    BY <2>1, <2>3, <2>4
  <2>6. EndsAt(ExecutedChain(c), b, i)
    BY <2>1, <2>2, <2>3 DEF EndsAt, RaisesAt, NoneRaises
  <2>7. \A o \in Adder : pc'[o] \notin Applying
    <3>1. \A o \in Adder : pc'[o] \in {"idle", "dead"} \/ (o # th /\ pc'[o] = pc[o])
      BY <1>0, <1>7 DEF RaiseOutOfBlock
    <3> QED
      BY <1>b, <3>1 DEF Applying
  <2> QED
    BY <1>a, <2>1, <2>2, <2>5, <2>6, <2>7
<1> QED
  BY <1>4, <1>5, <1>6, <1>7

\* Every step keeps the balances in line with the chain.
LEMMA ExecutionStep == CoreInv /\ [Next]_vars => Execution'
<1> SUFFICES ASSUME CoreInv, [Next]_vars PROVE Execution'
  OBVIOUS
<1>0. /\ Client \subseteq Thread /\ Adder \subseteq Thread /\ \A c \in Client : c \notin Adder
      /\ block \in [Thread -> Job] /\ "network" \in Adder /\ "miner" \in Adder
  BY CoreAssumption DEF Thread, Adder, CoreInv, CoreTypes
<1>1. ASSUME NEW c \in Client, (\E t \in Tx : Submit(c, t)) \/ ClientStep(c) PROVE Execution'
  <2>1. PICK st \in Steps : Jump(c, st)
    BY <1>1 DEF ClientStep, Submit, FindTransaction, FindPending, CheckPendingBalance, CheckTransaction,
                AddPending, WriteOutput, GetMiningData, PostJob, Reply, Steps
  <2>2. UNCHANGED <<chain, accounts, chainLock, index>>
    BY <1>1 DEF ClientStep, Submit, FindTransaction, FindPending, CheckPendingBalance, CheckTransaction,
                AddPending, WriteOutput, GetMiningData, PostJob, shared
  <2>3. block' = block \/ \E x : block' = [block EXCEPT ![c] = x]
    BY <1>1 DEF ClientStep, Submit, FindTransaction, FindPending, CheckPendingBalance, CheckTransaction,
                AddPending, WriteOutput, GetMiningData, PostJob
  <2>4. \A o \in Thread \ {c} : block'[o] = block[o]
    BY <1>0, <2>3
  <2> QED
    BY <1>0, <2>1, <2>2, <2>4, OtherThread
<1>2. ASSUME NEW c \in Client, NEW t \in Tx, SubmitBadSign(c, t) PROVE Execution'
  BY <1>2, ExecutionKept DEF SubmitBadSign
<1>3. ASSUME NEW parent, NEW txs, ReceiveBlock(parent, txs) PROVE Execution'
  <2>1. /\ pc["network"] = "idle" /\ block' = [block EXCEPT !["network"] = [parent |-> parent, txs |-> txs]]
        /\ Jump("network", "lock") /\ UNCHANGED <<chain, accounts, chainLock, index>>
    BY <1>3 DEF ReceiveBlock, shared
  <2>2. \A o \in Thread \ {"network"} : block'[o] = block[o]
    BY <1>0, <2>1
  <2>3. "lock" \in Steps /\ "lock" \notin Applying /\ pc["network"] \notin Applying
    BY <2>1 DEF Steps, Applying
  <2> QED
    BY <1>0, <2>1, <2>2, <2>3, OtherThread
<1>4. CASE FindNonce \/ DropJob
  <2>1. pc["miner"] \in {"idle", "found"} /\ UNCHANGED <<chain, accounts, chainLock, index>>
    BY <1>4 DEF FindNonce, DropJob, shared
  <2>2. PICK st \in {"found", "lock", "idle"} : Jump("miner", st)
    BY <1>4 DEF FindNonce, DropJob
  <2>3. block' = block \/ \E x : block' = [block EXCEPT !["miner"] = x]
    BY <1>4 DEF FindNonce, DropJob
  <2>4. \A o \in Thread \ {"miner"} : block'[o] = block[o]
    BY <1>0, <2>3
  <2>5. st \in Steps /\ st \notin Applying /\ pc["miner"] \notin Applying
    BY <2>1 DEF Steps, Applying
  <2> QED
    BY <1>0, <2>1, <2>2, <2>4, <2>5, OtherThread
<1>5. ASSUME NEW th \in Adder, AdderStep(th) PROVE Execution'
  BY <1>5, AddToChainStep, ApplyStep DEF AdderStep
<1>6. CASE NetworkCallback
  <2>1. PICK st \in {"post", "output", "idle"} : Jump("network", st)
    BY <1>6 DEF NetworkCallback, GetMiningData, PostJob
  <2>2. pc["network"] \in {"mining", "post"} /\ UNCHANGED <<chain, accounts, chainLock, index>>
    BY <1>6 DEF NetworkCallback, GetMiningData, PostJob, shared
  <2>3. \E x : block' = [block EXCEPT !["network"] = x]
    BY <1>6 DEF NetworkCallback, GetMiningData, PostJob
  <2>4. \A o \in Thread \ {"network"} : block'[o] = block[o]
    BY <1>0, <2>3
  <2>5. st \in Steps /\ st \notin Applying /\ pc["network"] \notin Applying
    BY <2>2 DEF Steps, Applying
  <2> QED
    BY <1>0, <2>1, <2>2, <2>4, <2>5, OtherThread
<1>7. CASE UNCHANGED vars
  BY <1>7, ExecutionKept DEF vars
<1> QED
  BY <1>1, <1>2, <1>3, <1>4, <1>5, <1>6, <1>7 DEF Next

-----------------------------------------------------------------------------
(* Accepted transactions *)

\* No step loses a transaction: those taken out of pending are in the last block.
LEMMA AcceptedStep == CoreInv /\ [Next]_vars => AcceptedIsKept'
<1> SUFFICES ASSUME CoreInv, [Next]_vars, NEW t \in accepted' PROVE Find(pending, t)' \/ InChain(t)'
  BY DEF AcceptedIsKept
<1>0. chain \in Seq(StoredBlock) /\ pending \in Distinct /\ block \in [Thread -> Job]
      /\ Adder \subseteq Thread /\ \A c \in Client : pc[c] \notin {"idle", "dead"} => tx[c] \in Tx
  BY DEF CoreInv, CoreTypes, Distinct, Thread
<1>1. \A e \in accepted : Find(pending, e) \/ InChain(e)
  BY DEF CoreInv, AcceptedIsKept
<1>2. CASE UNCHANGED <<chain, pending, accepted>>
  BY <1>1, <1>2 DEF Find, InChain
<1>3. ASSUME NEW c \in Client, AddPending(c) PROVE Find(pending, t)' \/ InChain(t)'
  <2>1. tx[c] \in Tx /\ pending' = AddTx(pending, tx[c]) /\ accepted' = accepted \cup {tx[c]} /\ chain' = chain
    BY <1>0, <1>3 DEF AddPending
  <2>2. ToSet(pending') = ToSet(pending) \cup {tx[c]}
    BY <1>0, <2>1, AddTxAsSet
  <2> QED
    BY <1>1, <2>1, <2>2 DEF Find, InChain
<1>4. ASSUME NEW th \in Adder, AddToChain(th) PROVE Find(pending, t)' \/ InChain(t)'
  <2> DEFINE b == [txs |-> block[th].txs, coinbase |-> CoinbaseOf[th]]
  <2>1. (chain' = chain \/ chain' = Append(chain, b)) /\ pending' = pending /\ accepted' = accepted
    BY <1>4 DEF AddToChain
  <2> HIDE DEF b
  <2>2. CASE chain' = Append(chain, b)
    <3>1. \A i \in DOMAIN chain : i \in DOMAIN chain' /\ chain'[i] = chain[i]
      BY <1>0, <2>2, AppendProperties, LenProperties
    <3> QED
      BY <1>1, <2>1, <3>1 DEF Find, InChain
  <2> QED
    BY <1>2, <2>1, <2>2
<1>5. ASSUME NEW th \in Adder, RemovePending(th) PROVE Find(pending, t)' \/ InChain(t)'
  <2>1. /\ pc[th] = "remove" /\ pending' = RemoveAll(pending, block[th].txs) /\ chain' = chain /\ accepted' = accepted
    BY <1>5 DEF RemovePending
  <2>2. PICK c \in Seq(StoredBlock), b \in StoredBlock : chain = Append(c, b) /\ b.txs = block[th].txs
    BY <2>1, Holder DEF Applying
  <2>3. b.txs \in Seq(Tx)
    BY DEF StoredBlock
  <2>4. ToSet(pending') = ToSet(pending) \ ToSet(b.txs)
    BY <1>0, <2>1, <2>2, <2>3, RemoveAllAsSet
  <2>5. \E i \in DOMAIN chain : chain[i].txs = b.txs
    BY <2>2, AppendProperties, LenProperties
  <2>6. \A e \in ToSet(b.txs) : InChain(e)
    BY <2>5 DEF InChain, Find
  <2> QED
    BY <1>1, <2>1, <2>4, <2>6 DEF Find, InChain
<1>6. ASSUME NEW c \in Client, \E e \in Tx : Submit(c, e) \/ SubmitBadSign(c, e) PROVE UNCHANGED <<chain, pending, accepted>>
  BY <1>6 DEF Submit, SubmitBadSign, shared
<1>7. ASSUME NEW c \in Client, ClientStep(c), ~AddPending(c) PROVE UNCHANGED <<chain, pending, accepted>>
  BY <1>7 DEF ClientStep, FindTransaction, FindPending, CheckPendingBalance, CheckTransaction,
              WriteOutput, GetMiningData, PostJob, shared
<1>8. ASSUME NetworkCallback \/ FindNonce \/ DropJob \/ \E parent \in 0..Len(chain), txs \in ForeignLists : ReceiveBlock(parent, txs)
      PROVE  UNCHANGED <<chain, pending, accepted>>
  BY <1>8 DEF NetworkCallback, GetMiningData, PostJob, FindNonce, DropJob, ReceiveBlock, shared
<1>9. ASSUME NEW th \in Adder, ApplyTransaction(th) \/ RaiseOutOfBlock(th) \/ FinishBlock(th)
      PROVE  UNCHANGED <<chain, pending, accepted>>
  BY <1>9 DEF ApplyTransaction, RaiseOutOfBlock, FinishBlock
<1>10. UNCHANGED vars => UNCHANGED <<chain, pending, accepted>>
  BY DEF vars
<1> QED
  BY <1>2, <1>3, <1>4, <1>5, <1>6, <1>7, <1>8, <1>9, <1>10 DEF Next, AdderStep

-----------------------------------------------------------------------------
(* Theorems *)

\* The start.
LEMMA CoreStart == Init => CoreInv
<1> SUFFICES ASSUME Init PROVE CoreInv
  OBVIOUS
<1>1. CoreTypes
  <2>1. InitialBalance \in Balances
    BY CoreAssumption DEF Balances, Account
  <2>2. <<>> \in Seq(StoredBlock) /\ <<>> \in Seq(Tx) /\ IsInjective(<<>>)
    BY EmptySeq DEF IsInjective
  <2>3. pc \in [Thread -> Steps] /\ outputs \in [Tx -> Codes] /\ \A c \in Client : pc[c] = "idle"
    BY DEF Init, Steps, Codes, Thread
  <2> QED
    BY <2>1, <2>2, <2>3, NoJobIsJob DEF Init, CoreTypes
<1>2. Execution
  <2>1. \A th \in Adder : pc[th] \notin Applying
    BY DEF Init, Thread, Applying
  <2>2. accounts = ExecutedChain(chain) /\ chainLock = "free"
    BY ExecutedChainSteps DEF Init
  <2> QED
    BY <2>1, <2>2 DEF Execution, LockIsHeld, TopIsExecuted, BalancesFollowChain, Adder
<1>3. AcceptedIsKept
  BY DEF Init, AcceptedIsKept
<1> QED
  BY <1>1, <1>2, <1>3 DEF CoreInv

\* The inductive invariant.
LEMMA CoreInvariant == Spec => []CoreInv
<1>1. CoreInv /\ [Next]_vars => CoreInv'
  BY TypesStep, ExecutionStep, AcceptedStep DEF CoreInv
<1> QED
  BY <1>1, CoreStart, PTL DEF Spec

\* However many threads submit, mine and receive, every variable stays within its
\* values: no balance becomes negative, no transaction is pending twice.
THEOREM CoreTyped == Spec => []TypeOK
<1>1. CoreInv => TypeOK
  <2> SUFFICES ASSUME CoreInv PROVE TypeOK
    OBVIOUS
  <2>1. \A i \in DOMAIN chain : chain[i].txs \in Seq(Tx)
    <3>1. chain \in Seq(StoredBlock)
      BY DEF CoreInv, CoreTypes
    <3>2. \A i \in DOMAIN chain : chain[i] \in StoredBlock
      BY <3>1, LenProperties, ElementOfSeq
    <3> QED
      BY <3>2 DEF StoredBlock
  <2>2. \A a \in DOMAIN accounts : accounts[a] \in Nat
    BY BalancesAreFunctions DEF CoreInv, CoreTypes
  <2>3. job.parent \in Nat /\ job.txs \in Seq(Tx)
    BY DEF CoreInv, CoreTypes, Job
  <2> QED
    BY <2>1, <2>2, <2>3 DEF CoreInv, CoreTypes, Execution, LockIsHeld, TypeOK
<1> QED
  BY <1>1, CoreInvariant, PTL

\* A transaction that was accepted is pending or confirmed at every moment.
THEOREM CoreAcceptedIsKept == Spec => []AcceptedIsKept
BY CoreInvariant, PTL DEF CoreInv

\* Whenever nobody holds _blockchain_mutex the balances are those of executing the chain
\* from the start, each block up to the first transaction whose fee raises, for any number
\* of blocks, transactions and submitting threads, exceptions in the network and in the
\* miner thread included.
THEOREM CoreBalancesFollowChain == Spec => []BalancesFollowChain
BY CoreInvariant, PTL DEF CoreInv, Execution
=============================================================================
