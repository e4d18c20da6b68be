---------------------------- MODULE LedgerProofs ----------------------------
(***************************************************************************)
(* What is proved about Ledger, for any transactions, contracts, blocks    *)
(* and restarts.                                                           *)
(***************************************************************************)
EXTENDS Ledger, CommonFacts

-----------------------------------------------------------------------------
(* Accounts *)

AccountMap(s) ==
  /\ DOMAIN s \subseteq Address /\ IsFiniteSet(DOMAIN s)
  /\ \A a \in DOMAIN s : s[a] \in AccountStates

Nonce(s, a) == GetAccount(s, a).nonce
Kind(s, a) == GetAccount(s, a).type

\* What getAccount returns, an account it creates included.
LEMMA GetAccountType ==
  ASSUME NEW s, AccountMap(s), NEW a
  PROVE  /\ GetAccount(s, a) \in AccountStates /\ Balance(s, a) \in Nat /\ Nonce(s, a) \in Nat
         /\ Kind(s, a) \in {"CLIENT", "CONTRACT"}
<1>1. GetAccount(s, a) \in AccountStates
  BY DEF AccountMap, GetAccount, NewAccount, AccountStates
<1> QED
  BY <1>1 DEF AccountStates, Balance, Nonce, Kind

\* w is s with account a in state c, or in its nonce one more transaction.
IsWith(w, s, a, c) ==
  /\ AccountMap(w) /\ DOMAIN w = DOMAIN s \cup {a}
  /\ \A b : GetAccount(w, b) = IF b = a THEN c ELSE GetAccount(s, b)
IsCounted(w, s, a) ==
  /\ AccountMap(w) /\ DOMAIN w = DOMAIN s \cup {a} /\ Supply(w) = Supply(s)
  /\ \A b : /\ Balance(w, b) = Balance(s, b) /\ Kind(w, b) = Kind(s, b)
            /\ Nonce(w, b) = Nonce(s, b) + (IF b = a THEN 1 ELSE 0)

\* Replacing one account, or adding it.
LEMMA WithAccountMap ==
  ASSUME NEW s, AccountMap(s), NEW a \in Address, NEW c \in AccountStates
  PROVE  IsWith(WithAccount(s, a, c), s, a, c)
<1> DEFINE w == WithAccount(s, a, c)
<1>1. DOMAIN w = DOMAIN s \cup {a} /\ \A x \in DOMAIN w : w[x] = IF x = a THEN c ELSE s[x]
  BY DEF WithAccount
<1>2. IsFiniteSet(DOMAIN s \cup {a})
  BY FS_AddElement DEF AccountMap
<1> HIDE DEF w
<1>3. AccountMap(w)
  BY <1>1, <1>2 DEF AccountMap
<1>4. \A b : GetAccount(w, b) = IF b = a THEN c ELSE GetAccount(s, b)
  BY <1>1 DEF GetAccount
<1>5. IsWith(w, s, a, c)
  BY <1>1, <1>3, <1>4 DEF IsWith
<1> QED
  BY <1>5 DEF w

\* The balances add up in any order.
LEMMA SupplySum ==
  ASSUME NEW s, AccountMap(s)
  PROVE  \E g : IsSum(g, [a \in DOMAIN s |-> s[a].balance], DOMAIN s) /\ Supply(s) = g[DOMAIN s]
<1> DEFINE D == DOMAIN s
           f == [a \in D |-> s[a].balance]
           Step(g) == [t \in SUBSET D |-> IF t = {} THEN 0
                         ELSE s[CHOOSE x \in t : TRUE].balance + g[t \ {CHOOSE x \in t : TRUE}]]
           sum == CHOOSE g : g = Step(g)
<1>1. f \in [D -> Int] /\ IsFiniteSet(D)
  BY DEF AccountMap, AccountStates
<1>2. PICK g : IsFold(g, f, D)
  <2> HIDE DEF f, D
  <2> QED
    BY <1>1, FoldExists
<1>3. ASSUME NEW h PROVE h = Step(h) <=> IsFold(h, f, D)
  <2>1. \A t \in SUBSET D : t # {} => f[Elt(t)] = s[Elt(t)].balance
    BY DEF Elt
  <2>2. [t \in SUBSET D |-> IF t = {} THEN 0 ELSE f[Elt(t)] + h[t \ {Elt(t)}]] = Step(h)
    BY <2>1 DEF Elt
  <2> HIDE DEF Step, f, D
  <2> QED
    BY <2>2 DEF IsFold
<1>4. sum = Step(sum)
  <2>1. g = Step(g)
    <3> HIDE DEF Step, f, D
    <3> QED
      BY <1>2, <1>3
  <2> HIDE DEF Step
  <2> QED
    BY <2>1
<1>5. Supply(s) = sum[D]
  BY DEF Supply, MapThenSumSet, MapThenFoldSet
<1>6. IsFold(sum, f, D)
  <2> HIDE DEF sum, Step
  <2> QED
    BY <1>3, <1>4
<1> HIDE DEF sum, f, D
<1>7. IsSum(sum, f, D)
  BY <1>1, <1>6, FoldIsSum
<1> QED
  BY <1>5, <1>7 DEF f, D

\* What is added to or taken from one account is added to or taken from the supply.
LEMMA SupplyOfOther ==
  ASSUME NEW s, AccountMap(s), NEW w, AccountMap(w), NEW a,
         \A b : b # a => (b \in DOMAIN w <=> b \in DOMAIN s),
         \A b \in DOMAIN s : b # a => w[b] = s[b]
  PROVE  Supply(s) \in Int /\ Supply(w) - Balance(w, a) = Supply(s) - Balance(s, a)
<1> DEFINE T == DOMAIN s \ {a}
           F(m) == [x \in DOMAIN m |-> m[x].balance]
<1>1. PICK g : IsSum(g, F(s), DOMAIN s) /\ Supply(s) = g[DOMAIN s]
  BY SupplySum
<1>2. PICK h : IsSum(h, F(w), DOMAIN w) /\ Supply(w) = h[DOMAIN w]
  BY SupplySum
<1>3. T = DOMAIN w \ {a} /\ IsFiniteSet(T) /\ T \subseteq DOMAIN s /\ T \subseteq DOMAIN w
  BY FS_RemoveElement DEF AccountMap
<1>4. \A x \in T : F(s)[x] = F(w)[x]
  BY <1>3
<1>5. g[T] = h[T]
  <2> HIDE DEF F, T
  <2> QED
    BY <1>1, <1>2, <1>3, <1>4, SumsAgree
<1>6. g[DOMAIN s] \in Int /\ g[T] \in Int /\ h[DOMAIN w] \in Int
  BY <1>1, <1>2 DEF IsSum
<1>7. g[DOMAIN s] = Balance(s, a) + g[T]
  <2>1. CASE a \in DOMAIN s
    <3>1. g[DOMAIN s] = F(s)[a] + g[T] /\ F(s)[a] = s[a].balance
      BY <1>1, <2>1 DEF IsSum
    <3> QED
      BY <2>1, <3>1 DEF Balance, GetAccount
  <2>2. CASE a \notin DOMAIN s
    <3>1. T = DOMAIN s /\ Balance(s, a) = 0
      BY <2>2 DEF Balance, GetAccount, NewAccount
    <3> QED
      BY <1>6, <3>1
  <2> QED
    BY <2>1, <2>2
<1>8. h[DOMAIN w] = Balance(w, a) + h[T]
  <2>1. CASE a \in DOMAIN w
    <3>1. h[DOMAIN w] = F(w)[a] + h[DOMAIN w \ {a}] /\ F(w)[a] = w[a].balance
      BY <1>2, <2>1 DEF IsSum
    <3>2. h[DOMAIN w \ {a}] = h[T]
      BY <1>3
    <3> QED
      BY <2>1, <3>1, <3>2 DEF Balance, GetAccount
  <2>2. CASE a \notin DOMAIN w
    <3>1. T = DOMAIN w /\ Balance(w, a) = 0
      BY <1>3, <2>2 DEF Balance, GetAccount, NewAccount
    <3> QED
      BY <1>6, <3>1
  <2> QED
    BY <2>1, <2>2
<1>9. Balance(s, a) \in Nat /\ Balance(w, a) \in Nat
  BY GetAccountType
<1> QED
  BY <1>1, <1>2, <1>5, <1>6, <1>7, <1>8, <1>9

\* Replacing one account changes the supply by the difference of the balances.
LEMMA SupplyWithAccount ==
  ASSUME NEW s, AccountMap(s), NEW a \in Address, NEW c \in AccountStates
  PROVE  /\ Supply(s) \in Int
         /\ Supply(WithAccount(s, a, c)) = Supply(s) - Balance(s, a) + c.balance
<1> DEFINE w == WithAccount(s, a, c)
<1>1. /\ AccountMap(w) /\ DOMAIN w = DOMAIN s \cup {a} /\ Balance(w, a) = c.balance
      /\ \A b \in DOMAIN s : b # a => w[b] = s[b]
  BY WithAccountMap DEF IsWith, Balance, WithAccount
<1>2. Balance(s, a) \in Nat /\ c.balance \in Nat
  BY GetAccountType DEF AccountStates
<1> HIDE DEF w
<1>3. Supply(s) \in Int /\ Supply(w) \in Int /\ Supply(w) - Balance(w, a) = Supply(s) - Balance(s, a)
  BY <1>1, SupplyOfOther
<1> QED
  BY <1>1, <1>2, <1>3 DEF w

\* s becomes w, in which d more is on the account of a and everything else the same.
Changes(s, w, a, d) ==
  /\ AccountMap(w) /\ DOMAIN w = DOMAIN s \cup {a}
  /\ \A b : Nonce(w, b) = Nonce(s, b) /\ Kind(w, b) = Kind(s, b)
  /\ Balance(w, a) = Balance(s, a) + d
  /\ \A b : b # a => GetAccount(w, b) = GetAccount(s, b)
  /\ Supply(w) = Supply(s) + d

\* Changing one balance is such a change, when nothing becomes negative.
LEMMA BalanceChanges ==
  ASSUME NEW s, AccountMap(s), NEW a \in Address, NEW d \in Int, Balance(s, a) + d \in Nat
  PROVE  Changes(s, WithAccount(s, a, [GetAccount(s, a) EXCEPT !.balance = @ + d]), a, d)
<1> DEFINE old == GetAccount(s, a)
           c == [old EXCEPT !.balance = @ + d]
           w == WithAccount(s, a, c)
<1>1. old \in AccountStates /\ old.balance = Balance(s, a)
  BY GetAccountType DEF Balance
<1>2. c \in AccountStates /\ c.balance = Balance(s, a) + d /\ c.nonce = old.nonce /\ c.type = old.type
  BY <1>1 DEF AccountStates
<1> HIDE DEF c
<1>3. /\ AccountMap(w) /\ DOMAIN w = DOMAIN s \cup {a}
      /\ \A b : GetAccount(w, b) = IF b = a THEN c ELSE GetAccount(s, b)
  <2>1. c \in AccountStates
    BY <1>2
  <2>2. IsWith(w, s, a, c)
    BY <2>1, WithAccountMap
  <2> QED
    BY <2>2 DEF IsWith
<1>4. Supply(s) \in Int /\ Supply(w) = Supply(s) - Balance(s, a) + c.balance /\ Balance(s, a) \in Nat
  BY <1>2, SupplyWithAccount, GetAccountType
<1> HIDE DEF w
<1>5. \A b : Nonce(w, b) = Nonce(s, b) /\ Kind(w, b) = Kind(s, b)
  BY <1>2, <1>3 DEF Nonce, Kind
<1>6. Balance(w, a) = Balance(s, a) + d
  BY <1>2, <1>3 DEF Balance
<1>7. Supply(w) = Supply(s) + d
  BY <1>2, <1>4
<1> QED
  BY <1>3, <1>5, <1>6, <1>7 DEF Changes, w, c

\* addBalance.
LEMMA AddBalanceChanges ==
  ASSUME NEW s, AccountMap(s), NEW a \in Address, NEW n \in Nat
  PROVE  Changes(s, AddBalance(s, a, n), a, n)
<1>1. Balance(s, a) \in Nat
  BY GetAccountType
<1> QED
  BY <1>1, BalanceChanges DEF AddBalance

\* subBalance, when the balance covers it.
LEMMA SubBalanceChanges ==
  ASSUME NEW s, AccountMap(s), NEW a \in Address, NEW n \in Nat, n <= Balance(s, a)
  PROVE  Changes(s, SubBalance(s, a, n), a, -n)
<1>1. Balance(s, a) \in Nat /\ GetAccount(s, a) \in AccountStates
  BY GetAccountType
<1>2. Balance(s, a) + (-n) \in Nat /\ -n \in Int
  BY <1>1
<1>3. [GetAccount(s, a) EXCEPT !.balance = @ - n] = [GetAccount(s, a) EXCEPT !.balance = @ + (-n)]
  BY <1>1 DEF AccountStates
<1>4. Changes(s, WithAccount(s, a, [GetAccount(s, a) EXCEPT !.balance = @ + (-n)]), a, -n)
  BY <1>2, BalanceChanges
<1> QED
  BY <1>3, <1>4 DEF SubBalance

\* Reading an account creates it and changes nothing else.
LEMMA TouchedMap ==
  ASSUME NEW s, AccountMap(s), NEW a \in Address
  PROVE  /\ AccountMap(Touched(s, a)) /\ DOMAIN Touched(s, a) = DOMAIN s \cup {a}
         /\ \A b : GetAccount(Touched(s, a), b) = GetAccount(s, b)
         /\ Supply(Touched(s, a)) = Supply(s)
<1>1. GetAccount(s, a) \in AccountStates /\ GetAccount(s, a).balance = Balance(s, a) /\ Balance(s, a) \in Nat
  BY GetAccountType DEF Balance
<1>2. Supply(s) \in Int /\ Supply(Touched(s, a)) = Supply(s) - Balance(s, a) + Balance(s, a)
  BY <1>1, SupplyWithAccount DEF Touched
<1>3. Supply(Touched(s, a)) = Supply(s)
  BY <1>1, <1>2
<1>4. /\ AccountMap(Touched(s, a)) /\ DOMAIN Touched(s, a) = DOMAIN s \cup {a}
      /\ \A b : GetAccount(Touched(s, a), b) = IF b = a THEN GetAccount(s, a) ELSE GetAccount(s, b)
  <2> DEFINE c == GetAccount(s, a)
  <2>1. c \in AccountStates
    BY <1>1
  <2> HIDE DEF c
  <2>2. IsWith(WithAccount(s, a, c), s, a, c)
    BY <2>1, WithAccountMap
  <2>3. IsWith(Touched(s, a), s, a, GetAccount(s, a))
    BY <2>2 DEF Touched, c
  <2> QED
    BY <2>3 DEF IsWith
<1> QED
  BY <1>3, <1>4

\* addTransactionHash changes one nonce.
LEMMA WithTransactionMap ==
  ASSUME NEW s, AccountMap(s), NEW a \in Address
  PROVE  IsCounted(WithTransaction(s, a), s, a)
<1> DEFINE old == GetAccount(s, a)
           c == [old EXCEPT !.nonce = @ + 1]
           w == WithAccount(s, a, c)
<1>1. old \in AccountStates /\ old.balance = Balance(s, a) /\ Balance(s, a) \in Nat /\ Nonce(s, a) = old.nonce
  BY GetAccountType DEF Balance, Nonce
<1>2. c \in AccountStates /\ c.balance = old.balance /\ c.nonce = old.nonce + 1 /\ c.type = old.type
  BY <1>1 DEF AccountStates
<1> HIDE DEF c
<1>3. /\ AccountMap(w) /\ DOMAIN w = DOMAIN s \cup {a}
      /\ \A b : GetAccount(w, b) = IF b = a THEN c ELSE GetAccount(s, b)
  <2>1. c \in AccountStates
    BY <1>2
  <2>2. IsWith(w, s, a, c)
    BY <2>1, WithAccountMap
  <2> QED
    BY <2>2 DEF IsWith
<1>4. Supply(s) \in Int /\ Supply(w) = Supply(s) - Balance(s, a) + c.balance
  BY <1>2, SupplyWithAccount
<1> HIDE DEF w
<1>5. Supply(w) = Supply(s)
  BY <1>1, <1>2, <1>4
<1>6. ASSUME NEW b PROVE Balance(w, b) = Balance(s, b) /\ Kind(w, b) = Kind(s, b)
  BY <1>2, <1>3 DEF Balance, Kind
<1>7. ASSUME NEW b PROVE Nonce(w, b) = Nonce(s, b) + (IF b = a THEN 1 ELSE 0)
  <2>1. Nonce(s, b) \in Nat
    BY GetAccountType
  <2> QED
    BY <1>2, <1>3, <2>1 DEF Nonce
<1>8. WithTransaction(s, a) = w
  BY DEF WithTransaction, w, c
<1>9. IsCounted(w, s, a)
  BY <1>3, <1>5, <1>6, <1>7 DEF IsCounted
<1> QED
  BY <1>8, <1>9

\* Deleting an account loses its balance and nothing else.
LEMMA DeletedMap ==
  ASSUME NEW s, AccountMap(s), NEW a
  PROVE  /\ AccountMap(Deleted(s, a)) /\ DOMAIN Deleted(s, a) = DOMAIN s \ {a}
         /\ \A b : b # a => GetAccount(Deleted(s, a), b) = GetAccount(s, b)
         /\ Supply(Deleted(s, a)) = Supply(s) - Balance(s, a)
<1> DEFINE w == Deleted(s, a)
<1>1. DOMAIN w = DOMAIN s \ {a} /\ \A x \in DOMAIN w : w[x] = s[x]
  BY DEF Deleted
<1> HIDE DEF w
<1>2. AccountMap(w)
  BY <1>1, FS_RemoveElement DEF AccountMap
<1>3. \A b : b # a => GetAccount(w, b) = GetAccount(s, b)
  BY <1>1 DEF GetAccount
<1>4. Balance(w, a) = 0
  BY <1>1 DEF Balance, GetAccount, NewAccount
<1>5. Supply(s) \in Int /\ Supply(w) \in Int /\ Supply(w) - Balance(w, a) = Supply(s) - Balance(s, a)
  BY <1>1, <1>2, SupplyOfOther
<1>6. Balance(s, a) \in Nat
  BY GetAccountType
<1> QED
  BY <1>1, <1>2, <1>3, <1>4, <1>5, <1>6 DEF w

\* The accounts of the genesis block.
LEMMA GenesisMap ==
  /\ AccountMap(GenesisAccounts) /\ Supply(GenesisAccounts) = GenesisAmount
  /\ \A a : Nonce(GenesisAccounts, a) = 0 /\ Kind(GenesisAccounts, a) = "CLIENT"
<1> DEFINE w == GenesisAccounts
           s == [x \in {} |-> NewAccount("CLIENT")]
           a == GenesisAccount
<1>1. DOMAIN w = {a} /\ w[a] = [type |-> "CLIENT", balance |-> GenesisAmount, nonce |-> 0] /\ a \in Address
  BY LedgerAssumption DEF GenesisAccounts, NewAccount
<1>2. w[a] \in AccountStates
  BY <1>1, LedgerAssumption DEF AccountStates
<1>3. IsFiniteSet(DOMAIN w)
  BY <1>1, FS_Singleton
<1>4. AccountMap(w)
  BY <1>1, <1>2, <1>3 DEF AccountMap
<1>5. AccountMap(s) /\ DOMAIN s = {}
  BY FS_EmptySet DEF AccountMap
<1> HIDE DEF w, s
<1>6. PICK g : IsSum(g, [x \in DOMAIN s |-> s[x].balance], DOMAIN s) /\ Supply(s) = g[DOMAIN s]
  BY <1>5, SupplySum
<1>7. Supply(s) = 0
  BY <1>5, <1>6 DEF IsSum
<1>8. Balance(w, a) = GenesisAmount /\ Balance(s, a) = 0
  BY <1>1, <1>5 DEF Balance, GetAccount, NewAccount
<1>9. Supply(w) \in Int /\ Supply(w) - Balance(w, a) = Supply(s) - Balance(s, a)
  BY <1>1, <1>4, <1>5, SupplyOfOther
<1>10. Supply(w) = GenesisAmount
  BY <1>7, <1>8, <1>9, LedgerAssumption
<1>11. \A b : Nonce(w, b) = 0 /\ Kind(w, b) = "CLIENT"
  BY <1>1 DEF Nonce, Kind, GetAccount, NewAccount
<1> QED
  BY <1>4, <1>10, <1>11 DEF w

-----------------------------------------------------------------------------
(* What happens to the accounts in one go *)

\* The accounts s become w: loss is missing, the account of broken is replaced, and
\* nobody else's nonce or type changes, nor does anybody but payer have less.
Effect(s, w, loss, broken, payer) ==
  /\ AccountMap(w)
  /\ Supply(w) = Supply(s) - loss
  /\ \A b : b # broken => Nonce(w, b) = Nonce(s, b) /\ Kind(w, b) = Kind(s, b)
  /\ \A b : b # broken /\ b # payer => Balance(w, b) >= Balance(s, b)

\* One effect after the other.
LEMMA EffectsCompose ==
  ASSUME NEW s, AccountMap(s), NEW m, NEW w, NEW k \in Int, NEW l \in Int, NEW x, NEW p,
         Effect(s, m, k, x, p), Effect(m, w, l, x, p)
  PROVE  Effect(s, w, k + l, x, p)
<1>1. AccountMap(m) /\ AccountMap(w)
  BY DEF Effect
<1>2. \A b : Balance(s, b) \in Nat /\ Balance(m, b) \in Nat /\ Balance(w, b) \in Nat
  BY <1>1, GetAccountType
<1>3. Supply(s) \in Int
  BY SupplyOfOther
<1>4. Supply(w) = Supply(s) - (k + l)
  BY <1>3 DEF Effect
<1>5. \A b : b # x /\ b # p => Balance(w, b) >= Balance(s, b)
  <2>1. ASSUME NEW b, b # x, b # p PROVE Balance(w, b) >= Balance(s, b)
    <3>1. Balance(w, b) >= Balance(m, b) /\ Balance(m, b) >= Balance(s, b)
      BY <2>1 DEF Effect
    <3> QED
      BY <1>2, <3>1
  <2> QED
    BY <2>1
<1>6. \A b : b # x => Nonce(w, b) = Nonce(s, b) /\ Kind(w, b) = Kind(s, b)
  BY DEF Effect
<1> QED
  BY <1>1, <1>4, <1>5, <1>6 DEF Effect

\* The effects of the single operations.
LEMMA AddEffect ==
  ASSUME NEW s, AccountMap(s), NEW a \in Address, NEW n \in Nat, NEW x, NEW p
  PROVE  Effect(s, AddBalance(s, a, n), -n, x, p)
<1> DEFINE w == AddBalance(s, a, n)
<1>1. Changes(s, w, a, n)
  BY AddBalanceChanges
<1> HIDE DEF w
<1>2. Supply(s) \in Int /\ Balance(s, a) \in Nat
  BY SupplyOfOther, GetAccountType
<1>3. ASSUME NEW b PROVE Balance(w, b) >= Balance(s, b)
  <2>1. Balance(s, b) \in Nat
    BY GetAccountType
  <2>2. CASE b = a
    BY <1>1, <2>1, <2>2 DEF Changes
  <2>3. CASE b # a
    <3>1. Balance(w, b) = Balance(s, b)
      BY <1>1, <2>3 DEF Changes, Balance
    <3> QED
      BY <2>1, <3>1
  <2> QED
    BY <2>2, <2>3
<1>4. Supply(w) = Supply(s) - (-n)
  BY <1>1, <1>2 DEF Changes
<1> QED
  BY <1>1, <1>3, <1>4 DEF Changes, Effect, w

\* Taking money makes its owner the payer.
LEMMA SubEffect ==
  ASSUME NEW s, AccountMap(s), NEW a \in Address, NEW n \in Nat, n <= Balance(s, a), NEW x
  PROVE  Effect(s, SubBalance(s, a, n), n, x, a)
<1> DEFINE w == SubBalance(s, a, n)
<1>1. Changes(s, w, a, -n)
  BY SubBalanceChanges
<1> HIDE DEF w
<1>2. Supply(s) \in Int
  BY SupplyOfOther
<1>3. ASSUME NEW b, b # a PROVE Balance(w, b) >= Balance(s, b)
  <2>1. Balance(s, b) \in Nat
    BY GetAccountType
  <2>2. Balance(w, b) = Balance(s, b)
    BY <1>1, <1>3 DEF Changes, Balance
  <2> QED
    BY <2>1, <2>2
<1>4. Supply(w) = Supply(s) - n
  BY <1>1, <1>2 DEF Changes
<1> QED
  BY <1>1, <1>3, <1>4 DEF Changes, Effect, w

\* A transfer loses nothing.
LEMMA TransferEffect ==
  ASSUME NEW s, AccountMap(s), NEW from \in Address, NEW to \in Address, NEW n \in Nat,
         n <= Balance(s, from), NEW x
  PROVE  Effect(s, Transferred(s, from, to, n), 0, x, from)
<1> DEFINE m == SubBalance(s, from, n)
           w == AddBalance(m, to, n)
<1>1. Effect(s, m, n, x, from)
  BY SubEffect
<1>2. AccountMap(m)
  BY <1>1 DEF Effect
<1> HIDE DEF m
<1>3. Effect(m, w, -n, x, from)
  BY <1>2, AddEffect
<1> HIDE DEF w
<1>4. Effect(s, w, n + (-n), x, from)
  <2>1. n \in Int /\ -n \in Int
    OBVIOUS
  <2> QED
    BY <1>1, <1>3, <2>1, EffectsCompose
<1>5. n + (-n) = 0
  OBVIOUS
<1> QED
  BY <1>4, <1>5 DEF Transferred, w, m

\* Reading has no effect.
LEMMA TouchedEffect ==
  ASSUME NEW s, AccountMap(s), NEW a \in Address, NEW x, NEW p
  PROVE  Effect(s, Touched(s, a), 0, x, p)
<1> DEFINE w == Touched(s, a)
<1>1. AccountMap(w) /\ Supply(w) = Supply(s) /\ \A b : GetAccount(w, b) = GetAccount(s, b)
  BY TouchedMap
<1>2. Supply(s) \in Int /\ \A b : Balance(s, b) \in Nat
  BY SupplyOfOther, GetAccountType
<1> HIDE DEF w
<1>3. Supply(w) = Supply(s) - 0
  BY <1>1, <1>2
<1>4. \A b : Nonce(w, b) = Nonce(s, b) /\ Kind(w, b) = Kind(s, b) /\ Balance(w, b) = Balance(s, b)
  BY <1>1 DEF Nonce, Kind, Balance
<1> QED
  BY <1>1, <1>2, <1>3, <1>4 DEF Effect, w

\* A new contract replaces what is at its address.
LEMMA CreationEffect ==
  ASSUME NEW s, AccountMap(s), NEW a \in Address, NEW p
  PROVE  Effect(s, WithAccount(s, a, NewAccount("CONTRACT")), Balance(s, a), a, p)
<1> DEFINE c == NewAccount("CONTRACT")
           w == WithAccount(s, a, c)
<1>1. c \in AccountStates /\ c.balance = 0
  BY DEF NewAccount, AccountStates
<1> HIDE DEF c
<1>2. /\ AccountMap(w) /\ DOMAIN w = DOMAIN s \cup {a}
      /\ \A b : GetAccount(w, b) = IF b = a THEN c ELSE GetAccount(s, b)
  <2>1. c \in AccountStates
    BY <1>1
  <2>2. IsWith(w, s, a, c)
    BY <2>1, WithAccountMap
  <2> QED
    BY <2>2 DEF IsWith
<1>3. Supply(s) \in Int /\ Supply(w) = Supply(s) - Balance(s, a) + c.balance
  BY <1>1, SupplyWithAccount
<1> HIDE DEF w
<1>4. \A b : Balance(s, b) \in Nat
  BY GetAccountType
<1>5. Supply(w) = Supply(s) - Balance(s, a)
  BY <1>1, <1>3, <1>4
<1>6. \A b : b # a => Nonce(w, b) = Nonce(s, b) /\ Kind(w, b) = Kind(s, b) /\ Balance(w, b) = Balance(s, b)
  BY <1>2 DEF Nonce, Kind, Balance
<1> QED
  BY <1>2, <1>4, <1>5, <1>6 DEF Effect, w, c

\* Deleting an account breaks it and loses its balance.
LEMMA DeletionEffect ==
  ASSUME NEW s, AccountMap(s), NEW a, NEW p
  PROVE  Effect(s, Deleted(s, a), Balance(s, a), a, p)
<1> DEFINE w == Deleted(s, a)
<1>1. /\ AccountMap(w) /\ Supply(w) = Supply(s) - Balance(s, a)
      /\ \A b : b # a => GetAccount(w, b) = GetAccount(s, b)
  BY DeletedMap
<1> HIDE DEF w
<1>2. \A b : b # a => Nonce(w, b) = Nonce(s, b) /\ Kind(w, b) = Kind(s, b) /\ Balance(w, b) = Balance(s, b)
  BY <1>1 DEF Nonce, Kind, Balance
<1>3. \A b : Balance(s, b) \in Nat
  BY GetAccountType
<1> QED
  BY <1>1, <1>2, <1>3 DEF Effect, w

-----------------------------------------------------------------------------
(* Types *)

Item == Tx \X Coinbase

\* While a contract runs: the transaction is still at the head of the queue, the accounts
\* are as they were at its start, and its sender can pay all of the fee.
Executing ==
  /\ queue # <<>>
  /\ running \in [tx : {CurrentTx}, calls : Nat, burned : Nat, contract : Address, before : {accounts}]
  /\ Balance(accounts, Sender) >= Fee[CurrentTx]

LedgerTypes ==
  /\ AccountMap(accounts) /\ AccountMap(draft)
  /\ queue \in Seq(Item) /\ chain \in Seq(Seq(Item))
  /\ \A t \in DOMAIN outputs : t \in Tx /\ outputs[t].code \in Codes
  /\ mode \in {"applying", "replaying", "dead"} /\ (mode = "dead" => queue = <<>>)
  /\ uncaught \subseteq {"applying", "replaying"}
  /\ issued \in Int /\ burned \in Int
  /\ running # NoRun => Executing

\* The transaction at the head of the queue.
LEMMA CurrentItem ==
  ASSUME queue \in Seq(Item), queue # <<>>
  PROVE  /\ CurrentTx \in Tx /\ CurrentCoinbase \in Address /\ Sender \in Address
         /\ Fee[CurrentTx] \in Nat /\ Amount[CurrentTx] \in Nat
         /\ To[CurrentTx] # NullAddress => To[CurrentTx] \in Address
         /\ ContractAddress[CurrentTx] \in Address
         /\ Tail(queue) \in Seq(Item)
<1>1. Head(queue) \in Item /\ Tail(queue) \in Seq(Item)
  BY HeadTailProperties
<1>2. Head(queue)[1] \in Tx /\ Head(queue)[2] \in Coinbase
  BY <1>1 DEF Item
<1> QED
  BY <1>1, <1>2, LedgerAssumption DEF CurrentTx, CurrentCoinbase, Sender

\* A running execution is told apart from none.
LEMMA RunIsNotNone ==
  ASSUME NEW t, NEW k, NEW n, NEW c, NEW s
  PROVE  [tx |-> t, calls |-> k, burned |-> n, contract |-> c, before |-> s] # NoRun
<1> DEFINE v == [tx |-> t, calls |-> k, burned |-> n, contract |-> c, before |-> s]
<1>1. "calls" \in DOMAIN v /\ "calls" \notin DOMAIN NoRun
  BY DEF NoRun
<1> HIDE DEF v
<1>2. v # NoRun
  BY <1>1
<1> QED
  BY <1>2 DEF v

\* The accounts after addTransactionHash of tryPerformTransaction.
LEMMA ChargedMap ==
  ASSUME AccountMap(accounts), Sender \in Address
  PROVE  /\ AccountMap(Charged) /\ Supply(Charged) = Supply(accounts)
         /\ \A b : /\ Balance(Charged, b) = Balance(accounts, b) /\ Kind(Charged, b) = Kind(accounts, b)
                   /\ Nonce(Charged, b) = Nonce(accounts, b) + (IF b = Sender THEN 1 ELSE 0)
<1>1. IsCounted(Charged, accounts, Sender)
  BY WithTransactionMap DEF Charged
<1> QED
  BY <1>1 DEF IsCounted

\* The accounts after the destination has been read as well.
LEMMA KnownMap ==
  ASSUME AccountMap(accounts), Sender \in Address, To[CurrentTx] \in Address
  PROVE  /\ AccountMap(Known) /\ Supply(Known) = Supply(accounts)
         /\ \A b : /\ Balance(Known, b) = Balance(accounts, b) /\ Kind(Known, b) = Kind(accounts, b)
                   /\ Nonce(Known, b) = Nonce(accounts, b) + (IF b = Sender THEN 1 ELSE 0)
<1>1. /\ AccountMap(Charged) /\ Supply(Charged) = Supply(accounts)
      /\ \A b : /\ Balance(Charged, b) = Balance(accounts, b) /\ Kind(Charged, b) = Kind(accounts, b)
                /\ Nonce(Charged, b) = Nonce(accounts, b) + (IF b = Sender THEN 1 ELSE 0)
  BY ChargedMap
<1>2. /\ AccountMap(Known) /\ Supply(Known) = Supply(Charged)
      /\ \A b : GetAccount(Known, b) = GetAccount(Charged, b)
  BY <1>1, TouchedMap DEF Known
<1>3. \A b : Balance(Known, b) = Balance(Charged, b) /\ Kind(Known, b) = Kind(Charged, b)
             /\ Nonce(Known, b) = Nonce(Charged, b)
  BY <1>2 DEF Balance, Kind, Nonce
<1> QED
  BY <1>1, <1>2, <1>3

\* The copy a created contract starts with.
Paid == SubBalance(Charged, Sender, Fee[CurrentTx])
Created == WithAccount(Paid, ContractAddress[CurrentTx], NewAccount("CONTRACT"))
CreatedDraft == Transferred(Created, Sender, ContractAddress[CurrentTx], Amount[CurrentTx])

\* It misses the fee and what was at the address of the contract.
LEMMA CreatedEffect ==
  ASSUME AccountMap(accounts), queue \in Seq(Item), queue # <<>>,
         Balance(Charged, Sender) >= Fee[CurrentTx], CanTransfer(Created, Sender, Amount[CurrentTx])
  PROVE  /\ Balance(Paid, ContractAddress[CurrentTx]) \in Nat
         /\ Effect(Charged, CreatedDraft, Fee[CurrentTx] + Balance(Paid, ContractAddress[CurrentTx]),
                   ContractAddress[CurrentTx], Sender)
<1> DEFINE c == ContractAddress[CurrentTx]
           fee == Fee[CurrentTx]
           lost == Balance(Paid, c)
<1>0. Sender \in Address /\ c \in Address /\ fee \in Nat /\ Amount[CurrentTx] \in Nat
  BY CurrentItem
<1>1. AccountMap(Charged)
  BY <1>0, ChargedMap
<1>2. Balance(Charged, Sender) \in Nat
  BY <1>1, GetAccountType
<1>3. Effect(Charged, Paid, fee, c, Sender)
  BY <1>0, <1>1, <1>2, SubEffect DEF Paid
<1>4. AccountMap(Paid)
  BY <1>3 DEF Effect
<1>5. Effect(Paid, Created, lost, c, Sender) /\ lost \in Nat
  BY <1>0, <1>4, CreationEffect, GetAccountType DEF Created
<1>6. AccountMap(Created)
  BY <1>5 DEF Effect
<1>7. Balance(Created, Sender) \in Nat /\ Amount[CurrentTx] <= Balance(Created, Sender)
  BY <1>0, <1>6, GetAccountType DEF CanTransfer
<1>8. Effect(Created, CreatedDraft, 0, c, Sender)
  BY <1>0, <1>6, <1>7, TransferEffect DEF CreatedDraft
<1> HIDE DEF c, fee, lost
<1>9. fee \in Int /\ lost \in Int /\ 0 \in Int /\ lost + 0 = lost
  BY <1>0, <1>5
<1>10. Effect(Paid, CreatedDraft, lost + 0, c, Sender)
  BY <1>4, <1>5, <1>8, <1>9, EffectsCompose
<1>11. Effect(Charged, CreatedDraft, fee + lost, c, Sender)
  BY <1>1, <1>3, <1>9, <1>10, EffectsCompose
<1> QED
  BY <1>5, <1>11 DEF c, fee, lost

\* The copy a called contract starts with, which is also what a transfer of money makes
\* before the miner gets the fee.
CalledDraft == Transferred(FeeTaken, Sender, To[CurrentTx], Amount[CurrentTx])

\* It misses the fee.
LEMMA CalledEffect ==
  ASSUME AccountMap(accounts), queue \in Seq(Item), HasDestination,
         Balance(Known, Sender) >= Fee[CurrentTx], CanTransfer(FeeTaken, Sender, Amount[CurrentTx]), NEW x
  PROVE  Effect(Known, CalledDraft, Fee[CurrentTx], x, Sender)
<1> DEFINE fee == Fee[CurrentTx]
<1>0. Sender \in Address /\ To[CurrentTx] \in Address /\ fee \in Nat /\ Amount[CurrentTx] \in Nat
  BY CurrentItem DEF HasDestination
<1>1. AccountMap(Known)
  BY <1>0, KnownMap
<1>2. Balance(Known, Sender) \in Nat
  BY <1>1, GetAccountType
<1>3. Effect(Known, FeeTaken, fee, x, Sender)
  BY <1>0, <1>1, <1>2, SubEffect DEF FeeTaken
<1>4. AccountMap(FeeTaken)
  BY <1>3 DEF Effect
<1>5. Balance(FeeTaken, Sender) \in Nat /\ Amount[CurrentTx] <= Balance(FeeTaken, Sender)
  BY <1>0, <1>4, GetAccountType DEF CanTransfer
<1>6. Effect(FeeTaken, CalledDraft, 0, x, Sender)
  BY <1>0, <1>4, <1>5, TransferEffect DEF CalledDraft
<1> HIDE DEF fee
<1>7. fee \in Int /\ 0 \in Int /\ fee + 0 = fee
  BY <1>0
<1>8. Effect(Known, CalledDraft, fee + 0, x, Sender)
  BY <1>1, <1>3, <1>6, <1>7, EffectsCompose
<1> QED
  BY <1>7, <1>8 DEF fee

\* With the fee paid to the miner nothing is missing.
LEMMA PaidTransferEffect ==
  ASSUME AccountMap(accounts), queue \in Seq(Item), HasDestination,
         Balance(Known, Sender) >= Fee[CurrentTx], CanTransfer(FeeTaken, Sender, Amount[CurrentTx]), NEW x
  PROVE  Effect(Known, AddBalance(CalledDraft, CurrentCoinbase, Fee[CurrentTx]), 0, x, Sender)
<1> DEFINE fee == Fee[CurrentTx]
           w == AddBalance(CalledDraft, CurrentCoinbase, fee)
<1>0. Sender \in Address /\ To[CurrentTx] \in Address /\ CurrentCoinbase \in Address /\ fee \in Nat
  BY CurrentItem DEF HasDestination
<1>1. AccountMap(Known)
  BY <1>0, KnownMap
<1>2. Effect(Known, CalledDraft, fee, x, Sender)
  BY CalledEffect
<1>3. AccountMap(CalledDraft)
  BY <1>2 DEF Effect
<1>4. Effect(CalledDraft, w, -fee, x, Sender)
  BY <1>0, <1>3, AddEffect
<1> HIDE DEF fee, w
<1>5. fee \in Int /\ -fee \in Int /\ fee + (-fee) = 0
  BY <1>0
<1>6. Effect(Known, w, fee + (-fee), x, Sender)
  BY <1>1, <1>2, <1>4, <1>5, EffectsCompose
<1> QED
  BY <1>5, <1>6 DEF fee, w

\* EthHost::selfdestruct.
LEMMA DestroyedEffect ==
  ASSUME NEW s, AccountMap(s), NEW a \in Address, NEW b \in Address
  PROVE  LET moved == Transferred(s, a, b, Balance(s, a))
         IN  Balance(moved, a) \in Nat /\ Effect(s, Deleted(moved, a), Balance(moved, a), a, a)
<1> DEFINE moved == Transferred(s, a, b, Balance(s, a))
           lost == Balance(moved, a)
<1>1. Balance(s, a) \in Nat
  BY GetAccountType
<1>2. Effect(s, moved, 0, a, a)
  BY <1>1, TransferEffect
<1>3. AccountMap(moved)
  BY <1>2 DEF Effect
<1> HIDE DEF moved
<1>4. Effect(moved, Deleted(moved, a), lost, a, a) /\ lost \in Nat
  BY <1>3, DeletionEffect, GetAccountType
<1> HIDE DEF lost
<1>5. 0 \in Int /\ lost \in Int /\ 0 + lost = lost
  BY <1>4
<1>6. Effect(s, Deleted(moved, a), 0 + lost, a, a)
  BY <1>2, <1>4, <1>5, EffectsCompose
<1> QED
  BY <1>4, <1>5, <1>6 DEF moved, lost

\* A contract succeeds: the fee is divided between the miner and the sender.
SuccessDone == IF To[CurrentTx] = NullAddress THEN Touched(draft, running.contract) ELSE draft
SuccessState(gasLeft) ==
  AddBalance(AddBalance(SuccessDone, CurrentCoinbase, Fee[CurrentTx] - gasLeft), Sender, gasLeft)

\* The fee is back.
LEMMA SuccessEffect ==
  ASSUME LedgerTypes, running # NoRun, NEW gasLeft \in GasLeft, NEW x, NEW p
  PROVE  Effect(draft, SuccessState(gasLeft), -Fee[CurrentTx], x, p)
<1> DEFINE fee == Fee[CurrentTx]
           e == AddBalance(SuccessDone, CurrentCoinbase, fee - gasLeft)
           w == AddBalance(e, Sender, gasLeft)
<1>0. Sender \in Address /\ CurrentCoinbase \in Address /\ fee \in Nat /\ running.contract \in Address
  BY CurrentItem DEF LedgerTypes, Executing
<1>1. gasLeft \in Nat /\ fee - gasLeft \in Nat
  BY <1>0 DEF GasLeft
<1>2. AccountMap(draft)
  BY DEF LedgerTypes
<1>3. Effect(draft, SuccessDone, 0, x, p)
  <2>1. CASE To[CurrentTx] = NullAddress
    BY <1>0, <1>2, <2>1, TouchedEffect DEF SuccessDone
  <2>2. CASE To[CurrentTx] # NullAddress
    <3>1. SuccessDone = draft
      BY <2>2 DEF SuccessDone
    <3>2. Supply(draft) \in Int /\ \A b : Balance(draft, b) \in Nat
      BY <1>2, SupplyOfOther, GetAccountType
    <3>3. Supply(draft) = Supply(draft) - 0
      BY <3>2
    <3> QED
      BY <1>2, <3>1, <3>2, <3>3 DEF Effect
  <2> QED
    BY <2>1, <2>2
<1>4. AccountMap(SuccessDone)
  BY <1>3 DEF Effect
<1> HIDE DEF fee
<1>5. Effect(SuccessDone, e, -(fee - gasLeft), x, p)
  BY <1>0, <1>1, <1>4, AddEffect
<1>6. AccountMap(e)
  BY <1>5 DEF Effect
<1> HIDE DEF e
<1>7. Effect(e, w, -gasLeft, x, p)
  BY <1>0, <1>1, <1>6, AddEffect
<1> HIDE DEF w
<1>8. /\ 0 \in Int /\ -(fee - gasLeft) \in Int /\ -gasLeft \in Int
      /\ 0 + (-(fee - gasLeft) + (-gasLeft)) = -fee /\ -(fee - gasLeft) + (-gasLeft) \in Int
  BY <1>0, <1>1
<1>9. Effect(SuccessDone, w, -(fee - gasLeft) + (-gasLeft), x, p)
  BY <1>4, <1>5, <1>7, <1>8, EffectsCompose
<1>10. Effect(draft, w, 0 + (-(fee - gasLeft) + (-gasLeft)), x, p)
  BY <1>2, <1>3, <1>8, <1>9, EffectsCompose
<1>11. w = SuccessState(gasLeft)
  BY DEF SuccessState, w, e, fee
<1> QED
  BY <1>8, <1>10, <1>11 DEF fee

\* It does not: only the sender and the miner notice.
FailedState(gasLeft) ==
  AddBalance(SubBalance(accounts, Sender, gasLeft), CurrentCoinbase, Fee[CurrentTx] - gasLeft)

\* The sender pays gas_left, the miner gets the rest of the fee.
LEMMA FailedEffect ==
  ASSUME LedgerTypes, running # NoRun, NEW gasLeft \in GasLeft, NEW x
  PROVE  /\ Effect(accounts, FailedState(gasLeft), gasLeft - (Fee[CurrentTx] - gasLeft), x, Sender)
         /\ \A a : a \notin {Sender, CurrentCoinbase} =>
              /\ (a \in DOMAIN FailedState(gasLeft)) = (a \in DOMAIN accounts)
              /\ GetAccount(FailedState(gasLeft), a) = GetAccount(accounts, a)
<1> DEFINE fee == Fee[CurrentTx]
           m == SubBalance(accounts, Sender, gasLeft)
           w == AddBalance(m, CurrentCoinbase, fee - gasLeft)
<1>0. Sender \in Address /\ CurrentCoinbase \in Address /\ fee \in Nat
  BY CurrentItem DEF LedgerTypes, Executing
<1>1. gasLeft \in Nat /\ fee - gasLeft \in Nat /\ gasLeft <= fee
  BY <1>0 DEF GasLeft
<1>2. AccountMap(accounts) /\ Balance(accounts, Sender) >= fee
  BY DEF LedgerTypes, Executing
<1>3. gasLeft <= Balance(accounts, Sender)
  <2>1. Balance(accounts, Sender) \in Nat
    BY <1>2, GetAccountType
  <2> QED
    BY <1>0, <1>1, <1>2, <2>1
<1> HIDE DEF fee
<1>4. Effect(accounts, m, gasLeft, x, Sender) /\ Changes(accounts, m, Sender, -gasLeft)
  BY <1>0, <1>1, <1>2, <1>3, SubEffect, SubBalanceChanges
<1>5. AccountMap(m)
  BY <1>4 DEF Effect
<1> HIDE DEF m
<1>6. Effect(m, w, -(fee - gasLeft), x, Sender) /\ Changes(m, w, CurrentCoinbase, fee - gasLeft)
  BY <1>0, <1>1, <1>5, AddEffect, AddBalanceChanges
<1> HIDE DEF w
<1>7. gasLeft \in Int /\ -(fee - gasLeft) \in Int /\ gasLeft + (-(fee - gasLeft)) = gasLeft - (fee - gasLeft)
  BY <1>0, <1>1
<1>8. Effect(accounts, w, gasLeft + (-(fee - gasLeft)), x, Sender)
  BY <1>2, <1>4, <1>6, <1>7, EffectsCompose
<1>9. \A a : a \notin {Sender, CurrentCoinbase} =>
        (a \in DOMAIN w) = (a \in DOMAIN accounts) /\ GetAccount(w, a) = GetAccount(accounts, a)
  <2>1. ASSUME NEW a, a \notin {Sender, CurrentCoinbase}
        PROVE  (a \in DOMAIN w <=> a \in DOMAIN accounts) /\ GetAccount(w, a) = GetAccount(accounts, a)
    BY <1>4, <1>6, <2>1 DEF Changes
  <2> QED
    BY <2>1
<1>10. w = FailedState(gasLeft)
  BY DEF FailedState, w, m, fee
<1> QED
  BY <1>7, <1>8, <1>9, <1>10 DEF fee

-----------------------------------------------------------------------------
(* The types and the supply *)

LedgerInv == LedgerTypes /\ SupplyIsExact /\ Supply(accounts) = issued - burned

\* An output is added.
LEMMA OutputTypes ==
  ASSUME NEW o, \A t \in DOMAIN o : t \in Tx /\ o[t].code \in Codes,
         NEW c \in Tx, NEW code \in Codes, NEW feeLeft, NEW v,
         v = [t \in DOMAIN o \cup {c} |-> IF t = c THEN [code |-> code, feeLeft |-> feeLeft] ELSE o[t]]
  PROVE  \A t \in DOMAIN v : t \in Tx /\ v[t].code \in Codes
  OBVIOUS

\* A transaction ends.
LEMMA FinishInv ==
  ASSUME LedgerInv, queue # <<>>, NEW code \in Codes, NEW feeLeft,
         outputs' = [t \in DOMAIN outputs \cup {CurrentTx} |->
                       IF t = CurrentTx THEN [code |-> code, feeLeft |-> feeLeft] ELSE outputs[t]],
         AccountMap(accounts'), draft' = accounts', queue' = Tail(queue), running' = NoRun,
         burned' \in Int, Supply(accounts') = issued - burned', UNCHANGED bookkeeping
  PROVE  LedgerInv'
<1>1. Tail(queue) \in Seq(Item) /\ CurrentTx \in Tx
  BY CurrentItem DEF LedgerInv, LedgerTypes
<1>2. \A t \in DOMAIN outputs' : t \in Tx /\ outputs'[t].code \in Codes
  BY <1>1, OutputTypes DEF LedgerInv, LedgerTypes
<1>3. mode' # "dead"
  BY DEF LedgerInv, LedgerTypes, bookkeeping
<1>4. LedgerTypes'
  BY <1>1, <1>2, <1>3 DEF LedgerInv, LedgerTypes, bookkeeping
<1>5. SupplyIsExact' /\ (Supply(accounts) = issued - burned)'
  BY DEF SupplyIsExact, bookkeeping
<1> QED
  BY <1>4, <1>5 DEF LedgerInv

\* A contract starts.
LEMMA StartInv ==
  ASSUME LedgerInv, queue # <<>>, running = NoRun,
         AccountMap(accounts'), AccountMap(draft'), Balance(accounts', Sender) >= Fee[CurrentTx],
         Supply(accounts') = Supply(accounts),
         NEW contract \in Address, NEW lost \in Nat,
         running' = [tx |-> CurrentTx, calls |-> 0, burned |-> lost, contract |-> contract,
                     before |-> accounts'],
         Supply(draft') + Fee[CurrentTx] = Supply(accounts) - lost,
         UNCHANGED <<outputs, queue, burned>>, UNCHANGED bookkeeping
  PROVE  LedgerInv'
<1>1. running' # NoRun
  BY RunIsNotNone
<1>2. CurrentTx' = CurrentTx /\ Sender' = Sender
  BY DEF CurrentTx, Sender
<1>3. running'.burned = lost
  OBVIOUS
<1>4. running' \in [tx : {CurrentTx}, calls : Nat, burned : Nat, contract : Address, before : {accounts'}]
  OBVIOUS
<1>5. Executing'
  BY <1>2, <1>4 DEF Executing
<1>6. LedgerTypes'
  BY <1>5 DEF LedgerInv, LedgerTypes, bookkeeping
<1>7. Supply(accounts) = issued - burned
  BY DEF LedgerInv
<1>8. SupplyIsExact' /\ (Supply(accounts) = issued - burned)'
  BY <1>1, <1>2, <1>3, <1>7 DEF SupplyIsExact, bookkeeping
<1> QED
  BY <1>6, <1>8 DEF LedgerInv

\* A contract calls its host.
LEMMA HostInv ==
  ASSUME LedgerInv, running # NoRun, AccountMap(draft'), NEW lost \in Nat,
         Supply(draft') = Supply(draft) - lost,
         running' = [running EXCEPT !.calls = @ + 1, !.burned = @ + lost],
         UNCHANGED <<accounts, queue, outputs, bookkeeping, burned>>
  PROVE  LedgerInv'
<1>1. Executing
  BY DEF LedgerInv, LedgerTypes
<1>2. running \in [tx : {CurrentTx}, calls : Nat, burned : Nat, contract : Address, before : {accounts}]
  BY <1>1 DEF Executing
<1>3. running' = [tx |-> running.tx, calls |-> running.calls + 1, burned |-> running.burned + lost,
                  contract |-> running.contract, before |-> running.before]
  BY <1>2
<1>4. running' # NoRun
  BY <1>3, RunIsNotNone
<1>5. CurrentTx' = CurrentTx /\ Sender' = Sender
  BY DEF CurrentTx, Sender
<1>6. running' \in [tx : {CurrentTx}, calls : Nat, burned : Nat, contract : Address, before : {accounts}]
  BY <1>2, <1>3
<1>7. Executing'
  BY <1>1, <1>5, <1>6 DEF Executing
<1>8. LedgerTypes'
  BY <1>7 DEF LedgerInv, LedgerTypes, bookkeeping
<1>9. Supply(draft) + Fee[CurrentTx] = issued - burned - running.burned
  BY DEF LedgerInv, SupplyIsExact
<1>10. /\ Supply(draft) \in Int /\ Fee[CurrentTx] \in Nat /\ running.burned \in Nat
       /\ issued \in Int /\ burned \in Int /\ running'.burned = running.burned + lost
  BY <1>1, <1>2, <1>3, SupplyOfOther, CurrentItem DEF LedgerInv, LedgerTypes, Executing
<1>11. Supply(draft') + Fee[CurrentTx] = issued - burned - running'.burned
  BY <1>9, <1>10
<1>12. SupplyIsExact' /\ (Supply(accounts) = issued - burned)'
  BY <1>4, <1>5, <1>11 DEF LedgerInv, SupplyIsExact, bookkeeping
<1> QED
  BY <1>8, <1>12 DEF LedgerInv

\* The supply while no contract runs, and the supply to go back to while one does.
LEMMA AccountsSupply ==
  ASSUME LedgerInv
  PROVE  Supply(accounts) = issued - burned /\ issued \in Int /\ burned \in Int /\ Supply(accounts) \in Int
<1>1. Supply(accounts) \in Int
  BY SupplyOfOther DEF LedgerInv, LedgerTypes
<1> QED
  BY <1>1 DEF LedgerInv, LedgerTypes

\* The genesis block.
LEMMA InitInv ==
  ASSUME Init
  PROVE  LedgerInv
<1>1. AccountMap(accounts) /\ AccountMap(draft) /\ Supply(accounts) = GenesisAmount
  BY GenesisMap DEF Init
<1>2. queue \in Seq(Item) /\ chain \in Seq(Seq(Item))
  BY EmptySeq DEF Init
<1>3. LedgerTypes
  BY <1>1, <1>2, LedgerAssumption DEF Init, LedgerTypes
<1>4. SupplyIsExact /\ Supply(accounts) = issued - burned
  BY <1>1, LedgerAssumption DEF Init, SupplyIsExact
<1> QED
  BY <1>3, <1>4 DEF LedgerInv

\* The queue of a block.
LEMMA PairsType ==
  ASSUME NEW txs \in TxLists, NEW coinbase \in Coinbase
  PROVE  /\ txs \in Seq(Tx) /\ Pairs(txs, coinbase) \in Seq(Item) /\ Len(Pairs(txs, coinbase)) = Len(txs)
         /\ \A i \in 1..Len(txs) : Pairs(txs, coinbase)[i] = <<txs[i], coinbase>>
<1>1. PICK n \in 1..MaxTxInBlock : txs \in [1..n -> Tx]
  BY DEF TxLists
<1>2. n \in Nat
  BY LedgerAssumption
<1>3. txs \in Seq(Tx) /\ Len(txs) = n /\ DOMAIN txs = 1..n
  BY <1>1, <1>2
<1>4. Pairs(txs, coinbase) \in [1..n -> Item]
  BY <1>1, <1>3 DEF Pairs, Item
<1>5. Pairs(txs, coinbase) \in Seq(Item) /\ Len(Pairs(txs, coinbase)) = n
  BY <1>2, <1>4
<1> QED
  BY <1>3, <1>5 DEF Pairs

\* The emission is issued.
LEMMA ApplyBlockInv ==
  ASSUME LedgerInv, NEW txs \in TxLists, NEW coinbase \in Coinbase, ApplyBlock(txs, coinbase)
  PROVE  LedgerInv'
<1>1. running = NoRun
  BY DEF LedgerInv, LedgerTypes, Executing, ApplyBlock
<1>2. coinbase \in Address /\ EmissionValue \in Nat
  BY LedgerAssumption
<1>3. Changes(accounts, accounts', coinbase, EmissionValue)
  BY <1>2, AddBalanceChanges DEF LedgerInv, LedgerTypes, ApplyBlock
<1>4. AccountMap(accounts') /\ Supply(accounts') = Supply(accounts) + EmissionValue
  BY <1>3 DEF Changes
<1>5. queue' \in Seq(Item) /\ chain' \in Seq(Seq(Item))
  BY PairsType, AppendProperties DEF LedgerInv, LedgerTypes, ApplyBlock
<1>6. LedgerTypes'
  BY <1>1, <1>2, <1>4, <1>5 DEF LedgerInv, LedgerTypes, ApplyBlock
<1>7. SupplyIsExact' /\ (Supply(accounts) = issued - burned)'
  BY <1>1, <1>2, <1>4, AccountsSupply DEF SupplyIsExact, ApplyBlock
<1> QED
  BY <1>6, <1>7 DEF LedgerInv

\* Creation: failed, without money, or started.
LEMMA CreateContractInv ==
  ASSUME LedgerInv, CreateContract
  PROVE  LedgerInv'
<1> DEFINE t == CurrentTx
           contract == ContractAddress[t]
<1>0. queue \in Seq(Item) /\ queue # <<>> /\ running = NoRun /\ AccountMap(accounts)
  BY DEF LedgerInv, LedgerTypes, CreateContract
<1>1. Sender \in Address /\ Fee[t] \in Nat /\ contract \in Address
  BY <1>0, CurrentItem
<1>2. AccountMap(Charged) /\ Supply(Charged) = Supply(accounts)
  BY <1>0, <1>1, ChargedMap
<1>3. /\ Supply(accounts) = issued - burned
      /\ issued \in Int /\ burned \in Int /\ Supply(accounts) \in Int
  BY <1>0, AccountsSupply
<1>4. ASSUME NEW code \in Codes, Finish(code, Fee[t], Charged), burned' = burned PROVE LedgerInv'
  BY <1>0, <1>2, <1>3, <1>4, FinishInv DEF CreateContract, Finish
<1>5. ASSUME Balance(Charged, Sender) >= Fee[t], CanTransfer(Created, Sender, Amount[t]),
             accounts' = Charged, StartVm(contract, CreatedDraft, Balance(Paid, contract))
      PROVE  LedgerInv'
  <2> DEFINE lost == Balance(Paid, contract)
  <2>1. lost \in Nat /\ Effect(Charged, CreatedDraft, Fee[t] + lost, contract, Sender)
    BY <1>0, <1>5, CreatedEffect
  <2>2. AccountMap(draft') /\ Supply(draft') = Supply(accounts) - (Fee[t] + lost)
    BY <1>2, <1>5, <2>1 DEF Effect, StartVm
  <2>3. running' = [tx |-> t, calls |-> 0, burned |-> lost, contract |-> contract, before |-> accounts']
        /\ UNCHANGED <<outputs, queue, burned>> /\ UNCHANGED bookkeeping
    BY <1>5 DEF StartVm, CreateContract
  <2>4. Supply(draft') + Fee[t] = Supply(accounts) - lost
    <3> HIDE DEF lost, t
    <3> QED
      BY <1>1, <1>3, <2>1, <2>2
  <2>5. /\ AccountMap(accounts') /\ Balance(accounts', Sender) >= Fee[t]
        /\ Supply(accounts') = Supply(accounts)
    BY <1>2, <1>5
  <2> HIDE DEF lost
  <2> QED
    BY <1>0, <1>1, <2>1, <2>2, <2>3, <2>4, <2>5, StartInv
<1>6. "Failed" \in Codes /\ "NotEnoughBalance" \in Codes
  BY DEF Codes
<1>7. \/ Finish("Failed", Fee[t], Charged) /\ burned' = burned
      \/ Finish("NotEnoughBalance", Fee[t], Charged) /\ burned' = burned
      \/ /\ Balance(Charged, Sender) >= Fee[t] /\ CanTransfer(Created, Sender, Amount[t])
         /\ accounts' = Charged /\ StartVm(contract, CreatedDraft, Balance(Paid, contract))
  BY DEF CreateContract, Created, Paid, CreatedDraft
<1> QED
  BY <1>4, <1>5, <1>6, <1>7

\* The exception leaves the accounts as they were before the fee.
LEMMA FeeNotCoveredInv ==
  ASSUME LedgerInv, FeeNotCovered
  PROVE  LedgerInv'
<1>1. queue \in Seq(Item) /\ queue # <<>> /\ running = NoRun /\ AccountMap(accounts) /\ mode # "dead"
  BY DEF LedgerInv, LedgerTypes, FeeNotCovered, HasDestination
<1>2. Sender \in Address /\ To[CurrentTx] \in Address
  BY <1>1, CurrentItem DEF FeeNotCovered, HasDestination
<1>3. AccountMap(accounts') /\ accounts' = draft' /\ Supply(accounts') = Supply(accounts)
  BY <1>1, <1>2, KnownMap DEF FeeNotCovered, Throw
<1>4. queue' \in Seq(Item) /\ queue' = <<>> /\ running' = NoRun
  BY <1>1, EmptySeq DEF FeeNotCovered, Throw
<1>5. uncaught' \subseteq {"applying", "replaying"} /\ mode' \in {"applying", "replaying", "dead"}
  BY <1>1 DEF LedgerInv, LedgerTypes, FeeNotCovered, Throw
<1>6. LedgerTypes'
  BY <1>3, <1>4, <1>5 DEF LedgerInv, LedgerTypes, FeeNotCovered, Throw
<1>7. SupplyIsExact' /\ (Supply(accounts) = issued - burned)'
  BY <1>1, <1>3, <1>4, AccountsSupply DEF SupplyIsExact, FeeNotCovered, Throw
<1> QED
  BY <1>6, <1>7 DEF LedgerInv

\* A call: malformed, without money, or started.
LEMMA CallContractInv ==
  ASSUME LedgerInv, CallContract
  PROVE  LedgerInv'
<1> DEFINE t == CurrentTx
<1>0. queue \in Seq(Item) /\ queue # <<>> /\ running = NoRun /\ AccountMap(accounts) /\ HasDestination
      /\ Balance(Known, Sender) >= Fee[t] /\ UNCHANGED bookkeeping
  BY DEF LedgerInv, LedgerTypes, CallContract, HasDestination
<1>1. Sender \in Address /\ Fee[t] \in Nat /\ To[t] \in Address
  BY <1>0, CurrentItem DEF HasDestination
<1>2. AccountMap(Known) /\ Supply(Known) = Supply(accounts)
  BY <1>0, <1>1, KnownMap
<1>3. /\ Supply(accounts) = issued - burned
      /\ issued \in Int /\ burned \in Int /\ Supply(accounts) \in Int
  BY <1>0, AccountsSupply
<1>4. ASSUME NEW code \in Codes, Finish(code, Fee[t], Known), burned' = burned PROVE LedgerInv'
  BY <1>0, <1>2, <1>3, <1>4, FinishInv DEF Finish
<1>5. ASSUME CanTransfer(FeeTaken, Sender, Amount[t]), accounts' = Known, StartVm(To[t], CalledDraft, 0)
      PROVE  LedgerInv'
  <2>1. Effect(Known, CalledDraft, Fee[t], NullAddress, Sender)
    BY <1>0, <1>5, CalledEffect
  <2>2. AccountMap(draft') /\ Supply(draft') = Supply(accounts) - Fee[t]
    BY <1>2, <1>5, <2>1 DEF Effect, StartVm
  <2>3. running' = [tx |-> t, calls |-> 0, burned |-> 0, contract |-> To[t], before |-> accounts']
        /\ UNCHANGED <<outputs, queue, burned>>
    BY <1>5 DEF StartVm
  <2>4. Supply(draft') + Fee[t] = Supply(accounts) - 0 /\ 0 \in Nat
    <3> HIDE DEF t
    <3> QED
      BY <1>1, <1>3, <2>2
  <2>5. /\ AccountMap(accounts') /\ Balance(accounts', Sender) >= Fee[t]
        /\ Supply(accounts') = Supply(accounts)
    BY <1>0, <1>2, <1>5
  <2> QED
    BY <1>0, <1>1, <2>2, <2>3, <2>4, <2>5, StartInv
<1>6. "BadQueryForm" \in Codes /\ "NotEnoughBalance" \in Codes
  BY DEF Codes
<1>7. \/ Finish("BadQueryForm", Fee[t], Known) /\ burned' = burned
      \/ Finish("NotEnoughBalance", Fee[t], Known) /\ burned' = burned
      \/ /\ CanTransfer(FeeTaken, Sender, Amount[t])
         /\ accounts' = Known /\ StartVm(To[t], CalledDraft, 0)
  BY DEF CallContract, CalledDraft
<1> QED
  BY <1>4, <1>5, <1>6, <1>7

\* A transfer, refused or done.
LEMMA TransferMoneyInv ==
  ASSUME LedgerInv, TransferMoney
  PROVE  LedgerInv'
<1> DEFINE t == CurrentTx
           w == AddBalance(CalledDraft, CurrentCoinbase, Fee[t])
<1>0. queue \in Seq(Item) /\ queue # <<>> /\ running = NoRun /\ AccountMap(accounts) /\ HasDestination
      /\ Balance(Known, Sender) >= Fee[t] /\ UNCHANGED bookkeeping /\ burned' = burned
  BY DEF LedgerInv, LedgerTypes, TransferMoney, HasDestination
<1>1. Sender \in Address /\ To[t] \in Address
  BY <1>0, CurrentItem DEF HasDestination
<1>2. AccountMap(Known) /\ Supply(Known) = Supply(accounts)
  BY <1>0, <1>1, KnownMap
<1>3. /\ Supply(accounts) = issued - burned
      /\ issued \in Int /\ burned \in Int /\ Supply(accounts) \in Int
  BY <1>0, AccountsSupply
<1>4. ASSUME Finish("NotEnoughBalance", Fee[t], Known) PROVE LedgerInv'
  <2>1. "NotEnoughBalance" \in Codes
    BY DEF Codes
  <2> QED
    BY <1>0, <1>2, <1>3, <1>4, <2>1, FinishInv DEF Finish
<1>5. ASSUME CanTransfer(FeeTaken, Sender, Amount[t]), Finish("Success", 0, w) PROVE LedgerInv'
  <2>1. Effect(Known, w, 0, NullAddress, Sender) /\ "Success" \in Codes
    BY <1>0, <1>5, PaidTransferEffect DEF Codes
  <2>2. AccountMap(w) /\ Supply(w) = Supply(accounts)
    BY <1>2, <1>3, <2>1 DEF Effect
  <2> HIDE DEF w
  <2> QED
    BY <1>0, <1>3, <1>5, <2>1, <2>2, FinishInv DEF Finish
<1> QED
  BY <1>4, <1>5 DEF TransferMoney, CalledDraft

\* The three kinds of host calls.
LEMMA HostCallInv ==
  ASSUME LedgerInv, HostCall,
         \/ \E from, to \in Address, n \in Amounts : HostTransfer(from, to, n)
         \/ \E a, beneficiary \in Address : SelfDestruct(a, beneficiary)
         \/ \E a \in Address : HostTouch(a)
  PROVE  LedgerInv'
<1>0. running # NoRun /\ AccountMap(draft) /\ Supply(draft) \in Int
      /\ running \in [tx : {CurrentTx}, calls : Nat, burned : Nat, contract : Address, before : {accounts}]
  BY SupplyOfOther DEF HostCall, LedgerInv, LedgerTypes, Executing
<1>1. [running EXCEPT !.calls = @ + 1] = [running EXCEPT !.calls = @ + 1, !.burned = @ + 0]
  <2>1. running.burned + 0 = running.burned
    BY <1>0
  <2> QED
    BY <1>0, <2>1
<1>2. ASSUME NEW from \in Address, NEW to \in Address, NEW n \in Amounts, HostTransfer(from, to, n)
      PROVE  LedgerInv'
  <2>1. n \in Nat
    BY LedgerAssumption DEF Amounts
  <2>2. AccountMap(draft') /\ Supply(draft') = Supply(draft) - 0
    <3>1. CASE CanTransfer(draft, from, n)
      <4>1. n <= Balance(draft, from)
        <5>1. Balance(draft, from) \in Nat
          BY <1>0, GetAccountType
        <5> QED
          BY <2>1, <3>1, <5>1 DEF CanTransfer
      <4>2. Effect(draft, draft', 0, NullAddress, from)
        BY <1>0, <1>2, <2>1, <3>1, <4>1, TransferEffect DEF HostTransfer
      <4> QED
        BY <4>2 DEF Effect
    <3>2. CASE ~CanTransfer(draft, from, n)
      BY <1>0, <1>2, <3>2 DEF HostTransfer
    <3> QED
      BY <3>1, <3>2
  <2>3. 0 \in Nat /\ running' = [running EXCEPT !.calls = @ + 1, !.burned = @ + 0]
        /\ UNCHANGED <<accounts, queue, outputs, bookkeeping, burned>>
    BY <1>1, <1>2 DEF HostTransfer
  <2> QED
    BY <1>0, <2>2, <2>3, HostInv
<1>3. ASSUME NEW a \in Address, NEW beneficiary \in Address, SelfDestruct(a, beneficiary)
      PROVE  LedgerInv'
  <2> DEFINE moved == Transferred(draft, a, beneficiary, Balance(draft, a))
             lost == Balance(moved, a)
  <2>1. lost \in Nat /\ Effect(draft, Deleted(moved, a), lost, a, a)
    BY <1>0, DestroyedEffect
  <2>2. draft' = Deleted(moved, a) /\ running' = [running EXCEPT !.calls = @ + 1, !.burned = @ + lost]
        /\ UNCHANGED <<accounts, queue, outputs, bookkeeping, burned>>
    BY <1>3 DEF SelfDestruct
  <2> HIDE DEF moved, lost
  <2>3. AccountMap(draft') /\ Supply(draft') = Supply(draft) - lost
    BY <2>1, <2>2 DEF Effect
  <2> QED
    BY <1>0, <2>1, <2>2, <2>3, HostInv
<1>4. ASSUME NEW a \in Address, HostTouch(a) PROVE LedgerInv'
  <2>1. Effect(draft, draft', 0, NullAddress, NullAddress)
    BY <1>0, <1>4, TouchedEffect DEF HostTouch
  <2>2. 0 \in Nat /\ running' = [running EXCEPT !.calls = @ + 1, !.burned = @ + 0]
        /\ UNCHANGED <<accounts, queue, outputs, bookkeeping, burned>>
    BY <1>1, <1>4 DEF HostTouch
  <2>3. AccountMap(draft') /\ Supply(draft') = Supply(draft) - 0
    BY <2>1 DEF Effect
  <2> QED
    BY <1>0, <2>2, <2>3, HostInv
<1> QED
  BY <1>2, <1>3, <1>4

\* Success: what the contract lost is lost now.
LEMMA VmSuccessInv ==
  ASSUME LedgerInv, running # NoRun, NEW gasLeft \in GasLeft, VmSuccess(gasLeft)
  PROVE  LedgerInv'
<1> DEFINE w == SuccessState(gasLeft)
           fee == Fee[CurrentTx]
<1>1. LedgerTypes /\ Executing /\ queue # <<>> /\ queue \in Seq(Item) /\ AccountMap(draft)
  BY DEF LedgerInv, LedgerTypes, Executing
<1>2. Effect(draft, w, -fee, NullAddress, NullAddress)
  BY <1>1, SuccessEffect
<1>3. Finish("Success", gasLeft, w) /\ burned' = burned + running.burned /\ UNCHANGED bookkeeping
  BY DEF VmSuccess, SuccessState, SuccessDone
<1>4. Supply(draft) \in Int /\ fee \in Nat /\ burned \in Int /\ issued \in Int
  BY <1>1, SupplyOfOther, CurrentItem DEF LedgerTypes
<1>5. running.burned \in Nat /\ Supply(draft) + fee = issued - burned - running.burned
  BY <1>1 DEF LedgerInv, SupplyIsExact, Executing
<1> HIDE DEF w, fee
<1>6. AccountMap(w) /\ Supply(w) = Supply(draft) - (-fee)
  BY <1>2 DEF Effect
<1>7. burned' \in Int /\ Supply(w) = issued - burned'
  BY <1>3, <1>4, <1>5, <1>6
<1>8. "Success" \in Codes
  BY DEF Codes
<1> QED
  BY <1>1, <1>3, <1>6, <1>7, <1>8, FinishInv DEF Finish

\* Failure: back to the accounts, at the price of the fee.
LEMMA VmNoSuccessInv ==
  ASSUME LedgerInv, running # NoRun, NEW gasLeft \in GasLeft, NEW code \in Codes,
         VmNoSuccess(code, gasLeft)
  PROVE  LedgerInv'
<1> DEFINE w == FailedState(gasLeft)
           fee == Fee[CurrentTx]
<1>1. LedgerTypes /\ Executing /\ queue # <<>> /\ queue \in Seq(Item) /\ AccountMap(accounts)
  BY DEF LedgerInv, LedgerTypes, Executing
<1>2. Effect(accounts, w, gasLeft - (fee - gasLeft), NullAddress, Sender)
  BY <1>1, FailedEffect
<1>3. Finish(code, gasLeft, w) /\ burned' = burned + gasLeft - (fee - gasLeft) /\ UNCHANGED bookkeeping
  BY DEF VmNoSuccess, FailedState
<1>4. /\ Supply(accounts) = issued - burned
      /\ issued \in Int /\ burned \in Int /\ Supply(accounts) \in Int
  BY AccountsSupply
<1>5. fee \in Nat /\ gasLeft \in Nat
  BY <1>1, CurrentItem DEF GasLeft
<1> HIDE DEF w, fee
<1>6. AccountMap(w) /\ Supply(w) = Supply(accounts) - (gasLeft - (fee - gasLeft))
  BY <1>2 DEF Effect
<1>7. burned' \in Int /\ Supply(w) = issued - burned'
  BY <1>3, <1>4, <1>5, <1>6
<1> QED
  BY <1>1, <1>3, <1>6, <1>7, FinishInv DEF Finish

\* A restart begins with the genesis block again.
LEMMA RestartInv ==
  ASSUME LedgerInv, Restart
  PROVE  LedgerInv'
<1>1. AccountMap(accounts') /\ AccountMap(draft') /\ Supply(accounts') = GenesisAmount
  BY GenesisMap DEF Restart
<1>2. queue' \in Seq(Item)
  <2>1. <<>> \in Seq(Item)
    BY EmptySeq
  <2> QED
    BY <2>1, FlattenAppend DEF Restart, LedgerInv, LedgerTypes
<1>3. LedgerTypes'
  BY <1>1, <1>2, LedgerAssumption DEF Restart, LedgerInv, LedgerTypes
<1>4. SupplyIsExact' /\ (Supply(accounts) = issued - burned)'
  BY <1>1, LedgerAssumption DEF Restart, SupplyIsExact
<1> QED
  BY <1>3, <1>4 DEF LedgerInv

\* The end of a replay, and no step at all.
LEMMA ReplayDoneInv ==
  ASSUME LedgerInv, ReplayDone \/ UNCHANGED vars
  PROVE  LedgerInv'
<1>1. UNCHANGED <<accounts, draft, running, queue, chain, outputs, uncaught, issued, burned>>
      /\ mode' \in {mode, "applying"}
  BY DEF ReplayDone, vars
<1>2. Executing' = Executing
  BY <1>1 DEF Executing, CurrentTx, Sender
<1>3. SupplyIsExact' = SupplyIsExact
  BY <1>1 DEF SupplyIsExact, CurrentTx
<1>4. LedgerTypes'
  BY <1>1, <1>2 DEF LedgerInv, LedgerTypes
<1> QED
  BY <1>1, <1>3, <1>4 DEF LedgerInv

\* Every step keeps the invariant.
LEMMA LedgerStep ==
  ASSUME LedgerInv, [Next]_vars
  PROVE  LedgerInv'
<1>1. ASSUME running # NoRun, NEW gasLeft \in GasLeft, VmRevert(gasLeft) PROVE LedgerInv'
  BY <1>1, VmNoSuccessInv DEF VmRevert, Codes
<1>2. ASSUME VmFailure PROVE LedgerInv'
  <2>1. running # NoRun
    BY <1>2 DEF VmFailure, VmNoSuccess
  <2>2. 0 \in GasLeft
    <3>1. Fee[CurrentTx] \in Nat
      BY <2>1, CurrentItem DEF LedgerInv, LedgerTypes, Executing
    <3> QED
      BY <3>1 DEF GasLeft
  <2> QED
    BY <1>2, <2>1, <2>2, VmNoSuccessInv DEF VmFailure, Codes
<1>3. ASSUME \/ \E from, to \in Address, n \in Amounts : HostTransfer(from, to, n)
             \/ \E a, beneficiary \in Address : SelfDestruct(a, beneficiary)
             \/ \E a \in Address : HostTouch(a)
      PROVE  LedgerInv'
  <2>1. HostCall
    BY <1>3 DEF HostTransfer, SelfDestruct, HostTouch
  <2> QED
    BY <1>3, <2>1, HostCallInv
<1> QED
  BY <1>1, <1>2, <1>3, ApplyBlockInv, CreateContractInv, FeeNotCoveredInv, CallContractInv, TransferMoneyInv,
     VmSuccessInv, RestartInv, ReplayDoneInv DEF Next

\* The inductive invariant: the types, and the supply both of the copy and of the accounts,
\* which count again when a contract fails.
THEOREM LedgerInvariant == Spec => []LedgerInv
<1>1. Init => LedgerInv
  BY InitInv
<1>2. LedgerInv /\ [Next]_vars => LedgerInv'
  BY LedgerStep
<1> QED
  BY <1>1, <1>2, PTL DEF Spec

\* Every variable keeps its type; no balance is ever negative, whatever contracts, blocks
\* and failures do, in the accounts and in the copy a contract works on.
THEOREM LedgerTyped == Spec => []TypeOK
<1>1. LedgerInv => TypeOK
  BY DEF LedgerInv, LedgerTypes, AccountMap, TypeOK, Item
<1> QED
  BY <1>1, LedgerInvariant, PTL

\* The balances add up to what was handed out, less what was deleted.
THEOREM LedgerSupplyIsExact == Spec => []SupplyIsExact
<1>1. LedgerInv => SupplyIsExact
  BY DEF LedgerInv
<1> QED
  BY <1>1, LedgerInvariant, PTL

\* A contract that does not succeed changes nobody but the sender and the miner.
THEOREM LedgerFailureIsIsolated == Spec => FailureIsIsolated
<1>1. ASSUME LedgerInv, [Next]_vars, running # NoRun, running' = NoRun, CurrentTx \in DOMAIN outputs',
             outputs'[CurrentTx].code \in {"Revert", "BadQueryForm"},
             NEW a \in Address \ {Sender, CurrentCoinbase}
      PROVE  /\ (a \in DOMAIN accounts') = (a \in DOMAIN running.before)
             /\ GetAccount(accounts', a) = GetAccount(running.before, a)
  <2>0. LedgerTypes /\ Executing
    BY <1>1 DEF LedgerInv, LedgerTypes
  <2>1. /\ running.before = accounts /\ Fee[CurrentTx] \in Nat
        /\ running \in [tx : {CurrentTx}, calls : Nat, burned : Nat, contract : Address, before : {accounts}]
    BY <2>0, CurrentItem DEF LedgerTypes, Executing
  <2>2. ASSUME NEW n, running' = [running EXCEPT !.calls = @ + 1, !.burned = n] PROVE FALSE
    <3>1. running' = [tx |-> running.tx, calls |-> running.calls + 1, burned |-> n,
                      contract |-> running.contract, before |-> running.before]
      BY <2>1, <2>2
    <3> QED
      BY <1>1, <3>1, RunIsNotNone
  <2>3. ASSUME running' = [running EXCEPT !.calls = @ + 1] PROVE FALSE
    <3>1. running' = [tx |-> running.tx, calls |-> running.calls + 1, burned |-> running.burned,
                      contract |-> running.contract, before |-> running.before]
      BY <2>1, <2>3
    <3> QED
      BY <1>1, <3>1, RunIsNotNone
  <2>4. ASSUME NEW gasLeft \in GasLeft, NEW code, VmNoSuccess(code, gasLeft)
        PROVE  /\ (a \in DOMAIN accounts') = (a \in DOMAIN running.before)
               /\ GetAccount(accounts', a) = GetAccount(running.before, a)
    <3>1. accounts' = FailedState(gasLeft)
      BY <2>4 DEF VmNoSuccess, Finish, FailedState
    <3> QED
      BY <1>1, <2>0, <2>1, <2>4, <3>1, FailedEffect
  <2>5. ASSUME NEW gasLeft \in GasLeft, VmSuccess(gasLeft) PROVE FALSE
    <3>1. outputs'[CurrentTx].code = "Success"
      BY <2>5 DEF VmSuccess, Finish
    <3> QED
      BY <1>1, <3>1
  <2>6. ASSUME Restart PROVE FALSE
    BY <1>1, <2>6 DEF Restart
  <2>7. ASSUME NEW gasLeft \in GasLeft, VmRevert(gasLeft)
        PROVE  /\ (a \in DOMAIN accounts') = (a \in DOMAIN running.before)
               /\ GetAccount(accounts', a) = GetAccount(running.before, a)
    BY <2>4, <2>7 DEF VmRevert
  <2>8. ASSUME VmFailure
        PROVE  /\ (a \in DOMAIN accounts') = (a \in DOMAIN running.before)
               /\ GetAccount(accounts', a) = GetAccount(running.before, a)
    <3>1. 0 \in GasLeft
      BY <2>1 DEF GasLeft
    <3> QED
      BY <2>4, <2>8, <3>1 DEF VmFailure
  <2>9. ASSUME \/ \E txs \in TxLists, coinbase \in Coinbase : ApplyBlock(txs, coinbase)
               \/ CreateContract \/ CallContract \/ TransferMoney \/ FeeNotCovered
               \/ ReplayDone \/ UNCHANGED vars
        PROVE  FALSE
    BY <1>1, <2>9 DEF ApplyBlock, CreateContract, CallContract, TransferMoney, FeeNotCovered,
                      HasDestination, ReplayDone, vars
  <2>10. ASSUME \/ \E from, to \in Address, n \in Amounts : HostTransfer(from, to, n)
                \/ \E b, beneficiary \in Address : SelfDestruct(b, beneficiary)
                \/ \E b \in Address : HostTouch(b)
         PROVE  FALSE
    BY <2>2, <2>3, <2>10 DEF HostTransfer, SelfDestruct, HostTouch
  <2> QED
    BY <1>1, <2>5, <2>6, <2>7, <2>8, <2>9, <2>10 DEF Next
<1>2. LedgerInv /\ [Next]_vars =>
        [running # NoRun /\ running' = NoRun /\ CurrentTx \in DOMAIN outputs'
         /\ outputs'[CurrentTx].code \in {"Revert", "BadQueryForm"} =>
           \A a \in Address \ {Sender, CurrentCoinbase} :
             /\ (a \in DOMAIN accounts') = (a \in DOMAIN running.before)
             /\ GetAccount(accounts', a) = GetAccount(running.before, a)]_vars
  BY <1>1
<1> QED
  BY <1>2, LedgerInvariant, PTL DEF Spec, FailureIsIsolated

-----------------------------------------------------------------------------
(* Counting the transactions of a sender *)

Places(q, a) == {i \in DOMAIN q : From[q[i][1]] = a}

\* A count is a number.
LEMMA CountType ==
  ASSUME NEW q \in Seq(Item), NEW a
  PROVE  IsFiniteSet(Places(q, a)) /\ CountFrom(q, a) \in Nat /\ CountFrom(q, a) = Cardinality(Places(q, a))
<1>1. Len(q) \in Nat /\ DOMAIN q = 1..Len(q)
  BY LenProperties
<1>2. IsFiniteSet(1..Len(q)) /\ Places(q, a) \subseteq 1..Len(q)
  BY <1>1, FS_Interval DEF Places
<1>3. IsFiniteSet(Places(q, a)) /\ Cardinality(Places(q, a)) \in Nat
  BY <1>2, FS_Subset, FS_CardinalityType
<1> QED
  BY <1>3 DEF CountFrom, Places

\* Counting in two parts.
LEMMA CountConcat ==
  ASSUME NEW q \in Seq(Item), NEW r \in Seq(Item), NEW a
  PROVE  CountFrom(q \o r, a) = CountFrom(q, a) + CountFrom(r, a)
<1> DEFINE c == q \o r
           m == Len(q)
           n == Len(r)
           A == Places(q, a)
           B == Places(r, a)
           C == {m + i : i \in B}
<1>1. m \in Nat /\ n \in Nat /\ DOMAIN q = 1..m /\ DOMAIN r = 1..n
  BY LenProperties
<1>2. /\ c \in Seq(Item) /\ Len(c) = m + n /\ DOMAIN c = 1..(m + n)
      /\ \A i \in 1..(m + n) : c[i] = IF i <= m THEN q[i] ELSE r[i - m]
  BY ConcatProperties, LenProperties
<1> HIDE DEF c, m, n
<1>3. B \subseteq 1..n /\ A \subseteq 1..m
  BY <1>1 DEF Places
<1>4. Places(c, a) = A \cup C
  <2>1. ASSUME NEW i \in Places(c, a) PROVE i \in A \cup C
    <3>1. i \in 1..(m + n) /\ From[c[i][1]] = a
      BY <1>2 DEF Places
    <3>2. CASE i <= m
      <4>1. i \in DOMAIN q /\ From[q[i][1]] = a
        BY <1>1, <1>2, <3>1, <3>2
      <4> QED
        BY <4>1 DEF Places
    <3>3. CASE ~(i <= m)
      <4>1. i - m \in DOMAIN r /\ From[r[i - m][1]] = a /\ i = m + (i - m)
        BY <1>1, <1>2, <3>1, <3>3
      <4>2. i - m \in B
        BY <4>1 DEF Places
      <4> QED
        BY <4>1, <4>2
    <3> QED
      BY <3>2, <3>3
  <2>2. ASSUME NEW i \in A PROVE i \in Places(c, a)
    <3>1. i \in 1..m /\ From[q[i][1]] = a
      BY <1>1 DEF Places
    <3>2. i \in 1..(m + n) /\ c[i] = q[i]
      BY <1>1, <1>2, <3>1
    <3> QED
      BY <1>2, <3>1, <3>2 DEF Places
  <2>3. ASSUME NEW j \in B PROVE m + j \in Places(c, a)
    <3>1. j \in 1..n /\ From[r[j][1]] = a
      BY <1>1 DEF Places
    <3>2. m + j \in 1..(m + n) /\ ~(m + j <= m) /\ (m + j) - m = j
      BY <1>1, <3>1
    <3>3. c[m + j] = r[j]
      BY <1>2, <3>2
    <3> QED
      BY <1>2, <3>1, <3>2, <3>3 DEF Places
  <2> QED
    BY <2>1, <2>2, <2>3
<1>5. A \cap C = {}
  <2>1. ASSUME NEW i \in A, NEW j \in B, i = m + j PROVE FALSE
    <3>1. i \in 1..m /\ j \in 1..n
      BY <1>3
    <3> QED
      BY <1>1, <2>1, <3>1
  <2> QED
    BY <2>1
<1>6. IsFiniteSet(A) /\ IsFiniteSet(B) /\ Cardinality(A) \in Nat /\ Cardinality(B) \in Nat
  BY CountType, FS_CardinalityType
<1>7. IsFiniteSet(C) /\ Cardinality(C) = Cardinality(B)
  <2> DEFINE f == [i \in B |-> m + i]
  <2>1. f \in [B -> C]
    OBVIOUS
  <2>2. \A i, j \in B : f[i] = f[j] => i = j
    <3>1. \A i \in B : i \in Int
      BY <1>1, <1>3
    <3> QED
      BY <1>1, <3>1
  <2>3. \A x \in C : \E i \in B : f[i] = x
    OBVIOUS
  <2> HIDE DEF f, B, C
  <2>4. f \in Bijection(B, C)
    BY <2>1, <2>2, <2>3 DEF Bijection, Injection, Surjection, IsInjective
  <2>5. ExistsBijection(B, C)
    BY <2>4 DEF ExistsBijection
  <2> QED
    BY <1>6, <2>5, FS_Bijection
<1>8. Cardinality(A \cup C) = Cardinality(A) + Cardinality(C) - Cardinality(A \cap C)
  <2> HIDE DEF A, C
  <2> QED
    BY <1>6, <1>7, FS_Union
<1>9. Cardinality(A \cap C) = 0
  BY <1>5, FS_EmptySet
<1>10. CountFrom(c, a) = Cardinality(Places(c, a))
  BY <1>2, CountType
<1>11. CountFrom(q, a) = Cardinality(A) /\ CountFrom(r, a) = Cardinality(B)
  BY CountType
<1> HIDE DEF A, B, C
<1>12. CountFrom(c, a) = CountFrom(q, a) + CountFrom(r, a)
  BY <1>4, <1>6, <1>7, <1>8, <1>9, <1>10, <1>11
<1> QED
  BY <1>12 DEF c

\* Counting without the first.
LEMMA CountTail ==
  ASSUME NEW q \in Seq(Item), q # <<>>, NEW a
  PROVE  CountFrom(q, a) = CountFrom(Tail(q), a) + (IF From[Head(q)[1]] = a THEN 1 ELSE 0)
<1> DEFINE h == <<Head(q)>>
           r == Tail(q)
<1>1. Head(q) \in Item /\ r \in Seq(Item) /\ h \in Seq(Item)
  BY HeadTailProperties
<1>2. q = h \o r
  BY HeadTailProperties, <1>1
<1>3. CountFrom(h, a) = IF From[Head(q)[1]] = a THEN 1 ELSE 0
  <2>1. DOMAIN h = {1} /\ h[1] = Head(q)
    OBVIOUS
  <2>2. Places(h, a) = IF From[Head(q)[1]] = a THEN {1} ELSE {}
    BY <2>1 DEF Places
  <2>3. Cardinality({1}) = 1 /\ Cardinality({}) = 0
    BY FS_Singleton, FS_EmptySet
  <2>4. CountFrom(h, a) = Cardinality(Places(h, a))
    BY <1>1, CountType
  <2> HIDE DEF h
  <2> QED
    BY <2>2, <2>3, <2>4
<1> HIDE DEF h, r
<1>4. CountFrom(h \o r, a) = CountFrom(h, a) + CountFrom(r, a)
  BY <1>1, CountConcat
<1>5. CountFrom(h, a) \in Nat /\ CountFrom(r, a) \in Nat
  BY <1>1, CountType
<1>6. CountFrom(q, a) = CountFrom(h, a) + CountFrom(r, a)
  BY <1>2, <1>4
<1>7. CountFrom(q, a) = CountFrom(r, a) + (IF From[Head(q)[1]] = a THEN 1 ELSE 0)
  BY <1>3, <1>5, <1>6
<1> QED
  BY <1>7 DEF r

\* Two transactions count as two.
LEMMA CountTwo ==
  ASSUME NEW q \in Seq(Item), NEW i \in 1..Len(q), NEW j \in 1..Len(q), i # j, From[q[i][1]] = From[q[j][1]]
  PROVE  CountFrom(q, From[q[j][1]]) > 1
<1> DEFINE a == From[q[j][1]]
<1>1. {i, j} \subseteq Places(q, a)
  BY LenProperties DEF Places
<1>2. IsFiniteSet({i}) /\ Cardinality({i}) = 1
  BY FS_Singleton
<1>3. Cardinality({i} \cup {j}) = Cardinality({i}) + 1 /\ IsFiniteSet({i} \cup {j})
  BY <1>2, FS_AddElement
<1>4. {i} \cup {j} = {i, j}
  OBVIOUS
<1>5. CountFrom(q, a) \in Nat /\ CountFrom(q, a) = Cardinality(Places(q, a)) /\ IsFiniteSet(Places(q, a))
  BY CountType
<1>6. Cardinality({i, j}) <= Cardinality(Places(q, a))
  <2> HIDE DEF a
  <2> QED
    BY <1>1, <1>5, FS_Subset
<1>7. Cardinality({i, j}) = 2
  <2>1. Cardinality({i, j}) = Cardinality({i}) + 1
    BY <1>3, <1>4, Zenon
  <2> QED
    BY <2>1, <1>2
<1> HIDE DEF a
<1>8. CountFrom(q, a) > 1
  BY <1>5, <1>6, <1>7
<1> QED
  BY <1>8 DEF a

-----------------------------------------------------------------------------
(* Senders *)

\* The copy knows as many transactions of a sender as the accounts do, and no sender is
\* a contract, the running one included: what succeeds does not undo a nonce.
SendersStay ==
  /\ \A a \in Senders : Kind(accounts, a) = "CLIENT"
  /\ running # NoRun =>
       /\ running.contract \notin Senders
       /\ \A a \in Senders : Kind(draft, a) = "CLIENT" /\ Nonce(draft, a) = Nonce(accounts, a)

SenderOf(j) == From[queue[j][1]]

\* What is still to be performed while blocks are applied is the end of the last block.
QueueIsRest ==
  mode = "applying" /\ queue # <<>> =>
    chain # <<>> /\ \E p \in Seq(Item) : Last(chain) = p \o queue

\* Who has one transaction in the last block, not performed yet, can pay for it.
Covered ==
  mode = "applying" =>
    \A j \in 1..Len(queue) :
      (running # NoRun => j # 1) /\ CountFrom(Last(chain), SenderOf(j)) <= 1 =>
        /\ Balance(accounts, SenderOf(j)) >= Cost(queue[j][1])
        /\ running # NoRun => Balance(draft, SenderOf(j)) >= Cost(queue[j][1])

SenderInv == SendersStay /\ NonceCountsTransactions /\ QueueIsRest /\ Covered

\* What a place of the queue holds.
LEMMA QueueItem ==
  ASSUME NEW q \in Seq(Item), NEW j \in 1..Len(q)
  PROVE  q[j][1] \in Tx /\ From[q[j][1]] \in Senders /\ From[q[j][1]] \in Address /\ Cost(q[j][1]) \in Nat
<1>1. q[j] \in Item
  BY ElementOfSeq
<1>2. q[j][1] \in Tx
  BY <1>1 DEF Item
<1> QED
  BY <1>2, LedgerAssumption DEF Senders, Cost

\* In the rest of a block the other transactions of a sender with one are nobody's.
LEMMA OthersDiffer ==
  ASSUME NEW p \in Seq(Item), NEW q \in Seq(Item), NEW j \in 1..Len(q), j # 1,
         CountFrom(p \o q, From[q[j][1]]) <= 1
  PROVE  From[q[j][1]] # From[Head(q)[1]]
<1> DEFINE a == From[q[j][1]]
<1>1. Len(q) \in Nat /\ q # <<>> /\ 1 \in 1..Len(q)
  BY LenProperties, EmptySeq
<1>2. Head(q) = q[1]
  BY <1>1, HeadTailProperties
<1>3. CountFrom(p \o q, a) = CountFrom(p, a) + CountFrom(q, a)
  BY CountConcat
<1>4. CountFrom(p, a) \in Nat /\ CountFrom(q, a) \in Nat
  BY CountType
<1> HIDE DEF a
<1>5. ~(CountFrom(q, a) > 1)
  BY <1>3, <1>4 DEF a
<1> QED
  BY <1>1, <1>2, <1>5, CountTwo DEF a

\* What comes after the head of the queue moves up by one.
LEMMA TailPlaces ==
  ASSUME NEW q \in Seq(Item), q # <<>>
  PROVE  /\ Tail(q) \in Seq(Item)
         /\ \A j \in 1..Len(Tail(q)) : j + 1 \in 1..Len(q) /\ Tail(q)[j] = q[j + 1] /\ j + 1 # 1
         /\ \A p \in Seq(Item) : \E r \in Seq(Item) : p \o q = r \o Tail(q)
<1>1. /\ Len(q) \in Nat /\ Tail(q) \in Seq(Item) /\ Len(Tail(q)) = Len(q) - 1
      /\ \A j \in 1..Len(Tail(q)) : Tail(q)[j] = q[j + 1]
  BY HeadTailProperties, LenProperties
<1>2. ASSUME NEW p \in Seq(Item) PROVE \E r \in Seq(Item) : p \o q = r \o Tail(q)
  <2> DEFINE h == <<Head(q)>>
             w == Tail(q)
  <2>1. h \in Seq(Item) /\ q = h \o w /\ w \in Seq(Item)
    BY HeadTailProperties
  <2> HIDE DEF h, w
  <2>2. p \o q = (p \o h) \o w
    <3>1. p \o (h \o w) = (p \o h) \o w
      BY <2>1, ConcatAssociative
    <3> QED
      BY <2>1, <3>1
  <2>3. p \o h \in Seq(Item)
    BY <2>1, ConcatProperties
  <2> QED
    BY <2>2, <2>3 DEF w
<1>3. ASSUME NEW j \in 1..Len(Tail(q)) PROVE j + 1 \in 1..Len(q) /\ j + 1 # 1
  BY <1>1
<1> QED
  BY <1>1, <1>2, <1>3

\* While a block is applied, the senders with one transaction after the first.
LEMMA RestDiffers ==
  ASSUME LedgerTypes, QueueIsRest, mode = "applying", NEW j \in 1..Len(queue), j # 1,
         CountFrom(Last(chain), SenderOf(j)) <= 1
  PROVE  SenderOf(j) # Sender
<1>1. queue \in Seq(Item) /\ queue # <<>>
  BY EmptySeq DEF LedgerTypes
<1>2. PICK p \in Seq(Item) : Last(chain) = p \o queue
  BY <1>1 DEF QueueIsRest
<1> QED
  BY <1>1, <1>2, OthersDiffer DEF SenderOf, Sender, CurrentTx

\* A transaction ends.
LEMMA FinishSenders ==
  ASSUME LedgerTypes, SenderInv, queue # <<>>, queue' = Tail(queue), running' = NoRun,
         UNCHANGED <<chain, mode, uncaught>>, AccountMap(accounts'),
         \A a \in Senders :
           /\ Kind(accounts', a) = "CLIENT"
           /\ Nonce(accounts', a) =
                Nonce(accounts, a) + (IF running = NoRun /\ a = Sender THEN 1 ELSE 0)
           /\ a # Sender => \/ Balance(accounts', a) >= Balance(accounts, a)
                            \/ running # NoRun /\ Balance(accounts', a) >= Balance(draft, a)
  PROVE  SenderInv'
<1>0. queue \in Seq(Item) /\ AccountMap(accounts) /\ AccountMap(draft) /\ Sender = From[Head(queue)[1]]
  BY DEF LedgerTypes, Sender, CurrentTx
<1>1. SendersStay'
  BY DEF SendersStay
<1>2. NonceCountsTransactions'
  <2>1. ASSUME uncaught = {}, NEW a \in Senders
        PROVE  GetAccount(accounts', a).nonce = CountFrom(FlattenSeq(chain), a) - CountFrom(Tail(queue), a) + 0
    <3>1. Nonce(accounts, a) = CountFrom(FlattenSeq(chain), a) - CountFrom(queue, a)
                               + (IF running # NoRun /\ Sender = a THEN 1 ELSE 0)
      BY <2>1 DEF SenderInv, NonceCountsTransactions, Nonce
    <3>2. CountFrom(queue, a) = CountFrom(Tail(queue), a) + (IF Sender = a THEN 1 ELSE 0)
      BY <1>0, CountTail
    <3>3. CountFrom(FlattenSeq(chain), a) \in Nat /\ CountFrom(Tail(queue), a) \in Nat /\ CountFrom(queue, a) \in Nat
      <4>1. FlattenSeq(chain) \in Seq(Item) /\ Tail(queue) \in Seq(Item)
        BY <1>0, FlattenAppend, TailPlaces DEF LedgerTypes
      <4> QED
        BY <1>0, <4>1, CountType
    <3>4. Nonce(accounts, a) \in Nat
      BY <1>0, GetAccountType
    <3>5. Nonce(accounts', a) = CountFrom(FlattenSeq(chain), a) - CountFrom(Tail(queue), a) + 0
      BY <3>1, <3>2, <3>3, <3>4
    <3> QED
      BY <3>5 DEF Nonce
  <2> QED
    BY <2>1 DEF NonceCountsTransactions
<1>3. QueueIsRest'
  <2>1. ASSUME mode = "applying" PROVE chain # <<>> /\ \E r \in Seq(Item) : Last(chain) = r \o Tail(queue)
    <3>1. chain # <<>> /\ \E p \in Seq(Item) : Last(chain) = p \o queue
      BY <2>1 DEF SenderInv, QueueIsRest
    <3>2. PICK p \in Seq(Item) : Last(chain) = p \o queue
      BY <3>1
    <3>3. PICK s \in Seq(Item) : p \o queue = s \o Tail(queue)
      BY <1>0, TailPlaces
    <3> QED
      BY <3>1, <3>2, <3>3
  <2> QED
    BY <2>1 DEF QueueIsRest
<1>4. Covered'
  <2>1. ASSUME mode = "applying", NEW j \in 1..Len(Tail(queue)),
               CountFrom(Last(chain), From[Tail(queue)[j][1]]) <= 1
        PROVE  Balance(accounts', From[Tail(queue)[j][1]]) >= Cost(Tail(queue)[j][1])
    <3> DEFINE k == j + 1
               a == SenderOf(k)
               c == Cost(queue[k][1])
    <3>1. k \in 1..Len(queue) /\ k # 1 /\ Tail(queue)[j] = queue[k]
      BY <1>0, TailPlaces
    <3> HIDE DEF k
    <3>2. a = From[Tail(queue)[j][1]] /\ c = Cost(Tail(queue)[j][1])
      BY <3>1 DEF SenderOf
    <3>3. a \in Senders /\ c \in Nat
      BY <1>0, <3>1, QueueItem DEF SenderOf
    <3>4. CountFrom(Last(chain), a) <= 1
      BY <2>1, <3>2
    <3>5. a # Sender
      BY <2>1, <3>1, <3>4, RestDiffers DEF SenderInv
    <3>6. Balance(accounts, a) >= c /\ (running # NoRun => Balance(draft, a) >= c)
      BY <2>1, <3>1, <3>4 DEF SenderInv, Covered
    <3>7. Balance(accounts, a) \in Nat /\ Balance(draft, a) \in Nat /\ Balance(accounts', a) \in Nat
      BY <1>0, GetAccountType
    <3> HIDE DEF a, c
    <3>8. Balance(accounts', a) >= c
      BY <3>3, <3>5, <3>6, <3>7
    <3> QED
      BY <3>2, <3>8
  <2> QED
    BY <2>1 DEF Covered, SenderOf
<1> QED
  BY <1>1, <1>2, <1>3, <1>4 DEF SenderInv

\* A contract starts.
LEMMA StartSenders ==
  ASSUME LedgerTypes, SenderInv, queue # <<>>, running = NoRun, running' # NoRun,
         running'.contract \notin Senders, UNCHANGED <<queue, chain, mode, uncaught>>, AccountMap(accounts'), AccountMap(draft'),
         \A a \in Senders :
           /\ Kind(accounts', a) = "CLIENT" /\ Kind(draft', a) = "CLIENT"
           /\ Nonce(accounts', a) = Nonce(accounts, a) + (IF a = Sender THEN 1 ELSE 0)
           /\ Nonce(draft', a) = Nonce(accounts', a)
           /\ a # Sender => /\ Balance(accounts', a) >= Balance(accounts, a)
                            /\ Balance(draft', a) >= Balance(accounts, a)
  PROVE  SenderInv'
<1>0. queue \in Seq(Item) /\ AccountMap(accounts) /\ Sender' = Sender
  BY DEF LedgerTypes, Sender, CurrentTx
<1>1. SendersStay'
  BY DEF SendersStay
<1>2. NonceCountsTransactions'
  <2>1. ASSUME uncaught = {}, NEW a \in Senders
        PROVE  GetAccount(accounts', a).nonce =
                 CountFrom(FlattenSeq(chain), a) - CountFrom(queue, a) + (IF Sender = a THEN 1 ELSE 0)
    <3>1. Nonce(accounts, a) = CountFrom(FlattenSeq(chain), a) - CountFrom(queue, a) + 0
      BY <2>1 DEF SenderInv, NonceCountsTransactions, Nonce
    <3>2. CountFrom(FlattenSeq(chain), a) \in Nat /\ CountFrom(queue, a) \in Nat
      <4>1. FlattenSeq(chain) \in Seq(Item)
        BY <1>0, FlattenAppend DEF LedgerTypes
      <4> QED
        BY <1>0, <4>1, CountType
    <3>3. Nonce(accounts', a) = CountFrom(FlattenSeq(chain), a) - CountFrom(queue, a) + (IF Sender = a THEN 1 ELSE 0)
      BY <3>1, <3>2
    <3> QED
      BY <3>3 DEF Nonce
  <2> QED
    BY <1>0, <2>1 DEF NonceCountsTransactions
<1>3. QueueIsRest'
  BY DEF SenderInv, QueueIsRest
<1>4. Covered'
  <2>1. ASSUME mode = "applying", NEW j \in 1..Len(queue), j # 1, CountFrom(Last(chain), SenderOf(j)) <= 1
        PROVE  /\ Balance(accounts', SenderOf(j)) >= Cost(queue[j][1])
               /\ Balance(draft', SenderOf(j)) >= Cost(queue[j][1])
    <3> DEFINE a == SenderOf(j)
               c == Cost(queue[j][1])
    <3>1. a \in Senders /\ c \in Nat
      BY <1>0, QueueItem DEF SenderOf
    <3>2. a # Sender
      BY <2>1, RestDiffers DEF SenderInv
    <3>3. Balance(accounts, a) >= c
      BY <2>1 DEF SenderInv, Covered
    <3>4. Balance(accounts, a) \in Nat /\ Balance(accounts', a) \in Nat /\ Balance(draft', a) \in Nat
      BY <1>0, GetAccountType
    <3> HIDE DEF a, c
    <3>5. Balance(accounts', a) >= c /\ Balance(draft', a) >= c
      BY <3>1, <3>2, <3>3, <3>4
    <3> QED
      BY <3>5 DEF a, c
  <2>2. \A j : SenderOf(j)' = SenderOf(j)
    BY DEF SenderOf
  <2> QED
    BY <2>1, <2>2 DEF Covered
<1> QED
  BY <1>1, <1>2, <1>3, <1>4 DEF SenderInv

\* A contract calls its host.
LEMMA HostSenders ==
  ASSUME LedgerTypes, SenderInv, running # NoRun, running' # NoRun,
         running'.contract = running.contract,
         UNCHANGED <<accounts, queue, chain, mode, uncaught>>, AccountMap(draft'),
         \A a \in Senders : /\ Kind(draft', a) = "CLIENT" /\ Nonce(draft', a) = Nonce(draft, a)
                            /\ a # Sender => Balance(draft', a) >= Balance(draft, a)
  PROVE  SenderInv'
<1>0. queue \in Seq(Item) /\ AccountMap(draft) /\ Sender' = Sender
  BY DEF LedgerTypes, Sender, CurrentTx
<1>1. SendersStay'
  BY DEF SenderInv, SendersStay
<1>2. NonceCountsTransactions'
  BY <1>0 DEF SenderInv, NonceCountsTransactions
<1>3. QueueIsRest'
  BY DEF SenderInv, QueueIsRest
<1>4. Covered'
  <2>1. ASSUME mode = "applying", NEW j \in 1..Len(queue), j # 1, CountFrom(Last(chain), SenderOf(j)) <= 1
        PROVE  /\ Balance(accounts, SenderOf(j)) >= Cost(queue[j][1])
               /\ Balance(draft', SenderOf(j)) >= Cost(queue[j][1])
    <3> DEFINE a == SenderOf(j)
               c == Cost(queue[j][1])
    <3>1. a \in Senders /\ c \in Nat
      BY <1>0, QueueItem DEF SenderOf
    <3>2. Balance(accounts, a) >= c /\ Balance(draft, a) >= c
      BY <2>1 DEF SenderInv, Covered
    <3>3. Balance(draft, a) \in Nat /\ Balance(draft', a) \in Nat
      BY <1>0, GetAccountType
    <3>4. a # Sender
      BY <2>1, RestDiffers DEF SenderInv
    <3> HIDE DEF a, c
    <3>5. Balance(draft', a) >= c
      BY <3>1, <3>2, <3>3, <3>4
    <3> QED
      BY <3>2, <3>5 DEF a, c
  <2>2. \A j : SenderOf(j)' = SenderOf(j)
    BY DEF SenderOf
  <2> QED
    BY <2>1, <2>2 DEF Covered
<1> QED
  BY <1>1, <1>2, <1>3, <1>4 DEF SenderInv

\* checkBlockTransactions looks at the first transaction of a sender, which is the only one
\* of those who have one.
LEMMA ApplyBlockSenders ==
  ASSUME LedgerInv, SenderInv, NEW txs \in TxLists, NEW coinbase \in Coinbase, ApplyBlock(txs, coinbase)
  PROVE  SenderInv'
<1> DEFINE q == Pairs(txs, coinbase)
<1>0. LedgerTypes /\ AccountMap(accounts) /\ chain \in Seq(Seq(Item)) /\ queue = <<>> /\ running = NoRun
      /\ running' = running /\ queue' = q /\ chain' = Append(chain, q) /\ uncaught' = uncaught
  BY DEF LedgerInv, LedgerTypes, Executing, ApplyBlock
<1>1. /\ txs \in Seq(Tx) /\ q \in Seq(Item) /\ Len(q) = Len(txs)
      /\ \A i \in 1..Len(txs) : q[i] = <<txs[i], coinbase>>
  BY PairsType
<1>2. coinbase \in Address /\ EmissionValue \in Nat
  BY LedgerAssumption
<1>3. Effect(accounts, accounts', -EmissionValue, NullAddress, NullAddress)
  BY <1>0, <1>2, AddEffect DEF ApplyBlock
<1>4. /\ AccountMap(accounts')
      /\ \A a \in Senders : /\ Nonce(accounts', a) = Nonce(accounts, a) /\ Kind(accounts', a) = Kind(accounts, a)
                            /\ Balance(accounts', a) >= Balance(accounts, a)
  <2>1. \A a \in Senders : a # NullAddress
    BY LedgerAssumption DEF Senders
  <2> QED
    BY <1>3, <2>1 DEF Effect
<1> HIDE DEF q
<1>5. chain' # <<>> /\ Last(chain') = q
  <2>1. Len(chain') = Len(chain) + 1 /\ chain'[Len(chain) + 1] = q /\ Len(chain) \in Nat
    BY <1>0, <1>1, AppendProperties, LenProperties
  <2>2. Len(chain') # 0
    BY <2>1
  <2> QED
    BY <2>1, <2>2, EmptySeq DEF Last
<1>6. SendersStay'
  BY <1>0, <1>4 DEF SenderInv, SendersStay
<1>7. NonceCountsTransactions'
  <2>1. ASSUME uncaught = {}, NEW a \in Senders
        PROVE  GetAccount(accounts', a).nonce = CountFrom(FlattenSeq(chain'), a) - CountFrom(q, a) + 0
    <3>1. Nonce(accounts, a) = CountFrom(FlattenSeq(chain), a) - CountFrom(<<>>, a) + 0
      BY <1>0, <2>1 DEF SenderInv, NonceCountsTransactions, Nonce
    <3>2. CountFrom(<<>>, a) = 0
      <4>1. {i \in DOMAIN <<>> : From[<<>>[i][1]] = a} = {}
        OBVIOUS
      <4> QED
        BY <4>1, FS_EmptySet DEF CountFrom
    <3>3. FlattenSeq(chain) \in Seq(Item) /\ FlattenSeq(chain') = FlattenSeq(chain) \o q
      BY <1>0, <1>1, FlattenAppend
    <3>4. CountFrom(FlattenSeq(chain'), a) = CountFrom(FlattenSeq(chain), a) + CountFrom(q, a)
      BY <1>1, <3>3, CountConcat
    <3>5. CountFrom(FlattenSeq(chain), a) \in Nat /\ CountFrom(q, a) \in Nat
      BY <1>1, <3>3, CountType
    <3>6. Nonce(accounts', a) = CountFrom(FlattenSeq(chain'), a) - CountFrom(q, a) + 0
      BY <1>4, <3>1, <3>2, <3>4, <3>5
    <3> QED
      BY <3>6 DEF Nonce
  <2> QED
    BY <1>0, <2>1 DEF NonceCountsTransactions
<1>8. QueueIsRest'
  <2>1. <<>> \in Seq(Item) /\ <<>> \o q = q
    BY <1>1, EmptySeq, ConcatEmptySeq
  <2> QED
    BY <1>0, <1>5, <2>1 DEF QueueIsRest
<1>9. Covered'
  <2>1. ASSUME NEW j \in 1..Len(q), CountFrom(q, From[q[j][1]]) <= 1
        PROVE  Balance(accounts', From[q[j][1]]) >= Cost(q[j][1])
    <3> DEFINE a == From[q[j][1]]
    <3>1. Len(q) \in Nat /\ DOMAIN txs = 1..Len(q) /\ q[j][1] = txs[j] /\ a = From[txs[j]]
      BY <1>1, LenProperties
    <3>2. a \in Senders /\ Cost(q[j][1]) \in Nat
      BY <1>1, QueueItem
    <3>3. CalcCost(txs, a) <= Balance(accounts, a)
      BY <3>1 DEF ApplyBlock, CheckBlockTransactions
    <3>4. ASSUME NEW i \in DOMAIN txs, From[txs[i]] = a PROVE i = j
      <4>1. i \in 1..Len(q) /\ q[i][1] = txs[i]
        BY <1>1, <3>1
      <4>2. CountFrom(q, a) \in Nat
        BY <1>1, CountType
      <4>3. CASE i # j
        <5>1. CountFrom(q, a) > 1
          BY <1>1, <3>1, <3>4, <4>1, <4>3, CountTwo
        <5> QED
          BY <2>1, <4>2, <5>1
      <4> QED
        BY <4>3
    <3>5. FirstFrom(txs, a) = j
      <4>1. j \in DOMAIN txs /\ From[txs[j]] = a /\ \A i \in 1..(j - 1) : From[txs[i]] # a
        <5>1. ASSUME NEW i \in 1..(j - 1) PROVE i \in DOMAIN txs /\ i # j
          BY <3>1
        <5> QED
          BY <3>1, <3>4, <5>1
      <4> HIDE DEF a
      <4> QED
        BY <3>4, <4>1 DEF FirstFrom
    <3>6. Cost(q[j][1]) <= Balance(accounts, a)
      BY <3>1, <3>3, <3>5 DEF CalcCost
    <3>7. Balance(accounts, a) \in Nat /\ Balance(accounts', a) \in Nat
      BY <1>0, <1>4, GetAccountType
    <3>8. Balance(accounts', a) >= Balance(accounts, a)
      BY <1>4, <3>2
    <3> HIDE DEF a
    <3>9. Balance(accounts', a) >= Cost(q[j][1])
      BY <3>2, <3>6, <3>7, <3>8
    <3> QED
      BY <3>9 DEF a
  <2> QED
    BY <1>0, <1>5, <2>1 DEF Covered, SenderOf
<1> QED
  BY <1>6, <1>7, <1>8, <1>9 DEF SenderInv

\* What Effect says of the senders.
LEMMA EffectOnSenders ==
  ASSUME NEW s, NEW w, NEW l, NEW x, NEW p, Effect(s, w, l, x, p), x \notin Senders, NEW a \in Senders
  PROVE  /\ Nonce(w, a) = Nonce(s, a) /\ Kind(w, a) = Kind(s, a)
         /\ a # p => Balance(w, a) >= Balance(s, a)
  BY DEF Effect

\* The null address sends nothing.
LEMMA NullIsNoSender == NullAddress \notin Senders
  BY LedgerAssumption DEF Senders

\* Creation breaks the account at the address of the contract, which is no sender.
LEMMA CreateContractSenders ==
  ASSUME NoSenderIsContract, LedgerInv, SenderInv, CreateContract
  PROVE  SenderInv'
<1> DEFINE t == CurrentTx
           contract == ContractAddress[t]
<1>0. /\ LedgerTypes /\ queue \in Seq(Item) /\ queue # <<>> /\ running = NoRun /\ AccountMap(accounts)
      /\ UNCHANGED <<chain, mode, uncaught>>
  BY DEF LedgerInv, LedgerTypes, CreateContract, bookkeeping
<1>1. Sender \in Address /\ contract \notin Senders
  BY <1>0, CurrentItem DEF NoSenderIsContract
<1>2. /\ AccountMap(Charged)
      /\ \A b : /\ Balance(Charged, b) = Balance(accounts, b) /\ Kind(Charged, b) = Kind(accounts, b)
                /\ Nonce(Charged, b) = Nonce(accounts, b) + (IF b = Sender THEN 1 ELSE 0)
  BY <1>0, <1>1, ChargedMap
<1>3. \A a \in Senders : Kind(accounts, a) = "CLIENT"
  BY DEF SenderInv, SendersStay
<1>4. \A a : Balance(accounts, a) \in Nat /\ Nonce(accounts, a) \in Nat
  BY <1>0, GetAccountType
<1>5. ASSUME NEW code, Finish(code, Fee[t], Charged) PROVE SenderInv'
  <2>1. accounts' = Charged /\ queue' = Tail(queue) /\ running' = NoRun
    BY <1>5 DEF Finish
  <2>2. \A a : Balance(Charged, a) >= Balance(accounts, a)
    BY <1>2, <1>4
  <2> QED
    BY <1>0, <1>2, <1>3, <2>1, <2>2, FinishSenders
<1>6. ASSUME Balance(Charged, Sender) >= Fee[t], CanTransfer(Created, Sender, Amount[t]),
             accounts' = Charged, StartVm(contract, CreatedDraft, Balance(Paid, contract))
      PROVE  SenderInv'
  <2>1. draft' = CreatedDraft /\ queue' = queue /\ running' # NoRun /\ running'.contract \notin Senders
    BY <1>1, <1>6, RunIsNotNone DEF StartVm
  <2>2. Effect(Charged, CreatedDraft, Fee[t] + Balance(Paid, contract), contract, Sender)
    BY <1>0, <1>6, CreatedEffect
  <2>3. AccountMap(draft')
    BY <2>1, <2>2 DEF Effect
  <2>4. ASSUME NEW a \in Senders
        PROVE  /\ Nonce(draft', a) = Nonce(accounts', a) /\ Kind(draft', a) = Kind(accounts', a)
               /\ a # Sender => Balance(draft', a) >= Balance(accounts', a)
    BY <1>1, <1>6, <2>1, <2>2, EffectOnSenders
  <2>5. ASSUME NEW a \in Senders
        PROVE  /\ Kind(accounts', a) = "CLIENT" /\ Kind(draft', a) = "CLIENT"
               /\ Nonce(accounts', a) = Nonce(accounts, a) + (IF a = Sender THEN 1 ELSE 0)
               /\ Nonce(draft', a) = Nonce(accounts', a)
               /\ a # Sender => /\ Balance(accounts', a) >= Balance(accounts, a)
                                /\ Balance(draft', a) >= Balance(accounts, a)
    BY <1>2, <1>3, <1>4, <1>6, <2>4
  <2>6. AccountMap(accounts')
    BY <1>2, <1>6
  <2> QED
    BY <1>0, <2>1, <2>3, <2>5, <2>6, StartSenders
<1>7. \/ \E code : Finish(code, Fee[t], Charged)
      \/ /\ Balance(Charged, Sender) >= Fee[t] /\ CanTransfer(Created, Sender, Amount[t])
         /\ accounts' = Charged /\ StartVm(contract, CreatedDraft, Balance(Paid, contract))
  BY DEF CreateContract, Created, Paid, CreatedDraft
<1> QED
  BY <1>5, <1>6, <1>7

\* A transaction with a destination that is in Known when it ends, or on which a contract starts.
LEMMA DestinationSenders ==
  ASSUME LedgerInv, SenderInv, CallContract \/ TransferMoney
  PROVE  SenderInv'
<1> DEFINE t == CurrentTx
           w == AddBalance(CalledDraft, CurrentCoinbase, Fee[t])
<1>0. /\ LedgerTypes /\ queue \in Seq(Item) /\ queue # <<>> /\ running = NoRun /\ AccountMap(accounts)
      /\ HasDestination /\ UNCHANGED <<chain, mode, uncaught>> /\ Balance(Known, Sender) >= Fee[t]
  BY DEF LedgerInv, LedgerTypes, CallContract, TransferMoney, HasDestination, bookkeeping
<1>1. Sender \in Address /\ To[t] \in Address
  BY <1>0, CurrentItem DEF HasDestination
<1>2. /\ AccountMap(Known)
      /\ \A b : /\ Balance(Known, b) = Balance(accounts, b) /\ Kind(Known, b) = Kind(accounts, b)
                /\ Nonce(Known, b) = Nonce(accounts, b) + (IF b = Sender THEN 1 ELSE 0)
  BY <1>0, <1>1, KnownMap
<1>3. \A a \in Senders : Kind(accounts, a) = "CLIENT"
  BY DEF SenderInv, SendersStay
<1>4. \A a : Balance(accounts, a) \in Nat /\ Nonce(accounts, a) \in Nat
  BY <1>0, GetAccountType
<1>5. ASSUME NEW code, NEW n, Finish(code, n, Known) PROVE SenderInv'
  <2>1. accounts' = Known /\ queue' = Tail(queue) /\ running' = NoRun
    BY <1>5 DEF Finish
  <2>2. \A a : Balance(Known, a) >= Balance(accounts, a)
    BY <1>2, <1>4
  <2> QED
    BY <1>0, <1>2, <1>3, <2>1, <2>2, FinishSenders
<1>6. ASSUME CanTransfer(FeeTaken, Sender, Amount[t]), Finish("Success", 0, w) PROVE SenderInv'
  <2>1. accounts' = w /\ queue' = Tail(queue) /\ running' = NoRun
    BY <1>6 DEF Finish
  <2>2. Effect(Known, w, 0, NullAddress, Sender)
    BY <1>0, <1>6, PaidTransferEffect
  <2> HIDE DEF w
  <2>3. AccountMap(accounts')
    BY <2>1, <2>2 DEF Effect
  <2>4. ASSUME NEW a \in Senders
        PROVE  /\ Nonce(accounts', a) = Nonce(Known, a) /\ Kind(accounts', a) = Kind(Known, a)
               /\ a # Sender => Balance(accounts', a) >= Balance(Known, a)
    BY <2>1, <2>2, EffectOnSenders, NullIsNoSender
  <2>5. ASSUME NEW a \in Senders
        PROVE  /\ Kind(accounts', a) = "CLIENT"
               /\ Nonce(accounts', a) = Nonce(accounts, a) + (IF running = NoRun /\ a = Sender THEN 1 ELSE 0)
               /\ a # Sender => Balance(accounts', a) >= Balance(accounts, a)
    BY <1>0, <1>2, <1>3, <2>4
  <2> QED
    BY <1>0, <2>1, <2>3, <2>5, FinishSenders
<1>7. ASSUME CanTransfer(FeeTaken, Sender, Amount[t]), accounts' = Known, StartVm(To[t], CalledDraft, 0),
             Known[To[t]].type = "CONTRACT"
      PROVE  SenderInv'
  <2>0. To[t] \notin Senders
    <3>1. To[t] \in DOMAIN Known
      BY DEF Known, Touched, WithAccount
    <3>2. Kind(Known, To[t]) = "CONTRACT"
      BY <1>7, <3>1 DEF Kind, GetAccount
    <3> QED
      BY <1>2, <1>3, <3>2
  <2>1. draft' = CalledDraft /\ queue' = queue /\ running' # NoRun /\ running'.contract \notin Senders
    BY <1>7, <2>0, RunIsNotNone DEF StartVm
  <2>2. Effect(Known, CalledDraft, Fee[t], NullAddress, Sender)
    BY <1>0, <1>7, CalledEffect
  <2>3. AccountMap(draft') /\ AccountMap(accounts')
    BY <1>2, <1>7, <2>1, <2>2 DEF Effect
  <2>4. ASSUME NEW a \in Senders
        PROVE  /\ Nonce(draft', a) = Nonce(accounts', a) /\ Kind(draft', a) = Kind(accounts', a)
               /\ a # Sender => Balance(draft', a) >= Balance(accounts', a)
    BY <1>7, <2>1, <2>2, EffectOnSenders, NullIsNoSender
  <2>5. ASSUME NEW a \in Senders
        PROVE  /\ Kind(accounts', a) = "CLIENT" /\ Kind(draft', a) = "CLIENT"
               /\ Nonce(accounts', a) = Nonce(accounts, a) + (IF a = Sender THEN 1 ELSE 0)
               /\ Nonce(draft', a) = Nonce(accounts', a)
               /\ a # Sender => /\ Balance(accounts', a) >= Balance(accounts, a)
                                /\ Balance(draft', a) >= Balance(accounts, a)
    BY <1>2, <1>3, <1>4, <1>7, <2>4
  <2> QED
    BY <1>0, <2>1, <2>3, <2>5, StartSenders
<1>8. \/ \E code, n : Finish(code, n, Known)
      \/ CanTransfer(FeeTaken, Sender, Amount[t]) /\ Finish("Success", 0, w)
      \/ /\ CanTransfer(FeeTaken, Sender, Amount[t]) /\ accounts' = Known
         /\ StartVm(To[t], CalledDraft, 0) /\ Known[To[t]].type = "CONTRACT"
  <2>1. CASE CallContract
    BY <2>1 DEF CallContract, CalledDraft
  <2>2. CASE TransferMoney
    BY <2>2 DEF TransferMoney, CalledDraft
  <2> QED
    BY <2>1, <2>2
<1> QED
  BY <1>5, <1>6, <1>7, <1>8

\* After an exception nothing is left to perform.
LEMMA FeeNotCoveredSenders ==
  ASSUME LedgerInv, SenderInv, FeeNotCovered
  PROVE  SenderInv'
<1>1. /\ queue \in Seq(Item) /\ queue # <<>> /\ running = NoRun /\ AccountMap(accounts) /\ HasDestination
      /\ accounts' = Known /\ queue' = <<>> /\ running' = NoRun /\ uncaught' # {}
  BY DEF LedgerInv, LedgerTypes, FeeNotCovered, Throw, HasDestination
<1>2. Sender \in Address /\ To[CurrentTx] \in Address
  BY <1>1, CurrentItem DEF HasDestination
<1>3. \A b : Kind(accounts', b) = Kind(accounts, b)
  BY <1>1, <1>2, KnownMap
<1>4. SendersStay'
  BY <1>1, <1>3 DEF SenderInv, SendersStay
<1>5. NonceCountsTransactions'
  BY <1>1 DEF NonceCountsTransactions
<1>6. QueueIsRest'
  BY <1>1 DEF QueueIsRest
<1>7. Covered'
  <2>1. Len(queue') = 0
    BY <1>1
  <2> QED
    BY <2>1 DEF Covered
<1> QED
  BY <1>4, <1>5, <1>6, <1>7 DEF SenderInv

\* Contracts take money from contracts and from the sender of their transaction, and
\* delete contracts.
LEMMA HostCallSenders ==
  ASSUME LedgerInv, SenderInv, HostCall,
         \/ \E from, to \in Address, n \in Amounts : HostTransfer(from, to, n)
         \/ \E a, beneficiary \in Address : SelfDestruct(a, beneficiary)
         \/ \E a \in Address : HostTouch(a)
  PROVE  SenderInv'
<1>0. /\ LedgerTypes /\ running # NoRun /\ AccountMap(draft)
      /\ running \in [tx : {CurrentTx}, calls : Nat, burned : Nat, contract : Address, before : {accounts}]
  BY DEF HostCall, LedgerInv, LedgerTypes, Executing
<1>1. \A a \in Senders : Kind(draft, a) = "CLIENT"
  BY <1>0 DEF SenderInv, SendersStay
<1>2. ASSUME NEW a, a \in RunningCode PROVE a \notin Senders
  <2>1. CASE a = running.contract
    BY <1>0, <2>1 DEF SenderInv, SendersStay
  <2>2. CASE a \in Contracts(accounts)
    <3>1. Kind(accounts, a) = "CONTRACT"
      BY <2>2 DEF Contracts, Kind, GetAccount
    <3> QED
      BY <3>1 DEF SenderInv, SendersStay
  <2> QED
    BY <1>2, <2>1, <2>2 DEF RunningCode
<1>3. ASSUME NEW n, running' = [running EXCEPT !.calls = @ + 1, !.burned = n]
      PROVE  running' # NoRun /\ running'.contract = running.contract
  <2>1. running' = [tx |-> running.tx, calls |-> running.calls + 1, burned |-> n,
                    contract |-> running.contract, before |-> running.before]
    BY <1>0, <1>3
  <2> QED
    BY <2>1, RunIsNotNone
<1>4. ASSUME running' = [running EXCEPT !.calls = @ + 1]
      PROVE  running' # NoRun /\ running'.contract = running.contract
  <2>1. running' =
          [tx |-> running.tx, calls |-> running.calls + 1, burned |-> running.burned,
           contract |-> running.contract, before |-> running.before]
    BY <1>0, <1>4
  <2> QED
    BY <2>1, RunIsNotNone
<1>5. ASSUME NEW l, NEW x, NEW p, Effect(draft, draft', l, x, p), x \notin Senders,
             p \notin Senders \/ p = Sender, running' # NoRun, running'.contract = running.contract,
             UNCHANGED <<accounts, queue, outputs, bookkeeping, burned>>
      PROVE  SenderInv'
  <2>1. AccountMap(draft')
    BY <1>5 DEF Effect
  <2>2. \A a \in Senders : /\ Kind(draft', a) = "CLIENT" /\ Nonce(draft', a) = Nonce(draft, a)
                           /\ a # Sender => Balance(draft', a) >= Balance(draft, a)
    BY <1>1, <1>5, EffectOnSenders
  <2>3. UNCHANGED <<accounts, queue, chain, mode, uncaught>>
    BY <1>5 DEF bookkeeping
  <2> QED
    BY <1>0, <1>5, <2>1, <2>2, <2>3, HostSenders
<1>6. ASSUME NEW from \in Address, NEW to \in Address, NEW n \in Amounts, HostTransfer(from, to, n)
      PROVE  SenderInv'
  <2>1. n \in Nat /\ (from \notin Senders \/ from = Sender)
    BY <1>2, <1>6, LedgerAssumption DEF Amounts, HostTransfer, MessageSenders
  <2>2. running' # NoRun /\ running'.contract = running.contract /\ UNCHANGED <<accounts, queue, outputs, bookkeeping, burned>>
    BY <1>4, <1>6 DEF HostTransfer
  <2>3. CASE CanTransfer(draft, from, n)
    <3>1. n <= Balance(draft, from)
      <4>1. Balance(draft, from) \in Nat
        BY <1>0, GetAccountType
      <4> QED
        BY <2>1, <2>3, <4>1 DEF CanTransfer
    <3>2. Effect(draft, draft', 0, NullAddress, from)
      BY <1>0, <1>6, <2>1, <2>3, <3>1, TransferEffect DEF HostTransfer
    <3> QED
      BY <1>5, <2>1, <2>2, <3>2, NullIsNoSender
  <2>4. CASE ~CanTransfer(draft, from, n)
    <3>1. draft' = draft
      BY <1>6, <2>4 DEF HostTransfer
    <3>2. \A a \in Senders : /\ Kind(draft', a) = "CLIENT" /\ Nonce(draft', a) = Nonce(draft, a)
                             /\ a # Sender => Balance(draft', a) >= Balance(draft, a)
      <4>1. \A a : Balance(draft, a) \in Nat
        BY <1>0, GetAccountType
      <4> QED
        BY <1>1, <3>1, <4>1
    <3>3. AccountMap(draft') /\ UNCHANGED <<accounts, queue, chain, mode, uncaught>>
      BY <1>0, <2>2, <3>1 DEF bookkeeping
    <3> QED
      BY <1>0, <2>2, <3>2, <3>3, HostSenders
  <2> QED
    BY <2>3, <2>4
<1>7. ASSUME NEW a \in Address, NEW beneficiary \in Address, SelfDestruct(a, beneficiary)
      PROVE  SenderInv'
  <2> DEFINE moved == Transferred(draft, a, beneficiary, Balance(draft, a))
  <2>1. Effect(draft, Deleted(moved, a), Balance(moved, a), a, a)
    BY <1>0, DestroyedEffect
  <2>2. /\ draft' = Deleted(moved, a) /\ running' # NoRun /\ running'.contract = running.contract /\ a \in RunningCode
        /\ UNCHANGED <<accounts, queue, outputs, bookkeeping, burned>>
    BY <1>3, <1>7 DEF SelfDestruct
  <2> HIDE DEF moved
  <2> QED
    BY <1>2, <1>5, <2>1, <2>2
<1>8. ASSUME NEW a \in Address, HostTouch(a) PROVE SenderInv'
  <2>1. Effect(draft, draft', 0, NullAddress, NullAddress)
    BY <1>0, <1>8, TouchedEffect DEF HostTouch
  <2>2. running' # NoRun /\ running'.contract = running.contract /\ UNCHANGED <<accounts, queue, outputs, bookkeeping, burned>>
    BY <1>4, <1>8 DEF HostTouch
  <2> QED
    BY <1>5, <2>1, <2>2, NullIsNoSender
<1> QED
  BY <1>6, <1>7, <1>8

\* The end of a contract: the nonces of the copy are those of the accounts.
LEMMA VmEndSenders ==
  ASSUME LedgerInv, SenderInv, running # NoRun, NEW gasLeft \in GasLeft, NEW code,
         VmSuccess(gasLeft) \/ VmNoSuccess(code, gasLeft)
  PROVE  SenderInv'
<1>0. LedgerTypes /\ Executing /\ queue # <<>> /\ AccountMap(accounts) /\ AccountMap(draft)
  BY DEF LedgerInv, LedgerTypes, Executing
<1>1. \A a \in Senders : /\ Kind(accounts, a) = "CLIENT" /\ Kind(draft, a) = "CLIENT"
                         /\ Nonce(draft, a) = Nonce(accounts, a) /\ Nonce(accounts, a) \in Nat
  BY <1>0, GetAccountType DEF SenderInv, SendersStay
<1>2. queue' = Tail(queue) /\ running' = NoRun /\ UNCHANGED <<chain, mode, uncaught>>
  BY DEF VmSuccess, VmNoSuccess, Finish, bookkeeping
<1>3. CASE VmSuccess(gasLeft)
  <2>1. accounts' = SuccessState(gasLeft)
    BY <1>3 DEF VmSuccess, Finish, SuccessState, SuccessDone
  <2>2. Effect(draft, accounts', -Fee[CurrentTx], NullAddress, NullAddress)
    BY <1>0, <2>1, SuccessEffect
  <2>3. AccountMap(accounts')
    BY <2>2 DEF Effect
  <2>4. ASSUME NEW a \in Senders
        PROVE  Nonce(accounts', a) = Nonce(draft, a) /\ Kind(accounts', a) = Kind(draft, a)
               /\ Balance(accounts', a) >= Balance(draft, a)
    BY <2>2, EffectOnSenders, NullIsNoSender
  <2>5. ASSUME NEW a \in Senders
        PROVE  /\ Kind(accounts', a) = "CLIENT"
               /\ Nonce(accounts', a) = Nonce(accounts, a) + (IF running = NoRun /\ a = Sender THEN 1 ELSE 0)
               /\ Balance(accounts', a) >= Balance(draft, a)
    BY <1>1, <2>4
  <2> QED
    BY <1>0, <1>2, <2>3, <2>5, FinishSenders
<1>4. CASE VmNoSuccess(code, gasLeft)
  <2>1. accounts' = FailedState(gasLeft)
    BY <1>4 DEF VmNoSuccess, Finish, FailedState
  <2>2. Effect(accounts, accounts', gasLeft - (Fee[CurrentTx] - gasLeft), NullAddress, Sender)
    BY <1>0, <2>1, FailedEffect
  <2>3. AccountMap(accounts')
    BY <2>2 DEF Effect
  <2>4. ASSUME NEW a \in Senders
        PROVE  Nonce(accounts', a) = Nonce(accounts, a) /\ Kind(accounts', a) = Kind(accounts, a)
               /\ (a # Sender => Balance(accounts', a) >= Balance(accounts, a))
    BY <2>2, EffectOnSenders, NullIsNoSender
  <2>5. ASSUME NEW a \in Senders
        PROVE  /\ Kind(accounts', a) = "CLIENT"
               /\ Nonce(accounts', a) = Nonce(accounts, a) + (IF running = NoRun /\ a = Sender THEN 1 ELSE 0)
               /\ a # Sender => Balance(accounts', a) >= Balance(accounts, a)
    BY <1>1, <2>4
  <2> QED
    BY <1>0, <1>2, <2>3, <2>5, FinishSenders
<1> QED
  BY <1>3, <1>4

\* A restart has everything still to perform.
LEMMA RestartSenders ==
  ASSUME LedgerInv, Restart
  PROVE  SenderInv'
<1>1. /\ accounts' = GenesisAccounts /\ running' = NoRun /\ queue' = FlattenSeq(chain) /\ chain' = chain
      /\ mode' = "replaying"
  BY DEF Restart
<1>2. \A a : Nonce(accounts', a) = 0 /\ Kind(accounts', a) = "CLIENT"
  BY <1>1, GenesisMap
<1>3. \A a : CountFrom(FlattenSeq(chain), a) \in Nat
  <2>1. <<>> \in Seq(Item)
    BY EmptySeq
  <2>2. FlattenSeq(chain) \in Seq(Item)
    BY <2>1, FlattenAppend DEF LedgerInv, LedgerTypes
  <2> QED
    BY <2>2, CountType
<1>4. SendersStay'
  BY <1>1, <1>2 DEF SendersStay
<1>5. NonceCountsTransactions'
  <2>1. \A a : GetAccount(accounts', a).nonce = CountFrom(FlattenSeq(chain), a) - CountFrom(FlattenSeq(chain), a) + 0
    BY <1>2, <1>3 DEF Nonce
  <2> QED
    BY <1>1, <2>1 DEF NonceCountsTransactions
<1>6. QueueIsRest' /\ Covered'
  BY <1>1 DEF QueueIsRest, Covered
<1> QED
  BY <1>4, <1>5, <1>6 DEF SenderInv

\* After a replay nothing is left to perform.
LEMMA ReplayDoneSenders ==
  ASSUME LedgerInv, SenderInv, ReplayDone
  PROVE  SenderInv'
<1>1. /\ queue = <<>> /\ queue' = queue
      /\ UNCHANGED <<accounts, draft, running, chain, uncaught>>
  BY DEF ReplayDone
<1>2. Len(queue') = 0 /\ Sender' = Sender
  BY <1>1 DEF Sender, CurrentTx
<1>3. SendersStay'
  BY <1>1 DEF SenderInv, SendersStay
<1>4. NonceCountsTransactions'
  BY <1>1, <1>2 DEF SenderInv, NonceCountsTransactions
<1>5. QueueIsRest' /\ Covered'
  BY <1>1, <1>2 DEF QueueIsRest, Covered
<1> QED
  BY <1>3, <1>4, <1>5 DEF SenderInv

\* No step.
LEMMA StutterSenders ==
  ASSUME SenderInv, UNCHANGED vars
  PROVE  SenderInv'
<1>1. Sender' = Sender /\ \A j : SenderOf(j)' = SenderOf(j)
  BY DEF vars, Sender, CurrentTx, SenderOf
<1>2. SendersStay' /\ QueueIsRest'
  BY DEF vars, SenderInv, SendersStay, QueueIsRest
<1>3. NonceCountsTransactions'
  BY <1>1 DEF vars, SenderInv, NonceCountsTransactions
<1>4. Covered'
  BY <1>1 DEF vars, SenderInv, Covered
<1> QED
  BY <1>2, <1>3, <1>4 DEF SenderInv

\* The genesis block.
LEMMA InitSenders ==
  ASSUME Init
  PROVE  SenderInv
<1>1. accounts = GenesisAccounts /\ running = NoRun /\ queue = <<>> /\ chain = <<>>
  BY DEF Init
<1>2. \A a : Nonce(accounts, a) = 0 /\ Kind(accounts, a) = "CLIENT"
  BY <1>1, GenesisMap
<1>3. FlattenSeq(chain) = <<>> /\ Len(queue) = 0
  BY <1>1 DEF FlattenSeq
<1>4. \A a : CountFrom(<<>>, a) \in Nat
  BY EmptySeq, CountType
<1>5. SendersStay
  BY <1>1, <1>2 DEF SendersStay
<1>6. NonceCountsTransactions
  <2>1. \A a : GetAccount(accounts, a).nonce = CountFrom(<<>>, a) - CountFrom(<<>>, a) + 0
    BY <1>2, <1>4 DEF Nonce
  <2> QED
    BY <1>1, <1>3, <2>1 DEF NonceCountsTransactions
<1>7. QueueIsRest /\ Covered
  BY <1>1, <1>3 DEF QueueIsRest, Covered
<1> QED
  BY <1>5, <1>6, <1>7 DEF SenderInv

\* Every step keeps what is known of the senders.
LEMMA SenderStep ==
  ASSUME NoSenderIsContract, LedgerInv, SenderInv, [Next]_vars
  PROVE  SenderInv'
<1>1. ASSUME running # NoRun, NEW gasLeft \in GasLeft, VmSuccess(gasLeft) \/ VmRevert(gasLeft) PROVE SenderInv'
  BY <1>1, VmEndSenders DEF VmRevert
<1>2. ASSUME VmFailure PROVE SenderInv'
  <2>1. running # NoRun
    BY <1>2 DEF VmFailure, VmNoSuccess
  <2>2. 0 \in GasLeft
    <3>1. Fee[CurrentTx] \in Nat
      BY <2>1, CurrentItem DEF LedgerInv, LedgerTypes, Executing
    <3> QED
      BY <3>1 DEF GasLeft
  <2> QED
    BY <1>2, <2>1, <2>2, VmEndSenders DEF VmFailure
<1>3. ASSUME \/ \E from, to \in Address, n \in Amounts : HostTransfer(from, to, n)
             \/ \E a, beneficiary \in Address : SelfDestruct(a, beneficiary)
             \/ \E a \in Address : HostTouch(a)
      PROVE  SenderInv'
  <2>1. HostCall
    BY <1>3 DEF HostTransfer, SelfDestruct, HostTouch
  <2> QED
    BY <1>3, <2>1, HostCallSenders
<1> QED
  BY <1>1, <1>2, <1>3, ApplyBlockSenders, CreateContractSenders, FeeNotCoveredSenders, DestinationSenders,
     RestartSenders, ReplayDoneSenders, StutterSenders DEF Next

\* The inductive invariant about senders.
THEOREM SenderInvariant ==
  ASSUME NoSenderIsContract
  PROVE  Spec => []SenderInv
<1>1. Init => SenderInv
  BY InitSenders
<1>2. LedgerInv /\ SenderInv /\ [Next]_vars => SenderInv'
  BY SenderStep
<1> QED
  BY <1>1, <1>2, LedgerInvariant, PTL DEF Spec

\* Unless a contract is created over the account of a sender, a sender's nonce is the number
\* of its transactions in the executed part of the chain, through failures, blocks, contracts
\* and replays.
THEOREM LedgerNonceCounts ==
  ASSUME NoSenderIsContract
  PROVE  Spec => []NonceCountsTransactions
<1>1. SenderInv => NonceCountsTransactions
  BY DEF SenderInv
<1> QED
  BY <1>1, SenderInvariant, PTL

\* Under the same condition a sender with one transaction in a block that passed the check
\* can still pay for it when its turn comes, whatever ran before it.
THEOREM LedgerOneSpendIsCovered ==
  ASSUME NoSenderIsContract
  PROVE  Spec => []OneSpendIsCovered
<1>1. ASSUME LedgerInv, SenderInv, mode = "applying", HasDestination, Balance(Known, Sender) < Fee[CurrentTx]
      PROVE  CountFrom(Last(chain), Sender) > 1
  <2>1. queue \in Seq(Item) /\ queue # <<>> /\ running = NoRun /\ AccountMap(accounts)
    BY <1>1 DEF LedgerInv, LedgerTypes, HasDestination
  <2>2. /\ Sender \in Address /\ To[CurrentTx] \in Address /\ CurrentTx \in Tx
        /\ Fee[CurrentTx] \in Nat /\ Amount[CurrentTx] \in Nat
    BY <1>1, <2>1, CurrentItem DEF HasDestination
  <2>3. Balance(accounts, Sender) = Balance(Known, Sender) /\ Balance(accounts, Sender) \in Nat
    BY <2>1, <2>2, KnownMap, GetAccountType
  <2>4. ~(Balance(accounts, Sender) >= Cost(CurrentTx))
    BY <1>1, <2>2, <2>3 DEF Cost
  <2>5. 1 \in 1..Len(queue) /\ Head(queue) = queue[1]
    BY <2>1, HeadTailProperties, EmptySeq, LenProperties
  <2>6. SenderOf(1) = Sender /\ queue[1][1] = CurrentTx
    BY <2>5 DEF SenderOf, Sender, CurrentTx
  <2>7. ~(CountFrom(Last(chain), Sender) <= 1)
    BY <1>1, <2>1, <2>4, <2>5, <2>6 DEF SenderInv, Covered
  <2>8. CountFrom(Last(chain), Sender) \in Nat
    <3>1. PICK p \in Seq(Item) : Last(chain) = p \o queue
      BY <1>1, <2>1 DEF SenderInv, QueueIsRest
    <3>2. p \o queue \in Seq(Item)
      BY <2>1, ConcatProperties
    <3> QED
      BY <3>1, <3>2, CountType
  <2> QED
    BY <2>7, <2>8
<1>2. LedgerInv /\ SenderInv => OneSpendIsCovered
  BY <1>1 DEF OneSpendIsCovered
<1> QED
  BY <1>2, LedgerInvariant, SenderInvariant, PTL
=============================================================================
