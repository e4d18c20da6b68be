-------------------------------- MODULE Core --------------------------------
(***************************************************************************)
(* The concurrency of a node: threads that submit transactions             *)
(* (Core::addPendingTransaction, called by RPC and by peers), the network  *)
(* thread that adds blocks of others (Core::tryAddBlock), and the miner    *)
(* thread that adds its own (Core::tryAddMinedBlock), together with the    *)
(* callbacks of Node that give the miner its next job.                     *)
(*                                                                         *)
(* Transactions are transfers; contracts are in Ledger, the checks of the  *)
(* chain in Blockchain, the threads of the miner in Miner.  The chain only *)
(* grows, so the parent of a block is given as the number of blocks below  *)
(* it.  A fee that its sender can no longer pay raises an exception in the *)
(* middle of a block: the network thread catches it, the miner thread does *)
(* not and the program ends.                                               *)
(***************************************************************************)
EXTENDS Integers, Sequences, FiniteSets, SequencesExt

CONSTANTS
  Tx, From, To, Amount, Fee,  \* transfers
  InitialBalance,        \* balances after the genesis block, as a function on accounts
  CoinbaseOf,            \* CoinbaseOf[th]: the miner named by the blocks adder th adds
  EmissionValue,         \* BC_EMISSION_VALUE
  Client,                \* threads that submit transactions
  MaxTxInBlock,          \* BC_MAX_TRANSACTIONS_IN_BLOCK
  ForeignLists,          \* the transactions of the blocks that peers send
  MaxSubmissions, MaxForeignBlocks   \* bounds

Adder == {"network", "miner"}
Thread == Client \cup Adder

ASSUME CoreAssumption ==
  /\ Client \cap Adder = {}
  /\ Amount \in [Tx -> Nat] /\ Fee \in [Tx -> Nat] /\ InitialBalance \in [DOMAIN InitialBalance -> Nat]
  /\ EmissionValue \in Nat /\ DOMAIN CoinbaseOf = Adder
  /\ MaxTxInBlock \in Nat \ {0} /\ ForeignLists \subseteq Seq(Tx)

VARIABLES
  chain,      \* _blockchain above the genesis block
  pending,    \* _pending_transactions
  accounts,   \* _state_manager: balances
  outputs,    \* _tx_outputs
  chainLock,  \* holder of _blockchain_mutex, "free" if nobody
  job,        \* the job of the miner, NoJob if it has none
  pc,         \* where each thread is
  tx,         \* the transaction of each client
  seen,       \* current_pending_balance of the client's sender, None if absent
  block,      \* the block each adder adds, and the job a thread is posting
  index,      \* the transaction of its block an adder applies next
  submissions, foreign,  \* counters of the bounds
  accepted    \* history: transactions that were put into pending

vars == <<chain, pending, accounts, outputs, chainLock, job, pc, tx, seen, block, index,
          submissions, foreign, accepted>>
shared == <<chain, pending, accounts, outputs, chainLock, job>>
counters == <<submissions, foreign>>

None == -1
NoTx == "none"
NoJob == [parent |-> 0, txs |-> <<>>]
Steps == {"idle", "chain", "pending", "balance", "check", "add", "mining", "post", "output",
          "found", "lock", "remove", "apply", "dead"}

Init ==
  /\ chain = <<>> /\ pending = <<>>
  /\ accounts = InitialBalance
  /\ outputs = [t \in Tx |-> "none"]
  /\ chainLock = "free" /\ job = NoJob
  /\ pc = [th \in Thread |-> "idle"]
  /\ tx = [c \in Client |-> NoTx] /\ seen = [c \in Client |-> None]
  /\ block = [th \in Thread |-> NoJob] /\ index = [th \in Adder |-> 0]
  /\ submissions = 0 /\ foreign = 0
  /\ accepted = {}

Jump(th, step) == pc' = [pc EXCEPT ![th] = step]
Output(t, code) == outputs' = [outputs EXCEPT ![t] = code]

-----------------------------------------------------------------------------
(* TransactionsSet *)

Find(txs, t) == t \in ToSet(txs)
\* Mutant: a transaction is added twice.
AddTx_NoFind(txs, t) == Append(txs, t)
AddTx(txs, t) == IF Find(txs, t) THEN txs ELSE Append(txs, t)

\* remove: the last element takes the place of the removed one
RemoveTx(txs, t) ==
  IF ~Find(txs, t) THEN txs
  ELSE LET i == CHOOSE i \in DOMAIN txs : txs[i] = t
       IN  Front([txs EXCEPT ![i] = Last(txs)])
\* remove for a set of transactions, one after the other
RemoveAll(txs, others) ==
  LET left[n \in 0..Len(others)] == IF n = 0 THEN txs ELSE RemoveTx(left[n - 1], others[n])
  IN  left[Len(others)]

Cost(t) == Amount[t] + Fee[t]

\* calcCost: the first transaction of the sender, None if it has none
CalcCost(txs, a) ==
  LET ofSender == SelectSeq(txs, LAMBDA t : From[t] = a)
  IN  IF ofSender = <<>> THEN None ELSE Cost(Head(ofSender))

\* selectBestByFee: std::nth_element keeps the highest fees, in any order and with
\* any choice among equal ones
Selections(txs) ==
  IF Len(txs) <= MaxTxInBlock THEN {txs}
  ELSE {s \in [1..MaxTxInBlock -> ToSet(txs)] :
          /\ IsInjective(s)
          /\ \A t \in ToSet(s), u \in ToSet(txs) \ ToSet(s) : Fee[t] >= Fee[u]}

-----------------------------------------------------------------------------
(* addPendingTransaction *)

Reply(c, code) ==
  /\ Output(tx[c], code)
  /\ Jump(c, "idle")
  /\ tx' = [tx EXCEPT ![c] = NoTx] /\ seen' = [seen EXCEPT ![c] = None]

Submit(c, t) ==
  /\ pc[c] = "idle" /\ submissions < MaxSubmissions
  /\ submissions' = submissions + 1
  /\ tx' = [tx EXCEPT ![c] = t]
  /\ Jump(c, "chain")
  /\ UNCHANGED <<shared, seen, block, index, foreign, accepted>>

\* checkSign fails.  The signature is not part of the hash, so this also replaces
\* the output of the same transaction with a good signature.
SubmitBadSign(c, t) ==
  /\ pc[c] = "idle" /\ submissions < MaxSubmissions
  /\ submissions' = submissions + 1
  /\ Output(t, "BadSign")
  /\ UNCHANGED <<chain, pending, accounts, chainLock, job, pc, tx, seen, block, index, foreign, accepted>>

InChain(t) == \E i \in DOMAIN chain : Find(chain[i].txs, t)

\* _blockchain.findTransaction: a confirmed transaction answers with its output
FindTransaction(c) ==
  /\ pc[c] = "chain"
  /\ IF InChain(tx[c])
     THEN Jump(c, "idle") /\ tx' = [tx EXCEPT ![c] = NoTx]
     ELSE Jump(c, "pending") /\ tx' = tx
  /\ UNCHANGED <<shared, seen, block, index, counters, accepted>>

\* the section under the shared lock of _pending_transactions_mutex
FindPending(c) ==
  /\ pc[c] = "pending"
  /\ \/ /\ Find(pending, tx[c])
        /\ Reply(c, "Pending")
     \/ /\ ~Find(pending, tx[c])
        /\ seen' = [seen EXCEPT ![c] = CalcCost(pending, From[tx[c]])]
        /\ Jump(c, "balance")
        /\ UNCHANGED <<outputs, tx>>
  /\ UNCHANGED <<chain, pending, accounts, chainLock, job, block, index, counters, accepted>>

\* the comparison with the transactions already pending, written the way it is
CheckPendingBalance(c) ==
  LET t        == tx[c]
      refusing == /\ seen[c] # None /\ From[t] \in DOMAIN accounts
                  /\ seen[c] + Cost(t) < accounts[From[t]]
  IN
  /\ pc[c] = "balance"
  /\ \/ /\ refusing
        /\ Reply(c, "NotEnoughBalance")
     \/ /\ ~refusing
        /\ Jump(c, "check")
        /\ UNCHANGED <<outputs, tx, seen>>
  /\ UNCHANGED <<chain, pending, accounts, chainLock, job, block, index, counters, accepted>>

\* _state_manager.checkTransaction
CheckTransaction(c) ==
  /\ pc[c] = "check"
  /\ \/ /\ From[tx[c]] \notin DOMAIN accounts \/ accounts[From[tx[c]]] < Cost(tx[c])
        /\ Reply(c, "NotEnoughBalance")
     \/ /\ From[tx[c]] \in DOMAIN accounts /\ accounts[From[tx[c]]] >= Cost(tx[c])
        /\ Jump(c, "add")
        /\ UNCHANGED <<outputs, tx, seen>>
  /\ UNCHANGED <<chain, pending, accounts, chainLock, job, block, index, counters, accepted>>

\* _pending_transactions.add, then the subscribers of the new transaction
AddPending(c) ==
  /\ pc[c] = "add"
  /\ pending' = AddTx(pending, tx[c])
  /\ accepted' = accepted \cup {tx[c]}
  /\ Jump(c, "mining")
  /\ UNCHANGED <<chain, accounts, outputs, chainLock, job, tx, seen, block, index, counters>>

\* the last lines, after the subscribers have run
WriteOutput(c) ==
  /\ pc[c] = "output"
  /\ Reply(c, "Pending")
  /\ UNCHANGED <<chain, pending, accounts, chainLock, job, block, index, counters, accepted>>

-----------------------------------------------------------------------------
(* Node::onNewTransactionReceived and Node::onNewBlock *)

\* Core::getMiningData, under _blockchain_mutex
GetMiningData(th) ==
  /\ pc[th] = "mining" /\ chainLock = "free"
  /\ \E txs \in Selections(pending) :
       block' = [block EXCEPT ![th] = [parent |-> Len(chain), txs |-> txs]]
  /\ Jump(th, "post")
  /\ UNCHANGED <<shared, tx, seen, index, counters, accepted>>

\* findNonce, or dropJob when there is nothing to mine
PostJob(th) ==
  /\ pc[th] = "post"
  /\ job' = IF block[th].txs = <<>> THEN NoJob ELSE block[th]
  /\ block' = [block EXCEPT ![th] = NoJob]
  /\ Jump(th, IF th \in Client THEN "output" ELSE "idle")
  /\ UNCHANGED <<chain, pending, accounts, outputs, chainLock, tx, seen, index, counters, accepted>>

-----------------------------------------------------------------------------
(* tryAddBlock and tryAddMinedBlock *)

\* a peer sends a block, made of any transactions, for some place in the chain
ReceiveBlock(parent, txs) ==
  /\ pc["network"] = "idle" /\ foreign < MaxForeignBlocks
  /\ foreign' = foreign + 1
  /\ block' = [block EXCEPT !["network"] = [parent |-> parent, txs |-> txs]]
  /\ Jump("network", "lock")
  /\ UNCHANGED <<shared, tx, seen, index, submissions, accepted>>

\* a miner thread finds a nonce for the job it reads
FindNonce ==
  /\ pc["miner"] = "idle" /\ job # NoJob
  /\ block' = [block EXCEPT !["miner"] = job]
  /\ Jump("miner", "found")
  /\ UNCHANGED <<shared, tx, seen, index, counters, accepted>>

\* callHandlerAndDrop: whatever job is posted by then is dropped, and
\* Node::onBlockMine is called; if it was dropped before, the block is forgotten
DropJob ==
  /\ pc["miner"] = "found"
  /\ IF job # NoJob
     THEN Jump("miner", "lock") /\ block' = block
     ELSE Jump("miner", "idle") /\ block' = [block EXCEPT !["miner"] = NoJob]
  /\ job' = NoJob
  /\ UNCHANGED <<chain, pending, accounts, outputs, chainLock, tx, seen, index, counters, accepted>>

CheckBlockTransactions(txs) ==
  \A i \in DOMAIN txs :
    /\ From[txs[i]] \in DOMAIN accounts
    /\ CalcCost(txs, From[txs[i]]) <= accounts[From[txs[i]]]

Acceptable(b) ==
  /\ CheckBlockTransactions(b.txs)      \* else INVALID_TRANSACTIONS
  /\ b.parent = Len(chain)              \* else a result of Blockchain::tryAddBlock
  /\ Len(b.txs) \in 1..MaxTxInBlock

\* Mutant: the lock is given back before the block is applied.
AddToChain_NoLock(th) ==
  /\ pc[th] = "lock" /\ chainLock = "free"
  /\ Acceptable(block[th])
  /\ chain' = Append(chain, [txs |-> block[th].txs, coinbase |-> CoinbaseOf[th]])
  /\ Jump(th, "remove")
  /\ UNCHANGED <<pending, accounts, outputs, chainLock, job, tx, seen, block, index, counters, accepted>>

\* _tryAddBlock takes _blockchain_mutex and extends the chain, or returns
AddToChain(th) ==
  /\ pc[th] = "lock" /\ chainLock = "free"
  /\ \/ /\ Acceptable(block[th])
        /\ chain' = Append(chain, [txs |-> block[th].txs, coinbase |-> CoinbaseOf[th]])
        /\ chainLock' = th
        /\ Jump(th, "remove")
        /\ block' = block
     \/ /\ ~Acceptable(block[th])
        /\ Jump(th, "idle")
        /\ block' = [block EXCEPT ![th] = NoJob]
        /\ UNCHANGED <<chain, chainLock>>
  /\ UNCHANGED <<pending, accounts, outputs, job, tx, seen, index, counters, accepted>>

BalanceOf(s, a) == IF a \in DOMAIN s THEN s[a] ELSE 0
Credit(s, a, n) == [x \in DOMAIN s \cup {a} |-> IF x = a THEN BalanceOf(s, a) + n ELSE s[x]]

\* Mutant: all pending transactions are taken for confirmed.
RemovePending_All(th) ==
  /\ pc[th] = "remove"
  /\ pending' = <<>>
  /\ accounts' = Credit(accounts, CoinbaseOf[th], EmissionValue)
  /\ index' = [index EXCEPT ![th] = 1]
  /\ Jump(th, "apply")
  /\ UNCHANGED <<chain, outputs, chainLock, job, tx, seen, block, counters, accepted>>

\* _pending_transactions.remove and the emission of applyBlockTransactions
RemovePending(th) ==
  /\ pc[th] = "remove"
  /\ pending' = RemoveAll(pending, block[th].txs)
  /\ accounts' = Credit(accounts, CoinbaseOf[th], EmissionValue)
  /\ index' = [index EXCEPT ![th] = 1]
  /\ Jump(th, "apply")
  /\ UNCHANGED <<chain, outputs, chainLock, job, tx, seen, block, counters, accepted>>

\* the first subBalance of tryPerformTransaction, outside of its try blocks
Raises(s, t) == BalanceOf(s, From[t]) < Fee[t]

\* tryPerformTransaction of a transfer: getAccount creates both accounts in any case
Performed(s, t, coinbase) ==
  IF BalanceOf(s, From[t]) >= Cost(t)
  THEN Credit(Credit(Credit(s, From[t], -Cost(t)), To[t], Amount[t]), coinbase, Fee[t])
  ELSE Credit(Credit(s, From[t], 0), To[t], 0)

\* one turn of the loop of applyBlockTransactions
ApplyTransaction(th) ==
  /\ pc[th] = "apply" /\ index[th] \in DOMAIN block[th].txs
  /\ LET t == block[th].txs[index[th]] IN
     /\ ~Raises(accounts, t)
     /\ accounts' = Performed(accounts, t, CoinbaseOf[th])
     /\ Output(t, IF BalanceOf(accounts, From[t]) >= Cost(t) THEN "Success" ELSE "NotEnoughBalance")
  /\ index' = [index EXCEPT ![th] = @ + 1]
  /\ UNCHANGED <<chain, pending, chainLock, job, pc, tx, seen, block, counters, accepted>>

\* the exception leaves applyBlockTransactions and gives the lock back; the rest of
\* the block is never applied and nobody is notified.  Connection::receive catches
\* it in the network thread; nothing does in a miner thread, and std::terminate
\* ends the program
RaiseOutOfBlock(th) ==
  /\ pc[th] = "apply" /\ index[th] \in DOMAIN block[th].txs
  /\ LET t == block[th].txs[index[th]] IN
     /\ Raises(accounts, t)
     /\ accounts' = Performed(accounts, t, CoinbaseOf[th])
  /\ chainLock' = "free"
  /\ block' = [block EXCEPT ![th] = NoJob]
  /\ index' = [index EXCEPT ![th] = 0]
  /\ pc' = IF th = "network" THEN [pc EXCEPT ![th] = "idle"] ELSE [o \in Thread |-> "dead"]
  /\ UNCHANGED <<chain, pending, outputs, job, tx, seen, counters, accepted>>

\* Mutant: an early return forgets the unlock.
FinishBlock_KeepsLock(th) ==
  /\ pc[th] = "apply" /\ index[th] \notin DOMAIN block[th].txs
  /\ block' = [block EXCEPT ![th] = NoJob]
  /\ index' = [index EXCEPT ![th] = 0]
  /\ Jump(th, IF th = "network" THEN "mining" ELSE "idle")
  /\ UNCHANGED <<chain, pending, accounts, outputs, chainLock, job, tx, seen, counters, accepted>>

\* the unlock, and the event: a block of the network reaches Node::onNewBlock, a
\* mined one is only broadcast
FinishBlock(th) ==
  /\ pc[th] = "apply" /\ index[th] \notin DOMAIN block[th].txs
  /\ chainLock' = "free"
  /\ block' = [block EXCEPT ![th] = NoJob]
  /\ index' = [index EXCEPT ![th] = 0]
  /\ Jump(th, IF th = "network" THEN "mining" ELSE "idle")
  /\ UNCHANGED <<chain, pending, accounts, outputs, job, tx, seen, counters, accepted>>

ClientStep(c) ==
  \/ FindTransaction(c) \/ FindPending(c) \/ CheckPendingBalance(c) \/ CheckTransaction(c)
  \/ AddPending(c) \/ WriteOutput(c) \/ GetMiningData(c) \/ PostJob(c)

AdderStep(th) ==
  \/ AddToChain(th) \/ RemovePending(th) \/ ApplyTransaction(th) \/ RaiseOutOfBlock(th)
  \/ FinishBlock(th)

NetworkCallback == GetMiningData("network") \/ PostJob("network")

Next ==
  \/ \E c \in Client : (\E t \in Tx : Submit(c, t) \/ SubmitBadSign(c, t)) \/ ClientStep(c)
  \/ \E parent \in 0..Len(chain), txs \in ForeignLists : ReceiveBlock(parent, txs)
  \/ FindNonce \/ DropJob
  \/ \E th \in Adder : AdderStep(th)
  \/ NetworkCallback

Spec == Init /\ [][Next]_vars

\* Threads are scheduled and mutexes are fair enough not to starve a waiter for
\* ever: strong fairness, which differs from weak only where a thread waits for
\* the lock; nothing makes a client submit, a peer send a block or a nonce turn up.
Fairness ==
  /\ \A c \in Client : SF_vars(ClientStep(c))
  /\ \A th \in Adder : SF_vars(AdderStep(th))
  /\ WF_vars(DropJob) /\ SF_vars(NetworkCallback)

FairSpec == Spec /\ Fairness

-----------------------------------------------------------------------------
Codes == {"none", "Success", "Pending", "BadSign", "NotEnoughBalance"}

\* The values each variable ranges over; TransactionsSet::add keeps the pending
\* transactions distinct.
TypeOK ==
  /\ \A i \in DOMAIN chain : chain[i].txs \in Seq(Tx)
  /\ pending \in Seq(Tx) /\ IsInjective(pending)
  /\ \A a \in DOMAIN accounts : accounts[a] \in Nat
  /\ outputs \in [Tx -> Codes]
  /\ chainLock \in Adder \cup {"free"}
  /\ job.parent \in Nat /\ job.txs \in Seq(Tx)
  /\ pc \in [Thread -> Steps]
  /\ tx \in [Client -> Tx \cup {NoTx}]
  /\ accepted \subseteq Tx

\* A transaction that was once accepted is pending or confirmed at every moment:
\* no interleaving of submissions and blocks loses one.
AcceptedIsKept == \A t \in accepted : Find(pending, t) \/ InChain(t)

\* the emission and the first k transactions of a block, one after the other
Executed(s, b, k) ==
  LET done[n \in 0..Len(b.txs)] ==
        IF n = 0 THEN Credit(s, b.coinbase, EmissionValue)
        ELSE Performed(done[n - 1], b.txs[n], b.coinbase)
  IN  done[k]

\* transaction n of the block raises when those before it have been executed
RaisesAt(s, b, n) == Raises(Executed(s, b, n - 1), b.txs[n])

\* the execution of the block ends with transaction k, the first that raises or the
\* last one
EndsAt(s, b, k) ==
  /\ \A n \in 1..(k - 1) : ~RaisesAt(s, b, n)
  /\ k = Len(b.txs) \/ (k > 0 /\ RaisesAt(s, b, k))

ExecutedBlock(s, b) == Executed(s, b, CHOOSE k \in 0..Len(b.txs) : EndsAt(s, b, k))

\* the blocks of a chain, one after the other
ExecutedChain(c) ==
  LET done[n \in 0..Len(c)] == IF n = 0 THEN InitialBalance ELSE ExecutedBlock(done[n - 1], c[n])
  IN  done[Len(c)]

\* Whenever nobody holds _blockchain_mutex the balances are those of executing the
\* blocks of the chain one after the other, each up to the first transaction whose
\* fee its sender cannot pay any more: an exception in the middle of a block keeps
\* what the block did before it and loses what comes after, but no interleaving of
\* the adding threads, and no exception, leaves a block applied twice, in another
\* order than its place in the chain, or cut anywhere else.
BalancesFollowChain ==
  chainLock = "free" => accounts = ExecutedChain(chain)

\* Every submission is answered, however blocks arrive, unless the program ends: the
\* callbacks that take _blockchain_mutex inside a submission cannot block it for
\* ever, nor can a block that raised.
SubmissionsAreAnswered == \A c \in Client : pc[c] # "idle" ~> pc[c] \in {"idle", "dead"}

Occurrences(t) == UNION {{<<i, j>> : j \in {k \in DOMAIN chain[i].txs : chain[i].txs[k] = t}} : i \in DOMAIN chain}

\* One submitted transfer changes the balances once, also when it reaches the
\* node twice, from a client and from a peer.
TransferHappensOnce == \A t \in Tx : Cardinality(Occurrences(t)) <= 1
=============================================================================
