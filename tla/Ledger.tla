------------------------------- MODULE Ledger -------------------------------
(***************************************************************************)
(* Accounts and the execution of transactions: StateManager                *)
(* (core/managers.cpp) as Core uses it in _tryAddBlock,                    *)
(* applyBlockTransactions, tryPerformTransaction, EthHost and the replay   *)
(* in the constructor (core/core.cpp).                                     *)
(*                                                                         *)
(* Blocks are executed one at a time, under Core::_blockchain_mutex.  A    *)
(* transaction works on a copy of all accounts and replaces the accounts   *)
(* by the copy when it succeeds.  The virtual machine is external: while   *)
(* it runs it makes any host calls, and it returns any status and gas the  *)
(* EVMC interface allows.  Code and storage of contracts are left out.     *)
(***************************************************************************)
EXTENDS Integers, Sequences, FiniteSets, SequencesExt

CONSTANTS
  Address,          \* the addresses in play
  NullAddress,      \* lk::Address::null(): as destination, "create a contract"
  Tx,               \* the transactions anybody may put into a block
  From, To, Amount, Fee,  \* their fields
  HasData,          \* HasData[t]: getData() is not empty
  ContractAddress,  \* ContractAddress[t]: where createContractAccount puts t's contract
  Coinbase,         \* the addresses of the miners
  GenesisAccount, GenesisAmount,  \* the one transaction of the genesis block
  EmissionValue,    \* base::config::BC_EMISSION_VALUE
  VmStatuses,       \* the evmc_status_code values the virtual machine returns
  MaxBlocks, MaxTxInBlock, MaxHostCalls, MaxRestarts   \* bounds

ASSUME LedgerAssumption ==
  /\ NullAddress \notin Address
  /\ From \in [Tx -> Address]
  /\ To \in [Tx -> Address \cup {NullAddress}]
  /\ Amount \in [Tx -> Nat] /\ Fee \in [Tx -> Nat]
  /\ HasData \in [Tx -> BOOLEAN]
  /\ ContractAddress \in [Tx -> Address]
  /\ Coinbase \subseteq Address /\ GenesisAccount \in Address
  /\ GenesisAmount \in Nat /\ EmissionValue \in Nat
  /\ VmStatuses \subseteq {"SUCCESS", "REVERT", "FAILURE"}
  /\ {MaxBlocks, MaxTxInBlock, MaxHostCalls, MaxRestarts} \subseteq Nat

VARIABLES
  accounts,  \* _state_manager._states
  draft,     \* tx_manager, the copy of the running transaction
  running,   \* the contract execution in progress, NoRun if there is none
             \* (before: history, the accounts at its start; calls: host calls made)
  queue,     \* what is still to be performed: <<transaction, coinbase>> pairs
  chain,     \* the stored blocks above the genesis block, each the pairs of its transactions
  outputs,   \* _tx_outputs
  mode,      \* "applying" blocks, "replaying" the chain at startup, "dead"
  blocks, restarts,  \* how many there have been
  uncaught,  \* history: modes in which an exception left tryPerformTransaction
  issued,    \* history: money handed out by the genesis block and as emission
  burned     \* history: money deleted with an account, less what failed contracts
             \* made: the miner is paid the gas used, the sender pays gas_left

vars == <<accounts, draft, running, queue, chain, outputs, mode, blocks, restarts,
          uncaught, issued, burned>>
bookkeeping == <<chain, mode, blocks, restarts, uncaught, issued>>

NoRun == [tx |-> "none"]

-----------------------------------------------------------------------------
(* AccountState and StateManager *)

NewAccount(type) == [type |-> type, balance |-> 0, nonce |-> 0]

\* the non-const StateManager::getAccount, which creates what it does not find
GetAccount(s, a) == IF a \in DOMAIN s THEN s[a] ELSE NewAccount("CLIENT")
WithAccount(s, a, account) == [x \in DOMAIN s \cup {a} |-> IF x = a THEN account ELSE s[x]]
Touched(s, a) == WithAccount(s, a, GetAccount(s, a))
Balance(s, a) == GetAccount(s, a).balance

AddBalance(s, a, n) == WithAccount(s, a, [GetAccount(s, a) EXCEPT !.balance = @ + n])
SubBalance(s, a, n) == WithAccount(s, a, [GetAccount(s, a) EXCEPT !.balance = @ - n])

\* Mutant: any account can pay.
CanTransfer_Always(s, from, n) == from \in DOMAIN s

\* tryTransferMoney: whether it succeeds, and the accounts it leaves behind
CanTransfer(s, from, n) == from \in DOMAIN s /\ Balance(s, from) >= n
Transferred(s, from, to, n) == AddBalance(SubBalance(s, from, n), to, n)
Deleted(s, a) == [x \in DOMAIN s \ {a} |-> s[x]]

\* AccountState::addTransactionHash
WithTransaction(s, a) == WithAccount(s, a, [GetAccount(s, a) EXCEPT !.nonce = @ + 1])

GenesisAccounts == [a \in {GenesisAccount} |->
                      [NewAccount("CLIENT") EXCEPT !.balance = GenesisAmount]]

Supply(s) == MapThenSumSet(LAMBDA a : s[a].balance, DOMAIN s)

\* The address of a contract is a hash of its creator's address and nonce, the address
\* of a sender one of a public key: two properties are about senders whose account no
\* contract is created over.
Senders == {From[t] : t \in Tx}
NoSenderIsContract == \A t \in Tx : ContractAddress[t] \notin Senders

-----------------------------------------------------------------------------
(* Core *)

\* Mutant: the fee is not part of the cost.
Cost_NoFee(t) == Amount[t]

\* A sum above 2^256 - 1 throws, base::Uint256 being checked; like a cost above
\* the balance it ends the check of the block with nothing changed.
Cost(t) == Amount[t] + Fee[t]

\* calcCost: map::insert keeps the first transaction of every sender
FirstFrom(txs, a) == CHOOSE i \in DOMAIN txs :
                       From[txs[i]] = a /\ \A j \in 1..(i - 1) : From[txs[j]] # a
CalcCost(txs, a) == Cost(txs[FirstFrom(txs, a)])

CheckBlockTransactions(txs) ==
  \A i \in DOMAIN txs :
    /\ From[txs[i]] \in DOMAIN accounts
    /\ CalcCost(txs, From[txs[i]]) <= Balance(accounts, From[txs[i]])

Init ==
  /\ accounts = GenesisAccounts
  /\ draft = GenesisAccounts
  /\ running = NoRun
  /\ queue = <<>> /\ chain = <<>>
  /\ outputs = [t \in {} |-> "none"]
  /\ mode = "applying"
  /\ blocks = 0 /\ restarts = 0
  /\ uncaught = {}
  /\ issued = GenesisAmount /\ burned = 0

TxLists == UNION {[1..n -> Tx] : n \in 1..MaxTxInBlock}
Pairs(txs, coinbase) == [i \in DOMAIN txs |-> <<txs[i], coinbase>>]

\* _tryAddBlock for a block the blockchain accepts: the emission of
\* applyBlockTransactions, whose loop is the queue
ApplyBlock(txs, coinbase) ==
  /\ mode = "applying" /\ queue = <<>> /\ blocks < MaxBlocks
  /\ CheckBlockTransactions(txs)
  /\ accounts' = AddBalance(accounts, coinbase, EmissionValue)
  /\ issued' = issued + EmissionValue
  /\ queue' = Pairs(txs, coinbase)
  /\ chain' = Append(chain, Pairs(txs, coinbase))
  /\ blocks' = blocks + 1
  /\ UNCHANGED <<draft, running, outputs, mode, restarts, uncaught, burned>>

CurrentTx == Head(queue)[1]
CurrentCoinbase == Head(queue)[2]
Sender == From[CurrentTx]

\* A transaction ends with an output and with the accounts s
Finish(code, feeLeft, s) ==
  /\ accounts' = s
  /\ outputs' = [t \in DOMAIN outputs \cup {CurrentTx} |->
                   IF t = CurrentTx THEN [code |-> code, feeLeft |-> feeLeft] ELSE outputs[t]]
  /\ queue' = Tail(queue)
  /\ running' = NoRun
  /\ draft' = s

\* The virtual machine starts on the copy s; overwritten is what the account had
\* that createContractAccount replaced
StartVm(contract, s, overwritten) ==
  /\ draft' = s
  /\ running' = [tx |-> CurrentTx, calls |-> 0, burned |-> overwritten,
                 contract |-> contract, before |-> accounts']
  /\ UNCHANGED <<outputs, queue, burned>>

\* An exception leaves tryPerformTransaction: the rest of the block is skipped.  A
\* network thread logs it and goes on, in a miner thread and in the constructor
\* it ends the process.
Throw(s) ==
  /\ accounts' = s
  /\ draft' = s
  /\ queue' = <<>>
  /\ uncaught' = uncaught \cup {mode}
  /\ mode' = "dead" \/ (mode = "applying" /\ mode' = mode)
  /\ UNCHANGED <<running, chain, outputs, blocks, restarts, issued, burned>>

\* Mutant: the transaction is not counted.
Charged_NotCounted == Touched(accounts, Sender)

\* addTransactionHash goes to the accounts themselves, before the copy is made
Charged == WithTransaction(accounts, Sender)

\* tryPerformTransaction with the null destination: every Error is caught
CreateContract ==
  /\ queue # <<>> /\ running = NoRun /\ To[CurrentTx] = NullAddress
  /\ LET t        == CurrentTx
         contract == ContractAddress[t]
         paid     == SubBalance(Charged, Sender, Fee[t])
         created  == WithAccount(paid, contract, NewAccount("CONTRACT"))
     IN \/ /\ Balance(Charged, Sender) < Fee[t]
           /\ Finish("Failed", Fee[t], Charged)
           /\ burned' = burned
        \/ /\ Balance(Charged, Sender) >= Fee[t]
           /\ ~CanTransfer(created, Sender, Amount[t])
           /\ Finish("NotEnoughBalance", Fee[t], Charged)
           /\ burned' = burned
        \/ /\ Balance(Charged, Sender) >= Fee[t]
           /\ CanTransfer(created, Sender, Amount[t])
           /\ accounts' = Charged
           /\ StartVm(contract, Transferred(created, Sender, contract, Amount[t]),
                      Balance(paid, contract))
  /\ UNCHANGED bookkeeping

\* Both branches for a destination read it first, which creates it, and take the
\* fee from the copy outside of any try block
Known == Touched(Charged, To[CurrentTx])
FeeTaken == SubBalance(Known, Sender, Fee[CurrentTx])

HasDestination == queue # <<>> /\ running = NoRun /\ To[CurrentTx] # NullAddress

FeeNotCovered ==
  /\ HasDestination
  /\ Balance(Known, Sender) < Fee[CurrentTx]
  /\ Throw(Known)

CallContract ==
  /\ HasDestination
  /\ Balance(Known, Sender) >= Fee[CurrentTx]
  /\ Known[To[CurrentTx]].type = "CONTRACT"
  /\ LET t == CurrentTx IN
     \/ /\ ~HasData[t]
        /\ Finish("BadQueryForm", Fee[t], Known)
        /\ burned' = burned
     \/ /\ HasData[t] /\ Amount[t] > 0 /\ ~CanTransfer(FeeTaken, Sender, Amount[t])
        /\ Finish("NotEnoughBalance", Fee[t], Known)
        /\ burned' = burned
     \/ /\ HasData[t] /\ CanTransfer(FeeTaken, Sender, Amount[t])
        /\ accounts' = Known
        /\ StartVm(To[t], Transferred(FeeTaken, Sender, To[t], Amount[t]), 0)
  /\ UNCHANGED bookkeeping

\* Mutant: the fee is not given to the miner.
TransferMoney_FeeLost ==
  /\ HasDestination
  /\ Balance(Known, Sender) >= Fee[CurrentTx]
  /\ Known[To[CurrentTx]].type = "CLIENT"
  /\ LET t == CurrentTx IN
       IF CanTransfer(FeeTaken, Sender, Amount[t])
       THEN Finish("Success", 0, Transferred(FeeTaken, Sender, To[t], Amount[t]))
       ELSE Finish("NotEnoughBalance", Fee[t], Known)
  /\ UNCHANGED <<bookkeeping, burned>>

TransferMoney ==
  /\ HasDestination
  /\ Balance(Known, Sender) >= Fee[CurrentTx]
  /\ Known[To[CurrentTx]].type = "CLIENT"
  /\ LET t == CurrentTx IN
     \/ /\ ~CanTransfer(FeeTaken, Sender, Amount[t])
        /\ Finish("NotEnoughBalance", Fee[t], Known)
     \/ /\ CanTransfer(FeeTaken, Sender, Amount[t])
        /\ Finish("Success", 0, AddBalance(Transferred(FeeTaken, Sender, To[t], Amount[t]),
                                           CurrentCoinbase, Fee[t]))
  /\ UNCHANGED <<bookkeeping, burned>>

-----------------------------------------------------------------------------
(* EthHost: what a contract does while it runs, on the copy *)

Contracts(s) == {a \in DOMAIN s : s[a].type = "CONTRACT"}
HostCall == running # NoRun /\ running.calls < MaxHostCalls

\* The virtual machine only runs the code of the contract that was created or called,
\* or of one that EthHost::call found: nobody else destroys itself.  The message it
\* hands to EthHost::call names as sender the address of that code or, when the code
\* delegates its call, who called it: the sender of the transaction for the outermost.
RunningCode == Contracts(accounts) \cup {running.contract}
MessageSenders == RunningCode \cup {Sender}

\* Mutant: the host changes the accounts of the core, not the copy.
HostTransfer_OnAccounts(from, to, n) ==
  /\ HostCall
  /\ from \in MessageSenders /\ to \notin Contracts(draft)
  /\ accounts' = AddBalance(accounts, to, n)
  /\ running' = [running EXCEPT !.calls = @ + 1]
  /\ UNCHANGED <<draft, queue, outputs, bookkeeping, burned>>

\* EthHost::call to an address that is no contract: the result of the transfer is
\* ignored.  A call to a contract only runs its code, as a nested execution.
HostTransfer(from, to, n) ==
  /\ HostCall
  /\ from \in MessageSenders /\ to \notin Contracts(draft)
  /\ draft' = IF CanTransfer(draft, from, n) THEN Transferred(draft, from, to, n) ELSE draft
  /\ running' = [running EXCEPT !.calls = @ + 1]
  /\ UNCHANGED <<accounts, queue, outputs, bookkeeping, burned>>

\* EthHost::selfdestruct, which creates an account that is gone already; a contract
\* that names itself loses what it has
SelfDestruct(a, beneficiary) ==
  /\ HostCall
  /\ a \in RunningCode
  /\ LET moved == Transferred(draft, a, beneficiary, Balance(draft, a)) IN
     /\ draft' = Deleted(moved, a)
     /\ running' = [running EXCEPT !.calls = @ + 1, !.burned = @ + Balance(moved, a)]
  /\ UNCHANGED <<accounts, queue, outputs, bookkeeping, burned>>

\* The host calls that read or write an account's storage or code get it from the
\* non-const getAccount: asking for an address creates it
HostTouch(a) ==
  /\ HostCall
  /\ a \notin DOMAIN draft
  /\ draft' = Touched(draft, a)
  /\ running' = [running EXCEPT !.calls = @ + 1]
  /\ UNCHANGED <<accounts, queue, outputs, bookkeeping, burned>>

\* EVMC_SUCCESS: gas that is left goes back, the rest to the miner, and the copy
\* becomes the state; setRuntimeCode touches the contract that was created
VmSuccess(gasLeft) ==
  /\ running # NoRun /\ "SUCCESS" \in VmStatuses
  /\ LET t      == CurrentTx
         done   == IF To[t] = NullAddress THEN Touched(draft, running.contract) ELSE draft
         earned == AddBalance(done, CurrentCoinbase, Fee[t] - gasLeft)
     IN Finish("Success", gasLeft, AddBalance(earned, Sender, gasLeft))
  /\ burned' = burned + running.burned
  /\ UNCHANGED bookkeeping

\* Any other status: the copy is dropped, the sender is charged on the accounts
VmNoSuccess(code, gasLeft) ==
  /\ running # NoRun
  /\ Finish(code, gasLeft,
            AddBalance(SubBalance(accounts, Sender, gasLeft), CurrentCoinbase, Fee[CurrentTx] - gasLeft))
  /\ burned' = burned + gasLeft - (Fee[CurrentTx] - gasLeft)
  /\ UNCHANGED bookkeeping

VmRevert(gasLeft) == "REVERT" \in VmStatuses /\ VmNoSuccess("Revert", gasLeft)

\* EVMC: gas_left is 0 when the status is neither SUCCESS nor REVERT
VmFailure == "FAILURE" \in VmStatuses /\ VmNoSuccess("BadQueryForm", 0)

-----------------------------------------------------------------------------
\* The process ends at any moment and is started again; a block is stored before it
\* is executed.  The constructor of Core replays all transactions of the stored
\* chain, without the emission.
Restart ==
  /\ restarts < MaxRestarts /\ chain # <<>>
  /\ accounts' = GenesisAccounts /\ draft' = GenesisAccounts
  /\ outputs' = [t \in {} |-> "none"]
  /\ queue' = FlattenSeq(chain)
  /\ mode' = "replaying"
  /\ restarts' = restarts + 1
  /\ issued' = GenesisAmount /\ burned' = 0
  /\ running' = NoRun
  /\ UNCHANGED <<chain, blocks, uncaught>>

ReplayDone ==
  /\ mode = "replaying" /\ queue = <<>>
  /\ mode' = "applying"
  /\ UNCHANGED <<accounts, draft, running, queue, chain, outputs, blocks, restarts,
                 uncaught, issued, burned>>

\* what the virtual machine may choose
GasLeft == 0..Fee[CurrentTx]
Amounts == {Amount[t] : t \in Tx}

Next ==
  \/ \E txs \in TxLists, coinbase \in Coinbase : ApplyBlock(txs, coinbase)
  \/ CreateContract \/ CallContract \/ TransferMoney \/ FeeNotCovered
  \/ \E from, to \in Address, n \in Amounts : HostTransfer(from, to, n)
  \/ \E a, beneficiary \in Address : SelfDestruct(a, beneficiary)
  \/ \E a \in Address : HostTouch(a)
  \/ running # NoRun /\ \E gasLeft \in GasLeft : VmSuccess(gasLeft) \/ VmRevert(gasLeft)
  \/ VmFailure
  \/ Restart \/ ReplayDone

Spec == Init /\ [][Next]_vars

-----------------------------------------------------------------------------
AccountStates == [type : {"CLIENT", "CONTRACT"}, balance : Nat, nonce : Nat]
Codes == {"Success", "Revert", "BadQueryForm", "NotEnoughBalance", "Failed"}

\* The values each variable ranges over; a balance is never negative, neither in
\* the accounts nor in the copy a contract works on.
TypeOK ==
  /\ DOMAIN accounts \subseteq Address /\ \A a \in DOMAIN accounts : accounts[a] \in AccountStates
  /\ DOMAIN draft \subseteq Address /\ \A a \in DOMAIN draft : draft[a] \in AccountStates
  /\ queue \in Seq(Tx \X Coinbase) /\ chain \in Seq(Seq(Tx \X Coinbase))
  /\ \A t \in DOMAIN outputs : t \in Tx /\ outputs[t].code \in Codes
  /\ mode \in {"applying", "replaying", "dead"}
  /\ uncaught \subseteq {"applying", "replaying"}

\* No transaction makes or loses money in passing, whatever contracts do, blocks
\* that are cut short by an exception leave out and restarts replay: the balances
\* add up to what the genesis block and the emission handed out, less what was
\* deleted together with an account (a contract created over a funded address, a
\* self-destruction in its own favour), and but for contracts that fail, whose
\* sender pays gas_left while the miner gets the gas that was used.
SupplyIsExact ==
  IF running = NoRun
  THEN Supply(accounts) = issued - burned
  ELSE Supply(draft) + Fee[CurrentTx] = issued - burned - running.burned

\* A contract execution that does not succeed leaves the accounts of everybody
\* but the sender and the miner as they were when it started, whatever the
\* contract had done: transfers, self-destructions, nested calls.
FailureIsIsolated ==
  [][running # NoRun /\ running' = NoRun /\ CurrentTx \in DOMAIN outputs'
     /\ outputs'[CurrentTx].code \in {"Revert", "BadQueryForm"} =>
       \A a \in Address \ {Sender, CurrentCoinbase} :
         /\ (a \in DOMAIN accounts') = (a \in DOMAIN running.before)
         /\ GetAccount(accounts', a) = GetAccount(running.before, a)]_vars

CountFrom(pairs, a) == Cardinality({i \in DOMAIN pairs : From[pairs[i][1]] = a})

\* A sender's nonce, from which the addresses of its contracts are computed, is
\* the number of its transactions in the executed part of the chain, the failed
\* ones included, also after a replay.
NonceCountsTransactions ==
  uncaught = {} =>
    \A a \in Senders :
      GetAccount(accounts, a).nonce =
        CountFrom(FlattenSeq(chain), a) - CountFrom(queue, a)
        + (IF running # NoRun /\ Sender = a THEN 1 ELSE 0)

\* A block that passed checkBlockTransactions makes subBalance refuse the fee
\* outside of any try block only for a sender with several transactions in it:
\* the check, which counts the first one, is enough for all others, whatever the
\* transactions before it and the contracts they ran did.
OneSpendIsCovered ==
  mode = "applying" /\ HasDestination /\ Balance(Known, Sender) < Fee[CurrentTx] =>
    CountFrom(Last(chain), Sender) > 1

\* The replay of a chain at startup never makes subBalance refuse ("trying to take
\* more LK from account than it has") when its first execution did not.
ReplayNeverOverdraws == uncaught = {} \/ "applying" \in uncaught
=============================================================================
