# Likelib node: a TLA+ verification project

Likelib is a proof-of-work blockchain node in C++ with accounts, fees and EVM
contracts. This directory holds TLA+ models of the node, TLC configurations that
check them on small instances, and TLAPS proofs about all seven models, for every
value of their constants. Source paths below are relative to the
repository's own `src/` directory.

## 1. The system

A node is one process (`node/main.cpp`). `Node` (`node/node.hpp`) owns a `Core`,
an RPC server and a `Miner`. `Core` owns the `StateManager` (accounts), the
`PersistentBlockchain` (chain and LevelDB), the pending transactions, the
statuses of transactions and the `Host` (peers). Three kinds of threads enter it:

- RPC threads and the network thread submit transactions (`addPendingTransaction`);
- the network thread adds blocks of other nodes (`tryAddBlock`);
- miner threads add their own (`tryAddMinedBlock`), through `Node::onBlockMine`.

Observers close the circle: a new pending transaction and a foreign block make
`Node` ask the core for mining data and post a job to the miner.

| component | state | operations | what is hard | what makes it correct |
|---|---|---|---|---|
| Consensus | queue of the newest blocks, complexity | checkBlock, applyBlock | 256-bit limits, off-by-one of the window | complexity is a function of the chain, never overflows |
| Blockchain, PersistentBlockchain | `_blocks`, `_blocks_by_depth`, top hash; BLOCK / PREVIOUS_BLOCK_HASH / LAST_BLOCK_HASH keys | tryAddBlock, pushForwardToPersistentStorage, load | crash between puts, reload through the same checks, clock | one chain in memory; the database can be walked; acknowledged blocks survive |
| Miner | version and task shared by the workers | findNonce, dropJob, stop; the workers' loop | lock-free version check, simultaneous finds, shutdown while others still post | versions identify data; each call of the handler drops a new job; no worker undoes stop |
| Accounts and execution | accounts with balance, nonce, type | transfers, contract creation and calls, host calls, replay | failures in the middle, exceptions, restart | money is conserved, failures are isolated, nonces count |
| Core and Node | pending set, statuses, locks, the miner's job | addPendingTransaction, tryAddBlock, tryAddMinedBlock, callbacks | check-then-act over several locks, callbacks under way, exceptions in the middle of a block | nothing accepted is lost, balances follow the chain, everybody is answered |
| Peer protocol (`Peer`, its `Synchronizer`) | pool, open request, fetched blocks, rating | the handlers of thirteen messages, endSession | crossed dials, refusals on one side, blocks announced during a download, no timeout of requests, readers that stop | both ends agree, requests can be answered, downloads deliver, and end while both ends read |
| Host, pools, rating | table of buckets, new peers, endpoints being connected to, ratings | bootstrap, checkOutPeer, accept, connect callbacks, heartbeat | two threads that dial, late completions, full buckets, clock, penalties without floor | no node twice, right buckets, only silent peers are replaced, no dial forgotten |
| Network layer | write queue, socket, read buffer, timers | connect, accept, send, receive, close | senders against completions, length and buffer limits, close against last message | one write at a time, whole messages in order, all that is queued is heard |
| RPC, VM glue, base library, client, GUI | none of the node's | conversions and calls | | |

`PROJECT.json` lists these parts with their status, and every hazard with the
line at which it bites.

## 2. Modules and how they correspond to the code

| module | models | depends on |
|---|---|---|
| `Blocks` | immutable blocks and the accessors the chain reads | |
| `Consensus` | `core/consensus.cpp` | `Blocks` |
| `Blockchain` | `core/blockchain.cpp` | `Consensus` |
| `ChainLog` | the abstract promise of a persistent chain | |
| `Miner` | `node/miner.cpp` | |
| `Ledger` | `core/managers.cpp`, the execution half of `core/core.cpp`, `calcCost` | |
| `Core` | the concurrent half of `core/core.cpp`, `core/transactions_set.cpp`, `node/node.cpp` | |
| `Peers` | `core/peer.cpp` and `peer.tpp`, the dialling of `core/host.cpp`, for several nodes | |
| `Host` | `core/host.cpp`, `core/rating.cpp`, `net/connector.cpp`, `net/acceptor.cpp`, for one node among arbitrary peers | |
| `Net` | `net/session.cpp`, `net/connection.cpp`, for one direction of a session | |
| `BlockchainProofs`, `MinerProofs`, `LedgerProofs`, `CoreProofs`, `PeersProofs`, `HostProofs`, `NetProofs` | theorems, each about the model it is named for | that model, `CommonFacts` (not `MinerProofs` and `NetProofs`) |
| `CommonFacts` | lemmas that several proofs use: least numbers, induction over sets, recursive functions, sequences without repetition, sums | |
| `MCBlockchain`, `MCMiner`, `MCLedger`, `MCCore`, `MCPeers`, `MCHost`, `MCNet` | the instances TLC checks | |

**Blocks, Consensus.** A block is a value; its hash is the block itself, and the
number the hash stands for is `HashValue`. `ApplyBlock` is all of
`Consensus::applyBlock`: push, pop, the two early returns, the clamped ratio in
both directions. The code divides doubles and rounds; the model rounds the exact
quotient. The limit that keeps the product below 2^256 is in `Easier`.

**Blockchain.** `TryAddBlock` is the part of `tryAddBlock` under `_blocks_mutex`;
a refused block changes nothing, so refusals are stutters. The three puts are
three actions (`PutBlock`, `PutPrev`, `PutLast`) because the process ends
abruptly in its signal handler. `PutBlock` has the early return for a block that
is already stored. `Restart`, `WalkBack`, `WalkDone`, `LoadBlock`, `LoadDone` are
the constructors, the walk along PREVIOUS_BLOCK_HASH and the loop of `load()`,
which ignores the result of `tryAddBlock`. A failed assertion there is the mode
`aborted`. LevelDB is external: a put is atomic, durable and in order. The setting
`database.clean`, which throws the stored chain away at every start, is left out.
`CrashPoints` names the moments at which a crash is explored, `ClockStepsBack`
whether the wall clock, read anew at each reload, may go back.

**ChainLog** is the specification `Blockchain` is meant to implement: an
append-only log in which a crash may lose only the block whose addition has not
returned. The mapping takes the chain in memory while the node runs, and what the
disk held at the crash while it does not.

**Miner.** Waiting on the condition variable is a guard on the version, since
both notify and predicate are under the mutex. Hashing is a nondeterministic
step. `callHandlerAndDrop` is split at its unlock. `setCommonData` asks for nothing:
`FindNonce` and `DropJob` may come at any time, also after `Stop` has posted EXIT,
because `Node` destroys its miner before its RPC server and its core
(`node/node.hpp:25`). They end when all workers are joined, that is, when the object
is gone; a call on the destroyed object is undefined behaviour and not modelled. An
exception that leaves the handler ends the program and is in `Core`.

**Ledger.** Accounts are records of type, balance and nonce; a transaction works
on `draft`, the copy of the `StateManager`. The virtual machine is external:
between `StartVm` and its end it makes any sequence of host calls
(`HostTransfer`, `SelfDestruct`, `HostTouch`) up to a bound and then returns any
status with any gas the EVMC interface allows. `EthHost::call` takes the money from
the sender of the message, whatever kind of account that is, and
`EthHost::selfdestruct` does not ask either; whom a message can name is up to the
virtual machine: the contract whose code runs, or the sender of the transaction in a
delegated call (`MessageSenders`), and only running code destroys itself
(`RunningCode`). When a contract creates another, `EthHost::call` does not do so: it
transfers to the destination of the message, the null address, which is not among the
addresses of the model. `Throw` is an exception that
leaves `tryPerformTransaction`: the rest of the block is skipped; whether the
process survives depends on the thread, so both happen. `Restart` replays the
stored transactions, without emission, as the constructor of `Core` does.

**Core.** One action per critical section of `addPendingTransaction`, of block
addition and of the callbacks of `Node`. `_blockchain_mutex` is a variable,
because it is held across several steps; sections of the other mutexes are single
steps. Transactions are transfers with a fee, contracts being `Ledger`'s matter. A fee
that its sender cannot pay when its turn comes raises an exception
(`RaiseOutOfBlock`): the lock is given back by unwinding, the block stays in the chain,
its transactions before that one stay executed, those behind it never are. In the
network thread `Connection::receive` catches the exception and the node goes on; in a
miner thread nothing does and the program ends (`dead`). A worker takes a job
(`FindNonce`) and drops whatever job there is when it has its nonce (`DropJob`), as
`callHandlerAndDrop` does.
`SubmitBadSign` is in the model because the signature is not part of the hash.

**Peers** composes several nodes. A node is its chain, its `Peer` objects (one per
end of a session) and the part of `Host` that dials. There is one network thread
per node, so every message handler is one step; a mined block is added in one step
and announced in a later one, as the miner's thread does. A block is the path to
it, so `findBlock` is a prefix test and `tryAddBlock` of a valid block a comparison
with the parent. A connection delivers in order until it breaks. `Break` is a step of
one end: what is on its way to it is lost, and it sees the end of the stream (`Eof`)
and closes, or it never reads again with its session open (`Lost`), because
`Connection::receive` only logs errors other than eof and reset
(`net/connection.cpp:111`), or because the rest of a message that was cut never comes.
The other end may go on unaware, or break in its turn. `HandleConnect` is one step:
between the entry of the peer into the table and the queueing of Accepted
(`core/peer.cpp:489`, `:491`) the miner's thread could announce a block on the session,
so that NewBlock would overtake Accepted; this order is not in the model. `requested`, `blocks` and
`rating` are `_requested_block`, `_sync_blocks` and `_rating`; `goal` is a history
variable. An exception that leaves a handler makes the end `deaf`. Buckets have room
here, and a Lookup returns all peers (the code returns up to five). The initial chains
are any that `OwnBlocks` allows: a block carries the address of its miner, who adds it
before anybody hears of it, so whoever has a block, its miner has it. Nodes that share
an address, and a miner that lost a block it had announced to a crash (section 3), are
outside of this.

**Host** is one node with everything around it open: peers answer, refuse, fall silent,
close. `checkOutPeer` is three steps in the main thread (`BootstrapCheck`,
`BootstrapInsert`, `BootstrapConnect`) and one in the network thread. `dials` counts
attempts by whether their deadline has fired; the deadline frees the endpoint and leaves
the socket connecting, so the attempt can still fail or be established. The table is the
array of buckets with the real `calcDifference` on bytes; time is unsigned and wraps.
Ratings have all their penalties: those of `invalidMessage` for a message that cannot be
understood, which lower the rating by 30 and do nothing else (`HandleInvalid`), and
those for blocks that were not asked for, are wrong or of another chain, which end the
session when the rating is no longer good (`HandleWrongBlock`). None has a floor, so the
int16 wraps around after a long enough series and the worst peer becomes the best;
`Lowered` does the same, at `RatingLimit`. An exception of the constructor of
`Connection`, which asks for the address of a remote end that may be gone, ends the
network thread (`ConnectThrows`), while the main thread goes on. Stored ratings of
earlier runs are not read: all start as new ones. A peer without a public endpoint
compares equal to nobody (the code dereferences an empty optional).

**Net** is one direction of a session: threads push, one starts to write, the
network thread completes, TCP carries units in order, the other side reads a length,
a body, and calls the handler. The length is taken modulo 2^16 and the read is cut
at the buffer, so that a message that is too long leaves the reader out of step; what
it makes of the stream afterwards is not followed (state `lost`).

The three are tied by what they take from each other: `Net` shows that a session
delivers whole messages in order, which `Peers` assumes of its inboxes (for messages
that fit the buffer); `Host` shows that the table and the dials behave under any peers,
of which `Peers` uses a version with room and without wrong messages; `Peers` uses
chains that only grow at the top, which `ChainIsIntact` of `BlockchainProofs` proves.

## 3. Runs

| run | shows |
|---|---|
| `chain_faults` | crashes between any two puts and during reload, clock in both directions: `ChainIntact`, `ConsensusTracksChain`, `DifficultyFromChain` |
| `chain_durable` | crashes outside of a push or before its first put, clock not set back: the database stays walkable (`StorageClosed`), no start fails (`StartsAgain`), `Blockchain` implements `ChainLog`, every restart completes |
| `chain_torn_push` | *violated*: with the excluded crash `StartsAgain` fails |
| `miner` | snapshots, handler calls, who can replace EXIT, and the two liveness properties |
| `ledger` | creation over funded addresses, calls, host calls, self-destruction, reverts, failures, refused transfers, exceptions, restarts, blocks with two senders: money is accounted for to the unit, nonces count, failures are isolated, and which senders' transactions can raise an exception |
| `ledger_replay` | *violated*: the replay at startup cannot always repeat what was executed |
| `core` | two submitters, the network, the miner, and fees that raise in the middle of blocks: nothing accepted is lost, balances follow the chain (each block up to its first exception), every submission is answered unless the program ends |
| `core_once` | *violated*: a transfer submitted twice while it is being confirmed is executed twice |
| `peers` | two nodes that dial each other, with forks, foreign genesis blocks, mining, and a session that breaks at either end, with its end seen or not: both ends agree, requests can be answered, the download is connected, with one source it reaches its goal, every session settles that both ends go on reading |
| `peers_sources` | *violated*: with two peers to download from, fetched blocks are thrown away |
| `host` | late, failed and crossed dials, full buckets, refusals, wrong messages, ratings that wrap, a clock set back, a network thread that ends: one peer per node, buckets, eviction, dials |
| `net` | two senders, messages around the two length limits, breaks and closes: one writer, order, framing, delivery |

`peers_sources` violates `DownloadDelivers`; `peers` checks `OneSourceDelivers`, the
same for two nodes neither of which has ever had another session. Two sessions between
the same two nodes are two sources already: when dials cross, both may be open for a
moment, a node downloads in both, and the second download meets the blocks of the
first. (The instance of `peers` does not show this; it takes two nodes that start at
the genesis block, one of which mines three blocks.)

The four violated runs state what an assertion, an error message, a comment or an
integration test of the repository says; the findings in `PROJECT.json` quote it.

Three observations about durability separate the chain runs. A crash between the
first two puts leaves BLOCK without PREVIOUS_BLOCK_HASH; adding the block again
stores nothing, its child becomes the last block, and the following start fails
(`chain_torn_push`). A crash between the second and the third put is harmless to
the walk, but the block, when added again, never becomes LAST_BLOCK_HASH: it is
acknowledged and lost with the next restart unless a child is added, which is why
`chain_durable` leaves that crash out. A clock that is set back makes the reload
refuse blocks that lie in the future.

Behaviours that the models contain as the code has them, without a run of their
own:

- the comparison of `addPendingTransaction` with the pending transactions
  (`core/core.cpp:113`) refuses when the sum is *less* than the balance;
- the status Pending is written after the subscribers have run
  (`core/core.cpp:140`), so it may replace the status Success of a transaction
  that was mined meanwhile; a copy with a bad signature replaces it too;
- two workers that found a nonce for one job both reach the handler when a new job
  is posted between their two calls (`node/miner.cpp:63` compares the task only), and
  the new job is dropped with nobody having mined it; `HandlerCallsDropNewJobs` says
  what holds: every call drops a job posted after the one the call before it dropped;
- findNonce or dropJob after `~Miner` has posted EXIT replaces EXIT; a worker that has
  not read it by then goes on, and the join of the destructor waits for ever.
  `StopJoins` and `WorkersKeepExit` say that there is no other way to this;
- `calcCost` counts the first transaction of every sender only, so a block may
  raise an exception in its middle and be applied in part; `OneSpendIsCovered` says when
  it cannot, and `BalancesFollowChain` what is left of the block when it does;
- an older job may be posted after a newer one (`node/node.cpp:50`) and be mined; its
  block has an outdated parent and is refused;
- after a revert the sender pays `gas_left`, not the gas used
  (`core/core.cpp:396`), and the miner gets the rest of the fee: the difference is
  created or destroyed. `burned` keeps the account of it, so that `SupplyIsExact`
  still finds any other loss;
- the genesis block pays no emission, although a comment counts it
  (`core/core.cpp:57`);
- after a mined block only the mining event is sent (`core/core.cpp:193`), to which
  the posting of jobs is not subscribed: transactions that arrived meanwhile wait
  for the next submission or foreign block;
- two nodes that dial each other at the same moment each refuse the session of the
  other, and may end with none: each side adds the session it accepted first, and
  refuses in the other the node it knows already;
- a refusal (`CannotAccept`) sets the rating of the refusing node to -30
  (`core/peer.cpp:508`), and `Rating::getValue`, which repairs ratings with time, is
  only called for good ones: a node refused once is not dialled again;
- an endpoint with a bad rating stays in `_connector_in_process`
  (`core/host.cpp:327`);
- a block mined between the handshake's exchange of top blocks and the entry of the
  peer into the table reaches that peer neither by download nor by announcement, and
  received blocks are not relayed; `Peers` has no property of convergence because
  the code has no synchronisation after the handshake (`core/peer.cpp:40`);
- `Lookup` sorts by the length of the common prefix in ascending order
  (`core/host.cpp:232`) and so returns the farthest peers;
- `Peer::_state` is written and never read, requests by message id are never made,
  the limit of connections is not used, and a session that never says Connect is
  never closed;
- `removePeer` compares the index of a bucket with the size of a bucket
  (`core/host.cpp:186`), so that a debug build ends when a peer is replaced in bucket
  10 or above; the release build only logs it;
- `std::move(session)` and `session->getEndpoint()` are arguments of one call
  (`core/host.cpp:298`, `:343`): the models take the order in which gcc evaluates
  them, with the other the pointer is null;
- after a message longer than 16 KB, a read error other than eof and reset, or an
  exception in a handler, a session stays open without being understood or read
  (`net/connection.cpp:92`, `:111`, `:124`), and its request, which has no timeout, is
  open for ever; `SessionsSettle` excepts exactly these (`Unread`);
- penalties wrap a rating around (`core/rating.hpp:20`).

### Bounds

- **Chain**: 14 blocks: a chain of five with a fork, a fast and a slow block at
  the recalculation depths, and one block for each check of `tryAddBlock`.
  `RecalculationRate` is 2, so the window fills, slides and recalculates twice;
  hashes are 1..64, so the limit is met exactly. The clock has two readings, one of
  them too early for one block. Crashes are not bounded.
- **Miner**: two workers, three posts: one worker overtakes the other between its
  check and the lock, a job is replaced, and one more; any of the posts may come after
  EXIT. The proofs cover the rest.
- **Ledger**: four transactions of the genesis account (a costly transfer, a creation,
  a call, a transfer to the address of the contract to come) and one of the miner, two
  blocks of up to two, one host call and one restart; amounts such that the sender can
  pay one transaction but not both, that a contract is created over a funded address,
  and that a miner has its emission and its fees only, in blocks that it shares with
  transactions of the genesis account before and after its own.
- **Core**: two clients, two submissions (the same transaction twice is the
  interesting case), one foreign block of up to four transactions: one that raises in
  its middle with a transaction behind it that could be paid, one that does not raise,
  an empty one and one that is too long. Blocks have room for three transactions; a
  pool that is larger than a block, from which `Selections` picks, is in the proofs
  only.
- **Peers**: two nodes with one session in each direction, node b two blocks above the
  genesis block and mining one more, node a behind it, on a fork, or with another
  genesis block: a download has one or two requests, with an announcement before, during
  and after it. One of the two sessions may break, at each end once and in both ways.
  The third node of `peers_sources` is the second source. The theorems cover the rest:
  longer chains, mining on both sides, more nodes.
- **Host**: three remote nodes in one bucket of two, plus the node itself under another
  endpoint; three Peer objects and two attempts at a time, two readings of the clock.
  `QuietLimit` is 0, so that one tick is a long silence. `RatingLimit` is 30 in place of
  2^15, so that two or three penalties wrap a rating around and a dialled peer becomes
  good again. Wrong messages come from r1, while it has one session (`Rude`,
  `RudeSessions`): the properties relate ratings to dials and pools, for which one such
  node is enough, and the theorems have no such bound. Peer objects are symmetric, being
  told apart by what they hold only, and so are r2 and r3, which do the same and whose
  addresses agree up to the bit that chooses the bucket.
- **Net**: five messages: shorter than the buffer, exactly the buffer, longer than
  it, longer than the length field counts, and a last one; two senders.

### Fairness

`Blockchain`: weak fairness of the puts, of the steps of a reload, and of
`Restart` (an operator starts a dead node again). `RestartCompletes` allows the
node to crash for ever. `Miner`: weak fairness of each worker, i.e. threads are
scheduled and the handler returns; nothing makes a worker find a nonce. `Core`:
strong fairness of the steps of every thread inside a call, which differs from weak
only where a thread waits for `_blockchain_mutex`: a waiting thread is not passed over
for ever by others; nothing makes clients, peers or nonces come, and when an exception
ends the program nothing more happens. `Peers`: weak fairness of the
network thread of each node, which runs whatever is ready (messages, accepts,
dials, written last messages); nothing makes links break or stay, or nonces turn up.
`Net`: threads that found the queue empty go on, writes complete, reads return.
`Host` is about safety only. Deadlock is checked in the chain runs; the other models
end when their bounds are used up.

## 4. Proofs

Every theorem is for all values of the constants that satisfy the named assumptions
of the model's module, i.e. for any number of nodes, workers, clients, accounts,
transactions, blocks and steps, unless it states a further assumption. Each rests on
an inductive invariant; what the invariant adds to the property is what makes the
property true.

**BlockchainProofs** proves, for every set of blocks, any clock and any crashes:

- `ChainTypes`: `TypeOK`; the essential part is that the complexity stays within
  256 bits, from the lemmas about `Harder` and `Easier`;
- `ChainIsIntact`: `ChainIntact`, with `ChainInv`, which adds that the genesis
  block is in the chain. `ChainIntact` relates the two indexes, the top and the
  size, and each is needed for the others in the step that adds a block: the
  new depth is the size, hence a new key of the index;
- `ConsensusFollowsChain`: `ConsensusTracksChain`; the window of the chain after
  an append is the window before it, pushed and popped;
- `DifficultyIsFromChain`: `DifficultyFromChain`. The invariant `HistoryInv` is that
  there is a function that gives the consensus after each block of the chain, ends in
  the present one, and accepts each block with the state before it. It is carried from
  step to step, so that the recursive `Replay` need only be compared with it.

Assuming that no crash falls between the first two puts
(`"prev" \notin CrashPoints`):

- `StorageIsClosed`: `StorageClosed`. The invariant is `StorageInv`: every block in
  memory below the one in flight has both keys, what is stored has its predecessor
  stored, and the walk and the blocks to load are stored ones;
- `NodeStartsAgain`: `StartsAgain`, from the same invariant. Together with
  `chain_torn_push` this says that the window is the only way to a database that
  cannot be loaded.

Assuming that no crash falls after the first put of a push and that the clock is not
set back (`Durable`; section 3 says what goes wrong without):

- `ChainImplementsLog`: `ImplementsLog`, the refinement of `ChainLog`. `LogInv` says
  what the log is made of in each mode: running, the disk lags behind the chain by
  the puts to come; down, the disk is the log; walking and loading, the part taken up
  and the part left make up the log. Its core is `Reloadable`: every block of the log
  passes the checks of `tryAddBlock` at any later time in the consensus state of
  its depth, so that `load()`, which ignores their results, accepts them all.
  `LogTryAddBlock`, `LogPuts`, `LogCrash` and so on show for each action that it is a
  step of the log or none.

**MinerProofs** proves for any finite set of workers and any number of posts
`MinerTypes`, `MinerSnapshots` (inductive together with the types),
`MinerHandlerCalls` (each call drops a job posted after the last one dropped, because
the version of what is dropped is the newest there is and dropping moves it on) and
`MinerWorkersKeepExit`, for any posts before and after EXIT.

**LedgerProofs**, for any accounts, amounts, fees, contracts and blocks:

- `LedgerTyped`: `TypeOK`, in particular that no balance becomes negative: every
  subtraction is behind a comparison or refused with an exception;
- `LedgerSupplyIsExact`: `SupplyIsExact`. The property speaks of the state that is
  being worked on, the copy while a contract runs; since a contract that fails goes
  back to the accounts from before it, the invariant `LedgerInv` has the same sum for
  these. A transfer is two entries, possibly of one account, and `CommonFacts` says
  what a change of one entry does to a sum over a finite set;
- `LedgerFailureIsIsolated`: the action property `FailureIsIsolated`;
- `LedgerNonceCounts` and `LedgerOneSpendIsCovered`, under `NoSenderIsContract`: no
  sender has the address of a contract that some transaction creates. Addresses of
  contracts are hashes, those of senders hashes of public keys, and TLC checks the
  assumption for its instance; without it the creation of the contract would reset the
  nonce of the sender. The invariant `SenderInv` adds that senders keep their accounts,
  that the queue is the rest of the block, and that a sender with one transaction in the
  block still has what it costs, in the accounts and in the copy a contract works on,
  until its turn comes: others can only pay it.

**CoreProofs**, for any clients, submissions, miners' nonces and foreign blocks:
`CoreTyped`, `CoreAcceptedIsKept` and `CoreBalancesFollowChain`, from one invariant
`CoreInv`. Its part `Execution` says who holds `_blockchain_mutex` at each point and
that, while a block is being executed, the balances are those of the chain below it,
the emission and the transactions done so far, none of which has raised: so an exception
ends the block where `ExecutedBlock` does, at the first transaction that raises
(`EndsAt`). `AcceptedIsKept` needs that the pending
set loses only transactions of a block that is in the chain already.

**HostProofs**, for any nodes, addresses, bucket sizes, clocks and numbers of dials:
`HostTyped`, `HostOnePeerPerEndpoint`, `HostPooledPeersAreOpen`, `HostDialsAreTimed`,
`HostBucketsArePrefixes` and the action property `HostLivePeersStay`. The invariant
`HostInv` relates the pools: buckets have no repetitions and no peer in common, a peer
of the table is in the bucket `calcDifference` gives for its endpoint, and both pools
hold open peers only. `HostTyped` rests on `Lowered` wrapping as int16 does, whatever
the series of penalties; `HostDialsAreTimed` excepts what a dial that ended the network
thread leaves behind. That `calcDifference` on bytes is the length of the common prefix
in bits is a lemma (`DifferenceIsPrefix`).

**PeersProofs**, for any number of nodes and sessions, any initial chains with
`OwnBlocks`, any mining, refusals and breaks. `StepKinds` first reduces the seventeen
actions to a few kinds of steps: a turn of one end, which takes a message, changes its
Peer object and sends a few messages to the other end (`Turns`, with seven kinds), a
block mined, a block announced, a connection broken at one end, and dials that fail or
begin. The
invariants are shown kind by kind:

- `PeersTyped`: `TypeOK`, together with `Handshakes`: in a session at most one top
  block is on its way to an end, Connect to the end that was dialled and Accepted to
  the other, it arrives before that end has asked for anything, and before Connect is
  heard nothing is announced. This is why a handshake is taken once and no request is
  made while another is open (`deaf` is never reached);
- `ChainsKeepBlocks`: a chain is only ever extended;
- `RequestsAnswered`: `RequestsCanBeAnswered`, from `Known`: the top blocks, blocks and
  announcements on their way to an end, its goal, its request and the blocks it keeps
  are on the chain of the other node, and what is asked of it is on its own;
- `DownloadsConnected`: `DownloadIsConnected`, from `Descending`: the *last* of the
  blocks kept are the goal, its parent and so on down to the child of the block asked
  for. Announced blocks go to the front, so they do not disturb it;
- `PoolsMatch`: `PoolsAgree`. The invariant `Pools` says what makes up for a difference
  of the two ends: if one has the session in use and the other has not, the other is
  about to close it or has Accepted on its way to it, or Close or the end of the stream
  is on its way to the first;
- `OneSourceReaches`: `OneSourceDelivers`. A download can end below its goal in two ways:
  the loop over the blocks stops early, because the lowest is there already, or the
  request is answered with a first block. Both need that the block asked for was added
  between the question and the answer. `Aims` says that it was not, unless the goal was
  reached too. Its own node cannot have mined it (`Owned`), and an announcement that
  could add it is of the goal or of a later block (`Late`): a block is announced after
  it was added, so an announcement can overtake a download, but one that comes after the
  handshake is not below the top block the handshake named. For that the block not yet
  announced must be the newest of its miner, or known here (`Newest`). `ApplyReachesGoal`
  then says that the loop of `handleReceivedBlock`, a fold, adds all of the blocks that
  `Descending` describes.

**NetProofs**, for any threads, messages and limits: `NetTypes`, `NetOneWriter`,
`NetHeardInOrder` and `NetInStep`. The invariant `NetInv` divides the messages that were
queued into heard, being read, on the wire and still in the queue, in this order; a
thread that is about to write and a write under way exclude each other.

**Induction over data.** The provers cannot instantiate the library's induction
theorems, which take a predicate. `CommonFacts` therefore states induction for sets
(`SetInduction`, `SubsetInduction`, from the well-foundedness of inclusion on finite
sets), which can be cited like any other fact, and derives from it that recursive
functions over `0..n` and folds over finite sets exist and have their equations
(`Iterates`, `FoldExists`, `FoldIsSum`).

**Only model-checked**: all liveness (`RestartCompletes`, `StopJoins`, `CatchesUp`,
`SubmissionsAreAnswered`, `SessionsSettle`, `QueuedIsHeard`), which is out of the
prover's reach. Every invariant, action property and refinement that a passing run
checks is also a theorem.

## 5. What could follow

All components that keep state of the node are modelled. A run that composes `Core`
with `Blockchain` at the granularity of the puts, and one with blocks lost to a crash in
`Peers`, would join models that are separate now. Liveness would need a prover for
temporal formulas with `ENABLED`.

## 6. Not modelled

More than half of the lines of the repository keep no state and take no part in a
protocol, and a model of them would be a transliteration: `vm/encode_decode.cpp`
(tables and conversions of the ABI, a quarter of all lines), the vendored EVMC
headers and tables under `vm/evmc`, the console client and the GUI, the HTTP and gRPC
adapters and their conversions, hashing, cryptography, serialisation, logging and
configuration. The models cover the state of the node: `core`, `node/miner.cpp`,
`node/node.cpp` and `net`.

Inside of the modelled components these are left out: the storage and the code of
contracts, which no property here reads; data races on containers that are written
under a shared lock (`core/core.cpp:212`) and on sockets used from several threads,
whose outcomes are not defined; the parsing of endpoints; the messages Ping and Pong,
which are never sent and whose handlers are empty; transactions in `Peers`, whose
handler is the submission of `Core`; the answer BlockNotFound, whose handler only
logs and which `RequestsCanBeAnswered` shows is never given; the failure of the
process to start its threads.
