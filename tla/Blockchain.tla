----------------------------- MODULE Blockchain -----------------------------
(***************************************************************************)
(* The chain of a node and its copy on disk (core/blockchain.cpp, classes  *)
(* Blockchain and PersistentBlockchain).                                   *)
(*                                                                         *)
(* The in-memory part is changed under _blocks_mutex, so tryAddBlock up to *)
(* the unlock is one step; callers serialise on Core::_blockchain_mutex,   *)
(* so there is one writer.  The three database puts that follow are steps  *)
(* of their own: a crash may strike between them.  After a restart load()  *)
(* walks the database backwards from the last block and then re-adds every *)
(* block; a failed ASSERT there ends the process (Debug), or the .value()  *)
(* of the empty optional that follows throws out of main (Release).        *)
(***************************************************************************)
EXTENDS Consensus

CONSTANTS
  MaxTxInBlock,    \* base::config::BC_MAX_TRANSACTIONS_IN_BLOCK
  SecondsInDay,    \* SECONDS_IN_DAY of tryAddBlock
  Times,           \* the readings of base::Time::now() that are explored
  ClockStepsBack,  \* whether the system clock may be set back
  CrashPoints      \* the values of pushNext at which the process may crash

VARIABLES
  blocks,     \* keys of _blocks
  byDepth,    \* _blocks_by_depth
  top,        \* _top_level_block_hash
  consensus,  \* _consensus
  dbBlock,    \* the hashes that have a BLOCK key in the database
  dbPrev,     \* the hashes h that have a PREVIOUS_BLOCK_HASH key, with value PrevHash[h]
  dbLast,     \* the value under LAST_BLOCK_HASH_KEY, NoHash if absent
  pushBlock,  \* the block pushForwardToPersistentStorage is writing
  pushNext,   \* the put it does next, "idle" outside of it
  mode,       \* where the process is: see Modes
  cursor,     \* current_block_hash of the walk back
  toLoad,     \* all_blocks_hashes, oldest first
  now,        \* base::Time::now()
  saved       \* history: the chain the disk held at the last crash

memory  == <<blocks, byDepth, top, consensus>>
disk    == <<dbBlock, dbPrev, dbLast>>
push    == <<pushBlock, pushNext>>
startup == <<mode, cursor, toLoad>>
vars    == <<memory, disk, push, startup, now, saved>>

Modes == {"running", "down", "walking", "loading", "aborted"}
PushSteps == {"idle", "block", "prev", "last"}

ASSUME BlockchainAssumption ==
  /\ MaxTxInBlock \in Nat
  /\ SecondsInDay \in Nat
  /\ Times \subseteq Nat /\ Times # {}
  /\ ClockStepsBack \in BOOLEAN
  /\ CrashPoints \subseteq PushSteps

Size == Cardinality(blocks)
GenesisChain == [d \in {0} |-> Genesis]

\* std::map::insert: an existing key keeps its value
Inserted(map, key, value) ==
  [k \in DOMAIN map \cup {key} |-> IF k \in DOMAIN map THEN map[k] ELSE value]

\* Mutant: the difficulty survives the restart.
FreshMemory_KeepsConsensus ==
  /\ blocks' = {Genesis}
  /\ byDepth' = GenesisChain
  /\ top' = Genesis
  /\ consensus' = consensus

\* The constructor of Blockchain, addGenesisBlock: the consensus never sees the
\* genesis block.
FreshMemory ==
  /\ blocks' = {Genesis}
  /\ byDepth' = GenesisChain
  /\ top' = Genesis
  /\ consensus' = InitialConsensus

\* Mutant: OLD_TIMESTAMP is not checked.
Acceptable_AnyTimestamp(b) ==
  /\ b \notin blocks /\ top = PrevHash[b] /\ Size = Depth[b]
  /\ CheckBlock(consensus, b)
  /\ TxCount[b] \in 1..MaxTxInBlock
  /\ Timestamp[b] <= now + SecondsInDay

\* The checks of Blockchain::tryAddBlock; each failing one is a result of its
\* own and leaves everything unchanged.
Acceptable(b) ==
  /\ b \notin blocks                         \* else ALREADY_IN_BLOCKCHAIN
  /\ top = PrevHash[b]                       \* else INVALID_PARENT_HASH
  /\ Size = Depth[b]                         \* else INVALID_DEPTH
  /\ CheckBlock(consensus, b)                \* else CONSENSUS_ERROR
  /\ TxCount[b] \in 1..MaxTxInBlock          \* else INVALID_TRANSACTIONS_NUMBER
  /\ Timestamp[top] < Timestamp[b]           \* else OLD_TIMESTAMP
  /\ Timestamp[b] <= now + SecondsInDay      \* else FUTURE_TIMESTAMP

\* The accepting end of Blockchain::tryAddBlock and, in PersistentBlockchain,
\* the call of pushForwardToPersistentStorage that follows the unlock.
AddToMemory(b) ==
  /\ consensus' = ApplyBlock(consensus, b)
  /\ blocks' = blocks \cup {b}
  /\ byDepth' = Inserted(byDepth, Depth[b], b)
  /\ top' = b
  /\ pushBlock' = b
  /\ pushNext' = "block"

-----------------------------------------------------------------------------
Init ==
  /\ blocks = {Genesis}
  /\ byDepth = GenesisChain
  /\ top = Genesis
  /\ consensus = InitialConsensus
  /\ dbBlock = {} /\ dbPrev = {} /\ dbLast = NoHash
  /\ pushBlock = NoHash /\ pushNext = "idle"
  /\ mode = "running" /\ cursor = NoHash /\ toLoad = <<>>
  /\ now \in Times
  /\ saved = GenesisChain

\* PersistentBlockchain::tryAddBlock with an acceptable block
TryAddBlock(b) ==
  /\ mode = "running" /\ pushNext = "idle"
  /\ Acceptable(b)
  /\ AddToMemory(b)
  /\ UNCHANGED <<disk, startup, now, saved>>

\* pushForwardToPersistentStorage: a block that is already stored is not
\* stored again, whatever the other two keys say
PutBlock ==
  /\ pushNext = "block"
  /\ IF pushBlock \in dbBlock
     THEN /\ pushNext' = "idle" /\ pushBlock' = NoHash
          /\ dbBlock' = dbBlock
     ELSE /\ pushNext' = "prev" /\ pushBlock' = pushBlock
          /\ dbBlock' = dbBlock \cup {pushBlock}
  /\ UNCHANGED <<memory, dbPrev, dbLast, startup, now, saved>>

\* Mutant: PREVIOUS_BLOCK_HASH is not put.
PutPrev_NoPut ==
  /\ pushNext = "prev"
  /\ dbLast' = pushBlock
  /\ pushNext' = "last"
  /\ UNCHANGED <<memory, dbBlock, dbPrev, pushBlock, startup, now, saved>>

PutPrev ==
  /\ pushNext = "prev"
  /\ dbPrev' = dbPrev \cup {pushBlock}
  /\ pushNext' = "last"
  /\ UNCHANGED <<memory, dbBlock, dbLast, pushBlock, startup, now, saved>>

\* Mutant: the key is only written when it is absent.
PutLast_OnlyOnce ==
  /\ pushNext = "last"
  /\ dbLast' = IF dbLast = NoHash THEN pushBlock ELSE dbLast
  /\ pushNext' = "idle" /\ pushBlock' = NoHash
  /\ UNCHANGED <<memory, dbBlock, dbPrev, startup, now, saved>>

PutLast ==
  /\ pushNext = "last"
  /\ dbLast' = pushBlock
  /\ pushNext' = "idle" /\ pushBlock' = NoHash
  /\ UNCHANGED <<memory, dbBlock, dbPrev, startup, now, saved>>

\* The process ends; what was only in memory is gone.  saved is what the
\* database can give back: the block in flight counts once it is stored.
Crash ==
  /\ mode \in {"running", "walking", "loading"}
  /\ pushNext \in CrashPoints
  /\ mode' = "down"
  /\ pushNext' = "idle" /\ pushBlock' = NoHash
  /\ cursor' = NoHash /\ toLoad' = <<>>
  /\ saved' = IF mode # "running" THEN saved
              ELSE IF pushNext = "block" /\ pushBlock \notin dbBlock
                   THEN [d \in 0..(Size - 2) |-> byDepth[d]]
                   ELSE byDepth
  /\ UNCHANGED <<memory, disk, now>>

\* The constructors of Blockchain and PersistentBlockchain, without database.clean
\* (which begins anew, with an empty database), and the head of
\* createAllBlockHashesListAtPersistentStorage
Restart ==
  /\ mode \in {"down", "aborted"}
  /\ FreshMemory
  /\ cursor' = dbLast
  /\ mode' = IF dbLast = NoHash THEN "running" ELSE "walking"
  /\ UNCHANGED <<disk, push, toLoad, now, saved>>

\* Mutant: the loop forgets to step to the previous hash.
WalkBack_SameHash ==
  /\ mode = "walking" /\ cursor # Genesis
  /\ UNCHANGED vars

\* One turn of the loop over PREVIOUS_BLOCK_HASH keys; the final std::reverse
\* is done on the way
WalkBack ==
  /\ mode = "walking" /\ cursor # Genesis
  /\ IF cursor \in dbPrev
     THEN /\ toLoad' = <<cursor>> \o toLoad
          /\ cursor' = PrevHash[cursor]
          /\ mode' = mode
     ELSE /\ mode' = "aborted"          \* ASSERT(previous_block_hash_data)
          /\ toLoad' = <<>> /\ cursor' = NoHash
  /\ UNCHANGED <<memory, disk, push, now, saved>>

WalkDone ==
  /\ mode = "walking" /\ cursor = Genesis
  /\ mode' = "loading" /\ cursor' = NoHash
  /\ UNCHANGED <<memory, disk, push, toLoad, now, saved>>

\* One turn of the loop of load(): the result of tryAddBlock is ignored
LoadBlock ==
  /\ mode = "loading" /\ pushNext = "idle" /\ toLoad # <<>>
  /\ LET b == Head(toLoad) IN
     IF b \in dbBlock
     THEN /\ toLoad' = Tail(toLoad) /\ mode' = mode
          /\ IF Acceptable(b) THEN AddToMemory(b) ELSE UNCHANGED <<memory, push>>
     ELSE /\ toLoad' = <<>> /\ mode' = "aborted"   \* ASSERT(current_block)
          /\ UNCHANGED <<memory, push>>
  /\ UNCHANGED <<disk, cursor, now, saved>>

LoadDone ==
  /\ mode = "loading" /\ pushNext = "idle" /\ toLoad = <<>>
  /\ mode' = "running"
  /\ UNCHANGED <<memory, disk, push, cursor, toLoad, now, saved>>

SetClock ==
  /\ now' \in Times \ {now}
  /\ ClockStepsBack \/ now' > now
  /\ UNCHANGED <<memory, disk, push, startup, saved>>

Next ==
  \/ \E b \in Block : TryAddBlock(b)
  \/ PutBlock \/ PutPrev \/ PutLast
  \/ Crash \/ Restart
  \/ WalkBack \/ WalkDone \/ LoadBlock \/ LoadDone
  \/ SetClock

Spec == Init /\ [][Next]_vars

\* The operator starts a dead node again, and a started thread runs on; nothing
\* is assumed of blocks, of the clock, or of crashes.
Fairness ==
  /\ WF_vars(PutBlock) /\ WF_vars(PutPrev) /\ WF_vars(PutLast)
  /\ WF_vars(Restart)
  /\ WF_vars(WalkBack) /\ WF_vars(WalkDone)
  /\ WF_vars(LoadBlock) /\ WF_vars(LoadDone)

FairSpec == Spec /\ Fairness

-----------------------------------------------------------------------------
\* The values each variable ranges over; the complexity stays a 256-bit
\* number (NoOverflow of Consensus::applyBlock's multiplication).
TypeOK ==
  /\ blocks \subseteq Block /\ IsFiniteSet(blocks)
  /\ DOMAIN byDepth \subseteq Nat
  /\ \A d \in DOMAIN byDepth : byDepth[d] \in Block
  /\ top \in Block
  /\ consensus \in [last : Seq(Block), complexity : 0..MaxDensed]
  /\ dbBlock \subseteq Block /\ dbPrev \subseteq Block
  /\ dbLast \in Block \cup {NoHash}
  /\ pushNext \in PushSteps /\ pushBlock \in Block \cup {NoHash}
  /\ (pushNext = "idle") = (pushBlock = NoHash)
  /\ mode \in Modes
  /\ cursor \in Block \cup {NoHash}
  /\ toLoad \in Seq(Block)
  /\ now \in Times

\* The in-memory chain, at every moment also while it is being reloaded, is one
\* chain from the genesis block to the top: the two indexes _blocks and
\* _blocks_by_depth hold the same blocks, depths have no gaps, every block
\* names the one below it, timestamps strictly increase and the number of
\* transactions is in range.
ChainIntact ==
  /\ DOMAIN byDepth = 0..(Size - 1)
  /\ blocks = {byDepth[d] : d \in DOMAIN byDepth}
  /\ byDepth[0] = Genesis
  /\ top = byDepth[Size - 1]
  /\ \A d \in 1..(Size - 1) :
       /\ PrevHash[byDepth[d]] = byDepth[d - 1]
       /\ Depth[byDepth[d]] = d
       /\ Timestamp[byDepth[d - 1]] < Timestamp[byDepth[d]]
       /\ TxCount[byDepth[d]] \in 1..MaxTxInBlock

\* The queue of the consensus is always the newest RecalculationRate blocks of
\* the chain without the genesis block, so a recalculation measures the time
\* between blocks of this chain, and ASSERT(elapsed) of Consensus::applyBlock
\* holds: the front of the queue is older than the block being applied.
ConsensusTracksChain ==
  LET n == MinOf(RecalculationRate, Size - 1) IN
  consensus.last = [i \in 1..n |-> byDepth[Size - 1 - n + i]]

\* Consensus::applyBlock folded over a chain that starts at the genesis block
Replay(chain) ==
  LET after[d \in DOMAIN chain] ==
        IF d = 0 THEN InitialConsensus ELSE ApplyBlock(after[d - 1], chain[d])
  IN  after[Cardinality(DOMAIN chain) - 1]

\* The difficulty is a function of the chain alone, whatever crashes and
\* reloads produced it: two nodes with one chain accept the same next block.
DifficultyFromChain == consensus = Replay(byDepth)

\* Walking back from any stored block along PREVIOUS_BLOCK_HASH reaches the
\* genesis block through stored blocks, and the last block is a stored one:
\* what load() asserts can never fail.
StorageClosed ==
  /\ \A b \in dbPrev : b \in dbBlock /\ PrevHash[b] \in dbPrev \cup {Genesis}
  /\ dbLast \in dbPrev \cup {NoHash}

\* load() never fails an ASSERT: a node that was stopped can be started again.
StartsAgain == mode # "aborted"

\* A block that has been acknowledged by tryAddBlock survives every crash, in its
\* place: PersistentBlockchain implements the append-only log of ChainLog.
Log == INSTANCE ChainLog WITH
  log      <- IF mode = "running" THEN byDepth ELSE saved,
  inflight <- mode = "running" /\ pushNext # "idle",
  up       <- mode = "running"
ImplementsLog == Log!Spec

\* A node that went down is running again, with its chain loaded, unless it
\* keeps crashing: the walk along the database ends and so does the loading.
RestartCompletes ==
  []<><<Crash>>_vars \/ ((mode = "down") ~> (mode = "running"))
=============================================================================
