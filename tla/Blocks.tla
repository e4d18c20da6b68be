------------------------------- MODULE Blocks -------------------------------
(***************************************************************************)
(* Immutable blocks (core/block.hpp, class ImmutableBlock).  All fields of *)
(* a block are const and its SHA-256 hash is computed from all of them, so *)
(* a block is identified by its hash: Block is the set of the blocks       *)
(* anybody may ever offer to the node, and the accessors are functions on  *)
(* that set.  Collisions of SHA-256 are not modelled.                      *)
(***************************************************************************)
EXTENDS Integers, FiniteSets

CONSTANTS
  Block,       \* every block that exists, known to this node or not
  Genesis,     \* the hard-coded first block (Core::getGenesisBlock)
  NoHash,      \* base::Sha256::null(), and an absent key of the database
  PrevHash,    \* PrevHash[b]: getPrevBlockHash()
  Depth,       \* Depth[b]: getDepth(), as the block claims it
  Timestamp,   \* Timestamp[b]: getTimestamp(), in seconds
  TxCount,     \* TxCount[b]: getTransactions().size()
  HashValue    \* HashValue[b]: getHash().getBytes() read as a big-endian number

ASSUME BlockAssumption ==
  /\ Genesis \in Block
  /\ NoHash \notin Block
  /\ PrevHash \in [Block -> Block \cup {NoHash}]
  /\ Depth \in [Block -> Nat]
  /\ Timestamp \in [Block -> Nat]
  /\ TxCount \in [Block -> Nat]
  /\ HashValue \in [Block -> Nat \ {0}]   \* no block hashes to the null hash
=============================================================================
