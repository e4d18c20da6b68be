----------------------------- MODULE Consensus ------------------------------
(***************************************************************************)
(* Proof-of-work difficulty (core/consensus.cpp).  A Consensus object is   *)
(* the queue _last_blocks and the current complexity; both are kept here   *)
(* in one record so that Blockchain can hold it as one variable.           *)
(*                                                                         *)
(* The code computes the ratio r = elapsed / TARGET in doubles, clamps it  *)
(* and rounds it.  The quotients are of two small integers, for which      *)
(* std::round of the double is the exact rounding half up written here.    *)
(***************************************************************************)
EXTENDS Blocks, Sequences

CONSTANTS
  RecalculationRate,  \* base::config::BC_DIFFICULTY_RECALCULATION_RATE
  TargetElapsed,      \* TARGET: RecalculationRate * 60 / BC_TARGET_BLOCKS_PER_MINUTE
  MaxDensed           \* ~base::Uint256{0}, the easiest complexity

ASSUME ConsensusAssumption ==
  /\ RecalculationRate \in Nat /\ RecalculationRate >= 2
  /\ TargetElapsed \in Nat \ {0}
  /\ MaxDensed \in Nat \ {0}

MinOf(a, b) == IF a <= b THEN a ELSE b
MaxOf(a, b) == IF a >= b THEN a ELSE b
RoundedQuotient(a, b) == (2 * a + b) \div (2 * b)

InitialConsensus == [last |-> <<>>, complexity |-> MaxDensed]

\* Consensus::checkBlock: both sides are 32 bytes, most significant first, so
\* the lexicographic <= of the code is <= of the numbers.
CheckBlock(consensus, b) == HashValue[b] <= consensus.complexity

\* r < 1: the blocks came too fast, the accepted hashes get fewer.
Harder(complexity, elapsed) ==
  complexity \div MaxOf(1, MinOf(RoundedQuotient(TargetElapsed, elapsed), RecalculationRate))

\* Mutant: the factor is not limited, the product may exceed 256 bits.
Easier_NoLimit(complexity, elapsed) ==
  complexity * MinOf(RoundedQuotient(elapsed, TargetElapsed), RecalculationRate)

\* r >= 1: the largest factor is the one that cannot overflow 256 bits.
Easier(complexity, elapsed) ==
  LET limit == MinOf(MaxDensed \div complexity, RecalculationRate)
  IN  complexity * MinOf(MinOf(RoundedQuotient(elapsed, TargetElapsed), RecalculationRate), limit)

Retarget(complexity, elapsed) ==
  IF elapsed < TargetElapsed THEN Harder(complexity, elapsed) ELSE Easier(complexity, elapsed)

\* Mutant: the queue is never popped, so its front stays the oldest block.
PushLast_NeverPops(last, b) == Append(last, b)

\* _last_blocks.push, then pop when it holds more than RecalculationRate blocks
PushLast(last, b) ==
  LET pushed == Append(last, b)
  IN  IF Len(pushed) > RecalculationRate THEN Tail(pushed) ELSE pushed

IsRecalculation(last, b) ==
  /\ Len(last) >= RecalculationRate
  /\ Depth[b] = 0 \/ (Depth[b] - 1) % RecalculationRate = 0

ApplyBlock(consensus, b) ==
  LET last    == PushLast(consensus.last, b)
      elapsed == MaxOf(1, Timestamp[b] - Timestamp[Head(last)])
  IN  [last       |-> last,
       complexity |-> IF IsRecalculation(last, b)
                      THEN Retarget(consensus.complexity, elapsed)
                      ELSE consensus.complexity]
=============================================================================
