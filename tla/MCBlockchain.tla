---------------------------- MODULE MCBlockchain ----------------------------
(***************************************************************************)
(* A small universe of blocks for Blockchain: a chain of five blocks with  *)
(* a fork at depth 1, a fast and a slow block at the depth where the       *)
(* difficulty is recalculated, and one block for every check that          *)
(* tryAddBlock makes.  The configured constants are those of               *)
(* base/config.hpp; only the 256-bit range of hashes is cut to 1..64.      *)
(***************************************************************************)
EXTENDS Blockchain

Row(prev, depth, ts, txs, hash) ==
  [prev |-> prev, depth |-> depth, ts |-> ts, txs |-> txs, hash |-> hash]

Table ==
  [g  |-> Row("none", 0, 0, 1, 5),
   a1 |-> Row("g", 1, 60, 1, 64),        \* the largest hash there is
   b1 |-> Row("g", 1, 90, 100, 10),      \* a fork, with the largest block
   n1 |-> Row("g", 1, 60, 0, 11),        \* no transactions
   a2 |-> Row("a1", 2, 120, 1, 20),
   o2 |-> Row("a1", 2, 60, 1, 21),       \* not newer than its parent
   d2 |-> Row("a1", 3, 120, 1, 22),      \* claims a wrong depth
   t2 |-> Row("b1", 2, 86500, 1, 23),    \* a day ahead of the first clock reading
   a3 |-> Row("a2", 3, 150, 1, 30),      \* fast: the complexity is halved
   s3 |-> Row("a2", 3, 400, 101, 31),    \* too many transactions
   l3 |-> Row("a2", 3, 400, 1, 32),      \* slow: the factor 2 is limited to 1
   a4 |-> Row("a3", 4, 200, 1, 32),      \* exactly the halved complexity
   h4 |-> Row("a3", 4, 200, 1, 33),      \* just above it
   a5 |-> Row("a4", 5, 400, 1, 12)]      \* slow: the complexity is doubled

MCBlock == DOMAIN Table
MCPrevHash == [b \in MCBlock |-> Table[b].prev]
MCDepth == [b \in MCBlock |-> Table[b].depth]
MCTimestamp == [b \in MCBlock |-> Table[b].ts]
MCTxCount == [b \in MCBlock |-> Table[b].txs]
MCHashValue == [b \in MCBlock |-> Table[b].hash]
MCTimes == {0, 600}
=============================================================================
