------------------------------- MODULE MCCore -------------------------------
(***************************************************************************)
(* Two submitting threads and one sender with a balance of 6: each of t1   *)
(* and t2 is affordable, both together are not.  After t2 the sender has   *)
(* 3, too little for the fee of t1, so a block with t2 before t1 raises,   *)
(* and enough for another t2, so it matters whether the block goes on.  A  *)
(* peer sends such a block, one with t1 alone, an empty one or one that is *)
(* too long.                                                               *)
(***************************************************************************)
EXTENDS Core

Table == [t1 |-> <<"a", "b", 1, 4>>, t2 |-> <<"a", "b", 2, 1>>]

MCFrom == [t \in Tx |-> Table[t][1]]
MCTo == [t \in Tx |-> Table[t][2]]
MCAmount == [t \in Tx |-> Table[t][3]]
MCFee == [t \in Tx |-> Table[t][4]]
MCForeignLists == {<<>>, <<"t1">>, <<"t2", "t1", "t2">>, <<"t1", "t1", "t2", "t2">>}
MCInitialBalance == [x \in {"a"} |-> 6]
MCCoinbaseOf == [th \in Adder |-> IF th = "miner" THEN "self" ELSE "peer"]
=============================================================================
