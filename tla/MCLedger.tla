------------------------------ MODULE MCLedger ------------------------------
(***************************************************************************)
(* Small ledgers: the account of the genesis block, a user, a miner and    *)
(* the address of a contract.  Each run picks its transactions from Table; *)
(* the miner's is the only one of its sender, and shares blocks with those *)
(* of the genesis account that run before it.                              *)
(***************************************************************************)
EXTENDS Ledger

Row(from, to, amount, fee, hasData) ==
  [from |-> from, to |-> to, amount |-> amount, fee |-> fee, data |-> hasData]

Table ==
  [pay     |-> Row("genesis", "user", 3, 1, FALSE),
   costly  |-> Row("genesis", "user", 2, 8, FALSE),  \* affordable alone, not after pay
   create  |-> Row("genesis", "null", 2, 1, TRUE),
   prefund |-> Row("genesis", "contract", 2, 0, FALSE),
   call    |-> Row("genesis", "contract", 1, 2, TRUE),
   callBig |-> Row("genesis", "contract", 5, 2, TRUE),
   reward  |-> Row("miner", "user", 2, 2, FALSE)]    \* a miner spends its emission

MCAddress == {"genesis", "user", "miner", "contract"}
MCFrom == [t \in Tx |-> Table[t].from]
MCTo == [t \in Tx |-> Table[t].to]
MCAmount == [t \in Tx |-> Table[t].amount]
MCFee == [t \in Tx |-> Table[t].fee]
MCHasData == [t \in Tx |-> Table[t].data]
MCContractAddress == [t \in Tx |-> "contract"]

ASSUME MCSendersAssumption == NoSenderIsContract
=============================================================================
