------------------------------ MODULE MCMiner -------------------------------
(***************************************************************************)
(* Two workers are enough for one to overtake the other between its last   *)
(* version check and the lock; three posts are enough for a job, its       *)
(* replacement and one more; MinerProofs covers any number of both.        *)
(***************************************************************************)
EXTENDS Miner
=============================================================================
