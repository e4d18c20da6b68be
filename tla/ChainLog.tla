------------------------------ MODULE ChainLog ------------------------------
(***************************************************************************)
(* What a persistent blockchain promises (the IBlockchain interface of     *)
(* core/blockchain.hpp read as a contract): the chain is an append-only    *)
(* log that survives a crash.  Only the block whose addition has not been  *)
(* acknowledged yet may be lost; an acknowledged block is never lost,      *)
(* moved or replaced.                                                      *)
(***************************************************************************)
EXTENDS Integers

CONSTANTS Block, Genesis, PrevHash

VARIABLES
  log,       \* log[d]: the block at depth d
  inflight,  \* the last block of the log is not acknowledged yet
  up         \* the process is running and its chain is complete

vars == <<log, inflight, up>>

Last(l) == CHOOSE d \in DOMAIN l : \A e \in DOMAIN l : e <= d
Extended(l, b) == [d \in DOMAIN l \cup {Last(l) + 1} |-> IF d \in DOMAIN l THEN l[d] ELSE b]
Shortened(l) == [d \in DOMAIN l \ {Last(l)} |-> l[d]]

Init ==
  /\ log = [d \in {0} |-> Genesis]
  /\ inflight = FALSE
  /\ up = TRUE

Begin(b) ==
  /\ up /\ ~inflight
  /\ PrevHash[b] = log[Last(log)]
  /\ \A d \in DOMAIN log : log[d] # b
  /\ log' = Extended(log, b)
  /\ inflight' = TRUE
  /\ up' = up

Acknowledge ==
  /\ inflight
  /\ inflight' = FALSE
  /\ UNCHANGED <<log, up>>

Crash ==
  /\ up
  /\ up' = FALSE
  /\ inflight' = FALSE
  /\ log' = log \/ (inflight /\ log' = Shortened(log))

Recover ==
  /\ ~up
  /\ up' = TRUE
  /\ UNCHANGED <<log, inflight>>

Next == (\E b \in Block : Begin(b)) \/ Acknowledge \/ Crash \/ Recover

Spec == Init /\ [][Next]_vars
=============================================================================
