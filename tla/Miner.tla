------------------------------- MODULE Miner --------------------------------
(***************************************************************************)
(* The miner (node/miner.cpp): worker threads that share one CommonState.  *)
(*                                                                         *)
(* Every change of the shared data happens under _state_mutex and moves    *)
(* _version on; a worker reads both under the shared lock, then hashes     *)
(* without any lock, comparing only versions.  The handler is called after *)
(* the lock is released.  Blocks are jobs here: the job with number n is   *)
(* the one that findNonce posted with version n.                           *)
(*                                                                         *)
(* Node destroys its miner before its RPC server and its core, whose       *)
(* threads go on calling findNonce and dropJob: posts after EXIT, which    *)
(* replace it, are part of the model until the last worker is joined and   *)
(* the Miner is gone.                                                      *)
(***************************************************************************)
EXTENDS Integers, Sequences, FiniteSets

CONSTANTS
  Worker,    \* the miner threads
  MaxPosts   \* bound: how many times findNonce and dropJob are called

ASSUME MinerAssumption == IsFiniteSet(Worker) /\ MaxPosts \in Nat

VARIABLES
  version,   \* CommonState::_version
  data,      \* CommonState::_common_data
  pc,        \* where each worker is: see Steps
  wVersion,  \* last_read_version of each worker
  wData,     \* data of each worker
  stopped,   \* ~Miner has called stop
  posts,     \* calls of findNonce and dropJob so far
  posted,    \* history: posted[v + 1] is the data that came with version v
  handled    \* history: the calls of the handler, each with the job whose block it
             \* got and the version of the data it dropped

vars == <<version, data, pc, wVersion, wData, stopped, posts, posted, handled>>

Tasks == {"NONE", "DROP_JOB", "FIND_NONCE", "EXIT"}
NoJob == 0
Idle(task) == [task |-> task, job |-> NoJob]

\* "wait": in waitAndReadNewData, "switch": dispatching on the task read,
\* "loop": about to compare versions, "hash": trying a nonce, "found": about to
\* lock in callHandlerAndDrop, "handler": in _handler, "done": the thread ended
Steps == {"wait", "switch", "loop", "hash", "found", "handler", "done"}

Init ==
  /\ version = 0
  /\ data = Idle("NONE")
  /\ pc = [w \in Worker |-> "wait"]
  /\ wVersion = [w \in Worker |-> 0]
  /\ wData = [w \in Worker |-> Idle("NONE")]
  /\ stopped = FALSE /\ posts = 0
  /\ posted = <<Idle("NONE")>>
  /\ handled = <<>>

\* Publish new shared data: the locked part of setCommonData and of
\* callHandlerAndDrop
Publish(d) ==
  /\ version' = version + 1
  /\ data' = d
  /\ posted' = Append(posted, d)

Jump(w, step) == pc' = [pc EXCEPT ![w] = step]

Joined == \A w \in Worker : pc[w] = "done"

\* setCommonData, called by findNonce and dropJob whatever the data were, EXIT
\* included; once ~Miner has joined the workers there is no miner to call
Post(d) ==
  /\ ~(stopped /\ Joined) /\ posts < MaxPosts
  /\ Publish(d)
  /\ posts' = posts + 1
  /\ UNCHANGED <<pc, wVersion, wData, stopped, handled>>

\* Miner::findNonce and Miner::dropJob, called by the node on new transactions
\* and new blocks
FindNonce == Post([task |-> "FIND_NONCE", job |-> version + 1])
DropJob == Post(Idle("NONE"))

\* Miner::stop, from ~Miner; the destructors of the workers then join them
Stop ==
  /\ ~stopped
  /\ stopped' = TRUE
  /\ Publish(Idle("EXIT"))
  /\ UNCHANGED <<pc, wVersion, wData, posts, handled>>

\* Mutant: the version is taken one behind the data.
WaitAndReadNewData_OldVersion(w) ==
  /\ pc[w] = "wait" /\ version # wVersion[w]
  /\ wVersion' = [wVersion EXCEPT ![w] = version - 1]
  /\ wData' = [wData EXCEPT ![w] = data]
  /\ Jump(w, "switch")
  /\ UNCHANGED <<version, data, stopped, posts, posted, handled>>

\* The condition variable is notified under the lock that the waiting worker
\* releases, so a wake-up is never lost and waiting is a guard on the version.
WaitAndReadNewData(w) ==
  /\ pc[w] = "wait" /\ version # wVersion[w]
  /\ wVersion' = [wVersion EXCEPT ![w] = version]
  /\ wData' = [wData EXCEPT ![w] = data]
  /\ Jump(w, "switch")
  /\ UNCHANGED <<version, data, stopped, posts, posted, handled>>

Dispatch(w) ==
  /\ pc[w] = "switch"
  /\ Jump(w, CASE wData[w].task = "FIND_NONCE" -> "loop"
               [] wData[w].task = "EXIT"       -> "done"
               [] OTHER                        -> "wait")
  /\ UNCHANGED <<version, data, wVersion, wData, stopped, posts, posted, handled>>

\* Mutant: the worker hashes on until it finds a nonce.
CheckVersion_Never(w) ==
  /\ pc[w] = "loop"
  /\ Jump(w, "hash")
  /\ UNCHANGED <<version, data, wVersion, wData, stopped, posts, posted, handled>>

\* while (last_read_version == getVersion()): an atomic load, no lock
CheckVersion(w) ==
  /\ pc[w] = "loop"
  /\ Jump(w, IF wVersion[w] = version THEN "hash" ELSE "wait")
  /\ UNCHANGED <<version, data, wVersion, wData, stopped, posts, posted, handled>>

\* One nonce: its hash is below the complexity or not
TryNonce(w) ==
  /\ pc[w] = "hash"
  /\ \E step \in {"found", "loop"} : Jump(w, step)
  /\ UNCHANGED <<version, data, wVersion, wData, stopped, posts, posted, handled>>

\* Mutant: the task is not checked under the lock.
CallHandlerAndDrop_Always(w) ==
  /\ pc[w] = "found"
  /\ Publish(Idle("DROP_JOB"))
  /\ handled' = Append(handled, [job |-> wData[w].job, dropped |-> version])
  /\ Jump(w, "handler")
  /\ UNCHANGED <<wVersion, wData, stopped, posts>>

\* Mutant: the dropped job keeps its block.
CallHandlerAndDrop_KeepsBlock(w) ==
  /\ pc[w] = "found"
  /\ IF data.task = "FIND_NONCE"
     THEN /\ Publish([data EXCEPT !.task = "DROP_JOB"])
          /\ handled' = Append(handled, [job |-> wData[w].job, dropped |-> version])
          /\ Jump(w, "handler")
     ELSE /\ Jump(w, "loop")
          /\ UNCHANGED <<version, data, posted, handled>>
  /\ UNCHANGED <<wVersion, wData, stopped, posts>>

\* callHandlerAndDrop up to the unlock; the block goes to the handler
CallHandlerAndDrop(w) ==
  /\ pc[w] = "found"
  /\ IF data.task = "FIND_NONCE"
     THEN /\ Publish(Idle("DROP_JOB"))
          /\ handled' = Append(handled, [job |-> wData[w].job, dropped |-> version])
          /\ Jump(w, "handler")
     ELSE /\ Jump(w, "loop")
          /\ UNCHANGED <<version, data, posted, handled>>
  /\ UNCHANGED <<wVersion, wData, stopped, posts>>

\* Node::onBlockMine returned
HandlerReturns(w) ==
  /\ pc[w] = "handler"
  /\ Jump(w, "loop")
  /\ UNCHANGED <<version, data, wVersion, wData, stopped, posts, posted, handled>>

WorkerStep(w) ==
  \/ WaitAndReadNewData(w) \/ Dispatch(w) \/ CheckVersion(w) \/ TryNonce(w)
  \/ CallHandlerAndDrop(w) \/ HandlerReturns(w)

Next == FindNonce \/ DropJob \/ Stop \/ \E w \in Worker : WorkerStep(w)

Spec == Init /\ [][Next]_vars

\* Threads are scheduled, and the handler (Core::tryAddMinedBlock) returns;
\* nothing says that a nonce is ever found or that the miner is ever stopped.
Fairness == \A w \in Worker : WF_vars(WorkerStep(w))

FairSpec == Spec /\ Fairness

-----------------------------------------------------------------------------
\* A block and a complexity come with FIND_NONCE and with nothing else
Data == {d \in [task : Tasks, job : Nat] : (d.task = "FIND_NONCE") = (d.job # NoJob)}

\* The values each variable ranges over; with Data, ASSERT(data.block_to_mine)
\* and ASSERT(data.complexity) of MinerWorker::worker hold.
TypeOK ==
  /\ version \in Nat /\ posts \in 0..MaxPosts /\ stopped \in BOOLEAN
  /\ data \in Data
  /\ pc \in [Worker -> Steps]
  /\ wVersion \in [Worker -> Nat]
  /\ wData \in [Worker -> Data]
  /\ posted \in Seq(Data)
  /\ handled \in Seq([job : Nat, dropped : Nat])

\* A worker's version and data always belong together, and so do the shared
\* ones: comparing versions, as the hashing loop does without the lock, is as
\* good as comparing the data, and a worker is never in the loop without a job.
SnapshotsAreConsistent ==
  /\ Len(posted) = version + 1
  /\ data = posted[version + 1]
  /\ \A w \in Worker :
       /\ wVersion[w] <= version
       /\ wData[w] = posted[wVersion[w] + 1]
       /\ pc[w] \in {"loop", "hash", "found", "handler"} => wData[w].task = "FIND_NONCE"

IsJob(v) == v \in 1..version /\ posted[v + 1].task = "FIND_NONCE"

\* However many workers find a nonce at once, two calls of the handler have a
\* findNonce between them: each call drops a job that was posted after the call
\* before it, which is the guard of callHandlerAndDrop.  The block handed over is
\* of that job or of an older one, for a worker that was overtaken between its
\* last look at the version and the lock; only so can one job's block be handed
\* over twice.
HandlerCallsDropNewJobs ==
  /\ \A i \in DOMAIN handled : /\ IsJob(handled[i].dropped) /\ IsJob(handled[i].job)
                               /\ handled[i].job <= handled[i].dropped
  /\ \A i, j \in DOMAIN handled : i < j => handled[i].dropped < handled[j].dropped

\* Only a call of findNonce or dropJob can replace the EXIT of ~Miner, never a
\* worker that finds a nonce at that moment; and a worker that has read EXIT
\* reads nothing else, whatever is posted after it.
WorkersKeepExit ==
  [][/\ data.task = "EXIT" /\ data' # data => posts' = posts + 1
     /\ \A w \in Worker : wData[w].task = "EXIT" => wData'[w] = wData[w]]_vars

\* The joins of ~Miner return, also for a worker that is in the handler or has
\* just found a nonce, unless a later call of findNonce or dropJob has replaced
\* EXIT: nothing else can keep the destructor waiting.
StopJoins == data.task = "EXIT" ~> (Joined \/ data.task # "EXIT")

\* No worker mines an outdated job for ever, no wake-up is lost: a worker that
\* is behind reads the newest data some time later, or has ended.
CatchesUp == \A w \in Worker : wVersion[w] # version ~> (wVersion[w] = version \/ pc[w] = "done")

=============================================================================
