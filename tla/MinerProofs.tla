---------------------------- MODULE MinerProofs -----------------------------
(***************************************************************************)
(* Proofs about Miner, for any number of workers and any number of posts.  *)
(***************************************************************************)
EXTENDS Miner, TLAPS

\* The shared data that findNonce, dropJob, stop and callHandlerAndDrop publish
\* are well formed.
LEMMA PublishedIsData ==
  ASSUME TypeOK
  PROVE  /\ [task |-> "FIND_NONCE", job |-> version + 1] \in Data
         /\ \A task \in Tasks \ {"FIND_NONCE"} : Idle(task) \in Data
  BY DEF TypeOK, Data, Tasks, Idle, NoJob

\* TypeOK is inductive: every step of a worker and every call of the node keeps
\* the variables of CommonState and of the workers in their types.
LEMMA TypeStep == TypeOK /\ [Next]_vars => TypeOK'
<1> SUFFICES ASSUME TypeOK, [Next]_vars PROVE TypeOK'
  OBVIOUS
<1> USE MinerAssumption
<1>1. CASE FindNonce
  BY <1>1, PublishedIsData DEF FindNonce, Post, Publish, TypeOK
<1>2. CASE DropJob
  BY <1>2, PublishedIsData DEF DropJob, Post, Publish, TypeOK, Tasks
<1>3. CASE Stop
  BY <1>3, PublishedIsData DEF Stop, Publish, TypeOK, Tasks
<1>4. ASSUME NEW w \in Worker, WaitAndReadNewData(w) PROVE TypeOK'
  BY <1>4 DEF WaitAndReadNewData, Jump, TypeOK, Steps
<1>5. ASSUME NEW w \in Worker, Dispatch(w) PROVE TypeOK'
  BY <1>5 DEF Dispatch, Jump, TypeOK, Steps
<1>6. ASSUME NEW w \in Worker, CheckVersion(w) PROVE TypeOK'
  BY <1>6 DEF CheckVersion, Jump, TypeOK, Steps
<1>7. ASSUME NEW w \in Worker, TryNonce(w) PROVE TypeOK'
  BY <1>7 DEF TryNonce, Jump, TypeOK, Steps
<1>8. ASSUME NEW w \in Worker, CallHandlerAndDrop(w) PROVE TypeOK'
  <2>1. Idle("DROP_JOB") \in Data /\ wData[w].job \in Nat
    BY PublishedIsData DEF TypeOK, Tasks, Data
  <2>2. CASE data.task = "FIND_NONCE"
    <3>0. Publish(Idle("DROP_JOB")) /\ handled' = Append(handled, [job |-> wData[w].job, dropped |-> version])
      BY <1>8, <2>2 DEF CallHandlerAndDrop
    <3>1. version' \in Nat /\ data' \in Data /\ posted' \in Seq(Data)
      BY <2>1, <3>0 DEF Publish, TypeOK
    <3>2. handled' \in Seq([job : Nat, dropped : Nat])
      BY <2>1, <3>0 DEF TypeOK
    <3>3. pc' \in [Worker -> Steps]
      BY <1>8, <2>2 DEF CallHandlerAndDrop, Jump, TypeOK, Steps
    <3> QED
      BY <1>8, <3>1, <3>2, <3>3 DEF CallHandlerAndDrop, TypeOK
  <2>3. CASE data.task # "FIND_NONCE"
    BY <1>8, <2>3 DEF CallHandlerAndDrop, Jump, TypeOK, Steps
  <2> QED BY <2>2, <2>3
<1>9. ASSUME NEW w \in Worker, HandlerReturns(w) PROVE TypeOK'
  BY <1>9 DEF HandlerReturns, Jump, TypeOK, Steps
<1>10. CASE UNCHANGED vars
  BY <1>10 DEF vars, TypeOK
<1> QED
  BY <1>1, <1>2, <1>3, <1>4, <1>5, <1>6, <1>7, <1>8, <1>9, <1>10 DEF Next, WorkerStep

\* The types of the miner's state hold in every reachable state; in particular a
\* worker never fails ASSERT(data.block_to_mine) or ASSERT(data.complexity).
THEOREM MinerTypes == Spec => []TypeOK
<1>1. Init => TypeOK
  <2> SUFFICES ASSUME Init PROVE TypeOK
    OBVIOUS
  <2>1. Idle("NONE") \in Data
    BY DEF Data, Tasks, Idle, NoJob
  <2>2. posted \in Seq(Data) /\ handled \in Seq([job : Nat, dropped : Nat])
    BY <2>1 DEF Init
  <2>3. 0 \in 0..MaxPosts /\ FALSE \in BOOLEAN
    BY MinerAssumption
  <2>4. version \in Nat /\ posts \in 0..MaxPosts /\ stopped \in BOOLEAN /\ data \in Data
    BY <2>1, <2>3, Zenon DEF Init
  <2>5. pc \in [Worker -> Steps] /\ wVersion \in [Worker -> Nat] /\ wData \in [Worker -> Data]
    BY <2>1 DEF Init, Steps
  <2> QED
    BY <2>2, <2>4, <2>5 DEF TypeOK
<1> QED
  BY <1>1, TypeStep, PTL DEF Spec

-----------------------------------------------------------------------------
\* Appending to a log of versions keeps what earlier versions were.
LEMMA PublishKeepsVersions ==
  ASSUME TypeOK, SnapshotsAreConsistent, NEW d \in Data, Publish(d)
  PROVE  /\ version' = version + 1
         /\ Len(posted') = version' + 1
         /\ data' = posted'[version' + 1]
         /\ \A v \in 0..version : posted'[v + 1] = posted[v + 1]
  BY DEF Publish, TypeOK, SnapshotsAreConsistent

\* The snapshot of every worker survives a publication it takes no part in.
LEMMA PublishKeepsSnapshots ==
  ASSUME TypeOK, SnapshotsAreConsistent, NEW d \in Data, Publish(d),
         UNCHANGED <<wVersion, wData>>,
         \A w \in Worker : pc'[w] = pc[w] \/ (pc[w] = "found" /\ pc'[w] = "handler")
  PROVE  SnapshotsAreConsistent'
<1>1. ASSUME NEW w \in Worker
      PROVE  /\ wVersion'[w] <= version'
             /\ wData'[w] = posted'[wVersion'[w] + 1]
  <2>1. /\ version' = version + 1
        /\ \A v \in 0..version : posted'[v + 1] = posted[v + 1]
    BY PublishKeepsVersions
  <2>2. version \in Nat /\ wVersion'[w] = wVersion[w] /\ wVersion[w] \in Nat /\ wData'[w] = wData[w]
    BY DEF TypeOK
  <2>3. wVersion[w] <= version /\ wData[w] = posted[wVersion[w] + 1]
    BY DEF SnapshotsAreConsistent
  <2>4. wVersion[w] \in 0..version /\ wVersion[w] <= version + 1
    BY <2>2, <2>3
  <2> QED
    BY <2>1, <2>2, <2>3, <2>4
<1>2. ASSUME NEW w \in Worker, pc'[w] \in {"loop", "hash", "found", "handler"}
      PROVE  wData'[w].task = "FIND_NONCE"
  BY <1>2 DEF SnapshotsAreConsistent
<1> QED
  BY <1>1, <1>2, PublishKeepsVersions DEF SnapshotsAreConsistent

\* Snapshots stay consistent: a version never changes its data, and a worker
\* enters the hashing loop only from a FIND_NONCE it has read.
LEMMA SnapshotStep == TypeOK /\ SnapshotsAreConsistent /\ [Next]_vars => SnapshotsAreConsistent'
<1> SUFFICES ASSUME TypeOK, SnapshotsAreConsistent, [Next]_vars
             PROVE  SnapshotsAreConsistent'
  OBVIOUS
<1>1. CASE FindNonce
  BY <1>1, PublishedIsData, PublishKeepsSnapshots DEF FindNonce, Post
<1>2. CASE DropJob
  <2>1. Idle("NONE") \in Data
    BY PublishedIsData DEF Tasks
  <2> QED BY <1>2, <2>1, PublishKeepsSnapshots DEF DropJob, Post
<1>3. CASE Stop
  <2>1. Idle("EXIT") \in Data
    BY PublishedIsData DEF Tasks
  <2> QED BY <1>3, <2>1, PublishKeepsSnapshots DEF Stop
<1>4. ASSUME NEW w \in Worker, WaitAndReadNewData(w) PROVE SnapshotsAreConsistent'
  BY <1>4 DEF WaitAndReadNewData, Jump, TypeOK, SnapshotsAreConsistent
<1>5. ASSUME NEW w \in Worker, Dispatch(w) PROVE SnapshotsAreConsistent'
  BY <1>5 DEF Dispatch, Jump, TypeOK, SnapshotsAreConsistent
<1>6. ASSUME NEW w \in Worker, CheckVersion(w) PROVE SnapshotsAreConsistent'
  BY <1>6 DEF CheckVersion, Jump, TypeOK, SnapshotsAreConsistent
<1>7. ASSUME NEW w \in Worker, TryNonce(w) PROVE SnapshotsAreConsistent'
  BY <1>7 DEF TryNonce, Jump, TypeOK, SnapshotsAreConsistent
<1>8. ASSUME NEW w \in Worker, CallHandlerAndDrop(w) PROVE SnapshotsAreConsistent'
  <2>1. CASE data.task = "FIND_NONCE"
    <3>1. Idle("DROP_JOB") \in Data
      BY PublishedIsData DEF Tasks
    <3>2. \A x \in Worker : pc'[x] = pc[x] \/ (pc[x] = "found" /\ pc'[x] = "handler")
      BY <1>8, <2>1 DEF CallHandlerAndDrop, Jump, TypeOK
    <3> QED
      BY <1>8, <2>1, <3>1, <3>2, PublishKeepsSnapshots DEF CallHandlerAndDrop
  <2>2. CASE data.task # "FIND_NONCE"
    BY <1>8, <2>2 DEF CallHandlerAndDrop, Jump, TypeOK, SnapshotsAreConsistent
  <2> QED BY <2>1, <2>2
<1>9. ASSUME NEW w \in Worker, HandlerReturns(w) PROVE SnapshotsAreConsistent'
  BY <1>9 DEF HandlerReturns, Jump, TypeOK, SnapshotsAreConsistent
<1>10. CASE UNCHANGED vars
  BY <1>10 DEF vars, SnapshotsAreConsistent
<1> QED
  BY <1>1, <1>2, <1>3, <1>4, <1>5, <1>6, <1>7, <1>8, <1>9, <1>10 DEF Next, WorkerStep

\* Comparing versions without the lock, as MinerWorker::worker does, is as good as
\* comparing the data, for any number of workers.
THEOREM MinerSnapshots == Spec => []SnapshotsAreConsistent
<1>1. Init => SnapshotsAreConsistent
  BY MinerAssumption DEF Init, SnapshotsAreConsistent
<1> QED
  BY <1>1, MinerTypes, SnapshotStep, PTL DEF Spec

-----------------------------------------------------------------------------
\* Jobs stay jobs: a version never changes its data.
LEMMA JobsStay ==
  ASSUME TypeOK, SnapshotsAreConsistent, [Next]_vars, NEW v, IsJob(v)
  PROVE  IsJob(v)'
<1>1. CASE UNCHANGED <<version, posted>>
  BY <1>1 DEF IsJob
<1>2. ASSUME NEW d \in Data, Publish(d) PROVE IsJob(v)'
  <2>1. /\ version' = version + 1 /\ version \in Nat
        /\ \A u \in 0..version : posted'[u + 1] = posted[u + 1]
    BY <1>2, PublishKeepsVersions DEF TypeOK
  <2>2. v \in 0..version /\ v \in 1..version'
    BY <2>1 DEF IsJob
  <2> QED
    BY <2>1, <2>2 DEF IsJob
<1>3. CASE FindNonce \/ DropJob \/ Stop
  <2>1. \A task \in {"NONE", "EXIT"} : Idle(task) \in Data
    BY PublishedIsData DEF Tasks
  <2> QED
    BY <1>2, <1>3, <2>1, PublishedIsData DEF FindNonce, DropJob, Stop, Post
<1>4. ASSUME NEW w \in Worker, WorkerStep(w) PROVE IsJob(v)'
  <2>1. Idle("DROP_JOB") \in Data
    BY PublishedIsData DEF Tasks
  <2> QED
    BY <1>1, <1>2, <1>4, <2>1 DEF WorkerStep, WaitAndReadNewData, Dispatch, CheckVersion, TryNonce,
       CallHandlerAndDrop, HandlerReturns
<1> QED
  BY <1>1, <1>3, <1>4 DEF Next, vars

\* A job is numbered with its version, and every job that was dropped is older
\* than the data of now: with these the order of the dropped jobs is inductive.
JobsAreNumbered == \A v \in 0..version : posted[v + 1].job # NoJob => posted[v + 1].job = v
DroppedIsOld == \A i \in DOMAIN handled : handled[i].dropped < version

DropInv == HandlerCallsDropNewJobs /\ JobsAreNumbered /\ DroppedIsOld

\* Publishing keeps the numbers of the jobs.
LEMMA NumberedStep ==
  ASSUME TypeOK, SnapshotsAreConsistent, JobsAreNumbered, NEW d \in Data, Publish(d),
         d.job # NoJob => d.job = version + 1
  PROVE  JobsAreNumbered'
<1>1. /\ version \in Nat /\ version' = version + 1 /\ posted'[version' + 1] = d
      /\ \A u \in 0..version : posted'[u + 1] = posted[u + 1]
  BY PublishKeepsVersions DEF TypeOK, Publish
<1>2. ASSUME NEW v \in 0..version', posted'[v + 1].job # NoJob PROVE posted'[v + 1].job = v
  <2>1. CASE v = version'
    BY <1>1, <1>2, <2>1
  <2>2. CASE v # version'
    <3>1. v \in 0..version
      BY <1>1, <2>2
    <3> QED
      BY <1>1, <1>2, <3>1 DEF JobsAreNumbered
  <2> QED
    BY <2>1, <2>2
<1> QED
  BY <1>2 DEF JobsAreNumbered

\* A call of the handler drops the job of the present version, which no call before
\* it has dropped.
LEMMA DropStep ==
  TypeOK /\ SnapshotsAreConsistent /\ DropInv /\ [Next]_vars => DropInv'
<1> SUFFICES ASSUME TypeOK, SnapshotsAreConsistent, DropInv, [Next]_vars PROVE DropInv'
  OBVIOUS
<1>0. /\ version \in Nat /\ \A v : IsJob(v) => IsJob(v)'
      /\ handled \in Seq([job : Nat, dropped : Nat])
  BY JobsStay DEF TypeOK
<1>c. \A i \in DOMAIN handled : handled[i].dropped \in Nat /\ handled[i].job \in Nat
  <2>1. \A i \in DOMAIN handled : handled[i] \in [job : Nat, dropped : Nat]
    <3> DEFINE R == [job : Nat, dropped : Nat]
    <3>1. handled \in Seq(R)
      BY <1>0
    <3> HIDE DEF R
    <3>2. \A i \in DOMAIN handled : handled[i] \in R
      BY <3>1
    <3> QED
      BY <3>2 DEF R
  <2> QED
    BY <2>1
<1>a. ASSUME handled' = handled, version' = version \/ version' = version + 1, JobsAreNumbered'
      PROVE  DropInv'
  <2>1. DroppedIsOld'
    <3>1. \A i \in DOMAIN handled : handled[i].dropped \in Nat /\ handled[i].dropped < version
      BY <1>c DEF DropInv, DroppedIsOld
    <3> QED
      BY <1>0, <1>a, <3>1 DEF DroppedIsOld
  <2>2. HandlerCallsDropNewJobs'
    BY <1>0, <1>a DEF DropInv, HandlerCallsDropNewJobs
  <2> QED
    BY <1>a, <2>1, <2>2 DEF DropInv
<1>b. ASSUME UNCHANGED <<version, posted, handled>> PROVE DropInv'
  <2>1. JobsAreNumbered'
    BY <1>b DEF DropInv, JobsAreNumbered
  <2> QED
    BY <1>a, <1>b, <2>1
<1>1. CASE FindNonce \/ DropJob \/ Stop
  <2>1. PICK d \in Data : Publish(d) /\ (d.job # NoJob => d.job = version + 1) /\ handled' = handled
    <3>1. \A task \in {"NONE", "EXIT"} : Idle(task) \in Data /\ Idle(task).job = NoJob
      BY PublishedIsData DEF Tasks, Idle
    <3> QED
      BY <1>1, <3>1, PublishedIsData DEF FindNonce, DropJob, Stop, Post
  <2>2. JobsAreNumbered'
    BY <2>1, NumberedStep DEF DropInv
  <2> QED
    BY <1>a, <2>1, <2>2 DEF Publish
<1>2. ASSUME NEW w \in Worker, CallHandlerAndDrop(w), data.task = "FIND_NONCE" PROVE DropInv'
  <2> DEFINE call == [job |-> wData[w].job, dropped |-> version]
             N == Len(handled)
  <2>1. /\ pc[w] = "found" /\ version' = version + 1 /\ handled' = Append(handled, call)
        /\ Publish(Idle("DROP_JOB"))
    BY <1>2 DEF CallHandlerAndDrop, Publish
  <2>2. IsJob(wData[w].job) /\ wData[w].job \in Nat /\ wData[w].job <= version /\ IsJob(version)
    <3>1. /\ wData[w] = posted[wVersion[w] + 1] /\ wVersion[w] <= version /\ wVersion[w] \in Nat
          /\ wData[w].task = "FIND_NONCE" /\ data = posted[version + 1]
          /\ wData[w] \in Data /\ data \in Data
      BY <2>1 DEF SnapshotsAreConsistent, TypeOK
    <3>2. wData[w].job # NoJob /\ data.job # NoJob
      BY <1>2, <3>1 DEF Data
    <3>3. wVersion[w] \in 0..version /\ version \in 0..version
      BY <1>0, <3>1
    <3>4. wData[w].job = wVersion[w] /\ data.job = version
      BY <3>1, <3>2, <3>3 DEF DropInv, JobsAreNumbered
    <3>5. wVersion[w] \in 1..version /\ version \in 1..version
      BY <1>0, <3>2, <3>3, <3>4 DEF NoJob
    <3> QED
      BY <1>2, <3>1, <3>4, <3>5 DEF IsJob
  <2>3. call \in [job : Nat, dropped : Nat] /\ call.job = wData[w].job /\ call.dropped = version
    BY <1>0, <2>2
  <2> HIDE DEF call
  <2>4. /\ N \in Nat /\ DOMAIN handled = 1..N /\ DOMAIN handled' = 1..(N + 1)
        /\ handled'[N + 1] = call /\ \A i \in 1..N : handled'[i] = handled[i]
    BY <1>0, <2>1, <2>3
  <2>5. \A i \in 1..N : /\ handled[i].dropped \in Nat /\ handled[i].dropped < version
                        /\ IsJob(handled[i].dropped) /\ IsJob(handled[i].job)
                        /\ handled[i].job <= handled[i].dropped
    BY <1>c, <2>4 DEF DropInv, DroppedIsOld, HandlerCallsDropNewJobs
  <2> HIDE DEF N
  <2>6. DroppedIsOld'
    BY <1>0, <2>1, <2>3, <2>4, <2>5 DEF DroppedIsOld
  <2>7. ASSUME NEW i \in 1..(N + 1)
        PROVE  (IsJob(handled[i].dropped) /\ IsJob(handled[i].job))' /\ handled'[i].job <= handled'[i].dropped
    <3>1. CASE i = N + 1
      <4>1. handled'[i].dropped = version /\ handled'[i].job = wData[w].job
        BY <2>3, <2>4, <3>1
      <4> QED
        BY <1>0, <2>2, <4>1 DEF IsJob
    <3>2. CASE i # N + 1
      <4>1. i \in 1..N
        BY <2>4, <3>2
      <4> QED
        BY <1>0, <2>4, <2>5, <4>1 DEF IsJob
    <3> QED
      BY <3>1, <3>2
  <2>8. ASSUME NEW i \in 1..(N + 1), NEW j \in 1..(N + 1), i < j
        PROVE  handled'[i].dropped < handled'[j].dropped
    <3>1. i \in 1..N
      BY <2>4, <2>8
    <3>2. CASE j = N + 1
      BY <2>3, <2>4, <2>5, <3>1, <3>2
    <3>3. CASE j # N + 1
      <4>1. j \in 1..N
        BY <2>4, <3>3
      <4> QED
        BY <2>4, <2>8, <3>1, <4>1 DEF DropInv, HandlerCallsDropNewJobs
    <3> QED
      BY <3>2, <3>3
  <2>9. HandlerCallsDropNewJobs'
    BY <2>4, <2>7, <2>8 DEF HandlerCallsDropNewJobs
  <2>10. JobsAreNumbered'
    <3>1. Idle("DROP_JOB") \in Data /\ Idle("DROP_JOB").job = NoJob
      BY PublishedIsData DEF Tasks, Idle
    <3> QED
      BY <2>1, <3>1, NumberedStep DEF DropInv
  <2> QED
    BY <2>6, <2>9, <2>10 DEF DropInv
<1>3. ASSUME NEW w \in Worker, WorkerStep(w), ~(CallHandlerAndDrop(w) /\ data.task = "FIND_NONCE")
      PROVE  DropInv'
  BY <1>3, <1>b DEF WorkerStep, WaitAndReadNewData, Dispatch, CheckVersion, TryNonce, HandlerReturns,
                    CallHandlerAndDrop
<1>4. CASE UNCHANGED vars
  BY <1>4, <1>b DEF vars
<1> QED
  BY <1>1, <1>2, <1>3, <1>4 DEF Next

\* Two calls of the handler have a findNonce between them, whatever number of workers
\* find a nonce at the same moment, and the block of a call is of the job it drops or
\* of an older one.
THEOREM MinerHandlerCalls == Spec => []HandlerCallsDropNewJobs
<1>1. Init => DropInv
  <2> SUFFICES ASSUME Init PROVE DropInv
    OBVIOUS
  <2>1. JobsAreNumbered
    BY DEF Init, JobsAreNumbered, Idle, NoJob
  <2>2. DOMAIN handled = {}
    BY DEF Init
  <2> QED
    BY <2>1, <2>2 DEF DropInv, DroppedIsOld, HandlerCallsDropNewJobs
<1>2. DropInv => HandlerCallsDropNewJobs
  BY DEF DropInv
<1> QED
  BY <1>1, <1>2, MinerTypes, MinerSnapshots, DropStep, PTL DEF Spec

-----------------------------------------------------------------------------
\* A worker that has read EXIT is about to end or has ended.
ExitEnds == \A w \in Worker : wData[w].task = "EXIT" => pc[w] \in {"switch", "done"}

\* A worker leaves EXIT only by ending.
LEMMA ExitStep == TypeOK /\ SnapshotsAreConsistent /\ ExitEnds /\ [Next]_vars => ExitEnds'
<1> SUFFICES ASSUME TypeOK, SnapshotsAreConsistent, ExitEnds, [Next]_vars,
                    NEW x \in Worker, wData'[x].task = "EXIT"
             PROVE  pc'[x] \in {"switch", "done"}
  BY DEF ExitEnds
<1>1. CASE FindNonce \/ DropJob \/ Stop \/ UNCHANGED vars
  BY <1>1 DEF FindNonce, DropJob, Stop, Post, vars, ExitEnds
<1>2. ASSUME NEW w \in Worker, WorkerStep(w) PROVE pc'[x] \in {"switch", "done"}
  <2>1. CASE x # w
    BY <1>2, <2>1 DEF WorkerStep, WaitAndReadNewData, Dispatch, CheckVersion, TryNonce, CallHandlerAndDrop,
                      HandlerReturns, Jump, ExitEnds, TypeOK
  <2>2. CASE x = w
    BY <1>2, <2>2 DEF WorkerStep, WaitAndReadNewData, Dispatch, CheckVersion, TryNonce, CallHandlerAndDrop,
                      HandlerReturns, Jump, ExitEnds, TypeOK
  <2> QED
    BY <2>1, <2>2
<1> QED
  BY <1>1, <1>2 DEF Next

\* A worker that finds a nonce while ~Miner posts EXIT does not replace EXIT, and one
\* that has read EXIT reads nothing else, whatever is posted later.
THEOREM MinerWorkersKeepExit == Spec => WorkersKeepExit
<1>1. Init => ExitEnds
  BY DEF Init, ExitEnds, Idle
<1>2. TypeOK /\ ExitEnds /\ [Next]_vars =>
        [/\ data.task = "EXIT" /\ data' # data => posts' = posts + 1
         /\ \A w \in Worker : wData[w].task = "EXIT" => wData'[w] = wData[w]]_vars
  <2> SUFFICES ASSUME TypeOK, ExitEnds, Next
               PROVE  /\ data.task = "EXIT" /\ data' # data => posts' = posts + 1
                      /\ \A w \in Worker : wData[w].task = "EXIT" => wData'[w] = wData[w]
    OBVIOUS
  <2>1. CASE FindNonce \/ DropJob
    BY <2>1 DEF FindNonce, DropJob, Post
  <2>2. CASE Stop
    <3>1. data.task = "EXIT" => data = Idle("EXIT")
      BY DEF TypeOK, Data, Idle, NoJob
    <3> QED
      BY <2>2, <3>1 DEF Stop, Publish
  <2>3. ASSUME NEW w \in Worker, WorkerStep(w)
        PROVE  /\ data.task = "EXIT" => data' = data
               /\ \A x \in Worker : wData[x].task = "EXIT" => wData'[x] = wData[x]
    <3>1. CASE WaitAndReadNewData(w)
      BY <3>1 DEF WaitAndReadNewData, ExitEnds, TypeOK
    <3>2. CASE ~WaitAndReadNewData(w)
      BY <2>3, <3>2 DEF WorkerStep, Dispatch, CheckVersion, TryNonce, CallHandlerAndDrop, HandlerReturns
    <3> QED
      BY <3>1, <3>2
  <2> QED
    BY <2>1, <2>2, <2>3 DEF Next
<1> QED
  BY <1>1, <1>2, MinerTypes, MinerSnapshots, ExitStep, PTL DEF Spec, WorkersKeepExit
=============================================================================
