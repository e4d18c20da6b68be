----------------------------- MODULE HostProofs -----------------------------
(***************************************************************************)
(* Proofs about Host, for any remote nodes with any addresses, any number  *)
(* of peers and attempts, any size of a bucket and any time limits.        *)
(***************************************************************************)
EXTENDS Host, CommonFacts

-----------------------------------------------------------------------------
(* The inductive invariant *)

Rating == -RatingLimit..(RatingLimit - 1)
Peer == [status : {"none", "open", "ending", "refusing"}, ep : Endpoint \cup {NoEndpoint},
         dialed : BOOLEAN, seen : 0..MaxTime, rating : Rating]
Main == [todo : SUBSET Nodes, ep : Endpoint \cup {NoEndpoint}, pc : {"idle", "insert", "connect"}]

\* The clock, the main thread and the attempts.
DialTypes ==
  /\ now \in 0..MaxTime
  /\ main \in Main /\ (main.pc # "idle" => main.ep \in Endpoint)
  /\ connecting \subseteq Endpoint /\ skipped \subseteq Endpoint /\ network \in {"running", "ended"}
  /\ dials \in [Endpoint -> [Timer -> Nat]]

\* The peers and the pools.
PeerTypes ==
  /\ ratings \in [Endpoint -> Rating]
  /\ peers \in [PeerId -> Peer]
  /\ \A p \in PeerId : peers[p].status # "none" => peers[p].ep \in Endpoint
  /\ fresh \subseteq PeerId
  /\ buckets \in [Index -> Seq(PeerId)]

HostTypes == DialTypes /\ PeerTypes

\* Pooled peers are open, those of a bucket belong to it, no bucket has one twice.
Pools ==
  /\ \A p \in fresh : peers[p].status = "open"
  /\ \A i \in Index : \A q \in ToSet(buckets[i]) :
       peers[q].status = "open" /\ q \notin fresh /\ BucketIndex[peers[q].ep] = i
  /\ \A i \in Index : IsInjective(buckets[i]) /\ Len(buckets[i]) <= MaxBucketSize

HostInv == HostTypes /\ Pools /\ OnePeerPerEndpoint

-----------------------------------------------------------------------------
(* Buckets and choices *)

\* removeSilent leaves a bucket alone that has no closed session in it.
LEMMA KeptWhole ==
  ASSUME NEW bucket \in Seq(PeerId), \A q \in ToSet(bucket) : peers[q].status # "none"
  PROVE  Kept(bucket) = bucket
<1> DEFINE N == Len(bucket)
           Step(g) == [n \in 0..N |-> IF n = 0 THEN <<>>
                                      ELSE IF peers[bucket[n]].status = "none" THEN g[n - 1]
                                      ELSE Append(g[n - 1], bucket[n])]
           kept == CHOOSE g : g = Step(g)
           First(n) == SubSeq(bucket, 1, n)
           w == [n \in 0..N |-> First(n)]
<1>1. Kept(bucket) = kept[N]
  BY DEF Kept
<1>2. N \in Nat /\ \A n \in 1..N : peers[bucket[n]].status # "none" /\ bucket[n] \in PeerId
  BY SeqAsSet, ElementOfSeq
<1>3. First(0) = <<>>
  BY SubSeqEmpty
<1>4. ASSUME NEW n \in 1..N PROVE First(n) = Append(First(n - 1), bucket[n])
  <2>1. SubSeq(bucket, 1, n) = SubSeq(bucket, 1, n - 1) \o <<bucket[n]>>
    BY <1>2, SubSeqRecursiveSecond
  <2>2. SubSeq(bucket, 1, n - 1) \in Seq(PeerId)
    BY <1>2, SubSeqProperties
  <2> QED
    BY <1>2, <2>1, <2>2, AppendIsConcat
<1> HIDE DEF First
<1>5. w = Step(w)
  BY <1>2, <1>3, <1>4
<1>6. kept = Step(kept)
  <2> HIDE DEF w, Step
  <2> QED
    BY <1>5
<1> HIDE DEF kept
<1>61. kept[0] = <<>> /\ \A n \in 1..N : kept[n] = Append(kept[n - 1], bucket[n])
  <2>1. \A n \in 1..N : n \in 0..N /\ n # 0 /\ peers[bucket[n]].status # "none"
    BY <1>2
  <2>2. 0 \in 0..N
    BY <1>2
  <2> QED
    BY <1>6, <2>1, <2>2
<1> HIDE DEF Step, w
<1> DEFINE X == {n \in 0..N : kept[n] = First(n)}
<1>7. 0 \in X
  BY <1>2, <1>3, <1>61
<1>8. ASSUME NEW i \in 0..(N - 1), i \in X PROVE i + 1 \in X
  <2>1. i + 1 \in 1..N /\ i + 1 # 0 /\ (i + 1) - 1 = i
    BY <1>2
  <2>2. kept[i + 1] = Append(kept[i], bucket[i + 1])
    BY <1>61, <2>1
  <2>3. First(i + 1) = Append(First((i + 1) - 1), bucket[i + 1])
    BY <1>4, <2>1
  <2>4. First(i + 1) = Append(First(i), bucket[i + 1]) /\ kept[i] = First(i)
    BY <1>8, <2>1, <2>3
  <2> QED
    BY <2>1, <2>2, <2>4
<1>9. N \in X
  <2> HIDE DEF X
  <2>1. 0..N \subseteq X
    BY <1>2, <1>7, <1>8, SetInduction
  <2> QED
    BY <1>2, <2>1
<1> QED
  BY <1>1, <1>9, SubSeqFull DEF First

\* getLeastRecentlySeenPeerIndex finds a peer that nobody in the bucket is older than.
LEMMA OldestIsOldest ==
  ASSUME HostTypes, NEW b \in Seq(PeerId), Len(b) > 0
  PROVE  /\ LeastRecentlySeen(b) \in 1..Len(b)
         /\ \A j \in 1..Len(b) : peers[b[LeastRecentlySeen(b)]].seen <= peers[b[j]].seen
<1> DEFINE I == {i \in DOMAIN b : \A j \in DOMAIN b : peers[b[i]].seen <= peers[b[j]].seen}
           T == {peers[b[j]].seen : j \in 1..Len(b)}
<1>1. DOMAIN b = 1..Len(b) /\ Len(b) \in Nat /\ \A j \in 1..Len(b) : b[j] \in PeerId
  BY LenProperties, ElementOfSeq
<1>2. \A j \in 1..Len(b) : peers[b[j]].seen \in Nat
  BY <1>1, HostAssumption DEF HostTypes, PeerTypes, Peer
<1>3. T \in SUBSET Nat /\ T # {}
  BY <1>1, <1>2
<1>4. PICK m \in T : \A k \in T : m <= k
  <2> HIDE DEF T
  <2> QED
    BY <1>3, LeastNumber
<1>5. PICK i \in 1..Len(b) : m = peers[b[i]].seen
  BY <1>4
<1>6. i \in I
  BY <1>1, <1>4, <1>5
<1>7. I \in SUBSET Nat /\ I # {}
  BY <1>1, <1>6
<1>8. Min(I) \in I
  <2> HIDE DEF I
  <2> QED
    BY <1>7, MinOfNaturals
<1>9. LeastRecentlySeen(b) = Min(I)
  BY DEF LeastRecentlySeen
<1> HIDE DEF T
<1> QED
  BY <1>1, <1>8, <1>9

\* The table is what the buckets hold.
LEMMA Buckets ==
  ASSUME NEW bs \in [Index -> Seq(PeerId)]
  PROVE  /\ UNION {ToSet(bs[i]) : i \in DOMAIN bs} \subseteq PeerId
         /\ \A p : p \in UNION {ToSet(bs[i]) : i \in DOMAIN bs} <=> \E i \in Index : p \in ToSet(bs[i])
<1>1. DOMAIN bs = Index /\ \A i \in Index : bs[i] \in Seq(PeerId)
  OBVIOUS
<1>2. \A i \in Index : ToSet(bs[i]) \subseteq PeerId
  BY <1>1, SeqAsSet
<1> QED
  BY <1>1, <1>2

\* The elements of the table by buckets.
LEMMA TableElements ==
  ASSUME HostTypes
  PROVE  /\ Table \subseteq PeerId
         /\ \A p : p \in Table <=> \E i \in Index : p \in ToSet(buckets[i])
BY Buckets DEF Table, HostTypes, PeerTypes

\* What an assignment to a member of a Peer does.
LEMMA PeerUpdates ==
  ASSUME NEW r \in Peer
  PROVE  /\ \A t \in 0..MaxTime : [r EXCEPT !.seen = t] \in Peer
         /\ \A v \in Rating : [r EXCEPT !.rating = v] \in Peer
         /\ \A st \in {"none", "open", "ending", "refusing"} : [r EXCEPT !.status = st] \in Peer
<1>1. \A t \in 0..MaxTime : [r EXCEPT !.seen = t] \in Peer
  BY DEF Peer
<1>2. \A v \in Rating : [r EXCEPT !.rating = v] \in Peer
  BY DEF Peer
<1>3. \A st \in {"none", "open", "ending", "refusing"} : [r EXCEPT !.status = st] \in Peer
  BY DEF Peer
<1> QED
  BY <1>1, <1>2, <1>3

\* The ratings of Rating and the Peer that is made, accepted or connected.
LEMMA NewPeer ==
  /\ InitialRating \in Rating /\ -InitialRating - 10 \in Rating /\ NoPeer \in Peer
  /\ \A ep \in Endpoint : [NoPeer EXCEPT !.status = "open", !.ep = ep] \in Peer
  /\ \A ep \in Endpoint, st \in {"open", "refusing"}, v \in Rating :
       [NoPeer EXCEPT !.status = st, !.ep = ep, !.dialed = TRUE, !.rating = v] \in Peer
<1>1. 0 \in 0..MaxTime
  BY HostAssumption
<1>2. InitialRating \in Rating /\ -InitialRating - 10 \in Rating
  BY HostAssumption DEF Rating, InitialRating
<1>3. NoPeer \in Peer
  BY <1>1, <1>2 DEF Peer, NoPeer
<1>4. ASSUME NEW ep \in Endpoint PROVE [NoPeer EXCEPT !.status = "open", !.ep = ep] \in Peer
  BY <1>1, <1>2 DEF Peer, NoPeer
<1>5. ASSUME NEW ep \in Endpoint, NEW st \in {"open", "refusing"}, NEW v \in Rating
      PROVE  [NoPeer EXCEPT !.status = st, !.ep = ep, !.dialed = TRUE, !.rating = v] \in Peer
  BY <1>1 DEF Peer, NoPeer
<1> QED
  BY <1>2, <1>3, <1>4, <1>5

\* A rating that is lowered is a value of int16 again.
LEMMA LoweredIsRating ==
  ASSUME NEW p \in PeerId, peers[p] \in Peer, NEW penalty \in Nat
  PROVE  Lowered(p, penalty) \in Rating
<1> DEFINE v == peers[p].rating - penalty + RatingLimit
           w == 2 * RatingLimit
<1>1. RatingLimit \in Nat /\ w \in Nat /\ w > 0
  BY HostAssumption DEF InitialRating
<1>2. v \in Int
  BY <1>1 DEF Peer, Rating
<1>3. Lowered(p, penalty) = (v % w) - RatingLimit
  BY DEF Lowered
<1> HIDE DEF v
<1>4. v % w \in 0..(w - 1)
  <2> HIDE DEF w
  <2> QED
    BY <1>1, <1>2
<1> QED
  BY <1>1, <1>3, <1>4 DEF Rating

-----------------------------------------------------------------------------
(* Attempts to connect *)

\* checkOutPeer puts an endpoint among those being connected to together with an
\* attempt whose timer is armed.
LEMMA CheckOutStep ==
  ASSUME DialTypes, DialsAreTimed, NEW ep \in Named \cup {NoEndpoint}, NEW rated,
         CheckOutPeer(ep, rated), UNCHANGED <<now, main, network, skipped>>
  PROVE  DialTypes' /\ DialsAreTimed'
<1>1. CASE UNCHANGED dialVars
  BY <1>1 DEF dialVars, DialTypes, DialsAreTimed
<1>2. CASE ep # NoEndpoint /\ connecting' = connecting \cup {ep} /\ dials' = Dialled(ep)
  <2>1. ep \in Endpoint /\ "armed" \in Timer /\ dials[ep]["armed"] \in Nat
    BY <1>2, HostAssumption DEF DialTypes, Timer
  <2>2. dials' \in [Endpoint -> [Timer -> Nat]]
    BY <1>2, <2>1 DEF DialTypes, Dialled
  <2>3. \A e \in Endpoint : dials'[e]["armed"] = IF e = ep THEN dials[e]["armed"] + 1 ELSE dials[e]["armed"]
    BY <1>2, <2>1 DEF DialTypes, Dialled
  <2>4. \A e \in Endpoint : dials[e]["armed"] \in Nat
    BY <2>1 DEF DialTypes
  <2> QED
    BY <1>2, <2>1, <2>2, <2>3, <2>4 DEF DialTypes, DialsAreTimed
<1> QED
  BY <1>1, <1>2 DEF CheckOutPeer

\* Both threads and all outcomes of an attempt: whoever is being connected to has a
\* timer, except for the endpoints that bootstrap did not dial.
LEMMA DialStep == HostTypes /\ DialsAreTimed /\ [Next]_vars => DialTypes' /\ DialsAreTimed'
<1> SUFFICES ASSUME HostTypes, DialsAreTimed, [Next]_vars PROVE DialTypes' /\ DialsAreTimed'
  OBVIOUS
<1> DEFINE Timed == DialTypes' /\ DialsAreTimed'
<1>0. /\ DialTypes /\ PeerTypes /\ Nodes \subseteq Endpoint
      /\ \A ep \in Endpoint, t \in Timer : dials[ep][t] \in Nat
  BY HostAssumption DEF HostTypes, DialTypes
<1>00. "armed" \in Timer /\ "fired" \in Timer
  BY DEF Timer
<1>1. ASSUME NEW ep \in Nodes, BootstrapCheck(ep) PROVE Timed
  <2>1. main' \in Main /\ (main'.pc # "idle" => main'.ep \in Endpoint) /\ main'.pc # "connect"
    BY <1>0, <1>1 DEF BootstrapCheck, DialTypes, Main
  <2> QED
    BY <1>0, <1>1, <2>1 DEF BootstrapCheck, dialVars, DialTypes, DialsAreTimed
<1>2. CASE BootstrapInsert
  <2>1. main' \in Main /\ (main'.pc # "idle" => main'.ep \in Endpoint)
    BY <1>0, <1>2 DEF BootstrapInsert, DialTypes, Main
  <2>2. main.ep \in Endpoint /\ main.pc = "insert"
    BY <1>0, <1>2 DEF BootstrapInsert, DialTypes
  <2>3. main.ep \notin connecting => main'.ep = main.ep /\ main'.pc = "connect"
    BY <1>0, <1>2 DEF BootstrapInsert, DialTypes, Main
  <2>4. DialTypes'
    BY <1>0, <1>2, <2>1, <2>2 DEF BootstrapInsert, DialTypes
  <2>5. DialsAreTimed'
    BY <1>2, <2>2, <2>3 DEF BootstrapInsert, DialsAreTimed
  <2> QED
    BY <2>4, <2>5
<1>3. CASE BootstrapConnect
  <2>1. main' \in Main /\ main'.pc = "idle"
    BY <1>0, <1>3 DEF BootstrapConnect, DialTypes, Main
  <2>2. main.ep \in Endpoint /\ main.pc = "connect"
    BY <1>0, <1>3 DEF BootstrapConnect, DialTypes
  <2>3. CASE ratings[main.ep] > 0
    <3>1. dials' = Dialled(main.ep) /\ skipped' = skipped
      BY <1>3, <2>3 DEF BootstrapConnect
    <3>2. dials' \in [Endpoint -> [Timer -> Nat]]
      BY <1>0, <1>00, <2>2, <3>1 DEF DialTypes, Dialled
    <3>3. \A e \in Endpoint : dials'[e]["armed"] = IF e = main.ep THEN dials[e]["armed"] + 1 ELSE dials[e]["armed"]
      BY <1>0, <1>00, <2>2, <3>1 DEF DialTypes, Dialled
    <3> QED
      BY <1>0, <1>00, <1>3, <2>1, <2>2, <3>1, <3>2, <3>3 DEF BootstrapConnect, DialTypes, DialsAreTimed
  <2>4. CASE ~(ratings[main.ep] > 0)
    <3>1. dials' = dials /\ skipped' = skipped \cup {main.ep}
      BY <1>3, <2>4 DEF BootstrapConnect
    <3> QED
      BY <1>0, <1>3, <2>1, <2>2, <3>1 DEF BootstrapConnect, DialTypes, DialsAreTimed
  <2> QED
    BY <2>3, <2>4
<1>4. ASSUME NEW ep \in Endpoint, Timeout(ep) PROVE Timed
  <2>1. dials' \in [Endpoint -> [Timer -> Nat]]
    BY <1>0, <1>00, <1>4 DEF Timeout, DialTypes
  <2>2. \A e \in Endpoint \ {ep} : dials'[e] = dials[e]
    BY <1>0, <1>4 DEF Timeout, DialTypes
  <2> QED
    BY <1>0, <1>4, <2>1, <2>2 DEF Timeout, hostVars, DialTypes, DialsAreTimed
<1>5. ASSUME NEW ep \in Endpoint, NEW t \in Timer,
             ConnectFails(ep, t) \/ \E p \in PeerId : Connected(ep, t, p)
      PROVE  Timed
  <2>0. /\ dials[ep][t] > 0 /\ connecting' = connecting \ {ep} /\ dials' = Completed(ep, t)
        /\ UNCHANGED hostVars
    BY <1>5 DEF ConnectFails, Connected
  <2>1. dials' \in [Endpoint -> [Timer -> Nat]]
    BY <1>0, <2>0 DEF Completed, DialTypes
  <2>2. \A e \in Endpoint \ {ep} : dials'[e] = dials[e]
    BY <1>0, <2>0 DEF Completed, DialTypes
  <2> QED
    BY <1>0, <2>0, <2>1, <2>2 DEF hostVars, DialTypes, DialsAreTimed
<1>6. ASSUME NEW p \in PeerId, NEW ep \in Named \cup {NoEndpoint}, HandleCannotAccept(p, ep) PROVE Timed
  BY <1>0, <1>6, CheckOutStep DEF HandleCannotAccept, hostVars
<1>7. ASSUME NEW p \in PeerId, NEW ep \in Named, HandleLookupResponse(p, ep) PROVE Timed
  BY <1>0, <1>7, CheckOutStep DEF HandleLookupResponse, hostVars
<1>51. ASSUME NEW ep \in Endpoint, NEW t \in Timer, ConnectThrows(ep, t) PROVE Timed
  <2>1. dials' \in [Endpoint -> [Timer -> Nat]]
    BY <1>0, <1>51 DEF ConnectThrows, Completed, DialTypes
  <2> QED
    BY <1>0, <1>51, <2>1 DEF ConnectThrows, DialTypes, DialsAreTimed
<1>8. ASSUME NEW ep \in Incoming, NEW p \in PeerId, Accept(ep, p) PROVE Timed
  BY <1>0, <1>8 DEF Accept, hostVars, dialVars, DialTypes, DialsAreTimed
<1>9. ASSUME NEW p \in PeerId,
             \/ Hear(p) \/ HandshakeAdds(p) \/ HandshakeRefuses(p)
             \/ HandleInvalid(p) \/ \E penalty \in {20, 30, 40} : HandleWrongBlock(p, penalty)
             \/ HandleClose(p) \/ CloseAfterLastMessage(p)
      PROVE  Timed
  <2>1. UNCHANGED <<hostVars, dialVars>>
    BY <1>9 DEF Hear, HandshakeAdds, HandshakeRefuses, HandleInvalid, HandleWrongBlock, HandleClose,
                CloseAfterLastMessage
  <2> QED
    BY <1>0, <2>1 DEF hostVars, dialVars, DialTypes, DialsAreTimed
<1>10. CASE HeartBeat
  BY <1>0, <1>10 DEF HeartBeat, hostVars, dialVars, DialTypes, DialsAreTimed
<1>11. ASSUME NEW t \in 0..MaxTime, Clock(t) PROVE Timed
  BY <1>0, <1>11 DEF Clock, dialVars, DialTypes, DialsAreTimed
<1>12. CASE UNCHANGED vars
  BY <1>0, <1>12 DEF vars, DialTypes, DialsAreTimed
<1> QED
  BY <1>1, <1>2, <1>3, <1>4, <1>5, <1>51, <1>6, <1>7, <1>8, <1>9, <1>10, <1>11, <1>12
     DEF Next, Bootstrap, Network, Attempt, Handler

-----------------------------------------------------------------------------
(* The pools *)

\* What keeps the pools in order: a step leaves in each bucket peers that were there,
\* and at most adds one that may be added.
LEMMA PoolsKept ==
  ASSUME HostInv, NEW p, buckets' \in [Index -> Seq(PeerId)],
         \A q \in fresh' : peers'[q].status = "open",
         \A i \in Index : IsInjective(buckets'[i]) /\ Len(buckets'[i]) <= MaxBucketSize,
         \A i \in Index : \A q \in ToSet(buckets'[i]) :
           /\ peers'[q].status = "open" /\ q \notin fresh' /\ peers'[q].ep = peers[q].ep
           /\ q \in ToSet(buckets[i]) \/ (q = p /\ CanBeAdded(p) /\ i = CalcBucketIndex(p))
  PROVE  Pools' /\ OnePeerPerEndpoint'
<1>1. Pools'
  <2>1. ASSUME NEW i \in Index, NEW q \in ToSet(buckets'[i]) PROVE BucketIndex[peers'[q].ep] = i
    BY DEF HostInv, Pools, CalcBucketIndex
  <2> QED
    BY <2>1 DEF Pools
<1>2. OnePeerPerEndpoint'
  <2>1. \A q : q \in Table' <=> \E i \in Index : q \in ToSet(buckets'[i])
    BY Buckets DEF Table
  <2>2. \A q : q \in Table <=> \E i \in Index : q \in ToSet(buckets[i])
    BY TableElements DEF HostInv
  <2>3. \A q \in Table' : peers'[q].ep = peers[q].ep /\ (q \in Table \/ (q = p /\ CanBeAdded(p)))
    BY <2>1, <2>2
  <2> QED
    BY <2>3 DEF HostInv, OnePeerPerEndpoint, CanBeAdded, InTable
<1> QED
  BY <1>1, <1>2

\* Most steps leave the table alone.
LEMMA TableKept ==
  ASSUME HostInv, UNCHANGED buckets,
         \A q \in fresh' : peers'[q].status = "open",
         \A q \in Table : peers'[q].status = "open" /\ q \notin fresh' /\ peers'[q].ep = peers[q].ep
  PROVE  Pools' /\ OnePeerPerEndpoint'
<1>1. /\ buckets' \in [Index -> Seq(PeerId)]
      /\ \A i \in Index : IsInjective(buckets'[i]) /\ Len(buckets'[i]) <= MaxBucketSize
  BY DEF HostInv, HostTypes, PeerTypes, Pools
<1>2. \A i \in Index : \A q \in ToSet(buckets'[i]) : q \in ToSet(buckets[i]) /\ q \in Table
  BY TableElements DEF HostInv
<1> QED
  BY <1>1, <1>2, PoolsKept

\* The facts about the peers in the pools that the steps use.
LEMMA PoolFacts ==
  ASSUME HostInv
  PROVE  /\ \A q \in fresh : q \in PeerId /\ peers[q].status = "open"
         /\ \A q \in Table : q \in PeerId /\ peers[q].status = "open" /\ q \notin fresh
         /\ \A q \in PeerId : /\ peers[q] \in Peer
                             /\ peers[q].status # "none" => peers[q].ep \in Endpoint
BY TableElements DEF HostInv, Pools, HostTypes, PeerTypes

PoolInv == PeerTypes /\ Pools /\ OnePeerPerEndpoint

\* A new session, accepted or connected.
LEMMA NewPeerStep ==
  ASSUME HostInv, NEW n \in PeerId, n \in FreePeer, NEW r \in Peer, r.ep \in Endpoint,
         r.status = "open" \/ fresh' = fresh,
         peers' = [peers EXCEPT ![n] = r],
         fresh' = fresh \/ fresh' = fresh \cup {n},
         UNCHANGED <<ratings, buckets>>
  PROVE  PoolInv'
<1>1. peers[n].status = "none"
  BY DEF FreePeer
<1>2. n \notin fresh /\ n \notin Table
  BY <1>1, PoolFacts
<1>3. peers \in [PeerId -> Peer] /\ fresh \subseteq PeerId
  BY DEF HostInv, HostTypes, PeerTypes
<1>4. peers'[n] = r /\ \A q \in PeerId \ {n} : peers'[q] = peers[q]
  BY <1>1, <1>3
<1>5. PeerTypes'
  <2>1. peers' \in [PeerId -> Peer]
    BY <1>1, <1>3
  <2>2. ASSUME NEW q \in PeerId, peers'[q].status # "none" PROVE peers'[q].ep \in Endpoint
    <3>1. CASE q = n
      BY <1>4, <3>1
    <3>2. CASE q # n
      <4>1. peers'[q] = peers[q]
        BY <1>4, <3>2
      <4>2. peers[q].status # "none" => peers[q].ep \in Endpoint
        BY DEF HostInv, HostTypes, PeerTypes
      <4> QED
        BY <2>2, <4>1, <4>2
    <3> QED
      BY <3>1, <3>2
  <2>3. fresh' \subseteq PeerId
    BY <1>1, <1>3
  <2> QED
    BY <2>1, <2>2, <2>3 DEF PeerTypes, HostInv, HostTypes
<1>6. \A q \in fresh' : peers'[q].status = "open"
  BY <1>2, <1>4, PoolFacts
<1>7. \A q \in Table : peers'[q] = peers[q] /\ q \notin fresh'
  BY <1>2, <1>4, PoolFacts
<1> QED
  BY <1>5, <1>6, <1>7, PoolFacts, TableKept DEF PoolInv

\* A peer that changes and stays where it is, or leaves the fresh ones.
LEMMA UpdateStep ==
  ASSUME HostInv, NEW p \in PeerId, NEW r \in Peer, r.ep = peers[p].ep, peers[p].status # "none",
         peers' = [peers EXCEPT ![p] = r], fresh' \subseteq fresh,
         r.status = peers[p].status \/ (p \notin Table /\ p \notin fresh'),
         ratings' \in [Endpoint -> Rating], UNCHANGED buckets
  PROVE  PoolInv'
<1>1. peers \in [PeerId -> Peer] /\ fresh \subseteq PeerId
  BY DEF HostInv, HostTypes, PeerTypes
<1>2. peers'[p] = r /\ \A q \in PeerId \ {p} : peers'[q] = peers[q]
  BY <1>1
<1>3. \A q \in PeerId : peers'[q].ep = peers[q].ep
  BY <1>2
<1>4. \A q \in PeerId : peers[q].status # "none" => peers[q].ep \in Endpoint
  BY DEF HostInv, HostTypes, PeerTypes
<1>5. PeerTypes'
  <2>1. peers' \in [PeerId -> Peer]
    BY <1>1
  <2>2. ASSUME NEW q \in PeerId, peers'[q].status # "none" PROVE peers'[q].ep \in Endpoint
    <3>1. CASE q = p
      BY <1>2, <1>4, <3>1
    <3>2. CASE q # p
      BY <1>2, <1>4, <2>2, <3>2
    <3> QED
      BY <3>1, <3>2
  <2>4. fresh' \subseteq PeerId /\ buckets' \in [Index -> Seq(PeerId)]
    BY <1>1 DEF HostInv, HostTypes, PeerTypes
  <2> QED
    BY <2>1, <2>2, <2>4 DEF PeerTypes
<1>6. ASSUME NEW q \in fresh' PROVE peers'[q].status = "open"
  <2>1. q \in PeerId /\ peers[q].status = "open"
    BY PoolFacts
  <2> QED
    BY <1>2, <2>1
<1>7. ASSUME NEW q \in Table PROVE peers'[q].status = "open" /\ q \notin fresh' /\ peers'[q].ep = peers[q].ep
  <2>1. q \in PeerId /\ peers[q].status = "open" /\ q \notin fresh
    BY PoolFacts
  <2> QED
    BY <1>2, <1>3, <2>1
<1> QED
  BY <1>5, <1>6, <1>7, TableKept DEF PoolInv

\* A peer leaves the pools: its Peer is destroyed, or its session is ending.
LEMMA DetachStep ==
  ASSUME HostInv, NEW p \in PeerId, NEW r \in Peer, r.status = "none" \/ r.ep \in Endpoint,
         peers' = [peers EXCEPT ![p] = r], fresh' = fresh \ {p},
         buckets' = RemovedFrom(buckets, p), ratings' \in [Endpoint -> Rating]
  PROVE  PoolInv'
<1>0. /\ peers \in [PeerId -> Peer] /\ fresh \subseteq PeerId
      /\ buckets \in [Index -> Seq(PeerId)] /\ \A i \in Index : IsInjective(buckets[i]) /\ Len(buckets[i]) <= MaxBucketSize
      /\ \A q \in PeerId : peers[q].status # "none" => peers[q].ep \in Endpoint
  BY DEF HostInv, HostTypes, PeerTypes, Pools
<1>1. buckets' = [i \in Index |-> RemoveFirst(buckets[i], p)]
  BY <1>0 DEF RemovedFrom
<1>2. peers'[p] = r /\ \A q \in PeerId \ {p} : peers'[q] = peers[q]
  BY <1>0, <1>1
<1>3. ASSUME NEW i \in Index
      PROVE  /\ buckets'[i] \in Seq(PeerId) /\ IsInjective(buckets'[i]) /\ Len(buckets'[i]) <= MaxBucketSize
             /\ ToSet(buckets'[i]) = ToSet(buckets[i]) \ {p}
  <2>1. buckets[i] \in Seq(PeerId) /\ IsInjective(buckets[i]) /\ Len(buckets[i]) <= MaxBucketSize
    BY <1>0
  <2>2. Len(buckets[i]) \in Nat /\ MaxBucketSize \in Nat
    BY <2>1, LenProperties, HostAssumption
  <2>3. buckets'[i] = RemoveFirst(buckets[i], p)
    BY <1>1
  <2>4. /\ RemoveFirst(buckets[i], p) \in Seq(PeerId) /\ Len(RemoveFirst(buckets[i], p)) <= Len(buckets[i])
        /\ ToSet(RemoveFirst(buckets[i], p)) = ToSet(buckets[i]) \ {p}
        /\ IsInjective(RemoveFirst(buckets[i], p))
    BY <2>1, RemoveFirstAsSet
  <2>5. Len(RemoveFirst(buckets[i], p)) \in Nat
    BY <2>4, LenProperties
  <2> QED
    BY <2>1, <2>2, <2>3, <2>4, <2>5
<1>4. buckets' \in [Index -> Seq(PeerId)]
  <2>1. buckets' = [i \in Index |-> buckets'[i]]
    BY <1>1
  <2> QED
    BY <1>3, <2>1
<1>5. PeerTypes'
  <2>1. peers' \in [PeerId -> Peer]
    BY <1>0
  <2>2. \A q \in PeerId : peers'[q].status # "none" => peers'[q].ep \in Endpoint
    BY <1>0, <1>2
  <2>3. fresh' \subseteq PeerId
    BY <1>0
  <2> QED
    BY <1>0, <1>4, <2>1, <2>2, <2>3 DEF PeerTypes
<1>6. \A q \in fresh' : peers'[q].status = "open"
  BY <1>1, <1>2, PoolFacts
<1>7. ASSUME NEW i \in Index, NEW q \in ToSet(buckets'[i])
      PROVE  /\ peers'[q].status = "open" /\ q \notin fresh' /\ peers'[q].ep = peers[q].ep
             /\ q \in ToSet(buckets[i])
  <2>1. q \in ToSet(buckets[i]) /\ q # p
    BY <1>3, <1>7
  <2>2. q \in Table
    BY <2>1, TableElements DEF HostInv
  <2>3. q \in PeerId /\ peers[q].status = "open" /\ q \notin fresh
    BY <2>2, PoolFacts
  <2> QED
    BY <1>1, <1>2, <2>1, <2>3
<1> QED
  BY <1>3, <1>4, <1>5, <1>6, <1>7, PoolsKept DEF PoolInv

\* The end of a Peer, and of its session only.
LEMMA GoneStep ==
  ASSUME HostInv, NEW p \in PeerId, Gone(p), UNCHANGED ratings
  PROVE  PoolInv'
<1>1. ratings \in [Endpoint -> Rating]
  BY DEF HostInv, HostTypes, PeerTypes
<1>2. NoPeer \in Peer /\ NoPeer.status = "none"
  BY NewPeer DEF NoPeer
<1> QED
  BY <1>1, <1>2, DetachStep DEF Gone

LEMMA EndingStep ==
  ASSUME HostInv, NEW p \in PeerId, NEW r \in Peer, r.ep \in Endpoint, Ending(p, r),
         ratings' \in [Endpoint -> Rating]
  PROVE  PoolInv'
<1> DEFINE u == [r EXCEPT !.status = "ending"]
<1>1. u \in Peer
  BY PeerUpdates
<1>2. u.ep \in Endpoint
  BY DEF Peer
<1>3. peers' = [peers EXCEPT ![p] = u] /\ fresh' = fresh \ {p} /\ buckets' = RemovedFrom(buckets, p)
  BY DEF Ending
<1> HIDE DEF u
<1> QED
  BY <1>1, <1>2, <1>3, DetachStep

\* Where a peer that may be added belongs.
LEMMA BucketIsThere ==
  ASSUME HostInv, NEW p \in fresh, CanBeAdded(p)
  PROVE  CalcBucketIndex(p) \in Index /\ p \in PeerId /\ p \notin Table
<1>1. p \in PeerId /\ peers[p].status = "open"
  BY PoolFacts
<1>2. peers[p].ep \in Endpoint
  BY <1>1 DEF HostInv, HostTypes, PeerTypes
<1>3. BucketIndex[peers[p].ep] \in Range(BucketIndex)
  BY <1>2 DEF Range, BucketIndex
<1> QED
  BY <1>1, <1>3, PoolFacts DEF CalcBucketIndex, CanBeAdded, Index

\* The peer whose place a newcomer takes: one of the same bucket.
LEMMA OldestIsThere ==
  ASSUME HostInv, NEW p \in fresh, Evicts(p)
  PROVE  /\ BucketOf(p) \in Seq(PeerId) /\ Len(BucketOf(p)) \in Nat
         /\ LeastRecentlySeen(BucketOf(p)) \in 1..Len(BucketOf(p))
         /\ Oldest(p) \in ToSet(BucketOf(p)) /\ Oldest(p) \in Table /\ Oldest(p) # p
         /\ \A q \in ToSet(BucketOf(p)) : peers[Oldest(p)].seen <= peers[q].seen
<1> DEFINE b == BucketOf(p)
<1>1. CalcBucketIndex(p) \in Index /\ CanBeAdded(p) /\ Len(b) >= MaxBucketSize
  BY BucketIsThere DEF Evicts
<1>2. b \in Seq(PeerId)
  BY <1>1 DEF BucketOf, HostInv, HostTypes, PeerTypes
<1>3. Len(b) \in Nat /\ Len(b) > 0
  BY <1>1, <1>2, LenProperties, HostAssumption
<1>4. Oldest(p) = b[LeastRecentlySeen(b)] /\ b = buckets[CalcBucketIndex(p)]
  BY DEF Oldest, BucketOf
<1> HIDE DEF b
<1>5. /\ LeastRecentlySeen(b) \in 1..Len(b)
      /\ \A j \in 1..Len(b) : peers[b[LeastRecentlySeen(b)]].seen <= peers[b[j]].seen
  BY <1>2, <1>3, OldestIsOldest DEF HostInv
<1>6. Oldest(p) \in ToSet(b) /\ \A q \in ToSet(b) : peers[Oldest(p)].seen <= peers[q].seen
  BY <1>2, <1>4, <1>5, SeqAsSet
<1>7. Oldest(p) \in Table
  BY <1>1, <1>4, <1>6, TableElements DEF HostInv
<1>8. Oldest(p) # p
  BY <1>7, PoolFacts
<1> QED
  BY <1>2, <1>3, <1>5, <1>6, <1>7, <1>8 DEF b

\* The bucket a handshake changes, and how: the newcomer takes a free place, or the
\* place of the oldest.
LEMMA HandshakeBucket ==
  ASSUME HostInv, NEW p \in fresh, HandshakeAdds(p)
  PROVE  LET i == CalcBucketIndex(p)
             gone == IF Fits(p) THEN {} ELSE {Oldest(p)}
         IN  /\ CanBeAdded(p) /\ (Fits(p) \/ Evicts(p))
             /\ i \in Index /\ buckets' = [buckets EXCEPT ![i] = buckets'[i]]
             /\ buckets'[i] \in Seq(PeerId) /\ IsInjective(buckets'[i]) /\ Len(buckets'[i]) <= MaxBucketSize
             /\ ToSet(buckets'[i]) = (ToSet(buckets[i]) \ gone) \cup {p}
<1> DEFINE i == CalcBucketIndex(p)
           b == buckets[i]
<1>0. CanBeAdded(p)
  BY DEF HandshakeAdds, Fits, Evicts
<1>1. i \in Index /\ p \in PeerId /\ p \notin Table
  BY <1>0, BucketIsThere
<1>2. /\ b \in Seq(PeerId) /\ IsInjective(b) /\ Len(b) <= MaxBucketSize /\ Len(b) \in Nat
      /\ MaxBucketSize \in Nat /\ b = BucketOf(p) /\ buckets \in [Index -> Seq(PeerId)]
  <2>1. b \in Seq(PeerId) /\ IsInjective(b) /\ Len(b) <= MaxBucketSize /\ buckets \in [Index -> Seq(PeerId)]
    BY <1>1 DEF HostInv, HostTypes, PeerTypes, Pools
  <2> QED
    BY <2>1, LenProperties, HostAssumption DEF BucketOf
<1>3. p \notin ToSet(b)
  BY <1>1, TableElements DEF HostInv
<1>4. CASE Fits(p)
  <2>1. buckets' = [buckets EXCEPT ![i] = Append(b, p)]
    <3>1. ~Evicts(p)
      BY <1>2, <1>4 DEF Fits, Evicts
    <3> QED
      BY <1>4, <3>1 DEF HandshakeAdds
  <2>2. Len(b) < MaxBucketSize
    BY <1>2, <1>4 DEF Fits
  <2> HIDE DEF b, i
  <2>3. buckets'[i] = Append(b, p)
    BY <1>1, <1>2, <2>1
  <2>4. /\ Append(b, p) \in Seq(PeerId) /\ Len(Append(b, p)) = Len(b) + 1
        /\ ToSet(Append(b, p)) = ToSet(b) \cup {p} /\ IsInjective(Append(b, p))
    BY <1>1, <1>2, <1>3, AppendAsSet
  <2>5. Len(Append(b, p)) <= MaxBucketSize
    BY <1>2, <2>2, <2>4
  <2>6. ToSet(buckets'[i]) = (ToSet(b) \ {}) \cup {p}
    BY <2>3, <2>4
  <2> QED
    BY <1>0, <1>1, <1>4, <2>1, <2>3, <2>4, <2>5, <2>6 DEF b, i
<1>5. CASE ~Fits(p)
  <2> DEFINE k == LeastRecentlySeen(b)
             c == RemoveAt(b, k)
  <2>1. Evicts(p) /\ buckets' = [buckets EXCEPT ![i] = Append(c, p)]
    BY <1>5 DEF HandshakeAdds
  <2>2. k \in 1..Len(b) /\ Oldest(p) = b[k]
    BY <2>1, OldestIsThere, <1>2 DEF Oldest
  <2> HIDE DEF b, i, k
  <2>3. /\ c \in Seq(PeerId) /\ Len(c) = Len(b) - 1 /\ IsInjective(c)
        /\ ToSet(c) = ToSet(b) \ {Oldest(p)}
    BY <1>2, <2>2, RemoveAtAsSet
  <2> HIDE DEF c
  <2>4. buckets'[i] = Append(c, p)
    BY <1>1, <1>2, <2>1
  <2>5. p \notin ToSet(c)
    BY <1>3, <2>3
  <2>6. /\ Append(c, p) \in Seq(PeerId) /\ Len(Append(c, p)) = Len(c) + 1
        /\ ToSet(Append(c, p)) = ToSet(c) \cup {p} /\ IsInjective(Append(c, p))
    BY <1>1, <2>3, <2>5, AppendAsSet
  <2>7. Len(Append(c, p)) <= MaxBucketSize
    BY <1>2, <2>3, <2>6
  <2> QED
    BY <1>0, <1>1, <1>5, <2>1, <2>3, <2>4, <2>6, <2>7 DEF b, i
<1> QED
  BY <1>4, <1>5

\* A handshake that succeeds.
LEMMA HandshakeStep ==
  ASSUME HostInv, NEW p \in fresh, HandshakeAdds(p)
  PROVE  PoolInv'
<1> DEFINE i == CalcBucketIndex(p)
           gone == IF Fits(p) THEN {} ELSE {Oldest(p)}
<1>0. /\ peers \in [PeerId -> Peer] /\ fresh \subseteq PeerId
      /\ buckets \in [Index -> Seq(PeerId)] /\ \A j \in Index : IsInjective(buckets[j]) /\ Len(buckets[j]) <= MaxBucketSize
      /\ \A q \in PeerId : peers[q].status # "none" => peers[q].ep \in Endpoint
      /\ ratings \in [Endpoint -> Rating] /\ now \in 0..MaxTime
  BY DEF HostInv, HostTypes, DialTypes, PeerTypes, Pools
<1>1. /\ CanBeAdded(p) /\ (Fits(p) \/ Evicts(p))
      /\ i \in Index /\ buckets' = [buckets EXCEPT ![i] = buckets'[i]]
      /\ buckets'[i] \in Seq(PeerId) /\ IsInjective(buckets'[i]) /\ Len(buckets'[i]) <= MaxBucketSize
      /\ ToSet(buckets'[i]) = (ToSet(buckets[i]) \ gone) \cup {p}
  BY HandshakeBucket
<1>2. p \in PeerId /\ p \notin Table /\ p \notin gone /\ gone \subseteq PeerId
  <2>1. p \in PeerId /\ p \notin Table
    BY <1>1, BucketIsThere
  <2>2. ~Fits(p) => Oldest(p) \in Table /\ Oldest(p) # p
    BY <1>1, OldestIsThere
  <2> QED
    BY <2>1, <2>2, PoolFacts
<1> DEFINE r == [peers[p] EXCEPT !.seen = now]
<1>3. r \in Peer /\ r.status = peers[p].status /\ r.ep = peers[p].ep
  <2>1. peers[p] \in Peer
    BY <1>0, <1>2
  <2>2. r \in Peer
    BY <1>0, <2>1, PeerUpdates
  <2>3. r.status = peers[p].status /\ r.ep = peers[p].ep
    BY <2>1 DEF Peer
  <2> QED
    BY <2>2, <2>3
<1>4. peers' = [q \in PeerId |-> IF q = p THEN r ELSE IF q \in gone THEN NoPeer ELSE peers[q]]
  <2>1. CASE Fits(p)
    <3>0. MaxBucketSize \in Nat /\ Len(BucketOf(p)) \in Nat
      BY <1>0, <1>1, LenProperties, HostAssumption DEF BucketOf
    <3>1. ~Evicts(p)
      BY <2>1, <3>0 DEF Fits, Evicts
    <3>2. peers' = [peers EXCEPT ![p].seen = now]
      BY <2>1, <3>1 DEF HandshakeAdds
    <3> QED
      BY <1>0, <1>2, <2>1, <3>2
  <2>2. CASE ~Fits(p)
    <3>1. peers' = [peers EXCEPT ![p].seen = now, ![Oldest(p)] = NoPeer]
      BY <2>2 DEF HandshakeAdds
    <3>2. Oldest(p) \in PeerId /\ Oldest(p) # p
      BY <1>2, <2>2
    <3> QED
      BY <1>0, <1>2, <2>2, <3>1, <3>2
  <2> QED
    BY <2>1, <2>2
<1>5. fresh' = fresh \ {p} /\ UNCHANGED ratings
  BY DEF HandshakeAdds
<1> HIDE DEF r, gone, i
<1>6. buckets' \in [Index -> Seq(PeerId)]
  BY <1>0, <1>1
<1>7. \A q \in Table : q \in PeerId /\ peers[q].status = "open" /\ q \notin fresh
  BY PoolFacts
<1>8. gone \cap fresh = {}
  <2>1. ~Fits(p) => Oldest(p) \in Table
    BY <1>1, OldestIsThere
  <2> QED
    BY <1>7, <2>1 DEF gone
<1>9. PeerTypes'
  <2>1. peers' \in [PeerId -> Peer]
    BY <1>0, <1>3, <1>4, NewPeer
  <2>2. ASSUME NEW q \in PeerId, peers'[q].status # "none" PROVE peers'[q].ep \in Endpoint
    <3>1. q \notin gone
      BY <1>2, <1>4, <2>2 DEF NoPeer
    <3> QED
      BY <1>0, <1>3, <1>4, <2>2, <3>1
  <2>3. \A q \in fresh' : q \in PeerId /\ peers'[q] = peers[q]
    BY <1>0, <1>4, <1>5, <1>8
  <2> QED
    BY <1>0, <1>5, <1>6, <2>1, <2>2, <2>3 DEF PeerTypes
<1>10. \A q \in fresh' : peers'[q].status = "open"
  BY <1>0, <1>4, <1>5, <1>8, PoolFacts
<1>11. \A j \in Index : IsInjective(buckets'[j]) /\ Len(buckets'[j]) <= MaxBucketSize
  BY <1>0, <1>1
<1>12. ASSUME NEW j \in Index, NEW q \in ToSet(buckets'[j])
      PROVE  /\ peers'[q].status = "open" /\ q \notin fresh' /\ peers'[q].ep = peers[q].ep
             /\ q \in ToSet(buckets[j]) \/ (q = p /\ CanBeAdded(p) /\ j = CalcBucketIndex(p))
  <2>1. CASE q = p
    <3>1. p \notin ToSet(buckets[j])
      BY <1>2, TableElements DEF HostInv
    <3>2. j = i
      BY <1>0, <1>1, <1>12, <2>1, <3>1
    <3>3. peers[p].status = "open" /\ peers'[p] = r
      BY <1>2, <1>4, PoolFacts
    <3> QED
      BY <1>1, <1>3, <1>5, <2>1, <3>2, <3>3 DEF i
  <2>2. CASE q # p
    <3>1. q \in ToSet(buckets[j])
      BY <1>0, <1>1, <1>12, <2>2
    <3>2. q \in Table
      BY <3>1, TableElements DEF HostInv
    <3>3. q \notin gone
      <4>1. CASE j = i
        BY <1>1, <1>12, <2>2, <4>1
      <4>2. CASE j # i
        <5>1. BucketIndex[peers[q].ep] = j
          BY <3>1 DEF HostInv, Pools
        <5>2. q \in gone => q \in ToSet(buckets[i])
          BY <1>1, OldestIsThere DEF gone, BucketOf, i
        <5>3. q \in gone => BucketIndex[peers[q].ep] = i
          BY <1>1, <5>2 DEF HostInv, Pools
        <5> QED
          BY <4>2, <5>1, <5>3
      <4> QED
        BY <4>1, <4>2
    <3>4. q \in PeerId /\ peers[q].status = "open" /\ q \notin fresh
      BY <1>7, <3>2
    <3>5. peers'[q] = peers[q]
      BY <1>4, <2>2, <3>3, <3>4
    <3> QED
      BY <1>5, <3>1, <3>4, <3>5
  <2> QED
    BY <2>1, <2>2
<1>13. Pools' /\ OnePeerPerEndpoint'
  BY <1>6, <1>10, <1>11, <1>12, PoolsKept
<1> QED
  BY <1>9, <1>13 DEF PoolInv

\* What Rated stores stays within the ratings there are.
LEMMA RatingStep ==
  ASSUME HostInv, NEW p \in PeerId, peers[p].status # "none", NEW value \in Rating
  PROVE  Rated(p, value) \in [Endpoint -> Rating]
<1>1. ratings \in [Endpoint -> Rating] /\ peers[p].ep \in Endpoint
  BY DEF HostInv, HostTypes, PeerTypes
<1> QED
  BY <1>1 DEF Rated

\* Every step keeps the pools.
LEMMA PoolStep == HostInv /\ [Next]_vars => PoolInv'
<1> SUFFICES ASSUME HostInv, [Next]_vars PROVE PoolInv'
  OBVIOUS
<1>0. /\ peers \in [PeerId -> Peer] /\ ratings \in [Endpoint -> Rating] /\ now \in 0..MaxTime
      /\ Incoming \subseteq Endpoint /\ fresh \subseteq PeerId
      /\ \A p \in PeerId : peers[p].status # "none" => peers[p].ep \in Endpoint
  BY HostAssumption DEF HostInv, HostTypes, DialTypes, PeerTypes
<1>1. CASE UNCHANGED <<ratings, peers, fresh, buckets>>
  <2>1. PeerTypes'
    BY <1>1 DEF HostInv, HostTypes, PeerTypes
  <2>2. Pools' /\ OnePeerPerEndpoint'
    BY <1>1, PoolFacts, TableKept
  <2> QED
    BY <2>1, <2>2 DEF PoolInv
<1>2. ASSUME NEW ep \in Incoming, NEW p \in PeerId, Accept(ep, p) PROVE PoolInv'
  <2> DEFINE r == [NoPeer EXCEPT !.status = "open", !.ep = ep]
  <2>1. r \in Peer /\ r.ep \in Endpoint /\ r.status = "open"
    BY <1>0, NewPeer DEF NoPeer
  <2>2. /\ p \in FreePeer /\ peers' = [peers EXCEPT ![p] = r] /\ fresh' = fresh \cup {p}
        /\ UNCHANGED <<ratings, buckets>>
    BY <1>2 DEF Accept
  <2> HIDE DEF r
  <2> QED
    BY <2>1, <2>2, NewPeerStep
<1>3. ASSUME NEW ep \in Endpoint, NEW t \in Timer, NEW p \in PeerId, Connected(ep, t, p) PROVE PoolInv'
  <2> DEFINE good == ratings[ep] > 0
             st == IF good THEN "open" ELSE "refusing"
             r == [NoPeer EXCEPT !.status = st, !.ep = ep, !.dialed = TRUE, !.rating = ratings[ep]]
  <2>1. r \in Peer /\ r.ep = ep /\ r.status = st
    BY <1>0, NewPeer DEF NoPeer
  <2>2. /\ p \in FreePeer /\ peers' = [peers EXCEPT ![p] = r]
        /\ fresh' = IF good THEN fresh \cup {p} ELSE fresh
        /\ UNCHANGED <<ratings, buckets>>
    BY <1>3 DEF Connected
  <2>3. r.status = "open" \/ fresh' = fresh
    BY <2>1, <2>2
  <2> HIDE DEF r, good, st
  <2> QED
    BY <2>1, <2>2, <2>3, NewPeerStep
<1>4. ASSUME NEW p \in PeerId, Hear(p) PROVE PoolInv'
  <2> DEFINE r == [peers[p] EXCEPT !.seen = now]
  <2>1. peers[p] \in Peer /\ r \in Peer
    BY <1>0, PeerUpdates
  <2>2. r.ep = peers[p].ep /\ r.status = peers[p].status
    BY <2>1 DEF Peer
  <2>3. peers[p].status # "none" /\ peers' = [peers EXCEPT ![p] = r] /\ UNCHANGED <<ratings, fresh, buckets>>
    BY <1>4 DEF Hear, Hears
  <2> HIDE DEF r
  <2> QED
    BY <1>0, <2>1, <2>2, <2>3, UpdateStep
<1>5. ASSUME NEW p \in PeerId, HandshakeAdds(p) PROVE PoolInv'
  BY <1>5, HandshakeStep DEF HandshakeAdds
<1>6. ASSUME NEW p \in PeerId, HandshakeRefuses(p) PROVE PoolInv'
  <2> DEFINE value == Lowered(p, 10)
             r == [peers[p] EXCEPT !.rating = value]
  <2>1. peers[p].status # "none" /\ Ending(p, r) /\ ratings' = Rated(p, value)
    BY <1>6 DEF HandshakeRefuses, Hears
  <2>2. peers[p] \in Peer /\ peers[p].ep \in Endpoint
    BY <1>0, <2>1
  <2>3. value \in Rating
    BY <2>2, LoweredIsRating
  <2> HIDE DEF value
  <2>4. r \in Peer /\ r.ep = peers[p].ep
    BY <2>2, <2>3, PeerUpdates DEF Peer
  <2> HIDE DEF r
  <2> QED
    BY <2>1, <2>2, <2>3, <2>4, RatingStep, EndingStep
<1>7. ASSUME NEW p \in PeerId, NEW r \in Peer, NEW v \in Rating, Hears(p),
             peers' = [peers EXCEPT ![p] = [r EXCEPT !.rating = v]],
             r.ep = peers[p].ep, r.status = peers[p].status,
             ratings' \in [Endpoint -> Rating], UNCHANGED <<fresh, buckets>>
      PROVE  PoolInv'
  <2> DEFINE u == [r EXCEPT !.rating = v]
  <2>1. u \in Peer
    BY PeerUpdates
  <2>2. u.ep = peers[p].ep /\ u.status = peers[p].status /\ peers[p].status # "none"
    BY <1>7 DEF Peer, Hears
  <2>3. peers' = [peers EXCEPT ![p] = u]
    BY <1>7
  <2> HIDE DEF u
  <2> QED
    BY <1>7, <2>1, <2>2, <2>3, UpdateStep
<1>8. ASSUME NEW p \in PeerId
      PROVE  LET r == Seen(p)[p] IN
             /\ r \in Peer /\ r.ep = peers[p].ep /\ r.status = peers[p].status /\ r.rating = peers[p].rating
             /\ \A v : [Seen(p) EXCEPT ![p].rating = v] = [peers EXCEPT ![p] = [r EXCEPT !.rating = v]]
             /\ Seen(p) = [peers EXCEPT ![p] = [r EXCEPT !.rating = r.rating]]
  <2> DEFINE t == IF p \in Table THEN now ELSE peers[p].seen
             r == [peers[p] EXCEPT !.seen = t]
  <2>1. peers[p] \in Peer /\ t \in 0..MaxTime
    BY <1>0 DEF Peer
  <2>2. Seen(p) = [peers EXCEPT ![p] = r]
    BY DEF Seen
  <2> HIDE DEF t
  <2>3. r \in Peer
    BY <2>1, PeerUpdates
  <2>4. r.ep = peers[p].ep /\ r.status = peers[p].status /\ r.rating = peers[p].rating
    BY <2>1 DEF Peer
  <2>5. r = [r EXCEPT !.rating = r.rating]
    BY <2>3 DEF Peer
  <2> HIDE DEF r
  <2>6. Seen(p)[p] = r
    BY <1>0, <2>2
  <2>7. \A v : [Seen(p) EXCEPT ![p].rating = v] = [peers EXCEPT ![p] = [r EXCEPT !.rating = v]]
    BY <1>0, <2>2, <2>6
  <2> QED
    BY <2>2, <2>3, <2>4, <2>5, <2>6, <2>7
<1>17. ASSUME NEW p \in PeerId, NEW v \in Rating, Hears(p), peers' = [Seen(p) EXCEPT ![p].rating = v],
              ratings' = Rated(p, v), UNCHANGED <<fresh, buckets>>
       PROVE  PoolInv'
  <2> DEFINE r == Seen(p)[p]
  <2>1. /\ r \in Peer /\ r.ep = peers[p].ep /\ r.status = peers[p].status
        /\ peers' = [peers EXCEPT ![p] = [r EXCEPT !.rating = v]]
    BY <1>8, <1>17
  <2>2. ratings' \in [Endpoint -> Rating]
    BY <1>17, RatingStep DEF Hears
  <2> HIDE DEF r
  <2> QED
    BY <1>7, <1>17, <2>1, <2>2
<1>9. ASSUME NEW p \in PeerId, NEW ep \in Named \cup {NoEndpoint}, HandleCannotAccept(p, ep) PROVE PoolInv'
  <2>1. ConnectionRefused \in Rating
    BY NewPeer DEF ConnectionRefused
  <2> QED
    BY <1>9, <1>17, <2>1 DEF HandleCannotAccept
<1>18. ASSUME NEW p \in PeerId, HandleInvalid(p) PROVE PoolInv'
  <2>1. Lowered(p, 30) \in Rating
    BY <1>0, LoweredIsRating
  <2> QED
    BY <1>17, <1>18, <2>1 DEF HandleInvalid, MaybeWrong
<1>19. ASSUME NEW p \in PeerId, NEW penalty \in {20, 30, 40}, HandleWrongBlock(p, penalty) PROVE PoolInv'
  <2> DEFINE value == Lowered(p, penalty)
             r == Seen(p)[p]
             u == [r EXCEPT !.rating = value]
  <2>1. value \in Rating
    BY <1>0, LoweredIsRating
  <2>2. Hears(p) /\ peers[p].status # "none" /\ ratings' = Rated(p, value)
    BY <1>19 DEF HandleWrongBlock, MaybeWrong, Hears
  <2>3. r \in Peer /\ r.ep = peers[p].ep /\ r.status = peers[p].status /\ peers[p].ep \in Endpoint
    BY <1>0, <1>8, <2>2
  <2>4. ratings' \in [Endpoint -> Rating]
    BY <2>1, <2>2, RatingStep
  <2>5. \/ peers' = [peers EXCEPT ![p] = u] /\ UNCHANGED <<fresh, buckets>>
        \/ Ending(p, u)
    BY <1>19 DEF HandleWrongBlock
  <2> HIDE DEF value, r
  <2>6. u \in Peer /\ u.ep \in Endpoint
    BY <2>1, <2>3, PeerUpdates DEF Peer
  <2>7. CASE Ending(p, u)
    BY <2>4, <2>6, <2>7, EndingStep
  <2> QED
    BY <1>7, <2>1, <2>2, <2>3, <2>4, <2>5, <2>7
<1>10. ASSUME NEW p \in PeerId, NEW ep \in Named, HandleLookupResponse(p, ep) PROVE PoolInv'
  <2> DEFINE r == Seen(p)[p]
  <2>1. Hears(p) /\ p \notin fresh /\ peers' = Seen(p) /\ UNCHANGED <<ratings, fresh, buckets>>
    BY <1>10 DEF HandleLookupResponse
  <2>2. /\ r \in Peer /\ r.ep = peers[p].ep /\ r.status = peers[p].status
        /\ peers' = [peers EXCEPT ![p] = [r EXCEPT !.rating = r.rating]]
    BY <1>8, <2>1
  <2> HIDE DEF r
  <2>3. r.rating \in Rating
    BY <2>2 DEF Peer
  <2> QED
    BY <1>0, <1>7, <2>1, <2>2, <2>3
<1>11. ASSUME NEW p \in PeerId, HandleClose(p) \/ CloseAfterLastMessage(p) PROVE PoolInv'
  BY <1>11, GoneStep DEF HandleClose, CloseAfterLastMessage
<1>12. CASE HeartBeat
  <2>1. ASSUME NEW i \in Index PROVE Kept(buckets[i]) = buckets[i]
    <3>1. buckets[i] \in Seq(PeerId) /\ \A q \in ToSet(buckets[i]) : peers[q].status # "none"
      BY DEF HostInv, HostTypes, PeerTypes, Pools
    <3> QED
      BY <3>1, KeptWhole
  <2>2. buckets' = buckets
    <3>1. buckets \in [Index -> Seq(PeerId)] /\ buckets' = [i \in DOMAIN buckets |-> Kept(buckets[i])]
      BY <1>12 DEF HeartBeat, HostInv, HostTypes, PeerTypes
    <3> QED
      BY <2>1, <3>1
  <2> QED
    BY <1>1, <1>12, <2>2 DEF HeartBeat
<1>13. CASE Bootstrap
  BY <1>1, <1>13 DEF Bootstrap, BootstrapCheck, BootstrapInsert, BootstrapConnect
<1>14. ASSUME NEW ep \in Endpoint, Timeout(ep) \/ \E t \in Timer : ConnectFails(ep, t) \/ ConnectThrows(ep, t)
       PROVE  PoolInv'
  BY <1>1, <1>14 DEF Timeout, ConnectFails, ConnectThrows
<1>15. ASSUME NEW t \in 0..MaxTime, Clock(t) PROVE PoolInv'
  BY <1>1, <1>15 DEF Clock
<1>16. CASE UNCHANGED vars
  BY <1>1, <1>16 DEF vars
<1> QED
  BY <1>2, <1>3, <1>4, <1>5, <1>6, <1>9, <1>10, <1>11, <1>12, <1>13, <1>14, <1>15, <1>16,
     <1>18, <1>19 DEF Next, Network, Attempt, Handler

\* The node starts with no peers and no attempts.
LEMMA HostStart == Init => HostInv /\ DialsAreTimed
<1> SUFFICES ASSUME Init PROVE HostInv /\ DialsAreTimed
  OBVIOUS
<1>1. DialTypes /\ DialsAreTimed
  <2>1. 0 \in 0..MaxTime
    BY HostAssumption
  <2>2. main \in Main /\ main.pc = "idle"
    BY DEF Init, Main
  <2> QED
    BY <2>1, <2>2 DEF Init, DialTypes, DialsAreTimed
<1>2. PeerTypes
  <2>1. ratings \in [Endpoint -> Rating] /\ peers \in [PeerId -> Peer] /\ fresh = {}
    BY NewPeer DEF Init
  <2>2. \A p \in PeerId : peers[p].status = "none"
    BY DEF Init, NoPeer
  <2>3. buckets \in [Index -> Seq(PeerId)]
    BY EmptySeq DEF Init
  <2> QED
    BY <2>1, <2>2, <2>3 DEF PeerTypes
<1>3. \A i \in Index : buckets[i] = <<>>
  BY DEF Init
<1>4. \A i \in Index : ToSet(buckets[i]) = {} /\ IsInjective(buckets[i]) /\ Len(buckets[i]) <= MaxBucketSize
  <2>1. ToSet(<<>>) = {} /\ IsInjective(<<>>) /\ Len(<<>>) = 0
    BY DEF ToSet, IsInjective
  <2> QED
    BY <1>3, <2>1, HostAssumption
<1>5. Table = {}
  BY <1>1, <1>2, <1>4, TableElements DEF HostTypes
<1> QED
  BY <1>1, <1>2, <1>4, <1>5 DEF Init, HostInv, HostTypes, Pools, OnePeerPerEndpoint

\* The invariant holds always.
LEMMA HostInvariant == Spec => [](HostInv /\ DialsAreTimed)
<1>1. HostInv /\ DialsAreTimed /\ [Next]_vars => (HostInv /\ DialsAreTimed)'
  BY DialStep, PoolStep DEF HostInv, HostTypes, PoolInv
<1> QED
  BY <1>1, HostStart, PTL DEF Spec

-----------------------------------------------------------------------------
(* Bits of addresses *)

\* k shifts to the left bring bit 7 - k of a byte to the top.
LEMMA TopBitIsBit ==
  ASSUME NEW byte \in 0..255, NEW k \in 0..7
  PROVE  TopBit(byte, k) = (byte \div 2^(7 - k)) % 2
<1>1. TopBit(byte, 0) = (byte \div 2^(7 - 0)) % 2
  BY DEF TopBit
<1>2. TopBit(byte, 1) = (byte \div 2^(7 - 1)) % 2
  BY DEF TopBit
<1>3. TopBit(byte, 2) = (byte \div 2^(7 - 2)) % 2
  BY DEF TopBit
<1>4. TopBit(byte, 3) = (byte \div 2^(7 - 3)) % 2
  BY DEF TopBit
<1>5. TopBit(byte, 4) = (byte \div 2^(7 - 4)) % 2
  BY DEF TopBit
<1>6. TopBit(byte, 5) = (byte \div 2^(7 - 5)) % 2
  BY DEF TopBit
<1>7. TopBit(byte, 6) = (byte \div 2^(7 - 6)) % 2
  BY DEF TopBit
<1>8. TopBit(byte, 7) = (byte \div 2^(7 - 7)) % 2
  BY DEF TopBit
<1>9. k = 0 \/ k = 1 \/ k = 2 \/ k = 3 \/ k = 4 \/ k = 5 \/ k = 6 \/ k = 7
  OBVIOUS
<1> QED
  BY <1>1, <1>2, <1>3, <1>4, <1>5, <1>6, <1>7, <1>8, <1>9

\* Bytes that differ have a bit that does.
LEMMA DifferentBytes ==
  ASSUME NEW a \in 0..255, NEW b \in 0..255, a # b
  PROVE  \E k \in 0..7 : TopBit(a, k) # TopBit(b, k)
<1> SUFFICES ASSUME \A k \in 0..7 : TopBit(a, k) = TopBit(b, k) PROVE FALSE
  OBVIOUS
<1>1. \A k \in 0..7 : (a \div 2^(7 - k)) % 2 = (b \div 2^(7 - k)) % 2
  BY TopBitIsBit
<1>2. /\ (a \div 128) % 2 = (b \div 128) % 2 /\ (a \div 64) % 2 = (b \div 64) % 2
      /\ (a \div 32) % 2 = (b \div 32) % 2 /\ (a \div 16) % 2 = (b \div 16) % 2
      /\ (a \div 8) % 2 = (b \div 8) % 2 /\ (a \div 4) % 2 = (b \div 4) % 2
      /\ (a \div 2) % 2 = (b \div 2) % 2 /\ (a \div 1) % 2 = (b \div 1) % 2
  <2>1. 2^7 = 128 /\ 2^6 = 64 /\ 2^5 = 32 /\ 2^4 = 16 /\ 2^3 = 8 /\ 2^2 = 4 /\ 2^1 = 2 /\ 2^0 = 1
    OBVIOUS
  <2>2. /\ (a \div 2^(7 - 0)) % 2 = (b \div 2^(7 - 0)) % 2 /\ (a \div 2^(7 - 1)) % 2 = (b \div 2^(7 - 1)) % 2
        /\ (a \div 2^(7 - 2)) % 2 = (b \div 2^(7 - 2)) % 2 /\ (a \div 2^(7 - 3)) % 2 = (b \div 2^(7 - 3)) % 2
        /\ (a \div 2^(7 - 4)) % 2 = (b \div 2^(7 - 4)) % 2 /\ (a \div 2^(7 - 5)) % 2 = (b \div 2^(7 - 5)) % 2
        /\ (a \div 2^(7 - 6)) % 2 = (b \div 2^(7 - 6)) % 2 /\ (a \div 2^(7 - 7)) % 2 = (b \div 2^(7 - 7)) % 2
    BY <1>1
  <2> QED
    BY <2>1, <2>2
<1>3. a \div 128 = b \div 128
  BY <1>2
<1>4. ASSUME NEW c \in 0..255
      PROVE  /\ c \div 64 = 2 * (c \div 128) + ((c \div 64) % 2) /\ c \div 32 = 2 * (c \div 64) + ((c \div 32) % 2)
             /\ c \div 16 = 2 * (c \div 32) + ((c \div 16) % 2) /\ c \div 8 = 2 * (c \div 16) + ((c \div 8) % 2)
             /\ c \div 4 = 2 * (c \div 8) + ((c \div 4) % 2) /\ c \div 2 = 2 * (c \div 4) + ((c \div 2) % 2)
             /\ c = 2 * (c \div 2) + ((c \div 1) % 2)
  OBVIOUS
<1>5. a \div 64 = b \div 64
  <2>1. /\ a \div 64 = 2 * (a \div 128) + ((a \div 64) % 2)
        /\ b \div 64 = 2 * (b \div 128) + ((b \div 64) % 2)
    BY <1>4
  <2>2. (a \div 64) % 2 = (b \div 64) % 2
    BY <1>2
  <2> QED
    BY <1>3, <2>1, <2>2
<1>6. a \div 32 = b \div 32
  <2>1. /\ a \div 32 = 2 * (a \div 64) + ((a \div 32) % 2)
        /\ b \div 32 = 2 * (b \div 64) + ((b \div 32) % 2)
    BY <1>4
  <2>2. (a \div 32) % 2 = (b \div 32) % 2
    BY <1>2
  <2> QED
    BY <1>5, <2>1, <2>2, Zenon
<1>7. a \div 16 = b \div 16
  <2>1. /\ a \div 16 = 2 * (a \div 32) + ((a \div 16) % 2)
        /\ b \div 16 = 2 * (b \div 32) + ((b \div 16) % 2)
    BY <1>4
  <2>2. (a \div 16) % 2 = (b \div 16) % 2
    BY <1>2
  <2> QED
    BY <1>6, <2>1, <2>2, Zenon
<1>8. a \div 8 = b \div 8
  <2>1. /\ a \div 8 = 2 * (a \div 16) + ((a \div 8) % 2)
        /\ b \div 8 = 2 * (b \div 16) + ((b \div 8) % 2)
    BY <1>4
  <2>2. (a \div 8) % 2 = (b \div 8) % 2
    BY <1>2
  <2> QED
    BY <1>7, <2>1, <2>2, Zenon
<1>9. a \div 4 = b \div 4
  <2>1. /\ a \div 4 = 2 * (a \div 8) + ((a \div 4) % 2)
        /\ b \div 4 = 2 * (b \div 8) + ((b \div 4) % 2)
    BY <1>4
  <2>2. (a \div 4) % 2 = (b \div 4) % 2
    BY <1>2
  <2> QED
    BY <1>8, <2>1, <2>2, Zenon
<1>10. a \div 2 = b \div 2
  <2>1. /\ a \div 2 = 2 * (a \div 4) + ((a \div 2) % 2)
        /\ b \div 2 = 2 * (b \div 4) + ((b \div 2) % 2)
    BY <1>4
  <2>2. (a \div 2) % 2 = (b \div 2) % 2
    BY <1>2
  <2> QED
    BY <1>9, <2>1, <2>2, Zenon
<1>11. a = b
  BY <1>2, <1>4, <1>10
<1> QED
  BY <1>11

\* calcDifference counts the bits before the first that differs.
LEMMA DifferenceIsPrefix ==
  ASSUME NEW a \in Bytes, NEW b \in Bytes, a # b
  PROVE  LET n == CalcDifference(a, b) IN
         /\ n \in 0..(Bits - 1) /\ Bit(b, n) # Bit(a, n)
         /\ \A k \in 0..(n - 1) : Bit(b, k) = Bit(a, k)
<1> DEFINE I == {j \in 1..LengthInBytes : a[j] # b[j]}
           i == Min(I)
           K == {k \in 0..7 : TopBit(a[i], k) # TopBit(b[i], k)}
           m == Min(K)
           n == (i - 1) * 8 + m
<1>0. LengthInBytes \in Nat \ {0} /\ \A j \in 1..LengthInBytes : a[j] \in 0..255 /\ b[j] \in 0..255
  BY HostAssumption DEF Bytes
<1>1. CalcDifference(a, b) = n
  BY DEF CalcDifference
<1>2. I \in SUBSET Nat /\ I # {}
  BY <1>0 DEF Bytes
<1>3. i \in I /\ \A j \in I : i <= j
  <2> HIDE DEF I
  <2> QED
    BY <1>2, MinOfNaturals
<1>4. i \in 1..LengthInBytes /\ a[i] # b[i] /\ \A j \in 1..(i - 1) : a[j] = b[j]
  BY <1>0, <1>3
<1> HIDE DEF i, I
<1>5. K \in SUBSET Nat /\ K # {}
  <2>1. a[i] \in 0..255 /\ b[i] \in 0..255
    BY <1>0, <1>4
  <2>2. PICK k \in 0..7 : TopBit(a[i], k) # TopBit(b[i], k)
    BY <1>4, <2>1, DifferentBytes
  <2> QED
    BY <2>2
<1>6. m \in K /\ \A k \in K : m <= k
  <2> HIDE DEF K
  <2> QED
    BY <1>5, MinOfNaturals
<1>7. m \in 0..7 /\ TopBit(a[i], m) # TopBit(b[i], m) /\ \A k \in 0..(m - 1) : TopBit(a[i], k) = TopBit(b[i], k)
  BY <1>6
<1> HIDE DEF m, K
<1>8. n \in 0..(Bits - 1) /\ n \div 8 + 1 = i /\ n % 8 = m
  BY <1>0, <1>4, <1>7 DEF Bits
<1>9. Bit(b, n) # Bit(a, n)
  <2>1. a[i] \in 0..255 /\ b[i] \in 0..255
    BY <1>0, <1>4
  <2>2. TopBit(a[i], m) = (a[i] \div 2^(7 - m)) % 2 /\ TopBit(b[i], m) = (b[i] \div 2^(7 - m)) % 2
    BY <1>7, <2>1, TopBitIsBit
  <2>3. Bit(a, n) = (a[i] \div 2^(7 - m)) % 2 /\ Bit(b, n) = (b[i] \div 2^(7 - m)) % 2
    BY <1>8 DEF Bit
  <2> QED
    BY <1>7, <2>2, <2>3
<1>10. ASSUME NEW k \in 0..(n - 1) PROVE Bit(b, k) = Bit(a, k)
  <2>1. k \in Nat /\ k % 8 \in 0..7 /\ k \div 8 + 1 \in 1..i
    BY <1>4, <1>7
  <2>2. CASE k \div 8 + 1 < i
    <3>1. k \div 8 + 1 \in 1..(i - 1)
      BY <1>4, <2>1, <2>2
    <3> QED
      BY <1>4, <3>1 DEF Bit
  <2>3. CASE k \div 8 + 1 = i
    <3>1. k % 8 \in 0..(m - 1)
      BY <1>4, <1>7, <2>1, <2>3
    <3>2. TopBit(a[i], k % 8) = TopBit(b[i], k % 8)
      BY <1>7, <3>1
    <3>3. a[i] \in 0..255 /\ b[i] \in 0..255
      BY <1>0, <1>4
    <3>4. /\ TopBit(a[i], k % 8) = (a[i] \div 2^(7 - (k % 8))) % 2
          /\ TopBit(b[i], k % 8) = (b[i] \div 2^(7 - (k % 8))) % 2
      BY <2>1, <3>3, TopBitIsBit
    <3>5. /\ Bit(a, k) = (a[i] \div 2^(7 - (k % 8))) % 2
          /\ Bit(b, k) = (b[i] \div 2^(7 - (k % 8))) % 2
      BY <2>3 DEF Bit
    <3> QED
      BY <3>2, <3>4, <3>5, Zenon
  <2> QED
    BY <1>4, <2>1, <2>2, <2>3
<1> HIDE DEF n
<1> QED
  BY <1>1, <1>8, <1>9, <1>10

-----------------------------------------------------------------------------
(* Theorems *)

\* Every variable of the host stays within its values, whatever the order of dials,
\* timeouts, refusals, penalties and closes: a rating that is lowered below the least int16
\* is an int16 again.
THEOREM HostTyped == Spec => []TypeOK
<1>1. HostInv => TypeOK
  BY TableElements DEF HostInv, HostTypes, DialTypes, PeerTypes, TypeOK, Main, Peer, Rating
<1> QED
  BY <1>1, HostInvariant, PTL

\* The table of handshaked peers never holds two sessions with one node.
THEOREM HostOnePeerPerEndpoint == Spec => []OnePeerPerEndpoint
BY HostInvariant, PTL DEF HostInv

\* Peers in a pool have an open session, and no peer is in both pools.
THEOREM HostPooledPeersAreOpen == Spec => []PooledPeersAreOpen
<1>1. HostInv => PooledPeersAreOpen
  BY PoolFacts DEF PooledPeersAreOpen
<1> QED
  BY <1>1, HostInvariant, PTL

\* An endpoint that is being connected to has a timer that will free it, except for
\* those that bootstrap enters and, for their rating, does not dial, until an exception
\* ends the network thread.
THEOREM HostDialsAreTimed == Spec => []DialsAreTimed
BY HostInvariant, PTL

\* However peers come and go, bucket i holds at most MAX_BUCKET_SIZE of them, all of
\* nodes whose address leaves ours at bit i.
THEOREM HostBucketsArePrefixes == Spec => []BucketsArePrefixes
<1>1. HostInv => BucketsArePrefixes
  <2> SUFFICES ASSUME HostInv, NEW i \in Index, NEW p \in ToSet(buckets[i])
               PROVE  LET address == AddressOf[peers[p].ep] IN
                      /\ \A k \in 0..(i - 1) : Bit(address, k) = Bit(HostAddress, k)
                      /\ Bit(address, i) # Bit(HostAddress, i)
    BY DEF BucketsArePrefixes, HostInv, HostTypes, PeerTypes, Pools
  <2> DEFINE address == AddressOf[peers[p].ep]
  <2>1. p \in Table
    BY TableElements DEF HostInv
  <2>2. peers[p].ep \in Endpoint /\ BucketIndex[peers[p].ep] = i
    <3>1. p \in PeerId /\ peers[p].status # "none"
      BY <2>1, PoolFacts
    <3> QED
      BY <3>1 DEF HostInv, HostTypes, PeerTypes, Pools
  <2>3. CalcDifference(HostAddress, address) = i /\ i # Bits
    BY <2>2 DEF BucketIndex, Index
  <2>4. HostAddress \in Bytes /\ address \in Bytes
    BY <2>2, HostAssumption
  <2>5. HostAddress # address
    BY <2>3 DEF CalcDifference
  <2> HIDE DEF address
  <2> QED
    BY <2>3, <2>4, <2>5, DifferenceIsPrefix DEF address
<1> QED
  BY <1>1, HostInvariant, PTL

\* Only a handshake brings a peer into the table, and it takes only the place of the
\* longest silent of the same bucket, which has been silent for longer than the limit
\* or has been seen at a time that is still to come.
THEOREM HostLivePeersStay == Spec => LivePeersStay
<1> DEFINE Stay ==
      Table' \ Table # {} =>
        \A p \in Table \ Table' :
          /\ now - peers[p].seen > QuietLimit \/ now < peers[p].seen
          /\ \A q \in ToSet(BucketOf(p)) : peers[p].seen <= peers[q].seen
<1>1. ASSUME HostInv, UNCHANGED buckets PROVE Stay
  BY <1>1 DEF Table
<1>2. ASSUME HostInv, NEW p \in PeerId, buckets' = RemovedFrom(buckets, p) PROVE Stay
  <2>1. /\ buckets \in [Index -> Seq(PeerId)] /\ \A i \in Index : IsInjective(buckets[i])
        /\ buckets' = [i \in Index |-> RemoveFirst(buckets[i], p)]
    BY <1>2 DEF RemovedFrom, HostInv, HostTypes, PeerTypes, Pools
  <2>2. ASSUME NEW i \in Index
        PROVE  /\ RemoveFirst(buckets[i], p) \in Seq(PeerId)
               /\ ToSet(RemoveFirst(buckets[i], p)) = ToSet(buckets[i]) \ {p}
    <3>1. buckets[i] \in Seq(PeerId) /\ IsInjective(buckets[i])
      BY <2>1
    <3> QED
      BY <3>1, RemoveFirstAsSet
  <2>3. Table' \subseteq Table
    BY <2>1, <2>2 DEF Table
  <2> QED
    BY <2>3
<1>3. ASSUME HostInv, HeartBeat PROVE Stay
  <2>1. ASSUME NEW i \in Index PROVE Kept(buckets[i]) = buckets[i]
    <3>1. buckets[i] \in Seq(PeerId) /\ \A q \in ToSet(buckets[i]) : peers[q].status # "none"
      BY <1>3 DEF HostInv, HostTypes, PeerTypes, Pools
    <3> QED
      BY <3>1, KeptWhole
  <2>2. buckets' = buckets
    <3>1. buckets \in [Index -> Seq(PeerId)] /\ buckets' = [i \in DOMAIN buckets |-> Kept(buckets[i])]
      BY <1>3 DEF HeartBeat, HostInv, HostTypes, PeerTypes
    <3> QED
      BY <2>1, <3>1
  <2> QED
    BY <1>1, <1>3, <2>2
<1>4. ASSUME HostInv, NEW p \in PeerId, HandshakeAdds(p) PROVE Stay
  <2> SUFFICES ASSUME NEW q \in Table, q \notin Table'
               PROVE  /\ now - peers[q].seen > QuietLimit \/ now < peers[q].seen
                      /\ \A o \in ToSet(BucketOf(q)) : peers[q].seen <= peers[o].seen
    OBVIOUS
  <2> DEFINE i == CalcBucketIndex(p)
             gone == IF Fits(p) THEN {} ELSE {Oldest(p)}
  <2>1. p \in fresh
    BY <1>4 DEF HandshakeAdds
  <2>2. /\ Fits(p) \/ Evicts(p)
        /\ i \in Index /\ buckets' = [buckets EXCEPT ![i] = buckets'[i]]
        /\ ToSet(buckets'[i]) = (ToSet(buckets[i]) \ gone) \cup {p}
    BY <1>4, <2>1, HandshakeBucket
  <2>3. buckets \in [Index -> Seq(PeerId)] /\ buckets' \in [Index -> Seq(PeerId)]
    BY <1>4, <2>1, HandshakeStep DEF HostInv, HostTypes, PoolInv, PeerTypes
  <2>4. \A o : o \in Table' <=> \E j \in Index : o \in ToSet(buckets'[j])
    BY <2>3, Buckets DEF Table
  <2>5. PICK j \in Index : q \in ToSet(buckets[j])
    BY <1>4, TableElements DEF HostInv
  <2> HIDE DEF i
  <2>6. q \in gone
    <3>1. q \notin ToSet(buckets'[j])
      BY <2>4
    <3>2. j = i
      BY <2>2, <2>3, <2>5, <3>1
    <3> QED
      BY <2>2, <2>5, <3>1, <3>2
  <2>7. Evicts(p) /\ q = Oldest(p)
    BY <2>2, <2>6
  <2>8. q \in ToSet(BucketOf(p)) /\ \A o \in ToSet(BucketOf(p)) : peers[q].seen <= peers[o].seen
    BY <1>4, <2>1, <2>7, OldestIsThere
  <2>9. BucketOf(q) = BucketOf(p)
    <3>1. q \in ToSet(buckets[i]) /\ BucketOf(p) = buckets[i]
      BY <2>8 DEF BucketOf, i
    <3>2. BucketIndex[peers[q].ep] = i
      BY <1>4, <2>2, <3>1 DEF HostInv, Pools
    <3> QED
      BY <3>1, <3>2 DEF BucketOf, CalcBucketIndex
  <2>10. now - peers[q].seen > QuietLimit \/ now < peers[q].seen
    <3>1. QuietFor(q) > QuietLimit
      BY <2>7 DEF Evicts
    <3>2. now \in 0..MaxTime /\ peers[q].seen \in 0..MaxTime
      <4>1. q \in PeerId
        BY <1>4, PoolFacts
      <4>2. peers[q] \in Peer
        BY <1>4, <4>1 DEF HostInv, HostTypes, PeerTypes
      <4> QED
        BY <1>4, <4>2 DEF HostInv, HostTypes, DialTypes, Peer
    <3>3. MaxTime \in Nat /\ TimeRange \in Nat /\ MaxTime < TimeRange /\ QuietLimit \in Nat
      BY HostAssumption
    <3>4. CASE now >= peers[q].seen
      <4>1. (now - peers[q].seen) % TimeRange = now - peers[q].seen
        BY <3>2, <3>3, <3>4
      <4> QED
        BY <3>1, <4>1 DEF QuietFor
    <3> QED
      BY <3>2, <3>3, <3>4
  <2> QED
    BY <2>8, <2>9, <2>10
<1>5. ASSUME HostInv, [Next]_vars PROVE Stay
  <2>1. CASE \/ Bootstrap \/ \E ep \in Incoming, p \in PeerId : Accept(ep, p)
             \/ \E ep \in Endpoint : Attempt(ep)
             \/ \E p \in PeerId :
                  \/ Hear(p) \/ HandleInvalid(p)
                  \/ \E ep \in Named \cup {NoEndpoint} : HandleCannotAccept(p, ep)
                  \/ \E ep \in Named : HandleLookupResponse(p, ep)
             \/ \E t \in 0..MaxTime : Clock(t)
             \/ UNCHANGED vars
    <3>1. UNCHANGED buckets
      BY <2>1 DEF Bootstrap, BootstrapCheck, BootstrapInsert, BootstrapConnect, Accept, Attempt, Timeout,
                  ConnectFails, Connected, ConnectThrows, Hear, HandleInvalid, HandleCannotAccept,
                  HandleLookupResponse, Clock, vars
    <3> QED
      BY <1>1, <1>5, <3>1
  <2>2. ASSUME NEW p \in PeerId,
               \/ HandshakeRefuses(p) \/ \E penalty \in {20, 30, 40} : HandleWrongBlock(p, penalty)
               \/ HandleClose(p) \/ CloseAfterLastMessage(p)
        PROVE  Stay
    <3>1. buckets' = RemovedFrom(buckets, p) \/ UNCHANGED buckets
      BY <2>2 DEF HandshakeRefuses, HandleWrongBlock, Ending, HandleClose, CloseAfterLastMessage, Gone
    <3> QED
      BY <1>1, <1>2, <1>5, <3>1
  <2> HIDE DEF Stay
  <2> QED
    BY <1>3, <1>4, <1>5, <2>1, <2>2 DEF Next, Network, Handler
<1>6. HostInv /\ [Next]_vars => [Stay]_vars
  BY <1>5
<1> QED
  BY <1>6, HostInvariant, PTL DEF Spec, LivePeersStay
=============================================================================
