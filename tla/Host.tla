-------------------------------- MODULE Host --------------------------------
(***************************************************************************)
(* The connections of one node: Host with its two pools, Connector,        *)
(* Acceptor and the ratings.  What the remote nodes do is open: they       *)
(* answer, refuse, send what was not asked for or cannot be understood,    *)
(* fall silent or go away at any moment; Peers has the protocol itself.    *)
(*                                                                         *)
(* An endpoint is the public endpoint of a remote node, and its address is *)
(* a sequence of bytes.  One network thread runs all handlers, so each is  *)
(* one step; the main thread calls checkOutPeer for the configured nodes   *)
(* at the same time, step by step.  An exception that leaves a handler     *)
(* ends the network thread, and the program goes on without it.            *)
(* Identifiers of Peer objects are used again when they are free.          *)
(***************************************************************************)
EXTENDS Integers, Sequences, FiniteSets, SequencesExt, FiniteSetsExt

CONSTANTS
  Endpoint, AddressOf,   \* the remote nodes and their addresses
  HostAddress,           \* getThisNodeAddress
  Nodes,                 \* "nodes" of the configuration
  Incoming, Named,       \* the nodes that dial us, and that messages tell us of
  Rude, RudeSessions,    \* bounds: the nodes whose messages are found wrong, and the
                         \* sessions there are with such a node when they are
  LengthInBytes,         \* Address::LENGTH_IN_BYTES
  MaxBucketSize,         \* MAX_BUCKET_SIZE
  QuietLimit,            \* NET_PING_FREQUENCY + NET_CONNECT_TIMEOUT
  TimeRange,             \* 2^32, seconds are uint32
  RatingLimit,           \* 2^15, ratings are int16
  PeerId, MaxDials,      \* bounds: Peer objects and attempts there are at a time
  MaxTime                \* bound: the clock

Bytes == [1..LengthInBytes -> 0..255]

InitialRating == 20

ASSUME HostAssumption ==
  /\ AddressOf \in [Endpoint -> Bytes] /\ HostAddress \in Bytes
  /\ Nodes \cup Incoming \cup Named \cup Rude \subseteq Endpoint
  /\ RatingLimit \in Nat /\ RatingLimit >= InitialRating + 10
  /\ RudeSessions \in Nat
  /\ LengthInBytes \in Nat \ {0} /\ MaxBucketSize \in Nat \ {0}
  /\ QuietLimit \in Nat /\ TimeRange \in Nat /\ MaxTime \in 0..(TimeRange - QuietLimit - 2)

VARIABLES
  now,         \* base::Time::now
  main,        \* bootstrap: nodes to do, the one being checked and how far it is
  connecting,  \* _connector_in_process
  dials,       \* dials[ep][t]: attempts for ep whose timer is t, armed or fired
  ratings,     \* the database of ratings
  peers,       \* the Peer objects with their sessions
  fresh,       \* _non_handshaked_peers
  buckets,     \* _handshaked_peers._buckets
  network,     \* whether the network thread runs
  skipped      \* history: endpoints put into connecting and not dialled

vars == <<now, main, connecting, dials, ratings, peers, fresh, buckets, network, skipped>>
dialVars == <<connecting, dials>>
hostVars == <<now, main, network, skipped>>

NoEndpoint == "none"
NoPeer == [status |-> "none", ep |-> NoEndpoint, dialed |-> FALSE, seen |-> 0, rating |-> InitialRating]
Timer == {"armed", "fired"}
Bits == LengthInBytes * 8

-----------------------------------------------------------------------------
(* KademliaPeerPool *)

\* byte <<= 1, k times, and its highest bit
TopBit(byte, k) == ((byte * 2^k) % 256) \div 128

\* Mutant: the bits of a byte are compared from the lowest.
CalcDifference_LowBitFirst(a, b) ==
  IF a = b THEN Bits
  ELSE LET i == Min({j \in 1..LengthInBytes : a[j] # b[j]})
       IN  (i - 1) * 8 + Min({k \in 0..7 : (a[i] \div 2^k) % 2 # (b[i] \div 2^k) % 2})

\* calcDifference: the first byte that differs, and its first bit that does
CalcDifference(a, b) ==
  IF a = b THEN Bits
  ELSE LET i == Min({j \in 1..LengthInBytes : a[j] # b[j]})
       IN  (i - 1) * 8 + Min({k \in 0..7 : TopBit(a[i], k) # TopBit(b[i], k)})

BucketIndex == [ep \in Endpoint |-> CalcDifference(HostAddress, AddressOf[ep])]
CalcBucketIndex(p) == BucketIndex[peers[p].ep]
\* the buckets that the nodes belong to; the others of the Bits there are stay empty
Index == Range(BucketIndex) \ {Bits}

Init ==
  /\ now = 0
  /\ main = [todo |-> Nodes, ep |-> NoEndpoint, pc |-> "idle"]
  /\ connecting = {} /\ dials = [ep \in Endpoint |-> [t \in Timer |-> 0]] /\ skipped = {}
  /\ ratings = [ep \in Endpoint |-> InitialRating]
  /\ peers = [p \in PeerId |-> NoPeer] /\ fresh = {}
  /\ buckets = [i \in Index |-> <<>>]
  /\ network = "running"

Table == UNION {ToSet(buckets[i]) : i \in DOMAIN buckets}
InTable(ep) == \E p \in Table : peers[p].ep = ep

\* Mutant: the peer that was seen last is taken.
LeastRecentlySeen_Latest(bucket) ==
  Min({i \in DOMAIN bucket : \A j \in DOMAIN bucket : peers[bucket[j]].seen <= peers[bucket[i]].seen})
\* getLeastRecentlySeenPeerIndex
LeastRecentlySeen(bucket) ==
  Min({i \in DOMAIN bucket : \A j \in DOMAIN bucket : peers[bucket[i]].seen <= peers[bucket[j]].seen})

\* the difference of two uint32: a clock that was set back makes it huge
QuietFor(p) == (now - peers[p].seen) % TimeRange

\* Mutant: the table is not searched.
CanBeAdded_Known(p) == CalcBucketIndex(p) # Bits
\* tryAddPeer up to the choice of the bucket: not known yet, not this node itself
CanBeAdded(p) == ~InTable(peers[p].ep) /\ CalcBucketIndex(p) # Bits

BucketOf(p) == buckets[CalcBucketIndex(p)]
Oldest(p) == BucketOf(p)[LeastRecentlySeen(BucketOf(p))]
Fits(p) == CanBeAdded(p) /\ Len(BucketOf(p)) < MaxBucketSize
Evicts(p) == CanBeAdded(p) /\ Len(BucketOf(p)) >= MaxBucketSize /\ QuietFor(Oldest(p)) > QuietLimit

\* tryRemovePeer
RemovedFrom(bs, p) == [i \in DOMAIN bs |-> RemoveFirst(bs[i], p)]

\* isConnectedTo.  A peer that was accepted and has not said Connect yet has no
\* public endpoint to compare.
IsConnectedTo(ep) == InTable(ep) \/ \E p \in fresh : peers[p].dialed /\ peers[p].ep = ep

Dials == MapThenSumSet(LAMBDA ep : dials[ep]["armed"] + dials[ep]["fired"], Endpoint)

-----------------------------------------------------------------------------
(* Peers come and go *)

FreePeer == {p \in PeerId : peers[p].status = "none"}

\* Mutant: the close handler forgets the table.
Gone_StaysInTable(p) ==
  /\ peers' = [peers EXCEPT ![p] = NoPeer]
  /\ fresh' = fresh \ {p}
  /\ buckets' = buckets

\* the end of a Peer: its session is closed, onClose detaches it from the pools
Gone(p) ==
  /\ peers' = [peers EXCEPT ![p] = NoPeer]
  /\ fresh' = fresh \ {p}
  /\ buckets' = RemovedFrom(buckets, p)

\* endSession: the peer leaves the pools, its session goes on to its last message
Ending(p, r) ==
  /\ peers' = [peers EXCEPT ![p] = [r EXCEPT !.status = "ending"]]
  /\ fresh' = fresh \ {p}
  /\ buckets' = RemovedFrom(buckets, p)

\* Mutant: the rating is wider than int16.
Lowered_Wide(p, penalty) == peers[p].rating - penalty
\* The copy of the rating in a Peer is lowered; below the least int16 it wraps around.
Lowered(p, penalty) ==
  ((peers[p].rating - penalty + RatingLimit) % (2 * RatingLimit)) - RatingLimit

\* dbUpdate stores the copy.  What is stored for the port of an accepted connection
\* is never looked up again.
Rated(p, value) ==
  IF peers[p].dialed THEN [ratings EXCEPT ![peers[p].ep] = value] ELSE ratings

\* Acceptor::accept, Host::onAccept and Peer::accepted.  After an error accept is
\* not called again, and an exception of the constructor of Connection ends the
\* network thread: then no such step, or no step of that thread, is taken any more.
Accept(ep, p) ==
  /\ p \in FreePeer
  /\ peers' = [peers EXCEPT ![p] = [NoPeer EXCEPT !.status = "open", !.ep = ep]]
  /\ fresh' = fresh \cup {p}
  /\ UNCHANGED <<hostVars, dialVars, ratings, buckets>>

-----------------------------------------------------------------------------
(* checkOutPeer and Connector *)

\* Connector::connect
Dialled(ep) == [dials EXCEPT ![ep]["armed"] = @ + 1]
Completed(ep, t) == [dials EXCEPT ![ep][t] = @ - 1]

\* checkOutPeer for an endpoint of a message, which is asked for its rating first
CheckOutPeer(ep, rated) ==
  IF /\ ep # NoEndpoint /\ rated[ep] > 0
     /\ AddressOf[ep] # HostAddress /\ ~IsConnectedTo(ep) /\ ep \notin connecting
  THEN Dials < MaxDials /\ connecting' = connecting \cup {ep} /\ dials' = Dialled(ep)
  ELSE UNCHANGED dialVars

\* bootstrap in the main thread: the configuration knows no addresses
BootstrapCheck(ep) ==
  /\ main.pc = "idle" /\ ep \in main.todo
  /\ main' = [todo |-> main.todo \ {ep},
              ep   |-> IF IsConnectedTo(ep) THEN NoEndpoint ELSE ep,
              pc   |-> IF IsConnectedTo(ep) THEN "idle" ELSE "insert"]
  /\ UNCHANGED <<now, network, skipped, dialVars, ratings, peers, fresh, buckets>>

BootstrapInsert ==
  /\ main.pc = "insert"
  /\ connecting' = connecting \cup {main.ep}
  /\ main' = IF main.ep \in connecting THEN [main EXCEPT !.pc = "idle", !.ep = NoEndpoint]
             ELSE [main EXCEPT !.pc = "connect"]
  /\ UNCHANGED <<now, network, skipped, dials, ratings, peers, fresh, buckets>>

\* a bad rating returns with the endpoint among those being connected to
BootstrapConnect ==
  /\ main.pc = "connect" /\ Dials < MaxDials
  /\ dials' = IF ratings[main.ep] > 0 THEN Dialled(main.ep) ELSE dials
  /\ skipped' = IF ratings[main.ep] > 0 THEN skipped ELSE skipped \cup {main.ep}
  /\ main' = [main EXCEPT !.pc = "idle", !.ep = NoEndpoint]
  /\ UNCHANGED <<now, connecting, network, ratings, peers, fresh, buckets>>

\* the deadline: on_fail is called, the socket goes on connecting
Timeout(ep) ==
  /\ dials[ep]["armed"] > 0
  /\ connecting' = connecting \ {ep}
  /\ dials' = [dials EXCEPT ![ep]["armed"] = @ - 1, ![ep]["fired"] = @ + 1]
  /\ UNCHANGED <<hostVars, ratings, peers, fresh, buckets>>

\* Mutant: a failed attempt is forgotten, its endpoint is not.
ConnectFails_KeepsEndpoint(ep, t) ==
  /\ dials[ep][t] > 0
  /\ dials' = Completed(ep, t)
  /\ UNCHANGED <<hostVars, connecting, ratings, peers, fresh, buckets>>

\* on_fail, a second time after the deadline
ConnectFails(ep, t) ==
  /\ dials[ep][t] > 0
  /\ connecting' = connecting \ {ep}
  /\ dials' = Completed(ep, t)
  /\ UNCHANGED <<hostVars, ratings, peers, fresh, buckets>>

\* on_connect and Peer::connected, also when the deadline has passed
Connected(ep, t, p) ==
  LET good == ratings[ep] > 0 IN
  /\ dials[ep][t] > 0 /\ p \in FreePeer
  /\ connecting' = connecting \ {ep}
  /\ dials' = Completed(ep, t)
  /\ peers' = [peers EXCEPT ![p] =
                 [NoPeer EXCEPT !.status = IF good THEN "open" ELSE "refusing",
                                !.ep = ep, !.dialed = TRUE, !.rating = ratings[ep]]]
  /\ fresh' = IF good THEN fresh \cup {p} ELSE fresh
  /\ UNCHANGED <<hostVars, ratings, buckets>>

\* The remote end is gone when the constructor of Connection asks for its address: the
\* timer is cancelled, the endpoint not yet freed, and the exception ends the thread.
ConnectThrows(ep, t) ==
  /\ dials[ep][t] > 0
  /\ dials' = Completed(ep, t)
  /\ network' = "ended"
  /\ UNCHANGED <<now, main, skipped, connecting, ratings, peers, fresh, buckets>>

-----------------------------------------------------------------------------
(* What is heard from a peer.  The header of every message sets _last_seen; this
   matters once the peer is in the table, where the handshake puts it.        *)

Hears(p) == peers[p].status \in {"open", "ending"}

Seen(p) == [peers EXCEPT ![p].seen = IF p \in Table THEN now ELSE @]

Hear(p) ==
  /\ Hears(p) /\ p \in Table
  /\ peers' = [peers EXCEPT ![p].seen = now]
  /\ UNCHANGED <<hostVars, dialVars, ratings, fresh, buckets>>

\* Connect or Accepted: the peer is added to the table, in the place of a silent
\* one if need be, whose Peer is destroyed with its session
HandshakeAdds(p) ==
  /\ Hears(p) /\ p \in fresh
  /\ fresh' = fresh \ {p}
  /\ \/ /\ Fits(p)
        /\ buckets' = [buckets EXCEPT ![CalcBucketIndex(p)] = Append(@, p)]
        /\ peers' = [peers EXCEPT ![p].seen = now]
     \/ /\ Evicts(p)
        /\ buckets' = [buckets EXCEPT ![CalcBucketIndex(p)] =
                         Append(RemoveAt(@, LeastRecentlySeen(@)), p)]
        /\ peers' = [peers EXCEPT ![p].seen = now, ![Oldest(p)] = NoPeer]
  /\ UNCHANGED <<hostVars, dialVars, ratings>>

\* cannotAddToPool and endSession(CannotAccept)
HandshakeRefuses(p) ==
  LET value == Lowered(p, 10) IN
  /\ Hears(p) /\ p \in fresh /\ ~Fits(p) /\ ~Evicts(p)
  /\ Ending(p, [peers[p] EXCEPT !.rating = value])
  /\ ratings' = Rated(p, value)
  /\ UNCHANGED <<hostVars, dialVars>>

\* Rating::connectionRefused
ConnectionRefused == -InitialRating - 10

\* the refusal, then the endpoints the message names
HandleCannotAccept(p, ep) ==
  /\ Hears(p) /\ (peers[p].dialed \/ p \in Table)
  /\ peers' = [Seen(p) EXCEPT ![p].rating = ConnectionRefused]
  /\ ratings' = Rated(p, ConnectionRefused)
  /\ CheckOutPeer(ep, ratings')
  /\ UNCHANGED <<hostVars, fresh, buckets>>

HandleLookupResponse(p, ep) ==
  /\ Hears(p) /\ p \notin fresh
  /\ peers' = Seen(p)
  /\ CheckOutPeer(ep, ratings)
  /\ UNCHANGED <<hostVars, ratings, fresh, buckets>>

MaybeWrong(p) ==
  /\ Hears(p) /\ peers[p].ep \in Rude
  /\ Cardinality({q \in PeerId : peers[q].ep = peers[p].ep}) <= RudeSessions

\* invalidMessage of handle(Block), handle(NewBlock) and an unknown type: the rating is
\* lowered, and nothing else happens
HandleInvalid(p) ==
  LET value == Lowered(p, 30) IN
  /\ MaybeWrong(p)
  /\ peers' = [Seen(p) EXCEPT ![p].rating = value]
  /\ ratings' = Rated(p, value)
  /\ UNCHANGED <<hostVars, dialVars, fresh, buckets>>

\* handleReceivedBlock with a block that was not asked for (20) or, once something was
\* asked for, a wrong one (30) or the first of another chain (40)
HandleWrongBlock(p, penalty) ==
  LET value == Lowered(p, penalty)
      r == [Seen(p)[p] EXCEPT !.rating = value]
  IN
  /\ MaybeWrong(p) /\ (p \in fresh => penalty = 20)
  /\ IF value > 0 THEN peers' = [peers EXCEPT ![p] = r] /\ UNCHANGED <<fresh, buckets>>
     ELSE Ending(p, r)
  /\ ratings' = Rated(p, value)
  /\ UNCHANGED <<hostVars, dialVars>>

\* a Close message or the end of the connection
HandleClose(p) ==
  /\ Hears(p)
  /\ Gone(p)
  /\ UNCHANGED <<hostVars, dialVars, ratings>>

\* the last message of endSession is written
CloseAfterLastMessage(p) ==
  /\ peers[p].status \in {"ending", "refusing"}
  /\ Gone(p)
  /\ UNCHANGED <<hostVars, dialVars, ratings>>

\* erase(remove_if(isSessionClosed)): what is left of the first peers of a bucket
Kept(bucket) ==
  LET kept[n \in 0..Len(bucket)] ==
        IF n = 0 THEN <<>>
        ELSE IF peers[bucket[n]].status = "none" THEN kept[n - 1]
        ELSE Append(kept[n - 1], bucket[n])
  IN  kept[Len(bucket)]

\* scheduleHeartBeat, dropZombiePeers and removeSilent
HeartBeat ==
  /\ buckets' = [i \in DOMAIN buckets |-> Kept(buckets[i])]
  /\ UNCHANGED <<hostVars, dialVars, ratings, peers, fresh>>

\* the clock of the system, which may be set back
Clock(t) ==
  /\ now' = t
  /\ UNCHANGED <<main, network, skipped, dialVars, ratings, peers, fresh, buckets>>

-----------------------------------------------------------------------------
Bootstrap == (\E ep \in Nodes : BootstrapCheck(ep)) \/ BootstrapInsert \/ BootstrapConnect

Attempt(ep) ==
  \/ Timeout(ep)
  \/ \E t \in Timer :
       \/ ConnectFails(ep, t) \/ ConnectThrows(ep, t)
       \/ \E p \in PeerId : Connected(ep, t, p)

Handler(p) ==
  \/ Hear(p) \/ HandshakeAdds(p) \/ HandshakeRefuses(p)
  \/ \E ep \in Named \cup {NoEndpoint} : HandleCannotAccept(p, ep)
  \/ \E ep \in Named : HandleLookupResponse(p, ep)
  \/ HandleInvalid(p) \/ \E penalty \in {20, 30, 40} : HandleWrongBlock(p, penalty)
  \/ HandleClose(p) \/ CloseAfterLastMessage(p)

\* the handlers of the network thread
Network ==
  /\ network = "running"
  /\ \/ \E ep \in Incoming, p \in PeerId : Accept(ep, p)
     \/ \E ep \in Endpoint : Attempt(ep)
     \/ \E p \in PeerId : Handler(p)
     \/ HeartBeat

Next == Bootstrap \/ Network \/ \E t \in 0..MaxTime : Clock(t)

Spec == Init /\ [][Next]_vars

-----------------------------------------------------------------------------
\* The values each variable ranges over.  Ratings are values of int16, whatever the
\* penalties, which have no floor: the lowest are followed by the best.
TypeOK ==
  /\ now \in 0..MaxTime
  /\ main.todo \subseteq Nodes /\ main.pc \in {"idle", "insert", "connect"}
  /\ connecting \subseteq Endpoint /\ skipped \subseteq Endpoint
  /\ dials \in [Endpoint -> [Timer -> Nat]]
  /\ ratings \in [Endpoint -> -RatingLimit..(RatingLimit - 1)]
  /\ network \in {"running", "ended"}
  /\ \A p \in PeerId : /\ peers[p].status \in {"none", "open", "ending", "refusing"}
                        /\ peers[p].rating \in -RatingLimit..(RatingLimit - 1)
  /\ fresh \subseteq PeerId /\ Table \subseteq PeerId

\* Attempts that time out and are established all the same, dials from both threads
\* and connections from the other side may give several sessions with a node; the
\* table never holds more than one of them.
OnePeerPerEndpoint == \A p, q \in Table : peers[p].ep = peers[q].ep => p = q

Bit(address, k) == (address[k \div 8 + 1] \div 2^(7 - (k % 8))) % 2

\* Bucket i holds at most MAX_BUCKET_SIZE peers, and exactly nodes whose addresses
\* agree with ours in the first i bits and differ in the next one.
BucketsArePrefixes ==
  \A i \in DOMAIN buckets :
    /\ Len(buckets[i]) <= MaxBucketSize
    /\ \A p \in ToSet(buckets[i]) :
         LET address == AddressOf[peers[p].ep] IN
         /\ \A k \in 0..(i - 1) : Bit(address, k) = Bit(HostAddress, k)
         /\ Bit(address, i) # Bit(HostAddress, i)

\* A peer in a pool has a session that is open, and is in one pool only: the heartbeat
\* never finds a zombie, broadcasts go to live sessions.
PooledPeersAreOpen ==
  /\ \A p \in fresh \cup Table : peers[p].status = "open"
  /\ fresh \cap Table = {}

\* A newcomer takes the place of another peer only if that one has been silent for
\* longer than the limit, or the clock was set back since, and nobody in its bucket
\* has been silent for longer.
LivePeersStay ==
  [][Table' \ Table # {} =>
       \A p \in Table \ Table' :
         /\ now - peers[p].seen > QuietLimit \/ now < peers[p].seen
         /\ \A q \in ToSet(BucketOf(p)) : peers[p].seen <= peers[q].seen]_vars

\* Attempts that time out, fail and succeed late free the endpoint of one another:
\* still, an endpoint that is being connected to always has an attempt whose timer
\* will free it, unless it was never dialled because of its rating, or the network
\* thread has ended.
DialsAreTimed ==
  \A ep \in connecting :
    \/ dials[ep]["armed"] > 0 \/ (main.ep = ep /\ main.pc = "connect")
    \/ ep \in skipped \/ network = "ended"
=============================================================================
