------------------------------- MODULE Peers --------------------------------
(***************************************************************************)
(* Nodes that dial each other, shake hands and download blocks: Peer, its  *)
(* Synchronizer and the part of Host that starts and ends sessions.        *)
(*                                                                         *)
(* A block is the sequence of the names on the way to it: the name of the  *)
(* genesis block and then of each miner.  So a block is its own hash, its  *)
(* parent is its Front, and a chain is its top block.  A session is a TCP  *)
(* connection <<dialing node, dialled node, attempt>>, a Peer object an    *)
(* end <<node, session>> of it.  TCP delivers in order until it breaks,    *)
(* in either direction.                                                    *)
(*                                                                         *)
(* One network thread runs the handlers of a node, so each is one step;    *)
(* the miner announces a block in a later step than it adds it.  Buckets   *)
(* have room here (see Host), transactions are in Core.                    *)
(***************************************************************************)
EXTENDS Integers, Sequences, FiniteSets, SequencesExt

CONSTANTS
  Node,
  Session,      \* the sessions that may be tried, a set of <<node, node, attempt>>
  Seeds,        \* Seeds[n]: "nodes" of the configuration of n
  InitialChains,\* the chains the nodes may start with, functions on Node
  MaxHeight,    \* bound: the longest chain node n makes by mining is MaxHeight[n]
  Fragile       \* bound: the sessions that may break at either end

NoBlock == <<>>
Names == Node \cup UNION {ToSet(c[n]) : c \in InitialChains, n \in Node}
Chains == Seq(Names) \ {NoBlock}

ASSUME PeersAssumption ==
  /\ Session \subseteq Node \X Node \X Nat /\ \A s \in Session : s[1] # s[2]
  /\ Seeds \in [Node -> SUBSET Node] /\ MaxHeight \in [Node -> Nat]
  /\ InitialChains \subseteq [Node -> Chains]
  /\ Fragile \subseteq Session

\* A block has the name of its miner: whoever has it, the miner has it too, and
\* does not mine it again.
ASSUME OwnBlocks ==
  \A c \in InitialChains : \A m, n \in Node : \A k \in 1..Len(c[m]) :
    c[m][k] = n => IsPrefix(SubSeq(c[m], 1, k), c[n])

End == {e \in Node \X Session : e[1] \in {e[2][1], e[2][2]}}
Here(e) == e[1]
Dialed(e) == e[1] = e[2][1]                         \* _was_connected_to
Other(e) == <<IF Dialed(e) THEN e[2][2] ELSE e[2][1], e[2]>>
There(e) == Here(Other(e))

VARIABLES
  chain,       \* the blockchain of each node
  mined,       \* the block a miner has added and not yet announced
  todo,        \* the seeds bootstrap has not reached yet
  connecting,  \* Host::_connector_in_process
  ratings,     \* ratings[n][m]: the stored rating of the public endpoint of m
  link,        \* the state of each TCP connection
  peer,        \* the Peer objects
  inbox        \* messages on their way to each end

vars == <<chain, mined, todo, connecting, ratings, link, peer, inbox>>
dialVars == <<connecting, link>>

Parent(b) == Front(b)
InitialRating == 20
NoPeer == [status |-> "none", pool |-> "none", requested |-> NoBlock, blocks |-> <<>>,
           goal |-> NoBlock, rating |-> InitialRating]
\* what is left of a Peer whose session is closed
GonePeer == [NoPeer EXCEPT !.status = "closed"]

Msg(type, arg) == [type |-> type, arg |-> arg]
Eof == Msg("Eof", NoBlock)    \* what a reader sees of a closed connection
Lost == Msg("Lost", NoBlock)  \* what it never reads: it has stopped, and the session is open

Init ==
  /\ chain \in InitialChains /\ mined = [n \in Node |-> NoBlock]
  /\ todo = Seeds /\ connecting = [n \in Node |-> {}]
  /\ ratings = [n \in Node |-> [m \in Node |-> InitialRating]]
  /\ link = [s \in Session |-> "idle"]
  /\ peer = [e \in End |-> NoPeer] /\ inbox = [e \in End |-> <<>>]

-----------------------------------------------------------------------------
(* Pools and blocks *)

EndsOf(n) == {e \in End : Here(e) = n}
Handshaked(n) == {e \in EndsOf(n) : peer[e].pool = "handshaked"}
AllPeersInfo(n) == {There(e) : e \in Handshaked(n)}

\* BasicPeerPool and KademliaPeerPool::hasPeerWithEndpoint.  A peer that was
\* accepted and has not said Connect yet has no public endpoint to compare.
IsConnectedTo(n, m) ==
  \E e \in EndsOf(n) :
    /\ There(e) = m
    /\ peer[e].pool = "handshaked" \/ (peer[e].pool = "new" /\ Dialed(e))

\* KademliaPeerPool::tryAddPeer while there is room
CanAddToPool(e) == There(e) \notin AllPeersInfo(Here(e))

FindBlock(n, b) == IsPrefix(b, chain[n])

\* Core::tryAddBlock, for a block that is valid
Extends(c, b) == Parent(b) = c
AddBlock(c, b) == IF Extends(c, b) THEN b ELSE c

\* Mutant: the blocks are applied in the order in which they came.
ApplySyncBlocks_Forward(c, blocks) ==
  FoldLeft(LAMBDA acc, b : IF Extends(acc, b) THEN b ELSE acc, c, blocks)
\* the loop over _sync_blocks, from the back until a block is not ADDED
ApplySyncBlocks(c, blocks) ==
  FoldRight(LAMBDA b, acc : IF acc.ok /\ Extends(acc.chain, b)
                            THEN [chain |-> b, ok |-> TRUE]
                            ELSE [chain |-> acc.chain, ok |-> FALSE],
            blocks, [chain |-> c, ok |-> TRUE]).chain

-----------------------------------------------------------------------------
(* Sending and closing *)

\* nothing comes after the end of the stream
Reaches(e) == peer[Other(e)].status # "closed" /\ {Eof, Lost} \cap ToSet(inbox[Other(e)]) = {}

\* the message at the head of e's inbox is taken, msgs are sent to the other end
Answer(e, msgs) ==
  inbox' = [inbox EXCEPT ![e] = Tail(@),
                         ![Other(e)] = IF Reaches(e) THEN @ \o msgs ELSE @]

\* Peer::endSession: out of the pools; the session is closed when the last
\* message is written
EndSession(p) == [p EXCEPT !.pool = "none", !.status = "ending"]

\* Session::close and Connection::close: onClose detaches the peer from the pools
CloseEnd(e) ==
  /\ peer' = [peer EXCEPT ![e] = GonePeer]
  /\ inbox' = [inbox EXCEPT ![e] = <<>>,
                            ![Other(e)] = IF Reaches(e) THEN Append(@, Eof) ELSE @]

\* Rating::dbUpdate; the entry of an ephemeral port is never looked up again
StoreRating(e, value) ==
  IF Dialed(e) THEN [ratings EXCEPT ![Here(e)][There(e)] = value] ELSE ratings

\* endSession(Close) when the rating has dropped to zero or below
Punish(p, penalty) ==
  LET q == [p EXCEPT !.rating = @ - penalty] IN IF q.rating > 0 THEN q ELSE EndSession(q)
LastWords(p) == IF p.status = "ending" THEN <<Msg("Close", NoBlock)>> ELSE <<>>

-----------------------------------------------------------------------------
(* Host: bootstrap, checkOutPeer, accept *)

IdleSessions(n, m) == {s \in Session : s[1] = n /\ s[2] = m /\ link[s] = "idle"}
NextSession(n, m) == CHOOSE s \in IdleSessions(n, m) : \A t \in IdleSessions(n, m) : s[3] <= t[3]

\* Host::checkOutPeer for each of ms, with the ratings given.  An endpoint with a
\* bad rating stays among the endpoints being connected to.
CheckOutPeers(n, ms, rated) ==
  LET candidates == {m \in ms \ ({n} \cup connecting[n]) :
                       ~IsConnectedTo(n, m) /\ IdleSessions(n, m) # {}}
      dialled == {NextSession(n, m) : m \in {c \in candidates : rated[n][c] > 0}}
  IN
  /\ connecting' = [connecting EXCEPT ![n] = @ \cup candidates]
  /\ link' = [s \in Session |-> IF s \in dialled THEN "dialing" ELSE link[s]]

Bootstrap(n, m) ==
  /\ m \in todo[n]
  /\ todo' = [todo EXCEPT ![n] = @ \ {m}]
  /\ CheckOutPeers(n, {m}, ratings)
  /\ UNCHANGED <<chain, mined, ratings, peer, inbox>>

\* Peer::connected, from the callback of checkOutPeer; startSession sends Connect
OnConnect(s) ==
  LET e == <<s[1], s>>
      good == ratings[s[1]][s[2]] > 0
      start == IF good THEN Msg("Connect", chain[s[1]]) ELSE Msg("CannotAccept", {})
  IN
  /\ link[s] = "dialing" /\ peer[e].status = "none"
  /\ connecting' = [connecting EXCEPT ![s[1]] = @ \ {s[2]}]
  /\ peer' = [peer EXCEPT ![e].status = IF good THEN "open" ELSE "refusing",
                          ![e].pool   = IF good THEN "new" ELSE "none",
                          ![e].rating = ratings[s[1]][s[2]]]
  /\ inbox' = [inbox EXCEPT ![Other(e)] = IF Reaches(e) THEN Append(@, start) ELSE @]
  /\ UNCHANGED <<chain, mined, todo, ratings, link>>

\* the failure callback of checkOutPeer
ConnectFails(s) ==
  /\ link[s] = "dialing" /\ \A n \in {s[1], s[2]} : peer[<<n, s>>].status = "none"
  /\ link' = [link EXCEPT ![s] = "failed"]
  /\ connecting' = [connecting EXCEPT ![s[1]] = @ \ {s[2]}]
  /\ UNCHANGED <<chain, mined, todo, ratings, peer, inbox>>

\* Host::onAccept and Peer::accepted; the rating of a new ephemeral port is good
OnAccept(s) ==
  /\ link[s] = "dialing" /\ peer[<<s[2], s>>].status = "none"
  /\ peer' = [peer EXCEPT ![<<s[2], s>>].status = "open", ![<<s[2], s>>].pool = "new"]
  /\ UNCHANGED <<chain, mined, todo, connecting, ratings, link, inbox>>

\* Nothing more comes to e, and what is on its way is lost.  Connection::receive sees
\* the end of the connection, or an error that it only logs, or it waits for ever for
\* the rest of a message that was cut.  A lost connection is such a step at each end.
Break(e) ==
  /\ e[2] \in Fragile /\ link[e[2]] = "dialing"
  /\ peer[e].status # "closed" /\ Reaches(Other(e))
  /\ \E f \in {e, Other(e)} : peer[f].status # "none"
  /\ \E m \in {Eof, Lost} : inbox' = [inbox EXCEPT ![e] = <<m>>]
  /\ UNCHANGED <<chain, mined, todo, connecting, ratings, link, peer>>

\* the callback of endSession's last message
CloseAfterLastMessage(e) ==
  /\ peer[e].status \in {"ending", "refusing"}
  /\ CloseEnd(e)
  /\ UNCHANGED <<chain, mined, todo, connecting, ratings, link>>

-----------------------------------------------------------------------------
(* Synchronizer *)

\* requestBlock raises when a request is open; the exception leaves the handler
\* and the connection never reads again
Request(p, b) ==
  IF p.requested # NoBlock THEN [p EXCEPT !.status = "deaf"] ELSE [p EXCEPT !.requested = b]

\* Mutant: the peers compare tops, and whoever is not equal is asked for our own.
TopReceived_OwnTop(p, n, top) ==
  IF top = chain[n] THEN p ELSE Request([p EXCEPT !.goal = top], chain[n])
\* handleReceivedTopBlockHash; goal remembers what was asked for
TopReceived(p, n, top) ==
  IF FindBlock(n, top) THEN p ELSE Request([p EXCEPT !.goal = top], top)

Asks(q) == IF q.requested = NoBlock \/ q.status = "deaf" THEN <<>>
           ELSE <<Msg("GetBlock", q.requested)>>

\* Mutant: the request is not reset when its answer is taken.
Answered_KeepsRequest(p, b) == [p EXCEPT !.blocks = Append(@, b)]
\* Mutant: an answer goes to the front, as a new block does.
Answered_Front(p, b) == [p EXCEPT !.requested = NoBlock, !.blocks = <<b>> \o @]
\* the expected block: _requested_block.reset and push_back
Answered(p, b) == [p EXCEPT !.requested = NoBlock, !.blocks = Append(@, b)]

\* what handleReceivedBlock makes of the peer
BlockReceived(p, n, b) ==
  LET r == Answered(p, b) IN
  CASE p.requested = NoBlock        -> Punish(p, 20)     \* nonExpectedMessage
    [] p.requested \notin {NoBlock, b} -> Punish(p, 30)  \* invalidMessage
    [] p.requested = b /\ Len(b) = 1 -> Punish(r, 40)    \* differentGenesis
    [] p.requested = b /\ Len(b) > 1 ->
         IF FindBlock(n, Parent(b)) THEN [r EXCEPT !.blocks = <<>>] ELSE Request(r, Parent(b))

\* the sync blocks are applied when the parent of the expected block is known
Applies(p, n, b) == p.requested = b /\ Len(b) > 1 /\ FindBlock(n, Parent(b))

-----------------------------------------------------------------------------
(* Peer::process and the handlers *)

Takes(e, type) ==
  /\ peer[e].status \in {"open", "ending"}
  /\ inbox[e] # <<>> /\ Head(inbox[e]).type = type

Arg(e) == Head(inbox[e]).arg
SetPeer(e, p) == peer' = [peer EXCEPT ![e] = p]

\* the table is full or has this node already: cannotAddToPool and CannotAccept
RefusePeer(e, words) ==
  LET p == EndSession([peer[e] EXCEPT !.rating = @ - 10]) IN
  /\ SetPeer(e, p) /\ ratings' = StoreRating(e, p.rating)
  /\ Answer(e, words \o <<Msg("CannotAccept", AllPeersInfo(Here(e)))>>)

\* One step: that another thread broadcasts between tryAddToPool and the answer, so that
\* its NewBlock comes before Accepted, is left out.
HandleConnect(e) ==
  LET p == TopReceived([peer[e] EXCEPT !.pool = "handshaked"], Here(e), Arg(e)) IN
  /\ Takes(e, "Connect")
  /\ \/ /\ CanAddToPool(e)
        /\ SetPeer(e, p) /\ ratings' = ratings
        /\ Answer(e, <<Msg("Accepted", chain[Here(e)]), Msg("Lookup", NoBlock)>> \o Asks(p))
     \/ ~CanAddToPool(e) /\ RefusePeer(e, <<>>)
  /\ UNCHANGED <<chain, mined, todo, dialVars>>

\* Mutant: the peer is refused without a word.
HandleAccepted_Silent(e) ==
  LET p == TopReceived([peer[e] EXCEPT !.pool = "handshaked"], Here(e), Arg(e)) IN
  /\ Takes(e, "Accepted")
  /\ \/ CanAddToPool(e) /\ SetPeer(e, p) /\ Answer(e, <<Msg("Lookup", NoBlock)>> \o Asks(p))
     \/ ~CanAddToPool(e) /\ SetPeer(e, [peer[e] EXCEPT !.pool = "none"]) /\ Answer(e, <<>>)
  /\ UNCHANGED <<chain, mined, todo, ratings, dialVars>>

HandleAccepted(e) ==
  LET p == TopReceived([peer[e] EXCEPT !.pool = "handshaked"], Here(e), Arg(e)) IN
  /\ Takes(e, "Accepted")
  /\ \/ /\ CanAddToPool(e)
        /\ SetPeer(e, p) /\ ratings' = ratings
        /\ Answer(e, <<Msg("Lookup", NoBlock)>> \o Asks(p))
     \/ ~CanAddToPool(e) /\ RefusePeer(e, <<Msg("Lookup", NoBlock)>>)
  /\ UNCHANGED <<chain, mined, todo, dialVars>>

\* connectionRefused; the session is closed by the other side
HandleCannotAccept(e) ==
  LET p == [peer[e] EXCEPT !.rating = -InitialRating - 10]
      rated == StoreRating(e, p.rating)
  IN
  /\ Takes(e, "CannotAccept")
  /\ SetPeer(e, p) /\ ratings' = rated
  /\ CheckOutPeers(Here(e), {m \in Arg(e) : rated[Here(e)][m] > 0}, rated)
  /\ Answer(e, <<>>)
  /\ UNCHANGED <<chain, mined, todo>>

HandleLookup(e) ==
  /\ Takes(e, "Lookup")
  /\ Answer(e, <<Msg("LookupResponse", AllPeersInfo(Here(e)))>>)
  /\ UNCHANGED <<chain, mined, todo, ratings, peer, dialVars>>

HandleLookupResponse(e) ==
  /\ Takes(e, "LookupResponse")
  /\ CheckOutPeers(Here(e), {m \in Arg(e) : ratings[Here(e)][m] > 0}, ratings)
  /\ Answer(e, <<>>)
  /\ UNCHANGED <<chain, mined, todo, ratings, peer>>

\* Mutant: only the top block is found.
HandleGetBlock_OnlyTop(e) ==
  /\ Takes(e, "GetBlock")
  /\ Answer(e, <<Msg(IF chain[Here(e)] = Arg(e) THEN "Block" ELSE "BlockNotFound", Arg(e))>>)
  /\ UNCHANGED <<chain, mined, todo, ratings, peer, dialVars>>

\* BlockNotFound would only be logged, so that the request it answers stays open;
\* RequestsCanBeAnswered says that it is never sent
HandleGetBlock(e) ==
  /\ Takes(e, "GetBlock")
  /\ Answer(e, <<Msg(IF FindBlock(Here(e), Arg(e)) THEN "Block" ELSE "BlockNotFound", Arg(e))>>)
  /\ UNCHANGED <<chain, mined, todo, ratings, peer, dialVars>>

HandleBlock(e) ==
  LET n == Here(e)
      p == BlockReceived(peer[e], n, Arg(e))
  IN
  /\ Takes(e, "Block")
  /\ SetPeer(e, p)
  /\ chain' = IF Applies(peer[e], n, Arg(e))
              THEN [chain EXCEPT ![n] = ApplySyncBlocks(@, Append(peer[e].blocks, Arg(e)))]
              ELSE chain
  /\ ratings' = IF p.rating = peer[e].rating THEN ratings ELSE StoreRating(e, p.rating)
  /\ Answer(e, IF p.status = "ending" THEN LastWords(p) ELSE Asks(p))
  /\ UNCHANGED <<mined, todo, dialVars>>

\* handleReceivedNewBlock: added, or kept for the end of the download under way
HandleNewBlock(e) ==
  LET n == Here(e)
      b == Arg(e)
  IN
  /\ Takes(e, "NewBlock")
  /\ chain' = [chain EXCEPT ![n] = AddBlock(@, b)]
  /\ SetPeer(e, IF Extends(chain[n], b) \/ peer[e].requested = NoBlock THEN peer[e]
                ELSE [peer[e] EXCEPT !.blocks = <<b>> \o @])
  /\ Answer(e, <<>>)
  /\ UNCHANGED <<mined, todo, ratings, dialVars>>

\* a Close message, or the end of the connection
HandleClose(e) ==
  /\ Takes(e, "Close") \/ Takes(e, "Eof")
  /\ CloseEnd(e)
  /\ UNCHANGED <<chain, mined, todo, ratings, dialVars>>

-----------------------------------------------------------------------------
(* Mining *)

Mine(n) ==
  /\ mined[n] = NoBlock /\ Len(chain[n]) < MaxHeight[n]
  /\ chain' = [chain EXCEPT ![n] = Append(@, n)]
  /\ mined' = [mined EXCEPT ![n] = Append(chain[n], n)]
  /\ UNCHANGED <<todo, connecting, ratings, link, peer, inbox>>

\* Host::broadcastNewBlock, after the locks of the chain are given back
BroadcastNewBlock(n) ==
  /\ mined[n] # NoBlock
  /\ mined' = [mined EXCEPT ![n] = NoBlock]
  /\ inbox' = [e \in End |-> IF Other(e) \in Handshaked(n) /\ Reaches(Other(e))
                             THEN Append(inbox[e], Msg("NewBlock", mined[n])) ELSE inbox[e]]
  /\ UNCHANGED <<chain, todo, connecting, ratings, link, peer>>

-----------------------------------------------------------------------------
Handle(e) ==
  \/ HandleConnect(e) \/ HandleAccepted(e) \/ HandleCannotAccept(e)
  \/ HandleLookup(e) \/ HandleLookupResponse(e)
  \/ HandleGetBlock(e) \/ HandleBlock(e) \/ HandleNewBlock(e)
  \/ HandleClose(e)

\* what the network thread of a node runs
NetworkThread(n) ==
  \/ \E e \in EndsOf(n) : Handle(e) \/ CloseAfterLastMessage(e)
  \/ \E s \in {t \in Session : t[1] = n} : OnConnect(s) \/ ConnectFails(s)
  \/ \E s \in {t \in Session : t[2] = n} : OnAccept(s)

Next ==
  \/ \E n \in Node :
       NetworkThread(n) \/ Mine(n) \/ BroadcastNewBlock(n) \/ \E m \in Node : Bootstrap(n, m)
  \/ \E e \in End : Break(e)

Spec == Init /\ [][Next]_vars

\* The network thread of every node runs as long as there is something to do:
\* messages that arrived, connections to accept, dials, writes.  Nothing makes
\* links break, nonces turn up or the seeds be dialled.
Fairness == \A n \in Node : WF_vars(NetworkThread(n))

FairSpec == Spec /\ Fairness

-----------------------------------------------------------------------------
Statuses == {"none", "open", "ending", "refusing", "deaf", "closed"}
Asked(e) == peer[e].requested # NoBlock

PeerObjects ==
  [status : Statuses, pool : {"none", "new", "handshaked"}, requested : Chains \cup {NoBlock},
   blocks : Seq(Chains), goal : Chains \cup {NoBlock}, rating : Int]
Messages ==
  [type : {"Connect", "Accepted", "GetBlock", "Block", "BlockNotFound", "NewBlock"}, arg : Chains]
  \cup [type : {"CannotAccept", "LookupResponse"}, arg : SUBSET Node]
  \cup [type : {"Lookup", "Close", "Eof", "Lost"}, arg : {NoBlock}]

\* The values each variable ranges over: every block asked for, kept or sent is one,
\* and a request goes down from its goal.
TypeOK ==
  /\ chain \in [Node -> Chains] /\ mined \in [Node -> Chains \cup {NoBlock}]
  /\ todo \in [Node -> SUBSET Node] /\ connecting \in [Node -> SUBSET Node]
  /\ ratings \in [Node -> [Node -> Int]]
  /\ link \in [Session -> {"idle", "dialing", "failed"}]
  /\ peer \in [End -> PeerObjects] /\ inbox \in [End -> Seq(Messages)]
  /\ \A n \in Node : mined[n] = NoBlock \/ IsPrefix(mined[n], chain[n])
  /\ \A e \in End : Len(peer[e].requested) <= Len(peer[e].goal)

Quiet(s) == \A n \in {s[1], s[2]} :
  inbox[<<n, s>>] = <<>> /\ peer[<<n, s>>].status \notin {"ending", "refusing"}

\* Once nothing is on its way in a session its two ends agree whether it is in
\* use: nobody announces blocks to a node that has refused or forgotten it.
PoolsAgree ==
  \A e \in End : Quiet(e[2]) =>
    (peer[e].pool = "handshaked" <=> peer[Other(e)].pool = "handshaked")

\* A node asks a peer only for blocks that the peer has, so that the answer
\* BlockNotFound, after which the request would stay open for ever, is never given,
\* and "block was already requested and not answered yet" is never raised.
RequestsCanBeAnswered ==
  \A e \in End :
    /\ Asked(e) => FindBlock(There(e), peer[e].requested)
    /\ peer[e].status # "deaf"

\* While a download is under way the block asked for is the parent of the block
\* that is applied first, whatever was announced meanwhile.
DownloadIsConnected ==
  \A e \in End : Asked(e) /\ peer[e].blocks # <<>> /\ peer[e].requested # peer[e].goal =>
    Parent(Last(peer[e].blocks)) = peer[e].requested

Behind(n, b) == IsStrictPrefix(chain[n], b)

EndsBelowGoal(e) ==
  peer[e].goal # NoBlock /\ ~Asked(e) /\ peer[e].status \in {"open", "ending"} /\ Behind(Here(e), peer[e].goal)

\* A download never ends with the node still below the block it was to reach, on
\* the same branch: all blocks that were fetched are applied.
DownloadDelivers == \A e \in End : ~EndsBelowGoal(e)

\* neither node of the session of e has ever had another one
OnlySession(e) ==
  \A f \in End : f[2] # e[2] /\ Here(f) \in {Here(e), There(e)} => peer[f].status = "none"

\* With one source this is so, whatever is mined and announced before, during and
\* after the download, on either side.
OneSourceDelivers == \A e \in End : OnlySession(e) => ~EndsBelowGoal(e)

Busy(s) == \E n \in {s[1], s[2]} : peer[<<n, s>>].pool = "new" \/ Asked(<<n, s>>)
Unread(s) == \E n \in {s[1], s[2]} : Lost \in ToSet(inbox[<<n, s>>])

\* Every session settles that both ends go on reading: a connection becomes a peer or
\* is closed, and the downloads of both ends end, with their blocks or with the
\* session, although a request has no timeout and BlockNotFound no effect.  When a
\* reader has stopped and left its session open nothing ends a handshake or a download.
SessionsSettle == \A s \in Session : Busy(s) ~> (~Busy(s) \/ Unread(s))
=============================================================================
