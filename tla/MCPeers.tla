------------------------------ MODULE MCPeers -------------------------------
(***************************************************************************)
(* Node b is two blocks above the genesis block g.  Node a starts with g,  *)
(* on a fork of its own, or with another genesis block.  With a third node *)
(* c, one block above g, a has two peers to download from.                 *)
(***************************************************************************)
EXTENDS Peers

MutualSessions == {<<"a", "b", 1>>, <<"b", "a", 1>>}
OneFragile == {<<"a", "b", 1>>}
MutualChains == {[a |-> top, b |-> <<"g", "b", "b">>] : top \in {<<"g">>, <<"g", "a">>, <<"x">>}}

TwoSources == {<<"a", "b", 1>>, <<"a", "c", 1>>}
TwoSourcesChains == {[a |-> <<"g">>, b |-> <<"g", "b", "b">>, c |-> <<"g", "b">>]}

MCSeeds == [n \in Node |-> {s[2] : s \in {t \in Session : t[1] = n}}]
OneMore == [n \in Node |-> IF n = "b" THEN 4 ELSE 0]
NoMining == [n \in Node |-> 0]
=============================================================================
