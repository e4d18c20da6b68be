------------------------------- MODULE MCHost -------------------------------
(***************************************************************************)
(* Addresses of two bytes.  The nodes r1, r2 and r3 belong to one bucket   *)
(* of the second byte, so that a bucket of two peers is contended; mirror  *)
(* is this node itself, reached through another endpoint.                  *)
(***************************************************************************)
EXTENDS Host

CONSTANTS r1, r2, r3, mirror

MCAddressOf == r1 :> <<5, 128>> @@ r2 :> <<5, 134>> @@ r3 :> <<5, 140>> @@ mirror :> <<5, 160>>
MCHostAddress == <<5, 160>>

\* Peer objects are told apart by what they hold only.  The nodes r2 and r3 do the
\* same, and their addresses differ behind the bit that chooses the bucket.
Symmetry == Permutations(PeerId) \cup Permutations({r2, r3})
=============================================================================
