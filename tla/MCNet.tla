------------------------------- MODULE MCNet --------------------------------
(***************************************************************************)
(* Two threads send a short message, one that fills the buffer, one that   *)
(* is longer than the buffer, one whose length does not fit the length     *)
(* field, and the message whose callback closes the session.               *)
(***************************************************************************)
EXTENDS Net

MCSizes == [short |-> 1, full |-> 2, long |-> 3, huge |-> 5, last |-> 1]
MCSize == [m \in Message |-> MCSizes[m]]
=============================================================================
