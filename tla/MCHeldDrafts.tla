--------------------------- MODULE MCHeldDrafts ---------------------------
(***************************************************************************)
(* Instances of HeldDrafts for TLC: all drafts are for one channel.        *)
(***************************************************************************)
EXTENDS HeldDrafts

CONSTANTS d1, d2, g1, r1, r2

MCChannelOf == [d \in Drafts |-> g1]
=============================================================================
