----------------------------- MODULE MCRtreeCache -----------------------------
(***************************************************************************)
(* Instances of RtreeCache for TLC, with the constant sets of             *)
(* MCRtreeCursor.                                                          *)
(***************************************************************************)
EXTENDS MCRtreeCursor, RtreeCache

=============================================================================
