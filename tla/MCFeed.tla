------------------------------- MODULE MCFeed --------------------------------
(***************************************************************************)
(* Feed with a queue of two frames: a snapshot can wait behind one frame   *)
(* and be dropped by the next ones.                                        *)
(***************************************************************************)
EXTENDS Feed
=============================================================================
