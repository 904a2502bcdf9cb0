---------------------------- MODULE MCGhostChain ----------------------------
(* Blocks: two signers that each can stake once, with the history           *)
(* variables.                                                               *)
EXTENDS GhostRefinement, GhostHistory

MCInitialFree == <<3, 0, 3>>
=============================================================================
