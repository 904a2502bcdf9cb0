--------------------------- MODULE MCGhostStaking ---------------------------
(* Money: two signers (1 and 3) with unequal funds and the escrow account 2 *)
(* in between them in iteration order.                                      *)
EXTENDS GhostConsensus

MCInitialFree == <<3, 0, 2>>
=============================================================================
