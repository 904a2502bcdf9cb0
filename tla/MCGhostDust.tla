---------------------------- MODULE MCGhostDust -----------------------------
(* Escrow dust: an existential deposit that amounts can fall below, as in   *)
(* the runtime.                                                             *)
EXTENDS GhostConsensus

MCInitialFree == <<5, 0, 4>>
=============================================================================
