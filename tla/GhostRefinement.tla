-------------------------- MODULE GhostRefinement ---------------------------
(***************************************************************************)
(* The pallet implements the round: CurrentPhase is the phase, and the      *)
(* backed validators are those with a positive stake.  An emptied entry of  *)
(* ValidatorStakes, which the pallet keeps, is no backing.                  *)
(***************************************************************************)
EXTENDS GhostConsensus

Round == INSTANCE GhostRound WITH
            Validators <- Signers,
            phase      <- CurrentPhase,
            backed     <- {a \in Accounts : Stakes[a] > 0}

(* Every behaviour of the pallet (lib.rs) is a behaviour of the abstract    *)
(* round: whatever is submitted, staked, slashed or replaced, a mined block *)
(* leaves PosValidation only through a staked validator, and only           *)
(* on_finalize opens the next round.                                        *)
ImplementsRound == Round!Spec
=============================================================================
