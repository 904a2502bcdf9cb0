----------------------------- MODULE GhostRound -----------------------------
(***************************************************************************)
(* What a round of Ghost consensus promises, without headers, balances,     *)
(* seeds or signatures: a block is mined, then somebody with stake puts the *)
(* stake behind it, and the end of the host block in which that happened    *)
(* opens the next round.  A mined block is never given up, and no block is  *)
(* passed over the validators.                                              *)
(***************************************************************************)
CONSTANT Validators

VARIABLES
    phase,      \* CurrentPhase
    stage,      \* "open" while a host block takes extrinsics
    backed      \* the validators that have stake

Init == phase = "PowMining" /\ stage = "closed" /\ backed = {}

Mine ==
    /\ stage = "open" /\ phase = "PowMining"
    /\ phase' = "PosValidation"
    /\ UNCHANGED <<stage, backed>>

Validate ==
    /\ stage = "open" /\ phase = "PosValidation" /\ backed # {}
    /\ phase' = "Finalization"
    /\ UNCHANGED <<stage, backed>>

(* One validator stakes, unstakes or is slashed.                            *)
Restake ==
    /\ stage = "open"
    /\ \E v \in Validators : backed' \in {backed \cup {v}, backed \ {v}}
    /\ UNCHANGED <<phase, stage>>

(* The start of a host block can slash any number of validators.            *)
Begin ==
    /\ stage = "closed" /\ phase # "Finalization"
    /\ stage' = "open"
    /\ backed' \in SUBSET backed
    /\ UNCHANGED phase

End ==
    /\ stage = "open" /\ stage' = "closed"
    /\ phase' = IF phase = "Finalization" THEN "PowMining" ELSE phase
    /\ UNCHANGED backed

Next == Mine \/ Validate \/ Restake \/ Begin \/ End

Spec == Init /\ [][Next]_<<phase, stage, backed>>
=============================================================================
