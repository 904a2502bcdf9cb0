--------------------------- MODULE RoundProgress ----------------------------
(***************************************************************************)
(* The rounds of pallet-ghost-consensus over an unbounded host chain: the   *)
(* slice of GhostConsensus that decides whether a round comes to its end.   *)
(*                                                                          *)
(* Kept: the phase and its guards, the stakes with every operation that     *)
(* changes them, the draw of select_pos_validator, the PQC keys.  Left out: *)
(* header contents, balances and block numbers.  Whether a header extends   *)
(* the chain, a stake can be paid for, or a validator counts as offline is  *)
(* therefore a free choice here.                                            *)
(*                                                                          *)
(* The seed of the draw hashes the mined block's number with the host block *)
(* number: it stays the same within a host block and is drawn anew with the *)
(* next one.                                                                *)
(***************************************************************************)
EXTENDS GhostFunctions

CONSTANTS
    Amounts,                \* amounts staked or unstaked
    SlashPercentages,       \* of reports and of the downtime check
    PqcRequired, Std,       \* as in GhostConsensus
    Willing,                \* validators that validate whenever they are drawn
    Seeds,                  \* what the hash of a host block can select
    MaxChanges              \* number of stake and unstake calls

ASSUME ProgressAssumption ==
    /\ Amounts \subseteq Nat /\ SlashPercentages \subseteq 0..100
    /\ PqcRequired \in BOOLEAN /\ Std \in BOOLEAN
    /\ Willing \subseteq Accounts /\ Seeds \subseteq Nat
    /\ MaxChanges \in Nat

VARIABLES phase, stage, stakes, keyed, seed, changes

vars == <<phase, stage, stakes, keyed, seed, changes>>

Init ==
    /\ phase = "PowMining" /\ stage = "closed"
    /\ stakes = [a \in Accounts |-> 0]
    /\ keyed = {}
    /\ seed \in Seeds
    /\ changes = 0

Backed == {a \in Accounts : stakes[a] > 0}

Weights == [a \in Accounts |-> AtMost(stakes[a], MaxU64)]

CanSign(a) == PqcRequired => Std /\ a \in keyed

-----------------------------------------------------------------------------
SubmitBlock ==
    /\ stage = "open" /\ phase = "PowMining"
    /\ phase' = "PosValidation"
    /\ UNCHANGED <<stage, stakes, keyed, seed, changes>>

\* Mutant: the phase is not checked, so a round can skip mining.
ValidateUnphased(a) ==
    /\ stage = "open"
    /\ select_pos_validator(Weights, seed) = a
    /\ CanSign(a)
    /\ phase' = "Finalization"
    /\ UNCHANGED <<stage, stakes, keyed, seed, changes>>

ValidateBlock(a) ==
    /\ stage = "open" /\ phase = "PosValidation"
    /\ select_pos_validator(Weights, seed) = a
    /\ CanSign(a)
    /\ phase' = "Finalization"
    /\ UNCHANGED <<stage, stakes, keyed, seed, changes>>

Stake(a, amount) ==
    /\ stage = "open" /\ changes < MaxChanges
    /\ stakes' = [stakes EXCEPT ![a] = @ + amount]
    /\ changes' = changes + 1
    /\ UNCHANGED <<phase, stage, keyed, seed>>

Unstake(a, amount) ==
    /\ stage = "open" /\ changes < MaxChanges
    /\ stakes[a] >= amount
    /\ stakes' = [stakes EXCEPT ![a] = @ - amount]
    /\ changes' = changes + 1
    /\ UNCHANGED <<phase, stage, keyed, seed>>

RegisterPqcKey(a) ==
    /\ stage = "open"
    /\ keyed' = keyed \cup {a}
    /\ UNCHANGED <<phase, stage, stakes, seed, changes>>

slashed(stake, percentage) ==
    saturating_sub(stake, (stake * percentage) \div 100)

ReportMisbehavior(a, percentage) ==
    /\ stage = "open"
    /\ stakes' = [stakes EXCEPT ![a] = slashed(@, percentage)]
    /\ UNCHANGED <<phase, stage, keyed, seed, changes>>

\* Mutant: the draw depends on the mined block alone.
OnInitializeSameSeed(next_seed, offline, percentage) ==
    /\ stage = "closed" /\ stage' = "open"
    /\ seed' = IF phase = "PosValidation" THEN seed ELSE next_seed
    /\ stakes' = [a \in Accounts |-> IF a \in offline
                                     THEN slashed(stakes[a], percentage)
                                     ELSE stakes[a]]
    /\ UNCHANGED <<phase, keyed, changes>>

(* offline: whom the downtime check of this block slashes, if it runs.      *)
OnInitialize(next_seed, offline, percentage) ==
    /\ stage = "closed" /\ stage' = "open"
    /\ seed' = next_seed
    /\ stakes' = [a \in Accounts |-> IF a \in offline
                                     THEN slashed(stakes[a], percentage)
                                     ELSE stakes[a]]
    /\ UNCHANGED <<phase, keyed, changes>>

OnFinalize ==
    /\ stage = "open" /\ stage' = "closed"
    /\ phase' = IF phase = "Finalization" THEN "PowMining" ELSE phase
    /\ UNCHANGED <<stakes, keyed, seed, changes>>

Begin(next_seed) ==
    \E offline \in SUBSET Backed, p \in SlashPercentages :
        OnInitialize(next_seed, offline, p)

Next ==
    \/ SubmitBlock
    \/ \E a \in Accounts : ValidateBlock(a)
    \/ \E a \in Accounts, amount \in Amounts : Stake(a, amount)
    \/ \E a \in Accounts, amount \in Amounts : Unstake(a, amount)
    \/ \E a \in Accounts : RegisterPqcKey(a)
    \/ \E a \in Accounts, p \in SlashPercentages : ReportMisbehavior(a, p)
    \/ \E r \in Seeds : Begin(r)
    \/ OnFinalize

(* The host chain goes on.  Its block numbers run through the hash of the   *)
(* seed, so that no value of the draw stays away for ever.  A willing       *)
(* validator that is drawn again and again gets a call into one of the      *)
(* blocks.  Nothing is assumed of miners, stakers or reporters.             *)
Fairness ==
    /\ WF_vars(OnFinalize)
    /\ \A r \in Seeds : SF_vars(Begin(r))
    /\ \A a \in Willing : SF_vars(ValidateBlock(a))

Spec == Init /\ [][Next]_vars /\ Fairness

-----------------------------------------------------------------------------
(* The weights still fit a u64, as the sums of select_pos_validator need,   *)
(* and somebody who is willing to validate has stake and can sign.          *)
Healthy ==
    /\ SumOf(Weights) <= MaxU64
    /\ \E a \in Willing : stakes[a] > 0 /\ CanSign(a)

(* If from some point on the weights sum up without wrapping and a willing  *)
(* validator has stake and can sign, every round that waits in              *)
(* PosValidation (validate_block's phase check, lib.rs:343) comes to its    *)
(* end: no combination of emptied entries, slashes, draws of the unwilling  *)
(* and sums that wrapped for a while locks the willing out.                 *)
StakedRoundEnds ==
    <>[]Healthy => (phase = "PosValidation" ~> phase = "PowMining")

(* "Select PoS validator based on stake weight" (functions.rs:123): whoever *)
(* has stake is selected by some value of the seed.                         *)
EveryStakeCanWin ==
    \A a \in Backed : \E r \in 0..MaxU64 : select_pos_validator(Weights, r) = a

Round == INSTANCE GhostRound WITH Validators <- Accounts, backed <- Backed

(* The slice and the whole pallet implement the same abstract round, the    *)
(* phases of CurrentPhase in lib.rs.                                        *)
SliceImplementsRound == Round!Spec
=============================================================================
