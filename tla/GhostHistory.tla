---------------------------- MODULE GhostHistory ----------------------------
(***************************************************************************)
(* GhostConsensus with history variables, for properties that relate a step *)
(* to what happened in earlier host blocks.  The history never influences   *)
(* the pallet.                                                              *)
(***************************************************************************)
EXTENDS GhostConsensus

VARIABLES
    lastSeen,   \* host block in which an account last mined or validated
    paid        \* how often each Ghost block has been rewarded

history == <<lastSeen, paid>>

HInit == Init /\ lastSeen = EmptyMap /\ paid = [n \in 0..MaxBlocks |-> 0]

HSubmit(miner, header) ==
    /\ SubmitBlock(miner, header)
    /\ lastSeen' = Insert(lastSeen, miner, now)
    /\ UNCHANGED paid

HValidate(validator, n, random, signature) ==
    /\ ValidateBlock(validator, n, random, signature)
    /\ lastSeen' = Insert(lastSeen, validator, now)
    /\ paid' = [paid EXCEPT ![n] = @ + 1]

HNext ==
    \/ \E a \in Signers, n \in 1..MaxBlocks :
          \E header \in SubmittableHeaders(n) : HSubmit(a, header)
    \/ \E a \in Signers, n \in 0..MaxBlocks, r \in Seeds, s \in Keys \cup {BadSig} :
          HValidate(a, n, r, s)
    \/ Other /\ UNCHANGED history

HSpec == HInit /\ [][HNext]_<<vars, history>>

-----------------------------------------------------------------------------
(* The accounts that the downtime check of a step slashes.                  *)
SlashedNow ==
    {a \in Accounts : \E r \in SlashingRecords' \ SlashingRecords : r[1] = a}

(* No validator that has been silent for too long escapes: whoever was      *)
(* active once, has a stake entry and has neither mined nor validated       *)
(* during the last MaxDowntimeBlocks host blocks is slashed by the next     *)
(* check_downtime_slashing.  LastActiveBlock holds Ghost block numbers, so  *)
(* this rests on the Ghost chain never being ahead of the host chain.       *)
SilentAreSlashed ==
    [][now' > now /\ now' % SlashInterval = 0 =>
          \A a \in DOMAIN lastSeen \cap DOMAIN ValidatorStakes :
              now' - lastSeen[a] > MaxDowntimeBlocks => a \in SlashedNow]_vars

(* "Maximum downtime blocks before slashing" (Config, lib.rs): a validator  *)
(* that mined or validated during the last MaxDowntimeBlocks host blocks is *)
(* not slashed for downtime.                                                *)
ActiveAreNotSlashed ==
    [][\A a \in SlashedNow : now' - lastSeen[a] > MaxDowntimeBlocks]_vars

(* "10 Ghost tokens per block" (runtime configuration): the reward of a     *)
(* Ghost block is paid at most once.                                        *)
RewardedOnce == \A n \in DOMAIN paid : paid[n] <= 1
=============================================================================
