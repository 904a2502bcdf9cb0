--------------------------- MODULE GhostConsensus ---------------------------
(***************************************************************************)
(* pallet-ghost-consensus: its storage, its six dispatchables and its two   *)
(* block hooks, on top of the balances ledger it moves funds in.            *)
(*                                                                          *)
(* A block of the host chain is OnInitialize, any number of extrinsics, and *)
(* OnFinalize.  FRAME runs a dispatchable in a storage transaction, so one  *)
(* that returns Err changes nothing: a failing call is a stuttering step    *)
(* and an action below is a call that returns Ok, its guards being the      *)
(* ensure!s of the code in their order.                                     *)
(*                                                                          *)
(* Abstractions.  A storage map is a function on the keys it contains.      *)
(* BLAKE2 is symbolic and injective (hash_of).  The double hash of a        *)
(* header's roots and nonce is a number the submitter picks (field pow).    *)
(* The selection seed hashes the block number, so each call may meet any    *)
(* seed; since at most one validation succeeds per host block, and a failed *)
(* one stutters, choosing it per call is exact.  A Dilithium signature over *)
(* the right message is named by its key pair, any other one is BadSig.     *)
(* Fees, events and weights are left out.                                   *)
(***************************************************************************)
EXTENDS GhostFunctions, Balances

CONSTANTS
    Escrow,                 \* the pallet's own account (PalletId)
    BlockReward,
    MinStake,
    MaxDowntimeBlocks,
    DoubleSignSlashPercentage,
    InvalidBlockSlashPercentage,
    DowntimeSlashPercentage,
    PqcRequired,            \* BOOLEAN
    Std,                    \* TRUE: native build with the Dilithium verifier
    SlashInterval,          \* 10 in the code
    AdjustInterval,         \* 100 in the code
    RecentWindow,           \* 100 in the code
    Seeded,                 \* TRUE: a genesis header has been inserted
    InitialDifficulty,      \* 0 unless the storage was seeded
    InitialFree,            \* balances of the genesis block
    \* The inputs that callers choose from, and the bound of a run:
    Amounts, Transfers,     \* amounts staked or unstaked, and transferred
    Pows, Difficulties,     \* of submitted headers
    Forgeries,              \* accounts whose signature a miner presets
    Seeds, Keys,            \* selection seeds and Dilithium key pairs
    Reports,                \* slashing reasons that are reported
    MaxBlocks               \* host blocks in a run

Signers == Accounts \ {Escrow}    \* no one holds a key of the escrow account

SlashingReasons == {"DoubleSigning", "InvalidBlock", "Downtime", "Other"}

BadSig == "bad"      \* a signature no registered key verifies

ASSUME ConfigAssumption ==
    /\ Escrow \in Accounts
    /\ BlockReward \in Nat /\ MinStake \in Nat \ {0}
    /\ MaxDowntimeBlocks \in Nat
    /\ DoubleSignSlashPercentage \in Nat
    /\ InvalidBlockSlashPercentage \in Nat
    /\ DowntimeSlashPercentage \in Nat
    /\ PqcRequired \in BOOLEAN /\ Std \in BOOLEAN /\ Seeded \in BOOLEAN
    /\ SlashInterval \in Nat \ {0} /\ AdjustInterval \in Nat \ {0}
    /\ RecentWindow \in 1..MaxCount

ASSUME InputAssumption ==
    /\ InitialDifficulty \in 0..MaxU64
    /\ InitialFree \in [Accounts -> Nat]
    /\ InitialFree[Escrow] = 0
    /\ Amounts \subseteq Nat /\ Transfers \subseteq Nat
    /\ Pows \subseteq Nat /\ Difficulties \subseteq 0..MaxU64
    /\ Seeds \subseteq Nat /\ BadSig \notin Keys
    /\ Forgeries \subseteq Accounts /\ Reports \subseteq SlashingReasons
    /\ MaxBlocks \in Nat

VARIABLES
    free,                   \* pallet_balances: free balance of each account
    Difficulty, CurrentPhase, BlockHeaders, BlockProducers,
    ValidatorStakes, LastActiveBlock,
    DoubleSignReports, InvalidBlockReports,   \* the keys whose flag is true
    SlashingRecords,        \* set of <<validator, amount, block>>
    ValidatorPqcPublicKeys, RecentBlockProducers, CurrentEntropy,
    now,                    \* number of the current host block
    stage                   \* "open" between the two hooks, else "closed"

mining   == <<BlockHeaders, BlockProducers, RecentBlockProducers>>
staking  == <<ValidatorStakes, LastActiveBlock>>
reports  == <<DoubleSignReports, InvalidBlockReports, SlashingRecords>>
retarget == <<Difficulty, CurrentEntropy>>
block    == <<now, stage>>

vars == <<free, CurrentPhase, ValidatorPqcPublicKeys,
          mining, staking, reports, retarget, block>>

-----------------------------------------------------------------------------
EmptyMap == [k \in {} |-> 0]

Insert(map, key, value) ==
    [k \in DOMAIN map \cup {key} |-> IF k = key THEN value ELSE map[k]]

ValueOr(map, key, default) == IF key \in DOMAIN map THEN map[key] ELSE default

Absent  == <<>>          \* Option::None
Some(x) == <<x>>

hash_of(x) == <<"BlakeTwo256", x>>
ZeroHash   == <<"zero">>

GenesisHeader ==
    [number |-> 0, parent_hash |-> ZeroHash, pow |-> 0,
     difficulty |-> InitialDifficulty,
     validator_signature |-> Absent, pqc_signature |-> Absent]

Init ==
    /\ free = InitialFree
    /\ Difficulty = InitialDifficulty
    /\ CurrentPhase = "PowMining"
    /\ BlockHeaders = IF Seeded THEN [n \in {0} |-> GenesisHeader] ELSE EmptyMap
    /\ BlockProducers = EmptyMap
    /\ ValidatorStakes = EmptyMap
    /\ LastActiveBlock = EmptyMap
    /\ DoubleSignReports = {} /\ InvalidBlockReports = {}
    /\ SlashingRecords = {}
    /\ ValidatorPqcPublicKeys = EmptyMap
    /\ RecentBlockProducers = <<>>
    /\ CurrentEntropy = 0
    /\ now = 0 /\ stage = "closed"

(* The stake of every account, 0 where the map has no entry, and the u64    *)
(* weights (saturated_into) that selection works with.                      *)
Stakes  == [a \in Accounts |-> ValueOr(ValidatorStakes, a, 0)]
Weights == [a \in Accounts |-> AtMost(Stakes[a], MaxU64)]

-----------------------------------------------------------------------------
(* submit_block *)

validate_block_header(header, parent) ==
    /\ header.number = parent.number + 1
    /\ header.parent_hash = hash_of(parent)
    /\ verify_pow_enhanced(header, header.difficulty)
    /\ header.difficulty >= Difficulty \div 2
    /\ header.difficulty <= saturating_mul(Difficulty, 2)

\* Mutant: a header whose parent is not stored is taken unchecked.
extends_if_known(header) ==
    /\ header.number > 0
    /\ header.number - 1 \in DOMAIN BlockHeaders =>
          validate_block_header(header, BlockHeaders[header.number - 1])

(* What submit_block checks of a header against its stored parent.          *)
extends_chain(header) ==
    /\ header.number > 0
    /\ header.number - 1 \in DOMAIN BlockHeaders
    /\ validate_block_header(header, BlockHeaders[header.number - 1])

push_recent(miner) ==
    Append(IF Len(RecentBlockProducers) >= RecentWindow
           THEN Tail(RecentBlockProducers) ELSE RecentBlockProducers, miner)

\* Mutant: the phase stays PowMining, so a block can take in several headers.
SubmitKeepsPhase(miner, header) ==
    /\ stage = "open"
    /\ CurrentPhase = "PowMining"
    /\ extends_chain(header)
    /\ BlockHeaders' = Insert(BlockHeaders, header.number, header)
    /\ BlockProducers' = Insert(BlockProducers, header.number, miner)
    /\ RecentBlockProducers' = push_recent(miner)
    /\ LastActiveBlock' = Insert(LastActiveBlock, miner, header.number)
    /\ UNCHANGED <<free, CurrentPhase, ValidatorStakes, ValidatorPqcPublicKeys,
                   reports, retarget, block>>

SubmitBlock(miner, header) ==
    /\ stage = "open"
    /\ CurrentPhase = "PowMining"
    /\ extends_chain(header)
    /\ BlockHeaders' = Insert(BlockHeaders, header.number, header)
    /\ BlockProducers' = Insert(BlockProducers, header.number, miner)
    /\ RecentBlockProducers' = push_recent(miner)
    /\ LastActiveBlock' = Insert(LastActiveBlock, miner, header.number)
    /\ CurrentPhase' = "PosValidation"
    /\ UNCHANGED <<free, ValidatorStakes, ValidatorPqcPublicKeys,
                   reports, retarget, block>>

(* The headers callers may submit.  The signature fields are part of the    *)
(* call's argument, so a submitter may fill them in.                        *)
PresetSignatures(n) ==
    {Absent} \cup {Some(hash_of(<<a, n>>)) : a \in Forgeries}

SubmittableHeaders(n) ==
    [number : {n},
     parent_hash : {ZeroHash} \cup {hash_of(BlockHeaders[m]) : m \in DOMAIN BlockHeaders},
     pow : Pows, difficulty : Difficulties,
     validator_signature : PresetSignatures(n),
     pqc_signature : {Absent} \cup {Some(BadSig) : a \in Forgeries}]

-----------------------------------------------------------------------------
(* stake, unstake *)

\* Mutant: the stake is recorded without moving the funds to the escrow.
StakeUnfunded(staker, amount) ==
    /\ stage = "open"
    /\ amount >= MinStake
    /\ ValidatorStakes' = Insert(ValidatorStakes, staker, Stakes[staker] + amount)
    /\ UNCHANGED <<free, CurrentPhase, ValidatorPqcPublicKeys, LastActiveBlock,
                   mining, reports, retarget, block>>

Stake(staker, amount) ==
    /\ stage = "open"
    /\ amount >= MinStake
    /\ CanTransfer(free, staker, Escrow, amount, TRUE)
    /\ free' = AfterTransfer(free, staker, Escrow, amount)
    /\ ValidatorStakes' = Insert(ValidatorStakes, staker, Stakes[staker] + amount)
    /\ UNCHANGED <<CurrentPhase, ValidatorPqcPublicKeys, LastActiveBlock,
                   mining, reports, retarget, block>>

\* Mutant: the amount is not compared with the stake.
UnstakeUnchecked(staker, amount) ==
    /\ stage = "open"
    /\ staker \in DOMAIN ValidatorStakes
    /\ ValidatorStakes' = Insert(ValidatorStakes, staker,
                                 ValidatorStakes[staker] - amount)
    /\ CanTransfer(free, Escrow, staker, amount, FALSE)
    /\ free' = AfterTransfer(free, Escrow, staker, amount)
    /\ UNCHANGED <<CurrentPhase, ValidatorPqcPublicKeys, LastActiveBlock,
                   mining, reports, retarget, block>>

\* Mutant: the stake is paid out and not reduced.
UnstakeUnrecorded(staker, amount) ==
    /\ stage = "open"
    /\ staker \in DOMAIN ValidatorStakes
    /\ ValidatorStakes[staker] >= amount
    /\ CanTransfer(free, Escrow, staker, amount, FALSE)
    /\ free' = AfterTransfer(free, Escrow, staker, amount)
    /\ UNCHANGED <<CurrentPhase, ValidatorPqcPublicKeys, LastActiveBlock,
                   ValidatorStakes, mining, reports, retarget, block>>

Unstake(staker, amount) ==
    /\ stage = "open"
    /\ staker \in DOMAIN ValidatorStakes
    /\ ValidatorStakes[staker] >= amount
    /\ ValidatorStakes' = Insert(ValidatorStakes, staker,
                                 ValidatorStakes[staker] - amount)
    /\ CanTransfer(free, Escrow, staker, amount, FALSE)
    /\ free' = AfterTransfer(free, Escrow, staker, amount)
    /\ UNCHANGED <<CurrentPhase, ValidatorPqcPublicKeys, LastActiveBlock,
                   mining, reports, retarget, block>>

-----------------------------------------------------------------------------
(* validate_block *)

\* Mutant: the signature is not compared with the key.
verify_presence(signature, public_key) == Std

verify_pqc_signature(signature, public_key) == Std /\ signature = public_key

distribute_rewards(ledger, miner, stakes, reward) ==
    [a \in Accounts |->
        deposit_creating(
            deposit_creating(ledger[a],
                             IF a = miner THEN reward.miner_reward ELSE 0),
            staker_reward(reward.stakers_reward, stakes, a))]

ValidateBlock(validator, n, random, signature) ==
    /\ stage = "open"
    /\ validator \in DOMAIN ValidatorStakes
    /\ n \in DOMAIN BlockHeaders
    /\ CurrentPhase = "PosValidation"
    /\ select_pos_validator(Weights, random) = validator
    /\ PqcRequired =>
          /\ validator \in DOMAIN ValidatorPqcPublicKeys
          /\ verify_pqc_signature(signature, ValidatorPqcPublicKeys[validator])
    /\ BlockHeaders' =
          Insert(BlockHeaders, n,
                 [BlockHeaders[n] EXCEPT
                     !.validator_signature = Some(hash_of(<<validator, n>>)),
                     !.pqc_signature = Some(signature)])
    /\ n \in DOMAIN BlockProducers                 \* get_miner_for_block
    /\ free' = distribute_rewards(free, BlockProducers[n], Stakes,
                                  calculate_block_reward(BlockReward))
    /\ LastActiveBlock' = Insert(LastActiveBlock, validator, n)
    /\ CurrentPhase' = "Finalization"
    /\ UNCHANGED <<ValidatorStakes, ValidatorPqcPublicKeys, BlockProducers,
                   RecentBlockProducers, reports, retarget, block>>

-----------------------------------------------------------------------------
(* register_pqc_key, report_misbehavior *)

RegisterPqcKey(validator, public_key) ==
    /\ stage = "open"
    /\ ValidatorPqcPublicKeys' =
          Insert(ValidatorPqcPublicKeys, validator, public_key)
    /\ UNCHANGED <<free, CurrentPhase, mining, staking, reports, retarget, block>>

slash_percentage(reason) ==
    CASE reason = "DoubleSigning" -> DoubleSignSlashPercentage
      [] reason = "InvalidBlock"  -> InvalidBlockSlashPercentage
      [] reason = "Downtime"      -> DowntimeSlashPercentage
      [] reason = "Other"         -> 10

slash_amount(stake, percentage) == (stake * percentage) \div 100

ReportMisbehavior(validator, reason) ==
    /\ stage = "open"
    /\ DoubleSignReports' = DoubleSignReports \cup
          (IF reason = "DoubleSigning" THEN {validator} ELSE {})
    /\ InvalidBlockReports' = InvalidBlockReports \cup
          (IF reason = "InvalidBlock" THEN {validator} ELSE {})
    /\ LET stake == Stakes[validator]
       IN  ValidatorStakes' =
              Insert(ValidatorStakes, validator,
                     saturating_sub(stake, slash_amount(stake, slash_percentage(reason))))
    /\ UNCHANGED <<free, CurrentPhase, ValidatorPqcPublicKeys, LastActiveBlock,
                   SlashingRecords, mining, retarget, block>>

-----------------------------------------------------------------------------
(* on_initialize, on_finalize *)

\* Mutant: the limit itself is still tolerated.
OfflineTooLate(n) ==
    {a \in DOMAIN LastActiveBlock \cap DOMAIN ValidatorStakes :
        saturating_sub(n, LastActiveBlock[a]) > MaxDowntimeBlocks + 1}

(* The validators check_downtime_slashing slashes in host block n.          *)
Offline(n) ==
    {a \in DOMAIN LastActiveBlock \cap DOMAIN ValidatorStakes :
        saturating_sub(n, LastActiveBlock[a]) > MaxDowntimeBlocks}

downtime_slash(a) == slash_amount(ValidatorStakes[a], DowntimeSlashPercentage)

check_downtime_slashing(n) ==
    /\ ValidatorStakes' =
          [a \in DOMAIN ValidatorStakes |->
              IF a \in Offline(n)
              THEN saturating_sub(ValidatorStakes[a], downtime_slash(a))
              ELSE ValidatorStakes[a]]
    /\ SlashingRecords' =
          SlashingRecords \cup {<<a, downtime_slash(a), n>> : a \in Offline(n)}

(* The block times are the placeholders of the code.                        *)
adjust_difficulty ==
    /\ CurrentEntropy' = calculate_entropy(RecentBlockProducers)
    /\ Difficulty' = calculate_difficulty_adjustment(Difficulty, 5, 5, CurrentEntropy')

OnInitialize ==
    /\ stage = "closed" /\ now < MaxBlocks
    /\ stage' = "open" /\ now' = now + 1
    /\ IF (now + 1) % SlashInterval = 0
       THEN check_downtime_slashing(now + 1)
       ELSE UNCHANGED <<ValidatorStakes, SlashingRecords>>
    /\ IF (now + 1) % AdjustInterval = 0
       THEN adjust_difficulty
       ELSE UNCHANGED retarget
    /\ UNCHANGED <<free, CurrentPhase, ValidatorPqcPublicKeys, LastActiveBlock,
                   DoubleSignReports, InvalidBlockReports, mining>>

\* Mutant: every block starts with mining, also after an unvalidated one.
FinalizeAlways ==
    /\ stage = "open"
    /\ stage' = "closed"
    /\ CurrentPhase' = "PowMining"
    /\ UNCHANGED <<free, ValidatorPqcPublicKeys, now,
                   mining, staking, reports, retarget>>

OnFinalize ==
    /\ stage = "open"
    /\ stage' = "closed"
    /\ CurrentPhase' = IF CurrentPhase = "Finalization"
                       THEN "PowMining" ELSE CurrentPhase
    /\ UNCHANGED <<free, ValidatorPqcPublicKeys, now,
                   mining, staking, reports, retarget>>

-----------------------------------------------------------------------------
(* The other extrinsic that moves the same funds: a plain transfer.         *)
BalancesTransfer(src, dst, amount, keep_alive) ==
    /\ stage = "open"
    /\ CanTransfer(free, src, dst, amount, keep_alive)
    /\ free' = AfterTransfer(free, src, dst, amount)
    /\ UNCHANGED <<CurrentPhase, ValidatorPqcPublicKeys,
                   mining, staking, reports, retarget, block>>

Submit == \E a \in Signers, n \in 1..MaxBlocks :
             \E header \in SubmittableHeaders(n) : SubmitBlock(a, header)

Validate == \E a \in Signers, n \in 0..MaxBlocks, r \in Seeds,
               s \in Keys \cup {BadSig} : ValidateBlock(a, n, r, s)

Other ==
    \/ OnInitialize
    \/ OnFinalize
    \/ \E a \in Signers, amount \in Amounts : Stake(a, amount)
    \/ \E a \in Signers, amount \in Amounts : Unstake(a, amount)
    \/ \E a \in Signers, k \in Keys : RegisterPqcKey(a, k)
    \/ \E a \in Accounts, reason \in Reports : ReportMisbehavior(a, reason)
    \/ \E a \in Signers, b \in Accounts, amount \in Transfers, k \in BOOLEAN :
          BalancesTransfer(a, b, amount, k)

Next == Submit \/ Validate \/ Other

Spec == Init /\ [][Next]_vars

-----------------------------------------------------------------------------
(* Properties *)

Phases == {"PowMining", "PosValidation", "Finalization"}

IsHeader(h) ==
    DOMAIN h = {"number", "parent_hash", "pow", "difficulty",
                "validator_signature", "pqc_signature"}

(* Type correctness of the pallet's storage.  A stake, a balance and a      *)
(* difficulty never become negative or leave their range, whichever         *)
(* dispatchables and hooks (lib.rs) have run.                               *)
TypeOK ==
    /\ free \in [Accounts -> Nat]
    /\ Difficulty \in 0..MaxU64
    /\ CurrentPhase \in Phases
    /\ DOMAIN BlockHeaders \subseteq Nat
    /\ \A n \in DOMAIN BlockHeaders : IsHeader(BlockHeaders[n])
    /\ DOMAIN BlockProducers \subseteq Nat
    /\ BlockProducers \in [DOMAIN BlockProducers -> Signers]
    /\ DOMAIN ValidatorStakes \subseteq Accounts
    /\ ValidatorStakes \in [DOMAIN ValidatorStakes -> Nat]
    /\ DOMAIN LastActiveBlock \subseteq Signers
    /\ LastActiveBlock \in [DOMAIN LastActiveBlock -> Nat]
    /\ DoubleSignReports \subseteq Accounts
    /\ InvalidBlockReports \subseteq Accounts
    /\ SlashingRecords \subseteq Accounts \X Nat \X Nat
    /\ DOMAIN ValidatorPqcPublicKeys \subseteq Signers
    /\ ValidatorPqcPublicKeys \in [DOMAIN ValidatorPqcPublicKeys -> Keys]
    /\ RecentBlockProducers \in Seq(Signers)
    /\ Len(RecentBlockProducers) <= RecentWindow
    /\ CurrentEntropy \in Nat
    /\ now \in Nat
    /\ stage \in {"open", "closed"}

(* The stored chain is contiguous: header n sits at key n, every header but *)
(* the genesis one has a parent and a producer (so validate_block can always *)
(* find the miner to pay), and whoever was active was active at a stored    *)
(* block.  Resubmission of old numbers and re-validation preserve this.     *)
ChainContiguous ==
    /\ \A n \in DOMAIN BlockHeaders : /\ BlockHeaders[n].number = n
                                      /\ n > 0 => n - 1 \in DOMAIN BlockHeaders
    /\ DOMAIN BlockProducers = DOMAIN BlockHeaders \ {0}
    /\ \A a \in DOMAIN LastActiveBlock : LastActiveBlock[a] \in DOMAIN BlockProducers

(* The Ghost chain never outruns the host chain: at most one header per host *)
(* block gets in, because the phase only returns to PowMining in            *)
(* on_finalize.  So the saturating_sub of check_downtime_slashing never     *)
(* clips, and the height lags behind the clock it is compared with.         *)
HeightBehindClock ==
    \A n \in DOMAIN BlockHeaders :
        /\ n <= now
        /\ stage = "open" /\ CurrentPhase = "PowMining" => n < now

(* on_finalize leaves no block in the Finalization phase, so a block starts *)
(* either ready to mine or still waiting for a validator.                   *)
FinalizationEndsWithBlock == stage = "closed" => CurrentPhase # "Finalization"

(* The escrow account holds at least the sum of all stakes, whatever        *)
(* interleaving of stake, unstake, slashing, rewards and plain transfers    *)
(* has happened, if no positive balance is below the existential deposit    *)
(* (the pallet's mock runtime, where it is 1).                              *)
EscrowSolvent == ExistentialDeposit = 1 => SumOf(Stakes) <= free[Escrow]

(* The same with any existential deposit: `account_id` (lib.rs) is the      *)
(* account that escrows active validator stake.                             *)
EscrowHoldsStakes == SumOf(Stakes) <= free[Escrow]

(* Every validator can take out every part of its stake: no unstake within  *)
(* the stake fails in the transfer after the stake has been reduced.        *)
WithdrawalPossible ==
    ExistentialDeposit = 1 =>
        \A a \in DOMAIN ValidatorStakes : \A amount \in 0..ValidatorStakes[a] :
            CanTransfer(free, Escrow, a, amount, FALSE)

Surplus == free[Escrow] - SumOf(Stakes)

(* What a step may do to the escrow account: what it holds beyond the       *)
(* stakes never shrinks, except when an unstake leaves the account below    *)
(* the existential deposit and it is reaped with the dust.                  *)
SurplusShrinksByDustOnly ==
    [][\/ Surplus' >= Surplus
       \/ free'[Escrow] = 0 /\ Surplus - Surplus' < ExistentialDeposit]_vars

(* Money supply: validate_block mints at most one BlockReward per host      *)
(* block, rounding included, and nothing else mints.  Before this block's   *)
(* validation its reward has not been paid yet.                             *)
IssuanceCapped ==
    LET payable == IF stage = "open" /\ CurrentPhase # "Finalization"
                   THEN now - 1 ELSE now
    IN  SumOf(free) <= SumOf(InitialFree) + BlockReward * payable

(* A block reaches the Finalization phase only through an account that has  *)
(* stake at that moment (a zero or emptied stake entry is never selected),  *)
(* that signs a block with a known miner and, where PQC is required, whose  *)
(* signature verifies against the key it has registered.                    *)
ValidationIsBacked ==
    [][CurrentPhase = "PosValidation" /\ CurrentPhase' = "Finalization" =>
          \E v \in DOMAIN ValidatorStakes, n \in DOMAIN BlockProducers :
             /\ ValidatorStakes[v] > 0
             /\ v \in DOMAIN LastActiveBlock' /\ LastActiveBlock'[v] = n
             /\ BlockHeaders'[n].validator_signature = Some(hash_of(<<v, n>>))
             /\ PqcRequired =>
                   /\ Std
                   /\ v \in DOMAIN ValidatorPqcPublicKeys
                   /\ BlockHeaders'[n].pqc_signature
                         = Some(ValidatorPqcPublicKeys[v])]_vars

(* The draw of select_pos_validator over the stakes of the moment: as long  *)
(* as the u64 sum of the weights does not wrap, an account wins exactly as  *)
(* many of the possible random values as it has weight; and when it wraps   *)
(* to a positive total, every random value still selects somebody, so       *)
(* validate_block does not fail for want of a selection.                    *)
DrawIsSound ==
    LET total    == SumOf(Weights)
        chosen(r) == select_pos_validator(Weights, r)
    IN  /\ total <= MaxU64 =>
              \A a \in Accounts :
                 Cardinality({r \in 0..(total - 1) : chosen(r) = a}) = Weights[a]
        /\ wrapping(total) # 0 => \A r \in 0..wrapping(total) : chosen(r) # None

(* With the placeholder block times the proof-of-work target is a ratchet:  *)
(* adjust_difficulty can only make mining harder (the smallest target, 1,   *)
(* excepted).                                                               *)
DifficultyRatchet == [][Difficulty' <= AtLeast(Difficulty, 1)]_vars

(* The genesis presets store no header.  Then submit_block never finds a    *)
(* parent: no Ghost block is ever mined, validated or paid for, and nobody  *)
(* can be slashed for downtime.                                             *)
UnseededNeverMines ==
    ~Seeded => /\ DOMAIN BlockHeaders = {}
               /\ CurrentPhase = "PowMining"
               /\ DOMAIN LastActiveBlock = {}
               /\ SlashingRecords = {}

(* GhostPowApi documents the retarget of on_initialize as clamped to        *)
(* [prev/4, prev*4].                                                        *)
RetargetClamped ==
    [][Difficulty' # Difficulty =>
          /\ Difficulty' >= Difficulty \div 4
          /\ Difficulty' <= AtLeast(4 * Difficulty, 1)]_vars
=============================================================================
