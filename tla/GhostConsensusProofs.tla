------------------------ MODULE GhostConsensusProofs ------------------------
(***************************************************************************)
(* Safety of the pallet for every number of accounts, every configuration   *)
(* and every choice of inputs.                                              *)
(***************************************************************************)
EXTENDS GhostConsensus, GhostFunctionsProofs

-----------------------------------------------------------------------------
(* Storage maps *)

(* Inserting a key and a value of the map's types keeps the types.          *)
LEMMA InsertType ==
    ASSUME NEW D, NEW S, NEW m, DOMAIN m \subseteq D, m \in [DOMAIN m -> S],
           NEW k \in D, NEW v \in S
    PROVE  /\ DOMAIN Insert(m, k, v) \subseteq D
           /\ Insert(m, k, v) \in [DOMAIN Insert(m, k, v) -> S]
  BY DEF Insert

(* The same for the map of headers.                                         *)
LEMMA InsertHeader ==
    ASSUME NEW m, DOMAIN m \subseteq Nat, \A x \in DOMAIN m : IsHeader(m[x]),
           NEW k \in Nat, NEW h, IsHeader(h)
    PROVE  /\ DOMAIN Insert(m, k, h) \subseteq Nat
           /\ \A x \in DOMAIN Insert(m, k, h) : IsHeader(Insert(m, k, h)[x])
<1>1. \A x \in DOMAIN m \cup {k} : Insert(m, k, h)[x] = IF x = k THEN h ELSE m[x]
  BY DEF Insert
<1>2. DOMAIN Insert(m, k, h) = DOMAIN m \cup {k}
  BY DEF Insert
<1>3. \A x \in DOMAIN m \cup {k} : IsHeader(Insert(m, k, h)[x])
  BY <1>1
<1> QED
  BY <1>2, <1>3

(* Signing a header leaves a header with the same number.                   *)
LEMMA SignedHeader ==
    ASSUME NEW h, IsHeader(h), NEW sig, NEW pqc
    PROVE  LET signed == [h EXCEPT !.validator_signature = sig, !.pqc_signature = pqc]
           IN  IsHeader(signed) /\ signed.number = h.number
  BY DEF IsHeader

(* Stakes and weights are functions on all accounts.                        *)
LEMMA StakesType ==
    ASSUME TypeOK
    PROVE  Stakes \in [Accounts -> Nat] /\ Weights \in [Accounts -> Nat]
<1>1. Stakes \in [Accounts -> Nat]
  BY DEF TypeOK, Stakes, ValueOr
<1> QED
  BY <1>1, MaxU64Assumption DEF Weights, AtMost

-----------------------------------------------------------------------------
(* Balances *)

(* A transfer that the balances pallet admits leaves no negative balance.   *)
LEMMA TransferType ==
    ASSUME NEW ledger \in [Accounts -> Nat], NEW src \in Accounts,
           NEW dst \in Accounts, NEW value \in Nat, NEW keep \in BOOLEAN,
           CanTransfer(ledger, src, dst, value, keep)
    PROVE  AfterTransfer(ledger, src, dst, value) \in [Accounts -> Nat]
<1>1. CASE value = 0 \/ src = dst
  BY <1>1 DEF AfterTransfer
<1>2. CASE ~(value = 0 \/ src = dst)
  <2>1. ledger[src] - value \in Nat /\ ledger[dst] + value \in Nat
    BY <1>2 DEF CanTransfer
  <2>2. Reaped(ledger[src] - value) \in Nat
    BY <2>1 DEF Reaped
  <2> QED
    BY <1>2, <2>1, <2>2 DEF AfterTransfer
<1> QED
  BY <1>1, <1>2

(* Rewards only add to balances.                                            *)
LEMMA RewardsGrow ==
    ASSUME NEW ledger \in [Accounts -> Nat], NEW miner \in Accounts,
           NEW stakes \in [Accounts -> Nat]
    PROVE  LET paid == distribute_rewards(ledger, miner, stakes,
                                          calculate_block_reward(BlockReward))
           IN  /\ paid \in [Accounts -> Nat]
               /\ \A a \in Accounts : paid[a] >= ledger[a]
<1> DEFINE reward == calculate_block_reward(BlockReward)
           paid   == distribute_rewards(ledger, miner, stakes, reward)
<1>1. reward.miner_reward \in Nat /\ reward.stakers_reward \in Nat
  BY ConfigAssumption DEF calculate_block_reward
<1>2. \A a \in Accounts : staker_reward(reward.stakers_reward, stakes, a) \in Nat
  <2>1. SumOf(stakes) \in Nat
    BY CumulativeFacts
  <2> HIDE DEF reward
  <2> QED
    BY <1>1, <2>1 DEF staker_reward
<1>3. \A b \in Nat, v \in Nat : /\ deposit_creating(b, v) \in Nat
                                /\ deposit_creating(b, v) >= b
  BY DEF deposit_creating
<1>4. ASSUME NEW a \in Accounts
      PROVE  paid[a] \in Nat /\ paid[a] >= ledger[a]
  <2> DEFINE own == IF a = miner THEN reward.miner_reward ELSE 0
             mid == deposit_creating(ledger[a], own)
             new == deposit_creating(mid, staker_reward(reward.stakers_reward, stakes, a))
  <2>1. own \in Nat
    BY <1>1
  <2>2. mid \in Nat /\ mid >= ledger[a]
    BY <1>3, <2>1
  <2>3. new \in Nat /\ new >= mid
    <3> HIDE DEF mid, reward
    <3> QED BY <1>2, <1>3, <2>2
  <2>4. paid[a] = new
    BY DEF distribute_rewards
  <2> HIDE DEF mid, new, paid
  <2> QED
    BY <2>2, <2>3, <2>4
<1>5. paid = [a \in Accounts |-> paid[a]]
  BY DEF distribute_rewards
<1> HIDE DEF paid
<1>6. paid \in [Accounts -> Nat]
  BY <1>4, <1>5
<1> QED
  BY <1>4, <1>6 DEF paid, reward

-----------------------------------------------------------------------------
(* Type correctness *)

(* A slashed stake is a natural number not above the stake.                 *)
LEMMA SlashBound ==
    ASSUME NEW stake \in Nat, NEW amount \in Nat
    PROVE  saturating_sub(stake, amount) \in Nat /\ saturating_sub(stake, amount) <= stake
  BY DEF saturating_sub

(* Slashing percentages are natural numbers, so slashed amounts are.        *)
LEMMA SlashAmountType ==
    ASSUME NEW stake \in Nat, NEW reason \in SlashingReasons
    PROVE  /\ slash_amount(stake, slash_percentage(reason)) \in Nat
           /\ slash_amount(stake, DowntimeSlashPercentage) \in Nat
<1>1. slash_percentage(reason) \in Nat
  BY ConfigAssumption DEF slash_percentage, SlashingReasons
<1> QED
  BY <1>1, ConfigAssumption DEF slash_amount

(* Every initial state is well typed.                                       *)
LEMMA TypeInit == Init => TypeOK
<1> SUFFICES ASSUME Init PROVE TypeOK
  OBVIOUS
<1> USE DEF Init, EmptyMap
<1>1. \A n \in DOMAIN BlockHeaders : n = 0 /\ BlockHeaders[n] = GenesisHeader
  OBVIOUS
<1>2. /\ DOMAIN BlockHeaders \subseteq Nat
      /\ \A n \in DOMAIN BlockHeaders : IsHeader(BlockHeaders[n])
  BY <1>1 DEF IsHeader, GenesisHeader
<1>3. RecentBlockProducers \in Seq(Signers) /\ Len(RecentBlockProducers) <= RecentWindow
  BY ConfigAssumption
<1>4. /\ free \in [Accounts -> Nat] /\ Difficulty \in 0..MaxU64
      /\ CurrentPhase \in Phases /\ now \in Nat /\ CurrentEntropy \in Nat
      /\ stage \in {"open", "closed"}
  BY InputAssumption DEF Phases
<1>5. /\ DOMAIN BlockProducers = {} /\ BlockProducers \in [{} -> Signers]
      /\ DOMAIN ValidatorStakes = {} /\ ValidatorStakes \in [{} -> Nat]
      /\ DOMAIN LastActiveBlock = {} /\ LastActiveBlock \in [{} -> Nat]
      /\ DOMAIN ValidatorPqcPublicKeys = {}
      /\ ValidatorPqcPublicKeys \in [{} -> Keys]
  OBVIOUS
<1> QED
  BY <1>2, <1>3, <1>4, <1>5 DEF TypeOK

(* submit_block keeps the storage well typed.                               *)
LEMMA TypeSubmit ==
    ASSUME TypeOK, NEW miner \in Signers, NEW n \in 1..MaxBlocks,
           NEW header \in SubmittableHeaders(n), SubmitBlock(miner, header)
    PROVE  TypeOK'
<1>1. header.number = n /\ n \in Nat
  BY InputAssumption DEF SubmittableHeaders
<1>2. IsHeader(header)
  BY DEF SubmittableHeaders, IsHeader
<1>3. /\ BlockHeaders' = Insert(BlockHeaders, n, header)
      /\ BlockProducers' = Insert(BlockProducers, n, miner)
      /\ LastActiveBlock' = Insert(LastActiveBlock, miner, n)
      /\ RecentBlockProducers' = push_recent(miner)
  BY <1>1 DEF SubmitBlock, extends_chain
<1>4. /\ DOMAIN BlockHeaders' \subseteq Nat
      /\ \A k \in DOMAIN BlockHeaders' : IsHeader(BlockHeaders'[k])
  BY <1>1, <1>2, <1>3, InsertHeader DEF TypeOK
<1>5. /\ DOMAIN BlockProducers' \subseteq Nat
      /\ BlockProducers' \in [DOMAIN BlockProducers' -> Signers]
  <2>1. DOMAIN BlockProducers \subseteq Nat /\ BlockProducers \in [DOMAIN BlockProducers -> Signers]
    BY DEF TypeOK
  <2> QED
    BY <1>1, <1>3, <2>1, InsertType
<1>6. /\ DOMAIN LastActiveBlock' \subseteq Signers
      /\ LastActiveBlock' \in [DOMAIN LastActiveBlock' -> Nat]
  <2>1. DOMAIN LastActiveBlock \subseteq Signers /\ LastActiveBlock \in [DOMAIN LastActiveBlock -> Nat]
    BY DEF TypeOK
  <2> QED
    BY <1>1, <1>3, <2>1, InsertType
<1>7. /\ RecentBlockProducers' \in Seq(Signers)
      /\ Len(RecentBlockProducers') <= RecentWindow
  <2> DEFINE r == RecentBlockProducers
  <2>1. r \in Seq(Signers) /\ Len(r) \in Nat /\ Len(r) <= RecentWindow
    BY LenProperties DEF TypeOK
  <2>2. RecentWindow \in Nat \ {0}
    BY ConfigAssumption, MaxCountNatural
  <2>3. CASE Len(r) >= RecentWindow
    <3>1. r # <<>>
      BY <2>1, <2>2, <2>3
    <3>2. Tail(r) \in Seq(Signers) /\ Len(Tail(r)) = Len(r) - 1
      BY <2>1, <3>1
    <3>3. RecentBlockProducers' = Append(Tail(r), miner)
      BY <1>3, <2>3 DEF push_recent
    <3> QED
      BY <2>1, <2>2, <3>2, <3>3
  <2>4. CASE ~(Len(r) >= RecentWindow)
    <3>1. RecentBlockProducers' = Append(r, miner)
      BY <1>3, <2>4 DEF push_recent
    <3> QED
      BY <2>1, <2>2, <2>4, <3>1
  <2> QED
    BY <2>3, <2>4
<1>8. CurrentPhase' \in Phases
  BY DEF SubmitBlock, extends_chain, Phases
<1> QED
  BY <1>4, <1>5, <1>6, <1>7, <1>8
  DEF TypeOK, SubmitBlock, extends_chain, reports, retarget, block

(* So do stake, unstake, report_misbehavior and a plain transfer.           *)
LEMMA TypeStake ==
    ASSUME TypeOK, NEW staker \in Signers, NEW amount \in Amounts,
           Stake(staker, amount)
    PROVE  TypeOK'
<1>1. amount \in Nat /\ staker \in Accounts /\ Escrow \in Accounts
  BY InputAssumption, ConfigAssumption DEF Signers
<1>2. free' \in [Accounts -> Nat]
  BY <1>1, TransferType DEF TypeOK, Stake
<1>3. Stakes[staker] + amount \in Nat
  BY <1>1, StakesType
<1>4. /\ DOMAIN ValidatorStakes' \subseteq Accounts
      /\ ValidatorStakes' \in [DOMAIN ValidatorStakes' -> Nat]
  <2>1. ValidatorStakes' = Insert(ValidatorStakes, staker, Stakes[staker] + amount)
    BY DEF Stake
  <2>2. DOMAIN ValidatorStakes \subseteq Accounts /\ ValidatorStakes \in [DOMAIN ValidatorStakes -> Nat]
    BY DEF TypeOK
  <2> QED
    BY <1>1, <1>3, <2>1, <2>2, InsertType
<1> QED
  BY <1>2, <1>4 DEF TypeOK, Stake, mining, reports, retarget, block

(* unstake keeps the types: the stake covers what it loses.                 *)
LEMMA TypeUnstake ==
    ASSUME TypeOK, NEW staker \in Signers, NEW amount \in Amounts,
           Unstake(staker, amount)
    PROVE  TypeOK'
<1>1. amount \in Nat /\ staker \in Accounts /\ Escrow \in Accounts
  BY InputAssumption, ConfigAssumption DEF Signers
<1>2. free' \in [Accounts -> Nat]
  BY <1>1, TransferType DEF TypeOK, Unstake
<1>3. ValidatorStakes[staker] - amount \in Nat
  BY <1>1 DEF TypeOK, Unstake
<1>4. /\ DOMAIN ValidatorStakes' \subseteq Accounts
      /\ ValidatorStakes' \in [DOMAIN ValidatorStakes' -> Nat]
  <2>1. ValidatorStakes' = Insert(ValidatorStakes, staker, ValidatorStakes[staker] - amount)
    BY DEF Unstake
  <2>2. DOMAIN ValidatorStakes \subseteq Accounts /\ ValidatorStakes \in [DOMAIN ValidatorStakes -> Nat]
    BY DEF TypeOK
  <2> QED
    BY <1>1, <1>3, <2>1, <2>2, InsertType
<1> QED
  BY <1>2, <1>4 DEF TypeOK, Unstake, mining, reports, retarget, block

(* report_misbehavior keeps the types: a slash never exceeds the stake.      *)
LEMMA TypeReport ==
    ASSUME TypeOK, NEW validator \in Accounts, NEW reason \in Reports,
           ReportMisbehavior(validator, reason)
    PROVE  TypeOK'
<1> DEFINE stake == Stakes[validator]
           left  == saturating_sub(stake, slash_amount(stake, slash_percentage(reason)))
<1>1. stake \in Nat
  BY StakesType
<1>2. left \in Nat
  <2>1. slash_amount(stake, slash_percentage(reason)) \in Nat
    BY <1>1, InputAssumption, SlashAmountType
  <2> QED
    BY <1>1, <2>1, SlashBound
<1>3. ValidatorStakes' = Insert(ValidatorStakes, validator, left)
  BY DEF ReportMisbehavior
<1> HIDE DEF left
<1>4. /\ DOMAIN ValidatorStakes' \subseteq Accounts
      /\ ValidatorStakes' \in [DOMAIN ValidatorStakes' -> Nat]
  <2>1. DOMAIN ValidatorStakes \subseteq Accounts /\ ValidatorStakes \in [DOMAIN ValidatorStakes -> Nat]
    BY DEF TypeOK
  <2> QED
    BY <1>2, <1>3, <2>1, InsertType
<1>5. DoubleSignReports' \subseteq Accounts /\ InvalidBlockReports' \subseteq Accounts
  BY DEF TypeOK, ReportMisbehavior
<1> QED
  BY <1>4, <1>5 DEF TypeOK, ReportMisbehavior, mining, retarget, block

(* A plain transfer keeps the types.                                        *)
LEMMA TypeTransfer ==
    ASSUME TypeOK, NEW src \in Signers, NEW dst \in Accounts,
           NEW amount \in Transfers, NEW keep \in BOOLEAN,
           BalancesTransfer(src, dst, amount, keep)
    PROVE  TypeOK'
<1>1. amount \in Nat /\ src \in Accounts
  BY InputAssumption DEF Signers
<1>2. free' \in [Accounts -> Nat]
  BY <1>1, TransferType DEF TypeOK, BalancesTransfer
<1> QED
  BY <1>2 DEF TypeOK, BalancesTransfer, mining, staking, reports, retarget, block

(* So does validate_block.                                                  *)
LEMMA TypeValidate ==
    ASSUME TypeOK, NEW validator \in Signers, NEW n \in 0..MaxBlocks,
           NEW random \in Seeds, NEW signature,
           ValidateBlock(validator, n, random, signature)
    PROVE  TypeOK'
<1> DEFINE signed == [BlockHeaders[n] EXCEPT
                         !.validator_signature = Some(hash_of(<<validator, n>>)),
                         !.pqc_signature = Some(signature)]
<1>1. /\ n \in Nat /\ n \in DOMAIN BlockHeaders /\ n \in DOMAIN BlockProducers
      /\ BlockHeaders' = Insert(BlockHeaders, n, signed)
      /\ LastActiveBlock' = Insert(LastActiveBlock, validator, n)
      /\ free' = distribute_rewards(free, BlockProducers[n], Stakes,
                                    calculate_block_reward(BlockReward))
  BY InputAssumption DEF ValidateBlock
<1>2. IsHeader(signed)
  <2>1. IsHeader(BlockHeaders[n])
    BY <1>1 DEF TypeOK
  <2> QED
    BY <2>1, SignedHeader
<1> HIDE DEF signed
<1>3. /\ DOMAIN BlockHeaders' \subseteq Nat
      /\ \A k \in DOMAIN BlockHeaders' : IsHeader(BlockHeaders'[k])
  BY <1>1, <1>2, InsertHeader DEF TypeOK
<1>4. free' \in [Accounts -> Nat]
  <2>1. BlockProducers[n] \in Accounts /\ free \in [Accounts -> Nat]
    BY <1>1 DEF TypeOK, Signers
  <2> QED
    BY <1>1, <2>1, StakesType, RewardsGrow
<1>5. /\ DOMAIN LastActiveBlock' \subseteq Signers
      /\ LastActiveBlock' \in [DOMAIN LastActiveBlock' -> Nat]
  <2>1. DOMAIN LastActiveBlock \subseteq Signers /\ LastActiveBlock \in [DOMAIN LastActiveBlock -> Nat]
    BY DEF TypeOK
  <2> QED
    BY <1>1, <2>1, InsertType
<1>6. CurrentPhase' \in Phases
  BY DEF ValidateBlock, Phases
<1> QED
  BY <1>3, <1>4, <1>5, <1>6 DEF TypeOK, ValidateBlock, reports, retarget, block

(* So does registering a PQC key.                                           *)
LEMMA TypeRegister ==
    ASSUME TypeOK, NEW validator \in Signers, NEW key \in Keys,
           RegisterPqcKey(validator, key)
    PROVE  TypeOK'
<1>1. /\ DOMAIN ValidatorPqcPublicKeys' \subseteq Signers
      /\ ValidatorPqcPublicKeys' \in [DOMAIN ValidatorPqcPublicKeys' -> Keys]
  <2>1. /\ DOMAIN ValidatorPqcPublicKeys \subseteq Signers
        /\ ValidatorPqcPublicKeys \in [DOMAIN ValidatorPqcPublicKeys -> Keys]
    BY DEF TypeOK
  <2>2. ValidatorPqcPublicKeys' = Insert(ValidatorPqcPublicKeys, validator, key)
    BY DEF RegisterPqcKey
  <2> QED
    BY <2>1, <2>2, InsertType
<1> QED
  BY <1>1 DEF TypeOK, RegisterPqcKey, mining, staking, reports, retarget, block

(* So do the block hooks.                                                   *)
LEMMA TypeHooks ==
    ASSUME TypeOK, OnInitialize \/ OnFinalize
    PROVE  TypeOK'
<1>1. CASE OnInitialize
  <2> USE <1>1 DEF OnInitialize, mining, retarget
  <2>1. /\ DOMAIN ValidatorStakes' \subseteq Accounts
        /\ ValidatorStakes' \in [DOMAIN ValidatorStakes' -> Nat]
        /\ SlashingRecords' \subseteq Accounts \X Nat \X Nat
    <3>1. CASE (now + 1) % SlashInterval = 0
      <4> USE <3>1 DEF check_downtime_slashing
      <4>1. \A a \in DOMAIN ValidatorStakes :
               /\ ValidatorStakes[a] \in Nat
               /\ downtime_slash(a) \in Nat
        <5>1. \A a \in DOMAIN ValidatorStakes : ValidatorStakes[a] \in Nat
          BY DEF TypeOK
        <5>2. "Other" \in SlashingReasons
          BY DEF SlashingReasons
        <5> QED
          BY <5>1, <5>2, SlashAmountType DEF downtime_slash
      <4>2. \A a \in DOMAIN ValidatorStakes :
               saturating_sub(ValidatorStakes[a], downtime_slash(a)) \in Nat
        BY <4>1, SlashBound
      <4>3. now + 1 \in Nat /\ Offline(now + 1) \subseteq DOMAIN ValidatorStakes
        BY DEF TypeOK, Offline
      <4>4. DOMAIN ValidatorStakes' = DOMAIN ValidatorStakes
        OBVIOUS
      <4>5. ValidatorStakes' \in [DOMAIN ValidatorStakes' -> Nat]
        BY <4>1, <4>2, <4>4
      <4>6. SlashingRecords' \subseteq Accounts \X Nat \X Nat
        BY <4>1, <4>3 DEF TypeOK
      <4> QED
        BY <4>4, <4>5, <4>6 DEF TypeOK
    <3>2. CASE ~((now + 1) % SlashInterval = 0)
      BY <3>2 DEF TypeOK
    <3> QED
      BY <3>1, <3>2
  <2>2. Difficulty' \in 0..MaxU64 /\ CurrentEntropy' \in Nat
    <3>1. CASE (now + 1) % AdjustInterval = 0
      <4> USE <3>1 DEF adjust_difficulty
      <4>1. CurrentEntropy' \in Nat
        <5>1. Len(RecentBlockProducers) <= MaxCount
          BY ConfigAssumption, LenProperties, MaxCountNatural DEF TypeOK
        <5> QED
          BY <5>1, EntropyNatural DEF TypeOK
      <4>2. Difficulty' \in 1..MaxU64
        <5>1. Difficulty \in 0..MaxU64 /\ 5 \in Nat
          BY DEF TypeOK
        <5> QED
          BY <4>1, <5>1, AdjustmentRange
      <4> QED
        BY <4>1, <4>2, MaxU64Assumption
    <3>2. CASE ~((now + 1) % AdjustInterval = 0)
      BY <3>2 DEF TypeOK
    <3> QED
      BY <3>1, <3>2
  <2>3. now' \in Nat /\ stage' \in {"open", "closed"}
    BY DEF TypeOK
  <2> QED
    BY <2>1, <2>2, <2>3 DEF TypeOK
<1>2. CASE OnFinalize
  BY <1>2 DEF OnFinalize, TypeOK, Phases, mining, staking, reports, retarget
<1> QED
  BY <1>1, <1>2

(* Every step keeps the storage well typed.                                 *)
LEMMA TypeStep == TypeOK /\ [Next]_vars => TypeOK'
<1> SUFFICES ASSUME TypeOK, [Next]_vars PROVE TypeOK'
  OBVIOUS
<1>1. CASE Submit
  BY <1>1, TypeSubmit DEF Submit
<1>2. CASE Validate
  BY <1>2, TypeValidate DEF Validate
<1>3. CASE Other
  BY <1>3, TypeHooks, TypeStake, TypeUnstake, TypeRegister, TypeReport,
     TypeTransfer DEF Other
<1>4. CASE UNCHANGED vars
  BY <1>4 DEF vars, mining, staking, reports, retarget, block, TypeOK
<1> QED
  BY <1>1, <1>2, <1>3, <1>4 DEF Next

(* The pallet's storage is always well typed: in particular no balance or   *)
(* stake ever underflows and the difficulty stays a u64.                    *)
THEOREM TypeCorrect == Spec => []TypeOK
  BY TypeInit, TypeStep, PTL DEF Spec

-----------------------------------------------------------------------------
(* The draw of validate_block is fair over whatever stakes there are while  *)
(* their u64 sum does not wrap, and selects somebody whenever the wrapped   *)
(* total is positive.                                                       *)
THEOREM DrawTheorem == Spec => []DrawIsSound
<1>1. TypeOK => DrawIsSound
  <2> SUFFICES ASSUME TypeOK PROVE DrawIsSound
    OBVIOUS
  <2>1. Weights \in [Accounts -> Nat] /\ SumOf(Weights) \in Nat
    BY StakesType, CumulativeFacts
  <2>2. ASSUME SumOf(Weights) <= MaxU64, NEW a \in Accounts
        PROVE  Cardinality({r \in 0..(SumOf(Weights) - 1) :
                              select_pos_validator(Weights, r) = a}) = Weights[a]
    BY <2>1, <2>2, SelectionIsFair
  <2>3. ASSUME wrapping(SumOf(Weights)) # 0, NEW r \in 0..wrapping(SumOf(Weights))
        PROVE  select_pos_validator(Weights, r) # None
    <3>1. wrapping(SumOf(Weights)) \in Nat
      BY <2>1, MaxU64Assumption DEF wrapping
    <3>2. r \in Nat
      BY <3>1
    <3>3. select_pos_validator(Weights, r) \in Accounts
      BY <2>1, <2>3, <3>2, SelectionHasWeight
    <3> QED
      BY <3>3, NAssumption DEF None, Accounts
  <2> QED
    BY <2>2, <2>3 DEF DrawIsSound
<1> QED
  BY <1>1, TypeCorrect, PTL

(* With the placeholder block times of adjust_difficulty the target never   *)
(* rises, from one host block to the next or at all.                        *)
THEOREM RatchetTheorem == Spec => DifficultyRatchet
<1>1. TypeOK /\ Next => Difficulty' <= AtLeast(Difficulty, 1)
  <2> SUFFICES ASSUME TypeOK, Next PROVE Difficulty' <= AtLeast(Difficulty, 1)
    OBVIOUS
  <2>1. Difficulty \in 0..MaxU64 /\ Difficulty <= AtLeast(Difficulty, 1)
    <3>1. Difficulty \in 0..MaxU64
      BY DEF TypeOK
    <3> QED
      BY <3>1, MaxU64Assumption DEF AtLeast
  <2>2. CASE OnInitialize /\ (now + 1) % AdjustInterval = 0
    <3>1. /\ CurrentEntropy' = calculate_entropy(RecentBlockProducers)
          /\ Difficulty' = calculate_difficulty_adjustment(Difficulty, 5, 5, CurrentEntropy')
      BY <2>2 DEF OnInitialize, adjust_difficulty
    <3>2. RecentBlockProducers \in Seq(Signers) /\ Len(RecentBlockProducers) <= MaxCount
      BY ConfigAssumption, LenProperties, MaxCountNatural DEF TypeOK
    <3>3. CurrentEntropy' \in Nat /\ 5 \in Nat \ {0}
      BY <3>1, <3>2, EntropyNatural
    <3> QED
      BY <2>1, <3>1, <3>3, AdjustmentLowers
  <2>3. CASE ~(OnInitialize /\ (now + 1) % AdjustInterval = 0)
    <3>1. Difficulty' = Difficulty
      BY <2>3 DEF Next, Submit, SubmitBlock, extends_chain, Validate, ValidateBlock, Other,
                  OnInitialize, OnFinalize, Stake, Unstake, RegisterPqcKey,
                  ReportMisbehavior, BalancesTransfer, retarget
    <3> QED
      BY <2>1, <3>1
  <2> QED
    BY <2>2, <2>3
<1>2. TypeOK /\ [Next]_vars => [Difficulty' <= AtLeast(Difficulty, 1)]_vars
  BY <1>1
<1> QED
  BY <1>2, TypeCorrect, PTL DEF Spec, DifficultyRatchet
=============================================================================
