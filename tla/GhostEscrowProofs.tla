------------------------- MODULE GhostEscrowProofs --------------------------
(***************************************************************************)
(* The escrow account and the stakes it backs.  The argument is one step    *)
(* lemma, SurplusStep: no step lowers free[Escrow] - SumOf(Stakes), except  *)
(* an unstake that leaves the account below the existential deposit.  With  *)
(* an existential deposit of 1 that exception cannot lose anything, and     *)
(* solvency is inductive.                                                   *)
(***************************************************************************)
EXTENDS GhostConsensusProofs

(* Setting one stake entry changes the sum of the stakes by the difference. *)
LEMMA StakeEntry ==
    ASSUME TypeOK, TypeOK', NEW a \in Accounts, NEW x \in Nat,
           ValidatorStakes' = Insert(ValidatorStakes, a, x)
    PROVE  SumOf(Stakes') = SumOf(Stakes) + (x - Stakes[a])
<1>1. Stakes \in [Accounts -> Nat] /\ Stakes' \in [Accounts -> Nat]
  BY StakesType DEF TypeOK, Stakes, ValueOr
<1>2. Stakes'[a] = x /\ \A b \in Accounts : b # a => Stakes'[b] = Stakes[b]
  BY DEF Stakes, ValueOr, Insert
<1>3. SumOf(Stakes') - SumOf(Stakes) = Stakes'[a] - Stakes[a]
  BY <1>1, <1>2, SumUpdate
<1>4. SumOf(Stakes') \in Nat /\ SumOf(Stakes) \in Nat /\ Stakes[a] \in Nat
  BY <1>1, CumulativeFacts
<1> QED
  BY <1>2, <1>3, <1>4

(* The surplus is an integer difference of naturals.                        *)
LEMMA SurplusParts ==
    ASSUME TypeOK
    PROVE  /\ free[Escrow] \in Nat /\ SumOf(Stakes) \in Nat
           /\ Surplus = free[Escrow] - SumOf(Stakes)
<1>1. free[Escrow] \in Nat
  BY ConfigAssumption DEF TypeOK
<1>2. SumOf(Stakes) \in Nat
  BY StakesType, CumulativeFacts
<1> QED
  BY <1>1, <1>2 DEF Surplus

(* What a step may do to the surplus of the escrow account.                 *)
SurplusKept == \/ Surplus' >= Surplus
               \/ free'[Escrow] = 0 /\ Surplus - Surplus' < ExistentialDeposit

(* stake moves as much into the escrow account as it adds to the stake.     *)
LEMMA SurplusStake ==
    ASSUME TypeOK, TypeOK', NEW staker \in Signers, NEW amount \in Amounts,
           Stake(staker, amount)
    PROVE  SurplusKept
<1>1. /\ amount \in Nat /\ amount # 0 /\ staker \in Accounts
      /\ Escrow \in Accounts /\ staker # Escrow
  BY InputAssumption, ConfigAssumption DEF Signers, Stake
<1>2. free'[Escrow] = free[Escrow] + amount
  BY <1>1 DEF Stake, AfterTransfer, TypeOK
<1>3. Stakes[staker] \in Nat /\ Stakes[staker] + amount \in Nat
  BY <1>1, StakesType
<1>4. SumOf(Stakes') = SumOf(Stakes) + ((Stakes[staker] + amount) - Stakes[staker])
  BY <1>1, <1>3, StakeEntry DEF Stake
<1>5. SumOf(Stakes) \in Nat /\ free[Escrow] \in Nat
  BY SurplusParts
<1>6. Surplus' = free'[Escrow] - SumOf(Stakes')
  BY DEF Surplus
<1>7. Surplus' = Surplus
  BY <1>1, <1>2, <1>3, <1>4, <1>5, <1>6, SurplusParts
<1> QED
  BY <1>5, <1>7, SurplusParts DEF SurplusKept

(* unstake takes as much out of it as it takes off the stake, and loses at  *)
(* most the dust of a reaped account.                                       *)
LEMMA SurplusUnstake ==
    ASSUME TypeOK, TypeOK', NEW staker \in Signers, NEW amount \in Amounts,
           Unstake(staker, amount)
    PROVE  SurplusKept
<1>1. /\ amount \in Nat /\ staker \in Accounts
      /\ Escrow \in Accounts /\ staker # Escrow
  BY InputAssumption, ConfigAssumption DEF Signers
<1>2. /\ Stakes[staker] \in Nat /\ amount <= Stakes[staker]
      /\ ValidatorStakes' = Insert(ValidatorStakes, staker, Stakes[staker] - amount)
  <2>1. Stakes[staker] = ValidatorStakes[staker]
    BY <1>1 DEF Unstake, Stakes, ValueOr
  <2>2. Stakes[staker] \in Nat
    BY <1>1, StakesType
  <2> QED
    BY <1>1, <2>1, <2>2 DEF Unstake
<1>3. SumOf(Stakes') = SumOf(Stakes) + ((Stakes[staker] - amount) - Stakes[staker])
  <2>1. Stakes[staker] - amount \in Nat
    BY <1>1, <1>2
  <2> QED
    BY <1>1, <1>2, <2>1, StakeEntry
<1>4. SumOf(Stakes) \in Nat /\ free[Escrow] \in Nat
  BY SurplusParts
<1>5. Surplus = free[Escrow] - SumOf(Stakes) /\ Surplus' = free'[Escrow] - SumOf(Stakes')
  BY DEF Surplus
<1>6. SumOf(Stakes') = SumOf(Stakes) - amount
  BY <1>1, <1>2, <1>3, <1>4
<1>7. CASE amount = 0
  <2>1. free' = free
    BY <1>7 DEF Unstake, AfterTransfer
  <2> QED
    BY <1>4, <1>5, <1>6, <1>7, <2>1 DEF SurplusKept
<1>8. CASE amount # 0
  <2>1. amount <= free[Escrow]
    BY <1>1, <1>8 DEF Unstake, CanTransfer
  <2>2. free'[Escrow] = Reaped(free[Escrow] - amount)
    BY <1>1, <1>8 DEF Unstake, AfterTransfer, TypeOK
  <2>3. CASE free[Escrow] - amount < ExistentialDeposit
    <3>1. free'[Escrow] = 0
      BY <2>2, <2>3 DEF Reaped
    <3>2. Surplus - Surplus' = free[Escrow] - amount
      BY <1>1, <1>4, <1>5, <1>6, <3>1
    <3> QED
      BY <2>3, <3>1, <3>2 DEF SurplusKept
  <2>4. CASE ~(free[Escrow] - amount < ExistentialDeposit)
    <3>1. free'[Escrow] = free[Escrow] - amount
      BY <2>2, <2>4 DEF Reaped
    <3> QED
      BY <1>1, <1>4, <1>5, <1>6, <3>1 DEF SurplusKept
  <2> QED
    BY <2>3, <2>4
<1> QED
  BY <1>7, <1>8

(* A step that pays nothing out of the account and raises no stake keeps it. *)
LEMMA SurplusMonotone ==
    ASSUME TypeOK, TypeOK', free'[Escrow] >= free[Escrow],
           \A a \in Accounts : Stakes'[a] <= Stakes[a]
    PROVE  SurplusKept
<1>1. Stakes \in [Accounts -> Nat] /\ Stakes' \in [Accounts -> Nat]
  BY StakesType DEF TypeOK, Stakes, ValueOr
<1>2. SumOf(Stakes') <= SumOf(Stakes)
  BY <1>1, SumMonotone
<1>3. SumOf(Stakes') \in Nat /\ SumOf(Stakes) \in Nat
  BY <1>1, CumulativeFacts
<1>4. free[Escrow] \in Nat /\ free'[Escrow] \in Nat
  BY ConfigAssumption DEF TypeOK
<1> QED
  BY <1>2, <1>3, <1>4 DEF Surplus, SurplusKept

(* Slashing lowers stakes and leaves the funds in the account.              *)
LEMMA SurplusReport ==
    ASSUME TypeOK, TypeOK', NEW validator \in Accounts, NEW reason \in Reports,
           ReportMisbehavior(validator, reason)
    PROVE  SurplusKept
<1> DEFINE stake == Stakes[validator]
           left  == saturating_sub(stake, slash_amount(stake, slash_percentage(reason)))
<1>1. Stakes \in [Accounts -> Nat] /\ stake \in Nat
  BY StakesType
<1>2. left \in Nat /\ left <= stake
  <2>1. slash_amount(stake, slash_percentage(reason)) \in Nat
    BY <1>1, InputAssumption, SlashAmountType
  <2> QED
    BY <1>1, <2>1, SlashBound
<1>3. ValidatorStakes' = Insert(ValidatorStakes, validator, left) /\ free' = free
  BY DEF ReportMisbehavior
<1> HIDE DEF left
<1>4. \A a \in Accounts : Stakes'[a] = IF a = validator THEN left ELSE Stakes[a]
  BY <1>3 DEF Stakes, ValueOr, Insert
<1>5. \A a \in Accounts : Stakes'[a] <= Stakes[a]
  BY <1>1, <1>2, <1>4
<1>6. free'[Escrow] >= free[Escrow]
  <2>1. free[Escrow] \in Nat
    BY SurplusParts
  <2> QED
    BY <1>3, <2>1
<1> QED
  BY <1>5, <1>6, SurplusMonotone

(* So does the downtime check.                                              *)
LEMMA SurplusInitialize ==
    ASSUME TypeOK, TypeOK', OnInitialize
    PROVE  SurplusKept
<1>1. free'[Escrow] >= free[Escrow]
  <2>1. free' = free
    BY DEF OnInitialize
  <2>2. free[Escrow] \in Nat
    BY SurplusParts
  <2> QED
    BY <2>1, <2>2
<1>2. /\ DOMAIN ValidatorStakes' = DOMAIN ValidatorStakes
      /\ \A a \in DOMAIN ValidatorStakes : ValidatorStakes'[a] <= ValidatorStakes[a]
  <2>1. \A a \in DOMAIN ValidatorStakes : ValidatorStakes[a] \in Nat
    BY DEF TypeOK
  <2>2. CASE (now + 1) % SlashInterval = 0
    <3>1. "Other" \in SlashingReasons
      BY DEF SlashingReasons
    <3>2. \A a \in DOMAIN ValidatorStakes :
             saturating_sub(ValidatorStakes[a], downtime_slash(a)) <= ValidatorStakes[a]
      BY <2>1, <3>1, SlashAmountType, SlashBound DEF downtime_slash
    <3>3. check_downtime_slashing(now + 1)
      BY <2>2 DEF OnInitialize
    <3> QED
      BY <2>1, <3>2, <3>3 DEF check_downtime_slashing
  <2>3. CASE ~((now + 1) % SlashInterval = 0)
    <3>1. ValidatorStakes' = ValidatorStakes
      BY <2>3 DEF OnInitialize
    <3> QED
      BY <2>1, <3>1
  <2> QED
    BY <2>2, <2>3
<1>3. \A a \in Accounts : Stakes'[a] <= Stakes[a]
  BY <1>2 DEF Stakes, ValueOr
<1> QED
  BY <1>1, <1>3, SurplusMonotone

(* No step loses funds of the escrow account other than the dust of an      *)
(* account that an unstake empties.                                         *)
LEMMA SurplusStep == TypeOK /\ Next => SurplusKept
<1> SUFFICES ASSUME TypeOK, Next PROVE SurplusKept
  OBVIOUS
<1>1. TypeOK'
  BY TypeStep
<1>2. free[Escrow] \in Nat /\ Escrow \in Accounts
  BY ConfigAssumption DEF TypeOK
<1>3. ASSUME UNCHANGED ValidatorStakes, free'[Escrow] >= free[Escrow]
      PROVE  SurplusKept
  <2>1. \A a \in Accounts : Stakes'[a] <= Stakes[a]
    <3>1. \A a \in Accounts : Stakes'[a] = Stakes[a] /\ Stakes[a] \in Nat
      BY <1>3, StakesType DEF Stakes, ValueOr
    <3> QED
      BY <3>1
  <2> QED
    BY <1>1, <1>3, <2>1, SurplusMonotone
<1>4. CASE Submit
  BY <1>2, <1>3, <1>4 DEF Submit, SubmitBlock, extends_chain
<1>5. CASE Validate
  <2>1. PICK a \in Signers, n \in 0..MaxBlocks, r \in Seeds, s \in Keys \cup {BadSig} :
           ValidateBlock(a, n, r, s)
    BY <1>5 DEF Validate
  <2>2. BlockProducers[n] \in Accounts /\ free \in [Accounts -> Nat]
    BY <2>1 DEF ValidateBlock, TypeOK, Signers
  <2>3. free'[Escrow] >= free[Escrow]
    BY <1>2, <2>1, <2>2, StakesType, RewardsGrow DEF ValidateBlock
  <2> QED
    BY <1>3, <2>1, <2>3 DEF ValidateBlock
<1>6. CASE OnInitialize
  BY <1>1, <1>6, SurplusInitialize
<1>7. CASE OnFinalize
  BY <1>2, <1>3, <1>7 DEF OnFinalize, staking
<1>8. CASE \E a \in Signers, amount \in Amounts : Stake(a, amount) \/ Unstake(a, amount)
  BY <1>1, <1>8, SurplusStake, SurplusUnstake
<1>9. CASE \E a \in Signers, k \in Keys : RegisterPqcKey(a, k)
  BY <1>2, <1>3, <1>9 DEF RegisterPqcKey, staking
<1>10. CASE \E a \in Accounts, reason \in Reports : ReportMisbehavior(a, reason)
  BY <1>1, <1>10, SurplusReport
<1>11. CASE \E a \in Signers, b \in Accounts, amount \in Transfers, k \in BOOLEAN :
               BalancesTransfer(a, b, amount, k)
  <2>1. PICK a \in Signers, b \in Accounts, amount \in Transfers, k \in BOOLEAN :
           BalancesTransfer(a, b, amount, k)
    BY <1>11
  <2>2. a # Escrow /\ amount \in Nat
    BY InputAssumption DEF Signers
  <2>3. free'[Escrow] >= free[Escrow]
    BY <1>2, <2>1, <2>2 DEF BalancesTransfer, AfterTransfer, TypeOK
  <2> QED
    BY <1>3, <2>1, <2>3 DEF BalancesTransfer, staking
<1> QED
  BY <1>4, <1>5, <1>6, <1>7, <1>8, <1>9, <1>10, <1>11 DEF Next, Other

-----------------------------------------------------------------------------
(* Each step keeps what the escrow account holds beyond the stakes, up to   *)
(* the dust of a reaped account, whatever the existential deposit is.       *)
THEOREM SurplusTheorem == Spec => SurplusShrinksByDustOnly
<1>1. TypeOK /\ [Next]_vars =>
        [\/ Surplus' >= Surplus
         \/ free'[Escrow] = 0 /\ Surplus - Surplus' < ExistentialDeposit]_vars
  BY SurplusStep DEF SurplusKept
<1> QED
  BY <1>1, TypeCorrect, PTL DEF Spec, SurplusShrinksByDustOnly

(* Solvency holds at first: nobody has staked and the account is empty.     *)
LEMMA SolventInit == Init => EscrowSolvent
<1> SUFFICES ASSUME Init PROVE SumOf(Stakes) <= free[Escrow]
  BY DEF EscrowSolvent
<1>1. Stakes \in [Accounts -> Nat] /\ \A a \in Accounts : Stakes[a] = 0
  BY DEF Init, EmptyMap, Stakes, ValueOr
<1>2. SumOf(Stakes) = 0
  BY <1>1, SumZero
<1>3. free[Escrow] \in Nat
  BY InputAssumption, ConfigAssumption DEF Init
<1> QED
  BY <1>2, <1>3

(* Solvency is preserved: with an existential deposit of 1 the dust of      *)
(* SurplusStep is less than 1.                                              *)
LEMMA SolventStep == TypeOK /\ EscrowSolvent /\ [Next]_vars => EscrowSolvent'
<1> SUFFICES ASSUME TypeOK, EscrowSolvent, [Next]_vars, ExistentialDeposit = 1
             PROVE  (SumOf(Stakes) <= free[Escrow])'
  BY DEF EscrowSolvent
<1>1. SumOf(Stakes) <= free[Escrow]
  BY DEF EscrowSolvent
<1>2. TypeOK'
  BY TypeStep
<1>3. SumOf(Stakes) \in Nat /\ free[Escrow] \in Nat
  BY SurplusParts
<1>4. SumOf(Stakes') \in Nat /\ free'[Escrow] \in Nat
  <2>1. Stakes' \in [Accounts -> Nat]
    BY <1>2 DEF TypeOK, Stakes, ValueOr
  <2> QED
    BY <1>2, <2>1, CumulativeFacts, ConfigAssumption DEF TypeOK
<1>5. CASE Next
  <2>1. SurplusKept
    BY <1>5, SurplusStep
  <2> QED
    BY <1>1, <1>3, <1>4, <2>1 DEF SurplusKept, Surplus
<1>6. CASE UNCHANGED vars
  <2>1. Stakes' = Stakes /\ free' = free
    BY <1>6 DEF vars, staking, Stakes, ValueOr
  <2> QED
    BY <1>1, <2>1
<1> QED
  BY <1>5, <1>6

(* The escrow account always holds at least the sum of all stakes, if the   *)
(* existential deposit is 1.                                                *)
THEOREM SolvencyTheorem == Spec => []EscrowSolvent
  BY SolventInit, SolventStep, TypeCorrect, PTL DEF Spec

(* In a solvent state every validator can take out any part of its stake.   *)
LEMMA SolventWithdrawal == TypeOK /\ EscrowSolvent => WithdrawalPossible
<1> SUFFICES ASSUME TypeOK, EscrowSolvent, ExistentialDeposit = 1,
                    NEW a \in DOMAIN ValidatorStakes,
                    NEW amount \in 0..ValidatorStakes[a]
             PROVE  CanTransfer(free, Escrow, a, amount, FALSE)
  BY DEF WithdrawalPossible
<1>1. a \in Accounts /\ ValidatorStakes[a] \in Nat /\ free[a] \in Nat
  BY DEF TypeOK
<1>2. Stakes[a] = ValidatorStakes[a] /\ Stakes[a] <= SumOf(Stakes)
  BY <1>1, StakesType, EntryBelowSum DEF Stakes, ValueOr
<1>3. SumOf(Stakes) <= free[Escrow]
  BY DEF EscrowSolvent
<1>4. free[Escrow] \in Nat /\ SumOf(Stakes) \in Nat
  BY SurplusParts
<1>5. amount <= free[Escrow] /\ amount \in Nat
  BY <1>1, <1>2, <1>3, <1>4
<1> QED
  BY <1>1, <1>5 DEF CanTransfer

(* So no unstake within the stake ever fails in its transfer.               *)
THEOREM WithdrawalTheorem == Spec => []WithdrawalPossible
  BY SolvencyTheorem, TypeCorrect, SolventWithdrawal, PTL

-----------------------------------------------------------------------------
(* Issuance *)

(* A transfer creates no money.                                             *)
LEMMA TransferMintsNothing ==
    ASSUME NEW ledger \in [Accounts -> Nat], NEW src \in Accounts,
           NEW dst \in Accounts, NEW value \in Nat, NEW keep \in BOOLEAN,
           CanTransfer(ledger, src, dst, value, keep)
    PROVE  SumOf(AfterTransfer(ledger, src, dst, value)) <= SumOf(ledger)
<1> DEFINE after == AfterTransfer(ledger, src, dst, value)
           mid   == [ledger EXCEPT ![dst] = @ + value]
<1>1. SumOf(ledger) \in Nat
  BY CumulativeFacts
<1>2. CASE value = 0 \/ src = dst
  <2>1. after = ledger
    BY <1>2 DEF AfterTransfer
  <2> QED
    BY <1>1, <2>1
<1>3. CASE ~(value = 0 \/ src = dst)
  <2>1. after \in [Accounts -> Nat]
    BY TransferType
  <2>2. /\ mid \in [Accounts -> Nat] /\ mid[dst] = ledger[dst] + value
        /\ mid[src] = ledger[src]
        /\ \A a \in Accounts : a # dst => mid[a] = ledger[a]
    BY <1>3
  <2>3. /\ after[src] = Reaped(ledger[src] - value)
        /\ \A a \in Accounts : a # src => after[a] = mid[a]
    BY <1>3 DEF AfterTransfer
  <2> HIDE DEF after, mid
  <2>4. SumOf(mid) - SumOf(ledger) = mid[dst] - ledger[dst]
    BY <2>2, SumUpdate
  <2>5. SumOf(after) - SumOf(mid) = after[src] - mid[src]
    BY <2>1, <2>2, <2>3, SumUpdate
  <2>6. SumOf(after) \in Nat /\ SumOf(mid) \in Nat
    BY <2>1, <2>2, CumulativeFacts
  <2>7. ledger[src] \in Nat /\ ledger[dst] \in Nat /\ after[src] <= ledger[src] - value
    <3>1. ledger[src] - value \in Nat
      BY <1>3 DEF CanTransfer
    <3> QED
      BY <2>3, <3>1 DEF Reaped
  <2>8. after[src] \in Nat
    BY <2>1
  <2>9. SumOf(after) <= SumOf(ledger)
    BY <1>1, <2>2, <2>4, <2>5, <2>6, <2>7, <2>8
  <2> QED
    BY <2>9 DEF after
<1> QED
  BY <1>2, <1>3

(* The rewards of a block mint at most BlockReward: the miner's part and    *)
(* the rounded shares of the stakers' part.                                 *)
LEMMA RewardsBounded ==
    ASSUME NEW ledger \in [Accounts -> Nat], NEW miner \in Accounts,
           NEW stakes \in [Accounts -> Nat]
    PROVE  SumOf(distribute_rewards(ledger, miner, stakes,
                                    calculate_block_reward(BlockReward)))
              <= SumOf(ledger) + BlockReward
<1> DEFINE reward == calculate_block_reward(BlockReward)
           paid   == distribute_rewards(ledger, miner, stakes, reward)
           part   == reward.stakers_reward
           share  == [a \in Accounts |-> staker_reward(part, stakes, a)]
           zero   == [a \in Accounts |-> 0]
           own    == [a \in Accounts |-> IF a = miner THEN reward.miner_reward ELSE 0]
           both   == [a \in Accounts |-> own[a] + share[a]]
           top    == [a \in Accounts |-> ledger[a] + both[a]]
<1>1. /\ reward.miner_reward \in Nat /\ part \in Nat
      /\ reward.miner_reward + part = BlockReward /\ BlockReward \in Nat
  BY ConfigAssumption DEF calculate_block_reward
<1>2. \A a \in Accounts :
         paid[a] = deposit_creating(deposit_creating(ledger[a], own[a]), share[a])
  BY DEF distribute_rewards
<1>3. paid \in [Accounts -> Nat]
  BY RewardsGrow
<1> HIDE DEF reward, paid
<1>4. share \in [Accounts -> Nat] /\ SumOf(share) <= part
  <2> HIDE DEF part
  <2> QED
    BY <1>1, SharesWithinPart
<1>5. /\ own \in [Accounts -> Nat] /\ zero \in [Accounts -> Nat]
      /\ \A a \in Accounts : a # miner => own[a] = zero[a]
      /\ own[miner] = reward.miner_reward /\ zero[miner] = 0
      /\ \A a \in Accounts : zero[a] = 0
  BY <1>1
<1> HIDE DEF share, own, zero, part
<1>6. SumOf(own) = reward.miner_reward
  <2>1. SumOf(own) - SumOf(zero) = own[miner] - zero[miner]
    BY <1>5, SumUpdate
  <2>2. SumOf(zero) = 0 /\ SumOf(own) \in Nat
    BY <1>5, SumZero, CumulativeFacts
  <2> QED
    BY <1>1, <1>5, <2>1, <2>2
<1>7. both \in [Accounts -> Nat] /\ \A a \in Accounts : both[a] = own[a] + share[a]
  BY <1>4, <1>5
<1> HIDE DEF both
<1>8. top \in [Accounts -> Nat] /\ \A a \in Accounts : top[a] = ledger[a] + both[a]
  BY <1>7
<1> HIDE DEF top
<1>9. SumOf(both) = SumOf(own) + SumOf(share) /\ SumOf(top) = SumOf(ledger) + SumOf(both)
  BY <1>4, <1>5, <1>7, <1>8, SumAdd
<1>10. \A a \in Accounts : paid[a] <= top[a]
  <2> TAKE a \in Accounts
  <2>1. \A b \in Nat, v \in Nat : /\ deposit_creating(b, v) \in Nat
                                  /\ deposit_creating(b, v) <= b + v
    BY DEF deposit_creating
  <2> DEFINE mid == deposit_creating(ledger[a], own[a])
  <2>2. /\ mid \in Nat /\ mid <= ledger[a] + own[a]
        /\ ledger[a] \in Nat /\ own[a] \in Nat /\ share[a] \in Nat
    BY <1>4, <1>5, <2>1
  <2> HIDE DEF mid
  <2>3. deposit_creating(mid, share[a]) <= mid + share[a]
    BY <2>1, <2>2
  <2>4. deposit_creating(mid, share[a]) \in Nat
    BY <2>1, <2>2
  <2>5. paid[a] = deposit_creating(mid, share[a])
    BY <1>2 DEF mid
  <2> QED
    BY <1>7, <1>8, <2>2, <2>3, <2>4, <2>5
<1>11. SumOf(paid) <= SumOf(top)
  BY <1>3, <1>8, <1>10, SumMonotone
<1>12. /\ SumOf(paid) \in Nat /\ SumOf(top) \in Nat /\ SumOf(ledger) \in Nat
       /\ SumOf(own) \in Nat /\ SumOf(share) \in Nat /\ SumOf(both) \in Nat
  BY <1>3, <1>4, <1>5, <1>7, <1>8, CumulativeFacts
<1>13. SumOf(paid) <= SumOf(ledger) + BlockReward
  BY <1>1, <1>4, <1>6, <1>9, <1>11, <1>12
<1> QED
  BY <1>13 DEF paid, reward

(* The host blocks whose reward may have been paid.                         *)
Payable == IF stage = "open" /\ CurrentPhase # "Finalization" THEN now - 1 ELSE now

(* Only validate_block mints, once per block and at most BlockReward; no    *)
(* other step mints, and none takes a payable block back.                   *)
LEMMA IssuanceStep ==
    ASSUME TypeOK, Next
    PROVE  \/ SumOf(free') <= SumOf(free) /\ Payable' >= Payable
           \/ SumOf(free') <= SumOf(free) + BlockReward /\ Payable' = Payable + 1
<1>1. free \in [Accounts -> Nat] /\ SumOf(free) \in Nat /\ now \in Nat
  BY CumulativeFacts DEF TypeOK
<1>2. Payable \in Int
  BY <1>1 DEF Payable
<1>3. CASE Submit
  <2>1. free' = free /\ now' = now /\ stage' = stage
    BY <1>3 DEF Submit, SubmitBlock, extends_chain, block
  <2>2. CurrentPhase = "PowMining" /\ CurrentPhase' = "PosValidation"
    BY <1>3 DEF Submit, SubmitBlock
  <2>3. Payable' = Payable
    BY <2>1, <2>2 DEF Payable
  <2> QED
    BY <1>1, <1>2, <2>1, <2>3
<1>4. CASE Validate
  <2>1. PICK a \in Signers, n \in 0..MaxBlocks, r \in Seeds, s \in Keys \cup {BadSig} :
           ValidateBlock(a, n, r, s)
    BY <1>4 DEF Validate
  <2>2. BlockProducers[n] \in Accounts
    BY <2>1 DEF ValidateBlock, TypeOK, Signers
  <2>3. SumOf(free') <= SumOf(free) + BlockReward
    <3>1. free' = distribute_rewards(free, BlockProducers[n], Stakes,
                                     calculate_block_reward(BlockReward))
      BY <2>1 DEF ValidateBlock
    <3> QED
      BY <1>1, <2>2, <3>1, StakesType, RewardsBounded
  <2>4. /\ stage = "open" /\ CurrentPhase = "PosValidation"
        /\ CurrentPhase' = "Finalization" /\ now' = now
    BY <2>1 DEF ValidateBlock, block
  <2>5. Payable' = Payable + 1
    BY <1>1, <2>4 DEF Payable
  <2> QED
    BY <2>3, <2>5
<1>5. CASE OnInitialize
  <2>1. stage = "closed" /\ now' = now + 1 /\ free' = free
    BY <1>5 DEF OnInitialize
  <2>2. Payable' >= Payable
    BY <1>1, <2>1 DEF Payable
  <2> QED
    BY <1>1, <2>1, <2>2
<1>6. CASE OnFinalize
  <2>1. stage' = "closed" /\ now' = now /\ free' = free
    BY <1>6 DEF OnFinalize
  <2>2. Payable' >= Payable
    BY <1>1, <2>1 DEF Payable
  <2> QED
    BY <1>1, <2>1, <2>2
<1>7. CASE Other /\ ~OnInitialize /\ ~OnFinalize
  <2>1. UNCHANGED <<now, stage, CurrentPhase>>
    BY <1>7 DEF Other, Stake, Unstake, RegisterPqcKey, ReportMisbehavior,
                BalancesTransfer, block
  <2>2. Payable' = Payable
    BY <2>1 DEF Payable
  <2>3. CASE free' = free
    BY <1>1, <1>2, <2>2, <2>3
  <2>4. CASE \E src \in Accounts, dst \in Accounts, value \in Nat, keep \in BOOLEAN :
                /\ CanTransfer(free, src, dst, value, keep)
                /\ free' = AfterTransfer(free, src, dst, value)
    BY <1>1, <1>2, <2>2, <2>4, TransferMintsNothing
  <2> QED
    <3>1. CASE \E a \in Signers, amount \in Amounts : Stake(a, amount)
      BY <2>4, <3>1, InputAssumption, ConfigAssumption DEF Stake, Signers
    <3>2. CASE \E a \in Signers, amount \in Amounts : Unstake(a, amount)
      BY <2>4, <3>2, InputAssumption, ConfigAssumption DEF Unstake, Signers
    <3>3. CASE \E a \in Signers, b \in Accounts, amount \in Transfers, k \in BOOLEAN :
                  BalancesTransfer(a, b, amount, k)
      BY <2>4, <3>3, InputAssumption DEF BalancesTransfer, Signers
    <3>4. CASE \/ \E a \in Signers, k \in Keys : RegisterPqcKey(a, k)
               \/ \E a \in Accounts, reason \in Reports : ReportMisbehavior(a, reason)
      BY <2>3, <3>4 DEF RegisterPqcKey, ReportMisbehavior
    <3> QED
      BY <1>7, <3>1, <3>2, <3>3, <3>4 DEF Other
<1> QED
  BY <1>3, <1>4, <1>5, <1>6, <1>7 DEF Next, Other

(* Issuance never exceeds the genesis balances and one BlockReward for each *)
(* host block so far (before its validation, each earlier one).             *)
THEOREM IssuanceTheorem == Spec => []IssuanceCapped
<1> DEFINE Cap == SumOf(InitialFree) + BlockReward * Payable
<1>1. IssuanceCapped <=> SumOf(free) <= Cap
  BY DEF IssuanceCapped, Payable
<1>2. SumOf(InitialFree) \in Nat /\ BlockReward \in Nat
  BY InputAssumption, ConfigAssumption, CumulativeFacts
<1>3. Init => IssuanceCapped
  <2> SUFFICES ASSUME Init PROVE SumOf(free) <= Cap
    BY <1>1
  <2>1. free = InitialFree /\ Payable = 0
    BY DEF Init, Payable
  <2> QED
    BY <1>2, <2>1
<1>4. TypeOK /\ IssuanceCapped /\ [Next]_vars => IssuanceCapped'
  <2> SUFFICES ASSUME TypeOK, IssuanceCapped, [Next]_vars
               PROVE  SumOf(free') <= SumOf(InitialFree) + BlockReward * Payable'
    BY DEF IssuanceCapped, Payable
  <2>1. SumOf(free) <= Cap
    BY <1>1
  <2>2. /\ SumOf(free) \in Nat /\ SumOf(free') \in Nat
        /\ Payable \in Int /\ Payable' \in Int
    <3>1. TypeOK'
      BY TypeStep
    <3>2. free \in [Accounts -> Nat] /\ now \in Nat
      BY DEF TypeOK
    <3>3. free' \in [Accounts -> Nat] /\ now' \in Nat
      BY <3>1 DEF TypeOK
    <3>4. SumOf(free) \in Nat
      BY <3>2, CumulativeFacts
    <3>5. SumOf(free') \in Nat
      BY <3>3, CumulativeFacts
    <3> QED
      BY <3>2, <3>3, <3>4, <3>5 DEF Payable
  <2>3. CASE SumOf(free') <= SumOf(free) /\ Payable' >= Payable
    <3>1. \E d \in Nat : Payable' = Payable + d
      <4>1. \A x, y \in Int : y >= x => y - x \in Nat /\ y = x + (y - x)
        OBVIOUS
      <4>2. Payable' - Payable \in Nat /\ Payable' = Payable + (Payable' - Payable)
        BY <2>2, <2>3, <4>1
      <4> QED
        BY <4>2
    <3> PICK d \in Nat : Payable' = Payable + d
      BY <3>1
    <3>2. /\ BlockReward * (Payable + d) = BlockReward * Payable + BlockReward * d
          /\ BlockReward * d \in Nat /\ BlockReward * Payable \in Int
      BY <1>2, <2>2, <3>1
    <3> QED
      BY <1>2, <2>1, <2>2, <2>3, <3>1, <3>2
  <2>4. CASE SumOf(free') <= SumOf(free) + BlockReward /\ Payable' = Payable + 1
    <3>1. /\ BlockReward * (Payable + 1) = BlockReward * Payable + BlockReward
          /\ BlockReward * Payable \in Int
      BY <1>2, <2>2
    <3> QED
      BY <1>2, <2>1, <2>2, <2>4, <3>1
  <2>5. CASE UNCHANGED vars
    <3>1. free' = free /\ Payable' = Payable
      BY <2>5 DEF vars, block, Payable
    <3> QED
      BY <2>1, <3>1
  <2> QED
    BY <2>3, <2>4, <2>5, IssuanceStep
<1> QED
  BY <1>3, <1>4, TypeCorrect, PTL DEF Spec
=============================================================================
