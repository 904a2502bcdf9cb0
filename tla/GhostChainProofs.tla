-------------------------- MODULE GhostChainProofs --------------------------
(***************************************************************************)
(* The stored chain and the phases of a block.  ChainContiguous,            *)
(* HeightBehindClock and FinalizationEndsWithBlock are proved together: the *)
(* first header to be stored in a host block needs the height bound of an   *)
(* open PowMining phase, which on_initialize restores from the weaker bound *)
(* of a closed block.  On top of them: every step of the pallet is a step   *)
(* of the abstract round (GhostRefinement), and the downtime check spares   *)
(* nobody who has been silent (GhostHistory).                               *)
(***************************************************************************)
EXTENDS GhostConsensusProofs, GhostRefinement, GhostHistory

ChainInv == /\ TypeOK
            /\ ChainContiguous
            /\ HeightBehindClock
            /\ FinalizationEndsWithBlock

(* The initial states satisfy the invariant.                                *)
LEMMA ChainInit == Init => ChainInv
<1> SUFFICES ASSUME Init PROVE ChainInv
  OBVIOUS
<1>1. TypeOK
  BY TypeInit
<1>2. \A n \in DOMAIN BlockHeaders : n = 0 /\ BlockHeaders[n] = GenesisHeader
  BY DEF Init, EmptyMap
<1>3. DOMAIN BlockProducers = {} /\ DOMAIN LastActiveBlock = {}
  BY DEF Init, EmptyMap
<1>4. ChainContiguous
  BY <1>2, <1>3 DEF ChainContiguous, GenesisHeader
<1>5. HeightBehindClock
  BY <1>2 DEF HeightBehindClock, Init
<1>6. FinalizationEndsWithBlock
  BY DEF FinalizationEndsWithBlock, Init
<1> QED
  BY <1>1, <1>4, <1>5, <1>6 DEF ChainInv

(* submit_block extends the chain by one block or replaces a stored one.    *)
LEMMA ChainSubmit ==
    ASSUME ChainInv, NEW miner \in Signers, NEW n \in 1..MaxBlocks,
           NEW header \in SubmittableHeaders(n), SubmitBlock(miner, header)
    PROVE  ChainContiguous' /\ HeightBehindClock' /\ FinalizationEndsWithBlock'
<1>1. header.number = n /\ n \in Nat \ {0}
  BY InputAssumption DEF SubmittableHeaders
<1>2. /\ BlockHeaders' = Insert(BlockHeaders, n, header)
      /\ BlockProducers' = Insert(BlockProducers, n, miner)
      /\ LastActiveBlock' = Insert(LastActiveBlock, miner, n)
      /\ n - 1 \in DOMAIN BlockHeaders
      /\ stage = "open" /\ CurrentPhase = "PowMining"
      /\ now' = now /\ CurrentPhase' = "PosValidation"
  BY <1>1 DEF SubmitBlock, extends_chain, block
<1>3. /\ DOMAIN BlockHeaders' = DOMAIN BlockHeaders \cup {n}
      /\ BlockHeaders'[n] = header
      /\ \A k \in DOMAIN BlockHeaders : k # n => BlockHeaders'[k] = BlockHeaders[k]
  BY <1>2 DEF Insert
<1>4. DOMAIN BlockProducers' = DOMAIN BlockProducers \cup {n}
  BY <1>2 DEF Insert
<1>5. /\ DOMAIN LastActiveBlock' = DOMAIN LastActiveBlock \cup {miner}
      /\ LastActiveBlock'[miner] = n
      /\ \A a \in DOMAIN LastActiveBlock :
            a # miner => LastActiveBlock'[a] = LastActiveBlock[a]
  BY <1>2 DEF Insert
<1>6. ChainContiguous'
  <2>1. ASSUME NEW k \in DOMAIN BlockHeaders'
        PROVE  /\ BlockHeaders'[k].number = k
               /\ k > 0 => k - 1 \in DOMAIN BlockHeaders'
    <3>1. CASE k = n
      BY <1>1, <1>2, <1>3, <3>1
    <3>2. CASE k # n
      BY <1>3, <2>1, <3>2 DEF ChainInv, ChainContiguous
    <3> QED
      BY <3>1, <3>2
  <2>2. DOMAIN BlockProducers' = DOMAIN BlockHeaders' \ {0}
    BY <1>1, <1>3, <1>4 DEF ChainInv, ChainContiguous
  <2>3. \A a \in DOMAIN LastActiveBlock' : LastActiveBlock'[a] \in DOMAIN BlockProducers'
    BY <1>4, <1>5 DEF ChainInv, ChainContiguous
  <2> QED
    BY <2>1, <2>2, <2>3 DEF ChainContiguous
<1>7. HeightBehindClock'
  <2>1. now \in Nat /\ n - 1 < now
    BY <1>2 DEF ChainInv, HeightBehindClock, TypeOK
  <2>2. \A k \in DOMAIN BlockHeaders' : k <= now
    BY <1>1, <1>3, <2>1 DEF ChainInv, HeightBehindClock
  <2> QED
    BY <1>2, <2>2 DEF HeightBehindClock
<1>8. FinalizationEndsWithBlock'
  BY <1>2 DEF FinalizationEndsWithBlock
<1> QED
  BY <1>6, <1>7, <1>8

(* validate_block re-signs a stored block in place.                         *)
LEMMA ChainValidate ==
    ASSUME ChainInv, NEW validator \in Signers, NEW n \in 0..MaxBlocks,
           NEW random \in Seeds, NEW signature,
           ValidateBlock(validator, n, random, signature)
    PROVE  ChainContiguous' /\ HeightBehindClock' /\ FinalizationEndsWithBlock'
<1> DEFINE signed == [BlockHeaders[n] EXCEPT
                         !.validator_signature = Some(hash_of(<<validator, n>>)),
                         !.pqc_signature = Some(signature)]
<1>1. /\ n \in DOMAIN BlockHeaders /\ n \in DOMAIN BlockProducers
      /\ BlockHeaders' = Insert(BlockHeaders, n, signed)
      /\ LastActiveBlock' = Insert(LastActiveBlock, validator, n)
      /\ BlockProducers' = BlockProducers
      /\ stage' = "open" /\ now' = now /\ CurrentPhase' = "Finalization"
  BY DEF ValidateBlock, block
<1>2. signed.number = BlockHeaders[n].number
  <2>1. IsHeader(BlockHeaders[n])
    BY <1>1 DEF ChainInv, TypeOK
  <2> QED
    BY <2>1, SignedHeader
<1> HIDE DEF signed
<1>3. /\ DOMAIN BlockHeaders' = DOMAIN BlockHeaders
      /\ \A k \in DOMAIN BlockHeaders : BlockHeaders'[k].number = BlockHeaders[k].number
  <2>1. DOMAIN BlockHeaders' = DOMAIN BlockHeaders \cup {n}
    BY <1>1 DEF Insert
  <2>2. BlockHeaders'[n] = signed
    BY <1>1 DEF Insert
  <2>3. \A k \in DOMAIN BlockHeaders : k # n => BlockHeaders'[k] = BlockHeaders[k]
    BY <1>1 DEF Insert
  <2> QED
    BY <1>1, <1>2, <2>1, <2>2, <2>3
<1>4. \A a \in DOMAIN LastActiveBlock' : LastActiveBlock'[a] \in DOMAIN BlockProducers'
  <2>1. /\ DOMAIN LastActiveBlock' = DOMAIN LastActiveBlock \cup {validator}
        /\ LastActiveBlock'[validator] = n
        /\ \A a \in DOMAIN LastActiveBlock :
              a # validator => LastActiveBlock'[a] = LastActiveBlock[a]
    BY <1>1 DEF Insert
  <2> QED
    BY <1>1, <2>1 DEF ChainInv, ChainContiguous
<1>5. ChainContiguous'
  BY <1>1, <1>3, <1>4 DEF ChainInv, ChainContiguous
<1>6. HeightBehindClock'
  BY <1>1, <1>3 DEF ChainInv, HeightBehindClock
<1>7. FinalizationEndsWithBlock'
  BY <1>1 DEF FinalizationEndsWithBlock
<1> QED
  BY <1>5, <1>6, <1>7

(* The other steps leave the chain alone; the hooks move the clock and close *)
(* the Finalization phase.                                                  *)
LEMMA ChainOther ==
    ASSUME ChainInv, Other
    PROVE  ChainContiguous' /\ HeightBehindClock' /\ FinalizationEndsWithBlock'
<1>1. UNCHANGED <<BlockHeaders, BlockProducers, LastActiveBlock>>
  BY DEF Other, OnInitialize, OnFinalize, Stake, Unstake, RegisterPqcKey,
         ReportMisbehavior, BalancesTransfer, mining, staking
<1>2. ChainContiguous'
  BY <1>1 DEF ChainInv, ChainContiguous
<1>3. CASE OnInitialize
  <2>1. now' = now + 1 /\ CurrentPhase' = CurrentPhase /\ stage' = "open" /\ now \in Nat
    BY <1>3 DEF OnInitialize, ChainInv, TypeOK
  <2>2. \A k \in DOMAIN BlockHeaders' : k \in Nat /\ k <= now
    BY <1>1 DEF ChainInv, HeightBehindClock, TypeOK
  <2>3. \A k \in DOMAIN BlockHeaders' : k <= now' /\ k < now'
    BY <2>1, <2>2
  <2> QED
    BY <1>2, <2>1, <2>3 DEF HeightBehindClock, FinalizationEndsWithBlock
<1>4. CASE OnFinalize
  <2>1. now' = now /\ stage' = "closed" /\ CurrentPhase' # "Finalization"
    BY <1>4 DEF OnFinalize
  <2> QED
    BY <1>1, <1>2, <2>1 DEF ChainInv, HeightBehindClock, FinalizationEndsWithBlock
<1>5. CASE ~OnInitialize /\ ~OnFinalize
  <2>1. UNCHANGED <<CurrentPhase, now, stage>>
    BY <1>5 DEF Other, Stake, Unstake, RegisterPqcKey, ReportMisbehavior,
                BalancesTransfer, block
  <2> QED
    BY <1>1, <1>2, <2>1 DEF ChainInv, HeightBehindClock, FinalizationEndsWithBlock
<1> QED
  BY <1>3, <1>4, <1>5

(* The invariant is inductive.                                              *)
LEMMA ChainStep == ChainInv /\ [Next]_vars => ChainInv'
<1> SUFFICES ASSUME ChainInv, [Next]_vars PROVE ChainInv'
  OBVIOUS
<1>1. TypeOK'
  BY TypeStep DEF ChainInv
<1>2. CASE Submit
  BY <1>1, <1>2, ChainSubmit DEF Submit, ChainInv
<1>3. CASE Validate
  BY <1>1, <1>3, ChainValidate DEF Validate, ChainInv
<1>4. CASE Other
  BY <1>1, <1>4, ChainOther DEF ChainInv
<1>5. CASE UNCHANGED vars
  BY <1>1, <1>5 DEF vars, mining, staking, block, ChainInv, ChainContiguous,
                    HeightBehindClock, FinalizationEndsWithBlock
<1> QED
  BY <1>2, <1>3, <1>4, <1>5 DEF Next

(* The stored chain is always contiguous, and every stored block but the    *)
(* genesis block has a miner to pay.                                        *)
THEOREM ContiguousTheorem == Spec => []ChainContiguous
<1>1. ChainInv => ChainContiguous
  BY DEF ChainInv
<1> QED
  BY <1>1, ChainInit, ChainStep, PTL DEF Spec

(* The Ghost chain never gets ahead of the host chain.                      *)
THEOREM HeightTheorem == Spec => []HeightBehindClock
<1>1. ChainInv => HeightBehindClock
  BY DEF ChainInv
<1> QED
  BY <1>1, ChainInit, ChainStep, PTL DEF Spec

-----------------------------------------------------------------------------
(* Whoever validates is selected by weight, so it has stake, and the block  *)
(* it validates has a producer.                                             *)
LEMMA BackedStep ==
    ASSUME TypeOK, NEW v \in Signers, NEW n \in 0..MaxBlocks, NEW r \in Seeds,
           NEW s, ValidateBlock(v, n, r, s)
    PROVE  /\ v \in DOMAIN ValidatorStakes /\ n \in DOMAIN BlockProducers
           /\ ValidatorStakes[v] > 0
           /\ v \in DOMAIN LastActiveBlock' /\ LastActiveBlock'[v] = n
           /\ BlockHeaders'[n].validator_signature = Some(hash_of(<<v, n>>))
           /\ PqcRequired =>
                 /\ Std
                 /\ v \in DOMAIN ValidatorPqcPublicKeys
                 /\ BlockHeaders'[n].pqc_signature = Some(ValidatorPqcPublicKeys[v])
<1> DEFINE signed == [BlockHeaders[n] EXCEPT
                         !.validator_signature = Some(hash_of(<<v, n>>)),
                         !.pqc_signature = Some(s)]
<1>1. /\ v \in DOMAIN ValidatorStakes /\ n \in DOMAIN BlockProducers
      /\ n \in DOMAIN BlockHeaders
      /\ select_pos_validator(Weights, r) = v
      /\ BlockHeaders' = Insert(BlockHeaders, n, signed)
      /\ LastActiveBlock' = Insert(LastActiveBlock, v, n)
      /\ PqcRequired =>
            /\ v \in DOMAIN ValidatorPqcPublicKeys
            /\ verify_pqc_signature(s, ValidatorPqcPublicKeys[v])
  BY DEF ValidateBlock
<1>2. signed.validator_signature = Some(hash_of(<<v, n>>)) /\ signed.pqc_signature = Some(s)
  <2>1. IsHeader(BlockHeaders[n])
    BY <1>1 DEF TypeOK
  <2> QED
    BY <2>1 DEF IsHeader
<1> HIDE DEF signed
<1>3. BlockHeaders'[n] = signed
  BY <1>1 DEF Insert
<1>4. v \in DOMAIN LastActiveBlock' /\ LastActiveBlock'[v] = n
  BY <1>1 DEF Insert
<1>5. ValidatorStakes[v] > 0
  <2>1. Weights \in [Accounts -> Nat] /\ r \in Nat /\ v \in Accounts
    BY StakesType, InputAssumption DEF Signers
  <2>2. wrapping(SumOf(Weights)) # 0
    <3>1. ASSUME wrapping(SumOf(Weights)) = 0 PROVE select_pos_validator(Weights, r) = None
      BY <3>1 DEF select_pos_validator, SumOf
    <3> QED
      BY <1>1, <2>1, <3>1 DEF None, Accounts
  <2>3. Weights[v] > 0
    BY <1>1, <2>1, <2>2, SelectionHasWeight
  <2>4. Stakes[v] = ValidatorStakes[v] /\ Stakes[v] \in Nat
    BY <1>1, <2>1, StakesType DEF Stakes, ValueOr
  <2>5. Weights[v] = AtMost(Stakes[v], MaxU64)
    BY <2>1 DEF Weights
  <2> QED
    BY <2>3, <2>4, <2>5, MaxU64Assumption DEF AtMost
<1>6. PqcRequired => /\ Std /\ v \in DOMAIN ValidatorPqcPublicKeys
                     /\ s = ValidatorPqcPublicKeys[v]
  BY <1>1 DEF verify_pqc_signature
<1> QED
  BY <1>1, <1>2, <1>3, <1>4, <1>5, <1>6

(* A block is finalized only through a staked validator of a produced block, *)
(* with a verified signature where PQC is required.                         *)
THEOREM BackedTheorem == Spec => ValidationIsBacked
<1> DEFINE Backed ==
      CurrentPhase = "PosValidation" /\ CurrentPhase' = "Finalization" =>
          \E v \in DOMAIN ValidatorStakes, n \in DOMAIN BlockProducers :
             /\ ValidatorStakes[v] > 0
             /\ v \in DOMAIN LastActiveBlock' /\ LastActiveBlock'[v] = n
             /\ BlockHeaders'[n].validator_signature = Some(hash_of(<<v, n>>))
             /\ PqcRequired =>
                   /\ Std
                   /\ v \in DOMAIN ValidatorPqcPublicKeys
                   /\ BlockHeaders'[n].pqc_signature
                         = Some(ValidatorPqcPublicKeys[v])
<1>1. TypeOK /\ Next => Backed
  <2> SUFFICES ASSUME TypeOK, Next,
                      CurrentPhase = "PosValidation", CurrentPhase' = "Finalization"
               PROVE  Backed
    OBVIOUS
  <2>1. CASE Validate
    BY <2>1, BackedStep DEF Validate
  <2>2. CASE Submit
    BY <2>2 DEF Submit, SubmitBlock, extends_chain
  <2>3. CASE Other
    BY <2>3 DEF Other, OnInitialize, OnFinalize, Stake, Unstake, RegisterPqcKey,
                ReportMisbehavior, BalancesTransfer
  <2> QED
    BY <2>1, <2>2, <2>3 DEF Next
<1>2. TypeOK /\ [Next]_vars => [Backed]_vars
  BY <1>1
<1> QED
  BY <1>2, TypeCorrect, PTL DEF Spec, ValidationIsBacked

-----------------------------------------------------------------------------
(* From a genesis without a Ghost header nothing is ever mined: every header *)
(* would need a stored parent.                                              *)
THEOREM UnseededTheorem == Spec => []UnseededNeverMines
<1>1. Init => UnseededNeverMines
  BY DEF Init, EmptyMap, UnseededNeverMines
<1>2. UnseededNeverMines /\ [Next]_vars => UnseededNeverMines'
  <2> SUFFICES ASSUME UnseededNeverMines, [Next]_vars, ~Seeded
               PROVE  UnseededNeverMines'
    BY DEF UnseededNeverMines
  <2>1. /\ DOMAIN BlockHeaders = {} /\ CurrentPhase = "PowMining"
        /\ DOMAIN LastActiveBlock = {} /\ SlashingRecords = {}
    BY DEF UnseededNeverMines
  <2>2. ~Submit /\ ~Validate
    BY <2>1 DEF Submit, SubmitBlock, extends_chain, Validate, ValidateBlock
  <2>3. CASE OnInitialize
    <3>1. Offline(now + 1) = {}
      BY <2>1 DEF Offline
    <3>2. SlashingRecords' = {}
      BY <2>1, <2>3, <3>1 DEF OnInitialize, check_downtime_slashing
    <3> QED
      BY <2>1, <2>3, <3>2 DEF OnInitialize, mining, UnseededNeverMines
  <2>4. CASE OnFinalize
    BY <2>1, <2>4 DEF OnFinalize, mining, staking, reports, UnseededNeverMines
  <2>5. CASE Other /\ ~OnInitialize /\ ~OnFinalize
    BY <2>1, <2>5 DEF Other, Stake, Unstake, RegisterPqcKey, ReportMisbehavior,
                      BalancesTransfer, mining, staking, reports, UnseededNeverMines
  <2>6. CASE UNCHANGED vars
    BY <2>1, <2>6 DEF vars, mining, staking, reports, UnseededNeverMines
  <2> QED
    BY <2>2, <2>3, <2>4, <2>5, <2>6 DEF Next, Other
<1> QED
  BY <1>1, <1>2, PTL DEF Spec
-----------------------------------------------------------------------------
(* The refinement of GhostRound.  The escrow account is the one account     *)
(* that can be reported although nobody signs for it: its stake has to be   *)
(* known to stay 0, or such a report would move a validator the abstract    *)
(* round does not know.                                                     *)
Backing == {a \in Accounts : Stakes[a] > 0}

EscrowUnstaked == Stakes[Escrow] = 0

RefinementInv == ChainInv /\ EscrowUnstaked

(* What an Insert into ValidatorStakes does to the stakes.                  *)
LEMMA StakeInserted ==
    ASSUME NEW a \in Accounts, NEW v, ValidatorStakes' = Insert(ValidatorStakes, a, v)
    PROVE  Stakes'[a] = v /\ \A b \in Accounts \ {a} : Stakes'[b] = Stakes[b]
<1>1. /\ a \in DOMAIN ValidatorStakes' /\ ValidatorStakes'[a] = v
      /\ \A b \in Accounts \ {a} :
            /\ b \in DOMAIN ValidatorStakes' <=> b \in DOMAIN ValidatorStakes
            /\ b \in DOMAIN ValidatorStakes => ValidatorStakes'[b] = ValidatorStakes[b]
  BY DEF Insert
<1> QED
  BY <1>1 DEF Stakes, ValueOr

(* Hence it backs or unbacks one account.                                   *)
LEMMA OneRestaked ==
    ASSUME NEW a \in Accounts, NEW v, ValidatorStakes' = Insert(ValidatorStakes, a, v)
    PROVE  Backing' \in {Backing \cup {a}, Backing \ {a}}
<1>1. \A b \in Accounts \ {a} : Stakes'[b] = Stakes[b]
  BY StakeInserted
<1>2. Backing' = {b \in Accounts : Stakes'[b] > 0}
  BY DEF Backing
<1>3. CASE Stakes'[a] > 0
  <2>1. Backing' = Backing \cup {a}
    BY <1>1, <1>2, <1>3 DEF Backing
  <2> QED
    BY <2>1
<1>4. CASE ~(Stakes'[a] > 0)
  <2>1. Backing' = Backing \ {a}
    BY <1>1, <1>2, <1>4 DEF Backing
  <2> QED
    BY <2>1
<1> QED
  BY <1>3, <1>4

(* A slash of the downtime check keeps every stake or lowers it, and leaves *)
(* the stake of an account that has none at 0.                              *)
LEMMA StakesAfterBegin ==
    ASSUME TypeOK, OnInitialize
    PROVE  \A a \in Accounts : Stakes'[a] \in Nat /\ Stakes'[a] <= Stakes[a]
<1>1. \A a \in DOMAIN ValidatorStakes : ValidatorStakes[a] \in Nat
  BY DEF TypeOK
<1>2. /\ DOMAIN ValidatorStakes' = DOMAIN ValidatorStakes
      /\ \A a \in DOMAIN ValidatorStakes :
            ValidatorStakes'[a] \in Nat /\ ValidatorStakes'[a] <= ValidatorStakes[a]
  <2>1. CASE UNCHANGED ValidatorStakes
    BY <1>1, <2>1
  <2>2. CASE check_downtime_slashing(now + 1)
    <3>1. /\ DOMAIN ValidatorStakes' = DOMAIN ValidatorStakes
          /\ \A a \in DOMAIN ValidatorStakes :
                ValidatorStakes'[a] \in {ValidatorStakes[a],
                    saturating_sub(ValidatorStakes[a], downtime_slash(a))}
      BY <2>2 DEF check_downtime_slashing
    <3>2. ASSUME NEW a \in DOMAIN ValidatorStakes
          PROVE  downtime_slash(a) \in Nat
      <4>1. "Other" \in SlashingReasons
        BY DEF SlashingReasons
      <4> QED
        BY <1>1, <4>1, SlashAmountType DEF downtime_slash
    <3>3. ASSUME NEW a \in DOMAIN ValidatorStakes
          PROVE  LET left == saturating_sub(ValidatorStakes[a], downtime_slash(a))
                 IN  left \in Nat /\ left <= ValidatorStakes[a]
      BY <1>1, <3>2, SlashBound
    <3> QED
      BY <1>1, <3>1, <3>3
  <2> QED
    BY <2>1, <2>2 DEF OnInitialize
<1> QED
  BY <1>1, <1>2 DEF Stakes, ValueOr

(* The escrow account never has stake.                                      *)
LEMMA UnstakedStep ==
    ASSUME TypeOK, EscrowUnstaked, [Next]_vars
    PROVE  EscrowUnstaked'
<1>1. Stakes \in [Accounts -> Nat] /\ Escrow \in Accounts
  BY StakesType, ConfigAssumption
<1>2. CASE UNCHANGED ValidatorStakes
  BY <1>2 DEF EscrowUnstaked, Stakes
<1>3. CASE OnInitialize
  <2>1. Stakes'[Escrow] \in Nat /\ Stakes'[Escrow] <= Stakes[Escrow]
    BY <1>1, <1>3, StakesAfterBegin
  <2> QED
    BY <2>1 DEF EscrowUnstaked
<1>4. ASSUME NEW a \in Signers, NEW v, ValidatorStakes' = Insert(ValidatorStakes, a, v)
      PROVE  EscrowUnstaked'
  <2>1. a \in Accounts /\ Escrow \in Accounts \ {a}
    BY <1>1 DEF Signers
  <2> QED
    BY <1>4, <2>1, StakeInserted DEF EscrowUnstaked
<1>5. ASSUME NEW a \in Accounts, NEW reason \in Reports, ReportMisbehavior(a, reason)
      PROVE  EscrowUnstaked'
  <2> DEFINE left == saturating_sub(Stakes[a], slash_amount(Stakes[a], slash_percentage(reason)))
  <2>1. ValidatorStakes' = Insert(ValidatorStakes, a, left)
    BY <1>5 DEF ReportMisbehavior
  <2>2. left \in Nat /\ left <= Stakes[a]
    <3>1. reason \in SlashingReasons /\ Stakes[a] \in Nat
      BY <1>1, InputAssumption
    <3> QED
      BY <3>1, SlashAmountType, SlashBound
  <2> HIDE DEF left
  <2>3. Stakes'[a] = left /\ \A b \in Accounts \ {a} : Stakes'[b] = Stakes[b]
    BY <2>1, StakeInserted
  <2> QED
    BY <1>1, <2>2, <2>3 DEF EscrowUnstaked
<1>6. CASE Submit \/ Validate
  BY <1>2, <1>6 DEF Submit, SubmitBlock, extends_chain, Validate, ValidateBlock
<1>7. CASE Other
  BY <1>2, <1>3, <1>4, <1>5, <1>7
     DEF Other, OnFinalize, Stake, Unstake, RegisterPqcKey, BalancesTransfer, staking
<1>8. CASE UNCHANGED vars
  BY <1>2, <1>8 DEF vars, staking
<1> QED
  BY <1>6, <1>7, <1>8 DEF Next

(* The strengthened invariant is inductive.                                 *)
LEMMA RefinementInvariant == Spec => []RefinementInv
<1>1. Init => RefinementInv
  <2>1. Init => EscrowUnstaked
    BY ConfigAssumption DEF Init, EmptyMap, EscrowUnstaked, Stakes, ValueOr
  <2> QED
    BY <2>1, ChainInit DEF RefinementInv
<1>2. RefinementInv /\ [Next]_vars => RefinementInv'
  BY ChainStep, UnstakedStep DEF RefinementInv, ChainInv
<1> QED
  BY <1>1, <1>2, PTL DEF Spec

(* Every step of the pallet is a step of the round, or leaves the phase,    *)
(* the stage and the backing alone.                                         *)
LEMMA RoundStep ==
    ASSUME RefinementInv, [Next]_vars
    PROVE  Round!Next \/ UNCHANGED <<CurrentPhase, stage, Backing>>
<1>1. TypeOK
  BY DEF RefinementInv, ChainInv
<1>2. ASSUME UNCHANGED ValidatorStakes PROVE Backing' = Backing
  BY <1>2 DEF Backing, Stakes
<1>3. CASE Submit
  <2>1. /\ stage = "open" /\ CurrentPhase = "PowMining"
        /\ CurrentPhase' = "PosValidation" /\ stage' = stage
        /\ ValidatorStakes' = ValidatorStakes
    BY <1>3 DEF Submit, SubmitBlock, extends_chain, block
  <2>2. Round!Mine
    BY <1>2, <2>1 DEF Round!Mine, Backing
  <2> QED
    BY <2>2 DEF Round!Next
<1>4. CASE Validate
  <2>1. PICK v \in Signers, n \in 0..MaxBlocks, r \in Seeds, s \in Keys \cup {BadSig} :
             ValidateBlock(v, n, r, s)
    BY <1>4 DEF Validate
  <2>2. /\ stage = "open" /\ CurrentPhase = "PosValidation"
        /\ CurrentPhase' = "Finalization" /\ stage' = stage
        /\ ValidatorStakes' = ValidatorStakes
    BY <2>1 DEF ValidateBlock, block
  <2>3. v \in DOMAIN ValidatorStakes /\ ValidatorStakes[v] > 0 /\ v \in Accounts
    BY <1>1, <2>1, BackedStep DEF Signers
  <2>4. v \in Backing
    BY <2>3 DEF Backing, Stakes, ValueOr
  <2>5. Round!Validate
    BY <1>2, <2>2, <2>4 DEF Round!Validate, Backing
  <2> QED
    BY <2>5 DEF Round!Next
<1>5. CASE OnInitialize
  <2>1. /\ stage = "closed" /\ stage' = "open" /\ CurrentPhase' = CurrentPhase
    BY <1>5 DEF OnInitialize
  <2>2. CurrentPhase # "Finalization"
    BY <2>1 DEF RefinementInv, ChainInv, FinalizationEndsWithBlock
  <2>3. Backing' \subseteq Backing
    <3>1. \A a \in Accounts : /\ Stakes[a] \in Nat /\ Stakes'[a] \in Nat
                              /\ Stakes'[a] <= Stakes[a]
      BY <1>1, <1>5, StakesAfterBegin, StakesType
    <3>2. \A a \in Accounts : Stakes'[a] > 0 => Stakes[a] > 0
      BY <3>1
    <3> QED
      BY <3>2 DEF Backing
  <2>4. Round!Begin
    BY <2>1, <2>2, <2>3 DEF Round!Begin, Backing
  <2> QED
    BY <2>4 DEF Round!Next
<1>6. CASE OnFinalize
  <2>1. /\ stage = "open" /\ stage' = "closed"
        /\ CurrentPhase' = IF CurrentPhase = "Finalization" THEN "PowMining" ELSE CurrentPhase
        /\ ValidatorStakes' = ValidatorStakes
    BY <1>6 DEF OnFinalize, staking
  <2>2. Round!End
    BY <1>2, <2>1 DEF Round!End, Backing
  <2> QED
    BY <2>2 DEF Round!Next
<1>7. ASSUME NEW a \in Signers, NEW v, ValidatorStakes' = Insert(ValidatorStakes, a, v),
             stage = "open", UNCHANGED <<CurrentPhase, stage>>
      PROVE  Round!Next
  <2>1. Backing' \in {Backing \cup {a}, Backing \ {a}}
    BY <1>7, OneRestaked DEF Signers
  <2>2. Round!Restake
    BY <1>7, <2>1 DEF Round!Restake, Backing
  <2> QED
    BY <2>2 DEF Round!Next
<1>8. CASE \E a \in Signers, amount \in Amounts : Stake(a, amount) \/ Unstake(a, amount)
  BY <1>7, <1>8 DEF Stake, Unstake, block
<1>9. CASE \E a \in Accounts, reason \in Reports : ReportMisbehavior(a, reason)
  <2>1. PICK a \in Accounts, reason \in Reports : ReportMisbehavior(a, reason)
    BY <1>9
  <2>2. PICK v : ValidatorStakes' = Insert(ValidatorStakes, a, v)
    BY <2>1 DEF ReportMisbehavior
  <2>3. stage = "open" /\ UNCHANGED <<CurrentPhase, stage>>
    BY <2>1 DEF ReportMisbehavior, block
  <2>4. CASE a \in Signers
    BY <1>7, <2>2, <2>3, <2>4
  <2>5. CASE a = Escrow
    <3>1. Stakes'[Escrow] = 0 /\ Stakes[Escrow] = 0
      BY <1>1, UnstakedStep DEF RefinementInv, EscrowUnstaked
    <3>2. \A b \in Accounts : Stakes'[b] = Stakes[b]
      BY <2>2, <2>5, <3>1, StakeInserted
    <3>3. Backing' = Backing
      BY <3>2 DEF Backing
    <3> QED
      BY <2>3, <3>3
  <2> QED
    BY <2>4, <2>5 DEF Signers
<1>10. CASE \/ \E a \in Signers, k \in Keys : RegisterPqcKey(a, k)
            \/ \E a \in Signers, b \in Accounts, amount \in Transfers, k \in BOOLEAN :
                  BalancesTransfer(a, b, amount, k)
            \/ UNCHANGED vars
  <2>1. UNCHANGED <<CurrentPhase, stage, ValidatorStakes>>
    BY <1>10 DEF RegisterPqcKey, BalancesTransfer, vars, staking, block
  <2> QED
    BY <1>2, <2>1
<1> QED
  BY <1>3, <1>4, <1>5, <1>6, <1>8, <1>9, <1>10 DEF Next, Other

(* The pallet implements the abstract round, whatever the configuration and *)
(* whatever is submitted, staked, reported or transferred.                  *)
THEOREM RoundTheorem == Spec => ImplementsRound
<1>1. Init => Round!Init
  <2> SUFFICES ASSUME Init PROVE Round!Init
    OBVIOUS
  <2>1. \A a \in Accounts : Stakes[a] = 0
    BY DEF Init, EmptyMap, Stakes, ValueOr
  <2>2. {a \in Accounts : Stakes[a] > 0} = {}
    BY <2>1
  <2> QED
    BY <2>2 DEF Init, Round!Init
<1>2. RefinementInv /\ [Next]_vars => [Round!Next]_<<CurrentPhase, stage, Backing>>
  BY RoundStep
<1> QED
  BY <1>1, <1>2, RefinementInvariant, PTL DEF Spec, ImplementsRound, Round!Spec, Backing
-----------------------------------------------------------------------------
(* The downtime check.  LastActiveBlock holds the number of a Ghost block   *)
(* where lastSeen holds the host block of the call: since the Ghost chain   *)
(* is never ahead, the pallet's record is never the younger one.  A record  *)
(* of an earlier check carries an earlier block, so each slash leaves a     *)
(* record that was not there.                                               *)
SeenInv ==
    /\ DOMAIN lastSeen = DOMAIN LastActiveBlock
    /\ \A a \in DOMAIN LastActiveBlock :
          lastSeen[a] \in Nat /\ LastActiveBlock[a] <= lastSeen[a]
    /\ \A r \in SlashingRecords : r[3] <= now

HistoryInv == ChainInv /\ SeenInv

(* The history only watches: its steps are steps of the pallet.             *)
LEMMA HistoryWatches == [HNext]_<<vars, history>> => [Next]_vars
<1>1. HNext => Next
  BY DEF HNext, HSubmit, HValidate, Next, Submit, Validate
<1> QED
  BY <1>1

(* A call that makes an account active at a Ghost block keeps the relation, *)
(* for that block is at most as high as the host block.                     *)
LEMMA SeenActive ==
    ASSUME HistoryInv, NEW a, NEW n \in Nat, n <= now,
           LastActiveBlock' = Insert(LastActiveBlock, a, n),
           lastSeen' = Insert(lastSeen, a, now),
           UNCHANGED <<SlashingRecords, now>>
    PROVE  SeenInv'
<1>1. now \in Nat
  BY DEF HistoryInv, ChainInv, TypeOK
<1>2. /\ DOMAIN lastSeen = DOMAIN LastActiveBlock
      /\ \A b \in DOMAIN LastActiveBlock :
            lastSeen[b] \in Nat /\ LastActiveBlock[b] <= lastSeen[b]
      /\ \A r \in SlashingRecords : r[3] <= now
  BY DEF HistoryInv, SeenInv
<1>3. /\ DOMAIN LastActiveBlock' = DOMAIN LastActiveBlock \cup {a}
      /\ LastActiveBlock'[a] = n
      /\ \A b \in DOMAIN LastActiveBlock :
            b # a => LastActiveBlock'[b] = LastActiveBlock[b]
  BY DEF Insert
<1>4. /\ DOMAIN lastSeen' = DOMAIN lastSeen \cup {a}
      /\ lastSeen'[a] = now
      /\ \A b \in DOMAIN lastSeen : b # a => lastSeen'[b] = lastSeen[b]
  BY DEF Insert
<1>5. ASSUME NEW b \in DOMAIN LastActiveBlock'
      PROVE  lastSeen'[b] \in Nat /\ LastActiveBlock'[b] <= lastSeen'[b]
  <2>1. CASE b = a
    BY <1>1, <1>3, <1>4, <2>1
  <2>2. CASE b # a
    BY <1>2, <1>3, <1>4, <1>5, <2>2
  <2> QED
    BY <2>1, <2>2
<1> QED
  BY <1>2, <1>3, <1>4, <1>5 DEF SeenInv

(* The records of a downtime check carry the block it runs in.              *)
LEMMA SlashingRecorded ==
    ASSUME HistoryInv, OnInitialize
    PROVE  /\ now \in Nat /\ now' = now + 1
           /\ \A r \in SlashingRecords' : r \in SlashingRecords \/ r[3] = now + 1
           /\ (now + 1) % SlashInterval = 0 =>
                 \A a \in Offline(now + 1) :
                     <<a, downtime_slash(a), now + 1>> \in SlashingRecords'
<1>1. now \in Nat /\ now' = now + 1
  BY DEF HistoryInv, ChainInv, TypeOK, OnInitialize
<1>2. CASE (now + 1) % SlashInterval = 0
  <2>1. SlashingRecords' = SlashingRecords \cup
            {<<a, downtime_slash(a), now + 1>> : a \in Offline(now + 1)}
    BY <1>2 DEF OnInitialize, check_downtime_slashing
  <2> QED
    BY <1>1, <2>1
<1>3. CASE (now + 1) % SlashInterval # 0
  BY <1>1, <1>3 DEF OnInitialize
<1> QED
  BY <1>2, <1>3

(* The invariant of the extended specification is inductive.                *)
LEMMA HistoryStep == HistoryInv /\ [HNext]_<<vars, history>> => HistoryInv'
<1> SUFFICES ASSUME HistoryInv, [HNext]_<<vars, history>> PROVE HistoryInv'
  OBVIOUS
<1>1. ChainInv'
  BY HistoryWatches, ChainStep DEF HistoryInv
<1>2. \A k \in DOMAIN BlockHeaders : k \in Nat /\ k <= now
  BY DEF HistoryInv, ChainInv, HeightBehindClock, TypeOK
<1>3. ASSUME NEW a \in Signers, NEW n \in 1..MaxBlocks,
             NEW header \in SubmittableHeaders(n), HSubmit(a, header)
      PROVE  SeenInv'
  <2>1. header.number = n /\ n \in Nat
    BY InputAssumption DEF SubmittableHeaders
  <2>2. SubmitBlock(a, header) /\ lastSeen' = Insert(lastSeen, a, now)
    BY <1>3 DEF HSubmit
  <2>3. /\ LastActiveBlock' = Insert(LastActiveBlock, a, n)
        /\ BlockHeaders' = Insert(BlockHeaders, n, header)
        /\ UNCHANGED <<SlashingRecords, now>>
    BY <2>1, <2>2 DEF SubmitBlock, extends_chain, reports, block
  <2>4. n \in DOMAIN BlockHeaders'
    BY <2>3 DEF Insert
  <2>5. n <= now
    BY <1>1, <2>3, <2>4 DEF ChainInv, HeightBehindClock
  <2> QED
    BY <2>1, <2>2, <2>3, <2>5, SeenActive
<1>4. ASSUME NEW a \in Signers, NEW n \in 0..MaxBlocks, NEW r \in Seeds, NEW s,
             HValidate(a, n, r, s)
      PROVE  SeenInv'
  <2>1. ValidateBlock(a, n, r, s) /\ lastSeen' = Insert(lastSeen, a, now)
    BY <1>4 DEF HValidate
  <2>2. /\ n \in DOMAIN BlockHeaders
        /\ LastActiveBlock' = Insert(LastActiveBlock, a, n)
        /\ UNCHANGED <<SlashingRecords, now>>
    BY <2>1 DEF ValidateBlock, reports, block
  <2> QED
    BY <1>2, <2>1, <2>2, SeenActive
<1>5. CASE Other /\ UNCHANGED history
  <2>1. UNCHANGED <<lastSeen, LastActiveBlock>>
    BY <1>5 DEF Other, OnInitialize, OnFinalize, Stake, Unstake, RegisterPqcKey,
                ReportMisbehavior, BalancesTransfer, staking, history
  <2>2. \A r \in SlashingRecords' : r[3] <= now'
    <3>1. CASE OnInitialize
      <4>1. SlashingRecords \subseteq Accounts \X Nat \X Nat
        BY DEF HistoryInv, ChainInv, TypeOK
      <4>2. \A r \in SlashingRecords : r[3] \in Nat /\ r[3] <= now
        BY <4>1 DEF HistoryInv, SeenInv
      <4> QED
        BY <3>1, <4>2, SlashingRecorded
    <3>2. CASE ~OnInitialize
      <4>1. UNCHANGED <<SlashingRecords, now>>
        BY <1>5, <3>2 DEF Other, OnFinalize, Stake, Unstake, RegisterPqcKey,
                          ReportMisbehavior, BalancesTransfer, reports, block
      <4> QED
        BY <4>1 DEF HistoryInv, SeenInv
    <3> QED
      BY <3>1, <3>2
  <2> QED
    BY <1>1, <2>1, <2>2 DEF HistoryInv, SeenInv
<1>6. CASE UNCHANGED <<vars, history>>
  BY <1>1, <1>6 DEF vars, history, staking, reports, block, HistoryInv, SeenInv
<1> QED
  BY <1>1, <1>3, <1>4, <1>5, <1>6 DEF HNext, HistoryInv

(* Whoever was active once, has a stake entry and has been silent for more  *)
(* than MaxDowntimeBlocks host blocks is slashed by the next downtime check. *)
THEOREM SilentTheorem == HSpec => SilentAreSlashed
<1> DEFINE Slashed ==
      now' > now /\ now' % SlashInterval = 0 =>
          \A a \in DOMAIN lastSeen \cap DOMAIN ValidatorStakes :
              now' - lastSeen[a] > MaxDowntimeBlocks => a \in SlashedNow
<1>1. HInit => HistoryInv
  BY ChainInit DEF HInit, Init, EmptyMap, HistoryInv, SeenInv
<1>2. HistoryInv /\ [HNext]_<<vars, history>> => [Slashed]_vars
  <2> SUFFICES ASSUME HistoryInv, [Next]_vars, now' > now, now' % SlashInterval = 0,
                      NEW a \in DOMAIN lastSeen \cap DOMAIN ValidatorStakes,
                      now' - lastSeen[a] > MaxDowntimeBlocks
               PROVE  a \in SlashedNow
    BY HistoryWatches
  <2>1. OnInitialize
    <3>1. now \in Nat
      BY DEF HistoryInv, ChainInv, TypeOK
    <3>2. ~OnInitialize => now' = now
      BY DEF Next, Submit, SubmitBlock, extends_chain, Validate, ValidateBlock,
             Other, OnFinalize, Stake, Unstake, RegisterPqcKey,
             ReportMisbehavior, BalancesTransfer, block, vars
    <3> QED
      BY <3>1, <3>2
  <2>2. /\ a \in DOMAIN LastActiveBlock \cap DOMAIN ValidatorStakes
        /\ lastSeen[a] \in Nat /\ LastActiveBlock[a] <= lastSeen[a]
        /\ \A r \in SlashingRecords : r[3] <= now
    BY DEF HistoryInv, SeenInv
  <2>3. LastActiveBlock[a] \in Nat /\ a \in Accounts
    BY <2>2 DEF HistoryInv, ChainInv, TypeOK, Signers
  <2>4. now \in Nat /\ now' = now + 1 /\ MaxDowntimeBlocks \in Nat
    BY <2>1, SlashingRecorded, ConfigAssumption
  <2>5. saturating_sub(now + 1, LastActiveBlock[a]) > MaxDowntimeBlocks
    BY <2>2, <2>3, <2>4 DEF saturating_sub
  <2>6. a \in Offline(now + 1)
    BY <2>2, <2>5 DEF Offline
  <2> DEFINE record == <<a, downtime_slash(a), now + 1>>
  <2>7. record \in SlashingRecords'
    BY <2>1, <2>4, <2>6, SlashingRecorded
  <2>8. record[1] = a /\ record[3] = now + 1
    OBVIOUS
  <2> HIDE DEF record
  <2>9. record \notin SlashingRecords
    BY <2>2, <2>4, <2>8
  <2> QED
    BY <2>3, <2>7, <2>8, <2>9 DEF SlashedNow
<1> QED
  BY <1>1, <1>2, HistoryStep, PTL DEF HSpec, SilentAreSlashed
=============================================================================
