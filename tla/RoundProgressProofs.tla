------------------------ MODULE RoundProgressProofs -------------------------
(***************************************************************************)
(* The slice of RoundProgress implements the abstract round, for any number *)
(* of accounts, any amounts and any draw: the safety half of the argument   *)
(* that rounds end.  StakedRoundEnds itself, under the fairness of Spec, is *)
(* model-checked.                                                           *)
(***************************************************************************)
EXTENDS RoundProgress, GhostFunctionsProofs

(* What the steps need to know: the stakes are numbers, and a closed block  *)
(* has left the Finalization phase.                                         *)
SliceInv ==
    /\ stakes \in [Accounts -> Nat]
    /\ stage = "closed" => phase # "Finalization"

(* A slash never raises a stake, whatever the percentage.                   *)
LEMMA SlashedLess ==
    ASSUME NEW stake \in Nat, NEW p \in Nat
    PROVE  slashed(stake, p) \in Nat /\ slashed(stake, p) <= stake
<1>1. stake * p \in Nat
  OBVIOUS
<1>2. \A x \in Nat : x \div 100 \in Nat
  OBVIOUS
<1>3. (stake * p) \div 100 \in Nat
  BY <1>1, <1>2
<1> QED
  BY <1>3 DEF slashed, saturating_sub

(* The start of a block lowers stakes or keeps them.                        *)
LEMMA BeginLowers ==
    ASSUME stakes \in [Accounts -> Nat], NEW r, Begin(r)
    PROVE  /\ stakes' \in [Accounts -> Nat]
           /\ \A a \in Accounts : stakes'[a] <= stakes[a]
<1>1. PICK offline \in SUBSET Backed, p \in SlashPercentages : OnInitialize(r, offline, p)
  BY DEF Begin
<1>2. p \in Nat
  BY ProgressAssumption
<1>3. stakes' = [a \in Accounts |-> IF a \in offline THEN slashed(stakes[a], p)
                                                     ELSE stakes[a]]
  BY <1>1 DEF OnInitialize
<1>4. \A a \in Accounts : /\ stakes[a] \in Nat
                          /\ slashed(stakes[a], p) \in Nat
                          /\ slashed(stakes[a], p) <= stakes[a]
  BY <1>2, SlashedLess
<1> QED
  BY <1>3, <1>4

(* The stakes after a call that changes one of them.                        *)
LEMMA OneStakeChanges ==
    ASSUME stakes \in [Accounts -> Nat],
           \/ \E a \in Accounts, amount \in Amounts : Stake(a, amount) \/ Unstake(a, amount)
           \/ \E a \in Accounts, p \in SlashPercentages : ReportMisbehavior(a, p)
    PROVE  /\ stage = "open" /\ UNCHANGED <<phase, stage>>
           /\ \E a \in Accounts, x \in Nat : stakes' = [stakes EXCEPT ![a] = x]
<1>1. CASE \E a \in Accounts, amount \in Amounts : Stake(a, amount) \/ Unstake(a, amount)
  <2>1. PICK a \in Accounts, amount \in Amounts : Stake(a, amount) \/ Unstake(a, amount)
    BY <1>1
  <2>2. amount \in Nat /\ stakes[a] \in Nat
    BY ProgressAssumption
  <2>3. CASE Stake(a, amount)
    <3>1. stakes' = [stakes EXCEPT ![a] = stakes[a] + amount]
      BY <2>3 DEF Stake
    <3>2. stakes[a] + amount \in Nat
      BY <2>2
    <3> QED
      BY <2>3, <3>1, <3>2 DEF Stake
  <2>4. CASE Unstake(a, amount)
    <3>1. stakes' = [stakes EXCEPT ![a] = stakes[a] - amount] /\ stakes[a] >= amount
      BY <2>4 DEF Unstake
    <3>2. stakes[a] - amount \in Nat
      BY <2>2, <3>1
    <3> QED
      BY <2>4, <3>1, <3>2 DEF Unstake
  <2> QED
    BY <2>1, <2>3, <2>4
<1>2. CASE \E a \in Accounts, p \in SlashPercentages : ReportMisbehavior(a, p)
  <2>1. PICK a \in Accounts, p \in SlashPercentages : ReportMisbehavior(a, p)
    BY <1>2
  <2>2. slashed(stakes[a], p) \in Nat
    BY ProgressAssumption, SlashedLess
  <2>3. stakes' = [stakes EXCEPT ![a] = slashed(stakes[a], p)]
    BY <2>1 DEF ReportMisbehavior
  <2> QED
    BY <2>1, <2>2, <2>3 DEF ReportMisbehavior
<1> QED
  BY <1>1, <1>2

(* The invariant is inductive.                                              *)
LEMMA SliceStep == SliceInv /\ [Next]_vars => SliceInv'
<1> SUFFICES ASSUME SliceInv, [Next]_vars PROVE SliceInv'
  OBVIOUS
<1>1. stakes \in [Accounts -> Nat]
  BY DEF SliceInv
<1>2. CASE \/ \E a \in Accounts, amount \in Amounts : Stake(a, amount) \/ Unstake(a, amount)
           \/ \E a \in Accounts, p \in SlashPercentages : ReportMisbehavior(a, p)
  <2>1. /\ stage = "open" /\ UNCHANGED <<phase, stage>>
        /\ \E a \in Accounts, x \in Nat : stakes' = [stakes EXCEPT ![a] = x]
    BY <1>1, <1>2, OneStakeChanges
  <2>2. stakes' \in [Accounts -> Nat]
    BY <1>1, <2>1
  <2> QED
    BY <2>1, <2>2 DEF SliceInv
<1>3. CASE \E r \in Seeds : Begin(r)
  <2>1. stakes' \in [Accounts -> Nat]
    BY <1>1, <1>3, BeginLowers
  <2>2. stage' = "open"
    BY <1>3 DEF Begin, OnInitialize
  <2> QED
    BY <2>1, <2>2 DEF SliceInv
<1>4. CASE SubmitBlock \/ \E a \in Accounts : ValidateBlock(a) \/ RegisterPqcKey(a)
  BY <1>1, <1>4 DEF SubmitBlock, ValidateBlock, RegisterPqcKey, SliceInv
<1>5. CASE OnFinalize
  BY <1>1, <1>5 DEF OnFinalize, SliceInv
<1>6. CASE UNCHANGED vars
  BY <1>6 DEF vars, SliceInv
<1> QED
  BY <1>2, <1>3, <1>4, <1>5, <1>6 DEF Next

(* Whoever is drawn has stake, so a round that ends in a validation was     *)
(* backed.                                                                  *)
LEMMA DrawnIsBacked ==
    ASSUME stakes \in [Accounts -> Nat], seed \in Nat, NEW a \in Accounts,
           ValidateBlock(a)
    PROVE  a \in Backed
<1>1. Weights \in [Accounts -> Nat]
  BY MaxU64Assumption DEF Weights, AtMost
<1>2. select_pos_validator(Weights, seed) = a
  BY DEF ValidateBlock
<1>3. wrapping(SumOf(Weights)) # 0
  <2>1. ASSUME wrapping(SumOf(Weights)) = 0 PROVE select_pos_validator(Weights, seed) = None
    BY <2>1 DEF select_pos_validator, SumOf
  <2> QED
    BY <1>2, <2>1 DEF None, Accounts
<1>4. Weights[a] > 0
  BY <1>1, <1>2, <1>3, SelectionHasWeight
<1>5. stakes[a] \in Nat /\ Weights[a] = AtMost(stakes[a], MaxU64)
  BY DEF Weights
<1> QED
  BY <1>4, <1>5, MaxU64Assumption DEF Backed, AtMost

(* Every step of the slice is a step of the round, or leaves it alone.      *)
LEMMA SliceRoundStep ==
    ASSUME SliceInv, seed \in Nat, [Next]_vars
    PROVE  Round!Next \/ UNCHANGED <<phase, stage, Backed>>
<1>1. stakes \in [Accounts -> Nat]
  BY DEF SliceInv
<1>2. ASSUME UNCHANGED stakes PROVE Backed' = Backed
  BY <1>2 DEF Backed
<1>3. CASE SubmitBlock
  <2>1. Round!Mine
    BY <1>2, <1>3 DEF SubmitBlock, Round!Mine
  <2> QED
    BY <2>1 DEF Round!Next
<1>4. ASSUME NEW a \in Accounts, ValidateBlock(a) PROVE Round!Next
  <2>1. Backed # {}
    BY <1>1, <1>4, DrawnIsBacked
  <2>2. Round!Validate
    BY <1>2, <1>4, <2>1 DEF ValidateBlock, Round!Validate
  <2> QED
    BY <2>2 DEF Round!Next
<1>5. CASE \/ \E a \in Accounts, amount \in Amounts : Stake(a, amount) \/ Unstake(a, amount)
           \/ \E a \in Accounts, p \in SlashPercentages : ReportMisbehavior(a, p)
  <2>1. stage = "open" /\ UNCHANGED <<phase, stage>>
    BY <1>1, <1>5, OneStakeChanges
  <2>2. PICK a \in Accounts, x \in Nat : stakes' = [stakes EXCEPT ![a] = x]
    BY <1>1, <1>5, OneStakeChanges
  <2>3. Backed' \in {Backed \cup {a}, Backed \ {a}}
    <3>1. stakes'[a] = x /\ \A b \in Accounts \ {a} : stakes'[b] = stakes[b]
      BY <1>1, <2>2
    <3>2. CASE x > 0
      <4>1. Backed' = Backed \cup {a}
        BY <3>1, <3>2 DEF Backed
      <4> QED
        BY <4>1
    <3>3. CASE ~(x > 0)
      <4>1. Backed' = Backed \ {a}
        BY <3>1, <3>3 DEF Backed
      <4> QED
        BY <4>1
    <3> QED
      BY <3>2, <3>3
  <2>4. Round!Restake
    BY <2>1, <2>3 DEF Round!Restake
  <2> QED
    BY <2>4 DEF Round!Next
<1>6. CASE \E r \in Seeds : Begin(r)
  <2>1. stage = "closed" /\ stage' = "open" /\ phase' = phase
    BY <1>6 DEF Begin, OnInitialize
  <2>2. /\ stakes' \in [Accounts -> Nat]
        /\ \A a \in Accounts : stakes'[a] <= stakes[a]
    BY <1>1, <1>6, BeginLowers
  <2>3. \A a \in Accounts : stakes'[a] > 0 => stakes[a] > 0
    BY <1>1, <2>2
  <2>4. Backed' \subseteq Backed
    BY <2>3 DEF Backed
  <2>5. Round!Begin
    BY <2>1, <2>4 DEF SliceInv, Round!Begin
  <2> QED
    BY <2>5 DEF Round!Next
<1>7. CASE OnFinalize
  <2>1. Round!End
    BY <1>2, <1>7 DEF OnFinalize, Round!End
  <2> QED
    BY <2>1 DEF Round!Next
<1>8. CASE UNCHANGED vars \/ \E a \in Accounts : RegisterPqcKey(a)
  BY <1>2, <1>8 DEF vars, RegisterPqcKey
<1> QED
  BY <1>3, <1>4, <1>5, <1>6, <1>7, <1>8 DEF Next

(* The slice implements the abstract round: a mined block leaves            *)
(* PosValidation only through somebody with stake, and only the end of a    *)
(* host block opens the next round.                                         *)
THEOREM SliceTheorem == Spec => SliceImplementsRound
<1>1. Init => SliceInv /\ seed \in Nat /\ Round!Init
  <2> SUFFICES ASSUME Init PROVE SliceInv /\ seed \in Nat /\ Round!Init
    OBVIOUS
  <2>1. Backed = {}
    BY DEF Init, Backed
  <2> QED
    BY <2>1, ProgressAssumption DEF Init, SliceInv, Round!Init
<1>2. seed \in Nat /\ [Next]_vars => (seed \in Nat)'
  BY ProgressAssumption
     DEF Next, vars, SubmitBlock, ValidateBlock, Stake, Unstake, RegisterPqcKey,
         ReportMisbehavior, Begin, OnInitialize, OnFinalize
<1>3. SliceInv /\ seed \in Nat /\ [Next]_vars => [Round!Next]_<<phase, stage, Backed>>
  BY SliceRoundStep
<1> QED
  BY <1>1, <1>2, <1>3, SliceStep, PTL DEF Spec, SliceImplementsRound, Round!Spec
=============================================================================
