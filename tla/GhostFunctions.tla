--------------------------- MODULE GhostFunctions ---------------------------
(***************************************************************************)
(* The pure functions of pallet-ghost-consensus (functions.rs): retargeting, *)
(* proof-of-work verification, stake-weighted selection, reward splitting   *)
(* and producer entropy.                                                    *)
(*                                                                          *)
(* Accounts are numbered 1..N in the order in which the node's storage maps *)
(* iterate over them, so that a loop over a map is a prefix sum over 1..N.  *)
(* An account that is absent from a map contributes 0 to such a sum, which  *)
(* is what skipping it does.  u64 values are bounded by MaxU64 (2^64 - 1 in *)
(* the program); the runtime is a release build, where `+` on u64 wraps.    *)
(***************************************************************************)
EXTENDS Integers, Sequences, FiniteSets

CONSTANTS
    N,       \* number of accounts
    MaxU64   \* largest u64

ASSUME NAssumption == N \in Nat \ {0}
ASSUME MaxU64Assumption == MaxU64 \in Nat \ {0}

Accounts == 1..N

None == 0      \* no account: Option::None of an account

AtLeast(x, y) == IF x < y THEN y ELSE x     \* x.max(y)
AtMost(x, y)  == IF x > y THEN y ELSE x     \* x.min(y)

saturating_sub(x, y) == IF x < y THEN 0 ELSE x - y
saturating_mul(x, y) == IF y # 0 /\ x > MaxU64 \div y THEN MaxU64 ELSE x * y
wrapping(x) == IF x <= MaxU64 THEN x ELSE x % (MaxU64 + 1)

(***************************************************************************)
(* Running sums: Cumulative(w)[i] is what an accumulator holds after the    *)
(* loop over the accounts has passed account i.                             *)
(***************************************************************************)
Cumulative(w) ==
    LET c[i \in 0..N] == IF i = 0 THEN 0 ELSE c[i - 1] + w[i] IN c

SumOf(w) == Cumulative(w)[N]

-----------------------------------------------------------------------------
(* Retargeting.  `difficulty` is the largest accepted hash prefix.          *)

EntropyThreshold == 4000000
EntropyScale     == 1000000

\* Mutant: steers by raising the target.
steer_upwards(target, entropy) ==
    AtLeast(saturating_mul(target, 2 * EntropyThreshold + entropy)
                \div (2 * EntropyThreshold), 1)

steer_by_entropy(target, entropy) ==
    IF entropy < EntropyThreshold
    THEN AtLeast(saturating_mul(target, EntropyThreshold + entropy)
                     \div (2 * EntropyThreshold), 1)
    ELSE target

calculate_difficulty_adjustment(current, actual_time, target_time, entropy) ==
    IF actual_time = 0 \/ target_time = 0
    THEN AtLeast(current \div 2, 1)
    ELSE steer_by_entropy(
             AtLeast(saturating_mul(current, actual_time) \div target_time, 1),
             entropy)

(* The double BLAKE2 hash of a header's fields is its abstract field pow.   *)
verify_pow_enhanced(header, target) == header.pow <= target

-----------------------------------------------------------------------------
(* Stake-weighted selection.                                                *)

\* Mutant: the comparison admits the boundary value.
select_inclusive(weights, random) ==
    LET reached == Cumulative(weights)
        total   == wrapping(reached[N])
        hits    == {i \in Accounts : random % total <= wrapping(reached[i])}
    IN  IF total = 0 \/ hits = {} THEN None
        ELSE CHOOSE i \in hits : \A j \in hits : i <= j

select_pos_validator(weights, random) ==
    LET reached == Cumulative(weights)
        total   == wrapping(reached[N])
        hits    == {i \in Accounts : random % total < wrapping(reached[i])}
    IN  IF total = 0 \/ hits = {} THEN None
        ELSE CHOOSE i \in hits : \A j \in hits : i <= j

-----------------------------------------------------------------------------
(* Rewards: 40% to the miner, what is left to the stakers.                  *)

\* Mutant: the stakers' part is not reduced by the miner's.
reward_twice(total) ==
    [miner_reward |-> (total * 40) \div 100, stakers_reward |-> total]

calculate_block_reward(total) ==
    LET miner == (total * 40) \div 100
    IN  [miner_reward |-> miner, stakers_reward |-> total - miner]

(* What distribute_rewards deposits to a staker out of the stakers' part.   *)
staker_reward(stakers_reward, stakes, account) ==
    LET total == SumOf(stakes)
    IN  IF total = 0 THEN 0 ELSE (stakers_reward * stakes[account]) \div total

-----------------------------------------------------------------------------
(* Entropy of the recent block producers, scaled by 10^6.                   *)

(* The bits of a count of producers: RecentBlockProducers holds at most 100. *)
BitValues == {1, 2, 4, 8, 16, 32, 64}
MaxCount  == 127

integer_log2_scaled(x) ==
    IF x = 0 THEN 0
    ELSE LET high == CHOOSE b \in BitValues : b <= x /\ x < 2 * b
             integer_part == Cardinality({b \in BitValues : b < high})
         IN  integer_part * EntropyScale + ((x - high) * EntropyScale) \div high

Occurrences(producers, a) ==
    Cardinality({i \in DOMAIN producers : producers[i] = a})

calculate_entropy(producers) ==
    LET total   == Len(producers)
        term(c) == (c * saturating_sub(integer_log2_scaled(total),
                                       integer_log2_scaled(c))) \div total
    IN  IF total = 0 THEN 0
        ELSE AtMost(SumOf([a \in Accounts |-> term(Occurrences(producers, a))]),
                    MaxU64)
=============================================================================
