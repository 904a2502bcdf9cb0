# Ghost blockchain: TLA+ specifications, model checking and proofs

This directory specifies the core logic of the Ghost blockchain in TLA+:
the hybrid proof-of-work / proof-of-stake pallet
(`pallets/pallet-ghost-consensus`), its pure functions, the balances it moves,
the way of an extrinsic through the runtime (`runtime/`, `pallets/template`), the
node's demo miner (`node/src/miner.rs`) and its start-up (`node/src/service.rs`). TLC checks the specifications on small instances. TLAPS
proves the main safety properties for every number of
accounts, every configuration and every choice of inputs.

`PROJECT.json` is the index: components, runs, mutants, the map from definitions
to source lines, findings, hazards and theorems.

## 1. Inventory of the system

| Component | State | Operations | Hard behaviour |
|---|---|---|---|
| Ghost pallet, `lib.rs` | difficulty, phase, headers, producers, stakes, activity, reports, slashing records, PQC keys, recent producers, entropy | six dispatchables, `on_initialize`, `on_finalize` | calls of many accounts in any order in a block; a phase that spans host blocks; two block counters; stakes and escrow kept in two places; rounding and saturation |
| Functions, `functions.rs` | none | retarget, PoW check, stake-weighted draw, reward split, entropy, header check, PQC check | u64 wrap and saturation, boundaries of the draw, integer division |
| Balances (library) | free balances | `transfer`, `deposit_creating` | accounts below the existential deposit disappear with their dust |
| Demo miner, `miner.rs` | `running`, `found_solution`, `found_nonce`, threads | `start`, `stop`, `Drop` | threads interleave between atomics, `stop()` at any moment, restart |
| Runtime, `runtime/`, chain specs, `benchmarking.rs` | genesis storage, account nonces and balances, blocks | genesis presets, signing, `apply_extrinsic`, block building, `execute_block` | order of hooks and extrinsics; extrinsics repeated, reordered, late or on a fork; failed dispatches that still cost; presets that do not seed the Ghost pallet |
| PoW primitives, `primitives/ghost-pow` | none | declares a seal and a runtime API | documents a retarget clamp that nothing implements |
| Node service, `service.rs` | task manager, network, tasks | start-up in steps, tasks, exit | steps that fail after tasks were spawned, essential tasks that end before start-up is over |
| CLI, RPC | none of their own | parsing, delegation | library code |
| Template pallet | one optional number | `do_something`, `cause_error` | the number at `u32::MAX`, errors inside a block |
| `consensus.rs`, `rpc.rs` of the pallet | - | - | in no build: no `mod` declaration includes them |

Interaction. The runtime executes a host block as `on_initialize`, extrinsics,
`on_finalize`. In `PowMining` a miner calls `submit_block`, which moves the pallet
to `PosValidation`. There the account that a stake-weighted draw selects calls
`validate_block`: it signs a header, pays the rewards through the balances
pallet and moves to `Finalization`, from which `on_finalize` returns to
`PowMining`. `stake` and `unstake` move funds between an account and the pallet's
escrow account. `report_misbehavior` and, in every tenth block, the downtime check
reduce stakes. In every hundredth block the target is recomputed from the
entropy of the recent producers. The miner produces nonces for headers that the
pallet's `verify_pow_enhanced` accepts; the node does not submit them yet.

What makes each part correct:

* money: the escrow covers the stakes, a stake can be withdrawn, issuance is bounded;
* chain: contiguous, never ahead of the host chain, every block has a producer;
* validation: only by an account with stake and, where required, a PQC signature;
* slashing: the silent are slashed (and, as the documentation has it, only they are);
* retarget: bounded and of the right direction;
* round: every mined block is validated by somebody with stake before the next is mined,
  and eventually, if a willing validator has stake;
* extrinsics: applied once, paid for, and only on the fork and in the era they were signed for;
* node: takes part in consensus on a network only, goes down with an essential task, leaves no task behind;
* miner: a returned nonce is a solution, a search that can end does end.

## 2. Modules

| Module | Models | Notes |
|---|---|---|
| `GhostFunctions` | `functions.rs` | operators under the names of the code; recursion only as a recursive function |
| `Balances` | library ledger | external, from its use in the pallet |
| `GhostConsensus` | `lib.rs`, `types.rs` | one action per dispatchable and hook; all storage items |
| `GhostHistory` | - | `GhostConsensus` with two history variables (last activity in host blocks, payments per Ghost block) |
| `GhostRound` | phases in `lib.rs` | abstract specification: what a round promises |
| `GhostRefinement` | - | `GhostConsensus` implements `GhostRound` |
| `RoundProgress` | rounds in `lib.rs` | unbounded slice of the pallet with fairness; implements `GhostRound` too |
| `Template` | `pallets/template` | its dispatchables as operators |
| `GhostRuntime` | `runtime/`, `chain_spec.rs`, `benchmarking.rs` | composes `Template`, `Balances` and Sudo with nonces, eras, fees, block building and import |
| `Miner` | `miner.rs` | one action per atomic load or store |
| `NodeService` | `service.rs` | one action per step of start-up; tasks may end at any moment |
| `MC*` | - | initial balances and headers for TLC |
| `GhostFunctionsProofs` | - | sums, the draw and its fairness, ranges of the numeric functions |
| `GhostConsensusProofs` | - | type correctness, the draw on reachable stakes, the ratchet |
| `GhostEscrowProofs` | - | solvency of the escrow, issuance |
| `GhostChainProofs` | - | chain, clock, validation, unseeded chain, refinement of `GhostRound`, downtime |
| `RoundProgressProofs` | - | the slice refines `GhostRound` too |
| `GhostRuntimeProofs` | - | replay protection, forks and eras, `Something`, fees |
| `MinerProofs` | - | what `start()` returns |
| `NodeServiceProofs` | - | order of start-up |

### State and actions of `GhostConsensus`

A storage item is a variable of the same name; a `StorageMap` is a function whose
domain is the set of keys present. `free` is the ledger, `now` the host block number,
`stage` says whether the block is between its two hooks. `SubmitBlock`, `Stake`,
`Unstake`, `ValidateBlock`, `RegisterPqcKey`, `ReportMisbehavior`, `OnInitialize` and
`OnFinalize` are the functions of the code, their guards the `ensure!`s in the
code's order; `BalancesTransfer` is the plain transfer of the balances pallet, which
touches the same funds (anybody may send funds to the escrow account).

FRAME runs a dispatchable in a storage transaction: a call that returns `Err` changes
nothing and is a stuttering step. This is why `ValidateBlock` can have the guard
"the miner is known" after the header has been written, as in the code.

Abstractions:

* Accounts are `1..N` in the iteration order of the storage maps. The order is fixed
  but arbitrary; account 2 is the escrow in the runs, so it lies between the others.
* `hash_of` is symbolic and injective. The double hash of a header is the field `pow`,
  chosen by the submitter; roots and nonce are what that number stands for.
* The draw's seed hashes the Ghost and the host block number. Every call may meet any
  member of `Seeds`. At most one validation succeeds in a host block, so choosing the
  seed per call adds no behaviour.
* A Dilithium signature over the right message is named by its key pair; every other
  signature is `BadSig`. `Std` says whether the build has the verifier: without it
  `verify_pqc_signature` is false.
* The u64 arithmetic keeps its edges (`saturating_mul`, `saturating_sub`, `wrapping`)
  with the bound `MaxU64`. TLC's integers end at 2^31 - 1, so that is the u64 of the
  runs; the proofs hold for every bound.
* `integer_log2_scaled` is defined up to 127: the window of recent producers has at
  most 100 entries.
* The intervals 10 and 100 and the window 100 are the constants `SlashInterval`,
  `AdjustInterval` and `RecentWindow`, so that runs can make them small.
* `SlashingRecords` is a set: a validator is recorded at most once per host block.
* Events, weights and transaction fees are left out. Fees only lower balances of signers.

`Seeded` distinguishes a chain into whose storage a first header was inserted (as the
tests do) from the genesis presets as they are, which set neither header nor
difficulty.

### `GhostRound`, `GhostRefinement` and `RoundProgress`

`GhostRound` has three variables: the phase, whether a host block is open, and who has
stake. The refinement mapping takes `CurrentPhase` for the phase and the accounts with a
positive stake for the backed ones, so emptied entries of `ValidatorStakes` do not count.
`GhostConsensus` cannot be checked for liveness, since its runs end after `MaxBlocks`.
`RoundProgress` therefore keeps only what decides whether a round ends: the phase,
the stakes with all operations on them, the PQC keys and the draw, for which it uses the
same `select_pos_validator` on the same weights, stakes cut off at `MaxU64`, so its sums
wrap where the pallet's do. What it leaves out (whether a header extends the chain,
whether a stake can be paid, who is offline) is a free choice of the step. Apart from stake and
unstake calls, which are bounded (`MaxChanges`), and the values in `Seeds`, it thus has at
least the behaviours of the pallet. Somebody who could change stakes for ever, knowing each host block's seed
in advance, could keep the draw away from the willing for ever.

### `Template` and `GhostRuntime`

A block is a record of its parent, its body and the state after it; `blocks` is the tree
of all blocks, `known` and `best` say what each node has imported, `build` holds the
overlay of a block under construction. A block also keeps the history field `frees`, the balances
after each of its extrinsics, from which `AppliedOnce` sees whether an account was really emptied. `Sign` makes an extrinsic as
`create_benchmark_extrinsic` does: with the nonce the node reports (or one more, by a sender
with an extrinsic under way) and an era that starts at the node's best block.
`InitializeBlock`, `ApplyExtrinsic`, `FinalizeBlock` and `ImportBlock` are the calls of the
runtime APIs; `Restart` loses the block under construction.

`TxExtension` holds the checks in the order of the runtime's tuple, the block limit of `CheckWeight`
included, so an author and a node that imports the block make the same ones; `charged` is what they take
before the dispatch, `applied` the whole of `apply_extrinsic`. The runtime APIs delegate to
FRAME, so these are modelled from the configuration and from what FRAME
documents: a failing dispatch is rolled back, nonce and fee are not; a fee may not kill the
account; an account that is reaped loses its nonce; Sudo returns Ok whatever its inner
call returned and refunds the fee.

Abstractions: a hash is the index of a block, a root is the state. There is no pool that
filters; any extrinsic ever signed may be offered at any time to any author, which is all
an unreliable network can do. Aura's slots, which only restrict who authors when, are left out, so
every fork is possible. A refused extrinsic is a stuttering step. Extrinsics for another
genesis or version fail the signature check and are not enumerated.

### `Miner`

`Call`, `Begin`, `Spawn`, `Finish` are the parts of `start()`; `LoadRunning`, `LoadFound`,
`Hit`, `Miss`, `StoreFound`, `StoreNonce`, `StoreRunning` those of a thread; `Stop` is
`stop()` or `Drop`. The atomics that carry control are `SeqCst`, so interleaving is
exact. `nonce` wraps at `MaxU64`. A header is its difficulty and the table of its
hashes. Statistics are left out. Two overlapping `start()` calls on one `Miner`
are not modelled: the node makes one call.

### `NodeService`

The steps of `new_partial` and `new_full` in their order. Each names the tasks it spawns through the
ordinary handle and through the essential one. A step that ends in `?` may fail (`Abort`): the
function returns and drops the task manager, as does a node that stops. The tasks then still run;
each ends by itself when it is polled again (`TaskCancelled`). Tasks run as soon as
they are spawned and may end on their own (`TaskEnds`). The task manager notes the end of an essential task;
`run_node_until_exit` looks at that only after `new_full` has returned. `config` is any
combination of the flags that decide what is started.

## 3. Runs

Deadlock is not checked in the runs of the pallet, which stop after `MaxBlocks` host
blocks, nor in `MCGhostRuntime`, which stops at `MaxItems` extrinsics and blocks, nor in
`NodeService`, where a process may end. It is checked in `MCMiner` and `RoundProgress`.

| Run | Properties | Shows |
|---|---|---|
| `MCGhostStaking` | `TypeOK`, `EscrowSolvent`, `WithdrawalPossible`, `IssuanceCapped`, `DrawIsSound` | money with an existential deposit of 1, transfers into and out of accounts included; the draw over every reachable distribution of stakes, `MaxU64` being less than their total |
| `MCGhostChain` | `ChainContiguous`, `HeightBehindClock`, `ValidationIsBacked`, `ImplementsRound`, `SilentAreSlashed`, `DifficultyRatchet` | three host blocks; resubmission, validation of old numbers, zero stakes made by reports, PQC keys registered late and replaced; downtime measured in host blocks; a retarget after one producer or two |
| `MCGhostDeployed` | `UnseededNeverMines`, `SurplusShrinksByDustOnly` | the genesis presets as they are, with an existential deposit above 1: nothing is mined, and what an unstake may do to the escrow |
| `RoundProgress` | `StakedRoundEnds`, `SliceImplementsRound` | rounds end under fairness if from some point on the sum of the weights fits a u64 and a willing validator has stake and can sign; three validators of which two are willing |
| `MCGhostRuntime` | `AppliedOnce`, `SomethingExplained`, `FeesPaid`, `EraIsServed`, `SignedOnAncestor` | two nodes that author, fork, import and restart; extrinsics repeated, reordered, failing, replayed after an account was emptied, offered on other forks and after their era |
| `MCMiner` | `TypeOK`, `ReturnsSolution`, `NoneMeansStopped`, `SolvableEnds`, `StopTakesEffect` | two threads, stop at any step, restarts |
| `NodeService` | `ConsensusNeedsNetwork`, `EssentialEndsNode`, `Unwinds` | every configuration, errors in every step, tasks that end |
| `MCGhostDustLoss` | `EscrowHoldsStakes` | violated, see below |
| `MCGhostDowntime` | `ActiveAreNotSlashed` | violated |
| `MCGhostTwice` | `RewardedOnce` | violated |
| `MCGhostClamp` | `RetargetClamped` | violated |
| `RoundWrap` | `EveryStakeCanWin` | violated |

Bounds. Two signers and the escrow are enough for every relation between accounts
that the code makes (miner and validator equal or different, selected and not
selected, one staker or two). Two to four host blocks cover a full round, a second
round on top of it, a downtime check (`SlashInterval` 2 or 3, `MaxDowntimeBlocks` 1) and a
retarget. In `MCGhostChain` both fall into the third block, after up to two complete rounds and a silence of two blocks. `MCGhostStaking` has a u64 of `0..4` and a total stake of up to 6, so the sum of the
weights wraps. So it does in `RoundProgress`, with the same u64 and total, and the seeds 0 to 5 hold every residue of the
draw. In `MCGhostRuntime` the extrinsics and the blocks, those
under construction included, are together at most `MaxItems`, 6: with three extrinsics two blocks after the
genesis block, with two three, with one four. Two extrinsics fit a block. That suffices for a nonce taken
twice by different extrinsics, an increment at `MaxU32`, an account emptied, funded again and replayed, a
fork on which an extrinsic's nonce is the right one but its birth block is missing, and a block after the
end of an era.
`BlockHashCount` is 5, the smallest that gives an unclamped era (4); `EraIsServed` looks
ahead to the end of the era by arithmetic, beyond the blocks of the run. Where money is the question `Amounts` hold more than one value, in `MCGhostDeployed`
one below, one at and one above the minimum stake and the existential deposit.
`RecentWindow` 1 or 2 fills the window. In `MCMiner` u64 is `0..3`, so
that each thread wraps; the headers have no solution, one, two in different strides,
and one that only the miner's own target excludes.

Fairness. `Miner` has weak fairness of `start()` and of each thread, which the operating
system's scheduler provides. Nobody is obliged to call `start()` or `stop()`.
`NodeService` has weak fairness of start-up, which is sequential code, and of the exit,
which `run_node_until_exit` polls, and of the tasks told to end, which the executor polls; no other task is obliged to end. `RoundProgress` assumes that the
host chain goes on (Aura authors blocks independently of the Ghost pallet), that every seed
comes up again and again (it is a hash over a number that grows with every block), and
that a willing validator that is drawn again and again gets a call into a block. `StakedRoundEnds` is further
conditional on `<>[]Healthy`, since a lasting wrap does lock the willing out (`RoundWrap`). It
assumes nothing of miners, stakers, reporters and other validators. The pallet's specification has none: its properties are safety
properties, and no account is obliged to call anything.

Every property of a passing run has a mutant, an operator marked "Mutant" in front of
the definition it replaces, under which TLC finds the property violated.

### What the violated runs show

* `MCGhostDustLoss`: `unstake` pays with `AllowDeath`. If it leaves the escrow between 0
  and the existential deposit, the account is reaped although stakes remain; the last
  stakers cannot withdraw. With a deposit of 1, as in the pallet's mock, this cannot
  happen (`SolvencyTheorem`); the runtime's is 10^9.
* `MCGhostDowntime`: the downtime check subtracts a Ghost block number from the host
  block number. Once the Ghost chain lags, validators that are active are slashed in
  every check. The other direction holds (`SilentAreSlashed`).
* `MCGhostTwice`: `validate_block` accepts any stored number in `PosValidation`, so an old
  block is signed and paid again. The issuance per host block is still bounded
  (`IssuanceCapped`).
* `MCGhostClamp`: the retarget has no clamp; for large targets the saturating product
  with the entropy factor loses most of the target in one step.
* `RoundWrap`: `select_pos_validator` adds the weights up in an unchecked u64. When the stakes
  exceed it, the draw is over the wrapped total: accounts behind it are selected by no seed, and
  if it is 0 nobody is. Without a wrap the draw is fair (`SelectionIsFair`).

In addition: `submit_block` stores the signature fields that the caller filled in (a
validation replaces them, `BackedTheorem`); and `stop()` of the miner between the entry of `start()` and its store to
`running` is overwritten. `StopTakesEffect` therefore speaks of the time after that store.

## 4. Proofs

Run `tlapm M.tla` on each of the eight proof modules. The assumptions are the `ASSUME`s of the
modules: the constants have their types, the intervals are positive, the window is within the
range of `integer_log2_scaled`, the escrow starts empty (`InputAssumption`), the calls that users
sign are calls of the pallets with arguments of their types, the root origin is no account (`RequestAssumption`), and
the users are finitely many (`RuntimeAssumption`). None bounds the number of accounts, nodes, threads, blocks or extrinsics.

### The pallet

* `TypeCorrect`: `Spec => []TypeOK`. `TypeOK` is inductive. The lemmas behind it say that
  the numeric functions stay in their ranges (`AdjustmentRange`, `EntropyNatural`) and
  that a stake covers what it loses.
* `SurplusTheorem`: `Spec => SurplusShrinksByDustOnly`. One lemma per action, on top of
  `SumUpdate` and `SumMonotone` about the sum over accounts. The surplus is the right
  quantity, not the two balances: slashing raises it, stake and unstake keep it, dust
  lowers it.
* `SolvencyTheorem`, `WithdrawalTheorem`: with a deposit of 1 there is no dust, so
  `TypeOK /\ EscrowSolvent` is inductive; a covered stake can be paid out.
* `IssuanceTheorem`: `Spec => []IssuanceCapped`. A transfer never raises the sum of the
  balances, a deposit raises it by at most its amount, and the two shares of a reward, each
  rounded down, stay within it for every percentage (`SharesWithinPart`). A validation needs
  `PosValidation` and leaves `Finalization`, so the number of rewards that may have been paid,
  `Payable`, grows with each of them.
* `ContiguousTheorem`, `HeightTheorem`: the invariant `ChainInv` adds two facts to the
  properties. `FinalizationEndsWithBlock` is needed because a new host block must not start
  in a phase that can return to mining within it; the types are needed to
  compare numbers. Neither property is inductive by itself.
* `BackedTheorem`: `Spec => ValidationIsBacked`, from `SelectionHasWeight`: the draw, with
  its u64 wrap-around, never returns an account of weight 0.
* `SelectionIsFair`, `DrawTheorem`: the cumulative sums cut `0..total-1` into one interval per
  account; the draw returns `a` exactly for the values of the interval of `a` (`DrawInterval`),
  whose cardinality is the weight of `a`.
* `RatchetTheorem`: `Spec => DifficultyRatchet`. With the placeholder block times a retarget scales the
  target by two fractions that are at most 1; rounding and the saturating product only lower it further
  (`ScaledDown`, `AdjustmentLowers`).
* `RoundTheorem`: `Spec => ImplementsRound`. One lemma per kind of step shows a step of
  `GhostRound` or a stutter under the mapping. `ChainInv` is not enough: a report may name the
  escrow account, for which nobody signs, so `RefinementInv` adds that the escrow never has
  stake (`EscrowUnstaked`).
* `SilentTheorem`: `HSpec => SilentAreSlashed`. The code stores a Ghost block number at an
  activity and compares it with a host block number. `SeenInv` relates the two: the stored
  number is never above the host block of the activity (by `HeightBehindClock`), so the
  computed downtime is never too small. Records of earlier checks carry earlier blocks, so each
  slash leaves a record that was not there.
* `UnseededTheorem`: without a first header the conjunction of the four conditions is
  inductive.
* `SliceTheorem`: the slice `RoundProgress` refines `GhostRound`, with the stakes as numbers and
  "a closed block has left `Finalization`" (`SliceInv`).

### The runtime

`RuntimeInv` has five parts. `TreeInv`: every block has an earlier parent, and the blocks
under construction hang on existing ones. `EraInv`: an extrinsic names a block that exists and the phase of its number.
`SoundInv`: for every chain, and for every block under construction, the state is what the
extrinsics so far entail (`Sound`: each used nonce is below the account's, unless the balances in `frees` show the account
empty since; an empty account has nonce 0; `Something` is `Explained`; the balances are
`Accounted` for). `NumberInv`: a chain is as long as the number of its
head says, and the block at each place has that place's number. `AnchorInv`: every extrinsic of a block,
finished or not, was signed on a block of the parent's branch, less than a period before (`Anchored`). The properties
concern finished blocks only; the conjuncts about blocks under construction carry the induction,
and those about all extrinsics of a branch are kept because a new block never changes an old
branch.

* `OnceTheorem`: from `SoundInv`. Two extrinsics of one account and nonce on a chain have between them, or with the
  first of them, a balance of 0 of that account. A transfer that leaves a balance, or fails, excuses nothing.
* `AncestorTheorem`: from `AnchorInv` and `NumberInv`. `CheckEra` looks a hash up by its number on the
  author's own branch, which by `NumberInv` is the block at that place; the number lies less than a
  period before the block under way (`EraAnchors`).
* `SomethingTheorem`: from `SoundInv`.
* `FeesTheorem`: from `SoundInv`. When one balance changes the sum changes by as much
  (`IssuanceUpdate`), so an extrinsic burns its fee (`ApplyBurns`), and more only where a
  transfer reaps an account.
* `EraTheorem`: half of the next power of two is at least 1 and at most `BlockHashCount`
  (`PeriodBounds`), and `Era::birth` of every number of the era is its first
  (`EraServed`).

### Miner and node

* `SolutionTheorem`, `NoneTheorem`, `MinerTypeTheorem`: `MinerInv` says what a thread owes at each
  step. A thread past its hash holds a solution; a raised flag means that `found_nonce` is a
  solution or a thread is about to store one (the flag is stored first); a thread that is over
  has seen a stop or a found solution.
* `NetworkTheorem`: `StartupInv` says what has been spawned at each stage, counting the tasks
  that have ended, and that the task manager is dropped exactly when the service is taken down.

### Recursion

Sums, branches and powers of two are recursive functions over initial segments of
the naturals; the sum of the runtime's balances folds over the finite set of users, by
induction on the cardinality. The library's induction theorems cannot be used by the provers, so the modules
derive the instances they need from the well-foundedness of the naturals (`LeastNatural`,
`IndexInduction`, `PrefixInduction`): a predicate "satisfies the recursion up to `k`", an
existence lemma by induction on `k`, and the equations that follow.

### Model-checked only

Liveness under fairness is out of the prover's reach: `StakedRoundEnds`, `SolvableEnds`,
`StopTakesEffect`, `EssentialEndsNode` and `Unwinds`. Every safety property of a passing run is proved. The five properties that are violated have counterexamples, not proofs.

## 5. Not modelled

* What Aura, GRANDPA, networking, RPC and the transaction pool do: library code. Only
  their start and end is modelled, and what the pool and the network can do to extrinsics.
* The query APIs of `runtime/src/apis.rs` and the timestamp inherent: delegation to FRAME
  without state of this repository.
* `primitives/ghost-pow`: declarations; its documented clamp is compared with the code in
  `MCGhostClamp`.
* `verify_pow`, the sha256 and keccak variants, `distribute_block_rewards`,
  `check_slashing_conditions` and `apply_slashing`: called from nowhere or stubs.
* `consensus.rs` and `rpc.rs` of the pallet: in no build.
* The commands of `command.rs` that print, and those that are library commands; weights and
  benchmarks.
* `docs/ghost-consensus-design.md` describes a future design; the code here is the reference.

## 6. Plan

1. Done: `GhostFunctions`, `Balances`, `GhostConsensus`, `GhostHistory`, `Miner`, `NodeService`,
   `GhostRound` with its two refinements, `RoundProgress`, `Template`, `GhostRuntime`, their runs,
   and the eight proof modules.
2. Done: every safety property of the passing runs is a theorem.
3. The safety half of the liveness arguments: which steps bring a round, a search or a
   shutdown closer to its end, as action properties that can be proved.
4. Parent links: which headers' `parent_hash` goes stale after a re-signing or a
   resubmission.
