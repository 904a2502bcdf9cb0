---------------------------- MODULE GhostRuntime ----------------------------
(***************************************************************************)
(* Extrinsics on their way through the runtime: signed on top of some       *)
(* node's best block, offered to the authors of blocks in any order and any *)
(* number of times, checked by the transaction extensions, dispatched to a  *)
(* pallet, and executed again by every node that imports the block.         *)
(*                                                                          *)
(* The runtime APIs (apis.rs) delegate to FRAME's Executive; what Executive, *)
(* frame_system, pallet_balances, pallet_sudo and the block builder do is   *)
(* external code, modelled from how the runtime configures them.  The Ghost *)
(* pallet has its own modules; here the calls come from pallet-template,    *)
(* Balances and Sudo.                                                       *)
(*                                                                          *)
(* Abstractions.  A storage root is the state itself, a block hash is the   *)
(* block's index in blocks.  The pool is the set of all extrinsics ever     *)
(* signed: the network may lose, delay, repeat and reorder them, so at any  *)
(* time any of them may be offered to any author or to none.  Which         *)
(* authority Aura lets author a block is left open, so that forks arise.    *)
(* A fee is one fixed amount and the weight limit a number of extrinsics.   *)
(***************************************************************************)
EXTENDS Template, Balances, Sequences, FiniteSets, Functions

CONSTANTS
    Nodes,
    ChainId,            \* --chain of the nodes: "dev", "local" or ""
    Users,              \* accounts that sign extrinsics
    Endowment, Fee,
    BlockHashCount,     \* 2400 in the code
    Requests,           \* what users want: records of a sender and a call
    MaxExtrinsics,      \* that fit into a block
    MaxItems            \* extrinsics and blocks that there are in all

ASSUME RuntimeAssumption ==
    /\ Endowment \in Nat /\ Fee \in Nat
    /\ BlockHashCount \in 5..4096    \* where Era::mortal keeps the period as it is
    /\ MaxExtrinsics \in Nat /\ MaxItems \in Nat
    /\ IsFiniteSet(Users)

(* A call that the pallets decode, and the calls users sign: those, or one  *)
(* of them through Sudo.                                                    *)
IsCall(call) ==
    \/ call.call = "do_something" /\ call.something \in 0..MaxU32
    \/ call.call = "cause_error"
    \/ /\ call.call \in {"transfer_allow_death", "transfer_keep_alive"}
       /\ call.dest \in Users /\ call.value \in Nat

ASSUME RequestAssumption ==
    /\ Root \notin Users
    /\ \A request \in Requests :
          /\ request.sender \in Users
          /\ \/ IsCall(request.call)
             \/ request.call.call = "sudo" /\ IsCall(request.call.inner)

VARIABLES
    signed,     \* every extrinsic there is
    blocks,     \* every block there is; blocks[1] is the genesis block; frees
                \* is history: the balances each extrinsic of body has left
    known,      \* per node: the blocks it has in its database
    best,       \* per node: its best block
    build       \* per node: the block it is building, if any

vars == <<signed, blocks, known, best, build>>

-----------------------------------------------------------------------------
(* Chain specification and genesis *)

(* The genesis presets the two specifications name.  A path in place of an  *)
(* id, which loads a specification from a file, is left out.                *)
development_chain_spec == "dev"
local_chain_spec       == "local_testnet"

load_spec(id) == IF id = "dev" THEN development_chain_spec ELSE local_chain_spec

(* The storage the calls below work on.                                     *)
testnet_genesis(endowed_accounts) ==
    [number    |-> 0,
     nonce     |-> [a \in Users |-> 0],
     free      |-> [a \in Users |-> IF a \in endowed_accounts THEN Endowment ELSE 0],
     something |-> NoValue]

(* The stash accounts and Dave, Eve and Ferdie are like Bob or Charlie.     *)
development_config_genesis == testnet_genesis({"Alice", "Bob"})

local_config_genesis == testnet_genesis({"Alice", "Bob", "Charlie"})

get_preset(id) ==
    CASE id = "dev"           -> development_config_genesis
      [] id = "local_testnet" -> local_config_genesis

SudoKey == "Alice"

Genesis == get_preset(load_spec(ChainId))

Idle == [parent |-> 0]      \* a node that is not building a block

Init ==
    /\ signed = {}
    /\ blocks = <<[parent |-> 0, body |-> <<>>, state |-> Genesis, frees |-> <<>>]>>
    /\ known = [n \in Nodes |-> {1}]
    /\ best  = [n \in Nodes |-> 1]
    /\ build = [n \in Nodes |-> Idle]

(* The sequences part[i] of the blocks i from the genesis block to block b, *)
(* one after the other.                                                     *)
Along(tree, part, b) ==
    LET along[i \in DOMAIN tree] ==
            IF i = 1 THEN part[1] ELSE along[tree[i].parent] \o part[i]
    IN  along[b]

(* The blocks from the genesis block to block b; the one of number k is     *)
(* Branch(b)[k + 1].                                                        *)
Branch(b) == Along(blocks, [i \in DOMAIN blocks |-> <<i>>], b)

-----------------------------------------------------------------------------
(* Mortality *)

next_power_of_two(n) == LET p[k \in 0..n] == IF k = 0 THEN 1
                                             ELSE IF p[k - 1] >= n THEN p[k - 1]
                                             ELSE 2 * p[k - 1]
                        IN  p[n]

\* Mutant: the whole power of two.
period_unhalved == next_power_of_two(BlockHashCount)

period == next_power_of_two(BlockHashCount) \div 2

(* Era::birth for block number n, and the numbers of the blocks whose       *)
(* hashes frame_system has when it executes block n.                        *)
birth(phase, n) ==
    IF n < phase THEN phase ELSE phase + ((n - phase) \div period) * period

StoredHashes(n) ==
    {k \in 0..(n - 1) : k = 0 \/ k >= n - BlockHashCount - 1}

(* The bound, which blocks under construction count towards.                *)
Room ==
    Cardinality(signed) + Len(blocks) + Cardinality({n \in Nodes : build[n] # Idle})
        < MaxItems

(* What a wallet signs: the call, a nonce, and an era that starts with the  *)
(* best block of the node it asks.                                          *)
create_extrinsic(n, sender, call, nonce) ==
    [signer |-> sender, call |-> call, nonce |-> nonce,
     phase |-> blocks[best[n]].state.number % period,
     birth_hash |-> best[n]]

account_nonce(n, a) == blocks[best[n]].state.nonce[a]

(* gap: the sender counts an extrinsic of its own that is still under way.  *)
Sign(n, request, gap) ==
    /\ Room
    /\ signed' = signed \cup
          {create_extrinsic(n, request.sender, request.call,
                            account_nonce(n, request.sender) + gap)}
    /\ UNCHANGED <<blocks, known, best, build>>

-----------------------------------------------------------------------------
(* Dispatch *)

Result(state, field, result) ==
    IF result.ok THEN [ok |-> TRUE, state |-> [state EXCEPT ![field] = result.value]]
    ELSE [ok |-> FALSE, state |-> state]

(* A transfer; an account that it empties is removed with its nonce.        *)
transfer(state, origin, call) ==
    LET keep_alive == call.call = "transfer_keep_alive"
        free       == AfterTransfer(state.free, origin, call.dest, call.value)
    IN  IF origin # Root /\ CanTransfer(state.free, origin, call.dest, call.value, keep_alive)
        THEN [ok |-> TRUE,
              state |-> [state EXCEPT !.free = free,
                            !.nonce = [a \in Users |-> IF free[a] = 0 THEN 0 ELSE @[a]]]]
        ELSE [ok |-> FALSE, state |-> state]

dispatch(state, origin, call) ==
    CASE call.call = "do_something" ->
            Result(state, "something", do_something(origin, call.something))
      [] call.call = "cause_error" ->
            Result(state, "something", cause_error(origin, state.something))
      [] call.call \in {"transfer_allow_death", "transfer_keep_alive"} ->
            transfer(state, origin, call)

(* Sudo: the key's holder pays no fee, and what the inner call returns does *)
(* not decide the result.                                                   *)
BySudo(xt) == xt.call.call = "sudo" /\ xt.signer = SudoKey

RuntimeDispatch(state, xt) ==
    CASE BySudo(xt) -> [ok |-> TRUE, state |-> dispatch(state, Root, xt.call.inner).state]
      [] ~BySudo(xt) /\ xt.call.call = "sudo" -> [ok |-> FALSE, state |-> state]
      [] xt.call.call # "sudo" -> dispatch(state, xt.signer, xt.call)

-----------------------------------------------------------------------------
(* apply_extrinsic *)

\* Mutant: without CheckNonce.
TxExtensionUnordered(state, ancestors, index, xt) ==
    LET b == birth(xt.phase, state.number)
    IN  /\ b \in StoredHashes(state.number) /\ ancestors[b + 1] = xt.birth_hash
        /\ index < MaxExtrinsics
        /\ state.free[xt.signer] - Fee >= ExistentialDeposit

\* Mutant: the hash of the era's first block is not part of what is signed.
TxExtensionUnanchored(state, ancestors, index, xt) ==
    /\ birth(xt.phase, state.number) \in StoredHashes(state.number)
    /\ xt.nonce = state.nonce[xt.signer]
    /\ index < MaxExtrinsics
    /\ state.free[xt.signer] - Fee >= ExistentialDeposit

(* What the transaction extensions ask of the extrinsic after the first     *)
(* index ones of a block, in their order: CheckEra, CheckNonce, CheckWeight *)
(* and ChargeTransactionPayment, which keeps the account alive.             *)
(* (Extrinsics for another genesis or version are not enumerated.)          *)
TxExtension(state, ancestors, index, xt) ==
    LET b == birth(xt.phase, state.number)
    IN  /\ b \in StoredHashes(state.number) /\ ancestors[b + 1] = xt.birth_hash
        /\ xt.nonce = state.nonce[xt.signer]
        /\ index < MaxExtrinsics
        /\ state.free[xt.signer] - Fee >= ExistentialDeposit

(* The state after CheckNonce and ChargeTransactionPayment have run.        *)
charged(state, xt) ==
    [state EXCEPT !.nonce[xt.signer] = @ + 1, !.free[xt.signer] = @ - Fee]

\* Mutant: a failing call is undone together with its fee.
applied_or_undone(state, xt) ==
    LET result == RuntimeDispatch(charged(state, xt), xt)
    IN  IF ~result.ok THEN state
        ELSE IF BySudo(xt) THEN [result.state EXCEPT !.free[xt.signer] = @ + Fee]
        ELSE result.state

applied(state, xt) ==
    LET result == RuntimeDispatch(charged(state, xt), xt)
    IN  IF BySudo(xt) THEN [result.state EXCEPT !.free[xt.signer] = @ + Fee]
        ELSE result.state

(* One extrinsic after what the earlier ones of its block have resulted in, *)
(* and all extrinsics of a block in turn.                                   *)
execute_extrinsic(ancestors, result, index, xt) ==
    IF result.ok /\ TxExtension(result.state, ancestors, index, xt)
    THEN [ok |-> TRUE, state |-> applied(result.state, xt)]
    ELSE [ok |-> FALSE, state |-> result.state]

executed(ancestors, start, body) ==
    LET after[k \in 0..Len(body)] ==
            IF k = 0 THEN [ok |-> TRUE, state |-> start]
            ELSE execute_extrinsic(ancestors, after[k - 1], k - 1, body[k])
    IN  after[Len(body)]

(* execute_block of an imported block: no extrinsic in it may be invalid.   *)
execute_block(parent, body) ==
    executed(Branch(parent), [blocks[parent].state EXCEPT !.number = @ + 1], body)

-----------------------------------------------------------------------------
(* Block production and import *)

InitializeBlock(n) ==
    /\ build[n] = Idle
    /\ Room
    /\ build' = [build EXCEPT ![n] =
                    [parent |-> best[n], body |-> <<>>,
                     state |-> [blocks[best[n]].state EXCEPT !.number = @ + 1],
                     frees |-> <<>>]]
    /\ UNCHANGED <<signed, blocks, known, best>>

(* An extrinsic that is refused leaves no trace in the block.               *)
ApplyExtrinsic(n, xt) ==
    /\ build[n] # Idle
    /\ TxExtension(build[n].state, Branch(build[n].parent), Len(build[n].body), xt)
    /\ LET state == applied(build[n].state, xt)
       IN  build' = [build EXCEPT ![n].body  = Append(@, xt),
                                  ![n].state = state,
                                  ![n].frees = Append(@, state.free)]
    /\ UNCHANGED <<signed, blocks, known, best>>

(* LongestChain: a strictly longer branch becomes the best one.             *)
Better(n, b, number) ==
    IF number > blocks[best[n]].state.number THEN b ELSE best[n]

FinalizeBlock(n) ==
    /\ build[n] # Idle
    /\ blocks' = Append(blocks, build[n])
    /\ known' = [known EXCEPT ![n] = @ \cup {Len(blocks')}]
    /\ best'  = [best EXCEPT ![n] = Better(n, Len(blocks'), build[n].state.number)]
    /\ build' = [build EXCEPT ![n] = Idle]
    /\ UNCHANGED signed

ImportBlock(n, b) ==
    /\ b \notin known[n] /\ blocks[b].parent \in known[n]
    /\ execute_block(blocks[b].parent, blocks[b].body)
          = [ok |-> TRUE, state |-> blocks[b].state]
    /\ known' = [known EXCEPT ![n] = @ \cup {b}]
    /\ best'  = [best EXCEPT ![n] = Better(n, b, blocks[b].state.number)]
    /\ UNCHANGED <<signed, blocks, build>>

(* The node stops while it builds a block; its database survives.           *)
Restart(n) ==
    /\ build[n] # Idle
    /\ build' = [build EXCEPT ![n] = Idle]
    /\ UNCHANGED <<signed, blocks, known, best>>

Next ==
    \E n \in Nodes :
       \/ \E request \in Requests, gap \in 0..1 : Sign(n, request, gap)
       \/ InitializeBlock(n)
       \/ \E xt \in signed : ApplyExtrinsic(n, xt)
       \/ FinalizeBlock(n)
       \/ \E b \in DOMAIN blocks : ImportBlock(n, b)
       \/ Restart(n)

Spec == Init /\ [][Next]_vars

-----------------------------------------------------------------------------
(* Properties *)

(* The extrinsics of a block and all its ancestors, in order.               *)
History(b) == Along(blocks, [i \in DOMAIN blocks |-> blocks[i].body], b)

(* The balances after each of them.                                         *)
Frees(b) == Along(blocks, [i \in DOMAIN blocks |-> blocks[i].frees], b)

(* Account a is empty, and its nonce forgotten, after one of the extrinsics *)
(* i to j.                                                                  *)
Emptied(frees, a, i, j) == \E k \in i..j : frees[k][a] = 0

(* Whatever authors, forks, retries and restarts come together, a chain     *)
(* holds at most one extrinsic for a signer and a nonce, unless the signer  *)
(* has emptied its account after the first and before the second, which     *)
(* forgets its nonce (TxExtension of runtime/src/lib.rs).                   *)
AppliedOnce ==
    \A b \in DOMAIN blocks :
       LET h == History(b)
       IN  \A j \in DOMAIN h, i \in DOMAIN h :
              i < j /\ h[i].signer = h[j].signer /\ h[i].nonce = h[j].nonce
              => Emptied(Frees(b), h[i].signer, i, j - 1)

(* An extrinsic is in a block only if it was signed on one of the block's   *)
(* own ancestors, fewer than a period of blocks before (CheckEra in         *)
(* TxExtension of runtime/src/lib.rs): what was signed for another fork, or *)
(* has expired, is never applied, whatever node it is offered to and when.  *)
SignedOnAncestor ==
    \A b \in 2..Len(blocks) : \A xt \in Range(blocks[b].body) :
       /\ xt.birth_hash \in Range(Branch(blocks[b].parent))
       /\ blocks[b].state.number - blocks[xt.birth_hash].state.number \in 1..(period - 1)

(* What the extrinsics h, in this order, make of an empty Something.        *)
Explained(h) ==
    LET sets == {i \in DOMAIN h : h[i].call.call = "do_something"}
        last == CHOOSE i \in sets : \A j \in sets : j <= i
        adds == {i \in DOMAIN h : i > last /\ h[i].call.call = "cause_error"}
        sum  == h[last].call.something + Cardinality(adds)
    IN  IF sets = {} THEN NoValue ELSE <<IF sum > MaxU32 THEN MaxU32 ELSE sum>>

(* Something (template/src/lib.rs) is what the calls of the chain explain:  *)
(* the last value stored by a signed origin, plus the increments since then *)
(* up to u32::MAX.  Failed calls and those of the root origin leave it.     *)
SomethingExplained ==
    \A b \in DOMAIN blocks : blocks[b].state.something = Explained(History(b))

Issuance(free) == FoldFunctionOnSet(+, 0, free, Users)

(* The balances after the extrinsics h: what the genesis balances leave     *)
(* when all fees but those of Sudo's key holder are burned.                 *)
Accounted(h, free) ==
    LET paid == Fee * Cardinality({i \in DOMAIN h : ~BySudo(h[i])})
    IN  /\ Issuance(free) + paid <= Issuance(Genesis.free)
        /\ ExistentialDeposit = 1 => Issuance(free) + paid = Issuance(Genesis.free)

(* Every extrinsic in a chain has been paid for, the failed ones too, and   *)
(* fees are burned (OnChargeTransaction of configs/mod.rs); only Sudo's     *)
(* key holder is refunded.  With an existential deposit of 1 nothing else   *)
(* is burned.                                                               *)
FeesPaid ==
    \A b \in DOMAIN blocks : Accounted(History(b), blocks[b].state.free)

(* The era create_benchmark_extrinsic signs for (benchmarking.rs) ends      *)
(* before the runtime forgets the hash of the block it starts at: an        *)
(* extrinsic is never refused as ancient while it is alive.                 *)
EraIsServed ==
    \A xt \in signed :
       LET first == blocks[xt.birth_hash].state.number
       IN  \A n \in (first + 1)..(first + period - 1) :
              birth(xt.phase, n) = first /\ first \in StoredHashes(n)
=============================================================================
