------------------------------- MODULE Miner --------------------------------
(***************************************************************************)
(* The demo miner of the node (node/src/miner.rs): start() spawns threads   *)
(* that search the u64 nonces in strides and share two flags, stop() may    *)
(* come from another thread at any moment, and a Miner may be started       *)
(* again.  Every atomic load and store is a step of its own (all that carry *)
(* control are SeqCst), so threads interleave between them.                 *)
(*                                                                          *)
(* A header is its difficulty and the double hash of each nonce (pow), the  *)
(* hash that verify_pow_enhanced of the pallet recomputes.  Statistics and  *)
(* messages are left out.  One start() runs at a time, as in command.rs.    *)
(***************************************************************************)
EXTENDS Integers

CONSTANTS
    Threads,             \* number of mining threads
    MaxU64,              \* largest u64
    target_difficulty,   \* the miner's own target
    Headers              \* headers that start() is called with

Workers == 0..Threads - 1     \* thread_id
Nonces  == 0..MaxU64

ASSUME MinerAssumption ==
    /\ Threads \in Nat /\ MaxU64 \in Nat
    /\ target_difficulty \in Nat
    /\ \A h \in Headers : h.difficulty \in Nat /\ h.pow \in [Nonces -> Nat]

VARIABLES
    running, found_solution, found_nonce,     \* the shared atomics
    header,      \* argument of the current start()
    main,        \* where start() is: "idle" | "called" | "spawning" | "some" | "none"
    spawned,     \* threads spawned so far
    pc, nonce,   \* of each thread
    stopped      \* history: stop() has been called during the current call

flags   == <<running, found_solution, found_nonce>>
threads == <<pc, nonce>>
vars    == <<flags, header, main, spawned, threads, stopped>>

Init ==
    /\ running = FALSE /\ found_solution = FALSE /\ found_nonce = 0
    /\ header \in Headers
    /\ main = "idle" /\ spawned = 0
    /\ pc = [t \in Workers |-> "done"] /\ nonce = [t \in Workers |-> 0]
    /\ stopped = FALSE

Target == IF target_difficulty < header.difficulty
          THEN target_difficulty ELSE header.difficulty

Returned == main \in {"idle", "some", "none"}

-----------------------------------------------------------------------------
(* start() *)

Call(h) ==
    /\ Returned
    /\ main' = "called" /\ header' = h
    /\ stopped' = FALSE
    /\ UNCHANGED <<flags, spawned, threads>>

\* Mutant: running keeps the value the previous call left.
BeginWithoutRunning ==
    /\ main = "called"
    /\ found_solution' = FALSE /\ found_nonce' = 0
    /\ main' = "spawning" /\ spawned' = 0
    /\ UNCHANGED <<running, header, threads, stopped>>

(* found_solution and found_nonce are fresh in every call.                  *)
Begin ==
    /\ main = "called"
    /\ running' = TRUE
    /\ found_solution' = FALSE /\ found_nonce' = 0
    /\ main' = "spawning" /\ spawned' = 0
    /\ UNCHANGED <<header, threads, stopped>>

\* Mutant: all threads search the same stride.
same_nonce(t) == 0

first_nonce(t) == t % (MaxU64 + 1)

Spawn ==
    /\ main = "spawning" /\ spawned < Threads
    /\ pc' = [pc EXCEPT ![spawned] = "running"]
    /\ nonce' = [nonce EXCEPT ![spawned] = first_nonce(spawned)]
    /\ spawned' = spawned + 1
    /\ UNCHANGED <<flags, header, main, stopped>>

\* Mutant: start() returns when it sees the flag, before the threads are joined.
AllSeen == found_solution \/ \A t \in Workers : pc[t] = "done"

AllJoined == \A t \in Workers : pc[t] = "done"

(* All threads are joined, so no one writes the flags that are read here.   *)
Finish ==
    /\ main = "spawning" /\ spawned = Threads
    /\ AllJoined
    /\ main' = IF found_solution THEN "some" ELSE "none"
    /\ UNCHANGED <<flags, header, spawned, threads, stopped>>

-----------------------------------------------------------------------------
(* A mining thread *)

Goto(t, label) == pc' = [pc EXCEPT ![t] = label]

rest == <<header, main, spawned, stopped>>

\* Mutant: the loop does not look at running.
LoadNothing(t) ==
    /\ pc[t] = "running" /\ Goto(t, "found")
    /\ UNCHANGED <<flags, rest, nonce>>

LoadRunning(t) ==
    /\ pc[t] = "running"
    /\ Goto(t, IF running THEN "found" ELSE "done")
    /\ UNCHANGED <<flags, rest, nonce>>

LoadFound(t) ==
    /\ pc[t] = "found"
    /\ Goto(t, IF found_solution THEN "done" ELSE "hash")
    /\ UNCHANGED <<flags, rest, nonce>>

Hit(t) ==
    /\ pc[t] = "hash" /\ header.pow[nonce[t]] <= Target
    /\ Goto(t, "store_found")
    /\ UNCHANGED <<flags, rest, nonce>>

\* Mutant: the nonce does not wrap.
MissUnwrapped(t) ==
    /\ pc[t] = "hash" /\ header.pow[nonce[t]] > Target
    /\ nonce' = [nonce EXCEPT ![t] = @ + Threads]
    /\ Goto(t, "running")
    /\ UNCHANGED <<flags, rest>>

Miss(t) ==
    /\ pc[t] = "hash" /\ header.pow[nonce[t]] > Target
    /\ nonce' = [nonce EXCEPT ![t] = (@ + Threads) % (MaxU64 + 1)]
    /\ Goto(t, "running")
    /\ UNCHANGED <<flags, rest>>

StoreFound(t) ==
    /\ pc[t] = "store_found" /\ Goto(t, "store_nonce")
    /\ found_solution' = TRUE
    /\ UNCHANGED <<running, found_nonce, rest, nonce>>

StoreNonce(t) ==
    /\ pc[t] = "store_nonce" /\ Goto(t, "store_running")
    /\ found_nonce' = nonce[t]
    /\ UNCHANGED <<running, found_solution, rest, nonce>>

StoreRunning(t) ==
    /\ pc[t] = "store_running" /\ Goto(t, "done")
    /\ running' = FALSE
    /\ UNCHANGED <<found_solution, found_nonce, rest, nonce>>

ThreadStep(t) ==
    \/ LoadRunning(t) \/ LoadFound(t) \/ Hit(t) \/ Miss(t)
    \/ StoreFound(t) \/ StoreNonce(t) \/ StoreRunning(t)

-----------------------------------------------------------------------------
(* stop(), also what dropping the miner does *)
Stop ==
    /\ running' = FALSE /\ stopped' = TRUE
    /\ UNCHANGED <<found_solution, found_nonce, header, main, spawned, threads>>

MainStep == Begin \/ Spawn \/ Finish

Next ==
    \/ \E h \in Headers : Call(h)
    \/ MainStep
    \/ \E t \in Workers : ThreadStep(t)
    \/ Stop

(* The operating system runs every thread; nobody has to call the miner.    *)
Fairness == WF_vars(MainStep) /\ \A t \in Workers : WF_vars(ThreadStep(t))

Spec == Init /\ [][Next]_vars /\ Fairness

-----------------------------------------------------------------------------
(* Properties *)

(* Type correctness of the miner's atomics and threads.                     *)
TypeOK ==
    /\ running \in BOOLEAN /\ found_solution \in BOOLEAN
    /\ found_nonce \in Nonces
    /\ header \in Headers
    /\ main \in {"idle", "called", "spawning", "some", "none"}
    /\ spawned \in 0..Threads
    /\ pc \in [Workers -> {"done", "running", "found", "hash", "store_found",
                           "store_nonce", "store_running"}]
    /\ nonce \in [Workers -> Nonces]
    /\ stopped \in BOOLEAN

(* What start() returns is a solution: Some(nonce) carries a nonce whose    *)
(* hash meets the header's own difficulty, so submit_block accepts it.  The *)
(* flag is stored before the nonce and two threads may find one at once.    *)
ReturnsSolution == main = "some" => header.pow[found_nonce] <= header.difficulty

(* start() gives up only because it was told to: None means that stop() was *)
(* called during the call (or that there was no thread to mine).  A thread  *)
(* or a flag of an earlier call never ends a later one.                     *)
NoneMeansStopped == main = "none" => stopped \/ Threads = 0

(* If some nonce meets the target, a call of start() returns: the threads   *)
(* together try every u64.                                                  *)
SolvableEnds ==
    (main = "called" /\ \E n \in Nonces : header.pow[n] <= Target) ~> Returned

(* Once running is false while the threads mine (stop() or a thread that    *)
(* has found a solution cleared it), the call ends, even if no nonce meets  *)
(* the target.                                                              *)
StopTakesEffect == (main = "spawning" /\ ~running) ~> Returned
=============================================================================
