---------------------------- MODULE MinerProofs -----------------------------
(***************************************************************************)
(* Safety of the demo miner for any number of threads, any width of the     *)
(* nonce and any headers.                                                   *)
(*                                                                          *)
(* start() reads the two result cells only after the threads are joined, so *)
(* the invariant says what a thread owes at each of its steps: one that is  *)
(* past its hash has a solution in its own nonce (Holders), a raised flag   *)
(* means that found_nonce is a solution or is about to be stored (Flag),    *)
(* and every reason for a thread to be over is a found solution or a stop   *)
(* (Ended).                                                                 *)
(***************************************************************************)
EXTENDS Miner, TLAPS

Labels == {"done", "running", "found", "hash", "store_found",
           "store_nonce", "store_running"}

Solves(n) == header.pow[n] <= Target

(* Threads exist only while start() waits for them.                         *)
Joined ==
    /\ main # "spawning" => AllJoined
    /\ main = "spawning" => \A t \in Workers : t >= spawned => pc[t] = "done"

(* A thread that stores holds a solution; one past the first store has      *)
(* raised the flag.                                                         *)
Holders ==
    \A t \in Workers :
       /\ pc[t] \in {"store_found", "store_nonce", "store_running"} => Solves(nonce[t])
       /\ pc[t] \in {"store_nonce", "store_running"} => found_solution

(* The flag is raised before the nonce is stored.                           *)
Flag ==
    main \in {"spawning", "some"} /\ found_solution =>
        Solves(found_nonce) \/ \E t \in Workers : pc[t] = "store_nonce"

(* Why running is false, and why a spawned thread is over.                  *)
Ended ==
    main = "spawning" =>
        /\ ~running => stopped \/ found_solution
        /\ \A t \in Workers :
              t < spawned /\ pc[t] = "done" => stopped \/ found_solution

MinerInv == /\ TypeOK
            /\ Joined /\ Holders /\ Flag /\ Ended
            /\ NoneMeansStopped
            /\ main = "some" => found_solution

-----------------------------------------------------------------------------
(* The constants as the proofs use them.                                    *)
LEMMA WorkerFacts ==
    /\ Threads \in Nat /\ MaxU64 \in Nat
    /\ 0 \in Nonces /\ 0 \in 0..Threads
    /\ \A x \in Nat : x % (MaxU64 + 1) \in Nonces
    /\ \A t \in Workers : t \in Nat
<1>1. Threads \in Nat /\ MaxU64 \in Nat
  BY MinerAssumption
<1>2. \A x \in Nat : x % (MaxU64 + 1) \in 0..MaxU64
  BY <1>1
<1> QED
  BY <1>1, <1>2 DEF Nonces, Workers

(* A nonce that meets the miner's target meets the header's difficulty.     *)
LEMMA TargetBelowDifficulty ==
    ASSUME TypeOK, NEW n \in Nonces, Solves(n)
    PROVE  header.pow[n] <= header.difficulty
<1>1. header.difficulty \in Nat /\ header.pow[n] \in Nat /\ target_difficulty \in Nat
  BY MinerAssumption DEF TypeOK
<1> QED
  BY <1>1 DEF Solves, Target

(* The initial states satisfy the invariant.                                *)
LEMMA MinerInit == Init => MinerInv
<1> SUFFICES ASSUME Init PROVE MinerInv
  OBVIOUS
<1>1. TypeOK
  <2>1. 0 \in Nonces /\ 0 \in 0..Threads
    BY WorkerFacts
  <2> QED
    BY <2>1, Zenon DEF Init, TypeOK
<1> QED
  BY <1>1 DEF Init, MinerInv, Joined, AllJoined, Holders, Flag, Ended, NoneMeansStopped

(* start() keeps the invariant.                                             *)
LEMMA MainKeeps ==
    ASSUME MinerInv, (\E h \in Headers : Call(h)) \/ MainStep
    PROVE  MinerInv'
<1> USE DEF MinerInv
<1>1. ASSUME NEW h \in Headers, Call(h) PROVE MinerInv'
  <2>1. TypeOK'
    BY <1>1 DEF Call, TypeOK, flags, threads
  <2>2. Joined' /\ Holders'
    BY <1>1 DEF Call, Joined, AllJoined, Holders, Returned, flags, threads
  <2> QED
    BY <1>1, <2>1, <2>2 DEF Call, Flag, Ended, NoneMeansStopped
<1>2. CASE Begin
  <2>1. TypeOK'
    <3>1. 0 \in Nonces /\ 0 \in 0..Threads
      BY WorkerFacts
    <3> QED
      BY <1>2, <3>1, Zenon DEF Begin, TypeOK, threads
  <2>2. \A t \in Workers : pc'[t] = "done" /\ t \in Nat
    BY <1>2, WorkerFacts DEF Begin, Joined, AllJoined, threads
  <2> QED
    BY <1>2, <2>1, <2>2 DEF Begin, Joined, Holders, Flag, Ended, NoneMeansStopped, threads
<1>3. CASE Spawn
  <2>1. /\ main = "spawning" /\ main' = "spawning" /\ spawned' = spawned + 1
        /\ spawned \in Workers /\ spawned \in Nat /\ spawned' \in 0..Threads
        /\ UNCHANGED <<running, found_solution, found_nonce, header, stopped>>
    BY <1>3, WorkerFacts DEF Spawn, TypeOK, Workers, flags
  <2>2. \A t \in Workers : /\ pc'[t] = IF t = spawned THEN "running" ELSE pc[t]
                           /\ t # spawned => nonce'[t] = nonce[t]
    BY <1>3, <2>1 DEF Spawn, TypeOK
  <2>3. TypeOK'
    <3>1. first_nonce(spawned) \in Nonces
      BY <2>1, WorkerFacts DEF first_nonce
    <3>2. pc' \in [Workers -> Labels] /\ nonce' \in [Workers -> Nonces]
      BY <1>3, <3>1 DEF Spawn, TypeOK, Labels
    <3> QED
      BY <2>1, <3>2 DEF TypeOK, Labels
  <2>4. Joined'
    BY <2>1, <2>2, WorkerFacts DEF Joined
  <2>5. Holders'
    BY <2>1, <2>2 DEF Holders, Solves, Target
  <2>6. Flag'
    BY <2>1, <2>2 DEF Flag, Solves, Target, Joined
  <2>7. Ended'
    BY <2>1, <2>2, WorkerFacts DEF Ended
  <2> QED
    BY <2>1, <2>3, <2>4, <2>5, <2>6, <2>7 DEF NoneMeansStopped
<1>4. CASE Finish
  <2>1. /\ main = "spawning" /\ spawned = Threads /\ AllJoined
        /\ main' = IF found_solution THEN "some" ELSE "none"
        /\ UNCHANGED <<running, found_solution, found_nonce, header, spawned, pc, nonce, stopped>>
    BY <1>4 DEF Finish, flags, threads
  <2>2. TypeOK'
    BY <2>1 DEF TypeOK
  <2>3. Joined' /\ Holders' /\ Ended'
    BY <2>1 DEF Joined, AllJoined, Holders, Solves, Target, Ended
  <2>4. Flag'
    BY <2>1 DEF Flag, Solves, Target
  <2>5. NoneMeansStopped'
    <3>1. ASSUME main' = "none", Threads # 0 PROVE stopped'
      <4>1. 0 \in Workers /\ 0 < spawned /\ pc[0] = "done"
        BY <2>1, <3>1, WorkerFacts DEF AllJoined, Workers
      <4> QED
        BY <2>1, <3>1, <4>1 DEF Ended
    <3> QED
      BY <3>1 DEF NoneMeansStopped
  <2> QED
    BY <2>1, <2>2, <2>3, <2>4, <2>5
<1> QED
  BY <1>1, <1>2, <1>3, <1>4 DEF MainStep

(* A step of a thread keeps the types and says which label moves.           *)
LEMMA ThreadMoves ==
    ASSUME TypeOK, NEW t \in Workers, ThreadStep(t)
    PROVE  /\ TypeOK'
           /\ UNCHANGED <<header, main, spawned, stopped>>
           /\ \A u \in Workers : u # t => pc'[u] = pc[u] /\ nonce'[u] = nonce[u]
<1>1. UNCHANGED <<header, main, spawned, stopped>>
  BY DEF ThreadStep, LoadRunning, LoadFound, Hit, Miss, StoreFound, StoreNonce,
         StoreRunning, rest
<1>2. PICK l \in Labels : pc' = [pc EXCEPT ![t] = l]
  BY DEF ThreadStep, LoadRunning, LoadFound, Hit, Miss, StoreFound, StoreNonce,
         StoreRunning, Goto, Labels
<1>3. PICK n \in Nonces : nonce' = [nonce EXCEPT ![t] = n]
  <2>1. nonce[t] \in Nonces /\ nonce = [nonce EXCEPT ![t] = nonce[t]]
    BY DEF TypeOK
  <2>2. CASE Miss(t)
    <3>1. nonce[t] + Threads \in Nat
      BY <2>1, WorkerFacts DEF Nonces
    <3> QED
      BY <2>2, <3>1, WorkerFacts DEF Miss
  <2>3. CASE ~Miss(t)
    <3>1. nonce' = nonce
      BY <2>3 DEF ThreadStep, LoadRunning, LoadFound, Hit, StoreFound, StoreNonce,
                  StoreRunning
    <3> QED
      BY <2>1, <3>1
  <2> QED
    BY <2>2, <2>3
<1>4. running' \in BOOLEAN /\ found_solution' \in BOOLEAN /\ found_nonce' \in Nonces
  BY DEF TypeOK, ThreadStep, LoadRunning, LoadFound, Hit, Miss, StoreFound, StoreNonce,
         StoreRunning, flags
<1>5. pc' \in [Workers -> Labels] /\ nonce' \in [Workers -> Nonces]
  BY <1>2, <1>3 DEF TypeOK, Labels
<1>6. TypeOK'
  BY <1>1, <1>4, <1>5 DEF TypeOK, Labels
<1> QED
  BY <1>1, <1>2, <1>3, <1>6 DEF TypeOK

(* A thread keeps the invariant.                                            *)
LEMMA ThreadKeeps ==
    ASSUME MinerInv, NEW t \in Workers, ThreadStep(t)
    PROVE  MinerInv'
<1>1. /\ TypeOK /\ Joined /\ Holders /\ Flag /\ Ended
  BY DEF MinerInv
<1>2. /\ TypeOK' /\ UNCHANGED <<header, main, spawned, stopped>>
      /\ \A u \in Workers : u # t => pc'[u] = pc[u] /\ nonce'[u] = nonce[u]
  BY <1>1, ThreadMoves
<1>3. pc[t] # "done"
  BY DEF ThreadStep, LoadRunning, LoadFound, Hit, Miss, StoreFound, StoreNonce, StoreRunning
<1>4. main = "spawning" /\ ~(t >= spawned)
  BY <1>1, <1>3 DEF Joined, AllJoined
<1>5. Joined'
  BY <1>2, <1>4, <1>1 DEF Joined
<1>6. found_solution => found_solution'
  BY DEF ThreadStep, LoadRunning, LoadFound, Hit, Miss, StoreFound, StoreNonce,
         StoreRunning, flags
<1>7. Holders'
  <2>1. ASSUME pc'[t] \in {"store_found", "store_nonce", "store_running"}
        PROVE  Solves(nonce[t])'
    <3>1. nonce' = nonce /\ Solves(nonce[t])
      BY <1>1, <2>1 DEF TypeOK, Holders, ThreadStep, LoadRunning, LoadFound, Hit, Miss,
         StoreFound, StoreNonce, StoreRunning, Goto, Solves
    <3> QED
      BY <1>2, <3>1 DEF Solves, Target
  <2>2. pc'[t] \in {"store_nonce", "store_running"} => found_solution'
    BY <1>1 DEF TypeOK, Holders, ThreadStep, LoadRunning, LoadFound, Hit, Miss,
       StoreFound, StoreNonce, StoreRunning, Goto
  <2>3. \A u \in Workers : u # t /\ Solves(nonce[u]) => Solves(nonce[u])'
    BY <1>2 DEF Solves, Target
  <2> QED
    BY <1>1, <1>2, <1>6, <2>1, <2>2, <2>3 DEF Holders
<1>8. Flag'
  <2> SUFFICES ASSUME found_solution'
               PROVE  Solves(found_nonce)' \/ \E u \in Workers : pc'[u] = "store_nonce"
    BY DEF Flag
  <2>1. CASE StoreFound(t)
    BY <1>1, <2>1 DEF StoreFound, Goto, TypeOK
  <2>2. CASE StoreNonce(t)
    <3>1. Solves(nonce[t]) /\ found_nonce' = nonce[t]
      BY <1>1, <2>2 DEF StoreNonce, Holders
    <3> QED
      BY <1>2, <3>1 DEF Solves, Target
  <2>3. CASE ~StoreFound(t) /\ ~StoreNonce(t)
    <3>1. found_solution /\ found_nonce' = found_nonce /\ pc[t] # "store_nonce"
      BY <2>3 DEF ThreadStep, LoadRunning, LoadFound, Hit, Miss, StoreFound, StoreNonce,
         StoreRunning, flags
    <3>2. Solves(found_nonce) \/ \E u \in Workers : pc[u] = "store_nonce"
      BY <1>1, <1>4, <3>1 DEF Flag
    <3> QED
      BY <1>2, <3>1, <3>2 DEF Solves, Target
  <2> QED
    BY <2>1, <2>2, <2>3
<1>9. Ended'
  <2>1. ~running' => stopped \/ found_solution'
    <3>1. CASE StoreRunning(t)
      BY <1>1, <3>1 DEF StoreRunning, Holders
    <3>2. CASE ~StoreRunning(t)
      <4>1. running' = running
        BY <3>2 DEF ThreadStep, LoadRunning, LoadFound, Hit, Miss, StoreFound, StoreNonce, flags
      <4> QED
        BY <1>1, <1>4, <1>6, <4>1 DEF Ended
    <3> QED
      BY <3>1, <3>2
  <2>2. pc'[t] = "done" => stopped \/ found_solution'
    <3>1. CASE StoreRunning(t)
      BY <1>1, <3>1 DEF StoreRunning, Holders
    <3>2. CASE LoadRunning(t)
      BY <1>1, <1>4, <1>6, <3>2 DEF LoadRunning, Goto, TypeOK, Ended
    <3>3. CASE LoadFound(t)
      BY <1>1, <1>6, <3>3 DEF LoadFound, Goto, TypeOK
    <3>4. CASE Hit(t) \/ Miss(t) \/ StoreFound(t) \/ StoreNonce(t)
      BY <1>1, <3>4 DEF Hit, Miss, StoreFound, StoreNonce, Goto, TypeOK
    <3> QED
      BY <3>1, <3>2, <3>3, <3>4 DEF ThreadStep
  <2> QED
    BY <1>1, <1>2, <1>6, <2>1, <2>2 DEF Ended
<1> QED
  BY <1>2, <1>4, <1>5, <1>7, <1>8, <1>9 DEF MinerInv, NoneMeansStopped

(* The invariant is inductive.                                              *)
LEMMA MinerStep == MinerInv /\ [Next]_vars => MinerInv'
<1> SUFFICES ASSUME MinerInv, [Next]_vars PROVE MinerInv'
  OBVIOUS
<1>1. CASE Stop
  <2>1. TypeOK' /\ Joined' /\ Holders' /\ Flag'
    BY <1>1 DEF MinerInv, Stop, TypeOK, threads, Joined, AllJoined, Holders, Flag, Solves, Target
  <2> QED
    BY <1>1, <2>1 DEF MinerInv, Stop, Ended, NoneMeansStopped
<1>2. CASE UNCHANGED vars
  <2>1. UNCHANGED <<running, found_solution, found_nonce, header, main, spawned, pc, nonce, stopped>>
    BY <1>2 DEF vars, flags, threads
  <2> QED
    BY <2>1 DEF MinerInv, TypeOK, Joined, AllJoined, Holders, Flag, Ended, NoneMeansStopped,
       Solves, Target
<1> QED
  BY <1>1, <1>2, MainKeeps, ThreadKeeps DEF Next

(* The invariant holds in every state of every execution.                   *)
LEMMA MinerInvariance == Spec => []MinerInv
  BY MinerInit, MinerStep, PTL DEF Spec

-----------------------------------------------------------------------------
(* The atomics and threads of miner.rs stay well typed: a nonce wraps and   *)
(* never leaves u64.                                                        *)
THEOREM MinerTypeTheorem == Spec => []TypeOK
<1>1. MinerInv => TypeOK
  BY DEF MinerInv
<1> QED
  BY <1>1, MinerInvariance, PTL

(* What start() returns is a solution of the header it was called with,     *)
(* however many threads find one at once and in whichever order they store. *)
THEOREM SolutionTheorem == Spec => []ReturnsSolution
<1>1. MinerInv => ReturnsSolution
  <2> SUFFICES ASSUME MinerInv, main = "some"
               PROVE  header.pow[found_nonce] <= header.difficulty
    BY DEF ReturnsSolution
  <2>1. TypeOK /\ Solves(found_nonce)
    BY DEF MinerInv, Flag, Joined, AllJoined
  <2>2. found_nonce \in Nonces
    BY <2>1 DEF TypeOK
  <2> QED
    BY <2>1, <2>2, TargetBelowDifficulty
<1> QED
  BY <1>1, MinerInvariance, PTL

(* start() returns None only after a stop() during the same call, or if it  *)
(* has no threads: no flag and no thread of an earlier call ends it.        *)
THEOREM NoneTheorem == Spec => []NoneMeansStopped
<1>1. MinerInv => NoneMeansStopped
  BY DEF MinerInv
<1> QED
  BY <1>1, MinerInvariance, PTL
=============================================================================
