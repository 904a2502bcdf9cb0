------------------------- MODULE NodeServiceProofs --------------------------
(***************************************************************************)
(* What has been started when, for every configuration.  The invariant      *)
(* follows the order of start-up: until the service is taken down, which    *)
(* tasks have been spawned is a function of the stage alone, whichever of   *)
(* them have ended since then.                                              *)
(***************************************************************************)
EXTENDS NodeService, TLAPS

Stages == {"parts", "pool", "import", "network", "offchain", "rpc",
           "start_network", "aura", "grandpa", "running", "failed", "stopped"}

BeforeAura    == Stages \ ({"grandpa", "running"} \cup Over)
BeforeGrandpa == Stages \ ({"running"} \cup Over)
ImportReady   == {"network", "offchain", "rpc", "start_network", "aura",
                  "grandpa", "running"}

(* The stage says what has been started, and the task manager is dropped    *)
(* exactly when the service is taken down.                                  *)
StartupInv ==
    /\ stage \in Stages
    /\ task_manager = IF stage \in Over THEN "dropped" ELSE "held"
    /\ stage \in BeforeAura => "aura" \notin Started
    /\ stage \in BeforeGrandpa => "grandpa-voter" \notin Started
    /\ stage \in ImportReady => "import-queue" \in Started
    /\ stage \in {"aura", "grandpa", "running"} => network = "started"

(* Nothing has been started at first.                                       *)
LEMMA StartupInit == Init => StartupInv
  BY DEF Init, StartupInv, Started, Stages, Over, BeforeAura, BeforeGrandpa, ImportReady

(* A task that ends stays among the started ones.                           *)
LEMMA EndKeepsStarted ==
    ASSUME NEW task \in tasks, TaskEnds(task)
    PROVE  Started' = Started /\ UNCHANGED <<stage, network, task_manager>>
  BY DEF TaskEnds, Started

(* A step of new_partial or new_full adds what it spawns.                   *)
LEMMA StepStarts ==
    ASSUME NEW this, NEW ordinary, NEW essentials, NEW next,
           Step(this, ordinary, essentials, next)
    PROVE  /\ Started' = Started \cup ordinary \cup essentials
           /\ stage = this /\ stage' = next /\ task_manager' = task_manager
  BY DEF Step, Started

(* Every step of start-up keeps the invariant.                              *)
LEMMA StartupKeeps ==
    ASSUME StartupInv, Startup
    PROVE  StartupInv'
<1> USE DEF StartupInv, Stages, Over, BeforeAura, BeforeGrandpa, ImportReady
<1>1. CASE NewParts
  BY <1>1, StepStarts DEF NewParts, If
<1>2. CASE TransactionPool
  BY <1>2, StepStarts DEF TransactionPool
<1>3. CASE ImportQueue
  BY <1>3, StepStarts DEF ImportQueue
<1>4. CASE BuildNetwork
  BY <1>4, StepStarts DEF BuildNetwork
<1>5. CASE OffchainWorkers
  BY <1>5, StepStarts DEF OffchainWorkers, If
<1>6. CASE SpawnTasks
  BY <1>6, StepStarts DEF SpawnTasks
<1>7. CASE StartNetwork
  BY <1>7, StepStarts DEF StartNetwork
<1>8. CASE StartAura
  BY <1>8, StepStarts DEF StartAura, If
<1>9. CASE StartGrandpa
  BY <1>9, StepStarts DEF StartGrandpa, If
<1>10. CASE Abort
  BY <1>10 DEF Abort
<1> QED
  BY <1>1, <1>2, <1>3, <1>4, <1>5, <1>6, <1>7, <1>8, <1>9, <1>10 DEF Startup

(* The invariant is inductive.                                              *)
LEMMA StartupStep == StartupInv /\ [Next]_vars => StartupInv'
<1> SUFFICES ASSUME StartupInv, [Next]_vars PROVE StartupInv'
  OBVIOUS
<1>1. CASE Startup
  BY <1>1, StartupKeeps
<1>2. ASSUME NEW task \in tasks, TaskEnds(task) PROVE StartupInv'
  <2>1. Started' = Started /\ UNCHANGED <<stage, network, task_manager>>
    BY <1>2, EndKeepsStarted
  <2> QED
    BY <2>1 DEF StartupInv
<1>3. ASSUME NEW task \in tasks, TaskCancelled(task) PROVE StartupInv'
  <2>1. /\ task_manager = "dropped"
        /\ UNCHANGED <<stage, network, task_manager>>
    BY <1>3 DEF TaskCancelled
  <2>2. stage \in Over
    BY <2>1 DEF StartupInv
  <2> QED
    BY <2>1, <2>2 DEF StartupInv, Over, BeforeAura, BeforeGrandpa, ImportReady
<1>4. CASE Stopped
  BY <1>4 DEF Stopped, StartupInv, Stages, Over, BeforeAura, BeforeGrandpa, ImportReady
<1>5. CASE UNCHANGED vars
  BY <1>5 DEF vars, StartupInv, Started
<1> QED
  BY <1>1, <1>2, <1>3, <1>4, <1>5 DEF Next, Exit, Signal

(* The invariant holds in every state of every execution.                   *)
LEMMA StartupInvariance == Spec => []StartupInv
  BY StartupInit, StartupStep, PTL DEF Spec

-----------------------------------------------------------------------------
(* No node authors or votes before its network and import queue are up      *)
(* (the order of new_full in service.rs).                                   *)
THEOREM NetworkTheorem == Spec => []ConsensusNeedsNetwork
<1>1. StartupInv => ConsensusNeedsNetwork
  <2> SUFFICES ASSUME StartupInv, stage \notin Over,
                      tasks \cap {"aura", "grandpa-voter"} # {}
               PROVE  network = "started" /\ "import-queue" \in Started
    BY DEF ConsensusNeedsNetwork
  <2>1. "aura" \in Started \/ "grandpa-voter" \in Started
    BY DEF Started
  <2>2. stage \in {"grandpa", "running"}
    BY <2>1 DEF StartupInv, Stages, Over, BeforeAura, BeforeGrandpa
  <2> QED
    BY <2>2 DEF StartupInv, ImportReady
<1> QED
  BY <1>1, StartupInvariance, PTL
=============================================================================
