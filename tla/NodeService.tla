---------------------------- MODULE NodeService -----------------------------
(***************************************************************************)
(* Start-up and shutdown of a node (node/src/service.rs): new_partial and   *)
(* new_full build the service step by step, each step may return Err, and   *)
(* tasks that were spawned run (and may end) while the rest is built.       *)
(*                                                                          *)
(* What Substrate does is external and modelled from its use here: a task   *)
(* is essential when it was spawned through spawn_essential_handle; the     *)
(* task manager remembers that an essential task has ended, but only        *)
(* run_node_until_exit looks at it, after new_full has returned; dropping   *)
(* the task manager tells every task to end, and each does so by itself,    *)
(* later; a network that was built does nothing until its starter is        *)
(* called.                                                                  *)
(***************************************************************************)
EXTENDS FiniteSets

VARIABLES
    config,             \* the parts of Configuration that decide what is started
    stage,              \* the next step, or "running" | "failed" | "stopped"
    tasks,              \* tasks that run
    essential,          \* tasks spawned through spawn_essential_handle
    network,            \* "none" | "built" | "started"
    task_manager,       \* "held" | "dropped"
    essential_failed,   \* what the task manager remembers
    died                \* history: tasks that ended by themselves

vars == <<config, stage, tasks, essential, network, task_manager, essential_failed, died>>

Configurations ==
    [authority : BOOLEAN, disable_grandpa : BOOLEAN,
     offchain_worker : BOOLEAN, telemetry : BOOLEAN]

enable_grandpa == ~config.disable_grandpa

Init ==
    /\ config \in Configurations
    /\ stage = "parts" /\ tasks = {} /\ essential = {} /\ network = "none"
    /\ task_manager = "held" /\ essential_failed = FALSE /\ died = {}

-----------------------------------------------------------------------------
(* One step of the two functions: spawns tasks, some of them through the    *)
(* essential handle, and goes on.                                           *)
Step(this, ordinary, essentials, next) ==
    /\ stage = this
    /\ stage' = next
    /\ tasks' = tasks \cup ordinary \cup essentials
    /\ essential' = essential \cup essentials
    /\ UNCHANGED <<config, task_manager, essential_failed, died>>

If(condition, task) == IF condition THEN {task} ELSE {}

NewParts ==
    /\ Step("parts", If(config.telemetry, "telemetry"), {}, "pool")
    /\ UNCHANGED network

TransactionPool ==
    /\ Step("pool", {}, {"transaction-pool"}, "import")
    /\ UNCHANGED network

ImportQueue ==
    /\ Step("import", {}, {"import-queue"}, "network")
    /\ UNCHANGED network

BuildNetwork ==
    /\ Step("network", {"network"}, {}, "offchain")
    /\ network' = "built"

OffchainWorkers ==
    /\ Step("offchain", If(config.offchain_worker, "offchain-workers-runner"), {}, "rpc")
    /\ UNCHANGED network

SpawnTasks ==
    /\ Step("rpc", {"rpc"}, {}, "start_network")
    /\ UNCHANGED network

\* Mutant: the starter is dropped.
ForgetNetwork ==
    /\ Step("start_network", {}, {}, "aura")
    /\ UNCHANGED network

StartNetwork ==
    /\ Step("start_network", {}, {}, "aura")
    /\ network' = "started"

\* Mutant: the authoring task is spawned through the ordinary handle.
StartAuraOrdinary ==
    /\ Step("aura", If(config.authority, "aura"), {}, "grandpa")
    /\ UNCHANGED network

StartAura ==
    /\ Step("aura", {}, If(config.authority, "aura"), "grandpa")
    /\ UNCHANGED network

StartGrandpa ==
    /\ Step("grandpa", {}, If(enable_grandpa, "grandpa-voter"), "running")
    /\ UNCHANGED network

(* The steps that end in `?`.                                               *)
Fallible ==
    \/ stage \in {"parts", "import", "network", "rpc"}
    \/ stage = "aura" /\ config.authority
    \/ stage = "grandpa" /\ enable_grandpa

\* Mutant: the task manager outlives the function that returns Err.
AbortLeaks ==
    /\ Fallible
    /\ stage' = "failed"
    /\ UNCHANGED <<config, tasks, essential, network, task_manager, essential_failed, died>>

(* Err: the function that holds the task manager returns and drops it.      *)
Abort ==
    /\ Fallible
    /\ stage' = "failed" /\ task_manager' = "dropped"
    /\ UNCHANGED <<config, tasks, essential, network, essential_failed, died>>

Startup ==
    \/ NewParts \/ TransactionPool \/ ImportQueue \/ BuildNetwork \/ OffchainWorkers
    \/ SpawnTasks \/ StartNetwork \/ StartAura \/ StartGrandpa \/ Abort

-----------------------------------------------------------------------------
(* Tasks that end, and run_node_until_exit *)

TaskEnds(task) ==
    /\ task \in tasks
    /\ tasks' = tasks \ {task}
    /\ died' = died \cup {task}
    /\ essential_failed' = (essential_failed \/ task \in essential)
    /\ UNCHANGED <<config, stage, essential, network, task_manager>>

(* A task that sees that the task manager is gone.                          *)
TaskCancelled(task) ==
    /\ task \in tasks /\ task_manager = "dropped"
    /\ tasks' = tasks \ {task}
    /\ UNCHANGED <<config, stage, essential, network, task_manager, essential_failed, died>>

Stopped ==
    /\ stage = "running"
    /\ stage' = "stopped" /\ task_manager' = "dropped"
    /\ UNCHANGED <<config, tasks, essential, network, essential_failed, died>>

Exit == essential_failed /\ Stopped

Signal == Stopped

Next ==
    \/ Startup
    \/ \E task \in tasks : TaskEnds(task) \/ TaskCancelled(task)
    \/ Exit \/ Signal

(* new_full runs to its end, run_node_until_exit polls the task manager,    *)
(* and the executor polls the tasks that have been told to end.             *)
Spec ==
    /\ Init /\ [][Next]_vars
    /\ WF_vars(Startup) /\ WF_vars(Exit)
    /\ WF_vars(\E task \in tasks : TaskCancelled(task))

-----------------------------------------------------------------------------
(* Properties *)

Over == {"failed", "stopped"}

Started == tasks \cup died

(* A node authors and votes only once blocks can come and go: as long as    *)
(* the service is not being taken down, the network has been started and    *)
(* the import queue spawned (new_full in service.rs) before either task.    *)
ConsensusNeedsNetwork ==
    stage \notin Over /\ tasks \cap {"aura", "grandpa-voter"} # {} =>
        network = "started" /\ "import-queue" \in Started

(* If the authoring or the voter task fails "we take down the service with  *)
(* it" (service.rs), also when it fails before new_full has returned; the   *)
(* same handle spawns the transaction pool and the import queue.            *)
EssentialEndsNode ==
    died \cap {"transaction-pool", "import-queue", "aura", "grandpa-voter"} # {}
        ~> stage \in Over

(* A start-up that returns Err after it has spawned tasks leaves none of    *)
(* them behind, and neither does a node that stops (the task manager held   *)
(* by new_partial, new_full and run_node_until_exit in turn).               *)
Unwinds == stage \in Over ~> tasks = {}
=============================================================================
