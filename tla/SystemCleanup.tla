---------------------------- MODULE SystemCleanup ----------------------------
(***************************************************************************)
(* lib/zypi/system/cleanup.ex beside ContainerManager, and the restart of  *)
(* the whole node, after which it is what gets rid of the old processes.   *)
(*                                                                         *)
(* A sweep reads the table of containers once and then works from that     *)
(* list, while the GenServer of ContainerManager goes on: first it kills   *)
(* the Firecracker processes whose id is not on it, then it removes the    *)
(* old directories whose id is not on it.                                  *)
(***************************************************************************)
EXTENDS ContainerManager

CONSTANT MaxRestarts        \* bound: restarts of the node

ASSUME RestartAssumption == MaxRestarts \in Nat

VARIABLES
  sweep,            \* "idle", or the last step of the sweep that was taken
  active,           \* the ids it found active
  recent,           \* the containers whose directory was made since then
  serving,          \* is the API up?
  restarts

sweepVars   == <<sweep, active, serving, restarts>>
cleanupVars == <<vars, sweepVars, recent>>

CleanupInit ==
  /\ Init
  /\ sweep = "idle" /\ active = {} /\ recent = {}
  /\ serving = FALSE /\ restarts = 0

(* Clients reach the GenServer through the API, which the supervisor       *)
(* starts after Cleanup, whose init runs a sweep.                          *)
ManagerStep ==
  /\ serving /\ \E c \in Containers : Serve(c)
  /\ recent' = recent \union (rootfs' \ rootfs)
  /\ UNCHANGED sweepVars

VMDies(p) == ProcessDies(p) /\ UNCHANGED <<sweepVars, recent>>

ExitHandled(p) == PortExit(p) /\ UNCHANGED <<sweepVars, recent>>

(* Mutant: stopped and exited containers count as active.                  *)
ActiveUnlessDestroyed == {c \in Containers : Present(c)}

(* get_active_ids.                                                         *)
Active == {c \in Containers : status[c] \in {"running", "created"}}

SweepBegin ==
  /\ sweep = "idle"
  /\ sweep' = "listed" /\ active' = Active /\ recent' = {}
  /\ UNCHANGED <<serving, restarts, vars>>

(* cleanup_zombie_processes: kill -9, however young the process is.        *)
SweepKill ==
  /\ sweep = "listed"
  /\ sweep' = "killed"
  /\ LET S == {p \in alive : socket[p] \notin active} IN
       /\ Die(S, {})
       /\ tap' = [c \in Containers |-> IF tap[c] \in S THEN NoPort ELSE tap[c]]
  /\ UNCHANGED <<active, recent, serving, restarts, ipVars, tableVars, managerVars,
                 spawnVars, rootfs>>

(* cleanup_dir of the containers directory: any of the others may be older *)
(* than five minutes, but for those made since the sweep began.            *)
SweepDirs ==
  /\ sweep = "killed"
  /\ sweep' = "idle" /\ serving' = TRUE
  /\ \E old \in SUBSET (rootfs \ (active \union recent)) : rootfs' = rootfs \ old
  /\ UNCHANGED <<active, recent, restarts, ipVars, tableVars, managerVars,
                 processVars, spawnVars, tap>>

NodeDown ==
  /\ restarts < MaxRestarts /\ restarts' = restarts + 1
  /\ available' = [i \in 1..(PoolSize - 1) |-> i + 1] /\ allocated' = {}
  /\ status' = [c \in Containers |-> "absent"]
  /\ ip' = [c \in Containers |-> NoAddress]
  /\ Restarted /\ RestartedPorts
  /\ sweep' = "idle" /\ active' = {} /\ recent' = {}
  /\ UNCHANGED <<rootfs, alive, booted, spawnVars, tap>>

(* Mutant: the API is started before Cleanup.                              *)
NodeRestartServing == NodeDown /\ serving' = TRUE

(* The node goes down and comes up with an empty table, a full pool and no *)
(* port; processes, taps and rootfs copies are still there.                *)
NodeRestart == NodeDown /\ serving' = FALSE

Sweep == SweepBegin \/ SweepKill \/ SweepDirs

CleanupNext ==
  \/ ManagerStep \/ Sweep \/ NodeRestart
  \/ \E p \in Ports : VMDies(p) \/ ExitHandled(p)

CleanupSpec == CleanupInit /\ [][CleanupNext]_cleanupVars

(* The cleanup timer fires every minute and its handler runs, and the      *)
(* manager handles the exit reports in its mailbox.                        *)
CleanupLiveSpec ==
  /\ CleanupSpec
  /\ WF_cleanupVars(Sweep)
  /\ \A p \in Ports : WF_cleanupVars(ExitHandled(p))

-----------------------------------------------------------------------------
(* When requests are served, no process of an earlier life of the node is  *)
(* left, on an address its pool believes to be free or behind the socket   *)
(* of an id a client may create again (application.ex:9-34, cleanup.ex:25).*)
ServedProcessesAccounted == serving => ProcessesAccounted

(* TEST_PLAN.md:217, "Orphaned VM eventually cleaned up": a process whose  *)
(* container is not in the table, or is stopped or exited, is killed,      *)
(* unless its container is created or started meanwhile: after a restart,  *)
(* a stop by a GenServer that lost the VM state, or a late exit report.    *)
OrphansCollected ==
  \A p \in Ports :
    LET served == status[socket[p]] \in {"running", "created"}
    IN (p \in alive /\ ~served) ~> (p \notin alive \/ served)

=============================================================================
