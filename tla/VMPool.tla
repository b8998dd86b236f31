------------------------------- MODULE VMPool -------------------------------
(***************************************************************************)
(* lib/zypi/pool/vm_pool.ex: the GenServer that keeps pre-warmed VMs, the  *)
(* unlinked processes it spawns to boot, recycle and destroy them, the     *)
(* address pool they lease from (IPPool) and the one-shot runs of          *)
(* lib/zypi/executor.ex that acquire and release them.                     *)
(*                                                                         *)
(* A handler of the GenServer is one step, but for acquire, which takes    *)
(* one for each VM it pings; meanwhile no other message is handled.  A     *)
(* spawned process takes one step per effect another process can observe:  *)
(* its address leased, its guest up, its guest down, its address returned, *)
(* its report sent.                                                        *)
(* Reports and casts that wait in the mailbox are a program counter or a   *)
(* count; they come from different processes, so Erlang does not order     *)
(* them, and the model handles them in any order.                          *)
(***************************************************************************)
EXTENDS IPPool, FiniteSets

CONSTANTS
  VMs,              \* the VM ids generate_vm_id draws in a behaviour
  Containers,       \* the container ids, one for each Executor.run
  NoVM, NoContainer, NoAddress,
  MinWarm, MaxWarm, MaxTotal,   \* the vm_pool configuration
  MaxFailures,      \* max_failures of check_warm_vm_health, 3 in the code
  WarmBudget,       \* bound: VMs that POST /images/:ref/warm may ask for
  Destroyable       \* bound: the VMs an operator may pass to VMPool.destroy

ASSUME ConfigAssumption ==
  /\ MinWarm \in Nat /\ MaxWarm \in Nat /\ MaxTotal \in Nat
  /\ MaxFailures \in Nat \ {0} /\ WarmBudget \in Nat
  /\ Destroyable \subseteq VMs

ASSUME NullAssumption ==
  /\ NoVM \notin VMs /\ NoContainer \notin Containers
  /\ NoAddress \notin Addresses

VARIABLES
  (* the state of the GenServer                                            *)
  status,           \* VMs -> "absent" (not a key of vms) or the slot's status
  container_id,     \* VMs -> the slot's container_id
  health_failures,  \* VMs -> the slot's health_failures
  warm_queue,
  pending_boots,
  warmed,           \* VMs asked for by warm_for_image so far (bounded)
  warmup,           \* is :initial_warmup still in the mailbox?
  acquiring,        \* the container whose acquire has met dead VMs so far
  (* what runs beside it                                                   *)
  boot,             \* VMs -> the boot task of the VM
  address,          \* VMs -> the address its boot task leased, until returned
  running,          \* the VMs whose guest is up and answers on its address
  recycling,        \* VMs -> recycle tasks running
  recycled,         \* VMs -> {:vm_recycled, v, :ok} reports in the mailbox
  recycle_failed,   \* VMs -> {:vm_recycled, v, {:error, _}} reports in it
  reaper,           \* VMs -> the destroy_vm process of the VM
  (* the callers                                                           *)
  pc,               \* Containers -> where its Executor.run is
  lease,            \* Containers -> the VM it was given, until it ends
  acquires,         \* the containers whose {:acquire, c} is in the mailbox
  releases          \* Containers -> {:release, c} casts in the mailbox

slotVars == <<status, container_id, health_failures>>
recycleVars == <<recycling, recycled, recycle_failed>>
taskVars == <<boot, address, running, recycleVars, reaper>>
userVars == <<pc, lease, acquires, releases>>
poolVars == <<warm_queue, pending_boots, warmed, warmup, acquiring>>
vars     == <<ipVars, slotVars, poolVars, taskVars, userVars>>

-----------------------------------------------------------------------------
(* Some guest answers on the address of v: a client dials an address, and  *)
(* whichever guest is up at it answers.                                    *)
Reachable(v) == \E u \in running : address[u] = address[v]

InPool(v) == status[v] # "absent"

Queued == {warm_queue[i] : i \in DOMAIN warm_queue}

(* The GenServer is not in the middle of an acquire.                       *)
Idle == acquiring = NoContainer

total_count == Cardinality({v \in VMs : InPool(v)}) + pending_boots

Without(q, i) == SubSeq(q, 1, i - 1) \o SubSeq(q, i + 1, Len(q))

(* List.delete(queue, v): one occurrence of v leaves, if there is one.     *)
ListDelete(q, v) ==
  IF \E i \in DOMAIN q : q[i] = v
  THEN Without(q, CHOOSE i \in DOMAIN q : q[i] = v)
  ELSE q

(* queue -- D: what is left of the queue, in its order, as the values of a *)
(* strictly increasing selection f of its indices.                         *)
Keeps(f, q, D) ==
  /\ \A i, j \in DOMAIN f : i < j => f[i] < f[j]
  /\ {f[i] : i \in DOMAIN f} = {i \in DOMAIN q : q[i] \notin D}

Unqueue(D) ==
  \E m \in 0..Len(warm_queue) : \E f \in [1..m -> DOMAIN warm_queue] :
    /\ Keeps(f, warm_queue, D)
    /\ warm_queue' = [i \in 1..m |-> warm_queue[f[i]]]

Reap(D) ==
  reaper' = [v \in VMs |-> IF v \in D /\ InPool(v) THEN "stopping" ELSE reaper[v]]

(* do_destroy for the VMs of D that are in vms: their slots are dropped    *)
(* and a destroy_vm process is spawned for each.                           *)
Destroy(D) ==
  /\ status' = [v \in VMs |-> IF v \in D THEN "absent" ELSE status[v]]
  /\ container_id' = [v \in VMs |-> IF v \in D THEN NoContainer ELSE container_id[v]]
  /\ Reap(D)

DestroyOne(v) ==
  /\ Destroy({v})
  /\ warm_queue' = ListDelete(warm_queue, v)

-----------------------------------------------------------------------------
Init ==
  /\ PoolInit
  /\ status = [v \in VMs |-> "absent"]
  /\ container_id = [v \in VMs |-> NoContainer]
  /\ health_failures = [v \in VMs |-> 0]
  /\ warm_queue = <<>> /\ pending_boots = 0 /\ warmed = 0 /\ warmup = TRUE
  /\ acquiring = NoContainer
  /\ boot = [v \in VMs |-> "unborn"]
  /\ address = [v \in VMs |-> NoAddress]
  /\ running = {}
  /\ recycling = [v \in VMs |-> 0]
  /\ recycled = [v \in VMs |-> 0]
  /\ recycle_failed = [v \in VMs |-> 0]
  /\ reaper = [v \in VMs |-> "none"]
  /\ pc = [c \in Containers |-> "idle"]
  /\ lease = [c \in Containers |-> NoVM]
  /\ acquires = {}
  /\ releases = [c \in Containers |-> 0]

-----------------------------------------------------------------------------
(* Booting.  spawn_warm_vms draws n fresh ids and starts a task for each.  *)
SpawnWarm(n) ==
  /\ \E S \in SUBSET {v \in VMs : boot[v] = "unborn"} :
       /\ Cardinality(S) = n
       /\ boot' = [v \in VMs |-> IF v \in S THEN "leasing" ELSE boot[v]]
  /\ Idle
  /\ pending_boots' = pending_boots + n
  /\ UNCHANGED <<ipVars, slotVars, warm_queue, acquiring, address, running,
                 recycleVars, reaper, userVars>>

InitialWarmup ==
  /\ warmup
  /\ warmup' = FALSE
  /\ SpawnWarm(MinWarm)
  /\ UNCHANGED warmed

Needed == MinWarm - Len(warm_queue) - pending_boots

(* Mutant: off by one at the limit.                                        *)
HasRoomOffByOne == total_count <= MaxTotal

HasRoom == total_count < MaxTotal

(* handle_info(:check_warm_pool), 5 s after init and every 5 s from then;  *)
(* init puts :initial_warmup into its own mailbox, so that goes first.     *)
CheckWarmPool ==
  /\ ~warmup
  /\ Needed > 0
  /\ HasRoom
  /\ SpawnWarm(Needed)
  /\ UNCHANGED <<warmed, warmup>>

(* handle_cast({:warm_for_image, ref, n}): the pool does not bound it.     *)
WarmForImage(n) ==
  /\ warmed + n <= WarmBudget
  /\ warmed' = warmed + n
  /\ SpawnWarm(n)
  /\ UNCHANGED warmup

(* What a boot task leaves alone.                                          *)
BootFrame == UNCHANGED <<slotVars, poolVars, recycleVars, reaper, userVars>>

(* boot_warm_vm first leases an address; an empty pool fails the boot.     *)
BootLease(v) ==
  /\ boot[v] = "leasing"
  /\ \/ \E ip \in Addresses :
          /\ AcquireAddress(ip)
          /\ address' = [address EXCEPT ![v] = ip]
          /\ boot' = [boot EXCEPT ![v] = "starting"]
     \/ /\ Exhausted
        /\ boot' = [boot EXCEPT ![v] = "failed"]
        /\ UNCHANGED address
  /\ UNCHANGED running
  /\ BootFrame

(* The rootfs is copied and Firecracker started: the guest comes up.       *)
BootStart(v) ==
  /\ boot[v] = "starting"
  /\ boot' = [boot EXCEPT ![v] = "probing"]
  /\ running' = running \union {v}
  /\ UNCHANGED <<ipVars, address>>
  /\ BootFrame

(* Mutant: a failed start forgets the address.                             *)
BootStartFailsLeaks(v) ==
  /\ boot[v] = "starting"
  /\ boot' = [boot EXCEPT ![v] = "failed"]
  /\ UNCHANGED <<ipVars, address, running>>
  /\ BootFrame

(* The copy or the start fails: the address goes back, the boot failed.    *)
BootStartFails(v) ==
  /\ boot[v] = "starting"
  /\ ReleaseAddress(address[v])
  /\ address' = [address EXCEPT ![v] = NoAddress]
  /\ boot' = [boot EXCEPT ![v] = "failed"]
  /\ UNCHANGED running
  /\ BootFrame

(* Mutant: the probe has no limit of attempts.                             *)
BootProbeForever(v) ==
  /\ boot[v] = "probing"
  /\ Reachable(v)
  /\ boot' = [boot EXCEPT ![v] = "handover"]
  /\ UNCHANGED <<ipVars, address, running>>
  /\ BootFrame

(* wait_for_agent: the agent answered, or 15 attempts went by.             *)
BootProbe(v) ==
  /\ boot[v] = "probing"
  /\ \/ Reachable(v) /\ boot' = [boot EXCEPT ![v] = "handover"]
     \/ boot' = [boot EXCEPT ![v] = "stopping"]
  /\ UNCHANGED <<ipVars, address, running>>
  /\ BootFrame

(* Mutant: the guest that did not answer is not stopped.                   *)
BootStopNothing(v) ==
  /\ boot[v] = "stopping"
  /\ boot' = [boot EXCEPT ![v] = "freeing"]
  /\ UNCHANGED <<ipVars, address, running>>
  /\ BootFrame

(* The agent never answered: Firecracker.stop, and only then the address   *)
(* is returned and the failure reported.                                   *)
BootStop(v) ==
  /\ boot[v] = "stopping"
  /\ boot' = [boot EXCEPT ![v] = "freeing"]
  /\ running' = running \ {v}
  /\ UNCHANGED <<ipVars, address>>
  /\ BootFrame

BootFree(v) ==
  /\ boot[v] = "freeing"
  /\ ReleaseAddress(address[v])
  /\ address' = [address EXCEPT ![v] = NoAddress]
  /\ boot' = [boot EXCEPT ![v] = "failed"]
  /\ UNCHANGED running
  /\ BootFrame

(* The task gives the port of the VM to the pool and reports.  On a port   *)
(* that has closed because the VM has died, Port.connect raises: the task  *)
(* is gone and sends nothing.                                              *)
BootHandover(v) ==
  /\ boot[v] = "handover"
  /\ boot' = [boot EXCEPT ![v] = IF v \in running THEN "ready" ELSE "crashed"]
  /\ UNCHANGED <<ipVars, address, running>>
  /\ BootFrame

(* mkdir_p!, stat!, Port.open, a matched send or a call that times out     *)
(* raises: nobody rescues, monitors or restarts the task.                  *)
BootCrash(v) ==
  /\ boot[v] \in {"leasing", "starting"}
  /\ boot' = [boot EXCEPT ![v] = "crashed"]
  /\ UNCHANGED <<ipVars, address, running>>
  /\ BootFrame

(* Mutant: the report of a boot is not counted.                            *)
OneBootLessForgotten == pending_boots

OneBootLess == IF pending_boots = 0 THEN 0 ELSE pending_boots - 1

(* handle_info({:vm_booted, v, result}).                                   *)
VmBooted(v) ==
  /\ Idle
  /\ boot[v] \in {"ready", "failed"}
  /\ boot' = [boot EXCEPT ![v] = "reported"]
  /\ pending_boots' = OneBootLess
  /\ \/ /\ boot[v] = "ready"
        /\ status' = [status EXCEPT ![v] = "warm"]
        /\ warm_queue' = Append(warm_queue, v)
     \/ /\ boot[v] = "failed"
        /\ UNCHANGED <<status, warm_queue>>
  /\ UNCHANGED <<ipVars, container_id, health_failures, warmed, warmup, acquiring,
                 address, running, recycleVars, reaper, userVars>>

(* A guest can die at any time.  The port's exit_status reaches the pool,  *)
(* whose catch-all clause drops it.                                        *)
GuestDies(v) ==
  /\ v \in running
  /\ running' = running \ {v}
  /\ UNCHANGED <<ipVars, slotVars, poolVars, boot, address, recycleVars, reaper,
                 userVars>>

-----------------------------------------------------------------------------
(* Acquiring.  The handler pings the head of the queue; one that does not  *)
(* answer is destroyed and the next one tried.  A ping of a guest that is  *)
(* up may still time out.                                                  *)
(* The reply is dropped if the caller has given up waiting for it.         *)
Reply(c, answer, v) ==
  \/ /\ pc[c] = "waiting"
     /\ pc' = [pc EXCEPT ![c] = answer]
     /\ lease' = [lease EXCEPT ![c] = v]
  \/ /\ pc[c] # "waiting"
     /\ UNCHANGED <<pc, lease>>

AcquireFrame ==
  UNCHANGED <<ipVars, health_failures, pending_boots, warmed, warmup, boot,
              address, running, recycleVars, releases>>

(* handle_call({:acquire, c, opts}) goes on, or takes it from the mailbox. *)
Acquires(c) == c \in acquires /\ acquiring \in {c, NoContainer}

(* The head of the queue answers: {:ok, vm}.                               *)
WarmHit(c) ==
  /\ Acquires(c)
  /\ warm_queue # <<>> /\ Reachable(Head(warm_queue))
  /\ status' = [status EXCEPT ![Head(warm_queue)] = "assigned"]
  /\ container_id' = [container_id EXCEPT ![Head(warm_queue)] = c]
  /\ warm_queue' = Tail(warm_queue)
  /\ Reply(c, "holding", Head(warm_queue))
  /\ acquires' = acquires \ {c}
  /\ acquiring' = NoContainer
  /\ UNCHANGED reaper
  /\ AcquireFrame

(* Mutant: what does not answer is tried again after the others.           *)
UnhealthyRequeued(c) ==
  /\ Acquires(c)
  /\ warm_queue # <<>>
  /\ warm_queue' = Append(Tail(warm_queue), Head(warm_queue))
  /\ acquiring' = c
  /\ UNCHANGED <<status, container_id, reaper, pc, lease, acquires>>
  /\ AcquireFrame

(* It does not: do_destroy, and the same call is handled once more.        *)
Unhealthy(c) ==
  /\ Acquires(c)
  /\ warm_queue # <<>>
  /\ DestroyOne(Head(warm_queue))
  /\ acquiring' = c
  /\ UNCHANGED <<pc, lease, acquires>>
  /\ AcquireFrame

(* The queue is empty: {:cold, :no_warm_vms}.                              *)
ColdMiss(c) ==
  /\ Acquires(c)
  /\ warm_queue = <<>>
  /\ Reply(c, "cold", NoVM)
  /\ acquires' = acquires \ {c}
  /\ acquiring' = NoContainer
  /\ UNCHANGED <<status, container_id, warm_queue, reaper>>
  /\ AcquireFrame

HandleAcquire(c) == WarmHit(c) \/ Unhealthy(c) \/ ColdMiss(c)

-----------------------------------------------------------------------------
(* Mutant: the slot is marked, and no task recycles it.                       *)
RecycleNoTask(v) ==
  /\ status' = [status EXCEPT ![v] = "recycling"]
  /\ UNCHANGED <<container_id, reaper, warm_queue, recycleVars>>

(* Mutant: the VM is queued again as it was left.                          *)
RecycleAtOnce(v) ==
  /\ status' = [status EXCEPT ![v] = "warm"]
  /\ container_id' = [container_id EXCEPT ![v] = NoContainer]
  /\ warm_queue' = Append(warm_queue, v)
  /\ UNCHANGED <<reaper, recycleVars>>

(* Releasing.  handle_cast({:release, c}): the VM of c is recycled unless  *)
(* the queue is full, and destroyed then; a container of no VM is ignored. *)
Recycle(v) ==
  /\ status' = [status EXCEPT ![v] = "recycling"]
  /\ recycling' = [recycling EXCEPT ![v] = @ + 1]
  /\ UNCHANGED <<recycled, recycle_failed, container_id, reaper, warm_queue>>

HandleRelease(c) ==
  /\ Idle
  /\ releases[c] > 0
  /\ releases' = [releases EXCEPT ![c] = @ - 1]
  /\ \/ \E v \in VMs :
          /\ container_id[v] = c
          /\ \/ Len(warm_queue) < MaxWarm /\ Recycle(v)
             \/ Len(warm_queue) >= MaxWarm /\ DestroyOne(v) /\ UNCHANGED recycleVars
     \/ /\ \A v \in VMs : container_id[v] # c
        /\ UNCHANGED <<status, container_id, warm_queue, recycleVars, reaper>>
  /\ UNCHANGED <<ipVars, health_failures, pending_boots, warmed, warmup, acquiring,
                 boot, address, running, pc, lease, acquires>>

(* A recycle task asks the guest to kill processes and to remove "/tmp/*", *)
(* without a shell to expand the pattern, so no file goes, and then        *)
(* whether it is healthy.  Any answer to the first two will do.            *)
RecycleEnds(v) ==
  /\ recycling[v] > 0
  /\ recycling' = [recycling EXCEPT ![v] = @ - 1]
  /\ \/ /\ Reachable(v)
        /\ recycled' = [recycled EXCEPT ![v] = @ + 1]
        /\ UNCHANGED recycle_failed
     \/ /\ recycle_failed' = [recycle_failed EXCEPT ![v] = @ + 1]
        /\ UNCHANGED recycled
  /\ UNCHANGED <<ipVars, slotVars, poolVars, boot, address, running, reaper,
                 userVars>>

(* handle_info({:vm_recycled, v, result}): a VM that was destroyed in the  *)
(* meantime is left alone; one that could not be recycled is destroyed.    *)
RecycledOk(v) ==
  /\ recycled[v] > 0
  /\ recycled' = [recycled EXCEPT ![v] = @ - 1]
  /\ \/ /\ InPool(v)
        /\ status' = [status EXCEPT ![v] = "warm"]
        /\ container_id' = [container_id EXCEPT ![v] = NoContainer]
        /\ warm_queue' = Append(warm_queue, v)
     \/ /\ ~InPool(v)
        /\ UNCHANGED <<status, container_id, warm_queue>>
  /\ UNCHANGED <<recycle_failed, reaper>>

RecycledError(v) ==
  /\ recycle_failed[v] > 0
  /\ recycle_failed' = [recycle_failed EXCEPT ![v] = @ - 1]
  /\ DestroyOne(v)
  /\ UNCHANGED recycled

VmRecycled(v) ==
  /\ Idle
  /\ RecycledOk(v) \/ RecycledError(v)
  /\ UNCHANGED <<ipVars, health_failures, pending_boots, warmed, warmup, acquiring,
                 boot, address, running, recycling, userVars>>

-----------------------------------------------------------------------------
(* Destroying.  handle_cast({:destroy, v}): whatever the VM is doing.      *)
DestroyCast(v) ==
  /\ Idle
  /\ v \in Destroyable /\ InPool(v)
  /\ DestroyOne(v)
  /\ UNCHANGED <<ipVars, health_failures, pending_boots, warmed, warmup, acquiring,
                 boot, address, running, recycleVars, userVars>>

(* destroy_vm stops the guest and then returns its address.                *)
ReaperStop(v) ==
  /\ reaper[v] = "stopping"
  /\ reaper' = [reaper EXCEPT ![v] = "releasing"]
  /\ running' = running \ {v}
  /\ UNCHANGED <<ipVars, slotVars, poolVars, boot, address, recycleVars, userVars>>

(* Mutant: the address of a destroyed VM is not returned.                  *)
ReaperReleaseNothing(v) ==
  /\ reaper[v] = "releasing"
  /\ reaper' = [reaper EXCEPT ![v] = "done"]
  /\ address' = [address EXCEPT ![v] = NoAddress]
  /\ UNCHANGED <<ipVars, slotVars, poolVars, boot, running, recycleVars, userVars>>

ReaperRelease(v) ==
  /\ reaper[v] = "releasing"
  /\ reaper' = [reaper EXCEPT ![v] = "done"]
  /\ ReleaseAddress(address[v])
  /\ address' = [address EXCEPT ![v] = NoAddress]
  /\ UNCHANGED <<slotVars, poolVars, boot, running, recycleVars, userVars>>

(* Mutant: failures are not counted.                                       *)
FailuresNotCounted(v, silent) == IF v \in silent THEN health_failures[v] ELSE 0

TooMany(n) == n >= MaxFailures
FailuresAfter(v, silent) == IF v \in silent THEN health_failures[v] + 1 ELSE 0

(* handle_info(:health_check_warm_vms), every 30 s: each VM of the queue   *)
(* is pinged; the MaxFailures-th failure in a row destroys it.             *)
Sweep(silent) ==
  LET dead == {v \in silent : TooMany(FailuresAfter(v, silent))} IN
  /\ health_failures' = [v \in VMs |-> IF v \in dead THEN 0
                                       ELSE IF v \in Queued THEN FailuresAfter(v, silent)
                                       ELSE health_failures[v]]
  /\ Destroy(dead)
  /\ Unqueue(dead)

HealthCheck ==
  /\ Idle
  /\ \E silent \in SUBSET Queued :
       /\ {v \in Queued : ~Reachable(v)} \subseteq silent
       /\ Sweep(silent)
  /\ UNCHANGED <<ipVars, pending_boots, warmed, warmup, acquiring, boot, address,
                 running, recycleVars, userVars>>

-----------------------------------------------------------------------------
(* Executor.run.  Its container id is fresh; it calls acquire with a 15 s  *)
(* timeout, uploads the files and runs the command on the address of the   *)
(* VM, and releases the container when, and only when, all of it went well.*)
RunFrame == UNCHANGED <<ipVars, slotVars, poolVars, boot, address, running,
                        recycleVars, reaper>>

RunAcquire(c) ==
  /\ pc[c] = "idle"
  /\ pc' = [pc EXCEPT ![c] = "waiting"]
  /\ acquires' = acquires \union {c}
  /\ UNCHANGED <<lease, releases>>
  /\ RunFrame

(* The call times out and the caller exits; its request stays queued.      *)
RunTimeout(c) ==
  /\ pc[c] = "waiting"
  /\ pc' = [pc EXCEPT ![c] = "gone"]
  /\ UNCHANGED <<lease, acquires, releases>>
  /\ RunFrame

(* Mutant: the container is released when the command is sent.             *)
RunExecReleases(c) ==
  /\ pc[c] = "holding"
  /\ Reachable(lease[c])
  /\ pc' = [pc EXCEPT ![c] = "executed"]
  /\ releases' = [releases EXCEPT ![c] = @ + 1]
  /\ UNCHANGED <<lease, acquires>>
  /\ RunFrame

(* Files and command reach the guest that answers on the leased address.   *)
RunExec(c) ==
  /\ pc[c] = "holding"
  /\ Reachable(lease[c])
  /\ pc' = [pc EXCEPT ![c] = "executed"]
  /\ UNCHANGED <<lease, acquires, releases>>
  /\ RunFrame

(* Mutant: the container is released twice.                                *)
RunReleaseTwice(c) ==
  /\ pc[c] \in {"executed", "cold"}
  /\ pc' = [pc EXCEPT ![c] = "done"]
  /\ lease' = [lease EXCEPT ![c] = NoVM]
  /\ releases' = [releases EXCEPT ![c] = @ + 2]
  /\ UNCHANGED acquires
  /\ RunFrame

(* A cold container is started elsewhere; its release casts here as well.  *)
RunRelease(c) ==
  /\ pc[c] \in {"executed", "cold"}
  /\ pc' = [pc EXCEPT ![c] = "done"]
  /\ lease' = [lease EXCEPT ![c] = NoVM]
  /\ releases' = [releases EXCEPT ![c] = @ + 1]
  /\ UNCHANGED acquires
  /\ RunFrame

(* An upload or the command fails, or the request that runs it is killed   *)
(* at its deadline: no clause releases the container.                      *)
RunFail(c) ==
  /\ pc[c] \in {"holding", "executed", "cold"}
  /\ pc' = [pc EXCEPT ![c] = "gone"]
  /\ lease' = [lease EXCEPT ![c] = NoVM]
  /\ UNCHANGED <<acquires, releases>>
  /\ RunFrame

-----------------------------------------------------------------------------
BootStep(v) ==
  \/ BootLease(v) \/ BootStart(v) \/ BootStartFails(v) \/ BootProbe(v)
  \/ BootStop(v) \/ BootFree(v) \/ BootHandover(v) \/ BootCrash(v)

VMStep(v) ==
  \/ BootStep(v) \/ VmBooted(v) \/ GuestDies(v) \/ RecycleEnds(v)
  \/ VmRecycled(v) \/ DestroyCast(v) \/ ReaperStop(v) \/ ReaperRelease(v)

RunStep(c) ==
  \/ RunAcquire(c) \/ RunTimeout(c) \/ RunExec(c) \/ RunRelease(c) \/ RunFail(c)
  \/ HandleAcquire(c) \/ HandleRelease(c)

Next ==
  \/ \E v \in VMs : VMStep(v)
  \/ \E c \in Containers : RunStep(c)
  \/ \E n \in 1..WarmBudget : WarmForImage(n)
  \/ InitialWarmup \/ CheckWarmPool \/ HealthCheck

Spec == Init /\ [][Next]_vars

(* What Erlang schedules: a process that can take its next step takes it,  *)
(* a message in the mailbox is handled, a timer fires.  Nothing makes a    *)
(* guest die, a run start or end, or an operator call.                     *)
Fairness ==
  /\ \A v \in VMs :
       /\ WF_vars(BootStep(v)) /\ WF_vars(VmBooted(v))
       /\ WF_vars(RecycleEnds(v)) /\ WF_vars(VmRecycled(v))
       /\ WF_vars(ReaperStop(v)) /\ WF_vars(ReaperRelease(v))
  /\ \A c \in Containers : WF_vars(HandleAcquire(c)) /\ WF_vars(HandleRelease(c))
  /\ WF_vars(InitialWarmup) /\ WF_vars(CheckWarmPool) /\ WF_vars(HealthCheck)

LiveSpec == Spec /\ Fairness

-----------------------------------------------------------------------------
BootPhases == {"unborn", "leasing", "starting", "probing", "handover", "stopping",
               "freeing", "ready", "failed", "reported", "crashed"}

TypeOK ==
  /\ PoolTypeOK
  /\ status \in [VMs -> {"absent", "warm", "assigned", "recycling"}]
  /\ container_id \in [VMs -> Containers \union {NoContainer}]
  /\ health_failures \in [VMs -> 0..(MaxFailures - 1)]
  /\ warm_queue \in Seq(VMs)
  /\ pending_boots \in Nat /\ warmed \in 0..WarmBudget /\ warmup \in BOOLEAN
  /\ acquiring \in acquires \union {NoContainer}
  /\ boot \in [VMs -> BootPhases]
  /\ address \in [VMs -> Addresses \union {NoAddress}]
  /\ running \subseteq VMs
  /\ recycling \in [VMs -> Nat] /\ recycled \in [VMs -> Nat]
  /\ recycle_failed \in [VMs -> Nat]
  /\ reaper \in [VMs -> {"none", "stopping", "releasing", "done"}]
  /\ pc \in [Containers -> {"idle", "waiting", "holding", "cold", "executed", "done", "gone"}]
  /\ lease \in [Containers -> VMs \union {NoVM}]
  /\ acquires \subseteq Containers
  /\ releases \in [Containers -> Nat]

(* The boot task, the pool or the destroy process still answers for the    *)
(* address of v; a task that crashed keeps it forever.                     *)
Booting(v) == boot[v] \in {"starting", "probing", "handover", "stopping", "freeing", "ready"}

Owns(v) ==
  \/ Booting(v) \/ InPool(v) \/ reaper[v] \in {"stopping", "releasing"}
  \/ boot[v] = "crashed" /\ address[v] # NoAddress

(* Every leased address has exactly one VM that answers for it, so none is *)
(* leaked by a boot that fails, a recycle that fails, a health check, an   *)
(* acquire or a destroy, and none is returned while still in use           *)
(* (vm_pool.ex:505-542, 648-662).                                          *)
AddressAccounting ==
  /\ allocated = {address[v] : v \in {u \in VMs : Owns(u)}}
  /\ \A u, v \in VMs : Owns(u) /\ Owns(v) /\ address[u] = address[v] => u = v

(* No two guests are ever up on one address, whatever dies or is destroyed *)
(* when: an address is reissued only after its guest was stopped, or when  *)
(* none came up: a start that fails deletes the tap (firecracker.ex:90).   *)
NoSharedAddress ==
  \A u, v \in running : address[u] = address[v] => u = v

(* The queue holds each warm VM once and nothing else, so no entry of it   *)
(* is a key missing from vms (on which find_and_verify_warm_vm would raise *)
(* and take the GenServer down) and no VM can be handed out twice.         *)
QueueSound ==
  /\ \A i, j \in DOMAIN warm_queue : warm_queue[i] = warm_queue[j] => i = j
  /\ Queued = {v \in VMs : status[v] = "warm"}

InUse(c) == pc[c] \in {"holding", "executed"}

(* From the reply to acquire until it ends, a run has its VM for itself:   *)
(* the pool keeps it assigned to it, nothing is recycling or stopping it,  *)
(* and no other guest answers on its address.  Without operator destroys.  *)
LeaseExclusive ==
  \A c \in Containers : InUse(c) =>
    LET v == lease[c] IN
    /\ status[v] = "assigned" /\ container_id[v] = c
    /\ reaper[v] = "none" /\ recycling[v] = 0
    /\ \A u \in running : address[u] = address[v] => u = v

(* A slot as its users see it; a VM whose boot fails is never offered.     *)
Slot ==
  [v \in VMs |-> IF InPool(v) THEN status[v]
                  ELSE IF reaper[v] = "none" THEN "new" ELSE "gone"]

Using == {c \in Containers : InUse(c)}

Slots == INSTANCE VMSlots WITH slot <- Slot, holder <- container_id, using <- Using

(* A VM gets from one run to the next only by a recycle that began after   *)
(* the first had ended, whatever reports, releases, calls that timed out,  *)
(* health checks and destroys cross each other; a VM destroyed never comes *)
(* back; only an operator takes a VM from a run (vm_pool.ex:201-216,       *)
(* 285-303, 318-328, 439-457).                                             *)
ImplementsSlots == Slots!Spec

(* pending_boots counts the boots not yet reported, and with them, for     *)
(* ever, those whose task died without a report (vm_pool.ex:256, 486-500). *)
PendingAccounting ==
  pending_boots =
    Cardinality({v \in VMs : boot[v] \notin {"unborn", "reported"}})

(* max_total is compared with the count before a refill of up to min_warm  *)
(* VMs, and not at all by warm_for_image: this is the bound that remains   *)
(* (vm_pool.ex:219-245).                                                   *)
TotalBound ==
  total_count <= MinWarm + warmed + (IF MaxTotal > 0 THEN MaxTotal - 1 ELSE 0)

-----------------------------------------------------------------------------
(* Every call to acquire is answered, warm or cold: the handler, which     *)
(* calls itself for each VM that does not answer and lets the mailbox wait *)
(* (vm_pool.ex:121-143), pings none twice and runs out of them.            *)
CallsAnswered == \A c \in Containers : c \in acquires ~> c \notin acquires

(* A boot ends: in a report the pool handles, or in a crash.               *)
BootsSettle ==
  \A v \in VMs : boot[v] = "leasing" ~> boot[v] \in {"reported", "crashed"}

(* A run that went well gives its VM back: it is recycled or destroyed,    *)
(* also if the guest died during the run or the queue was full.            *)
RunReturnsVM ==
  \A c \in Containers :
    pc[c] = "done" ~> \A v \in VMs : container_id[v] # c

(* A dead VM does not stay in the warm queue.                              *)
DeadWarmEvicted ==
  \A v \in VMs :
    (status[v] = "warm" /\ v \notin running) ~> status[v] # "warm"

(* A destroyed VM is stopped and its address comes back.                   *)
DestroyedReclaimed ==
  \A v \in VMs, ip \in Addresses :
    (reaper[v] = "stopping" /\ address[v] = ip) ~> (v \notin running /\ ip \notin allocated)

=============================================================================
