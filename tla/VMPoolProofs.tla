---------------------------- MODULE VMPoolProofs ----------------------------
(***************************************************************************)
(* For every set of VMs and runs, every pool size and every configuration: *)
(* the pool's types, its queue, its addresses and the exclusive lease of a *)
(* run.  The inductive invariant comes in three layers, each proved from   *)
(* the ones before it: types and the free list (Base), what a VM and a run *)
(* may be doing (Life), and who answers for an address (Account).          *)
(***************************************************************************)
EXTENDS VMPool, IPPoolProofs, FiniteSetTheorems

Base == TypeOK /\ Partition

(* The recycle tasks and reports of a VM.                                  *)
Recycles(v) == recycling[v] + recycled[v] + recycle_failed[v]

(* What a VM may be doing: it boots, or it is in the pool, or it is being  *)
(* destroyed; it has a container from its acquire to the end of a recycle, *)
(* and only a VM that is recycling or gone has a recycle task.             *)
VMLife(v) ==
  /\ boot[v] # "reported" => status[v] = "absent" /\ reaper[v] = "none" /\ Recycles(v) = 0
  /\ InPool(v) => reaper[v] = "none"
  /\ container_id[v] # NoContainer <=> status[v] \in {"assigned", "recycling"}
  /\ Recycles(v) <= 1
  /\ status[v] \in {"warm", "assigned"} => Recycles(v) = 0
  /\ status[v] = "recycling" => /\ pc[container_id[v]] = "done"
                                /\ releases[container_id[v]] = 0

(* What a run may be doing: it asks once, holds at most one VM, and has at *)
(* most one release under way, which it sends last.                        *)
RunLife(c) ==
  /\ releases[c] <= 1
  /\ releases[c] # 0 => pc[c] = "done"
  /\ pc[c] = "idle" => c \notin acquires
  /\ c \in acquires => pc[c] \in {"waiting", "gone"}
  /\ pc[c] = "idle" \/ c \in acquires => \A v \in VMs : container_id[v] # c

OneHolder ==
  \A u, v \in VMs :
    container_id[u] = container_id[v] /\ container_id[u] # NoContainer => u = v

Life ==
  /\ \A v \in VMs : VMLife(v)
  /\ \A c \in Containers : RunLife(c)
  /\ OneHolder
  /\ QueueSound

(* A guest that is up is one somebody answers for; a VM that has not       *)
(* leased yet has no address.                                              *)
Account ==
  /\ AddressAccounting
  /\ \A v \in VMs : v \in running =>
       \/ boot[v] \in {"probing", "handover", "stopping", "ready"}
       \/ InPool(v) \/ reaper[v] = "stopping"
  /\ \A v \in VMs : boot[v] \in {"unborn", "leasing"} => address[v] = NoAddress

(* Without operator destroys, the run that uses a VM is the one the pool   *)
(* has assigned it to.                                                     *)
Holds ==
  \A c \in Containers : InUse(c) =>
    /\ lease[c] \in VMs
    /\ status[lease[c]] = "assigned" /\ container_id[lease[c]] = c

-----------------------------------------------------------------------------
(* The address pool, whoever acquires and releases.                        *)
LEMMA AddressAcquire ==
  ASSUME TypeOK, Partition, NEW ip, AcquireAddress(ip)
  PROVE  /\ PoolTypeOK' /\ Partition'
         /\ ip \in Addresses /\ ip \notin allocated
         /\ allocated' = allocated \union {ip}
<1>1. PoolInv
  BY DEF TypeOK, PoolInv
<1>2. PoolInv' /\ ip \in Free /\ ip \in Addresses
  BY <1>1, AcquirePartition
<1>3. QED
  BY <1>2 DEF PoolInv, AcquireAddress, Partition

LEMMA AddressRelease ==
  ASSUME TypeOK, Partition, NEW ip, ReleaseAddress(ip)
  PROVE  PoolTypeOK' /\ Partition' /\ allocated' = allocated \ {ip}
<1>1. PoolInv
  BY DEF TypeOK, PoolInv
<1>2. PoolInv'
  BY <1>1, ReleasePartition
<1>3. QED
  BY <1>2 DEF PoolInv, ReleaseAddress, ipVars

LEMMA AddressUnchanged ==
  ASSUME TypeOK, Partition, UNCHANGED ipVars
  PROVE  PoolTypeOK' /\ Partition' /\ allocated' = allocated
  BY DEF TypeOK, PoolTypeOK, Partition, Free, ipVars

(* The types of all that is not the address pool.                          *)
PoolTypes ==
  /\ status \in [VMs -> {"absent", "warm", "assigned", "recycling"}]
  /\ container_id \in [VMs -> Containers \union {NoContainer}]
  /\ health_failures \in [VMs -> 0..(MaxFailures - 1)]
  /\ warm_queue \in Seq(VMs)
  /\ pending_boots \in Nat /\ warmed \in 0..WarmBudget /\ warmup \in BOOLEAN

TaskTypes ==
  /\ boot \in [VMs -> BootPhases]
  /\ address \in [VMs -> Addresses \union {NoAddress}]
  /\ running \subseteq VMs
  /\ recycling \in [VMs -> Nat] /\ recycled \in [VMs -> Nat]
  /\ recycle_failed \in [VMs -> Nat]
  /\ reaper \in [VMs -> {"none", "stopping", "releasing", "done"}]

UserTypes ==
  /\ pc \in [Containers -> {"idle", "waiting", "holding", "cold", "executed", "done", "gone"}]
  /\ lease \in [Containers -> VMs \union {NoVM}]
  /\ acquires \subseteq Containers /\ acquiring \in acquires \union {NoContainer}
  /\ releases \in [Containers -> Nat]

LEMMA TypeParts == TypeOK <=> PoolTypeOK /\ PoolTypes /\ TaskTypes /\ UserTypes
  BY DEF TypeOK, PoolTypeOK, PoolTypes, TaskTypes, UserTypes, Addresses

LEMMA DestroyTypes ==
  ASSUME TypeOK, NEW D, Destroy(D)
  PROVE  /\ status' \in [VMs -> {"absent", "warm", "assigned", "recycling"}]
         /\ container_id' \in [VMs -> Containers \union {NoContainer}]
         /\ reaper' \in [VMs -> {"none", "stopping", "releasing", "done"}]
  BY DEF TypeOK, Destroy, Reap

LEMMA BaseInit == Init => Base
<1> SUFFICES ASSUME Init PROVE Base
  OBVIOUS
<1>1. PoolInit
  BY DEF Init
<1>2. PoolInv
  BY <1>1, InitPartition
<1>3. PoolTypeOK /\ Partition
  BY <1>2 DEF PoolInv
<1>4. PoolTypes /\ TaskTypes /\ UserTypes
  BY ConfigAssumption DEF Init, PoolTypes, TaskTypes, UserTypes, BootPhases
<1>5. QED
  BY <1>3, <1>4, TypeParts DEF Base

LEMMA QueueTypes ==
  ASSUME NEW q \in Seq(VMs)
  PROVE  /\ q # <<>> => Head(q) \in VMs /\ Tail(q) \in Seq(VMs)
         /\ \A v \in VMs : Append(q, v) \in Seq(VMs)
         /\ \A v \in VMs : ListDelete(q, v) \in Seq(VMs)
         /\ \A m \in 0..Len(q) : \A f \in [1..m -> DOMAIN q] :
              [i \in 1..m |-> q[f[i]]] \in Seq(VMs)
<1>1. q # <<>> => Head(q) \in VMs /\ Tail(q) \in Seq(VMs)
  OBVIOUS
<1>2. \A i \in DOMAIN q : Without(q, i) \in Seq(VMs)
  <2> TAKE i \in DOMAIN q
  <2>1. SubSeq(q, 1, i - 1) \in Seq(VMs) /\ SubSeq(q, i + 1, Len(q)) \in Seq(VMs)
    OBVIOUS
  <2>2. QED
    BY <2>1 DEF Without
<1>3. ASSUME NEW v \in VMs PROVE ListDelete(q, v) \in Seq(VMs)
  <2>1. CASE \E i \in DOMAIN q : q[i] = v
    BY <1>2, <2>1 DEF ListDelete
  <2>2. CASE ~\E i \in DOMAIN q : q[i] = v
    BY <2>2 DEF ListDelete
  <2>3. QED
    BY <2>1, <2>2
<1>4. ASSUME NEW m \in 0..Len(q), NEW f \in [1..m -> DOMAIN q]
      PROVE  [i \in 1..m |-> q[f[i]]] \in Seq(VMs)
  BY <1>4
<1>5. QED
  BY <1>1, <1>3, <1>4

(* What a step may do to the address pool.                                 *)
LEMMA AddressActions ==
  ASSUME [Next]_vars
  PROVE  \/ UNCHANGED ipVars
         \/ \E ip : AcquireAddress(ip) \/ ReleaseAddress(ip)
<1> USE DEF ipVars
<1>1. CASE UNCHANGED vars
  BY <1>1 DEF vars
<1>2. ASSUME NEW v \in VMs, VMStep(v)
      PROVE  UNCHANGED ipVars \/ \E ip : AcquireAddress(ip) \/ ReleaseAddress(ip)
  <2>1. CASE BootStep(v)
    BY <2>1 DEF BootStep, BootLease, BootStart, BootStartFails, BootProbe, BootStop,
                BootFree, BootHandover, BootCrash, Exhausted, ipVars
  <2>2. CASE ~BootStep(v)
    BY <1>2, <2>2 DEF VMStep, VmBooted, GuestDies, RecycleEnds, VmRecycled,
                      DestroyCast, ReaperStop, ReaperRelease
  <2>3. QED
    BY <2>1, <2>2
<1>3. ASSUME NEW c \in Containers, RunStep(c)
      PROVE  UNCHANGED ipVars
  BY <1>3 DEF RunStep, RunAcquire, RunTimeout, RunExec, RunRelease, RunFail, RunFrame,
              HandleAcquire, WarmHit, Unhealthy, ColdMiss, AcquireFrame, HandleRelease
<1>4. CASE \/ \E n \in 1..WarmBudget : WarmForImage(n)
           \/ InitialWarmup \/ CheckWarmPool \/ HealthCheck
  BY <1>4 DEF WarmForImage, InitialWarmup, CheckWarmPool, SpawnWarm, HealthCheck
<1>5. QED
  BY <1>1, <1>2, <1>3, <1>4 DEF Next

LEMMA PartitionStep ==
  ASSUME Base, [Next]_vars
  PROVE  PoolTypeOK' /\ Partition'
BY AddressActions, AddressAcquire, AddressRelease, AddressUnchanged DEF Base

LEMMA TypeStep ==
  ASSUME TypeOK, [Next]_vars
  PROVE  PoolTypes' /\ TaskTypes' /\ UserTypes'
<1>1. PoolTypes /\ TaskTypes /\ UserTypes
  BY TypeParts
<1>2. CASE UNCHANGED vars
  BY <1>1, <1>2 DEF vars, slotVars, poolVars, taskVars, userVars, recycleVars, PoolTypes, TaskTypes, UserTypes
<1>3. ASSUME NEW v \in VMs, BootStep(v)
      PROVE  PoolTypes' /\ TaskTypes' /\ UserTypes'
  <2>1. PoolTypes' /\ UserTypes'
    BY <1>1, <1>3 DEF BootStep, BootLease, BootStart, BootStartFails, BootProbe, BootStop,
       BootFree, BootHandover, BootCrash, BootFrame, slotVars, poolVars, userVars,
       PoolTypes, UserTypes
  <2>2. TaskTypes'
    <3> USE <1>1 DEF BootFrame, recycleVars, TaskTypes, BootPhases
    <3>1. CASE BootLease(v)
      BY <3>1 DEF BootLease
    <3>2. CASE BootStart(v)
      BY <3>2 DEF BootStart
    <3>3. CASE BootStartFails(v)
      BY <3>3 DEF BootStartFails
    <3>4. CASE BootProbe(v)
      BY <3>4 DEF BootProbe
    <3>5. CASE BootStop(v)
      BY <3>5 DEF BootStop
    <3>6. CASE BootFree(v)
      BY <3>6 DEF BootFree
    <3>7. CASE BootHandover(v)
      BY <3>7 DEF BootHandover
    <3>8. CASE BootCrash(v)
      BY <3>8 DEF BootCrash
    <3>9. QED
      BY <1>3, <3>1, <3>2, <3>3, <3>4, <3>5, <3>6, <3>7, <3>8 DEF BootStep
  <2>3. QED
    BY <2>1, <2>2
<1>4. ASSUME NEW v \in VMs, VMStep(v), ~BootStep(v)
      PROVE  PoolTypes' /\ TaskTypes' /\ UserTypes'
  <2> USE <1>1 DEF slotVars, poolVars, taskVars, userVars, recycleVars
  <2>1. CASE VmBooted(v)
    <3>1. warm_queue' \in Seq(VMs)
      BY <2>1, QueueTypes DEF VmBooted, PoolTypes
    <3>2. pending_boots' \in Nat
      BY <2>1 DEF VmBooted, PoolTypes, OneBootLess
    <3>3. status' \in [VMs -> {"absent", "warm", "assigned", "recycling"}]
      BY <2>1 DEF VmBooted, PoolTypes
    <3>4. PoolTypes'
      BY <2>1, <3>1, <3>2, <3>3 DEF VmBooted, PoolTypes
    <3>5. TaskTypes' /\ UserTypes'
      BY <2>1 DEF VmBooted, TaskTypes, UserTypes, BootPhases
    <3>6. QED
      BY <3>4, <3>5
  <2>2. CASE GuestDies(v)
    BY <2>2 DEF GuestDies, PoolTypes, TaskTypes, UserTypes
  <2>3. CASE RecycleEnds(v)
    <3>1. PoolTypes' /\ UserTypes'
      BY <2>3 DEF RecycleEnds, PoolTypes, UserTypes
    <3>2. TaskTypes'
      BY <2>3 DEF RecycleEnds, TaskTypes
    <3>3. QED
      BY <3>1, <3>2
  <2>4. CASE VmRecycled(v)
    <3>1. CASE RecycledOk(v)
      <4>1. warm_queue' \in Seq(VMs)
        BY <3>1, QueueTypes DEF RecycledOk, PoolTypes
      <4>2. PoolTypes'
        BY <2>4, <3>1, <4>1 DEF VmRecycled, RecycledOk, PoolTypes
      <4>3. TaskTypes' /\ UserTypes'
        BY <2>4, <3>1 DEF VmRecycled, RecycledOk, TaskTypes, UserTypes
      <4>4. QED
        BY <4>2, <4>3
    <3>2. CASE RecycledError(v)
      <4>1. PoolTypes'
        BY <2>4, <3>2, QueueTypes, DestroyTypes
           DEF VmRecycled, RecycledError, DestroyOne, PoolTypes
      <4>2. TaskTypes' /\ UserTypes'
        BY <2>4, <3>2, DestroyTypes
           DEF VmRecycled, RecycledError, DestroyOne, TaskTypes, UserTypes
      <4>3. QED
        BY <4>1, <4>2
    <3>3. QED
      BY <2>4, <3>1, <3>2 DEF VmRecycled
  <2>5. CASE DestroyCast(v)
    BY <2>5, QueueTypes, DestroyTypes DEF DestroyCast, DestroyOne, PoolTypes, TaskTypes, UserTypes
  <2>6. CASE ReaperStop(v)
    BY <2>6 DEF ReaperStop, PoolTypes, TaskTypes, UserTypes
  <2>7. CASE ReaperRelease(v)
    BY <2>7 DEF ReaperRelease, PoolTypes, TaskTypes, UserTypes
  <2>8. QED
    BY <1>4, <2>1, <2>2, <2>3, <2>4, <2>5, <2>6, <2>7 DEF VMStep
<1>5. ASSUME NEW c \in Containers, RunStep(c)
      PROVE  PoolTypes' /\ TaskTypes' /\ UserTypes'
  <2> USE <1>1 DEF ipVars, slotVars, poolVars, taskVars, userVars, recycleVars
  <2>1. CASE RunAcquire(c)
    BY <2>1 DEF RunAcquire, RunFrame, PoolTypes, TaskTypes, UserTypes
  <2>2. CASE RunTimeout(c)
    BY <2>2 DEF RunTimeout, RunFrame, PoolTypes, TaskTypes, UserTypes
  <2>3. CASE RunExec(c)
    BY <2>3 DEF RunExec, RunFrame, PoolTypes, TaskTypes, UserTypes
  <2>4. CASE RunRelease(c)
    BY <2>4 DEF RunRelease, RunFrame, PoolTypes, TaskTypes, UserTypes
  <2>5. CASE RunFail(c)
    BY <2>5 DEF RunFail, RunFrame, PoolTypes, TaskTypes, UserTypes
  <2>6. CASE WarmHit(c) \/ ColdMiss(c)
    <3>1. TaskTypes'
      BY <2>6 DEF WarmHit, ColdMiss, AcquireFrame, TaskTypes
    <3>2. PoolTypes'
      <4>1. CASE WarmHit(c)
        BY <4>1, QueueTypes DEF WarmHit, AcquireFrame, PoolTypes
      <4>2. CASE ColdMiss(c)
        BY <4>2 DEF ColdMiss, AcquireFrame, PoolTypes
      <4> QED
        BY <2>6, <4>1, <4>2
    <3>3. UserTypes'
      <4>1. PICK answer \in {"holding", "cold"}, v \in VMs \union {NoVM} : Reply(c, answer, v)
        BY <2>6, QueueTypes DEF WarmHit, ColdMiss, PoolTypes
      <4>2. /\ acquires' = acquires \ {c} /\ acquiring' = NoContainer
            /\ UNCHANGED releases
        BY <2>6 DEF WarmHit, ColdMiss, AcquireFrame
      <4> QED
        BY <4>1, <4>2 DEF Reply, UserTypes
    <3> QED
      BY <3>1, <3>2, <3>3
  <2>7. CASE Unhealthy(c)
    <3>1. PoolTypes' /\ TaskTypes'
      BY <2>7, QueueTypes, DestroyTypes
         DEF Unhealthy, DestroyOne, AcquireFrame, PoolTypes, TaskTypes
    <3>2. UserTypes'
      BY <2>7 DEF Unhealthy, Acquires, AcquireFrame, UserTypes
    <3> QED
      BY <3>1, <3>2
  <2>8. CASE HandleRelease(c)
    <3>1. UserTypes'
      BY <2>8 DEF HandleRelease, UserTypes
    <3>2. ASSUME NEW v \in VMs, Recycle(v)
          PROVE  PoolTypes' /\ TaskTypes'
      BY <2>8, <3>2 DEF HandleRelease, Recycle, PoolTypes, TaskTypes
    <3>3. ASSUME NEW v \in VMs, DestroyOne(v), UNCHANGED recycleVars
          PROVE  PoolTypes' /\ TaskTypes'
      BY <2>8, <3>3, QueueTypes, DestroyTypes
         DEF HandleRelease, DestroyOne, PoolTypes, TaskTypes
    <3>4. CASE UNCHANGED <<status, container_id, warm_queue, recycleVars, reaper>>
      <4>1. PoolTypes'
        BY <2>8, <3>4 DEF HandleRelease, PoolTypes
      <4>2. TaskTypes'
        BY <2>8, <3>4 DEF HandleRelease, TaskTypes
      <4>3. QED
        BY <3>1, <4>1, <4>2
    <3>5. QED
      BY <2>8, <3>1, <3>2, <3>3, <3>4 DEF HandleRelease
  <2>9. QED
    BY <1>5, <2>1, <2>2, <2>3, <2>4, <2>5, <2>6, <2>7, <2>8 DEF RunStep, HandleAcquire
<1>6. ASSUME NEW n \in Nat, SpawnWarm(n), warmed' \in 0..WarmBudget, warmup' \in BOOLEAN
      PROVE  PoolTypes' /\ TaskTypes' /\ UserTypes'
  BY <1>1, <1>6 DEF SpawnWarm, slotVars, userVars, recycleVars, PoolTypes, TaskTypes, UserTypes, BootPhases
<1>7. CASE \E n \in 1..WarmBudget : WarmForImage(n)
  <2>1. PICK n \in 1..WarmBudget : WarmForImage(n)
    BY <1>7
  <2>2. n \in Nat /\ SpawnWarm(n) /\ warmed' \in 0..WarmBudget /\ warmup' \in BOOLEAN
    BY <1>1, <2>1, ConfigAssumption DEF WarmForImage, PoolTypes
  <2>3. QED
    BY <1>6, <2>2
<1>8. CASE InitialWarmup
  <2>1. MinWarm \in Nat /\ SpawnWarm(MinWarm) /\ warmed' \in 0..WarmBudget /\ warmup' \in BOOLEAN
    BY <1>1, <1>8, ConfigAssumption DEF InitialWarmup, PoolTypes
  <2>2. QED
    BY <1>6, <2>1
<1>9. CASE CheckWarmPool
  <2>1. Needed \in Nat /\ SpawnWarm(Needed) /\ warmed' \in 0..WarmBudget /\ warmup' \in BOOLEAN
    BY <1>1, <1>9, ConfigAssumption DEF CheckWarmPool, Needed, PoolTypes
  <2>2. QED
    BY <1>6, <2>1
<1>10. CASE HealthCheck
  <2>1. PICK silent \in SUBSET Queued : Sweep(silent)
    BY <1>10 DEF HealthCheck
  <2> DEFINE dead == {v \in silent : TooMany(FailuresAfter(v, silent))}
  <2>2. Destroy(dead) /\ Unqueue(dead)
    BY <2>1 DEF Sweep
  <2>3. health_failures' \in [VMs -> 0..(MaxFailures - 1)]
    BY <1>1, <2>1, ConfigAssumption DEF Sweep, PoolTypes, TooMany, FailuresAfter
  <2>4. warm_queue' \in Seq(VMs)
    BY <1>1, <2>2, QueueTypes DEF Unqueue, PoolTypes
  <2>5. QED
    BY <1>1, <1>10, <2>2, <2>3, <2>4, DestroyTypes
       DEF HealthCheck, userVars, recycleVars, PoolTypes, TaskTypes, UserTypes
<1>11. QED
  BY <1>2, <1>3, <1>4, <1>5, <1>7, <1>8, <1>9, <1>10 DEF Next

LEMMA BaseInvariant == Spec => []Base
<1>1. ASSUME Base, [Next]_vars PROVE Base'
  <2>1. PoolTypeOK' /\ Partition' /\ PoolTypes' /\ TaskTypes' /\ UserTypes'
    BY <1>1, PartitionStep, TypeStep DEF Base
  <2>2. QED
    BY <2>1 DEF Base, TypeOK, PoolTypeOK, PoolTypes, TaskTypes, UserTypes, Addresses
<1>2. QED
  BY <1>1, BaseInit, PTL DEF Spec

(* Every variable of the pool, its processes, its addresses and its        *)
(* callers keeps its type; no count of reports or failures goes below zero *)
(* and no VM reaches max_failures without being destroyed.                 *)
THEOREM TypeCorrect == Spec => []TypeOK
<1>1. Base => TypeOK
  BY DEF Base
<1>2. QED
  BY <1>1, BaseInvariant, PTL

(* For every instance, whatever the boot tasks and the destroy processes   *)
(* lease, return and forget: no address is free twice or lost.             *)
THEOREM PoolPartition == Spec => []Partition
<1>1. Base => Partition
  BY DEF Base
<1>2. QED
  BY <1>1, BaseInvariant, PTL

(* For every instance: the system uses its address pool as an IPPool, and  *)
(* so as the abstract lease.                                               *)
THEOREM PoolIsLease == Spec => ImplementsLease
<1>1. Init => PoolInit
  BY DEF Init
<1>2. Base /\ [Next]_vars => [PoolNext]_ipVars
  <2> SUFFICES ASSUME Base, [Next]_vars, ~UNCHANGED ipVars
               PROVE  PoolNext
    OBVIOUS
  <2>1. PoolInv
    BY DEF Base, TypeOK, PoolInv
  <2>2. PICK ip : AcquireAddress(ip) \/ ReleaseAddress(ip)
    BY AddressActions
  <2>3. ip \in Addresses
    BY <2>1, <2>2, AcquirePartition, ReleasePartition
  <2>4. QED
    BY <2>2, <2>3 DEF PoolNext
<1>3. Spec => PoolSpec
  BY <1>1, <1>2, BaseInvariant, PTL DEF Spec, PoolSpec
<1>4. QED
  BY <1>3, LeaseRefinement, PTL

-----------------------------------------------------------------------------
(* The warm queue.                                                         *)
LEMMA QueueView ==
  QueueSound <=> Distinct(warm_queue) /\ Elements(warm_queue) = {v \in VMs : status[v] = "warm"}
  BY DEF QueueSound, Queued, Distinct, Elements

LEMMA ListDeleteElements ==
  ASSUME NEW q \in Seq(VMs), Distinct(q), NEW v
  PROVE  /\ Distinct(ListDelete(q, v))
         /\ Elements(ListDelete(q, v)) = Elements(q) \ {v}
<1>1. CASE \E i \in DOMAIN q : q[i] = v
  <2> DEFINE i == CHOOSE i \in DOMAIN q : q[i] = v
  <2>1. i \in DOMAIN q /\ q[i] = v
    BY <1>1
  <2>2. ListDelete(q, v) = DropNth(q, i)
    BY <1>1 DEF ListDelete, Without, DropNth
  <2> HIDE DEF i
  <2>3. QED
    BY <2>1, <2>2, WithoutElements
<1>2. CASE ~\E i \in DOMAIN q : q[i] = v
  BY <1>2 DEF ListDelete, Elements
<1>3. QED
  BY <1>1, <1>2

LEMMA UnqueueElements ==
  ASSUME TypeOK, Distinct(warm_queue), NEW D, Unqueue(D)
  PROVE  /\ Distinct(warm_queue')
         /\ Elements(warm_queue') = Elements(warm_queue) \ D
<1>1. warm_queue \in Seq(VMs)
  BY DEF TypeOK
<1>2. PICK m \in 0..Len(warm_queue) : \E f \in [1..m -> DOMAIN warm_queue] :
        /\ Keeps(f, warm_queue, D)
        /\ warm_queue' = [i \in 1..m |-> warm_queue[f[i]]]
  BY DEF Unqueue
<1>3. PICK f \in [1..m -> DOMAIN warm_queue] :
        /\ Keeps(f, warm_queue, D)
        /\ warm_queue' = [i \in 1..m |-> warm_queue[f[i]]]
  BY <1>2
<1>4. /\ m \in Nat /\ f \in [1..m -> DOMAIN warm_queue]
      /\ \A i, j \in 1..m : i < j => f[i] < f[j]
      /\ \A i \in DOMAIN warm_queue :
           warm_queue[i] \notin D <=> \E k \in 1..m : f[k] = i
  <2>1. m \in Nat /\ DOMAIN f = 1..m
    BY <1>1
  <2>2. QED
    BY <1>3, <2>1 DEF Keeps
<1>5. warm_queue' = Select(warm_queue, m, f)
  BY <1>3 DEF Select
<1>6. /\ Distinct(Select(warm_queue, m, f))
      /\ \A x : x \in Elements(Select(warm_queue, m, f))
                <=> x \in Elements(warm_queue) /\ x \notin D
  BY <1>1, <1>4, SelectElements
<1>7. QED
  BY <1>5, <1>6

(* The VMs of a set leave the queue and stop being warm.                   *)
LEMMA QueueShrinks ==
  ASSUME QueueSound, NEW D, Distinct(warm_queue'),
         Elements(warm_queue') = Elements(warm_queue) \ D,
         \A v \in VMs : status'[v] = "warm" <=> status[v] = "warm" /\ v \notin D
  PROVE  QueueSound'
<1>1. Elements(warm_queue') = {v \in VMs : status'[v] = "warm"}
  BY QueueView
<1>2. QED
  BY <1>1 DEF QueueSound, Queued, Distinct, Elements

(* A VM that was not warm becomes it and joins the queue.                  *)
LEMMA QueueGrows ==
  ASSUME TypeOK, QueueSound, NEW v \in VMs, status[v] # "warm",
         warm_queue' = Append(warm_queue, v),
         \A u \in VMs : status'[u] = "warm" <=> status[u] = "warm" \/ u = v
  PROVE  QueueSound'
<1>1. /\ warm_queue \in Seq(VMs) /\ Distinct(warm_queue) /\ v \notin Elements(warm_queue)
      /\ Elements(warm_queue) = {u \in VMs : status[u] = "warm"}
  BY QueueView DEF TypeOK
<1>2. Distinct(warm_queue') /\ Elements(warm_queue') = Elements(warm_queue) \union {v}
  BY <1>1, AppendElements
<1>3. Elements(warm_queue') = {u \in VMs : status'[u] = "warm"}
  BY <1>1, <1>2
<1>4. QED
  BY <1>2, <1>3 DEF QueueSound, Queued, Distinct, Elements

LEMMA QueueSame ==
  ASSUME QueueSound, UNCHANGED warm_queue,
         \A u \in VMs : status'[u] = "warm" <=> status[u] = "warm"
  PROVE  QueueSound'
<1>1. {u \in VMs : status'[u] = "warm"} = {u \in VMs : status[u] = "warm"}
  OBVIOUS
<1>2. QED
  BY <1>1 DEF QueueSound, Queued

(* The VM at the head is warm, and the tail holds all the others.          *)
LEMMA QueueHead ==
  ASSUME TypeOK, QueueSound, warm_queue # <<>>
  PROVE  /\ Head(warm_queue) \in VMs /\ status[Head(warm_queue)] = "warm"
         /\ Distinct(Tail(warm_queue))
         /\ Elements(Tail(warm_queue)) = Elements(warm_queue) \ {Head(warm_queue)}
<1>1. /\ warm_queue \in Seq(VMs) /\ Distinct(warm_queue)
      /\ Elements(warm_queue) = {v \in VMs : status[v] = "warm"}
  BY QueueView DEF TypeOK
<1>2. Head(warm_queue) \in Elements(warm_queue)
  BY <1>1 DEF Elements
<1> QED
  BY <1>1, <1>2, TailElements

LEMMA LifeInit == Init => Life
<1> SUFFICES ASSUME Init PROVE Life
  OBVIOUS
<1>1. \A v \in VMs : VMLife(v)
  BY DEF Init, VMLife, InPool, Recycles
<1>2. \A c \in Containers : RunLife(c)
  BY NullAssumption DEF Init, RunLife
<1>3. OneHolder
  BY DEF Init, OneHolder
<1>4. QueueSound
  BY DEF Init, QueueSound, Queued
<1>5. QED
  BY <1>1, <1>2, <1>3, <1>4 DEF Life

(* A step of a boot task, of a guest or of a refill that leaves the slots  *)
(* and the runs alone.                                                     *)
LEMMA LifeFrame ==
  ASSUME Life, UNCHANGED <<status, container_id, warm_queue, recycleVars, reaper,
                           pc, releases, acquires>>,
         \A v \in VMs : boot[v] = "reported" => boot'[v] = "reported"
  PROVE  Life'
<1>1. \A v \in VMs : VMLife(v)'
  BY DEF Life, VMLife, InPool, Recycles, recycleVars
<1>2. \A c \in Containers : RunLife(c)'
  BY DEF Life, RunLife
<1>3. OneHolder' /\ QueueSound'
  BY QueueSame DEF Life, OneHolder
<1>4. QED
  BY <1>1, <1>2, <1>3 DEF Life

(* The VMs of a set are dropped while nothing else of the slots changes.   *)
LEMMA LifeDestroy ==
  ASSUME TypeOK, Life, NEW D, Destroy(D), UNCHANGED <<boot, pc>>,
         Distinct(warm_queue'), Elements(warm_queue') = Elements(warm_queue) \ D,
         \A v \in VMs : Recycles(v)' \in Nat /\ Recycles(v)' <= Recycles(v),
         \A c \in Containers : releases'[c] \in Nat /\ releases'[c] <= releases[c],
         acquires' \subseteq acquires
  PROVE  Life'
<1>1. \A v \in VMs :
        /\ status'[v] = IF v \in D THEN "absent" ELSE status[v]
        /\ container_id'[v] = IF v \in D THEN NoContainer ELSE container_id[v]
        /\ reaper'[v] = IF v \in D /\ InPool(v) THEN "stopping" ELSE reaper[v]
  BY DEF Destroy, Reap
<1>2. \A v \in VMs : Recycles(v) \in Nat
  BY DEF TypeOK, Recycles
<1>3. ASSUME NEW v \in VMs PROVE VMLife(v)'
  <2>1. VMLife(v)
    BY DEF Life
  <2>2. QED
    BY <1>1, <1>2, <2>1 DEF VMLife, InPool, TypeOK
<1>4. ASSUME NEW c \in Containers PROVE RunLife(c)'
  <2>1. RunLife(c)
    BY DEF Life
  <2>2. QED
    BY <1>1, <2>1, NullAssumption DEF RunLife, TypeOK
<1>5. OneHolder'
  BY <1>1 DEF Life, OneHolder
<1>6. QueueSound'
  BY <1>1, QueueShrinks DEF Life
<1>7. QED
  BY <1>3, <1>4, <1>5, <1>6 DEF Life

LEMMA DestroyOneLife ==
  ASSUME TypeOK, Life, NEW v, DestroyOne(v), UNCHANGED <<boot, pc>>,
         \A u \in VMs : Recycles(u)' \in Nat /\ Recycles(u)' <= Recycles(u),
         \A c \in Containers : releases'[c] \in Nat /\ releases'[c] <= releases[c],
         acquires' \subseteq acquires
  PROVE  Life'
<1>1. warm_queue \in Seq(VMs) /\ Distinct(warm_queue)
  BY QueueView DEF TypeOK, Life
<1>2. Distinct(warm_queue') /\ Elements(warm_queue') = Elements(warm_queue) \ {v}
  BY <1>1, ListDeleteElements DEF DestroyOne
<1>3. QED
  BY <1>2, LifeDestroy DEF DestroyOne

LEMMA LifeStep ==
  ASSUME Base, Life, [Next]_vars
  PROVE  Life'
<1>1. TypeOK
  BY DEF Base
<1>2. CASE UNCHANGED vars
  BY <1>2, LifeFrame DEF vars, slotVars, poolVars, taskVars, userVars
<1>3. ASSUME NEW v \in VMs, BootStep(v)
      PROVE  Life'
  BY <1>1, <1>3, LifeFrame
     DEF BootStep, BootLease, BootStart, BootStartFails, BootProbe, BootStop, BootFree,
         BootHandover, BootCrash, BootFrame, slotVars, poolVars, userVars, TypeOK
<1>4. ASSUME NEW v \in VMs, VmBooted(v)
      PROVE  Life'
  <2>1. status[v] = "absent" /\ reaper[v] = "none" /\ Recycles(v) = 0
    BY <1>4 DEF VmBooted, Life, VMLife
  <2>2. ASSUME NEW u \in VMs PROVE VMLife(u)'
    <3>1. VMLife(u)
      BY DEF Life
    <3>2. QED
      BY <1>1, <1>4, <2>1, <3>1 DEF VmBooted, VMLife, InPool, Recycles, recycleVars, userVars, TypeOK
  <2>3. \A c \in Containers : RunLife(c)'
    BY <1>4 DEF VmBooted, Life, RunLife, userVars
  <2>4. OneHolder'
    BY <1>4 DEF VmBooted, Life, OneHolder
  <2>5. QueueSound'
    <3>1. CASE boot[v] = "ready"
      <4>1. warm_queue' = Append(warm_queue, v) /\ status' = [status EXCEPT ![v] = "warm"]
        BY <1>4, <3>1 DEF VmBooted
      <4>2. \A u \in VMs : status'[u] = "warm" <=> status[u] = "warm" \/ u = v
        BY <1>1, <4>1 DEF TypeOK
      <4>3. QED
        BY <1>1, <2>1, <4>1, <4>2, QueueGrows DEF Life
    <3>2. CASE boot[v] # "ready"
      BY <1>4, <3>2, QueueSame DEF VmBooted, Life
    <3>3. QED
      BY <3>1, <3>2
  <2>6. QED
    BY <2>2, <2>3, <2>4, <2>5 DEF Life
<1>5. ASSUME NEW v \in VMs, GuestDies(v)
      PROVE  Life'
  BY <1>5, LifeFrame DEF GuestDies, slotVars, poolVars, userVars
<1>6. ASSUME NEW v \in VMs, RecycleEnds(v)
      PROVE  Life'
  <2>1. ASSUME NEW u \in VMs PROVE Recycles(u)' = Recycles(u)
    <3>1. /\ recycling[u] \in Nat /\ recycled[u] \in Nat /\ recycle_failed[u] \in Nat
          /\ recycling'[u] = IF u = v THEN recycling[u] - 1 ELSE recycling[u]
      BY <1>1, <1>6 DEF RecycleEnds, TypeOK
    <3>2. \/ /\ recycled'[u] = IF u = v THEN recycled[u] + 1 ELSE recycled[u]
             /\ recycle_failed'[u] = recycle_failed[u]
          \/ /\ recycle_failed'[u] = IF u = v THEN recycle_failed[u] + 1 ELSE recycle_failed[u]
             /\ recycled'[u] = recycled[u]
      BY <1>1, <1>6 DEF RecycleEnds, TypeOK
    <3>3. QED
      BY <3>1, <3>2 DEF Recycles
  <2>2. \A u \in VMs : VMLife(u)'
    BY <1>6, <2>1 DEF RecycleEnds, Life, VMLife, InPool, slotVars, userVars
  <2>3. \A c \in Containers : RunLife(c)'
    BY <1>6 DEF RecycleEnds, Life, RunLife, slotVars, userVars
  <2>4. OneHolder' /\ QueueSound'
    BY <1>6, QueueSame DEF RecycleEnds, Life, OneHolder, slotVars, poolVars
  <2>5. QED
    BY <2>2, <2>3, <2>4 DEF Life
<1>7. ASSUME NEW v \in VMs, VmRecycled(v), RecycledOk(v)
      PROVE  Life'
  <2>1. CASE ~InPool(v)
    <3>1. UNCHANGED <<status, container_id, warm_queue, reaper, boot, pc, releases, acquires>>
      BY <1>7, <2>1 DEF VmRecycled, RecycledOk, userVars
    <3>2. \A u \in VMs : Recycles(u)' <= Recycles(u) /\ Recycles(u)' \in Nat /\ Recycles(u) \in Nat
      BY <1>1, <1>7 DEF VmRecycled, RecycledOk, Recycles, TypeOK
    <3>3. \A u \in VMs : VMLife(u)'
      BY <3>1, <3>2 DEF Life, VMLife, InPool
    <3>4. \A c \in Containers : RunLife(c)'
      BY <3>1 DEF Life, RunLife
    <3>5. OneHolder' /\ QueueSound'
      BY <3>1, QueueSame DEF Life, OneHolder
    <3>6. QED
      BY <3>3, <3>4, <3>5 DEF Life
  <2>2. CASE InPool(v)
    <3>1. /\ status' = [status EXCEPT ![v] = "warm"]
          /\ container_id' = [container_id EXCEPT ![v] = NoContainer]
          /\ warm_queue' = Append(warm_queue, v)
          /\ UNCHANGED <<reaper, boot, pc, releases, acquires>>
      BY <1>7, <2>2 DEF VmRecycled, RecycledOk, userVars
    <3>2. ASSUME NEW u \in VMs
          PROVE  /\ Recycles(u)' \in Nat /\ Recycles(u) \in Nat
                 /\ Recycles(u)' = IF u = v THEN Recycles(u) - 1 ELSE Recycles(u)
      <4>1. /\ recycling[u] \in Nat /\ recycled[u] \in Nat /\ recycle_failed[u] \in Nat
            /\ recycled[v] > 0
            /\ recycled'[u] = IF u = v THEN recycled[u] - 1 ELSE recycled[u]
            /\ UNCHANGED <<recycling, recycle_failed>>
        BY <1>1, <1>7 DEF VmRecycled, RecycledOk, TypeOK
      <4>2. QED
        BY <4>1 DEF Recycles
    <3>3. Recycles(v) = 1 /\ status[v] = "recycling"
      <4>1. VMLife(v)
        BY DEF Life
      <4>2. status[v] \in {"warm", "assigned", "recycling"}
        BY <1>1, <2>2 DEF InPool, TypeOK
      <4>3. QED
        BY <3>2, <4>1, <4>2 DEF VMLife
    <3>4. ASSUME NEW u \in VMs PROVE VMLife(u)'
      <4>1. VMLife(u)
        BY DEF Life
      <4>2. QED
        BY <1>1, <2>2, <3>1, <3>2, <3>3, <4>1 DEF VMLife, InPool, TypeOK
    <3>5. ASSUME NEW c \in Containers PROVE RunLife(c)'
      <4>1. RunLife(c)
        BY DEF Life
      <4>2. QED
        BY <1>1, <3>1, <4>1, NullAssumption DEF RunLife, TypeOK
    <3>6. OneHolder'
      BY <1>1, <3>1 DEF Life, OneHolder, TypeOK
    <3>7. QueueSound'
      <4>1. \A u \in VMs : status'[u] = "warm" <=> status[u] = "warm" \/ u = v
        BY <1>1, <3>1 DEF TypeOK
      <4>2. QED
        BY <1>1, <3>1, <3>3, <4>1, QueueGrows DEF Life
    <3>8. QED
      BY <3>4, <3>5, <3>6, <3>7 DEF Life
  <2>3. QED
    BY <2>1, <2>2
<1>8. ASSUME NEW v \in VMs, VmRecycled(v), RecycledError(v)
      PROVE  Life'
  <2>1. \A u \in VMs : Recycles(u)' \in Nat /\ Recycles(u)' <= Recycles(u)
    BY <1>1, <1>8 DEF VmRecycled, RecycledError, Recycles, TypeOK
  <2>2. UNCHANGED <<boot, pc, releases, acquires>> /\ DestroyOne(v)
    BY <1>8 DEF VmRecycled, RecycledError, userVars
  <2>3. QED
    BY <1>1, <2>1, <2>2, DestroyOneLife DEF TypeOK
<1>9. ASSUME NEW v \in VMs, DestroyCast(v)
      PROVE  Life'
  <2>1. \A u \in VMs : Recycles(u)' \in Nat /\ Recycles(u)' <= Recycles(u)
    BY <1>1, <1>9 DEF DestroyCast, Recycles, recycleVars, TypeOK
  <2>2. UNCHANGED <<boot, pc, releases, acquires>> /\ DestroyOne(v)
    BY <1>9 DEF DestroyCast, userVars
  <2>3. QED
    BY <1>1, <2>1, <2>2, DestroyOneLife DEF TypeOK
<1>10. ASSUME NEW v \in VMs, ReaperStop(v) \/ ReaperRelease(v)
       PROVE  Life'
  <2>1. /\ UNCHANGED <<status, container_id, warm_queue, boot, recycleVars, pc, releases, acquires>>
        /\ reaper[v] # "none"
        /\ \A u \in VMs : reaper'[u] # reaper[u] => u = v
    BY <1>1, <1>10 DEF ReaperStop, ReaperRelease, slotVars, poolVars, userVars, TypeOK
  <2>2. \A u \in VMs : VMLife(u)'
    BY <2>1 DEF Life, VMLife, InPool, Recycles, recycleVars
  <2>3. \A c \in Containers : RunLife(c)'
    BY <2>1 DEF Life, RunLife
  <2>4. OneHolder' /\ QueueSound'
    BY <2>1, QueueSame DEF Life, OneHolder
  <2>5. QED
    BY <2>2, <2>3, <2>4 DEF Life
<1>11. ASSUME NEW c \in Containers,
              RunAcquire(c) \/ RunTimeout(c) \/ RunExec(c) \/ RunRelease(c) \/ RunFail(c)
       PROVE  Life'
  <2>1. /\ UNCHANGED <<status, container_id, warm_queue, boot, recycleVars, reaper>>
        /\ pc[c] \notin {"done", "gone"}
        /\ pc' = [pc EXCEPT ![c] = pc'[c]]
        /\ \/ pc'[c] = "waiting" /\ pc[c] = "idle" /\ acquires' = acquires \union {c}
              /\ UNCHANGED releases
           \/ pc'[c] # "idle" /\ pc'[c] # "done" /\ pc[c] = "waiting" /\ pc'[c] = "gone"
              /\ UNCHANGED <<acquires, releases>>
           \/ pc'[c] \in {"executed", "gone"} /\ pc[c] \in {"holding", "executed", "cold"}
              /\ UNCHANGED <<acquires, releases>>
           \/ pc'[c] = "done" /\ pc[c] \in {"executed", "cold"}
              /\ releases' = [releases EXCEPT ![c] = @ + 1] /\ UNCHANGED acquires
    BY <1>1, <1>11 DEF RunAcquire, RunTimeout, RunExec, RunRelease, RunFail, RunFrame,
                       slotVars, poolVars, TypeOK
  <2>2. RunLife(c)
    BY DEF Life
  <2>3. ASSUME NEW v \in VMs PROVE VMLife(v)'
    <3>1. VMLife(v)
      BY DEF Life
    <3>2. \A d \in Containers : pc[d] = "done" => pc'[d] = "done" /\ releases'[d] = releases[d]
      BY <1>1, <2>1 DEF TypeOK
    <3>3. container_id[v] \in Containers \/ status[v] # "recycling"
      BY <1>1, <3>1 DEF VMLife, TypeOK
    <3>4. QED
      BY <2>1, <3>1, <3>2, <3>3 DEF VMLife, InPool, Recycles, recycleVars
  <2>4. ASSUME NEW d \in Containers PROVE RunLife(d)'
    <3>1. CASE d = c
      BY <1>1, <2>1, <2>2, <3>1 DEF RunLife, TypeOK
    <3>2. CASE d # c
      <4>1. RunLife(d)
        BY DEF Life
      <4>2. pc'[d] = pc[d] /\ releases'[d] = releases[d] /\ (d \in acquires' <=> d \in acquires)
        BY <1>1, <2>1, <3>2 DEF TypeOK
      <4>3. QED
        BY <2>1, <4>1, <4>2 DEF RunLife
    <3>3. QED
      BY <3>1, <3>2
  <2>5. OneHolder' /\ QueueSound'
    BY <2>1, QueueSame DEF Life, OneHolder
  <2>6. QED
    BY <2>3, <2>4, <2>5 DEF Life
<1>12. ASSUME NEW c \in Containers, WarmHit(c)
       PROVE  Life'
  <2> DEFINE w == Head(warm_queue)
  <2>1. /\ warm_queue # <<>> /\ c \in acquires /\ acquires' = acquires \ {c}
        /\ status' = [status EXCEPT ![w] = "assigned"]
        /\ container_id' = [container_id EXCEPT ![w] = c]
        /\ warm_queue' = Tail(warm_queue) /\ Reply(c, "holding", w)
        /\ UNCHANGED <<boot, recycleVars, releases, reaper>>
    BY <1>12 DEF WarmHit, Acquires, AcquireFrame
  <2>2. /\ w \in VMs /\ status[w] = "warm"
        /\ Distinct(Tail(warm_queue)) /\ Elements(Tail(warm_queue)) = Elements(warm_queue) \ {w}
    BY <1>1, <2>1, QueueHead DEF Life
  <2> HIDE DEF w
  <2>3. \A v \in VMs :
          /\ status'[v] = IF v = w THEN "assigned" ELSE status[v]
          /\ container_id'[v] = IF v = w THEN c ELSE container_id[v]
    BY <1>1, <2>1 DEF TypeOK
  <2>4. \A d \in Containers : pc'[d] # pc[d] => d = c /\ pc[d] = "waiting" /\ pc'[d] = "holding"
    BY <1>1, <2>1 DEF Reply, TypeOK
  <2>5. QueueSound'
    <3>1. \A v \in VMs : status'[v] = "warm" <=> status[v] = "warm" /\ v \notin {w}
      BY <2>3
    <3>2. Distinct(warm_queue') /\ Elements(warm_queue') = Elements(warm_queue) \ {w}
      BY <2>1, <2>2
    <3> QED
      BY <3>1, <3>2, QueueShrinks DEF Life
  <2>6. ASSUME NEW v \in VMs PROVE VMLife(v)'
    <3>1. VMLife(v)
      BY DEF Life
    <3>2. status[v] = "recycling" => container_id[v] \in Containers
      BY <1>1, <3>1 DEF VMLife, TypeOK
    <3>3. QED
      BY <2>1, <2>2, <2>3, <2>4, <3>1, <3>2, NullAssumption
         DEF VMLife, InPool, Recycles, recycleVars
  <2>7. ASSUME NEW d \in Containers PROVE RunLife(d)'
    <3>1. RunLife(d) /\ RunLife(c)
      BY DEF Life
    <3>2. QED
      BY <2>1, <2>2, <2>3, <2>4, <3>1, NullAssumption DEF RunLife
  <2>8. OneHolder'
    <3>1. \A v \in VMs : container_id[v] # c
      BY <2>1 DEF Life, RunLife
    <3>2. QED
      BY <2>2, <2>3, <3>1, NullAssumption DEF Life, OneHolder
  <2>9. QED
    BY <2>5, <2>6, <2>7, <2>8 DEF Life
<1>13. ASSUME NEW c \in Containers, Unhealthy(c) \/ ColdMiss(c)
       PROVE  Life'
  <2>1. CASE Unhealthy(c)
    <3>1. UNCHANGED <<boot, pc, recycleVars, releases, acquires>>
      BY <2>1 DEF Unhealthy, AcquireFrame
    <3>2. /\ \A v \in VMs : Recycles(v)' \in Nat /\ Recycles(v)' <= Recycles(v)
          /\ \A d \in Containers : releases'[d] \in Nat /\ releases'[d] <= releases[d]
      BY <1>1, <3>1 DEF Recycles, recycleVars, TypeOK
    <3> QED
      BY <1>1, <2>1, <3>1, <3>2, DestroyOneLife DEF Unhealthy
  <2>2. CASE ColdMiss(c)
    <3>1. /\ UNCHANGED <<status, container_id, warm_queue, reaper, boot, releases, recycleVars>>
          /\ acquires' = acquires \ {c} /\ c \in acquires
      BY <2>2 DEF ColdMiss, Acquires, AcquireFrame
    <3>2. \A d \in Containers : pc'[d] # pc[d] => d = c /\ pc[d] = "waiting" /\ pc'[d] = "cold"
      BY <1>1, <2>2 DEF ColdMiss, Reply, TypeOK
    <3>3. ASSUME NEW v \in VMs PROVE VMLife(v)'
      <4>1. VMLife(v)
        BY DEF Life
      <4>2. status[v] = "recycling" => container_id[v] \in Containers
        BY <1>1, <4>1 DEF VMLife, TypeOK
      <4> QED
        BY <3>1, <3>2, <4>1, <4>2 DEF VMLife, InPool, Recycles, recycleVars
    <3>4. ASSUME NEW d \in Containers PROVE RunLife(d)'
      <4>1. RunLife(d)
        BY DEF Life
      <4> QED
        BY <3>1, <3>2, <4>1 DEF RunLife
    <3>5. OneHolder' /\ QueueSound'
      BY <3>1, QueueSame DEF Life, OneHolder
    <3> QED
      BY <3>3, <3>4, <3>5 DEF Life
  <2>3. QED
    BY <1>13, <2>1, <2>2
<1>14. ASSUME NEW c \in Containers, HandleRelease(c)
       PROVE  Life'
  <2>1. /\ UNCHANGED <<boot, pc, acquires>> /\ releases[c] > 0
        /\ releases' = [releases EXCEPT ![c] = @ - 1]
    BY <1>14 DEF HandleRelease
  <2>2. RunLife(c)
    BY DEF Life
  <2>3. releases[c] = 1 /\ pc[c] = "done" /\ releases'[c] = 0
    BY <1>1, <2>1, <2>2 DEF RunLife, TypeOK
  <2>4. \A d \in Containers : releases'[d] \in Nat /\ releases'[d] <= releases[d]
    BY <1>1, <2>1 DEF TypeOK
  <2>5. ASSUME NEW d \in Containers, UNCHANGED container_id PROVE RunLife(d)'
    <3>1. RunLife(d)
      BY DEF Life
    <3>2. QED
      BY <1>1, <2>1, <2>4, <2>5, <3>1 DEF RunLife, TypeOK
  <2>6. CASE UNCHANGED <<status, container_id, warm_queue, recycleVars, reaper>>
    <3>1. ASSUME NEW v \in VMs PROVE VMLife(v)'
      <4>1. VMLife(v)
        BY DEF Life
      <4>2. status[v] = "recycling" => container_id[v] \in Containers
        BY <1>1, <4>1 DEF VMLife, TypeOK
      <4>3. \A d \in Containers : releases[d] = 0 => releases'[d] = 0
        BY <1>1, <2>4 DEF TypeOK
      <4>4. QED
        BY <2>1, <2>6, <4>1, <4>2, <4>3 DEF VMLife, InPool, Recycles, recycleVars
    <3>2. OneHolder' /\ QueueSound'
      BY <2>6, QueueSame DEF Life, OneHolder
    <3>3. QED
      BY <2>5, <2>6, <3>1, <3>2 DEF Life
  <2>7. ASSUME NEW v \in VMs, container_id[v] = c, Recycle(v)
        PROVE  Life'
    <3>1. VMLife(v)
      BY DEF Life
    <3>2. status[v] = "assigned" /\ Recycles(v) = 0
      BY <2>3, <2>7, <3>1, NullAssumption DEF VMLife
    <3>3. /\ UNCHANGED <<container_id, reaper, warm_queue>>
          /\ \A u \in VMs : status'[u] = IF u = v THEN "recycling" ELSE status[u]
      BY <1>1, <2>7 DEF Recycle, TypeOK
    <3>4. ASSUME NEW u \in VMs
          PROVE  /\ Recycles(u) \in Nat
                 /\ Recycles(u)' = IF u = v THEN Recycles(u) + 1 ELSE Recycles(u)
      <4>1. /\ recycling[u] \in Nat /\ recycled[u] \in Nat /\ recycle_failed[u] \in Nat
            /\ recycling'[u] = IF u = v THEN recycling[u] + 1 ELSE recycling[u]
            /\ UNCHANGED <<recycled, recycle_failed>>
        BY <1>1, <2>7 DEF Recycle, TypeOK
      <4>2. QED
        BY <4>1 DEF Recycles
    <3>5. ASSUME NEW u \in VMs PROVE VMLife(u)'
      <4>1. VMLife(u)
        BY DEF Life
      <4>2. status[u] = "recycling" => container_id[u] \in Containers
        BY <1>1, <4>1 DEF VMLife, TypeOK
      <4>3. \A d \in Containers : releases[d] = 0 => releases'[d] = 0
        BY <1>1, <2>4 DEF TypeOK
      <4>4. CASE u = v
        BY <2>1, <2>3, <2>7, <3>1, <3>2, <3>3, <3>4, <4>4, NullAssumption DEF VMLife, InPool
      <4>5. CASE u # v
        <5>1. Recycles(u)' = Recycles(u) /\ status'[u] = status[u]
          BY <3>3, <3>4, <4>5
        <5>2. QED
          BY <2>1, <3>3, <4>1, <4>2, <4>3, <5>1 DEF VMLife, InPool
      <4>6. QED
        BY <4>4, <4>5
    <3>6. OneHolder' /\ QueueSound'
      BY <3>2, <3>3, QueueSame DEF Life, OneHolder
    <3>7. QED
      BY <2>5, <3>3, <3>5, <3>6 DEF Life
  <2>8. ASSUME NEW v \in VMs, DestroyOne(v), UNCHANGED recycleVars
        PROVE  Life'
    <3>1. \A u \in VMs : Recycles(u)' \in Nat /\ Recycles(u)' <= Recycles(u)
      BY <1>1, <2>8 DEF Recycles, recycleVars, TypeOK
    <3>2. QED
      BY <1>1, <2>1, <2>4, <2>8, <3>1, DestroyOneLife
  <2>9. QED
    BY <1>14, <2>6, <2>7, <2>8 DEF HandleRelease
<1>15. ASSUME NEW n, SpawnWarm(n)
       PROVE  Life'
  BY <1>1, <1>15, LifeFrame DEF SpawnWarm, slotVars, userVars, TypeOK
<1>16. CASE HealthCheck
  <2>1. PICK silent \in SUBSET Queued : Sweep(silent)
    BY <1>16 DEF HealthCheck
  <2> DEFINE dead == {v \in silent : TooMany(FailuresAfter(v, silent))}
  <2>2. Destroy(dead) /\ Unqueue(dead)
    BY <2>1 DEF Sweep
  <2> HIDE DEF dead
  <2>3. Distinct(warm_queue') /\ Elements(warm_queue') = Elements(warm_queue) \ dead
    BY <1>1, <2>2, QueueView, UnqueueElements DEF Life
  <2>4. UNCHANGED <<boot, pc, recycleVars, releases, acquires>>
    BY <1>16 DEF HealthCheck, userVars
  <2>5. /\ \A v \in VMs : Recycles(v)' \in Nat /\ Recycles(v)' <= Recycles(v)
        /\ \A c \in Containers : releases'[c] \in Nat /\ releases'[c] <= releases[c]
    BY <1>1, <2>4 DEF Recycles, recycleVars, TypeOK
  <2>6. QED
    BY <1>1, <2>2, <2>3, <2>4, <2>5, LifeDestroy
<1>17. ASSUME NEW v \in VMs, VMStep(v)
       PROVE  Life'
  BY <1>3, <1>4, <1>5, <1>6, <1>7, <1>8, <1>9, <1>10, <1>17 DEF VMStep, VmRecycled
<1>18. ASSUME NEW c \in Containers, RunStep(c)
       PROVE  Life'
  BY <1>11, <1>12, <1>13, <1>14, <1>18 DEF RunStep, HandleAcquire
<1>19. QED
  BY <1>2, <1>15, <1>16, <1>17, <1>18 DEF Next, WarmForImage, InitialWarmup, CheckWarmPool

LEMMA LifeInvariant == Spec => [](Base /\ Life)
<1>1. Init => Base /\ Life
  BY BaseInit, LifeInit
<1>2. Base /\ Life /\ [Next]_vars => Life'
  BY LifeStep
<1>3. QED
  BY <1>1, <1>2, BaseInvariant, PTL DEF Spec

(* For every instance, operator destroys included: the warm queue holds    *)
(* each warm VM once and nothing else, so acquire never meets a key that   *)
(* is missing from vms and never hands one VM out twice                    *)
(* (vm_pool.ex:318-328).                                                   *)
THEOREM QueueIsSound == Spec => []QueueSound
<1>1. Life => QueueSound
  BY DEF Life
<1>2. QED
  BY <1>1, LifeInvariant, PTL

-----------------------------------------------------------------------------
(* Who answers for an address.                                             *)
LEMMA AccountView ==
  AddressAccounting <=>
    /\ \A v \in VMs : Owns(v) => address[v] \in allocated
    /\ \A a \in allocated : \E v \in VMs : Owns(v) /\ address[v] = a
    /\ \A u, v \in VMs : Owns(u) /\ Owns(v) /\ address[u] = address[v] => u = v
  BY DEF AddressAccounting

LEMMA OwnersSame ==
  ASSUME AddressAccounting, UNCHANGED <<allocated, address>>,
         \A v \in VMs : Owns(v)' <=> Owns(v)
  PROVE  AddressAccounting'
<1>1. {v \in VMs : Owns(v)}' = {v \in VMs : Owns(v)}
  OBVIOUS
<1>2. QED
  BY <1>1 DEF AddressAccounting

(* A VM that answers for no address leases one that nobody has.            *)
LEMMA OwnerJoins ==
  ASSUME TypeOK, AddressAccounting, NEW v \in VMs, NEW ip, ~Owns(v), Owns(v)', ip \notin allocated,
         allocated' = allocated \union {ip}, address' = [address EXCEPT ![v] = ip],
         \A u \in VMs \ {v} : Owns(u)' <=> Owns(u)
  PROVE  AddressAccounting'
<1>1. \A u \in VMs : address'[u] = IF u = v THEN ip ELSE address[u]
  BY DEF TypeOK
<1>2. \A u \in VMs : Owns(u)' => address'[u] \in allocated'
  BY <1>1, AccountView
<1>3. \A a \in allocated' : \E u \in VMs : Owns(u)' /\ address'[u] = a
  BY <1>1, AccountView
<1>4. \A u, w \in VMs : Owns(u)' /\ Owns(w)' /\ address'[u] = address'[w] => u = w
  BY <1>1, AccountView
<1>5. QED
  BY <1>2, <1>3, <1>4 DEF AddressAccounting

(* A VM returns its address and answers for none from then on.             *)
LEMMA OwnerLeaves ==
  ASSUME AddressAccounting, NEW v \in VMs, Owns(v), ~Owns(v)',
         allocated' = allocated \ {address[v]},
         \A u \in VMs \ {v} : address'[u] = address[u] /\ (Owns(u)' <=> Owns(u))
  PROVE  AddressAccounting'
<1>1. \A u \in VMs : Owns(u)' => address'[u] \in allocated'
  BY AccountView
<1>2. \A a \in allocated' : \E u \in VMs : Owns(u)' /\ address'[u] = a
  BY AccountView
<1>3. \A u, w \in VMs : Owns(u)' /\ Owns(w)' /\ address'[u] = address'[w] => u = w
  BY AccountView
<1>4. QED
  BY <1>1, <1>2, <1>3 DEF AddressAccounting

(* Account as two parts, the second one VM by VM.                          *)
Traced(v) ==
  /\ v \in running => \/ boot[v] \in {"probing", "handover", "stopping", "ready"}
                      \/ InPool(v) \/ reaper[v] = "stopping"
  /\ boot[v] \in {"unborn", "leasing"} => address[v] = NoAddress

LEMMA AccountParts == Account <=> AddressAccounting /\ \A v \in VMs : Traced(v)
  BY DEF Account, Traced

LEMMA AccountInit == Init => Account
  BY DEF Init, PoolInit, Account, AddressAccounting, Owns, Booting, InPool

(* Nothing that an address depends on changes.                             *)
LEMMA AccountFrame ==
  ASSUME Account, UNCHANGED <<allocated, address, reaper, boot>>, running' \subseteq running,
         \A v \in VMs : InPool(v)' <=> InPool(v)
  PROVE  Account'
<1>1. \A v \in VMs : Owns(v)' <=> Owns(v)
  BY DEF Owns, Booting
<1>2. \A v \in VMs : Traced(v)'
  BY AccountParts DEF Traced
<1>3. AddressAccounting'
  BY <1>1, OwnersSame DEF Account
<1>4. QED
  BY <1>2, <1>3 DEF Account, Traced

LEMMA AccountDestroy ==
  ASSUME Life, Account, NEW D, Destroy(D), UNCHANGED <<allocated, address, boot, running>>
  PROVE  Account'
<1>1. ASSUME NEW v \in VMs
      PROVE  /\ InPool(v)' <=> InPool(v) /\ v \notin D
             /\ reaper'[v] = IF v \in D /\ InPool(v) THEN "stopping" ELSE reaper[v]
  BY DEF Destroy, Reap, InPool
<1>2. ASSUME NEW v \in VMs PROVE (Owns(v)' <=> Owns(v)) /\ Traced(v)'
  <2>1. VMLife(v) /\ Traced(v)
    BY AccountParts DEF Life
  <2>2. QED
    BY <1>1, <2>1 DEF Owns, Booting, Traced, VMLife
<1>3. AddressAccounting'
  BY <1>2, OwnersSame DEF Account
<1>4. QED
  BY <1>2, <1>3 DEF Account, Traced

LEMMA AccountStep ==
  ASSUME Base, Life, Account, [Next]_vars
  PROVE  Account'
<1>1. TypeOK /\ Partition
  BY DEF Base
<1>2. \A v \in VMs : VMLife(v) /\ Traced(v)
  BY AccountParts DEF Life
<1>3. \A v \in VMs : Owns(v) => address[v] \in allocated /\ address[v] # NoAddress
  <2>1. allocated \subseteq Addresses
    BY <1>1 DEF TypeOK, PoolTypeOK
  <2>2. \A v \in VMs : Owns(v) => address[v] \in allocated
    BY AccountView DEF Account
  <2>3. QED
    BY <2>1, <2>2, NullAssumption
<1>4. CASE UNCHANGED vars
  BY <1>4, AccountFrame DEF vars, ipVars, slotVars, poolVars, taskVars, userVars, InPool
<1>5. ASSUME NEW v \in VMs, BootStep(v)
      PROVE  Account'
  <2>1. /\ \A u \in VMs \ {v} : boot'[u] = boot[u]
        /\ UNCHANGED <<status, reaper>>
    BY <1>1, <1>5 DEF BootStep, BootLease, BootStart, BootStartFails, BootProbe, BootStop,
       BootFree, BootHandover, BootCrash, BootFrame, slotVars, poolVars, userVars, TypeOK
  <2>2. boot[v] # "reported" /\ status[v] = "absent" /\ reaper[v] = "none"
    BY <1>2, <1>5 DEF BootStep, BootLease, BootStart, BootStartFails, BootProbe, BootStop,
       BootFree, BootHandover, BootCrash, VMLife
  <2>3. ASSUME UNCHANGED <<allocated, address>>, Owns(v)' <=> Owns(v),
               running' \subseteq running \union {v}, Traced(v)'
        PROVE  Account'
    <3>1. ASSUME NEW u \in VMs PROVE (Owns(u)' <=> Owns(u)) /\ Traced(u)'
      BY <1>2, <2>1, <2>3 DEF Owns, Booting, InPool, Traced
    <3>2. AddressAccounting'
      BY <2>3, <3>1, OwnersSame DEF Account
    <3>3. QED
      BY <3>1, <3>2 DEF Account, Traced
  <2>4. ASSUME AddressAccounting', \A u \in VMs \ {v} : address'[u] = address[u],
               running' \subseteq running, Traced(v)'
        PROVE  Account'
    <3>1. ASSUME NEW u \in VMs PROVE Traced(u)'
      BY <1>2, <2>1, <2>4 DEF InPool, Traced
    <3>2. QED
      BY <2>4, <3>1 DEF Account, Traced
  <2> HIDE <2>3, <2>4
  <2>5. ASSUME BootStartFails(v) \/ BootFree(v)
        PROVE  Account'
    <3>1. /\ ReleaseAddress(address[v]) /\ UNCHANGED running
          /\ \A u \in VMs \ {v} : address'[u] = address[u]
          /\ boot[v] \in {"starting", "freeing"} /\ boot'[v] = "failed"
      BY <1>1, <2>5 DEF BootStartFails, BootFree, TypeOK
    <3>2. allocated' = allocated \ {address[v]}
      BY <1>1, <3>1, AddressRelease
    <3>3. Owns(v) /\ ~Owns(v)' /\ Traced(v)'
      BY <1>2, <2>1, <2>2, <3>1 DEF Owns, Booting, InPool, Traced
    <3>4. \A u \in VMs \ {v} : Owns(u)' <=> Owns(u)
      BY <2>1, <3>1 DEF Owns, Booting, InPool
    <3>5. AddressAccounting'
      BY <3>1, <3>2, <3>3, <3>4, OwnerLeaves DEF Account
    <3>6. QED
      BY <2>4, <3>1, <3>3, <3>5
  <2>6. ASSUME BootLease(v)
        PROVE  Account'
    <3>1. CASE \E ip \in Addresses : AcquireAddress(ip) /\ address' = [address EXCEPT ![v] = ip]
               /\ boot' = [boot EXCEPT ![v] = "starting"]
      <4>1. PICK ip \in Addresses : AcquireAddress(ip) /\ address' = [address EXCEPT ![v] = ip]
                                   /\ boot' = [boot EXCEPT ![v] = "starting"]
        BY <3>1
      <4>2. ip \notin allocated /\ allocated' = allocated \union {ip}
        BY <1>1, <4>1, AddressAcquire
      <4>3. UNCHANGED running /\ boot[v] = "leasing" /\ boot'[v] = "starting"
        BY <1>1, <2>6, <4>1 DEF BootLease, TypeOK
      <4>4. \A u \in VMs \ {v} : address'[u] = address[u]
        BY <1>1, <4>1 DEF TypeOK
      <4>5. ~Owns(v) /\ Owns(v)' /\ Traced(v)'
        BY <1>2, <2>1, <2>2, <4>3 DEF Owns, Booting, InPool, Traced
      <4>6. \A u \in VMs \ {v} : Owns(u)' <=> Owns(u)
        BY <2>1, <4>4 DEF Owns, Booting, InPool
      <4>7. AddressAccounting'
        BY <1>1, <4>1, <4>2, <4>5, <4>6, OwnerJoins DEF Account
      <4>8. QED
        BY <2>4, <4>3, <4>4, <4>5, <4>7
    <3>2. CASE Exhausted /\ boot' = [boot EXCEPT ![v] = "failed"] /\ UNCHANGED address
      <4>1. UNCHANGED <<allocated, address, running>> /\ boot[v] = "leasing" /\ boot'[v] = "failed"
        BY <1>1, <2>6, <3>2 DEF BootLease, Exhausted, ipVars, TypeOK
      <4>2. ~Owns(v) /\ ~Owns(v)' /\ Traced(v)'
        BY <1>2, <2>1, <2>2, <4>1 DEF Owns, Booting, InPool, Traced
      <4>3. QED
        BY <2>3, <4>1, <4>2
    <3>3. QED
      BY <2>6, <3>1, <3>2 DEF BootLease
  <2>7. ASSUME BootStart(v) \/ BootProbe(v) \/ BootStop(v) \/ BootHandover(v)
        PROVE  Account'
    <3>1. UNCHANGED <<allocated, address>> /\ running' \subseteq running \union {v}
      BY <2>7 DEF BootStart, BootProbe, BootStop, BootHandover, ipVars
    <3>2. Booting(v) /\ (Booting(v)' \/ boot'[v] = "crashed")
      BY <1>1, <2>7 DEF BootStart, BootProbe, BootStop, BootHandover, Booting, TypeOK
    <3>3. Owns(v) /\ Owns(v)'
      BY <1>3, <3>1, <3>2 DEF Owns
    <3>4. Traced(v)'
      BY <1>1, <1>2, <2>2, <2>7 DEF BootStart, BootProbe, BootStop, BootHandover, Traced, TypeOK
    <3>5. QED
      BY <2>3, <3>1, <3>3, <3>4
  <2>8. ASSUME BootCrash(v)
        PROVE  Account'
    <3>1. /\ UNCHANGED <<allocated, address, running>>
          /\ boot[v] \in {"leasing", "starting"} /\ boot'[v] = "crashed"
      BY <1>1, <2>8 DEF BootCrash, ipVars, TypeOK
    <3>2. Owns(v)' <=> Owns(v)
      BY <1>2, <1>3, <2>1, <2>2, <3>1 DEF Owns, Booting, InPool, Traced
    <3>3. Traced(v)'
      BY <1>2, <2>1, <2>2, <3>1 DEF Traced, InPool
    <3>4. QED
      BY <2>3, <3>1, <3>2, <3>3
  <2>9. QED
    BY <1>5, <2>5, <2>6, <2>7, <2>8 DEF BootStep
<1>6. ASSUME NEW v \in VMs, VmBooted(v)
      PROVE  Account'
  <2>1. /\ UNCHANGED <<allocated, address, running, reaper>> /\ boot'[v] = "reported"
        /\ \A u \in VMs \ {v} : boot'[u] = boot[u] /\ status'[u] = status[u]
    BY <1>1, <1>6 DEF VmBooted, ipVars, TypeOK
  <2>2. \/ boot[v] = "ready" /\ status'[v] = "warm"
        \/ boot[v] = "failed" /\ status'[v] = status[v]
    BY <1>1, <1>6 DEF VmBooted, TypeOK
  <2>3. ASSUME NEW u \in VMs PROVE (Owns(u)' <=> Owns(u)) /\ Traced(u)'
    <3>1. CASE u = v
      BY <1>2, <2>1, <2>2, <3>1 DEF Owns, Booting, InPool, Traced, VMLife
    <3>2. CASE u # v
      BY <1>2, <2>1, <3>2 DEF Owns, Booting, InPool, Traced
    <3>3. QED
      BY <3>1, <3>2
  <2>4. AddressAccounting'
    BY <2>1, <2>3, OwnersSame DEF Account
  <2>5. QED
    BY <2>3, <2>4 DEF Account, Traced
<1>7. ASSUME NEW v \in VMs, GuestDies(v) \/ RecycleEnds(v)
      PROVE  Account'
  BY <1>7, AccountFrame DEF GuestDies, RecycleEnds, ipVars, slotVars, InPool
<1>8. ASSUME NEW v \in VMs, VmRecycled(v)
      PROVE  Account'
  <2>1. UNCHANGED <<allocated, address, boot, running>>
    BY <1>8 DEF VmRecycled, ipVars
  <2>2. CASE RecycledOk(v)
    BY <1>1, <2>1, <2>2, AccountFrame DEF RecycledOk, InPool, TypeOK
  <2>3. CASE RecycledError(v)
    BY <2>1, <2>3, AccountDestroy DEF RecycledError, DestroyOne
  <2>4. QED
    BY <1>8, <2>2, <2>3 DEF VmRecycled
<1>9. ASSUME NEW v \in VMs, DestroyCast(v)
      PROVE  Account'
  BY <1>9, AccountDestroy DEF DestroyCast, DestroyOne, ipVars
<1>10. ASSUME NEW v \in VMs, ReaperStop(v)
       PROVE  Account'
  <2>1. /\ UNCHANGED <<allocated, address, boot, status>>
        /\ reaper[v] = "stopping" /\ reaper'[v] = "releasing" /\ running' = running \ {v}
        /\ \A u \in VMs \ {v} : reaper'[u] = reaper[u]
    BY <1>1, <1>10 DEF ReaperStop, ipVars, slotVars, TypeOK
  <2>2. ASSUME NEW u \in VMs PROVE (Owns(u)' <=> Owns(u)) /\ Traced(u)'
    BY <1>2, <2>1 DEF Owns, Booting, InPool, Traced
  <2>3. AddressAccounting'
    BY <2>1, <2>2, OwnersSame DEF Account
  <2>4. QED
    BY <2>2, <2>3 DEF Account, Traced
<1>11. ASSUME NEW v \in VMs, ReaperRelease(v)
       PROVE  Account'
  <2>1. /\ UNCHANGED <<boot, status, running>> /\ ReleaseAddress(address[v])
        /\ address'[v] = NoAddress /\ \A u \in VMs \ {v} : address'[u] = address[u]
        /\ reaper[v] = "releasing" /\ reaper'[v] = "done"
        /\ \A u \in VMs \ {v} : reaper'[u] = reaper[u]
    BY <1>1, <1>11 DEF ReaperRelease, slotVars, TypeOK
  <2>2. allocated' = allocated \ {address[v]}
    BY <1>1, <2>1, AddressRelease
  <2>3. Owns(v) /\ ~Owns(v)'
    BY <1>2, <2>1 DEF Owns, Booting, InPool, VMLife
  <2>4. \A u \in VMs \ {v} : Owns(u)' <=> Owns(u)
    BY <2>1 DEF Owns, Booting, InPool
  <2>5. AddressAccounting'
    BY <2>1, <2>2, <2>3, <2>4, OwnerLeaves DEF Account
  <2>6. ASSUME NEW u \in VMs PROVE Traced(u)'
    BY <1>2, <2>1 DEF InPool, Traced
  <2>7. QED
    BY <2>5, <2>6 DEF Account, Traced
<1>12. ASSUME NEW c \in Containers,
              RunAcquire(c) \/ RunTimeout(c) \/ RunExec(c) \/ RunRelease(c) \/ RunFail(c)
       PROVE  Account'
  BY <1>12, AccountFrame DEF RunAcquire, RunTimeout, RunExec, RunRelease, RunFail, RunFrame,
                             ipVars, slotVars, InPool
<1>13. ASSUME NEW c \in Containers, WarmHit(c)
       PROVE  Account'
  <2>1. /\ UNCHANGED <<allocated, address, boot, running, reaper>> /\ warm_queue # <<>>
        /\ status' = [status EXCEPT ![Head(warm_queue)] = "assigned"]
    BY <1>13 DEF WarmHit, AcquireFrame, ipVars
  <2>2. InPool(Head(warm_queue))
    BY <1>1, <2>1, QueueHead DEF Life, InPool
  <2>3. \A v \in VMs : InPool(v)' <=> InPool(v)
    BY <1>1, <2>1, <2>2 DEF InPool, TypeOK
  <2>4. QED
    BY <2>1, <2>3, AccountFrame
<1>14. ASSUME NEW c \in Containers, Unhealthy(c) \/ ColdMiss(c)
       PROVE  Account'
  <2>1. UNCHANGED <<allocated, address, boot, running>>
    BY <1>14 DEF Unhealthy, ColdMiss, AcquireFrame, ipVars
  <2>2. CASE Unhealthy(c)
    BY <2>1, <2>2, AccountDestroy DEF Unhealthy, DestroyOne
  <2>3. CASE ColdMiss(c)
    BY <2>1, <2>3, AccountFrame DEF ColdMiss, InPool
  <2>4. QED
    BY <1>14, <2>2, <2>3
<1>15. ASSUME NEW c \in Containers, HandleRelease(c)
       PROVE  Account'
  <2>1. UNCHANGED <<allocated, address, boot, running>>
    BY <1>15 DEF HandleRelease, ipVars
  <2>2. ASSUME NEW v \in VMs, container_id[v] = c, Recycle(v)
        PROVE  Account'
    <3>1. InPool(v)
      BY <1>2, <2>2, NullAssumption DEF VMLife, InPool
    <3>2. QED
      BY <1>1, <2>1, <2>2, <3>1, AccountFrame DEF Recycle, InPool, TypeOK
  <2>3. ASSUME NEW v \in VMs, DestroyOne(v)
        PROVE  Account'
    BY <2>1, <2>3, AccountDestroy DEF DestroyOne
  <2>4. CASE UNCHANGED <<status, container_id, warm_queue, recycleVars, reaper>>
    BY <2>1, <2>4, AccountFrame DEF InPool
  <2>5. QED
    BY <1>15, <2>2, <2>3, <2>4 DEF HandleRelease
<1>16. ASSUME NEW n, SpawnWarm(n)
       PROVE  Account'
  <2>1. /\ UNCHANGED <<allocated, address, running, reaper, status>>
        /\ \A v \in VMs : boot'[v] = boot[v] \/ (boot[v] = "unborn" /\ boot'[v] = "leasing")
    <3>1. PICK S \in SUBSET {v \in VMs : boot[v] = "unborn"} :
            boot' = [v \in VMs |-> IF v \in S THEN "leasing" ELSE boot[v]]
      BY <1>16 DEF SpawnWarm
    <3>2. \A v \in VMs : boot'[v] = boot[v] \/ (boot[v] = "unborn" /\ boot'[v] = "leasing")
      BY <3>1
    <3>3. UNCHANGED <<allocated, address, running, reaper, status>>
      BY <1>16 DEF SpawnWarm, ipVars, slotVars
    <3>4. QED
      BY <3>2, <3>3
  <2>2. ASSUME NEW v \in VMs PROVE (Owns(v)' <=> Owns(v)) /\ Traced(v)'
    BY <1>2, <2>1 DEF Owns, Booting, InPool, Traced
  <2>3. AddressAccounting'
    BY <2>1, <2>2, OwnersSame DEF Account
  <2>4. QED
    BY <2>2, <2>3 DEF Account, Traced
<1>17. CASE HealthCheck
  BY <1>17, AccountDestroy DEF HealthCheck, Sweep, ipVars
<1>18. ASSUME NEW v \in VMs, VMStep(v)
       PROVE  Account'
  BY <1>5, <1>6, <1>7, <1>8, <1>9, <1>10, <1>11, <1>18 DEF VMStep
<1>19. ASSUME NEW c \in Containers, RunStep(c)
       PROVE  Account'
  BY <1>12, <1>13, <1>14, <1>15, <1>19 DEF RunStep, HandleAcquire
<1>20. QED
  BY <1>4, <1>16, <1>17, <1>18, <1>19 DEF Next, WarmForImage, InitialWarmup, CheckWarmPool

LEMMA AccountInvariant == Spec => [](Base /\ Life /\ Account)
<1>1. Base /\ Life /\ Account /\ [Next]_vars => Account'
  BY AccountStep
<1>2. QED
  BY <1>1, AccountInit, LifeInvariant, PTL DEF Spec

(* For every instance: each leased address has exactly one boot task, slot *)
(* or destroy process that answers for it, or belongs to a boot that       *)
(* crashed (vm_pool.ex:505-542, 648-662).                                  *)
THEOREM AddressesAccounted == Spec => []AddressAccounting
<1>1. Account => AddressAccounting
  BY DEF Account
<1>2. QED
  BY <1>1, AccountInvariant, PTL

(* For every instance: no two guests are up on one address.                *)
THEOREM GuestsApart == Spec => []NoSharedAddress
<1>1. ASSUME Account, NEW u \in running, NEW v \in running, TypeOK, address[u] = address[v]
      PROVE  u = v
  <2>1. u \in VMs /\ v \in VMs
    BY <1>1 DEF TypeOK
  <2>2. Owns(u) /\ Owns(v)
    BY <1>1, <2>1 DEF Account, Owns, Booting
  <2>3. QED
    BY <1>1, <2>1, <2>2 DEF Account, AddressAccounting
<1>2. Base /\ Life /\ Account => NoSharedAddress
  BY <1>1 DEF Base, NoSharedAddress
<1>3. QED
  BY <1>2, AccountInvariant, PTL

-----------------------------------------------------------------------------
(* The lease of a run.                                                     *)
LEMMA HoldsInit == Init => Holds
  BY DEF Init, Holds, InUse

LEMMA HoldsFrame ==
  ASSUME Holds, UNCHANGED <<pc, lease>>,
         \A v \in VMs : status[v] = "assigned" =>
           status'[v] = "assigned" /\ container_id'[v] = container_id[v]
  PROVE  Holds'
  BY DEF Holds, InUse

LEMMA HoldsDestroy ==
  ASSUME Holds, UNCHANGED <<pc, lease>>, NEW D, Destroy(D),
         \A v \in VMs : v \in D => status[v] # "assigned"
  PROVE  Holds'
<1>1. \A v \in VMs : status[v] = "assigned" =>
        status'[v] = "assigned" /\ container_id'[v] = container_id[v]
  BY DEF Destroy
<1>2. QED
  BY <1>1, HoldsFrame

LEMMA HoldsStep ==
  ASSUME Base, Life, Holds, [Next]_vars, Destroyable = {}
  PROVE  Holds'
<1>1. TypeOK
  BY DEF Base
<1>2. /\ \A v \in VMs : VMLife(v)
      /\ \A c \in Containers : RunLife(c)
      /\ Queued = {v \in VMs : status[v] = "warm"}
  BY DEF Life, QueueSound
<1>3. CASE UNCHANGED vars
  BY <1>3, HoldsFrame DEF vars, slotVars, userVars
<1>4. ASSUME NEW v \in VMs, BootStep(v)
      PROVE  Holds'
  BY <1>4, HoldsFrame DEF BootStep, BootLease, BootStart, BootStartFails, BootProbe,
     BootStop, BootFree, BootHandover, BootCrash, BootFrame, slotVars, userVars
<1>5. ASSUME NEW v \in VMs, VmBooted(v)
      PROVE  Holds'
  <2>1. status[v] = "absent"
    BY <1>2, <1>5 DEF VmBooted, VMLife
  <2>2. /\ UNCHANGED <<container_id, pc, lease>>
        /\ \A u \in VMs \ {v} : status'[u] = status[u]
    BY <1>1, <1>5 DEF VmBooted, userVars, TypeOK
  <2>3. QED
    BY <2>1, <2>2, HoldsFrame
<1>6. ASSUME NEW v \in VMs,
             GuestDies(v) \/ RecycleEnds(v) \/ ReaperStop(v) \/ ReaperRelease(v)
      PROVE  Holds'
  BY <1>6, HoldsFrame DEF GuestDies, RecycleEnds, ReaperStop, ReaperRelease, slotVars, userVars
<1>7. ASSUME NEW v \in VMs, VmRecycled(v)
      PROVE  Holds'
  <2>1. UNCHANGED <<pc, lease>>
    BY <1>7 DEF VmRecycled, userVars
  <2>2. recycled[v] > 0 \/ recycle_failed[v] > 0
    BY <1>7 DEF VmRecycled, RecycledOk, RecycledError
  <2>3. Recycles(v) # 0
    BY <1>1, <2>2 DEF Recycles, TypeOK
  <2>4. status[v] # "assigned"
    BY <1>2, <2>3 DEF VMLife
  <2>5. CASE RecycledOk(v)
    <3>1. \A u \in VMs \ {v} : status'[u] = status[u] /\ container_id'[u] = container_id[u]
      BY <1>1, <2>5 DEF RecycledOk, TypeOK
    <3>2. QED
      BY <2>1, <2>4, <3>1, HoldsFrame
  <2>6. CASE RecycledError(v)
    BY <2>1, <2>4, <2>6, HoldsDestroy DEF RecycledError, DestroyOne
  <2>7. QED
    BY <1>7, <2>5, <2>6 DEF VmRecycled
<1>8. ASSUME NEW c \in Containers,
             RunAcquire(c) \/ RunTimeout(c) \/ RunExec(c) \/ RunRelease(c) \/ RunFail(c)
      PROVE  Holds'
  <2>1. /\ UNCHANGED <<status, container_id>>
        /\ \A d \in Containers \ {c} : pc'[d] = pc[d] /\ lease'[d] = lease[d]
        /\ InUse(c)' => InUse(c) /\ lease'[c] = lease[c]
    BY <1>1, <1>8 DEF RunAcquire, RunTimeout, RunExec, RunRelease, RunFail, RunFrame,
                      slotVars, InUse, TypeOK
  <2>2. QED
    BY <2>1 DEF Holds, InUse
<1>9. ASSUME NEW c \in Containers, WarmHit(c)
      PROVE  Holds'
  <2> DEFINE w == Head(warm_queue)
  <2>1. /\ warm_queue # <<>> /\ c \in acquires /\ Reply(c, "holding", w)
        /\ status' = [status EXCEPT ![w] = "assigned"]
        /\ container_id' = [container_id EXCEPT ![w] = c]
    BY <1>9 DEF WarmHit, Acquires
  <2>2. w \in VMs /\ status[w] = "warm"
    BY <1>1, <2>1, QueueHead DEF Life
  <2> HIDE DEF w
  <2>3. \A v \in VMs :
          /\ status'[v] = IF v = w THEN "assigned" ELSE status[v]
          /\ container_id'[v] = IF v = w THEN c ELSE container_id[v]
    BY <1>1, <2>1 DEF TypeOK
  <2>4. \A d \in Containers \ {c} : pc'[d] = pc[d] /\ lease'[d] = lease[d]
    BY <1>1, <2>1 DEF Reply, TypeOK
  <2>5. InUse(c)' => lease'[c] = w
    BY <1>1, <1>2, <2>1 DEF Reply, RunLife, InUse, TypeOK
  <2>6. ASSUME NEW d \in Containers, InUse(d)'
        PROVE  /\ lease'[d] \in VMs
               /\ status'[lease'[d]] = "assigned" /\ container_id'[lease'[d]] = d
    <3>1. CASE d = c
      BY <2>2, <2>3, <2>5, <2>6, <3>1
    <3>2. CASE d # c
      <4>1. lease'[d] = lease[d] /\ InUse(d)
        BY <2>4, <2>6, <3>2 DEF InUse
      <4>2. /\ lease[d] \in VMs /\ status[lease[d]] = "assigned"
            /\ container_id[lease[d]] = d
        BY <4>1 DEF Holds
      <4>3. QED
        BY <2>2, <2>3, <4>1, <4>2
    <3>3. QED
      BY <3>1, <3>2
  <2>7. QED
    BY <2>6 DEF Holds
<1>10. ASSUME NEW c \in Containers, Unhealthy(c) \/ ColdMiss(c)
       PROVE  Holds'
  <2>1. CASE Unhealthy(c)
    <3>1. /\ warm_queue # <<>> /\ UNCHANGED <<pc, lease>>
          /\ Destroy({Head(warm_queue)})
      BY <2>1 DEF Unhealthy, DestroyOne
    <3>2. status[Head(warm_queue)] # "assigned"
      BY <1>1, <3>1, QueueHead DEF Life
    <3>3. QED
      BY <3>1, <3>2, HoldsDestroy
  <2>2. CASE ColdMiss(c)
    <3>1. /\ \A d \in Containers \ {c} : pc'[d] = pc[d] /\ lease'[d] = lease[d]
          /\ ~InUse(c)' /\ UNCHANGED <<status, container_id>>
      BY <1>1, <1>2, <2>2 DEF ColdMiss, Acquires, Reply, RunLife, InUse, TypeOK
    <3>2. QED
      BY <3>1 DEF Holds, InUse
  <2>3. QED
    BY <1>10, <2>1, <2>2
<1>11. ASSUME NEW c \in Containers, HandleRelease(c)
       PROVE  Holds'
  <2>1. UNCHANGED <<pc, lease>> /\ releases[c] > 0
    BY <1>11 DEF HandleRelease
  <2>2. pc[c] = "done"
    BY <1>1, <1>2, <2>1 DEF RunLife, TypeOK
  <2>3. ASSUME NEW v \in VMs, container_id[v] = c,
               \A u \in VMs \ {v} : status'[u] = status[u] /\ container_id'[u] = container_id[u]
        PROVE  Holds'
    <3>1. ASSUME NEW d \in Containers, InUse(d) PROVE lease[d] # v
      BY <2>2, <2>3, <3>1 DEF Holds, InUse
    <3>2. QED
      BY <2>1, <2>3, <3>1 DEF Holds, InUse
  <2>4. CASE UNCHANGED <<status, container_id, warm_queue, recycleVars, reaper>>
    BY <2>1, <2>4, HoldsFrame
  <2>5. ASSUME NEW v \in VMs, container_id[v] = c, Recycle(v) \/ DestroyOne(v)
        PROVE  Holds'
    <3>1. \A u \in VMs \ {v} : status'[u] = status[u] /\ container_id'[u] = container_id[u]
      BY <1>1, <2>5 DEF Recycle, DestroyOne, Destroy, TypeOK
    <3>2. QED
      BY <2>3, <2>5, <3>1
  <2>6. QED
    BY <1>11, <2>4, <2>5 DEF HandleRelease
<1>12. ASSUME NEW n, SpawnWarm(n)
       PROVE  Holds'
  BY <1>12, HoldsFrame DEF SpawnWarm, slotVars, userVars
<1>13. CASE HealthCheck
  <2>1. PICK silent \in SUBSET Queued : Sweep(silent)
    BY <1>13 DEF HealthCheck
  <2> DEFINE dead == {v \in silent : TooMany(FailuresAfter(v, silent))}
  <2>2. Destroy(dead) /\ dead \subseteq Queued
    BY <2>1 DEF Sweep
  <2> HIDE DEF dead
  <2>3. QED
    BY <1>2, <1>13, <2>2, HoldsDestroy DEF HealthCheck, userVars
<1>14. ASSUME NEW v \in VMs, VMStep(v)
       PROVE  Holds'
  BY <1>4, <1>5, <1>6, <1>7, <1>14 DEF VMStep, DestroyCast
<1>15. ASSUME NEW c \in Containers, RunStep(c)
       PROVE  Holds'
  BY <1>8, <1>9, <1>10, <1>11, <1>15 DEF RunStep, HandleAcquire
<1>16. QED
  BY <1>3, <1>12, <1>13, <1>14, <1>15 DEF Next, WarmForImage, InitialWarmup, CheckWarmPool

(* For every instance without operator destroys: from the reply to acquire *)
(* to its end, a run has its VM for itself.                                *)
THEOREM LeaseIsExclusive ==
  ASSUME Destroyable = {}
  PROVE  Spec => []LeaseExclusive
<1>1. Base /\ Life /\ Holds /\ [Next]_vars => Holds'
  BY HoldsStep
<1>2. ASSUME Base, Life, Account, Holds PROVE LeaseExclusive
  <2> SUFFICES ASSUME NEW c \in Containers, InUse(c)
               PROVE  LET v == lease[c] IN
                      /\ status[v] = "assigned" /\ container_id[v] = c
                      /\ reaper[v] = "none" /\ recycling[v] = 0
                      /\ \A u \in running : address[u] = address[v] => u = v
    BY DEF LeaseExclusive
  <2> DEFINE v == lease[c]
  <2>1. v \in VMs /\ status[v] = "assigned" /\ container_id[v] = c
    BY <1>2 DEF Holds
  <2>2. reaper[v] = "none" /\ Recycles(v) = 0 /\ Owns(v)
    BY <1>2, <2>1 DEF Life, VMLife, InPool, Owns
  <2>3. recycling[v] = 0
    BY <1>2, <2>1, <2>2 DEF Base, TypeOK, Recycles
  <2>4. ASSUME NEW u \in running, address[u] = address[v] PROVE u = v
    <3>1. u \in VMs
      BY <1>2 DEF Base, TypeOK
    <3>2. Owns(u)
      BY <1>2, <3>1 DEF Account, Owns, Booting
    <3>3. QED
      BY <1>2, <2>1, <2>2, <2>4, <3>1, <3>2 DEF Account, AddressAccounting
  <2>5. QED
    BY <2>1, <2>2, <2>3, <2>4
<1>3. QED
  BY <1>1, <1>2, HoldsInit, AccountInvariant, PTL DEF Spec

-----------------------------------------------------------------------------
(* How many VMs there are.  Ids are strings of a fixed length, so the set  *)
(* of those that may be drawn is finite.                                   *)
Unsettled == {v \in VMs : boot[v] \notin {"unborn", "reported"}}

PoolVMs == {v \in VMs : InPool(v)}

(* The bound, as long as the first warmup is to come and after it.         *)
Total ==
  /\ warmup => total_count <= warmed
  /\ TotalBound

SpawnsWarm ==
  InitialWarmup \/ CheckWarmPool \/ \E n \in 1..WarmBudget : WarmForImage(n)

LEMMA FinitePart ==
  ASSUME IsFiniteSet(VMs), NEW S \in SUBSET VMs
  PROVE  IsFiniteSet(S) /\ Cardinality(S) \in Nat
  BY FS_Subset, FS_CardinalityType

LEMMA FewerOf ==
  ASSUME IsFiniteSet(VMs), NEW S \in SUBSET VMs, NEW T \in SUBSET S
  PROVE  Cardinality(T) <= Cardinality(S)
  BY FinitePart, FS_Subset

LEMMA SpawnCounts ==
  ASSUME IsFiniteSet(VMs), Base, PendingAccounting, NEW n, SpawnWarm(n)
  PROVE  PendingAccounting' /\ n \in Nat /\ pending_boots' = pending_boots + n
<1>1. PICK S \in SUBSET {v \in VMs : boot[v] = "unborn"} :
        /\ Cardinality(S) = n
        /\ boot' = [v \in VMs |-> IF v \in S THEN "leasing" ELSE boot[v]]
  BY DEF SpawnWarm
<1>2. Unsettled' = Unsettled \union S /\ Unsettled \intersect S = {}
  BY <1>1 DEF Unsettled
<1>3. /\ IsFiniteSet(S) /\ IsFiniteSet(Unsettled)
      /\ n \in Nat /\ Cardinality(Unsettled) \in Nat
  BY <1>1, FinitePart DEF Unsettled
<1>4. Cardinality(Unsettled') = Cardinality(Unsettled) + n
  <2>1. Cardinality(Unsettled \union S)
          = Cardinality(Unsettled) + Cardinality(S) - Cardinality(Unsettled \intersect S)
    BY <1>3, FS_Union
  <2>2. Cardinality(Unsettled \intersect S) = 0
    BY <1>2, FS_EmptySet
  <2> QED
    BY <1>1, <1>2, <1>3, <2>1, <2>2
<1>5. pending_boots' = pending_boots + n
  BY DEF SpawnWarm
<1> QED
  BY <1>3, <1>4, <1>5 DEF PendingAccounting, Unsettled

LEMMA ReportCounts ==
  ASSUME IsFiniteSet(VMs), Base, PendingAccounting, NEW v \in VMs, VmBooted(v)
  PROVE  PendingAccounting' /\ pending_boots' = pending_boots - 1
<1>1. Unsettled' = Unsettled \ {v} /\ v \in Unsettled
  BY DEF VmBooted, Unsettled, Base, TypeOK
<1>2. IsFiniteSet(Unsettled) /\ Cardinality(Unsettled) \in Nat
  BY FinitePart DEF Unsettled
<1>3. Cardinality(Unsettled') = Cardinality(Unsettled) - 1 /\ Cardinality(Unsettled) # 0
  BY <1>1, <1>2, FS_RemoveElement, FS_EmptySet
<1>4. pending_boots' = pending_boots - 1
  BY <1>3 DEF VmBooted, OneBootLess, PendingAccounting, Unsettled
<1> QED
  BY <1>3, <1>4 DEF PendingAccounting, Unsettled

LEMMA OthersCount ==
  ASSUME Base, PendingAccounting, [Next]_vars,
         ~SpawnsWarm, \A v \in VMs : ~VmBooted(v)
  PROVE  PendingAccounting' /\ pending_boots' = pending_boots
<1>1. Unsettled' = Unsettled /\ pending_boots' = pending_boots
  <2>1. ASSUME NEW v \in VMs, BootStep(v)
        PROVE  Unsettled' = Unsettled /\ pending_boots' = pending_boots
    BY <2>1 DEF BootStep, BootLease, BootStart, BootStartFails, BootProbe, BootStop, BootFree,
       BootHandover, BootCrash, BootFrame, poolVars, Unsettled, Base, TypeOK
  <2>2. ASSUME NEW v \in VMs,
               \/ GuestDies(v) \/ RecycleEnds(v) \/ VmRecycled(v) \/ DestroyCast(v)
               \/ ReaperStop(v) \/ ReaperRelease(v)
        PROVE  UNCHANGED <<boot, pending_boots>>
    BY <2>2 DEF GuestDies, RecycleEnds, VmRecycled, DestroyCast, ReaperStop, ReaperRelease, poolVars
  <2>3. ASSUME NEW c \in Containers, RunStep(c)
        PROVE  UNCHANGED <<boot, pending_boots>>
    BY <2>3 DEF RunStep, RunAcquire, RunTimeout, RunExec, RunRelease, RunFail, RunFrame,
       HandleAcquire, WarmHit, Unhealthy, ColdMiss, AcquireFrame, HandleRelease, poolVars
  <2>4. ASSUME HealthCheck \/ UNCHANGED vars
        PROVE  UNCHANGED <<boot, pending_boots>>
    BY <2>4 DEF HealthCheck, vars, taskVars, poolVars
  <2>5. ASSUME UNCHANGED <<boot, pending_boots>>
        PROVE  Unsettled' = Unsettled /\ pending_boots' = pending_boots
    BY <2>5 DEF Unsettled
  <2> QED
    BY <2>1, <2>2, <2>3, <2>4, <2>5 DEF Next, VMStep, SpawnsWarm
<1> QED
  BY <1>1 DEF PendingAccounting, Unsettled

LEMMA PendingInit == Init => PendingAccounting
<1> SUFFICES ASSUME Init
             PROVE  PendingAccounting
  OBVIOUS
<1>1. Unsettled = {}
  BY DEF Init, Unsettled
<1> QED
  BY <1>1, FS_EmptySet DEF Init, PendingAccounting, Unsettled

LEMMA PendingStep ==
  ASSUME IsFiniteSet(VMs), Base, PendingAccounting, [Next]_vars
  PROVE  PendingAccounting'
  BY SpawnCounts, ReportCounts, OthersCount
  DEF SpawnsWarm, WarmForImage, InitialWarmup, CheckWarmPool

(* pending_boots is the number of boots whose report the pool has not      *)
(* handled, those included whose task died without one (vm_pool.ex:256,    *)
(* 486-500): it never counts a report that it has not counted the boot of. *)
THEOREM PendingCounted ==
  ASSUME IsFiniteSet(VMs)
  PROVE  Spec => []PendingAccounting
<1>1. Base /\ PendingAccounting /\ [Next]_vars => PendingAccounting'
  BY PendingStep
<1> QED
  BY <1>1, PendingInit, BaseInvariant, PTL DEF Spec

-----------------------------------------------------------------------------
(* Only the report of a boot brings a VM into the pool.                    *)
LEMMA PoolShrinks ==
  ASSUME Base, Life, [Next]_vars, \A v \in VMs : ~VmBooted(v)
  PROVE  PoolVMs' \subseteq PoolVMs
<1> SUFFICES ASSUME NEW u \in VMs, status[u] = "absent"
             PROVE  status'[u] = "absent"
  BY DEF PoolVMs, InPool
<1>0. status \in [VMs -> {"absent", "warm", "assigned", "recycling"}]
      /\ container_id[u] = NoContainer /\ u \notin Queued
  BY DEF Base, TypeOK, Life, VMLife, QueueSound
<1>1. ASSUME NEW D, Destroy(D)
      PROVE  status'[u] = "absent"
  BY <1>1 DEF Destroy
<1>2. ASSUME UNCHANGED status
      PROVE  status'[u] = "absent"
  BY <1>2
<1>3. ASSUME NEW v \in VMs, BootStep(v)
      PROVE  UNCHANGED status
  BY <1>3 DEF BootStep, BootLease, BootStart, BootStartFails, BootProbe, BootStop, BootFree,
     BootHandover, BootCrash, BootFrame, slotVars
<1>4. ASSUME NEW v \in VMs, GuestDies(v) \/ RecycleEnds(v) \/ ReaperStop(v) \/ ReaperRelease(v)
      PROVE  UNCHANGED status
  BY <1>4 DEF GuestDies, RecycleEnds, ReaperStop, ReaperRelease, slotVars
<1>5. ASSUME NEW v \in VMs, DestroyCast(v) \/ VmRecycled(v)
      PROVE  status'[u] = "absent"
  <2>1. CASE RecycledOk(v)
    BY <1>0, <2>1 DEF RecycledOk, InPool
  <2>2. CASE DestroyOne(v)
    BY <1>1, <2>2 DEF DestroyOne
  <2> QED
    BY <1>5, <2>1, <2>2 DEF DestroyCast, VmRecycled, RecycledError
<1>6. ASSUME NEW c \in Containers, WarmHit(c)
      PROVE  status'[u] = "absent"
  <2>1. status' = [status EXCEPT ![Head(warm_queue)] = "assigned"] /\ Head(warm_queue) # u
    BY <1>6, QueueHead DEF WarmHit, Base, Life
  <2> QED
    BY <1>0, <2>1
<1>7. ASSUME NEW c \in Containers, Unhealthy(c) \/ ColdMiss(c)
      PROVE  status'[u] = "absent"
  BY <1>1, <1>7 DEF Unhealthy, DestroyOne, ColdMiss
<1>8. ASSUME NEW c \in Containers, HandleRelease(c)
      PROVE  status'[u] = "absent"
  <2>1. ASSUME NEW v \in VMs, container_id[v] = c, Recycle(v)
        PROVE  status'[u] = "absent"
    BY <1>0, <2>1, NullAssumption DEF Recycle
  <2> QED
    BY <1>1, <1>8, <2>1 DEF HandleRelease, DestroyOne
<1>9. ASSUME NEW c \in Containers,
             RunAcquire(c) \/ RunTimeout(c) \/ RunExec(c) \/ RunRelease(c) \/ RunFail(c)
      PROVE  UNCHANGED status
  BY <1>9 DEF RunAcquire, RunTimeout, RunExec, RunRelease, RunFail, RunFrame, slotVars
<1>10. ASSUME NEW n, SpawnWarm(n)
       PROVE  UNCHANGED status
  BY <1>10 DEF SpawnWarm, slotVars
<1>11. CASE HealthCheck
  BY <1>1, <1>11 DEF HealthCheck, Sweep
<1>12. CASE UNCHANGED vars
  BY <1>12 DEF vars, slotVars
<1> QED
  BY <1>2, <1>3, <1>4, <1>5, <1>6, <1>7, <1>8, <1>9, <1>10, <1>11, <1>12
  DEF Next, VMStep, RunStep, HandleAcquire, WarmForImage, InitialWarmup, CheckWarmPool

LEMMA TotalStep ==
  ASSUME IsFiniteSet(VMs), Base, Life, PendingAccounting, Total, [Next]_vars
  PROVE  Total'
<1> DEFINE Room == IF MaxTotal > 0 THEN MaxTotal - 1 ELSE 0
<1>1. /\ pending_boots \in Nat /\ warmed \in Nat /\ Cardinality(PoolVMs) \in Nat /\ Cardinality(PoolVMs') \in Nat
      /\ warmup \in BOOLEAN /\ MinWarm \in Nat /\ MaxTotal \in Nat /\ Len(warm_queue) \in Nat
      /\ total_count = Cardinality(PoolVMs) + pending_boots
      /\ total_count' = Cardinality(PoolVMs') + pending_boots'
      /\ Room \in Nat /\ (warmup => total_count <= warmed)
      /\ total_count <= MinWarm + warmed + Room
  BY FinitePart, ConfigAssumption DEF Base, TypeOK, total_count, PoolVMs, Total, TotalBound
<1> HIDE DEF Room
<1> SUFFICES /\ warmup' => total_count' <= warmed'
             /\ total_count' <= MinWarm + warmed' + Room
  BY DEF Total, TotalBound, Room
<1>2. ASSUME NEW v \in VMs, VmBooted(v)
      PROVE  total_count' <= total_count /\ UNCHANGED <<warmup, warmed>>
  <2>1. pending_boots' = pending_boots - 1 /\ UNCHANGED <<warmup, warmed>>
    BY <1>2, ReportCounts DEF VmBooted
  <2>2. PoolVMs' \subseteq PoolVMs \union {v}
    BY <1>2 DEF VmBooted, PoolVMs, InPool, Base, TypeOK
  <2>3. Cardinality(PoolVMs') <= Cardinality(PoolVMs) + 1
    <3>1. Cardinality(PoolVMs \union {v}) <= Cardinality(PoolVMs) + 1
      <4>1. IsFiniteSet(PoolVMs)
        BY FinitePart DEF PoolVMs
      <4>2. \/ Cardinality(PoolVMs \union {v}) = Cardinality(PoolVMs)
            \/ Cardinality(PoolVMs \union {v}) = Cardinality(PoolVMs) + 1
        BY <4>1, FS_AddElement
      <4> QED
        BY <1>1, <4>2
    <3>2. Cardinality(PoolVMs') <= Cardinality(PoolVMs \union {v})
      BY <2>2, FewerOf DEF PoolVMs
    <3>3. Cardinality(PoolVMs \union {v}) \in Nat
      BY FinitePart DEF PoolVMs
    <3> QED
      BY <1>1, <3>1, <3>2, <3>3
  <2> QED
    BY <1>1, <2>1, <2>3
<1>3. ASSUME \A v \in VMs : ~VmBooted(v)
      PROVE  Cardinality(PoolVMs') <= Cardinality(PoolVMs)
  BY <1>3, PoolShrinks, FewerOf DEF PoolVMs
<1>4. ASSUME NEW n, SpawnWarm(n)
      PROVE  total_count' <= total_count + n /\ n \in Nat
  <2>1. n \in Nat /\ pending_boots' = pending_boots + n
    BY <1>4, SpawnCounts
  <2>2. PoolVMs' = PoolVMs
    BY <1>4 DEF SpawnWarm, slotVars, PoolVMs, InPool
  <2> QED
    BY <1>1, <2>1, <2>2
<1>5. CASE InitialWarmup
  <2>1. warmup /\ ~warmup' /\ SpawnWarm(MinWarm) /\ warmed' = warmed
    BY <1>5 DEF InitialWarmup
  <2>2. total_count' <= total_count + MinWarm
    BY <1>4, <2>1
  <2> QED
    BY <1>1, <2>1, <2>2
<1>6. CASE CheckWarmPool
  <2>1. /\ ~warmup /\ UNCHANGED <<warmup, warmed>> /\ SpawnWarm(Needed)
        /\ total_count < MaxTotal
    BY <1>6 DEF CheckWarmPool, HasRoom
  <2>2. total_count' <= total_count + Needed
    BY <1>4, <2>1
  <2>3. Needed <= MinWarm /\ Needed \in Int
    BY <1>1 DEF Needed
  <2>4. total_count <= Room
    BY <1>1, <2>1 DEF Room
  <2> QED
    BY <1>1, <2>1, <2>2, <2>3, <2>4
<1>7. ASSUME NEW n \in 1..WarmBudget, WarmForImage(n)
      PROVE  /\ warmup' => total_count' <= warmed'
             /\ total_count' <= MinWarm + warmed' + Room
  <2>1. warmed' = warmed + n /\ SpawnWarm(n) /\ warmup' = warmup
    BY <1>7 DEF WarmForImage
  <2>2. total_count' <= total_count + n /\ n \in Nat
    BY <1>4, <2>1
  <2> QED
    BY <1>1, <2>1, <2>2
<1>8. ASSUME ~SpawnsWarm, \A v \in VMs : ~VmBooted(v)
      PROVE  total_count' <= total_count /\ UNCHANGED <<warmup, warmed>>
  <2>1. pending_boots' = pending_boots
    BY <1>8, OthersCount
  <2>2. UNCHANGED <<warmup, warmed>>
    <3>1. ASSUME NEW v \in VMs, VMStep(v)
          PROVE  UNCHANGED <<warmup, warmed>>
      BY <1>8, <3>1 DEF VMStep, BootStep, BootLease, BootStart, BootStartFails, BootProbe,
         BootStop, BootFree, BootHandover, BootCrash, BootFrame, poolVars, GuestDies,
         RecycleEnds, VmRecycled, DestroyCast, ReaperStop, ReaperRelease
    <3>2. ASSUME NEW c \in Containers, RunStep(c)
          PROVE  UNCHANGED <<warmup, warmed>>
      BY <3>2 DEF RunStep, RunAcquire, RunTimeout, RunExec, RunRelease, RunFail, RunFrame,
         HandleAcquire, WarmHit, Unhealthy, ColdMiss, AcquireFrame, HandleRelease, poolVars
    <3>3. ASSUME HealthCheck \/ UNCHANGED vars
          PROVE  UNCHANGED <<warmup, warmed>>
      BY <3>3 DEF HealthCheck, vars, poolVars
    <3> QED
      BY <1>8, <3>1, <3>2, <3>3 DEF Next, SpawnsWarm
  <2> QED
    BY <1>1, <1>3, <1>8, <2>1, <2>2
<1>9. ASSUME total_count' <= total_count, UNCHANGED <<warmup, warmed>>
      PROVE  /\ warmup' => total_count' <= warmed'
             /\ total_count' <= MinWarm + warmed' + Room
  BY <1>1, <1>9
<1> QED
  BY <1>2, <1>5, <1>6, <1>7, <1>8, <1>9 DEF SpawnsWarm

(* The pool and the boots under way never exceed what was asked for by     *)
(* warm_for_image, one refill of min_warm and one less than max_total      *)
(* (vm_pool.ex:219-245): no interleaving of boots, reports, recycles and   *)
(* destroys with the two timers adds to it.                                *)
THEOREM TotalBounded ==
  ASSUME IsFiniteSet(VMs)
  PROVE  Spec => []TotalBound
<1>1. Init => Total
  <2> SUFFICES ASSUME Init
               PROVE  Total
    OBVIOUS
  <2>1. {v \in VMs : InPool(v)} = {}
    BY DEF Init, InPool
  <2>2. total_count = 0
    <3>1. pending_boots = 0
      BY DEF Init
    <3> QED
      BY <2>1, <3>1, FS_EmptySet DEF total_count
  <2> QED
    BY <2>2, ConfigAssumption DEF Init, Total, TotalBound
<1>2. Base /\ Life /\ PendingAccounting /\ Total /\ [Next]_vars => Total'
  BY TotalStep
<1>3. Spec => []PendingAccounting
  BY PendingCounted
<1>4. Total => TotalBound
  BY DEF Total
<1> QED
  BY <1>1, <1>2, <1>3, <1>4, LifeInvariant, PTL DEF Spec

-----------------------------------------------------------------------------
(* The life of a slot.                                                     *)
LEMMA SlotsSame ==
  ASSUME UNCHANGED <<status, container_id, Using>>,
         \A v \in VMs : ~InPool(v) => (reaper'[v] = "none" <=> reaper[v] = "none")
  PROVE  UNCHANGED <<Slot, container_id, Using>>
BY DEF Slot, InPool

LEMMA SlotsLose ==
  ASSUME Base, Life, NEW D \in SUBSET VMs, Destroy(D), UNCHANGED Using,
         \A v \in D : InPool(v) /\ container_id[v] \in Using => v \in Destroyable
  PROVE  Slots!Next
<1> DEFINE E == {v \in D : InPool(v)}
<1>1. TypeOK /\ (\A v \in VMs : VMLife(v))
  BY DEF Base, Life
<1>2. \A v \in E : /\ Slot[v] \notin {"new", "gone"}
                   /\ container_id[v] \in Using => v \in Destroyable
  BY <1>1 DEF Slot, InPool, TypeOK
<1>3. Slot' = [v \in VMs |-> IF v \in E THEN "gone" ELSE Slot[v]]
  <2>1. ASSUME NEW v \in VMs
        PROVE  /\ v \in E => status'[v] = "absent" /\ reaper'[v] = "stopping"
               /\ v \notin E => status'[v] = status[v] /\ reaper'[v] = reaper[v]
    BY <1>1 DEF Destroy, Reap, InPool, TypeOK
  <2> HIDE DEF E
  <2> QED
    BY <2>1 DEF Slot, InPool
<1>4. container_id' = [v \in VMs |-> IF v \in E THEN NoContainer ELSE container_id[v]]
  <2>1. ASSUME NEW v \in VMs, ~InPool(v)
        PROVE  container_id[v] = NoContainer
    BY <1>1, <2>1 DEF VMLife, InPool
  <2> QED
    BY <1>1, <2>1 DEF Destroy, TypeOK
<1> HIDE DEF E
<1>5. Slots!Lose(E)
  BY <1>2, <1>3, <1>4 DEF Slots!Lose
<1> QED
  BY <1>5 DEF Slots!Next, E

LEMMA SlotsAssign ==
  ASSUME Base, Life, NEW c \in Containers, WarmHit(c)
  PROVE  Slots!Next
<1> DEFINE v == Head(warm_queue)
<1>1. TypeOK /\ QueueSound /\ RunLife(c) /\ VMLife(v)
  <2>1. v \in VMs
    BY QueueHead DEF WarmHit, Base, Life
  <2> QED
    BY <2>1 DEF Base, Life
<1>2. /\ warm_queue # <<>> /\ c \in acquires /\ Reply(c, "holding", v)
      /\ status' = [status EXCEPT ![v] = "assigned"]
      /\ container_id' = [container_id EXCEPT ![v] = c] /\ UNCHANGED reaper
  BY DEF WarmHit, Acquires
<1>3. v \in VMs /\ status[v] = "warm"
  BY <1>1, <1>2, QueueHead
<1> HIDE DEF v
<1>4. c \notin Using /\ \A u \in VMs : container_id[u] # c
  BY <1>1, <1>2 DEF RunLife, Using, InUse
<1>5. Using' \in {Using, Using \union {c}}
  BY <1>1, <1>2 DEF Reply, Using, InUse, TypeOK
<1>6. Slot[v] = "warm"
  BY <1>3 DEF Slot, InPool
<1>7. Slot' = [Slot EXCEPT ![v] = "assigned"]
  BY <1>1, <1>2, <1>3 DEF Slot, InPool, TypeOK
<1>8. Slots!Assign(v, c)
  BY <1>2, <1>4, <1>5, <1>6, <1>7 DEF Slots!Assign
<1> QED
  BY <1>3, <1>8 DEF Slots!Next

LEMMA SlotsReturn ==
  ASSUME Base, Life, NEW c \in Containers, HandleRelease(c)
  PROVE  Slots!Next \/ UNCHANGED <<Slot, container_id, Using>>
<1>1. TypeOK /\ RunLife(c) /\ (\A v \in VMs : VMLife(v))
  BY DEF Base, Life
<1>2. pc[c] = "done" /\ c \notin Using /\ Using' = Using
  BY <1>1 DEF HandleRelease, RunLife, Using, InUse, TypeOK
<1>3. ASSUME NEW v \in VMs, container_id[v] = c, Recycle(v)
      PROVE  Slots!Next
  <2>1. status[v] = "assigned"
    <3>1. status[v] \in {"assigned", "recycling"}
      BY <1>1, <1>3, NullAssumption DEF VMLife
    <3>2. releases[c] # 0
      BY DEF HandleRelease
    <3> QED
      BY <1>1, <1>3, <3>1, <3>2 DEF VMLife
  <2>2. Slot[v] = "assigned"
    BY <2>1 DEF Slot, InPool
  <2>3. Slot' = [Slot EXCEPT ![v] = "recycling"]
    BY <1>1, <1>3, <2>1 DEF Recycle, Slot, InPool, TypeOK
  <2>4. Slots!Return(v)
    BY <1>2, <1>3, <2>2, <2>3 DEF Slots!Return, Recycle
  <2> QED
    BY <2>4 DEF Slots!Next
<1>4. ASSUME NEW v \in VMs, container_id[v] = c, DestroyOne(v)
      PROVE  Slots!Next
  BY <1>2, <1>4, SlotsLose DEF DestroyOne
<1>5. CASE UNCHANGED <<status, container_id, reaper>>
  BY <1>2, <1>5, SlotsSame
<1> QED
  BY <1>3, <1>4, <1>5 DEF HandleRelease

LEMMA SlotsRenew ==
  ASSUME Base, Life, NEW v \in VMs, VmRecycled(v)
  PROVE  Slots!Next \/ UNCHANGED <<Slot, container_id, Using>>
<1>1. TypeOK /\ VMLife(v)
  BY DEF Base, Life
<1>2. Using' = Using
  BY DEF VmRecycled, userVars, Using, InUse
<1>3. InPool(v) => status[v] = "recycling"
  BY <1>1 DEF VmRecycled, RecycledOk, RecycledError, VMLife, Recycles, InPool, TypeOK
<1>4. CASE RecycledOk(v) /\ InPool(v)
  <2>1. Slot[v] = "recycling"
    BY <1>3, <1>4 DEF Slot
  <2>2. Slot' = [Slot EXCEPT ![v] = "warm"]
    BY <1>1, <1>4 DEF RecycledOk, Slot, InPool, TypeOK
  <2>3. Slots!Renew(v)
    BY <1>2, <1>4, <2>1, <2>2 DEF Slots!Renew, RecycledOk
  <2> QED
    BY <2>3 DEF Slots!Next
<1>5. CASE RecycledOk(v) /\ ~InPool(v)
  BY <1>2, <1>5, SlotsSame DEF RecycledOk
<1>6. CASE RecycledError(v)
  <2>1. InPool(v) => container_id[v] \notin Using
    BY <1>1, <1>3 DEF VMLife, Using, InUse
  <2> QED
    BY <1>2, <1>6, <2>1, SlotsLose DEF RecycledError, DestroyOne
<1> QED
  BY <1>4, <1>5, <1>6 DEF VmRecycled

LEMMA SlotsRun ==
  ASSUME Base, Life, NEW c \in Containers,
         RunAcquire(c) \/ RunTimeout(c) \/ RunExec(c) \/ RunRelease(c) \/ RunFail(c)
  PROVE  Slots!Next \/ UNCHANGED <<Slot, container_id, Using>>
<1>1. TypeOK
  BY DEF Base
<1>2. UNCHANGED <<status, container_id, reaper>>
  BY DEF RunAcquire, RunTimeout, RunExec, RunRelease, RunFail, RunFrame, slotVars
<1>3. Slot' = Slot
  BY <1>2 DEF Slot, InPool
<1>4. (Using' = Using) \/ (c \in Using /\ Using' = Using \ {c})
  <2>1. \A d \in Containers : d # c => (InUse(d)' <=> InUse(d))
    BY <1>1 DEF RunAcquire, RunTimeout, RunExec, RunRelease, RunFail, InUse, TypeOK
  <2>2. InUse(c)' => InUse(c)
    BY <1>1 DEF RunAcquire, RunTimeout, RunExec, RunRelease, RunFail, InUse, TypeOK
  <2>3. CASE InUse(c)' <=> InUse(c)
    <3>1. \A d \in Containers : InUse(d)' <=> InUse(d)
      BY <2>1, <2>3
    <3>2. Using' = Using
      BY <3>1, Zenon DEF Using
    <3> QED
      BY <3>2
  <2>4. CASE InUse(c) /\ ~InUse(c)'
    <3>1. \A d \in Containers : InUse(d)' <=> InUse(d) /\ d # c
      BY <2>1, <2>4
    <3> QED
      BY <2>4, <3>1, Zenon DEF Using
  <2> QED
    BY <2>2, <2>3, <2>4
<1>5. CASE c \in Using /\ Using' = Using \ {c}
  BY <1>2, <1>3, <1>5 DEF Slots!Next, Slots!End
<1> QED
  BY <1>2, <1>3, <1>4, <1>5

LEMMA SlotsInit == Init => Slots!Init
  BY DEF Init, Slots!Init, Slot, InPool, Using, InUse

LEMMA SlotsStep == Base /\ Life /\ [Next]_vars => [Slots!Next]_<<Slot, container_id, Using>>
<1> SUFFICES ASSUME Base, Life, [Next]_vars
             PROVE  Slots!Next \/ UNCHANGED <<Slot, container_id, Using>>
  OBVIOUS
<1>1. TypeOK /\ QueueSound /\ (\A v \in VMs : VMLife(v))
  BY DEF Base, Life
<1>2. CASE UNCHANGED vars
  BY <1>2, SlotsSame DEF vars, slotVars, taskVars, userVars, Using, InUse
<1>3. ASSUME NEW v \in VMs, BootStep(v) \/ GuestDies(v) \/ RecycleEnds(v)
      PROVE  UNCHANGED <<Slot, container_id, Using>>
  BY <1>3, SlotsSame
     DEF BootStep, BootLease, BootStart, BootStartFails, BootProbe, BootStop, BootFree,
         BootHandover, BootCrash, BootFrame, GuestDies, RecycleEnds, slotVars, userVars,
         Using, InUse
<1>4. ASSUME NEW v \in VMs, VmBooted(v)
      PROVE  Slots!Next \/ UNCHANGED <<Slot, container_id, Using>>
  <2>1. status[v] = "absent" /\ reaper[v] = "none" /\ Using' = Using
    BY <1>1, <1>4 DEF VmBooted, VMLife, userVars, Using, InUse
  <2>2. CASE status' = [status EXCEPT ![v] = "warm"]
    <3>1. Slot[v] = "new"
      BY <2>1 DEF Slot, InPool
    <3>2. Slot' = [Slot EXCEPT ![v] = "warm"]
      BY <1>1, <1>4, <2>2 DEF VmBooted, Slot, InPool, TypeOK
    <3>3. Slots!Offer(v)
      BY <1>4, <2>1, <3>1, <3>2 DEF Slots!Offer, VmBooted
    <3> QED
      BY <3>3 DEF Slots!Next
  <2>3. CASE UNCHANGED status
    BY <1>4, <2>1, <2>3, SlotsSame DEF VmBooted
  <2> QED
    BY <1>4, <2>2, <2>3 DEF VmBooted
<1>5. ASSUME NEW v \in VMs, ReaperStop(v) \/ ReaperRelease(v)
      PROVE  UNCHANGED <<Slot, container_id, Using>>
  <2>1. \A u \in VMs : reaper'[u] = "none" <=> reaper[u] = "none"
    BY <1>1, <1>5 DEF ReaperStop, ReaperRelease, TypeOK
  <2> QED
    BY <1>5, <2>1, SlotsSame DEF ReaperStop, ReaperRelease, slotVars, userVars, Using, InUse
<1>6. ASSUME NEW v \in VMs, DestroyCast(v)
      PROVE  Slots!Next
  <2>1. v \in Destroyable /\ Destroy({v}) /\ Using' = Using
    BY <1>6 DEF DestroyCast, DestroyOne, userVars, Using, InUse
  <2> QED
    BY <2>1, SlotsLose
<1>7. CASE HealthCheck
  <2>1. PICK silent \in SUBSET Queued : Sweep(silent)
    BY <1>7 DEF HealthCheck
  <2> DEFINE dead == {v \in silent : TooMany(FailuresAfter(v, silent))}
  <2>2. Destroy(dead) /\ dead \subseteq Queued /\ Using' = Using
    BY <1>7, <2>1 DEF HealthCheck, Sweep, userVars, Using, InUse
  <2> HIDE DEF dead
  <2>3. \A v \in dead : v \in VMs /\ container_id[v] \notin Using
    BY <1>1, <2>2, NullAssumption DEF QueueSound, VMLife, Using
  <2> QED
    BY <2>2, <2>3, SlotsLose
<1>8. ASSUME NEW c \in Containers, Unhealthy(c)
      PROVE  Slots!Next
  <2>1. /\ warm_queue # <<>> /\ Destroy({Head(warm_queue)}) /\ Using' = Using
    BY <1>8 DEF Unhealthy, DestroyOne, Using, InUse
  <2>2. Head(warm_queue) \in VMs /\ container_id[Head(warm_queue)] \notin Using
    BY <1>1, <2>1, QueueHead, NullAssumption DEF VMLife, Using
  <2> QED
    BY <2>1, <2>2, SlotsLose
<1>10. ASSUME NEW c \in Containers, ColdMiss(c)
       PROVE  UNCHANGED <<Slot, container_id, Using>>
  <2>1. Using' = Using /\ UNCHANGED <<status, container_id, reaper>>
    BY <1>1, <1>10 DEF ColdMiss, Reply, Using, InUse, TypeOK
  <2> QED
    BY <2>1, SlotsSame
<1>9. CASE \/ \E n \in 1..WarmBudget : WarmForImage(n)
           \/ InitialWarmup \/ CheckWarmPool
  BY <1>9, SlotsSame
     DEF WarmForImage, InitialWarmup, CheckWarmPool, SpawnWarm, slotVars, userVars, Using, InUse
<1> QED
  BY <1>2, <1>3, <1>4, <1>5, <1>6, <1>7, <1>8, <1>9, <1>10, SlotsAssign, SlotsReturn, SlotsRenew,
     SlotsRun
  DEF Next, VMStep, RunStep, HandleAcquire

(* For every instance, with or without operator destroys: a slot lives as  *)
(* VMSlots says.  A report, release or destroy that comes late finds the   *)
(* VM recycling, or gone, and never in the hands of another run            *)
(* (vm_pool.ex:201-216, 285-303, 318-328, 439-457).                        *)
THEOREM SlotRefinement == Spec => ImplementsSlots
  BY SlotsInit, SlotsStep, LifeInvariant, PTL DEF Spec, ImplementsSlots, Slots!Spec
=============================================================================
