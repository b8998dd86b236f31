----------------------------- MODULE NodeProofs -----------------------------
(***************************************************************************)
(* For every set of containers, every number of processes and addresses:   *)
(* the addresses, Firecracker processes and exit reports of the container  *)
(* manager beside the sweeps of System.Cleanup and restarts of the node;   *)
(* and what becomes of the containers that Session.Manager makes, beside   *)
(* clients that start, stop and destroy them.                              *)
(*                                                                         *)
(* The handlers are taken first, with no regard to who calls them, so that *)
(* the same lemmas serve the sessions.                                     *)
(***************************************************************************)
EXTENDS SystemCleanup, SessionManager, IPPoolProofs

(* The types, but for the address pool.                                    *)
NodeTypes ==
  /\ status \in [Containers -> {"absent", "created", "running", "stopped", "exited"}]
  /\ ip \in [Containers -> Addresses \union {NoAddress}]
  /\ vm_states \in [Containers -> Ports \union {NoPort}]
  /\ port_to_container \in [Ports -> Containers \union {NoContainer}]
  /\ exits \subseteq Ports \ open /\ open \subseteq alive
  /\ rootfs \subseteq Containers
  /\ alive \subseteq Ports /\ booted \subseteq alive
  /\ socket \in [Ports -> Containers \union {NoContainer}]
  /\ address \in [Ports -> Addresses \union {NoAddress}]
  /\ tap \in [Containers -> Ports \union {NoPort}]

(* Each entry has a leased address, and no other entry has it.             *)
Leases ==
  /\ \A c \in Containers : Present(c) => ip[c] \in allocated
  /\ \A c, d \in Containers : Present(c) /\ Present(d) /\ ip[c] = ip[d] => c = d

(* There is no other lease.  When no id is created twice.                  *)
NoOtherLease == \A a \in allocated : \E c \in Containers : Present(c) /\ ip[c] = a

(* The VM state of a container is that of a process spawned for it.        *)
OwnVM == \A c \in Containers : vm_states[c] # NoPort => socket[vm_states[c]] = c

(* A process belongs to an entry, though perhaps to one that was written   *)
(* over, and is on an address that is leased and that no other has.        *)
Processes ==
  /\ \A p \in alive : /\ socket[p] \in Containers /\ Present(socket[p])
                       /\ address[p] \in allocated
  /\ \A p \in alive : \A d \in Containers :
       Present(d) /\ ip[d] = address[p] => socket[p] = d
  /\ \A p, q \in alive : address[p] = address[q] => socket[p] = socket[q]

Vms == OwnVM /\ DeathReported /\ RunningIsConnected

ManagerInv == NodeTypes /\ PoolInv /\ Leases /\ Vms

Managed == ManagerInv /\ Processes

-----------------------------------------------------------------------------
LEMMA TypeParts == TypeOK <=> PoolTypeOK /\ NodeTypes
  BY DEF TypeOK, NodeTypes

LEMMA Acquired ==
  ASSUME PoolInv, NEW a, AcquireAddress(a)
  PROVE  /\ PoolInv' /\ a \in Addresses /\ a \notin allocated
         /\ allocated' = allocated \union {a}
  BY AcquirePartition DEF PoolInv, AcquireAddress, Partition

LEMMA Released ==
  ASSUME PoolInv, NEW a, ReleaseAddress(a)
  PROVE  PoolInv' /\ allocated' = allocated \ {a}
  BY ReleasePartition DEF ReleaseAddress, ipVars

LEMMA PoolUnchanged ==
  ASSUME PoolInv, UNCHANGED ipVars
  PROVE  PoolInv' /\ allocated' = allocated
  BY DEF PoolInv, PoolTypeOK, Partition, Free, ipVars

(* The handlers as far as the address pool goes.                           *)
LEMMA ServePool ==
  ASSUME PoolInv, NEW c \in Containers, Serve(c)
  PROVE  /\ PoolInv'
         /\ \/ \E a \in Addresses : CreateOk(c) /\ a \notin allocated
                 /\ allocated' = allocated \union {a} /\ ip' = [ip EXCEPT ![c] = a]
            \/ (Destroy(c) \/ DestroyRaises(c)) /\ allocated' = allocated \ {ip[c]}
            \/ ~CreateOk(c) /\ ~(Destroy(c) \/ DestroyRaises(c)) /\ UNCHANGED <<allocated, ip>>
<1>1. CASE CreateOk(c)
  <2>1. PICK a \in Addresses : AcquireAddress(a) /\ ip' = [ip EXCEPT ![c] = a]
    BY <1>1 DEF CreateOk
  <2> QED
    BY <1>1, <2>1, Acquired
<1>2. CASE Destroy(c) \/ DestroyRaises(c)
  <2>1. ReleaseAddress(ip[c])
    BY <1>2 DEF Destroy, DestroyRaises, Discard
  <2> QED
    BY <1>2, <2>1, Released
<1>3. ASSUME ~CreateOk(c), ~(Destroy(c) \/ DestroyRaises(c))
      PROVE  UNCHANGED ipVars /\ UNCHANGED ip
  BY <1>3 DEF Serve, Answered, Crashed, CreateNoRootfs, CreateNoAddress, Exhausted,
     StartOk, StartFails, StartDies, StartFrame, StopIdle, StopRunning, StopFrame,
     CreateCrash, StartCrash, DestroyCrash, tableVars
<1> QED
  BY <1>1, <1>2, <1>3, PoolUnchanged

(* Each handler takes one address, gives one back, or does neither.        *)
LEMMA ServeAddress ==
  ASSUME PoolInv, NEW c \in Containers, Serve(c), ~UNCHANGED ipVars
  PROVE  PoolNext
<1>1. CASE CreateOk(c)
  BY <1>1 DEF CreateOk, PoolNext
<1>2. CASE Destroy(c) \/ DestroyRaises(c)
  <2>1. ReleaseAddress(ip[c])
    BY <1>2 DEF Destroy, DestroyRaises, Discard
  <2>2. ip[c] \in Addresses
    BY <2>1, ReleasePartition
  <2> QED
    BY <2>1, <2>2 DEF PoolNext
<1>3. ASSUME ~CreateOk(c), ~(Destroy(c) \/ DestroyRaises(c))
      PROVE  UNCHANGED ipVars
  BY <1>3 DEF Serve, Answered, Crashed, CreateNoRootfs, CreateNoAddress, Exhausted,
     StartOk, StartFails, StartDies, StartFrame, StopIdle, StopRunning, StopFrame,
     CreateCrash, StartCrash, DestroyCrash, tableVars
<1> QED
  BY <1>1, <1>2, <1>3

-----------------------------------------------------------------------------
(* Types.                                                                  *)
LEMMA ServeTypes ==
  ASSUME NodeTypes, PoolInv, NEW c \in Containers, Serve(c)
  PROVE  NodeTypes'
<1> USE ManagerAssumption DEF NodeTypes, Present
<1>1. CASE CreateOk(c)
  <2>1. PICK a \in Addresses : ip' = [ip EXCEPT ![c] = a]
    BY <1>1 DEF CreateOk
  <2> QED
    BY <1>1, <2>1 DEF CreateOk, CreateFrame, managerVars, spawnVars
<1>2. CASE CreateNoRootfs(c)
  BY <1>2 DEF CreateNoRootfs, CreateFrame, managerVars, spawnVars, tableVars
<1>3. CASE CreateNoAddress(c)
  BY <1>3 DEF CreateNoAddress, CreateFrame, managerVars, spawnVars, tableVars
<1>4. CASE CreateCrash(c)
  BY <1>4 DEF CreateCrash, CreateFrame, Restarted, RestartedPorts, spawnVars, tableVars
<1>5. ASSUME NEW p \in Ports, StartOk(c, p)
      PROVE  NodeTypes'
  BY <1>5 DEF StartOk, MayStart, Spawn, Unused, Register, StartFrame
<1>6. ASSUME NEW p \in Ports, StartFails(c, p)
      PROVE  NodeTypes'
  BY <1>6 DEF StartFails, MayStart, Spawn, Unused, StartFrame, managerVars
<1>7. CASE StartDies(c)
  BY <1>7 DEF StartDies, StartFrame, managerVars, processVars, spawnVars
<1>8. CASE StartCrash(c)
  BY <1>8 DEF StartCrash, StartFrame, Restarted, RestartedPorts, spawnVars
<1>9. CASE StopIdle(c)
  BY <1>9 DEF StopIdle, StopFrame, processVars, spawnVars
<1>10. CASE StopRunning(c)
  <2>1. CASE RuntimeStop(c)
    BY <1>10, <2>1 DEF StopRunning, StopFrame, RuntimeStop, Die, ProcessesOf, spawnVars
  <2>2. CASE UNCHANGED <<processVars, tap>>
    BY <1>10, <2>2 DEF StopRunning, StopFrame, processVars, spawnVars
  <2> QED
    BY <1>10, <2>1, <2>2 DEF StopRunning
<1>11. CASE Destroy(c)
  BY <1>11 DEF Destroy, RuntimeCleanup, Die, ProcessesOf, Discard, managerVars, spawnVars
<1>12. CASE DestroyRaises(c)
  BY <1>12 DEF DestroyRaises, ProcessesOf, Discard, Restarted, RestartedPorts, spawnVars
<1>13. CASE DestroyCrash(c)
  BY <1>13 DEF DestroyCrash, ProcessesOf, Restarted, RestartedPorts, spawnVars, tableVars
<1> QED
  BY <1>1, <1>2, <1>3, <1>4, <1>5, <1>6, <1>7, <1>8, <1>9, <1>10, <1>11, <1>12, <1>13
  DEF Serve, Answered, Crashed

LEMMA DieTypes ==
  ASSUME NodeTypes, NEW S, Die(S, {}),
         tap' = [c \in Containers |-> IF tap[c] \in S THEN NoPort ELSE tap[c]],
         UNCHANGED <<tableVars, managerVars, spawnVars, rootfs>>
  PROVE  NodeTypes'
  BY DEF NodeTypes, Die, tableVars, managerVars, spawnVars

LEMMA PortExitTypes ==
  ASSUME NodeTypes, NEW p \in Ports, PortExit(p)
  PROVE  NodeTypes'
  BY DEF NodeTypes, PortExit, MarkExited, Present, spawnVars

-----------------------------------------------------------------------------
(* Leases.                                                                 *)
LEMMA ServePresent ==
  ASSUME NodeTypes, NEW c \in Containers, Serve(c), NEW d \in Containers, d # c
  PROVE  Present(d)' <=> Present(d)
<1> USE DEF NodeTypes, Present
<1>1. CASE Answered(c)
  BY <1>1 DEF Answered, CreateOk, CreateNoRootfs, CreateNoAddress, StartOk, StartFails,
     StartDies, StopIdle, StopRunning, Destroy, Discard, tableVars
<1>2. CASE Crashed(c)
  BY <1>2 DEF Crashed, CreateCrash, StartCrash, DestroyRaises, DestroyCrash, Discard, tableVars
<1> QED
  BY <1>1, <1>2 DEF Serve

(* What becomes of the entry itself.                                       *)
LEMMA ServeEntry ==
  ASSUME NodeTypes, NEW c \in Containers, Serve(c)
  PROVE  \/ CreateOk(c) /\ Present(c)'
         \/ (Destroy(c) \/ DestroyRaises(c)) /\ Present(c) /\ ~Present(c)'
            /\ ip' = [ip EXCEPT ![c] = NoAddress]
         \/ ~CreateOk(c) /\ ~(Destroy(c) \/ DestroyRaises(c)) /\ (Present(c)' <=> Present(c))
<1> USE DEF NodeTypes, Present
<1>1. CASE CreateOk(c)
  BY <1>1 DEF CreateOk
<1>2. CASE Destroy(c) \/ DestroyRaises(c)
  BY <1>2 DEF Destroy, DestroyRaises, Discard
<1>3. ASSUME ~CreateOk(c), ~(Destroy(c) \/ DestroyRaises(c))
      PROVE  Present(c)' <=> Present(c)
  BY <1>3 DEF Serve, Answered, Crashed, CreateNoRootfs, CreateNoAddress, StartOk, StartFails,
     StartDies, StopIdle, StopRunning, CreateCrash, StartCrash, DestroyCrash, MayStart, tableVars
<1> QED
  BY <1>1, <1>2, <1>3

LEMMA ServeLeases ==
  ASSUME NodeTypes, PoolInv, Leases, NEW c \in Containers, Serve(c)
  PROVE  Leases' /\ (Reused = {} /\ NoOtherLease => NoOtherLease')
<1> USE ServePresent DEF NodeTypes
<1>1. CASE \E a \in Addresses : CreateOk(c) /\ a \notin allocated
                 /\ allocated' = allocated \union {a} /\ ip' = [ip EXCEPT ![c] = a]
  <2>1. PICK a \in Addresses : CreateOk(c) /\ a \notin allocated
                 /\ allocated' = allocated \union {a} /\ ip' = [ip EXCEPT ![c] = a]
    BY <1>1
  <2>2. Present(c)' /\ (Reused = {} => ~Present(c))
    BY <2>1 DEF CreateOk, MayCreate, Present
  <2>3. Leases'
    BY <2>1, <2>2 DEF Leases
  <2>4. ASSUME Reused = {}, NoOtherLease
        PROVE  NoOtherLease'
    BY <2>1, <2>2, <2>4 DEF NoOtherLease
  <2> QED
    BY <2>3, <2>4
<1>2. CASE (Destroy(c) \/ DestroyRaises(c)) /\ allocated' = allocated \ {ip[c]}
  <2>1. Present(c) /\ ~Present(c)' /\ ip' = [ip EXCEPT ![c] = NoAddress]
    BY <1>2 DEF Destroy, DestroyRaises, Discard, Present
  <2>2. Leases'
    BY <1>2, <2>1 DEF Leases
  <2>3. ASSUME NoOtherLease
        PROVE  NoOtherLease'
    BY <1>2, <2>1, <2>3 DEF NoOtherLease
  <2> QED
    BY <2>2, <2>3
<1>3. CASE UNCHANGED <<allocated, ip>> /\ (Present(c)' <=> Present(c))
  BY <1>3 DEF Leases, NoOtherLease
<1> QED
  BY <1>1, <1>2, <1>3, ServePool, ServeEntry

-----------------------------------------------------------------------------
(* Processes.  A handler spawns one, or some end; destroys end all that    *)
(* their container ever had.                                               *)
LEMMA ServeAlive ==
  ASSUME NodeTypes, NEW c \in Containers, Serve(c)
  PROVE  \/ /\ alive' \subseteq alive /\ UNCHANGED <<socket, address>>
            /\ Destroy(c) \/ DestroyRaises(c) => alive' = alive \ ProcessesOf(c)
         \/ /\ \E p \in Ports : Spawn(c, p)
            /\ Present(c) /\ ~CreateOk(c) /\ ~(Destroy(c) \/ DestroyRaises(c))
            /\ UNCHANGED ip
<1> USE DEF NodeTypes, Present
<1>1. ASSUME NEW p \in Ports, StartOk(c, p) \/ StartFails(c, p)
      PROVE  Spawn(c, p) /\ Present(c) /\ UNCHANGED ip /\ rootfs' = rootfs /\ alive' # alive
  BY <1>1 DEF StartOk, StartFails, MayStart, Spawn, Unused, StartFrame
<1>2. CASE CreateOk(c) \/ CreateNoRootfs(c) \/ CreateNoAddress(c) \/ CreateCrash(c)
  BY <1>2 DEF CreateOk, CreateNoRootfs, CreateNoAddress, CreateCrash, CreateFrame, spawnVars,
     Destroy, DestroyRaises, RuntimeCleanup, Die
<1>3. CASE StartDies(c) \/ StartCrash(c) \/ StopIdle(c)
  BY <1>3 DEF StartDies, StartCrash, StopIdle, StopFrame, processVars, spawnVars,
     Destroy, DestroyRaises, RuntimeCleanup, Die
<1>4. CASE StopRunning(c)
  BY <1>4 DEF StopRunning, StopFrame, RuntimeStop, RuntimeCleanup, Die, processVars, spawnVars,
     Destroy, DestroyRaises
<1>5. CASE Destroy(c) \/ DestroyRaises(c)
  BY <1>5 DEF Destroy, DestroyRaises, RuntimeCleanup, Die, spawnVars
<1>6. CASE DestroyCrash(c)
  BY <1>6 DEF DestroyCrash, Destroy, DestroyRaises, RuntimeCleanup, Die, spawnVars
<1>7. ASSUME NEW p \in Ports, StartOk(c, p) \/ StartFails(c, p)
      PROVE  ~CreateOk(c) /\ ~(Destroy(c) \/ DestroyRaises(c))
  BY <1>1, <1>7 DEF CreateOk, CreateFrame, Destroy, DestroyRaises, Discard, RuntimeCleanup,
     Die, Spawn, Unused
<1> QED
  BY <1>1, <1>2, <1>3, <1>4, <1>5, <1>6, <1>7 DEF Serve, Answered, Crashed

LEMMA ServeProcesses ==
  ASSUME NodeTypes, PoolInv, Leases, Processes, NEW c \in Containers, Serve(c)
  PROVE  Processes'
<1> USE ServePresent DEF NodeTypes
<1>1. CASE \E a \in Addresses : CreateOk(c) /\ a \notin allocated
                 /\ allocated' = allocated \union {a} /\ ip' = [ip EXCEPT ![c] = a]
  <2>1. PICK a \in Addresses : CreateOk(c) /\ a \notin allocated
                 /\ allocated' = allocated \union {a} /\ ip' = [ip EXCEPT ![c] = a]
    BY <1>1
  <2>2. Present(c)' /\ UNCHANGED <<alive, socket, address>>
    BY <2>1 DEF CreateOk, CreateFrame, Present, spawnVars
  <2> QED
    BY <2>1, <2>2 DEF Processes
<1>2. CASE (Destroy(c) \/ DestroyRaises(c)) /\ allocated' = allocated \ {ip[c]}
  <2>1. Present(c) /\ ~Present(c)' /\ ip' = [ip EXCEPT ![c] = NoAddress]
    BY <1>2, ServeEntry DEF Destroy, DestroyRaises, Discard, Present
  <2>2. alive' = alive \ ProcessesOf(c) /\ UNCHANGED <<socket, address>>
    BY <1>2, ServeAlive
  <2> QED
    BY <1>2, <2>1, <2>2 DEF Processes, ProcessesOf
<1>3. CASE UNCHANGED <<allocated, ip>> /\ (Present(c)' <=> Present(c))
  <2>1. CASE alive' \subseteq alive /\ UNCHANGED <<socket, address>>
    BY <1>3, <2>1 DEF Processes
  <2>2. CASE \E p \in Ports : Spawn(c, p) /\ Present(c)
    BY <1>3, <2>2 DEF Processes, Spawn, Leases
  <2> QED
    BY <2>1, <2>2, ServeAlive
<1> QED
  BY <1>1, <1>2, <1>3, ServePool, ServeEntry

LEMMA FewerProcesses ==
  ASSUME Processes, alive' \subseteq alive,
         UNCHANGED <<allocated, ip, socket, address>>,
         \A c \in Containers : Present(c)' <=> Present(c)
  PROVE  Processes'
  BY DEF Processes

-----------------------------------------------------------------------------
(* Exit reports and taps.  A handler that ends the processes of a container*)
(* ends none that is the VM of another.                                    *)
LEMMA RestartedVms ==
  ASSUME Restarted, alive' \subseteq Ports
  PROVE  Vms'
  BY ManagerAssumption DEF Restarted, Vms, OwnVM, DeathReported, RunningIsConnected

LEMMA SpawnsApart ==
  ASSUME NodeTypes, OwnVM, NEW c \in Containers, NEW p \in Ports, Spawn(c, p)
  PROVE  /\ \A d \in Containers : vm_states[d] # p
         /\ \A d \in Containers : vm_states[d] # NoPort => socket'[vm_states[d]] = d
         /\ socket'[p] = c /\ p \notin alive /\ p \notin open /\ p \notin exits
         /\ port_to_container[p] = NoContainer
  BY DEF Spawn, Unused, OwnVM, NodeTypes

LEMMA ServeVms ==
  ASSUME NodeTypes, Vms, NEW c \in Containers, Serve(c)
  PROVE  Vms'
<1> USE ManagerAssumption DEF NodeTypes
<1>1. CASE CreateOk(c) \/ CreateNoRootfs(c) \/ CreateNoAddress(c)
  <2>1. /\ UNCHANGED <<vm_states, port_to_container, open, exits, alive, booted, socket, tap>>
        /\ \A d \in Containers : status'[d] = "running" => status[d] = "running"
    BY <1>1 DEF CreateOk, CreateNoRootfs, CreateNoAddress, CreateFrame, managerVars,
       spawnVars, tableVars
  <2> QED
    BY <2>1 DEF Vms, OwnVM, DeathReported, RunningIsConnected
<1>2. CASE Crashed(c)
  <2>1. Restarted /\ alive' \subseteq alive
    BY <1>2 DEF Crashed, CreateCrash, CreateFrame, StartCrash, DestroyRaises, DestroyCrash
  <2> QED
    BY <2>1, RestartedVms
<1>3. ASSUME NEW p \in Ports, StartOk(c, p)
      PROVE  Vms'
  <2>1. /\ \A d \in Containers : vm_states[d] # p
        /\ \A d \in Containers : vm_states[d] # NoPort => socket'[vm_states[d]] = d
        /\ socket'[p] = c
    BY <1>3, SpawnsApart DEF StartOk, Vms
  <2>2. /\ vm_states' = [vm_states EXCEPT ![c] = p]
        /\ port_to_container' = [port_to_container EXCEPT ![p] = c]
        /\ status' = [status EXCEPT ![c] = "running"] /\ tap' = [tap EXCEPT ![c] = p]
        /\ alive' = alive \union {p} /\ booted' = booted \union {p}
        /\ open' = open \union {p} /\ UNCHANGED exits
    BY <1>3 DEF StartOk, Spawn, Register
  <2>3. OwnVM'
    BY <2>1, <2>2 DEF OwnVM
  <2>4. DeathReported'
    BY <2>1, <2>2 DEF Vms, DeathReported
  <2>5. RunningIsConnected'
    BY <2>1, <2>2 DEF Vms, RunningIsConnected
  <2> QED
    BY <2>3, <2>4, <2>5 DEF Vms
<1>4. ASSUME NEW p \in Ports, StartFails(c, p)
      PROVE  Vms'
  <2>1. /\ \A d \in Containers : vm_states[d] # p
        /\ \A d \in Containers : vm_states[d] # NoPort => socket'[vm_states[d]] = d
    BY <1>4, SpawnsApart DEF StartFails, Vms
  <2>2. /\ UNCHANGED <<status, vm_states, port_to_container, exits>>
        /\ status[c] # "running" /\ tap' = [tap EXCEPT ![c] = NoPort]
        /\ alive' = alive \union {p} /\ booted \subseteq booted'
        /\ open' = open \union {p}
    BY <1>4 DEF StartFails, MayStart, Spawn, managerVars
  <2>3. OwnVM'
    BY <2>1, <2>2 DEF OwnVM
  <2>4. DeathReported'
    BY <2>2 DEF Vms, DeathReported
  <2>5. RunningIsConnected'
    BY <2>1, <2>2 DEF Vms, RunningIsConnected
  <2> QED
    BY <2>3, <2>4, <2>5 DEF Vms
<1>5. CASE StartDies(c) \/ StopIdle(c)
  <2>1. /\ UNCHANGED <<status, port_to_container, open, exits, alive, booted, socket>>
        /\ status[c] # "running"
        /\ \A d \in Containers \ {c} : tap'[d] = tap[d] /\ vm_states'[d] = vm_states[d]
        /\ vm_states'[c] \in {vm_states[c], NoPort}
    BY <1>5 DEF StartDies, StopIdle, MayStart, StartFrame, StopFrame, managerVars,
       processVars, spawnVars
  <2> QED
    BY <2>1 DEF Vms, OwnVM, DeathReported, RunningIsConnected
<1>6. ASSUME \/ StopRunning(c)
             \/ Destroy(c)
      PROVE  Vms'
  <2>1. \/ UNCHANGED <<open, exits, alive, booted, tap>>
        \/ /\ \E closed \in SUBSET {vm_states[c]} : Die(ProcessesOf(c), closed)
           /\ tap' = [tap EXCEPT ![c] = NoPort]
    BY <1>6 DEF StopRunning, Destroy, RuntimeStop, RuntimeCleanup, processVars
  <2>2. /\ UNCHANGED <<port_to_container, socket>>
        /\ status'[c] # "running" /\ vm_states' = [vm_states EXCEPT ![c] = NoPort]
        /\ \A d \in Containers \ {c} : status'[d] = status[d]
    BY <1>6 DEF StopRunning, StopFrame, Destroy, Discard, managerVars, spawnVars
  <2>3. ASSUME NEW d \in Containers \ {c}, vm_states[d] # NoPort
        PROVE  /\ vm_states[d] \notin ProcessesOf(c) /\ vm_states[d] # vm_states[c]
               /\ vm_states[d] \in Ports
    BY <2>3 DEF Vms, OwnVM, ProcessesOf
  <2>4. OwnVM'
    BY <2>2 DEF Vms, OwnVM
  <2>5. DeathReported'
    <3> SUFFICES ASSUME NEW d \in Containers \ {c}, status[d] = "running", vm_states[d] # NoPort
                 PROVE  /\ vm_states[d] \in (open' \cap booted') \union exits'
                        /\ port_to_container[vm_states[d]] = d
      BY <2>2 DEF DeathReported
    <3>1. /\ vm_states[d] \in (open \cap booted) \union exits
          /\ port_to_container[vm_states[d]] = d
      BY DEF Vms, DeathReported
    <3> QED
      BY <2>1, <2>3, <3>1 DEF Die
  <2>6. RunningIsConnected'
    BY <2>1, <2>2 DEF Vms, RunningIsConnected, Die
  <2> QED
    BY <2>4, <2>5, <2>6 DEF Vms
<1> QED
  BY <1>1, <1>2, <1>3, <1>4, <1>5, <1>6 DEF Serve, Answered

(* Processes end, at once or in a sweep: those whose port is open report.  *)
LEMMA DieVms ==
  ASSUME NodeTypes, Vms, NEW S, Die(S, {}),
         tap' = [c \in Containers |-> IF tap[c] \in S THEN NoPort ELSE tap[c]],
         UNCHANGED <<tableVars, managerVars, spawnVars>>
  PROVE  Vms'
  BY DEF NodeTypes, Vms, OwnVM, DeathReported, RunningIsConnected, Die,
     tableVars, managerVars, spawnVars

LEMMA PortExitVms ==
  ASSUME NodeTypes, Vms, NEW p \in Ports, PortExit(p)
  PROVE  Vms'
<1> USE ManagerAssumption DEF NodeTypes
<1>1. /\ exits' = exits \ {p} /\ UNCHANGED <<vm_states, open, alive, booted, socket, tap>>
      /\ port_to_container' = [port_to_container EXCEPT ![p] = NoContainer]
      /\ \A c \in Containers : status'[c] = "running" => status[c] = "running"
      /\ port_to_container[p] \in Containers => status'[port_to_container[p]] # "running"
  BY DEF PortExit, MarkExited, spawnVars
<1>2. OwnVM' /\ RunningIsConnected'
  BY <1>1 DEF Vms, OwnVM, RunningIsConnected
<1>3. DeathReported'
  BY <1>1 DEF Vms, DeathReported
<1> QED
  BY <1>2, <1>3 DEF Vms

-----------------------------------------------------------------------------
(* Beside the sweeps.  Until the first sweep after a start of the node has *)
(* ended nothing is in the table, so that it kills every process there is: *)
(* that is why requests can rely on Processes from then on.                *)
Starting ==
  ~serving =>
    /\ \A c \in Containers : ~Present(c)
    /\ sweep # "idle" => active = {}
    /\ sweep = "killed" => alive = {}

CleanupInv == ManagerInv /\ (serving => Processes) /\ Starting

(* A step that leaves the table and the pool alone.                        *)
LEMMA SameLeases ==
  ASSUME PoolInv, Leases, UNCHANGED <<ipVars, ip>>,
         \A c \in Containers : Present(c)' <=> Present(c)
  PROVE  PoolInv' /\ Leases' /\ (NoOtherLease => NoOtherLease')
  BY PoolUnchanged DEF Leases, NoOtherLease

LEMMA VarsUnchanged ==
  ASSUME ManagerInv, UNCHANGED vars
  PROVE  ManagerInv' /\ (NoOtherLease => NoOtherLease') /\ (Processes => Processes')
<1>1. PoolInv' /\ allocated' = allocated
  BY PoolUnchanged DEF ManagerInv, vars
<1>2. NodeTypes' /\ Leases' /\ Vms'
  BY <1>1 DEF ManagerInv, NodeTypes, Leases, Vms, OwnVM, DeathReported, RunningIsConnected,
     Present, vars, tableVars, managerVars, processVars, spawnVars
<1>3. (NoOtherLease => NoOtherLease') /\ (Processes => Processes')
  BY <1>1 DEF NoOtherLease, Processes, Present, vars, tableVars, processVars, spawnVars
<1> QED
  BY <1>1, <1>2, <1>3 DEF ManagerInv

(* Some processes end.                                                     *)
LEMMA DieManager ==
  ASSUME ManagerInv, NEW S, Die(S, {}),
         tap' = [c \in Containers |-> IF tap[c] \in S THEN NoPort ELSE tap[c]],
         UNCHANGED <<ipVars, tableVars, managerVars, spawnVars, rootfs>>
  PROVE  /\ ManagerInv' /\ (NoOtherLease => NoOtherLease') /\ (Processes => Processes')
         /\ \A c \in Containers : Present(c)' <=> Present(c)
<1>1. \A c \in Containers : Present(c)' <=> Present(c)
  BY DEF Present, tableVars
<1>2. PoolInv' /\ Leases' /\ (NoOtherLease => NoOtherLease')
  BY <1>1, SameLeases DEF ManagerInv, tableVars
<1>3. NodeTypes'
  BY DieTypes DEF ManagerInv
<1>4. Vms'
  BY DieVms DEF ManagerInv
<1>5. alive' \subseteq alive
  BY DEF Die
<1>6. UNCHANGED <<allocated, ip, socket, address>>
  BY DEF ipVars, tableVars, spawnVars
<1>7. Processes => Processes'
  BY <1>1, <1>5, <1>6, FewerProcesses
<1> QED
  BY <1>1, <1>2, <1>3, <1>4, <1>7 DEF ManagerInv

LEMMA PortExitManager ==
  ASSUME ManagerInv, NEW p \in Ports, PortExit(p)
  PROVE  /\ ManagerInv' /\ (NoOtherLease => NoOtherLease') /\ (Processes => Processes')
         /\ \A c \in Containers : Present(c)' <=> Present(c)
<1>1. \A c \in Containers : Present(c)' <=> Present(c)
  BY DEF PortExit, MarkExited, Present, ManagerInv, NodeTypes
<1>2. PoolInv' /\ Leases' /\ (NoOtherLease => NoOtherLease')
  BY <1>1, SameLeases DEF ManagerInv, PortExit
<1>3. NodeTypes' /\ Vms'
  BY PortExitTypes, PortExitVms DEF ManagerInv
<1>4. UNCHANGED <<allocated, ip, alive, socket, address>>
  BY DEF PortExit, ipVars, spawnVars
<1>5. Processes => Processes'
  BY <1>1, <1>4, FewerProcesses
<1> QED
  BY <1>1, <1>2, <1>3, <1>5 DEF ManagerInv

LEMMA ServeManager ==
  ASSUME ManagerInv, NEW c \in Containers, Serve(c)
  PROVE  /\ ManagerInv' /\ (Reused = {} /\ NoOtherLease => NoOtherLease')
         /\ (Processes => Processes')
  BY ServePool, ServeTypes, ServeLeases, ServeProcesses, ServeVms DEF ManagerInv

LEMMA ManagerInit == Init => Managed /\ NoOtherLease
<1> SUFFICES ASSUME Init
             PROVE  Managed /\ NoOtherLease
  OBVIOUS
<1> USE ManagerAssumption DEF Init
<1>1. PoolInv
  BY InitPartition
<1>2. NodeTypes
  BY DEF NodeTypes
<1>3. Leases /\ NoOtherLease /\ Processes
  BY DEF Leases, NoOtherLease, Processes, Present, PoolInit
<1>4. Vms
  BY DEF Vms, OwnVM, DeathReported, RunningIsConnected
<1> QED
  BY <1>1, <1>2, <1>3, <1>4 DEF Managed, ManagerInv

(* The manager and its processes alone.                                    *)
LEMMA ManagerKept ==
  ASSUME Managed, [Next]_vars
  PROVE  Managed' /\ (Reused = {} /\ NoOtherLease => NoOtherLease')
<1> USE DEF Managed
<1>1. CASE UNCHANGED vars
  BY <1>1, VarsUnchanged
<1>2. ASSUME NEW c \in Containers, Serve(c)
      PROVE  Managed' /\ (Reused = {} /\ NoOtherLease => NoOtherLease')
  BY <1>2, ServeManager
<1>3. ASSUME NEW p \in Ports, ProcessDies(p)
      PROVE  Managed' /\ (NoOtherLease => NoOtherLease')
  <2>1. /\ Die({p}, {})
        /\ tap' = [c \in Containers |-> IF tap[c] \in {p} THEN NoPort ELSE tap[c]]
        /\ UNCHANGED <<ipVars, tableVars, managerVars, spawnVars, rootfs>>
    BY <1>3 DEF ProcessDies
  <2> QED
    BY <2>1, DieManager
<1>4. ASSUME NEW p \in Ports, PortExit(p)
      PROVE  Managed' /\ (NoOtherLease => NoOtherLease')
  BY <1>4, PortExitManager
<1> QED
  BY <1>1, <1>2, <1>3, <1>4 DEF Next

(* The node goes down: nothing in the table, nothing leased, and whatever  *)
(* processes there are.                                                    *)
LEMMA NodeDownInv ==
  ASSUME ManagerInv, NodeDown
  PROVE  ManagerInv' /\ NoOtherLease' /\ \A c \in Containers : ~Present(c)'
<1> USE ManagerAssumption
<1>1. \A c \in Containers : ~Present(c)'
  BY DEF NodeDown, Present
<1>2. PoolInit'
  BY DEF NodeDown, PoolInit
<1>3. PoolInv'
  BY <1>2, InitPartition, PTL
<1>4. NodeTypes'
  BY DEF ManagerInv, NodeTypes, NodeDown, Restarted, RestartedPorts, spawnVars
<1>5. Leases' /\ NoOtherLease'
  BY <1>1, <1>2 DEF Leases, NoOtherLease, PoolInit
<1>6. Vms'
  BY <1>4, RestartedVms DEF NodeDown, NodeTypes
<1> QED
  BY <1>1, <1>3, <1>4, <1>5, <1>6 DEF ManagerInv

LEMMA CleanupInitInv == CleanupInit => CleanupInv /\ NoOtherLease
<1> SUFFICES ASSUME CleanupInit
             PROVE  CleanupInv /\ NoOtherLease
  OBVIOUS
<1>1. Managed /\ NoOtherLease
  BY ManagerInit DEF CleanupInit
<1>2. Starting
  BY DEF CleanupInit, Init, Present, Starting
<1> QED
  BY <1>1, <1>2 DEF CleanupInv, Managed

LEMMA CleanupStep ==
  ASSUME CleanupInv, [CleanupNext]_cleanupVars
  PROVE  CleanupInv' /\ (Reused = {} /\ NoOtherLease => NoOtherLease')
<1> USE DEF CleanupInv
<1>1. CASE ManagerStep
  BY <1>1, ServeManager DEF ManagerStep, sweepVars, Starting
<1>2. CASE SweepBegin
  <2>1. UNCHANGED vars /\ UNCHANGED serving
    BY <1>2 DEF SweepBegin
  <2>2. ManagerInv' /\ (NoOtherLease => NoOtherLease') /\ (Processes => Processes')
    BY <2>1, VarsUnchanged
  <2>3. Starting'
    BY <1>2 DEF SweepBegin, Starting, Active, Present, vars, tableVars
  <2> QED
    BY <2>1, <2>2, <2>3
<1>3. CASE SweepKill
  <2> DEFINE S == {p \in alive : socket[p] \notin active}
  <2>1. /\ Die(S, {})
        /\ tap' = [c \in Containers |-> IF tap[c] \in S THEN NoPort ELSE tap[c]]
        /\ UNCHANGED <<ipVars, tableVars, managerVars, spawnVars, rootfs>>
        /\ sweep = "listed" /\ sweep' = "killed" /\ UNCHANGED <<active, serving>>
    BY <1>3 DEF SweepKill
  <2>2. /\ ManagerInv' /\ (NoOtherLease => NoOtherLease') /\ (Processes => Processes')
        /\ \A c \in Containers : Present(c)' <=> Present(c)
    BY <2>1, DieManager
  <2>3. Starting'
    BY <2>1, <2>2 DEF Starting, Die
  <2> QED
    BY <2>1, <2>2, <2>3
<1>4. CASE SweepDirs
  <2>1. /\ UNCHANGED <<ipVars, tableVars, managerVars, processVars, spawnVars, tap>>
        /\ rootfs' \subseteq rootfs /\ serving' = TRUE /\ sweep = "killed"
    BY <1>4 DEF SweepDirs
  <2>2. NodeTypes' /\ Vms'
    BY <2>1 DEF ManagerInv, NodeTypes, Vms, OwnVM, DeathReported, RunningIsConnected,
       tableVars, managerVars, processVars, spawnVars
  <2>3. \A c \in Containers : Present(c)' <=> Present(c)
    BY <2>1 DEF Present, tableVars
  <2>4. PoolInv' /\ Leases' /\ (NoOtherLease => NoOtherLease')
    BY <2>1, <2>3, SameLeases DEF ManagerInv, tableVars
  <2>5. Processes
    BY <2>1 DEF Starting, Processes
  <2>6. UNCHANGED <<allocated, ip, alive, socket, address>>
    BY <2>1 DEF ipVars, tableVars, processVars, spawnVars
  <2>7. Processes'
    BY <2>3, <2>5, <2>6, FewerProcesses
  <2> QED
    BY <2>1, <2>2, <2>4, <2>7 DEF ManagerInv, Starting
<1>5. CASE NodeRestart
  BY <1>5, NodeDownInv DEF NodeRestart, NodeDown, Starting
<1>6. ASSUME NEW p \in Ports, VMDies(p)
      PROVE  CleanupInv' /\ (Reused = {} /\ NoOtherLease => NoOtherLease')
  <2>1. /\ Die({p}, {})
        /\ tap' = [c \in Containers |-> IF tap[c] \in {p} THEN NoPort ELSE tap[c]]
        /\ UNCHANGED <<ipVars, tableVars, managerVars, spawnVars, rootfs>>
        /\ UNCHANGED sweepVars
    BY <1>6 DEF VMDies, ProcessDies
  <2>2. /\ ManagerInv' /\ (NoOtherLease => NoOtherLease') /\ (Processes => Processes')
        /\ \A c \in Containers : Present(c)' <=> Present(c)
    BY <2>1, DieManager
  <2>3. Starting' /\ UNCHANGED serving
    BY <2>1, <2>2 DEF Starting, Die, sweepVars
  <2> QED
    BY <2>2, <2>3
<1>7. ASSUME NEW p \in Ports, ExitHandled(p)
      PROVE  CleanupInv' /\ (Reused = {} /\ NoOtherLease => NoOtherLease')
  <2>1. PortExit(p) /\ UNCHANGED sweepVars /\ UNCHANGED alive
    BY <1>7 DEF ExitHandled, PortExit
  <2>2. /\ ManagerInv' /\ (NoOtherLease => NoOtherLease') /\ (Processes => Processes')
        /\ \A c \in Containers : Present(c)' <=> Present(c)
    BY <2>1, PortExitManager
  <2>3. Starting' /\ UNCHANGED serving
    BY <2>1, <2>2 DEF Starting, sweepVars
  <2> QED
    BY <2>2, <2>3
<1>8. CASE UNCHANGED cleanupVars
  <2>1. UNCHANGED vars /\ UNCHANGED sweepVars /\ UNCHANGED alive
    BY <1>8 DEF cleanupVars, vars, processVars
  <2>2. ManagerInv' /\ (NoOtherLease => NoOtherLease') /\ (Processes => Processes')
    BY <2>1, VarsUnchanged
  <2>3. Starting' /\ UNCHANGED serving
    BY <2>1 DEF Starting, Present, sweepVars, vars, tableVars
  <2> QED
    BY <2>2, <2>3
<1> QED
  BY <1>1, <1>2, <1>3, <1>4, <1>5, <1>6, <1>7, <1>8 DEF CleanupNext, Sweep

LEMMA CleanupAlways ==
  CleanupSpec => /\ []CleanupInv
                 /\ Reused = {} => []NoOtherLease
<1>1. CleanupInit => CleanupInv /\ NoOtherLease
  BY CleanupInitInv
<1>2. CleanupInv /\ [CleanupNext]_cleanupVars => CleanupInv'
  BY CleanupStep
<1>3. CleanupSpec => []CleanupInv
  BY <1>1, <1>2, PTL DEF CleanupSpec
<1>4. ASSUME Reused = {}
      PROVE  CleanupInv /\ NoOtherLease /\ [CleanupNext]_cleanupVars => NoOtherLease'
  BY <1>4, CleanupStep
<1>5. ASSUME Reused = {}
      PROVE  CleanupSpec => []NoOtherLease
  <2>1. CleanupInv /\ NoOtherLease /\ [CleanupNext]_cleanupVars => NoOtherLease'
    BY <1>4, <1>5
  <2> QED
    BY <1>1, <1>3, <2>1, PTL DEF CleanupSpec
<1> QED
  BY <1>3, <1>5

-----------------------------------------------------------------------------
(* The types hold in every state the node can reach.                       *)
THEOREM NodeTypeCorrect == CleanupSpec => []TypeOK
<1>1. CleanupInv => TypeOK
  BY TypeParts DEF CleanupInv, ManagerInv, PoolInv
<1> QED
  BY <1>1, CleanupAlways, PTL

(* No handler of manager.ex, answered or not, no death of a process, no    *)
(* sweep and no restart leaks an address or gives one to two containers,   *)
(* as long as no id is created while it exists (manager.ex:330-375).       *)
THEOREM NodeAddresses ==
  ASSUME Reused = {}
  PROVE  CleanupSpec => []AddressAccounting
<1>1. Leases /\ NoOtherLease => AddressAccounting
  BY DEF Leases, NoOtherLease, AddressAccounting
<1>2. CleanupInv /\ NoOtherLease => AddressAccounting
  BY <1>1 DEF CleanupInv, ManagerInv
<1>3. CleanupSpec => []CleanupInv /\ []NoOtherLease
  BY CleanupAlways
<1> QED
  BY <1>2, <1>3, PTL

(* Once requests are served every Firecracker process belongs to an entry  *)
(* of the table and is on a leased address of its own: the sweep that      *)
(* Cleanup's init runs before the API starts kills those of an earlier     *)
(* life of the node (application.ex:9-34, cleanup.ex:25).                  *)
THEOREM ServedProcesses == CleanupSpec => []ServedProcessesAccounted
<1>1. Processes => ProcessesAccounted
  BY DEF Processes, ProcessesAccounted
<1>2. CleanupInv => ServedProcessesAccounted
  BY <1>1 DEF CleanupInv, ServedProcessesAccounted
<1> QED
  BY <1>2, CleanupAlways, PTL

(* The exit of the VM of a running container is never lost, and never      *)
(* attributed to another container (manager.ex:229-249), also when ids     *)
(* are created again and sweeps kill beside the GenServer.                 *)
THEOREM DeathsReported == CleanupSpec => []DeathReported
<1>1. CleanupInv => DeathReported
  BY DEF CleanupInv, ManagerInv, Vms
<1> QED
  BY <1>1, CleanupAlways, PTL

(* A running VM keeps its tap: no failed start, no crash of the GenServer  *)
(* and no sweep takes it away (manager.ex:314, firecracker.ex).            *)
THEOREM RunningConnected == CleanupSpec => []RunningIsConnected
<1>1. CleanupInv => RunningIsConnected
  BY DEF CleanupInv, ManagerInv, Vms
<1> QED
  BY <1>1, CleanupAlways, PTL

-----------------------------------------------------------------------------
LEMMA ManagerAlways ==
  Spec => /\ []Managed
          /\ Reused = {} => []NoOtherLease
<1>1. Spec => []Managed
  BY ManagerInit, ManagerKept, PTL DEF Spec
<1>2. ASSUME Reused = {}
      PROVE  Spec => []NoOtherLease
  <2>1. Managed /\ NoOtherLease /\ [Next]_vars => NoOtherLease'
    BY <1>2, ManagerKept
  <2> QED
    BY <1>1, <2>1, ManagerInit, PTL DEF Spec
<1> QED
  BY <1>1, <1>2

(* The same of the container manager and its clients alone, with no sweep  *)
(* to help: each process has an entry and a leased address, which no       *)
(* process of another entry is on; deaths are reported, and running VMs    *)
(* have their taps (manager.ex:135-249, 312-382).                          *)
THEOREM ManagerSafe ==
  Spec => [](TypeOK /\ ProcessesAccounted /\ DeathReported /\ RunningIsConnected)
<1>1. Managed => TypeOK
  BY TypeParts DEF Managed, ManagerInv, PoolInv
<1>2. Managed => ProcessesAccounted /\ DeathReported /\ RunningIsConnected
  BY DEF Managed, Processes, ProcessesAccounted, ManagerInv, Vms
<1> QED
  BY <1>1, <1>2, ManagerAlways, PTL

(* And no handler leaks an address or gives it to two (manager.ex:330-375). *)
THEOREM ManagerAddresses ==
  ASSUME Reused = {}
  PROVE  Spec => []AddressAccounting
<1>1. Managed /\ NoOtherLease => AddressAccounting
  BY DEF Managed, ManagerInv, Leases, NoOtherLease, AddressAccounting
<1>2. Spec => []Managed /\ []NoOtherLease
  BY ManagerAlways
<1> QED
  BY <1>1, <1>2, PTL

(* For the container manager and its clients the address pool is the       *)
(* abstract lease: a handler, whether it is answered or raises, takes or   *)
(* gives back at most one address, and gives back only what was taken      *)
(* (manager.ex:331-361, 158-180; ip_pool.ex:31-56).                        *)
THEOREM ManagerPoolIsLease == Spec => ImplementsLease
<1>1. Init => PoolInit
  BY DEF Init
<1>2. PoolInv /\ [Next]_vars => [PoolNext]_ipVars
  <2> SUFFICES ASSUME PoolInv, Next, ~UNCHANGED ipVars
               PROVE  PoolNext
    BY DEF vars
  <2>1. ASSUME NEW p \in Ports, ProcessDies(p) \/ PortExit(p)
        PROVE  UNCHANGED ipVars
    BY <2>1 DEF ProcessDies, PortExit
  <2> QED
    BY <2>1, ServeAddress DEF Next
<1>3. PoolInit => PoolInv
  BY InitPartition
<1>4. Spec => PoolSpec
  BY <1>1, <1>2, <1>3, NextPartition, PTL DEF Spec, PoolSpec
<1> QED
  BY <1>4, LeaseRefinement

(* Beside sweeps and restarts of the node it is that lease too, but for    *)
(* the restarts, which give all back at once (application.ex:19-34).       *)
THEOREM NodePoolIsLease ==
  CleanupSpec => /\ Lease!Init
                 /\ [][Lease!Next \/ (NodeRestart /\ Lease!Init')]_<<Free, allocated>>
<1>1. CleanupInit => Lease!Init
  <2> SUFFICES ASSUME CleanupInit PROVE Lease!Init
    OBVIOUS
  <2>1. PoolInv /\ allocated = {}
    BY InitPartition DEF CleanupInit, Init, PoolInit
  <2> QED
    BY <2>1 DEF PoolInv, Partition, Lease!Init
<1>2. CleanupInv /\ [CleanupNext]_cleanupVars =>
        [Lease!Next \/ (NodeRestart /\ Lease!Init')]_<<Free, allocated>>
  <2> SUFFICES ASSUME CleanupInv, [CleanupNext]_cleanupVars, ~UNCHANGED <<Free, allocated>>
               PROVE  Lease!Next \/ (NodeRestart /\ Lease!Init')
    OBVIOUS
  <2>1. PoolInv /\ ~UNCHANGED ipVars
    BY DEF CleanupInv, ManagerInv, Free, ipVars
  <2>2. CASE ManagerStep
    BY <2>1, <2>2, ServeAddress, PoolStep DEF ManagerStep
  <2>3. CASE NodeRestart
    <3>1. CleanupInv' /\ allocated' = {}
      BY <2>3, CleanupStep DEF CleanupNext, NodeRestart, NodeDown
    <3>2. PoolInv'
      BY <3>1 DEF CleanupInv, ManagerInv
    <3> QED
      BY <2>3, <3>1, <3>2 DEF PoolInv, Partition, Lease!Init
  <2>4. ASSUME \/ Sweep \/ UNCHANGED cleanupVars
               \/ \E p \in Ports : VMDies(p) \/ ExitHandled(p)
        PROVE  UNCHANGED ipVars
    BY <2>4 DEF Sweep, SweepBegin, SweepKill, SweepDirs, cleanupVars, vars, VMDies,
                ExitHandled, ProcessDies, PortExit
  <2> QED
    BY <2>1, <2>2, <2>3, <2>4 DEF CleanupNext
<1> QED
  BY <1>1, <1>2, CleanupAlways, PTL DEF CleanupSpec

-----------------------------------------------------------------------------
(* Session.Manager.                                                        *)

SessionTypes ==
  /\ SessionTypeOK
  /\ task \in {"create", "start", "wait", "undo"} => current \in SessionIds
  /\ task \notin {"create", "start", "wait", "undo"} => current = NoContainer

Drawn == sessions \union Creating \union lost \subseteq drawn

(* An id is drawn once, and made a container only by the handler that drew *)
(* it.                                                                     *)
Fresh ==
  /\ Drawn
  /\ current \notin sessions
  /\ task = "create" => ~Present(current)

(* A session knows the address of its container while there is one.        *)
SessionIps == \A c \in sessions : Present(c) => session_ip[c] = ip[c]

SessionInv == Managed /\ SessionTypes /\ Fresh /\ ContainersAccounted /\ SessionIps

-----------------------------------------------------------------------------
LEMMA SessionInitInv == SessionInit => SessionInv
<1> SUFFICES ASSUME SessionInit
             PROVE  SessionInv
  OBVIOUS
<1> USE SessionAssumption DEF SessionInit
<1>1. Managed
  BY ManagerInit
<1>2. ContainersAccounted /\ SessionIps
  BY DEF Init, Present, ContainersAccounted, SessionIps
<1>3. SessionTypes /\ Fresh
  BY DEF Init, Present, SessionTypes, SessionTypeOK, Fresh, Drawn, Creating
<1> QED
  BY <1>1, <1>2, <1>3 DEF SessionInv

(* Every step is one of the container manager, or leaves it alone.         *)
LEMMA ManagedStep ==
  ASSUME SessionTypes, [SessionNext]_managedVars
  PROVE  \/ UNCHANGED vars
         \/ \E c \in Containers : Serve(c)
         \/ \E p \in Ports : ProcessDies(p) \/ PortExit(p)
<1> USE SessionAssumption
<1>1. CASE CreateCall
  <2>1. current \in Containers
    BY <1>1 DEF CreateCall, SessionTypes
  <2> QED
    BY <1>1, <2>1 DEF CreateCall, Serve, Answered, Crashed
<1>2. CASE StartCall
  <2>1. current \in Containers
    BY <1>2 DEF StartCall, SessionTypes
  <2> QED
    BY <1>2, <2>1 DEF StartCall, Serve, Answered, Crashed
<1>3. CASE Undo
  <2>1. current \in Containers
    BY <1>3 DEF Undo, SessionTypes
  <2> QED
    BY <1>3, <2>1 DEF Undo, DestroyCall, DestroyExits, Serve, Answered, Crashed
<1>4. ASSUME NEW c \in batch, CloseNext(c)
      PROVE  \/ UNCHANGED vars
             \/ \E d \in Containers : Serve(d)
  <2>1. c \in Containers
    BY DEF SessionTypes, SessionTypeOK
  <2> QED
    BY <1>4, <2>1 DEF CloseNext, DestroyCall, DestroyExits, Serve, Answered, Crashed
<1>5. ASSUME NEW c \in Containers, ClientCall(c)
      PROVE  Serve(c)
  BY <1>5 DEF ClientCall, Serve
<1>6. CASE HostStep
  BY <1>6 DEF HostStep
<1>7. ASSUME \/ \E c \in SessionIds : CreateBegins(c)
             \/ \E S \in SUBSET sessions : CloseBegins(S)
             \/ HealthCheck \/ WaitReady \/ UNCHANGED managedVars
      PROVE  UNCHANGED vars
  BY <1>7 DEF CreateBegins, CloseBegins, HealthCheck, WaitReady, managedVars
<1> QED
  BY <1>1, <1>2, <1>3, <1>4, <1>5, <1>6, <1>7 DEF SessionNext, HandlerStep

LEMMA ManagedKept ==
  ASSUME Managed, SessionTypes, [SessionNext]_managedVars
  PROVE  Managed'
  BY ManagedStep, ManagerKept DEF Next

-----------------------------------------------------------------------------
(* The map of sessions.  Each handler, and the restart that may end it.    *)
LEMMA RestartMap ==
  ASSUME SessionTypes, Drawn, Restart
  PROVE  SessionTypes' /\ Drawn' /\ (Fresh => Fresh') /\ SessionIps'
<1> USE ManagerAssumption, SessionAssumption
<1>1. SessionTypes' /\ SessionIps' /\ Drawn'
  BY DEF SessionTypes, SessionTypeOK, Restart, SessionIps, Drawn, Creating
<1>2. ASSUME Fresh
      PROVE  Fresh'
  BY <1>1, <1>2 DEF SessionTypes, SessionTypeOK, Fresh, Restart
<1> QED
  BY <1>1, <1>2

LEMMA SessionTypesKept ==
  ASSUME Managed, SessionTypes, Drawn, [SessionNext]_managedVars
  PROVE  SessionTypes' /\ Drawn'
<1> USE ManagerAssumption, SessionAssumption DEF SessionTypes, SessionTypeOK, Drawn, Creating
<1>1. CASE Restart
  BY <1>1, RestartMap
<1>2. ASSUME NEW c \in SessionIds, CreateBegins(c)
      PROVE  SessionTypes' /\ Drawn'
  BY <1>2 DEF CreateBegins
<1>3. CASE CreateCall /\ ~Restart
  BY <1>3 DEF CreateCall, Continue
<1>4. CASE StartCall /\ ~Restart
  BY <1>4 DEF StartCall, Continue
<1>5. CASE WaitReady /\ ~Restart
  BY <1>5 DEF WaitReady, Continue, Managed, ManagerInv, NodeTypes, Present
<1>6. CASE Undo /\ ~Restart
  BY <1>6 DEF Undo, CreateEnds
<1>7. CASE \E S \in SUBSET sessions : CloseBegins(S)
  BY <1>7 DEF CloseBegins
<1>8. CASE HealthCheck /\ ~Restart
  BY <1>8 DEF HealthCheck
<1>9. ASSUME NEW c \in batch, CloseNext(c), ~Restart
      PROVE  SessionTypes' /\ Drawn'
  BY <1>9 DEF CloseNext
<1>10. ASSUME ~Restart, HostStep \/ \E c \in Containers : ClientCall(c)
       PROVE  SessionTypes' /\ Drawn'
  BY <1>10 DEF HostStep, ClientCall, sessionVars
<1>11. CASE UNCHANGED managedVars
  BY <1>11 DEF managedVars, sessionVars
<1> QED
  BY <1>1, <1>2, <1>3, <1>4, <1>5, <1>6, <1>7, <1>8, <1>9, <1>10, <1>11
  DEF SessionNext, HandlerStep

-----------------------------------------------------------------------------
(* What a call on c does to the table, and to entries it is not about.     *)
LEMMA CallEffects ==
  ASSUME ManagerInv, NEW c \in Containers, Serve(c)
  PROVE  /\ \A d \in Containers \ {c} : (Present(d)' <=> Present(d)) /\ ip'[d] = ip[d]
         /\ ~CreateOk(c) => (Present(c)' => Present(c) /\ ip'[c] = ip[c])
         /\ Destroy(c) => ~Present(c)'
<1>1. \A d \in Containers \ {c} : Present(d)' <=> Present(d)
  BY ServePresent DEF ManagerInv
<1>2. ip \in [Containers -> Addresses \union {NoAddress}] /\ PoolInv /\ NodeTypes
  BY DEF ManagerInv, NodeTypes
<1>3. \/ CreateOk(c) /\ \E a \in Addresses : ip' = [ip EXCEPT ![c] = a]
      \/ ~CreateOk(c) /\ ip' = [ip EXCEPT ![c] = NoAddress] /\ ~Present(c)'
      \/ ~CreateOk(c) /\ ~Destroy(c) /\ UNCHANGED ip /\ (Present(c)' <=> Present(c))
  <2>1. ~(CreateOk(c) /\ (Destroy(c) \/ DestroyRaises(c)))
    BY <1>2 DEF CreateOk, Destroy, DestroyRaises, Discard, NodeTypes
  <2> QED
    BY <1>2, <2>1, ServePool, ServeEntry
<1>4. \A d \in Containers \ {c} : ip'[d] = ip[d]
  BY <1>2, <1>3
<1>5. Destroy(c) => ~Present(c)'
  BY <1>2 DEF Destroy, Discard, Present, NodeTypes
<1> QED
  BY <1>1, <1>3, <1>4, <1>5

(* A call that makes no container of c, by whom ever.                      *)
LEMMA CallKeeps ==
  ASSUME Managed, Fresh, ContainersAccounted, SessionIps, SessionTypes,
         NEW c \in Containers, Serve(c), c \in SessionIds => ~CreateOk(c),
         UNCHANGED <<session_ip, drawn, lost>>,
         sessions' \subseteq sessions,
         (sessions \union Creating) \ (sessions' \union Creating') \subseteq {c},
         (sessions \union Creating) # (sessions' \union Creating') => Destroy(c),
         current' \in {current, NoContainer},
         task' = "create" => task = "create" /\ current' = current
  PROVE  Fresh' /\ ContainersAccounted' /\ SessionIps'
<1> USE SessionAssumption, ManagerAssumption DEF SessionTypes, SessionTypeOK, Managed
<1>1. /\ \A d \in Containers \ {c} : (Present(d)' <=> Present(d)) /\ ip'[d] = ip[d]
      /\ c \in SessionIds => (Present(c)' => Present(c) /\ ip'[c] = ip[c])
      /\ Destroy(c) => ~Present(c)'
  BY CallEffects
<1>2. Fresh'
  <2>1. /\ sessions' \union Creating' \union lost' \subseteq drawn'
        /\ current' \notin sessions'
    BY DEF Fresh, Drawn, Creating
  <2>2. ASSUME task' = "create"
        PROVE  ~Present(current)'
    BY <1>1, <2>2 DEF Fresh, Drawn
  <2> QED
    BY <2>1, <2>2 DEF Fresh, Drawn
<1>3. ContainersAccounted'
  BY <1>1 DEF ContainersAccounted
<1>4. SessionIps'
  BY <1>1 DEF SessionIps
<1> QED
  BY <1>2, <1>3, <1>4

(* After a restart the containers are those that were lost.                *)
LEMMA RestartAccounted ==
  ASSUME Managed, SessionTypes, ContainersAccounted, Restart,
         \/ UNCHANGED vars
         \/ \E c \in Containers : Serve(c) /\ (c \in SessionIds => ~CreateOk(c))
         \/ current \in SessionIds /\ CreateOk(current)
  PROVE  ContainersAccounted'
<1> USE SessionAssumption DEF SessionTypes, SessionTypeOK, Managed
<1>1. \A c \in SessionIds : c \in sessions \union Creating \union lost => c \in lost'
  BY DEF Restart
<1>2. CASE UNCHANGED vars
  BY <1>1, <1>2 DEF ContainersAccounted, Present, vars, tableVars
<1>3. ASSUME NEW c \in Containers, Serve(c), c \in SessionIds => ~CreateOk(c)
      PROVE  ContainersAccounted'
  <2>1. \A d \in SessionIds : Present(d)' => Present(d)
    BY <1>3, CallEffects
  <2> QED
    BY <1>1, <2>1 DEF ContainersAccounted
<1>4. CASE current \in SessionIds /\ CreateOk(current)
  <2>1. Serve(current) /\ current \in Containers
    BY <1>4 DEF Serve, Answered
  <2>2. \A d \in SessionIds \ {current} : Present(d)' => Present(d)
    BY <2>1, CallEffects
  <2>3. current \in lost'
    BY <1>4, ManagerAssumption DEF Restart, Creating
  <2> QED
    BY <1>1, <2>2, <2>3 DEF ContainersAccounted
<1> QED
  BY <1>2, <1>3, <1>4

(* No session id is created twice.                                         *)
LEMMA NotCreated ==
  ASSUME Reused \intersect SessionIds = {}, NEW c \in SessionIds, Present(c)
  PROVE  ~CreateOk(c)
  BY DEF CreateOk, MayCreate

(* The steps, the restarts that end one, and what leaves the map alone.    *)
LEMMA RestartStep ==
  ASSUME SessionInv, Reused \intersect SessionIds = {}, Restart, SessionNext, ~HostStep
  PROVE  Fresh' /\ ContainersAccounted' /\ SessionIps'
<1> USE SessionAssumption DEF SessionInv
<1>1. \/ UNCHANGED vars
      \/ \E c \in Containers : Serve(c) /\ (c \in SessionIds => ~CreateOk(c))
      \/ current \in SessionIds /\ CreateOk(current)
  <2>1. CASE CreateCall
    <3>1. current \in SessionIds /\ current \in Containers
      BY <2>1 DEF CreateCall, SessionTypes
    <3> QED
      BY <2>1, <3>1 DEF CreateCall, Serve, Answered, Crashed
  <2>2. CASE StartCall
    <3>1. current \in SessionIds /\ current \in Containers
      BY <2>2 DEF StartCall, SessionTypes
    <3> QED
      BY <2>2, <3>1 DEF StartCall, Serve, Answered, Crashed
  <2>3. CASE Undo
    <3>1. current \in SessionIds /\ current \in Containers
      BY <2>3 DEF Undo, SessionTypes
    <3> QED
      BY <2>3, <3>1 DEF Undo, DestroyCall, DestroyExits, Serve, Answered, Crashed
  <2>4. ASSUME NEW c \in batch, CloseNext(c)
        PROVE  \/ UNCHANGED vars
               \/ \E d \in Containers : Serve(d) /\ (d \in SessionIds => ~CreateOk(d))
               \/ current \in SessionIds /\ CreateOk(current)
    <3>1. c \in Containers
      BY DEF SessionTypes, SessionTypeOK
    <3>2. UNCHANGED vars \/ Destroy(c) \/ DestroyRaises(c) \/ DestroyCrash(c)
      BY <2>4 DEF CloseNext, DestroyCall, DestroyExits
    <3>3. UNCHANGED vars \/ Serve(c)
      BY <3>2 DEF Serve, Answered, Crashed
    <3>4. UNCHANGED vars \/ Present(c)
      BY <3>2 DEF Destroy, DestroyRaises, DestroyCrash
    <3> QED
      BY <3>1, <3>3, <3>4, NotCreated
  <2>5. ASSUME NEW c \in Containers, ClientCall(c)
        PROVE  Serve(c) /\ (c \in SessionIds => ~CreateOk(c))
    BY <2>5, NotCreated DEF ClientCall, Serve
  <2>6. ASSUME \/ \E c \in SessionIds : CreateBegins(c)
               \/ \E S \in SUBSET sessions : CloseBegins(S)
               \/ HealthCheck \/ WaitReady
        PROVE  UNCHANGED vars
    BY <2>6 DEF CreateBegins, CloseBegins, HealthCheck, WaitReady
  <2> QED
    BY <2>1, <2>2, <2>3, <2>4, <2>5, <2>6 DEF SessionNext, HandlerStep
<1> QED
  BY <1>1, RestartAccounted, RestartMap DEF Fresh

(* What leaves the sessions alone.                                         *)
LEMMA SameSessions ==
  ASSUME SessionInv, UNCHANGED sessionVars,
         \A c \in SessionIds : Present(c)' => Present(c) /\ ip'[c] = ip[c]
  PROVE  Fresh' /\ ContainersAccounted' /\ SessionIps'
  BY DEF SessionInv, SessionTypes, SessionTypeOK, Fresh, Drawn, ContainersAccounted, SessionIps,
     Creating, sessionVars

LEMMA SessionStep ==
  ASSUME SessionInv, Reused \intersect SessionIds = {}, [SessionNext]_managedVars
  PROVE  SessionInv'
<1> USE SessionAssumption DEF SessionInv
<1> SUFFICES Fresh' /\ ContainersAccounted' /\ SessionIps'
  BY ManagedKept, SessionTypesKept DEF Fresh
<1>1. CASE UNCHANGED vars /\ UNCHANGED sessionVars
  BY <1>1, SameSessions DEF Present, vars, tableVars
<1>2. CASE HostStep
  <2>1. UNCHANGED ip /\ \A c \in Containers : Present(c)' => Present(c)
    BY <1>2 DEF HostStep, ProcessDies, PortExit, MarkExited, Present, tableVars,
       Managed, ManagerInv, NodeTypes
  <2> QED
    BY <1>2, <2>1, SameSessions DEF HostStep
<1>3. CASE Restart /\ SessionNext /\ ~HostStep
  BY <1>3, RestartStep
<1>4. ASSUME NEW c \in SessionIds, CreateBegins(c)
      PROVE  Fresh' /\ ContainersAccounted' /\ SessionIps'
  <2>1. ~Present(c) /\ c \notin sessions \union lost
    BY <1>4 DEF CreateBegins, Fresh, Drawn, ContainersAccounted
  <2> QED
    BY <1>4, <2>1, ManagerAssumption DEF CreateBegins, Fresh, Drawn, ContainersAccounted,
       SessionIps, Present, Creating, vars, tableVars, SessionTypes
<1>5. CASE CreateCall /\ ~Restart
  <2>1. current \in SessionIds /\ current \in Containers /\ current \notin sessions
    BY <1>5 DEF CreateCall, SessionTypes, Fresh, Drawn
  <2>2. Serve(current) /\ UNCHANGED <<sessions, session_ip, current, batch, drawn, lost>>
        /\ task' # "create"
    BY <1>5 DEF CreateCall, Continue, Serve, Answered
  <2>3. \A d \in Containers \ {current} : (Present(d)' <=> Present(d)) /\ ip'[d] = ip[d]
    BY <2>1, <2>2, CallEffects DEF Managed
  <2>4. Creating = {current} /\ Creating' = {current}
    BY <2>1, <2>2, ManagerAssumption DEF Creating
  <2>5. Fresh'
    BY <2>2, <2>4 DEF Fresh, Drawn
  <2>6. ContainersAccounted'
    BY <2>2, <2>3, <2>4 DEF ContainersAccounted
  <2>7. SessionIps'
    BY <2>1, <2>2, <2>3 DEF SessionIps, SessionTypes, SessionTypeOK
  <2> QED
    BY <2>5, <2>6, <2>7
<1>6. CASE StartCall /\ ~Restart
  <2>1. current \in SessionIds /\ current \in Containers
        /\ UNCHANGED <<sessions, session_ip, current, batch, drawn, lost>>
        /\ task' # "create"
    BY <1>6 DEF StartCall, SessionTypes, Continue
  <2>2. CASE Serve(current) /\ Present(current)
    BY <2>1, <2>2, NotCreated, CallKeeps DEF Creating
  <2>3. CASE UNCHANGED vars
    BY <2>1, <2>3 DEF Fresh, Drawn, ContainersAccounted, SessionIps, Present, Creating,
       vars, tableVars
  <2> QED
    BY <1>6, <2>2, <2>3 DEF StartCall, Serve, Answered, MayStart, StartOk, StartFails, StartDies
<1>7. CASE WaitReady /\ ~Restart
  BY <1>7, ManagerAssumption DEF WaitReady, Continue, Fresh, Drawn, ContainersAccounted, SessionIps,
     Present, Creating, vars, tableVars, SessionTypes, SessionTypeOK
<1>8. CASE Undo /\ ~Restart
  <2>1. current \in SessionIds /\ current \in Containers /\ DestroyCall(current) /\ CreateEnds
    BY <1>8 DEF Undo, SessionTypes
  <2>2. Creating = {current} /\ Creating' = {}
    BY <2>1, ManagerAssumption DEF Creating, CreateEnds
  <2>3. CASE Destroy(current)
    BY <2>1, <2>2, <2>3, NotCreated, CallKeeps DEF CreateEnds, Serve, Answered, Destroy
  <2>4. CASE ~Present(current) /\ UNCHANGED vars
    BY <2>1, <2>2, <2>4, ManagerAssumption DEF CreateEnds, Fresh, Drawn, ContainersAccounted,
       SessionIps, Present, vars, tableVars, SessionTypeOK, SessionTypes
  <2> QED
    BY <2>1, <2>3, <2>4 DEF DestroyCall
<1>9. CASE (HealthCheck \/ \E S \in SUBSET sessions : CloseBegins(S)) /\ ~Restart
  BY <1>9 DEF HealthCheck, CloseBegins, Fresh, Drawn, ContainersAccounted, SessionIps, Present,
     Creating, vars, tableVars
<1>10. ASSUME NEW c \in batch, CloseNext(c), ~Restart
       PROVE  Fresh' /\ ContainersAccounted' /\ SessionIps'
  <2>1. /\ c \in SessionIds /\ c \in Containers /\ DestroyCall(c)
        /\ UNCHANGED <<session_ip, current, drawn, lost>> /\ task' # "create"
        /\ sessions' = sessions \ {c} \/ sessions' = sessions
    BY <1>10 DEF CloseNext, SessionTypes, SessionTypeOK
  <2>2. CASE Destroy(c)
    BY <2>1, <2>2, NotCreated, CallKeeps DEF Creating, Serve, Answered, Destroy
  <2>3. CASE ~Present(c) /\ UNCHANGED vars
    BY <2>1, <2>3 DEF Fresh, Drawn, ContainersAccounted, SessionIps, Present, Creating,
       vars, tableVars
  <2> QED
    BY <2>1, <2>2, <2>3 DEF DestroyCall
<1>11. ASSUME NEW c \in Containers, ClientCall(c), ~Restart
       PROVE  Fresh' /\ ContainersAccounted' /\ SessionIps'
  BY <1>11, NotCreated, CallKeeps DEF ClientCall, sessionVars, Creating
<1> QED
  BY <1>1, <1>2, <1>3, <1>4, <1>5, <1>6, <1>7, <1>8, <1>9, <1>10, <1>11
  DEF SessionNext, HandlerStep, managedVars

LEMMA ManagedAlways == SessionSpec => [](Managed /\ SessionTypes /\ Drawn)
<1>1. SessionInit => Managed /\ SessionTypes /\ Drawn
  BY SessionInitInv DEF SessionInv, Fresh
<1>2. Managed /\ SessionTypes /\ Drawn /\ [SessionNext]_managedVars =>
        Managed' /\ SessionTypes' /\ Drawn'
  BY ManagedKept, SessionTypesKept
<1> QED
  BY <1>1, <1>2, PTL DEF SessionSpec

LEMMA SessionAlways ==
  ASSUME Reused \intersect SessionIds = {}
  PROVE  SessionSpec => []SessionInv
<1>1. SessionInit => SessionInv
  BY SessionInitInv
<1>2. SessionInv /\ [SessionNext]_managedVars => SessionInv'
  BY SessionStep
<1> QED
  BY <1>1, <1>2, PTL DEF SessionSpec

(* A create of a session that fails at any step, a close and a restart of  *)
(* either GenServer leave no container that neither the map nor the list   *)
(* of what was lost knows (session/manager.ex:119-124, 208-218), whatever  *)
(* clients do meanwhile, if they create no session id of their own.        *)
THEOREM SessionContainers ==
  ASSUME Reused \intersect SessionIds = {}
  PROVE  SessionSpec => []ContainersAccounted
<1>1. SessionInv => ContainersAccounted
  BY DEF SessionInv
<1>2. SessionSpec => []SessionInv
  BY SessionAlways
<1> QED
  BY <1>1, <1>2, PTL

(* The ip a session keeps stays that of its container, and no guest of     *)
(* another container is ever up on it (session/manager.ex:152-163).        *)
THEOREM SessionGuest ==
  ASSUME Reused \intersect SessionIds = {}
  PROVE  SessionSpec => []SessionOnOwnGuest
<1>1. SessionInv => SessionOnOwnGuest
  <2> SUFFICES ASSUME SessionInv, NEW c \in sessions, Present(c)
               PROVE  /\ session_ip[c] = ip[c]
                      /\ \A p \in booted : address[p] = session_ip[c] => socket[p] = c
    BY DEF SessionOnOwnGuest
  <2>1. session_ip[c] = ip[c]
    BY DEF SessionInv, SessionIps
  <2>2. c \in Containers /\ booted \subseteq alive
    BY SessionAssumption DEF SessionInv, SessionTypes, SessionTypeOK, Managed, ManagerInv, NodeTypes
  <2> QED
    BY <2>1, <2>2 DEF SessionInv, Managed, Processes
<1>2. SessionSpec => []SessionInv
  BY SessionAlways
<1> QED
  BY <1>1, <1>2, PTL

(* Whatever the session manager and the clients beside it do, to the       *)
(* container manager it is calls it handles one by one: all that is proved *)
(* of ContainerManager holds under it, the lease of addresses included     *)
(* (session/manager.ex:117-146, 208-218, 276-312).                         *)
THEOREM SessionsManage == SessionSpec => Spec
<1>1. SessionInit => Init
  BY DEF SessionInit
<1>2. SessionTypes /\ [SessionNext]_managedVars => [Next]_vars
  BY ManagedStep DEF Next
<1> QED
  BY <1>1, <1>2, ManagedAlways, PTL DEF SessionSpec, Spec

(* The types of the map of sessions and of the handler that runs.          *)
THEOREM SessionTypeCorrect == SessionSpec => []SessionTypeOK
<1>1. SessionTypes => SessionTypeOK
  BY DEF SessionTypes
<1> QED
  BY <1>1, ManagedAlways, PTL

(* So closes, undone creates and health checks, beside the calls of other  *)
(* clients, leave no process without an entry, lose no report of a death   *)
(* and take no tap of a running VM.                                        *)
THEOREM SessionNodeSafe ==
  SessionSpec => [](TypeOK /\ ProcessesAccounted /\ DeathReported /\ RunningIsConnected)
  BY SessionsManage, ManagerSafe, PTL

(* And no address of a session is leaked, or given to another container    *)
(* (session/manager.ex:119-124, 208-218).                                  *)
THEOREM SessionAddresses ==
  ASSUME Reused = {}
  PROVE  SessionSpec => []AddressAccounting
<1>1. Spec => []AddressAccounting
  BY ManagerAddresses
<1> QED
  BY <1>1, SessionsManage, PTL

(* So the address pool is an exclusive lease beside sessions as well.      *)
THEOREM SessionPoolIsLease == SessionSpec => ImplementsLease
  BY SessionsManage, ManagerPoolIsLease, PTL
=============================================================================
