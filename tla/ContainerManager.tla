-------------------------- MODULE ContainerManager --------------------------
(***************************************************************************)
(* lib/zypi/container/manager.ex: the GenServer behind create, start, stop *)
(* and destroy, with what it calls: the ETS table of containers, the       *)
(* address pool, the rootfs copies of ImageStore and the Firecracker       *)
(* processes of lib/zypi/runtime/firecracker.ex.                           *)
(*                                                                         *)
(* A handler is one step: calls to the GenServer are served one at a time, *)
(* and only the death of a VM can fall into the middle of one, so a        *)
(* handler that sleeps chooses whether it did.  The table, the rootfs      *)
(* copies, the taps and the Firecracker processes outlive the GenServer;   *)
(* its state, its mailbox and the ports it owns do not.                    *)
(***************************************************************************)
EXTENDS IPPool, FiniteSets

CONSTANTS
  Containers,       \* container ids
  Ports,            \* bound: the Firecracker processes that exist at a time
  NoContainer, NoPort, NoAddress,
  Reused            \* the ids a client may create again while they exist

ASSUME ManagerAssumption ==
  /\ NoContainer \notin Containers /\ NoPort \notin Ports
  /\ Reused \subseteq Containers
  /\ NoAddress \notin Addresses

VARIABLES
  (* the table of containers: status ("absent": no entry) and ip           *)
  status, ip,
  (* the GenServer                                                         *)
  vm_states,            \* Containers -> the port in the VM state, or NoPort
  port_to_container,    \* Ports -> a container, or NoContainer
  exits,                \* the ports whose exit_status is in the mailbox
  (* the host                                                              *)
  rootfs,               \* the containers whose rootfs copy is on disk
  open,                 \* the ports the GenServer owns
  alive,                \* the ports whose Firecracker process lives
  booted,               \* those of them whose guest runs
  socket,               \* Ports -> the container in its --api-sock path
  address,              \* Ports -> the address it was configured with
  tap                   \* Containers -> the port attached to its tap

tableVars   == <<status, ip>>
managerVars == <<vm_states, port_to_container>>
processVars == <<open, alive, booted, exits>>
spawnVars   == <<socket, address>>
vars == <<ipVars, tableVars, managerVars, processVars, spawnVars, rootfs, tap>>

Present(c) == status[c] # "absent"

ProcessesOf(c) == {p \in alive : socket[p] = c}

Unused(p) ==
  /\ p \notin alive \union open \union exits
  /\ port_to_container[p] = NoContainer
  /\ \A c \in Containers : vm_states[c] # p

Init ==
  /\ PoolInit
  /\ status = [c \in Containers |-> "absent"]
  /\ ip = [c \in Containers |-> NoAddress]
  /\ vm_states = [c \in Containers |-> NoPort]
  /\ port_to_container = [p \in Ports |-> NoContainer]
  /\ exits = {} /\ rootfs = {} /\ open = {} /\ alive = {} /\ booted = {}
  /\ socket = [p \in Ports |-> NoContainer]
  /\ address = [p \in Ports |-> NoAddress]
  /\ tap = [c \in Containers |-> NoPort]

-----------------------------------------------------------------------------
(* The processes of S die after the ports of closed were closed: a port    *)
(* that is open when its process dies reports it.                          *)
Die(S, closed) ==
  /\ alive' = alive \ S
  /\ booted' = booted \ S
  /\ open' = open \ (S \union closed)
  /\ exits' = exits \union ((S \cap open) \ closed)

(* Mutant: only the VM in the state is killed.                             *)
RuntimeCleanupOne(c) ==
  /\ Die(ProcessesOf(c) \cap {vm_states[c]}, {})
  /\ tap' = [tap EXCEPT ![c] = NoPort]

(* Firecracker.cleanup: pkill by the socket path, which every process ever *)
(* spawned for c has.                                                      *)
RuntimeCleanup(c) ==
  /\ Die(ProcessesOf(c), {})
  /\ tap' = [tap EXCEPT ![c] = NoPort]

(* Firecracker.stop: Ctrl-Alt-Del, 500 ms in which the guest may exit, the *)
(* port closed, the tap deleted, then cleanup.                             *)
RuntimeStop(c) ==
  /\ \E late \in SUBSET {vm_states[c]} : Die(ProcessesOf(c), {vm_states[c]} \ late)
  /\ tap' = [tap EXCEPT ![c] = NoPort]

(* The GenServer raises and is restarted: its state and mailbox are gone   *)
(* and its ports closed, which does not kill the processes behind them.    *)
Restarted ==
  /\ vm_states' = [c \in Containers |-> NoPort]
  /\ port_to_container' = [p \in Ports |-> NoContainer]

RestartedPorts == open' = {} /\ exits' = {}

-----------------------------------------------------------------------------
(* {:create, c}.  Nothing asks whether c exists: the rootfs is copied, an  *)
(* address leased and the entry written over the old one.                  *)
MayCreate(c) == Present(c) => c \in Reused

CreateFrame == UNCHANGED <<alive, booted, spawnVars, tap>>

CreateOk(c) ==
  /\ MayCreate(c)
  /\ rootfs' = rootfs \union {c}
  /\ \E a \in Addresses : AcquireAddress(a) /\ ip' = [ip EXCEPT ![c] = a]
  /\ status' = [status EXCEPT ![c] = "created"]
  /\ UNCHANGED <<managerVars, open, exits>>
  /\ CreateFrame

(* The copy failed, and its directory is removed; a missing image changes  *)
(* nothing.                                                                *)
CreateNoRootfs(c) ==
  /\ MayCreate(c)
  /\ rootfs' = rootfs \ {c}
  /\ UNCHANGED <<ipVars, tableVars, managerVars, open, exits>>
  /\ CreateFrame

(* No address is left: the rootfs copy stays behind.                       *)
CreateNoAddress(c) ==
  /\ MayCreate(c)
  /\ Exhausted
  /\ rootfs' = rootfs \union {c}
  /\ UNCHANGED <<tableVars, managerVars, open, exits>>
  /\ CreateFrame

(* The copy takes longer than the 30 s of the call: the GenServer exits.   *)
CreateCrash(c) ==
  /\ MayCreate(c)
  /\ rootfs' = rootfs \union {c}
  /\ Restarted /\ RestartedPorts
  /\ UNCHANGED <<ipVars, tableVars>>
  /\ CreateFrame

-----------------------------------------------------------------------------
(* {:start, c}.  A tap serves one process; one left by a dead process is   *)
(* taken over.  A failed start deletes the tap and nothing else: the       *)
(* process it spawned lives on, its port open and known to nobody.         *)

(* Mutant: a running container is started again.                           *)
MayStartAgain(c) == Present(c) /\ c \in rootfs

MayStart(c) == Present(c) /\ status[c] # "running" /\ c \in rootfs

Spawn(c, p) ==
  /\ Unused(p)
  /\ alive' = alive \union {p}
  /\ socket' = [socket EXCEPT ![p] = c]
  /\ address' = [address EXCEPT ![p] = ip[c]]

(* Mutant: the port is looked up under the wrong key of the VM state.      *)
RegisterNothing(c, p) ==
  /\ vm_states' = [vm_states EXCEPT ![c] = p]
  /\ UNCHANGED port_to_container

Register(c, p) ==
  /\ vm_states' = [vm_states EXCEPT ![c] = p]
  /\ port_to_container' = [port_to_container EXCEPT ![p] = c]

StartFrame == UNCHANGED <<ipVars, rootfs, ip>>

StartOk(c, p) ==
  /\ MayStart(c)
  /\ tap[c] = NoPort
  /\ Spawn(c, p)
  /\ booted' = booted \union {p} /\ open' = open \union {p}
  /\ tap' = [tap EXCEPT ![c] = p]
  /\ Register(c, p)
  /\ status' = [status EXCEPT ![c] = "running"]
  /\ UNCHANGED exits
  /\ StartFrame

(* The process is up when the socket times out or a request to it fails;   *)
(* a guest whose InstanceStart was not answered in time may run.           *)
StartFails(c, p) ==
  /\ MayStart(c)
  /\ Spawn(c, p)
  /\ open' = open \union {p}
  /\ \/ booted' = booted
     \/ tap[c] = NoPort /\ booted' = booted \union {p}
  /\ tap' = [tap EXCEPT ![c] = NoPort]
  /\ UNCHANGED <<status, managerVars, exits>>
  /\ StartFrame

(* The process dies at once.                                               *)
StartDies(c) ==
  /\ MayStart(c)
  /\ tap' = [tap EXCEPT ![c] = NoPort]
  /\ UNCHANGED <<status, managerVars, processVars, spawnVars>>
  /\ StartFrame

(* A send to the socket of a process that has just died raises.            *)
StartCrash(c) ==
  /\ MayStart(c)
  /\ Restarted /\ RestartedPorts
  /\ UNCHANGED <<status, alive, booted, spawnVars, tap>>
  /\ StartFrame

-----------------------------------------------------------------------------
(* {:stop, c}: the VM state is dropped whatever do_stop did.               *)
StopFrame == UNCHANGED <<ipVars, rootfs, ip, spawnVars, port_to_container>>

StopIdle(c) ==
  /\ status[c] \in {"created", "stopped", "exited"}
  /\ vm_states' = [vm_states EXCEPT ![c] = NoPort]
  /\ UNCHANGED <<status, processVars, tap>>
  /\ StopFrame

StopRunning(c) ==
  /\ status[c] = "running"
  /\ \/ vm_states[c] # NoPort /\ RuntimeStop(c)
     \/ vm_states[c] = NoPort /\ UNCHANGED <<processVars, tap>>
  /\ status' = [status EXCEPT ![c] = "stopped"]
  /\ vm_states' = [vm_states EXCEPT ![c] = NoPort]
  /\ StopFrame

-----------------------------------------------------------------------------
(* Mutant: the address is not returned.                                    *)
DiscardKeepsAddress(c) ==
  /\ rootfs' = rootfs \ {c}
  /\ status' = [status EXCEPT ![c] = "absent"]
  /\ ip' = [ip EXCEPT ![c] = NoAddress]
  /\ UNCHANGED ipVars

Discard(c) ==
  /\ rootfs' = rootfs \ {c}
  /\ ReleaseAddress(ip[c])
  /\ status' = [status EXCEPT ![c] = "absent"]
  /\ ip' = [ip EXCEPT ![c] = NoAddress]

(* {:destroy, c} of a container with no VM state.                          *)
Destroy(c) ==
  /\ Present(c) /\ vm_states[c] = NoPort
  /\ RuntimeCleanup(c)
  /\ Discard(c)
  /\ UNCHANGED <<managerVars, spawnVars>>

(* With a VM state: the container is destroyed, and then the handler reads *)
(* vm_state.fc_port, a key no runtime sets, and the GenServer raises.      *)
DestroyRaises(c) ==
  /\ Present(c) /\ vm_states[c] # NoPort
  /\ alive' = alive \ ProcessesOf(c)
  /\ booted' = booted \ ProcessesOf(c)
  /\ tap' = [tap EXCEPT ![c] = NoPort]
  /\ Discard(c)
  /\ Restarted /\ RestartedPorts
  /\ UNCHANGED spawnVars

(* The call to ImageStore times out (5 s): the VM is down, the rootfs goes *)
(* when ImageStore gets to it, the entry and its address stay.             *)
DestroyCrash(c) ==
  /\ Present(c)
  /\ alive' = alive \ ProcessesOf(c)
  /\ booted' = booted \ ProcessesOf(c)
  /\ tap' = [tap EXCEPT ![c] = NoPort]
  /\ rootfs' = rootfs \ {c}
  /\ Restarted /\ RestartedPorts
  /\ UNCHANGED <<ipVars, tableVars, spawnVars>>

-----------------------------------------------------------------------------
(* A Firecracker process ends: its guest reboots, panics or is killed.     *)
ProcessDies(p) ==
  /\ p \in alive
  /\ Die({p}, {})
  /\ tap' = [c \in Containers |-> IF tap[c] = p THEN NoPort ELSE tap[c]]
  /\ UNCHANGED <<ipVars, tableVars, managerVars, spawnVars, rootfs>>

(* Mutant: the entry keeps its status.                                     *)
MarkExitedNothing(c) == UNCHANGED status

MarkExited(c) ==
  status' = [status EXCEPT ![c] = IF Present(c) THEN "exited" ELSE "absent"]

(* handle_info({port, {:exit_status, _}}).                                 *)
PortExit(p) ==
  /\ p \in exits
  /\ exits' = exits \ {p}
  /\ port_to_container' = [port_to_container EXCEPT ![p] = NoContainer]
  /\ \/ port_to_container[p] = NoContainer /\ UNCHANGED status
     \/ port_to_container[p] # NoContainer /\ MarkExited(port_to_container[p])
  /\ UNCHANGED <<ipVars, ip, vm_states, open, alive, booted, spawnVars, rootfs, tap>>

-----------------------------------------------------------------------------
(* The calls that end in an answer, and those in which the GenServer ends. *)
Answered(c) ==
  \/ CreateOk(c) \/ CreateNoRootfs(c) \/ CreateNoAddress(c)
  \/ \E p \in Ports : StartOk(c, p) \/ StartFails(c, p)
  \/ StartDies(c)
  \/ StopIdle(c) \/ StopRunning(c)
  \/ Destroy(c)

Crashed(c) ==
  CreateCrash(c) \/ StartCrash(c) \/ DestroyRaises(c) \/ DestroyCrash(c)

Serve(c) == Answered(c) \/ Crashed(c)

Next ==
  \/ \E c \in Containers : Serve(c)
  \/ \E p \in Ports : ProcessDies(p) \/ PortExit(p)

Spec == Init /\ [][Next]_vars

-----------------------------------------------------------------------------
TypeOK ==
  /\ PoolTypeOK
  /\ status \in [Containers -> {"absent", "created", "running", "stopped", "exited"}]
  /\ ip \in [Containers -> Addresses \union {NoAddress}]
  /\ vm_states \in [Containers -> Ports \union {NoPort}]
  /\ port_to_container \in [Ports -> Containers \union {NoContainer}]
  /\ exits \subseteq Ports \ open /\ open \subseteq alive
  /\ rootfs \subseteq Containers
  /\ alive \subseteq Ports /\ booted \subseteq alive
  /\ socket \in [Ports -> Containers \union {NoContainer}]
  /\ address \in [Ports -> Addresses \union {NoAddress}]
  /\ tap \in [Containers -> Ports \union {NoPort}]

(* The leased addresses are those of the containers in the table, each its *)
(* own, however creates, starts, destroys and the GenServer itself fail.   *)
(* When no id is created twice: do_create would overwrite the old entry    *)
(* and forget its address (manager.ex:330-348).                            *)
AddressAccounting ==
  /\ allocated = {ip[c] : c \in {d \in Containers : Present(d)}}
  /\ \A c, d \in Containers : Present(c) /\ Present(d) /\ ip[c] = ip[d] => c = d

(* No process outlives its container, and none is on an address the pool   *)
(* may give to another one: also not the processes of failed starts, those *)
(* an earlier GenServer spawned, or those of an overwritten entry, none of *)
(* which the GenServer knows when it destroys (manager.ex:362-375).        *)
ProcessesAccounted ==
  /\ \A p \in alive : Present(socket[p]) /\ address[p] \in allocated
  /\ \A p, q \in alive : address[p] = address[q] => socket[p] = socket[q]

(* A running container whose VM the GenServer knows has that VM, or the    *)
(* exit of it is on its way and will be attributed to it.                  *)
DeathReported ==
  \A c \in Containers : status[c] = "running" /\ vm_states[c] # NoPort =>
    LET p == vm_states[c] IN
    /\ p \in (open \cap booted) \union exits
    /\ port_to_container[p] = c

(* ... and its tap: no failed start of c takes it away (manager.ex:314).   *)
RunningIsConnected ==
  \A c \in Containers :
    status[c] = "running" /\ vm_states[c] \in alive => tap[c] = vm_states[c]

(* A VM that dies is noticed: the entry does not say :running for ever.    *)
DeathNoticed ==
  \A c \in Containers : \A p \in Ports :
    (status[c] = "running" /\ vm_states[c] = p /\ p \notin alive)
      ~> (status[c] # "running" \/ vm_states[c] # p)

=============================================================================
