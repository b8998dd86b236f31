# Zypi in TLA+

Zypi runs commands in Firecracker micro-VMs: an Elixir/OTP daemon keeps a pool
of warm VMs, containers with a VM each, images imported from OCI layers, and
sessions on top of containers. Beside it live a Python client and two Python
packages that patch `subprocess` so that shell commands run in those VMs. These
modules model the state machines of the daemon (`src/lib/zypi`), of the guest
agent and of the Python side, TLC checks them on small instances, and TLAPS
proves the safety properties of those runs for all instances.

    tlc -config MCVMPool_lease.cfg MCVMPool.tla     # a run
    tlapm VMPoolProofs.tla                          # the proofs of a module

`PROJECT.json` lists the components, the runs with their properties, for every
checked property a mutant of the model that breaks it, the source lines each
definition stands for, the hazards and the findings.

## 1. The system

One BEAM node, one supervision tree (`application.ex:19`): tables (Store),
pools (Pool), Cluster, Image, Container, Session.Manager, Scheduler,
System.Cleanup, API. Every stateful part is a GenServer that handles one
message at a time; concurrency comes from processes they spawn, from calls
between them that time out, from ETS tables read without a lock, and from the
Firecracker processes, which live outside the node and outlive it. On the other
end of HTTP, a Python program is threads that call functions of `subprocess`
while one of them replaces these functions.

| component | state | operations | talks to | what is hard | what makes it correct |
|---|---|---|---|---|---|
| address pool `pool/ip_pool.ex` | free list, allocated set | acquire, release | used by VM pool and manager | releases are casts, repeated and from paths that each think they own the address | no address lost or doubled |
| VM pool `pool/vm_pool.ex` | slots, warm queue, pending boots | acquire, release, destroy, warm_for_image, refill timer, health timer, boot and recycle reports | address pool, Firecracker, guest agent; spawns unlinked processes to boot, recycle, destroy | reports arriving after the slot changed; stale pings; a boot that fails at any of five points; calls that time out and are served later | a leased VM and its address belong to one run; every leased address has one VM; the queue holds only warm VMs, once; VMs come back |
| executor `executor.ex` | none (one process per run) | acquire, upload, exec, release | VM pool, agent | failure between acquire and release | a run returns its VM |
| container manager `container/manager.ex` | VM states, port map, output buffers, subscribers | create, start, stop, destroy, exit reports | tables, address pool, image store, Firecracker | it raises half way; its state is lost and the processes, ports, taps and table are not | addresses, processes and taps accounted; deaths noticed |
| container table `store/containers.ex` | ETS | put, update, delete | manager, cleanup, agent | survives the manager, not the node | - |
| Firecracker `runtime/firecracker.ex` | OS processes, taps, sockets | start, stop, cleanup | manager, VM pool | partial start; late exit | - |
| image importer `image/importer.ex` | queue, active slots; shared image and cache files | queue_import, completion, stale timer | image table, image store | tasks that raise; two imports of one ref; a cache file being filled | slots accounted; queued imports finish; registered images are whole |
| image store `pool/image_store.ex`, image table `store/images.ex` | images, rootfs copies | put, delete, snapshot | importer, manager | deletion while an import finishes | - |
| system cleanup `system/cleanup.ex` | none | a sweep every minute | table, pool, OS processes, directories | acts on a list it read before | kills and deletes only what nobody uses; orphans go |
| session manager `session/manager.ex` | sessions | create, exec, close, close_agent, idle and health timers | manager, agent | several calls in one handler; the other side raises or exits; other clients use the same containers | no container without an owner; a session reaches its own guest |
| guest agent `guest-agent/zypi-agent.go`, client `container/agent.ex` | connection count, in-flight count; the client keeps none | accept, read, handle, write; commands, shutdown; call | the Go runtime and kernel of the guest | two atomic counters and many goroutines; callers that give up or go away; a shutdown beside requests; units of timeouts | counts exact; slots come back; a shutdown waits for what is handled, not for ever |
| attach stream `api/router.ex:237` | buffer and subscribers in the manager | subscribe, read what is kept, relay, unsubscribe | container manager | output, exits, restarts between the calls | nothing the log shows is missed, in order; chunks and exits reach who is attached |
| console `container/console.ex`, `api/console_socket.ex` | buffers, connections | connect, input, output | manager | (no code starts a console, so the socket always answers that there is none) | |
| HTTP API `api/router.ex` | none; a loop and a task for an event stream | the callers of all of the above | executor, manager, sessions | two deadlines, a silent stream | a stream that ends has said how |
| Python client `zypi_client.py` | none | exec, exec_streaming, session_* | HTTP API | limits equal to the command's; answers that come after the client left | a command runs once; a session nobody has the id of goes |
| Python sandboxes `bubbleproc.py`, `_sandbox.py` | originals, flag, configuration; the module `subprocess` | patch, unpatch, seven wrappers, Sandbox, run | client, `subprocess` | functions replaced one by one under running calls; originals that find the next by name; failures turned into codes | a shell command never reaches the host while patched; success is never made up; unpatch undoes patch |
| cluster, scheduler | node table | stubs | | | |

Other parts (other runtimes, scripts, statistics, the init generator, the
example `hello-zippy`) share no state with these or only observe them; they are
in `PROJECT.json` with the reason they are left out.

## 2. The modules

    AddressLease  <=refines=  IPPool                 Importer
                                |  EXTENDS           GuestAgent
                 +--------------+---------+          OutputStreams
    VMSlots  <=  VMPool           ContainerManager
      refines
                                    |  EXTENDS
                            +-------+--------+
                      SystemCleanup    SessionManager

    ZypiClient
        |  EXTENDS
    PatchedSubprocess      ClientSessions      ExecStream
        |  EXTENDS   \          |  EXTENDS        |
    Bubbleproc, Sandbox  --->  PythonProgram  <---+
                 INSTANCE

| module | models |
|---|---|
| `AddressLease` | the abstract promise of the address pool: a set of leased addresses, none leased to two at once |
| `VMSlots` | the abstract promise of the VM pool: a VM is offered once, goes from run to run only through a recycle, and is gone for good when it goes |
| `IPPool` | `pool/ip_pool.ex`: the free list and the allocated set; both its users below take its operations into their steps |
| `VMPool` | `pool/vm_pool.ex` with the processes it spawns, the address pool, and `Executor.run` as its caller |
| `ContainerManager` | `container/manager.ex` with the table, the address pool, rootfs copies, Firecracker processes, ports and taps |
| `SystemCleanup` | `system/cleanup.ex` beside `ContainerManager`, and the restart of the node |
| `SessionManager` | `session/manager.ex` as a client of `ContainerManager`, beside the clients of the API |
| `Importer` | `image/importer.ex` with its tasks, the files they share and the deletion of images |
| `GuestAgent` | `zypi-agent.go`: acceptor, connections, commands, shutdown; and the calls of `container/agent.ex` |
| `OutputStreams` | output of one container from its VMs to the log and to the requests attached to it |
| `ZypiClient` | a one-shot command: `POST /exec`, its time limit, and the server as the client sees it |
| `PatchedSubprocess` | what the two packages share: the module `subprocess` and its replacement name by name, and the way of a call through library functions and wrappers |
| `Bubbleproc`, `Sandbox` | `bubbleproc.py` and `_sandbox.py`: the wrappers, what they send to the sandbox, what they make of its failures |
| `ClientSessions` | the sessions of `zypi_client.py` beside the mailbox of `Session.Manager` |
| `ExecStream` | `exec_streaming` and `session_exec_streaming` beside `do_sse_loop` of the router |
| `PythonProgram` | the composition of these, their properties and their fairness |
| `MCVMPool`, `MCNode`, `MCImporter`, `MCGuestAgent` | instances for TLC: symmetry sets and functions a cfg cannot write |
| `IPPoolProofs`, `VMPoolProofs`, `NodeProofs`, `ImporterProofs`, `GuestAgentProofs`, `StreamProofs`, `PythonProofs` | theorems and their lemmas; `NodeProofs` is about `ContainerManager`, `SystemCleanup` and `SessionManager`, `PythonProofs` about the Python program and `ExecStream` |
| `DistinctSequences` | lemmas on sequences without repetition: append, head, tail, deletion |

### How state and actions correspond to the code

**VMPool.** `status`, `container_id`, `health_failures` are the slots of the
`vms` map (`"absent"`: no key), `warm_queue` and `pending_boots` the fields of
the same names. A boot task is a program counter `boot[v]` with the steps
another process can observe: lease (`boot_warm_vm`), guest up (`start`), probe
(`wait_for_agent`), and either the report, or stop, return of the address,
report of failure; it may raise instead and never report (`BootCrash`).
Recycling is a count per VM, its reports are counts too; `reaper[v]` is the
process that `do_destroy` spawns. Messages from different processes are not
ordered by Erlang and the model handles them in any order. `Reachable(v)` is a
TCP dial of the address of `v`: whoever is up on it answers. A run of the
executor is `pc[c]`; an acquire that times out leaves its request in the mailbox
(`RunTimeout`). Handling an acquire pings one VM after the other, each ping up to
4 s long, so it is a step for each: `acquiring` is the request being handled, and
until it is answered the GenServer does nothing else (`Idle`), while boots,
recycles, deaths and timeouts of callers go on. `GuestDies` is any death of a guest, a kill by a sweep included.

**ContainerManager.** A handler is one action, since callers are served one at
a time; the death of a VM during a handler that sleeps is a choice in it. A
Firecracker process is a member of `Ports` (its Erlang port), with the id in its
socket path, its address and whether its guest booted. `Restarted` is the crash
of the GenServer: `vm_states`, `port_to_container`, the mailbox and the ports
go, the table, addresses, rootfs copies, taps and processes stay. Each handler
has an action for every way it ends.

**SystemCleanup.** A sweep is three steps: reading the active ids, killing,
deleting, between which the GenServer goes on.

**SessionManager.** A handler is a sequence of steps (`task`), one for each call
it makes; the actions of `ContainerManager` are what those calls do. `Restart`
is the exit of this GenServer, which happens whenever a call of it exits.

**Importer.** Tasks are program counters; image and cache files are absent,
partial, whole or mixed; the build or copy of a file and its completion are
separate steps, so another task may see it half written.

**GuestAgent.** An atomic operation of a goroutine is a step. `conn[k]` is the
program counter of the goroutine of a connection, `caller[k]` that of the
call on the host, `grace[k]` that of the goroutine of a shutdown; `proc` and
`held` are the command and whether a child of it keeps its output open, which
`cmd.Run` waits for. A call of exec and its command have clocks (`waited`,
`elapsed`), which `Tick` moves on by a millisecond: the caller waits `Timeout` of
them, the guest lets the command run for `KillAfter`, as many seconds.

**OutputStreams.** The chunks are numbered as written, `Exit` is the exit
status. A port sends its messages in order and the GenServer has one mailbox;
the two calls of `attach` are two steps. `inbox[c]` is the mailbox of the
request's process, `snapshot[c]` and `relayed[c]` what its client has got.

**PatchedSubprocess, Bubbleproc, Sandbox.** `subprocess[n]` is how many wrappers
lie over the function of the library that is bound to the name `n`, so 0 is the
original; `originals`, `patched` and `patch_config` are the globals of the
package. Each assignment of `patch_subprocess` and `unpatch_subprocess` is a
step (`patcher`), since another thread may call between any two. A call is a
stack: `frame[c]` is the function that runs and where in it, `stack[c]` the
library functions that wait. What the library does (`run` opens `Popen`,
`check_output` calls `run`, and so on, by name in the module) is external and
modelled because wrappers are met half way through it. A caller may hold a
reference from before the patch (`kept`). `ran[c]` records every start of the
command, in a VM or on the host; `result[c]` is what the caller is told.
Arguments are the seven kinds the wrappers tell apart.

**ZypiClient.** A request is posted, runs, is answered or fails, each a step of
the server; the client gives up at any time in between, and the server does not
notice. `Unpacks` is FALSE because `ExecResult` has no `__iter__`.

**ClientSessions.** `mailbox` is that of the GenServer; a client, or the router
on its behalf, gives up (`GiveUp`) and its request is served all the same. `known`
are the ids some client was given.

**ExecStream.** Time is counted in units of five seconds, the keepalive interval:
`clock` runs from the start of the task and `quiet` from the last byte the client
read. The keepalive itself is absent because no poll ever finds it due.

## 3. What the runs check

| run | what it asks | properties |
|---|---|---|
| `pool_lease` | two runs, four VMs, two addresses, refills of two and warming by request: are leases of VMs and addresses exclusive and complete? | `ImplementsLease` (refinement of `AddressLease`), `ImplementsSlots` (refinement of `VMSlots`), `AddressAccounting`, `NoSharedAddress`, `QueueSound`, `LeaseExclusive`, `PendingAccounting`, `TotalBound` |
| `pool_live` | with operator destroys and warming by request, and an acquire that meets dead VMs one after the other: does everything that begins end? | `CallsAnswered`, `BootsSettle`, `RunReturnsVM`, `DeadWarmEvicted`, `DestroyedReclaimed` |
| `node_safe` | two containers under failing calls, dying VMs, restarts of the manager and of the node, and sweeps | `AddressAccounting`, `ServedProcessesAccounted`, `DeathReported`, `RunningIsConnected` |
| `node_live` | the same with one container whose id is created again while it exists | `OrphansCollected`, `DeathNoticed`, `ServedProcessesAccounted` |
| `importer` | three imports of their own, two slots, failures, a crash; or two imports of one ref with the same layers and a deletion between | `SlotsAccounted`, `ImagesWhole`, `ImportsFinish`, `CrashedMarkedFailed` |
| `session` | two sessions beside clients that use the same containers | `ContainersAccounted`, `SessionOnOwnGuest`, `HandlersEnd` |
| `guest_agent` | a command, a shutdown and a silent probe in an agent of two connections | `ConnectionsCounted`, `GraceKept`, `SlotsComeBack`, `ShutdownHappens` |
| `streams` | an attached request while VMs write, exit, are stopped and replaced, and the manager restarts | `StreamWhole`, `OutputDelivered` |
| `python` | a program patches and unpatches `subprocess` with either package while it calls it, or uses sessions, or event streams, beside a server that is slow, fails or exits | `RunsOnce`, `Contained`, `AllOrNothing`, `SuccessTrue`, `StreamTold`, `CallsEnd`, `AbandonedCollected` |

All of these hold. Types are stated in `TypeOK` of the modules of the daemon and
proved; the runs spend their properties on other things. `Partition` of the
address pool is proved too, and what it says of leases is in `ImplementsLease`.
Three runs check what a document or a test of the repository says and the code
does not do:

| run | violated | why |
|---|---|---|
| `session_others` | closing sessions keeps the others | `Container.Manager.destroy` raises on a container with a VM (`manager.ex:171`), which exits the caller (`session/manager.ex:304`) |
| `guest_timeout` | the caller of a command learns that it timed out | the caller waits as many milliseconds (`agent.ex:42, 252`) as the guest lets the command run seconds (`zypi-agent.go:283`) |
| `sandbox_success` | a command that ran well in its sandbox is reported so | `Sandbox.run` unpacks the object that `exec` returns (`zypi_client.py:112`, `bubbleproc.py:130`, `_sandbox.py:144`) |

Why some of the properties that hold do: *no shared address* in `VMPool`
depends on every path stopping the guest before it returns the address, or, when
a start fails, on the deleted tap (`firecracker.ex:90`): a process that is left
then has no network to answer on. `CallsAnswered` needs that the queue only gets
shorter while one acquire is handled, since reports wait in the mailbox. `TotalBound`
is what a refill of several and warming by request leave of `max_total`; in
`pool_lease` the pool passes `max_total` both ways.
`ServedProcessesAccounted` holds in spite of failed starts, restarts and overwritten
entries only because `destroy` kills by socket path and not by what the
GenServer knows, and after a restart of the node only because the supervisor
starts Cleanup, whose `init` sweeps, before the API. `SessionOnOwnGuest`
inherits that: it is about sessions whose container exists. `StreamWhole` needs
`attach` to subscribe before it reads; the price is that a chunk between the two
calls is sent twice, which the property allows. `Contained` holds for callers
that kept a function from before the patch, because the originals look up the
next one by name and end in the replaced `Popen`; whoever kept `Popen` itself is
the exception it names. `SuccessTrue` is about more than `Unpacks`: its proof does
not use that value, so it would hold with the object unpacked as intended too;
as the code is, 0 is only ever told of commands that ran on the host.
`StreamTold` needs that the server's deadline of a session stream (the timeout
and 5 s) comes before the client's read limit (the timeout and 10 s); for one-shot
streams the two are the other way round, and the client may time out first.

### Bounds

- In `pool_lease` VMs 4, runs 2, two addresses (`PoolSize` n gives addresses
  2..n, as in the code): a leased, a booting and a dying VM coexist, and fewer
  addresses than VMs make exhaustion happen. Each VM id and each session id is
  drawn once, as random ids are. In `pool_live` two VMs, one run, an address each.
- `MinWarm = 2` starts a refill of two in one step, with `MaxTotal = 1` and a
  request to warm one more (`WarmBudget = 1`) both of which pass that limit.
  `MaxWarm = 1` makes trimming happen. `MaxFailures` is 1 in `pool_lease`, which
  evicts soonest, and 2 in `pool_live`, where one failed ping must not be enough
  and a success in between resets the count.
- `WarmBudget`, `Destroyable`, `Reused`, `Wanted`, `MaxRestarts`, `MaxStarts`,
  `MaxChunks`, `Requests` bound what clients, operators and faults may do.
- Containers 2 and ports 2 (1 and 2 with liveness): two processes of one
  container, or one of each, are enough for every property that relates two.
- Imports 3 with 2 slots: one waits. `Wanted` has the two scenarios of the run. One crash, less than the slots: with as
  many crashes as slots the queue stops (section 5).
- `MaxConns` 2 with three calls: a connection is refused. One call may execute,
  one shut down, one sends nothing: each is what the others must survive. `Timeout`
  1 and two ticks to the `Second` instead of 1000: the caller is through its wait
  when the command is half way through its own. (With one tick to the second, the
  unit mended, the run still finds a caller that gave up: it starts to wait before
  the command starts, so it would have to wait for longer than the timeout.)
- `BufferSize` 2 with three chunks: the buffer overflows once. Two starts: a
  late exit of the first VM meets the second. One client: clients share only the
  subscriber set, from which each takes itself. (Two clients with two chunks
  and one start were checked too.)
- One call of `subprocess`: calls share only what the patch changes, which no call
  writes, and the proofs are for any number. Two images: the one that is
  configured and the one before. One thread patches; two would break
  `AllOrNothing` and `Contained`, and no document says that they may.
- One session and three requests: its creation, and what others do about it.
  (Two sessions with three requests, and one with four, were checked too.)
- `Timeout` 2: more than one unit, so that the limits differ in order.

Symmetry is used in `pool_lease` and `node_safe` only, which check no liveness.
`CHECK_DEADLOCK FALSE` is in the runs of the importer, the sessions, the agent,
the streams and the Python program, where every import, id or call may have been used and the
behaviour may end.

### Fairness

Weak fairness of a handler whose message is in the mailbox, of a timer that
re-arms itself, and of the next step of a process or goroutine: the Erlang and
Go schedulers run every runnable process, and the calls in those steps have
timeouts. None for clients, operators, deaths and crashes, except what a
client's own code bounds: a wait times out (`GiveUp`), a stream relays what is in its mailbox.
In the agent, deadlines pass and commands are killed at their timeout, but none
ends by itself and no caller goes away. `SessionLiveSpec` has it for the next
step of a handler: each of its calls is answered or exits. `CleanupLiveSpec` has
it for the minute timer. In `PythonProgram`, a call goes on by itself: it is one
thread, and the only thing it waits for, the answer to a request, has a time
limit; the server of one-shot commands has no fairness at all. The session
server serves (`Serve`), its cleanup timer fires and idle time passes; that it
exits is never assumed.

## 4. What is proved

Every invariant and every action property that a passing run checks is also a
theorem, and so are the refinements. The theorems are about all sets of VMs,
containers, processes, sessions, imports, calls, clients and images, and all
limits, sizes, timeouts and configurations that meet the assumptions next to the
constants (`PoolSizeAssumption`, `ConfigAssumption`, `NullAssumption`,
`ManagerAssumption`, `RestartAssumption`, `SessionAssumption`, `ImporterAssumption`, `AgentAssumption`, `StreamAssumption`,
`PatchAssumption`, `SessionsAssumption`, `TimeoutAssumption`), which TLC evaluates in the runs. Where a
theorem needs more, its statement says so and the table repeats it.

| theorem | says |
|---|---|
| `IPPoolProofs!PartitionInvariant`, `LeaseRefinement` | free list and allocated set partition the addresses, without repetition; the pool implements `AddressLease` |
| `VMPoolProofs!PoolPartition`, `PoolIsLease` | the same of the address pool as the VM pool uses it |
| `TypeCorrect` | types |
| `QueueIsSound` | queue entries are distinct and are exactly the warm slots |
| `AddressesAccounted` | each leased address has exactly one VM answerable for it |
| `GuestsApart` | no two guests are up on one address |
| `LeaseIsExclusive` (no operator destroys) | a run has its VM and its address to itself until it ends |
| `SlotRefinement` | the VM pool implements `VMSlots`, with or without operator destroys |
| `PendingCounted`, `TotalBounded` (finitely many VMs) | `pending_boots` counts the boots under way and the lost ones; the bound on VMs that remains of `max_total` |
| `NodeProofs!NodeTypeCorrect` | types of the manager, its processes and the sweep |
| `NodeAddresses` (no id created twice) | the leased addresses are those of the table, one entry each |
| `ServedProcesses` | while requests are served, every Firecracker process has an entry, and its address is leased and no other entry's |
| `DeathsReported` | a running container has its VM, or the report of its death is on the way |
| `RunningConnected` | a running container with a living VM has its tap |
| `ManagerSafe`, `ManagerAddresses` (no id created twice) | the same of the manager without the sweeps |
| `ManagerPoolIsLease`, `NodePoolIsLease` | the address pool in the manager implements `AddressLease`; with restarts of the node too, each of which begins it anew |
| `SessionContainers`, `SessionGuest` (clients do not create session ids) | no container of a session is forgotten; a session reaches its own guest |
| `SessionTypeCorrect` | types of the session manager |
| `SessionsManage`, `SessionPoolIsLease`, `SessionNodeSafe`, `SessionAddresses` (no id created twice) | `SessionManager` implements `ContainerManager`, and so `AddressLease` and what the manager's theorems say |
| `ImporterProofs!SlotsHeld` | slots, limit and queue, for imports of different refs |
| `WholeImages` | registered images are whole and from their own layers, for different refs and layers |
| `GuestAgentProofs!AgentTypes`, `CountsConnections`, `ShutdownWaits` | counters do not go below zero; `connCount` is the number of connections, at most `MaxConns` are handled; a shutdown waits for what executes or for its grace period |
| `StreamProofs!StreamTypeCorrect`, `StreamIsWhole` | types; an attached request has, in order, everything the log shows |
| `PythonProofs!StartedOnce` | no command is started twice |
| `CallsContained` | a shell command called while the functions are replaced never reaches the host, whichever originals and wrappers it goes through |
| `PatchedAllOrNothing` | between patches all seven functions are replaced, or none |
| `SuccessIsTrue` | 0 is told only of commands that ran to 0 |
| `StreamIsTold`, `ProgramStreamTold` | a stream that ends well has said how its command ended, alone and in the program |

The assumptions that are not in the modules are these. `Destroyable = {}` and
`Reused = {}` leave out what the code allows and what these two properties cannot
survive, as TLC shows when the runs are given such a VM or id: an operator's destroy
takes a VM from the run that has it, and creating an id that exists overwrites its
entry, whose address stays leased (`manager.ex:330-346`).
`Reused \intersect SessionIds = {}` says that clients do not create the ids of
sessions, which are random. That the VMs are finitely many is needed to count
them; ids are drawn one at a time, so at any moment finitely many have been used.

**IPPool.** `Partition` is not inductive with sets alone: returning an address
must not double it in the free list, so the invariant carries that the list is
without repetitions. `DistinctSequences` holds the lemmas on appending to,
taking the head of and deleting from such sequences, by index arguments, since
induction over sequences is not available to the prover.

**VMPool.** The inductive invariant is built in layers, each proved with those
below it: *Base* (types, address pool partition), *Life* (which states of the
boot task, slot, reaper, recycle tasks and queue go together: a slot exists only
after the task reported success, a reaper only after the slot was dropped, the
queue is exactly the warm slots), *Account* (each leased address has one holder:
a boot task, slot or reaper that has not returned it; a guest is up only with
such an address), *Holds* (a run between acquire and release is the container
of an assigned slot). The last needs that nothing but the run itself releases its
VM, hence its assumption `Destroyable = {}`: `destroy` by an operator takes a
leased VM away by design. For each layer there is one step per action; actions
that leave a layer's variables alone share a lemma. The refinement of `VMSlots`
takes the other way round: it allows for operators, and each step of the pool is
shown to be one of Offer, Assign, End, Return, Renew and Lose, or none. It is here
that a report which comes late must find its slot changed and do nothing.
`PendingCounted` and `TotalBounded` follow the sets that are counted through each
action; a step moves at most one VM between them, but for a refill, which starts
several boots at once.

**ContainerManager, SystemCleanup.** The handlers are taken one by one, whoever
calls them, against `ManagerInv`: `Leases` (each entry's address is leased and its
own) and `Vms`. In the latter, `DeathReported` and `RunningIsConnected` are not
inductive without `OwnVM`: the VM that the GenServer has for a container was
spawned for it, hence its report is attributed to it. `Processes` says what a
process needs to be found again: its socket is that of an entry and its address is
leased and of no other entry. It is stronger than `ServedProcessesAccounted`, which
does not say what happens when an entry's address is returned while a process is
left on it. `Processes` does not hold after a restart of the node, when the
table is empty and the processes live; so `CleanupInv` has it only while requests
are served, and `Starting` says of the time before that nothing is in the table,
that the sweep in `init` therefore spares nobody, and that after it nothing lives.
A sweep that read its list early and kills late is harmless to `Processes`,
`Leases` and `Vms`, since killing only makes reports and deleting removes files.

**SessionManager.** `SessionInv` is `ManagerInv`, `Processes`, `ContainersAccounted`
and: ids are drawn once (`Drawn`), the id of a create under way is not in the
table until its call is made (`Fresh`), and a session's address is its container's
while that exists (`SessionIps`). The handlers' lemmas serve again, as
each step of the session manager is one call of a handler or none.
The same fact makes `SessionSpec` imply `Spec` of `ContainerManager`, with
types alone, so that theorems about the manager need no second proof.

**Importer.** `SlotInv` holds for imports of different refs only, as imports of one
ref share a slot: there the map of slots is the set of imports that run, crashed
or reported (`SlotOf`), the queue is the waiting imports, each once, and is empty
unless the slots are full (`Limit`). For `ImagesWhole` the invariant says that
until an import has written its image nobody else is at its file or its cache entry
(`Alone`), which needs that layers differ too: the cache is by layers.

**GuestAgent.** `Counters` equates both atomic counters with the number of
connections they stand for. The limit does not follow from that: the acceptor
compares a count it read earlier. `Admission` says that this count may only be
too high: with a connection being decided, those handled and it are at most
`current`. `GraceKept` needs only that `inFlight` is the number of executing
requests, so that 0 means none. The clocks are bounded by their deadlines
(`ClocksBounded`) because time does not pass a deadline that is due.

**OutputStreams.** What is kept for the log is newest first, all of it is older than
what waits in the mailbox (`Kept`, `Waiting`), and so is what a subscriber has been sent
(`Ordered`). `Complete` says that the log is covered by the snapshot and what was
sent since, which a chunk keeps because it goes to the buffer and to every
subscriber in one handler. The buffer drops its oldest, so `Complete` only gets easier.

**ExecStream.** `StreamInv` relates what the client has been sent to where the
server is: nothing is sent while the loop runs, and `quiet` is at most `clock`,
which is at most the deadline. So the read limit, when it is longer than the
deadline, is not reached.

**PythonProgram.** `PatchInv` is about the patching thread: the names it has not
come to are of the old sort, the others of the new, and the originals are what
the library had. `ImageInv` is about the configuration: while a function is
replaced it is what was asked for, and calls that count as made under a settled
patch exist only then. The rest is per call: `Started` (it ran at most once, and
not before its request or its start), `Chain` (each library function that waits
called the one that runs), `Tells` (what a function that returns may say, given
what ran) and `Apart` (a call on its way to the sandbox is not on its way to the
host). The two packages differ in their wrappers and not in what these move, so
each action of `Bubbleproc` and `Sandbox` is first shown to be one of a few
`Moves`, and that the moves keep the invariant is proved once for both.

Model-checked only: liveness, since fairness is stated with ENABLED, which is beyond
the prover. It is `CallsAnswered`, `BootsSettle`, `RunReturnsVM`, `DeadWarmEvicted`
and `DestroyedReclaimed` of the VM pool; `OrphansCollected` and `DeathNoticed` of
the node; `ImportsFinish` and `CrashedMarkedFailed` of the importer; `HandlersEnd` of
sessions; `SlotsComeBack` and `ShutdownHappens` of the agent; `OutputDelivered` of
streams; `CallsEnd` and `AbandonedCollected` of the Python program. The three
violated runs are for TLC by their nature.

## 5. Where the code and what is said of it part

Besides the three violated runs, these were met while modelling. The models do
what the code does; the properties are stated so that they say what remains.

- `Executor.run` releases its VM only on success (`executor.ex:55`;
  `docs/TEST_PLAN.md:144`), so `RunReturnsVM` is about runs that succeed.
- `README.md:16` and `test_zypi_client.py:9` unpack what `exec` returns into
  three; the class has no `__iter__` (`zypi_client.py:112`).
- `_sandbox.py:674` says that only string arguments with `shell=True` go to the
  sandbox; with `shell=True` the wrappers send lists too.
- `bubbleproc.py:535`: `getoutput` returns "" for a command that never ran, and
  its caller cannot tell. `SuccessTrue` is about exit codes.
- `getstatusoutput` of the library adds the output of a failed command to its
  status; the error a sandbox failure is turned into has none (`bubbleproc.py:314`),
  so the caller gets a `TypeError` for a failed command, not a status.
- Two threads that patch at once save each other's wrappers as originals
  (`bubbleproc.py:571`); the model has one.
- An event stream sends no keepalive: every poll, a tenth of a second apart,
  takes itself for the last one (`router.ex:674`), so the five seconds never
  pass. After the deadline the loop returns `{:ok, conn}` where the route must
  return the connection (`router.ex:645`), so the process raises after the error
  event. `zypi_client.py:125` promises "result", "error" or "done"; a one-shot
  stream that succeeds is cut before any of them (see `router.ex:678` below).
- A VM that is recycled keeps the files of earlier runs: `vm_pool.ex:633` passes
  the literal `/tmp/*` to `rm`, and the agent runs commands without a shell
  (`zypi-agent.go:289`). `docs/TEST_PLAN.md:180`: "Files cleaned up after
  execution".
- An import whose task raises never frees its slot (`importer.ex:117`); after two
  of them nothing queued is started (`importer.ex:67`, "Queue for later").
- Imports of one ref share one slot (`importer.ex:222`), so more than two can
  run, and copy a cache file that is still being filled (`importer.ex:403, 425`);
  an image deleted while another import of its ref is between writing and
  registering it makes that import raise, or leaves it registered without its
  file (`importer.ex:377-379`). `SlotsAccounted` and
  `ImagesWhole` are about imports that have nothing in common.
- The cold container of an execution is never destroyed (`executor.ex:143-160,
  201`; `docs/TEST_PLAN.md:130`: "VM destroyed after execution").
- `max_warm` and `max_total` can be exceeded (`vm_pool.ex:449, 236`;
  `docs/TEST_PLAN.md:238, 246`). `TotalBound` is the bound that remains.
- After a restart of the manager, `stop` leaves the guest running
  (`manager.ex:382`; `README.md:88`) until a sweep.
- `do_create` leaves its rootfs copy behind when it fails, and, when the address
  pool answers too late, an address (`manager.ex:336-345`). The model has the
  first (a copy that no property misses) and not the second.
- A late exit report marks a container exited whose next VM runs
  (`manager.ex:230-237`); the next sweep kills that VM.
- A sweep removes the rootfs of a container started after it read the list
  (`cleanup.ex:72, 191`), and kills VMs that boot or are unlisted because the
  pool was too busy to answer (`cleanup.ex:90, 154`).
- The health check of sessions loses the map without the closed ones
  (`session/manager.ex:292`); `exec` dials the address in the session, whose
  container may be gone (`session/manager.ex:158`); after a close the code
  answers `:session_not_found`, `test/zypi/session/manager_test.exs:71` expects
  `:session_closed`.
- `GET /sessions/stats` cannot be reached behind `/sessions/:id`
  (`router.ex:515, 545`). A streamed one-shot `/exec` reads a struct with
  `result[:exit_code]` (`router.ex:678`), so its client gets no "result" event.
- A request stops being in flight before its answer is written
  (`zypi-agent.go:231-237`), so a shutdown may cut the answer off, and a request
  that begins after the last look at `inFlight` is cut off by the power-off
  itself (`zypi-agent.go:444-452`): `GraceKept` is about what is being handled at
  that look. A file method that blocks (on a FIFO) is taken to return. A child that keeps the output of a command open blocks
  its connection past the timeout (`zypi-agent.go:306`): the exception in
  `SlotsComeBack`. Answers longer than the receive buffer are cut
  (`agent.ex:232`, `packet: :line`). The host never sends a token.
- The exit line of a VM is sent to subscribers and not kept for the log
  (`manager.ex:240-242`). After a restart of the manager attached requests stay
  open, with keepalives and no output. Subscribers that died stay listed.
- Tap names are a hash modulo 9999 (`firecracker.ex:72`) and may collide.

## 6. Not modelled

- a restart of the address pool or of `VMPool` alone, restart limits and
  cascades of supervisors;
- the cold path of the executor;
- of the Python side: two threads that patch at once, `is_patched`, the text of
  outputs, `create_aider_sandbox`, and the plain requests `warm_image`, `stats`,
  `shell` and `run_python`, which wrap one call each; `hello.py`, an example that
  runs in a container;
- `image_pools` and the metrics of `VMPool`: nothing adds to the first, nothing
  reads the second;
- consoles (nothing starts one), cluster and scheduler (stubs without callers);
- images at the level of bytes, layers and hashes, the init script, networking;
- timing: a timeout is a step that may always be taken (`ExecStream` and the
  timeout of exec in `GuestAgent`, where two limits meet, count time);
- of `SessionManager`, a create whose caller gave up and which is served after a
  restart: it is one with the restart, as nobody has its id either way.

`PROJECT.json` lists every component with what is left out of it.

## 7. Plan

Done: all modules of section 2, and proofs of what their runs check but for liveness.

Next, modules, the most important first:

1. `Supervision`: the address pool shared by `VMPool` and `ContainerManager`,
   with a restart of each (hazards `ip_pool.ex:16`, `pool/supervisor.ex:16`).
   A run: which guests can end up on one address, and until when.
2. `ColdRun`: the cold path of the executor on top of `ContainerManager`: a
   container of a run is destroyed or stays known.

Next, theorems:

1. The safety part of what is only checked as liveness: a destroyed VM's address
   is always held by a reaper that may still return it (`DestroyedReclaimed`), a
   crashed import is always one the stale timer will look at (`CrashedMarkedFailed`).
2. `PythonProgram`: that between patches the sandbox has the configuration last
   asked for, without the case of calls made meanwhile.
