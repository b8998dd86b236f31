---------------------------- MODULE OutputStreams ----------------------------
(***************************************************************************)
(* The output of one container: Container.Manager keeps the last chunks    *)
(* for the logs and sends each new one to its subscribers                  *)
(* (lib/zypi/container/manager.ex); GET /containers/:id/attach subscribes, *)
(* reads what is kept and relays what follows (lib/zypi/api/router.ex).    *)
(*                                                                         *)
(* The chunks are numbered as the VMs of the container write them.  A call *)
(* to the GenServer is one step; the messages of its ports wait in mailbox.*)
(***************************************************************************)
EXTENDS Integers, Sequences, SequencesExt, FiniteSets

CONSTANTS
  Clients,          \* the requests that attach
  BufferSize,       \* @output_buffer_size, 1000 in the code
  MaxChunks,        \* bound: chunks written
  MaxStarts,        \* bound: starts of the container
  MaxRestarts       \* bound: restarts of the GenServer

ASSUME StreamAssumption ==
  /\ BufferSize \in Nat \ {0}
  /\ MaxChunks \in Nat /\ MaxStarts \in Nat /\ MaxRestarts \in Nat

VARIABLES
  (* the GenServer, for this container                                     *)
  status,           \* in the container table
  vm_state,         \* is there a VM state?
  outputs,          \* the chunks kept, the newest first
  subscribers,
  mailbox,          \* the messages of its ports
  restarts,
  (* its VMs                                                               *)
  ports,            \* the ports of its VMs that are open
  written, starts,
  (* the requests                                                          *)
  pc,               \* Clients -> where the request is
  inbox,            \* Clients -> the :container_output messages not yet read
  snapshot,         \* Clients -> what it got as the kept output
  relayed,          \* Clients -> what it got since
  unsubscribes      \* the clients whose :unsubscribe cast is under way

serverVars == <<status, vm_state, outputs, subscribers, mailbox, restarts>>
vmVars     == <<ports, written, starts>>
clientVars == <<pc, inbox, snapshot, relayed, unsubscribes>>
vars == <<serverVars, vmVars, clientVars>>

Exit == 0           \* the message, and the line broadcast for it

Chunks == 1..MaxChunks

Init ==
  /\ status = "created" /\ vm_state = FALSE
  /\ outputs = <<>> /\ subscribers = {} /\ mailbox = <<>> /\ restarts = 0
  /\ ports = 0 /\ written = 0 /\ starts = 0
  /\ pc = [c \in Clients |-> "new"]
  /\ inbox = [c \in Clients |-> <<>>]
  /\ snapshot = [c \in Clients |-> <<>>]
  /\ relayed = [c \in Clients |-> <<>>]
  /\ unsubscribes = {}

Alive(c) == pc[c] \in {"attaching", "subscribed", "streaming"}

-----------------------------------------------------------------------------
(* A VM writes to its console, and exits.  There may be two: a late report *)
(* of an exit makes a container exited whose next VM runs.                 *)
VMFrame == UNCHANGED <<status, vm_state, outputs, subscribers, restarts, starts, clientVars>>

VMWrites ==
  /\ ports > 0 /\ written < MaxChunks
  /\ written' = written + 1
  /\ mailbox' = Append(mailbox, written + 1)
  /\ UNCHANGED ports
  /\ VMFrame

VMExits ==
  /\ ports > 0
  /\ ports' = ports - 1
  /\ mailbox' = Append(mailbox, Exit)
  /\ UNCHANGED written
  /\ VMFrame

-----------------------------------------------------------------------------
(* buffer_output.                                                          *)
BufferOutput(data) ==
  LET buffer == <<data>> \o outputs IN
  outputs' = IF Len(buffer) > BufferSize THEN Front(buffer) ELSE buffer

(* broadcast_output, to the subscribers whose process is alive.            *)
BroadcastOutput(data) ==
  inbox' = [c \in Clients |->
              IF c \in subscribers /\ Alive(c) THEN Append(inbox[c], data) ELSE inbox[c]]

HandleFrame ==
  /\ mailbox' = Tail(mailbox)
  /\ UNCHANGED <<vm_state, subscribers, restarts, vmVars, pc, snapshot, relayed,
                 unsubscribes>>

(* {port, {:data, data}}, of the port of any VM the container had: no stop *)
(* takes a port off port_to_container.                                     *)
HandleData ==
  /\ mailbox # <<>> /\ Head(mailbox) # Exit
  /\ BufferOutput(Head(mailbox))
  /\ BroadcastOutput(Head(mailbox))
  /\ UNCHANGED status
  /\ HandleFrame

(* Mutant: the exit is noted in the table only.                            *)
HandleExitSilently ==
  /\ mailbox # <<>> /\ Head(mailbox) = Exit
  /\ status' = IF status = "absent" THEN status ELSE "exited"
  /\ UNCHANGED <<outputs, inbox>>
  /\ HandleFrame

(* {port, {:exit_status, _}}: the line about it is broadcast and not kept. *)
HandleExit ==
  /\ mailbox # <<>> /\ Head(mailbox) = Exit
  /\ status' = IF status = "absent" THEN status ELSE "exited"
  /\ BroadcastOutput(Exit)
  /\ UNCHANGED outputs
  /\ HandleFrame

-----------------------------------------------------------------------------
(* start, stop and destroy, as far as the output goes.  A start empties    *)
(* what is kept and leaves the subscribers.                                *)
CallFrame == UNCHANGED <<written, clientVars>>

Start ==
  /\ status \in {"created", "stopped", "exited"} /\ starts < MaxStarts
  /\ starts' = starts + 1
  /\ status' = "running" /\ vm_state' = TRUE /\ ports' = ports + 1
  /\ outputs' = <<>>
  /\ UNCHANGED <<subscribers, mailbox, restarts>>
  /\ CallFrame

(* Every process of the container is killed, but the port of the VM in the *)
(* state is closed before, unless the guest exits in the 500 ms it has.    *)
Killed(reports) ==
  /\ ports' = 0
  /\ mailbox' = mailbox \o [i \in 1..reports |-> Exit]

Stop ==
  /\ status \in {"created", "running", "stopped", "exited"}
  /\ status' = IF status = "running" THEN "stopped" ELSE status
  /\ vm_state' = FALSE
  /\ \/ /\ status = "running" /\ vm_state
        /\ \E late \in 0..1 : Killed(IF ports = 0 THEN 0 ELSE ports - late)
     \/ /\ ~(status = "running" /\ vm_state)
        /\ UNCHANGED <<ports, mailbox>>
  /\ UNCHANGED <<outputs, subscribers, restarts, starts>>
  /\ CallFrame

Destroy ==
  /\ status # "absent" /\ ~vm_state
  /\ status' = "absent" /\ Killed(ports)
  /\ outputs' = <<>> /\ subscribers' = {}
  /\ UNCHANGED <<vm_state, restarts, starts>>
  /\ CallFrame

(* The GenServer raises, as the destroy of a container with a VM state     *)
(* does: this one or another.  It is restarted with nothing; its ports are *)
(* closed, and the calls it had not answered exit.                         *)
Restart ==
  /\ restarts < MaxRestarts /\ restarts' = restarts + 1
  /\ status' \in {status} \union (IF vm_state THEN {"absent"} ELSE {})
  /\ vm_state' = FALSE /\ ports' = 0
  /\ outputs' = <<>> /\ subscribers' = {} /\ mailbox' = <<>>
  /\ \E S \in SUBSET {c \in Clients : pc[c] \in {"attaching", "subscribed"}} :
       pc' = [c \in Clients |-> IF c \in S THEN "gone" ELSE pc[c]]
  /\ UNCHANGED <<written, starts, inbox, snapshot, relayed, unsubscribes>>

-----------------------------------------------------------------------------
(* GET /containers/:id/attach: the status is read from the table, then the *)
(* GenServer is called twice.                                              *)
RequestFrame == UNCHANGED <<status, vm_state, outputs, mailbox, restarts, vmVars>>

Attach(c) ==
  /\ pc[c] = "new" /\ status \in {"running", "exited"}
  /\ pc' = [pc EXCEPT ![c] = "attaching"]
  /\ UNCHANGED <<subscribers, inbox, snapshot, relayed, unsubscribes>>
  /\ RequestFrame

Subscribe(c) ==
  /\ pc[c] = "attaching"
  /\ pc' = [pc EXCEPT ![c] = "subscribed"]
  /\ subscribers' = subscribers \union {c}
  /\ UNCHANGED <<inbox, snapshot, relayed, unsubscribes>>
  /\ RequestFrame

(* Mutant: the chunks kept are sent as they are kept, the newest first.    *)
GetOutputUnreversed(c) ==
  /\ pc[c] = "subscribed"
  /\ pc' = [pc EXCEPT ![c] = "streaming"]
  /\ snapshot' = [snapshot EXCEPT ![c] = outputs]
  /\ UNCHANGED <<subscribers, inbox, relayed, unsubscribes>>
  /\ RequestFrame

(* get_output.                                                             *)
GetOutput(c) ==
  /\ pc[c] = "subscribed"
  /\ pc' = [pc EXCEPT ![c] = "streaming"]
  /\ snapshot' = [snapshot EXCEPT ![c] = Reverse(outputs)]
  /\ UNCHANGED <<subscribers, inbox, relayed, unsubscribes>>
  /\ RequestFrame

(* stream_output relays a message, or finds that the peer is gone: then,   *)
(* or when a keepalive fails, it unsubscribes and the request ends.        *)
Relay(c) ==
  /\ pc[c] = "streaming" /\ inbox[c] # <<>>
  /\ relayed' = [relayed EXCEPT ![c] = Append(@, Head(inbox[c]))]
  /\ inbox' = [inbox EXCEPT ![c] = Tail(@)]
  /\ UNCHANGED <<pc, subscribers, snapshot, unsubscribes>>
  /\ RequestFrame

HangUp(c) ==
  /\ pc[c] = "streaming"
  /\ pc' = [pc EXCEPT ![c] = "gone"]
  /\ unsubscribes' = unsubscribes \union {c}
  /\ UNCHANGED <<subscribers, inbox, snapshot, relayed>>
  /\ RequestFrame

Unsubscribe(c) ==
  /\ c \in unsubscribes
  /\ unsubscribes' = unsubscribes \ {c}
  /\ subscribers' = subscribers \ {c}
  /\ UNCHANGED <<pc, inbox, snapshot, relayed>>
  /\ RequestFrame

-----------------------------------------------------------------------------
Handle == HandleData \/ HandleExit

Request(c) == Attach(c) \/ Subscribe(c) \/ GetOutput(c) \/ Relay(c) \/ HangUp(c)

Next ==
  \/ VMWrites \/ VMExits \/ Handle
  \/ Start \/ Stop \/ Destroy \/ Restart
  \/ \E c \in Clients : Request(c) \/ Unsubscribe(c)

Spec == Init /\ [][Next]_vars

(* The GenServer handles its mailbox, and a request relays what it gets.   *)
LiveSpec ==
  /\ Spec
  /\ WF_vars(Handle)
  /\ \A c \in Clients : WF_vars(Relay(c))

-----------------------------------------------------------------------------
TypeOK ==
  /\ status \in {"created", "running", "stopped", "exited", "absent"}
  /\ vm_state \in BOOLEAN /\ ports \in 0..MaxStarts
  /\ outputs \in Seq(Chunks) /\ Len(outputs) <= BufferSize
  /\ subscribers \subseteq Clients /\ unsubscribes \subseteq Clients
  /\ mailbox \in Seq(Chunks \union {Exit})
  /\ written \in 0..MaxChunks /\ starts \in 0..MaxStarts /\ restarts \in 0..MaxRestarts
  /\ pc \in [Clients -> {"new", "attaching", "subscribed", "streaming", "gone"}]
  /\ inbox \in [Clients -> Seq(Chunks \union {Exit})]
  /\ snapshot \in [Clients -> Seq(Chunks)]
  /\ relayed \in [Clients -> Seq(Chunks \union {Exit})]

(* All that was sent to a request, read or not, and the chunks in it in    *)
(* the order of their numbers.                                             *)
Sent(c) == relayed[c] \o inbox[c]

InOrder(s) ==
  \A i, j \in DOMAIN s : i < j /\ s[i] # Exit /\ s[j] # Exit => s[i] < s[j]

(* A request that is attached has, or has in its mailbox, all the log      *)
(* shows, in order; a chunk it gets twice is one that was handled between  *)
(* its subscription and its read (router.ex:245-247, manager.ex:187-197).  *)
StreamWhole ==
  \A c \in Clients : pc[c] = "streaming" =>
    /\ c \in subscribers => ToSet(outputs) \subseteq ToSet(snapshot[c]) \union ToSet(Sent(c))
    /\ InOrder(snapshot[c]) /\ InOrder(Sent(c))

(* What the VM wrote, and that it exited, reaches each request attached by *)
(* then, unless it hangs up, or the GenServer is restarted or the container*)
(* destroyed, after which it waits for ever (manager.ex:229-266, 410-415). *)
OutputDelivered ==
  \A c \in Clients : \A m \in Chunks \union {Exit} :
    (pc[c] = "streaming" /\ m \in ToSet(mailbox))
      ~> (m \in ToSet(relayed[c]) \/ pc[c] = "gone" \/ c \notin subscribers)
=============================================================================
