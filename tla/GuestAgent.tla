----------------------------- MODULE GuestAgent -----------------------------
(***************************************************************************)
(* guest-agent/zypi-agent.go, the server inside each guest, and the calls  *)
(* lib/zypi/container/agent.ex makes to it from the host.                  *)
(*                                                                         *)
(* The agent is one acceptor, a goroutine for each connection it admits    *)
(* and one for each shutdown that was asked for; they share two atomic     *)
(* counters, and an atomic operation is a step.  A call of the host dials  *)
(* a connection of its own, sends one request and waits for one answer.    *)
(* A call that gives up waiting leaves its connection open: it goes with   *)
(* the process that made the call, which may be a GenServer.               *)
(***************************************************************************)
EXTENDS Integers, FiniteSets

CONSTANTS
  Calls,            \* the calls of the host
  MethodsOf,        \* what each of them may ask for
  NoCall,
  MaxConns,         \* MaxConns, 100 in the code
  Timeout,          \* the timeout a call gives exec
  Second            \* ticks in a second: a tick is a millisecond, so 1000

Methods == {"exec", "file", "shutdown"}     \* file: whatever returns by itself

ASSUME AgentAssumption ==
  /\ NoCall \notin Calls /\ MaxConns \in Nat \ {0}
  /\ Timeout \in Nat \ {0} /\ Second \in Nat \ {0}
  /\ MethodsOf \in [Calls -> SUBSET Methods]

VARIABLES
  (* the host                                                              *)
  caller,           \* Calls -> where the call is
  request,          \* Calls -> the method it sent, or "none"
  unread,           \* the calls whose request is in the socket
  (* the guest                                                             *)
  power,            \* "on" or "off"
  conn,             \* Calls -> what the agent has done with its connection
  accepting,        \* the call the acceptor has just counted, or NoCall
  current,          \* and the count it got
  connCount, inFlight,
  proc,             \* Calls -> the process of its command: none, up, gone
  held,             \* the calls whose command left a child with its output
  killed,           \* the calls whose command was killed at its timeout
  grace,            \* Calls -> the shutdown goroutine it started
  expired,          \* the calls whose goroutine has waited for 10 s
  (* the time of commands                                                  *)
  waited,           \* Calls -> how long the caller has waited for its command
  elapsed           \* Calls -> how long the command has run

hostVars   == <<caller, request, unread>>
acceptVars == <<accepting, current, connCount>>
procVars   == <<proc, held, killed>>
graceVars  == <<grace, expired, power>>
clockVars  == <<waited, elapsed>>
vars == <<hostVars, conn, acceptVars, inFlight, procVars, graceVars, clockVars>>

(* The guest takes the timeout for seconds.                                *)
KillAfter == Timeout * Second

HungUp(k) == caller[k] \in {"answered", "failed", "left"}

Counted(k) == conn[k] \in {"accepted", "reading", "read", "executing", "writing", "ended"}

Handled(k) == Counted(k) /\ conn[k] # "accepted"

Init ==
  /\ caller = [k \in Calls |-> "idle"]
  /\ request = [k \in Calls |-> "none"]
  /\ unread = {} /\ power = "on"
  /\ conn = [k \in Calls |-> "none"]
  /\ accepting = NoCall /\ current = 0 /\ connCount = 0 /\ inFlight = 0
  /\ proc = [k \in Calls |-> "none"]
  /\ held = {} /\ killed = {}
  /\ grace = [k \in Calls |-> "none"] /\ expired = {}
  /\ waited = [k \in Calls |-> 0] /\ elapsed = [k \in Calls |-> 0]

-----------------------------------------------------------------------------
(* The host.  connect: the guest's kernel completes the connection before  *)
(* the agent accepts it; a guest that is off does not answer.              *)
HostFrame == UNCHANGED <<acceptVars, inFlight, procVars, graceVars, elapsed>>

Dial(k) ==
  /\ caller[k] = "idle"
  /\ \/ /\ power = "on"
        /\ caller' = [caller EXCEPT ![k] = "connected"]
        /\ conn' = [conn EXCEPT ![k] = "backlog"]
     \/ /\ power = "off"
        /\ caller' = [caller EXCEPT ![k] = "failed"]
        /\ UNCHANGED conn
  /\ UNCHANGED <<request, unread, waited>>
  /\ HostFrame

(* do_call sends the request and waits for a line.                         *)
Send(k) ==
  /\ caller[k] = "connected"
  /\ caller' = [caller EXCEPT ![k] = "waiting"]
  /\ \E m \in MethodsOf[k] : request' = [request EXCEPT ![k] = m]
  /\ unread' = unread \union {k}
  /\ UNCHANGED <<conn, waited>>
  /\ HostFrame

(* The wait times out, and the socket stays open; or the agent has closed  *)
(* the connection.  recv takes the timeout of a command for milliseconds;  *)
(* how long other requests are waited for is not counted.                  *)
GiveUp(k) ==
  /\ caller[k] = "waiting"
  /\ \/ /\ request[k] = "exec" => waited[k] = Timeout
        /\ caller' = [caller EXCEPT ![k] = "gave_up"]
     \/ conn[k] \in {"refused", "ended", "done"} /\ caller' = [caller EXCEPT ![k] = "failed"]
  /\ waited' = [waited EXCEPT ![k] = 0]
  /\ UNCHANGED <<request, unread, conn>>
  /\ HostFrame

(* The process that made the call ends or is killed: its sockets close.    *)
Leave(k) ==
  /\ caller[k] \in {"connected", "waiting", "gave_up"}
  /\ caller' = [caller EXCEPT ![k] = "left"]
  /\ waited' = [waited EXCEPT ![k] = 0]
  /\ UNCHANGED <<request, unread, conn>>
  /\ HostFrame

-----------------------------------------------------------------------------
(* The acceptor.                                                           *)
AcceptFrame == UNCHANGED <<hostVars, inFlight, procVars, graceVars, clockVars>>

Accept(k) ==
  /\ power = "on" /\ accepting = NoCall /\ conn[k] = "backlog"
  /\ accepting' = k
  /\ connCount' = connCount + 1
  /\ current' = connCount + 1
  /\ conn' = [conn EXCEPT ![k] = "accepted"]
  /\ AcceptFrame

Admit ==
  /\ power = "on" /\ accepting # NoCall /\ current <= MaxConns
  /\ conn' = [conn EXCEPT ![accepting] = "reading"]
  /\ accepting' = NoCall
  /\ current' = 0
  /\ UNCHANGED connCount
  /\ AcceptFrame

(* Mutant: a refused connection stays counted.                             *)
RefuseCounted ==
  /\ power = "on" /\ accepting # NoCall /\ current > MaxConns
  /\ conn' = [conn EXCEPT ![accepting] = "refused"]
  /\ accepting' = NoCall
  /\ current' = 0
  /\ UNCHANGED connCount
  /\ AcceptFrame

Refuse ==
  /\ power = "on" /\ accepting # NoCall /\ current > MaxConns
  /\ conn' = [conn EXCEPT ![accepting] = "refused"]
  /\ accepting' = NoCall
  /\ connCount' = connCount - 1
  /\ current' = 0
  /\ AcceptFrame

-----------------------------------------------------------------------------
(* handleConnection.  A request is read, and then counted and handled.     *)
ConnFrame == UNCHANGED <<caller, request, acceptVars, clockVars>>

Read(k) ==
  /\ power = "on" /\ conn[k] = "reading" /\ k \in unread
  /\ unread' = unread \ {k}
  /\ conn' = [conn EXCEPT ![k] = "read"]
  /\ UNCHANGED <<inFlight, procVars, graceVars>>
  /\ ConnFrame

(* Mutant: the read has no deadline.                                       *)
ReadNoDeadline(k) ==
  /\ power = "on" /\ conn[k] = "reading" /\ k \notin unread /\ HungUp(k)
  /\ conn' = [conn EXCEPT ![k] = "ended"]
  /\ UNCHANGED <<unread, inFlight, procVars, graceVars>>
  /\ ConnFrame

(* The caller has hung up, or the read deadline has passed.                *)
ReadFails(k) ==
  /\ power = "on" /\ conn[k] = "reading" /\ k \notin unread
  /\ conn' = [conn EXCEPT ![k] = "ended"]
  /\ UNCHANGED <<unread, inFlight, procVars, graceVars>>
  /\ ConnFrame

(* handleRequest: a command that is allowed is started, a shutdown starts  *)
(* its goroutine.                                                          *)
Dispatch(k) ==
  /\ \/ request[k] = "exec" /\ proc' = [proc EXCEPT ![k] = "up"]
     \/ UNCHANGED proc
  /\ grace' = [grace EXCEPT ![k] = IF request[k] = "shutdown" THEN "polling" ELSE @]

(* Mutant: only what is not a command is counted as in flight.             *)
BeginUncounted(k) ==
  /\ power = "on" /\ conn[k] = "read"
  /\ conn' = [conn EXCEPT ![k] = "executing"]
  /\ inFlight' = IF request[k] = "exec" THEN inFlight ELSE inFlight + 1
  /\ Dispatch(k)
  /\ UNCHANGED <<unread, held, killed, expired, power>>
  /\ ConnFrame

Begin(k) ==
  /\ power = "on" /\ conn[k] = "read"
  /\ conn' = [conn EXCEPT ![k] = "executing"]
  /\ inFlight' = inFlight + 1
  /\ Dispatch(k)
  /\ UNCHANGED <<unread, held, killed, expired, power>>
  /\ ConnFrame

(* cmd.Run returns when the process is gone and its output is closed.      *)
Finish(k) ==
  /\ power = "on" /\ conn[k] = "executing" /\ proc[k] # "up" /\ k \notin held
  /\ conn' = [conn EXCEPT ![k] = "writing"]
  /\ inFlight' = inFlight - 1
  /\ UNCHANGED <<unread, procVars, graceVars>>
  /\ ConnFrame

(* The answer is written, and the next request read; writing to a caller   *)
(* that no longer reads may fail.                                          *)
Write(k) ==
  /\ power = "on" /\ conn[k] = "writing"
  /\ \/ /\ conn' = [conn EXCEPT ![k] = "reading"]
        /\ caller' = [caller EXCEPT ![k] = IF @ = "waiting" THEN "answered" ELSE @]
     \/ /\ caller[k] # "waiting"
        /\ conn' = [conn EXCEPT ![k] = "ended"]
        /\ UNCHANGED caller
  /\ UNCHANGED <<request, unread, acceptVars, inFlight, procVars, graceVars, clockVars>>

Uncount(k) ==
  /\ power = "on" /\ conn[k] = "ended"
  /\ conn' = [conn EXCEPT ![k] = "done"]
  /\ connCount' = connCount - 1
  /\ UNCHANGED <<hostVars, accepting, current, inFlight, procVars, graceVars, clockVars>>

-----------------------------------------------------------------------------
(* The command ends.  A child it leaves behind may hold its output open.   *)
ProcFrame == UNCHANGED <<hostVars, conn, acceptVars, inFlight, graceVars, waited>>

ProcGone(k) ==
  /\ power = "on" /\ proc[k] = "up"
  /\ proc' = [proc EXCEPT ![k] = "gone"]
  /\ held' \in {held, held \union {k}}
  /\ elapsed' = [elapsed EXCEPT ![k] = 0]
  /\ ProcFrame

ProcExits(k) == ProcGone(k) /\ UNCHANGED killed

(* The context of a command ends after its timeout.                        *)
ProcKilled(k) ==
  /\ elapsed[k] = KillAfter
  /\ ProcGone(k)
  /\ killed' = killed \union {k}

ChildEnds(k) ==
  /\ power = "on" /\ k \in held
  /\ held' = held \ {k}
  /\ UNCHANGED <<proc, killed, elapsed>>
  /\ ProcFrame

-----------------------------------------------------------------------------
(* handleShutdown's goroutine: it looks at inFlight every 100 ms.          *)
GraceFrame == UNCHANGED <<hostVars, conn, acceptVars, inFlight, procVars, clockVars>>

GraceExpires(k) ==
  /\ power = "on" /\ grace[k] = "polling" /\ k \notin expired
  /\ expired' = expired \union {k}
  /\ UNCHANGED <<grace, power>>
  /\ GraceFrame

(* Mutant: there is no deadline.                                           *)
PollForever(k) ==
  /\ power = "on" /\ grace[k] = "polling"
  /\ inFlight = 0
  /\ grace' = [grace EXCEPT ![k] = "syncing"]
  /\ UNCHANGED <<expired, power>>
  /\ GraceFrame

PollEnds(k) ==
  /\ power = "on" /\ grace[k] = "polling"
  /\ inFlight = 0 \/ k \in expired
  /\ grace' = [grace EXCEPT ![k] = "syncing"]
  /\ UNCHANGED <<expired, power>>
  /\ GraceFrame

PowerOff(k) ==
  /\ power = "on" /\ grace[k] = "syncing"
  /\ power' = "off"
  /\ UNCHANGED <<grace, expired>>
  /\ GraceFrame

-----------------------------------------------------------------------------
(* A millisecond passes, for the callers that wait for a command and for   *)
(* the commands that run; not before who is due has been told.             *)
Waits(k) == caller[k] = "waiting" /\ request[k] = "exec"
Runs(k)  == power = "on" /\ proc[k] = "up"

Tick ==
  /\ \E k \in Calls : Waits(k) \/ Runs(k)
  /\ \A k \in Calls : /\ Waits(k) => waited[k] < Timeout
                      /\ Runs(k) => elapsed[k] < KillAfter
  /\ waited' = [k \in Calls |-> IF Waits(k) THEN waited[k] + 1 ELSE waited[k]]
  /\ elapsed' = [k \in Calls |-> IF Runs(k) THEN elapsed[k] + 1 ELSE elapsed[k]]
  /\ UNCHANGED <<hostVars, conn, acceptVars, inFlight, procVars, graceVars>>

-----------------------------------------------------------------------------
HostCall(k) == Dial(k) \/ Send(k) \/ GiveUp(k) \/ Leave(k)

Handler(k) ==
  Read(k) \/ ReadFails(k) \/ Begin(k) \/ Finish(k) \/ Write(k) \/ Uncount(k)

Command(k) == ProcExits(k) \/ ProcKilled(k) \/ ChildEnds(k)

Shutdown(k) == GraceExpires(k) \/ PollEnds(k) \/ PowerOff(k)

Next ==
  \/ \E k \in Calls : HostCall(k) \/ Accept(k) \/ Handler(k) \/ Command(k) \/ Shutdown(k)
  \/ Admit \/ Refuse \/ Tick

Spec == Init /\ [][Next]_vars

(* Goroutines run, time and deadlines pass, a wait times out, a timeout    *)
(* kills.  No command ends by itself, no caller goes away.                 *)
LiveSpec ==
  /\ Spec
  /\ WF_vars(\E k \in Calls : Accept(k)) /\ WF_vars(Admit \/ Refuse) /\ WF_vars(Tick)
  /\ \A k \in Calls :
       /\ WF_vars(Handler(k)) /\ WF_vars(ProcKilled(k)) /\ WF_vars(GiveUp(k))
       /\ WF_vars(GraceExpires(k)) /\ WF_vars(PollEnds(k)) /\ WF_vars(PowerOff(k))

-----------------------------------------------------------------------------
TypeOK ==
  /\ caller \in [Calls -> {"idle", "connected", "waiting", "answered", "gave_up",
                           "failed", "left"}]
  /\ request \in [Calls -> Methods \union {"none"}]
  /\ unread \subseteq Calls /\ power \in {"on", "off"}
  /\ conn \in [Calls -> {"none", "backlog", "accepted", "refused", "reading", "read",
                         "executing", "writing", "ended", "done"}]
  /\ accepting \in Calls \union {NoCall} /\ current \in Nat
  /\ connCount \in Nat /\ inFlight \in Nat
  /\ proc \in [Calls -> {"none", "up", "gone"}]
  /\ held \subseteq Calls /\ killed \subseteq Calls
  /\ grace \in [Calls -> {"none", "polling", "syncing"}] /\ expired \subseteq Calls
  /\ waited \in [Calls -> 0..Timeout] /\ elapsed \in [Calls -> 0..KillAfter]

(* The counter is the number of connections the agent has not let go of,   *)
(* so that it neither runs out for ever nor admits more than MaxConns,     *)
(* however accepting, refusing and closing interleave                      *)
(* (zypi-agent.go:168-180).                                                *)
ConnectionsCounted ==
  /\ connCount = Cardinality({k \in Calls : Counted(k)})
  /\ Cardinality({k \in Calls : Handled(k)}) <= MaxConns

(* zypi-agent.go:10, "Graceful shutdown: tracks in-flight requests, waits  *)
(* for completion": no goroutine goes on to power the guest off while a    *)
(* request is being handled, but after 10 s (zypi-agent.go:231-233, 444).  *)
GraceKept ==
  [][\A k \in Calls : grace[k] = "polling" /\ grace'[k] = "syncing" =>
       k \in expired \/ \A j \in Calls : conn[j] # "executing"]_vars

(* A connection the agent admitted is let go of, though its caller never   *)
(* closes it and its command is stuck: unless a child of the command holds *)
(* the output open, on which no timeout acts (zypi-agent.go:190, 209, 312).*)
SlotsComeBack ==
  \A k \in Calls :
    Counted(k) ~> ~Counted(k) \/ k \in held \/ power = "off"

(* A shutdown that was asked for happens, whatever the commands do.        *)
ShutdownHappens == \A k \in Calls : grace[k] = "polling" ~> power = "off"

-----------------------------------------------------------------------------
(* test/zypi/session/manager_test.exs:78-81: of "sleep 2" with a timeout   *)
(* of 1 the caller learns that it timed out.  In the code it has given up  *)
(* when the guest kills the command: the same number is milliseconds on    *)
(* one side and seconds on the other (agent.ex:42, 252, zypi-agent.go:283).*)
TimeoutReported == \A k \in killed : caller[k] # "gave_up"
=============================================================================
