--------------------------- MODULE SessionManager ---------------------------
(***************************************************************************)
(* lib/zypi/session/manager.ex: the GenServer that keeps a container       *)
(* running for each session, as a client of ContainerManager beside the    *)
(* clients of the API, which may stop, start and destroy its containers.   *)
(*                                                                         *)
(* Its handlers call the other GenServer several times, so each is a       *)
(* sequence of steps between which other clients are served.  When a call  *)
(* exits, because the other GenServer raised or answers too late, nothing  *)
(* catches the exit: this GenServer is restarted without its sessions.     *)
(***************************************************************************)
EXTENDS ContainerManager

CONSTANT SessionIds         \* the container ids its random_id draws

ASSUME SessionAssumption == SessionIds \subseteq Containers

VARIABLES
  sessions,         \* the containers of the sessions in its map
  session_ip,       \* SessionIds -> the ip kept in the session
  task,             \* what its handler is about to do
  current,          \* the container of the session it is creating
  batch,            \* the containers its handler has yet to destroy
  drawn,            \* the ids drawn so far
  lost              \* the containers of sessions a restart forgot

sessionVars  == <<sessions, session_ip, task, current, batch, drawn, lost>>
managedVars  == <<vars, sessionVars>>

SessionInit ==
  /\ Init
  /\ sessions = {} /\ session_ip = [c \in SessionIds |-> NoAddress]
  /\ task = "idle" /\ current = NoContainer /\ batch = {}
  /\ drawn = {} /\ lost = {}

Creating == IF current = NoContainer THEN {} ELSE {current}

Answers(a) == \E p \in booted : address[p] = a

-----------------------------------------------------------------------------
Continue(next) ==
  /\ task' = next
  /\ UNCHANGED <<sessions, session_ip, current, batch, drawn, lost>>

(* The GenServer exits and is restarted.                                   *)
Restart ==
  /\ lost' = lost \union sessions \union Creating
  /\ sessions' = {} /\ task' = "idle" /\ current' = NoContainer /\ batch' = {}
  /\ session_ip' = [c \in SessionIds |-> NoAddress]
  /\ UNCHANGED drawn

(* handle_call({:create, ..}) draws an id, and creates the container.      *)
CreateBegins(c) ==
  /\ task = "idle" /\ c \in SessionIds \ drawn
  /\ task' = "create" /\ current' = c /\ drawn' = drawn \union {c}
  /\ UNCHANGED <<vars, sessions, session_ip, batch, lost>>

CreateCall ==
  /\ task = "create"
  /\ \/ CreateOk(current) /\ Continue("start")
     \/ (CreateNoRootfs(current) \/ CreateNoAddress(current)) /\ Continue("undo")
     \/ (CreateOk(current) \/ CreateCrash(current)) /\ Restart

(* Then it starts it.  Another client may have started or destroyed it.    *)
StartCall ==
  LET c == current IN
  /\ task = "start"
  /\ \/ \E p \in Ports : StartOk(c, p) /\ Continue("wait")
     \/ (StartDies(c) \/ \E p \in Ports : StartFails(c, p)) /\ Continue("undo")
     \/ ~MayStart(c) /\ UNCHANGED vars /\ Continue("undo")
     \/ (StartCrash(c) \/ \E p \in Ports : StartOk(c, p)) /\ Restart

(* wait_ready looks the address up in the table, which throws when the     *)
(* container is gone: no reply a GenServer may give.                       *)
WaitReady ==
  /\ task = "wait"
  /\ UNCHANGED vars
  /\ \/ /\ Answers(ip[current])
        /\ sessions' = sessions \union {current}
        /\ session_ip' = [session_ip EXCEPT ![current] = ip[current]]
        /\ task' = "idle" /\ current' = NoContainer
        /\ UNCHANGED <<batch, drawn, lost>>
     \/ Present(current) /\ Continue("undo")
     \/ ~Present(current) /\ Restart

(* A call to destroy c: done, unknown, or the end of both GenServers.      *)
DestroyCall(c) ==
  \/ Destroy(c)
  \/ ~Present(c) /\ UNCHANGED vars

DestroyExits(c) == Destroy(c) \/ DestroyRaises(c) \/ DestroyCrash(c)

CreateEnds ==
  /\ task' = "idle" /\ current' = NoContainer
  /\ UNCHANGED <<sessions, session_ip, batch, drawn, lost>>

(* Mutant: a failed create leaves its container.                           *)
UndoNothing == task = "undo" /\ UNCHANGED vars /\ CreateEnds

(* "Best-effort cleanup" of a failed create.                               *)
Undo ==
  /\ task = "undo"
  /\ \/ DestroyCall(current) /\ CreateEnds
     \/ DestroyExits(current) /\ Restart

-----------------------------------------------------------------------------
(* close of one session, close_agent of those of an agent, cleanup_idle of *)
(* those whose last use is long ago.                                       *)
CloseBegins(S) ==
  /\ task = "idle" /\ S # {} /\ S \subseteq sessions
  /\ task' = "close" /\ batch' = S
  /\ UNCHANGED <<vars, sessions, session_ip, current, drawn, lost>>

(* health_check_sessions asks each guest, at the address in the table; a   *)
(* container that is gone makes it throw.                                  *)
HealthCheck ==
  /\ task = "idle" /\ sessions # {}
  /\ UNCHANGED vars
  /\ \/ /\ \E c \in sessions : ~Present(c)
        /\ Restart
     \/ /\ \A c \in sessions : Present(c)
        /\ batch' \in SUBSET sessions \ {{}}
        /\ {c \in sessions : ~Answers(ip[c])} \subseteq batch'
        /\ task' = "check"
        /\ UNCHANGED <<sessions, session_ip, current, drawn, lost>>

(* Mutant: a container somebody else destroyed is waited for.              *)
CloseNextPresent(c) ==
  /\ task \in {"close", "check"} /\ c \in batch
  /\ \/ /\ Destroy(c)
        /\ batch' = batch \ {c}
        /\ task' = IF batch' = {} THEN "idle" ELSE task
        /\ sessions' = IF task = "close" THEN sessions \ {c} ELSE sessions
        /\ UNCHANGED <<session_ip, current, drawn, lost>>
     \/ DestroyExits(c) /\ Restart

(* do_close of the next one.  The sessions a close took leave the map; the *)
(* new map of a health check is bound inside an if, and lost.              *)
CloseNext(c) ==
  /\ task \in {"close", "check"} /\ c \in batch
  /\ \/ /\ DestroyCall(c)
        /\ batch' = batch \ {c}
        /\ task' = IF batch' = {} THEN "idle" ELSE task
        /\ sessions' = IF task = "close" THEN sessions \ {c} ELSE sessions
        /\ UNCHANGED <<session_ip, current, drawn, lost>>
     \/ DestroyExits(c) /\ Restart

-----------------------------------------------------------------------------
(* The clients of the API: they choose ids of their own, and may use those *)
(* of sessions that exist.  A request that ends the other GenServer also   *)
(* ends a call that waits behind it.                                       *)
ClientCall(c) ==
  /\ c \in SessionIds => Present(c)
  /\ \/ Serve(c) /\ UNCHANGED sessionVars
     \/ Crashed(c) /\ task \in {"create", "start", "undo", "close", "check"} /\ Restart

HostStep ==
  /\ \E p \in Ports : ProcessDies(p) \/ PortExit(p)
  /\ UNCHANGED sessionVars

HandlerStep ==
  CreateCall \/ StartCall \/ WaitReady \/ Undo \/ \E c \in batch : CloseNext(c)

SessionNext ==
  \/ \E c \in SessionIds : CreateBegins(c)
  \/ \E S \in SUBSET sessions : CloseBegins(S)
  \/ HealthCheck \/ HandlerStep \/ HostStep
  \/ \E c \in Containers : ClientCall(c)

SessionSpec == SessionInit /\ [][SessionNext]_managedVars

(* A handler goes on: each call it makes is answered or exits.             *)
SessionLiveSpec == SessionSpec /\ WF_managedVars(HandlerStep)

-----------------------------------------------------------------------------
SessionTypeOK ==
  /\ sessions \subseteq SessionIds /\ batch \subseteq sessions
  /\ session_ip \in [SessionIds -> Addresses \union {NoAddress}]
  /\ task \in {"idle", "create", "start", "wait", "undo", "close", "check"}
  /\ current \in SessionIds \union {NoContainer}
  /\ drawn \subseteq SessionIds /\ lost \subseteq drawn

(* A container made for a session belongs to a session of the map, to the  *)
(* create under way, or to a session lost in a restart: a create that      *)
(* fails, at whatever step, and a close leave none behind                  *)
(* (session/manager.ex:119-124, 208-218).                                  *)
ContainersAccounted ==
  \A c \in SessionIds : Present(c) => c \in sessions \union Creating \union lost

(* While its container exists, the address a session execs on is its own:  *)
(* no guest of another container answers there, nor does another session   *)
(* dial it (session/manager.ex:152-163).                                   *)
SessionOnOwnGuest ==
  \A c \in sessions : Present(c) =>
    /\ session_ip[c] = ip[c]
    /\ \A p \in booted : address[p] = session_ip[c] => socket[p] = c

(* A handler ends, and the GenServer gets back to its mailbox, with or     *)
(* without its sessions, whatever other clients do to its containers.      *)
HandlersEnd == (task # "idle") ~> (task = "idle")

-----------------------------------------------------------------------------
(* A statement of the repository that the code does not keep.              *)

(* session/manager_test.exs:135, "{:ok, _} = Manager.get(s3.id)" after the *)
(* sessions of another agent were closed: closing sessions keeps others.   *)
OthersSurviveClose ==
  [][task = "close" /\ task' = "idle" =>
       sessions \ batch \subseteq sessions']_managedVars
=============================================================================
