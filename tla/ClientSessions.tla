--------------------------- MODULE ClientSessions ---------------------------
(***************************************************************************)
(* The sessions of zypi_client.py beside Session.Manager, a GenServer that *)
(* serves one call at a time.  Every request has a time limit, in the      *)
(* client and again in the call of its router process; the server notices  *)
(* neither, and serves a call whose caller is gone.                        *)
(***************************************************************************)
EXTENDS Integers, Sequences, SequencesExt

CONSTANTS
  Sessions,         \* the ids it draws
  Requests,         \* bound: the requests that clients make
  NoSession

ASSUME SessionsAssumption == NoSession \notin Sessions

VARIABLES
  sessions,         \* Sessions -> unborn, open, or gone from its map
  last_used_at,     \* Sessions -> before the idle threshold or not, or nil
  mailbox,          \* the requests whose call is in the mailbox
  req,              \* Requests -> what is asked for, and the answer
  known             \* the ids some client got

sessionVars == <<sessions, last_used_at, mailbox, req, known>>

SessionsInit ==
  /\ sessions = [s \in Sessions |-> "unborn"]
  /\ last_used_at = [s \in Sessions |-> "nil"]
  /\ mailbox = <<>> /\ known = {}
  /\ req = [q \in Requests |-> [kind |-> "none", session |-> NoSession, answer |-> "none"]]

Open == {s \in Sessions : sessions[s] = "open"}

-----------------------------------------------------------------------------
(* The client: session_create and session_list, or session_exec,           *)
(* session_get and session_close with an id it knows.                      *)
Ask(q, kind, s) ==
  /\ req[q].kind = "none"
  /\ req' = [req EXCEPT ![q] = [kind |-> kind, session |-> s, answer |-> "waiting"]]
  /\ mailbox' = Append(mailbox, q)
  /\ UNCHANGED <<sessions, last_used_at, known>>

SessionCreate(q) == Ask(q, "create", NoSession)
SessionList(q)   == Ask(q, "list", NoSession)
SessionExec(q)   == \E s \in known : Ask(q, "exec", s)
SessionGet(q)    == \E s \in known : Ask(q, "get", s)
SessionClose(q)  == \E s \in known : Ask(q, "close", s)

(* requests gives up, or the call of the router does and it answers 500.   *)
GiveUp(q) ==
  /\ req[q].answer = "waiting"
  /\ req' = [req EXCEPT ![q].answer = "failed"]
  /\ UNCHANGED <<sessions, last_used_at, mailbox, known>>

-----------------------------------------------------------------------------
(* The server answers the first request, if anybody waits for it.          *)
Served(q, kind) == mailbox # <<>> /\ q = Head(mailbox) /\ req[q].kind = kind

Waits(q) == req[q].answer = "waiting"

Reply(q, r) ==
  /\ req' = IF Waits(q) THEN [req EXCEPT ![q].answer = r] ELSE req
  /\ mailbox' = Tail(mailbox)

(* Mutant: the time of the last use is first set by an exec.               *)
CreateUnused(q, s) ==
  /\ Served(q, "create") /\ sessions[s] = "unborn"
  /\ sessions' = [sessions EXCEPT ![s] = "open"]
  /\ Reply(q, "ok")
  /\ known' = IF Waits(q) THEN known \union {s} ELSE known
  /\ UNCHANGED last_used_at

Create(q, s) ==
  /\ Served(q, "create") /\ sessions[s] = "unborn"
  /\ sessions' = [sessions EXCEPT ![s] = "open"]
  /\ last_used_at' = [last_used_at EXCEPT ![s] = "recent"]
  /\ Reply(q, "ok")
  /\ known' = IF Waits(q) THEN known \union {s} ELSE known

CreateFails(q) ==
  /\ Served(q, "create") /\ Reply(q, "failed")
  /\ UNCHANGED <<sessions, last_used_at, known>>

(* The command is run, well or not, and the time of the last use set.      *)
Execute(q) ==
  LET s == req[q].session IN
  /\ Served(q, "exec") /\ s \in Open
  /\ last_used_at' = [last_used_at EXCEPT ![s] = "recent"]
  /\ \E r \in {"ok", "failed"} : Reply(q, r)
  /\ UNCHANGED <<sessions, known>>

(* session_get answers 200, session_list the ids in the map.               *)
Read(q) ==
  /\ \/ Served(q, "get") /\ req[q].session \in Open /\ UNCHANGED known
     \/ Served(q, "list") /\ known' = IF Waits(q) THEN known \union Open ELSE known
  /\ Reply(q, "ok")
  /\ UNCHANGED <<sessions, last_used_at>>

(* 404, of which session_close makes False, and the others an HTTPError.   *)
NotFound(q) ==
  /\ \E kind \in {"exec", "get", "close"} : Served(q, kind)
  /\ req[q].session \notin Open
  /\ Reply(q, "failed")
  /\ UNCHANGED <<sessions, last_used_at, known>>

Close(q) ==
  LET s == req[q].session IN
  /\ Served(q, "close") /\ s \in Open
  /\ sessions' = [sessions EXCEPT ![s] = "gone"]
  /\ Reply(q, "ok")
  /\ UNCHANGED <<last_used_at, known>>

(* cleanup_idle closes the sessions last used too long ago.                *)
Idle == {s \in Open : last_used_at[s] = "old"}

CleanupIdle ==
  /\ Idle # {}
  /\ sessions' = [s \in Sessions |-> IF s \in Idle THEN "gone" ELSE sessions[s]]
  /\ UNCHANGED <<last_used_at, mailbox, req, known>>

(* A call to the container manager may exit, in a create or when a session *)
(* is closed, be it by the health check, and the GenServer with it: its map *)
(* and its mailbox are lost, and who waits is answered 500.                *)
Exits ==
  /\ Open # {} \/ \E q \in Requests : Served(q, "create")
  /\ sessions' = [s \in Sessions |-> IF s \in Open THEN "gone" ELSE sessions[s]]
  /\ req' = [q \in Requests |-> IF Waits(q) THEN [req[q] EXCEPT !.answer = "failed"] ELSE req[q]]
  /\ mailbox' = <<>>
  /\ UNCHANGED <<last_used_at, known>>

(* idle_timeout_ms pass without an exec.                                   *)
Ages(s) ==
  /\ s \in Open /\ last_used_at[s] = "recent"
  /\ last_used_at' = [last_used_at EXCEPT ![s] = "old"]
  /\ UNCHANGED <<sessions, mailbox, req, known>>

-----------------------------------------------------------------------------
Client ==
  \E q \in Requests :
    \/ SessionCreate(q) \/ SessionList(q) \/ SessionExec(q)
    \/ SessionGet(q) \/ SessionClose(q) \/ GiveUp(q)

Serve ==
  \E q \in Requests :
    \/ CreateFails(q) \/ Execute(q) \/ Read(q) \/ NotFound(q) \/ Close(q)
    \/ \E s \in Sessions : Create(q, s)

SessionsNext ==
  Client \/ Serve \/ Exits \/ CleanupIdle \/ \E s \in Sessions : Ages(s)

-----------------------------------------------------------------------------
(* A session whose creator gave up before the answer, so that nobody has   *)
(* its id, does not stay: it is closed when it was idle for long enough,   *)
(* unless the GenServer exits or a client learns the id from session_list  *)
(* (zypi_client.py:180-184, 261-265, session/manager.ex:51-53, 245-267).   *)
AbandonedCollected ==
  \A s \in Sessions :
    (s \in Open /\ s \notin known) ~> (s \notin Open \/ s \in known)

=============================================================================
