----------------------------- MODULE ZypiClient -----------------------------
(***************************************************************************)
(* One-shot commands of zypi_client.py: POST /exec, its time limit, and    *)
(* the server that runs the command in a VM.  The client and the server    *)
(* measure the same number of seconds, so either may be first to give up,  *)
(* and a client that gave up is not noticed by the server.                 *)
(***************************************************************************)
EXTENDS Integers, Sequences

CONSTANT Calls              \* the commands somebody asks for

VARIABLES
  request,          \* Calls -> how far its POST /exec has come
  ran,              \* Calls -> where its command was started, in order
  code              \* Calls -> the exit code of the command

clientVars == <<request, ran, code>>

ExitCodes == {"zero", "nonzero"}

ClientInit ==
  /\ request = [c \in Calls |-> "none"]
  /\ ran = [c \in Calls |-> <<>>]
  /\ code = [c \in Calls |-> "none"]

-----------------------------------------------------------------------------
(* exec posts the command, whatever was posted before.                     *)
Exec(c) ==
  /\ request' = [request EXCEPT ![c] = "posted"]
  /\ UNCHANGED <<ran, code>>

(* Executor.run gets a VM and starts the command, which may take so long   *)
(* that the client is gone by then,                                        *)
ServerStarts(c) ==
  /\ request[c] = "posted"
  /\ request' = [request EXCEPT ![c] = "running"]
  /\ ran' = [ran EXCEPT ![c] = Append(@, "vm")]
  /\ UNCHANGED code

(* answers with its exit code,                                             *)
ServerEnds(c) ==
  /\ request[c] = "running"
  /\ request' = [request EXCEPT ![c] = "answered"]
  /\ \E k \in ExitCodes : code' = [code EXCEPT ![c] = k]
  /\ UNCHANGED ran

(* or answers 500, before the command or after it.                         *)
ServerFails(c) ==
  /\ request[c] \in {"posted", "running"}
  /\ request' = [request EXCEPT ![c] = "failed"]
  /\ UNCHANGED <<ran, code>>

Server(c) == ServerStarts(c) \/ ServerEnds(c) \/ ServerFails(c)

-----------------------------------------------------------------------------
(* What requests.post ends in: a response with an exit code, or an         *)
(* exception, from raise_for_status or when the time is over.              *)
Answered(c) == request[c] = "answered"

GivesUp(c) == request[c] \in {"posted", "running", "failed"}

(* from_response makes an ExecResult, a dataclass without __iter__.        *)
Unpacks == FALSE

(* health_check: any failure to answer is False.                           *)
HealthCheck == BOOLEAN

(* A command is started once, in a VM or on the host: a failure, a time    *)
(* limit or a wrapper within a wrapper never starts it again               *)
(* (zypi_client.py:106-111, bubbleproc.py:302-319, _sandbox.py:509-521).   *)
RunsOnce == \A c \in Calls : Len(ran[c]) <= 1
=============================================================================
