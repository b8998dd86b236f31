----------------------------- MODULE ExecStream -----------------------------
(***************************************************************************)
(* A command whose output is asked for as a stream of events:              *)
(* exec_streaming and session_exec_streaming of zypi_client.py, and        *)
(* do_sse_loop of lib/zypi/api/router.ex, which polls the task that runs   *)
(* the command.  No byte is sent before the command has ended: the task    *)
(* sends no chunk, and last_keepalive is moved by every poll, so that the  *)
(* five seconds of a keepalive never pass.                                 *)
(*                                                                         *)
(* Time is counted in units of five seconds; messages and polls take none. *)
(***************************************************************************)
EXTENDS Integers, Sequences

CONSTANT Timeout            \* the timeout of the command, in units

ASSUME TimeoutAssumption == Timeout \in Nat \ {0}

VARIABLES
  stream,           \* which of the two functions was called
  clock,            \* since the task was started
  quiet,            \* since the client read something
  runner,           \* the task
  sse,              \* the response: in the loop, ended, or cut off
  sent,             \* its events
  got,              \* the events the generator yielded
  client            \* the generator

streamVars == <<stream, clock, quiet, runner, sse, sent, got, client>>

StreamInit ==
  /\ stream = "none" /\ clock = 0 /\ quiet = 0
  /\ runner = "none" /\ sse = "none" /\ sent = <<>>
  /\ got = <<>> /\ client = "none"

-----------------------------------------------------------------------------
(* requests.post returns with the headers.                                 *)
OpenStream(kind) ==
  /\ client = "none"
  /\ stream' = kind /\ client' = "reading" /\ runner' = "running" /\ sse' = "loop"
  /\ UNCHANGED <<clock, quiet, sent, got>>

(* The limit of requests on the time between two bytes.                    *)
ReadLimit == IF stream = "session" THEN Timeout + 2 ELSE Timeout

Unread == Len(got) < Len(sent)

ReadEvent ==
  /\ client = "reading" /\ Unread
  /\ got' = Append(got, sent[Len(got) + 1])
  /\ quiet' = 0
  /\ UNCHANGED <<stream, clock, runner, sse, sent, client>>

ReadEnd ==
  /\ client = "reading" /\ ~Unread /\ sse \in {"ended", "cut"}
  /\ client' = sse
  /\ UNCHANGED <<stream, clock, quiet, runner, sse, sent, got>>

ReadTimesOut ==
  /\ client = "reading" /\ ~Unread /\ sse = "loop" /\ quiet >= ReadLimit
  /\ client' = "timeout"
  /\ UNCHANGED <<stream, clock, quiet, runner, sse, sent, got>>

(* The caller drops the generator, and with it the connection.             *)
Drop ==
  /\ client = "reading"
  /\ client' = "dropped"
  /\ UNCHANGED <<stream, clock, quiet, runner, sse, sent, got>>

-----------------------------------------------------------------------------
(* Executor.run or Session.Manager.exec in the task.  A call that exits    *)
(* takes the process of the request, to which the task is linked, along.   *)
RunnerEnds ==
  /\ runner = "running"
  /\ \/ runner' \in {"ok", "error"} /\ UNCHANGED sse
     \/ runner' = "exited" /\ sse' = "cut"
  /\ UNCHANGED <<stream, clock, quiet, sent, got, client>>

Deadline == Timeout + 1

(* The loop writes its last events; a client that is gone is found out.    *)
Write(events, ending) ==
  \/ client = "reading" /\ sent' = events /\ sse' = ending
  \/ client # "reading" /\ sse' = "cut" /\ UNCHANGED sent

LoopFrame == UNCHANGED <<stream, clock, quiet, got, client>>

(* This branch returns {:ok, conn}, which no route may: the process raises *)
(* once the event is sent.                                                 *)
LoopTimesOut ==
  /\ sse = "loop" /\ clock >= Deadline
  /\ runner' = "killed"
  /\ Write(<<"error">>, "cut") /\ LoopFrame

(* Mutant: a result ends the stream without a word.                        *)
LoopYieldsSilently ==
  /\ sse = "loop" /\ clock < Deadline /\ runner \in {"ok", "error"}
  /\ Write(IF runner = "error" THEN <<"error">> ELSE <<"result">>, "ended")
  /\ UNCHANGED runner /\ LoopFrame

(* The result of a session is a map; that of Executor.run is a struct,     *)
(* which result[:exit_code] does not take: this process raises.            *)
LoopYields ==
  /\ sse = "loop" /\ clock < Deadline /\ runner \in {"ok", "error"}
  /\ \/ runner = "error" /\ Write(<<"error">>, "ended")
     \/ runner = "ok" /\ stream = "session" /\ Write(<<"result", "done">>, "ended")
     \/ runner = "ok" /\ stream = "oneshot" /\ sse' = "cut" /\ UNCHANGED sent
  /\ UNCHANGED runner /\ LoopFrame

(* Time passes while nobody is due.                                        *)
Tick ==
  /\ client = "reading" /\ sse = "loop"
  /\ clock < Deadline /\ quiet < ReadLimit /\ runner = "running"
  /\ clock' = clock + 1 /\ quiet' = quiet + 1
  /\ UNCHANGED <<stream, runner, sse, sent, got, client>>

StreamNext ==
  \/ \E kind \in {"oneshot", "session"} : OpenStream(kind)
  \/ ReadEvent \/ ReadEnd \/ ReadTimesOut \/ Drop
  \/ RunnerEnds \/ LoopTimesOut \/ LoopYields \/ Tick

-----------------------------------------------------------------------------
(* A generator that ends without an exception has yielded "done" or        *)
(* "error" last, and that of a session is never ended by the read limit:   *)
(* the server, silent for as long as the command may run, gives up first   *)
(* (zypi_client.py:141-160, 231-250, router.ex:606-695).                   *)
StreamTold ==
  /\ client = "ended" => got # <<>> /\ got[Len(got)] \in {"done", "error"}
  /\ stream = "session" => client # "timeout"
=============================================================================
