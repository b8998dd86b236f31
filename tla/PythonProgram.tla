---------------------------- MODULE PythonProgram ----------------------------
(***************************************************************************)
(* A Python program beside the server: it imports one of the packages that *)
(* patch subprocess, bubbleproc.py or _sandbox.py, or uses the sessions or *)
(* the streams of zypi_client.py.  The parts share no state.               *)
(***************************************************************************)
EXTENDS PatchedSubprocess, ClientSessions, ExecStream

VARIABLE program

subprocessVars == vars

allVars == <<subprocessVars, sessionVars, streamVars, program>>

B == INSTANCE Bubbleproc
S == INSTANCE Sandbox

ProgramInit ==
  /\ Init /\ SessionsInit /\ StreamInit
  /\ program \in {"bubbleproc", "_sandbox", "sessions", "stream"}

-----------------------------------------------------------------------------
Patching ==
  \/ program = "bubbleproc" /\ (B!PatchSubprocess \/ B!UnpatchSubprocess)
  \/ program = "_sandbox" /\ (S!PatchSubprocess \/ S!UnpatchSubprocess)

(* _sandbox.py passes every keyword on: a call without a shell is one kind.*)
Asked == IF program = "_sandbox" THEN Kinds \ {"universal", "input"} ELSE Kinds

CallBegins(c) ==
  /\ program \in {"bubbleproc", "_sandbox"}
  /\ \/ \E n \in Names, kind \in Asked, check, kept \in BOOLEAN : Begin(c, n, kind, check, kept)
     \/ \E check \in BOOLEAN : BeginSandbox(c, check)

CallStep(c) ==
  \/ program = "bubbleproc" /\ B!Step(c)
  \/ program = "_sandbox" /\ S!Step(c)

Serves(c) == Server(c) /\ UNCHANGED <<moduleVars, patcherVars, callVars>>

Subprocess ==
  /\ Patching \/ \E c \in Calls : CallBegins(c) \/ CallStep(c) \/ Serves(c)
  /\ UNCHANGED <<sessionVars, streamVars, program>>

UsesSessions ==
  program = "sessions" /\ SessionsNext /\ UNCHANGED <<subprocessVars, streamVars, program>>

Streams ==
  program = "stream" /\ StreamNext /\ UNCHANGED <<subprocessVars, sessionVars, program>>

Next == Subprocess \/ UsesSessions \/ Streams

Spec == ProgramInit /\ [][Next]_allVars

(* A call goes on by itself: its requests have time limits.  Of the server *)
(* of sessions, that it serves, and that its cleanup timer fires.          *)
LiveSpec ==
  /\ Spec
  /\ \A c \in Calls : WF_subprocessVars(CallStep(c))
  /\ WF_sessionVars(Serve) /\ WF_sessionVars(CleanupIdle)
  /\ \A s \in Sessions : WF_sessionVars(Ages(s))

-----------------------------------------------------------------------------
(* What a package promises to keep in the sandbox: bubbleproc.py:302 a     *)
(* string without env; _sandbox.py:674, "Only shell commands (shell=True   *)
(* with string args) are sandboxed".                                       *)
Promised == {"shell"} \union IF program = "_sandbox" THEN {"shellenv"} ELSE {}

(* What is never sent away: no shell, or BUBBLEPROC_DISABLE.               *)
Local == {"disabled", "direct", "universal", "input"}

(* A shell command called while the functions are replaced, from the first *)
(* of them to the start of an unpatch, runs in a VM of the image that was  *)
(* configured, and never on the host, even when it is called through a     *)
(* function of the library that somebody kept from before, Popen apart.    *)
(* What is not for the sandbox never gets there (bubbleproc.py:596-602,    *)
(* _sandbox.py:199-203, 707-713).                                          *)
Contained ==
  \A c \in Calls :
    /\ /\ call[c].calm /\ call[c].kind \in Promised
       /\ call[c].kept => call[c].name # "Popen"
       => /\ "host" \notin ToSet(ran[c])
          /\ used[c] \in {NoImage, asked}
    /\ call[c].kind \in Local => "vm" \notin ToSet(ran[c])

(* Between a patch and an unpatch every function is replaced, else each is *)
(* that of the library again, whatever was called meanwhile                *)
(* (bubbleproc.py:571-623, _sandbox.py:679-734).                           *)
AllOrNothing ==
  patcher.step = "idle" =>
    \A n \in Names : subprocess[n] = IF patched THEN 1 ELSE 0

(* Who is told that a command succeeded had it run, once, to exit code 0;  *)
(* a function that checks never returns when it did not, through whatever  *)
(* mix of original and replaced functions the call went                    *)
(* (bubbleproc.py:312-317, 432-435, 489-498, _sandbox.py:584, 609-616).    *)
SuccessTrue ==
  \A c \in Calls : Done(c) =>
    /\ result[c] = "zero" => Len(ran[c]) = 1 /\ code[c] = "zero"
    /\ (call[c].check \/ call[c].name \in {"check_call", "check_output"})
         => result[c] # "nonzero"

(* Every call ends, though the server may never answer and the functions   *)
(* it goes through are replaced under way (zypi_client.py:109,             *)
(* _sandbox.py:371).                                                       *)
CallsEnd ==
  \A c \in Calls : frame[c].at # "idle" ~> Done(c)

-----------------------------------------------------------------------------
(* A statement of the repository that the code does not keep.              *)

(* README.md:16, "exit_code, stdout, stderr = client.exec(...)", as the    *)
(* packages have it: a command that ran well and was answered in time is   *)
(* reported so.                                                            *)
SuccessReported ==
  [][\A c \in Calls :
       /\ frame[c].at = "posted" /\ frame'[c].at # "posted"
       /\ Answered(c) /\ code[c] = "zero"
       => result'[c] \in {"zero", "output"}]_allVars
=============================================================================
