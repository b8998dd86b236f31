-------------------------- MODULE PatchedSubprocess --------------------------
(***************************************************************************)
(* What bubbleproc.py and _sandbox.py share: the subprocess module of the  *)
(* Python library, whose seven functions they replace one by one while     *)
(* other threads call them, and the way of a call through them.            *)
(*                                                                         *)
(* The functions of the library find each other by name in the module when *)
(* they are called: check_output calls run, which calls Popen.  A call may *)
(* thus meet a replaced function half way, even when it began with a       *)
(* reference taken before the patch.                                       *)
(***************************************************************************)
EXTENDS ZypiClient, SequencesExt

CONSTANTS
  Images,           \* what patch_subprocess may be given as image
  DefaultImage,     \* that of a configuration nobody made
  NoImage

ASSUME PatchAssumption == {DefaultImage, NoImage} \intersect Images = {}

Names == {"run", "call", "check_call", "check_output", "Popen",
          "getoutput", "getstatusoutput"}

(* What is asked for: a shell command as a string, the same with an env,   *)
(* with BUBBLEPROC_DISABLE in it, as a list; no shell, the same with       *)
(* universal_newlines, or with a keyword of run alone such as input.       *)
Kinds == {"shell", "shellenv", "disabled", "shelllist",
          "direct", "universal", "input"}

VARIABLES
  (* the modules                                                           *)
  subprocess,       \* Names -> the function bound to it: how many wrappers
                    \*          lie over that of the library
  originals,        \* _originals: the functions bound before, or empty
  patched,          \* _patched
  patch_config,     \* _patch_config, its image
  (* the thread that patches and unpatches                                 *)
  patcher,          \* its next step, the names left to assign, and the image
                    \* it was given
  asked,            \* the image of the last patch that was made
  (* the calls                                                             *)
  call,             \* Calls -> what was called and how, and whether all
                    \*          functions stay replaced meanwhile (calm)
  frame,            \* Calls -> the function that runs, and where in it
  stack,            \* Calls -> the library functions that wait for it
  used,             \* Calls -> the image of the sandbox made for it
  result            \* Calls -> what the function returns or raises

moduleVars  == <<subprocess, originals, patched, patch_config>>
patcherVars == <<patcher, asked>>
callVars    == <<call, frame, stack, used, result>>
vars == <<clientVars, moduleVars, patcherVars, callVars>>

Init ==
  /\ ClientInit
  /\ subprocess = [n \in Names |-> 0] /\ originals = <<>>
  /\ patched = FALSE /\ patch_config = DefaultImage
  /\ patcher = [step |-> "idle", todo |-> <<>>, image |-> NoImage]
  /\ asked = NoImage
  /\ call = [c \in Calls |-> [name |-> "run", kind |-> "direct", check |-> FALSE,
                              kept |-> FALSE, calm |-> FALSE]]
  /\ frame = [c \in Calls |-> [name |-> "run", fn |-> 0, at |-> "idle"]]
  /\ stack = [c \in Calls |-> <<>>]
  /\ used = [c \in Calls |-> NoImage] /\ result = [c \in Calls |-> "none"]

Unpatching == patcher.step \in {"restore", "forget", "last"}

-----------------------------------------------------------------------------
(* The steps of patch_subprocess.  _patched is tested first and set last.  *)
PatchFrame == UNCHANGED <<clientVars, callVars>>

(* Mutant: the functions are replaced once more.                           *)
TestNothing(i) ==
  /\ patcher.step = "idle"
  /\ patcher' = [step |-> "prepare", todo |-> <<>>, image |-> i]
  /\ UNCHANGED <<moduleVars, asked>>
  /\ PatchFrame

Test(i) ==
  /\ patcher.step = "idle" /\ ~patched
  /\ patcher' = [step |-> "prepare", todo |-> <<>>, image |-> i]
  /\ UNCHANGED <<moduleVars, asked>>
  /\ PatchFrame

Prepare(order) ==
  /\ patcher.step = "prepare"
  /\ patcher' = [patcher EXCEPT !.step = "install", !.todo = order]
  /\ originals' = subprocess
  /\ patch_config' = patcher.image /\ asked' = patcher.image
  /\ UNCHANGED <<subprocess, patched>>
  /\ PatchFrame

(* The next of its assignments to the module.                              *)
Assign(fn, last) ==
  LET n == Head(patcher.todo) IN
  /\ subprocess' = [subprocess EXCEPT ![n] = fn[n]]
  /\ patcher' = [patcher EXCEPT !.todo = Tail(@),
                                !.step = IF Len(patcher.todo) = 1 THEN last ELSE @]

(* Mutant: the class Popen is not replaced.                                *)
WrappersButPopen ==
  [n \in Names |->
     IF n \in {"getoutput", "getstatusoutput"} THEN 1
     ELSE IF n = "Popen" THEN 0 ELSE originals[n] + 1]

(* SandboxedPopen is one class, and the wrappers of getoutput and          *)
(* getstatusoutput keep no original; the others keep that of _originals.   *)
Wrappers ==
  [n \in Names |->
     IF n \in {"Popen", "getoutput", "getstatusoutput"} THEN 1 ELSE originals[n] + 1]

Install ==
  /\ patcher.step = "install"
  /\ Assign(Wrappers, "finish")
  /\ UNCHANGED <<originals, patched, patch_config, asked>>
  /\ PatchFrame

Finish ==
  /\ patcher.step = "finish"
  /\ patcher' = [patcher EXCEPT !.step = "idle"]
  /\ patched' = TRUE
  /\ UNCHANGED <<subprocess, originals, patch_config, asked>>
  /\ PatchFrame

Patch(order) ==
  \/ \E i \in Images : Test(i)
  \/ Prepare(order) \/ Install \/ Finish

-----------------------------------------------------------------------------
(* The steps of unpatch_subprocess.                                        *)
BeginUnpatch(order) ==
  /\ patcher.step = "idle" /\ patched
  /\ patcher' = [patcher EXCEPT !.step = "restore", !.todo = order]
  /\ call' = [c \in Calls |-> [call[c] EXCEPT !.calm = FALSE]]
  /\ UNCHANGED <<clientVars, moduleVars, asked, frame, stack, used, result>>

Restore ==
  /\ patcher.step = "restore"
  /\ Assign(originals, "forget")
  /\ UNCHANGED <<originals, patched, patch_config, asked>>
  /\ PatchFrame

(* The two modules are reset in a different order.                         *)
Unmark(step, next) ==
  /\ patcher.step = step
  /\ patcher' = [patcher EXCEPT !.step = next]
  /\ patched' = FALSE
  /\ UNCHANGED <<subprocess, originals, patch_config, asked>>
  /\ PatchFrame

DropOriginals(step, next) ==
  /\ patcher.step = step
  /\ patcher' = [patcher EXCEPT !.step = next]
  /\ originals' = <<>>
  /\ UNCHANGED <<subprocess, patched, patch_config, asked>>
  /\ PatchFrame

-----------------------------------------------------------------------------
(* A call.  The name is looked up in the module, or was when the library's *)
(* own function was bound to it.                                           *)
CallFrame == UNCHANGED <<moduleVars, patcherVars, call>>

Goto(c, at) ==
  /\ frame' = [frame EXCEPT ![c].at = at]
  /\ UNCHANGED <<clientVars, stack, used, result>> /\ CallFrame

Enter(c, n, fn) ==
  /\ frame' = [frame EXCEPT ![c].name = n, ![c].fn = fn]
  /\ UNCHANGED <<clientVars, used, result>> /\ CallFrame

Return(c, r) ==
  /\ frame' = [frame EXCEPT ![c].at = "returning"]
  /\ result' = [result EXCEPT ![c] = r]
  /\ UNCHANGED <<stack, used>> /\ CallFrame

Raise(c) == Return(c, "raised") /\ UNCHANGED clientVars

In(c, n, at) == frame[c].name = n /\ frame[c].at = at

Wraps(c, n) == In(c, n, "called") /\ frame[c].fn > 0

Begin(c, n, kind, check, kept) ==
  LET fn == IF kept THEN 0 ELSE subprocess[n] IN
  /\ frame[c].at = "idle"
  /\ n \in {"getoutput", "getstatusoutput"} => kind = "shell"
  /\ kind = "input" => n \in {"run", "check_output"}
  /\ check => n = "run"
  /\ call' = [call EXCEPT ![c] = [name |-> n, kind |-> kind, check |-> check, kept |-> kept,
                                  calm |-> ~Unpatching /\ (patched \/ fn > 0)]]
  /\ frame' = [frame EXCEPT ![c] = [name |-> n, fn |-> fn, at |-> "called"]]
  /\ UNCHANGED <<clientVars, moduleVars, patcherVars, stack, used, result>>

(* The functions of the library that call another, and the one they call.  *)
Callee == [run |-> "Popen", call |-> "Popen", check_call |-> "call",
           check_output |-> "run", getoutput |-> "getstatusoutput",
           getstatusoutput |-> "check_output"]

(* Since Python 3.11 getoutput passes an encoding on, which the wrapper of *)
(* getstatusoutput does not take.                                          *)
MissesKeyword(c) ==
  In(c, "getoutput", "called") /\ frame[c].fn = 0 /\ subprocess["getstatusoutput"] > 0

LibraryCalls(c) ==
  LET n == frame[c].name IN
  /\ frame[c].at = "called" /\ frame[c].fn = 0 /\ n \in DOMAIN Callee
  /\ \/ /\ ~MissesKeyword(c)
        /\ Enter(c, Callee[n], subprocess[Callee[n]])
        /\ stack' = [stack EXCEPT ![c] = Append(@, n)]
     \/ MissesKeyword(c) /\ Raise(c)

(* Popen starts a process, or raises OSError.                              *)
LibraryPopen(c) ==
  /\ In(c, "Popen", "called") /\ frame[c].fn = 0
  /\ \/ /\ \E k \in ExitCodes : code' = [code EXCEPT ![c] = k] /\ Return(c, k)
        /\ ran' = [ran EXCEPT ![c] = Append(@, "host")]
        /\ UNCHANGED request
     \/ Raise(c)

(* What a function of the library makes of what the one it called returns  *)
(* or raises: "failed" is CalledProcessError, "textless" the same with no  *)
(* output, whose last character getstatusoutput tries to take, "raised"    *)
(* another exception, "output" a text without an exit code.  run and call  *)
(* use Popen in a with statement, which not every SandboxedPopen survives. *)
RunChecks(c) == call[c].name = "run" => call[c].check

Through(c, n, r, managed) ==
  CASE n \in {"run", "call"} /\ ~managed /\ In(c, "Popen", "returning")
         /\ request[c] # "none"                    -> "raised"
    [] n = "run" /\ r = "nonzero" /\ RunChecks(c) -> "failed"
    [] n = "check_call" /\ r = "nonzero"           -> "failed"
    [] n = "getstatusoutput" /\ r = "failed"       -> "nonzero"
    [] n = "getstatusoutput" /\ r = "textless"     -> "raised"
    [] n = "getoutput" /\ r \in ExitCodes          -> "output"
    [] OTHER                                       -> r

LibraryReturns(c, managed) ==
  /\ frame[c].at = "returning" /\ stack[c] # <<>>
  /\ result' = [result EXCEPT ![c] = Through(c, Last(stack[c]), @, managed)]
  /\ stack' = [stack EXCEPT ![c] = Front(@)]
  /\ frame' = [frame EXCEPT ![c].name = Last(stack[c])]
  /\ UNCHANGED <<clientVars, used>> /\ CallFrame

Done(c) == frame[c].at = "returning" /\ stack[c] = <<>>

Library(c, managed) ==
  LibraryCalls(c) \/ LibraryPopen(c) \/ LibraryReturns(c, managed)

-----------------------------------------------------------------------------
(* What the wrappers do.  A wrapper makes a Sandbox, outside of its try,   *)
(* or hands the call to an original.                                       *)
Dispatch(c, n, sandboxed, original) ==
  /\ Wraps(c, n)
  /\ \/ sandboxed /\ Goto(c, "construct")
     \/ ~sandboxed /\ Enter(c, n, original) /\ UNCHANGED stack

(* Making one fails with SandboxError unless the server answers.           *)
MakeSandbox(c, config) ==
  /\ frame[c].at = "construct"
  /\ used' = [used EXCEPT ![c] = config]
  /\ \E healthy \in HealthCheck :
       /\ frame' = [frame EXCEPT ![c].at = IF healthy THEN "sandbox" ELSE "returning"]
       /\ result' = IF healthy THEN result ELSE [result EXCEPT ![c] = "raised"]
  /\ UNCHANGED <<clientVars, stack>> /\ CallFrame

Post(c) ==
  /\ frame[c].at = "sandbox" /\ Exec(c)
  /\ frame' = [frame EXCEPT ![c].at = "posted"]
  /\ UNCHANGED <<stack, used, result>> /\ CallFrame

(* Sandbox.run is called with check by these.                              *)
Checks(c) ==
  CASE frame[c].name = "run"                          -> RunChecks(c)
    [] frame[c].name = "Sandbox"                      -> call[c].check
    [] frame[c].name \in {"check_call", "check_output"} -> TRUE
    [] OTHER                                          -> FALSE

(* Sandbox.run and, when it returns, its caller.  Whatever exec raises is  *)
(* made a SandboxError; so is the TypeError of its result, an object that  *)
(* is assigned to three names and cannot be unpacked.                      *)
Outcome(c) ==
  CASE ~Answered(c) \/ ~Unpacks                -> "error"
    [] code[c] = "nonzero" /\ Checks(c)        -> "failed"
    [] frame[c].name = "getoutput"             -> "output"
    [] OTHER                                   -> code[c]

(* Mutant: a command that was not answered is posted again.                *)
RespondRetries(c) ==
  /\ frame[c].at = "posted" /\ (Answered(c) \/ GivesUp(c))
  /\ LET r == Outcome(c) IN
     /\ frame' = [frame EXCEPT ![c].at = IF ~Answered(c) THEN "sandbox"
                                         ELSE IF r = "error" THEN "error" ELSE "returning"]
     /\ result' = [result EXCEPT ![c] = r]
  /\ UNCHANGED <<clientVars, stack, used>> /\ CallFrame

(* Mutant: the request has no time limit.                                  *)
RespondWhenAnswered(c) ==
  /\ frame[c].at = "posted" /\ request[c] \in {"answered", "failed"}
  /\ LET r == Outcome(c) IN
     /\ frame' = [frame EXCEPT ![c].at = IF r = "error" THEN "error" ELSE "returning"]
     /\ result' = [result EXCEPT ![c] = r]
  /\ UNCHANGED <<clientVars, stack, used>> /\ CallFrame

Respond(c) ==
  /\ frame[c].at = "posted" /\ (Answered(c) \/ GivesUp(c))
  /\ LET r == Outcome(c) IN
     /\ frame' = [frame EXCEPT ![c].at = IF r = "error" THEN "error" ELSE "returning"]
     /\ result' = [result EXCEPT ![c] = r]
  /\ UNCHANGED <<clientVars, stack, used>> /\ CallFrame

(* The except clause of n.                                                 *)
Catch(c, n, r) == In(c, n, "error") /\ Return(c, r) /\ UNCHANGED clientVars

-----------------------------------------------------------------------------
(* A Sandbox made without a patch: run and check_output of the modules.    *)
BeginSandbox(c, check) ==
  /\ frame[c].at = "idle"
  /\ call' = [call EXCEPT ![c].name = "Sandbox", ![c].kind = "shell", ![c].check = check]
  /\ frame' = [frame EXCEPT ![c] = [name |-> "Sandbox", fn |-> 1, at |-> "construct"]]
  /\ UNCHANGED <<clientVars, moduleVars, patcherVars, stack, used, result>>

SandboxEnds(c) == Catch(c, "Sandbox", "raised")
=============================================================================
