----------------------------- MODULE Bubbleproc -----------------------------
(***************************************************************************)
(* bubbleproc.py: its wrappers of the functions of subprocess, Sandbox,    *)
(* and the order in which patch_subprocess and unpatch_subprocess assign.  *)
(***************************************************************************)
EXTENDS PatchedSubprocess

(* shell and isinstance(args, str) and env is None                         *)
ForSandbox(c) == call[c].kind = "shell"

(* The signatures of the wrappers lack some keywords, such as input, and   *)
(* they pass text=False on, which Popen refuses beside universal_newlines. *)
Refuses(c, n) ==
  \/ call[c].kind = "input" /\ n \in {"run", "check_output"}
  \/ call[c].kind = "universal" /\ n \in {"run", "check_output", "Popen"}

Refuse(c, n) == Wraps(c, n) /\ Refuses(c, n) /\ Raise(c)

Under(c) == frame[c].fn - 1

-----------------------------------------------------------------------------
(* __post_init__, and _create_sandbox_from_config.                         *)
SandboxInit(c, i) == MakeSandbox(c, i)

CreateSandbox(c) == frame[c].name # "Sandbox" /\ SandboxInit(c, patch_config)

SandboxRun(c) == Post(c) \/ Respond(c)

(* The class is a subprocess.Popen whose __init__ was not called when the  *)
(* command ran in the sandbox; with, which reads its stdin, fails.         *)
Managed == FALSE

SandboxedPopen(c) ==
  \/ Refuse(c, "Popen")
  \/ ~Refuses(c, "Popen") /\ Dispatch(c, "Popen", ForSandbox(c), 0)
  \/ Catch(c, "Popen", "nonzero")

(* Its CalledProcessError has no output.                                   *)
SandboxedRun(c) ==
  \/ Refuse(c, "run")
  \/ ~Refuses(c, "run") /\ Dispatch(c, "run", ForSandbox(c), Under(c))
  \/ Catch(c, "run", IF RunChecks(c) THEN "textless" ELSE "nonzero")

SandboxedCall(c) ==
  \/ Dispatch(c, "call", ForSandbox(c), Under(c))
  \/ Catch(c, "call", "nonzero")

(* Mutant: the failure is returned as in sandboxed_call.                   *)
SandboxedCheckCallReturns(c) ==
  \/ Dispatch(c, "check_call", ForSandbox(c), Under(c))
  \/ Catch(c, "check_call", "nonzero")

SandboxedCheckCall(c) ==
  \/ Dispatch(c, "check_call", ForSandbox(c), Under(c))
  \/ Catch(c, "check_call", "raised")

SandboxedCheckOutput(c) ==
  \/ Refuse(c, "check_output")
  \/ ~Refuses(c, "check_output") /\ Dispatch(c, "check_output", ForSandbox(c), Under(c))
  \/ Catch(c, "check_output", "raised")

SandboxedGetoutput(c) ==
  \/ Wraps(c, "getoutput") /\ Goto(c, "construct")
  \/ Catch(c, "getoutput", "output")

SandboxedGetstatusoutput(c) ==
  \/ Wraps(c, "getstatusoutput") /\ Goto(c, "construct")
  \/ Catch(c, "getstatusoutput", "nonzero")

-----------------------------------------------------------------------------
Order == <<"run", "call", "check_call", "check_output", "Popen",
           "getoutput", "getstatusoutput">>

PatchSubprocess == Patch(Order)

UnpatchSubprocess ==
  \/ BeginUnpatch(Order) \/ Restore
  \/ Unmark("forget", "last") \/ DropOriginals("last", "idle")

(* run of this module makes a Sandbox of its own, and raises what it does. *)
Run(c) ==
  \/ In(c, "Sandbox", "construct") /\ \E i \in Images : SandboxInit(c, i)
  \/ SandboxEnds(c)

Wrapper(c) ==
  \/ SandboxedPopen(c) \/ SandboxedRun(c) \/ SandboxedCall(c)
  \/ SandboxedCheckCall(c) \/ SandboxedCheckOutput(c)
  \/ SandboxedGetoutput(c) \/ SandboxedGetstatusoutput(c)
  \/ CreateSandbox(c) \/ SandboxRun(c)

Step(c) == Library(c, Managed) \/ Wrapper(c) \/ Run(c)
=============================================================================
