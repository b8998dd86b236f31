------------------------------- MODULE Sandbox -------------------------------
(***************************************************************************)
(* _sandbox.py: its wrappers of the functions of subprocess, Sandbox, and  *)
(* the order in which patch_subprocess and unpatch_subprocess assign.      *)
(***************************************************************************)
EXTENDS PatchedSubprocess

(* _should_sandbox: a shell, unless env has BUBBLEPROC_DISABLE.            *)
ShouldSandbox(c) == call[c].kind \in {"shell", "shellenv", "shelllist"}

Under(c) == frame[c].fn - 1

-----------------------------------------------------------------------------
(* __post_init__, and _create_sandbox_from_config.                         *)
SandboxInit(c, i) == MakeSandbox(c, i)

CreateSandbox(c) == frame[c].name # "Sandbox" /\ SandboxInit(c, patch_config)

SandboxRun(c) == Post(c) \/ Respond(c)

(* The class has an __enter__ and an __exit__ of its own.                  *)
Managed == TRUE

(* _originals.get("Popen", subprocess.Popen), looked up by each call.      *)
OriginalPopen ==
  IF "Popen" \in DOMAIN originals THEN originals["Popen"] ELSE subprocess["Popen"]

SandboxedPopen(c) ==
  \/ Dispatch(c, "Popen", ShouldSandbox(c), OriginalPopen)
  \/ Catch(c, "Popen", "nonzero")

SandboxedRun(c) ==
  \/ Dispatch(c, "run", ShouldSandbox(c), Under(c))
  \/ Catch(c, "run", "raised")

SandboxedCall(c) ==
  \/ Dispatch(c, "call", ShouldSandbox(c), Under(c))
  \/ Catch(c, "call", "raised")

SandboxedCheckCall(c) ==
  \/ Dispatch(c, "check_call", ShouldSandbox(c), Under(c))
  \/ Catch(c, "check_call", "raised")

SandboxedCheckOutput(c) ==
  \/ Dispatch(c, "check_output", ShouldSandbox(c), Under(c))
  \/ Catch(c, "check_output", "raised")

SandboxedGetstatusoutput(c) ==
  \/ Wraps(c, "getstatusoutput") /\ Goto(c, "construct")
  \/ Catch(c, "getstatusoutput", "nonzero")

SandboxedGetoutput(c) ==
  \/ Wraps(c, "getoutput") /\ Goto(c, "construct")
  \/ Catch(c, "getoutput", "output")

-----------------------------------------------------------------------------
Order == <<"run", "call", "check_call", "check_output", "Popen",
           "getstatusoutput", "getoutput">>

PatchSubprocess == Patch(Order)

UnpatchSubprocess ==
  \/ DOMAIN originals # {} /\ BeginUnpatch(Order)
  \/ Restore
  \/ DropOriginals("forget", "last") \/ Unmark("last", "idle")

(* run and check_output of this module make a Sandbox of their own, and    *)
(* raise what it does.                                                     *)
Run(c) ==
  \/ In(c, "Sandbox", "construct") /\ \E i \in Images : SandboxInit(c, i)
  \/ SandboxEnds(c)

Wrapper(c) ==
  \/ SandboxedPopen(c) \/ SandboxedRun(c) \/ SandboxedCall(c)
  \/ SandboxedCheckCall(c) \/ SandboxedCheckOutput(c)
  \/ SandboxedGetstatusoutput(c) \/ SandboxedGetoutput(c)
  \/ CreateSandbox(c) \/ SandboxRun(c)

Step(c) == Library(c, Managed) \/ Wrapper(c) \/ Run(c)
=============================================================================
