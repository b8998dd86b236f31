---------------------------- MODULE MCGuestAgent ----------------------------
(* Instances of GuestAgent for TLC.  One call executes a command, one shuts *)
(* the guest down, one dials and sends nothing, as a probe does.           *)
EXTENDS GuestAgent, TLC

CONSTANTS k1, k2, k3

Mixed == k1 :> {"exec"} @@ k2 :> {"shutdown"} @@ k3 :> {}
=============================================================================
