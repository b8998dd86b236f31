------------------------------ MODULE MCVMPool ------------------------------
(***************************************************************************)
(* Instances of VMPool for TLC.                                            *)
(***************************************************************************)
EXTENDS VMPool, TLC

(* VM ids and container ids are only compared for equality.  Sound for the *)
(* safety runs that let no VM be destroyed by an operator.                 *)
Symmetry == Permutations(VMs) \union Permutations(Containers)
=============================================================================
