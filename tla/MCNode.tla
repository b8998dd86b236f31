------------------------------- MODULE MCNode -------------------------------
(* Instances of SystemCleanup, and with it of ContainerManager, for TLC.   *)
EXTENDS SystemCleanup, TLC

(* Container ids and ports are only compared for equality.  For the run    *)
(* that lets no id be created twice.                                       *)
Symmetry == Permutations(Containers) \union Permutations(Ports)
=============================================================================
