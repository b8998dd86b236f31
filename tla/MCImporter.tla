----------------------------- MODULE MCImporter -----------------------------
(* Instances of Importer for TLC: what the imports ask for.                *)
EXTENDS Importer, TLC

CONSTANTS i1, i2, i3, r1, r2, r3, h1, h2, h3

(* Three images of their own, one of whose tasks may raise; or an image    *)
(* imported twice, and deleted.                                            *)
ThreeImages ==
  [ref |-> i1 :> r1 @@ i2 :> r2 @@ i3 :> r3,
   layers |-> i1 :> h1 @@ i2 :> h2 @@ i3 :> h3,
   crashes |-> 1, deletable |-> {}]

ImportedAgain ==
  [ref |-> i1 :> r1 @@ i2 :> r1 @@ i3 :> r2,
   layers |-> i1 :> h1 @@ i2 :> h1 @@ i3 :> h2,
   crashes |-> 0, deletable |-> {r1}]

Scenarios == {ThreeImages, ImportedAgain}
=============================================================================
