----------------------------- MODULE MCCycleGC -----------------------------
(***************************************************************************)
(* CycleGC with two objects, a shape or variable reference s and a context *)
(* x: enough for a cycle of two that refers to a live third node, two      *)
(* cycles, cycles through the auxiliary nodes and one that two share.      *)
(***************************************************************************)
EXTENDS CycleGC

ObjectSymmetry == Permutations(Objects)

=============================================================================
