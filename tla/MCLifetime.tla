----------------------------- MODULE MCLifetime -----------------------------
(***************************************************************************)
(* Lifetime with two contexts on one runtime, so that one can outlive the  *)
(* other.  One value and one timer each are enough: only whether there is  *)
(* one matters.                                                            *)
(***************************************************************************)
EXTENDS Lifetime, TLC

ContextSymmetry == Permutations(Contexts)

=============================================================================
