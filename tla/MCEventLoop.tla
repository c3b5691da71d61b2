---------------------------- MODULE MCEventLoop ----------------------------
(***************************************************************************)
(* EventLoop on small instances.  Two contexts are enough for one to flush *)
(* the jobs of the other; with two observers one of them can be dead; with *)
(* three jobs a throwing job can leave two behind.  The contexts are       *)
(* interchangeable, which the run without liveness properties uses.        *)
(***************************************************************************)
EXTENDS EventLoop, TLC

ContextSymmetry == Permutations(Contexts)

=============================================================================
