---------------------------- MODULE MCKernelPool ----------------------------
(***************************************************************************)
(* KernelPool for TLC: conversations and kernel processes are              *)
(* interchangeable.                                                        *)
(***************************************************************************)
EXTENDS KernelPool, TLC

Symmetry == Permutations(Keys) \cup Permutations(Workers)

=============================================================================
