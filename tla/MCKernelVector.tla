--------------------------- MODULE MCKernelVector ---------------------------
(* A small instance of KernelVector for TLC. *)
EXTENDS KernelVector, TLC

Symmetry == Permutations(Vectors)
=============================================================================
