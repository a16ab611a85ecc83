--------------------------- MODULE MCDescriptors ---------------------------
(* Instances of Descriptors for TLC: lifetimes, pipe traffic, file locks.     *)
EXTENDS Descriptors, TLC

Symmetric == Permutations(Procs) \cup Permutations(Inodes)
=============================================================================
