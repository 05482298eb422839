---------------------------- MODULE MCLogStream ----------------------------
(* Small instances of LogStream for TLC. *)
EXTENDS LogStream, TLC

Symmetry == Permutations(Containers)
=============================================================================
