----------------------------- MODULE MCWatcher -----------------------------
(* Small instances of Watcher for TLC. *)
EXTENDS Watcher, TLC

Symmetry == Permutations(Keys) \union Permutations(Routines)
=============================================================================
