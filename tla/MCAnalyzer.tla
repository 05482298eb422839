----------------------------- MODULE MCAnalyzer -----------------------------
(* Small instances of Analyzer for TLC. *)
EXTENDS Analyzer
=============================================================================
