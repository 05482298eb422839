------------------------- MODULE MCPatternDetector -------------------------
(* A small instance of PatternDetector for TLC. *)
EXTENDS PatternDetector, TLC

(* The shortest and the longest of the three windows. *)
Scaled == [w \in {"1m", "15m"} |-> IF w = "1m" THEN 1 ELSE 2]

(* No action tells one asker from another. *)
AskersAlike == Permutations(Askers)
=============================================================================
