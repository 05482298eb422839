--------------------------- MODULE MCKnowledgeBase ---------------------------
(* Small instances of KnowledgeBase for TLC. *)
EXTENDS KnowledgeBase, TLC

(***************************************************************************)
(* A file of two chunks, each a batch of its own; when it is rewritten it  *)
(* has a fourth word, which is too long, and two other chunks are left.    *)
(***************************************************************************)
MCWords == <<<<3, 4>>>>
MCTooLong == <<<<0, 4>>>>

(* The file, and a resolved incident that matches better. *)
MCScore == (1 :> 2) @@ (3 :> 3)
=============================================================================
