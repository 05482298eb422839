------------------------------ MODULE Chunking ------------------------------
(***************************************************************************)
(* ChunkDocument of internal/rag/document_loader.go: a document of n words *)
(* becomes overlapping chunks.  A word is its position, a piece of the     *)
(* document the positions <<from..to>> it holds.  Piece 0 is the document  *)
(* as it is; piece k + 1 is chunk k.                                       *)
(*                                                                         *)
(* tooLong is the first word that does not fit the 64 KiB of a             *)
(* bufio.Scanner, an inline image for example, and 0 if all words do.      *)
(***************************************************************************)
EXTENDS Integers

SizeOf(chunkSize) == IF chunkSize <= 0 THEN 512 ELSE chunkSize

OverlapOf(chunkSize, overlap) ==
    LET asked == IF overlap < 0 THEN 50 ELSE overlap
    IN  IF asked >= SizeOf(chunkSize) THEN SizeOf(chunkSize) \div 2 ELSE asked

StepOf(chunkSize, overlap) == SizeOf(chunkSize) - OverlapOf(chunkSize, overlap)

(* Slip: it stops at the first chunk that does not fit entirely. *)
HasChunkShort(n, size, step, k) == k = 0 \/ k * step + size < n

(***************************************************************************)
(* The loop gets to chunk k unless the one before it ended the document.   *)
(* (Its condition start < n adds nothing: a step is no longer than a       *)
(* chunk.)                                                                 *)
(***************************************************************************)
HasChunk(n, size, step, k) == k = 0 \/ (k - 1) * step + size < n

ChunkEnd(n, size, step, k) ==
    IF k * step + size > n THEN n ELSE k * step + size

(* The scanner stops before a word that is too long; nobody asks for its error. *)
TokenizeWords(n, tooLong) == IF tooLong = 0 THEN n ELSE tooLong - 1

ChunkDocument(n, tooLong, chunkSize, overlap) ==
    LET words == TokenizeWords(n, tooLong)
        size == SizeOf(chunkSize)
        step == StepOf(chunkSize, overlap)
    IN  IF words <= size
        THEN {[part |-> 0, from |-> 1, to |-> n]}
        ELSE {[part |-> k + 1, from |-> k * step + 1, to |-> ChunkEnd(words, size, step, k)] :
                 k \in {j \in 0..words : HasChunk(words, size, step, j)}}

(* The words that get lost: those a document is chunked without. *)
Dropped(n, tooLong, chunkSize, word) ==
    /\ word > TokenizeWords(n, tooLong)
    /\ TokenizeWords(n, tooLong) > SizeOf(chunkSize)
=============================================================================
