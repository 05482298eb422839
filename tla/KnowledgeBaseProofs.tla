------------------------- MODULE KnowledgeBaseProofs -------------------------
(***************************************************************************)
(* Theorems about KnowledgeBase and Chunking: chunks lose no word but      *)
(* those from a too long one on, for every length, chunk size and overlap, *)
(* the senseless ones included; a successful indexing is complete up to    *)
(* them and Retrieve finds the best, for any runbooks, batch size and      *)
(* number of goroutines, whatever fails.                                   *)
(***************************************************************************)
EXTENDS KnowledgeBase, WellFoundedInduction, NaturalsInduction,
        FiniteSetTheorems, TLAPS

-----------------------------------------------------------------------------
(* Chunking. *)

(* The corrected sizes make sense: the loop advances, by a chunk at most. *)
LEMMA SizesMakeSense ==
    ASSUME NEW chunkSize \in Int, NEW overlap \in Int
    PROVE  /\ SizeOf(chunkSize) \in Nat \ {0}
           /\ OverlapOf(chunkSize, overlap) \in 0..(SizeOf(chunkSize) - 1)
           /\ StepOf(chunkSize, overlap) \in 1..SizeOf(chunkSize)
<1>1. SizeOf(chunkSize) \in Nat \ {0}
  BY DEF SizeOf
<1>2. OverlapOf(chunkSize, overlap) \in 0..(SizeOf(chunkSize) - 1)
  BY <1>1 DEF OverlapOf
<1> QED
  BY <1>1, <1>2 DEF StepOf

(* A set of natural numbers that is not empty has a least element. *)
LEMMA LeastElement ==
    ASSUME NEW T \in SUBSET Nat, T # {}
    PROVE  \E k \in T : \A j \in T : k <= j
<1>1. PICK k \in T : \A j \in T : <<j, k>> \notin OpToRel(<, Nat)
  BY NatLessThanWellFounded, WFMin
<1>2. \A j \in T : ~(j < k)
  BY <1>1 DEF OpToRel
<1> QED
  BY <1>2

(* A product with a positive factor is no less than the other factor. *)
LEMMA ProductGrows ==
    ASSUME NEW k \in Nat, NEW step \in Nat \ {0}
    PROVE  k * step \in Nat /\ k * step >= k
OBVIOUS

(* One step further is one step more. *)
LEMMA OneStepFurther ==
    ASSUME NEW k \in Nat \ {0}, NEW step \in Nat
    PROVE  k * step = (k - 1) * step + step /\ (k - 1) * step \in Nat
OBVIOUS

(***************************************************************************)
(* Every word is in a chunk: the first chunk that reaches as far as the    *)
(* word exists, and begins no later than it.                               *)
(***************************************************************************)
LEMMA WordInChunk ==
    ASSUME NEW n \in Nat, NEW size \in Nat \ {0}, NEW step \in 1..size,
           NEW word \in 1..n
    PROVE  \E k \in 0..n : /\ HasChunk(n, size, step, k)
                           /\ k * step + 1 <= word
                           /\ word <= ChunkEnd(n, size, step, k)
<1> DEFINE T == {k \in Nat : word <= k * step + size}
<1>1. word \in T
  BY ProductGrows
<1>2. PICK k \in T : \A j \in T : k <= j
  BY <1>1, LeastElement
<1>3. word <= ChunkEnd(n, size, step, k)
  BY <1>2, ProductGrows DEF ChunkEnd
<1>4. CASE k = 0
  BY <1>2, <1>3, <1>4 DEF HasChunk
<1>5. CASE k # 0
  <2>1. k - 1 \in Nat /\ k - 1 \notin T
    BY <1>2, <1>5
  <2>2. (k - 1) * step \in Nat /\ (k - 1) * step >= k - 1
    BY <2>1, ProductGrows
  <2>3. (k - 1) * step + size < word
    BY <2>1, <2>2
  <2>4. k * step = (k - 1) * step + step
    BY <1>2, <1>5, OneStepFurther
  <2>5. k * step + 1 <= word /\ HasChunk(n, size, step, k) /\ k \in 0..n
    BY <1>2, <2>2, <2>3, <2>4 DEF HasChunk
  <2> QED
    BY <1>3, <2>5
<1> QED
  BY <1>4, <1>5

(***************************************************************************)
(* Whatever sizes ChunkDocument is given, a word is in a document if and   *)
(* only if it is not dropped: if the document is short enough to be left   *)
(* as it is, or the scanner of tokenizeWords gets as far as the word.      *)
(***************************************************************************)
THEOREM OnlyDroppedWordsAreLost ==
    ASSUME NEW n \in Nat, NEW tooLong \in 0..n,
           NEW chunkSize \in Int, NEW overlap \in Int, NEW word \in 1..n
    PROVE  (\E d \in ChunkDocument(n, tooLong, chunkSize, overlap) :
               d.from <= word /\ word <= d.to)
           <=> ~Dropped(n, tooLong, chunkSize, word)
<1> DEFINE size == SizeOf(chunkSize)
           step == StepOf(chunkSize, overlap)
           words == TokenizeWords(n, tooLong)
           docs == ChunkDocument(n, tooLong, chunkSize, overlap)
<1>1. size \in Nat \ {0} /\ step \in 1..size
  BY SizesMakeSense
<1>2. words \in 0..n
  BY DEF TokenizeWords
<1>3. CASE words <= size
  <2>1. [part |-> 0, from |-> 1, to |-> n] \in docs
    BY <1>3 DEF ChunkDocument
  <2>2. \E d \in docs : d.from <= word /\ word <= d.to
    BY <2>1
  <2>3. ~Dropped(n, tooLong, chunkSize, word)
    BY <1>1, <1>2, <1>3 DEF Dropped
  <2> QED
    BY <2>2, <2>3
<1>4. CASE ~(words <= size) /\ word <= words
  <2>1. word \in 1..words /\ words \in Nat
    BY <1>2, <1>4
  <2> HIDE DEF words, size, step
  <2>2. PICK k \in 0..words : /\ HasChunk(words, size, step, k)
                              /\ k * step + 1 <= word
                              /\ word <= ChunkEnd(words, size, step, k)
    BY <1>1, <2>1, WordInChunk, Zenon
  <2> DEFINE d == [part |-> k + 1, from |-> k * step + 1, to |-> ChunkEnd(words, size, step, k)]
  <2>3. d \in docs
    BY <1>4, <2>2 DEF ChunkDocument, words, size, step
  <2>4. d.from <= word /\ word <= d.to
    BY <2>2
  <2>5. ~Dropped(n, tooLong, chunkSize, word)
    BY <1>2, <1>4 DEF Dropped, words
  <2> HIDE DEF d
  <2> QED
    BY <2>3, <2>4, <2>5
<1>5. CASE ~(words <= size) /\ ~(word <= words)
  <2>1. Dropped(n, tooLong, chunkSize, word)
    BY <1>1, <1>2, <1>5 DEF Dropped
  <2>2. ASSUME NEW d \in docs PROVE ~(word <= d.to)
    <3>1. PICK k \in 0..words : d.to = ChunkEnd(words, size, step, k)
      BY <1>5, <2>2 DEF ChunkDocument
    <3>2. k * step \in Nat
      BY <1>1, <1>2, ProductGrows
    <3> HIDE DEF words, size, step, docs
    <3>3. d.to \in Int /\ d.to <= words
      BY <1>1, <1>2, <3>1, <3>2 DEF ChunkEnd
    <3> QED
      BY <1>2, <1>5, <3>3
  <2> QED
    BY <2>1, <2>2
<1> QED
  BY <1>3, <1>4, <1>5

(***************************************************************************)
(* Two consecutive chunks share exactly the overlap: the next one begins   *)
(* that many words before the end of the one before it.                    *)
(***************************************************************************)
THEOREM ConsecutiveChunksShareOverlap ==
    ASSUME NEW n \in Nat, NEW chunkSize \in Int, NEW overlap \in Int, NEW k \in Nat,
           HasChunk(n, SizeOf(chunkSize), StepOf(chunkSize, overlap), k + 1)
    PROVE  ChunkEnd(n, SizeOf(chunkSize), StepOf(chunkSize, overlap), k)
              - (k + 1) * StepOf(chunkSize, overlap) = OverlapOf(chunkSize, overlap)
<1> DEFINE size == SizeOf(chunkSize)
           step == StepOf(chunkSize, overlap)
<1>1. size \in Nat \ {0} /\ step \in 1..size
      /\ OverlapOf(chunkSize, overlap) = size - step
      /\ OverlapOf(chunkSize, overlap) \in Nat
  BY SizesMakeSense DEF StepOf
<1>2. (k + 1) * step = k * step + step /\ k * step \in Nat
  BY <1>1, OneStepFurther
<1>3. k * step + size < n
  BY <1>1, <1>2 DEF HasChunk
<1>4. ChunkEnd(n, size, step, k) = k * step + size
  BY <1>1, <1>2, <1>3 DEF ChunkEnd
<1>5. ASSUME NEW a \in Nat, NEW b \in Int, NEW c \in Int
      PROVE  (a + b) - (a + c) = b - c
  OBVIOUS
<1>6. (k * step + size) - (k * step + step) = size - step
  BY <1>1, <1>2, <1>5
<1> QED
  BY <1>1, <1>2, <1>4, <1>6

-----------------------------------------------------------------------------
(* IndexedIsComplete. *)

(* What a goroutine has read is somewhere, from its reading to its end. *)
NothingForgotten(i) ==
    pc[i] \in {"next", "embed", "upsert"} =>
        Load(loaded[i]) \subseteq todo[i] \union batch[i] \union skipped[i] \union accepted[i]

EmbedHasDocument(i) == pc[i] = "embed" => todo[i] # {}

IInv ==
    /\ TypeOK
    /\ \A i \in Indexers : NothingForgotten(i) /\ EmbedHasDocument(i)

-----------------------------------------------------------------------------
(* The documents of the files are documents. *)
LEMMA LoadIsDocuments ==
    ASSUME NEW versions \in [Files -> Versions \union {Unread}]
    PROVE  Load(versions) \subseteq Documents
BY DEF Load, Documents

(* The order of the loop is by numbers. *)
LEMMA DocumentNumbers ==
    ASSUME NEW d \in Documents
    PROVE  d.file \in Files /\ d.file \in Nat /\ d.part \in Nat
<1>1. PICK f \in Files, v \in Versions : d \in DocumentsOf(f, v)
  BY DEF Documents
<1>2. Words[f][v] \in Nat /\ f \in Nat /\ TokenizeWords(Words[f][v], TooLong[f][v]) \in Int
  BY FilesAssumption DEF TokenizeWords
<1>3. PICK c \in ChunkDocument(Words[f][v], TooLong[f][v], ChunkSize, Overlap) :
          d = [file |-> f, version |-> v, part |-> c.part, from |-> c.from, to |-> c.to]
  BY <1>1 DEF DocumentsOf
<1>4. c.part \in Nat
  BY <1>2, <1>3 DEF ChunkDocument
<1> QED
  BY <1>2, <1>3, <1>4

(* The loop comes to a document as long as there is one. *)
LEMMA CurrentIsADocument ==
    ASSUME NEW i \in Indexers, todo[i] \subseteq Documents, todo[i] # {}
    PROVE  Current(i) \in todo[i]
<1> DEFINE Numbers == {d.file : d \in todo[i]}
<1>1. Numbers \in SUBSET Nat /\ Numbers # {}
  BY DocumentNumbers
<1>2. PICK f \in Numbers : \A g \in Numbers : f <= g
  BY <1>1, LeastElement
<1> DEFINE Parts == {d.part : d \in {e \in todo[i] : e.file = f}}
<1>3. Parts \in SUBSET Nat /\ Parts # {}
  BY DocumentNumbers, <1>2
<1>4. PICK p \in Parts : \A q \in Parts : p <= q
  BY <1>3, LeastElement
<1>5. PICK d \in todo[i] : d.file = f /\ d.part = p
  BY <1>4
<1>6. \A e \in todo[i] : d.file < e.file \/ (d.file = e.file /\ d.part <= e.part)
  <2> SUFFICES ASSUME NEW e \in todo[i]
               PROVE  d.file < e.file \/ (d.file = e.file /\ d.part <= e.part)
    OBVIOUS
  <2>1. d.file \in Nat /\ e.file \in Nat /\ d.file <= e.file
    BY <1>2, <1>5, DocumentNumbers
  <2>2. d.file = e.file => d.part <= e.part
    BY <1>4, <1>5
  <2> QED
    BY <2>1, <2>2
<1> QED
  BY <1>5, <1>6 DEF Current

(* An upsert stores documents. *)
LEMMA UpsertIsDocuments ==
    ASSUME NEW points \in SUBSET Documents, NEW docs \in SUBSET Documents
    PROVE  Upsert(points, docs) \in SUBSET Documents
BY DEF Upsert

-----------------------------------------------------------------------------
(* The first goroutine is yet to start. *)
LEMMA InitIInv == Init => IInv
<1> SUFFICES ASSUME Init PROVE IInv
  OBVIOUS
<1>1. 1 \in Versions /\ 1 \in 1..MaxRetries
  BY BatchAssumption, BoundsAssumption DEF Versions
<1>2. TypeOK
  BY <1>1 DEF Init, TypeOK, Collections, Sizes, PCs
<1>3. \A i \in Indexers : NothingForgotten(i) /\ EmbedHasDocument(i)
  BY DEF Init, NothingForgotten, EmbedHasDocument
<1> QED
  BY <1>2, <1>3 DEF IInv
-----------------------------------------------------------------------------
(* A goroutine that is over has typed variables. *)
LEMMA ReturnsTypes ==
    ASSUME TypeOK, NEW i \in Indexers, Returns(i)
    PROVE  /\ pc' \in [Indexers -> PCs] /\ cancelled' \in [Indexers -> BOOLEAN]
           /\ loaded' \in [Indexers -> [Files -> Versions \union {Unread}]]
           /\ attempt' \in [Indexers -> 1..MaxRetries]
           /\ todo' \in [Indexers -> SUBSET Documents]
           /\ batch' \in [Indexers -> SUBSET Documents]
           /\ skipped' \in [Indexers -> SUBSET Documents]
           /\ accepted' \in [Indexers -> SUBSET Documents]
<1>1. pc' \in [Indexers -> PCs] /\ cancelled' \in [Indexers -> BOOLEAN]
  BY DEF TypeOK, Returns, PCs
<1>2. loaded' \in [Indexers -> [Files -> Versions \union {Unread}]]
  <2>1. [f \in Files |-> Unread] \in [Files -> Versions \union {Unread}]
    OBVIOUS
  <2> QED
    BY <2>1 DEF TypeOK, Returns
<1>3. attempt' \in [Indexers -> 1..MaxRetries]
  BY BatchAssumption DEF TypeOK, Returns
<1>4. /\ todo' \in [Indexers -> SUBSET Documents]
      /\ batch' \in [Indexers -> SUBSET Documents]
  BY DEF TypeOK, Returns
<1>5. /\ skipped' \in [Indexers -> SUBSET Documents]
      /\ accepted' \in [Indexers -> SUBSET Documents]
  BY DEF TypeOK, Returns
<1> QED
  BY <1>1, <1>2, <1>3, <1>4, <1>5

(* The steps of a goroutine. *)
LEMMA StepIInv ==
    ASSUME IInv, NEW i \in Indexers, Step(i)
    PROVE  IInv'
<1> USE DEF IInv, files, qdrant, progress
<1>1. LoadFiles(i) => /\ loaded'[i] \in [Files -> Versions \union {Unread}]
                      /\ Load(loaded'[i]) \subseteq Documents
  <2>1. LoadFiles(i) => loaded'[i] \in [Files -> Versions \union {Unread}]
    BY DEF LoadFiles, TypeOK
  <2> QED
    BY <2>1, LoadIsDocuments
<1>2. pc[i] = "embed" => Current(i) \in todo[i]
  BY CurrentIsADocument DEF TypeOK, EmbedHasDocument
<1> DEFINE Others(j) == j # i => /\ NothingForgotten(j)' = NothingForgotten(j)
                                /\ EmbedHasDocument(j)' = EmbedHasDocument(j)
<1>3. \A j \in Indexers : Others(j)
  <2>1. CASE LoadFiles(i)
    BY <2>1 DEF LoadFiles, TypeOK, NothingForgotten, EmbedHasDocument
  <2>2. CASE Flush(i)
    BY <2>2 DEF Flush, TypeOK, NothingForgotten, EmbedHasDocument
  <2>3. CASE NextDocument(i)
    BY <2>3 DEF NextDocument, TypeOK, NothingForgotten, EmbedHasDocument
  <2>4. CASE GiveUp(i) \/ Finish(i)
    BY <2>4 DEF GiveUp, Finish, Returns, TypeOK, NothingForgotten, EmbedHasDocument
  <2>5. CASE EmbedAnswers(i)
    BY <2>5 DEF EmbedAnswers, TypeOK, NothingForgotten, EmbedHasDocument
  <2>6. CASE EmbedFails(i)
    BY <2>6 DEF EmbedFails, TypeOK, NothingForgotten, EmbedHasDocument
  <2>7. CASE UpsertAccepted(i)
    BY <2>7 DEF UpsertAccepted, TypeOK, NothingForgotten, EmbedHasDocument
  <2>8. CASE UpsertFails(i)
    BY <2>8 DEF UpsertFails, Returns, TypeOK, NothingForgotten, EmbedHasDocument
  <2> QED
    BY <2>1, <2>2, <2>3, <2>4, <2>5, <2>6, <2>7, <2>8 DEF Step, Works, Embeds
<1>4. TypeOK'
  <2>1. CASE LoadFiles(i)
    BY <2>1, <1>1 DEF LoadFiles, TypeOK, PCs
  <2>2. CASE Flush(i)
    BY <2>2 DEF Flush, TypeOK, PCs
  <2>3. CASE NextDocument(i)
    BY <2>3 DEF NextDocument, TypeOK, PCs
  <2>4. CASE GiveUp(i) \/ Finish(i)
    BY <2>4, ReturnsTypes DEF GiveUp, Finish, TypeOK
  <2>5. CASE EmbedAnswers(i)
    BY <2>5, <1>2, BatchAssumption DEF EmbedAnswers, TypeOK, PCs
  <2>6. CASE EmbedFails(i)
    <3>1. CASE attempt[i] < MaxRetries /\ ~cancelled[i]
      <4>1. attempt[i] + 1 \in 1..MaxRetries
        BY <3>1, BatchAssumption DEF TypeOK
      <4> QED
        BY <2>6, <3>1, <4>1 DEF EmbedFails, TypeOK
    <3>2. CASE ~(attempt[i] < MaxRetries /\ ~cancelled[i])
      <4>1. /\ skipped[i] \union {Current(i)} \in SUBSET Documents
            /\ todo[i] \ {Current(i)} \in SUBSET Documents
        BY <2>6, <1>2 DEF EmbedFails, TypeOK
      <4>2. skipped' = [skipped EXCEPT ![i] = skipped[i] \union {Current(i)}]
        BY <2>6, <3>2 DEF EmbedFails
      <4>3. todo' = [todo EXCEPT ![i] = todo[i] \ {Current(i)}]
        BY <2>6, <3>2 DEF EmbedFails
      <4>4. /\ skipped \in [Indexers -> SUBSET Documents]
            /\ todo \in [Indexers -> SUBSET Documents]
        BY DEF TypeOK
      <4>5. /\ skipped' \in [Indexers -> SUBSET Documents]
            /\ todo' \in [Indexers -> SUBSET Documents]
        BY <4>1, <4>2, <4>3, <4>4
      <4>6. pc' \in [Indexers -> PCs]
        BY <2>6, <3>2 DEF EmbedFails, TypeOK, PCs
      <4>7. attempt' \in [Indexers -> 1..MaxRetries]
        BY <2>6, <3>2, BatchAssumption DEF EmbedFails, TypeOK
      <4> QED
        BY <2>6, <3>2, <4>5, <4>6, <4>7 DEF EmbedFails, TypeOK
    <3> QED
      BY <3>1, <3>2
  <2>7. CASE UpsertAccepted(i)
    <3>1. Upsert(runbooks, batch[i]) \in SUBSET Documents
      BY UpsertIsDocuments DEF TypeOK
    <3>2. accepted[i] \union batch[i] \in SUBSET Documents
      BY DEF TypeOK
    <3> QED
      BY <2>7, <3>1, <3>2 DEF UpsertAccepted, TypeOK, PCs
  <2>8. CASE UpsertFails(i)
    BY <2>8, ReturnsTypes DEF UpsertFails, TypeOK
  <2> QED
    BY <2>1, <2>2, <2>3, <2>4, <2>5, <2>6, <2>7, <2>8 DEF Step, Works, Embeds
<1>5. NothingForgotten(i)' /\ EmbedHasDocument(i)'
  <2>1. CASE LoadFiles(i)
    BY <2>1 DEF LoadFiles, TypeOK, NothingForgotten, EmbedHasDocument
  <2>2. CASE Flush(i)
    BY <2>2 DEF Flush, TypeOK, NothingForgotten, EmbedHasDocument, FlushDue
  <2>3. CASE NextDocument(i)
    BY <2>3 DEF NextDocument, TypeOK, NothingForgotten, EmbedHasDocument, FlushDue
  <2>4. CASE GiveUp(i) \/ Finish(i)
    BY <2>4 DEF GiveUp, Finish, Returns, TypeOK, NothingForgotten, EmbedHasDocument, FlushDue
  <2>5. CASE EmbedAnswers(i)
    BY <2>5 DEF EmbedAnswers, TypeOK, NothingForgotten, EmbedHasDocument
  <2>6. CASE EmbedFails(i)
    BY <2>6 DEF EmbedFails, TypeOK, NothingForgotten, EmbedHasDocument
  <2>7. CASE UpsertAccepted(i)
    BY <2>7 DEF UpsertAccepted, TypeOK, NothingForgotten, EmbedHasDocument
  <2>8. CASE UpsertFails(i)
    BY <2>8 DEF UpsertFails, Returns, TypeOK, NothingForgotten, EmbedHasDocument
  <2> QED
    BY <2>1, <2>2, <2>3, <2>4, <2>5, <2>6, <2>7, <2>8 DEF Step, Works, Embeds
<1> QED
  BY <1>3, <1>4, <1>5

-----------------------------------------------------------------------------
(* The other steps leave every goroutine's work alone. *)
LEMMA OtherStepsIInv ==
    ASSUME IInv,
           \/ Reconcile
           \/ \E n \in Incidents : IndexResolvedIncident(n)
           \/ \E f \in Files : Edit(f)
           \/ \E r \in wire : LateUpsert(r)
    PROVE  IInv'
<1> USE DEF IInv, files, qdrant, progress
<1>1. TypeOK'
  <2>1. CASE Reload
    BY <2>1 DEF Reload, TypeOK, Running
  <2>2. CASE BuildFails
    BY <2>2 DEF BuildFails, TypeOK
  <2>3. ASSUME NEW ensured, EnsureCollections(ensured) PROVE TypeOK'
    BY <2>3, SizesAssumption DEF EnsureCollections, TypeOK, Sizes
  <2>4. ASSUME NEW i \in Indexers, StartIndexing(i) PROVE TypeOK'
    BY <2>4 DEF StartIndexing, TypeOK, PCs
  <2>5. ASSUME NEW n \in Incidents, IndexResolvedIncident(n) PROVE TypeOK'
    BY <2>5 DEF IndexResolvedIncident, TypeOK
  <2>6. ASSUME NEW f \in Files, Edit(f) PROVE TypeOK'
    BY <2>6, BoundsAssumption DEF Edit, TypeOK, Versions
  <2>7. ASSUME NEW r \in wire, LateUpsert(r) PROVE TypeOK'
    BY <2>7, UpsertIsDocuments DEF LateUpsert, TypeOK
  <2> QED
    BY <2>1, <2>2, <2>3, <2>4, <2>5, <2>6, <2>7
    DEF Reconcile, Initialize, InitializeFails
<1>2. ASSUME NEW i \in Indexers
      PROVE  NothingForgotten(i)' /\ EmbedHasDocument(i)'
  <2>1. CASE UNCHANGED <<pc, progress>>
    BY <2>1 DEF NothingForgotten, EmbedHasDocument
  <2>2. ASSUME NEW j \in Indexers, StartIndexing(j)
        PROVE  NothingForgotten(i)' /\ EmbedHasDocument(i)'
    BY <2>2 DEF StartIndexing, TypeOK, NothingForgotten, EmbedHasDocument
  <2> QED
    BY <2>1, <2>2 DEF Reconcile, Reload, BuildFails, Initialize, InitializeFails,
                      EnsureCollections, IndexResolvedIncident, Edit, LateUpsert
<1> QED
  BY <1>1, <1>2

(* Every step keeps the inductive invariant. *)
LEMMA NextIInv == IInv /\ [Next]_vars => IInv'
<1>1. ASSUME IInv, UNCHANGED vars PROVE IInv'
  BY <1>1 DEF vars, files, qdrant, progress, IInv, TypeOK,
              NothingForgotten, EmbedHasDocument
<1> QED
  BY <1>1, StepIInv, OtherStepsIInv DEF Next

(* What is not forgotten when the loop is over is accepted or skipped. *)
LEMMA IInvIsComplete == IInv => IndexedIsComplete
<1> SUFFICES ASSUME IInv, NEW i \in Indexers, LoopIsOver(i),
                    NEW f \in Files, loaded[i][f] # Unread,
                    NEW word \in 1..Words[f][loaded[i][f]],
                    ~Dropped(Words[f][loaded[i][f]], TooLong[f][loaded[i][f]], ChunkSize, word)
             PROVE  \E d \in accepted[i] \union skipped[i] :
                       /\ d.file = f /\ d.version = loaded[i][f]
                       /\ d.from <= word /\ word <= d.to
  BY DEF IndexedIsComplete
<1> DEFINE v == loaded[i][f]
           n == Words[f][v]
<1>1. v \in Versions
  BY DEF IInv, TypeOK
<1>2. n \in Nat /\ TooLong[f][v] \in 0..n
  BY <1>1, FilesAssumption
<1>3. PICK c \in ChunkDocument(n, TooLong[f][v], ChunkSize, Overlap) :
          c.from <= word /\ word <= c.to
  BY <1>2, ChunkAssumption, OnlyDroppedWordsAreLost
<1> DEFINE d == [file |-> f, version |-> v, part |-> c.part, from |-> c.from, to |-> c.to]
<1>4. d \in DocumentsOf(f, v)
  BY <1>3 DEF DocumentsOf
<1>5. d \in Load(loaded[i])
  BY <1>4 DEF Load
<1>6. todo[i] = {} /\ batch[i] = {} /\ pc[i] = "next"
  BY DEF LoopIsOver, FlushDue
<1>7. d \in accepted[i] \union skipped[i]
  BY <1>5, <1>6 DEF IInv, NothingForgotten
<1> QED
  BY <1>3, <1>7

-----------------------------------------------------------------------------
(* The variables have their types; skipped and accepted hold documents only. *)
THEOREM TypeCorrect == Spec => []TypeOK
<1>1. IInv => TypeOK
  BY DEF IInv
<1> QED
  BY InitIInv, NextIInv, <1>1, PTL DEF Spec

(***************************************************************************)
(* IndexDocuments reports success only when every word of every file it    *)
(* read is in a document that was accepted or counted as skipped, unless   *)
(* tokenizeWords dropped it.                                               *)
(***************************************************************************)
THEOREM SuccessIsComplete == Spec => []IndexedIsComplete
BY InitIInv, NextIInv, IInvIsComplete, PTL DEF Spec

-----------------------------------------------------------------------------
(* RetrieveFindsBest. *)

(***************************************************************************)
(* What the answers rest on: the collections are finite, because every     *)
(* batch is, one document after the other, and so is every late one.       *)
(***************************************************************************)
StoredIsFinite ==
    /\ IsFiniteSet(runbooks) /\ IsFiniteSet(incidents)
    /\ \A i \in Indexers : IsFiniteSet(batch[i])
    /\ \A r \in wire : IsFiniteSet(r)

LEMMA UpsertFinite ==
    ASSUME NEW points, IsFiniteSet(points), NEW docs, IsFiniteSet(docs)
    PROVE  IsFiniteSet(Upsert(points, docs))
<1> DEFINE kept == {p \in points : \A d \in docs : Id(d) # Id(p)}
<1>1. IsFiniteSet(kept)
  BY FS_Subset
<1> HIDE DEF kept
<1>2. IsFiniteSet(docs \union kept)
  BY <1>1, FS_Union
<1> QED
  BY <1>2 DEF Upsert, kept

LEMMA NextFinite ==
    ASSUME TypeOK, StoredIsFinite, [Next]_vars
    PROVE  StoredIsFinite'
<1> USE DEF files, qdrant, progress
<1>1. CASE UNCHANGED <<runbooks, incidents, batch, wire>>
  BY <1>1 DEF StoredIsFinite
<1>2. ASSUME NEW i \in Indexers, EmbedAnswers(i) PROVE StoredIsFinite'
  <2>1. IsFiniteSet(batch[i] \union {Current(i)})
    BY FS_AddElement DEF StoredIsFinite
  <2>2. \A j \in Indexers : batch'[j] = IF j = i THEN batch[i] \union {Current(i)} ELSE batch[j]
    BY <1>2 DEF EmbedAnswers, TypeOK
  <2>3. UNCHANGED <<runbooks, incidents, wire>>
    BY <1>2 DEF EmbedAnswers
  <2> QED
    BY <2>1, <2>2, <2>3 DEF StoredIsFinite
<1>3. ASSUME NEW i \in Indexers, UpsertAccepted(i) PROVE StoredIsFinite'
  <2>1. IsFiniteSet(runbooks')
    BY <1>3, UpsertFinite DEF UpsertAccepted, StoredIsFinite
  <2>2. \A j \in Indexers : batch'[j] = {} \/ batch'[j] = batch[j]
    BY <1>3 DEF UpsertAccepted, TypeOK
  <2>3. UNCHANGED <<incidents, wire>>
    BY <1>3 DEF UpsertAccepted
  <2> QED
    BY <2>1, <2>2, <2>3, FS_EmptySet DEF StoredIsFinite
<1>4. ASSUME NEW i \in Indexers, UpsertFails(i) PROVE StoredIsFinite'
  <2>1. \A j \in Indexers : batch'[j] = {} \/ batch'[j] = batch[j]
    BY <1>4 DEF UpsertFails, Returns, TypeOK
  <2> QED
    BY <1>4, <2>1, FS_EmptySet DEF UpsertFails, StoredIsFinite
<1>5. ASSUME NEW i \in Indexers, GiveUp(i) \/ Finish(i) PROVE StoredIsFinite'
  <2>1. \A j \in Indexers : batch'[j] = {} \/ batch'[j] = batch[j]
    BY <1>5 DEF GiveUp, Finish, Returns, TypeOK
  <2> QED
    BY <1>5, <2>1, FS_EmptySet DEF GiveUp, Finish, StoredIsFinite
<1>6. ASSUME NEW n \in Incidents, IndexResolvedIncident(n) PROVE StoredIsFinite'
  <2>1. IsFiniteSet(incidents \union {n})
    BY FS_AddElement DEF StoredIsFinite
  <2> QED
    BY <1>6, <2>1 DEF IndexResolvedIncident, StoredIsFinite
<1>7. ASSUME NEW r \in wire, LateUpsert(r) PROVE StoredIsFinite'
  <2>1. IsFiniteSet(runbooks')
    BY <1>7, UpsertFinite DEF LateUpsert, StoredIsFinite
  <2> QED
    BY <1>7, <2>1 DEF LateUpsert, StoredIsFinite
<1> QED
  BY <1>1, <1>2, <1>3, <1>4, <1>5, <1>6, <1>7
  DEF Next, Step, Works, Embeds, vars, Reconcile, Reload, BuildFails, Initialize,
      InitializeFails, EnsureCollections, StartIndexing, LoadFiles, Flush,
      NextDocument, EmbedFails, Edit

LEMMA FiniteImage ==
    ASSUME NEW S, IsFiniteSet(S), NEW f, f = [x \in S |-> f[x]]
    PROVE  IsFiniteSet({f[x] : x \in S})
<1> DEFINE T == {f[x] : x \in S}
<1>1. f \in Surjection(S, T)
  BY DEF Surjection
<1> HIDE DEF T
<1>2. IsFiniteSet(T)
  BY <1>1, FS_Surjection
<1> QED
  BY <1>2 DEF T

(* The points of a collection, finitely many, each with a score. *)
LEMMA PointsAreFinite ==
    ASSUME TypeOK, StoredIsFinite, NEW k \in Collections
    PROVE  /\ IsFiniteSet(PointsOf(k))
           /\ PointsOf(k) \subseteq PointsOf(1) \union PointsOf(2)
           /\ \A hit \in PointsOf(k) : ScoreOf(hit) \in Nat
<1>1. IsFiniteSet({<<1, d.file, Id(d)>> : d \in runbooks})
  <2> DEFINE f == [d \in runbooks |-> <<1, d.file, Id(d)>>]
  <2>1. {<<1, d.file, Id(d)>> : d \in runbooks} = {f[d] : d \in runbooks}
    OBVIOUS
  <2>2. f = [d \in runbooks |-> f[d]] /\ IsFiniteSet(runbooks)
    BY DEF StoredIsFinite
  <2> HIDE DEF f
  <2>3. IsFiniteSet({f[d] : d \in runbooks})
    BY <2>2, FiniteImage, Zenon
  <2> QED
    BY <2>1, <2>3
<1>2. IsFiniteSet({<<2, n, n>> : n \in incidents})
  <2> DEFINE f == [n \in incidents |-> <<2, n, n>>]
  <2>1. {<<2, n, n>> : n \in incidents} = {f[n] : n \in incidents}
    OBVIOUS
  <2>2. f = [n \in incidents |-> f[n]] /\ IsFiniteSet(incidents)
    BY DEF StoredIsFinite
  <2> HIDE DEF f
  <2>3. IsFiniteSet({f[n] : n \in incidents})
    BY <2>2, FiniteImage, Zenon
  <2> QED
    BY <2>1, <2>3
<1>3. \A d \in runbooks : d.file \in Files
  BY DocumentNumbers DEF TypeOK
<1>4. \A n \in incidents : n \in Incidents
  BY DEF TypeOK
<1>5. CASE k = 1
  <2>1. PointsOf(k) = {<<1, d.file, Id(d)>> : d \in runbooks}
    BY <1>5 DEF PointsOf
  <2>2. IsFiniteSet(PointsOf(k)) /\ PointsOf(k) = PointsOf(1)
    BY <1>1, <1>5, <2>1
  <2>3. ASSUME NEW hit \in PointsOf(k) PROVE ScoreOf(hit) \in Nat
    <3>1. hit[2] \in Files
      BY <1>3, <2>1
    <3> QED
      BY <3>1, ScoreAssumption DEF ScoreOf
  <2> QED
    BY <2>2, <2>3
<1>6. CASE k = 2
  <2>1. PointsOf(k) = {<<2, n, n>> : n \in incidents}
    BY <1>6 DEF PointsOf
  <2>2. IsFiniteSet(PointsOf(k)) /\ PointsOf(k) = PointsOf(2)
    BY <1>2, <1>6, <2>1
  <2>3. ASSUME NEW hit \in PointsOf(k) PROVE ScoreOf(hit) \in Nat
    <3>1. hit[2] \in Incidents
      BY <1>4, <2>1
    <3> QED
      BY <3>1, ScoreAssumption DEF ScoreOf
  <2> QED
    BY <2>2, <2>3
<1>7. CASE k = 3
  <2>1. PointsOf(k) = {}
    BY <1>7 DEF PointsOf
  <2> QED
    BY <2>1, FS_EmptySet
<1> QED
  BY <1>5, <1>6, <1>7 DEF Collections

(* What Best leaves out, it leaves out for n others that are no worse. *)
LEMMA BestIsBest ==
    ASSUME NEW hits, IsFiniteSet(hits), NEW n \in Nat, NEW best \in Best(hits, n),
           NEW g \in hits, g \notin best
    PROVE  /\ best \subseteq hits /\ Cardinality(best) = n
           /\ \A h \in best : ScoreOf(h) >= ScoreOf(g)
<1>1. best # hits
  OBVIOUS
<1> QED
  BY <1>1 DEF Best

LEMMA LimitsMakeSense ==
    /\ Wanted \in Nat \ {0}
    /\ PerCollectionLimit \in Nat
    /\ PerCollectionLimit > Wanted
BY ScoreAssumption DEF Wanted, PerCollectionLimit

(***************************************************************************)
(* What a collection has left out has as many others of that collection    *)
(* before it as the merge can take, so the merge is full of no worse ones. *)
(***************************************************************************)
LEMMA RetrieveIsBest ==
    ASSUME TypeOK, StoredIsFinite
    PROVE  RetrieveFindsBest
<1> SUFFICES ASSUME NEW answering \in SUBSET Collections,
                    NEW results \in Retrieve(answering),
                    NEW k \in answering, NEW hit \in PointsOf(k), hit \notin results
             PROVE  /\ Cardinality(results) = Wanted
                    /\ \A r \in results : ScoreOf(r) >= ScoreOf(hit)
  BY DEF RetrieveFindsBest
<1>1. PICK hits : /\ \A j \in answering : hits[j] \in Best(PointsOf(j), PerCollectionLimit)
                  /\ results \in Best(UNION {hits[j] : j \in answering}, Wanted)
  BY DEF Retrieve
<1> DEFINE merged == UNION {hits[j] : j \in answering}
<1>2. /\ Wanted \in Nat \ {0} /\ PerCollectionLimit \in Nat
      /\ PerCollectionLimit > Wanted
  BY LimitsMakeSense
<1>3. \A j \in answering : hits[j] \subseteq PointsOf(j) /\ j \in Collections
  BY <1>1 DEF Best
<1>4. IsFiniteSet(merged) /\ \A h \in merged : ScoreOf(h) \in Nat
  <2>1. merged \subseteq PointsOf(1) \union PointsOf(2)
    BY <1>3, PointsAreFinite
  <2>2. IsFiniteSet(PointsOf(1)) /\ IsFiniteSet(PointsOf(2))
    BY PointsAreFinite DEF Collections
  <2>3. IsFiniteSet(PointsOf(1) \union PointsOf(2))
    BY <2>2, FS_Union
  <2>4. IsFiniteSet(merged)
    <3> HIDE DEF merged
    <3> QED
      BY <2>1, <2>3, FS_Subset
  <2>5. \A h \in merged : ScoreOf(h) \in Nat
    BY <1>3, PointsAreFinite
  <2> QED
    BY <2>4, <2>5
<1>5. /\ IsFiniteSet(PointsOf(k)) /\ ScoreOf(hit) \in Nat
      /\ hits[k] \subseteq merged
  BY <1>3, PointsAreFinite
<1> HIDE DEF merged
<1>6. results \in Best(merged, Wanted)
  BY <1>1 DEF merged
<1>7. CASE hit \in hits[k]
  BY <1>2, <1>4, <1>5, <1>6, <1>7, BestIsBest
<1>8. CASE hit \notin hits[k]
  <2>1. /\ Cardinality(hits[k]) = PerCollectionLimit
        /\ \A h \in hits[k] : ScoreOf(h) >= ScoreOf(hit)
    BY <1>1, <1>2, <1>5, <1>8, BestIsBest
  <2>2. results \subseteq merged
    BY <1>6 DEF Best
  <2>3. IsFiniteSet(results) /\ IsFiniteSet(hits[k])
    BY <1>4, <1>5, <2>2, FS_Subset
  <2>4. PICK h \in hits[k] : h \notin results
    <3>1. Cardinality(results) <= Wanted
      <4>1. \/ results = merged /\ Cardinality(merged) <= Wanted
            \/ Cardinality(results) = Wanted
        BY <1>6 DEF Best
      <4> QED
        BY <1>2, <4>1
    <3>2. SUFFICES ASSUME hits[k] \subseteq results PROVE FALSE
      OBVIOUS
    <3>3. Cardinality(hits[k]) <= Cardinality(results)
      BY <2>3, <3>2, FS_Subset
    <3>4. Cardinality(results) \in Nat
      BY <2>3, FS_CardinalityType
    <3> QED
      BY <1>2, <2>1, <3>1, <3>3, <3>4
  <2>5. /\ Cardinality(results) = Wanted
        /\ \A r \in results : ScoreOf(r) >= ScoreOf(h)
    BY <1>2, <1>4, <1>5, <1>6, <2>4, BestIsBest
  <2>6. ASSUME NEW r \in results PROVE ScoreOf(r) >= ScoreOf(hit)
    <3>1. ScoreOf(r) \in Nat /\ ScoreOf(h) \in Nat
      BY <1>4, <1>5, <2>2, <2>4
    <3> QED
      BY <1>5, <2>1, <2>4, <2>5, <3>1
  <2> QED
    BY <2>5, <2>6
<1> QED
  BY <1>7, <1>8

(***************************************************************************)
(* Whatever the runbooks, the scores and topK, and whichever collections   *)
(* answer: Retrieve leaves a point of theirs out only for topK others that *)
(* match no worse.                                                         *)
(***************************************************************************)
THEOREM RetrievalFindsBest == Spec => []RetrieveFindsBest
<1>1. Init => StoredIsFinite
  BY FS_EmptySet DEF Init, StoredIsFinite
<1>2. IInv /\ StoredIsFinite /\ [Next]_vars => StoredIsFinite'
  BY NextFinite DEF IInv
<1>3. IInv /\ StoredIsFinite => RetrieveFindsBest
  BY RetrieveIsBest DEF IInv
<1> QED
  BY <1>1, <1>2, <1>3, InitIInv, NextIInv, PTL DEF Spec
=============================================================================
