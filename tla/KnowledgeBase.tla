---------------------------- MODULE KnowledgeBase ----------------------------
(***************************************************************************)
(* The knowledge base of internal/rag: every reload of the platform starts *)
(* a goroutine that reads the runbook files, cuts them into chunks, embeds *)
(* the chunks one by one and upserts them into Qdrant in batches.  The     *)
(* next reload cancels it, wherever it is, and starts another.             *)
(*                                                                         *)
(* A file is its version, which says how many words it has; a document is  *)
(* a stretch of the words of one version.  Any request to the embedding    *)
(* service or to Qdrant may fail, and a failed one may take effect later.  *)
(* An embedding request may also never come back: the OpenAI client sets   *)
(* no time-out and its context has no deadline.                            *)
(***************************************************************************)
EXTENDS Chunking, FiniteSets

CONSTANTS
    Files,               \* numbered in the order filepath.Walk meets them
    MaxVersion,          \* bound: versions of a file
    Words,               \* the number of words of each
    TooLong,             \* the first of them that is too long for a Scanner, or 0
    ChunkSize, Overlap,  \* arguments of ChunkDocument
    IndexBatchSize,
    MaxRetries,
    Dimensions,          \* the size of the embedder's vectors
    FormerSizes,         \* the sizes a former embedder may have left behind
    Incidents,           \* fingerprints of resolved incidents
    Score,               \* of each file and incident, for the query asked
    TopK,
    FailsAfter,          \* bound: the collections a failing Initialize gets to
    Indexers             \* bound: goroutines of different generations at once, numbered

Versions == 1..MaxVersion

(* Runbooks, incidents, and metadata, in the order they are searched. *)
Collections == 1..3

ASSUME FilesAssumption ==
    /\ Files \subseteq Nat
    /\ Words \in [Files -> [Versions -> Nat]] /\ TooLong \in [Files -> [Versions -> Nat]]
    /\ \A f \in Files, v \in Versions : TooLong[f][v] <= Words[f][v]
ASSUME ChunkAssumption == ChunkSize \in Int /\ Overlap \in Int
ASSUME BatchAssumption == IndexBatchSize \in Nat \ {0} /\ MaxRetries \in Nat \ {0}
ASSUME SizesAssumption == Dimensions \in Nat \ {0} /\ FormerSizes \subseteq Nat \ {0}
ASSUME BoundsAssumption ==
    Indexers \subseteq Nat /\ MaxVersion \in Nat \ {0} /\ FailsAfter \subseteq 0..3
ASSUME ScoreAssumption == Score \in [Files \union Incidents -> Nat] /\ TopK \in Int

(* LoadFromDirectory and ChunkDocument, for one version of one file. *)
DocumentsOf(f, v) ==
    {[file |-> f, version |-> v, part |-> c.part, from |-> c.from, to |-> c.to] :
        c \in ChunkDocument(Words[f][v], TooLong[f][v], ChunkSize, Overlap)}

(* The version of a file that could not be read. *)
Unread == 0

Load(versions) ==
    UNION {DocumentsOf(f, versions[f]) : f \in {g \in Files : versions[g] # Unread}}
Documents == UNION {DocumentsOf(f, v) : f \in Files, v \in Versions}

(* The ID of a point: the document's, with the number of the chunk. *)
Id(d) == <<d.file, d.part>>

VARIABLES
    version,       \* of each file
    collection,    \* the vector size of each collection, 0 if there is none
    runbooks,      \* the points of that collection
    incidents,     \* the points of that one; metadata stays empty
    starting,      \* what the reload under way comes to next
    pc, cancelled, \* where each indexing goroutine is; its context is done
    loaded,        \* the versions it has read
    todo,          \* the documents it has not come to
    attempt,       \* of the embedding under way
    batch,
    skipped,       \* the documents whose embedding failed
    accepted,      \* the documents Qdrant has accepted from it
    wire           \* upserts given up by their sender that may still arrive

files == <<version>>
qdrant == <<collection, runbooks, incidents>>
progress == <<loaded, todo, attempt, batch, skipped, accepted>>
vars == <<files, qdrant, starting, pc, cancelled, progress, wire>>

PCs == {"idle", "load", "next", "embed", "upsert"}
Sizes == {Dimensions} \union FormerSizes

TypeOK ==
    /\ version \in [Files -> Versions]
    /\ collection \in [Collections -> Sizes \union {0}]
    /\ runbooks \in SUBSET Documents /\ incidents \in SUBSET Incidents
    /\ starting \in {"nothing", "build", "index"}
    /\ pc \in [Indexers -> PCs] /\ cancelled \in [Indexers -> BOOLEAN]
    /\ loaded \in [Indexers -> [Files -> Versions \union {Unread}]]
    /\ attempt \in [Indexers -> 1..MaxRetries]
    /\ todo \in [Indexers -> SUBSET Documents]
    /\ batch \in [Indexers -> SUBSET Documents]
    /\ skipped \in [Indexers -> SUBSET Documents]
    /\ accepted \in [Indexers -> SUBSET Documents]
    /\ wire \in SUBSET SUBSET Documents

Init ==
    /\ version = [f \in Files |-> 1]
    /\ \E s \in {0} \union FormerSizes : collection = [k \in Collections |-> s]
    /\ runbooks = {} /\ incidents = {}
    /\ starting = "nothing"
    /\ pc = [i \in Indexers |-> "idle"]
    /\ cancelled = [i \in Indexers |-> FALSE]
    /\ loaded = [i \in Indexers |-> [f \in Files |-> Unread]]
    /\ attempt = [i \in Indexers |-> 1]
    /\ todo = [i \in Indexers |-> {}] /\ batch = [i \in Indexers |-> {}]
    /\ skipped = [i \in Indexers |-> {}] /\ accepted = [i \in Indexers |-> {}]
    /\ wire = {}

-----------------------------------------------------------------------------
(* Qdrant, as its client sees it. *)

(* It refuses vectors of the wrong size, and any request to no collection. *)
Accepts(k) == collection[k] = Dimensions

(* Slip: a point that is there already is left alone. *)
UpsertOnce(points, docs) == points \union {d \in docs : \A p \in points : Id(d) # Id(p)}

(* An upsert replaces the points that have the same IDs. *)
Upsert(points, docs) == docs \union {p \in points : \A d \in docs : Id(d) # Id(p)}

-----------------------------------------------------------------------------
(* A reload: cancel, Initialize, start the goroutine. *)

Running == {i \in Indexers : pc[i] # "idle"}

(* Slip: the cancel function of the generation before is not called. *)
ReloadWithoutCancel ==
    /\ starting = "nothing"
    /\ starting' = "build"
    /\ UNCHANGED <<files, qdrant, pc, cancelled, progress, wire>>

(***************************************************************************)
(* ensurePlatformComponents begins: every five minutes, however far the    *)
(* indexing has come, or because the platform is edited.                   *)
(***************************************************************************)
Reload ==
    /\ starting = "nothing"
    /\ cancelled' = [i \in Indexers |-> i \in Running]
    /\ starting' = "build"
    /\ UNCHANGED <<files, qdrant, pc, progress, wire>>

(* A component cannot be built: nothing takes the place of what is cancelled. *)
BuildFails ==
    /\ starting = "build"
    /\ starting' = "nothing"
    /\ UNCHANGED <<files, qdrant, pc, cancelled, progress, wire>>

(***************************************************************************)
(* Initialize makes sure of one collection after the other; one that is    *)
(* there is taken as it is, whatever its size.  A request that fails ends  *)
(* it, though it may have created the collection, and only a log tells.    *)
(***************************************************************************)
EnsureCollections(ensured) ==
    /\ starting = "build"
    /\ collection' = [k \in Collections |->
                         IF k \in ensured /\ collection[k] = 0 THEN Dimensions
                         ELSE collection[k]]
    /\ starting' = "index"
    /\ UNCHANGED <<files, runbooks, incidents, pc, cancelled, progress, wire>>

Initialize == EnsureCollections(Collections)
InitializeFails == \E k \in FailsAfter : EnsureCollections(1..k)

StartIndexing(i) ==
    /\ starting = "index"
    /\ pc[i] = "idle" /\ \A j \in Indexers : pc[j] = "idle" => i <= j
    /\ pc' = [pc EXCEPT ![i] = "load"]
    /\ starting' = "nothing"
    /\ UNCHANGED <<files, qdrant, cancelled, progress, wire>>

-----------------------------------------------------------------------------
(* The goroutine: indexKnowledgeBase. *)

(* It is over, and what it knew is gone. *)
Returns(i) ==
    /\ pc' = [pc EXCEPT ![i] = "idle"]
    /\ cancelled' = [cancelled EXCEPT ![i] = FALSE]
    /\ loaded' = [loaded EXCEPT ![i] = [f \in Files |-> Unread]]
    /\ todo' = [todo EXCEPT ![i] = {}] /\ batch' = [batch EXCEPT ![i] = {}]
    /\ attempt' = [attempt EXCEPT ![i] = 1]
    /\ skipped' = [skipped EXCEPT ![i] = {}]
    /\ accepted' = [accepted EXCEPT ![i] = {}]

(* A file that cannot be read is left out. *)
LoadFiles(i) ==
    /\ pc[i] = "load"
    /\ \E readable \in SUBSET Files :
          loaded' = [loaded EXCEPT ![i] =
                        [f \in Files |-> IF f \in readable THEN version[f] ELSE Unread]]
    /\ todo' = [todo EXCEPT ![i] = Load(loaded'[i])]
    /\ pc' = [pc EXCEPT ![i] = "next"]
    /\ UNCHANGED <<files, qdrant, starting, cancelled,
                   attempt, batch, skipped, accepted, wire>>

(* The document the loop of IndexDocuments has come to. *)
Current(i) ==
    CHOOSE d \in todo[i] : \A e \in todo[i] :
        d.file < e.file \/ (d.file = e.file /\ d.part <= e.part)

FlushDue(i) ==
    \/ Cardinality(batch[i]) >= IndexBatchSize
    \/ todo[i] = {} /\ batch[i] # {}

(* flush sends the batch. *)
Flush(i) ==
    /\ pc[i] = "next" /\ FlushDue(i) /\ ~cancelled[i]
    /\ pc' = [pc EXCEPT ![i] = "upsert"]
    /\ UNCHANGED <<files, qdrant, starting, cancelled, progress, wire>>

(* The next round of the loop. *)
NextDocument(i) ==
    /\ pc[i] = "next" /\ ~FlushDue(i) /\ todo[i] # {} /\ ~cancelled[i]
    /\ pc' = [pc EXCEPT ![i] = "embed"]
    /\ UNCHANGED <<files, qdrant, starting, cancelled, progress, wire>>

(* The loop looks at the context first, and the client sends nothing without one. *)
GiveUp(i) ==
    /\ pc[i] = "next" /\ cancelled[i]
    /\ FlushDue(i) \/ todo[i] # {}
    /\ Returns(i)
    /\ UNCHANGED <<files, qdrant, starting, wire>>

(* Every document is embedded or skipped, and every batch accepted. *)
LoopIsOver(i) == pc[i] = "next" /\ ~FlushDue(i) /\ todo[i] = {}

(* IndexDocuments reports success, or an error if everything was skipped. *)
Finish(i) ==
    /\ LoopIsOver(i)
    /\ Returns(i)
    /\ UNCHANGED <<files, qdrant, starting, wire>>

(* Embed returns a vector: the document goes into the batch. *)
EmbedAnswers(i) ==
    /\ pc[i] = "embed"
    /\ batch' = [batch EXCEPT ![i] = @ \union {Current(i)}]
    /\ todo' = [todo EXCEPT ![i] = @ \ {Current(i)}]
    /\ attempt' = [attempt EXCEPT ![i] = 1]
    /\ pc' = [pc EXCEPT ![i] = "next"]
    /\ UNCHANGED <<files, qdrant, starting, cancelled,
                   loaded, skipped, accepted, wire>>

(* Slip: one attempt too many. *)
EmbedFailsOnceMore(i) ==
    /\ pc[i] = "embed"
    /\ IF attempt[i] <= MaxRetries /\ ~cancelled[i]
       THEN /\ attempt' = [attempt EXCEPT ![i] = @ + 1]
            /\ UNCHANGED <<pc, todo, skipped>>
       ELSE /\ skipped' = [skipped EXCEPT ![i] = @ \union {Current(i)}]
            /\ todo' = [todo EXCEPT ![i] = @ \ {Current(i)}]
            /\ attempt' = [attempt EXCEPT ![i] = 1]
            /\ pc' = [pc EXCEPT ![i] = "next"]
    /\ UNCHANGED <<files, qdrant, starting, cancelled,
                   loaded, batch, accepted, wire>>

(* withRetry: three attempts, none of them after the context is done. *)
EmbedFails(i) ==
    /\ pc[i] = "embed"
    /\ IF attempt[i] < MaxRetries /\ ~cancelled[i]
       THEN /\ attempt' = [attempt EXCEPT ![i] = @ + 1]
            /\ UNCHANGED <<pc, todo, skipped>>
       ELSE /\ skipped' = [skipped EXCEPT ![i] = @ \union {Current(i)}]
            /\ todo' = [todo EXCEPT ![i] = @ \ {Current(i)}]
            /\ attempt' = [attempt EXCEPT ![i] = 1]
            /\ pc' = [pc EXCEPT ![i] = "next"]
    /\ UNCHANGED <<files, qdrant, starting, cancelled,
                   loaded, batch, accepted, wire>>

UpsertAccepted(i) ==
    /\ pc[i] = "upsert" /\ Accepts(1)
    /\ runbooks' = Upsert(runbooks, batch[i])
    /\ accepted' = [accepted EXCEPT ![i] = @ \union batch[i]]
    /\ batch' = [batch EXCEPT ![i] = {}]
    /\ pc' = [pc EXCEPT ![i] = "next"]
    /\ UNCHANGED <<files, collection, incidents, starting, cancelled,
                   loaded, todo, attempt, skipped, wire>>

(***************************************************************************)
(* A refusal, a time-out, a cancellation: IndexDocuments returns at once,  *)
(* with whatever is left undone.  Unless it was refused, the request may   *)
(* still be on its way.                                                    *)
(***************************************************************************)
UpsertFails(i) ==
    /\ pc[i] = "upsert"
    /\ Returns(i)
    /\ \/ UNCHANGED wire
       \/ /\ wire = {}
          /\ wire' = {batch[i]}
    /\ UNCHANGED <<files, qdrant, starting>>

Embeds(i) == EmbedAnswers(i) \/ EmbedFails(i)

Works(i) ==
    \/ LoadFiles(i) \/ Flush(i) \/ NextDocument(i) \/ GiveUp(i) \/ Finish(i)
    \/ UpsertAccepted(i) \/ UpsertFails(i)

Step(i) == Works(i) \/ Embeds(i)

Reconcile ==
    \/ Reload \/ BuildFails \/ Initialize \/ InitializeFails
    \/ \E i \in Indexers : StartIndexing(i)

-----------------------------------------------------------------------------
(* IndexResolvedIncident: one document, embedded and upserted. *)
IndexResolvedIncident(n) ==
    /\ n \notin incidents
    /\ Accepts(2)
    /\ incidents' = incidents \union {n}
    /\ UNCHANGED <<files, collection, runbooks, starting, pc, cancelled,
                   progress, wire>>

(* The world: edits, and requests that arrive late or never. *)

Edit(f) ==
    /\ version[f] < MaxVersion
    /\ version' = [version EXCEPT ![f] = @ + 1]
    /\ UNCHANGED <<qdrant, starting, pc, cancelled, progress, wire>>

LateUpsert(r) ==
    /\ wire' = wire \ {r}
    /\ \/ Accepts(1) /\ runbooks' = Upsert(runbooks, r)
       \/ UNCHANGED runbooks
    /\ UNCHANGED <<files, collection, incidents, starting, pc, cancelled,
                   progress>>

Next ==
    \/ Reconcile
    \/ \E i \in Indexers : Step(i)
    \/ \E n \in Incidents : IndexResolvedIncident(n)
    \/ \E f \in Files : Edit(f)
    \/ \E r \in wire : LateUpsert(r)

Spec == Init /\ [][Next]_vars

(***************************************************************************)
(* A reconcile comes to an end and is repeated every five minutes;         *)
(* goroutines run; Qdrant's client gives up after 30 seconds, and a        *)
(* request given up by its sender arrives or is lost.  An embedding        *)
(* request is sure to come back only when its context is cancelled.        *)
(***************************************************************************)
Fairness ==
    /\ WF_vars(Reconcile)
    /\ \A i \in Indexers : WF_vars(Works(i) \/ (cancelled[i] /\ Embeds(i)))
    /\ WF_vars(\E r \in wire : LateUpsert(r))

FairSpec == Spec /\ Fairness

-----------------------------------------------------------------------------
(* Retrieve: it changes nothing, so it is the answers it may give. *)

PointsOf(k) == CASE k = 1 -> {<<1, d.file, Id(d)>> : d \in runbooks}
                 [] k = 2 -> {<<2, n, n>> : n \in incidents}
                 [] OTHER -> {}

ScoreOf(hit) == Score[hit[2]]

(* The n best of a set of hits, or all of them; ties as they come. *)
Best(hits, n) ==
    IF Cardinality(hits) <= n THEN {hits}
    ELSE {best \in SUBSET hits :
             /\ Cardinality(best) = n
             /\ \A h \in best, g \in hits \ best : ScoreOf(h) >= ScoreOf(g)}

Wanted == IF TopK <= 0 THEN 5 ELSE TopK

(* Slip: each collection contributes its share only. *)
PerCollectionShare == (Wanted + 2) \div 3

PerCollectionLimit == IF Wanted * 2 < 5 THEN 5 ELSE Wanted * 2

(***************************************************************************)
(* Each collection that answers contributes its best; what the others hold *)
(* is left out.  The best of all is the confidence, 0 without any.         *)
(***************************************************************************)
Retrieve(answering) ==
    LET BestOf(k) == Best(PointsOf(k), PerCollectionLimit)
        Merges == {hits \in [answering -> UNION {BestOf(k) : k \in answering}] :
                      \A k \in answering : hits[k] \in BestOf(k)}
    IN  UNION {Best(UNION {hits[k] : k \in answering}, Wanted) : hits \in Merges}

-----------------------------------------------------------------------------
(***************************************************************************)
(* When IndexDocuments reports success, every word of every file it was    *)
(* given is in a document that Qdrant has accepted, or in one it has       *)
(* counted as skipped: chunks, batches, retries, cancellations and outages *)
(* lose nothing.  The one thing lost is what tokenizeWords drops, the rest *)
(* of a file that is chunked from a word on that is too long.              *)
(***************************************************************************)
IndexedIsComplete ==
    \A i \in Indexers, f \in Files :
        LET v == loaded[i][f] IN
        LoopIsOver(i) /\ v # Unread =>
            \A word \in 1..Words[f][v] :
                \/ Dropped(Words[f][v], TooLong[f][v], ChunkSize, word)
                \/ \E d \in accepted[i] \union skipped[i] :
                      d.file = f /\ d.version = v /\ d.from <= word /\ word <= d.to

(***************************************************************************)
(* Whichever collections fail to answer, a point of one that answers is    *)
(* left out only for topK others that match no worse.                      *)
(***************************************************************************)
RetrieveFindsBest ==
    \A answering \in SUBSET Collections : \A results \in Retrieve(answering) :
        \A k \in answering : \A hit \in PointsOf(k) \ results :
            /\ Cardinality(results) = Wanted
            /\ \A r \in results : ScoreOf(r) >= ScoreOf(hit)

(***************************************************************************)
(* An indexing goroutine always comes to an end, though the embedding      *)
(* never answers: the next reload cancels it, and the client, the back-off *)
(* of withRetry and the loop all look at the context.                      *)
(***************************************************************************)
IndexerEnds == \A i \in Indexers : []<>(pc[i] = "idle")

(***************************************************************************)
(* Once nothing fails any more, the collection of the runbooks fits the    *)
(* embedder, and five minutes are enough to index the files, what the      *)
(* files say in the end is what Qdrant holds: neither a batch lost in an   *)
(* outage, nor a cancelled generation, nor an upsert of old content that   *)
(* arrives late keeps the newest content out.                              *)
(***************************************************************************)
SomethingFails ==
    \/ BuildFails
    \/ collection[1] = 0 /\ EnsureCollections({})
    \/ \E i \in Indexers :
          \/ LoadFiles(i) /\ \E f \in Files : loaded'[i][f] = Unread
          \/ ~cancelled[i] /\ (EmbedFails(i) \/ UpsertFails(i))

CutsIndexingShort == Reload /\ Running # {}

Refreshed ==
    /\ <>[][~SomethingFails]_vars
    /\ <>[][~CutsIndexingShort]_vars
    /\ <>[](collection[1] \in {0, Dimensions})
    => <>[](Load(version) \subseteq runbooks)
=============================================================================
