--------------------------- MODULE IncidentStore ---------------------------
(***************************************************************************)
(* internal/aggregator/incident_store.go: the in-memory incidents, their   *)
(* periodic synchronisation to Incident objects, and what a reload or a    *)
(* restart recovers from those.                                            *)
(*                                                                         *)
(* The API server's objects are what is true; the client reads them        *)
(* through the informer cache, which lags, and writes status by JSON merge *)
(* patches against what it read, without a resource version.  Every read   *)
(* and every write of an object is an action of its own.                   *)
(*                                                                         *)
(* A record keeps its occurrence count and where its analysis came from;   *)
(* severity, texts, times and pods travel with those two and are left out. *)
(* All incidents live in one namespace.                                    *)
(*                                                                         *)
(* What the store receives are deliveries: a line that a new stream, after *)
(* a reconnect, a reload or a restart, replays from the tail of the log is *)
(* delivered again, and RecordEvent, which cannot tell, counts it again.   *)
(* How much that adds is the subject of Platform.                          *)
(***************************************************************************)
EXTENDS Naturals

CONSTANTS
    Fingerprints,
    Names,            \* names of Incident objects
    NameOf,           \* incidentCRDName: fingerprint -> name
    Sources,          \* analysis sources the analyzer answers with
    AcceptedSources,  \* the enum of the CRD's schema
    NoFingerprint, NoRecord, NoAnalysis, NoCR, NoWrite,
    MaxEvents,        \* bound: deliveries for each fingerprint
    MaxReloads,       \* bound: reloads of the platform
    MaxCrashes        \* bound: restarts of the process

ASSUME NameOfAssumption == NameOf \in [Fingerprints -> Names]
ASSUME BoundsAssumption == MaxEvents \in [Fingerprints -> Nat] /\ MaxReloads \in Nat /\ MaxCrashes \in Nat

(* Acknowledged is of the API; nothing in the operator writes it. *)
Phases == {"none", "Detecting", "Analyzing", "Notified", "Acknowledged", "Resolved", "Archived"}

Records == [count : Nat, analysis : Sources \union {NoAnalysis}, resolved : BOOLEAN]

(***************************************************************************)
(* An Incident: what the store writes of its status (fingerprint to        *)
(* resolved), and what only others set: notified, and how long ago         *)
(* resolvedAt is, seen from the 24 hours after which archiving begins.     *)
(***************************************************************************)
CRs == [fingerprint : Fingerprints \union {NoFingerprint},
        phase       : Phases,
        count       : Nat,
        analysis    : Sources \union {NoAnalysis},
        resolved    : BOOLEAN,
        notified    : BOOLEAN,
        resolvedAt  : {"never", "recent", "dayOld"}]

Writes == [fingerprint : Fingerprints, base : CRs, target : CRs]

ASSUME NoneAssumption == /\ NoFingerprint \notin Fingerprints
                         /\ NoRecord \notin Records
                         /\ NoAnalysis \notin Sources
                         /\ NoCR \notin CRs
                         /\ NoWrite \notin Writes

VARIABLES
    delivered,  \* calls of RecordEvent ever made for each fingerprint
    records,    \* IncidentStore.records of the store in use
    analysing,  \* incidents whose analysis goroutine is running
    pending,    \* records the sync pass under way has still to visit
    ensured,    \* the record whose object CreateOrPatch has just ensured
    writing,    \* the status patch under way
    crs,        \* the Incident objects
    cached,     \* the informer cache's copy of them
    reloads, crashes

storeVars == <<delivered, records, analysing>>
syncVars == <<pending, ensured, writing>>
apiVars == <<crs, cached>>
boundVars == <<reloads, crashes>>
incidentVars == <<delivered, records, analysing, pending, ensured, writing,
                  crs, cached, reloads, crashes>>

StoreTypeOK ==
    /\ delivered \in [Fingerprints -> Nat]
    /\ records \in [Fingerprints -> Records \union {NoRecord}]
    /\ analysing \in SUBSET Fingerprints
    /\ pending \in SUBSET Fingerprints
    /\ ensured \in Fingerprints \union {NoFingerprint}
    /\ writing \in Writes \union {NoWrite}
    /\ crs \in [Names -> CRs \union {NoCR}]
    /\ cached \in [Names -> CRs \union {NoCR}]
    /\ reloads \in 0..MaxReloads
    /\ crashes \in 0..MaxCrashes

StoreInit ==
    /\ delivered = [f \in Fingerprints |-> 0]
    /\ records = [f \in Fingerprints |-> NoRecord]
    /\ analysing = {}
    /\ pending = {}
    /\ ensured = NoFingerprint
    /\ writing = NoWrite
    /\ crs = [n \in Names |-> NoCR]
    /\ cached = [n \in Names |-> NoCR]
    /\ reloads = 0
    /\ crashes = 0

-----------------------------------------------------------------------------
(* The store's operations, as the log pipeline calls them. *)

(* RecordEvent: the pipeline starts an analysis for a record that is new. *)
RecordEvent(f) ==
    /\ delivered[f] < MaxEvents[f]
    /\ delivered' = [delivered EXCEPT ![f] = @ + 1]
    /\ IF records[f] = NoRecord
       THEN /\ records' = [records EXCEPT ![f] =
                  [count |-> 1, analysis |-> NoAnalysis, resolved |-> FALSE]]
            /\ analysing' = analysing \union {f}
       ELSE /\ records' = [records EXCEPT ![f].count = @ + 1]
            /\ UNCHANGED analysing
    /\ UNCHANGED <<syncVars, apiVars, boundVars>>

(* The analysis goroutine's end: Analyze always has an answer. *)
UpdateSeverityAndAnalysis(f, source) ==
    /\ f \in analysing
    /\ analysing' = analysing \ {f}
    /\ records' = [records EXCEPT ![f].analysis = source]
    /\ UNCHANGED <<delivered, syncVars, apiVars, boundVars>>

-----------------------------------------------------------------------------
(* SyncToKubernetes, one pass of the periodic sync. *)

InSync == pending # {} \/ ensured # NoFingerprint \/ writing # NoWrite

(* Slip: only records without an object are synchronised. *)
TickNewOnly ==
    /\ ~InSync
    /\ pending' = {f \in Fingerprints : records[f] # NoRecord /\ cached[NameOf[f]] = NoCR}
    /\ pending' # {}
    /\ UNCHANGED <<storeVars, ensured, writing, apiVars, boundVars>>

Tick ==
    /\ ~InSync
    /\ pending' = {f \in Fingerprints : records[f] # NoRecord}
    /\ UNCHANGED <<storeVars, ensured, writing, apiVars, boundVars>>

NewCR == [fingerprint |-> NoFingerprint, phase |-> "none", count |-> 0,
          analysis |-> NoAnalysis, resolved |-> FALSE,
          notified |-> FALSE, resolvedAt |-> "never"]

(* CreateOrPatch touches metadata only; it creates what the cache misses. *)
CreateOrPatch(f) ==
    LET n == NameOf[f] IN
    /\ f \in pending /\ ensured = NoFingerprint /\ writing = NoWrite
    /\ \/ cached[n] # NoCR /\ UNCHANGED crs
       \/ cached[n] = NoCR /\ crs[n] = NoCR /\ crs' = [crs EXCEPT ![n] = NewCR]
    /\ pending' = pending \ {f}
    /\ ensured' = f
    /\ UNCHANGED <<storeVars, writing, cached, boundVars>>

(* Slip: a phase the schema does not know. *)
PhaseMisspelt(rec) ==
    IF rec.resolved THEN "Resolved"
    ELSE IF rec.count > 1 THEN "Analysing" ELSE "Detecting"

Phase(rec) ==
    IF rec.resolved THEN "Resolved"
    ELSE IF rec.count > 1 THEN "Analyzing" ELSE "Detecting"

(* The status syncStatus wants, given the object it has read. *)
StatusOf(f, base) ==
    [base EXCEPT !.fingerprint = f,
                 !.phase = Phase(records[f]),
                 !.count = records[f].count,
                 !.analysis = records[f].analysis,
                 !.resolved = records[f].resolved]

(***************************************************************************)
(* syncStatus up to its patch: snapshot the record, read the object.  What *)
(* comes between the two either leaves the object alone or the record, so  *)
(* that nothing is lost by making them one action.                         *)
(***************************************************************************)
PrepareStatus(f) ==
    LET base == cached[NameOf[f]] IN
    /\ f = ensured /\ base # NoCR
    /\ writing' = [fingerprint |-> f, base |-> base, target |-> StatusOf(f, base)]
    /\ ensured' = NoFingerprint
    /\ UNCHANGED <<storeVars, pending, apiVars, boundVars>>

(* A JSON merge patch from base to target, applied to the actual object. *)
MergePatch(base, target, actual) ==
    [x \in DOMAIN actual |-> IF target[x] # base[x] THEN target[x] ELSE actual[x]]

Valid(cr) == cr.analysis \in AcceptedSources \union {NoAnalysis}

(* The API server applies the status patch, if the result fits the schema. *)
PatchStatus ==
    /\ writing # NoWrite
    /\ LET n == NameOf[writing.fingerprint]
           patched == MergePatch(writing.base, writing.target, crs[n])
       IN  Valid(patched) /\ crs' = [crs EXCEPT ![n] = patched]
    /\ writing' = NoWrite
    /\ UNCHANGED <<storeVars, pending, ensured, cached, boundVars>>

(***************************************************************************)
(* A request fails, or the object is not in the cache yet, or the schema   *)
(* rejects it: the pass goes on with the next record.                      *)
(***************************************************************************)
SyncFails ==
    /\ \/ /\ ensured = NoFingerprint /\ writing = NoWrite
          /\ \E f \in pending : pending' = pending \ {f}
          /\ UNCHANGED <<ensured, writing>>
       \/ /\ ensured # NoFingerprint
          /\ ensured' = NoFingerprint /\ UNCHANGED <<pending, writing>>
       \/ /\ writing # NoWrite
          /\ writing' = NoWrite /\ UNCHANGED <<pending, ensured>>
    /\ UNCHANGED <<storeVars, apiVars, boundVars>>

(* A watch event brings the cache up to date. *)
CacheCatchesUp(n) ==
    /\ cached[n] # crs[n]
    /\ cached' = [cached EXCEPT ![n] = crs[n]]
    /\ UNCHANGED <<storeVars, syncVars, crs, boundVars>>

-----------------------------------------------------------------------------
(* Slip: loading a record counts as an occurrence. *)
LoadedAndCounted(listing) ==
    [f \in Fingerprints |->
        LET cr == listing[NameOf[f]] IN
        IF cr # NoCR /\ ~cr.resolved /\ cr.fingerprint = f
        THEN [count |-> cr.count + 1, analysis |-> cr.analysis, resolved |-> cr.resolved]
        ELSE NoRecord]

(* Slip: the analysis is not loaded. *)
LoadedUnanalysed(listing) ==
    [f \in Fingerprints |->
        LET cr == listing[NameOf[f]] IN
        IF cr # NoCR /\ ~cr.resolved /\ cr.fingerprint = f
        THEN [count |-> cr.count, analysis |-> NoAnalysis, resolved |-> cr.resolved]
        ELSE NoRecord]

(* LoadExistingIncidents, from a listing of the objects. *)
Loaded(listing) ==
    [f \in Fingerprints |->
        LET cr == listing[NameOf[f]] IN
        IF cr # NoCR /\ ~cr.resolved /\ cr.fingerprint = f
        THEN [count |-> cr.count, analysis |-> cr.analysis, resolved |-> cr.resolved]
        ELSE NoRecord]

(***************************************************************************)
(* A platform reconcile replaces the store: its pass and its analyses are  *)
(* cancelled, though a patch already sent may still arrive.  The new store *)
(* lists the cache; when that fails it starts empty.                       *)
(***************************************************************************)
Reload ==
    /\ reloads < MaxReloads
    /\ reloads' = reloads + 1
    /\ records' \in {Loaded(cached), [f \in Fingerprints |-> NoRecord]}
    /\ analysing' = {}
    /\ pending' = {} /\ ensured' = NoFingerprint
    /\ UNCHANGED <<delivered, writing, apiVars, crashes>>

(* The process dies; a new one fills its cache before it loads. *)
Crash ==
    /\ crashes < MaxCrashes
    /\ crashes' = crashes + 1
    /\ records' = Loaded(crs)
    /\ cached' = crs
    /\ analysing' = {}
    /\ pending' = {} /\ ensured' = NoFingerprint /\ writing' = NoWrite
    /\ UNCHANGED <<delivered, crs, reloads>>

StoreStep ==
    \/ \E f \in Fingerprints :
          \/ RecordEvent(f)
          \/ \E source \in Sources : UpdateSeverityAndAnalysis(f, source)
          \/ CreateOrPatch(f)
          \/ PrepareStatus(f)
    \/ Tick \/ PatchStatus \/ SyncFails
    \/ \E n \in Names : CacheCatchesUp(n)
    \/ Reload

StoreNext == StoreStep \/ Crash

StoreSpec == StoreInit /\ [][StoreNext]_incidentVars

(***************************************************************************)
(* The ticker ticks, goroutines run, the informer catches up, and for no   *)
(* record does the API server refuse for ever a request that is repeated   *)
(* for ever.                                                               *)
(***************************************************************************)
StoreFairness ==
    /\ WF_incidentVars(Tick)
    /\ WF_incidentVars(SyncFails)
    /\ \A f \in Fingerprints :
          /\ SF_incidentVars(writing # NoWrite /\ writing.fingerprint = f /\ PatchStatus)
          /\ WF_incidentVars(\E s \in Sources : UpdateSeverityAndAnalysis(f, s))
          /\ SF_incidentVars(CreateOrPatch(f))
          /\ SF_incidentVars(PrepareStatus(f))
    /\ \A n \in Names : WF_incidentVars(CacheCatchesUp(n))

FairStoreSpec == StoreSpec /\ StoreFairness

-----------------------------------------------------------------------------
(***************************************************************************)
(* The count of an Incident never exceeds the lines delivered for its      *)
(* fingerprint: reloading from a stale cache, patching late and retrying   *)
(* after a failure add nothing to it.  Deliveries include replayed lines,  *)
(* so this is not to say that no line is counted twice.                    *)
(***************************************************************************)
CountsOnlyDeliveries ==
    \A n \in Names : crs[n] # NoCR =>
        \A f \in Fingerprints :
            crs[n].fingerprint = f => crs[n].count <= delivered[f]

(***************************************************************************)
(* What was persisted is not taken back by restarts, failed and repeated   *)
(* syncs or lagging reads: the count of an Incident ("the total number of  *)
(* occurrences") does not fall, and its analysis does not disappear.  A    *)
(* reload of the platform is excluded: it loads a cache that lags.         *)
(***************************************************************************)
PersistedIsKept ==
    [][reloads' = 0 =>
          \A n \in Names : crs[n] # NoCR =>
             /\ crs'[n].count >= crs[n].count
             /\ crs[n].analysis # NoAnalysis => crs'[n].analysis # NoAnalysis]_incidentVars

(***************************************************************************)
(* Whatever the store has recorded reaches the API server: from some time  *)
(* on each record and its Incident agree on count and analysis (no more    *)
(* lines arrive once the bound is reached).  A record whose analysis the  *)
(* schema refuses is never persisted again, but costs no other its turn.   *)
(***************************************************************************)
EventuallyPersisted ==
    \A f \in Fingerprints :
        <>[](records[f] # NoRecord /\ Valid(records[f]) =>
                /\ crs[NameOf[f]] # NoCR
                /\ crs[NameOf[f]].count = records[f].count
                /\ crs[NameOf[f]].analysis = records[f].analysis)
=============================================================================
