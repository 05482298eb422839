---------------------- MODULE IncidentLifecycleProofs ----------------------
(***************************************************************************)
(* Theorems about IncidentLifecycle, and through it about the store: for   *)
(* any fingerprints, names and sources and any bounds.                     *)
(***************************************************************************)
EXTENDS IncidentLifecycle, TLAPS

USE NameOfAssumption, BoundsAssumption, NoneAssumption, NoTransitionAssumption

-----------------------------------------------------------------------------
(* Types. *)

(* A merge patch of Incidents is an Incident, field by field. *)
LEMMA MergePatchFields ==
    ASSUME NEW base \in CRs, NEW target \in CRs, NEW actual \in CRs
    PROVE  LET m == MergePatch(base, target, actual) IN
           /\ m \in CRs
           /\ m.count = IF target.count # base.count THEN target.count ELSE actual.count
           /\ m.phase = IF target.phase # base.phase THEN target.phase ELSE actual.phase
           /\ m.fingerprint = IF target.fingerprint # base.fingerprint
                              THEN target.fingerprint ELSE actual.fingerprint
           /\ m.notified = IF target.notified # base.notified
                           THEN target.notified ELSE actual.notified
           /\ m.analysis = IF target.analysis # base.analysis
                           THEN target.analysis ELSE actual.analysis
           /\ m.resolved = IF target.resolved # base.resolved
                           THEN target.resolved ELSE actual.resolved
BY DEF MergePatch, CRs

LEMMA NewCRType == NewCR \in CRs
BY DEF NewCR, CRs, Phases

(* The status the sync wants of an Incident differs from it as it should. *)
LEMMA StatusOfFields ==
    ASSUME StoreTypeOK, NEW f \in Fingerprints, records[f] # NoRecord, NEW base \in CRs
    PROVE  /\ StatusOf(f, base) \in CRs
           /\ StatusOf(f, base).fingerprint = f
           /\ StatusOf(f, base).count = records[f].count
           /\ StatusOf(f, base).analysis = records[f].analysis
           /\ StatusOf(f, base).resolved = records[f].resolved
           /\ StatusOf(f, base).phase # "Notified"
           /\ StatusOf(f, base).notified = base.notified
<1>1. records[f] \in Records
  BY DEF StoreTypeOK
<1>2. Phase(records[f]) \in Phases \ {"Notified"}
  BY DEF Phase, Phases
<1> QED
  BY <1>1, <1>2 DEF StatusOf, CRs, Records

LEMMA NextPhaseType ==
    ASSUME NEW cr \in CRs
    PROVE  /\ NextPhase(cr) \in Phases
           /\ NextPhase(cr) = "Notified" => cr.phase = "Notified" \/ cr.notified
BY DEF NextPhase, ToArchive, CRs, Phases

-----------------------------------------------------------------------------
(***************************************************************************)
(* The sync pass and the analyses only ever concern records of the store.  *)
(***************************************************************************)
WorksOnRecords ==
    /\ \A f \in pending \union analysing : records[f] # NoRecord
    /\ ensured # NoFingerprint => records[ensured] # NoRecord

(* Objects are not deleted: what was read of one can be patched. *)
WritesExist ==
    /\ \A n \in Names : cached[n] # NoCR => crs[n] # NoCR
    /\ writing # NoWrite => crs[NameOf[writing.fingerprint]] # NoCR

StoreTyped == StoreTypeOK /\ WorksOnRecords /\ WritesExist

TransitionsExist == reconciling # NoWrite => crs[reconciling.name] # NoCR

ObjectsExist == WritesExist /\ TransitionsExist

Typed == TypeOK /\ WorksOnRecords /\ ObjectsExist

NoneDeleted == \A n \in Names : crs[n] # NoCR => crs'[n] # NoCR

LEMMA InitStoreTyped == ASSUME StoreInit PROVE StoreTyped
BY DEF StoreInit, StoreTyped, StoreTypeOK, WorksOnRecords, WritesExist

LEMMA InitTyped == ASSUME Init PROVE Typed
BY InitStoreTyped DEF Init, StoreTyped, Typed, TypeOK, ObjectsExist, TransitionsExist

LEMMA RecordsKept ==
    ASSUME WorksOnRecords, UNCHANGED <<records, analysing, pending, ensured>>
    PROVE  WorksOnRecords'
BY DEF WorksOnRecords

LEMMA WritesKept ==
    ASSUME WritesExist, UNCHANGED <<crs, cached, writing>>
    PROVE  WritesExist' /\ NoneDeleted
BY DEF WritesExist, NoneDeleted

LEMMA StoreStepTyped ==
    ASSUME StoreTyped, StoreStep
    PROVE  StoreTyped' /\ NoneDeleted
<1> USE DEF StoreTyped, StoreTypeOK, storeVars, syncVars, apiVars, boundVars
<1> DEFINE Goal == StoreTyped' /\ NoneDeleted
<1>1. ASSUME NEW f \in Fingerprints, RecordEvent(f) PROVE Goal
  <2>1. delivered' \in [Fingerprints -> Nat]
    BY <1>1 DEF RecordEvent
  <2>2. PICK rec \in Records : records' = [records EXCEPT ![f] = rec]
    <3>1. CASE records[f] = NoRecord
      <4>1. [count |-> 1, analysis |-> NoAnalysis, resolved |-> FALSE] \in Records
        BY DEF Records
      <4> QED
        BY <1>1, <3>1, <4>1 DEF RecordEvent
    <3>2. CASE records[f] # NoRecord
      <4>1. [records[f] EXCEPT !.count = @ + 1] \in Records
        BY <3>2 DEF Records
      <4> QED
        BY <1>1, <3>2, <4>1 DEF RecordEvent
    <3> QED
      BY <3>1, <3>2
  <2>3. analysing' \in SUBSET Fingerprints /\ analysing' \subseteq analysing \union {f}
    BY <1>1 DEF RecordEvent
  <2>4. StoreTypeOK'
    BY <1>1, <2>1, <2>2, <2>3 DEF RecordEvent
  <2>5. WorksOnRecords'
    BY <1>1, <2>2, <2>3 DEF RecordEvent, WorksOnRecords
  <2> QED
    BY <1>1, <2>4, <2>5, WritesKept DEF RecordEvent
<1>2. ASSUME NEW f \in Fingerprints, NEW source \in Sources,
             UpdateSeverityAndAnalysis(f, source)
      PROVE  Goal
  <2>1. records[f] \in Records
    BY <1>2 DEF UpdateSeverityAndAnalysis, WorksOnRecords
  <2>2. [records[f] EXCEPT !.analysis = source] \in Records
    BY <2>1 DEF Records
  <2>3. records' = [records EXCEPT ![f] = [records[f] EXCEPT !.analysis = source]]
    BY <1>2 DEF UpdateSeverityAndAnalysis
  <2>4. StoreTypeOK'
    BY <1>2, <2>2, <2>3 DEF UpdateSeverityAndAnalysis
  <2>5. WorksOnRecords'
    BY <1>2, <2>2, <2>3 DEF UpdateSeverityAndAnalysis, WorksOnRecords
  <2> QED
    BY <1>2, <2>4, <2>5, WritesKept DEF UpdateSeverityAndAnalysis
<1>3. CASE Tick
  <2>1. StoreTypeOK' /\ WorksOnRecords'
    BY <1>3 DEF Tick, WorksOnRecords, InSync
  <2> QED
    BY <1>3, <2>1, WritesKept DEF Tick
<1>4. ASSUME NEW f \in Fingerprints, CreateOrPatch(f) PROVE Goal
  <2>1. crs' \in [Names -> CRs \union {NoCR}]
    BY <1>4, NewCRType DEF CreateOrPatch
  <2>2. \A n \in Names : crs[n] # NoCR => crs'[n] = crs[n]
    BY <1>4 DEF CreateOrPatch
  <2>3. WritesExist' /\ NoneDeleted
    BY <1>4, <2>2 DEF CreateOrPatch, WritesExist, NoneDeleted
  <2> QED
    BY <1>4, <2>1, <2>3 DEF CreateOrPatch, WorksOnRecords
<1>5. ASSUME NEW f \in Fingerprints, PrepareStatus(f) PROVE Goal
  <2>1. records[f] # NoRecord /\ cached[NameOf[f]] \in CRs
    BY <1>5 DEF PrepareStatus, WorksOnRecords
  <2>2. writing' \in Writes /\ writing'.fingerprint = f
    BY <1>5, <2>1, StatusOfFields DEF PrepareStatus, Writes
  <2>3. WritesExist' /\ NoneDeleted
    BY <1>5, <2>1, <2>2 DEF PrepareStatus, WritesExist, NoneDeleted
  <2> QED
    BY <1>5, <2>2, <2>3 DEF PrepareStatus, WorksOnRecords
<1>6. CASE PatchStatus
  <2> DEFINE n == NameOf[writing.fingerprint]
             patched == MergePatch(writing.base, writing.target, crs[n])
  <2>1. /\ crs' = [crs EXCEPT ![n] = patched] /\ writing' = NoWrite
        /\ writing \in Writes /\ n \in Names
    BY <1>6 DEF PatchStatus, Writes
  <2>2. crs[n] \in CRs
    BY <1>6, <2>1 DEF PatchStatus, WritesExist
  <2>3. patched \in CRs
    BY <2>1, <2>2, MergePatchFields DEF Writes
  <2>4. crs' \in [Names -> CRs \union {NoCR}] /\ NoneDeleted
    BY <2>1, <2>3 DEF NoneDeleted
  <2>5. WritesExist'
    BY <1>6, <2>1, <2>4 DEF PatchStatus, WritesExist, NoneDeleted
  <2> QED
    BY <1>6, <2>4, <2>5, RecordsKept DEF PatchStatus
<1>7. CASE SyncFails
  BY <1>7 DEF SyncFails, WorksOnRecords, WritesExist, NoneDeleted
<1>8. ASSUME NEW n \in Names, CacheCatchesUp(n) PROVE Goal
  BY <1>8, RecordsKept DEF CacheCatchesUp, WritesExist, NoneDeleted
<1>9. CASE Reload
  <2>1. Loaded(cached) \in [Fingerprints -> Records \union {NoRecord}]
    BY DEF Loaded, CRs, Records
  <2> QED
    BY <1>9, <2>1, WritesKept DEF Reload, WorksOnRecords
<1> QED
  BY <1>1, <1>2, <1>3, <1>4, <1>5, <1>6, <1>7, <1>8, <1>9 DEF StoreStep

LEMMA CrashTyped ==
    ASSUME StoreTyped, Crash
    PROVE  StoreTyped'
<1>1. Loaded(crs) \in [Fingerprints -> Records \union {NoRecord}]
  BY DEF StoreTyped, StoreTypeOK, Loaded, CRs, Records
<1> QED
  BY <1>1 DEF Crash, StoreTyped, StoreTypeOK, WorksOnRecords, WritesExist

LEMMA StoreNextTyped ==
    ASSUME StoreTyped, [StoreNext]_incidentVars
    PROVE  StoreTyped'
<1>1. CASE UNCHANGED incidentVars
  BY <1>1, RecordsKept, WritesKept DEF incidentVars, StoreTyped, StoreTypeOK
<1> QED
  BY <1>1, StoreStepTyped, CrashTyped DEF StoreNext

(***************************************************************************)
(* Every variable of the store keeps its type, in every interleaving of    *)
(* the pipeline, the analyses, the sync, the cache, reloads and restarts.  *)
(***************************************************************************)
THEOREM StoreTypeCorrect == StoreSpec => []StoreTypeOK
<1>1. StoreTyped => StoreTypeOK
  BY DEF StoreTyped
<1> QED
  BY InitStoreTyped, StoreNextTyped, <1>1, PTL DEF StoreSpec

(* What the world outside edits keeps the Incident one, and its phase. *)
LEMMA EditOfFields ==
    ASSUME Typed, NEW n \in Names, Resolve(n) \/ DayPasses(n) \/ Notify(n)
    PROVE  \E cr \in CRs :
              /\ Edit(n, cr)
              /\ cr.phase = crs[n].phase
              /\ cr.fingerprint = crs[n].fingerprint /\ cr.count = crs[n].count
              /\ cr.notified = crs[n].notified \/ cr.notified = TRUE
<1>1. crs[n] \in CRs
  BY DEF Typed, TypeOK, StoreTypeOK, Resolve, DayPasses, Notify
<1>2. CASE Resolve(n)
  <2> DEFINE cr == [crs[n] EXCEPT !.resolved = TRUE, !.resolvedAt = "recent"]
  <2>1. /\ cr \in CRs /\ cr.phase = crs[n].phase /\ cr.notified = crs[n].notified
        /\ cr.fingerprint = crs[n].fingerprint /\ cr.count = crs[n].count
    BY <1>1 DEF CRs
  <2>2. Edit(n, cr)
    BY <1>2 DEF Resolve
  <2> HIDE DEF cr
  <2> QED
    BY <2>1, <2>2
<1>3. CASE DayPasses(n)
  <2> DEFINE cr == [crs[n] EXCEPT !.resolvedAt = "dayOld"]
  <2>1. /\ cr \in CRs /\ cr.phase = crs[n].phase /\ cr.notified = crs[n].notified
        /\ cr.fingerprint = crs[n].fingerprint /\ cr.count = crs[n].count
    BY <1>1 DEF CRs
  <2>2. Edit(n, cr)
    BY <1>3 DEF DayPasses
  <2> HIDE DEF cr
  <2> QED
    BY <2>1, <2>2
<1>4. CASE Notify(n)
  <2> DEFINE cr == [crs[n] EXCEPT !.notified = TRUE]
  <2>1. /\ cr \in CRs /\ cr.phase = crs[n].phase /\ cr.notified = TRUE
        /\ cr.fingerprint = crs[n].fingerprint /\ cr.count = crs[n].count
    BY <1>1 DEF CRs
  <2>2. Edit(n, cr)
    BY <1>4 DEF Notify
  <2> HIDE DEF cr
  <2> QED
    BY <2>1, <2>2
<1> QED
  BY <1>2, <1>3, <1>4

LEMMA StepTyped ==
    ASSUME Typed, [Next]_vars
    PROVE  Typed'
<1> USE DEF Typed, TypeOK, StoreTypeOK, storeVars, syncVars, apiVars, boundVars,
            incidentVars
<1>1. CASE StoreStep /\ UNCHANGED <<reconciling, indexed>>
  <2>1. StoreTyped' /\ NoneDeleted
    BY <1>1, StoreStepTyped DEF StoreTyped, ObjectsExist
  <2> QED
    BY <1>1, <2>1 DEF StoreTyped, NoneDeleted, ObjectsExist, TransitionsExist, Transitions
<1>2. CASE Crash /\ reconciling' = NoWrite /\ UNCHANGED indexed
  <2>1. StoreTyped'
    BY <1>2, CrashTyped DEF StoreTyped, ObjectsExist
  <2> QED
    BY <1>2, <2>1 DEF StoreTyped, ObjectsExist, TransitionsExist
<1>3. ASSUME NEW n \in Names, Reconcile(n) PROVE Typed'
  <2> DEFINE cr == cached[n]
  <2>1. cr \in CRs
    BY <1>3 DEF Reconcile
  <2>2. [cr EXCEPT !.phase = NextPhase(cr)] \in CRs
    BY <2>1, NextPhaseType DEF CRs
  <2>3. reconciling' \in Transitions \union {NoWrite}
    BY <1>3, <2>1, <2>2 DEF Reconcile, Transitions
  <2>4. ObjectsExist'
    BY <1>3, <2>1 DEF Reconcile, ObjectsExist, WritesExist, TransitionsExist
  <2> QED
    BY <1>3, <2>3, <2>4, RecordsKept DEF Reconcile
<1>4. CASE TransitionPhase
  <2> DEFINE n == reconciling.name
             patched == MergePatch(reconciling.base, reconciling.target, crs[n])
  <2>1. /\ crs' = [crs EXCEPT ![n] = patched] /\ reconciling' = NoWrite
        /\ reconciling \in Transitions /\ n \in Names
    BY <1>4 DEF TransitionPhase, Transitions
  <2>2. crs[n] \in CRs
    BY <1>4, <2>1 DEF TransitionPhase, ObjectsExist, WritesExist, TransitionsExist
  <2>3. patched \in CRs
    BY <2>1, <2>2, MergePatchFields DEF Transitions
  <2>4. /\ crs' \in [Names -> CRs \union {NoCR}]
        /\ \A m \in Names : crs[m] # NoCR => crs'[m] # NoCR
    BY <2>1, <2>3
  <2>5. ObjectsExist'
    BY <1>4, <2>1, <2>4 DEF TransitionPhase, ObjectsExist, WritesExist, TransitionsExist, Writes
  <2> QED
    BY <1>4, <2>4, <2>5, RecordsKept DEF TransitionPhase
<1>5. CASE TransitionFails
  BY <1>5, RecordsKept DEF TransitionFails, ObjectsExist, WritesExist, TransitionsExist
<1>6. ASSUME NEW n \in Names, Resolve(n) \/ DayPasses(n) \/ Notify(n)
      PROVE  Typed'
  <2>1. PICK cr \in CRs : Edit(n, cr)
    BY <1>6, EditOfFields
  <2>2. ObjectsExist'
    BY <2>1 DEF Edit, ObjectsExist, WritesExist, TransitionsExist, Writes, Transitions
  <2> QED
    BY <2>1, <2>2, RecordsKept DEF Edit
<1>7. CASE UNCHANGED vars
  BY <1>7, RecordsKept DEF vars, ObjectsExist, WritesExist, TransitionsExist
<1> QED
  BY <1>1, <1>2, <1>3, <1>4, <1>5, <1>6, <1>7 DEF Next

(***************************************************************************)
(* Every variable keeps its type, in every interleaving of the store, its  *)
(* sync, the reconciler, the API server and the people outside.            *)
(***************************************************************************)
THEOREM TypeCorrect == Spec => []TypeOK
<1>1. Typed => TypeOK
  BY DEF Typed
<1> QED
  BY InitTyped, StepTyped, <1>1, PTL DEF Spec

-----------------------------------------------------------------------------
(* NotifiedWasSent. *)

(***************************************************************************)
(* What makes it inductive: nobody in the operator writes the notified     *)
(* flag, so that a copy of it in the cache or in a patch can be false too  *)
(* long but never true too early.                                          *)
(***************************************************************************)
FlagIsNeverEarly ==
    /\ \A n \in Names : cached[n] # NoCR =>
          /\ cached[n].notified => crs[n].notified
          /\ cached[n].phase = "Notified" => cached[n].notified
    /\ writing # NoWrite =>
          /\ writing.target.notified = writing.base.notified
          /\ writing.target.phase # "Notified"
    /\ reconciling # NoWrite =>
          /\ reconciling.target.notified = reconciling.base.notified
          /\ reconciling.target.phase = "Notified" => crs[reconciling.name].notified

NotifiedInv == NotifiedWasSent /\ FlagIsNeverEarly

(* A step that writes no Incident's flag or phase, and no patch. *)
LEMMA NotifiedKept ==
    ASSUME NotifiedInv, UNCHANGED <<crs, cached, writing, reconciling>>
    PROVE  NotifiedInv'
BY DEF NotifiedInv, NotifiedWasSent, FlagIsNeverEarly

(* A step that writes one Incident, and at most gives up a patch. *)
LEMMA NotifiedWritten ==
    ASSUME Typed, NotifiedInv, NEW n \in Names, NEW cr \in CRs,
           crs[n] # NoCR, crs' = [crs EXCEPT ![n] = cr],
           crs[n].notified => cr.notified, cr.phase = "Notified" => cr.notified,
           UNCHANGED cached,
           writing' = writing \/ writing' = NoWrite,
           reconciling' = reconciling \/ reconciling' = NoWrite
    PROVE  NotifiedInv'
<1> USE DEF Typed, TypeOK, StoreTypeOK, NotifiedInv
<1>1. \A m \in Names : crs'[m] = IF m = n THEN cr ELSE crs[m]
  OBVIOUS
<1>2. NotifiedWasSent'
  BY <1>1 DEF NotifiedWasSent
<1>3. \A m \in Names : crs[m] # NoCR /\ crs[m].notified => crs'[m].notified
  BY <1>1
<1>4. FlagIsNeverEarly'
  BY <1>3 DEF FlagIsNeverEarly, ObjectsExist, WritesExist, TransitionsExist, Transitions
<1> QED
  BY <1>2, <1>4

LEMMA StepNotified ==
    ASSUME Typed, NotifiedInv, [Next]_vars
    PROVE  NotifiedInv'
<1> USE DEF Typed, TypeOK, StoreTypeOK, storeVars, syncVars, apiVars, boundVars,
            incidentVars
<1>1. CASE StoreStep /\ UNCHANGED <<reconciling, indexed>>
  <2>1. CASE \/ Tick \/ Reload
             \/ \E f \in Fingerprints :
                   RecordEvent(f) \/ \E s \in Sources : UpdateSeverityAndAnalysis(f, s)
    BY <1>1, <2>1, NotifiedKept DEF Tick, Reload, RecordEvent, UpdateSeverityAndAnalysis
  <2>2. ASSUME NEW f \in Fingerprints, CreateOrPatch(f) PROVE NotifiedInv'
    <3>1. \A n \in Names : crs'[n] = crs[n] \/ (crs[n] = NoCR /\ crs'[n] = NewCR)
      BY <2>2 DEF CreateOrPatch
    <3>2. NewCR.phase # "Notified"
      BY DEF NewCR
    <3>3. NotifiedWasSent'
      BY <3>1, <3>2 DEF NotifiedInv, NotifiedWasSent
    <3>4. FlagIsNeverEarly'
      BY <1>1, <2>2, <3>1
      DEF CreateOrPatch, NotifiedInv, FlagIsNeverEarly, ObjectsExist, WritesExist, TransitionsExist, Transitions
    <3> QED
      BY <3>3, <3>4 DEF NotifiedInv
  <2>3. ASSUME NEW f \in Fingerprints, PrepareStatus(f) PROVE NotifiedInv'
    <3>1. /\ writing'.target.phase # "Notified"
          /\ writing'.target.notified = writing'.base.notified
      BY <2>3, StatusOfFields DEF PrepareStatus, WorksOnRecords
    <3> QED
      BY <1>1, <2>3, <3>1 DEF PrepareStatus, NotifiedInv, NotifiedWasSent, FlagIsNeverEarly
  <2>4. CASE PatchStatus
    <3> DEFINE n == NameOf[writing.fingerprint]
               patched == MergePatch(writing.base, writing.target, crs[n])
    <3>1. /\ writing \in Writes /\ n \in Names /\ crs[n] \in CRs
          /\ crs' = [crs EXCEPT ![n] = patched] /\ writing' = NoWrite
          /\ crs[n] # NoCR /\ UNCHANGED <<cached, reconciling>>
      BY <1>1, <2>4 DEF PatchStatus, Writes, ObjectsExist, WritesExist, TransitionsExist
    <3>2. /\ patched \in CRs
          /\ patched.notified = crs[n].notified
          /\ patched.phase = "Notified" => crs[n].phase = "Notified"
      BY <2>4, <3>1, MergePatchFields DEF PatchStatus, Writes, NotifiedInv, FlagIsNeverEarly
    <3>3. patched.phase = "Notified" => patched.notified
      BY <3>1, <3>2 DEF NotifiedInv, NotifiedWasSent
    <3> HIDE DEF n, patched
    <3> QED
      BY <3>1, <3>2, <3>3, NotifiedWritten
  <2>5. CASE SyncFails
    BY <1>1, <2>5 DEF SyncFails, NotifiedInv, NotifiedWasSent, FlagIsNeverEarly
  <2>6. ASSUME NEW n \in Names, CacheCatchesUp(n) PROVE NotifiedInv'
    BY <1>1, <2>6 DEF CacheCatchesUp, NotifiedInv, NotifiedWasSent, FlagIsNeverEarly
  <2> QED
    BY <1>1, <2>1, <2>2, <2>3, <2>4, <2>5, <2>6 DEF StoreStep
<1>2. CASE Crash /\ reconciling' = NoWrite /\ UNCHANGED indexed
  BY <1>2 DEF Crash, NotifiedInv, NotifiedWasSent, FlagIsNeverEarly
<1>3. ASSUME NEW n \in Names, Reconcile(n) PROVE NotifiedInv'
  <2> DEFINE cr == cached[n]
             target == [cr EXCEPT !.phase = NextPhase(cr)]
  <2>1. cr \in CRs
    BY <1>3 DEF Reconcile
  <2>2. target.notified = cr.notified /\ target.phase = NextPhase(cr)
    BY <2>1 DEF CRs
  <2>3. target.phase = "Notified" => crs[n].notified
    BY <2>1, <2>2, NextPhaseType DEF NotifiedInv, FlagIsNeverEarly
  <2>4. \/ reconciling' = NoWrite
        \/ reconciling' = [name |-> n, base |-> cr, target |-> target]
    BY <1>3 DEF Reconcile
  <2> HIDE DEF cr, target
  <2> QED
    BY <1>3, <2>2, <2>3, <2>4
    DEF Reconcile, NotifiedInv, NotifiedWasSent, FlagIsNeverEarly
<1>4. CASE TransitionPhase
  <2> DEFINE n == reconciling.name
             patched == MergePatch(reconciling.base, reconciling.target, crs[n])
  <2>1. /\ reconciling \in Transitions /\ n \in Names /\ crs[n] \in CRs
        /\ crs' = [crs EXCEPT ![n] = patched] /\ reconciling' = NoWrite
        /\ crs[n] # NoCR /\ UNCHANGED <<cached, writing>>
    BY <1>4 DEF TransitionPhase, Transitions, ObjectsExist, WritesExist, TransitionsExist
  <2>2. /\ patched \in CRs
        /\ patched.notified = crs[n].notified
        /\ patched.phase = "Notified" => crs[n].phase = "Notified" \/ crs[n].notified
    BY <1>4, <2>1, MergePatchFields
    DEF TransitionPhase, Transitions, NotifiedInv, FlagIsNeverEarly
  <2>3. patched.phase = "Notified" => patched.notified
    BY <2>1, <2>2 DEF NotifiedInv, NotifiedWasSent
  <2> HIDE DEF n, patched
  <2> QED
    BY <2>1, <2>2, <2>3, NotifiedWritten
<1>5. CASE TransitionFails
  BY <1>5 DEF TransitionFails, NotifiedInv, NotifiedWasSent, FlagIsNeverEarly
<1>6. ASSUME NEW n \in Names, Resolve(n) \/ DayPasses(n) \/ Notify(n)
      PROVE  NotifiedInv'
  <2>1. PICK cr \in CRs :
            /\ Edit(n, cr) /\ cr.phase = crs[n].phase
            /\ cr.notified = crs[n].notified \/ cr.notified = TRUE
    BY <1>6, EditOfFields
  <2>2. crs[n] # NoCR
    BY <1>6 DEF Resolve, DayPasses, Notify
  <2>3. cr.phase = "Notified" => cr.notified
    BY <2>1, <2>2 DEF NotifiedInv, NotifiedWasSent
  <2> QED
    BY <2>1, <2>2, <2>3, NotifiedWritten DEF Edit
<1>7. CASE UNCHANGED vars
  BY <1>7, NotifiedKept DEF vars
<1> QED
  BY <1>1, <1>2, <1>3, <1>4, <1>5, <1>6, <1>7 DEF Next

(***************************************************************************)
(* No Incident is in phase Notified without its notified flag, however     *)
(* stale the copies that were decided on and however late the patches.     *)
(***************************************************************************)
THEOREM NotifiedTruthfully == Spec => []NotifiedWasSent
<1>1. Init => NotifiedInv
  BY DEF Init, StoreInit, NotifiedInv, NotifiedWasSent, FlagIsNeverEarly
<1>2. NotifiedInv => NotifiedWasSent
  BY DEF NotifiedInv
<1> QED
  BY <1>1, <1>2, InitTyped, StepTyped, StepNotified, PTL DEF Spec

-----------------------------------------------------------------------------
(* CountsOnlyDeliveries. *)

(***************************************************************************)
(* What makes it inductive: no copy of a count that is still to be written *)
(* or reloaded exceeds the lines delivered, and the object of a            *)
(* fingerprint carries no other one.                                       *)
(***************************************************************************)
CountsBounded ==
    /\ \A f \in Fingerprints :
          /\ records[f] # NoRecord => records[f].count <= delivered[f]
          /\ crs[NameOf[f]] # NoCR => crs[NameOf[f]].count <= delivered[f]
          /\ cached[NameOf[f]] # NoCR => cached[NameOf[f]].count <= delivered[f]
    /\ writing # NoWrite => writing.target.count <= delivered[writing.fingerprint]
    /\ reconciling # NoWrite => reconciling.target.count = reconciling.base.count

NamesAreOwn ==
    /\ \A n \in Names : crs[n] # NoCR /\ crs[n].fingerprint # NoFingerprint =>
          NameOf[crs[n].fingerprint] = n
    /\ writing # NoWrite => writing.target.fingerprint = writing.fingerprint
    /\ reconciling # NoWrite =>
          reconciling.target.fingerprint = reconciling.base.fingerprint

CountInv == CountsBounded /\ NamesAreOwn

(* No two fingerprints share the name of an Incident. *)
NamesDiffer == \A f, g \in Fingerprints : NameOf[f] = NameOf[g] => f = g

(* A step that writes one Incident within the bounds, and gives up a patch. *)
LEMMA CountsWritten ==
    ASSUME Typed, CountInv, NEW n \in Names, NEW cr \in CRs, crs[n] # NoCR,
           crs' = [crs EXCEPT ![n] = cr],
           \A f \in Fingerprints : NameOf[f] = n => cr.count <= delivered[f],
           cr.fingerprint # NoFingerprint => NameOf[cr.fingerprint] = n,
           UNCHANGED <<delivered, records, cached>>,
           writing' = writing \/ writing' = NoWrite,
           reconciling' = reconciling \/ reconciling' = NoWrite
    PROVE  CountInv'
<1> USE DEF Typed, TypeOK, StoreTypeOK, CountInv
<1>1. \A m \in Names : crs'[m] = IF m = n THEN cr ELSE crs[m]
  OBVIOUS
<1>2. CountsBounded'
  BY <1>1 DEF CountsBounded
<1>3. NamesAreOwn'
  BY <1>1 DEF NamesAreOwn
<1> QED
  BY <1>2, <1>3

(* What is loaded from a listing is within the bounds of the listing. *)
LEMMA LoadedBounded ==
    ASSUME NEW listing \in [Names -> CRs \union {NoCR}],
           NEW f \in Fingerprints, Loaded(listing)[f] # NoRecord
    PROVE  listing[NameOf[f]] # NoCR /\ Loaded(listing)[f].count = listing[NameOf[f]].count
BY DEF Loaded

LEMMA StepCounts ==
    ASSUME NamesDiffer, Typed, CountInv, [Next]_vars
    PROVE  CountInv'
<1> USE DEF Typed, TypeOK, StoreTypeOK, storeVars, syncVars, apiVars, boundVars,
            incidentVars
<1>1. CASE StoreStep /\ UNCHANGED <<reconciling, indexed>>
  <2>1. ASSUME NEW f \in Fingerprints, RecordEvent(f) PROVE CountInv'
    <3>1. delivered' = [delivered EXCEPT ![f] = delivered[f] + 1]
      BY <2>1 DEF RecordEvent
    <3>2. \A g \in Fingerprints : delivered'[g] \in Nat /\ delivered[g] <= delivered'[g]
      BY <3>1
    <3>3. \A g \in Fingerprints : records'[g] # NoRecord => records'[g].count <= delivered'[g]
      <4>1. CASE records[f] = NoRecord
        <5>1. records' = [records EXCEPT ![f] =
                  [count |-> 1, analysis |-> NoAnalysis, resolved |-> FALSE]]
          BY <2>1, <4>1 DEF RecordEvent
        <5> QED
          BY <3>1, <5>1 DEF CountInv, CountsBounded, Records
      <4>2. CASE records[f] # NoRecord
        <5>1. records' = [records EXCEPT ![f] = [records[f] EXCEPT !.count = @ + 1]]
          BY <2>1, <4>2 DEF RecordEvent
        <5>2. [records[f] EXCEPT !.count = @ + 1].count = records[f].count + 1
          BY <4>2 DEF Records
        <5> QED
          BY <3>1, <4>2, <5>1, <5>2 DEF CountInv, CountsBounded, Records
      <4> QED
        BY <4>1, <4>2
    <3>4. CountsBounded'
      BY <1>1, <2>1, <3>2, <3>3 DEF RecordEvent, CountInv, CountsBounded, CRs, Writes
    <3> QED
      BY <1>1, <2>1, <3>4 DEF RecordEvent, CountInv, NamesAreOwn
  <2>2. ASSUME NEW f \in Fingerprints, NEW s \in Sources, UpdateSeverityAndAnalysis(f, s)
        PROVE  CountInv'
    <3>1. \A g \in Fingerprints : records'[g] # NoRecord =>
             records[g] # NoRecord /\ records'[g].count = records[g].count
      BY <2>2 DEF UpdateSeverityAndAnalysis, WorksOnRecords, Records
    <3> QED
      BY <1>1, <2>2, <3>1
      DEF UpdateSeverityAndAnalysis, CountInv, CountsBounded, NamesAreOwn
  <2>3. CASE Tick \/ SyncFails
    BY <1>1, <2>3 DEF Tick, SyncFails, CountInv, CountsBounded, NamesAreOwn
  <2>4. ASSUME NEW f \in Fingerprints, CreateOrPatch(f) PROVE CountInv'
    <3>1. \A n \in Names : crs'[n] = crs[n] \/ (crs[n] = NoCR /\ crs'[n] = NewCR)
      BY <2>4 DEF CreateOrPatch
    <3>2. NewCR.count = 0 /\ NewCR.fingerprint = NoFingerprint
      BY DEF NewCR
    <3>3. CountsBounded'
      BY <1>1, <2>4, <3>1, <3>2 DEF CreateOrPatch, CountInv, CountsBounded
    <3>4. NamesAreOwn'
      BY <1>1, <2>4, <3>1, <3>2 DEF CreateOrPatch, CountInv, NamesAreOwn
    <3> QED
      BY <3>3, <3>4 DEF CountInv
  <2>5. ASSUME NEW f \in Fingerprints, PrepareStatus(f) PROVE CountInv'
    <3>1. /\ writing'.fingerprint = f
          /\ writing'.target.fingerprint = f
          /\ writing'.target.count = records[f].count
          /\ records[f] # NoRecord
      BY <2>5, StatusOfFields DEF PrepareStatus, WorksOnRecords
    <3> QED
      BY <1>1, <2>5, <3>1 DEF PrepareStatus, CountInv, CountsBounded, NamesAreOwn
  <2>6. CASE PatchStatus
    <3> DEFINE n == NameOf[writing.fingerprint]
               patched == MergePatch(writing.base, writing.target, crs[n])
    <3>1. /\ writing \in Writes /\ n \in Names /\ crs[n] \in CRs
          /\ crs' = [crs EXCEPT ![n] = patched] /\ writing' = NoWrite
          /\ crs[n] # NoCR /\ UNCHANGED <<delivered, records, cached, reconciling>>
      BY <1>1, <2>6 DEF PatchStatus, Writes, ObjectsExist, WritesExist, TransitionsExist
    <3>2. /\ patched \in CRs
          /\ patched.count \in {writing.target.count, crs[n].count}
          /\ patched.fingerprint \in {writing.fingerprint, crs[n].fingerprint}
      BY <2>6, <3>1, MergePatchFields DEF PatchStatus, Writes, CountInv, NamesAreOwn
    <3>3. ASSUME NEW f \in Fingerprints, NameOf[f] = n
          PROVE  patched.count <= delivered[f]
      <4>1. f = writing.fingerprint
        BY <3>1, <3>3 DEF NamesDiffer, Writes
      <4> HIDE DEF patched
      <4> QED
        BY <2>6, <3>1, <3>2, <3>3, <4>1 DEF PatchStatus, CountInv, CountsBounded
    <3>4. patched.fingerprint # NoFingerprint => NameOf[patched.fingerprint] = n
      BY <3>1, <3>2 DEF CountInv, NamesAreOwn
    <3> HIDE DEF n, patched
    <3> QED
      BY <3>1, <3>2, <3>3, <3>4, CountsWritten
  <2>7. ASSUME NEW n \in Names, CacheCatchesUp(n) PROVE CountInv'
    BY <1>1, <2>7 DEF CacheCatchesUp, CountInv, CountsBounded, NamesAreOwn
  <2>8. CASE Reload
    <3>1. \A f \in Fingerprints : records'[f] # NoRecord =>
             cached[NameOf[f]] # NoCR /\ records'[f].count = cached[NameOf[f]].count
      BY <2>8, LoadedBounded DEF Reload
    <3> QED
      BY <1>1, <2>8, <3>1 DEF Reload, CountInv, CountsBounded, NamesAreOwn
  <2> QED
    BY <1>1, <2>1, <2>2, <2>3, <2>4, <2>5, <2>6, <2>7, <2>8 DEF StoreStep
<1>2. CASE Crash /\ reconciling' = NoWrite /\ UNCHANGED indexed
  <2>1. \A f \in Fingerprints : records'[f] # NoRecord =>
           crs[NameOf[f]] # NoCR /\ records'[f].count = crs[NameOf[f]].count
    BY <1>2, LoadedBounded DEF Crash
  <2> QED
    BY <1>2, <2>1 DEF Crash, CountInv, CountsBounded, NamesAreOwn
<1>3. ASSUME NEW n \in Names, Reconcile(n) PROVE CountInv'
  <2> DEFINE cr == cached[n]
             target == [cr EXCEPT !.phase = NextPhase(cr)]
  <2>1. cr \in CRs
    BY <1>3 DEF Reconcile
  <2>2. target.count = cr.count /\ target.fingerprint = cr.fingerprint
    BY <2>1 DEF CRs
  <2>3. \/ reconciling' = NoWrite
        \/ reconciling' = [name |-> n, base |-> cr, target |-> target]
    BY <1>3 DEF Reconcile
  <2> HIDE DEF cr, target
  <2> QED
    BY <1>3, <2>2, <2>3 DEF Reconcile, CountInv, CountsBounded, NamesAreOwn
<1>4. CASE TransitionPhase
  <2> DEFINE n == reconciling.name
             patched == MergePatch(reconciling.base, reconciling.target, crs[n])
  <2>1. /\ reconciling \in Transitions /\ n \in Names /\ crs[n] \in CRs
        /\ crs' = [crs EXCEPT ![n] = patched] /\ reconciling' = NoWrite
        /\ crs[n] # NoCR /\ UNCHANGED <<delivered, records, cached, writing>>
    BY <1>4 DEF TransitionPhase, Transitions, ObjectsExist, WritesExist, TransitionsExist
  <2>2. /\ patched \in CRs
        /\ patched.count = crs[n].count
        /\ patched.fingerprint = crs[n].fingerprint
    BY <1>4, <2>1, MergePatchFields
    DEF TransitionPhase, Transitions, CountInv, CountsBounded, NamesAreOwn
  <2>3. /\ \A f \in Fingerprints : NameOf[f] = n => patched.count <= delivered[f]
        /\ patched.fingerprint # NoFingerprint => NameOf[patched.fingerprint] = n
    BY <2>1, <2>2 DEF CountInv, CountsBounded, NamesAreOwn
  <2> HIDE DEF n, patched
  <2> QED
    BY <2>1, <2>2, <2>3, CountsWritten
<1>5. CASE TransitionFails
  BY <1>5 DEF TransitionFails, CountInv, CountsBounded, NamesAreOwn
<1>6. ASSUME NEW n \in Names, Resolve(n) \/ DayPasses(n) \/ Notify(n)
      PROVE  CountInv'
  <2>1. PICK cr \in CRs :
            /\ Edit(n, cr)
            /\ cr.fingerprint = crs[n].fingerprint /\ cr.count = crs[n].count
    BY <1>6, EditOfFields
  <2>2. crs[n] # NoCR
    BY <1>6 DEF Resolve, DayPasses, Notify
  <2>3. /\ \A f \in Fingerprints : NameOf[f] = n => cr.count <= delivered[f]
        /\ cr.fingerprint # NoFingerprint => NameOf[cr.fingerprint] = n
    BY <2>1, <2>2 DEF CountInv, CountsBounded, NamesAreOwn
  <2> QED
    BY <2>1, <2>2, <2>3, CountsWritten DEF Edit
<1>7. CASE UNCHANGED vars
  BY <1>7 DEF vars, CountInv, CountsBounded, NamesAreOwn
<1> QED
  BY <1>1, <1>2, <1>3, <1>4, <1>5, <1>6, <1>7 DEF Next

(***************************************************************************)
(* As long as no two fingerprints share a name, no Incident ever counts    *)
(* more than was delivered to RecordEvent: not after reloads from a stale  *)
(* cache, not after restarts, not when patches fail, are repeated or       *)
(* arrive late.  A replayed line is a delivery like any other.             *)
(***************************************************************************)
THEOREM NothingUndeliveredCounted ==
    ASSUME NamesDiffer
    PROVE  Spec => []CountsOnlyDeliveries
<1>1. Init => CountInv
  BY DEF Init, StoreInit, CountInv, CountsBounded, NamesAreOwn
<1>2. Typed /\ CountInv => CountsOnlyDeliveries
  BY DEF Typed, TypeOK, StoreTypeOK, CountInv, CountsBounded, NamesAreOwn,
         CountsOnlyDeliveries, CRs
<1>3. Typed /\ CountInv /\ [Next]_vars => CountInv'
  BY StepCounts
<1> QED
  BY <1>1, <1>2, <1>3, InitTyped, StepTyped, PTL DEF Spec

-----------------------------------------------------------------------------
(* PersistedIsKept. *)

(***************************************************************************)
(* What makes it inductive, as long as no reload has loaded a cache that   *)
(* lags: the copies of one incident form a chain, in which counts do not   *)
(* fall and analyses do not disappear.  The cache is behind the object,    *)
(* the object behind the patch under way, and all of them behind the       *)
(* record; a record that does not exist has an object that says nothing.   *)
(***************************************************************************)
AtMost(a, b) ==
    /\ a.count <= b.count
    /\ a.analysis # NoAnalysis => b.analysis # NoAnalysis

(* An object that has just been created, or that has been synced for f. *)
NamedFor(f, cr) ==
    /\ ~cr.resolved
    /\ \/ cr.fingerprint = f
       \/ cr.fingerprint = NoFingerprint /\ cr.count = 0 /\ cr.analysis = NoAnalysis

Earlier(old, cr) ==
    /\ AtMost(old, cr)
    /\ old.fingerprint # NoFingerprint => cr.fingerprint # NoFingerprint

ObjectBehind(f, n) ==
    /\ crs[n] # NoCR =>
          /\ NamedFor(f, crs[n])
          /\ records[f] = NoRecord => crs[n].fingerprint = NoFingerprint
          /\ records[f] # NoRecord => AtMost(crs[n], records[f])
    /\ cached[n] # NoCR => NamedFor(f, cached[n]) /\ Earlier(cached[n], crs[n])

RecordOpen(f) == records[f] # NoRecord => ~records[f].resolved

PatchAdvances(w, f, n) ==
    /\ w.base.resolved = w.target.resolved
    /\ w.target.fingerprint = f
    /\ Earlier(w.base, crs[n])
    /\ AtMost(crs[n], w.target)
    /\ records[f] # NoRecord
    /\ AtMost(w.target, records[f])

KeptInv ==
    /\ \A f \in Fingerprints : ObjectBehind(f, NameOf[f]) /\ RecordOpen(f)
    /\ writing # NoWrite =>
          PatchAdvances(writing, writing.fingerprint, NameOf[writing.fingerprint])

(* What a step does to one object. *)
Keeps(old, cr) ==
    old # NoCR =>
       /\ cr.count >= old.count
       /\ old.analysis # NoAnalysis => cr.analysis # NoAnalysis

(* A patch that advances leaves an object that is ahead of the old one. *)
LEMMA PatchedAhead ==
    ASSUME StoreTyped, KeptInv, PatchStatus,
           NEW f, f = writing.fingerprint,
           NEW n, n = NameOf[f]
    PROVE  LET patched == MergePatch(writing.base, writing.target, crs[n]) IN
           /\ f \in Fingerprints /\ n \in Names /\ crs[n] # NoCR
           /\ patched \in CRs
           /\ Earlier(crs[n], patched)
           /\ NamedFor(f, patched) /\ patched.fingerprint = f
           /\ AtMost(patched, records[f])
<1> DEFINE patched == MergePatch(writing.base, writing.target, crs[n])
<1>1. /\ writing \in Writes /\ f \in Fingerprints /\ n \in Names
      /\ writing.base \in CRs /\ writing.target \in CRs
      /\ crs[n] \in CRs /\ crs[n] # NoCR
  BY DEF StoreTyped, StoreTypeOK, PatchStatus, Writes, WritesExist
<1>2. /\ PatchAdvances(writing, f, n) /\ ObjectBehind(f, n)
      /\ records[f] \in Records
  BY <1>1 DEF KeptInv, PatchStatus, PatchAdvances, StoreTyped, StoreTypeOK
<1>3. NamedFor(f, crs[n])
  BY <1>1, <1>2 DEF ObjectBehind
<1>4. /\ writing.base.count \in Nat /\ writing.target.count \in Nat
      /\ crs[n].count \in Nat /\ records[f].count \in Nat
  BY <1>1, <1>2 DEF CRs, Records
<1>5. /\ patched \in CRs
      /\ patched.count = writing.target.count
      /\ patched.resolved = crs[n].resolved
      /\ patched.analysis \in {writing.target.analysis, crs[n].analysis}
      /\ crs[n].analysis # NoAnalysis => patched.analysis # NoAnalysis
      /\ patched.fingerprint = f
  <2> HIDE DEF patched
  <2>1. /\ patched \in CRs
        /\ patched.count = IF writing.target.count # writing.base.count
                           THEN writing.target.count ELSE crs[n].count
        /\ patched.fingerprint = IF writing.target.fingerprint # writing.base.fingerprint
                                 THEN writing.target.fingerprint ELSE crs[n].fingerprint
        /\ patched.analysis = IF writing.target.analysis # writing.base.analysis
                              THEN writing.target.analysis ELSE crs[n].analysis
        /\ patched.resolved = IF writing.target.resolved # writing.base.resolved
                              THEN writing.target.resolved ELSE crs[n].resolved
    BY <1>1, MergePatchFields DEF patched
  <2>2. patched.count = writing.target.count
    BY <2>1, <1>2, <1>4 DEF PatchAdvances, Earlier, AtMost
  <2>3. patched.resolved = crs[n].resolved
    BY <2>1, <1>2 DEF PatchAdvances
  <2>4. /\ patched.analysis \in {writing.target.analysis, crs[n].analysis}
        /\ crs[n].analysis # NoAnalysis => patched.analysis # NoAnalysis
    BY <2>1, <1>2 DEF PatchAdvances, AtMost
  <2>5. patched.fingerprint = f
    BY <2>1, <1>1, <1>2, <1>3, NoneAssumption DEF PatchAdvances, Earlier, NamedFor
  <2> QED
    BY <2>1, <2>2, <2>3, <2>4, <2>5
<1> HIDE DEF patched
<1>6. Earlier(crs[n], patched)
  BY <1>1, <1>2, <1>4, <1>5, NoneAssumption DEF PatchAdvances, Earlier, AtMost
<1>7. NamedFor(f, patched)
  BY <1>3, <1>5 DEF NamedFor
<1>8. AtMost(patched, records[f])
  BY <1>1, <1>2, <1>5 DEF PatchAdvances, ObjectBehind, AtMost
<1> QED
  BY <1>1, <1>5, <1>6, <1>7, <1>8 DEF patched

(* A step that leaves the objects and the patch alone, and no record behind. *)
LEMMA RecordsAhead ==
    ASSUME StoreTyped, KeptInv, UNCHANGED <<crs, cached, writing>>,
           \A f \in Fingerprints :
              /\ records[f] # NoRecord =>
                    records'[f] # NoRecord /\ AtMost(records[f], records'[f])
              /\ RecordOpen(f)',
           records' \in [Fingerprints -> Records \union {NoRecord}]
    PROVE  KeptInv' /\ \A n \in Names : Keeps(crs[n], crs'[n])
<1> USE DEF StoreTyped, StoreTypeOK
<1>1. ASSUME NEW f \in Fingerprints PROVE ObjectBehind(f, NameOf[f])'
  <2> DEFINE n == NameOf[f]
  <2>1. n \in Names /\ ObjectBehind(f, n)
    BY DEF KeptInv
  <2>2. CASE crs[n] = NoCR
    BY <2>1, <2>2 DEF ObjectBehind, WritesExist
  <2>3. CASE crs[n] # NoCR /\ records[f] # NoRecord
    <3>1. /\ crs[n].count \in Nat /\ records[f].count \in Nat /\ records'[f].count \in Nat
          /\ records'[f] # NoRecord /\ AtMost(records[f], records'[f])
      BY <2>1, <2>3 DEF CRs, Records
    <3>2. AtMost(crs[n], records'[f])
      BY <2>1, <2>3, <3>1 DEF ObjectBehind, AtMost
    <3> QED
      BY <2>1, <2>3, <3>1, <3>2 DEF ObjectBehind
  <2>4. CASE crs[n] # NoCR /\ records[f] = NoRecord
    <3>1. NamedFor(f, crs[n]) /\ crs[n].fingerprint = NoFingerprint
      BY <2>1, <2>4 DEF ObjectBehind
    <3>2. crs[n].count = 0 /\ crs[n].analysis = NoAnalysis
      BY <3>1, NoneAssumption DEF NamedFor
    <3>3. records'[f] # NoRecord => AtMost(crs[n], records'[f])
      BY <3>2 DEF AtMost, Records
    <3> QED
      BY <2>1, <2>4, <3>1, <3>3 DEF ObjectBehind
  <2> QED
    BY <2>2, <2>3, <2>4
<1>2. ASSUME writing # NoWrite
      PROVE  PatchAdvances(writing, writing.fingerprint, NameOf[writing.fingerprint])'
  <2> DEFINE f == writing.fingerprint
             n == NameOf[f]
  <2>1. f \in Fingerprints /\ writing.target \in CRs /\ PatchAdvances(writing, f, n)
    BY <1>2 DEF KeptInv, Writes
  <2>2. /\ writing.target.count \in Nat
        /\ records[f].count \in Nat /\ records'[f].count \in Nat
        /\ records'[f] # NoRecord /\ AtMost(records[f], records'[f])
    BY <2>1 DEF CRs, Records, PatchAdvances
  <2>3. AtMost(writing.target, records'[f])
    BY <2>1, <2>2 DEF PatchAdvances, AtMost
  <2> HIDE DEF f, n
  <2>4. PatchAdvances(writing, f, n)'
    BY <2>1, <2>2, <2>3 DEF PatchAdvances, f, n
  <2> QED
    BY <2>4 DEF f, n
<1>3. KeptInv'
  BY <1>1, <1>2 DEF KeptInv
<1>4. \A n \in Names : Keeps(crs[n], crs'[n])
  BY DEF Keeps, CRs
<1> QED
  BY <1>3, <1>4

(* A step that moves one object ahead, and leaves at most an older patch. *)
LEMMA ObjectWritten ==
    ASSUME NamesDiffer, StoreTyped, KeptInv,
           NEW f \in Fingerprints, NEW cr \in CRs,
           crs' = [crs EXCEPT ![NameOf[f]] = cr],
           UNCHANGED <<records, cached>>, writing' = NoWrite,
           NamedFor(f, cr),
           records[f] = NoRecord => cr.fingerprint = NoFingerprint,
           records[f] # NoRecord => AtMost(cr, records[f]),
           crs[NameOf[f]] # NoCR => Earlier(crs[NameOf[f]], cr)
    PROVE  KeptInv' /\ \A n \in Names : Keeps(crs[n], crs'[n])
<1> USE DEF StoreTyped, StoreTypeOK
<1>1. \A m \in Names : crs'[m] = IF m = NameOf[f] THEN cr ELSE crs[m]
  OBVIOUS
<1>2. ASSUME NEW g \in Fingerprints PROVE ObjectBehind(g, NameOf[g])' /\ RecordOpen(g)'
  <2>1. ObjectBehind(g, NameOf[g]) /\ RecordOpen(g)
    BY DEF KeptInv
  <2>2. RecordOpen(g)'
    BY <2>1 DEF RecordOpen
  <2>3. CASE g # f
    <3>1. crs'[NameOf[g]] = crs[NameOf[g]]
      BY <1>1, <2>3 DEF NamesDiffer
    <3> QED
      BY <2>1, <2>2, <3>1 DEF ObjectBehind
  <2>4. CASE g = f
    <3> DEFINE n == NameOf[f]
    <3>1. n \in Names /\ crs'[n] = cr /\ cr # NoCR
      BY <1>1
    <3>2. ASSUME cached[n] # NoCR PROVE Earlier(cached[n], cr)
      <4>1. Earlier(cached[n], crs[n]) /\ crs[n] # NoCR
        BY <2>1, <2>4, <3>1, <3>2 DEF ObjectBehind, WritesExist
      <4>2. /\ cached[n].count \in Nat /\ crs[n].count \in Nat /\ cr.count \in Nat
            /\ Earlier(crs[n], cr)
        BY <3>1, <3>2, <4>1 DEF CRs
      <4> QED
        BY <4>1, <4>2 DEF Earlier, AtMost
    <3> HIDE DEF n
    <3>3. ObjectBehind(f, n)'
      BY <2>1, <2>4, <3>1, <3>2 DEF ObjectBehind, n
    <3> QED
      BY <2>2, <2>4, <3>3 DEF n
  <2> QED
    BY <2>3, <2>4
<1>3. \A n \in Names : Keeps(crs[n], crs'[n])
  BY <1>1 DEF Keeps, Earlier, AtMost, CRs
<1> QED
  BY <1>2, <1>3 DEF KeptInv

LEMMA StepKept ==
    ASSUME NamesDiffer, StoreTyped, KeptInv, [StoreNext]_incidentVars, reloads' = 0
    PROVE  KeptInv' /\ \A n \in Names : Keeps(crs[n], crs'[n])
<1> DEFINE Goal == KeptInv' /\ \A n \in Names : Keeps(crs[n], crs'[n])
<1> USE DEF storeVars, syncVars, apiVars, boundVars
<1>0. ASSUME UNCHANGED <<crs, cached, writing, records>> PROVE Goal
  <2>1. \A f \in Fingerprints :
           /\ records[f] # NoRecord => AtMost(records[f], records'[f])
           /\ RecordOpen(f)'
    BY <1>0 DEF KeptInv, RecordOpen, AtMost, StoreTyped, StoreTypeOK, Records
  <2> QED
    BY <1>0, <2>1, RecordsAhead DEF StoreTyped, StoreTypeOK
<1>1. ASSUME NEW f \in Fingerprints, RecordEvent(f) PROVE Goal
  <2>1. records' \in [Fingerprints -> Records \union {NoRecord}]
    BY <1>1, StoreNextTyped DEF StoreTyped, StoreTypeOK
  <2>2. \A g \in Fingerprints : g # f => records'[g] = records[g]
    BY <1>1 DEF RecordEvent, StoreTyped, StoreTypeOK
  <2>3. CASE records[f] = NoRecord
    <3>1. records'[f].resolved = FALSE
      BY <1>1, <2>3 DEF RecordEvent, StoreTyped, StoreTypeOK
    <3>2. \A g \in Fingerprints :
             /\ records[g] # NoRecord => AtMost(records[g], records'[g])
             /\ RecordOpen(g)'
      BY <2>2, <2>3, <3>1
      DEF KeptInv, RecordOpen, AtMost, StoreTyped, StoreTypeOK, Records
    <3> QED
      BY <1>1, <2>1, <2>2, <2>3, <3>2, RecordsAhead DEF RecordEvent
  <2>4. CASE records[f] # NoRecord
    <3>1. records[f] \in Records /\ records[f].count \in Nat
      BY <2>4 DEF StoreTyped, StoreTypeOK, Records
    <3>2. records'[f] = [records[f] EXCEPT !.count = @ + 1]
      BY <1>1, <2>4 DEF RecordEvent, StoreTyped, StoreTypeOK
    <3>3. /\ records'[f].count = records[f].count + 1
          /\ records'[f].analysis = records[f].analysis
          /\ records'[f].resolved = records[f].resolved
          /\ records'[f] # NoRecord
      BY <3>1, <3>2, <2>1 DEF Records
    <3>4. \A g \in Fingerprints :
             /\ records[g] # NoRecord => records'[g] # NoRecord /\ AtMost(records[g], records'[g])
             /\ RecordOpen(g)'
      BY <2>2, <2>4, <3>1, <3>3
      DEF KeptInv, RecordOpen, AtMost, StoreTyped, StoreTypeOK, Records
    <3> QED
      BY <1>1, <2>1, <3>4, RecordsAhead DEF RecordEvent
  <2> QED
    BY <2>3, <2>4
<1>2. ASSUME NEW f \in Fingerprints, NEW source \in Sources,
             UpdateSeverityAndAnalysis(f, source)
      PROVE  Goal
  <2>1. records' \in [Fingerprints -> Records \union {NoRecord}]
    BY <1>2, StoreNextTyped DEF StoreTyped, StoreTypeOK
  <2>2. /\ records[f] \in Records /\ records[f] # NoRecord
        /\ records' = [records EXCEPT ![f] = [records[f] EXCEPT !.analysis = source]]
    BY <1>2 DEF UpdateSeverityAndAnalysis, StoreTyped, StoreTypeOK, WorksOnRecords
  <2>3. /\ \A g \in Fingerprints : g # f => records'[g] = records[g]
        /\ records'[f] = [records[f] EXCEPT !.analysis = source]
    BY <2>2 DEF StoreTyped, StoreTypeOK
  <2>4. /\ records'[f].count = records[f].count
        /\ records'[f].analysis = source
        /\ records'[f].resolved = records[f].resolved
        /\ records'[f] # NoRecord
    BY <2>1, <2>2, <2>3 DEF Records
  <2>5. \A g \in Fingerprints :
           /\ records[g] # NoRecord => records'[g] # NoRecord /\ AtMost(records[g], records'[g])
           /\ RecordOpen(g)'
    BY <2>2, <2>3, <2>4
    DEF KeptInv, RecordOpen, AtMost, StoreTyped, StoreTypeOK, Records
  <2> QED
    BY <1>2, <2>1, <2>5, RecordsAhead DEF UpdateSeverityAndAnalysis
<1>3. CASE Tick
  BY <1>0, <1>3 DEF Tick
<1>4. ASSUME NEW f \in Fingerprints, CreateOrPatch(f) PROVE Goal
  <2>1. CASE UNCHANGED crs
    BY <1>0, <1>4, <2>1 DEF CreateOrPatch
  <2>2. CASE crs[NameOf[f]] = NoCR /\ crs' = [crs EXCEPT ![NameOf[f]] = NewCR]
    <3>1. /\ NamedFor(f, NewCR) /\ NewCR.fingerprint = NoFingerprint
          /\ records[f] # NoRecord => AtMost(NewCR, records[f])
      BY DEF NewCR, NamedFor, AtMost, StoreTyped, StoreTypeOK, Records
    <3> QED
      BY <1>4, <2>2, <3>1, NewCRType, ObjectWritten DEF CreateOrPatch
  <2> QED
    BY <1>4, <2>1, <2>2 DEF CreateOrPatch
<1>5. ASSUME NEW f \in Fingerprints, PrepareStatus(f) PROVE Goal
  <2> DEFINE n == NameOf[f]
             base == cached[n]
  <2>1. /\ records[f] # NoRecord /\ n \in Names /\ base \in CRs /\ base # NoCR
        /\ crs[n] # NoCR
        /\ writing' = [fingerprint |-> f, base |-> base, target |-> StatusOf(f, base)]
        /\ UNCHANGED <<records, crs, cached>>
    BY <1>5 DEF PrepareStatus, StoreTyped, StoreTypeOK, WorksOnRecords, WritesExist
  <2>2. /\ NamedFor(f, base) /\ Earlier(base, crs[n]) /\ AtMost(crs[n], records[f])
        /\ ~records[f].resolved
    BY <2>1 DEF KeptInv, ObjectBehind, RecordOpen
  <2>3. /\ StatusOf(f, base).fingerprint = f
        /\ StatusOf(f, base).count = records[f].count
        /\ StatusOf(f, base).analysis = records[f].analysis
        /\ StatusOf(f, base).resolved = records[f].resolved
    BY <2>1, StatusOfFields DEF StoreTyped
  <2>4. base.resolved = StatusOf(f, base).resolved
    BY <2>1, <2>2, <2>3 DEF NamedFor, CRs, StoreTyped, StoreTypeOK, Records
  <2>5. AtMost(crs[n], StatusOf(f, base)) /\ AtMost(StatusOf(f, base), records[f])
    BY <2>1, <2>2, <2>3 DEF AtMost, StoreTyped, StoreTypeOK, Records
  <2>6. PatchAdvances(writing, f, n)'
    <3>1. writing'.base = base /\ writing'.target = StatusOf(f, base)
      BY <2>1
    <3> QED
      BY <2>1, <2>2, <2>3, <2>4, <2>5, <3>1 DEF PatchAdvances, Earlier, AtMost
  <2>7. \A g \in Fingerprints : ObjectBehind(g, NameOf[g])' /\ RecordOpen(g)'
    BY <2>1 DEF KeptInv, ObjectBehind, RecordOpen
  <2>8. writing'.fingerprint = f
    BY <2>1
  <2>9. \A m \in Names : Keeps(crs[m], crs'[m])
    BY <2>1 DEF Keeps, StoreTyped, StoreTypeOK, CRs
  <2> QED
    BY <2>6, <2>7, <2>8, <2>9 DEF KeptInv
<1>6. CASE PatchStatus
  <2> DEFINE f == writing.fingerprint
             n == NameOf[f]
             patched == MergePatch(writing.base, writing.target, crs[n])
  <2>1. /\ f \in Fingerprints /\ n \in Names /\ crs[n] # NoCR
        /\ patched \in CRs /\ Earlier(crs[n], patched)
        /\ NamedFor(f, patched)
        /\ AtMost(patched, records[f])
    BY <1>6, PatchedAhead
  <2>2. records[f] # NoRecord
    BY <1>6 DEF PatchStatus, KeptInv, PatchAdvances
  <2>3. /\ crs' = [crs EXCEPT ![n] = patched] /\ writing' = NoWrite
        /\ UNCHANGED <<records, cached>>
    BY <1>6 DEF PatchStatus
  <2> HIDE DEF f, patched
  <2> QED
    BY <2>1, <2>2, <2>3, ObjectWritten
<1>7. CASE SyncFails
  <2>1. CASE UNCHANGED writing
    BY <1>0, <1>7, <2>1 DEF SyncFails
  <2>2. CASE writing' = NoWrite
    <3>1. UNCHANGED <<records, crs, cached>>
      BY <1>7 DEF SyncFails
    <3>2. \A m \in Names : Keeps(crs[m], crs'[m])
      BY <3>1 DEF Keeps, StoreTyped, StoreTypeOK, CRs
    <3> QED
      BY <2>2, <3>1, <3>2 DEF KeptInv, ObjectBehind, RecordOpen
  <2> QED
    BY <1>7, <2>1, <2>2 DEF SyncFails
<1>8. ASSUME NEW n \in Names, CacheCatchesUp(n) PROVE Goal
  <2>1. /\ UNCHANGED <<records, crs, writing>>
        /\ \A m \in Names : cached'[m] = IF m = n THEN crs[m] ELSE cached[m]
    BY <1>8 DEF CacheCatchesUp, StoreTyped, StoreTypeOK
  <2>2. \A m \in Names : Keeps(crs[m], crs'[m])
    BY <2>1 DEF Keeps, StoreTyped, StoreTypeOK, CRs
  <2>3. ASSUME NEW f \in Fingerprints PROVE ObjectBehind(f, NameOf[f])' /\ RecordOpen(f)'
    <3>1. crs[NameOf[f]] # NoCR => Earlier(crs[NameOf[f]], crs[NameOf[f]])
      BY DEF Earlier, AtMost, StoreTyped, StoreTypeOK, CRs
    <3> QED
      BY <2>1, <3>1 DEF KeptInv, ObjectBehind, RecordOpen
  <2>4. KeptInv'
    BY <2>1, <2>3 DEF KeptInv, PatchAdvances
  <2> QED
    BY <2>2, <2>4
<1>9. CASE Reload
  BY <1>9 DEF Reload, StoreTyped, StoreTypeOK
<1>10. CASE Crash
  <2>1. /\ UNCHANGED crs /\ cached' = crs /\ writing' = NoWrite /\ records' = Loaded(crs)
    BY <1>10 DEF Crash
  <2>2. ASSUME NEW f \in Fingerprints PROVE ObjectBehind(f, NameOf[f])' /\ RecordOpen(f)'
    <3> DEFINE cr == crs[NameOf[f]]
    <3>1. records'[f] = IF cr # NoCR /\ ~cr.resolved /\ cr.fingerprint = f
                       THEN [count |-> cr.count, analysis |-> cr.analysis,
                             resolved |-> cr.resolved]
                       ELSE NoRecord
      BY <2>1 DEF Loaded
    <3>2. cr # NoCR => cr \in CRs /\ NamedFor(f, cr)
      BY DEF KeptInv, ObjectBehind, StoreTyped, StoreTypeOK
    <3>3. cr # NoCR => AtMost(cr, cr) /\ Earlier(cr, cr)
      BY <3>2 DEF AtMost, Earlier, CRs
    <3>4. RecordOpen(f)'
      BY <3>1 DEF RecordOpen
    <3>5. ASSUME cr # NoCR, cr.fingerprint = f
          PROVE  /\ records'[f].count = cr.count
                 /\ records'[f].analysis = cr.analysis
                 /\ records'[f] # NoRecord
      <4>1. [count |-> cr.count, analysis |-> cr.analysis, resolved |-> cr.resolved] \in Records
        BY <3>2, <3>5 DEF CRs, Records
      <4> QED
        BY <3>1, <3>2, <3>5, <4>1, NoneAssumption DEF NamedFor
    <3>6. ASSUME cr # NoCR
          PROVE  /\ records'[f] = NoRecord => cr.fingerprint = NoFingerprint
                 /\ records'[f] # NoRecord => AtMost(cr, records'[f])
      BY <3>1, <3>2, <3>3, <3>5, <3>6 DEF NamedFor, AtMost
    <3>7. ObjectBehind(f, NameOf[f])'
      BY <2>1, <3>2, <3>3, <3>6 DEF ObjectBehind
    <3> QED
      BY <3>4, <3>7
  <2>3. \A m \in Names : Keeps(crs[m], crs'[m])
    BY <2>1 DEF Keeps, StoreTyped, StoreTypeOK, CRs
  <2> QED
    BY <2>1, <2>2, <2>3 DEF KeptInv
<1>11. CASE UNCHANGED incidentVars
  BY <1>0, <1>11 DEF incidentVars
<1> QED
  BY <1>1, <1>2, <1>3, <1>4, <1>5, <1>6, <1>7, <1>8, <1>9, <1>10, <1>11
  DEF StoreNext, StoreStep

(***************************************************************************)
(* As long as no two fingerprints share a name: no restart, no failed or   *)
(* repeated sync and no lagging read takes back a count or an analysis     *)
(* that was persisted.                                                     *)
(***************************************************************************)
THEOREM PersistedKept ==
    ASSUME NamesDiffer
    PROVE  StoreSpec => PersistedIsKept
<1> DEFINE Inv == StoreTyped /\ (reloads = 0 => KeptInv)
           Step == reloads' = 0 =>
              \A n \in Names : crs[n] # NoCR =>
                 /\ crs'[n].count >= crs[n].count
                 /\ crs[n].analysis # NoAnalysis => crs'[n].analysis # NoAnalysis
<1>1. StoreInit => Inv
  BY InitStoreTyped
  DEF StoreInit, KeptInv, ObjectBehind, RecordOpen
<1>2. StoreTyped /\ [StoreNext]_incidentVars /\ reloads' = 0 => reloads = 0
  BY DEF StoreTyped, StoreTypeOK, StoreNext, StoreStep, incidentVars, boundVars,
         RecordEvent, UpdateSeverityAndAnalysis, Tick, CreateOrPatch, PrepareStatus,
         PatchStatus, SyncFails, CacheCatchesUp, Reload, Crash
<1>3. Inv /\ [StoreNext]_incidentVars => Inv'
  BY <1>2, StoreNextTyped, StepKept
<1>4. Inv /\ [StoreNext]_incidentVars => Step
  BY <1>2, StepKept DEF Keeps
<1> HIDE DEF Inv, Step
<1>5. StoreSpec => [][Step]_incidentVars
  BY <1>1, <1>3, <1>4, PTL DEF StoreSpec
<1> QED
  BY <1>5 DEF PersistedIsKept, Step

=============================================================================
