------------------------- MODULE IncidentLifecycle -------------------------
(***************************************************************************)
(* The Incident objects with all who write them: the store's periodic sync *)
(* (IncidentStore), the IncidentReconciler of internal/controller,         *)
(* incident_controller.go, and the people and tools outside that resolve   *)
(* incidents and report notifications sent.                                *)
(*                                                                         *)
(* The reconciler has one worker: it reads an Incident from the cache,     *)
(* decides, and patches the phase.  Its conditions and log lines are left  *)
(* out, and so are its requeue delays: it comes back, that is all.         *)
(***************************************************************************)
EXTENDS IncidentStore

VARIABLES
    reconciling,  \* the phase patch under way, if any
    indexed       \* incidents handed to the knowledge base

vars == <<delivered, records, analysing, pending, ensured, writing,
          crs, cached, reloads, crashes, reconciling, indexed>>

Transitions == [name : Names, base : CRs, target : CRs]

ASSUME NoTransitionAssumption == NoWrite \notin Transitions

TypeOK ==
    /\ StoreTypeOK
    /\ reconciling \in Transitions \union {NoWrite}
    /\ indexed \in SUBSET Names

Init ==
    /\ StoreInit
    /\ reconciling = NoWrite
    /\ indexed = {}

-----------------------------------------------------------------------------
(* Slip: only what the store has called resolved is archived. *)
ToArchiveByPhase(cr) == cr.resolved /\ cr.phase = "Resolved"

(* Resolved and not archived: Reconcile archives it or returns early. *)
ToArchive(cr) == cr.resolved /\ cr.phase # "Archived"

(* Slip: an analysed incident counts as notified. *)
NextPhaseEager(cr) ==
    CASE ToArchive(cr) -> IF cr.resolvedAt = "dayOld" THEN "Archived" ELSE cr.phase
      [] ~ToArchive(cr) /\ cr.phase = "Detecting" /\ cr.analysis # NoAnalysis -> "Analyzing"
      [] ~ToArchive(cr) /\ cr.phase = "Analyzing" -> "Notified"
      [] OTHER -> cr.phase

(* Slip: a phase the schema does not know. *)
NextPhaseMisspelt(cr) ==
    CASE ToArchive(cr) -> IF cr.resolvedAt = "dayOld" THEN "Archived" ELSE cr.phase
      [] ~ToArchive(cr) /\ cr.phase = "Detecting" /\ cr.analysis # NoAnalysis -> "Analysing"
      [] OTHER -> cr.phase

(* The phase Reconcile moves an incident to; its own when it does not. *)
NextPhase(cr) ==
    CASE ToArchive(cr) -> IF cr.resolvedAt = "dayOld" THEN "Archived" ELSE cr.phase
      [] ~ToArchive(cr) /\ cr.phase = "Detecting" /\ cr.analysis # NoAnalysis -> "Analyzing"
      [] ~ToArchive(cr) /\ cr.phase = "Analyzing" /\ cr.notified -> "Notified"
      [] OTHER -> cr.phase

(* The guard of the block that indexes a resolved incident. *)
Indexes(cr) ==
    /\ ~ToArchive(cr)
    /\ cr.resolved /\ cr.analysis # NoAnalysis /\ cr.phase = "Resolved"

Reconcile(n) ==
    LET cr == cached[n] IN
    /\ reconciling = NoWrite /\ cr # NoCR
    /\ indexed' = IF Indexes(cr) THEN indexed \union {n} ELSE indexed
    /\ reconciling' =
          IF NextPhase(cr) # cr.phase
          THEN [name |-> n, base |-> cr, target |-> [cr EXCEPT !.phase = NextPhase(cr)]]
          ELSE NoWrite
    /\ UNCHANGED incidentVars

(* The patch of transitionPhase reaches the API server. *)
TransitionPhase ==
    /\ reconciling # NoWrite
    /\ LET n == reconciling.name
           patched == MergePatch(reconciling.base, reconciling.target, crs[n])
       IN  Valid(patched) /\ crs' = [crs EXCEPT ![n] = patched]
    /\ reconciling' = NoWrite
    /\ UNCHANGED <<storeVars, syncVars, cached, boundVars, indexed>>

TransitionFails ==
    /\ reconciling # NoWrite
    /\ reconciling' = NoWrite
    /\ UNCHANGED <<incidentVars, indexed>>

-----------------------------------------------------------------------------
(* The world outside the operator. *)

Edit(n, cr) ==
    /\ crs' = [crs EXCEPT ![n] = cr]
    /\ UNCHANGED <<storeVars, syncVars, cached, boundVars, reconciling, indexed>>

(* Somebody resolves the incident. *)
Resolve(n) ==
    /\ crs[n] # NoCR /\ ~crs[n].resolved
    /\ Edit(n, [crs[n] EXCEPT !.resolved = TRUE, !.resolvedAt = "recent"])

(***************************************************************************)
(* 24 hours pass after that.  In a day everything under way has settled,   *)
(* and an incident the store still holds would have been synced, and so    *)
(* reopened, long ago.                                                     *)
(***************************************************************************)
DayPasses(n) ==
    /\ crs[n] # NoCR /\ crs[n].resolved /\ crs[n].resolvedAt = "recent"
    /\ cached[n] = crs[n] /\ ~InSync /\ reconciling = NoWrite
    /\ \A f \in Fingerprints : NameOf[f] = n => records[f] = NoRecord
    /\ Edit(n, [crs[n] EXCEPT !.resolvedAt = "dayOld"])

(* A notifier reports that it has done its work. *)
Notify(n) ==
    /\ crs[n] # NoCR /\ ~crs[n].notified
    /\ Edit(n, [crs[n] EXCEPT !.notified = TRUE])

Next ==
    \/ StoreStep /\ UNCHANGED <<reconciling, indexed>>
    \/ Crash /\ reconciling' = NoWrite /\ UNCHANGED indexed
    \/ \E n \in Names : Reconcile(n)
    \/ TransitionPhase
    \/ TransitionFails
    \/ \E n \in Names : Resolve(n) \/ DayPasses(n) \/ Notify(n)

Spec == Init /\ [][Next]_vars

(* The reconciler is requeued for ever, and its patches are not refused for ever. *)
Fairness ==
    /\ StoreFairness
    /\ WF_vars(TransitionFails)
    /\ SF_vars(TransitionPhase)
    /\ \A n \in Names : SF_vars(Reconcile(n))

FairSpec == Spec /\ Fairness

-----------------------------------------------------------------------------
(***************************************************************************)
(* Nothing is called notified that was not: the phase Notified is only     *)
(* ever written over a true notified flag, however stale the copy was that *)
(* the reconciler decided on.                                              *)
(***************************************************************************)
NotifiedWasSent ==
    \A n \in Names : crs[n] # NoCR /\ crs[n].phase = "Notified" => crs[n].notified

(***************************************************************************)
(* "Auto-archive incidents that have been resolved": an incident whose     *)
(* resolution is a day old and left alone ends up archived.                *)
(***************************************************************************)
ResolvedIsArchived ==
    \A n \in Names :
        <>[](crs[n] # NoCR /\ crs[n].resolved /\ crs[n].resolvedAt = "dayOld")
            => <>[](crs[n] # NoCR /\ crs[n].phase = "Archived")
=============================================================================
