------------------------------ MODULE Watcher ------------------------------
(***************************************************************************)
(* The stream registry of internal/logwatcher/watcher.go.                  *)
(*                                                                         *)
(* A Watcher keeps one map from (namespace, pod, container) keys to cancel *)
(* functions, under one mutex, and one goroutine per started stream.  Each *)
(* critical section of the mutex is one action; everything a goroutine     *)
(* does between two looks at its context, the API server or the mutex is   *)
(* one action too.  What the stream carries is the subject of LogStream.   *)
(*                                                                         *)
(* A goroutine identity is a slot: it may serve a new stream once it is    *)
(* idle again and no caller still holds its cancel function.               *)
(***************************************************************************)
EXTENDS Integers

CONSTANTS
    Keys,         \* the containers
    Routines,     \* slots for goroutines
    NoRoutine,    \* no entry in the map
    NoKey,        \* key of an idle slot
    MaxAttempt    \* the attempt counter saturates here

ASSUME NoRoutineAssumption == NoRoutine \notin Routines
ASSUME NoKeyAssumption == NoKey \notin Keys
ASSUME MaxAttemptAssumption == MaxAttempt \in Nat \ {0}

VARIABLES
    registry,   \* Watcher.watchers: key -> the goroutine whose cancel it holds
    pc,         \* where each goroutine is
    key,        \* the key it streams
    cancelled,  \* its child context is done
    attempt,    \* local variable of streamLoop
    delay,      \* the back-off it is waiting for, in seconds
    cancelling, \* goroutines whose cancel a StopWatchingPod has still to call
    pod,        \* what the API server knows of each container
    down        \* the parent context is done: the manager shuts down

goroutineVars == <<pc, key, cancelled, attempt, delay>>
vars == <<registry, pc, key, cancelled, attempt, delay, cancelling, pod, down>>

PCs == {"idle", "check", "backoff", "open", "scan", "probe", "exit"}

(***************************************************************************)
(* A container is running; waits for its first start or its next restart;  *)
(* has completed for good (restart policy, or the pod's phase); is on a    *)
(* node that does not report (phase Unknown); or its pod object is gone.   *)
(***************************************************************************)
PodStates == {"running", "waiting", "completed", "unknown", "gone"}

Live(r) == pc[r] # "idle"

BackoffBase == 1          \* in seconds
BackoffFactor == 2
BackoffMax == 30
OverflowAttempt == 35     \* 1e9 ns * 2^34 is the first that exceeds an int64
NegativeDelay == -1       \* amd64 turns it into the least int64

(***************************************************************************)
(* The delays backoffDuration may answer.  The conversion of a float64     *)
(* that does not fit is implementation-defined: arm64 saturates, amd64     *)
(* answers the least int64, and the image is built for both.  From which   *)
(* attempt on it does not fit is a constant here, worked out by hand.      *)
(***************************************************************************)
BackoffDuration(n) ==
    LET d == BackoffBase * BackoffFactor ^ (n - 1) IN
    IF n >= OverflowAttempt THEN {NegativeDelay, BackoffMax}
    ELSE {IF d > BackoffMax THEN BackoffMax ELSE d}

TypeOK ==
    /\ registry \in [Keys -> Routines \union {NoRoutine}]
    /\ pc \in [Routines -> PCs]
    /\ key \in [Routines -> Keys \union {NoKey}]
    /\ cancelled \in [Routines -> BOOLEAN]
    /\ attempt \in [Routines -> 0..MaxAttempt]
    /\ delay \in [Routines -> Int]
    /\ cancelling \in SUBSET Routines
    /\ pod \in [Keys -> PodStates]
    /\ down \in BOOLEAN

Init ==
    /\ registry = [k \in Keys |-> NoRoutine]
    /\ pc = [r \in Routines |-> "idle"]
    /\ key = [r \in Routines |-> NoKey]
    /\ cancelled = [r \in Routines |-> FALSE]
    /\ attempt = [r \in Routines |-> 0]
    /\ delay = [r \in Routines |-> 0]
    /\ cancelling = {}
    /\ pod \in [Keys -> PodStates]
    /\ down = FALSE

-----------------------------------------------------------------------------
(* The exported operations. *)

(* Slip: the duplicate check is forgotten. *)
StartWithoutCheck(k, r) ==
    /\ pc[r] = "idle" /\ r \notin cancelling
    /\ registry' = [registry EXCEPT ![k] = r]
    /\ pc' = [pc EXCEPT ![r] = "check"]
    /\ key' = [key EXCEPT ![r] = k]
    /\ cancelled' = [cancelled EXCEPT ![r] = down]
    /\ attempt' = [attempt EXCEPT ![r] = 0]
    /\ delay' = [delay EXCEPT ![r] = 0]
    /\ UNCHANGED <<cancelling, pod, down>>

(* Slip: the attempts are counted from before the first. *)
StartEarlyAttempt(k, r) ==
    /\ registry[k] = NoRoutine
    /\ pc[r] = "idle" /\ r \notin cancelling
    /\ registry' = [registry EXCEPT ![k] = r]
    /\ pc' = [pc EXCEPT ![r] = "check"]
    /\ key' = [key EXCEPT ![r] = k]
    /\ cancelled' = [cancelled EXCEPT ![r] = down]
    /\ attempt' = [attempt EXCEPT ![r] = -1]
    /\ delay' = [delay EXCEPT ![r] = 0]
    /\ UNCHANGED <<cancelling, pod, down>>

(***************************************************************************)
(* StartWatchingPod: a duplicate start changes nothing.  The child context *)
(* of a parent that is already done is born done.                          *)
(***************************************************************************)
StartWatchingPod(k, r) ==
    /\ registry[k] = NoRoutine
    /\ pc[r] = "idle" /\ r \notin cancelling
    /\ registry' = [registry EXCEPT ![k] = r]
    /\ pc' = [pc EXCEPT ![r] = "check"]
    /\ key' = [key EXCEPT ![r] = k]
    /\ cancelled' = [cancelled EXCEPT ![r] = down]
    /\ attempt' = [attempt EXCEPT ![r] = 0]
    /\ delay' = [delay EXCEPT ![r] = 0]
    /\ UNCHANGED <<cancelling, pod, down>>

(* The critical section of StopWatchingPod; the cancel comes after it. *)
StopWatchingPod(k) ==
    /\ registry[k] # NoRoutine
    /\ cancelling' = cancelling \union {registry[k]}
    /\ registry' = [registry EXCEPT ![k] = NoRoutine]
    /\ UNCHANGED <<goroutineVars, pod, down>>

(* The cancel() at its end. *)
Cancel(r) ==
    /\ r \in cancelling
    /\ cancelling' = cancelling \ {r}
    /\ cancelled' = [cancelled EXCEPT ![r] = Live(r)]
    /\ UNCHANGED <<registry, pc, key, attempt, delay, pod, down>>

(* StopAll cancels and unregisters within its critical section. *)
StopAll ==
    /\ \E k \in Keys : registry[k] # NoRoutine
    /\ cancelled' = [r \in Routines |->
                        cancelled[r] \/ \E k \in Keys : registry[k] = r]
    /\ registry' = [k \in Keys |-> NoRoutine]
    /\ UNCHANGED <<pc, key, attempt, delay, cancelling, pod, down>>

-----------------------------------------------------------------------------
(* The goroutine: streamLoop, with streamOnce unfolded into it. *)

(* Slip: the entry goes before the stream is done with. *)
ReturnAfterDelete(r) ==
    /\ registry' = [registry EXCEPT ![key[r]] = NoRoutine]
    /\ pc' = [pc EXCEPT ![r] = "exit"]
    /\ UNCHANGED <<key, cancelled, attempt, delay, cancelling, pod, down>>

(* Slip: a break that leaves the select, not the loop. *)
BreakOnly(r) ==
    /\ pc' = [pc EXCEPT ![r] = "check"]
    /\ UNCHANGED <<registry, key, cancelled, attempt, delay, cancelling, pod, down>>

(* A return of streamLoop: what is left to run is its deferred delete. *)
Return(r) ==
    /\ pc' = [pc EXCEPT ![r] = "exit"]
    /\ UNCHANGED <<registry, key, cancelled, attempt, delay, cancelling, pod, down>>

(* streamOnce answered (false, false): count the attempt and loop. *)
Retry(r) ==
    /\ pc' = [pc EXCEPT ![r] = "check"]
    /\ attempt' = [attempt EXCEPT ![r] = IF @ < MaxAttempt THEN @ + 1 ELSE @]
    /\ UNCHANGED <<registry, key, cancelled, delay, cancelling, pod, down>>

Goto(r, where) ==
    /\ pc' = [pc EXCEPT ![r] = where]
    /\ UNCHANGED <<registry, key, cancelled, attempt, delay, cancelling, pod, down>>

(* The top of the loop: leave, wait, or open the first stream. *)
CheckContext(r) ==
    /\ pc[r] = "check"
    /\ \/ cancelled[r] /\ Return(r)
       \/ ~cancelled[r] /\ attempt[r] = 0 /\ Goto(r, "open")
       \/ /\ ~cancelled[r] /\ attempt[r] > 0
          /\ \E d \in BackoffDuration(attempt[r]) : delay' = [delay EXCEPT ![r] = d]
          /\ pc' = [pc EXCEPT ![r] = "backoff"]
          /\ UNCHANGED <<registry, key, cancelled, attempt, cancelling, pod, down>>

(* The select of the back-off: either case may win when both are ready. *)
WakeUp(r) ==
    /\ pc[r] = "backoff"
    /\ \/ cancelled[r] /\ Return(r)
       \/ Goto(r, "open")

(* req.Stream answers an error; the pod need not be gone for that. *)
OpenFails(r) ==
    /\ pc[r] = "open"
    /\ IF cancelled[r] THEN Return(r) ELSE Retry(r)

OpenSucceeds(r) ==
    /\ pc[r] = "open"
    /\ ~cancelled[r] /\ pod[key[r]] # "gone"
    /\ Goto(r, "scan")

(* The scanner stops with an error: cancelled, cut off, or a line too long. *)
ScanError(r) ==
    /\ pc[r] = "scan"
    /\ IF cancelled[r] THEN Return(r) ELSE Retry(r)

(* The server closes the stream: ask whether there is more to come. *)
ScanEOF(r) ==
    /\ pc[r] = "scan" /\ ~cancelled[r]
    /\ Goto(r, "probe")

(* isPodStillRunning fails: NotFound is an error like any other. *)
ProbeFails(r) ==
    /\ pc[r] = "probe"
    /\ Retry(r)

(* Slip: every end of a stream is taken for a restart. *)
ProbeIgnored(r) ==
    /\ pc[r] = "probe" /\ pod[key[r]] # "gone"
    /\ Retry(r)

ProbeAnswers(r) ==
    /\ pc[r] = "probe" /\ pod[key[r]] # "gone"
    /\ IF pod[key[r]] \in {"completed", "unknown"} THEN Return(r) ELSE Retry(r)

(* Slip: no deferred delete. *)
ExitWithoutDelete(r) ==
    /\ pc[r] = "exit"
    /\ pc' = [pc EXCEPT ![r] = "idle"]
    /\ key' = [key EXCEPT ![r] = NoKey]
    /\ cancelled' = [cancelled EXCEPT ![r] = FALSE]
    /\ attempt' = [attempt EXCEPT ![r] = 0]
    /\ delay' = [delay EXCEPT ![r] = 0]
    /\ UNCHANGED <<registry, cancelling, pod, down>>

(* The deferred function: delete the entry of the key, whoever owns it. *)
Exit(r) ==
    /\ pc[r] = "exit"
    /\ registry' = [registry EXCEPT ![key[r]] = NoRoutine]
    /\ pc' = [pc EXCEPT ![r] = "idle"]
    /\ key' = [key EXCEPT ![r] = NoKey]
    /\ cancelled' = [cancelled EXCEPT ![r] = FALSE]
    /\ attempt' = [attempt EXCEPT ![r] = 0]
    /\ delay' = [delay EXCEPT ![r] = 0]
    /\ UNCHANGED <<cancelling, pod, down>>

-----------------------------------------------------------------------------
(* The surroundings. *)

PodSteps ==
    [running   |-> {"waiting", "completed", "unknown", "gone"},
     waiting   |-> {"running", "completed", "gone"},
     unknown   |-> {"running", "gone"},
     completed |-> {"gone"},
     gone      |-> {"waiting"}]

(* Containers start, crash, complete and vanish; a name can come back. *)
PodChanges(k) ==
    /\ \E s \in PodSteps[pod[k]] : pod' = [pod EXCEPT ![k] = s]
    /\ UNCHANGED <<registry, goroutineVars, cancelling, down>>

(* The manager's context ends, and every context derived from it. *)
Shutdown ==
    /\ ~down
    /\ down' = TRUE
    /\ cancelled' = [r \in Routines |-> Live(r)]
    /\ UNCHANGED <<registry, pc, key, attempt, delay, cancelling, pod>>

Stream(r) ==
    \/ CheckContext(r) \/ WakeUp(r)
    \/ OpenFails(r) \/ OpenSucceeds(r)
    \/ ScanError(r) \/ ScanEOF(r)
    \/ ProbeFails(r) \/ ProbeAnswers(r)
    \/ Exit(r)

(* What the operator does: it never calls StopWatchingPod or StopAll. *)
Next ==
    \/ \E k \in Keys, r \in Routines : StartWatchingPod(k, r)
    \/ \E r \in Routines : Stream(r)
    \/ \E k \in Keys : PodChanges(k)
    \/ Shutdown

(* What the exported interface allows its callers. *)
APINext ==
    \/ Next
    \/ \E k \in Keys : StopWatchingPod(k)
    \/ \E r \in Routines : Cancel(r)
    \/ StopAll

Spec == Init /\ [][Next]_vars
APISpec == Init /\ [][APINext]_vars

(* The stream of a container that runs may stay open for ever. *)
StreamEnds(r) ==
    /\ pc[r] = "scan"
    /\ cancelled[r] \/ pod[key[r]] # "running"
    /\ ScanError(r) \/ ScanEOF(r)

CompletedStreamEnds(r) ==
    /\ pc[r] = "scan" /\ pod[key[r]] = "completed"
    /\ ScanEOF(r)

(***************************************************************************)
(* Goroutines run; the stream of a container that no longer does ends, and *)
(* not always in an error; the API server does not refuse for ever a       *)
(* request that is repeated for ever; and the policy controller, requeued  *)
(* every two minutes, keeps starting the containers it sees running.      *)
(***************************************************************************)
Fairness ==
    /\ \A r \in Routines :
          /\ WF_vars(pc[r] # "scan" /\ Stream(r))
          /\ WF_vars(StreamEnds(r))
          /\ SF_vars(OpenSucceeds(r))
          /\ SF_vars(CompletedStreamEnds(r))
          /\ SF_vars(ProbeAnswers(r))
          /\ WF_vars(Cancel(r))
    /\ \A k \in Keys :
          WF_vars(pod[k] = "running" /\ \E r \in Routines : StartWatchingPod(k, r))

FairSpec == Spec /\ Fairness
FairAPISpec == APISpec /\ Fairness

-----------------------------------------------------------------------------
(***************************************************************************)
(* The refinement of OneStream: the goroutines that serve each container.  *)
(***************************************************************************)
Streams == [k \in Keys |-> {r \in Routines : key[r] = k}]
Abstract == INSTANCE OneStream WITH streams <- Streams

(***************************************************************************)
(* What a caller of the Watcher relies on: every start of a container that *)
(* is not streamed begins the one stream it has, and every exit ends that  *)
(* very stream (StartWatchingPod's no-op and streamLoop's deferred delete  *)
(* agree on who is watching).                                              *)
(***************************************************************************)
ImplementsOneStream == Abstract!Spec

(***************************************************************************)
(* At most one goroutine streams a container, and it is the registered     *)
(* one: no line is read twice at the same time, and StopAll can reach      *)
(* every stream.  Holds as long as nobody stops a single stream.           *)
(***************************************************************************)
OneStreamPerKey ==
    \A r \in Routines : Live(r) => /\ key[r] \in Keys
                                   /\ registry[key[r]] = r

(***************************************************************************)
(* A registered container is being streamed: the entry's goroutine runs    *)
(* and it runs for that container, so no duplicate start is swallowed in   *)
(* favour of a stream that no longer exists, whatever the order of stops,  *)
(* starts and deferred deletes.                                            *)
(***************************************************************************)
RegisteredIsStreaming ==
    \A k \in Keys : registry[k] # NoRoutine =>
        Live(registry[k]) /\ key[registry[k]] = k

(* A goroutine whose context is done gives up, wherever it was blocked. *)
CancelledStreamEnds ==
    \A r \in Routines : cancelled[r] ~> ~Live(r)

(***************************************************************************)
(* A container that keeps running ends up watched and stays watched, even  *)
(* when a goroutine read its previous incarnation's end and exits late.    *)
(***************************************************************************)
RunningIsWatched ==
    \A k \in Keys :
        <>[](pod[k] = "running" /\ ~down) =>
            <>[](registry[k] # NoRoutine /\ Live(registry[k]))

(* A container that has completed for good is let go of again and again. *)
CompletedIsReleased ==
    \A k \in Keys :
        <>[](pod[k] = "completed") => []<>(registry[k] = NoRoutine)
=============================================================================
