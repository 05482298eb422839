--------------------------- MODULE WatcherProofs ---------------------------
(***************************************************************************)
(* Theorems about Watcher, for every set of containers and goroutines.     *)
(***************************************************************************)
EXTENDS Watcher, TLAPS

USE NoRoutineAssumption, NoKeyAssumption, MaxAttemptAssumption

(* Whatever backoffDuration answers is an integer. *)
LEMMA BackoffIsInt ==
    ASSUME NEW n \in 1..MaxAttempt, NEW d \in BackoffDuration(n)
    PROVE  d \in Int
<1>1. n - 1 \in Nat
  OBVIOUS
<1>2. 2 ^ (n - 1) \in Int
  BY <1>1
<1> QED
  BY <1>2 DEF BackoffDuration, BackoffBase, BackoffFactor, NegativeDelay, BackoffMax

(* The steps of one goroutine keep the types. *)
LEMMA StreamTypes ==
    ASSUME TypeOK, NEW r \in Routines, Stream(r)
    PROVE  TypeOK'
<1> USE DEF TypeOK, PCs
<1>1. ASSUME Return(r) PROVE TypeOK'
  BY <1>1 DEF Return
<1>2. ASSUME Retry(r) PROVE TypeOK'
  BY <1>2 DEF Retry
<1>3. ASSUME NEW w \in PCs, Goto(r, w) PROVE TypeOK'
  BY <1>3 DEF Goto
<1>4. CASE CheckContext(r)
  <2>1. CASE cancelled[r] /\ Return(r)
    BY <2>1, <1>1
  <2>2. CASE Goto(r, "open")
    BY <2>2, <1>3
  <2>3. ASSUME attempt[r] > 0,
               NEW d \in BackoffDuration(attempt[r]),
               delay' = [delay EXCEPT ![r] = d],
               pc' = [pc EXCEPT ![r] = "backoff"],
               UNCHANGED <<registry, key, cancelled, attempt, cancelling, pod, down>>
        PROVE  TypeOK'
    <3>1. d \in Int
      BY <2>3, BackoffIsInt
    <3> QED
      BY <2>3, <3>1
  <2> QED
    BY <1>4, <2>1, <2>2, <2>3 DEF CheckContext
<1>5. CASE WakeUp(r)
  BY <1>5, <1>1, <1>3 DEF WakeUp
<1>6. CASE OpenFails(r)
  BY <1>6, <1>1, <1>2 DEF OpenFails
<1>7. CASE OpenSucceeds(r)
  BY <1>7, <1>3 DEF OpenSucceeds
<1>8. CASE ScanError(r)
  BY <1>8, <1>1, <1>2 DEF ScanError
<1>9. CASE ScanEOF(r)
  BY <1>9, <1>3 DEF ScanEOF
<1>10. CASE ProbeFails(r)
  BY <1>10, <1>2 DEF ProbeFails
<1>11. CASE ProbeAnswers(r)
  BY <1>11, <1>1, <1>2 DEF ProbeAnswers
<1>12. CASE Exit(r)
  <2>1. 0 \in 0..MaxAttempt /\ 0 \in Int
    OBVIOUS
  <2>2. registry' \in [Keys -> Routines \union {NoRoutine}]
    BY <1>12 DEF Exit
  <2>3. /\ pc' \in [Routines -> PCs]
        /\ key' \in [Routines -> Keys \union {NoKey}]
        /\ cancelled' \in [Routines -> BOOLEAN]
    BY <1>12 DEF Exit
  <2>4. attempt' \in [Routines -> 0..MaxAttempt]
    BY <1>12, <2>1 DEF Exit
  <2>5. delay' \in [Routines -> Int]
    BY <1>12, <2>1 DEF Exit
  <2> QED
    BY <1>12, <2>2, <2>3, <2>4, <2>5 DEF Exit
<1> QED
  BY <1>4, <1>5, <1>6, <1>7, <1>8, <1>9, <1>10, <1>11, <1>12 DEF Stream

(* Every step the exported interface allows keeps the types. *)
LEMMA StepTypes ==
    ASSUME TypeOK, [APINext]_vars
    PROVE  TypeOK'
<1>1. ASSUME NEW k \in Keys, NEW r \in Routines, StartWatchingPod(k, r)
      PROVE  TypeOK'
  BY <1>1 DEF StartWatchingPod, TypeOK, PCs
<1>2. ASSUME NEW r \in Routines, Stream(r) PROVE TypeOK'
  BY <1>2, StreamTypes
<1>3. ASSUME NEW k \in Keys, PodChanges(k) PROVE TypeOK'
  <2>1. PICK s \in PodSteps[pod[k]] : pod' = [pod EXCEPT ![k] = s]
    BY <1>3 DEF PodChanges
  <2>2. s \in PodStates
    BY <2>1 DEF TypeOK, PodStates, PodSteps
  <2> QED
    BY <1>3, <2>1, <2>2 DEF PodChanges, TypeOK, goroutineVars
<1>4. ASSUME Shutdown PROVE TypeOK'
  BY <1>4 DEF Shutdown, TypeOK, Live
<1>5. ASSUME NEW k \in Keys, StopWatchingPod(k) PROVE TypeOK'
  BY <1>5 DEF StopWatchingPod, TypeOK, goroutineVars
<1>6. ASSUME NEW r \in Routines, Cancel(r) PROVE TypeOK'
  BY <1>6 DEF Cancel, TypeOK, Live
<1>7. ASSUME StopAll PROVE TypeOK'
  BY <1>7 DEF StopAll, TypeOK
<1>8. CASE UNCHANGED vars
  BY <1>8 DEF vars, TypeOK
<1> QED
  BY <1>1, <1>2, <1>3, <1>4, <1>5, <1>6, <1>7, <1>8 DEF APINext, Next

LEMMA InitTypes == ASSUME Init PROVE TypeOK
<1>1. 0 \in 0..MaxAttempt /\ 0 \in Int /\ "idle" \in PCs
  BY DEF PCs
<1>2. attempt \in [Routines -> 0..MaxAttempt] /\ delay \in [Routines -> Int]
  BY <1>1 DEF Init
<1>3. pc \in [Routines -> PCs]
  BY <1>1 DEF Init
<1> QED
  BY <1>2, <1>3 DEF Init, TypeOK

(***************************************************************************)
(* The types hold whatever callers do with the exported interface.         *)
(***************************************************************************)
THEOREM TypeCorrect == APISpec => []TypeOK
<1>1. Init => TypeOK
  BY InitTypes
<1>2. TypeOK /\ [APINext]_vars => TypeOK'
  BY StepTypes
<1> QED
  BY <1>1, <1>2, PTL DEF APISpec

-----------------------------------------------------------------------------
(***************************************************************************)
(* A goroutine's step leaves its key and the map alone until it exits.     *)
(***************************************************************************)
LEMMA StreamStep ==
    ASSUME TypeOK, NEW r \in Routines, Stream(r), ~Exit(r)
    PROVE  /\ UNCHANGED <<registry, key>>
           /\ \E where \in PCs \ {"idle"} : pc' = [pc EXCEPT ![r] = where]
           /\ Live(r)
<1> DEFINE Moves == /\ UNCHANGED <<registry, key>>
                    /\ \E where \in PCs \ {"idle"} : pc' = [pc EXCEPT ![r] = where]
<1>1. Return(r) => Moves
  BY DEF Return, PCs
<1>2. Retry(r) => Moves
  BY DEF Retry, PCs
<1>3. \A where \in PCs \ {"idle"} : Goto(r, where) => Moves
  BY DEF Goto
<1>4. CheckContext(r) => Moves
  BY <1>1, <1>3 DEF CheckContext, PCs
<1>5. WakeUp(r) \/ OpenSucceeds(r) \/ ScanEOF(r) => Moves
  BY <1>1, <1>3 DEF WakeUp, OpenSucceeds, ScanEOF, PCs
<1>6. OpenFails(r) \/ ScanError(r) \/ ProbeFails(r) \/ ProbeAnswers(r) => Moves
  BY <1>1, <1>2 DEF OpenFails, ScanError, ProbeFails, ProbeAnswers
<1>7. Live(r)
  BY DEF Stream, CheckContext, WakeUp, OpenFails, OpenSucceeds, ScanError, ScanEOF,
         ProbeFails, ProbeAnswers, Live
<1> QED
  BY <1>4, <1>5, <1>6, <1>7 DEF Stream

(***************************************************************************)
(* No stop, no restart and no late deferred delete leaves an entry behind  *)
(* whose goroutine is gone or serves another container.                    *)
(***************************************************************************)
THEOREM EntriesAreStreaming == APISpec => []RegisteredIsStreaming
<1> USE DEF RegisteredIsStreaming, Live
<1>1. Init => RegisteredIsStreaming
  BY DEF Init
<1>2. TypeOK /\ RegisteredIsStreaming /\ [APINext]_vars => RegisteredIsStreaming'
  <2> SUFFICES ASSUME TypeOK, RegisteredIsStreaming, [APINext]_vars
               PROVE  RegisteredIsStreaming'
    OBVIOUS
  <2>1. ASSUME NEW k \in Keys, NEW r \in Routines, StartWatchingPod(k, r)
        PROVE  RegisteredIsStreaming'
    BY <2>1 DEF StartWatchingPod, TypeOK
  <2>2. ASSUME NEW r \in Routines, Stream(r), ~Exit(r)
        PROVE  RegisteredIsStreaming'
    BY <2>2, StreamStep DEF TypeOK
  <2>3. ASSUME NEW r \in Routines, Exit(r)
        PROVE  RegisteredIsStreaming'
    <3> SUFFICES ASSUME NEW k \in Keys, registry'[k] # NoRoutine
                 PROVE  pc'[registry'[k]] # "idle" /\ key'[registry'[k]] = k
      OBVIOUS
    <3>1. k # key[r] /\ registry'[k] = registry[k]
      BY <2>3 DEF Exit, TypeOK
    <3>2. registry[k] # r
      BY <3>1
    <3> QED
      BY <2>3, <3>1, <3>2 DEF Exit, TypeOK
  <2>4. ASSUME NEW k \in Keys, PodChanges(k)
        PROVE  RegisteredIsStreaming'
    BY <2>4 DEF PodChanges, goroutineVars
  <2>5. CASE Shutdown
    BY <2>5 DEF Shutdown
  <2>6. ASSUME NEW k \in Keys, StopWatchingPod(k)
        PROVE  RegisteredIsStreaming'
    BY <2>6 DEF StopWatchingPod, goroutineVars, TypeOK
  <2>7. ASSUME NEW r \in Routines, Cancel(r)
        PROVE  RegisteredIsStreaming'
    BY <2>7 DEF Cancel
  <2>8. CASE StopAll
    BY <2>8 DEF StopAll
  <2>9. CASE UNCHANGED vars
    BY <2>9 DEF vars
  <2> QED
    BY <2>1, <2>2, <2>3, <2>4, <2>5, <2>6, <2>7, <2>8, <2>9 DEF APINext, Next
<1> QED
  BY <1>1, <1>2, TypeCorrect, PTL DEF APISpec

-----------------------------------------------------------------------------
(***************************************************************************)
(* The inductive invariant of the operator's own use of the Watcher: the   *)
(* types, that a live goroutine is the one registered for its key, and     *)
(* that an idle slot has no key.                                           *)
(***************************************************************************)
IInv == /\ TypeOK
        /\ OneStreamPerKey
        /\ \A r \in Routines : ~Live(r) => key[r] = NoKey

LEMMA InitIInv == ASSUME Init PROVE IInv
BY InitTypes DEF Init, IInv, OneStreamPerKey, Live

LEMMA StepIInv ==
    ASSUME IInv, [Next]_vars
    PROVE  IInv'
<1> USE DEF IInv, OneStreamPerKey, Live
<1>0. TypeOK'
  BY StepTypes DEF APINext
<1>1. ASSUME NEW k \in Keys, NEW r \in Routines, StartWatchingPod(k, r)
      PROVE  IInv'
  BY <1>0, <1>1 DEF StartWatchingPod, TypeOK
<1>2. ASSUME NEW r \in Routines, Stream(r), ~Exit(r)
      PROVE  IInv'
  BY <1>0, <1>2, StreamStep DEF TypeOK
<1>3. ASSUME NEW r \in Routines, Exit(r)
      PROVE  IInv'
  <2> SUFFICES ASSUME NEW q \in Routines
               PROVE  /\ Live(q)' => key'[q] \in Keys /\ registry'[key'[q]] = q
                      /\ ~Live(q)' => key'[q] = NoKey
    BY <1>0
  <2>1. CASE q = r
    BY <1>3, <2>1 DEF Exit, TypeOK
  <2>2. CASE q # r
    <3>1. key'[q] = key[q] /\ pc'[q] = pc[q]
      BY <1>3, <2>2 DEF Exit, TypeOK
    <3>2. ASSUME Live(q), key[q] = key[r] PROVE FALSE
      BY <1>3, <2>2, <3>2 DEF Exit
    <3> QED
      BY <1>3, <3>1, <3>2 DEF Exit, TypeOK
  <2> QED
    BY <2>1, <2>2
<1>4. ASSUME NEW k \in Keys, PodChanges(k)
      PROVE  IInv'
  BY <1>0, <1>4 DEF PodChanges, goroutineVars
<1>5. CASE Shutdown
  BY <1>0, <1>5 DEF Shutdown
<1>6. CASE UNCHANGED vars
  BY <1>0, <1>6 DEF vars
<1> QED
  BY <1>1, <1>2, <1>3, <1>4, <1>5, <1>6 DEF Next

LEMMA Inductive == Spec => []IInv
<1>1. Init => IInv
  BY InitIInv
<1>2. IInv /\ [Next]_vars => IInv'
  BY StepIInv
<1> QED
  BY <1>1, <1>2, PTL DEF Spec

(***************************************************************************)
(* In the operator, which only ever starts streams, two goroutines never   *)
(* stream the same container.                                              *)
(***************************************************************************)
THEOREM SingleStream == Spec => []OneStreamPerKey
<1>1. IInv => OneStreamPerKey
  BY DEF IInv
<1> QED
  BY <1>1, Inductive, PTL

(***************************************************************************)
(* Every step of the operator's Watcher is a step of OneStream or leaves   *)
(* it alone.                                                               *)
(***************************************************************************)
LEMMA StepRefines ==
    ASSUME IInv, [Next]_vars
    PROVE  [Abstract!Next]_Streams
<1> USE DEF IInv, OneStreamPerKey, Live
<1>1. ASSUME NEW k \in Keys, NEW r \in Routines, StartWatchingPod(k, r)
      PROVE  [Abstract!Next]_Streams
  <2>1. Streams[k] = {}
    BY <1>1 DEF StartWatchingPod, Streams, TypeOK
  <2>2. \A other \in Keys : r \notin Streams[other]
    BY <1>1 DEF StartWatchingPod, Streams
  <2>3. Streams' = [Streams EXCEPT ![k] = {r}]
    <3> SUFFICES ASSUME NEW o \in Keys
                 PROVE  Streams'[o] = IF o = k THEN {r} ELSE Streams[o]
      BY DEF Streams
    <3> QED
      BY <1>1, <2>1, <2>2 DEF StartWatchingPod, Streams, TypeOK
  <2>4. Abstract!Begin(k, r)
    BY <2>1, <2>2, <2>3 DEF Abstract!Begin
  <2> QED
    BY <2>4 DEF Abstract!Next
<1>2. ASSUME NEW r \in Routines, Stream(r), ~Exit(r)
      PROVE  UNCHANGED Streams
  BY <1>2, StreamStep DEF Streams
<1>3. ASSUME NEW r \in Routines, Exit(r)
      PROVE  [Abstract!Next]_Streams
  <2>1. key[r] \in Keys /\ r \in Streams[key[r]]
    BY <1>3 DEF Exit, Streams
  <2>2. Streams' = [Streams EXCEPT ![key[r]] = {}]
    <3> SUFFICES ASSUME NEW o \in Keys
                 PROVE  Streams'[o] = IF o = key[r] THEN {} ELSE Streams[o]
      BY DEF Streams
    <3>1. CASE o = key[r]
      <4>1. \A q \in Routines : key[q] = o => q = r
        BY <3>1
      <4> QED
        BY <1>3, <3>1, <4>1 DEF Exit, Streams, TypeOK
    <3>2. CASE o # key[r]
      BY <1>3, <3>2 DEF Exit, Streams, TypeOK
    <3> QED
      BY <3>1, <3>2
  <2>3. Abstract!End(key[r])
    BY <2>1, <2>2 DEF Abstract!End
  <2> QED
    BY <2>1, <2>3 DEF Abstract!Next
<1>4. ASSUME NEW k \in Keys, PodChanges(k)
      PROVE  UNCHANGED Streams
  BY <1>4 DEF PodChanges, goroutineVars, Streams
<1>5. CASE Shutdown
  BY <1>5 DEF Shutdown, Streams
<1>6. CASE UNCHANGED vars
  BY <1>6 DEF vars, Streams
<1> QED
  BY <1>1, <1>2, <1>3, <1>4, <1>5, <1>6 DEF Next

(***************************************************************************)
(* The operator's Watcher implements OneStream.                            *)
(***************************************************************************)
THEOREM Implements == Spec => ImplementsOneStream
<1>1. Init => Abstract!Init
  BY DEF Init, Abstract!Init, Streams
<1>2. IInv /\ [Next]_vars => [Abstract!Next]_Streams
  BY StepRefines
<1> QED
  BY <1>1, <1>2, Inductive, PTL DEF Spec, ImplementsOneStream, Abstract!Spec
=============================================================================
