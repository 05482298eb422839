--------------------------- MODULE AnalyzerProofs ---------------------------
(***************************************************************************)
(* Theorems about Analyzer, for any number of concurrent calls, cache      *)
(* keys, providers and any limit.                                          *)
(***************************************************************************)
EXTENDS Analyzer, FiniteSetTheorems, TLAPS

USE LimitAssumption, ProvidersAssumption, ConfidenceAssumption, NoneAssumption

-----------------------------------------------------------------------------
(***************************************************************************)
(* The inductive invariant: types; a call under way has its arguments;     *)
(* what is about to be stored may be stored; what is stored was.           *)
(***************************************************************************)
HasRequest == \A c \in Calls : pc[c] # "idle" => request[c] \in Requests

Storable(res) ==
    \/ res = LLMResult
    \/ res \in RagResults /\ ~ShouldUseLLM(res.confidence, res.severity)

StoresStorable ==
    /\ \A c \in Calls : pc[c] = "store" => Storable(result[c])
    /\ \A k \in CacheKeys : entries[k] # NoResult => Storable(entries[k])

IInv == TypeOK /\ HasRequest /\ StoresStorable

(* A knowledge-base answer carries the confidence and severity asked with. *)
LEMMA RagOnlyResultType ==
    ASSUME TypeOK, HasRequest, NEW c \in Calls, pc[c] # "idle"
    PROVE  /\ RagOnlyResult(c) \in RagResults
           /\ RagOnlyResult(c).confidence = request[c].confidence
           /\ RagOnlyResult(c).severity = request[c].severity
BY DEF HasRequest, Requests, RagOnlyResult, RagResult, RagResults

LEMMA InitIInv == ASSUME Init PROVE IInv
<1>1. TypeOK
  BY DEF Init, TypeOK, PCs
<1>2. HasRequest /\ StoresStorable
  BY DEF Init, HasRequest, StoresStorable
<1> QED
  BY <1>1, <1>2 DEF IInv

LEMMA AnalyzeIInv ==
    ASSUME IInv, NEW c \in Calls, NEW r \in Requests, Analyze(c, r)
    PROVE  IInv'
BY DEF IInv, Analyze, TypeOK, PCs, HasRequest, StoresStorable, Storable, cacheVars

LEMMA CallIInv ==
    ASSUME IInv, NEW c \in Calls, Step(c)
    PROVE  IInv'
<1> USE DEF IInv, HasRequest, StoresStorable
<1>1. CASE CacheHit(c)
  BY <1>1 DEF CacheHit, TypeOK, PCs, cacheVars, Storable
<1>2. CASE CacheMiss(c)
  BY <1>2 DEF CacheMiss, TypeOK, PCs, cacheVars, Storable
<1>3. CASE Gate(c)
  <2>1. pc[c] # "idle"
    BY <1>3 DEF Gate
  <2>2. CASE ShouldUseLLM(request[c].confidence, request[c].severity)
    BY <1>3, <2>2 DEF Gate, TypeOK, PCs, cacheVars, Storable
  <2>3. CASE ~ShouldUseLLM(request[c].confidence, request[c].severity)
    <3>1. Storable(RagOnlyResult(c))
      BY <2>1, <2>3, RagOnlyResultType DEF Storable
    <3> QED
      BY <1>3, <2>1, <2>3, <3>1, RagOnlyResultType
      DEF Gate, TypeOK, PCs, cacheVars, Storable
  <2> QED
    BY <2>2, <2>3
<1>4. CASE CheckLimit(c)
  <2>1. RagOnlyResult(c) \in RagResults
    BY <1>4, RagOnlyResultType DEF CheckLimit
  <2>2. /\ pc' = [pc EXCEPT ![c] = pc'[c]] /\ pc'[c] \in {"done", "calling"}
        /\ result' \in [Calls -> RagResults \union {LLMResult, CacheResult, NoResult}]
        /\ \A d \in Calls \ {c} : result'[d] = result[d]
        /\ provider' \in [Calls -> Nat]
        /\ callsThisHour' \in Nat
    BY <1>4, <2>1 DEF CheckLimit, TypeOK
  <2> QED
    BY <1>4, <2>2 DEF CheckLimit, TypeOK, PCs, cacheVars, Storable
<1>5. CASE ProviderFails(c) \/ Abandon(c)
  <2>1. pc[c] # "idle" /\ NextProvider(c)
        /\ UNCHANGED <<request, ctxDone, cacheVars, callsThisHour, hourOver>>
    BY <1>5 DEF ProviderFails, Abandon
  <2>2. CASE provider[c] < Providers
    BY <2>1, <2>2 DEF NextProvider, TypeOK, PCs, cacheVars, Storable
  <2>3. CASE ~(provider[c] < Providers)
    <3>1. RagOnlyResult(c) \in RagResults
      BY <2>1, RagOnlyResultType
    <3> QED
      BY <2>1, <2>3, <3>1 DEF NextProvider, TypeOK, PCs, cacheVars, Storable
  <2> QED
    BY <2>2, <2>3
<1>6. CASE ProviderAnswers(c)
  BY <1>6 DEF ProviderAnswers, TypeOK, PCs, cacheVars, Storable
<1>7. CASE CacheSet(c)
  <2>1. result[c] \in RagResults \union {LLMResult}
    BY <1>7 DEF CacheSet, Storable
  <2>2. TypeOK'
    BY <1>7, <2>1 DEF CacheSet, TypeOK, PCs
  <2> QED
    BY <1>7, <2>2 DEF CacheSet, TypeOK, Storable
<1>8. CASE Return(c)
  BY <1>8 DEF Return, TypeOK, PCs, cacheVars, Storable
<1>9. CASE RateLimited(c) \/ BackoffOver(c)
  BY <1>9 DEF RateLimited, BackoffOver, TypeOK, PCs, cacheVars, Storable
<1> QED
  BY <1>1, <1>2, <1>3, <1>4, <1>5, <1>6, <1>7, <1>8, <1>9 DEF Step, OwnStep

LEMMA StepIInv ==
    ASSUME IInv, [Next]_vars
    PROVE  IInv'
<1> USE DEF IInv, HasRequest, StoresStorable, Storable, callVars, cacheVars
<1>1. ASSUME NEW c \in Calls, NEW r \in Requests, Analyze(c, r) PROVE IInv'
  BY <1>1, AnalyzeIInv
<1>2. ASSUME NEW c \in Calls, Step(c) PROVE IInv'
  BY <1>2, CallIInv
<1>3. CASE Purge
  BY <1>3 DEF Purge, TypeOK
<1>4. ASSUME NEW k \in CacheKeys, Expire(k) PROVE IInv'
  BY <1>4 DEF Expire, TypeOK
<1>5. CASE HourPasses
  BY <1>5 DEF HourPasses, TypeOK
<1>6. ASSUME NEW c \in Calls, ContextEnds(c) PROVE IInv'
  BY <1>6 DEF ContextEnds, TypeOK
<1>7. CASE UNCHANGED vars
  BY <1>7 DEF vars, TypeOK
<1> QED
  BY <1>1, <1>2, <1>3, <1>4, <1>5, <1>6, <1>7 DEF Next

LEMMA Inductive == Spec => []IInv
<1>1. Init => IInv
  BY InitIInv
<1>2. IInv /\ [Next]_vars => IInv'
  BY StepIInv
<1> QED
  BY <1>1, <1>2, PTL DEF Spec

(***************************************************************************)
(* Every variable keeps its type.                                          *)
(***************************************************************************)
THEOREM TypeCorrect == Spec => []TypeOK
<1>1. IInv => TypeOK
  BY DEF IInv
<1> QED
  BY <1>1, Inductive, PTL

(***************************************************************************)
(* No degraded answer is ever served from the cache later.                 *)
(***************************************************************************)
THEOREM NoDegradedCached == Spec => []CacheHoldsNoDegraded
<1>1. IInv => CacheHoldsNoDegraded
  BY DEF IInv, StoresStorable, Storable, CacheHoldsNoDegraded
<1> QED
  BY <1>1, Inductive, PTL

-----------------------------------------------------------------------------
(* The calls under way are a finite set, no larger than all calls. *)
LEMMA CallingFinite ==
    /\ IsFiniteSet(Calling) /\ Cardinality(Calling) \in Nat
    /\ Cardinality(Calls) \in Nat
    /\ Cardinality(Calling) <= Cardinality(Calls)
BY CallsAssumption, FS_Subset, FS_CardinalityType DEF Calling

(* A step that lets no new call through and counts none. *)
LEMMA QuietStep ==
    ASSUME OvershootBounded, callsThisHour \in Nat,
           callsThisHour' = callsThisHour, Calling' \subseteq Calling
    PROVE  OvershootBounded'
<1>1. Cardinality(Calling') <= Cardinality(Calling) /\ Cardinality(Calling') \in Nat
  BY CallingFinite, FS_Subset, FS_CardinalityType
<1> QED
  BY <1>1, CallingFinite DEF OvershootBounded

LEMMA StepOvershoot ==
    ASSUME TypeOK, OvershootBounded, [Next]_vars
    PROVE  OvershootBounded'
<1> USE DEF TypeOK
<1>1. ASSUME NEW c \in Calls, CheckLimit(c) PROVE OvershootBounded'
  <2>1. Calling' \subseteq Calls /\ Cardinality(Calling') \in Nat
        /\ Cardinality(Calling') <= Cardinality(Calls)
    BY CallsAssumption, FS_Subset, FS_CardinalityType DEF Calling
  <2>2. CASE callsThisHour' < MaxCallsPerHour
    BY <1>1, <2>1, <2>2, CallingFinite DEF CheckLimit, OvershootBounded
  <2>3. CASE ~(callsThisHour' < MaxCallsPerHour)
    <3>1. callsThisHour' = callsThisHour /\ Calling' \subseteq Calling
      BY <1>1, <2>3 DEF CheckLimit, Calling
    <3> QED
      BY <3>1, QuietStep
  <2> QED
    BY <2>2, <2>3
<1>2. ASSUME NEW c \in Calls, ProviderAnswers(c) PROVE OvershootBounded'
  <2>1. Calling' = Calling \ {c} /\ c \in Calling
    BY <1>2 DEF ProviderAnswers, Calling
  <2>2. Cardinality(Calling') = Cardinality(Calling) - 1
    BY <2>1, CallingFinite, FS_RemoveElement
  <2> QED
    BY <1>2, <2>2, CallingFinite DEF ProviderAnswers, OvershootBounded
<1>3. ASSUME NEW c \in Calls, NEW r \in Requests, Analyze(c, r) PROVE OvershootBounded'
  BY <1>3, QuietStep DEF Analyze, Calling
<1>4. ASSUME NEW c \in Calls,
             \/ CacheHit(c) \/ CacheMiss(c) \/ Gate(c) \/ RateLimited(c)
             \/ BackoffOver(c) \/ CacheSet(c) \/ Return(c) \/ ContextEnds(c)
      PROVE  OvershootBounded'
  <2>1. callsThisHour' = callsThisHour /\ Calling' \subseteq Calling
    BY <1>4 DEF CacheHit, CacheMiss, Gate, RateLimited, BackoffOver,
                CacheSet, Return, ContextEnds, Calling
  <2> QED
    BY <2>1, QuietStep
<1>7. ASSUME NEW c \in Calls, ProviderFails(c) \/ Abandon(c) PROVE OvershootBounded'
  <2>1. callsThisHour' = callsThisHour /\ Calling' \subseteq Calling
    BY <1>7 DEF ProviderFails, Abandon, NextProvider, Calling
  <2> QED
    BY <2>1, QuietStep
<1>5. ASSUME UNCHANGED <<pc, callsThisHour>> PROVE OvershootBounded'
  BY <1>5, QuietStep DEF Calling
<1>6. CASE Purge \/ (\E k \in CacheKeys : Expire(k)) \/ HourPasses \/ UNCHANGED vars
  BY <1>5, <1>6 DEF Purge, Expire, HourPasses, vars, callVars
<1> QED
  BY <1>1, <1>2, <1>3, <1>4, <1>6, <1>7 DEF Next, Step, OwnStep

(***************************************************************************)
(* The hourly limit is exceeded by less than the number of concurrent      *)
(* analyses.                                                               *)
(***************************************************************************)
THEOREM Overshoot == Spec => []OvershootBounded
<1>1. Init => OvershootBounded
  <2> SUFFICES ASSUME Init PROVE OvershootBounded
    OBVIOUS
  <2>1. Calling = {}
    BY DEF Init, Calling
  <2> QED
    BY <2>1, FS_EmptySet, CallingFinite DEF Init, OvershootBounded
<1>2. TypeOK /\ OvershootBounded /\ [Next]_vars => OvershootBounded'
  BY StepOvershoot
<1> QED
  BY <1>1, <1>2, TypeCorrect, PTL DEF Spec

(***************************************************************************)
(* With one analysis at a time the limit is kept exactly.                  *)
(***************************************************************************)
THEOREM SequentialLimit ==
    ASSUME Cardinality(Calls) = 1
    PROVE  Spec => []LimitRespected
<1>1. TypeOK /\ OvershootBounded => LimitRespected
  BY CallingFinite DEF TypeOK, OvershootBounded, LimitRespected
<1> QED
  BY <1>1, TypeCorrect, Overshoot, PTL
=============================================================================
