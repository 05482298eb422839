------------------------------ MODULE Analyzer ------------------------------
(***************************************************************************)
(* The cost guard of internal/llm/analyzer.go under concurrent calls of    *)
(* Analyze: the log pipeline runs one goroutine per new incident.          *)
(*                                                                         *)
(* A call goes through the cache (its RWMutex), the RAG shortcut, the      *)
(* hourly limit (the Analyzer's mutex), the providers (no lock held) and   *)
(* back into the cache.  Each critical section, and each request to a      *)
(* provider, is one action.  A provider that is told to slow down waits a  *)
(* minute and asks once more; the context of a call ends with its deadline *)
(* or with a reload.  Time is three facts: the hour is over, an entry has  *)
(* expired, a context has ended.  A result keeps what the guard decides    *)
(* on: where it came from and, for knowledge-base results, how confident   *)
(* it is for which severity.  The counters Stats reports for display only  *)
(* are left out.                                                           *)
(***************************************************************************)
EXTENDS Naturals, FiniteSets

CONSTANTS
    Calls,              \* the calls of Analyze that can be under way at once
    CacheKeys,          \* pattern|namespace
    Severities,
    Critical,           \* the severity with a threshold of its own
    Confidences,        \* RAG confidences
    RagThreshold, CriticalThreshold,
    MaxCallsPerHour,
    Providers,          \* how many LLM providers are configured
    Patient,            \* those that retry after a 429: not Anthropic's
    NoRequest, NoResult

ASSUME CallsAssumption == IsFiniteSet(Calls)
ASSUME LimitAssumption == MaxCallsPerHour \in Nat \ {0}
ASSUME ProvidersAssumption == Providers \in Nat /\ Patient \subseteq 1..Providers
ASSUME ConfidenceAssumption ==
    Confidences \subseteq Nat /\ RagThreshold \in Nat /\ CriticalThreshold \in Nat

Requests == [cacheKey : CacheKeys, confidence : Confidences, severity : Severities]

RagResult(confidence, severity) ==
    [source |-> "rag", confidence |-> confidence, severity |-> severity]
RagResults == [source : {"rag"}, confidence : Confidences, severity : Severities]
LLMResult == [source |-> "llm"]
CacheResult == [source |-> "cache"]

ASSUME NoneAssumption == /\ NoRequest \notin Requests
                         /\ NoResult \notin RagResults \union {LLMResult, CacheResult}

VARIABLES
    pc,             \* where each call is
    request,        \* its arguments
    provider,       \* the provider it is trying
    result,         \* what it will return
    ctxDone,        \* the calls whose context has ended
    entries,        \* the cache: the result stored for each key
    expired,        \* the keys whose entry has outlived its TTL
    callsThisHour,
    hourOver        \* now is after hourResetAt

callVars == <<pc, request, provider, result, ctxDone>>
cacheVars == <<entries, expired>>
vars == <<pc, request, provider, result, ctxDone, entries, expired, callsThisHour, hourOver>>

PCs == {"idle", "lookup", "gate", "limit", "calling", "backoff", "retrying", "store", "done"}

TypeOK ==
    /\ pc \in [Calls -> PCs]
    /\ request \in [Calls -> Requests \union {NoRequest}]
    /\ provider \in [Calls -> Nat]
    /\ result \in [Calls -> RagResults \union {LLMResult, CacheResult, NoResult}]
    /\ ctxDone \in SUBSET Calls
    /\ entries \in [CacheKeys -> RagResults \union {LLMResult, NoResult}]
    /\ expired \in SUBSET CacheKeys
    /\ callsThisHour \in Nat
    /\ hourOver \in BOOLEAN

Init ==
    /\ pc = [c \in Calls |-> "idle"]
    /\ request = [c \in Calls |-> NoRequest]
    /\ provider = [c \in Calls |-> 0]
    /\ result = [c \in Calls |-> NoResult]
    /\ ctxDone = {}
    /\ entries = [k \in CacheKeys |-> NoResult]
    /\ expired = {}
    /\ callsThisHour = 0
    /\ hourOver = FALSE

-----------------------------------------------------------------------------
Threshold(severity) ==
    IF severity = Critical THEN CriticalThreshold ELSE RagThreshold

ShouldUseLLM(confidence, severity) == confidence < Threshold(severity)

(* ragOnlyResult, for the arguments of a call. *)
RagOnlyResult(c) == RagResult(request[c].confidence, request[c].severity)

Analyze(c, r) ==
    /\ pc[c] = "idle"
    /\ pc' = [pc EXCEPT ![c] = "lookup"]
    /\ request' = [request EXCEPT ![c] = r]
    /\ UNCHANGED <<provider, result, ctxDone, cacheVars, callsThisHour, hourOver>>

(* Slip: what came from the cache goes back into it. *)
CacheHitStored(c) ==
    LET k == request[c].cacheKey IN
    /\ pc[c] = "lookup"
    /\ entries[k] # NoResult /\ k \notin expired
    /\ result' = [result EXCEPT ![c] = CacheResult]
    /\ pc' = [pc EXCEPT ![c] = "store"]
    /\ UNCHANGED <<request, provider, ctxDone, cacheVars, callsThisHour, hourOver>>

CacheHit(c) ==
    LET k == request[c].cacheKey IN
    /\ pc[c] = "lookup"
    /\ entries[k] # NoResult /\ k \notin expired
    /\ result' = [result EXCEPT ![c] = CacheResult]
    /\ pc' = [pc EXCEPT ![c] = "done"]
    /\ UNCHANGED <<request, provider, ctxDone, cacheVars, callsThisHour, hourOver>>

CacheMiss(c) ==
    LET k == request[c].cacheKey IN
    /\ pc[c] = "lookup"
    /\ entries[k] = NoResult \/ k \in expired
    /\ pc' = [pc EXCEPT ![c] = "gate"]
    /\ UNCHANGED <<request, provider, result, ctxDone, cacheVars, callsThisHour, hourOver>>

(* The cost gate: a confident retrieval needs no LLM. *)
Gate(c) ==
    /\ pc[c] = "gate"
    /\ IF ShouldUseLLM(request[c].confidence, request[c].severity)
       THEN pc' = [pc EXCEPT ![c] = "limit"] /\ UNCHANGED result
       ELSE /\ result' = [result EXCEPT ![c] = RagOnlyResult(c)]
            /\ pc' = [pc EXCEPT ![c] = "store"]
    /\ UNCHANGED <<request, provider, ctxDone, cacheVars, callsThisHour, hourOver>>

(* Slip: one call too many is let through. *)
CheckLimitLate(c) ==
    LET calls == IF hourOver THEN 0 ELSE callsThisHour IN
    /\ pc[c] = "limit"
    /\ callsThisHour' = calls /\ hourOver' = FALSE
    /\ IF calls > MaxCallsPerHour \/ Providers = 0
       THEN /\ result' = [result EXCEPT ![c] = RagOnlyResult(c)]
            /\ pc' = [pc EXCEPT ![c] = "done"] /\ UNCHANGED provider
       ELSE /\ provider' = [provider EXCEPT ![c] = 1]
            /\ pc' = [pc EXCEPT ![c] = "calling"] /\ UNCHANGED result
    /\ UNCHANGED <<request, ctxDone, cacheVars>>

(***************************************************************************)
(* The critical section of the rate limit: start a new hour if this one is *)
(* over, then compare.  Nothing is reserved for the call that passes.      *)
(***************************************************************************)
CheckLimit(c) ==
    LET calls == IF hourOver THEN 0 ELSE callsThisHour IN
    /\ pc[c] = "limit"
    /\ callsThisHour' = calls /\ hourOver' = FALSE
    /\ IF calls >= MaxCallsPerHour \/ Providers = 0
       THEN /\ result' = [result EXCEPT ![c] = RagOnlyResult(c)]
            /\ pc' = [pc EXCEPT ![c] = "done"] /\ UNCHANGED provider
       ELSE /\ provider' = [provider EXCEPT ![c] = 1]
            /\ pc' = [pc EXCEPT ![c] = "calling"] /\ UNCHANGED result
    /\ UNCHANGED <<request, ctxDone, cacheVars>>

(* doWithRateLimitRetry: a 429 at the first request, and the wait begins. *)
RateLimited(c) ==
    /\ pc[c] = "calling" /\ provider[c] \in Patient /\ c \notin ctxDone
    /\ pc' = [pc EXCEPT ![c] = "backoff"]
    /\ UNCHANGED <<request, provider, result, ctxDone, cacheVars, callsThisHour, hourOver>>

(* The minute is over: one more request. *)
BackoffOver(c) ==
    /\ pc[c] = "backoff"
    /\ pc' = [pc EXCEPT ![c] = "retrying"]
    /\ UNCHANGED <<request, provider, result, ctxDone, cacheVars, callsThisHour, hourOver>>

(* Slip: the degraded answer is cached like any other. *)
NextProviderOrStored(c) ==
    IF provider[c] < Providers
    THEN /\ provider' = [provider EXCEPT ![c] = @ + 1]
         /\ pc' = [pc EXCEPT ![c] = "calling"] /\ UNCHANGED result
    ELSE /\ result' = [result EXCEPT ![c] = RagOnlyResult(c)]
         /\ pc' = [pc EXCEPT ![c] = "store"] /\ UNCHANGED provider

(* A provider has failed; after the last one the answer is a degraded one. *)
NextProvider(c) ==
    IF provider[c] < Providers
    THEN /\ provider' = [provider EXCEPT ![c] = @ + 1]
         /\ pc' = [pc EXCEPT ![c] = "calling"] /\ UNCHANGED result
    ELSE /\ result' = [result EXCEPT ![c] = RagOnlyResult(c)]
         /\ pc' = [pc EXCEPT ![c] = "done"] /\ UNCHANGED provider

(* No answer, an error, or an answer nothing can be parsed from. *)
ProviderFails(c) ==
    /\ pc[c] \in {"calling", "retrying"} /\ c \notin ctxDone
    /\ NextProvider(c)
    /\ UNCHANGED <<request, ctxDone, cacheVars, callsThisHour, hourOver>>

(* Slip: the context is looked at in the wait only. *)
AbandonInBackoff(c) ==
    /\ pc[c] = "backoff" /\ c \in ctxDone
    /\ NextProvider(c)
    /\ UNCHANGED <<request, ctxDone, cacheVars, callsThisHour, hourOver>>

(* The context ends the request or the wait; the next provider gets it too. *)
Abandon(c) ==
    /\ pc[c] \in {"calling", "backoff", "retrying"} /\ c \in ctxDone
    /\ NextProvider(c)
    /\ UNCHANGED <<request, ctxDone, cacheVars, callsThisHour, hourOver>>

(* A provider answers: only now is the call counted. *)
ProviderAnswers(c) ==
    /\ pc[c] \in {"calling", "retrying"} /\ c \notin ctxDone
    /\ callsThisHour' = callsThisHour + 1
    /\ result' = [result EXCEPT ![c] = LLMResult]
    /\ pc' = [pc EXCEPT ![c] = "store"]
    /\ UNCHANGED <<request, provider, ctxDone, cacheVars, hourOver>>

CacheSet(c) ==
    LET k == request[c].cacheKey IN
    /\ pc[c] = "store"
    /\ entries' = [entries EXCEPT ![k] = result[c]]
    /\ expired' = expired \ {k}
    /\ pc' = [pc EXCEPT ![c] = "done"]
    /\ UNCHANGED <<request, provider, result, ctxDone, callsThisHour, hourOver>>

Return(c) ==
    /\ pc[c] = "done"
    /\ pc' = [pc EXCEPT ![c] = "idle"]
    /\ request' = [request EXCEPT ![c] = NoRequest]
    /\ provider' = [provider EXCEPT ![c] = 0]
    /\ result' = [result EXCEPT ![c] = NoResult]
    /\ ctxDone' = ctxDone \ {c}
    /\ UNCHANGED <<cacheVars, callsThisHour, hourOver>>

(* StartCachePurger's tick. *)
Purge ==
    /\ expired # {}
    /\ entries' = [k \in CacheKeys |-> IF k \in expired THEN NoResult ELSE entries[k]]
    /\ expired' = {}
    /\ UNCHANGED <<callVars, callsThisHour, hourOver>>

Expire(k) ==
    /\ entries[k] # NoResult /\ k \notin expired
    /\ expired' = expired \union {k}
    /\ UNCHANGED <<callVars, entries, callsThisHour, hourOver>>

HourPasses ==
    /\ ~hourOver
    /\ hourOver' = TRUE
    /\ UNCHANGED <<callVars, cacheVars, callsThisHour>>

(* Two minutes, or the reload that cancels the context they are part of. *)
ContextEnds(c) ==
    /\ pc[c] # "idle" /\ c \notin ctxDone
    /\ ctxDone' = ctxDone \union {c}
    /\ UNCHANGED <<pc, request, provider, result, cacheVars, callsThisHour, hourOver>>

(* What a call does itself, and what its provider does to it. *)
OwnStep(c) ==
    \/ CacheHit(c) \/ CacheMiss(c) \/ Gate(c) \/ CheckLimit(c)
    \/ BackoffOver(c) \/ Abandon(c) \/ CacheSet(c) \/ Return(c)

Step(c) == OwnStep(c) \/ RateLimited(c) \/ ProviderFails(c) \/ ProviderAnswers(c)

Next ==
    \/ \E c \in Calls, r \in Requests : Analyze(c, r)
    \/ \E c \in Calls : Step(c) \/ ContextEnds(c)
    \/ Purge
    \/ \E k \in CacheKeys : Expire(k)
    \/ HourPasses

Spec == Init /\ [][Next]_vars

(* Goroutines run and deadlines pass; of a provider nothing is expected. *)
FairSpec == Spec /\ \A c \in Calls : WF_vars(OwnStep(c)) /\ WF_vars(ContextEnds(c))

-----------------------------------------------------------------------------
(* The calls that passed the limit and have not been counted. *)
Calling == {c \in Calls : pc[c] \in {"calling", "backoff", "retrying"}}

(***************************************************************************)
(* What the limit is worth: the calls counted this hour and those under    *)
(* way exceed it by less than the number of concurrent analyses, however   *)
(* checks, answers and hour changes interleave.                            *)
(***************************************************************************)
OvershootBounded ==
    callsThisHour + Cardinality(Calling) <= MaxCallsPerHour - 1 + Cardinality(Calls)

(***************************************************************************)
(* "Enforce an hourly rate limit to cap spending": no more LLM calls are   *)
(* counted in an hour than maxCallsPerHour.                                *)
(***************************************************************************)
LimitRespected == callsThisHour <= MaxCallsPerHour

(***************************************************************************)
(* A degraded answer (limit reached, providers down) is never kept for     *)
(* later: what the cache holds came from a provider or from a retrieval    *)
(* confident enough for the severity it was asked with.                    *)
(***************************************************************************)
CacheHoldsNoDegraded ==
    \A k \in CacheKeys : entries[k] # NoResult /\ entries[k] # LLMResult =>
        ~ShouldUseLLM(entries[k].confidence, entries[k].severity)

(***************************************************************************)
(* No provider keeps an analysis: one that never answers, or asks to slow  *)
(* down when the deadline is near, costs its goroutine no more than that.  *)
(***************************************************************************)
AnalysisEnds == \A c \in Calls : pc[c] # "idle" ~> pc[c] = "idle"
=============================================================================
