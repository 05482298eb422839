-------------------------- MODULE PatternDetector --------------------------
(***************************************************************************)
(* internal/aggregator/pattern_detector.go: the events of each fingerprint *)
(* in three sliding windows, pruned when they are read and evicted when    *)
(* idle.                                                                   *)
(*                                                                         *)
(* Every question, and the cleanup, looks at the clock before it takes the *)
(* lock, so that what it does under the lock may be about an earlier time  *)
(* than the last thing done there.  Any number of questions may be under   *)
(* way ("all public methods are safe for concurrent use"), each for as     *)
(* long as it likes.  Record is called by the log pipeline alone, with the *)
(* time it has just read: it is in the window before MaxDelay, less than   *)
(* the shortest window, has passed.                                        *)
(*                                                                         *)
(* A window's rate, a quotient of its count, is left out.                  *)
(***************************************************************************)
EXTENDS Integers, Sequences

CONSTANTS
    Fingerprints,
    Windows,         \* the names of the windows
    Shortest,        \* the window in which a burst is looked for
    Duration,        \* how far each window looks back
    StaleThreshold,  \* idle for longer: evicted
    Askers,          \* goroutines that ask
    MaxDelay,        \* bound: from the clock to the lock, in the pipeline
    Threshold,       \* of IsBursting, given by its caller
    NoData, NoCall, NoAnswer,
    MaxTime,         \* bound: the clock
    MaxEvents        \* bound: events for each fingerprint

ASSUME WindowsAssumption == Shortest \in Windows /\ Duration \in [Windows -> Nat]
ASSUME DelayAssumption == MaxDelay \in Nat /\ StaleThreshold \in Nat
ASSUME WidthAssumption ==
    \A w \in Windows : MaxDelay <= Duration[w] /\ Duration[w] <= StaleThreshold
ASSUME BoundsAssumption == MaxTime \in Nat /\ MaxEvents \in Nat

Times == 0..MaxTime
Calls == [fingerprint : Fingerprints, now : Times]
Data == [events : [Windows -> Seq(Times)], lastSeen : Times]

ASSUME NoneAssumption == NoData \notin Data /\ NoCall \notin Calls /\ NoCall \notin Times

VARIABLES
    clock,
    data,       \* PatternDetector.data
    recording,  \* the call of Record that has read the clock, if any
    asking,     \* the calls that ask, likewise
    cleaning,   \* the time at which the cleanup under way began
    history,    \* every event recorded
    answer      \* the last answer given

vars == <<clock, data, recording, asking, cleaning, history, answer>>

(* The types of all variables but answer, which only Frequency judges. *)
TypeOK ==
    /\ clock \in Times
    /\ data \in [Fingerprints -> Data \union {NoData}]
    /\ recording \in Calls \union {NoCall}
    /\ asking \in [Askers -> Calls \union {NoCall}]
    /\ cleaning \in Times \union {NoCall}
    /\ history \in [Fingerprints -> Seq(Times)]

Init ==
    /\ clock = 0
    /\ data = [f \in Fingerprints |-> NoData]
    /\ recording = NoCall /\ cleaning = NoCall
    /\ asking = [a \in Askers |-> NoCall]
    /\ history = [f \in Fingerprints |-> <<>>]
    /\ answer = NoAnswer

-----------------------------------------------------------------------------
Tick ==
    /\ clock < MaxTime
    /\ recording # NoCall => clock - recording.now < MaxDelay
    /\ clock' = clock + 1
    /\ UNCHANGED <<data, recording, asking, cleaning, history, answer>>

(* Slip: an event at the edge of the window is cut off with the older ones. *)
StaleEdge(events, cutoff) ==
    LET n == Len(events)
        search[r \in [lo : 0..n, hi : 0..n]] ==
            LET mid == (r.lo + r.hi) \div 2 IN
            IF r.lo >= r.hi THEN r.lo
            ELSE IF events[mid + 1] <= cutoff THEN search[[lo |-> mid + 1, hi |-> r.hi]]
                 ELSE search[[lo |-> r.lo, hi |-> mid]]
    IN  search[[lo |-> 0, hi |-> n]]

(* The binary search of pruneWindow: how many events are before the cutoff. *)
Stale(events, cutoff) ==
    LET n == Len(events)
        search[r \in [lo : 0..n, hi : 0..n]] ==
            LET mid == (r.lo + r.hi) \div 2 IN
            IF r.lo >= r.hi THEN r.lo
            ELSE IF events[mid + 1] < cutoff THEN search[[lo |-> mid + 1, hi |-> r.hi]]
                 ELSE search[[lo |-> r.lo, hi |-> mid]]
    IN  search[[lo |-> 0, hi |-> n]]

PruneWindow(events, cutoff) == SubSeq(events, Stale(events, cutoff) + 1, Len(events))

(* The data of a fingerprint once the windows ws are pruned, as of now. *)
Pruned(d, ws, now) ==
    [d EXCEPT !.events = [w \in Windows |->
        IF w \in ws THEN PruneWindow(d.events[w], now - Duration[w]) ELSE d.events[w]]]

-----------------------------------------------------------------------------
(* runLogPipeline: detector.Record(fingerprint, time.Now()). *)
CallRecord(f) ==
    /\ recording = NoCall /\ Len(history[f]) < MaxEvents
    /\ recording' = [fingerprint |-> f, now |-> clock]
    /\ UNCHANGED <<clock, data, asking, cleaning, history, answer>>

Fresh == [events |-> [w \in Windows |-> <<>>], lastSeen |-> 0]

(* Slip: lastSeen stays the time of the first event. *)
RecordFirstSeen ==
    LET f == recording.fingerprint
        t == recording.now
        d == IF data[f] = NoData THEN [Fresh EXCEPT !.lastSeen = t] ELSE data[f]
    IN  /\ recording # NoCall
        /\ data' = [data EXCEPT ![f] =
              [events |-> [w \in Windows |-> Append(d.events[w], t)], lastSeen |-> d.lastSeen]]
        /\ history' = [history EXCEPT ![f] = Append(@, t)]
        /\ recording' = NoCall
        /\ UNCHANGED <<clock, asking, cleaning, answer>>

(* Record under the lock. *)
Record ==
    LET f == recording.fingerprint
        t == recording.now
        d == IF data[f] = NoData THEN Fresh ELSE data[f]
    IN  /\ recording # NoCall
        /\ data' = [data EXCEPT ![f] =
              [events |-> [w \in Windows |-> Append(d.events[w], t)], lastSeen |-> t]]
        /\ history' = [history EXCEPT ![f] = Append(@, t)]
        /\ recording' = NoCall
        /\ UNCHANGED <<clock, asking, cleaning, answer>>

-----------------------------------------------------------------------------
Ask(a, f) ==
    /\ asking[a] = NoCall
    /\ asking' = [asking EXCEPT ![a] = [fingerprint |-> f, now |-> clock]]
    /\ UNCHANGED <<clock, data, recording, cleaning, history, answer>>

Count(f, w, now) ==
    IF data[f] = NoData THEN 0 ELSE Len(PruneWindow(data[f].events[w], now - Duration[w]))

(* Under the lock, windows ws are pruned and the question is answered. *)
AnswerAfterPruning(a, ws, given) ==
    LET f == asking[a].fingerprint IN
    /\ data' = IF data[f] = NoData THEN data
               ELSE [data EXCEPT ![f] = Pruned(@, ws, asking[a].now)]
    /\ answer' = given
    /\ asking' = [asking EXCEPT ![a] = NoCall]
    /\ UNCHANGED <<clock, recording, cleaning, history>>

GetFrequency(a) ==
    LET f == asking[a].fingerprint  now == asking[a].now IN
    /\ asking[a] # NoCall
    /\ AnswerAfterPruning(a, Windows,
          [frequency |-> [w \in Windows |-> Count(f, w, now)], fingerprint |-> f, asked |-> now])

IsBursting(a) ==
    LET f == asking[a].fingerprint  now == asking[a].now IN
    /\ asking[a] # NoCall
    /\ AnswerAfterPruning(a, {Shortest},
          [bursting |-> Count(f, Shortest, now) > Threshold, fingerprint |-> f, asked |-> now])

(* It goes through the windows, shortest first, until it finds one empty. *)
IsRecurring(a) ==
    LET f == asking[a].fingerprint
        now == asking[a].now
        empty == {w \in Windows : Count(f, w, now) = 0}
        visited == {w \in Windows : \A e \in empty : Duration[w] <= Duration[e]}
    IN  /\ asking[a] # NoCall
        /\ AnswerAfterPruning(a, visited,
              [recurring |-> empty = {}, fingerprint |-> f, asked |-> now])

-----------------------------------------------------------------------------
(* Slip: the threshold is subtracted here and again under the lock. *)
CleanupTicksTwice ==
    /\ cleaning = NoCall
    /\ cleaning' = clock - StaleThreshold
    /\ UNCHANGED <<clock, data, recording, asking, history, answer>>

(* CleanupOldData: at a tick, cleanup computes its cutoff ... *)
CleanupTicks ==
    /\ cleaning = NoCall
    /\ cleaning' = clock
    /\ UNCHANGED <<clock, data, recording, asking, history, answer>>

(* ... and evicts under the lock. *)
Cleanup ==
    /\ cleaning # NoCall
    /\ data' = [f \in Fingerprints |->
          IF data[f] # NoData /\ data[f].lastSeen < cleaning - StaleThreshold
          THEN NoData ELSE data[f]]
    /\ cleaning' = NoCall
    /\ UNCHANGED <<clock, recording, asking, history, answer>>

Next ==
    \/ Tick
    \/ \E f \in Fingerprints : CallRecord(f)
    \/ Record
    \/ \E a \in Askers :
          \/ \E f \in Fingerprints : Ask(a, f)
          \/ GetFrequency(a) \/ IsBursting(a) \/ IsRecurring(a)
    \/ CleanupTicks \/ Cleanup

Spec == Init /\ [][Next]_vars

-----------------------------------------------------------------------------
(***************************************************************************)
(* Overlapping questions, pruning, late locks and evictions never lose an  *)
(* event that an answer is about: every answer of GetFrequency, IsBursting *)
(* and IsRecurring is the one that somebody would give who had kept every  *)
(* event, as of some moment since the question.  Not as of the question    *)
(* itself: a question that reads the clock later may prune first.          *)
(***************************************************************************)
Promise == INSTANCE Frequency
ImplementsFrequency == Promise!Spec

(***************************************************************************)
(* What the binary search takes for granted: the events of a window ascend *)
(* and lastSeen is not before any of them, though each time was read       *)
(* before the lock was taken.                                              *)
(***************************************************************************)
EventsAscend ==
    \A f \in Fingerprints, w \in Windows : data[f] # NoData =>
        LET events == data[f].events[w] IN
        /\ \A i, j \in DOMAIN events : i <= j => events[i] <= events[j]
        /\ \A i \in DOMAIN events : events[i] <= data[f].lastSeen
=============================================================================
