----------------------------- MODULE Frequency -----------------------------
(***************************************************************************)
(* What aggregator.PatternDetector promises: it remembers every event, and *)
(* an answer is about all the events of the fingerprint that are no older  *)
(* than the window, seen from some moment between the question and the     *)
(* answer.  The windows of one answer need not share that moment.          *)
(***************************************************************************)
EXTENDS Integers, Sequences, FiniteSets

CONSTANTS Fingerprints, Windows, Shortest, Duration, Threshold, NoAnswer

VARIABLES
    clock,
    history,  \* the times at which each fingerprint was seen
    answer    \* the last answer given

Init ==
    /\ clock = 0
    /\ history = [f \in Fingerprints |-> <<>>]
    /\ answer = NoAnswer

Tick ==
    /\ clock' = clock + 1
    /\ UNCHANGED <<history, answer>>

Record(f, t) ==
    /\ history' = [history EXCEPT ![f] = Append(@, t)]
    /\ UNCHANGED <<clock, answer>>

Count(f, w, now) ==
    Cardinality({i \in DOMAIN history[f] : history[f][i] >= now - Duration[w]})

(* The answers to a question asked at a time, as of a moment for each window. *)
Answers(f, asked, asof) ==
    {[frequency |-> [w \in Windows |-> Count(f, w, asof[w])], fingerprint |-> f, asked |-> asked],
     [bursting |-> Count(f, Shortest, asof[Shortest]) > Threshold,
      fingerprint |-> f, asked |-> asked],
     [recurring |-> \A w \in Windows : Count(f, w, asof[w]) > 0,
      fingerprint |-> f, asked |-> asked]}

Answer(f, asked) ==
    /\ \E asof \in [Windows -> asked..clock] : answer' \in Answers(f, asked, asof)
    /\ UNCHANGED <<clock, history>>

Next ==
    \/ Tick
    \/ \E f \in Fingerprints, t \in 0..clock : Record(f, t) \/ Answer(f, t)

Spec == Init /\ [][Next]_<<clock, history, answer>>
=============================================================================
