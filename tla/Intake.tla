------------------------------- MODULE Intake -------------------------------
(***************************************************************************)
(* What becomes of a line: the normalizer and the filter of a log stream,  *)
(* the fingerprint of its message, and the record it is counted in.        *)
(*                                                                         *)
(* A line is made of parts, each a word or a stretch of text that one      *)
(* regular expression or another is about.  A text line is its head and    *)
(* its body; of a JSON object the body is the value of the message field,  *)
(* empty if there is none, and the head is all else but the level.         *)
(***************************************************************************)
EXTENDS Integers, Sequences, FiniteSets, Functions

CONSTANTS
    Values,     \* what parts of one kind differ in, level words among them
    Lines,
    Pods,
    Bits,       \* of a fingerprint
    Hash,       \* of each token, the bits that are set
    MaxLines    \* bound: lines that pass the filter

(***************************************************************************)
(* A uuid begins with eight digits, uuidDigits also ends with twelve; iso  *)
(* is a time stamp with a T, date one with a space.  "rest" is what is     *)
(* left of a part that has been taken a piece out of.                      *)
(***************************************************************************)
Kinds == {"level", "word", "stopWord", "digits", "date", "iso", "epoch",
          "uuid", "uuidDigits", "ip", "podSuffix", "number", "rest"}
Part == [kind : Kinds, value : Values]

ASSUME LinesAssumption ==
    /\ "" \notin Values
    /\ Lines \subseteq [json : BOOLEAN, level : Values \union {""},
                        head : Seq(Part), body : Seq(Part)]
ASSUME HashAssumption == Hash \in [Part -> SUBSET Bits]
ASSUME BoundAssumption == MaxLines \in Nat

-----------------------------------------------------------------------------
(* Normalizer.Normalize *)

Raw(line) == line.head \o line.body

(* The whole of a text line is its message, whatever has been found in it. *)
Message(line) == IF line.json THEN line.body ELSE Raw(line)

normalizeLevel(l) ==
    CASE l = "WARNING" -> "WARN" [] l = "INFORMATION" -> "INFO" [] OTHER -> l

(* The first level word of a text line; the level field of an object. *)
Level(line) ==
    LET words == {k \in DOMAIN Raw(line) : Raw(line)[k].kind = "level"}
    IN  IF line.json THEN line.level
        ELSE IF words = {} THEN ""
        ELSE normalizeLevel(
                Raw(line)[CHOOSE k \in words : \A j \in words : k <= j].value)

-----------------------------------------------------------------------------
(* Filter.ShouldProcess, with the levels the platform gives it. *)

LogLevels == {"ERROR", "FATAL", "CRITICAL", "PANIC"}

(* The severity keywords anywhere in the line, its level field included. *)
Keywords(line) ==
    LogLevels \intersect
        ({line.level} \union {p.value : p \in {q \in Range(Raw(line)) : q.kind = "level"}})

ShouldProcess(line) == Level(line) \in LogLevels \/ Keywords(line) # {}

-----------------------------------------------------------------------------
(* Fingerprinter.Fingerprint *)

(***************************************************************************)
(* What each regular expression erases, and what it takes a piece out of.  *)
(* The text is in lower case by then, and the expression for time stamps   *)
(* knows the T of ISO 8601 and the months of syslog in upper case only.    *)
(***************************************************************************)
Erased == [Timestamp   |-> {"date", "epoch"},
           UUID        |-> {"uuid", "uuidDigits"},
           IP          |-> {"ip"},
           PodSuffix   |-> {"podSuffix"},
           LargeNumber |-> {"number", "epoch"}]

Damaged == [Timestamp   |-> {"uuidDigits"},          \* twelve digits at its end
            UUID        |-> {},
            IP          |-> {},
            PodSuffix   |-> {},
            LargeNumber |-> {"uuid", "uuidDigits"}]  \* eight at its beginning

(* Slip: broad expressions before specific ones. *)
OrderReversed == <<"LargeNumber", "PodSuffix", "IP", "UUID", "Timestamp">>

Order == <<"Timestamp", "UUID", "IP", "PodSuffix", "LargeNumber">>

Touching(part) ==
    {k \in DOMAIN Order : part.kind \in Erased[Order[k]] \union Damaged[Order[k]]}

Survives(part) ==
    \A k \in Touching(part) :
        \/ part.kind \notin Erased[Order[k]]
        \/ \E j \in Touching(part) : j < k

normalize(part) == IF Touching(part) = {} THEN part ELSE [part EXCEPT !.kind = "rest"]

(* Of the level words, those that are stop words. *)
StopWords == {"ERROR", "WARN", "WARNING", "INFO", "DEBUG"}

IsToken(part) ==
    /\ Survives(part)
    /\ part.kind \notin {"stopWord", "digits"}
    /\ part.kind = "level" => part.value \notin StopWords

Tokens(message) == {k \in DOMAIN message : IsToken(message[k])}

Votes(message, i) ==
    Cardinality({k \in Tokens(message) : i \in Hash[normalize(message[k])]})
    - Cardinality({k \in Tokens(message) : i \notin Hash[normalize(message[k])]})

Fingerprint(message) == {i \in Bits : Votes(message, i) > 0}

-----------------------------------------------------------------------------
VARIABLES
    records,   \* IncidentStore.records: their counts and affected pods
    analysed,  \* the lines that have started an analysis, by their number
    passed     \* the lines that have passed the filter, in their order

vars == <<records, analysed, passed>>

TypeOK ==
    /\ DOMAIN records \subseteq SUBSET Bits
    /\ \A fp \in DOMAIN records : records[fp] \in [count : 1..MaxLines, pods : SUBSET Pods]
    /\ passed \in Seq(Lines \X Pods) /\ Len(passed) <= MaxLines
    /\ analysed \subseteq DOMAIN passed

Init == records = [fp \in {} |-> 0] /\ analysed = {} /\ passed = <<>>

(* Slip: the lines are counted from zero. *)
RecordEventEarly(line, pod) ==
    LET fp == Fingerprint(Message(line))
        isNew == fp \notin DOMAIN records
        old == IF isNew THEN [count |-> 0, pods |-> {}] ELSE records[fp]
    IN  /\ records' = [f \in DOMAIN records \union {fp} |->
                          IF f = fp THEN [count |-> old.count + 1, pods |-> old.pods \union {pod}]
                          ELSE records[f]]
        /\ analysed' = IF isNew THEN analysed \union {Len(passed)} ELSE analysed

(* Slip: the first event of each pod is taken for a new incident. *)
RecordEventPerPod(line, pod) ==
    LET fp == Fingerprint(Message(line))
        old == IF fp \in DOMAIN records THEN records[fp] ELSE [count |-> 0, pods |-> {}]
    IN  /\ records' = [f \in DOMAIN records \union {fp} |->
                          IF f = fp THEN [count |-> old.count + 1, pods |-> old.pods \union {pod}]
                          ELSE records[f]]
        /\ analysed' = IF pod \notin old.pods THEN analysed \union {Len(passed) + 1} ELSE analysed

(* A new record is analysed; RecordEvent and the pipeline that calls it. *)
RecordEvent(line, pod) ==
    LET fp == Fingerprint(Message(line))
        isNew == fp \notin DOMAIN records
        old == IF isNew THEN [count |-> 0, pods |-> {}] ELSE records[fp]
    IN  /\ records' = [f \in DOMAIN records \union {fp} |->
                          IF f = fp THEN [count |-> old.count + 1, pods |-> old.pods \union {pod}]
                          ELSE records[f]]
        /\ analysed' = IF isNew THEN analysed \union {Len(passed) + 1} ELSE analysed

(* A line comes out of a stream and passes the filter. *)
Arrive(line, pod) ==
    /\ Len(passed) < MaxLines
    /\ ShouldProcess(line)
    /\ RecordEvent(line, pod)
    /\ passed' = Append(passed, <<line, pod>>)

Next == \E line \in Lines, pod \in Pods : Arrive(line, pod)

Spec == Init /\ [][Next]_vars

-----------------------------------------------------------------------------
(* The same error, by what a reader would say and no regular expression.   *)

Said(message) ==
    {k \in DOMAIN message :
        \/ message[k].kind = "word"
        \/ message[k].kind = "level" /\ message[k].value \notin StopWords}

SameError(m, n) ==
    \E f \in Bijection(Said(m), Said(n)) : \A k \in Said(m) : n[f[k]] = m[k]

(* Nothing in it changes from line to line and is not recognised as such. *)
Recognised(message) ==
    \A k \in DOMAIN message : message[k].kind \notin {"iso", "uuidDigits", "rest"}

MessageOf(k) == Message(passed[k][1])

(***************************************************************************)
(* Whatever the order of their words, the form of their lines, and the     *)
(* addresses, numbers and recognised stamps in them, all events of one     *)
(* error are counted in one record, and it names all their pods.           *)
(***************************************************************************)
ErrorsAreGrouped ==
    \A k \in DOMAIN passed : Recognised(MessageOf(k)) =>
        LET same == {j \in DOMAIN passed :
                        Recognised(MessageOf(j)) /\ SameError(MessageOf(k), MessageOf(j))}
        IN  \E fp \in DOMAIN records :
                /\ records[fp].count >= Cardinality(same)
                /\ {passed[j][2] : j \in same} \subseteq records[fp].pods

(***************************************************************************)
(* An error is analysed once, however often and in whatever form it comes: *)
(* each analysis counts against the hourly limit.                          *)
(***************************************************************************)
OneAnalysisPerError ==
    \A k, j \in analysed :
        /\ Recognised(MessageOf(k)) /\ Recognised(MessageOf(j))
        /\ SameError(MessageOf(k), MessageOf(j))
        => k = j

(***************************************************************************)
(* The comments of Fingerprint and reTimestamp promise that time stamps    *)
(* are stripped, those of ISO 8601 by name: of two lines that differ in    *)
(* one, no more than one is analysed.                                      *)
(***************************************************************************)
StampsAreStripped ==
    \A k, j \in analysed :
        /\ Len(MessageOf(k)) = Len(MessageOf(j))
        /\ \A n \in DOMAIN MessageOf(k) :
              \/ MessageOf(k)[n] = MessageOf(j)[n]
              \/ MessageOf(k)[n].kind = "iso" /\ MessageOf(j)[n].kind = "iso"
        => k = j
=============================================================================
