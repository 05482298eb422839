----------------------------- MODULE LogStream -----------------------------
(***************************************************************************)
(* What the streams of internal/logwatcher carry: the lines of the watched *)
(* containers, through the filter, into the one bounded channel that the   *)
(* log pipeline drains (internal/controller,                               *)
(* logintelligenceplatform_controller.go).                                 *)
(*                                                                         *)
(* The lines of a container are numbered in the order it writes them.      *)
(* Which goroutine serves a container, and when it gives up, is Watcher's  *)
(* subject: here every container has one goroutine, which may reconnect.   *)
(***************************************************************************)
EXTENDS Naturals, Sequences, SequencesExt, FiniteSets

CONSTANTS
    Containers,
    Noise,         \* the numbers of the lines the filter rejects
    TailLines,     \* tailLines: how far back a new stream begins
    Capacity,      \* of logCh
    MaxLines,      \* bound: lines a container writes
    MaxConnects    \* bound: streams opened for a container

ASSUME BoundsAssumption == MaxLines \in Nat /\ MaxConnects \in Nat
ASSUME CapacityAssumption == Capacity \in Nat \ {0}
ASSUME TailAssumption == TailLines \in Nat \ {0}

VARIABLES
    written,    \* lines each container has written
    pc,         \* where each streaming goroutine is
    next,       \* the line its stream yields next
    connects,   \* streams it has opened
    cancelled,  \* its context is done
    lateSends,  \* entries it sent after that
    dropped,    \* lines discarded because logCh was full
    logCh,      \* the channel
    received    \* what the pipeline has taken out of it, in order

streamVars == <<pc, next, connects>>
vars == <<written, pc, next, connects, cancelled, lateSends, dropped, logCh, received>>

Entry(c, n) == [container |-> c, line |-> n]
Entries == [container : Containers, line : 1..MaxLines]

TypeOK ==
    /\ written \in [Containers -> 0..MaxLines]
    /\ pc \in [Containers -> {"closed", "read", "send", "done"}]
    /\ next \in [Containers -> 1..(MaxLines + 1)]
    /\ connects \in [Containers -> 0..MaxConnects]
    /\ cancelled \in [Containers -> BOOLEAN]
    /\ lateSends \in [Containers -> Nat]
    /\ dropped \in [Containers -> SUBSET (1..MaxLines)]
    /\ logCh \in Seq(Entries) /\ Len(logCh) <= Capacity
    /\ received \in Seq(Entries)

Init ==
    /\ written = [c \in Containers |-> 0]
    /\ pc = [c \in Containers |-> "closed"]
    /\ next = [c \in Containers |-> 1]
    /\ connects = [c \in Containers |-> 0]
    /\ cancelled = [c \in Containers |-> FALSE]
    /\ lateSends = [c \in Containers |-> 0]
    /\ dropped = [c \in Containers |-> {}]
    /\ logCh = <<>>
    /\ received = <<>>

-----------------------------------------------------------------------------
Write(c) ==
    /\ written[c] < MaxLines
    /\ written' = [written EXCEPT ![c] = @ + 1]
    /\ UNCHANGED <<streamVars, cancelled, lateSends, dropped, logCh, received>>

(* Slip: only what is written from now on. *)
OpenAtEnd(c) ==
    /\ pc[c] = "closed" /\ ~cancelled[c]
    /\ connects[c] < MaxConnects
    /\ connects' = [connects EXCEPT ![c] = @ + 1]
    /\ next' = [next EXCEPT ![c] = written[c] + 1]
    /\ pc' = [pc EXCEPT ![c] = "read"]
    /\ UNCHANGED <<written, cancelled, lateSends, dropped, logCh, received>>

(* A followed stream begins with the last TailLines lines, read before or not. *)
Open(c) ==
    /\ pc[c] = "closed" /\ ~cancelled[c]
    /\ connects[c] < MaxConnects
    /\ connects' = [connects EXCEPT ![c] = @ + 1]
    /\ next' = [next EXCEPT ![c] = IF written[c] > TailLines THEN written[c] - TailLines + 1 ELSE 1]
    /\ pc' = [pc EXCEPT ![c] = "read"]
    /\ UNCHANGED <<written, cancelled, lateSends, dropped, logCh, received>>

(* ShouldProcess, on a line that Normalize has parsed. *)
ShouldProcess(n) == n \notin Noise

(* Slip: the context is not looked at between lines. *)
ScanOn(c) ==
    /\ pc[c] = "read" /\ next[c] <= written[c]
    /\ IF ShouldProcess(next[c])
       THEN pc' = [pc EXCEPT ![c] = "send"] /\ UNCHANGED next
       ELSE next' = [next EXCEPT ![c] = @ + 1] /\ UNCHANGED pc
    /\ UNCHANGED <<written, connects, cancelled, lateSends, dropped, logCh, received>>

(* One Scan: leave when cancelled, skip noise, or go on to send the line. *)
Scan(c) ==
    /\ pc[c] = "read" /\ next[c] <= written[c]
    /\ \/ /\ cancelled[c]
          /\ pc' = [pc EXCEPT ![c] = "done"] /\ UNCHANGED next
       \/ /\ ~cancelled[c] /\ ShouldProcess(next[c])
          /\ pc' = [pc EXCEPT ![c] = "send"] /\ UNCHANGED next
       \/ /\ ~cancelled[c] /\ ~ShouldProcess(next[c])
          /\ next' = [next EXCEPT ![c] = @ + 1] /\ UNCHANGED pc
    /\ UNCHANGED <<written, connects, cancelled, lateSends, dropped, logCh, received>>

(* Slip: the line that was sent is not left behind. *)
SendAgain(c) ==
    /\ pc[c] = "send" /\ Len(logCh) < Capacity
    /\ logCh' = Append(logCh, Entry(c, next[c]))
    /\ pc' = [pc EXCEPT ![c] = "read"]
    /\ UNCHANGED <<written, next, connects, cancelled, lateSends, dropped, received>>

(* Slip: one entry more than the channel holds. *)
SendBeyond(c) ==
    /\ pc[c] = "send" /\ Len(logCh) <= Capacity
    /\ logCh' = Append(logCh, Entry(c, next[c]))
    /\ pc' = [pc EXCEPT ![c] = "read"] /\ next' = [next EXCEPT ![c] = @ + 1]
    /\ UNCHANGED <<written, connects, cancelled, lateSends, dropped, received>>

(***************************************************************************)
(* The select of the send.  A channel with room and a done context are     *)
(* both ready, and either may win; only when neither is does the line go.  *)
(***************************************************************************)
Send(c) ==
    /\ pc[c] = "send"
    /\ \/ /\ Len(logCh) < Capacity
          /\ logCh' = Append(logCh, Entry(c, next[c]))
          /\ lateSends' = [lateSends EXCEPT ![c] = IF cancelled[c] THEN @ + 1 ELSE @]
          /\ pc' = [pc EXCEPT ![c] = "read"] /\ next' = [next EXCEPT ![c] = @ + 1]
          /\ UNCHANGED dropped
       \/ /\ cancelled[c]
          /\ pc' = [pc EXCEPT ![c] = "done"]
          /\ UNCHANGED <<next, logCh, lateSends, dropped>>
       \/ /\ Len(logCh) = Capacity /\ ~cancelled[c]
          /\ dropped' = [dropped EXCEPT ![c] = @ \union {next[c]}]
          /\ pc' = [pc EXCEPT ![c] = "read"] /\ next' = [next EXCEPT ![c] = @ + 1]
          /\ UNCHANGED <<logCh, lateSends>>
    /\ UNCHANGED <<written, connects, cancelled, received>>

(* The stream ends or is cut off, read to its end or not. *)
Disconnect(c) ==
    /\ pc[c] = "read"
    /\ pc' = [pc EXCEPT ![c] = IF cancelled[c] THEN "done" ELSE "closed"]
    /\ UNCHANGED <<written, next, connects, cancelled, lateSends, dropped, logCh, received>>

Cancel(c) ==
    /\ ~cancelled[c]
    /\ cancelled' = [cancelled EXCEPT ![c] = TRUE]
    /\ UNCHANGED <<written, streamVars, lateSends, dropped, logCh, received>>

(* runLogPipeline takes the oldest entry. *)
Receive ==
    /\ logCh # <<>>
    /\ received' = Append(received, Head(logCh))
    /\ logCh' = SubSeq(logCh, 2, Len(logCh))
    /\ UNCHANGED <<written, streamVars, cancelled, lateSends, dropped>>

Next ==
    \/ \E c \in Containers :
          Write(c) \/ Open(c) \/ Scan(c) \/ Send(c) \/ Disconnect(c) \/ Cancel(c)
    \/ Receive

Spec == Init /\ [][Next]_vars

-----------------------------------------------------------------------------
(* Everything sent, in the order the pipeline gets to see it. *)
Sent == received \o logCh

(* Where sequence s goes back: an entry of c no later than the one of c before it. *)
GoesBack(s, c) ==
    {i \in DOMAIN s :
        /\ s[i].container = c
        /\ \E j \in 1..(i - 1) :
              /\ s[j].container = c /\ s[i].line <= s[j].line
              /\ \A k \in (j + 1)..(i - 1) : s[k].container # c}

(***************************************************************************)
(* The pipeline sees the lines of a container in the order it wrote them,  *)
(* each once, except that every reconnect may go back: what it is given is *)
(* at most one ascending run per stream that was opened.  (Occurrence      *)
(* counts downstream are off by at most the replays this allows.)          *)
(***************************************************************************)
OneAscendingRunPerStream ==
    \A c \in Containers :
        Cardinality(GoesBack(Sent, c)) <= IF connects[c] = 0 THEN 0 ELSE connects[c] - 1

(***************************************************************************)
(* Cancelling a stream silences it: at most the one entry whose send was   *)
(* already under way still arrives, though the select may prefer the       *)
(* channel over the done context.                                          *)
(***************************************************************************)
OneLateSend == \A c \in Containers : lateSends[c] <= 1

(***************************************************************************)
(* No gap inside the tail: of the last TailLines lines of a container,     *)
(* every matching one its stream has passed was delivered or knowingly     *)
(* dropped, across any reconnects.                                         *)
(***************************************************************************)
NothingLostInTail ==
    \A c \in Containers : \A n \in 1..(next[c] - 1) :
        ShouldProcess(n) /\ written[c] < n + TailLines =>
            Entry(c, n) \in ToSet(Sent) \/ n \in dropped[c]
=============================================================================
