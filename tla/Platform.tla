------------------------------ MODULE Platform ------------------------------
(***************************************************************************)
(* The hot reload of internal/controller: the platform controller replaces *)
(* the runtime components, one generation of them after the other, while   *)
(* the policy controller starts log streams through whichever generation   *)
(* the package-level variable platformComponents shows it.                 *)
(*                                                                         *)
(* A generation has a context, a Watcher, a channel logCh, a pipeline that *)
(* drains it and a store.  Its streams live on a context of the policy     *)
(* controller, not on the generation's.  What is followed here is how      *)
(* often which store counts which line, and how much of it reaches the     *)
(* Incidents: a new store loads what was saved, and a new stream, after a  *)
(* reload or a broken connection, reads the tail of the log again.  How a  *)
(* connection breaks and how a record is written are left to Watcher,      *)
(* LogStream and IncidentStore, a restart of the process to the latter.    *)
(***************************************************************************)
EXTENDS Naturals, Sequences

CONSTANTS
    Containers,      \* selected by the policy, and running
    TailLines,       \* how far back a new stream begins
    Capacity,        \* of logCh
    MaxGenerations,  \* bound: generations built
    MaxLines,        \* bound: lines a container writes
    MaxReconnects    \* bound: connections that break

ASSUME BoundsAssumption ==
    MaxGenerations \in Nat /\ MaxLines \in Nat /\ MaxReconnects \in Nat
ASSUME CapacityAssumption == Capacity \in Nat \ {0}
ASSUME TailAssumption == TailLines \in Nat \ {0}

Generations == 1..MaxGenerations
Nil == 0

VARIABLES
    latest,    \* the generation built last
    global,    \* platformComponents: the generation everybody sees, or Nil
    alive,     \* generations whose context is not done
    building,  \* a platform reconcile is between tear-down and its result
    using,     \* the generation a policy reconcile has read, or Nil
    todo,      \* the containers it has still to start
    written,   \* lines each container has written
    stream,    \* the line each generation's stream reads next; 0 without one
    logCh,     \* the channel of each generation
    pipeline,  \* its runLogPipeline
    counted,   \* how often the records of its store count each line
    dropped,   \* the lines lost to a full channel
    saved,     \* the highest count of each line an Incident was ever given
    reconnects \* how many connections have broken

platformVars == <<latest, global, alive, building>>
policyVars == <<using, todo>>
lineVars == <<stream, logCh, counted, dropped, saved, reconnects>>
vars == <<latest, global, alive, building, using, todo, written, stream,
          logCh, pipeline, counted, dropped, saved, reconnects>>

Lines == Containers \X (1..MaxLines)

TypeOK ==
    /\ latest \in 0..MaxGenerations
    /\ global \in Generations \union {Nil}
    /\ alive \in SUBSET Generations
    /\ building \in BOOLEAN
    /\ using \in Generations \union {Nil}
    /\ todo \in SUBSET Containers
    /\ written \in [Containers -> 0..MaxLines]
    /\ stream \in [Generations -> [Containers -> 0..(MaxLines + 1)]]
    /\ logCh \in [Generations -> Seq(Lines)]
    /\ \A g \in Generations : Len(logCh[g]) <= Capacity
    /\ pipeline \in [Generations -> {"none", "running", "done"}]
    /\ counted \in [Generations -> [Lines -> Nat]]
    /\ dropped \in [Generations -> SUBSET Lines]
    /\ saved \in [Lines -> Nat]
    /\ reconnects \in 0..MaxReconnects

Init ==
    /\ latest = 0 /\ global = Nil /\ alive = {} /\ building = FALSE
    /\ using = Nil /\ todo = {}
    /\ written = [c \in Containers |-> 0]
    /\ stream = [g \in Generations |-> [c \in Containers |-> 0]]
    /\ logCh = [g \in Generations |-> <<>>]
    /\ pipeline = [g \in Generations |-> "none"]
    /\ counted = [g \in Generations |-> [line \in Lines |-> 0]]
    /\ dropped = [g \in Generations |-> {}]
    /\ saved = [line \in Lines |-> 0]
    /\ reconnects = 0

-----------------------------------------------------------------------------
(* LogIntelligencePlatformReconciler: one worker. *)

(* Slip: the old components are forgotten, not cancelled. *)
TearDownNothing ==
    /\ ~building /\ latest < MaxGenerations
    /\ building' = TRUE
    /\ UNCHANGED <<latest, global, alive, policyVars, written, lineVars, pipeline>>

(* ensurePlatformComponents begins: cancel what the global shows. *)
TearDown ==
    /\ ~building /\ latest < MaxGenerations
    /\ building' = TRUE
    /\ alive' = alive \ {global}
    /\ UNCHANGED <<latest, global, policyVars, written, lineVars, pipeline>>

(* No secret, no embedder, no Qdrant client: the global keeps what is dead. *)
BuildFails ==
    /\ building
    /\ building' = FALSE
    /\ UNCHANGED <<latest, global, alive, policyVars, written, lineVars, pipeline>>

(* Slip: the new store goes on with the records of the old one. *)
LoadedFromMemory ==
    {IF global = Nil THEN [line \in Lines |-> 0] ELSE counted[global]}

(* LoadExistingIncidents: any count may be stale, resolved or not listed at all. *)
Loaded ==
    {counts \in [Lines -> UNION {0..saved[line] : line \in Lines}] :
        \A line \in Lines : counts[line] <= saved[line]}

(* Slip: the new components are never published. *)
InstallUnseen ==
    LET g == latest + 1 IN
    /\ building
    /\ building' = FALSE
    /\ latest' = g
    /\ global' = IF global = Nil THEN g ELSE global
    /\ alive' = alive \union {g}
    /\ pipeline' = [pipeline EXCEPT ![g] = "running"]
    /\ \E counts \in Loaded : counted' = [counted EXCEPT ![g] = counts]
    /\ UNCHANGED <<policyVars, written, stream, logCh, dropped, saved, reconnects>>

(***************************************************************************)
(* The new generation: its store loads the Incidents, its pipeline starts, *)
(* and the global shows it.                                                *)
(***************************************************************************)
Install ==
    LET g == latest + 1 IN
    /\ building
    /\ building' = FALSE
    /\ latest' = g
    /\ global' = g
    /\ alive' = alive \union {g}
    /\ pipeline' = [pipeline EXCEPT ![g] = "running"]
    /\ \E counts \in Loaded : counted' = [counted EXCEPT ![g] = counts]
    /\ UNCHANGED <<policyVars, written, stream, logCh, dropped, saved, reconnects>>

-----------------------------------------------------------------------------
(* LogWatchPolicyReconciler: one worker, one policy. *)

(* Reconcile, once there is a platform: syncWatchers takes its Watcher. *)
ReadGlobal ==
    /\ using = Nil /\ global # Nil
    /\ using' = global
    /\ todo' = Containers
    /\ UNCHANGED <<platformVars, written, lineVars, pipeline>>

(* Slip: a new stream begins with what comes next. *)
TailOfNothing(c) == written[c] + 1

(* The first line of a new stream. *)
TailOf(c) == IF written[c] > TailLines THEN written[c] - TailLines + 1 ELSE 1

(* Slip: a container that is streamed already is started again. *)
StartAgain(c) ==
    /\ using # Nil /\ c \in todo
    /\ todo' = todo \ {c}
    /\ stream' = [stream EXCEPT ![using][c] = TailOf(c)]
    /\ UNCHANGED <<platformVars, using, written, logCh, pipeline, counted, dropped,
                   saved, reconnects>>

(* StartWatchingPod, a no-op for a container that Watcher already streams. *)
StartWatchingPod(c) ==
    /\ using # Nil /\ c \in todo
    /\ todo' = todo \ {c}
    /\ stream' = IF stream[using][c] # 0 THEN stream
                 ELSE [stream EXCEPT ![using][c] = TailOf(c)]
    /\ UNCHANGED <<platformVars, using, written, logCh, pipeline, counted, dropped,
                   saved, reconnects>>

(* It has started them all, or a listing of pods failed: until next time. *)
PolicyDone ==
    /\ using # Nil
    /\ using' = Nil
    /\ todo' = {}
    /\ UNCHANGED <<platformVars, written, lineVars, pipeline>>

-----------------------------------------------------------------------------
(* The lines. *)

Write(c) ==
    /\ written[c] < MaxLines
    /\ written' = [written EXCEPT ![c] = @ + 1]
    /\ UNCHANGED <<platformVars, policyVars, lineVars, pipeline>>

(* Slip: one entry more than the channel holds. *)
ReadLineBeyond(g, c) ==
    LET n == stream[g][c] IN
    /\ n # 0 /\ n <= written[c]
    /\ stream' = [stream EXCEPT ![g][c] = n + 1]
    /\ IF Len(logCh[g]) <= Capacity
       THEN logCh' = [logCh EXCEPT ![g] = Append(@, <<c, n>>)] /\ UNCHANGED dropped
       ELSE dropped' = [dropped EXCEPT ![g] = @ \union {<<c, n>>}] /\ UNCHANGED logCh
    /\ UNCHANGED <<platformVars, policyVars, written, pipeline, counted, saved, reconnects>>

(* A stream passes its next line on, or drops it. *)
ReadLine(g, c) ==
    LET n == stream[g][c] IN
    /\ n # 0 /\ n <= written[c]
    /\ stream' = [stream EXCEPT ![g][c] = n + 1]
    /\ IF Len(logCh[g]) < Capacity
       THEN logCh' = [logCh EXCEPT ![g] = Append(@, <<c, n>>)] /\ UNCHANGED dropped
       ELSE dropped' = [dropped EXCEPT ![g] = @ \union {<<c, n>>}] /\ UNCHANGED logCh
    /\ UNCHANGED <<platformVars, policyVars, written, pipeline, counted, saved, reconnects>>

(* A broken connection: streamWithRetry opens the stream again, at the tail. *)
Reconnect(g, c) ==
    /\ stream[g][c] # 0 /\ reconnects < MaxReconnects
    /\ stream' = [stream EXCEPT ![g][c] = TailOf(c)]
    /\ reconnects' = reconnects + 1
    /\ UNCHANGED <<platformVars, policyVars, written, pipeline, logCh, counted, dropped, saved>>

(***************************************************************************)
(* One turn of runLogPipeline: an entry is recorded in the generation's    *)
(* store.  With the context done and an entry waiting, either case of the  *)
(* select may win.                                                         *)
(***************************************************************************)
Receive(g) ==
    /\ pipeline[g] = "running" /\ logCh[g] # <<>>
    /\ counted' = [counted EXCEPT ![g][Head(logCh[g])] = @ + 1]
    /\ logCh' = [logCh EXCEPT ![g] = Tail(@)]
    /\ UNCHANGED <<platformVars, policyVars, written, stream, pipeline, dropped,
                   saved, reconnects>>

PipelineReturns(g) ==
    /\ pipeline[g] = "running" /\ g \notin alive
    /\ pipeline' = [pipeline EXCEPT ![g] = "done"]
    /\ UNCHANGED <<platformVars, policyVars, written, lineVars>>

(***************************************************************************)
(* syncRecord writes what a store counts to the Incident, as long as its   *)
(* generation lives.  A write that lands late, after the next store has    *)
(* loaded, is one that store did not see.                                  *)
(***************************************************************************)
SyncRecord(g, line) ==
    /\ g \in alive
    /\ counted[g][line] > saved[line]
    /\ saved' = [saved EXCEPT ![line] = counted[g][line]]
    /\ UNCHANGED <<platformVars, policyVars, written, pipeline, stream, logCh,
                   counted, dropped, reconnects>>

Next ==
    \/ TearDown \/ BuildFails \/ Install
    \/ ReadGlobal \/ PolicyDone
    \/ \E c \in Containers : StartWatchingPod(c) \/ Write(c)
    \/ \E g \in Generations :
          \/ Receive(g) \/ PipelineReturns(g)
          \/ \E c \in Containers : ReadLine(g, c) \/ Reconnect(g, c)
          \/ \E line \in Lines : SyncRecord(g, line)

Spec == Init /\ [][Next]_vars

(***************************************************************************)
(* A reconcile comes to an end; the policy is requeued for ever and its    *)
(* listings do not fail for ever; goroutines run.                          *)
(***************************************************************************)
Fairness ==
    /\ WF_vars(BuildFails \/ Install)
    /\ WF_vars(ReadGlobal)
    /\ WF_vars(PolicyDone)
    /\ \A c \in Containers : SF_vars(StartWatchingPod(c))
    /\ \A g \in Generations :
          /\ WF_vars(Receive(g))
          /\ WF_vars(PipelineReturns(g))
          /\ \A c \in Containers : WF_vars(ReadLine(g, c))

FairSpec == Spec /\ Fairness

-----------------------------------------------------------------------------
(***************************************************************************)
(* There is one live generation at most, and it is the one everybody sees: *)
(* no two stores synchronise to the same Incidents, whichever reloads      *)
(* succeed and whichever fail after the tear-down.                         *)
(***************************************************************************)
OneLiveGeneration == \A g \in alive : g = global /\ pipeline[g] = "running"

(***************************************************************************)
(* Incidents have one owner at a time, which began with nothing but what   *)
(* was saved: no entry that an old pipeline still takes after its context  *)
(* is done, and no stream started through a Watcher that has been          *)
(* replaced, shows in what the owner has counted or an Incident is given;  *)
(* and no store comes back.                                                *)
(***************************************************************************)
Owner == IF alive = {} THEN Nil ELSE global
Promise == INSTANCE OneStore WITH
    Stores <- Generations,
    Nobody <- Nil,
    written <- {line \in Lines : line[2] <= written[line[1]]},
    owner <- Owner,
    used <- 1..latest,
    seen <- IF Owner = Nil THEN [line \in Lines |-> 0] ELSE counted[Owner]
ImplementsOneStore == Promise!Spec

(***************************************************************************)
(* A line is counted again for each replay, but not more often: however    *)
(* reloads, broken connections, late receives and loads interleave, no     *)
(* Incident is given more than one count of a line for each generation     *)
(* built and each connection broken.                                       *)
(***************************************************************************)
CountedOncePerReplay == \A line \in Lines : saved[line] <= latest + reconnects

(***************************************************************************)
(* The safety of the replay.  Whichever Watcher a policy reconcile started *)
(* a container through, and whatever was written, reloaded or dropped in   *)
(* the meantime: a line of the tail that a stream has gone past is in its  *)
(* own generation's store or channel, unless that channel was full.        *)
(***************************************************************************)
Waiting(g) == {logCh[g][i] : i \in DOMAIN logCh[g]}

NoLineSkipped ==
    \A g \in Generations, c \in Containers, n \in 1..MaxLines :
        n < stream[g][c] /\ written[c] < n + TailLines =>
            \/ <<c, n>> \in Waiting(g) \union dropped[g]
            \/ counted[g][<<c, n>>] > 0

(***************************************************************************)
(* A reload does not leave a container behind: once the reloads are over   *)
(* and one has succeeded, every container ends up streamed by the          *)
(* generation that is alive, though a policy reconcile may have started it *)
(* through the previous one.                                               *)
(***************************************************************************)
EveryContainerStreamed ==
    \A c \in Containers :
        <>[](alive # {}) => <>[](\A g \in alive : stream[g][c] # 0)

(***************************************************************************)
(* A reload costs no line of the tail: what was still in the old channel,  *)
(* or only counted by the old store, reaches the live store through the    *)
(* replay of the new stream (or is dropped at its full channel).           *)
(***************************************************************************)
EveryLineCounted ==
    \A c \in Containers, n \in 1..MaxLines :
        <>[](alive # {}) =>
            <>[](\A g \in alive :
                    n <= written[c] /\ written[c] < n + TailLines =>
                        counted[g][<<c, n>>] > 0 \/ <<c, n>> \in dropped[g])

(***************************************************************************)
(* "tears down the old goroutines and starts fresh ones": the streams of a *)
(* generation that has been replaced end.                                  *)
(***************************************************************************)
ReplacedStreamsEnd ==
    \A g \in Generations, c \in Containers :
        (stream[g][c] # 0 /\ g # global) ~> (stream[g][c] = 0)
=============================================================================
