--------------------------- MODULE PlatformProofs ---------------------------
(***************************************************************************)
(* Theorems about Platform: for any containers, channel capacity and tail, *)
(* and any number of generations and lines.                                *)
(***************************************************************************)
EXTENDS Platform, FiniteSetTheorems, TLAPS

USE BoundsAssumption, CapacityAssumption, TailAssumption

-----------------------------------------------------------------------------
(***************************************************************************)
(* What makes both theorems inductive: while a reconcile is between its    *)
(* tear-down and its result nothing is alive and there is room for one     *)
(* more generation; a policy that has something to start has read a global.*)
(***************************************************************************)
Replacing ==
    /\ building => alive = {} /\ latest < MaxGenerations
    /\ using = Nil => todo = {}

IInv == TypeOK /\ OneLiveGeneration /\ Replacing

LEMMA InitInv == ASSUME Init PROVE IInv
<1> USE DEF Init
<1>1. latest \in 0..MaxGenerations /\ written \in [Containers -> 0..MaxLines]
  OBVIOUS
<1>2. stream \in [Generations -> [Containers -> 0..(MaxLines + 1)]]
  OBVIOUS
<1>3. /\ logCh \in [Generations -> Seq(Lines)]
      /\ \A g \in Generations : Len(logCh[g]) <= Capacity
  <2>1. <<>> \in Seq(Lines) /\ Len(<<>>) = 0
    OBVIOUS
  <2> QED
    BY <2>1
<1>4. /\ global \in Generations \union {Nil} /\ using \in Generations \union {Nil}
      /\ alive \in SUBSET Generations /\ building \in BOOLEAN /\ todo \in SUBSET Containers
  OBVIOUS
<1>5. /\ pipeline \in [Generations -> {"none", "running", "done"}]
      /\ counted \in [Generations -> [Lines -> Nat]]
      /\ dropped \in [Generations -> SUBSET Lines]
      /\ saved \in [Lines -> Nat] /\ reconnects \in 0..MaxReconnects
  OBVIOUS
<1>6. OneLiveGeneration /\ Replacing
  BY DEF OneLiveGeneration, Replacing
<1> QED
  BY <1>1, <1>2, <1>3, <1>4, <1>5, <1>6 DEF IInv, TypeOK

(* A stream that exists reads a line, and a new one begins with a line. *)
LEMMA StreamType ==
    ASSUME TypeOK, NEW g \in Generations, NEW c \in Containers, NEW n \in 0..(MaxLines + 1)
    PROVE  [stream EXCEPT ![g][c] = n] \in [Generations -> [Containers -> 0..(MaxLines + 1)]]
BY DEF TypeOK

LEMMA TailType ==
    ASSUME TypeOK, NEW c \in Containers
    PROVE  TailOf(c) \in 0..(MaxLines + 1)
<1>1. written[c] \in 0..MaxLines
  BY DEF TypeOK
<1> QED
  BY <1>1 DEF TailOf

(* A count that grows by one is a count, and no other one changes. *)
LEMMA CountType ==
    ASSUME TypeOK, NEW g \in Generations, NEW line \in Lines,
           counted' = [counted EXCEPT ![g][line] = @ + 1]
    PROVE  /\ counted' \in [Generations -> [Lines -> Nat]]
           /\ counted'[g][line] = counted[g][line] + 1
           /\ counted'[g] = [counted[g] EXCEPT ![line] = @ + 1]
           /\ \A h \in Generations : h # g => counted'[h] = counted[h]
           /\ \A h \in Generations, l \in Lines :
                 h # g \/ l # line => counted'[h][l] = counted[h][l]
<1>1. counted \in [Generations -> [Lines -> Nat]]
  BY DEF TypeOK
<1>2. counted[g] \in [Lines -> Nat] /\ counted[g][line] \in Nat
  BY <1>1
<1> DEFINE new == [counted[g] EXCEPT ![line] = counted[g][line] + 1]
<1>3. new \in [Lines -> Nat]
  BY <1>2
<1>4. new[line] = counted[g][line] + 1 /\ \A l \in Lines : l # line => new[l] = counted[g][l]
  BY <1>2
<1>5. counted' = [counted EXCEPT ![g] = new]
  OBVIOUS
<1> HIDE DEF new
<1>6. counted'[g] = new /\ \A h \in Generations : h # g => counted'[h] = counted[h]
  BY <1>1, <1>5
<1>7. counted' \in [Generations -> [Lines -> Nat]]
  BY <1>1, <1>3, <1>5
<1>8. counted'[g] = [counted[g] EXCEPT ![line] = @ + 1]
  BY <1>6 DEF new
<1> QED
  BY <1>4, <1>6, <1>7, <1>8

(* What is loaded is a count of each line, no higher than what was saved. *)
LEMMA LoadedCounts ==
    ASSUME NEW counts \in Loaded
    PROVE  /\ counts \in [Lines -> Nat]
           /\ \A line \in Lines : counts[line] <= saved[line]
<1>1. UNION {0..saved[line] : line \in Lines} \subseteq Nat
  OBVIOUS
<1> QED
  BY <1>1 DEF Loaded

LEMMA StepInv ==
    ASSUME IInv, [Next]_vars
    PROVE  IInv'
<1> USE DEF IInv, TypeOK, platformVars, policyVars, lineVars
<1>1. CASE TearDown
  BY <1>1 DEF TearDown, OneLiveGeneration, Replacing, Generations
<1>2. CASE BuildFails
  BY <1>2 DEF BuildFails, OneLiveGeneration, Replacing
<1>3. CASE Install
  <2>1. latest + 1 \in Generations
    BY <1>3 DEF Install, Replacing, Generations
  <2>2. alive = {} /\ alive' = {latest + 1} /\ global' = latest + 1
    BY <1>3 DEF Install, Replacing
  <2>3. pipeline' = [pipeline EXCEPT ![latest + 1] = "running"]
    BY <1>3 DEF Install
  <2>4. latest' \in 0..MaxGenerations /\ building' = FALSE
    BY <1>3, <2>1 DEF Install, Generations
  <2>5. UNCHANGED <<using, todo, written, stream, logCh, dropped, saved, reconnects>>
    BY <1>3 DEF Install
  <2>9. counted' \in [Generations -> [Lines -> Nat]]
    <3>1. PICK counts \in Loaded : counted' = [counted EXCEPT ![latest + 1] = counts]
      BY <1>3 DEF Install
    <3> QED
      BY <3>1, LoadedCounts
  <2>6. TypeOK'
    <3>1. pipeline' \in [Generations -> {"none", "running", "done"}]
      BY <2>1, <2>3
    <3> QED
      BY <2>1, <2>2, <2>4, <2>5, <2>9, <3>1
  <2>7. OneLiveGeneration'
    BY <2>1, <2>2, <2>3 DEF OneLiveGeneration
  <2>8. Replacing'
    BY <2>4, <2>5 DEF Replacing
  <2> QED
    BY <2>6, <2>7, <2>8
<1>4. CASE ReadGlobal
  BY <1>4 DEF ReadGlobal, OneLiveGeneration, Replacing
<1>5. CASE PolicyDone
  BY <1>5 DEF PolicyDone, OneLiveGeneration, Replacing
<1>6. ASSUME NEW c \in Containers, StartWatchingPod(c) PROVE IInv'
  <2>1. using \in Generations
    BY <1>6 DEF StartWatchingPod
  <2>2. stream' = stream \/ stream' = [stream EXCEPT ![using][c] = TailOf(c)]
    BY <1>6 DEF StartWatchingPod
  <2>3. stream' \in [Generations -> [Containers -> 0..(MaxLines + 1)]]
    <3>1. CASE stream' = stream
      BY <3>1
    <3>2. CASE stream' = [stream EXCEPT ![using][c] = TailOf(c)]
      <4>1. [stream EXCEPT ![using][c] = TailOf(c)] \in [Generations -> [Containers -> 0..(MaxLines + 1)]]
        BY <2>1, TailType, StreamType
      <4> QED
        BY <3>2, <4>1
    <3> QED
      BY <2>2, <3>1, <3>2
  <2> QED
    BY <1>6, <2>3 DEF StartWatchingPod, OneLiveGeneration, Replacing
<1>7. ASSUME NEW c \in Containers, Write(c) PROVE IInv'
  BY <1>7 DEF Write, OneLiveGeneration, Replacing
<1>8. ASSUME NEW g \in Generations, NEW c \in Containers, ReadLine(g, c) PROVE IInv'
  <2> DEFINE n == stream[g][c]
  <2>1. n \in 0..(MaxLines + 1) /\ written[c] \in 0..MaxLines
    BY DEF TypeOK
  <2>2. n \in 1..MaxLines
    BY <1>8, <2>1 DEF ReadLine
  <2>3. <<c, n>> \in Lines
    BY <2>2 DEF Lines
  <2>4. n + 1 \in 0..(MaxLines + 1) /\ stream' = [stream EXCEPT ![g][c] = n + 1]
    BY <1>8, <2>2 DEF ReadLine
  <2> HIDE DEF n
  <2>5. stream' \in [Generations -> [Containers -> 0..(MaxLines + 1)]]
    BY <2>4, StreamType
  <2>6. /\ logCh' \in [Generations -> Seq(Lines)]
        /\ \A h \in Generations : Len(logCh'[h]) <= Capacity
        /\ dropped' \in [Generations -> SUBSET Lines]
    <3>1. CASE Len(logCh[g]) < Capacity
      <4>1. logCh' = [logCh EXCEPT ![g] = Append(logCh[g], <<c, n>>)] /\ dropped' = dropped
        BY <1>8, <3>1 DEF ReadLine, n
      <4>2. /\ Append(logCh[g], <<c, n>>) \in Seq(Lines)
            /\ Len(Append(logCh[g], <<c, n>>)) = Len(logCh[g]) + 1
        BY <2>3
      <4> QED
        BY <3>1, <4>1, <4>2
    <3>2. CASE ~(Len(logCh[g]) < Capacity)
      <4>1. /\ dropped' = [dropped EXCEPT ![g] = dropped[g] \union {<<c, n>>}]
            /\ logCh' = logCh
        BY <1>8, <3>2 DEF ReadLine, n
      <4> QED
        BY <2>3, <4>1
    <3> QED
      BY <3>1, <3>2
  <2> QED
    BY <1>8, <2>5, <2>6 DEF ReadLine, OneLiveGeneration, Replacing
<1>9. ASSUME NEW g \in Generations, Receive(g) PROVE IInv'
  <2>1. logCh[g] \in Seq(Lines) /\ logCh[g] # <<>>
    BY <1>9 DEF Receive
  <2>2. /\ Head(logCh[g]) \in Lines /\ Tail(logCh[g]) \in Seq(Lines)
        /\ Len(Tail(logCh[g])) <= Len(logCh[g])
    BY <2>1
  <2>3. /\ logCh' = [logCh EXCEPT ![g] = Tail(logCh[g])]
        /\ counted' = [counted EXCEPT ![g][Head(logCh[g])] = @ + 1]
    BY <1>9 DEF Receive
  <2>4. counted' \in [Generations -> [Lines -> Nat]]
    <3> DEFINE entry == Head(logCh[g])
    <3>1. entry \in Lines /\ counted' = [counted EXCEPT ![g][entry] = @ + 1]
      BY <2>2, <2>3
    <3> HIDE DEF entry
    <3>2. TypeOK
      OBVIOUS
    <3> HIDE DEF TypeOK
    <3> QED
      BY <3>1, <3>2, CountType
  <2>5. /\ logCh' \in [Generations -> Seq(Lines)]
        /\ \A h \in Generations : Len(logCh'[h]) <= Capacity
    BY <2>2, <2>3
  <2> QED
    BY <1>9, <2>4, <2>5 DEF Receive, OneLiveGeneration, Replacing
<1>10. ASSUME NEW g \in Generations, PipelineReturns(g) PROVE IInv'
  BY <1>10 DEF PipelineReturns, OneLiveGeneration, Replacing
<1>11. ASSUME NEW g \in Generations, NEW c \in Containers, Reconnect(g, c) PROVE IInv'
  <2>1. stream' = [stream EXCEPT ![g][c] = TailOf(c)] /\ reconnects' \in 0..MaxReconnects
    BY <1>11 DEF Reconnect
  <2>2. stream' \in [Generations -> [Containers -> 0..(MaxLines + 1)]]
    BY <2>1, TailType, StreamType
  <2> QED
    BY <1>11, <2>1, <2>2 DEF Reconnect, OneLiveGeneration, Replacing
<1>12. ASSUME NEW g \in Generations, NEW line \in Lines, SyncRecord(g, line) PROVE IInv'
  <2>1. counted[g][line] \in Nat
    OBVIOUS
  <2> QED
    BY <1>12, <2>1 DEF SyncRecord, OneLiveGeneration, Replacing
<1>13. CASE UNCHANGED vars
  BY <1>13 DEF vars, OneLiveGeneration, Replacing
<1> QED
  BY <1>1, <1>2, <1>3, <1>4, <1>5, <1>6, <1>7, <1>8, <1>9, <1>10, <1>11, <1>12, <1>13
  DEF Next

(* Every variable keeps its type. *)
THEOREM TypeCorrect == Spec => []TypeOK
<1>1. IInv => TypeOK
  BY DEF IInv
<1> QED
  BY InitInv, StepInv, <1>1, PTL DEF Spec

(***************************************************************************)
(* However often the platform is reloaded and however often that fails, at *)
(* most one generation is alive, and it is the published one.              *)
(***************************************************************************)
THEOREM OneLive == Spec => []OneLiveGeneration
<1>1. IInv => OneLiveGeneration
  BY DEF IInv
<1> QED
  BY InitInv, StepInv, <1>1, PTL DEF Spec

-----------------------------------------------------------------------------
(* What a channel holds, before and after a send or a receive. *)

LEMMA LineTypes ==
    ASSUME TypeOK, NEW g \in Generations, NEW c \in Containers
    PROVE  /\ stream[g][c] \in Nat /\ stream[g][c] <= MaxLines + 1
           /\ written[c] \in Nat /\ written[c] <= MaxLines
           /\ logCh[g] \in Seq(Lines)
<1>1. stream[g] \in [Containers -> 0..(MaxLines + 1)]
  BY DEF TypeOK
<1> QED
  BY <1>1 DEF TypeOK

Elements(s) == {s[i] : i \in DOMAIN s}

(* What is in a channel after a send and after a receive. *)
LEMMA SendWaits ==
    ASSUME NEW S, NEW s \in Seq(S), NEW x \in S
    PROVE  /\ Elements(s) \subseteq Elements(Append(s, x))
           /\ x \in Elements(Append(s, x))
<1> DEFINE n == Len(s)
           longer == Append(s, x)
<1>1. n \in Nat /\ DOMAIN s = 1..n /\ DOMAIN longer = 1..(n + 1) /\ longer[n + 1] = x
  OBVIOUS
<1>2. \A i \in 1..n : longer[i] = s[i] /\ i \in 1..(n + 1)
  OBVIOUS
<1>3. n + 1 \in 1..(n + 1)
  BY <1>1
<1> HIDE DEF n, longer
<1>4. Elements(s) \subseteq Elements(longer) /\ x \in Elements(longer)
  BY <1>1, <1>2, <1>3, Zenon DEF Elements
<1> QED
  BY <1>4 DEF longer

LEMMA ReceiveTakesOne ==
    ASSUME NEW S, NEW s \in Seq(S), s # <<>>
    PROVE  Elements(s) \subseteq Elements(Tail(s)) \union {Head(s)}
<1> DEFINE n == Len(s)
           rest == Tail(s)
<1>1. n \in Nat /\ DOMAIN s = 1..n /\ DOMAIN rest = 1..(n - 1) /\ s[1] = Head(s)
  OBVIOUS
<1>2. \A i \in 1..(n - 1) : rest[i] = s[i + 1]
  OBVIOUS
<1> HIDE DEF n, rest
<1>3. ASSUME NEW i \in 1..n PROVE s[i] \in {rest[j] : j \in 1..(n - 1)} \union {Head(s)}
  <2>1. CASE i = 1
    BY <1>1, <2>1
  <2>2. CASE i # 1
    <3>1. i - 1 \in 1..(n - 1) /\ (i - 1) + 1 = i
      BY <1>1, <2>2
    <3>2. s[i] = rest[i - 1]
      BY <1>2, <3>1
    <3> QED
      BY <3>1, <3>2
  <2> QED
    BY <2>1, <2>2
<1>4. Elements(s) \subseteq Elements(rest) \union {Head(s)}
  BY <1>1, <1>3 DEF Elements
<1> QED
  BY <1>4 DEF rest

LEMMA SendAddsOne ==
    ASSUME NEW S, NEW s \in Seq(S), NEW x \in S, NEW t, t = s \/ t = Append(s, x)
    PROVE  Elements(t) \subseteq Elements(s) \union {x}
<1>1. CASE t = s
  BY <1>1
<1>2. CASE t = Append(s, x)
  <2> DEFINE n == Len(s)
  <2>1. /\ n \in Nat /\ DOMAIN s = 1..n /\ DOMAIN t = 1..(n + 1)
        /\ t[n + 1] = x /\ \A i \in 1..n : t[i] = s[i]
    BY <1>2
  <2> HIDE DEF n
  <2>2. \A i \in 1..(n + 1) : i \in 1..n \/ i = n + 1
    BY <2>1
  <2> QED
    BY <2>1, <2>2, Zenon DEF Elements
<1> QED
  BY <1>1, <1>2

LEMMA TailIsPart ==
    ASSUME NEW S, NEW s \in Seq(S), s # <<>>
    PROVE  Elements(Tail(s)) \subseteq Elements(s)
<1> DEFINE n == Len(s)
           rest == Tail(s)
<1>1. n \in Nat /\ DOMAIN s = 1..n /\ DOMAIN rest = 1..(n - 1)
  OBVIOUS
<1>2. \A i \in 1..(n - 1) : rest[i] = s[i + 1]
  OBVIOUS
<1> HIDE DEF n, rest
<1>3. \A i \in 1..(n - 1) : i + 1 \in 1..n
  BY <1>1
<1>4. Elements(rest) \subseteq Elements(s)
  BY <1>1, <1>2, <1>3 DEF Elements
<1> QED
  BY <1>4 DEF rest

-----------------------------------------------------------------------------
(***************************************************************************)
(* What passes between generations.  One that has not been built yet is    *)
(* untouched, since nobody can have read it in the global, and only lines  *)
(* that were written are in the channels.                                  *)
(***************************************************************************)
Untouched(g) == logCh[g] = <<>> /\ \A c \in Containers : stream[g][c] = 0

HandOver ==
    /\ global <= latest /\ using <= latest
    /\ \A g \in Generations : g > latest => Untouched(g)
    /\ \A g \in Generations : \A line \in Waiting(g) : line[2] <= written[line[1]]

StoreInv == IInv /\ HandOver

LEMMA InitStoreInv == ASSUME Init PROVE StoreInv
<1>1. IInv
  BY InitInv
<1>2. \A g \in Generations : Untouched(g)
  BY DEF Init, Untouched
<1>3. \A g \in Generations : Waiting(g) = {}
  <2>1. ASSUME NEW g \in Generations PROVE DOMAIN logCh[g] = {}
    <3>1. logCh[g] = <<>> /\ <<>> \in Seq(Lines) /\ Len(<<>>) = 0
      BY DEF Init
    <3> QED
      BY <3>1
  <2> QED
    BY <2>1, Zenon DEF Waiting
<1>4. global <= latest /\ using <= latest
  BY DEF Init, Nil
<1> QED
  BY <1>1, <1>2, <1>3, <1>4 DEF StoreInv, HandOver

(* A line that waits, and what is counted, are lines of the containers. *)
LEMMA WaitingAreLines ==
    ASSUME TypeOK, NEW g \in Generations
    PROVE  Waiting(g) \subseteq Lines
<1>1. logCh[g] \in Seq(Lines)
  BY DEF TypeOK
<1>2. \A i \in DOMAIN logCh[g] : logCh[g][i] \in Lines
  BY <1>1
<1> QED
  BY <1>2 DEF Waiting

LEMMA NumbersAreNat ==
    ASSUME TypeOK
    PROVE  latest \in Nat /\ global \in Nat /\ using \in Nat
BY DEF TypeOK, Generations, Nil

(* A step that neither builds a generation nor touches a channel or a store. *)
LEMMA HandOverKept ==
    ASSUME HandOver, UNCHANGED <<latest, written, stream, logCh>>,
           global' <= latest, using' <= latest
    PROVE  HandOver'
BY DEF HandOver, Untouched, Waiting

LEMMA StoreStep ==
    ASSUME StoreInv, IInv', [Next]_vars
    PROVE  StoreInv'
<1> SUFFICES HandOver'
  BY DEF StoreInv
<1> USE DEF platformVars, policyVars, lineVars
<1>0. /\ TypeOK /\ latest \in Nat /\ global \in Nat /\ using \in Nat
      /\ global <= latest /\ using <= latest /\ HandOver
  BY NumbersAreNat DEF StoreInv, IInv, HandOver
<1>1. CASE TearDown \/ BuildFails
  BY <1>0, <1>1, HandOverKept DEF TearDown, BuildFails
<1>2. CASE Install
  <2>1. latest' = latest + 1 /\ global' = latest + 1
        /\ UNCHANGED <<using, written, stream, logCh>>
    BY <1>2 DEF Install
  <2>2. \A g \in Generations : g > latest' => g > latest
    BY <1>0, <2>1 DEF Generations
  <2>3. global' <= latest' /\ using' <= latest'
    BY <1>0, <2>1
  <2> QED
    BY <1>0, <2>1, <2>2, <2>3 DEF HandOver, Untouched, Waiting
<1>3. CASE ReadGlobal \/ PolicyDone
  BY <1>0, <1>3, HandOverKept DEF ReadGlobal, PolicyDone, Nil
<1>4. ASSUME NEW c \in Containers, StartWatchingPod(c) PROVE HandOver'
  <2>1. /\ using \in Generations
        /\ UNCHANGED <<latest, global, using, written, logCh>>
    BY <1>0, <1>4 DEF StartWatchingPod, TypeOK
  <2>2. \A g \in Generations, d \in Containers : g # using => stream'[g][d] = stream[g][d]
    BY <1>0, <1>4 DEF StartWatchingPod, TypeOK
  <2>3. \A g \in Generations : g > latest => g # using
    BY <1>0
  <2> QED
    BY <1>0, <2>1, <2>2, <2>3 DEF HandOver, Untouched, Waiting
<1>5. ASSUME NEW c \in Containers, Write(c) PROVE HandOver'
  <2>1. UNCHANGED <<latest, global, using, stream, logCh>>
    BY <1>5 DEF Write
  <2>2. \A d \in Containers : written[d] \in Nat /\ written'[d] \in Nat /\ written[d] <= written'[d]
    <3>1. \A d \in Containers : written[d] \in Nat
      BY <1>0 DEF TypeOK
    <3> QED
      BY <1>0, <1>5, <3>1 DEF Write, TypeOK
  <2>3. ASSUME NEW g \in Generations, NEW line \in Waiting(g)
        PROVE  line[2] <= written'[line[1]]
    <3>1. line \in Lines /\ line[2] <= written[line[1]]
      BY <1>0, WaitingAreLines DEF HandOver
    <3>2. line[1] \in Containers /\ line[2] \in Nat
      BY <3>1 DEF Lines
    <3> QED
      BY <2>2, <3>1, <3>2
  <2> QED
    BY <1>0, <2>1, <2>3 DEF HandOver, Untouched, Waiting
<1>6. ASSUME NEW g \in Generations, NEW c \in Containers, ReadLine(g, c) PROVE HandOver'
  <2> DEFINE n == stream[g][c]
  <2>1. /\ n # 0 /\ n <= written[c] /\ n \in Nat
        /\ UNCHANGED <<latest, global, using, written>>
    BY <1>0, <1>6, LineTypes DEF ReadLine
  <2>2. ~(g > latest)
    BY <1>0, <2>1 DEF HandOver, Untouched
  <2>3. \A h \in Generations : h # g =>
           logCh'[h] = logCh[h] /\ \A d \in Containers : stream'[h][d] = stream[h][d]
    BY <1>0, <1>6 DEF ReadLine, TypeOK
  <2>4. Waiting(g)' \subseteq Waiting(g) \union {<<c, n>>}
    <3>1. logCh'[g] = logCh[g] \/ logCh'[g] = Append(logCh[g], <<c, n>>)
      BY <1>0, <1>6 DEF ReadLine, TypeOK
    <3>2. <<c, n>> \in Lines /\ logCh[g] \in Seq(Lines)
      <4>1. n \in 1..MaxLines
        BY <1>0, <2>1, LineTypes
      <4> QED
        BY <1>0, <4>1, LineTypes DEF Lines
    <3> HIDE DEF n
    <3>3. Elements(logCh'[g]) \subseteq Elements(logCh[g]) \union {<<c, n>>}
      BY <3>1, <3>2, SendAddsOne
    <3> QED
      BY <3>3 DEF Waiting, Elements
  <2> HIDE DEF n
  <2>5. ASSUME NEW h \in Generations, NEW line \in Waiting(h)'
        PROVE  line[2] <= written[line[1]]
    <3>1. CASE h = g
      BY <1>0, <2>1, <2>4, <2>5, <3>1 DEF HandOver
    <3>2. CASE h # g
      <4>1. line \in Waiting(h)
        BY <2>3, <2>5, <3>2 DEF Waiting
      <4> QED
        BY <1>0, <4>1 DEF HandOver
    <3> QED
      BY <3>1, <3>2
  <2>6. ASSUME NEW h \in Generations, h > latest PROVE Untouched(h)'
    BY <1>0, <2>1, <2>2, <2>3, <2>6 DEF HandOver, Untouched
  <2> QED
    BY <1>0, <2>1, <2>5, <2>6 DEF HandOver
<1>7. ASSUME NEW g \in Generations, Receive(g) PROVE HandOver'
  <2>1. /\ logCh[g] # <<>> /\ logCh[g] \in Seq(Lines)
        /\ logCh'[g] = Tail(logCh[g])
        /\ UNCHANGED <<latest, global, using, written, stream>>
        /\ \A h \in Generations : h # g => logCh'[h] = logCh[h]
    BY <1>0, <1>7 DEF Receive, TypeOK
  <2>2. ~(g > latest)
    BY <1>0, <2>1 DEF HandOver, Untouched
  <2>3. Waiting(g)' \subseteq Waiting(g)
    <3>1. Elements(Tail(logCh[g])) \subseteq Elements(logCh[g])
      BY <2>1, TailIsPart
    <3> QED
      BY <2>1, <3>1 DEF Waiting, Elements
  <2>4. ASSUME NEW h \in Generations PROVE Waiting(h)' \subseteq Waiting(h)
    BY <2>1, <2>3 DEF Waiting
  <2>5. ASSUME NEW h \in Generations, h > latest PROVE Untouched(h)'
    BY <1>0, <2>1, <2>2, <2>5 DEF HandOver, Untouched
  <2> QED
    BY <1>0, <2>1, <2>4, <2>5 DEF HandOver
<1>8. ASSUME NEW g \in Generations, PipelineReturns(g) PROVE HandOver'
  BY <1>0, <1>8, HandOverKept DEF PipelineReturns
<1>9. ASSUME NEW g \in Generations, NEW c \in Containers, Reconnect(g, c) PROVE HandOver'
  <2>1. /\ stream[g][c] # 0
        /\ UNCHANGED <<latest, global, using, written, logCh>>
        /\ \A h \in Generations : h # g =>
              \A d \in Containers : stream'[h][d] = stream[h][d]
    BY <1>0, <1>9 DEF Reconnect, TypeOK
  <2>2. \A h \in Generations : h > latest => h # g
    BY <1>0, <2>1 DEF HandOver, Untouched
  <2> QED
    BY <1>0, <2>1, <2>2 DEF HandOver, Untouched, Waiting
<1>10. ASSUME NEW g \in Generations, NEW line \in Lines, SyncRecord(g, line) PROVE HandOver'
  BY <1>0, <1>10, HandOverKept DEF SyncRecord
<1>11. CASE UNCHANGED vars
  BY <1>0, <1>11, HandOverKept DEF vars
<1> QED
  BY <1>1, <1>2, <1>3, <1>4, <1>5, <1>6, <1>7, <1>8, <1>9, <1>10, <1>11 DEF Next

LEMMA AlwaysStoreInv == Spec => []StoreInv
<1>1. StoreInv /\ [Next]_vars => IInv'
  BY StepInv DEF StoreInv
<1>2. StoreInv /\ [Next]_vars => StoreInv'
  BY <1>1, StoreStep
<1> QED
  BY InitStoreInv, <1>2, PTL DEF Spec

-----------------------------------------------------------------------------
(***************************************************************************)
(* No line of the tail is skipped.  The invariant adds that a stream is at *)
(* most one line ahead of what is written, so that a line is written       *)
(* before a stream goes past it.  A generation without a stream owes       *)
(* nothing, so what its store loads does not matter.                       *)
(***************************************************************************)
NotAhead == \A g \in Generations, c \in Containers : stream[g][c] <= written[c] + 1

CountedBy(g) == {line \in Lines : counted[g][line] > 0}

NoneSkipped ==
    \A g \in Generations, c \in Containers, n \in 1..MaxLines :
        n < stream[g][c] /\ written[c] < n + TailLines =>
            <<c, n>> \in Waiting(g) \union CountedBy(g) \union dropped[g]

LineInv == TypeOK /\ NotAhead /\ NoneSkipped

LEMMA NoneIsSkipped == ASSUME NoneSkipped PROVE NoLineSkipped
BY DEF NoneSkipped, NoLineSkipped, CountedBy

LEMMA InitLineInv == ASSUME Init PROVE LineInv
<1>1. TypeOK
  BY InitInv DEF IInv
<1>2. \A g \in Generations, c \in Containers : stream[g][c] = 0 /\ written[c] = 0
  BY DEF Init
<1> QED
  BY <1>1, <1>2 DEF LineInv, NotAhead, NoneSkipped

LEMMA LineStep ==
    ASSUME LineInv, StoreInv, TypeOK', [Next]_vars
    PROVE  LineInv'
<1> USE DEF platformVars, policyVars, lineVars
<1>1. ASSUME UNCHANGED <<written, stream, logCh, counted, dropped>> PROVE LineInv'
  BY <1>1 DEF LineInv, NotAhead, NoneSkipped, Waiting, CountedBy
<1>2. ASSUME NEW g \in Generations, NEW c \in Containers,
             stream' = [stream EXCEPT ![g][c] = TailOf(c)],
             UNCHANGED <<written, logCh, counted, dropped>>
      PROVE  LineInv'
  <2>1. /\ stream'[g][c] = TailOf(c)
        /\ \A h \in Generations, d \in Containers :
              h # g \/ d # c => stream'[h][d] = stream[h][d]
    BY <1>2 DEF LineInv, TypeOK
  <2>2. written[c] \in Nat
    BY LineTypes DEF LineInv
  <2>3. /\ TailOf(c) <= written[c] + 1
        /\ \A n \in 1..MaxLines : ~(n < TailOf(c) /\ written[c] < n + TailLines)
    BY <2>2 DEF TailOf
  <2>4. NotAhead'
    <3>1. SUFFICES ASSUME NEW h \in Generations, NEW d \in Containers
                   PROVE  stream'[h][d] <= written[d] + 1
      BY <1>2 DEF NotAhead
    <3>2. CASE h = g /\ d = c
      BY <2>1, <2>3, <3>2
    <3>3. CASE h # g \/ d # c
      BY <2>1, <3>3 DEF LineInv, NotAhead
    <3> QED
      BY <3>2, <3>3
  <2>5. NoneSkipped'
    <3>1. SUFFICES ASSUME NEW h \in Generations, NEW d \in Containers, NEW n \in 1..MaxLines,
                          n < stream'[h][d], written[d] < n + TailLines
                   PROVE  <<d, n>> \in Waiting(h) \union CountedBy(h) \union dropped[h]
      BY <1>2 DEF NoneSkipped, Waiting, CountedBy
    <3>2. CASE h = g /\ d = c
      <4>1. n < TailOf(c) /\ written[c] < n + TailLines
        BY <2>1, <3>1, <3>2, Zenon
      <4> QED
        BY <2>3, <4>1
    <3>3. CASE h # g \/ d # c
      BY <2>1, <3>1, <3>3 DEF LineInv, NoneSkipped
    <3> QED
      BY <3>2, <3>3
  <2> QED
    BY <2>4, <2>5 DEF LineInv
<1>3. ASSUME NEW c \in Containers, Write(c) PROVE LineInv'
  <2>1. /\ \A d \in Containers : written[d] \in Nat /\ written'[d] \in Nat /\ written[d] <= written'[d]
        /\ UNCHANGED <<stream, logCh, counted, dropped>>
    <3>1. \A d \in Containers : written[d] \in Nat
      BY DEF LineInv, TypeOK
    <3> QED
      BY <1>3, <3>1 DEF Write, LineInv, TypeOK
  <2>2. NotAhead'
    BY <2>1, LineTypes DEF LineInv, NotAhead
  <2>3. NoneSkipped'
    <3>1. SUFFICES ASSUME NEW g \in Generations, NEW d \in Containers, NEW n \in 1..MaxLines,
                          n < stream[g][d], written'[d] < n + TailLines
                   PROVE  <<d, n>> \in Waiting(g) \union CountedBy(g) \union dropped[g]
      BY <2>1 DEF NoneSkipped, Waiting, CountedBy
    <3>2. written[d] < n + TailLines
      BY <2>1, <3>1
    <3> QED
      BY <3>1, <3>2 DEF LineInv, NoneSkipped
  <2> QED
    BY <2>2, <2>3 DEF LineInv
<1>4. ASSUME NEW g \in Generations, NEW c \in Containers, ReadLine(g, c) PROVE LineInv'
  <2> DEFINE n == stream[g][c]
  <2>1. n \in Nat /\ n <= written[c] /\ stream' = [stream EXCEPT ![g][c] = n + 1] /\ written' = written
        /\ counted' = counted
    BY <1>4, LineTypes DEF ReadLine, LineInv
  <2>2. /\ stream'[g][c] = n + 1
        /\ \A h \in Generations, d \in Containers :
              h # g \/ d # c => stream'[h][d] = stream[h][d]
    BY <2>1 DEF LineInv, TypeOK
  <2>3. /\ \A h \in Generations : /\ Waiting(h) \subseteq Waiting(h)'
                                  /\ dropped[h] \subseteq dropped'[h]
        /\ <<c, n>> \in Waiting(g)' \union dropped'[g]
    <3>1. CASE Len(logCh[g]) < Capacity
      <4>1. logCh' = [logCh EXCEPT ![g] = Append(logCh[g], <<c, n>>)] /\ dropped' = dropped
        BY <1>4, <3>1 DEF ReadLine
      <4>2. <<c, n>> \in Lines /\ logCh[g] \in Seq(Lines)
        <5>1. n \in 1..MaxLines
          BY <1>4, <2>1, LineTypes DEF ReadLine, LineInv
        <5> QED
          BY <5>1, LineTypes DEF Lines, LineInv
      <4>3. /\ logCh'[g] = Append(logCh[g], <<c, n>>)
            /\ \A h \in Generations : h # g => logCh'[h] = logCh[h]
        BY <4>1 DEF LineInv, TypeOK
      <4> HIDE DEF n
      <4>4. Waiting(g) \subseteq Waiting(g)' /\ <<c, n>> \in Waiting(g)'
        <5>1. /\ Elements(logCh[g]) \subseteq Elements(logCh'[g])
              /\ <<c, n>> \in Elements(logCh'[g])
          BY <4>2, <4>3, SendWaits
        <5>2. Waiting(g) = Elements(logCh[g]) /\ Waiting(g)' = Elements(logCh'[g])
          BY DEF Waiting, Elements
        <5> QED
          BY <5>1, <5>2
      <4>5. \A h \in Generations : h # g => Waiting(h)' = Waiting(h)
        BY <4>3 DEF Waiting
      <4> QED
        BY <4>1, <4>4, <4>5
    <3>2. CASE ~(Len(logCh[g]) < Capacity)
      <4>1. dropped' = [dropped EXCEPT ![g] = dropped[g] \union {<<c, n>>}] /\ logCh' = logCh
        BY <1>4, <3>2 DEF ReadLine
      <4>2. /\ dropped'[g] = dropped[g] \union {<<c, n>>}
            /\ \A h \in Generations : dropped[h] \subseteq dropped'[h]
        BY <4>1 DEF LineInv, TypeOK
      <4> QED
        BY <4>1, <4>2 DEF Waiting
    <3> QED
      BY <3>1, <3>2
  <2> HIDE DEF n
  <2>5. NotAhead'
    <3>1. SUFFICES ASSUME NEW h \in Generations, NEW d \in Containers
                   PROVE  stream'[h][d] <= written[d] + 1
      BY <2>1 DEF NotAhead
    <3>2. CASE h = g /\ d = c
      BY <2>1, <2>2, <3>2, LineTypes DEF LineInv
    <3>3. CASE h # g \/ d # c
      BY <2>2, <3>3 DEF LineInv, NotAhead
    <3> QED
      BY <3>2, <3>3
  <2>6. NoneSkipped'
    <3>1. SUFFICES ASSUME NEW h \in Generations, NEW d \in Containers, NEW k \in 1..MaxLines,
                          k < stream'[h][d], written[d] < k + TailLines
                   PROVE  <<d, k>> \in Waiting(h)' \union CountedBy(h) \union dropped'[h]
      BY <2>1 DEF NoneSkipped, CountedBy
    <3>2. CASE h = g /\ d = c /\ k = n
      BY <2>3, <3>2
    <3>3. CASE ~(h = g /\ d = c /\ k = n)
      <4>1. k < stream[h][d]
        <5>1. CASE h = g /\ d = c
          <6>1. k < n + 1 /\ k # n
            BY <2>2, <3>1, <3>3, <5>1, Zenon
          <6>2. k < n
            BY <2>1, <6>1
          <6> QED
            BY <5>1, <6>2 DEF n
        <5>2. CASE h # g \/ d # c
          BY <2>2, <3>1, <5>2
        <5> QED
          BY <5>1, <5>2
      <4>2. <<d, k>> \in Waiting(h) \union CountedBy(h) \union dropped[h]
        BY <3>1, <4>1 DEF LineInv, NoneSkipped
      <4> QED
        BY <2>3, <4>2
    <3> QED
      BY <3>2, <3>3
  <2> QED
    BY <2>5, <2>6 DEF LineInv
<1>5. ASSUME NEW g \in Generations, Receive(g) PROVE LineInv'
  <2> DEFINE entry == Head(logCh[g])
  <2>1. /\ counted' = [counted EXCEPT ![g][entry] = @ + 1]
        /\ logCh' = [logCh EXCEPT ![g] = Tail(@)]
        /\ logCh[g] # <<>> /\ UNCHANGED <<written, stream, dropped>>
    BY <1>5 DEF Receive
  <2>2. logCh[g] \in Seq(Lines) /\ entry \in Lines
    BY <2>1 DEF LineInv, TypeOK
  <2>3. /\ logCh'[g] = Tail(logCh[g])
        /\ \A h \in Generations : h # g => logCh'[h] = logCh[h]
    BY <2>1 DEF LineInv, TypeOK
  <2>4. Waiting(g) \subseteq Waiting(g)' \union {entry}
    <3>1. Elements(logCh[g]) \subseteq Elements(logCh'[g]) \union {entry}
      BY <2>1, <2>2, <2>3, ReceiveTakesOne
    <3>2. Waiting(g) = Elements(logCh[g]) /\ Waiting(g)' = Elements(logCh'[g])
      BY DEF Waiting, Elements
    <3> QED
      BY <3>1, <3>2
  <2> HIDE DEF entry
  <2>5. /\ counted'[g][entry] = counted[g][entry] + 1
        /\ \A h \in Generations, l \in Lines :
              h # g \/ l # entry => counted'[h][l] = counted[h][l]
        /\ counted[g][entry] \in Nat
    BY <2>1, <2>2, CountType DEF LineInv, TypeOK
  <2>6. entry \in CountedBy(g)' /\ \A h \in Generations : CountedBy(h) \subseteq CountedBy(h)'
    BY <2>2, <2>5 DEF CountedBy
  <2>7. \A h \in Generations :
           Waiting(h) \union CountedBy(h) \subseteq Waiting(h)' \union CountedBy(h)'
    <3>1. \A h \in Generations : h # g => Waiting(h)' = Waiting(h)
      BY <2>3 DEF Waiting
    <3> QED
      BY <2>4, <2>6, <3>1
  <2>8. NotAhead'
    BY <2>1 DEF LineInv, NotAhead
  <2>9. NoneSkipped'
    BY <2>1, <2>7 DEF LineInv, NoneSkipped
  <2> QED
    BY <2>8, <2>9 DEF LineInv
<1>6. CASE Install
  <2>1. /\ latest + 1 \in Generations /\ latest \in Nat
        /\ UNCHANGED <<written, stream, logCh, dropped>>
        /\ \A h \in Generations : h # latest + 1 => counted'[h] = counted[h]
    <3>1. latest + 1 \in Generations /\ latest \in Nat
      BY <1>6, NumbersAreNat DEF Install, StoreInv, IInv, Replacing, Generations
    <3> QED
      BY <1>6, <3>1 DEF Install, LineInv, TypeOK
  <2>2. \A c \in Containers : stream[latest + 1][c] = 0
    BY <2>1 DEF StoreInv, HandOver, Untouched
  <2>3. NoneSkipped'
    <3>1. SUFFICES ASSUME NEW h \in Generations, NEW d \in Containers, NEW n \in 1..MaxLines,
                          n < stream[h][d], written[d] < n + TailLines
                   PROVE  <<d, n>> \in Waiting(h) \union CountedBy(h)' \union dropped[h]
      BY <2>1 DEF NoneSkipped, Waiting
    <3>2. h # latest + 1
      BY <2>2, <3>1
    <3>3. CountedBy(h)' = CountedBy(h)
      BY <2>1, <3>2 DEF CountedBy
    <3> QED
      BY <3>1, <3>3 DEF LineInv, NoneSkipped
  <2> QED
    BY <2>1, <2>3 DEF LineInv, NotAhead
<1>7. ASSUME NEW c \in Containers, StartWatchingPod(c) PROVE LineInv'
  <2>1. CASE stream[using][c] # 0
    BY <1>1, <1>7, <2>1 DEF StartWatchingPod
  <2>2. CASE stream[using][c] = 0
    <3>1. using \in Generations
      BY <1>7 DEF StartWatchingPod, LineInv, TypeOK
    <3>2. /\ stream' = [stream EXCEPT ![using][c] = TailOf(c)]
          /\ UNCHANGED <<written, logCh, counted, dropped>>
      BY <1>7, <2>2 DEF StartWatchingPod
    <3> QED
      BY <1>2, <3>1, <3>2
  <2> QED
    BY <2>1, <2>2
<1>8. ASSUME NEW g \in Generations, NEW c \in Containers, Reconnect(g, c) PROVE LineInv'
  BY <1>2, <1>8 DEF Reconnect
<1>9. CASE TearDown \/ BuildFails \/ ReadGlobal \/ PolicyDone
  BY <1>1, <1>9 DEF TearDown, BuildFails, ReadGlobal, PolicyDone
<1>10. ASSUME NEW g \in Generations, PipelineReturns(g) PROVE LineInv'
  BY <1>1, <1>10 DEF PipelineReturns
<1>11. ASSUME NEW g \in Generations, NEW line \in Lines, SyncRecord(g, line) PROVE LineInv'
  BY <1>1, <1>11 DEF SyncRecord
<1>12. CASE UNCHANGED vars
  BY <1>1, <1>12 DEF vars
<1> QED
  BY <1>3, <1>4, <1>5, <1>6, <1>7, <1>8, <1>9, <1>10, <1>11, <1>12 DEF Next

(***************************************************************************)
(* Whichever Watcher a policy reconcile started a container through, and   *)
(* whatever is reloaded meanwhile, no stream goes past a line of the tail  *)
(* that its store or its channel does not get, unless the channel is full: *)
(* for any tail, capacity, and numbers of lines and generations.           *)
(***************************************************************************)
THEOREM TailAccounted == Spec => []NoLineSkipped
<1>1. Init => LineInv
  BY InitLineInv
<1>2. LineInv /\ StoreInv /\ TypeOK' /\ [Next]_vars => LineInv'
  BY LineStep
<1>3. LineInv => NoLineSkipped
  BY NoneIsSkipped DEF LineInv
<1> QED
  BY <1>1, <1>2, <1>3, AlwaysStoreInv, TypeCorrect, PTL DEF Spec

-----------------------------------------------------------------------------
(***************************************************************************)
(* How often a line is counted.  What a generation has counted of a line,  *)
(* what waits for it and the one copy its stream has still to bring stay   *)
(* within one for each generation so far and one for each broken           *)
(* connection: a store begins with no more than what was saved, which is   *)
(* the bound of the generations before it, and a stream that is opened     *)
(* again can bring each line of the tail once more.                        *)
(***************************************************************************)
Places(s, x) == {i \in DOMAIN s : s[i] = x}
Copies(g, line) == Cardinality(Places(logCh[g], line))
ToCome(g, line) == IF stream[g][line[1]] <= line[2] THEN 1 ELSE 0

Recounts ==
    \A g \in Generations, line \in Lines :
        counted[g][line] + Copies(g, line) + ToCome(g, line) <= g + reconnects

LEMMA PlacesAreFinite ==
    ASSUME NEW S, NEW s \in Seq(S), NEW x
    PROVE  /\ IsFiniteSet(Places(s, x)) /\ Cardinality(Places(s, x)) \in Nat
           /\ Places(s, x) \subseteq 1..Len(s)
<1>1. DOMAIN s = 1..Len(s) /\ Len(s) \in Nat
  OBVIOUS
<1>2. Places(s, x) \subseteq 1..Len(s)
  BY <1>1 DEF Places
<1>3. IsFiniteSet(1..Len(s))
  BY <1>1, FS_Interval
<1>4. IsFiniteSet(Places(s, x))
  BY <1>2, <1>3, FS_Subset
<1> QED
  BY <1>2, <1>4, FS_CardinalityType

LEMMA SendAddsAPlace ==
    ASSUME NEW S, NEW s \in Seq(S), NEW y \in S, NEW x
    PROVE  Cardinality(Places(Append(s, y), x))
              <= Cardinality(Places(s, x)) + IF x = y THEN 1 ELSE 0
<1> DEFINE n == Len(s)
           t == Append(s, y)
<1>1. /\ n \in Nat /\ DOMAIN s = 1..n /\ DOMAIN t = 1..(n + 1) /\ t \in Seq(S)
      /\ t[n + 1] = y /\ \A i \in 1..n : t[i] = s[i]
  OBVIOUS
<1> HIDE DEF n, t
<1> DEFINE last == n + 1
<1>2. DOMAIN t = 1..last /\ t[last] = y /\ \A i \in 1..last : i \in 1..n \/ i = last
  BY <1>1
<1> HIDE DEF last
<1>3. IsFiniteSet(Places(s, x)) /\ Cardinality(Places(s, x)) \in Nat
  BY PlacesAreFinite
<1>4. CASE x = y
  <2>1. Places(t, x) \subseteq Places(s, x) \union {last}
    BY <1>1, <1>2 DEF Places
  <2>2. /\ IsFiniteSet(Places(s, x) \union {last})
        /\ Cardinality(Places(s, x) \union {last})
              = IF last \in Places(s, x) THEN Cardinality(Places(s, x))
                ELSE Cardinality(Places(s, x)) + 1
    BY <1>3, FS_AddElement, Zenon
  <2>3. Cardinality(Places(t, x)) <= Cardinality(Places(s, x) \union {last})
    BY <2>1, <2>2, FS_Subset
  <2>4. Cardinality(Places(t, x)) \in Nat /\ Cardinality(Places(s, x) \union {last}) \in Nat
    BY <1>1, <2>2, PlacesAreFinite, FS_CardinalityType
  <2>5. Cardinality(Places(t, x)) <= Cardinality(Places(s, x)) + 1
    BY <1>3, <2>2, <2>3, <2>4
  <2>6. (IF x = y THEN 1 ELSE 0) = 1
    BY <1>4
  <2> QED
    BY <2>5, <2>6 DEF t
<1>5. CASE x # y
  <2>1. Places(t, x) \subseteq Places(s, x)
    BY <1>1, <1>2, <1>5 DEF Places
  <2>2. Cardinality(Places(t, x)) <= Cardinality(Places(s, x))
    BY <1>3, <2>1, FS_Subset
  <2> QED
    BY <1>3, <1>5, <2>2 DEF t
<1> QED
  BY <1>4, <1>5

LEMMA ReceiveTakesAPlace ==
    ASSUME NEW S, NEW s \in Seq(S), s # <<>>, NEW x
    PROVE  Cardinality(Places(Tail(s), x)) + (IF x = Head(s) THEN 1 ELSE 0)
              <= Cardinality(Places(s, x))
<1> DEFINE n == Len(s)
           rest == Tail(s)
           next == [i \in Places(rest, x) |-> i + 1]
           others == Places(s, x) \ {1}
<1>1. /\ n \in Nat /\ n > 0 /\ DOMAIN s = 1..n /\ DOMAIN rest = 1..(n - 1) /\ rest \in Seq(S)
      /\ s[1] = Head(s)
  OBVIOUS
<1>2. \A i \in 1..(n - 1) : rest[i] = s[i + 1]
  OBVIOUS
<1> HIDE DEF n, rest
<1>3. /\ IsFiniteSet(Places(s, x)) /\ Cardinality(Places(s, x)) \in Nat
      /\ Cardinality(Places(rest, x)) \in Nat
  BY <1>1, PlacesAreFinite
<1>4. ASSUME NEW i \in Places(rest, x) PROVE i \in Nat /\ i + 1 \in others
  BY <1>1, <1>2 DEF Places
<1>5. next \in [Places(rest, x) -> others] /\ IsInjective(next)
  BY <1>4 DEF IsInjective
<1>6. next \in Injection(Places(rest, x), others)
  BY <1>5, Zenon DEF Injection
<1>7. /\ IsFiniteSet(others)
      /\ Cardinality(others) = IF 1 \in Places(s, x) THEN Cardinality(Places(s, x)) - 1
                               ELSE Cardinality(Places(s, x))
  BY <1>3, FS_RemoveElement
<1> HIDE DEF next, others
<1>8. Cardinality(Places(rest, x)) <= Cardinality(others)
  BY <1>6, <1>7, FS_Injection
<1>9. x = Head(s) => 1 \in Places(s, x)
  BY <1>1 DEF Places
<1>10. Cardinality(Places(rest, x)) + (IF x = Head(s) THEN 1 ELSE 0)
          <= Cardinality(Places(s, x))
  BY <1>3, <1>7, <1>8, <1>9
<1> QED
  BY <1>10 DEF rest

RecountInv == TypeOK /\ Recounts /\ CountedOncePerReplay

LEMMA RecountTypes ==
    ASSUME TypeOK, NEW g \in Generations, NEW line \in Lines
    PROVE  /\ counted[g][line] \in Nat /\ saved[line] \in Nat
           /\ Copies(g, line) \in Nat /\ ToCome(g, line) \in {0, 1}
           /\ g \in Nat /\ latest \in Nat /\ reconnects \in Nat
           /\ logCh[g] \in Seq(Lines)
           /\ line[1] \in Containers /\ line[2] \in Nat
           /\ stream[g][line[1]] \in Nat /\ written[line[1]] \in Nat
<1>1. logCh[g] \in Seq(Lines) /\ line[1] \in Containers /\ line[2] \in Nat
  BY DEF TypeOK, Lines
<1>2. Copies(g, line) \in Nat
  BY <1>1, PlacesAreFinite DEF Copies
<1>3. counted[g][line] \in Nat /\ saved[line] \in Nat /\ reconnects \in Nat
  BY DEF TypeOK
<1>4. stream[g][line[1]] \in Nat /\ written[line[1]] \in Nat
  BY <1>1, LineTypes
<1>5. g \in Nat /\ latest \in Nat
  BY NumbersAreNat DEF Generations
<1> QED
  BY <1>1, <1>2, <1>3, <1>4, <1>5 DEF ToCome

LEMMA InitRecountInv == ASSUME Init PROVE RecountInv
<1>1. TypeOK
  BY InitInv DEF IInv
<1>2. ASSUME NEW g \in Generations, NEW line \in Lines
      PROVE  counted[g][line] = 0 /\ Copies(g, line) = 0
  <2>1. logCh[g] = <<>> /\ counted[g][line] = 0
    BY DEF Init
  <2>2. Places(logCh[g], line) = {}
    <3>1. DOMAIN logCh[g] = {}
      BY <2>1
    <3> QED
      BY <3>1 DEF Places
  <2> QED
    BY <2>1, <2>2, FS_EmptySet DEF Copies
<1>3. Recounts
  <2>1. SUFFICES ASSUME NEW g \in Generations, NEW line \in Lines
                 PROVE  counted[g][line] + Copies(g, line) + ToCome(g, line) <= g + reconnects
    BY DEF Recounts
  <2>2. g \in Nat /\ g >= 1 /\ reconnects \in Nat /\ ToCome(g, line) \in {0, 1}
    BY <1>1, RecountTypes DEF Generations
  <2> QED
    BY <1>2, <2>2
<1>4. CountedOncePerReplay
  BY <1>1 DEF CountedOncePerReplay, Init
<1> QED
  BY <1>1, <1>3, <1>4 DEF RecountInv

(* One generation that brings no more than it did leaves the bound alone. *)
LEMMA RecountsKept ==
    ASSUME RecountInv, TypeOK', NEW g \in Generations, reconnects <= reconnects',
           \A h \in Generations : h # g =>
              /\ counted'[h] = counted[h] /\ logCh'[h] = logCh[h]
              /\ \A c \in Containers : stream'[h][c] = stream[h][c],
           \A line \in Lines :
              counted'[g][line] + Copies(g, line)' + ToCome(g, line)' <= g + reconnects'
    PROVE  Recounts'
<1>1. SUFFICES ASSUME NEW h \in Generations, NEW line \in Lines
               PROVE  counted'[h][line] + Copies(h, line)' + ToCome(h, line)' <= h + reconnects'
  BY DEF Recounts
<1>2. CASE h = g
  BY <1>2
<1>3. CASE h # g
  <2>1. /\ line[1] \in Containers /\ h \in Nat /\ reconnects \in Nat
        /\ counted[h][line] \in Nat /\ Copies(h, line) \in Nat /\ ToCome(h, line) \in {0, 1}
    BY RecountTypes DEF RecountInv
  <2>2. /\ counted'[h][line] = counted[h][line] /\ Copies(h, line)' = Copies(h, line)
        /\ ToCome(h, line)' = ToCome(h, line)
    BY <1>3, <2>1 DEF Copies, ToCome
  <2>3. counted[h][line] + Copies(h, line) + ToCome(h, line) <= h + reconnects
    BY DEF RecountInv, Recounts
  <2>4. reconnects' \in Nat
    BY DEF TypeOK
  <2> QED
    BY <2>1, <2>2, <2>3, <2>4
<1> QED
  BY <1>2, <1>3

LEMMA RecountStep ==
    ASSUME RecountInv, StoreInv, TypeOK', [Next]_vars
    PROVE  RecountInv'
<1> USE DEF platformVars, policyVars, lineVars
<1>0. TypeOK /\ Recounts /\ CountedOncePerReplay
  BY DEF RecountInv
<1>1. ASSUME UNCHANGED <<stream, logCh, counted, reconnects>> PROVE Recounts'
  BY <1>0, <1>1 DEF Recounts, Copies, ToCome
<1>2. ASSUME latest <= latest', reconnects <= reconnects', UNCHANGED saved
      PROVE  CountedOncePerReplay'
  <2>1. SUFFICES ASSUME NEW line \in Lines PROVE saved[line] <= latest' + reconnects'
    BY <1>2 DEF CountedOncePerReplay
  <2>2. saved[line] \in Nat /\ saved[line] <= latest + reconnects
    BY <1>0 DEF CountedOncePerReplay, TypeOK
  <2>3. latest \in Nat /\ latest' \in Nat /\ reconnects \in Nat /\ reconnects' \in Nat
    BY <1>0 DEF TypeOK
  <2> QED
    BY <1>2, <2>2, <2>3
<1>3. CASE TearDown \/ BuildFails \/ ReadGlobal \/ PolicyDone
  BY <1>0, <1>1, <1>2, <1>3, NumbersAreNat DEF TearDown, BuildFails, ReadGlobal, PolicyDone, RecountInv, TypeOK
<1>4. CASE Install
  <2>0. PICK g \in Generations : g = latest + 1
    <3>1. building /\ latest \in Nat
      BY <1>0, <1>4, NumbersAreNat DEF Install
    <3>2. latest < MaxGenerations
      BY <3>1 DEF StoreInv, IInv, Replacing
    <3> QED
      BY <3>1, <3>2 DEF Generations
  <2>1. /\ g = latest + 1 /\ latest \in Nat /\ reconnects \in Nat
        /\ latest' = g /\ UNCHANGED <<stream, logCh, saved, reconnects>>
    <3>1. latest \in Nat /\ reconnects \in Nat
      BY <1>0 DEF TypeOK
    <3>2. latest' = latest + 1 /\ UNCHANGED <<stream, logCh, saved, reconnects>>
      BY <1>4 DEF Install
    <3> QED
      BY <2>0, <3>1, <3>2
  <2>2. PICK counts \in Loaded : counted' = [counted EXCEPT ![g] = counts]
    BY <1>4, <2>0 DEF Install
  <2>3. counted'[g] = counts /\ \A h \in Generations : h # g => counted'[h] = counted[h]
    BY <1>0, <2>1, <2>2 DEF TypeOK
  <2>4. Untouched(g)
    BY <2>1 DEF StoreInv, HandOver
  <2>5. ASSUME NEW line \in Lines
        PROVE  counted'[g][line] + Copies(g, line)' + ToCome(g, line)' <= g + reconnects'
    <3>1. counts[line] \in Nat /\ counts[line] <= saved[line]
      BY LoadedCounts
    <3>2. saved[line] \in Nat /\ saved[line] <= latest + reconnects
      BY <1>0, RecountTypes, <2>1 DEF CountedOncePerReplay
    <3>3. Places(logCh[g], line) = {}
      <4>1. DOMAIN logCh[g] = {}
        BY <2>4 DEF Untouched
      <4> QED
        BY <4>1 DEF Places
    <3>4. Copies(g, line)' = 0
      <4>1. Cardinality(Places(logCh[g], line)) = 0
        BY <3>3, FS_EmptySet
      <4> QED
        BY <2>1, <4>1 DEF Copies
    <3>5. ToCome(g, line)' \in {0, 1}
      BY DEF ToCome
    <3> QED
      BY <2>1, <2>3, <3>1, <3>2, <3>4, <3>5
  <2>6. reconnects <= reconnects' /\ latest <= latest'
    BY <2>1
  <2>7. \A h \in Generations : h # g =>
           /\ counted'[h] = counted[h] /\ logCh'[h] = logCh[h]
           /\ \A c \in Containers : stream'[h][c] = stream[h][c]
    BY <2>1, <2>3
  <2>8. Recounts'
    BY <2>5, <2>6, <2>7, RecountsKept
  <2> QED
    BY <1>2, <2>1, <2>6, <2>8 DEF RecountInv
<1>5. ASSUME NEW g \in Generations, NEW c \in Containers, NEW more \in {0, 1},
             stream' = [stream EXCEPT ![g][c] = TailOf(c)],
             stream[g][c] = 0 \/ more = 1, reconnects' = reconnects + more,
             UNCHANGED <<latest, logCh, counted, saved>>
      PROVE  RecountInv'
  <2>1. /\ stream'[g][c] = TailOf(c) /\ reconnects \in Nat /\ latest \in Nat
        /\ \A h \in Generations, d \in Containers :
              h # g \/ d # c => stream'[h][d] = stream[h][d]
    BY <1>0, <1>5 DEF TypeOK
  <2>2. ASSUME NEW line \in Lines
        PROVE  counted'[g][line] + Copies(g, line)' + ToCome(g, line)' <= g + reconnects'
    <3>1. /\ counted[g][line] \in Nat /\ Copies(g, line) \in Nat /\ ToCome(g, line) \in {0, 1}
          /\ line[1] \in Containers /\ line[2] \in Nat /\ g \in Nat
      BY <1>0, RecountTypes
    <3>2. counted[g][line] + Copies(g, line) + ToCome(g, line) <= g + reconnects
      BY <1>0 DEF Recounts
    <3>3. counted'[g][line] = counted[g][line] /\ Copies(g, line)' = Copies(g, line)
      BY <1>5 DEF Copies
    <3>4. ToCome(g, line)' \in {0, 1}
      BY DEF ToCome
    <3>5. ToCome(g, line)' <= ToCome(g, line) + more
      <4>1. CASE more = 1
        BY <3>1, <3>4, <4>1
      <4>2. CASE more = 0 /\ line[1] = c
        BY <1>5, <3>1, <3>4, <4>2 DEF ToCome
      <4>3. CASE more = 0 /\ line[1] # c
        BY <2>1, <3>1, <4>3 DEF ToCome
      <4> QED
        BY <4>1, <4>2, <4>3
    <3> QED
      BY <1>5, <2>1, <3>1, <3>2, <3>3, <3>4, <3>5
  <2>3. /\ reconnects <= reconnects' /\ latest <= latest' /\ UNCHANGED saved
        /\ \A h \in Generations : h # g =>
              /\ counted'[h] = counted[h] /\ logCh'[h] = logCh[h]
              /\ \A d \in Containers : stream'[h][d] = stream[h][d]
    BY <1>5, <2>1
  <2>4. Recounts'
    BY <2>2, <2>3, RecountsKept
  <2> QED
    BY <1>2, <2>3, <2>4 DEF RecountInv
<1>6. ASSUME NEW c \in Containers, StartWatchingPod(c) PROVE RecountInv'
  <2>1. using \in Generations /\ UNCHANGED <<latest, logCh, counted, saved, reconnects>>
    BY <1>0, <1>6 DEF StartWatchingPod, TypeOK
  <2>2. CASE stream[using][c] # 0
    <3>1. stream' = stream
      BY <1>6, <2>2 DEF StartWatchingPod
    <3>2. Recounts'
      BY <1>1, <2>1, <3>1
    <3>3. latest <= latest' /\ reconnects <= reconnects'
      BY <1>0, <2>1 DEF TypeOK
    <3> QED
      BY <1>2, <2>1, <3>2, <3>3 DEF RecountInv
  <2>3. CASE stream[using][c] = 0
    <3>1. PICK g \in Generations : g = using
      BY <2>1
    <3>2. stream' = [stream EXCEPT ![g][c] = TailOf(c)]
      BY <1>6, <2>3, <3>1 DEF StartWatchingPod
    <3>3. reconnects' = reconnects + 0 /\ 0 \in {0, 1}
      BY <1>0, <2>1 DEF TypeOK
    <3> QED
      BY <1>5, <2>1, <2>3, <3>1, <3>2, <3>3
  <2> QED
    BY <2>2, <2>3
<1>7. ASSUME NEW g \in Generations, NEW c \in Containers, Reconnect(g, c) PROVE RecountInv'
  BY <1>5, <1>7 DEF Reconnect
<1>8. ASSUME NEW c \in Containers, Write(c) PROVE RecountInv'
  BY <1>0, <1>1, <1>2, <1>8 DEF Write, RecountInv, TypeOK
<1>9. ASSUME NEW g \in Generations, PipelineReturns(g) PROVE RecountInv'
  BY <1>0, <1>1, <1>2, <1>9 DEF PipelineReturns, RecountInv, TypeOK
<1>10. CASE UNCHANGED vars
  BY <1>0, <1>1, <1>2, <1>10 DEF vars, RecountInv, TypeOK
<1>11. ASSUME NEW g \in Generations, NEW c \in Containers, ReadLine(g, c) PROVE RecountInv'
  <2>0. PICK n \in Nat : n = stream[g][c]
    BY <1>0, LineTypes
  <2>1. /\ stream' = [stream EXCEPT ![g][c] = n + 1] /\ n # 0 /\ n <= written[c]
        /\ UNCHANGED <<latest, counted, saved, reconnects>>
    BY <1>11, <2>0 DEF ReadLine
  <2>2. /\ stream'[g][c] = n + 1
        /\ \A h \in Generations, d \in Containers :
              h # g \/ d # c => stream'[h][d] = stream[h][d]
    BY <1>0, <2>1 DEF TypeOK
  <2>3. PICK entry : entry = <<c, n>>
    OBVIOUS
  <2>4. entry \in Lines /\ entry[1] = c /\ entry[2] = n /\ logCh[g] \in Seq(Lines)
    <3>1. n \in 1..MaxLines /\ logCh[g] \in Seq(Lines)
      BY <1>0, <2>0, <2>1, LineTypes
    <3> QED
      BY <2>3, <3>1 DEF Lines
  <2>5. /\ logCh'[g] = logCh[g] \/ logCh'[g] = Append(logCh[g], entry)
        /\ \A h \in Generations : h # g => logCh'[h] = logCh[h]
    BY <1>0, <1>11, <2>0, <2>3 DEF ReadLine, TypeOK
  <2>6. ASSUME NEW line \in Lines
        PROVE  counted'[g][line] + Copies(g, line)' + ToCome(g, line)' <= g + reconnects'
    <3>1. /\ counted[g][line] \in Nat /\ Copies(g, line) \in Nat
          /\ line[1] \in Containers /\ line[2] \in Nat
          /\ g \in Nat /\ reconnects \in Nat
      BY <1>0, RecountTypes
    <3>2. counted[g][line] + Copies(g, line) + ToCome(g, line) <= g + reconnects
      BY <1>0 DEF Recounts
    <3>3. /\ Copies(g, line)' \in Nat
          /\ Copies(g, line)' <= Copies(g, line) + IF line = entry THEN 1 ELSE 0
      <4>1. Cardinality(Places(Append(logCh[g], entry), line))
              <= Cardinality(Places(logCh[g], line)) + IF line = entry THEN 1 ELSE 0
        BY <2>4, SendAddsAPlace
      <4>2. Append(logCh[g], entry) \in Seq(Lines)
        BY <2>4
      <4>3. Cardinality(Places(logCh'[g], line)) \in Nat
        BY <2>4, <2>5, <4>2, PlacesAreFinite
      <4>4. CASE logCh'[g] = logCh[g]
        BY <3>1, <4>3, <4>4 DEF Copies
      <4>5. CASE logCh'[g] = Append(logCh[g], entry)
        BY <4>1, <4>3, <4>5 DEF Copies
      <4> QED
        BY <2>5, <4>4, <4>5
    <3>4. ToCome(g, line)' + (IF line = entry THEN 1 ELSE 0) <= ToCome(g, line)
      <4>1. CASE line = entry
        BY <2>0, <2>2, <2>4, <4>1 DEF ToCome
      <4>2. CASE line # entry
        <5>1. line[1] # c \/ line[2] # n
          <6>1. line = <<line[1], line[2]>>
            BY DEF Lines
          <6> QED
            BY <2>3, <4>2, <6>1
        <5>2. CASE line[1] # c
          BY <2>2, <3>1, <4>2, <5>2 DEF ToCome
        <5>3. CASE line[1] = c /\ line[2] # n
          BY <2>0, <2>2, <3>1, <4>2, <5>3 DEF ToCome
        <5> QED
          BY <5>1, <5>2, <5>3
      <4> QED
        BY <4>1, <4>2
    <3>5. ToCome(g, line)' \in {0, 1} /\ ToCome(g, line) \in {0, 1}
      BY DEF ToCome
    <3> QED
      BY <2>1, <3>1, <3>2, <3>3, <3>4, <3>5
  <2>7. reconnects <= reconnects' /\ latest <= latest'
    BY <1>0, <2>1 DEF TypeOK
  <2>8. \A h \in Generations : h # g =>
           /\ counted'[h] = counted[h] /\ logCh'[h] = logCh[h]
           /\ \A d \in Containers : stream'[h][d] = stream[h][d]
    BY <2>1, <2>2, <2>5
  <2>9. Recounts'
    BY <2>6, <2>7, <2>8, RecountsKept
  <2> QED
    BY <1>2, <2>1, <2>7, <2>9 DEF RecountInv
<1>12. ASSUME NEW g \in Generations, Receive(g) PROVE RecountInv'
  <2>1. logCh[g] \in Seq(Lines) /\ logCh[g] # <<>>
    BY <1>0, <1>12 DEF Receive, TypeOK
  <2>2. PICK entry \in Lines : entry = Head(logCh[g])
    BY <2>1
  <2>3. /\ counted' = [counted EXCEPT ![g][entry] = @ + 1]
        /\ logCh' = [logCh EXCEPT ![g] = Tail(logCh[g])]
        /\ UNCHANGED <<latest, stream, saved, reconnects>>
    BY <1>12, <2>2 DEF Receive
  <2>4. /\ logCh'[g] = Tail(logCh[g])
        /\ \A h \in Generations : h # g => logCh'[h] = logCh[h]
    BY <1>0, <2>3 DEF TypeOK
  <2>5. /\ counted'[g][entry] = counted[g][entry] + 1
        /\ \A line \in Lines : line # entry => counted'[g][line] = counted[g][line]
        /\ \A h \in Generations : h # g => counted'[h] = counted[h]
    BY <1>0, <2>3, CountType
  <2>6. ASSUME NEW line \in Lines
        PROVE  counted'[g][line] + Copies(g, line)' + ToCome(g, line)' <= g + reconnects'
    <3>1. /\ counted[g][line] \in Nat /\ Copies(g, line) \in Nat /\ ToCome(g, line) \in {0, 1}
          /\ g \in Nat /\ reconnects \in Nat
      BY <1>0, RecountTypes
    <3>2. counted[g][line] + Copies(g, line) + ToCome(g, line) <= g + reconnects
      BY <1>0 DEF Recounts
    <3>3. /\ Copies(g, line)' \in Nat
          /\ Copies(g, line)' + (IF line = entry THEN 1 ELSE 0) <= Copies(g, line)
      <4>1. Cardinality(Places(Tail(logCh[g]), line)) + (IF line = Head(logCh[g]) THEN 1 ELSE 0)
              <= Cardinality(Places(logCh[g], line))
        BY <2>1, ReceiveTakesAPlace
      <4>2. Tail(logCh[g]) \in Seq(Lines)
        BY <2>1
      <4>3. Cardinality(Places(logCh'[g], line)) \in Nat
        BY <2>4, <4>2, PlacesAreFinite
      <4> QED
        BY <2>2, <2>4, <4>1, <4>3 DEF Copies
    <3>4. counted'[g][line] = counted[g][line] + IF line = entry THEN 1 ELSE 0
      BY <2>5, <3>1
    <3>5. ToCome(g, line)' = ToCome(g, line) /\ reconnects' = reconnects
      BY <2>3 DEF ToCome
    <3>6. CASE line = entry
      <4>1. counted'[g][line] = counted[g][line] + 1 /\ Copies(g, line)' + 1 <= Copies(g, line)
        BY <3>3, <3>4, <3>6
      <4> QED
        BY <3>1, <3>2, <3>3, <3>5, <4>1
    <3>7. CASE line # entry
      <4>1. counted'[g][line] = counted[g][line] /\ Copies(g, line)' <= Copies(g, line)
        BY <3>1, <3>3, <3>4, <3>7
      <4> QED
        BY <3>1, <3>2, <3>3, <3>5, <4>1
    <3> QED
      BY <3>6, <3>7
  <2>7. reconnects <= reconnects' /\ latest <= latest'
    BY <1>0, <2>3 DEF TypeOK
  <2>8. \A h \in Generations : h # g =>
           /\ counted'[h] = counted[h] /\ logCh'[h] = logCh[h]
           /\ \A d \in Containers : stream'[h][d] = stream[h][d]
    BY <2>3, <2>4, <2>5
  <2>9. Recounts'
    BY <2>6, <2>7, <2>8, RecountsKept
  <2> QED
    BY <1>2, <2>3, <2>7, <2>9 DEF RecountInv
<1>13. ASSUME NEW g \in Generations, NEW line \in Lines, SyncRecord(g, line) PROVE RecountInv'
  <2>1. /\ g \in alive /\ saved' = [saved EXCEPT ![line] = counted[g][line]]
        /\ UNCHANGED <<latest, stream, logCh, counted, reconnects>>
    BY <1>13 DEF SyncRecord
  <2>2. g <= latest
    BY <2>1 DEF StoreInv, IInv, OneLiveGeneration, HandOver
  <2>3. counted[g][line] <= latest + reconnects
    <3>1. /\ counted[g][line] \in Nat /\ Copies(g, line) \in Nat /\ ToCome(g, line) \in {0, 1}
          /\ g \in Nat /\ latest \in Nat /\ reconnects \in Nat
      BY <1>0, RecountTypes
    <3>2. counted[g][line] + Copies(g, line) + ToCome(g, line) <= g + reconnects
      BY <1>0 DEF Recounts
    <3> QED
      BY <2>2, <3>1, <3>2
  <2>4. CountedOncePerReplay'
    <3>1. SUFFICES ASSUME NEW l \in Lines PROVE saved'[l] <= latest + reconnects
      BY <2>1 DEF CountedOncePerReplay
    <3>2. saved'[l] = IF l = line THEN counted[g][line] ELSE saved[l]
      BY <1>0, <2>1 DEF TypeOK
    <3> QED
      BY <1>0, <2>3, <3>2 DEF CountedOncePerReplay
  <2>5. Recounts'
    BY <1>1, <2>1
  <2> QED
    BY <2>4, <2>5 DEF RecountInv
<1> QED
  BY <1>3, <1>4, <1>6, <1>7, <1>8, <1>9, <1>10, <1>11, <1>12, <1>13 DEF Next

(***************************************************************************)
(* However reloads, failed builds, broken connections, late receives and   *)
(* loads interleave: no Incident is ever given more than one count of a    *)
(* line for each generation built and each connection broken.  For any     *)
(* containers, capacity, tail and bounds.                                  *)
(***************************************************************************)
THEOREM RecountsAreBounded == Spec => []CountedOncePerReplay
<1>1. RecountInv /\ StoreInv /\ StoreInv' /\ [Next]_vars => RecountInv'
  BY RecountStep DEF StoreInv, IInv
<1>2. RecountInv => CountedOncePerReplay
  BY DEF RecountInv
<1> QED
  BY InitRecountInv, AlwaysStoreInv, <1>1, <1>2, PTL DEF Spec

-----------------------------------------------------------------------------
(* The refinement of OneStore.  The refinement mapping, by name: *)
Written == {line \in Lines : line[2] <= written[line[1]]}
Seen == IF Owner = Nil THEN [line \in Lines |-> 0] ELSE counted[Owner]
promiseVars == <<Written, Owner, 1..latest, Seen, saved>>

LEMMA InitRefines == ASSUME Init PROVE Promise!Init
<1>1. Owner = Nil /\ Seen = [line \in Lines |-> 0] /\ saved = [line \in Lines |-> 0]
  BY DEF Init, Owner, Seen
<1>2. Written = {}
  BY DEF Init, Written, Lines
<1>3. 1..latest = {}
  BY DEF Init
<1> QED
  BY <1>1, <1>2, <1>3 DEF Promise!Init, Promise!Nothing, Written, Seen

(* What leaves these variables alone is a stutter. *)
LEMMA Stutters ==
    ASSUME UNCHANGED <<latest, global, alive, written, counted, saved>>
    PROVE  UNCHANGED promiseVars
BY DEF promiseVars, Written, Owner, Seen

LEMMA OwnerIsAlive ==
    ASSUME IInv
    PROVE  alive = {} \/ (alive = {global} /\ global \in Generations /\ Owner = global /\ global # Nil)
<1>1. alive \subseteq Generations /\ \A g \in alive : g = global
  BY DEF IInv, TypeOK, OneLiveGeneration
<1>2. ASSUME alive # {} PROVE alive = {global} /\ Owner = global
  BY <1>1, <1>2 DEF Owner
<1>3. \A g \in Generations : g # Nil
  BY DEF Generations, Nil
<1> QED
  BY <1>1, <1>2, <1>3

LEMMA TearDownRefines ==
    ASSUME StoreInv, TearDown
    PROVE  Promise!Release \/ UNCHANGED promiseVars
<1>1. alive' = {} /\ UNCHANGED <<latest, global, written, counted, saved>>
  BY OwnerIsAlive DEF TearDown, StoreInv, lineVars
<1>2. Owner' = Nil /\ Seen' = [line \in Lines |-> 0] /\ Written' = Written
  BY <1>1 DEF Owner, Seen, Written
<1>3. CASE alive = {}
  BY <1>1, <1>3, Stutters
<1>4. CASE alive # {}
  <2>1. Owner # Nil
    BY <1>4, OwnerIsAlive DEF StoreInv
  <2> QED
    BY <1>1, <1>2, <2>1 DEF Promise!Release, Promise!Nothing, Seen, Written
<1> QED
  BY <1>3, <1>4

LEMMA InstallRefines ==
    ASSUME StoreInv, Install
    PROVE  \E s \in Generations : Promise!TakeOver(s)
<1> DEFINE g == latest + 1
<1>1. alive = {} /\ latest \in Nat /\ g \in Generations
  BY NumbersAreNat DEF StoreInv, IInv, Replacing, Install, Generations
<1>2. /\ latest' = g /\ global' = g /\ alive' = {g}
      /\ UNCHANGED <<written, saved>>
  BY <1>1 DEF Install
<1>3. g # Nil /\ g \notin 1..latest /\ 1..g = (1..latest) \union {g}
  BY <1>1 DEF Nil
<1>4. /\ counted'[g] \in [Lines -> Nat]
      /\ \A line \in Lines : counted'[g][line] <= saved[line]
  <2>1. PICK counts \in Loaded : counted' = [counted EXCEPT ![g] = counts]
    BY DEF Install
  <2>2. counted'[g] = counts
    BY <1>1, <2>1 DEF StoreInv, IInv, TypeOK
  <2> QED
    BY <2>2, LoadedCounts
<1>5. Owner = Nil /\ Owner' = g
  BY <1>1, <1>2 DEF Owner
<1>6. Seen' = counted'[g] /\ Written' = Written
  BY <1>2, <1>3, <1>5 DEF Seen, Written
<1> HIDE DEF g
<1>7. Promise!TakeOver(g)
  BY <1>2, <1>3, <1>4, <1>5, <1>6 DEF Promise!TakeOver, Seen, Written
<1> QED
  BY <1>1, <1>7

LEMMA WriteRefines ==
    ASSUME StoreInv, NEW c \in Containers, Write(c)
    PROVE  \E line \in Lines : Promise!Write(line)
<1> DEFINE n == written[c] + 1
<1>1. /\ \A d \in Containers : written[d] \in Nat
      /\ n \in 1..MaxLines
      /\ \A d \in Containers : written'[d] = IF d = c THEN n ELSE written[d]
      /\ UNCHANGED <<latest, global, alive, counted, saved>>
  BY DEF StoreInv, IInv, TypeOK, Write, platformVars, lineVars
<1>2. Owner' = Owner /\ Seen' = Seen
  BY <1>1 DEF Owner, Seen
<1>3. <<c, n>> \in Lines
  BY <1>1 DEF Lines
<1>4. ASSUME NEW line \in Lines
      PROVE  line[2] <= written'[line[1]] <=> line[2] <= written[line[1]] \/ line = <<c, n>>
  <2>1. line = <<line[1], line[2]>> /\ line[1] \in Containers /\ line[2] \in Nat
    BY DEF Lines
  <2>2. CASE line[1] = c
    <3>1. written'[c] = written[c] + 1 /\ written[c] \in Nat
      BY <1>1
    <3>2. line[2] <= written[c] + 1 <=> line[2] <= written[c] \/ line[2] = n
      BY <2>1, <3>1
    <3>3. line = <<c, n>> <=> line[2] = n
      BY <2>1, <2>2
    <3> QED
      BY <2>2, <3>1, <3>2, <3>3
  <2>3. CASE line[1] # c
    <3>1. line # <<c, n>>
      BY <2>3
    <3> QED
      BY <1>1, <2>1, <2>3, <3>1
  <2> QED
    BY <2>2, <2>3
<1> DEFINE entry == <<c, n>>
<1> HIDE DEF n
<1>5. Written' = Written \union {entry}
  BY <1>3, <1>4 DEF Written
<1>6. entry \in Lines
  BY <1>3
<1> HIDE DEF entry
<1>7. (1..latest)' = 1..latest /\ saved' = saved
  BY <1>1
<1>8. Promise!Write(entry)
  BY <1>2, <1>5, <1>7, Zenon DEF Promise!Write, Written, Seen
<1>9. PICK line \in Lines : line = entry
  BY <1>6
<1>10. Promise!Write(line)
  BY <1>8, <1>9 DEF Promise!Write
<1> QED
  BY <1>10

LEMMA ReceiveRefines ==
    ASSUME StoreInv, NEW g \in Generations, Receive(g)
    PROVE  (\E line \in Lines : Promise!Count(line)) \/ UNCHANGED promiseVars
<1> DEFINE entry == Head(logCh[g])
<1>1. /\ counted' = [counted EXCEPT ![g][entry] = @ + 1]
      /\ UNCHANGED <<latest, global, alive, written, saved>>
  BY DEF Receive, platformVars
<1>2. entry \in Lines /\ entry \in Written
  <2>1. logCh[g] \in Seq(Lines) /\ logCh[g] # <<>>
    BY DEF StoreInv, IInv, TypeOK, Receive
  <2>2. 1 \in DOMAIN logCh[g] /\ entry = logCh[g][1] /\ entry \in Lines
    BY <2>1
  <2>3. logCh[g][1] \in Waiting(g)
    BY <2>2 DEF Waiting
  <2>4. entry \in Waiting(g)
    BY <2>2, <2>3
  <2> QED
    BY <2>2, <2>4 DEF StoreInv, HandOver, Written
<1> HIDE DEF entry
<1>3. Owner' = Owner /\ Written' = Written
  BY <1>1 DEF Owner, Written
<1>4. /\ counted'[g] = [counted[g] EXCEPT ![entry] = @ + 1]
      /\ \A h \in Generations : h # g => counted'[h] = counted[h]
  BY <1>1, <1>2, CountType DEF StoreInv, IInv
<1>5. CASE Owner = g /\ g # Nil
  <2>1. Seen' = [Seen EXCEPT ![entry] = @ + 1] /\ Owner # Nil
    BY <1>3, <1>4, <1>5 DEF Seen
  <2>2. Promise!Count(entry)
    BY <1>1, <1>2, <1>3, <2>1 DEF Promise!Count, Written, Seen
  <2> QED
    BY <1>2, <2>2
<1>6. CASE ~(Owner = g /\ g # Nil)
  <2>1. Owner = Nil \/ Owner \in Generations
    BY OwnerIsAlive DEF StoreInv, Owner
  <2>2. Seen' = Seen
    BY <1>3, <1>4, <1>6, <2>1 DEF Seen
  <2> QED
    BY <1>1, <1>3, <2>2 DEF promiseVars
<1> QED
  BY <1>5, <1>6

(* The one that writes an Incident is the owner. *)
LEMMA SyncRefines ==
    ASSUME StoreInv, NEW g \in Generations, NEW line \in Lines, SyncRecord(g, line)
    PROVE  Promise!Save(line)
<1>1. /\ g \in alive /\ counted[g][line] > saved[line]
      /\ saved' = [saved EXCEPT ![line] = counted[g][line]]
      /\ UNCHANGED <<latest, global, alive, written, counted>>
  BY DEF SyncRecord, platformVars
<1>2. Owner = g /\ g # Nil
  BY <1>1, OwnerIsAlive DEF StoreInv
<1>3. Owner' = Owner /\ Written' = Written /\ Seen = counted[g] /\ Seen' = Seen
  BY <1>1, <1>2 DEF Owner, Written, Seen
<1> QED
  BY <1>1, <1>2, <1>3 DEF Promise!Save, Written, Seen

(***************************************************************************)
(* However reloads, failures, policy reconciles and pipelines interleave:  *)
(* the Incidents have one owner at a time, which alone writes them, began  *)
(* with no more than what was saved and counts lines that were written;    *)
(* what an old pipeline still takes and what a stream of a replaced        *)
(* Watcher brings are stutters; and no store comes back.  For any          *)
(* containers, capacity, tail and bounds.                                  *)
(***************************************************************************)
THEOREM Implements == Spec => ImplementsOneStore
<1>1. Init => Promise!Init
  BY InitRefines
<1>2. StoreInv /\ [Next]_vars => [Promise!Next]_promiseVars
  <2> SUFFICES ASSUME StoreInv, [Next]_vars
               PROVE  Promise!Next \/ UNCHANGED promiseVars
    OBVIOUS
  <2> USE DEF platformVars, policyVars, lineVars
  <2>1. CASE TearDown
    BY <2>1, TearDownRefines DEF Promise!Next
  <2>2. CASE Install
    BY <2>2, InstallRefines DEF Promise!Next
  <2>3. CASE BuildFails \/ ReadGlobal \/ PolicyDone
    BY <2>3, Stutters DEF BuildFails, ReadGlobal, PolicyDone
  <2>4. ASSUME NEW c \in Containers, Write(c) PROVE Promise!Next
    BY <2>4, WriteRefines DEF Promise!Next
  <2>5. ASSUME NEW c \in Containers, StartWatchingPod(c) PROVE UNCHANGED promiseVars
    BY <2>5, Stutters DEF StartWatchingPod
  <2>6. ASSUME NEW g \in Generations, Receive(g) PROVE Promise!Next \/ UNCHANGED promiseVars
    BY <2>6, ReceiveRefines DEF Promise!Next
  <2>7. ASSUME NEW g \in Generations, PipelineReturns(g) PROVE UNCHANGED promiseVars
    BY <2>7, Stutters DEF PipelineReturns
  <2>8. ASSUME NEW g \in Generations, NEW c \in Containers, ReadLine(g, c)
        PROVE  UNCHANGED promiseVars
    BY <2>8, Stutters DEF ReadLine
  <2>9. ASSUME NEW g \in Generations, NEW c \in Containers, Reconnect(g, c)
        PROVE  UNCHANGED promiseVars
    BY <2>9, Stutters DEF Reconnect
  <2>10. ASSUME NEW g \in Generations, NEW line \in Lines, SyncRecord(g, line)
         PROVE  Promise!Next
    BY <2>10, SyncRefines DEF Promise!Next
  <2>11. CASE UNCHANGED vars
    BY <2>11, Stutters DEF vars
  <2> QED
    BY <2>1, <2>2, <2>3, <2>4, <2>5, <2>6, <2>7, <2>8, <2>9, <2>10, <2>11 DEF Next
<1> QED
  BY <1>1, <1>2, AlwaysStoreInv, PTL
     DEF Spec, ImplementsOneStore, Promise!Spec, promiseVars, Written, Seen
=============================================================================
