-------------------------- MODULE LogStreamProofs --------------------------
(***************************************************************************)
(* Theorems about LogStream, for any containers, channel, tail and noise.  *)
(***************************************************************************)
EXTENDS LogStream, SequenceTheorems, FiniteSetTheorems, TLAPS

USE BoundsAssumption, CapacityAssumption, TailAssumption

(***************************************************************************)
(* The inductive invariant: what is being sent has been written; who has   *)
(* sent one entry after its cancellation will look at the context before   *)
(* it can send another.                                                    *)
(***************************************************************************)
SendsWritten == \A c \in Containers : pc[c] = "send" => next[c] <= written[c]

LateSendIsLast ==
    \A c \in Containers :
        \/ lateSends[c] = 0
        \/ lateSends[c] = 1 /\ cancelled[c] /\ pc[c] \in {"read", "done"}

IInv == TypeOK /\ SendsWritten /\ LateSendIsLast /\ NothingLostInTail

LEMMA AppendSent ==
    ASSUME TypeOK, NEW e \in Entries, logCh' = Append(logCh, e), received' = received
    PROVE  ToSet(Sent') = ToSet(Sent) \union {e}
<1>1. received \in Seq(Entries) /\ logCh \in Seq(Entries)
  BY DEF TypeOK
<1>2. Sent' = Append(Sent, e)
  BY <1>1 DEF Sent
<1>3. Sent \in Seq(Entries)
  BY <1>1 DEF Sent
<1> QED
  BY <1>2, <1>3 DEF ToSet

(* Receiving moves an entry from the channel to the pipeline: the order stays. *)
LEMMA ReceiveSent ==
    ASSUME TypeOK, Receive
    PROVE  Sent' = Sent
<1>1. received \in Seq(Entries) /\ logCh \in Seq(Entries) /\ logCh # <<>>
  BY DEF TypeOK, Receive
<1>2. logCh' = SubSeq(logCh, 2, Len(logCh)) /\ received' = Append(received, Head(logCh))
  BY DEF Receive
<1> DEFINE L == Len(received)
           M == Len(logCh)
<1>3. /\ L \in Nat /\ M \in Nat /\ M >= 1
      /\ received' \in Seq(Entries) /\ Len(received') = L + 1
      /\ logCh' \in Seq(Entries) /\ Len(logCh') = M - 1
  <2>1. L \in Nat /\ M \in Nat /\ M >= 1 /\ Head(logCh) \in Entries
    BY <1>1
  <2>2. received' \in Seq(Entries) /\ Len(received') = L + 1
    BY <1>1, <1>2, <2>1
  <2>3. logCh' \in Seq(Entries) /\ Len(logCh') = M - 1
    <3>1. \A i \in 2..M : logCh[i] \in Entries
      BY <1>1, <2>1
    <3> DEFINE rest == SubSeq(logCh, 2, M)
               K == M - 1
    <3>2. K \in Nat /\ rest = [i \in 1..K |-> logCh[i + 1]]
      BY <2>1
    <3>3. \A i \in 1..K : logCh[i + 1] \in Entries
      BY <2>1, <3>1
    <3> HIDE DEF rest, K, M
    <3>4. rest \in [1..K -> Entries]
      BY <3>2, <3>3, Zenon
    <3>5. rest \in Seq(Entries)
      BY <3>2, <3>4, SeqDef, Zenon
    <3>6. Len(rest) = K
      BY <3>2, <3>4, <3>5
    <3> QED
      BY <1>2, <3>5, <3>6 DEF rest, K, M
  <2> QED
    BY <2>1, <2>2, <2>3
<1>4. /\ Sent \in Seq(Entries) /\ Len(Sent) = L + M
      /\ Sent' \in Seq(Entries) /\ Len(Sent') = L + M
  <2>1. Sent \in Seq(Entries) /\ Len(Sent) = L + M
    BY <1>1, ConcatProperties, Zenon DEF Sent
  <2>2. Sent' \in Seq(Entries) /\ Len(Sent') = Len(received') + Len(logCh')
    BY <1>3, ConcatProperties, Zenon DEF Sent
  <2>3. Len(received') + Len(logCh') = L + M
    <3> HIDE DEF L, M
    <3> QED
      BY <1>3
  <2> QED
    BY <2>1, <2>2, <2>3
<1>5. ASSUME NEW i \in 1..(L + M) PROVE Sent'[i] = Sent[i]
  <2>1. CASE i <= L
    <3>1. Sent[i] = received[i] /\ Sent'[i] = received'[i]
      BY <1>1, <1>3, <2>1 DEF Sent
    <3>2. received'[i] = received[i]
      BY <1>1, <1>2, <2>1
    <3> QED
      BY <3>1, <3>2
  <2>2. CASE i = L + 1
    <3>1. Sent[i] = logCh[1] /\ Sent'[i] = received'[L + 1]
      BY <1>1, <1>3, <2>2 DEF Sent
    <3>2. received'[L + 1] = logCh[1]
      BY <1>1, <1>2
    <3> QED
      BY <3>1, <3>2
  <2>3. CASE i > L + 1
    <3>1. Sent[i] = logCh[i - L] /\ Sent'[i] = logCh'[i - L - 1]
      BY <1>1, <1>3, <2>3 DEF Sent
    <3>2. logCh'[i - L - 1] = logCh[i - L]
      BY <1>1, <1>2, <1>3, <2>3
    <3> QED
      BY <3>1, <3>2
  <2> QED
    BY <1>3, <2>1, <2>2, <2>3
<1> HIDE DEF L, M
<1>6. /\ DOMAIN Sent = 1..(L + M) /\ DOMAIN Sent' = 1..(L + M)
      /\ Sent = [i \in DOMAIN Sent |-> Sent[i]]
      /\ Sent' = [i \in DOMAIN Sent' |-> Sent'[i]]
  BY <1>4
<1> HIDE DEF Sent
<1> QED
  BY <1>5, <1>6

-----------------------------------------------------------------------------
LEMMA InitIInv == Init => IInv
<1> SUFFICES ASSUME Init PROVE IInv
  OBVIOUS
<1>1. TypeOK
  BY DEF Init, TypeOK
<1>2. SendsWritten /\ LateSendIsLast
  BY DEF Init, SendsWritten, LateSendIsLast
<1>3. NothingLostInTail
  BY DEF Init, NothingLostInTail
<1> QED
  BY <1>1, <1>2, <1>3 DEF IInv

LEMMA NextIInv == IInv /\ [Next]_vars => IInv'
<1> SUFFICES ASSUME IInv, [Next]_vars PROVE IInv'
  OBVIOUS
<1> USE DEF IInv, streamVars
<1>1. ASSUME NEW c \in Containers, Write(c) PROVE IInv'
  <2>1. /\ written' = [written EXCEPT ![c] = @ + 1] /\ written[c] < MaxLines
        /\ UNCHANGED <<pc, next, connects, cancelled, lateSends, dropped, logCh, received>>
    BY <1>1 DEF Write
  <2>2. \A d \in Containers : /\ written[d] \in Nat /\ written'[d] \in Nat
                                /\ written[d] <= written'[d]
    BY <2>1 DEF TypeOK
  <2>3. TypeOK' /\ SendsWritten' /\ LateSendIsLast'
    <3>1. TypeOK'
      BY <2>1 DEF TypeOK
    <3>2. SendsWritten'
      BY <2>1, <2>2, <3>1 DEF TypeOK, SendsWritten
    <3>3. LateSendIsLast'
      BY <2>1 DEF LateSendIsLast
    <3> QED
      BY <3>1, <3>2, <3>3
  <2>4. NothingLostInTail'
    <3> SUFFICES ASSUME NEW d \in Containers, NEW n \in 1..(next[d] - 1),
                        ShouldProcess(n), written'[d] < n + TailLines
                 PROVE  Entry(d, n) \in ToSet(Sent) \/ n \in dropped[d]
      BY <2>1 DEF NothingLostInTail, Sent
    <3>1. next[d] \in 1..(MaxLines + 1)
      BY DEF TypeOK
    <3>2. n \in Nat /\ written[d] < n + TailLines
      <4>1. n \in Nat
        BY <3>1
      <4>2. written[d] \in Nat /\ written'[d] \in Nat /\ written[d] <= written'[d]
        BY <2>2
      <4> HIDE DEF IInv
      <4> QED
        BY <4>1, <4>2
    <3> QED
      BY <3>2 DEF NothingLostInTail
  <2> QED
    BY <2>3, <2>4
<1>2. ASSUME NEW c \in Containers, Open(c) PROVE IInv'
  <2>0. /\ next'[c] \in 1..(MaxLines + 1) /\ next' = [next EXCEPT ![c] = next'[c]]
        /\ next'[c] = 1 \/ next'[c] = written[c] - TailLines + 1
    BY <1>2 DEF Open, TypeOK
  <2>1. TypeOK' /\ SendsWritten' /\ LateSendIsLast'
    <3>1. connects' \in [Containers -> 0..MaxConnects]
      BY <1>2 DEF Open, TypeOK
    <3>2. /\ pc' = [pc EXCEPT ![c] = "read"] /\ ~cancelled[c] /\ pc[c] = "closed"
          /\ UNCHANGED <<written, cancelled, lateSends, dropped, logCh, received>>
      BY <1>2 DEF Open
    <3>3. TypeOK'
      BY <2>0, <3>1, <3>2 DEF TypeOK
    <3>4. SendsWritten' /\ LateSendIsLast'
      BY <2>0, <3>2 DEF TypeOK, SendsWritten, LateSendIsLast
    <3> QED
      BY <3>3, <3>4
  <2>2. NothingLostInTail'
    <3>1. ASSUME NEW d \in Containers, NEW n \in 1..(next'[d] - 1),
                 ShouldProcess(n), written'[d] < n + TailLines
          PROVE  Entry(d, n) \in ToSet(Sent') \/ n \in dropped'[d]
      <4>1. d # c
        BY <1>2, <2>0, <3>1 DEF Open, TypeOK
      <4>2. next'[d] = next[d]
        BY <1>2, <4>1 DEF Open, TypeOK
      <4> QED
        BY <1>2, <3>1, <4>2 DEF Open, NothingLostInTail, Sent
    <3> QED
      BY <3>1 DEF NothingLostInTail
  <2> QED
    BY <2>1, <2>2
<1>3. ASSUME NEW c \in Containers, Scan(c) PROVE IInv'
  <2>1. /\ pc[c] = "read" /\ next[c] <= written[c]
        /\ UNCHANGED <<written, connects, cancelled, lateSends, dropped, logCh, received>>
    BY <1>3 DEF Scan
  <2>2. CASE /\ pc' = [pc EXCEPT ![c] = IF cancelled[c] THEN "done" ELSE "send"]
             /\ UNCHANGED next
    <3>1. TypeOK' /\ SendsWritten'
      BY <2>1, <2>2 DEF TypeOK, SendsWritten
    <3>2. LateSendIsLast'
      BY <2>1, <2>2 DEF TypeOK, LateSendIsLast
    <3>3. NothingLostInTail'
      BY <2>1, <2>2 DEF NothingLostInTail, Sent
    <3> QED
      BY <3>1, <3>2, <3>3
  <2>3. CASE /\ ~ShouldProcess(next[c])
             /\ next' = [next EXCEPT ![c] = @ + 1] /\ UNCHANGED pc
    <3>1. next' \in [Containers -> 1..(MaxLines + 1)]
      BY <2>1, <2>3 DEF TypeOK
    <3>2. TypeOK' /\ SendsWritten' /\ LateSendIsLast'
      BY <2>1, <2>3, <3>1 DEF TypeOK, SendsWritten, LateSendIsLast
    <3>3. NothingLostInTail'
      BY <2>1, <2>3 DEF TypeOK, NothingLostInTail, Sent
    <3> QED
      BY <3>2, <3>3
  <2> QED
    BY <1>3, <2>2, <2>3 DEF Scan
<1>4. ASSUME NEW c \in Containers, Send(c) PROVE IInv'
  <2>1. /\ pc[c] = "send" /\ next[c] \in 1..MaxLines
        /\ UNCHANGED <<written, connects, cancelled, received>>
        /\ Entry(c, next[c]) \in Entries
    BY <1>4 DEF Send, TypeOK, SendsWritten, Entry, Entries
  <2>2. CASE /\ Len(logCh) < Capacity
             /\ logCh' = Append(logCh, Entry(c, next[c]))
             /\ lateSends' = [lateSends EXCEPT ![c] = IF cancelled[c] THEN @ + 1 ELSE @]
             /\ pc' = [pc EXCEPT ![c] = "read"] /\ next' = [next EXCEPT ![c] = @ + 1]
             /\ UNCHANGED dropped
    <3>1. TypeOK' /\ SendsWritten' /\ LateSendIsLast'
      <4>0. lateSends[c] = 0
        BY <2>1 DEF LateSendIsLast
      <4>1. lateSends' \in [Containers -> Nat]
        BY <2>2, <4>0 DEF TypeOK
      <4>2. LateSendIsLast'
        <5> SUFFICES ASSUME NEW d \in Containers
                     PROVE  \/ lateSends'[d] = 0
                            \/ lateSends'[d] = 1 /\ cancelled'[d] /\ pc'[d] \in {"read", "done"}
          BY DEF LateSendIsLast
        <5>1. CASE d # c
          <6>1. lateSends'[d] = lateSends[d] /\ pc'[d] = pc[d] /\ cancelled'[d] = cancelled[d]
            BY <2>1, <2>2, <5>1 DEF TypeOK
          <6> QED
            BY <6>1 DEF LateSendIsLast
        <5>2. CASE d = c
          <6>1. lateSends'[c] = (IF cancelled[c] THEN 1 ELSE 0) /\ pc'[c] = "read"
            BY <2>2, <4>0 DEF TypeOK
          <6> QED
            BY <2>1, <5>2, <6>1
        <5> QED
          BY <5>1, <5>2
      <4>3. logCh' \in Seq(Entries) /\ Len(logCh') <= Capacity
        BY <2>1, <2>2 DEF TypeOK
      <4>4. SendsWritten'
        BY <2>1, <2>2 DEF TypeOK, SendsWritten
      <4> QED
        BY <2>1, <2>2, <4>1, <4>2, <4>3, <4>4 DEF TypeOK
    <3>2. ToSet(Sent') = ToSet(Sent) \union {Entry(c, next[c])}
      BY <2>1, <2>2, AppendSent
    <3>3. NothingLostInTail'
      BY <2>1, <2>2, <3>2 DEF TypeOK, NothingLostInTail, Sent
    <3> QED
      BY <3>1, <3>3
  <2>3. CASE /\ cancelled[c]
             /\ pc' = [pc EXCEPT ![c] = "done"]
             /\ UNCHANGED <<next, logCh, lateSends, dropped>>
    <3>1. TypeOK' /\ SendsWritten'
      BY <2>1, <2>3 DEF TypeOK, SendsWritten
    <3>2. LateSendIsLast'
      BY <2>1, <2>3 DEF TypeOK, LateSendIsLast
    <3>3. NothingLostInTail'
      BY <2>1, <2>3 DEF NothingLostInTail, Sent
    <3> QED
      BY <3>1, <3>2, <3>3
  <2>4. CASE /\ Len(logCh) = Capacity /\ ~cancelled[c]
             /\ dropped' = [dropped EXCEPT ![c] = @ \union {next[c]}]
             /\ pc' = [pc EXCEPT ![c] = "read"] /\ next' = [next EXCEPT ![c] = @ + 1]
             /\ UNCHANGED <<logCh, lateSends>>
    <3>1. TypeOK'
      BY <2>1, <2>4 DEF TypeOK
    <3>2. SendsWritten' /\ LateSendIsLast'
      BY <2>1, <2>4 DEF TypeOK, SendsWritten, LateSendIsLast
    <3>3. NothingLostInTail'
      BY <2>1, <2>4 DEF TypeOK, NothingLostInTail, Sent
    <3> QED
      BY <3>1, <3>2, <3>3
  <2> QED
    BY <1>4, <2>2, <2>3, <2>4 DEF Send
<1>5. ASSUME NEW c \in Containers, Disconnect(c) \/ Cancel(c) PROVE IInv'
  <2>1. TypeOK' /\ SendsWritten'
    BY <1>5 DEF Disconnect, Cancel, TypeOK, SendsWritten
  <2>2. LateSendIsLast'
    BY <1>5 DEF Disconnect, Cancel, TypeOK, LateSendIsLast
  <2>3. NothingLostInTail'
    BY <1>5 DEF Disconnect, Cancel, NothingLostInTail, Sent
  <2> QED
    BY <2>1, <2>2, <2>3
<1>6. CASE Receive
  <2>1. TypeOK'
    BY <1>6 DEF Receive, TypeOK
  <2>2. SendsWritten' /\ LateSendIsLast'
    BY <1>6 DEF Receive, SendsWritten, LateSendIsLast
  <2>3. NothingLostInTail'
    <3>1. Sent' = Sent /\ UNCHANGED <<next, written, dropped>>
      BY <1>6, ReceiveSent DEF Receive
    <3> QED
      BY <3>1 DEF NothingLostInTail, Sent
  <2> QED
    BY <2>1, <2>2, <2>3
<1>7. CASE UNCHANGED vars
  BY <1>7 DEF vars, TypeOK, SendsWritten, LateSendIsLast, NothingLostInTail, Sent
<1> QED
  BY <1>1, <1>2, <1>3, <1>4, <1>5, <1>6, <1>7 DEF Next

LEMMA Invariant == Spec => []IInv
  BY InitIInv, NextIInv, PTL DEF Spec

-----------------------------------------------------------------------------
(* Every variable of the streams keeps its type, the channel its capacity. *)
THEOREM TypeCorrect == Spec => []TypeOK
<1>1. IInv => TypeOK
  BY DEF IInv
<1> QED
  BY <1>1, Invariant, PTL

(***************************************************************************)
(* Cancelling a stream silences it but for one entry, for any number of    *)
(* containers that compete for the channel.                                *)
(***************************************************************************)
THEOREM SilencedAfterOne == Spec => []OneLateSend
<1>1. IInv => OneLateSend
  <2> SUFFICES ASSUME LateSendIsLast, NEW c \in Containers PROVE lateSends[c] <= 1
    BY DEF IInv, OneLateSend
  <2>1. lateSends[c] = 0 \/ lateSends[c] = 1
    BY DEF LateSendIsLast
  <2> QED
    BY <2>1
<1> QED
  BY <1>1, Invariant, PTL

(***************************************************************************)
(* Inside the tail no matching line is skipped without being counted as    *)
(* dropped, whatever the tail, the capacity and the reconnects.            *)
(***************************************************************************)
THEOREM NoGapInTail == Spec => []NothingLostInTail
<1>1. IInv => NothingLostInTail
  BY DEF IInv
<1> QED
  BY <1>1, Invariant, PTL

-----------------------------------------------------------------------------
(* OneAscendingRunPerStream. *)

(* The last entry of c in s, if there is one, is a line before n. *)
EndsBefore(s, c, n) ==
    \A j \in DOMAIN s :
        s[j].container = c /\ (\A k \in (j + 1)..Len(s) : s[k].container # c)
            => s[j].line < n

LEMMA AppendElements ==
    ASSUME NEW s \in Seq(Entries), NEW e \in Entries
    PROVE  /\ Len(s) \in Nat /\ DOMAIN s = 1..Len(s)
           /\ Append(s, e) \in Seq(Entries)
           /\ Len(Append(s, e)) = Len(s) + 1
           /\ DOMAIN Append(s, e) = 1..(Len(s) + 1)
           /\ \A i \in 1..Len(s) : Append(s, e)[i] = s[i]
           /\ Append(s, e)[Len(s) + 1] = e
OBVIOUS

LEMMA GoesBackFinite ==
    ASSUME NEW s \in Seq(Entries), NEW c
    PROVE  IsFiniteSet(GoesBack(s, c)) /\ Cardinality(GoesBack(s, c)) \in Nat
<1>1. GoesBack(s, c) \subseteq 1..Len(s) /\ Len(s) \in Nat
  BY DEF GoesBack
<1>2. IsFiniteSet(1..Len(s))
  BY <1>1, FS_Interval
<1>3. IsFiniteSet(GoesBack(s, c))
  BY <1>1, <1>2, FS_Subset, Zenon
<1> QED
  BY <1>3, FS_CardinalityType, Zenon

(* An entry goes back at most where it is appended. *)
LEMMA AppendGoesBack ==
    ASSUME NEW s \in Seq(Entries), NEW e \in Entries, NEW c
    PROVE  /\ GoesBack(Append(s, e), c) \subseteq GoesBack(s, c) \union {Len(s) + 1}
           /\ e.container # c \/ EndsBefore(s, c, e.line)
                 => GoesBack(Append(s, e), c) = GoesBack(s, c)
<1> DEFINE t == Append(s, e)
           n == Len(s)
<1>1. /\ n \in Nat /\ DOMAIN s = 1..n /\ DOMAIN t = 1..(n + 1)
      /\ \A i \in 1..n : t[i] = s[i]
      /\ t[n + 1] = e
  BY AppendElements, Zenon
<1> HIDE DEF t, n
<1>2. ASSUME NEW i \in 1..n PROVE i \in GoesBack(t, c) <=> i \in GoesBack(s, c)
  <2>1. /\ i \in Nat /\ i \in DOMAIN s /\ i \in DOMAIN t
        /\ \A j \in 1..(i - 1) : j \in 1..n
        /\ \A j \in 1..(i - 1) : \A k \in (j + 1)..(i - 1) : k \in 1..n
    BY <1>1
  <2>2. /\ t[i] = s[i] /\ \A j \in 1..(i - 1) : t[j] = s[j]
        /\ \A j \in 1..(i - 1) : \A k \in (j + 1)..(i - 1) : t[k] = s[k]
    BY <1>1, <2>1
  <2> QED
    BY <2>1, <2>2 DEF GoesBack
<1>3. \A i \in DOMAIN t : i \in 1..n \/ i = n + 1
  BY <1>1
<1>4. GoesBack(t, c) \subseteq DOMAIN t /\ GoesBack(s, c) \subseteq 1..n
  BY <1>1 DEF GoesBack
<1>5. GoesBack(t, c) \subseteq GoesBack(s, c) \union {n + 1}
  BY <1>2, <1>3, <1>4
<1>6. ASSUME e.container # c \/ EndsBefore(s, c, e.line), n + 1 \in GoesBack(t, c)
      PROVE  FALSE
  <2>1. PICK j \in 1..n :
           /\ t[n + 1].container = c
           /\ t[j].container = c /\ t[n + 1].line <= t[j].line
           /\ \A k \in (j + 1)..n : t[k].container # c
    <3>1. (n + 1) - 1 = n
      BY <1>1
    <3> QED
      BY <1>6, <3>1 DEF GoesBack
  <2>2. /\ e.container = c /\ s[j].container = c /\ e.line <= s[j].line
        /\ \A k \in (j + 1)..n : s[k].container # c
    <3>1. \A k \in (j + 1)..n : k \in 1..n
      BY <1>1
    <3> QED
      BY <1>1, <2>1, <3>1
  <2>3. s[j].line < e.line
    BY <1>1, <1>6, <2>2 DEF EndsBefore, n
  <2>4. s[j].line \in Int /\ e.line \in Int
    <3>1. s[j] \in Entries
      BY <1>1
    <3> QED
      BY <3>1 DEF Entries
  <2> QED
    BY <2>2, <2>3, <2>4
<1>7. e.container # c \/ EndsBefore(s, c, e.line) => GoesBack(t, c) = GoesBack(s, c)
  <2>1. \A i \in 1..n : i \in DOMAIN t
    BY <1>1
  <2> QED
    BY <1>2, <1>3, <1>4, <1>6, <2>1
<1> QED
  BY <1>5, <1>7 DEF t, n

LEMMA AppendEndsBefore ==
    ASSUME NEW s \in Seq(Entries), NEW e \in Entries, NEW c, NEW m
    PROVE  /\ e.container = c /\ e.line < m => EndsBefore(Append(s, e), c, m)
           /\ e.container # c /\ EndsBefore(s, c, m) => EndsBefore(Append(s, e), c, m)
<1> DEFINE t == Append(s, e)
           n == Len(s)
<1>1. /\ n \in Nat /\ DOMAIN s = 1..n /\ DOMAIN t = 1..(n + 1) /\ Len(t) = n + 1
      /\ \A i \in 1..n : t[i] = s[i]
      /\ t[n + 1] = e
  BY AppendElements, Zenon
<1> HIDE DEF t
<1> SUFFICES ASSUME NEW j \in DOMAIN t, t[j].container = c,
                    \A k \in (j + 1)..(n + 1) : t[k].container # c
             PROVE  /\ e.container = c /\ e.line < m => t[j].line < m
                    /\ e.container # c /\ EndsBefore(s, c, m) => t[j].line < m
  BY <1>1 DEF EndsBefore, t
<1> HIDE DEF n
<1>2. CASE e.container = c
  <2>1. j = n + 1
    <3>1. ASSUME j \in 1..n PROVE FALSE
      <4>1. n + 1 \in (j + 1)..(n + 1)
        BY <1>1, <3>1
      <4> QED
        BY <1>1, <1>2, <4>1
    <3> QED
      BY <1>1, <3>1
  <2> QED
    BY <1>1, <1>2, <2>1
<1>3. CASE e.container # c
  <2>1. j \in 1..n
    <3>1. j # n + 1
      BY <1>1, <1>3
    <3> QED
      BY <1>1, <3>1
  <2>2. \A k \in (j + 1)..n : s[k].container # c
    <3>1. \A k \in (j + 1)..n : k \in 1..n /\ k \in (j + 1)..(n + 1)
      BY <1>1, <2>1
    <3> QED
      BY <1>1, <3>1
  <2> QED
    BY <1>1, <1>3, <2>1, <2>2 DEF EndsBefore, n
<1> QED
  BY <1>2, <1>3

(***************************************************************************)
(* What makes it inductive: a stream that has not gone back yet may still  *)
(* do so, but then one connect is left over to pay for it; once it has     *)
(* sent an entry, it stays ahead of everything sent before.                *)
(***************************************************************************)
Unopened(c) ==
    /\ connects[c] = 0
    /\ pc[c] \notin {"read", "send"}
    /\ \A i \in DOMAIN Sent : Sent[i].container # c

Running(c) ==
    /\ connects[c] > 0
    /\ Cardinality(GoesBack(Sent, c)) + 1 <= connects[c]
    /\ pc[c] \in {"read", "send"} =>
          \/ EndsBefore(Sent, c, next[c])
          \/ Cardinality(GoesBack(Sent, c)) + 2 <= connects[c]

RunInv == \A c \in Containers : Unopened(c) \/ Running(c)

LEMMA SentType ==
    ASSUME TypeOK
    PROVE  Sent \in Seq(Entries)
BY DEF TypeOK, Sent

(* A container whose stream, and whose entries, a step leaves alone. *)
LEMMA RunKept ==
    ASSUME NEW c \in Containers, Unopened(c) \/ Running(c), Sent' = Sent,
           connects'[c] = connects[c], next'[c] = next[c],
           pc'[c] \in {"read", "send"} => pc[c] \in {"read", "send"}
    PROVE  (Unopened(c) \/ Running(c))'
BY DEF Unopened, Running

(* A stream that goes on, past a line it does not send. *)
LEMMA RunSkips ==
    ASSUME TypeOK, NEW c \in Containers, Running(c), Sent' = Sent,
           connects'[c] = connects[c], next'[c] = next[c] + 1,
           pc[c] \in {"read", "send"}
    PROVE  Running(c)'
<1>1. EndsBefore(Sent, c, next[c]) => EndsBefore(Sent, c, next[c] + 1)
  <2> SUFFICES ASSUME EndsBefore(Sent, c, next[c]), NEW j \in DOMAIN Sent,
                      Sent[j].container = c,
                      \A k \in (j + 1)..Len(Sent) : Sent[k].container # c
               PROVE  Sent[j].line < next[c] + 1
    BY DEF EndsBefore
  <2>1. Sent[j].line < next[c]
    BY DEF EndsBefore
  <2>2. Sent[j] \in Entries
    BY SentType
  <2>3. Sent[j].line \in Int /\ next[c] \in Int
    BY <2>2 DEF Entries, TypeOK
  <2> QED
    BY <2>1, <2>3
<1> QED
  BY <1>1 DEF Running

(* The entry a stream sends goes back only if its connect is not paid for. *)
LEMMA RunSends ==
    ASSUME TypeOK, NEW c \in Containers, Running(c), pc[c] = "send",
           NEW e \in Entries, e.container = c, e.line = next[c],
           Sent' = Append(Sent, e), connects'[c] = connects[c], next'[c] = next[c] + 1
    PROVE  Running(c)'
<1> DEFINE back == GoesBack(Sent, c)
           after == GoesBack(Append(Sent, e), c)
<1>1. Sent \in Seq(Entries) /\ Append(Sent, e) \in Seq(Entries)
  BY SentType
<1>2. /\ IsFiniteSet(back) /\ Cardinality(back) \in Nat
      /\ IsFiniteSet(after) /\ Cardinality(after) \in Nat
  BY <1>1, GoesBackFinite, Zenon
<1>3. /\ after \subseteq back \union {Len(Sent) + 1}
      /\ EndsBefore(Sent, c, next[c]) => after = back
  BY <1>1, AppendGoesBack, Zenon
<1>4. Cardinality(after) <= Cardinality(back) + 1
  <2> HIDE DEF back, after
  <2> DEFINE more == back \union {Len(Sent) + 1}
  <2>1. IsFiniteSet(more) /\ Cardinality(more) <= Cardinality(back) + 1
    <3>1. /\ IsFiniteSet(more)
          /\ \/ Cardinality(more) = Cardinality(back)
             \/ Cardinality(more) = Cardinality(back) + 1
      BY <1>2, FS_AddElement, Zenon
    <3> HIDE DEF more
    <3> QED
      BY <1>2, <3>1
  <2>2. Cardinality(after) <= Cardinality(more) /\ Cardinality(more) \in Nat
    BY <1>2, <1>3, <2>1, FS_Subset, FS_CardinalityType
  <2> HIDE DEF more
  <2> QED
    BY <1>2, <2>1, <2>2
<1>5. EndsBefore(Append(Sent, e), c, next[c] + 1)
  <2>1. next[c] < next[c] + 1
    BY DEF TypeOK
  <2> QED
    BY <1>1, <2>1, AppendEndsBefore, Zenon
<1>6. connects[c] \in Nat /\ Cardinality(back) + 1 <= connects[c]
  BY DEF TypeOK, Running
<1>7. EndsBefore(Sent, c, next[c]) \/ Cardinality(back) + 2 <= connects[c]
  BY DEF Running
<1>8. Cardinality(after) + 1 <= connects[c]
  <2> HIDE DEF back, after
  <2>1. CASE EndsBefore(Sent, c, next[c])
    BY <1>3, <1>6, <2>1
  <2>2. CASE Cardinality(back) + 2 <= connects[c]
    BY <1>2, <1>4, <1>6, <2>2
  <2> QED
    BY <1>7, <2>1, <2>2
<1> QED
  BY <1>5, <1>8 DEF Running

(* The entry of another container. *)
LEMMA OtherSends ==
    ASSUME TypeOK, NEW c \in Containers, Unopened(c) \/ Running(c),
           NEW e \in Entries, e.container # c, Sent' = Append(Sent, e),
           connects'[c] = connects[c], next'[c] = next[c], pc'[c] = pc[c]
    PROVE  (Unopened(c) \/ Running(c))'
<1>1. Sent \in Seq(Entries)
  BY SentType
<1>2. CASE Unopened(c)
  <2>1. \A i \in DOMAIN Append(Sent, e) : Append(Sent, e)[i].container # c
    <3>1. /\ Len(Sent) \in Nat /\ DOMAIN Sent = 1..Len(Sent)
          /\ DOMAIN Append(Sent, e) = 1..(Len(Sent) + 1)
          /\ \A i \in 1..Len(Sent) : Append(Sent, e)[i] = Sent[i]
          /\ Append(Sent, e)[Len(Sent) + 1] = e
      BY <1>1, AppendElements, Zenon
    <3>2. \A i \in 1..(Len(Sent) + 1) : i \in 1..Len(Sent) \/ i = Len(Sent) + 1
      BY <3>1
    <3> QED
      BY <1>2, <3>1, <3>2, Zenon DEF Unopened
  <2> QED
    BY <1>2, <2>1 DEF Unopened
<1>3. CASE Running(c)
  <2>1. GoesBack(Append(Sent, e), c) = GoesBack(Sent, c)
    BY <1>1, AppendGoesBack, Zenon
  <2>2. EndsBefore(Sent, c, next[c]) => EndsBefore(Append(Sent, e), c, next[c])
    BY <1>1, AppendEndsBefore, Zenon
  <2> QED
    BY <1>3, <2>1, <2>2 DEF Running
<1> QED
  BY <1>2, <1>3

LEMMA NextRunInv ==
    ASSUME IInv, RunInv, [Next]_vars
    PROVE  RunInv'
<1>0. TypeOK /\ Sent \in Seq(Entries)
  BY SentType DEF IInv
<1> USE DEF streamVars
<1> SUFFICES ASSUME NEW d \in Containers, Unopened(d) \/ Running(d)
             PROVE  (Unopened(d) \/ Running(d))'
  BY DEF RunInv
<1>1. ASSUME NEW c \in Containers, Write(c) \/ Cancel(c)
      PROVE  (Unopened(d) \/ Running(d))'
  BY <1>1, RunKept DEF Write, Cancel, Sent
<1>2. ASSUME NEW c \in Containers, Open(c) PROVE (Unopened(d) \/ Running(d))'
  <2>1. /\ Sent' = Sent /\ pc'[c] = "read" /\ connects'[c] = connects[c] + 1
        /\ d # c => /\ connects'[d] = connects[d] /\ next'[d] = next[d]
                    /\ pc'[d] = pc[d]
    BY <1>0, <1>2 DEF Open, TypeOK, Sent
  <2>2. CASE d # c
    BY <2>1, <2>2, RunKept
  <2>3. CASE d = c /\ Unopened(c)
    <3>1. /\ GoesBack(Sent, c) = {}
          /\ EndsBefore(Sent, c, next'[c])
      BY <2>3 DEF Unopened, GoesBack, EndsBefore
    <3>2. Cardinality(GoesBack(Sent, c)) = 0
      BY <3>1, FS_EmptySet
    <3>3. connects'[c] = 1
      BY <2>1, <2>3 DEF Unopened
    <3> QED
      BY <2>1, <2>3, <3>1, <3>2, <3>3 DEF Running
  <2>4. CASE d = c /\ Running(c)
    <3>1. /\ Cardinality(GoesBack(Sent, c)) \in Nat /\ connects[c] \in Nat
          /\ Cardinality(GoesBack(Sent, c)) + 1 <= connects[c] /\ connects[c] > 0
      BY <1>0, <2>4, GoesBackFinite DEF TypeOK, Running
    <3> QED
      BY <2>1, <2>4, <3>1 DEF Running
  <2> QED
    BY <2>2, <2>3, <2>4
<1>3. ASSUME NEW c \in Containers, Scan(c) PROVE (Unopened(d) \/ Running(d))'
  <2>1. Sent' = Sent /\ connects' = connects /\ pc[c] = "read"
    BY <1>3 DEF Scan, Sent
  <2>2. CASE d = c /\ next'[c] = next[c] + 1
    BY <1>0, <2>1, <2>2, RunSkips DEF Unopened
  <2>3. CASE d # c \/ UNCHANGED next
    <3>1. next'[d] = next[d] /\ (pc'[d] \in {"read", "send"} => pc[d] \in {"read", "send"})
      BY <1>0, <1>3, <2>1, <2>3 DEF Scan, TypeOK
    <3> QED
      BY <2>1, <3>1, RunKept
  <2> QED
    BY <1>0, <1>3, <2>2, <2>3 DEF Scan, TypeOK
<1>4. ASSUME NEW c \in Containers, Send(c) PROVE (Unopened(d) \/ Running(d))'
  <2>1. /\ pc[c] = "send" /\ connects' = connects /\ received' = received
        /\ pc'[c] = "read" \/ pc'[c] = "done"
        /\ d # c => next'[d] = next[d] /\ pc'[d] = pc[d]
    BY <1>0, <1>4 DEF Send, TypeOK
  <2>2. CASE logCh' = Append(logCh, Entry(c, next[c])) /\ next' = [next EXCEPT ![c] = @ + 1]
    <3> DEFINE e == Entry(c, next[c])
    <3>1. e \in Entries /\ e.container = c /\ e.line = next[c]
      <4>1. next[c] \in 1..MaxLines
        BY <2>1 DEF IInv, TypeOK, SendsWritten
      <4> QED
        BY <4>1 DEF Entry, Entries
    <3>2. Sent' = Append(Sent, e)
      <4> HIDE DEF e
      <4>1. received \in Seq(Entries) /\ logCh \in Seq(Entries) /\ e \in Entries
        BY <1>0, <3>1 DEF TypeOK
      <4> QED
        BY <2>1, <2>2, <4>1 DEF Sent, e
    <3> HIDE DEF e
    <3>3. CASE d = c
      <4>1. next'[c] = next[c] + 1
        BY <1>0, <2>2 DEF TypeOK
      <4> QED
        BY <1>0, <2>1, <3>1, <3>2, <3>3, <4>1, RunSends DEF Unopened
    <3>4. CASE d # c
      BY <1>0, <2>1, <3>1, <3>2, <3>4, OtherSends
    <3> QED
      BY <3>3, <3>4
  <2>3. CASE UNCHANGED logCh /\ next' = [next EXCEPT ![c] = @ + 1]
    <3>1. Sent' = Sent /\ next'[c] = next[c] + 1
      BY <1>0, <2>1, <2>3 DEF TypeOK, Sent
    <3>2. CASE d = c
      BY <1>0, <2>1, <3>1, <3>2, RunSkips DEF Unopened
    <3>3. CASE d # c
      BY <2>1, <3>1, <3>3, RunKept
    <3> QED
      BY <3>2, <3>3
  <2>4. CASE UNCHANGED <<logCh, next>>
    <3>1. Sent' = Sent /\ (pc'[d] \in {"read", "send"} => pc[d] \in {"read", "send"})
      BY <2>1, <2>4 DEF Sent
    <3> QED
      BY <2>1, <2>4, <3>1, RunKept
  <2> QED
    BY <1>4, <2>2, <2>3, <2>4 DEF Send
<1>5. ASSUME NEW c \in Containers, Disconnect(c) PROVE (Unopened(d) \/ Running(d))'
  <2>1. /\ Sent' = Sent /\ connects' = connects /\ next' = next
        /\ pc'[d] \in {"read", "send"} => pc[d] \in {"read", "send"}
    BY <1>0, <1>5 DEF Disconnect, TypeOK, Sent
  <2> QED
    BY <2>1, RunKept
<1>6. CASE Receive
  <2>1. Sent' = Sent /\ UNCHANGED streamVars
    BY <1>0, <1>6, ReceiveSent DEF Receive
  <2> QED
    BY <2>1, RunKept
<1>7. CASE UNCHANGED vars
  BY <1>7, RunKept DEF vars, Sent
<1> QED
  BY <1>1, <1>2, <1>3, <1>4, <1>5, <1>6, <1>7 DEF Next

(***************************************************************************)
(* For every container, whatever its tail, however its lines are dropped   *)
(* and its streams cut off, and however many containers compete for the    *)
(* channel: the pipeline sees at most one ascending run per stream.        *)
(***************************************************************************)
THEOREM AscendingRuns == Spec => []OneAscendingRunPerStream
<1>1. Init => RunInv
  <2> SUFFICES ASSUME Init PROVE RunInv
    OBVIOUS
  <2>1. Sent = <<>>
    BY DEF Init, Sent
  <2> QED
    BY <2>1 DEF Init, RunInv, Unopened
<1>2. IInv /\ RunInv => OneAscendingRunPerStream
  <2> SUFFICES ASSUME IInv, NEW c \in Containers, Unopened(c) \/ Running(c)
               PROVE  Cardinality(GoesBack(Sent, c))
                         <= IF connects[c] = 0 THEN 0 ELSE connects[c] - 1
    BY DEF RunInv, OneAscendingRunPerStream
  <2>1. CASE Unopened(c)
    <3>1. GoesBack(Sent, c) = {}
      BY <2>1 DEF Unopened, GoesBack
    <3> QED
      BY <2>1, <3>1, FS_EmptySet DEF Unopened
  <2>2. CASE Running(c)
    <3>1. Cardinality(GoesBack(Sent, c)) \in Nat /\ connects[c] \in Nat
      BY GoesBackFinite, SentType DEF IInv, TypeOK
    <3> QED
      BY <2>2, <3>1 DEF Running
  <2> QED
    BY <2>1, <2>2
<1> QED
  BY <1>1, <1>2, Invariant, NextRunInv, PTL DEF Spec
=============================================================================
