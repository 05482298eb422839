---------------------------- MODULE IntakeProofs ----------------------------
(***************************************************************************)
(* That lines of one error meet in one record, for any lines, any pods and *)
(* any hash.                                                               *)
(***************************************************************************)
EXTENDS Intake, FiniteSetTheorems, TLAPS

(* Of a recognised message the tokens are what is said, as it is said. *)
LEMMA TokensOfRecognised ==
    ASSUME NEW part \in Part, part.kind \notin {"iso", "uuidDigits", "rest"}
    PROVE  /\ IsToken(part) <=> \/ part.kind = "word"
                                \/ part.kind = "level" /\ part.value \notin StopWords
           /\ IsToken(part) => normalize(part) = part
<1>1. DOMAIN Order = 1..5
  BY DEF Order
<1>2. CASE part.kind \in {"level", "word", "stopWord", "digits"}
  <2>1. Touching(part) = {}
    BY <1>1, <1>2 DEF Touching, Erased, Damaged, Order
  <2> QED
    BY <1>2, <2>1 DEF IsToken, Survives, normalize
<1>3. CASE part.kind \in {"date", "epoch", "uuid", "ip", "podSuffix", "number"}
  <2>1. ~Survives(part)
    BY <1>1, <1>3 DEF Survives, Touching, Erased, Damaged, Order
  <2> QED
    BY <1>3, <2>1 DEF IsToken
<1> QED
  BY <1>2, <1>3 DEF Part, Kinds

(* The messages of lines are sequences of parts. *)
LEMMA MessageIsParts ==
    ASSUME NEW line \in Lines
    PROVE  Message(line) \in Seq(Part)
<1>1. line.head \in Seq(Part) /\ line.body \in Seq(Part)
  BY LinesAssumption
<1> QED
  BY <1>1 DEF Message, Raw

LEMMA SaidTokens ==
    ASSUME NEW m \in Seq(Part), Recognised(m)
    PROVE  /\ Tokens(m) = Said(m)
           /\ \A k \in Tokens(m) : normalize(m[k]) = m[k]
<1>1. ASSUME NEW k \in DOMAIN m
      PROVE  /\ IsToken(m[k]) <=> k \in Said(m)
             /\ IsToken(m[k]) => normalize(m[k]) = m[k]
  <2>1. m[k] \in Part /\ m[k].kind \notin {"iso", "uuidDigits", "rest"}
    BY <1>1 DEF Recognised
  <2> QED
    BY <1>1, <2>1, TokensOfRecognised DEF Said
<1> QED
  BY <1>1 DEF Tokens, Said

(* The positions of a sequence are a finite set. *)
LEMMA FinitePositions ==
    ASSUME NEW S, NEW m \in Seq(S), NEW T \in SUBSET DOMAIN m
    PROVE  IsFiniteSet(T) /\ Cardinality(T) \in Nat /\ Cardinality(T) <= Len(m)
<1>1. Len(m) \in Nat /\ DOMAIN m = 1..Len(m)
  OBVIOUS
<1>2. ASSUME NEW n \in Nat PROVE IsFiniteSet(1..n) /\ Cardinality(1..n) = n
  <2>1. IsFiniteSet(1..n) /\ Cardinality(1..n) = IF 1 > n THEN 0 ELSE n - 1 + 1
    BY FS_Interval, 1 \in Int, n \in Int, Zenon
  <2> QED
    BY <2>1
<1> QED
  BY <1>1, <1>2, FS_Subset, FS_CardinalityType

(* A bijection restricts to the positions where a bit is voted for. *)
LEMMA VotersCorrespond ==
    ASSUME NEW m \in Seq(Part), NEW n \in Seq(Part),
           NEW f \in Bijection(Said(m), Said(n)), \A k \in Said(m) : n[f[k]] = m[k],
           NEW H \in SUBSET Part
    PROVE  Cardinality({k \in Said(m) : m[k] \in H}) = Cardinality({k \in Said(n) : n[k] \in H})
<1> DEFINE M == {k \in Said(m) : m[k] \in H}
           N == {k \in Said(n) : n[k] \in H}
           g == [k \in M |-> f[k]]
<1>1. f \in [Said(m) -> Said(n)] /\ (\A a, b \in Said(m) : f[a] = f[b] => a = b)
      /\ \A t \in Said(n) : \E s \in Said(m) : f[s] = t
  BY DEF Bijection, Injection, Surjection, IsInjective
<1>2. g \in [M -> N]
  BY <1>1
<1>3. \A a, b \in M : g[a] = g[b] => a = b
  BY <1>1
<1>4. \A t \in N : \E s \in M : g[s] = t
  <2> SUFFICES ASSUME NEW t \in N PROVE \E s \in M : g[s] = t
    OBVIOUS
  <2>1. PICK s \in Said(m) : f[s] = t
    BY <1>1
  <2>2. s \in M /\ g[s] = t
    BY <2>1
  <2> QED
    BY <2>2
<1>5. g \in Bijection(M, N)
  BY <1>2, <1>3, <1>4 DEF Bijection, Injection, Surjection, IsInjective
<1>6. IsFiniteSet(M)
  BY FinitePositions DEF Said
<1> QED
  BY <1>5, <1>6, FS_Bijection DEF ExistsBijection

(***************************************************************************)
(* Two messages of one error have the same fingerprint, whatever the hash: *)
(* neither the order of the words nor what is stripped has a vote.         *)
(***************************************************************************)
THEOREM SameErrorSameFingerprint ==
    ASSUME NEW m \in Seq(Part), NEW n \in Seq(Part),
           Recognised(m), Recognised(n), SameError(m, n)
    PROVE  Fingerprint(m) = Fingerprint(n)
<1>1. PICK f \in Bijection(Said(m), Said(n)) : \A k \in Said(m) : n[f[k]] = m[k]
  BY DEF SameError
<1>2. ASSUME NEW i \in Bits PROVE Votes(m, i) = Votes(n, i)
  <2> DEFINE H == {p \in Part : i \in Hash[p]}
             For(s) == {k \in Said(s) : s[k] \in H}
             Against(s) == {k \in Said(s) : s[k] \in Part \ H}
  <2> HIDE DEF H
  <2>0. ASSUME NEW G \in SUBSET Part
        PROVE  Cardinality({k \in Said(m) : m[k] \in G}) = Cardinality({k \in Said(n) : n[k] \in G})
    BY <1>1, VotersCorrespond, Zenon
  <2>1. Cardinality(For(m)) = Cardinality(For(n))
    <3>1. H \in SUBSET Part
      BY DEF H
    <3> QED
      BY <2>0, <3>1, Zenon
  <2>2. Cardinality(Against(m)) = Cardinality(Against(n))
    <3>1. Part \ H \in SUBSET Part
      OBVIOUS
    <3> QED
      BY <2>0, <3>1, Zenon
  <2>3. ASSUME NEW s \in Seq(Part), Recognised(s)
        PROVE  Votes(s, i) = Cardinality(For(s)) - Cardinality(Against(s))
    <3>1. Tokens(s) = Said(s) /\ \A k \in Said(s) : normalize(s[k]) = s[k] /\ s[k] \in Part
      BY <2>3, SaidTokens DEF Said
    <3>2. {k \in Tokens(s) : i \in Hash[normalize(s[k])]} = For(s)
      BY <3>1 DEF H
    <3>3. {k \in Tokens(s) : i \notin Hash[normalize(s[k])]} = Against(s)
      BY <3>1 DEF H
    <3> QED
      BY <3>2, <3>3 DEF Votes
  <2> QED
    BY <2>1, <2>2, <2>3
<1> QED
  BY <1>2 DEF Fingerprint

-----------------------------------------------------------------------------
EventFp(event) == Fingerprint(Message(event[1]))
Fp(k) == EventFp(passed[k])

(* What the records say is what has passed; their first events are analysed. *)
IInv ==
    /\ TypeOK
    /\ \A k \in DOMAIN passed : Fp(k) \in DOMAIN records
    /\ \A fp \in DOMAIN records :
          LET events == {k \in DOMAIN passed : Fp(k) = fp}
          IN  /\ records[fp].count = Cardinality(events)
              /\ \A k \in events : passed[k][2] \in records[fp].pods
    /\ \A k, j \in analysed : Fp(k) = Fp(j) => k = j

(* Events of one error have one fingerprint. *)
LEMMA SameErrorSameFp ==
    ASSUME TypeOK, NEW k \in DOMAIN passed, NEW j \in DOMAIN passed,
           Recognised(MessageOf(k)), Recognised(MessageOf(j)),
           SameError(MessageOf(k), MessageOf(j))
    PROVE  Fp(k) = Fp(j)
<1>1. passed[k][1] \in Lines /\ passed[j][1] \in Lines
  BY DEF TypeOK
<1>2. MessageOf(k) \in Seq(Part) /\ MessageOf(j) \in Seq(Part)
  BY <1>1, MessageIsParts DEF MessageOf
<1> QED
  BY <1>2, SameErrorSameFingerprint DEF Fp, EventFp, MessageOf

LEMMA InitIInv == Init => IInv
<1> SUFFICES ASSUME Init PROVE IInv
  OBVIOUS
<1>1. DOMAIN records = {} /\ DOMAIN passed = {} /\ Len(passed) = 0
  BY DEF Init
<1> QED
  BY <1>1, BoundAssumption DEF Init, IInv, TypeOK

LEMMA NextIInv == IInv /\ [Next]_vars => IInv'
<1> SUFFICES ASSUME IInv, [Next]_vars PROVE IInv'
  OBVIOUS
<1>1. CASE UNCHANGED vars
  BY <1>1 DEF vars, IInv, TypeOK, Fp
<1>2. ASSUME NEW line \in Lines, NEW pod \in Pods, Arrive(line, pod) PROVE IInv'
  <2> DEFINE new == Len(passed) + 1
             fp == Fingerprint(Message(line))
             isNew == fp \notin DOMAIN records
             Fp1(k) == EventFp(passed'[k])
             Events(f) == {k \in DOMAIN passed : Fp(k) = f}
             Events1(f) == {k \in DOMAIN passed' : Fp1(k) = f}
  <2>1. /\ passed \in Seq(Lines \X Pods) /\ Len(passed) \in Nat
        /\ DOMAIN passed = 1..Len(passed) /\ new \notin DOMAIN passed
    BY DEF IInv, TypeOK
  <2>2. /\ passed' \in Seq(Lines \X Pods) /\ Len(passed') = new
        /\ DOMAIN passed' = DOMAIN passed \union {new}
        /\ \A k \in DOMAIN passed : passed'[k] = passed[k]
        /\ passed'[new] = <<line, pod>>
    BY <1>2, <2>1 DEF Arrive
  <2>3. (\A k \in DOMAIN passed : Fp1(k) = Fp(k)) /\ Fp1(new) = fp
    <3>1. ASSUME NEW k \in DOMAIN passed PROVE Fp1(k) = Fp(k)
      BY <2>2, <3>1 DEF Fp
    <3>2. EventFp(passed'[new]) = fp
      <4>1. passed'[new][1] = line
        BY <2>2
      <4> QED
        BY <4>1 DEF EventFp
    <3> QED
      BY <3>1, <3>2
  <2>4. ASSUME NEW f
        PROVE  Events1(f) = IF f = fp THEN Events(f) \union {new} ELSE Events(f)
    <3>1. \A k : k \in Events1(f) <=> (k \in DOMAIN passed \/ k = new) /\ Fp1(k) = f
      BY <2>2
    <3>2. \A k : k \in Events(f) <=> k \in DOMAIN passed /\ Fp1(k) = f
      BY <2>3
    <3>3. \A k : k \in Events1(f) <=> k \in Events(f) \/ (k = new /\ f = fp)
      BY <2>3, <3>1, <3>2
    <3> HIDE DEF Events, Events1
    <3> QED
      BY <3>3
  <2>5. ASSUME NEW f
        PROVE  /\ IsFiniteSet(Events(f)) /\ new \notin Events(f)
               /\ Cardinality(Events(f)) \in Nat /\ Cardinality(Events(f)) <= Len(passed)
    <3>1. Events(f) \in SUBSET DOMAIN passed /\ new \notin Events(f)
      BY <2>1
    <3> QED
      BY <2>1, <3>1, FinitePositions
  <2>6. Cardinality(Events1(fp)) = Cardinality(Events(fp)) + 1
    <3>1. Events1(fp) = Events(fp) \union {new}
      BY <2>4
    <3>2. IsFiniteSet(Events(fp)) /\ new \notin Events(fp)
      BY <2>5
    <3> HIDE DEF Events
    <3> QED
      BY <3>1, <3>2, FS_AddElement
  <2>7. DOMAIN records' = DOMAIN records \union {fp}
    BY <1>2 DEF Arrive, RecordEvent
  <2>8. \A f \in DOMAIN records : f # fp => records'[f] = records[f]
    BY <1>2 DEF Arrive, RecordEvent
  <2>9. isNew => Events(fp) = {}
    BY DEF IInv
  <2>10. /\ records'[fp].count = Cardinality(Events1(fp))
         /\ records'[fp].pods = (IF isNew THEN {} ELSE records[fp].pods) \union {pod}
         /\ records'[fp] = [count |-> records'[fp].count, pods |-> records'[fp].pods]
    <3>1. CASE isNew
      <4>1. Cardinality(Events(fp)) = 0
        BY <2>9, <3>1, FS_EmptySet
      <4>2. records'[fp] = [count |-> 1, pods |-> {pod}]
        BY <1>2, <3>1 DEF Arrive, RecordEvent
      <4> QED
        BY <2>6, <3>1, <4>1, <4>2
    <3>2. CASE ~isNew
      <4>1. records'[fp] = [count |-> records[fp].count + 1, pods |-> records[fp].pods \union {pod}]
        BY <1>2, <3>2 DEF Arrive, RecordEvent
      <4>2. records[fp].count = Cardinality(Events(fp))
        BY <3>2 DEF IInv
      <4> QED
        BY <2>6, <3>2, <4>1, <4>2
    <3> QED
      BY <3>1, <3>2
  <2>11. analysed' = IF isNew THEN analysed \union {new} ELSE analysed
    BY <1>2 DEF Arrive, RecordEvent
  <2>12. \A k \in DOMAIN passed' : Fp1(k) \in DOMAIN records'
    BY <2>2, <2>3, <2>7 DEF IInv
  <2>13. ASSUME NEW f \in DOMAIN records'
         PROVE  /\ records'[f].count = Cardinality(Events1(f))
                /\ \A k \in Events1(f) : passed'[k][2] \in records'[f].pods
    <3>1. CASE f # fp
      <4>1. f \in DOMAIN records /\ records'[f] = records[f]
        BY <2>7, <2>8, <2>13, <3>1
      <4>2. Events1(f) = Events(f) /\ \A k \in Events(f) : passed'[k] = passed[k]
        BY <2>2, <2>4, <3>1
      <4>3. /\ records[f].count = Cardinality(Events(f))
            /\ \A k \in Events(f) : passed[k][2] \in records[f].pods
        BY <4>1 DEF IInv
      <4> HIDE DEF Events, Events1
      <4> QED
        BY <4>1, <4>2, <4>3
    <3>2. CASE f = fp
      <4>1. \A k \in Events(fp) : passed[k][2] \in records'[fp].pods
        BY <2>9, <2>10 DEF IInv
      <4>2. \A k \in Events1(fp) : passed'[k][2] \in records'[fp].pods
        <5>1. Events1(fp) = Events(fp) \union {new}
          BY <2>4
        <5>2. \A k \in Events(fp) : passed'[k][2] = passed[k][2]
          BY <2>2
        <5>3. passed'[new][2] \in records'[fp].pods
          BY <2>2, <2>10
        <5> HIDE DEF Events, Events1
        <5> QED
          BY <4>1, <5>1, <5>2, <5>3
      <4> QED
        BY <2>10, <3>2, <4>2
    <3> QED
      BY <3>1, <3>2
  <2>14. \A k, j \in analysed' : Fp1(k) = Fp1(j) => k = j
    <3>1. analysed \subseteq DOMAIN passed
      BY DEF IInv, TypeOK
    <3>2. isNew => \A k \in analysed : Fp(k) # fp
      BY <2>9, <3>1
    <3> QED
      BY <2>3, <2>11, <3>1, <3>2 DEF IInv
  <2>15. TypeOK'
    <3>1. fp \in SUBSET Bits
      BY DEF Fingerprint
    <3>2. Len(passed') <= MaxLines
      BY <1>2, <2>1, <2>2, BoundAssumption DEF Arrive
    <3>3. records'[fp] \in [count : 1..MaxLines, pods : SUBSET Pods]
      <4>1. records'[fp].count \in 1..MaxLines
        <5>1. Cardinality(Events(fp)) \in Nat /\ Cardinality(Events(fp)) <= Len(passed)
          BY <2>5
        <5>2. records'[fp].count = Cardinality(Events(fp)) + 1
          BY <2>6, <2>10
        <5>3. Len(passed) + 1 <= MaxLines
          BY <2>2, <3>2
        <5> HIDE DEF Events, fp
        <5> QED
          BY <2>1, <5>1, <5>2, <5>3, BoundAssumption
      <4>2. records'[fp].pods \in SUBSET Pods
        BY <2>10 DEF IInv, TypeOK
      <4> QED
        BY <2>10, <4>1, <4>2
    <3>4. analysed' \subseteq DOMAIN passed'
      BY <2>2, <2>11 DEF IInv, TypeOK
    <3> QED
      BY <2>2, <2>7, <2>8, <3>1, <3>2, <3>3, <3>4 DEF IInv, TypeOK
  <2> QED
    BY <2>12, <2>13, <2>14, <2>15 DEF IInv, Fp
<1> QED
  BY <1>1, <1>2 DEF Next

-----------------------------------------------------------------------------
(* Every variable keeps its type; a count is at least one. *)
THEOREM TypeCorrect == Spec => []TypeOK
<1>1. IInv => TypeOK
  BY DEF IInv
<1> QED
  BY InitIInv, NextIInv, <1>1, PTL DEF Spec

(* All events of one error are in one record, with all their pods. *)
THEOREM Grouped == Spec => []ErrorsAreGrouped
<1>1. IInv => ErrorsAreGrouped
  <2> SUFFICES ASSUME IInv, NEW k \in DOMAIN passed, Recognised(MessageOf(k))
               PROVE  LET same == {j \in DOMAIN passed :
                                     Recognised(MessageOf(j)) /\ SameError(MessageOf(k), MessageOf(j))}
                      IN  \E fp \in DOMAIN records :
                             /\ records[fp].count >= Cardinality(same)
                             /\ {passed[j][2] : j \in same} \subseteq records[fp].pods
    BY DEF ErrorsAreGrouped
  <2> DEFINE same == {j \in DOMAIN passed :
                        Recognised(MessageOf(j)) /\ SameError(MessageOf(k), MessageOf(j))}
             events == {j \in DOMAIN passed : Fp(j) = Fp(k)}
  <2>1. same \subseteq events
    BY SameErrorSameFp DEF IInv
  <2>2. IsFiniteSet(events) /\ Cardinality(events) \in Nat
    BY FinitePositions DEF IInv, TypeOK
  <2>3. IsFiniteSet(same) /\ Cardinality(same) \in Nat /\ Cardinality(same) <= Cardinality(events)
    BY <2>1, <2>2, FS_Subset, FS_CardinalityType
  <2>4. /\ Fp(k) \in DOMAIN records
        /\ records[Fp(k)].count = Cardinality(events)
        /\ \A j \in events : passed[j][2] \in records[Fp(k)].pods
    BY DEF IInv
  <2> QED
    BY <2>1, <2>2, <2>3, <2>4
<1> QED
  BY InitIInv, NextIInv, <1>1, PTL DEF Spec

(* No error is analysed twice by one store, in whatever form it comes. *)
THEOREM AnalysedOnce == Spec => []OneAnalysisPerError
<1>1. IInv => OneAnalysisPerError
  BY SameErrorSameFp DEF IInv, TypeOK, OneAnalysisPerError
<1> QED
  BY InitIInv, NextIInv, <1>1, PTL DEF Spec
=============================================================================
