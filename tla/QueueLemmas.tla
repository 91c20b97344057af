---------------------------- MODULE QueueLemmas -----------------------------
(***************************************************************************)
(* The lists and queues of the server, as sequences: what popping the      *)
(* front and appending to the back do to the set of the elements.          *)
(***************************************************************************)
EXTENDS SequencesExt, SequenceTheorems, TLAPS

(* Popping a queue without repetitions takes one element out of the set of *)
(* its elements: freeAdhocSessIDList in getFreeAdhocSessID, jobQueue in    *)
(* popJob.                                                                 *)
LEMMA PopProperties ==
    ASSUME NEW S, NEW l \in Seq(S), l # <<>>, IsInjective(l)
    PROVE  /\ Head(l) \in S
           /\ Tail(l) \in Seq(S)
           /\ ToSet(l) = {Head(l)} \cup ToSet(Tail(l))
           /\ Head(l) \notin ToSet(Tail(l))
           /\ IsInjective(Tail(l))
<1>1. /\ Head(l) \in S /\ Head(l) = l[1]
      /\ Tail(l) \in Seq(S) /\ Len(Tail(l)) = Len(l) - 1
      /\ \A i \in 1..Len(Tail(l)) : Tail(l)[i] = l[i + 1]
  BY HeadTailProperties
<1>2. /\ Len(l) \in Nat \ {0}
      /\ DOMAIN l = 1..Len(l)
      /\ DOMAIN Tail(l) = 1..(Len(l) - 1)
  BY <1>1
<1>3. \A i \in 1..Len(l) : i = 1 \/ i - 1 \in 1..(Len(l) - 1)
  BY <1>2
<1>4. ToSet(l) = {Head(l)} \cup ToSet(Tail(l))
  <2>1. ToSet(l) \subseteq {Head(l)} \cup ToSet(Tail(l))
    <3>1. SUFFICES ASSUME NEW i \in 1..Len(l)
                   PROVE  l[i] \in {Head(l)} \cup ToSet(Tail(l))
      BY <1>2 DEF ToSet
    <3>2. CASE i = 1
      BY <1>1, <3>2
    <3>3. CASE i # 1
      <4>1. i - 1 \in DOMAIN Tail(l) /\ l[i] = Tail(l)[i - 1]
        BY <1>1, <1>2, <1>3, <3>3
      <4>2. QED BY <4>1 DEF ToSet
    <3>4. QED BY <3>2, <3>3
  <2>2. {Head(l)} \cup ToSet(Tail(l)) \subseteq ToSet(l)
    BY <1>1, <1>2 DEF ToSet
  <2>3. QED BY <2>1, <2>2
<1>5. Head(l) \notin ToSet(Tail(l)) /\ IsInjective(Tail(l))
  BY <1>1, <1>2 DEF ToSet, IsInjective
<1>6. QED BY <1>1, <1>4, <1>5

(* Appending a new element puts it into that set: freeAdhocSessIDList in   *)
(* releaseAdhocSessID, jobQueue in pushJob, jcReadyQueue in                *)
(* insertJCReadyQueue.                                                     *)
LEMMA PushProperties ==
    ASSUME NEW S, NEW l \in Seq(S), NEW e \in S, e \notin ToSet(l), IsInjective(l)
    PROVE  /\ Append(l, e) \in Seq(S)
           /\ ToSet(Append(l, e)) = ToSet(l) \cup {e}
           /\ IsInjective(Append(l, e))
<1>1. /\ Append(l, e) \in Seq(S)
      /\ Len(Append(l, e)) = Len(l) + 1
      /\ \A i \in 1..Len(l) : Append(l, e)[i] = l[i]
      /\ Append(l, e)[Len(l) + 1] = e
  BY AppendProperties
<1>2. /\ Len(l) \in Nat
      /\ DOMAIN l = 1..Len(l)
      /\ DOMAIN Append(l, e) = 1..(Len(l) + 1)
  BY <1>1
<1>3. ToSet(Append(l, e)) = ToSet(l) \cup {e}
  BY <1>1, <1>2 DEF ToSet
<1>4. IsInjective(Append(l, e))
  BY <1>1, <1>2 DEF ToSet, IsInjective
<1>5. QED BY <1>1, <1>3, <1>4

(* Two queues, one behind the other: the tasks of a task consumer and what *)
(* remained of earlier ones (taskConsumerThread), the plans that are ready *)
(* at first (PhysicalPlan).                                                *)
LEMMA JoinProperties ==
    ASSUME NEW S, NEW a \in Seq(S), NEW b \in Seq(S)
    PROVE  /\ a \o b \in Seq(S)
           /\ ToSet(a \o b) = ToSet(a) \cup ToSet(b)
           /\ IsInjective(a) /\ IsInjective(b) /\ ToSet(a) \cap ToSet(b) = {} =>
                 IsInjective(a \o b)
<1>1. /\ a \o b \in Seq(S)
      /\ Len(a \o b) = Len(a) + Len(b)
      /\ \A i \in 1..(Len(a) + Len(b)) :
            (a \o b)[i] = IF i <= Len(a) THEN a[i] ELSE b[i - Len(a)]
  BY ConcatProperties
<1>2. /\ Len(a) \in Nat /\ Len(b) \in Nat
      /\ DOMAIN a = 1..Len(a) /\ DOMAIN b = 1..Len(b)
      /\ DOMAIN (a \o b) = 1..(Len(a) + Len(b))
  BY <1>1
<1> DEFINE ab == a \o b
           m  == Len(a)
           n  == Len(b)
<1>3. /\ \A i \in 1..m : i \in 1..(m + n) /\ ab[i] = a[i]
      /\ \A i \in 1..n : i + m \in 1..(m + n) /\ ab[i + m] = b[i]
      /\ \A i \in 1..(m + n) : i \in 1..m \/ (i - m \in 1..n /\ ab[i] = b[i - m])
  BY <1>1, <1>2
<1>4. DOMAIN ab = 1..(m + n) /\ DOMAIN a = 1..m /\ DOMAIN b = 1..n
      /\ m \in Nat /\ n \in Nat
  BY <1>2
<1> HIDE DEF ab, m, n
<1>5. ToSet(ab) = ToSet(a) \cup ToSet(b)
  <2>1. ASSUME NEW i \in 1..(m + n) PROVE ab[i] \in ToSet(a) \cup ToSet(b)
    BY <1>3, <1>4 DEF ToSet
  <2>2. ASSUME NEW i \in 1..m PROVE a[i] \in ToSet(ab)
    BY <1>3, <1>4 DEF ToSet
  <2>3. ASSUME NEW i \in 1..n PROVE b[i] \in ToSet(ab)
    <3>1. i + m \in 1..(m + n) /\ ab[i + m] = b[i]
      BY <1>3
    <3>2. QED BY <1>4, <3>1 DEF ToSet
  <2>4. QED BY <1>4, <2>1, <2>2, <2>3 DEF ToSet
<1>6. ASSUME IsInjective(a), IsInjective(b), ToSet(a) \cap ToSet(b) = {}
      PROVE  IsInjective(ab)
  <2>1. SUFFICES ASSUME NEW i \in 1..(m + n), NEW j \in 1..(m + n), ab[i] = ab[j]
                 PROVE  i = j
    BY <1>4 DEF IsInjective
  <2>2. CASE i \in 1..m /\ j \in 1..m
    BY <1>3, <1>4, <1>6, <2>1, <2>2 DEF IsInjective
  <2>3. CASE i \notin 1..m /\ j \notin 1..m
    <3>1. i - m \in 1..n /\ j - m \in 1..n /\ b[i - m] = b[j - m]
      BY <1>3, <2>1, <2>3
    <3>2. i - m = j - m
      BY <1>4, <1>6, <3>1 DEF IsInjective
    <3>3. QED BY <1>4, <3>2
  <2>4. ASSUME NEW k \in 1..m, NEW l \in 1..(m + n), l \notin 1..m PROVE ab[k] # ab[l]
    <3>1. ab[k] \in ToSet(a)
      BY <1>3, <1>4 DEF ToSet
    <3>2. ab[l] \in ToSet(b)
      BY <1>3, <1>4, <2>4 DEF ToSet
    <3>3. QED BY <1>6, <3>1, <3>2
  <2>5. QED BY <2>1, <2>2, <2>3, <2>4
<1>7. QED BY <1>1, <1>5, <1>6 DEF ab

(* What is at the front of the first queue is at the front of both, and    *)
(* what goes to the back of the second goes to the back of both: jcIDs and *)
(* jcReadyQueue of the producer.                                           *)
LEMMA PopOfJoin ==
    ASSUME NEW S, NEW a \in Seq(S), NEW b \in Seq(S), a # <<>>
    PROVE  a \o b # <<>> /\ Head(a \o b) = Head(a) /\ Tail(a \o b) = Tail(a) \o b
<1>1. /\ a \o b \in Seq(S) /\ Len(a \o b) = Len(a) + Len(b)
      /\ \A i \in 1..(Len(a) + Len(b)) :
            (a \o b)[i] = IF i <= Len(a) THEN a[i] ELSE b[i - Len(a)]
  BY ConcatProperties
<1>2. Len(a) \in Nat \ {0} /\ Len(b) \in Nat
  OBVIOUS
<1>3. a \o b # <<>> /\ Head(a \o b) = Head(a)
  BY <1>1, <1>2
<1>4. /\ Tail(a) \in Seq(S) /\ Len(Tail(a)) = Len(a) - 1
      /\ \A i \in 1..(Len(a) - 1) : Tail(a)[i] = a[i + 1]
  BY HeadTailProperties
<1>5. /\ Tail(a \o b) \in Seq(S) /\ Len(Tail(a \o b)) = Len(a) + Len(b) - 1
      /\ \A i \in 1..(Len(a) + Len(b) - 1) : Tail(a \o b)[i] = (a \o b)[i + 1]
  <2>1. Len(Tail(a \o b)) = Len(a \o b) - 1
        /\ \A i \in 1..Len(Tail(a \o b)) : Tail(a \o b)[i] = (a \o b)[i + 1]
        /\ Tail(a \o b) \in Seq(S)
    BY <1>1, <1>3, HeadTailProperties
  <2>2. QED BY <1>1, <2>1
<1>6. /\ Tail(a) \o b \in Seq(S) /\ Len(Tail(a) \o b) = Len(a) - 1 + Len(b)
      /\ \A i \in 1..(Len(a) - 1 + Len(b)) :
            (Tail(a) \o b)[i] = IF i <= Len(a) - 1 THEN Tail(a)[i] ELSE b[i - (Len(a) - 1)]
  <2>1. /\ Tail(a) \o b \in Seq(S) /\ Len(Tail(a) \o b) = Len(Tail(a)) + Len(b)
        /\ \A i \in 1..(Len(Tail(a)) + Len(b)) :
              (Tail(a) \o b)[i] = IF i <= Len(Tail(a)) THEN Tail(a)[i]
                                 ELSE b[i - Len(Tail(a))]
    BY <1>4, ConcatProperties
  <2>2. QED BY <1>4, <2>1
<1>7. ASSUME NEW i \in 1..(Len(a) + Len(b) - 1)
      PROVE  Tail(a \o b)[i] = (Tail(a) \o b)[i]
  <2>1. /\ i \in 1..(Len(a) - 1 + Len(b)) /\ i + 1 \in 1..(Len(a) + Len(b))
        /\ (i <= Len(a) - 1 <=> i + 1 <= Len(a))
        /\ (i <= Len(a) - 1 => i \in 1..(Len(a) - 1))
        /\ i - (Len(a) - 1) = i + 1 - Len(a)
    BY <1>2
  <2>2. (Tail(a) \o b)[i] = IF i <= Len(a) - 1 THEN a[i + 1] ELSE b[i + 1 - Len(a)]
    BY <1>4, <1>6, <2>1
  <2>3. QED BY <1>1, <1>5, <2>1, <2>2
<1>8. Tail(a \o b) = Tail(a) \o b
  <2>1. Len(Tail(a \o b)) = Len(Tail(a) \o b)
        /\ \A i \in 1..Len(Tail(a \o b)) : Tail(a \o b)[i] = (Tail(a) \o b)[i]
    BY <1>2, <1>5, <1>6, <1>7
  <2>2. QED BY <1>5, <1>6, <2>1, SeqEqual
<1>9. QED BY <1>3, <1>8

LEMMA PushOfJoin ==
    ASSUME NEW S, NEW a \in Seq(S), NEW b \in Seq(S), NEW e \in S
    PROVE  a \o Append(b, e) = Append(a \o b, e)
<1>1. a \o b \in Seq(S) /\ <<e>> \in Seq(S)
  BY ConcatProperties
<1>2. Append(b, e) = b \o <<e>> /\ Append(a \o b, e) = (a \o b) \o <<e>>
  BY <1>1, AppendIsConcat
<1>3. QED BY <1>1, <1>2, ConcatAssociative

(* Cut in two, a queue is its parts one behind the other.                  *)
LEMMA CutProperties ==
    ASSUME NEW S, NEW l \in Seq(S), NEW n \in 0..Len(l)
    PROVE  /\ SubSeq(l, 1, n) \in Seq(S) /\ SubSeq(l, n + 1, Len(l)) \in Seq(S)
           /\ SubSeq(l, 1, n) \o SubSeq(l, n + 1, Len(l)) = l
<1>1. Len(l) \in Nat /\ \A i \in 1..Len(l) : l[i] \in S
  OBVIOUS
<1>2. SubSeq(l, 1, n) \in Seq(S) /\ SubSeq(l, n + 1, Len(l)) \in Seq(S)
  BY <1>1, SubSeqProperties
<1>3. /\ 1 \in 1..(Len(l) + 1) /\ n \in (1 - 1)..Len(l) /\ Len(l) \in n..Len(l)
  BY <1>1
<1>4. SubSeq(l, 1, n) \o SubSeq(l, n + 1, Len(l)) = SubSeq(l, 1, Len(l))
  BY <1>3, ConcatAdjacentSubSeq
<1>5. QED BY <1>2, <1>4, SubSeqFull
=============================================================================
