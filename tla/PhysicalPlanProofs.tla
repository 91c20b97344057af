------------------------- MODULE PhysicalPlanProofs -------------------------
(***************************************************************************)
(* Proofs about PhysicalPlan, for any networks, epochs, mini batches and   *)
(* requests of one client: the counters are exact, so a mini batch ends    *)
(* when its last plan is done; the counters and the queue implement        *)
(* PlanSpec; and what LogicalPlan makes of the names of the tensors is     *)
(* enough for a layer to be run when its data are there.                   *)
(***************************************************************************)
EXTENDS PhysicalPlan, QueueLemmas, FiniteSetTheorems, WellFoundedInduction

(* A network has one client: a reset by another one may come in the middle *)
(* of a mini batch, which the code does not allow for.                     *)
OneClient(c) == Clients = {c}

-----------------------------------------------------------------------------
(* Sequences.                                                              *)

(* The rank of a plan among those that are ready is its place in InOrder.  *)
LEMMA InOrderProperties ==
    ASSUME NEW S, IsFiniteSet(S), S \subseteq Nat
    PROVE  /\ InOrder(S) \in Seq(S)
           /\ ToSet(InOrder(S)) = S
           /\ IsInjective(InOrder(S))
           /\ \A i, j \in DOMAIN InOrder(S) : i < j => InOrder(S)[i] < InOrder(S)[j]
<1> DEFINE n == Cardinality(S)
           below(x) == {y \in S : y < x}
           rank == [x \in S |-> Cardinality(below(x)) + 1]
           s == InOrder(S)
<1>1. n \in Nat
  BY FS_CardinalityType
<1>2. \A x \in S : IsFiniteSet(below(x)) /\ Cardinality(below(x)) \in Nat
  <2>1. SUFFICES ASSUME NEW x \in S
                 PROVE  IsFiniteSet(below(x)) /\ Cardinality(below(x)) \in Nat
    OBVIOUS
  <2>2. below(x) \in SUBSET S
    OBVIOUS
  <2>3. IsFiniteSet(below(x))
    BY <2>2, FS_Subset
  <2>4. QED BY <2>3, FS_CardinalityType
<1>3. \A x \in S : Cardinality(below(x)) < n
  <2>1. SUFFICES ASSUME NEW x \in S PROVE Cardinality(below(x)) < n
    OBVIOUS
  <2>2. below(x) \in SUBSET S /\ below(x) # S
    OBVIOUS
  <2>3. Cardinality(below(x)) <= n /\ Cardinality(below(x)) # n
    BY <2>2, FS_Subset
  <2>4. QED BY <1>1, <1>2, <2>3
<1>4. \A x, y \in S : x < y => Cardinality(below(x)) < Cardinality(below(y))
  <2>1. SUFFICES ASSUME NEW x \in S, NEW y \in S, x < y
                 PROVE  Cardinality(below(x)) < Cardinality(below(y))
    OBVIOUS
  <2>2. below(x) \in SUBSET below(y) /\ x \in below(y) /\ x \notin below(x)
    <3>1. \A z \in below(x) : z \in S /\ z \in Nat /\ x \in Nat /\ y \in Nat /\ z < x
      OBVIOUS
    <3>2. \A z \in below(x) : z < y
      BY <2>1, <3>1
    <3>3. below(x) \subseteq below(y)
      BY <3>1, <3>2
    <3>4. x \in below(y) /\ ~(x < x)
      BY <2>1
    <3>5. QED BY <3>3, <3>4
  <2>3. /\ Cardinality(below(x)) <= Cardinality(below(y))
        /\ Cardinality(below(x)) # Cardinality(below(y))
    BY <1>2, <2>2, FS_Subset
  <2>4. QED BY <1>2, <2>3
<1>5. rank \in Injection(S, 1..n)
  <2>1. rank \in [S -> 1..n]
    BY <1>1, <1>2, <1>3
  <2>2. \A x, y \in S : rank[x] = rank[y] => x = y
    <3>1. SUFFICES ASSUME NEW x \in S, NEW y \in S, rank[x] = rank[y] PROVE x = y
      OBVIOUS
    <3>2. Cardinality(below(x)) = Cardinality(below(y))
      BY <1>2, <3>1
    <3>3. ~(x < y) /\ ~(y < x)
      BY <1>2, <1>4, <3>2
    <3>4. QED BY <3>3
  <2>3. QED BY <2>1, <2>2 DEF Injection, IsInjective
<1>6. rank \in Surjection(S, 1..n)
  <2>1. IsFiniteSet(1..n) /\ Cardinality(1..n) = n
    BY <1>1, FS_Interval
  <2>2. QED BY <1>5, <2>1, FS_Injection
<1>7. \A i \in 1..n : \E x \in S : rank[x] = i
  BY <1>6 DEF Surjection
<1>8. \A i \in 1..n : s[i] \in S /\ rank[s[i]] = i
  <2>1. SUFFICES ASSUME NEW i \in 1..n PROVE s[i] \in S /\ rank[s[i]] = i
    OBVIOUS
  <2>2. \E x \in S : Cardinality(below(x)) = i - 1
    BY <1>2, <1>7
  <2>3. s[i] = CHOOSE x \in S : Cardinality(below(x)) = i - 1
    BY <2>1 DEF InOrder
  <2>4. s[i] \in S /\ Cardinality(below(s[i])) = i - 1
    BY <2>2, <2>3
  <2>5. QED BY <2>4
<1>9. s \in [1..n -> S]
  BY <1>8 DEF InOrder
<1>10. s \in Seq(S) /\ DOMAIN s = 1..n
  BY <1>1, <1>9
<1>11. IsInjective(s)
  <2>1. SUFFICES ASSUME NEW i \in 1..n, NEW j \in 1..n, s[i] = s[j] PROVE i = j
    BY <1>10 DEF IsInjective
  <2>2. QED BY <1>8, <2>1
<1>12. \A x \in S : \E i \in 1..n : s[i] = x
  <2>1. SUFFICES ASSUME NEW x \in S PROVE \E i \in 1..n : s[i] = x
    OBVIOUS
  <2>2. rank[x] \in 1..n
    BY <1>5 DEF Injection
  <2>3. rank[s[rank[x]]] = rank[x] /\ s[rank[x]] \in S
    BY <1>8, <2>2
  <2>4. s[rank[x]] = x
    BY <1>5, <2>3 DEF Injection, IsInjective
  <2>5. QED BY <2>2, <2>4
<1>13. ToSet(s) = S
  BY <1>8, <1>10, <1>12 DEF ToSet
<1>14. \A i, j \in 1..n : i < j => s[i] < s[j]
  <2>1. SUFFICES ASSUME NEW i \in 1..n, NEW j \in 1..n, i < j PROVE s[i] < s[j]
    OBVIOUS
  <2>2. PICK x \in S, y \in S : x = s[i] /\ y = s[j] /\ rank[x] = i /\ rank[y] = j
    BY <1>8
  <2>3. Cardinality(below(x)) + 1 = i /\ Cardinality(below(y)) + 1 = j
    BY <2>2
  <2>4. Cardinality(below(x)) < Cardinality(below(y))
    BY <1>2, <2>1, <2>3
  <2>5. ~(y < x) /\ x # y
    BY <1>2, <1>4, <2>4
  <2>6. x \in Nat /\ y \in Nat
    OBVIOUS
  <2>7. x < y
    BY <2>5, <2>6
  <2>8. QED BY <2>2, <2>7
<1>15. QED BY <1>10, <1>11, <1>13, <1>14

LEMMA LargerSeq ==
    ASSUME NEW S, NEW T, S \subseteq T, NEW s \in Seq(S) PROVE s \in Seq(T)
<1>1. Len(s) \in Nat /\ s \in [1..Len(s) -> S]
  OBVIOUS
<1>2. s \in [1..Len(s) -> T]
  BY <1>1
<1>3. QED BY <1>1, <1>2

LEMMA LeastOf ==
    ASSUME NEW T, T \subseteq Nat, T # {}
    PROVE  \E x \in T : \A y \in T : x <= y
<1>1. \E x \in T : \A y \in T : ~(<<y, x>> \in OpToRel(<, Nat))
  BY NatLessThanWellFounded, WFMin
<1>2. \A x, y \in Nat : ~(<<y, x>> \in OpToRel(<, Nat)) => x <= y
  BY DEF OpToRel
<1>3. QED BY <1>1, <1>2

(* The partial concatenations of sequences, as FlattenSeq defines them.    *)
Flattens(f, ss, n) ==
    f = [i \in 1..n |-> IF i = 1 THEN ss[i] ELSE f[i - 1] \o ss[i]]

LEMMA FlattenDefinition ==
    ASSUME NEW ss, Len(ss) # 0
    PROVE  FlattenSeq(ss) = (CHOOSE f : Flattens(f, ss, Len(ss)))[Len(ss)]
BY DEF FlattenSeq, Flattens

LEMMA JoinedElements ==
    ASSUME NEW S, NEW s \in Seq(S), NEW t \in Seq(S)
    PROVE  /\ s \o t \in Seq(S)
           /\ ToSet(s) \subseteq ToSet(s \o t) /\ ToSet(t) \subseteq ToSet(s \o t)
<1>1. /\ s \o t \in Seq(S) /\ Len(s) \in Nat /\ Len(t) \in Nat
      /\ Len(s \o t) = Len(s) + Len(t)
      /\ \A i \in 1..Len(s) : (s \o t)[i] = s[i]
      /\ \A i \in 1..Len(t) : (s \o t)[Len(s) + i] = t[i]
  OBVIOUS
<1>2. /\ DOMAIN s = 1..Len(s) /\ DOMAIN t = 1..Len(t)
      /\ DOMAIN (s \o t) = 1..(Len(s) + Len(t))
  BY <1>1
<1>3. \A i \in 1..Len(s) : i \in 1..(Len(s) + Len(t))
  BY <1>1
<1>4. \A i \in 1..Len(t) : Len(s) + i \in 1..(Len(s) + Len(t))
  BY <1>1
<1>5. QED BY <1>1, <1>2, <1>3, <1>4 DEF ToSet

LEMMA FlattenExists ==
    ASSUME NEW ss, NEW n \in Nat \ {0}
    PROVE  \E f : Flattens(f, ss, n)
<1> DEFINE Bad == {k \in Nat \ {0} : ~\E f : Flattens(f, ss, k)}
<1>1. SUFFICES ASSUME Bad # {} PROVE FALSE
  OBVIOUS
<1>2. PICK k \in Bad : \A j \in Bad : k <= j
  <2>1. Bad \subseteq Nat
    OBVIOUS
  <2> HIDE DEF Bad
  <2>2. QED BY <1>1, <2>1, LeastOf
<1>3. k # 1
  <2>1. Flattens([i \in 1..1 |-> ss[i]], ss, 1)
    BY DEF Flattens
  <2>2. QED BY <2>1
<1>4. k - 1 \in Nat \ {0} /\ k - 1 \notin Bad
  <2>1. k \in Nat \ {0}
    OBVIOUS
  <2>2. k - 1 \in Nat \ {0} /\ ~(k <= k - 1)
    BY <1>3, <2>1
  <2> HIDE DEF Bad
  <2>3. QED BY <1>2, <2>2
<1>5. PICK f : Flattens(f, ss, k - 1)
  BY <1>4
<1>6. Flattens([i \in 1..k |-> IF i = k THEN f[k - 1] \o ss[k] ELSE f[i]], ss, k)
  <2> DEFINE g == [i \in 1..k |-> IF i = k THEN f[k - 1] \o ss[k] ELSE f[i]]
  <2>1. k \in Nat \ {0, 1}
    BY <1>3
  <2>2. /\ DOMAIN f = 1..(k - 1)
        /\ \A i \in 1..(k - 1) : f[i] = IF i = 1 THEN ss[i] ELSE f[i - 1] \o ss[i]
    BY <1>5 DEF Flattens
  <2>3. ASSUME NEW i \in 1..k PROVE g[i] = IF i = 1 THEN ss[i] ELSE g[i - 1] \o ss[i]
    <3>1. CASE i = k
      <4>1. k - 1 \in 1..k /\ k - 1 # k
        BY <2>1
      <4>2. g[k - 1] = f[k - 1] /\ g[i] = f[k - 1] \o ss[k]
        BY <3>1, <4>1
      <4>3. QED BY <2>1, <3>1, <4>2
    <3>2. CASE i # k /\ i # 1
      <4>1. i \in 1..(k - 1) /\ i - 1 \in 1..k /\ i - 1 # k
        BY <2>1, <3>2
      <4>2. g[i - 1] = f[i - 1] /\ g[i] = f[i]
        BY <3>2, <4>1
      <4>3. QED BY <2>2, <3>2, <4>1, <4>2
    <3>3. CASE i = 1
      <4>1. i # k /\ i \in 1..(k - 1)
        BY <2>1, <3>3
      <4>2. QED BY <2>2, <3>3, <4>1
    <3>4. QED BY <3>1, <3>2, <3>3
  <2>4. g = [i \in 1..k |-> IF i = 1 THEN ss[i] ELSE g[i - 1] \o ss[i]]
    <3>1. g = [i \in 1..k |-> g[i]]
      OBVIOUS
    <3> HIDE DEF g
    <3>2. QED BY <2>3, <3>1
  <2>5. QED BY <2>4 DEF Flattens
<1>7. QED BY <1>6

(* A sequence put together from sequences has their elements.              *)
LEMMA FlattenElements ==
    ASSUME NEW S, NEW ss \in Seq(Seq(S))
    PROVE  /\ FlattenSeq(ss) \in Seq(S)
           /\ \A i \in DOMAIN ss : ToSet(ss[i]) \subseteq ToSet(FlattenSeq(ss))
<1> DEFINE n == Len(ss)
<1>1. n \in Nat /\ DOMAIN ss = 1..n /\ \A i \in 1..n : ss[i] \in Seq(S)
  OBVIOUS
<1>2. CASE n = 0
  <2>1. FlattenSeq(ss) = ss
    BY <1>2 DEF FlattenSeq
  <2>2. ss = <<>> /\ ss \in Seq(S)
    BY <1>1, <1>2
  <2>3. QED BY <1>1, <1>2, <2>1, <2>2
<1>3. CASE n # 0
  <2>1. PICK f : Flattens(f, ss, n) /\ FlattenSeq(ss) = f[n]
    <3>1. \E f : Flattens(f, ss, n)
      BY <1>1, <1>3, FlattenExists
    <3>2. FlattenSeq(ss) = (CHOOSE f : Flattens(f, ss, n))[n]
      BY <1>3, FlattenDefinition
    <3>3. QED BY <3>1, <3>2
  <2>2. \A i \in 1..n : f[i] = IF i = 1 THEN ss[i] ELSE f[i - 1] \o ss[i]
    BY <2>1 DEF Flattens
  <2> DEFINE Good(k) == f[k] \in Seq(S) /\ \A j \in 1..k : ToSet(ss[j]) \subseteq ToSet(f[k])
             Bad == {k \in 1..n : ~Good(k)}
  <2>3. Bad = {}
    <3>1. SUFFICES ASSUME Bad # {} PROVE FALSE
      OBVIOUS
    <3>2. PICK k \in Bad : \A j \in Bad : k <= j
      <4>1. Bad \subseteq Nat
        OBVIOUS
      <4> HIDE DEF Bad
      <4>2. QED BY <3>1, <4>1, LeastOf
    <3>3. k \in 1..n /\ ~Good(k)
      OBVIOUS
    <3>4. CASE k = 1
      <4>1. f[k] = ss[1]
        BY <1>1, <1>3, <2>2, <3>4
      <4>2. \A j \in 1..k : j = 1
        BY <3>4
      <4>3. Good(k)
        BY <1>1, <1>3, <3>3, <3>4, <4>1, <4>2
      <4>4. QED BY <3>3, <4>3
    <3>5. CASE k # 1
      <4>1. k - 1 \in 1..n /\ ~(k <= k - 1)
        BY <1>1, <3>3, <3>5
      <4>2. k - 1 \notin Bad
        <5> HIDE DEF Bad
        <5>1. QED BY <3>2, <4>1
      <4>3. Good(k - 1)
        <5> HIDE DEF Good
        <5>1. QED BY <4>1, <4>2
      <4>4. f[k] = f[k - 1] \o ss[k]
        BY <2>2, <3>3, <3>5
      <4>5. f[k - 1] \in Seq(S) /\ ss[k] \in Seq(S)
        BY <1>1, <3>3, <4>3
      <4>6. /\ f[k] \in Seq(S)
            /\ ToSet(f[k - 1]) \subseteq ToSet(f[k]) /\ ToSet(ss[k]) \subseteq ToSet(f[k])
        BY <4>4, <4>5, JoinedElements
      <4>7. \A j \in 1..k : j \in 1..(k - 1) \/ j = k
        BY <1>1, <3>3
      <4>8. Good(k)
        BY <4>3, <4>6, <4>7
      <4>9. QED BY <3>3, <4>8
    <3>6. QED BY <3>4, <3>5
  <2>4. Good(n)
    <3>1. n \in 1..n
      BY <1>1, <1>3
    <3> HIDE DEF Good
    <3>2. QED BY <2>3, <3>1
  <2>5. QED BY <1>1, <2>1, <2>4
<1>4. QED BY <1>2, <1>3

-----------------------------------------------------------------------------
(* The layers around a tensor, by ID.                                      *)

(* The layers R that read a tensor and those W that write it: all but the  *)
(* first that write it are the first that read it, and come after it.      *)
Shape(R, W) ==
    /\ R \in Seq(Nat) /\ W \in Seq(Nat)
    /\ Len(W) \in 1..Len(R)
    /\ \A i, j \in 1..Len(R) : i < j => R[i] < R[j]
    /\ W[1] < R[1]
    /\ \A i \in 2..Len(W) : R[i - 1] = W[i]

LEMMA ShapeOrder ==
    ASSUME NEW R, NEW W, Shape(R, W)
    PROVE  /\ \A i \in 1..Len(W) : \A j \in 1..Len(R) :
                 /\ W[i] < R[j] <=> i <= j
                 /\ W[i] = R[j] <=> i = j + 1
           /\ \A i, j \in 1..Len(W) : W[i] < W[j] <=> i < j
           /\ \A i, j \in 1..Len(W) : W[i] = W[j] => i = j
<1>1. /\ Len(R) \in Nat /\ Len(W) \in Nat /\ Len(W) <= Len(R) /\ 1 <= Len(W)
      /\ \A i \in 1..Len(R) : R[i] \in Nat
      /\ \A i \in 1..Len(W) : W[i] \in Nat
  BY DEF Shape
<1>2. ASSUME NEW i \in 1..Len(W), NEW j \in 1..Len(R)
      PROVE  (W[i] < R[j] <=> i <= j) /\ (W[i] = R[j] <=> i = j + 1)
  <2>1. CASE i = 1
    <3>1. 1 \in 1..Len(R) /\ (1 < j => R[1] < R[j]) /\ (1 < j \/ j = 1)
      BY <1>1 DEF Shape
    <3>2. W[1] < R[1] /\ 1 \in 1..Len(R)
      BY <1>1 DEF Shape
    <3>3. W[1] < R[j]
      BY <1>1, <3>1, <3>2
    <3>4. QED BY <1>1, <2>1, <3>3
  <2>2. CASE i # 1
    <3>1. i - 1 \in 1..Len(R) /\ W[i] = R[i - 1]
      BY <1>1, <2>2 DEF Shape
    <3>2. (i - 1 < j => R[i - 1] < R[j]) /\ (j < i - 1 => R[j] < R[i - 1])
      BY <3>1 DEF Shape
    <3>3. (i - 1 < j <=> i <= j) /\ (i - 1 = j <=> i = j + 1)
      BY <1>1
    <3>4. QED BY <1>1, <3>1, <3>2, <3>3
  <2>3. QED BY <2>1, <2>2
<1>3. ASSUME NEW i \in 1..Len(W), NEW j \in 1..Len(W), i < j PROVE W[i] < W[j]
  <2>1. j - 1 \in 1..Len(R) /\ W[j] = R[j - 1] /\ i <= j - 1
    BY <1>1, <1>3 DEF Shape
  <2>2. QED BY <1>2, <2>1
<1>4. \A i, j \in 1..Len(W) : (W[i] < W[j] <=> i < j) /\ (W[i] = W[j] => i = j)
  <2>1. SUFFICES ASSUME NEW i \in 1..Len(W), NEW j \in 1..Len(W)
                 PROVE  (W[i] < W[j] <=> i < j) /\ (W[i] = W[j] => i = j)
    OBVIOUS
  <2>2. (i < j => W[i] < W[j]) /\ (j < i => W[j] < W[i])
    BY <1>3
  <2>3. QED BY <1>1, <2>2
<1>5. QED BY <1>2, <1>4

Read(net, t)  == {l \in DOMAIN net : t \in ToSet(net[l].inputs)}
Wrote(net, t) == {l \in DOMAIN net : t \in ToSet(net[l].outputs)}

LEMMA LayersFinite ==
    ASSUME NEW net \in Networks, NEW S, S \subseteq DOMAIN net
    PROVE  IsFiniteSet(S) /\ S \subseteq Nat
<1>1. DOMAIN net \subseteq 0..(SplitStart - 1) /\ SplitStart \in Nat
  BY NetworkAssumption DEF WellFormed
<1>2. S \in SUBSET (0..(SplitStart - 1))
  BY <1>1
<1>3. IsFiniteSet(0..(SplitStart - 1))
  BY <1>1, FS_Interval
<1>4. QED BY <1>1, <1>2, <1>3, FS_Subset

LEMMA ReadersAndWriters ==
    ASSUME NEW net \in Networks, NEW t
    PROVE  /\ Readers(net, t) \in Seq(Read(net, t)) /\ Writers(net, t) \in Seq(Wrote(net, t))
           /\ Readers(net, t) \in Seq(Nat) /\ Writers(net, t) \in Seq(Nat)
           /\ ToSet(Readers(net, t)) = Read(net, t)
           /\ ToSet(Writers(net, t)) = Wrote(net, t)
           /\ Readers(net, t) = <<>> <=> Read(net, t) = {}
           /\ Writers(net, t) = <<>> <=> Wrote(net, t) = {}
           /\ \A i, j \in 1..Len(Readers(net, t)) :
                 i < j => Readers(net, t)[i] < Readers(net, t)[j]
<1>1. /\ IsFiniteSet(Read(net, t)) /\ Read(net, t) \subseteq Nat
      /\ IsFiniteSet(Wrote(net, t)) /\ Wrote(net, t) \subseteq Nat
  BY LayersFinite DEF Read, Wrote
<1>2. Readers(net, t) = InOrder(Read(net, t)) /\ Writers(net, t) = InOrder(Wrote(net, t))
  BY DEF Readers, Writers, Read, Wrote
<1> HIDE DEF Read, Wrote
<1>3. /\ Readers(net, t) \in Seq(Read(net, t)) /\ Writers(net, t) \in Seq(Wrote(net, t))
      /\ ToSet(Readers(net, t)) = Read(net, t) /\ ToSet(Writers(net, t)) = Wrote(net, t)
      /\ \A i, j \in DOMAIN Readers(net, t) :
            i < j => Readers(net, t)[i] < Readers(net, t)[j]
  BY <1>1, <1>2, InOrderProperties
<1>4. Readers(net, t) \in Seq(Nat) /\ Writers(net, t) \in Seq(Nat)
  BY <1>1, <1>3, LargerSeq
<1>5. /\ Readers(net, t) = <<>> <=> Read(net, t) = {}
      /\ Writers(net, t) = <<>> <=> Wrote(net, t) = {}
  <2>1. ASSUME NEW s \in Seq(Nat) PROVE s = <<>> <=> ToSet(s) = {}
    <3>1. s # <<>> => 1 \in DOMAIN s
      OBVIOUS
    <3>2. DOMAIN <<>> = {}
      OBVIOUS
    <3>3. QED BY <3>1, <3>2 DEF ToSet
  <2>2. QED BY <1>3, <1>4, <2>1
<1>6. DOMAIN Readers(net, t) = 1..Len(Readers(net, t))
  BY <1>4
<1>7. QED BY <1>3, <1>4, <1>5, <1>6

LEMMA TensorShape ==
    ASSUME NEW net \in Networks, NEW t, Read(net, t) # {}, Wrote(net, t) # {}
    PROVE  Shape(Readers(net, t), Writers(net, t))
<1> DEFINE R == Readers(net, t)
           W == Writers(net, t)
<1>1. R # <<>> /\ W # <<>> /\ R \in Seq(Nat) /\ W \in Seq(Nat)
  BY ReadersAndWriters
<1>2. t \in Tensors(net)
  BY DEF Tensors, Read
<1>3. /\ Head(W) < Head(R) /\ Len(W) <= Len(R)
      /\ \A i \in 2..Len(W) : R[i - 1] = W[i]
  BY <1>1, <1>2, NetworkAssumption DEF WellFormed
<1>4. Head(W) = W[1] /\ Head(R) = R[1] /\ Len(W) \in Nat \ {0} /\ Len(R) \in Nat
  BY <1>1
<1>5. Len(W) \in 1..Len(R)
  BY <1>3, <1>4
<1>6. \A i, j \in 1..Len(R) : i < j => R[i] < R[j]
  BY ReadersAndWriters
<1>7. QED BY <1>1, <1>3, <1>4, <1>5, <1>6 DEF Shape

-----------------------------------------------------------------------------
(* The split layers.                                                       *)

LEMMA SetInSequence ==
    ASSUME NEW S, IsFiniteSet(S)
    PROVE  /\ SetToSeq(S) \in Seq(S) /\ ToSet(SetToSeq(S)) = S
           /\ IsInjective(SetToSeq(S))
<1> DEFINE n == Cardinality(S)
           s == SetToSeq(S)
<1>1. n \in Nat /\ \E f : f \in Bijection(1..n, S)
  BY FS_CardinalityType DEF ExistsBijection
<1>2. \E f \in [1..n -> S] : IsInjective(f)
  BY <1>1 DEF Bijection, Injection
<1>3. s \in [1..n -> S] /\ IsInjective(s)
  BY <1>2 DEF SetToSeq
<1>4. s \in Injection(1..n, S)
  BY <1>3 DEF Injection
<1>5. Cardinality(1..n) = n
  BY <1>1, FS_Interval
<1>6. s \in Surjection(1..n, S)
  BY <1>4, <1>5, FS_Injection
<1>7. \A x \in S : \E i \in 1..n : s[i] = x
  BY <1>6 DEF Surjection
<1>8. s \in Seq(S) /\ DOMAIN s = 1..n
  BY <1>1, <1>3
<1> HIDE DEF s
<1>9. ToSet(s) = S
  BY <1>3, <1>7, <1>8 DEF ToSet
<1>10. s \in Seq(S) /\ ToSet(s) = S /\ IsInjective(s)
  BY <1>3, <1>8, <1>9
<1>11. QED BY <1>10 DEF s

LEMMA ElementsFinite ==
    ASSUME NEW S, NEW s \in Seq(S) PROVE IsFiniteSet(ToSet(s))
<1>1. DOMAIN s = 1..Len(s) /\ Len(s) \in Nat
  OBVIOUS
<1>2. IsFiniteSet(DOMAIN s)
  BY <1>1, FS_Interval
<1>3. s \in Surjection(DOMAIN s, ToSet(s))
  BY DEF Surjection, ToSet
<1>4. QED BY <1>2, <1>3, FS_Surjection

LEMMA TensorsFinite ==
    ASSUME NEW net \in Networks PROVE IsFiniteSet(Tensors(net))
<1> DEFINE of(l) == ToSet(net[l].inputs) \cup ToSet(net[l].outputs)
           sets == {of(l) : l \in DOMAIN net}
<1>1. ASSUME NEW l \in DOMAIN net PROVE IsFiniteSet(of(l))
  <2>1. net[l].inputs \in Seq(Tensors(net)) /\ net[l].outputs \in Seq(Tensors(net))
    BY NetworkAssumption DEF WellFormed
  <2>2. IsFiniteSet(ToSet(net[l].inputs)) /\ IsFiniteSet(ToSet(net[l].outputs))
    BY <2>1, ElementsFinite
  <2>3. QED BY <2>2, FS_Union
<1>2. IsFiniteSet(DOMAIN net)
  BY LayersFinite
<1>3. [l \in DOMAIN net |-> of(l)] \in Surjection(DOMAIN net, sets)
  <2> HIDE DEF of
  <2>1. [l \in DOMAIN net |-> of(l)] \in [DOMAIN net -> sets]
    OBVIOUS
  <2>2. \A T \in sets : \E l \in DOMAIN net : [k \in DOMAIN net |-> of(k)][l] = T
    OBVIOUS
  <2>3. QED BY <2>1, <2>2 DEF Surjection
<1>4. IsFiniteSet(sets)
  BY <1>2, <1>3, FS_Surjection
<1>5. \A T \in sets : IsFiniteSet(T)
  BY <1>1
<1>6. IsFiniteSet(UNION sets)
  BY <1>4, <1>5, FS_UNION
<1>7. Tensors(net) = UNION sets
  BY DEF Tensors
<1>8. QED BY <1>6, <1>7

(* The tensors that a split layer was made for.                            *)
SplitSet(net) ==
    {t \in Tensors(net) :
        Writers(net, t) # <<>> /\ Len(Writers(net, t)) < Len(Readers(net, t))}

LEMMA SplitTensorsAre ==
    ASSUME NEW net \in Networks
    PROVE  /\ SplitTensors(net) \in Seq(SplitSet(net)) /\ IsInjective(SplitTensors(net))
           /\ ToSet(SplitTensors(net)) = SplitSet(net)
<1>1. SplitSet(net) \in SUBSET Tensors(net)
  BY DEF SplitSet
<1>2. IsFiniteSet(SplitSet(net))
  BY <1>1, TensorsFinite, FS_Subset
<1>3. SplitTensors(net) = SetToSeq(SplitSet(net))
  BY DEF SplitTensors, SplitSet
<1>4. QED BY <1>2, <1>3, SetInSequence

LEMMA SplitIDsAre ==
    ASSUME NEW net \in Networks
    PROVE  /\ IsFiniteSet(SplitIDs(net)) /\ SplitIDs(net) \subseteq Nat
           /\ \A s \in SplitIDs(net) : s \notin DOMAIN net /\ TensorOf(net, s) \in SplitSet(net)
           /\ \A t \in SplitSet(net) : \E s \in SplitIDs(net) : TensorOf(net, s) = t
           /\ \A s, r \in SplitIDs(net) : TensorOf(net, s) = TensorOf(net, r) => s = r
<1> DEFINE T == SplitTensors(net)
           n == Len(T)
<1>1. /\ n \in Nat /\ DOMAIN T = 1..n /\ SplitStart \in Nat
      /\ \A i \in 1..n : T[i] \in SplitSet(net)
      /\ \A i, j \in 1..n : T[i] = T[j] => i = j
      /\ \A t \in SplitSet(net) : \E i \in 1..n : T[i] = t
  BY SplitTensorsAre, NetworkAssumption DEF IsInjective, ToSet
<1> HIDE DEF T, n
<1>2. SplitIDs(net) = {SplitStart + i - 1 : i \in 1..n}
  BY <1>1 DEF SplitIDs, T
<1>3. \A s \in SplitIDs(net) :
         /\ s \in Nat /\ s >= SplitStart /\ s <= SplitStart + n
         /\ s - SplitStart + 1 \in 1..n /\ s = SplitStart + (s - SplitStart + 1) - 1
  BY <1>1, <1>2
<1>4. \A i \in 1..n : SplitStart + i - 1 \in SplitIDs(net)
                       /\ (SplitStart + i - 1) - SplitStart + 1 = i
  BY <1>1, <1>2
<1>5. \A s : TensorOf(net, s) = T[s - SplitStart + 1]
  BY DEF TensorOf, T
<1>6. SplitIDs(net) \in SUBSET Nat /\ SplitStart + n \in Nat
  BY <1>1, <1>3
<1>7. IsFiniteSet(SplitIDs(net))
  BY <1>3, <1>6, FS_BoundedSetOfNaturals
<1>8. ASSUME NEW s \in SplitIDs(net)
      PROVE  s \notin DOMAIN net /\ TensorOf(net, s) \in SplitSet(net)
  <2>1. \A l \in DOMAIN net : l \in 0..(SplitStart - 1)
    BY NetworkAssumption DEF WellFormed
  <2>2. s \notin DOMAIN net
    BY <1>1, <1>3, <2>1
  <2>3. QED BY <1>1, <1>3, <1>5, <2>2
<1>9. ASSUME NEW t \in SplitSet(net)
      PROVE  \E s \in SplitIDs(net) : TensorOf(net, s) = t
  <2>1. PICK i \in 1..n : T[i] = t
    BY <1>1
  <2>2. SplitStart + i - 1 \in SplitIDs(net) /\ (SplitStart + i - 1) - SplitStart + 1 = i
    BY <1>4
  <2>3. TensorOf(net, SplitStart + i - 1) = t
    BY <1>5, <2>1, <2>2
  <2>4. QED BY <2>2, <2>3
<1>10. ASSUME NEW s \in SplitIDs(net), NEW r \in SplitIDs(net),
              TensorOf(net, s) = TensorOf(net, r)
       PROVE  s = r
  <2>1. s - SplitStart + 1 = r - SplitStart + 1
    BY <1>1, <1>3, <1>5, <1>10
  <2>2. s \in Nat /\ r \in Nat
    BY <1>3
  <2>3. QED BY <1>1, <2>1, <2>2
<1>11. QED BY <1>6, <1>7, <1>8, <1>9, <1>10

LEMMA SplitIs ==
    ASSUME NEW net \in Networks, NEW t PROVE Split(net, t) <=> t \in SplitSet(net)
BY SplitTensorsAre DEF Split, ToSet

LEMMA SplitSetIs ==
    ASSUME NEW net \in Networks, NEW t
    PROVE  t \in SplitSet(net) <=>
             /\ Wrote(net, t) # {} /\ Read(net, t) # {}
             /\ Len(Writers(net, t)) < Len(Readers(net, t))
<1>1. /\ Readers(net, t) \in Seq(Nat) /\ Writers(net, t) \in Seq(Nat)
      /\ Readers(net, t) = <<>> <=> Read(net, t) = {}
      /\ Writers(net, t) = <<>> <=> Wrote(net, t) = {}
  BY ReadersAndWriters
<1>2. Len(Writers(net, t)) < Len(Readers(net, t)) => Readers(net, t) # <<>>
  BY <1>1
<1>3. Read(net, t) # {} => t \in Tensors(net)
  BY DEF Read, Tensors
<1>4. QED BY <1>1, <1>2, <1>3 DEF SplitSet

(* Behind a split layer are the readers from the one that comes after the  *)
(* last writer on, the last one first.                                     *)
LEMMA SplitLayer ==
    ASSUME NEW net \in Networks, NEW s \in SplitIDs(net), NEW R, NEW W, NEW t,
           t = TensorOf(net, s), R = Readers(net, t), W = Writers(net, t)
    PROVE  /\ Shape(R, W) /\ Len(W) < Len(R)
           /\ SplitFront(net, s) = W[Len(W)]
           /\ SplitBehind(net, s) \in Seq(Nat)
           /\ DOMAIN SplitBehind(net, s) = 1..(Len(R) - Len(W) + 1)
           /\ \A i \in 1..(Len(R) - Len(W) + 1) :
                 SplitBehind(net, s)[i] = R[Len(R) - i + 1]
           /\ \A l : l \in ToSet(SplitBehind(net, s)) <=> \E a \in Len(W)..Len(R) : l = R[a]
<1>1. t \in SplitSet(net)
  BY SplitIDsAre
<1>2. Shape(R, W) /\ Len(W) < Len(R)
  BY <1>1, SplitSetIs, TensorShape
<1>3. PICK m \in Nat, n \in Nat : m = Len(R) /\ n = Len(W) /\ 1 <= n /\ n < m
  BY <1>2 DEF Shape
<1>4. R \in [1..m -> Nat] /\ DOMAIN R = 1..m
  BY <1>2, <1>3 DEF Shape
<1>5. Reverse(R) \in Seq(Nat) /\ Len(Reverse(R)) = m
      /\ \A i \in 1..m : Reverse(R)[i] = R[m - i + 1]
  <2>1. Reverse(R) = [i \in 1..m |-> R[m - i + 1]]
    BY <1>3 DEF Reverse
  <2>2. \A i \in 1..m : m - i + 1 \in 1..m
    BY <1>3
  <2>3. Reverse(R) \in [1..m -> Nat]
    BY <1>4, <2>1, <2>2
  <2>4. QED BY <1>3, <2>1, <2>3
<1>6. SplitBehind(net, s) = SubSeq(Reverse(R), 1, m - n + 1)
  BY <1>3 DEF SplitBehind
<1>7. SplitBehind(net, s) \in Seq(Nat) /\ Len(SplitBehind(net, s)) = m - n + 1
      /\ \A i \in 1..(m - n + 1) : SplitBehind(net, s)[i] = Reverse(R)[i]
  <2>1. m - n + 1 \in 1..m
    BY <1>3
  <2> HIDE DEF SplitBehind
  <2>2. QED BY <1>5, <1>6, <2>1
<1>8. DOMAIN SplitBehind(net, s) = 1..(m - n + 1)
      /\ \A i \in 1..(m - n + 1) : SplitBehind(net, s)[i] = R[m - i + 1]
  <2>1. \A i \in 1..(m - n + 1) : i \in 1..m
    BY <1>3
  <2>2. QED BY <1>5, <1>7, <2>1
<1>9. ASSUME NEW l
      PROVE  l \in ToSet(SplitBehind(net, s)) <=> \E a \in n..m : l = R[a]
  <2>1. \A i \in 1..(m - n + 1) : m - i + 1 \in n..m
    BY <1>3
  <2>2. \A a \in n..m : m - a + 1 \in 1..(m - n + 1) /\ m - (m - a + 1) + 1 = a
    BY <1>3
  <2>3. ASSUME l \in ToSet(SplitBehind(net, s)) PROVE \E a \in n..m : l = R[a]
    <3>1. PICK i \in 1..(m - n + 1) : l = SplitBehind(net, s)[i]
      BY <1>8, <2>3 DEF ToSet
    <3>2. l = R[m - i + 1] /\ m - i + 1 \in n..m
      BY <1>8, <2>1, <3>1
    <3>3. QED BY <3>2
  <2>4. ASSUME NEW a \in n..m, l = R[a] PROVE l \in ToSet(SplitBehind(net, s))
    <3>1. PICK i \in 1..(m - n + 1) : m - i + 1 = a
      BY <2>2
    <3>2. SplitBehind(net, s)[i] = l /\ i \in DOMAIN SplitBehind(net, s)
      BY <1>8, <2>4, <3>1
    <3>3. QED BY <3>2 DEF ToSet
  <2>5. QED BY <2>3, <2>4
<1>10. SplitFront(net, s) = W[n]
  BY <1>3 DEF SplitFront, Last
<1>11. QED BY <1>2, <1>3, <1>7, <1>8, <1>9, <1>10

-----------------------------------------------------------------------------
(* Whom a plan notifies.                                                   *)

LEMMA PlanIDsAre ==
    ASSUME NEW net \in Networks
    PROVE  /\ IsFiniteSet(PlanIDs(net)) /\ PlanIDs(net) \subseteq Nat
           /\ \A l \in DOMAIN net : Forward(l) \in PlanIDs(net) /\ Backward(l) \in PlanIDs(net)
           /\ \A s \in SplitIDs(net) :
                 Forward(s) \in PlanIDs(net) /\ Backward(s) \in PlanIDs(net)
           /\ \A l \in DOMAIN net : Learns(net, l) => Update(l) \in PlanIDs(net)
<1> DEFINE layers == DOMAIN net \cup SplitIDs(net)
           forwards == {Forward(l) : l \in layers}
           backwards == {Backward(l) : l \in layers}
           updates == {Update(l) : l \in {m \in DOMAIN net : Learns(net, m)}}
<1>1. IsFiniteSet(layers) /\ layers \subseteq Nat
  BY LayersFinite, SplitIDsAre, FS_Union
<1>2. IsFiniteSet({m \in DOMAIN net : Learns(net, m)})
  BY LayersFinite
<1>3. IsFiniteSet(forwards)
  <2>1. [l \in layers |-> Forward(l)] \in Surjection(layers, forwards)
    BY DEF Surjection
  <2>2. QED BY <1>1, <2>1, FS_Surjection
<1>4. IsFiniteSet(backwards)
  <2>1. [l \in layers |-> Backward(l)] \in Surjection(layers, backwards)
    BY DEF Surjection
  <2>2. QED BY <1>1, <2>1, FS_Surjection
<1>5. IsFiniteSet(updates)
  <2> DEFINE L == {m \in DOMAIN net : Learns(net, m)}
  <2>1. [l \in L |-> Update(l)] \in Surjection(L, updates)
    BY DEF Surjection
  <2>2. QED BY <1>2, <2>1, FS_Surjection
<1>6. PlanIDs(net) = forwards \cup backwards \cup updates
  BY DEF PlanIDs
<1>7. IsFiniteSet(PlanIDs(net))
  <2> HIDE DEF forwards, backwards, updates
  <2>1. IsFiniteSet(forwards \cup backwards)
    BY <1>3, <1>4, FS_Union
  <2>2. QED BY <1>5, <1>6, <2>1, FS_Union
<1>8. \A l \in Nat : Forward(l) \in Nat /\ Backward(l) \in Nat /\ Update(l) \in Nat
  BY DEF Forward, Backward, Update
<1>9. DOMAIN net \subseteq Nat
  BY LayersFinite
<1>10. PlanIDs(net) \subseteq Nat
  BY <1>1, <1>6, <1>8, <1>9
<1>11. QED BY <1>6, <1>7, <1>10

LEMMA PositionIs ==
    ASSUME NEW s, NEW i \in DOMAIN s, \A j, k \in DOMAIN s : s[j] = s[k] => j = k
    PROVE  Position(s, s[i]) = i
BY DEF Position

(* Where the layers that read a tensor, and write it, are in their lists.  *)
LEMMA ReaderPlace ==
    ASSUME NEW net \in Networks, NEW t, NEW l \in Read(net, t)
    PROVE  /\ \A i, j \in 1..Len(Readers(net, t)) :
                 Readers(net, t)[i] = Readers(net, t)[j] => i = j
           /\ \E a \in 1..Len(Readers(net, t)) :
                l = Readers(net, t)[a] /\ Position(Readers(net, t), l) = a
<1> DEFINE R == Readers(net, t)
<1>1. /\ R \in Seq(Nat) /\ l \in ToSet(R)
      /\ \A i, j \in 1..Len(R) : i < j => R[i] < R[j]
  BY ReadersAndWriters
<1> HIDE DEF R
<1>2. Len(R) \in Nat /\ DOMAIN R = 1..Len(R) /\ \A i \in 1..Len(R) : R[i] \in Nat
  BY <1>1
<1>3. ASSUME NEW i \in 1..Len(R), NEW j \in 1..Len(R), R[i] = R[j] PROVE i = j
  <2>1. ~(R[i] < R[j]) /\ ~(R[j] < R[i])
    BY <1>2, <1>3
  <2>2. ~(i < j) /\ ~(j < i)
    BY <1>1, <2>1
  <2>3. QED BY <2>2
<1>4. PICK a \in DOMAIN R : l = R[a]
  BY <1>1 DEF ToSet
<1>5. Position(R, l) = a
  BY <1>2, <1>3, <1>4, PositionIs
<1>6. QED BY <1>2, <1>3, <1>4, <1>5 DEF R

LEMMA ReaderAt ==
    ASSUME NEW net \in Networks, NEW t, NEW a \in 1..Len(Readers(net, t))
    PROVE  /\ Readers(net, t)[a] \in Read(net, t)
           /\ Position(Readers(net, t), Readers(net, t)[a]) = a
           /\ \A i, j \in 1..Len(Readers(net, t)) :
                 Readers(net, t)[i] = Readers(net, t)[j] => i = j
<1> DEFINE R == Readers(net, t)
<1>1. R \in Seq(Nat) /\ ToSet(R) = Read(net, t)
  BY ReadersAndWriters
<1>2. a \in DOMAIN R
  <2> HIDE DEF R
  <2>1. DOMAIN R = 1..Len(R)
    BY <1>1
  <2>2. QED BY <2>1 DEF R
<1>3. R[a] \in Read(net, t)
  BY <1>1, <1>2 DEF ToSet
<1>4. \A i, j \in 1..Len(R) : R[i] = R[j] => i = j
  BY <1>3, ReaderPlace
<1>5. \E b \in 1..Len(R) : R[a] = R[b] /\ Position(R, R[a]) = b
  BY <1>3, ReaderPlace
<1>6. a \in 1..Len(R)
  OBVIOUS
<1> HIDE DEF R
<1>7. Position(R, R[a]) = a
  BY <1>4, <1>5, <1>6
<1>8. QED BY <1>3, <1>4, <1>7 DEF R

LEMMA WriterPlace ==
    ASSUME NEW net \in Networks, NEW t, NEW l \in Wrote(net, t)
    PROVE  \E j \in 1..Len(Writers(net, t)) : l = Writers(net, t)[j]
<1>1. l \in ToSet(Writers(net, t)) /\ Writers(net, t) \in Seq(Nat)
  BY ReadersAndWriters
<1>2. QED BY <1>1 DEF ToSet

LEMMA LastOne ==
    ASSUME NEW s \in Seq(Nat)
    PROVE  \A x : x \in ToSet(Front(s)) <=> \E i \in 1..(Len(s) - 1) : x = s[i]
<1>1. Len(s) \in Nat /\ \A i \in 1..(Len(s) - 1) : i \in 1..Len(s) /\ s[i] \in Nat
  OBVIOUS
<1>2. /\ SubSeq(s, 1, Len(s) - 1) \in Seq(Nat)
      /\ Len(SubSeq(s, 1, Len(s) - 1)) = IF 1 <= Len(s) - 1 THEN Len(s) - 1 - 1 + 1 ELSE 0
      /\ \A i \in 1..(Len(s) - 1 - 1 + 1) : SubSeq(s, 1, Len(s) - 1)[i] = s[1 + i - 1]
  BY <1>1, SubSeqProperties
<1>3. \A i \in 1..(Len(s) - 1) : i \in 1..(Len(s) - 1 - 1 + 1) /\ 1 + i - 1 = i
  BY <1>1
<1>4. /\ DOMAIN Front(s) = 1..(Len(s) - 1)
      /\ \A i \in 1..(Len(s) - 1) : Front(s)[i] = s[i]
  <2>1. Front(s) = SubSeq(s, 1, Len(s) - 1)
    BY DEF Front
  <2>2. DOMAIN SubSeq(s, 1, Len(s) - 1) = 1..(Len(s) - 1)
    BY <1>1, <1>2
  <2>3. QED BY <1>2, <1>3, <2>1, <2>2
<1>5. QED BY <1>4 DEF ToSet

LEMMA SplitBehindPlaces ==
    ASSUME NEW net \in Networks, NEW s \in SplitIDs(net)
    PROVE  /\ SplitBehind(net, s) \in Seq(DOMAIN net) /\ 1 \in DOMAIN SplitBehind(net, s)
           /\ \A i \in DOMAIN SplitBehind(net, s) :
                 /\ i \in Nat \ {0}
                 /\ Position(SplitBehind(net, s), SplitBehind(net, s)[i]) = i
                 /\ SplitBehind(net, s)[i] \in Read(net, TensorOf(net, s))
<1> DEFINE B == SplitBehind(net, s)
<1>0. PICK t, R, W : t = TensorOf(net, s) /\ R = Readers(net, t) /\ W = Writers(net, t)
  OBVIOUS
<1>1. /\ Shape(R, W) /\ Len(W) < Len(R) /\ B \in Seq(Nat)
      /\ DOMAIN B = 1..(Len(R) - Len(W) + 1)
      /\ \A i \in 1..(Len(R) - Len(W) + 1) : B[i] = R[Len(R) - i + 1]
  BY <1>0, SplitLayer
<1>2. PICK m \in Nat, n \in Nat : m = Len(R) /\ n = Len(W) /\ 1 <= n /\ n < m
  BY <1>1 DEF Shape
<1>3. \A a \in 1..m : R[a] \in Read(net, t) /\ \A i, j \in 1..m : R[i] = R[j] => i = j
  BY <1>0, <1>2, ReaderAt
<1> HIDE DEF B
<1>4. \A i \in DOMAIN B : i \in Nat \ {0} /\ m - i + 1 \in 1..m /\ B[i] = R[m - i + 1]
  BY <1>1, <1>2
<1>5. \A i, j \in DOMAIN B : B[i] = B[j] => i = j
  <2>1. SUFFICES ASSUME NEW i \in DOMAIN B, NEW j \in DOMAIN B, B[i] = B[j] PROVE i = j
    OBVIOUS
  <2>2. m - i + 1 = m - j + 1
    BY <1>3, <1>4, <2>1
  <2>3. QED BY <1>4, <2>2
<1>6. \A i \in DOMAIN B : Position(B, B[i]) = i /\ B[i] \in Read(net, t)
  BY <1>3, <1>4, <1>5, PositionIs
<1>7. 1 \in DOMAIN B
  BY <1>1, <1>2
<1>8. B \in Seq(DOMAIN net)
  <2>1. Read(net, t) \subseteq DOMAIN net
    BY DEF Read
  <2>2. \A i \in DOMAIN B : B[i] \in DOMAIN net
    BY <1>6, <2>1
  <2>3. DOMAIN B = 1..Len(B) /\ Len(B) \in Nat /\ B = [i \in 1..Len(B) |-> B[i]]
    BY <1>1
  <2>4. QED BY <2>2, <2>3
<1>9. QED BY <1>0, <1>4, <1>6, <1>7, <1>8 DEF B

LEMMA PlanNumbers ==
    ASSUME NEW l \in Nat
    PROVE  /\ Forward(l) % 3 = 0 /\ Forward(l) \div 3 = l
           /\ Backward(l) % 3 = 1 /\ Backward(l) \div 3 = l
           /\ Update(l) % 3 = 2 /\ Update(l) \div 3 = l
BY DEF Forward, Backward, Update

(* The order of the plans: forward along the flow of the data, where a     *)
(* split layer is right behind its first layer; then backward against it;  *)
(* then the updates.                                                       *)
Level(net, l) == IF l \in DOMAIN net THEN 2 * l ELSE 2 * SplitFront(net, l) + 1

Rank(net, p) ==
    CASE p % 3 = 0 -> Level(net, p \div 3)
      [] p % 3 = 1 -> 4 * SplitStart - Level(net, p \div 3)
      [] OTHER     -> 4 * SplitStart + 1

Later(net, p) == {q \in PlanIDs(net) : Rank(net, p) < Rank(net, q)}

LEMMA SplitLevel ==
    ASSUME NEW net \in Networks, NEW s \in SplitIDs(net)
    PROVE  /\ SplitFront(net, s) \in DOMAIN net
           /\ \A l \in ToSet(SplitBehind(net, s)) : l \in DOMAIN net /\ SplitFront(net, s) < l
<1>1. PICK t, R, W : t = TensorOf(net, s) /\ R = Readers(net, t) /\ W = Writers(net, t)
  OBVIOUS
<1>2. /\ Shape(R, W) /\ SplitFront(net, s) = W[Len(W)]
      /\ \A i : i \in ToSet(SplitBehind(net, s)) <=> \E a \in Len(W)..Len(R) : i = R[a]
  BY <1>1, SplitLayer
<1>3. /\ Len(W) \in 1..Len(W) /\ Len(W)..Len(R) \subseteq 1..Len(R)
      /\ \A a \in Len(W)..Len(R) : Len(W) <= a
  BY <1>2 DEF Shape
<1>4. W[Len(W)] \in Wrote(net, t)
  <2>1. W \in Seq(Wrote(net, t))
    BY <1>1, ReadersAndWriters
  <2>2. QED BY <1>3, <2>1
<1>5. ASSUME NEW l \in ToSet(SplitBehind(net, s))
      PROVE  l \in DOMAIN net /\ SplitFront(net, s) < l
  <2>1. PICK a \in Len(W)..Len(R) : l = R[a]
    BY <1>2
  <2>2. l \in Read(net, t)
    BY <1>1, <1>3, <2>1, ReaderAt
  <2>3. W[Len(W)] < R[a]
    <3>1. a \in 1..Len(R) /\ Len(W) <= a
      BY <1>3
    <3>2. QED BY <1>2, <1>3, <3>1, ShapeOrder
  <2>4. QED BY <1>2, <2>1, <2>2, <2>3 DEF Read
<1>6. QED BY <1>2, <1>4, <1>5 DEF Wrote

LEMMA LevelIs ==
    ASSUME NEW net \in Networks
    PROVE  /\ \A l \in DOMAIN net : Level(net, l) \in 0..(2 * SplitStart - 1)
           /\ \A k, l \in DOMAIN net : k < l => Level(net, k) < Level(net, l)
           /\ \A s \in SplitIDs(net) :
                 /\ Level(net, s) \in 0..(2 * SplitStart - 1)
                 /\ Level(net, SplitFront(net, s)) < Level(net, s)
                 /\ \A l \in ToSet(SplitBehind(net, s)) : Level(net, s) < Level(net, l)
<1>1. SplitStart \in Nat /\ \A l \in DOMAIN net : l \in 0..(SplitStart - 1)
  BY NetworkAssumption DEF WellFormed
<1>2. \A l \in DOMAIN net : Level(net, l) = 2 * l
  BY DEF Level
<1>3. \A l \in DOMAIN net : Level(net, l) \in 0..(2 * SplitStart - 1)
  BY <1>1, <1>2
<1>4. \A k, l \in DOMAIN net : k < l => Level(net, k) < Level(net, l)
  BY <1>1, <1>2
<1>5. ASSUME NEW s \in SplitIDs(net)
      PROVE  /\ Level(net, s) \in 0..(2 * SplitStart - 1)
             /\ Level(net, SplitFront(net, s)) < Level(net, s)
             /\ \A l \in ToSet(SplitBehind(net, s)) : Level(net, s) < Level(net, l)
  <2>1. PICK f \in DOMAIN net : f = SplitFront(net, s)
    BY SplitLevel
  <2>2. Level(net, s) = 2 * f + 1 /\ Level(net, f) = 2 * f
    BY <1>2, <2>1, SplitIDsAre DEF Level
  <2>3. ASSUME NEW l \in ToSet(SplitBehind(net, s)) PROVE Level(net, s) < Level(net, l)
    <3>1. l \in DOMAIN net /\ f < l
      BY <2>1, SplitLevel
    <3>2. Level(net, l) = 2 * l
      BY <1>2, <3>1
    <3>3. QED BY <1>1, <2>2, <3>1, <3>2
  <2>4. QED BY <1>1, <2>1, <2>2, <2>3
<1>6. QED BY <1>3, <1>4, <1>5

LEMMA RankIs ==
    ASSUME NEW net \in Networks, NEW l \in Nat,
           Level(net, l) \in 0..(2 * SplitStart - 1)
    PROVE  /\ Rank(net, Forward(l)) = Level(net, l)
           /\ Rank(net, Backward(l)) = 4 * SplitStart - Level(net, l)
           /\ Rank(net, Update(l)) = 4 * SplitStart + 1
           /\ Rank(net, Forward(l)) \in Nat /\ Rank(net, Backward(l)) \in Nat
           /\ Rank(net, Forward(l)) < Rank(net, Backward(l))
           /\ Rank(net, Backward(l)) < Rank(net, Update(l))
<1>1. /\ Forward(l) % 3 = 0 /\ Forward(l) \div 3 = l
      /\ Backward(l) % 3 = 1 /\ Backward(l) \div 3 = l
      /\ Update(l) % 3 = 2 /\ Update(l) \div 3 = l
  BY PlanNumbers
<1>2. Rank(net, Forward(l)) = Level(net, l)
  BY <1>1 DEF Rank
<1>3. Rank(net, Backward(l)) = 4 * SplitStart - Level(net, l)
  BY <1>1 DEF Rank
<1>4. Rank(net, Update(l)) = 4 * SplitStart + 1
  BY <1>1 DEF Rank
<1>5. SplitStart \in Nat
  BY NetworkAssumption
<1>6. QED BY <1>2, <1>3, <1>4, <1>5

(* The rank of any plan is a number.                                       *)
LEMMA RankType ==
    ASSUME NEW net \in Networks, NEW p \in PlanIDs(net)
    PROVE  Rank(net, p) \in Nat
<1>1. \A l \in DOMAIN net \cup SplitIDs(net) :
          l \in Nat /\ Level(net, l) \in 0..(2 * SplitStart - 1)
  BY LayersFinite, SplitIDsAre, LevelIs
<1>2. ASSUME NEW l \in DOMAIN net \cup SplitIDs(net)
      PROVE  /\ Rank(net, Forward(l)) \in Nat /\ Rank(net, Backward(l)) \in Nat
             /\ Rank(net, Update(l)) = 4 * SplitStart + 1
  BY <1>1, RankIs
<1>3. 4 * SplitStart + 1 \in Nat
  BY NetworkAssumption
<1>4. QED BY <1>2, <1>3 DEF PlanIDs

LEMMA LaterPlans ==
    ASSUME NEW net \in Networks
    PROVE  /\ \A l \in DOMAIN net :
                 /\ Backward(l) \in Later(net, Forward(l))
                 /\ Learns(net, l) => Update(l) \in Later(net, Backward(l))
           /\ \A k, l \in DOMAIN net : k < l =>
                 /\ Forward(l) \in Later(net, Forward(k))
                 /\ Backward(k) \in Later(net, Backward(l))
           /\ \A s \in SplitIDs(net) :
                 /\ Forward(s) \in Later(net, Forward(SplitFront(net, s)))
                 /\ Backward(SplitFront(net, s)) \in Later(net, Backward(s))
                 /\ \A l \in ToSet(SplitBehind(net, s)) :
                       /\ Forward(l) \in Later(net, Forward(s))
                       /\ Backward(s) \in Later(net, Backward(l))
<1>1. \A l \in DOMAIN net : l \in Nat /\ Level(net, l) \in 0..(2 * SplitStart - 1)
  BY LayersFinite, LevelIs
<1>2. \A s \in SplitIDs(net) : s \in Nat /\ Level(net, s) \in 0..(2 * SplitStart - 1)
  BY SplitIDsAre, LevelIs
<1>3. SplitStart \in Nat
  BY NetworkAssumption
<1>4. ASSUME NEW l \in DOMAIN net
      PROVE  /\ Backward(l) \in Later(net, Forward(l))
             /\ Learns(net, l) => Update(l) \in Later(net, Backward(l))
  BY <1>1, RankIs, PlanIDsAre DEF Later
<1>5. ASSUME NEW k \in DOMAIN net \cup SplitIDs(net), NEW l \in DOMAIN net \cup SplitIDs(net),
             Level(net, k) < Level(net, l)
      PROVE  /\ Forward(l) \in Later(net, Forward(k))
             /\ Backward(k) \in Later(net, Backward(l))
  <2>1. /\ k \in Nat /\ Level(net, k) \in 0..(2 * SplitStart - 1)
        /\ l \in Nat /\ Level(net, l) \in 0..(2 * SplitStart - 1)
    BY <1>1, <1>2
  <2>2. /\ Rank(net, Forward(k)) = Level(net, k) /\ Rank(net, Forward(l)) = Level(net, l)
        /\ Rank(net, Backward(k)) = 4 * SplitStart - Level(net, k)
        /\ Rank(net, Backward(l)) = 4 * SplitStart - Level(net, l)
    BY <2>1, RankIs
  <2>3. Rank(net, Backward(l)) < Rank(net, Backward(k))
    BY <1>3, <1>5, <2>1, <2>2
  <2>4. Forward(l) \in PlanIDs(net) /\ Backward(k) \in PlanIDs(net)
    BY PlanIDsAre
  <2>5. QED BY <1>5, <2>2, <2>3, <2>4 DEF Later
<1>6. \A s \in SplitIDs(net) :
          /\ SplitFront(net, s) \in DOMAIN net
          /\ \A l \in ToSet(SplitBehind(net, s)) : l \in DOMAIN net
  BY SplitLevel
<1>7. QED BY <1>4, <1>5, <1>6, LevelIs

(* The j-th layer that writes a tensor notifies the j-th that reads it,    *)
(* but for the last one before a split layer.                              *)
LEMMA ForwardToIs ==
    ASSUME NEW net \in Networks, NEW t, NEW j \in 1..Len(Writers(net, t)),
           NEW l, l = Writers(net, t)[j], Read(net, t) # {}
    PROVE  ForwardTo(net, l, t) = IF t \in SplitSet(net) /\ j = Len(Writers(net, t))
                                  THEN <<>> ELSE <<Forward(Readers(net, t)[j])>>
<1> DEFINE R == Readers(net, t)
           W == Writers(net, t)
<1>1. Shape(R, W) /\ R # <<>>
  <2>1. W \in Seq(Wrote(net, t)) /\ l = W[j]
    BY ReadersAndWriters
  <2>2. l \in Wrote(net, t)
    BY <2>1
  <2>3. QED BY <2>2, TensorShape, ReadersAndWriters
<1> HIDE DEF R, W
<1>2. /\ j \in 1..Len(W) /\ l = W[j] /\ Len(W) <= Len(R) /\ 1 <= Len(W)
      /\ Len(W) \in Nat /\ Len(R) \in Nat
  BY <1>1 DEF W, Shape
<1>3. l = Last(W) <=> j = Len(W)
  <2>1. Len(W) \in 1..Len(W) /\ (W[j] = W[Len(W)] => j = Len(W))
    BY <1>1, <1>2, ShapeOrder
  <2>2. QED BY <1>2, <2>1 DEF Last
<1>4. Split(net, t) <=> t \in SplitSet(net)
  BY SplitIs
<1>5. (IF l \in ToSet(Front(R)) THEN Position(R, l) ELSE 0) + 1 = j
  <2>1. R \in Seq(Nat)
    BY <1>1 DEF Shape
  <2>2. CASE j = 1
    <3>1. \A i \in 1..(Len(R) - 1) : i \in 1..Len(R) /\ i + 1 # 1
      BY <1>2
    <3>2. \A i \in 1..(Len(R) - 1) : W[j] # R[i]
      BY <1>1, <1>2, <2>2, <3>1, ShapeOrder
    <3>3. l \notin ToSet(Front(R))
      BY <1>2, <2>1, <3>2, LastOne
    <3>4. QED BY <2>2, <3>3
  <2>3. CASE j # 1
    <3>1. j - 1 \in 1..(Len(R) - 1) /\ j - 1 \in 1..Len(R) /\ j - 1 + 1 = j
      BY <1>2, <2>3
    <3>2. l = R[j - 1]
      BY <1>1, <1>2, <3>1, ShapeOrder
    <3>3. l \in ToSet(Front(R))
      BY <2>1, <3>1, <3>2, LastOne
    <3>4. l \in Read(net, t)
      <4>1. l \in ToSet(R)
        BY <2>1, <3>1, <3>2 DEF ToSet
      <4>2. ToSet(R) = Read(net, t)
        BY ReadersAndWriters DEF R
      <4>3. QED BY <4>1, <4>2
    <3>5. Position(R, l) = j - 1
      BY <3>1, <3>2, <3>4, ReaderPlace DEF R
    <3>6. QED BY <3>1, <3>3, <3>5
  <2>4. QED BY <2>2, <2>3
<1>6. CASE t \in SplitSet(net) /\ j = Len(W)
  BY <1>1, <1>3, <1>4, <1>6 DEF ForwardTo, R, W
<1>7. CASE ~(t \in SplitSet(net) /\ j = Len(W))
  <2>1. ForwardTo(net, l, t) =
            <<Forward(R[(IF l \in ToSet(Front(R)) THEN Position(R, l) ELSE 0) + 1])>>
    BY <1>1, <1>3, <1>4, <1>7 DEF ForwardTo, R, W
  <2>2. ForwardTo(net, l, t) = <<Forward(R[j])>>
    BY <1>5, <2>1
  <2>3. QED BY <1>7, <2>2 DEF R, W
<1>8. QED BY <1>6, <1>7 DEF R, W

LEMMA ForwardToType ==
    ASSUME NEW net \in Networks, NEW l \in DOMAIN net, NEW t, l \in Wrote(net, t)
    PROVE  ForwardTo(net, l, t) \in Seq(Later(net, Forward(l)))
<1>1. CASE Read(net, t) = {}
  <2>1. ForwardTo(net, l, t) = <<Backward(l)>>
    BY <1>1, ReadersAndWriters DEF ForwardTo
  <2>2. QED BY <2>1, LaterPlans
<1>2. CASE Read(net, t) # {}
  <2>1. PICK R, W : R = Readers(net, t) /\ W = Writers(net, t)
    OBVIOUS
  <2>2. PICK j \in 1..Len(W) : l = W[j]
    BY <2>1, WriterPlace
  <2>3. Shape(R, W)
    BY <1>2, <2>1, TensorShape
  <2>4. j \in 1..Len(R) /\ j <= j
    BY <2>3 DEF Shape
  <2>5. l < R[j]
    BY <2>2, <2>3, <2>4, ShapeOrder
  <2>6. R[j] \in DOMAIN net
    BY <2>1, <2>4, ReaderAt DEF Read
  <2>7. Forward(R[j]) \in Later(net, Forward(l))
    BY <2>5, <2>6, LaterPlans
  <2>8. /\ <<Forward(R[j])>> \in Seq(Later(net, Forward(l)))
        /\ <<>> \in Seq(Later(net, Forward(l)))
    BY <2>7
  <2>9. QED BY <1>2, <2>1, <2>2, <2>8, ForwardToIs
<1>3. QED BY <1>1, <1>2

LEMMA ForwardNotifies ==
    ASSUME NEW net \in Networks, NEW l \in DOMAIN net
    PROVE  /\ ForwardNotify(net, l) \in Seq(Later(net, Forward(l)))
           /\ \A t \in ToSet(net[l].outputs) :
                 ToSet(ForwardTo(net, l, t)) \subseteq ToSet(ForwardNotify(net, l))
           /\ \A s \in SplitIDs(net) :
                 SplitFront(net, s) = l => Forward(s) \in ToSet(ForwardNotify(net, l))
<1> DEFINE outputs == net[l].outputs
           ss == [i \in DOMAIN outputs |-> ForwardTo(net, l, outputs[i])]
           after == SplitsAfter(net, l)
           forwards == [i \in DOMAIN after |-> Forward(after[i])]
<1>1. outputs \in Seq(Tensors(net))
  BY NetworkAssumption DEF WellFormed
<1>2. \A i \in DOMAIN outputs : ForwardTo(net, l, outputs[i]) \in Seq(Later(net, Forward(l)))
  <2>1. \A i \in DOMAIN outputs : l \in Wrote(net, outputs[i])
    BY DEF Wrote, ToSet
  <2>2. QED BY <2>1, ForwardToType
<1>3. ss \in Seq(Seq(Later(net, Forward(l)))) /\ DOMAIN ss = DOMAIN outputs
  <2>1. DOMAIN outputs = 1..Len(outputs) /\ Len(outputs) \in Nat
    BY <1>1
  <2> HIDE DEF outputs
  <2>2. ss \in [1..Len(outputs) -> Seq(Later(net, Forward(l)))]
    BY <1>2, <2>1
  <2>3. QED BY <2>1, <2>2
<1>4. /\ after \in Seq(SplitIDs(net))
      /\ ToSet(after) = {s \in SplitIDs(net) : SplitFront(net, s) = l}
  <2> DEFINE S == {s \in SplitIDs(net) : SplitFront(net, s) = l}
  <2>1. S \in SUBSET SplitIDs(net) /\ S \subseteq Nat
    BY SplitIDsAre
  <2>2. IsFiniteSet(S)
    BY <2>1, SplitIDsAre, FS_Subset
  <2>3. InOrder(S) \in Seq(S) /\ ToSet(InOrder(S)) = S
    BY <2>1, <2>2, InOrderProperties
  <2>4. after = InOrder(S)
    BY DEF SplitsAfter
  <2> HIDE DEF S
  <2>5. after \in Seq(SplitIDs(net)) /\ ToSet(after) = S
    BY <2>1, <2>3, <2>4, LargerSeq
  <2>6. QED BY <2>5 DEF S
<1> HIDE DEF ss, after
<1>5. /\ forwards \in Seq(Later(net, Forward(l))) /\ DOMAIN forwards = DOMAIN after
      /\ \A i \in DOMAIN after : forwards[i] = Forward(after[i])
  <2>1. DOMAIN after = 1..Len(after) /\ Len(after) \in Nat
        /\ \A i \in 1..Len(after) : Forward(after[i]) \in Later(net, Forward(l))
    <3>1. ASSUME NEW s \in ToSet(after) PROVE Forward(s) \in Later(net, Forward(l))
      BY <1>4, LaterPlans
    <3>2. QED BY <1>4, <3>1 DEF ToSet
  <2>2. forwards \in [1..Len(after) -> Later(net, Forward(l))]
    BY <2>1
  <2>3. QED BY <2>1, <2>2
<1> HIDE DEF forwards
<1>6. ForwardNotify(net, l) = FlattenSeq(ss) \o forwards
  BY DEF ForwardNotify, ss, after, forwards
<1>7. /\ FlattenSeq(ss) \in Seq(Later(net, Forward(l)))
      /\ \A i \in DOMAIN ss : ToSet(ss[i]) \subseteq ToSet(FlattenSeq(ss))
  BY <1>3, FlattenElements
<1>8. /\ ForwardNotify(net, l) \in Seq(Later(net, Forward(l)))
      /\ ToSet(FlattenSeq(ss)) \subseteq ToSet(ForwardNotify(net, l))
      /\ ToSet(forwards) \subseteq ToSet(ForwardNotify(net, l))
  BY <1>5, <1>6, <1>7, JoinedElements
<1>9. ASSUME NEW t \in ToSet(net[l].outputs)
      PROVE  ToSet(ForwardTo(net, l, t)) \subseteq ToSet(ForwardNotify(net, l))
  <2>1. PICK i \in DOMAIN outputs : t = outputs[i]
    BY DEF ToSet
  <2>2. ss[i] = ForwardTo(net, l, t)
    BY <2>1 DEF ss
  <2>3. QED BY <1>3, <1>7, <1>8, <2>2
<1>10. ASSUME NEW s \in SplitIDs(net), SplitFront(net, s) = l
       PROVE  Forward(s) \in ToSet(ForwardNotify(net, l))
  <2>1. s \in ToSet(after)
    BY <1>4, <1>10
  <2>2. Forward(s) \in ToSet(forwards)
    BY <1>5, <2>1 DEF ToSet
  <2>3. QED BY <1>8, <2>2
<1>11. QED BY <1>8, <1>9, <1>10

(* The a-th layer that reads a tensor notifies the one before it.          *)
LEMMA BackwardToIs ==
    ASSUME NEW net \in Networks, NEW l \in DOMAIN net, NEW i \in DOMAIN net[l].inputs,
           NEW t, t = net[l].inputs[i], NEW a \in 1..Len(Readers(net, t)),
           l = Readers(net, t)[a]
    PROVE  /\ BackwardTo(net, l, i) \in Seq(Later(net, Backward(l)))
           /\ PropDown(net, l, i) =>
                /\ net[l].learnable => Update(l) \in ToSet(BackwardTo(net, l, i))
                /\ Wrote(net, t) # {} =>
                     IF a = 1 THEN Backward(Writers(net, t)[1]) \in ToSet(BackwardTo(net, l, i))
                     ELSE Backward(Readers(net, t)[a - 1]) \in ToSet(BackwardTo(net, l, i))
<1> DEFINE R == Readers(net, t)
           W == Writers(net, t)
           updates == IF net[l].learnable THEN <<Update(l)>> ELSE <<>>
           before == CASE W = <<>> -> <<>>
                       [] W # <<>> /\ l # Head(R) -> <<Backward(R[Position(R, l) - 1])>>
                       [] OTHER -> <<Backward(Head(W))>>
<1>1. l \in Nat /\ l \in Read(net, t)
  BY LayersFinite DEF Read, ToSet
<1>2. /\ R \in Seq(DOMAIN net) /\ W \in Seq(DOMAIN net) /\ (W = <<>> <=> Wrote(net, t) = {})
      /\ DOMAIN R = 1..Len(R) /\ Len(R) \in Nat
  <2>1. /\ R \in Seq(Read(net, t)) /\ W \in Seq(Wrote(net, t))
        /\ W = <<>> <=> Wrote(net, t) = {}
    BY ReadersAndWriters
  <2>2. Read(net, t) \subseteq DOMAIN net /\ Wrote(net, t) \subseteq DOMAIN net
    BY DEF Read, Wrote
  <2> HIDE DEF R, W
  <2>3. R \in Seq(DOMAIN net) /\ W \in Seq(DOMAIN net)
    BY <2>1, <2>2, LargerSeq
  <2>4. DOMAIN R = 1..Len(R) /\ Len(R) \in Nat
    BY <2>3
  <2>5. QED BY <2>1, <2>3, <2>4
<1>3. Position(R, l) = a /\ (Head(R) = l <=> a = 1)
  <2>1. Position(R, l) = a /\ \A j, k \in 1..Len(R) : R[j] = R[k] => j = k
    BY ReaderAt
  <2>2. Head(R) = R[1] /\ 1 \in 1..Len(R)
    <3>1. a \in 1..Len(R)
      OBVIOUS
    <3> HIDE DEF R
    <3>2. QED BY <1>2, <3>1
  <2>3. QED BY <2>1, <2>2
<1>4. BackwardTo(net, l, i) = IF ~PropDown(net, l, i) THEN <<>> ELSE updates \o before
  BY DEF BackwardTo
<1>5. ASSUME PropDown(net, l, i)
      PROVE  /\ updates \in Seq(Later(net, Backward(l)))
             /\ net[l].learnable => Update(l) \in ToSet(updates)
  <2>1. net[l].learnable => Update(l) \in Later(net, Backward(l))
    BY <1>5, LaterPlans DEF Learns
  <2>2. Update(l) \in ToSet(<<Update(l)>>) /\ <<>> \in Seq(Later(net, Backward(l)))
    BY DEF ToSet
  <2>3. \A x \in Later(net, Backward(l)) : <<x>> \in Seq(Later(net, Backward(l)))
    OBVIOUS
  <2>4. CASE net[l].learnable
    <3>1. updates = <<Update(l)>>
      BY <2>4
    <3>2. Update(l) \in Later(net, Backward(l))
      BY <2>1, <2>4
    <3> HIDE DEF updates
    <3>3. updates \in Seq(Later(net, Backward(l)))
      BY <2>3, <3>1, <3>2
    <3>4. QED BY <2>2, <3>1, <3>3
  <2>5. CASE ~net[l].learnable
    <3>1. updates = <<>>
      BY <2>5
    <3>2. QED BY <2>2, <2>5, <3>1
  <2>6. QED BY <2>4, <2>5
<1>6. \A x \in DOMAIN net : x < l =>
          <<Backward(x)>> \in Seq(Later(net, Backward(l))) /\ Backward(x) \in ToSet(<<Backward(x)>>)
  <2>1. \A x \in DOMAIN net : x < l => Backward(x) \in Later(net, Backward(l))
    BY LaterPlans
  <2>2. \A y \in Later(net, Backward(l)) : <<y>> \in Seq(Later(net, Backward(l))) /\ y \in ToSet(<<y>>)
    BY DEF ToSet
  <2>3. QED BY <2>1, <2>2
<1>7. /\ before \in Seq(Later(net, Backward(l)))
      /\ W # <<>> => IF a = 1 THEN Backward(W[1]) \in ToSet(before)
                     ELSE Backward(R[a - 1]) \in ToSet(before)
  <2> HIDE DEF R, W
  <2>1. CASE W = <<>>
    <3>1. before = <<>>
      BY <2>1
    <3>2. QED BY <2>1, <3>1
  <2>2. CASE W # <<>> /\ a # 1
    <3>1. before = <<Backward(R[a - 1])>>
      BY <1>3, <2>2
    <3>2. a \in 1..Len(R)
      BY DEF R
    <3>3. a - 1 \in 1..Len(R)
      BY <1>2, <2>2, <3>2
    <3>4. R[a - 1] \in DOMAIN net /\ R[a - 1] < l
      <4>1. R[a - 1] < R[a]
        <5>1. a - 1 < a
          BY <1>2, <3>2
        <5>2. QED BY <3>2, <3>3, <5>1, ReadersAndWriters DEF R
      <4>2. QED BY <1>2, <3>3, <4>1 DEF R
    <3>5. QED BY <1>6, <2>2, <3>1, <3>4
  <2>3. CASE W # <<>> /\ a = 1
    <3>1. before = <<Backward(Head(W))>>
      BY <1>3, <2>3
    <3>2. Head(W) = W[1] /\ W[1] \in DOMAIN net /\ 1 \in 1..Len(W)
      BY <1>2, <2>3
    <3>3. Shape(R, W)
      BY <1>1, <1>2, <2>3, TensorShape DEF R, W
    <3>4. W[1] < l
      <4>1. 1 \in 1..Len(R) /\ 1 <= 1 /\ l = R[1]
        <5>1. a \in 1..Len(R) /\ l = R[a]
          BY DEF R
        <5>2. a = 1
          BY <2>3
        <5>3. QED BY ONLY <5>1, <5>2
      <4>2. QED BY <3>2, <3>3, <4>1, ShapeOrder
    <3>5. QED BY <1>6, <2>3, <3>1, <3>2, <3>4
  <2>4. QED BY <2>1, <2>2, <2>3
<1> HIDE DEF updates, before
<1>8. ASSUME PropDown(net, l, i)
      PROVE  /\ updates \o before \in Seq(Later(net, Backward(l)))
             /\ ToSet(updates) \subseteq ToSet(updates \o before)
             /\ ToSet(before) \subseteq ToSet(updates \o before)
  BY <1>5, <1>7, <1>8, JoinedElements
<1>9. BackwardTo(net, l, i) \in Seq(Later(net, Backward(l)))
  <2>1. <<>> \in Seq(Later(net, Backward(l)))
    OBVIOUS
  <2>2. QED BY <1>4, <1>8, <2>1
<1>10. CASE PropDown(net, l, i)
  <2>1. BackwardTo(net, l, i) = updates \o before
    BY <1>4, <1>10
  <2>2. net[l].learnable => Update(l) \in ToSet(BackwardTo(net, l, i))
    BY <1>5, <1>8, <1>10, <2>1
  <2>3. Wrote(net, t) # {} =>
            IF a = 1 THEN Backward(W[1]) \in ToSet(BackwardTo(net, l, i))
            ELSE Backward(R[a - 1]) \in ToSet(BackwardTo(net, l, i))
    BY <1>2, <1>7, <1>8, <1>10, <2>1
  <2>4. QED BY <1>9, <2>2, <2>3
<1>11. QED BY <1>9, <1>10

LEMMA BackwardNotifies ==
    ASSUME NEW net \in Networks, NEW l \in DOMAIN net
    PROVE  /\ BackwardNotify(net, l) \in Seq(Later(net, Backward(l)))
           /\ \A i \in DOMAIN net[l].inputs :
                 ToSet(BackwardTo(net, l, i)) \subseteq ToSet(BackwardNotify(net, l))
           /\ \A s \in SplitIDs(net) : l \in ToSet(SplitBehind(net, s)) =>
                 Backward(s) \in ToSet(BackwardNotify(net, l))
<1> DEFINE inputs == net[l].inputs
           ss == [i \in DOMAIN inputs |-> BackwardTo(net, l, i)]
           earlier == SplitsBefore(net, l)
           backwards == [i \in DOMAIN earlier |-> Backward(earlier[i])]
<1>1. inputs \in Seq(Tensors(net))
  BY NetworkAssumption DEF WellFormed
<1>2. ASSUME NEW i \in DOMAIN inputs PROVE BackwardTo(net, l, i) \in Seq(Later(net, Backward(l)))
  <2>1. l \in Read(net, inputs[i])
    BY DEF Read, ToSet
  <2>2. PICK a \in 1..Len(Readers(net, inputs[i])) : l = Readers(net, inputs[i])[a]
    BY <2>1, ReaderPlace
  <2>3. QED BY <2>2, BackwardToIs
<1>3. ss \in Seq(Seq(Later(net, Backward(l)))) /\ DOMAIN ss = DOMAIN inputs
  <2>1. DOMAIN inputs = 1..Len(inputs) /\ Len(inputs) \in Nat
    BY <1>1
  <2>2. \A i \in DOMAIN inputs : BackwardTo(net, l, i) \in Seq(Later(net, Backward(l)))
    BY <1>2
  <2> HIDE DEF inputs
  <2>3. ss \in [1..Len(inputs) -> Seq(Later(net, Backward(l)))]
    BY <2>1, <2>2
  <2>4. QED BY <2>1, <2>3
<1>4. /\ earlier \in Seq(SplitIDs(net))
      /\ ToSet(earlier) = {s \in SplitIDs(net) : l \in ToSet(SplitBehind(net, s))}
  <2> DEFINE S == {s \in SplitIDs(net) : l \in ToSet(SplitBehind(net, s))}
  <2>1. S \in SUBSET SplitIDs(net) /\ S \subseteq Nat
    BY SplitIDsAre
  <2>2. IsFiniteSet(S)
    BY <2>1, SplitIDsAre, FS_Subset
  <2>3. InOrder(S) \in Seq(S) /\ ToSet(InOrder(S)) = S
    BY <2>1, <2>2, InOrderProperties
  <2>4. earlier = InOrder(S)
    BY DEF SplitsBefore
  <2> HIDE DEF S
  <2>5. earlier \in Seq(SplitIDs(net)) /\ ToSet(earlier) = S
    BY <2>1, <2>3, <2>4, LargerSeq
  <2>6. QED BY <2>5 DEF S
<1> HIDE DEF ss, earlier
<1>5. /\ backwards \in Seq(Later(net, Backward(l))) /\ DOMAIN backwards = DOMAIN earlier
      /\ \A i \in DOMAIN earlier : backwards[i] = Backward(earlier[i])
  <2>1. DOMAIN earlier = 1..Len(earlier) /\ Len(earlier) \in Nat
        /\ \A i \in 1..Len(earlier) : Backward(earlier[i]) \in Later(net, Backward(l))
    <3>1. ASSUME NEW s \in ToSet(earlier) PROVE Backward(s) \in Later(net, Backward(l))
      BY <1>4, LaterPlans
    <3>2. QED BY <1>4, <3>1 DEF ToSet
  <2>2. backwards \in [1..Len(earlier) -> Later(net, Backward(l))]
    BY <2>1
  <2>3. QED BY <2>1, <2>2
<1> HIDE DEF backwards
<1>6. BackwardNotify(net, l) = FlattenSeq(ss) \o backwards
  BY DEF BackwardNotify, ss, earlier, backwards
<1>7. /\ FlattenSeq(ss) \in Seq(Later(net, Backward(l)))
      /\ \A i \in DOMAIN ss : ToSet(ss[i]) \subseteq ToSet(FlattenSeq(ss))
  BY <1>3, FlattenElements
<1>8. /\ BackwardNotify(net, l) \in Seq(Later(net, Backward(l)))
      /\ ToSet(FlattenSeq(ss)) \subseteq ToSet(BackwardNotify(net, l))
      /\ ToSet(backwards) \subseteq ToSet(BackwardNotify(net, l))
  BY <1>5, <1>6, <1>7, JoinedElements
<1>9. ASSUME NEW i \in DOMAIN net[l].inputs
      PROVE  ToSet(BackwardTo(net, l, i)) \subseteq ToSet(BackwardNotify(net, l))
  <2>1. ss[i] = BackwardTo(net, l, i)
    BY DEF ss
  <2>2. QED BY <1>3, <1>7, <1>8, <2>1
<1>10. ASSUME NEW s \in SplitIDs(net), l \in ToSet(SplitBehind(net, s))
       PROVE  Backward(s) \in ToSet(BackwardNotify(net, l))
  <2>1. s \in ToSet(earlier)
    BY <1>4, <1>10
  <2>2. Backward(s) \in ToSet(backwards)
    BY <1>5, <2>1 DEF ToSet
  <2>3. QED BY <1>8, <2>2
<1>11. QED BY <1>8, <1>9, <1>10

-----------------------------------------------------------------------------
(* The plans of a network, and their notifyLists.                          *)

LEMMA NotifyListIs ==
    ASSUME NEW net \in Networks
    PROVE  /\ \A l \in DOMAIN net :
                 /\ Forward(l) \in PlanIDs(net) /\ Backward(l) \in PlanIDs(net)
                 /\ NotifyList(net, Forward(l)) = ForwardNotify(net, l)
                 /\ NotifyList(net, Backward(l)) = BackwardNotify(net, l)
           /\ \A s \in SplitIDs(net) :
                 /\ Forward(s) \in PlanIDs(net) /\ Backward(s) \in PlanIDs(net)
                 /\ NotifyList(net, Forward(s)) = SplitForwardNotify(net, s)
                 /\ NotifyList(net, Backward(s)) = <<Backward(SplitFront(net, s))>>
<1>1. ASSUME NEW l \in DOMAIN net
      PROVE  /\ Forward(l) \in PlanIDs(net) /\ Backward(l) \in PlanIDs(net)
             /\ NotifyList(net, Forward(l)) = ForwardNotify(net, l)
             /\ NotifyList(net, Backward(l)) = BackwardNotify(net, l)
  <2>1. l \in Nat
    BY LayersFinite
  <2>2. Forward(l) \in PlanIDs(net) /\ Backward(l) \in PlanIDs(net)
    BY DEF PlanIDs
  <2>3. /\ Forward(l) % 3 = 0 /\ Forward(l) \div 3 = l
        /\ Backward(l) % 3 = 1 /\ Backward(l) \div 3 = l /\ 0 # 1
    BY <2>1, PlanNumbers
  <2>4. NotifyList(net, Forward(l)) = ForwardNotify(net, l)
    BY <2>3 DEF NotifyList
  <2>5. NotifyList(net, Backward(l)) = BackwardNotify(net, l)
    BY <2>3 DEF NotifyList
  <2>6. QED BY <2>2, <2>4, <2>5
<1>2. ASSUME NEW s \in SplitIDs(net)
      PROVE  /\ Forward(s) \in PlanIDs(net) /\ Backward(s) \in PlanIDs(net)
             /\ NotifyList(net, Forward(s)) = SplitForwardNotify(net, s)
             /\ NotifyList(net, Backward(s)) = <<Backward(SplitFront(net, s))>>
  <2>1. s \in Nat /\ s \notin DOMAIN net
    BY SplitIDsAre
  <2>2. Forward(s) \in PlanIDs(net) /\ Backward(s) \in PlanIDs(net)
    BY DEF PlanIDs
  <2>3. /\ Forward(s) % 3 = 0 /\ Forward(s) \div 3 = s
        /\ Backward(s) % 3 = 1 /\ Backward(s) \div 3 = s
    BY <2>1, PlanNumbers
  <2>4. NotifyList(net, Forward(s)) = SplitForwardNotify(net, s)
    BY <2>1, <2>3 DEF NotifyList
  <2>5. NotifyList(net, Backward(s)) = <<Backward(SplitFront(net, s))>>
    BY <2>1, <2>3 DEF NotifyList
  <2>6. QED BY <2>2, <2>4, <2>5
<1>3. QED BY <1>1, <1>2

LEMMA NotificationsMembers ==
    ASSUME NEW lists, NEW n
    PROVE  n \in Notifications(lists) <=>
               \E q \in DOMAIN lists : \E i \in DOMAIN lists[q] : n = <<q, i>>
BY DEF Notifications

(* What LogicalPlan counts is what PhysicalPlan is notified of: a plan     *)
(* that was dropped notifies nobody.                                       *)
LEMMA BuildCounts ==
    ASSUME NEW net \in Networks, NEW p \in DOMAIN Build(net)
    PROVE  Build(net)[p].depCount = Cardinality(NotificationsOf(
               [q \in DOMAIN Build(net) |-> Build(net)[q].notifyList], p))
<1> DEFINE lists == [q \in PlanIDs(net) |-> NotifyList(net, q)]
           dep == [q \in PlanIDs(net) |-> Cardinality(NotificationsOf(lists, q))]
           kept == {q \in PlanIDs(net) : lists[q] # <<>> \/ dep[q] # 0}
           keptLists == [q \in kept |-> lists[q]]
<1>1. Build(net) = [q \in kept |-> [notifyList |-> lists[q], depCount |-> dep[q]]]
  BY DEF Build
<1>2. DOMAIN Build(net) = kept
  BY <1>1
<1>3. \A q \in kept : Build(net)[q].notifyList = lists[q] /\ Build(net)[q].depCount = dep[q]
  BY <1>1
<1>4. [q \in DOMAIN Build(net) |-> Build(net)[q].notifyList] = keptLists
  BY <1>2, <1>3
<1>5. \A q \in PlanIDs(net) \ kept : DOMAIN lists[q] = {}
  <2>1. DOMAIN <<>> = {}
    OBVIOUS
  <2>2. QED BY <2>1
<1>6. NotificationsOf(lists, p) = NotificationsOf(keptLists, p)
  <2> HIDE DEF lists, dep
  <2>1. DOMAIN lists = PlanIDs(net) /\ DOMAIN keptLists = kept
    BY DEF lists
  <2>2. \A q \in kept : keptLists[q] = lists[q]
    OBVIOUS
  <2> HIDE DEF keptLists
  <2>3. \A n : n \in Notifications(lists) <=>
            \E q \in PlanIDs(net) : \E i \in DOMAIN lists[q] : n = <<q, i>>
    BY <2>1, NotificationsMembers
  <2>4. \A n : n \in Notifications(keptLists) <=>
            \E q \in kept : \E i \in DOMAIN keptLists[q] : n = <<q, i>>
    BY <2>1, NotificationsMembers
  <2>5. Notifications(lists) = Notifications(keptLists)
    <3>1. kept \subseteq PlanIDs(net)
      OBVIOUS
    <3> HIDE DEF kept
    <3>2. \A n : n \in Notifications(lists) <=> n \in Notifications(keptLists)
      BY <1>5, <2>2, <2>3, <2>4, <3>1
    <3>3. QED BY <3>2 DEF Notifications
  <2>6. \A n \in Notifications(keptLists) : keptLists[n[1]] = lists[n[1]]
    BY <2>2, <2>4
  <2>7. QED BY <2>5, <2>6 DEF NotificationsOf
<1>7. p \in kept
  BY <1>2
<1>8. Build(net)[p].depCount = Cardinality(NotificationsOf(lists, p))
  BY <1>3, <1>7
<1>9. QED BY <1>4, <1>6, <1>8

LEMMA NotificationsFinite ==
    ASSUME NEW P, IsFiniteSet(P), NEW lists \in [P -> Seq(P)]
    PROVE  IsFiniteSet(Notifications(lists))
<1> DEFINE from(q) == {<<q, i>> : i \in DOMAIN lists[q]}
           sets == {from(q) : q \in P}
<1>1. ASSUME NEW q \in P PROVE IsFiniteSet(from(q))
  <2>1. DOMAIN lists[q] = 1..Len(lists[q]) /\ Len(lists[q]) \in Nat
    OBVIOUS
  <2>2. IsFiniteSet(DOMAIN lists[q])
    BY <2>1, FS_Interval
  <2>3. [i \in DOMAIN lists[q] |-> <<q, i>>] \in Surjection(DOMAIN lists[q], from(q))
    BY DEF Surjection
  <2>4. QED BY <2>2, <2>3, FS_Surjection
<1>2. [q \in P |-> from(q)] \in Surjection(P, sets)
  <2> HIDE DEF from
  <2>1. [q \in P |-> from(q)] \in [P -> sets]
    OBVIOUS
  <2>2. \A T \in sets : \E q \in P : [r \in P |-> from(r)][q] = T
    OBVIOUS
  <2>3. QED BY <2>1, <2>2 DEF Surjection
<1>3. IsFiniteSet(sets)
  BY <1>2, FS_Surjection
<1>4. \A T \in sets : IsFiniteSet(T)
  BY <1>1
<1>5. IsFiniteSet(UNION sets)
  BY <1>3, <1>4, FS_UNION
<1>6. Notifications(lists) = UNION sets
  BY DEF Notifications
<1>7. QED BY <1>5, <1>6

(* Whoever is notified is a plan of the network that comes later, ...      *)
LEMMA NotifyListType ==
    ASSUME NEW net \in Networks, NEW p \in PlanIDs(net)
    PROVE  NotifyList(net, p) \in Seq(Later(net, p))
<1>1. CASE \E l \in DOMAIN net : p = Forward(l) \/ p = Backward(l)
  BY <1>1, NotifyListIs, ForwardNotifies, BackwardNotifies
<1>2. CASE \E s \in SplitIDs(net) : p = Forward(s) \/ p = Backward(s)
  <2>1. PICK s \in SplitIDs(net) : p = Forward(s) \/ p = Backward(s)
    BY <1>2
  <2>2. Backward(SplitFront(net, s)) \in Later(net, Backward(s))
    BY LaterPlans
  <2>3. <<Backward(SplitFront(net, s))>> \in Seq(Later(net, Backward(s)))
    BY <2>2
  <2>4. SplitForwardNotify(net, s) \in Seq(Later(net, Forward(s)))
    <3>1. PICK behind \in Seq(DOMAIN net) : behind = SplitBehind(net, s)
      BY SplitBehindPlaces
    <3>2. DOMAIN behind = 1..Len(behind) /\ Len(behind) \in Nat
      OBVIOUS
    <3>3. \A l \in ToSet(behind) : Forward(l) \in Later(net, Forward(s))
      BY <3>1, LaterPlans
    <3>4. \A i \in 1..Len(behind) : Forward(behind[i]) \in Later(net, Forward(s))
      BY <3>2, <3>3 DEF ToSet
    <3>5. [i \in 1..Len(behind) |-> Forward(behind[i])] \in Seq(Later(net, Forward(s)))
      BY <3>2, <3>4
    <3>6. QED BY <3>1, <3>2, <3>5 DEF SplitForwardNotify
  <2>5. QED BY <2>1, <2>3, <2>4, NotifyListIs
<1>3. CASE \E l \in DOMAIN net : p = Update(l)
  <2>1. PICK l \in DOMAIN net : p = Update(l)
    BY <1>3
  <2>2. p % 3 = 2
    BY <2>1, LayersFinite, PlanNumbers
  <2>3. NotifyList(net, p) = <<>>
    BY <2>2 DEF NotifyList
  <2>4. QED BY <2>3
<1>4. QED BY <1>1, <1>2, <1>3 DEF PlanIDs

(* ... which is not dropped, and somebody is.                              *)
LEMMA BuildType ==
    ASSUME NEW net \in Networks
    PROVE  LET plans == DOMAIN Build(net) IN
           /\ plans # {} /\ IsFiniteSet(plans) /\ plans \subseteq Nat
           /\ \A p \in plans : Build(net)[p].notifyList \in Seq(plans)
<1> DEFINE lists == [p \in PlanIDs(net) |-> NotifyList(net, p)]
           dep   == [p \in PlanIDs(net) |-> Cardinality(NotificationsOf(lists, p))]
           plans == {q \in PlanIDs(net) : lists[q] # <<>> \/ dep[q] # 0}
<1>1. /\ DOMAIN Build(net) = plans
      /\ \A p \in plans : Build(net)[p].notifyList = lists[p]
  BY DEF Build
<1>2. lists \in [PlanIDs(net) -> Seq(PlanIDs(net))]
  <2>1. ASSUME NEW p \in PlanIDs(net) PROVE NotifyList(net, p) \in Seq(PlanIDs(net))
    <3>1. Later(net, p) \subseteq PlanIDs(net)
      BY DEF Later
    <3>2. QED BY <3>1, NotifyListType, LargerSeq
  <2>2. QED BY <2>1
<1>3. IsFiniteSet(Notifications(lists))
  <2> HIDE DEF lists
  <2>1. QED BY <1>2, PlanIDsAre, NotificationsFinite
<1>4. ASSUME NEW q \in PlanIDs(net), NEW i \in DOMAIN lists[q] PROVE lists[q][i] \in plans
  <2>1. lists[q][i] \in PlanIDs(net)
    <3> HIDE DEF lists
    <3>1. lists[q] \in Seq(PlanIDs(net))
      BY <1>2
    <3>2. QED BY <3>1
  <2>2. PICK p \in PlanIDs(net) : p = lists[q][i]
    BY <2>1
  <2>3. <<q, i>> \in NotificationsOf(lists, p)
    <3>1. DOMAIN lists = PlanIDs(net)
      OBVIOUS
    <3> HIDE DEF lists
    <3>2. <<q, i>> \in Notifications(lists)
      BY <3>1, NotificationsMembers
    <3>3. QED BY <2>2, <3>2 DEF NotificationsOf
  <2>4. NotificationsOf(lists, p) \in SUBSET Notifications(lists)
    BY DEF NotificationsOf
  <2>5. Cardinality(NotificationsOf(lists, p)) # 0
    <3> HIDE DEF lists
    <3>1. IsFiniteSet(NotificationsOf(lists, p))
      BY <1>3, <2>4, FS_Subset
    <3>2. QED BY <2>3, <3>1, FS_EmptySet
  <2>6. dep[p] # 0
    BY <2>5
  <2> HIDE DEF lists, dep
  <2>7. QED BY <2>2, <2>6
<1>5. IsFiniteSet(plans) /\ plans \subseteq Nat
  <2>1. plans \in SUBSET PlanIDs(net)
    OBVIOUS
  <2> HIDE DEF plans
  <2>2. QED BY <2>1, PlanIDsAre, FS_Subset
<1>6. ASSUME NEW p \in plans PROVE lists[p] \in Seq(plans)
  <2>1. p \in PlanIDs(net)
    OBVIOUS
  <2>2. \A i \in DOMAIN lists[p] : lists[p][i] \in plans
    BY <1>4, <2>1
  <2>3. lists[p] \in Seq(PlanIDs(net))
    BY <1>2, <2>1
  <2> HIDE DEF plans, lists
  <2>4. QED BY <2>2, <2>3
<1>7. plans # {}
  <2>1. PICK l \in DOMAIN net : net[l].outputs # <<>>
    BY NetworkAssumption DEF WellFormed
  <2>2. PICK t : t \in ToSet(net[l].outputs)
    <3>1. net[l].outputs \in Seq(Tensors(net))
      BY NetworkAssumption DEF WellFormed
    <3>2. 1 \in DOMAIN net[l].outputs
      BY <2>1, <3>1
    <3>3. QED BY <3>2 DEF ToSet
  <2>3. l \in Wrote(net, t)
    BY <2>2 DEF Wrote
  <2>4. \E p \in PlanIDs(net) : ToSet(NotifyList(net, p)) # {}
    <3>1. CASE Read(net, t) = {}
      <4>1. ForwardTo(net, l, t) = <<Backward(l)>>
        BY <3>1, ReadersAndWriters DEF ForwardTo
      <4>2. Backward(l) \in ToSet(ForwardTo(net, l, t))
        BY <4>1 DEF ToSet
      <4>3. QED BY <2>2, <4>2, ForwardNotifies, NotifyListIs
    <3>2. CASE Read(net, t) # {}
      <4>1. PICK k \in Read(net, t) : TRUE
        BY <3>2
      <4>2. Shape(Readers(net, t), Writers(net, t))
        BY <2>3, <3>2, TensorShape
      <4>3. 1 \in 1..Len(Writers(net, t))
        BY <4>2 DEF Shape
      <4>4. CASE t \in SplitSet(net)
        <5>1. PICK s \in SplitIDs(net) : TensorOf(net, s) = t
          BY <4>4, SplitIDsAre
        <5>2. 1 \in DOMAIN SplitBehind(net, s)
          BY SplitBehindPlaces
        <5>3. PICK j \in DOMAIN net : j \in ToSet(SplitBehind(net, s))
          <6>1. SplitBehind(net, s) \in Seq(DOMAIN net)
            BY SplitBehindPlaces
          <6>2. SplitBehind(net, s)[1] \in DOMAIN net
            BY <5>2, <6>1
          <6>3. QED BY <5>2, <6>2 DEF ToSet
        <5>4. Backward(s) \in ToSet(BackwardNotify(net, j))
          BY <5>3, BackwardNotifies
        <5>5. QED BY <5>4, NotifyListIs
      <4>5. CASE t \notin SplitSet(net)
        <5>1. PICK j : j = Writers(net, t)[1]
          OBVIOUS
        <5>2. j \in Wrote(net, t)
          <6>1. Writers(net, t) \in Seq(Wrote(net, t))
            BY ReadersAndWriters
          <6>2. QED BY <4>3, <5>1, <6>1
        <5>3. ForwardTo(net, j, t) = <<Forward(Readers(net, t)[1])>>
          BY <3>2, <4>3, <4>5, <5>1, ForwardToIs
        <5>4. Forward(Readers(net, t)[1]) \in ToSet(ForwardTo(net, j, t))
          BY <5>3 DEF ToSet
        <5>5. j \in DOMAIN net /\ t \in ToSet(net[j].outputs)
          BY <5>2 DEF Wrote
        <5>6. QED BY <5>4, <5>5, ForwardNotifies, NotifyListIs
      <4>6. QED BY <4>4, <4>5
    <3>3. QED BY <3>1, <3>2
  <2>5. PICK p \in PlanIDs(net) : ToSet(NotifyList(net, p)) # {}
    BY <2>4
  <2>6. lists[p] # <<>>
    BY <2>5 DEF ToSet
  <2>7. p \in plans
    BY <2>6
  <2>8. QED BY <2>7
<1> HIDE DEF plans, lists
<1>8. QED BY <1>1, <1>5, <1>6, <1>7

-----------------------------------------------------------------------------
(* The plans.                                                              *)

PlanInv ==
    /\ Plans # {} /\ IsFiniteSet(Plans) /\ Plans \subseteq Nat
    /\ \A p \in Plans : Notify(p) \in Seq(Plans)
    /\ \A p \in Plans :
          /\ IsFiniteSet(Awaited(p))
          /\ DepCount(p) \in Nat /\ DepCount(p) = Cardinality(Awaited(p))

LEMMA AwaitedMembers ==
    ASSUME NEW p \in Plans
    PROVE  /\ \A n \in Awaited(p) :
                 /\ n[1] \in Plans /\ n[2] \in DOMAIN Notify(n[1])
                 /\ n = <<n[1], n[2]>> /\ Notify(n[1])[n[2]] = p
           /\ \A q \in Plans : \A i \in DOMAIN Notify(q) :
                 Notify(q)[i] = p => <<q, i>> \in Awaited(p)
BY DEF Awaited, NotificationsOf, Notifications

LEMMA InitPlans == Init => PlanInv
<1>1. SUFFICES ASSUME Init PROVE PlanInv
  OBVIOUS
<1>2. /\ network \in Networks /\ planMap = Build(network)
  BY <1>1 DEF Init
<1>3. /\ Plans # {} /\ IsFiniteSet(Plans) /\ Plans \subseteq Nat
      /\ \A p \in Plans : Notify(p) \in Seq(Plans)
  BY <1>2, BuildType DEF Plans, Notify
<1>4. ASSUME NEW p \in Plans
      PROVE  /\ IsFiniteSet(Awaited(p)) /\ DepCount(p) = Cardinality(Awaited(p))
             /\ DepCount(p) \in Nat
  <2> DEFINE lists == [q \in Plans |-> Notify(q)]
  <2>1. lists \in [Plans -> Seq(Plans)]
    BY <1>3
  <2>2. IsFiniteSet(Notifications(lists))
    BY <1>3, <2>1, NotificationsFinite
  <2>3. Awaited(p) \in SUBSET Notifications(lists)
    BY DEF Awaited, NotificationsOf
  <2>4. IsFiniteSet(Awaited(p))
    BY <2>2, <2>3, FS_Subset
  <2>5. DepCount(p) = Cardinality(Awaited(p))
    BY <1>2, BuildCounts DEF DepCount, Awaited, Plans, Notify
  <2>6. QED BY <2>4, <2>5, FS_CardinalityType
<1>5. QED BY <1>3, <1>4 DEF PlanInv

(* The plans stay what they are.                                           *)
LEMMA PlansSame ==
    ASSUME UNCHANGED planMap
    PROVE  /\ Plans' = Plans /\ PlanInv' = PlanInv
           /\ FreshRefs' = FreshRefs /\ FreshQueue' = FreshQueue
           /\ Ready' = Ready /\ Needs' = Needs
           /\ \A p : Notify(p)' = Notify(p) /\ Awaited(p)' = Awaited(p)
BY DEF Plans, PlanInv, FreshRefs, FreshQueue, Ready, Needs, Notify, Awaited, DepCount,
       InOrder

LEMMA NextKeepsPlans == [Next]_vars => UNCHANGED planMap
BY DEF Next, TaskConsumer, Request, Handler, vars, networkVars

-----------------------------------------------------------------------------
(* The requests of the one client.                                         *)

Pending(c) == Len(tasks) + Len(todo) + Len(remain) + IF c \in awake THEN 1 ELSE 0

Working == {"layer", "notify", "generate", "finish"}

(* While the client waits, its run is in one place at most, and it is the  *)
(* one that the task consumer works on; otherwise it is nowhere.           *)
HandlerInv(c) ==
    /\ client \in [Clients -> ClientSteps]
    /\ tasks \in Seq(Clients) /\ todo \in Seq(Clients) /\ remain \in Seq(Clients)
    /\ script \in [Clients -> Seq(Requests)]
    /\ client[c] # "idle" => script[c] # <<>>
    /\ Pending(c) <= IF client[c] = "await" THEN 1 ELSE 0
    /\ consumer \in ConsumerSteps
    /\ consumer \in Working => todo # <<>>

LEMMA InitHandler ==
    ASSUME NEW c, OneClient(c), Init PROVE HandlerInv(c)
<1>1. /\ <<>> \in Seq(Clients) /\ Len(<<>>) = 0
  OBVIOUS
<1>2. \A s \in Scripts : s \in Seq(Requests)
  BY PlanAssumption
<1>3. QED
  BY <1>1, <1>2 DEF Init, HandlerInv, OneClient, Pending, ClientSteps, ConsumerSteps,
                    Working

(* With nothing pending the task consumer has nothing to work on.          *)
LEMMA NothingPending ==
    ASSUME NEW c, OneClient(c), HandlerInv(c), client[c] # "await"
    PROVE  /\ tasks = <<>> /\ todo = <<>> /\ remain = <<>> /\ c \notin awake
           /\ consumer \notin Working
<1>1. Len(tasks) \in Nat /\ Len(todo) \in Nat /\ Len(remain) \in Nat
  BY DEF HandlerInv
<1>2. Len(tasks) = 0 /\ Len(todo) = 0 /\ Len(remain) = 0 /\ c \notin awake
  BY <1>1 DEF HandlerInv, Pending
<1>3. QED BY <1>2 DEF HandlerInv

LEMMA HandlerStep ==
    ASSUME NEW c, OneClient(c), HandlerInv(c), [Next]_vars PROVE HandlerInv(c)'
<1> c \in Clients /\ \A d \in Clients : d = c
  BY DEF OneClient
<1>1. /\ Len(tasks) \in Nat /\ Len(todo) \in Nat /\ Len(remain) \in Nat
      /\ client \in [Clients -> ClientSteps] /\ script \in [Clients -> Seq(Requests)]
      /\ \A s \in Seq(Clients) : \A d \in Clients :
            /\ Append(s, d) \in Seq(Clients) /\ Len(Append(s, d)) = Len(s) + 1
      /\ \A s \in Seq(Clients) : s # <<>> =>
            /\ Tail(s) \in Seq(Clients) /\ Len(Tail(s)) = Len(s) - 1 /\ Head(s) \in Clients
            /\ Len(s) \in Nat \ {0}
      /\ \A s, t \in Seq(Clients) :
            s \o t \in Seq(Clients) /\ Len(s \o t) = Len(s) + Len(t)
      /\ <<>> \in Seq(Clients) /\ Len(<<>>) = 0
  BY ConcatProperties, AppendProperties, HeadTailProperties DEF HandlerInv
<1>2. CASE UNCHANGED vars
  BY <1>2 DEF HandlerInv, Pending, vars, consumerVars, clientVars
<1>3. CASE Run(c) \/ Reset(c) \/ MiniBatch(c)
  BY <1>1, <1>3 DEF HandlerInv, Pending, Run, Reset, MiniBatch, Goto, ClientSteps,
                    consumerVars
<1>4. CASE ResetPlan(c)
  <2>1. Tail(script[c]) \in Seq(Requests) /\ script[c] # <<>>
    BY <1>1, <1>4 DEF HandlerInv, ResetPlan
  <2>2. client' \in [Clients -> ClientSteps] /\ client'[c] \in {"idle", "give"}
    BY <1>1, <1>4 DEF ResetPlan, Goto, ClientSteps
  <2>3. /\ script' \in [Clients -> Seq(Requests)]
        /\ client'[c] # "idle" => script'[c] # <<>>
    BY <1>1, <1>4, <2>1 DEF ResetPlan, Goto
  <2>4. QED BY <1>4, <2>2, <2>3 DEF HandlerInv, Pending, ResetPlan, consumerVars
<1>5. CASE GiveTask(c)
  BY <1>1, <1>5 DEF HandlerInv, Pending, GiveTask, Goto, ClientSteps, consumerVars
<1>6. CASE Reply(c)
  BY <1>1, <1>6 DEF HandlerInv, Pending, Reply, Goto, ClientSteps, consumerVars
<1>7. CASE TaskConsumer
  <2>1. UNCHANGED <<client, script>>
    BY <1>7 DEF TaskConsumer, TakeTasks, PopPlan, NothingReady, RunLayer, NotifyFinish,
       MarkDone, PlansRemain, StopOnNanLoss, LastMiniBatch, NextMiniBatch, FinishTask,
       TasksSeenTo, clientVars
  <2>2. CASE TakeTasks
    BY <1>1, <2>1, <2>2 DEF HandlerInv, Pending, TakeTasks, Working, ConsumerSteps
  <2>3. CASE PopPlan \/ NothingReady \/ TasksSeenTo
    BY <2>1, <2>3 DEF HandlerInv, Pending, PopPlan, NothingReady, TasksSeenTo, Working,
                      ConsumerSteps
  <2>4. CASE RunLayer \/ NotifyFinish \/ MarkDone
    BY <2>1, <2>4 DEF HandlerInv, Pending, RunLayer, NotifyFinish, MarkDone, Working,
                      ConsumerSteps
  <2>5. CASE StopOnNanLoss \/ LastMiniBatch
    BY <2>1, <2>5 DEF HandlerInv, Pending, StopOnNanLoss, LastMiniBatch, Working,
                      ConsumerSteps
  <2>6. CASE PlansRemain \/ NextMiniBatch
    BY <1>1, <2>1, <2>6 DEF HandlerInv, Pending, PlansRemain, NextMiniBatch, Working,
                            ConsumerSteps
  <2>7. CASE FinishTask
    BY <1>1, <2>1, <2>7 DEF HandlerInv, Pending, FinishTask, Working, ConsumerSteps
  <2>8. QED
    BY <1>7, <2>2, <2>3, <2>4, <2>5, <2>6, <2>7 DEF TaskConsumer
<1>8. QED
  BY <1>2, <1>3, <1>4, <1>5, <1>6, <1>7 DEF Next, Request, Handler

-----------------------------------------------------------------------------
(* The counters.                                                           *)

CounterTypes ==
    /\ depRef \in [Plans -> Int] /\ readyQueue \in Seq(Plans) /\ refCount \in Int
    /\ next \in Nat \ {0}
    /\ consumer \in {"layer", "notify"} => cur \in Plans

Unsent(p) == {n \in Awaited(p) : ~Sent(n)}

(* RefCountExact and DepRefExact without the reset, and that the plan at   *)
(* work waits for nothing.                                                 *)
ExactInv ==
    /\ refCount = Cardinality(Undone)
    /\ IsInjective(readyQueue)
    /\ \A p \in ToSet(readyQueue) : depRef[p] = 0 /\ ~AtWork(p)
    /\ consumer \in {"layer", "notify"} => depRef[cur] = 0
    /\ \A p \in Plans : depRef[p] = Cardinality(Unsent(p))

CounterInv(c) ==
    /\ PlanInv
    /\ CounterTypes
    /\ client[c] = "resetPlan" => refCount = 0
    /\ client[c] # "resetPlan" => ExactInv

LEMMA UnsentFinite ==
    ASSUME PlanInv, NEW p \in Plans
    PROVE  IsFiniteSet(Unsent(p)) /\ Cardinality(Unsent(p)) \in Nat
<1>1. Unsent(p) \in SUBSET Awaited(p) /\ IsFiniteSet(Awaited(p))
  BY DEF Unsent, PlanInv
<1>2. IsFiniteSet(Unsent(p))
  BY <1>1, FS_Subset
<1>3. QED BY <1>2, FS_CardinalityType

LEMMA UndoneFinite ==
    ASSUME PlanInv PROVE IsFiniteSet(Undone) /\ Cardinality(Undone) \in Nat
<1>1. Undone \in SUBSET Plans /\ IsFiniteSet(Plans)
  BY DEF Undone, PlanInv
<1>2. IsFiniteSet(Undone)
  BY <1>1, FS_Subset
<1>3. QED BY <1>2, FS_CardinalityType

(* The beginning of a mini batch: nothing is done, nothing was sent.       *)
FreshState ==
    /\ PlanInv
    /\ depRef = FreshRefs
    /\ readyQueue \in Seq(Plans) /\ ToSet(readyQueue) = Ready /\ IsInjective(readyQueue)
    /\ refCount = Cardinality(Plans)
    /\ consumer \notin {"layer", "notify"}

LEMMA FreshExact == FreshState => ExactInv /\ depRef \in [Plans -> Int] /\ refCount \in Int
<1>1. SUFFICES ASSUME FreshState
               PROVE  ExactInv /\ depRef \in [Plans -> Int] /\ refCount \in Int
  OBVIOUS
<1>2. \A p \in Plans : depRef[p] = DepCount(p) /\ DepCount(p) \in Nat
  BY <1>1 DEF FreshState, FreshRefs, PlanInv
<1>3. Undone = Plans
  BY <1>1, <1>2 DEF Undone, FreshState, Ready
<1>4. \A p \in Plans : Unsent(p) = Awaited(p)
  BY <1>1, <1>3, AwaitedMembers DEF Unsent, Sent, FreshState
<1>5. depRef \in [Plans -> Int]
  BY <1>1, <1>2 DEF FreshState, FreshRefs
<1>6. refCount \in Int
  BY <1>1, FS_CardinalityType DEF FreshState, PlanInv
<1>7. ExactInv
  BY <1>1, <1>2, <1>3, <1>4 DEF ExactInv, FreshState, Ready, AtWork, PlanInv
<1>8. QED BY <1>5, <1>6, <1>7

LEMMA FreshQueueProperties ==
    ASSUME PlanInv
    PROVE  /\ FreshQueue \in Seq(Plans) /\ ToSet(FreshQueue) = Ready
           /\ IsInjective(FreshQueue)
<1>1. Ready \in SUBSET Plans /\ IsFiniteSet(Plans) /\ Plans \subseteq Nat
  BY DEF PlanInv, Ready
<1>2. IsFiniteSet(Ready)
  BY <1>1, FS_Subset
<1>3. /\ FreshQueue \in Seq(Ready) /\ ToSet(FreshQueue) = Ready
      /\ IsInjective(FreshQueue)
  BY <1>1, <1>2, InOrderProperties DEF FreshQueue
<1>4. QED BY <1>1, <1>3, LargerSeq

LEMMA InitReady ==
    Init => /\ PlanInv /\ readyQueue \in Seq(Plans)
            /\ ToSet(readyQueue) = Ready /\ IsInjective(readyQueue)
<1>0. SUFFICES ASSUME Init
               PROVE  /\ PlanInv /\ readyQueue \in Seq(Plans)
                      /\ ToSet(readyQueue) = Ready /\ IsInjective(readyQueue)
  OBVIOUS
<1>1. PlanInv
  BY <1>0, InitPlans
<1> DEFINE fwd  == {p \in Ready : PlanType(p) = 0}
           rest == {p \in Ready : PlanType(p) # 0}
<1>2. /\ IsFiniteSet(fwd) /\ IsFiniteSet(rest)
      /\ fwd \subseteq Nat /\ rest \subseteq Nat
      /\ fwd \subseteq Plans /\ rest \subseteq Plans /\ fwd \cap rest = {}
      /\ fwd \cup rest = Ready
  <2>1. fwd \in SUBSET Plans /\ rest \in SUBSET Plans
    BY DEF Ready
  <2>2. IsFiniteSet(fwd) /\ IsFiniteSet(rest)
    BY <1>1, <2>1, FS_Subset DEF PlanInv
  <2>3. QED BY <1>1, <2>1, <2>2 DEF PlanInv
<1>3. /\ InOrder(fwd) \in Seq(fwd) /\ ToSet(InOrder(fwd)) = fwd
      /\ IsInjective(InOrder(fwd))
  BY <1>2, InOrderProperties
<1>4. /\ InOrder(rest) \in Seq(rest) /\ ToSet(InOrder(rest)) = rest
      /\ IsInjective(InOrder(rest))
  BY <1>2, InOrderProperties
<1>5. /\ readyQueue \in Seq(Plans) /\ ToSet(readyQueue) = Ready
      /\ IsInjective(readyQueue)
  <2>1. readyQueue = InOrder(fwd) \o InOrder(rest)
    BY <1>0 DEF Init
  <2>2. InOrder(fwd) \in Seq(Plans) /\ InOrder(rest) \in Seq(Plans)
    BY <1>2, <1>3, <1>4, LargerSeq
  <2> HIDE DEF fwd, rest
  <2>3. ToSet(InOrder(fwd)) \cap ToSet(InOrder(rest)) = {}
    BY <1>2, <1>3, <1>4
  <2> HIDE DEF InOrder
  <2>4. /\ InOrder(fwd) \o InOrder(rest) \in Seq(Plans)
        /\ ToSet(InOrder(fwd) \o InOrder(rest)) = fwd \cup rest
        /\ IsInjective(InOrder(fwd) \o InOrder(rest))
    BY <1>3, <1>4, <2>2, <2>3, JoinProperties
  <2>5. QED BY <1>2, <2>1, <2>4
<1>6. QED BY <1>1, <1>5

LEMMA InitCounters ==
    ASSUME NEW c, OneClient(c), Init PROVE CounterInv(c)
<1>1. FreshState
  BY InitReady DEF FreshState, Init
<1>2. client[c] # "resetPlan" /\ next \in Nat \ {0}
  BY DEF Init, OneClient
<1>3. QED
  BY <1>1, <1>2, FreshExact DEF CounterInv, CounterTypes, FreshState

(* A step that leaves the counters alone, and does not touch the plan at   *)
(* work.                                                                   *)
LEMMA ExactSame ==
    ASSUME ExactInv, UNCHANGED <<planMap, depRef, readyQueue, refCount, cur, next>>,
           consumer' = consumer \/ (/\ consumer \notin {"layer", "notify"}
                                    /\ consumer' \notin {"layer", "notify"})
    PROVE  ExactInv'
<1>1. /\ Plans' = Plans /\ \A p : Awaited(p)' = Awaited(p)
  BY PlansSame
<1>2. \A p : AtWork(p)' <=> AtWork(p)
  BY DEF AtWork
<1>3. Undone' = Undone
  BY <1>1, <1>2 DEF Undone
<1>4. \A n : Sent(n)' <=> Sent(n)
  BY <1>3 DEF Sent
<1>5. \A p : Unsent(p)' = Unsent(p)
  BY <1>1, <1>4 DEF Unsent
<1>6. QED BY <1>1, <1>2, <1>3, <1>5 DEF ExactInv

(* A ready plan is taken out of the queue and is at work.                  *)
LEMMA PopPlanStep ==
    ASSUME PlanInv, CounterTypes, ExactInv, PopPlan, UNCHANGED planMap
    PROVE  CounterTypes' /\ ExactInv'
<1>1. /\ Plans' = Plans /\ \A p : Awaited(p)' = Awaited(p)
  BY PlansSame
<1>2. /\ consumer = "task" /\ readyQueue # <<>> /\ consumer' = "layer"
      /\ cur' = Head(readyQueue) /\ readyQueue' = Tail(readyQueue)
      /\ UNCHANGED <<depRef, refCount, next>>
  BY DEF PopPlan
<1>3. /\ cur' \in Plans /\ readyQueue' \in Seq(Plans)
      /\ ToSet(readyQueue) = {cur'} \cup ToSet(readyQueue')
      /\ cur' \notin ToSet(readyQueue') /\ IsInjective(readyQueue')
  BY <1>2, PopProperties DEF CounterTypes, ExactInv
<1>4. \A p : ~AtWork(p) /\ (AtWork(p)' <=> p = cur')
  BY <1>2 DEF AtWork
<1>5. Undone' = Undone
  BY <1>1, <1>2, <1>3, <1>4 DEF Undone
<1>6. \A n : Sent(n)' <=> Sent(n)
  BY <1>2, <1>5 DEF Sent
<1>7. \A p : Unsent(p)' = Unsent(p)
  BY <1>1, <1>6 DEF Unsent
<1>8. CounterTypes'
  BY <1>1, <1>2, <1>3 DEF CounterTypes
<1>9. ExactInv'
  BY <1>1, <1>2, <1>3, <1>4, <1>5, <1>7 DEF ExactInv
<1>10. QED BY <1>8, <1>9

LEMMA RunLayerStep ==
    ASSUME PlanInv, CounterTypes, ExactInv, RunLayer, UNCHANGED planMap
    PROVE  CounterTypes' /\ ExactInv'
<1>1. /\ Plans' = Plans /\ \A p : Awaited(p)' = Awaited(p)
      /\ \A p : Notify(p)' = Notify(p)
  BY PlansSame
<1>2. /\ consumer = "layer" /\ consumer' = "notify" /\ next' = 1
      /\ UNCHANGED <<depRef, readyQueue, refCount, cur>>
  BY DEF RunLayer, planVars
<1>3. \A p : AtWork(p)' <=> AtWork(p)
  BY <1>2 DEF AtWork
<1>4. Undone' = Undone
  BY <1>1, <1>2, <1>3 DEF Undone
<1>5. \A p \in Plans : \A n \in Awaited(p) : Sent(n)' <=> Sent(n)
  <2>1. SUFFICES ASSUME NEW p \in Plans, NEW n \in Awaited(p) PROVE Sent(n)' <=> Sent(n)
    OBVIOUS
  <2>2. n[1] \in Plans /\ n[2] \in DOMAIN Notify(n[1])
    BY AwaitedMembers
  <2>3. n[2] \in Nat \ {0}
    BY <2>2 DEF PlanInv
  <2>4. ~(n[2] < 1)
    BY <2>3
  <2>5. QED BY <1>2, <1>4, <2>4 DEF Sent
<1>6. \A p \in Plans : Unsent(p)' = Unsent(p)
  BY <1>1, <1>5 DEF Unsent
<1>7. QED BY <1>1, <1>2, <1>3, <1>4, <1>6 DEF CounterTypes, ExactInv

(* A notification is counted once: the one that is sent was unsent.        *)
LEMMA NotifyFinishStep ==
    ASSUME PlanInv, CounterTypes, ExactInv, NotifyFinish, UNCHANGED planMap
    PROVE  CounterTypes' /\ ExactInv' /\ consumer' = "notify"
<1>0. /\ consumer = "notify" /\ next <= Len(Notify(cur)) /\ next \in Nat \ {0}
      /\ cur \in Plans /\ Notify(cur) \in Seq(Plans)
  BY DEF NotifyFinish, CounterTypes, PlanInv
<1>a. next \in DOMAIN Notify(cur) /\ Notify(cur)[next] \in Plans
  BY <1>0
<1> PICK target \in Plans : target = Notify(cur)[next]
  BY <1>a
<1> PICK sent : sent = <<cur, next>>
  OBVIOUS
<1>1. /\ Plans' = Plans /\ \A p : Awaited(p)' = Awaited(p)
  BY PlansSame
<1>2. /\ consumer = "notify" /\ next' = next + 1
      /\ depRef' = [depRef EXCEPT ![target] = @ - 1]
      /\ readyQueue' = IF depRef'[target] = 0 THEN Append(readyQueue, target)
                       ELSE readyQueue
      /\ consumer' = IF depRef'[target] >= 0 THEN consumer ELSE "aborted"
      /\ UNCHANGED <<refCount, cur>>
  BY DEF NotifyFinish
<1>3. /\ next \in Nat /\ AtWork(cur) /\ cur \in Undone /\ depRef[cur] = 0
  BY <1>0 DEF AtWork, Undone, ExactInv
<1>4. sent \in Unsent(target)
  <2>1. sent \in Awaited(target)
    BY <1>0, <1>a, AwaitedMembers
  <2>2. ~Sent(sent)
    BY <1>0, <1>3 DEF Sent
  <2>3. QED BY <2>1, <2>2 DEF Unsent
<1>5. depRef[target] \in Nat \ {0}
  <2>1. IsFiniteSet(Unsent(target)) /\ Cardinality(Unsent(target)) \in Nat
    BY <1>3, UnsentFinite
  <2>2. Cardinality(Unsent(target)) # 0
    BY <1>4, <2>1, FS_EmptySet
  <2>3. QED BY <1>3, <2>1, <2>2 DEF ExactInv
<1>6. target # cur
  BY <1>3, <1>5
<1>7. /\ depRef' \in [Plans -> Int] /\ depRef'[target] = depRef[target] - 1
      /\ \A p \in Plans \ {target} : depRef'[p] = depRef[p]
      /\ depRef'[target] >= 0 /\ consumer' = "notify"
  BY <1>2, <1>3, <1>5 DEF CounterTypes
<1>8. target \notin ToSet(readyQueue)
  BY <1>5 DEF ExactInv
<1>9. /\ readyQueue' \in Seq(Plans) /\ IsInjective(readyQueue')
      /\ ToSet(readyQueue') = IF depRef'[target] = 0 THEN ToSet(readyQueue) \cup {target}
                              ELSE ToSet(readyQueue)
  <2>1. CASE depRef'[target] = 0
    BY <1>2, <1>8, <2>1, PushProperties DEF CounterTypes, ExactInv
  <2>2. CASE depRef'[target] # 0
    BY <1>2, <2>2 DEF CounterTypes, ExactInv
  <2>3. QED BY <2>1, <2>2
<1>10. \A p : AtWork(p)' <=> AtWork(p)
  BY <1>2, <1>7 DEF AtWork
<1>11. Undone' = Undone
  BY <1>1, <1>3, <1>5, <1>7, <1>9, <1>10 DEF Undone
<1>12. \A p \in Plans : \A n \in Awaited(p) : Sent(n)' <=> Sent(n) \/ n = sent
  <2>1. SUFFICES ASSUME NEW p \in Plans, NEW n \in Awaited(p)
                 PROVE  Sent(n)' <=> Sent(n) \/ n = sent
    OBVIOUS
  <2>2. n[1] \in Plans /\ n[2] \in DOMAIN Notify(n[1]) /\ n = <<n[1], n[2]>>
    BY AwaitedMembers
  <2>3. n[2] \in Nat
    <3>1. DOMAIN Notify(n[1]) = 1..Len(Notify(n[1]))
      BY <2>2 DEF PlanInv
    <3>2. QED BY <2>2, <3>1
  <2>4. n = sent <=> n[1] = cur /\ n[2] = next
    BY <2>2
  <2>5. n[2] < next + 1 <=> n[2] < next \/ n[2] = next
    BY <1>3, <2>3
  <2>6. QED BY <1>2, <1>3, <1>7, <1>11, <2>4, <2>5 DEF Sent
<1>13. /\ Unsent(target)' = Unsent(target) \ {sent}
       /\ \A p \in Plans \ {target} : Unsent(p)' = Unsent(p)
  <2>1. Unsent(target)' = Unsent(target) \ {sent}
    BY <1>1, <1>3, <1>12 DEF Unsent
  <2>2. ASSUME NEW p \in Plans \ {target} PROVE Unsent(p)' = Unsent(p)
    <3>1. sent \notin Awaited(p)
      BY AwaitedMembers
    <3>2. QED BY <1>1, <1>12, <3>1 DEF Unsent
  <2>3. QED BY <2>1, <2>2
<1>14. Cardinality(Unsent(target)') = Cardinality(Unsent(target)) - 1
  BY <1>3, <1>4, <1>13, UnsentFinite, FS_RemoveElement
<1>15. \A p \in Plans : depRef'[p] = Cardinality(Unsent(p)')
  BY <1>3, <1>7, <1>13, <1>14 DEF ExactInv
<1>16. \A p \in ToSet(readyQueue') : depRef'[p] = 0 /\ ~AtWork(p)'
  <2>1. SUFFICES ASSUME NEW p \in ToSet(readyQueue') PROVE depRef'[p] = 0 /\ ~AtWork(p)'
    OBVIOUS
  <2>2. CASE p = target
    BY <1>2, <1>6, <1>8, <1>9, <1>10, <2>1, <2>2 DEF AtWork
  <2>3. CASE p # target
    <3>1. p \in ToSet(readyQueue)
      BY <1>9, <2>1, <2>3
    <3>a. ToSet(readyQueue) \subseteq Plans
      BY DEF CounterTypes, ToSet
    <3>2. QED BY <1>7, <1>10, <2>3, <3>1, <3>a DEF ExactInv
  <2>4. QED BY <2>2, <2>3
<1>17. CounterTypes'
  BY <1>1, <1>2, <1>3, <1>7, <1>9 DEF CounterTypes
<1>18. ExactInv'
  BY <1>1, <1>2, <1>3, <1>6, <1>7, <1>9, <1>11, <1>15, <1>16 DEF ExactInv
<1>19. QED BY <1>7, <1>17, <1>18

(* The plan at work has sent all its notifications and is done.            *)
LEMMA MarkDoneStep ==
    ASSUME PlanInv, CounterTypes, ExactInv, MarkDone, UNCHANGED planMap
    PROVE  CounterTypes' /\ ExactInv'
<1>1. /\ Plans' = Plans /\ \A p : Awaited(p)' = Awaited(p)
  BY PlansSame
<1>2. /\ consumer = "notify" /\ next > Len(Notify(cur))
      /\ refCount' = refCount - 1 /\ consumer' \in {"task", "aborted"}
      /\ UNCHANGED <<depRef, readyQueue, cur, next>>
  BY DEF MarkDone
<1>3. cur \in Plans /\ depRef[cur] = 0 /\ AtWork(cur) /\ cur \notin ToSet(readyQueue)
  BY <1>2 DEF CounterTypes, ExactInv, AtWork
<1>4. \A p : ~AtWork(p)' /\ (AtWork(p) <=> p = cur)
  BY <1>2 DEF AtWork
<1>5. Undone' = Undone \ {cur} /\ cur \in Undone
  BY <1>1, <1>2, <1>3, <1>4 DEF Undone
<1>6. Cardinality(Undone') = Cardinality(Undone) - 1
  BY <1>5, UndoneFinite, FS_RemoveElement
<1>7. \A p \in Plans : \A n \in Awaited(p) : Sent(n)' <=> Sent(n)
  <2>1. SUFFICES ASSUME NEW p \in Plans, NEW n \in Awaited(p) PROVE Sent(n)' <=> Sent(n)
    OBVIOUS
  <2>2. n[1] \in Plans /\ n[2] \in DOMAIN Notify(n[1])
    BY AwaitedMembers
  <2>3. n[1] = cur => n[2] < next
    <3>1. Len(Notify(cur)) \in Nat /\ DOMAIN Notify(cur) = 1..Len(Notify(cur))
      BY <1>3 DEF PlanInv
    <3>2. QED BY <1>2, <2>2, <3>1 DEF CounterTypes
  <2>4. QED BY <1>2, <1>3, <1>5, <2>3 DEF Sent
<1>8. \A p \in Plans : Unsent(p)' = Unsent(p)
  BY <1>1, <1>7 DEF Unsent
<1>9. CounterTypes'
  BY <1>1, <1>2 DEF CounterTypes
<1>10. ExactInv'
  BY <1>1, <1>2, <1>4, <1>6, <1>8 DEF ExactInv
<1>11. QED BY <1>9, <1>10

(* The next mini batch, or the first one after a reset.                    *)
LEMMA FreshStep ==
    ASSUME PlanInv, UNCHANGED <<planMap, next>>, next \in Nat \ {0},
           depRef' = FreshRefs, readyQueue' = FreshQueue,
           refCount' = Cardinality(Plans), consumer' \notin {"layer", "notify"}
    PROVE  CounterTypes' /\ ExactInv'
<1>1. /\ Plans' = Plans /\ PlanInv' /\ FreshRefs' = FreshRefs /\ Ready' = Ready
  BY PlansSame
<1>2. FreshState'
  BY <1>1, FreshQueueProperties DEF FreshState
<1>3. FreshState' => (ExactInv /\ depRef \in [Plans -> Int] /\ refCount \in Int)'
  BY FreshExact, PTL
<1>4. QED BY <1>1, <1>2, <1>3, FreshQueueProperties DEF CounterTypes

LEMMA CounterStep ==
    ASSUME NEW c, OneClient(c), HandlerInv(c), CounterInv(c), [Next]_vars
    PROVE  CounterInv(c)'
<1> c \in Clients /\ \A d \in Clients : d = c
  BY DEF OneClient
<1>1. UNCHANGED planMap /\ PlanInv /\ PlanInv' /\ Plans' = Plans
  BY NextKeepsPlans, PlansSame DEF CounterInv
<1>2. consumer \in Working \/ todo # <<>> => client[c] = "await"
  BY NothingPending
<1>3. /\ CounterTypes
      /\ client[c] = "resetPlan" => refCount = 0
      /\ client[c] # "resetPlan" => ExactInv
      /\ client \in [Clients -> ClientSteps]
  BY DEF CounterInv, HandlerInv
<1>4. CASE UNCHANGED vars
  <2>1. UNCHANGED <<depRef, readyQueue, refCount, cur, next, consumer, client>>
    BY <1>4 DEF vars, planVars, consumerVars, clientVars
  <2>2. CounterTypes'
    BY <1>1, <1>3, <2>1 DEF CounterTypes
  <2>3. ExactInv => ExactInv'
    BY <1>1, <2>1, ExactSame
  <2>4. QED BY <1>1, <1>3, <2>1, <2>2, <2>3 DEF CounterInv
<1>5. CASE Run(c) \/ GiveTask(c) \/ Reply(c)
  <2>1. UNCHANGED <<depRef, readyQueue, refCount, cur, next, consumer>>
    BY <1>5 DEF Run, GiveTask, Reply, planVars, consumerVars
  <2>2. client[c] # "resetPlan" /\ client'[c] # "resetPlan"
    BY <1>3, <1>5 DEF Run, GiveTask, Reply, Goto
  <2>3. CounterTypes'
    BY <1>1, <1>3, <2>1 DEF CounterTypes
  <2>4. ExactInv'
    BY <1>1, <1>3, <2>1, <2>2, ExactSame
  <2>5. QED BY <1>1, <2>2, <2>3, <2>4 DEF CounterInv
<1>6. CASE Reset(c) \/ MiniBatch(c)
  <2>1. UNCHANGED <<depRef, readyQueue, cur, next, consumer>> /\ refCount' = 0
    BY <1>6 DEF Reset, MiniBatch, consumerVars
  <2>2. client'[c] = "resetPlan"
    BY <1>3, <1>6 DEF Reset, MiniBatch, Goto
  <2>3. CounterTypes'
    BY <1>1, <1>3, <2>1 DEF CounterTypes
  <2>4. QED BY <1>1, <2>1, <2>2, <2>3 DEF CounterInv
<1>7. CASE ResetPlan(c)
  <2>1. client[c] = "resetPlan" /\ client'[c] # "resetPlan"
    BY <1>3, <1>7 DEF ResetPlan, Goto
  <2>2. /\ depRef' = FreshRefs /\ readyQueue' = FreshQueue
        /\ refCount' = 0 + Cardinality(Plans) /\ UNCHANGED <<next, consumer>>
    BY <1>3, <1>7, <2>1 DEF ResetPlan, consumerVars
  <2>3. refCount' = Cardinality(Plans)
    BY <1>1, <2>2, FS_CardinalityType DEF PlanInv
  <2>4. consumer \notin {"layer", "notify"}
    BY <1>2, <2>1 DEF Working
  <2>5. CounterTypes' /\ ExactInv'
    BY <1>1, <1>3, <2>2, <2>3, <2>4, FreshStep DEF CounterTypes
  <2>6. QED BY <1>1, <2>1, <2>5 DEF CounterInv
<1>8. CASE TaskConsumer
  <2>1. UNCHANGED client
    BY <1>8 DEF TaskConsumer, TakeTasks, PopPlan, NothingReady, RunLayer, NotifyFinish,
       MarkDone, PlansRemain, StopOnNanLoss, LastMiniBatch, NextMiniBatch, FinishTask,
       TasksSeenTo, clientVars
  <2>2. CASE PopPlan \/ RunLayer \/ NotifyFinish \/ MarkDone
    <3>1. client[c] # "resetPlan"
      BY <1>2, <2>2 DEF PopPlan, RunLayer, NotifyFinish, MarkDone, Working
    <3>2. CounterTypes' /\ ExactInv'
      BY <1>1, <1>3, <2>2, <3>1, PopPlanStep, RunLayerStep, NotifyFinishStep, MarkDoneStep
    <3>3. QED BY <1>1, <2>1, <3>1, <3>2 DEF CounterInv
  <2>3. CASE NextMiniBatch
    <3>1. client[c] # "resetPlan"
      BY <1>2, <2>3 DEF NextMiniBatch, Working
    <3>2. /\ depRef' = FreshRefs /\ readyQueue' = FreshQueue
          /\ refCount' = Cardinality(Plans) /\ consumer' = "task" /\ UNCHANGED next
      BY <2>3 DEF NextMiniBatch
    <3>3. CounterTypes' /\ ExactInv'
      BY <1>1, <1>3, <3>2, FreshStep DEF CounterTypes
    <3>4. QED BY <1>1, <2>1, <3>1, <3>3 DEF CounterInv
  <2>4. CASE \/ TakeTasks \/ NothingReady \/ PlansRemain \/ StopOnNanLoss
             \/ LastMiniBatch \/ FinishTask \/ TasksSeenTo
    <3>1. UNCHANGED <<depRef, readyQueue, refCount, cur, next>>
      BY <2>4 DEF TakeTasks, NothingReady, PlansRemain, StopOnNanLoss, LastMiniBatch,
                  FinishTask, TasksSeenTo, planVars
    <3>2. consumer \notin {"layer", "notify"} /\ consumer' \notin {"layer", "notify"}
      BY <2>4 DEF TakeTasks, NothingReady, PlansRemain, StopOnNanLoss, LastMiniBatch,
                  FinishTask, TasksSeenTo
    <3>3. CounterTypes'
      BY <1>1, <1>3, <3>1, <3>2 DEF CounterTypes
    <3>4. ExactInv => ExactInv'
      BY <1>1, <3>1, <3>2, ExactSame
    <3>5. QED BY <1>1, <1>3, <2>1, <3>1, <3>3, <3>4 DEF CounterInv
  <2>5. QED BY <1>8, <2>2, <2>3, <2>4 DEF TaskConsumer
<1>9. QED
  BY <1>4, <1>5, <1>6, <1>7, <1>8 DEF Next, Request, Handler

(* With one client the counters are exact whenever they are set up: by     *)
(* induction, with where its request is.                                   *)
LEMMA CountersSafe ==
    ASSUME NEW c, OneClient(c) PROVE Spec => [](HandlerInv(c) /\ CounterInv(c))
<1>1. Init => HandlerInv(c) /\ CounterInv(c)
  BY InitHandler, InitCounters
<1>2. HandlerInv(c) /\ CounterInv(c) /\ [Next]_vars => (HandlerInv(c) /\ CounterInv(c))'
  BY HandlerStep, CounterStep
<1>3. QED BY <1>1, <1>2, PTL DEF Spec

(* refCount is the number of plans that are not done, and a plan is queued *)
(* once, when everything it waits for is done: markDone and notifyFinish   *)
(* never fail an assertion, for whatever networks and requests.            *)
THEOREM PlansAreCounted == (\E c : OneClient(c)) => (Spec => []RefCountExact)
<1>1. SUFFICES ASSUME NEW c, OneClient(c) PROVE Spec => []RefCountExact
  OBVIOUS
<1>2. CounterInv(c) => RefCountExact
  BY <1>1 DEF CounterInv, ExactInv, RefCountExact, Resetting, OneClient
<1>3. Spec => [](HandlerInv(c) /\ CounterInv(c))
  BY <1>1, CountersSafe
<1>4. QED BY <1>2, <1>3, PTL

-----------------------------------------------------------------------------
(* The refinement.                                                         *)

(* The mini batch that is being run is one of those the network was built  *)
(* for.                                                                    *)
InfoInv ==
    /\ info \in [epoch : Nat, miniBatch : Nat, epochCount : Nat,
                 miniBatchCount : Nat, doneCount : Nat]
    /\ info.epoch < info.epochCount

LEMMA InitInfo == Init => InfoInv
<1>1. SUFFICES ASSUME Init PROVE InfoInv
  OBVIOUS
<1>2. info = [epoch |-> 0, miniBatch |-> 0, epochCount |-> Epochs,
              miniBatchCount |-> MiniBatches, doneCount |-> 0]
  BY <1>1 DEF Init
<1>3. QED BY <1>2, PlanAssumption DEF InfoInv

LEMMA MiniBatchAsked ==
    ASSUME NEW c \in Clients, HandlerInv(c), MiniBatch(c)
    PROVE  Head(script[c]).idx \in Nat
<1>1. script[c] \in Seq(Requests) /\ script[c] # <<>>
  BY DEF HandlerInv, MiniBatch
<1>2. Head(script[c]) \in Requests
  BY <1>1, HeadTailProperties
<1>3. Head(script[c]).op = "miniBatch"
  BY DEF MiniBatch
<1>4. QED BY <1>2, <1>3 DEF Requests, RunNetwork, ResetNetwork

(* At the end the indices stay where they are.                             *)
LEMMA LastMiniBatchKeeps ==
    ASSUME InfoInv, LastMiniBatch PROVE UNCHANGED info
<1>1. NextEpoch >= info.epochCount
  BY DEF LastMiniBatch
<1>2. /\ info.epoch \in Nat /\ info.epochCount \in Nat /\ info.miniBatchCount \in Nat
      /\ info.epoch < info.epochCount
  BY DEF InfoInv
<1>3. LastOfEpoch /\ NextEpoch = info.epoch + 1
  BY <1>1, <1>2 DEF NextEpoch
<1>4. info.miniBatch = info.miniBatchCount - 1 /\ NextEpoch - 1 = info.epoch
  BY <1>2, <1>3 DEF LastOfEpoch
<1>5. info' = [info EXCEPT !.epoch = NextEpoch - 1,
                           !.miniBatch = info.miniBatchCount - 1]
  BY DEF LastMiniBatch
<1>6. info' = [info EXCEPT !.epoch = info.epoch, !.miniBatch = info.miniBatch]
  BY <1>4, <1>5
<1>7. QED BY <1>6 DEF InfoInv

LEMMA InfoStep ==
    ASSUME NEW c, OneClient(c), HandlerInv(c), InfoInv, [Next]_vars PROVE InfoInv'
<1> c \in Clients /\ \A d \in Clients : d = c
  BY DEF OneClient
<1>1. CASE UNCHANGED info
  BY <1>1 DEF InfoInv
<1>2. CASE Reset(c)
  <2>1. info' = [info EXCEPT !.epoch = 0, !.miniBatch = 0, !.doneCount = 0]
    BY <1>2 DEF Reset
  <2>2. info \in [epoch : Nat, miniBatch : Nat, epochCount : Nat,
                  miniBatchCount : Nat, doneCount : Nat]
    BY DEF InfoInv
  <2>3. info' = [epoch |-> 0, miniBatch |-> 0, epochCount |-> info.epochCount,
                 miniBatchCount |-> info.miniBatchCount, doneCount |-> 0]
    BY <2>1, <2>2
  <2>4. 0 < info.epochCount /\ info.epochCount \in Nat /\ info.miniBatchCount \in Nat
    BY DEF InfoInv
  <2>5. QED BY <2>3, <2>4 DEF InfoInv
<1>3. CASE MiniBatch(c)
  <2>1. PICK idx \in Nat : idx = Head(script[c]).idx
    BY <1>3, MiniBatchAsked
  <2>2. info' = [info EXCEPT !.miniBatch = idx, !.epoch = 0, !.miniBatchCount = idx + 1,
                             !.epochCount = 1, !.doneCount = 0]
    BY <1>3, <2>1 DEF MiniBatch
  <2>3. info \in [epoch : Nat, miniBatch : Nat, epochCount : Nat,
                  miniBatchCount : Nat, doneCount : Nat]
    BY DEF InfoInv
  <2>4. info' = [epoch |-> 0, miniBatch |-> idx, epochCount |-> 1,
                 miniBatchCount |-> idx + 1, doneCount |-> 0]
    BY <2>2, <2>3
  <2>5. QED BY <2>4 DEF InfoInv
<1>4. CASE LastMiniBatch
  <2>1. UNCHANGED info
    BY <1>4, LastMiniBatchKeeps
  <2>2. QED BY <2>1 DEF InfoInv
<1>5. CASE NextMiniBatch
  <2>1. PICK m \in Nat : m = IF LastOfEpoch THEN 0 ELSE info.miniBatch + 1
    BY DEF InfoInv
  <2>2. NextEpoch \in Nat /\ NextEpoch < info.epochCount
    BY <1>5 DEF InfoInv, NextMiniBatch, NextEpoch
  <2>3. info' = [info EXCEPT !.epoch = NextEpoch, !.miniBatch = m]
    BY <1>5, <2>1 DEF NextMiniBatch
  <2>4. QED BY <2>2, <2>3 DEF InfoInv
<1>6. CASE FinishTask
  <2>1. info' = [info EXCEPT !.doneCount = @ + 1]
    BY <1>6 DEF FinishTask
  <2>2. QED BY <2>1 DEF InfoInv
<1>7. UNCHANGED info \/ Reset(c) \/ MiniBatch(c) \/ LastMiniBatch \/ NextMiniBatch
          \/ FinishTask
  <2>1. CASE UNCHANGED vars
    BY <2>1 DEF vars
  <2>2. CASE Request(c) \/ Handler(c)
    BY <2>2 DEF Request, Handler, Run, ResetPlan, GiveTask, Reply
  <2>3. CASE TaskConsumer
    BY <2>3 DEF TaskConsumer, TakeTasks, PopPlan, NothingReady, RunLayer, NotifyFinish,
       MarkDone, PlansRemain, StopOnNanLoss, TasksSeenTo
  <2>4. QED BY <2>1, <2>2, <2>3 DEF Next
<1>8. QED
  BY <1>1, <1>2, <1>3, <1>4, <1>5, <1>6, <1>7

SafeInv(c) == HandlerInv(c) /\ CounterInv(c) /\ InfoInv

LEMMA SafeInvHolds ==
    ASSUME NEW c, OneClient(c) PROVE Spec => []SafeInv(c)
<1>1. Init => InfoInv
  BY InitInfo
<1>2. HandlerInv(c) /\ CounterInv(c) /\ InfoInv /\ [Next]_vars => InfoInv'
  BY InfoStep
<1>3. Spec => [](HandlerInv(c) /\ CounterInv(c))
  BY CountersSafe
<1>4. QED BY <1>1, <1>2, <1>3, PTL DEF Spec, SafeInv

(* At the beginning of a mini batch no plan ran, ...                       *)
LEMMA FreshRan ==
    ASSUME FreshState PROVE Ran = {}
<1>1. \A p \in Plans : depRef[p] = DepCount(p) /\ DepCount(p) \in Nat
  BY DEF FreshState, FreshRefs, PlanInv
<1>2. \A p \in Plans : depRef[p] <= 0 => p \in ToSet(readyQueue)
  BY <1>1 DEF FreshState, Ready
<1>3. QED BY <1>2 DEF Ran

(* ... and at its end all did.                                             *)
LEMMA AllRan ==
    ASSUME PlanInv, CounterTypes, ExactInv, ~Resetting, refCount <= 0 PROVE Ran = Plans
<1>1. Undone = {}
  BY UndoneFinite, FS_EmptySet DEF ExactInv
<1>2. \A p \in Plans : ~(depRef[p] > 0) /\ p \notin ToSet(readyQueue) /\ ~AtWork(p)
  BY <1>1 DEF Undone
<1>3. \A p \in Plans : depRef[p] <= 0 /\ ~(cur = p /\ consumer = "layer")
  BY <1>2 DEF CounterTypes, AtWork
<1>4. QED BY <1>2, <1>3 DEF Ran

LEMMA RefinesInit ==
    ASSUME NEW c, OneClient(c) PROVE Init => Abstract!Init
<1>1. SUFFICES ASSUME Init PROVE Abstract!Init
  OBVIOUS
<1>2. info.epoch = 0 /\ info.miniBatch = 0 /\ depRef = FreshRefs /\ consumer = "idle"
  BY <1>1 DEF Init
<1>3. PlanInv /\ ToSet(readyQueue) = Ready
  BY <1>1, InitReady
<1>4. \A p \in Plans : depRef[p] <= 0 => p \in ToSet(readyQueue)
  BY <1>2, <1>3 DEF FreshRefs, PlanInv, Ready
<1>5. Ran = {}
  BY <1>4 DEF Ran
<1>6. QED BY <1>2, <1>5 DEF Abstract!Init

(* The plan that is run did not run in this mini batch, and those that     *)
(* notify it did.                                                          *)
LEMMA RunLayerRuns ==
    ASSUME PlanInv, CounterTypes, ExactInv, ~Resetting, RunLayer,
           UNCHANGED <<planMap, client>>
    PROVE  cur \in Plans \ Ran /\ Needs[cur] \subseteq Ran /\ Ran' = Ran \cup {cur}
<1>1. Plans' = Plans
  BY PlansSame
<1>2. /\ consumer = "layer" /\ consumer' = "notify"
      /\ UNCHANGED <<depRef, readyQueue, cur>>
  BY DEF RunLayer, planVars
<1>3. cur \in Plans /\ depRef[cur] = 0 /\ AtWork(cur) /\ cur \notin ToSet(readyQueue)
  BY <1>2 DEF CounterTypes, ExactInv, AtWork
<1>4. cur \notin Ran
  BY <1>2 DEF Ran
<1>5. Ran' = Ran \cup {cur}
  <2>1. ~Resetting'
    BY DEF Resetting
  <2>2. QED BY <1>1, <1>2, <1>3, <2>1 DEF Ran
<1>6. Needs[cur] \subseteq Ran
  <2>1. SUFFICES ASSUME NEW q \in Plans, cur \in ToSet(Notify(q)) PROVE q \in Ran
    BY <1>3 DEF Needs
  <2>2. PICK i \in DOMAIN Notify(q) : Notify(q)[i] = cur
    BY <2>1 DEF ToSet
  <2>3. <<q, i>> \in Awaited(cur)
    BY <1>3, <2>2, AwaitedMembers
  <2>4. Unsent(cur) = {}
    BY <1>3, UnsentFinite, FS_EmptySet DEF ExactInv
  <2>5. Sent(<<q, i>>)
    BY <2>3, <2>4 DEF Unsent
  <2>6. q \notin Undone
    BY <1>2, <2>5 DEF Sent
  <2>7. QED BY <1>2, <2>6 DEF Undone, AtWork, Ran, CounterTypes
<1>7. QED BY <1>3, <1>4, <1>5, <1>6

(* The steps that PlanSpec does not see.                                   *)
AbstractSame == UNCHANGED <<Plans, Needs, info.epoch, info.miniBatch,
                            info.miniBatchCount, Ran>>

LEMMA RanSame ==
    ASSUME UNCHANGED <<planMap, depRef, readyQueue, cur, client, info>>,
           consumer # "layer", consumer' # "layer"
    PROVE  AbstractSame
<1>1. Plans' = Plans /\ Needs' = Needs
  BY PlansSame
<1>2. Resetting' <=> Resetting
  BY DEF Resetting
<1>3. Ran' = Ran
  BY <1>1, <1>2 DEF Ran
<1>4. QED BY <1>1, <1>3 DEF AbstractSame

(* A plan that is notified waits until it is, and then is in the queue.    *)
LEMMA NotifyFinishStutters ==
    ASSUME PlanInv, CounterTypes, ExactInv, ~Resetting, NotifyFinish,
           UNCHANGED <<planMap, client>>
    PROVE  AbstractSame
<1>0. /\ consumer = "notify" /\ next <= Len(Notify(cur)) /\ next \in Nat \ {0}
      /\ cur \in Plans /\ Notify(cur) \in Seq(Plans)
  BY DEF NotifyFinish, CounterTypes, PlanInv
<1>a. next \in DOMAIN Notify(cur) /\ Notify(cur)[next] \in Plans
  BY <1>0
<1> PICK target \in Plans : target = Notify(cur)[next]
  BY <1>a
<1>1. Plans' = Plans /\ Needs' = Needs
  BY PlansSame
<1>2. /\ depRef' = [depRef EXCEPT ![target] = @ - 1]
      /\ readyQueue' = IF depRef'[target] = 0 THEN Append(readyQueue, target)
                       ELSE readyQueue
      /\ UNCHANGED <<cur, info>>
  BY DEF NotifyFinish
<1>3. consumer' = "notify"
  BY NotifyFinishStep
<1>4. depRef[target] \in Nat \ {0}
  <2>1. <<cur, next>> \in Awaited(target)
    BY <1>0, <1>a, AwaitedMembers
  <2>2. cur \in Undone /\ ~Sent(<<cur, next>>)
    BY <1>0 DEF Undone, AtWork, Sent
  <2>3. Unsent(target) # {}
    BY <2>1, <2>2 DEF Unsent
  <2>4. Cardinality(Unsent(target)) \in Nat \ {0}
    BY <2>3, UnsentFinite, FS_EmptySet
  <2>5. QED BY <2>4 DEF ExactInv
<1>5. /\ depRef'[target] = depRef[target] - 1
      /\ \A p \in Plans \ {target} : depRef'[p] = depRef[p]
  BY <1>2 DEF CounterTypes
<1>6. \A p \in Plans \ {target} : p \in ToSet(readyQueue') <=> p \in ToSet(readyQueue)
  <2>1. CASE depRef'[target] = 0
    <3>1. target \notin ToSet(readyQueue)
      BY <1>4 DEF ExactInv
    <3>2. ToSet(readyQueue') = ToSet(readyQueue) \cup {target}
      BY <1>2, <2>1, <3>1, PushProperties DEF CounterTypes, ExactInv
    <3>3. QED BY <3>2
  <2>2. CASE depRef'[target] # 0
    BY <1>2, <2>2
  <2>3. QED BY <2>1, <2>2
<1>7. ~(depRef[target] <= 0)
  BY <1>4
<1>8. depRef'[target] <= 0 => target \in ToSet(readyQueue')
  <2>1. SUFFICES ASSUME depRef'[target] <= 0 PROVE target \in ToSet(readyQueue')
    OBVIOUS
  <2>2. depRef'[target] = 0
    BY <1>4, <1>5, <2>1
  <2>3. target \notin ToSet(readyQueue)
    BY <1>4 DEF ExactInv
  <2>4. QED BY <1>2, <2>2, <2>3, PushProperties DEF CounterTypes, ExactInv
<1>9. ~Resetting'
  BY DEF Resetting
<1>10. Ran' = Ran
  BY <1>0, <1>1, <1>3, <1>5, <1>6, <1>7, <1>8, <1>9 DEF Ran
<1>11. QED BY <1>1, <1>2, <1>10 DEF AbstractSame

LEMMA PopPlanStutters ==
    ASSUME PlanInv, CounterTypes, ExactInv, ~Resetting, PopPlan,
           UNCHANGED <<planMap, client>>
    PROVE  AbstractSame
<1>1. Plans' = Plans /\ Needs' = Needs
  BY PlansSame
<1>2. /\ consumer = "task" /\ readyQueue # <<>> /\ consumer' = "layer"
      /\ cur' = Head(readyQueue) /\ readyQueue' = Tail(readyQueue)
      /\ UNCHANGED <<depRef, info>>
  BY DEF PopPlan
<1>3. ToSet(readyQueue) = {cur'} \cup ToSet(readyQueue')
  BY <1>2, PopProperties DEF CounterTypes, ExactInv
<1>4. ~Resetting'
  BY DEF Resetting
<1>5. Ran' = Ran
  BY <1>1, <1>2, <1>3, <1>4 DEF Ran
<1>6. QED BY <1>1, <1>2, <1>5 DEF AbstractSame

(* The next mini batch comes when all plans ran.                           *)
LEMMA NextMiniBatchIsNext ==
    ASSUME PlanInv, CounterTypes, ExactInv, InfoInv, ~Resetting, NextMiniBatch,
           UNCHANGED planMap
    PROVE  Abstract!NextBatch /\ Plans' = Plans /\ Needs' = Needs
<1>1. PlanInv' /\ Plans' = Plans /\ Needs' = Needs /\ FreshRefs' = FreshRefs
      /\ Ready' = Ready
  BY PlansSame
<1>2. refCount <= 0
  BY DEF NextMiniBatch
<1>3. Ran = Plans
  BY <1>2, AllRan
<1>4. Ran' = {}
  <2>1. /\ depRef' = FreshRefs /\ readyQueue' = FreshQueue
        /\ refCount' = Cardinality(Plans) /\ consumer' = "task"
    BY DEF NextMiniBatch
  <2>2. FreshState'
    BY <1>1, <2>1, FreshQueueProperties DEF FreshState
  <2>3. FreshState' => (Ran = {})'
    BY FreshRan, PTL
  <2>4. QED BY <2>2, <2>3
<1>5. info' = [info EXCEPT !.epoch = NextEpoch,
                           !.miniBatch = IF LastOfEpoch THEN 0 ELSE @ + 1]
  BY DEF NextMiniBatch
<1>6. /\ info'.epoch = NextEpoch
      /\ info'.miniBatch = IF LastOfEpoch THEN 0 ELSE info.miniBatch + 1
      /\ info'.miniBatchCount = info.miniBatchCount
  BY <1>5 DEF InfoInv
<1>7. QED
  BY <1>1, <1>3, <1>4, <1>6 DEF Abstract!NextBatch, NextEpoch, LastOfEpoch

(* A request starts over.                                                  *)
LEMMA RequestRestarts ==
    ASSUME NEW c, OneClient(c), HandlerInv(c), InfoInv, Reset(c) \/ MiniBatch(c)
    PROVE  Abstract!Restart
<1> c \in Clients
  BY DEF OneClient
<1>1. Ran' = {}
  <2>1. client'[c] = "resetPlan"
    BY DEF Reset, MiniBatch, Goto, HandlerInv
  <2>2. QED BY <2>1 DEF Resetting, Ran
<1>2. CASE Reset(c)
  <2>1. info' = [info EXCEPT !.epoch = 0, !.miniBatch = 0, !.doneCount = 0]
    BY <1>2 DEF Reset
  <2>2. /\ info'.epoch = 0 /\ info'.miniBatch = 0
        /\ info'.miniBatchCount = info.miniBatchCount
    BY <2>1 DEF InfoInv
  <2>3. QED BY <1>1, <2>2 DEF Abstract!Restart
<1>3. CASE MiniBatch(c)
  <2>1. PICK idx \in Nat : idx = Head(script[c]).idx
    BY <1>3, MiniBatchAsked
  <2>2. info' = [info EXCEPT !.miniBatch = idx, !.epoch = 0, !.miniBatchCount = idx + 1,
                             !.epochCount = 1, !.doneCount = 0]
    BY <1>3, <2>1 DEF MiniBatch
  <2>3. info'.epoch = 0 /\ info'.miniBatch = idx /\ info'.miniBatchCount = idx + 1
    BY <2>2 DEF InfoInv
  <2>4. info'.miniBatch = info'.miniBatchCount - 1
    BY <2>3
  <2>5. QED BY <1>1, <2>3, <2>4 DEF Abstract!Restart
<1>4. QED BY <1>2, <1>3

LEMMA ResetPlanStutters ==
    ASSUME NEW c, OneClient(c), SafeInv(c), ResetPlan(c), UNCHANGED planMap
    PROVE  AbstractSame
<1> c \in Clients /\ \A d \in Clients : d = c
  BY DEF OneClient
<1>1. /\ PlanInv /\ PlanInv' /\ Plans' = Plans /\ Needs' = Needs
      /\ FreshRefs' = FreshRefs /\ Ready' = Ready
  BY PlansSame DEF SafeInv, CounterInv
<1>2. client[c] = "resetPlan" /\ refCount = 0
  BY DEF ResetPlan, SafeInv, CounterInv
<1>3. Ran = {}
  BY <1>2 DEF Ran, Resetting
<1>4. consumer \notin {"layer", "notify"}
  BY <1>2, NothingPending DEF SafeInv, Working
<1>5. /\ depRef' = FreshRefs /\ readyQueue' = FreshQueue
      /\ refCount' = 0 + Cardinality(Plans) /\ UNCHANGED <<consumer, info>>
  BY <1>2 DEF ResetPlan, consumerVars
<1>6. refCount' = Cardinality(Plans)
  BY <1>1, <1>5, FS_CardinalityType DEF PlanInv
<1>7. FreshState'
  BY <1>1, <1>4, <1>5, <1>6, FreshQueueProperties DEF FreshState
<1>8. FreshState' => (Ran = {})'
  BY FreshRan, PTL
<1>9. QED BY <1>1, <1>3, <1>5, <1>7, <1>8 DEF AbstractSame

LEMMA RefinesNext ==
    ASSUME NEW c, OneClient(c), SafeInv(c), [Next]_vars
    PROVE  [Abstract!Next]_Abstract!vars
<1> c \in Clients /\ \A d \in Clients : d = c
  BY DEF OneClient
<1>1. UNCHANGED planMap /\ Plans' = Plans /\ Needs' = Needs
  BY NextKeepsPlans, PlansSame
<1>2. /\ PlanInv /\ CounterTypes /\ InfoInv /\ HandlerInv(c)
      /\ client[c] # "resetPlan" => ExactInv
      /\ Resetting <=> client[c] = "resetPlan"
  BY DEF SafeInv, CounterInv, Resetting
<1>3. AbstractSame => UNCHANGED Abstract!vars
  BY DEF AbstractSame, Abstract!vars
<1>4. consumer \in Working \/ todo # <<>> => ~Resetting /\ ExactInv
  BY <1>2, NothingPending
<1>5. CASE UNCHANGED vars
  <2>1. UNCHANGED <<info, depRef, readyQueue, cur, consumer, client>>
    BY <1>5 DEF vars, planVars, consumerVars, clientVars
  <2>2. Ran' = Ran
    BY <1>1, <2>1 DEF Ran, Resetting
  <2>3. QED BY <1>1, <1>3, <2>1, <2>2 DEF AbstractSame
<1>6. CASE Run(c) \/ GiveTask(c) \/ Reply(c)
  <2>1. UNCHANGED <<info, depRef, readyQueue, cur, consumer>>
    BY <1>6 DEF Run, GiveTask, Reply, planVars, consumerVars
  <2>2. ~Resetting /\ ~Resetting'
    BY <1>2, <1>6 DEF Run, GiveTask, Reply, Goto, HandlerInv, Resetting
  <2>3. Ran' = Ran
    BY <1>1, <2>1, <2>2 DEF Ran
  <2>4. QED BY <1>1, <1>3, <2>1, <2>3 DEF AbstractSame
<1>7. CASE Reset(c) \/ MiniBatch(c)
  <2>1. Abstract!Restart
    BY <1>2, <1>7, RequestRestarts
  <2>2. QED BY <1>1, <2>1 DEF Abstract!Next
<1>8. CASE ResetPlan(c)
  BY <1>1, <1>3, <1>8, ResetPlanStutters
<1>9. CASE TaskConsumer
  <2>1. UNCHANGED client
    BY <1>9 DEF TaskConsumer, TakeTasks, PopPlan, NothingReady, RunLayer, NotifyFinish,
       MarkDone, PlansRemain, StopOnNanLoss, LastMiniBatch, NextMiniBatch, FinishTask,
       TasksSeenTo, clientVars
  <2>2. CASE RunLayer
    <3>1. ~Resetting /\ ExactInv
      BY <1>4, <2>2 DEF RunLayer, Working
    <3>2. cur \in Plans \ Ran /\ Needs[cur] \subseteq Ran /\ Ran' = Ran \cup {cur}
      BY <1>1, <1>2, <2>1, <2>2, <3>1, RunLayerRuns
    <3>3. UNCHANGED info
      BY <2>2 DEF RunLayer
    <3>4. Abstract!Run(cur)
      BY <3>2, <3>3 DEF Abstract!Run
    <3>5. QED BY <1>1, <3>2, <3>4 DEF Abstract!Next
  <2>3. CASE NextMiniBatch
    <3>1. ~Resetting /\ ExactInv
      BY <1>4, <2>3 DEF NextMiniBatch, Working
    <3>2. Abstract!NextBatch
      BY <1>1, <1>2, <2>3, <3>1, NextMiniBatchIsNext
    <3>3. QED BY <1>1, <3>2 DEF Abstract!Next
  <2>4. CASE PopPlan \/ NotifyFinish
    <3>1. ~Resetting /\ ExactInv
      BY <1>4, <2>4 DEF PopPlan, NotifyFinish, Working
    <3>2. QED
      BY <1>1, <1>2, <1>3, <2>1, <2>4, <3>1, PopPlanStutters, NotifyFinishStutters
  <2>5. CASE \/ TakeTasks \/ NothingReady \/ MarkDone \/ PlansRemain \/ StopOnNanLoss
             \/ LastMiniBatch \/ TasksSeenTo
    <3>1. /\ UNCHANGED <<depRef, readyQueue, cur>>
          /\ consumer # "layer" /\ consumer' # "layer"
      BY <2>5 DEF TakeTasks, NothingReady, MarkDone, PlansRemain, StopOnNanLoss,
                  LastMiniBatch, TasksSeenTo, planVars
    <3>2. UNCHANGED info
      BY <1>2, <2>5, LastMiniBatchKeeps DEF TakeTasks, NothingReady, MarkDone,
         PlansRemain, StopOnNanLoss, TasksSeenTo
    <3>3. QED BY <1>1, <1>3, <2>1, <3>1, <3>2, RanSame
  <2>6. CASE FinishTask
    <3>1. /\ UNCHANGED <<depRef, readyQueue, cur>>
          /\ consumer # "layer" /\ consumer' # "layer"
          /\ info' = [info EXCEPT !.doneCount = @ + 1]
      BY <2>6 DEF FinishTask, planVars
    <3>2. UNCHANGED <<info.epoch, info.miniBatch, info.miniBatchCount>>
      BY <1>2, <3>1 DEF InfoInv
    <3>3. Ran' = Ran
      BY <1>1, <2>1, <3>1 DEF Ran, Resetting
    <3>4. QED BY <1>1, <1>3, <3>2, <3>3 DEF AbstractSame
  <2>7. QED BY <1>9, <2>2, <2>3, <2>4, <2>5, <2>6 DEF TaskConsumer
<1>10. QED
  BY <1>5, <1>6, <1>7, <1>8, <1>9 DEF Next, Request, Handler

(* Whatever the networks are, each plan runs once per mini batch, after    *)
(* all that notify it, and the mini batches come in order: the counters,   *)
(* the queue and generatePlan implement PlanSpec.                          *)
THEOREM PlansRefine == (\E c : OneClient(c)) => (Spec => ImplementsPlanSpec)
<1>1. SUFFICES ASSUME NEW c, OneClient(c) PROVE Spec => ImplementsPlanSpec
  OBVIOUS
<1>2. Init => Abstract!Init
  BY <1>1, RefinesInit
<1>3. SafeInv(c) /\ [Next]_vars => [Abstract!Next]_Abstract!vars
  BY <1>1, RefinesNext
<1>4. Spec => []SafeInv(c)
  BY <1>1, SafeInvHolds
<1>5. QED BY <1>2, <1>3, <1>4, PTL DEF Spec, ImplementsPlanSpec, Abstract!Spec
-----------------------------------------------------------------------------
(* The types of what is left.                                              *)

LEMMA SuffixElements ==
    ASSUME NEW X, NEW s \in Seq(X), NEW t \in Seq(X)
    PROVE  IsSuffix(s, t) <=>
              /\ Len(s) <= Len(t)
              /\ \A i \in 1..Len(s) : s[i] = t[Len(t) - Len(s) + i]
<1> DEFINE m == Len(s)
           n == Len(t)
           a == Reverse(s)
           b == Reverse(t)
<1>1. m \in Nat /\ n \in Nat
  OBVIOUS
<1>2. /\ a \in Seq(X) /\ Len(a) = m /\ \A i \in 1..m : a[i] = s[m - i + 1]
      /\ b \in Seq(X) /\ Len(b) = n /\ \A i \in 1..n : b[i] = t[n - i + 1]
  <2>1. a = [i \in 1..m |-> s[m - i + 1]] /\ b = [i \in 1..n |-> t[n - i + 1]]
    BY DEF Reverse
  <2>2. \A i \in 1..m : m - i + 1 \in 1..m /\ s[m - i + 1] \in X
    BY <1>1
  <2>3. \A i \in 1..n : n - i + 1 \in 1..n /\ t[n - i + 1] \in X
    BY <1>1
  <2>4. a \in [1..m -> X] /\ b \in [1..n -> X]
    BY <2>1, <2>2, <2>3
  <2>5. QED BY <1>1, <2>1, <2>4
<1> HIDE DEF a, b
<1>3. IsSuffix(s, t) <=> m <= n /\ SubSeq(a, 1, m) = SubSeq(b, 1, m)
  BY <1>2 DEF IsSuffix, IsPrefix, a, b
<1>4. ASSUME m <= n
      PROVE  SubSeq(a, 1, m) = SubSeq(b, 1, m) <=> \A i \in 1..m : a[i] = b[i]
  <2>1. /\ SubSeq(a, 1, m) \in Seq(X) /\ Len(SubSeq(a, 1, m)) = m
        /\ \A i \in 1..m : SubSeq(a, 1, m)[i] = a[i]
    BY <1>1, <1>2
  <2>2. /\ SubSeq(b, 1, m) \in Seq(X) /\ Len(SubSeq(b, 1, m)) = m
        /\ \A i \in 1..m : SubSeq(b, 1, m)[i] = b[i]
    BY <1>1, <1>2, <1>4
  <2>3. (\A i \in 1..m : a[i] = b[i]) => SubSeq(a, 1, m) = SubSeq(b, 1, m)
    BY <2>1, <2>2, SeqEqual
  <2>4. SubSeq(a, 1, m) = SubSeq(b, 1, m) => \A i \in 1..m : a[i] = b[i]
    BY <2>1, <2>2
  <2>5. QED BY <2>3, <2>4
<1>5. ASSUME m <= n
      PROVE  (\A i \in 1..m : a[i] = b[i]) <=> \A i \in 1..m : s[i] = t[n - m + i]
  <2>1. ASSUME \A i \in 1..m : a[i] = b[i], NEW i \in 1..m PROVE s[i] = t[n - m + i]
    <3>1. PICK j \in 1..m : j \in 1..n /\ m - j + 1 = i /\ n - j + 1 = n - m + i
      <4>1. m - i + 1 \in 1..m /\ m - i + 1 \in 1..n
        BY <1>1, <1>5
      <4>2. m - (m - i + 1) + 1 = i /\ n - (m - i + 1) + 1 = n - m + i
        BY <1>1
      <4>3. QED BY <4>1, <4>2
    <3>2. a[j] = s[m - j + 1] /\ b[j] = t[n - j + 1] /\ a[j] = b[j]
      BY <1>2, <2>1, <3>1
    <3>3. QED BY <3>1, <3>2
  <2>2. ASSUME \A i \in 1..m : s[i] = t[n - m + i], NEW i \in 1..m PROVE a[i] = b[i]
    <3>1. m - i + 1 \in 1..m /\ i \in 1..n
      BY <1>1, <1>5
    <3>2. s[m - i + 1] = t[n - m + (m - i + 1)]
      BY <2>2, <3>1
    <3>3. n - m + (m - i + 1) = n - i + 1
      BY <1>1
    <3>4. QED BY <1>2, <3>1, <3>2, <3>3
  <2>3. QED BY <2>1, <2>2
<1>6. QED BY <1>3, <1>4, <1>5

LEMMA TailOfSuffix ==
    ASSUME NEW X, NEW s \in Seq(X), NEW t \in Seq(X), s # <<>>, IsSuffix(s, t)
    PROVE  IsSuffix(Tail(s), t)
<1>1. /\ Tail(s) \in Seq(X) /\ Len(Tail(s)) = Len(s) - 1 /\ Len(s) \in Nat \ {0}
      /\ \A i \in 1..Len(Tail(s)) : Tail(s)[i] = s[i + 1]
  BY HeadTailProperties
<1>2. Len(s) <= Len(t) /\ \A i \in 1..Len(s) : s[i] = t[Len(t) - Len(s) + i]
  BY SuffixElements
<1>3. Len(Tail(s)) <= Len(t)
  BY <1>1, <1>2
<1>4. ASSUME NEW i \in 1..Len(Tail(s))
      PROVE  Tail(s)[i] = t[Len(t) - Len(Tail(s)) + i]
  <2>1. i + 1 \in 1..Len(s)
    BY <1>1
  <2>2. Tail(s)[i] = t[Len(t) - Len(s) + (i + 1)]
    BY <1>1, <1>2, <2>1
  <2>3. Len(t) - Len(s) + (i + 1) = Len(t) - Len(Tail(s)) + i
    BY <1>1
  <2>4. QED BY <2>2, <2>3
<1>5. QED BY <1>1, <1>3, <1>4, SuffixElements

RestInv(c) ==
    /\ network \in Networks
    /\ info.miniBatch < info.miniBatchCount
    /\ planTypeRC \in [PlanTypes -> Int]
    /\ cur \in Plans
    /\ consumer = "notify" => next <= Len(Notify(cur)) + 1
    /\ \E s \in Scripts : IsSuffix(script[c], s)
    /\ awake \in SUBSET Clients
    /\ trained \in Nat /\ stopped \in BOOLEAN

LEMMA FreshTypesNat ==
    ASSUME PlanInv PROVE FreshTypes \in [PlanTypes -> Nat]
<1>1. \A t \in PlanTypes : Cardinality({p \in Plans : PlanType(p) = t}) \in Nat
  <2>1. SUFFICES ASSUME NEW t \in PlanTypes
                 PROVE  Cardinality({p \in Plans : PlanType(p) = t}) \in Nat
    OBVIOUS
  <2>2. {p \in Plans : PlanType(p) = t} \in SUBSET Plans
    OBVIOUS
  <2>3. IsFiniteSet({p \in Plans : PlanType(p) = t})
    BY <2>2, FS_Subset DEF PlanInv
  <2>4. QED BY <2>3, FS_CardinalityType
<1>2. QED BY <1>1 DEF FreshTypes

LEMMA InitRest ==
    ASSUME NEW c, OneClient(c), Init PROVE RestInv(c)
<1>1. PlanInv
  BY InitPlans
<1>2. cur \in Plans
  BY <1>1 DEF Init, PlanInv
<1>3. \E s \in Scripts : IsSuffix(script[c], s)
  <2>1. script[c] \in Scripts /\ script[c] \in Seq(Requests)
    BY PlanAssumption DEF Init, OneClient
  <2>2. /\ Len(script[c]) \in Nat
        /\ \A i \in 1..Len(script[c]) : Len(script[c]) - Len(script[c]) + i = i
    BY <2>1
  <2>3. IsSuffix(script[c], script[c])
    BY <2>1, <2>2, SuffixElements
  <2>4. QED BY <2>1, <2>3
<1>4. planTypeRC \in [PlanTypes -> Int]
  BY <1>1, FreshTypesNat DEF Init
<1>5. info.miniBatch < info.miniBatchCount
  <2>1. info.miniBatch = 0 /\ info.miniBatchCount = MiniBatches
    BY DEF Init
  <2>2. QED BY <2>1, PlanAssumption
<1>6. QED BY <1>2, <1>3, <1>4, <1>5 DEF Init, RestInv

(* The values of the request's and of generatePlan's steps.                *)
LEMMA InfoValues ==
    ASSUME NEW c, OneClient(c), HandlerInv(c), InfoInv
    PROVE  /\ Reset(c) => info' = [epoch |-> 0, miniBatch |-> 0,
                 epochCount |-> info.epochCount,
                 miniBatchCount |-> info.miniBatchCount, doneCount |-> 0]
           /\ MiniBatch(c) => \E idx \in Nat : idx = Head(script[c]).idx
                 /\ info' = [epoch |-> 0, miniBatch |-> idx, epochCount |-> 1,
                             miniBatchCount |-> idx + 1, doneCount |-> 0]
           /\ NextMiniBatch => info' = [epoch |-> NextEpoch,
                 miniBatch |-> IF LastOfEpoch THEN 0 ELSE info.miniBatch + 1,
                 epochCount |-> info.epochCount,
                 miniBatchCount |-> info.miniBatchCount, doneCount |-> info.doneCount]
           /\ FinishTask => info' = [epoch |-> info.epoch, miniBatch |-> info.miniBatch,
                 epochCount |-> info.epochCount,
                 miniBatchCount |-> info.miniBatchCount,
                 doneCount |-> info.doneCount + 1]
<1> c \in Clients
  BY DEF OneClient
<1>0. info \in [epoch : Nat, miniBatch : Nat, epochCount : Nat,
                miniBatchCount : Nat, doneCount : Nat]
  BY DEF InfoInv
<1>1. ASSUME Reset(c)
      PROVE  info' = [epoch |-> 0, miniBatch |-> 0, epochCount |-> info.epochCount,
                      miniBatchCount |-> info.miniBatchCount, doneCount |-> 0]
  <2>1. info' = [info EXCEPT !.epoch = 0, !.miniBatch = 0, !.doneCount = 0]
    BY <1>1 DEF Reset
  <2>2. QED BY <1>0, <2>1
<1>2. ASSUME MiniBatch(c)
      PROVE  \E idx \in Nat : idx = Head(script[c]).idx
                 /\ info' = [epoch |-> 0, miniBatch |-> idx, epochCount |-> 1,
                             miniBatchCount |-> idx + 1, doneCount |-> 0]
  <2>1. PICK idx \in Nat : idx = Head(script[c]).idx
    BY <1>2, MiniBatchAsked
  <2>2. info' = [info EXCEPT !.miniBatch = idx, !.epoch = 0, !.miniBatchCount = idx + 1,
                             !.epochCount = 1, !.doneCount = 0]
    BY <1>2, <2>1 DEF MiniBatch
  <2>3. info' = [epoch |-> 0, miniBatch |-> idx, epochCount |-> 1,
                 miniBatchCount |-> idx + 1, doneCount |-> 0]
    BY <1>0, <2>2
  <2>4. QED BY <2>1, <2>3
<1>3. ASSUME NextMiniBatch
      PROVE  info' = [epoch |-> NextEpoch,
                 miniBatch |-> IF LastOfEpoch THEN 0 ELSE info.miniBatch + 1,
                 epochCount |-> info.epochCount,
                 miniBatchCount |-> info.miniBatchCount, doneCount |-> info.doneCount]
  <2>1. PICK m \in Nat : m = IF LastOfEpoch THEN 0 ELSE info.miniBatch + 1
    BY <1>0
  <2>2. info' = [info EXCEPT !.epoch = NextEpoch, !.miniBatch = m]
    BY <1>3, <2>1 DEF NextMiniBatch
  <2>3. info' = [epoch |-> NextEpoch, miniBatch |-> m, epochCount |-> info.epochCount,
                 miniBatchCount |-> info.miniBatchCount, doneCount |-> info.doneCount]
    BY <1>0, <2>2
  <2>4. QED BY <2>1, <2>3
<1>4. ASSUME FinishTask
      PROVE  info' = [epoch |-> info.epoch, miniBatch |-> info.miniBatch,
                 epochCount |-> info.epochCount,
                 miniBatchCount |-> info.miniBatchCount, doneCount |-> info.doneCount + 1]
  <2>1. info' = [info EXCEPT !.doneCount = @ + 1]
    BY <1>4 DEF FinishTask
  <2>2. QED BY <1>0, <2>1
<1>5. QED BY <1>1, <1>2, <1>3, <1>4

(* Who changes info.                                                       *)
LEMMA InfoChanges ==
    ASSUME NEW c, OneClient(c), InfoInv, [Next]_vars
    PROVE  UNCHANGED info \/ Reset(c) \/ MiniBatch(c) \/ NextMiniBatch \/ FinishTask
<1> c \in Clients /\ \A d \in Clients : d = c
  BY DEF OneClient
<1>1. CASE UNCHANGED vars
  BY <1>1 DEF vars
<1>2. CASE Request(c) \/ Handler(c)
  BY <1>2 DEF Request, Handler, Run, ResetPlan, GiveTask, Reply
<1>3. CASE TaskConsumer
  BY <1>3, LastMiniBatchKeeps DEF TaskConsumer, TakeTasks, PopPlan, NothingReady,
     RunLayer, NotifyFinish, MarkDone, PlansRemain, StopOnNanLoss, TasksSeenTo
<1>4. QED BY <1>1, <1>2, <1>3 DEF Next

LEMMA RestStep ==
    ASSUME NEW c, OneClient(c), SafeInv(c), RestInv(c), [Next]_vars PROVE RestInv(c)'
<1> c \in Clients /\ \A d \in Clients : d = c
  BY DEF OneClient
<1>1. /\ HandlerInv(c) /\ PlanInv /\ CounterTypes /\ InfoInv
      /\ UNCHANGED planMap /\ Plans' = Plans /\ \A p : Notify(p)' = Notify(p)
  BY NextKeepsPlans, PlansSame DEF SafeInv, CounterInv
<1>2. network' = network
  BY DEF Next, TaskConsumer, Request, Handler, vars, networkVars
<1>3. info'.miniBatch < info'.miniBatchCount
  <2>1. info.miniBatch \in Nat /\ info.miniBatchCount \in Nat
        /\ info.miniBatch < info.miniBatchCount
    BY <1>1 DEF InfoInv, RestInv
  <2>2. CASE UNCHANGED info
    BY <2>1, <2>2
  <2>3. CASE Reset(c)
    <3>1. info'.miniBatch = 0 /\ info'.miniBatchCount = info.miniBatchCount
      BY <1>1, <2>3, InfoValues
    <3>2. QED BY <2>1, <3>1
  <2>4. CASE MiniBatch(c)
    <3>1. PICK idx \in Nat : info'.miniBatch = idx /\ info'.miniBatchCount = idx + 1
      BY <1>1, <2>4, InfoValues
    <3>2. QED BY <3>1
  <2>5. CASE NextMiniBatch
    <3>1. /\ info'.miniBatch = IF LastOfEpoch THEN 0 ELSE info.miniBatch + 1
          /\ info'.miniBatchCount = info.miniBatchCount
      BY <1>1, <2>5, InfoValues
    <3>2. QED BY <2>1, <3>1 DEF LastOfEpoch
  <2>6. CASE FinishTask
    <3>1. info'.miniBatch = info.miniBatch /\ info'.miniBatchCount = info.miniBatchCount
      BY <1>1, <2>6, InfoValues
    <3>2. QED BY <2>1, <3>1
  <2>7. QED BY <1>1, <2>2, <2>3, <2>4, <2>5, <2>6, InfoChanges
<1>4. planTypeRC' \in [PlanTypes -> Int]
  <2>1. planTypeRC \in [PlanTypes -> Int] /\ FreshTypes \in [PlanTypes -> Nat]
    BY <1>1, FreshTypesNat DEF RestInv
  <2>2. CASE UNCHANGED planTypeRC
    BY <2>1, <2>2
  <2>3. CASE ResetPlan(c)
    <3>1. planTypeRC' = [t \in PlanTypes |-> planTypeRC[t] + FreshTypes[t]]
      BY <2>3 DEF ResetPlan
    <3>2. QED BY <2>1, <3>1
  <2>4. CASE NextMiniBatch
    <3>1. planTypeRC' = FreshTypes
      BY <2>4 DEF NextMiniBatch
    <3>2. QED BY <2>1, <3>1
  <2>5. CASE MarkDone
    <3>1. PICK t : t = PlanType(cur)
      OBVIOUS
    <3>2. planTypeRC' = [planTypeRC EXCEPT ![t] = @ - 1]
      BY <2>5, <3>1 DEF MarkDone
    <3>3. \A u \in PlanTypes : planTypeRC'[u] = IF u = t THEN planTypeRC[u] - 1
                                                 ELSE planTypeRC[u]
      BY <2>1, <3>2
    <3>4. \A u \in PlanTypes : planTypeRC[u] \in Int /\ planTypeRC[u] - 1 \in Int
      BY <2>1
    <3>5. \A u \in PlanTypes : planTypeRC'[u] \in Int
      BY <3>3, <3>4
    <3>6. planTypeRC' = [u \in PlanTypes |-> planTypeRC'[u]]
      BY <2>1, <3>2
    <3>7. QED BY <3>5, <3>6
  <2>6. UNCHANGED planTypeRC \/ ResetPlan(c) \/ NextMiniBatch \/ MarkDone
    BY DEF Next, Request, Handler, Run, Reset, MiniBatch, GiveTask, Reply, TaskConsumer,
       TakeTasks, PopPlan, NothingReady, RunLayer, NotifyFinish, PlansRemain,
       StopOnNanLoss, LastMiniBatch, FinishTask, TasksSeenTo, planVars, vars
  <2>7. QED BY <2>2, <2>3, <2>4, <2>5, <2>6
<1>5. /\ cur' \in Plans
      /\ consumer' = "notify" => next' <= Len(Notify(cur')) + 1
  <2>1. cur \in Plans /\ (consumer = "notify" => next <= Len(Notify(cur)) + 1)
        /\ next \in Nat \ {0} /\ \A p \in Plans : Len(Notify(p)) \in Nat
    BY <1>1 DEF RestInv, CounterTypes, PlanInv
  <2>2. CASE PopPlan
    BY <1>1, <2>2 DEF PopPlan, CounterTypes
  <2>3. CASE RunLayer
    BY <2>1, <2>3 DEF RunLayer
  <2>4. CASE NotifyFinish
    BY <2>1, <2>4 DEF NotifyFinish
  <2>5. CASE ~(PopPlan \/ RunLayer \/ NotifyFinish)
    <3>1. UNCHANGED <<cur, next>> /\ (consumer' = "notify" => consumer = "notify")
      BY <2>5 DEF Next, Request, Handler, Run, Reset, MiniBatch, ResetPlan, GiveTask,
         Reply, TaskConsumer, TakeTasks, NothingReady, MarkDone, PlansRemain,
         StopOnNanLoss, LastMiniBatch, NextMiniBatch, FinishTask, TasksSeenTo, vars,
         consumerVars
    <3>2. QED BY <2>1, <3>1
  <2>6. QED BY <2>2, <2>3, <2>4, <2>5
<1>6. \E s \in Scripts : IsSuffix(script'[c], s)
  <2>1. PICK s \in Scripts : IsSuffix(script[c], s)
    BY DEF RestInv
  <2>2. script[c] \in Seq(Requests) /\ s \in Seq(Requests)
        /\ script \in [Clients -> Seq(Requests)]
    BY <1>1, PlanAssumption DEF HandlerInv
  <2>3. CASE script' = script
    BY <2>1, <2>3
  <2>4. CASE script' # script
    <3>1. script' = [script EXCEPT ![c] = Tail(@)] /\ client[c] # "idle"
      BY <2>4 DEF Next, Request, Handler, Run, Reset, MiniBatch, ResetPlan, GiveTask,
         Reply, TaskConsumer, TakeTasks, PopPlan, NothingReady, RunLayer, NotifyFinish,
         MarkDone, PlansRemain, StopOnNanLoss, LastMiniBatch, NextMiniBatch, FinishTask,
         TasksSeenTo, vars, clientVars
    <3>2. script[c] # <<>> /\ script'[c] = Tail(script[c])
      BY <1>1, <2>2, <3>1 DEF HandlerInv
    <3>3. IsSuffix(script'[c], s)
      BY <2>1, <2>2, <3>2, TailOfSuffix
    <3>4. QED BY <3>3
  <2>5. QED BY <2>3, <2>4
<1>7. awake' \in SUBSET Clients
  <2>1. CASE FinishTask
    <3>1. todo \in Seq(Clients) /\ todo # <<>>
      BY <1>1, <2>1 DEF HandlerInv, FinishTask, Working
    <3>2. Head(todo) \in Clients
      BY <3>1
    <3>3. QED BY <2>1, <3>2 DEF FinishTask, RestInv
  <2>2. CASE ~FinishTask
    <3>1. awake' = awake \/ awake' = awake \ {c}
      BY <2>2 DEF Next, Request, Handler, Run, Reset, MiniBatch, ResetPlan, GiveTask,
         Reply, TaskConsumer, TakeTasks, PopPlan, NothingReady, RunLayer, NotifyFinish,
         MarkDone, PlansRemain, StopOnNanLoss, LastMiniBatch, NextMiniBatch,
         TasksSeenTo, vars
    <3>2. QED BY <3>1 DEF RestInv
  <2>3. QED BY <2>1, <2>2
<1>8. trained' \in Nat /\ stopped' \in BOOLEAN
  <2>1. \/ trained' = trained \/ trained' = trained + 1 \/ trained' = 0
    BY DEF Next, Request, Handler, Run, Reset, MiniBatch, ResetPlan, GiveTask,
         Reply, TaskConsumer, TakeTasks, PopPlan, NothingReady, RunLayer, NotifyFinish,
         MarkDone, PlansRemain, StopOnNanLoss, LastMiniBatch, NextMiniBatch, FinishTask,
         TasksSeenTo, vars, history
  <2>2. trained' \in Nat
    BY <2>1 DEF RestInv
  <2>3. CASE StopOnNanLoss
    <3>1. stopped' = TRUE
      BY <2>3 DEF StopOnNanLoss
    <3>2. QED BY <2>2, <3>1
  <2>4. CASE Reset(c) \/ MiniBatch(c)
    <3>1. stopped' = FALSE
      BY <2>4 DEF Reset, MiniBatch
    <3>2. QED BY <2>2, <3>1
  <2>5. CASE ~(StopOnNanLoss \/ Reset(c) \/ MiniBatch(c))
    <3>1. UNCHANGED stopped
      BY <2>5 DEF Next, Request, Handler, Run, ResetPlan, GiveTask,
         Reply, TaskConsumer, TakeTasks, PopPlan, NothingReady, RunLayer, NotifyFinish,
         MarkDone, PlansRemain, LastMiniBatch, NextMiniBatch, FinishTask,
         TasksSeenTo, vars, history
    <3>2. QED BY <2>2, <3>1, Zenon DEF RestInv
  <2>6. QED BY <2>3, <2>4, <2>5, Zenon
<1>9. QED
  BY <1>1, <1>2, <1>3, <1>4, <1>5, <1>6, <1>7, <1>8 DEF RestInv

LEMMA RestHolds ==
    ASSUME NEW c, OneClient(c) PROVE Spec => [](SafeInv(c) /\ RestInv(c))
<1>1. Init => RestInv(c)
  BY InitRest
<1>2. SafeInv(c) /\ RestInv(c) /\ [Next]_vars => RestInv(c)'
  BY RestStep
<1>3. Spec => []SafeInv(c)
  BY SafeInvHolds
<1>4. QED BY <1>1, <1>2, <1>3, PTL DEF Spec

(* The indices of a training stay within what the network was built for,   *)
(* the counters within their types, and a notification within its list.    *)
THEOREM TypesSafe == (\E c : OneClient(c)) => (Spec => []TypeOK)
<1>1. SUFFICES ASSUME NEW c, OneClient(c) PROVE Spec => []TypeOK
  OBVIOUS
<1>2. SafeInv(c) /\ RestInv(c) => TypeOK
  BY <1>1 DEF SafeInv, RestInv, TypeOK, HandlerInv, CounterInv, CounterTypes, InfoInv,
              PlanInv, Notify, OneClient
<1>3. Spec => [](SafeInv(c) /\ RestInv(c))
  BY <1>1, RestHolds
<1>4. QED BY <1>2, <1>3, PTL

-----------------------------------------------------------------------------
(* What a reply means.                                                     *)

(* RunNetworkMiniBatch leaves the network with the mini batches it was     *)
(* asked for: its client asks for whole runs before that.                  *)
RunsFirst(s) ==
    \A i, j \in DOMAIN s : s[i].op = "miniBatch" /\ s[j] = RunNetwork => j < i

(* The place of the mini batch among all of the training, and whether it   *)
(* was completed.                                                          *)
Number    == info.epoch * info.miniBatchCount + info.miniBatch
Completed == IF refCount = 0 THEN 1 ELSE 0

WillRun(c)      == \E i \in DOMAIN script[c] : script[c][i] = RunNetwork
OneMiniBatch(c) == client[c] # "idle" /\ Head(script[c]).op = "miniBatch"
AtEnd(c)        == consumer = "finish" \/ c \in awake

ScriptInv(c) ==
    /\ RunsFirst(script[c])
    /\ client[c] \in {"give", "await"} => Head(script[c]) # ResetNetwork
    /\ client[c] = "resetPlan" => Head(script[c]) # RunNetwork

(* As long as a run may follow, the network is as it was built, and the    *)
(* mini batches that were completed are those before this one.             *)
TrainedInv(c) ==
    /\ WillRun(c) => info.epochCount = Epochs /\ info.miniBatchCount = MiniBatches
    /\ WillRun(c) /\ client[c] = "resetPlan" =>
          trained = 0 /\ info.epoch = 0 /\ info.miniBatch = 0
    /\ WillRun(c) /\ client[c] # "resetPlan" /\ ~stopped => trained = Number + Completed
    /\ OneMiniBatch(c) =>
          /\ info.epochCount = 1 /\ info.epoch = 0
          /\ info.miniBatch = info.miniBatchCount - 1
    /\ OneMiniBatch(c) /\ client[c] = "resetPlan" => trained = 0
    /\ OneMiniBatch(c) /\ client[c] # "resetPlan" /\ ~stopped => trained = Completed
    /\ AtEnd(c) /\ ~stopped =>
          /\ refCount = 0
          /\ info.epoch = info.epochCount - 1 /\ info.miniBatch = info.miniBatchCount - 1

LEMMA RunsFirstOfTail ==
    ASSUME NEW s \in Seq(Requests), s # <<>>, RunsFirst(s) PROVE RunsFirst(Tail(s))
<1>1. /\ DOMAIN s = 1..Len(s) /\ DOMAIN Tail(s) = 1..Len(Tail(s))
      /\ Len(s) \in Nat \ {0} /\ Len(Tail(s)) = Len(s) - 1
      /\ \A i \in 1..Len(Tail(s)) : Tail(s)[i] = s[i + 1]
  BY HeadTailProperties
<1>2. SUFFICES ASSUME NEW i \in DOMAIN Tail(s), NEW j \in DOMAIN Tail(s),
                      Tail(s)[i].op = "miniBatch", Tail(s)[j] = RunNetwork
               PROVE  j < i
  BY DEF RunsFirst
<1>3. i + 1 \in DOMAIN s /\ j + 1 \in DOMAIN s /\ i \in Nat /\ j \in Nat
  BY <1>1
<1>4. s[i + 1].op = "miniBatch" /\ s[j + 1] = RunNetwork
  BY <1>1, <1>2
<1>5. j + 1 < i + 1
  BY <1>3, <1>4 DEF RunsFirst
<1>6. QED BY <1>3, <1>5

(* A request that was seen to is no reason to expect a run.                *)
LEMMA WillRunOfTail ==
    ASSUME NEW c, NEW s \in Seq(Requests), s = script[c], s # <<>>,
           script'[c] = Tail(s), WillRun(c)'
    PROVE  WillRun(c)
<1>1. /\ DOMAIN s = 1..Len(s) /\ DOMAIN Tail(s) = 1..Len(Tail(s))
      /\ Len(s) \in Nat \ {0} /\ Len(Tail(s)) = Len(s) - 1
      /\ \A i \in 1..Len(Tail(s)) : Tail(s)[i] = s[i + 1]
  BY HeadTailProperties
<1>2. PICK i \in DOMAIN Tail(s) : Tail(s)[i] = RunNetwork
  BY DEF WillRun
<1>3. i + 1 \in DOMAIN s /\ s[i + 1] = RunNetwork
  BY <1>1, <1>2
<1>4. QED BY <1>3 DEF WillRun

LEMMA InitTrained ==
    ASSUME NEW c, OneClient(c), Init, \A s \in Scripts : RunsFirst(s)
    PROVE  ScriptInv(c) /\ TrainedInv(c)
<1>1. PlanInv /\ refCount = Cardinality(Plans)
  BY InitPlans DEF Init
<1>2. refCount # 0
  BY <1>1, FS_EmptySet DEF PlanInv
<1>3. client[c] = "idle" /\ script[c] \in Scripts /\ consumer = "idle" /\ awake = {}
      /\ trained = 0
  BY DEF Init, OneClient
<1>4. info.epoch = 0 /\ info.miniBatch = 0 /\ info.epochCount = Epochs
      /\ info.miniBatchCount = MiniBatches
  BY DEF Init
<1>5. Number = 0
  BY <1>4, PlanAssumption DEF Number
<1>6. ScriptInv(c)
  BY <1>3 DEF ScriptInv
<1>7. TrainedInv(c)
  BY <1>2, <1>3, <1>4, <1>5 DEF TrainedInv, OneMiniBatch, AtEnd, Completed
<1>8. QED BY <1>6, <1>7

LEMMA ScriptStep ==
    ASSUME NEW c, OneClient(c), HandlerInv(c), ScriptInv(c), [Next]_vars
    PROVE  ScriptInv(c)'
<1> c \in Clients /\ \A d \in Clients : d = c
  BY DEF OneClient
<1>1. script \in [Clients -> Seq(Requests)] /\ client \in [Clients -> ClientSteps]
      /\ (client[c] # "idle" => script[c] # <<>>)
  BY DEF HandlerInv
<1>2. CASE UNCHANGED <<client, script>>
  BY <1>2 DEF ScriptInv
<1>3. CASE Run(c) \/ Reset(c) \/ MiniBatch(c)
  <2>1. UNCHANGED script /\ \/ client'[c] = "give" /\ Head(script[c]) = RunNetwork
                            \/ /\ client'[c] = "resetPlan"
                               /\ \/ Head(script[c]) = ResetNetwork
                                  \/ Head(script[c]).op = "miniBatch"
    BY <1>1, <1>3 DEF Run, Reset, MiniBatch, Goto
  <2>2. RunNetwork # ResetNetwork /\ RunNetwork.op # "miniBatch"
    BY DEF RunNetwork, ResetNetwork
  <2>3. QED BY <2>1, <2>2 DEF ScriptInv
<1>4. CASE (ResetPlan(c) /\ Head(script[c]) = ResetNetwork) \/ Reply(c)
  <2>1. client'[c] = "idle" /\ script'[c] = Tail(script[c]) /\ script[c] # <<>>
    BY <1>1, <1>4 DEF ResetPlan, Reply, Goto
  <2>2. RunsFirst(Tail(script[c]))
    BY <1>1, <2>1, RunsFirstOfTail DEF ScriptInv
  <2>3. QED BY <2>1, <2>2 DEF ScriptInv
<1>5. CASE (ResetPlan(c) /\ Head(script[c]) # ResetNetwork) \/ GiveTask(c)
  <2>1. client'[c] \in {"give", "await"} /\ UNCHANGED script
        /\ Head(script[c]) # ResetNetwork
    BY <1>1, <1>5 DEF ResetPlan, GiveTask, Goto, ScriptInv
  <2>2. QED BY <2>1 DEF ScriptInv
<1>6. TaskConsumer => UNCHANGED <<client, script>>
  BY DEF TaskConsumer, TakeTasks, PopPlan, NothingReady, RunLayer, NotifyFinish,
     MarkDone, PlansRemain, StopOnNanLoss, LastMiniBatch, NextMiniBatch, FinishTask,
     TasksSeenTo, clientVars
<1>7. UNCHANGED vars => UNCHANGED <<client, script>>
  BY DEF vars, clientVars
<1>8. QED
  BY <1>2, <1>3, <1>4, <1>5, <1>6, <1>7 DEF Next, Request, Handler

(* The steps that neither train nor ask for anything.                      *)
LEMMA TrainedSame ==
    ASSUME NEW c, TrainedInv(c),
           info'.epoch = info.epoch, info'.miniBatch = info.miniBatch,
           info'.epochCount = info.epochCount,
           info'.miniBatchCount = info.miniBatchCount,
           UNCHANGED <<refCount, trained, stopped>>,
           WillRun(c)' => WillRun(c), OneMiniBatch(c)' => OneMiniBatch(c),
           client'[c] = "resetPlan" <=> client[c] = "resetPlan",
           AtEnd(c)' => AtEnd(c)
    PROVE  TrainedInv(c)'
<1>1. Number' = Number /\ Completed' = Completed
  BY DEF Number, Completed
<1>2. QED BY <1>1 DEF TrainedInv

LEMMA NextRow == ASSUME NEW e \in Nat, NEW m \in Nat PROVE (e + 1) * m = e * m + m
OBVIOUS

LEMMA LastRow == ASSUME NEW e \in Nat \ {0}, NEW m \in Nat PROVE (e - 1) * m + m = e * m
<1>1. PICK d \in Nat : e = d + 1 /\ e - 1 = d
  <2>1. e - 1 \in Nat /\ e = (e - 1) + 1
    OBVIOUS
  <2>2. QED BY <2>1
<1>2. (d + 1) * m = d * m + m
  BY NextRow
<1>3. QED BY <1>1, <1>2

(* generatePlan goes on with the mini batch after this one.                *)
LEMMA NextNumber ==
    ASSUME NEW c, OneClient(c), HandlerInv(c), InfoInv, NextMiniBatch
    PROVE  /\ Number' = Number + 1
           /\ UNCHANGED <<info.epochCount, info.miniBatchCount>>
           /\ info.epochCount # 1 \/ info.epoch # 0
                \/ info.miniBatch # info.miniBatchCount - 1
<1>1. /\ info'.epoch = NextEpoch
      /\ info'.miniBatch = IF LastOfEpoch THEN 0 ELSE info.miniBatch + 1
      /\ info'.epochCount = info.epochCount
      /\ info'.miniBatchCount = info.miniBatchCount
  BY InfoValues
<1>2. /\ info.epoch \in Nat /\ info.miniBatch \in Nat /\ info.epochCount \in Nat
      /\ info.miniBatchCount \in Nat
  BY DEF InfoInv
<1>3. PICK e \in Nat, b \in Nat, m \in Nat :
         e = info.epoch /\ b = info.miniBatch /\ m = info.miniBatchCount
  BY <1>2
<1>4. Number = e * m + b /\ e * m \in Nat
  BY <1>3 DEF Number
<1>5. CASE LastOfEpoch
  <2>1. b = m - 1 /\ info'.epoch = e + 1 /\ info'.miniBatch = 0
    BY <1>1, <1>3, <1>5 DEF LastOfEpoch, NextEpoch
  <2>2. Number' = (e + 1) * m + 0
    BY <1>1, <1>3, <2>1 DEF Number
  <2>3. (e + 1) * m = e * m + m
    BY NextRow
  <2>4. Number' = Number + 1
    BY <1>4, <2>1, <2>2, <2>3
  <2>5. e + 1 < info.epochCount
    BY <1>3, <1>5 DEF NextMiniBatch, NextEpoch
  <2>6. QED BY <1>1, <1>2, <1>3, <2>4, <2>5
<1>6. CASE ~LastOfEpoch
  <2>1. b # m - 1 /\ info'.epoch = e /\ info'.miniBatch = b + 1
    BY <1>1, <1>3, <1>6 DEF LastOfEpoch, NextEpoch
  <2>2. Number' = e * m + (b + 1)
    BY <1>1, <1>3, <2>1 DEF Number
  <2>3. Number' = Number + 1
    BY <1>4, <2>2
  <2>4. QED BY <1>1, <1>3, <2>1, <2>3
<1>7. QED BY <1>5, <1>6

LEMMA TrainedStep ==
    ASSUME NEW c, OneClient(c), SafeInv(c), ScriptInv(c), TrainedInv(c), trained \in Nat,
           [Next]_vars
    PROVE  TrainedInv(c)'
<1> c \in Clients /\ \A d \in Clients : d = c
  BY DEF OneClient
<1>1. /\ HandlerInv(c) /\ PlanInv /\ InfoInv /\ CounterInv(c)
      /\ client \in [Clients -> ClientSteps] /\ script \in [Clients -> Seq(Requests)]
      /\ (client[c] # "idle" => script[c] # <<>>)
  BY DEF SafeInv, CounterInv, HandlerInv
<1>2. consumer \in Working \/ todo # <<>> \/ c \in awake => client[c] = "await"
  BY <1>1, NothingPending
<1>3. consumer \in Working => c \notin awake
  <2>1. ASSUME consumer \in Working, c \in awake PROVE FALSE
    <3>1. Len(tasks) \in Nat /\ Len(todo) \in Nat \ {0} /\ Len(remain) \in Nat
      BY <1>1, <2>1 DEF HandlerInv
    <3>2. Pending(c) <= 1
      BY <1>1, <1>2, <2>1 DEF HandlerInv
    <3>3. QED BY <2>1, <3>1, <3>2 DEF Pending
  <2>2. QED BY <2>1
<1>4. Cardinality(Plans) \in Nat \ {0}
  BY <1>1, FS_CardinalityType, FS_EmptySet DEF PlanInv
<1>5. CASE UNCHANGED vars
  BY <1>5, TrainedSame DEF vars, planVars, clientVars, consumerVars, history, WillRun,
                           OneMiniBatch, AtEnd
<1>6. CASE Run(c) \/ GiveTask(c)
  <2>1. /\ UNCHANGED <<info, refCount, trained, stopped, consumer, awake, script>>
        /\ client[c] # "resetPlan" /\ client'[c] \in {"give", "await"}
        /\ client[c] = "idle" => Head(script[c]) = RunNetwork
    BY <1>1, <1>6 DEF Run, GiveTask, Goto, planVars, consumerVars, history
  <2>2. RunNetwork.op # "miniBatch"
    BY DEF RunNetwork
  <2>3. OneMiniBatch(c)' => OneMiniBatch(c)
    BY <2>1, <2>2 DEF OneMiniBatch
  <2>4. (WillRun(c)' => WillRun(c)) /\ (AtEnd(c)' => AtEnd(c))
    BY <2>1 DEF WillRun, AtEnd
  <2>5. QED BY <2>1, <2>3, <2>4, TrainedSame
<1>7. CASE Reply(c)
  <2>1. /\ UNCHANGED <<info, refCount, trained, stopped, consumer>>
        /\ client[c] = "await" /\ client'[c] = "idle" /\ awake' = awake \ {c}
        /\ script'[c] = Tail(script[c])
    BY <1>1, <1>7 DEF Reply, Goto, planVars, consumerVars, history
  <2>2. ~OneMiniBatch(c)'
    BY <2>1 DEF OneMiniBatch
  <2>3. WillRun(c)' => WillRun(c)
    BY <1>1, <2>1, WillRunOfTail
  <2>4. AtEnd(c)' => AtEnd(c)
    BY <2>1 DEF AtEnd
  <2>5. QED BY <2>1, <2>2, <2>3, <2>4, TrainedSame
<1>8. CASE Reset(c)
  <2>1. /\ info'.epoch = 0 /\ info'.miniBatch = 0
        /\ UNCHANGED <<info.epochCount, info.miniBatchCount>>
    BY <1>1, <1>8, InfoValues
  <2>2. /\ client'[c] = "resetPlan" /\ UNCHANGED <<script, consumer, awake>>
        /\ trained' = 0 /\ Head(script[c]) = ResetNetwork /\ client[c] = "idle"
    BY <1>1, <1>8 DEF Reset, Goto, consumerVars
  <2>3. WillRun(c)' <=> WillRun(c)
    BY <2>2 DEF WillRun
  <2>4. ~OneMiniBatch(c)'
    BY <2>2 DEF OneMiniBatch, ResetNetwork
  <2>5. ~AtEnd(c)'
    BY <1>2, <2>2 DEF AtEnd, Working
  <2>6. QED BY <2>1, <2>2, <2>3, <2>4, <2>5 DEF TrainedInv
<1>9. CASE MiniBatch(c)
  <2>1. PICK idx \in Nat : info' = [epoch |-> 0, miniBatch |-> idx, epochCount |-> 1,
                                    miniBatchCount |-> idx + 1, doneCount |-> 0]
    BY <1>1, <1>9, InfoValues
  <2>2. /\ info'.epochCount = 1 /\ info'.epoch = 0
        /\ info'.miniBatch = info'.miniBatchCount - 1
    BY <2>1
  <2>3. /\ client'[c] = "resetPlan" /\ UNCHANGED <<script, consumer, awake>>
        /\ trained' = 0 /\ Head(script[c]).op = "miniBatch" /\ client[c] = "idle"
        /\ script[c] # <<>>
    BY <1>1, <1>9 DEF MiniBatch, Goto, consumerVars
  <2>4. ~WillRun(c)'
    <3>1. /\ 1 \in DOMAIN script[c] /\ Head(script[c]) = script[c][1]
          /\ \A j \in DOMAIN script[c] : ~(j < 1)
      BY <1>1, <2>3
    <3>2. \A j \in DOMAIN script[c] : script[c][j] # RunNetwork
      BY <2>3, <3>1 DEF ScriptInv, RunsFirst
    <3>3. QED BY <2>3, <3>2 DEF WillRun
  <2>5. ~AtEnd(c)'
    BY <1>2, <2>3 DEF AtEnd, Working
  <2>6. QED BY <2>2, <2>3, <2>4, <2>5 DEF TrainedInv
<1>10. CASE ResetPlan(c)
  <2>1. /\ UNCHANGED <<info, trained, consumer, awake>> /\ client[c] = "resetPlan"
        /\ refCount' = refCount + Cardinality(Plans)
        /\ refCount = 0
    BY <1>1, <1>10 DEF ResetPlan, consumerVars, history, CounterInv
  <2>2. Completed' = 0
    BY <1>4, <2>1 DEF Completed
  <2>3. /\ client'[c] # "resetPlan"
        /\ client'[c] # "idle" => UNCHANGED script
        /\ script' # script => script'[c] = Tail(script[c])
    BY <1>1, <1>10 DEF ResetPlan, Goto
  <2>4. WillRun(c)' => WillRun(c)
    <3>1. CASE script' = script
      BY <3>1 DEF WillRun
    <3>2. CASE script' # script
      BY <1>1, <2>1, <2>3, <3>2, WillRunOfTail
    <3>3. QED BY <3>1, <3>2
  <2>5. OneMiniBatch(c)' => OneMiniBatch(c)
    BY <2>1, <2>3 DEF OneMiniBatch
  <2>6. ~AtEnd(c)'
    BY <1>2, <2>1 DEF AtEnd, Working
  <2>7. WillRun(c) => Number' = 0 /\ trained = 0
    <3>1. info.miniBatchCount \in Nat
      BY <1>1 DEF InfoInv
    <3>2. WillRun(c) => info.epoch = 0 /\ info.miniBatch = 0 /\ trained = 0
      BY <2>1 DEF TrainedInv
    <3>3. QED BY <2>1, <3>1, <3>2 DEF Number
  <2>8. QED BY <2>1, <2>2, <2>3, <2>4, <2>5, <2>6, <2>7 DEF TrainedInv
<1>11. CASE TaskConsumer
  <2>1. UNCHANGED <<client, script>>
    BY <1>11 DEF TaskConsumer, TakeTasks, PopPlan, NothingReady, RunLayer, NotifyFinish,
       MarkDone, PlansRemain, StopOnNanLoss, LastMiniBatch, NextMiniBatch, FinishTask,
       TasksSeenTo, clientVars
  <2>2. (WillRun(c)' <=> WillRun(c)) /\ (OneMiniBatch(c)' <=> OneMiniBatch(c))
    BY <2>1 DEF WillRun, OneMiniBatch
  <2>3. consumer \in Working => client[c] = "await" /\ client'[c] = "await"
    BY <1>2, <2>1
  <2>4. CASE \/ TakeTasks \/ PopPlan \/ NothingReady \/ RunLayer \/ NotifyFinish
             \/ PlansRemain \/ TasksSeenTo
    <3>1. /\ UNCHANGED <<info, refCount, trained, stopped, awake>>
          /\ consumer' # "finish"
      BY <2>4 DEF TakeTasks, PopPlan, NothingReady, RunLayer, NotifyFinish, PlansRemain,
                  TasksSeenTo, planVars, history
    <3>2. QED BY <2>1, <2>2, <3>1, TrainedSame DEF AtEnd
  <2>5. CASE MarkDone
    <3>1. /\ UNCHANGED <<info, awake, stopped>> /\ consumer = "notify"
          /\ refCount' = refCount - 1 /\ consumer' # "finish"
          /\ trained' = IF refCount' = 0 THEN trained + 1 ELSE trained
      BY <2>5 DEF MarkDone
    <3>2. ~AtEnd(c)' /\ client[c] = "await"
      BY <1>2, <1>3, <3>1 DEF AtEnd, Working
    <3>3. refCount \in Nat \ {0}
      <4>1. ExactInv /\ CounterTypes
        BY <1>1, <3>2 DEF CounterInv
      <4>2. refCount = Cardinality(Undone) /\ cur \in Undone
        BY <3>1, <4>1 DEF ExactInv, CounterTypes, Undone, AtWork
      <4>3. QED BY <1>1, <4>2, UndoneFinite, FS_EmptySet
    <3>4. Completed = 0 /\ trained' = trained + Completed'
      BY <3>1, <3>3 DEF Completed
    <3>5. Number' = Number /\ Number \in Int
      BY <1>1, <3>1 DEF Number, InfoInv
    <3>6. WillRun(c) /\ ~stopped => trained' = Number' + Completed'
      <4>1. WillRun(c) /\ ~stopped => trained = Number + 0
        BY <3>2, <3>4 DEF TrainedInv
      <4>2. QED BY <3>4, <3>5, <4>1
    <3>7. OneMiniBatch(c) /\ ~stopped => trained' = Completed'
      <4>1. SUFFICES ASSUME OneMiniBatch(c), ~stopped PROVE trained' = Completed'
        OBVIOUS
      <4>2. trained = 0
        BY <3>2, <3>4, <4>1 DEF TrainedInv
      <4>3. PICK n \in Nat : n = Completed'
        BY DEF Completed
      <4>4. trained' = trained + n
        BY <3>4, <4>3, Zenon
      <4>5. trained' = n
        BY <4>2, <4>4
      <4>6. QED BY <4>3, <4>5, Zenon
    <3>8. QED BY <2>1, <2>2, <3>1, <3>2, <3>6, <3>7 DEF TrainedInv
  <2>6. CASE StopOnNanLoss
    <3>1. UNCHANGED info /\ stopped' = TRUE /\ consumer = "generate"
      BY <2>6 DEF StopOnNanLoss
    <3>2. client'[c] # "resetPlan"
      BY <2>3, <3>1 DEF Working
    <3>3. QED BY <2>2, <2>3, <3>1, <3>2 DEF TrainedInv, Working
  <2>7. CASE LastMiniBatch
    <3>1. UNCHANGED <<info, refCount, trained, stopped, awake>> /\ consumer = "generate"
      BY <1>1, <2>7, LastMiniBatchKeeps DEF LastMiniBatch, planVars, history
    <3>2. refCount = 0
      BY <1>1, <2>3, <2>7, <3>1, UndoneFinite DEF CounterInv, ExactInv, LastMiniBatch, Working
    <3>3. info.epoch = info.epochCount - 1 /\ info.miniBatch = info.miniBatchCount - 1
      <4>1. /\ NextEpoch >= info.epochCount /\ info.epoch < info.epochCount
            /\ info.epoch \in Nat /\ info.epochCount \in Nat
        BY <1>1, <2>7 DEF LastMiniBatch, InfoInv
      <4>2. QED BY <4>1 DEF NextEpoch, LastOfEpoch
    <3>4. Number' = Number /\ Completed' = Completed
      BY <3>1 DEF Number, Completed
    <3>5. QED BY <2>1, <2>2, <3>1, <3>2, <3>3, <3>4 DEF TrainedInv
  <2>8. CASE NextMiniBatch
    <3>1. /\ UNCHANGED <<trained, stopped, awake>> /\ consumer = "generate"
          /\ refCount' = Cardinality(Plans) /\ consumer' = "task" /\ refCount <= 0
      BY <2>8 DEF NextMiniBatch, history
    <3>2. refCount = 0
      BY <1>1, <2>3, <3>1, UndoneFinite DEF CounterInv, ExactInv, Working
    <3>3. Completed = 1 /\ Completed' = 0
      BY <1>4, <3>1, <3>2 DEF Completed
    <3>4. /\ Number' = Number + 1 /\ UNCHANGED <<info.epochCount, info.miniBatchCount>>
          /\ ~OneMiniBatch(c)
      BY <1>1, <2>8, NextNumber DEF TrainedInv
    <3>5. ~AtEnd(c)' /\ client[c] = "await"
      BY <1>3, <2>3, <3>1 DEF AtEnd, Working
    <3>6. Number \in Int
      BY <1>1 DEF Number, InfoInv
    <3>7. QED BY <2>1, <2>2, <3>1, <3>3, <3>4, <3>5, <3>6 DEF TrainedInv
  <2>9. CASE FinishTask
    <3>1. /\ info'.epoch = info.epoch /\ info'.miniBatch = info.miniBatch
          /\ info'.epochCount = info.epochCount
          /\ info'.miniBatchCount = info.miniBatchCount
      BY <1>1, <2>9, InfoValues
    <3>2. UNCHANGED <<refCount, trained, stopped>> /\ consumer = "finish"
      BY <2>9 DEF FinishTask, planVars, history
    <3>3. AtEnd(c)
      BY <3>2 DEF AtEnd
    <3>4. QED BY <2>1, <2>2, <3>1, <3>2, <3>3, TrainedSame
  <2>10. QED
    BY <1>11, <2>4, <2>5, <2>6, <2>7, <2>8, <2>9 DEF TaskConsumer
<1>12. QED
  BY <1>5, <1>6, <1>7, <1>8, <1>9, <1>10, <1>11 DEF Next, Request, Handler

(* A run is answered when every mini batch of every epoch was completed    *)
(* since the last reset, and a request for a mini batch when this one was; *)
(* unless the training was stopped: in the order of the requests that      *)
(* Network::runMiniBatch leaves room for.                                  *)
THEOREM RunsAreComplete ==
    ASSUME \E c : OneClient(c), \A s \in Scripts : RunsFirst(s)
    PROVE  Spec => []ReplyMeansTrained
<1>1. PICK c : OneClient(c)
  OBVIOUS
<1>2. Init => ScriptInv(c) /\ TrainedInv(c)
  BY <1>1, InitTrained
<1>3. /\ SafeInv(c) /\ RestInv(c) /\ ScriptInv(c) /\ TrainedInv(c) /\ [Next]_vars
      => (ScriptInv(c) /\ TrainedInv(c))'
  BY <1>1, ScriptStep, TrainedStep DEF SafeInv, RestInv
<1>4. SafeInv(c) /\ RestInv(c) /\ ScriptInv(c) /\ TrainedInv(c) => ReplyMeansTrained
  <2>1. SUFFICES ASSUME SafeInv(c), RestInv(c), ScriptInv(c), TrainedInv(c), c \in awake,
                        ~stopped
                 PROVE  trained = IF Head(script[c]) = RunNetwork
                                  THEN Epochs * MiniBatches ELSE 1
    BY <1>1 DEF ReplyMeansTrained, RestInv, OneClient
  <2>2. client[c] = "await" /\ script[c] # <<>> /\ script[c] \in Seq(Requests)
    BY <1>1, <2>1, NothingPending DEF SafeInv, HandlerInv, OneClient
  <2>3. /\ Completed = 1 /\ info.epoch = info.epochCount - 1
        /\ info.miniBatch = info.miniBatchCount - 1
    BY <2>1 DEF TrainedInv, AtEnd, Completed
  <2>4. CASE Head(script[c]) = RunNetwork
    <3>1. WillRun(c)
      BY <2>2, <2>4 DEF WillRun
    <3>2. /\ trained = Number + Completed
          /\ info.epochCount = Epochs /\ info.miniBatchCount = MiniBatches
      BY <2>1, <2>2, <3>1 DEF TrainedInv
    <3>3. Number = (Epochs - 1) * MiniBatches + (MiniBatches - 1)
      BY <2>3, <3>2 DEF Number
    <3>4. /\ (Epochs - 1) * MiniBatches \in Int
          /\ (Epochs - 1) * MiniBatches + MiniBatches = Epochs * MiniBatches
      BY PlanAssumption, LastRow
    <3>5. trained = Epochs * MiniBatches
      BY <2>3, <3>2, <3>3, <3>4, PlanAssumption
    <3>6. QED BY <2>4, <3>5
  <2>5. CASE Head(script[c]) # RunNetwork
    <3>1. Head(script[c]) \in Requests /\ Head(script[c]) # ResetNetwork
      BY <2>1, <2>2 DEF ScriptInv
    <3>2. Head(script[c]).op = "miniBatch"
      BY <2>5, <3>1 DEF Requests
    <3>3. OneMiniBatch(c)
      BY <2>2, <3>2 DEF OneMiniBatch
    <3>4. QED BY <2>1, <2>2, <2>3, <2>5, <3>3 DEF TrainedInv
  <2>6. QED BY <2>4, <2>5
<1>5. Spec => [](SafeInv(c) /\ RestInv(c))
  BY <1>1, RestHolds
<1>6. QED BY <1>2, <1>3, <1>4, <1>5, PTL DEF Spec

-----------------------------------------------------------------------------
(* When a layer is run: what comes before its plan.                        *)

(* A set of plans that has whoever notifies one of them.                   *)
Closed(net, S) ==
    \A q \in PlanIDs(net) : \A p \in S : p \in ToSet(NotifyList(net, q)) => q \in S

LEMMA BeforeForward ==
    ASSUME NEW net \in Networks, NEW S, Closed(net, S), NEW t,
           NEW j \in 1..Len(Writers(net, t)), Read(net, t) # {},
           ~(t \in SplitSet(net) /\ j = Len(Writers(net, t))),
           Forward(Readers(net, t)[j]) \in S
    PROVE  Forward(Writers(net, t)[j]) \in S
<1> DEFINE l == Writers(net, t)[j]
           p == Forward(Readers(net, t)[j])
<1>1. l \in Wrote(net, t)
  <2>1. Writers(net, t) \in Seq(Wrote(net, t))
    BY ReadersAndWriters
  <2>2. QED BY <2>1
<1>2. l \in DOMAIN net /\ t \in ToSet(net[l].outputs)
  BY <1>1 DEF Wrote
<1>3. p \in ToSet(ForwardTo(net, l, t))
  <2>1. ForwardTo(net, l, t) = <<p>>
    BY ForwardToIs
  <2>2. QED BY <2>1 DEF ToSet
<1> HIDE DEF l, p
<1>4. p \in ToSet(NotifyList(net, Forward(l))) /\ Forward(l) \in PlanIDs(net)
  BY <1>2, <1>3, ForwardNotifies, NotifyListIs
<1>5. p \in S
  BY DEF p
<1>6. QED BY <1>4, <1>5 DEF Closed, l

LEMMA BeforeSplit ==
    ASSUME NEW net \in Networks, NEW S, Closed(net, S), NEW s \in SplitIDs(net)
    PROVE  /\ Forward(s) \in S => Forward(SplitFront(net, s)) \in S
           /\ \A l \in ToSet(SplitBehind(net, s)) :
                 /\ Forward(l) \in S => Forward(s) \in S
                 /\ Backward(s) \in S => Backward(l) \in S
           /\ Backward(SplitFront(net, s)) \in S => Backward(s) \in S
<1> DEFINE t == TensorOf(net, s)
<1>1. /\ Shape(Readers(net, t), Writers(net, t))
      /\ SplitFront(net, s) = Writers(net, t)[Len(Writers(net, t))]
      /\ \A l : l \in ToSet(SplitBehind(net, s)) <=>
              \E a \in Len(Writers(net, t))..Len(Readers(net, t)) : l = Readers(net, t)[a]
  BY SplitLayer
<1>2. Len(Writers(net, t)) \in 1..Len(Writers(net, t))
      /\ Len(Writers(net, t))..Len(Readers(net, t)) \subseteq 1..Len(Readers(net, t))
  BY <1>1 DEF Shape
<1>3. SplitFront(net, s) \in DOMAIN net
  <2>1. Writers(net, t) \in Seq(Wrote(net, t))
    BY ReadersAndWriters
  <2>2. SplitFront(net, s) \in Wrote(net, t)
    BY <1>1, <1>2, <2>1
  <2>3. QED BY <2>2 DEF Wrote
<1>4. ASSUME NEW l \in ToSet(SplitBehind(net, s)) PROVE l \in DOMAIN net
  <2>1. PICK a \in 1..Len(Readers(net, t)) : l = Readers(net, t)[a]
    BY <1>1, <1>2
  <2>2. l \in Read(net, t)
    BY <2>1, ReaderAt
  <2>3. QED BY <2>2 DEF Read
<1>5. Forward(s) \in S => Forward(SplitFront(net, s)) \in S
  <2>1. Forward(s) \in ToSet(NotifyList(net, Forward(SplitFront(net, s))))
        /\ Forward(SplitFront(net, s)) \in PlanIDs(net)
    BY <1>3, ForwardNotifies, NotifyListIs
  <2>2. QED BY <2>1 DEF Closed
<1>6. ASSUME NEW l \in ToSet(SplitBehind(net, s))
      PROVE  /\ Forward(l) \in S => Forward(s) \in S
             /\ Backward(s) \in S => Backward(l) \in S
  <2>1. Forward(l) \in ToSet(SplitForwardNotify(net, s))
    BY DEF SplitForwardNotify, ToSet
  <2>2. Forward(l) \in ToSet(NotifyList(net, Forward(s))) /\ Forward(s) \in PlanIDs(net)
    BY <2>1, NotifyListIs
  <2>3. Backward(s) \in ToSet(NotifyList(net, Backward(l))) /\ Backward(l) \in PlanIDs(net)
    BY <1>4, BackwardNotifies, NotifyListIs
  <2>4. QED BY <2>2, <2>3 DEF Closed
<1>7. Backward(SplitFront(net, s)) \in S => Backward(s) \in S
  <2>1. Backward(SplitFront(net, s)) \in ToSet(NotifyList(net, Backward(s)))
        /\ Backward(s) \in PlanIDs(net)
    BY NotifyListIs DEF ToSet
  <2>2. QED BY <2>1 DEF Closed
<1>8. QED BY <1>5, <1>6, <1>7

LEMMA BeforeLoss ==
    ASSUME NEW net \in Networks, NEW S, Closed(net, S), NEW t, Read(net, t) = {},
           NEW l \in Wrote(net, t), Backward(l) \in S
    PROVE  Forward(l) \in S
<1>1. l \in DOMAIN net /\ t \in ToSet(net[l].outputs)
  BY DEF Wrote
<1>2. Readers(net, t) = <<>>
  BY ReadersAndWriters
<1>3. ForwardTo(net, l, t) = <<Backward(l)>>
  BY <1>2 DEF ForwardTo
<1>4. Backward(l) \in ToSet(ForwardTo(net, l, t))
  BY <1>3 DEF ToSet
<1>5. Backward(l) \in ToSet(NotifyList(net, Forward(l))) /\ Forward(l) \in PlanIDs(net)
  BY <1>1, <1>4, ForwardNotifies, NotifyListIs
<1>6. QED BY <1>5 DEF Closed

LEMMA BeforeBackward ==
    ASSUME NEW net \in Networks, NEW S, Closed(net, S), NEW l \in DOMAIN net,
           NEW i \in DOMAIN net[l].inputs, PropDown(net, l, i),
           NEW t, t = net[l].inputs[i], NEW a \in 1..Len(Readers(net, t)),
           l = Readers(net, t)[a], Wrote(net, t) # {},
           Backward(IF a = 1 THEN Writers(net, t)[1] ELSE Readers(net, t)[a - 1]) \in S
    PROVE  Backward(l) \in S
<1> DEFINE p == Backward(IF a = 1 THEN Writers(net, t)[1] ELSE Readers(net, t)[a - 1])
<1>1. IF a = 1 THEN Backward(Writers(net, t)[1]) \in ToSet(BackwardTo(net, l, i))
      ELSE Backward(Readers(net, t)[a - 1]) \in ToSet(BackwardTo(net, l, i))
  BY BackwardToIs
<1>2. p \in ToSet(BackwardTo(net, l, i))
  BY <1>1
<1>3. p \in S
  OBVIOUS
<1> HIDE DEF p
<1>4. p \in ToSet(NotifyList(net, Backward(l))) /\ Backward(l) \in PlanIDs(net)
  BY <1>2, BackwardNotifies, NotifyListIs
<1>5. QED BY <1>3, <1>4 DEF Closed

(* Those that write a tensor run one after the other, forward ...          *)
LEMMA WritersForward ==
    ASSUME NEW net \in Networks, NEW S, Closed(net, S), NEW t, NEW R, NEW W,
           R = Readers(net, t), W = Writers(net, t), Read(net, t) # {}, Shape(R, W),
           NEW j \in 1..Len(W), Forward(W[j]) \in S
    PROVE  \A i \in 1..j : Forward(W[i]) \in S
<1> DEFINE Bad == {d \in 0..(j - 1) : Forward(W[j - d]) \notin S}
<1>1. Len(W) \in Nat /\ Len(R) \in Nat /\ Len(W) <= Len(R) /\ j \in 1..Len(W)
  BY DEF Shape
<1>2. Bad = {}
  <2>1. SUFFICES ASSUME Bad # {} PROVE FALSE
    OBVIOUS
  <2>2. PICK d \in Bad : \A e \in Bad : d <= e
    <3>1. Bad \subseteq Nat
      OBVIOUS
    <3> HIDE DEF Bad
    <3>2. QED BY <2>1, <3>1, LeastOf
  <2>3. d \in 0..(j - 1) /\ Forward(W[j - d]) \notin S
    OBVIOUS
  <2>4. d # 0
    <3>1. j - 0 = j
      BY <1>1
    <3>2. QED BY <2>3, <3>1
  <2>5. d - 1 \in 0..(j - 1) /\ ~(d <= d - 1)
    BY <1>1, <2>3, <2>4
  <2>6. Forward(W[j - (d - 1)]) \in S
    <3>1. d - 1 \notin Bad
      <4> HIDE DEF Bad
      <4>1. QED BY <2>2, <2>5
    <3>2. QED BY <2>5, <3>1
  <2>7. /\ j - d \in 1..Len(W) /\ j - (d - 1) \in 2..Len(W) /\ j - (d - 1) - 1 = j - d
        /\ j - d # Len(W)
    BY <1>1, <2>3, <2>4
  <2>8. R[j - d] = W[j - (d - 1)]
    BY <2>7 DEF Shape
  <2>9. Forward(R[j - d]) \in S
    BY <2>6, <2>8
  <2>10. Forward(W[j - d]) \in S
    BY <2>7, <2>9, BeforeForward
  <2>11. QED BY <2>3, <2>10
<1>3. \A i \in 1..j : j - i \in 0..(j - 1) /\ j - (j - i) = i
  BY <1>1
<1>4. ASSUME NEW i \in 1..j PROVE Forward(W[i]) \in S
  <2>1. j - i \notin Bad
    <3> HIDE DEF Bad
    <3>1. QED BY <1>2
  <2>2. Forward(W[j - (j - i)]) \in S
    BY <1>3, <2>1
  <2>3. QED BY <1>3, <2>2
<1>5. QED BY <1>4

(* ... and backward, as those that work in place propagate.                *)
LEMMA WritersBackward ==
    ASSUME NEW net \in Networks, NEW S, Closed(net, S),
           NEW t, NEW R, NEW W, R = Readers(net, t), W = Writers(net, t),
           Wrote(net, t) # {}, Shape(R, W), NEW j \in 1..Len(W), Backward(W[j]) \in S
    PROVE  \A i \in j..Len(W) : Backward(W[i]) \in S
<1> DEFINE Bad == {i \in j..Len(W) : Backward(W[i]) \notin S}
<1>1. Len(W) \in Nat /\ Len(R) \in Nat /\ Len(W) <= Len(R) /\ j \in 1..Len(W)
  BY DEF Shape
<1>2. Bad = {}
  <2>1. SUFFICES ASSUME Bad # {} PROVE FALSE
    OBVIOUS
  <2>2. PICK i \in Bad : \A k \in Bad : i <= k
    <3>1. Bad \subseteq Nat
      BY <1>1
    <3> HIDE DEF Bad
    <3>2. QED BY <2>1, <3>1, LeastOf
  <2>3. i \in j..Len(W) /\ Backward(W[i]) \notin S
    OBVIOUS
  <2>4. i # j
    BY <2>3
  <2>5. i - 1 \in j..Len(W) /\ ~(i <= i - 1)
    BY <1>1, <2>3, <2>4
  <2>6. Backward(W[i - 1]) \in S
    <3>1. i - 1 \notin Bad
      <4> HIDE DEF Bad
      <4>1. QED BY <2>2, <2>5
    <3>2. QED BY <2>5, <3>1
  <2>7. PICK a \in 1..Len(R) : a = i - 1 /\ i \in 2..Len(W) /\ (a # 1 => a \in 2..Len(W))
    BY <1>1, <2>3, <2>4
  <2>8. R[a] = W[i] /\ (a # 1 => R[a - 1] = W[a])
    BY <2>7 DEF Shape
  <2>9. Backward(IF a = 1 THEN W[1] ELSE R[a - 1]) \in S
    BY <2>6, <2>7, <2>8
  <2>10. R[a] \in Read(net, t) /\ R[a] \in Wrote(net, t)
    <3>1. R[a] \in Read(net, t)
      BY <2>7, ReaderAt
    <3>2. W \in Seq(Wrote(net, t)) /\ i \in 1..Len(W)
      BY <1>1, <2>7, ReadersAndWriters
    <3>3. QED BY <2>8, <3>1, <3>2
  <2>11. R[a] \in DOMAIN net /\ t \in ToSet(net[R[a]].inputs) /\ t \in ToSet(net[R[a]].outputs)
    BY <2>10 DEF Read, Wrote
  <2>12. PICK k \in DOMAIN net[R[a]].inputs : net[R[a]].inputs[k] = t
    BY <2>11 DEF ToSet
  <2>13. PropDown(net, R[a], k)
    BY <2>11, <2>12, NetworkAssumption DEF WellFormed
  <2>14. Backward(R[a]) \in S
    BY <2>7, <2>9, <2>11, <2>12, <2>13, BeforeBackward
  <2>15. QED BY <2>3, <2>8, <2>14
<1>3. ASSUME NEW i \in j..Len(W) PROVE Backward(W[i]) \in S
  <2>1. i \notin Bad
    <3> HIDE DEF Bad
    <3>1. QED BY <1>2
  <2>2. QED BY <2>1
<1>4. QED BY <1>3

-----------------------------------------------------------------------------
(* The layers as their properties say.                                     *)

SplitsOf(net, l, t) ==
    {s \in SplitIDs(net) : TensorOf(net, s) = t /\ l \in ToSet(SplitBehind(net, s))}

LEMMA RenamedIs ==
    ASSUME NEW net \in Networks, NEW l, NEW t
    PROVE  /\ SplitsOf(net, l, t) = {} => Renamed(net, l, t) = <<t, 0>>
           /\ \A s \in SplitsOf(net, l, t) : \E i \in DOMAIN SplitBehind(net, s) :
                 /\ SplitBehind(net, s)[i] = l
                 /\ Renamed(net, l, t) = <<t, i>>
<1>1. Renamed(net, l, t) =
        IF SplitsOf(net, l, t) = {} THEN <<t, 0>>
        ELSE <<t, Position(SplitBehind(net, CHOOSE s \in SplitsOf(net, l, t) : TRUE), l)>>
  BY DEF Renamed, SplitsOf
<1>2. ASSUME NEW s \in SplitsOf(net, l, t)
      PROVE  \E i \in DOMAIN SplitBehind(net, s) :
                 SplitBehind(net, s)[i] = l /\ Renamed(net, l, t) = <<t, i>>
  <2>1. \A r \in SplitsOf(net, l, t) : r = s
    BY SplitIDsAre DEF SplitsOf
  <2>2. (CHOOSE r \in SplitsOf(net, l, t) : TRUE) = s
    BY <2>1
  <2>3. Renamed(net, l, t) = <<t, Position(SplitBehind(net, s), l)>>
    BY <1>1, <2>2
  <2>4. PICK i \in DOMAIN SplitBehind(net, s) : SplitBehind(net, s)[i] = l
    BY DEF SplitsOf, ToSet
  <2>5. Position(SplitBehind(net, s), l) = i
    BY <2>4, SplitBehindPlaces DEF SplitsOf
  <2>6. QED BY <2>3, <2>4, <2>5
<1>3. QED BY <1>1, <1>2

LEMMA LayersAre ==
    ASSUME NEW net \in Networks
    PROVE  DOMAIN WithSplits(net) = DOMAIN net \cup SplitIDs(net)
BY DEF WithSplits

LEMMA LayerIs ==
    ASSUME NEW net \in Networks, NEW all, all = WithSplits(net), NEW l \in DOMAIN net
    PROVE  /\ DOMAIN all[l].inputs = DOMAIN net[l].inputs
           /\ \A i \in DOMAIN net[l].inputs :
                 /\ all[l].inputs[i] = Renamed(net, l, net[l].inputs[i])
                 /\ all[l].propDown[i] = PropDown(net, l, i)
           /\ \A x : x \in ToSet(all[l].outputs) <=>
                      \E t \in ToSet(net[l].outputs) : x = <<t, 0>>
<1>1. all[l] =
        [inputs   |-> [i \in DOMAIN net[l].inputs |-> Renamed(net, l, net[l].inputs[i])],
         outputs  |-> [i \in DOMAIN net[l].outputs |-> <<net[l].outputs[i], 0>>],
         propDown |-> [i \in DOMAIN net[l].inputs |-> PropDown(net, l, i)]]
  BY DEF WithSplits
<1>2. QED BY <1>1 DEF ToSet

LEMMA LayerOfSplit ==
    ASSUME NEW net \in Networks, NEW all, all = WithSplits(net), NEW s \in SplitIDs(net)
    PROVE  /\ DOMAIN all[s].inputs = {1}
           /\ all[s].inputs[1] = <<TensorOf(net, s), 0>>
           /\ \A x : x \in ToSet(all[s].outputs) <=>
                 \E i \in DOMAIN SplitBehind(net, s) : x = <<TensorOf(net, s), i>>
<1>1. all[s] =
        [inputs   |-> << <<TensorOf(net, s), 0>> >>,
         outputs  |-> [i \in DOMAIN SplitBehind(net, s) |-> <<TensorOf(net, s), i>>],
         propDown |-> <<TRUE>>]
  BY SplitIDsAre DEF WithSplits
<1>2. DOMAIN << <<TensorOf(net, s), 0>> >> = {1}
  OBVIOUS
<1>3. QED BY <1>1, <1>2 DEF ToSet

-----------------------------------------------------------------------------
(* Which layers hand a tensor to which.                                    *)

(* k writes the tensor that l, which is not behind its split layer, reads. *)
Hands(net, k, l, t) ==
    /\ SplitsOf(net, l, t) = {}
    /\ k \in Wrote(net, t) /\ l \in Read(net, t)
    /\ \E i \in 1..Len(Writers(net, t)) : \E a \in i..Len(Writers(net, t)) :
          k = Writers(net, t)[i] /\ l = Readers(net, t)[a]

LEMMA NotBehind ==
    ASSUME NEW net \in Networks, NEW t, NEW a \in 1..Len(Readers(net, t)),
           Wrote(net, t) # {}, SplitsOf(net, Readers(net, t)[a], t) = {}
    PROVE  /\ a \in 1..Len(Writers(net, t))
           /\ ~(t \in SplitSet(net) /\ a = Len(Writers(net, t)))
<1>1. PICK R, W : R = Readers(net, t) /\ W = Writers(net, t)
  OBVIOUS
<1>2. R[a] \in Read(net, t)
  BY <1>1, ReaderAt
<1>3. Shape(R, W)
  BY <1>1, <1>2, TensorShape
<1>4. Len(R) \in Nat /\ Len(W) \in Nat /\ 1 <= Len(W) /\ Len(W) <= Len(R) /\ a \in 1..Len(R)
  BY <1>1, <1>3 DEF Shape
<1>5. CASE t \in SplitSet(net)
  <2>1. PICK s \in SplitIDs(net) : TensorOf(net, s) = t
    BY <1>5, SplitIDsAre
  <2>2. R[a] \notin ToSet(SplitBehind(net, s))
    BY <1>1, <2>1 DEF SplitsOf
  <2>3. a \notin Len(W)..Len(R)
    BY <1>1, <2>1, <2>2, SplitLayer
  <2>4. QED BY <1>1, <1>4, <2>3
<1>6. CASE t \notin SplitSet(net)
  <2>1. Len(W) = Len(R)
    BY <1>1, <1>2, <1>4, <1>6, SplitSetIs
  <2>2. QED BY <1>1, <1>4, <1>6, <2>1
<1>7. QED BY <1>5, <1>6

(* Neither is a layer that works in place, before the last that writes.    *)
LEMMA InPlaceNotBehind ==
    ASSUME NEW net \in Networks, NEW t, NEW b \in 1..(Len(Writers(net, t)) - 1),
           Shape(Readers(net, t), Writers(net, t))
    PROVE  SplitsOf(net, Readers(net, t)[b], t) = {}
<1>1. PICK R, W : R = Readers(net, t) /\ W = Writers(net, t)
  OBVIOUS
<1>2. Len(R) \in Nat /\ Len(W) \in Nat /\ Len(W) <= Len(R) /\ b \in 1..(Len(W) - 1)
  BY <1>1 DEF Shape
<1>3. SUFFICES ASSUME NEW s \in SplitIDs(net), TensorOf(net, s) = t,
                      R[b] \in ToSet(SplitBehind(net, s))
               PROVE  FALSE
  BY <1>1 DEF SplitsOf
<1>4. PICK a \in Len(W)..Len(R) : R[b] = R[a]
  BY <1>1, <1>3, SplitLayer
<1>5. a \in 1..Len(R) /\ b \in 1..Len(R) /\ b # a
  BY <1>2
<1>6. b = a
  BY <1>1, <1>4, <1>5, ReaderAt
<1>7. QED BY <1>5, <1>6

(* Of two layers that write and read a tensor, one hands it to the other,  *)
(* or it is the other one that works in place behind it.                   *)
LEMMA HandsOr ==
    ASSUME NEW net \in Networks, NEW t, NEW k \in Wrote(net, t), NEW l \in Read(net, t),
           SplitsOf(net, l, t) = {}, k # l
    PROVE  \/ Hands(net, k, l, t) /\ k < l
           \/ /\ l < k /\ l \in Wrote(net, t)
              /\ k \in Read(net, t) /\ SplitsOf(net, k, t) = {}
<1>1. PICK R, W : R = Readers(net, t) /\ W = Writers(net, t)
  OBVIOUS
<1>2. PICK i \in 1..Len(W), a \in 1..Len(R) : k = W[i] /\ l = R[a]
  BY <1>1, ReaderPlace, WriterPlace
<1>3. Shape(R, W)
  BY <1>1, TensorShape
<1>4. /\ Len(R) \in Nat /\ Len(W) \in Nat /\ Len(W) <= Len(R) /\ a \in 1..Len(W)
      /\ k \in Nat /\ l \in Nat
  <2>1. a \in 1..Len(W)
    BY <1>1, <1>2, NotBehind
  <2>2. QED BY <1>2, <1>3, <2>1 DEF Shape
<1>5. k < l <=> i <= a
  BY <1>2, <1>3, ShapeOrder
<1>6. CASE i <= a
  <2>1. a \in i..Len(W)
    BY <1>4, <1>6
  <2>2. QED BY <1>1, <1>2, <1>5, <1>6, <2>1 DEF Hands
<1>7. CASE ~(i <= a)
  <2>1. l < k
    BY <1>4, <1>5, <1>7
  <2>2. /\ a + 1 \in 2..Len(W) /\ a + 1 - 1 = a
        /\ i \in 2..Len(W) /\ i - 1 \in 1..(Len(W) - 1) /\ i - 1 \in 1..Len(R)
    BY <1>4, <1>7
  <2>3. l = W[a + 1] /\ k = R[i - 1]
    BY <1>2, <1>3, <2>2 DEF Shape
  <2>4. l \in Wrote(net, t)
    <3>1. W \in Seq(Wrote(net, t)) /\ a + 1 \in 1..Len(W)
      BY <1>1, <1>4, <2>2, ReadersAndWriters
    <3>2. QED BY <2>3, <3>1
  <2>5. k \in Read(net, t)
    BY <1>1, <2>2, <2>3, ReaderAt
  <2>6. SplitsOf(net, k, t) = {}
    BY <1>1, <1>3, <2>2, <2>3, InPlaceNotBehind
  <2>7. QED BY <2>1, <2>4, <2>5, <2>6
<1>8. QED BY <1>6, <1>7

Feeds(net, k, l) ==
    \/ k \in DOMAIN net /\ l \in DOMAIN net /\ \E t : Hands(net, k, l, t)
    \/ l \in SplitIDs(net) /\ k \in Wrote(net, TensorOf(net, l))
    \/ k \in SplitIDs(net) /\ l \in ToSet(SplitBehind(net, k))

(* The tensors that a layer reads and writes after the build: the outputs  *)
(* of a split layer have a number.                                         *)
LEMMA Outputs ==
    ASSUME NEW net \in Networks, NEW all, all = WithSplits(net), NEW l \in DOMAIN all, NEW x
    PROVE  x \in ToSet(all[l].outputs) <=>
              \/ l \in DOMAIN net /\ \E t : x = <<t, 0>> /\ l \in Wrote(net, t)
              \/ l \in SplitIDs(net) /\ \E b \in DOMAIN SplitBehind(net, l) :
                    x = <<TensorOf(net, l), b>>
<1>1. l \in DOMAIN net \/ l \in SplitIDs(net)
  BY LayersAre
<1>2. ~(l \in DOMAIN net /\ l \in SplitIDs(net))
  BY SplitIDsAre
<1>3. CASE l \in DOMAIN net
  <2>1. x \in ToSet(all[l].outputs) <=> \E t \in ToSet(net[l].outputs) : x = <<t, 0>>
    BY <1>3, LayerIs
  <2>2. QED BY <1>2, <1>3, <2>1 DEF Wrote
<1>4. CASE l \in SplitIDs(net)
  <2>1. x \in ToSet(all[l].outputs) <=>
            \E b \in DOMAIN SplitBehind(net, l) : x = <<TensorOf(net, l), b>>
    BY <1>4, LayerOfSplit
  <2>2. QED BY <1>2, <1>4, <2>1
<1>5. QED BY <1>1, <1>3, <1>4

LEMMA Inputs ==
    ASSUME NEW net \in Networks, NEW all, all = WithSplits(net), NEW l \in DOMAIN all,
           NEW i \in DOMAIN all[l].inputs
    PROVE  \/ /\ l \in SplitIDs(net)
              /\ all[l].inputs[i] = <<TensorOf(net, l), 0>>
           \/ /\ l \in DOMAIN net /\ i \in DOMAIN net[l].inputs
              /\ all[l].propDown[i] = PropDown(net, l, i)
              /\ l \in Read(net, net[l].inputs[i])
              /\ \/ /\ SplitsOf(net, l, net[l].inputs[i]) = {}
                    /\ all[l].inputs[i] = <<net[l].inputs[i], 0>>
                 \/ \E s \in SplitIDs(net) : \E b \in DOMAIN SplitBehind(net, s) :
                      /\ TensorOf(net, s) = net[l].inputs[i] /\ SplitBehind(net, s)[b] = l
                      /\ all[l].inputs[i] = <<net[l].inputs[i], b>> /\ b # 0
<1>1. CASE l \in SplitIDs(net)
  <2>1. DOMAIN all[l].inputs = {1} /\ all[l].inputs[1] = <<TensorOf(net, l), 0>>
    BY <1>1, LayerOfSplit
  <2>2. QED BY <1>1, <2>1
<1>2. CASE l \in DOMAIN net
  <2> DEFINE t == net[l].inputs[i]
  <2>1. /\ i \in DOMAIN net[l].inputs /\ all[l].inputs[i] = Renamed(net, l, t)
        /\ all[l].propDown[i] = PropDown(net, l, i)
    BY <1>2, LayerIs
  <2>2. l \in Read(net, t)
    BY <1>2, <2>1 DEF Read, ToSet
  <2> HIDE DEF t
  <2>3. CASE SplitsOf(net, l, t) = {}
    <3>1. Renamed(net, l, t) = <<t, 0>>
      BY <2>3, RenamedIs
    <3>2. QED BY <1>2, <2>1, <2>2, <2>3, <3>1 DEF t
  <2>4. CASE SplitsOf(net, l, t) # {}
    <3>1. PICK s \in SplitsOf(net, l, t) : TRUE
      BY <2>4
    <3>2. PICK b \in DOMAIN SplitBehind(net, s) :
             SplitBehind(net, s)[b] = l /\ Renamed(net, l, t) = <<t, b>>
      BY <3>1, RenamedIs
    <3>3. s \in SplitIDs(net) /\ TensorOf(net, s) = t
      BY <3>1 DEF SplitsOf
    <3>4. b # 0
      BY <3>3, SplitBehindPlaces
    <3>5. QED BY <1>2, <2>1, <2>2, <3>2, <3>3, <3>4 DEF t
  <2>5. QED BY <2>3, <2>4
<1>3. QED BY <1>1, <1>2, LayersAre

(* What a layer needs forward is what feeds it, ...                        *)
LEMMA NeedsFeed ==
    ASSUME NEW net \in Networks, NEW all, all = WithSplits(net), NEW l \in DOMAIN all,
           NEW k \in ForwardNeeds(all, l)
    PROVE  Feeds(net, k, l)
<1>1. /\ k \in DOMAIN all /\ k # l
      /\ \E x \in ToSet(all[l].inputs) \cap ToSet(all[k].outputs) :
            ~(x \in ToSet(all[l].outputs) /\ k > l)
  BY DEF ForwardNeeds
<1>2. PICK i \in DOMAIN all[l].inputs :
         /\ all[l].inputs[i] \in ToSet(all[k].outputs)
         /\ ~(all[l].inputs[i] \in ToSet(all[l].outputs) /\ k > l)
  BY <1>1 DEF ToSet
<1>3. PICK x : x = all[l].inputs[i]
  OBVIOUS
<1>4. CASE l \in SplitIDs(net) /\ x = <<TensorOf(net, l), 0>>
  <2>1. CASE k \in SplitIDs(net) /\ \E b \in DOMAIN SplitBehind(net, k) :
                 x = <<TensorOf(net, k), b>>
    <3>1. PICK b \in DOMAIN SplitBehind(net, k) : x = <<TensorOf(net, k), b>>
      BY <2>1
    <3>2. b # 0 /\ b = 0
      BY <1>4, <2>1, <3>1, SplitBehindPlaces
    <3>3. QED BY <3>2
  <2>2. CASE k \in DOMAIN net /\ \E t : x = <<t, 0>> /\ k \in Wrote(net, t)
    <3>1. k \in Wrote(net, TensorOf(net, l))
      BY <1>4, <2>2
    <3>2. QED BY <1>4, <3>1 DEF Feeds
  <2>3. QED BY <1>1, <1>2, <1>3, <2>1, <2>2, Outputs
<1>5. CASE /\ l \in DOMAIN net /\ i \in DOMAIN net[l].inputs
           /\ l \in Read(net, net[l].inputs[i])
           /\ SplitsOf(net, l, net[l].inputs[i]) = {}
           /\ x = <<net[l].inputs[i], 0>>
  <2> DEFINE t == net[l].inputs[i]
  <2>1. CASE k \in SplitIDs(net) /\ \E b \in DOMAIN SplitBehind(net, k) :
                 x = <<TensorOf(net, k), b>>
    <3>1. PICK b \in DOMAIN SplitBehind(net, k) : x = <<TensorOf(net, k), b>>
      BY <2>1
    <3>2. b # 0 /\ b = 0
      BY <1>5, <2>1, <3>1, SplitBehindPlaces
    <3>3. QED BY <3>2
  <2>2. CASE k \in DOMAIN net /\ \E u : x = <<u, 0>> /\ k \in Wrote(net, u)
    <3>1. k \in Wrote(net, t)
      BY <1>5, <2>2
    <3>2. CASE Hands(net, k, l, t)
      BY <1>5, <2>2, <3>2 DEF Feeds
    <3>3. CASE l < k /\ l \in Wrote(net, t)
      <4>1. x \in ToSet(all[l].outputs)
        BY <1>5, <3>3, Outputs
      <4>2. k > l
        <5>1. k \in Nat /\ l \in Nat
          BY <1>5, <2>2, LayersFinite
        <5>2. QED BY <3>3, <5>1
      <4>3. QED BY <1>2, <1>3, <4>1, <4>2
    <3>4. QED BY <1>1, <1>5, <3>1, <3>2, <3>3, HandsOr
  <2>3. QED BY <1>1, <1>2, <1>3, <2>1, <2>2, Outputs
<1>6. CASE /\ l \in DOMAIN net
           /\ \E s \in SplitIDs(net) : \E b \in DOMAIN SplitBehind(net, s) :
                 /\ SplitBehind(net, s)[b] = l /\ TensorOf(net, s) = net[l].inputs[i]
                 /\ x = <<net[l].inputs[i], b>> /\ b # 0
  <2>1. PICK s \in SplitIDs(net) : \E b \in DOMAIN SplitBehind(net, s) :
                 /\ SplitBehind(net, s)[b] = l /\ TensorOf(net, s) = net[l].inputs[i]
                 /\ x = <<net[l].inputs[i], b>> /\ b # 0
    BY <1>6
  <2>2. PICK b \in DOMAIN SplitBehind(net, s) :
                 /\ SplitBehind(net, s)[b] = l /\ TensorOf(net, s) = net[l].inputs[i]
                 /\ x = <<net[l].inputs[i], b>> /\ b # 0
    BY <2>1
  <2>3. l \in ToSet(SplitBehind(net, s))
    BY <2>2 DEF ToSet
  <2>4. CASE k \in DOMAIN net /\ \E u : x = <<u, 0>> /\ k \in Wrote(net, u)
    BY <2>2, <2>4
  <2>5. CASE k \in SplitIDs(net) /\ \E c \in DOMAIN SplitBehind(net, k) :
                 x = <<TensorOf(net, k), c>>
    <3>1. TensorOf(net, k) = TensorOf(net, s)
      BY <2>2, <2>5
    <3>2. k = s
      BY <2>5, <3>1, SplitIDsAre
    <3>3. QED BY <2>3, <2>5, <3>2 DEF Feeds
  <2>6. QED BY <1>1, <1>2, <1>3, <2>4, <2>5, Outputs
<1>7. \/ /\ l \in SplitIDs(net)
         /\ all[l].inputs[i] = <<TensorOf(net, l), 0>>
      \/ /\ l \in DOMAIN net /\ i \in DOMAIN net[l].inputs
         /\ l \in Read(net, net[l].inputs[i])
         /\ \/ /\ SplitsOf(net, l, net[l].inputs[i]) = {}
               /\ all[l].inputs[i] = <<net[l].inputs[i], 0>>
            \/ \E s \in SplitIDs(net) : \E b \in DOMAIN SplitBehind(net, s) :
                 /\ TensorOf(net, s) = net[l].inputs[i] /\ SplitBehind(net, s)[b] = l
                 /\ all[l].inputs[i] = <<net[l].inputs[i], b>> /\ b # 0
  BY Inputs
<1>8. QED BY <1>3, <1>4, <1>5, <1>6, <1>7

(* Who propagates a gradient to a layer is fed by it, in the first case by *)
(* the tensor that it propagates to.                                       *)
LEMMA PropagatesFeed ==
    ASSUME NEW net \in Networks, NEW all, all = WithSplits(net), NEW l \in DOMAIN all,
           NEW k \in BackwardNeeds(all, l)
    PROVE  \/ /\ k \in DOMAIN net /\ l \in DOMAIN net
              /\ \E i \in DOMAIN net[k].inputs :
                    PropDown(net, k, i) /\ Hands(net, l, k, net[k].inputs[i])
           \/ k \in SplitIDs(net) /\ l \in Wrote(net, TensorOf(net, k))
           \/ l \in SplitIDs(net) /\ k \in ToSet(SplitBehind(net, l))
<1>1. /\ k \in DOMAIN all /\ k # l
      /\ \E i \in DOMAIN all[k].inputs :
            /\ all[k].inputs[i] \in ToSet(all[l].outputs) /\ all[k].propDown[i]
            /\ ~(all[k].inputs[i] \in ToSet(all[l].inputs) /\ k < l)
  BY DEF BackwardNeeds
<1>2. PICK i \in DOMAIN all[k].inputs :
            /\ all[k].inputs[i] \in ToSet(all[l].outputs) /\ all[k].propDown[i]
            /\ ~(all[k].inputs[i] \in ToSet(all[l].inputs) /\ k < l)
  BY <1>1
<1>3. PICK x : x = all[k].inputs[i]
  OBVIOUS
<1>4. \/ /\ k \in SplitIDs(net)
         /\ all[k].inputs[i] = <<TensorOf(net, k), 0>>
      \/ /\ k \in DOMAIN net /\ i \in DOMAIN net[k].inputs
         /\ all[k].propDown[i] = PropDown(net, k, i)
         /\ k \in Read(net, net[k].inputs[i])
         /\ \/ /\ SplitsOf(net, k, net[k].inputs[i]) = {}
               /\ all[k].inputs[i] = <<net[k].inputs[i], 0>>
            \/ \E s \in SplitIDs(net) : \E b \in DOMAIN SplitBehind(net, s) :
                 /\ TensorOf(net, s) = net[k].inputs[i] /\ SplitBehind(net, s)[b] = k
                 /\ all[k].inputs[i] = <<net[k].inputs[i], b>> /\ b # 0
  BY <1>1, Inputs
<1>5. \/ l \in DOMAIN net /\ \E t : x = <<t, 0>> /\ l \in Wrote(net, t)
      \/ l \in SplitIDs(net) /\ \E b \in DOMAIN SplitBehind(net, l) :
            x = <<TensorOf(net, l), b>> /\ b # 0
  <2>1. x \in ToSet(all[l].outputs)
    BY <1>2, <1>3
  <2>2. \/ l \in DOMAIN net /\ \E t : x = <<t, 0>> /\ l \in Wrote(net, t)
        \/ l \in SplitIDs(net) /\ \E b \in DOMAIN SplitBehind(net, l) :
              x = <<TensorOf(net, l), b>>
    BY <2>1, Outputs
  <2>3. l \in SplitIDs(net) => \A b \in DOMAIN SplitBehind(net, l) : b # 0
    BY SplitBehindPlaces
  <2>4. QED BY <2>2, <2>3
<1>6. CASE k \in SplitIDs(net) /\ x = <<TensorOf(net, k), 0>>
  BY <1>5, <1>6
<1>7. CASE /\ k \in DOMAIN net /\ i \in DOMAIN net[k].inputs
           /\ PropDown(net, k, i) /\ k \in Read(net, net[k].inputs[i])
           /\ SplitsOf(net, k, net[k].inputs[i]) = {} /\ x = <<net[k].inputs[i], 0>>
  <2> DEFINE t == net[k].inputs[i]
  <2>1. l \in DOMAIN net /\ l \in Wrote(net, t)
    BY <1>5, <1>7
  <2>2. CASE Hands(net, l, k, t)
    BY <1>7, <2>1, <2>2
  <2>3. CASE k < l /\ l \in Read(net, t) /\ SplitsOf(net, l, t) = {}
    <3> HIDE DEF t
    <3>1. PICK j \in DOMAIN net[l].inputs : net[l].inputs[j] = t
      BY <2>3 DEF Read, ToSet
    <3>2. Renamed(net, l, t) = <<t, 0>>
      BY <2>3, RenamedIs
    <3>3. j \in DOMAIN all[l].inputs /\ all[l].inputs[j] = <<t, 0>>
      BY <2>1, <3>1, <3>2, LayerIs
    <3>4. <<t, 0>> \in ToSet(all[l].inputs)
      BY <3>3 DEF ToSet
    <3>5. QED BY <1>2, <1>3, <1>7, <2>3, <3>4 DEF t
  <2>4. QED BY <1>1, <1>7, <2>1, <2>2, <2>3, HandsOr
<1>8. CASE /\ k \in DOMAIN net
           /\ \E s \in SplitIDs(net) : \E b \in DOMAIN SplitBehind(net, s) :
                 /\ TensorOf(net, s) = net[k].inputs[i] /\ SplitBehind(net, s)[b] = k
                 /\ x = <<net[k].inputs[i], b>> /\ b # 0
  <2>1. PICK s \in SplitIDs(net) : \E b \in DOMAIN SplitBehind(net, s) :
                 /\ TensorOf(net, s) = net[k].inputs[i] /\ SplitBehind(net, s)[b] = k
                 /\ x = <<net[k].inputs[i], b>> /\ b # 0
    BY <1>8
  <2>2. PICK b \in DOMAIN SplitBehind(net, s) :
                 /\ TensorOf(net, s) = net[k].inputs[i] /\ SplitBehind(net, s)[b] = k
                 /\ x = <<net[k].inputs[i], b>> /\ b # 0
    BY <2>1
  <2>3. k \in ToSet(SplitBehind(net, s))
    BY <2>2 DEF ToSet
  <2>4. l \in SplitIDs(net) /\ TensorOf(net, l) = TensorOf(net, s)
    BY <1>5, <2>2
  <2>5. l = s
    BY <2>4, SplitIDsAre
  <2>6. QED BY <2>3, <2>4, <2>5
<1>9. QED
  <2>1. \/ /\ k \in SplitIDs(net) /\ x = <<TensorOf(net, k), 0>>
        \/ /\ k \in DOMAIN net /\ i \in DOMAIN net[k].inputs
           /\ PropDown(net, k, i)
           /\ k \in Read(net, net[k].inputs[i])
           /\ \/ /\ SplitsOf(net, k, net[k].inputs[i]) = {}
                 /\ x = <<net[k].inputs[i], 0>>
              \/ \E s \in SplitIDs(net) : \E b \in DOMAIN SplitBehind(net, s) :
                   /\ TensorOf(net, s) = net[k].inputs[i] /\ SplitBehind(net, s)[b] = k
                   /\ x = <<net[k].inputs[i], b>> /\ b # 0
    BY <1>2, <1>3, <1>4
  <2>2. QED BY <1>6, <1>7, <1>8, <2>1

LEMMA ForwardCovered ==
    ASSUME NEW net \in Networks, NEW S, Closed(net, S), NEW k, NEW l, Feeds(net, k, l),
           Forward(l) \in S
    PROVE  Forward(k) \in S
<1>1. CASE k \in DOMAIN net /\ l \in DOMAIN net /\ \E t : Hands(net, k, l, t)
  <2>1. PICK t : Hands(net, k, l, t)
    BY <1>1
  <2>2. PICK R, W : R = Readers(net, t) /\ W = Writers(net, t)
    OBVIOUS
  <2>3. /\ SplitsOf(net, l, t) = {} /\ Wrote(net, t) # {} /\ Read(net, t) # {}
        /\ \E i \in 1..Len(W) : \E a \in i..Len(W) : k = W[i] /\ l = R[a]
    BY <2>1, <2>2 DEF Hands
  <2>4. PICK i \in 1..Len(W) : \E a \in i..Len(W) : k = W[i] /\ l = R[a]
    BY <2>3
  <2>5. PICK a \in i..Len(W) : k = W[i] /\ l = R[a]
    BY <2>4
  <2>6. Shape(R, W)
    BY <2>2, <2>3, TensorShape
  <2>7. a \in 1..Len(R) /\ a \in 1..Len(W) /\ i \in 1..a
    BY <2>6 DEF Shape
  <2>8. ~(t \in SplitSet(net) /\ a = Len(W))
    BY <2>2, <2>3, <2>5, <2>7, NotBehind
  <2>9. Forward(W[a]) \in S
    BY <2>2, <2>3, <2>5, <2>7, <2>8, BeforeForward
  <2>10. Forward(W[i]) \in S
    BY <2>2, <2>3, <2>6, <2>7, <2>9, WritersForward
  <2>11. QED BY <2>5, <2>10
<1>2. CASE l \in SplitIDs(net) /\ k \in Wrote(net, TensorOf(net, l))
  <2>1. PICK t, R, W : t = TensorOf(net, l) /\ R = Readers(net, t) /\ W = Writers(net, t)
    OBVIOUS
  <2>2. Shape(R, W) /\ Len(W) < Len(R) /\ SplitFront(net, l) = W[Len(W)]
    BY <1>2, <2>1, SplitLayer
  <2>3. Read(net, t) # {} /\ Len(W) \in 1..Len(W)
    <3>1. 1 \in 1..Len(R) /\ Len(W) \in 1..Len(W)
      BY <2>2 DEF Shape
    <3>2. QED BY <2>1, <3>1, ReaderAt
  <2>4. Forward(W[Len(W)]) \in S
    BY <1>2, <2>2, BeforeSplit
  <2>5. PICK i \in 1..Len(W) : k = W[i]
    BY <1>2, <2>1, WriterPlace
  <2>6. QED BY <2>1, <2>2, <2>3, <2>4, <2>5, WritersForward
<1>3. CASE k \in SplitIDs(net) /\ l \in ToSet(SplitBehind(net, k))
  BY <1>3, BeforeSplit
<1>4. QED BY <1>1, <1>2, <1>3 DEF Feeds

LEMMA BackwardCovered ==
    ASSUME NEW net \in Networks, NEW S, Closed(net, S),
           NEW all, all = WithSplits(net), NEW l \in DOMAIN all, Backward(l) \in S,
           NEW k \in BackwardNeeds(all, l)
    PROVE  Backward(k) \in S
<1>1. CASE /\ k \in DOMAIN net /\ l \in DOMAIN net
           /\ \E i \in DOMAIN net[k].inputs :
                 PropDown(net, k, i) /\ Hands(net, l, k, net[k].inputs[i])
  <2>1. PICK i \in DOMAIN net[k].inputs :
                 PropDown(net, k, i) /\ Hands(net, l, k, net[k].inputs[i])
    BY <1>1
  <2>2. PICK t, R, W : t = net[k].inputs[i] /\ R = Readers(net, t) /\ W = Writers(net, t)
    OBVIOUS
  <2>3. /\ Wrote(net, t) # {} /\ Read(net, t) # {}
        /\ \E j \in 1..Len(W) : \E a \in j..Len(W) : l = W[j] /\ k = R[a]
    BY <2>1, <2>2 DEF Hands
  <2>4. PICK j \in 1..Len(W) : \E a \in j..Len(W) : l = W[j] /\ k = R[a]
    BY <2>3
  <2>5. PICK a \in j..Len(W) : l = W[j] /\ k = R[a]
    BY <2>4
  <2>6. Shape(R, W)
    BY <2>2, <2>3, TensorShape
  <2>7. a \in 1..Len(R) /\ (a # 1 => a \in 2..Len(W))
    BY <2>6 DEF Shape
  <2>8. Backward(W[a]) \in S
    BY <2>2, <2>3, <2>5, <2>6, WritersBackward
  <2>9. Backward(IF a = 1 THEN W[1] ELSE R[a - 1]) \in S
    <3>1. a # 1 => R[a - 1] = W[a]
      BY <2>6, <2>7 DEF Shape
    <3>2. QED BY <2>8, <3>1
  <2>10. QED BY <1>1, <2>1, <2>2, <2>3, <2>5, <2>7, <2>9, BeforeBackward
<1>2. CASE k \in SplitIDs(net) /\ l \in Wrote(net, TensorOf(net, k))
  <2>1. PICK t, R, W : t = TensorOf(net, k) /\ R = Readers(net, t) /\ W = Writers(net, t)
    OBVIOUS
  <2>2. Shape(R, W) /\ SplitFront(net, k) = W[Len(W)]
    BY <1>2, <2>1, SplitLayer
  <2>3. PICK j \in 1..Len(W) : l = W[j]
    BY <1>2, <2>1, WriterPlace
  <2>4. Len(W) \in j..Len(W)
    BY <2>2 DEF Shape
  <2>5. Wrote(net, t) # {}
    BY <1>2, <2>1
  <2>6. Backward(W[Len(W)]) \in S
    BY <2>1, <2>2, <2>3, <2>4, <2>5, WritersBackward
  <2>7. QED BY <1>2, <2>2, <2>6, BeforeSplit
<1>3. CASE l \in SplitIDs(net) /\ k \in ToSet(SplitBehind(net, l))
  BY <1>3, BeforeSplit
<1>4. QED BY <1>1, <1>2, <1>3, PropagatesFeed

(* A layer with an output that nobody reads is a loss of the network.      *)
LEMMA UnreadIs ==
    ASSUME NEW net \in Networks, NEW all, all = WithSplits(net), NEW l \in DOMAIN all,
           Unread(all, l)
    PROVE  l \in DOMAIN net /\ \E t : l \in Wrote(net, t) /\ Read(net, t) = {}
<1>1. PICK x \in ToSet(all[l].outputs) : \A k \in DOMAIN all : x \notin ToSet(all[k].inputs)
  BY DEF Unread
<1>2. CASE l \in SplitIDs(net) /\ \E b \in DOMAIN SplitBehind(net, l) :
              x = <<TensorOf(net, l), b>>
  <2>1. PICK b \in DOMAIN SplitBehind(net, l) : x = <<TensorOf(net, l), b>>
    BY <1>2
  <2>2. PICK k, t : k = SplitBehind(net, l)[b] /\ t = TensorOf(net, l)
    OBVIOUS
  <2>3. k \in Read(net, t) /\ k \in ToSet(SplitBehind(net, l))
    BY <1>2, <2>2, SplitBehindPlaces DEF ToSet
  <2>4. k \in DOMAIN net /\ k \in DOMAIN all /\ \E j \in DOMAIN net[k].inputs : net[k].inputs[j] = t
    BY <2>3, LayersAre DEF Read, ToSet
  <2>5. PICK j \in DOMAIN net[k].inputs : net[k].inputs[j] = t
    BY <2>4
  <2>6. l \in SplitsOf(net, k, t)
    BY <1>2, <2>2, <2>3 DEF SplitsOf
  <2>7. PICK c \in DOMAIN SplitBehind(net, l) :
           SplitBehind(net, l)[c] = k /\ Renamed(net, k, t) = <<t, c>>
    BY <2>6, RenamedIs
  <2>8. c = b
    <3>1. \A i \in DOMAIN SplitBehind(net, l) :
             Position(SplitBehind(net, l), SplitBehind(net, l)[i]) = i
      BY <1>2, SplitBehindPlaces
    <3>2. QED BY <2>2, <2>7, <3>1
  <2>9. j \in DOMAIN all[k].inputs /\ all[k].inputs[j] = x
    BY <2>1, <2>2, <2>4, <2>5, <2>7, <2>8, LayerIs
  <2>10. x \in ToSet(all[k].inputs)
    BY <2>9 DEF ToSet
  <2>11. QED BY <1>1, <2>4, <2>10
<1>3. CASE l \in DOMAIN net /\ \E t : x = <<t, 0>> /\ l \in Wrote(net, t)
  <2>1. PICK t : x = <<t, 0>> /\ l \in Wrote(net, t)
    BY <1>3
  <2>2. ASSUME t \in SplitSet(net) PROVE FALSE
    <3>1. PICK s \in SplitIDs(net) : TensorOf(net, s) = t
      BY <2>2, SplitIDsAre
    <3>2. x \in ToSet(all[s].inputs)
      BY <2>1, <3>1, LayerOfSplit DEF ToSet
    <3>3. QED BY <1>1, <3>1, <3>2, LayersAre
  <2>3. ASSUME NEW k \in Read(net, t) PROVE FALSE
    <3>1. SplitsOf(net, k, t) = {}
      BY <2>2, SplitIDsAre DEF SplitsOf
    <3>2. k \in DOMAIN net /\ k \in DOMAIN all
      BY LayersAre DEF Read
    <3>3. PICK j \in DOMAIN net[k].inputs : net[k].inputs[j] = t
      BY DEF Read, ToSet
    <3>4. Renamed(net, k, t) = x
      BY <2>1, <3>1, RenamedIs
    <3>5. j \in DOMAIN all[k].inputs /\ all[k].inputs[j] = x
      BY <3>2, <3>3, <3>4, LayerIs
    <3>6. x \in ToSet(all[k].inputs)
      BY <3>5 DEF ToSet
    <3>7. QED BY <1>1, <3>2, <3>6
  <2>4. QED BY <1>3, <2>1, <2>3
<1>4. QED BY <1>1, <1>2, <1>3, Outputs

(* The layers that get a gradient are the fewest there can be.             *)
LEMMA GradientIs ==
    ASSUME NEW net \in Networks, NEW all, all = WithSplits(net), NEW G,
           G \in SUBSET DOMAIN all, \A l \in DOMAIN all : Unread(all, l) => l \in G,
           \A l \in DOMAIN all : \A k \in BackwardNeeds(all, l) : k \in G => l \in G
    PROVE  HasGradient[net] \subseteq G
<1> DEFINE behind == [l \in DOMAIN all |-> BackwardNeeds(all, l)]
           losses == {l \in DOMAIN all : Unread(all, l)}
           Has(H) == /\ losses \subseteq H
                     /\ \A l \in DOMAIN all : behind[l] \cap H # {} => l \in H
<1>1. HasGradient[net] =
          {l \in DOMAIN all : \A H \in SUBSET DOMAIN all : Has(H) => l \in H}
  BY DEF HasGradient
<1>2. Has(G)
  OBVIOUS
<1> HIDE DEF Has
<1>3. QED BY <1>1, <1>2

(* The forward plan of a layer that gets a gradient comes before its       *)
(* backward plan: by way of the loss the gradient comes from.              *)
LEMMA OwnForwardCovered ==
    ASSUME NEW net \in Networks, NEW S, Closed(net, S), NEW l \in HasGradient[net],
           Backward(l) \in S
    PROVE  Forward(l) \in S
<1> DEFINE all == WithSplits(net)
           G   == {k \in DOMAIN all : Backward(k) \in S => Forward(k) \in S}
<1>1. ASSUME NEW k \in DOMAIN all, Unread(all, k) PROVE k \in G
  BY <1>1, UnreadIs, BeforeLoss
<1>2. ASSUME NEW k \in DOMAIN all, NEW j \in BackwardNeeds(all, k), j \in G PROVE k \in G
  <2>1. SUFFICES ASSUME Backward(k) \in S PROVE Forward(k) \in S
    OBVIOUS
  <2>2. Backward(j) \in S
    BY <2>1, BackwardCovered
  <2>3. Forward(j) \in S
    BY <1>2, <2>2
  <2>4. Feeds(net, k, j)
    BY PropagatesFeed DEF Feeds
  <2>5. QED BY <2>3, <2>4, ForwardCovered
<1>3. HasGradient[net] \subseteq G
  <2>1. G \in SUBSET DOMAIN all
    OBVIOUS
  <2> HIDE DEF G
  <2>2. QED BY <1>1, <1>2, <2>1, GradientIs
<1>4. QED BY <1>3

LEMMA PlanIs ==
    ASSUME NEW net \in Networks, NEW p \in PlanIDs(net)
    PROVE  \/ \E l \in DOMAIN WithSplits(net) : l \in Nat /\ p = Forward(l)
           \/ \E l \in DOMAIN WithSplits(net) : l \in Nat /\ p = Backward(l)
           \/ \E l \in DOMAIN net : l \in Nat /\ p = Update(l) /\ Learns(net, l)
<1>1. DOMAIN net \subseteq Nat
  BY LayersFinite
<1>2. SplitIDs(net) \subseteq Nat
  BY SplitIDsAre
<1>3. QED BY <1>1, <1>2, LayersAre DEF PlanIDs

(* What a plan needs is among the plans that come before it, and is not    *)
(* the plan itself.                                                        *)
LEMMA NeedsCovered ==
    ASSUME network \in Networks, NEW S, Closed(network, S), NEW p \in PlanIDs(network), p \in S
    PROVE  DataNeeds(p) \subseteq S \ {p}
<1> DEFINE all == WithSplits(network)
<1>1. DOMAIN all \subseteq Nat
  BY LayersAre, LayersFinite, SplitIDsAre
<1>2. CASE \E l \in DOMAIN all : l \in Nat /\ p = Forward(l)
  <2>1. PICK l \in DOMAIN all : l \in Nat /\ p = Forward(l)
    BY <1>2
  <2>2. PlanType(p) = 0 /\ p \div 3 = l
    BY <2>1, PlanNumbers DEF PlanType
  <2>3. DataNeeds(p) = {Forward(k) : k \in ForwardNeeds(all, l)}
    BY <2>2 DEF DataNeeds
  <2>4. ASSUME NEW k \in ForwardNeeds(all, l) PROVE Forward(k) \in S /\ Forward(k) # p
    <3>1. Feeds(network, k, l)
      BY NeedsFeed
    <3>2. Forward(k) \in S
      BY <2>1, <3>1, ForwardCovered
    <3>3. k \in Nat /\ k # l
      BY <1>1 DEF ForwardNeeds
    <3>4. QED BY <2>2, <3>2, <3>3, PlanNumbers
  <2>5. QED BY <2>3, <2>4
<1>3. CASE \E l \in DOMAIN all : l \in Nat /\ p = Backward(l)
  <2>1. PICK l \in DOMAIN all : l \in Nat /\ p = Backward(l)
    BY <1>3
  <2>2. PlanType(p) = 1 /\ p \div 3 = l
    BY <2>1, PlanNumbers DEF PlanType
  <2>3. DataNeeds(p) = {Backward(k) : k \in BackwardNeeds(all, l)} \cup
            {Forward(k) : k \in {l} \cap HasGradient[network]}
    BY <2>2 DEF DataNeeds
  <2>4. ASSUME NEW k \in BackwardNeeds(all, l) PROVE Backward(k) \in S /\ Backward(k) # p
    <3>1. Backward(k) \in S
      BY <2>1, BackwardCovered
    <3>2. k \in Nat /\ k # l
      BY <1>1 DEF BackwardNeeds
    <3>3. QED BY <2>2, <3>1, <3>2, PlanNumbers
  <2>5. ASSUME l \in HasGradient[network]
        PROVE  Forward(l) \in S /\ Forward(l) # p
    <3>1. Forward(l) \in S
      BY <2>1, <2>5, OwnForwardCovered
    <3>2. Forward(l) # p
      BY <2>1, <2>2, PlanNumbers DEF PlanType
    <3>3. QED BY <3>1, <3>2
  <2>6. QED BY <2>3, <2>4, <2>5
<1>4. CASE \E l \in DOMAIN network : l \in Nat /\ p = Update(l) /\ Learns(network, l)
  <2>1. PICK l \in DOMAIN network : l \in Nat /\ p = Update(l) /\ Learns(network, l)
    BY <1>4
  <2>2. PlanType(p) = 2 /\ p \div 3 = l
    BY <2>1, PlanNumbers DEF PlanType
  <2>3. DataNeeds(p) = {Backward(l)}
    BY <2>2 DEF DataNeeds
  <2>4. PICK i \in DOMAIN network[l].inputs : PropDown(network, l, i)
    BY <2>1 DEF Learns
  <2>5. l \in Read(network, network[l].inputs[i])
    BY <2>4 DEF Read, ToSet
  <2>6. PICK a \in 1..Len(Readers(network, network[l].inputs[i])) :
            l = Readers(network, network[l].inputs[i])[a]
    BY <2>5, ReaderPlace
  <2>7. p \in ToSet(BackwardTo(network, l, i))
    BY <2>1, <2>4, <2>6, BackwardToIs DEF Learns
  <2>8. p \in ToSet(NotifyList(network, Backward(l))) /\ Backward(l) \in PlanIDs(network)
    BY <2>7, BackwardNotifies, NotifyListIs
  <2>9. Backward(l) \in S
    BY <2>8 DEF Closed
  <2>10. Backward(l) # p
    BY <2>1, <2>2, PlanNumbers DEF PlanType
  <2>11. QED BY <2>3, <2>9, <2>10
<1>5. QED BY <1>2, <1>3, <1>4, PlanIs

(* The plans are those of the network.                                     *)
LEMMA PlansOfNetwork == Spec => [](planMap = Build(network))
<1>1. Init => planMap = Build(network)
  BY DEF Init
<1>2. planMap = Build(network) /\ [Next]_vars => (planMap = Build(network))'
  <2>1. [Next]_vars => UNCHANGED <<network, planMap>>
    BY DEF Next, TaskConsumer, Request, Handler, vars, networkVars
  <2>2. QED BY <2>1 DEF Build
<1>3. QED BY <1>1, <1>2, PTL DEF Spec

(* Whoever notifies another is a plan that was not dropped.                *)
LEMMA BuildIs ==
    ASSUME NEW net \in Networks
    PROVE  /\ DOMAIN Build(net) \subseteq PlanIDs(net)
           /\ \A q \in PlanIDs(net) : NotifyList(net, q) # <<>> =>
                 q \in DOMAIN Build(net) /\ Build(net)[q].notifyList = NotifyList(net, q)
<1> DEFINE lists == [p \in PlanIDs(net) |-> NotifyList(net, p)]
           dep   == [p \in PlanIDs(net) |-> Cardinality(NotificationsOf(lists, p))]
<1>1. Build(net) = [p \in {q \in PlanIDs(net) : lists[q] # <<>> \/ dep[q] # 0} |->
                       [notifyList |-> lists[p], depCount |-> dep[p]]]
  BY DEF Build
<1>2. \A q \in PlanIDs(net) : lists[q] = NotifyList(net, q)
  OBVIOUS
<1> HIDE DEF lists, dep
<1>3. QED BY <1>1, <1>2

(* What a plan notifies is its list.                                       *)
LEMMA PlanListIs ==
    ASSUME network \in Networks, planMap = Build(network), NEW q \in Plans
    PROVE  Notify(q) = NotifyList(network, q)
<1> DEFINE lists == [p \in PlanIDs(network) |-> NotifyList(network, p)]
           dep   == [p \in PlanIDs(network) |-> Cardinality(NotificationsOf(lists, p))]
<1>1. Build(network) = [p \in {r \in PlanIDs(network) : lists[r] # <<>> \/ dep[r] # 0} |->
                           [notifyList |-> lists[p], depCount |-> dep[p]]]
  BY DEF Build
<1>2. \A r \in PlanIDs(network) : lists[r] = NotifyList(network, r)
  OBVIOUS
<1> HIDE DEF lists, dep
<1>3. QED BY <1>1, <1>2 DEF Plans, Notify

(* Of the plans that are not done, one waits for nothing: the one of the   *)
(* least rank, for whoever is to notify it is not done and comes earlier.  *)
LEMMA OneIsReady ==
    ASSUME PlanInv, ExactInv, network \in Networks, planMap = Build(network), Undone # {}
    PROVE  \E p \in Undone : depRef[p] = 0
<1>1. Plans \subseteq PlanIDs(network) /\ Undone \subseteq Plans
  BY BuildIs DEF Plans, Undone
<1> DEFINE ranks == {Rank(network, p) : p \in Undone}
<1>2. ranks \subseteq Nat /\ ranks # {}
  BY <1>1, RankType
<1>3. PICK x \in ranks : \A y \in ranks : x <= y
  BY <1>2, LeastOf
<1>4. PICK p \in Undone : x = Rank(network, p)
  BY <1>3
<1>5. \A q \in Undone : Rank(network, p) <= Rank(network, q)
  BY <1>3, <1>4
<1> HIDE DEF ranks
<1>6. p \in Plans
  BY <1>1, <1>4
<1>7. Unsent(p) = {}
  <2>1. SUFFICES ASSUME NEW n \in Unsent(p) PROVE FALSE
    OBVIOUS
  <2>2. n \in Awaited(p) /\ ~Sent(n)
    BY <2>1 DEF Unsent
  <2>3. n[1] \in Plans /\ n[2] \in DOMAIN Notify(n[1]) /\ Notify(n[1])[n[2]] = p
    BY <1>6, <2>2, AwaitedMembers
  <2>4. PICK q, i : q = n[1] /\ i = n[2]
    OBVIOUS
  <2>5. q \in Undone
    BY <2>2, <2>4 DEF Sent
  <2>6. q \in Plans /\ i \in DOMAIN Notify(q) /\ Notify(q)[i] = p
    BY <2>3, <2>4
  <2>7. q \in PlanIDs(network)
    BY <1>1, <2>6
  <2>8. Notify(q) = NotifyList(network, q)
    BY PlanListIs, <2>6
  <2>9. NotifyList(network, q) \in Seq(Later(network, q))
    BY <2>7, NotifyListType
  <2>10. p \in Later(network, q)
    BY <2>6, <2>8, <2>9
  <2>11. Rank(network, q) < Rank(network, p)
    BY <2>10 DEF Later
  <2>12. Rank(network, p) <= Rank(network, q)
    BY <1>5, <2>5
  <2>13. Rank(network, p) \in Nat /\ Rank(network, q) \in Nat
    BY <1>1, <1>6, <2>7, RankType
  <2>14. QED BY <2>11, <2>12, <2>13
<1>8. depRef[p] = 0
  BY <1>6, <1>7, FS_EmptySet DEF ExactInv
<1>9. QED BY <1>4, <1>8

(* A plan waits for exactly the notifications of this mini batch that were *)
(* not sent, and the plans never wait for one another, in any well-formed  *)
(* network: a mini batch that is not over has a plan to run.               *)
THEOREM NotificationsAreCounted == (\E c : OneClient(c)) => (Spec => []DepRefExact)
<1>1. SUFFICES ASSUME NEW c, OneClient(c) PROVE Spec => []DepRefExact
  OBVIOUS
<1>2. SafeInv(c) /\ RestInv(c) /\ planMap = Build(network) => DepRefExact
  <2>1. SUFFICES ASSUME SafeInv(c), RestInv(c), planMap = Build(network), ~Resetting
                 PROVE  /\ \A p \in Plans :
                             depRef[p] = Cardinality({n \in Awaited(p) : ~Sent(n)})
                        /\ Undone # {} => \E p \in Undone : depRef[p] = 0
    BY DEF DepRefExact
  <2>2. PlanInv /\ ExactInv /\ network \in Networks
    BY <1>1, <2>1 DEF SafeInv, CounterInv, RestInv, Resetting, OneClient
  <2>3. Undone # {} => \E p \in Undone : depRef[p] = 0
    BY <2>1, <2>2, OneIsReady
  <2>4. QED BY <2>2, <2>3 DEF ExactInv, Unsent
<1>3. Spec => [](SafeInv(c) /\ RestInv(c))
  BY <1>1, RestHolds
<1>4. QED BY <1>2, <1>3, PlansOfNetwork, PTL

(* Of a plan that waits for nothing, those that notify it ran.             *)
LEMMA NotifiersRan ==
    ASSUME PlanInv, CounterTypes, ExactInv, ~Resetting, consumer = "layer",
           NEW p \in Plans, depRef[p] <= 0, NEW q \in Plans, p \in ToSet(Notify(q))
    PROVE  q \in Ran
<1>1. PICK i \in DOMAIN Notify(q) : Notify(q)[i] = p
  BY DEF ToSet
<1>2. <<q, i>> \in Awaited(p)
  BY <1>1, AwaitedMembers
<1>3. Unsent(p) = {}
  <2>1. depRef[p] = Cardinality(Unsent(p))
    BY DEF ExactInv
  <2>2. IsFiniteSet(Unsent(p)) /\ Cardinality(Unsent(p)) \in Nat
    BY UnsentFinite
  <2>3. Cardinality(Unsent(p)) = 0
    BY <2>1, <2>2
  <2>4. QED BY <2>2, <2>3, FS_EmptySet
<1>4. Sent(<<q, i>>)
  BY <1>2, <1>3 DEF Unsent
<1>5. q \notin Undone
  BY <1>4 DEF Sent
<1>6. ~(depRef[q] > 0) /\ q \notin ToSet(readyQueue) /\ ~AtWork(q)
  BY <1>5 DEF Undone
<1>7. depRef[q] <= 0 /\ ~(cur = q /\ consumer = "layer")
  BY <1>6 DEF CounterTypes, AtWork
<1>8. QED BY <1>6, <1>7 DEF Ran

(* A layer is run when its data are there, in any well-formed network: the *)
(* plans that ran, with the one that is being run, have whoever notifies   *)
(* one of them, and so what it needs, though the notifications are made    *)
(* from the names of the tensors and few plans notify one another.         *)
THEOREM DataIsReady == (\E c : OneClient(c)) => (Spec => []DataReady)
<1>1. SUFFICES ASSUME NEW c, OneClient(c) PROVE Spec => []DataReady
  OBVIOUS
<1>2. SafeInv(c) /\ RestInv(c) /\ planMap = Build(network) => DataReady
  <2>1. SUFFICES ASSUME SafeInv(c), RestInv(c), planMap = Build(network),
                        consumer = "layer"
                 PROVE  DataNeeds(cur) \subseteq Ran
    BY DEF DataReady
  <2>2. client[c] = "await"
    BY <1>1, <2>1, NothingPending DEF SafeInv, Working
  <2>3. ~Resetting /\ PlanInv /\ CounterTypes /\ ExactInv
    BY <1>1, <2>1, <2>2 DEF SafeInv, CounterInv, Resetting, OneClient
  <2>4. network \in Networks /\ cur \in Plans
    BY <2>1 DEF RestInv
  <2>5. depRef[cur] <= 0
    BY <2>1, <2>3, <2>4 DEF ExactInv, CounterTypes
  <2> DEFINE S == Ran \cup {cur}
  <2>6. \A p \in S : p \in Plans /\ depRef[p] <= 0
    BY <2>3, <2>4, <2>5 DEF Ran
  <2>7. Closed(network, S)
    <3>1. SUFFICES ASSUME NEW q \in PlanIDs(network), NEW p \in S,
                          p \in ToSet(NotifyList(network, q))
                   PROVE  q \in Ran
      BY DEF Closed
    <3>2. NotifyList(network, q) # <<>>
      BY <3>1 DEF ToSet
    <3>3. q \in Plans /\ Notify(q) = NotifyList(network, q)
      BY <2>1, <2>4, <3>2, BuildIs DEF Plans, Notify
    <3>4. p \in Plans /\ depRef[p] <= 0
      BY <2>6
    <3>5. QED BY <2>1, <2>3, <3>1, <3>3, <3>4, NotifiersRan
  <2>8. cur \in PlanIDs(network)
    BY <2>1, <2>4, BuildIs DEF Plans
  <2>9. DataNeeds(cur) \subseteq S \ {cur}
    <3> HIDE DEF S
    <3>1. cur \in S
      BY DEF S
    <3>2. QED BY <2>4, <2>7, <2>8, <3>1, NeedsCovered
  <2>10. QED BY <2>9
<1>3. Spec => [](SafeInv(c) /\ RestInv(c))
  BY <1>1, RestHolds
<1>4. QED BY <1>2, <1>3, PlansOfNetwork, PTL
=============================================================================
