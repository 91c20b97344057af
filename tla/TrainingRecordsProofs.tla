------------------------ MODULE TrainingRecordsProofs ------------------------
(***************************************************************************)
(* Proofs about the records of training: for any number of iterations, any *)
(* losses, any size of the ring and any readers, the best file and those   *)
(* of the last intervals survive every crash, no slot of the ring is       *)
(* written while it is read, and a reply is a snapshot.                    *)
(***************************************************************************)
EXTENDS TrainingRecords, QueueLemmas, FiniteSetTheorems

-----------------------------------------------------------------------------
(* The best file.                                                          *)

Steps == {"run", "measure", "best", "saveBest", "removeBest", "interval",
          "openInterval", "saveInterval"}
BestPaths == {"best"} \X (0..MaxIterations)
IntervalPaths == {"interval"} \X (0..MaxIterations)

FileTypes ==
    /\ iterations \in 0..MaxIterations
    /\ step \in Steps
    /\ loss \in Losses \cup {Absent}
    /\ step # "run" => loss \in Losses
    /\ files \in [Paths -> Losses \cup {Absent, Partial}]
    /\ bestSavedParamPath \in BestPaths \cup {Absent}
    /\ intervalSavedParamPathQueue \in Seq(IntervalPaths)
    /\ writing = "out" <=> step # "measure"

(* The paths of best files other than p that are not on disk: all.         *)
OnlyBest(S) == \A p \in BestPaths \ S : files[p] = Absent

(* No best file was ever written.                                          *)
NoBestYet ==
    bestSavedParamPath = Absent /\ least = Absent

(* The last one that was written has the least loss, and the path of an    *)
(* iteration before the one that is about to be looked at.                 *)
BestWritten ==
    /\ bestSavedParamPath \in BestPaths
    /\ least \in Losses /\ files[bestSavedParamPath] = least

Older == bestSavedParamPath[2] < iterations

BestInv ==
    CASE step \in {"saveBest", "removeBest"} ->
            /\ bestLoss = loss
            /\ OnlyBest({bestSavedParamPath, BestPath})
            /\ bestSavedParamPath # Absent => Older
            /\ BestFrom <= iterations
            /\ NoBestYet \/ (BestWritten /\ loss <= least)
            /\ step = "removeBest" => files[BestPath] = loss
      [] OTHER ->
            /\ OnlyBest({bestSavedParamPath})
            /\ bestLoss = least
            /\ NoBestYet \/ BestWritten
            /\ bestSavedParamPath # Absent =>
                  /\ bestSavedParamPath[2] <= iterations
                  /\ step \in {"measure", "best"} => Older

FilesInv == ~wasReset => FileTypes /\ BestInv

-----------------------------------------------------------------------------

LEMMA PathFacts ==
    /\ BestPaths \cup IntervalPaths \subseteq Paths
    /\ BestPaths \cap IntervalPaths = {}
    /\ \A p \in Paths : p[1] = "best" <=> p \in BestPaths
    /\ Absent \notin Paths /\ Absent \notin BestPaths
    /\ Absent # Partial /\ Absent \notin Losses /\ Partial \notin Losses
BY ParamAssumption DEF Paths, BestPaths, IntervalPaths

LEMMA IterationPaths ==
    ASSUME FileTypes
    PROVE  /\ BestPath \in BestPaths /\ BestPath \in Paths /\ BestPath[2] = iterations
           /\ IntervalPath \in IntervalPaths /\ IntervalPath \in Paths
           /\ IntervalPath \notin BestPaths
BY DEF FileTypes, BestPath, IntervalPath, BestPaths, IntervalPaths, Paths

LEMMA InitFiles == Init => FilesInv
<1>1. SUFFICES ASSUME Init PROVE FileTypes /\ BestInv
  BY DEF FilesInv
<1>2. FileTypes
  BY <1>1, ParamAssumption
     DEF Init, ParamInit, MeasureInit, FileTypes, Steps
<1>3. BestInv
  BY <1>1, PathFacts
     DEF Init, ParamInit, BestInv, OnlyBest, NoBestYet
<1>4. QED BY <1>2, <1>3

(* Readers and the ring of measures leave the files alone.                 *)
LEMMA ReaderStep ==
    ASSUME FilesInv, UNCHANGED paramVars, UNCHANGED writing PROVE FilesInv'
BY DEF FilesInv, FileTypes, BestInv, OnlyBest, NoBestYet, BestWritten, Older, BestPath,
       paramVars

LEMMA ReaderLeavesWriter ==
    ASSUME NEW r \in Readers, Reader(r) PROVE UNCHANGED writing
BY DEF Reader, GetData, LockRetry, Copy, Unlock, Replied, writerVars

LEMMA EndMiniBatchStep ==
    ASSUME FilesInv, NEW l \in Losses, GeneratePlan(l) PROVE FilesInv'
<1>1. SUFFICES ASSUME ~wasReset PROVE FileTypes' /\ BestInv'
  BY DEF FilesInv, GeneratePlan, EndMiniBatch
<1>2. /\ step = "run" /\ step' = "measure" /\ iterations' = iterations + 1
      /\ iterations < MaxIterations /\ loss' = l /\ writing' = "add"
      /\ UNCHANGED <<files, bestLoss, bestSavedParamPath, least,
                     intervalSavedParamPathQueue>>
  BY DEF GeneratePlan, EndMiniBatch, Goto
<1>3. FileTypes'
  BY <1>1, <1>2, ParamAssumption DEF FilesInv, FileTypes, Steps
<1>4. BestInv'
  <2>1. /\ OnlyBest({bestSavedParamPath})
        /\ bestLoss = least
        /\ NoBestYet \/ BestWritten
        /\ bestSavedParamPath # Absent => bestSavedParamPath[2] <= iterations
    BY <1>1, <1>2 DEF FilesInv, BestInv
  <2>2. bestSavedParamPath # Absent => bestSavedParamPath[2] \in Int
    BY <1>1 DEF FilesInv, FileTypes, BestPaths
  <2>3. iterations \in Int
    BY <1>1 DEF FilesInv, FileTypes
  <2>4. QED
    BY <1>2, <2>1, <2>2, <2>3
       DEF BestInv, OnlyBest, NoBestYet, BestWritten, Older
<1>5. QED BY <1>3, <1>4

LEMMA AddDataStep ==
    ASSUME FilesInv, AddData PROVE FilesInv'
<1>1. SUFFICES ASSUME ~wasReset PROVE FileTypes' /\ BestInv'
  BY DEF FilesInv, AddData, paramVars
<1>2. CASE AddLocks /\ UNCHANGED paramVars
  <2>1. writing # "out" /\ writing' # "out"
    BY <1>2 DEF AddLocks
  <2>2. FileTypes'
    BY <1>1, <1>2, <2>1 DEF FilesInv, FileTypes, paramVars
  <2>3. BestInv'
    BY <1>1, <1>2 DEF FilesInv, BestInv, OnlyBest, NoBestYet, BestWritten, Older,
                      BestPath, paramVars
  <2>4. QED BY <2>2, <2>3
<1>3. CASE ~(AddLocks /\ UNCHANGED paramVars)
  <2>1. /\ writing = "copy" /\ writing' = "out" /\ step' = "best"
        /\ UNCHANGED <<iterations, loss, files, bestLoss, bestSavedParamPath,
                       intervalSavedParamPathQueue, least>>
    BY <1>3 DEF AddData, AddEnds, Goto
  <2>2. step = "measure"
    BY <1>1, <2>1 DEF FilesInv, FileTypes
  <2>3. FileTypes'
    BY <1>1, <2>1, <2>2 DEF FilesInv, FileTypes, Steps
  <2>4. BestInv'
    BY <1>1, <2>1, <2>2 DEF FilesInv, BestInv, OnlyBest, NoBestYet, BestWritten, Older
  <2>5. QED BY <2>3, <2>4
<1>4. QED BY <1>2, <1>3

-----------------------------------------------------------------------------
(* handleBestLoss                                                          *)

LEMMA OpenBestStep ==
    ASSUME FilesInv, OpenBest, writing' = writing PROVE FilesInv'
<1>1. SUFFICES ASSUME ~wasReset PROVE FileTypes' /\ BestInv'
  BY DEF FilesInv, OpenBest
<1>2. /\ FileTypes /\ step = "best" /\ loss \in Losses
      /\ UNCHANGED <<iterations, loss, bestSavedParamPath,
                     intervalSavedParamPathQueue>>
  BY <1>1 DEF FilesInv, FileTypes, OpenBest
<1>3. /\ OnlyBest({bestSavedParamPath}) /\ bestLoss = least
      /\ NoBestYet \/ BestWritten
      /\ bestSavedParamPath # Absent => Older
      /\ bestSavedParamPath # Absent => bestSavedParamPath[2] <= iterations
  BY <1>1, <1>2 DEF FilesInv, BestInv
<1>4. CASE BestFrom <= iterations /\ IsBest
  <2>1. /\ bestLoss' = loss /\ files' = [files EXCEPT ![BestPath] = Partial]
        /\ step' = "saveBest" /\ least' = least
    BY <1>4 DEF OpenBest, Goto
  <2>2. FileTypes'
    BY <1>2, <2>1, IterationPaths DEF FileTypes, Steps
  <2>3. \A p \in Paths : p # BestPath => files'[p] = files[p]
    BY <1>2, <2>1 DEF FileTypes
  <2>4. OnlyBest({bestSavedParamPath, BestPath})'
    BY <1>2, <1>3, <2>3, PathFacts DEF OnlyBest, BestPath
  <2>5. (NoBestYet \/ (BestWritten /\ loss <= least))'
    <3>1. CASE NoBestYet
      BY <1>2, <2>1, <3>1 DEF NoBestYet
    <3>2. CASE BestWritten
      <4>1. bestSavedParamPath # BestPath
        <5>1. bestSavedParamPath # Absent /\ bestSavedParamPath[2] < iterations
          BY <1>3, <3>2, PathFacts DEF BestWritten, Older
        <5>2. bestSavedParamPath[2] \in Int /\ iterations \in Int
          BY <1>2, <3>2 DEF BestWritten, BestPaths, FileTypes
        <5>3. QED BY <1>2, <5>1, <5>2, IterationPaths
      <4>2. loss <= least
        BY <1>3, <1>4, <3>2, PathFacts DEF IsBest, BestWritten
      <4>3. QED BY <1>2, <2>1, <2>3, <3>2, <4>1, <4>2, PathFacts DEF BestWritten
    <3>3. QED BY <1>3, <3>1, <3>2
  <2>6. BestInv'
    BY <1>2, <1>3, <1>4, <2>1, <2>4, <2>5 DEF BestInv, Older
  <2>7. QED BY <2>2, <2>6
<1>5. CASE ~(BestFrom <= iterations /\ IsBest)
  <2>1. step' = "interval" /\ UNCHANGED <<bestLoss, files>>
        /\ least' = IF BestFrom <= iterations /\ (least = Absent \/ loss < least)
                    THEN loss ELSE least
    BY <1>5 DEF OpenBest, Handled, Goto
  <2>2. least' = least
    <3>1. CASE ~(BestFrom <= iterations)
      BY <2>1, <3>1
    <3>2. CASE BestFrom <= iterations
      <4>1. least # Absent /\ ~(loss <= least)
        BY <1>3, <1>5, <3>2 DEF IsBest
      <4>2. least \in Int /\ loss \in Int
        BY <1>2, <1>3, <4>1, ParamAssumption DEF NoBestYet, BestWritten
      <4>3. QED BY <2>1, <4>1, <4>2
    <3>3. QED BY <3>1, <3>2
  <2>3. FileTypes'
    BY <1>2, <2>1 DEF FileTypes, Steps
  <2>4. BestInv'
    BY <1>2, <1>3, <2>1, <2>2 DEF BestInv, OnlyBest, NoBestYet, BestWritten
  <2>5. QED BY <2>3, <2>4
<1>6. QED BY <1>4, <1>5

LEMMA SaveBestStep ==
    ASSUME FilesInv, SaveBest, writing' = writing PROVE FilesInv'
<1>1. SUFFICES ASSUME ~wasReset PROVE FileTypes' /\ BestInv'
  BY DEF FilesInv, SaveBest
<1>2. /\ FileTypes /\ step = "saveBest" /\ step' = "removeBest" /\ loss \in Losses
      /\ files' = [files EXCEPT ![BestPath] = loss]
      /\ UNCHANGED <<iterations, loss, bestLoss, bestSavedParamPath,
                     intervalSavedParamPathQueue, least>>
  BY <1>1 DEF FilesInv, FileTypes, SaveBest, Goto
<1>3. /\ bestLoss = loss /\ OnlyBest({bestSavedParamPath, BestPath})
      /\ bestSavedParamPath # Absent => Older
      /\ BestFrom <= iterations
      /\ NoBestYet \/ (BestWritten /\ loss <= least)
  BY <1>1, <1>2 DEF FilesInv, BestInv
<1>4. FileTypes'
  BY <1>2, IterationPaths DEF FileTypes, Steps
<1>5. files'[BestPath] = loss /\ \A p \in Paths : p # BestPath => files'[p] = files[p]
  BY <1>2, IterationPaths DEF FileTypes
<1>6. OnlyBest({bestSavedParamPath, BestPath})'
  BY <1>2, <1>3, <1>5, PathFacts DEF OnlyBest, BestPath
<1>7. (NoBestYet \/ (BestWritten /\ loss <= least))'
  <2>1. CASE NoBestYet
    BY <1>2, <2>1 DEF NoBestYet
  <2>2. CASE BestWritten /\ loss <= least
    <3>1. /\ bestSavedParamPath # Absent /\ bestSavedParamPath[2] < iterations
          /\ bestSavedParamPath[2] \in Int /\ iterations \in Int
      BY <1>2, <1>3, <2>2, PathFacts DEF BestWritten, Older, BestPaths, FileTypes
    <3>2. bestSavedParamPath # BestPath
      BY <1>2, <3>1, IterationPaths
    <3>3. QED BY <1>2, <1>5, <2>2, <3>2, PathFacts DEF BestWritten
  <2>3. QED BY <1>3, <2>1, <2>2
<1>8. BestInv'
  BY <1>2, <1>3, <1>5, <1>6, <1>7 DEF BestInv, Older, BestPath
<1>9. QED BY <1>4, <1>8

LEMMA RemoveBestStep ==
    ASSUME FilesInv, RemoveBest, writing' = writing PROVE FilesInv'
<1>1. SUFFICES ASSUME ~wasReset PROVE FileTypes' /\ BestInv'
  BY DEF FilesInv, RemoveBest
<1>2. /\ FileTypes /\ step = "removeBest" /\ step' = "interval" /\ loss \in Losses
      /\ files' = IF bestSavedParamPath = Absent THEN files
                  ELSE [files EXCEPT ![bestSavedParamPath] = Absent]
      /\ bestSavedParamPath' = BestPath
      /\ least' = IF BestFrom <= iterations /\ (least = Absent \/ loss < least)
                  THEN loss ELSE least
      /\ UNCHANGED <<iterations, loss, bestLoss, intervalSavedParamPathQueue>>
  BY <1>1 DEF FilesInv, FileTypes, RemoveBest, Handled, Goto
<1>3. /\ bestLoss = loss /\ OnlyBest({bestSavedParamPath, BestPath})
      /\ bestSavedParamPath # Absent => Older
      /\ BestFrom <= iterations
      /\ NoBestYet \/ (BestWritten /\ loss <= least)
      /\ files[BestPath] = loss
  BY <1>1, <1>2 DEF FilesInv, BestInv
<1>4. BestPath \in BestPaths /\ BestPath \in Paths /\ BestPath[2] = iterations
      /\ iterations \in Int
  BY <1>2, IterationPaths DEF FileTypes
<1>5. bestSavedParamPath # Absent => bestSavedParamPath # BestPath
  BY <1>3, <1>4 DEF Older
<1>6. FileTypes'
  BY <1>2, <1>4 DEF FileTypes, Steps
<1>7. files'[BestPath] = loss /\ OnlyBest({BestPath})'
  <2>1. CASE bestSavedParamPath = Absent
    BY <1>2, <1>3, <2>1, PathFacts DEF OnlyBest, BestPath
  <2>2. CASE bestSavedParamPath # Absent
    <3>1. /\ files'[BestPath] = files[BestPath]
          /\ \A p \in Paths : files'[p] = IF p = bestSavedParamPath THEN Absent ELSE files[p]
      BY <1>2, <1>4, <1>5, <2>2 DEF FileTypes
    <3>2. QED BY <1>2, <1>3, <3>1, PathFacts DEF OnlyBest, BestPath
  <2>3. QED BY <2>1, <2>2
<1>8. least' = loss
  <2>1. CASE NoBestYet
    BY <1>2, <1>3, <2>1 DEF NoBestYet
  <2>2. CASE BestWritten /\ loss <= least
    <3>1. loss \in Int /\ least \in Int
      BY <1>2, <2>2, ParamAssumption DEF BestWritten
    <3>2. QED BY <1>2, <1>3, <2>2, <3>1
  <2>3. QED BY <1>3, <2>1, <2>2
<1>9. BestInv'
  BY <1>2, <1>3, <1>4, <1>7, <1>8 DEF BestInv, BestWritten, OnlyBest, BestPath
<1>10. QED BY <1>6, <1>9

-----------------------------------------------------------------------------
(* Files of an interval are no best files.                                 *)

LEMMA IntervalStep ==
    ASSUME FilesInv, RemoveOldest \/ OpenInterval \/ WriteInterval, writing' = writing
    PROVE  FilesInv'
<1>1. SUFFICES ASSUME ~wasReset PROVE FileTypes' /\ BestInv'
  BY DEF FilesInv, RemoveOldest, OpenInterval, WriteInterval
<1>2. /\ FileTypes /\ step \in {"interval", "openInterval", "saveInterval"}
      /\ step' \in {"run", "openInterval", "saveInterval"}
      /\ loss \in Losses /\ loss' \in Losses \cup {Absent}
      /\ step' # "run" => loss' = loss
      /\ UNCHANGED <<iterations, bestLoss, bestSavedParamPath, least>>
  BY <1>1 DEF FilesInv, FileTypes, RemoveOldest, OpenInterval, WriteInterval, Goto
<1>3. /\ intervalSavedParamPathQueue' \in Seq(IntervalPaths)
      /\ \/ files' = files
         \/ \E p \in IntervalPaths : \E f \in Losses \cup {Absent, Partial} :
               files' = [files EXCEPT ![p] = f]
  <2> DEFINE queue == intervalSavedParamPathQueue
  <2>1. CASE RemoveOldest
    <3>1. CASE UNCHANGED <<files, intervalSavedParamPathQueue>>
      BY <1>2, <3>1 DEF FileTypes
    <3>2. CASE ~UNCHANGED <<files, intervalSavedParamPathQueue>>
      <4>1. /\ Len(queue) = KeepCount
            /\ files' = [files EXCEPT ![Head(queue)] = Absent]
            /\ intervalSavedParamPathQueue' = Tail(queue)
        BY <2>1, <3>2 DEF RemoveOldest
      <4>2. queue \in Seq(IntervalPaths) /\ queue # <<>>
        BY <1>2, <4>1, ParamAssumption DEF FileTypes
      <4>3. Head(queue) \in IntervalPaths /\ Tail(queue) \in Seq(IntervalPaths)
        BY <4>2
      <4>4. QED BY <4>1, <4>3
    <3>3. QED BY <3>1, <3>2
  <2>2. CASE OpenInterval
    BY <1>2, <2>2, IterationPaths DEF OpenInterval, FileTypes
  <2>3. CASE WriteInterval
    <3>1. queue' = Append(queue, IntervalPath) /\ queue \in Seq(IntervalPaths)
      BY <1>2, <2>3 DEF WriteInterval, FileTypes
    <3>2. IntervalPath \in IntervalPaths
      BY <1>2, IterationPaths
    <3>3. queue' \in Seq(IntervalPaths)
      BY <3>1, <3>2
    <3>4. QED BY <1>2, <2>3, <3>2, <3>3 DEF WriteInterval
  <2>4. QED BY <2>1, <2>2, <2>3
<1>4. /\ files' \in [Paths -> Losses \cup {Absent, Partial}]
      /\ \A p \in BestPaths : files'[p] = files[p]
  BY <1>2, <1>3, PathFacts DEF FileTypes
<1>5. FileTypes'
  BY <1>2, <1>3, <1>4 DEF FileTypes, Steps
<1>6. BestInv'
  <2>1. /\ OnlyBest({bestSavedParamPath}) /\ bestLoss = least
        /\ NoBestYet \/ BestWritten
        /\ bestSavedParamPath # Absent => bestSavedParamPath[2] <= iterations
    BY <1>1, <1>2 DEF FilesInv, BestInv
  <2>2. OnlyBest({bestSavedParamPath})' /\ (NoBestYet \/ BestWritten)'
    BY <1>2, <1>4, <2>1 DEF OnlyBest, NoBestYet, BestWritten
  <2>3. QED BY <1>2, <2>1, <2>2 DEF BestInv
<1>7. QED BY <1>5, <1>6

LEMMA FilesStep == FilesInv /\ [Next]_vars => FilesInv'
<1>1. SUFFICES ASSUME FilesInv, [Next]_vars PROVE FilesInv'
  OBVIOUS
<1>2. CASE UNCHANGED vars
  BY <1>1, <1>2, ReaderStep DEF vars, measureVars, writerVars
<1>3. ASSUME NEW r \in Readers, Reader(r), UNCHANGED paramVars PROVE FilesInv'
  BY <1>1, <1>3, ReaderStep, ReaderLeavesWriter
<1>4. CASE SaveParams
  <2>1. writing' = writing
    BY <1>4 DEF SaveParams, measureVars, writerVars
  <2>2. CASE Reset
    BY <2>2 DEF Reset, FilesInv
  <2>3. QED
    BY <1>1, <1>4, <2>1, <2>2, OpenBestStep, SaveBestStep, RemoveBestStep,
       IntervalStep DEF SaveParams
<1>5. QED
  BY <1>1, <1>2, <1>3, <1>4, EndMiniBatchStep, AddDataStep DEF Next

(* The inductive invariant: which best files are on disk at each step, and *)
(* with what.                                                              *)
THEOREM FilesSafe == Spec => []FilesInv
BY InitFiles, FilesStep, PTL DEF Spec

LEMMA BestFollows == FilesInv => BestKept
<1> DEFINE best == {p \in Paths : p[1] = "best" /\ files[p] # Absent}
<1>1. SUFFICES ASSUME FileTypes, BestInv
               PROVE  /\ Cardinality(best) <=
                            IF step \in {"saveBest", "removeBest"} THEN 2 ELSE 1
                      /\ least # Absent => \E p \in best : files[p] = least
  BY DEF FilesInv, BestKept
<1>2. best = {p \in BestPaths : files[p] # Absent}
  BY PathFacts
<1>3. ASSUME NEW p, NEW q, NEW S \in SUBSET {p, q}
      PROVE  Cardinality(S) <= 2 /\ (p = q => Cardinality(S) <= 1)
  <2>1. IsFiniteSet({p}) /\ Cardinality({p}) = 1
    BY FS_Singleton
  <2>2. {p, q} = {p} \cup {q}
    OBVIOUS
  <2>3. IsFiniteSet({p} \cup {q})
        /\ Cardinality({p} \cup {q}) = IF q \in {p} THEN 1 ELSE 1 + 1
    BY <2>1, FS_AddElement
  <2>4. IsFiniteSet(S) /\ Cardinality(S) <= Cardinality({p} \cup {q})
    BY <2>2, <2>3, FS_Subset
  <2>5. Cardinality(S) \in Nat
    BY <2>4, FS_CardinalityType
  <2>6. QED BY <2>3, <2>4, <2>5
<1>4. CASE step \in {"saveBest", "removeBest"}
  <2>1. best \subseteq {bestSavedParamPath, BestPath}
    BY <1>1, <1>2, <1>4 DEF BestInv, OnlyBest
  <2>2. Cardinality(best) <= 2
    BY <1>3, <2>1
  <2>3. least # Absent => \E p \in best : files[p] = least
    BY <1>1, <1>2, <1>4, IterationPaths, PathFacts
       DEF BestInv, NoBestYet, BestWritten, FileTypes
  <2>4. QED BY <1>4, <2>2, <2>3
<1>5. CASE step \notin {"saveBest", "removeBest"}
  <2>1. best \subseteq {bestSavedParamPath}
    BY <1>1, <1>2, <1>5 DEF BestInv, OnlyBest
  <2>2. best \in SUBSET {bestSavedParamPath, bestSavedParamPath}
    BY <2>1
  <2>3. Cardinality(best) <= 1
    BY <1>3, <2>2
  <2>4. least # Absent => \E p \in best : files[p] = least
    BY <1>1, <1>2, <1>5, PathFacts DEF BestInv, NoBestYet, BestWritten
  <2>5. QED BY <1>5, <2>3, <2>4
<1>6. QED BY <1>4, <1>5

(* Whenever the server dies, a complete file with the parameters of the    *)
(* best iteration is there (handleBestLoss).                               *)
THEOREM BestIsKept == Spec => []BestKept
BY FilesSafe, BestFollows, PTL

-----------------------------------------------------------------------------
(* The files of an interval.                                               *)

LEMMA DivProperties ==
    ASSUME NEW s \in Nat \ {0}, NEW n \in Nat
    PROVE  n % s \in 0..(s - 1) /\ n \div s \in Nat /\ n = (n \div s) * s + (n % s)
OBVIOUS

LEMMA DivUnique ==
    ASSUME NEW s \in Nat \ {0}, NEW q \in Nat, NEW r \in 0..(s - 1)
    PROVE  (q * s + r) \div s = q /\ (q * s + r) % s = r
OBVIOUS

LEMMA TimesLess ==
    ASSUME NEW s \in Nat \ {0}, NEW a \in Nat, NEW b \in Nat, a < b
    PROVE  a * s \in Nat /\ b * s \in Nat /\ a * s < b * s
OBVIOUS

LEMMA TimesNext == ASSUME NEW s \in Nat, NEW a \in Nat PROVE (a + 1) * s = a * s + s
OBVIOUS

(* How many files were due before an iteration, and after it.              *)
LEMMA NextDue ==
    ASSUME NEW s \in Nat \ {0}, NEW n \in Nat \ {0}
    PROVE  /\ (n - 1) \div s \in Nat
           /\ ((n - 1) \div s) * s \in Nat /\ ((n - 1) \div s) * s < n
           /\ n % s # 0 => n \div s = (n - 1) \div s
           /\ n % s = 0 => /\ n \div s = ((n - 1) \div s) + 1
                           /\ (((n - 1) \div s) + 1) * s = n
<1>1. n - 1 \in Nat /\ n \in Nat
  OBVIOUS
<1>2. PICK q \in Nat, r \in 0..(s - 1) :
         q = (n - 1) \div s /\ r = (n - 1) % s /\ n - 1 = q * s + r
  BY <1>1, DivProperties
<1>3. q * s \in Nat
  OBVIOUS
<1>4. n = q * s + (r + 1)
  BY <1>2, <1>3
<1>5. CASE r + 1 = s
  <2>1. n = (q + 1) * s + 0
    BY <1>3, <1>4, <1>5, TimesNext
  <2>2. q + 1 \in Nat /\ 0 \in 0..(s - 1)
    OBVIOUS
  <2>3. n \div s = q + 1 /\ n % s = 0 /\ (q + 1) * s = n
    <3>1. PICK a \in Nat : a = q + 1
      BY <2>2
    <3>2. (a * s + 0) \div s = a /\ (a * s + 0) % s = 0 /\ a * s \in Nat
      BY <2>2, DivUnique
    <3>3. n = a * s
      BY <2>1, <3>1, <3>2
    <3>4. QED BY <3>1, <3>2, <3>3
  <2>4. q * s < n
    BY <1>3, <1>4
  <2>5. QED BY <1>2, <1>3, <2>3, <2>4
<1>6. CASE r + 1 # s
  <2>1. r + 1 \in 0..(s - 1)
    BY <1>6
  <2>2. n \div s = q /\ n % s = r + 1
    <3>1. PICK b \in 0..(s - 1) : b = r + 1
      BY <2>1
    <3>2. (q * s + b) \div s = q /\ (q * s + b) % s = b
      BY DivUnique
    <3>3. QED BY <1>4, <3>1, <3>2
  <2>3. q * s < n /\ r + 1 # 0
    BY <1>3, <1>4
  <2>4. QED BY <1>2, <1>3, <2>2, <2>3
<1>7. QED BY <1>5, <1>6

(* The last n of d paths.                                                  *)
LastPaths(d, n) == [k \in 1..n |-> <<"interval", (d - n + k) * SaveInterval>>]

LEMMA LastPathsProperties ==
    ASSUME SaveInterval # 0, NEW d \in Nat, NEW n \in 0..d
    PROVE  /\ Len(LastPaths(d, n)) = n /\ DOMAIN LastPaths(d, n) = 1..n
           /\ LastPaths(d, n) \in Seq({"interval"} \X Nat)
           /\ IsInjective(LastPaths(d, n))
           /\ \A p \in ToSet(LastPaths(d, n)) : p[2] \in Nat /\ p[2] <= d * SaveInterval
<1> DEFINE l == LastPaths(d, n)
<1>1. SaveInterval \in Nat \ {0} /\ n \in Nat /\ d * SaveInterval \in Nat
  BY ParamAssumption
<1>2. \A k \in 1..n : d - n + k \in Nat /\ d - n + k <= d
  OBVIOUS
<1>3. ASSUME NEW k \in 1..n
      PROVE  /\ (d - n + k) * SaveInterval \in Nat
             /\ (d - n + k) * SaveInterval <= d * SaveInterval
  <2>1. PICK a \in Nat : a = d - n + k /\ a <= d
    BY <1>2
  <2>2. CASE a = d
    BY <1>1, <2>1, <2>2
  <2>3. CASE a < d
    BY <1>1, <2>1, <2>3, TimesLess
  <2>4. QED BY <2>1, <2>2, <2>3
<1>4. l \in [1..n -> {"interval"} \X Nat] /\ \A k \in 1..n :
         l[k] = <<"interval", (d - n + k) * SaveInterval>>
  BY <1>3 DEF LastPaths
<1>5. l \in Seq({"interval"} \X Nat) /\ Len(l) = n /\ DOMAIN l = 1..n
  BY <1>1, <1>4
<1>6. IsInjective(l)
  <2>1. SUFFICES ASSUME NEW i \in 1..n, NEW j \in 1..n, i < j PROVE l[i] # l[j]
    BY <1>5 DEF IsInjective
  <2>2. PICK a \in Nat, b \in Nat : a = d - n + i /\ b = d - n + j /\ a < b
    BY <1>2, <2>1
  <2>3. a * SaveInterval < b * SaveInterval
        /\ a * SaveInterval \in Nat /\ b * SaveInterval \in Nat
    BY <1>1, <2>2, TimesLess
  <2>4. QED BY <1>4, <2>2, <2>3
<1>7. ASSUME NEW p \in ToSet(l) PROVE p[2] \in Nat /\ p[2] <= d * SaveInterval
  <2>1. PICK k \in 1..n : p = l[k]
    BY <1>5 DEF ToSet
  <2>2. PICK x : x = (d - n + k) * SaveInterval
    OBVIOUS
  <2>3. p = <<"interval", x>> /\ x \in Nat /\ x <= d * SaveInterval
    BY <1>3, <1>4, <2>1, <2>2
  <2>4. QED BY <2>3
<1>8. QED BY <1>5, <1>6, <1>7

LEMMA LastPathsTail ==
    ASSUME NEW d \in Nat, NEW n \in 1..d, SaveInterval # 0
    PROVE  Tail(LastPaths(d, n)) = LastPaths(d, n - 1)
<1> DEFINE l == LastPaths(d, n)
           m == LastPaths(d, n - 1)
<1>1. n \in 0..d /\ n - 1 \in 0..d
  OBVIOUS
<1>2. /\ Len(l) = n /\ l \in Seq({"interval"} \X Nat)
      /\ Len(m) = n - 1 /\ m \in Seq({"interval"} \X Nat)
  BY <1>1, LastPathsProperties
<1>3. /\ Tail(l) \in Seq({"interval"} \X Nat) /\ Len(Tail(l)) = n - 1
      /\ \A k \in 1..(n - 1) : Tail(l)[k] = l[k + 1]
  BY <1>2
<1>4. ASSUME NEW k \in 1..(n - 1) PROVE l[k + 1] = m[k]
  <2>1. l[k + 1] = <<"interval", (d - n + (k + 1)) * SaveInterval>>
    BY DEF LastPaths
  <2>2. m[k] = <<"interval", (d - (n - 1) + k) * SaveInterval>>
    BY DEF LastPaths
  <2>3. d - n + (k + 1) = d - (n - 1) + k
    OBVIOUS
  <2>4. QED BY <2>1, <2>2, <2>3
<1>5. QED BY <1>2, <1>3, <1>4, SeqEqual

LEMMA LastPathsAppend ==
    ASSUME NEW d \in Nat, NEW n \in 0..d, SaveInterval # 0
    PROVE  Append(LastPaths(d, n), <<"interval", (d + 1) * SaveInterval>>)
              = LastPaths(d + 1, n + 1)
<1> DEFINE l == LastPaths(d, n)
           m == LastPaths(d + 1, n + 1)
           e == <<"interval", (d + 1) * SaveInterval>>
<1>1. n + 1 \in 0..(d + 1) /\ d + 1 \in Nat /\ SaveInterval \in Nat
  BY ParamAssumption
<1>2. e \in {"interval"} \X Nat
  BY <1>1
<1>3. /\ Len(l) = n /\ l \in Seq({"interval"} \X Nat)
      /\ Len(m) = n + 1 /\ m \in Seq({"interval"} \X Nat)
  BY <1>1, LastPathsProperties
<1>4. /\ Append(l, e) \in Seq({"interval"} \X Nat) /\ Len(Append(l, e)) = n + 1
      /\ \A k \in 1..(n + 1) : Append(l, e)[k] = IF k = n + 1 THEN e ELSE l[k]
  <2> HIDE DEF l, e
  <2> QED BY <1>2, <1>3, AppendProperties
<1>5. ASSUME NEW k \in 1..(n + 1) PROVE m[k] = IF k = n + 1 THEN e ELSE l[k]
  <2>1. m[k] = <<"interval", ((d + 1) - (n + 1) + k) * SaveInterval>>
    BY DEF LastPaths
  <2>2. (d + 1) - (n + 1) + k = d - n + k
    OBVIOUS
  <2>3. CASE k = n + 1
    <3>1. d - n + k = d + 1
      BY <2>3
    <3>2. QED BY <2>1, <2>2, <2>3, <3>1
  <2>4. CASE k # n + 1
    <3>1. l[k] = <<"interval", (d - n + k) * SaveInterval>>
      BY <2>4 DEF LastPaths
    <3>2. QED BY <2>1, <2>2, <2>4, <3>1
  <2>5. QED BY <2>3, <2>4
<1>6. QED BY <1>3, <1>4, <1>5, SeqEqual

(* How many files were due so far, but for one that is pending or being    *)
(* written, and how many of them are kept.                                 *)
Saving == step \in {"openInterval", "saveInterval"}
Due    == (iterations - IF step = "run" THEN 0 ELSE 1) \div SaveInterval
Most   == KeepCount - IF Saving THEN 1 ELSE 0
Kept   == IF Due < Most THEN Due ELSE Most

OnDisk(q) == \A p \in IntervalPaths : p \in ToSet(q) <=> files[p] \in Losses

IntervalInv ==
    ~wasReset /\ SaveInterval # 0 =>
        /\ step # "run" => iterations # 0
        /\ Saving => iterations % SaveInterval = 0
        /\ intervalSavedParamPathQueue = LastPaths(Due, Kept)
        /\ OnDisk(intervalSavedParamPathQueue)

LEMMA DueProperties ==
    ASSUME FileTypes, SaveInterval # 0, step # "run" => iterations # 0
    PROVE  /\ Due \in Nat /\ Most \in Nat /\ Kept \in 0..Due /\ Kept <= KeepCount
           /\ KeepCount \in Nat \ {0} /\ SaveInterval \in Nat \ {0}
           /\ Most = IF Saving THEN KeepCount - 1 ELSE KeepCount
<1>1. SaveInterval \in Nat \ {0} /\ KeepCount \in Nat \ {0} /\ iterations \in Nat
  BY ParamAssumption DEF FileTypes
<1>2. PICK n \in Nat : n = iterations - IF step = "run" THEN 0 ELSE 1
  BY <1>1
<1>3. Due \in Nat
  BY <1>1, <1>2, DivProperties DEF Due
<1>4. Most \in Nat /\ Most <= KeepCount /\ Most = IF Saving THEN KeepCount - 1 ELSE KeepCount
  BY <1>1 DEF Most
<1>5. QED BY <1>1, <1>3, <1>4 DEF Kept

LEMMA InitInterval == Init => IntervalInv
<1>1. SUFFICES ASSUME Init, SaveInterval # 0 PROVE IntervalInv
  BY DEF IntervalInv
<1>2. /\ iterations = 0 /\ step = "run" /\ intervalSavedParamPathQueue = <<>>
      /\ files = [p \in Paths |-> Absent]
  BY <1>1 DEF Init, ParamInit
<1>3. FileTypes
  BY <1>1, ParamAssumption DEF Init, ParamInit, MeasureInit, FileTypes, Steps
<1>4. Due = 0
  <2>1. SaveInterval \in Nat \ {0} /\ 0 \in 0..(SaveInterval - 1) /\ 0 \in Nat
    BY <1>1, ParamAssumption
  <2>2. (0 * SaveInterval + 0) \div SaveInterval = 0
    BY <2>1, DivUnique
  <2>3. 0 * SaveInterval + 0 = 0 /\ iterations - 0 = 0
    BY <1>2, <2>1
  <2>4. QED BY <1>2, <2>2, <2>3 DEF Due
<1>5. Kept = 0 /\ ~Saving
  BY <1>1, <1>2, <1>3, <1>4, DueProperties DEF Saving
<1>6. LastPaths(0, 0) = <<>>
  BY DEF LastPaths
<1>7. OnDisk(<<>>)
  BY <1>2, PathFacts DEF OnDisk, ToSet
<1>8. QED BY <1>2, <1>4, <1>5, <1>6, <1>7 DEF IntervalInv

(* The steps between two files of an interval.                             *)
LEMMA IntervalSame ==
    ASSUME IntervalInv, FileTypes, ~wasReset, ~Saving, ~Saving', Due' = Due,
           step' # "run" => iterations' # 0,
           intervalSavedParamPathQueue' = intervalSavedParamPathQueue,
           \A p \in IntervalPaths : files'[p] = files[p]
    PROVE  IntervalInv'
<1>1. Most' = Most
  BY DEF Most
<1>2. Kept' = Kept
  BY <1>1 DEF Kept
<1>3. QED BY <1>1, <1>2 DEF IntervalInv, OnDisk, LastPaths

(* A due file: the oldest goes if there are enough, ...                    *)
LEMMA RemoveOldestInterval ==
    ASSUME IntervalInv, FileTypes, ~wasReset, SaveInterval # 0, RemoveOldest,
           iterations % SaveInterval = 0
    PROVE  IntervalInv'
<1> DEFINE queue == intervalSavedParamPathQueue
           d == Due
           n == Kept
<1>1. /\ step = "interval" /\ step' = "openInterval" /\ UNCHANGED iterations
      /\ \/ /\ Len(queue) = KeepCount
            /\ files' = [files EXCEPT ![Head(queue)] = Absent]
            /\ queue' = Tail(queue)
         \/ Len(queue) # KeepCount /\ UNCHANGED <<files, queue>>
  BY DEF RemoveOldest, Goto
<1>2. /\ iterations # 0 /\ ~Saving /\ Saving'
      /\ queue = LastPaths(d, n) /\ OnDisk(queue)
  BY <1>1 DEF IntervalInv, Saving
<1>3. /\ d \in Nat /\ n \in 0..d /\ n <= KeepCount /\ KeepCount \in Nat \ {0}
      /\ n = IF d < KeepCount THEN d ELSE KeepCount
  <2>1. d \in Nat /\ Kept \in 0..Due /\ KeepCount \in Nat \ {0} /\ Most = KeepCount
    BY <1>1, <1>2, DueProperties
  <2>2. QED BY <2>1 DEF Kept
<1>4. /\ Len(queue) = n /\ IsInjective(queue) /\ queue \in Seq(IntervalPaths)
  BY <1>2, <1>3, LastPathsProperties DEF FileTypes
<1>5. Due' = d /\ Most' = KeepCount - 1
  BY <1>1, <1>2 DEF Due, Most
<1>6. Kept' = IF d < KeepCount - 1 THEN d ELSE KeepCount - 1
  BY <1>5 DEF Kept
<1>7. CASE Len(queue) = KeepCount
  <2>1. n = KeepCount /\ n \in 1..d /\ Kept' = n - 1
    BY <1>3, <1>4, <1>6, <1>7
  <2>2. queue' = LastPaths(d, n - 1)
    <3>1. PICK e \in Nat : e = d
      BY <1>3
    <3>2. PICK m \in 1..e : m = n
      BY <2>1, <3>1
    <3>3. Tail(LastPaths(e, m)) = LastPaths(e, m - 1)
      BY LastPathsTail
    <3>4. Len(queue) = KeepCount => queue' = Tail(queue)
      BY <1>1
    <3>5. QED BY <1>2, <1>7, <3>1, <3>2, <3>3, <3>4
  <2>3. queue # <<>>
    BY <1>4, <2>1
  <2>4. /\ Head(queue) \in IntervalPaths /\ Head(queue) \notin ToSet(Tail(queue))
        /\ ToSet(queue) = {Head(queue)} \cup ToSet(Tail(queue))
    BY <1>4, <2>3, PopProperties
  <2>5. \A p \in IntervalPaths : files'[p] = IF p = Head(queue) THEN Absent ELSE files[p]
    BY <1>1, <1>7, PathFacts DEF FileTypes
  <2>6. \A p \in IntervalPaths : p \in ToSet(Tail(queue)) <=> files'[p] \in Losses
    BY <1>2, <2>4, <2>5, PathFacts DEF OnDisk
  <2>7. queue' = LastPaths(Due, Kept)'
    BY <1>5, <2>1, <2>2 DEF LastPaths
  <2>8. OnDisk(queue)'
    BY <1>1, <1>7, <2>6 DEF OnDisk
  <2>9. QED BY <1>1, <1>2, <2>7, <2>8 DEF IntervalInv
<1>8. CASE Len(queue) # KeepCount
  <2>1. Kept' = n /\ UNCHANGED <<files, queue>>
    BY <1>1, <1>3, <1>4, <1>6, <1>8
  <2>2. queue' = LastPaths(Due, Kept)'
    BY <1>2, <1>5, <2>1 DEF LastPaths
  <2>3. OnDisk(queue)'
    BY <1>2, <2>1 DEF OnDisk
  <2>4. QED BY <1>1, <1>2, <2>2, <2>3 DEF IntervalInv
<1>9. QED BY <1>7, <1>8

(* ... or none is due.                                                     *)
LEMMA NoneDue ==
    ASSUME IntervalInv, FileTypes, ~wasReset, SaveInterval # 0, RemoveOldest,
           iterations % SaveInterval # 0
    PROVE  IntervalInv'
<1>1. /\ step = "interval" /\ step' = "run"
      /\ UNCHANGED <<iterations, files, intervalSavedParamPathQueue>>
  BY DEF RemoveOldest, Goto
<1>2. iterations \in Nat \ {0} /\ SaveInterval \in Nat \ {0}
  BY <1>1, ParamAssumption DEF IntervalInv, FileTypes
<1>3. iterations \div SaveInterval = (iterations - 1) \div SaveInterval
  BY <1>2, NextDue
<1>4. Due' = Due
  <2>1. iterations - 0 = iterations
    BY <1>2
  <2>2. Due = (iterations - 1) \div SaveInterval /\ Due' = iterations \div SaveInterval
    BY <1>1, <2>1 DEF Due
  <2>3. QED BY <1>3, <2>2
<1>5. QED BY <1>1, <1>4, IntervalSame DEF Saving

(* The path that is written is newer than those that are there, ...        *)
LEMMA OpenIntervalStep ==
    ASSUME IntervalInv, FileTypes, ~wasReset, SaveInterval # 0, OpenInterval
    PROVE  IntervalInv'
<1> DEFINE queue == intervalSavedParamPathQueue
<1>1. /\ step = "openInterval" /\ step' = "saveInterval"
      /\ files' = [files EXCEPT ![IntervalPath] = Partial]
      /\ UNCHANGED <<iterations, queue>> /\ Saving /\ Saving'
  BY DEF OpenInterval, Goto, Saving
<1>2. /\ iterations \in Nat \ {0} /\ queue = LastPaths(Due, Kept) /\ OnDisk(queue)
      /\ iterations % SaveInterval = 0 /\ SaveInterval \in Nat \ {0}
  BY <1>1, ParamAssumption DEF IntervalInv, FileTypes
<1>3. IntervalPath \notin ToSet(queue)
  <2>1. Due = (iterations - 1) \div SaveInterval /\ Due \in Nat /\ Kept \in 0..Due
    BY <1>1, <1>2, DueProperties DEF Due
  <2>2. Due * SaveInterval < iterations /\ Due * SaveInterval \in Nat
    BY <1>2, <2>1, NextDue
  <2>3. \A p \in ToSet(queue) : p[2] \in Nat /\ p[2] <= Due * SaveInterval
    BY <1>2, <2>1, LastPathsProperties
  <2>4. IntervalPath[2] = iterations
    BY DEF IntervalPath
  <2>5. QED BY <1>2, <2>2, <2>3, <2>4
<1>4. \A p \in IntervalPaths : files'[p] = IF p = IntervalPath THEN Partial ELSE files[p]
  BY <1>1, PathFacts DEF FileTypes
<1>5. OnDisk(queue)'
  BY <1>1, <1>2, <1>3, <1>4, PathFacts, IterationPaths DEF OnDisk
<1>6. Due' = Due /\ Kept' = Kept
  BY <1>1 DEF Due, Kept, Most
<1>7. QED BY <1>1, <1>2, <1>5, <1>6 DEF IntervalInv, LastPaths

(* ... and then is the last of them.                                       *)
LEMMA WriteIntervalStep ==
    ASSUME IntervalInv, FileTypes, ~wasReset, SaveInterval # 0, WriteInterval
    PROVE  IntervalInv'
<1> DEFINE queue == intervalSavedParamPathQueue
           d == Due
           n == Kept
<1>1. /\ step = "saveInterval" /\ step' = "run" /\ loss \in Losses
      /\ files' = [files EXCEPT ![IntervalPath] = loss]
      /\ queue' = Append(queue, IntervalPath)
      /\ UNCHANGED iterations /\ Saving /\ ~Saving'
  BY DEF WriteInterval, Goto, Saving, FileTypes
<1>2. /\ iterations \in Nat \ {0} /\ queue = LastPaths(d, n) /\ OnDisk(queue)
      /\ iterations % SaveInterval = 0 /\ SaveInterval \in Nat \ {0}
  BY <1>1, ParamAssumption DEF IntervalInv, FileTypes
<1>3. /\ d \in Nat /\ n \in 0..d /\ KeepCount \in Nat \ {0}
      /\ n = IF d < KeepCount - 1 THEN d ELSE KeepCount - 1
  <2>1. d \in Nat /\ Kept \in 0..Due /\ KeepCount \in Nat \ {0} /\ Most = KeepCount - 1
    BY <1>1, <1>2, DueProperties
  <2>2. QED BY <2>1 DEF Kept
<1>4. d = (iterations - 1) \div SaveInterval
  BY <1>1 DEF Due
<1>5. iterations \div SaveInterval = d + 1 /\ (d + 1) * SaveInterval = iterations
  BY <1>2, <1>4, NextDue
<1>6. Due' = d + 1
  <2>1. iterations - 0 = iterations
    BY <1>2
  <2>2. Due' = iterations \div SaveInterval
    BY <1>1, <2>1 DEF Due
  <2>3. QED BY <1>5, <2>2
<1>7. Kept' = n + 1
  <2>1. Most' = KeepCount
    BY <1>1, <1>3 DEF Most
  <2>2. Kept' = IF d + 1 < KeepCount THEN d + 1 ELSE KeepCount
    BY <1>6, <2>1 DEF Kept
  <2>3. QED BY <1>3, <2>2
<1>8. queue' = LastPaths(Due, Kept)'
  <2>1. IntervalPath = <<"interval", (d + 1) * SaveInterval>>
    BY <1>5 DEF IntervalPath
  <2>2. queue' = LastPaths(d + 1, n + 1)
    BY <1>1, <1>2, <1>3, <2>1, LastPathsAppend
  <2>3. QED BY <1>6, <1>7, <2>2 DEF LastPaths
<1>9. OnDisk(queue)'
  <2>1. ToSet(queue') = ToSet(queue) \cup {IntervalPath}
    <3>1. queue \in Seq(IntervalPaths) /\ IntervalPath \in IntervalPaths
      BY IterationPaths DEF FileTypes
    <3>2. Append(queue, IntervalPath) = queue \o <<IntervalPath>>
          /\ <<IntervalPath>> \in Seq(IntervalPaths)
      BY <3>1, AppendIsConcat
    <3>3. ToSet(queue \o <<IntervalPath>>) = ToSet(queue) \cup ToSet(<<IntervalPath>>)
      BY <3>1, <3>2, JoinProperties
    <3>4. ToSet(<<IntervalPath>>) = {IntervalPath}
      BY DEF ToSet
    <3>5. QED BY <1>1, <3>2, <3>3, <3>4
  <2>2. \A p \in IntervalPaths : files'[p] = IF p = IntervalPath THEN loss ELSE files[p]
    BY <1>1, PathFacts DEF FileTypes
  <2>3. QED BY <1>1, <1>2, <2>1, <2>2 DEF OnDisk
<1>10. QED BY <1>1, <1>8, <1>9 DEF IntervalInv

LEMMA IntervalInvStep == FilesInv /\ IntervalInv /\ [Next]_vars => IntervalInv'
<1>1. SUFFICES ASSUME FilesInv, IntervalInv, [Next]_vars, ~wasReset', SaveInterval # 0
               PROVE  IntervalInv'
  BY DEF IntervalInv
<1>2. ~wasReset /\ (Reset => FALSE)
  BY <1>1 DEF Next, GeneratePlan, EndMiniBatch, AddData, SaveParams, OpenBest, SaveBest,
              RemoveBest, RemoveOldest, OpenInterval, WriteInterval, Reset, vars, paramVars
<1>3. FileTypes
  BY <1>1, <1>2 DEF FilesInv
<1>4. ASSUME UNCHANGED paramVars PROVE IntervalInv'
  BY <1>1, <1>4 DEF paramVars, IntervalInv, Saving, Due, Most, Kept, OnDisk, LastPaths
<1>5. ASSUME NEW l \in Losses, GeneratePlan(l) PROVE IntervalInv'
  <2>1. /\ step = "run" /\ step' = "measure" /\ iterations' = iterations + 1
        /\ UNCHANGED <<files, intervalSavedParamPathQueue>>
    BY <1>5 DEF GeneratePlan, EndMiniBatch, Goto
  <2>2. iterations \in Nat /\ iterations' - 1 = iterations /\ iterations - 0 = iterations
        /\ iterations' # 0
    BY <1>3, <2>1 DEF FileTypes
  <2>3. Due' = Due
    BY <2>1, <2>2 DEF Due
  <2>4. QED BY <1>1, <1>2, <1>3, <2>1, <2>2, <2>3, IntervalSame DEF Saving
<1>6. ASSUME step \in {"measure", "best", "saveBest", "removeBest"},
             step' \in {"best", "saveBest", "removeBest", "interval"},
             UNCHANGED <<iterations, intervalSavedParamPathQueue>>,
             \A p \in IntervalPaths : files'[p] = files[p]
      PROVE  IntervalInv'
  <2>1. Due' = Due
    BY <1>6 DEF Due
  <2>2. iterations' # 0
    BY <1>1, <1>2, <1>6 DEF IntervalInv
  <2>3. QED BY <1>1, <1>2, <1>3, <1>6, <2>1, <2>2, IntervalSame DEF Saving
<1>7. CASE AddData
  <2>1. \/ UNCHANGED paramVars
        \/ writing = "copy" /\ step' = "best"
           /\ UNCHANGED <<iterations, files, intervalSavedParamPathQueue>>
    BY <1>7 DEF AddData, AddEnds, Goto
  <2>2. CASE writing = "copy" /\ step' = "best"
             /\ UNCHANGED <<iterations, files, intervalSavedParamPathQueue>>
    <3>1. step = "measure"
      BY <1>3, <2>2 DEF FileTypes
    <3>2. QED BY <1>6, <2>2, <3>1
  <2>3. QED BY <1>4, <2>1, <2>2
<1>8. CASE OpenBest \/ SaveBest \/ RemoveBest
  <2>1. /\ step \in {"best", "saveBest", "removeBest"}
        /\ step' \in {"saveBest", "removeBest", "interval"}
        /\ UNCHANGED <<iterations, intervalSavedParamPathQueue>>
    BY <1>8 DEF OpenBest, SaveBest, RemoveBest, Goto
  <2>2. \/ files' = files
        \/ \E p \in BestPaths : \E f : files' = [files EXCEPT ![p] = f]
    <3>1. BestPath \in BestPaths /\ (bestSavedParamPath # Absent =>
                                        bestSavedParamPath \in BestPaths)
      BY <1>3, IterationPaths DEF FileTypes
    <3>2. QED BY <1>8, <3>1 DEF OpenBest, SaveBest, RemoveBest
  <2>3. \A p \in IntervalPaths : files'[p] = files[p]
    BY <1>3, <2>2, PathFacts DEF FileTypes
  <2>4. QED BY <1>6, <2>1, <2>3
<1>9. CASE RemoveOldest \/ OpenInterval \/ WriteInterval
  BY <1>1, <1>2, <1>3, <1>9, RemoveOldestInterval, NoneDue, OpenIntervalStep,
     WriteIntervalStep
<1>10. CASE UNCHANGED vars
  BY <1>4, <1>10 DEF vars
<1>11. QED
  BY <1>1, <1>2, <1>4, <1>5, <1>7, <1>8, <1>9, <1>10 DEF Next, SaveParams

(* Whenever the server dies, the files of the last KeepCount due iterations *)
(* are there, complete, and the queue names them in order; the one that is  *)
(* written takes the place of the oldest, and there are no others           *)
(* (handleIntervalSaveParams).                                              *)
THEOREM IntervalIsKept == Spec => []IntervalKept
<1>1. Init => IntervalInv
  BY InitInterval
<1>2. FilesInv /\ IntervalInv /\ [Next]_vars => IntervalInv'
  BY IntervalInvStep
<1>3. FilesInv /\ IntervalInv => IntervalKept
  <2>1. SUFFICES ASSUME FileTypes, IntervalInv, ~wasReset, SaveInterval # 0
                 PROVE  IntervalKept
    BY DEF FilesInv, IntervalKept
  <2>2. /\ intervalSavedParamPathQueue = LastPaths(Due, Kept)
        /\ \A p \in Paths : p[1] = "interval" => p \in IntervalPaths
        /\ OnDisk(intervalSavedParamPathQueue)
    BY <2>1 DEF IntervalInv, Paths, IntervalPaths
  <2>3. step \notin {"run", "openInterval", "saveInterval"} \/ Saving <=> step # "run"
    BY DEF Saving
  <2>4. QED
    BY <2>1, <2>2, <2>3 DEF IntervalKept, OnDisk, LastPaths, Due, Kept, Most, Saving
<1>4. QED BY <1>1, <1>2, <1>3, FilesSafe, PTL DEF Spec

-----------------------------------------------------------------------------
(* The areas of the ring.                                                  *)

IsPair(as) == as \in Areas \X Areas
InRing(as) == \A k \in {1, 2} : as[k].start + as[k].count <= QueueSize

LEMMA RingSize ==
    /\ QueueSize \in Nat /\ QueueSize >= 2 /\ MaxRetry \in Nat /\ MaxRetry >= 1
    /\ Slots = 0..(QueueSize - 1) /\ 0 \in Slots
    /\ None \notin Nat
BY MeasureAssumption DEF Slots

LEMMA AreaParts ==
    ASSUME NEW as, IsPair(as)
    PROVE  /\ as[1].start \in Nat /\ as[1].start < QueueSize
           /\ as[1].count \in Nat /\ as[1].count <= QueueSize
           /\ as[2].start \in Nat /\ as[2].start < QueueSize
           /\ as[2].count \in Nat /\ as[2].count <= QueueSize
           /\ as[1].start \in Slots /\ as[2].start \in Slots
           /\ Size(as) \in Nat
<1>1. as[1] \in Areas /\ as[2] \in Areas
  BY DEF IsPair
<1>2. /\ as[1].start \in Slots /\ as[1].count \in 0..QueueSize
      /\ as[2].start \in Slots /\ as[2].count \in 0..QueueSize
  BY <1>1 DEF Areas
<1>3. \A i \in Slots : i \in Nat /\ i < QueueSize
  BY RingSize
<1>4. \A i \in 0..QueueSize : i \in Nat /\ i <= QueueSize
  BY RingSize
<1>5. Size(as) \in Nat
  <2>1. as[1].count \in Nat /\ as[2].count \in Nat
    BY <1>2, <1>4
  <2>2. \A x, y \in Nat : x + y \in Nat
    OBVIOUS
  <2>3. QED BY <2>1, <2>2, Zenon DEF Size
<1>6. QED BY <1>2, <1>3, <1>4, <1>5

LEMMA AreaIsPair ==
    ASSUME NEW s \in Slots, NEW c \in 0..QueueSize
    PROVE  Area(s, c) \in Areas /\ Area(s, c).start = s /\ Area(s, c).count = c
BY DEF Area, Areas

LEMMA NoAreasPair ==
    /\ IsPair(NoAreas) /\ Size(NoAreas) = 0 /\ InRing(NoAreas)
    /\ NoAreas[1].start = 0 /\ NoAreas[1].count = 0
    /\ NoAreas[2].start = 0 /\ NoAreas[2].count = 0
BY RingSize DEF IsPair, NoAreas, NoArea, Area, Areas, Size, InRing

(* What setAreaLock locks of both areas when it has come to slot n.        *)
LEMMA FirstOfAreas ==
    ASSUME NEW as, IsPair(as), NEW n \in Nat, NEW i \in Slots
    PROVE  /\ i \in FirstSlots(as, n, 1) <=>
                 /\ as[1].start <= i /\ i < as[1].start + as[1].count
                 /\ i < as[1].start + n
           /\ i \in FirstSlots(as, n, 2) <=>
                 /\ as[2].start <= i /\ i < as[2].start + as[2].count
                 /\ i < as[2].start + (n - as[1].count)
<1>1. 1 # 2
  OBVIOUS
<1>2. QED BY <1>1, Zenon DEF FirstSlots

(* All that is said of a pair of areas, in numbers.                        *)
InNumbers(as, s, c, t, d) ==
    /\ as[1].start = s /\ as[1].count = c /\ as[2].start = t /\ as[2].count = d
    /\ s < QueueSize /\ c <= QueueSize /\ t < QueueSize /\ d <= QueueSize
    /\ Size(as) = c + d
    /\ InRing(as) <=> (s + c <= QueueSize /\ t + d <= QueueSize)
    /\ \A n \in Nat, i \in Slots :
          /\ i \in FirstSlots(as, n, 1) <=> (s <= i /\ i < s + c /\ i < s + n)
          /\ i \in FirstSlots(as, n, 2) <=> (t <= i /\ i < t + d /\ i < t + (n - c))
    /\ \A j \in Nat : SlotAt(as, j) = IF j <= c THEN s + j - 1 ELSE t + j - c - 1

LEMMA AreaNumbers ==
    ASSUME NEW as, IsPair(as)
    PROVE  \E s, c, t, d \in Nat : InNumbers(as, s, c, t, d)
<1> DEFINE s == as[1].start
           c == as[1].count
           t == as[2].start
           d == as[2].count
<1>1. /\ s \in Nat /\ c \in Nat /\ t \in Nat /\ d \in Nat
      /\ s < QueueSize /\ c <= QueueSize /\ t < QueueSize /\ d <= QueueSize
  BY AreaParts
<1>2. /\ Size(as) = c + d
      /\ InRing(as) <=> (s + c <= QueueSize /\ t + d <= QueueSize)
  BY Zenon DEF Size, InRing
<1>3. \A n \in Nat, i \in Slots :
         /\ i \in FirstSlots(as, n, 1) <=> (s <= i /\ i < s + c /\ i < s + n)
         /\ i \in FirstSlots(as, n, 2) <=> (t <= i /\ i < t + d /\ i < t + (n - c))
  BY FirstOfAreas, Zenon
<1>4. \A j \in Nat : SlotAt(as, j) = IF j <= c THEN s + j - 1 ELSE t + j - c - 1
  BY Zenon DEF SlotAt
<1>5. InNumbers(as, s, c, t, d)
  BY <1>1, <1>2, <1>3, <1>4, Zenon DEF InNumbers
<1>6. QED BY <1>1, <1>5, Zenon

LEMMA FirstSlotsGrow ==
    ASSUME NEW as, IsPair(as), NEW n \in Nat, NEW m \in Nat, n <= m,
           NEW k \in {1, 2}
    PROVE  FirstSlots(as, n, k) \subseteq FirstSlots(as, m, k)
<1>1. FirstSlots(as, n, k) \subseteq Slots
  BY DEF FirstSlots
<1>2. ASSUME NEW i \in Slots, i \in FirstSlots(as, n, k) PROVE i \in FirstSlots(as, m, k)
  <2>1. PICK s, c, t, d \in Nat : InNumbers(as, s, c, t, d)
    BY AreaNumbers
  <2>2. i \in Int
    BY RingSize
  <2>3. /\ i \in FirstSlots(as, n, 1) <=> (s <= i /\ i < s + c /\ i < s + n)
        /\ i \in FirstSlots(as, n, 2) <=> (t <= i /\ i < t + d /\ i < t + (n - c))
        /\ i \in FirstSlots(as, m, 1) <=> (s <= i /\ i < s + c /\ i < s + m)
        /\ i \in FirstSlots(as, m, 2) <=> (t <= i /\ i < t + d /\ i < t + (m - c))
    BY <2>1 DEF InNumbers
  <2>4. CASE k = 1
    <3>1. s <= i /\ i < s + c /\ i < s + n
      BY <1>2, <2>3, <2>4
    <3>2. i < s + m
      BY <2>2, <3>1
    <3>3. QED BY <2>3, <2>4, <3>1, <3>2
  <2>5. CASE k = 2
    <3>1. t <= i /\ i < t + d /\ i < t + (n - c)
      BY <1>2, <2>3, <2>5
    <3>2. i < t + (m - c)
      BY <2>2, <3>1
    <3>3. QED BY <2>3, <2>5, <3>1, <3>2
  <2>6. QED BY <2>4, <2>5
<1>3. QED BY <1>1, <1>2

LEMMA NothingFirst ==
    ASSUME NEW as, IsPair(as), NEW k \in {1, 2}, NEW n \in Nat,
           n = 0 \/ Size(as) = 0
    PROVE  FirstSlots(as, n, k) = {}
<1>1. FirstSlots(as, n, k) \subseteq Slots
  BY DEF FirstSlots
<1>2. ASSUME NEW i \in Slots PROVE i \notin FirstSlots(as, n, k)
  <2>1. PICK s, c, t, d \in Nat : InNumbers(as, s, c, t, d)
    BY AreaNumbers
  <2>2. i \in Int
    BY RingSize
  <2>3. /\ i \in FirstSlots(as, n, 1) <=> (s <= i /\ i < s + c /\ i < s + n)
        /\ i \in FirstSlots(as, n, 2) <=> (t <= i /\ i < t + d /\ i < t + (n - c))
        /\ Size(as) = c + d
    BY <2>1 DEF InNumbers
  <2>4. ~(s <= i /\ i < s + c /\ i < s + n)
    BY <2>2, <2>3
  <2>5. ~(t <= i /\ i < t + d /\ i < t + (n - c))
    BY <2>2, <2>3
  <2>6. QED BY <2>3, <2>4, <2>5, Zenon
<1>3. QED BY <1>1, <1>2

(* The slots that one hold of the mutex locks are those of its places.     *)
IsPlace(as, n, m, i) == \E j \in (n + 1)..m : SlotAt(as, j) = i

LEMMA LockedPlaces ==
    ASSUME NEW as, IsPair(as), NEW n \in Nat, NEW m \in Nat, m <= Size(as),
           NEW k \in {1, 2}, NEW i \in FirstSlots(as, m, k) \ FirstSlots(as, n, k)
    PROVE  IsPlace(as, n, m, i)
<1>1. i \in Slots /\ i \in Int
  BY RingSize DEF FirstSlots
<1>2. PICK s, c, t, d \in Nat : InNumbers(as, s, c, t, d)
  BY AreaNumbers
<1>3. CASE k = 1
  <2>1. s <= i /\ i < s + c /\ i < s + m /\ ~(i < s + n)
    BY <1>1, <1>2, <1>3 DEF InNumbers
  <2>2. /\ i - s + 1 \in (n + 1)..m /\ i - s + 1 \in Nat
        /\ i - s + 1 <= c
    BY <1>1, <2>1
  <2>3. SlotAt(as, i - s + 1) = s + (i - s + 1) - 1
    BY <1>2, <2>2 DEF InNumbers
  <2>4. s + (i - s + 1) - 1 = i
    BY <1>1
  <2>5. QED BY <2>2, <2>3, <2>4 DEF IsPlace
<1>4. CASE k = 2
  <2>1. t <= i /\ i < t + d /\ i < t + (m - c) /\ ~(i < t + (n - c))
    BY <1>1, <1>2, <1>4 DEF InNumbers
  <2>2. /\ i - t + c + 1 \in (n + 1)..m /\ i - t + c + 1 \in Nat
        /\ ~(i - t + c + 1 <= c)
    BY <1>1, <2>1
  <2>3. SlotAt(as, i - t + c + 1) = t + (i - t + c + 1) - c - 1
    BY <1>2, <2>2 DEF InNumbers
  <2>4. t + (i - t + c + 1) - c - 1 = i
    BY <1>1
  <2>5. QED BY <2>2, <2>3, <2>4 DEF IsPlace
<1>5. QED BY <1>3, <1>4

LEMMA PlaceIsFirst ==
    ASSUME NEW as, IsPair(as), InRing(as), NEW n \in Nat, NEW j \in 1..Size(as),
           j <= n
    PROVE  SlotAt(as, j) \in Slots /\ \E k \in {1, 2} : SlotAt(as, j) \in FirstSlots(as, n, k)
<1>1. PICK s, c, t, d \in Nat : InNumbers(as, s, c, t, d)
  BY AreaNumbers
<1>2. j \in Nat /\ j >= 1 /\ j <= c + d
  BY <1>1 DEF InNumbers
<1>3. CASE j <= c
  <2>1. SlotAt(as, j) = s + j - 1
    BY <1>1, <1>2, <1>3 DEF InNumbers
  <2>2. s + j - 1 \in 0..(QueueSize - 1)
    BY <1>1, <1>2, <1>3, RingSize DEF InNumbers
  <2>3. s + j - 1 \in Slots
    BY <2>2 DEF Slots
  <2>4. s <= s + j - 1 /\ s + j - 1 < s + c /\ s + j - 1 < s + n
    BY <1>2, <1>3
  <2>5. s + j - 1 \in FirstSlots(as, n, 1)
    BY <1>1, <2>3, <2>4 DEF InNumbers
  <2>6. QED BY <2>1, <2>3, <2>5
<1>4. CASE ~(j <= c)
  <2>1. SlotAt(as, j) = t + j - c - 1
    BY <1>1, <1>2, <1>4 DEF InNumbers
  <2>2. t + j - c - 1 \in 0..(QueueSize - 1)
    BY <1>1, <1>2, <1>4, RingSize DEF InNumbers
  <2>3. t + j - c - 1 \in Slots
    BY <2>2 DEF Slots
  <2>4. /\ t <= t + j - c - 1 /\ t + j - c - 1 < t + d
        /\ t + j - c - 1 < t + (n - c)
    BY <1>2, <1>4
  <2>5. t + j - c - 1 \in FirstSlots(as, n, 2)
    BY <1>1, <2>3, <2>4 DEF InNumbers
  <2>6. QED BY <2>1, <2>3, <2>5
<1>5. QED BY <1>3, <1>4

LEMMA NoAreaNumbers == NoArea \in Areas /\ NoArea.start = 0 /\ NoArea.count = 0
BY RingSize DEF NoArea, Area, Areas

LEMMA NumbersOf ==
    ASSUME NEW as, IsPair(as), NEW s \in Nat, NEW c \in Nat, NEW t \in Nat, NEW d \in Nat,
           as[1].start = s, as[1].count = c, as[2].start = t, as[2].count = d
    PROVE  InNumbers(as, s, c, t, d)
<1>1. PICK s1, c1, t1, d1 \in Nat : InNumbers(as, s1, c1, t1, d1)
  BY AreaNumbers
<1>2. s1 = s /\ c1 = c /\ t1 = t /\ d1 = d
  BY <1>1, Zenon DEF InNumbers
<1>3. QED BY <1>1, <1>2

LEMMA PairNumbers ==
    ASSUME NEW s \in Nat, NEW c \in Nat, NEW t \in Nat, NEW d \in Nat,
           s < QueueSize, c <= QueueSize, t < QueueSize, d <= QueueSize,
           NEW as, as = <<Area(s, c), Area(t, d)>>
    PROVE  IsPair(as) /\ InNumbers(as, s, c, t, d)
<1>1. s \in Slots /\ t \in Slots /\ c \in 0..QueueSize /\ d \in 0..QueueSize
  BY RingSize
<1>2. PICK a1, a2 \in Areas :
         /\ a1 = Area(s, c) /\ a1.start = s /\ a1.count = c
         /\ a2 = Area(t, d) /\ a2.start = t /\ a2.count = d
  BY <1>1, AreaIsPair
<1>3. <<a1, a2>> \in Areas \X Areas /\ <<a1, a2>>[1] = a1 /\ <<a1, a2>>[2] = a2
  OBVIOUS
<1>4. IsPair(as) /\ as[1] = a1 /\ as[2] = a2
  BY <1>2, <1>3, Zenon DEF IsPair
<1>5. QED BY <1>2, <1>4, NumbersOf, Zenon

LEMMA OthersNumbers ==
    ASSUME NEW as, IsPair(as), NEW s \in Nat, NEW c \in Nat, NEW t \in Nat, NEW d \in Nat,
           InNumbers(as, s, c, t, d)
    PROVE  /\ IsPair(Others(as))
           /\ c > 0 => /\ First(as) = as[1]
                       /\ InNumbers(Others(as), 0, 0, t, d)
           /\ c = 0 => /\ First(as) = as[2]
                       /\ InNumbers(Others(as), 0, 0, 0, 0)
<1>1. /\ as[1].start = s /\ as[1].count = c /\ as[2].start = t /\ as[2].count = d
  BY DEF InNumbers
<1>2. as[1] \in Areas /\ as[2] \in Areas
  BY DEF IsPair
<1>3. CASE c > 0
  <2>1. First(as) = as[1] /\ Others(as) = <<NoArea, as[2]>>
    BY <1>1, <1>3 DEF First, Others
  <2>2. Others(as) \in Areas \X Areas /\ Others(as)[1] = NoArea /\ Others(as)[2] = as[2]
    <3>1. PICK a, b \in Areas : a = NoArea /\ b = as[2]
      BY <1>2, NoAreaNumbers
    <3>2. <<a, b>> \in Areas \X Areas /\ <<a, b>>[1] = a /\ <<a, b>>[2] = b
      OBVIOUS
    <3>3. QED BY <2>1, <3>1, <3>2, Zenon
  <2>3. IsPair(Others(as))
    BY <2>2 DEF IsPair
  <2>4. /\ Others(as)[1].start = 0 /\ Others(as)[1].count = 0
        /\ Others(as)[2].start = t /\ Others(as)[2].count = d
    BY <1>1, <2>2, NoAreaNumbers
  <2>5. InNumbers(Others(as), 0, 0, t, d)
    BY <2>3, <2>4, NumbersOf
  <2>6. c # 0
    BY <1>3
  <2>7. QED BY <1>3, <2>1, <2>3, <2>5, <2>6, Zenon
<1>4. CASE c = 0
  <2>1. First(as) = as[2] /\ Others(as) = NoAreas
    BY <1>1, <1>4 DEF First, Others
  <2>2. InNumbers(NoAreas, 0, 0, 0, 0)
    BY NoAreasPair, NumbersOf
  <2>3. QED BY <1>4, <2>1, <2>2, NoAreasPair
<1>5. c > 0 \/ c = 0
  OBVIOUS
<1>6. QED BY <1>3, <1>4, <1>5

(* Which area is copied next, and what is left after it.                   *)
LEMMA FirstPlaces ==
    ASSUME NEW as, IsPair(as), Size(as) > 0
    PROVE  \E s, c \in Nat :
              /\ First(as).start = s /\ First(as).count = c /\ c > 0
              /\ \A j \in 1..c : SlotAt(as, j) = s + j - 1
              /\ IsPair(Others(as)) /\ (InRing(as) => InRing(Others(as)))
              /\ Size(Others(as)) \in Nat /\ Size(as) = c + Size(Others(as))
              /\ \A j \in 1..Size(Others(as)) : SlotAt(Others(as), j) = SlotAt(as, c + j)
<1>1. PICK s, c, t, d \in Nat : InNumbers(as, s, c, t, d)
  BY AreaNumbers
<1>2. /\ as[1].start = s /\ as[1].count = c /\ as[2].start = t /\ as[2].count = d
      /\ Size(as) = c + d
      /\ InRing(as) => t + d <= QueueSize
      /\ \A j \in Nat : SlotAt(as, j) = IF j <= c THEN s + j - 1 ELSE t + j - c - 1
  BY <1>1 DEF InNumbers
<1>3. CASE c > 0
  <2>1. /\ IsPair(Others(as)) /\ First(as) = as[1]
        /\ InNumbers(Others(as), 0, 0, t, d)
    BY <1>1, <1>3, OthersNumbers
  <2>2. /\ Size(Others(as)) = 0 + d
        /\ InRing(Others(as)) <=> (0 + 0 <= QueueSize /\ t + d <= QueueSize)
        /\ \A j \in Nat :
              SlotAt(Others(as), j) = IF j <= 0 THEN 0 + j - 1 ELSE t + j - 0 - 1
    BY <2>1 DEF InNumbers
  <2>3. Size(Others(as)) = d
    BY <2>2
  <2>4. InRing(as) => InRing(Others(as))
    <3>1. 0 + 0 <= QueueSize
      BY RingSize
    <3>2. QED BY <1>2, <2>2, <3>1, Zenon
  <2>5. ASSUME NEW j \in 1..c PROVE SlotAt(as, j) = s + j - 1
    <3>1. j \in Nat /\ j <= c
      OBVIOUS
    <3>2. QED BY <1>2, <3>1, Zenon
  <2>6. ASSUME NEW j \in 1..d PROVE SlotAt(Others(as), j) = SlotAt(as, c + j)
    <3>1. j \in Nat /\ ~(j <= 0) /\ c + j \in Nat /\ ~(c + j <= c)
      OBVIOUS
    <3>2. SlotAt(Others(as), j) = t + j - 0 - 1
      BY <2>2, <3>1, Zenon
    <3>3. SlotAt(as, c + j) = t + (c + j) - c - 1
      BY <1>2, <3>1, Zenon
    <3>4. t + j - 0 - 1 = t + (c + j) - c - 1
      OBVIOUS
    <3>5. QED BY <3>2, <3>3, <3>4, Zenon
  <2>7. First(as).start = s /\ First(as).count = c
    BY <1>2, <2>1
  <2>8. QED BY <1>2, <1>3, <2>1, <2>3, <2>4, <2>5, <2>6, <2>7, Zenon
<1>4. CASE c = 0
  <2>1. /\ IsPair(Others(as)) /\ First(as) = as[2]
        /\ InNumbers(Others(as), 0, 0, 0, 0)
    BY <1>1, <1>4, OthersNumbers
  <2>2. /\ Size(Others(as)) = 0 + 0
        /\ InRing(Others(as)) <=> (0 + 0 <= QueueSize /\ 0 + 0 <= QueueSize)
    BY <2>1 DEF InNumbers
  <2>3. Size(Others(as)) = 0 /\ InRing(Others(as))
    <3>1. 0 + 0 = 0 /\ 0 <= QueueSize
      BY RingSize
    <3>2. QED BY <2>2, <3>1, Zenon
  <2>4. Size(as) = d + 0 /\ d > 0 /\ 0 \in Nat
    BY <1>2, <1>4
  <2>5. ASSUME NEW j \in 1..d PROVE SlotAt(as, j) = t + j - 1
    <3>1. j \in Nat /\ ~(j <= c) /\ t + j - c - 1 = t + j - 1
      BY <1>4
    <3>2. QED BY <1>2, <3>1, Zenon
  <2>6. \A j \in 1..0 : SlotAt(Others(as), j) = SlotAt(as, d + j)
    OBVIOUS
  <2>7. First(as).start = t /\ First(as).count = d
    BY <1>2, <2>1
  <2>8. QED BY <2>1, <2>3, <2>4, <2>5, <2>6, <2>7, Zenon
<1>5. c > 0 \/ c = 0
  OBVIOUS
<1>6. QED BY <1>3, <1>4, <1>5

(* Giving back an area leaves what is held of the other.                   *)
LEMMA OthersHeld ==
    ASSUME NEW as, IsPair(as), Size(as) > 0, NEW n \in Nat, n >= Size(as)
    PROVE  \E k, l \in {1, 2} :
              /\ k # l
              /\ \A i \in Slots : InArea(First(as), i) <=> i \in FirstSlots(as, n, k)
              /\ FirstSlots(Others(as), n, k) = {}
              /\ FirstSlots(Others(as), n, l) = FirstSlots(as, n, l)
<1>1. PICK s, c, t, d \in Nat : InNumbers(as, s, c, t, d)
  BY AreaNumbers
<1>2. /\ as[1].start = s /\ as[1].count = c /\ as[2].start = t /\ as[2].count = d
      /\ Size(as) = c + d
      /\ \A i \in Slots :
            /\ i \in FirstSlots(as, n, 1) <=> (s <= i /\ i < s + c /\ i < s + n)
            /\ i \in FirstSlots(as, n, 2) <=> (t <= i /\ i < t + d /\ i < t + (n - c))
  BY <1>1 DEF InNumbers
<1>3. FirstSlots(as, n, 1) \subseteq Slots /\ FirstSlots(as, n, 2) \subseteq Slots
  BY DEF FirstSlots
<1>4. /\ FirstSlots(Others(as), n, 1) \subseteq Slots
      /\ FirstSlots(Others(as), n, 2) \subseteq Slots
  BY DEF FirstSlots
<1>5. \A i \in Slots : i \in Int
  BY RingSize
<1>6. CASE c > 0
  <2>1. /\ First(as) = as[1]
        /\ InNumbers(Others(as), 0, 0, t, d)
    BY <1>1, <1>6, OthersNumbers
  <2>2. \A i \in Slots :
            /\ i \in FirstSlots(Others(as), n, 1) <=> (0 <= i /\ i < 0 + 0 /\ i < 0 + n)
            /\ i \in FirstSlots(Others(as), n, 2) <=>
                  (t <= i /\ i < t + d /\ i < t + (n - 0))
    BY <2>1 DEF InNumbers
  <2>3. ASSUME NEW i \in Slots
        PROVE  /\ InArea(First(as), i) <=> i \in FirstSlots(as, n, 1)
               /\ i \notin FirstSlots(Others(as), n, 1)
               /\ i \in FirstSlots(Others(as), n, 2) <=> i \in FirstSlots(as, n, 2)
    <3>1. PICK x \in Int : x = i
      BY <1>5
    <3>2. /\ (s <= x /\ x < s + c) <=> (s <= x /\ x < s + c /\ x < s + n)
          /\ ~(0 <= x /\ x < 0 + 0 /\ x < 0 + n)
          /\ (t <= x /\ x < t + d /\ x < t + (n - 0)) <=>
                (t <= x /\ x < t + d /\ x < t + (n - c))
      BY <1>2
    <3>3. InArea(First(as), i) <=> (s <= x /\ x < s + c)
      BY <1>2, <2>1, <3>1, Zenon DEF InArea
    <3>4. QED BY <1>2, <2>2, <3>1, <3>2, <3>3, Zenon
  <2>4. FirstSlots(Others(as), n, 1) = {}
    BY <1>4, <2>3, Zenon
  <2>5. FirstSlots(Others(as), n, 2) = FirstSlots(as, n, 2)
    BY <1>3, <1>4, <2>3, Zenon
  <2>6. 1 # 2
    OBVIOUS
  <2>7. QED BY <2>3, <2>4, <2>5, <2>6, Zenon
<1>7. CASE c = 0
  <2>1. First(as) = as[2] /\ Others(as) = NoAreas
    BY <1>2, <1>7 DEF First, Others
  <2>2. FirstSlots(Others(as), n, 1) = {} /\ FirstSlots(Others(as), n, 2) = {}
    BY <2>1, NoAreasPair, NothingFirst
  <2>3. ASSUME NEW i \in Slots
        PROVE  /\ InArea(First(as), i) <=> i \in FirstSlots(as, n, 2)
               /\ i \notin FirstSlots(as, n, 1)
    <3>1. PICK x \in Int : x = i
      BY <1>5
    <3>2. /\ (t <= x /\ x < t + d) <=> (t <= x /\ x < t + d /\ x < t + (n - c))
          /\ ~(s <= x /\ x < s + c /\ x < s + n)
      BY <1>2, <1>7
    <3>3. InArea(First(as), i) <=> (t <= x /\ x < t + d)
      BY <1>2, <2>1, <3>1, Zenon DEF InArea
    <3>4. QED BY <1>2, <3>1, <3>2, <3>3, Zenon
  <2>4. FirstSlots(as, n, 1) = {}
    BY <1>3, <2>3, Zenon
  <2>5. 1 # 2
    OBVIOUS
  <2>6. QED BY <2>2, <2>3, <2>4, <2>5, Zenon
<1>8. c > 0 \/ c = 0
  OBVIOUS
<1>9. QED BY <1>6, <1>7, <1>8

-----------------------------------------------------------------------------
(* The requests: which slots they name, and what is in these.              *)

Content(i) ==
    IF i < head THEN baseIterNum + i
    ELSE IF (i = head /\ writing = "copy") \/ baseIterNum = 0 THEN None
    ELSE baseIterNum - QueueSize + i

RingInv ==
    /\ head \in Slots /\ baseIterNum \in Nat
    /\ baseIterNum = 0 \/ baseIterNum >= QueueSize
    /\ data \in [Slots -> Nat \cup {None}]
    /\ \A i \in Slots : data[i] = Content(i)

Written(i) == baseIterNum > 0 \/ i < head

Smaller(a, b) == IF a < b THEN a ELSE b

LEMMA ModProperties ==
    ASSUME NEW a \in Nat
    PROVE  a % QueueSize \in 0..(QueueSize - 1) /\ (a < QueueSize => a % QueueSize = a)
<1>1. PICK n \in Nat : n = QueueSize /\ n > 0
  BY RingSize
<1>2. a % n \in 0..(n - 1)
  BY <1>1
<1>3. a < n => a % n = a
  BY <1>1
<1>4. QED BY <1>1, <1>2, <1>3

LEMMA BackwardSlots ==
    ASSUME RingInv, NEW q \in Requests, ~q.forward
    PROVE  \E n \in Nat :
              /\ n = Smaller(Added, q.count) /\ n < QueueSize
              /\ IsPair(AreasOf(q)) /\ InRing(AreasOf(q)) /\ Size(AreasOf(q)) = n
              /\ \A j \in 1..n :
                    LET i == SlotAt(AreasOf(q), j) IN
                    /\ i \in Slots /\ i # head /\ Written(i)
                    /\ Content(i) = Added - n + j - 1
<1>1. PICK h, b, m, z \in Nat :
         /\ h = head /\ b = baseIterNum /\ m = q.count /\ z = QueueSize
         /\ h < z /\ (b = 0 \/ b >= z) /\ m < z
  <2>1. q.count \in 0..(QueueSize - 1)
    BY MeasureAssumption
  <2>2. q.count \in Nat /\ q.count < QueueSize
    BY <2>1, RingSize
  <2>3. head \in Nat /\ head < QueueSize
    BY RingSize DEF RingInv
  <2>4. QED BY <2>2, <2>3, RingSize, Zenon DEF RingInv
<1>2. AreasOf(q) = Backward(m)
  BY <1>1 DEF AreasOf
<1>3. Added = b + h
  BY <1>1 DEF Added
<1> DEFINE Fits(s, c, t, d, n) ==
              /\ s < z /\ t < z /\ s + c <= z /\ t + d <= z
              /\ c + d = n /\ n < z
              /\ \A j \in 1..c : /\ s + j - 1 # h
                                 /\ s + j - 1 > h => b >= z
                                 /\ b + h - n + j - 1 =
                                      IF s + j - 1 < h THEN b + (s + j - 1)
                                      ELSE b - z + (s + j - 1)
              /\ \A j \in (c + 1)..n : /\ t + j - c - 1 < h
                                       /\ b + h - n + j - 1 = b + (t + j - c - 1)
           Goal(n) ==
              /\ n = Smaller(Added, q.count) /\ n < QueueSize
              /\ IsPair(AreasOf(q)) /\ InRing(AreasOf(q)) /\ Size(AreasOf(q)) = n
              /\ \A j \in 1..n :
                    LET i == SlotAt(AreasOf(q), j) IN
                    /\ i \in Slots /\ i # head /\ Written(i)
                    /\ Content(i) = Added - n + j - 1
<1>4. ASSUME NEW s \in Nat, NEW c \in Nat, NEW t \in Nat, NEW d \in Nat, NEW n \in Nat,
             AreasOf(q) = <<Area(s, c), Area(t, d)>>, n = Smaller(b + h, m),
             Fits(s, c, t, d, n)
      PROVE  Goal(n)
  <2>1. IsPair(AreasOf(q)) /\ InNumbers(AreasOf(q), s, c, t, d)
    <3>1. c <= z /\ d <= z
      BY <1>4
    <3>2. QED BY <1>1, <1>4, <3>1, PairNumbers, Zenon
  <2>4. /\ Size(AreasOf(q)) = c + d
        /\ InRing(AreasOf(q)) <=> (s + c <= z /\ t + d <= z)
        /\ \A j \in Nat : SlotAt(AreasOf(q), j) = IF j <= c THEN s + j - 1 ELSE t + j - c - 1
    BY <1>1, <2>1, Zenon DEF InNumbers
  <2>5. ASSUME NEW j \in 1..n
        PROVE  LET i == SlotAt(AreasOf(q), j) IN
               /\ i \in Slots /\ i # head /\ Written(i)
               /\ Content(i) = Added - n + j - 1
    <3>1. j \in Nat /\ j >= 1 /\ j <= n
      OBVIOUS
    <3>2. CASE j <= c
      <4>1. PICK i \in Int : i = s + j - 1
        OBVIOUS
      <4>2. SlotAt(AreasOf(q), j) = i
        BY <2>4, <3>1, <3>2, <4>1, Zenon
      <4>3. i \in 0..(z - 1)
        BY <1>4, <3>1, <3>2, <4>1
      <4>4. /\ i # h /\ (i > h => b >= z)
            /\ b + h - n + j - 1 = IF i < h THEN b + i ELSE b - z + i
        BY <1>4, <3>1, <3>2, <4>1
      <4>5. b > 0 \/ i < h
        BY <1>1, <4>3, <4>4
      <4>6. i < h \/ b # 0
        BY <4>5
      <4>7. Content(i) = IF i < h THEN b + i ELSE b - z + i
        BY <1>1, <4>4, <4>6, Zenon DEF Content
      <4>8. i \in Slots
        BY <1>1, <4>3 DEF Slots
      <4>9. Content(i) = b + h - n + j - 1
        BY <4>4, <4>7, Zenon
      <4>10. Content(i) = Added - n + j - 1
        BY <1>3, <4>9
      <4>11. Written(i) /\ i # head
        BY <1>1, <4>4, <4>5, Zenon DEF Written
      <4>12. QED BY <4>2, <4>8, <4>10, <4>11, Zenon
    <3>3. CASE ~(j <= c)
      <4>1. PICK i \in Int : i = t + j - c - 1
        OBVIOUS
      <4>2. SlotAt(AreasOf(q), j) = i
        BY <2>4, <3>1, <3>3, <4>1, Zenon
      <4>3. i \in 0..(z - 1)
        BY <1>4, <3>1, <3>3, <4>1
      <4>4. i < h /\ b + h - n + j - 1 = b + i
        BY <1>4, <3>1, <3>3, <4>1
      <4>5. i # h
        BY <4>4
      <4>6. Content(i) = b + i
        BY <1>1, <4>4, Zenon DEF Content
      <4>7. i \in Slots
        BY <1>1, <4>3 DEF Slots
      <4>8. Content(i) = Added - n + j - 1
        BY <1>3, <4>4, <4>6
      <4>9. Written(i) /\ i # head
        BY <1>1, <4>4, <4>5, Zenon DEF Written
      <4>10. QED BY <4>2, <4>7, <4>8, <4>9, Zenon
    <3>4. QED BY <3>2, <3>3
  <2>6. QED BY <1>1, <1>3, <1>4, <2>1, <2>4, <2>5, Zenon
<1>a. SUFFICES \E n \in Nat : Goal(n)
  OBVIOUS
<1> HIDE DEF Goal
<1>5. NoArea = Area(0, 0)
  BY DEF NoArea
<1>6. CASE h >= m
  <2>1. h - m \in Nat /\ m \in Nat /\ 0 \in Nat
    BY <1>1, <1>6
  <2>2. PICK s, c, t, d, n \in Nat : s = h - m /\ c = m /\ t = 0 /\ d = 0 /\ n = m
    BY <2>1
  <2>3. AreasOf(q) = <<Area(s, c), Area(t, d)>>
    BY <1>1, <1>2, <1>5, <1>6, <2>2, Zenon DEF Backward
  <2>4. n = Smaller(b + h, m)
    BY <1>1, <1>6, <2>2 DEF Smaller
  <2>5. s < z /\ t < z /\ s + c <= z /\ t + d <= z /\ c + d = n /\ n < z
    BY <1>1, <1>6, <2>2
  <2>6. ASSUME NEW j \in 1..c
        PROVE  /\ s + j - 1 # h
               /\ s + j - 1 > h => b >= z
               /\ b + h - n + j - 1 =
                     IF s + j - 1 < h THEN b + (s + j - 1) ELSE b - z + (s + j - 1)
    BY <1>1, <1>6, <2>2
  <2>7. ASSUME NEW j \in (c + 1)..n
        PROVE  t + j - c - 1 < h /\ b + h - n + j - 1 = b + (t + j - c - 1)
    BY <1>1, <1>6, <2>2
  <2>8. Fits(s, c, t, d, n)
    BY <2>5, <2>6, <2>7, Zenon
  <2> HIDE DEF Fits
  <2>9. QED BY <1>4, <2>3, <2>4, <2>8, Zenon
<1>7. CASE ~(h >= m) /\ b = 0
  <2>1. 0 \in Nat /\ h \in Nat /\ 0 \in Nat
    BY <1>1, <1>7
  <2>2. PICK s, c, t, d, n \in Nat : s = 0 /\ c = h /\ t = 0 /\ d = 0 /\ n = h
    BY <2>1
  <2>3. AreasOf(q) = <<Area(s, c), Area(t, d)>>
    BY <1>1, <1>2, <1>5, <1>7, <2>2, Zenon DEF Backward
  <2>4. n = Smaller(b + h, m)
    BY <1>1, <1>7, <2>2 DEF Smaller
  <2>5. s < z /\ t < z /\ s + c <= z /\ t + d <= z /\ c + d = n /\ n < z
    BY <1>1, <1>7, <2>2
  <2>6. ASSUME NEW j \in 1..c
        PROVE  /\ s + j - 1 # h
               /\ s + j - 1 > h => b >= z
               /\ b + h - n + j - 1 =
                     IF s + j - 1 < h THEN b + (s + j - 1) ELSE b - z + (s + j - 1)
    BY <1>1, <1>7, <2>2
  <2>7. ASSUME NEW j \in (c + 1)..n
        PROVE  t + j - c - 1 < h /\ b + h - n + j - 1 = b + (t + j - c - 1)
    BY <1>1, <1>7, <2>2
  <2>8. Fits(s, c, t, d, n)
    BY <2>5, <2>6, <2>7, Zenon
  <2> HIDE DEF Fits
  <2>9. QED BY <1>4, <2>3, <2>4, <2>8, Zenon
<1>8. CASE ~(h >= m) /\ b # 0
  <2>1. z - (m - h) \in Nat /\ m - h \in Nat /\ h \in Nat
    BY <1>1, <1>8
  <2>2. PICK s, c, t, d, n \in Nat : s = z - (m - h) /\ c = m - h /\ t = 0 /\ d = h /\ n = m
    BY <2>1
  <2>3. AreasOf(q) = <<Area(s, c), Area(t, d)>>
    BY <1>1, <1>2, <1>5, <1>8, <2>2, Zenon DEF Backward
  <2>4. n = Smaller(b + h, m)
    BY <1>1, <1>8, <2>2 DEF Smaller
  <2>5. s < z /\ t < z /\ s + c <= z /\ t + d <= z /\ c + d = n /\ n < z
    BY <1>1, <1>8, <2>2
  <2>6. ASSUME NEW j \in 1..c
        PROVE  /\ s + j - 1 # h
               /\ s + j - 1 > h => b >= z
               /\ b + h - n + j - 1 =
                     IF s + j - 1 < h THEN b + (s + j - 1) ELSE b - z + (s + j - 1)
    BY <1>1, <1>8, <2>2
  <2>7. ASSUME NEW j \in (c + 1)..n
        PROVE  t + j - c - 1 < h /\ b + h - n + j - 1 = b + (t + j - c - 1)
    BY <1>1, <1>8, <2>2
  <2>8. Fits(s, c, t, d, n)
    BY <2>5, <2>6, <2>7, Zenon
  <2> HIDE DEF Fits
  <2>9. QED BY <1>4, <2>3, <2>4, <2>8, Zenon
<1>9. QED BY <1>6, <1>7, <1>8

LEMMA ForwardSlots ==
    ASSUME RingInv, NEW q \in Requests, q.forward, ~NotThere(q), ~Overruns(AreasOf(q))
    PROVE  /\ IsPair(AreasOf(q)) /\ InRing(AreasOf(q)) /\ Size(AreasOf(q)) < QueueSize
           /\ \A j \in 1..Size(AreasOf(q)) : Written(SlotAt(AreasOf(q), j))
<1>1. PICK h, b, st, m, z \in Nat :
         /\ h = head /\ b = baseIterNum /\ st = q.start /\ m = q.count /\ z = QueueSize
         /\ h < z /\ (b = 0 \/ b >= z) /\ m < z
  <2>1. q.count \in 0..(QueueSize - 1) /\ q.start \in Nat
    BY MeasureAssumption
  <2>2. q.count \in Nat /\ q.count < QueueSize
    BY <2>1, RingSize
  <2>3. head \in Nat /\ head < QueueSize
    BY RingSize DEF RingInv
  <2>4. QED BY <2>1, <2>2, <2>3, RingSize, Zenon DEF RingInv
<1>2. PICK e \in Nat : e = QueueIterNumBegin /\ (b = 0 => e = 0)
  <2>1. CASE b = 0
    BY <1>1, <2>1 DEF QueueIterNumBegin
  <2>2. CASE b # 0
    <3>1. h + 1 \in Nat
      OBVIOUS
    <3>2. PICK x \in Nat : x = (h + 1) % z
      BY <1>1, <3>1, ModProperties
    <3>3. QueueIterNumBegin = x + b - z
      BY <1>1, <2>2, <3>2, Zenon DEF QueueIterNumBegin
    <3>4. x + b - z \in Nat
      BY <1>1, <2>2
    <3>5. QED BY <2>2, <3>3, <3>4
  <2>3. QED BY <2>1, <2>2
<1>3. Added = b + h
  BY <1>1 DEF Added
<1> DEFINE from0 == IF st > e THEN st ELSE e
           to0   == IF st + m < b + h THEN st + m ELSE b + h
<1>4. PICK from \in Nat : from = from0 /\ from >= st /\ from >= e /\ (b = 0 => from = st)
  BY <1>2
<1>5. PICK to \in Nat : to = to0 /\ to <= st + m /\ to <= b + h
  OBVIOUS
<1>6. PICK f \in Nat : f = from % z /\ f < z /\ (from < z => f = from)
  <2>1. /\ from % z \in 0..(z - 1)
        /\ from < z => from % z = from
    BY <1>1, ModProperties
  <2>2. from % z \in Nat /\ from % z < z
    BY <2>1
  <2>3. QED BY <2>1, <2>2
<1> HIDE DEF from0, to0
<1>7. PICK n, left \in Int : n = to - from /\ left = z - st
  OBVIOUS
<1>8. AreasOf(q) = IF left < n THEN <<Area(f, left), Area(0, n - left)>>
                   ELSE <<Area(f, n), Area(0, 0)>>
  <2>1. AreasOf(q) = Forward(st, m)
    BY <1>1, Zenon DEF AreasOf
  <2>2. Forward(st, m) = IF left < n THEN <<Area(f, left), Area(0, n - left)>>
                         ELSE <<Area(f, n), Area(0, 0)>>
    BY <1>1, <1>2, <1>3, <1>4, <1>5, <1>6, <1>7, Zenon
       DEF Forward, NoArea, from0, to0
  <2>3. QED BY <2>1, <2>2
<1>9. \A s, c, t, d \in Int :
         AreasOf(q) = <<Area(s, c), Area(t, d)>> =>
            c >= 0 /\ s + c <= z /\ d >= 0 /\ t + d <= z
  <2>1. SUFFICES ASSUME NEW s \in Int, NEW c \in Int, NEW t \in Int, NEW d \in Int,
                        AreasOf(q) = <<Area(s, c), Area(t, d)>>
                 PROVE  c >= 0 /\ s + c <= z /\ d >= 0 /\ t + d <= z
    OBVIOUS
  <2>2. /\ AreasOf(q)[1] = Area(s, c) /\ AreasOf(q)[2] = Area(t, d)
    BY <2>1
  <2>3. /\ Area(s, c).start = s /\ Area(s, c).count = c
        /\ Area(t, d).start = t /\ Area(t, d).count = d
    BY DEF Area
  <2>4. ~(c < 0) /\ ~(s + c > z) /\ ~(d < 0) /\ ~(t + d > z)
    BY <1>1, <2>2, <2>3, Zenon DEF Overruns
  <2>5. QED BY <2>4
<1>10. CASE left < n
  <2>1. n - left \in Int /\ AreasOf(q) = <<Area(f, left), Area(0, n - left)>>
    BY <1>8, <1>10
  <2>2. left >= 0 /\ f + left <= z /\ n - left >= 0 /\ 0 + (n - left) <= z
    BY <1>9, <2>1
  <2>3. PICK c, d \in Nat : c = left /\ d = n - left
    BY <2>2
  <2>4. f < z /\ c <= z /\ 0 < z /\ d <= z /\ f + c <= z /\ 0 + d <= z
    BY <1>1, <1>6, <2>2, <2>3
  <2>5. IsPair(AreasOf(q)) /\ InNumbers(AreasOf(q), f, c, 0, d)
    BY <1>1, <2>1, <2>3, <2>4, PairNumbers, Zenon
  <2>6. Size(AreasOf(q)) = c + d /\ InRing(AreasOf(q))
    BY <1>1, <2>4, <2>5, Zenon DEF InNumbers
  <2>7. c + d < z
    BY <1>1, <1>4, <1>5, <1>7, <2>3
  <2>8. b > 0
    BY <1>1, <1>4, <1>5, <1>7, <1>10
  <2>9. QED BY <1>1, <2>5, <2>6, <2>7, <2>8, Zenon DEF Written
<1>11. CASE ~(left < n)
  <2>1. AreasOf(q) = <<Area(f, n), Area(0, 0)>>
    BY <1>8, <1>11
  <2>2. n >= 0 /\ f + n <= z
    BY <1>9, <2>1
  <2>3. PICK c \in Nat : c = n
    BY <2>2
  <2>4. f < z /\ c <= z /\ 0 < z /\ 0 <= z /\ f + c <= z /\ 0 + 0 <= z
    BY <1>1, <1>6, <2>2, <2>3
  <2>5. IsPair(AreasOf(q)) /\ InNumbers(AreasOf(q), f, c, 0, 0)
    BY <1>1, <2>1, <2>3, <2>4, PairNumbers, Zenon
  <2>6. /\ Size(AreasOf(q)) = c + 0 /\ InRing(AreasOf(q))
        /\ \A j \in Nat :
              SlotAt(AreasOf(q), j) = IF j <= c THEN f + j - 1 ELSE 0 + j - c - 1
    BY <1>1, <2>4, <2>5, Zenon DEF InNumbers
  <2>7. c + 0 = c /\ c < z
    BY <1>1, <1>4, <1>5, <1>7, <2>3
  <2>8. ASSUME NEW j \in 1..c PROVE Written(SlotAt(AreasOf(q), j))
    <3>1. j \in Nat /\ j <= c
      OBVIOUS
    <3>2. SlotAt(AreasOf(q), j) = f + j - 1
      BY <2>6, <3>1, Zenon
    <3>3. CASE b = 0
      <4>1. from < z /\ f = from
        BY <1>1, <1>4, <1>5, <1>6, <1>7, <2>3, <3>3
      <4>2. f + j - 1 < h
        BY <1>5, <1>7, <2>3, <3>3, <4>1
      <4>3. QED BY <1>1, <3>2, <4>2 DEF Written
    <3>4. CASE b # 0
      <4>1. b > 0
        BY <3>4
      <4>2. QED BY <1>1, <4>1 DEF Written
    <3>5. QED BY <3>3, <3>4
  <2>9. QED BY <1>1, <2>5, <2>6, <2>7, <2>8, Zenon
<1>12. QED BY <1>10, <1>11

-----------------------------------------------------------------------------
(* The inductive invariant: what the ring holds, who holds which slot, and *)
(* what each reader has and has still to copy.                             *)

HoldInv ==
    /\ readRefCount \in [Slots -> Nat]
    /\ status \in [Slots -> {"none", "read", "write"}]
    /\ \A i \in Slots :
          /\ readRefCount[i] = Cardinality(Holders(i))
          /\ status[i] = "write" <=> (i = head /\ writing = "copy")
          /\ status[i] = "read" <=> Holders(i) # {}

ReaderTypes ==
    /\ reading \in [Readers -> {"out", "lock", "copy", "unlock", "replied"}]
    /\ request \in [Readers -> Requests]
    /\ areas \in [Readers -> Areas \X Areas]
    /\ locked \in [Readers -> Slots]
    /\ result \in [Readers -> Seq(Nat)]
    /\ label \in [Readers -> Int]
    /\ until \in [Readers -> Nat]

RetryInv ==
    /\ retry \in [Readers -> 0..MaxRetry]
    /\ failed \/ \A r \in Readers : retry[r] < MaxRetry

WriterInv ==
    /\ writing \in {"out", "add", "copy"}
    /\ addRetry \in 0..(MaxRetry - 1)
    /\ failed \in BOOLEAN

PlaceInv(r) ==
    /\ InRing(areas[r]) /\ Size(areas[r]) < QueueSize
    /\ reading[r] \in {"out", "replied"} => Size(areas[r]) = 0
    /\ reading[r] = "out" => result[r] = <<>>
    /\ reading[r] \in {"copy", "unlock"} =>
          Size(areas[r]) > 0 /\ locked[r] >= Size(areas[r])
    /\ \A j \in 1..Size(areas[r]) : Written(SlotAt(areas[r], j))

Left(r) == IF reading[r] = "unlock" THEN Others(areas[r]) ELSE areas[r]

(* A backward read, for the n measures from number u - n on.               *)
BackInv(r) ==
    reading[r] # "out" /\ ~request[r].forward =>
        LET n == Smaller(until[r], request[r].count) IN
        /\ reading[r] # "lock"
        /\ Len(result[r]) + Size(Left(r)) = n
        /\ \A k \in 1..Len(result[r]) : result[r][k] = until[r] - n + k - 1
        /\ \A k \in 1..Size(Left(r)) :
              data[SlotAt(Left(r), k)] = until[r] - n + Len(result[r]) + k - 1

ReaderInv(r) == PlaceInv(r) /\ BackInv(r)

MeasureInv ==
    /\ RingInv /\ HoldInv /\ ReaderTypes /\ RetryInv /\ WriterInv
    /\ \A r \in Readers : ReaderInv(r)

-----------------------------------------------------------------------------
(* Holders.                                                                *)

LEMMA HoldersFinite ==
    ASSUME NEW H \in SUBSET (Readers \X {1, 2})
    PROVE  IsFiniteSet(H) /\ Cardinality(H) \in Nat
           /\ Cardinality(H) <= 2 * Cardinality(Readers)
<1>1. IsFiniteSet(Readers) /\ Cardinality(Readers) \in Nat
  BY MeasureAssumption, FS_CardinalityType
<1>2. IsFiniteSet({1, 2}) /\ Cardinality({1, 2}) = 2
  <2>1. IsFiniteSet({1}) /\ Cardinality({1}) = 1
    BY FS_Singleton
  <2>2. /\ IsFiniteSet({1} \cup {2})
        /\ Cardinality({1} \cup {2}) = Cardinality({1}) + 1
    BY <2>1, FS_AddElement
  <2>3. {1} \cup {2} = {1, 2}
    OBVIOUS
  <2>4. QED BY <2>1, <2>2, <2>3
<1>3. /\ IsFiniteSet(Readers \X {1, 2})
      /\ Cardinality(Readers \X {1, 2}) = Cardinality(Readers) * Cardinality({1, 2})
  BY <1>1, <1>2, FS_Product
<1>4. IsFiniteSet(H) /\ Cardinality(H) <= Cardinality(Readers \X {1, 2})
  BY <1>3, FS_Subset
<1>5. Cardinality(H) \in Nat
  BY <1>4, FS_CardinalityType
<1>6. PICK c, h \in Nat : c = Cardinality(Readers) /\ h = Cardinality(H)
  BY <1>1, <1>5
<1>7. h <= c * 2
  BY <1>2, <1>3, <1>4, <1>6
<1>8. h <= 2 * c
  BY <1>7
<1>9. QED BY <1>4, <1>5, <1>6, <1>8

LEMMA HoldersGain ==
    ASSUME NEW H \in SUBSET (Readers \X {1, 2}), NEW r \in Readers,
           NEW D \in SUBSET {1, 2}, \A k \in D : <<r, k>> \notin H
    PROVE  Cardinality(H \cup ({r} \X D)) = Cardinality(H) + Cardinality(D)
<1>1. IsFiniteSet(H) /\ Cardinality(H) \in Nat
  BY HoldersFinite
<1>2. IsFiniteSet(D) /\ Cardinality(D) \in Nat
  <2>1. IsFiniteSet({1} \cup {2})
    BY FS_Singleton, FS_AddElement
  <2>2. D \subseteq {1} \cup {2}
    OBVIOUS
  <2>3. IsFiniteSet(D)
    BY <2>1, <2>2, FS_Subset
  <2>4. QED BY <2>3, FS_CardinalityType
<1>3. IsFiniteSet({r} \X D) /\ Cardinality({r} \X D) = Cardinality(D)
  <2>1. IsFiniteSet({r}) /\ Cardinality({r}) = 1
    BY FS_Singleton
  <2>2. /\ IsFiniteSet({r} \X D)
        /\ Cardinality({r} \X D) = Cardinality({r}) * Cardinality(D)
    BY <1>2, <2>1, FS_Product
  <2>3. PICK d \in Nat : d = Cardinality(D)
    BY <1>2
  <2>4. Cardinality({r} \X D) = 1 * d
    BY <2>1, <2>2, <2>3
  <2>5. QED BY <2>2, <2>3, <2>4
<1>4. H \cap ({r} \X D) = {}
  <2>1. SUFFICES ASSUME NEW h \in H, h \in {r} \X D PROVE FALSE
    OBVIOUS
  <2>2. PICK k \in D : h = <<r, k>>
    BY <2>1
  <2>3. QED BY <2>1, <2>2
<1>5. Cardinality(H \cup ({r} \X D)) = Cardinality(H) + Cardinality({r} \X D) - Cardinality({})
  BY <1>1, <1>3, <1>4, FS_Union
<1>6. QED BY <1>1, <1>2, <1>3, <1>5, FS_EmptySet

LEMMA HolderIs ==
    ASSUME NEW i, NEW r \in Readers, NEW k \in {1, 2}
    PROVE  /\ <<r, k>> \in Holders(i) <=> i \in HeldSlots(r, k)
           /\ Holders(i) \in SUBSET (Readers \X {1, 2})
BY DEF Holders

(* The slots of the areas a reader has locked are held.                    *)
LEMMA PlacesHeld ==
    ASSUME ReaderTypes, NEW r \in Readers, InRing(areas[r]),
           NEW j \in 1..Size(areas[r]), j <= locked[r]
    PROVE  /\ SlotAt(areas[r], j) \in Slots
           /\ Holders(SlotAt(areas[r], j)) # {}
<1>1. IsPair(areas[r]) /\ locked[r] \in Nat
  BY RingSize DEF ReaderTypes, IsPair
<1>2. /\ SlotAt(areas[r], j) \in Slots
      /\ \E k \in {1, 2} : SlotAt(areas[r], j) \in FirstSlots(areas[r], locked[r], k)
  BY <1>1, PlaceIsFirst
<1>3. QED BY <1>2, HolderIs DEF HeldSlots

-----------------------------------------------------------------------------
(* What locking does to the slots.                                         *)

LEMMA HeldUnchanged ==
    ASSUME NEW s, areas'[s] = areas[s], locked'[s] = locked[s], NEW k
    PROVE  HeldSlots(s, k)' = HeldSlots(s, k)
BY DEF HeldSlots

LEMMA HoldersSame ==
    ASSUME UNCHANGED <<areas, locked>>, NEW i PROVE Holders(i)' = Holders(i)
BY DEF Holders, HeldSlots

LEMMA BetweenIs ==
    ASSUME NEW a \in Nat, NEW b \in Nat, NEW x \in a..b PROVE x \in Nat /\ a <= x /\ x <= b
OBVIOUS

LEMMA LockStep ==
    ASSUME HoldInv, ReaderTypes, NEW r \in Readers, NEW as, IsPair(as),
           NEW n \in Nat, n <= Size(as), Size(as) < QueueSize,
           areas' = [areas EXCEPT ![r] = as], LockSlots(r, as, n),
           \A k \in {1, 2} : FirstSlots(as, n, k) = HeldSlots(r, k),
           UNCHANGED <<head, writing>>
    PROVE  HoldInv'
<1> DEFINE D(m, i) == {k \in {1, 2} : i \in FirstSlots(as, m, k) \ FirstSlots(as, n, k)}
<1>1. PICK m \in n..Size(as) :
         /\ \A j \in (n + 1)..m : status[SlotAt(as, j)] # "write"
         /\ readRefCount' = [i \in Slots |-> readRefCount[i] + Cardinality(D(m, i))]
         /\ status' = [i \in Slots |-> IF D(m, i) # {} THEN "read" ELSE status[i]]
         /\ locked' = [locked EXCEPT ![r] = m]
  BY Zenon DEF LockSlots
<1>2. /\ \A j \in (n + 1)..m : status[SlotAt(as, j)] # "write"
      /\ readRefCount' = [i \in Slots |-> readRefCount[i] + Cardinality(D(m, i))]
      /\ status' = [i \in Slots |-> IF D(m, i) # {} THEN "read" ELSE status[i]]
      /\ locked' = [locked EXCEPT ![r] = m]
  BY <1>1
<1>3. m \in Nat /\ n <= m /\ m <= Size(as)
  <2>1. Size(as) \in Nat
    BY AreaParts
  <2>2. QED BY <2>1, BetweenIs, Zenon
<1>4. \A i : D(m, i) \in SUBSET {1, 2}
  OBVIOUS
<1>5. ASSUME NEW i \in Slots, NEW k \in D(m, i) PROVE status[i] # "write"
  <2>1. k \in {1, 2} /\ i \in FirstSlots(as, m, k) \ FirstSlots(as, n, k)
    BY <1>5
  <2>2. PICK j \in (n + 1)..m : SlotAt(as, j) = i
    <3>1. m \in Nat /\ m <= Size(as) /\ k \in {1, 2}
      BY <1>3, <2>1
    <3>2. PICK x \in FirstSlots(as, m, k) \ FirstSlots(as, n, k) : x = i
      BY <2>1
    <3>3. IsPlace(as, n, m, x)
      BY <3>1, LockedPlaces
    <3>4. QED BY <3>2, <3>3, Zenon DEF IsPlace
  <2>3. QED BY <1>2, <2>2
<1>6. areas'[r] = as /\ locked'[r] = m
  BY <1>2 DEF ReaderTypes
<1>7. \A s \in Readers \ {r} : areas'[s] = areas[s] /\ locked'[s] = locked[s]
  BY <1>2 DEF ReaderTypes
<1>8. ASSUME NEW k \in {1, 2}
      PROVE  /\ HeldSlots(r, k)' = FirstSlots(as, m, k)
             /\ FirstSlots(as, n, k) \subseteq FirstSlots(as, m, k)
  BY <1>3, <1>6, FirstSlotsGrow DEF HeldSlots
<1>9. ASSUME NEW i \in Slots PROVE Holders(i)' = Holders(i) \cup ({r} \X D(m, i))
  <2>1. ASSUME NEW s \in Readers, NEW k \in {1, 2}
        PROVE  i \in HeldSlots(s, k)' <=>
                  i \in HeldSlots(s, k) \/ (s = r /\ k \in D(m, i))
    <3>1. CASE s = r
      <4>1. /\ HeldSlots(r, k)' = FirstSlots(as, m, k)
            /\ HeldSlots(r, k) = FirstSlots(as, n, k)
            /\ FirstSlots(as, n, k) \subseteq FirstSlots(as, m, k)
        BY <1>8
      <4>2. k \in D(m, i) <=> i \in FirstSlots(as, m, k) \ FirstSlots(as, n, k)
        OBVIOUS
      <4>3. QED BY <3>1, <4>1, <4>2, Zenon
    <3>2. CASE s # r
      BY <1>7, <3>2, HeldUnchanged
    <3>3. QED BY <3>1, <3>2
  <2>2. Holders(i)' = {h \in Readers \X {1, 2} : i \in HeldSlots(h[1], h[2])'}
    BY DEF Holders
  <2>3. Holders(i) = {h \in Readers \X {1, 2} : i \in HeldSlots(h[1], h[2])}
    BY DEF Holders
  <2>4. ASSUME NEW h \in Readers \X {1, 2}
        PROVE  h \in Holders(i)' <=> h \in Holders(i) \cup ({r} \X D(m, i))
    <3>1. PICK s \in Readers, k \in {1, 2} : h = <<s, k>> /\ h[1] = s /\ h[2] = k
      OBVIOUS
    <3>2. h \in Holders(i)' <=> i \in HeldSlots(s, k)'
      BY <2>2, <3>1, Zenon
    <3>3. h \in Holders(i) <=> i \in HeldSlots(s, k)
      BY <2>3, <3>1, Zenon
    <3>4. h \in {r} \X D(m, i) <=> (s = r /\ k \in D(m, i))
      BY <3>1
    <3>5. QED BY <2>1, <3>2, <3>3, <3>4
  <2>5. /\ Holders(i)' \subseteq Readers \X {1, 2}
        /\ Holders(i) \cup ({r} \X D(m, i)) \subseteq Readers \X {1, 2}
    BY <1>4, <2>2, <2>3
  <2>6. QED BY <2>4, <2>5, Zenon
<1>10. ASSUME NEW i \in Slots
       PROVE  Cardinality(Holders(i)') = Cardinality(Holders(i)) + Cardinality(D(m, i))
  <2>1. Holders(i) \in SUBSET (Readers \X {1, 2})
    BY DEF Holders
  <2>2. ASSUME NEW k \in D(m, i) PROVE <<r, k>> \notin Holders(i)
    <3>1. k \in {1, 2} /\ i \notin FirstSlots(as, n, k)
      OBVIOUS
    <3>2. i \notin HeldSlots(r, k)
      BY <3>1
    <3>3. QED BY <3>1, <3>2, HolderIs
  <2>3. PICK X : X = D(m, i) /\ X \in SUBSET {1, 2}
    BY <1>4
  <2>4. \A k \in X : <<r, k>> \notin Holders(i)
    BY <2>2, <2>3, Zenon
  <2>5. Cardinality(Holders(i) \cup ({r} \X X)) = Cardinality(Holders(i)) + Cardinality(X)
    BY <2>1, <2>3, <2>4, HoldersGain
  <2>6. QED BY <1>9, <2>3, <2>5, Zenon
<1>11. ASSUME NEW i \in Slots PROVE Cardinality(D(m, i)) \in Nat
  <2>1. D(m, i) \subseteq {1} \cup {2} /\ IsFiniteSet({1} \cup {2})
    BY FS_Singleton, FS_AddElement
  <2>2. QED BY <2>1, FS_Subset, FS_CardinalityType
<1>12. readRefCount' \in [Slots -> Nat]
  <2>1. ASSUME NEW i \in Slots PROVE readRefCount[i] + Cardinality(D(m, i)) \in Nat
    <3>1. readRefCount[i] \in Nat /\ Cardinality(D(m, i)) \in Nat
      BY <1>11 DEF HoldInv
    <3>2. \A x, y \in Nat : x + y \in Nat
      OBVIOUS
    <3>3. QED BY <3>1, <3>2, Zenon
  <2>2. QED BY <1>2, <2>1, Zenon
<1>13. status' \in [Slots -> {"none", "read", "write"}]
  BY <1>2 DEF HoldInv
<1> HIDE DEF D
<1>14. ASSUME NEW i \in Slots
       PROVE  /\ readRefCount'[i] = Cardinality(Holders(i)')
              /\ status'[i] = "write" <=> (i = head' /\ writing' = "copy")
              /\ status'[i] = "read" <=> Holders(i)' # {}
  <2>1. /\ readRefCount[i] = Cardinality(Holders(i))
        /\ status[i] = "write" <=> (i = head /\ writing = "copy")
        /\ status[i] = "read" <=> Holders(i) # {}
    BY DEF HoldInv
  <2>2. readRefCount'[i] = readRefCount[i] + Cardinality(D(m, i))
    BY <1>2
  <2>3. status'[i] = IF D(m, i) # {} THEN "read" ELSE status[i]
    BY <1>2
  <2>4. readRefCount'[i] = Cardinality(Holders(i)')
    BY <1>10, <2>1, <2>2
  <2>5. CASE D(m, i) = {}
    <3>1. Holders(i)' = Holders(i)
      BY <1>9, <2>5
    <3>2. QED BY <2>1, <2>3, <2>4, <2>5, <3>1
  <2>6. CASE D(m, i) # {}
    <3>1. PICK k \in D(m, i) : TRUE
      BY <2>6
    <3>2. status[i] # "write"
      BY <1>5, <3>1
    <3>3. <<r, k>> \in Holders(i)'
      BY <1>9, <3>1
    <3>4. QED BY <2>1, <2>3, <2>4, <2>6, <3>2, <3>3
  <2>7. QED BY <2>5, <2>6
<1>15. QED BY <1>12, <1>13, <1>14 DEF HoldInv

-----------------------------------------------------------------------------
(* What is left alone.                                                     *)

LEMMA ReaderSame ==
    ASSUME NEW s, ReaderInv(s), UNCHANGED <<head, baseIterNum, data>>,
           /\ reading'[s] = reading[s] /\ request'[s] = request[s]
           /\ areas'[s] = areas[s] /\ locked'[s] = locked[s]
           /\ result'[s] = result[s] /\ until'[s] = until[s]
    PROVE  ReaderInv(s)'
<1>1. PlaceInv(s)'
  BY Zenon DEF ReaderInv, PlaceInv, Written
<1>2. Left(s)' = Left(s)
  BY Zenon DEF Left
<1>3. BackInv(s)'
  BY <1>2, Zenon DEF ReaderInv, BackInv
<1>4. QED BY <1>1, <1>3 DEF ReaderInv

LEMMA RingSame ==
    ASSUME RingInv, UNCHANGED <<head, baseIterNum, data>>,
           writing' = writing \/ (writing # "copy" /\ writing' # "copy")
    PROVE  RingInv'
<1>1. \A i \in Slots : Content(i)' = Content(i)
  BY Zenon DEF Content
<1>2. QED BY <1>1 DEF RingInv

LEMMA HoldSame ==
    ASSUME HoldInv, UNCHANGED <<head, areas, locked, status, readRefCount>>,
           writing' = writing \/ (writing # "copy" /\ writing' # "copy")
    PROVE  HoldInv'
<1>1. \A i : Holders(i)' = Holders(i)
  BY HoldersSame
<1>2. QED BY <1>1 DEF HoldInv

(* What a reader that is through with locking has to copy is held.         *)
LEMMA LeftHeld ==
    ASSUME ReaderTypes, NEW r \in Readers, PlaceInv(r),
           reading[r] \in {"copy", "unlock"},
           NEW k \in 1..Size(Left(r))
    PROVE  /\ SlotAt(Left(r), k) \in Slots
           /\ Holders(SlotAt(Left(r), k)) # {}
<1>1. /\ IsPair(areas[r]) /\ locked[r] \in Nat /\ Size(areas[r]) \in Nat
      /\ Size(areas[r]) > 0 /\ locked[r] >= Size(areas[r]) /\ InRing(areas[r])
  <2>1. IsPair(areas[r])
    BY DEF ReaderTypes, IsPair
  <2>2. locked[r] \in Nat
    BY RingSize DEF ReaderTypes
  <2>3. QED BY <2>1, <2>2, AreaParts DEF PlaceInv
<1>2. ASSUME NEW j \in 1..Size(areas[r])
      PROVE  SlotAt(areas[r], j) \in Slots /\ Holders(SlotAt(areas[r], j)) # {}
  <2>1. j <= locked[r]
    BY <1>1
  <2>2. QED BY <1>1, <2>1, PlacesHeld
<1>3. CASE reading[r] = "copy"
  <2>1. Left(r) = areas[r]
    BY <1>3 DEF Left
  <2>2. QED BY <1>2, <2>1
<1>4. CASE reading[r] = "unlock"
  <2>1. Left(r) = Others(areas[r])
    BY <1>4 DEF Left
  <2>2. PICK c \in Nat :
           /\ Size(Others(areas[r])) \in Nat
           /\ Size(areas[r]) = c + Size(Others(areas[r]))
           /\ \A j \in 1..Size(Others(areas[r])) :
                 SlotAt(Others(areas[r]), j) = SlotAt(areas[r], c + j)
    BY <1>1, FirstPlaces, Zenon
  <2>3. SlotAt(Left(r), k) = SlotAt(areas[r], c + k)
    BY <2>1, <2>2
  <2>4. c + k \in 1..Size(areas[r])
    BY <2>1, <2>2
  <2>5. QED BY <1>2, <2>3, <2>4
<1>5. QED BY <1>3, <1>4

(* The writer changes no slot that a reader holds.                         *)
LEMMA WriterLeaves ==
    ASSUME MeasureInv, Holders(head) = {}, UNCHANGED readerVars,
           \A i \in Slots \ {head} : data'[i] = data[i],
           \A i \in Slots : Written(i) => Written(i)',
           NEW r \in Readers
    PROVE  ReaderInv(r)'
<1>1. ReaderTypes /\ PlaceInv(r) /\ BackInv(r)
  BY DEF MeasureInv, ReaderInv
<1>2. UNCHANGED <<reading, request, areas, locked, retry, result, label, until>>
  BY DEF readerVars
<1>3. Left(r)' = Left(r)
  BY <1>2, Zenon DEF Left
<1>4. IsPair(areas[r]) /\ Size(areas[r]) \in Nat
  BY <1>1, AreaParts DEF ReaderTypes, IsPair
<1>5. PlaceInv(r)'
  <2>1. ASSUME NEW j \in 1..Size(areas[r]) PROVE Written(SlotAt(areas[r], j))'
    <3>1. InRing(areas[r]) /\ Written(SlotAt(areas[r], j))
      BY <1>1 DEF PlaceInv
    <3>2. Size(areas[r]) <= Size(areas[r])
      BY <1>4
    <3>3. PICK n \in Nat : n = Size(areas[r]) /\ j <= n
      BY <1>4
    <3>4. SlotAt(areas[r], j) \in Slots
      BY <1>4, <3>1, <3>3, PlaceIsFirst
    <3>5. Written(SlotAt(areas[r], j))'
      BY <1>2, <3>1, <3>4, Zenon DEF Written
    <3>6. QED BY <3>5
  <2>2. \A j \in 1..Size(areas[r]) : baseIterNum' > 0 \/ SlotAt(areas[r], j) < head'
    BY <1>2, <2>1, Zenon DEF Written
  <2>3. QED BY <1>1, <1>2, <2>2, Zenon DEF PlaceInv, Written
<1>6. BackInv(r)'
  <2>1. ASSUME reading[r] # "out", ~request[r].forward, NEW k \in 1..Size(Left(r))
        PROVE  data'[SlotAt(Left(r), k)] = data[SlotAt(Left(r), k)]
    <3>1. reading[r] \in {"copy", "unlock"}
      <4>1. reading[r] # "replied"
        <5>1. ASSUME reading[r] = "replied" PROVE FALSE
          <6>1. Size(Left(r)) = 0
            BY <1>1, <5>1 DEF PlaceInv, Left
          <6>2. QED BY <2>1, <6>1
        <5>2. QED BY <5>1
      <4>2. reading[r] # "lock"
        BY <1>1, <2>1 DEF BackInv
      <4>3. QED BY <1>1, <2>1, <4>1, <4>2 DEF ReaderTypes
    <3>2. SlotAt(Left(r), k) \in Slots /\ Holders(SlotAt(Left(r), k)) # {}
      BY <1>1, <3>1, LeftHeld
    <3>3. QED BY <3>2
  <2>2. QED BY <1>1, <1>2, <1>3, <2>1, Zenon DEF BackInv
<1>7. QED BY <1>5, <1>6 DEF ReaderInv

-----------------------------------------------------------------------------
(* The steps of the writer.                                                *)

LEMMA InitMeasureInv == Init => MeasureInv
<1>1. SUFFICES ASSUME MeasureInit PROVE MeasureInv
  BY DEF Init
<1>2. RingInv
  BY <1>1, RingSize DEF MeasureInit, RingInv, Content
<1>3. /\ areas = [r \in Readers |-> NoAreas]
      /\ locked = [r \in Readers |-> 0]
  BY <1>1 DEF MeasureInit
<1>4. ASSUME NEW i \in Slots PROVE Holders(i) = {}
  <2>1. ASSUME NEW r \in Readers, NEW k \in {1, 2} PROVE HeldSlots(r, k) = {}
    <3>1. areas[r] = NoAreas /\ locked[r] = 0
      BY <1>3
    <3>2. FirstSlots(NoAreas, 0, k) = {}
      BY NoAreasPair, NothingFirst
    <3>3. QED BY <3>1, <3>2 DEF HeldSlots
  <2>2. QED BY <2>1 DEF Holders
<1>5. HoldInv
  <2>1. /\ readRefCount = [i \in Slots |-> 0] /\ status = [i \in Slots |-> "none"]
        /\ writing = "out"
    BY <1>1 DEF MeasureInit
  <2>2. QED BY <1>4, <2>1, FS_EmptySet DEF HoldInv
<1>6. ReaderTypes
  <2>1. (CHOOSE q \in Requests : TRUE) \in Requests
    BY MeasureAssumption
  <2>2. NoAreas \in Areas \X Areas
    BY NoAreasPair DEF IsPair
  <2>3. <<>> \in Seq(Nat)
    OBVIOUS
  <2>4. QED BY <1>1, <2>1, <2>2, <2>3, RingSize DEF MeasureInit, ReaderTypes
<1>7. RetryInv /\ WriterInv
  <2>1. /\ retry = [r \in Readers |-> 0] /\ writing = "out" /\ addRetry = 0
        /\ failed = FALSE
    BY <1>1 DEF MeasureInit
  <2>2. 0 < MaxRetry /\ 0 \in 0..MaxRetry /\ 0 \in 0..(MaxRetry - 1)
    BY RingSize
  <2>3. RetryInv
    BY <2>1, <2>2 DEF RetryInv
  <2>4. WriterInv
    BY <2>1, <2>2, Zenon DEF WriterInv
  <2>5. QED BY <2>3, <2>4
<1>8. ASSUME NEW r \in Readers PROVE ReaderInv(r)
  <2>1. /\ reading[r] = "out" /\ areas[r] = NoAreas /\ result[r] = <<>>
    BY <1>1 DEF MeasureInit
  <2>2. InRing(areas[r]) /\ Size(areas[r]) = 0
    BY <2>1, NoAreasPair
  <2>3. Size(areas[r]) < QueueSize
    BY <2>2, RingSize
  <2>4. \A j \in 1..Size(areas[r]) : Written(SlotAt(areas[r], j))
    BY <2>2
  <2>5. QED BY <2>1, <2>2, <2>3, <2>4 DEF ReaderInv, PlaceInv, BackInv
<1>9. QED BY <1>2, <1>5, <1>6, <1>7, <1>8 DEF MeasureInv

LEMMA BeginAddStep ==
    ASSUME MeasureInv, NEW l \in Losses, GeneratePlan(l) PROVE MeasureInv'
<1>1. /\ writing = "out" /\ writing' = "add"
      /\ UNCHANGED <<head, baseIterNum, addRetry, data, status, readRefCount, failed>>
      /\ UNCHANGED <<reading, request, areas, locked, retry, result, label, until>>
  BY DEF GeneratePlan, readerVars
<1>2. RingInv' /\ HoldInv'
  BY <1>1, RingSame, HoldSame DEF MeasureInv
<1>3. ReaderTypes' /\ RetryInv' /\ WriterInv'
  BY <1>1 DEF MeasureInv, ReaderTypes, RetryInv, WriterInv
<1>4. \A r \in Readers : ReaderInv(r)'
  BY <1>1, ReaderSame DEF MeasureInv
<1>5. QED BY <1>2, <1>3, <1>4 DEF MeasureInv

LEMMA AddLocksMeasure ==
    ASSUME MeasureInv, AddLocks PROVE MeasureInv'
<1>1. /\ writing = "add" /\ UNCHANGED <<head, baseIterNum, readRefCount>>
      /\ UNCHANGED <<reading, request, areas, locked, retry, result, label, until>>
      /\ UNCHANGED readerVars
  BY DEF AddLocks, readerVars
<1>2. head \in Slots /\ RingInv /\ HoldInv /\ ReaderTypes /\ RetryInv /\ WriterInv
  BY DEF MeasureInv, RingInv
<1>3. ReaderTypes'
  BY <1>1, <1>2 DEF ReaderTypes
<1>4. CASE status[head] = "none"
  <2>1. /\ status' = [status EXCEPT ![head] = "write"]
        /\ data' = [data EXCEPT ![head] = None]
        /\ writing' = "copy" /\ addRetry' = 0 /\ failed' = failed
    BY <1>4, Zenon DEF AddLocks
  <2>2. Holders(head) = {}
    BY <1>2, <1>4 DEF HoldInv
  <2>3. RingInv'
    <3>1. ASSUME NEW i \in Slots PROVE data'[i] = Content(i)'
      <4>1. data[i] = Content(i) /\ i \in Int /\ head \in Int
        BY <1>2, RingSize DEF RingInv
      <4>2. ~(head < head)
        BY <4>1
      <4>3. CASE i = head
        BY <1>1, <1>2, <2>1, <4>2, <4>3, Zenon DEF Content, RingInv
      <4>4. CASE i # head
        <5>1. data'[i] = data[i]
          BY <1>2, <2>1, <4>4 DEF RingInv
        <5>2. Content(i)' = Content(i)
          BY <1>1, <4>4, Zenon DEF Content
        <5>3. QED BY <4>1, <5>1, <5>2
      <4>5. QED BY <4>3, <4>4
    <3>2. QED BY <1>1, <1>2, <2>1, <3>1 DEF RingInv
  <2>4. HoldInv'
    <3>1. \A i : Holders(i)' = Holders(i)
      BY <1>1, HoldersSame
    <3>2. ASSUME NEW i \in Slots
          PROVE  /\ readRefCount'[i] = Cardinality(Holders(i)')
                 /\ status'[i] = "write" <=> (i = head' /\ writing' = "copy")
                 /\ status'[i] = "read" <=> Holders(i)' # {}
      BY <1>1, <1>2, <2>1, <2>2, <3>1 DEF HoldInv
    <3>3. readRefCount' \in [Slots -> Nat] /\ status' \in [Slots -> {"none", "read", "write"}]
      BY <1>1, <1>2, <2>1 DEF HoldInv
    <3>4. QED BY <3>2, <3>3 DEF HoldInv
  <2>5. RetryInv' /\ WriterInv'
    BY <1>1, <1>2, <2>1, RingSize DEF RetryInv, WriterInv
  <2>6. ASSUME NEW r \in Readers PROVE ReaderInv(r)'
    <3>1. \A i \in Slots \ {head} : data'[i] = data[i]
      BY <1>2, <2>1 DEF RingInv
    <3>2. \A i \in Slots : Written(i) => Written(i)'
      BY <1>1, Zenon DEF Written
    <3>3. QED BY <1>1, <2>2, <3>1, <3>2, WriterLeaves
  <2>7. QED BY <1>3, <2>3, <2>4, <2>5, <2>6 DEF MeasureInv
<1>5. CASE status[head] # "none"
  <2>1. /\ UNCHANGED <<status, data, writing>>
        /\ \/ addRetry + 1 < MaxRetry /\ addRetry' = addRetry + 1 /\ failed' = failed
           \/ addRetry' = addRetry /\ failed' = TRUE
    BY <1>5, Zenon DEF AddLocks
  <2>2. RingInv' /\ HoldInv'
    BY <1>1, <1>2, <2>1, RingSame, HoldSame
  <2>3. WriterInv'
    <3>1. addRetry' \in 0..(MaxRetry - 1)
      BY <1>2, <2>1, RingSize DEF WriterInv
    <3>2. failed' \in BOOLEAN
      BY <1>2, <2>1 DEF WriterInv
    <3>3. QED BY <1>2, <2>1, <3>1, <3>2 DEF WriterInv
  <2>4. RetryInv'
    BY <1>1, <1>2, <2>1, Zenon DEF RetryInv
  <2>5. \A r \in Readers : ReaderInv(r)'
    BY <1>1, <2>1, ReaderSame DEF MeasureInv
  <2>6. QED BY <1>3, <2>2, <2>3, <2>4, <2>5 DEF MeasureInv
<1>6. QED BY <1>4, <1>5

HeadMoves(h, b, z, h2, b2) ==
    \/ h + 1 = z /\ h2 = 0 /\ b2 = b + z
    \/ h + 1 < z /\ h2 = h + 1 /\ b2 = b

(* What is at the place x before and after it.                             *)
PlaceMoves(h, b, z, h2, b2, x) ==
    /\ x = h /\ h + 1 = z => ~(x < h2) /\ b2 # 0 /\ b2 - z + x = b + h
    /\ x = h /\ h + 1 # z => x < h2 /\ b2 + x = b + h
    /\ x # h /\ h + 1 = z =>
          ~(x < h2) /\ b2 # 0 /\ b2 - z + x = b + x /\ x < h
    /\ x # h /\ h + 1 # z => (x < h2 <=> x < h) /\ b2 = b

LEMMA TheHeadMoves ==
    ASSUME NEW h \in Nat, NEW b \in Nat, NEW z \in Nat,
           NEW h2 \in Nat, NEW b2 \in Nat, HeadMoves(h, b, z, h2, b2),
           NEW x \in Nat, x < z
    PROVE  PlaceMoves(h, b, z, h2, b2, x)
<1>1. CASE h + 1 = z
  BY <1>1 DEF HeadMoves, PlaceMoves
<1>2. CASE h + 1 # z
  BY <1>2 DEF HeadMoves, PlaceMoves
<1>3. QED BY <1>1, <1>2

LEMMA AddEndsMeasure ==
    ASSUME MeasureInv, AddEnds PROVE MeasureInv'
<1>1. /\ writing = "copy" /\ writing' = "out" /\ UNCHANGED <<addRetry, readRefCount, failed>>
      /\ UNCHANGED <<reading, request, areas, locked, retry, result, label, until>>
      /\ UNCHANGED readerVars
      /\ data' = [data EXCEPT ![head] = Added]
      /\ status' = [status EXCEPT ![head] = "none"]
  BY DEF AddEnds, readerVars
<1>2. head \in Slots /\ RingInv /\ HoldInv /\ ReaderTypes /\ RetryInv /\ WriterInv
  BY DEF MeasureInv, RingInv
<1>3. Holders(head) = {}
  BY <1>1, <1>2 DEF HoldInv
<1>4. PICK h, b, z \in Nat : h = head /\ b = baseIterNum /\ z = QueueSize /\ h < z
                             /\ z >= 2 /\ (b = 0 \/ b >= z)
  BY <1>2, RingSize DEF RingInv
<1>5. PICK h2, b2 \in Nat :
         /\ h2 = head' /\ b2 = baseIterNum'
         /\ \/ h + 1 = z /\ h2 = 0 /\ b2 = b + z
            \/ h + 1 < z /\ h2 = h + 1 /\ b2 = b
  <2>1. CASE h + 1 = z
    <3>1. head' = 0 /\ baseIterNum' = b + z
      BY <1>4, <2>1, Zenon DEF AddEnds
    <3>2. QED BY <2>1, <3>1
  <2>2. CASE h + 1 # z
    <3>1. head' = h + 1 /\ baseIterNum' = b
      BY <1>4, <2>2, Zenon DEF AddEnds
    <3>2. QED BY <1>4, <2>2, <3>1
  <2>3. QED BY <2>1, <2>2
<1>6. h2 < z /\ (b2 = 0 \/ b2 >= z)
  BY <1>4, <1>5
<1>7. RingInv'
  <2>1. head' \in Slots /\ baseIterNum' \in Nat /\ (baseIterNum' = 0 \/ baseIterNum' >= QueueSize)
    <3>1. h2 \in 0..(z - 1)
      BY <1>6
    <3>2. QED BY <1>4, <1>5, <1>6, <3>1, Zenon DEF Slots
  <2>2. Added = b + h
    BY <1>4 DEF Added
  <2>b. HeadMoves(h, b, z, h2, b2)
    BY <1>5, Zenon DEF HeadMoves
  <2>a. \A x \in Nat : x < z => PlaceMoves(h, b, z, h2, b2, x)
    BY <2>b, TheHeadMoves
  <2>3. ASSUME NEW i \in Slots PROVE data'[i] = Content(i)'
    <3>1. PICK x \in Nat : x = i /\ x < z
      BY <1>4, RingSize
    <3>2. Content(i)' = IF x < h2 THEN b2 + x ELSE IF b2 = 0 THEN None ELSE b2 - z + x
      BY <1>1, <1>4, <1>5, <3>1, Zenon DEF Content
    <3>3. Content(i) = IF x < h THEN b + x
                       ELSE IF x = h \/ b = 0 THEN None ELSE b - z + x
      BY <1>1, <1>4, <3>1, Zenon DEF Content
    <3>4. CASE x = h
      <4>1. data'[i] = b + h
        BY <1>1, <1>2, <1>4, <2>2, <3>1, <3>4 DEF RingInv
      <4>2. CASE h + 1 = z
        <5>1. ~(x < h2) /\ b2 # 0 /\ b2 - z + x = b + h
          BY <2>a, <3>1, <3>4, <4>2, Zenon DEF PlaceMoves
        <5>2. QED BY <3>2, <4>1, <5>1, Zenon
      <4>3. CASE h + 1 # z
        <5>1. x < h2 /\ b2 + x = b + h
          BY <2>a, <3>1, <3>4, <4>3, Zenon DEF PlaceMoves
        <5>2. QED BY <3>2, <4>1, <5>1, Zenon
      <4>4. QED BY <4>2, <4>3
    <3>5. CASE x # h
      <4>1. data'[i] = Content(i)
        BY <1>1, <1>2, <1>4, <3>1, <3>5 DEF RingInv
      <4>2. CASE h + 1 = z
        <5>1. ~(x < h2) /\ b2 # 0 /\ b2 - z + x = b + x /\ x < h
          BY <2>a, <3>1, <3>5, <4>2, Zenon DEF PlaceMoves
        <5>2. QED BY <3>2, <3>3, <4>1, <5>1, Zenon
      <4>3. CASE h + 1 # z
        <5>1. (x < h2 <=> x < h) /\ b2 = b
          BY <2>a, <3>1, <3>5, <4>3, Zenon DEF PlaceMoves
        <5>2. QED BY <3>2, <3>3, <3>5, <4>1, <5>1, Zenon
      <4>4. QED BY <4>2, <4>3
    <3>6. QED BY <3>4, <3>5
  <2>4. data' \in [Slots -> Nat \cup {None}]
    <3>1. Added \in Nat
      BY <2>2
    <3>2. QED BY <1>1, <1>2, <3>1 DEF RingInv
  <2>5. QED BY <2>1, <2>3, <2>4 DEF RingInv
<1>8. HoldInv'
  <2>1. \A i : Holders(i)' = Holders(i)
    BY <1>1, HoldersSame
  <2>2. ASSUME NEW i \in Slots
        PROVE  /\ readRefCount'[i] = Cardinality(Holders(i)')
               /\ status'[i] = "write" <=> (i = head' /\ writing' = "copy")
               /\ status'[i] = "read" <=> Holders(i)' # {}
    BY <1>1, <1>2, <1>3, <2>1 DEF HoldInv
  <2>3. readRefCount' \in [Slots -> Nat] /\ status' \in [Slots -> {"none", "read", "write"}]
    BY <1>1, <1>2 DEF HoldInv
  <2>4. QED BY <2>2, <2>3 DEF HoldInv
<1>9. ReaderTypes' /\ RetryInv' /\ WriterInv'
  BY <1>1, <1>2 DEF ReaderTypes, RetryInv, WriterInv
<1>10. ASSUME NEW r \in Readers PROVE ReaderInv(r)'
  <2>1. \A i \in Slots \ {head} : data'[i] = data[i]
    BY <1>1, <1>2 DEF RingInv
  <2>2. ASSUME NEW i \in Slots, Written(i) PROVE Written(i)'
    <3>1. PICK x \in Nat : x = i
      BY RingSize
    <3>2. b > 0 \/ x < h
      BY <1>4, <2>2, <3>1 DEF Written
    <3>3. b2 > 0 \/ x < h2
      BY <1>4, <1>5, <3>2
    <3>4. QED BY <1>5, <3>1, <3>3 DEF Written
  <2>3. QED BY <1>1, <1>3, <2>1, <2>2, WriterLeaves
<1>11. QED BY <1>7, <1>8, <1>9, <1>10 DEF MeasureInv

LEMMA SaveMeasure ==
    ASSUME MeasureInv, UNCHANGED measureVars PROVE MeasureInv'
<1>1. /\ UNCHANGED <<head, baseIterNum, writing, addRetry, data, status, readRefCount, failed>>
      /\ UNCHANGED <<reading, request, areas, locked, retry, result, label, until>>
  BY DEF measureVars, writerVars, readerVars
<1>2. RingInv' /\ HoldInv'
  BY <1>1, RingSame, HoldSame DEF MeasureInv
<1>3. ReaderTypes' /\ RetryInv' /\ WriterInv'
  BY <1>1 DEF MeasureInv, ReaderTypes, RetryInv, WriterInv
<1>4. \A r \in Readers : ReaderInv(r)'
  BY <1>1, ReaderSame DEF MeasureInv
<1>5. QED BY <1>2, <1>3, <1>4 DEF MeasureInv

-----------------------------------------------------------------------------
(* The steps of a reader.                                                  *)

(* A step of one reader leaves what is said of the others.                 *)
LEMMA OthersSame ==
    ASSUME MeasureInv, NEW r \in Readers, UNCHANGED <<head, baseIterNum, data>>,
           \A s \in Readers \ {r} :
              /\ reading'[s] = reading[s] /\ request'[s] = request[s]
              /\ areas'[s] = areas[s] /\ locked'[s] = locked[s]
              /\ result'[s] = result[s] /\ until'[s] = until[s],
           ReaderInv(r)'
    PROVE  \A s \in Readers : ReaderInv(s)'
<1>1. ASSUME NEW s \in Readers \ {r} PROVE ReaderInv(s)'
  <2>1. /\ reading'[s] = reading[s] /\ request'[s] = request[s]
        /\ areas'[s] = areas[s] /\ locked'[s] = locked[s]
        /\ result'[s] = result[s] /\ until'[s] = until[s]
    OBVIOUS
  <2>2. ReaderInv(s)
    BY DEF MeasureInv
  <2>3. QED BY <2>1, <2>2, ReaderSame
<1>2. QED BY <1>1

LEMMA SlotIs == ASSUME NEW m \in Nat, m < QueueSize PROVE m \in Slots
BY RingSize DEF Slots

LEMMA NoMoreThan ==
    ASSUME NEW m \in Nat, NEW y \in Nat, NEW z \in Nat, m <= y, y < z PROVE m < z
OBVIOUS

LEMMA InOrder ==
    ASSUME NEW m \in Nat, NEW y \in Nat, NEW z \in Nat, m <= y, y <= z PROVE m <= z
OBVIOUS

LEMMA SumIsInt ==
    ASSUME NEW x \in Nat, NEW y \in Nat PROVE x + y \in Int
OBVIOUS

(* What locking does to the one who locks.                                 *)
LEMMA LockReader ==
    ASSUME ReaderTypes, RetryInv, failed = FALSE, NEW r \in Readers, NEW as, IsPair(as), InRing(as),
           NEW n \in Nat, n <= Size(as), Size(as) < QueueSize,
           \A j \in 1..Size(as) : Written(SlotAt(as, j)),
           areas' = [areas EXCEPT ![r] = as], LockSlots(r, as, n),
           UNCHANGED <<head, baseIterNum>>
    PROVE  /\ PlaceInv(r)' /\ RetryInv' /\ failed' \in BOOLEAN
           /\ reading' \in [Readers -> {"out", "lock", "copy", "unlock", "replied"}]
           /\ areas' \in [Readers -> Areas \X Areas]
           /\ locked' \in [Readers -> Slots]
           /\ reading'[r] \in {"lock", "copy", "replied"}
           /\ reading'[r] = "lock" =>
                 \E j \in 1..Size(as) : status[SlotAt(as, j)] = "write"
           /\ \A s \in Readers \ {r} :
                 reading'[s] = reading[s] /\ areas'[s] = areas[s] /\ locked'[s] = locked[s]
<1>1. PICK m \in Nat :
         /\ n <= m /\ m <= Size(as)
         /\ m < Size(as) => status[SlotAt(as, m + 1)] = "write"
         /\ locked' = [locked EXCEPT ![r] = m]
         /\ IF m < Size(as)
            THEN /\ reading' = [reading EXCEPT ![r] = "lock"]
                 /\ retry' = [retry EXCEPT ![r] = IF m = n THEN retry[r] + 1 ELSE 1]
                 /\ IF (IF m = n THEN retry[r] + 1 ELSE 1) < MaxRetry
                    THEN failed' = failed ELSE failed' = TRUE
            ELSE /\ reading' = [reading EXCEPT ![r] = AfterLocks(as)]
                 /\ retry' = [retry EXCEPT ![r] = 0]
                 /\ failed' = failed
  <2>1. Size(as) \in Nat
    BY AreaParts
  <2>2. ASSUME NEW m \in n..Size(as) PROVE m \in Nat /\ n <= m /\ m <= Size(as)
    BY <2>1, BetweenIs, Zenon
  <2>3. QED BY <2>2, Zenon DEF LockSlots
<1>2. PICK z \in Nat : z = Size(as) /\ z < QueueSize
  BY AreaParts
<1>3. m \in Slots
  <2>1. m <= z
    BY <1>1, <1>2, Zenon
  <2>2. m < QueueSize
    BY <1>2, <2>1, RingSize, NoMoreThan
  <2>3. QED BY <2>2, SlotIs
<1>4. /\ areas'[r] = as /\ locked'[r] = m
      /\ areas' \in [Readers -> Areas \X Areas] /\ locked' \in [Readers -> Slots]
  <2>1. as \in Areas \X Areas
    BY DEF IsPair
  <2>2. /\ areas' = [areas EXCEPT ![r] = as] /\ locked' = [locked EXCEPT ![r] = m]
    BY <1>1
  <2>3. QED BY <1>3, <2>1, <2>2, Zenon DEF ReaderTypes
<1>5. PICK p : /\ reading' = [reading EXCEPT ![r] = p]
               /\ p = IF m < z THEN "lock" ELSE IF z = 0 THEN "replied" ELSE "copy"
  BY <1>1, <1>2, Zenon DEF AfterLocks
<1>6. /\ reading' \in [Readers -> {"out", "lock", "copy", "unlock", "replied"}]
      /\ reading'[r] = p /\ p \in {"lock", "copy", "replied"}
  BY <1>5 DEF ReaderTypes
<1>7. \A s \in Readers \ {r} :
         reading'[s] = reading[s] /\ areas'[s] = areas[s] /\ locked'[s] = locked[s]
  BY <1>1, <1>5, Zenon DEF ReaderTypes
<1>8. PlaceInv(r)'
  <2>1. p \in {"copy", "unlock"} => z > 0 /\ m >= z
    BY <1>5
  <2>2. p = "replied" => z = 0
    BY <1>5
  <2>3. /\ InRing(as) /\ Size(as) < QueueSize
        /\ \A j \in 1..Size(as) : baseIterNum' > 0 \/ SlotAt(as, j) < head'
    BY <1>2, Zenon DEF Written
  <2>4. p # "out"
    BY <1>5
  <2>5. reading'[r] = p
    BY <1>6
  <2>6. p \in {"copy", "unlock"} => Size(as) > 0 /\ m >= Size(as)
    BY <1>2, <2>1
  <2>7. p \in {"out", "replied"} => Size(as) = 0
    BY <1>2, <2>2, <2>4
  <2>8. QED BY <1>4, <2>3, <2>4, <2>5, <2>6, <2>7, Zenon DEF PlaceInv, Written
<1>9. RetryInv' /\ failed' \in BOOLEAN
  <2>1. PICK x \in Nat : x = retry[r] /\ x < MaxRetry
    BY RingSize DEF RetryInv
  <2>2. PICK y \in 0..MaxRetry :
           /\ retry' = [retry EXCEPT ![r] = y]
           /\ failed' = TRUE \/ (failed' = FALSE /\ y < MaxRetry)
    <3>1. CASE m < Size(as)
      <4>1. PICK y \in Nat : y = (IF m = n THEN x + 1 ELSE 1) /\ y <= MaxRetry
        BY <2>1, RingSize
      <4>2. /\ retry' = [retry EXCEPT ![r] = y]
            /\ IF y < MaxRetry THEN failed' = failed ELSE failed' = TRUE
        BY <1>1, <2>1, <3>1, <4>1, Zenon
      <4>3. y \in 0..MaxRetry
        BY <4>1, RingSize
      <4>4. QED BY <4>2, <4>3, Zenon
    <3>2. CASE ~(m < Size(as))
      <4>1. retry' = [retry EXCEPT ![r] = 0] /\ failed' = failed
        BY <1>1, <3>2, Zenon
      <4>2. 0 \in 0..MaxRetry /\ 0 < MaxRetry
        BY RingSize
      <4>3. QED BY <4>1, <4>2, Zenon
    <3>3. QED BY <3>1, <3>2
  <2>3. retry' \in [Readers -> 0..MaxRetry]
    BY <2>2 DEF RetryInv
  <2>4. ASSUME failed' = FALSE, NEW s \in Readers PROVE retry'[s] < MaxRetry
    <3>1. retry[s] < MaxRetry
      BY DEF RetryInv
    <3>2. CASE s = r
      BY <2>2, <2>4, <3>2 DEF RetryInv
    <3>3. CASE s # r
      BY <2>2, <3>1, <3>3 DEF RetryInv
    <3>4. QED BY <3>2, <3>3
  <2>5. QED BY <2>2, <2>3, <2>4, Zenon DEF RetryInv
<1>10. p = "lock" => \E j \in 1..Size(as) : status[SlotAt(as, j)] = "write"
  <2>1. SUFFICES ASSUME p = "lock" PROVE \E j \in 1..Size(as) : status[SlotAt(as, j)] = "write"
    OBVIOUS
  <2>2. m < z
    BY <1>5, <2>1
  <2>3. m + 1 \in 1..z
    BY <2>2
  <2>4. QED BY <1>1, <1>2, <2>2, <2>3, Zenon
<1>11. QED BY <1>4, <1>6, <1>7, <1>8, <1>9, <1>10

LEMMA GetDataMeasure ==
    ASSUME MeasureInv, failed = FALSE, NEW r \in Readers, NEW q \in Requests, GetData(r, q)
    PROVE  MeasureInv'
<1>1. /\ reading[r] = "out"
      /\ request' = [request EXCEPT ![r] = q] /\ until' = [until EXCEPT ![r] = Added]
      /\ UNCHANGED <<head, baseIterNum, writing, addRetry, data, result>>
  BY DEF GetData, writerVars
<1>2. RingInv /\ HoldInv /\ ReaderTypes /\ RetryInv /\ WriterInv /\ PlaceInv(r)
  BY DEF MeasureInv, ReaderInv
<1>3. RingInv'
  BY <1>1, <1>2, RingSame
<1>4. Added \in Nat
  <2>1. head \in Nat /\ baseIterNum \in Nat
    BY <1>2, RingSize DEF RingInv
  <2>2. QED BY <2>1 DEF Added
<1>5. /\ request' \in [Readers -> Requests] /\ until' \in [Readers -> Nat]
      /\ result' \in [Readers -> Seq(Nat)]
      /\ request'[r] = q /\ until'[r] = Added /\ result'[r] = <<>>
      /\ \A s \in Readers \ {r} :
            request'[s] = request[s] /\ until'[s] = until[s] /\ result'[s] = result[s]
  <2>1. result[r] = <<>>
    BY <1>1, <1>2 DEF PlaceInv
  <2>2. QED BY <1>1, <1>2, <1>4, <2>1 DEF ReaderTypes
<1>6. Size(areas[r]) = 0
  BY <1>1, <1>2 DEF PlaceInv
<1>7. WriterInv' \/ failed' \notin BOOLEAN
  BY <1>1, <1>2 DEF WriterInv
<1>8. CASE NotThere(q)
  <2>1. /\ label' = [label EXCEPT ![r] = -1] /\ reading' = [reading EXCEPT ![r] = "replied"]
        /\ UNCHANGED <<areas, status, readRefCount, locked, retry, failed>>
    BY <1>8, Zenon DEF GetData
  <2>2. q.forward
    BY <1>8 DEF NotThere
  <2>3. HoldInv' /\ RetryInv' /\ WriterInv'
    BY <1>1, <1>2, <2>1, HoldSame DEF RetryInv, WriterInv
  <2>4. ReaderTypes'
    BY <1>2, <1>5, <2>1 DEF ReaderTypes
  <2>5. reading'[r] = "replied" /\ areas'[r] = areas[r] /\ locked'[r] = locked[r]
    BY <1>2, <2>1 DEF ReaderTypes
  <2>6. PlaceInv(r)'
    BY <1>1, <1>2, <1>6, <2>5, Zenon DEF PlaceInv, Written
  <2>7. BackInv(r)'
    BY <1>5, <2>2, Zenon DEF BackInv
  <2>8. \A s \in Readers : ReaderInv(s)'
    <3>1. \A s \in Readers \ {r} :
              /\ reading'[s] = reading[s] /\ request'[s] = request[s]
              /\ areas'[s] = areas[s] /\ locked'[s] = locked[s]
              /\ result'[s] = result[s] /\ until'[s] = until[s]
      BY <1>2, <1>5, <2>1 DEF ReaderTypes
    <3>2. ReaderInv(r)'
      BY <2>6, <2>7 DEF ReaderInv
    <3>3. QED BY <1>1, <3>1, <3>2, OthersSame
  <2>9. QED BY <1>3, <2>3, <2>4, <2>8 DEF MeasureInv
<1>9. CASE ~NotThere(q) /\ Overruns(AreasOf(q))
  <2>1. /\ failed' = TRUE
        /\ UNCHANGED <<reading, areas, label, status, readRefCount, locked, retry>>
    BY <1>9, Zenon DEF GetData
  <2>2. HoldInv' /\ RetryInv' /\ WriterInv'
    BY <1>1, <1>2, <2>1, HoldSame DEF RetryInv, WriterInv
  <2>3. ReaderTypes'
    BY <1>2, <1>5, <2>1 DEF ReaderTypes
  <2>4. PlaceInv(r)'
    BY <1>1, <1>2, <2>1, Zenon DEF PlaceInv, Written
  <2>5. BackInv(r)'
    BY <1>1, <2>1, Zenon DEF BackInv
  <2>6. \A s \in Readers : ReaderInv(s)'
    <3>1. \A s \in Readers \ {r} :
              /\ reading'[s] = reading[s] /\ request'[s] = request[s]
              /\ areas'[s] = areas[s] /\ locked'[s] = locked[s]
              /\ result'[s] = result[s] /\ until'[s] = until[s]
      BY <1>5, <2>1
    <3>2. ReaderInv(r)'
      BY <2>4, <2>5 DEF ReaderInv
    <3>3. QED BY <1>1, <3>1, <3>2, OthersSame
  <2>7. QED BY <1>3, <2>2, <2>3, <2>6 DEF MeasureInv
<1>10. CASE ~NotThere(q) /\ ~Overruns(AreasOf(q))
  <2>1. PICK as : as = AreasOf(q)
    OBVIOUS
  <2>2. /\ label' = [label EXCEPT ![r] = baseIterNum + as[1].start]
        /\ areas' = [areas EXCEPT ![r] = as]
        /\ LockSlots(r, as, 0)
    BY <1>10, <2>1, Zenon DEF GetData
  <2>3. /\ IsPair(as) /\ InRing(as) /\ Size(as) < QueueSize
        /\ \A j \in 1..Size(as) : Written(SlotAt(as, j))
    <3>1. CASE q.forward
      BY <1>2, <1>10, <2>1, <3>1, ForwardSlots
    <3>2. CASE ~q.forward
      <4>1. PICK n \in Nat :
               /\ n < QueueSize /\ IsPair(as) /\ InRing(as) /\ Size(as) = n
               /\ \A j \in 1..n : Written(SlotAt(as, j))
        BY <1>2, <2>1, <3>2, BackwardSlots, Zenon
      <4>2. QED BY <4>1, Zenon
    <3>3. QED BY <3>1, <3>2
  <2>4. Size(as) \in Nat /\ 0 <= Size(as) /\ 0 \in Nat
    <3>1. Size(as) \in Nat
      BY <2>3, AreaParts
    <3>2. \A x \in Nat : 0 <= x
      OBVIOUS
    <3>3. QED BY <3>1, <3>2
  <2>5. /\ PlaceInv(r)' /\ RetryInv' /\ failed' \in BOOLEAN
        /\ reading' \in [Readers -> {"out", "lock", "copy", "unlock", "replied"}]
        /\ areas' \in [Readers -> Areas \X Areas]
        /\ locked' \in [Readers -> Slots]
        /\ reading'[r] \in {"lock", "copy", "replied"}
        /\ reading'[r] = "lock" =>
              \E j \in 1..Size(as) : status[SlotAt(as, j)] = "write"
        /\ \A s \in Readers \ {r} :
              reading'[s] = reading[s] /\ areas'[s] = areas[s] /\ locked'[s] = locked[s]
    BY <1>1, <1>2, <2>2, <2>3, <2>4, LockReader
  <2>6. HoldInv'
    <3>1. ASSUME NEW k \in {1, 2} PROVE FirstSlots(as, 0, k) = HeldSlots(r, k)
      <4>1. IsPair(areas[r]) /\ locked[r] \in Nat
        BY <1>2, RingSize DEF ReaderTypes, IsPair
      <4>2. FirstSlots(as, 0, k) = {} /\ FirstSlots(areas[r], locked[r], k) = {}
        BY <1>6, <2>3, <2>4, <4>1, NothingFirst
      <4>3. QED BY <4>2 DEF HeldSlots
    <3>2. QED BY <1>1, <1>2, <2>2, <2>3, <2>4, <3>1, LockStep
  <2>7. ReaderTypes'
    <3>1. baseIterNum + as[1].start \in Int
      <4>1. baseIterNum \in Nat /\ as[1].start \in Nat
        BY <1>2, <2>3, AreaParts DEF RingInv
      <4>2. QED BY <4>1, SumIsInt
    <3>2. label' \in [Readers -> Int]
      BY <1>2, <2>2, <3>1 DEF ReaderTypes
    <3>3. QED BY <1>5, <2>5, <3>2 DEF ReaderTypes
  <2>8. BackInv(r)'
    <3>1. SUFFICES ASSUME ~q.forward PROVE BackInv(r)'
      BY <1>5, Zenon DEF BackInv
    <3>2. PICK n \in Nat :
             /\ n = Smaller(Added, q.count) /\ Size(as) = n
             /\ \A j \in 1..n :
                   /\ SlotAt(as, j) \in Slots /\ SlotAt(as, j) # head
                   /\ Content(SlotAt(as, j)) = Added - n + j - 1
      BY <1>2, <2>1, <3>1, BackwardSlots, Zenon
    <3>3. reading'[r] # "lock"
      <4>1. ASSUME NEW j \in 1..n PROVE status[SlotAt(as, j)] # "write"
        BY <1>2, <3>2 DEF HoldInv
      <4>2. QED BY <2>5, <3>2, <4>1
    <3>4. Left(r)' = as
      <4>1. areas'[r] = as /\ reading'[r] # "unlock"
        BY <1>2, <2>2, <2>5 DEF ReaderTypes
      <4>2. QED BY <4>1 DEF Left
    <3>5. Len(<<>>) = 0
      OBVIOUS
    <3>6. Len(result'[r]) = 0 /\ 0 + n = n
      BY <1>5, <3>5
    <3>7. ASSUME NEW k \in 1..n PROVE data'[SlotAt(as, k)] = Added - n + 0 + k - 1
      <4>1. data'[SlotAt(as, k)] = Added - n + k - 1
        BY <1>1, <1>2, <3>2 DEF RingInv
      <4>2. Added - n + 0 + k - 1 = Added - n + k - 1
        BY <1>4
      <4>3. QED BY <4>1, <4>2
    <3>8. \A k \in 1..0 : result'[r][k] = Added - n + k - 1
      OBVIOUS
    <3>9. QED BY <1>5, <3>2, <3>3, <3>4, <3>6, <3>7, <3>8, Zenon DEF BackInv
  <2>9. \A s \in Readers : ReaderInv(s)'
    <3>1. \A s \in Readers \ {r} :
              /\ reading'[s] = reading[s] /\ request'[s] = request[s]
              /\ areas'[s] = areas[s] /\ locked'[s] = locked[s]
              /\ result'[s] = result[s] /\ until'[s] = until[s]
      BY <1>5, <2>5
    <3>2. ReaderInv(r)'
      BY <2>5, <2>8 DEF ReaderInv
    <3>3. QED BY <1>1, <3>1, <3>2, OthersSame
  <2>10. QED BY <1>3, <1>7, <2>5, <2>6, <2>7, <2>9, Zenon DEF MeasureInv
<1>11. QED BY <1>8, <1>9, <1>10

LEMMA LockRetryMeasure ==
    ASSUME MeasureInv, failed = FALSE, NEW r \in Readers, LockRetry(r)
    PROVE  MeasureInv'
<1>1. /\ reading[r] = "lock" /\ LockSlots(r, areas[r], locked[r])
      /\ UNCHANGED <<head, baseIterNum, writing, addRetry, data>>
      /\ UNCHANGED <<areas, result, label, until, request>>
  BY DEF LockRetry, writerVars
<1>2. RingInv /\ HoldInv /\ ReaderTypes /\ RetryInv /\ WriterInv /\ PlaceInv(r)
      /\ BackInv(r)
  BY DEF MeasureInv, ReaderInv
<1>3. RingInv'
  BY <1>1, <1>2, RingSame
<1>4. PICK as : as = areas[r]
  OBVIOUS
<1>5. PICK n \in Nat : n = locked[r] /\ n <= Size(as)
  <2>1. locked[r] \in Nat
    BY <1>2, RingSize DEF ReaderTypes
  <2>2. PICK m \in locked[r]..Size(as) : TRUE
    BY <1>1, <1>4, Zenon DEF LockSlots
  <2>3. Size(as) \in Nat
    BY <1>2, <1>4, AreaParts DEF ReaderTypes, IsPair
  <2>4. locked[r] <= Size(as)
    <3>1. m \in Nat /\ locked[r] <= m /\ m <= Size(as)
      BY <2>1, <2>2, <2>3, BetweenIs, Zenon
    <3>2. QED BY <2>1, <2>3, <3>1, InOrder
  <2>5. QED BY <2>1, <2>4
<1>6. /\ IsPair(as) /\ InRing(as) /\ Size(as) < QueueSize
      /\ \A j \in 1..Size(as) : Written(SlotAt(as, j))
  BY <1>2, <1>4 DEF ReaderTypes, IsPair, PlaceInv
<1>7. areas' = [areas EXCEPT ![r] = as] /\ LockSlots(r, as, n)
  BY <1>1, <1>2, <1>4, <1>5 DEF ReaderTypes
<1>8. /\ PlaceInv(r)' /\ RetryInv' /\ failed' \in BOOLEAN
      /\ reading' \in [Readers -> {"out", "lock", "copy", "unlock", "replied"}]
      /\ areas' \in [Readers -> Areas \X Areas]
      /\ locked' \in [Readers -> Slots]
      /\ \A s \in Readers \ {r} :
            reading'[s] = reading[s] /\ areas'[s] = areas[s] /\ locked'[s] = locked[s]
  BY <1>1, <1>2, <1>5, <1>6, <1>7, LockReader
<1>9. HoldInv'
  <2>1. ASSUME NEW k \in {1, 2} PROVE FirstSlots(as, n, k) = HeldSlots(r, k)
    BY <1>4, <1>5 DEF HeldSlots
  <2>2. QED BY <1>1, <1>2, <1>5, <1>6, <1>7, <2>1, LockStep
<1>10. ReaderTypes'
  BY <1>1, <1>2, <1>8 DEF ReaderTypes
<1>11. BackInv(r)'
  <2>1. request[r].forward
    BY <1>1, <1>2 DEF BackInv
  <2>2. QED BY <1>1, <2>1, Zenon DEF BackInv
<1>12. \A s \in Readers : ReaderInv(s)'
  <2>1. \A s \in Readers \ {r} :
            /\ reading'[s] = reading[s] /\ request'[s] = request[s]
            /\ areas'[s] = areas[s] /\ locked'[s] = locked[s]
            /\ result'[s] = result[s] /\ until'[s] = until[s]
    BY <1>1, <1>8
  <2>2. ReaderInv(r)'
    BY <1>8, <1>11 DEF ReaderInv
  <2>3. QED BY <1>1, <2>1, <2>2, OthersSame
<1>13. WriterInv'
  BY <1>1, <1>2, <1>8 DEF WriterInv
<1>14. QED BY <1>3, <1>8, <1>9, <1>10, <1>12, <1>13 DEF MeasureInv

(* A slot that holds a whole measure, and is not being written to.         *)
LEMMA ContentIs ==
    ASSUME RingInv, NEW i \in Slots, Written(i), ~(i = head /\ writing = "copy")
    PROVE  data[i] \in Nat
<1>1. PICK x, h, b, z \in Nat :
         /\ x = i /\ h = head /\ b = baseIterNum /\ z = QueueSize
         /\ b = 0 \/ b >= z
  BY RingSize DEF RingInv
<1>2. CASE x < h
  <2>1. Content(i) = b + x
    BY <1>1, <1>2, Zenon DEF Content
  <2>2. b + x \in Nat
    OBVIOUS
  <2>3. QED BY <2>1, <2>2 DEF RingInv
<1>3. CASE ~(x < h)
  <2>1. b > 0
    BY <1>1, <1>3, Zenon DEF Written
  <2>2. b # 0
    BY <2>1
  <2>3. Content(i) = b - z + x
    BY <1>1, <1>3, <2>2, Zenon DEF Content
  <2>4. b - z + x \in Nat
    BY <1>1, <2>2
  <2>5. QED BY <2>3, <2>4 DEF RingInv
<1>4. QED BY <1>2, <1>3

LEMMA FunctionIsSequence ==
    ASSUME NEW c \in Nat, NEW f \in [1..c -> Nat]
    PROVE  f \in Seq(Nat) /\ Len(f) = c
OBVIOUS

LEMMA CopyNumbers ==
    ASSUME NEW l \in Nat, NEW c \in Nat, NEW o \in Nat, NEW n \in Int, NEW u \in Int,
           l + (c + o) = n, NEW k \in Nat
    PROVE  /\ (l + c) + o = n
           /\ k <= l + c /\ ~(k <= l) => /\ k - l \in 1..c /\ k - l \in 1..(c + o)
                                        /\ u - n + l + (k - l) - 1 = u - n + k - 1
           /\ k >= 1 /\ k <= l => k \in 1..l
           /\ k >= 1 /\ k <= o => /\ c + k \in 1..(c + o)
                                  /\ u - n + l + (c + k) - 1 = u - n + (l + c) + k - 1
OBVIOUS

LEMMA CopyMeasure ==
    ASSUME MeasureInv, NEW r \in Readers, Copy(r) PROVE MeasureInv'
<1>1. /\ reading[r] = "copy" /\ reading' = [reading EXCEPT ![r] = "unlock"]
      /\ UNCHANGED <<head, baseIterNum, writing, addRetry, data, status, readRefCount,
                     request, areas, locked, retry, label, until, failed>>
  BY DEF Copy, writerVars
<1>2. RingInv /\ HoldInv /\ ReaderTypes /\ RetryInv /\ WriterInv /\ PlaceInv(r)
      /\ BackInv(r)
  BY DEF MeasureInv, ReaderInv
<1>3. RingInv' /\ HoldInv' /\ RetryInv' /\ WriterInv'
  BY <1>1, <1>2, RingSame, HoldSame DEF RetryInv, WriterInv
<1>4. PICK as : as = areas[r]
  OBVIOUS
<1>5. IsPair(as) /\ Size(as) > 0 /\ InRing(as)
  BY <1>1, <1>2, <1>4 DEF ReaderTypes, IsPair, PlaceInv
<1>6. PICK s, c \in Nat :
         /\ First(as).start = s /\ First(as).count = c /\ c > 0
         /\ \A j \in 1..c : SlotAt(as, j) = s + j - 1
         /\ Size(Others(as)) \in Nat /\ Size(as) = c + Size(Others(as))
         /\ \A j \in 1..Size(Others(as)) : SlotAt(Others(as), j) = SlotAt(as, c + j)
  BY <1>5, FirstPlaces, Zenon
<1>7. ASSUME NEW j \in 1..Size(as) PROVE data[SlotAt(as, j)] \in Nat
  <2>1. Left(r) = as
    BY <1>1, <1>4 DEF Left
  <2>2. SlotAt(as, j) \in Slots /\ Holders(SlotAt(as, j)) # {}
    BY <1>1, <1>2, <2>1, LeftHeld
  <2>3. ~(SlotAt(as, j) = head /\ writing = "copy")
    BY <1>2, <2>2 DEF HoldInv
  <2>4. Written(SlotAt(as, j))
    BY <1>2, <1>4 DEF PlaceInv
  <2>5. QED BY <1>2, <2>2, <2>3, <2>4, ContentIs
<1>8. PICK new : new = [k \in 1..c |-> data[s + k - 1]]
  OBVIOUS
<1>9. /\ new \in Seq(Nat) /\ Len(new) = c
      /\ \A k \in 1..c : new[k] = data[SlotAt(as, k)]
  <2>1. \A k \in 1..c : new[k] = data[SlotAt(as, k)]
    BY <1>6, <1>8
  <2>2. \A k \in 1..c : k \in 1..Size(as)
    <3>1. PICK o \in Nat : o = Size(Others(as))
      BY <1>6
    <3>2. \A k \in 1..c : k \in 1..(c + o)
      OBVIOUS
    <3>3. QED BY <1>6, <3>1, <3>2
  <2>3. \A k \in 1..c : new[k] \in Nat
    BY <1>7, <2>1, <2>2
  <2>4. new = [k \in 1..c |-> new[k]]
    BY <1>8
  <2>5. new \in [1..c -> Nat]
    BY <2>3, <2>4
  <2>6. new \in Seq(Nat) /\ Len(new) = c
    BY <2>5, FunctionIsSequence
  <2>7. QED BY <2>1, <2>6
<1>10. PICK old \in Seq(Nat) : old = result[r]
  BY <1>2 DEF ReaderTypes
<1>11. result' = [result EXCEPT ![r] = old \o new]
  BY <1>6, <1>8, <1>10, <1>4 DEF Copy
<1>12. /\ old \o new \in Seq(Nat) /\ Len(old \o new) = Len(old) + c
       /\ \A k \in 1..(Len(old) + c) :
             (old \o new)[k] = IF k <= Len(old) THEN old[k] ELSE new[k - Len(old)]
  BY <1>9, ConcatProperties
<1>13. ReaderTypes'
  BY <1>1, <1>2, <1>11, <1>12 DEF ReaderTypes
<1>14. reading'[r] = "unlock" /\ result'[r] = old \o new
  BY <1>1, <1>2, <1>11 DEF ReaderTypes
<1>15. PlaceInv(r)'
  <2>1. Size(areas[r]) > 0 /\ locked[r] >= Size(areas[r])
    BY <1>1, <1>2 DEF PlaceInv
  <2>2. QED BY <1>1, <1>2, <1>14, <2>1 DEF PlaceInv, Written
<1>16. BackInv(r)'
  <2>1. SUFFICES ASSUME ~request[r].forward PROVE BackInv(r)'
    BY <1>1, Zenon DEF BackInv
  <2>2. PICK u \in Nat : u = until[r]
    BY <1>2 DEF ReaderTypes
  <2>3. PICK n \in Int : n = Smaller(until[r], request[r].count)
    <3>1. request[r].count \in 0..(QueueSize - 1)
      BY <1>2, MeasureAssumption DEF ReaderTypes
    <3>2. request[r].count \in Int
      BY <3>1
    <3>3. u \in Int
      OBVIOUS
    <3>4. QED BY <2>2, <3>2, <3>3, Zenon DEF Smaller
  <2>4. PICK l, o \in Nat : l = Len(old) /\ o = Size(Others(as))
    <3>1. Len(old) \in Nat
      OBVIOUS
    <3>2. QED BY <1>6, <3>1, Zenon
  <2>5. Left(r) = as
    BY <1>1, <1>4 DEF Left
  <2>6. /\ l + (c + o) = n
        /\ \A k \in 1..l : old[k] = u - n + k - 1
        /\ \A k \in 1..(c + o) : data[SlotAt(as, k)] = u - n + l + k - 1
    BY <1>1, <1>2, <1>6, <1>10, <2>1, <2>2, <2>3, <2>4, <2>5 DEF BackInv
  <2>7. Left(r)' = Others(as)
    BY <1>1, <1>4, <1>14 DEF Left
  <2>8. /\ n = Smaller(until'[r], request'[r].count) /\ until'[r] = u
        /\ data' = data /\ Len(old \o new) = l + c
    BY <1>1, <1>12, <2>2, <2>3, <2>4
  <2>9. (l + c) + o = n
    BY <2>6, CopyNumbers
  <2>10. ASSUME NEW k \in 1..(l + c) PROVE (old \o new)[k] = u - n + k - 1
    <3>1. k \in Nat /\ k >= 1 /\ k <= l + c
      OBVIOUS
    <3>2. CASE k <= l
      <4>1. k \in 1..l
        BY <2>6, <3>1, <3>2, CopyNumbers
      <4>2. QED BY <1>12, <2>4, <2>6, <3>2, <4>1
    <3>3. CASE ~(k <= l)
      <4>1. /\ k - l \in 1..c /\ k - l \in 1..(c + o)
            /\ u - n + l + (k - l) - 1 = u - n + k - 1
        BY <2>6, <3>1, <3>3, CopyNumbers
      <4>2. (old \o new)[k] = new[k - l]
        BY <1>12, <2>4, <3>3
      <4>3. new[k - l] = data[SlotAt(as, k - l)]
        BY <1>9, <4>1
      <4>4. data[SlotAt(as, k - l)] = u - n + l + (k - l) - 1
        BY <2>6, <4>1
      <4>5. QED BY <4>1, <4>2, <4>3, <4>4, Zenon
    <3>4. QED BY <3>2, <3>3
  <2>11. ASSUME NEW k \in 1..o
         PROVE  data[SlotAt(Others(as), k)] = u - n + (l + c) + k - 1
    <3>1. k \in Nat /\ k >= 1 /\ k <= o
      OBVIOUS
    <3>2. /\ c + k \in 1..(c + o)
          /\ u - n + l + (c + k) - 1 = u - n + (l + c) + k - 1
      BY <2>6, <3>1, CopyNumbers
    <3>3. SlotAt(Others(as), k) = SlotAt(as, c + k)
      BY <1>6, <2>4
    <3>4. data[SlotAt(as, c + k)] = u - n + l + (c + k) - 1
      BY <2>6, <3>2
    <3>5. QED BY <3>2, <3>3, <3>4, Zenon
  <2>12. reading'[r] # "lock"
    BY <1>14
  <2>13. QED
    BY <1>14, <2>4, <2>7, <2>8, <2>9, <2>10, <2>11, <2>12, Zenon DEF BackInv
<1>17. \A t \in Readers : ReaderInv(t)'
  <2>1. \A t \in Readers \ {r} :
            /\ reading'[t] = reading[t] /\ request'[t] = request[t]
            /\ areas'[t] = areas[t] /\ locked'[t] = locked[t]
            /\ result'[t] = result[t] /\ until'[t] = until[t]
    BY <1>1, <1>2, <1>11 DEF ReaderTypes
  <2>2. ReaderInv(r)'
    BY <1>15, <1>16 DEF ReaderInv
  <2>3. QED BY <1>1, <2>1, <2>2, OthersSame
<1>18. QED BY <1>3, <1>13, <1>17 DEF MeasureInv

LEMMA OneLess ==
    ASSUME NEW H \in SUBSET (Readers \X {1, 2}), NEW h \in H
    PROVE  /\ Cardinality(H \ {h}) = Cardinality(H) - 1
           /\ Cardinality(H) - 1 \in Nat
           /\ H \ {h} = {} <=> Cardinality(H) = 1
<1>1. IsFiniteSet(H) /\ IsFiniteSet(H \ {h})
  BY HoldersFinite, FS_RemoveElement
<1>2. PICK c, d \in Nat : c = Cardinality(H) /\ d = Cardinality(H \ {h}) /\ d = c - 1
  BY <1>1, FS_RemoveElement, FS_CardinalityType
<1>3. H \ {h} = {} <=> d = 0
  BY <1>1, <1>2, FS_EmptySet
<1>4. d = 0 <=> c = 1
  BY <1>2
<1>5. c - 1 \in Nat
  BY <1>2
<1>6. QED BY <1>2, <1>3, <1>4, <1>5, Zenon

LEMMA UnlockHold ==
    ASSUME HoldInv, ReaderTypes, NEW r \in Readers, NEW as, as = areas[r],
           NEW n \in Nat, n = locked[r], IsPair(as), Size(as) > 0, n >= Size(as),
           areas' = [areas EXCEPT ![r] = Others(as)], locked' = locked,
           readRefCount' = [i \in Slots |->
                readRefCount[i] - IF InArea(First(as), i) THEN 1 ELSE 0],
           status' = [i \in Slots |->
                IF InArea(First(as), i) /\ readRefCount[i] = 1 THEN "none" ELSE status[i]],
           UNCHANGED <<head, writing>>
    PROVE  HoldInv'
<1>1. PICK k, l \in {1, 2} :
         /\ k # l
         /\ \A i \in Slots : InArea(First(as), i) <=> i \in FirstSlots(as, n, k)
         /\ FirstSlots(Others(as), n, k) = {}
         /\ FirstSlots(Others(as), n, l) = FirstSlots(as, n, l)
  BY OthersHeld
<1>2. HeldSlots(r, k)' = {} /\ HeldSlots(r, l)' = HeldSlots(r, l)
      /\ HeldSlots(r, k) = FirstSlots(as, n, k)
  <2>1. areas'[r] = Others(as) /\ locked'[r] = n
    BY DEF ReaderTypes
  <2>2. QED BY <1>1, <2>1 DEF HeldSlots
<1>3. ASSUME NEW s \in Readers \ {r}, NEW j \in {1, 2}
      PROVE HeldSlots(s, j)' = HeldSlots(s, j)
  <2>1. areas'[s] = areas[s] /\ locked'[s] = locked[s]
    BY DEF ReaderTypes
  <2>2. QED BY <2>1, HeldUnchanged
<1>4. ASSUME NEW i \in Slots
      PROVE  /\ Holders(i)' = Holders(i) \ {<<r, k>>}
             /\ InArea(First(as), i) <=> <<r, k>> \in Holders(i)
  <2>1. Holders(i)' = {h \in Readers \X {1, 2} : i \in HeldSlots(h[1], h[2])'}
    BY DEF Holders
  <2>2. Holders(i) = {h \in Readers \X {1, 2} : i \in HeldSlots(h[1], h[2])}
    BY DEF Holders
  <2>3. ASSUME NEW s \in Readers, NEW j \in {1, 2}
        PROVE  i \in HeldSlots(s, j)' <=>
                  i \in HeldSlots(s, j) /\ <<s, j>> # <<r, k>>
    <3>1. CASE s = r /\ j = k
      BY <1>2, <3>1
    <3>2. CASE s = r /\ j # k
      <4>1. j = l
        BY <1>1, <3>2
      <4>2. QED BY <1>2, <3>2, <4>1
    <3>3. CASE s # r
      BY <1>3, <3>3
    <3>4. QED BY <3>1, <3>2, <3>3
  <2>4. ASSUME NEW h \in Readers \X {1, 2}
        PROVE  h \in Holders(i)' <=> h \in Holders(i) \ {<<r, k>>}
    <3>1. PICK s \in Readers, j \in {1, 2} : h = <<s, j>> /\ h[1] = s /\ h[2] = j
      OBVIOUS
    <3>2. h \in Holders(i)' <=> i \in HeldSlots(s, j)'
      BY <2>1, <3>1, Zenon
    <3>3. h \in Holders(i) <=> i \in HeldSlots(s, j)
      BY <2>2, <3>1, Zenon
    <3>4. QED BY <2>3, <3>1, <3>2, <3>3, Zenon
  <2>5. Holders(i)' \subseteq Readers \X {1, 2} /\ Holders(i) \subseteq Readers \X {1, 2}
    BY <2>1, <2>2
  <2>6. InArea(First(as), i) <=> <<r, k>> \in Holders(i)
    <3>1. InArea(First(as), i) <=> i \in FirstSlots(as, n, k)
      BY <1>1
    <3>2. <<r, k>> \in Holders(i) <=> i \in HeldSlots(r, k)
      BY HolderIs
    <3>3. QED BY <1>2, <3>1, <3>2
  <2>7. QED BY <2>4, <2>5, <2>6, Zenon
<1>5. ASSUME NEW i \in Slots
      PROVE  /\ readRefCount'[i] \in Nat /\ readRefCount'[i] = Cardinality(Holders(i)')
             /\ status'[i] = "write" <=> (i = head' /\ writing' = "copy")
             /\ status'[i] = "read" <=> Holders(i)' # {}
             /\ status'[i] \in {"none", "read", "write"}
  <2>1. /\ readRefCount[i] = Cardinality(Holders(i)) /\ readRefCount[i] \in Nat
        /\ status[i] = "write" <=> (i = head /\ writing = "copy")
        /\ status[i] = "read" <=> Holders(i) # {}
        /\ status[i] \in {"none", "read", "write"}
    BY DEF HoldInv
  <2>2. CASE InArea(First(as), i)
    <3>1. <<r, k>> \in Holders(i) /\ Holders(i)' = Holders(i) \ {<<r, k>>}
      BY <1>4, <2>2
    <3>2. PICK H \in SUBSET (Readers \X {1, 2}) : H = Holders(i)
      BY HolderIs
    <3>3. PICK h \in H : h = <<r, k>>
      BY <3>1, <3>2
    <3>4. /\ Cardinality(H \ {h}) = Cardinality(H) - 1
          /\ Cardinality(H) - 1 \in Nat
          /\ H \ {h} = {} <=> Cardinality(H) = 1
      BY OneLess
    <3>5. /\ readRefCount'[i] = readRefCount[i] - 1
          /\ status'[i] = IF readRefCount[i] = 1 THEN "none" ELSE status[i]
      BY <2>2
    <3>6. status[i] = "read"
      BY <2>1, <3>1
    <3>7. Holders(i)' = H \ {h} /\ readRefCount[i] = Cardinality(H)
      BY <2>1, <3>1, <3>2, <3>3
    <3>8. ~(i = head' /\ writing' = "copy")
      BY <2>1, <3>6
    <3>9. CASE readRefCount[i] = 1
      BY <3>4, <3>5, <3>7, <3>8, <3>9
    <3>10. CASE readRefCount[i] # 1
      BY <3>4, <3>5, <3>6, <3>7, <3>8, <3>10
    <3>11. QED BY <3>9, <3>10
  <2>3. CASE ~InArea(First(as), i)
    <3>1. Holders(i)' = Holders(i)
      BY <1>4, <2>3
    <3>2. readRefCount'[i] = readRefCount[i] - 0 /\ status'[i] = status[i]
      BY <2>3
    <3>3. readRefCount'[i] = readRefCount[i]
      BY <2>1, <3>2
    <3>4. QED BY <2>1, <3>1, <3>2, <3>3
  <2>4. QED BY <2>2, <2>3
<1>6. readRefCount' \in [Slots -> Nat] /\ status' \in [Slots -> {"none", "read", "write"}]
  <2>1. /\ readRefCount' = [i \in Slots |-> readRefCount'[i]]
        /\ status' = [i \in Slots |-> status'[i]]
    OBVIOUS
  <2>2. QED BY <1>5, <2>1, Zenon
<1>7. QED BY <1>5, <1>6 DEF HoldInv

LEMMA UnlockMeasure ==
    ASSUME MeasureInv, NEW r \in Readers, Unlock(r) PROVE MeasureInv'
<1>1. /\ reading[r] = "unlock"
      /\ UNCHANGED <<head, baseIterNum, writing, addRetry, data, request, locked,
                     retry, result, label, until, failed>>
  BY DEF Unlock, writerVars
<1>2. RingInv /\ HoldInv /\ ReaderTypes /\ RetryInv /\ WriterInv /\ PlaceInv(r)
      /\ BackInv(r)
  BY DEF MeasureInv, ReaderInv
<1>3. RingInv' /\ RetryInv' /\ WriterInv'
  BY <1>1, <1>2, RingSame DEF RetryInv, WriterInv
<1>4. PICK as : as = areas[r]
  OBVIOUS
<1>5. PICK n \in Nat : n = locked[r]
  BY <1>2, RingSize DEF ReaderTypes
<1>6. IsPair(as) /\ Size(as) > 0 /\ InRing(as) /\ n >= Size(as)
  BY <1>1, <1>2, <1>4, <1>5 DEF ReaderTypes, IsPair, PlaceInv
<1>7. PICK s, c \in Nat :
         /\ First(as).start = s /\ First(as).count = c /\ c > 0
         /\ IsPair(Others(as)) /\ InRing(Others(as))
         /\ Size(Others(as)) \in Nat /\ Size(as) = c + Size(Others(as))
         /\ \A j \in 1..Size(Others(as)) : SlotAt(Others(as), j) = SlotAt(as, c + j)
  BY <1>6, FirstPlaces, Zenon
<1>8. PICK o \in Nat : /\ o = Size(Others(as)) /\ Size(as) = c + o
                       /\ Size(as) \in Nat /\ o <= Size(as)
  <2>1. PICK o \in Nat : o = Size(Others(as))
    BY <1>7
  <2>2. c + o \in Nat /\ o <= c + o
    OBVIOUS
  <2>3. QED BY <1>7, <2>1, <2>2
<1>9. PICK p : /\ p = IF o = 0 THEN "replied" ELSE "copy"
               /\ reading' = [reading EXCEPT ![r] = p]
  BY <1>4, <1>8, Zenon DEF Unlock, AfterLocks
<1>10. /\ areas' = [areas EXCEPT ![r] = Others(as)]
       /\ readRefCount' = [i \in Slots |->
                readRefCount[i] - IF InArea(First(as), i) THEN 1 ELSE 0]
       /\ status' = [i \in Slots |->
                IF InArea(First(as), i) /\ readRefCount[i] = 1 THEN "none" ELSE status[i]]
  <2>1. \A i \in Slots : InArea(First(as), i) <=> InArea(First(areas[r]), i)
    BY <1>4
  <2>2. QED BY <1>2, <1>4 DEF Unlock, ReaderTypes
<1>11. HoldInv'
  BY <1>1, <1>2, <1>4, <1>5, <1>6, <1>10, UnlockHold
<1>12. /\ reading'[r] = p /\ areas'[r] = Others(as)
       /\ ReaderTypes'
  <2>1. p \in {"replied", "copy"}
    BY <1>9
  <2>2. Others(as) \in Areas \X Areas
    BY <1>7 DEF IsPair
  <2>3. QED BY <1>1, <1>2, <1>9, <1>10, <2>1, <2>2 DEF ReaderTypes
<1>13. PlaceInv(r)'
  <2>1. o < QueueSize /\ o <= n
    <3>1. Size(as) < QueueSize
      BY <1>2, <1>4 DEF PlaceInv
    <3>2. o <= Size(as)
      BY <1>8
    <3>3. o < QueueSize
      BY <1>8, <3>1, <3>2, RingSize, NoMoreThan
    <3>4. Size(as) <= n
      BY <1>6, <1>8
    <3>5. QED BY <1>8, <3>2, <3>3, <3>4, InOrder
  <2>2. ASSUME NEW j \in 1..o PROVE Written(SlotAt(Others(as), j))
    <3>1. c + j \in 1..(c + o)
      OBVIOUS
    <3>2. Written(SlotAt(as, c + j))
      BY <1>2, <1>4, <1>8, <3>1 DEF PlaceInv
    <3>3. QED BY <1>7, <1>8, <3>2
  <2>3. \A j \in 1..o : baseIterNum' > 0 \/ SlotAt(Others(as), j) < head'
    BY <1>1, <2>2, Zenon DEF Written
  <2>4. p \in {"copy", "unlock"} => o > 0 /\ n >= o
    BY <1>9, <2>1
  <2>5. p # "out" /\ (p = "replied" => o = 0)
    BY <1>9
  <2>6. p \in {"out", "replied"} => o = 0
    BY <2>5
  <2>7. locked'[r] = n
    BY <1>1, <1>5
  <2>8. QED
    BY <1>7, <1>8, <1>12, <2>1, <2>3, <2>4, <2>5, <2>6, <2>7, Zenon DEF PlaceInv, Written
<1>14. BackInv(r)'
  <2>1. Left(r)' = Left(r)
    <3>1. Left(r) = Others(as)
      BY <1>1, <1>4 DEF Left
    <3>2. p # "unlock"
      BY <1>9
    <3>3. Left(r)' = Others(as)
      BY <1>12, <3>2 DEF Left
    <3>4. QED BY <3>1, <3>3
  <2>2. reading'[r] # "lock"
    BY <1>9, <1>12
  <2>3. reading[r] # "out"
    BY <1>1
  <2>4. QED BY <1>1, <1>2, <2>1, <2>2, <2>3, Zenon DEF BackInv
<1>15. \A t \in Readers : ReaderInv(t)'
  <2>1. \A t \in Readers \ {r} :
            /\ reading'[t] = reading[t] /\ request'[t] = request[t]
            /\ areas'[t] = areas[t] /\ locked'[t] = locked[t]
            /\ result'[t] = result[t] /\ until'[t] = until[t]
    BY <1>1, <1>2, <1>9, <1>10 DEF ReaderTypes
  <2>2. ReaderInv(r)'
    BY <1>13, <1>14 DEF ReaderInv
  <2>3. QED BY <1>1, <2>1, <2>2, OthersSame
<1>16. QED BY <1>3, <1>11, <1>12, <1>15 DEF MeasureInv

LEMMA RepliedMeasure ==
    ASSUME MeasureInv, NEW r \in Readers, Replied(r) PROVE MeasureInv'
<1>1. /\ reading[r] = "replied" /\ reading' = [reading EXCEPT ![r] = "out"]
      /\ request' = [request EXCEPT ![r] = CHOOSE q \in Requests : TRUE]
      /\ result' = [result EXCEPT ![r] = <<>>]
      /\ label' = [label EXCEPT ![r] = 0] /\ until' = [until EXCEPT ![r] = 0]
      /\ areas' = [areas EXCEPT ![r] = NoAreas] /\ locked' = [locked EXCEPT ![r] = 0]
      /\ UNCHANGED <<head, baseIterNum, writing, addRetry, data, status, readRefCount,
                     retry, failed>>
  BY DEF Replied, writerVars
<1>2. RingInv /\ HoldInv /\ ReaderTypes /\ RetryInv /\ WriterInv /\ PlaceInv(r)
  BY DEF MeasureInv, ReaderInv
<1>3. RingInv' /\ RetryInv' /\ WriterInv'
  BY <1>1, <1>2, RingSame DEF RetryInv, WriterInv
<1>4. ReaderTypes'
  <2>1. (CHOOSE q \in Requests : TRUE) \in Requests
    BY MeasureAssumption
  <2>2. NoAreas \in Areas \X Areas
    BY NoAreasPair DEF IsPair
  <2>3. <<>> \in Seq(Nat)
    OBVIOUS
  <2>4. QED BY <1>1, <1>2, <2>1, <2>2, <2>3, RingSize DEF ReaderTypes
<1>5. /\ reading'[r] = "out" /\ areas'[r] = NoAreas /\ locked'[r] = 0 /\ result'[r] = <<>>
  BY <1>1, <1>2 DEF ReaderTypes
<1>6. \A s \in Readers \ {r} :
         /\ reading'[s] = reading[s] /\ request'[s] = request[s]
         /\ areas'[s] = areas[s] /\ locked'[s] = locked[s]
         /\ result'[s] = result[s] /\ until'[s] = until[s]
  BY <1>1, <1>2 DEF ReaderTypes
<1>7. HoldInv'
  <2>1. ASSUME NEW s \in Readers, NEW k \in {1, 2}
        PROVE  HeldSlots(s, k)' = HeldSlots(s, k)
    <3>1. CASE s = r
      <4>1. IsPair(areas[r]) /\ Size(areas[r]) = 0 /\ locked[r] \in Nat
        BY <1>1, <1>2, RingSize DEF ReaderTypes, PlaceInv, IsPair
      <4>2. FirstSlots(areas[r], locked[r], k) = {} /\ FirstSlots(NoAreas, 0, k) = {}
        BY <4>1, NoAreasPair, NothingFirst
      <4>3. QED BY <1>5, <3>1, <4>2 DEF HeldSlots
    <3>2. CASE s # r
      BY <1>6, <3>2, HeldUnchanged
    <3>3. QED BY <3>1, <3>2
  <2>2. \A i : Holders(i)' = Holders(i)
    BY <2>1 DEF Holders
  <2>3. QED BY <1>1, <1>2, <2>2 DEF HoldInv
<1>8. ReaderInv(r)'
  <2>1. InRing(NoAreas) /\ Size(NoAreas) = 0 /\ 0 < QueueSize
    BY NoAreasPair, RingSize
  <2>2. \A j \in 1..0 : Written(SlotAt(NoAreas, j))'
    OBVIOUS
  <2>3. PlaceInv(r)'
    BY <1>5, <2>1, <2>2 DEF PlaceInv, Written
  <2>4. BackInv(r)'
    BY <1>5, Zenon DEF BackInv
  <2>5. QED BY <2>3, <2>4 DEF ReaderInv
<1>9. QED BY <1>1, <1>3, <1>4, <1>6, <1>7, <1>8, OthersSame DEF MeasureInv

LEMMA MeasureStep == MeasureInv /\ [Next]_vars => MeasureInv'
<1>1. SUFFICES ASSUME MeasureInv, [Next]_vars PROVE MeasureInv'
  OBVIOUS
<1>2. failed \in BOOLEAN
  BY <1>1 DEF MeasureInv, WriterInv
<1>3. CASE UNCHANGED vars
  BY <1>1, <1>3, SaveMeasure DEF vars
<1>4. ASSUME NEW l \in Losses, GeneratePlan(l) PROVE MeasureInv'
  BY <1>1, <1>4, BeginAddStep
<1>5. CASE AddData
  BY <1>1, <1>5, AddLocksMeasure, AddEndsMeasure DEF AddData
<1>6. CASE SaveParams
  BY <1>1, <1>6, SaveMeasure DEF SaveParams
<1>7. ASSUME failed = FALSE, NEW r \in Readers, Reader(r) PROVE MeasureInv'
  BY <1>1, <1>7, GetDataMeasure, LockRetryMeasure, CopyMeasure, UnlockMeasure,
     RepliedMeasure DEF Reader
<1>8. QED BY <1>1, <1>2, <1>3, <1>4, <1>5, <1>6, <1>7 DEF Next

(* The inductive invariant of the ring: what is in its slots, who holds    *)
(* which of them, and what each reader has and has still to copy.          *)
THEOREM MeasuresSafe == Spec => []MeasureInv
BY InitMeasureInv, MeasureStep, PTL DEF Spec

(* The count of a slot's readers is exact and its status says whether      *)
(* there are any; nobody reads the slot that is being written: setAreaLock,*)
(* getDataInternal and addData, for any number of readers and any ring.    *)
THEOREM SlotsAreHeld == Spec => []SlotsHeld
<1>1. ASSUME MeasureInv PROVE SlotsHeld
  <2>1. SUFFICES ASSUME NEW i \in Slots
                 PROVE  LET held == Cardinality(Holders(i)) IN
                        /\ readRefCount[i] = held
                        /\ status[i] = IF i = head /\ writing = "copy" THEN "write"
                                       ELSE IF held > 0 THEN "read" ELSE "none"
                        /\ status[i] = "write" => held = 0
    BY Zenon DEF SlotsHeld
  <2>2. /\ readRefCount[i] = Cardinality(Holders(i))
        /\ status[i] \in {"none", "read", "write"}
        /\ status[i] = "write" <=> (i = head /\ writing = "copy")
        /\ status[i] = "read" <=> Holders(i) # {}
    BY <1>1 DEF MeasureInv, HoldInv
  <2>3. PICK c \in Nat : c = Cardinality(Holders(i)) /\ IsFiniteSet(Holders(i))
    BY HolderIs, HoldersFinite DEF Holders
  <2>4. Holders(i) = {} <=> c = 0
    BY <2>3, FS_EmptySet
  <2>5. c > 0 <=> c # 0
    OBVIOUS
  <2>6. status[i] = IF i = head /\ writing = "copy" THEN "write"
                    ELSE IF c > 0 THEN "read" ELSE "none"
    BY <2>2, <2>4, <2>5
  <2>7. status[i] = "write" => c = 0
    BY <2>2, <2>4
  <2>8. QED BY <2>2, <2>3, <2>6, <2>7, Zenon
<1>2. QED BY <1>1, MeasuresSafe, PTL

(* A reply holds no half written measure, and one to who asks for the last *)
(* n measures holds exactly the last n there were at that time, in order,  *)
(* although they are copied without the mutex while others are added.      *)
THEOREM SnapshotIsExact == Spec => []SnapshotExact
<1>1. ASSUME MeasureInv PROVE SnapshotExact
  <2>1. SUFFICES ASSUME NEW r \in Readers, reading[r] = "replied"
                 PROVE  LET n     == Len(result[r])
                            asked == request[r].count
                        IN  /\ \A k \in 1..n : result[r][k] # None
                            /\ ~request[r].forward =>
                                  /\ n = IF until[r] < asked THEN until[r] ELSE asked
                                  /\ \A k \in 1..n : result[r][k] = until[r] - n + k - 1
    BY Zenon DEF SnapshotExact
  <2>2. PlaceInv(r) /\ BackInv(r) /\ ReaderTypes
    BY <1>1 DEF MeasureInv, ReaderInv
  <2>3. PICK l \in Nat : l = Len(result[r])
    BY <2>2 DEF ReaderTypes
  <2>4. ASSUME NEW k \in 1..l PROVE result[r][k] # None
    BY <2>2, <2>3, RingSize DEF ReaderTypes
  <2>5. ASSUME ~request[r].forward
        PROVE  /\ l = Smaller(until[r], request[r].count)
               /\ \A k \in 1..l : result[r][k] = until[r] - l + k - 1
    <3>1. Size(Left(r)) = 0
      BY <2>1, <2>2 DEF PlaceInv, Left
    <3>2. l + 0 = l
      OBVIOUS
    <3>3. /\ Len(result[r]) + Size(Left(r)) = Smaller(until[r], request[r].count)
          /\ \A k \in 1..Len(result[r]) : result[r][k] =
                until[r] - Smaller(until[r], request[r].count) + k - 1
      BY <2>1, <2>2, <2>5 DEF BackInv
    <3>4. l = Smaller(until[r], request[r].count)
      BY <2>3, <3>1, <3>2, <3>3
    <3>5. QED BY <2>3, <3>3, <3>4, Zenon
  <2>6. QED BY <2>3, <2>4, <2>5, Zenon DEF Smaller
<1>2. QED BY <1>1, MeasuresSafe, PTL

-----------------------------------------------------------------------------
(* Types.                                                                  *)

LEMMA MeasureTypes == MeasureInv => MeasureTypeOK
<1>1. SUFFICES ASSUME MeasureInv PROVE MeasureTypeOK
  OBVIOUS
<1>2. RingInv /\ HoldInv /\ ReaderTypes /\ RetryInv /\ WriterInv
  BY <1>1 DEF MeasureInv
<1>3. readRefCount \in [Slots -> 0..(2 * Cardinality(Readers))]
  <2>1. PICK m \in Nat : m = 2 * Cardinality(Readers)
    <3>1. PICK c \in Nat : c = Cardinality(Readers)
      BY MeasureAssumption, FS_CardinalityType
    <3>2. QED BY <3>1
  <2>2. ASSUME NEW i \in Slots PROVE readRefCount[i] \in 0..m
    <3>1. readRefCount[i] \in Nat /\ readRefCount[i] = Cardinality(Holders(i))
      BY <1>2 DEF HoldInv
    <3>2. Holders(i) \in SUBSET (Readers \X {1, 2})
      BY DEF Holders
    <3>3. Cardinality(Holders(i)) <= m
      BY <2>1, <3>2, HoldersFinite
    <3>4. QED BY <3>1, <3>3
  <2>3. readRefCount \in [Slots -> 0..m]
    BY <1>2, <2>2 DEF HoldInv
  <2>4. QED BY <2>1, <2>3
<1>4. result \in [Readers -> Seq(Nat \cup {None})]
  <2>1. \A s \in Seq(Nat) : s \in Seq(Nat \cup {None})
    OBVIOUS
  <2>2. QED BY <1>2, <2>1 DEF ReaderTypes
<1>5. QED
  BY <1>2, <1>3, <1>4, Zenon
     DEF MeasureTypeOK, RingInv, HoldInv, ReaderTypes, RetryInv, WriterInv

(* After a reset, too: the queue of paths is full only when none is saved. *)
ParamInv ==
    /\ FileTypes
    /\ bestLoss \in Losses \cup {Absent} /\ least \in Losses \cup {Absent}
    /\ wasReset \in BOOLEAN
    /\ Len(intervalSavedParamPathQueue) <= KeepCount
    /\ Saving => Len(intervalSavedParamPathQueue) < KeepCount

LEMMA InitParams == Init => ParamInv
<1>1. SUFFICES ASSUME Init PROVE ParamInv
  OBVIOUS
<1>2. FileTypes
  BY <1>1, ParamAssumption DEF Init, ParamInit, MeasureInit, FileTypes, Steps
<1>3. /\ step = "run" /\ bestLoss = Absent /\ least = Absent /\ wasReset = FALSE
      /\ intervalSavedParamPathQueue = <<>>
  BY <1>1 DEF Init, ParamInit
<1>4. Len(<<>>) = 0 /\ 0 <= KeepCount
  BY ParamAssumption
<1>5. QED BY <1>2, <1>3, <1>4 DEF ParamInv, Saving

LEMMA ParamSame ==
    ASSUME ParamInv, UNCHANGED paramVars, UNCHANGED writing PROVE ParamInv'
BY DEF ParamInv, FileTypes, Saving, paramVars

LEMMA ParamRemoveOldest ==
    ASSUME ParamInv, RemoveOldest, writing' = writing PROVE ParamInv'
<1> DEFINE queue == intervalSavedParamPathQueue
<1>1. /\ step = "interval"
      /\ \/ step' = "run" /\ loss' = Absent
         \/ step' = "openInterval" /\ loss' = loss
      /\ UNCHANGED <<iterations, bestLoss, bestSavedParamPath, wasReset, least>>
  BY DEF RemoveOldest, Goto
<1>2. /\ FileTypes /\ queue \in Seq(IntervalPaths) /\ Len(queue) \in Nat
      /\ Len(queue) <= KeepCount /\ KeepCount \in Nat \ {0} /\ loss \in Losses
  BY <1>1, ParamAssumption DEF ParamInv, FileTypes
<1>3. CASE /\ Len(queue) = KeepCount
           /\ files' = [files EXCEPT ![Head(queue)] = Absent]
           /\ queue' = Tail(queue)
  <2>1. /\ Tail(queue) \in Seq(IntervalPaths) /\ Len(Tail(queue)) = Len(queue) - 1
    BY <1>2, <1>3, HeadTailProperties
  <2>2. files' \in [Paths -> Losses \cup {Absent, Partial}]
    BY <1>2, <1>3 DEF FileTypes
  <2>3. Len(queue') < KeepCount /\ Len(queue') <= KeepCount
    BY <1>2, <1>3, <2>1
  <2>4. FileTypes'
    BY <1>1, <1>2, <1>3, <2>1, <2>2 DEF FileTypes, Steps
  <2>5. QED BY <1>1, <2>3, <2>4 DEF ParamInv
<1>4. CASE UNCHANGED <<files, queue>> /\ (step' = "run" \/ Len(queue) # KeepCount)
  <2>1. FileTypes'
    BY <1>1, <1>2, <1>4 DEF FileTypes, Steps
  <2>2. step' = "openInterval" => Len(queue) < KeepCount
    BY <1>2, <1>4
  <2>3. QED BY <1>1, <1>2, <1>4, <2>1, <2>2 DEF ParamInv, Saving
<1>5. QED BY <1>3, <1>4 DEF RemoveOldest, Goto

LEMMA ParamWriteInterval ==
    ASSUME ParamInv, WriteInterval, writing' = writing PROVE ParamInv'
<1> DEFINE queue == intervalSavedParamPathQueue
<1>1. /\ step = "saveInterval" /\ step' = "run" /\ loss' = Absent
      /\ files' = [files EXCEPT ![IntervalPath] = loss]
      /\ queue' = Append(queue, IntervalPath)
      /\ UNCHANGED <<iterations, bestLoss, bestSavedParamPath, wasReset, least>>
  BY DEF WriteInterval, Goto
<1>2. /\ FileTypes /\ queue \in Seq(IntervalPaths) /\ Len(queue) \in Nat
      /\ Len(queue) < KeepCount /\ KeepCount \in Nat /\ loss \in Losses
      /\ IntervalPath \in IntervalPaths
  BY <1>1, ParamAssumption, IterationPaths DEF ParamInv, FileTypes, Saving
<1>3. queue' \in Seq(IntervalPaths) /\ Len(queue') = Len(queue) + 1
  BY <1>1, <1>2, AppendProperties
<1>4. Len(queue') <= KeepCount
  BY <1>2, <1>3
<1>5. files' \in [Paths -> Losses \cup {Absent, Partial}]
  BY <1>1, <1>2 DEF FileTypes
<1>6. FileTypes'
  BY <1>1, <1>2, <1>3, <1>5 DEF FileTypes, Steps
<1>7. QED BY <1>1, <1>4, <1>6 DEF ParamInv, Saving

LEMMA ParamOther ==
    ASSUME ParamInv, writing' = writing,
           OpenBest \/ SaveBest \/ RemoveBest \/ OpenInterval \/ Reset
    PROVE  ParamInv'
<1>1. /\ UNCHANGED <<intervalSavedParamPathQueue, loss>>
      /\ iterations' \in {0, iterations} /\ wasReset' \in {TRUE, wasReset}
      /\ \/ step \in {"best", "saveBest", "removeBest"}
            /\ step' \in {"saveBest", "removeBest", "interval"}
         \/ step = "openInterval" /\ step' = "saveInterval"
         \/ step = "run" /\ step' = step
  BY DEF OpenBest, SaveBest, RemoveBest, OpenInterval, Reset, Goto
<1>2. FileTypes /\ 0 \in 0..MaxIterations /\ (step # "run" => loss \in Losses)
  BY ParamAssumption DEF ParamInv, FileTypes
<1>3. /\ bestLoss' \in Losses \cup {Absent} /\ least' \in Losses \cup {Absent}
      /\ wasReset' \in BOOLEAN
  BY <1>2 DEF ParamInv, OpenBest, SaveBest, RemoveBest, Handled, OpenInterval, Reset
<1>4. /\ files' \in [Paths -> Losses \cup {Absent, Partial}]
      /\ bestSavedParamPath' \in BestPaths \cup {Absent}
  BY <1>2, IterationPaths DEF FileTypes, OpenBest, SaveBest, RemoveBest, OpenInterval, Reset
<1>5. FileTypes'
  BY <1>1, <1>2, <1>4 DEF FileTypes, Steps
<1>6. QED BY <1>1, <1>3, <1>5 DEF ParamInv, Saving

LEMMA ParamStep == ParamInv /\ [Next]_vars => ParamInv'
<1>1. SUFFICES ASSUME ParamInv, [Next]_vars PROVE ParamInv'
  OBVIOUS
<1>2. FileTypes
  BY <1>1 DEF ParamInv
<1>3. CASE UNCHANGED vars
  BY <1>1, <1>3, ParamSame DEF vars, measureVars, writerVars
<1>4. ASSUME NEW r \in Readers, Reader(r), UNCHANGED paramVars PROVE ParamInv'
  BY <1>1, <1>4, ParamSame, ReaderLeavesWriter
<1>5. ASSUME NEW l \in Losses, GeneratePlan(l) PROVE ParamInv'
  <2>1. /\ step = "run" /\ step' = "measure" /\ iterations' = iterations + 1
        /\ iterations < MaxIterations /\ loss' = l /\ writing' = "add"
        /\ UNCHANGED <<files, bestLoss, bestSavedParamPath, least, wasReset,
                       intervalSavedParamPathQueue>>
    BY <1>5 DEF GeneratePlan, EndMiniBatch, Goto
  <2>2. FileTypes'
    BY <1>2, <2>1, ParamAssumption DEF FileTypes, Steps
  <2>3. QED BY <1>1, <2>1, <2>2 DEF ParamInv, Saving
<1>6. CASE AddLocks /\ UNCHANGED paramVars
  <2>1. writing # "out" /\ writing' # "out"
    BY <1>6 DEF AddLocks
  <2>2. FileTypes'
    BY <1>2, <1>6, <2>1 DEF FileTypes, paramVars
  <2>3. QED BY <1>1, <1>6, <2>2 DEF ParamInv, Saving, paramVars
<1>7. CASE /\ AddEnds /\ Goto("best")
           /\ UNCHANGED <<iterations, loss, files, bestLoss, bestSavedParamPath,
                          intervalSavedParamPathQueue, wasReset, least>>
  <2>1. writing = "copy" /\ writing' = "out" /\ step' = "best"
    BY <1>7 DEF AddEnds, Goto
  <2>2. step = "measure" /\ loss \in Losses
    BY <1>2, <2>1 DEF FileTypes
  <2>3. FileTypes'
    BY <1>2, <1>7, <2>1, <2>2 DEF FileTypes, Steps
  <2>4. QED BY <1>1, <1>7, <2>1, <2>3 DEF ParamInv, Saving
<1>8. CASE SaveParams
  <2>1. writing' = writing
    BY <1>8 DEF SaveParams, measureVars, writerVars
  <2>2. QED
    BY <1>1, <1>8, <2>1, ParamRemoveOldest, ParamWriteInterval, ParamOther DEF SaveParams
<1>9. QED BY <1>1, <1>3, <1>4, <1>5, <1>6, <1>7, <1>8 DEF Next, AddData

LEMMA ParamTypes == ParamInv => ParamTypeOK
<1>1. BestPaths \subseteq Paths /\ IntervalPaths \subseteq Paths
  BY PathFacts
<1>2. \A q \in Seq(IntervalPaths) : q \in Seq(Paths)
  BY <1>1
<1>3. QED BY <1>1, <1>2 DEF ParamInv, FileTypes, ParamTypeOK, Steps

(* The variables have their types, of the counts of a slot's readers and   *)
(* of the queue of the saved files up to their bounds: after a reset, too. *)
THEOREM TypesSafe == Spec => []TypeOK
<1>1. MeasureInv /\ ParamInv => TypeOK
  BY MeasureTypes, ParamTypes DEF TypeOK
<1>2. QED BY <1>1, MeasuresSafe, InitParams, ParamStep, PTL DEF Spec
=============================================================================
