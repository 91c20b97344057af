--------------------------- MODULE TrainingRecords ---------------------------
(***************************************************************************)
(* What the end of a mini batch records, plan/PhysicalPlan.cpp: under the  *)
(* plan's locks the measures (MeasureEntry), then the best parameters,     *)
(* then, after the locks, those of every SaveInterval-th iteration         *)
(* (ParamFiles); job consumers read measures meanwhile.                    *)
(***************************************************************************)
EXTENDS MeasureEntry, ParamFiles

vars == <<measureVars, paramVars>>

Init == MeasureInit /\ ParamInit

(* generatePlan: addData() begins when the iteration is counted.           *)
GeneratePlan(l) ==
    /\ EndMiniBatch(l)
    /\ writing = "out" /\ writing' = "add"
    /\ UNCHANGED <<head, baseIterNum, addRetry, data, status, readRefCount,
                   readerVars, failed>>

AddData ==
    \/ AddLocks /\ UNCHANGED paramVars
    \/ /\ AddEnds
       /\ Goto("best")
       /\ UNCHANGED <<iterations, loss, files, bestLoss, bestSavedParamPath,
                      intervalSavedParamPathQueue, wasReset, least>>

SaveParams ==
    /\ \/ OpenBest \/ SaveBest \/ RemoveBest
       \/ RemoveOldest \/ OpenInterval \/ WriteInterval
       \/ Reset
    /\ UNCHANGED measureVars

Next ==
    /\ ~failed
    /\ \/ \E l \in Losses : GeneratePlan(l)
       \/ AddData
       \/ SaveParams
       \/ \E r \in Readers : Reader(r) /\ UNCHANGED paramVars

Spec == Init /\ [][Next]_vars

TypeOK == MeasureTypeOK /\ ParamTypeOK
=============================================================================
