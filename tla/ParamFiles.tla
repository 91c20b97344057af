----------------------------- MODULE ParamFiles -----------------------------
(***************************************************************************)
(* The parameter files that training leaves on disk, network/Network.cpp:  *)
(* one every saveInterval iterations, of which the last few are kept, and  *)
(* one of the iteration with the best loss.  The server may die between    *)
(* any two steps, so what holds of the files holds after a crash.          *)
(***************************************************************************)
EXTENDS Integers, FiniteSets, SequencesExt

CONSTANTS
    SaveInterval,    \* saveInterval, 0 for no such files
    KeepCount,       \* keepSaveIntervalModelCount
    BestFrom,        \* keepSaveBestModelStartIterNum
    MaxIterations,   \* bound: iterations without a reset
    Losses,          \* losses of a mini batch, none is NaN
    Absent, Partial  \* no file, a file that is being written

(* A path is the kind of the file and the iteration in its name.           *)
Paths == {"best", "interval"} \X (0..MaxIterations)

ASSUME ParamAssumption ==
    /\ SaveInterval \in Nat /\ KeepCount \in Nat \ {0} /\ BestFrom \in Nat
    /\ MaxIterations \in Nat
    /\ Losses \subseteq Int
    /\ Absent # Partial
    /\ Absent \notin Int /\ Partial \notin Int /\ Absent \notin Paths

VARIABLES
    iterations,
    step,            \* what the end of a mini batch is at
    loss,            \* its loss
    files,           \* a file's content: the loss its parameters had
    bestLoss,        \* Absent: the largest float
    bestSavedParamPath,
    intervalSavedParamPathQueue,
    wasReset,        \* history: the network was reset
    least            \* history: the least loss of the iterations from BestFrom on
                     \* for which handleBestLoss has returned

paramVars == <<iterations, step, loss, files, bestLoss, bestSavedParamPath,
               intervalSavedParamPathQueue, wasReset, least>>

ParamTypeOK ==
    /\ iterations \in 0..MaxIterations
    /\ step \in {"run", "measure", "best", "saveBest", "removeBest", "interval",
                 "openInterval", "saveInterval"}
    /\ loss \in Losses \cup {Absent}
    /\ files \in [Paths -> Losses \cup {Absent, Partial}]
    /\ bestLoss \in Losses \cup {Absent}
    /\ bestSavedParamPath \in Paths \cup {Absent}
    /\ intervalSavedParamPathQueue \in Seq(Paths)
    /\ Len(intervalSavedParamPathQueue) <= KeepCount
    /\ wasReset \in BOOLEAN /\ least \in Losses \cup {Absent}

ParamInit ==
    /\ iterations = 0
    /\ step = "run" /\ loss = Absent
    /\ files = [p \in Paths |-> Absent]
    /\ bestLoss = Absent
    /\ bestSavedParamPath = Absent
    /\ intervalSavedParamPathQueue = <<>>
    /\ wasReset = FALSE /\ least = Absent

Goto(next) == step' = next

(* generatePlan at the end of a mini batch with loss l: the iteration is   *)
(* counted, then its measures are recorded (see TrainingRecords).          *)
EndMiniBatch(l) ==
    /\ step = "run" /\ iterations < MaxIterations
    /\ iterations' = iterations + 1
    /\ loss' = l
    /\ Goto("measure")
    /\ UNCHANGED <<files, bestLoss, bestSavedParamPath,
                   intervalSavedParamPathQueue, wasReset, least>>

-----------------------------------------------------------------------------
(* handleBestLoss                                                          *)

BestPath == <<"best", iterations>>

(* Mutant: the loss is compared the wrong way round.                       *)
IsWorst == bestLoss = Absent \/ loss >= bestLoss

IsBest == bestLoss = Absent \/ loss <= bestLoss

(* The history is kept whether or not the code found the loss the best.    *)
Handled ==
    least' = IF BestFrom <= iterations /\ (least = Absent \/ loss < least)
             THEN loss ELSE least

(* Mutant: the last best file goes before the new one is there.            *)
OpenBestRemovesFirst ==
    /\ step = "best"
    /\ IF BestFrom <= iterations /\ IsBest
       THEN /\ bestLoss' = loss
            /\ files' = [p \in Paths |-> IF p = BestPath THEN Partial
                                         ELSE IF p = bestSavedParamPath THEN Absent
                                         ELSE files[p]]
            /\ Goto("saveBest") /\ UNCHANGED least
       ELSE Goto("interval") /\ Handled /\ UNCHANGED <<bestLoss, files>>
    /\ UNCHANGED <<iterations, loss, bestSavedParamPath,
                   intervalSavedParamPathQueue, wasReset>>

(* The file is opened, which empties it if it is there.                    *)
OpenBest ==
    /\ step = "best"
    /\ IF BestFrom <= iterations /\ IsBest
       THEN /\ bestLoss' = loss
            /\ files' = [files EXCEPT ![BestPath] = Partial]
            /\ Goto("saveBest") /\ UNCHANGED least
       ELSE Goto("interval") /\ Handled /\ UNCHANGED <<bestLoss, files>>
    /\ UNCHANGED <<iterations, loss, bestSavedParamPath,
                   intervalSavedParamPathQueue, wasReset>>

SaveBest ==
    /\ step = "saveBest"
    /\ files' = [files EXCEPT ![BestPath] = loss]
    /\ Goto("removeBest")
    /\ UNCHANGED <<iterations, loss, bestLoss, bestSavedParamPath,
                   intervalSavedParamPathQueue, wasReset, least>>

(* The last best file goes when the new one is there.                      *)
RemoveBest ==
    /\ step = "removeBest"
    /\ files' = IF bestSavedParamPath = Absent THEN files
                ELSE [files EXCEPT ![bestSavedParamPath] = Absent]
    /\ bestSavedParamPath' = BestPath
    /\ Handled
    /\ Goto("interval")
    /\ UNCHANGED <<iterations, loss, bestLoss, intervalSavedParamPathQueue,
                   wasReset>>

-----------------------------------------------------------------------------
(* handleIntervalSaveParams, after the locks were released                 *)

IntervalPath == <<"interval", iterations>>

(* Mutant: one file too many is kept.                                      *)
RemoveOldestLate ==
    /\ step = "interval" /\ SaveInterval # 0 /\ iterations % SaveInterval = 0
    /\ LET queue == intervalSavedParamPathQueue IN
       IF Len(queue) > KeepCount
       THEN /\ files' = [files EXCEPT ![Head(queue)] = Absent]
            /\ intervalSavedParamPathQueue' = Tail(queue)
       ELSE UNCHANGED <<files, intervalSavedParamPathQueue>>
    /\ Goto("openInterval")
    /\ UNCHANGED <<iterations, loss, bestLoss, bestSavedParamPath, wasReset, least>>

(* With enough files on disk the oldest goes first.                        *)
RemoveOldest ==
    /\ step = "interval"
    /\ IF SaveInterval # 0 /\ iterations % SaveInterval = 0
       THEN LET queue == intervalSavedParamPathQueue IN
            /\ IF Len(queue) = KeepCount
               THEN /\ files' = [files EXCEPT ![Head(queue)] = Absent]
                    /\ intervalSavedParamPathQueue' = Tail(queue)
               ELSE UNCHANGED <<files, intervalSavedParamPathQueue>>
            /\ Goto("openInterval") /\ UNCHANGED loss
       ELSE /\ Goto("run") /\ loss' = Absent
            /\ UNCHANGED <<files, intervalSavedParamPathQueue>>
    /\ UNCHANGED <<iterations, bestLoss, bestSavedParamPath, wasReset, least>>

OpenInterval ==
    /\ step = "openInterval"
    /\ files' = [files EXCEPT ![IntervalPath] = Partial]
    /\ Goto("saveInterval")
    /\ UNCHANGED <<iterations, loss, bestLoss, bestSavedParamPath,
                   intervalSavedParamPathQueue, wasReset, least>>

WriteInterval ==
    /\ step = "saveInterval"
    /\ files' = [files EXCEPT ![IntervalPath] = loss]
    /\ intervalSavedParamPathQueue' = Append(intervalSavedParamPathQueue, IntervalPath)
    /\ Goto("run") /\ loss' = Absent
    /\ UNCHANGED <<iterations, bestLoss, bestSavedParamPath, wasReset, least>>

(* Network::reset, between two runs: the iterations begin anew, but not    *)
(* what is known of the files.                                             *)
Reset ==
    /\ step = "run" /\ ~wasReset
    /\ iterations' = 0
    /\ wasReset' = TRUE
    /\ UNCHANGED <<step, loss, files, bestLoss, bestSavedParamPath,
                   intervalSavedParamPathQueue, least>>

-----------------------------------------------------------------------------
(* Properties.  They speak of a network that was not reset: after a reset  *)
(* a path is used again, and the file just written may be removed.         *)

(* Whenever the server dies, a complete file has the parameters of the     *)
(* best of the iterations that handleBestLoss is done with, and at most    *)
(* one other best file was left behind.                                    *)
BestKept ==
    ~wasReset =>
        LET best == {p \in Paths : p[1] = "best" /\ files[p] # Absent} IN
        /\ Cardinality(best) <= IF step \in {"saveBest", "removeBest"} THEN 2 ELSE 1
        /\ least # Absent => \E p \in best : files[p] = least

(* Whenever the server dies, the last KeepCount files of the iterations    *)
(* that are due one are there, complete; while one is written it is one    *)
(* fewer, and beside it there are no others.                               *)
IntervalKept ==
    ~wasReset /\ SaveInterval # 0 =>
        LET queue   == intervalSavedParamPathQueue
            pending == step \notin {"run", "openInterval", "saveInterval"}
            saving  == step \in {"openInterval", "saveInterval"}
            due     == (iterations - IF pending \/ saving THEN 1 ELSE 0) \div SaveInterval
            kept    == LET n == KeepCount - IF saving THEN 1 ELSE 0
                       IN  IF due < n THEN due ELSE n
        IN  /\ queue = [k \in 1..kept |-> <<"interval", (due - kept + k) * SaveInterval>>]
            /\ \A p \in Paths : p[1] = "interval" =>
                  (p \in ToSet(queue) <=> files[p] \in Losses)
=============================================================================
