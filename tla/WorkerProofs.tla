---------------------------- MODULE WorkerProofs ----------------------------
(***************************************************************************)
(* JobHandledOnce of Worker, for any jobs of any kinds, any number of job  *)
(* and task consumers, with HaltMachine and spurious wake-ups; and, with   *)
(* neither of these two, its type invariant and that the waits of its      *)
(* handlers end when what they wait for is there.                          *)
(***************************************************************************)
EXTENDS Worker, QueueLemmas, FiniteSetTheorems

(* The steps at which a job consumer has no job.                           *)
Jobless == {"wait", "ended"}

(* The part of TypeOK that the jobs are in.                                *)
JobTypeOK ==
    /\ pc \in [Threads -> Steps]
    /\ pusher \in [Jobs -> PushSteps]
    /\ jobQueue \in Seq(Jobs)
    /\ cur \in [JobConsumers -> Jobs \cup {NoJob}]
    /\ replied \in SUBSET Jobs

(* What step a job consumer is at tells whether it has a job, whether this *)
(* is a HaltMachine, and, with all but the clean-up behind it, that its    *)
(* reply was published.                                                    *)
StepInv ==
    \A c \in JobConsumers :
        /\ cur[c] = NoJob <=> pc[c] \in Jobless
        /\ pc[c] = "halt" => Kind[cur[c]] = "halt"
        /\ pc[c] = "insert" => Kind[cur[c]] = "halt" \/ cur[c] \in replied

(* Before its pushJob() a job is nowhere.                                  *)
IdleInv ==
    \A j \in Jobs : pusher[j] = "idle" =>
        j \notin ToSet(jobQueue) /\ \A c \in JobConsumers : cur[c] # j

JobInv == JobTypeOK /\ StepInv /\ IdleInv /\ JobHandledOnce

-----------------------------------------------------------------------------
(* The layout of the thread IDs (ThreadMgmt::init): task consumers and the *)
(* producer are no job consumers.                                          *)
LEMMA ThreadIDs ==
    /\ JobConsumers \subseteq Threads
    /\ TaskConsumers \subseteq Threads
    /\ Producer \in Threads
    /\ Producer \notin JobConsumers
    /\ TaskConsumers \cap JobConsumers = {}
  BY WorkerAssumption DEF JobConsumers, TaskConsumers, Threads, Producer

(* All of the jobs are with their clients when the server starts.          *)
LEMMA InitInv == Init => JobInv
<1> SUFFICES ASSUME Init PROVE JobInv
  OBVIOUS
<1> USE ThreadIDs, WorkerAssumption DEF Init
<1>1. ToSet(jobQueue) = {} /\ IsInjective(jobQueue)
  BY DEF ToSet, IsInjective
<1>2. JobTypeOK
  BY DEF JobTypeOK, Steps, PushSteps
<1>3. StepInv /\ IdleInv /\ JobHandledOnce
  BY <1>1 DEF StepInv, Jobless, IdleInv, JobHandledOnce
<1>4. QED BY <1>2, <1>3 DEF JobInv

(* A step that moves no job, and takes no job consumer to another step but *)
(* within its handler.                                                     *)
LEMMA OtherStep ==
    ASSUME JobInv, UNCHANGED <<pusher, jobQueue, cur, replied>>,
           pc' \in [Threads -> Steps],
           \A c \in JobConsumers :
              \/ pc'[c] = pc[c]
              \/ pc[c] \in Jobless /\ pc'[c] \in Jobless
              \/ pc[c] \notin Jobless
                 /\ pc'[c] \in {"give", "wake", "await", "reply", "aborted"}
              \/ pc[c] = "halt" /\ pc'[c] \in {"halt", "insert"}
    PROVE  JobInv'
<1> USE DEF JobInv
<1>1. JobTypeOK'
  BY DEF JobTypeOK
<1>2. StepInv'
  BY DEF StepInv, Jobless
<1>3. IdleInv' /\ JobHandledOnce'
  BY DEF IdleInv, JobHandledOnce
<1>4. QED BY <1>1, <1>2, <1>3

(* pushJob.                                                                *)
LEMMA PushStep ==
    ASSUME JobInv, NEW j \in Jobs, PushQueue(j) PROVE JobInv'
<1> USE DEF JobInv, PushQueue, producerVars, jobVars
<1>1. j \notin ToSet(jobQueue) /\ \A c \in JobConsumers : cur[c] # j
  BY DEF IdleInv
<1>2. /\ jobQueue' \in Seq(Jobs)
      /\ ToSet(jobQueue') = ToSet(jobQueue) \cup {j}
      /\ IsInjective(jobQueue')
  BY <1>1, PushProperties DEF JobTypeOK, JobHandledOnce
<1>3. JobTypeOK' /\ StepInv'
  BY <1>2 DEF JobTypeOK, StepInv, PushSteps
<1>4. IdleInv'
  BY <1>2 DEF IdleInv, JobTypeOK
<1>5. JobHandledOnce'
  BY <1>1, <1>2 DEF JobHandledOnce, JobTypeOK
<1>6. QED BY <1>3, <1>4, <1>5

(* popJob, from the main loop.                                             *)
LEMMA PopStep ==
    ASSUME JobInv, NEW c \in JobConsumers, PopJob(c) PROVE JobInv'
<1> USE ThreadIDs, WorkerAssumption DEF JobInv
<1>1. CASE jobQueue = <<>>
  <2>1. UNCHANGED <<pc, pusher, jobQueue, cur, replied>>
    BY <1>1 DEF PopJob
  <2>2. QED BY <2>1, OtherStep DEF JobTypeOK
<1>2. CASE jobQueue # <<>>
  <2> DEFINE j == Head(jobQueue)
  <2>1. /\ pc[c] = "wait"
        /\ jobQueue' = Tail(jobQueue)
        /\ cur' = [cur EXCEPT ![c] = j]
        /\ pc' = [pc EXCEPT ![c] = HandlerStep(j)]
        /\ UNCHANGED <<pusher, replied>>
    BY <1>2 DEF PopJob, Goto
  <2>2. /\ j \in Jobs
        /\ jobQueue' \in Seq(Jobs)
        /\ ToSet(jobQueue) = {j} \cup ToSet(jobQueue')
        /\ j \notin ToSet(jobQueue')
        /\ IsInjective(jobQueue')
    BY <1>2, <2>1, PopProperties DEF JobTypeOK, JobHandledOnce
  <2>3. /\ HandlerStep(j) \in {"reply", "halt", "give"}
        /\ HandlerStep(j) = "halt" => Kind[j] = "halt"
    BY <2>2 DEF HandlerStep
  <2> HIDE DEF j
  <2>4. JobTypeOK'
    BY <2>1, <2>2, <2>3 DEF JobTypeOK, Steps
  <2>5. StepInv'
    BY <2>1, <2>2, <2>3 DEF StepInv, Jobless, JobTypeOK
  <2>6. IdleInv'
    BY <2>1, <2>2 DEF IdleInv, JobTypeOK
  <2>7. JobHandledOnce'
    <3>1. cur[c] = NoJob
      BY <2>1 DEF StepInv, Jobless
    <3>2. \A d \in JobConsumers : cur'[d] = IF d = c THEN j ELSE cur[d]
      BY <2>1 DEF JobTypeOK
    <3>3. \A d \in JobConsumers : cur[d] # j
      BY <2>2 DEF JobHandledOnce
    <3>4. QED BY <2>1, <2>2, <3>1, <3>2, <3>3 DEF JobHandledOnce
  <2>8. QED BY <2>4, <2>5, <2>6, <2>7
<1>3. QED BY <1>1, <1>2

(* Broker::publish, at the end of a handler.                               *)
LEMMA PublishStep ==
    ASSUME JobInv, NEW c \in JobConsumers, PublishReply(c) PROVE JobInv'
<1> USE ThreadIDs DEF JobInv, PublishReply, clientVars, Goto
<1>1. cur[c] \in Jobs
  BY DEF StepInv, Jobless, JobTypeOK
<1>2. JobTypeOK'
  BY <1>1 DEF JobTypeOK, Steps
<1>3. StepInv'
  BY DEF StepInv, Jobless, JobTypeOK
<1>4. IdleInv' /\ JobHandledOnce'
  BY DEF IdleInv, JobHandledOnce
<1>5. QED BY <1>2, <1>3, <1>4

(* The job is deleted, its consumer goes back to the ready queue.          *)
LEMMA InsertStep ==
    ASSUME JobInv, NEW c \in JobConsumers, InsertJCReadyQueue(c) PROVE JobInv'
<1> USE ThreadIDs DEF JobInv, InsertJCReadyQueue, clientVars, Goto
<1>1. Kind[cur[c]] = "halt" \/ cur[c] \in replied
  BY DEF StepInv
<1>2. \A d \in JobConsumers : cur'[d] = IF d = c THEN NoJob ELSE cur[d]
  BY DEF JobTypeOK
<1>3. JobTypeOK'
  BY DEF JobTypeOK, Steps
<1>4. StepInv'
  BY <1>2 DEF StepInv, Jobless, JobTypeOK
<1>5. IdleInv'
  BY <1>2, WorkerAssumption DEF IdleInv
<1>6. JobHandledOnce'
  BY <1>1, <1>2 DEF JobHandledOnce
<1>7. QED BY <1>3, <1>4, <1>5, <1>6

(* The other steps of a job consumer.                                      *)
LEMMA JobConsumerStep ==
    ASSUME JobInv, NEW c \in JobConsumers, JobConsumerThread(c) PROVE JobInv'
<1> USE ThreadIDs DEF Goto, clientVars, jobVars, workVars
<1>0. pc \in [Threads -> Steps]
  BY DEF JobInv, JobTypeOK
<1>1. CASE JobConsumerHalt(c)
  BY <1>0, <1>1, OtherStep DEF JobConsumerHalt, Jobless, Steps
<1>2. CASE PopJob(c)
  BY <1>2, PopStep
<1>3. CASE GiveTask(c)
  BY <1>0, <1>3, OtherStep DEF GiveTask, Jobless, Steps
<1>4. CASE WakeTaskConsumer(c)
  BY <1>0, <1>4, OtherStep DEF WakeTaskConsumer, Jobless, Steps
<1>5. CASE AwaitTensor(c)
  BY <1>0, <1>5, OtherStep DEF AwaitTensor, Jobless, Steps
<1>6. CASE AwaitRun(c)
  BY <1>0, <1>6, OtherStep DEF AwaitRun, Jobless, Steps
<1>7. CASE PublishReply(c)
  BY <1>7, PublishStep
<1>8. CASE HaltThread(c)
  BY <1>0, <1>8, OtherStep DEF HaltThread, Jobless, Steps
<1>9. CASE InsertJCReadyQueue(c)
  BY <1>9, InsertStep
<1>10. QED BY <1>1, <1>2, <1>3, <1>4, <1>5, <1>6, <1>7, <1>8, <1>9 DEF JobConsumerThread

(* Task consumers do not touch the jobs.                                   *)
LEMMA TaskConsumerStep ==
    ASSUME JobInv, NEW t \in TaskConsumers, TaskConsumerThread(t) PROVE JobInv'
<1> USE ThreadIDs DEF Goto, clientVars, jobVars, workVars
<1>0. pc \in [Threads -> Steps]
  BY DEF JobInv, JobTypeOK
<1>1. CASE TakeTasks(t)
  BY <1>0, <1>1, OtherStep DEF TakeTasks, Steps
<1>2. CASE TaskConsumerSkips(t)
  BY <1>0, <1>2, OtherStep DEF TaskConsumerSkips, Steps
<1>3. CASE AllocTensor(t)
  BY <1>0, <1>3, OtherStep DEF AllocTensor, Steps
<1>4. CASE RunPlan(t)
  BY <1>0, <1>4, OtherStep DEF RunPlan, Steps
<1>5. CASE RunPlanRemains(t)
  BY <1>0, <1>5, OtherStep DEF RunPlanRemains, Steps
<1>6. CASE SignalRequester(t)
  BY <1>0, <1>6, OtherStep DEF SignalRequester, Steps
<1>7. CASE TaskConsumerLoop(t)
  BY <1>0, <1>7, OtherStep DEF TaskConsumerLoop, Steps
<1>8. QED BY <1>1, <1>2, <1>3, <1>4, <1>5, <1>6, <1>7 DEF TaskConsumerThread

(* Nor does the producer: it counts them.                                  *)
LEMMA ProducerStep == ASSUME JobInv, ProducerThread PROVE JobInv'
<1> USE ThreadIDs DEF Goto, ProducerNext, clientVars, jobVars
<1>0. pc \in [Threads -> Steps]
  BY DEF JobInv, JobTypeOK
<1>1. CASE GetJobCount
  BY <1>0, <1>1, OtherStep DEF GetJobCount, Steps
<1>2. CASE GetReadyJCs
  BY <1>0, <1>2, OtherStep DEF GetReadyJCs, Steps
<1>3. CASE SignalJC
  BY <1>0, <1>3, OtherStep DEF SignalJC, Steps
<1>4. QED BY <1>1, <1>2, <1>3 DEF ProducerThread

LEMMA NextInv == JobInv /\ [Next]_vars => JobInv'
<1> SUFFICES ASSUME JobInv, [Next]_vars PROVE JobInv'
  OBVIOUS
<1>0. pc \in [Threads -> Steps]
  BY DEF JobInv, JobTypeOK
<1>1. ASSUME NEW j \in Jobs, PushJob(j) PROVE JobInv'
  <2>1. CASE PushQueue(j)
    BY <2>1, PushStep
  <2>2. CASE PushSignal(j)
    <3>1. /\ UNCHANGED <<pc, jobQueue, cur, replied>>
          /\ pusher[j] = "queued"
          /\ pusher' = [pusher EXCEPT ![j] = "done"]
      BY <2>2 DEF PushSignal, jobVars
    <3>2. JobTypeOK' /\ StepInv'
      BY <3>1 DEF JobInv, JobTypeOK, StepInv, PushSteps
    <3>3. IdleInv' /\ JobHandledOnce'
      BY <3>1 DEF JobInv, JobTypeOK, IdleInv, JobHandledOnce
    <3>4. QED BY <3>2, <3>3 DEF JobInv
  <2>3. QED BY <1>1, <2>1, <2>2 DEF PushJob
<1>2. ASSUME NEW t \in Threads, Wait(t) \/ SpuriousWakeup(t) PROVE JobInv'
  BY <1>0, <1>2, OtherStep
     DEF Wait, WaitTest, WaitBlock, SpuriousWakeup, workVars, clientVars, jobVars
<1>3. CASE UNCHANGED vars
  BY <1>0, <1>3, OtherStep DEF vars, clientVars, jobVars
<1>4. QED BY <1>1, <1>2, <1>3, ProducerStep, JobConsumerStep, TaskConsumerStep DEF Next

(* The strengthening that JobHandledOnce needs holds in every state.       *)
THEOREM JobsSafe == Spec => []JobInv
<1>1. Init => JobInv
  BY InitInv
<1>2. JobInv /\ [Next]_vars => JobInv'
  BY NextInv
<1>3. QED BY <1>1, <1>2, PTL DEF Spec

(* Whatever the interleaving of session threads, producer and consumers, a *)
(* job is in jobQueue, in one job consumer's hands, or answered.           *)
THEOREM HandledOnce == Spec => []JobHandledOnce
<1>1. JobInv => JobHandledOnce
  BY DEF JobInv
<1>2. QED BY <1>1, JobsSafe, PTL

-----------------------------------------------------------------------------
(* Without HaltMachine and spurious wake-ups: every signal to a job        *)
(* consumer has its reason, and ends the one wait it is meant for.         *)

Quiet == ~Spurious /\ \A j \in Jobs : Kind[j] # "halt"

(* At work on tasks of its job.                                            *)
AtTasks(c) == pc[c] \in {"give", "wake", "await"}

HeldBy(t)  == ToSet(tasks[t]) \cup ToSet(todo[t]) \cup ToSet(remain[t])
AtWork(j)  == {t \in TaskConsumers : \E x \in HeldBy(t) : x.job = j}
Notifies(t, j) == pc[t] = "notify" /\ CurTask(t).job = j

(* How many tasks of a run were given.                                     *)
Given(c) == IF pc[c] = "give" THEN to[c] - 1 ELSE to[c]

ContextTypes ==
    /\ flag \in [Threads -> BOOLEAN]
    /\ event \in [Threads -> SUBSET {"Wakeup"}]
    /\ wait \in [Threads -> WaitSteps]

TaskTypes ==
    /\ tasks \in [TaskConsumers -> Seq(Tasks)]
    /\ todo \in [TaskConsumers -> Seq(Tasks)]
    /\ remain \in [TaskConsumers -> Seq(Tasks)]

RestTypeOK ==
    /\ ContextTypes
    /\ TaskTypes
    /\ halting \in BOOLEAN
    /\ jcReadyQueue \in Seq(JobConsumers)
    /\ count \in Nat
    /\ jcIDs \in Seq(JobConsumers)
    /\ to \in [JobConsumers -> Threads]
    /\ tensorDone \in SUBSET Jobs
    /\ allocated \in [Jobs -> 0..Tensors]
    /\ passes \in [Jobs -> 0..MaxPasses]
    /\ doneCount \in [Jobs -> 0..DopCount]

(* What step a thread is at tells what is in its hands.                    *)
PlaceInv ==
    /\ pc[Producer] = "signal" <=> jcIDs # <<>>
    /\ \A t \in TaskConsumers :
          /\ pc[t] \in {"wait", "task", "notify", "ended"}
          /\ pc[t] = "wait" => todo[t] = <<>>
          /\ pc[t] = "notify" => todo[t] # <<>>
    /\ \A c \in JobConsumers :
          /\ pc[c] \in {"wait", "give", "wake", "await", "reply", "insert"}
          /\ pc[c] = "wake" => to[c] \in TaskConsumers

(* A job consumer is signalled when it has no other signal pending, and at *)
(* a step that leads to the wait the signal is meant for.                  *)
SignalInv ==
    \A c \in JobConsumers :
        /\ flag[c] => wait[c] = "out" /\ event[c] # {}
        /\ wait[c] \in {"exchange", "notified"} => event[c] # {}
        /\ event[c] # {} => pc[c] \in {"wait", "wake", "await"}

(* A task is in one queue, once, and its requester waits for it.           *)
HeldOnce(t) ==
    /\ IsInjective(tasks[t]) /\ IsInjective(todo[t]) /\ IsInjective(remain[t])
    /\ ToSet(tasks[t]) \cap ToSet(todo[t]) = {}
    /\ ToSet(tasks[t]) \cap ToSet(remain[t]) = {}
    /\ ToSet(todo[t]) \cap ToSet(remain[t]) = {}

Awaited(x) == AtTasks(x.requestThreadID) /\ cur[x.requestThreadID] = x.job

TaskInv ==
    \A t \in TaskConsumers : HeldOnce(t) /\ \A x \in HeldBy(t) : Awaited(x)

(* The tensor a handler waits for is in the hands of one task consumer,    *)
(* until that signals.                                                     *)
BuildOf(c) ==
    /\ allocated[cur[c]] < Tensors
    /\ pc[c] = "give" \/ event[c] # {} => AtWork(cur[c]) = {}
    /\ \A t, u \in AtWork(cur[c]) : t = u
    /\ event[c] # {} => cur[c] \in tensorDone
    /\ \A t \in TaskConsumers : Notifies(t, cur[c]) => cur[c] \in tensorDone

(* doneCount counts the tasks of a run that are done; the last task        *)
(* consumer to be done, and no other, signals.                             *)
RunOf(c) ==
    /\ to[c] \in 1..DopCount
    /\ pc[c] = "await" => to[c] = DopCount
    /\ AtWork(cur[c]) \subseteq 1..Given(c)
    /\ (\A t \in TaskConsumers : ~Notifies(t, cur[c])) =>
          doneCount[cur[c]] + Cardinality(AtWork(cur[c])) = Given(c)
    /\ \A t \in TaskConsumers : Notifies(t, cur[c]) =>
          AtWork(cur[c]) = {t} /\ doneCount[cur[c]] = DopCount /\ Given(c) = DopCount
    /\ event[c] # {} => AtWork(cur[c]) = {} /\ doneCount[cur[c]] = DopCount

JobOf(c) == (Kind[cur[c]] = "build" /\ BuildOf(c)) \/ (Kind[cur[c]] = "run" /\ RunOf(c))

WorkInv == \A c \in JobConsumers : AtTasks(c) => JobOf(c)

(* The counts of a job are 0 until a job consumer has it; with its reply   *)
(* they are complete.                                                      *)
CountInv ==
    /\ \A j \in Jobs :
          pusher[j] = "idle" \/ j \in ToSet(jobQueue) =>
             doneCount[j] = 0 /\ allocated[j] = 0
    /\ \A c \in JobConsumers :
          pc[c] \in {"reply", "insert"} /\ Kind[cur[c]] = "run" =>
             doneCount[cur[c]] = DopCount
    /\ RunReplyMeansDone

RestInv ==
    /\ RestTypeOK /\ PlaceInv /\ SignalInv /\ ReadyOnce
    /\ TaskInv /\ WorkInv /\ CountInv

QuietInv == JobInv /\ RestInv

-----------------------------------------------------------------------------
(* What the parts of the invariant have in common.                         *)

LEMMA Layout ==
    /\ IsFiniteSet(TaskConsumers) /\ TaskConsumers \subseteq Nat
    /\ DopCount \in Nat \ {0} /\ 1..DopCount \subseteq TaskConsumers
    /\ 0 \notin TaskConsumers /\ Tensors \in Nat \ {0}
<1>1. GpuCount \in Nat \ {0} /\ DopCount \in 1..GpuCount /\ Tensors \in Nat \ {0}
  BY WorkerAssumption
<1>2. IsFiniteSet(1..GpuCount)
  BY <1>1, FS_Interval
<1>3. QED BY <1>1, <1>2 DEF TaskConsumers

LEMMA SignalFrame ==
    ASSUME ContextTypes, NEW t \in Threads, Signal(t, "Wakeup")
    PROVE  /\ \A u \in Threads : u # t =>
                 flag'[u] = flag[u] /\ event'[u] = event[u] /\ wait'[u] = wait[u]
           /\ event'[t] = {"Wakeup"}
           /\ flag'[t] => wait[t] \in {"out", "exchange"}
           /\ wait'[t] = IF wait[t] = "blocked" THEN "notified" ELSE wait[t]
           /\ ContextTypes'
<1>1. /\ event' = [event EXCEPT ![t] = @ \cup {"Wakeup"}]
      /\ wait' = [wait EXCEPT ![t] = IF @ = "blocked" THEN "notified" ELSE @]
  BY DEF Signal
<1>2. /\ flag \in [Threads -> BOOLEAN] /\ event \in [Threads -> SUBSET {"Wakeup"}]
      /\ wait \in [Threads -> WaitSteps]
  BY DEF ContextTypes
<1>3. event'[t] = {"Wakeup"} /\ event' \in [Threads -> SUBSET {"Wakeup"}]
      /\ wait' \in [Threads -> WaitSteps]
  BY <1>1, <1>2 DEF WaitSteps
<1>4. CASE wait[t] \in {"out", "exchange"}
  <2>1. flag' = [flag EXCEPT ![t] = TRUE]
    BY <1>4 DEF Signal
  <2>2. QED BY <1>1, <1>2, <1>3, <1>4, <2>1 DEF ContextTypes
<1>5. CASE wait[t] \notin {"out", "exchange"}
  <2>1. (wait[t] \in {"out", "exchange"}) = FALSE
    BY <1>5
  <2>2. flag' = [flag EXCEPT ![t] = FALSE]
    BY <2>1, Zenon DEF Signal
  <2>3. QED BY <1>1, <1>2, <1>3, <2>2 DEF ContextTypes
<1>6. QED BY <1>4, <1>5

LEMMA ReturnsFrame ==
    ASSUME ContextTypes, NEW t \in Threads, WaitReturns(t)
    PROVE  /\ \A u \in Threads : u # t => event'[u] = event[u] /\ wait'[u] = wait[u]
           /\ event'[t] = {} /\ wait'[t] = "out" /\ UNCHANGED flag
           /\ ContextTypes'
  BY DEF ContextTypes, WaitReturns, Returns, WaitSteps

(* A job consumer whose wait returns was signalled.                        *)
LEMMA ReturnsSignalled ==
    ASSUME ContextTypes, SignalInv, NEW c \in JobConsumers, WaitReturns(c)
    PROVE  event[c] = {"Wakeup"} /\ Returned(c) = {"Wakeup"} /\ ~flag[c]
<1>1. wait[c] \in {"exchange", "notified"}
  BY DEF WaitReturns, Returns
<1>2. event[c] # {} /\ event[c] \in SUBSET {"Wakeup"}
  BY <1>1, ThreadIDs DEF SignalInv, ContextTypes
<1>3. event[c] = {"Wakeup"}
  BY <1>2
<1>4. ~flag[c]
  BY <1>1 DEF SignalInv
<1>5. QED BY <1>1, <1>3, <1>4 DEF Returned

LEMMA OfferedAre ==
    ASSUME RestTypeOK
    PROVE  /\ jcIDs \o jcReadyQueue \in Seq(JobConsumers)
           /\ ToSet(jcIDs \o jcReadyQueue) \subseteq JobConsumers
<1>1. jcIDs \in Seq(JobConsumers) /\ jcReadyQueue \in Seq(JobConsumers)
  BY DEF RestTypeOK
<1>2. jcIDs \o jcReadyQueue \in Seq(JobConsumers)
  BY <1>1, JoinProperties
<1>3. QED BY <1>2 DEF ToSet

(* The job of a consumer is with nobody else.                              *)
LEMMA JobOfOne ==
    ASSUME Quiet, JobInv, NEW c \in JobConsumers, pc[c] \notin Jobless
    PROVE  /\ cur[c] \in Jobs /\ Kind[cur[c]] # "halt"
           /\ cur[c] \notin ToSet(jobQueue) /\ pusher[cur[c]] # "idle"
           /\ \A d \in JobConsumers : cur[d] = cur[c] => d = c
<1>1. cur[c] # NoJob /\ cur[c] \in Jobs
  BY DEF JobInv, StepInv, JobTypeOK
<1>2. \A d \in JobConsumers : cur[d] = cur[c] => cur[d] # NoJob
  BY <1>1
<1>3. QED BY <1>1, <1>2 DEF Quiet, JobInv, JobHandledOnce, IdleInv

LEMMA HeldAre ==
    ASSUME TaskTypes, TaskInv, NEW t \in TaskConsumers, NEW x \in HeldBy(t)
    PROVE  /\ x \in Tasks /\ x.job \in Jobs /\ x.requestThreadID \in JobConsumers
           /\ AtTasks(x.requestThreadID) /\ cur[x.requestThreadID] = x.job
<1>1. /\ tasks[t] \in Seq(Tasks) /\ todo[t] \in Seq(Tasks) /\ remain[t] \in Seq(Tasks)
  BY DEF TaskTypes
<1>2. x \in Tasks
  BY <1>1 DEF HeldBy, ToSet
<1>3. QED BY <1>2 DEF Tasks, TaskInv, Awaited

(* A job's tasks are all alike.                                            *)
LEMMA HeldAlike ==
    ASSUME Quiet, JobInv, TaskTypes, TaskInv, NEW t \in TaskConsumers,
           NEW u \in TaskConsumers, NEW x \in HeldBy(t), NEW y \in HeldBy(u),
           x.job = y.job
    PROVE  x = y
<1>1. /\ x \in Tasks /\ y \in Tasks
      /\ x.requestThreadID \in JobConsumers /\ y.requestThreadID \in JobConsumers
      /\ AtTasks(x.requestThreadID) /\ cur[x.requestThreadID] = x.job
      /\ AtTasks(y.requestThreadID) /\ cur[y.requestThreadID] = y.job
  BY HeldAre
<1>2. x.requestThreadID = y.requestThreadID
  BY <1>1, JobOfOne DEF AtTasks, Jobless
<1>3. QED BY <1>1, <1>2 DEF Tasks

LEMMA CurTaskHeld ==
    ASSUME TaskTypes, NEW t \in TaskConsumers, todo[t] # <<>>
    PROVE  CurTask(t) \in HeldBy(t)
<1>1. todo[t] \in Seq(Tasks)
  BY DEF TaskTypes
<1>2. Len(todo[t]) \in Nat \ {0} /\ Head(todo[t]) = todo[t][1] /\ DOMAIN todo[t] = 1..Len(todo[t])
  BY <1>1
<1>3. QED BY <1>2 DEF HeldBy, CurTask, ToSet

LEMMA NotifiesAtWork ==
    ASSUME TaskTypes, PlaceInv, NEW t \in TaskConsumers, NEW j, Notifies(t, j)
    PROVE  t \in AtWork(j)
  BY CurTaskHeld DEF Notifies, PlaceInv, AtWork

-----------------------------------------------------------------------------
(* What a step leaves alone.                                               *)

(* The handler of d, whose job is j.                                       *)
LEMMA JobFrame ==
    ASSUME WorkInv, NEW d \in JobConsumers, NEW j, j = cur[d], AtTasks(d),
           pc'[d] = pc[d], event'[d] = event[d], cur'[d] = cur[d], to'[d] = to[d],
           allocated'[j] = allocated[j], doneCount'[j] = doneCount[j],
           AtWork(j)' = AtWork(j), j \in tensorDone => j \in tensorDone',
           \A t \in TaskConsumers : Notifies(t, j)' <=> Notifies(t, j)
    PROVE  JobOf(d)'
<1>1. JobOf(d) /\ cur[d] = j /\ cur'[d] = j /\ Given(d)' = Given(d)
  BY DEF WorkInv, Given
<1>2. CASE BuildOf(d) /\ Kind[j] = "build"
  <2>1. BuildOf(d)'
    BY <1>1, <1>2 DEF BuildOf
  <2>2. QED BY <1>1, <1>2, <2>1 DEF JobOf
<1>3. CASE RunOf(d) /\ Kind[j] = "run"
  <2>1. RunOf(d)'
    BY <1>1, <1>3 DEF RunOf
  <2>2. QED BY <1>1, <1>3, <2>1 DEF JobOf
<1>4. QED BY <1>1, <1>2, <1>3 DEF JobOf

(* All handlers that are at work on tasks.                                 *)
LEMMA TasksFrame ==
    ASSUME TaskTypes, TaskInv, WorkInv,
           UNCHANGED <<allocated, tasks, todo, remain, tensorDone, doneCount>>,
           \A t \in TaskConsumers : pc'[t] = "notify" <=> pc[t] = "notify",
           \A c \in JobConsumers : AtTasks(c)' <=> AtTasks(c),
           \A c \in JobConsumers : AtTasks(c) =>
              /\ pc'[c] = pc[c] /\ event'[c] = event[c]
              /\ cur'[c] = cur[c] /\ to'[c] = to[c]
    PROVE  TaskInv' /\ WorkInv'
<1>1. \A t : HeldBy(t)' = HeldBy(t)
  BY DEF HeldBy
<1>2. TaskInv'
  <2>1. ASSUME NEW t \in TaskConsumers, NEW x \in HeldBy(t) PROVE Awaited(x)'
    BY <2>1, HeldAre DEF Awaited
  <2>2. \A t \in TaskConsumers : HeldOnce(t)'
    BY DEF TaskInv, HeldOnce
  <2>3. QED BY <1>1, <2>1, <2>2 DEF TaskInv
<1>3. \A j : AtWork(j)' = AtWork(j)
  BY <1>1 DEF AtWork
<1>4. \A j : \A t \in TaskConsumers : Notifies(t, j)' <=> Notifies(t, j)
  BY DEF Notifies, CurTask
<1>5. WorkInv'
  <2>1. ASSUME NEW d \in JobConsumers, AtTasks(d)' PROVE JobOf(d)'
    <3>1. PICK j : j = cur[d]
      OBVIOUS
    <3>2. AtTasks(d) /\ pc'[d] = pc[d] /\ event'[d] = event[d]
          /\ cur'[d] = cur[d] /\ to'[d] = to[d]
      BY <2>1
    <3>3. QED BY <1>3, <1>4, <3>1, <3>2, JobFrame
  <2>2. QED BY <2>1 DEF WorkInv
<1>6. QED BY <1>2, <1>5

(* All handlers but that of c, when only job i changes.                    *)
LEMMA OthersFrame ==
    ASSUME WorkInv, NEW c \in JobConsumers, NEW i,
           \A d \in JobConsumers : d # c =>
              /\ pc'[d] = pc[d] /\ event'[d] = event[d]
              /\ cur'[d] = cur[d] /\ to'[d] = to[d]
              /\ AtTasks(d) => cur[d] \in Jobs /\ cur[d] # i,
           \A j \in Jobs : j # i =>
              /\ allocated'[j] = allocated[j] /\ doneCount'[j] = doneCount[j]
              /\ AtWork(j)' = AtWork(j)
              /\ j \in tensorDone => j \in tensorDone'
              /\ \A t \in TaskConsumers : Notifies(t, j)' <=> Notifies(t, j),
           AtTasks(c)' => JobOf(c)'
    PROVE  WorkInv'
<1>1. ASSUME NEW d \in JobConsumers, d # c, AtTasks(d)' PROVE JobOf(d)'
  <2>1. PICK j : j = cur[d]
    OBVIOUS
  <2>2. /\ pc'[d] = pc[d] /\ event'[d] = event[d]
        /\ cur'[d] = cur[d] /\ to'[d] = to[d]
    BY <1>1
  <2>3. AtTasks(d)
    BY <1>1, <2>2 DEF AtTasks
  <2>4. j \in Jobs /\ j # i
    BY <1>1, <2>1, <2>3
  <2>5. QED BY <2>1, <2>2, <2>3, <2>4, JobFrame
<1>2. QED BY <1>1 DEF WorkInv

(* The tasks, when a requester is done with them.                          *)
LEMMA HeldFrame ==
    ASSUME TaskTypes, TaskInv, UNCHANGED <<tasks, todo, remain>>,
           \A c \in JobConsumers : AtTasks(c) =>
              (AtTasks(c)' /\ cur'[c] = cur[c]) \/ AtWork(cur[c]) = {}
    PROVE  TaskInv'
<1>1. \A t : HeldBy(t)' = HeldBy(t)
  BY DEF HeldBy
<1>2. ASSUME NEW t \in TaskConsumers, NEW x \in HeldBy(t) PROVE Awaited(x)'
  <2>1. /\ x.requestThreadID \in JobConsumers /\ AtTasks(x.requestThreadID)
        /\ cur[x.requestThreadID] = x.job
    BY HeldAre
  <2>2. t \in AtWork(x.job)
    BY DEF AtWork
  <2>3. QED BY <2>1, <2>2 DEF Awaited
<1>3. \A t \in TaskConsumers : HeldOnce(t)'
  BY DEF TaskInv, HeldOnce
<1>4. QED BY <1>1, <1>2, <1>3 DEF TaskInv

LEMMA SignalsFrame ==
    ASSUME SignalInv,
           \A c \in JobConsumers :
              /\ flag'[c] = flag[c] /\ event'[c] = event[c] /\ wait'[c] = wait[c]
              /\ pc'[c] = pc[c] \/ event[c] = {}
    PROVE  SignalInv'
  BY DEF SignalInv

LEMMA OfferFrame ==
    ASSUME RestTypeOK, ReadyOnce, UNCHANGED <<jcIDs, jcReadyQueue>>,
           \A c \in JobConsumers : pc[c] = "wait" /\ event[c] = {} =>
              pc'[c] = "wait" /\ event'[c] = {}
    PROVE  ReadyOnce'
  BY OfferedAre DEF ReadyOnce

LEMMA CountFrame ==
    ASSUME CountInv, UNCHANGED <<pusher, jobQueue, doneCount, allocated, replied>>,
           \A c \in JobConsumers : pc'[c] \in {"reply", "insert"} =>
              \/ pc[c] \in {"reply", "insert"} /\ cur'[c] = cur[c]
              \/ Kind[cur'[c]] # "run"
    PROVE  CountInv'
<1>1. RunReplyMeansDone'
  BY DEF CountInv, RunReplyMeansDone
<1>2. QED BY <1>1 DEF CountInv

-----------------------------------------------------------------------------
(* pushJob                                                                 *)

LEMMA PushQuiet ==
    ASSUME Quiet, QuietInv, NEW j \in Jobs, PushJob(j) PROVE RestInv'
<1> USE ThreadIDs DEF QuietInv, RestInv
<1>0. /\ ContextTypes /\ TaskTypes
      /\ jobQueue \in Seq(Jobs) /\ pusher \in [Jobs -> PushSteps]
  BY DEF RestTypeOK, JobInv, JobTypeOK
<1>1. CASE PushQueue(j)
  <2>1. /\ pusher[j] = "idle" /\ jobQueue' = Append(jobQueue, j)
        /\ pusher' = [pusher EXCEPT ![j] = "queued"]
        /\ UNCHANGED <<contextVars, pc, producerVars, jobVars, taskVars>>
    BY <1>1 DEF PushQueue
  <2> USE <2>1 DEF contextVars, producerVars, jobVars, taskVars
  <2>2. j \notin ToSet(jobQueue) /\ IsInjective(jobQueue)
    BY DEF JobInv, IdleInv, JobHandledOnce
  <2>3. ToSet(jobQueue') = ToSet(jobQueue) \cup {j}
    BY <1>0, <2>2, PushProperties
  <2>4. CountInv'
    <3>1. \A i \in Jobs : pusher'[i] = "idle" \/ i \in ToSet(jobQueue') =>
             pusher[i] = "idle" \/ i \in ToSet(jobQueue)
      BY <1>0, <2>3
    <3>2. QED BY <3>1 DEF CountInv, RunReplyMeansDone
  <2>5. TaskInv' /\ WorkInv'
    BY <1>0, TasksFrame DEF AtTasks
  <2>6. RestTypeOK' /\ PlaceInv' /\ SignalInv' /\ ReadyOnce'
    BY DEF RestTypeOK, ContextTypes, TaskTypes, PlaceInv, SignalInv, ReadyOnce
  <2>7. QED BY <2>4, <2>5, <2>6
<1>2. CASE PushSignal(j)
  <2>1. /\ pusher[j] = "queued" /\ pusher' = [pusher EXCEPT ![j] = "done"]
        /\ Signal(Producer, "Wakeup")
        /\ UNCHANGED <<pc, jobQueue, producerVars, jobVars, taskVars>>
    BY <1>2 DEF PushSignal
  <2> USE <2>1 DEF producerVars, jobVars, taskVars
  <2>2. /\ \A c \in JobConsumers :
              flag'[c] = flag[c] /\ event'[c] = event[c] /\ wait'[c] = wait[c]
        /\ ContextTypes'
    BY <1>0, SignalFrame
  <2>3. CountInv'
    <3>1. \A i \in Jobs : pusher'[i] = "idle" => pusher[i] = "idle"
      BY <1>0
    <3>2. QED BY <3>1 DEF CountInv, RunReplyMeansDone
  <2>4. TaskInv' /\ WorkInv'
    BY <1>0, <2>2, TasksFrame DEF AtTasks
  <2>5. SignalInv' /\ ReadyOnce'
    BY <2>2, SignalsFrame, OfferFrame
  <2>6. RestTypeOK' /\ PlaceInv'
    BY <2>2 DEF RestTypeOK, TaskTypes, PlaceInv
  <2>7. QED BY <2>3, <2>4, <2>5, <2>6
<1>3. QED BY <1>1, <1>2 DEF PushJob

-----------------------------------------------------------------------------
(* ThreadMgmt::wait                                                        *)

LEMMA WaitQuiet ==
    ASSUME QuietInv, NEW t \in Threads, Wait(t) PROVE RestInv'
<1> USE ThreadIDs DEF QuietInv, RestInv
<1>0. ContextTypes /\ TaskTypes
  BY DEF RestTypeOK
<1>1. /\ UNCHANGED <<event, pc, halting, workVars>>
      /\ \/ TestFlag(t) \/ Block(t)
  BY DEF Wait, WaitTest, WaitBlock, TestFlag, Block
<1> USE <1>1 DEF workVars, clientVars, jobVars, taskVars
<1>2. /\ \A u \in Threads : u # t => flag'[u] = flag[u] /\ wait'[u] = wait[u]
      /\ flag' \in [Threads -> BOOLEAN] /\ wait' \in [Threads -> WaitSteps]
      /\ wait'[t] \in {"exchange", "lock", "blocked"}
      /\ wait'[t] = "exchange" => flag[t]
      /\ ~flag'[t] \/ (wait[t] = "lock" /\ flag'[t] = flag[t])
  BY <1>0 DEF ContextTypes, TestFlag, Block, WaitSteps
<1>3. SignalInv'
  BY <1>2 DEF SignalInv
<1>4. TaskInv' /\ WorkInv'
  BY <1>0, TasksFrame DEF AtTasks
<1>5. RestTypeOK' /\ PlaceInv' /\ ReadyOnce' /\ CountInv'
  BY <1>2, CountFrame
     DEF RestTypeOK, ContextTypes, TaskTypes, PlaceInv, ReadyOnce
<1>6. QED BY <1>3, <1>4, <1>5

-----------------------------------------------------------------------------
(* producerThread                                                          *)

(* It touches no job and no task.                                          *)
LEMMA ProducerFrame ==
    ASSUME QuietInv, UNCHANGED <<clientVars, jobVars, taskVars>>,
           \A u \in Threads : u # Producer => pc'[u] = pc[u],
           \A c \in JobConsumers : event'[c] = event[c] \/ pc[c] = "wait"
    PROVE  TaskInv' /\ WorkInv' /\ CountInv'
<1> USE ThreadIDs DEF QuietInv, RestInv, clientVars, jobVars, taskVars
<1>1. \A u \in JobConsumers \cup TaskConsumers : pc'[u] = pc[u]
  BY Layout DEF Producer
<1>2. TaskInv' /\ WorkInv'
  BY <1>1, TasksFrame DEF AtTasks, RestTypeOK
<1>3. QED BY <1>1, <1>2, CountFrame

LEMMA ProducerQuiet ==
    ASSUME QuietInv, ProducerThread PROVE RestInv'
<1> USE ThreadIDs DEF QuietInv, RestInv
<1>0. /\ ContextTypes /\ TaskTypes /\ pc \in [Threads -> Steps]
      /\ jcIDs \in Seq(JobConsumers) /\ jcReadyQueue \in Seq(JobConsumers)
      /\ jobQueue \in Seq(Jobs) /\ count \in Nat
  BY DEF RestTypeOK, JobInv, JobTypeOK
<1>1. CASE GetJobCount
  <2>1. /\ pc[Producer] = "wait" /\ WaitReturns(Producer)
        /\ pc' = [pc EXCEPT ![Producer] = "getReady"]
        /\ halting' = (Returned(Producer) = {"Halt"}) /\ count' = Len(jobQueue)
        /\ UNCHANGED <<clientVars, jcReadyQueue, jcIDs, jobVars, taskVars>>
    BY <1>1 DEF GetJobCount, Goto
  <2>2. /\ \A c \in JobConsumers :
              flag'[c] = flag[c] /\ event'[c] = event[c] /\ wait'[c] = wait[c]
        /\ ContextTypes'
    BY <1>0, <2>1, ReturnsFrame
  <2>3. TaskInv' /\ WorkInv' /\ CountInv'
    BY <1>0, <2>1, <2>2, ProducerFrame
  <2>4. SignalInv' /\ ReadyOnce'
    BY <1>0, <2>1, <2>2, SignalsFrame, OfferFrame
  <2>5. halting' \in BOOLEAN /\ count' \in Nat
    BY <1>0, <2>1
  <2>6. RestTypeOK'
    BY <2>1, <2>2, <2>5 DEF RestTypeOK, TaskTypes, clientVars, jobVars, taskVars
  <2>7. PlaceInv'
    <3>1. \A u \in JobConsumers \cup TaskConsumers : pc'[u] = pc[u]
      BY <1>0, <2>1, Layout DEF Producer
    <3>2. pc'[Producer] = "getReady" /\ pc[Producer] # "signal"
      BY <1>0, <2>1
    <3>3. QED BY <2>1, <3>1, <3>2 DEF PlaceInv, jobVars, taskVars
  <2>8. QED BY <2>3, <2>4, <2>6, <2>7
<1>2. CASE GetReadyJCs
  <2>1. /\ pc[Producer] = "getReady"
        /\ jcIDs' = SubSeq(jcReadyQueue, 1, ReadyCount)
        /\ jcReadyQueue' = SubSeq(jcReadyQueue, ReadyCount + 1, Len(jcReadyQueue))
        /\ count' = 0 /\ ProducerNext(jcIDs')
        /\ UNCHANGED <<contextVars, clientVars, halting, jobVars, taskVars>>
    BY <1>2 DEF GetReadyJCs
  <2>2. ReadyCount \in 0..Len(jcReadyQueue)
    BY <1>0 DEF ReadyCount
  <2>3. /\ jcIDs' \in Seq(JobConsumers) /\ jcReadyQueue' \in Seq(JobConsumers)
        /\ jcIDs' \o jcReadyQueue' = jcReadyQueue
    BY <1>0, <2>1, <2>2, CutProperties
  <2>4. jcIDs \o jcReadyQueue = jcReadyQueue
    BY <1>0, <2>1, ConcatEmptySeq DEF PlaceInv
  <2>5. /\ \A u \in Threads : u # Producer => pc'[u] = pc[u]
        /\ pc'[Producer] = "signal" <=> jcIDs' # <<>>
    BY <1>0, <2>1 DEF ProducerNext, Goto
  <2>6. TaskInv' /\ WorkInv' /\ CountInv'
    BY <2>1, <2>5, ProducerFrame DEF contextVars
  <2>7. \A c \in JobConsumers :
            /\ pc'[c] = pc[c] /\ event'[c] = event[c]
            /\ flag'[c] = flag[c] /\ wait'[c] = wait[c]
    BY <2>1, <2>5 DEF contextVars
  <2>8. SignalInv' /\ ReadyOnce'
    BY <2>3, <2>4, <2>7, SignalsFrame, OfferedAre DEF ReadyOnce
  <2>9. RestTypeOK'
    BY <2>1, <2>3 DEF RestTypeOK, ContextTypes, TaskTypes, contextVars, clientVars,
                      jobVars, taskVars
  <2>10. PlaceInv'
    <3>1. \A u \in JobConsumers \cup TaskConsumers : pc'[u] = pc[u]
      BY <2>5, Layout DEF Producer
    <3>2. QED BY <2>1, <2>5, <3>1 DEF PlaceInv, jobVars, taskVars
  <2>11. QED BY <2>6, <2>8, <2>9, <2>10
<1>3. CASE SignalJC
  <2>1. /\ pc[Producer] = "signal" /\ Signal(Head(jcIDs), "Wakeup")
        /\ jcIDs' = Tail(jcIDs) /\ ProducerNext(jcIDs')
        /\ UNCHANGED <<clientVars, halting, jcReadyQueue, count, jobVars, taskVars>>
    BY <1>3 DEF SignalJC
  <2>2. PICK c : c = Head(jcIDs)
    OBVIOUS
  <2>3. /\ jcIDs # <<>> /\ jcIDs' \in Seq(JobConsumers) /\ c \in JobConsumers
    BY <1>0, <2>1, <2>2, HeadTailProperties DEF PlaceInv
  <2>4. /\ ToSet(jcIDs \o jcReadyQueue) = {c} \cup ToSet(jcIDs' \o jcReadyQueue')
        /\ c \notin ToSet(jcIDs' \o jcReadyQueue')
        /\ IsInjective(jcIDs' \o jcReadyQueue')
        /\ ToSet(jcIDs' \o jcReadyQueue') \subseteq JobConsumers
    <3>1. PICK l : l = jcIDs \o jcReadyQueue
      OBVIOUS
    <3>2. /\ l \in Seq(JobConsumers) /\ l # <<>>
          /\ Head(l) = c /\ Tail(l) = jcIDs' \o jcReadyQueue'
      BY <1>0, <2>1, <2>2, <2>3, <3>1, PopOfJoin, OfferedAre
    <3>3. IsInjective(l)
      BY <3>1 DEF ReadyOnce
    <3>4. /\ ToSet(l) = {c} \cup ToSet(Tail(l)) /\ c \notin ToSet(Tail(l))
          /\ IsInjective(Tail(l))
      BY <3>2, <3>3, PopProperties
    <3>5. ToSet(l) \subseteq JobConsumers
      BY <3>1, OfferedAre
    <3>6. QED BY <3>1, <3>2, <3>4, <3>5
  <2>5. pc[c] = "wait" /\ event[c] = {}
    BY <2>4 DEF ReadyOnce
  <2>6. /\ \A u \in Threads : u # c =>
              flag'[u] = flag[u] /\ event'[u] = event[u] /\ wait'[u] = wait[u]
        /\ event'[c] = {"Wakeup"} /\ ContextTypes'
        /\ flag'[c] => wait[c] \in {"out", "exchange"}
        /\ wait'[c] = IF wait[c] = "blocked" THEN "notified" ELSE wait[c]
    BY <1>0, <2>1, <2>2, <2>3, SignalFrame
  <2>7. /\ \A u \in Threads : u # Producer => pc'[u] = pc[u]
        /\ pc'[Producer] = "signal" <=> jcIDs' # <<>>
    BY <1>0, <2>1 DEF ProducerNext, Goto
  <2>8. TaskInv' /\ WorkInv' /\ CountInv'
    BY <2>1, <2>3, <2>5, <2>6, <2>7, ProducerFrame
  <2>9. SignalInv'
    BY <2>3, <2>5, <2>6, <2>7 DEF SignalInv
  <2>10. ReadyOnce'
    BY <2>3, <2>4, <2>6, <2>7 DEF ReadyOnce
  <2>11. RestTypeOK'
    BY <2>1, <2>3, <2>6 DEF RestTypeOK, TaskTypes, clientVars, jobVars, taskVars
  <2>12. PlaceInv'
    <3>1. \A u \in JobConsumers \cup TaskConsumers : pc'[u] = pc[u]
      BY <2>7, Layout DEF Producer
    <3>2. QED BY <2>1, <2>7, <3>1 DEF PlaceInv, jobVars, taskVars
  <2>13. QED BY <2>8, <2>9, <2>10, <2>11, <2>12
<1>4. QED BY <1>1, <1>2, <1>3 DEF ProducerThread

-----------------------------------------------------------------------------
(* jobConsumerThread                                                       *)

(* A job consumer gets a job that nobody has worked on.                    *)
LEMMA PopQuiet ==
    ASSUME Quiet, QuietInv, NEW c \in JobConsumers, PopJob(c) PROVE RestInv'
<1> USE ThreadIDs DEF QuietInv, RestInv
<1>0. /\ ContextTypes /\ TaskTypes /\ c \in Threads /\ c \notin TaskConsumers /\ c # Producer
      /\ jobQueue \in Seq(Jobs) /\ pc \in [Threads -> Steps]
      /\ cur \in [JobConsumers -> Jobs \cup {NoJob}] /\ to \in [JobConsumers -> Threads]
  BY DEF RestTypeOK, JobInv, JobTypeOK
<1>1. /\ pc[c] = "wait" /\ WaitReturns(c)
      /\ UNCHANGED <<pusher, producerVars, allocated, replied, taskVars>>
  BY DEF PopJob
<1> USE <1>1 DEF producerVars, taskVars
<1>2. /\ \A u \in Threads : u # c => event'[u] = event[u] /\ wait'[u] = wait[u]
      /\ event'[c] = {} /\ wait'[c] = "out" /\ flag' = flag
      /\ ContextTypes'
      /\ event[c] = {"Wakeup"} /\ ~flag[c]
  BY <1>0, ReturnsFrame, ReturnsSignalled
<1>3. CASE jobQueue = <<>>
  <2>1. UNCHANGED <<pc, jobQueue, cur, to>>
    BY <1>3 DEF PopJob
  <2>2. TaskInv' /\ WorkInv'
    BY <1>0, <1>2, <2>1, TasksFrame DEF AtTasks
  <2>3. SignalInv'
    BY <1>2, <2>1 DEF SignalInv
  <2>4. ReadyOnce' /\ CountInv'
    BY <1>2, <2>1, OfferFrame, CountFrame
  <2>5. RestTypeOK' /\ PlaceInv'
    BY <1>2, <2>1 DEF RestTypeOK, TaskTypes, PlaceInv
  <2>6. QED BY <2>2, <2>3, <2>4, <2>5
<1>4. CASE jobQueue # <<>>
  <2>1. PICK j : j = Head(jobQueue)
    OBVIOUS
  <2>2. /\ jobQueue' = Tail(jobQueue)
        /\ cur' = [cur EXCEPT ![c] = j]
        /\ to' = [to EXCEPT ![c] = FirstThread(j)]
        /\ pc' = [pc EXCEPT ![c] = HandlerStep(j)]
    BY <1>4, <2>1 DEF PopJob, Goto
  <2>3. j \in Jobs /\ j \in ToSet(jobQueue) /\ ToSet(jobQueue') \subseteq ToSet(jobQueue)
    <3>1. IsInjective(jobQueue)
      BY DEF JobInv, JobHandledOnce
    <3>2. QED BY <1>0, <1>4, <2>1, <2>2, <3>1, PopProperties
  <2>4. \A d \in JobConsumers : AtTasks(d) => cur[d] \in Jobs /\ cur[d] # j
    BY <2>3, JobOfOne DEF AtTasks, Jobless
  <2>5. AtWork(j) = {} /\ \A t \in TaskConsumers : ~Notifies(t, j)
    <3>1. ASSUME NEW t \in TaskConsumers, NEW x \in HeldBy(t) PROVE x.job # j
      BY <1>0, <2>4, HeldAre
    <3>2. AtWork(j) = {}
      BY <3>1 DEF AtWork
    <3>3. QED BY <1>0, <3>2, NotifiesAtWork
  <2>6. doneCount[j] = 0 /\ allocated[j] = 0
    BY <2>3 DEF CountInv
  <2>7. /\ Kind[j] \in {"reply", "build", "run"}
        /\ HandlerStep(j) = IF Kind[j] = "reply" THEN "reply" ELSE "give"
        /\ FirstThread(j) \in Threads
        /\ Kind[j] = "run" => FirstThread(j) = 1
    <3>1. 1 \in Threads /\ Kind[j] \in Kinds /\ Kind[j] # "halt"
      BY <2>3, Layout, WorkerAssumption DEF Quiet
    <3>2. QED BY <3>1 DEF Kinds, HandlerStep, FirstThread
  <2>8. /\ \A d \in JobConsumers : d # c =>
              pc'[d] = pc[d] /\ cur'[d] = cur[d] /\ to'[d] = to[d]
        /\ cur'[c] = j /\ to'[c] = FirstThread(j) /\ pc'[c] = HandlerStep(j)
        /\ \A t \in TaskConsumers : pc'[t] = pc[t]
        /\ pc'[Producer] = pc[Producer]
        /\ to' \in [JobConsumers -> Threads]
    <3>1. FirstThread(j) \in Threads
      BY <2>7
    <3>2. \A d \in JobConsumers : d \in Threads
      OBVIOUS
    <3>3. \A d \in JobConsumers : d # c =>
             pc'[d] = pc[d] /\ cur'[d] = cur[d] /\ to'[d] = to[d]
      BY <1>0, <2>2
    <3>4. cur'[c] = j /\ to'[c] = FirstThread(j) /\ pc'[c] = HandlerStep(j)
      BY <1>0, <2>2
    <3>5. \A t \in TaskConsumers : pc'[t] = pc[t]
      BY <1>0, <2>2
    <3>6. pc'[Producer] = pc[Producer]
      BY <1>0, <2>2
    <3>7. to' \in [JobConsumers -> Threads]
      BY <1>0, <2>2, <3>1
    <3>8. QED BY <3>3, <3>4, <3>5, <3>6, <3>7
  <2>9. /\ \A i : AtWork(i)' = AtWork(i)
        /\ \A i : \A t \in TaskConsumers : Notifies(t, i)' <=> Notifies(t, i)
    BY <2>8 DEF AtWork, HeldBy, Notifies, CurTask
  <2>10. AtTasks(c)' => JobOf(c)'
    <3>1. SUFFICES ASSUME pc'[c] = "give" PROVE JobOf(c)'
      BY <2>7, <2>8 DEF AtTasks
    <3>2. /\ AtWork(cur[c])' = {} /\ event'[c] = {} /\ cur'[c] = j
          /\ \A t \in TaskConsumers : ~Notifies(t, cur[c])'
      BY <1>2, <2>5, <2>8, <2>9
    <3>3. Kind[j] \in {"build", "run"}
      BY <2>7, <2>8, <3>1
    <3>4. CASE Kind[j] = "build"
      <4>1. BuildOf(c)'
        BY <2>6, <3>1, <3>2, Layout DEF BuildOf
      <4>2. QED BY <3>2, <3>4, <4>1 DEF JobOf
    <3>5. CASE Kind[j] = "run"
      <4>1. to'[c] = 1 /\ Given(c)' = 0 /\ 1 \in 1..DopCount
        BY <2>7, <2>8, <3>1, <3>5, Layout DEF Given
      <4>2. doneCount'[j] + Cardinality({}) = 0
        BY <2>6, FS_EmptySet
      <4>3. RunOf(c)'
        BY <3>1, <3>2, <4>1, <4>2 DEF RunOf
      <4>4. QED BY <3>2, <3>5, <4>3 DEF JobOf
    <3>6. QED BY <3>3, <3>4, <3>5
  <2>11. WorkInv'
    <3>1. \A d \in JobConsumers : d # c =>
             /\ pc'[d] = pc[d] /\ event'[d] = event[d]
             /\ cur'[d] = cur[d] /\ to'[d] = to[d]
             /\ AtTasks(d) => cur[d] \in Jobs /\ cur[d] # j
      BY <1>2, <2>4, <2>8
    <3>2. \A i \in Jobs : i # j =>
             /\ allocated'[i] = allocated[i] /\ doneCount'[i] = doneCount[i]
             /\ AtWork(i)' = AtWork(i)
             /\ i \in tensorDone => i \in tensorDone'
             /\ \A t \in TaskConsumers : Notifies(t, i)' <=> Notifies(t, i)
      BY <2>9
    <3>3. QED BY <2>10, <3>1, <3>2, OthersFrame
  <2>12. TaskInv'
    BY <1>0, <2>8, HeldFrame DEF AtTasks
  <2>13. SignalInv'
    BY <1>2, <2>8 DEF SignalInv
  <2>14. ReadyOnce'
    BY <1>2, <2>8, OfferFrame
  <2>15. CountInv'
    <3>1. RunReplyMeansDone'
      BY DEF CountInv, RunReplyMeansDone
    <3>2. \A d \in JobConsumers : pc'[d] \in {"reply", "insert"} /\ Kind[cur'[d]] = "run" =>
             d # c
      BY <2>7, <2>8
    <3>3. QED BY <2>3, <2>8, <3>1, <3>2 DEF CountInv
  <2>16. RestTypeOK'
    BY <1>2, <2>8 DEF RestTypeOK, TaskTypes
  <2>17. PlaceInv'
    BY <2>7, <2>8 DEF PlaceInv
  <2>18. QED BY <2>11, <2>12, <2>13, <2>14, <2>15, <2>16, <2>17
<1>5. QED BY <1>3, <1>4

(* A task goes to a task consumer that has none of this job.               *)
LEMMA GiveQuiet ==
    ASSUME Quiet, QuietInv, NEW c \in JobConsumers, GiveTask(c) PROVE RestInv'
<1> USE ThreadIDs DEF QuietInv, RestInv
<1>0. /\ ContextTypes /\ TaskTypes /\ c \in Threads /\ c \notin TaskConsumers /\ c # Producer
      /\ pc \in [Threads -> Steps] /\ to \in [JobConsumers -> Threads]
      /\ tasks \in [TaskConsumers -> Seq(Tasks)]
  BY DEF RestTypeOK, TaskTypes, JobInv, JobTypeOK
<1>1. PICK j : j = cur[c]
  OBVIOUS
<1>2. PICK x : x = [job |-> j, requestThreadID |-> c]
  OBVIOUS
<1>3. /\ pc[c] = "give" /\ pc' = [pc EXCEPT ![c] = "wake"]
      /\ tensorDone' = tensorDone \ {j}
      /\ UNCHANGED <<contextVars, clientVars, producerVars, cur, allocated,
                     replied, todo, remain, passes, doneCount>>
  BY <1>1 DEF GiveTask, Goto
<1>4. PICK t \in IF Kind[j] = "run" THEN {to[c]} ELSE TaskConsumers :
         /\ tasks' = [tasks EXCEPT ![t] = Append(@, x)]
         /\ to' = [to EXCEPT ![c] = t]
  BY <1>1, <1>2 DEF GiveTask
<1> USE <1>3 DEF contextVars, clientVars, producerVars
<1>5. /\ j \in Jobs /\ \A d \in JobConsumers : AtTasks(d) => cur[d] \in Jobs /\ (d # c => cur[d] # j)
      /\ x \in Tasks /\ x.job = j /\ x.requestThreadID = c
  <2>1. \A d \in JobConsumers : AtTasks(d) =>
           cur[d] \in Jobs /\ \A e \in JobConsumers : cur[e] = cur[d] => e = d
    BY JobOfOne DEF AtTasks, Jobless
  <2>2. AtTasks(c)
    BY DEF AtTasks
  <2>3. j \in Jobs
    BY <1>1, <2>1, <2>2
  <2>4. x \in Tasks /\ x.job = j /\ x.requestThreadID = c
    BY <1>2, <2>3 DEF Tasks
  <2>5. QED BY <1>1, <2>1, <2>3, <2>4
<1>6. JobOf(c)
  BY DEF WorkInv, AtTasks
<1>7. /\ event[c] = {} /\ t \in TaskConsumers /\ t \notin AtWork(j)
      /\ \A u \in TaskConsumers : ~Notifies(u, j)
  <2>0. event[c] = {}
    BY DEF SignalInv
  <2>1. CASE Kind[j] = "build" /\ BuildOf(c)
    <3>1. AtWork(j) = {} /\ t \in TaskConsumers
      BY <1>1, <1>4, <2>1 DEF BuildOf
    <3>2. QED BY <1>0, <2>0, <3>1, NotifiesAtWork
  <2>2. CASE Kind[j] = "run" /\ RunOf(c)
    <3>1. t = to[c] /\ t \in 1..DopCount /\ Given(c) = t - 1
      BY <1>4, <2>2 DEF RunOf, Given
    <3>2. t \in TaskConsumers /\ t \in Nat /\ DopCount \in Nat /\ Given(c) # DopCount
      BY <3>1, Layout
    <3>3. t \notin 1..Given(c)
      BY <3>1, <3>2
    <3>4. QED BY <1>1, <2>0, <2>2, <3>2, <3>3 DEF RunOf
  <2>3. QED BY <1>1, <1>6, <2>1, <2>2 DEF JobOf
<1>8. /\ tasks[t] \in Seq(Tasks) /\ x \notin HeldBy(t) /\ HeldOnce(t)
  BY <1>0, <1>5, <1>7 DEF AtWork, TaskInv
<1>9. /\ Append(tasks[t], x) \in Seq(Tasks)
      /\ ToSet(Append(tasks[t], x)) = ToSet(tasks[t]) \cup {x}
      /\ IsInjective(Append(tasks[t], x))
  <2>1. x \notin ToSet(tasks[t]) /\ IsInjective(tasks[t])
    BY <1>8 DEF HeldBy, HeldOnce
  <2>2. QED BY <1>5, <1>8, <2>1, PushProperties
<1>10. /\ tasks'[t] = Append(tasks[t], x)
       /\ \A u \in TaskConsumers : u # t => tasks'[u] = tasks[u]
       /\ tasks' \in [TaskConsumers -> Seq(Tasks)]
  BY <1>0, <1>4, <1>7, <1>9
<1>11. /\ HeldBy(t)' = HeldBy(t) \cup {x} /\ HeldOnce(t)'
       /\ \A u \in TaskConsumers : u # t =>
             HeldBy(u)' = HeldBy(u) /\ (HeldOnce(u) => HeldOnce(u)')
  <2>1. HeldBy(t)' = HeldBy(t) \cup {x}
    BY <1>9, <1>10 DEF HeldBy
  <2>2. HeldOnce(t)'
    BY <1>8, <1>9, <1>10 DEF HeldOnce, HeldBy
  <2>3. \A u \in TaskConsumers : u # t =>
           HeldBy(u)' = HeldBy(u) /\ (HeldOnce(u) => HeldOnce(u)')
    BY <1>10 DEF HeldBy, HeldOnce
  <2>4. QED BY <2>1, <2>2, <2>3
<1>12. /\ \A d \in JobConsumers : d # c => pc'[d] = pc[d] /\ to'[d] = to[d]
       /\ pc'[c] = "wake" /\ to'[c] = t
       /\ \A u \in TaskConsumers : pc'[u] = pc[u]
       /\ pc'[Producer] = pc[Producer]
  <2>1. \A d \in JobConsumers : d # c => pc'[d] = pc[d] /\ to'[d] = to[d]
    BY <1>0, <1>4
  <2>2. pc'[c] = "wake" /\ to'[c] = t
    BY <1>0, <1>4
  <2>3. pc'[Producer] = pc[Producer] /\ \A u \in TaskConsumers : pc'[u] = pc[u]
    BY <1>0
  <2>4. QED BY <2>1, <2>2, <2>3
<1>13. TaskInv'
  <2>1. \A d \in JobConsumers : AtTasks(d) => AtTasks(d)'
    BY <1>12 DEF AtTasks
  <2>2. \A y : y.requestThreadID \in JobConsumers /\ Awaited(y) => Awaited(y)'
    BY <2>1 DEF Awaited
  <2>3. Awaited(x)'
    BY <1>1, <1>5, <1>12 DEF Awaited, AtTasks
  <2>4. ASSUME NEW u \in TaskConsumers, NEW y \in HeldBy(u) PROVE Awaited(y)'
    <3>1. y.requestThreadID \in JobConsumers /\ Awaited(y)
      BY <1>0, HeldAre DEF Awaited
    <3>2. QED BY <2>2, <3>1
  <2>5. \A u \in TaskConsumers : HeldOnce(u)'
    BY <1>11 DEF TaskInv
  <2>6. QED BY <1>11, <2>3, <2>4, <2>5 DEF TaskInv
<1>14. /\ AtWork(j)' = AtWork(j) \cup {t}
       /\ \A i : i # j => AtWork(i)' = AtWork(i)
       /\ \A i : \A u \in TaskConsumers : Notifies(u, i)' <=> Notifies(u, i)
  <2>1. \A i : \A u \in TaskConsumers : u # t =>
           ((\E y \in HeldBy(u)' : y.job = i) <=> (\E y \in HeldBy(u) : y.job = i))
    BY <1>11
  <2>2. \A i : (\E y \in HeldBy(t)' : y.job = i) <=> (\E y \in HeldBy(t) : y.job = i) \/ i = j
    BY <1>5, <1>11
  <2>3. AtWork(j)' = AtWork(j) \cup {t}
    BY <1>7, <2>1, <2>2 DEF AtWork
  <2>4. \A i : i # j => AtWork(i)' = AtWork(i)
    BY <2>1, <2>2 DEF AtWork
  <2>5. \A i : \A u \in TaskConsumers : Notifies(u, i)' <=> Notifies(u, i)
    BY <1>12 DEF Notifies, CurTask
  <2>6. QED BY <2>3, <2>4, <2>5
<1>15. JobOf(c)'
  <2>0. /\ event'[c] = {} /\ cur'[c] = j
        /\ \A u \in TaskConsumers : ~Notifies(u, j)'
    BY <1>1, <1>7, <1>14
  <2>1. CASE Kind[j] = "build" /\ BuildOf(c)
    <3>1. AtWork(j)' = {t} /\ allocated'[j] < Tensors
      BY <1>1, <1>14, <2>1 DEF BuildOf
    <3>2. BuildOf(c)'
      BY <1>12, <2>0, <3>1 DEF BuildOf
    <3>3. QED BY <2>0, <2>1, <3>2 DEF JobOf
  <2>2. CASE Kind[j] = "run" /\ RunOf(c)
    <3>1. /\ t = to[c] /\ t \in 1..DopCount /\ Given(c) = t - 1 /\ Given(c)' = t
          /\ t \in Nat /\ doneCount[j] \in Nat /\ IsFiniteSet(AtWork(j))
      <4>1. t = to[c] /\ t \in 1..DopCount
        BY <1>4, <2>2 DEF RunOf
      <4>2. Given(c) = t - 1 /\ Given(c)' = t
        BY <1>12, <4>1 DEF Given
      <4>3. AtWork(j) \subseteq TaskConsumers
        BY DEF AtWork
      <4>4. IsFiniteSet(AtWork(j))
        BY <4>3, Layout, FS_Subset
      <4>5. doneCount[j] \in Nat
        BY <1>5, Layout DEF RestTypeOK
      <4>6. QED BY <4>1, <4>2, <4>4, <4>5, Layout
    <3>2. /\ doneCount[j] + Cardinality(AtWork(j)) = t - 1 /\ AtWork(j) \subseteq 1..(t - 1)
      BY <1>1, <1>7, <2>2, <3>1 DEF RunOf
    <3>3. /\ Cardinality(AtWork(j) \cup {t}) = Cardinality(AtWork(j)) + 1
          /\ Cardinality(AtWork(j)) \in Nat
      BY <1>7, <3>1, FS_AddElement, FS_CardinalityType
    <3>4. doneCount[j] + Cardinality(AtWork(j)') = t /\ AtWork(j)' \subseteq 1..t
      BY <1>14, <3>1, <3>2, <3>3
    <3>5. RunOf(c)'
      BY <1>12, <2>0, <3>1, <3>4 DEF RunOf
    <3>6. QED BY <2>0, <2>2, <3>5 DEF JobOf
  <2>3. QED BY <1>1, <1>6, <2>1, <2>2 DEF JobOf
<1>16. WorkInv'
  <2>1. \A d \in JobConsumers : d # c =>
           /\ pc'[d] = pc[d] /\ event'[d] = event[d]
           /\ cur'[d] = cur[d] /\ to'[d] = to[d]
           /\ AtTasks(d) => cur[d] \in Jobs /\ cur[d] # j
    BY <1>5, <1>12
  <2>2. \A i \in Jobs : i # j =>
           /\ allocated'[i] = allocated[i] /\ doneCount'[i] = doneCount[i]
           /\ AtWork(i)' = AtWork(i)
           /\ i \in tensorDone => i \in tensorDone'
           /\ \A u \in TaskConsumers : Notifies(u, i)' <=> Notifies(u, i)
    BY <1>14
  <2>3. QED BY <1>15, <2>1, <2>2, OthersFrame
<1>17. SignalInv' /\ ReadyOnce' /\ CountInv'
  BY <1>7, <1>12, SignalsFrame, OfferFrame, CountFrame
<1>18. RestTypeOK'
  <2>1. to' \in [JobConsumers -> Threads]
    BY <1>0, <1>4, <1>7
  <2>2. tensorDone' \in SUBSET Jobs
    BY DEF RestTypeOK
  <2>3. QED BY <1>10, <2>1, <2>2 DEF RestTypeOK, ContextTypes, TaskTypes
<1>19. PlaceInv'
  BY <1>7, <1>12 DEF PlaceInv
<1>20. QED BY <1>13, <1>16, <1>17, <1>18, <1>19

(* No answer is there before the last of the tasks is given.               *)
LEMMA WakeQuiet ==
    ASSUME Quiet, QuietInv, NEW c \in JobConsumers, WakeTaskConsumer(c) PROVE RestInv'
<1> USE ThreadIDs DEF QuietInv, RestInv
<1>0. /\ ContextTypes /\ TaskTypes /\ c \in Threads /\ c \notin TaskConsumers /\ c # Producer
      /\ pc \in [Threads -> Steps] /\ to \in [JobConsumers -> Threads]
  BY DEF RestTypeOK, JobInv, JobTypeOK
<1>1. PICK j : j = cur[c]
  OBVIOUS
<1>2. PICK t : t = to[c]
  OBVIOUS
<1>3. PICK next \in {"give", "await"} :
         /\ pc' = [pc EXCEPT ![c] = next]
         /\ next = "give" => Kind[j] = "run" /\ t < DopCount /\ to' = [to EXCEPT ![c] = t + 1]
         /\ next = "await" => ~(Kind[j] = "run" /\ t < DopCount) /\ to' = to
  <2>1. CASE Kind[j] = "run" /\ t < DopCount
    BY <1>1, <1>2, <2>1 DEF WakeTaskConsumer, Goto
  <2>2. CASE ~(Kind[j] = "run" /\ t < DopCount)
    <3>1. pc' = [pc EXCEPT ![c] = "await"]
      BY <1>1, <1>2, <2>2 DEF WakeTaskConsumer, Goto
    <3>2. to' = [to EXCEPT ![c] = to[c]]
      BY <1>1, <1>2, <2>2 DEF WakeTaskConsumer
    <3>3. to' = to
      BY <1>0, <3>2
    <3>4. QED BY <2>2, <3>1, <3>3
  <2>3. QED BY <2>1, <2>2
<1>4. /\ pc[c] = "wake" /\ Signal(t, "Wakeup")
      /\ UNCHANGED <<clientVars, producerVars, cur, allocated, replied, taskVars>>
  BY <1>2 DEF WakeTaskConsumer
<1> USE <1>4 DEF clientVars, producerVars, taskVars
<1>5. t \in TaskConsumers
  BY <1>2 DEF PlaceInv
<1>6. /\ \A d \in JobConsumers :
            flag'[d] = flag[d] /\ event'[d] = event[d] /\ wait'[d] = wait[d]
      /\ ContextTypes'
  BY <1>0, <1>5, SignalFrame
<1>7. /\ j \in Jobs /\ \A d \in JobConsumers : AtTasks(d) => cur[d] \in Jobs /\ (d # c => cur[d] # j)
  <2>1. \A d \in JobConsumers : AtTasks(d) =>
           cur[d] \in Jobs /\ \A e \in JobConsumers : cur[e] = cur[d] => e = d
    BY JobOfOne DEF AtTasks, Jobless
  <2>2. AtTasks(c)
    BY DEF AtTasks
  <2>3. QED BY <1>1, <2>1, <2>2
<1>8. JobOf(c)
  BY DEF WorkInv, AtTasks
<1>9. /\ \A d \in JobConsumers : d # c => pc'[d] = pc[d] /\ to'[d] = to[d]
      /\ pc'[c] = next
      /\ \A u \in TaskConsumers : pc'[u] = pc[u]
      /\ pc'[Producer] = pc[Producer]
  <2>1. \A d \in JobConsumers : d # c => pc'[d] = pc[d] /\ to'[d] = to[d]
    BY <1>0, <1>3
  <2>2. pc'[c] = next /\ pc'[Producer] = pc[Producer] /\ \A u \in TaskConsumers : pc'[u] = pc[u]
    BY <1>0, <1>3
  <2>3. QED BY <2>1, <2>2
<1>10. /\ \A u : HeldBy(u)' = HeldBy(u)
       /\ \A i : AtWork(i)' = AtWork(i)
       /\ \A i : \A u \in TaskConsumers : Notifies(u, i)' <=> Notifies(u, i)
  BY <1>9 DEF HeldBy, AtWork, Notifies, CurTask
<1>11. JobOf(c)' /\ (next = "give" => event[c] = {}) /\ to'[c] \in Threads
  <2>1. CASE Kind[j] = "build" /\ BuildOf(c)
    <3>1. next = "await" /\ to' = to
      BY <1>3, <2>1
    <3>2. BuildOf(c)'
      BY <1>1, <1>6, <1>9, <1>10, <2>1, <3>1 DEF BuildOf
    <3>3. QED BY <1>0, <1>1, <2>1, <3>1, <3>2 DEF JobOf
  <2>2. CASE Kind[j] = "run" /\ RunOf(c)
    <3>1. /\ t \in 1..DopCount /\ t \in Nat /\ DopCount \in Nat /\ Given(c) = t
          /\ doneCount[j] \in Nat
      BY <1>2, <1>7, <2>2, Layout DEF RunOf, Given, RestTypeOK
    <3>2. next = "give" => event[c] = {}
      <4>1. SUFFICES ASSUME next = "give", event[c] # {} PROVE FALSE
        OBVIOUS
      <4>2. AtWork(j) = {} /\ doneCount[j] = DopCount
        BY <1>1, <2>2, <4>1 DEF RunOf
      <4>3. \A u \in TaskConsumers : ~Notifies(u, j)
        BY <1>0, <4>2, NotifiesAtWork
      <4>4. doneCount[j] + Cardinality({}) = t
        BY <1>1, <2>2, <3>1, <4>2, <4>3 DEF RunOf
      <4>5. t < DopCount /\ Cardinality({}) = 0
        BY <1>3, <4>1, FS_EmptySet
      <4>6. QED BY <3>1, <4>2, <4>4, <4>5
    <3>3. CASE next = "give"
      <4>1. to'[c] = t + 1 /\ t + 1 \in 1..DopCount /\ Given(c)' = t
        <5>1. to'[c] = t + 1 /\ t < DopCount
          BY <1>0, <1>3, <3>3
        <5>2. Given(c)' = (t + 1) - 1
          BY <1>9, <3>3, <5>1 DEF Given
        <5>3. QED BY <3>1, <5>1, <5>2
      <4>2. RunOf(c)'
        BY <1>1, <1>6, <1>9, <1>10, <2>2, <3>1, <3>3, <4>1 DEF RunOf
      <4>3. to'[c] \in Threads
        BY <4>1, Layout
      <4>4. QED BY <1>1, <2>2, <3>2, <4>2, <4>3 DEF JobOf
    <3>4. CASE next = "await"
      <4>1. to' = to /\ t = DopCount /\ Given(c)' = t
        <5>1. to' = to /\ ~(t < DopCount)
          BY <1>3, <2>2, <3>4
        <5>2. t = DopCount
          BY <3>1, <5>1
        <5>3. QED BY <1>2, <1>9, <3>4, <5>1, <5>2 DEF Given
      <4>2. RunOf(c)'
        BY <1>1, <1>2, <1>6, <1>9, <1>10, <2>2, <3>1, <3>4, <4>1 DEF RunOf
      <4>3. QED BY <1>0, <1>1, <2>2, <3>2, <4>1, <4>2 DEF JobOf
    <3>5. QED BY <3>3, <3>4
  <2>3. QED BY <1>1, <1>8, <2>1, <2>2 DEF JobOf
<1>12. WorkInv'
  <2>1. \A d \in JobConsumers : d # c =>
           /\ pc'[d] = pc[d] /\ event'[d] = event[d]
           /\ cur'[d] = cur[d] /\ to'[d] = to[d]
           /\ AtTasks(d) => cur[d] \in Jobs /\ cur[d] # j
    BY <1>6, <1>7, <1>9
  <2>2. \A i \in Jobs : i # j =>
           /\ allocated'[i] = allocated[i] /\ doneCount'[i] = doneCount[i]
           /\ AtWork(i)' = AtWork(i)
           /\ i \in tensorDone => i \in tensorDone'
           /\ \A u \in TaskConsumers : Notifies(u, i)' <=> Notifies(u, i)
    BY <1>10
  <2>3. QED BY <1>11, <2>1, <2>2, OthersFrame
<1>13. TaskInv'
  BY <1>0, <1>9, HeldFrame DEF AtTasks
<1>14. SignalInv'
  <2>1. pc'[c] \in {"give", "await"} /\ (pc'[c] = "give" => event[c] = {})
    BY <1>9, <1>11
  <2>2. QED BY <1>6, <1>9, <2>1 DEF SignalInv
<1>15. ReadyOnce' /\ CountInv'
  BY <1>6, <1>9, OfferFrame, CountFrame
<1>16. RestTypeOK'
  <2>1. to' \in [JobConsumers -> Threads]
    <3>1. next = "give" => to' = [to EXCEPT ![c] = to'[c]]
      BY <1>0, <1>3
    <3>2. QED BY <1>0, <1>3, <1>11, <3>1
  <2>2. QED BY <1>6, <2>1 DEF RestTypeOK, TaskTypes
<1>17. PlaceInv'
  BY <1>9 DEF PlaceInv
<1>18. QED BY <1>12, <1>13, <1>14, <1>15, <1>16, <1>17

(* The tensor is there, the task with nobody.                              *)
LEMMA TensorQuiet ==
    ASSUME Quiet, QuietInv, NEW c \in JobConsumers, AwaitTensor(c) PROVE RestInv'
<1> USE ThreadIDs DEF QuietInv, RestInv
<1>0. /\ ContextTypes /\ TaskTypes /\ c \in Threads /\ c \notin TaskConsumers /\ c # Producer
      /\ pc \in [Threads -> Steps] /\ allocated \in [Jobs -> 0..Tensors]
  BY DEF RestTypeOK, JobInv, JobTypeOK
<1>1. PICK j : j = cur[c]
  OBVIOUS
<1>2. /\ pc[c] = "await" /\ Kind[j] = "build" /\ WaitReturns(c)
      /\ UNCHANGED <<clientVars, producerVars, cur, to, replied, taskVars>>
  BY <1>1 DEF AwaitTensor
<1> USE <1>2 DEF clientVars, producerVars, taskVars
<1>3. /\ \A u \in Threads : u # c => event'[u] = event[u] /\ wait'[u] = wait[u]
      /\ event'[c] = {} /\ wait'[c] = "out" /\ flag' = flag
      /\ ContextTypes'
      /\ event[c] = {"Wakeup"} /\ ~flag[c]
  BY <1>0, ReturnsFrame, ReturnsSignalled
<1>4. /\ j \in Jobs /\ pusher[j] # "idle" /\ j \notin ToSet(jobQueue)
      /\ \A d \in JobConsumers : AtTasks(d) => cur[d] \in Jobs /\ (d # c => cur[d] # j)
  <2>1. \A d \in JobConsumers : AtTasks(d) =>
           /\ cur[d] \in Jobs /\ pusher[cur[d]] # "idle" /\ cur[d] \notin ToSet(jobQueue)
           /\ \A e \in JobConsumers : cur[e] = cur[d] => e = d
    BY JobOfOne DEF AtTasks, Jobless
  <2>2. AtTasks(c)
    BY DEF AtTasks
  <2>3. QED BY <1>1, <2>1, <2>2
<1>5. BuildOf(c)
  BY <1>1 DEF WorkInv, AtTasks, JobOf
<1>6. /\ AtWork(j) = {} /\ j \in tensorDone /\ allocated[j] < Tensors
      /\ \A t \in TaskConsumers : ~Notifies(t, j)
  BY <1>0, <1>1, <1>3, <1>5, NotifiesAtWork DEF BuildOf
<1>7. PICK next \in {"give", "reply"} :
         /\ pc' = [pc EXCEPT ![c] = next]
         /\ allocated' = [allocated EXCEPT ![j] = @ + 1]
         /\ next = "give" => allocated[j] + 1 < Tensors
  BY <1>1, <1>6 DEF AwaitTensor, Goto
<1>8. /\ allocated' \in [Jobs -> 0..Tensors] /\ allocated'[j] = allocated[j] + 1
      /\ \A i \in Jobs : i # j => allocated'[i] = allocated[i]
  <2>1. allocated[j] + 1 \in 0..Tensors
    BY <1>0, <1>4, <1>6, Layout
  <2>2. QED BY <1>0, <1>4, <1>7, <2>1
<1>9. /\ \A d \in JobConsumers : d # c => pc'[d] = pc[d]
      /\ pc'[c] = next
      /\ \A u \in TaskConsumers : pc'[u] = pc[u]
      /\ pc'[Producer] = pc[Producer]
  BY <1>0, <1>7
<1>10. /\ \A i : AtWork(i)' = AtWork(i)
       /\ \A i : \A u \in TaskConsumers : Notifies(u, i)' <=> Notifies(u, i)
  BY <1>9 DEF HeldBy, AtWork, Notifies, CurTask
<1>11. AtTasks(c)' => JobOf(c)'
  <2>1. SUFFICES ASSUME pc'[c] = "give" PROVE JobOf(c)'
    BY <1>9 DEF AtTasks
  <2>2. next = "give"
    BY <1>9, <2>1
  <2>3. BuildOf(c)'
    BY <1>1, <1>3, <1>6, <1>7, <1>8, <1>10, <2>2 DEF BuildOf
  <2>4. QED BY <1>1, <2>3 DEF JobOf
<1>12. WorkInv'
  <2>1. \A d \in JobConsumers : d # c =>
           /\ pc'[d] = pc[d] /\ event'[d] = event[d]
           /\ cur'[d] = cur[d] /\ to'[d] = to[d]
           /\ AtTasks(d) => cur[d] \in Jobs /\ cur[d] # j
    BY <1>3, <1>4, <1>9
  <2>2. \A i \in Jobs : i # j =>
           /\ allocated'[i] = allocated[i] /\ doneCount'[i] = doneCount[i]
           /\ AtWork(i)' = AtWork(i)
           /\ i \in tensorDone => i \in tensorDone'
           /\ \A u \in TaskConsumers : Notifies(u, i)' <=> Notifies(u, i)
    BY <1>8, <1>10
  <2>3. QED BY <1>11, <2>1, <2>2, OthersFrame
<1>13. TaskInv'
  BY <1>0, <1>1, <1>6, <1>9, HeldFrame DEF AtTasks
<1>14. SignalInv'
  BY <1>3, <1>9 DEF SignalInv
<1>15. ReadyOnce'
  <2>1. \A d \in JobConsumers : pc[d] = "wait" /\ event[d] = {} =>
              pc'[d] = "wait" /\ event'[d] = {}
    BY <1>3, <1>9
  <2>2. QED BY <2>1, OfferFrame
<1>16. CountInv'
  <2>1. RunReplyMeansDone'
    BY DEF CountInv, RunReplyMeansDone
  <2>2. \A d \in JobConsumers :
           pc'[d] \in {"reply", "insert"} /\ Kind[cur'[d]] = "run" => d # c
    BY <1>1
  <2>3. \A i \in Jobs : pusher[i] = "idle" \/ i \in ToSet(jobQueue) => i # j
    BY <1>4
  <2>4. QED BY <1>8, <1>9, <2>1, <2>2, <2>3 DEF CountInv
<1>17. RestTypeOK'
  BY <1>3, <1>8 DEF RestTypeOK, TaskTypes
<1>18. PlaceInv'
  BY <1>7, <1>9 DEF PlaceInv
<1>19. QED BY <1>12, <1>13, <1>14, <1>15, <1>16, <1>17, <1>18

(* All tasks of the run are done.                                          *)
LEMMA RunQuiet ==
    ASSUME Quiet, QuietInv, NEW c \in JobConsumers, AwaitRun(c) PROVE RestInv'
<1> USE ThreadIDs DEF QuietInv, RestInv
<1>0. /\ ContextTypes /\ TaskTypes /\ c \in Threads /\ c \notin TaskConsumers /\ c # Producer
      /\ pc \in [Threads -> Steps]
  BY DEF RestTypeOK, JobInv, JobTypeOK
<1>1. PICK j : j = cur[c]
  OBVIOUS
<1>2. /\ pc[c] = "await" /\ Kind[j] = "run" /\ WaitReturns(c)
      /\ pc' = [pc EXCEPT ![c] = "reply"] /\ UNCHANGED <<halting, workVars>>
  BY <1>1 DEF AwaitRun, Goto
<1> USE <1>2 DEF workVars, clientVars, jobVars, taskVars
<1>3. /\ \A u \in Threads : u # c => event'[u] = event[u] /\ wait'[u] = wait[u]
      /\ event'[c] = {} /\ wait'[c] = "out" /\ flag' = flag
      /\ ContextTypes'
      /\ event[c] = {"Wakeup"} /\ ~flag[c]
  BY <1>0, ReturnsFrame, ReturnsSignalled
<1>4. RunOf(c)
  BY <1>1 DEF WorkInv, AtTasks, JobOf
<1>5. AtWork(j) = {} /\ doneCount[j] = DopCount
  BY <1>1, <1>3, <1>4 DEF RunOf
<1>6. /\ \A d \in JobConsumers : d # c => pc'[d] = pc[d]
      /\ pc'[c] = "reply"
      /\ \A u \in TaskConsumers : pc'[u] = pc[u]
      /\ pc'[Producer] = pc[Producer]
  BY <1>0
<1>7. WorkInv'
  <2>1. /\ \A i : AtWork(i)' = AtWork(i)
        /\ \A i : \A u \in TaskConsumers : Notifies(u, i)' <=> Notifies(u, i)
    BY <1>6 DEF HeldBy, AtWork, Notifies, CurTask
  <2>2. ASSUME NEW d \in JobConsumers, AtTasks(d)' PROVE JobOf(d)'
    <3>1. PICK i : i = cur[d]
      OBVIOUS
    <3>2. /\ d # c /\ pc'[d] = pc[d] /\ event'[d] = event[d] /\ AtTasks(d)
      BY <1>3, <1>6, <2>2 DEF AtTasks
    <3>3. QED BY <2>1, <3>1, <3>2, JobFrame
  <2>3. QED BY <2>2 DEF WorkInv
<1>8. TaskInv'
  BY <1>0, <1>1, <1>5, <1>6, HeldFrame DEF AtTasks
<1>9. SignalInv'
  BY <1>3, <1>6 DEF SignalInv
<1>10. ReadyOnce'
  <2>1. \A d \in JobConsumers : pc[d] = "wait" /\ event[d] = {} =>
              pc'[d] = "wait" /\ event'[d] = {}
    BY <1>3, <1>6
  <2>2. QED BY <2>1, OfferFrame
<1>11. CountInv'
  <2>1. RunReplyMeansDone'
    BY DEF CountInv, RunReplyMeansDone
  <2>2. \A d \in JobConsumers : d # c => pc'[d] = pc[d]
    BY <1>6
  <2>3. QED BY <1>1, <1>5, <2>1, <2>2 DEF CountInv
<1>12. RestTypeOK' /\ PlaceInv'
  BY <1>3, <1>6 DEF RestTypeOK, TaskTypes, PlaceInv
<1>13. QED BY <1>7, <1>8, <1>9, <1>10, <1>11, <1>12

LEMMA PublishQuiet ==
    ASSUME Quiet, QuietInv, NEW c \in JobConsumers, PublishReply(c) PROVE RestInv'
<1> USE ThreadIDs DEF QuietInv, RestInv
<1>0. /\ ContextTypes /\ TaskTypes /\ c \in Threads /\ c \notin TaskConsumers /\ c # Producer
      /\ pc \in [Threads -> Steps]
  BY DEF RestTypeOK, JobInv, JobTypeOK
<1>1. /\ pc[c] = "reply" /\ replied' = replied \cup {cur[c]}
      /\ pc' = [pc EXCEPT ![c] = "insert"]
      /\ UNCHANGED <<contextVars, clientVars, producerVars, cur, to, allocated, taskVars>>
  BY DEF PublishReply, Goto
<1> USE <1>1 DEF contextVars, clientVars, producerVars, taskVars
<1>2. /\ \A d \in JobConsumers : d # c => pc'[d] = pc[d]
      /\ pc'[c] = "insert"
      /\ \A u \in TaskConsumers : pc'[u] = pc[u]
      /\ pc'[Producer] = pc[Producer]
  BY <1>0
<1>3. TaskInv' /\ WorkInv'
  BY <1>0, <1>2, TasksFrame DEF AtTasks
<1>4. event[c] = {}
  BY DEF SignalInv
<1>5. SignalInv' /\ ReadyOnce'
  BY <1>2, <1>4, SignalsFrame, OfferFrame
<1>6. CountInv'
  <2>1. Kind[cur[c]] = "run" => doneCount[cur[c]] = DopCount
    BY DEF CountInv
  <2>2. RunReplyMeansDone'
    BY <2>1 DEF CountInv, RunReplyMeansDone
  <2>3. QED BY <1>2, <2>1, <2>2 DEF CountInv
<1>7. RestTypeOK' /\ PlaceInv'
  BY <1>2 DEF RestTypeOK, ContextTypes, TaskTypes, PlaceInv
<1>8. QED BY <1>3, <1>5, <1>6, <1>7

(* A job consumer that is ready again is offered once, and not signalled.  *)
LEMMA InsertQuiet ==
    ASSUME Quiet, QuietInv, NEW c \in JobConsumers, InsertJCReadyQueue(c) PROVE RestInv'
<1> USE ThreadIDs DEF QuietInv, RestInv
<1>0. /\ ContextTypes /\ TaskTypes /\ c \in Threads /\ c \notin TaskConsumers /\ c # Producer
      /\ pc \in [Threads -> Steps] /\ to \in [JobConsumers -> Threads]
      /\ cur \in [JobConsumers -> Jobs \cup {NoJob}]
      /\ jcIDs \in Seq(JobConsumers) /\ jcReadyQueue \in Seq(JobConsumers)
  BY DEF RestTypeOK, JobInv, JobTypeOK
<1>1. Kind[cur[c]] # "halt" /\ pc[c] = "insert"
  BY JobOfOne DEF InsertJCReadyQueue, Jobless
<1>2. /\ jcReadyQueue' = Append(jcReadyQueue, c)
      /\ cur' = [cur EXCEPT ![c] = NoJob] /\ to' = [to EXCEPT ![c] = Producer]
      /\ pc' = [pc EXCEPT ![c] = "wait"]
      /\ UNCHANGED <<contextVars, clientVars, halting, count, jcIDs, allocated,
                     replied, taskVars>>
  BY <1>1 DEF InsertJCReadyQueue, Goto
<1> USE <1>2 DEF contextVars, clientVars, taskVars
<1>3. /\ \A d \in JobConsumers : d # c =>
            pc'[d] = pc[d] /\ cur'[d] = cur[d] /\ to'[d] = to[d]
      /\ pc'[c] = "wait"
      /\ \A u \in TaskConsumers : pc'[u] = pc[u]
      /\ pc'[Producer] = pc[Producer]
      /\ to' \in [JobConsumers -> Threads]
  <2>1. \A d \in JobConsumers : d # c =>
            pc'[d] = pc[d] /\ cur'[d] = cur[d] /\ to'[d] = to[d]
    BY <1>0
  <2>2. pc'[c] = "wait" /\ pc'[Producer] = pc[Producer] /\ \A u \in TaskConsumers : pc'[u] = pc[u]
    BY <1>0
  <2>3. to' \in [JobConsumers -> Threads]
    BY <1>0
  <2>4. QED BY <2>1, <2>2, <2>3
<1>4. TaskInv' /\ WorkInv'
  BY <1>0, <1>1, <1>3, TasksFrame DEF AtTasks
<1>5. event[c] = {}
  BY <1>1 DEF SignalInv
<1>6. SignalInv'
  BY <1>3, <1>5, SignalsFrame
<1>7. jcReadyQueue' \in Seq(JobConsumers) /\ ReadyOnce'
  <2>1. PICK l : l = jcIDs \o jcReadyQueue
    OBVIOUS
  <2>2. l \in Seq(JobConsumers) /\ ToSet(l) \subseteq JobConsumers
    BY <2>1, OfferedAre
  <2>3. IsInjective(l) /\ \A d \in ToSet(l) : pc[d] = "wait" /\ event[d] = {}
    BY <2>1 DEF ReadyOnce
  <2>4. c \notin ToSet(l)
    BY <1>1, <2>3
  <2>5. /\ IsInjective(Append(l, c)) /\ ToSet(Append(l, c)) = ToSet(l) \cup {c}
    BY <2>2, <2>3, <2>4, PushProperties
  <2>6. jcIDs' \o jcReadyQueue' = Append(l, c)
    BY <1>0, <2>1, PushOfJoin
  <2>7. \A d \in ToSet(Append(l, c)) : pc'[d] = "wait" /\ event'[d] = {}
    BY <1>3, <1>5, <2>2, <2>3, <2>5
  <2>8. jcReadyQueue' \in Seq(JobConsumers)
    BY <1>0
  <2>9. QED BY <2>5, <2>6, <2>7, <2>8 DEF ReadyOnce
<1>8. CountInv'
  <2>1. RunReplyMeansDone'
    BY DEF CountInv, RunReplyMeansDone
  <2>2. QED BY <1>3, <2>1 DEF CountInv
<1>9. RestTypeOK' /\ PlaceInv'
  BY <1>3, <1>7 DEF RestTypeOK, ContextTypes, TaskTypes, PlaceInv
<1>10. QED BY <1>4, <1>6, <1>7, <1>8, <1>9

(* No thread is halted.                                                    *)
LEMMA JobConsumerQuiet ==
    ASSUME Quiet, QuietInv, NEW c \in JobConsumers, JobConsumerThread(c) PROVE RestInv'
<1> USE ThreadIDs DEF QuietInv, RestInv
<1>1. ~JobConsumerHalt(c)
  <2>1. SUFFICES ASSUME WaitReturns(c), Returned(c) = {"Halt"} PROVE FALSE
    BY DEF JobConsumerHalt
  <2>2. Returned(c) = {"Wakeup"}
    BY <2>1, ReturnsSignalled DEF RestTypeOK
  <2>3. QED BY <2>1, <2>2
<1>2. ~HaltThread(c)
  <2>1. pc[c] = "halt" => Kind[cur[c]] # "halt"
    BY JobOfOne DEF Jobless
  <2>2. QED BY <2>1 DEF HaltThread, JobInv, StepInv
<1>3. QED BY <1>1, <1>2, PopQuiet, GiveQuiet, WakeQuiet, TensorQuiet, RunQuiet,
             PublishQuiet, InsertQuiet DEF JobConsumerThread

-----------------------------------------------------------------------------
(* taskConsumerThread                                                      *)

(* The task x a consumer t is at, its job j, and its requester d.          *)
LEMMA TaskAtHand ==
    ASSUME Quiet, QuietInv, NEW t \in TaskConsumers, todo[t] # <<>>,
           NEW x, x = CurTask(t), NEW j, j = x.job, NEW d, d = x.requestThreadID
    PROVE  /\ x \in HeldBy(t) /\ t \in AtWork(j) /\ x \in Tasks
           /\ j \in Jobs /\ d \in JobConsumers /\ AtTasks(d) /\ cur[d] = j
           /\ JobOf(d) /\ event[d] = {}
           /\ pusher[j] # "idle" /\ j \notin ToSet(jobQueue)
           /\ \A c \in JobConsumers : c # d => cur[c] # j
           /\ \A c \in JobConsumers : AtTasks(c) => cur[c] \in Jobs
<1> USE DEF QuietInv, RestInv
<1>0. TaskTypes
  BY DEF RestTypeOK
<1>1. x \in HeldBy(t) /\ t \in AtWork(j)
  BY <1>0, CurTaskHeld DEF AtWork
<1>2. x \in Tasks /\ j \in Jobs /\ d \in JobConsumers /\ AtTasks(d) /\ cur[d] = j
  BY <1>0, <1>1, HeldAre
<1>3. /\ pusher[j] # "idle" /\ j \notin ToSet(jobQueue)
      /\ \A c \in JobConsumers : c # d => cur[c] # j
  BY <1>2, JobOfOne DEF AtTasks, Jobless
<1>4. \A c \in JobConsumers : AtTasks(c) => cur[c] \in Jobs
  BY JobOfOne DEF AtTasks, Jobless
<1>5. JobOf(d)
  BY <1>2 DEF WorkInv
<1>6. event[d] = {}
  BY <1>1, <1>2, <1>5 DEF JobOf, BuildOf, RunOf
<1>7. QED BY <1>1, <1>2, <1>3, <1>4, <1>5, <1>6

(* With its task of a job done, a consumer is no longer at work on it.     *)
LEMMA TaskDone ==
    ASSUME Quiet, QuietInv, NEW t \in TaskConsumers, todo[t] # <<>>,
           NEW x, x = CurTask(t), NEW j, j = x.job,
           todo' = [todo EXCEPT ![t] = Tail(@)], UNCHANGED <<tasks, remain>>
    PROVE  /\ \A u \in TaskConsumers : HeldBy(u)' \subseteq HeldBy(u) /\ HeldOnce(u)'
           /\ AtWork(j)' = AtWork(j) \ {t}
           /\ \A i : i # j => AtWork(i)' = AtWork(i)
           /\ \A u \in TaskConsumers : u # t => todo'[u] = todo[u]
           /\ TaskTypes'
<1> USE DEF QuietInv, RestInv
<1>0. TaskTypes /\ todo[t] \in Seq(Tasks) /\ HeldOnce(t)
  BY DEF RestTypeOK, TaskTypes, TaskInv
<1>1. PICK l : l = todo[t]
  OBVIOUS
<1>2. /\ Tail(l) \in Seq(Tasks) /\ ToSet(l) = {x} \cup ToSet(Tail(l))
      /\ x \notin ToSet(Tail(l)) /\ IsInjective(Tail(l))
  <2>1. l \in Seq(Tasks) /\ l # <<>> /\ IsInjective(l) /\ x = Head(l)
    BY <1>0, <1>1 DEF HeldOnce, CurTask
  <2>2. QED BY <2>1, PopProperties
<1>3. /\ todo'[t] = Tail(l) /\ \A u \in TaskConsumers : u # t => todo'[u] = todo[u]
      /\ todo' \in [TaskConsumers -> Seq(Tasks)]
  BY <1>0, <1>1, <1>2 DEF TaskTypes
<1>4. HeldBy(t)' = HeldBy(t) \ {x} /\ HeldOnce(t)'
  <2>1. HeldBy(t) = ToSet(tasks[t]) \cup ToSet(l) \cup ToSet(remain[t])
    BY <1>1 DEF HeldBy
  <2>2. HeldBy(t)' = ToSet(tasks[t]) \cup ToSet(Tail(l)) \cup ToSet(remain[t])
    BY <1>3 DEF HeldBy
  <2>3. x \notin ToSet(tasks[t]) /\ x \notin ToSet(remain[t])
    BY <1>0, <1>1, <1>2 DEF HeldOnce
  <2>4. HeldOnce(t)'
    BY <1>0, <1>1, <1>2, <1>3 DEF HeldOnce
  <2>5. QED BY <1>2, <2>1, <2>2, <2>3, <2>4
<1>5. \A u \in TaskConsumers : u # t => HeldBy(u)' = HeldBy(u) /\ HeldOnce(u)'
  <2>1. ASSUME NEW u \in TaskConsumers, u # t PROVE HeldBy(u)' = HeldBy(u) /\ HeldOnce(u)'
    <3>1. HeldOnce(u) /\ todo'[u] = todo[u]
      BY <1>3, <2>1 DEF TaskInv
    <3>2. QED BY <3>1 DEF HeldBy, HeldOnce
  <2>2. QED BY <2>1
<1>6. \A y \in HeldBy(t) : y.job = j <=> y = x
  <2>1. x \in HeldBy(t)
    BY <1>0, CurTaskHeld
  <2>2. QED BY <1>0, <2>1, HeldAlike
<1>7. AtWork(j)' = AtWork(j) \ {t}
  <2>1. ASSUME NEW u \in TaskConsumers
        PROVE  (\E y \in HeldBy(u)' : y.job = j) <=> (u # t /\ \E y \in HeldBy(u) : y.job = j)
    BY <1>4, <1>5, <1>6
  <2>2. QED BY <2>1 DEF AtWork
<1>8. \A i : i # j => AtWork(i)' = AtWork(i)
  <2>1. ASSUME NEW i, i # j, NEW u \in TaskConsumers
        PROVE  (\E y \in HeldBy(u)' : y.job = i) <=> (\E y \in HeldBy(u) : y.job = i)
    BY <1>4, <1>5, <2>1
  <2>2. QED BY <2>1 DEF AtWork
<1>9. TaskTypes'
  BY <1>0, <1>3 DEF TaskTypes
<1>10. QED BY <1>3, <1>4, <1>5, <1>7, <1>8, <1>9

(* The tasks stay with their consumer, the jobs with theirs.               *)
LEMMA SameTasks ==
    ASSUME TaskTypes, TaskInv, WorkInv,
           \A u \in TaskConsumers : HeldBy(u)' = HeldBy(u) /\ HeldOnce(u)',
           \A j : \A u \in TaskConsumers : Notifies(u, j)' <=> Notifies(u, j),
           \A c \in JobConsumers : pc'[c] = pc[c] /\ event'[c] = event[c],
           UNCHANGED <<cur, to, allocated, doneCount, tensorDone>>
    PROVE  TaskInv' /\ WorkInv'
<1>1. \A j : AtWork(j)' = AtWork(j)
  BY DEF AtWork
<1>2. TaskInv'
  <2>1. ASSUME NEW u \in TaskConsumers, NEW x \in HeldBy(u) PROVE Awaited(x)'
    BY HeldAre DEF Awaited, AtTasks
  <2>2. QED BY <2>1 DEF TaskInv
<1>3. WorkInv'
  <2>1. ASSUME NEW d \in JobConsumers, AtTasks(d)' PROVE JobOf(d)'
    <3>1. PICK j : j = cur[d]
      OBVIOUS
    <3>2. AtTasks(d) /\ pc'[d] = pc[d] /\ event'[d] = event[d]
      BY <2>1 DEF AtTasks
    <3>3. QED BY <1>1, <3>1, <3>2, JobFrame
  <2>2. QED BY <2>1 DEF WorkInv
<1>4. QED BY <1>2, <1>3

(* A step of task consumer t that signals no job consumer.                 *)
LEMMA TaskConsumerFrame ==
    ASSUME QuietInv, NEW t \in TaskConsumers, NEW next \in {"wait", "task", "notify"},
           pc' = [pc EXCEPT ![t] = next],
           next = "wait" => todo'[t] = <<>>, next = "notify" => todo'[t] # <<>>,
           \A u \in TaskConsumers : u # t => todo'[u] = todo[u],
           \A c \in JobConsumers :
              flag'[c] = flag[c] /\ event'[c] = event[c] /\ wait'[c] = wait[c],
           UNCHANGED <<clientVars, producerVars, jobVars>>
    PROVE  /\ \A c \in JobConsumers : pc'[c] = pc[c]
           /\ \A u \in TaskConsumers : u # t => pc'[u] = pc[u]
           /\ pc'[t] = next
           /\ PlaceInv' /\ SignalInv' /\ ReadyOnce'
<1> USE ThreadIDs DEF QuietInv, RestInv, producerVars, jobVars
<1>0. /\ pc \in [Threads -> Steps] /\ t \in Threads /\ t \notin JobConsumers /\ t # Producer
  BY Layout DEF JobInv, JobTypeOK, Producer
<1>1. /\ \A c \in JobConsumers : pc'[c] = pc[c]
      /\ \A u \in TaskConsumers : u # t => pc'[u] = pc[u]
      /\ pc'[t] = next /\ pc'[Producer] = pc[Producer]
  <2>1. \A c \in JobConsumers : pc'[c] = pc[c]
    BY <1>0
  <2>2. \A u \in TaskConsumers : u # t => pc'[u] = pc[u]
    BY <1>0
  <2>3. QED BY <1>0, <2>1, <2>2
<1>2. SignalInv' /\ ReadyOnce'
  BY <1>1, SignalsFrame, OfferFrame
<1>3. PlaceInv'
  <2>1. ASSUME NEW u \in TaskConsumers
        PROVE  /\ pc'[u] \in {"wait", "task", "notify", "ended"}
               /\ pc'[u] = "wait" => todo'[u] = <<>>
               /\ pc'[u] = "notify" => todo'[u] # <<>>
    BY <1>1 DEF PlaceInv
  <2>2. QED BY <1>1, <2>1 DEF PlaceInv
<1>4. QED BY <1>1, <1>2, <1>3

LEMMA TakeQuiet ==
    ASSUME QuietInv, NEW t \in TaskConsumers, TakeTasks(t) PROVE RestInv'
<1> USE ThreadIDs DEF QuietInv, RestInv
<1>0. /\ ContextTypes /\ TaskTypes /\ t \in Threads
      /\ tasks[t] \in Seq(Tasks) /\ remain[t] \in Seq(Tasks) /\ HeldOnce(t)
  BY DEF RestTypeOK, TaskTypes, TaskInv
<1>1. PICK l : l = tasks[t] \o remain[t]
  OBVIOUS
<1>2. /\ pc[t] = "wait" /\ WaitReturns(t)
      /\ todo' = [todo EXCEPT ![t] = l] /\ tasks' = [tasks EXCEPT ![t] = <<>>]
      /\ remain' = [remain EXCEPT ![t] = <<>>]
      /\ UNCHANGED <<clientVars, producerVars, jobVars, tensorDone, passes, doneCount>>
  BY <1>1 DEF TakeTasks
<1> USE <1>2 DEF clientVars, producerVars, jobVars
<1>3. /\ l \in Seq(Tasks) /\ ToSet(l) = ToSet(tasks[t]) \cup ToSet(remain[t]) /\ IsInjective(l)
  <2>1. /\ IsInjective(tasks[t]) /\ IsInjective(remain[t])
        /\ ToSet(tasks[t]) \cap ToSet(remain[t]) = {}
    BY <1>0 DEF HeldOnce
  <2>2. QED BY <1>0, <1>1, <2>1, JoinProperties
<1>4. /\ todo'[t] = l /\ tasks'[t] = <<>> /\ remain'[t] = <<>>
      /\ \A u \in TaskConsumers : u # t =>
            todo'[u] = todo[u] /\ tasks'[u] = tasks[u] /\ remain'[u] = remain[u]
      /\ TaskTypes'
  <2>1. todo \in [TaskConsumers -> Seq(Tasks)] /\ tasks \in [TaskConsumers -> Seq(Tasks)]
        /\ remain \in [TaskConsumers -> Seq(Tasks)] /\ <<>> \in Seq(Tasks)
    BY <1>0 DEF TaskTypes
  <2>2. /\ todo' \in [TaskConsumers -> Seq(Tasks)] /\ todo'[t] = l
        /\ \A u \in TaskConsumers : u # t => todo'[u] = todo[u]
    BY <1>3, <2>1
  <2>3. /\ tasks' \in [TaskConsumers -> Seq(Tasks)] /\ tasks'[t] = <<>>
        /\ \A u \in TaskConsumers : u # t => tasks'[u] = tasks[u]
    BY <2>1
  <2>4. /\ remain' \in [TaskConsumers -> Seq(Tasks)] /\ remain'[t] = <<>>
        /\ \A u \in TaskConsumers : u # t => remain'[u] = remain[u]
    BY <2>1
  <2>5. QED BY <2>2, <2>3, <2>4 DEF TaskTypes
<1>5. PICK next \in {"wait", "task"} :
         pc' = [pc EXCEPT ![t] = next] /\ (next = "wait" => l = <<>>)
  BY <1>4 DEF TakeTasks, Goto
<1>6. /\ \A c \in JobConsumers :
            flag'[c] = flag[c] /\ event'[c] = event[c] /\ wait'[c] = wait[c]
      /\ ContextTypes'
  <2>1. \A c \in JobConsumers : c \in Threads /\ c # t
    OBVIOUS
  <2>2. QED BY <1>0, <2>1, ReturnsFrame
<1>7. /\ \A c \in JobConsumers : pc'[c] = pc[c]
      /\ \A u \in TaskConsumers : u # t => pc'[u] = pc[u]
      /\ pc'[t] = next
      /\ PlaceInv' /\ SignalInv' /\ ReadyOnce'
  BY <1>4, <1>5, <1>6, TaskConsumerFrame
<1>8. ASSUME NEW u \in TaskConsumers PROVE HeldBy(u)' = HeldBy(u) /\ HeldOnce(u)'
  <2>1. CASE u = t
    <3>1. ToSet(<<>>) = {} /\ IsInjective(<<>>)
      BY DEF ToSet, IsInjective
    <3>2. todo[t] = <<>>
      BY DEF PlaceInv
    <3>3. HeldBy(t) = ToSet(tasks[t]) \cup ToSet(remain[t])
      BY <3>1, <3>2 DEF HeldBy
    <3>4. HeldBy(t)' = ToSet(l)
      BY <1>4, <3>1 DEF HeldBy
    <3>5. HeldOnce(t)'
      BY <1>3, <1>4, <3>1 DEF HeldOnce
    <3>6. QED BY <1>3, <2>1, <3>3, <3>4, <3>5
  <2>2. CASE u # t
    <3>1. HeldOnce(u) /\ todo'[u] = todo[u] /\ tasks'[u] = tasks[u] /\ remain'[u] = remain[u]
      BY <1>4, <2>2 DEF TaskInv
    <3>2. QED BY <3>1 DEF HeldBy, HeldOnce
  <2>3. QED BY <2>1, <2>2
<1>9. \A j : \A u \in TaskConsumers : Notifies(u, j)' <=> Notifies(u, j)
  BY <1>4, <1>7 DEF Notifies, CurTask
<1>10. TaskInv' /\ WorkInv'
  BY <1>0, <1>6, <1>7, <1>8, <1>9, SameTasks
<1>11. CountInv'
  BY <1>7, CountFrame
<1>12. RestTypeOK'
  BY <1>4, <1>6 DEF RestTypeOK
<1>13. QED BY <1>7, <1>10, <1>11, <1>12

(* An event that is none: the wait goes on.                                *)
LEMMA SkipsQuiet ==
    ASSUME QuietInv, NEW t \in TaskConsumers, TaskConsumerSkips(t) PROVE RestInv'
<1> USE ThreadIDs DEF QuietInv, RestInv
<1>0. /\ ContextTypes /\ TaskTypes /\ t \in Threads
  BY DEF RestTypeOK
<1>1. /\ pc[t] = "wait" /\ WaitReturns(t) /\ UNCHANGED <<halting, workVars>>
  BY DEF TaskConsumerSkips
<1> USE <1>1 DEF workVars, clientVars, producerVars, jobVars, taskVars
<1>2. pc' = [pc EXCEPT ![t] = "wait"]
  <2>1. event[t] \in SUBSET {"Wakeup"}
    BY <1>0 DEF ContextTypes
  <2>2. Returned(t) \in SUBSET {"Wakeup", "Timeout"}
    BY <2>1 DEF Returned
  <2>3. Returned(t) # {"Halt"}
    BY <2>2
  <2>4. QED BY <2>3 DEF TaskConsumerSkips, Goto
<1>3. /\ \A c \in JobConsumers :
            flag'[c] = flag[c] /\ event'[c] = event[c] /\ wait'[c] = wait[c]
      /\ ContextTypes'
  <2>1. \A c \in JobConsumers : c \in Threads /\ c # t
    OBVIOUS
  <2>2. QED BY <1>0, <2>1, ReturnsFrame
<1>4. todo[t] = <<>>
  BY DEF PlaceInv
<1>5. /\ \A c \in JobConsumers : pc'[c] = pc[c]
      /\ \A u \in TaskConsumers : u # t => pc'[u] = pc[u]
      /\ pc'[t] = "wait"
      /\ PlaceInv' /\ SignalInv' /\ ReadyOnce'
  BY <1>2, <1>3, <1>4, TaskConsumerFrame
<1>6. TaskInv' /\ WorkInv'
  BY <1>0, <1>3, <1>5, TasksFrame DEF AtTasks
<1>7. CountInv' /\ RestTypeOK'
  BY <1>3, <1>5, CountFrame DEF RestTypeOK, TaskTypes
<1>8. QED BY <1>5, <1>6, <1>7

(* The tensor is there before its requester is signalled.                  *)
LEMMA AllocQuiet ==
    ASSUME Quiet, QuietInv, NEW t \in TaskConsumers, AllocTensor(t) PROVE RestInv'
<1> USE ThreadIDs DEF QuietInv, RestInv
<1>0. ContextTypes /\ TaskTypes
  BY DEF RestTypeOK
<1>1. PICK x : x = CurTask(t)
  OBVIOUS
<1>2. PICK j : j = x.job
  OBVIOUS
<1>3. PICK d : d = x.requestThreadID
  OBVIOUS
<1>4. /\ pc[t] = "task" /\ todo[t] # <<>> /\ Kind[j] = "build"
      /\ tensorDone' = tensorDone \cup {j} /\ pc' = [pc EXCEPT ![t] = "notify"]
      /\ UNCHANGED <<contextVars, clientVars, producerVars, jobVars, tasks, todo,
                     remain, passes, doneCount>>
  BY <1>1, <1>2 DEF AllocTensor, AtTask, Goto
<1> USE <1>4 DEF contextVars, clientVars, producerVars, jobVars
<1>5. /\ t \in AtWork(j) /\ j \in Jobs /\ d \in JobConsumers /\ cur[d] = j
      /\ JobOf(d) /\ event[d] = {}
      /\ \A c \in JobConsumers : c # d => cur[c] # j
      /\ \A c \in JobConsumers : AtTasks(c) => cur[c] \in Jobs
  BY <1>1, <1>2, <1>3, TaskAtHand
<1>6. /\ \A c \in JobConsumers : pc'[c] = pc[c]
      /\ \A u \in TaskConsumers : u # t => pc'[u] = pc[u]
      /\ pc'[t] = "notify"
      /\ PlaceInv' /\ SignalInv' /\ ReadyOnce'
  BY TaskConsumerFrame
<1>7. \A u : HeldBy(u)' = HeldBy(u)
  BY DEF HeldBy
<1>8. TaskInv'
  BY <1>0, <1>6, HeldFrame DEF AtTasks
<1>9. /\ \A i : AtWork(i)' = AtWork(i)
      /\ \A i : i # j => \A u \in TaskConsumers : Notifies(u, i)' <=> Notifies(u, i)
  <2>1. \A i : AtWork(i)' = AtWork(i)
    BY <1>7 DEF AtWork
  <2>2. ASSUME NEW i, i # j, NEW u \in TaskConsumers PROVE Notifies(u, i)' <=> Notifies(u, i)
    <3>1. CurTask(u)' = CurTask(u)
      BY DEF CurTask
    <3>2. CASE u = t
      BY <1>1, <1>2, <2>2, <3>1, <3>2 DEF Notifies
    <3>3. CASE u # t
      BY <1>6, <3>1, <3>3 DEF Notifies
    <3>4. QED BY <3>2, <3>3
  <2>3. QED BY <2>1, <2>2
<1>10. JobOf(d)'
  <2>1. BuildOf(d)
    BY <1>5 DEF JobOf
  <2>2. BuildOf(d)'
    BY <1>5, <1>6, <1>9, <2>1 DEF BuildOf
  <2>3. QED BY <1>5, <2>2 DEF JobOf
<1>11. WorkInv'
  <2>1. \A c \in JobConsumers : c # d =>
           /\ pc'[c] = pc[c] /\ event'[c] = event[c]
           /\ cur'[c] = cur[c] /\ to'[c] = to[c]
           /\ AtTasks(c) => cur[c] \in Jobs /\ cur[c] # j
    BY <1>5, <1>6
  <2>2. \A i \in Jobs : i # j =>
           /\ allocated'[i] = allocated[i] /\ doneCount'[i] = doneCount[i]
           /\ AtWork(i)' = AtWork(i)
           /\ i \in tensorDone => i \in tensorDone'
           /\ \A u \in TaskConsumers : Notifies(u, i)' <=> Notifies(u, i)
    BY <1>9
  <2>3. QED BY <1>5, <1>10, <2>1, <2>2, OthersFrame
<1>12. CountInv'
  BY <1>6, CountFrame
<1>13. RestTypeOK'
  <2>1. tensorDone' \in SUBSET Jobs
    BY <1>5 DEF RestTypeOK
  <2>2. QED BY <2>1 DEF RestTypeOK, ContextTypes, TaskTypes
<1>14. QED BY <1>6, <1>8, <1>11, <1>12, <1>13

(* A task that is not finished stays with its consumer.                    *)
LEMMA RemainsQuiet ==
    ASSUME QuietInv, NEW t \in TaskConsumers, RunPlanRemains(t) PROVE RestInv'
<1> USE ThreadIDs DEF QuietInv, RestInv
<1>0. /\ ContextTypes /\ TaskTypes /\ HeldOnce(t)
      /\ todo \in [TaskConsumers -> Seq(Tasks)] /\ remain \in [TaskConsumers -> Seq(Tasks)]
      /\ pc \in [Threads -> Steps] /\ passes \in [Jobs -> 0..MaxPasses]
  BY DEF RestTypeOK, TaskTypes, TaskInv, JobInv, JobTypeOK
<1>1. PICK x : x = CurTask(t)
  OBVIOUS
<1>2. PICK l : l = todo[t]
  OBVIOUS
<1>3. PICK r : r = remain[t]
  OBVIOUS
<1>4. /\ pc[t] = "task" /\ l # <<>> /\ passes[x.job] < MaxPasses
      /\ passes' = [passes EXCEPT ![x.job] = @ + 1]
      /\ remain' = [remain EXCEPT ![t] = Append(r, x)]
      /\ todo' = [todo EXCEPT ![t] = Tail(l)]
      /\ UNCHANGED <<contextVars, pc, clientVars, producerVars, jobVars, tasks,
                     tensorDone, doneCount>>
  BY <1>1, <1>2, <1>3 DEF RunPlanRemains, AtTask
<1> USE <1>4 DEF contextVars, clientVars, producerVars, jobVars
<1>5. /\ x \in Tasks /\ Tail(l) \in Seq(Tasks) /\ ToSet(l) = {x} \cup ToSet(Tail(l))
      /\ x \notin ToSet(Tail(l)) /\ IsInjective(Tail(l))
  <2>1. l \in Seq(Tasks) /\ IsInjective(l) /\ x = Head(l)
    BY <1>0, <1>1, <1>2 DEF HeldOnce, CurTask
  <2>2. QED BY <2>1, PopProperties
<1>6. /\ Append(r, x) \in Seq(Tasks) /\ ToSet(Append(r, x)) = ToSet(r) \cup {x}
      /\ IsInjective(Append(r, x)) /\ x \notin ToSet(tasks[t]) /\ x \notin ToSet(r)
  <2>1. r \in Seq(Tasks) /\ IsInjective(r) /\ x \notin ToSet(r) /\ x \notin ToSet(tasks[t])
    BY <1>0, <1>2, <1>3, <1>5 DEF HeldOnce
  <2>2. QED BY <1>5, <2>1, PushProperties
<1>7. /\ todo'[t] = Tail(l) /\ remain'[t] = Append(r, x)
      /\ \A u \in TaskConsumers : u # t => todo'[u] = todo[u] /\ remain'[u] = remain[u]
      /\ TaskTypes'
  <2>1. /\ todo' \in [TaskConsumers -> Seq(Tasks)] /\ todo'[t] = Tail(l)
        /\ \A u \in TaskConsumers : u # t => todo'[u] = todo[u]
    BY <1>0, <1>5
  <2>2. /\ remain' \in [TaskConsumers -> Seq(Tasks)] /\ remain'[t] = Append(r, x)
        /\ \A u \in TaskConsumers : u # t => remain'[u] = remain[u]
    BY <1>0, <1>6
  <2>3. QED BY <1>0, <2>1, <2>2 DEF TaskTypes
<1>8. ASSUME NEW u \in TaskConsumers PROVE HeldBy(u)' = HeldBy(u) /\ HeldOnce(u)'
  <2>1. CASE u = t
    <3>1. HeldBy(t) = ToSet(tasks[t]) \cup ToSet(l) \cup ToSet(r)
      BY <1>2, <1>3 DEF HeldBy
    <3>2. HeldBy(t)' = ToSet(tasks[t]) \cup ToSet(Tail(l)) \cup ToSet(Append(r, x))
      BY <1>7 DEF HeldBy
    <3>3. HeldOnce(t)'
      BY <1>0, <1>2, <1>3, <1>5, <1>6, <1>7 DEF HeldOnce
    <3>4. QED BY <1>5, <1>6, <2>1, <3>1, <3>2, <3>3
  <2>2. CASE u # t
    <3>1. HeldOnce(u) /\ todo'[u] = todo[u] /\ remain'[u] = remain[u]
      BY <1>7, <2>2 DEF TaskInv
    <3>2. QED BY <3>1 DEF HeldBy, HeldOnce
  <2>3. QED BY <2>1, <2>2
<1>9. \A j : \A u \in TaskConsumers : Notifies(u, j)' <=> Notifies(u, j)
  BY <1>7 DEF Notifies, CurTask
<1>10. TaskInv' /\ WorkInv'
  BY <1>0, <1>8, <1>9, SameTasks
<1>11. SignalInv' /\ ReadyOnce' /\ CountInv'
  BY SignalsFrame, OfferFrame, CountFrame
<1>12. PlaceInv'
  <2>1. \A u \in TaskConsumers : u # t => todo'[u] = todo[u]
    BY <1>7
  <2>2. QED BY <2>1 DEF PlaceInv
<1>13. RestTypeOK'
  <2>1. x.job \in Jobs /\ passes[x.job] \in 0..MaxPasses /\ MaxPasses \in Nat
    BY <1>0, <1>5, WorkerAssumption DEF Tasks
  <2>2. passes' \in [Jobs -> 0..MaxPasses]
    BY <1>0, <2>1
  <2>3. QED BY <1>7, <2>2 DEF RestTypeOK, ContextTypes
<1>14. QED BY <1>10, <1>11, <1>12, <1>13

(* A consumer that wakes itself up wakes nobody else.                      *)
LEMMA LoopQuiet ==
    ASSUME QuietInv, NEW t \in TaskConsumers, TaskConsumerLoop(t) PROVE RestInv'
<1> USE ThreadIDs DEF QuietInv, RestInv
<1>0. /\ ContextTypes /\ TaskTypes /\ t \in Threads
  BY DEF RestTypeOK
<1>1. /\ pc[t] = "task" /\ todo[t] = <<>> /\ pc' = [pc EXCEPT ![t] = "wait"]
      /\ UNCHANGED <<halting, workVars>>
  BY DEF TaskConsumerLoop, Goto
<1> USE <1>1 DEF workVars, clientVars, producerVars, jobVars, taskVars
<1>2. /\ \A c \in JobConsumers :
            flag'[c] = flag[c] /\ event'[c] = event[c] /\ wait'[c] = wait[c]
      /\ ContextTypes'
  <2>1. CASE UNCHANGED contextVars
    BY <1>0, <2>1 DEF contextVars, ContextTypes
  <2>2. CASE Signal(t, "Wakeup")
    <3>1. \A c \in JobConsumers : c \in Threads /\ c # t
      OBVIOUS
    <3>2. QED BY <1>0, <2>2, <3>1, SignalFrame
  <2>3. QED BY <2>1, <2>2 DEF TaskConsumerLoop
<1>3. /\ \A c \in JobConsumers : pc'[c] = pc[c]
      /\ \A u \in TaskConsumers : u # t => pc'[u] = pc[u]
      /\ pc'[t] = "wait"
      /\ PlaceInv' /\ SignalInv' /\ ReadyOnce'
  BY <1>2, TaskConsumerFrame
<1>4. TaskInv' /\ WorkInv'
  BY <1>0, <1>2, <1>3, TasksFrame DEF AtTasks
<1>5. CountInv' /\ RestTypeOK'
  BY <1>2, <1>3, CountFrame DEF RestTypeOK, TaskTypes
<1>6. QED BY <1>3, <1>4, <1>5

(* One more task of the run is done; the last to be done signals.          *)
LEMMA RunPlanQuiet ==
    ASSUME Quiet, QuietInv, NEW t \in TaskConsumers, RunPlan(t) PROVE RestInv'
<1> USE ThreadIDs DEF QuietInv, RestInv
<1>0. /\ ContextTypes /\ TaskTypes /\ doneCount \in [Jobs -> 0..DopCount]
      /\ pc \in [Threads -> Steps] /\ t \in Threads
  BY DEF RestTypeOK, JobInv, JobTypeOK
<1>1. PICK x : x = CurTask(t)
  OBVIOUS
<1>2. PICK j : j = x.job
  OBVIOUS
<1>3. PICK d : d = x.requestThreadID
  OBVIOUS
<1>4. /\ pc[t] = "task" /\ todo[t] # <<>> /\ Kind[j] = "run"
      /\ doneCount' = [doneCount EXCEPT ![j] = @ + 1]
      /\ UNCHANGED <<contextVars, clientVars, producerVars, jobVars, tasks,
                     remain, tensorDone, passes>>
  BY <1>1, <1>2 DEF RunPlan, AtTask
<1> USE <1>4 DEF contextVars, clientVars, producerVars, jobVars
<1>5. /\ t \in AtWork(j) /\ j \in Jobs /\ d \in JobConsumers /\ cur[d] = j
      /\ AtTasks(d) /\ JobOf(d) /\ event[d] = {}
      /\ pusher[j] # "idle" /\ j \notin ToSet(jobQueue)
      /\ \A c \in JobConsumers : c # d => cur[c] # j
      /\ \A c \in JobConsumers : AtTasks(c) => cur[c] \in Jobs
  BY <1>1, <1>2, <1>3, TaskAtHand
<1>6. RunOf(d)
  BY <1>5 DEF JobOf
<1>7. PICK n : n = Cardinality(AtWork(j))
  OBVIOUS
<1>8. /\ \A u \in TaskConsumers : ~Notifies(u, j)
      /\ doneCount[j] + n = Given(d)
      /\ n \in Nat \ {0} /\ Cardinality(AtWork(j) \ {t}) = n - 1
      /\ n = 1 => AtWork(j) = {t}
  <2>1. ASSUME NEW u \in TaskConsumers, Notifies(u, j) PROVE FALSE
    <3>1. u = t
      BY <1>5, <1>6, <2>1 DEF RunOf
    <3>2. QED BY <2>1, <3>1 DEF Notifies
  <2>2. doneCount[j] + n = Given(d)
    BY <1>5, <1>6, <1>7, <2>1 DEF RunOf
  <2>3. AtWork(j) \subseteq TaskConsumers
    BY DEF AtWork
  <2>4. IsFiniteSet(AtWork(j))
    BY <2>3, Layout, FS_Subset
  <2>5. /\ n \in Nat /\ Cardinality(AtWork(j) \ {t}) = n - 1
        /\ IsFiniteSet(AtWork(j) \ {t}) /\ Cardinality(AtWork(j) \ {t}) \in Nat
    BY <1>5, <1>7, <2>4, FS_RemoveElement, FS_CardinalityType
  <2>6. n = 1 => AtWork(j) \ {t} = {}
    BY <2>5, FS_EmptySet
  <2>7. n # 0
    BY <2>5
  <2>8. QED BY <1>5, <2>1, <2>2, <2>5, <2>6, <2>7
<1>9. /\ Given(d) \in Nat /\ Given(d) <= DopCount /\ DopCount \in Nat
      /\ doneCount[j] \in Nat /\ doneCount[j] + 1 <= DopCount
      /\ doneCount[j] + 1 = DopCount => n = 1 /\ Given(d) = DopCount
  <2>1. to[d] \in 1..DopCount /\ DopCount \in Nat
    BY <1>6, Layout DEF RunOf
  <2>2. Given(d) = to[d] - 1 \/ Given(d) = to[d]
    BY DEF Given
  <2>3. Given(d) \in Nat /\ Given(d) <= DopCount
    BY <2>1, <2>2
  <2>4. doneCount[j] \in Nat
    BY <1>0, <1>5, <2>1
  <2>5. QED BY <1>8, <2>1, <2>3, <2>4
<1>10. /\ doneCount'[j] = doneCount[j] + 1 /\ doneCount' \in [Jobs -> 0..DopCount]
       /\ \A i \in Jobs : i # j => doneCount'[i] = doneCount[i]
  <2>1. doneCount[j] + 1 \in 0..DopCount
    BY <1>9
  <2>2. QED BY <1>0, <1>5, <2>1
<1>11. PICK next \in {"task", "notify"} :
         /\ pc' = [pc EXCEPT ![t] = next]
         /\ next = "notify" => doneCount[j] + 1 = DopCount /\ todo' = todo
         /\ next = "task" => doneCount[j] + 1 # DopCount
                             /\ todo' = [todo EXCEPT ![t] = Tail(@)]
  <2>1. CASE doneCount[j] + 1 = DopCount
    BY <1>1, <1>2, <2>1 DEF RunPlan, Goto
  <2>2. CASE doneCount[j] + 1 # DopCount
    <3>1. todo' = [todo EXCEPT ![t] = Tail(@)] /\ pc' = pc
      BY <1>1, <1>2, <2>2 DEF RunPlan
    <3>2. pc' = [pc EXCEPT ![t] = "task"]
      BY <1>0, <3>1
    <3>3. QED BY <2>2, <3>1, <3>2
  <2>3. QED BY <2>1, <2>2
<1>12. /\ \A u \in TaskConsumers : HeldBy(u)' \subseteq HeldBy(u) /\ HeldOnce(u)'
       /\ AtWork(j)' = IF next = "notify" THEN AtWork(j) ELSE AtWork(j) \ {t}
       /\ \A i : i # j => AtWork(i)' = AtWork(i)
       /\ \A u \in TaskConsumers : u # t => todo'[u] = todo[u]
       /\ TaskTypes' /\ (next = "notify" => todo'[t] # <<>>)
  <2>1. CASE next = "notify"
    <3>1. todo' = todo
      BY <1>11, <2>1
    <3>2. \A u : HeldBy(u)' = HeldBy(u)
      BY <3>1 DEF HeldBy
    <3>3. \A i : AtWork(i)' = AtWork(i)
      BY <3>2 DEF AtWork
    <3>4. \A u \in TaskConsumers : HeldOnce(u)'
      BY <3>1 DEF TaskInv, HeldOnce
    <3>5. QED BY <1>0, <2>1, <3>1, <3>2, <3>3, <3>4 DEF TaskTypes
  <2>2. CASE next = "task"
    <3>1. todo' = [todo EXCEPT ![t] = Tail(@)]
      BY <1>11, <2>2
    <3>2. /\ \A u \in TaskConsumers : HeldBy(u)' \subseteq HeldBy(u) /\ HeldOnce(u)'
          /\ AtWork(j)' = AtWork(j) \ {t}
          /\ \A i : i # j => AtWork(i)' = AtWork(i)
          /\ \A u \in TaskConsumers : u # t => todo'[u] = todo[u]
          /\ TaskTypes'
      <4>1. UNCHANGED <<tasks, remain>> /\ todo[t] # <<>>
        OBVIOUS
      <4> HIDE <1>4
      <4>2. QED BY <1>1, <1>2, <3>1, <4>1, TaskDone
    <3>3. QED BY <2>2, <3>2
  <2>3. QED BY <2>1, <2>2
<1>13. /\ \A c \in JobConsumers : pc'[c] = pc[c]
       /\ \A u \in TaskConsumers : u # t => pc'[u] = pc[u]
       /\ pc'[t] = next
       /\ PlaceInv' /\ SignalInv' /\ ReadyOnce'
  BY <1>11, <1>12, TaskConsumerFrame
<1>14. TaskInv'
  <2>1. ASSUME NEW u \in TaskConsumers, NEW y \in HeldBy(u) PROVE Awaited(y)'
    BY <1>0, <1>13, HeldAre DEF Awaited, AtTasks
  <2>2. QED BY <1>12, <2>1 DEF TaskInv
<1>15. /\ \A i : i # j => \A u \in TaskConsumers : Notifies(u, i)' <=> Notifies(u, i)
       /\ \A u \in TaskConsumers : Notifies(u, j)' => u = t /\ next = "notify"
       /\ next = "notify" => Notifies(t, j)'
  <2>1. \A u \in TaskConsumers : u # t => \A i : Notifies(u, i)' <=> Notifies(u, i)
    BY <1>12, <1>13 DEF Notifies, CurTask
  <2>2. \A i : ~Notifies(t, i)
    BY DEF Notifies
  <2>3. \A i : Notifies(t, i)' <=> next = "notify" /\ i = j
    <3>1. next = "notify" => CurTask(t)' = x
      BY <1>1, <1>11 DEF CurTask
    <3>2. QED BY <1>2, <1>13, <3>1 DEF Notifies
  <2>4. QED BY <1>8, <2>1, <2>2, <2>3
<1>16. JobOf(d)'
  <2>1. /\ pc'[d] = pc[d] /\ to'[d] = to[d] /\ cur'[d] = j /\ event'[d] = {}
        /\ Given(d)' = Given(d)
    BY <1>5, <1>13 DEF Given
  <2>2. CASE next = "notify"
    <3>1. AtWork(j)' = {t} /\ doneCount'[j] = DopCount /\ Given(d)' = DopCount
      BY <1>8, <1>9, <1>10, <1>11, <1>12, <2>1, <2>2
    <3>2. AtWork(j)' = AtWork(j)
      BY <1>12, <2>2
    <3>3. RunOf(d)'
      BY <1>5, <1>6, <1>15, <2>1, <2>2, <3>1, <3>2 DEF RunOf
    <3>4. QED BY <2>1, <3>3 DEF JobOf
  <2>3. CASE next = "task"
    <3>1. AtWork(j)' = AtWork(j) \ {t}
      BY <1>12, <2>3
    <3>2. doneCount'[j] + Cardinality(AtWork(j)') = Given(d)
      BY <1>8, <1>9, <1>10, <3>1
    <3>3. RunOf(d)'
      BY <1>5, <1>6, <1>15, <2>1, <2>3, <3>1, <3>2 DEF RunOf
    <3>4. QED BY <2>1, <3>3 DEF JobOf
  <2>4. QED BY <2>2, <2>3
<1>17. WorkInv'
  <2>1. \A c \in JobConsumers : c # d =>
           /\ pc'[c] = pc[c] /\ event'[c] = event[c]
           /\ cur'[c] = cur[c] /\ to'[c] = to[c]
           /\ AtTasks(c) => cur[c] \in Jobs /\ cur[c] # j
    BY <1>5, <1>13
  <2>2. \A i \in Jobs : i # j =>
           /\ allocated'[i] = allocated[i] /\ doneCount'[i] = doneCount[i]
           /\ AtWork(i)' = AtWork(i)
           /\ i \in tensorDone => i \in tensorDone'
           /\ \A u \in TaskConsumers : Notifies(u, i)' <=> Notifies(u, i)
    BY <1>10, <1>12, <1>15
  <2>3. WorkInv /\ d \in JobConsumers
    BY <1>5
  <2> HIDE <1>4
  <2>4. QED BY <1>16, <2>1, <2>2, <2>3, OthersFrame
<1>18. CountInv'
  <2>1. j \notin replied
    BY <1>8, <1>9, <1>10 DEF CountInv, RunReplyMeansDone
  <2>2. RunReplyMeansDone'
    <3>1. replied \subseteq Jobs
      BY DEF JobInv, JobTypeOK
    <3>2. QED BY <1>10, <2>1, <3>1 DEF CountInv, RunReplyMeansDone
  <2>3. \A i \in Jobs : pusher[i] = "idle" \/ i \in ToSet(jobQueue) => i # j
    BY <1>5
  <2>4. ASSUME NEW c \in JobConsumers, pc[c] \in {"reply", "insert"}
        PROVE  cur[c] \in Jobs /\ cur[c] # j
    <3>1. c # d
      BY <1>5, <2>4 DEF AtTasks
    <3>2. QED BY <1>5, <2>4, <3>1, JobOfOne DEF Jobless
  <2>5. QED BY <1>10, <1>13, <2>2, <2>3, <2>4 DEF CountInv
<1>19. RestTypeOK'
  BY <1>10, <1>12 DEF RestTypeOK, ContextTypes
<1>20. QED BY <1>13, <1>14, <1>17, <1>18, <1>19

(* The one signal that ends the wait of a requester.                       *)
LEMMA RequesterQuiet ==
    ASSUME Quiet, QuietInv, NEW t \in TaskConsumers, SignalRequester(t) PROVE RestInv'
<1> USE ThreadIDs DEF QuietInv, RestInv
<1>0. /\ ContextTypes /\ TaskTypes
      /\ pc \in [Threads -> Steps] /\ t \in Threads /\ t \notin JobConsumers /\ t # Producer
  BY Layout DEF RestTypeOK, JobInv, JobTypeOK, Producer
<1>1. PICK x : x = CurTask(t)
  OBVIOUS
<1>2. PICK j : j = x.job
  OBVIOUS
<1>3. PICK d : d = x.requestThreadID
  OBVIOUS
<1>4. /\ pc[t] = "notify" /\ Signal(d, "Wakeup")
      /\ todo' = [todo EXCEPT ![t] = Tail(@)] /\ pc' = [pc EXCEPT ![t] = "task"]
      /\ UNCHANGED <<clientVars, producerVars, jobVars, tasks, remain,
                     tensorDone, passes, doneCount>>
  BY <1>1, <1>3 DEF SignalRequester, Goto
<1>5. todo[t] # <<>>
  BY <1>4 DEF PlaceInv
<1>6. /\ t \in AtWork(j) /\ j \in Jobs /\ d \in JobConsumers /\ cur[d] = j
      /\ AtTasks(d) /\ JobOf(d) /\ event[d] = {}
      /\ \A c \in JobConsumers : c # d => cur[c] # j
      /\ \A c \in JobConsumers : AtTasks(c) => cur[c] \in Jobs
  BY <1>1, <1>2, <1>3, <1>5, TaskAtHand
<1>7. /\ \A u \in TaskConsumers : HeldBy(u)' \subseteq HeldBy(u) /\ HeldOnce(u)'
      /\ AtWork(j)' = AtWork(j) \ {t}
      /\ \A i : i # j => AtWork(i)' = AtWork(i)
      /\ \A u \in TaskConsumers : u # t => todo'[u] = todo[u]
      /\ TaskTypes'
  BY <1>1, <1>2, <1>4, <1>5, TaskDone
<1>8. Notifies(t, j)
  BY <1>1, <1>2, <1>4 DEF Notifies
<1>9. /\ AtWork(j) = {t} /\ AtWork(j)' = {} /\ pc[d] # "give"
  <2>1. CASE BuildOf(d)
    BY <1>6, <1>7, <2>1 DEF BuildOf
  <2>2. CASE RunOf(d)
    <3>1. AtWork(j) = {t} /\ Given(d) = DopCount
      BY <1>6, <1>8, <2>2 DEF RunOf
    <3>2. to[d] \in 1..DopCount /\ DopCount \in Nat
      BY <2>2, Layout DEF RunOf
    <3>3. pc[d] # "give"
      BY <3>1, <3>2 DEF Given
    <3>4. QED BY <1>7, <3>1, <3>3
  <2>3. QED BY <1>6, <2>1, <2>2 DEF JobOf
<1>10. /\ \A u \in Threads : u # d =>
             flag'[u] = flag[u] /\ event'[u] = event[u] /\ wait'[u] = wait[u]
       /\ event'[d] = {"Wakeup"} /\ ContextTypes'
       /\ flag'[d] => wait[d] \in {"out", "exchange"}
       /\ wait'[d] = IF wait[d] = "blocked" THEN "notified" ELSE wait[d]
  BY <1>0, <1>4, <1>6, SignalFrame
<1>11. /\ \A c \in JobConsumers : pc'[c] = pc[c]
       /\ \A u \in TaskConsumers : u # t => pc'[u] = pc[u]
       /\ pc'[t] = "task" /\ pc'[Producer] = pc[Producer]
  <2>1. \A c \in JobConsumers : pc'[c] = pc[c]
    BY <1>0, <1>4
  <2>2. \A u \in TaskConsumers : u # t => pc'[u] = pc[u]
    BY <1>0, <1>4
  <2>3. QED BY <1>0, <1>4, <2>1, <2>2
<1>12. SignalInv'
  <2>1. pc[d] \in {"wait", "wake", "await"} /\ ~flag[d] /\ wait[d] \notin {"exchange", "notified"}
    BY <1>6, <1>9 DEF AtTasks, SignalInv
  <2>2. QED BY <1>6, <1>10, <1>11, <2>1 DEF SignalInv
<1>13. ReadyOnce'
  <2>1. \A c \in JobConsumers : pc[c] = "wait" /\ event[c] = {} =>
              pc'[c] = "wait" /\ event'[c] = {}
    BY <1>6, <1>10, <1>11 DEF AtTasks
  <2>2. QED BY <1>4, <2>1, OfferFrame DEF producerVars
<1>14. TaskInv'
  <2>1. ASSUME NEW u \in TaskConsumers, NEW y \in HeldBy(u) PROVE Awaited(y)'
    BY <1>0, <1>4, <1>11, HeldAre DEF Awaited, AtTasks, jobVars
  <2>2. QED BY <1>7, <2>1 DEF TaskInv
<1>15. \A u \in TaskConsumers : \A i :
          /\ i # j => (Notifies(u, i)' <=> Notifies(u, i))
          /\ ~Notifies(u, j)'
  <2>1. \A i : ~Notifies(t, i)' /\ (i # j => ~Notifies(t, i))
    BY <1>1, <1>2, <1>11 DEF Notifies
  <2>2. \A u \in TaskConsumers : u # t => \A i : Notifies(u, i)' <=> Notifies(u, i)
    BY <1>7, <1>11 DEF Notifies, CurTask
  <2>3. \A u \in TaskConsumers : u # t => ~Notifies(u, j)
    BY <1>0, <1>9, NotifiesAtWork
  <2>4. QED BY <2>1, <2>2, <2>3
<1>16. JobOf(d)'
  <2>1. /\ pc'[d] = pc[d] /\ to'[d] = to[d] /\ cur'[d] = j /\ Given(d)' = Given(d)
        /\ allocated' = allocated
    BY <1>4, <1>6, <1>11 DEF Given, jobVars
  <2>2. CASE Kind[j] = "build" /\ BuildOf(d)
    <3>1. j \in tensorDone /\ tensorDone' = tensorDone
      BY <1>4, <1>6, <1>8, <2>2 DEF BuildOf
    <3>2. BuildOf(d)'
      BY <1>6, <1>9, <1>15, <2>1, <2>2, <3>1 DEF BuildOf
    <3>3. QED BY <2>1, <2>2, <3>2 DEF JobOf
  <2>3. CASE Kind[j] = "run" /\ RunOf(d)
    <3>1. doneCount[j] = DopCount /\ Given(d) = DopCount /\ doneCount' = doneCount
      BY <1>4, <1>6, <1>8, <2>3 DEF RunOf
    <3>2. doneCount[j] + Cardinality({}) = Given(d)
      BY <3>1, Layout, FS_EmptySet
    <3>3. RunOf(d)'
      BY <1>6, <1>9, <1>15, <2>1, <2>3, <3>1, <3>2 DEF RunOf
    <3>4. QED BY <2>1, <2>3, <3>3 DEF JobOf
  <2>4. QED BY <1>6, <2>2, <2>3 DEF JobOf
<1>17. WorkInv'
  <2>1. \A c \in JobConsumers : c # d =>
           /\ pc'[c] = pc[c] /\ event'[c] = event[c]
           /\ cur'[c] = cur[c] /\ to'[c] = to[c]
           /\ AtTasks(c) => cur[c] \in Jobs /\ cur[c] # j
    BY <1>4, <1>6, <1>10, <1>11 DEF jobVars
  <2>2. \A i \in Jobs : i # j =>
           /\ allocated'[i] = allocated[i] /\ doneCount'[i] = doneCount[i]
           /\ AtWork(i)' = AtWork(i)
           /\ i \in tensorDone => i \in tensorDone'
           /\ \A u \in TaskConsumers : Notifies(u, i)' <=> Notifies(u, i)
    BY <1>4, <1>7, <1>15 DEF jobVars
  <2>3. QED BY <1>6, <1>16, <2>1, <2>2, OthersFrame
<1>18. CountInv'
  BY <1>4, <1>11, CountFrame DEF clientVars, jobVars
<1>19. RestTypeOK'
  BY <1>4, <1>7, <1>10 DEF RestTypeOK, producerVars, jobVars
<1>20. PlaceInv'
  <2>1. ASSUME NEW u \in TaskConsumers
        PROVE  /\ pc'[u] \in {"wait", "task", "notify", "ended"}
               /\ pc'[u] = "wait" => todo'[u] = <<>>
               /\ pc'[u] = "notify" => todo'[u] # <<>>
    BY <1>7, <1>11 DEF PlaceInv
  <2>2. QED BY <1>4, <1>11, <2>1 DEF PlaceInv, producerVars, jobVars
<1>21. QED BY <1>12, <1>13, <1>14, <1>17, <1>18, <1>19, <1>20

LEMMA TaskConsumerQuiet ==
    ASSUME Quiet, QuietInv, NEW t \in TaskConsumers, TaskConsumerThread(t) PROVE RestInv'
  BY TakeQuiet, SkipsQuiet, AllocQuiet, RunPlanQuiet, RemainsQuiet, RequesterQuiet,
     LoopQuiet DEF TaskConsumerThread

-----------------------------------------------------------------------------
(* All together.                                                           *)

LEMMA InitQuiet == Init => QuietInv
<1> SUFFICES ASSUME Init PROVE QuietInv
  OBVIOUS
<1> USE ThreadIDs, WorkerAssumption DEF Init
<1>1. /\ JcCount \in Nat /\ GpuCount \in Nat
      /\ JobConsumers = (GpuCount + 1)..(GpuCount + JcCount)
  BY DEF JobConsumers
<1>2. PICK l : l = [i \in 1..JcCount |-> GpuCount + i]
  OBVIOUS
<1>3. l \in Seq(JobConsumers) /\ IsInjective(l) /\ ToSet(l) \subseteq JobConsumers
  <2>1. \A i \in 1..JcCount : GpuCount + i \in JobConsumers
    BY <1>1
  <2>2. l \in Seq(JobConsumers)
    BY <1>1, <1>2, <2>1
  <2>3. IsInjective(l)
    BY <1>1, <1>2 DEF IsInjective
  <2>4. QED BY <2>2, <2>3 DEF ToSet
<1>4. ToSet(<<>>) = {} /\ IsInjective(<<>>)
  BY DEF ToSet, IsInjective
<1>5. \A t \in TaskConsumers : HeldBy(t) = {} /\ HeldOnce(t)
  BY <1>4 DEF HeldBy, HeldOnce
<1>6. TaskInv /\ WorkInv /\ SignalInv
  BY <1>5 DEF TaskInv, WorkInv, AtTasks, SignalInv
<1>7. ReadyOnce
  <2>1. jcIDs \o jcReadyQueue = l
    BY <1>2, <1>3, ConcatEmptySeq
  <2>2. QED BY <1>3, <2>1 DEF ReadyOnce
<1>8. RestTypeOK
  <2>1. ContextTypes
    BY DEF ContextTypes, WaitSteps
  <2>2. TaskTypes
    BY DEF TaskTypes
  <2>3. jcReadyQueue \in Seq(JobConsumers)
    BY <1>2, <1>3
  <2>4. 0 \in 0..Tensors /\ 0 \in 0..MaxPasses /\ 0 \in 0..DopCount
    OBVIOUS
  <2>5. /\ allocated \in [Jobs -> 0..Tensors] /\ passes \in [Jobs -> 0..MaxPasses]
        /\ doneCount \in [Jobs -> 0..DopCount]
    BY <2>4
  <2>6. halting \in BOOLEAN /\ count \in Nat /\ tensorDone \in SUBSET Jobs
    OBVIOUS
  <2>7. jcIDs \in Seq(JobConsumers) /\ to \in [JobConsumers -> Threads]
    OBVIOUS
  <2>8. QED BY <2>1, <2>2, <2>3, <2>5, <2>6, <2>7 DEF RestTypeOK
<1>9. PlaceInv /\ CountInv
  BY DEF PlaceInv, CountInv, RunReplyMeansDone
<1>10. QED BY <1>6, <1>7, <1>8, <1>9, InitInv DEF QuietInv, RestInv

LEMMA NextQuiet == ASSUME Quiet PROVE QuietInv /\ [Next]_vars => QuietInv'
<1> SUFFICES ASSUME QuietInv, [Next]_vars PROVE QuietInv'
  OBVIOUS
<1>1. JobInv'
  BY NextInv DEF QuietInv
<1>2. RestInv'
  <2>1. ASSUME NEW t \in Threads, Wait(t) \/ SpuriousWakeup(t) PROVE RestInv'
    BY <2>1, WaitQuiet DEF SpuriousWakeup, Quiet
  <2>2. CASE UNCHANGED vars
    <3>1. RestInv
      BY DEF QuietInv
    <3>2. RestTypeOK' /\ PlaceInv' /\ SignalInv'
      BY <2>2, <3>1
         DEF RestInv, RestTypeOK, ContextTypes, TaskTypes, PlaceInv, SignalInv, vars,
             contextVars, producerVars, jobVars, taskVars
    <3>3. ReadyOnce' /\ CountInv'
      BY <2>2, <3>1
         DEF RestInv, ReadyOnce, CountInv, RunReplyMeansDone, vars, contextVars,
             clientVars, producerVars, jobVars, taskVars
    <3>4. TaskInv' /\ WorkInv'
      BY <2>2, <3>1, TasksFrame
         DEF RestInv, RestTypeOK, AtTasks, vars, contextVars, jobVars, taskVars
    <3>5. QED BY <3>2, <3>3, <3>4 DEF RestInv
  <2>3. QED BY <2>1, <2>2, PushQuiet, ProducerQuiet, JobConsumerQuiet, TaskConsumerQuiet
            DEF Next
<1>3. QED BY <1>1, <1>2 DEF QuietInv

(* With no HaltMachine among the jobs, and condition variables that wake a *)
(* waiter for a reason, the handlers' waits end as they should in every    *)
(* state: what the four theorems below follow from.                        *)
THEOREM QuietSafe == ASSUME Quiet PROVE Spec => []QuietInv
<1>1. Init => QuietInv
  BY InitQuiet
<1>2. QuietInv /\ [Next]_vars => QuietInv'
  BY NextQuiet
<1>3. QED BY <1>1, <1>2, PTL DEF Spec

(* A job consumer is offered work once, and has no signal pending then: no *)
(* stray Wakeup ends a wait of its handler.                                *)
THEOREM OfferedOnce == ASSUME Quiet PROVE Spec => []ReadyOnce
<1>1. QuietInv => ReadyOnce
  BY DEF QuietInv, RestInv
<1>2. QED BY <1>1, QuietSafe, PTL

(* The assertion of allocTensorMem holds, for any number of tensors and    *)
(* GPUs.                                                                   *)
THEOREM TensorsAllocated == ASSUME Quiet PROVE Spec => []TensorIsAllocated
<1>1. QuietInv => TensorIsAllocated
  BY DEF QuietInv, RestInv, PlaceInv, TensorIsAllocated
<1>2. QED BY <1>1, QuietSafe, PTL

(* The reply of a run comes when all of its task consumers are done.       *)
THEOREM RunsDone == ASSUME Quiet PROVE Spec => []RunReplyMeansDone
<1>1. QuietInv => RunReplyMeansDone
  BY DEF QuietInv, RestInv, CountInv
<1>2. QED BY <1>1, QuietSafe, PTL

(* Every variable keeps its type; doneCount never passes dopCount, for one.*)
THEOREM TypeCorrect == ASSUME Quiet PROVE Spec => []TypeOK
<1>1. QuietInv => TypeOK
  BY DEF QuietInv, RestInv, RestTypeOK, ContextTypes, TaskTypes, JobInv, JobTypeOK, TypeOK
<1>2. QED BY <1>1, QuietSafe, PTL
=============================================================================
