------------------------------- MODULE Worker -------------------------------
(***************************************************************************)
(* The worker, core/Worker.cpp: session threads push jobs, the producer    *)
(* wakes job consumers that are ready, a job consumer handles a job,       *)
(* which may take task consumers (one per GPU) that it hands tasks to and  *)
(* whose answer it waits for on its own ThreadContext, and publishes the   *)
(* reply.                                                                  *)
(***************************************************************************)
EXTENDS ThreadContexts, Integers, SequencesExt

CONSTANTS
    Jobs,            \* the jobs the clients push
    Kind,            \* what their handlers do, see Kinds
    GpuCount,        \* GPU_COUNT, the number of task consumers
    JcCount,         \* JOB_CONSUMER_COUNT
    DopCount,        \* PlanInfo::dopCount: 1 in the plans PlanOptimizer makes
    Tensors,         \* how many tensors a BuildNetwork job has allocated
    MaxPasses,       \* bound: how often a RunPlan task stays unfinished
    Spurious         \* may a condition variable wake its waiter for no reason?

(* A job is of one of four kinds.  "reply": the handler answers at once.   *)
(* "build": it has tensors allocated by a task consumer, one by one.       *)
(* "run": it has the plan run by DopCount task consumers.  "halt": it      *)
(* halts all threads and has no reply.                                     *)
Kinds == {"reply", "build", "run", "halt"}

(* The thread IDs, as ThreadMgmt::init lays them out.                      *)
Producer      == 0
TaskConsumers == 1..GpuCount
JobConsumers  == (GpuCount + 1)..(GpuCount + JcCount)
Threads       == 0..(GpuCount + JcCount)

(* No job: a job consumer's job between two jobs.                          *)
CONSTANT NoJob

ASSUME WorkerAssumption ==
    /\ Kind \in [Jobs -> Kinds]
    /\ GpuCount \in Nat \ {0} /\ JcCount \in Nat \ {0}
    /\ DopCount \in 1..GpuCount
    /\ Tensors \in Nat \ {0} /\ MaxPasses \in Nat
    /\ Spurious \in BOOLEAN
    /\ NoJob \notin Jobs

VARIABLES
    pc,              \* where a thread is in its main function
    halting,         \* the producer's event is Halt
    pusher,          \* where the pushJob() of a job is
    jobQueue,
    jcReadyQueue,    \* thread IDs of job consumers
    count, jcIDs,    \* the producer's: jobs counted, consumers to wake up
    cur,             \* a job consumer's job
    to,              \* ... and the thread its loop over threads has reached
    tasks,           \* the TaskQueue of a task consumer
    todo, remain,    \* the tasks it took out, and those it could not finish
    tensorDone,      \* the jobs whose TaskAllocTensor is at step Done
    allocated,       \* the tensors a job has
    passes,          \* RunPlan tasks that stayed unfinished (bounded)
    doneCount,       \* PlanInfo::doneCount of the network a job runs
    replied          \* the jobs whose reply was published

clientVars   == <<pusher, jobQueue>>
producerVars == <<halting, jcReadyQueue, count, jcIDs>>
jobVars      == <<cur, to, allocated, replied>>
taskVars     == <<tasks, todo, remain, tensorDone, passes, doneCount>>
vars == <<contextVars, pc, clientVars, producerVars, jobVars, taskVars>>

PushSteps == {"idle", "queued", "done"}
(* "wait" and "await": in ThreadMgmt::wait, from the main loop and from a  *)
(* handler.                                                                *)
Steps == {"wait", "ended", "getReady", "signal",
          "give", "wake", "await", "reply", "insert", "halt", "aborted",
          "task", "notify"}
Events == {"Wakeup", "Timeout", "Halt"}

(* A task is that of one job, for the thread that waits for its answer.    *)
Tasks == [job : Jobs, requestThreadID : JobConsumers]

TypeOK ==
    /\ flag \in [Threads -> BOOLEAN]
    /\ event \in [Threads -> SUBSET {"Wakeup", "Halt"}]
    /\ wait \in [Threads -> WaitSteps]
    /\ halting \in BOOLEAN
    /\ pc \in [Threads -> Steps]
    /\ pusher \in [Jobs -> PushSteps]
    /\ jobQueue \in Seq(Jobs)
    /\ jcReadyQueue \in Seq(JobConsumers)
    /\ count \in Nat
    /\ jcIDs \in Seq(JobConsumers)
    /\ cur \in [JobConsumers -> Jobs \cup {NoJob}]
    /\ to \in [JobConsumers -> Threads]
    /\ tasks \in [TaskConsumers -> Seq(Tasks)]
    /\ todo \in [TaskConsumers -> Seq(Tasks)]
    /\ remain \in [TaskConsumers -> Seq(Tasks)]
    /\ tensorDone \in SUBSET Jobs
    /\ allocated \in [Jobs -> 0..Tensors]
    /\ passes \in [Jobs -> 0..MaxPasses]
    /\ doneCount \in [Jobs -> 0..DopCount]
    /\ replied \in SUBSET Jobs

(* All threads are up (isReady), every job consumer is ready.              *)
Init ==
    /\ flag = [t \in Threads |-> FALSE]
    /\ event = [t \in Threads |-> {}]
    /\ wait = [t \in Threads |-> "out"]
    /\ halting = FALSE
    /\ pc = [t \in Threads |-> "wait"]
    /\ pusher = [j \in Jobs |-> "idle"]
    /\ jobQueue = <<>>
    /\ jcReadyQueue = [i \in 1..JcCount |-> GpuCount + i]
    /\ count = 0
    /\ jcIDs = <<>>
    /\ cur = [c \in JobConsumers |-> NoJob]
    /\ to = [c \in JobConsumers |-> Producer]
    /\ tasks = [t \in TaskConsumers |-> <<>>]
    /\ todo = [t \in TaskConsumers |-> <<>>]
    /\ remain = [t \in TaskConsumers |-> <<>>]
    /\ tensorDone = {}
    /\ allocated = [j \in Jobs |-> 0]
    /\ passes = [j \in Jobs |-> 0]
    /\ doneCount = [j \in Jobs |-> 0]
    /\ replied = {}

-----------------------------------------------------------------------------
(* Waiting.                                                                *)

Goto(t, step) == pc' = [pc EXCEPT ![t] = step]

(* Everything but the ThreadContexts, pc and halting.                      *)
workVars == <<clientVars, jcReadyQueue, count, jcIDs, jobVars, taskVars>>

WaitTest(t) ==
    /\ pc[t] \in {"wait", "await"}
    /\ TestFlag(t)
    /\ UNCHANGED <<pc, halting, workVars>>

WaitBlock(t) == Block(t) /\ UNCHANGED <<pc, halting, workVars>>

SpuriousWakeup(t) ==
    Spurious /\ WakeForNoReason(t) /\ UNCHANGED <<pc, halting, workVars>>

(* The end of a wait.  It is one step with what the thread does next, its  *)
(* first look at what it shares with others.  The producer and the task    *)
(* consumers wait with a timeout; the job consumers without, in the main   *)
(* loop as in a handler.                                                   *)
WaitReturns(t) == Returns(t, t \notin JobConsumers)

-----------------------------------------------------------------------------
(* pushJob, by a session thread.                                           *)

(* The reply job goes into reqPubJobMap, then the job into the queue; as   *)
(* nobody asks for the one before it has the other, this is one step.      *)
PushQueue(j) ==
    /\ pusher[j] = "idle"
    /\ jobQueue' = Append(jobQueue, j)
    /\ pusher' = [pusher EXCEPT ![j] = "queued"]
    /\ UNCHANGED <<contextVars, pc, producerVars, jobVars, taskVars>>

PushSignal(j) ==
    /\ pusher[j] = "queued"
    /\ Signal(Producer, "Wakeup")
    /\ pusher' = [pusher EXCEPT ![j] = "done"]
    /\ UNCHANGED <<pc, jobQueue, producerVars, jobVars, taskVars>>

-----------------------------------------------------------------------------
(* producerThread                                                          *)

(* Mutant: the periodic check does not look at the queue.                  *)
GetJobCountIfWoken ==
    /\ pc[Producer] = "wait"
    /\ WaitReturns(Producer)
    /\ halting' = (Returned(Producer) = {"Halt"})
    /\ count' = IF Returned(Producer) = {"Timeout"} THEN 0 ELSE Len(jobQueue)
    /\ Goto(Producer, "getReady")
    /\ UNCHANGED <<clientVars, jcReadyQueue, jcIDs, jobVars, taskVars>>

GetJobCount ==
    /\ pc[Producer] = "wait"
    /\ WaitReturns(Producer)
    /\ halting' = (Returned(Producer) = {"Halt"})
    /\ count' = Len(jobQueue)
    /\ Goto(Producer, "getReady")
    /\ UNCHANGED <<clientVars, jcReadyQueue, jcIDs, jobVars, taskVars>>

(* As many ready job consumers as there were jobs, from the front.         *)
ReadyCount == IF count < Len(jcReadyQueue) THEN count ELSE Len(jcReadyQueue)

(* With nobody (left) to wake up: back to the wait, or the end.            *)
ProducerNext(ids) ==
    Goto(Producer, IF ids # <<>> THEN "signal" ELSE IF halting THEN "ended" ELSE "wait")

(* Mutant: the consumers stay in the queue while they are woken up.        *)
GetReadyJCsCopies ==
    /\ pc[Producer] = "getReady"
    /\ jcIDs' = SubSeq(jcReadyQueue, 1, ReadyCount)
    /\ count' = 0
    /\ ProducerNext(jcIDs')
    /\ UNCHANGED <<contextVars, clientVars, halting, jcReadyQueue, jobVars, taskVars>>

GetReadyJCs ==
    /\ pc[Producer] = "getReady"
    /\ jcIDs' = SubSeq(jcReadyQueue, 1, ReadyCount)
    /\ jcReadyQueue' = SubSeq(jcReadyQueue, ReadyCount + 1, Len(jcReadyQueue))
    /\ count' = 0
    /\ ProducerNext(jcIDs')
    /\ UNCHANGED <<contextVars, clientVars, halting, jobVars, taskVars>>

SignalJC ==
    /\ pc[Producer] = "signal"
    /\ Signal(Head(jcIDs), "Wakeup")
    /\ jcIDs' = Tail(jcIDs)
    /\ ProducerNext(jcIDs')
    /\ UNCHANGED <<clientVars, halting, jcReadyQueue, count, jobVars, taskVars>>

-----------------------------------------------------------------------------
(* jobConsumerThread                                                       *)

(* What the handler of a job begins with.  (A "run" has a network of its   *)
(* own here, fresh from BuildNetwork or ResetNetwork: doneCount is 0.)     *)
HandlerStep(j) == CASE Kind[j] = "reply" -> "reply"
                    [] Kind[j] = "halt"  -> "halt"
                    [] OTHER             -> "give"

(* The first thread a handler turns to.                                    *)
FirstThread(j) == IF Kind[j] = "run" THEN 1 ELSE Producer

(* The events are tested for equality: a Halt next to another bit is none. *)
JobConsumerHalt(c) ==
    /\ pc[c] = "wait"
    /\ WaitReturns(c)
    /\ Returned(c) = {"Halt"}
    /\ Goto(c, "ended")
    /\ UNCHANGED <<halting, workVars>>

(* Mutant: front() without pop_front().                                    *)
PopJobKeeps(c) ==
    /\ pc[c] = "wait"
    /\ WaitReturns(c)
    /\ Returned(c) # {"Halt"}
    /\ IF jobQueue = <<>>
       THEN UNCHANGED <<pc, cur, to>>
       ELSE LET j == Head(jobQueue) IN
            /\ cur' = [cur EXCEPT ![c] = j]
            /\ to' = [to EXCEPT ![c] = FirstThread(j)]
            /\ Goto(c, HandlerStep(j))
    /\ UNCHANGED <<clientVars, producerVars, allocated, replied, taskVars>>

(* No job to pop: back to the wait, and not to the ready queue.            *)
PopJob(c) ==
    /\ pc[c] = "wait"
    /\ WaitReturns(c)
    /\ Returned(c) # {"Halt"}
    /\ IF jobQueue = <<>>
       THEN UNCHANGED <<pc, jobQueue, cur, to>>
       ELSE LET j == Head(jobQueue) IN
            /\ jobQueue' = Tail(jobQueue)
            /\ cur' = [cur EXCEPT ![c] = j]
            /\ to' = [to EXCEPT ![c] = FirstThread(j)]
            /\ Goto(c, HandlerStep(j))
    /\ UNCHANGED <<pusher, producerVars, allocated, replied, taskVars>>

(* allocTensorMem gives its task to the consumer of the tensor's device,   *)
(* PlanOptimizer::runPlan gives one to each in turn; then that consumer is *)
(* signalled.                                                              *)
GiveTask(c) ==
    /\ pc[c] = "give"
    /\ LET j == cur[c] IN
          \E t \in IF Kind[j] = "run" THEN {to[c]} ELSE TaskConsumers :
              /\ tasks' = [tasks EXCEPT ![t] = Append(@, [job |-> j, requestThreadID |-> c])]
              /\ to' = [to EXCEPT ![c] = t]
              /\ tensorDone' = tensorDone \ {j}
    /\ Goto(c, "wake")
    /\ UNCHANGED <<contextVars, clientVars, producerVars, cur, allocated,
                   replied, todo, remain, passes, doneCount>>

WakeTaskConsumer(c) ==
    /\ pc[c] = "wake"
    /\ Signal(to[c], "Wakeup")
    /\ LET more == Kind[cur[c]] = "run" /\ to[c] < DopCount IN
          /\ Goto(c, IF more THEN "give" ELSE "await")
          /\ to' = [to EXCEPT ![c] = IF more THEN @ + 1 ELSE @]
    /\ UNCHANGED <<clientVars, producerVars, cur, allocated,
                   replied, taskVars>>

(* Mutant: one tensor too many.                                            *)
AwaitTensorOneMore(c) ==
    /\ pc[c] = "await" /\ Kind[cur[c]] = "build"
    /\ WaitReturns(c)
    /\ LET j == cur[c] IN
          IF j \in tensorDone
          THEN /\ allocated' = [allocated EXCEPT ![j] = @ + 1]
               /\ Goto(c, IF allocated[j] < Tensors THEN "give" ELSE "reply")
          ELSE Goto(c, "aborted") /\ UNCHANGED allocated
    /\ UNCHANGED <<clientVars, producerVars, cur, to, replied, taskVars>>

(* Back in allocTensorMem, whatever the event, the tensor has to be there: *)
(* an assertion.                                                           *)
AwaitTensor(c) ==
    /\ pc[c] = "await" /\ Kind[cur[c]] = "build"
    /\ WaitReturns(c)
    /\ LET j == cur[c] IN
          IF j \in tensorDone
          THEN /\ allocated' = [allocated EXCEPT ![j] = @ + 1]
               /\ Goto(c, IF allocated[j] + 1 < Tensors THEN "give" ELSE "reply")
          ELSE Goto(c, "aborted") /\ UNCHANGED allocated
    /\ UNCHANGED <<clientVars, producerVars, cur, to, replied, taskVars>>

(* Back in handleRunNetwork, whatever the event, the run is over.          *)
AwaitRun(c) ==
    /\ pc[c] = "await" /\ Kind[cur[c]] = "run"
    /\ WaitReturns(c)
    /\ Goto(c, "reply")
    /\ UNCHANGED <<halting, workVars>>

PublishReply(c) ==
    /\ pc[c] = "reply"
    /\ replied' = replied \cup {cur[c]}
    /\ Goto(c, "insert")
    /\ UNCHANGED <<contextVars, clientVars, producerVars, cur, to,
                   allocated, taskVars>>

(* signalAll(Halt), thread by thread.                                      *)
HaltThread(c) ==
    /\ pc[c] = "halt"
    /\ Signal(to[c], "Halt")
    /\ LET more == to[c] < GpuCount + JcCount IN
          /\ to' = [to EXCEPT ![c] = IF more THEN @ + 1 ELSE @]
          /\ Goto(c, IF more THEN "halt" ELSE "insert")
    /\ UNCHANGED <<clientVars, producerVars, cur, allocated,
                   replied, taskVars>>

(* The job is deleted, and the consumer is ready again; the one that       *)
(* halted the others leaves its loop.                                      *)
InsertJCReadyQueue(c) ==
    /\ pc[c] = "insert"
    /\ jcReadyQueue' = Append(jcReadyQueue, c)
    /\ cur' = [cur EXCEPT ![c] = NoJob]
    /\ to' = [to EXCEPT ![c] = Producer]
    /\ Goto(c, IF Kind[cur[c]] = "halt" THEN "ended" ELSE "wait")
    /\ UNCHANGED <<contextVars, clientVars, halting, count, jcIDs,
                   allocated, replied, taskVars>>

-----------------------------------------------------------------------------
(* taskConsumerThread                                                      *)

(* Mutant: a timeout is no reason to look at the queue.                    *)
TakeTasksIfWoken(t) ==
    /\ pc[t] = "wait"
    /\ WaitReturns(t)
    /\ Returned(t) = {"Wakeup"}
    /\ todo' = [todo EXCEPT ![t] = tasks[t] \o remain[t]]
    /\ tasks' = [tasks EXCEPT ![t] = <<>>]
    /\ remain' = [remain EXCEPT ![t] = <<>>]
    /\ Goto(t, IF todo'[t] = <<>> THEN "wait" ELSE "task")
    /\ UNCHANGED <<clientVars, producerVars, jobVars, tensorDone, passes, doneCount>>

(* Take what is in the queue and, behind it, what remained; but not if the *)
(* event is Wakeup and Timeout at once.                                    *)
TakeTasks(t) ==
    /\ pc[t] = "wait"
    /\ WaitReturns(t)
    /\ Returned(t) \in {{"Wakeup"}, {"Timeout"}}
    /\ todo' = [todo EXCEPT ![t] = tasks[t] \o remain[t]]
    /\ tasks' = [tasks EXCEPT ![t] = <<>>]
    /\ remain' = [remain EXCEPT ![t] = <<>>]
    /\ Goto(t, IF todo'[t] = <<>> THEN "wait" ELSE "task")
    /\ UNCHANGED <<clientVars, producerVars, jobVars, tensorDone, passes, doneCount>>

TaskConsumerSkips(t) ==
    /\ pc[t] = "wait"
    /\ WaitReturns(t)
    /\ Returned(t) \notin {{"Wakeup"}, {"Timeout"}}
    /\ Goto(t, IF Returned(t) = {"Halt"} THEN "ended" ELSE "wait")
    /\ UNCHANGED <<halting, workVars>>

(* The task it is at, and its job.                                         *)
CurTask(t) == Head(todo[t])
AtTask(t, kind) ==
    pc[t] = "task" /\ todo[t] # <<>> /\ Kind[CurTask(t).job] = kind

(* Mutant: the requester is signalled before the tensor is there.          *)
AllocTensorSignalsFirst(t) ==
    /\ AtTask(t, "build")
    /\ Signal(CurTask(t).requestThreadID, "Wakeup")
    /\ Goto(t, "notify")
    /\ UNCHANGED <<clientVars, producerVars, jobVars, taskVars>>

(* handleAllocTensorTask: step Done, then the requester is signalled.      *)
AllocTensor(t) ==
    /\ AtTask(t, "build")
    /\ tensorDone' = tensorDone \cup {CurTask(t).job}
    /\ Goto(t, "notify")
    /\ UNCHANGED <<contextVars, clientVars, producerVars, jobVars, tasks, todo,
                   remain, passes, doneCount>>

(* Mutant: the first task consumer that is done signals the requester.     *)
RunPlanFirstSignals(t) ==
    /\ AtTask(t, "run")
    /\ LET j == CurTask(t).job IN
          /\ doneCount' = [doneCount EXCEPT ![j] = @ + 1]
          /\ IF doneCount[j] = 0
             THEN Goto(t, "notify") /\ UNCHANGED todo
             ELSE todo' = [todo EXCEPT ![t] = Tail(@)] /\ UNCHANGED pc
    /\ UNCHANGED <<contextVars, clientVars, producerVars, jobVars, tasks,
                   remain, tensorDone, passes>>

(* handleRunPlanTask, nothing left to run in any epoch: the last of the    *)
(* task consumers to get there signals the requester.                      *)
RunPlan(t) ==
    /\ AtTask(t, "run")
    /\ LET j == CurTask(t).job IN
          /\ doneCount' = [doneCount EXCEPT ![j] = @ + 1]
          /\ IF doneCount[j] + 1 = DopCount
             THEN Goto(t, "notify") /\ UNCHANGED todo
             ELSE todo' = [todo EXCEPT ![t] = Tail(@)] /\ UNCHANGED pc
    /\ UNCHANGED <<contextVars, clientVars, producerVars, jobVars, tasks,
                   remain, tensorDone, passes>>

(* ... or plans of this mini batch, or another one, are left (bounded).    *)
RunPlanRemains(t) ==
    /\ AtTask(t, "run")
    /\ passes[CurTask(t).job] < MaxPasses
    /\ passes' = [passes EXCEPT ![CurTask(t).job] = @ + 1]
    /\ remain' = [remain EXCEPT ![t] = Append(@, CurTask(t))]
    /\ todo' = [todo EXCEPT ![t] = Tail(@)]
    /\ UNCHANGED <<contextVars, pc, clientVars, producerVars, jobVars, tasks,
                   tensorDone, doneCount>>

SignalRequester(t) ==
    /\ pc[t] = "notify"
    /\ Signal(CurTask(t).requestThreadID, "Wakeup")
    /\ todo' = [todo EXCEPT ![t] = Tail(@)]
    /\ Goto(t, "task")
    /\ UNCHANGED <<clientVars, producerVars, jobVars, tasks, remain,
                   tensorDone, passes, doneCount>>

(* All tasks seen to; with some unfinished the consumer wakes itself up.   *)
TaskConsumerLoop(t) ==
    /\ pc[t] = "task"
    /\ todo[t] = <<>>
    /\ IF remain[t] = <<>> THEN UNCHANGED contextVars ELSE Signal(t, "Wakeup")
    /\ Goto(t, "wait")
    /\ UNCHANGED <<halting, workVars>>

-----------------------------------------------------------------------------
PushJob(j) == PushQueue(j) \/ PushSignal(j)

Wait(t) == WaitTest(t) \/ WaitBlock(t)

ProducerThread == GetJobCount \/ GetReadyJCs \/ SignalJC

JobConsumerThread(c) ==
    \/ JobConsumerHalt(c)
    \/ PopJob(c)
    \/ GiveTask(c)
    \/ WakeTaskConsumer(c)
    \/ AwaitTensor(c)
    \/ AwaitRun(c)
    \/ PublishReply(c)
    \/ HaltThread(c)
    \/ InsertJCReadyQueue(c)

TaskConsumerThread(t) ==
    \/ TakeTasks(t)
    \/ TaskConsumerSkips(t)
    \/ AllocTensor(t)
    \/ RunPlan(t)
    \/ RunPlanRemains(t)
    \/ SignalRequester(t)
    \/ TaskConsumerLoop(t)

(* A failed assertion ends the process.                                    *)
Running == \A t \in Threads : pc[t] # "aborted"

Next ==
    /\ Running
    /\ \/ \E j \in Jobs : PushJob(j)
       \/ \E t \in Threads : Wait(t) \/ SpuriousWakeup(t)
       \/ ProducerThread
       \/ \E c \in JobConsumers : JobConsumerThread(c)
       \/ \E t \in TaskConsumers : TaskConsumerThread(t)

Spec == Init /\ [][Next]_vars

(* Threads run on, a pushJob() begun is finished, a timed wait times out.  *)
Fairness ==
    /\ WF_vars(Running /\ \E j \in Jobs : PushSignal(j))
    /\ WF_vars(Running /\ (Wait(Producer) \/ ProducerThread))
    /\ \A c \in JobConsumers : WF_vars(Running /\ (Wait(c) \/ JobConsumerThread(c)))
    /\ \A t \in TaskConsumers : WF_vars(Running /\ (Wait(t) \/ TaskConsumerThread(t)))

FairSpec == Spec /\ Fairness

-----------------------------------------------------------------------------
(* Properties.                                                             *)

(* A job consumer is offered work once: it is in jcReadyQueue or in what   *)
(* the producer is about to wake up, once in all, and then it is idle with *)
(* no signal pending, so that no stray Wakeup can end the wait that a      *)
(* handler of its makes on the same context.                               *)
ReadyOnce ==
    LET offered == jcIDs \o jcReadyQueue IN
    /\ IsInjective(offered)
    /\ \A c \in ToSet(offered) : pc[c] = "wait" /\ event[c] = {}

(* A job is handled once, and its request is not lost: from pushJob to its *)
(* reply it is in the queue, once, or one job consumer has it.             *)
JobHandledOnce ==
    LET had == {c \in JobConsumers : cur[c] # NoJob} IN
    /\ IsInjective(jobQueue)
    /\ \A c \in had : cur[c] \notin ToSet(jobQueue)
    /\ \A c, d \in had : cur[c] = cur[d] => c = d
    /\ \A j \in Jobs :
          pusher[j] \in {"queued", "done"} /\ Kind[j] # "halt" =>
              j \in ToSet(jobQueue) \cup replied \cup {cur[c] : c \in JobConsumers}

(* The assertion of allocTensorMem: a handler back from its wait finds its *)
(* tensor allocated.                                                       *)
TensorIsAllocated == \A c \in JobConsumers : pc[c] # "aborted"

(* The reply of a run is published when every task consumer that runs a    *)
(* part of it is done.                                                     *)
RunReplyMeansDone ==
    \A j \in replied : Kind[j] = "run" => doneCount[j] = DopCount

(* A job consumer that will not take a job any more: it sleeps, and the    *)
(* signal it waits for has come before, or, woken up in vain the last      *)
(* time, it is not in the ready queue and nobody will signal it.           *)
OutOfService(c) ==
    /\ wait[c] = "blocked"
    /\ \/ event[c] # {}
       \/ pc[c] = "wait" /\ c \notin ToSet(jcIDs \o jcReadyQueue)

(* Jobs are taken out of the queue: again and again it is empty, unless    *)
(* all the job consumers got out of service.  Whatever notification the    *)
(* producer misses, its periodic check makes up for it.                    *)
JobTaken ==
    []<>(jobQueue = <<>> \/ \A c \in JobConsumers : OutOfService(c))

(* The job consumer "checks the job" periodically: a job that was pushed   *)
(* is taken out of the queue.                                              *)
EveryJobTaken ==
    \A j \in Jobs : pusher[j] = "done" ~> j \notin ToSet(jobQueue)

(* Tasks that were handed to task consumers are taken out of their queues: *)
(* again and again all of the queues are empty.                            *)
TaskTaken == []<>(\A t \in TaskConsumers : tasks[t] = <<>>)

(* HaltMachine "will eventually halt" all the threads of the worker.       *)
HaltEndsThreads ==
    (\E j \in Jobs : Kind[j] = "halt" /\ pusher[j] = "done") ~>
        (\A t \in Threads : pc[t] = "ended")
=============================================================================
