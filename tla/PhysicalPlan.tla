---------------------------- MODULE PhysicalPlan ----------------------------
(***************************************************************************)
(* The plans of one network and their execution: plan/PhysicalPlan.cpp,    *)
(* with Network::run, reset and runMiniBatch, which job consumers call for *)
(* their clients, PlanOptimizer::runPlan and Worker::handleRunPlanTask,    *)
(* the task consumer's part.  A plan is the forward, backward or update    *)
(* step of a layer; one that is done notifies others, and one notified as  *)
(* often as its depCount says is ready.                                    *)
(*                                                                         *)
(* dopCount is 1, as in the only plan context PlanOptimizer implements:    *)
(* one PhysicalPlan, run by one task consumer.  What wait() and signal()   *)
(* may miss is the subject of ThreadMgmt and Worker; here they are exact.  *)
(***************************************************************************)
EXTENDS LogicalPlan

CONSTANTS
    Epochs,          \* epochCount ...
    MiniBatches,     \* ... and miniBatchCount, as the network was built
    Clients,         \* those whose requests the job consumers handle
    Scripts,         \* the requests a client may make, one after the other
    NanLoss          \* may the loss become NaN, which stops a training?

(* The requests: RunNetwork, ResetNetwork, RunNetworkMiniBatch (which also *)
(* is what RunNetworkWithInputData does).                                  *)
RunNetwork      == [op |-> "run"]
ResetNetwork    == [op |-> "reset"]
RunMiniBatch(i) == [op |-> "miniBatch", idx |-> i]
Requests == {RunNetwork, ResetNetwork} \cup [op : {"miniBatch"}, idx : Nat]

(* PlanInfo::dopCount.                                                     *)
DopCount == 1

(* FORWARD, BACKWARD and UPDATE.                                           *)
PlanTypes   == 0..2
PlanType(p) == p % 3

ASSUME PlanAssumption ==
    /\ Epochs \in Nat \ {0} /\ MiniBatches \in Nat \ {0}
    /\ Scripts \subseteq Seq(Requests)
    /\ NanLoss \in BOOLEAN

VARIABLES
    network,         \* the network that BuildNetwork built
    planMap,         \* PlanDef of each plan
    info,            \* PlanInfo
    depRef,          \* depRefMap: notifications a plan still waits for
    readyQueue,
    refCount,        \* plans of the mini batch that are not done
    planTypeRC,      \* planTypeRCMap: the same per plan type
    tasks,           \* the TaskQueue: who requested the runs in it
    todo, remain,    \* tasks taken out by the consumer; those not finished
    consumer,        \* where the task consumer is
    cur, next,       \* its plan, and whom in its notifyList it notifies next
    client,          \* where the handler of a client's request is
    script,          \* the requests a client has still to make
    awake,           \* clients whose job consumer was signalled
    trained,         \* mini batches completed since the last reset (history)
    stopped          \* ... and whether NaN stopped the training (history)

networkVars  == <<network, planMap>>
planVars     == <<depRef, readyQueue, refCount, planTypeRC>>
consumerVars == <<todo, remain, consumer, cur, next>>
clientVars   == <<client, script>>
history      == <<trained, stopped>>
vars == <<networkVars, info, planVars, tasks, consumerVars, clientVars, awake, history>>

Plans      == DOMAIN planMap
Notify(p)  == planMap[p].notifyList
DepCount(p) == planMap[p].depCount

(* The notifications that a plan gets in a mini batch.                     *)
Awaited(p) == NotificationsOf([q \in Plans |-> Notify(q)], p)
Needs == [p \in Plans |-> {q \in Plans : p \in ToSet(Notify(q))}]

ConsumerSteps == {"idle", "task", "layer", "notify", "generate", "finish",
                  "aborted"}
ClientSteps == {"idle", "resetPlan", "give", "await"}

TypeOK ==
    /\ network \in Networks /\ IsFiniteSet(Plans)
    /\ \A p \in Plans : planMap[p].notifyList \in Seq(Plans)
    /\ info \in [epoch : Nat, miniBatch : Nat, epochCount : Nat,
                 miniBatchCount : Nat, doneCount : Nat]
    /\ info.epoch < info.epochCount /\ info.miniBatch < info.miniBatchCount
    /\ depRef \in [Plans -> Int]
    /\ readyQueue \in Seq(Plans)
    /\ refCount \in Int
    /\ planTypeRC \in [PlanTypes -> Int]
    /\ tasks \in Seq(Clients) /\ todo \in Seq(Clients) /\ remain \in Seq(Clients)
    /\ consumer \in ConsumerSteps
    /\ cur \in Plans /\ next \in Nat \ {0}
    /\ consumer = "notify" => next <= Len(Notify(cur)) + 1
    /\ client \in [Clients -> ClientSteps]
    /\ \A c \in Clients : \E s \in Scripts : IsSuffix(script[c], s)
    /\ awake \in SUBSET Clients
    /\ trained \in Nat /\ stopped \in BOOLEAN

(* The counters and the queue for a fresh mini batch.                      *)
FreshRefs  == [p \in Plans |-> DepCount(p)]
Ready == {p \in Plans : DepCount(p) = 0}
FreshQueue == InOrder(Ready)
FreshTypes == [t \in PlanTypes |-> Cardinality({p \in Plans : PlanType(p) = t})]

(* As setSingleGPUPlanContext makes them from the logical plan; the first  *)
(* ready queue is in the order of ppDefs, where the forward plans (of all  *)
(* layers but split layers, which are never ready at first) come first.    *)
Init ==
    /\ network \in Networks
    /\ planMap = Build(network)
    /\ readyQueue = InOrder({p \in Ready : PlanType(p) = 0})
                        \o InOrder({p \in Ready : PlanType(p) # 0})
    /\ info = [epoch |-> 0, miniBatch |-> 0, epochCount |-> Epochs,
               miniBatchCount |-> MiniBatches, doneCount |-> 0]
    /\ depRef = FreshRefs
    /\ refCount = Cardinality(Plans)
    /\ planTypeRC = FreshTypes
    /\ tasks = <<>> /\ todo = <<>> /\ remain = <<>>
    /\ consumer = "idle"
    /\ cur = CHOOSE p \in Plans : TRUE
    /\ next = 1
    /\ client = [c \in Clients |-> "idle"]
    /\ script \in [Clients -> Scripts]
    /\ awake = {}
    /\ trained = 0 /\ stopped = FALSE

-----------------------------------------------------------------------------
(* The handlers of the requests, run by job consumers.                     *)

Goto(c, step) == client' = [client EXCEPT ![c] = step]

(* Network::run: nothing is reset.                                         *)
Run(c) ==
    /\ client[c] = "idle" /\ script[c] # <<>>
    /\ Head(script[c]) = RunNetwork
    /\ Goto(c, "give")
    /\ UNCHANGED <<info, planVars, tasks, consumerVars, script, awake, history>>

(* Network::reset, up to the lock of PhysicalPlan::reset: unlocked writes, *)
(* taken as one step.                                                      *)
Reset(c) ==
    /\ client[c] = "idle" /\ script[c] # <<>>
    /\ Head(script[c]) = ResetNetwork
    /\ info' = [info EXCEPT !.epoch = 0, !.miniBatch = 0, !.doneCount = 0]
    /\ refCount' = 0
    /\ trained' = 0 /\ stopped' = FALSE
    /\ Goto(c, "resetPlan")
    /\ UNCHANGED <<depRef, readyQueue, planTypeRC, tasks, consumerVars, script, awake>>

(* Network::runMiniBatch, likewise: the network is made to end with the    *)
(* mini batch it was asked for.                                            *)
MiniBatch(c) ==
    /\ client[c] = "idle" /\ script[c] # <<>>
    /\ Head(script[c]).op = "miniBatch"
    /\ LET idx == Head(script[c]).idx IN
          info' = [info EXCEPT !.miniBatch = idx, !.epoch = 0,
                               !.miniBatchCount = idx + 1, !.epochCount = 1,
                               !.doneCount = 0]
    /\ refCount' = 0
    /\ trained' = 0 /\ stopped' = FALSE
    /\ Goto(c, "resetPlan")
    /\ UNCHANGED <<depRef, readyQueue, planTypeRC, tasks, consumerVars, script, awake>>

(* Mutant: the plans that are ready stay in the queue.                     *)
ResetPlanAppends(c) ==
    /\ client[c] = "resetPlan"
    /\ depRef' = FreshRefs
    /\ readyQueue' = readyQueue \o FreshQueue
    /\ refCount' = refCount + Cardinality(Plans)
    /\ planTypeRC' = [t \in PlanTypes |-> planTypeRC[t] + FreshTypes[t]]
    /\ IF Head(script[c]) = ResetNetwork
       THEN Goto(c, "idle") /\ script' = [script EXCEPT ![c] = Tail(@)]
       ELSE Goto(c, "give") /\ UNCHANGED script
    /\ UNCHANGED <<info, tasks, consumerVars, awake, history>>

(* PhysicalPlan::reset under planMutex.  planTypeRCMap is counted up from  *)
(* what it was.  Then ResetNetwork is answered.                            *)
ResetPlan(c) ==
    /\ client[c] = "resetPlan"
    /\ depRef' = FreshRefs
    /\ readyQueue' = FreshQueue
    /\ refCount' = refCount + Cardinality(Plans)
    /\ planTypeRC' = [t \in PlanTypes |-> planTypeRC[t] + FreshTypes[t]]
    /\ IF Head(script[c]) = ResetNetwork
       THEN Goto(c, "idle") /\ script' = [script EXCEPT ![c] = Tail(@)]
       ELSE Goto(c, "give") /\ UNCHANGED script
    /\ UNCHANGED <<info, tasks, consumerVars, awake, history>>

(* PlanOptimizer::runPlan, with the signal of the task consumer.           *)
GiveTask(c) ==
    /\ client[c] = "give"
    /\ tasks' = Append(tasks, c)
    /\ Goto(c, "await")
    /\ UNCHANGED <<info, planVars, consumerVars, script, awake, history>>

(* Signalled, the handler publishes the reply.                             *)
Reply(c) ==
    /\ client[c] = "await" /\ c \in awake
    /\ awake' = awake \ {c}
    /\ script' = [script EXCEPT ![c] = Tail(@)]
    /\ Goto(c, "idle")
    /\ UNCHANGED <<info, planVars, tasks, consumerVars, history>>

-----------------------------------------------------------------------------
(* The task consumer: taskConsumerThread and handleRunPlanTask.            *)

TakeTasks ==
    /\ consumer = "idle"
    /\ tasks \o remain # <<>>
    /\ todo' = tasks \o remain
    /\ tasks' = <<>> /\ remain' = <<>>
    /\ consumer' = "task"
    /\ UNCHANGED <<info, planVars, cur, next, clientVars, awake, history>>

(* runPlan: the front of the ready queue, ...                              *)
PopPlan ==
    /\ consumer = "task" /\ todo # <<>>
    /\ readyQueue # <<>>
    /\ cur' = Head(readyQueue)
    /\ readyQueue' = Tail(readyQueue)
    /\ consumer' = "layer"
    /\ UNCHANGED <<info, depRef, refCount, planTypeRC, tasks, todo, remain,
                   next, clientVars, awake, history>>

(* ... or nothing, and generatePlan is called.                             *)
NothingReady ==
    /\ consumer = "task" /\ todo # <<>>
    /\ readyQueue = <<>>
    /\ consumer' = "generate"
    /\ UNCHANGED <<info, planVars, tasks, todo, remain, cur, next, clientVars, awake, history>>

(* The layer runs (in an inference, a forward plan only; an update plan's  *)
(* is marked by the Updater, on this thread and with the same calls).      *)
RunLayer ==
    /\ consumer = "layer"
    /\ next' = 1
    /\ consumer' = "notify"
    /\ UNCHANGED <<info, planVars, tasks, todo, remain, cur, clientVars, awake, history>>

(* Mutant: one dependency is enough.                                       *)
NotifyFinishFirst ==
    /\ consumer = "notify"
    /\ next <= Len(Notify(cur))
    /\ LET target == Notify(cur)[next] IN
          /\ depRef' = [depRef EXCEPT ![target] = @ - 1]
          /\ readyQueue' = IF depRef[target] = DepCount(target)
                           THEN Append(readyQueue, target) ELSE readyQueue
          /\ consumer' = IF depRef'[target] >= 0 THEN consumer ELSE "aborted"
    /\ next' = next + 1
    /\ UNCHANGED <<info, refCount, planTypeRC, tasks, todo, remain, cur,
                   clientVars, awake, history>>

(* notifyFinish, for one plan of the notifyList, and its assertion.        *)
NotifyFinish ==
    /\ consumer = "notify"
    /\ next <= Len(Notify(cur))
    /\ LET target == Notify(cur)[next] IN
          /\ depRef' = [depRef EXCEPT ![target] = @ - 1]
          /\ readyQueue' = IF depRef'[target] = 0
                           THEN Append(readyQueue, target) ELSE readyQueue
          /\ consumer' = IF depRef'[target] >= 0 THEN consumer ELSE "aborted"
    /\ next' = next + 1
    /\ UNCHANGED <<info, refCount, planTypeRC, tasks, todo, remain, cur,
                   clientVars, awake, history>>

(* markDone and its assertions.                                            *)
MarkDone ==
    /\ consumer = "notify"
    /\ next > Len(Notify(cur))
    /\ refCount' = refCount - 1
    /\ planTypeRC' = [planTypeRC EXCEPT ![PlanType(cur)] = @ - 1]
    /\ consumer' = IF refCount' >= 0 /\ planTypeRC'[PlanType(cur)] >= 0
                   THEN "task" ELSE "aborted"
    /\ trained' = IF refCount' = 0 THEN trained + 1 ELSE trained
    /\ UNCHANGED <<info, depRef, readyQueue, tasks, todo, remain, cur, next,
                   clientVars, awake, stopped>>

(* generatePlan, under planMutex.  Plans of this mini batch remain: the    *)
(* task does, too.                                                         *)
PlansRemain ==
    /\ consumer = "generate"
    /\ refCount > 0
    /\ remain' = Append(remain, Head(todo))
    /\ todo' = Tail(todo)
    /\ consumer' = "task"
    /\ UNCHANGED <<info, planVars, tasks, cur, next, clientVars, awake, history>>

(* STOP_TRAIN_WHEN_GOT_NAN_LOSS.                                           *)
StopOnNanLoss ==
    /\ consumer = "generate"
    /\ refCount <= 0
    /\ NanLoss
    /\ stopped' = TRUE
    /\ consumer' = "finish"
    /\ UNCHANGED <<info, planVars, tasks, todo, remain, cur, next, clientVars,
                   awake, trained>>

(* The mini batch, and the epoch, that come next (under PlanInfo's mutex). *)
LastOfEpoch == info.miniBatch = info.miniBatchCount - 1
NextEpoch   == IF LastOfEpoch THEN info.epoch + 1 ELSE info.epoch

(* Mutant: the epoch is left past the last one.                            *)
LastMiniBatchPast ==
    /\ consumer = "generate"
    /\ refCount <= 0
    /\ NextEpoch >= info.epochCount
    /\ info' = [info EXCEPT !.epoch = NextEpoch,
                            !.miniBatch = info.miniBatchCount - 1]
    /\ consumer' = "finish"
    /\ UNCHANGED <<planVars, tasks, todo, remain, cur, next, clientVars, awake, history>>

(* None: the indices stay at the last mini batch.                          *)
LastMiniBatch ==
    /\ consumer = "generate"
    /\ refCount <= 0
    /\ NextEpoch >= info.epochCount
    /\ info' = [info EXCEPT !.epoch = NextEpoch - 1,
                            !.miniBatch = info.miniBatchCount - 1]
    /\ consumer' = "finish"
    /\ UNCHANGED <<planVars, tasks, todo, remain, cur, next, clientVars, awake, history>>

(* Mutant: an epoch has one mini batch more.                               *)
NextMiniBatchLate ==
    /\ consumer = "generate"
    /\ refCount <= 0
    /\ NextEpoch < info.epochCount
    /\ info' = [info EXCEPT !.epoch = NextEpoch,
                            !.miniBatch = IF @ = info.miniBatchCount THEN 0 ELSE @ + 1]
    /\ depRef' = FreshRefs
    /\ readyQueue' = FreshQueue
    /\ refCount' = Cardinality(Plans)
    /\ planTypeRC' = FreshTypes
    /\ remain' = Append(remain, Head(todo))
    /\ todo' = Tail(todo)
    /\ consumer' = "task"
    /\ UNCHANGED <<tasks, cur, next, clientVars, awake, history>>

(* Mutant: depRefMap is left as the last mini batch ended.                 *)
NextMiniBatchKeepsRefs ==
    /\ consumer = "generate"
    /\ refCount <= 0
    /\ NextEpoch < info.epochCount
    /\ info' = [info EXCEPT !.epoch = NextEpoch,
                            !.miniBatch = IF LastOfEpoch THEN 0 ELSE @ + 1]
    /\ readyQueue' = FreshQueue
    /\ refCount' = Cardinality(Plans)
    /\ planTypeRC' = FreshTypes
    /\ remain' = Append(remain, Head(todo))
    /\ todo' = Tail(todo)
    /\ consumer' = "task"
    /\ UNCHANGED <<depRef, tasks, cur, next, clientVars, awake, history>>

(* One: everything is set up for it, and the task remains.                 *)
NextMiniBatch ==
    /\ consumer = "generate"
    /\ refCount <= 0
    /\ NextEpoch < info.epochCount
    /\ info' = [info EXCEPT !.epoch = NextEpoch,
                            !.miniBatch = IF LastOfEpoch THEN 0 ELSE @ + 1]
    /\ depRef' = FreshRefs
    /\ readyQueue' = FreshQueue
    /\ refCount' = Cardinality(Plans)
    /\ planTypeRC' = FreshTypes
    /\ remain' = Append(remain, Head(todo))
    /\ todo' = Tail(todo)
    /\ consumer' = "task"
    /\ UNCHANGED <<tasks, cur, next, clientVars, awake, history>>

(* Mutant: doneCount is looked at before it is counted.                    *)
FinishTaskLate ==
    /\ consumer = "finish"
    /\ info' = [info EXCEPT !.doneCount = @ + 1]
    /\ awake' = IF info.doneCount = DopCount THEN awake \cup {Head(todo)} ELSE awake
    /\ todo' = Tail(todo)
    /\ consumer' = "task"
    /\ UNCHANGED <<planVars, tasks, remain, cur, next, clientVars, history>>

(* The task is done, and as dopCount is 1 so is the run: with doneCount at *)
(* dopCount the requester is signalled.                                    *)
FinishTask ==
    /\ consumer = "finish"
    /\ info' = [info EXCEPT !.doneCount = @ + 1]
    /\ awake' = IF info.doneCount + 1 = DopCount THEN awake \cup {Head(todo)} ELSE awake
    /\ todo' = Tail(todo)
    /\ consumer' = "task"
    /\ UNCHANGED <<planVars, tasks, remain, cur, next, clientVars, history>>

TasksSeenTo ==
    /\ consumer = "task" /\ todo = <<>>
    /\ consumer' = "idle"
    /\ UNCHANGED <<info, planVars, tasks, todo, remain, cur, next, clientVars, awake, history>>

-----------------------------------------------------------------------------
TaskConsumer ==
    /\ \/ TakeTasks
       \/ PopPlan
       \/ NothingReady
       \/ RunLayer
       \/ NotifyFinish
       \/ MarkDone
       \/ PlansRemain
       \/ StopOnNanLoss
       \/ LastMiniBatch
       \/ NextMiniBatch
       \/ FinishTask
       \/ TasksSeenTo
    /\ UNCHANGED networkVars

(* A client makes its next request; what its handler then does.            *)
Request(c) == (Run(c) \/ Reset(c) \/ MiniBatch(c)) /\ UNCHANGED networkVars
Handler(c) == (ResetPlan(c) \/ GiveTask(c) \/ Reply(c)) /\ UNCHANGED networkVars

(* A failed assertion ends the process.                                    *)
Running == consumer # "aborted"

Next == Running /\ (TaskConsumer \/ \E c \in Clients : Request(c) \/ Handler(c))

Spec == Init /\ [][Next]_vars

(* The threads run on; nobody has to make a request.                       *)
FairSpec ==
    /\ Spec
    /\ WF_vars(Running /\ TaskConsumer)
    /\ \A c \in Clients : WF_vars(Running /\ Handler(c))

-----------------------------------------------------------------------------
(* Properties.                                                             *)

(* Between the two halves of a reset the counters mean nothing.            *)
Resetting == \E c \in Clients : client[c] = "resetPlan"

(* The plans that are not done: that wait, are ready, or are being run.    *)
AtWork(p) == cur = p /\ consumer \in {"layer", "notify"}
Undone == {p \in Plans : depRef[p] > 0 \/ p \in ToSet(readyQueue) \/ AtWork(p)}

(* refCount tells a mini batch is over, the moment it reaches 0, because   *)
(* it counts the plans that are not done; and a plan is counted, queued    *)
(* and run once.                                                           *)
RefCountExact ==
    ~Resetting =>
        /\ refCount = Cardinality(Undone)
        /\ IsInjective(readyQueue)
        /\ \A p \in ToSet(readyQueue) : depRef[p] = 0 /\ ~AtWork(p)

(* A plan waits for as many notifications as the plans before it have not  *)
(* sent: no one is lost, or counted for a mini batch it was not sent in.   *)
(* And the plans never wait for one another: of those that are not done,   *)
(* one waits for nothing, so that the mini batch goes on.                  *)
Sent(n) ==
    LET q == n[1] IN
    q \notin Undone \/ (q = cur /\ consumer = "notify" /\ n[2] < next)

DepRefExact ==
    ~Resetting =>
        /\ \A p \in Plans : depRef[p] = Cardinality({n \in Awaited(p) : ~Sent(n)})
        /\ Undone # {} => \E p \in Undone : depRef[p] = 0

(* The reply of a run says that the network was trained with every mini    *)
(* batch of every epoch it was built for since it was reset, and that of a *)
(* mini batch that this one was run; unless the training was stopped.      *)
ReplyMeansTrained ==
    \A c \in awake : ~stopped =>
        trained = IF Head(script[c]) = RunNetwork THEN Epochs * MiniBatches ELSE 1

(* A run that was asked for is answered.                                   *)
RunAnswered ==
    \A c \in Clients : client[c] = "await" ~> client[c] = "idle"

-----------------------------------------------------------------------------
(* What the layers say of the order of their steps.  A layer reads what    *)
(* the layers before it wrote; what works in place comes in the order of   *)
(* the IDs.                                                                *)
ForwardNeeds(net, l) ==
    {k \in DOMAIN net \ {l} : \E t \in ToSet(net[l].inputs) \cap ToSet(net[k].outputs) :
        ~(t \in ToSet(net[l].outputs) /\ k > l)}

(* The layers that propagate a gradient to what a layer wrote.             *)
BackwardNeeds(net, l) ==
    {k \in DOMAIN net \ {l} : \E i \in DOMAIN net[k].inputs :
        LET t == net[k].inputs[i] IN
        /\ t \in ToSet(net[l].outputs) /\ net[k].propDown[i]
        /\ ~(t \in ToSet(net[l].inputs) /\ k < l)}

Unread(net, l) ==
    \E t \in ToSet(net[l].outputs) : \A k \in DOMAIN net : t \notin ToSet(net[k].inputs)

(* The layers that get a gradient: those nobody reads, the losses, and     *)
(* those that one of them propagates to; no others.  A layer without, as   *)
(* the prior boxes of SSD, has nothing to work on: its backward plan may   *)
(* run at any time.                                                        *)
HasGradient ==
    [net \in Networks |->
        LET all    == WithSplits(net)
            behind == [l \in DOMAIN all |-> BackwardNeeds(all, l)]
            losses == {l \in DOMAIN all : Unread(all, l)}
            Has(G) == /\ losses \subseteq G
                      /\ \A l \in DOMAIN all : behind[l] \cap G # {} => l \in G
        IN  {l \in DOMAIN all : \A G \in SUBSET DOMAIN all : Has(G) => l \in G}]

DataNeeds(p) ==
    LET net == WithSplits(network)
        l   == p \div 3
    IN  CASE PlanType(p) = 0 -> {Forward(k) : k \in ForwardNeeds(net, l)}
          [] PlanType(p) = 1 ->
                {Backward(k) : k \in BackwardNeeds(net, l)} \cup
                {Forward(k) : k \in {l} \cap HasGradient[network]}
          [] OTHER -> {Backward(l)}

-----------------------------------------------------------------------------
(* The counters and the queue implement PlanSpec.  A plan ran when its     *)
(* notifications were all received and it is no longer in the queue, or    *)
(* about to be run; a reset takes effect with its first half.              *)
Ran == IF Resetting THEN {}
       ELSE {p \in Plans : /\ depRef[p] <= 0
                           /\ p \notin ToSet(readyQueue)
                           /\ ~(cur = p /\ consumer = "layer")}

Abstract == INSTANCE PlanSpec WITH
                plans <- Plans,
                needs <- Needs,
                batch <- <<info.epoch, info.miniBatch>>,
                batchCount <- info.miniBatchCount,
                ran <- Ran

(* A layer is run when its data are there: forward, when the layers that   *)
(* write its inputs (the split layers among them, and those that work in   *)
(* place) have run in this mini batch; backward, when itself has, if it gets *)
(* a gradient, and those that propagate to it have; an update, when its    *)
(* gradient is complete.                                                   *)
DataReady == consumer = "layer" => DataNeeds(cur) \subseteq Ran

(* In each mini batch every plan runs once, after all it depends on, and   *)
(* the mini batches come in order.                                         *)
ImplementsPlanSpec == Abstract!Spec
=============================================================================
