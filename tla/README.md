# A TLA+ development of SoooA

SoooA (also Laonsill) is a deep-learning server in C++ and CUDA.  Clients send
it jobs over a socket: build a network, run it, reset it, fetch its results.
Inside, a handful of threads share queues, condition variables and reference
counts.  This directory models that machinery in TLA+, checks it with TLC and
proves part of it with TLAPS.  All paths below are relative to `SoooA/src`.

## 1. Inventory

| part | state | operations | what makes it correct |
|---|---|---|---|
| **ThreadMgmt** `core/ThreadMgmt.*` | one `ThreadContext` per thread: mutex, condition variable, `flag`, atomic `event` bits | `signal`, `signalAll`, `wait` | no event is hidden; a timed wait takes every event in the end |
| **Broker** `core/Broker.*` | `contentMap`, `waiterMap`, ad-hoc sessions and their free list, four mutexes | `publish`, `subscribe` | each reply reaches its asker, once; no wake-up is lost; a reused session is clean |
| **Worker** `core/Worker.*` | job queue, ready queue of job consumers, one task queue per GPU, reply jobs | `pushJob`, producer, job consumers, task consumers, `HaltMachine` | a job is handled once; handlers' waits end when their task is done; a queued job is taken, unless every consumer has gone out of service |
| **LogicalPlan** `plan/LogicalPlan.*` | notify lists and counts of forward, backward and update plans, split layers | `build`, `cleanup` | the lists order every plan behind the data it needs, through in-place and split layers |
| **PhysicalPlan**, **PlanOptimizer** `plan/` | per network: dependency counts, ready queue, `refCount`, per-type counts; `PlanInfo` with epoch and mini-batch indices | `runPlan`, `generatePlan`, `notifyFinish`, `markDone`, `reset` | in each mini batch every plan runs once, in dependency order; a run ends with its last mini batch and is answered |
| **Network** `network/Network.*` | properties, layers, the queue of saved parameter files, the best loss | `build`, `run`, `reset`, `runMiniBatch`, `handleBestLoss`, `handleIntervalSaveParams`, `load` | the order of calls clients may make; whenever the server dies, the best parameters are in a complete file |
| **MeasureEntry** `measure/` | per network: a ring of measures, a status and a reader count per slot, one mutex | `addData`, `getData` | a reply holds whole measures, the ones asked for |
| **Communicator** `sess/` | listener thread, session threads, free sessions, fd map, two counts | accept, hand over, receive, release, `wakeup`, `halt` | a socket has one session; sessions come back; no connection is forgotten; shutdown ends |
| **InputDataProvider** `core/InputDataProvider.*` | per network: pools of prefetched data | `addPool`, `getData`, `handleIDP`, `removePool` | data arrive in the reader's order; one provider per network, gone before its pools are; runs are fed |
| **Task pools, jobs** `core/Task.*`, `core/Job.*` | free lists of recycled tasks, job IDs, reply jobs | `getElem`, `releaseElem` | a recycled task carries nothing over |
| **Updater**, **Donator** | access counts of shared parameters | `updateParams`, donate, receive | an update is applied once all contributed |
| **SyncMem**, **HotLog** | host and device copies, log buffers | mark modified, flush | readers see what was written |
| layers, data sets, examples, tools, generated tables | numerics, files | | outside the reach of this method |

How they interact: the listener hands a socket to a session thread, which pushes
a job for each message and subscribes to its reply (`Communicator::handlePushJobMsg`).
The producer counts jobs and signals job consumers.  A job consumer handles the
job; to run a plan or to allocate a tensor it puts tasks into the queues of task
consumers, signals them and waits on its own `ThreadContext`, the very one the
producer wakes it up on.  The task consumer runs plans in the order that
`LogicalPlan` laid down, takes its input from the pools an `InputDataProvider`
job fills, and at the end of each mini batch adds a measure and saves
parameters; then it signals back.  The job consumer publishes the reply.

Where it is hard: `wait` reads a flag outside its mutex and has no predicate;
several kinds of signal share one context per thread; two queues (jobs and
ready consumers) are read one after the other; the broker publishes under four
locks; the listener compares counts that other threads change one by one;
measures are copied outside the mutex; counters decide when a mini batch ends;
files are replaced while the server may die; halting has to stop all of it.  The
list with lines is in `PROJECT.json` under `hazards`.

## 2. Modules

| module | models | state and actions |
|---|---|---|
| `ThreadMgmt` | one `signal`/`wait` in single accesses | `SignalEvent`, `SignalFlag`, `SignalNotify` are the three statements of `signal` under the mutex; `WaitTestFlag`, `WaitClearFlag`, `WaitExchange` the unlocked head of `wait`, `WaitBlock`, `WaitTimeout`, `WaitReturn` the rest |
| `BrokerSpec` | what the broker promises | a thread asks for a reply; it is published; the thread that awaits it is handed it |
| `Broker` | `publishEx` and `subscribeEx`, one step per lock hold or unlocked access | `Publish*`, `Subscribe*` in the order of the code; implements `BrokerSpec` |
| `ThreadContexts` | the `ThreadContext`s as other modules use them | `Signal` in one step; `TestFlag`, `Block`, `WakeForNoReason`, `Returns` for `wait` |
| `Worker` | all worker threads and queues | `PushJob`; `GetJobCount`, `GetReadyJCs`, `SignalJC` for the producer; `PopJob` to `InsertJCReadyQueue` for a job consumer; `TakeTasks` to `TaskConsumerLoop` for a task consumer |
| `LogicalPlan` | `LogicalPlan::build` as operators | `SplitTensors`, `ForwardNotify`, `BackwardNotify`, `SplitForwardNotify`, `NotifyList`, put together by `Build` |
| `PlanSpec` | what running a network means | plans run once, in order; mini batches in order |
| `PhysicalPlan` | the counters and queue of one network that `LogicalPlan` planned, its task consumer, the handlers of several clients | `Run`, `Reset`, `MiniBatch` and `Reply` for a client; `PopPlan` to `FinishTask` for the task consumer; implements `PlanSpec` |
| `MeasureEntry` | the ring of measures | `AddLocks`, `AddEnds` for the writer; `GetData`, `LockRetry`, `Copy`, `Unlock` for a reader |
| `ParamFiles` | the parameter files of a training | `EndMiniBatch`; `OpenBest`, `SaveBest`, `RemoveBest`; `RemoveOldest`, `OpenInterval`, `WriteInterval`; `Reset` |
| `TrainingRecords` | the two together, in the order of `generatePlan` | the end of a mini batch adds the measure, then saves |
| `Communicator` | listener, session threads, `halt`, and the clients of the client library | `Select` to `ListenerNotify` for the listener; `Wait`, `Sleep` to `FreeSession` for a session thread; `Connect`, `Send` for a client |
| `InputDataProvider` | the pools of one network, its provider, the task consumer that takes data, the handler that destroys the network | `RunNetwork`, `GetNothing`, `PeekData`, `GetData` for the caller; `HandleIDP`, `CollectPools` to `SignalWaiter`, `AnswerCleanup` for the provider; `RemovePool` to `ErasePoolInfo` |
| `MC*` | instances for TLC | |
| `*Proofs` | theorems, next to the module they are about | |
| `QueueLemmas` | what popping, pushing, joining and cutting do to a sequence, for all of them | |

`Worker` and `InputDataProvider` extend `ThreadContexts`, `PhysicalPlan` extends
`LogicalPlan`, `TrainingRecords` extends `MeasureEntry` and `ParamFiles`.

Definitions that begin with `(* Mutant` are variants of the action that
follows, with a plausible mistake.  No specification uses them: replacing the
action by its mutant must break the property named for it in `PROJECT.json`,
which shows that the property can fail.

### Reductions

* `ThreadContexts` takes `signal` as one step.  It is one hold of a mutex in the
  code; `ThreadMgmt` splits it.  An overlap with the unlocked head of `wait` has
  the outcome of a signal before or after that head.  A flag raised for a
  thread already past its test is not kept, as `wait` lowers it before anyone
  looks at it again.
* `Worker`: a reply job enters `reqPubJobMap` in the step that queues its job;
  nobody looks for it earlier.  `HandlerStep` is one step with `popJob`: between
  them a consumer touches its own job only.
* `Worker`: `jcReadyQueue` holds thread IDs; the code holds indices and converts
  them (`getThreadID`).  Each run has a network of its own.
  `PhysicalPlan` is where requests share one.
* `LogicalPlan`: the maps the code fills in passes over all layers are
  expressions over the layers; a layer is its ID, the names of its inputs and
  outputs, whether it learns and which inputs it propagates to.  The code gives
  split layers their IDs in the order of tensor names, the model in any order.
  `WellFormed` is what the JSON networks of the repository have in common.
* `PhysicalPlan`: signals are exact (`awake`), `generatePlan` is one step under
  its two mutexes, and the unlocked writes at the head of a reset are one step.
* A network is run by one task consumer in `PhysicalPlan` (`DopCount` is 1, the
  one context `PlanOptimizer` implements).  `Worker` also runs with
  `DopCount` 2, what its counting of finished tasks is written for.
* `MeasureEntry`: what is done under `entryMutex` is one step; the copies that
  are made outside it are steps of their own, a slot being half written in
  between.  A measure is the number of its iteration.
* `ParamFiles`: a file is absent, partly written or complete, in which case its
  content is the loss of its parameters.  The server may die between any two
  steps: the invariants are about the files on disk in every state.  What
  `BestKept` compares the files with, `least`, is a history of the losses alone:
  it counts an iteration when `handleBestLoss` returns, whatever that decided.
* `Broker`: `received` is a history of what each subscriber was handed, in order;
  no action reads it.
* `Communicator`: the predicate of a session thread's wait and its sleep are two
  steps, `sessMutex` held in between, so `active` can be set there, but nobody
  notified.  A message is received and handled in one step; what `pushJob` and
  `subscribe` do in between is `Worker` and `Broker`.  A client says Welcome first
  and GoodBye last, as the client library does.  Socket numbers differ from
  session numbers (an `ASSUME`; see below).
* `InputDataProvider` starts when `addPool` has made the pools, each with a datum
  read ahead.  A datum is its number in the reader's stream.  A mini batch has one
  datum per input layer, which the layer peeks at (`reshape`) and then takes.
  When it must not block, the caller sleeps and asks again, which is no step.
  `removePool` reads the provider's thread ID and signals it in one step.  `Halt`
  and spurious wake-ups are left to `Worker`.
* Sender and Receiver threads wait for `Halt` only and are left out.

## 3. Runs

| run | instance | shows |
|---|---|---|
| `threadmgmt` | a timed and an untimed thread, 3 signals | pending events are announced by the flag; timed waiters take them |
| `broker` | 3 jobs, 2 subscribers, 1 ad-hoc session, both accesses, a lookup may miss while another job is inserted | all invariants, every subscriber is served, each gets what it asked for, once (`BrokerSpec`) |
| `worker` | a build of two tensors and a run side by side, 1 GPU, 2 job consumers | no stray wake-up ends a handler's wait; one place in the ready queue |
| `worker_live` | a run over 2 GPUs and a plain job, 1 job consumer | the reply means all task consumers are done; tasks are taken; jobs are, unless the consumer is out of service (asleep past its signal, or without a place in the ready queue) |
| `worker_halt` | a halt and a plain job, spurious wake-ups, 2 job consumers | a job is neither lost nor doubled when halting |
| `physical_plan` | 4 networks, 2 epochs of 3 mini batches, 4 sequences of runs, resets and single mini batches; the loss may become NaN | counters exact, data ready when they are read, replies truthful, runs answered, `PlanSpec` implemented |
| `input_data_provider` | 2 input layers, pools of 3, 2 runs of 3 mini batches, 2 job consumers, then the network is destroyed | data in order, one provider, gone before the pools; a caller at a pool that is being filled gets its datum |
| `communicator` | 2 sessions, 3 socket numbers, 3 connections, `HaltMachine` at any time | sockets and sessions match, the counts tell the truth, no wake-up is lost, each connection is served, halting ends all session threads |
| `training_records` | a ring of 3 measures, 2 readers, 4 iterations, a file every iteration of which 2 are kept, the best from the second on, a reset | no slot is written while it is read, backward replies are exact, the files that matter are there at every moment |

The bounds are small because the hazards need few actors: one overtaking
publisher, one reused session, one consumer woken up in vain.  The broker has
more jobs than subscribers and more subscribers than sessions, so a session
is reused while an earlier publisher may still be on its way.  The worker has
fewer consumers than jobs in one run and as many in another.  The networks are
the one of `PlanBuilderTest`, the end of LeNet (in-place layer, two split
layers, an accuracy layer that does not propagate), two branches that read an
in-place layer, and a branch the loss reads without propagating to it (the prior
boxes of SSD); three mini batches have a first, a middle and a last.  The pools
wrap around within a run, and the second run finds a provider that the first one
started.  The communicator has more connections than sessions, so a session and
a socket number are used again, and a connection may have to wait.  The ring of
measures wraps around, so a read has two areas, and the readers' areas overlap.
`MaxSignals`, `MaxPasses`, `Tensors`, `Runs`, `ConnCount`, `MaxIterations` and
`Scripts` bound how often the environment acts; the loops they cut repeat states
that were seen.

Deadlock is checked in the thread and broker models.  The others end when their
clients have made their requests or the bound is reached, so there it is not.

### What the code does otherwise than it says

Each of these is a run that TLC must find violated.

| run | what happens |
|---|---|
| `job_left` | the producer's signal falls between a job consumer's test of `flag` and its `cv.wait` (`ThreadMgmt.cpp:105`), which has no timeout (`Worker.cpp:264`): the consumer sleeps with its flag up and is not in the ready queue any more, and the job stays in the queue for ever.  The comment in `ThreadMgmt.h:40-45` says that a thread is never left not running when it has to; `JOB_CONSUMER_PERIODIC_CHECK_TIME_MS`, "the period of time the job consumer checks the job" (`param/paramDef.json:365`), is commented out (`Worker.cpp:263`) |
| `worker_never_halts` | `Halt` that comes with another bit is not recognised (`Worker.cpp:235`; "threads will be eventually halt", `Communicator.cpp:378`) |
| `input_data_provider_starves` | `handler` returns when all pools are full, and the wait after it has no timeout; `getData` signals nobody.  A run of more mini batches than are filled by then starves, whether callers block or ask again (`InputDataProvider.cpp:222`; the comment at 245-246 has the provider work on until the network is destroyed) |

Further ones met while modelling have no run of their own: they are outside the
models, or the repository says nothing to the contrary, or too little to hold
the code to.  Three lines come close, and the entries below name them:
`Network.h:80-82` (a reset is for running the network again),
`Communicator.cpp:92-95` (counts that differ for a moment do no harm) and
`main.cpp:298` ("threads will be eventually halt").

The passing runs leave some of these cases out, as the properties they check fail
there: `worker` has no halt, the `Scripts` of `physical_plan` no run after a
single mini batch, the bounds of `input_data_provider` no network that needs but
the datum read ahead, and an `ASSUME` of `Communicator` no socket number that is
a session number.

Threads and jobs:

* A job consumer woken up without a job never gets back to the ready queue
  (`Worker.cpp:271`): the producer may count a job that a consumer, the same one even,
  takes and answers before the producer looks who is ready.  `JobTaken` counts such a
  consumer as out of service, as it does one that slept through its signal
  (`job_left`).
* `contentMap` is read without its mutex while another job is inserted
  (`Broker.cpp:155`).  `OverlapMayMiss` models it: the lookup may miss, which is
  what `SASSERT0` there rules out.
* Halting ends a handler's wait for a tensor early (`PhysicalPlan.cpp:89`):
  `TensorIsAllocated` fails as soon as one of the jobs of `worker` is a halt.

Plans:

* `runMiniBatch` overwrites the counts of epochs and mini batches, so a reset and
  a run after it train only that part (`Network.cpp:174`), though a reset is what
  `Network.h:80-82` asks for before the next run.
* A reset by one client while another one's run is going on fails the
  assumptions at `PhysicalPlan.cpp:273` and `286`.
* `reset` does not clear `planTypeRCMap` (`PhysicalPlan.cpp:518`).
* In the SSD and Faster R-CNN networks a layer whose only readers do not
  propagate has a backward plan with nothing to wait for: it runs at the start of
  the mini batch, before the layer's own forward.  `DataReady` asks for the
  own forward only where a gradient arrives.
* A network that ends in an in-place layer fails `SASSERT0`
  (`LogicalPlan.cpp:286`).

Sessions:

* The listener reads `active` before a concurrent release and `running` after
  it, and wakes up a free session, whose thread then fails
  `SASSERT(fd != -1)` (`Communicator.cpp:514`; `Communicator.cpp:92-95` expects
  stray wake-ups to be harmless).  So does a connection for which no session is
  free (207).  In the model either sets `aborted`, and the process is gone.
* A client that goes away without GoodBye fails the assertion at 537; the
  clients of the model do not.
* `main` calls `halt()` itself (`main.cpp:298`, "threads will be eventually halt")
  and is counted as a session: with one session nobody is woken up, and
  `joinThreads` waits for ever.  A session
  inside `subscribe` delays `halt()`; a connection accepted while halting is
  never served.
* `replyRet` is read uninitialised if the first message is GoodBye or
  HaltMachine; a job is used after `pushJob` gave it away (452).
* `releaseFd` erases by session number (79): with a socket number equal to a
  session number it takes another session's entry away, and the listener's
  iterator is invalidated.

Input data:

* If a network never needs more than the datum read ahead, it can be destroyed
  before its `StartIDP` job is handled (`InputDataProvider.cpp:97`, `213`):
  `PoolsOutliveProvider` then fails.
* `getData` gives the element back before the layer has read it
  (`InputDataProvider.cpp:173`).

Measures and files:

* `startIterNum` of a backward read that wraps around is too high by the size of
  the queue (`PrintMeasureTest.cpp:58, 82` prints it).
* A forward read compares with the start it was given, not with the slot it
  stands for (`MeasureEntry.cpp:253`): after the first lap of the ring it copies
  more, or less, than there is.  `SnapshotExact` is exact for backward reads.
* `queueIterNumBegin` is one lap early when the head is at the last slot, so a
  forward read may ask for the slot being written, and tries again until the
  writer has moved on; after ten vain tries `addData` fails an assertion.
* `removeEntry` deletes an entry that a reader may be copying (`Network.cpp:81`).
* After a reset the iterations start again, but the path of the best file stays:
  the file just written may have the same path and be removed
  (`Network.cpp:278-281`), and a path may be in the queue of interval files
  twice.  `BestKept` and `IntervalKept` speak of the time before a reset.
* When a NaN loss does not stop the training, every later loss counts as best.
  With `keepSaveIntervalModelCount` 0 an empty queue is popped.

Donator: `receive` and `releaseReceiver` count in a copy of the map's element
(`Donator.cpp:44`, `86`).  The count stays 0, the donator is deleted while
receivers use it, and a later `releaseReceiver` fails its assertion.

`SASSUME0` is an assertion in debug builds and nothing in release builds; there
the program goes on with the value the assertion excludes.

## 4. Fairness

A thread that can take a step takes it: weak fairness per thread (in
`ThreadMgmt` per step of a thread), as the scheduler of the operating system gives
it.  Timed waits time out; `select` in the listener returns, by its timeout if nothing comes.  Nobody is forced to
connect, to send a message, to push a job, to make a request or to send a signal,
and spurious wake-ups are never counted on.  So `HaltEndsSessions` speaks of the
executions in which no session is kept for ever by the client it serves or the
job it waits for.  In the broker, weak fairness per function call is enough
because a thread takes each mutex a bounded number of times.

## 5. Proofs

Every theorem assumes the `ASSUME`s of the modules and what is said here, and
holds for every value of the constants.  In each proof module there is one lemma
per action, under it one step per part of the invariant that the action
disturbs; frame lemmas take care of the parts it leaves alone.

`ThreadMgmtProofs`: type correctness and `FlagAnnouncesEvent` for any number of
threads and signals.  The latter is inductive with the type invariant.  For each
there is one lemma about the steps of `signal()` and one about those of `wait()`;
`TwoFunctions` says that nothing else happens.

`BrokerProofs`: for any sets of jobs and subscribers and any
number of ad-hoc sessions.  The invariants of the runs are not inductive;
`BrokerInv` adds

* who may hold `contentMutex` and each `sessMutex` (`MutexInv`),
* that the subscriber of a job is unique, and what its publisher has done by
  the time it is served (`JobInv`),
* that whatever refers to a session (a registration, a publisher's target)
  belongs to the subscriber that holds it (`ReferenceInv`),
* that a raised `found` has its reason in a publisher past `PublishFound` for the
  holder's own job (`FoundInv`),
* `CoverInv`, the form of `WaiterCovered` that also covers a subscriber not yet
  registered.

From `BrokerInv` follow the five invariants of the run and that every step
maps to a step of `BrokerSpec` or to a stutter (`BrokerRefines`): a thread awaits
the job it asked for last until it is handed that job's reply, which is in
`contentMap` then, so it gets each reply once and in the order it asked.

`WorkerProofs`: `JobHandledOnce` for any set of jobs and any number of GPUs and
job consumers, with halts and spurious wake-ups.  `JobInv` adds to it the types of
the variables that hold jobs, that a consumer is at a step that its job's kind can
take it to (`StepInv`), and that a consumer between jobs has none (`IdleInv`).
There is one lemma per action that moves a job; `OtherStep` covers the rest, which
leave those variables alone.

Without halts and spurious wake-ups (`Quiet`) also `ReadyOnce`, `TensorIsAllocated`,
`RunReplyMeansDone` and type correctness.  `QuietInv` adds

* what a thread's step says about its queues and its loops (`PlaceInv`),
* that a job consumer is signalled only at a step that leads to the wait the
  signal is meant for, and that a raised flag goes with an event (`SignalInv`),
* that a task is in one queue, once, and its requester waits for it (`TaskInv`),
* that a tensor's task is with one task consumer until that signals (`BuildOf`),
* that `doneCount` and the task consumers still at work on a run add up to the
  tasks given, and that the last one done, and no other, signals (`RunOf`),
* that the counts of a job are 0 until it is taken (`CountInv`).

The condition is needed: TLC shows that `TensorIsAllocated` fails with a halt (see
above) and with spurious wake-ups, which end a handler's wait early.

`PhysicalPlanProofs`: `RefCountExact`, `DepRefExact` and the safety half of
`ImplementsPlanSpec`, for any networks, epochs and mini batches and any requests
of one client.  `HandlerInv` says which steps of client and task consumer go
together (with one client there is one task at most), `CounterInv` that
`refCount`, `depRef` and the ready queue are those of the set of plans done and
of the notifications sent so far, `InfoInv` how epoch and mini batch index follow
from the mini batches trained.  Assumed: that there is one client
(`\E c : OneClient(c)`), as resets that overlap a run fail the code's own
assumptions, and that the networks are well-formed (`WellFormed`: what the JSON
networks of the repository have in common, checked by TLC for those of the run).
That `Build` then makes finitely many plans, one at least, and that whoever is
notified is one of them, is proved (`BuildType`).  Under the same assumptions also
`TypeOK`, `DataReady` (below), and
`ReplyMeansTrained` for scripts in which no run comes after a single mini batch
(`RunsFirst`; section 3 says what such a run trains).  `ScriptInv` says what is
left to do of the request being served, `TrainedInv` that the mini batches
trained since the reset are those epoch and mini batch index have passed, up to
the last one of the run, after which `generatePlan` counts once more.

`NotificationsAreCounted` also says that a mini batch never gets stuck, in any
well-formed network: of the plans that are not done one waits for nothing.  Each
plan of `LogicalPlan::build` has a `Rank`, forward plans in the order of the layers
and a split layer right behind its first layer, then backward plans against it,
then the updates; whoever is notified has a greater one (`NotifyListType`).  Of the
plans that are not done the one of the least rank then waits for nobody
(`OneIsReady`), as `depRef` counts exactly the notifications of others not done.
With `RefCountExact`, `refCount` reaches 0 as long as the task consumer goes on.

`DataIsReady` is about the algorithm of `LogicalPlan::build` as much as about the
counters.  A layer needs all that wrote its inputs, also those that work in place,
and all that propagate to it; but a plan waits for few of them: of the layers
around a tensor each notifies the next, by ID, and the last of those that write
it a split layer, which notifies the others.  The proof has two halves:

* The plans that ran, with the one being run, are `Closed`: whoever notifies one
  of them is one of them.  This is where the counters come in: such a plan waits
  for nothing, so all its notifications were sent (`ExactInv`), by plans that are
  done (`NotifiersRan`).
* What a plan needs is in every closed set it is in (`NeedsCovered`), for every
  well-formed network.  `Shape` says how the sequences of those that read and
  write a tensor interleave; from it follow the notify lists (`ForwardToIs`,
  `BackwardToIs`, `SplitLayer`), and that with one layer that writes a tensor a
  closed set has those before it, forward, and those after it, backward
  (`WritersForward`, `WritersBackward`).  `NeedsFeed` and `PropagatesFeed` take
  the layers as they are renamed after the build back to the tensors.  A layer
  that gets a gradient runs forward before it runs backward because the loss
  does, which nobody reads, and the two orders run along the same ties
  (`OwnForwardCovered`).

`HasGradient`, the layers reached from a loss, is what makes the property true of
the networks of SSD, whose prior boxes run backward as the mini batch
starts.  That a layer that works in place propagates to what it works on is part
of `WellFormed`: without it TLC finds a layer run backward at once.

`InputDataProviderProofs`: type correctness, `RingHoldsStream` and `OneProvider`
for any number of layers, providers and runs, pools of any size.  `StreamInv`
relates the provider's stale counts, by step, to what the caller has taken since;
`LifeInv` relates `removePool` and the provider.  `PoolsOutliveProvider` and
`AssertionsHold` (which no run checks) are proved where the runs need more than
the datum read ahead (`NeedsProvider`: `Runs * Demand >= 2`); with one datum in all
TLC shows that they fail.

`CommunicatorProofs`: `SessionsConserved`, `ServesOwnSocket`, `NetArmed` and
`WakeupComes` for any number of sessions, sockets and connections.  `SessionInv`
says, step by step, which session threads have a socket: those in the free list rest
and have none, the others have an open one of their own until they close it, and no
open socket is without a session.  What it says of a free session's thread leaves
room for stray wake-ups.  `CountInv` says which sessions `activeSessCount` and,
until a halt, `runningSessCount` count at each step; `NetArmed` follows by comparing
the two sets.  `HaltInv` says that `haltCount` counts the threads that have ended,
each once, so that the session that waits in `halt()` returns when all others are
gone and not before (`HaltLeavesNobody`); with `RestInv`, the types of what is left,
it gives `TypeOK`.  `WakeupComes` follows from where the flag is raised and where it
is taken down: whoever raises it notifies next, and cannot while the thread is
between its predicate and its sleep.

`TrainingRecordsProofs`, of the files: `BestKept` and `IntervalKept` for any intervals,
counts, losses and iterations.  `FilesInv` relates the queue of paths, the best path
and the files, step by step: the new file is complete before the old one goes.
`IntervalInv` says that the queue names the last `Kept` multiples of
`SaveInterval`, by how many iterations were counted and where in saving the
thread is, and that exactly these files are complete.

Of the measures: `SlotsHeld` and `SnapshotExact`, for a ring of any size, any
requests and any number of readers; with `ParamInv` (the types, which a reset keeps)
also `TypeOK`.  `MeasureInv` adds

* what number is in each slot, from `head` and `baseIterNum` (`RingInv`),
* that a slot's holders are those whose areas it is in, up to where they have
  locked (`HoldInv`): a forward read past the first lap may hold a slot twice,
* that the areas of a reader lie in the ring and name slots that were written,
  and that all of them are locked before the copy (`PlaceInv`),
* that what a backward read has copied, and what is in the slots it has still to
  copy, are the last measures there were when it asked (`BackInv`).

The heart of it is that a writer takes only a slot without holders
(`WriterLeaves`) and that a backward read never asks for the slot at the head
(`BackwardSlots`), so that it locks all its slots in one hold of the mutex; a
forward read may have to try again, with slots of earlier tries held.

Model-checked only: all liveness (out of the prover's reach).  Every
invariant of the passing runs is a theorem.

## 6. Plan

Done: the modules above and their proofs.

Next, most important first:

1. `Worker` with `InputDataProvider`: a provider occupies a job consumer for the
   life of its network, so with one consumer nobody is left to destroy it.
2. `TaskPool`: recycled tasks, exhaustion, `updateParams` carried over.
3. `Updater` with several contexts, `SyncMem`, `HotLog`.

Theorem to prove next: that with as many sessions as subscribers `subscribe` is
never refused.

## 7. Not modelled

Layer numerics, CUDA, data readers, JSON parsing, generated tables, file formats,
clients and examples: computation or I/O without shared state.  They are most of
the repository's lines (vendored parsers, generated property tables, layers and
their kernels), so the part of the lines that the models stand for is small by
nature; what is modelled is the part where threads meet.  Memory lifetime
(a job used after its consumer deleted it) has no counterpart in the models.
`PROJECT.json` lists every part with its reason.
