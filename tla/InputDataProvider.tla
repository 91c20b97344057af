------------------------- MODULE InputDataProvider --------------------------
(***************************************************************************)
(* The input data provider, core/InputDataProvider.cpp, of one network.    *)
(* Each input layer has a pool, a ring of elements that the provider (a    *)
(* job consumer that handles a StartInputDataProvider job) fills from the  *)
(* data reader and the caller (the task consumer that runs the layer)      *)
(* takes data out of.  Every RunNetwork pushes such a job.  DestroyNetwork *)
(* stops the provider and removes the pools.                               *)
(*                                                                         *)
(* A datum is its number in the stream of the reader.  A mini batch has    *)
(* one datum, that the layer peeks at (reshape) and then takes.            *)
(***************************************************************************)
EXTENDS ThreadContexts, Integers, FiniteSets

CONSTANTS
    PoolCount,       \* the input layers of the network
    ElemCount,       \* INPUT_DATA_PROVIDER_ELEM_COUNT
    Blocking,        \* INPUT_DATA_PROVIDER_BLOCKING
    Providers,       \* the job consumers that handle StartIDP jobs
    Caller, Destroyer,
    Runs,            \* how often the client runs the network
    Demand,          \* the mini batches of a run
    NoThread, Zero   \* thread IDs -1 and 0

ASSUME IDPAssumption ==
    /\ PoolCount \in Nat \ {0} /\ ElemCount \in Nat \ {0}
    /\ Blocking \in BOOLEAN
    /\ Runs \in Nat /\ Demand \in Nat \ {0}
    /\ Caller \notin Providers /\ Destroyer \notin Providers /\ Caller # Destroyer
    /\ NoThread \notin Providers \cup {Caller, Destroyer, Zero}
    /\ Zero \notin Providers \cup {Caller, Destroyer}

Pools   == 1..PoolCount
Slots   == 0..(ElemCount - 1)
Threads == Providers \cup {Caller, Destroyer}

VARIABLES
    poolMap,         \* the pools that are there
    head, tail, remain, active, waiter, elem,    \* of an InputPool
    read,            \* how many data its reader has read
    registered,      \* is there a PoolInfo of the network?
    threadID, cleanupThreadID,                   \* of the PoolInfo
    startJobs,       \* StartIDP jobs pushed and not handled
    pc,
    at, look, filled, progress,  \* of handler(): pool, remainElemCnt, j, hasProgress
    runs, took,      \* runs started, and mini batches taken in the last one
    layer, peek      \* the pool the caller asks, and whether it peeks

ringVars     == <<head, tail, remain, active, waiter, elem, read>>
infoVars     == <<registered, threadID, cleanupThreadID>>
providerVars == <<at, look, filled, progress>>
callerVars   == <<runs, took, layer, peek>>
vars == <<contextVars, poolMap, ringVars, infoVars, startJobs, pc,
          providerVars, callerVars>>

Steps == {"idle", "wait", "aborted",
          "collect", "look", "fill", "update", "signal", "answer",
          "get", "check", "remove", "erase", "ended"}

TypeOK ==
    /\ flag \in [Threads -> BOOLEAN]
    /\ event \in [Threads -> SUBSET {"Wakeup", "FinishJob"}]
    /\ wait \in [Threads -> WaitSteps]
    /\ poolMap \subseteq Pools
    /\ head \in [Pools -> Slots] /\ tail \in [Pools -> Slots]
    /\ remain \in [Pools -> 0..ElemCount] /\ active \in [Pools -> 0..ElemCount]
    /\ waiter \in [Pools -> {Caller, NoThread}]
    /\ elem \in [Pools -> [Slots -> Nat]]
    /\ read \in [Pools -> Nat]
    /\ registered \in BOOLEAN
    /\ threadID \in Providers \cup {NoThread, Zero}
    /\ cleanupThreadID \in {Destroyer, NoThread}
    /\ startJobs \in 0..Runs
    /\ pc \in [Threads -> Steps]
    /\ at \in [Providers -> Pools]
    /\ look \in [Providers -> 0..ElemCount]
    /\ filled \in [Providers -> 0..ElemCount]
    /\ progress \in [Providers -> BOOLEAN]
    /\ runs \in 0..Runs /\ took \in 0..Demand
    /\ layer \in Pools
    /\ peek \in BOOLEAN

(* The network is built: addPool made a pool for each input layer, with    *)
(* one datum read ahead.                                                   *)
Init ==
    /\ flag = [t \in Threads |-> FALSE]
    /\ event = [t \in Threads |-> {}]
    /\ wait = [t \in Threads |-> "out"]
    /\ poolMap = Pools
    /\ head = [p \in Pools |-> 0]
    /\ tail = [p \in Pools |-> 1 % ElemCount]
    /\ remain = [p \in Pools |-> ElemCount - 1]
    /\ active = [p \in Pools |-> 1]
    /\ waiter = [p \in Pools |-> NoThread]
    /\ elem = [p \in Pools |-> [i \in Slots |-> IF i = 0 THEN 1 ELSE 0]]
    /\ read = [p \in Pools |-> 1]
    /\ registered = TRUE
    /\ threadID = NoThread
    /\ cleanupThreadID = NoThread
    /\ startJobs = 0
    /\ pc = [t \in Threads |-> "idle"]
    /\ at = [t \in Providers |-> 1]
    /\ look = [t \in Providers |-> 0]
    /\ filled = [t \in Providers |-> 0]
    /\ progress = [t \in Providers |-> FALSE]
    /\ runs = 0 /\ took = 0
    /\ layer = 1 /\ peek = TRUE

-----------------------------------------------------------------------------
Goto(t, step) == pc' = [pc EXCEPT ![t] = step]

(* Everything but the ThreadContexts and pc.                               *)
workVars == <<poolMap, ringVars, infoVars, startJobs, providerVars, callerVars>>

WaitStep(t) ==
    /\ pc[t] = "wait"
    /\ TestFlag(t) \/ Block(t)
    /\ UNCHANGED <<pc, workVars>>

-----------------------------------------------------------------------------
(* The run: handleRunNetwork, and getData() in the input layers.           *)

(* handleRunNetwork pushes a StartIDP job and has the plan run.            *)
RunNetwork ==
    /\ pc[Caller] = "idle" /\ runs < Runs
    /\ startJobs' = startJobs + 1
    /\ runs' = runs + 1 /\ took' = 0 /\ layer' = 1 /\ peek' = TRUE
    /\ Goto(Caller, "get")
    /\ UNCHANGED <<contextVars, poolMap, ringVars, infoVars, providerVars>>

(* An empty pool: the caller leaves its ID, and waits with a timeout.      *)
(* (When it must not block, it sleeps a while and asks again: no step.)    *)
GetNothing ==
    /\ pc[Caller] = "get"
    /\ active[layer] = 0
    /\ Blocking
    /\ waiter' = [waiter EXCEPT ![layer] = Caller]
    /\ Goto(Caller, "wait")
    /\ UNCHANGED <<contextVars, poolMap, head, tail, remain, active, elem, read,
                   infoVars, startJobs, providerVars, callerVars>>

(* Mutant: the wait has no timeout.                                        *)
GetWaitedUntimed ==
    /\ pc[Caller] = "wait"
    /\ Returns(Caller, FALSE)
    /\ Goto(Caller, "get")
    /\ UNCHANGED workVars

GetWaited ==
    /\ pc[Caller] = "wait"
    /\ Returns(Caller, TRUE)
    /\ Goto(Caller, "get")
    /\ UNCHANGED workVars

PeekData ==
    /\ pc[Caller] = "get"
    /\ peek /\ active[layer] > 0
    /\ waiter' = [waiter EXCEPT ![layer] = NoThread]
    /\ peek' = FALSE
    /\ UNCHANGED <<contextVars, poolMap, head, tail, remain, active, elem, read,
                   infoVars, startJobs, pc, providerVars, runs, took, layer>>

(* From the last input layer on to the next mini batch, if there is one.   *)
NextLayer ==
    IF layer < PoolCount
    THEN layer' = layer + 1 /\ UNCHANGED <<took, pc>>
    ELSE /\ layer' = 1
         /\ took' = took + 1
         /\ Goto(Caller, IF took + 1 < Demand THEN "get" ELSE "idle")

GetData ==
    /\ pc[Caller] = "get"
    /\ ~peek /\ active[layer] > 0
    /\ head' = [head EXCEPT ![layer] = (@ + 1) % ElemCount]
    /\ active' = [active EXCEPT ![layer] = @ - 1]
    /\ remain' = [remain EXCEPT ![layer] = @ + 1]
    /\ waiter' = [waiter EXCEPT ![layer] = NoThread]
    /\ peek' = TRUE
    /\ NextLayer
    /\ UNCHANGED <<contextVars, poolMap, tail, elem, read, infoVars, startJobs,
                   providerVars, runs>>

-----------------------------------------------------------------------------
(* handleIDP and handler().                                                *)

(* Mutant: whether it is started already is not looked at.                 *)
HandleIDPTwice(t) ==
    /\ pc[t] = "idle" /\ startJobs > 0
    /\ startJobs' = startJobs - 1
    /\ registered' = TRUE
    /\ threadID' = t
    /\ Goto(t, "collect")
    /\ UNCHANGED <<contextVars, poolMap, ringVars, cleanupThreadID, providerVars,
                   callerVars>>

(* With the network destroyed already, operator[] makes a PoolInfo with    *)
(* thread ID 0, and the provider takes itself for started.                 *)
HandleIDP(t) ==
    /\ pc[t] = "idle" /\ startJobs > 0
    /\ startJobs' = startJobs - 1
    /\ registered' = TRUE
    /\ threadID' = IF ~registered THEN Zero
                   ELSE IF threadID = NoThread THEN t ELSE threadID
    /\ Goto(t, IF registered /\ threadID = NoThread THEN "collect" ELSE "idle")
    /\ UNCHANGED <<contextVars, poolMap, ringVars, cleanupThreadID, providerVars,
                   callerVars>>

(* A round of handler() begins.                                            *)
Round(t) ==
    /\ at' = [at EXCEPT ![t] = 1]
    /\ progress' = [progress EXCEPT ![t] = FALSE]

(* The pools that PoolInfo lists have to be there: an assertion.           *)
CollectPools(t) ==
    /\ pc[t] = "collect"
    /\ Goto(t, IF poolMap = Pools THEN "look" ELSE "aborted")
    /\ Round(t)
    /\ UNCHANGED <<contextVars, poolMap, ringVars, infoVars, startJobs, look,
                   filled, callerVars>>

(* On to the next pool, or the next round, or, without progress, the wait. *)
NextPool(t, progressed) ==
    IF at[t] < PoolCount
    THEN /\ at' = [at EXCEPT ![t] = @ + 1]
         /\ progress' = [progress EXCEPT ![t] = progressed]
         /\ Goto(t, "look")
    ELSE Round(t) /\ Goto(t, IF progressed THEN "look" ELSE "wait")

(* How many elements are free is read under the mutex, and used after it.  *)
LookAtPool(t) ==
    /\ pc[t] = "look"
    /\ look' = [look EXCEPT ![t] = remain[at[t]]]
    /\ filled' = [filled EXCEPT ![t] = 0]
    /\ IF remain[at[t]] = 0
       THEN NextPool(t, progress[t])
       ELSE /\ progress' = [progress EXCEPT ![t] = TRUE]
            /\ Goto(t, "fill")
            /\ UNCHANGED at
    /\ UNCHANGED <<contextVars, poolMap, ringVars, infoVars, startJobs, callerVars>>

FillElem(t) ==
    /\ pc[t] = "fill"
    /\ LET p == at[t] IN
          /\ elem' = [elem EXCEPT ![p][(tail[p] + filled[t]) % ElemCount] = read[p] + 1]
          /\ read' = [read EXCEPT ![p] = @ + 1]
    /\ filled' = [filled EXCEPT ![t] = @ + 1]
    /\ Goto(t, IF filled[t] + 1 < look[t] THEN "fill" ELSE "update")
    /\ UNCHANGED <<contextVars, poolMap, head, tail, remain, active, waiter,
                   infoVars, startJobs, at, look, progress, callerVars>>

(* Mutant: as if nothing was taken while the elements were filled.         *)
UpdatePoolFull(t) ==
    /\ pc[t] = "update"
    /\ LET p == at[t] IN
          /\ remain' = [remain EXCEPT ![p] = 0]
          /\ active' = [active EXCEPT ![p] = ElemCount]
          /\ tail' = [tail EXCEPT ![p] = (@ + look[t]) % ElemCount]
          /\ waiter' = [waiter EXCEPT ![p] = NoThread]
          /\ IF waiter[p] # NoThread
             THEN Goto(t, "signal") /\ UNCHANGED <<at, progress>>
             ELSE NextPool(t, TRUE)
    /\ UNCHANGED <<contextVars, poolMap, head, elem, read, infoVars, startJobs,
                   look, filled, callerVars>>

(* Mutant: tail is not taken back to the start of the ring.                *)
UpdatePoolRunsOff(t) ==
    /\ pc[t] = "update"
    /\ LET p == at[t] IN
          /\ remain' = [remain EXCEPT ![p] = @ - look[t]]
          /\ active' = [active EXCEPT ![p] = @ + look[t]]
          /\ tail' = [tail EXCEPT ![p] = @ + look[t]]
          /\ waiter' = [waiter EXCEPT ![p] = NoThread]
          /\ IF waiter[p] # NoThread
             THEN Goto(t, "signal") /\ UNCHANGED <<at, progress>>
             ELSE NextPool(t, TRUE)
    /\ UNCHANGED <<contextVars, poolMap, head, elem, read, infoVars, startJobs,
                   look, filled, callerVars>>

UpdatePool(t) ==
    /\ pc[t] = "update"
    /\ LET p == at[t] IN
          /\ remain' = [remain EXCEPT ![p] = @ - look[t]]
          /\ active' = [active EXCEPT ![p] = @ + look[t]]
          /\ tail' = [tail EXCEPT ![p] = (@ + look[t]) % ElemCount]
          /\ waiter' = [waiter EXCEPT ![p] = NoThread]
          /\ IF waiter[p] # NoThread
             THEN Goto(t, "signal") /\ UNCHANGED <<at, progress>>
             ELSE NextPool(t, TRUE)
    /\ UNCHANGED <<contextVars, poolMap, head, elem, read, infoVars, startJobs,
                   look, filled, callerVars>>

(* The only waiter there is is the caller.                                 *)
SignalWaiter(t) ==
    /\ pc[t] = "signal"
    /\ Signal(Caller, "Wakeup")
    /\ NextPool(t, TRUE)
    /\ UNCHANGED <<poolMap, ringVars, infoVars, startJobs, look, filled, callerVars>>

(* The wait of handleIDP has no timeout.                                   *)
ProviderWaited(t) ==
    /\ pc[t] = "wait"
    /\ Returns(t, FALSE)
    /\ Goto(t, IF "FinishJob" \in Returned(t) THEN "answer" ELSE "look")
    /\ Round(t)
    /\ UNCHANGED <<poolMap, ringVars, infoVars, startJobs, look, filled, callerVars>>

AnswerCleanup(t) ==
    /\ pc[t] = "answer"
    /\ IF registered /\ cleanupThreadID # NoThread
       THEN Signal(cleanupThreadID, "Wakeup") /\ Goto(t, "idle")
       ELSE Goto(t, "aborted") /\ UNCHANGED contextVars
    /\ UNCHANGED workVars

-----------------------------------------------------------------------------
(* removePool, in the handler of DestroyNetwork.                           *)

(* A client destroys the network when its runs were answered.              *)
RemovePool ==
    /\ pc[Destroyer] = "idle"
    /\ pc[Caller] = "idle" /\ runs = Runs
    /\ cleanupThreadID' = Destroyer
    /\ Goto(Destroyer, "check")
    /\ UNCHANGED <<contextVars, poolMap, ringVars, registered, threadID, startJobs,
                   providerVars, callerVars>>

(* Mutant: the provider is told, but not waited for.                       *)
FinishProviderUnwaited ==
    /\ pc[Destroyer] = "check"
    /\ IF threadID # NoThread THEN Signal(threadID, "FinishJob") ELSE UNCHANGED contextVars
    /\ Goto(Destroyer, "remove")
    /\ UNCHANGED workVars

(* threadID is read without the mutex.                                     *)
FinishProvider ==
    /\ pc[Destroyer] = "check"
    /\ IF threadID # NoThread
       THEN Signal(threadID, "FinishJob") /\ Goto(Destroyer, "wait")
       ELSE Goto(Destroyer, "remove") /\ UNCHANGED contextVars
    /\ UNCHANGED workVars

ProviderFinished ==
    /\ pc[Destroyer] = "wait"
    /\ Returns(Destroyer, FALSE)
    /\ Goto(Destroyer, "remove")
    /\ UNCHANGED workVars

(* One pool after the other.  Nobody may wait for data: an assertion.      *)
DeletePool ==
    /\ pc[Destroyer] = "remove"
    /\ \E p \in poolMap :
          /\ \A q \in poolMap : p <= q
          /\ poolMap' = poolMap \ {p}
          /\ Goto(Destroyer, IF waiter[p] # NoThread THEN "aborted"
                             ELSE IF poolMap' = {} THEN "erase" ELSE "remove")
    /\ UNCHANGED <<contextVars, ringVars, infoVars, startJobs, providerVars, callerVars>>

ErasePoolInfo ==
    /\ pc[Destroyer] = "erase"
    /\ registered' = FALSE
    /\ threadID' = NoThread
    /\ cleanupThreadID' = NoThread
    /\ Goto(Destroyer, "ended")
    /\ UNCHANGED <<contextVars, poolMap, ringVars, startJobs, providerVars, callerVars>>

-----------------------------------------------------------------------------
CallerThread == GetNothing \/ GetWaited \/ PeekData \/ GetData

Provider(t) ==
    \/ HandleIDP(t)
    \/ CollectPools(t)
    \/ LookAtPool(t)
    \/ FillElem(t)
    \/ UpdatePool(t)
    \/ SignalWaiter(t)
    \/ ProviderWaited(t)
    \/ AnswerCleanup(t)

DestroyerThread ==
    \/ RemovePool
    \/ FinishProvider
    \/ ProviderFinished
    \/ DeletePool
    \/ ErasePoolInfo

(* A failed assertion ends the process.                                    *)
Running == \A t \in Threads : pc[t] # "aborted"

Next ==
    /\ Running
    /\ \/ RunNetwork
       \/ \E t \in Threads : WaitStep(t)
       \/ CallerThread
       \/ \E t \in Providers : Provider(t)
       \/ DestroyerThread

Spec == Init /\ [][Next]_vars

(* Threads run on; a StartIDP job is taken by some job consumer.           *)
Fairness ==
    /\ WF_vars(Running /\ RunNetwork)
    /\ \A t \in Threads : WF_vars(Running /\ WaitStep(t))
    /\ WF_vars(Running /\ CallerThread)
    /\ \A t \in Providers : WF_vars(Running /\ Provider(t))
    /\ WF_vars(Running /\ DestroyerThread)

FairSpec == Spec /\ Fairness

-----------------------------------------------------------------------------
(* Properties.                                                             *)

(* How many data of a pool the caller has taken.                           *)
Taken(p) == (runs - (IF runs = 0 THEN 0 ELSE 1)) * Demand + took
              + (IF p < layer THEN 1 ELSE 0)

(* The input layer gets the data of its reader in order, none lost, none   *)
(* twice, while the provider fills elements with the counts it read        *)
(* before: the available elements are those after the last one taken.      *)
RingHoldsStream ==
    \A p \in Pools :
        /\ active[p] + remain[p] = ElemCount
        /\ \A i \in 0..(active[p] - 1) :
              elem[p][(head[p] + i) % ElemCount] = Taken(p) + 1 + i

(* A pool is filled by one thread, however many runs have pushed a job to  *)
(* start the provider.                                                     *)
OneProvider ==
    Cardinality({t \in Providers : pc[t] # "idle"}) <= 1

(* removePool deletes no pool that the provider has still in its hands.    *)
PoolsOutliveProvider ==
    \A t \in Providers :
        pc[t] \in {"look", "fill", "update", "signal", "wait", "answer"} =>
            poolMap = Pools

(* The assertions hold: the provider finds the pools of its network, and   *)
(* nobody waits for a pool that is removed.                                *)
AssertionsHold == Running

(* A pool the provider is at: it has seen free elements in it.             *)
FillingPool(p) ==
    \E t \in Providers : pc[t] \in {"fill", "update"} /\ at[t] = p

AskingPool(p) == pc[Caller] \in {"get", "wait"} /\ layer = p /\ active[p] = 0

(* A caller that finds the pool empty while the provider is filling it     *)
(* gets its datum, whatever wake-up is missed.                             *)
FillFeedsCaller ==
    \A p \in Pools : (FillingPool(p) /\ AskingPool(p)) ~> (layer = p /\ ~peek)

(* The comment on handler() has it work on until the network is destroyed. *)
(* So every run gets the data of all its mini batches.                     *)
RunsFed == <>(runs = Runs /\ pc[Caller] = "idle")
=============================================================================
