---------------------------- MODULE BrokerProofs ----------------------------
(***************************************************************************)
(* The safety invariants of Broker, for any number of jobs, subscribers    *)
(* and ad-hoc sessions, whatever access the subscribers use and whatever   *)
(* an overlapping lookup yields.                                           *)
(***************************************************************************)
EXTENDS Broker, QueueLemmas, TLAPS

(* The steps at which a subscriber was let through by its publisher.       *)
Served(s) == subscriber[s] \in {"readContent", "clearFound"}

(* Who holds the mutexes, by the step its holder is at.                    *)
MutexInv ==
    /\ \A j \in Jobs : publisher[j] = "insert" <=> contentMutex = j
    /\ \A s \in Subscribers : subscriber[s] = "register" <=> contentMutex = s
    /\ \A s \in Subscribers :
          subscriber[s] \in {"testFound", "fallAsleep"} => sessMutex[sess[s]] = s

(* A job has one subscriber at most, and its content waits for it: nobody  *)
(* else takes it out of contentMap.  A registering subscriber, who holds   *)
(* contentMutex, is ahead of its publisher.                                *)
JobInv ==
    /\ \A s \in Subscribers : Active(s) =>
          /\ job[s] \in Jobs
          /\ publisher[job[s]] # "idle"
          /\ Inserted(job[s]) => job[s] \in contentMap
    /\ \A s, u \in Subscribers :
          Active(s) /\ Active(u) /\ job[s] = job[u] => s = u
    /\ \A j \in contentMap : Inserted(j)
    /\ \A s \in Subscribers :
          subscriber[s] = "register" => publisher[job[s]] = "called"

(* Whoever refers to an ad-hoc session, in waiterMap or as the target of a *)
(* publisher that has yet to set found, means the subscriber waiting on it.*)
RefersTo(j, i) == waiterMap[j] = i \/ (publisher[j] = "setFound" /\ target[j] = i)

ReferenceInv ==
    /\ \A j \in Jobs : waiterMap[j] # NoSess =>
          publisher[j] \in {"called", "insert", "lookup"}
    /\ \A j \in Jobs : publisher[j] \in {"setFound", "notify"} =>
          target[j] \in AdhocIDs
    /\ \A s \in Subscribers, j \in Jobs :
          Holding(s) /\ RefersTo(j, sess[s]) => Waiting(s) /\ job[s] = j

(* A raised found flag is the doing of the publisher of the holder's job.  *)
FoundInv ==
    /\ \A s \in Subscribers : Holding(s) /\ found[sess[s]] =>
          /\ subscriber[s] \notin {"register", "releaseSession"}
          /\ publisher[job[s]] \in {"notify", "done"}
          /\ target[job[s]] = sess[s]
    /\ \A s \in Subscribers : Served(s) => publisher[job[s]] \in {"notify", "done"}

(* How far the publisher of a waiting subscriber's job has got decides     *)
(* where the subscriber's ad-hoc session is to be found.                   *)
CoverInv ==
    \A s \in Subscribers : Waiting(s) =>
        /\ publisher[job[s]] \in {"called", "insert", "lookup"} =>
              waiterMap[job[s]] = sess[s]
        /\ publisher[job[s]] = "setFound" => target[job[s]] = sess[s]
        /\ publisher[job[s]] \in {"notify", "done"} => found[sess[s]]
        /\ subscriber[s] \in {"fallAsleep", "asleep"} /\ found[sess[s]] =>
              publisher[job[s]] = "notify"

BrokerInv ==
    /\ TypeOK
    /\ AdhocConserved
    /\ FreeSessClean
    /\ MutexInv
    /\ JobInv
    /\ ReferenceInv
    /\ FoundInv
    /\ CoverInv

-----------------------------------------------------------------------------
(* No ad-hoc session has the ID that stands for none.                      *)
LEMMA NoSessIsNoID == NoSess \notin AdhocIDs
  BY DEF NoSess, AdhocIDs

(* What most steps need to know of the variables' types.                   *)
LEMMA SubscriberTypes ==
    TypeOK => /\ subscriber \in [Subscribers -> SubscribeSteps]
              /\ job \in [Subscribers -> Jobs \cup {Nobody}]
              /\ sess \in [Subscribers -> AdhocIDs \cup {NoSess}]
  BY DEF TypeOK

(* Handing out adds one job of the right type to what its thread received. *)
LEMMA HandOutType ==
    ASSUME NEW s \in Subscribers, NEW j \in Jobs, HandOut(s, j),
           received \in [Subscribers -> Seq(Jobs)]
    PROVE  received' \in [Subscribers -> Seq(Jobs)]
  BY DEF HandOut

(* The invariant holds once Broker::init has filled the free list.         *)
LEMMA InitInv == Init => BrokerInv
<1> SUFFICES ASSUME Init PROVE BrokerInv
  OBVIOUS
<1> USE DEF Init
<1>1. AdhocCount \in Nat /\ Nobody \notin Jobs \cup Subscribers
  BY BrokerAssumption
<1>2. /\ freeList \in Seq(AdhocIDs)
      /\ FreeIDs = AdhocIDs
      /\ IsInjective(freeList)
  BY <1>1 DEF FreeIDs, ToSet, IsInjective, AdhocIDs
<1>3. TypeOK
  BY <1>2 DEF TypeOK, PublishSteps, SubscribeSteps
<1>4. AdhocConserved
  BY <1>2 DEF AdhocConserved, Holding, HoldingSteps, WaitingSteps
<1>5. FreeSessClean
  BY <1>2, NoSessIsNoID DEF FreeSessClean
<1>6. MutexInv /\ JobInv /\ ReferenceInv /\ FoundInv /\ CoverInv
  BY <1>1 DEF MutexInv, JobInv, ReferenceInv, FoundInv, CoverInv, Active,
              Holding, HoldingSteps, Waiting, WaitingSteps, Served, Inserted
<1>7. QED BY <1>3, <1>4, <1>5, <1>6 DEF BrokerInv

-----------------------------------------------------------------------------
(* Every step preserves the invariant.  First the callers of the broker.   *)
LEMMA AskStep ==
    ASSUME BrokerInv, NEW s \in Subscribers, NEW j \in Jobs, Ask(s, j)
    PROVE  BrokerInv'
<1> USE DEF BrokerInv, Ask, brokerVars
<1>1. TypeOK' /\ AdhocConserved' /\ FreeSessClean' /\ MutexInv'
  BY DEF TypeOK, PublishSteps, SubscribeSteps, AdhocConserved,
     FreeSessClean, FreeIDs, MutexInv, Holding, HoldingSteps, WaitingSteps,
     Active
<1>2. JobInv'
  BY DEF JobInv, Active, Inserted, TypeOK
<1>3. ReferenceInv' /\ FoundInv' /\ CoverInv'
  BY DEF ReferenceInv, RefersTo, FoundInv, CoverInv, JobInv, Served, Active,
     Holding, HoldingSteps, Waiting, WaitingSteps, TypeOK
<1>4. QED BY <1>1, <1>2, <1>3

(* ... a refused subscriber that asks again.                               *)
LEMMA AskAgainStep ==
    ASSUME BrokerInv, NEW s \in Subscribers, AskAgain(s) PROVE BrokerInv'
<1> USE DEF BrokerInv, AskAgain, brokerVars, publishVars
<1>1. TypeOK' /\ FreeSessClean'
  BY DEF TypeOK, SubscribeSteps, HoldingSteps, WaitingSteps, FreeSessClean,
     FreeIDs
<1>2. AdhocConserved'
  BY SubscriberTypes DEF AdhocConserved, FreeIDs, Holding, HoldingSteps,
     WaitingSteps
<1>3. MutexInv' /\ JobInv'
  BY DEF MutexInv, JobInv, Active, Inserted, TypeOK
<1>4. ReferenceInv' /\ FoundInv' /\ CoverInv'
  BY DEF ReferenceInv, RefersTo, FoundInv, CoverInv, Served, Holding,
     HoldingSteps, Waiting, WaitingSteps, TypeOK
<1>5. QED BY <1>1, <1>2, <1>3, <1>4

(* publishEx.  contentMutex is free, so no subscriber is registering.      *)
LEMMA PublishLockStep ==
    ASSUME BrokerInv, NEW j \in Jobs, PublishLock(j) PROVE BrokerInv'
<1> USE DEF BrokerInv, PublishLock, subscribeVars
<1>1. TypeOK' /\ AdhocConserved' /\ FreeSessClean'
  BY DEF TypeOK, PublishSteps, AdhocConserved, FreeSessClean, FreeIDs, Holding
<1>2. MutexInv' /\ JobInv'
  BY BrokerAssumption DEF MutexInv, JobInv, Active, Inserted, TypeOK
<1>3. ReferenceInv' /\ FoundInv' /\ CoverInv'
  BY DEF ReferenceInv, RefersTo, FoundInv, CoverInv, JobInv, Served, Active,
     Holding, HoldingSteps, Waiting, WaitingSteps, TypeOK
<1>4. QED BY <1>1, <1>2, <1>3

(* The content enters the map before anybody can be looked up.             *)
LEMMA PublishInsertStep ==
    ASSUME BrokerInv, NEW j \in Jobs, PublishInsert(j) PROVE BrokerInv'
<1> USE DEF BrokerInv, PublishInsert, subscribeVars
<1>1. TypeOK' /\ AdhocConserved' /\ FreeSessClean'
  BY DEF TypeOK, PublishSteps, AdhocConserved, FreeSessClean, FreeIDs, Holding
<1>2. MutexInv' /\ JobInv'
  BY BrokerAssumption DEF MutexInv, JobInv, Active, Inserted, TypeOK
<1>3. ReferenceInv' /\ FoundInv' /\ CoverInv'
  BY DEF ReferenceInv, RefersTo, FoundInv, CoverInv, JobInv, Served, Active,
     Holding, HoldingSteps, Waiting, WaitingSteps, TypeOK
<1>4. QED BY <1>1, <1>2, <1>3

(* The waiter's registration becomes the publisher's target.               *)
LEMMA PublishLookupStep ==
    ASSUME BrokerInv, NEW j \in Jobs, PublishLookup(j) PROVE BrokerInv'
<1> USE NoSessIsNoID DEF BrokerInv, PublishLookup, brokerVars, subscribeVars
<1>1. TypeOK' /\ AdhocConserved' /\ MutexInv' /\ JobInv'
  BY DEF TypeOK, PublishSteps, AdhocConserved, FreeIDs, Holding, MutexInv,
     JobInv, Active, Inserted
<1>2. FreeSessClean'
  BY DEF FreeSessClean, FreeIDs, ToSet, TypeOK
<1>3. ReferenceInv'
  BY DEF ReferenceInv, RefersTo, AdhocConserved, Holding, HoldingSteps,
     Waiting,
         WaitingSteps, TypeOK
<1>4. FoundInv'
  BY DEF FoundInv, JobInv, Served, Holding, HoldingSteps, WaitingSteps,
     Active, TypeOK
<1>5. CoverInv'
  BY DEF CoverInv, JobInv, AdhocConserved, Holding, HoldingSteps, Waiting,
     WaitingSteps, Active, TypeOK
<1>6. QED BY <1>1, <1>2, <1>3, <1>4, <1>5

(* found is raised on a session that is held, by the job's own subscriber. *)
LEMMA PublishFoundStep ==
    ASSUME BrokerInv, NEW j \in Jobs, PublishFound(j) PROVE BrokerInv'
<1> USE DEF BrokerInv, PublishFound, subscribeVars
<1>1. TypeOK' /\ AdhocConserved' /\ FreeSessClean'
  BY DEF TypeOK, PublishSteps, AdhocConserved, FreeSessClean, FreeIDs,
     Holding, ReferenceInv
<1>2. MutexInv' /\ JobInv' /\ ReferenceInv'
  BY DEF MutexInv, JobInv, Active, Inserted, ReferenceInv, RefersTo,
     Holding, HoldingSteps, Waiting, WaitingSteps, TypeOK
<1>3. FoundInv'
  BY DEF FoundInv, JobInv, ReferenceInv, RefersTo, AdhocConserved, Served,
     Active, Holding, HoldingSteps, Waiting, WaitingSteps, TypeOK
<1>4. CoverInv'
  BY DEF CoverInv, JobInv, ReferenceInv, RefersTo, AdhocConserved, Active,
     Holding, HoldingSteps, Waiting, WaitingSteps, TypeOK
<1>5. QED BY <1>1, <1>2, <1>3, <1>4

(* Holding sessMutex, the notification finds its waiter asleep, or not yet *)
(* or no longer about to sleep.                                            *)
LEMMA PublishNotifyStep ==
    ASSUME BrokerInv, NEW j \in Jobs, PublishNotify(j) PROVE BrokerInv'
<1> USE DEF BrokerInv, PublishNotify, brokerVars, publishVars
<1>1. TypeOK' /\ AdhocConserved' /\ FreeSessClean'
  BY DEF WakeSleepers, TypeOK, PublishSteps, SubscribeSteps, AdhocConserved,
     FreeSessClean, FreeIDs, Holding, HoldingSteps, WaitingSteps
<1>2. MutexInv' /\ JobInv'
  BY DEF WakeSleepers, MutexInv, JobInv, Active, Inserted, TypeOK
<1>3. ReferenceInv' /\ FoundInv'
  BY DEF WakeSleepers, ReferenceInv, RefersTo, FoundInv, JobInv, Served,
     Active, Holding, HoldingSteps, Waiting, WaitingSteps, TypeOK
<1>4. CoverInv'
  BY BrokerAssumption DEF WakeSleepers, CoverInv, FoundInv, MutexInv,
     JobInv, Active, Holding, HoldingSteps, Waiting, WaitingSteps, TypeOK
<1>5. QED BY <1>1, <1>2, <1>3, <1>4

(* subscribeEx.  The content that is taken has no other subscriber.        *)
LEMMA SubscribeTakeStep ==
    ASSUME BrokerInv, NEW s \in Subscribers, SubscribeTake(s) PROVE BrokerInv'
<1> USE DEF BrokerInv, SubscribeTake, brokerVars, publishVars
<1>1. TypeOK' /\ FreeSessClean'
  BY HandOutType DEF JobInv, Active, TypeOK, SubscribeSteps, HoldingSteps, WaitingSteps, FreeSessClean,
     FreeIDs
<1>2. AdhocConserved'
  BY SubscriberTypes DEF AdhocConserved, FreeIDs, Holding, HoldingSteps,
     WaitingSteps
<1>3. MutexInv' /\ JobInv'
  BY DEF MutexInv, JobInv, Active, Inserted, TypeOK
<1>4. ReferenceInv' /\ FoundInv' /\ CoverInv'
  BY DEF ReferenceInv, RefersTo, FoundInv, CoverInv, Served, Holding,
     HoldingSteps, Waiting, WaitingSteps, TypeOK
<1>5. QED BY <1>1, <1>2, <1>3, <1>4

(* ... return NoContent,                                                   *)
LEMMA SubscribeNoContentStep ==
    ASSUME BrokerInv, NEW s \in Subscribers, SubscribeNoContent(s)
    PROVE  BrokerInv'
<1> USE DEF BrokerInv, SubscribeNoContent, brokerVars, publishVars
<1>1. TypeOK' /\ FreeSessClean'
  BY DEF TypeOK, SubscribeSteps, HoldingSteps, WaitingSteps, FreeSessClean,
     FreeIDs
<1>2. AdhocConserved'
  BY SubscriberTypes DEF AdhocConserved, FreeIDs, Holding, HoldingSteps,
     WaitingSteps
<1>3. MutexInv' /\ JobInv'
  BY DEF MutexInv, JobInv, Active, Inserted, TypeOK
<1>4. ReferenceInv' /\ FoundInv' /\ CoverInv'
  BY DEF ReferenceInv, RefersTo, FoundInv, CoverInv, Served, Holding,
     HoldingSteps, Waiting, WaitingSteps, TypeOK
<1>5. QED BY <1>1, <1>2, <1>3, <1>4

(* ... return NoFreeAdhocSess,                                             *)
LEMMA SubscribeNoSessStep ==
    ASSUME BrokerInv, NEW s \in Subscribers, SubscribeNoSess(s)
    PROVE  BrokerInv'
<1> USE DEF BrokerInv, SubscribeNoSess, brokerVars, publishVars
<1>1. TypeOK' /\ FreeSessClean'
  BY DEF TypeOK, SubscribeSteps, HoldingSteps, WaitingSteps, FreeSessClean,
     FreeIDs
<1>2. AdhocConserved'
  BY SubscriberTypes DEF AdhocConserved, FreeIDs, Holding, HoldingSteps,
     WaitingSteps
<1>3. MutexInv' /\ JobInv'
  BY DEF MutexInv, JobInv, Active, Inserted, TypeOK
<1>4. ReferenceInv' /\ FoundInv' /\ CoverInv'
  BY DEF ReferenceInv, RefersTo, FoundInv, CoverInv, Served, Holding,
     HoldingSteps, Waiting, WaitingSteps, TypeOK
<1>5. QED BY <1>1, <1>2, <1>3, <1>4

(* ... a session popped from the free list is nobody else's and is clean,  *)
LEMMA SubscribeGetSessStep ==
    ASSUME BrokerInv, NEW s \in Subscribers, SubscribeGetSess(s)
    PROVE  BrokerInv'
<1> USE DEF BrokerInv, SubscribeGetSess, publishVars
<1>1. /\ sess' = [sess EXCEPT ![s] = Head(freeList)]
      /\ Head(freeList) \in AdhocIDs
      /\ freeList' \in Seq(AdhocIDs)
      /\ FreeIDs = {Head(freeList)} \cup FreeIDs'
      /\ Head(freeList) \notin FreeIDs'
      /\ IsInjective(freeList')
  BY PopProperties DEF TypeOK, AdhocConserved, FreeIDs
<1>2. TypeOK'
  BY <1>1 DEF TypeOK, SubscribeSteps, HoldingSteps
<1>3. AdhocConserved'
  BY <1>1, NoSessIsNoID DEF AdhocConserved, Holding, HoldingSteps,
     WaitingSteps, TypeOK
<1>4. FreeSessClean'
  BY <1>1 DEF FreeSessClean
<1>5. MutexInv' /\ JobInv'
  BY BrokerAssumption DEF MutexInv, JobInv, Active, Inserted, TypeOK,
     PublishSteps
<1>6. ReferenceInv' /\ FoundInv' /\ CoverInv'
  BY <1>1 DEF FreeSessClean, ReferenceInv, RefersTo, FoundInv, CoverInv,
     Served, Holding, HoldingSteps, Waiting, WaitingSteps, TypeOK
<1>7. QED BY <1>2, <1>3, <1>4, <1>5, <1>6

(* ... contentMutex keeps the publisher from inserting until the waiter is *)
(* registered,                                                             *)
LEMMA SubscribeRegisterStep ==
    ASSUME BrokerInv, NEW s \in Subscribers, SubscribeRegister(s)
    PROVE  BrokerInv'
<1> USE DEF BrokerInv, SubscribeRegister, publishVars
<1>1. TypeOK' /\ AdhocConserved'
  BY DEF TypeOK, SubscribeSteps, AdhocConserved, FreeIDs, Holding,
     HoldingSteps, WaitingSteps, JobInv, Active
<1>2. FreeSessClean'
  BY DEF FreeSessClean, AdhocConserved, FreeIDs, Holding, HoldingSteps, TypeOK
<1>3. MutexInv' /\ JobInv'
  BY BrokerAssumption DEF MutexInv, JobInv, Active, Inserted, TypeOK
<1>4. ReferenceInv'
  BY DEF ReferenceInv, RefersTo, AdhocConserved, JobInv, Active, Holding,
     HoldingSteps, Waiting, WaitingSteps, TypeOK
<1>5. FoundInv' /\ CoverInv'
  BY DEF FoundInv, CoverInv, JobInv, AdhocConserved, Served, Active,
     Holding, HoldingSteps, Waiting, WaitingSteps, TypeOK
<1>6. QED BY <1>1, <1>2, <1>3, <1>4, <1>5

(* ... sessMutex is taken by the one subscriber that holds the session,    *)
LEMMA SubscribeLockSessStep ==
    ASSUME BrokerInv, NEW s \in Subscribers, SubscribeLockSess(s)
    PROVE  BrokerInv'
<1> USE DEF BrokerInv, SubscribeLockSess, publishVars
<1>1. TypeOK' /\ FreeSessClean'
  BY NoSessIsNoID DEF AdhocConserved, Holding, TypeOK, SubscribeSteps,
     HoldingSteps, WaitingSteps, FreeSessClean, FreeIDs
<1>2. AdhocConserved'
  BY SubscriberTypes DEF AdhocConserved, FreeIDs, Holding, HoldingSteps,
     WaitingSteps
<1>3. MutexInv'
  BY DEF MutexInv, AdhocConserved, Holding, HoldingSteps, WaitingSteps, TypeOK
<1>4. JobInv' /\ ReferenceInv' /\ FoundInv' /\ CoverInv'
  BY DEF JobInv, ReferenceInv, RefersTo, FoundInv, CoverInv, Served, Active,
     Inserted, Holding, HoldingSteps, Waiting, WaitingSteps, TypeOK
<1>5. QED BY <1>1, <1>2, <1>3, <1>4

(* ... found was raised by the publisher of this subscriber's job,         *)
LEMMA SubscribeTestFoundStep ==
    ASSUME BrokerInv, NEW s \in Subscribers, SubscribeTestFound(s)
    PROVE  BrokerInv'
<1> USE NoSessIsNoID DEF BrokerInv, SubscribeTestFound, publishVars
<1>1. /\ subscriber[s] = "testFound"
      /\ subscriber' = [subscriber EXCEPT ![s] =
                            IF found[sess[s]] THEN "readContent" ELSE "fallAsleep"]
      /\ sess[s] \in AdhocIDs
      /\ found[sess[s]] => publisher[job[s]] \in {"notify", "done"}
  BY DEF AdhocConserved, FoundInv, Holding, HoldingSteps, WaitingSteps, TypeOK
<1>2. TypeOK' /\ AdhocConserved' /\ FreeSessClean'
  BY <1>1 DEF TypeOK, SubscribeSteps, AdhocConserved, FreeSessClean,
     FreeIDs, Holding, HoldingSteps, WaitingSteps
<1>3. MutexInv'
  BY <1>1 DEF MutexInv, AdhocConserved, Holding, HoldingSteps, WaitingSteps,
     TypeOK
<1>4. JobInv' /\ FoundInv'  /\ CoverInv'
  BY <1>1 DEF JobInv, FoundInv, CoverInv, Served, Active, Inserted, Holding,
     HoldingSteps, Waiting, WaitingSteps, TypeOK
<1>5. ReferenceInv'
  BY <1>1, SubscriberTypes DEF ReferenceInv, RefersTo, Holding,
     HoldingSteps, Waiting, WaitingSteps
<1>6. QED BY <1>2, <1>3, <1>4, <1>5

(* ... a waiter that saw found down still has its notification coming,     *)
LEMMA SubscribeSleepStep ==
    ASSUME BrokerInv, NEW s \in Subscribers, SubscribeSleep(s)
    PROVE  BrokerInv'
<1> USE DEF BrokerInv, SubscribeSleep, publishVars
<1>1. TypeOK' /\ FreeSessClean'
  BY NoSessIsNoID DEF AdhocConserved, Holding, TypeOK, SubscribeSteps,
     HoldingSteps, WaitingSteps, FreeSessClean, FreeIDs
<1>2. AdhocConserved'
  BY SubscriberTypes DEF AdhocConserved, FreeIDs, Holding, HoldingSteps,
     WaitingSteps
<1>3. MutexInv'
  BY DEF MutexInv, AdhocConserved, Holding, HoldingSteps, WaitingSteps, TypeOK
<1>4. JobInv' /\ ReferenceInv' /\ FoundInv' /\ CoverInv'
  BY DEF JobInv, ReferenceInv, RefersTo, FoundInv, CoverInv, Served, Active,
     Inserted, Holding, HoldingSteps, Waiting, WaitingSteps, TypeOK
<1>5. QED BY <1>1, <1>2, <1>3, <1>4

(* ... and a spurious wakeup only sends it to test found again.            *)
LEMMA SpuriousWakeupStep ==
    ASSUME BrokerInv, NEW s \in Subscribers, SpuriousWakeup(s)
    PROVE  BrokerInv'
<1> USE DEF BrokerInv, SpuriousWakeup, brokerVars, publishVars
<1>1. TypeOK' /\ FreeSessClean'
  BY DEF TypeOK, SubscribeSteps, HoldingSteps, WaitingSteps, FreeSessClean,
     FreeIDs
<1>2. AdhocConserved'
  BY SubscriberTypes DEF AdhocConserved, FreeIDs, Holding, HoldingSteps,
     WaitingSteps
<1>3. MutexInv' /\ JobInv'
  BY DEF MutexInv, JobInv, Active, Inserted, TypeOK
<1>4. ReferenceInv' /\ FoundInv' /\ CoverInv'
  BY DEF ReferenceInv, RefersTo, FoundInv, CoverInv, Served, Holding,
     HoldingSteps, Waiting, WaitingSteps, TypeOK
<1>5. QED BY <1>1, <1>2, <1>3, <1>4

(* Reading the content moves nobody but the reader.                        *)
LEMMA SubscribeReadStep ==
    ASSUME BrokerInv, NEW s \in Subscribers, SubscribeRead(s) PROVE BrokerInv'
<1> USE DEF BrokerInv, SubscribeRead, brokerVars, publishVars
<1>1. /\ job[s] \in Jobs
      /\ subscriber[s] = "readContent"
      /\ \/ subscriber' = [subscriber EXCEPT ![s] = "clearFound"]
         \/ subscriber' = [subscriber EXCEPT ![s] = "aborted"]
      /\ HandOut(s, job[s]) \/ UNCHANGED received
  BY DEF JobInv, Active
<1>2. TypeOK'
  BY <1>1, HandOutType DEF TypeOK, SubscribeSteps, HoldingSteps
<1>3. AdhocConserved' /\ FreeSessClean'
  BY <1>1, SubscriberTypes DEF AdhocConserved, FreeSessClean, FreeIDs,
     Holding, HoldingSteps, WaitingSteps
<1>4. MutexInv' /\ JobInv' /\ ReferenceInv' /\ FoundInv' /\ CoverInv'
  BY <1>1, SubscriberTypes DEF MutexInv, JobInv, ReferenceInv, RefersTo,
     FoundInv, CoverInv, Served, Active, Inserted, Holding, HoldingSteps,
     Waiting, WaitingSteps
<1>5. QED BY <1>2, <1>3, <1>4

(* found is cleared by the holder, after its publisher is past setting it. *)
LEMMA SubscribeClearFoundStep ==
    ASSUME BrokerInv, NEW s \in Subscribers, SubscribeClearFound(s)
    PROVE  BrokerInv'
<1> USE DEF BrokerInv, SubscribeClearFound, publishVars
<1>1. TypeOK' /\ AdhocConserved' /\ FreeSessClean'
  BY DEF AdhocConserved, FreeSessClean, FreeIDs, Holding, HoldingSteps,
     WaitingSteps, TypeOK, SubscribeSteps
<1>2. MutexInv' /\ JobInv' /\ ReferenceInv'
  BY DEF MutexInv, JobInv, ReferenceInv, RefersTo, Active, Inserted,
     Holding, HoldingSteps, Waiting, WaitingSteps, TypeOK
<1>3. FoundInv' /\ CoverInv'
  BY DEF FoundInv, CoverInv, AdhocConserved, Served, Holding, HoldingSteps,
     Waiting, WaitingSteps, TypeOK
<1>4. QED BY <1>1, <1>2, <1>3

(* The session returns to the list clean, with nobody referring to it.     *)
LEMMA SubscribeReleaseSessStep ==
    ASSUME BrokerInv, NEW s \in Subscribers, SubscribeReleaseSess(s)
    PROVE  BrokerInv'
<1> USE DEF BrokerInv, SubscribeReleaseSess, publishVars
<1>1. Holding(s) /\ sess[s] \in AdhocIDs \ FreeIDs
  BY DEF AdhocConserved, Holding, HoldingSteps, TypeOK
<1>2. /\ freeList' \in Seq(AdhocIDs)
      /\ FreeIDs' = FreeIDs \cup {sess[s]}
      /\ IsInjective(freeList')
  BY <1>1, PushProperties DEF TypeOK, AdhocConserved, FreeIDs
<1>3. TypeOK'
  BY <1>2 DEF TypeOK, SubscribeSteps
<1>4. AdhocConserved'
  BY <1>1, <1>2 DEF AdhocConserved, Holding, HoldingSteps, WaitingSteps,
     TypeOK
<1>5. FreeSessClean'
  BY <1>1, <1>2 DEF FreeSessClean, FoundInv, ReferenceInv, RefersTo,
     Waiting, WaitingSteps
<1>6. MutexInv' /\ JobInv' /\ ReferenceInv' /\ FoundInv' /\ CoverInv'
  BY DEF MutexInv, JobInv, ReferenceInv, RefersTo, FoundInv, CoverInv,
     Served, Active, Inserted, Holding, HoldingSteps, Waiting, WaitingSteps,
     TypeOK
<1>7. QED BY <1>3, <1>4, <1>5, <1>6

(* The invariant is inductive.                                             *)
LEMMA NextInv == BrokerInv /\ [Next]_vars => BrokerInv'
<1> SUFFICES ASSUME BrokerInv, [Next]_vars PROVE BrokerInv'
  OBVIOUS
<1>1. ASSUME NEW s \in Subscribers, NEW j \in Jobs, Ask(s, j) PROVE BrokerInv'
  BY <1>1, AskStep
<1>2. ASSUME NEW j \in Jobs, Publish(j) PROVE BrokerInv'
  BY <1>2, PublishLockStep, PublishInsertStep, PublishLookupStep,
     PublishFoundStep, PublishNotifyStep DEF Publish
<1>3. ASSUME NEW s \in Subscribers, Subscribe(s) PROVE BrokerInv'
  BY <1>3, SubscribeTakeStep, SubscribeNoContentStep, SubscribeNoSessStep,
     SubscribeGetSessStep, SubscribeRegisterStep, SubscribeLockSessStep,
     SubscribeTestFoundStep, SubscribeSleepStep, SubscribeReadStep,
     SubscribeClearFoundStep, SubscribeReleaseSessStep DEF Subscribe
<1>4. ASSUME NEW s \in Subscribers, AskAgain(s) \/ SpuriousWakeup(s)
      PROVE  BrokerInv'
  BY <1>4, AskAgainStep, SpuriousWakeupStep
<1>5. CASE UNCHANGED vars
  BY <1>5 DEF vars, brokerVars, publishVars, subscribeVars, BrokerInv, TypeOK,
     AdhocConserved, FreeSessClean, MutexInv, JobInv, ReferenceInv, RefersTo,
     FoundInv, CoverInv, FreeIDs, Inserted, Served, Active, Holding, Waiting
<1>6. QED BY <1>1, <1>2, <1>3, <1>4, <1>5 DEF Next, AllServed

-----------------------------------------------------------------------------
(* Results.  The invariant holds in every execution of the broker.         *)
THEOREM BrokerSafe == Spec => []BrokerInv
  BY InitInv, NextInv, PTL DEF Spec

(* Every variable of the broker keeps its type.                            *)
THEOREM TypeCorrect == Spec => []TypeOK
<1>1. BrokerInv => TypeOK
  BY DEF BrokerInv
<1>2. QED BY BrokerSafe, <1>1, PTL

(* getFreeAdhocSessID and releaseAdhocSessID never lose or duplicate an    *)
(* ad-hoc session, however many subscribers overlap.                       *)
THEOREM AdhocSafe == Spec => []AdhocConserved
<1>1. BrokerInv => AdhocConserved
  BY DEF BrokerInv
<1>2. QED BY BrokerSafe, <1>1, PTL

(* An ad-hoc session in freeAdhocSessIDList is clean: a publish() meant    *)
(* for its last user can no longer raise its found flag.                   *)
THEOREM FreeSessSafe == Spec => []FreeSessClean
<1>1. BrokerInv => FreeSessClean
  BY DEF BrokerInv
<1>2. QED BY BrokerSafe, <1>1, PTL

(* subscribeEx gets past cv.wait only when contentMap holds its key.       *)
THEOREM ReadSafe == Spec => []ReadFindsContent
<1>1. ASSUME BrokerInv, NEW s \in Subscribers, subscriber[s] = "readContent"
      PROVE  job[s] \in contentMap
  BY <1>1 DEF BrokerInv, FoundInv, JobInv, Served, Active, Inserted
<1>2. BrokerInv => ReadFindsContent
  BY <1>1 DEF ReadFindsContent
<1>3. QED BY BrokerSafe, <1>2, PTL

(* No wakeup of subscribeEx is lost, although publishEx sets found outside *)
(* sessMutex: whoever goes to sleep has its notification still to come.    *)
THEOREM NoLostWakeup == Spec => []WaiterCovered
<1>1. ASSUME BrokerInv, NEW s \in Subscribers, Waiting(s), job[s] \in contentMap
      PROVE  /\ \/ publisher[job[s]] = "lookup" /\ waiterMap[job[s]] = sess[s]
                \/ publisher[job[s]] = "setFound" /\ target[job[s]] = sess[s]
                \/ found[sess[s]]
             /\ subscriber[s] \in {"fallAsleep", "asleep"} /\ found[sess[s]] =>
                   publisher[job[s]] = "notify" /\ target[job[s]] = sess[s]
  BY <1>1 DEF BrokerInv, CoverInv, FoundInv, JobInv, Inserted, Holding,
              HoldingSteps, Waiting, WaitingSteps
<1>2. BrokerInv => WaiterCovered
  BY <1>1 DEF WaiterCovered
<1>3. QED BY BrokerSafe, <1>2, PTL

-----------------------------------------------------------------------------
(* The initial state of the broker is that of BrokerSpec.                  *)
LEMMA RefinesInit == Init => Abstract!Init
  BY DEF Init, Abstract!Init, Asked, Published, Awaited, Inserted

(* Where neither a publisher nor what a thread awaits or got is touched,   *)
(* BrokerSpec stutters.                                                    *)
LEMMA AbstractStutters ==
    ASSUME UNCHANGED <<publisher, Awaited, received>>
    PROVE  UNCHANGED Abstract!vars
  BY DEF Abstract!vars, Asked, Published, Inserted

(* A subscriber that is handed its reply, in its first lookup or after its *)
(* wait, awaited a job that was published, and awaits none from then on.   *)
LEMMA HandOutDelivers ==
    ASSUME BrokerInv, NEW s \in Subscribers,
           SubscribeTake(s) \/ SubscribeRead(s), HandOut(s, job[s])
    PROVE  Abstract!Deliver(s)
<1>1. /\ subscriber[s] \in {"asked", "readContent"}
      /\ UNCHANGED <<publisher, job>>
      /\ job[s] \in Jobs /\ Inserted(job[s])
  BY DEF SubscribeTake, SubscribeRead, publishVars, BrokerInv, JobInv,
     FoundInv, Served, Active, Inserted
<1>2. \/ subscriber' = [subscriber EXCEPT ![s] = "idle"]
      \/ subscriber' = [subscriber EXCEPT ![s] = "clearFound"]
      \/ subscriber' = [subscriber EXCEPT ![s] = "aborted"] /\ UNCHANGED received
  BY DEF SubscribeTake, SubscribeRead
<1>3. ~UNCHANGED received
  BY DEF HandOut, BrokerInv, TypeOK
<1>4. Awaited[s] = job[s] /\ job[s] \in Published
  BY <1>1 DEF Awaited, Published
<1>5. Awaited' = [Awaited EXCEPT ![s] = Nobody]
  BY <1>1, <1>2, <1>3 DEF Awaited, BrokerInv, TypeOK
<1>6. UNCHANGED <<Asked, Published>>
  BY <1>1 DEF Asked, Published, Inserted
<1>7. QED BY <1>4, <1>5, <1>6 DEF Abstract!Deliver, HandOut

(* Every step of the broker is one of BrokerSpec or a stutter.             *)
LEMMA RefinesNext == BrokerInv /\ [Next]_vars => [Abstract!Next]_Abstract!vars
<1> SUFFICES ASSUME BrokerInv, [Next]_vars
             PROVE  [Abstract!Next]_Abstract!vars
  OBVIOUS
<1> USE DEF Abstract!Next
<1>1. ASSUME NEW s \in Subscribers, NEW j \in Jobs, Ask(s, j)
      PROVE  Abstract!Ask(s, j)
  <2>1. Awaited[s] = Nobody /\ Awaited' = [Awaited EXCEPT ![s] = j]
    BY <1>1 DEF Ask, Active, Awaited, BrokerInv, TypeOK
  <2>2. QED BY <1>1, <2>1 DEF Ask, Abstract!Ask, Asked, Published, Inserted,
                             BrokerInv, TypeOK
<1>2. ASSUME NEW j \in Jobs, PublishInsert(j) PROVE Abstract!Publish(j)
  BY <1>2 DEF PublishInsert, subscribeVars, Abstract!Publish, Asked, Published,
              Awaited, Inserted, BrokerInv, TypeOK
<1>3. ASSUME NEW j \in Jobs, Publish(j), ~PublishInsert(j)
      PROVE  UNCHANGED Abstract!vars
  BY <1>3 DEF Abstract!vars, Publish, PublishLock, PublishInsert,
              PublishLookup, PublishFound, PublishNotify, WakeSleepers,
              subscribeVars, Asked, Published, Awaited, Inserted, BrokerInv,
              TypeOK
<1>4. ASSUME NEW s \in Subscribers, SubscribeTake(s) \/ SubscribeRead(s)
      PROVE  Abstract!Deliver(s) \/ UNCHANGED Abstract!vars
  <2>1. CASE HandOut(s, job[s])
    BY <1>4, <2>1, HandOutDelivers
  <2>2. CASE ~HandOut(s, job[s])
    <3>1. /\ UNCHANGED <<publisher, job, received>>
          /\ subscriber[s] = "readContent"
          /\ subscriber' = [subscriber EXCEPT ![s] = "aborted"]
      BY <1>4, <2>2 DEF SubscribeTake, SubscribeRead, publishVars
    <3>2. UNCHANGED Awaited
      BY <3>1 DEF Awaited, BrokerInv, TypeOK
    <3>3. QED BY <3>1, <3>2, AbstractStutters
  <2>3. QED BY <2>1, <2>2
<1>5. ASSUME NEW s \in Subscribers, AskAgain(s) \/ Subscribe(s) \/ SpuriousWakeup(s),
             ~SubscribeTake(s), ~SubscribeRead(s)
      PROVE  UNCHANGED Abstract!vars
  <2>1. /\ UNCHANGED <<publisher, job, received>>
        /\ \E step \in SubscribeSteps :
              /\ subscriber' = [subscriber EXCEPT ![s] = step]
              /\ subscriber[s] \in {"idle", "clearFound", "releaseSession"} <=>
                    step \in {"idle", "clearFound", "releaseSession"}
    BY <1>5 DEF AskAgain, SpuriousWakeup, Subscribe, SubscribeNoContent,
         SubscribeNoSess, SubscribeGetSess, SubscribeRegister,
         SubscribeLockSess, SubscribeTestFound, SubscribeSleep,
         SubscribeClearFound, SubscribeReleaseSess, brokerVars, publishVars,
         SubscribeSteps, HoldingSteps, WaitingSteps
  <2>2. UNCHANGED Awaited
    BY <2>1 DEF Awaited, BrokerInv, TypeOK
  <2>3. QED BY <2>1, <2>2, AbstractStutters
<1>6. CASE UNCHANGED vars
  BY <1>6, AbstractStutters DEF vars, publishVars, subscribeVars, Awaited
<1>7. QED
  BY <1>1, <1>2, <1>3, <1>4, <1>5, <1>6 DEF Next, AllServed, Subscribe

(* With its locks, its maps and its ad-hoc sessions, the broker is an      *)
(* implementation of BrokerSpec: each thread is handed the replies it      *)
(* asked for, once each and not before they are published.                 *)
THEOREM BrokerRefines == Spec => ImplementsBrokerSpec
  BY RefinesInit, RefinesNext, BrokerSafe, PTL
     DEF Spec, ImplementsBrokerSpec, Abstract!Spec
=============================================================================
