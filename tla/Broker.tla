------------------------------- MODULE Broker -------------------------------
(***************************************************************************)
(* The broker, core/Broker.cpp: a job consumer publish()es the reply of a  *)
(* job, a session thread subscribe()s to it and sleeps on an ad-hoc        *)
(* session when the reply is not there yet.  One step below is one hold of *)
(* a mutex or one access to shared memory outside of any.                  *)
(*                                                                         *)
(* A job ID is the key of the two maps (taskID is 0 everywhere), and the   *)
(* content published under it is that job's own reply, so contentMap is    *)
(* the set of the keys it holds.                                           *)
(***************************************************************************)
EXTENDS Integers, SequencesExt

CONSTANTS
    Jobs,            \* the jobs that have a reply
    Subscribers,     \* the threads that ask for one
    AdhocCount,      \* BROKER_ADHOC_SESS_COUNT
    Accesses,        \* which BrokerAccessType the subscribers use
    OverlapMayMiss   \* may a lookup that overlaps an insertion miss its key?

Blocking   == "Blocking"
NoBlocking == "NoBlocking"

(* The ad-hoc sessions, named by their ID; 0 is "there is no adhoc sess    *)
(* id", as BROKER_ADHOC_SESS_STARTS is positive.                           *)
AdhocIDs == 1..AdhocCount
NoSess   == 0

(* Neither a job nor a thread: the owner of a free contentMutex.           *)
CONSTANT Nobody

ASSUME BrokerAssumption ==
    /\ AdhocCount \in Nat
    /\ Accesses \subseteq {Blocking, NoBlocking}
    /\ OverlapMayMiss \in BOOLEAN
    /\ Nobody \notin Jobs \cup Subscribers
    /\ Jobs \cap Subscribers = {}

VARIABLES
    contentMap,      \* the jobs with an entry in contentMap
    waiterMap,       \* the ad-hoc session registered for a job, or NoSess
    freeList,        \* freeAdhocSessIDList
    found,           \* AdhocSess::found
    contentMutex,    \* who holds it: a publisher's job, a subscriber, Nobody
    sessMutex,       \* the subscriber that holds AdhocSess::sessMutex, or Nobody
    publisher,       \* where the publish() of a job is
    target,          \* the ad-hoc session that publish() found to wake up
    subscriber,      \* where a thread is in subscribe()
    job,             \* the job it subscribed to last
    sess,            \* the ad-hoc session it holds, or NoSess
    received         \* the jobs whose content a subscriber was handed, in order

publishVars   == <<publisher, target>>
subscribeVars == <<subscriber, job, sess, received>>
brokerVars    == <<contentMap, waiterMap, freeList, found, contentMutex, sessMutex>>
vars == <<brokerVars, publishVars, subscribeVars>>

PublishSteps == {"idle", "called", "insert", "lookup", "setFound", "notify", "done"}

(* The steps at which a subscriber holds an ad-hoc session.                *)
WaitingSteps == {"lockSession", "testFound", "fallAsleep", "asleep"}
HoldingSteps == {"register"} \cup WaitingSteps \cup
                {"readContent", "clearFound", "releaseSession", "aborted"}
SubscribeSteps == {"idle", "asked", "refused"} \cup HoldingSteps

Waiting(s) == subscriber[s] \in WaitingSteps
Holding(s) == subscriber[s] \in HoldingSteps

(* Where a subscriber is from its request to the end of its subscribe().   *)
Active(s) == subscriber[s] # "idle"

FreeIDs == ToSet(freeList)

(* The content of a job is, or was, in contentMap.                         *)
Inserted(j) == publisher[j] \in {"lookup", "setFound", "notify", "done"}

TypeOK ==
    /\ contentMap \in SUBSET Jobs
    /\ waiterMap \in [Jobs -> AdhocIDs \cup {NoSess}]
    /\ freeList \in Seq(AdhocIDs)
    /\ found \in [AdhocIDs -> BOOLEAN]
    /\ contentMutex \in Jobs \cup Subscribers \cup {Nobody}
    /\ sessMutex \in [AdhocIDs -> Subscribers \cup {Nobody}]
    /\ publisher \in [Jobs -> PublishSteps]
    /\ target \in [Jobs -> AdhocIDs \cup {NoSess}]
    /\ subscriber \in [Subscribers -> SubscribeSteps]
    /\ job \in [Subscribers -> Jobs \cup {Nobody}]
    /\ sess \in [Subscribers -> AdhocIDs \cup {NoSess}]
    /\ received \in [Subscribers -> Seq(Jobs)]

Init ==
    /\ contentMap = {}
    /\ waiterMap = [j \in Jobs |-> NoSess]
    /\ freeList = [i \in 1..AdhocCount |-> i]
    /\ found = [i \in AdhocIDs |-> FALSE]
    /\ contentMutex = Nobody
    /\ sessMutex = [i \in AdhocIDs |-> Nobody]
    /\ publisher = [j \in Jobs |-> "idle"]
    /\ target = [j \in Jobs |-> NoSess]
    /\ subscriber = [s \in Subscribers |-> "idle"]
    /\ job = [s \in Subscribers |-> Nobody]
    /\ sess = [s \in Subscribers |-> NoSess]
    /\ received = [s \in Subscribers |-> <<>>]

-----------------------------------------------------------------------------
(* The callers.  A session thread makes a job (its ID is fresh: genJobID   *)
(* counts up), pushes it to the worker, which will publish its reply, and  *)
(* subscribes to that reply; one session has one such request at a time.   *)
Ask(s, j) ==
    /\ ~Active(s)
    /\ publisher[j] = "idle"
    /\ publisher' = [publisher EXCEPT ![j] = "called"]
    /\ subscriber' = [subscriber EXCEPT ![s] = "asked"]
    /\ job' = [job EXCEPT ![s] = j]
    /\ UNCHANGED <<brokerVars, target, sess, received>>

(* A caller whose subscribe() did not succeed may call it again.           *)
AskAgain(s) ==
    /\ subscriber[s] = "refused"
    /\ subscriber' = [subscriber EXCEPT ![s] = "asked"]
    /\ UNCHANGED <<brokerVars, publishVars, job, sess, received>>

-----------------------------------------------------------------------------
(* publishEx                                                               *)

(* Inserting into contentMap takes a while: meanwhile the map is being     *)
(* rebalanced, under contentMutex.                                         *)
PublishLock(j) ==
    /\ publisher[j] = "called"
    /\ contentMutex = Nobody
    /\ contentMutex' = j
    /\ publisher' = [publisher EXCEPT ![j] = "insert"]
    /\ UNCHANGED <<contentMap, waiterMap, freeList, found, sessMutex, target,
                   subscribeVars>>

PublishInsert(j) ==
    /\ publisher[j] = "insert"
    /\ contentMap' = contentMap \cup {j}
    /\ contentMutex' = Nobody
    /\ publisher' = [publisher EXCEPT ![j] = "lookup"]
    /\ UNCHANGED <<waiterMap, freeList, found, sessMutex, target, subscribeVars>>

(* Is somebody waiting?  A waiter found is unregistered (waiterMutex).     *)
PublishLookup(j) ==
    /\ publisher[j] = "lookup"
    /\ target' = [target EXCEPT ![j] = waiterMap[j]]
    /\ waiterMap' = [waiterMap EXCEPT ![j] = NoSess]
    /\ publisher' = [publisher EXCEPT ![j] =
                        IF waiterMap[j] = NoSess THEN "done" ELSE "setFound"]
    /\ UNCHANGED <<contentMap, freeList, found, contentMutex, sessMutex,
                   subscribeVars>>

(* found is set before sessMutex is taken ...                              *)
PublishFound(j) ==
    /\ publisher[j] = "setFound"
    /\ found' = [found EXCEPT ![target[j]] = TRUE]
    /\ publisher' = [publisher EXCEPT ![j] = "notify"]
    /\ UNCHANGED <<contentMap, waiterMap, freeList, contentMutex, sessMutex,
                   target, subscribeVars>>

(* ... and whoever sleeps on that session is notified under it.            *)
WakeSleepers(i) ==
    [s \in Subscribers |-> IF subscriber[s] = "asleep" /\ sess[s] = i
                           THEN "lockSession" ELSE subscriber[s]]

(* Mutant: notify without taking sessMutex.                                *)
PublishNotifyUnlocked(j) ==
    /\ publisher[j] = "notify"
    /\ subscriber' = WakeSleepers(target[j])
    /\ publisher' = [publisher EXCEPT ![j] = "done"]
    /\ UNCHANGED <<brokerVars, target, job, sess, received>>

PublishNotify(j) ==
    /\ publisher[j] = "notify"
    /\ sessMutex[target[j]] = Nobody
    /\ subscriber' = WakeSleepers(target[j])
    /\ publisher' = [publisher EXCEPT ![j] = "done"]
    /\ UNCHANGED <<brokerVars, target, job, sess, received>>

-----------------------------------------------------------------------------
(* subscribeEx                                                             *)

HandOut(s, j) == received' = [received EXCEPT ![s] = Append(@, j)]

(* Mutant: the key is not compared, any content will do.                   *)
SubscribeTakeAny(s) ==
    /\ subscriber[s] = "asked"
    /\ contentMutex = Nobody
    /\ \E j \in contentMap :
          /\ contentMap' = contentMap \ {j}
          /\ HandOut(s, j)
    /\ subscriber' = [subscriber EXCEPT ![s] = "idle"]
    /\ UNCHANGED <<waiterMap, freeList, found, contentMutex, sessMutex,
                   publishVars, job, sess>>

(* (1) The content is there: take it out of the map and go.                *)
SubscribeTake(s) ==
    /\ subscriber[s] = "asked"
    /\ contentMutex = Nobody
    /\ job[s] \in contentMap
    /\ contentMap' = contentMap \ {job[s]}
    /\ HandOut(s, job[s])
    /\ subscriber' = [subscriber EXCEPT ![s] = "idle"]
    /\ UNCHANGED <<waiterMap, freeList, found, contentMutex, sessMutex,
                   publishVars, job, sess>>

(* (2) Not there, and the caller will not wait: NoContent.                 *)
SubscribeNoContent(s) ==
    /\ subscriber[s] = "asked"
    /\ NoBlocking \in Accesses
    /\ contentMutex = Nobody
    /\ job[s] \notin contentMap
    /\ subscriber' = [subscriber EXCEPT ![s] = "refused"]
    /\ UNCHANGED <<brokerVars, publishVars, job, sess, received>>

(* (3) Not there, and no ad-hoc session left to wait on: NoFreeAdhocSess.  *)
SubscribeNoSess(s) ==
    /\ subscriber[s] = "asked"
    /\ Blocking \in Accesses
    /\ contentMutex = Nobody
    /\ job[s] \notin contentMap
    /\ freeList = <<>>
    /\ subscriber' = [subscriber EXCEPT ![s] = "refused"]
    /\ UNCHANGED <<brokerVars, publishVars, job, sess, received>>

(* Mutants: the ID is looked at but not popped; contentMutex is released   *)
(* before the waiter is registered.                                        *)
SubscribePeekSess(s) ==
    /\ subscriber[s] = "asked"
    /\ Blocking \in Accesses
    /\ contentMutex = Nobody
    /\ job[s] \notin contentMap
    /\ freeList # <<>>
    /\ sess' = [sess EXCEPT ![s] = Head(freeList)]
    /\ contentMutex' = s
    /\ subscriber' = [subscriber EXCEPT ![s] = "register"]
    /\ UNCHANGED <<contentMap, waiterMap, freeList, found, sessMutex,
                   publishVars, job, received>>

SubscribeGetSessUnlocks(s) ==
    /\ subscriber[s] = "asked"
    /\ Blocking \in Accesses
    /\ contentMutex = Nobody
    /\ job[s] \notin contentMap
    /\ freeList # <<>>
    /\ sess' = [sess EXCEPT ![s] = Head(freeList)]
    /\ freeList' = Tail(freeList)
    /\ subscriber' = [subscriber EXCEPT ![s] = "register"]
    /\ UNCHANGED <<contentMap, waiterMap, found, contentMutex, sessMutex,
                   publishVars, job, received>>

(* (3) Not there: get an ad-hoc session, keeping contentMutex.             *)
SubscribeGetSess(s) ==
    /\ subscriber[s] = "asked"
    /\ Blocking \in Accesses
    /\ contentMutex = Nobody
    /\ job[s] \notin contentMap
    /\ freeList # <<>>
    /\ sess' = [sess EXCEPT ![s] = Head(freeList)]
    /\ freeList' = Tail(freeList)
    /\ contentMutex' = s
    /\ subscriber' = [subscriber EXCEPT ![s] = "register"]
    /\ UNCHANGED <<contentMap, waiterMap, found, sessMutex, publishVars, job,
                   received>>

(* (4) Register as the waiter of the job, then release contentMutex.       *)
SubscribeRegister(s) ==
    /\ subscriber[s] = "register"
    /\ waiterMap' = [waiterMap EXCEPT ![job[s]] = sess[s]]
    /\ contentMutex' = Nobody
    /\ subscriber' = [subscriber EXCEPT ![s] = "lockSession"]
    /\ UNCHANGED <<contentMap, freeList, found, sessMutex, publishVars, job,
                   sess, received>>

(* (5) cv.wait(sessLock, found): take the mutex (again) ...                *)
SubscribeLockSess(s) ==
    /\ subscriber[s] = "lockSession"
    /\ sessMutex[sess[s]] = Nobody
    /\ sessMutex' = [sessMutex EXCEPT ![sess[s]] = s]
    /\ subscriber' = [subscriber EXCEPT ![s] = "testFound"]
    /\ UNCHANGED <<contentMap, waiterMap, freeList, found, contentMutex,
                   publishVars, job, sess, received>>

(* ... under it go on if found, and go to sleep if not.  The publisher,    *)
(* which sets found without the mutex, may do so between the two.          *)
SubscribeTestFound(s) ==
    /\ subscriber[s] = "testFound"
    /\ IF found[sess[s]]
       THEN /\ sessMutex' = [sessMutex EXCEPT ![sess[s]] = Nobody]
            /\ subscriber' = [subscriber EXCEPT ![s] = "readContent"]
       ELSE /\ subscriber' = [subscriber EXCEPT ![s] = "fallAsleep"]
            /\ UNCHANGED sessMutex
    /\ UNCHANGED <<contentMap, waiterMap, freeList, found, contentMutex,
                   publishVars, job, sess, received>>

SubscribeSleep(s) ==
    /\ subscriber[s] = "fallAsleep"
    /\ sessMutex' = [sessMutex EXCEPT ![sess[s]] = Nobody]
    /\ subscriber' = [subscriber EXCEPT ![s] = "asleep"]
    /\ UNCHANGED <<contentMap, waiterMap, freeList, found, contentMutex,
                   publishVars, job, sess, received>>

(* Mutant: cv.wait without its predicate.                                  *)
SpuriousWakeupReads(s) ==
    /\ subscriber[s] = "asleep"
    /\ subscriber' = [subscriber EXCEPT ![s] = "readContent"]
    /\ UNCHANGED <<brokerVars, publishVars, job, sess, received>>

SpuriousWakeup(s) ==
    /\ subscriber[s] = "asleep"
    /\ subscriber' = [subscriber EXCEPT ![s] = "lockSession"]
    /\ UNCHANGED <<brokerVars, publishVars, job, sess, received>>

(* contentMap[key] is read with no lock.  A lookup that overlaps an        *)
(* insertion races with the rebalancing and may miss its key; it fails the *)
(* assertion on the line before, which stops the process.  The entry stays *)
(* in the map.                                                             *)
LookupOutcomes(s) ==
    {job[s] \in contentMap} \cup
        (IF OverlapMayMiss /\ contentMutex \in Jobs THEN {FALSE} ELSE {})

SubscribeRead(s) ==
    /\ subscriber[s] = "readContent"
    /\ \E present \in LookupOutcomes(s) :
          IF present
          THEN /\ subscriber' = [subscriber EXCEPT ![s] = "clearFound"]
               /\ HandOut(s, job[s])
          ELSE /\ subscriber' = [subscriber EXCEPT ![s] = "aborted"]
               /\ UNCHANGED received
    /\ UNCHANGED <<brokerVars, publishVars, job, sess>>

(* Mutant: found is left as it is.                                         *)
SubscribeKeepFound(s) ==
    /\ subscriber[s] = "clearFound"
    /\ subscriber' = [subscriber EXCEPT ![s] = "releaseSession"]
    /\ UNCHANGED <<brokerVars, publishVars, job, sess, received>>

(* (6) releaseAdhocSessID: first the flag, without a lock, ...             *)
SubscribeClearFound(s) ==
    /\ subscriber[s] = "clearFound"
    /\ found' = [found EXCEPT ![sess[s]] = FALSE]
    /\ subscriber' = [subscriber EXCEPT ![s] = "releaseSession"]
    /\ UNCHANGED <<contentMap, waiterMap, freeList, contentMutex, sessMutex,
                   publishVars, job, sess, received>>

(* Mutant: the array index is put back instead of the ID.                  *)
SubscribeReleaseIndex(s) ==
    /\ subscriber[s] = "releaseSession"
    /\ freeList' = Append(freeList, sess[s] - 1)
    /\ sess' = [sess EXCEPT ![s] = NoSess]
    /\ subscriber' = [subscriber EXCEPT ![s] = "idle"]
    /\ UNCHANGED <<contentMap, waiterMap, found, contentMutex, sessMutex,
                   publishVars, job, received>>

(* ... then the ID goes to the end of the list (adhocSessMutex).           *)
SubscribeReleaseSess(s) ==
    /\ subscriber[s] = "releaseSession"
    /\ freeList' = Append(freeList, sess[s])
    /\ sess' = [sess EXCEPT ![s] = NoSess]
    /\ subscriber' = [subscriber EXCEPT ![s] = "idle"]
    /\ UNCHANGED <<contentMap, waiterMap, found, contentMutex, sessMutex,
                   publishVars, job, received>>

-----------------------------------------------------------------------------
Publish(j) ==
    \/ PublishLock(j)
    \/ PublishInsert(j)
    \/ PublishLookup(j)
    \/ PublishFound(j)
    \/ PublishNotify(j)

Subscribe(s) ==
    \/ SubscribeTake(s)
    \/ SubscribeNoContent(s)
    \/ SubscribeNoSess(s)
    \/ SubscribeGetSess(s)
    \/ SubscribeRegister(s)
    \/ SubscribeLockSess(s)
    \/ SubscribeTestFound(s)
    \/ SubscribeSleep(s)
    \/ SubscribeRead(s)
    \/ SubscribeClearFound(s)
    \/ SubscribeReleaseSess(s)

(* Every job has its reply (or the process has aborted): nothing to do.    *)
AllServed ==
    /\ \/ \A j \in Jobs : publisher[j] = "done"
       \/ \E s \in Subscribers : subscriber[s] = "aborted"
    /\ \A s \in Subscribers : subscriber[s] \in {"idle", "aborted"}
    /\ UNCHANGED vars

Next ==
    \/ \E s \in Subscribers, j \in Jobs : Ask(s, j)
    \/ \E j \in Jobs : Publish(j)
    \/ \E s \in Subscribers : AskAgain(s) \/ Subscribe(s) \/ SpuriousWakeup(s)
    \/ AllServed

Spec == Init /\ [][Next]_vars

(* The worker publishes the reply of every job it was given, and a thread  *)
(* inside either function runs on; a caller need not ask again.  Weak      *)
(* fairness is enough: nothing that holds a mutex waits for anything but   *)
(* sessMutex, and each is taken a bounded number of times, the retries of  *)
(* a refused caller aside, which hold none for longer than a step.         *)
Fairness ==
    /\ \A j \in Jobs : WF_vars(Publish(j))
    /\ \A s \in Subscribers : WF_vars(Subscribe(s))

FairSpec == Spec /\ Fairness

-----------------------------------------------------------------------------
(* Properties.                                                             *)

(* getFreeAdhocSessID and releaseAdhocSessID lose and duplicate nothing:   *)
(* an ad-hoc session is in the free list, once, or held by one subscriber. *)
AdhocConserved ==
    /\ IsInjective(freeList)
    /\ \A s \in Subscribers : Holding(s) <=> sess[s] # NoSess
    /\ \A s \in Subscribers : Holding(s) => sess[s] \notin FreeIDs
    /\ \A s, u \in Subscribers :
          Holding(s) /\ Holding(u) /\ sess[s] = sess[u] => s = u
    /\ \A i \in AdhocIDs :
          i \in FreeIDs \/ \E s \in Subscribers : Holding(s) /\ sess[s] = i

(* A session back in the free list carries nothing over to its next user:  *)
(* its found flag is down, and no registration and no publisher that is    *)
(* still on its way can raise it.                                          *)
FreeSessClean ==
    \A i \in FreeIDs :
        /\ ~found[i]
        /\ \A j \in Jobs : waiterMap[j] # i
        /\ \A j \in Jobs : ~(publisher[j] = "setFound" /\ target[j] = i)

(* A subscriber gets past its wait only with its content in contentMap:    *)
(* neither a spurious wakeup nor a notification meant for the session's    *)
(* previous user lets it through.                                          *)
ReadFindsContent ==
    \A s \in Subscribers :
        subscriber[s] = "readContent" => job[s] \in contentMap

(* No wakeup is lost: once the content of a waiting subscriber is in the   *)
(* map, its publisher has still to look the waiter up and will find it, or *)
(* has found it, or has set found; and if the subscriber sleeps all the    *)
(* same, the notification is still to come.                                *)
WaiterCovered ==
    \A s \in Subscribers : Waiting(s) /\ job[s] \in contentMap =>
        LET p == publisher[job[s]] IN
        /\ \/ p = "lookup" /\ waiterMap[job[s]] = sess[s]
           \/ p = "setFound" /\ target[job[s]] = sess[s]
           \/ found[sess[s]]
        /\ subscriber[s] \in {"fallAsleep", "asleep"} /\ found[sess[s]] =>
              p = "notify" /\ target[job[s]] = sess[s]

(* A failed assertion ends the process.                                    *)
Aborted == \E s \in Subscribers : subscriber[s] = "aborted"

(* The reply of a job reaches the thread that asked for it, unless its     *)
(* subscribe() is refused (or the race on contentMap ends the process).    *)
AskedIsReplied ==
    \A s \in Subscribers, j \in Jobs :
        (Active(s) /\ job[s] = j) ~>
            (j \in ToSet(received[s]) \/ subscriber[s] = "refused" \/ Aborted)

-----------------------------------------------------------------------------
(* The locks, the maps and the ad-hoc sessions implement BrokerSpec: a     *)
(* reply is published when it enters contentMap and handed out when        *)
(* subscribeEx sets its reader; a thread awaits it until then, through     *)
(* refusals and retries too.                                               *)
Asked     == {j \in Jobs : publisher[j] # "idle"}
Published == {j \in Jobs : Inserted(j)}

Awaited == [s \in Subscribers |->
               IF subscriber[s] \in {"idle", "clearFound", "releaseSession"}
               THEN Nobody ELSE job[s]]

Abstract == INSTANCE BrokerSpec
                WITH asked <- Asked, published <- Published, awaited <- Awaited

(* Every thread is handed the reply it asked for last and no other, once   *)
(* for each request, and not before that reply is published: a step of the *)
(* broker asks, publishes, hands out to one thread, or is a stutter.       *)
ImplementsBrokerSpec == Abstract!Spec
=============================================================================
