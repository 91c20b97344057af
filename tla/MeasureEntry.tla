---------------------------- MODULE MeasureEntry ----------------------------
(***************************************************************************)
(* The ring of a network's measures, measure/MeasureEntry.cpp.  One thread *)
(* adds the measures of each mini batch, readers copy some of them out;    *)
(* data are copied outside entryMutex, which the status and the reference  *)
(* count of a slot make up for.  A measure is its number.                  *)
(***************************************************************************)
EXTENDS Integers, FiniteSets, SequencesExt

CONSTANTS
    Readers,         \* the threads that handle GetMeasures jobs
    QueueSize,       \* queueSize, a multiple of the number of items
    MaxRetry,        \* MEASURE_ENTRY_ADDDATA_MAX_RETRY_COUNT
    Requests,        \* the requests that clients make
    None             \* no measure, or one that is half written

ASSUME MeasureAssumption ==
    /\ QueueSize \in Nat \ {0, 1} /\ MaxRetry \in Nat \ {0}
    /\ IsFiniteSet(Readers) /\ Requests # {}
    /\ \A q \in Requests :
          /\ q.forward \in BOOLEAN /\ q.start \in Nat
          /\ q.count \in 0..(QueueSize - 1)      \* SASSUME0(count < queueSize)
    /\ None \notin Int

VARIABLES
    head, baseIterNum,
    data, status, readRefCount,
    writing,         \* where addData() is: "out", "add", "copy"
    addRetry,        \* its retryCount
    reading,         \* where getData() of a reader is
    request,         \* its parameters
    areas,           \* its two areas of the ring, as far as they are not given back
    locked,          \* how many of their slots setAreaLock has locked
    retry,           \* ... and its retryCount for the next one
    result,          \* what was copied
    label,           \* startIterNum
    until,           \* history: how many measures there were at that time
    failed           \* an assertion failed, or memory was overrun

writerVars == <<head, baseIterNum, writing, addRetry>>
readerVars == <<reading, request, areas, locked, retry, result, label, until>>
measureVars == <<writerVars, data, status, readRefCount, readerVars, failed>>

Slots == 0..(QueueSize - 1)

(* The measures that were added so far.                                    *)
Added == baseIterNum + head

(* Some slots in a row, maybe none.                                        *)
Area(start, count) == [start |-> start, count |-> count]
NoArea == Area(0, 0)
NoAreas == <<NoArea, NoArea>>
Areas == [start : Slots, count : 0..QueueSize]

MeasureTypeOK ==
    /\ head \in Slots /\ baseIterNum \in Nat
    /\ data \in [Slots -> Nat \cup {None}]
    /\ status \in [Slots -> {"none", "read", "write"}]
    /\ readRefCount \in [Slots -> 0..(2 * Cardinality(Readers))]
    /\ writing \in {"out", "add", "copy"} /\ addRetry \in 0..(MaxRetry - 1)
    /\ reading \in [Readers -> {"out", "lock", "copy", "unlock", "replied"}]
    /\ request \in [Readers -> Requests]
    /\ areas \in [Readers -> Areas \X Areas]
    /\ locked \in [Readers -> Slots]
    /\ retry \in [Readers -> 0..MaxRetry]
    /\ result \in [Readers -> Seq(Nat \cup {None})]
    /\ label \in [Readers -> Int]
    /\ until \in [Readers -> Nat]
    /\ failed \in BOOLEAN

MeasureInit ==
    /\ head = 0 /\ baseIterNum = 0
    /\ data = [i \in Slots |-> None]
    /\ status = [i \in Slots |-> "none"]
    /\ readRefCount = [i \in Slots |-> 0]
    /\ writing = "out" /\ addRetry = 0
    /\ reading = [r \in Readers |-> "out"]
    /\ request = [r \in Readers |-> CHOOSE q \in Requests : TRUE]
    /\ areas = [r \in Readers |-> NoAreas]
    /\ locked = [r \in Readers |-> 0]
    /\ retry = [r \in Readers |-> 0]
    /\ result = [r \in Readers |-> <<>>]
    /\ label = [r \in Readers |-> 0]
    /\ until = [r \in Readers |-> 0]
    /\ failed = FALSE

-----------------------------------------------------------------------------
(* addData                                                                 *)

(* Mutant: the readers are not looked at.                                  *)
AddLocksHeldSlot ==
    /\ writing = "add"
    /\ status' = [status EXCEPT ![head] = "write"]
    /\ data' = [data EXCEPT ![head] = None]
    /\ writing' = "copy"
    /\ UNCHANGED <<head, baseIterNum, addRetry, readRefCount, readerVars, failed>>

(* One look at the slot under the mutex: take it (and write half of it),   *)
(* or try again later while it is being read.                              *)
AddLocks ==
    /\ writing = "add"
    /\ CASE status[head] = "none" ->
              /\ status' = [status EXCEPT ![head] = "write"]
              /\ data' = [data EXCEPT ![head] = None]
              /\ writing' = "copy" /\ addRetry' = 0
              /\ UNCHANGED failed
         [] status[head] = "read" /\ addRetry + 1 < MaxRetry ->
              addRetry' = addRetry + 1 /\ UNCHANGED <<status, data, writing, failed>>
         [] OTHER ->
              failed' = TRUE /\ UNCHANGED <<status, data, writing, addRetry>>
    /\ UNCHANGED <<head, baseIterNum, readRefCount, readerVars>>

(* Mutant: the head runs one past the end of the ring.                     *)
AddEndsLate ==
    /\ writing = "copy"
    /\ data' = [data EXCEPT ![head] = Added]
    /\ status' = [status EXCEPT ![head] = "none"]
    /\ IF head = QueueSize
       THEN head' = 0 /\ baseIterNum' = baseIterNum + QueueSize
       ELSE head' = head + 1 /\ UNCHANGED baseIterNum
    /\ writing' = "out"
    /\ UNCHANGED <<addRetry, readRefCount, readerVars, failed>>

AddEnds ==
    /\ writing = "copy"
    /\ data' = [data EXCEPT ![head] = Added]
    /\ status' = [status EXCEPT ![head] = "none"]
    /\ IF head + 1 = QueueSize
       THEN head' = 0 /\ baseIterNum' = baseIterNum + QueueSize
       ELSE head' = head + 1 /\ UNCHANGED baseIterNum
    /\ writing' = "out"
    /\ UNCHANGED <<addRetry, readRefCount, readerVars, failed>>

-----------------------------------------------------------------------------
(* getData                                                                 *)

(* The areas of a request that asks for the last measures.                 *)
Backward(count) ==
    IF head >= count THEN <<Area(head - count, count), NoArea>>
    ELSE IF baseIterNum = 0 THEN <<Area(0, head), NoArea>>
    ELSE <<Area(QueueSize - (count - head), count - head), Area(0, head)>>

QueueIterNumBegin ==
    IF baseIterNum = 0 THEN 0
    ELSE ((head + 1) % QueueSize) + baseIterNum - QueueSize

(* ... and of one that asks for those from a number on.                    *)
Forward(start, count) ==
    LET from == IF start > QueueIterNumBegin THEN start ELSE QueueIterNumBegin
        to   == IF start + count < Added THEN start + count ELSE Added
        n    == to - from
        left == QueueSize - start
    IN  IF left < n
        THEN <<Area(from % QueueSize, left), Area(0, n - left)>>
        ELSE <<Area(from % QueueSize, n), NoArea>>

(* Nothing of what is asked for is in the ring.                            *)
NotThere(q) ==
    q.forward /\ \/ QueueIterNumBegin > Added
                 \/ q.start > Added
                 \/ q.start + q.count < QueueIterNumBegin

AreasOf(q) == IF q.forward THEN Forward(q.start, q.count) ELSE Backward(q.count)

(* An area outside the ring, or one that would be copied to before the     *)
(* result: the SASSUME0 of setAreaLock and getDataInternal, or nothing at  *)
(* all in a release build.                                                 *)
Overruns(as) ==
    \E a \in {as[1], as[2]} : a.count < 0 \/ a.start + a.count > QueueSize

Size(as) == as[1].count + as[2].count

SlotAt(as, k) ==
    IF k <= as[1].count THEN as[1].start + k - 1
    ELSE as[2].start + k - as[1].count - 1

(* Those of the slots of the k-th area that are among the first n of both. *)
FirstSlots(as, n, k) ==
    LET m == IF k = 1 THEN n ELSE n - as[1].count
    IN  {i \in Slots : /\ as[k].start <= i /\ i < as[k].start + as[k].count
                       /\ i < as[k].start + m}

AfterLocks(as) == IF Size(as) = 0 THEN "replied" ELSE "copy"

(* setAreaLock, from the n-th slot on up to the first that is being        *)
(* written: then it lets go of the mutex and tries again later.            *)
LockSlots(r, as, n) ==
    \E m \in n..Size(as) :
        LET takes(i) == {k \in {1, 2} : i \in FirstSlots(as, m, k) \ FirstSlots(as, n, k)}
            looks == IF m = n THEN retry[r] + 1 ELSE 1
        IN  /\ \A j \in (n + 1)..m : status[SlotAt(as, j)] # "write"
            /\ m < Size(as) => status[SlotAt(as, m + 1)] = "write"
            /\ readRefCount' = [i \in Slots |-> readRefCount[i] + Cardinality(takes(i))]
            /\ status' = [i \in Slots |-> IF takes(i) # {} THEN "read" ELSE status[i]]
            /\ locked' = [locked EXCEPT ![r] = m]
            /\ IF m < Size(as)
               THEN /\ reading' = [reading EXCEPT ![r] = "lock"]
                    /\ retry' = [retry EXCEPT ![r] = looks]
                    /\ IF looks < MaxRetry THEN UNCHANGED failed ELSE failed' = TRUE
               ELSE /\ reading' = [reading EXCEPT ![r] = AfterLocks(as)]
                    /\ retry' = [retry EXCEPT ![r] = 0]
                    /\ UNCHANGED failed

(* The areas are computed and locked in one hold of the mutex.             *)
GetData(r, q) ==
    /\ reading[r] = "out"
    /\ request' = [request EXCEPT ![r] = q]
    /\ until' = [until EXCEPT ![r] = Added]
    /\ LET as == AreasOf(q) IN
       CASE NotThere(q) ->
              /\ label' = [label EXCEPT ![r] = -1]
              /\ reading' = [reading EXCEPT ![r] = "replied"]
              /\ UNCHANGED <<areas, status, readRefCount, locked, retry, failed>>
         [] ~NotThere(q) /\ Overruns(as) ->
              /\ failed' = TRUE
              /\ UNCHANGED <<reading, areas, label, status, readRefCount, locked, retry>>
         [] OTHER ->
              /\ label' = [label EXCEPT ![r] = baseIterNum + as[1].start]
              /\ areas' = [areas EXCEPT ![r] = as]
              /\ LockSlots(r, as, 0)
    /\ UNCHANGED <<writerVars, data, result>>

LockRetry(r) ==
    /\ reading[r] = "lock"
    /\ LockSlots(r, areas[r], locked[r])
    /\ UNCHANGED <<writerVars, data, areas, result, label, until, request>>

(* The area that is next, and those that come after it.                    *)
First(as) == IF as[1].count > 0 THEN as[1] ELSE as[2]
Others(as) == IF as[1].count > 0 THEN <<NoArea, as[2]>> ELSE NoAreas

InArea(a, i) == a.start <= i /\ i < a.start + a.count

(* getDataInternal of an area: the copy without the mutex.                 *)
Copy(r) ==
    /\ reading[r] = "copy"
    /\ LET a == First(areas[r]) IN
       result' = [result EXCEPT ![r] = @ \o [k \in 1..a.count |-> data[a.start + k - 1]]]
    /\ reading' = [reading EXCEPT ![r] = "unlock"]
    /\ UNCHANGED <<writerVars, data, status, readRefCount, request, areas, locked,
                   retry, label, until, failed>>

(* Mutant: the first reader that is done frees the slot.                   *)
UnlockFrees(r) ==
    /\ reading[r] = "unlock"
    /\ LET a == First(areas[r]) IN
          /\ readRefCount' = [i \in Slots |->
                readRefCount[i] - IF InArea(a, i) THEN 1 ELSE 0]
          /\ status' = [i \in Slots |-> IF InArea(a, i) THEN "none" ELSE status[i]]
    /\ areas' = [areas EXCEPT ![r] = Others(@)]
    /\ reading' = [reading EXCEPT ![r] = AfterLocks(Others(areas[r]))]
    /\ UNCHANGED <<writerVars, data, request, locked, retry, result, label, until, failed>>

(* ... and its slots are given back, under the mutex.                      *)
Unlock(r) ==
    /\ reading[r] = "unlock"
    /\ LET a == First(areas[r]) IN
          /\ readRefCount' = [i \in Slots |->
                readRefCount[i] - IF InArea(a, i) THEN 1 ELSE 0]
          /\ status' = [i \in Slots |->
                IF InArea(a, i) /\ readRefCount[i] = 1 THEN "none" ELSE status[i]]
    /\ areas' = [areas EXCEPT ![r] = Others(@)]
    /\ reading' = [reading EXCEPT ![r] = AfterLocks(Others(areas[r]))]
    /\ UNCHANGED <<writerVars, data, request, locked, retry, result, label, until, failed>>

(* handleGetMeasures has published the reply.                              *)
Replied(r) ==
    /\ reading[r] = "replied"
    /\ reading' = [reading EXCEPT ![r] = "out"]
    /\ request' = [request EXCEPT ![r] = CHOOSE q \in Requests : TRUE]
    /\ result' = [result EXCEPT ![r] = <<>>]
    /\ label' = [label EXCEPT ![r] = 0]
    /\ until' = [until EXCEPT ![r] = 0]
    /\ areas' = [areas EXCEPT ![r] = NoAreas]
    /\ locked' = [locked EXCEPT ![r] = 0]
    /\ UNCHANGED <<writerVars, data, status, readRefCount, retry, failed>>

Reader(r) ==
    \/ \E q \in Requests : GetData(r, q)
    \/ LockRetry(r)
    \/ Copy(r)
    \/ Unlock(r)
    \/ Replied(r)

-----------------------------------------------------------------------------
(* Properties.                                                             *)

(* What a reader holds of its k-th area: what it has locked so far, and    *)
(* has not given back yet.                                                 *)
HeldSlots(r, k) == FirstSlots(areas[r], locked[r], k)

Holders(i) == {h \in Readers \X {1, 2} : i \in HeldSlots(h[1], h[2])}

(* A slot is held exactly by those who read it: the count of its readers,  *)
(* of whom one may have it in both of its areas, is exact, and its status  *)
(* says whether there are any; that at the head is nobody's while it is    *)
(* being written.                                                          *)
SlotsHeld ==
    \A i \in Slots :
        LET held == Cardinality(Holders(i)) IN
        /\ readRefCount[i] = held
        /\ status[i] = IF i = head /\ writing = "copy" THEN "write"
                       ELSE IF held > 0 THEN "read" ELSE "none"
        /\ status[i] = "write" => held = 0

(* No reply holds a half written measure.  Who asks for the last measures  *)
(* gets the last ones there were when it asked, in order, however far the  *)
(* writer has come meanwhile.                                              *)
SnapshotExact ==
    \A r \in Readers : reading[r] = "replied" /\ label[r] # -1 =>
        LET n     == Len(result[r])
            asked == request[r].count
        IN  /\ \A k \in 1..n : result[r][k] # None
            /\ ~request[r].forward =>
                  /\ n = IF until[r] < asked THEN until[r] ELSE asked
                  /\ \A k \in 1..n : result[r][k] = until[r] - n + k - 1
=============================================================================
