----------------------- MODULE InputDataProviderProofs ----------------------
(***************************************************************************)
(* Proofs about InputDataProvider, for any number of input layers, runs    *)
(* and mini batches, and pools of any size: the caller gets the data in    *)
(* order, one provider fills, and, if the network needs more data than     *)
(* addPool reads ahead, the pools outlive it.                              *)
(***************************************************************************)
EXTENDS InputDataProvider, FiniteSetTheorems, TLAPS

-----------------------------------------------------------------------------
(* The ring.                                                               *)

LEMMA Modulo ==
    ASSUME NEW n \in Nat \ {0}, NEW x \in Nat, x < n + n
    PROVE  x % n = IF x < n THEN x ELSE x - n
<1>1. CASE x < n
  <2>1. x % n = x
    BY <1>1
  <2>2. QED BY <1>1, <2>1
<1>2. CASE n <= x
  <2>1. x % n = x - n
    BY <1>2
  <2>2. QED BY <1>2, <2>1
<1>3. QED BY <1>1, <1>2

(* a slots on, and b more, is a + b slots on; the slots on the way differ. *)
LEMMA RingAdd ==
    ASSUME NEW n \in Nat \ {0}, NEW h \in 0..(n - 1), NEW a \in Nat, NEW b \in Nat,
           a + b <= n
    PROVE  (((h + a) % n) + b) % n = (h + (a + b)) % n
<1> DEFINE x == h + a
           y == h + (a + b)
<1>1. /\ x \in Nat /\ x < n + n /\ y \in Nat /\ y < n + n /\ y = x + b
  OBVIOUS
<1> HIDE DEF x, y
<1>2. x % n = (IF x < n THEN x ELSE x - n) /\ y % n = (IF y < n THEN y ELSE y - n)
  BY <1>1, Modulo
<1>3. ((x % n) + b) % n = y % n
  <2>1. CASE x < n
    BY <1>1, <1>2, <2>1
  <2>2. CASE x >= n
    <3>1. y - n \in Nat /\ y - n < n + n /\ y >= n /\ y - n < n
      BY <1>1, <2>2
    <3>2. (x % n) + b = y - n
      BY <1>1, <1>2, <2>2
    <3>3. (y - n) % n = y - n
      BY <3>1, Modulo
    <3>4. QED BY <1>1, <1>2, <3>1, <3>2, <3>3
  <2>3. QED BY <1>1, <2>1, <2>2
<1>4. QED BY <1>3 DEF x, y

LEMMA RingDistinct ==
    ASSUME NEW n \in Nat \ {0}, NEW h \in 0..(n - 1), NEW i \in 0..(n - 1),
           NEW j \in 0..(n - 1), (h + i) % n = (h + j) % n
    PROVE  i = j
<1> DEFINE x == h + i
           y == h + j
<1>1. x \in Nat /\ x < n + n /\ y \in Nat /\ y < n + n
  OBVIOUS
<1>2. x % n = y % n
  OBVIOUS
<1> HIDE DEF x, y
<1>3. x % n = (IF x < n THEN x ELSE x - n) /\ y % n = (IF y < n THEN y ELSE y - n)
  BY <1>1, Modulo
<1>4. x = y \/ x = y + n \/ y = x + n
  BY <1>1, <1>2, <1>3
<1>5. QED BY <1>4 DEF x, y

LEMMA RingSlot ==
    ASSUME NEW n \in Nat \ {0}, NEW x \in Nat PROVE x % n \in 0..(n - 1)
OBVIOUS

-----------------------------------------------------------------------------
(* The invariant of the ring.                                              *)

(* Where the run is.                                                       *)
CallerInv ==
    /\ startJobs <= runs
    /\ pc[Caller] \in {"idle", "get", "wait"}
    /\ pc[Caller] = "idle" => layer = 1 /\ took = IF runs = 0 THEN 0 ELSE Demand
    /\ pc[Caller] # "idle" => runs > 0 /\ took < Demand

(* A started provider is the one of the PoolInfo, unless that is gone.     *)
OneInv ==
    /\ \A t, u \in Providers : pc[t] # "idle" /\ pc[u] # "idle" => t = u
    /\ registered /\ threadID = NoThread => \A t \in Providers : pc[t] = "idle"

(* What a provider that fills a pool has seen of it is still free.         *)
Filling(t, p) == pc[t] \in {"fill", "update"} /\ at[t] = p

SeenFree(t, p, extra) ==
    /\ extra = filled[t] /\ look[t] \in 1..remain[p]
    /\ pc[t] = "fill" => extra < look[t]
    /\ pc[t] = "update" => extra = look[t]

(* RingHoldsStream, with the elements that are filled and not yet counted. *)
PoolHolds(p, extra) ==
    /\ \A i \in 0..(active[p] + extra - 1) :
          elem[p][(head[p] + i) % ElemCount] = Taken(p) + 1 + i
    /\ read[p] = Taken(p) + active[p] + extra
    /\ \A t \in Providers : Filling(t, p) => SeenFree(t, p, extra)
    /\ (\A t \in Providers : ~Filling(t, p)) => extra = 0

RingInv ==
    \A p \in Pools :
        /\ active[p] + remain[p] = ElemCount
        /\ tail[p] = (head[p] + active[p]) % ElemCount
        /\ \E extra \in 0..remain[p] : PoolHolds(p, extra)

StreamInv == TypeOK /\ CallerInv /\ OneInv /\ RingInv

LEMMA InitStream == Init => StreamInv
<1> SUFFICES ASSUME Init PROVE StreamInv
  OBVIOUS
<1> USE IDPAssumption
<1>1. /\ 0 \in Slots /\ 1 \in Pools /\ 1 % ElemCount \in Slots
      /\ ElemCount - 1 \in 0..ElemCount /\ 1 \in 0..ElemCount
  BY RingSlot DEF Slots, Pools
<1>2. TypeOK
  <2>1. elem \in [Pools -> [Slots -> Nat]]
    BY DEF Init
  <2>2. QED
    BY <1>1, <2>1 DEF Init, TypeOK, Threads, Steps, WaitSteps
<1>3. CallerInv
  BY DEF Init, CallerInv, Threads
<1>4. OneInv
  BY DEF Init, OneInv, Threads
<1>5. RingInv
  <2> SUFFICES ASSUME NEW p \in Pools
               PROVE  /\ active[p] + remain[p] = ElemCount
                      /\ tail[p] = (head[p] + active[p]) % ElemCount
                      /\ PoolHolds(p, 0) /\ 0 \in 0..remain[p]
    BY DEF RingInv
  <2>1. /\ active[p] = 1 /\ remain[p] = ElemCount - 1 /\ head[p] = 0 /\ read[p] = 1
        /\ tail[p] = 1 % ElemCount /\ elem[p][0] = 1
    BY <1>1 DEF Init
  <2>2. Taken(p) = 0
    BY DEF Init, Taken, Pools
  <2>3. \A t \in Providers : ~Filling(t, p)
    BY DEF Init, Filling, Threads
  <2>4. (0 + 0) % ElemCount = 0
    BY Modulo
  <2>5. PoolHolds(p, 0)
    BY <2>1, <2>2, <2>3, <2>4 DEF PoolHolds
  <2>6. QED BY <2>1, <2>5
<1>6. QED BY <1>2, <1>3, <1>4, <1>5 DEF StreamInv

-----------------------------------------------------------------------------
(* What the steps do to pc and to the position of the provider.            *)

LEMMA GotoStep ==
    ASSUME TypeOK, NEW t \in Threads, NEW step \in Steps, Goto(t, step)
    PROVE  /\ pc' \in [Threads -> Steps] /\ pc'[t] = step
           /\ \A u \in Threads : u # t => pc'[u] = pc[u]
BY DEF TypeOK, Goto

LEMMA NextPoolStep ==
    ASSUME TypeOK, NEW t \in Providers, NEW b \in BOOLEAN, NextPool(t, b)
    PROVE  /\ pc' \in [Threads -> Steps] /\ pc'[t] \in {"look", "wait"}
           /\ \A u \in Threads : u # t => pc'[u] = pc[u]
           /\ at' \in [Providers -> Pools] /\ progress' \in [Providers -> BOOLEAN]
           /\ \A u \in Providers : u # t => at'[u] = at[u]
<1> t \in Threads /\ 1 \in Pools
  BY IDPAssumption DEF Threads, Pools
<1>1. CASE at[t] < PoolCount
  <2>1. at' = [at EXCEPT ![t] = @ + 1] /\ progress' = [progress EXCEPT ![t] = b]
        /\ Goto(t, "look")
    BY <1>1 DEF NextPool
  <2>2. at[t] \in Pools /\ at[t] + 1 \in Pools
    <3>1. at[t] \in 1..PoolCount /\ PoolCount \in Nat
      BY IDPAssumption DEF TypeOK, Pools
    <3>2. QED BY <1>1, <3>1 DEF Pools
  <2>3. at' \in [Providers -> Pools] /\ progress' \in [Providers -> BOOLEAN]
        /\ \A u \in Providers : u # t => at'[u] = at[u]
    BY <2>1, <2>2 DEF TypeOK
  <2>4. QED BY <2>1, <2>3, GotoStep DEF Steps
<1>2. CASE ~(at[t] < PoolCount)
  <2>1. /\ at' = [at EXCEPT ![t] = 1] /\ progress' = [progress EXCEPT ![t] = FALSE]
        /\ Goto(t, IF b THEN "look" ELSE "wait")
    BY <1>2 DEF NextPool, Round
  <2>2. at' \in [Providers -> Pools] /\ progress' \in [Providers -> BOOLEAN]
        /\ \A u \in Providers : u # t => at'[u] = at[u]
    BY <2>1 DEF TypeOK
  <2>3. QED BY <2>1, <2>2, GotoStep DEF Steps
<1>3. QED BY <1>1, <1>2

LEMMA RoundStep ==
    ASSUME TypeOK, NEW t \in Providers, Round(t)
    PROVE  /\ at' \in [Providers -> Pools] /\ progress' \in [Providers -> BOOLEAN]
           /\ \A u \in Providers : u # t => at'[u] = at[u]
<1>1. 1 \in Pools
  BY IDPAssumption DEF Pools
<1>2. at' = [at EXCEPT ![t] = 1] /\ progress' = [progress EXCEPT ![t] = FALSE]
  BY DEF Round
<1>3. at \in [Providers -> Pools] /\ progress \in [Providers -> BOOLEAN]
  BY DEF TypeOK
<1>4. QED BY <1>1, <1>2, <1>3

ContextTypes ==
    /\ flag \in [Threads -> BOOLEAN]
    /\ event \in [Threads -> SUBSET {"Wakeup", "FinishJob"}]
    /\ wait \in [Threads -> WaitSteps]

LEMMA SignalStep ==
    ASSUME ContextTypes, NEW t, NEW e \in {"Wakeup", "FinishJob"}, Signal(t, e)
    PROVE  ContextTypes'
<1>1. flag' \in [Threads -> BOOLEAN]
  <2>1. flag \in [Threads -> BOOLEAN]
    BY DEF ContextTypes
  <2>2. CASE wait[t] \in {"out", "exchange"}
    <3>1. flag' = [flag EXCEPT ![t] = TRUE]
      BY <2>2 DEF Signal
    <3>2. QED BY <2>1, <3>1
  <2>3. CASE wait[t] \notin {"out", "exchange"}
    <3>1. (wait[t] \in {"out", "exchange"}) = FALSE
      BY <2>3
    <3>2. flag' = [flag EXCEPT ![t] = FALSE]
      BY <3>1, Zenon DEF Signal
    <3>3. QED BY <2>1, <3>2
  <2>4. QED BY <2>2, <2>3
<1>2. event' \in [Threads -> SUBSET {"Wakeup", "FinishJob"}]
  BY DEF ContextTypes, Signal
<1>3. wait' \in [Threads -> WaitSteps]
  BY DEF ContextTypes, Signal, WaitSteps
<1>4. QED BY <1>1, <1>2, <1>3 DEF ContextTypes

LEMMA ReturnsStep ==
    ASSUME ContextTypes, NEW t, NEW timed, Returns(t, timed) PROVE ContextTypes'
BY DEF ContextTypes, Returns, WaitSteps

-----------------------------------------------------------------------------
(* TypeOK, in parts.                                                       *)

RingTypes ==
    /\ head \in [Pools -> Slots] /\ tail \in [Pools -> Slots]
    /\ remain \in [Pools -> 0..ElemCount] /\ active \in [Pools -> 0..ElemCount]
    /\ waiter \in [Pools -> {Caller, NoThread}]
    /\ elem \in [Pools -> [Slots -> Nat]]
    /\ read \in [Pools -> Nat]

InfoTypes ==
    /\ poolMap \subseteq Pools
    /\ registered \in BOOLEAN
    /\ threadID \in Providers \cup {NoThread, Zero}
    /\ cleanupThreadID \in {Destroyer, NoThread}

ProviderTypes ==
    /\ pc \in [Threads -> Steps]
    /\ at \in [Providers -> Pools]
    /\ look \in [Providers -> 0..ElemCount]
    /\ filled \in [Providers -> 0..ElemCount]
    /\ progress \in [Providers -> BOOLEAN]

CallerTypes ==
    /\ startJobs \in 0..Runs
    /\ runs \in 0..Runs /\ took \in 0..Demand
    /\ layer \in Pools
    /\ peek \in BOOLEAN

LEMMA TypeParts ==
    TypeOK <=> ContextTypes /\ RingTypes /\ InfoTypes /\ ProviderTypes /\ CallerTypes
BY DEF TypeOK, ContextTypes, RingTypes, InfoTypes, ProviderTypes, CallerTypes

(* A slot of the ring is free for each element that is not available.      *)
LEMMA CountsOfPool ==
    ASSUME StreamInv, NEW p \in Pools
    PROVE  /\ active[p] \in 0..ElemCount /\ remain[p] \in 0..ElemCount
           /\ active[p] + remain[p] = ElemCount /\ ElemCount \in Nat \ {0}
           /\ head[p] \in 0..(ElemCount - 1) /\ tail[p] \in 0..(ElemCount - 1)
           /\ read[p] \in Nat /\ elem[p] \in [0..(ElemCount - 1) -> Nat]
BY IDPAssumption DEF StreamInv, TypeOK, RingInv, Slots

(* What a provider that is filling knows.                                  *)
LEMMA FillingKnows ==
    ASSUME StreamInv, NEW t \in Providers, pc[t] \in {"fill", "update"}
    PROVE  /\ at[t] \in Pools /\ look[t] \in 1..remain[at[t]]
           /\ filled[t] \in 0..remain[at[t]]
           /\ pc[t] = "fill" => filled[t] < look[t]
           /\ pc[t] = "update" => filled[t] = look[t]
           /\ PoolHolds(at[t], filled[t])
<1>1. at[t] \in Pools /\ Filling(t, at[t])
  BY DEF StreamInv, TypeOK, Filling
<1>2. PICK extra \in 0..remain[at[t]] : PoolHolds(at[t], extra)
  BY <1>1 DEF StreamInv, RingInv
<1>3. SeenFree(t, at[t], extra)
  BY <1>1, <1>2 DEF PoolHolds
<1>4. QED BY <1>1, <1>2, <1>3 DEF SeenFree

LEMMA TypeStepCaller ==
    ASSUME StreamInv, CallerThread \/ RunNetwork PROVE TypeOK'
<1>0. /\ ContextTypes /\ RingTypes /\ InfoTypes /\ ProviderTypes /\ CallerTypes
      /\ TypeOK /\ CallerInv
  BY TypeParts DEF StreamInv
<1> Caller \in Threads /\ Runs \in Nat /\ Demand \in Nat \ {0} /\ 1 \in Pools
  BY IDPAssumption DEF Threads, Pools
<1>1. CASE RunNetwork
  <2>1. ProviderTypes'
    BY <1>0, <1>1, GotoStep DEF RunNetwork, ProviderTypes, providerVars, Steps
  <2>2. CallerTypes'
    BY <1>0, <1>1 DEF RunNetwork, CallerTypes, CallerInv
  <2>3. ContextTypes' /\ RingTypes' /\ InfoTypes'
    BY <1>0, <1>1 DEF RunNetwork, ContextTypes, RingTypes, InfoTypes, contextVars,
       ringVars, infoVars
  <2>4. QED BY <2>1, <2>2, <2>3, TypeParts, PTL
<1>2. CASE GetNothing
  <2>1. ProviderTypes'
    BY <1>0, <1>2, GotoStep DEF GetNothing, ProviderTypes, providerVars, Steps
  <2>2. RingTypes'
    BY <1>0, <1>2 DEF GetNothing, RingTypes
  <2>3. ContextTypes' /\ InfoTypes' /\ CallerTypes'
    BY <1>0, <1>2 DEF GetNothing, ContextTypes, InfoTypes, CallerTypes, contextVars,
       infoVars, callerVars
  <2>4. QED BY <2>1, <2>2, <2>3, TypeParts, PTL
<1>3. CASE GetWaited
  <2>1. ProviderTypes'
    BY <1>0, <1>3, GotoStep DEF GetWaited, ProviderTypes, providerVars, workVars, Steps
  <2>2. ContextTypes'
    BY <1>0, <1>3, ReturnsStep DEF GetWaited
  <2>3. RingTypes' /\ InfoTypes' /\ CallerTypes'
    BY <1>0, <1>3 DEF GetWaited, RingTypes, InfoTypes, CallerTypes, workVars, ringVars,
       infoVars, callerVars
  <2>4. QED BY <2>1, <2>2, <2>3, TypeParts, PTL
<1>4. CASE PeekData
  <2>1. RingTypes'
    BY <1>0, <1>4 DEF PeekData, RingTypes
  <2>2. ContextTypes' /\ InfoTypes' /\ CallerTypes' /\ ProviderTypes'
    BY <1>0, <1>4 DEF PeekData, ContextTypes, InfoTypes, CallerTypes, ProviderTypes,
       contextVars, infoVars, providerVars
  <2>3. QED BY <2>1, <2>2, TypeParts, PTL
<1>5. CASE GetData
  <2>1. /\ layer \in Pools /\ active[layer] \in 1..ElemCount
        /\ remain[layer] \in 0..ElemCount /\ active[layer] + remain[layer] = ElemCount
        /\ head[layer] \in Nat /\ ElemCount \in Nat \ {0}
    BY <1>0, <1>5, CountsOfPool DEF CallerTypes, GetData
  <2>2. /\ (head[layer] + 1) % ElemCount \in Slots
        /\ active[layer] - 1 \in 0..ElemCount /\ remain[layer] + 1 \in 0..ElemCount
    <3>1. head[layer] + 1 \in Nat
      BY <2>1
    <3>2. (head[layer] + 1) % ElemCount \in Slots
      BY <2>1, <3>1, RingSlot DEF Slots
    <3>3. QED BY <2>1, <3>2
  <2>3. RingTypes'
    BY <1>0, <1>5, <2>2 DEF GetData, RingTypes
  <2>4. CallerTypes'
    <3>1. /\ took < Demand /\ PoolCount \in Nat
      BY <1>0, <1>5, IDPAssumption DEF CallerInv, GetData
    <3>2. QED
      BY <1>0, <1>5, <3>1 DEF GetData, NextLayer, CallerTypes, Pools
  <2>5. ProviderTypes'
    <3>1. pc' \in [Threads -> Steps]
      BY <1>0, <1>5, GotoStep DEF GetData, NextLayer, ProviderTypes, Steps
    <3>2. QED BY <1>0, <1>5, <3>1 DEF GetData, ProviderTypes, providerVars
  <2>6. ContextTypes' /\ InfoTypes'
    BY <1>0, <1>5 DEF GetData, ContextTypes, InfoTypes, contextVars, infoVars
  <2>7. QED BY <2>3, <2>4, <2>5, <2>6, TypeParts, PTL
<1>6. QED BY <1>1, <1>2, <1>3, <1>4, <1>5 DEF CallerThread

LEMMA TypeStepProvider ==
    ASSUME StreamInv, NEW t \in Providers, Provider(t) PROVE TypeOK'
<1>0. /\ ContextTypes /\ RingTypes /\ InfoTypes /\ ProviderTypes /\ CallerTypes
      /\ TypeOK /\ CallerInv
  BY TypeParts DEF StreamInv
<1> t \in Threads /\ ElemCount \in Nat \ {0} /\ Runs \in Nat
  BY IDPAssumption DEF Threads
<1>1. CASE HandleIDP(t)
  <2>1. ProviderTypes'
    <3>1. pc' \in [Threads -> Steps]
      BY <1>0, <1>1, GotoStep DEF HandleIDP, Steps
    <3>2. QED BY <1>0, <1>1, <3>1 DEF HandleIDP, ProviderTypes, providerVars
  <2>2. InfoTypes'
    BY <1>0, <1>1 DEF HandleIDP, InfoTypes
  <2>3. CallerTypes'
    BY <1>0, <1>1 DEF HandleIDP, CallerTypes, callerVars
  <2>4. ContextTypes' /\ RingTypes'
    BY <1>0, <1>1 DEF HandleIDP, ContextTypes, RingTypes, contextVars, ringVars
  <2>5. QED BY <2>1, <2>2, <2>3, <2>4, TypeParts, PTL
<1>2. CASE CollectPools(t)
  <2>1. pc' \in [Threads -> Steps]
    BY <1>0, <1>2, GotoStep DEF CollectPools, Steps
  <2>2. ProviderTypes'
    BY <1>0, <1>2, <2>1, RoundStep DEF CollectPools, ProviderTypes
  <2>3. ContextTypes' /\ RingTypes' /\ InfoTypes' /\ CallerTypes'
    BY <1>0, <1>2 DEF CollectPools, ContextTypes, RingTypes, InfoTypes, CallerTypes,
       contextVars, ringVars, infoVars, callerVars
  <2>4. QED BY <2>2, <2>3, TypeParts, PTL
<1>3. CASE LookAtPool(t)
  <2>1. /\ at[t] \in Pools /\ remain[at[t]] \in 0..ElemCount
        /\ look' = [look EXCEPT ![t] = remain[at[t]]]
        /\ filled' = [filled EXCEPT ![t] = 0]
    BY <1>0, <1>3 DEF LookAtPool, ProviderTypes, RingTypes
  <2>2. look' \in [Providers -> 0..ElemCount] /\ filled' \in [Providers -> 0..ElemCount]
    BY <1>0, <2>1 DEF ProviderTypes
  <2>3. /\ pc' \in [Threads -> Steps] /\ at' \in [Providers -> Pools]
        /\ progress' \in [Providers -> BOOLEAN]
    <3>1. CASE remain[at[t]] = 0
      <4>1. progress[t] \in BOOLEAN /\ NextPool(t, progress[t])
        BY <1>0, <1>3, <3>1 DEF LookAtPool, ProviderTypes
      <4>2. QED BY <1>0, <4>1, NextPoolStep
    <3>2. CASE remain[at[t]] # 0
      <4>1. Goto(t, "fill") /\ UNCHANGED at /\ progress' = [progress EXCEPT ![t] = TRUE]
        BY <1>3, <3>2 DEF LookAtPool
      <4>2. QED BY <1>0, <4>1, GotoStep DEF Steps, ProviderTypes
    <3>3. QED BY <3>1, <3>2
  <2>4. ContextTypes' /\ RingTypes' /\ InfoTypes' /\ CallerTypes'
    BY <1>0, <1>3 DEF LookAtPool, ContextTypes, RingTypes, InfoTypes, CallerTypes,
       contextVars, ringVars, infoVars, callerVars
  <2>5. ProviderTypes'
    BY <2>2, <2>3 DEF ProviderTypes
  <2>6. QED BY <2>4, <2>5, TypeParts, PTL
<1>4. CASE FillElem(t)
  <2>1. /\ at[t] \in Pools /\ filled[t] \in Nat /\ look[t] \in Nat
        /\ filled[t] < look[t] /\ look[t] <= ElemCount
        /\ tail[at[t]] \in Nat /\ read[at[t]] \in Nat
    BY <1>0, <1>4, FillingKnows DEF FillElem, ProviderTypes, RingTypes, Slots
  <2>2. tail[at[t]] + filled[t] \in Nat
    BY <2>1
  <2>3. (tail[at[t]] + filled[t]) % ElemCount \in Slots
    BY <2>2, RingSlot DEF Slots
  <2>4. RingTypes'
    <3>1. elem' = [elem EXCEPT ![at[t]][(tail[at[t]] + filled[t]) % ElemCount]
                                   = read[at[t]] + 1]
      BY <1>4 DEF FillElem
    <3>2. elem' \in [Pools -> [Slots -> Nat]]
      BY <1>0, <2>1, <2>3, <3>1 DEF RingTypes
    <3>3. read' \in [Pools -> Nat]
      BY <1>0, <1>4, <2>1 DEF FillElem, RingTypes
    <3>4. QED BY <1>0, <1>4, <3>2, <3>3 DEF FillElem, RingTypes
  <2>5. ProviderTypes'
    <3>1. pc' \in [Threads -> Steps]
      BY <1>0, <1>4, GotoStep DEF FillElem, Steps
    <3>2. filled' \in [Providers -> 0..ElemCount]
      BY <1>0, <1>4, <2>1 DEF FillElem, ProviderTypes
    <3>3. QED BY <1>0, <1>4, <3>1, <3>2 DEF FillElem, ProviderTypes
  <2>6. ContextTypes' /\ InfoTypes' /\ CallerTypes'
    BY <1>0, <1>4 DEF FillElem, ContextTypes, InfoTypes, CallerTypes, contextVars,
       infoVars, callerVars
  <2>7. QED BY <2>4, <2>5, <2>6, TypeParts, PTL
<1>5. CASE UpdatePool(t)
  <2> DEFINE p == at[t]
  <2>1. /\ p \in Pools /\ look[t] \in 1..remain[p] /\ remain[p] \in 0..ElemCount
        /\ active[p] \in 0..ElemCount /\ active[p] + remain[p] = ElemCount
        /\ tail[p] \in Nat
    BY <1>0, <1>5, FillingKnows, CountsOfPool DEF UpdatePool
  <2>2. /\ remain[p] - look[t] \in 0..ElemCount /\ active[p] + look[t] \in 0..ElemCount
        /\ tail[p] + look[t] \in Nat
    BY <2>1
  <2>3. (tail[p] + look[t]) % ElemCount \in Slots
    BY <2>2, RingSlot DEF Slots
  <2>4. RingTypes'
    BY <1>0, <1>5, <2>2, <2>3 DEF UpdatePool, RingTypes
  <2>5. ProviderTypes'
    <3>1. CASE waiter[p] # NoThread
      BY <1>0, <1>5, <3>1, GotoStep DEF UpdatePool, ProviderTypes, Steps
    <3>2. CASE waiter[p] = NoThread
      BY <1>0, <1>5, <3>2, NextPoolStep DEF UpdatePool, ProviderTypes
    <3>3. QED BY <3>1, <3>2
  <2>6. ContextTypes' /\ InfoTypes' /\ CallerTypes'
    BY <1>0, <1>5 DEF UpdatePool, ContextTypes, InfoTypes, CallerTypes, contextVars,
       infoVars, callerVars
  <2>7. QED BY <2>4, <2>5, <2>6, TypeParts, PTL
<1>6. CASE SignalWaiter(t)
  <2>1. ProviderTypes'
    BY <1>0, <1>6, NextPoolStep DEF SignalWaiter, ProviderTypes
  <2>2. ContextTypes'
    BY <1>0, <1>6, SignalStep DEF SignalWaiter
  <2>3. RingTypes' /\ InfoTypes' /\ CallerTypes'
    BY <1>0, <1>6 DEF SignalWaiter, RingTypes, InfoTypes, CallerTypes, ringVars,
       infoVars, callerVars
  <2>4. QED BY <2>1, <2>2, <2>3, TypeParts, PTL
<1>7. CASE ProviderWaited(t)
  <2>1. pc' \in [Threads -> Steps]
    BY <1>0, <1>7, GotoStep DEF ProviderWaited, Steps
  <2>2. ProviderTypes'
    BY <1>0, <1>7, <2>1, RoundStep DEF ProviderWaited, ProviderTypes
  <2>3. ContextTypes'
    BY <1>0, <1>7, ReturnsStep DEF ProviderWaited
  <2>4. RingTypes' /\ InfoTypes' /\ CallerTypes'
    BY <1>0, <1>7 DEF ProviderWaited, RingTypes, InfoTypes, CallerTypes, ringVars,
       infoVars, callerVars
  <2>5. QED BY <2>2, <2>3, <2>4, TypeParts, PTL
<1>8. CASE AnswerCleanup(t)
  <2>1. pc' \in [Threads -> Steps]
    BY <1>0, <1>8, GotoStep DEF AnswerCleanup, Steps
  <2>2. ContextTypes'
    <3>1. CASE UNCHANGED contextVars
      BY <1>0, <3>1 DEF ContextTypes, contextVars
    <3>2. CASE Signal(cleanupThreadID, "Wakeup")
      BY <1>0, <3>2, SignalStep
    <3>3. QED BY <1>8, <3>1, <3>2 DEF AnswerCleanup
  <2>3. ProviderTypes' /\ RingTypes' /\ InfoTypes' /\ CallerTypes'
    BY <1>0, <1>8, <2>1 DEF AnswerCleanup, ProviderTypes, RingTypes, InfoTypes,
       CallerTypes, workVars, ringVars, infoVars, callerVars, providerVars
  <2>4. QED BY <2>2, <2>3, TypeParts, PTL
<1>9. QED
  BY <1>1, <1>2, <1>3, <1>4, <1>5, <1>6, <1>7, <1>8 DEF Provider

LEMMA TypeStepOthers ==
    ASSUME StreamInv, DestroyerThread \/ \E t \in Threads : WaitStep(t) PROVE TypeOK'
<1>0. /\ ContextTypes /\ RingTypes /\ InfoTypes /\ ProviderTypes /\ CallerTypes
      /\ TypeOK
  BY TypeParts DEF StreamInv
<1> Destroyer \in Threads
  BY DEF Threads
<1>1. RingTypes' /\ CallerTypes'
  BY <1>0 DEF RingTypes, CallerTypes, DestroyerThread, RemovePool, FinishProvider,
     ProviderFinished, DeletePool, ErasePoolInfo, WaitStep, workVars, ringVars, callerVars
<1>2. pc' \in [Threads -> Steps]
  <2>1. CASE DestroyerThread
    BY <1>0, <2>1, GotoStep DEF DestroyerThread, RemovePool, FinishProvider,
       ProviderFinished, DeletePool, ErasePoolInfo, Steps
  <2>2. CASE \E t \in Threads : WaitStep(t)
    BY <1>0, <2>2 DEF WaitStep, ProviderTypes
  <2>3. QED BY <2>1, <2>2
<1>3. ProviderTypes'
  BY <1>0, <1>2 DEF ProviderTypes, DestroyerThread, RemovePool, FinishProvider,
     ProviderFinished, DeletePool, ErasePoolInfo, WaitStep, workVars, providerVars
<1>4. InfoTypes'
  BY <1>0 DEF InfoTypes, DestroyerThread, RemovePool, FinishProvider,
     ProviderFinished, DeletePool, ErasePoolInfo, WaitStep, workVars, infoVars
<1>5. ContextTypes'
  <2>1. CASE FinishProvider
    <3>1. Signal(threadID, "FinishJob") \/ UNCHANGED contextVars
      BY <2>1 DEF FinishProvider
    <3>2. CASE UNCHANGED contextVars
      BY <1>0, <3>2 DEF ContextTypes, contextVars
    <3>3. CASE Signal(threadID, "FinishJob")
      BY <1>0, <3>3, SignalStep
    <3>4. QED BY <3>1, <3>2, <3>3
  <2>2. CASE ProviderFinished
    BY <1>0, <2>2, ReturnsStep DEF ProviderFinished
  <2>3. CASE RemovePool \/ DeletePool \/ ErasePoolInfo
    BY <1>0, <2>3 DEF RemovePool, DeletePool, ErasePoolInfo, ContextTypes, contextVars
  <2>4. ASSUME NEW t \in Threads, WaitStep(t) PROVE ContextTypes'
    <3>1. CASE TestFlag(t)
      BY <1>0, <3>1 DEF TestFlag, ContextTypes, WaitSteps
    <3>2. CASE Block(t)
      BY <1>0, <3>2 DEF Block, ContextTypes, WaitSteps
    <3>3. QED BY <2>4, <3>1, <3>2 DEF WaitStep
  <2>5. QED BY <2>1, <2>2, <2>3, <2>4 DEF DestroyerThread
<1>6. QED BY <1>1, <1>3, <1>4, <1>5, TypeParts, PTL

-----------------------------------------------------------------------------
(* What a step of one thread leaves alone.                                 *)

LEMMA CallerFrame ==
    ASSUME TypeOK, CallerThread \/ RunNetwork
    PROVE  /\ \A u \in Threads : u # Caller => pc'[u] = pc[u]
           /\ UNCHANGED <<poolMap, infoVars, providerVars>>
<1> Caller \in Threads
  BY DEF Threads
<1>1. UNCHANGED pc \/ \E step \in Steps : Goto(Caller, step)
  BY DEF CallerThread, RunNetwork, GetNothing, GetWaited, PeekData, GetData, NextLayer,
         Steps
<1>2. \A u \in Threads : u # Caller => pc'[u] = pc[u]
  BY <1>1, GotoStep
<1>3. UNCHANGED <<poolMap, infoVars, providerVars>>
  BY DEF CallerThread, RunNetwork, GetNothing, GetWaited, PeekData, GetData, workVars
<1>4. QED BY <1>2, <1>3

LEMMA ProviderFrame ==
    ASSUME TypeOK, NEW t \in Providers, Provider(t)
    PROVE  /\ \A u \in Threads : u # t => pc'[u] = pc[u]
           /\ \A u \in Providers : u # t =>
                 at'[u] = at[u] /\ look'[u] = look[u] /\ filled'[u] = filled[u]
           /\ UNCHANGED <<poolMap, callerVars, cleanupThreadID, head>>
<1> t \in Threads
  BY DEF Threads
<1>0. at \in [Providers -> Pools] /\ look \in [Providers -> 0..ElemCount]
      /\ filled \in [Providers -> 0..ElemCount] /\ progress[t] \in BOOLEAN
  BY DEF TypeOK
<1>1. CASE HandleIDP(t) \/ AnswerCleanup(t)
  <2>1. \E step \in Steps : Goto(t, step)
    BY <1>1 DEF HandleIDP, AnswerCleanup, Steps
  <2>2. UNCHANGED <<at, look, filled>>
    BY <1>1 DEF HandleIDP, AnswerCleanup, workVars, providerVars
  <2>3. UNCHANGED <<poolMap, callerVars, cleanupThreadID, head>>
    BY <1>1 DEF HandleIDP, AnswerCleanup, workVars, ringVars, infoVars
  <2>4. QED BY <2>1, <2>2, <2>3, GotoStep
<1>2. CASE CollectPools(t) \/ ProviderWaited(t)
  <2>1. (\E step \in Steps : Goto(t, step)) /\ Round(t)
    BY <1>2 DEF CollectPools, ProviderWaited, Steps
  <2>2. UNCHANGED <<look, filled>>
    BY <1>2 DEF CollectPools, ProviderWaited
  <2>3. UNCHANGED <<poolMap, callerVars, cleanupThreadID, head>>
    BY <1>2 DEF CollectPools, ProviderWaited, ringVars, infoVars
  <2>4. QED BY <2>1, <2>2, <2>3, GotoStep, RoundStep
<1>3. CASE LookAtPool(t)
  <2>1. NextPool(t, progress[t]) \/ (Goto(t, "fill") /\ UNCHANGED at)
    BY <1>3 DEF LookAtPool
  <2>2. /\ \A u \in Threads : u # t => pc'[u] = pc[u]
        /\ \A u \in Providers : u # t => at'[u] = at[u]
    BY <1>0, <2>1, NextPoolStep, GotoStep DEF Steps
  <2>3. \A u \in Providers : u # t => look'[u] = look[u] /\ filled'[u] = filled[u]
    BY <1>0, <1>3 DEF LookAtPool
  <2>4. UNCHANGED <<poolMap, callerVars, cleanupThreadID, head>>
    BY <1>3 DEF LookAtPool, ringVars, infoVars
  <2>5. QED BY <2>2, <2>3, <2>4
<1>4. CASE FillElem(t)
  <2>1. \A u \in Threads : u # t => pc'[u] = pc[u]
    BY <1>4, GotoStep DEF FillElem, Steps
  <2>2. \A u \in Providers : u # t => filled'[u] = filled[u]
    BY <1>0, <1>4 DEF FillElem
  <2>3. UNCHANGED <<at, look, poolMap, callerVars, cleanupThreadID, head>>
    BY <1>4 DEF FillElem, infoVars
  <2>4. QED BY <2>1, <2>2, <2>3
<1>5. CASE UpdatePool(t) \/ SignalWaiter(t)
  <2>1. NextPool(t, TRUE) \/ (Goto(t, "signal") /\ UNCHANGED at)
    BY <1>5 DEF UpdatePool, SignalWaiter
  <2>2. /\ \A u \in Threads : u # t => pc'[u] = pc[u]
        /\ \A u \in Providers : u # t => at'[u] = at[u]
    BY <1>0, <2>1, NextPoolStep, GotoStep DEF Steps
  <2>3. UNCHANGED <<look, filled, poolMap, callerVars, cleanupThreadID, head>>
    BY <1>5 DEF UpdatePool, SignalWaiter, infoVars, ringVars
  <2>4. QED BY <2>2, <2>3
<1>6. QED BY <1>1, <1>2, <1>3, <1>4, <1>5 DEF Provider

LEMMA OthersFrame ==
    ASSUME TypeOK, DestroyerThread \/ \E t \in Threads : WaitStep(t)
    PROVE  /\ \A u \in Threads : u # Destroyer => pc'[u] = pc[u]
           /\ UNCHANGED <<ringVars, providerVars, callerVars, startJobs>>
<1> Destroyer \in Threads
  BY DEF Threads
<1>1. UNCHANGED pc \/ \E step \in Steps : Goto(Destroyer, step)
  BY DEF DestroyerThread, RemovePool, FinishProvider, ProviderFinished, DeletePool,
     ErasePoolInfo, WaitStep, Steps
<1>2. \A u \in Threads : u # Destroyer => pc'[u] = pc[u]
  BY <1>1, GotoStep
<1>3. UNCHANGED <<ringVars, providerVars, callerVars, startJobs>>
  BY DEF DestroyerThread, RemovePool, FinishProvider, ProviderFinished, DeletePool,
     ErasePoolInfo, WaitStep, workVars
<1>4. QED BY <1>2, <1>3

-----------------------------------------------------------------------------
(* The run, and the one provider.                                          *)

LEMMA CallerInvStep ==
    ASSUME StreamInv, Next PROVE CallerInv'
<1> /\ Caller \in Threads /\ Caller \notin Providers /\ Caller # Destroyer
    /\ Runs \in Nat /\ Demand \in Nat \ {0} /\ PoolCount \in Nat \ {0}
  BY IDPAssumption DEF Threads
<1>1. TypeOK /\ CallerInv /\ startJobs \in Nat /\ runs \in Nat /\ took \in Nat
      /\ layer \in Pools
  BY DEF StreamInv, TypeOK
<1>2. CASE RunNetwork
  <2>1. pc'[Caller] = "get" /\ runs' = runs + 1 /\ took' = 0
        /\ startJobs' = startJobs + 1
    BY <1>1, <1>2, GotoStep DEF RunNetwork, Steps
  <2>2. QED BY <1>1, <2>1 DEF CallerInv
<1>3. CASE GetNothing \/ GetWaited \/ PeekData
  <2>1. pc'[Caller] \in {"get", "wait"} /\ pc[Caller] # "idle"
    BY <1>1, <1>3, GotoStep DEF GetNothing, GetWaited, PeekData, Steps
  <2>2. UNCHANGED <<runs, took, startJobs>>
    BY <1>3 DEF GetNothing, GetWaited, PeekData, workVars, callerVars
  <2>3. QED BY <1>1, <2>1, <2>2 DEF CallerInv
<1>4. CASE GetData
  <2>1. pc[Caller] = "get" /\ UNCHANGED <<runs, startJobs>> /\ runs > 0 /\ took < Demand
    BY <1>1, <1>4 DEF GetData, CallerInv
  <2>2. CASE layer < PoolCount
    BY <1>1, <1>4, <2>1, <2>2 DEF GetData, NextLayer, CallerInv
  <2>3. CASE ~(layer < PoolCount)
    <3>1. /\ layer' = 1 /\ took' = took + 1
          /\ Goto(Caller, IF took + 1 < Demand THEN "get" ELSE "idle")
      BY <1>4, <2>3 DEF GetData, NextLayer
    <3>2. pc'[Caller] = IF took + 1 < Demand THEN "get" ELSE "idle"
      BY <1>1, <3>1, GotoStep DEF Steps
    <3>3. QED BY <1>1, <2>1, <3>1, <3>2 DEF CallerInv
  <2>4. QED BY <2>2, <2>3
<1>5. ASSUME NEW t \in Providers, Provider(t) PROVE CallerInv'
  <2>1. pc'[Caller] = pc[Caller] /\ UNCHANGED callerVars
    BY <1>1, <1>5, ProviderFrame
  <2>2. startJobs' = startJobs \/ startJobs' = startJobs - 1
    BY <1>5 DEF Provider, HandleIDP, CollectPools, LookAtPool, FillElem, UpdatePool,
       SignalWaiter, ProviderWaited, AnswerCleanup, workVars
  <2>3. QED BY <1>1, <2>1, <2>2 DEF CallerInv, callerVars
<1>6. CASE DestroyerThread \/ \E t \in Threads : WaitStep(t)
  <2>1. pc'[Caller] = pc[Caller] /\ UNCHANGED <<callerVars, startJobs>>
    BY <1>1, <1>6, OthersFrame
  <2>2. QED BY <1>1, <2>1 DEF CallerInv, callerVars
<1>7. QED BY <1>2, <1>3, <1>4, <1>5, <1>6 DEF Next, CallerThread

(* Providers are started where none is, and their thread is left in the    *)
(* PoolInfo.                                                               *)
LEMMA OneInvStep ==
    ASSUME StreamInv, Next PROVE OneInv'
<1> /\ Providers \subseteq Threads /\ Caller \notin Providers /\ Destroyer \notin Providers
    /\ NoThread \notin Providers /\ NoThread # Zero
  BY IDPAssumption DEF Threads
<1>1. TypeOK /\ OneInv
  BY DEF StreamInv
<1>2. CASE CallerThread \/ RunNetwork
  BY <1>1, <1>2, CallerFrame DEF OneInv, infoVars
<1>3. CASE DestroyerThread \/ \E t \in Threads : WaitStep(t)
  <2>1. \A u \in Providers : pc'[u] = pc[u]
    BY <1>1, <1>3, OthersFrame
  <2>2. UNCHANGED <<registered, threadID>> \/ registered' = FALSE
    BY <1>3 DEF DestroyerThread, RemovePool, FinishProvider, ProviderFinished, DeletePool,
       ErasePoolInfo, WaitStep, workVars, infoVars
  <2>3. QED BY <1>1, <2>1, <2>2 DEF OneInv
<1>4. ASSUME NEW t \in Providers, HandleIDP(t) PROVE OneInv'
  <2>1. \A u \in Providers : u # t => pc'[u] = pc[u]
    BY <1>1, <1>4, ProviderFrame DEF Provider
  <2>2. CASE registered /\ threadID = NoThread
    <3>1. \A u \in Providers : u # t => pc'[u] = "idle"
      BY <1>1, <2>1, <2>2 DEF OneInv
    <3>2. threadID' = t
      BY <1>4, <2>2 DEF HandleIDP
    <3>3. QED BY <3>1, <3>2 DEF OneInv
  <2>3. CASE ~(registered /\ threadID = NoThread)
    <3>1. pc[t] = "idle" /\ Goto(t, "idle") /\ threadID' # NoThread
      BY <1>4, <2>3 DEF HandleIDP
    <3>2. pc'[t] = pc[t]
      BY <1>1, <3>1, GotoStep DEF Steps
    <3>3. QED BY <1>1, <2>1, <3>1, <3>2 DEF OneInv
  <2>4. QED BY <2>2, <2>3
<1>5. ASSUME NEW t \in Providers, Provider(t), ~HandleIDP(t) PROVE OneInv'
  <2>1. pc[t] # "idle" /\ UNCHANGED <<registered, threadID>>
    BY <1>5 DEF Provider, CollectPools, LookAtPool, FillElem, UpdatePool, SignalWaiter,
       ProviderWaited, AnswerCleanup, workVars, infoVars
  <2>2. \A u \in Providers : u # t => pc'[u] = "idle"
    BY <1>1, <1>5, <2>1, ProviderFrame DEF OneInv
  <2>3. QED BY <1>1, <2>1, <2>2 DEF OneInv
<1>6. QED BY <1>2, <1>3, <1>4, <1>5 DEF Next

-----------------------------------------------------------------------------
(* The ring.                                                               *)

(* A step that touches neither a ring nor the provider that fills it.      *)
LEMMA RingSame ==
    ASSUME StreamInv, UNCHANGED <<head, tail, remain, active, elem, read>>,
           \A p \in Pools : Taken(p)' = Taken(p),
           \A u \in Providers :
              /\ pc'[u] \in {"fill", "update"} <=> pc[u] \in {"fill", "update"}
              /\ pc[u] \in {"fill", "update"} =>
                    /\ pc'[u] = pc[u] /\ at'[u] = at[u]
                    /\ look'[u] = look[u] /\ filled'[u] = filled[u]
    PROVE  RingInv'
<1> SUFFICES ASSUME NEW p \in Pools
             PROVE  /\ active'[p] + remain'[p] = ElemCount
                    /\ tail'[p] = (head'[p] + active'[p]) % ElemCount
                    /\ \E extra \in 0..remain'[p] : PoolHolds(p, extra)'
  BY DEF RingInv
<1>1. PICK extra \in 0..remain[p] : PoolHolds(p, extra)
  BY DEF StreamInv, RingInv
<1>2. \A u \in Providers : Filling(u, p)' <=> Filling(u, p)
  BY DEF Filling
<1>3. \A u \in Providers : Filling(u, p) => SeenFree(u, p, extra)'
  BY <1>1 DEF Filling, SeenFree, PoolHolds
<1>4. PoolHolds(p, extra)'
  BY <1>1, <1>2, <1>3 DEF PoolHolds
<1>5. QED BY <1>1, <1>4 DEF StreamInv, RingInv

(* The run takes the next datum of the layer that asks.                    *)
LEMMA TakenStep ==
    ASSUME StreamInv, GetData, NEW p \in Pools
    PROVE  /\ p = layer => Taken(p)' = Taken(p) + 1
           /\ p # layer => Taken(p)' = Taken(p)
<1>1. /\ runs \in Nat /\ runs' = runs /\ runs > 0 /\ took \in Nat /\ Demand \in Nat
      /\ layer \in 1..PoolCount /\ p \in 1..PoolCount /\ PoolCount \in Nat
  BY IDPAssumption DEF StreamInv, TypeOK, CallerInv, GetData, Pools
<1>2. (runs - 1) * Demand \in Nat
  BY <1>1
<1>3. /\ Taken(p) = (runs - 1) * Demand + took + (IF p < layer THEN 1 ELSE 0)
      /\ Taken(p)' = (runs - 1) * Demand + took' + (IF p < layer' THEN 1 ELSE 0)
  BY <1>1 DEF Taken
<1>4. IF layer < PoolCount THEN layer' = layer + 1 /\ took' = took
                           ELSE layer' = 1 /\ took' = took + 1
  BY DEF GetData, NextLayer
<1> DEFINE before == (runs - 1) * Demand
<1> HIDE DEF before
<1>5. QED
  BY <1>1, <1>2, <1>3, <1>4 DEF before

(* A new run goes on where the last one ended.                             *)
LEMMA TakenRun ==
    ASSUME StreamInv, RunNetwork, NEW p \in Pools PROVE Taken(p)' = Taken(p)
<1>1. /\ runs \in Nat /\ runs' = runs + 1 /\ took' = 0 /\ layer = 1 /\ layer' = 1
      /\ took = (IF runs = 0 THEN 0 ELSE Demand) /\ Demand \in Nat
  BY IDPAssumption DEF StreamInv, TypeOK, CallerInv, RunNetwork
<1>2. Taken(p)' = runs * Demand + 0 + 0
  <2>1. p < layer' <=> FALSE
    BY <1>1 DEF Pools
  <2>2. QED BY <1>1, <2>1 DEF Taken
<1>3. CASE runs = 0
  <2>1. Taken(p) = 0 * Demand + 0 + 0
    BY <1>1, <1>3 DEF Taken, Pools
  <2>2. QED BY <1>1, <1>2, <1>3, <2>1
<1>4. CASE runs # 0
  <2>1. Taken(p) = (runs - 1) * Demand + Demand + 0
    BY <1>1, <1>4 DEF Taken, Pools
  <2>2. (runs - 1) * Demand + Demand = runs * Demand
    BY <1>1
  <2>3. runs * Demand \in Nat
    BY <1>1
  <2>4. QED BY <1>1, <1>2, <2>1, <2>2, <2>3
<1>5. QED BY <1>3, <1>4

LEMMA TakenNat ==
    ASSUME StreamInv, NEW p \in Pools PROVE Taken(p) \in Nat
<1>1. runs \in Nat /\ took \in Nat /\ Demand \in Nat
  BY IDPAssumption DEF StreamInv, TypeOK
<1>2. (runs - (IF runs = 0 THEN 0 ELSE 1)) \in Nat
  BY <1>1
<1>3. (runs - (IF runs = 0 THEN 0 ELSE 1)) * Demand \in Nat
  BY <1>1, <1>2
<1>4. QED BY <1>1, <1>3 DEF Taken

(* The front element is taken: the ring begins one slot further on.        *)
LEMMA RingGetData ==
    ASSUME StreamInv, GetData PROVE RingInv'
<1>0. TypeOK /\ layer \in Pools
  BY DEF StreamInv, TypeOK
<1>1. /\ head' = [head EXCEPT ![layer] = (@ + 1) % ElemCount]
      /\ active' = [active EXCEPT ![layer] = @ - 1]
      /\ remain' = [remain EXCEPT ![layer] = @ + 1]
      /\ UNCHANGED <<tail, elem, read, at, look, filled>> /\ active[layer] > 0
  BY DEF GetData, providerVars
<1>2. \A u \in Providers : pc'[u] = pc[u]
  BY <1>0, CallerFrame, IDPAssumption DEF CallerThread, Threads
<1> SUFFICES ASSUME NEW p \in Pools
             PROVE  /\ active'[p] + remain'[p] = ElemCount
                    /\ tail'[p] = (head'[p] + active'[p]) % ElemCount
                    /\ \E extra \in 0..remain'[p] : PoolHolds(p, extra)'
  BY DEF RingInv
<1>3. PICK extra \in 0..remain[p] : PoolHolds(p, extra)
  BY DEF StreamInv, RingInv
<1>4. /\ active[p] \in 0..ElemCount /\ remain[p] \in 0..ElemCount
      /\ active[p] + remain[p] = ElemCount /\ ElemCount \in Nat \ {0}
      /\ head[p] \in 0..(ElemCount - 1) /\ read[p] \in Nat
      /\ tail[p] = (head[p] + active[p]) % ElemCount /\ Taken(p) \in Nat
  BY CountsOfPool, TakenNat DEF StreamInv, RingInv
<1>5. \A u \in Providers : Filling(u, p)' <=> Filling(u, p)
  BY <1>1, <1>2 DEF Filling
<1>6. CASE p # layer
  <2>1. /\ head'[p] = head[p] /\ active'[p] = active[p] /\ remain'[p] = remain[p]
        /\ Taken(p)' = Taken(p)
    BY <1>0, <1>1, <1>6, TakenStep DEF TypeOK
  <2>2. \A u \in Providers : SeenFree(u, p, extra) => SeenFree(u, p, extra)'
    BY <1>1, <1>2, <2>1 DEF SeenFree
  <2>3. PoolHolds(p, extra)'
    BY <1>1, <1>3, <1>5, <2>1, <2>2 DEF PoolHolds
  <2>4. QED BY <1>1, <1>4, <2>1, <2>3
<1>7. CASE p = layer
  <2>1. /\ head'[p] = (head[p] + 1) % ElemCount
        /\ active'[p] = active[p] - 1 /\ remain'[p] = remain[p] + 1
        /\ Taken(p)' = Taken(p) + 1 /\ active[p] > 0
    BY <1>0, <1>1, <1>7, TakenStep DEF TypeOK
  <2>2. tail'[p] = (head'[p] + active'[p]) % ElemCount
    <3>1. 1 \in Nat /\ active[p] - 1 \in Nat /\ 1 + (active[p] - 1) <= ElemCount
          /\ 1 + (active[p] - 1) = active[p]
      BY <1>4, <2>1
    <3>2. (((head[p] + 1) % ElemCount) + (active[p] - 1)) % ElemCount
              = (head[p] + (1 + (active[p] - 1))) % ElemCount
      BY <1>4, <3>1, RingAdd
    <3>3. QED BY <1>1, <1>4, <2>1, <3>1, <3>2
  <2>3. \A i \in 0..(active'[p] + extra - 1) :
            elem'[p][(head'[p] + i) % ElemCount] = Taken(p)' + 1 + i
    <3>1. SUFFICES ASSUME NEW i \in 0..(active[p] - 1 + extra - 1)
                   PROVE  elem[p][(((head[p] + 1) % ElemCount) + i) % ElemCount]
                              = Taken(p) + 1 + 1 + i
      BY <1>1, <2>1
    <3>2. i \in Nat /\ 1 + i <= ElemCount /\ 1 + i \in 0..(active[p] + extra - 1)
      BY <1>3, <1>4, <2>1
    <3>3. (((head[p] + 1) % ElemCount) + i) % ElemCount = (head[p] + (1 + i)) % ElemCount
      <4>1. 1 \in Nat /\ i \in Nat /\ 1 + i <= ElemCount
        BY <3>2
      <4>2. ElemCount \in Nat \ {0} /\ head[p] \in 0..(ElemCount - 1)
        BY <1>4
      <4>3. QED BY <4>1, <4>2, RingAdd
    <3>4. elem[p][(head[p] + (1 + i)) % ElemCount] = Taken(p) + 1 + (1 + i)
      BY <1>3, <3>2 DEF PoolHolds
    <3>5. QED BY <1>4, <3>2, <3>3, <3>4
  <2>4. read'[p] = Taken(p)' + active'[p] + extra
    BY <1>1, <1>3, <1>4, <2>1 DEF PoolHolds
  <2>5. \A u \in Providers : SeenFree(u, p, extra) => SeenFree(u, p, extra)'
    BY <1>1, <1>2, <1>4, <2>1 DEF SeenFree
  <2>6. PoolHolds(p, extra)'
    BY <1>3, <1>5, <2>3, <2>4, <2>5 DEF PoolHolds
  <2>7. active'[p] + remain'[p] = ElemCount /\ extra \in 0..remain'[p]
    BY <1>3, <1>4, <2>1
  <2>8. QED BY <2>2, <2>6, <2>7
<1>8. QED BY <1>6, <1>7

(* The provider is the only one that fills.                                *)
LEMMA FillsAlone ==
    ASSUME StreamInv, NEW t \in Providers, pc[t] # "idle",
           NEW u \in Providers, u # t
    PROVE  pc[u] = "idle"
BY DEF StreamInv, OneInv

(* It has seen free elements, and fills none of them yet.                  *)
LEMMA RingLookAtPool ==
    ASSUME StreamInv, NEW t \in Providers, LookAtPool(t) PROVE RingInv'
<1>0. TypeOK /\ at[t] \in Pools /\ t \in Threads
  BY DEF StreamInv, TypeOK, Threads
<1>1. /\ pc[t] = "look" /\ look' = [look EXCEPT ![t] = remain[at[t]]]
      /\ filled' = [filled EXCEPT ![t] = 0]
      /\ UNCHANGED <<head, tail, remain, active, elem, read, runs, took, layer>>
  BY DEF LookAtPool, ringVars, callerVars
<1>2. \A u \in Providers : u # t =>
         /\ pc[u] = "idle" /\ pc'[u] = "idle"
  <2>1. SUFFICES ASSUME NEW u \in Providers, u # t PROVE pc[u] = "idle" /\ pc'[u] = "idle"
    OBVIOUS
  <2>2. pc'[u] = pc[u]
    BY <1>0, <2>1, ProviderFrame DEF Provider, Threads
  <2>3. QED BY <1>1, <2>1, <2>2, FillsAlone
<1>3. \A p \in Pools : Taken(p)' = Taken(p)
  BY <1>1 DEF Taken
<1>4. CASE remain[at[t]] = 0
  <2>1. progress[t] \in BOOLEAN /\ NextPool(t, progress[t])
    BY <1>0, <1>4 DEF LookAtPool, TypeOK
  <2>2. pc'[t] \in {"look", "wait"}
    BY <1>0, <2>1, NextPoolStep
  <2>3. QED BY <1>1, <1>2, <1>3, <2>2, RingSame
<1>5. CASE remain[at[t]] # 0
  <2>1. pc'[t] = "fill" /\ UNCHANGED at
    BY <1>0, <1>5, GotoStep DEF LookAtPool, Steps
  <2>2. SUFFICES ASSUME NEW p \in Pools
                 PROVE  /\ active'[p] + remain'[p] = ElemCount
                        /\ tail'[p] = (head'[p] + active'[p]) % ElemCount
                        /\ 0 \in 0..remain'[p] /\ PoolHolds(p, 0)'
    BY DEF RingInv
  <2>3. PICK extra \in 0..remain[p] : PoolHolds(p, extra)
    BY DEF StreamInv, RingInv
  <2>4. extra = 0
    BY <1>1, <1>2, <2>3 DEF PoolHolds, Filling
  <2>5. \A u \in Providers : Filling(u, p)' => u = t /\ at[t] = p
    BY <1>2, <2>1 DEF Filling
  <2>6. at[t] = p => SeenFree(t, p, 0)'
    <3>1. SUFFICES ASSUME at[t] = p PROVE SeenFree(t, p, 0)'
      OBVIOUS
    <3>2. look'[t] = remain[p] /\ filled'[t] = 0 /\ remain[p] \in Nat \ {0}
      BY <1>0, <1>1, <1>5, <3>1, CountsOfPool DEF TypeOK
    <3>3. QED BY <1>1, <2>1, <3>2 DEF SeenFree
  <2>7. PoolHolds(p, 0)'
    BY <1>1, <1>3, <2>3, <2>4, <2>5, <2>6 DEF PoolHolds
  <2>8. QED BY <1>1, <2>3, <2>7, CountsOfPool DEF StreamInv, RingInv
<1>6. QED BY <1>4, <1>5

(* The next element is filled, behind those that are available or filled.  *)
LEMMA RingFillElem ==
    ASSUME StreamInv, NEW t \in Providers, FillElem(t) PROVE RingInv'
<1>0. TypeOK /\ at[t] \in Pools /\ t \in Threads
  BY DEF StreamInv, TypeOK, Threads
<1>a. PICK slot : slot = (tail[at[t]] + filled[t]) % ElemCount
  OBVIOUS
<1>b. PICK j : j = filled[t]
  OBVIOUS
<1>1. /\ pc[t] = "fill"
      /\ elem' = [elem EXCEPT ![at[t]][slot] = read[at[t]] + 1]
      /\ read' = [read EXCEPT ![at[t]] = @ + 1]
      /\ filled' = [filled EXCEPT ![t] = @ + 1]
      /\ UNCHANGED <<head, tail, remain, active, at, look, runs, took, layer>>
  BY <1>a DEF FillElem, callerVars
<1>2. \A u \in Providers : u # t => pc[u] = "idle" /\ pc'[u] = "idle"
  <2>1. SUFFICES ASSUME NEW u \in Providers, u # t PROVE pc[u] = "idle" /\ pc'[u] = "idle"
    OBVIOUS
  <2>2. pc'[u] = pc[u]
    BY <1>0, <2>1, ProviderFrame DEF Provider, Threads
  <2>3. QED BY <1>1, <2>1, <2>2, FillsAlone
<1>3. pc'[t] = IF filled[t] + 1 < look[t] THEN "fill" ELSE "update"
  BY <1>0, GotoStep DEF FillElem, Steps
<1> SUFFICES ASSUME NEW p \in Pools
             PROVE  /\ active'[p] + remain'[p] = ElemCount
                    /\ tail'[p] = (head'[p] + active'[p]) % ElemCount
                    /\ \E extra \in 0..remain'[p] : PoolHolds(p, extra)'
  BY DEF RingInv
<1>4. active'[p] + remain'[p] = ElemCount /\ tail'[p] = (head'[p] + active'[p]) % ElemCount
  BY <1>1 DEF StreamInv, RingInv
<1>5. Taken(p)' = Taken(p)
  BY <1>1 DEF Taken
<1>6. \A u \in Providers : (Filling(u, p) <=> u = t /\ at[t] = p)
                           /\ (Filling(u, p)' <=> u = t /\ at[t] = p)
  BY <1>1, <1>2, <1>3 DEF Filling
<1>7. CASE at[t] # p
  <2>1. PICK extra \in 0..remain[p] : PoolHolds(p, extra)
    BY DEF StreamInv, RingInv
  <2>2. elem'[p] = elem[p] /\ read'[p] = read[p]
    BY <1>0, <1>1, <1>7 DEF TypeOK
  <2>3. PoolHolds(p, extra)'
    BY <1>1, <1>5, <1>6, <1>7, <2>1, <2>2 DEF PoolHolds
  <2>4. QED BY <1>1, <1>4, <2>1, <2>3
<1>8. CASE at[t] = p
  <2>1. /\ look[t] \in 1..remain[p] /\ j \in 0..remain[p] /\ j < look[t]
        /\ PoolHolds(p, j)
    BY <1>1, <1>8, <1>b, FillingKnows
  <2>2. /\ active[p] \in 0..ElemCount /\ remain[p] \in 0..ElemCount
        /\ active[p] + remain[p] = ElemCount /\ ElemCount \in Nat \ {0}
        /\ head[p] \in 0..(ElemCount - 1)
    BY CountsOfPool
  <2>a. read[p] \in Nat /\ Taken(p) \in Nat /\ elem[p] \in [0..(ElemCount - 1) -> Nat]
    BY CountsOfPool, TakenNat DEF StreamInv, RingInv
  <2>b. tail[p] = (head[p] + active[p]) % ElemCount
    BY CountsOfPool DEF StreamInv, RingInv
  <2>3. /\ active[p] + j \in 0..(ElemCount - 1) /\ j \in Nat
        /\ active[p] \in Nat /\ active[p] + j <= ElemCount
        /\ head[p] + (active[p] + j) \in Nat
    <3>1. j \in Nat /\ j < remain[p]
      BY <2>1, <2>2
    <3>2. QED BY <2>2, <3>1
  <2>4. slot = (head[p] + (active[p] + j)) % ElemCount
    <3>1. (((head[p] + active[p]) % ElemCount) + j) % ElemCount
              = (head[p] + (active[p] + j)) % ElemCount
      <4>1. /\ ElemCount \in Nat \ {0} /\ head[p] \in 0..(ElemCount - 1)
            /\ active[p] \in Nat /\ j \in Nat /\ active[p] + j <= ElemCount
        BY <2>2, <2>3
      <4>2. QED BY <4>1, RingAdd
    <3>2. tail[at[t]] = (head[p] + active[p]) % ElemCount
      BY <1>8, <2>b
    <3>3. QED BY <1>a, <1>b, <3>1, <3>2
  <2>5. slot \in 0..(ElemCount - 1)
    BY <2>2, <2>3, <2>4, RingSlot
  <2>6. /\ elem'[p] = [elem[p] EXCEPT ![slot] = read[p] + 1] /\ read'[p] = read[p] + 1
        /\ filled'[t] = j + 1
    BY <1>0, <1>1, <1>8, <1>b DEF TypeOK
  <2>7. \A i \in 0..(active'[p] + (j + 1) - 1) :
            elem'[p][(head'[p] + i) % ElemCount] = Taken(p)' + 1 + i
    <3>1. SUFFICES ASSUME NEW i \in 0..(active[p] + j)
                   PROVE  elem'[p][(head[p] + i) % ElemCount] = Taken(p) + 1 + i
      <4>1. active'[p] = active[p] /\ head'[p] = head[p] /\ Taken(p)' = Taken(p)
        BY <1>1, <1>5
      <4>2. active[p] + (j + 1) - 1 = active[p] + j
        BY <2>3
      <4>3. QED BY <4>1, <4>2
    <3>2. CASE i = active[p] + j
      <4>1. elem'[p][slot] = read[p] + 1
        BY <2>a, <2>5, <2>6
      <4>2. read[p] = Taken(p) + active[p] + j
        BY <2>1 DEF PoolHolds
      <4>3. (head[p] + i) % ElemCount = slot
        BY <2>4, <3>2
      <4>4. read[p] + 1 = Taken(p) + 1 + i
        <5>1. read[p] \in Nat /\ Taken(p) \in Nat /\ active[p] \in Nat /\ j \in Nat
          BY <2>a, <2>3
        <5>2. QED BY <3>2, <4>2, <5>1
      <4>5. QED BY <4>1, <4>3, <4>4
    <3>3. CASE i # active[p] + j
      <4>1. i \in 0..(active[p] + j - 1) /\ i \in 0..(ElemCount - 1)
            /\ head[p] + i \in Nat
        <5>1. i \in Nat /\ i < active[p] + j
          BY <2>3, <3>3
        <5>2. QED BY <2>2, <2>3, <5>1
      <4>2. (head[p] + i) % ElemCount # (head[p] + (active[p] + j)) % ElemCount
        <5>1. /\ ElemCount \in Nat \ {0} /\ head[p] \in 0..(ElemCount - 1)
              /\ i \in 0..(ElemCount - 1) /\ active[p] + j \in 0..(ElemCount - 1)
          BY <2>2, <2>3, <4>1
        <5>2. QED BY <3>3, <5>1, RingDistinct
      <4>3. (head[p] + i) % ElemCount \in 0..(ElemCount - 1)
        BY <2>2, <4>1, RingSlot
      <4>4. elem'[p][(head[p] + i) % ElemCount] = elem[p][(head[p] + i) % ElemCount]
        BY <2>a, <2>4, <2>6, <4>2, <4>3
      <4>5. QED BY <2>1, <4>1, <4>4 DEF PoolHolds
    <3>4. QED BY <3>2, <3>3
  <2>8. read'[p] = Taken(p)' + active'[p] + (j + 1)
    <3>1. read[p] = Taken(p) + active[p] + j
      BY <2>1 DEF PoolHolds
    <3>2. read'[p] = read[p] + 1 /\ active'[p] = active[p] /\ Taken(p)' = Taken(p)
      BY <1>1, <1>5, <2>6
    <3>3. read[p] \in Nat /\ Taken(p) \in Nat /\ active[p] \in Nat /\ j \in Nat
      BY <2>a, <2>3
    <3>4. QED BY <3>1, <3>2, <3>3
  <2>9. SeenFree(t, p, j + 1)'
    <3>1. pc'[t] = (IF j + 1 < look[t] THEN "fill" ELSE "update") /\ look'[t] = look[t]
          /\ filled'[t] = j + 1 /\ remain'[p] = remain[p]
      BY <1>1, <1>3, <1>b, <2>6
    <3>2. j \in Nat /\ look[t] \in Nat
      BY <2>1, <2>2
    <3>3. QED BY <2>1, <3>1, <3>2 DEF SeenFree
  <2>10. PoolHolds(p, j + 1)'
    BY <1>6, <1>8, <2>6, <2>7, <2>8, <2>9 DEF PoolHolds
  <2>11. j + 1 \in 0..remain'[p]
    BY <1>1, <2>1, <2>2
  <2>12. QED BY <1>4, <2>10, <2>11
<1>9. QED BY <1>7, <1>8

(* The elements filled are counted, and available from now on.             *)
LEMMA RingUpdatePool ==
    ASSUME StreamInv, NEW t \in Providers, UpdatePool(t) PROVE RingInv'
<1>0. TypeOK /\ at[t] \in Pools /\ t \in Threads
  BY DEF StreamInv, TypeOK, Threads
<1>b. PICK j : j = look[t]
  OBVIOUS
<1>1. /\ pc[t] = "update"
      /\ remain' = [remain EXCEPT ![at[t]] = @ - j]
      /\ active' = [active EXCEPT ![at[t]] = @ + j]
      /\ tail' = [tail EXCEPT ![at[t]] = (@ + j) % ElemCount]
      /\ UNCHANGED <<head, elem, read, runs, took, layer>>
  BY <1>b DEF UpdatePool, callerVars
<1>2. \A u \in Providers : u # t => pc[u] = "idle" /\ pc'[u] = "idle"
  <2>1. SUFFICES ASSUME NEW u \in Providers, u # t PROVE pc[u] = "idle" /\ pc'[u] = "idle"
    OBVIOUS
  <2>2. pc'[u] = pc[u]
    BY <1>0, <2>1, ProviderFrame DEF Provider, Threads
  <2>3. QED BY <1>1, <2>1, <2>2, FillsAlone
<1>3. pc'[t] \in {"signal", "look", "wait"}
  <2>1. CASE waiter[at[t]] # NoThread
    BY <1>0, <2>1, GotoStep DEF UpdatePool, Steps
  <2>2. CASE ~(waiter[at[t]] # NoThread)
    <3>1. NextPool(t, TRUE)
      BY <2>2 DEF UpdatePool
    <3>2. QED BY <1>0, <3>1, NextPoolStep
  <2>3. QED BY <2>1, <2>2
<1> SUFFICES ASSUME NEW p \in Pools
             PROVE  /\ active'[p] + remain'[p] = ElemCount
                    /\ tail'[p] = (head'[p] + active'[p]) % ElemCount
                    /\ 0 \in 0..remain'[p] /\ PoolHolds(p, 0)'
  BY DEF RingInv
<1>4. \A u \in Providers : ~Filling(u, p)'
  BY <1>2, <1>3 DEF Filling
<1>5. Taken(p)' = Taken(p)
  BY <1>1 DEF Taken
<1>6. /\ active[p] \in 0..ElemCount /\ remain[p] \in 0..ElemCount
      /\ active[p] + remain[p] = ElemCount /\ ElemCount \in Nat \ {0}
      /\ head[p] \in 0..(ElemCount - 1)
  BY CountsOfPool
<1>7. tail[p] = (head[p] + active[p]) % ElemCount /\ read[p] \in Nat /\ Taken(p) \in Nat
  BY CountsOfPool, TakenNat DEF StreamInv, RingInv
<1>8. CASE at[t] # p
  <2>1. active'[p] = active[p] /\ remain'[p] = remain[p] /\ tail'[p] = tail[p]
    BY <1>0, <1>1, <1>8 DEF TypeOK
  <2>2. PICK extra \in 0..remain[p] : PoolHolds(p, extra)
    BY DEF StreamInv, RingInv
  <2>3. \A u \in Providers : ~Filling(u, p)
    BY <1>2, <1>8 DEF Filling
  <2>4. PoolHolds(p, 0)
    BY <2>2, <2>3 DEF PoolHolds
  <2>5. PoolHolds(p, 0)'
    BY <1>1, <1>4, <1>5, <2>1, <2>4 DEF PoolHolds
  <2>6. QED BY <1>1, <1>6, <1>7, <2>1, <2>5
<1>9. CASE at[t] = p
  <2>1. j \in 1..remain[p] /\ PoolHolds(p, j)
    BY <1>1, <1>9, <1>b, FillingKnows
  <2>2. /\ remain'[p] = remain[p] - j /\ active'[p] = active[p] + j
        /\ tail'[p] = (tail[p] + j) % ElemCount
    BY <1>0, <1>1, <1>9 DEF TypeOK
  <2>3. j \in Nat /\ active[p] \in Nat /\ active[p] + j <= ElemCount
    BY <1>6, <2>1
  <2>4. active'[p] + remain'[p] = ElemCount /\ 0 \in 0..remain'[p]
    BY <1>6, <2>1, <2>2, <2>3
  <2>5. tail'[p] = (head'[p] + active'[p]) % ElemCount
    <3>1. (((head[p] + active[p]) % ElemCount) + j) % ElemCount
              = (head[p] + (active[p] + j)) % ElemCount
      <4>1. ElemCount \in Nat \ {0} /\ head[p] \in 0..(ElemCount - 1)
        BY <1>6
      <4>2. QED BY <2>3, <4>1, RingAdd
    <3>2. QED BY <1>1, <1>7, <2>2, <3>1
  <2>6. PoolHolds(p, 0)'
    <3>1. active'[p] + 0 - 1 = active[p] + j - 1
      BY <2>2, <2>3
    <3>2. \A i \in 0..(active'[p] + 0 - 1) :
              elem'[p][(head'[p] + i) % ElemCount] = Taken(p)' + 1 + i
      BY <1>1, <1>5, <2>1, <3>1 DEF PoolHolds
    <3>3. read'[p] = Taken(p)' + active'[p] + 0
      <4>1. read[p] = Taken(p) + active[p] + j
        BY <2>1 DEF PoolHolds
      <4>2. QED BY <1>1, <1>5, <1>7, <2>2, <2>3, <4>1
    <3>4. QED BY <1>4, <3>2, <3>3 DEF PoolHolds
  <2>7. QED BY <2>4, <2>5, <2>6
<1>10. QED BY <1>8, <1>9

LEMMA RingStep ==
    ASSUME StreamInv, Next PROVE RingInv'
<1> /\ Providers \subseteq Threads /\ Caller \notin Providers /\ Destroyer \notin Providers
    /\ Caller \in Threads
  BY IDPAssumption DEF Threads
<1>0. TypeOK
  BY DEF StreamInv
<1>1. CASE RunNetwork
  <2>1. UNCHANGED <<ringVars, providerVars>> /\ \A u \in Providers : pc'[u] = pc[u]
    BY <1>0, <1>1, CallerFrame DEF RunNetwork
  <2>2. \A p \in Pools : Taken(p)' = Taken(p)
    BY <1>1, TakenRun
  <2>3. QED BY <2>1, <2>2, RingSame DEF ringVars, providerVars
<1>2. CASE GetNothing \/ GetWaited \/ PeekData
  <2>1. UNCHANGED providerVars /\ \A u \in Providers : pc'[u] = pc[u]
    BY <1>0, <1>2, CallerFrame DEF CallerThread
  <2>2. UNCHANGED <<head, tail, remain, active, elem, read, runs, took, layer>>
    BY <1>2 DEF GetNothing, GetWaited, PeekData, workVars, ringVars, callerVars
  <2>3. \A p \in Pools : Taken(p)' = Taken(p)
    BY <2>2 DEF Taken
  <2>4. QED BY <2>1, <2>2, <2>3, RingSame DEF providerVars
<1>3. ASSUME NEW t \in Providers,
             \/ HandleIDP(t) \/ CollectPools(t) \/ SignalWaiter(t)
             \/ ProviderWaited(t) \/ AnswerCleanup(t)
      PROVE  RingInv'
  <2>1. /\ UNCHANGED callerVars /\ \A u \in Providers : u # t => pc'[u] = pc[u]
        /\ \A u \in Providers : u # t =>
              at'[u] = at[u] /\ look'[u] = look[u] /\ filled'[u] = filled[u]
    BY <1>0, <1>3, ProviderFrame DEF Provider
  <2>2. UNCHANGED ringVars
    BY <1>3 DEF HandleIDP, CollectPools, SignalWaiter, ProviderWaited, AnswerCleanup,
       workVars
  <2>3. \A p \in Pools : Taken(p)' = Taken(p)
    BY <2>1 DEF Taken, callerVars
  <2>4. pc[t] \notin {"fill", "update"} /\ pc'[t] \notin {"fill", "update"}
    <3>1. CASE SignalWaiter(t)
      BY <1>0, <3>1, NextPoolStep DEF SignalWaiter
    <3>2. CASE ~SignalWaiter(t)
      BY <1>0, <1>3, <3>2, GotoStep DEF HandleIDP, CollectPools, ProviderWaited,
         AnswerCleanup, Steps
    <3>3. QED BY <3>1, <3>2
  <2>5. QED BY <2>1, <2>2, <2>3, <2>4, RingSame DEF ringVars
<1>4. CASE DestroyerThread \/ \E t \in Threads : WaitStep(t)
  <2>1. /\ UNCHANGED <<ringVars, providerVars, callerVars>>
        /\ \A u \in Providers : pc'[u] = pc[u]
    BY <1>0, <1>4, OthersFrame
  <2>2. \A p \in Pools : Taken(p)' = Taken(p)
    BY <2>1 DEF Taken, callerVars
  <2>3. QED BY <2>1, <2>2, RingSame DEF ringVars, providerVars
<1>5. QED BY <1>1, <1>2, <1>3, <1>4, RingGetData, RingLookAtPool, RingFillElem,
             RingUpdatePool
          DEF Next, CallerThread, Provider

-----------------------------------------------------------------------------
LEMMA StreamStep == StreamInv /\ [Next]_vars => StreamInv'
<1>1. ASSUME StreamInv, Next PROVE StreamInv'
  <2>1. TypeOK'
    BY <1>1, TypeStepCaller, TypeStepProvider, TypeStepOthers DEF Next
  <2>2. QED BY <1>1, <2>1, CallerInvStep, OneInvStep, RingStep DEF StreamInv
<1>2. ASSUME StreamInv, UNCHANGED vars PROVE StreamInv'
  <2>1. UNCHANGED <<flag, event, wait, poolMap, head, tail, remain, active, waiter, elem,
                    read, registered, threadID, cleanupThreadID, startJobs, pc, at, look,
                    filled, progress, runs, took, layer, peek>>
    BY <1>2 DEF vars, contextVars, ringVars, infoVars, providerVars, callerVars
  <2>2. TypeOK'
    BY <1>2, <2>1 DEF StreamInv, TypeOK
  <2>3. CallerInv' /\ OneInv'
    BY <1>2, <2>1 DEF StreamInv, CallerInv, OneInv
  <2>4. \A p \in Pools : Taken(p)' = Taken(p)
    BY <2>1 DEF Taken
  <2>5. RingInv'
    BY <1>2, <2>1, <2>4, RingSame
  <2>6. QED BY <2>2, <2>3, <2>5 DEF StreamInv
<1>3. QED BY <1>1, <1>2

LEMMA StreamAlways == Spec => []StreamInv
BY InitStream, StreamStep, PTL DEF Spec

(* Type correctness: every index of a ring stays in it, and the counts of  *)
(* free and available elements within its size (InputDataProvider.cpp).    *)
THEOREM IDPTypes == Spec => []TypeOK
<1>1. StreamInv => TypeOK
  BY DEF StreamInv
<1>2. QED BY <1>1, StreamAlways, PTL

(* The layer takes the data of its reader in order, none lost and none     *)
(* twice, for pools of any size, with the provider filling elements on     *)
(* what it has read before of their number (handler(), getData()).         *)
THEOREM StreamInOrder == Spec => []RingHoldsStream
<1>1. StreamInv => RingHoldsStream
  <2> SUFFICES ASSUME StreamInv, NEW p \in Pools
               PROVE  /\ active[p] + remain[p] = ElemCount
                      /\ \A i \in 0..(active[p] - 1) :
                            elem[p][(head[p] + i) % ElemCount] = Taken(p) + 1 + i
    BY DEF RingHoldsStream
  <2>1. PICK extra \in 0..remain[p] : PoolHolds(p, extra)
    BY DEF StreamInv, RingInv
  <2>2. active[p] \in Nat /\ remain[p] \in Nat /\ extra \in Nat
    BY <2>1, CountsOfPool
  <2>3. \A i \in 0..(active[p] - 1) : i \in 0..(active[p] + extra - 1)
    BY <2>2
  <2>4. QED BY <2>1, <2>3, CountsOfPool DEF PoolHolds
<1>2. QED BY <1>1, StreamAlways, PTL

(* However many runs have pushed a job to start the provider, one thread   *)
(* fills the pools (handleIDP).                                            *)
THEOREM OneProviderFills == Spec => []OneProvider
<1>1. StreamInv => OneProvider
  <2> SUFFICES ASSUME StreamInv PROVE OneProvider
    OBVIOUS
  <2> DEFINE started == {t \in Providers : pc[t] # "idle"}
  <2>1. \A t, u \in started : t = u
    BY DEF StreamInv, OneInv
  <2>2. CASE started = {}
    BY <2>2, FS_EmptySet DEF OneProvider
  <2>3. CASE started # {}
    <3>1. PICK t : t \in started
      BY <2>3
    <3>2. started = {t}
      BY <2>1, <3>1
    <3>3. QED BY <3>2, FS_Singleton DEF OneProvider
  <2>4. QED BY <2>2, <2>3
<1>2. QED BY <1>1, StreamAlways, PTL

-----------------------------------------------------------------------------
(* The pools outlive the provider, if the network needs more data than the *)
(* one datum addPool reads ahead: a provider was started then before the   *)
(* last run was answered, and removePool waits for it to end.              *)

NeedsProvider == Runs * Demand >= 2

PoolsInv ==
    /\ pc[Destroyer] \in {"idle", "check", "wait", "remove", "erase", "ended"}
    /\ pc[Destroyer] \in {"idle", "check", "wait"} => poolMap = Pools
    /\ \A t \in Providers :
          /\ pc[t] # "aborted"
          /\ pc[t] # "idle" => pc[Destroyer] \in {"idle", "check", "wait"}

InfoInv ==
    /\ pc[Destroyer] # "ended" => registered /\ threadID # Zero
    /\ pc[Destroyer] = "ended" => ~(registered /\ threadID = NoThread)
    /\ registered /\ threadID = NoThread => \A p \in Pools : read[p] = 1
    /\ pc[Destroyer] \in {"check", "wait", "remove", "erase"} =>
          cleanupThreadID = Destroyer
    /\ pc[Destroyer] \in {"wait", "remove", "erase"} => threadID \in Providers
    /\ pc[Destroyer] # "idle" => pc[Caller] = "idle" /\ runs = Runs

(* FinishJob is with the provider removePool waits for, and the answer     *)
(* comes after it, once.                                                   *)
FinishInv ==
    /\ \A t \in Threads :
          "FinishJob" \in event[t] =>
             pc[Destroyer] = "wait" /\ t = threadID /\ event[Destroyer] = {}
    /\ \A t \in Providers :
          pc[t] = "answer" =>
             /\ pc[Destroyer] = "wait" /\ t = threadID /\ event[Destroyer] = {}
             /\ "FinishJob" \notin event[t]
    /\ event[Destroyer] # {} =>
          pc[Destroyer] = "wait" /\ \A t \in Providers : pc[t] = "idle"
    /\ flag[Destroyer] => wait[Destroyer] = "out" /\ event[Destroyer] # {}
    /\ wait[Destroyer] \in {"exchange", "notified"} => event[Destroyer] # {}

WaiterInv ==
    \A p \in Pools :
        waiter[p] # NoThread => pc[Caller] \in {"get", "wait"} /\ layer = p

LifeInv == StreamInv /\ PoolsInv /\ InfoInv /\ FinishInv /\ WaiterInv

LEMMA InitLife == Init => LifeInv
<1> SUFFICES ASSUME Init PROVE LifeInv
  OBVIOUS
<1> /\ Providers \subseteq Threads /\ Destroyer \in Threads /\ Caller \in Threads
    /\ NoThread # Zero
  BY IDPAssumption DEF Threads
<1>1. PoolsInv /\ InfoInv /\ WaiterInv
  BY DEF Init, PoolsInv, InfoInv, WaiterInv
<1>2. FinishInv
  <2>1. ~flag[Destroyer] /\ wait[Destroyer] = "out" /\ \A t \in Threads : event[t] = {}
    BY DEF Init
  <2>2. \A t \in Providers : pc[t] = "idle"
    BY DEF Init
  <2>3. QED BY <2>1, <2>2 DEF FinishInv
<1>3. QED BY <1>1, <1>2, InitStream DEF LifeInv

LEMMA SignalFrame ==
    ASSUME ContextTypes, NEW t \in Threads, NEW e \in {"Wakeup", "FinishJob"}, Signal(t, e)
    PROVE  /\ \A u \in Threads : u # t =>
                 flag'[u] = flag[u] /\ event'[u] = event[u] /\ wait'[u] = wait[u]
           /\ event'[t] = event[t] \cup {e}
           /\ flag'[t] => wait[t] \in {"out", "exchange"}
           /\ wait'[t] = IF wait[t] = "blocked" THEN "notified" ELSE wait[t]
<1>1. /\ event' = [event EXCEPT ![t] = @ \cup {e}]
      /\ wait' = [wait EXCEPT ![t] = IF @ = "blocked" THEN "notified" ELSE @]
  BY DEF Signal
<1>2. flag \in [Threads -> BOOLEAN] /\ event \in [Threads -> SUBSET {"Wakeup", "FinishJob"}]
      /\ wait \in [Threads -> WaitSteps]
  BY DEF ContextTypes
<1>3. CASE wait[t] \in {"out", "exchange"}
  <2>1. flag' = [flag EXCEPT ![t] = TRUE]
    BY <1>3 DEF Signal
  <2>2. QED BY <1>1, <1>2, <1>3, <2>1
<1>4. CASE wait[t] \notin {"out", "exchange"}
  <2>1. (wait[t] \in {"out", "exchange"}) = FALSE
    BY <1>4
  <2>2. flag' = [flag EXCEPT ![t] = FALSE]
    BY <2>1, Zenon DEF Signal
  <2>3. QED BY <1>1, <1>2, <2>2
<1>5. QED BY <1>3, <1>4

LEMMA ReturnsFrame ==
    ASSUME ContextTypes, NEW t \in Threads, NEW timed, Returns(t, timed)
    PROVE  /\ \A u \in Threads : u # t => event'[u] = event[u] /\ wait'[u] = wait[u]
           /\ event'[t] = {} /\ wait'[t] = "out" /\ UNCHANGED flag
BY DEF ContextTypes, Returns

(* The run goes on only while the network is not destroyed.                *)
LEMMA LifeStepCaller ==
    ASSUME LifeInv, CallerThread \/ RunNetwork
    PROVE  PoolsInv' /\ InfoInv' /\ FinishInv' /\ WaiterInv'
<1> /\ Providers \subseteq Threads /\ Caller \notin Providers /\ Caller # Destroyer
    /\ Destroyer \in Threads /\ Caller \in Threads /\ Runs \in Nat
  BY IDPAssumption DEF Threads
<1>0. /\ TypeOK /\ ContextTypes /\ PoolsInv /\ InfoInv /\ FinishInv /\ WaiterInv
      /\ StreamInv /\ CallerInv
  BY TypeParts DEF LifeInv, StreamInv
<1>1. /\ \A u \in Threads : u # Caller => pc'[u] = pc[u]
      /\ UNCHANGED <<poolMap, registered, threadID, cleanupThreadID>>
  BY <1>0, CallerFrame DEF infoVars
<1>2. pc[Destroyer] = "idle" /\ pc'[Destroyer] = "idle"
  <2>1. CASE RunNetwork
    BY <1>0, <1>1, <2>1 DEF RunNetwork, InfoInv, TypeOK
  <2>2. CASE CallerThread
    BY <1>0, <1>1, <2>2 DEF CallerThread, GetNothing, GetWaited, PeekData, GetData, InfoInv
  <2>3. QED BY <2>1, <2>2
<1>3. UNCHANGED read
  BY DEF CallerThread, RunNetwork, GetNothing, GetWaited, PeekData, GetData, workVars,
     ringVars
<1>4. PoolsInv'
  BY <1>0, <1>1, <1>2 DEF PoolsInv
<1>5. InfoInv'
  BY <1>0, <1>1, <1>2, <1>3 DEF InfoInv
<1>6. FinishInv'
  <2>1. /\ UNCHANGED flag /\ \A u \in Threads : u # Caller =>
              event'[u] = event[u] /\ wait'[u] = wait[u]
        /\ event'[Caller] = event[Caller] \/ event'[Caller] = {}
    <3>1. CASE GetWaited
      BY <1>0, <3>1, ReturnsFrame DEF GetWaited
    <3>2. CASE ~GetWaited
      BY <3>2 DEF CallerThread, RunNetwork, GetNothing, PeekData, GetData, contextVars
    <3>3. QED BY <3>1, <3>2
  <2>2. \A t \in Providers : pc'[t] = pc[t] /\ event'[t] = event[t]
    BY <1>1, <2>1
  <2>3. \A t \in Threads : "FinishJob" \notin event'[t]
    BY <1>0, <1>2, <2>1 DEF FinishInv
  <2>4. \A t \in Providers : pc'[t] # "answer"
    BY <1>0, <1>2, <2>2 DEF FinishInv
  <2>5. event'[Destroyer] = {} /\ ~flag'[Destroyer]
        /\ wait'[Destroyer] \notin {"exchange", "notified"}
    BY <1>0, <1>2, <2>1 DEF FinishInv
  <2>6. QED BY <2>3, <2>4, <2>5 DEF FinishInv
<1>7. WaiterInv'
  <2>1. layer \in Pools /\ waiter \in [Pools -> {Caller, NoThread}]
    BY <1>0 DEF TypeOK
  <2>2. CASE RunNetwork
    <3>1. UNCHANGED waiter /\ pc[Caller] = "idle"
      BY <2>2 DEF RunNetwork, ringVars
    <3>2. QED BY <1>0, <3>1 DEF WaiterInv
  <2>3. CASE GetNothing
    <3>1. pc'[Caller] = "wait" /\ UNCHANGED layer
      BY <1>0, <2>3, GotoStep DEF GetNothing, callerVars, Steps
    <3>2. QED BY <1>0, <2>1, <2>3, <3>1 DEF GetNothing, WaiterInv
  <2>4. CASE GetWaited
    <3>1. pc'[Caller] = "get" /\ UNCHANGED <<waiter, layer>>
      BY <1>0, <2>4, GotoStep DEF GetWaited, callerVars, ringVars, workVars, Steps
    <3>2. QED BY <1>0, <3>1 DEF WaiterInv
  <2>5. CASE PeekData \/ GetData
    <3>1. waiter' = [waiter EXCEPT ![layer] = NoThread]
      BY <2>5 DEF PeekData, GetData
    <3>2. \A p \in Pools : waiter'[p] = NoThread
      BY <1>0, <2>1, <3>1 DEF WaiterInv
    <3>3. QED BY <3>2 DEF WaiterInv
  <2>6. QED BY <2>2, <2>3, <2>4, <2>5 DEF CallerThread
<1>8. QED BY <1>4, <1>5, <1>6, <1>7

(* A step of a provider that neither starts nor answers.                   *)
LEMMA LifeStepWork ==
    ASSUME LifeInv, NEW t \in Providers,
           \/ CollectPools(t) \/ LookAtPool(t) \/ FillElem(t) \/ UpdatePool(t)
           \/ SignalWaiter(t) \/ ProviderWaited(t)
    PROVE  PoolsInv' /\ InfoInv' /\ FinishInv' /\ WaiterInv'
<1> /\ Providers \subseteq Threads /\ Caller \notin Providers /\ Caller # Destroyer
    /\ Destroyer \in Threads /\ Caller \in Threads /\ Destroyer \notin Providers
    /\ t \in Threads
  BY IDPAssumption DEF Threads
<1>0. /\ TypeOK /\ ContextTypes /\ PoolsInv /\ InfoInv /\ FinishInv /\ WaiterInv
      /\ StreamInv
  BY TypeParts DEF LifeInv, StreamInv
<1>1. /\ \A u \in Threads : u # t => pc'[u] = pc[u]
      /\ UNCHANGED <<poolMap, cleanupThreadID, runs, took, layer, peek>>
  BY <1>0, ProviderFrame DEF callerVars, Provider
<1>2. UNCHANGED <<registered, threadID>>
  BY DEF CollectPools, LookAtPool, FillElem, UpdatePool, SignalWaiter, ProviderWaited,
     infoVars
<1>3. /\ pc[t] \notin {"idle", "answer"} /\ pc[Destroyer] \in {"idle", "check", "wait"}
      /\ poolMap = Pools
  <2>1. pc[t] \notin {"idle", "answer"}
    BY DEF CollectPools, LookAtPool, FillElem, UpdatePool, SignalWaiter, ProviderWaited
  <2>2. QED BY <1>0, <2>1 DEF PoolsInv
<1>4. ~(registered /\ threadID = NoThread)
  BY <1>0, <1>3 DEF StreamInv, OneInv
<1>5. pc'[t] \notin {"idle", "aborted"}
      /\ (pc'[t] = "answer" => ProviderWaited(t) /\ "FinishJob" \in event[t])
  <2>1. CASE CollectPools(t)
    BY <1>0, <1>3, <2>1, GotoStep DEF CollectPools, Steps
  <2>2. CASE LookAtPool(t)
    <3>1. CASE remain[at[t]] = 0
      <4>1. progress[t] \in BOOLEAN /\ NextPool(t, progress[t])
        BY <1>0, <2>2, <3>1 DEF LookAtPool, TypeOK
      <4>2. QED BY <1>0, <4>1, NextPoolStep
    <3>2. CASE remain[at[t]] # 0
      BY <1>0, <2>2, <3>2, GotoStep DEF LookAtPool, Steps
    <3>3. QED BY <3>1, <3>2
  <2>3. CASE FillElem(t)
    BY <1>0, <2>3, GotoStep DEF FillElem, Steps
  <2>4. CASE UpdatePool(t)
    <3>1. CASE waiter[at[t]] # NoThread
      BY <1>0, <2>4, <3>1, GotoStep DEF UpdatePool, Steps
    <3>2. CASE ~(waiter[at[t]] # NoThread)
      <4>1. NextPool(t, TRUE)
        BY <2>4, <3>2 DEF UpdatePool
      <4>2. QED BY <1>0, <4>1, NextPoolStep
    <3>3. QED BY <3>1, <3>2
  <2>5. CASE SignalWaiter(t)
    BY <1>0, <2>5, NextPoolStep DEF SignalWaiter
  <2>6. CASE ProviderWaited(t)
    <3>1. pc'[t] = IF "FinishJob" \in Returned(t) THEN "answer" ELSE "look"
      BY <1>0, <2>6, GotoStep DEF ProviderWaited, Steps
    <3>2. "FinishJob" \in Returned(t) => "FinishJob" \in event[t]
      BY DEF Returned
    <3>3. QED BY <2>6, <3>1, <3>2
  <2>7. QED BY <2>1, <2>2, <2>3, <2>4, <2>5, <2>6
<1>6. PoolsInv'
  BY <1>0, <1>1, <1>3, <1>5 DEF PoolsInv
<1>7. InfoInv'
  BY <1>0, <1>1, <1>2, <1>4 DEF InfoInv
<1>8. FinishInv'
  <2>1. CASE ProviderWaited(t)
    <3>1. /\ \A u \in Threads : u # t => event'[u] = event[u] /\ wait'[u] = wait[u]
          /\ event'[t] = {} /\ UNCHANGED flag
      BY <1>0, <2>1, ReturnsFrame DEF ProviderWaited
    <3>2. event'[Destroyer] = event[Destroyer] /\ wait'[Destroyer] = wait[Destroyer]
          /\ pc'[Destroyer] = pc[Destroyer]
      BY <1>1, <3>1
    <3>3. \A u \in Threads : "FinishJob" \in event'[u] =>
              pc[Destroyer] = "wait" /\ u = threadID /\ event[Destroyer] = {}
      BY <1>0, <3>1 DEF FinishInv
    <3>4. \A u \in Providers : pc'[u] = "answer" =>
              /\ pc[Destroyer] = "wait" /\ u = threadID /\ event[Destroyer] = {}
              /\ "FinishJob" \notin event'[u]
      <4>1. ASSUME NEW u \in Providers, u # t, pc'[u] = "answer" PROVE FALSE
        BY <1>0, <1>1, <1>3, <4>1, FillsAlone
      <4>2. pc'[t] = "answer" =>
              pc[Destroyer] = "wait" /\ t = threadID /\ event[Destroyer] = {}
        BY <1>0, <1>5 DEF FinishInv
      <4>3. QED BY <3>1, <4>1, <4>2
    <3>5. event[Destroyer] = {}
      BY <1>0, <1>3 DEF FinishInv
    <3>6. QED BY <1>0, <1>2, <3>1, <3>2, <3>3, <3>4, <3>5 DEF FinishInv
  <2>2. CASE ~ProviderWaited(t)
    <3>1. /\ UNCHANGED flag \/ \A u \in Threads : u # Caller => flag'[u] = flag[u]
          /\ \A u \in Threads : u # Caller => event'[u] = event[u] /\ wait'[u] = wait[u]
          /\ "FinishJob" \in event'[Caller] => "FinishJob" \in event[Caller]
      <4>1. CASE SignalWaiter(t)
        <5>1. Signal(Caller, "Wakeup")
          BY <4>1 DEF SignalWaiter
        <5>2. QED BY <1>0, <5>1, SignalFrame
      <4>2. CASE ~SignalWaiter(t)
        BY <2>2, <4>2 DEF CollectPools, LookAtPool, FillElem, UpdatePool, contextVars
      <4>3. QED BY <4>1, <4>2
    <3>2. /\ event'[Destroyer] = event[Destroyer] /\ wait'[Destroyer] = wait[Destroyer]
          /\ pc'[Destroyer] = pc[Destroyer]
      BY <1>1, <3>1
    <3>3. flag'[Destroyer] <=> flag[Destroyer]
      BY <3>1
    <3>4. \A u \in Threads : "FinishJob" \in event'[u] =>
              pc[Destroyer] = "wait" /\ u = threadID /\ event[Destroyer] = {}
      BY <1>0, <3>1 DEF FinishInv
    <3>5. \A u \in Providers : pc'[u] # "answer"
      BY <1>0, <1>1, <1>3, <1>5, <2>2, FillsAlone
    <3>6. event[Destroyer] = {}
      BY <1>0, <1>3 DEF FinishInv
    <3>7. QED BY <1>0, <1>2, <3>2, <3>3, <3>4, <3>5, <3>6 DEF FinishInv
  <2>3. QED BY <2>1, <2>2
<1>9. WaiterInv'
  <2>1. \A p \in Pools : waiter'[p] = waiter[p] \/ waiter'[p] = NoThread
    <3>1. CASE UpdatePool(t)
      <4>1. waiter' = [waiter EXCEPT ![at[t]] = NoThread]
        BY <3>1 DEF UpdatePool
      <4>2. QED BY <1>0, <4>1 DEF TypeOK
    <3>2. CASE ~UpdatePool(t)
      BY <3>2 DEF CollectPools, LookAtPool, FillElem, SignalWaiter, ProviderWaited, ringVars
    <3>3. QED BY <3>1, <3>2
  <2>2. pc'[Caller] = pc[Caller]
    BY <1>1
  <2>3. QED BY <1>0, <1>1, <2>1, <2>2 DEF WaiterInv
<1>10. QED BY <1>6, <1>7, <1>8, <1>9

(* A job to start the provider: it starts where none is.                   *)
LEMMA LifeStepStart ==
    ASSUME LifeInv, NEW t \in Providers, HandleIDP(t)
    PROVE  PoolsInv' /\ InfoInv' /\ FinishInv' /\ WaiterInv'
<1> /\ Providers \subseteq Threads /\ Caller \notin Providers /\ Caller # Destroyer
    /\ Destroyer \in Threads /\ Caller \in Threads /\ Destroyer \notin Providers
    /\ t \in Threads /\ NoThread # Zero /\ NoThread \notin Providers /\ Zero \notin Providers
  BY IDPAssumption DEF Threads
<1>0. /\ TypeOK /\ ContextTypes /\ PoolsInv /\ InfoInv /\ FinishInv /\ WaiterInv
      /\ StreamInv
  BY TypeParts DEF LifeInv, StreamInv
<1>1. /\ \A u \in Threads : u # t => pc'[u] = pc[u]
      /\ UNCHANGED <<poolMap, cleanupThreadID, runs, took, layer, peek>>
  BY <1>0, ProviderFrame DEF callerVars, Provider
<1>2. /\ pc[t] = "idle" /\ registered'
      /\ threadID' = IF ~registered THEN Zero
                     ELSE IF threadID = NoThread THEN t ELSE threadID
      /\ pc'[t] = (IF registered /\ threadID = NoThread THEN "collect" ELSE "idle")
      /\ UNCHANGED <<flag, event, wait, read, waiter>>
  BY <1>0, GotoStep DEF HandleIDP, contextVars, ringVars, Steps
<1>3. pc'[Destroyer] = pc[Destroyer] /\ pc'[Caller] = pc[Caller]
  BY <1>1
<1>4. registered /\ threadID = NoThread => pc[Destroyer] \in {"idle", "check"}
  BY <1>0 DEF InfoInv, PoolsInv
<1>5. PoolsInv'
  BY <1>0, <1>1, <1>2, <1>3, <1>4 DEF PoolsInv
<1>6. InfoInv'
  BY <1>0, <1>1, <1>2, <1>3, <1>4 DEF InfoInv
<1>7. FinishInv'
  <2>1. pc[Destroyer] = "wait" => threadID' = threadID /\ pc'[t] = "idle"
    BY <1>0, <1>2 DEF InfoInv
  <2>2. \A u \in Providers : pc'[u] = "answer" => u # t /\ pc[u] = "answer"
    BY <1>1, <1>2
  <2>3. \A u \in Threads : "FinishJob" \in event'[u] =>
            pc'[Destroyer] = "wait" /\ u = threadID' /\ event'[Destroyer] = {}
    BY <1>0, <1>2, <1>3, <2>1 DEF FinishInv
  <2>4. \A u \in Providers : pc'[u] = "answer" =>
            /\ pc'[Destroyer] = "wait" /\ u = threadID' /\ event'[Destroyer] = {}
            /\ "FinishJob" \notin event'[u]
    BY <1>0, <1>2, <1>3, <2>1, <2>2 DEF FinishInv
  <2>5. event'[Destroyer] # {} =>
            pc'[Destroyer] = "wait" /\ \A u \in Providers : pc'[u] = "idle"
    BY <1>0, <1>1, <1>2, <1>3, <2>1 DEF FinishInv
  <2>6. QED BY <1>0, <1>2, <2>3, <2>4, <2>5 DEF FinishInv
<1>8. WaiterInv'
  BY <1>0, <1>1, <1>2, <1>3 DEF WaiterInv
<1>9. QED BY <1>5, <1>6, <1>7, <1>8

(* The provider answers the removePool that waits for it, and ends.        *)
LEMMA LifeStepAnswer ==
    ASSUME LifeInv, NEW t \in Providers, AnswerCleanup(t)
    PROVE  PoolsInv' /\ InfoInv' /\ FinishInv' /\ WaiterInv'
<1> /\ Providers \subseteq Threads /\ Caller \notin Providers /\ Caller # Destroyer
    /\ Destroyer \in Threads /\ Caller \in Threads /\ Destroyer \notin Providers
    /\ t \in Threads
  BY IDPAssumption DEF Threads
<1>0. /\ TypeOK /\ ContextTypes /\ PoolsInv /\ InfoInv /\ FinishInv /\ WaiterInv
      /\ StreamInv
  BY TypeParts DEF LifeInv, StreamInv
<1>1. /\ \A u \in Threads : u # t => pc'[u] = pc[u]
      /\ UNCHANGED <<poolMap, cleanupThreadID, runs, took, layer, peek>>
  BY <1>0, ProviderFrame DEF callerVars, Provider
<1>2. /\ pc[t] = "answer" /\ pc[Destroyer] = "wait" /\ t = threadID
      /\ event[Destroyer] = {} /\ "FinishJob" \notin event[t]
  BY <1>0 DEF AnswerCleanup, FinishInv
<1>3. registered /\ cleanupThreadID = Destroyer /\ Destroyer # NoThread
  BY <1>0, <1>2, IDPAssumption DEF InfoInv
<1>4. Signal(Destroyer, "Wakeup") /\ Goto(t, "idle")
  BY <1>3 DEF AnswerCleanup
<1>5. UNCHANGED <<registered, threadID, read, waiter>>
  BY DEF AnswerCleanup, workVars, infoVars, ringVars
<1>6. /\ pc'[Destroyer] = "wait" /\ pc'[Caller] = pc[Caller]
      /\ \A u \in Providers : pc'[u] = "idle"
  BY <1>0, <1>1, <1>2, <1>4, GotoStep, FillsAlone DEF Steps
<1>7. PoolsInv'
  BY <1>0, <1>1, <1>2, <1>6 DEF PoolsInv
<1>8. InfoInv'
  BY <1>0, <1>1, <1>2, <1>5, <1>6 DEF InfoInv
<1>9. FinishInv'
  <2>1. /\ \A u \in Threads : u # Destroyer => event'[u] = event[u]
        /\ event'[Destroyer] = {"Wakeup"}
        /\ flag'[Destroyer] => wait[Destroyer] \in {"out", "exchange"}
        /\ wait'[Destroyer] = IF wait[Destroyer] = "blocked" THEN "notified"
                              ELSE wait[Destroyer]
    BY <1>0, <1>2, <1>4, SignalFrame
  <2>2. \A u \in Threads : "FinishJob" \notin event'[u]
    BY <1>0, <1>2, <2>1 DEF FinishInv
  <2>3. wait[Destroyer] \notin {"exchange", "notified"}
    BY <1>0, <1>2 DEF FinishInv
  <2>4. QED BY <1>6, <2>1, <2>2, <2>3 DEF FinishInv
<1>10. WaiterInv'
  BY <1>0, <1>1, <1>5, <1>6 DEF WaiterInv
<1>11. QED BY <1>7, <1>8, <1>9, <1>10

(* A thread on its way into wait(): removePool's flag is up only for the   *)
(* answer.                                                                 *)
LEMMA LifeStepWait ==
    ASSUME LifeInv, NEW t \in Threads, WaitStep(t)
    PROVE  PoolsInv' /\ InfoInv' /\ FinishInv' /\ WaiterInv'
<1> Providers \subseteq Threads /\ Destroyer \in Threads
  BY DEF Threads
<1>0. /\ TypeOK /\ PoolsInv /\ InfoInv /\ FinishInv /\ WaiterInv
      /\ flag \in [Threads -> BOOLEAN] /\ wait \in [Threads -> WaitSteps]
  BY DEF LifeInv, StreamInv, TypeOK
<1>1. UNCHANGED <<event, pc, poolMap, registered, threadID, cleanupThreadID, runs, layer,
                  read, waiter>>
  BY DEF WaitStep, TestFlag, Block, workVars, infoVars, ringVars, callerVars
<1>2. PoolsInv' /\ InfoInv' /\ WaiterInv'
  BY <1>0, <1>1 DEF PoolsInv, InfoInv, WaiterInv
<1>3. /\ flag'[Destroyer] => wait'[Destroyer] = "out" /\ event[Destroyer] # {}
      /\ wait'[Destroyer] \in {"exchange", "notified"} => event[Destroyer] # {}
  <2>1. CASE TestFlag(t)
    <3>1. flag' = [flag EXCEPT ![t] = FALSE]
          /\ wait' = [wait EXCEPT ![t] = IF flag[t] THEN "exchange" ELSE "lock"]
      BY <2>1 DEF TestFlag
    <3>2. CASE t = Destroyer
      <4>1. ~flag'[Destroyer]
        BY <1>0, <3>1, <3>2
      <4>2. wait'[Destroyer] = "exchange" => flag[Destroyer]
        BY <1>0, <3>1, <3>2
      <4>3. wait'[Destroyer] \in {"exchange", "lock"}
        BY <1>0, <3>1, <3>2
      <4>4. QED BY <1>0, <4>1, <4>2, <4>3 DEF FinishInv
    <3>3. CASE t # Destroyer
      <4>1. (flag'[Destroyer] <=> flag[Destroyer]) /\ wait'[Destroyer] = wait[Destroyer]
        BY <1>0, <3>1, <3>3
      <4>2. QED BY <1>0, <4>1 DEF FinishInv
    <3>4. QED BY <3>2, <3>3
  <2>2. CASE Block(t)
    <3>1. UNCHANGED flag /\ wait[t] = "lock" /\ wait' = [wait EXCEPT ![t] = "blocked"]
      BY <2>2 DEF Block
    <3>2. wait'[Destroyer] = wait[Destroyer]
          \/ (wait[Destroyer] = "lock" /\ wait'[Destroyer] = "blocked")
      BY <1>0, <3>1
    <3>3. QED BY <1>0, <3>1, <3>2 DEF FinishInv
  <2>3. QED BY <2>1, <2>2 DEF WaitStep
<1>4. FinishInv'
  BY <1>0, <1>1, <1>3 DEF FinishInv
<1>5. QED BY <1>2, <1>4

(* Without a provider, no reader has read a second datum, and the last run *)
(* was not answered.                                                       *)
LEMMA ProviderStarted ==
    ASSUME LifeInv, NeedsProvider, pc[Destroyer] # "idle", pc[Destroyer] # "ended"
    PROVE  threadID \in Providers
<1>0. StreamInv /\ TypeOK /\ InfoInv /\ CallerInv
  BY DEF LifeInv, StreamInv
<1>1. SUFFICES ASSUME threadID = NoThread PROVE FALSE
  BY <1>0 DEF InfoInv, TypeOK
<1>2. 1 \in Pools /\ Runs \in Nat /\ Demand \in Nat \ {0}
  BY IDPAssumption DEF Pools
<1>3. read[1] = 1
  BY <1>0, <1>1, <1>2 DEF InfoInv
<1>4. runs = Runs /\ layer = 1 /\ Runs # 0 /\ took = Demand
  <2>1. runs = Runs /\ pc[Caller] = "idle"
    BY <1>0 DEF InfoInv
  <2>2. Runs # 0
    BY <1>2 DEF NeedsProvider
  <2>3. QED BY <1>0, <2>1, <2>2 DEF CallerInv
<1>5. Taken(1) = (Runs - 1) * Demand + Demand + 0
  BY <1>4 DEF Taken
<1>6. (Runs - 1) * Demand + Demand = Runs * Demand /\ Runs * Demand \in Nat
  BY <1>2
<1>7. Taken(1) >= 2 /\ Taken(1) \in Nat
  BY <1>5, <1>6 DEF NeedsProvider
<1>8. PICK extra \in 0..remain[1] : PoolHolds(1, extra)
  BY <1>0, <1>2 DEF StreamInv, RingInv
<1>9. read[1] = Taken(1) + active[1] + extra /\ extra \in Nat /\ active[1] \in Nat
  BY <1>0, <1>2, <1>8, CountsOfPool DEF PoolHolds
<1>10. QED BY <1>3, <1>7, <1>9

LEMMA LifeStepDestroyer ==
    ASSUME LifeInv, NeedsProvider, DestroyerThread
    PROVE  PoolsInv' /\ InfoInv' /\ FinishInv' /\ WaiterInv'
<1> /\ Providers \subseteq Threads /\ Caller \notin Providers /\ Caller # Destroyer
    /\ Destroyer \in Threads /\ Caller \in Threads /\ Destroyer \notin Providers
    /\ NoThread \notin Providers
  BY IDPAssumption DEF Threads
<1>0. /\ TypeOK /\ ContextTypes /\ PoolsInv /\ InfoInv /\ FinishInv /\ WaiterInv
      /\ StreamInv
  BY TypeParts DEF LifeInv, StreamInv
<1>1. /\ \A u \in Threads : u # Destroyer => pc'[u] = pc[u]
      /\ UNCHANGED <<read, waiter, runs, layer>>
  BY <1>0, OthersFrame DEF ringVars, callerVars
<1>2. pc'[Caller] = pc[Caller] /\ \A u \in Providers : pc'[u] = pc[u]
  BY <1>1
<1>3. WaiterInv'
  BY <1>0, <1>1, <1>2 DEF WaiterInv
<1>4. CASE RemovePool
  <2>1. /\ pc[Destroyer] = "idle" /\ pc'[Destroyer] = "check" /\ cleanupThreadID' = Destroyer
        /\ pc[Caller] = "idle" /\ runs = Runs
        /\ UNCHANGED <<flag, event, wait, poolMap, registered, threadID>>
    BY <1>0, <1>4, GotoStep DEF RemovePool, contextVars, Steps
  <2>2. PoolsInv' /\ InfoInv'
    BY <1>0, <1>1, <1>2, <2>1 DEF PoolsInv, InfoInv
  <2>3. FinishInv'
    BY <1>0, <1>2, <2>1 DEF FinishInv
  <2>4. QED BY <1>3, <2>2, <2>3
<1>5. CASE FinishProvider
  <2>1. pc[Destroyer] = "check"
    BY <1>5 DEF FinishProvider
  <2>2. threadID \in Providers /\ threadID # NoThread
    BY <2>1, ProviderStarted
  <2>3. /\ Signal(threadID, "FinishJob") /\ pc'[Destroyer] = "wait"
        /\ UNCHANGED <<poolMap, registered, threadID, cleanupThreadID>>
    BY <1>0, <1>5, <2>2, GotoStep DEF FinishProvider, workVars, infoVars, Steps
  <2>4. PoolsInv' /\ InfoInv'
    BY <1>0, <1>1, <1>2, <2>1, <2>2, <2>3 DEF PoolsInv, InfoInv
  <2>5. FinishInv'
    <3>1. \A u \in Threads : u # threadID =>
              flag'[u] = flag[u] /\ event'[u] = event[u] /\ wait'[u] = wait[u]
      BY <1>0, <2>2, <2>3, SignalFrame
    <3>2. event[Destroyer] = {} /\ \A u \in Threads : "FinishJob" \notin event[u]
      BY <1>0, <2>1 DEF FinishInv
    <3>3. \A u \in Providers : pc'[u] # "answer"
      BY <1>0, <1>2, <2>1 DEF FinishInv
    <3>4. Destroyer # threadID
      BY <2>2
    <3>5. /\ event'[Destroyer] = {} /\ wait'[Destroyer] = wait[Destroyer]
          /\ flag'[Destroyer] = flag[Destroyer]
      BY <3>1, <3>2, <3>4
    <3>6. \A u \in Threads : "FinishJob" \in event'[u] => u = threadID'
      BY <2>3, <3>1, <3>2
    <3>7. QED BY <1>0, <2>3, <3>2, <3>3, <3>5, <3>6 DEF FinishInv
  <2>6. QED BY <1>3, <2>4, <2>5
<1>6. CASE ProviderFinished
  <2>1. /\ pc[Destroyer] = "wait" /\ pc'[Destroyer] = "remove"
        /\ UNCHANGED <<poolMap, registered, threadID, cleanupThreadID>>
    BY <1>0, <1>6, GotoStep DEF ProviderFinished, workVars, infoVars, Steps
  <2>2. event[Destroyer] # {} /\ ~flag[Destroyer]
    BY <1>0, <1>6 DEF ProviderFinished, Returns, FinishInv
  <2>3. (\A u \in Providers : pc[u] = "idle") /\ \A u \in Threads : "FinishJob" \notin event[u]
    BY <1>0, <2>2 DEF FinishInv
  <2>4. /\ \A u \in Threads : u # Destroyer => event'[u] = event[u]
        /\ event'[Destroyer] = {} /\ wait'[Destroyer] = "out" /\ UNCHANGED flag
    BY <1>0, <1>6, ReturnsFrame DEF ProviderFinished
  <2>5. PoolsInv' /\ InfoInv'
    BY <1>0, <1>1, <1>2, <2>1, <2>3 DEF PoolsInv, InfoInv
  <2>6. FinishInv'
    <3>1. \A u \in Threads : "FinishJob" \notin event'[u]
      BY <2>3, <2>4
    <3>2. QED BY <1>2, <2>2, <2>3, <2>4, <3>1 DEF FinishInv
  <2>7. QED BY <1>3, <2>5, <2>6
<1>7. CASE DeletePool
  <2>1. /\ pc[Destroyer] = "remove"
        /\ UNCHANGED <<flag, event, wait, registered, threadID, cleanupThreadID>>
    BY <1>7 DEF DeletePool, contextVars, infoVars
  <2>2. pc[Caller] = "idle"
    BY <1>0, <2>1 DEF InfoInv
  <2>3. pc'[Destroyer] \in {"remove", "erase"}
    <3>1. PICK p \in poolMap :
             Goto(Destroyer, IF waiter[p] # NoThread THEN "aborted"
                             ELSE IF poolMap' = {} THEN "erase" ELSE "remove")
      BY <1>7 DEF DeletePool
    <3>2. waiter[p] = NoThread
      BY <1>0, <2>2, <3>1 DEF WaiterInv, TypeOK
    <3>3. QED BY <1>0, <3>1, <3>2, GotoStep DEF Steps
  <2>4. PoolsInv' /\ InfoInv'
    BY <1>0, <1>1, <1>2, <2>1, <2>3 DEF PoolsInv, InfoInv
  <2>5. FinishInv'
    BY <1>0, <1>2, <2>1, <2>3 DEF FinishInv
  <2>6. QED BY <1>3, <2>4, <2>5
<1>8. CASE ErasePoolInfo
  <2>1. /\ pc[Destroyer] = "erase" /\ pc'[Destroyer] = "ended" /\ registered' = FALSE
        /\ UNCHANGED <<flag, event, wait, poolMap>>
    BY <1>0, <1>8, GotoStep DEF ErasePoolInfo, contextVars, Steps
  <2>2. PoolsInv' /\ InfoInv'
    BY <1>0, <1>1, <1>2, <2>1 DEF PoolsInv, InfoInv
  <2>3. FinishInv'
    BY <1>0, <1>2, <2>1 DEF FinishInv
  <2>4. QED BY <1>3, <2>2, <2>3
<1>9. QED BY <1>4, <1>5, <1>6, <1>7, <1>8 DEF DestroyerThread

LEMMA LifeStep == NeedsProvider /\ LifeInv /\ [Next]_vars => LifeInv'
<1>1. ASSUME NeedsProvider, LifeInv, Next PROVE LifeInv'
  <2>1. StreamInv'
    BY <1>1, StreamStep DEF LifeInv
  <2>2. CASE CallerThread \/ RunNetwork
    BY <1>1, <2>1, <2>2, LifeStepCaller DEF LifeInv
  <2>3. ASSUME NEW t \in Providers, Provider(t) PROVE LifeInv'
    BY <1>1, <2>1, <2>3, LifeStepWork, LifeStepStart, LifeStepAnswer DEF LifeInv, Provider
  <2>4. CASE DestroyerThread
    BY <1>1, <2>1, <2>4, LifeStepDestroyer DEF LifeInv
  <2>5. ASSUME NEW t \in Threads, WaitStep(t) PROVE LifeInv'
    BY <1>1, <2>1, <2>5, LifeStepWait DEF LifeInv
  <2>6. QED BY <1>1, <2>2, <2>3, <2>4, <2>5 DEF Next
<1>2. ASSUME LifeInv, UNCHANGED vars PROVE LifeInv'
  <2>1. UNCHANGED <<flag, event, wait, poolMap, waiter, read, registered, threadID,
                    cleanupThreadID, pc, runs, layer>>
    BY <1>2 DEF vars, contextVars, ringVars, infoVars, callerVars
  <2>2. StreamInv'
    BY <1>2, StreamStep DEF LifeInv
  <2>3. PoolsInv' /\ InfoInv' /\ FinishInv' /\ WaiterInv'
    BY <1>2, <2>1 DEF LifeInv, PoolsInv, InfoInv, FinishInv, WaiterInv
  <2>4. QED BY <2>2, <2>3 DEF LifeInv
<1>3. QED BY <1>1, <1>2

LEMMA LifeAlways == ASSUME NeedsProvider PROVE Spec => []LifeInv
<1>1. LifeInv /\ [Next]_vars => LifeInv'
  BY LifeStep
<1>2. QED BY InitLife, <1>1, PTL DEF Spec

(* removePool deletes no pool that a provider still works on, if the       *)
(* network needs more than the datum addPool read ahead.  (With exactly    *)
(* one datum the run may be answered before any provider starts, and the   *)
(* provider that starts late meets removePool, which reads threadID        *)
(* without the mutex.)                                                     *)
THEOREM PoolsOutlive == ASSUME NeedsProvider PROVE Spec => []PoolsOutliveProvider
<1>1. LifeInv => PoolsOutliveProvider
  BY DEF LifeInv, PoolsInv, PoolsOutliveProvider
<1>2. QED BY <1>1, LifeAlways, PTL

(* Then no assertion of the provider or of removePool fails either: the    *)
(* pools are found, nobody waits for a deleted one, and the thread to      *)
(* answer is known (handleIDP, removePool).                                *)
THEOREM ProviderAssertionsHold == ASSUME NeedsProvider PROVE Spec => []AssertionsHold
<1>1. LifeInv => AssertionsHold
  BY DEF LifeInv, StreamInv, CallerInv, PoolsInv, AssertionsHold, Running, Threads
<1>2. QED BY <1>1, LifeAlways, PTL

=============================================================================
