----------------------------- MODULE LogicalPlan -----------------------------
(***************************************************************************)
(* LogicalPlan::build, plan/LogicalPlan.cpp: the plans of a network and    *)
(* whom each of them notifies, made from the names of the tensors that the *)
(* layers read and write.  A layer that reads and writes one tensor works  *)
(* in place; a tensor that several layers read gets a split layer.         *)
(***************************************************************************)
EXTENDS Integers, FiniteSets, SequencesExt

CONSTANTS
    Networks,        \* planDefMap of each: layer ID to PlanBuildDef
    SplitStart       \* SPLITLAYER_START_LAYERID

Forward(l)  == 3 * l
Backward(l) == 3 * l + 1
Update(l)   == 3 * l + 2

(* Where an element is in a sequence that has it once.                     *)
Position(s, x) == CHOOSE i \in DOMAIN s : s[i] = x

(* The elements of a set of IDs, the least one first.                      *)
InOrder(S) ==
    [i \in 1..Cardinality(S) |-> CHOOSE p \in S : Cardinality({q \in S : q < p}) = i - 1]

(* (1) The layers that read a tensor (output2IDMap) and that write it      *)
(* (input2IDMap), by ID.                                                   *)
Readers(net, t) == InOrder({l \in DOMAIN net : t \in ToSet(net[l].inputs)})
Writers(net, t) == InOrder({l \in DOMAIN net : t \in ToSet(net[l].outputs)})

Tensors(net) == UNION {ToSet(net[l].inputs) \cup ToSet(net[l].outputs) : l \in DOMAIN net}

(* (2) Does a layer propagate to its i-th input?  What the layer says,     *)
(* what its type says, or yes.                                             *)
PropDown(net, l, i) ==
    CASE i \in DOMAIN net[l].propDowns       -> net[l].propDowns[i]
      [] i \in DOMAIN net[l].defaultPropDown /\ i \notin DOMAIN net[l].propDowns ->
            net[l].defaultPropDown[i]
      [] OTHER -> TRUE

(* What the networks of the repository have in common: a layer names a     *)
(* tensor once, the IDs follow the flow of the data, and of those that     *)
(* write a tensor all but the first do so in place, before the others read *)
(* it; somebody does, if anybody, or SASSERT0 fails.  A layer that works   *)
(* in place propagates to what it works on.                                *)
WellFormed(net) ==
    /\ \E l \in DOMAIN net : net[l].outputs # <<>>
    /\ \A l \in DOMAIN net :
          /\ l \in 0..(SplitStart - 1)
          /\ net[l].inputs \in Seq(Tensors(net)) /\ net[l].outputs \in Seq(Tensors(net))
          /\ IsInjective(net[l].inputs) /\ IsInjective(net[l].outputs)
          /\ Len(net[l].propDowns) <= Len(net[l].inputs)
          /\ \A i \in DOMAIN net[l].inputs :
                net[l].inputs[i] \in ToSet(net[l].outputs) => PropDown(net, l, i)
    /\ \A t \in Tensors(net) :
          LET readers == Readers(net, t)
              writers == Writers(net, t)
          IN  writers # <<>> /\ readers # <<>> =>
                 /\ Head(writers) < Head(readers) /\ Len(writers) <= Len(readers)
                 /\ \A i \in 2..Len(writers) : readers[i - 1] = writers[i]

ASSUME NetworkAssumption ==
    /\ SplitStart \in Nat \ {0}
    /\ \A net \in Networks : WellFormed(net)

Learns(net, l) ==
    net[l].learnable /\ \E i \in DOMAIN net[l].inputs : PropDown(net, l, i)

-----------------------------------------------------------------------------
(* (3-4) The tensors that need a split layer, in some order, its ID, the   *)
(* layer before it and those after it, the last one first.                 *)
SplitTensors(net) ==
    SetToSeq({t \in Tensors(net) :
        Writers(net, t) # <<>> /\ Len(Writers(net, t)) < Len(Readers(net, t))})

SplitIDs(net) == {SplitStart + i - 1 : i \in DOMAIN SplitTensors(net)}
TensorOf(net, s) == SplitTensors(net)[s - SplitStart + 1]

(* Mutant: the first layer that writes the tensor, not the last.           *)
SplitFrontFirst(net, s) == Head(Writers(net, TensorOf(net, s)))

SplitFront(net, s) == Last(Writers(net, TensorOf(net, s)))
SplitBehind(net, s) ==
    LET t == TensorOf(net, s)
    IN  SubSeq(Reverse(Readers(net, t)), 1,
               Len(Readers(net, t)) - Len(Writers(net, t)) + 1)

Split(net, t) == \E i \in DOMAIN SplitTensors(net) : SplitTensors(net)[i] = t

(* (3-1) A forward plan notifies, for each tensor it writes, the layer     *)
(* after it that works in place or the first one that reads it, unless a   *)
(* split layer does; its own backward plan if nobody reads it.             *)
ForwardTo(net, l, t) ==
    LET readers == Readers(net, t) IN
    CASE readers = <<>> -> <<Backward(l)>>
      [] readers # <<>> /\ Split(net, t) /\ l = Last(Writers(net, t)) -> <<>>
      [] OTHER ->
            LET at == IF l \in ToSet(Front(readers)) THEN Position(readers, l) ELSE 0
            IN  <<Forward(readers[at + 1])>>

SplitsAfter(net, l) == InOrder({s \in SplitIDs(net) : SplitFront(net, s) = l})

ForwardNotify(net, l) ==
    FlattenSeq([i \in DOMAIN net[l].outputs |-> ForwardTo(net, l, net[l].outputs[i])])
        \o [i \in DOMAIN SplitsAfter(net, l) |-> Forward(SplitsAfter(net, l)[i])]

(* (3-2) A backward plan notifies, for each tensor it propagates to, its   *)
(* update plan and the layer before it: of those that read the tensor, or  *)
(* else the first that writes it; and the split layers before it.          *)
BackwardTo(net, l, i) ==
    LET t       == net[l].inputs[i]
        readers == Readers(net, t)
    IN  IF ~PropDown(net, l, i) THEN <<>>
        ELSE (IF net[l].learnable THEN <<Update(l)>> ELSE <<>>) \o
             CASE Writers(net, t) = <<>> -> <<>>
               [] Writers(net, t) # <<>> /\ l # Head(readers) ->
                     <<Backward(readers[Position(readers, l) - 1])>>
               [] OTHER -> <<Backward(Head(Writers(net, t)))>>

SplitsBefore(net, l) == InOrder({s \in SplitIDs(net) : l \in ToSet(SplitBehind(net, s))})

BackwardNotify(net, l) ==
    FlattenSeq([i \in DOMAIN net[l].inputs |-> BackwardTo(net, l, i)])
        \o [i \in DOMAIN SplitsBefore(net, l) |-> Backward(SplitsBefore(net, l)[i])]

SplitForwardNotify(net, s) ==
    [i \in DOMAIN SplitBehind(net, s) |-> Forward(SplitBehind(net, s)[i])]

(* A forward and a backward plan of each layer, an update plan of those    *)
(* that learn.                                                             *)
PlanIDs(net) ==
    LET layers == DOMAIN net \cup SplitIDs(net)
    IN  {Forward(l) : l \in layers} \cup {Backward(l) : l \in layers}
            \cup {Update(l) : l \in {m \in DOMAIN net : Learns(net, m)}}

NotifyList(net, p) ==
    LET l == p \div 3 IN
    CASE p % 3 = 0 /\ l \in DOMAIN net -> ForwardNotify(net, l)
      [] p % 3 = 1 /\ l \in DOMAIN net -> BackwardNotify(net, l)
      [] p % 3 = 2                     -> <<>>
      [] p % 3 = 0 /\ l \notin DOMAIN net -> SplitForwardNotify(net, l)
      [] OTHER -> <<Backward(SplitFront(net, l))>>

(* A notification is <<who sends it, where it is in the notifyList>>.      *)
Notifications(lists) == UNION {{<<q, i>> : i \in DOMAIN lists[q]} : q \in DOMAIN lists}

(* (3-5) How often others notify a plan.                                   *)
NotificationsOf(lists, p) == {n \in Notifications(lists) : lists[n[1]][n[2]] = p}

(* (3-6) A plan without any ties is dropped.  The result: ppDefs.          *)
Build(net) ==
    LET lists == [p \in PlanIDs(net) |-> NotifyList(net, p)]
        dep   == [p \in PlanIDs(net) |-> Cardinality(NotificationsOf(lists, p))]
    IN  [p \in {q \in PlanIDs(net) : lists[q] # <<>> \/ dep[q] # 0} |->
            [notifyList |-> lists[p], depCount |-> dep[p]]]

-----------------------------------------------------------------------------
(* (3-4-3), (3-4-4) The layers as their properties say after the build: a  *)
(* split layer has an output for each layer behind it, which reads that.   *)
(* A tensor is <<its name, which output of its split layer it is>>.        *)
Renamed(net, l, t) ==
    LET split == {s \in SplitIDs(net) :
                     TensorOf(net, s) = t /\ l \in ToSet(SplitBehind(net, s))}
    IN  IF split = {} THEN <<t, 0>>
        ELSE <<t, Position(SplitBehind(net, CHOOSE s \in split : TRUE), l)>>

WithSplits(net) ==
    [l \in DOMAIN net \cup SplitIDs(net) |->
        IF l \in DOMAIN net
        THEN [inputs   |-> [i \in DOMAIN net[l].inputs |-> Renamed(net, l, net[l].inputs[i])],
              outputs  |-> [i \in DOMAIN net[l].outputs |-> <<net[l].outputs[i], 0>>],
              propDown |-> [i \in DOMAIN net[l].inputs |-> PropDown(net, l, i)]]
        ELSE [inputs   |-> << <<TensorOf(net, l), 0>> >>,
              outputs  |-> [i \in DOMAIN SplitBehind(net, l) |-> <<TensorOf(net, l), i>>],
              propDown |-> <<TRUE>>]]
=============================================================================
