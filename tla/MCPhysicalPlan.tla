--------------------------- MODULE MCPhysicalPlan ---------------------------
(* PhysicalPlan for TLC: small networks with the shapes of the             *)
(* repository's, and scripts of requests.                                  *)
EXTENDS PhysicalPlan

Layer(inputs, outputs, learnable, propDowns) ==
    [inputs |-> inputs, outputs |-> outputs, learnable |-> learnable,
     propDowns |-> propDowns, defaultPropDown |-> <<>>]

DataLayer == Layer(<<>>, <<"data", "label">>, FALSE, <<>>)

(* SoftmaxWithLoss does not propagate to the label, by its type.           *)
LossLayer(x) ==
    [Layer(<<x, "label">>, <<"loss">>, FALSE, <<>>) EXCEPT !.defaultPropDown = <<TRUE, FALSE>>]

(* plan/test/PlanBuilderTest.cpp.                                          *)
BuilderTest ==
    [l \in {0, 1, 2, 3, 6} |->
        CASE l = 0 -> DataLayer
          [] l = 1 -> Layer(<<"data">>, <<"conv1">>, TRUE, <<>>)
          [] l = 2 -> Layer(<<"conv1">>, <<"conv1">>, FALSE, <<>>)
          [] l = 3 -> Layer(<<"conv1">>, <<"fc1">>, TRUE, <<>>)
          [] OTHER -> LossLayer("fc1")]

(* The end of LeNet (lenet_train.json): a layer that works in place, and   *)
(* accuracy layers that do not propagate behind two split layers.          *)
LeNet ==
    [l \in {0, 1, 2, 3, 4, 5} |->
        CASE l = 0 -> DataLayer
          [] l = 1 -> Layer(<<"data">>, <<"ip1">>, TRUE, <<>>)
          [] l = 2 -> Layer(<<"ip1">>, <<"ip1">>, FALSE, <<>>)
          [] l = 3 -> Layer(<<"ip1">>, <<"ip2">>, TRUE, <<>>)
          [] l = 4 -> LossLayer("ip2")
          [] OTHER -> Layer(<<"ip2", "label">>, <<"accuracy">>, FALSE, <<FALSE, FALSE>>)]

(* Two branches over the output of a layer that works in place (SSD,       *)
(* Faster R-CNN).                                                          *)
Branches ==
    [l \in {0, 1, 2, 3, 4, 5, 6} |->
        CASE l = 0 -> DataLayer
          [] l = 1 -> Layer(<<"data">>, <<"conv1">>, TRUE, <<FALSE>>)
          [] l = 2 -> Layer(<<"conv1">>, <<"conv1">>, FALSE, <<>>)
          [] l = 3 -> Layer(<<"conv1">>, <<"left">>, TRUE, <<>>)
          [] l = 4 -> Layer(<<"conv1">>, <<"right">>, TRUE, <<>>)
          [] l = 5 -> Layer(<<"left", "right">>, <<"sum">>, FALSE, <<>>)
          [] OTHER -> LossLayer("sum")]

(* A branch that the loss reads but does not propagate to (SSD: the prior  *)
(* boxes, which are concatenated).                                         *)
PriorBox ==
    [l \in {0, 1, 2, 3, 4, 5} |->
        CASE l = 0 -> DataLayer
          [] l = 1 -> Layer(<<"data">>, <<"conv1">>, TRUE, <<>>)
          [] l = 2 -> Layer(<<"conv1">>, <<"conf">>, TRUE, <<>>)
          [] l = 3 -> Layer(<<"conv1", "data">>, <<"prior">>, FALSE, <<>>)
          [] l = 4 -> Layer(<<"prior">>, <<"priors">>, FALSE, <<>>)
          [] OTHER -> Layer(<<"conf", "priors", "label">>, <<"loss">>, FALSE,
                            <<TRUE, FALSE, FALSE>>)]

SomeNetworks == {BuilderTest, LeNet, Branches, PriorBox}

(* A client that resets a network before it runs it again, as Network.h    *)
(* asks for; mini batches need no reset.                                   *)
ResetsBeforeRun ==
    {<<RunNetwork, ResetNetwork, RunNetwork>>,
     <<ResetNetwork, RunNetwork>>,
     <<RunNetwork, RunMiniBatch(1), RunMiniBatch(0)>>,
     <<RunMiniBatch(0), RunMiniBatch(2), RunMiniBatch(2)>>}
=============================================================================
