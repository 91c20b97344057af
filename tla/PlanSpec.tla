------------------------------ MODULE PlanSpec ------------------------------
(***************************************************************************)
(* What running a network means, without the counters, the queue and the   *)
(* threads of PhysicalPlan: in a mini batch every plan runs once, after    *)
(* all plans it depends on; then comes the next mini batch of the epoch,   *)
(* or the first one of the next epoch.                                     *)
(***************************************************************************)
EXTENDS Integers

VARIABLES
    plans,           \* the plans of a mini batch
    needs,           \* needs[p]: the plans that notify p
    batch,           \* <<epoch, mini batch>>
    batchCount,      \* mini batches per epoch
    ran              \* the plans that ran in this mini batch

vars == <<plans, needs, batch, batchCount, ran>>

Init == batch = <<0, 0>> /\ ran = {}

Run(p) ==
    /\ p \in plans \ ran
    /\ needs[p] \subseteq ran
    /\ ran' = ran \cup {p}
    /\ UNCHANGED <<batch, batchCount>>

NextBatch ==
    /\ ran = plans
    /\ ran' = {}
    /\ batch' = IF batch[2] = batchCount - 1 THEN <<batch[1] + 1, 0>>
                                             ELSE <<batch[1], batch[2] + 1>>
    /\ UNCHANGED batchCount

(* A request starts the network over, from the first mini batch or for one *)
(* mini batch.                                                             *)
Restart ==
    /\ ran' = {}
    /\ \/ batch' = <<0, 0>> /\ UNCHANGED batchCount
       \/ batch' = <<0, batchCount' - 1>>

Next ==
    /\ NextBatch \/ Restart \/ \E p \in plans : Run(p)
    /\ UNCHANGED <<plans, needs>>

Spec == Init /\ [][Next]_vars
=============================================================================
