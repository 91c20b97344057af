----------------------------- MODULE BrokerSpec -----------------------------
(***************************************************************************)
(* What the broker promises the session threads, without its locks, its    *)
(* maps and its ad-hoc sessions: a thread that asked for the reply of a    *)
(* job gets that reply, once and not before it is published, however the   *)
(* threads overlap.                                                        *)
(***************************************************************************)
EXTENDS Sequences

CONSTANTS Jobs, Subscribers, Nobody

VARIABLES
    asked,       \* the jobs whose reply a thread has asked for
    published,   \* the jobs whose reply was published
    awaited,     \* the job whose reply a thread has asked for and not got
    received     \* the jobs whose reply was handed to a thread, in order

vars == <<asked, published, awaited, received>>

Init ==
    /\ asked = {}
    /\ published = {}
    /\ awaited = [s \in Subscribers |-> Nobody]
    /\ received = [s \in Subscribers |-> <<>>]

Ask(s, j) ==
    /\ awaited[s] = Nobody
    /\ j \notin asked
    /\ asked' = asked \cup {j}
    /\ awaited' = [awaited EXCEPT ![s] = j]
    /\ UNCHANGED <<published, received>>

Publish(j) ==
    /\ j \in asked \ published
    /\ published' = published \cup {j}
    /\ UNCHANGED <<asked, awaited, received>>

(* The reply a thread gets is the one it awaits, and then it awaits none.  *)
Deliver(s) ==
    /\ awaited[s] \in published
    /\ received' = [received EXCEPT ![s] = Append(@, awaited[s])]
    /\ awaited' = [awaited EXCEPT ![s] = Nobody]
    /\ UNCHANGED <<asked, published>>

Next ==
    \/ \E s \in Subscribers, j \in Jobs : Ask(s, j)
    \/ \E j \in Jobs : Publish(j)
    \/ \E s \in Subscribers : Deliver(s)

Spec == Init /\ [][Next]_vars
=============================================================================
