--------------------------- MODULE ThreadContexts ---------------------------
(***************************************************************************)
(* The ThreadContexts as the modules built on them use them: signal() and  *)
(* the steps of wait() of core/ThreadMgmt.cpp.                             *)
(*                                                                         *)
(* signal() is one step here: all it does, it does under the context's     *)
(* mutex, and what an overlap with the unlocked head of wait() yields, a   *)
(* signal() before or after that step yields too.  (ThreadMgmt has both    *)
(* functions in steps.)                                                    *)
(***************************************************************************)

VARIABLES
    flag, event,     \* of each thread's ThreadContext
    wait             \* where the thread is in ThreadMgmt::wait

contextVars == <<flag, event, wait>>

WaitSteps == {"out", "exchange", "lock", "blocked", "notified"}

(* The flag is looked at by the test alone: raised for a thread past it,   *)
(* it would be lowered unseen, so it stays down there.                     *)
Signal(t, e) ==
    /\ flag' = [flag EXCEPT ![t] = wait[t] \in {"out", "exchange"}]
    /\ event' = [event EXCEPT ![t] = @ \cup {e}]
    /\ wait' = [wait EXCEPT ![t] = IF @ = "blocked" THEN "notified" ELSE @]

(* The flag is tested without the mutex: up, it is lowered and the event   *)
(* word taken; down, the thread goes for the mutex and for cv.wait.        *)
TestFlag(t) ==
    /\ wait[t] = "out"
    /\ wait' = [wait EXCEPT ![t] = IF flag[t] THEN "exchange" ELSE "lock"]
    /\ flag' = [flag EXCEPT ![t] = FALSE]
    /\ UNCHANGED event

Block(t) ==
    /\ wait[t] = "lock"
    /\ wait' = [wait EXCEPT ![t] = "blocked"]
    /\ UNCHANGED <<flag, event>>

(* cv.wait has no predicate.                                               *)
WakeForNoReason(t) ==
    /\ wait[t] = "blocked"
    /\ wait' = [wait EXCEPT ![t] = "notified"]
    /\ UNCHANGED <<flag, event>>

(* What wait() returns.  An event word that an earlier wait emptied reads  *)
(* Wakeup at the head, and nothing at the end, of it.  (A signal() that    *)
(* comes between timeout and mutex might as well have come before cv.wait: *)
(* both leave its bit next to Timeout.)                                    *)
Returned(t) ==
    CASE wait[t] = "exchange" -> IF event[t] = {} THEN {"Wakeup"} ELSE event[t]
      [] wait[t] = "notified" -> event[t]
      [] OTHER                -> event[t] \cup {"Timeout"}

(* The end of a wait with a timeout, or without.                           *)
Returns(t, timed) ==
    /\ wait[t] \in {"exchange", "notified"} \/ (timed /\ wait[t] = "blocked")
    /\ event' = [event EXCEPT ![t] = {}]
    /\ wait' = [wait EXCEPT ![t] = "out"]
    /\ UNCHANGED flag
=============================================================================
