----------------------------- MODULE ThreadMgmt -----------------------------
(***************************************************************************)
(* The wake-up primitive of the server, core/ThreadMgmt.cpp: every worker  *)
(* thread owns a ThreadContext (a mutex, a condition variable, a flag and  *)
(* an atomic word of event bits); anybody may signal() it, its owner       *)
(* wait()s on it.  wait() looks at the flag without the mutex, so the      *)
(* steps of the two functions are modelled one shared access at a time.    *)
(***************************************************************************)
EXTENDS Naturals

CONSTANTS
    Threads,     \* the thread IDs of contextArray
    Untimed,     \* the threads that call wait() with timeout 0
    MaxSignals   \* bound: how many signals the callers send in all

ASSUME ThreadsAssumption == Untimed \subseteq Threads /\ MaxSignals \in Nat

(* The bits of ThreadEvent.  An event word is a set of bits: fetch_or is   *)
(* union, exchange(0) empties the set and yields what it held.             *)
Wakeup    == "Wakeup"
Timeout   == "Timeout"
Halt      == "Halt"
FinishJob == "FinishJob"
Events    == {Wakeup, Timeout, Halt, FinishJob}

(* Timeout is set by wait() alone; no caller signals it.                   *)
Signals == Events \ {Timeout}

VARIABLES
    flag,        \* ThreadContext::flag
    event,       \* ThreadContext::event
    signaller,   \* the step of the signal() that holds the mutex, or "none"
    waiter,      \* where the owner of the context is in wait()
    returned,    \* what its last wait() returned
    sent         \* signals sent so far (bounds the callers)

vars == <<flag, event, signaller, waiter, returned, sent>>

SignalSteps == {"none", "setFlag", "notify"}
WaitSteps == {"outside", "clearFlag", "exchange", "lock", "blocked",
              "notified", "timedOut"}

(* The Timeout bit is or-ed in and taken out again under one hold of the   *)
(* mutex, so no thread but the owner ever finds it in the word.            *)
TypeOK ==
    /\ flag \in [Threads -> BOOLEAN]
    /\ event \in [Threads -> SUBSET Signals]
    /\ signaller \in [Threads -> SignalSteps]
    /\ waiter \in [Threads -> WaitSteps]
    /\ returned \in [Threads -> SUBSET Events]
    /\ sent \in 0..MaxSignals

(* contextArray as init() leaves it, all events 0.  (init() does not set   *)
(* flag: "new ThreadContext()" value-initialises it to false.)             *)
Init ==
    /\ flag = [t \in Threads |-> FALSE]
    /\ event = [t \in Threads |-> {}]
    /\ signaller = [t \in Threads |-> "none"]
    /\ waiter = [t \in Threads |-> "outside"]
    /\ returned = [t \in Threads |-> {}]
    /\ sent = 0

-----------------------------------------------------------------------------
(* signal(t, e) and each turn of signalAll(e): under the context's mutex,  *)
(* or the bit into the event word, raise the flag, notify.                 *)

SignalEvent(t, e) ==
    /\ signaller[t] = "none"
    /\ sent < MaxSignals
    /\ sent' = sent + 1
    /\ event' = [event EXCEPT ![t] = @ \cup {e}]
    /\ signaller' = [signaller EXCEPT ![t] = "setFlag"]
    /\ UNCHANGED <<flag, waiter, returned>>

(* Mutant: raise the flag of a sleeping thread only.                       *)
SignalFlagIfAsleep(t) ==
    /\ signaller[t] = "setFlag"
    /\ flag' = [flag EXCEPT ![t] = @ \/ waiter[t] = "blocked"]
    /\ signaller' = [signaller EXCEPT ![t] = "notify"]
    /\ UNCHANGED <<event, waiter, returned, sent>>

SignalFlag(t) ==
    /\ signaller[t] = "setFlag"
    /\ flag' = [flag EXCEPT ![t] = TRUE]
    /\ signaller' = [signaller EXCEPT ![t] = "notify"]
    /\ UNCHANGED <<event, waiter, returned, sent>>

(* notify_one wakes the owner if it is in cv.wait at that moment, and      *)
(* nobody if it is not; the mutex is released at the end of the scope.     *)
SignalNotify(t) ==
    /\ signaller[t] = "notify"
    /\ waiter' = [waiter EXCEPT ![t] = IF @ = "blocked" THEN "notified" ELSE @]
    /\ signaller' = [signaller EXCEPT ![t] = "none"]
    /\ UNCHANGED <<flag, event, returned, sent>>

-----------------------------------------------------------------------------
(* wait(t, timeout) by the owner of the context.                           *)

(* The unlocked test of the flag.                                          *)
WaitTestFlag(t) ==
    /\ waiter[t] = "outside"
    /\ waiter' = [waiter EXCEPT ![t] = IF flag[t] THEN "clearFlag" ELSE "lock"]
    /\ UNCHANGED <<flag, event, signaller, returned, sent>>

WaitClearFlag(t) ==
    /\ waiter[t] = "clearFlag"
    /\ flag' = [flag EXCEPT ![t] = FALSE]
    /\ waiter' = [waiter EXCEPT ![t] = "exchange"]
    /\ UNCHANGED <<event, signaller, returned, sent>>

(* An event word already emptied by the wait before is reported as Wakeup. *)
WaitExchange(t) ==
    /\ waiter[t] = "exchange"
    /\ returned' = [returned EXCEPT ![t] =
                        IF event[t] = {} THEN {Wakeup} ELSE event[t]]
    /\ event' = [event EXCEPT ![t] = {}]
    /\ waiter' = [waiter EXCEPT ![t] = "outside"]
    /\ UNCHANGED <<flag, signaller, sent>>

(* Take the mutex and go to sleep, which releases it again: cv.wait has no *)
(* predicate, so nothing is looked at in between.                          *)
WaitBlock(t) ==
    /\ waiter[t] = "lock"
    /\ signaller[t] = "none"
    /\ waiter' = [waiter EXCEPT ![t] = "blocked"]
    /\ UNCHANGED <<flag, event, signaller, returned, sent>>

(* Mutant: the Timeout bit is or-ed in before the mutex is taken again.    *)
WaitTimeoutMarksEvent(t) ==
    /\ waiter[t] = "blocked"
    /\ t \notin Untimed
    /\ event' = [event EXCEPT ![t] = @ \cup {Timeout}]
    /\ waiter' = [waiter EXCEPT ![t] = "timedOut"]
    /\ UNCHANGED <<flag, signaller, returned, sent>>

WaitTimeout(t) ==
    /\ waiter[t] = "blocked"
    /\ t \notin Untimed
    /\ waiter' = [waiter EXCEPT ![t] = "timedOut"]
    /\ UNCHANGED <<flag, event, signaller, returned, sent>>

(* A condition variable may wake its waiter for no reason.                 *)
SpuriousWakeup(t) ==
    /\ waiter[t] = "blocked"
    /\ waiter' = [waiter EXCEPT ![t] = "notified"]
    /\ UNCHANGED <<flag, event, signaller, returned, sent>>

(* Mutant: return Timeout at once, leaving the event word as it is.        *)
WaitReturnOnTimeout(t) ==
    /\ waiter[t] \in {"notified", "timedOut"}
    /\ signaller[t] = "none"
    /\ flag' = [flag EXCEPT ![t] = FALSE]
    /\ returned' = [returned EXCEPT ![t] =
                        IF waiter[t] = "timedOut" THEN {Timeout} ELSE event[t]]
    /\ event' = [event EXCEPT ![t] = IF waiter[t] = "timedOut" THEN @ ELSE {}]
    /\ waiter' = [waiter EXCEPT ![t] = "outside"]
    /\ UNCHANGED <<signaller, sent>>

(* The mutex is taken again; the rest of wait() runs under it.             *)
WaitReturn(t) ==
    /\ waiter[t] \in {"notified", "timedOut"}
    /\ signaller[t] = "none"
    /\ flag' = [flag EXCEPT ![t] = FALSE]
    /\ returned' = [returned EXCEPT ![t] =
                        IF waiter[t] = "timedOut" THEN event[t] \cup {Timeout}
                                                   ELSE event[t]]
    /\ event' = [event EXCEPT ![t] = {}]
    /\ waiter' = [waiter EXCEPT ![t] = "outside"]
    /\ UNCHANGED <<signaller, sent>>

-----------------------------------------------------------------------------
Signal(t) ==
    \/ \E e \in Signals : SignalEvent(t, e)
    \/ SignalFlag(t)
    \/ SignalNotify(t)

(* What the owner runs on its own once it calls wait().                    *)
WaitStep(t) ==
    \/ WaitTestFlag(t)
    \/ WaitClearFlag(t)
    \/ WaitExchange(t)
    \/ WaitBlock(t)
    \/ WaitReturn(t)

Next ==
    \E t \in Threads :
        Signal(t) \/ WaitStep(t) \/ WaitTimeout(t) \/ SpuriousWakeup(t)

Spec == Init /\ [][Next]_vars

(* A signal() once begun is finished, a thread goes on with its wait() and *)
(* calls it again, and a timed wait ends when its time is up.  Nobody owes *)
(* a signal, and nothing may count on a spurious wakeup.                   *)
Fairness ==
    \A t \in Threads :
        /\ WF_vars(SignalFlag(t))
        /\ WF_vars(SignalNotify(t))
        /\ WF_vars(WaitStep(t))
        /\ WF_vars(WaitTimeout(t))

FairSpec == Spec /\ Fairness

-----------------------------------------------------------------------------
(* Properties.                                                             *)

(* An event bit is never left behind with the flag down: unless signal()   *)
(* is about to raise the flag or the owner about to empty the word, the    *)
(* flag announces every pending bit, so the unlocked test at the head of   *)
(* wait() cannot overlook one that was there before.  It depends on        *)
(* wait() clearing the flag before it exchanges the word.                  *)
FlagAnnouncesEvent ==
    \A t \in Threads :
        event[t] # {} =>
            flag[t] \/ signaller[t] = "setFlag" \/ waiter[t] = "exchange"

(* A bit signalled to a thread that waits with a timeout is taken by one   *)
(* of its waits: for those threads a lost notification only costs time.    *)
EventTaken ==
    \A t \in Threads \ Untimed : \A e \in Signals :
        (e \in event[t]) ~> (e \notin event[t])
=============================================================================
