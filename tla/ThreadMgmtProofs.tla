-------------------------- MODULE ThreadMgmtProofs --------------------------
(***************************************************************************)
(* TypeOK and FlagAnnouncesEvent of ThreadMgmt, for any set of threads and *)
(* any number of signals: for each of the two, what signal() does and what *)
(* wait() does, and then both together.                                    *)
(***************************************************************************)
EXTENDS ThreadMgmt, TLAPS

(* What the owner of a context does, and what happens to it, in wait().    *)
Waiting(t) == WaitStep(t) \/ WaitTimeout(t) \/ SpuriousWakeup(t)

LEMMA TwoFunctions ==
    Next <=> \E t \in Threads : Signal(t) \/ Waiting(t)
BY DEF Next, Waiting

-----------------------------------------------------------------------------
(* Types.                                                                  *)

(* signal() adds a bit that callers send, within the bound on them.        *)
LEMMA SignalTypes ==
    ASSUME TypeOK, NEW t \in Threads, Signal(t)
    PROVE  TypeOK'
<1> USE DEF TypeOK, SignalSteps
<1> CASE \E e \in Signals : SignalEvent(t, e)
  <2> PICK e \in Signals : SignalEvent(t, e)
    OBVIOUS
  <2> sent + 1 \in 0..MaxSignals
    BY ThreadsAssumption DEF SignalEvent
  <2> QED BY DEF SignalEvent
<1> CASE SignalFlag(t)
  BY DEF SignalFlag
<1> CASE SignalNotify(t)
  BY DEF SignalNotify, WaitSteps
<1> QED BY DEF Signal

(* wait() returns bits of ThreadEvent and leaves an empty word, or the one *)
(* it found.                                                               *)
LEMMA WaitTypes ==
    ASSUME TypeOK, NEW t \in Threads, Waiting(t)
    PROVE  TypeOK'
<1> USE DEF TypeOK, WaitSteps
<1>head. ASSUME WaitTestFlag(t) \/ WaitClearFlag(t) PROVE TypeOK'
  BY <1>head DEF WaitTestFlag, WaitClearFlag
<1>sleep. ASSUME WaitBlock(t) \/ WaitTimeout(t) \/ SpuriousWakeup(t) PROVE TypeOK'
  BY <1>sleep DEF WaitBlock, WaitTimeout, SpuriousWakeup
<1>exchange. ASSUME WaitExchange(t) PROVE TypeOK'
  BY <1>exchange DEF WaitExchange, Events, Signals
<1>return. ASSUME WaitReturn(t) PROVE TypeOK'
  BY <1>return DEF WaitReturn, Events, Signals
<1> QED
  BY <1>head, <1>sleep, <1>exchange, <1>return DEF Waiting, WaitStep

(* The state of every context keeps its type; in particular the Timeout    *)
(* bit never stays in an event word (ThreadMgmt::wait).                    *)
THEOREM TypeCorrect == Spec => []TypeOK
<1>init. ASSUME Init PROVE TypeOK
  BY <1>init, ThreadsAssumption DEF Init, TypeOK, SignalSteps, WaitSteps
<1>next. ASSUME TypeOK, Next PROVE TypeOK'
  BY <1>next, TwoFunctions, SignalTypes, WaitTypes
<1>idle. ASSUME TypeOK, UNCHANGED vars PROVE TypeOK'
  BY <1>idle DEF TypeOK, vars
<1> QED BY <1>init, <1>next, <1>idle, PTL DEF Spec

-----------------------------------------------------------------------------
(* The flag.  FlagAnnouncesEvent is inductive once the types are known.    *)

(* signal() owes the flag from the moment it sets the bit.                 *)
LEMMA SignalAnnounces ==
    ASSUME TypeOK, FlagAnnouncesEvent, NEW t \in Threads, Signal(t)
    PROVE  FlagAnnouncesEvent'
<1> USE DEF TypeOK, FlagAnnouncesEvent
<1> CASE \E e \in Signals : SignalEvent(t, e)
  BY DEF SignalEvent
<1> CASE SignalFlag(t)
  BY DEF SignalFlag
<1> CASE SignalNotify(t)
  BY DEF SignalNotify
<1> QED BY DEF Signal

(* wait() that lowers the flag owes the exchange, or has emptied the word. *)
LEMMA WaitAnnounces ==
    ASSUME TypeOK, FlagAnnouncesEvent, NEW t \in Threads, Waiting(t)
    PROVE  FlagAnnouncesEvent'
<1> USE DEF TypeOK, FlagAnnouncesEvent
<1>test. ASSUME WaitTestFlag(t) PROVE FlagAnnouncesEvent'
  BY <1>test DEF WaitTestFlag
<1>lower. ASSUME WaitClearFlag(t) PROVE FlagAnnouncesEvent'
  BY <1>lower DEF WaitClearFlag
<1>sleep. ASSUME WaitBlock(t) \/ WaitTimeout(t) \/ SpuriousWakeup(t)
          PROVE  FlagAnnouncesEvent'
  BY <1>sleep DEF WaitBlock, WaitTimeout, SpuriousWakeup
<1>take. ASSUME WaitExchange(t) \/ WaitReturn(t) PROVE FlagAnnouncesEvent'
  BY <1>take DEF WaitExchange, WaitReturn
<1> QED
  BY <1>test, <1>lower, <1>sleep, <1>take DEF Waiting, WaitStep

(* A signalled bit is always announced by the flag (ThreadMgmt::signal     *)
(* and the unlocked test at the head of ThreadMgmt::wait).                 *)
THEOREM FlagSafe == Spec => []FlagAnnouncesEvent
<1>init. ASSUME Init PROVE FlagAnnouncesEvent
  BY <1>init DEF Init, FlagAnnouncesEvent
<1>next. ASSUME TypeOK, FlagAnnouncesEvent, Next PROVE FlagAnnouncesEvent'
  BY <1>next, TwoFunctions, SignalAnnounces, WaitAnnounces
<1>idle. ASSUME FlagAnnouncesEvent, UNCHANGED vars PROVE FlagAnnouncesEvent'
  BY <1>idle DEF FlagAnnouncesEvent, vars
<1> QED BY <1>init, <1>next, <1>idle, TypeCorrect, PTL DEF Spec
=============================================================================
