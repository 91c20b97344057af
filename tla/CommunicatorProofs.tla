------------------------- MODULE CommunicatorProofs -------------------------
(***************************************************************************)
(* Proofs about Communicator, for any number of sessions, descriptors and  *)
(* connections: sessions are conserved and a thread serves the socket it   *)
(* was given, whatever stray wake-ups, releases and halts come between.    *)
(***************************************************************************)
EXTENDS Communicator, QueueLemmas, FiniteSetTheorems

(* The steps by what they say of a session's socket: before the thread     *)
(* serves it or past its end, while it closes it, when it has none.        *)
Resting  == {"wait", "fallAsleep", "asleep", "count", "start", "ended"}
Closing  == {"clearActive", "clearRunning"}
Released == {"uncount", "free"}

TypeInv ==
    /\ fd \in [Sessions -> Fds \cup {None}]
    /\ pc \in [Sessions -> SessionSteps]
    /\ socket \in [Fds -> Conns \cup {None}]
    /\ freeSessIdList \in Seq(Sessions)
    /\ backlog \in Seq(Conns)
    /\ inbox \in [Conns -> Messages \cup {None}]

(* A newcomer that select() saw stays in the backlog until it is accepted. *)
NewcomerInv ==
    ~aborted /\ newcomer /\ listener \in {"check", "scan", "scanRunning",
        "scanWake", "scanNotify", "accept"} => backlog # <<>>

(* What is in the free list rests without a socket; what is not has one,   *)
(* unless it is just released.                                             *)
FreeInv ==
    /\ IsInjective(freeSessIdList)
    /\ \A s \in Sessions : ~Held(s) => fd[s] = None /\ pc[s] \in Resting

HeldInv ==
    \A s \in Sessions :
        /\ Held(s) /\ pc[s] \notin Released => fd[s] # None
        /\ pc[s] \in Released => fd[s] = None

(* Sockets that are not being closed are open and belong to one session.   *)
OpenInv ==
    \A s \in Sessions : pc[s] \notin Closing /\ fd[s] # None => socket[fd[s]] # None

OwnInv ==
    \A s, t \in Sessions :
        s # t /\ pc[s] \notin Closing /\ pc[t] \notin Closing /\ fd[s] = fd[t] =>
            fd[s] = None

(* No open socket is forgotten, but for that of a failed accept.           *)
SocketInv ==
    ~aborted => \A f \in Fds : socket[f] # None =>
        \E s \in Sessions : fd[s] = f /\ pc[s] \notin Closing

SessionInv ==
    /\ TypeInv
    /\ NewcomerInv
    /\ FreeInv
    /\ HeldInv
    /\ OpenInv
    /\ OwnInv
    /\ SocketInv

-----------------------------------------------------------------------------

LEMMA StepNames ==
    /\ Resting \subseteq SessionSteps /\ Closing \subseteq SessionSteps
    /\ Released \subseteq SessionSteps
    /\ Resting \cap Closing = {} /\ Resting \cap Released = {}
    /\ Closing \cap Released = {}
BY DEF Resting, Closing, Released, SessionSteps

LEMMA InitHeld ==
    ASSUME Init
    PROVE  /\ freeSessIdList \in Seq(Sessions) /\ IsInjective(freeSessIdList)
           /\ \A s \in Sessions : ~Held(s)
<1>1. SessCount \in Nat \ {0} /\ Sessions = 0..(SessCount - 1)
  BY CommunicatorAssumption DEF Sessions
<1>2. /\ freeSessIdList \in Seq(Sessions)
      /\ DOMAIN freeSessIdList = 1..SessCount
      /\ \A i \in 1..SessCount : freeSessIdList[i] = i - 1
  BY <1>1 DEF Init
<1>3. IsInjective(freeSessIdList)
  BY <1>1, <1>2 DEF IsInjective
<1>4. ASSUME NEW s \in Sessions PROVE s \in ToSet(freeSessIdList)
  <2>1. s + 1 \in 1..SessCount /\ freeSessIdList[s + 1] = s
    BY <1>1, <1>2
  <2>2. QED BY <1>2, <2>1 DEF ToSet
<1>5. QED BY <1>2, <1>3, <1>4 DEF Held

LEMMA InitSession == Init => SessionInv
<1>1. SUFFICES ASSUME Init PROVE SessionInv
  OBVIOUS
<1>2. \A s \in Sessions : ~Held(s) /\ fd[s] = None /\ pc[s] = "wait"
  BY <1>1, InitHeld DEF Init
<1>3. TypeInv
  <2>1. backlog \in Seq(Conns) /\ inbox \in [Conns -> Messages \cup {None}]
    BY <1>1 DEF Init
  <2>2. QED BY <1>1, <2>1, InitHeld DEF Init, TypeInv, SessionSteps
<1>4. NewcomerInv /\ FreeInv /\ HeldInv /\ OpenInv /\ OwnInv /\ SocketInv
  BY <1>1, <1>2, InitHeld
     DEF Init, NewcomerInv, FreeInv, HeldInv, OpenInv, OwnInv, SocketInv,
         Resting, Released
<1>5. QED BY <1>3, <1>4 DEF SessionInv

(* Most steps move threads between steps that say the same of a socket, and *)
(* leave sockets and sessions alone.  A thread that goes on to serve has    *)
(* one.                                                                     *)
Moved ==
    /\ UNCHANGED <<fd, socket, freeSessIdList>>
    /\ pc' \in [Sessions -> SessionSteps]
    /\ \A s \in Sessions :
          /\ pc'[s] \in Closing <=> pc[s] \in Closing
          /\ pc'[s] \in Released <=> pc[s] \in Released
          /\ pc[s] \in Resting /\ fd[s] = None => pc'[s] \in Resting
    /\ aborted => aborted'

(* ... and messages and newcomers stay what they are.                      *)
Listening ==
    /\ backlog' \in Seq(Conns)
    /\ inbox' \in [Conns -> Messages \cup {None}]
    /\ NewcomerInv'

LEMMA MovedKeeps == SessionInv /\ Moved /\ Listening => SessionInv'
<1>1. SUFFICES ASSUME SessionInv, Moved, Listening PROVE SessionInv'
  OBVIOUS
<1>2. \A s \in Sessions : Held(s)' <=> Held(s)
  BY <1>1 DEF Moved, Held
<1>3. TypeInv' /\ NewcomerInv'
  BY <1>1 DEF SessionInv, TypeInv, Moved, Listening
<1>4. FreeInv'
  BY <1>1, <1>2 DEF SessionInv, FreeInv, Moved
<1>5. HeldInv'
  BY <1>1, <1>2 DEF SessionInv, HeldInv, Moved
<1>6. OpenInv'
  BY <1>1 DEF SessionInv, OpenInv, Moved
<1>7. OwnInv'
  BY <1>1 DEF SessionInv, OwnInv, Moved
<1>8. SocketInv'
  BY <1>1 DEF SessionInv, SocketInv, Moved
<1>9. QED BY <1>3, <1>4, <1>5, <1>6, <1>7, <1>8 DEF SessionInv

LEMMA SameBacklog ==
    /\ SessionInv
    /\ UNCHANGED <<backlog, newcomer, listener>> /\ (aborted => aborted')
    /\ inbox' \in [Conns -> Messages \cup {None}]
    => Listening
BY DEF SessionInv, TypeInv, NewcomerInv, Listening

-----------------------------------------------------------------------------
(* Steps that move one thread, or none.                                    *)

LEMMA ClientStep ==
    SessionInv /\ (\E c \in Conns : Client(c)) => SessionInv'
<1>1. SUFFICES ASSUME SessionInv, NEW c \in Conns, Client(c) PROVE SessionInv'
  OBVIOUS
<1>2. UNCHANGED <<fd, pc, socket, freeSessIdList, aborted, newcomer, listener>>
  BY <1>1 DEF Client, Connect, Send, sessVars, listenerVars
<1>3. backlog' = backlog \/ backlog' = Append(backlog, c)
  BY <1>1 DEF Client, Connect, Send
<1>4. backlog' \in Seq(Conns) /\ (backlog # <<>> => backlog' # <<>>)
  <2>1. backlog \in Seq(Conns)
    BY <1>1 DEF SessionInv, TypeInv
  <2>2. Append(backlog, c) \in Seq(Conns) /\ Append(backlog, c) # <<>>
    BY <2>1, AppendProperties
  <2>3. QED BY <1>3, <2>1, <2>2
<1>5. Moved
  BY <1>1, <1>2 DEF Moved, SessionInv, TypeInv
<1>6. inbox' \in [Conns -> Messages \cup {None}]
  <2>1. PICK msg \in Messages : inbox' = [inbox EXCEPT ![c] = msg]
    <3>1. "Welcome" \in Messages
      BY DEF Messages
    <3>2. CASE Connect(c)
      BY <3>1, <3>2 DEF Connect
    <3>3. CASE \E m \in Messages \ {"Welcome"} : Send(c, m)
      BY <3>3 DEF Send
    <3>4. QED BY <1>1, <3>2, <3>3 DEF Client
  <2>2. QED BY <1>1, <2>1 DEF SessionInv, TypeInv
<1>7. Listening
  BY <1>1, <1>2, <1>4, <1>6 DEF Listening, SessionInv, NewcomerInv
<1>8. QED BY <1>1, <1>5, <1>7, MovedKeeps

(* The steps of the listener other than Accept.                            *)
LEMMA ListenerStep ==
    SessionInv /\ (Select \/ CheckCounts \/ ScanNext \/ ScanRunning
                   \/ ListenerSetActive \/ ListenerNotify) => SessionInv'
<1>1. SUFFICES ASSUME SessionInv,
                      Select \/ CheckCounts \/ ScanNext \/ ScanRunning
                          \/ ListenerSetActive \/ ListenerNotify
               PROVE  SessionInv'
  OBVIOUS
<1>2. UNCHANGED <<fd, socket, freeSessIdList, backlog, inbox, aborted>>
  BY <1>1 DEF Select, CheckCounts, ScanNext, ScanRunning, ListenerSetActive,
              ListenerNotify, sessVars, netVars
<1>3. pc' = pc \/ pc' = [pc EXCEPT ![target] = IF @ = "asleep" THEN "wait" ELSE @]
  BY <1>1 DEF Select, CheckCounts, ScanNext, ScanRunning, ListenerSetActive,
              ListenerNotify, Notify, sessVars
<1>4. pc' \in [Sessions -> SessionSteps]
      /\ \A s \in Sessions : pc'[s] = pc[s] \/ (pc[s] = "asleep" /\ pc'[s] = "wait")
  BY <1>1, <1>3 DEF SessionInv, TypeInv, SessionSteps
<1>5. Moved
  BY <1>2, <1>4 DEF Moved, Resting, Closing, Released
<1>6. NewcomerInv'
  BY <1>1, <1>2 DEF SessionInv, NewcomerInv, Select, CheckCounts, ScanNext,
                    ScanRunning, ListenerSetActive, ListenerNotify, ListenerGoto
<1>7. Listening
  BY <1>1, <1>2, <1>6 DEF Listening, SessionInv, TypeInv
<1>8. QED BY <1>1, <1>5, <1>7, MovedKeeps

(* The steps of a session thread other than those that release its socket  *)
(* or itself.                                                              *)
ThreadMoves(s) ==
    \/ Wait(s) \/ Sleep(s) \/ CountRunning(s) \/ StartSession(s) \/ Receive(s)
    \/ SendJobReply(s) \/ HaltTest(s) \/ HaltSetActive(s)
    \/ ClearActive(s) \/ UncountActive(s)

LEMMA ThreadStep ==
    ASSUME NEW s \in Sessions, SessionInv, ~aborted, ThreadMoves(s)
    PROVE  SessionInv'
<1>1. UNCHANGED <<fd, socket, freeSessIdList, backlog, newcomer, listener>>
  BY DEF ThreadMoves, Wait, Sleep, CountRunning, StartSession, Receive, SendJobReply,
         HaltTest, HaltSetActive, ClearActive, UncountActive, listenerVars, netVars
<1>2. /\ pc \in [Sessions -> SessionSteps]
      /\ \A step \in SessionSteps : Goto(s, step) =>
            /\ pc' \in [Sessions -> SessionSteps]
            /\ pc'[s] = step
            /\ \A t \in Sessions \ {s} : pc'[t] = pc[t]
  BY DEF SessionInv, TypeInv, Goto
<1>3. /\ pc' \in [Sessions -> SessionSteps]
      /\ \A t \in Sessions \ {s} : pc'[t] = pc[t]
      /\ pc'[s] \in Closing <=> pc[s] \in Closing
      /\ pc'[s] \in Released <=> pc[s] \in Released
      /\ pc[s] \in Resting /\ fd[s] = None => pc'[s] \in Resting
  <2>1. CASE Wait(s)
    BY <1>2, <2>1 DEF Wait, SessionSteps, Resting, Closing, Released
  <2>2. CASE CountRunning(s)
    BY <1>2, <2>2 DEF CountRunning, SessionSteps, Resting, Closing, Released
  <2>3. CASE StartSession(s)
    BY <1>2, <2>3 DEF StartSession, SessionSteps, Resting, Closing, Released
  <2>4. CASE Receive(s)
    <3>1. pc[s] = "serve" /\ socket[fd[s]] \in Conns
      <4>1. pc[s] = "serve"
        BY <2>4 DEF Receive
      <4>2. fd[s] # None /\ socket[fd[s]] # None
        BY <4>1 DEF SessionInv, FreeInv, HeldInv, OpenInv, Resting, Closing, Released
      <4>3. QED BY <4>1, <4>2 DEF SessionInv, TypeInv
    <3>2. inbox[socket[fd[s]]] \in Messages
      BY <2>4, <3>1 DEF Receive, SessionInv, TypeInv
    <3>3. \E step \in {"serve", "subscribe", "releaseFd", "haltTest"} : Goto(s, step)
      BY <2>4, <3>2 DEF Receive, Messages
    <3>4. PICK step \in {"serve", "subscribe", "releaseFd", "haltTest"} : Goto(s, step)
      BY <3>3
    <3>5. step \in SessionSteps
      BY DEF SessionSteps
    <3>6. QED
      BY <1>2, <3>1, <3>4, <3>5 DEF Resting, Closing, Released
  <2>5. CASE SendJobReply(s)
    BY <1>2, <2>5 DEF SendJobReply, SessionSteps, Resting, Closing, Released
  <2>6. CASE HaltTest(s)
    BY <1>2, <2>6 DEF HaltTest, SessionSteps, Resting, Closing, Released
  <2>7. CASE HaltSetActive(s)
    BY <1>2, <2>7 DEF HaltSetActive, SessionSteps, Resting, Closing, Released
  <2>8. CASE ClearActive(s)
    BY <1>2, <2>8 DEF ClearActive, SessionSteps, Resting, Closing, Released
  <2>9. CASE UncountActive(s)
    BY <1>2, <2>9 DEF UncountActive, SessionSteps, Resting, Closing, Released
  <2>10. CASE Sleep(s)
    BY <1>2, <2>10 DEF Sleep, SessionSteps, Resting, Closing, Released
  <2>11. QED
    BY <2>1, <2>2, <2>3, <2>4, <2>5, <2>6, <2>7, <2>8, <2>9, <2>10 DEF ThreadMoves
<1>4. Moved
  BY <1>1, <1>3 DEF Moved
<1>5. inbox' \in [Conns -> Messages \cup {None}]
  BY DEF ThreadMoves, Wait, Sleep, CountRunning, StartSession, Receive, SendJobReply,
         HaltTest, HaltSetActive, ClearActive, UncountActive, netVars, SessionInv,
         TypeInv
<1>6. Listening
  BY <1>1, <1>5, SameBacklog
<1>7. QED BY <1>4, <1>6, MovedKeeps

(* halt() wakes up another thread while its own goes on.                   *)
LEMMA HaltNotifyStep ==
    ASSUME NEW s \in Sessions, SessionInv, HaltNotify(s) PROVE SessionInv'
<1>1. UNCHANGED <<fd, socket, freeSessIdList, backlog, inbox, newcomer, listener, aborted>>
  BY DEF HaltNotify, listenerVars, netVars
<1>2. /\ pc' \in [Sessions -> SessionSteps]
      /\ pc[s] = "haltNotify" /\ pc'[s] \in {"haltWake", "haltTest"}
      /\ \A t \in Sessions \ {s} :
            pc'[t] = pc[t] \/ (pc[t] = "asleep" /\ pc'[t] = "wait")
  BY DEF HaltNotify, SessionInv, TypeInv, SessionSteps
<1>3. Moved
  BY <1>1, <1>2 DEF Moved, Resting, Closing, Released
<1>4. Listening
  BY <1>1, SameBacklog DEF SessionInv, TypeInv
<1>5. QED BY <1>3, <1>4, MovedKeeps

-----------------------------------------------------------------------------
(* Steps that hand over a socket, close it, or give the session back.      *)

LEMMA ReleaseFdStep ==
    ASSUME NEW s \in Sessions, SessionInv, ReleaseFd(s) PROVE SessionInv'
<1>1. /\ UNCHANGED <<fd, freeSessIdList, backlog, inbox, newcomer, listener, aborted>>
      /\ pc[s] = "releaseFd" /\ socket' = [socket EXCEPT ![fd[s]] = None]
      /\ pc' = [pc EXCEPT ![s] = "clearActive"]
  BY DEF ReleaseFd, Goto, listenerVars
<1>2. Held(s) /\ fd[s] \in Fds /\ fd[s] # None
  BY <1>1 DEF SessionInv, TypeInv, FreeInv, HeldInv, Resting, Released
<1>3. /\ pc'[s] = "clearActive" /\ \A t \in Sessions \ {s} : pc'[t] = pc[t]
      /\ socket'[fd[s]] = None /\ \A f \in Fds \ {fd[s]} : socket'[f] = socket[f]
      /\ \A t \in Sessions : Held(t)' <=> Held(t)
  BY <1>1, <1>2 DEF SessionInv, TypeInv, Held
<1>4. TypeInv'
  BY <1>1 DEF SessionInv, TypeInv, SessionSteps
<1>5. NewcomerInv'
  BY <1>1 DEF SessionInv, NewcomerInv
<1>6. FreeInv'
  BY <1>1, <1>2, <1>3 DEF SessionInv, FreeInv
<1>7. HeldInv'
  BY <1>1, <1>2, <1>3 DEF SessionInv, HeldInv, Released
<1>8. OpenInv'
  <2>1. SUFFICES ASSUME NEW t \in Sessions, pc'[t] \notin Closing, fd[t] # None
                 PROVE  socket'[fd[t]] # None
    BY <1>1 DEF OpenInv
  <2>2. t # s /\ pc[t] \notin Closing
    BY <1>3, <2>1 DEF Closing
  <2>3. fd[t] # fd[s]
    BY <1>1, <2>1, <2>2 DEF SessionInv, OwnInv, Closing
  <2>4. fd[t] \in Fds
    BY <2>1 DEF SessionInv, TypeInv
  <2>5. QED BY <1>3, <2>1, <2>2, <2>3, <2>4 DEF SessionInv, OpenInv
<1>9. OwnInv'
  BY <1>1, <1>3 DEF SessionInv, OwnInv, Closing
<1>10. SocketInv'
  <2>1. SUFFICES ASSUME ~aborted, NEW f \in Fds, socket'[f] # None
                 PROVE  \E t \in Sessions : fd[t] = f /\ pc'[t] \notin Closing
    BY <1>1 DEF SocketInv
  <2>2. f # fd[s] /\ socket[f] # None
    BY <1>3, <2>1
  <2>3. PICK t \in Sessions : fd[t] = f /\ pc[t] \notin Closing
    BY <2>1, <2>2 DEF SessionInv, SocketInv
  <2>4. QED BY <1>3, <2>2, <2>3
<1>11. QED BY <1>4, <1>5, <1>6, <1>7, <1>8, <1>9, <1>10 DEF SessionInv

LEMMA ClearRunningStep ==
    ASSUME NEW s \in Sessions, SessionInv, ClearRunning(s) PROVE SessionInv'
<1>1. /\ UNCHANGED <<socket, freeSessIdList, backlog, inbox, newcomer, listener, aborted>>
      /\ pc[s] = "clearRunning" /\ fd' = [fd EXCEPT ![s] = None]
      /\ pc' = [pc EXCEPT ![s] = "uncount"]
  BY DEF ClearRunning, Goto, listenerVars, netVars
<1>2. /\ pc'[s] = "uncount" /\ fd'[s] = None
      /\ \A t \in Sessions \ {s} : pc'[t] = pc[t] /\ fd'[t] = fd[t]
      /\ \A t \in Sessions : Held(t)' <=> Held(t)
  BY <1>1 DEF SessionInv, TypeInv, Held
<1>3. Held(s)
  BY <1>1 DEF SessionInv, FreeInv, Resting
<1>4. TypeInv'
  BY <1>1 DEF SessionInv, TypeInv, SessionSteps
<1>5. NewcomerInv'
  BY <1>1 DEF SessionInv, NewcomerInv
<1>6. FreeInv'
  BY <1>1, <1>2, <1>3 DEF SessionInv, FreeInv
<1>7. HeldInv'
  BY <1>2 DEF SessionInv, HeldInv, Released
<1>8. OpenInv'
  BY <1>1, <1>2 DEF SessionInv, OpenInv
<1>9. OwnInv'
  BY <1>2 DEF SessionInv, OwnInv
<1>10. SocketInv'
  BY <1>1, <1>2 DEF SessionInv, SocketInv, Closing
<1>11. QED BY <1>4, <1>5, <1>6, <1>7, <1>8, <1>9, <1>10 DEF SessionInv

LEMMA FreeSessionStep ==
    ASSUME NEW s \in Sessions, SessionInv, FreeSession(s) PROVE SessionInv'
<1>1. /\ UNCHANGED <<fd, socket, backlog, inbox, newcomer, listener, aborted>>
      /\ pc[s] = "free" /\ freeSessIdList' = Append(freeSessIdList, s)
      /\ \E step \in {"wait", "ended"} : pc' = [pc EXCEPT ![s] = step]
  BY DEF FreeSession, Goto, listenerVars, netVars
<1>2. s \notin ToSet(freeSessIdList) /\ fd[s] = None
  BY <1>1 DEF SessionInv, FreeInv, HeldInv, Held, Resting, Released
<1>3. /\ freeSessIdList' \in Seq(Sessions)
      /\ ToSet(freeSessIdList') = ToSet(freeSessIdList) \cup {s}
      /\ IsInjective(freeSessIdList')
  BY <1>1, <1>2, PushProperties DEF SessionInv, TypeInv, FreeInv
<1>4. /\ pc'[s] \in Resting /\ \A t \in Sessions \ {s} : pc'[t] = pc[t]
      /\ \A t \in Sessions : Held(t)' <=> Held(t) /\ t # s
  BY <1>1, <1>3 DEF SessionInv, TypeInv, Held, Resting
<1>5. TypeInv'
  BY <1>1, <1>3 DEF SessionInv, TypeInv, SessionSteps
<1>6. NewcomerInv'
  BY <1>1 DEF SessionInv, NewcomerInv
<1>7. FreeInv'
  BY <1>1, <1>2, <1>3, <1>4 DEF SessionInv, FreeInv
<1>8. HeldInv'
  BY <1>1, <1>4, StepNames DEF SessionInv, HeldInv
<1>9. OpenInv'
  BY <1>1, <1>2, <1>4 DEF SessionInv, OpenInv
<1>10. OwnInv'
  BY <1>1, <1>2, <1>4 DEF SessionInv, OwnInv
<1>11. SocketInv'
  <2>1. SUFFICES ASSUME ~aborted, NEW f \in Fds, socket[f] # None
                 PROVE  \E t \in Sessions : fd[t] = f /\ pc'[t] \notin Closing
    BY <1>1 DEF SocketInv
  <2>2. PICK t \in Sessions : fd[t] = f /\ pc[t] \notin Closing
    BY <2>1 DEF SessionInv, SocketInv
  <2>3. QED BY <1>4, <2>2, StepNames
<1>12. QED BY <1>5, <1>6, <1>7, <1>8, <1>9, <1>10, <1>11 DEF SessionInv

(* A new socket: the number was not in use, so no session has it.          *)
LEMMA HandOver ==
    ASSUME NEW f \in Fds, SessionInv, ~aborted,
           backlog # <<>>, freeSessIdList # <<>>, socket[f] = None,
           UNCHANGED <<pc, newcomer, inbox, aborted>>,
           listener' = "wake",
           backlog' = Tail(backlog),
           socket' = [socket EXCEPT ![f] = Head(backlog)],
           fd' = [fd EXCEPT ![Head(freeSessIdList)] = f],
           freeSessIdList' = Tail(freeSessIdList)
    PROVE  SessionInv'
<1> DEFINE s == Head(freeSessIdList)
<1>1. /\ s \in Sessions /\ freeSessIdList' \in Seq(Sessions)
      /\ ToSet(freeSessIdList) = {s} \cup ToSet(freeSessIdList')
      /\ s \notin ToSet(freeSessIdList') /\ IsInjective(freeSessIdList')
  BY PopProperties DEF SessionInv, TypeInv, FreeInv
<1>2. f # None /\ \A c \in Conns : c # None
  BY CommunicatorAssumption
<1>3. Head(backlog) \in Conns /\ Tail(backlog) \in Seq(Conns)
  BY DEF SessionInv, TypeInv
<1>4. fd[s] = None /\ pc[s] \in Resting
  BY <1>1 DEF SessionInv, FreeInv, Held
<1>5. /\ fd'[s] = f /\ \A t \in Sessions \ {s} : fd'[t] = fd[t]
      /\ socket'[f] # None /\ \A g \in Fds \ {f} : socket'[g] = socket[g]
      /\ \A t \in Sessions : Held(t)' <=> Held(t) \/ t = s
  BY <1>1, <1>2, <1>3 DEF SessionInv, TypeInv, Held
<1>6. \A t \in Sessions \ {s} : fd[t] = f => pc[t] \in Closing
  BY <1>2 DEF SessionInv, OpenInv
<1>7. TypeInv'
  BY <1>1, <1>3 DEF SessionInv, TypeInv
<1>8. NewcomerInv'
  BY DEF NewcomerInv
<1>9. FreeInv'
  BY <1>1, <1>5 DEF SessionInv, FreeInv
<1>10. HeldInv'
  BY <1>2, <1>4, <1>5, StepNames DEF SessionInv, HeldInv
<1>11. OpenInv'
  <2>1. SUFFICES ASSUME NEW t \in Sessions, pc[t] \notin Closing, fd'[t] # None
                 PROVE  socket'[fd'[t]] # None
    BY DEF OpenInv
  <2>2. CASE t = s
    BY <1>5, <2>2
  <2>3. CASE t # s
    <3>1. fd'[t] = fd[t] /\ fd[t] \in Fds \ {f}
      BY <1>5, <1>6, <2>1, <2>3 DEF SessionInv, TypeInv
    <3>2. QED BY <1>5, <2>1, <3>1 DEF SessionInv, OpenInv
  <2>4. QED BY <2>2, <2>3
<1>12. OwnInv'
  BY <1>1, <1>5, <1>6 DEF SessionInv, OwnInv
<1>13. SocketInv'
  <2>1. SUFFICES ASSUME NEW g \in Fds, socket'[g] # None
                 PROVE  \E t \in Sessions : fd'[t] = g /\ pc[t] \notin Closing
    BY DEF SocketInv
  <2>2. CASE g = f
    BY <1>1, <1>4, <1>5, <2>2, StepNames
  <2>3. CASE g # f
    <3>1. PICK t \in Sessions : fd[t] = g /\ pc[t] \notin Closing
      BY <1>5, <2>1, <2>3 DEF SessionInv, SocketInv
    <3>2. t # s
      BY <1>4, <3>1, CommunicatorAssumption
    <3>3. QED BY <1>5, <3>1, <3>2
  <2>4. QED BY <2>2, <2>3
<1>14. QED BY <1>7, <1>8, <1>9, <1>10, <1>11, <1>12, <1>13 DEF SessionInv

LEMMA AcceptStep ==
    ASSUME SessionInv, ~aborted, Accept PROVE SessionInv'
<1>1. /\ UNCHANGED <<pc, newcomer, inbox>> /\ listener = "accept"
  BY DEF Accept
<1>2. CASE ~newcomer
  <2>1. UNCHANGED <<fd, socket, freeSessIdList, backlog, inbox, aborted>>
    BY <1>2 DEF Accept
  <2>2. Moved
    BY <1>1, <2>1 DEF Moved, SessionInv, TypeInv
  <2>3. Listening
    BY <1>1, <1>2, <2>1 DEF Listening, SessionInv, TypeInv, NewcomerInv
  <2>4. QED BY <2>2, <2>3, MovedKeeps
<1>3. CASE newcomer
  <2>1. backlog # <<>>
    BY <1>1, <1>3 DEF SessionInv, NewcomerInv
  <2>2. PICK f \in NewFd :
          /\ socket' = [socket EXCEPT ![f] = Head(backlog)]
          /\ IF freeSessIdList = <<>>
             THEN /\ aborted' = TRUE
                  /\ UNCHANGED <<fd, freeSessIdList, fdToSessMap,
                                 activeSessCount, target, listener>>
             ELSE /\ SetSess(f)
                  /\ ListenerGoto("wake")
                  /\ UNCHANGED aborted
    BY <1>3 DEF Accept
  <2>3. f \in Fds /\ socket[f] = None /\ backlog' = Tail(backlog)
    BY <1>3, <2>2 DEF NewFd, Accept
  <2>4. CASE freeSessIdList # <<>>
    <3>1. /\ fd' = [fd EXCEPT ![Head(freeSessIdList)] = f]
          /\ freeSessIdList' = Tail(freeSessIdList)
          /\ listener' = "wake" /\ aborted' = aborted
      BY <2>2, <2>4 DEF SetSess, TakeSession, ListenerGoto
    <3>2. QED BY <1>1, <2>1, <2>2, <2>3, <2>4, <3>1, HandOver
  <2>5. CASE freeSessIdList = <<>>
    <3>1. aborted' /\ UNCHANGED <<fd, freeSessIdList>>
      BY <2>2, <2>5
    <3>2. Head(backlog) \in Conns /\ Tail(backlog) \in Seq(Conns)
      BY <2>1 DEF SessionInv, TypeInv
    <3>3. \A g \in Fds : socket[g] # None => socket'[g] # None
      BY <2>2, <2>3, <3>2, CommunicatorAssumption DEF SessionInv, TypeInv
    <3>4. \A t \in Sessions : Held(t)' <=> Held(t)
      BY <3>1 DEF Held
    <3>5. TypeInv'
      BY <1>1, <2>2, <2>3, <3>1, <3>2 DEF SessionInv, TypeInv
    <3>6. FreeInv' /\ HeldInv' /\ OwnInv'
      BY <1>1, <3>1, <3>4 DEF SessionInv, FreeInv, HeldInv, OwnInv
    <3>7. OpenInv'
      BY <1>1, <3>1, <3>3 DEF SessionInv, TypeInv, OpenInv
    <3>8. SocketInv'
      BY <3>1 DEF SocketInv
    <3>9. NewcomerInv'
      BY <3>1 DEF NewcomerInv
    <3>10. QED BY <3>5, <3>6, <3>7, <3>8, <3>9 DEF SessionInv
  <2>6. QED BY <2>4, <2>5
<1>4. QED BY <1>2, <1>3

-----------------------------------------------------------------------------

LEMMA SessionStep == SessionInv /\ [Next]_vars => SessionInv'
<1>1. SUFFICES ASSUME SessionInv, [Next]_vars PROVE SessionInv'
  OBVIOUS
<1>2. CASE UNCHANGED vars
  <2>1. UNCHANGED <<fd, pc, socket, freeSessIdList, backlog, inbox, newcomer, listener,
                    aborted>>
    BY <1>2 DEF vars, sessVars, listenerVars, netVars
  <2>2. Moved
    BY <1>1, <2>1 DEF Moved, SessionInv, TypeInv
  <2>3. Listening
    BY <1>1, <2>1, SameBacklog DEF SessionInv, TypeInv
  <2>4. QED BY <1>1, <2>2, <2>3, MovedKeeps
<1>3. CASE ~aborted /\ \E c \in Conns : Client(c)
  BY <1>1, <1>3, ClientStep
<1>4. CASE ~aborted /\ Listener
  BY <1>1, <1>4, ListenerStep, AcceptStep DEF Listener
<1>5. ASSUME ~aborted, NEW s \in Sessions, SessThread(s) \/ SendJobReply(s)
      PROVE  SessionInv'
  BY <1>1, <1>5, ThreadStep, HaltNotifyStep, ReleaseFdStep, ClearRunningStep,
     FreeSessionStep DEF SessThread, ThreadMoves
<1>6. QED BY <1>1, <1>2, <1>3, <1>4, <1>5 DEF Next

(* The inductive invariant: free sessions rest without a socket, the       *)
(* others have an open one of their own until they close it.               *)
THEOREM SessionsSafe == Spec => []SessionInv
BY InitSession, SessionStep, PTL DEF Spec

LEMMA SessionsFollow == SessionInv => SessionsConserved
<1>1. SUFFICES ASSUME SessionInv PROVE SessionsConserved
  OBVIOUS
<1>2. ASSUME ~aborted, NEW f \in Fds, socket[f] # None
      PROVE  Cardinality({s \in Sessions : fd[s] = f /\ pc[s] \notin
                {"clearActive", "clearRunning"}}) = 1
  <2>1. PICK s \in Sessions : fd[s] = f /\ pc[s] \notin Closing
    BY <1>1, <1>2 DEF SessionInv, SocketInv
  <2>2. f # None
    BY CommunicatorAssumption
  <2>3. {t \in Sessions : fd[t] = f /\ pc[t] \notin {"clearActive", "clearRunning"}} = {s}
    BY <1>1, <2>1, <2>2 DEF SessionInv, OwnInv, Closing
  <2>4. QED BY <2>3, FS_Singleton
<1>3. QED BY <1>1, <1>2 DEF SessionsConserved, SessionInv, FreeInv

(* Sessions are neither lost nor handed out twice, however accepts,        *)
(* releases and stray wake-ups interleave (setSess, releaseSess).          *)
THEOREM SessionsAreConserved == Spec => []SessionsConserved
BY SessionsSafe, SessionsFollow, PTL

LEMMA ServesFollow == SessionInv => ServesOwnSocket
<1>1. SUFFICES ASSUME SessionInv, NEW s \in Sessions,
                      pc[s] \in {"serve", "subscribe", "haltTest", "haltWake",
                                 "haltNotify", "releaseFd"}
               PROVE  /\ fd[s] # None
                      /\ socket[fd[s]] # None
                      /\ \A t \in Sessions \ {s} : fd[t] = fd[s] =>
                            pc[t] \in {"clearActive", "clearRunning"}
  BY DEF ServesOwnSocket
<1>2. pc[s] \notin Resting /\ pc[s] \notin Closing /\ pc[s] \notin Released
  BY <1>1 DEF Resting, Closing, Released
<1>3. fd[s] # None
  BY <1>1, <1>2 DEF SessionInv, FreeInv, HeldInv
<1>4. socket[fd[s]] # None
  BY <1>1, <1>2, <1>3 DEF SessionInv, OpenInv
<1>5. QED BY <1>1, <1>2, <1>3, <1>4 DEF SessionInv, OwnInv, Closing

(* A thread in its socket loop (sessThread) serves an open socket that no  *)
(* other thread serves.                                                    *)
THEOREM ServesOwn == Spec => []ServesOwnSocket
BY SessionsSafe, ServesFollow, PTL

-----------------------------------------------------------------------------
(* The counters that the listener compares.  activeSessCount is counted up  *)
(* by the listener and down by the session threads, runningSessCount by     *)
(* the session threads.                                                     *)

ActiveSet == {s \in Sessions : Held(s) /\ pc[s] # "free"}
ActiveInv == activeSessCount = Cardinality(ActiveSet)

Counting == SessionSteps \ {"wait", "fallAsleep", "asleep", "count", "ended"}
RunningSet == {s \in Sessions : pc[s] \in Counting}

(* Threads end, and are left uncounted, only when the machine halts.        *)
RunningInv ==
    ~halting =>
        /\ runningSessCount = Cardinality(RunningSet)
        /\ leaving = {}
        /\ \A s \in Sessions : pc[s] # "ended"

CountInv == ActiveInv /\ RunningInv

LEMMA SessionsFinite ==
    /\ IsFiniteSet(Sessions)
    /\ IsFiniteSet(ActiveSet) /\ Cardinality(ActiveSet) \in Nat
    /\ IsFiniteSet(RunningSet) /\ Cardinality(RunningSet) \in Nat
<1>1. IsFiniteSet(Sessions)
  BY CommunicatorAssumption, FS_Interval DEF Sessions
<1>2. ActiveSet \subseteq Sessions /\ RunningSet \subseteq Sessions
  BY DEF ActiveSet, RunningSet
<1>3. QED BY <1>1, <1>2, FS_Subset, FS_CardinalityType

LEMMA InitCount == Init => CountInv
<1>1. SUFFICES ASSUME Init PROVE CountInv
  OBVIOUS
<1>2. \A s \in Sessions : ~Held(s) /\ pc[s] = "wait"
  BY <1>1, InitHeld DEF Init
<1>3. ActiveSet = {} /\ RunningSet = {}
  BY <1>2 DEF ActiveSet, RunningSet, Counting
<1>4. QED
  BY <1>1, <1>2, <1>3, FS_EmptySet DEF Init, CountInv, ActiveInv, RunningInv

LEMMA ActiveSame ==
    ASSUME ActiveInv, UNCHANGED <<activeSessCount, freeSessIdList>>,
           \A s \in Sessions : pc'[s] = "free" <=> pc[s] = "free"
    PROVE  ActiveInv'
<1>1. ActiveSet' = ActiveSet
  BY DEF ActiveSet, Held
<1>2. QED BY <1>1 DEF ActiveInv

LEMMA RunningSame ==
    ASSUME RunningInv, UNCHANGED runningSessCount, halting => halting',
           ~halting' => leaving' = leaving,
           ~halting' => \A s \in Sessions : /\ pc'[s] \in Counting <=> pc[s] \in Counting
                                            /\ pc'[s] # "ended"
    PROVE  RunningInv'
<1>1. ~halting' => RunningSet' = RunningSet
  BY DEF RunningSet
<1>2. QED BY <1>1 DEF RunningInv

LEMMA CountSame ==
    ASSUME CountInv, UNCHANGED <<pc, leaving, halting, freeSessIdList, countVars>>
    PROVE  CountInv'
<1>1. ActiveInv'
  BY ActiveSame DEF CountInv, countVars
<1>2. RunningInv'
  BY RunningSame DEF CountInv, countVars, RunningInv
<1>3. QED BY <1>1, <1>2 DEF CountInv

LEMMA ListenerCount ==
    ASSUME SessionInv, CountInv, ~aborted, Listener PROVE CountInv'
<1>1. UNCHANGED <<leaving, halting, runningSessCount>>
  BY DEF Listener, Select, CheckCounts, ScanNext, ScanRunning, Accept,
         ListenerSetActive, ListenerNotify, sessVars, countVars, haltVars
<1>2. \A s \in Sessions : pc'[s] = pc[s] \/ (pc[s] = "asleep" /\ pc'[s] = "wait")
  BY DEF Listener, Select, CheckCounts, ScanNext, ScanRunning, Accept,
         ListenerSetActive, ListenerNotify, Notify, sessVars, SessionInv, TypeInv
<1>3. RunningInv'
  BY <1>1, <1>2, RunningSame DEF CountInv, RunningInv, Counting
<1>4. CASE UNCHANGED <<activeSessCount, freeSessIdList>>
  BY <1>2, <1>3, <1>4, ActiveSame DEF CountInv
<1>5. CASE ~UNCHANGED <<activeSessCount, freeSessIdList>>
  <2>1. Accept /\ newcomer /\ listener = "accept"
    BY <1>5 DEF Listener, Select, CheckCounts, ScanNext, ScanRunning, Accept,
         ListenerSetActive, ListenerNotify, countVars
  <2>2. freeSessIdList # <<>> /\ pc' = pc
    BY <1>5, <2>1 DEF Accept
  <2>3. activeSessCount' = activeSessCount + 1 /\ freeSessIdList' = Tail(freeSessIdList)
    BY <2>1, <2>2 DEF Accept, SetSess
  <2> DEFINE s == Head(freeSessIdList)
  <2>4. /\ s \in Sessions /\ ToSet(freeSessIdList) = {s} \cup ToSet(freeSessIdList')
        /\ s \notin ToSet(freeSessIdList')
    BY <2>2, <2>3, PopProperties DEF SessionInv, TypeInv, FreeInv
  <2>5. ~Held(s) /\ pc[s] # "free"
    BY <2>4 DEF SessionInv, FreeInv, Held, Resting
  <2>6. ActiveSet' = ActiveSet \cup {s} /\ s \notin ActiveSet
    BY <2>2, <2>4, <2>5 DEF ActiveSet, Held
  <2>7. Cardinality(ActiveSet') = Cardinality(ActiveSet) + 1
    BY <2>6, SessionsFinite, FS_AddElement
  <2>8. QED BY <1>3, <2>3, <2>7 DEF CountInv, ActiveInv
<1>6. QED BY <1>4, <1>5

LEMMA SessionCount ==
    ASSUME NEW s \in Sessions, SessionInv, CountInv, ~aborted,
           SessThread(s) \/ SendJobReply(s)
    PROVE  CountInv'
<1>1. pc \in [Sessions -> SessionSteps]
  BY DEF SessionInv, TypeInv
<1>2. CASE Wait(s) \/ Sleep(s)
  <2>1. \A t \in Sessions : pc'[t] = pc[t]
            \/ /\ pc[t] \in {"wait", "fallAsleep"}
               /\ pc'[t] \in {"count", "fallAsleep", "asleep"}
    BY <1>1, <1>2 DEF Wait, Sleep, Goto
  <2>2. UNCHANGED <<leaving, halting, freeSessIdList, countVars>>
    BY <1>2 DEF Wait, Sleep, haltVars
  <2>3. QED
    BY <2>1, <2>2, ActiveSame, RunningSame
       DEF CountInv, RunningInv, Counting, countVars
<1>3. CASE CountRunning(s)
  <2>1. /\ pc[s] = "count" /\ pc'[s] = "start"
        /\ \A t \in Sessions \ {s} : pc'[t] = pc[t]
        /\ UNCHANGED <<leaving, halting, freeSessIdList, activeSessCount>>
        /\ runningSessCount' = runningSessCount + 1
    BY <1>1, <1>3 DEF CountRunning, Goto, haltVars
  <2>2. RunningSet' = RunningSet \cup {s} /\ s \notin RunningSet
    BY <2>1 DEF RunningSet, Counting, SessionSteps
  <2>3. Cardinality(RunningSet') = Cardinality(RunningSet) + 1
    BY <2>2, SessionsFinite, FS_AddElement
  <2>4. RunningInv'
    BY <2>1, <2>3 DEF CountInv, RunningInv
  <2>5. ActiveInv'
    BY <2>1, ActiveSame DEF CountInv
  <2>6. QED BY <2>4, <2>5 DEF CountInv
<1>4. CASE FreeSession(s)
  <2>1. /\ pc[s] = "free" /\ pc'[s] \in {"wait", "ended"}
        /\ ~halting => pc'[s] = "wait"
        /\ \A t \in Sessions \ {s} : pc'[t] = pc[t]
        /\ UNCHANGED <<leaving, halting, activeSessCount>>
        /\ runningSessCount' = runningSessCount - 1
        /\ freeSessIdList' = Append(freeSessIdList, s)
    BY <1>1, <1>4 DEF FreeSession, Goto, haltVars, CountInv, RunningInv
  <2>2. s \notin ToSet(freeSessIdList)
    BY <2>1 DEF SessionInv, FreeInv, Held, Resting
  <2>3. ToSet(freeSessIdList') = ToSet(freeSessIdList) \cup {s}
    BY <2>1, <2>2, PushProperties DEF SessionInv, TypeInv, FreeInv
  <2>4. ActiveSet' = ActiveSet
    BY <2>1, <2>3 DEF ActiveSet, Held
  <2>5. RunningSet' = RunningSet \ {s} /\ s \in RunningSet
    BY <2>1 DEF RunningSet, Counting, SessionSteps
  <2>6. Cardinality(RunningSet') = Cardinality(RunningSet) - 1
    BY <2>5, SessionsFinite, FS_RemoveElement
  <2>7. RunningInv'
    BY <2>1, <2>6 DEF CountInv, RunningInv
  <2>8. QED BY <2>1, <2>4, <2>7 DEF CountInv, ActiveInv
<1>5. CASE UncountActive(s)
  <2>1. /\ pc[s] = "uncount" /\ pc'[s] = "free"
        /\ \A t \in Sessions \ {s} : pc'[t] = pc[t]
        /\ UNCHANGED <<leaving, halting, freeSessIdList, runningSessCount>>
        /\ activeSessCount' = activeSessCount - 1
    BY <1>1, <1>5 DEF UncountActive, Goto, haltVars
  <2>2. Held(s)
    BY <2>1 DEF SessionInv, FreeInv, Resting
  <2>3. ActiveSet' = ActiveSet \ {s} /\ s \in ActiveSet
    BY <2>1, <2>2 DEF ActiveSet, Held
  <2>4. Cardinality(ActiveSet') = Cardinality(ActiveSet) - 1
    BY <2>3, SessionsFinite, FS_RemoveElement
  <2>5. \A t \in Sessions : (pc'[t] \in Counting <=> pc[t] \in Counting)
                            /\ (pc[t] # "ended" => pc'[t] # "ended")
    BY <2>1 DEF Counting, SessionSteps
  <2>6. RunningInv'
    BY <2>1, <2>5, RunningSame DEF CountInv, RunningInv
  <2>7. QED BY <2>1, <2>4, <2>6 DEF CountInv, ActiveInv
<1>6. CASE StartSession(s)
  <2>1. /\ pc[s] = "start" /\ pc'[s] \in {"start", "serve", "ended"}
        /\ ~halting => pc'[s] # "ended"
        /\ \A t \in Sessions \ {s} : pc'[t] = pc[t]
        /\ UNCHANGED <<leaving, halting, freeSessIdList, countVars>>
    BY <1>1, <1>6 DEF StartSession, Goto
  <2>2. \A t \in Sessions : pc'[t] = "free" <=> pc[t] = "free"
    BY <2>1
  <2>3. ~halting => \A t \in Sessions :
            (pc'[t] \in Counting <=> pc[t] \in Counting)
            /\ (pc[t] # "ended" => pc'[t] # "ended")
    BY <2>1 DEF Counting, SessionSteps
  <2>4. QED
    BY <2>1, <2>2, <2>3, ActiveSame, RunningSame DEF CountInv, RunningInv, countVars
<1>7. CASE Receive(s)
  <2>1. /\ pc[s] = "serve" /\ socket[fd[s]] \in Conns
    <3>1. pc[s] = "serve"
      BY <1>7 DEF Receive
    <3>2. fd[s] # None /\ socket[fd[s]] # None
      BY <3>1 DEF SessionInv, FreeInv, HeldInv, OpenInv, Resting, Closing, Released
    <3>3. QED BY <3>1, <3>2 DEF SessionInv, TypeInv
  <2>2. inbox[socket[fd[s]]] \in Messages
    BY <1>7, <2>1 DEF Receive, SessionInv, TypeInv
  <2>3. \E step \in {"serve", "subscribe", "releaseFd", "haltTest"} : Goto(s, step)
    BY <1>7, <2>2 DEF Receive, Messages
  <2>4. /\ pc'[s] \in {"serve", "subscribe", "releaseFd", "haltTest"}
        /\ \A t \in Sessions \ {s} : pc'[t] = pc[t]
    BY <1>1, <2>3 DEF Goto
  <2>5. /\ halting => halting'
        /\ ~halting' => leaving' = leaving
        /\ UNCHANGED <<freeSessIdList, countVars>>
    BY <1>7 DEF Receive
  <2>6. \A t \in Sessions : /\ pc'[t] = "free" <=> pc[t] = "free"
                            /\ pc'[t] \in Counting <=> pc[t] \in Counting
                            /\ pc[t] # "ended" => pc'[t] # "ended"
    BY <2>1, <2>4 DEF Counting, SessionSteps
  <2>7. QED
    BY <2>5, <2>6, ActiveSame, RunningSame DEF CountInv, RunningInv, countVars
<1>8. CASE SendJobReply(s) \/ HaltTest(s) \/ HaltSetActive(s) \/ HaltNotify(s)
           \/ ReleaseFd(s) \/ ClearActive(s) \/ ClearRunning(s)
  <2>1. UNCHANGED <<leaving, halting, freeSessIdList, countVars>>
    BY <1>8 DEF SendJobReply, HaltTest, HaltSetActive, HaltNotify, ReleaseFd,
                ClearActive, ClearRunning, haltVars
  <2>2. \A t \in Sessions : \/ pc'[t] = pc[t]
                            \/ pc[t] = "asleep" /\ pc'[t] = "wait"
                            \/ /\ pc[t] \in Counting /\ pc'[t] \in Counting
                               /\ pc[t] # "free" /\ pc'[t] # "free"
    BY <1>1, <1>8 DEF SendJobReply, HaltTest, HaltSetActive, HaltNotify, ReleaseFd,
                ClearActive, ClearRunning, Goto, Counting, SessionSteps
  <2>3. \A t \in Sessions : /\ pc'[t] = "free" <=> pc[t] = "free"
                            /\ pc'[t] \in Counting <=> pc[t] \in Counting
                            /\ pc[t] # "ended" => pc'[t] # "ended"
    BY <2>2 DEF Counting
  <2>4. QED
    BY <2>1, <2>3, ActiveSame, RunningSame DEF CountInv, RunningInv, countVars
<1>9. QED
  BY <1>2, <1>3, <1>4, <1>5, <1>6, <1>7, <1>8 DEF SessThread

LEMMA CountStep == SessionInv /\ CountInv /\ [Next]_vars => CountInv'
<1>1. SUFFICES ASSUME SessionInv, CountInv, [Next]_vars PROVE CountInv'
  OBVIOUS
<1>2. CASE UNCHANGED vars
  BY <1>1, <1>2, CountSame DEF vars, sessVars, haltVars
<1>3. ASSUME NEW c \in Conns, Client(c) PROVE CountInv'
  BY <1>1, <1>3, CountSame DEF Client, Connect, Send, sessVars, haltVars
<1>4. CASE ~aborted /\ Listener
  BY <1>1, <1>4, ListenerCount
<1>5. ASSUME ~aborted, NEW s \in Sessions, SessThread(s) \/ SendJobReply(s)
      PROVE  CountInv'
  BY <1>1, <1>5, SessionCount
<1>6. QED BY <1>1, <1>2, <1>3, <1>4, <1>5 DEF Next

(* The two counters tell the truth at every step.                           *)
THEOREM CountsSafe == Spec => []CountInv
BY InitSession, SessionStep, InitCount, CountStep, PTL DEF Spec

LEMMA ArmedFollows == SessionInv /\ CountInv => NetArmed
<1>1. SUFFICES ASSUME SessionInv, CountInv, ~halting,
                      \A s \in Sessions : pc[s] # "free" /\ (pc[s] = "start" => fd[s] # None)
               PROVE  activeSessCount > runningSessCount <=>
                        \E s \in Sessions : Held(s) /\ pc[s] \in {"wait", "fallAsleep", "asleep", "count"}
  BY DEF NetArmed
<1>2. \A s \in Sessions : pc[s] \in Counting => Held(s)
  BY <1>1 DEF SessionInv, FreeInv, Resting, Counting
<1>3. RunningSet \subseteq ActiveSet
  BY <1>1, <1>2 DEF RunningSet, ActiveSet
<1>4. activeSessCount = Cardinality(ActiveSet) /\ runningSessCount = Cardinality(RunningSet)
  BY <1>1 DEF CountInv, ActiveInv, RunningInv
<1>5. RunningSet # ActiveSet <=> Cardinality(RunningSet) < Cardinality(ActiveSet)
  BY <1>3, SessionsFinite, FS_Subset
<1>6. RunningSet # ActiveSet <=>
        \E s \in Sessions : Held(s) /\ pc[s] \in {"wait", "fallAsleep", "asleep", "count"}
  BY <1>1, <1>3
     DEF RunningSet, ActiveSet, Counting, SessionInv, TypeInv, CountInv, RunningInv
<1>7. QED BY <1>4, <1>5, <1>6, SessionsFinite

(* The net of listenerThread for hanging sessions is armed exactly when it  *)
(* is needed: a session that waits with a socket shows in the counters.     *)
THEOREM NetIsArmed == Spec => []NetArmed
BY InitSession, SessionStep, InitCount, CountStep, ArmedFollows, PTL DEF Spec
-----------------------------------------------------------------------------
(* What the halt counts.  A thread that halt() ends stays counted as       *)
(* running, one that received HaltMachine releases its session first.      *)

LeavingSteps == {"haltTest", "haltWake", "haltNotify", "releaseFd", "clearActive",
                 "clearRunning", "uncount", "free", "ended"}

CountedSet ==
    {s \in Sessions : pc[s] \in Counting \/ (pc[s] = "ended" /\ s \notin leaving)}
HaltedSet == {s \in Sessions : s \in leaving \/ pc[s] = "ended"}

HaltInv ==
    /\ leaving \subseteq Sessions
    /\ \A s \in leaving : pc[s] \in LeavingSteps
    /\ runningSessCount = Cardinality(CountedSet)
    /\ sessHaltCount = Cardinality(HaltedSet)

LEMMA HaltFinite ==
    /\ IsFiniteSet(CountedSet) /\ Cardinality(CountedSet) \in 0..SessCount
    /\ IsFiniteSet(HaltedSet) /\ Cardinality(HaltedSet) \in 0..SessCount
    /\ IsFiniteSet(ActiveSet) /\ Cardinality(ActiveSet) \in 0..SessCount
<1>1. SessCount \in Nat /\ Sessions = 0..(SessCount - 1)
  BY CommunicatorAssumption DEF Sessions
<1>2. IsFiniteSet(Sessions) /\ Cardinality(Sessions) = SessCount
  <2>1. IsFiniteSet(0..(SessCount - 1))
        /\ Cardinality(0..(SessCount - 1)) =
              IF 0 > SessCount - 1 THEN 0 ELSE (SessCount - 1) - 0 + 1
    BY <1>1, FS_Interval
  <2>2. QED BY <1>1, <2>1
<1>3. ASSUME NEW S \in SUBSET Sessions
      PROVE  IsFiniteSet(S) /\ Cardinality(S) \in 0..SessCount
  <2>1. IsFiniteSet(S) /\ Cardinality(S) <= SessCount
    BY <1>2, FS_Subset
  <2>2. Cardinality(S) \in Nat
    BY <2>1, FS_CardinalityType
  <2>3. QED BY <1>1, <2>1, <2>2
<1>4. CountedSet \in SUBSET Sessions /\ HaltedSet \in SUBSET Sessions
      /\ ActiveSet \in SUBSET Sessions
  BY DEF CountedSet, HaltedSet, ActiveSet
<1>5. QED BY <1>3, <1>4

LEMMA InitHalt == Init => HaltInv
<1>1. SUFFICES ASSUME Init PROVE HaltInv
  OBVIOUS
<1>2. CountedSet = {} /\ HaltedSet = {}
  BY <1>1 DEF Init, CountedSet, HaltedSet, Counting
<1>3. QED BY <1>1, <1>2, FS_EmptySet DEF Init, HaltInv

LEMMA HaltSame ==
    ASSUME HaltInv, UNCHANGED <<leaving, runningSessCount, sessHaltCount>>,
           \A s \in Sessions : /\ pc'[s] \in Counting <=> pc[s] \in Counting
                               /\ pc'[s] = "ended" <=> pc[s] = "ended"
                               /\ s \in leaving => pc'[s] \in LeavingSteps
    PROVE  HaltInv'
<1>1. CountedSet' = CountedSet /\ HaltedSet' = HaltedSet
  BY DEF CountedSet, HaltedSet
<1>2. QED BY <1>1 DEF HaltInv

LEMMA HaltedStep ==
    ASSUME NEW s \in Sessions, SessionInv, HaltInv, SessThread(s) \/ SendJobReply(s)
    PROVE  HaltInv'
<1>1. /\ pc \in [Sessions -> SessionSteps]
      /\ leaving \subseteq Sessions /\ \A t \in leaving : pc[t] \in LeavingSteps
  BY DEF SessionInv, TypeInv, HaltInv
<1>2. CASE Wait(s) \/ Sleep(s)
  <2>1. /\ UNCHANGED <<leaving, runningSessCount, sessHaltCount>>
        /\ pc[s] \in {"wait", "fallAsleep"}
        /\ pc'[s] \in {"count", "fallAsleep", "asleep"}
        /\ \A t \in Sessions \ {s} : pc'[t] = pc[t]
    BY <1>1, <1>2 DEF Wait, Sleep, Goto, countVars, haltVars
  <2>2. QED BY <1>1, <2>1, HaltSame DEF Counting, LeavingSteps
<1>3. CASE CountRunning(s)
  <2>1. /\ pc[s] = "count" /\ pc'[s] = "start"
        /\ \A t \in Sessions \ {s} : pc'[t] = pc[t]
        /\ UNCHANGED <<leaving, sessHaltCount>>
        /\ runningSessCount' = runningSessCount + 1
    BY <1>1, <1>3 DEF CountRunning, Goto, haltVars
  <2>2. CountedSet' = CountedSet \cup {s} /\ s \notin CountedSet /\ HaltedSet' = HaltedSet
    BY <2>1 DEF CountedSet, HaltedSet, Counting, SessionSteps
  <2>3. Cardinality(CountedSet') = Cardinality(CountedSet) + 1
    BY <2>2, HaltFinite, FS_AddElement
  <2>4. \A t \in leaving : pc'[t] \in LeavingSteps
    BY <1>1, <2>1 DEF LeavingSteps
  <2>5. QED BY <2>1, <2>2, <2>3, <2>4 DEF HaltInv
<1>4. CASE FreeSession(s)
  <2>1. /\ pc[s] = "free" /\ pc'[s] = IF s \in leaving THEN "ended" ELSE "wait"
        /\ \A t \in Sessions \ {s} : pc'[t] = pc[t]
        /\ UNCHANGED <<leaving, sessHaltCount>>
        /\ runningSessCount' = runningSessCount - 1
    BY <1>1, <1>4 DEF FreeSession, Goto, haltVars
  <2>2. CountedSet' = CountedSet \ {s} /\ s \in CountedSet /\ HaltedSet' = HaltedSet
    BY <2>1 DEF CountedSet, HaltedSet, Counting, SessionSteps
  <2>3. Cardinality(CountedSet') = Cardinality(CountedSet) - 1
    BY <2>2, HaltFinite, FS_RemoveElement
  <2>4. \A t \in leaving : pc'[t] \in LeavingSteps
    BY <1>1, <2>1 DEF LeavingSteps
  <2>5. QED BY <2>1, <2>2, <2>3, <2>4 DEF HaltInv
<1>5. CASE StartSession(s)
  <2>1. /\ pc[s] = "start" /\ s \notin leaving
        /\ UNCHANGED <<leaving, runningSessCount>>
    BY <1>1, <1>5 DEF StartSession, countVars, LeavingSteps
  <2>2. CASE halting
    <3>1. /\ pc'[s] = "ended" /\ \A t \in Sessions \ {s} : pc'[t] = pc[t]
          /\ sessHaltCount' = sessHaltCount + 1
      BY <1>1, <1>5, <2>2 DEF StartSession, Goto
    <3>2. CountedSet' = CountedSet
      BY <2>1, <3>1 DEF CountedSet, Counting, SessionSteps
    <3>3. HaltedSet' = HaltedSet \cup {s} /\ s \notin HaltedSet
      BY <2>1, <3>1 DEF HaltedSet
    <3>4. Cardinality(HaltedSet') = Cardinality(HaltedSet) + 1
      BY <3>3, HaltFinite, FS_AddElement
    <3>5. \A t \in leaving : pc'[t] \in LeavingSteps
      BY <1>1, <2>1, <3>1
    <3>6. QED BY <2>1, <3>1, <3>2, <3>4, <3>5 DEF HaltInv
  <2>3. CASE ~halting
    <3>1. /\ pc'[s] \in {"start", "serve"} /\ \A t \in Sessions \ {s} : pc'[t] = pc[t]
          /\ sessHaltCount' = sessHaltCount
      BY <1>1, <1>5, <2>1, <2>3 DEF StartSession, Goto
    <3>2. \A t \in Sessions : /\ pc'[t] \in Counting <=> pc[t] \in Counting
                              /\ pc'[t] = "ended" <=> pc[t] = "ended"
                              /\ t \in leaving => pc'[t] \in LeavingSteps
      BY <1>1, <2>1, <3>1 DEF Counting, SessionSteps
    <3>3. QED BY <2>1, <3>1, <3>2, HaltSame
  <2>4. QED BY <2>2, <2>3
<1>6. CASE Receive(s)
  <2>1. pc[s] = "serve" /\ s \notin leaving
    BY <1>1, <1>6 DEF Receive, LeavingSteps
  <2>2. socket[fd[s]] \in Conns
    <3>1. fd[s] # None /\ socket[fd[s]] # None
      BY <2>1 DEF SessionInv, FreeInv, HeldInv, OpenInv, Resting, Closing, Released
    <3>2. QED BY <3>1 DEF SessionInv, TypeInv
  <2>3. PICK msg \in Messages : msg = inbox[socket[fd[s]]]
    BY <1>6, <2>2 DEF Receive, SessionInv, TypeInv
  <2>4. /\ Goto(s, CASE msg = "Welcome"     -> "serve"
                     [] msg = "PushJob"     -> "subscribe"
                     [] msg = "GoodBye"     -> "releaseFd"
                     [] msg = "HaltMachine" -> "haltTest")
        /\ leaving' = IF msg = "HaltMachine" THEN leaving \cup {s} ELSE leaving
        /\ sessHaltCount' = sessHaltCount + IF msg = "HaltMachine" THEN 1 ELSE 0
        /\ UNCHANGED runningSessCount
    BY <1>6, <2>3 DEF Receive, countVars
  <2>5. CASE msg = "HaltMachine"
    <3>1. /\ pc'[s] = "haltTest" /\ \A t \in Sessions \ {s} : pc'[t] = pc[t]
          /\ leaving' = leaving \cup {s} /\ sessHaltCount' = sessHaltCount + 1
      BY <1>1, <2>4, <2>5 DEF Goto
    <3>2. CountedSet' = CountedSet
      BY <2>1, <3>1 DEF CountedSet, Counting, SessionSteps
    <3>3. HaltedSet' = HaltedSet \cup {s} /\ s \notin HaltedSet
      BY <2>1, <3>1 DEF HaltedSet
    <3>4. Cardinality(HaltedSet') = Cardinality(HaltedSet) + 1
      BY <3>3, HaltFinite, FS_AddElement
    <3>5. \A t \in leaving' : pc'[t] \in LeavingSteps
      BY <1>1, <3>1 DEF LeavingSteps
    <3>6. leaving' \subseteq Sessions
      BY <1>1, <3>1
    <3>7. QED BY <2>4, <3>1, <3>2, <3>4, <3>5, <3>6 DEF HaltInv
  <2>6. CASE msg # "HaltMachine"
    <3>1. /\ pc'[s] \in {"serve", "subscribe", "releaseFd"}
          /\ \A t \in Sessions \ {s} : pc'[t] = pc[t]
      BY <1>1, <2>3, <2>4, <2>6 DEF Goto, Messages
    <3>2. leaving' = leaving /\ sessHaltCount' = sessHaltCount
      <4>1. sessHaltCount \in Int
        BY HaltFinite, CommunicatorAssumption DEF HaltInv
      <4>2. QED BY <2>4, <2>6, <4>1
    <3>3. \A t \in Sessions : /\ pc'[t] \in Counting <=> pc[t] \in Counting
                              /\ pc'[t] = "ended" <=> pc[t] = "ended"
                              /\ t \in leaving => pc'[t] \in LeavingSteps
      BY <1>1, <2>1, <3>1 DEF Counting, SessionSteps
    <3>4. QED BY <2>4, <3>2, <3>3, HaltSame
  <2>7. QED BY <2>5, <2>6
<1>7. CASE \/ SendJobReply(s) \/ HaltTest(s) \/ HaltSetActive(s) \/ HaltNotify(s)
           \/ ReleaseFd(s) \/ ClearActive(s) \/ ClearRunning(s) \/ UncountActive(s)
  <2>1. UNCHANGED <<leaving, runningSessCount, sessHaltCount>>
    BY <1>7 DEF SendJobReply, HaltTest, HaltSetActive, HaltNotify, ReleaseFd,
                ClearActive, ClearRunning, UncountActive, countVars, haltVars
  <2>2. \A t \in Sessions :
            \/ pc'[t] = pc[t]
            \/ pc[t] = "asleep" /\ pc'[t] = "wait"
            \/ pc[t] = "subscribe" /\ pc'[t] = "serve"
            \/ /\ pc[t] \in LeavingSteps \ {"ended"} /\ pc'[t] \in LeavingSteps \ {"ended"}
    BY <1>1, <1>7 DEF SendJobReply, HaltTest, HaltSetActive, HaltNotify, ReleaseFd,
                ClearActive, ClearRunning, UncountActive, Goto, LeavingSteps
  <2>3. \A t \in Sessions : /\ pc'[t] \in Counting <=> pc[t] \in Counting
                            /\ pc'[t] = "ended" <=> pc[t] = "ended"
                            /\ t \in leaving => pc'[t] \in LeavingSteps
    BY <1>1, <2>2 DEF Counting, SessionSteps, LeavingSteps
  <2>4. QED BY <2>1, <2>3, HaltSame
<1>8. QED
  BY <1>2, <1>3, <1>4, <1>5, <1>6, <1>7 DEF SessThread

LEMMA HaltStep == SessionInv /\ HaltInv /\ [Next]_vars => HaltInv'
<1>1. SUFFICES ASSUME SessionInv, HaltInv, [Next]_vars PROVE HaltInv'
  OBVIOUS
<1>2. ASSUME UNCHANGED <<leaving, runningSessCount, sessHaltCount>>,
             \A s \in Sessions : pc'[s] = pc[s] \/ (pc[s] = "asleep" /\ pc'[s] = "wait")
      PROVE  HaltInv'
  <2>1. \A t \in Sessions : /\ pc'[t] \in Counting <=> pc[t] \in Counting
                            /\ pc'[t] = "ended" <=> pc[t] = "ended"
                            /\ t \in leaving => pc'[t] \in LeavingSteps
    BY <1>1, <1>2 DEF HaltInv, Counting, LeavingSteps
  <2>2. QED BY <1>1, <1>2, <2>1, HaltSame
<1>3. CASE UNCHANGED vars
  BY <1>2, <1>3 DEF vars, sessVars, countVars, haltVars
<1>4. ASSUME NEW c \in Conns, Client(c) PROVE HaltInv'
  BY <1>2, <1>4 DEF Client, Connect, Send, sessVars, countVars, haltVars
<1>5. CASE Listener
  <2>1. UNCHANGED <<leaving, runningSessCount, sessHaltCount>>
    BY <1>5 DEF Listener, Select, CheckCounts, ScanNext, ScanRunning, Accept,
         ListenerSetActive, ListenerNotify, sessVars, countVars, haltVars
  <2>2. \A s \in Sessions : pc'[s] = pc[s] \/ (pc[s] = "asleep" /\ pc'[s] = "wait")
    BY <1>1, <1>5 DEF Listener, Select, CheckCounts, ScanNext, ScanRunning, Accept,
         ListenerSetActive, ListenerNotify, Notify, sessVars, SessionInv, TypeInv
  <2>3. QED BY <1>2, <2>1, <2>2
<1>6. ASSUME NEW s \in Sessions, SessThread(s) \/ SendJobReply(s) PROVE HaltInv'
  BY <1>1, <1>6, HaltedStep
<1>7. QED BY <1>1, <1>3, <1>4, <1>5, <1>6 DEF Next
(* halt() has returned in a thread that goes on to release its session.    *)
PastHalt == {"releaseFd", "clearActive", "clearRunning", "uncount", "free", "ended"}

(* halt() returns when every session thread has ended, or is on its way to *)
(* its end out of a halt() of its own.                                     *)
HaltWaitsForAll ==
    (\E s \in leaving : pc[s] \in PastHalt) =>
        \A t \in Sessions : t \in leaving \/ pc[t] = "ended"

LEMMA HaltedGrows ==
    ASSUME SessionInv, HaltInv, [Next]_vars PROVE HaltedSet \subseteq HaltedSet'
<1>1. pc \in [Sessions -> SessionSteps]
  BY DEF SessionInv, TypeInv
<1>2. leaving \subseteq leaving'
  BY DEF Next, Client, Connect, Send, Listener, Select, CheckCounts, ScanNext,
         ScanRunning, Accept, ListenerSetActive, ListenerNotify, SessThread, Wait, Sleep,
         CountRunning, StartSession, Receive, SendJobReply, HaltTest, HaltSetActive,
         HaltNotify, ReleaseFd, ClearActive, ClearRunning, UncountActive, FreeSession,
         vars, sessVars
<1>3. ASSUME NEW t \in Sessions, pc[t] = "ended" PROVE pc'[t] = "ended"
  <2>1. CASE UNCHANGED vars \/ \E c \in Conns : Client(c)
    BY <1>3, <2>1 DEF Client, Connect, Send, vars, sessVars
  <2>2. CASE Listener
    BY <1>1, <1>3, <2>2 DEF Listener, Select, CheckCounts, ScanNext, ScanRunning, Accept,
         ListenerSetActive, ListenerNotify, Notify, sessVars
  <2>3. ASSUME NEW s \in Sessions, SessThread(s) \/ SendJobReply(s)
        PROVE  pc'[t] = "ended"
    BY <1>1, <1>3, <2>3 DEF SessThread, Wait, Sleep, CountRunning, StartSession, Receive,
       SendJobReply, HaltTest, HaltSetActive, HaltNotify, ReleaseFd, ClearActive,
       ClearRunning, UncountActive, FreeSession, Goto
  <2>4. QED BY <2>1, <2>2, <2>3 DEF Next
<1>4. QED BY <1>2, <1>3 DEF HaltedSet

LEMMA HaltWaitsStep ==
    ASSUME SessionInv, HaltInv, HaltWaitsForAll, [Next]_vars PROVE HaltWaitsForAll'
<1>1. HaltedSet \subseteq HaltedSet'
  BY HaltedGrows
<1>2. HaltedSet = Sessions <=> \A t \in Sessions : t \in leaving \/ pc[t] = "ended"
  BY DEF HaltedSet
<1>3. (HaltedSet = Sessions)' => (\A t \in Sessions : t \in leaving \/ pc[t] = "ended")'
  BY DEF HaltedSet
<1>4. HaltedSet = Sessions => HaltedSet' = Sessions
  BY <1>1 DEF HaltedSet
<1>5. SUFFICES ASSUME NEW s \in leaving', pc'[s] \in PastHalt PROVE HaltedSet = Sessions
  BY <1>3, <1>4 DEF HaltWaitsForAll
<1>6. CASE s \in leaving /\ pc[s] \in PastHalt
  BY <1>2, <1>6 DEF HaltWaitsForAll
<1>7. CASE ~(s \in leaving /\ pc[s] \in PastHalt)
  <2>1. pc \in [Sessions -> SessionSteps] /\ leaving \subseteq Sessions
        /\ \A t \in leaving : pc[t] \in LeavingSteps
    BY DEF SessionInv, TypeInv, HaltInv
  <2>2. HaltTest(s) /\ s \in Sessions
    <3>1. CASE UNCHANGED vars \/ \E c \in Conns : Client(c)
      BY <1>5, <1>7, <3>1 DEF Client, Connect, Send, vars, sessVars
    <3>2. CASE Listener
      <4>1. leaving' = leaving
        BY <3>2 DEF Listener, Select, CheckCounts, ScanNext, ScanRunning, Accept,
           ListenerSetActive, ListenerNotify, sessVars
      <4>2. \A t \in Sessions : pc'[t] = pc[t] \/ pc'[t] = "wait"
        BY <2>1, <3>2 DEF Listener, Select, CheckCounts, ScanNext, ScanRunning, Accept,
           ListenerSetActive, ListenerNotify, Notify, sessVars
      <4>3. QED BY <1>5, <1>7, <2>1, <4>1, <4>2 DEF PastHalt
    <3>3. ASSUME NEW r \in Sessions, SessThread(r) \/ SendJobReply(r)
          PROVE  HaltTest(s) /\ s \in Sessions
      <4>1. CASE Receive(r)
        <5>1. pc[r] = "serve" /\ r \notin leaving
          BY <2>1, <4>1 DEF Receive, LeavingSteps
        <5>2. \A t \in Sessions \ {r} : pc'[t] = pc[t]
          BY <2>1, <4>1 DEF Receive, Goto
        <5>3. leaving' = IF inbox[socket[fd[r]]] = "HaltMachine" THEN leaving \cup {r}
                         ELSE leaving
          BY <4>1 DEF Receive
        <5>4. s = r /\ inbox[socket[fd[r]]] = "HaltMachine"
          BY <1>5, <1>7, <2>1, <5>1, <5>2, <5>3
        <5>5. pc'[r] = "haltTest"
          BY <2>1, <4>1, <5>4 DEF Receive, Goto
        <5>6. QED BY <1>5, <5>4, <5>5 DEF PastHalt
      <4>2. CASE HaltNotify(r)
        <5>1. leaving' = leaving
          BY <4>2 DEF HaltNotify
        <5>2. \A t \in Sessions : pc'[t] = pc[t] \/ pc'[t] \in {"wait", "haltWake", "haltTest"}
          BY <2>1, <4>2 DEF HaltNotify
        <5>3. QED BY <1>5, <1>7, <2>1, <5>1, <5>2 DEF PastHalt
      <4>3. CASE ~(Receive(r) \/ HaltNotify(r))
        <5>1. leaving' = leaving /\ \E step : Goto(r, step) \/ UNCHANGED pc
          BY <3>3, <4>3 DEF SessThread, Wait, Sleep, CountRunning, StartSession, SendJobReply,
             HaltTest, HaltSetActive, ReleaseFd, ClearActive, ClearRunning, UncountActive,
             FreeSession
        <5>2. s = r /\ pc[s] \in LeavingSteps \ PastHalt
          BY <1>5, <1>7, <2>1, <5>1 DEF Goto
        <5>3. QED
          BY <1>5, <2>1, <3>3, <4>3, <5>2 DEF SessThread, Wait, Sleep, CountRunning, StartSession,
             SendJobReply, HaltTest, HaltSetActive, ReleaseFd, ClearActive, ClearRunning,
             UncountActive, FreeSession, Goto, LeavingSteps, PastHalt
      <4>4. QED BY <4>1, <4>2, <4>3
    <3>4. QED BY <3>1, <3>2, <3>3 DEF Next
  <2>3. ~(sessHaltCount < SessCount)
    BY <1>5, <2>1, <2>2 DEF HaltTest, Goto, PastHalt
  <2>4. Cardinality(HaltedSet) = SessCount
    BY <2>3, HaltFinite, CommunicatorAssumption DEF HaltInv
  <2>5. IsFiniteSet(Sessions) /\ Cardinality(Sessions) = SessCount
    <3>1. SessCount \in Nat /\ Sessions = 0..(SessCount - 1)
      BY CommunicatorAssumption DEF Sessions
    <3>2. QED BY <3>1, FS_Interval
  <2>6. HaltedSet \in SUBSET Sessions
    BY DEF HaltedSet
  <2>7. QED BY <2>4, <2>5, <2>6, FS_Subset
<1>8. QED BY <1>6, <1>7

LEMMA InitHaltWaits == Init => HaltWaitsForAll
BY DEF Init, HaltWaitsForAll

(* halt() of a session that received HaltMachine wakes up the others until *)
(* all have ended: none is left behind when it returns.                    *)
THEOREM HaltLeavesNobody == Spec => []HaltWaitsForAll
BY SessionsSafe, InitHalt, HaltStep, InitHaltWaits, HaltWaitsStep, PTL DEF Spec

-----------------------------------------------------------------------------
(* The types of what is left.  The listener looks at sockets that are in    *)
(* fdToSessMap: entries are only added, as no socket has the number of a    *)
(* session.  The loop of a halt() stays within the sessions.                *)

RestInv ==
    /\ active \in [Sessions -> BOOLEAN] /\ running \in [Sessions -> BOOLEAN]
    /\ haltAt \in [Sessions -> 0..SessCount]
    /\ \A s \in Sessions : pc[s] \in {"haltWake", "haltNotify"} => haltAt[s] \in Sessions
    /\ DOMAIN fdToSessMap \subseteq Fds
    /\ \A f \in DOMAIN fdToSessMap : fdToSessMap[f] \in Sessions
    /\ halting \in BOOLEAN
    /\ listener \in ListenerSteps
    /\ scan \subseteq DOMAIN fdToSessMap /\ target \in Sessions /\ newcomer \in BOOLEAN
    /\ client \in [Conns -> {"new", "asking", "ready", "gone"}]
    /\ aborted \in BOOLEAN

LEMMA InitRest == Init => RestInv
<1>1. SUFFICES ASSUME Init PROVE RestInv
  OBVIOUS
<1>2. DOMAIN <<>> = {}
  OBVIOUS
<1>3. 0 \in Sessions /\ 0 \in 0..SessCount
  BY CommunicatorAssumption DEF Sessions
<1>4. QED BY <1>1, <1>2, <1>3 DEF Init, RestInv, ListenerSteps

LEMMA ClientRest ==
    ASSUME NEW c \in Conns, RestInv, Client(c) PROVE RestInv'
<1>1. UNCHANGED <<active, running, haltAt, pc, fdToSessMap, halting, listener, scan,
                  target, newcomer, aborted>>
  BY DEF Client, Connect, Send, sessVars, haltVars, listenerVars
<1>2. \E w \in {"asking", "gone"} : client' = [client EXCEPT ![c] = w]
  BY DEF Client, Connect, Send
<1>3. client' \in [Conns -> {"new", "asking", "ready", "gone"}]
  BY <1>2 DEF RestInv
<1>4. QED BY <1>1, <1>3 DEF RestInv

LEMMA ListenerRest ==
    ASSUME SessionInv, RestInv, Listener PROVE RestInv'
<1>1. /\ UNCHANGED <<running, haltAt, halting, client>>
      /\ \A s \in Sessions : pc'[s] = pc[s] \/ pc'[s] = "wait"
  <2>1. UNCHANGED <<running, haltAt, halting, client>>
    BY DEF Listener, Select, CheckCounts, ScanNext, ScanRunning, Accept,
           ListenerSetActive, ListenerNotify, sessVars, haltVars, netVars
  <2>2. \A s \in Sessions : pc'[s] = pc[s] \/ pc'[s] = "wait"
    BY DEF Listener, Select, CheckCounts, ScanNext, ScanRunning, Accept,
         ListenerSetActive, ListenerNotify, Notify, sessVars, SessionInv, TypeInv
  <2>3. QED BY <2>1, <2>2
<1>2. SUFFICES /\ active' \in [Sessions -> BOOLEAN]
               /\ DOMAIN fdToSessMap' \subseteq Fds
               /\ \A f \in DOMAIN fdToSessMap' : fdToSessMap'[f] \in Sessions
               /\ listener' \in ListenerSteps
               /\ scan' \subseteq DOMAIN fdToSessMap'
               /\ target' \in Sessions /\ newcomer' \in BOOLEAN
               /\ aborted' \in BOOLEAN
  BY <1>1 DEF RestInv
<1>3. 0 \in Sessions
  BY CommunicatorAssumption DEF Sessions
<1>4. CASE Select
  BY <1>4 DEF Select, ListenerGoto, ListenerSteps, RestInv, sessVars
<1>5. CASE CheckCounts
  BY <1>5 DEF CheckCounts, ListenerGoto, ListenerSteps, RestInv, sessVars
<1>6. CASE ScanNext
  <2>1. target' \in Sessions /\ scan' \subseteq scan
    BY <1>3, <1>6 DEF ScanNext, RestInv
  <2>2. listener' \in {"accept", "scan", "scanRunning"}
    BY <1>6 DEF ScanNext, ListenerGoto
  <2>3. QED
    BY <1>6, <2>1, <2>2 DEF ScanNext, ListenerSteps, RestInv, sessVars
<1>7. CASE ScanRunning
  BY <1>7 DEF ScanRunning, ListenerGoto, ListenerSteps, RestInv, sessVars
<1>8. CASE ListenerSetActive
  BY <1>8 DEF ListenerSetActive, SetActive, ListenerGoto, ListenerSteps, RestInv
<1>9. CASE ListenerNotify
  BY <1>3, <1>9 DEF ListenerNotify, ListenerGoto, ListenerSteps, RestInv
<1>10. CASE Accept
  <2>1. UNCHANGED <<active, scan, newcomer>>
    BY <1>10 DEF Accept
  <2>2. CASE UNCHANGED <<fdToSessMap, target>>
    BY <1>10, <2>1, <2>2 DEF Accept, ListenerGoto, ListenerSteps, RestInv
  <2>3. CASE ~UNCHANGED <<fdToSessMap, target>>
    <3>1. PICK f \in NewFd : /\ freeSessIdList # <<>> /\ SetSess(f)
                             /\ ListenerGoto("wake") /\ UNCHANGED aborted
      BY <1>10, <2>3 DEF Accept
    <3>2. f \in Fds
      BY DEF NewFd
    <3>3. Head(freeSessIdList) \in Sessions
      BY <3>1 DEF SessionInv, TypeInv
    <3>4. /\ fdToSessMap' = [g \in DOMAIN fdToSessMap \cup {f} |->
                IF g = f THEN Head(freeSessIdList) ELSE fdToSessMap[g]]
          /\ target' = Head(freeSessIdList)
      BY <3>1 DEF SetSess, TakeSession
    <3>5. /\ DOMAIN fdToSessMap' = DOMAIN fdToSessMap \cup {f}
          /\ \A g \in DOMAIN fdToSessMap' : fdToSessMap'[g] \in Sessions
      BY <3>3, <3>4 DEF RestInv
    <3>6. QED
      BY <2>1, <3>1, <3>2, <3>3, <3>4, <3>5 DEF RestInv, ListenerGoto, ListenerSteps
  <2>4. QED BY <2>2, <2>3
<1>11. QED
  BY <1>4, <1>5, <1>6, <1>7, <1>8, <1>9, <1>10 DEF Listener

LEMMA ThreadRest ==
    ASSUME NEW s \in Sessions, SessionInv, RestInv, SessThread(s) \/ SendJobReply(s)
    PROVE  RestInv'
<1>1. pc \in [Sessions -> SessionSteps]
  BY DEF SessionInv, TypeInv
<1>2. UNCHANGED <<listener, scan, target, newcomer>>
  BY DEF SessThread, Wait, Sleep, CountRunning, StartSession, Receive, SendJobReply, HaltTest,
         HaltSetActive, HaltNotify, ReleaseFd, ClearActive, ClearRunning, UncountActive,
         FreeSession, listenerVars
<1>3. fdToSessMap' = fdToSessMap \/ ReleaseFd(s)
  BY DEF SessThread, Wait, Sleep, CountRunning, StartSession, Receive, SendJobReply, HaltTest,
         HaltSetActive, HaltNotify, ClearActive, ClearRunning, UncountActive, FreeSession
<1>4. /\ DOMAIN fdToSessMap' = DOMAIN fdToSessMap
      /\ \A f \in DOMAIN fdToSessMap' : fdToSessMap'[f] \in Sessions
  <2>1. CASE ReleaseFd(s)
    <3>1. fdToSessMap' = [f \in DOMAIN fdToSessMap \ {s} |-> fdToSessMap[f]]
      BY <2>1 DEF ReleaseFd
    <3>2. s \notin DOMAIN fdToSessMap
      BY CommunicatorAssumption DEF RestInv
    <3>3. QED BY <3>1, <3>2 DEF RestInv
  <2>2. QED BY <1>3, <2>1 DEF RestInv
<1>5. active' \in [Sessions -> BOOLEAN] /\ running' \in [Sessions -> BOOLEAN]
  <2>1. CASE Wait(s)
    <3>1. active' = active /\ running' = [running EXCEPT ![s] = @ \/ active[s]]
      BY <2>1 DEF Wait
    <3>2. QED BY <3>1 DEF RestInv
  <2>2. CASE HaltSetActive(s)
    BY <2>2 DEF HaltSetActive, SetActive, RestInv
  <2>3. CASE ClearActive(s) \/ ClearRunning(s)
    BY <2>3 DEF ClearActive, ClearRunning, RestInv
  <2>4. CASE \/ Sleep(s) \/ CountRunning(s) \/ StartSession(s) \/ Receive(s) \/ SendJobReply(s)
             \/ HaltTest(s) \/ HaltNotify(s) \/ ReleaseFd(s) \/ UncountActive(s)
             \/ FreeSession(s)
    <3>1. active' = active /\ running' = running
      BY <2>4 DEF Sleep, CountRunning, StartSession, Receive, SendJobReply, HaltTest,
           HaltNotify, ReleaseFd, UncountActive, FreeSession
    <3>2. QED BY <3>1 DEF RestInv
  <2>5. QED BY <2>1, <2>2, <2>3, <2>4 DEF SessThread
<1>6. /\ haltAt' \in [Sessions -> 0..SessCount]
      /\ \A t \in Sessions : pc'[t] \in {"haltWake", "haltNotify"} => haltAt'[t] \in Sessions
  <2>1. SessCount \in Nat \ {0} /\ Sessions = 0..(SessCount - 1)
    BY CommunicatorAssumption DEF Sessions
  <2>2. CASE HaltTest(s)
    <3>1. haltAt' = [haltAt EXCEPT ![s] = 0] /\ \A t \in Sessions \ {s} : pc'[t] = pc[t]
      BY <1>1, <2>2 DEF HaltTest, Goto
    <3>2. 0 \in Sessions /\ 0 \in 0..SessCount
      BY <2>1
    <3>3. QED BY <3>1, <3>2 DEF RestInv
  <2>3. CASE HaltSetActive(s)
    BY <1>1, <2>3 DEF HaltSetActive, Goto, RestInv
  <2>4. CASE HaltNotify(s)
    <3>1. /\ haltAt[s] \in Sessions /\ haltAt' = [haltAt EXCEPT ![s] = haltAt[s] + 1]
          /\ pc'[s] = IF haltAt[s] + 1 < SessCount THEN "haltWake" ELSE "haltTest"
          /\ \A t \in Sessions \ {s} : pc'[t] = pc[t] \/ pc'[t] = "wait"
      BY <2>4 DEF HaltNotify, RestInv
    <3>2. haltAt[s] + 1 \in 0..SessCount
          /\ (haltAt[s] + 1 < SessCount => haltAt[s] + 1 \in Sessions)
      BY <2>1, <3>1
    <3>3. QED BY <3>1, <3>2 DEF RestInv
  <2>5. CASE ~(HaltTest(s) \/ HaltSetActive(s) \/ HaltNotify(s))
    <3>1. haltAt' = haltAt
      BY <2>5 DEF SessThread, Wait, Sleep, CountRunning, StartSession, Receive, SendJobReply,
           ReleaseFd, ClearActive, ClearRunning, UncountActive, FreeSession
    <3>2. \A t \in Sessions \ {s} : pc'[t] = pc[t]
      <4>1. \E step : Goto(s, step) \/ UNCHANGED pc
        BY <2>5 DEF SessThread, Wait, Sleep, CountRunning, StartSession, Receive, SendJobReply,
           ReleaseFd, ClearActive, ClearRunning, UncountActive, FreeSession
      <4>2. QED BY <1>1, <4>1 DEF Goto
    <3>3. pc'[s] \notin {"haltWake", "haltNotify"}
      <4>1. CASE Receive(s)
        <5>1. socket[fd[s]] \in Conns
          <6>1. fd[s] # None /\ socket[fd[s]] # None
            BY <4>1 DEF Receive, SessionInv, FreeInv, HeldInv, OpenInv, Resting, Closing,
                        Released
          <6>2. QED BY <6>1 DEF SessionInv, TypeInv
        <5>2. inbox[socket[fd[s]]] \in Messages
          BY <4>1, <5>1 DEF Receive, SessionInv, TypeInv
        <5>3. \E step \in {"serve", "subscribe", "releaseFd", "haltTest"} : Goto(s, step)
          BY <4>1, <5>2 DEF Receive, Messages
        <5>4. QED BY <1>1, <5>3 DEF Goto
      <4>2. CASE ~Receive(s)
        BY <1>1, <2>5, <4>2 DEF SessThread, Wait, Sleep, CountRunning, StartSession, SendJobReply,
           ReleaseFd, ClearActive, ClearRunning, UncountActive, FreeSession, Goto
      <4>3. QED BY <4>1, <4>2
    <3>4. QED BY <3>1, <3>2, <3>3 DEF RestInv
  <2>6. QED BY <2>2, <2>3, <2>4, <2>5
<1>7. /\ halting' \in BOOLEAN /\ aborted' \in BOOLEAN
      /\ client' \in [Conns -> {"new", "asking", "ready", "gone"}]
  <2>1. aborted' \in BOOLEAN
    BY DEF SessThread, Wait, Sleep, CountRunning, StartSession, Receive, SendJobReply, HaltTest,
         HaltSetActive, HaltNotify, ReleaseFd, ClearActive, ClearRunning, UncountActive,
         FreeSession, RestInv
  <2>2. CASE Receive(s)
    <3>1. halting' \in BOOLEAN
      BY <2>2 DEF Receive, RestInv
    <3>2. client' = [client EXCEPT ![socket[fd[s]]] =
                        IF inbox[socket[fd[s]]] = "Welcome" THEN "ready" ELSE @]
      BY <2>2 DEF Receive
    <3>3. QED BY <2>1, <3>1, <3>2 DEF RestInv
  <2>3. CASE SendJobReply(s)
    BY <2>1, <2>3 DEF SendJobReply, RestInv, haltVars
  <2>4. CASE ~(Receive(s) \/ SendJobReply(s))
    <3>1. halting' = halting /\ client' = client
      BY <2>4 DEF SessThread, Wait, Sleep, CountRunning, StartSession, HaltTest, HaltSetActive,
         HaltNotify, ReleaseFd, ClearActive, ClearRunning, UncountActive, FreeSession,
         haltVars, netVars
    <3>2. QED BY <2>1, <3>1 DEF RestInv
  <2>5. QED BY <2>2, <2>3, <2>4
<1>8. QED
  BY <1>2, <1>4, <1>5, <1>6, <1>7 DEF RestInv

LEMMA RestStep == SessionInv /\ RestInv /\ [Next]_vars => RestInv'
<1>1. SUFFICES ASSUME SessionInv, RestInv, [Next]_vars PROVE RestInv'
  OBVIOUS
<1>2. CASE UNCHANGED vars
  BY <1>1, <1>2 DEF RestInv, vars, sessVars, haltVars, listenerVars, netVars
<1>3. QED
  BY <1>1, <1>2, ClientRest, ListenerRest, ThreadRest DEF Next

LEMMA TypesFollow == SessionInv /\ CountInv /\ HaltInv /\ RestInv => TypeOK
<1>1. SUFFICES ASSUME SessionInv, CountInv, HaltInv, RestInv PROVE TypeOK
  OBVIOUS
<1>2. /\ activeSessCount \in 0..SessCount /\ runningSessCount \in 0..SessCount
      /\ sessHaltCount \in 0..SessCount
  BY <1>1, HaltFinite DEF CountInv, ActiveInv, HaltInv
<1>3. QED
  BY <1>1, <1>2 DEF TypeOK, SessionInv, TypeInv, HaltInv, RestInv

(* The inductive invariant of the counters of the halt and of the types:   *)
(* every thread that ended is counted by halt() once, and only once.       *)
THEOREM HaltsSafe == Spec => [](HaltInv /\ RestInv)
BY SessionsSafe, InitHalt, InitRest, HaltStep, RestStep, PTL DEF Spec

(* The counters stay within the number of sessions, and the loops of the   *)
(* listener and of halt() within their arrays, for any number of each.     *)
THEOREM TypesSafe == Spec => []TypeOK
BY SessionsSafe, CountsSafe, HaltsSafe, TypesFollow, PTL

-----------------------------------------------------------------------------
(* Wake-ups.  No step but that of a waker touches the flag of a thread that *)
(* sleeps or falls asleep, and only the waker itself takes back its promise *)
(* to notify.                                                               *)

Sleepy == {"fallAsleep", "asleep"}

LEMMA WakeupStays ==
    ASSUME WakeupComes, UNCHANGED <<listener, target>>,
           \A s \in Sessions :
              /\ pc'[s] \in Sleepy /\ active'[s] => pc[s] \in Sleepy /\ active[s]
              /\ pc[s] = "haltNotify" => pc'[s] = "haltNotify" /\ haltAt'[s] = haltAt[s]
    PROVE  WakeupComes'
BY DEF WakeupComes, Sleepy

LEMMA ListenerWakeup ==
    ASSUME SessionInv, RestInv, WakeupComes, Listener PROVE WakeupComes'
<1>1. /\ pc \in [Sessions -> SessionSteps] /\ active \in [Sessions -> BOOLEAN]
      /\ target \in Sessions
  BY DEF SessionInv, TypeInv, RestInv
<1>2. CASE Select \/ CheckCounts \/ ScanNext \/ ScanRunning \/ Accept
  <2>1. listener \notin {"scanNotify", "notify"} /\ UNCHANGED <<pc, active, haltAt>>
    BY <1>2 DEF Select, CheckCounts, ScanNext, ScanRunning, Accept, sessVars
  <2>2. QED BY <2>1 DEF WakeupComes
<1>3. CASE ListenerSetActive
  <2>1. /\ listener \notin {"scanNotify", "notify"}
        /\ listener' \in {"scanNotify", "notify"}
        /\ UNCHANGED <<pc, haltAt, target>>
        /\ \A s \in Sessions \ {target} : active'[s] = active[s]
    BY <1>1, <1>3 DEF ListenerSetActive, ListenerGoto, SetActive
  <2>2. QED BY <2>1 DEF WakeupComes
<1>4. CASE ListenerNotify
  <2>1. /\ UNCHANGED <<active, haltAt>>
        /\ pc'[target] \notin Sleepy
        /\ \A s \in Sessions \ {target} : pc'[s] = pc[s]
        /\ pc[target] = "haltNotify" => pc'[target] = "haltNotify"
    BY <1>1, <1>4 DEF ListenerNotify, Notify, SessMutexFree, Sleepy
  <2>2. QED BY <2>1 DEF WakeupComes, Sleepy
<1>5. QED BY <1>2, <1>3, <1>4 DEF Listener

LEMMA ThreadWakeup ==
    ASSUME NEW s \in Sessions, SessionInv, RestInv, WakeupComes,
           SessThread(s) \/ SendJobReply(s)
    PROVE  WakeupComes'
<1>1. /\ pc \in [Sessions -> SessionSteps] /\ active \in [Sessions -> BOOLEAN]
      /\ haltAt \in [Sessions -> 0..SessCount]
  BY DEF SessionInv, TypeInv, RestInv
<1>2. UNCHANGED <<listener, target>>
  BY DEF SessThread, Wait, Sleep, CountRunning, StartSession, Receive, SendJobReply,
         HaltTest, HaltSetActive, HaltNotify, ReleaseFd, ClearActive, ClearRunning,
         UncountActive, FreeSession, listenerVars
<1>3. CASE Wait(s) \/ Sleep(s)
  <2>1. /\ UNCHANGED <<active, haltAt>>
        /\ pc[s] # "haltNotify" /\ \A t \in Sessions \ {s} : pc'[t] = pc[t]
        /\ pc'[s] \in Sleepy /\ active[s] => pc[s] \in Sleepy
    BY <1>1, <1>3 DEF Wait, Sleep, Goto, Sleepy
  <2>2. QED BY <1>2, <2>1, WakeupStays
<1>4. CASE HaltSetActive(s)
  <2>1. /\ pc'[s] = "haltNotify" /\ pc[s] = "haltWake" /\ haltAt' = haltAt
        /\ \A t \in Sessions \ {s} : pc'[t] = pc[t]
        /\ \A t \in Sessions \ {haltAt[s]} : active'[t] = active[t]
    BY <1>1, <1>4 DEF HaltSetActive, SetActive, Goto
  <2>2. QED BY <1>2, <2>1 DEF WakeupComes
<1>5. CASE HaltNotify(s)
  <2>1. /\ pc[s] = "haltNotify" /\ pc'[s] \in {"haltWake", "haltTest"}
        /\ active' = active
        /\ \A t \in Sessions \ {s} : haltAt'[t] = haltAt[t]
        /\ \A t \in Sessions \ {s} : t # haltAt[s] => pc'[t] = pc[t]
        /\ \A t \in Sessions \ {s} : t = haltAt[s] =>
              pc'[t] \notin Sleepy /\ (pc[t] = "haltNotify" => pc'[t] = pc[t])
    BY <1>1, <1>5 DEF HaltNotify, SessMutexFree, Sleepy
  <2>2. QED BY <1>2, <2>1 DEF WakeupComes, Sleepy
<1>6. CASE Receive(s)
  <2>1. pc[s] = "serve" /\ UNCHANGED <<active, haltAt>>
        /\ \A t \in Sessions \ {s} : pc'[t] = pc[t]
    BY <1>1, <1>6 DEF Receive, Goto
  <2>2. pc'[s] \notin Sleepy
    <3>1. socket[fd[s]] \in Conns
      <4>1. fd[s] # None /\ socket[fd[s]] # None
        BY <2>1 DEF SessionInv, FreeInv, HeldInv, OpenInv, Resting, Closing, Released
      <4>2. QED BY <4>1 DEF SessionInv, TypeInv
    <3>2. inbox[socket[fd[s]]] \in Messages
      BY <1>6, <3>1 DEF Receive, SessionInv, TypeInv
    <3>3. \E step \in {"serve", "subscribe", "releaseFd", "haltTest"} : Goto(s, step)
      BY <1>6, <3>2 DEF Receive, Messages
    <3>4. QED BY <1>1, <3>3 DEF Goto, Sleepy
  <2>3. QED BY <1>2, <2>1, <2>2, WakeupStays
<1>7. CASE \/ CountRunning(s) \/ StartSession(s) \/ SendJobReply(s) \/ HaltTest(s)
           \/ ReleaseFd(s) \/ ClearActive(s) \/ ClearRunning(s) \/ UncountActive(s)
           \/ FreeSession(s)
  <2>1. /\ pc[s] # "haltNotify" /\ pc'[s] \notin Sleepy
        /\ \A t \in Sessions \ {s} : /\ pc'[t] = pc[t] /\ active'[t] = active[t]
                                      /\ haltAt'[t] = haltAt[t]
    BY <1>1, <1>7 DEF CountRunning, StartSession, SendJobReply, HaltTest, ReleaseFd,
       ClearActive, ClearRunning, UncountActive, FreeSession, Goto, Sleepy
  <2>2. QED BY <1>2, <2>1, WakeupStays
<1>8. QED BY <1>3, <1>4, <1>5, <1>6, <1>7 DEF SessThread

LEMMA WakeupStep ==
    SessionInv /\ RestInv /\ WakeupComes /\ [Next]_vars => WakeupComes'
<1>1. SUFFICES ASSUME SessionInv, RestInv, WakeupComes, [Next]_vars PROVE WakeupComes'
  OBVIOUS
<1>2. CASE UNCHANGED vars \/ \E c \in Conns : Client(c)
  BY <1>1, <1>2, WakeupStays DEF Client, Connect, Send, vars, sessVars, listenerVars
<1>3. QED
  BY <1>1, <1>2, ListenerWakeup, ThreadWakeup DEF Next

LEMMA InitWakeup == Init => WakeupComes
BY DEF Init, WakeupComes

(* wakeup() raises the flag without sessMutex and notifies with it: a      *)
(* thread that saw the flag down before is notified once it sleeps, in     *)
(* whatever order listener, halts and threads take their steps.            *)
THEOREM WakeupsCome == Spec => []WakeupComes
BY SessionsSafe, HaltsSafe, InitWakeup, WakeupStep, PTL DEF Spec
=============================================================================
