---------------------------- MODULE Communicator ----------------------------
(***************************************************************************)
(* The server side of the sessions, sess/Communicator.cpp: the listener    *)
(* accepts connections and hands each socket to a free session thread, the *)
(* session thread serves it and releases it, and HaltMachine ends them     *)
(* all.  The clients are those of the client library: they open with       *)
(* Welcome, wait for the reply to each message and close with GoodBye.     *)
(***************************************************************************)
EXTENDS Integers, FiniteSets, SequencesExt

CONSTANTS
    SessCount,       \* SESS_COUNT, the number of session threads
    Fds,             \* file descriptors accept() may return
    ConnCount,       \* bound: how many connections clients make
    None             \* no file descriptor (-1), no message

Sessions == 0..(SessCount - 1)

(* Connections are numbered as they are made.                              *)
Conns == 1..ConnCount

(* A socket with the number of a session would have its entry erased by    *)
(* that session's releaseFd, under the listener's iterator.                *)
ASSUME CommunicatorAssumption ==
    /\ SessCount \in Nat \ {0}
    /\ Fds \subseteq Nat
    /\ Fds \cap Sessions = {}
    /\ ConnCount \in Nat
    /\ None \notin Fds \cup Conns

VARIABLES
    active, running, \* the flags of a SessContext
    fd,              \* ... and its socket
    pc,              \* where a session thread is
    leaving,         \* the session threads whose continueLoop is false
    haltAt,          \* the session that the loop of a halt() is at
    freeSessIdList,
    fdToSessMap,
    activeSessCount, runningSessCount,
    halting, sessHaltCount,
    listener,        \* where the listener is
    scan,            \* the sockets it has still to look at
    target,          \* the session it looks at or wakes up
    newcomer,        \* FD_ISSET: a connection was pending when select() returned
    backlog,         \* connections not yet accepted
    socket,          \* the connection of an open socket
    client,          \* where a client is
    inbox,           \* its message that the server has not yet received
    aborted          \* an assertion failed, the process is gone

sessVars     == <<active, running, fd, pc, leaving, haltAt>>
countVars    == <<activeSessCount, runningSessCount>>
haltVars     == <<halting, sessHaltCount>>
listenerVars == <<listener, scan, target, newcomer>>
netVars      == <<backlog, socket, client, inbox>>
vars == <<sessVars, freeSessIdList, fdToSessMap, countVars, haltVars,
          listenerVars, netVars, aborted>>

Messages == {"Welcome", "PushJob", "GoodBye", "HaltMachine"}
SessionSteps == {"wait", "fallAsleep", "asleep", "count", "start", "serve",
                 "subscribe", "haltTest", "haltWake", "haltNotify",
                 "releaseFd", "clearActive", "clearRunning", "uncount", "free",
                 "ended"}
ListenerSteps == {"select", "check", "scan", "scanRunning", "scanWake",
                  "scanNotify", "accept", "wake", "notify", "ended"}

TypeOK ==
    /\ active \in [Sessions -> BOOLEAN] /\ running \in [Sessions -> BOOLEAN]
    /\ fd \in [Sessions -> Fds \cup {None}]
    /\ pc \in [Sessions -> SessionSteps]
    /\ leaving \subseteq Sessions
    /\ haltAt \in [Sessions -> 0..SessCount]
    /\ freeSessIdList \in Seq(Sessions)
    /\ DOMAIN fdToSessMap \subseteq Fds
    /\ \A f \in DOMAIN fdToSessMap : fdToSessMap[f] \in Sessions
    /\ activeSessCount \in 0..SessCount /\ runningSessCount \in 0..SessCount
    /\ halting \in BOOLEAN /\ sessHaltCount \in 0..SessCount
    /\ listener \in ListenerSteps
    /\ scan \subseteq Fds /\ target \in Sessions /\ newcomer \in BOOLEAN
    /\ backlog \in Seq(Conns)
    /\ socket \in [Fds -> Conns \cup {None}]
    /\ client \in [Conns -> {"new", "asking", "ready", "gone"}]
    /\ inbox \in [Conns -> Messages \cup {None}]
    /\ aborted \in BOOLEAN

Init ==
    /\ active = [s \in Sessions |-> FALSE]
    /\ running = [s \in Sessions |-> FALSE]
    /\ fd = [s \in Sessions |-> None]
    /\ pc = [s \in Sessions |-> "wait"]
    /\ leaving = {}
    /\ haltAt = [s \in Sessions |-> 0]
    /\ freeSessIdList = [i \in 1..SessCount |-> i - 1]
    /\ fdToSessMap = <<>>
    /\ activeSessCount = 0 /\ runningSessCount = 0
    /\ halting = FALSE /\ sessHaltCount = 0
    /\ listener = "select"
    /\ scan = {} /\ target = 0 /\ newcomer = FALSE
    /\ backlog = <<>>
    /\ socket = [f \in Fds |-> None]
    /\ client = [c \in Conns |-> "new"]
    /\ inbox = [c \in Conns |-> None]
    /\ aborted = FALSE

Goto(s, step) == pc' = [pc EXCEPT ![s] = step]
ListenerGoto(step) == listener' = step

-----------------------------------------------------------------------------
(* Clients.                                                                *)

Connect(c) ==
    /\ client[c] = "new"
    /\ \A d \in Conns : d < c => client[d] # "new"
    /\ client' = [client EXCEPT ![c] = "asking"]
    /\ inbox' = [inbox EXCEPT ![c] = "Welcome"]
    /\ backlog' = Append(backlog, c)
    /\ UNCHANGED <<sessVars, freeSessIdList, fdToSessMap, countVars, haltVars,
                   listenerVars, socket, aborted>>

(* Nothing is sent back for GoodBye and HaltMachine: the client closes.    *)
Send(c, msg) ==
    /\ client[c] = "ready"
    /\ client' = [client EXCEPT ![c] = IF msg = "PushJob" THEN "asking" ELSE "gone"]
    /\ inbox' = [inbox EXCEPT ![c] = msg]
    /\ UNCHANGED <<sessVars, freeSessIdList, fdToSessMap, countVars, haltVars,
                   listenerVars, backlog, socket, aborted>>

-----------------------------------------------------------------------------
(* wakeup(): active is set without the mutex, the notification is sent     *)
(* with it.  A session thread holds its sessMutex between the predicate of *)
(* its wait and its sleep.                                                 *)

SetActive(s) == active' = [active EXCEPT ![s] = TRUE]

SessMutexFree(s) == pc[s] # "fallAsleep"

(* Mutants: nobody is notified; the notification is sent without sessMutex.*)
NotifyNobody(s) == UNCHANGED pc

NotifyUnlocked(s) == pc' = [pc EXCEPT ![s] = IF @ = "asleep" THEN "wait" ELSE @]

Notify(s) ==
    /\ SessMutexFree(s)
    /\ pc' = [pc EXCEPT ![s] = IF @ = "asleep" THEN "wait" ELSE @]

-----------------------------------------------------------------------------
(* listenerThread                                                          *)

(* select() returns, with a newcomer or after its timeout.                 *)
Select ==
    /\ listener = "select"
    /\ newcomer' = (backlog # <<>>)
    /\ ListenerGoto(IF halting THEN "ended" ELSE "check")
    /\ UNCHANGED <<sessVars, freeSessIdList, fdToSessMap, countVars, haltVars,
                   scan, target, netVars, aborted>>

(* Fewer threads run than there are sessions: wake up those that hang.     *)
CheckCounts ==
    /\ listener = "check"
    /\ IF activeSessCount > runningSessCount
       THEN scan' = DOMAIN fdToSessMap /\ ListenerGoto("scan")
       ELSE scan' = {} /\ ListenerGoto("accept")
    /\ UNCHANGED <<sessVars, freeSessIdList, fdToSessMap, countVars, haltVars,
                   target, newcomer, netVars, aborted>>

ScanNext ==
    /\ listener = "scan"
    /\ IF scan = {}
       THEN ListenerGoto("accept") /\ target' = 0 /\ UNCHANGED scan
       ELSE \E f \in scan :
            /\ \A g \in scan : f <= g
            /\ scan' = scan \ {f}
            /\ target' = fdToSessMap[f]
            /\ ListenerGoto(IF active[target'] THEN "scanRunning" ELSE "scan")
    /\ UNCHANGED <<sessVars, freeSessIdList, fdToSessMap, countVars, haltVars,
                   newcomer, netVars, aborted>>

(* The second half of the condition, read after the first.                 *)
ScanRunning ==
    /\ listener = "scanRunning"
    /\ ListenerGoto(IF running[target] THEN "scan" ELSE "scanWake")
    /\ UNCHANGED <<sessVars, freeSessIdList, fdToSessMap, countVars, haltVars,
                   scan, target, newcomer, netVars, aborted>>

(* The lowest descriptor that is not open, as POSIX has it.                *)
NewFd ==
    {f \in Fds : socket[f] = None /\ \A g \in Fds : socket[g] = None => f <= g}

(* The first free session gets the socket.                                 *)
TakeSession(s, f) ==
    /\ fd' = [fd EXCEPT ![s] = f]
    /\ fdToSessMap' = [g \in DOMAIN fdToSessMap \cup {f} |->
          IF g = f THEN s ELSE fdToSessMap[g]]
    /\ target' = s

(* Mutant: front() without pop_front().                                    *)
SetSessKeepsFree(f) ==
    /\ TakeSession(Head(freeSessIdList), f)
    /\ activeSessCount' = activeSessCount + 1
    /\ UNCHANGED freeSessIdList

(* Mutant: the session is not counted.                                     *)
SetSessUncounted(f) ==
    /\ TakeSession(Head(freeSessIdList), f)
    /\ freeSessIdList' = Tail(freeSessIdList)
    /\ UNCHANGED activeSessCount

SetSess(f) ==
    /\ TakeSession(Head(freeSessIdList), f)
    /\ freeSessIdList' = Tail(freeSessIdList)
    /\ activeSessCount' = activeSessCount + 1

(* That no session is free for a newcomer is an assertion.                 *)
Accept ==
    /\ listener = "accept"
    /\ IF ~newcomer
       THEN /\ ListenerGoto("select")
            /\ UNCHANGED <<fd, freeSessIdList, fdToSessMap, activeSessCount,
                           target, backlog, socket, aborted>>
       ELSE /\ backlog' = Tail(backlog)
            /\ \E f \in NewFd :
                  /\ socket' = [socket EXCEPT ![f] = Head(backlog)]
                  /\ IF freeSessIdList = <<>>
                     THEN /\ aborted' = TRUE
                          /\ UNCHANGED <<fd, freeSessIdList, fdToSessMap,
                                         activeSessCount, target, listener>>
                     ELSE /\ SetSess(f)
                          /\ ListenerGoto("wake")
                          /\ UNCHANGED aborted
    /\ UNCHANGED <<active, running, pc, leaving, haltAt, runningSessCount,
                   haltVars, scan, newcomer, client, inbox>>

(* wakeup() by the listener, of a session that hangs or of a new one.      *)
ListenerSetActive ==
    /\ listener \in {"scanWake", "wake"}
    /\ SetActive(target)
    /\ ListenerGoto(IF listener = "wake" THEN "notify" ELSE "scanNotify")
    /\ UNCHANGED <<running, fd, pc, leaving, haltAt, freeSessIdList, fdToSessMap,
                   countVars, haltVars, scan, target, newcomer, netVars, aborted>>

ListenerNotify ==
    /\ listener \in {"scanNotify", "notify"}
    /\ Notify(target)
    /\ ListenerGoto(IF listener = "notify" THEN "select" ELSE "scan")
    /\ target' = 0
    /\ UNCHANGED <<active, running, fd, leaving, haltAt, freeSessIdList,
                   fdToSessMap, countVars, haltVars, scan, newcomer,
                   netVars, aborted>>

-----------------------------------------------------------------------------
(* sessThread                                                              *)

(* Under sessMutex: the predicate of the wait, then running or to sleep.   *)
Wait(s) ==
    /\ pc[s] = "wait"
    /\ running' = [running EXCEPT ![s] = @ \/ active[s]]
    /\ Goto(s, IF active[s] THEN "count" ELSE "fallAsleep")
    /\ UNCHANGED <<active, fd, leaving, haltAt, freeSessIdList, fdToSessMap,
                   countVars, haltVars, listenerVars, netVars, aborted>>

Sleep(s) ==
    /\ pc[s] = "fallAsleep"
    /\ Goto(s, "asleep")
    /\ UNCHANGED <<active, running, fd, leaving, haltAt, freeSessIdList,
                   fdToSessMap, countVars, haltVars, listenerVars, netVars,
                   aborted>>

CountRunning(s) ==
    /\ pc[s] = "count"
    /\ runningSessCount' = runningSessCount + 1
    /\ Goto(s, "start")
    /\ UNCHANGED <<active, running, fd, leaving, haltAt, freeSessIdList,
                   fdToSessMap, activeSessCount, haltVars, listenerVars,
                   netVars, aborted>>

(* Halt, or serve the socket; that there is one is an assertion.           *)
StartSession(s) ==
    /\ pc[s] = "start"
    /\ IF halting
       THEN /\ sessHaltCount' = sessHaltCount + 1
            /\ Goto(s, "ended")
            /\ UNCHANGED aborted
       ELSE /\ IF fd[s] = None
               THEN aborted' = TRUE /\ UNCHANGED pc
               ELSE Goto(s, "serve") /\ UNCHANGED aborted
            /\ UNCHANGED sessHaltCount
    /\ UNCHANGED <<active, running, fd, leaving, haltAt, freeSessIdList,
                   fdToSessMap, countVars, halting, listenerVars, netVars>>

(* Receive a message and handle it; the reply to Welcome goes out at once. *)
Receive(s) ==
    /\ pc[s] = "serve"
    /\ LET c == socket[fd[s]] IN
          /\ inbox[c] # None
          /\ inbox' = [inbox EXCEPT ![c] = None]
          /\ Goto(s, CASE inbox[c] = "Welcome"     -> "serve"
                       [] inbox[c] = "PushJob"     -> "subscribe"
                       [] inbox[c] = "GoodBye"     -> "releaseFd"
                       [] inbox[c] = "HaltMachine" -> "haltTest")
          /\ client' = [client EXCEPT ![c] = IF inbox[c] = "Welcome" THEN "ready" ELSE @]
          /\ leaving' = IF inbox[c] = "HaltMachine" THEN leaving \cup {s} ELSE leaving
          /\ halting' = (halting \/ inbox[c] = "HaltMachine")
          /\ sessHaltCount' = sessHaltCount + IF inbox[c] = "HaltMachine" THEN 1 ELSE 0
    /\ UNCHANGED <<active, running, fd, haltAt, freeSessIdList, fdToSessMap,
                   countVars, listenerVars, backlog, socket, aborted>>

(* The job was pushed; its reply job, which the broker delivers when a job *)
(* consumer is done, goes to the client.                                   *)
SendJobReply(s) ==
    /\ pc[s] = "subscribe"
    /\ client' = [client EXCEPT ![socket[fd[s]]] = "ready"]
    /\ Goto(s, "serve")
    /\ UNCHANGED <<active, running, fd, leaving, haltAt, freeSessIdList,
                   fdToSessMap, countVars, haltVars, listenerVars, backlog,
                   socket, inbox, aborted>>

-----------------------------------------------------------------------------
(* halt(), by the session thread that received HaltMachine.                *)

(* Mutant: the sessions are woken up once.                                 *)
HaltTestOnce(s) ==
    /\ pc[s] = "haltTest"
    /\ sessHaltCount >= SessCount \/ haltAt[s] = 0
    /\ Goto(s, IF sessHaltCount < SessCount THEN "haltWake" ELSE "releaseFd")
    /\ UNCHANGED <<active, running, fd, leaving, haltAt, freeSessIdList, fdToSessMap,
                   countVars, haltVars, listenerVars, netVars, aborted>>

(* Until all session threads have counted themselves, wake up all.         *)
HaltTest(s) ==
    /\ pc[s] = "haltTest"
    /\ haltAt' = [haltAt EXCEPT ![s] = 0]
    /\ Goto(s, IF sessHaltCount < SessCount THEN "haltWake" ELSE "releaseFd")
    /\ UNCHANGED <<active, running, fd, leaving, freeSessIdList, fdToSessMap,
                   countVars, haltVars, listenerVars, netVars, aborted>>

HaltSetActive(s) ==
    /\ pc[s] = "haltWake"
    /\ SetActive(haltAt[s])
    /\ Goto(s, "haltNotify")
    /\ UNCHANGED <<running, fd, leaving, haltAt, freeSessIdList, fdToSessMap,
                   countVars, haltVars, listenerVars, netVars, aborted>>

HaltNotify(s) ==
    /\ pc[s] = "haltNotify"
    /\ SessMutexFree(haltAt[s])
    /\ LET next == haltAt[s] + 1 IN
          /\ haltAt' = [haltAt EXCEPT ![s] = next]
          /\ pc' = [t \in Sessions |->
                IF t = s THEN IF next < SessCount THEN "haltWake" ELSE "haltTest"
                ELSE IF t = haltAt[s] /\ pc[t] = "asleep" THEN "wait" ELSE pc[t]]
    /\ UNCHANGED <<active, running, fd, leaving, freeSessIdList, fdToSessMap,
                   countVars, haltVars, listenerVars, netVars, aborted>>

-----------------------------------------------------------------------------
(* releaseFd() and releaseSess()                                           *)

(* The entry that is erased is the one under the session's ID.             *)
ReleaseFd(s) ==
    /\ pc[s] = "releaseFd"
    /\ fdToSessMap' = [f \in DOMAIN fdToSessMap \ {s} |-> fdToSessMap[f]]
    /\ socket' = [socket EXCEPT ![fd[s]] = None]
    /\ Goto(s, "clearActive")
    /\ UNCHANGED <<active, running, fd, leaving, haltAt, freeSessIdList,
                   countVars, haltVars, listenerVars, backlog, client, inbox,
                   aborted>>

ClearActive(s) ==
    /\ pc[s] = "clearActive"
    /\ active' = [active EXCEPT ![s] = FALSE]
    /\ Goto(s, "clearRunning")
    /\ UNCHANGED <<running, fd, leaving, haltAt, freeSessIdList, fdToSessMap,
                   countVars, haltVars, listenerVars, netVars, aborted>>

(* Mutant: the session keeps the number of its closed socket.              *)
ClearRunningKeepsFd(s) ==
    /\ pc[s] = "clearRunning"
    /\ running' = [running EXCEPT ![s] = FALSE]
    /\ Goto(s, "uncount")
    /\ UNCHANGED <<active, fd, leaving, haltAt, freeSessIdList, fdToSessMap, countVars,
                   haltVars, listenerVars, netVars, aborted>>

ClearRunning(s) ==
    /\ pc[s] = "clearRunning"
    /\ running' = [running EXCEPT ![s] = FALSE]
    /\ fd' = [fd EXCEPT ![s] = None]
    /\ Goto(s, "uncount")
    /\ UNCHANGED <<active, leaving, haltAt, freeSessIdList, fdToSessMap, countVars,
                   haltVars, listenerVars, netVars, aborted>>

UncountActive(s) ==
    /\ pc[s] = "uncount"
    /\ activeSessCount' = activeSessCount - 1
    /\ Goto(s, "free")
    /\ UNCHANGED <<active, running, fd, leaving, haltAt, freeSessIdList,
                   fdToSessMap, runningSessCount, haltVars, listenerVars,
                   netVars, aborted>>

(* Mutant: runningSessCount is not taken back.                             *)
FreeSessionStillCounted(s) ==
    /\ pc[s] = "free"
    /\ freeSessIdList' = Append(freeSessIdList, s)
    /\ Goto(s, IF s \in leaving THEN "ended" ELSE "wait")
    /\ UNCHANGED <<active, running, fd, leaving, haltAt, fdToSessMap,
                   countVars, haltVars, listenerVars, netVars, aborted>>

(* Uncounted and free again, the thread waits for its next socket.         *)
FreeSession(s) ==
    /\ pc[s] = "free"
    /\ runningSessCount' = runningSessCount - 1
    /\ freeSessIdList' = Append(freeSessIdList, s)
    /\ Goto(s, IF s \in leaving THEN "ended" ELSE "wait")
    /\ UNCHANGED <<active, running, fd, leaving, haltAt, fdToSessMap,
                   activeSessCount, haltVars, listenerVars, netVars, aborted>>

-----------------------------------------------------------------------------
Client(c) == Connect(c) \/ \E msg \in Messages \ {"Welcome"} : Send(c, msg)

Listener ==
    \/ Select
    \/ CheckCounts
    \/ ScanNext
    \/ ScanRunning
    \/ Accept
    \/ ListenerSetActive
    \/ ListenerNotify

(* What a session thread does of itself; SendJobReply waits for a job      *)
(* consumer.                                                               *)
SessThread(s) ==
    \/ Wait(s)
    \/ Sleep(s)
    \/ CountRunning(s)
    \/ StartSession(s)
    \/ Receive(s)
    \/ HaltTest(s)
    \/ HaltSetActive(s)
    \/ HaltNotify(s)
    \/ ReleaseFd(s)
    \/ ClearActive(s)
    \/ ClearRunning(s)
    \/ UncountActive(s)
    \/ FreeSession(s)

Next ==
    /\ ~aborted
    /\ \/ \E c \in Conns : Client(c)
       \/ Listener
       \/ \E s \in Sessions : SessThread(s) \/ SendJobReply(s)

Spec == Init /\ [][Next]_vars

(* The threads run on; clients do what they like.                          *)
FairSpec ==
    /\ Spec
    /\ WF_vars(~aborted /\ Listener)
    /\ \A s \in Sessions : WF_vars(~aborted /\ SessThread(s))

-----------------------------------------------------------------------------
(* Properties.                                                             *)

(* Sessions that the thread has not given back yet.                        *)
Held(s) == s \notin ToSet(freeSessIdList)

(* freeSessIdList and the threads agree: a session is in the list once or  *)
(* not at all, one in the list has no socket, and an open socket that was  *)
(* accepted belongs to exactly one session that is not in the list.        *)
SessionsConserved ==
    /\ IsInjective(freeSessIdList)
    /\ \A s \in Sessions : ~Held(s) => fd[s] = None
    /\ ~aborted => \A f \in Fds : socket[f] # None =>
          Cardinality({s \in Sessions : fd[s] = f /\ pc[s] \notin
             {"clearActive", "clearRunning"}}) = 1

(* A thread in its socket loop serves an open socket which nobody else     *)
(* serves: what a stray wake-up of a free session must not bring about.    *)
ServesOwnSocket ==
    \A s \in Sessions : pc[s] \in {"serve", "subscribe", "haltTest", "haltWake",
                                   "haltNotify", "releaseFd"} =>
        /\ fd[s] # None
        /\ socket[fd[s]] # None
        /\ \A t \in Sessions \ {s} : fd[t] = fd[s] =>
              pc[t] \in {"clearActive", "clearRunning"}

(* The net of the listener is armed exactly when it is needed: with no     *)
(* release under way, more sessions than running threads are counted if    *)
(* and only if some session with a socket is not counted as running.       *)
NetArmed ==
    (~halting /\ ~aborted /\ \A s \in Sessions : pc[s] # "free" /\
        (pc[s] = "start" => fd[s] # None)) =>
        (activeSessCount > runningSessCount <=>
            \E s \in Sessions : Held(s) /\ pc[s] \in {"wait", "fallAsleep", "asleep", "count"})

(* No wake-up of a session thread is lost: one that sleeps, or is about to *)
(* since it saw active down, while active is up has the notification still *)
(* to come, from the listener or from a halt().                            *)
WakeupComes ==
    \A s \in Sessions : pc[s] \in {"fallAsleep", "asleep"} /\ active[s] =>
        \/ listener \in {"scanNotify", "notify"} /\ target = s
        \/ \E t \in Sessions : pc[t] = "haltNotify" /\ haltAt[t] = s

(* Who connects is welcomed, unless the server halts or an assertion ends  *)
(* it: a session that hangs is woken up in the end.                        *)
ConnectionServed ==
    \A c \in Conns : client[c] = "asking" /\ inbox[c] = "Welcome" ~>
        client[c] = "ready" \/ halting \/ aborted

(* HaltMachine ends the listener and every session thread, whatever they   *)
(* are at, as long as none is kept for ever by the client it serves.       *)
HaltEndsSessions ==
    (\A s \in Sessions : []<>(pc[s] \notin {"serve", "subscribe"})) =>
        (halting ~> aborted \/ (listener = "ended" /\ \A s \in Sessions : pc[s] = "ended"))
=============================================================================
