------------------------------- MODULE Server -------------------------------
(***************************************************************************)
(* The server's main thread on Linux (Server.cpp, the poll() branch of     *)
(* run): the descriptor table, the connections behind it, clientsMutex_    *)
(* and SIGINT/SIGTERM, whose handler runs stop() on the thread it          *)
(* interrupts.  A step is the code between two points where a peer or a    *)
(* signal can get in; what a request does is ClientHandler's.              *)
(***************************************************************************)
EXTENDS Naturals

CONSTANTS
    Conns,       \* connections that peers may open
    Fds,         \* the descriptors left for clients, as numbers
    None,        \* no connection
    MaxPending,  \* bound on the requests of a peer not yet received
    MaxSignals,  \* bound on the shutdown signals sent
    Resets       \* whether peers may reset a connection

ASSUME FdsAssumption == Fds \subseteq Nat
ASSUME NoneAssumption == None \notin Conns
ASSUME BoundsAssumption == {MaxPending, MaxSignals} \subseteq Nat /\ Resets \in BOOLEAN

VARIABLES
    running_,
    listening,  \* listenSocket_ is open
    clients_,   \* the descriptors that have a ClientHandler
    kernel,     \* descriptor -> the connection it is open on, or None
    peer,       \* connection -> what its peer did so far
    pc,         \* where the main thread is
    locked,     \* the main thread holds clientsMutex_
    ready,      \* poll() found a connection in the backlog
    todo,       \* the client entries of pollFds_ not yet looked at
    events,     \* descriptor -> the revents poll() stored for it
    polled,     \* descriptor -> the connection those revents are about
    cur,        \* the descriptor in hand (accepted, or of the current entry)
    batch,      \* requests received from cur and not yet processed
    signals,    \* shutdown signals sent so far
    proc        \* the process: running, hung on its own mutex, killed, exited

loopVars == <<ready, todo, events, polled, cur, batch>>
vars == <<running_, listening, clients_, kernel, peer, pc, locked, loopVars, signals, proc>>

Stages == {"start", "loop", "build", "poll", "accept", "insert", "scan", "read",
           "process", "hangup", "disconnect", "timeouts", "exit"}

(* The stages under a lock_guard on clientsMutex_. *)
Locked == {"build", "insert", "process", "disconnect", "timeouts"}

Peer == [state : {"new", "backlog", "up"}, pending : 0..MaxPending,
         fin : BOOLEAN, rst : BOOLEAN, told : BOOLEAN, idle : BOOLEAN]

TypeOK ==
    /\ running_ \in BOOLEAN /\ listening \in BOOLEAN
    /\ clients_ \subseteq Fds
    /\ kernel \in [Fds -> Conns \cup {None}]
    /\ peer \in [Conns -> Peer]
    /\ pc \in Stages /\ (locked => pc \in Locked)
    /\ locked \in BOOLEAN /\ ready \in BOOLEAN
    /\ todo \subseteq Fds
    /\ events \in [Fds -> SUBSET {"IN", "HUP"}]
    /\ polled \in [Fds -> Conns \cup {None}]
    /\ cur \in Fds \cup {None}
    /\ batch \in 0..MaxPending
    /\ signals \in 0..MaxSignals
    /\ proc \in {"running", "hung", "killed", "exited"}

Init ==
    /\ running_ = FALSE /\ listening = TRUE
    /\ clients_ = {} /\ kernel = [f \in Fds |-> None]
    /\ peer = [c \in Conns |-> [state |-> "new", pending |-> 0, fin |-> FALSE,
                                rst |-> FALSE, told |-> FALSE, idle |-> FALSE]]
    /\ pc = "start" /\ locked = FALSE /\ ready = FALSE /\ todo = {} /\ events = [f \in Fds |-> {}]
    /\ polled = kernel /\ cur = None /\ batch = 0
    /\ signals = 0 /\ proc = "running"

(* What poll() reports for a connection.                                     *)
Revents(c) ==
    IF c = None THEN {}
    ELSE {e \in {"IN", "HUP"} :
            \/ peer[c].rst
            \/ e = "IN" /\ (peer[c].pending > 0 \/ peer[c].fin)}

Lowest(S) == CHOOSE f \in S : \A g \in S : f <= g

Free == {f \in Fds : kernel[f] = None}

(* close() of the descriptors in S that are open. *)
Close(S) == kernel' = [f \in Fds |-> IF f \in S THEN None ELSE kernel[f]]

(* A stage outside the critical sections; one inside, left by releasing.     *)
At(stage)     == proc = "running" /\ pc = stage /\ UNCHANGED locked
Inside(stage) == proc = "running" /\ pc = stage /\ locked /\ locked' = FALSE

Acquire ==
    /\ proc = "running" /\ pc \in Locked /\ ~locked
    /\ locked' = TRUE
    /\ UNCHANGED <<running_, listening, clients_, kernel, peer, pc, loopVars, signals, proc>>
-----------------------------------------------------------------------------
(* main: signal handlers are installed before run() sets running_. *)
Start ==
    /\ At("start")
    /\ running_' = TRUE /\ pc' = "loop"
    /\ UNCHANGED <<listening, clients_, kernel, peer, loopVars, signals, proc>>

(* Fault for StopEndsProcess: the loop forgets to look at running_.          *)
LoopForever ==
    /\ At("loop")
    /\ pc' = "build"
    /\ UNCHANGED <<running_, listening, clients_, kernel, peer, loopVars, signals, proc>>

LoopTest ==
    /\ At("loop")
    /\ pc' = IF running_ THEN "build" ELSE "exit"
    /\ UNCHANGED <<running_, listening, clients_, kernel, peer, loopVars, signals, proc>>

(* pollFds_ is rebuilt from clients_ in every round. *)
Build ==
    /\ Inside("build")
    /\ pc' = "poll" /\ todo' = clients_
    /\ UNCHANGED <<running_, listening, clients_, kernel, peer, ready, events, polled, cur,
                   batch, signals, proc>>

(* Fault for EventsCurrent: expired clients are closed before the entries    *)
(* poll() filled in are handled.                                             *)
PollThenExpire ==
    /\ At("poll")
    /\ pc' = "accept"
    /\ ready' = (listening /\ \E c \in Conns : peer[c].state = "backlog")
    /\ events' = [f \in Fds |-> IF f \in todo THEN Revents(kernel[f]) ELSE {}]
    /\ polled' = [f \in Fds |-> IF f \in todo THEN kernel[f] ELSE None]
    /\ LET expired == {f \in clients_ : kernel[f] # None /\ peer[kernel[f]].idle} IN
          Close(expired) /\ clients_' = clients_ \ expired
    /\ UNCHANGED <<running_, listening, peer, todo, cur, batch, signals, proc>>

(* Fault for IdleDropped: "if (activity == 0) continue;".                    *)
PollContinue ==
    /\ At("poll")
    /\ ready' = (listening /\ \E c \in Conns : peer[c].state = "backlog")
    /\ events' = [f \in Fds |-> IF f \in todo THEN Revents(kernel[f]) ELSE {}]
    /\ polled' = [f \in Fds |-> IF f \in todo THEN kernel[f] ELSE None]
    /\ pc' = IF ready' \/ \E f \in Fds : events'[f] # {} THEN "accept" ELSE "loop"
    /\ UNCHANGED <<running_, listening, clients_, kernel, peer, todo, cur, batch,
                   signals, proc>>

(* poll() fails, for another reason than a signal: the loop is left. *)
PollFails ==
    /\ At("poll")
    /\ pc' = "exit"
    /\ UNCHANGED <<running_, listening, clients_, kernel, peer, loopVars, signals, proc>>

(* poll() returns with what is ready, if only after its second: then none.   *)
Poll ==
    /\ At("poll")
    /\ pc' = "accept"
    /\ ready' = (listening /\ \E c \in Conns : peer[c].state = "backlog")
    /\ events' = [f \in Fds |-> IF f \in todo THEN Revents(kernel[f]) ELSE {}]
    /\ polled' = [f \in Fds |-> IF f \in todo THEN kernel[f] ELSE None]
    /\ UNCHANGED <<running_, listening, clients_, kernel, peer, todo, cur, batch,
                   signals, proc>>

(* Fault for ConnectionsAccepted: clients with events go before new ones.    *)
AcceptWhenIdle ==
    /\ At("accept")
    /\ \/ /\ ready /\ listening /\ Free # {} /\ \A f \in todo : events[f] = {}
          /\ \E c \in Conns :
                /\ peer[c].state = "backlog"
                /\ peer' = [peer EXCEPT ![c].state = "up"]
                /\ kernel' = [kernel EXCEPT ![Lowest(Free)] = c]
          /\ cur' = Lowest(Free) /\ pc' = "insert"
       \/ /\ ~ready \/ ~listening \/ Free = {} \/ \E f \in todo : events[f] # {}
          /\ pc' = "scan"
          /\ UNCHANGED <<kernel, peer, cur>>
    /\ UNCHANGED <<running_, listening, clients_, ready, todo, events, polled, batch,
                   signals, proc>>

(* The listening socket is the first entry.  A connection whose socket does   *)
(* not become non-blocking is closed at once; with no free descriptor accept  *)
(* fails and it stays in the backlog.  Once stop() has closed the listening   *)
(* socket its entry is taken for a client that is not there.                  *)
Accept ==
    /\ At("accept")
    /\ \/ /\ ready /\ listening /\ Free # {}
          /\ \E c \in Conns :
                /\ peer[c].state = "backlog"
                /\ peer' = [peer EXCEPT ![c].state = "up"]
                /\ \/ /\ kernel' = [kernel EXCEPT ![Lowest(Free)] = c]
                      /\ cur' = Lowest(Free) /\ pc' = "insert"
                   \/ pc' = "scan" /\ UNCHANGED <<kernel, cur>>
       \/ /\ ~ready \/ ~listening \/ Free = {}
          /\ pc' = "scan"
          /\ UNCHANGED <<kernel, peer, cur>>
    /\ UNCHANGED <<running_, listening, clients_, ready, todo, events, polled, batch,
                   signals, proc>>

Insert ==
    /\ Inside("insert")
    /\ clients_' = clients_ \cup {cur}
    /\ pc' = "scan"
    /\ UNCHANGED <<running_, listening, kernel, peer, loopVars, signals, proc>>

(* The next entry, in the order of the std::map; without events it is skipped. *)
Scan ==
    /\ At("scan")
    /\ IF todo = {}
       THEN pc' = "timeouts" /\ UNCHANGED <<todo, cur>>
       ELSE /\ cur' = Lowest(todo)
            /\ todo' = todo \ {Lowest(todo)}
            /\ pc' = IF events[Lowest(todo)] = {} THEN "scan" ELSE "read"
    /\ UNCHANGED <<running_, listening, clients_, kernel, peer, ready, events, polled,
                   batch, signals, proc>>

(* Fault for HangUpNoticed: end of file (recv() = 0) is not told from success. *)
ReadPastEnd ==
    /\ At("read")
    /\ LET c == kernel[cur] IN
       IF c # None /\ peer[c].pending > 0
       THEN /\ batch' = peer[c].pending
            /\ peer' = [peer EXCEPT ![c].pending = 0]
            /\ pc' = "process"
       ELSE pc' = "hangup" /\ UNCHANGED <<batch, peer>>
    /\ UNCHANGED <<running_, listening, clients_, kernel, ready, todo, events,
                   polled, cur, signals, proc>>

(* handleClientData: one recv() takes all there is; end of file, a reset or  *)
(* nothing to read disconnect the client.                                    *)
Read ==
    /\ At("read")
    /\ LET c == kernel[cur] IN
       IF c # None /\ peer[c].pending > 0
       THEN /\ batch' = peer[c].pending
            /\ peer' = [peer EXCEPT ![c].pending = 0]
            /\ pc' = "process"
       ELSE pc' = "disconnect" /\ UNCHANGED <<batch, peer>>
    /\ UNCHANGED <<running_, listening, clients_, kernel, ready, todo, events,
                   polled, cur, signals, proc>>

(* Fault for TypeOK: one request too many.                                   *)
ProcessOneMore ==
    /\ Inside("process")
    /\ batch' = batch - 1
    /\ pc' = IF batch = 0 THEN "hangup" ELSE "process"
    /\ UNCHANGED <<running_, listening, clients_, kernel, peer, ready, todo, events,
                   polled, cur, signals, proc>>

(* The state of a connection after a send.  The first error of a reset that  *)
(* no hang-up preceded is ECONNRESET, any later one EPIPE; its result is     *)
(* ignored.                                                                  *)
Sent(p) == [p EXCEPT !.idle = FALSE, !.told = p.rst]

(* EPIPE comes with SIGPIPE: send() has no MSG_NOSIGNAL and no handler is set. *)
Sigpipe(p) == p.rst /\ (p.fin \/ p.told)

(* processMessage and sendMessage for one request.                           *)
Process ==
    /\ Inside("process")
    /\ LET c == kernel[cur] IN
       IF cur \in clients_ /\ c # None
       THEN /\ peer' = [peer EXCEPT ![c] = Sent(@)]
            /\ proc' = IF Sigpipe(peer[c]) THEN "killed" ELSE proc
       ELSE UNCHANGED <<peer, proc>>
    /\ batch' = batch - 1
    /\ pc' = IF batch = 1 THEN "hangup" ELSE "process"
    /\ UNCHANGED <<running_, listening, clients_, kernel, ready, todo, events,
                   polled, cur, signals>>

(* Fault for RequestsServed: the round ends with the first entry served.     *)
HangupThenNextRound ==
    /\ At("hangup")
    /\ pc' = IF "HUP" \in events[cur] THEN "disconnect" ELSE "timeouts"
    /\ events' = [events EXCEPT ![cur] = {}]
    /\ UNCHANGED <<running_, listening, clients_, kernel, peer, ready, todo, polled, cur,
                   batch, signals, proc>>

(* After the data of an entry: POLLHUP or POLLERR disconnect (again). *)
Hangup ==
    /\ At("hangup")
    /\ pc' = IF "HUP" \in events[cur] THEN "disconnect" ELSE "scan"
    /\ events' = [events EXCEPT ![cur] = {}]
    /\ UNCHANGED <<running_, listening, clients_, kernel, peer, ready, todo, polled, cur,
                   batch, signals, proc>>

(* handleClientDisconnect, called from handleClientData and from run(). *)
Disconnect ==
    /\ Inside("disconnect")
    /\ Close({cur}) /\ clients_' = clients_ \ {cur}
    /\ pc' = "hangup"
    /\ UNCHANGED <<running_, listening, peer, loopVars, signals, proc>>

TimedOut(f) == kernel[f] # None /\ peer[kernel[f]].idle

Timeouts ==
    /\ Inside("timeouts")
    /\ LET expired == {f \in clients_ : TimedOut(f)} IN
          Close(expired) /\ clients_' = clients_ \ expired
    /\ pc' = "loop"
    /\ UNCHANGED <<running_, listening, peer, loopVars, signals, proc>>

(* run() returns, main returns, and ~Server calls stop(). *)
Exit ==
    /\ At("exit")
    /\ proc' = "exited" /\ running_' = FALSE
    /\ IF running_ THEN Close(clients_) /\ clients_' = {} /\ listening' = FALSE
                   ELSE UNCHANGED <<listening, clients_, kernel>>
    /\ UNCHANGED <<peer, pc, loopVars, signals>>

MainStep ==
    \/ Start \/ Acquire \/ LoopTest \/ Build \/ Poll \/ PollFails \/ Accept \/ Insert \/ Scan \/ Read
    \/ Process \/ Hangup \/ Disconnect \/ Timeouts \/ Exit
-----------------------------------------------------------------------------
(* Fault for FdsMatchClients: stop() clears the map but closes no client.    *)
SignalKeepingSockets ==
    /\ proc = "running" /\ signals < MaxSignals
    /\ signals' = signals + 1
    /\ IF ~running_
       THEN UNCHANGED <<running_, listening, clients_, pc, proc>>
       ELSE /\ running_' = FALSE
            /\ IF locked
               THEN proc' = "hung" /\ UNCHANGED <<listening, clients_, pc>>
               ELSE /\ clients_' = {} /\ listening' = FALSE
                    /\ UNCHANGED <<pc, proc>>
    /\ UNCHANGED <<kernel, peer, locked, loopVars>>

(* The stages in which the thread may be writing to the log, and so hold      *)
(* Logger::mutex_, without clientsMutex_.                                     *)
Logging == {"loop", "poll", "accept", "read", "process", "disconnect", "exit"}

(* signalHandler: stop() on the interrupted thread.  Not running, it returns; *)
(* inside a critical section, or in the middle of a log entry, it waits for a *)
(* mutex its own thread holds; else everything is closed, and a poll()        *)
(* already waiting fails with EINTR.                                          *)
Signal ==
    /\ proc = "running" /\ signals < MaxSignals
    /\ signals' = signals + 1
    /\ IF ~running_
       THEN UNCHANGED <<running_, listening, clients_, kernel, pc, proc>>
       ELSE /\ running_' = FALSE
            /\ \/ /\ locked \/ pc \in Logging
                  /\ proc' = "hung"
                  /\ UNCHANGED <<listening, clients_, kernel, pc>>
               \/ /\ ~locked
                  /\ Close(clients_) /\ clients_' = {} /\ listening' = FALSE
                  /\ pc' \in IF pc = "poll" THEN {"poll", "loop"} ELSE {pc}
                  /\ UNCHANGED proc
    /\ UNCHANGED <<peer, locked, loopVars>>
-----------------------------------------------------------------------------
(* The peers. *)
Connected(c) == \E f \in Fds : kernel[f] = c

Dial(c) ==
    /\ peer[c].state = "new" /\ listening
    /\ peer' = [peer EXCEPT ![c].state = "backlog"]

Request(c) ==
    /\ peer[c].state # "new" /\ ~peer[c].fin /\ ~peer[c].rst
    /\ peer[c].pending < MaxPending  \* bound
    /\ peer' = [peer EXCEPT ![c].pending = @ + 1]

HangUp(c) ==
    /\ peer[c].state # "new" /\ ~peer[c].fin /\ ~peer[c].rst
    /\ peer' = [peer EXCEPT ![c].fin = TRUE]

(* A reset may overtake data not yet received. *)
Reset(c) ==
    /\ Resets /\ peer[c].state # "new" /\ ~peer[c].rst
    /\ \E n \in {0, peer[c].pending} :
          peer' = [peer EXCEPT ![c].rst = TRUE, ![c].pending = n]

(* 300 seconds pass since the last request was processed. *)
Idle(c) ==
    /\ \E f \in clients_ : kernel[f] = c
    /\ ~peer[c].idle
    /\ peer' = [peer EXCEPT ![c].idle = TRUE]

PeerStep ==
    /\ proc = "running"
    /\ \E c \in Conns : Dial(c) \/ Request(c) \/ HangUp(c) \/ Reset(c) \/ Idle(c)
    /\ UNCHANGED <<running_, listening, clients_, kernel, pc, locked, loopVars, signals,
                   proc>>

Next == MainStep \/ Signal \/ PeerStep

Spec     == Init /\ [][Next]_vars
FairSpec == Spec /\ WF_vars(MainStep)
-----------------------------------------------------------------------------
(* No descriptor leaks and no handler outlives its descriptor: outside the   *)
(* window between accept() and the insertion the open client descriptors are *)
(* exactly the keys of clients_, whatever hang-ups, double disconnects,      *)
(* time-outs and signals came in between.                                    *)
FdsMatchClients ==
    {f \in Fds : kernel[f] # None} = clients_ \cup (IF pc = "insert" THEN {cur} ELSE {})

(* Descriptor numbers are reused, so an event must not be applied to another *)
(* connection: an entry still to be handled, or in hand, is about the        *)
(* connection its descriptor is open on, or that connection is closed.       *)
InHand == IF pc \in {"read", "process", "hangup", "disconnect"} THEN {cur} ELSE {}

EventsCurrent ==
    pc \in {"accept", "insert", "scan"} \cup {"read", "process", "hangup", "disconnect"} =>
        \A f \in todo \cup InHand : kernel[f] \in {polled[f], None}

(* The liveness properties hold while the process runs: a signal may end it,  *)
(* or hang it in stop().                                                     *)
Ended == proc # "running"

(* A request waiting on an accepted connection is received, or the           *)
(* connection closed, however busy the other connections are.                *)
RequestsServed ==
    \A c \in Conns :
        (Connected(c) /\ peer[c].pending > 0) ~>
            (~Connected(c) \/ peer[c].pending = 0 \/ Ended)

(* A connection idle past the limit is closed unless it becomes active.      *)
IdleDropped ==
    \A c \in Conns :
        (Connected(c) /\ peer[c].idle) ~> (~Connected(c) \/ ~peer[c].idle \/ Ended)

(* A peer that hung up is disconnected.                                      *)
HangUpNoticed ==
    \A c \in Conns : (Connected(c) /\ peer[c].fin) ~> (~Connected(c) \/ Ended)

(* With a descriptor left, a connection in the backlog is accepted, however  *)
(* busy the others are.                                                      *)
ConnectionsAccepted ==
    \A c \in Conns :
        (peer[c].state = "backlog") ~> (peer[c].state = "up" \/ ~listening \/ Ended)

(* Once stop() has set running_ to FALSE the main thread leaves its loop and *)
(* the process exits, unless stop() hangs.                                   *)
StopEndsProcess ==
    (pc # "start" /\ ~running_) ~> (proc \in {"exited", "hung"})

(* "Signal handler for graceful shutdown": stop() never waits for a mutex    *)
(* the interrupted thread itself holds.                                      *)
NeverHung == proc # "hung"

(* A failed send is logged and survived: a client cannot take the server     *)
(* down by going away.                                                       *)
SurvivesPeers == proc # "killed"
=============================================================================
