---------------------------- MODULE Server_proofs ----------------------------
(***************************************************************************)
(* Proofs about the server's main loop, for any connections, descriptors   *)
(* and numbers of requests and signals: type correctness, that no          *)
(* descriptor leaks, and that no event is applied to a connection other    *)
(* than the one poll() reported it for.                                    *)
(***************************************************************************)
EXTENDS Server, WellFoundedInduction, TLAPS

(* accept() returns a free descriptor, and Scan the next of the entries.    *)
LEMMA LowestIsMember ==
    ASSUME NEW S, S \subseteq Fds, S # {}
    PROVE  Lowest(S) \in S
<1>1. S \subseteq Nat
  BY FdsAssumption
<1>2. PICK f \in S : \A g \in S : <<g, f>> \notin OpToRel(<, Nat)
  BY <1>1, NatLessThanWellFounded, WFMin
<1>3. \A g \in S : ~(g < f)
  BY <1>1, <1>2 DEF OpToRel
<1>4. \A g \in S : f <= g
  BY <1>1, <1>3
<1> QED BY <1>4 DEF Lowest

-----------------------------------------------------------------------------
(* The stages with a descriptor in hand. *)
Holding == {"insert", "read", "process", "hangup", "disconnect"}

(* What the stages rely on: a descriptor in hand, requests to process, and at *)
(* the insertion an accepted connection that no signal has closed, because it *)
(* is not in clients_ yet.                                                    *)
StageOK ==
    /\ pc \in Holding => cur \in Fds
    /\ pc = "process" => batch # 0
    /\ pc = "insert" => cur \notin clients_

(* Until the listening socket is closed, no client goes between the building  *)
(* of pollFds_ and accept(): that is why the descriptor accept() returns is   *)
(* in no entry with events.                                                   *)
PolledAreClients == pc \in {"poll", "accept"} /\ listening => todo \subseteq clients_

Inv == TypeOK /\ StageOK /\ PolledAreClients /\ FdsMatchClients /\ EventsCurrent

(* The bounds are natural numbers. *)
LEMMA Bounds == MaxPending \in Nat /\ MaxSignals \in Nat
BY BoundsAssumption

(* The listening server without clients. *)
LEMMA InitInv == Init => Inv
<1> SUFFICES ASSUME Init PROVE Inv
  OBVIOUS
<1> USE DEF Init
<1>1. 0 \in 0..MaxPending /\ 0 \in 0..MaxSignals
  BY Bounds
<1>2. TypeOK
  <2>1. peer \in [Conns -> Peer]
    BY <1>1 DEF Peer
  <2> QED BY <1>1, <2>1 DEF TypeOK, Stages, Locked
<1>3. StageOK /\ PolledAreClients /\ FdsMatchClients /\ EventsCurrent
  BY DEF StageOK, Holding, PolledAreClients, FdsMatchClients, EventsCurrent
<1> QED BY <1>2, <1>3 DEF Inv

(* Waiting changes nothing. *)
LEMMA StutterPreserves == Inv /\ UNCHANGED vars => Inv'
BY DEF Inv, vars, loopVars, TypeOK, StageOK, PolledAreClients, FdsMatchClients,
       EventsCurrent, InHand

(* The peers do what they like with what they send. *)
LEMMA PeersPreserve == Inv /\ PeerStep => Inv'
<1> SUFFICES ASSUME Inv, PeerStep PROVE Inv'
  OBVIOUS
<1>1. peer' \in [Conns -> Peer]
  <2>1. PICK c \in Conns : Dial(c) \/ Request(c) \/ HangUp(c) \/ Reset(c) \/ Idle(c)
    BY DEF PeerStep
  <2>2. peer[c] \in Peer /\ peer \in [Conns -> Peer] /\ MaxPending \in Nat
    BY Bounds DEF Inv, TypeOK
  <2>3. CASE Dial(c)
    BY <2>2, <2>3 DEF Dial, Peer
  <2>4. CASE Request(c)
    <3>1. peer[c].pending + 1 \in 0..MaxPending
      BY <2>2, <2>4 DEF Request, Peer
    <3> QED BY <2>2, <2>4, <3>1 DEF Request, Peer
  <2>5. CASE HangUp(c)
    BY <2>2, <2>5 DEF HangUp, Peer
  <2>6. CASE Reset(c)
    <3>1. PICK n \in {0, peer[c].pending} :
             peer' = [peer EXCEPT ![c].rst = TRUE, ![c].pending = n]
      BY <2>6 DEF Reset
    <3>2. n \in 0..MaxPending
      BY <2>2 DEF Peer
    <3> QED BY <2>2, <3>1, <3>2 DEF Peer
  <2>7. CASE Idle(c)
    BY <2>2, <2>7 DEF Idle, Peer
  <2> QED BY <2>1, <2>3, <2>4, <2>5, <2>6, <2>7
<1> QED BY <1>1 DEF PeerStep, Inv, loopVars, TypeOK, StageOK, PolledAreClients,
               FdsMatchClients, EventsCurrent, InHand

(* The steps of the main thread that open and close no descriptor. *)
LEMMA QuietStagesPreserve ==
    Inv /\ (Start \/ Acquire \/ LoopTest \/ Build \/ PollFails) => Inv'
<1> SUFFICES ASSUME Inv, Start \/ Acquire \/ LoopTest \/ Build \/ PollFails PROVE Inv'
  OBVIOUS
<1> USE DEF Inv, TypeOK, Stages, Locked, StageOK, Holding, PolledAreClients,
            FdsMatchClients, EventsCurrent, InHand, loopVars
<1>1. CASE Start
  BY <1>1 DEF Start, At
<1>2. CASE Acquire
  BY <1>2 DEF Acquire
<1>3. CASE LoopTest
  BY <1>3 DEF LoopTest, At
<1>4. CASE Build
  BY <1>4 DEF Build, Inside
<1>5. CASE PollFails
  BY <1>5 DEF PollFails, At
<1> QED BY <1>1, <1>2, <1>3, <1>4, <1>5

(* poll() notes which connection its events are about. *)
LEMMA PollPreserves == Inv /\ Poll => Inv'
<1> SUFFICES ASSUME Inv, Poll PROVE Inv'
  OBVIOUS
<1>1. TypeOK'
  <2>1. \A c : Revents(c) \in SUBSET {"IN", "HUP"}
    BY DEF Revents
  <2>2. events' \in [Fds -> SUBSET {"IN", "HUP"}] /\ polled' \in [Fds -> Conns \cup {None}]
    BY <2>1 DEF Inv, TypeOK, Poll
  <2> QED BY <2>2 DEF Inv, TypeOK, Poll, At, Stages, Locked
<1>2. EventsCurrent'
  BY DEF Inv, TypeOK, Poll, EventsCurrent, InHand
<1>3. StageOK' /\ PolledAreClients' /\ FdsMatchClients'
  BY DEF Inv, Poll, At, StageOK, Holding, PolledAreClients, FdsMatchClients
<1> QED BY <1>1, <1>2, <1>3 DEF Inv

(* The descriptor of a new connection is of no client and in no entry. *)
LEMMA AcceptPreserves == Inv /\ Accept => Inv'
<1> SUFFICES ASSUME Inv, Accept PROVE Inv'
  OBVIOUS
<1> DEFINE fd == Lowest(Free)
<1>1. CASE pc' = "insert"
  <2>1. /\ pc = "accept" /\ listening /\ Free # {} /\ cur' = fd /\ locked' = FALSE
        /\ UNCHANGED <<running_, listening, clients_, ready, todo, events, polled, batch,
                       signals, proc>>
    BY <1>1 DEF Accept, At, Inv, TypeOK, Locked
  <2>2. PICK c \in Conns : /\ peer' = [peer EXCEPT ![c].state = "up"]
                           /\ kernel' = [kernel EXCEPT ![fd] = c]
    BY <1>1 DEF Accept
  <2>3. fd \in Free
    BY <2>1, LowestIsMember DEF Free
  <2>4. fd \in Fds /\ kernel[fd] = None /\ c # None
    BY <2>3, NoneAssumption DEF Free
  <2>5. peer' \in [Conns -> Peer]
    BY <2>2 DEF Inv, TypeOK, Peer
  <2>6. TypeOK'
    BY <1>1, <2>1, <2>2, <2>4, <2>5 DEF Inv, TypeOK, Stages
  <2>7. fd \notin clients_
    BY <2>1, <2>4 DEF Inv, FdsMatchClients
  <2>8. fd \notin todo
    BY <2>1, <2>7 DEF Inv, PolledAreClients
  <2>9. FdsMatchClients'
    BY <1>1, <2>1, <2>2, <2>4 DEF Inv, TypeOK, FdsMatchClients
  <2>10. EventsCurrent'
    BY <1>1, <2>1, <2>2, <2>4, <2>8 DEF Inv, TypeOK, EventsCurrent, InHand
  <2> QED BY <1>1, <2>1, <2>4, <2>6, <2>7, <2>9, <2>10
          DEF Inv, StageOK, PolledAreClients
<1>2. CASE pc' # "insert"
  <2>1. peer' \in [Conns -> Peer]
    BY <1>2 DEF Accept, Inv, TypeOK, Peer
  <2> QED BY <1>2, <2>1 DEF Accept, At, Inv, TypeOK, Stages, Locked, StageOK, Holding,
              PolledAreClients, FdsMatchClients, EventsCurrent, InHand
<1> QED BY <1>1, <1>2

(* The insertion ends the window in which a descriptor is not in clients_. *)
LEMMA InsertPreserves == Inv /\ Insert => Inv'
<1> SUFFICES ASSUME Inv, Insert PROVE Inv'
  OBVIOUS
<1>1. /\ pc = "insert" /\ pc' = "scan" /\ locked' = FALSE /\ cur \in Fds
      /\ clients_' = clients_ \cup {cur}
      /\ UNCHANGED <<running_, listening, kernel, peer, loopVars, signals, proc>>
  BY DEF Insert, Inside, Inv, StageOK, Holding
<1>2. TypeOK'
  BY <1>1 DEF Inv, TypeOK, Stages, loopVars
<1>3. StageOK' /\ PolledAreClients'
  BY <1>1 DEF StageOK, Holding, PolledAreClients
<1>4. FdsMatchClients' /\ EventsCurrent'
  BY <1>1 DEF Inv, FdsMatchClients, EventsCurrent, InHand, loopVars
<1> QED BY <1>2, <1>3, <1>4 DEF Inv

(* The entry in hand is one of those poll() filled in. *)
LEMMA ScanPreserves == Inv /\ Scan => Inv'
<1> SUFFICES ASSUME Inv, Scan PROVE Inv'
  OBVIOUS
<1>1. CASE todo = {}
  BY <1>1 DEF Scan, At, Inv, TypeOK, Stages, Locked, StageOK, Holding, PolledAreClients,
      FdsMatchClients, EventsCurrent, InHand
<1>2. CASE todo # {}
  <2>1. Lowest(todo) \in todo /\ todo \subseteq Fds
    BY <1>2, LowestIsMember DEF Inv, TypeOK
  <2>2. /\ pc = "scan" /\ pc' \in {"scan", "read"} /\ cur' = Lowest(todo)
        /\ todo' = todo \ {Lowest(todo)} /\ locked' = FALSE
    BY <1>2 DEF Scan, At, Inv, TypeOK, Locked
  <2>3. UNCHANGED <<running_, listening, clients_, kernel, peer, ready, events, polled,
                    batch, signals, proc>>
    BY DEF Scan
  <2>4. TypeOK'
    BY <2>1, <2>2, <2>3 DEF Inv, TypeOK, Stages
  <2>5. StageOK' /\ PolledAreClients' /\ FdsMatchClients'
    BY <2>1, <2>2, <2>3 DEF Inv, StageOK, Holding, PolledAreClients, FdsMatchClients
  <2>6. EventsCurrent'
    BY <2>1, <2>2, <2>3 DEF Inv, EventsCurrent, InHand
  <2> QED BY <2>4, <2>5, <2>6 DEF Inv
<1> QED BY <1>1, <1>2

(* recv() takes all there is, at least one request. *)
LEMMA ReadPreserves == Inv /\ Read => Inv'
<1> SUFFICES ASSUME Inv, Read PROVE Inv'
  OBVIOUS
<1> DEFINE c == kernel[cur]
<1>1. /\ pc = "read" /\ cur \in Fds /\ locked' = FALSE
      /\ UNCHANGED <<running_, listening, clients_, kernel, ready, todo, events, polled,
                     cur, signals, proc>>
  BY DEF Read, At, Inv, TypeOK, Locked, StageOK, Holding
<1>2. CASE c # None /\ peer[c].pending > 0
  <2>1. /\ batch' = peer[c].pending /\ pc' = "process"
        /\ peer' = [peer EXCEPT ![c].pending = 0]
    BY <1>2 DEF Read
  <2>2. c \in Conns /\ peer[c] \in Peer
    BY <1>1, <1>2 DEF Inv, TypeOK
  <2>3. peer[c].pending \in 0..MaxPending /\ 0 \in 0..MaxPending
    BY <2>2, Bounds DEF Peer
  <2>4. peer' \in [Conns -> Peer]
    BY <2>1, <2>2, <2>3 DEF Inv, TypeOK, Peer
  <2>5. TypeOK'
    BY <1>1, <2>1, <2>3, <2>4 DEF Inv, TypeOK, Stages
  <2>6. batch' # 0
    BY <1>2, <2>1, <2>3
  <2> QED BY <1>1, <2>1, <2>5, <2>6 DEF Inv, StageOK, PolledAreClients, FdsMatchClients,
              EventsCurrent, InHand
<1>3. CASE ~(c # None /\ peer[c].pending > 0)
  BY <1>1, <1>3 DEF Read, Inv, TypeOK, Stages, StageOK, PolledAreClients,
      FdsMatchClients, EventsCurrent, InHand
<1> QED BY <1>2, <1>3

(* One request, and the answer to it; the last one leaves the stage. *)
LEMMA ProcessPreserves == Inv /\ Process => Inv'
<1> SUFFICES ASSUME Inv, Process PROVE Inv'
  OBVIOUS
<1>1. /\ pc = "process" /\ cur \in Fds /\ locked' = FALSE /\ batch \in 1..MaxPending
      /\ UNCHANGED <<running_, listening, clients_, kernel, ready, todo, events, polled,
                     cur, signals>>
      /\ batch' = batch - 1
      /\ pc' = IF batch = 1 THEN "hangup" ELSE "process"
  BY Bounds DEF Process, Inside, Inv, TypeOK, StageOK, Holding
<1>2. batch' \in 0..MaxPending /\ (pc' = "process" => batch' # 0)
  BY <1>1, Bounds
<1>3. peer' \in [Conns -> Peer] /\ proc' \in {"running", "hung", "killed", "exited"}
  <2> DEFINE c == kernel[cur]
  <2>1. CASE cur \in clients_ /\ c # None
    <3>1. c \in Conns /\ peer[c] \in Peer
      BY <1>1, <2>1 DEF Inv, TypeOK
    <3>2. Sent(peer[c]) \in Peer
      BY <3>1 DEF Sent, Peer
    <3>3. /\ peer' = [peer EXCEPT ![c] = Sent(peer[c])]
          /\ proc' = IF Sigpipe(peer[c]) THEN "killed" ELSE proc
      BY <2>1 DEF Process
    <3> QED BY <3>1, <3>2, <3>3 DEF Inv, TypeOK
  <2>2. CASE ~(cur \in clients_ /\ c # None)
    BY <2>2 DEF Process, Inv, TypeOK
  <2> QED BY <2>1, <2>2
<1>4. TypeOK'
  BY <1>1, <1>2, <1>3 DEF Inv, TypeOK, Stages
<1> QED BY <1>1, <1>2, <1>4 DEF Inv, StageOK, Holding, PolledAreClients,
            FdsMatchClients, EventsCurrent, InHand

LEMMA HangupPreserves == Inv /\ Hangup => Inv'
<1> SUFFICES ASSUME Inv, Hangup PROVE Inv'
  OBVIOUS
<1>1. /\ pc = "hangup" /\ cur \in Fds /\ locked' = FALSE /\ pc' \in {"disconnect", "scan"}
      /\ UNCHANGED <<running_, listening, clients_, kernel, peer, ready, todo, polled, cur,
                     batch, signals, proc>>
      /\ events' = [events EXCEPT ![cur] = {}]
  BY DEF Hangup, At, Inv, TypeOK, Locked, StageOK, Holding
<1>2. events' \in [Fds -> SUBSET {"IN", "HUP"}]
  BY <1>1 DEF Inv, TypeOK
<1> QED BY <1>1, <1>2 DEF Inv, TypeOK, Stages, StageOK, Holding, PolledAreClients,
            FdsMatchClients, EventsCurrent, InHand

(* What closing some clients leaves behind, whichever they are: the others are *)
(* still open, and an open descriptor is still open on the same connection.    *)
LEMMA CloseKeeps ==
    ASSUME Inv, NEW S \in SUBSET Fds, Close(S), clients_' = clients_ \ S,
           pc = "insert" => cur \notin S,
           UNCHANGED <<todo, polled, cur>>,
           pc' = pc \/ (pc # "insert" /\ pc' \in {"loop", "hangup"}),
           pc' = "hangup" => pc \in {"hangup", "disconnect"}
    PROVE  /\ kernel' \in [Fds -> Conns \cup {None}]
           /\ pc' \notin {"poll", "accept"} \/ ~listening' => PolledAreClients'
           /\ FdsMatchClients'
           /\ EventsCurrent'
<1>1. /\ kernel' \in [Fds -> Conns \cup {None}]
      /\ \A f \in Fds : kernel'[f] = IF f \in S THEN None ELSE kernel[f]
  BY DEF Inv, TypeOK, Close
<1>2. \A f \in Fds : kernel[f] # None <=> f \in clients_ \/ (pc = "insert" /\ f = cur)
  BY DEF Inv, FdsMatchClients
<1>3. \A f \in Fds : kernel'[f] # None <=> f \in clients_' \/ (pc' = "insert" /\ f = cur')
  BY <1>1, <1>2
<1>4. clients_' \subseteq Fds /\ (pc' = "insert" => cur' \in Fds)
  BY DEF Inv, TypeOK, StageOK, Holding
<1>5. FdsMatchClients'
  BY <1>3, <1>4 DEF FdsMatchClients
<1>6. EventsCurrent'
  <2> SUFFICES ASSUME pc' # "loop", 
                      pc \in {"accept", "insert", "scan"}
                              \cup {"read", "process", "hangup", "disconnect"},
                      NEW f \in todo' \cup InHand'
               PROVE  kernel'[f] \in {polled'[f], None}
    BY DEF EventsCurrent
  <2>1. f \in todo \cup InHand
    BY DEF InHand
  <2>2. f \in Fds
    BY <2>1 DEF Inv, TypeOK, StageOK, Holding, InHand
  <2> QED BY <1>1, <2>1, <2>2 DEF Inv, EventsCurrent
<1> QED BY <1>1, <1>5, <1>6 DEF PolledAreClients

LEMMA DisconnectPreserves == Inv /\ Disconnect => Inv'
<1> SUFFICES ASSUME Inv, Disconnect PROVE Inv'
  OBVIOUS
<1>1. /\ pc = "disconnect" /\ pc' = "hangup" /\ locked' = FALSE /\ cur \in Fds
      /\ Close({cur}) /\ clients_' = clients_ \ {cur}
      /\ UNCHANGED <<running_, listening, peer, loopVars, signals, proc>>
  BY DEF Disconnect, Inside, Inv, StageOK, Holding, TypeOK
<1>2. kernel' \in [Fds -> Conns \cup {None}] /\ PolledAreClients' /\ FdsMatchClients' /\ EventsCurrent'
  BY <1>1, CloseKeeps DEF loopVars
<1> QED BY <1>1, <1>2 DEF Inv, TypeOK, Stages, StageOK, Holding, loopVars

LEMMA TimeoutsPreserve == Inv /\ Timeouts => Inv'
<1> SUFFICES ASSUME Inv, Timeouts PROVE Inv'
  OBVIOUS
<1> DEFINE expired == {f \in clients_ : TimedOut(f)}
<1>1. /\ pc = "timeouts" /\ pc' = "loop" /\ locked' = FALSE /\ expired \subseteq Fds
      /\ Close(expired) /\ clients_' = clients_ \ expired
      /\ UNCHANGED <<running_, listening, peer, loopVars, signals, proc>>
  BY DEF Timeouts, Inside, Inv, TypeOK
<1> HIDE DEF expired
<1>2. kernel' \in [Fds -> Conns \cup {None}] /\ PolledAreClients' /\ FdsMatchClients' /\ EventsCurrent'
  BY <1>1, CloseKeeps DEF loopVars
<1> QED BY <1>1, <1>2 DEF Inv, TypeOK, Stages, StageOK, Holding, loopVars

(* ~Server closes what stop() has not closed before. *)
LEMMA ExitPreserves == Inv /\ Exit => Inv'
<1> SUFFICES ASSUME Inv, Exit PROVE Inv'
  OBVIOUS
<1>1. /\ pc = "exit" /\ proc' = "exited" /\ running_' = FALSE /\ UNCHANGED locked
      /\ UNCHANGED <<peer, pc, loopVars, signals>>
  BY DEF Exit, At
<1>2. CASE running_
  <2>1. /\ Close(clients_) /\ clients_' = clients_ \ clients_ /\ clients_' = {}
        /\ listening' = FALSE /\ clients_ \in SUBSET Fds
    BY <1>2 DEF Exit, Inv, TypeOK
  <2>2. kernel' \in [Fds -> Conns \cup {None}] /\ PolledAreClients' /\ FdsMatchClients' /\ EventsCurrent'
    BY <1>1, <2>1, CloseKeeps DEF loopVars
  <2> QED BY <1>1, <2>1, <2>2 DEF Inv, TypeOK, StageOK, Holding, loopVars
<1>3. CASE ~running_
  <2>1. UNCHANGED <<listening, clients_, kernel>>
    BY <1>3 DEF Exit
  <2> QED BY <1>1, <2>1 DEF Inv, TypeOK, StageOK, Holding, PolledAreClients,
              FdsMatchClients, EventsCurrent, InHand, loopVars
<1> QED BY <1>2, <1>3

(* stop() closes every client, at whatever stage it finds the thread. *)
LEMMA SignalPreserves == Inv /\ Signal => Inv'
<1> SUFFICES ASSUME Inv, Signal PROVE Inv'
  OBVIOUS
<1>1. signals' \in 0..MaxSignals /\ UNCHANGED <<peer, locked, loopVars>>
  BY Bounds DEF Signal, Inv, TypeOK
<1>2. CASE UNCHANGED <<listening, clients_, kernel, pc>>
  <2>1. /\ running_' \in BOOLEAN /\ proc' \in {"running", "hung", "killed", "exited"}
    BY DEF Signal, Inv, TypeOK
  <2> QED BY <1>1, <1>2, <2>1 DEF Inv, TypeOK, StageOK, PolledAreClients, FdsMatchClients,
              EventsCurrent, InHand, loopVars
<1>3. CASE ~UNCHANGED <<listening, clients_, kernel, pc>>
  <2>1. /\ Close(clients_) /\ clients_' = {} /\ clients_' = clients_ \ clients_
        /\ listening' = FALSE /\ running_' = FALSE /\ proc' = proc
        /\ pc' = pc \/ (pc = "poll" /\ pc' = "loop")
        /\ clients_ \in SUBSET Fds
    BY <1>3 DEF Signal, Inv, TypeOK
  <2>2. kernel' \in [Fds -> Conns \cup {None}] /\ PolledAreClients' /\ FdsMatchClients' /\ EventsCurrent'
    BY <1>1, <2>1, CloseKeeps DEF loopVars, Inv, StageOK
  <2> QED BY <1>1, <1>3, <2>1, <2>2 DEF Inv, TypeOK, Stages, Locked, StageOK, Holding,
              loopVars
<1> QED BY <1>2, <1>3

LEMMA NextPreserves == Inv /\ [Next]_vars => Inv'
BY StutterPreserves, PeersPreserve, QuietStagesPreserve, PollPreserves, AcceptPreserves,
   InsertPreserves, ScanPreserves, ReadPreserves, ProcessPreserves, HangupPreserves,
   DisconnectPreserves, TimeoutsPreserve, ExitPreserves, SignalPreserves
   DEF Next, MainStep

(* At every moment the loop, its tables and the mutex are as Inv says. *)
THEOREM Invariance == Spec => []Inv
BY InitInv, NextPreserves, PTL DEF Spec

-----------------------------------------------------------------------------
(* The main loop is well typed, for any connections, descriptors and bounds:  *)
(* a descriptor is in hand where one is used, and no batch is processed past  *)
(* its last request.                                                          *)
THEOREM TypeCorrect == Spec => []TypeOK
<1>1. Inv => TypeOK
  BY DEF Inv
<1> QED BY <1>1, Invariance, PTL

(* No descriptor leaks and no handler outlives its descriptor, whatever       *)
(* hang-ups, double disconnects, time-outs and signals come between.          *)
THEOREM NoDescriptorLeaks == Spec => []FdsMatchClients
<1>1. Inv => FdsMatchClients
  BY DEF Inv
<1> QED BY <1>1, Invariance, PTL

(* Descriptor numbers are reused, yet an event poll() reported is never        *)
(* applied to a connection accepted after it.                                  *)
THEOREM EventsStayCurrent == Spec => []EventsCurrent
<1>1. Inv => EventsCurrent
  BY DEF Inv
<1> QED BY <1>1, Invariance, PTL
=============================================================================
