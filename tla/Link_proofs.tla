----------------------------- MODULE Link_proofs -----------------------------
(***************************************************************************)
(* Proofs about client and server composed, for both front ends.           *)
(***************************************************************************)
EXTENDS Link, Rpc_proofs

(* A response fits the framing or does not. *)
LEMMA FitsOrNot == \A c, type : FitsOf(c, type) \subseteq BOOLEAN
BY DEF FitsOf

(* A step of the link between the two ends, seen from the client library.   *)
LEMMA LinkSteps ==
    /\ LinkConnect => Connect
    /\ LinkDisconnect => Disconnect
    /\ CallRefused => Refused
    /\ CallFails => SendFails
    /\ \A type, parts, fits : Call(type, parts, fits) => Send
    /\ LinkTimeOut => TimeOut
    /\ LinkPoll => \E n \in 1..Len(down), garbled \in BOOLEAN : Poll(n, garbled)
    /\ Remote => ClientNext
<1>1. ASSUME NEW c \in Conns, LinkServe(c)
      PROVE  \E fits \in BOOLEAN, n \in 0..2 : Serve(c, fits, n)
  BY <1>1, FitsOrNot DEF LinkServe
<1>2. ASSUME NEW c \in Conns, LinkMisread(c)
      PROVE  \E fits \in BOOLEAN, n \in 0..2 : Misread(c, fits, n)
  BY <1>2, FitsOrNot DEF LinkMisread
<1> QED BY <1>1, <1>2 DEF LinkConnect, LinkDisconnect, CallRefused, CallFails, Call, LinkTimeOut,
            LinkPoll, Remote, LinkDrop, LinkLose, LinkClose, LinkReset, ClientNext

-----------------------------------------------------------------------------
(* What is proved of the handlers alone, over the connections of the client.  *)
HP == INSTANCE ClientHandler_proofs WITH Sockets <- Conns

HandlerInv == H!TypeOK /\ H!RolesCoherent /\ H!FeedbackFromStaff

LEMMA SameState == (HandlerInv <=> HP!Inv) /\ (HandlerInv' <=> HP!Inv') /\ H!Messages = HP!Messages
<1>1. (HandlerInv <=> HP!Inv) /\ (HandlerInv' <=> HP!Inv')
  BY DEF HandlerInv, HP!Inv, H!DbTypeOK, HP!DbTypeOK, H!IsMap, HP!IsMap, H!UserData, HP!UserData,
       H!SessionData, HP!SessionData, H!Handler, HP!Handler, H!Response,
       HP!Response, H!ResponseTypes, HP!ResponseTypes, H!ErrorCodes,
       HP!ErrorCodes, H!NoResponse, HP!NoResponse, H!Levels, HP!Levels, H!Roles,
       HP!Roles, H!TypeOK, HP!TypeOK, H!RolesCoherent, HP!RolesCoherent,
       H!FeedbackFromStaff, HP!FeedbackFromStaff, H!userExists, HP!userExists,
       H!User, HP!User, H!Staff, HP!Staff
<1>2. H!Messages = HP!Messages
  BY DEF H!Messages, HP!Messages, H!Message, HP!Message, H!Levels, HP!Levels, H!Roles, HP!Roles
<1> QED BY <1>1, <1>2

LEMMA SameSteps ==
    /\ \A c, m : H!processMessage(c, m) <=> HP!processMessage(c, m)
    /\ \A c : H!Connect(c) <=> HP!Connect(c)
    /\ \A c : H!Disconnect(c) <=> HP!Disconnect(c)
<1>1. \A c, m : H!processMessage(c, m) <=> HP!processMessage(c, m)
  BY DEF H!Allowed, HP!Allowed, H!Answer, HP!Answer, H!Malformed, HP!Malformed,
       H!NewUser, HP!NewUser, H!Open, HP!Open, H!Put, HP!Put, H!Erase, HP!Erase,
       H!Refuse, HP!Refuse, H!RefuseGuest, HP!RefuseGuest, H!Send, HP!Send,
       H!Submit, HP!Submit, H!User, HP!User, H!addGameItem, HP!addGameItem,
       H!Report, HP!Report, H!createUserReturns, HP!createUserReturns,
       H!getUserDataReturns, HP!getUserDataReturns, H!saveFeedbackReturns,
       HP!saveFeedbackReturns, H!addGameItemReturns, HP!addGameItemReturns,
       H!authenticateUser, HP!authenticateUser, H!createSession, HP!createSession,
       H!createUser, HP!createUser, H!dbVars, HP!dbVars,
       H!handleAddGameItemRequest, HP!handleAddGameItemRequest,
       H!handleChatMessage, HP!handleChatMessage, H!handleGameMoveRequest,
       HP!handleGameMoveRequest, H!handleGameStartRequest,
       HP!handleGameStartRequest, H!handleGetFeedbackRequest,
       HP!handleGetFeedbackRequest, H!handleGetLessonContentRequest,
       HP!handleGetLessonContentRequest, H!handleGetLessonListRequest,
       HP!handleGetLessonListRequest, H!handleGetScoreRequest,
       HP!handleGetScoreRequest, H!handleHeartbeatRequest,
       HP!handleHeartbeatRequest, H!handleLoginRequest, HP!handleLoginRequest,
       H!handleLogoutRequest, HP!handleLogoutRequest, H!handleRegisterRequest,
       HP!handleRegisterRequest, H!handleSendFeedbackRequest,
       HP!handleSendFeedbackRequest, H!handleSetLevelRequest,
       HP!handleSetLevelRequest, H!handleSubmitExerciseRequest,
       HP!handleSubmitExerciseRequest, H!handleSubmitQuizRequest,
       HP!handleSubmitQuizRequest, H!handleVoiceCallRequest,
       HP!handleVoiceCallRequest, H!processMessage, HP!processMessage,
       H!removeSession, HP!removeSession, H!saveFeedback, HP!saveFeedback,
       H!updateUserLevel, HP!updateUserLevel, H!updateUserScore,
       HP!updateUserScore, H!userExists, HP!userExists
<1>2. \A c : H!Connect(c) <=> HP!Connect(c)
  BY DEF H!Connect, HP!Connect, H!Put, HP!Put, H!NewHandler, HP!NewHandler, H!dbVars, HP!dbVars
<1>3. \A c : H!Disconnect(c) <=> HP!Disconnect(c)
  BY DEF H!Disconnect, HP!Disconnect, H!Erase, HP!Erase, H!removeSession, HP!removeSession,
         H!User, HP!User
<1> QED BY <1>1, <1>2, <1>3

(* So the handlers keep their invariant when they are part of the link. *)
LEMMA HandlersKeepInv ==
    ASSUME HandlerInv
    PROVE  /\ UNCHANGED store => HandlerInv'
           /\ \A c \in Conns : H!Connect(c) => HandlerInv'
           /\ \A c \in DOMAIN clients_ : H!Disconnect(c) => HandlerInv'
           /\ \A c \in DOMAIN clients_, m \in Requests : H!processMessage(c, m) => HandlerInv'
<1>1. HP!Inv /\ Requests \subseteq HP!Messages
  BY SameState, HandlerAssumption
<1>2. \A c \in Conns : H!Connect(c) => HandlerInv'
  BY <1>1, SameState, SameSteps, HandlerAssumption, HP!ConnectPreserves
<1>3. \A c \in DOMAIN clients_ : H!Disconnect(c) => HandlerInv'
  BY <1>1, SameState, SameSteps, HandlerAssumption, HP!DisconnectPreserves
<1>4. \A c \in DOMAIN clients_, m \in Requests : H!processMessage(c, m) => HandlerInv'
  BY <1>1, SameState, SameSteps, HandlerAssumption, HP!ProcessMessagePreserves
<1>5. UNCHANGED store => HandlerInv'
  BY <1>1, SameState, HandlerAssumption, HP!NextPreserves DEF store, HP!vars, HP!dbVars
<1> QED BY <1>2, <1>3, <1>4, <1>5

LEMMA HandlersStart == H!Init => HandlerInv
BY SameState, HandlerAssumption, HP!InitInv
   DEF H!Init, HP!Init, H!initialize, HP!initialize, H!NewUser, HP!NewUser,
       H!NoResponse, HP!NoResponse

-----------------------------------------------------------------------------
(* No two requests under way are of the same call. *)
RequestsApart ==
    \A c, d \in Conns : \A k \in DOMAIN up[c] : \A l \in DOMAIN up[d] :
        up[c][k] = up[d][l] => c = d /\ k = l

LEMMA FewerStayApart ==
    ASSUME RequestsApart, NEW c \in Conns, \A d \in Conns : d # c => up'[d] = up[d],
           NEW n \in Nat,
           \A k \in DOMAIN up'[c] : k \in Nat /\ k + n \in DOMAIN up[c] /\ up'[c][k] = up[c][k + n]
    PROVE  RequestsApart'
<1> SUFFICES ASSUME NEW d \in Conns, NEW e \in Conns, NEW k \in DOMAIN up'[d],
                    NEW l \in DOMAIN up'[e], up'[d][k] = up'[e][l]
             PROVE  d = e /\ k = l
  BY DEF RequestsApart
<1>1. CASE d = c /\ e = c
  BY <1>1 DEF RequestsApart
<1>2. CASE d = c /\ e # c
  BY <1>2 DEF RequestsApart
<1>3. CASE d # c /\ e = c
  BY <1>3 DEF RequestsApart
<1>4. CASE d # c /\ e # c
  BY <1>4 DEF RequestsApart
<1> QED BY <1>1, <1>2, <1>3, <1>4

LEMMA CallsStayApart ==
    ASSUME OrderInv, RequestsApart, [ClientNext]_clientVars
    PROVE  RequestsApart'
<1>1. CASE UNCHANGED up
  BY <1>1 DEF RequestsApart
<1>2. ASSUME NEW c \in Conns, up[c] # << >>, up' = [up EXCEPT ![c] = Tail(@)]
      PROVE  RequestsApart'
  <2>1. \A k \in DOMAIN up'[c] : k \in Nat /\ k + 1 \in DOMAIN up[c] /\ up'[c][k] = up[c][k + 1]
    BY <1>2, TailOfRequests
  <2>2. \A d \in Conns : d # c => up'[d] = up[d]
    BY <1>2, TailOfRequests
  <2> QED BY <2>1, <2>2, FewerStayApart
<1>3. CASE Reset
  <2>1. conn \in Conns /\ up \in [Conns -> Seq(Calls)]
    BY <1>3 DEF Reset, OrderInv, WiresOpen, ClientTypeOK, QueuesOK, Conns
  <2>2. up'[conn] = << >> /\ \A d \in Conns : d # conn => up'[d] = up[d]
    BY <1>3, <2>1 DEF Reset
  <2> QED BY <2>1, <2>2 DEF RequestsApart
<1>4. ASSUME Send, up' = [up EXCEPT ![conn] = Append(@, Current)]
      PROVE  RequestsApart'
  <2>1. conn \in Conns /\ up \in [Conns -> Seq(Calls)]
    BY <1>4 DEF Send, OrderInv, WiresOpen, ClientTypeOK, QueuesOK, Conns
  <2>2. /\ Current \in Nat
        /\ \A c \in Conns : \A k \in DOMAIN up[c] : up[c][k] < Current /\ up[c][k] \in Nat
    BY <1>4, CallMayBeAnswered, RequestsAreCalls DEF Send
  <2>3. /\ \A d \in Conns : d # conn => up'[d] = up[d]
        /\ DOMAIN up'[conn] = 1..(Len(up[conn]) + 1) /\ DOMAIN up[conn] = 1..Len(up[conn])
        /\ Len(up[conn]) \in Nat
        /\ up'[conn][Len(up[conn]) + 1] = Current
        /\ \A k \in DOMAIN up[conn] : up'[conn][k] = up[conn][k]
    <3>1. up'[conn] = Append(up[conn], Current) /\ up[conn] \in Seq(Calls)
      BY <1>4, <2>1
    <3>2. Current \in Calls
      BY <1>4, <2>2, ClientAssumption DEF Send, Calls, Current
    <3> QED BY <1>4, <2>1, <3>1, <3>2
  <2> DEFINE last == Len(up[conn]) + 1
  <2>4. \A c \in Conns : \A k \in DOMAIN up'[c] :
           \/ k \in DOMAIN up[c] /\ up'[c][k] = up[c][k] /\ up'[c][k] # Current
           \/ c = conn /\ k = last /\ up'[c][k] = Current
    <3> SUFFICES ASSUME NEW c \in Conns, NEW k \in DOMAIN up'[c]
                 PROVE  \/ k \in DOMAIN up[c] /\ up'[c][k] = up[c][k] /\ up'[c][k] # Current
                        \/ c = conn /\ k = last /\ up'[c][k] = Current
      OBVIOUS
    <3>1. CASE c # conn
      BY <2>2, <2>3, <3>1
    <3>2. CASE c = conn
      <4>1. k \in 1..Len(up[conn]) \/ k = last
        BY <2>3, <3>2
      <4> QED BY <2>2, <2>3, <3>2, <4>1
    <3> QED BY <3>1, <3>2
  <2> QED BY <2>4 DEF RequestsApart
<1>5. ASSUME ClientNext
      PROVE  \/ UNCHANGED up
             \/ \E c \in Conns : up[c] # << >> /\ up' = [up EXCEPT ![c] = Tail(@)]
             \/ Reset
             \/ Send /\ up' = [up EXCEPT ![conn] = Append(@, Current)]
  BY <1>5 DEF ClientNext, Connect, Disconnect, Refused, Send, SendFails, TimeOut, Poll, Drop,
     Lose, ServerClose, Serve, Misread, remote
<1> QED BY <1>1, <1>2, <1>3, <1>4, <1>5 DEF clientVars, remote

-----------------------------------------------------------------------------
(* Every request under way and every response has its meaning recorded.      *)
WireOK ==
    /\ H!IsMap(request, Calls, Request)
    /\ H!IsMap(answer, Ids \ {0}, Reply)
    /\ DOMAIN clients_ = {c \in Conns : serverOpen[c]}
    /\ \A c \in Conns : \A k \in DOMAIN up[c] : up[c][k] \in DOMAIN request
    /\ \A k \in DOMAIN down : down[k].id \in DOMAIN answer \cup {0}

LinkInv == OrderInv /\ HandlerInv /\ RequestsApart /\ WireOK

LEMMA LinkInvTypes == LinkInv => LinkTypeOK
BY DEF LinkInv, OrderInv, HandlerInv, WireOK, LinkTypeOK, ToSet

(* What a front end and the server may do to the link.                       *)
LinkNext ==
    \/ LinkConnect \/ LinkDisconnect \/ CallRefused \/ CallFails \/ LinkTimeOut \/ LinkPoll
    \/ Remote
    \/ \E type, parts : \E fits \in BOOLEAN :
          /\ [type |-> type, parts |-> IF fits THEN parts ELSE << >>] \in Requests
          /\ Call(type, parts, fits)

LEMMA LinkIsClient == [LinkNext]_linkVars => [ClientNext]_clientVars
BY LinkSteps DEF LinkNext, linkVars, ClientNext

(* Maps that lose, gain or forget keys.                                      *)
LEMMA MapFacts ==
    ASSUME NEW K, NEW V, NEW f, H!IsMap(f, K, V)
    PROVE  /\ \A D : D \subseteq DOMAIN f => H!IsMap([x \in D |-> f[x]], K, V)
           /\ \A k \in K, v \in V : H!IsMap(H!Put(f, k, v), K, V)
           /\ \A k : H!IsMap(H!Erase(f, k), K, V)
           /\ H!IsMap(<< >>, K, V)
           /\ \A x \in DOMAIN f : f[x] \in V /\ x \in K
           /\ \A k, v : DOMAIN H!Put(f, k, v) = DOMAIN f \cup {k}
           /\ \A k : DOMAIN H!Erase(f, k) = DOMAIN f \ {k}
BY DEF H!IsMap, H!Put, H!Erase

(* The answers known are those of which a byte may still come. *)
LEMMA ComingAnswers ==
    ASSUME NEW a, H!IsMap(a, Ids \ {0}, Reply), answer' = Coming(a),
           \A k \in DOMAIN down' : down'[k].id \in DOMAIN a \cup {0}
    PROVE  /\ H!IsMap(answer, Ids \ {0}, Reply)'
           /\ \A k \in DOMAIN down' : down'[k].id \in DOMAIN answer' \cup {0}
           /\ \A i \in DOMAIN answer' : i \in DOMAIN a /\ answer'[i] = a[i]
<1> DEFINE D == DOMAIN a \cap {down'[k].id : k \in DOMAIN down'}
<1>1. answer' = [i \in D |-> a[i]] /\ D \subseteq DOMAIN a
  BY DEF Coming
<1>2. \A k \in DOMAIN down' : down'[k].id \in D \cup {0}
  OBVIOUS
<1> HIDE DEF D
<1>3. H!IsMap([i \in D |-> a[i]], Ids \ {0}, Reply)
  BY <1>1, MapFacts
<1> QED BY <1>1, <1>2, <1>3 DEF H!IsMap

LEMMA QuietStepsKeepWire ==
    ASSUME LinkInv,
           CallRefused \/ CallFails \/ LinkTimeOut \/ LinkConnect \/ LinkDisconnect
    PROVE  WireOK' /\ HandlerInv'
<1>1. CASE CallRefused \/ CallFails \/ LinkTimeOut
  <2>1. UNCHANGED <<store, wire, up, down, serverOpen>>
    BY <1>1 DEF CallRefused, Refused, CallFails, SendFails, LinkTimeOut, TimeOut, remote
  <2>2. WireOK'
    BY <2>1 DEF LinkInv, WireOK, store, wire
  <2> QED BY <2>1, <2>2, HandlersKeepInv DEF LinkInv
<1>2. CASE LinkDisconnect
  <2>1. UNCHANGED <<store, request, up, serverOpen>> /\ answer' = Coming(answer) /\ down' = << >>
    BY <1>2 DEF LinkDisconnect, Disconnect
  <2>2. H!IsMap(answer, Ids \ {0}, Reply)'
    <3>1. H!IsMap(answer, Ids \ {0}, Reply) /\ \A k \in DOMAIN down' : FALSE
      BY <2>1 DEF LinkInv, WireOK
    <3> QED BY <2>1, <3>1, ComingAnswers
  <2>3. WireOK'
    BY <2>1, <2>2 DEF LinkInv, WireOK, store
  <2> QED BY <2>1, <2>3, HandlersKeepInv DEF LinkInv
<1>3. CASE LinkConnect
  <2>1. /\ UNCHANGED <<wire, up, down>> /\ H!Connect(conn')
        /\ serverOpen' = [serverOpen EXCEPT ![conn'] = TRUE]
        /\ conn' = conn + 1 /\ conn < MaxConns
    BY <1>3 DEF LinkConnect, Connect
  <2>2. conn' \in Conns /\ serverOpen \in [Conns -> BOOLEAN]
    BY <2>1, ClientAssumption DEF LinkInv, OrderInv, ClientTypeOK, QueuesOK, Conns
  <2>3. DOMAIN clients_' = DOMAIN clients_ \cup {conn'}
    BY <2>1 DEF H!Connect, H!Put
  <2>4. DOMAIN clients_' = {c \in Conns : serverOpen'[c]}
    BY <2>1, <2>2, <2>3 DEF LinkInv, WireOK
  <2>5. WireOK'
    BY <2>1, <2>4 DEF LinkInv, WireOK, wire
  <2> QED BY <2>1, <2>2, <2>5, HandlersKeepInv DEF LinkInv
<1> QED BY <1>1, <1>2, <1>3

LEMMA CallKeepsWire ==
    ASSUME LinkInv, NEW type, NEW parts, NEW fits \in BOOLEAN, Call(type, parts, fits),
           [type |-> type, parts |-> IF fits THEN parts ELSE << >>] \in Requests
    PROVE  WireOK' /\ HandlerInv'
<1> DEFINE m == [message |-> [type |-> type, parts |-> IF fits THEN parts ELSE << >>],
                 fits |-> fits]
<1>1. /\ UNCHANGED <<store, answer, down, serverOpen>> /\ Send
      /\ request' = IF alive' THEN H!Put(request, Current, m) ELSE request
  BY DEF Call, Send
<1>2. m \in Request
  BY DEF Request
<1>3. Current \in Calls
  <2>1. ~waiting /\ Len(results) < MaxCalls
    BY <1>1 DEF Send
  <2>2. Len(results) \in Nat
    BY DEF LinkInv, OrderInv, ClientTypeOK, QueuesOK
  <2> QED BY <2>1, <2>2, ClientAssumption DEF Calls, Current
<1>4. H!IsMap(request, Calls, Request)'
  BY <1>1, <1>2, <1>3, MapFacts DEF LinkInv, WireOK
<1>5. DOMAIN request \subseteq DOMAIN request'
  BY <1>1 DEF H!Put
<1>6. \A c \in Conns : \A k \in DOMAIN up'[c] : up'[c][k] \in DOMAIN request'
  <2>1. CASE UNCHANGED up
    BY <1>5, <2>1 DEF LinkInv, WireOK
  <2>2. CASE ~UNCHANGED up
    <3>1. alive' = TRUE /\ alive /\ ~broken /\ connected_
          /\ up' = [up EXCEPT ![conn] = Append(@, Current)]
      BY <1>1, <2>2 DEF Send, LinkInv, OrderInv, ClientTypeOK, FlagsOK
    <3>2. Current \in DOMAIN request'
      BY <1>1, <3>1 DEF H!Put
    <3>3. conn \in Conns /\ up \in [Conns -> Seq(Calls)]
      BY <3>1 DEF LinkInv, OrderInv, WiresOpen, ClientTypeOK, QueuesOK, Conns
    <3>4. \A k \in DOMAIN up'[conn] : up'[conn][k] = Current \/
             (k \in DOMAIN up[conn] /\ up'[conn][k] = up[conn][k])
      <4>1. up'[conn] = Append(up[conn], Current) /\ up[conn] \in Seq(Calls)
        BY <3>1, <3>3
      <4> QED BY <1>3, <4>1
    <3>5. \A c \in Conns : c # conn => up'[c] = up[c]
      BY <3>1, <3>3
    <3> QED BY <1>5, <3>2, <3>4, <3>5 DEF LinkInv, WireOK
  <2> QED BY <2>1, <2>2
<1>7. WireOK'
  BY <1>1, <1>4, <1>6 DEF LinkInv, WireOK, store
<1> QED BY <1>1, <1>7, HandlersKeepInv DEF LinkInv

LEMMA PollKeepsWire ==
    ASSUME LinkInv, LinkPoll
    PROVE  WireOK' /\ HandlerInv'
<1>1. PICK n \in 1..Len(down), garbled \in BOOLEAN : Poll(n, garbled)
  BY DEF LinkPoll
<1>2. /\ UNCHANGED <<store, request, up, serverOpen>> /\ answer' = Coming(answer)
      /\ down' = SubSeq(down, n + 1, Len(down))
  BY <1>1 DEF LinkPoll, Poll
<1>3. \A k \in DOMAIN down' : down'[k].id \in DOMAIN answer \cup {0}
  <2>1. down \in Seq(Piece) /\ DOMAIN down = 1..Len(down) /\ n \in 0..Len(down)
    BY DEF LinkInv, OrderInv, ClientTypeOK, QueuesOK
  <2>2. /\ down' \in Seq(Piece) /\ Len(down') = Len(down) - n
        /\ \A l \in 1..Len(down') : down'[l] = down[n + l]
    BY <1>2, <2>1, Taken
  <2>3. \A k \in DOMAIN down' : n + k \in DOMAIN down /\ down'[k] = down[n + k]
    BY <2>1, <2>2
  <2> QED BY <2>3 DEF LinkInv, WireOK
<1>4. WireOK'
  BY <1>2, <1>3, ComingAnswers DEF LinkInv, WireOK, store
<1> QED BY <1>2, <1>4, HandlersKeepInv DEF LinkInv

(* What is on its way after the server has written of a response z.          *)
LEMMA OnItsWay ==
    ASSUME OrderInv, NEW c, NEW z \in Ids, NEW n \in 0..2, Written(c, z, n)
    PROVE  \A k \in DOMAIN down' : (k \in DOMAIN down /\ down'[k] = down[k]) \/ down'[k].id = z
<1>1. CASE ~(connected_ /\ c = conn)
  BY <1>1 DEF Written
<1>2. CASE connected_ /\ c = conn
  <2>1. down' = down \o SubSeq(Response(z), 1, n) /\ down \in Seq(Piece)
    BY <1>2 DEF Written, OrderInv, ClientTypeOK, QueuesOK
  <2>2. /\ Response(z) \in Seq(Piece) /\ Len(Response(z)) = 2
        /\ \A k \in 1..2 : Response(z)[k].id = z
    BY DEF Response, Piece
  <2>3. PICK s : s = SubSeq(Response(z), 1, n)
    OBVIOUS
  <2>4. s \in Seq(Piece) /\ \A k \in DOMAIN s : s[k].id = z
    <3>1. s \in Seq(Piece) /\ Len(s) = n /\ \A k \in 1..n : s[k] = Response(z)[k]
      BY <2>2, <2>3, Beginning
    <3> QED BY <2>2, <3>1
  <2> QED BY <2>1, <2>3, <2>4
<1> QED BY <1>1, <1>2

(* The request that leaves connection c is no longer under way.              *)
LEMMA TakenRequest ==
    ASSUME LinkInv, NEW c \in Conns, up[c] # << >>, up' = [up EXCEPT ![c] = Tail(@)],
           request' = H!Erase(request, Head(up[c]))
    PROVE  /\ Head(up[c]) \in DOMAIN request
           /\ H!IsMap(request, Calls, Request)'
           /\ \A d \in Conns : \A k \in DOMAIN up'[d] : up'[d][k] \in DOMAIN request'
<1>1. /\ 1 \in DOMAIN up[c] /\ Head(up[c]) = up[c][1]
      /\ \A d \in Conns : d # c => up'[d] = up[d]
      /\ \A k \in DOMAIN up'[c] : k \in Nat /\ k + 1 \in DOMAIN up[c] /\ up'[c][k] = up[c][k + 1]
  BY TailOfRequests DEF LinkInv
<1>2. /\ Head(up[c]) \in DOMAIN request /\ H!IsMap(request, Calls, Request)
      /\ \A d \in Conns : \A k \in DOMAIN up[d] : up[d][k] \in DOMAIN request
  BY <1>1 DEF LinkInv, WireOK
<1>3. DOMAIN request' = DOMAIN request \ {Head(up[c])}
  BY DEF H!Erase
<1>4. ASSUME NEW d \in Conns, NEW k \in DOMAIN up'[d] PROVE up'[d][k] \in DOMAIN request'
  <2>1. CASE d # c
    BY <1>1, <1>2, <1>3, <1>4, <2>1 DEF LinkInv, RequestsApart
  <2>2. CASE d = c
    <3>1. k + 1 \in DOMAIN up[c] /\ up'[c][k] = up[c][k + 1] /\ k \in Nat /\ k + 1 # 1
      <4>1. k \in Nat /\ k + 1 \in DOMAIN up[c] /\ up'[c][k] = up[c][k + 1] /\ k \in DOMAIN up'[c]
        BY <1>1, <1>4, <2>2
      <4>2. k # 0
        <5>1. up'[c] \in Seq(Calls)
          BY TailOfRequests DEF LinkInv
        <5> QED BY <4>1, <5>1
      <4> QED BY <4>1, <4>2
    <3>2. up[c][k + 1] # up[c][1]
      BY <1>1, <3>1 DEF LinkInv, RequestsApart
    <3> QED BY <1>1, <1>2, <1>3, <2>2, <3>1, <3>2
  <2> QED BY <2>1, <2>2
<1>5. H!IsMap(request, Calls, Request)'
  BY <1>2, MapFacts
<1> QED BY <1>2, <1>4, <1>5

LEMMA LossKeepsWire ==
    ASSUME LinkInv, NEW c \in Conns, LinkDrop(c) \/ LinkLose(c)
    PROVE  WireOK' /\ HandlerInv'
<1>1. /\ UNCHANGED <<store, answer, down, serverOpen>> /\ up[c] # << >>
      /\ up' = [up EXCEPT ![c] = Tail(@)] /\ request' = H!Erase(request, Head(up[c]))
  BY DEF LinkDrop, LinkLose, Drop, Lose
<1>2. WireOK'
  BY <1>1, TakenRequest DEF LinkInv, WireOK, store
<1> QED BY <1>1, <1>2, HandlersKeepInv DEF LinkInv

LEMMA CloseKeepsWire ==
    ASSUME LinkInv, NEW c \in Conns, LinkClose(c)
    PROVE  WireOK' /\ HandlerInv'
<1>1. /\ UNCHANGED <<wire, up, down>> /\ serverOpen[c] /\ H!Disconnect(c)
      /\ serverOpen' = [serverOpen EXCEPT ![c] = FALSE]
  BY DEF LinkClose, ServerClose
<1>2. c \in DOMAIN clients_ /\ DOMAIN clients_' = DOMAIN clients_ \ {c}
  BY <1>1 DEF LinkInv, WireOK, H!Disconnect, H!Erase
<1>3. DOMAIN clients_' = {d \in Conns : serverOpen'[d]}
  BY <1>1, <1>2 DEF LinkInv, WireOK, OrderInv, ClientTypeOK, QueuesOK
<1>4. WireOK'
  BY <1>1, <1>3 DEF LinkInv, WireOK, wire
<1> QED BY <1>1, <1>2, <1>4, HandlersKeepInv DEF LinkInv

LEMMA ResetKeepsWire ==
    ASSUME LinkInv, LinkReset
    PROVE  WireOK' /\ HandlerInv'
<1>0. H!IsMap(answer, Ids \ {0}, Reply) /\ answer' = Coming(answer)
  BY DEF LinkReset, LinkInv, WireOK
<1> DEFINE kept == DOMAIN request \ ToSet(up[conn])
<1>1. /\ UNCHANGED <<store, serverOpen>> /\ connected_ /\ down' \in {down, << >>}
      /\ up' = [up EXCEPT ![conn] = << >>] /\ request' = [i \in kept |-> request[i]]
      /\ answer' = Coming(answer)
  BY DEF LinkReset, Reset
<1>2. conn \in Conns /\ up \in [Conns -> Seq(Calls)]
  BY <1>1 DEF LinkInv, OrderInv, WiresOpen, ClientTypeOK, QueuesOK, Conns
<1>3. H!IsMap(request, Calls, Request)'
  <2>1. kept \subseteq DOMAIN request
    OBVIOUS
  <2> HIDE DEF kept
  <2> QED BY <1>1, <2>1, MapFacts DEF LinkInv, WireOK
<1>4. /\ H!IsMap(answer, Ids \ {0}, Reply)'
      /\ \A k \in DOMAIN down' : down'[k].id \in DOMAIN answer' \cup {0}
  <2>1. \A k \in DOMAIN down' : down'[k].id \in DOMAIN answer \cup {0}
    BY <1>1 DEF LinkInv, WireOK
  <2> QED BY <1>0, <2>1, ComingAnswers
<1>5. \A d \in Conns : \A k \in DOMAIN up'[d] : up'[d][k] \in DOMAIN request'
  <2> SUFFICES ASSUME NEW d \in Conns, NEW k \in DOMAIN up'[d] PROVE up'[d][k] \in kept
    BY <1>1
  <2>1. CASE d = conn
    BY <1>1, <1>2, <2>1
  <2>2. CASE d # conn
    <3>1. up'[d] = up[d] /\ up[d][k] \in DOMAIN request /\ k \in DOMAIN up[d]
      BY <1>1, <1>2, <2>2 DEF LinkInv, WireOK
    <3>2. \A l \in DOMAIN up[conn] : up[conn][l] # up[d][k]
      BY <1>2, <2>2, <3>1 DEF LinkInv, RequestsApart
    <3> QED BY <3>1, <3>2 DEF ToSet
  <2> QED BY <2>1, <2>2
<1>6. WireOK'
  BY <1>1, <1>3, <1>4, <1>5 DEF LinkInv, WireOK, store
<1> QED BY <1>1, <1>6, HandlersKeepInv DEF LinkInv

-----------------------------------------------------------------------------
(* The answers that may not fit the framing, and what they answer. *)
Unsure    == {"GET_LESSON_CONTENT_RESPONSE", "GAME_START_RESPONSE", "GET_FEEDBACK_RESPONSE"}
UnsureOps == {"GET_LESSON_CONTENT_REQUEST", "GAME_START_REQUEST", "GET_FEEDBACK_REQUEST"}

LEMMA UnsureAnswers ==
    /\ \A c, type : FALSE \in FitsOf(c, type) => type \in Unsure
    /\ \A op \in DOMAIN Success : Success[op] \in Unsure <=> op \in UnsureOps
    /\ Success["GET_LESSON_CONTENT_REQUEST"] = "GET_LESSON_CONTENT_RESPONSE"
    /\ Success["GAME_START_REQUEST"] = "GAME_START_RESPONSE"
    /\ Success["GET_FEEDBACK_REQUEST"] = "GET_FEEDBACK_RESPONSE"
<1>1. ASSUME NEW c, NEW type, FALSE \in FitsOf(c, type) PROVE type \in Unsure
  <2>1. CASE type \notin Unsure
    BY <1>1, <2>1 DEF FitsOf, Unsure
  <2> QED BY <2>1
<1>2. \A op \in DOMAIN Success : Success[op] \in Unsure <=> op \in UnsureOps
  BY DEF Unsure, UnsureOps, Success
<1>3. /\ Success["GET_LESSON_CONTENT_REQUEST"] = "GET_LESSON_CONTENT_RESPONSE"
      /\ Success["GAME_START_REQUEST"] = "GAME_START_RESPONSE"
      /\ Success["GET_FEEDBACK_REQUEST"] = "GET_FEEDBACK_RESPONSE"
  BY DEF Success
<1> QED BY <1>1, <1>2, <1>3

(* What a request may do to the accounts and to the handlers, and what it is  *)
(* answered.                                                                  *)
Steady(m) ==
    /\ UNCHANGED <<users_, clients_>>
    /\ response'.type \in H!ResponseTypes \ {"LOGIN_SUCCESS", "LOGOUT_SUCCESS", "REGISTER_SUCCESS",
                             "SET_LEVEL_SUCCESS", "SUBMIT_QUIZ_RESPONSE", "SUBMIT_EXERCISE_RESPONSE"}
    /\ response'.type \in Unsure =>
          /\ m.type \in UnsureOps /\ response'.type = Success[m.type]
          /\ UNCHANGED <<gameItems_, feedbacks_>>
    /\ m.type # "LOGOUT_REQUEST"

Turned(c, m) ==
    /\ UNCHANGED <<users_, clients_>> /\ response'.type = "ERROR_MESSAGE"
    /\ m.type = "LOGOUT_REQUEST" /\ ~clients_[c].authenticated

Registered(m) ==
    /\ m.type = "REGISTER_REQUEST" /\ response'.type = "REGISTER_SUCCESS"
    /\ ~H!userExists(m.parts[1]) /\ H!createUser(m.parts[1], m.parts[2], m.parts[3])
    /\ UNCHANGED clients_

LoggedIn(c, m) ==
    /\ m.type = "LOGIN_REQUEST" /\ response'.type = "LOGIN_SUCCESS"
    /\ m.parts # << >> /\ H!userExists(m.parts[1])
    /\ clients_' = [clients_ EXCEPT ![c] =
           [authenticated |-> TRUE, username |-> m.parts[1],
            role |-> users_[m.parts[1]].role, level |-> users_[m.parts[1]].level]]
    /\ UNCHANGED users_

LoggedOut(c, m) ==
    /\ m.type = "LOGOUT_REQUEST" /\ response'.type = "LOGOUT_SUCCESS"
    /\ clients_' = [clients_ EXCEPT ![c].authenticated = FALSE, ![c].username = ""]
    /\ UNCHANGED users_

LevelSet(c, m) ==
    /\ m.type = "SET_LEVEL_REQUEST" /\ clients_[c].authenticated
    /\ H!updateUserLevel(H!User(c), m.parts[1])
    /\ \/ /\ H!userExists(H!User(c)) /\ response'.type = "SET_LEVEL_SUCCESS"
          /\ clients_' = [clients_ EXCEPT ![c].level = m.parts[1]]
       \/ ~H!userExists(H!User(c)) /\ response'.type = "SET_LEVEL_FAILED" /\ UNCHANGED clients_

Scored(c, m, points) ==
    /\ clients_[c].authenticated /\ H!updateUserScore(H!User(c), points)
    /\ UNCHANGED clients_

Outcome(c, m) ==
    \/ Steady(m) \/ Turned(c, m) \/ Registered(m) \/ LoggedIn(c, m) \/ LoggedOut(c, m) \/ LevelSet(c, m)
    \/ Scored(c, m, 10) /\ m.type = "SUBMIT_QUIZ_REQUEST" /\ response'.type = "SUBMIT_QUIZ_RESPONSE"
    \/ Scored(c, m, 5) /\ m.type = "SUBMIT_EXERCISE_REQUEST"
       /\ response'.type = "SUBMIT_EXERCISE_RESPONSE"

LEMMA Outcomes ==
    ASSUME NEW c, NEW m, H!processMessage(c, m)
    PROVE  Outcome(c, m)
<1> USE DEF H!Refuse, H!Answer, H!Send, H!Report, Unsure, UnsureOps, H!dbVars, H!Allowed,
        H!Open, H!Malformed, H!ResponseTypes
<1>1. CASE H!RefuseGuest(c, m)
  BY <1>1 DEF H!RefuseGuest, Outcome, Steady, Turned
<1>2. CASE H!Allowed(c, m, "REGISTER_REQUEST") /\ H!handleRegisterRequest(c, m)
  BY <1>2 DEF H!handleRegisterRequest, H!createUserReturns, Outcome, Steady, Registered
<1>3. CASE H!Allowed(c, m, "LOGIN_REQUEST") /\ H!handleLoginRequest(c, m)
  BY <1>3 DEF H!handleLoginRequest, H!getUserDataReturns, H!authenticateUser, Outcome, Steady,
     LoggedIn
<1>4. CASE H!Allowed(c, m, "LOGOUT_REQUEST") /\ H!handleLogoutRequest(c)
  BY <1>4 DEF H!handleLogoutRequest, Outcome, LoggedOut
<1>5. CASE H!Allowed(c, m, "SET_LEVEL_REQUEST") /\ H!handleSetLevelRequest(c, m)
  BY <1>5 DEF H!handleSetLevelRequest, Outcome, Steady, LevelSet
<1>6. CASE \/ H!Allowed(c, m, "SUBMIT_QUIZ_REQUEST") /\ H!handleSubmitQuizRequest(c, m)
           \/ H!Allowed(c, m, "SUBMIT_EXERCISE_REQUEST") /\ H!handleSubmitExerciseRequest(c, m)
  BY <1>6 DEF H!handleSubmitQuizRequest, H!handleSubmitExerciseRequest, H!Submit, Outcome,
     Steady, Scored
<1>7. CASE \/ H!Allowed(c, m, "SEND_FEEDBACK_REQUEST") /\ H!handleSendFeedbackRequest(c, m)
           \/ H!Allowed(c, m, "ADD_GAME_ITEM_REQUEST") /\ H!handleAddGameItemRequest(c, m)
  BY <1>7 DEF H!handleSendFeedbackRequest, H!handleAddGameItemRequest, Outcome, Steady
<1>8. CASE \/ H!Allowed(c, m, "GET_LESSON_LIST_REQUEST") /\ H!handleGetLessonListRequest(c)
           \/ H!Allowed(c, m, "GET_LESSON_CONTENT_REQUEST") /\ H!handleGetLessonContentRequest(c)
           \/ H!Allowed(c, m, "GAME_START_REQUEST") /\ H!handleGameStartRequest(c)
           \/ H!Allowed(c, m, "GAME_MOVE_REQUEST") /\ H!handleGameMoveRequest(c)
           \/ H!Allowed(c, m, "GET_SCORE_REQUEST") /\ H!handleGetScoreRequest(c)
           \/ H!Allowed(c, m, "GET_FEEDBACK_REQUEST") /\ H!handleGetFeedbackRequest(c)
           \/ H!Allowed(c, m, "CHAT_MESSAGE") /\ H!handleChatMessage(c, m)
           \/ H!Allowed(c, m, "VOICE_CALL_REQUEST") /\ H!handleVoiceCallRequest(c)
           \/ H!Allowed(c, m, "HEARTBEAT_REQUEST") /\ H!handleHeartbeatRequest(c)
           \/ H!Allowed(c, m, "OTHER_TYPE") /\ H!Refuse(c, "ERROR_MESSAGE", "INVALID_FORMAT")
  BY <1>8, UnsureAnswers DEF H!handleGetLessonListRequest, H!handleGetLessonContentRequest,
     H!handleGameStartRequest, H!handleGameMoveRequest, H!handleGetScoreRequest,
     H!handleGetFeedbackRequest, H!handleChatMessage, H!handleVoiceCallRequest,
     H!handleHeartbeatRequest, Outcome, Steady
<1> QED BY <1>1, <1>2, <1>3, <1>4, <1>5, <1>6, <1>7, <1>8 DEF H!processMessage

LEMMA RepliesTyped ==
    ASSUME HandlerInv, NEW c, NEW m, Outcome(c, m)
    PROVE  ReplyOf(response'.type, m) \in Reply
<1>1. response'.type \in H!ResponseTypes
  BY DEF Outcome, Steady, Turned, Registered, LoggedIn, LoggedOut, LevelSet, Scored, H!ResponseTypes
<1>2. NoReply \in Reply
  BY DEF NoReply, Reply, H!ResponseTypes, H!Roles, H!Levels
<1>3. CASE response'.type = "LOGIN_SUCCESS"
  <2>1. H!userExists(m.parts[1])
    BY <1>3 DEF Outcome, Steady, Turned, Registered, LoggedIn, LoggedOut, LevelSet, Scored
  <2>2. users_[m.parts[1]] \in H!UserData
    BY <2>1 DEF HandlerInv, H!TypeOK, H!DbTypeOK, H!IsMap, H!userExists
  <2> QED BY <1>1, <1>3, <2>2 DEF ReplyOf, Reply, H!UserData
<1>4. CASE response'.type # "LOGIN_SUCCESS"
  BY <1>1, <1>2, <1>4 DEF ReplyOf, Reply
<1> QED BY <1>3, <1>4

(* A message that the server finds in a request is one it knows. *)
LEMMA InsideRequests == \A type : Inside(type) \subseteq Requests
<1>1. [type |-> "OTHER_TYPE", parts |-> << >>] \in Askable
  BY DEF Askable, AskableOf, H!Messages
<1> QED BY <1>1, HandlerAssumption DEF Inside

(* The server carries out m on connection c, and what it answers, as r, is the *)
(* only thing that may come to the client's wire.                             *)
LEMMA AnsweringKeepsWire ==
    ASSUME LinkInv, NEW c \in Conns, NEW m \in Requests, NEW r \in Ids \ {0}, NEW z \in {r, 0},
           NEW n \in 0..2, serverOpen[c], H!processMessage(c, m), Written(c, z, n),
           answer' = Coming(H!Put(answer, r, ReplyOf(response'.type, m))),
           serverOpen' = serverOpen, H!IsMap(request, Calls, Request)',
           \A d \in Conns : \A k \in DOMAIN up'[d] : up'[d][k] \in DOMAIN request'
    PROVE  WireOK' /\ HandlerInv'
<1> DEFINE reply == ReplyOf(response'.type, m)
<1>1. c \in DOMAIN clients_ /\ HandlerInv
  BY DEF LinkInv, WireOK
<1>2. HandlerInv'
  BY <1>1, HandlersKeepInv
<1>3. reply \in Reply /\ DOMAIN clients_' = DOMAIN clients_
  <2>1. Outcome(c, m)
    BY Outcomes
  <2>2. DOMAIN clients_' = DOMAIN clients_
    BY <2>1 DEF Outcome, Steady, Turned, Registered, LoggedIn, LoggedOut, LevelSet, Scored
  <2> QED BY <1>1, <2>1, <2>2, RepliesTyped
<1> HIDE DEF reply
<1>4. PICK a : a = H!Put(answer, r, reply)
  OBVIOUS
<1>5. H!IsMap(a, Ids \ {0}, Reply) /\ DOMAIN a = DOMAIN answer \cup {r}
  <2>1. H!IsMap(answer, Ids \ {0}, Reply)
    BY DEF LinkInv, WireOK
  <2> QED BY <1>3, <1>4, <2>1 DEF H!IsMap, H!Put
<1>6. \A k \in DOMAIN down' : down'[k].id \in DOMAIN a \cup {0}
  <2> SUFFICES ASSUME NEW k \in DOMAIN down' PROVE down'[k].id \in DOMAIN a \cup {0}
    OBVIOUS
  <2>1. (k \in DOMAIN down /\ down'[k] = down[k]) \/ down'[k].id = z
    <3>1. z \in Ids
      BY IdsAreNumbers, ClientAssumption
    <3> QED BY <3>1, OnItsWay DEF LinkInv
  <2> QED BY <1>5, <2>1 DEF LinkInv, WireOK
<1>7. /\ H!IsMap(answer, Ids \ {0}, Reply)'
      /\ \A k \in DOMAIN down' : down'[k].id \in DOMAIN answer' \cup {0}
  BY <1>4, <1>5, <1>6, ComingAnswers DEF reply
<1>8. WireOK'
  BY <1>3, <1>7 DEF LinkInv, WireOK
<1> QED BY <1>2, <1>8

LEMMA ServeKeepsWire ==
    ASSUME LinkInv, NEW c \in Conns, LinkServe(c)
    PROVE  WireOK' /\ HandlerInv'
<1> DEFINE i == Head(up[c])
           m == request[i].message
<1>1. PICK fits \in BOOLEAN, n \in 0..2 : Serve(c, fits, n)
  BY FitsOrNot DEF LinkServe
<1>2. /\ serverOpen[c] /\ up[c] # << >> /\ H!processMessage(c, m)
      /\ up' = [up EXCEPT ![c] = Tail(@)] /\ request' = H!Erase(request, i)
      /\ answer' = Coming(H!Put(answer, i, ReplyOf(response'.type, m)))
      /\ Written(c, IF fits THEN i ELSE 0, n) /\ UNCHANGED serverOpen
  BY <1>1 DEF LinkServe, Serve
<1>3. /\ i \in DOMAIN request /\ H!IsMap(request, Calls, Request)'
      /\ \A d \in Conns : \A k \in DOMAIN up'[d] : up'[d][k] \in DOMAIN request'
  BY <1>2, TakenRequest
<1>4. m \in Requests /\ i \in Ids \ {0}
  <2>1. request[i] \in Request /\ i \in Calls
    BY <1>3, MapFacts DEF LinkInv, WireOK
  <2> QED BY <2>1, IdsAreNumbers, ClientAssumption DEF Request, Calls
<1>5. PICK z \in {i, 0} : z = IF fits THEN i ELSE 0
  OBVIOUS
<1> HIDE DEF i, m
<1> QED BY <1>2, <1>3, <1>4, <1>5, AnsweringKeepsWire

LEMMA MisreadKeepsWire ==
    ASSUME LinkInv, NEW c \in Conns, LinkMisread(c)
    PROVE  WireOK' /\ HandlerInv'
<1> DEFINE i == Head(up[c])
<1>1. PICK m \in Requests, fits \in BOOLEAN, n \in 0..2 :
         /\ H!processMessage(c, m) /\ Misread(c, fits, n)
         /\ answer' = Coming(H!Put(answer, -strays', ReplyOf(response'.type, m)))
  BY FitsOrNot, InsideRequests DEF LinkMisread
<1>2. /\ serverOpen[c] /\ up[c] # << >> /\ request' = [request EXCEPT ![i].fits = FALSE]
      /\ strays < MaxStrays /\ strays' = strays + 1 /\ strays \in 0..MaxStrays
      /\ Written(c, IF fits THEN -(strays + 1) ELSE 0, n) /\ UNCHANGED <<up, serverOpen>>
  BY <1>1 DEF LinkMisread, Misread, LinkInv, OrderInv, ClientTypeOK, QueuesOK
<1>3. PICK r : r = -(strays + 1)
  OBVIOUS
<1>4. r \in Ids \ {0} /\ r = -strays'
  BY <1>2, <1>3, ClientAssumption DEF Ids
<1>5. PICK z \in {r, 0} : z = IF fits THEN r ELSE 0
  OBVIOUS
<1>6. H!IsMap(request, Calls, Request)' /\ DOMAIN request' = DOMAIN request
  <2>1. H!IsMap(request, Calls, Request)
    BY DEF LinkInv, WireOK
  <2>2. \A j \in DOMAIN request : request'[j] \in Request
    <3> SUFFICES ASSUME NEW j \in DOMAIN request PROVE request'[j] \in Request
      OBVIOUS
    <3>1. request[j] \in Request
      BY <2>1, MapFacts
    <3>2. request'[j] \in {request[j], [request[j] EXCEPT !.fits = FALSE]}
      BY <1>2
    <3> QED BY <3>1, <3>2 DEF Request
  <2> QED BY <1>2, <2>1, <2>2 DEF H!IsMap
<1>7. \A d \in Conns : \A k \in DOMAIN up'[d] : up'[d][k] \in DOMAIN request'
  BY <1>2, <1>6 DEF LinkInv, WireOK
<1> QED BY <1>1, <1>2, <1>3, <1>4, <1>5, <1>6, <1>7, AnsweringKeepsWire

-----------------------------------------------------------------------------
LEMMA LinkStarts == LinkInit => LinkInv
<1> SUFFICES ASSUME LinkInit PROVE LinkInv
  OBVIOUS
<1>1. OrderInv /\ HandlerInv
  BY InitOrder, HandlersStart DEF LinkInit
<1>2. RequestsApart /\ WireOK
  BY DEF LinkInit, ClientInit, H!Init, RequestsApart, WireOK, H!IsMap
<1> QED BY <1>1, <1>2 DEF LinkInv

LEMMA LinkKeepsInv == LinkInv /\ [LinkNext]_linkVars => LinkInv'
<1> SUFFICES ASSUME LinkInv, [LinkNext]_linkVars PROVE LinkInv'
  OBVIOUS
<1>1. OrderInv' /\ RequestsApart'
  BY LinkIsClient, ClientKeepsOrder, CallsStayApart DEF LinkInv
<1>2. ASSUME LinkNext PROVE WireOK' /\ HandlerInv'
  <2>1. CASE LinkConnect \/ LinkDisconnect \/ CallRefused \/ CallFails \/ LinkTimeOut
    BY <2>1, QuietStepsKeepWire
  <2>2. CASE LinkPoll
    BY <2>2, PollKeepsWire
  <2>3. ASSUME NEW type, NEW parts, NEW fits \in BOOLEAN, Call(type, parts, fits),
               [type |-> type, parts |-> IF fits THEN parts ELSE << >>] \in Requests
        PROVE  WireOK' /\ HandlerInv'
    BY <2>3, CallKeepsWire
  <2>4. CASE Remote
    BY <2>4, ServeKeepsWire, MisreadKeepsWire, LossKeepsWire, CloseKeepsWire, ResetKeepsWire
       DEF Remote
  <2> QED BY <1>2, <2>1, <2>2, <2>3, <2>4 DEF LinkNext
<1>3. CASE UNCHANGED linkVars
  <2>1. WireOK'
    BY <1>3 DEF linkVars, wire, clientVars, local, remote, store, LinkInv, WireOK
  <2> QED BY <1>1, <1>3, <2>1, HandlersKeepInv DEF LinkInv, linkVars
<1> QED BY <1>1, <1>2, <1>3 DEF LinkInv

-----------------------------------------------------------------------------
(* Everything the front ends ask for is among the requests.                  *)
LEMMA AskedRequests ==
    /\ \A a \in Accounts, role \in {"STUDENT", "TEACHER", "ADMIN"} :
          [type |-> "REGISTER_REQUEST", parts |-> RegisterRead(a, role)] \in Requests
    /\ \A a \in Accounts : [type |-> "LOGIN_REQUEST", parts |-> LoginRead(a)] \in Requests
    /\ \A l \in H!Levels : [type |-> "SET_LEVEL_REQUEST", parts |-> <<l>>] \in Requests
    /\ \A u \in Usernames : [type |-> "SEND_FEEDBACK_REQUEST", parts |-> <<u>>] \in Requests
    /\ \A g \in GameTypes : [type |-> "ADD_GAME_ITEM_REQUEST", parts |-> <<g>>] \in Requests
    /\ [type |-> "SUBMIT_QUIZ_REQUEST", parts |-> <<"id", "answers">>] \in Requests
    /\ [type |-> "SUBMIT_EXERCISE_REQUEST", parts |-> <<"id", "content">>] \in Requests
    /\ [type |-> "CHAT_MESSAGE", parts |-> <<"recipient", "text">>] \in Requests
    /\ \A op \in DOMAIN Success : [type |-> op, parts |-> << >>] \in Requests
<1>1. Askable \subseteq Requests
  BY HandlerAssumption
<1>2. ASSUME NEW a \in Accounts, NEW role \in {"STUDENT", "TEACHER", "ADMIN"}
      PROVE  [type |-> "REGISTER_REQUEST", parts |-> RegisterRead(a, role)] \in Askable
  <2>1. RegisterRead(a, role) \in (Usernames \X Passwords \X H!Roles) \cup {<< >>}
    BY AccountsAssumption DEF H!Roles
  <2>2. [type |-> "REGISTER_REQUEST", parts |-> RegisterRead(a, role)] \in H!Messages
    BY <2>1 DEF H!Messages, H!Message
  <2> QED BY <2>2 DEF Askable, AskableOf
<1>3. ASSUME NEW a \in Accounts
      PROVE  [type |-> "LOGIN_REQUEST", parts |-> LoginRead(a)] \in Askable
  <2>1. LoginRead(a) \in (Usernames \X Passwords) \cup {<< >>}
    BY AccountsAssumption
  <2>2. [type |-> "LOGIN_REQUEST", parts |-> LoginRead(a)] \in H!Messages
    BY <2>1 DEF H!Messages, H!Message
  <2> QED BY <2>2 DEF Askable, AskableOf
<1>4. \A l \in H!Levels : [type |-> "SET_LEVEL_REQUEST", parts |-> <<l>>] \in Askable
  BY DEF Askable, AskableOf, H!Messages, H!Message
<1>5. \A u \in Usernames : [type |-> "SEND_FEEDBACK_REQUEST", parts |-> <<u>>] \in Askable
  BY DEF Askable, AskableOf, H!Messages, H!Message
<1>6. \A g \in GameTypes : [type |-> "ADD_GAME_ITEM_REQUEST", parts |-> <<g>>] \in Askable
  BY DEF Askable, AskableOf, H!Messages, H!Message
<1>7. /\ [type |-> "SUBMIT_QUIZ_REQUEST", parts |-> <<"id", "answers">>] \in Askable
      /\ [type |-> "SUBMIT_EXERCISE_REQUEST", parts |-> <<"id", "content">>] \in Askable
      /\ [type |-> "CHAT_MESSAGE", parts |-> <<"recipient", "text">>] \in Askable
  BY DEF Askable, AskableOf, H!Messages, H!Message
<1>8. \A op \in DOMAIN Success : [type |-> op, parts |-> << >>] \in Askable
  BY DEF Askable, AskableOf, H!Messages, H!Message, Success
<1> QED BY <1>1, <1>2, <1>3, <1>4, <1>5, <1>6, <1>7, <1>8

(* What a call returns is a reply. *)
LEMMA ReturnsReplies ==
    ASSUME LinkInv
    PROVE  NoReply \in Reply /\ \A i : Returns(i) \in Reply
<1>1. NoReply \in Reply
  BY DEF NoReply, Reply, H!ResponseTypes, H!Roles, H!Levels
<1>2. \A i \in DOMAIN answer : answer[i] \in Reply
  BY DEF LinkInv, WireOK, H!IsMap
<1> QED BY <1>1, <1>2 DEF Returns

-----------------------------------------------------------------------------
(* What is known of client and server together while all is orderly.         *)
GuestOps == {"REGISTER_REQUEST", "LOGIN_REQUEST"}   \* of the guests' menu, or buttons

(* No connection is open at the server that the client has not made.         *)
NewestOpen == \A c \in Conns : serverOpen[c] => c <= conn

(* A handler acts for the user that a front end shows, or for nobody. *)
HandlerAgrees(auth, user, handler) ==
    /\ handler.authenticated = auth
    /\ auth => handler.username = NameRead(user.username) /\ handler.role = user.role

(* The requests that a front end or the network forgets, or the server reads.  *)
LEMMA OthersKept ==
    /\ \A f, k : \A i \in DOMAIN H!Erase(f, k) : i \in DOMAIN f \ {k} /\ H!Erase(f, k)[i] = f[i]
    /\ \A f, D : \A i \in DOMAIN [j \in D |-> f[j]] : i \in D /\ [j \in D |-> f[j]][i] = f[i]
BY DEF H!Erase

(* Which request the server carries out, and that its answer is on its way.   *)
LEMMA ServedCall ==
    ASSUME LinkInv, PromptInv, PromptInv', NewestOpen, NEW c \in Conns, LinkServe(c)
    PROVE  LET m == request[Current].message
           IN  /\ waiting /\ connected_ /\ c = conn /\ up[c] = <<Current>> /\ serverOpen[c]
               /\ Current \in DOMAIN request
               /\ m \in Requests /\ c \in DOMAIN clients_ /\ H!processMessage(c, m)
               /\ executed[Current] = 0 /\ executed'[Current] = 1
               /\ \A d \in Conns : serverOpen[d] => d = c
               /\ request[Current].fits /\ request' = H!Erase(request, Current)
               /\ Current \in DOMAIN answer' =>
                     answer'[Current] = ReplyOf(response'.type, m)
               /\ Arriving(Current)' \/ FALSE \in FitsOf(c, response'.type)
               /\ UNCHANGED <<local, broken, serverOpen>>
<1>1. PICK fits \in FitsOf(c, response'.type), n \in 0..2 : Serve(c, fits, n)
  BY DEF LinkServe
<1> DEFINE m == request[Head(up[c])].message
<1>2. /\ serverOpen[c] /\ up[c] # << >> /\ request[Head(up[c])].fits
      /\ H!processMessage(c, m) /\ request' = H!Erase(request, Head(up[c]))
      /\ answer' = Coming(H!Put(answer, Head(up[c]), ReplyOf(response'.type, m)))
  BY DEF LinkServe
<1>3. waiting /\ c = conn /\ up[c] = <<Current>> /\ executed[Current] = 0
  BY <1>2 DEF PromptInv, OneRequest, Asked
<1>4. connected_ /\ Current \in Calls /\ executed \in [Calls -> Nat] /\ Current # 0
  BY <1>3, PromptTypes
<1>5. Head(up[c]) = Current /\ 1 \in DOMAIN up[c] /\ up[c][1] = Current
  BY <1>3
<1>6. Current \in DOMAIN request /\ c \in DOMAIN clients_
  BY <1>2, <1>5 DEF LinkInv, WireOK
<1>7. request[Current].message \in Requests
  <2>1. request[Current] \in Request
    BY <1>6, MapFacts DEF LinkInv, WireOK
  <2> QED BY <2>1 DEF Request
<1>8. executed'[Current] = 1 /\ UNCHANGED <<local, broken, serverOpen>>
  <2>1. executed' = [executed EXCEPT ![Current] = @ + 1] /\ UNCHANGED <<local, broken, serverOpen>>
    BY <1>1, <1>5 DEF Serve
  <2> QED BY <1>3, <1>4, <2>1
<1>9. \A d \in Conns : serverOpen[d] => d = c
  <2>1. OlderClosed(c)
    BY <1>1 DEF Serve, PromptInv
  <2>2. \A d \in Conns : serverOpen[d] => d <= c /\ ~(d < c)
    BY <1>3, <2>1 DEF OlderClosed, NewestOpen
  <2> QED BY <2>2 DEF Conns
<1>10. ASSUME fits PROVE Arriving(Current)'
  <2>1. n = 2 /\ Written(c, Current, n) /\ up' = [up EXCEPT ![c] = Tail(@)]
    BY <1>1, <1>5, <1>10 DEF Serve, PromptInv
  <2>2. UNCHANGED <<receiveBuffer_, conn, results>> /\ down' = down \o SubSeq(Response(Current), 1, 2)
    BY <1>3, <1>4, <1>8, <2>1 DEF local, Written
  <2>3. Quiet
    BY <1>3 DEF PromptInv, OneResponse, Arriving
  <2>4. up'[conn'] = << >> /\ Current' = Current
    BY <1>3, <2>1, <2>2, PromptTypes DEF Current
  <2>5. /\ SubSeq(Response(Current), 1, 2) = Response(Current)
        /\ << >> \o Response(Current) = Response(Current)
    BY Chunks DEF Response
  <2>6. down' = Response(Current)
    BY <2>2, <2>3, <2>5 DEF Quiet
  <2> QED BY <2>2, <2>3, <2>4, <2>6 DEF Arriving, Quiet, Response
<1>11. fits \/ FALSE \in FitsOf(c, response'.type)
  <2>1. fits \in {TRUE, FALSE} /\ fits \in FitsOf(c, response'.type)
    BY <1>1, FitsOrNot
  <2> QED BY <2>1
<1>12. Current \in DOMAIN answer' =>
          answer'[Current] = ReplyOf(response'.type, request[Current].message)
  BY <1>2, <1>5 DEF Coming, H!Put
<1> QED BY <1>2, <1>3, <1>4, <1>5, <1>6, <1>7, <1>8, <1>9, <1>10, <1>11, <1>12

(* The answer that arrives is known. *)
LEMMA ArrivingAnswer ==
    ASSUME LinkInv, PromptInv, waiting, Arriving(Current)
    PROVE  Current \in DOMAIN answer
<1>1. \A k : down = Response(k) => Len(down) = 2 /\ down[1].id = k
  BY DEF Response
<1>2. \A k : down = <<[id |-> k, part |-> 2]>> => Len(down) = 1 /\ down[1].id = k
  OBVIOUS
<1>3. down = Response(Current) \/ down = <<[id |-> Current, part |-> 2]>>
  BY DEF Arriving
<1>4. (Len(down) = 2 \/ Len(down) = 1) /\ down[1].id = Current
  BY <1>1, <1>2, <1>3
<1>5. 1 \in DOMAIN down
  BY <1>4, PromptTypes
<1>6. Current # 0
  BY PromptTypes
<1> QED BY <1>4, <1>5, <1>6 DEF LinkInv, WireOK

(* The handler that is about to read a login has nobody logged in.           *)
LoginByGuest ==
    /\ waiting /\ connected_ /\ serverOpen[conn] /\ executed[Current] = 0
    /\ Current \in DOMAIN request /\ request[Current].message.type = "LOGIN_REQUEST"
    => ~clients_[conn].authenticated

(* Then the steps of the link are those of handlers which see one login only. *)
LEMMA LinkStepsSolo ==
    ASSUME LinkInv, PromptInv, PromptInv', NewestOpen, LoginByGuest, [LinkNext]_linkVars
    PROVE  [H!SoloNext]_store
<1>1. \A c \in Conns : ~LinkMisread(c)
  BY FitsOrNot DEF LinkMisread, Misread, PromptInv
<1>2. ASSUME NEW c \in Conns, LinkServe(c) PROVE H!SoloNext
  <2> DEFINE m == request[Current].message
  <2>1. /\ c = conn /\ serverOpen[c] /\ connected_ /\ waiting /\ executed[Current] = 0
        /\ Current \in DOMAIN request /\ m \in Requests
        /\ c \in DOMAIN clients_ /\ H!processMessage(c, m)
        /\ \A d \in Conns : serverOpen[d] => d = c
    BY <1>2, ServedCall
  <2>2. m.type = "LOGIN_REQUEST" => ~clients_[c].authenticated
    BY <2>1 DEF LoginByGuest
  <2>3. DOMAIN clients_ = {c}
    BY <2>1 DEF LinkInv, WireOK
  <2>4. H!OneLogin(c, m)
    BY <2>2, <2>3 DEF H!OneLogin, H!LoggedIn
  <2> QED BY <2>1, <2>4 DEF H!SoloNext
<1>3. ASSUME NEW c \in Conns, LinkClose(c) PROVE H!SoloNext
  <2>1. c \in DOMAIN clients_ /\ H!Disconnect(c)
    BY <1>3 DEF LinkClose, ServerClose, LinkInv, WireOK
  <2> QED BY <2>1 DEF H!SoloNext, H!Connections
<1>4. ASSUME LinkConnect PROVE H!SoloNext
  <2>1. conn' \in Conns /\ H!Connect(conn')
    BY <1>4, PromptTypes, ClientAssumption DEF LinkConnect, Connect, Conns
  <2> QED BY <2>1 DEF H!SoloNext, H!Connections
<1>5. LinkNext => \/ \E c \in Conns : LinkServe(c) \/ LinkClose(c)
                  \/ LinkConnect \/ UNCHANGED store
  BY <1>1 DEF LinkNext, Remote, LinkDrop, LinkLose, LinkReset, LinkDisconnect, CallRefused,
     CallFails, LinkTimeOut, LinkPoll, Call
<1> QED BY <1>2, <1>3, <1>4, <1>5 DEF linkVars

(* Once a request has been lost nothing makes good for it. *)
LEMMA LosslessBefore ==
    ASSUME OrderInv, [ClientNext]_clientVars, lossless'
    PROVE  lossless = TRUE
<1>1. lossless \in BOOLEAN
  BY DEF OrderInv, ClientTypeOK, FlagsOK
<1>2. (\E c \in Conns : Lose(c)) \/ SendFails => lossless
  BY DEF Lose, SendFails
<1>3. UNCHANGED lossless => lossless
  OBVIOUS
<1>4. ClientNext => (\E c \in Conns : Lose(c)) \/ SendFails \/ UNCHANGED lossless
  BY DEF ClientNext, Connect, Disconnect, Refused, Send, TimeOut, Reset, Poll, Drop, ServerClose,
     Serve, Misread, mishaps
<1> QED BY <1>1, <1>2, <1>3, <1>4 DEF clientVars, mishaps
=============================================================================
