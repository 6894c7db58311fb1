---------------------------- MODULE Window_proofs ----------------------------
(***************************************************************************)
(* Proofs about the Qt front end.                                          *)
(***************************************************************************)
EXTENDS Window, Link_proofs

LEMMA AskSteps ==
    ASSUME NEW op, NEW arg, NEW parts, NEW fits, Ask(op, arg, parts, fits)
    PROVE  ClientNext
BY LinkSteps DEF Ask, ClientNext

LEMMA WindowSteps == [Next]_vars => [ClientNext]_clientVars
<1> SUFFICES ASSUME Next PROVE ClientNext \/ UNCHANGED clientVars
  BY DEF vars, linkVars
<1>1. CASE Clicked
  BY <1>1, AskSteps, LinkSteps
     DEF Clicked, onConnectClicked, onDisconnectClicked, onLoginClicked, onRegisterClicked,
         onLogoutClicked, onSetLevelClicked, onRefreshLessonsClicked, onLessonSelected,
         onViewLessonClicked, onSubmitQuizClicked, onSubmitExerciseClicked,
         onSendChatClicked, onStartGameClicked, onSendMoveClicked, onVoiceCallClicked,
         onRefreshScoreClicked, onRefreshFeedbackClicked, close, linkVars, ClientNext
<1>2. CASE onHeartbeatTimer
  BY <1>2, AskSteps DEF onHeartbeatTimer
<1>3. CASE Receive \/ GiveUp \/ (Remote /\ UNCHANGED windowVars)
  BY <1>3, LinkSteps DEF Receive, GiveUp, ClientNext
<1> QED BY <1>1, <1>2, <1>3 DEF Next

(* At every moment responses are in the order of their calls on all the wires  *)
(* and in what the calls returned.                                            *)
THEOREM WindowOrder == Spec => []OrderInv
<1>1. Init => OrderInv
  BY InitOrder DEF Init, LinkInit
<1> QED BY <1>1, WindowSteps, ClientKeepsOrder, PTL DEF Spec

(* However late responses come, and whatever else the server answers, each is *)
(* returned to one call at most, in the order of the calls, and never to a    *)
(* call made before its own.                                                  *)
THEOREM WindowAnswersInOrder == Spec => []AnswersInOrder
<1>1. OrderInv => AnswersInOrder
  BY DEF OrderInv
<1> QED BY <1>1, WindowOrder, PTL

(* No call returns a response from an older connection, though the bytes      *)
(* received before a reconnect stay in receiveBuffer_.                        *)
THEOREM WindowFromThisConnection == Spec => []FromThisConnection
<1>1. OrderInv => FromThisConnection
  BY DEF OrderInv
<1> QED BY <1>1, WindowOrder, PTL

(* As long as all is orderly the calls of the window, too, are remote         *)
(* procedure calls: carried out once at most, answered by their own answer or *)
(* by none.                                                                   *)
THEOREM WindowCallsRemotely == Spec => ImplementsRpc
<1>1. Init => ClientInit
  BY DEF Init, LinkInit
<1> QED BY <1>1, WindowSteps, StepsOfRpc, PTL DEF Spec

-----------------------------------------------------------------------------
(* The window asks for nothing but requests that the handlers know.          *)
LEMMA WindowIsFrontEnd == [Next]_vars => [LinkNext]_linkVars
<1> SUFFICES ASSUME Next PROVE LinkNext \/ UNCHANGED linkVars
  BY DEF vars
<1>1. ASSUME NEW op \in DOMAIN Success, NEW arg, NEW parts, NEW fits \in BOOLEAN,
             Ask(op, arg, parts, fits), [type |-> op, parts |-> parts] \in Requests
      PROVE  LinkNext
  <2>1. [type |-> op, parts |-> IF fits THEN parts ELSE << >>] \in Requests
    BY <1>1, AskedRequests
  <2> QED BY <1>1, <2>1 DEF Ask, LinkNext
<1>2. ASSUME NEW op \in DOMAIN Success, NEW arg, NEW fits \in BOOLEAN, Ask(op, arg, << >>, fits)
      PROVE  LinkNext
  BY <1>1, <1>2, AskedRequests
<1>3. CASE onConnectClicked \/ onDisconnectClicked \/ onLessonSelected \/ close
  BY <1>3 DEF onConnectClicked, onDisconnectClicked, onLessonSelected, close, LinkNext
<1>0. /\ {"REGISTER_REQUEST", "LOGIN_REQUEST", "SET_LEVEL_REQUEST", "SUBMIT_QUIZ_REQUEST",
          "SUBMIT_EXERCISE_REQUEST", "CHAT_MESSAGE"} \subseteq DOMAIN Success
      /\ {"LOGOUT_REQUEST", "GET_LESSON_LIST_REQUEST", "GET_LESSON_CONTENT_REQUEST",
          "GAME_START_REQUEST", "GAME_MOVE_REQUEST", "VOICE_CALL_REQUEST", "GET_SCORE_REQUEST",
          "GET_FEEDBACK_REQUEST", "HEARTBEAT_REQUEST"} \subseteq DOMAIN Success
  BY DEF Success
<1>4. CASE onRegisterClicked
  BY <1>0, <1>1, <1>2, <1>4, AskedRequests DEF onRegisterClicked
<1>5. CASE onLoginClicked
  BY <1>0, <1>1, <1>2, <1>5, AskedRequests DEF onLoginClicked
<1>6. CASE onSetLevelClicked
  BY <1>0, <1>1, <1>6, AskedRequests DEF onSetLevelClicked
<1>7. CASE onSubmitQuizClicked \/ onSubmitExerciseClicked \/ onSendChatClicked
  BY <1>0, <1>1, <1>2, <1>7, AskedRequests
     DEF onSubmitQuizClicked, onSubmitExerciseClicked, onSendChatClicked
<1>8. CASE \/ onLogoutClicked \/ onRefreshLessonsClicked \/ onViewLessonClicked
           \/ onStartGameClicked \/ onSendMoveClicked \/ onVoiceCallClicked
           \/ onRefreshScoreClicked \/ onRefreshFeedbackClicked \/ onHeartbeatTimer
  BY <1>0, <1>2, <1>8 DEF onLogoutClicked, onRefreshLessonsClicked, onViewLessonClicked,
     onStartGameClicked, onSendMoveClicked, onVoiceCallClicked, onRefreshScoreClicked,
     onRefreshFeedbackClicked, onHeartbeatTimer
<1>9. CASE Receive \/ GiveUp \/ (Remote /\ UNCHANGED windowVars)
  BY <1>9 DEF Receive, GiveUp, LinkNext
<1> QED BY <1>3, <1>4, <1>5, <1>6, <1>7, <1>8, <1>9 DEF Next, Clicked

(* The fields of the window; a slot keeps the name or the level it is about.  *)
CurrentUser == [username : Typed \cup {""}, role : H!Roles, level : H!Levels]
Slots       == [op : DOMAIN Success \cup {""}, arg : Typed \cup H!Levels \cup {""}]

SlotOK(s) ==
    /\ s \in Slots
    /\ s.op = "LOGIN_REQUEST" => s.arg \in Typed \cup {""}
    /\ s.op = "SET_LEVEL_REQUEST" => s.arg \in H!Levels

FieldsOK ==
    /\ {open, authenticated_, authStatus, sendMoveEnabled, heartbeatTimer} \subseteq BOOLEAN
    /\ currentUser_ \in CurrentUser
    /\ lessons \in {"empty", "filled", "selected"}
    /\ SlotOK(slot)
    /\ alive => (waiting <=> slot # None)

LEMMA WindowTypes == LinkInv /\ FieldsOK => TypeOK
BY LinkInvTypes DEF FieldsOK, SlotOK, TypeOK, CurrentUser, Slots

LEMMA NoneOK == SlotOK(None)
BY DEF SlotOK, None, Slots

LEMMA FinishedKeepsFields ==
    ASSUME LinkInv, FieldsOK, NEW s, SlotOK(s), NEW reply \in Reply, Finished(s, reply),
           waiting' = FALSE
    PROVE  FieldsOK'
<1>1. /\ {open, authenticated_, authStatus, sendMoveEnabled, heartbeatTimer} \subseteq BOOLEAN
      /\ currentUser_ \in CurrentUser
  BY DEF FieldsOK
<1>2. {open', authenticated_', authStatus', sendMoveEnabled', heartbeatTimer'} \subseteq BOOLEAN
  BY <1>1 DEF Finished, Done
<1>3. lessons' \in {"empty", "filled", "selected"} /\ slot' = None
  BY DEF Finished, Done, FieldsOK
<1>4. currentUser_' \in CurrentUser
  <2>1. CASE Done(s, "LOGIN_REQUEST", reply)
    <3>1. s.arg \in Typed \cup {""}
      BY <2>1 DEF SlotOK, Done
    <3>2. currentUser_' = [username |-> s.arg, role |-> reply.role, level |-> reply.level]
      BY <2>1 DEF Finished
    <3> QED BY <3>1, <3>2 DEF CurrentUser, Reply
  <2>2. CASE ~Done(s, "LOGIN_REQUEST", reply) /\ Done(s, "SET_LEVEL_REQUEST", reply)
    <3>1. s.arg \in H!Levels
      BY <2>2 DEF SlotOK, Done
    <3>2. currentUser_' = [currentUser_ EXCEPT !.level = s.arg]
      BY <2>2 DEF Finished
    <3> QED BY <1>1, <3>1, <3>2 DEF CurrentUser
  <2>3. CASE ~Done(s, "LOGIN_REQUEST", reply) /\ ~Done(s, "SET_LEVEL_REQUEST", reply)
    BY <1>1, <2>3 DEF Finished
  <2> QED BY <2>1, <2>2, <2>3
<1>5. SlotOK(slot)'
  BY <1>3, NoneOK
<1> QED BY <1>2, <1>3, <1>4, <1>5 DEF FieldsOK

LEMMA AskKeepsFields ==
    ASSUME LinkInv, FieldsOK, NEW op, NEW arg, NEW parts, NEW fits,
           Ask(op, arg, parts, fits), SlotOK([op |-> op, arg |-> arg]), op # ""
    PROVE  FieldsOK'
<1> DEFINE s == [op |-> op, arg |-> arg]
<1>1. CASE Call(op, parts, fits) /\ slot' = s /\ UNCHANGED <<status, widgets>>
  <2>1. alive' => waiting'
    BY <1>1 DEF Call, Send, LinkInv, OrderInv, ClientTypeOK, FlagsOK
  <2>2. SlotOK(slot)' /\ slot' # None
    BY <1>1 DEF None
  <2> QED BY <1>1, <2>1, <2>2 DEF FieldsOK, status, widgets
<1>2. CASE (CallRefused \/ CallFails) /\ Finished(s, NoReply)
  <2>1. waiting' = FALSE
    BY <1>2 DEF CallRefused, Refused, CallFails, SendFails, Finish
  <2> QED BY <1>2, <2>1, ReturnsReplies, FinishedKeepsFields
<1> QED BY <1>1, <1>2 DEF Ask

LEMMA ClickKeepsFields == LinkInv /\ FieldsOK /\ (Clicked \/ onHeartbeatTimer) => FieldsOK'
<1> SUFFICES ASSUME LinkInv, FieldsOK, Clicked \/ onHeartbeatTimer PROVE FieldsOK'
  OBVIOUS
<1>1. ASSUME NEW op \in DOMAIN Success \ {"LOGIN_REQUEST", "SET_LEVEL_REQUEST"},
             NEW parts, NEW fits, Ask(op, "", parts, fits)
      PROVE  FieldsOK'
  <2>1. SlotOK([op |-> op, arg |-> ""]) /\ op # ""
    BY DEF SlotOK, Slots, Success
  <2> QED BY <1>1, <2>1, AskKeepsFields
<1>2. CASE onConnectClicked \/ onDisconnectClicked \/ onLessonSelected \/ close
  <2>1. UNCHANGED <<alive, waiting, authenticated_, currentUser_, sendMoveEnabled, slot>>
    BY <1>2 DEF onConnectClicked, onDisconnectClicked, onLessonSelected, close, LinkConnect, Connect,
       LinkDisconnect, Disconnect, linkVars, clientVars, local, status, widgets
  <2>2. /\ open' \in {open, FALSE} /\ authStatus' \in {authStatus, FALSE}
        /\ heartbeatTimer' \in {heartbeatTimer, TRUE, FALSE} /\ lessons' \in {lessons, "selected"}
    BY <1>2 DEF onConnectClicked, onDisconnectClicked, onLessonSelected, close, status, widgets
  <2>3. SlotOK(slot)'
    BY <2>1 DEF FieldsOK
  <2> QED BY <2>1, <2>2, <2>3 DEF FieldsOK
<1>3. CASE onLoginClicked
  <2>1. PICK arg \in Typed \cup {""} : \E parts, fits : Ask("LOGIN_REQUEST", arg, parts, fits)
    BY <1>3 DEF onLoginClicked, Typed
  <2>2. SlotOK([op |-> "LOGIN_REQUEST", arg |-> arg])
    BY DEF SlotOK, Slots, Success
  <2> QED BY <2>1, <2>2, AskKeepsFields
<1>4. CASE onSetLevelClicked
  <2>1. PICK l \in H!Levels : Ask("SET_LEVEL_REQUEST", l, <<l>>, TRUE)
    BY <1>4 DEF onSetLevelClicked
  <2>2. SlotOK([op |-> "SET_LEVEL_REQUEST", arg |-> l])
    BY DEF SlotOK, Slots, Success
  <2> QED BY <2>1, <2>2, AskKeepsFields
<1>5. CASE onRegisterClicked \/ onSubmitQuizClicked \/ onSubmitExerciseClicked \/ onSendChatClicked
  BY <1>1, <1>5 DEF onRegisterClicked, onSubmitQuizClicked, onSubmitExerciseClicked,
     onSendChatClicked, Success
<1>6. CASE \/ onLogoutClicked \/ onRefreshLessonsClicked \/ onViewLessonClicked
           \/ onStartGameClicked \/ onSendMoveClicked
  BY <1>1, <1>6 DEF onLogoutClicked, onRefreshLessonsClicked, onViewLessonClicked,
     onStartGameClicked, onSendMoveClicked, Success
<1>7. CASE onVoiceCallClicked \/ onRefreshScoreClicked \/ onRefreshFeedbackClicked \/ onHeartbeatTimer
  BY <1>1, <1>7 DEF onVoiceCallClicked, onRefreshScoreClicked, onRefreshFeedbackClicked,
     onHeartbeatTimer, Success
<1> QED BY <1>2, <1>3, <1>4, <1>5, <1>6, <1>7 DEF Clicked

LEMMA ReceiveKeepsFields == LinkInv /\ FieldsOK /\ (Receive \/ GiveUp) => FieldsOK'
<1> SUFFICES ASSUME LinkInv, FieldsOK, Receive \/ GiveUp PROVE FieldsOK'
  OBVIOUS
<1>1. CASE Receive /\ waiting'
  <2>1. alive' = alive /\ waiting /\ UNCHANGED windowVars
    BY <1>1 DEF Receive, LinkPoll, Poll
  <2> QED BY <1>1, <2>1 DEF FieldsOK, SlotOK, windowVars, status, widgets
<1>2. CASE Receive /\ ~waiting'
  <2>1. waiting' \in BOOLEAN
    BY <1>2 DEF Receive, LinkPoll, Poll, Finish, LinkInv, OrderInv, ClientTypeOK, FlagsOK
  <2>2. waiting' = FALSE /\ Finished(slot, Returns(Last(results').answer))
    BY <1>2, <2>1 DEF Receive
  <2>3. SlotOK(slot)
    BY DEF FieldsOK
  <2> QED BY <2>2, <2>3, ReturnsReplies, FinishedKeepsFields
<1>3. CASE GiveUp
  <2>1. waiting' = FALSE /\ Finished(slot, NoReply)
    BY <1>3 DEF GiveUp, LinkTimeOut, TimeOut, Finish
  <2>2. SlotOK(slot)
    BY DEF FieldsOK
  <2> QED BY <2>1, <2>2, ReturnsReplies, FinishedKeepsFields
<1> QED BY <1>1, <1>2, <1>3

LEMMA NextKeepsFields == LinkInv /\ FieldsOK /\ [Next]_vars => FieldsOK'
<1> SUFFICES ASSUME LinkInv, FieldsOK, [Next]_vars PROVE FieldsOK'
  OBVIOUS
<1>1. CASE Remote /\ UNCHANGED windowVars
  <2>1. UNCHANGED <<alive, waiting>>
    BY <1>1 DEF Remote, LinkServe, Serve, LinkMisread, Misread, LinkDrop, Drop, LinkLose, Lose,
       LinkClose, ServerClose, LinkReset, Reset, local
  <2> QED BY <1>1, <2>1 DEF FieldsOK, SlotOK, windowVars, status, widgets
<1>2. CASE UNCHANGED vars
  BY <1>2 DEF vars, linkVars, clientVars, local, windowVars, status, widgets, FieldsOK, SlotOK
<1> QED BY <1>1, <1>2, ClickKeepsFields, ReceiveKeepsFields DEF Next

LEMMA InitTyped == Init => LinkInv /\ FieldsOK
<1> SUFFICES ASSUME Init PROVE LinkInv /\ FieldsOK
  OBVIOUS
<1>1. waiting = FALSE /\ slot = None /\ SlotOK(slot)
  BY NoneOK DEF Init, LinkInit, ClientInit
<1>2. currentUser_ \in CurrentUser
  BY DEF Init, CurrentUser, H!Roles, H!Levels
<1>3. {open, authenticated_, authStatus, sendMoveEnabled, heartbeatTimer} \subseteq BOOLEAN
      /\ lessons \in {"empty", "filled", "selected"}
  BY DEF Init
<1>4. LinkInv
  BY LinkStarts DEF Init
<1> QED BY <1>1, <1>2, <1>3, <1>4 DEF FieldsOK

(* At every moment the window, the client library, the wires and the server   *)
(* hold values of their types; a call is under way just when a slot waits for  *)
(* one.                                                                       *)
THEOREM WindowTypeCorrect == Spec => []TypeOK
<1>1. LinkInv /\ FieldsOK /\ [Next]_vars => LinkInv' /\ FieldsOK'
  BY WindowIsFrontEnd, LinkKeepsInv, NextKeepsFields
<1> QED BY <1>1, InitTyped, WindowTypes, PTL DEF Spec

-----------------------------------------------------------------------------
(* What the window and the server know of each other as long as all is         *)
(* orderly.  The label follows the server; authenticated_ only has to be set   *)
(* when the label says so.                                                    *)
StatusRight ==
    /\ authStatus => authenticated_ /\ (connected_ \/ ~open)
    /\ slot.op \in GuestOps => ~authStatus

(* Message m is what the slot s sends. *)
Says(m, s) ==
    /\ m.type = s.op
    /\ s.op = "LOGIN_REQUEST" /\ m.parts # << >> => m.parts[1] = NameRead(s.arg)

RequestMatches ==
    waiting /\ Current \in DOMAIN request => Says(request[Current].message, slot)

(* What label and user will be when the call of slot s has returned reply.    *)
AuthAfter(s, reply) ==
    \/ Done(s, "LOGIN_REQUEST", reply)
    \/ authStatus /\ ~Done(s, "LOGOUT_REQUEST", reply)

UserAfter(s, reply) ==
    IF Done(s, "LOGIN_REQUEST", reply)
    THEN [username |-> s.arg, role |-> reply.role, level |-> reply.level]
    ELSE IF Done(s, "SET_LEVEL_REQUEST", reply)
    THEN [currentUser_ EXCEPT !.level = s.arg]
    ELSE currentUser_

Agree(auth, user) ==
    connected_ /\ serverOpen[conn] => HandlerAgrees(auth, user, clients_[conn])

(* They agree until the server carries out the request of the call under way; *)
(* then they will agree once the window has its answer, which is coming if it *)
(* fits the framing.                                                          *)
ViewAgrees ==
    (waiting => executed[Current] = 0 \/ slot.op \in UnsureOps) => Agree(authStatus, currentUser_)
AnswerAgrees ==
    waiting /\ executed[Current] = 1 /\ Current \in DOMAIN answer =>
        Agree(AuthAfter(slot, answer[Current]), UserAfter(slot, answer[Current]))
AnswerComes == waiting /\ executed[Current] = 1 => Arriving(Current) \/ slot.op \in UnsureOps

SessionInv ==
    /\ StatusRight /\ NewestOpen /\ RequestMatches
    /\ ViewAgrees /\ AnswerAgrees /\ AnswerComes

WindowInv == LinkInv /\ PromptInv /\ FieldsOK /\ SessionInv

(* Steps that leave the window alone.                                        *)
LEMMA SameAfter ==
    UNCHANGED <<slot, authStatus, currentUser_>> =>
        \A reply : AuthAfter(slot, reply)' = AuthAfter(slot, reply)
                   /\ UserAfter(slot, reply)' = UserAfter(slot, reply)
BY DEF AuthAfter, UserAfter, Done

LEMMA RemoteKeepsSession ==
    ASSUME WindowInv, UNCHANGED <<windowVars, waiting, results, conn, connected_, executed>>,
           \A c \in Conns : serverOpen'[c] => serverOpen[c],
           conn \in Conns /\ serverOpen'[conn] => clients_'[conn] = clients_[conn],
           \A i \in DOMAIN request' : i \in DOMAIN request /\ request'[i] = request[i],
           \A i \in DOMAIN answer' : i \in DOMAIN answer /\ answer'[i] = answer[i],
           AnswerComes'
    PROVE  SessionInv'
<1>1. /\ UNCHANGED <<open, authenticated_, authStatus, currentUser_, slot>> /\ Current' = Current
      /\ connected_ => conn \in Conns
  BY PromptTypes DEF windowVars, status, Current, WindowInv
<1>2. StatusRight' /\ NewestOpen'
  BY <1>1 DEF WindowInv, SessionInv, StatusRight, NewestOpen
<1>3. RequestMatches'
  BY <1>1 DEF WindowInv, SessionInv, RequestMatches
<1>4. ViewAgrees'
  BY <1>1 DEF WindowInv, SessionInv, ViewAgrees, Agree
<1>5. AnswerAgrees'
  <2> SUFFICES ASSUME NEW reply, reply = answer'[Current], waiting, executed[Current] = 1,
                      Current \in DOMAIN answer'
               PROVE  Agree(AuthAfter(slot, reply), UserAfter(slot, reply))'
    BY <1>1 DEF AnswerAgrees
  <2>1. Agree(AuthAfter(slot, reply), UserAfter(slot, reply))
    BY DEF WindowInv, SessionInv, AnswerAgrees
  <2>2. /\ AuthAfter(slot, reply)' = AuthAfter(slot, reply)
        /\ UserAfter(slot, reply)' = UserAfter(slot, reply)
    BY <1>1, SameAfter
  <2> QED BY <1>1, <2>1, <2>2 DEF Agree
<1> QED BY <1>2, <1>3, <1>4, <1>5 DEF SessionInv

(* A request that gets lost was not carried out. *)
LEMMA LossKeepsSession ==
    ASSUME WindowInv, NEW c \in Conns, LinkDrop(c) \/ LinkLose(c), UNCHANGED windowVars
    PROVE  SessionInv'
<1>1. /\ up[c] # << >> /\ up' = [up EXCEPT ![c] = Tail(@)] /\ request' = H!Erase(request, Head(up[c]))
      /\ UNCHANGED <<waiting, results, conn, connected_, receiveBuffer_, down, serverOpen, executed>>
      /\ UNCHANGED <<clients_, answer>>
  BY DEF LinkDrop, Drop, LinkLose, Lose, local, store
<1>2. AnswerComes'
  <2>1. Current' = Current /\ slot' = slot
    BY <1>1 DEF Current, windowVars
  <2>2. CASE c = conn
    <3>1. ~Arriving(Current)
      BY <1>1, <2>2 DEF Arriving
    <3> QED BY <1>1, <2>1, <3>1 DEF WindowInv, SessionInv, AnswerComes
  <2>3. CASE c # conn
    <3>1. waiting => up'[conn] = up[conn]
      BY <1>1, <2>3, PromptTypes DEF WindowInv
    <3> QED BY <1>1, <2>1, <3>1 DEF WindowInv, SessionInv, AnswerComes, Arriving, Response
  <2> QED BY <2>2, <2>3
<1>3. \A i \in DOMAIN request' : i \in DOMAIN request /\ request'[i] = request[i]
  BY <1>1, OthersKept
<1> QED BY <1>1, <1>2, <1>3, RemoteKeepsSession

LEMMA CloseKeepsSession ==
    ASSUME WindowInv, NEW c \in Conns, LinkClose(c), UNCHANGED windowVars
    PROVE  SessionInv'
<1>1. /\ serverOpen[c] /\ serverOpen' = [serverOpen EXCEPT ![c] = FALSE]
      /\ clients_' = H!Erase(clients_, c)
      /\ UNCHANGED <<waiting, results, conn, connected_, receiveBuffer_, down, up, executed>>
      /\ UNCHANGED <<request, answer>>
  BY DEF LinkClose, ServerClose, local, H!Disconnect, wire
<1>2. /\ \A d \in Conns : serverOpen'[d] => serverOpen[d] /\ d # c
      /\ DOMAIN clients_ = {d \in Conns : serverOpen[d]}
  BY <1>1, PromptTypes DEF WindowInv, LinkInv, WireOK
<1>3. conn \in Conns /\ serverOpen'[conn] => clients_'[conn] = clients_[conn]
  BY <1>1, <1>2 DEF H!Erase
<1>4. AnswerComes'
  <2>1. Current' = Current /\ slot' = slot
    BY <1>1 DEF Current, windowVars
  <2> QED BY <1>1, <2>1 DEF WindowInv, SessionInv, AnswerComes, Arriving, Response
<1> QED BY <1>1, <1>2, <1>3, <1>4, RemoteKeepsSession

LEMMA ResetKeepsSession ==
    ASSUME WindowInv, LinkReset, UNCHANGED windowVars
    PROVE  SessionInv'
<1>1. /\ connected_ /\ ~serverOpen[conn] /\ up[conn] # << >>
      /\ request' = [i \in DOMAIN request \ ToSet(up[conn]) |-> request[i]]
      /\ answer' = Coming(answer)
      /\ UNCHANGED <<waiting, results, conn, connected_, receiveBuffer_, serverOpen, executed>>
      /\ UNCHANGED clients_
  BY DEF LinkReset, Reset, local, store
<1>2. AnswerComes'
  <2>1. Current' = Current /\ slot' = slot
    BY <1>1 DEF Current, windowVars
  <2>2. ~Arriving(Current)
    BY <1>1 DEF Arriving
  <2> QED BY <1>1, <2>1, <2>2 DEF WindowInv, SessionInv, AnswerComes
<1>3. /\ \A i \in DOMAIN request' : i \in DOMAIN request /\ request'[i] = request[i]
      /\ \A i \in DOMAIN answer' : i \in DOMAIN answer /\ answer'[i] = answer[i]
  BY <1>1, OthersKept DEF Coming
<1> QED BY <1>1, <1>2, <1>3, RemoteKeepsSession

LEMMA IdleKeepsSession ==
    ASSUME WindowInv, UNCHANGED <<linkVars, status, slot>>
    PROVE  SessionInv'
<1>1. /\ UNCHANGED <<open, authenticated_, authStatus, currentUser_, slot, waiting, results, conn>>
      /\ UNCHANGED <<connected_, executed, serverOpen, clients_, request, answer>>
      /\ UNCHANGED <<receiveBuffer_, down, up>>
  BY DEF linkVars, clientVars, local, remote, store, wire, status
<1>2. Current' = Current
  BY <1>1 DEF Current
<1>3. StatusRight' /\ NewestOpen' /\ RequestMatches' /\ ViewAgrees'
  BY <1>1, <1>2 DEF WindowInv, SessionInv, StatusRight, NewestOpen, RequestMatches, ViewAgrees, Agree
<1>4. AnswerComes'
  BY <1>1, <1>2 DEF WindowInv, SessionInv, AnswerComes, Arriving, Response
<1>5. AnswerAgrees'
  BY <1>1, <1>2 DEF WindowInv, SessionInv, AnswerAgrees, Agree, AuthAfter, UserAfter, Done
<1> QED BY <1>3, <1>4, <1>5 DEF SessionInv

(* A round of the receive loop that does not end the call.                   *)
LEMMA WaitingKeepsSession ==
    ASSUME WindowInv, LinkPoll, waiting', UNCHANGED windowVars
    PROVE  SessionInv'
<1>1. PICK n \in 1..Len(down), garbled \in BOOLEAN : Poll(n, garbled)
  BY DEF LinkPoll
<1>2. /\ UNCHANGED <<waiting, results, connected_, conn, up, serverOpen, executed>> /\ waiting
      /\ \/ Arriving(0)
         \/ Arriving(Current)' /\ executed[Current] = 1
  BY <1>1, PollOutcomes DEF Finish, WindowInv
<1>3. UNCHANGED <<clients_, request>>
      /\ \A i \in DOMAIN answer' : i \in DOMAIN answer /\ answer'[i] = answer[i]
  BY OthersKept DEF LinkPoll, store, Coming
<1>4. AnswerComes'
  <2>1. Current' = Current /\ slot' = slot /\ Current # 0
    BY <1>2, PromptTypes DEF Current, windowVars, WindowInv
  <2>2. CASE Arriving(0)
    <3>1. ~Arriving(Current)
      BY <2>1, <2>2, OneArrives
    <3> QED BY <1>2, <2>1, <3>1 DEF WindowInv, SessionInv, AnswerComes
  <2>3. CASE Arriving(Current)' /\ executed[Current] = 1
    BY <1>2, <2>1, <2>3 DEF AnswerComes
  <2> QED BY <1>2, <2>2, <2>3
<1> QED BY <1>2, <1>3, <1>4, RemoteKeepsSession

-----------------------------------------------------------------------------
LEMMA Successes ==
    /\ Success["LOGIN_REQUEST"] = "LOGIN_SUCCESS"
    /\ Success["LOGOUT_REQUEST"] = "LOGOUT_SUCCESS"
    /\ Success["SET_LEVEL_REQUEST"] = "SET_LEVEL_SUCCESS"
BY DEF Success

(* What most calls return changes neither label nor user, and a new level      *)
(* changes none of what label and server have to agree on.                    *)
LEMMA NoEffect ==
    ASSUME NEW s, NEW reply, authStatus \in BOOLEAN, currentUser_ \in CurrentUser,
           ~Done(s, "LOGIN_REQUEST", reply), ~Done(s, "LOGOUT_REQUEST", reply)
    PROVE  /\ AuthAfter(s, reply) = authStatus
           /\ UserAfter(s, reply).username = currentUser_.username
           /\ UserAfter(s, reply).role = currentUser_.role
<1>1. AuthAfter(s, reply) = authStatus
  BY DEF AuthAfter
<1>2. UserAfter(s, reply) \in {currentUser_, [currentUser_ EXCEPT !.level = s.arg]}
  BY DEF UserAfter
<1> QED BY <1>1, <1>2 DEF CurrentUser

(* The request is carried out and its answer on its way: window and server     *)
(* will agree once it is there.                                               *)
LEMMA AgreeOnceAnswered ==
    ASSUME WindowInv, NEW m \in Requests, NEW reply, reply = ReplyOf(response'.type, m),
           connected_, serverOpen[conn], conn \in DOMAIN clients_, Outcome(conn, m),
           Agree(authStatus, currentUser_), NEW s, Says(m, s)
    PROVE  HandlerAgrees(AuthAfter(s, reply), UserAfter(s, reply), clients_'[conn])
<1> DEFINE c == conn
<1>1. /\ clients_[c].authenticated = authStatus /\ authStatus \in BOOLEAN
      /\ currentUser_ \in CurrentUser
      /\ authStatus => /\ clients_[c].username = NameRead(currentUser_.username)
                       /\ clients_[c].role = currentUser_.role
  BY DEF Agree, HandlerAgrees, WindowInv, FieldsOK
<1>2. reply.type = response'.type /\ m.type = s.op
  BY DEF ReplyOf, NoReply, Says
<1>3. /\ H!IsMap(clients_, Conns, H!Handler) /\ clients_[c] \in H!Handler
  BY DEF WindowInv, LinkInv, HandlerInv, H!TypeOK, H!IsMap
<1>4. ASSUME response'.type \notin {"LOGIN_SUCCESS", "LOGOUT_SUCCESS"},
             /\ clients_'[c].authenticated = clients_[c].authenticated
             /\ clients_'[c].username = clients_[c].username
             /\ clients_'[c].role = clients_[c].role
      PROVE  HandlerAgrees(AuthAfter(s, reply), UserAfter(s, reply), clients_'[c])
  <2>1. ~Done(s, "LOGIN_REQUEST", reply) /\ ~Done(s, "LOGOUT_REQUEST", reply)
    BY <1>2, <1>4, Successes DEF Done
  <2>2. /\ AuthAfter(s, reply) = authStatus
        /\ UserAfter(s, reply).username = currentUser_.username
        /\ UserAfter(s, reply).role = currentUser_.role
    BY <1>1, <2>1, NoEffect
  <2> DEFINE user == UserAfter(s, reply)
  <2> HIDE DEF user
  <2>3. HandlerAgrees(authStatus, user, clients_'[c])
    BY <1>1, <1>4, <2>2 DEF HandlerAgrees, user
  <2> QED BY <2>2, <2>3 DEF user
<1>5. CASE Steady(m) \/ Turned(c, m) \/ Registered(m)
  BY <1>4, <1>5 DEF Steady, Turned, Registered
<1>6. CASE \E points : /\ Scored(c, m, points)
                       /\ response'.type \in {"SUBMIT_QUIZ_RESPONSE",
                                             "SUBMIT_EXERCISE_RESPONSE"}
  BY <1>4, <1>6 DEF Scored
<1>7. CASE LevelSet(c, m)
  <2>1. clients_' = clients_ \/ clients_' = [clients_ EXCEPT ![c].level = m.parts[1]]
    BY <1>7 DEF LevelSet
  <2>2. /\ clients_'[c].authenticated = clients_[c].authenticated
        /\ clients_'[c].username = clients_[c].username
        /\ clients_'[c].role = clients_[c].role
    BY <1>3, <2>1 DEF H!Handler, H!IsMap
  <2> QED BY <1>4, <1>7, <2>2 DEF LevelSet
<1>8. CASE LoggedIn(c, m)
  <2>1. AuthAfter(s, reply) = TRUE /\ m.parts[1] = NameRead(s.arg) /\ Done(s, "LOGIN_REQUEST", reply)
    BY <1>2, <1>8, Successes DEF LoggedIn, AuthAfter, Done, Says
  <2>2. UserAfter(s, reply) = [username |-> s.arg, role |-> reply.role, level |-> reply.level]
    BY <2>1 DEF UserAfter
  <2>3. reply.role = users_[m.parts[1]].role
    BY <1>8 DEF LoggedIn, ReplyOf
  <2>4. clients_'[c] = [authenticated |-> TRUE, username |-> m.parts[1],
                        role |-> users_[m.parts[1]].role, level |-> users_[m.parts[1]].level]
    BY <1>3, <1>8 DEF LoggedIn, H!IsMap
  <2> DEFINE user == UserAfter(s, reply)
  <2>5. user.username = s.arg /\ user.role = users_[m.parts[1]].role
    BY <2>2, <2>3
  <2>6. clients_'[c].authenticated = TRUE /\ clients_'[c].username = m.parts[1]
        /\ clients_'[c].role = users_[m.parts[1]].role
    BY <2>4
  <2> HIDE DEF user
  <2>7. HandlerAgrees(TRUE, user, clients_'[c])
    BY <2>1, <2>5, <2>6 DEF HandlerAgrees
  <2> QED BY <2>1, <2>7 DEF user
<1>9. CASE LoggedOut(c, m)
  <2>1. AuthAfter(s, reply) = FALSE
    BY <1>2, <1>9, Successes DEF LoggedOut, AuthAfter, Done
  <2>2. clients_'[c].authenticated = FALSE
    BY <1>3, <1>9 DEF LoggedOut, H!IsMap, H!Handler
  <2> QED BY <2>1, <2>2 DEF HandlerAgrees
<1> QED BY <1>5, <1>6, <1>7, <1>8, <1>9 DEF Outcome

LEMMA ServeKeepsSession ==
    ASSUME WindowInv, PromptInv', NEW c \in Conns, LinkServe(c), UNCHANGED windowVars
    PROVE  SessionInv'
<1> DEFINE m == request[Current].message
           reply == ReplyOf(response'.type, m)
<1>1. /\ waiting /\ connected_ /\ c = conn /\ serverOpen[c]
      /\ Current \in DOMAIN request
      /\ m \in Requests /\ c \in DOMAIN clients_ /\ H!processMessage(c, m)
      /\ executed[Current] = 0 /\ executed'[Current] = 1
      /\ request' = H!Erase(request, Current)
      /\ Current \in DOMAIN answer' => answer'[Current] = reply
      /\ Arriving(Current)' \/ FALSE \in FitsOf(c, response'.type)
      /\ UNCHANGED <<local, broken, serverOpen>>
  <2>1. NewestOpen /\ LinkInv /\ PromptInv
    BY DEF WindowInv, SessionInv
  <2> QED BY <2>1, ServedCall
<1>2. UNCHANGED <<alive, receiveBuffer_, waiting, results, conn, connected_, serverOpen>>
      /\ UNCHANGED <<open, authenticated_, authStatus, currentUser_, slot>> /\ Current' = Current
  BY <1>1 DEF local, windowVars, status, Current
<1>3. Says(m, slot)
  BY <1>1 DEF WindowInv, SessionInv, RequestMatches
<1>4. Outcome(c, m)
  BY <1>1, Outcomes
<1>5. Agree(authStatus, currentUser_)
  BY <1>1 DEF WindowInv, SessionInv, ViewAgrees
<1> HIDE DEF m
<1>6. HandlerAgrees(AuthAfter(slot, reply), UserAfter(slot, reply), clients_'[conn])
  BY <1>1, <1>3, <1>4, <1>5, AgreeOnceAnswered
<1>7. FALSE \in FitsOf(c, response'.type) => slot.op \in UnsureOps
  <2> SUFFICES ASSUME FALSE \in FitsOf(c, response'.type) PROVE slot.op \in UnsureOps
    OBVIOUS
  <2>1. response'.type \in Unsure
    BY UnsureAnswers
  <2>2. Steady(m)
    BY <1>4, <2>1 DEF Outcome, Turned, Registered, LoggedIn, LoggedOut, LevelSet, Scored, Unsure
  <2> QED BY <1>3, <2>1, <2>2 DEF Steady, Says
<1> HIDE DEF reply
<1>8. StatusRight' /\ NewestOpen' /\ RequestMatches'
  <2>1. Current \notin DOMAIN request'
    BY <1>1 DEF H!Erase
  <2> QED BY <1>2, <2>1 DEF WindowInv, SessionInv, StatusRight, NewestOpen, RequestMatches
<1>9. AnswerAgrees'
  <2> SUFFICES ASSUME NEW r, r = answer'[Current], Current \in DOMAIN answer'
               PROVE  Agree(AuthAfter(slot, r), UserAfter(slot, r))'
    BY <1>2 DEF AnswerAgrees
  <2>1. AuthAfter(slot, r)' = AuthAfter(slot, reply) /\ UserAfter(slot, r)' = UserAfter(slot, reply)
    BY <1>1, <1>2, SameAfter
  <2> QED BY <1>2, <1>6, <2>1 DEF Agree
<1>10. AnswerComes'
  <2>1. Arriving(Current)' \/ slot.op \in UnsureOps
    BY <1>1, <1>7
  <2> QED BY <1>2, <2>1 DEF AnswerComes
<1>11. ViewAgrees'
  <2> SUFFICES ASSUME slot.op \in UnsureOps PROVE Agree(authStatus, currentUser_)'
    BY <1>1, <1>2 DEF ViewAgrees
  <2>1. AuthAfter(slot, reply) = authStatus /\ UserAfter(slot, reply) = currentUser_
    BY DEF UnsureOps, Done, WindowInv, FieldsOK, AuthAfter, UserAfter
  <2> QED BY <1>2, <1>6, <2>1 DEF Agree
<1> QED BY <1>8, <1>9, <1>10, <1>11 DEF SessionInv

-----------------------------------------------------------------------------
(* The steps of the window itself. *)
LEMMA ConnectKeepsSession ==
    ASSUME WindowInv, onConnectClicked
    PROVE  SessionInv'
<1>1. /\ open /\ slot = None /\ ~connected_ /\ conn' = conn + 1 /\ connected_' = TRUE
      /\ UNCHANGED <<open, authenticated_, authStatus, currentUser_, slot>> /\ UNCHANGED waiting
      /\ serverOpen' = [serverOpen EXCEPT ![conn'] = TRUE] /\ alive
      /\ clients_' = H!Put(clients_, conn', H!NewHandler) /\ conn < MaxConns
  BY DEF onConnectClicked, Ready, LinkConnect, Connect, H!Connect, status
<1>2. ~authStatus /\ ~waiting /\ authStatus = FALSE
  BY <1>1 DEF WindowInv, SessionInv, StatusRight, FieldsOK
<1>3. StatusRight'
  BY <1>1, <1>2 DEF StatusRight
<1>4. NewestOpen'
  BY <1>1, PromptTypes, ClientAssumption DEF WindowInv, SessionInv, NewestOpen, Conns
<1>5. ViewAgrees'
  <2>1. clients_'[conn'].authenticated = FALSE
    BY <1>1 DEF H!Put, H!NewHandler
  <2> QED BY <1>1, <1>2, <2>1 DEF ViewAgrees, Agree, HandlerAgrees
<1>6. RequestMatches' /\ AnswerAgrees' /\ AnswerComes'
  BY <1>1, <1>2 DEF RequestMatches, AnswerAgrees, AnswerComes
<1> QED BY <1>3, <1>4, <1>5, <1>6 DEF SessionInv

(* A disconnect shows a guest, and so does the end of the window. *)
LEMMA DisconnectKeepsSession ==
    ASSUME WindowInv, onDisconnectClicked \/ close
    PROVE  SessionInv'
<1>1. /\ slot = None /\ slot' = None /\ alive /\ connected_' = FALSE
      /\ UNCHANGED <<waiting, conn, serverOpen>>
      /\ UNCHANGED authenticated_
      /\ authStatus' = FALSE \/ (authStatus' = authStatus /\ open' = FALSE)
  <2>1. connected_ \in BOOLEAN
    BY PromptTypes DEF WindowInv
  <2>2. CASE onDisconnectClicked
    BY <2>2 DEF onDisconnectClicked, Ready, LinkDisconnect, Disconnect
  <2>3. CASE close /\ connected_
    BY <2>3 DEF close, Ready, LinkDisconnect, Disconnect
  <2>4. CASE close /\ ~connected_
    BY <2>1, <2>4 DEF close, Ready, linkVars, clientVars, local, remote
  <2> QED BY <2>2, <2>3, <2>4
<1>2. ~waiting'
  BY <1>1 DEF WindowInv, FieldsOK
<1>3. StatusRight'
  <2>1. slot'.op \notin GuestOps
    BY <1>1 DEF None, GuestOps
  <2>2. CASE authStatus' = FALSE
    BY <2>1, <2>2 DEF StatusRight
  <2>3. CASE authStatus' = authStatus /\ open' = FALSE
    <3>1. authStatus => authenticated_
      BY DEF WindowInv, SessionInv, StatusRight
    <3> QED BY <1>1, <2>1, <2>3, <3>1 DEF StatusRight
  <2> QED BY <1>1, <2>2, <2>3
<1>4. NewestOpen'
  BY <1>1 DEF WindowInv, SessionInv, NewestOpen
<1> QED BY <1>1, <1>2, <1>3, <1>4
        DEF SessionInv, RequestMatches, AnswerAgrees, AnswerComes, ViewAgrees, Agree

(* What a call returns leaves label and server in agreement. *)
LEMMA FinishedKeepsSession ==
    ASSUME WindowInv, NEW s, NEW reply, Finished(s, reply), connected_, waiting' = FALSE,
           UNCHANGED <<connected_, conn, serverOpen, clients_>>,
           Agree(AuthAfter(s, reply), UserAfter(s, reply))
    PROVE  SessionInv'
<1>1. /\ authStatus' = AuthAfter(s, reply) /\ currentUser_' = UserAfter(s, reply)
      /\ slot' = None /\ (authStatus' => authenticated_')
  BY DEF Finished, AuthAfter, UserAfter, WindowInv, SessionInv, StatusRight
<1>2. StatusRight' /\ NewestOpen'
  BY <1>1 DEF WindowInv, SessionInv, StatusRight, NewestOpen, None, GuestOps
<1>3. ViewAgrees'
  BY <1>1 DEF ViewAgrees, Agree
<1> QED BY <1>2, <1>3 DEF SessionInv, RequestMatches, AnswerAgrees, AnswerComes

(* A call that fails changes nothing. *)
LEMMA NoEffectOfFailure ==
    ASSUME NEW s, authStatus \in BOOLEAN
    PROVE  AuthAfter(s, NoReply) = authStatus /\ UserAfter(s, NoReply) = currentUser_
<1>1. \A op \in {"LOGIN_REQUEST", "LOGOUT_REQUEST", "SET_LEVEL_REQUEST"} : ~Done(s, op, NoReply)
  BY Successes DEF Done, NoReply
<1> QED BY <1>1 DEF AuthAfter, UserAfter

(* A slot that may start asks what it should. *)
LEMMA AskKeepsSession ==
    ASSUME WindowInv, NEW op, NEW arg, NEW parts, NEW fits, Ask(op, arg, parts, fits),
           op \in GuestOps => ~authStatus,
           op = "LOGIN_REQUEST" /\ parts # << >> => parts[1] = NameRead(arg)
    PROVE  SessionInv'
<1> DEFINE s == [op |-> op, arg |-> arg]
           m == [type |-> op, parts |-> IF fits THEN parts ELSE << >>]
<1>0. Says(m, s)
  BY DEF Says
<1>1. CASE Call(op, parts, fits) /\ slot' = s /\ UNCHANGED <<status, widgets>>
  <2>1. /\ Send /\ slot' = s /\ UNCHANGED <<open, authenticated_, authStatus, currentUser_, clients_>>
        /\ request' = IF alive' THEN H!Put(request, Current, [message |-> m, fits |-> fits])
                      ELSE request
    BY <1>1 DEF Call, store, status
  <2>2. /\ connected_ /\ ~waiting
        /\ UNCHANGED <<connected_, results, conn, serverOpen, executed>>
        /\ IF broken THEN UNCHANGED waiting ELSE alive'
    BY <2>1 DEF Send
  <2>3. Current' = Current /\ (waiting' => executed[Current] = 0)
    <3>1. waiting' => Current \in Calls
      BY <2>1, PromptTypes, ClientAssumption DEF Send, Calls, WindowInv
    <3>2. Begun = Len(results) /\ Current > Begun
      BY <2>2, PromptTypes DEF WindowInv, Begun
    <3> QED BY <2>2, <3>1, <3>2, PromptTypes DEF Current, WindowInv, PromptInv, CarriedOnce
  <2>4. StatusRight' /\ NewestOpen'
    BY <2>1, <2>2 DEF WindowInv, SessionInv, StatusRight, NewestOpen
  <2>5. RequestMatches'
    <3> SUFFICES ASSUME waiting', Current \in DOMAIN request'
                 PROVE  Says(request'[Current].message, slot')
      BY <2>3 DEF RequestMatches
    <3>1. alive'
      BY <2>1 DEF Send
    <3>2. request'[Current] = [message |-> m, fits |-> fits]
      BY <2>1, <3>1 DEF H!Put
    <3> QED BY <1>0, <2>1, <3>2
  <2>6. ViewAgrees'
    <3>1. Agree(authStatus, currentUser_)
      BY <2>2 DEF WindowInv, SessionInv, ViewAgrees
    <3> QED BY <2>1, <2>2, <3>1 DEF ViewAgrees, Agree
  <2>7. AnswerAgrees' /\ AnswerComes'
    BY <2>2, <2>3 DEF AnswerAgrees, AnswerComes
  <2> QED BY <2>4, <2>5, <2>6, <2>7 DEF SessionInv
<1>2. CASE CallRefused /\ Finished(s, NoReply)
  <2>1. /\ ~connected_ /\ connected_' = connected_ /\ waiting' = FALSE
        /\ UNCHANGED <<conn, serverOpen>>
    BY <1>2 DEF CallRefused, Refused, Finish, remote
  <2>2. \A type \in {"LOGIN_REQUEST", "LOGOUT_REQUEST"} : ~Done(s, type, NoReply)
    BY Successes DEF Done, NoReply
  <2>3. /\ slot' = None /\ open' = open
        /\ (authStatus' => authStatus) /\ (authenticated_ => authenticated_')
    BY <1>2, <2>2 DEF Finished
  <2>4. StatusRight' /\ NewestOpen'
    BY <2>1, <2>3 DEF WindowInv, SessionInv, StatusRight, NewestOpen, None, GuestOps
  <2> QED BY <2>1, <2>4 DEF SessionInv, RequestMatches, AnswerAgrees, AnswerComes, ViewAgrees, Agree
<1>3. CASE CallFails /\ Finished(s, NoReply)
  <2>1. /\ connected_ /\ ~waiting /\ waiting' = FALSE
        /\ UNCHANGED <<connected_, conn, serverOpen, clients_>>
    BY <1>3 DEF CallFails, SendFails, Finish, remote, store
  <2>2. Agree(authStatus, currentUser_) /\ authStatus \in BOOLEAN
    BY <2>1 DEF WindowInv, SessionInv, ViewAgrees, FieldsOK
  <2> HIDE DEF s
  <2>3. Agree(AuthAfter(s, NoReply), UserAfter(s, NoReply))
    BY <2>2, NoEffectOfFailure
  <2> QED BY <1>3, <2>1, <2>3, FinishedKeepsSession
<1> QED BY <1>1, <1>2, <1>3 DEF Ask

LEMMA ClickKeepsSession ==
    ASSUME WindowInv, Clicked \/ onHeartbeatTimer
    PROVE  SessionInv'
<1>1. ASSUME NEW op \in DOMAIN Success \ GuestOps, NEW arg, NEW parts, NEW fits,
             Ask(op, arg, parts, fits)
      PROVE  SessionInv'
  BY <1>1, AskKeepsSession DEF GuestOps
<1>2. CASE onLoginClicked
  <2>1. PICK arg, parts, fits :
           /\ Ask("LOGIN_REQUEST", arg, parts, fits)
           /\ parts # << >> => parts[1] = NameRead(arg)
    <3>1. CASE \E a \in Accounts : Ask("LOGIN_REQUEST", a[1], LoginRead(a), TRUE)
      <4>1. PICK a \in Accounts : Ask("LOGIN_REQUEST", a[1], LoginRead(a), TRUE)
        BY <3>1
      <4>2. LoginRead(a) # << >> => LoginRead(a)[1] = NameRead(a[1])
        BY AccountsAssumption
      <4> QED BY <4>1, <4>2
    <3>2. CASE \E fits \in BOOLEAN : Ask("LOGIN_REQUEST", "", << >>, fits)
      BY <3>2
    <3> QED BY <1>2, <3>1, <3>2 DEF onLoginClicked
  <2>2. ~authStatus
    BY <1>2 DEF onLoginClicked
  <2> QED BY <2>1, <2>2, AskKeepsSession DEF GuestOps
<1>3. CASE onRegisterClicked
  <2>1. PICK parts, fits : Ask("REGISTER_REQUEST", "", parts, fits)
    BY <1>3 DEF onRegisterClicked
  <2>2. ~authStatus
    BY <1>3 DEF onRegisterClicked
  <2> QED BY <2>1, <2>2, AskKeepsSession
<1>4. DOMAIN Success \ GuestOps =
         {"LOGOUT_REQUEST", "SET_LEVEL_REQUEST", "GET_LESSON_LIST_REQUEST",
          "GET_LESSON_CONTENT_REQUEST", "SUBMIT_QUIZ_REQUEST", "SUBMIT_EXERCISE_REQUEST",
          "GAME_START_REQUEST", "GAME_MOVE_REQUEST", "CHAT_MESSAGE", "VOICE_CALL_REQUEST",
          "GET_SCORE_REQUEST", "GET_FEEDBACK_REQUEST", "HEARTBEAT_REQUEST",
          "SEND_FEEDBACK_REQUEST", "ADD_GAME_ITEM_REQUEST"}
  BY DEF Success, GuestOps
<1>5. CASE onLogoutClicked \/ onSetLevelClicked \/ onRefreshLessonsClicked \/ onViewLessonClicked
  BY <1>1, <1>4, <1>5
     DEF onLogoutClicked, onSetLevelClicked, onRefreshLessonsClicked, onViewLessonClicked
<1>6. CASE \/ onSubmitQuizClicked \/ onSubmitExerciseClicked \/ onSendChatClicked
           \/ onStartGameClicked \/ onSendMoveClicked
  BY <1>1, <1>4, <1>6
     DEF onSubmitQuizClicked, onSubmitExerciseClicked, onSendChatClicked, onStartGameClicked,
         onSendMoveClicked
<1>7. CASE \/ onVoiceCallClicked \/ onRefreshScoreClicked \/ onRefreshFeedbackClicked
           \/ onHeartbeatTimer
  BY <1>1, <1>4, <1>7
     DEF onVoiceCallClicked, onRefreshScoreClicked, onRefreshFeedbackClicked, onHeartbeatTimer
<1>8. CASE onLessonSelected
  BY <1>8, IdleKeepsSession DEF onLessonSelected
<1> QED BY <1>2, <1>3, <1>5, <1>6, <1>7, <1>8, ConnectKeepsSession, DisconnectKeepsSession
        DEF Clicked

LEMMA ReceiveKeepsSession ==
    ASSUME WindowInv, Receive
    PROVE  SessionInv'
<1>1. CASE waiting'
  BY <1>1, WaitingKeepsSession DEF Receive
<1>2. CASE ~waiting'
  <2>1. PICK n \in 1..Len(down), garbled \in BOOLEAN : Poll(n, garbled)
    BY DEF Receive, LinkPoll
  <2>2. /\ waiting /\ Finish(Current) /\ Arriving(Current) /\ executed[Current] = 1
        /\ UNCHANGED <<connected_, conn, serverOpen>>
    BY <1>2, <2>1, PollOutcomes DEF WindowInv
  <2>3. waiting' = FALSE /\ Last(results').answer = Current
    <3>1. results \in Seq(Result)
      BY DEF WindowInv, PromptInv, OrderInv, ClientTypeOK, QueuesOK
    <3>2. \A r : Last(Append(results, r)) = r
      BY <3>1 DEF Last
    <3> QED BY <2>2, <3>2 DEF Finish
  <2>4. Current \in DOMAIN answer
    BY <2>2, ArrivingAnswer DEF WindowInv
  <2>5. PICK reply : reply = answer[Current]
    OBVIOUS
  <2>6. Finished(slot, reply)
    BY <1>2, <2>3, <2>4, <2>5 DEF Receive, Returns
  <2>7. Agree(AuthAfter(slot, reply), UserAfter(slot, reply))
    BY <2>2, <2>4, <2>5 DEF WindowInv, SessionInv, AnswerAgrees
  <2>8. UNCHANGED clients_ /\ connected_
    BY <2>2, PromptTypes DEF Receive, LinkPoll, store, WindowInv
  <2>9. PICK s : s = slot
    OBVIOUS
  <2>10. Finished(s, reply) /\ Agree(AuthAfter(s, reply), UserAfter(s, reply))
    BY <2>6, <2>7, <2>9
  <2> QED BY <2>2, <2>3, <2>8, <2>10, FinishedKeepsSession
<1> QED BY <1>1, <1>2

(* When a call fails whose answer is not late, nothing had been carried out    *)
(* that label or server would show.                                           *)
LEMMA GiveUpKeepsSession ==
    ASSUME WindowInv, GiveUp, orderly'
    PROVE  SessionInv'
<1>1. /\ waiting /\ waiting' = FALSE /\ Finished(slot, NoReply) /\ NoAnswerComing
      /\ UNCHANGED <<connected_, conn, serverOpen, clients_>>
  BY DEF GiveUp, LinkTimeOut, TimeOut, Finish, remote, store
<1>2. Agree(authStatus, currentUser_)
  <2>1. ~Arriving(Current)
    BY <1>1 DEF NoAnswerComing, Arriving, Response
  <2>2. executed[Current] = 0 \/ executed[Current] = 1
    BY <1>1, PromptTypes DEF WindowInv, PromptInv, CarriedOnce
  <2> QED BY <1>1, <2>1, <2>2 DEF WindowInv, SessionInv, AnswerComes, ViewAgrees
<1>3. PICK s : s = slot
  OBVIOUS
<1>4. connected_ /\ Finished(s, NoReply)
  BY <1>1, <1>3, PromptTypes DEF WindowInv
<1>5. Agree(AuthAfter(s, NoReply), UserAfter(s, NoReply))
  BY <1>2, NoEffectOfFailure DEF WindowInv, FieldsOK
<1> QED BY <1>1, <1>4, <1>5, FinishedKeepsSession

(* While all is orderly, all this stays true.                                *)
LEMMA WindowKeepsInv ==
    ASSUME WindowInv, orderly', [Next]_vars
    PROVE  WindowInv'
<1>1. PromptInv' /\ LinkInv' /\ FieldsOK'
  BY WindowSteps, OrderlySteps, WindowIsFrontEnd, LinkKeepsInv, NextKeepsFields DEF WindowInv
<1>2. ASSUME Remote /\ UNCHANGED windowVars PROVE SessionInv'
  <2>1. \A c \in Conns : ~LinkMisread(c)
    BY <1>1 DEF LinkMisread, Misread, PromptInv
  <2> QED BY <1>1, <1>2, <2>1, ServeKeepsSession, LossKeepsSession, CloseKeepsSession,
             ResetKeepsSession DEF Remote
<1>3. ASSUME UNCHANGED vars PROVE SessionInv'
  BY <1>3, IdleKeepsSession DEF vars, windowVars
<1>4. SessionInv'
  BY <1>2, <1>3, ClickKeepsSession, ReceiveKeepsSession, GiveUpKeepsSession DEF Next
<1> QED BY <1>1, <1>4 DEF WindowInv

LEMMA WindowStarts == Init => WindowInv
<1> SUFFICES ASSUME Init PROVE WindowInv
  OBVIOUS
<1>1. LinkInv /\ FieldsOK /\ PromptInv
  BY InitTyped, InitPrompt DEF Init, LinkInit
<1>2. ~authStatus /\ slot = None /\ ~waiting /\ ~connected_ /\ \A c \in Conns : ~serverOpen[c]
  BY DEF Init, LinkInit, ClientInit
<1>3. SessionInv
  BY <1>2 DEF SessionInv, StatusRight, NewestOpen, RequestMatches, ViewAgrees, Agree,
     AnswerAgrees, AnswerComes, GuestOps, None
<1> QED BY <1>1, <1>3 DEF WindowInv

-----------------------------------------------------------------------------
(* After a mishap only the types are left.                                   *)
Invariant == LinkInv /\ FieldsOK /\ (orderly => WindowInv)

LEMMA StepsBefore ==
    ASSUME Invariant, [Next]_vars, orderly'
    PROVE  WindowInv /\ WindowInv'
<1>1. OrderInv /\ [ClientNext]_clientVars
  BY WindowSteps DEF Invariant, LinkInv
<1>2. orderly
  BY <1>1, OrderlyBefore
<1> QED BY <1>2, WindowKeepsInv DEF Invariant

LEMMA WindowInvariance == Spec => []Invariant
<1>1. Init => Invariant
  BY WindowStarts DEF Invariant, WindowInv
<1>2. Invariant /\ [Next]_vars => Invariant'
  BY WindowIsFrontEnd, LinkKeepsInv, NextKeepsFields, StepsBefore DEF Invariant
<1> QED BY <1>1, <1>2, PTL DEF Spec

(* As long as all is orderly, the label says who the server would act for,    *)
(* whatever authenticated_ is left at, even if requests are lost, refused or  *)
(* do not fit the framing.                                                    *)
THEOREM WindowLabelMatches == Spec => []LabelMatchesServer
<1>1. Invariant => LabelMatchesServer
  BY DEF Invariant, WindowInv, SessionInv, StatusRight, ViewAgrees, Agree, HandlerAgrees,
     LabelMatchesServer
<1> QED BY <1>1, WindowInvariance, PTL

(* And so long a login reaches the server only where nobody is logged in.    *)
THEOREM WindowLogsInAlone == Spec => LoginsAlone
<1>1. ASSUME Invariant, [Next]_vars PROVE [orderly' => [H!SoloNext]_store]_linkVars
  <2> SUFFICES ASSUME orderly' PROVE [H!SoloNext]_store
    OBVIOUS
  <2>1. WindowInv /\ WindowInv' /\ [LinkNext]_linkVars
    BY <1>1, StepsBefore, WindowIsFrontEnd
  <2>2. LoginByGuest
    <3> SUFFICES ASSUME waiting, connected_, serverOpen[conn], executed[Current] = 0,
                        Current \in DOMAIN request,
                        request[Current].message.type = "LOGIN_REQUEST"
                 PROVE  ~clients_[conn].authenticated
      BY DEF LoginByGuest
    <3>1. Agree(authStatus, currentUser_)
      BY <2>1 DEF WindowInv, SessionInv, ViewAgrees
    <3> QED BY <2>1, <3>1 DEF Agree, HandlerAgrees, Says, WindowInv, SessionInv, RequestMatches,
                StatusRight, GuestOps
  <2> QED BY <2>1, <2>2, LinkStepsSolo DEF WindowInv, SessionInv
<1> QED BY <1>1, WindowInvariance, PTL DEF Spec, LoginsAlone
=============================================================================
