------------------------------- MODULE Window -------------------------------
(***************************************************************************)
(* The Qt front end (UI.cpp): slots run one at a time on the event loop,   *)
(* which a call of Client blocks.  The slots trust authenticated_; the     *)
(* buttons follow the status label, which is not the same thing.           *)
(***************************************************************************)
EXTENDS Link

VARIABLES
    open,            \* the window has not been closed
    authenticated_,
    currentUser_,    \* name, role and level; the score label is not kept
    authStatus,      \* what updateAuthStatus was last told: label and buttons
    lessons,         \* lessonListWidget_: empty, filled, or with a current item
    sendMoveEnabled, \* sendMoveButton_
    heartbeatTimer,  \* the timer is active
    slot             \* the request of the slot under way, with the name or level
                     \* it works on

status      == <<open, authenticated_, currentUser_, authStatus>>
widgets     == <<lessons, sendMoveEnabled, heartbeatTimer>>
windowVars  == <<status, widgets, slot>>
vars        == <<linkVars, windowVars>>

None == [op |-> "", arg |-> ""]

Init ==
    /\ LinkInit
    /\ open = TRUE /\ authenticated_ = FALSE /\ authStatus = FALSE
    /\ currentUser_ = [username |-> "", role |-> "STUDENT", level |-> "BEGINNER"]
    /\ lessons = "empty" /\ sendMoveEnabled = FALSE /\ heartbeatTimer = FALSE
    /\ slot = None
-----------------------------------------------------------------------------
Done(s, op, reply) == s.op = op /\ reply.type = Success[op]

(* Fault for LabelMatchesServer: logout shows a guest whatever was answered. *)
FinishedAnyLogout(s, reply) ==
    LET in == Done(s, "LOGIN_REQUEST", reply)
    IN  /\ authenticated_' = (in \/ (authenticated_ /\ s.op # "LOGOUT_REQUEST"))
        /\ authStatus' = (in \/ (authStatus /\ s.op # "LOGOUT_REQUEST"))
        /\ currentUser_' =
              IF in THEN [username |-> s.arg, role |-> reply.role, level |-> reply.level]
              ELSE currentUser_
        /\ slot' = None
        /\ UNCHANGED <<open, widgets>>

(* What a slot does when its call has returned.                              *)
Finished(s, reply) ==
    LET in  == Done(s, "LOGIN_REQUEST", reply)
        out == Done(s, "LOGOUT_REQUEST", reply)
    IN  /\ authenticated_' = (in \/ (authenticated_ /\ ~out))
        /\ authStatus' = (in \/ (authStatus /\ ~out))
        /\ currentUser_' =
              IF in THEN [username |-> s.arg, role |-> reply.role, level |-> reply.level]
              ELSE IF Done(s, "SET_LEVEL_REQUEST", reply)
              THEN [currentUser_ EXCEPT !.level = s.arg]
              ELSE currentUser_
        /\ lessons' = IF s.op # "GET_LESSON_LIST_REQUEST" THEN lessons
                      ELSE IF Done(s, "GET_LESSON_LIST_REQUEST", reply) THEN "filled" ELSE "empty"
        /\ sendMoveEnabled' = \/ sendMoveEnabled
                              \/ Done(s, "GAME_START_REQUEST", reply)
        /\ slot' = None
        /\ UNCHANGED <<open, heartbeatTimer>>

Ready == alive /\ open /\ slot = None

(* Ask the server, with a payload that fits the framing or not; a call may    *)
(* fail at once.                                                              *)
Ask(op, arg, parts, fits) ==
    LET s == [op |-> op, arg |-> arg]
    IN  \/ /\ Call(op, parts, fits)
           /\ slot' = s
           /\ UNCHANGED <<status, widgets>>
        \/ (CallRefused \/ CallFails) /\ Finished(s, NoReply)

(* The slots that start with the test of authenticated_. *)
IfLoggedIn == Ready /\ authenticated_

(* updateConnectionStatus leaves one of the two buttons enabled. *)
onConnectClicked ==
    /\ Ready
    /\ LinkConnect
    /\ heartbeatTimer' = TRUE
    /\ UNCHANGED <<status, lessons, sendMoveEnabled, slot>>

(* authenticated_ keeps its value. *)
onDisconnectClicked ==
    /\ Ready
    /\ LinkDisconnect
    /\ heartbeatTimer' = FALSE
    /\ authStatus' = FALSE
    /\ UNCHANGED <<open, authenticated_, currentUser_, lessons, sendMoveEnabled, slot>>

(* Fault for LoginsAlone: the button stays enabled after a login. *)
onLoginAgain ==
    /\ Ready /\ connected_
    /\ \E a \in Accounts : Ask("LOGIN_REQUEST", a[1], LoginRead(a), TRUE)

onLoginClicked ==
    /\ Ready /\ connected_ /\ ~authStatus
    /\ \/ \E a \in Accounts : Ask("LOGIN_REQUEST", a[1], LoginRead(a), TRUE)
       \/ \E fits \in BOOLEAN : Ask("LOGIN_REQUEST", "", << >>, fits)

onRegisterClicked ==
    /\ Ready /\ connected_ /\ ~authStatus
    /\ \/ \E a \in Accounts, role \in {"STUDENT", "TEACHER", "ADMIN"} :
             Ask("REGISTER_REQUEST", "", RegisterRead(a, role), TRUE)
       \/ \E fits \in BOOLEAN : Ask("REGISTER_REQUEST", "", << >>, fits)

onLogoutClicked == Ready /\ authStatus /\ Ask("LOGOUT_REQUEST", "", << >>, TRUE)

onSetLevelClicked ==
    IfLoggedIn /\ \E l \in H!Levels : Ask("SET_LEVEL_REQUEST", l, <<l>>, TRUE)

onRefreshLessonsClicked ==
    IfLoggedIn /\ Ask("GET_LESSON_LIST_REQUEST", "", << >>, TRUE)

onLessonSelected ==
    /\ Ready
    /\ lessons = "filled"
    /\ lessons' = "selected"
    /\ UNCHANGED <<linkVars, status, sendMoveEnabled, heartbeatTimer, slot>>

(* The list and its current item outlive logout and disconnect. *)
onViewLessonClicked ==
    /\ Ready
    /\ lessons = "selected"
    /\ Ask("GET_LESSON_CONTENT_REQUEST", "", << >>, TRUE)

(* The text boxes for answers, exercises and chat accept newlines. *)
onSubmitQuizClicked ==
    IfLoggedIn /\ \E parts \in {<<"id", "answers">>, << >>}, fits \in BOOLEAN :
        Ask("SUBMIT_QUIZ_REQUEST", "", parts, fits)

onSubmitExerciseClicked ==
    IfLoggedIn /\ \E parts \in {<<"id", "content">>, << >>}, fits \in BOOLEAN :
        Ask("SUBMIT_EXERCISE_REQUEST", "", parts, fits)

onSendChatClicked ==
    IfLoggedIn /\ \E parts \in {<<"recipient", "text">>, << >>}, fits \in BOOLEAN :
        Ask("CHAT_MESSAGE", "", parts, fits)

onStartGameClicked == IfLoggedIn /\ Ask("GAME_START_REQUEST", "", << >>, TRUE)

onSendMoveClicked ==
    /\ Ready /\ sendMoveEnabled
    /\ \E fits \in BOOLEAN : Ask("GAME_MOVE_REQUEST", "", << >>, fits)

onVoiceCallClicked ==
    IfLoggedIn /\ \E fits \in BOOLEAN : Ask("VOICE_CALL_REQUEST", "", << >>, fits)

onRefreshScoreClicked == IfLoggedIn /\ Ask("GET_SCORE_REQUEST", "", << >>, TRUE)

onRefreshFeedbackClicked ==
    IfLoggedIn /\ Ask("GET_FEEDBACK_REQUEST", "", << >>, TRUE)

onHeartbeatTimer ==
    /\ Ready /\ heartbeatTimer /\ connected_
    /\ Ask("HEARTBEAT_REQUEST", "", << >>, TRUE)

(* ~MainWindow. *)
close ==
    /\ Ready
    /\ IF connected_ THEN LinkDisconnect ELSE UNCHANGED linkVars
    /\ open' = FALSE
    /\ UNCHANGED <<authenticated_, currentUser_, authStatus, widgets, slot>>

Receive == LinkPoll /\ IF waiting' THEN UNCHANGED windowVars
                                   ELSE Finished(slot, Returns(Last(results').answer))

GiveUp == LinkTimeOut /\ Finished(slot, NoReply)
-----------------------------------------------------------------------------
Clicked ==
    \/ onConnectClicked \/ onDisconnectClicked \/ onLoginClicked \/ onRegisterClicked
    \/ onLogoutClicked \/ onSetLevelClicked \/ onRefreshLessonsClicked \/ onLessonSelected
    \/ onViewLessonClicked \/ onSubmitQuizClicked \/ onSubmitExerciseClicked
    \/ onSendChatClicked \/ onStartGameClicked \/ onSendMoveClicked \/ onVoiceCallClicked
    \/ onRefreshScoreClicked \/ onRefreshFeedbackClicked \/ close

Next ==
    \/ Clicked \/ onHeartbeatTimer \/ Receive \/ GiveUp
    \/ Remote /\ UNCHANGED windowVars

Spec == Init /\ [][Next]_vars
-----------------------------------------------------------------------------
TypeOK ==
    /\ LinkTypeOK
    /\ {open, authenticated_, authStatus, sendMoveEnabled, heartbeatTimer} \subseteq BOOLEAN
    /\ currentUser_ \in [username : Typed \cup {""}, role : H!Roles, level : H!Levels]
    /\ lessons \in {"empty", "filled", "selected"}
    /\ slot \in [op : DOMAIN Success \cup {""}, arg : Typed \cup H!Levels \cup {""}]
    /\ alive => (waiting <=> slot # None)

(* As long as all is orderly, even if requests are lost or refused, texts do   *)
(* not fit the framing and names hold a '|': on a connection that the server  *)
(* has not closed, the label says who the server would act for, whatever      *)
(* authenticated_ is left at.                                                 *)
LabelMatchesServer ==
    orderly /\ alive /\ connected_ /\ ~waiting /\ serverOpen[conn] =>
        /\ clients_[conn].authenticated = authStatus
        /\ authStatus => /\ authenticated_
                         /\ clients_[conn].username = NameRead(currentUser_.username)
                         /\ clients_[conn].role = currentUser_.role
=============================================================================
