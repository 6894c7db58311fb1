------------------------------ MODULE Console ------------------------------
(***************************************************************************)
(* The console front end (ConsoleClient.cpp): menus chosen by connected_,  *)
(* authenticated_ and the role of currentUser_.  Each choice makes one or  *)
(* two calls of Client and updates the fields by what they return.  Its    *)
(* own connected_ always equals Client's.                                  *)
(***************************************************************************)
EXTENDS Link

VARIABLES
    running_,        \* the main loop goes on
    authenticated_,
    currentUser_,    \* name, role, level and score as the console knows them
    at               \* the menu, or the operation in progress with the name
                     \* or level it was given, and whether its text fits the
                     \* framing

consoleVars == <<running_, authenticated_, currentUser_, at>>
vars        == <<linkVars, consoleVars>>

Ops     == DOMAIN Success
Prompts == {"menu", "chooseLesson", "enterMove", "fetchFeedback"}  \* no call is under way

Menu == [op |-> "menu", arg |-> "", fits |-> TRUE]

Init ==
    /\ LinkInit
    /\ running_ = TRUE /\ authenticated_ = FALSE
    /\ currentUser_ = [username |-> "", role |-> "STUDENT", level |-> "BEGINNER", score |-> 0]
    /\ at = Menu
-----------------------------------------------------------------------------
Idle(op)     == alive /\ running_ /\ at.op = op
Role(role)   == Idle("menu") /\ connected_ /\ authenticated_ /\ currentUser_.role = role

NotConnected == Idle("menu") /\ ~connected_
Guest        == Idle("menu") /\ connected_ /\ ~authenticated_
studentMenu  == Role("STUDENT")
teacherMenu  == Role("TEACHER")
adminMenu    == Role("ADMIN")

(* What an operation s does with the reply of its call.                      *)
Done(s, op, reply) == s.op = op /\ reply.type = Success[op]

(* Fault for LoginAgrees: whatever is no error is a success.                 *)
AuthAfterAnyReply(s, reply) ==
    \/ authenticated_ /\ s.op # "LOGOUT_REQUEST"
    \/ s.op = "LOGIN_REQUEST" /\ reply.type # "ERROR_MESSAGE"

(* logout ignores the reply. *)
AuthAfter(s, reply) ==
    \/ authenticated_ /\ s.op # "LOGOUT_REQUEST"
    \/ Done(s, "LOGIN_REQUEST", reply)

(* Fault for DashboardCurrent: the level is shown before it is confirmed.    *)
LevelChosen(s, reply) == s.op = "SET_LEVEL_REQUEST"

LevelAccepted(s, reply) == Done(s, "SET_LEVEL_REQUEST", reply)

UserAfter(s, reply) ==
    CASE Done(s, "LOGIN_REQUEST", reply) ->
            [username |-> s.arg, role |-> reply.role, level |-> reply.level,
             score |-> reply.score]
      [] LevelAccepted(s, reply) -> [currentUser_ EXCEPT !.level = s.arg]
      [] Done(s, "SUBMIT_QUIZ_REQUEST", reply) \/ Done(s, "SUBMIT_EXERCISE_REQUEST", reply) ->
            [currentUser_ EXCEPT !.score = @ + reply.score]
      [] OTHER -> currentUser_

OpAfter(s, reply) ==
    CASE Done(s, "GET_LESSON_LIST_REQUEST", reply) -> "chooseLesson"
      [] Done(s, "GAME_START_REQUEST", reply)      -> "enterMove"
      [] s.op = "GET_SCORE_REQUEST"                -> "fetchFeedback"
      [] OTHER                                     -> "menu"

Continue(s, reply) ==
    /\ authenticated_' = AuthAfter(s, reply)
    /\ currentUser_' = UserAfter(s, reply)
    /\ at' = [Menu EXCEPT !.op = OpAfter(s, reply)]
    /\ UNCHANGED running_

(* Ask the server, with a payload that fits the framing or not; a call may    *)
(* fail at once.                                                              *)
Ask(op, arg, parts, fits) ==
    LET s == [op |-> op, arg |-> arg, fits |-> fits]
    IN  \/ /\ Call(op, parts, fits)
           /\ at' = s
           /\ UNCHANGED <<running_, authenticated_, currentUser_>>
        \/ CallFails /\ Continue(s, NoReply)

connectToServer == NotConnected /\ LinkConnect /\ UNCHANGED consoleVars

exit ==
    /\ NotConnected
    /\ running_' = FALSE
    /\ UNCHANGED <<linkVars, authenticated_, currentUser_, at>>

(* Only guests are offered it, so its own logout never runs. *)
disconnect == Guest /\ LinkDisconnect /\ UNCHANGED consoleVars

registerUser ==
    /\ Guest
    /\ \/ \E a \in Accounts, role \in {"STUDENT", "TEACHER", "ADMIN"} :
             Ask("REGISTER_REQUEST", "", RegisterRead(a, role), TRUE)
       \/ \E fits \in BOOLEAN : Ask("REGISTER_REQUEST", "", << >>, fits)

login ==
    /\ Guest
    /\ \/ \E a \in Accounts : Ask("LOGIN_REQUEST", a[1], LoginRead(a), TRUE)
       \/ \E fits \in BOOLEAN : Ask("LOGIN_REQUEST", "", << >>, fits)

(* Fault for ImplementsSolo: the server is not told.                         *)
logoutLocally ==
    /\ studentMenu \/ teacherMenu \/ adminMenu
    /\ authenticated_' = FALSE
    /\ UNCHANGED <<linkVars, running_, currentUser_, at>>

logout ==
    /\ studentMenu \/ teacherMenu \/ adminMenu
    /\ Ask("LOGOUT_REQUEST", "", << >>, TRUE)

setLevel == studentMenu /\ \E l \in H!Levels : Ask("SET_LEVEL_REQUEST", l, <<l>>, TRUE)

browseLessons == studentMenu /\ Ask("GET_LESSON_LIST_REQUEST", "", << >>, TRUE)

(* A lesson has to be chosen: 0, "Back", is not accepted. *)
chooseLesson ==
    Idle("chooseLesson") /\ Ask("GET_LESSON_CONTENT_REQUEST", "", << >>, TRUE)

submitQuiz ==
    studentMenu /\ \E parts \in {<<"id", "answers">>, << >>}, fits \in BOOLEAN :
        Ask("SUBMIT_QUIZ_REQUEST", "", parts, fits)

(* The text has a newline after each line that was typed. *)
submitExercise ==
    studentMenu /\ Ask("SUBMIT_EXERCISE_REQUEST", "", <<"id", "content">>, FALSE)

playGame == studentMenu /\ Ask("GAME_START_REQUEST", "", << >>, TRUE)

enterMove ==
    Idle("enterMove") /\ \E fits \in BOOLEAN : Ask("GAME_MOVE_REQUEST", "", << >>, fits)

Chat ==
    \E parts \in {<<"recipient", "text">>, << >>}, fits \in BOOLEAN :
        Ask("CHAT_MESSAGE", "", parts, fits)

chat            == studentMenu /\ Chat
chatWithStudent == teacherMenu /\ Chat

viewScoreAndFeedback == studentMenu /\ Ask("GET_SCORE_REQUEST", "", << >>, TRUE)

(* The second call of viewScoreAndFeedback. *)
fetchFeedback == Idle("fetchFeedback") /\ Ask("GET_FEEDBACK_REQUEST", "", << >>, TRUE)

(* Again with a newline after each line. *)
provideFeedback ==
    teacherMenu /\ \E u \in Usernames : Ask("SEND_FEEDBACK_REQUEST", "", <<u>>, FALSE)

addGameContent ==
    adminMenu /\ \E g \in GameTypes, fits \in BOOLEAN :
        Ask("ADD_GAME_ITEM_REQUEST", "", <<g>>, fits)
-----------------------------------------------------------------------------
Receive == LinkPoll /\ IF waiting' THEN UNCHANGED consoleVars
                                   ELSE Continue(at, Returns(Last(results').answer))

GiveUp == LinkTimeOut /\ Continue(at, NoReply)
-----------------------------------------------------------------------------
User ==
    \/ connectToServer \/ exit \/ disconnect \/ registerUser \/ login \/ logout
    \/ setLevel \/ browseLessons \/ chooseLesson \/ submitQuiz \/ submitExercise
    \/ playGame \/ enterMove \/ chat \/ chatWithStudent \/ viewScoreAndFeedback
    \/ fetchFeedback \/ provideFeedback \/ addGameContent

Next == User \/ Receive \/ GiveUp \/ (Remote /\ UNCHANGED consoleVars)

Spec == Init /\ [][Next]_vars

(* The receive loop polls every 10 ms and reads the clock, which is relied on *)
(* only where no answer can come any more; TCP delivers; and the server's     *)
(* loop serves the descriptors that have data (RequestsServed of Server) and  *)
(* notices the ends of connections (HangUpNoticed).                           *)
Handle(c) == (LinkServe(c) \/ LinkDrop(c)) /\ UNCHANGED consoleVars
HangUp(c) == ~(connected_ /\ c = conn) /\ LinkClose(c) /\ UNCHANGED consoleVars

FairSpec ==
    /\ Spec
    /\ WF_vars(Receive)
    /\ WF_vars(GiveUp /\ NoAnswerComing)
    /\ WF_vars(\E c \in Conns : Handle(c))
    /\ WF_vars(\E c \in Conns : HangUp(c))
-----------------------------------------------------------------------------
TypeOK ==
    /\ LinkTypeOK
    /\ running_ \in BOOLEAN /\ authenticated_ \in BOOLEAN
    /\ currentUser_ \in [username : Typed \cup {""}, role : H!Roles, level : H!Levels,
                         score : Nat]
    /\ at \in [op : Ops \cup Prompts, arg : Typed \cup H!Levels \cup {""}, fits : BOOLEAN]
    /\ alive => (waiting <=> at.op \notin Prompts)

(* As long as all is orderly and no request is lost, on a connection that the *)
(* server has not closed, whoever the menu greets is the user the server      *)
(* would act for, with the same role; a console that shows the guests' menu   *)
(* is a guest at the server.                                                  *)
MenuMatchesServer ==
    orderly /\ lossless /\ alive /\ connected_ /\ ~waiting /\ serverOpen[conn] =>
        /\ clients_[conn].authenticated = authenticated_
        /\ authenticated_ => /\ clients_[conn].username = NameRead(currentUser_.username)
                             /\ clients_[conn].role = currentUser_.role

(* Under the same condition the level and the score that the dashboard shows  *)
(* are those of the store, also once the server has closed the connection:    *)
(* the cached copy follows every call whose effect the server has made.       *)
DashboardCurrent ==
    orderly /\ lossless /\ alive /\ connected_ /\ ~waiting /\ authenticated_ =>
        LET u == users_[NameRead(currentUser_.username)]
        IN  currentUser_.level = u.level /\ currentUser_.score = u.score

(* Whatever was late, lost or misread before: a login that returns its own    *)
(* answer and enters a menu has logged this connection in, as the name that   *)
(* the console shows and with the role whose menu it is.                      *)
LoginStep ==
    /\ waiting /\ ~waiting' /\ at.op = "LOGIN_REQUEST" /\ authenticated_'
    /\ Last(results').answer = Current /\ serverOpen[conn]
    => /\ clients_[conn].authenticated
       /\ clients_[conn].username = NameRead(currentUser_'.username)
       /\ clients_[conn].role = currentUser_'.role
LoginAgrees == [][LoginStep]_vars

(* Every call the console makes comes back to its menu or its next prompt.    *)
CallsReturn == alive /\ waiting ~> ~waiting

(* As long as all is orderly, no request is lost and the server keeps the     *)
(* connection open, a call returns the answer to its own request, if request  *)
(* and response fit the framing.                                              *)
Answerable == at.fits /\ FALSE \notin FitsOf(conn, Success[at.op])
AnswerStep ==
    orderly' /\ lossless' /\ waiting /\ ~waiting' /\ serverOpen[conn] /\ Answerable =>
        Last(results').answer = Current
ReturnsAnswers == [][AnswerStep]_vars

(* What the documents promise of exercises: a submission is answered, as long *)
(* as all is orderly, no request is lost and the connection stays open.       *)
ExercisesAnswered ==
    orderly /\ lossless /\ waiting /\ at.op = "SUBMIT_EXERCISE_REQUEST" /\ serverOpen[conn] =>
        ~NoAnswerComing
=============================================================================
