--------------------------- MODULE Console_proofs ---------------------------
(***************************************************************************)
(* Proofs about the console front end and the server it talks to.          *)
(***************************************************************************)
EXTENDS Console, Link_proofs

(* Whatever the user chooses, the client library moves as ClientNext says.   *)
LEMMA AskSteps ==
    ASSUME NEW op, NEW arg, NEW parts, NEW fits, Ask(op, arg, parts, fits)
    PROVE  ClientNext
BY LinkSteps DEF Ask, ClientNext

LEMMA ConsoleSteps == [Next]_vars => [ClientNext]_clientVars
<1> SUFFICES ASSUME Next PROVE ClientNext \/ UNCHANGED clientVars
  BY DEF vars, linkVars
<1>1. CASE User
  BY <1>1, AskSteps, LinkSteps
     DEF User, connectToServer, exit, disconnect, registerUser, login, logout, setLevel,
         browseLessons, chooseLesson, submitQuiz, submitExercise, playGame, enterMove,
         chat, chatWithStudent, Chat, viewScoreAndFeedback, fetchFeedback,
         provideFeedback, addGameContent, linkVars, ClientNext
<1>2. CASE Receive \/ GiveUp \/ (Remote /\ UNCHANGED consoleVars)
  BY <1>2, LinkSteps DEF Receive, GiveUp, ClientNext
<1> QED BY <1>1, <1>2 DEF Next

(* As long as all is orderly the calls of the console are remote procedure    *)
(* calls: carried out once at most, answered by their own answer or by none.  *)
THEOREM ConsoleCallsRemotely == Spec => ImplementsRpc
<1>1. Init => ClientInit
  BY DEF Init, LinkInit
<1> QED BY <1>1, ConsoleSteps, StepsOfRpc, PTL DEF Spec

(* Whatever is late, cut, lost or misread: each answer is returned to one call *)
(* of the console at most, in the order of the calls, and never to a call made *)
(* before its own.                                                            *)
THEOREM ConsoleAnswersInOrder == Spec => []AnswersInOrder
<1>1. Init => OrderInv
  BY InitOrder DEF Init, LinkInit
<1>2. OrderInv => AnswersInOrder
  BY DEF OrderInv
<1> QED BY <1>1, <1>2, ConsoleSteps, ClientKeepsOrder, PTL DEF Spec

-----------------------------------------------------------------------------
(* The console asks for nothing but requests that the handlers know.         *)
LEMMA ConsoleIsFrontEnd == [Next]_vars => [LinkNext]_linkVars
<1> SUFFICES ASSUME Next PROVE LinkNext \/ UNCHANGED linkVars
  BY DEF vars
<1>1. ASSUME NEW op \in DOMAIN Success, NEW arg, NEW parts, NEW fits \in BOOLEAN,
             Ask(op, arg, parts, fits), [type |-> op, parts |-> parts] \in Requests
      PROVE  LinkNext
  <2>1. [type |-> op, parts |-> IF fits THEN parts ELSE << >>] \in Requests
    BY <1>1, AskedRequests
  <2> QED BY <1>1, <2>1 DEF Ask, LinkNext
<1>2. ASSUME NEW op \in DOMAIN Success, NEW arg, NEW fits \in BOOLEAN, Ask(op, arg, << >>, fits)
      PROVE  LinkNext
  BY <1>1, <1>2, AskedRequests
<1>3. CASE connectToServer \/ exit \/ disconnect
  BY <1>3 DEF connectToServer, exit, disconnect, LinkNext
<1>4. /\ {"REGISTER_REQUEST", "LOGIN_REQUEST", "SET_LEVEL_REQUEST", "SUBMIT_QUIZ_REQUEST",
          "SUBMIT_EXERCISE_REQUEST", "CHAT_MESSAGE", "SEND_FEEDBACK_REQUEST",
          "ADD_GAME_ITEM_REQUEST"} \subseteq DOMAIN Success
      /\ {"LOGOUT_REQUEST", "GET_LESSON_LIST_REQUEST", "GET_LESSON_CONTENT_REQUEST",
          "GAME_START_REQUEST", "GAME_MOVE_REQUEST", "GET_SCORE_REQUEST",
          "GET_FEEDBACK_REQUEST"} \subseteq DOMAIN Success
  BY DEF Success
<1>5. CASE registerUser \/ login
  BY <1>1, <1>2, <1>4, <1>5, AskedRequests DEF registerUser, login
<1>6. CASE setLevel
  BY <1>1, <1>4, <1>6, AskedRequests DEF setLevel
<1>7. CASE submitQuiz \/ submitExercise \/ chat \/ chatWithStudent
  BY <1>1, <1>2, <1>4, <1>7, AskedRequests
     DEF submitQuiz, submitExercise, chat, chatWithStudent, Chat
<1>8. CASE provideFeedback \/ addGameContent
  BY <1>1, <1>4, <1>8, AskedRequests DEF provideFeedback, addGameContent
<1>9. CASE \/ logout \/ browseLessons \/ chooseLesson \/ playGame \/ enterMove
           \/ viewScoreAndFeedback \/ fetchFeedback
  BY <1>2, <1>4, <1>9 DEF logout, browseLessons, chooseLesson, playGame, enterMove,
     viewScoreAndFeedback, fetchFeedback
<1>10. CASE Receive \/ GiveUp \/ (Remote /\ UNCHANGED consoleVars)
  BY <1>10 DEF Receive, GiveUp, LinkNext
<1> QED BY <1>3, <1>5, <1>6, <1>7, <1>8, <1>9, <1>10 DEF Next, User

(* The fields of the console; a call keeps the name or the level it is about.  *)
CurrentUser == [username : Typed \cup {""}, role : H!Roles, level : H!Levels, score : Nat]
At          == [op : Ops \cup Prompts, arg : Typed \cup H!Levels \cup {""}, fits : BOOLEAN]

Sound(s) ==
    /\ s \in At
    /\ s.op = "LOGIN_REQUEST" => s.arg \in Typed \cup {""}
    /\ s.op = "SET_LEVEL_REQUEST" => s.arg \in H!Levels
    /\ s.op = "LOGOUT_REQUEST" => s.fits

FieldsOK ==
    /\ running_ \in BOOLEAN /\ authenticated_ \in BOOLEAN
    /\ currentUser_ \in CurrentUser
    /\ Sound(at)
    /\ alive => (waiting <=> at.op \notin Prompts)

LEMMA ConsoleTypes == LinkInv /\ FieldsOK => TypeOK
BY LinkInvTypes DEF FieldsOK, TypeOK, CurrentUser, At, Sound

LEMMA ContinueKeepsFields ==
    ASSUME LinkInv, FieldsOK, NEW s, Sound(s), NEW reply \in Reply, Continue(s, reply),
           waiting' = FALSE
    PROVE  FieldsOK'
<1>1. running_' \in BOOLEAN /\ authenticated_' \in BOOLEAN
  BY DEF Continue, AuthAfter, Done, FieldsOK
<1>2. Sound(at)' /\ at'.op \in Prompts
  <2>1. at'.op = OpAfter(s, reply) /\ at' = [op |-> OpAfter(s, reply), arg |-> "", fits |-> TRUE]
    BY DEF Continue, Menu
  <2>2. OpAfter(s, reply) \in Prompts /\ Prompts \cap Ops = {}
    BY DEF OpAfter, Prompts, Ops, Success
  <2>3. "LOGIN_REQUEST" \in Ops /\ "SET_LEVEL_REQUEST" \in Ops /\ "LOGOUT_REQUEST" \in Ops
    BY DEF Ops, Success
  <2> QED BY <2>1, <2>2, <2>3 DEF Sound, At
<1>3. currentUser_' \in CurrentUser
  <2>1. CASE Done(s, "LOGIN_REQUEST", reply)
    <3>1. s.arg \in Typed \cup {""}
      BY <2>1 DEF Sound, Done
    <3>2. currentUser_' = [username |-> s.arg, role |-> reply.role, level |-> reply.level,
                           score |-> reply.score]
      BY <2>1 DEF Continue, UserAfter, LevelAccepted, Done
    <3> QED BY <3>1, <3>2 DEF CurrentUser, Reply
  <2>2. CASE Done(s, "SET_LEVEL_REQUEST", reply)
    <3>1. s.arg \in H!Levels
      BY <2>2 DEF Sound, Done
    <3>2. currentUser_' = [currentUser_ EXCEPT !.level = s.arg]
      BY <2>2 DEF Continue, UserAfter, LevelAccepted, Done
    <3> QED BY <3>1, <3>2 DEF CurrentUser, FieldsOK
  <2>3. CASE Done(s, "SUBMIT_QUIZ_REQUEST", reply) \/ Done(s, "SUBMIT_EXERCISE_REQUEST", reply)
    <3>1. currentUser_' = [currentUser_ EXCEPT !.score = @ + reply.score]
      BY <2>3 DEF Continue, UserAfter, LevelAccepted, Done
    <3>2. currentUser_.score + reply.score \in Nat
      <4>1. currentUser_.score \in Nat
        BY DEF CurrentUser, FieldsOK
      <4>2. reply.score \in Nat
        BY DEF Reply
      <4> QED BY <4>1, <4>2
    <3> QED BY <3>1, <3>2 DEF CurrentUser, FieldsOK
  <2>4. CASE ~(\/ Done(s, "LOGIN_REQUEST", reply) \/ Done(s, "SET_LEVEL_REQUEST", reply)
               \/ Done(s, "SUBMIT_QUIZ_REQUEST", reply)
               \/ Done(s, "SUBMIT_EXERCISE_REQUEST", reply))
    BY <2>4 DEF Continue, UserAfter, LevelAccepted, FieldsOK
  <2> QED BY <2>1, <2>2, <2>3, <2>4
<1> QED BY <1>1, <1>2, <1>3 DEF FieldsOK

LEMMA AskKeepsFields ==
    ASSUME LinkInv, FieldsOK, NEW op \in Ops, NEW arg \in Typed \cup H!Levels \cup {""},
           NEW parts, NEW fits \in BOOLEAN, Ask(op, arg, parts, fits),
           op = "LOGIN_REQUEST" => arg \in Typed \cup {""},
           op = "SET_LEVEL_REQUEST" => arg \in H!Levels,
           op = "LOGOUT_REQUEST" => fits
    PROVE  FieldsOK'
<1> DEFINE s == [op |-> op, arg |-> arg, fits |-> fits]
<1>1. Sound(s)
  BY DEF Sound, At
<1>2. CASE Call(op, parts, fits) /\ at' = s /\ UNCHANGED <<running_, authenticated_, currentUser_>>
  <2>1. at'.op = op /\ op \notin Prompts
    BY <1>2 DEF Ops, Prompts, Success
  <2>2. alive' => waiting'
    BY <1>2 DEF Call, Send, LinkInv, OrderInv, ClientTypeOK, FlagsOK
  <2>3. Sound(at)'
    BY <1>1, <1>2 DEF Sound
  <2> QED BY <1>2, <2>1, <2>2, <2>3 DEF FieldsOK
<1>3. CASE CallFails /\ Continue(s, NoReply)
  <2>1. waiting' = FALSE
    BY <1>3 DEF CallFails, SendFails, Finish
  <2>2. PICK r \in Reply : r = NoReply
    BY ReturnsReplies
  <2> QED BY <1>1, <1>3, <2>1, <2>2, ContinueKeepsFields
<1> QED BY <1>2, <1>3 DEF Ask

LEMMA UserKeepsFields == LinkInv /\ FieldsOK /\ User => FieldsOK'
<1> SUFFICES ASSUME LinkInv, FieldsOK, User PROVE FieldsOK'
  OBVIOUS
<1>1. CASE connectToServer \/ exit \/ disconnect
  <2>1. UNCHANGED <<alive, waiting, authenticated_, currentUser_, at>>
        /\ running_' \in {running_, FALSE}
    BY <1>1 DEF connectToServer, exit, disconnect, LinkConnect, Connect,
       LinkDisconnect, Disconnect, linkVars, clientVars, local, consoleVars
  <2> QED BY <2>1 DEF FieldsOK, Sound
<1>2. ASSUME NEW op \in Ops \ {"LOGIN_REQUEST", "SET_LEVEL_REQUEST", "LOGOUT_REQUEST"},
             NEW parts, NEW fits \in BOOLEAN, Ask(op, "", parts, fits)
      PROVE  FieldsOK'
  BY <1>2, AskKeepsFields
<1>3. CASE registerUser \/ browseLessons \/ chooseLesson \/ submitQuiz \/ submitExercise
  BY <1>2, <1>3 DEF registerUser, browseLessons, chooseLesson, submitQuiz, submitExercise,
     Ops, Success
<1>4. CASE playGame \/ enterMove \/ chat \/ chatWithStudent \/ viewScoreAndFeedback
  BY <1>2, <1>4 DEF playGame, enterMove, chat, chatWithStudent, Chat, viewScoreAndFeedback,
     Ops, Success
<1>5. CASE fetchFeedback \/ provideFeedback \/ addGameContent
  BY <1>2, <1>5 DEF fetchFeedback, provideFeedback, addGameContent, Ops, Success
<1>6. CASE login \/ logout
  <2>1. PICK op \in {"LOGIN_REQUEST", "LOGOUT_REQUEST"}, arg \in Typed \cup {""}, fits \in BOOLEAN :
           (op = "LOGOUT_REQUEST" => fits) /\ \E parts : Ask(op, arg, parts, fits)
    BY <1>6 DEF login, logout, Typed
  <2>2. op \in Ops
    BY DEF Ops, Success
  <2> QED BY <2>1, <2>2, AskKeepsFields
<1>7. CASE setLevel
  <2>1. PICK l \in H!Levels : Ask("SET_LEVEL_REQUEST", l, <<l>>, TRUE)
    BY <1>7 DEF setLevel
  <2>2. "SET_LEVEL_REQUEST" \in Ops
    BY DEF Ops, Success
  <2> QED BY <2>1, <2>2, AskKeepsFields
<1> QED BY <1>1, <1>3, <1>4, <1>5, <1>6, <1>7 DEF User

LEMMA ReceiveKeepsFields == LinkInv /\ FieldsOK /\ (Receive \/ GiveUp) => FieldsOK'
<1> SUFFICES ASSUME LinkInv, FieldsOK, Receive \/ GiveUp PROVE FieldsOK'
  OBVIOUS
<1>1. CASE Receive /\ waiting'
  <2>1. alive' = alive /\ waiting /\ UNCHANGED consoleVars
    BY <1>1 DEF Receive, LinkPoll, Poll
  <2> QED BY <1>1, <2>1 DEF FieldsOK, Sound, consoleVars
<1>2. CASE Receive /\ ~waiting'
  <2>1. waiting' = FALSE /\ Continue(at, Returns(Last(results').answer)) /\ Sound(at)
    <3>1. waiting' \in BOOLEAN
      BY <1>2 DEF Receive, LinkPoll, Poll, Finish, LinkInv, OrderInv, ClientTypeOK, FlagsOK
    <3> QED BY <1>2, <3>1 DEF Receive, FieldsOK
  <2> QED BY <2>1, ReturnsReplies, ContinueKeepsFields
<1>3. CASE GiveUp
  <2>1. waiting' = FALSE /\ Continue(at, NoReply) /\ Sound(at)
    BY <1>3 DEF GiveUp, LinkTimeOut, TimeOut, Finish, FieldsOK
  <2> QED BY <2>1, ReturnsReplies, ContinueKeepsFields
<1> QED BY <1>1, <1>2, <1>3

LEMMA NextKeepsFields == LinkInv /\ FieldsOK /\ [Next]_vars => FieldsOK'
<1> SUFFICES ASSUME LinkInv, FieldsOK, [Next]_vars PROVE FieldsOK'
  OBVIOUS
<1>1. CASE Remote /\ UNCHANGED consoleVars
  <2>1. UNCHANGED <<alive, waiting>>
    BY <1>1 DEF Remote, LinkServe, Serve, LinkMisread, Misread, LinkDrop, Drop, LinkLose, Lose,
       LinkClose, ServerClose, LinkReset, Reset, local
  <2> QED BY <1>1, <2>1 DEF FieldsOK, Sound, consoleVars
<1>2. CASE UNCHANGED vars
  BY <1>2 DEF vars, linkVars, clientVars, local, consoleVars, FieldsOK, Sound
<1> QED BY <1>1, <1>2, UserKeepsFields, ReceiveKeepsFields DEF Next

LEMMA InitTyped == Init => LinkInv /\ FieldsOK
<1> SUFFICES ASSUME Init PROVE LinkInv /\ FieldsOK
  OBVIOUS
<1>1. waiting = FALSE /\ at.op = "menu" /\ at.op \in Prompts /\ Sound(at)
  BY DEF Init, LinkInit, ClientInit, Menu, At, Prompts, Sound
<1>2. currentUser_ \in CurrentUser
  BY DEF Init, CurrentUser, H!Roles, H!Levels
<1>3. running_ \in BOOLEAN /\ authenticated_ \in BOOLEAN
  BY DEF Init
<1>4. LinkInv
  BY LinkStarts DEF Init
<1> QED BY <1>1, <1>2, <1>3, <1>4 DEF FieldsOK

(* At every moment the console, the client library, the wires and the server  *)
(* hold values of their types; a call is under way just when an operation of  *)
(* the menu waits for one.                                                    *)
THEOREM ConsoleTypeCorrect == Spec => []TypeOK
<1>1. LinkInv /\ FieldsOK /\ [Next]_vars => LinkInv' /\ FieldsOK'
  BY ConsoleIsFrontEnd, LinkKeepsInv, NextKeepsFields
<1> QED BY <1>1, InitTyped, ConsoleTypes, PTL DEF Spec

-----------------------------------------------------------------------------
(* What the console and the server know of each other as long as all is       *)
(* orderly and no request is lost.                                            *)
MenuRight ==
    /\ authenticated_ => connected_
    /\ at.op \in GuestOps => ~authenticated_
    /\ at.op \notin GuestOps \cup {"menu"} => authenticated_

(* Request r is what the operation a sends.                                  *)
Says(r, a) ==
    /\ r.message.type = a.op
    /\ r.fits = a.fits
    /\ a.op = "LOGIN_REQUEST" /\ r.message.parts # << >> => r.message.parts[1] = NameRead(a.arg)
    /\ a.op = "SET_LEVEL_REQUEST" /\ r.fits => r.message.parts = <<a.arg>>

RequestMatches == waiting /\ Current \in DOMAIN request => Says(request[Current], at)

(* A reset comes only from a server that has closed the connection. *)
ResetClosed == connected_ /\ broken => ~serverOpen[conn]

(* The account holds what the console shows of it. *)
StoreAgrees(auth, user, accounts) ==
    auth => LET name == NameRead(user.username)
            IN  /\ name \in DOMAIN accounts
                /\ user.level = accounts[name].level /\ user.score = accounts[name].score

Agree(auth, user) ==
    /\ connected_ /\ serverOpen[conn] => HandlerAgrees(auth, user, clients_[conn])
    /\ StoreAgrees(auth, user, users_)

(* They agree until the server carries out the request of the call under way; *)
(* then they will agree once the console has its answer.                      *)
Undone       == waiting => executed[Current] = 0 \/ at.op \in UnsureOps
ViewAgrees   == Undone => Agree(authenticated_, currentUser_)
AnswerAgrees ==
    waiting /\ executed[Current] = 1 /\ Current \in DOMAIN answer =>
        Agree(AuthAfter(at, answer[Current]), UserAfter(at, answer[Current]))

(* The answer of a call that was carried out is coming, unless it did not fit *)
(* the framing; a request that is not on its way though the server is there   *)
(* was dropped.                                                               *)
MayNotFit ==
    /\ at.op \in UnsureOps
    /\ serverOpen[conn] => FALSE \in FitsOf(conn, Success[at.op])

AnswerComes ==
    waiting =>
        /\ executed[Current] = 1 => Arriving(Current) \/ MayNotFit
        /\ executed[Current] = 0 /\ serverOpen[conn] /\ up[conn] = << >> => ~at.fits

SessionInv ==
    /\ MenuRight /\ NewestOpen /\ RequestMatches /\ ResetClosed
    /\ ViewAgrees /\ AnswerAgrees /\ AnswerComes

ConsoleInv == LinkInv /\ PromptInv /\ FieldsOK /\ SessionInv

(* Steps that leave console, accounts and calls alone.                       *)
LEMMA SameAfter ==
    UNCHANGED <<at, authenticated_, currentUser_>> =>
        \A reply : AuthAfter(at, reply)' = AuthAfter(at, reply)
                   /\ UserAfter(at, reply)' = UserAfter(at, reply)
BY DEF AuthAfter, UserAfter, Done, LevelAccepted

LEMMA StaysUnfit ==
    ASSUME MayNotFit, UNCHANGED <<gameItems_, feedbacks_, at, conn>>,
           serverOpen'[conn] => serverOpen[conn] /\ clients_'[conn] = clients_[conn]
    PROVE  MayNotFit'
BY DEF MayNotFit, FitsOf

LEMMA RemoteKeepsSession ==
    ASSUME ConsoleInv, UNCHANGED <<consoleVars, waiting, results, conn, connected_, users_, executed>>,
           \A c \in Conns : serverOpen'[c] => serverOpen[c],
           conn \in Conns /\ serverOpen'[conn] => clients_'[conn] = clients_[conn],
           \A i \in DOMAIN request' : i \in DOMAIN request /\ request'[i] = request[i],
           \A i \in DOMAIN answer' : i \in DOMAIN answer /\ answer'[i] = answer[i],
           broken' => broken \/ ~serverOpen[conn], AnswerComes'
    PROVE  SessionInv'
<1>1. /\ UNCHANGED <<authenticated_, currentUser_, at>> /\ Current' = Current
      /\ connected_ => conn \in Conns
  BY PromptTypes DEF consoleVars, Current, ConsoleInv
<1>2. MenuRight' /\ NewestOpen' /\ ResetClosed'
  BY <1>1 DEF ConsoleInv, SessionInv, MenuRight, NewestOpen, ResetClosed
<1>3. RequestMatches'
  BY <1>1 DEF ConsoleInv, SessionInv, RequestMatches
<1>4. ViewAgrees'
  BY <1>1 DEF ConsoleInv, SessionInv, ViewAgrees, Undone, Agree
<1>5. AnswerAgrees'
  <2> SUFFICES ASSUME NEW reply, reply = answer'[Current], waiting, executed[Current] = 1,
                      Current \in DOMAIN answer'
               PROVE  Agree(AuthAfter(at, reply), UserAfter(at, reply))'
    BY <1>1 DEF AnswerAgrees
  <2>1. Agree(AuthAfter(at, reply), UserAfter(at, reply))
    BY DEF ConsoleInv, SessionInv, AnswerAgrees
  <2>2. AuthAfter(at, reply)' = AuthAfter(at, reply) /\ UserAfter(at, reply)' = UserAfter(at, reply)
    BY <1>1, SameAfter
  <2> QED BY <1>1, <2>1, <2>2 DEF Agree
<1> QED BY <1>2, <1>3, <1>4, <1>5 DEF SessionInv

LEMMA DropKeepsSession ==
    ASSUME ConsoleInv, NEW c \in Conns, LinkDrop(c), UNCHANGED consoleVars
    PROVE  SessionInv'
<1>1. /\ serverOpen[c] /\ up[c] # << >> /\ ~request[Head(up[c])].fits
      /\ up' = [up EXCEPT ![c] = Tail(@)] /\ request' = H!Erase(request, Head(up[c]))
      /\ UNCHANGED <<waiting, results, conn, connected_, receiveBuffer_, down, serverOpen, executed>>
      /\ UNCHANGED <<users_, clients_, answer, broken>>
  BY DEF LinkDrop, Drop, local, store
<1>2. waiting /\ c = conn /\ up[c] = <<Current>> /\ executed[Current] = 0
  BY <1>1 DEF ConsoleInv, PromptInv, OneRequest, Asked
<1>3. ~at.fits
  <2>1. 1 \in DOMAIN up[c] /\ up[c][1] = Current /\ Head(up[c]) = Current
    BY <1>2
  <2>2. Current \in DOMAIN request
    BY <2>1 DEF ConsoleInv, LinkInv, WireOK
  <2> QED BY <1>1, <1>2, <2>1, <2>2 DEF ConsoleInv, SessionInv, RequestMatches, Says
<1>4. AnswerComes'
  <2>1. Current' = Current /\ at' = at
    BY <1>1 DEF Current, consoleVars
  <2> QED BY <1>1, <1>2, <1>3, <2>1 DEF AnswerComes
<1>5. \A i \in DOMAIN request' : i \in DOMAIN request /\ request'[i] = request[i]
  BY <1>1, OthersKept
<1> QED BY <1>1, <1>4, <1>5, RemoteKeepsSession

LEMMA LoseKeepsSession ==
    ASSUME ConsoleInv, lossless', NEW c \in Conns, LinkLose(c), UNCHANGED consoleVars
    PROVE  SessionInv'
<1>1. /\ up[c] # << >> /\ ~(connected_ /\ c = conn)
      /\ up' = [up EXCEPT ![c] = Tail(@)] /\ request' = H!Erase(request, Head(up[c]))
      /\ UNCHANGED <<waiting, results, conn, connected_, receiveBuffer_, down, serverOpen, executed>>
      /\ UNCHANGED <<users_, clients_, answer, gameItems_, feedbacks_, broken>>
  BY DEF LinkLose, Lose, local, store
<1>2. AnswerComes'
  <2>1. Current' = Current /\ at' = at
    BY <1>1 DEF Current, consoleVars
  <2>2. waiting => up'[conn] = up[conn]
    BY <1>1, PromptTypes DEF ConsoleInv
  <2>3. MayNotFit => MayNotFit'
    BY <1>1, <2>1, StaysUnfit
  <2> QED BY <1>1, <2>1, <2>2, <2>3 DEF ConsoleInv, SessionInv, AnswerComes, Arriving, Response
<1>3. \A i \in DOMAIN request' : i \in DOMAIN request /\ request'[i] = request[i]
  BY <1>1, OthersKept
<1> QED BY <1>1, <1>2, <1>3, RemoteKeepsSession

LEMMA CloseKeepsSession ==
    ASSUME ConsoleInv, NEW c \in Conns, LinkClose(c), UNCHANGED consoleVars
    PROVE  SessionInv'
<1>1. /\ serverOpen[c] /\ serverOpen' = [serverOpen EXCEPT ![c] = FALSE]
      /\ clients_' = H!Erase(clients_, c)
      /\ UNCHANGED <<waiting, results, conn, connected_, receiveBuffer_, down, up, executed>>
      /\ UNCHANGED <<users_, request, answer, gameItems_, feedbacks_, broken>>
  BY DEF LinkClose, ServerClose, local, H!Disconnect, wire
<1>2. /\ \A d \in Conns : serverOpen'[d] => serverOpen[d] /\ d # c
      /\ DOMAIN clients_ = {d \in Conns : serverOpen[d]}
  BY <1>1, PromptTypes DEF ConsoleInv, LinkInv, WireOK
<1>3. conn \in Conns /\ serverOpen'[conn] => clients_'[conn] = clients_[conn]
  BY <1>1, <1>2 DEF H!Erase
<1>4. AnswerComes'
  <2>1. Current' = Current /\ at' = at /\ (waiting => conn \in Conns)
    BY <1>1, PromptTypes DEF Current, consoleVars, ConsoleInv
  <2>2. waiting /\ MayNotFit => MayNotFit'
    BY <1>1, <1>2, <1>3, <2>1, StaysUnfit
  <2> QED BY <1>1, <1>2, <2>1, <2>2 DEF ConsoleInv, SessionInv, AnswerComes, Arriving, Response
<1> QED BY <1>1, <1>2, <1>3, <1>4, RemoteKeepsSession

LEMMA ResetKeepsSession ==
    ASSUME ConsoleInv, LinkReset, UNCHANGED consoleVars
    PROVE  SessionInv'
<1>1. /\ connected_ /\ ~serverOpen[conn] /\ up[conn] # << >>
      /\ request' = [i \in DOMAIN request \ ToSet(up[conn]) |-> request[i]]
      /\ answer' = Coming(answer)
      /\ UNCHANGED <<waiting, results, conn, connected_, receiveBuffer_, serverOpen, executed>>
      /\ UNCHANGED <<users_, clients_, gameItems_, feedbacks_>>
  BY DEF LinkReset, Reset, local, store
<1>2. AnswerComes'
  <2>1. Current' = Current /\ at' = at
    BY <1>1 DEF Current, consoleVars
  <2>2. ~Arriving(Current)
    BY <1>1 DEF Arriving
  <2>3. MayNotFit => MayNotFit'
    BY <1>1, <2>1, StaysUnfit
  <2> QED BY <1>1, <2>1, <2>2, <2>3 DEF ConsoleInv, SessionInv, AnswerComes
<1>3. /\ \A i \in DOMAIN request' : i \in DOMAIN request /\ request'[i] = request[i]
      /\ \A i \in DOMAIN answer' : i \in DOMAIN answer /\ answer'[i] = answer[i]
  BY <1>1, OthersKept DEF Coming
<1> QED BY <1>1, <1>2, <1>3, RemoteKeepsSession

LEMMA StutterKeepsSession ==
    ASSUME ConsoleInv, UNCHANGED vars
    PROVE  SessionInv'
<1>1. /\ UNCHANGED <<consoleVars, waiting, results, conn, connected_, users_, executed, serverOpen,
                     clients_, request, answer, receiveBuffer_, down, up>>
      /\ UNCHANGED <<gameItems_, feedbacks_, broken>>
  BY DEF vars, linkVars, clientVars, local, remote, store, wire
<1>2. AnswerComes'
  <2>1. Current' = Current /\ at' = at
    BY <1>1 DEF Current, consoleVars
  <2>2. MayNotFit => MayNotFit'
    BY <1>1, <2>1, StaysUnfit
  <2> QED BY <1>1, <2>1, <2>2 DEF ConsoleInv, SessionInv, AnswerComes, Arriving, Response
<1> QED BY <1>1, <1>2, RemoteKeepsSession

(* A round of the receive loop that does not end the call.                   *)
LEMMA WaitingKeepsSession ==
    ASSUME ConsoleInv, LinkPoll, waiting', UNCHANGED consoleVars
    PROVE  SessionInv'
<1>1. PICK n \in 1..Len(down), garbled \in BOOLEAN : Poll(n, garbled)
  BY DEF LinkPoll
<1>2. /\ UNCHANGED <<waiting, results, connected_, conn, up, serverOpen, executed, broken>> /\ waiting
      /\ \/ Arriving(0)
         \/ Arriving(Current)' /\ executed[Current] = 1
  BY <1>1, PollOutcomes DEF Finish, ConsoleInv
<1>3. UNCHANGED <<users_, clients_, request, gameItems_, feedbacks_>>
      /\ \A i \in DOMAIN answer' : i \in DOMAIN answer /\ answer'[i] = answer[i]
  BY OthersKept DEF LinkPoll, store, Coming
<1>4. AnswerComes'
  <2>1. Current' = Current /\ at' = at /\ Current # 0
    BY <1>2, PromptTypes DEF Current, consoleVars, ConsoleInv
  <2>2. CASE Arriving(0)
    <3>1. ~Arriving(Current)
      BY <2>1, <2>2, OneArrives
    <3>2. MayNotFit => MayNotFit'
      BY <1>2, <1>3, <2>1, StaysUnfit
    <3> QED BY <1>2, <2>1, <3>1, <3>2 DEF ConsoleInv, SessionInv, AnswerComes
  <2>3. CASE Arriving(Current)' /\ executed[Current] = 1
    BY <1>2, <2>1, <2>3 DEF AnswerComes
  <2> QED BY <1>2, <2>2, <2>3
<1> QED BY <1>2, <1>3, <1>4, RemoteKeepsSession
-----------------------------------------------------------------------------
(* The operations that change what the console shows, and the answers at which *)
(* they do.                                                                   *)
LEMMA Successes ==
    /\ Success["LOGIN_REQUEST"] = "LOGIN_SUCCESS"
    /\ Success["SET_LEVEL_REQUEST"] = "SET_LEVEL_SUCCESS"
    /\ Success["SUBMIT_QUIZ_REQUEST"] = "SUBMIT_QUIZ_RESPONSE"
    /\ Success["SUBMIT_EXERCISE_REQUEST"] = "SUBMIT_EXERCISE_RESPONSE"
BY DEF Success

LEMMA NoEffect ==
    ASSUME NEW s, NEW reply, authenticated_ \in BOOLEAN, s.op # "LOGOUT_REQUEST",
           ~Done(s, "LOGIN_REQUEST", reply), ~Done(s, "SET_LEVEL_REQUEST", reply),
           ~Done(s, "SUBMIT_QUIZ_REQUEST", reply), ~Done(s, "SUBMIT_EXERCISE_REQUEST", reply)
    PROVE  AuthAfter(s, reply) = authenticated_ /\ UserAfter(s, reply) = currentUser_
<1>1. AuthAfter(s, reply) = authenticated_
  BY DEF AuthAfter
<1>2. UserAfter(s, reply) = currentUser_
  BY DEF UserAfter, LevelAccepted
<1> QED BY <1>1, <1>2

(* The request is read and carried out, and its answer is on its way: console *)
(* and server will agree once it is there.                                    *)
LEMMA AgreeOnceAnswered ==
    ASSUME ConsoleInv, NEW m \in Requests, NEW reply, reply = ReplyOf(response'.type, m),
           connected_, serverOpen[conn], conn \in DOMAIN clients_, Outcome(conn, m),
           Agree(authenticated_, currentUser_), m.type = at.op, at.op \notin Prompts,
           at.op = "LOGIN_REQUEST" /\ m.parts # << >> => m.parts[1] = NameRead(at.arg),
           at.op = "SET_LEVEL_REQUEST" => m.parts = <<at.arg>>
    PROVE  /\ HandlerAgrees(AuthAfter(at, reply), UserAfter(at, reply), clients_'[conn])
           /\ StoreAgrees(AuthAfter(at, reply), UserAfter(at, reply), users_')
<1> DEFINE c == conn
           name == NameRead(currentUser_.username)
<1>1. /\ clients_[c].authenticated = authenticated_ /\ authenticated_ \in BOOLEAN
      /\ authenticated_ => /\ clients_[c].username = name /\ clients_[c].role = currentUser_.role
                           /\ name \in DOMAIN users_ /\ currentUser_.level = users_[name].level
                           /\ currentUser_.score = users_[name].score
  BY DEF Agree, HandlerAgrees, StoreAgrees, ConsoleInv, FieldsOK
<1>2. /\ at.op \in GuestOps => ~authenticated_
      /\ at.op \notin GuestOps => authenticated_
  BY DEF ConsoleInv, SessionInv, MenuRight, Prompts
<1>3. reply.type = response'.type
  BY DEF ReplyOf, NoReply
<1>4. CASE Steady(m)
  <2>1. AuthAfter(at, reply) = authenticated_ /\ UserAfter(at, reply) = currentUser_
    BY <1>1, <1>3, <1>4, NoEffect, Successes DEF Steady, Done
  <2> QED BY <1>1, <1>4, <2>1 DEF Steady, HandlerAgrees, StoreAgrees
<1>5. CASE Turned(c, m)
  BY <1>1, <1>2, <1>5 DEF Turned, GuestOps
<1>6. CASE Registered(m)
  <2>1. AuthAfter(at, reply) = FALSE
    BY <1>2, <1>3, <1>6 DEF Registered, AuthAfter, Done, GuestOps
  <2> QED BY <1>1, <1>2, <1>6, <2>1 DEF Registered, HandlerAgrees, StoreAgrees, GuestOps
<1>7. CASE LoggedIn(c, m)
  <2>1. AuthAfter(at, reply) = TRUE /\ m.parts[1] = NameRead(at.arg) /\ Done(at, "LOGIN_REQUEST", reply)
    BY <1>3, <1>7 DEF LoggedIn, AuthAfter, Done, Success
  <2>2. UserAfter(at, reply) = [username |-> at.arg, role |-> reply.role, level |-> reply.level,
                            score |-> reply.score]
    BY <2>1 DEF UserAfter, LevelAccepted, Done
  <2>3. /\ reply.role = users_[m.parts[1]].role /\ reply.level = users_[m.parts[1]].level
        /\ reply.score = users_[m.parts[1]].score
    BY <1>7 DEF LoggedIn, ReplyOf
  <2>4. clients_'[c] = [authenticated |-> TRUE, username |-> m.parts[1],
                        role |-> users_[m.parts[1]].role, level |-> users_[m.parts[1]].level]
    BY <1>7 DEF LoggedIn, ConsoleInv, LinkInv, HandlerInv, H!TypeOK, H!IsMap
  <2>5. m.parts[1] \in DOMAIN users_ /\ users_' = users_
    BY <1>7 DEF LoggedIn, H!userExists
  <2> DEFINE user == UserAfter(at, reply)
  <2>6. /\ user.username = at.arg /\ user.role = users_[m.parts[1]].role
        /\ user.level = users_[m.parts[1]].level /\ user.score = users_[m.parts[1]].score
    BY <2>2, <2>3
  <2>7. clients_'[c].authenticated = TRUE /\ clients_'[c].username = m.parts[1]
        /\ clients_'[c].role = users_[m.parts[1]].role
    BY <2>4
  <2> HIDE DEF user
  <2>8. HandlerAgrees(TRUE, user, clients_'[c]) /\ StoreAgrees(TRUE, user, users_')
    BY <2>1, <2>5, <2>6, <2>7 DEF HandlerAgrees, StoreAgrees
  <2> QED BY <2>1, <2>8 DEF user
<1>8. CASE LoggedOut(c, m)
  <2>1. AuthAfter(at, reply) = FALSE
    BY <1>3, <1>8 DEF LoggedOut, AuthAfter, Done
  <2>2. clients_'[c].authenticated = FALSE
    BY <1>8 DEF LoggedOut, ConsoleInv, LinkInv, HandlerInv, H!TypeOK, H!IsMap, H!Handler
  <2> QED BY <2>1, <2>2 DEF HandlerAgrees, StoreAgrees
<1>9. CASE LevelSet(c, m)
  <2>1. /\ authenticated_ = TRUE /\ at.op = "SET_LEVEL_REQUEST" /\ m.parts[1] = at.arg
        /\ H!User(c) = name /\ H!userExists(name)
    BY <1>1, <1>9 DEF LevelSet, H!User, H!userExists
  <2>2. /\ users_' = [users_ EXCEPT ![name].level = at.arg] /\ reply.type = "SET_LEVEL_SUCCESS"
        /\ clients_' = [clients_ EXCEPT ![c].level = at.arg]
    BY <1>3, <1>9, <2>1 DEF LevelSet, H!updateUserLevel
  <2>3. AuthAfter(at, reply) = TRUE /\ UserAfter(at, reply) = [currentUser_ EXCEPT !.level = at.arg]
    BY <2>1, <2>2, Successes DEF AuthAfter, UserAfter, LevelAccepted, Done
  <2>4. /\ clients_'[c].authenticated = clients_[c].authenticated
        /\ clients_'[c].username = clients_[c].username /\ clients_'[c].role = clients_[c].role
    BY <2>2 DEF ConsoleInv, LinkInv, HandlerInv, H!TypeOK, H!IsMap, H!Handler
  <2>5. /\ DOMAIN users_' = DOMAIN users_ /\ users_'[name].level = at.arg
        /\ users_'[name].score = users_[name].score
    BY <1>1, <2>1, <2>2 DEF ConsoleInv, LinkInv, HandlerInv, H!TypeOK, H!DbTypeOK, H!IsMap,
       H!UserData
  <2>6. LET user == UserAfter(at, reply)
        IN  /\ user.username = currentUser_.username /\ user.role = currentUser_.role
            /\ user.level = at.arg /\ user.score = currentUser_.score
    BY <2>3 DEF ConsoleInv, FieldsOK, CurrentUser
  <2> DEFINE user == UserAfter(at, reply)
  <2> HIDE DEF user
  <2>7. HandlerAgrees(TRUE, user, clients_'[c]) /\ StoreAgrees(TRUE, user, users_')
    BY <1>1, <2>1, <2>4, <2>5, <2>6 DEF HandlerAgrees, StoreAgrees, user
  <2> QED BY <2>3, <2>7 DEF user
<1>10. ASSUME NEW points \in {5, 10}, Scored(c, m, points),
              IF points = 10 THEN m.type = "SUBMIT_QUIZ_REQUEST" /\ response'.type = "SUBMIT_QUIZ_RESPONSE"
              ELSE m.type = "SUBMIT_EXERCISE_REQUEST" /\ response'.type = "SUBMIT_EXERCISE_RESPONSE"
       PROVE  /\ HandlerAgrees(AuthAfter(at, reply), UserAfter(at, reply), clients_'[c])
              /\ StoreAgrees(AuthAfter(at, reply), UserAfter(at, reply), users_')
  <2>1. /\ authenticated_ = TRUE /\ H!User(c) = name /\ H!userExists(name) /\ clients_' = clients_
    BY <1>1, <1>10 DEF Scored, H!User, H!userExists
  <2>2. /\ users_' = [users_ EXCEPT ![name].score = @ + points] /\ reply.score = points
    BY <1>10, <2>1 DEF Scored, H!updateUserScore, ReplyOf, NoReply
  <2>3. AuthAfter(at, reply) = TRUE /\ UserAfter(at, reply) = [currentUser_ EXCEPT !.score = @ + points]
    BY <1>3, <1>10, <2>1, <2>2, Successes DEF AuthAfter, UserAfter, LevelAccepted, Done
  <2>4. /\ DOMAIN users_' = DOMAIN users_ /\ users_'[name].level = users_[name].level
        /\ users_'[name].score = users_[name].score + points
    BY <1>1, <2>1, <2>2 DEF ConsoleInv, LinkInv, HandlerInv, H!TypeOK, H!DbTypeOK, H!IsMap,
       H!UserData
  <2>5. LET user == UserAfter(at, reply)
        IN  /\ user.username = currentUser_.username /\ user.role = currentUser_.role
            /\ user.level = currentUser_.level /\ user.score = currentUser_.score + points
    BY <2>3 DEF ConsoleInv, FieldsOK, CurrentUser
  <2> DEFINE user == UserAfter(at, reply)
  <2> HIDE DEF user
  <2>6. HandlerAgrees(TRUE, user, clients_'[c]) /\ StoreAgrees(TRUE, user, users_')
    BY <1>1, <2>1, <2>4, <2>5 DEF HandlerAgrees, StoreAgrees, user
  <2> QED BY <2>3, <2>6 DEF user
<1> QED BY <1>4, <1>5, <1>6, <1>7, <1>8, <1>9, <1>10 DEF Outcome


(* Nobody the console greets changes when a call fails, but at a logout.     *)
LEMMA NoEffectOfFailure ==
    ASSUME NEW s, authenticated_ \in BOOLEAN,
           s.op = "LOGOUT_REQUEST" => ~serverOpen[conn],
           Agree(authenticated_, currentUser_)
    PROVE  Agree(AuthAfter(s, NoReply), UserAfter(s, NoReply))
<1>1. /\ ~Done(s, "LOGIN_REQUEST", NoReply) /\ ~Done(s, "SET_LEVEL_REQUEST", NoReply)
      /\ ~Done(s, "SUBMIT_QUIZ_REQUEST", NoReply) /\ ~Done(s, "SUBMIT_EXERCISE_REQUEST", NoReply)
  BY Successes DEF Done, NoReply
<1>2. CASE s.op # "LOGOUT_REQUEST"
  <2>1. AuthAfter(s, NoReply) = authenticated_ /\ UserAfter(s, NoReply) = currentUser_
    BY <1>1, <1>2, NoEffect
  <2> QED BY <2>1
<1>3. CASE s.op = "LOGOUT_REQUEST"
  <2>1. AuthAfter(s, NoReply) = FALSE
    BY <1>1, <1>3 DEF AuthAfter
  <2> QED BY <1>3, <2>1 DEF Agree, StoreAgrees
<1> QED BY <1>2, <1>3

LEMMA ServeKeepsSession ==
    ASSUME ConsoleInv, PromptInv', NEW c \in Conns, LinkServe(c), UNCHANGED consoleVars
    PROVE  SessionInv'
<1> DEFINE m == request[Current].message
           reply == ReplyOf(response'.type, m)
<1>1. /\ waiting /\ connected_ /\ c = conn /\ up[c] = <<Current>> /\ serverOpen[c]
      /\ Current \in DOMAIN request /\ Says(request[Current], at)
      /\ m \in Requests /\ c \in DOMAIN clients_ /\ H!processMessage(c, m)
      /\ executed[Current] = 0 /\ executed'[Current] = 1
      /\ request[Current].fits /\ request' = H!Erase(request, Current)
      /\ Current \in DOMAIN answer' => answer'[Current] = reply
      /\ Arriving(Current)' \/ FALSE \in FitsOf(c, response'.type)
      /\ UNCHANGED <<local, broken, serverOpen>>
  <2>1. NewestOpen /\ LinkInv /\ PromptInv
    BY DEF ConsoleInv, SessionInv
  <2>2. /\ waiting /\ connected_ /\ c = conn /\ up[c] = <<Current>> /\ serverOpen[c]
        /\ Current \in DOMAIN request
        /\ m \in Requests /\ c \in DOMAIN clients_ /\ H!processMessage(c, m)
        /\ executed[Current] = 0 /\ executed'[Current] = 1
        /\ request[Current].fits /\ request' = H!Erase(request, Current)
        /\ Current \in DOMAIN answer' => answer'[Current] = reply
        /\ Arriving(Current)' \/ FALSE \in FitsOf(c, response'.type)
        /\ UNCHANGED <<local, broken, serverOpen>>
    BY <2>1, ServedCall
  <2>3. Says(request[Current], at)
    BY <2>2 DEF ConsoleInv, SessionInv, RequestMatches
  <2> QED BY <2>2, <2>3
<1>2. UNCHANGED <<alive, receiveBuffer_, waiting, results, conn, connected_, serverOpen, broken>>
      /\ UNCHANGED <<authenticated_, currentUser_, at>> /\ Current' = Current
  BY <1>1 DEF local, consoleVars, Current
<1>3. m.type = at.op /\ at.op \notin Prompts /\ at.op \in DOMAIN Success
      /\ (at.op = "LOGIN_REQUEST" /\ m.parts # << >> => m.parts[1] = NameRead(at.arg))
      /\ (at.op = "SET_LEVEL_REQUEST" => m.parts = <<at.arg>>)
  <2>1. alive
    BY <1>1, PromptTypes DEF ConsoleInv
  <2> QED BY <1>1, <2>1 DEF Says, ConsoleInv, FieldsOK, Sound, At, Ops
<1>4. Outcome(c, m)
  BY <1>1, Outcomes
<1>5. Agree(authenticated_, currentUser_)
  BY <1>1 DEF ConsoleInv, SessionInv, ViewAgrees, Undone
<1> HIDE DEF m
<1>6. /\ HandlerAgrees(AuthAfter(at, reply), UserAfter(at, reply), clients_'[conn])
      /\ StoreAgrees(AuthAfter(at, reply), UserAfter(at, reply), users_')
  BY <1>1, <1>3, <1>4, <1>5, AgreeOnceAnswered
<1>7. FALSE \in FitsOf(c, response'.type) => MayNotFit'
  <2> SUFFICES ASSUME FALSE \in FitsOf(c, response'.type) PROVE MayNotFit'
    OBVIOUS
  <2>1. response'.type \in Unsure
    BY UnsureAnswers
  <2>2. Steady(m)
    BY <1>4, <2>1 DEF Outcome, Turned, Registered, LoggedIn, LoggedOut, LevelSet, Scored, Unsure
  <2>3. at.op \in UnsureOps /\ response'.type = Success[at.op]
        /\ UNCHANGED <<clients_, gameItems_, feedbacks_>>
    BY <1>3, <2>1, <2>2 DEF Steady
  <2> QED BY <1>1, <1>2, <2>3 DEF FitsOf, MayNotFit
<1> HIDE DEF reply
<1>8. MenuRight' /\ NewestOpen' /\ RequestMatches' /\ ResetClosed'
  <2>1. Current \notin DOMAIN request'
    BY <1>1 DEF H!Erase
  <2> QED BY <1>2, <2>1 DEF ConsoleInv, SessionInv, MenuRight, NewestOpen, RequestMatches,
          ResetClosed
<1>9. AnswerAgrees'
  <2> SUFFICES ASSUME NEW r, r = answer'[Current], Current \in DOMAIN answer'
               PROVE  Agree(AuthAfter(at, r), UserAfter(at, r))'
    BY <1>2 DEF AnswerAgrees
  <2>1. AuthAfter(at, r)' = AuthAfter(at, reply) /\ UserAfter(at, r)' = UserAfter(at, reply)
    BY <1>1, <1>2, SameAfter
  <2> QED BY <1>2, <1>6, <2>1 DEF Agree
<1>10. AnswerComes'
  <2>1. Arriving(Current)' \/ MayNotFit'
    BY <1>1, <1>7
  <2>2. executed'[Current'] = 1
    BY <1>1, <1>2
  <2> QED BY <2>1, <2>2 DEF AnswerComes
<1>11. ViewAgrees'
  <2> SUFFICES ASSUME at.op \in UnsureOps PROVE Agree(authenticated_, currentUser_)'
    BY <1>1, <1>2 DEF ViewAgrees, Undone
  <2>1. AuthAfter(at, reply) = authenticated_ /\ UserAfter(at, reply) = currentUser_
    BY NoEffect DEF UnsureOps, Done, ConsoleInv, FieldsOK
  <2> QED BY <1>2, <1>6, <2>1 DEF Agree
<1> QED BY <1>8, <1>9, <1>10, <1>11 DEF SessionInv

-----------------------------------------------------------------------------
(* The steps of the console itself.                                          *)
LEMMA ConnectKeepsSession ==
    ASSUME ConsoleInv, connectToServer
    PROVE  SessionInv'
<1>1. /\ at.op = "menu" /\ ~connected_ /\ conn' = conn + 1 /\ connected_' = TRUE
      /\ UNCHANGED <<authenticated_, currentUser_, at>> /\ UNCHANGED waiting
      /\ serverOpen' = [serverOpen EXCEPT ![conn'] = TRUE] /\ broken' = FALSE
      /\ clients_' = H!Put(clients_, conn', H!NewHandler) /\ conn < MaxConns
  BY DEF connectToServer, NotConnected, Idle, LinkConnect, Connect, H!Connect, consoleVars
<1>2. ~authenticated_ /\ ~waiting /\ authenticated_ = FALSE
  BY <1>1, PromptTypes DEF ConsoleInv, SessionInv, MenuRight, FieldsOK
<1>3. MenuRight' /\ ResetClosed'
  BY <1>1, <1>2 DEF ConsoleInv, SessionInv, MenuRight, ResetClosed
<1>4. NewestOpen'
  BY <1>1, PromptTypes, ClientAssumption DEF ConsoleInv, SessionInv, NewestOpen, Conns
<1>5. ViewAgrees'
  <2>1. clients_'[conn'].authenticated = FALSE
    BY <1>1 DEF H!Put, H!NewHandler
  <2> QED BY <1>1, <1>2, <2>1 DEF ViewAgrees, Agree, HandlerAgrees, StoreAgrees
<1>6. RequestMatches' /\ AnswerAgrees' /\ AnswerComes'
  BY <1>1, <1>2 DEF RequestMatches, AnswerAgrees, AnswerComes
<1> QED BY <1>3, <1>4, <1>5, <1>6 DEF SessionInv

LEMMA ExitKeepsSession ==
    ASSUME ConsoleInv, exit
    PROVE  SessionInv'
<1>1. /\ ~waiting /\ UNCHANGED <<authenticated_, currentUser_, at, connected_, waiting, conn,
                                 serverOpen, clients_, users_, broken>>
  BY PromptTypes DEF exit, NotConnected, linkVars, clientVars, local, remote, store, ConsoleInv
<1>2. RequestMatches' /\ AnswerAgrees' /\ AnswerComes' /\ MenuRight' /\ NewestOpen' /\ ResetClosed'
  BY <1>1 DEF RequestMatches, AnswerAgrees, AnswerComes, MenuRight, NewestOpen, ResetClosed,
     ConsoleInv, SessionInv
<1>3. ViewAgrees'
  BY <1>1 DEF ConsoleInv, SessionInv, ViewAgrees, Undone, Agree
<1> QED BY <1>2, <1>3 DEF SessionInv

LEMMA DisconnectKeepsSession ==
    ASSUME ConsoleInv, disconnect
    PROVE  SessionInv'
<1>1. /\ ~waiting /\ ~authenticated_ /\ connected_' = FALSE
      /\ UNCHANGED <<authenticated_, currentUser_, at, waiting, conn, serverOpen>>
  BY DEF disconnect, Guest, LinkDisconnect, Disconnect, consoleVars
<1>2. RequestMatches' /\ AnswerAgrees' /\ AnswerComes' /\ MenuRight' /\ NewestOpen' /\ ResetClosed'
  BY <1>1 DEF RequestMatches, AnswerAgrees, AnswerComes, MenuRight, NewestOpen, ResetClosed,
     ConsoleInv, SessionInv
<1>3. ViewAgrees'
  BY <1>1 DEF ViewAgrees, Agree, StoreAgrees
<1> QED BY <1>2, <1>3 DEF SessionInv

(* What a call returns leaves the console in agreement with the server.       *)
LEMMA ContinueKeepsSession ==
    ASSUME ConsoleInv, NEW s, NEW reply, Continue(s, reply), connected_, waiting' = FALSE,
           s.op \in Ops, s.op \notin GuestOps => authenticated_,
           UNCHANGED <<connected_, conn, broken, serverOpen, clients_, users_>>,
           Agree(AuthAfter(s, reply), UserAfter(s, reply))
    PROVE  SessionInv'
<1>1. authenticated_ \in BOOLEAN /\ s.op \notin Prompts
  BY DEF ConsoleInv, FieldsOK, Ops, Prompts, Success
<1>2. /\ authenticated_' = AuthAfter(s, reply) /\ currentUser_' = UserAfter(s, reply)
      /\ at'.op = OpAfter(s, reply)
  BY DEF Continue, Menu
<1>3. MenuRight'
  <2>1. at'.op \in Prompts /\ at'.op \notin GuestOps
    BY <1>2 DEF OpAfter, Prompts, GuestOps
  <2>2. at'.op # "menu" => s.op \notin GuestOps \cup {"LOGOUT_REQUEST"}
    BY <1>2 DEF OpAfter, Done, GuestOps
  <2>3. at'.op # "menu" => authenticated_'
    BY <1>1, <1>2, <2>2 DEF AuthAfter
  <2> QED BY <2>1, <2>3 DEF MenuRight
<1>4. NewestOpen' /\ RequestMatches' /\ ResetClosed' /\ AnswerAgrees' /\ AnswerComes'
  BY DEF ConsoleInv, SessionInv, NewestOpen, RequestMatches, ResetClosed, AnswerAgrees, AnswerComes
<1>5. ViewAgrees'
  BY <1>2 DEF ViewAgrees, Agree
<1> QED BY <1>3, <1>4, <1>5 DEF SessionInv

(* An operation that its caller may start asks what it should; when the call *)
(* fails at once, the server has closed the connection.                      *)
LEMMA AskKeepsSession ==
    ASSUME ConsoleInv, lossless', NEW op \in Ops, NEW arg, NEW parts, NEW fits \in BOOLEAN,
           Ask(op, arg, parts, fits),
           op \in GuestOps => ~authenticated_,
           op \notin GuestOps => authenticated_,
           op = "LOGIN_REQUEST" /\ parts # << >> => parts[1] = NameRead(arg),
           op = "SET_LEVEL_REQUEST" => parts = <<arg>>
    PROVE  SessionInv'
<1> DEFINE s == [op |-> op, arg |-> arg, fits |-> fits]
           r == [message |-> [type |-> op, parts |-> IF fits THEN parts ELSE << >>],
                 fits |-> fits]
<1>1. Says(r, s)
  BY DEF Says
<1>2. CASE Call(op, parts, fits) /\ at' = s /\ UNCHANGED <<running_, authenticated_, currentUser_>>
  <2>1. /\ Send /\ UNCHANGED <<users_, clients_>>
        /\ request' = IF alive' THEN H!Put(request, Current, r) ELSE request
    BY <1>2 DEF Call, store
  <2>2. /\ connected_ /\ ~waiting
        /\ UNCHANGED <<connected_, results, conn, serverOpen, executed, broken>>
        /\ IF broken THEN UNCHANGED waiting
           ELSE alive' /\ up' = [up EXCEPT ![conn] = Append(@, Current)]
    BY <2>1 DEF Send, LinkInv, OrderInv, ClientTypeOK, FlagsOK, ConsoleInv
  <2>3. /\ Current' = Current /\ conn \in Conns /\ up \in [Conns -> Seq(Calls)]
        /\ (waiting' => executed[Current] = 0)
    <3>1. waiting' => Current \in Calls
      BY <2>1, PromptTypes, ClientAssumption DEF Send, Calls, ConsoleInv
    <3>2. Begun = Len(results) /\ Current > Begun
      BY <2>2, PromptTypes DEF ConsoleInv, Begun
    <3> QED BY <2>2, <3>1, <3>2, PromptTypes DEF Current, ConsoleInv, PromptInv, CarriedOnce
  <2> HIDE DEF r
  <2>4. MenuRight' /\ NewestOpen' /\ ResetClosed'
    BY <1>2, <2>2 DEF ConsoleInv, SessionInv, MenuRight, NewestOpen, ResetClosed, Ops, Success
  <2>5. RequestMatches'
    <3> SUFFICES ASSUME waiting', Current \in DOMAIN request' PROVE Says(request'[Current], s)
      BY <1>2, <2>3 DEF RequestMatches
    <3>1. alive'
      BY <2>1, <2>2 DEF Send
    <3>2. request'[Current] = r
      BY <2>1, <3>1 DEF H!Put
    <3> QED BY <1>1, <3>2
  <2>6. ViewAgrees'
    <3>1. Agree(authenticated_, currentUser_)
      BY <2>2 DEF ConsoleInv, SessionInv, ViewAgrees, Undone
    <3> QED BY <1>2, <2>1, <2>2, <3>1 DEF ViewAgrees, Agree
  <2>7. AnswerAgrees' /\ AnswerComes'
    <3>1. waiting' => executed'[Current'] = 0
      BY <2>2, <2>3
    <3>2. waiting' => up'[conn'] # << >>
      <4>1. CASE broken
        BY <2>2, <4>1
      <4>2. CASE ~broken
        <5>1. up'[conn] = Append(up[conn], Current) /\ up[conn] \in Seq(Calls)
          BY <2>2, <2>3, <4>2
        <5>2. Append(up[conn], Current) # << >>
          BY <5>1
        <5> QED BY <2>2, <5>1, <5>2
      <4> QED BY <4>1, <4>2
    <3> QED BY <3>1, <3>2 DEF AnswerAgrees, AnswerComes
  <2> QED BY <2>4, <2>5, <2>6, <2>7 DEF SessionInv
<1>3. CASE CallFails /\ Continue(s, NoReply)
  <2>1. /\ connected_ /\ ~waiting /\ waiting' = FALSE /\ broken
        /\ UNCHANGED <<connected_, conn, broken, serverOpen, clients_, users_>>
    BY <1>3 DEF CallFails, SendFails, Finish, remote, store
  <2>2. ~serverOpen[conn] /\ Agree(authenticated_, currentUser_) /\ authenticated_ \in BOOLEAN
    BY <2>1 DEF ConsoleInv, SessionInv, ResetClosed, ViewAgrees, Undone, FieldsOK
  <2>3. s.op = op
    OBVIOUS
  <2> HIDE DEF s
  <2>4. Agree(AuthAfter(s, NoReply), UserAfter(s, NoReply))
    BY <2>2, NoEffectOfFailure
  <2> QED BY <1>3, <2>1, <2>3, <2>4, ContinueKeepsSession
<1> QED BY <1>2, <1>3 DEF Ask

LEMMA UserKeepsSession ==
    ASSUME ConsoleInv, lossless', User
    PROVE  SessionInv'
<1>1. ASSUME NEW op \in Ops \ (GuestOps \cup {"SET_LEVEL_REQUEST"}), NEW parts,
             NEW fits \in BOOLEAN, Ask(op, "", parts, fits), authenticated_
      PROVE  SessionInv'
  BY <1>1, AskKeepsSession DEF GuestOps
<1>2. CASE registerUser
  <2>1. PICK fits \in BOOLEAN : \E parts : Ask("REGISTER_REQUEST", "", parts, fits)
    BY <1>2 DEF registerUser
  <2>2. "REGISTER_REQUEST" \in Ops /\ ~authenticated_
    BY <1>2 DEF registerUser, Guest, Ops, Success
  <2> QED BY <2>1, <2>2, AskKeepsSession DEF GuestOps
<1>3. CASE login
  <2>1. PICK fits \in BOOLEAN : \E a, parts :
           /\ Ask("LOGIN_REQUEST", a, parts, fits)
           /\ parts # << >> => parts[1] = NameRead(a)
    <3>1. CASE \E a \in Accounts : Ask("LOGIN_REQUEST", a[1], LoginRead(a), TRUE)
      <4>1. PICK a \in Accounts : Ask("LOGIN_REQUEST", a[1], LoginRead(a), TRUE)
        BY <3>1
      <4>2. LoginRead(a) # << >> => LoginRead(a)[1] = NameRead(a[1])
        BY AccountsAssumption
      <4> QED BY <4>1, <4>2
    <3>2. CASE \E fits \in BOOLEAN : Ask("LOGIN_REQUEST", "", << >>, fits)
      BY <3>2
    <3> QED BY <1>3, <3>1, <3>2 DEF login
  <2>2. "LOGIN_REQUEST" \in Ops /\ ~authenticated_
    BY <1>3 DEF login, Guest, Ops, Success
  <2> QED BY <2>1, <2>2, AskKeepsSession DEF GuestOps
<1>4. CASE setLevel
  <2>1. PICK l \in H!Levels : Ask("SET_LEVEL_REQUEST", l, <<l>>, TRUE)
    BY <1>4 DEF setLevel
  <2>2. "SET_LEVEL_REQUEST" \in Ops /\ authenticated_
    BY <1>4 DEF setLevel, studentMenu, Role, Ops, Success
  <2> QED BY <2>1, <2>2, AskKeepsSession DEF GuestOps
<1>5. studentMenu \/ teacherMenu \/ adminMenu => authenticated_
  BY DEF studentMenu, teacherMenu, adminMenu, Role
<1>6. Idle("chooseLesson") \/ Idle("enterMove") \/ Idle("fetchFeedback") => authenticated_
  BY DEF Idle, GuestOps, ConsoleInv, SessionInv, MenuRight
<1>7. Ops \ (GuestOps \cup {"SET_LEVEL_REQUEST"}) =
         {"LOGOUT_REQUEST", "GET_LESSON_LIST_REQUEST", "GET_LESSON_CONTENT_REQUEST",
          "SUBMIT_QUIZ_REQUEST", "SUBMIT_EXERCISE_REQUEST", "GAME_START_REQUEST",
          "GAME_MOVE_REQUEST", "CHAT_MESSAGE", "VOICE_CALL_REQUEST", "GET_SCORE_REQUEST",
          "GET_FEEDBACK_REQUEST", "HEARTBEAT_REQUEST", "SEND_FEEDBACK_REQUEST",
          "ADD_GAME_ITEM_REQUEST"}
  BY DEF Ops, Success, GuestOps
<1>8. CASE logout \/ browseLessons \/ chooseLesson \/ submitQuiz \/ playGame \/ enterMove
  BY <1>1, <1>5, <1>6, <1>7, <1>8
     DEF logout, browseLessons, chooseLesson, submitQuiz, playGame, enterMove
<1>9. CASE chat \/ chatWithStudent \/ viewScoreAndFeedback \/ fetchFeedback \/ addGameContent
  BY <1>1, <1>5, <1>6, <1>7, <1>9
     DEF chat, chatWithStudent, Chat, viewScoreAndFeedback, fetchFeedback, addGameContent
<1>10. CASE submitExercise \/ provideFeedback
  BY <1>1, <1>5, <1>7, <1>10 DEF submitExercise, provideFeedback
<1> QED BY <1>2, <1>3, <1>4, <1>8, <1>9, <1>10, ConnectKeepsSession, ExitKeepsSession,
           DisconnectKeepsSession DEF User

(* The operation in progress while a call is under way. *)
LEMMA WaitingOp ==
    ASSUME ConsoleInv, waiting
    PROVE  connected_ /\ at.op \in Ops /\ (at.op \notin GuestOps => authenticated_)
BY PromptTypes DEF ConsoleInv, FieldsOK, Sound, At, SessionInv, MenuRight, Prompts

LEMMA ReceiveKeepsSession ==
    ASSUME ConsoleInv, Receive
    PROVE  SessionInv'
<1>1. CASE waiting'
  BY <1>1, WaitingKeepsSession DEF Receive
<1>2. CASE ~waiting'
  <2>1. PICK n \in 1..Len(down), garbled \in BOOLEAN : Poll(n, garbled)
    BY DEF Receive, LinkPoll
  <2>2. /\ waiting /\ Finish(Current) /\ Arriving(Current) /\ executed[Current] = 1
        /\ UNCHANGED <<connected_, conn, serverOpen, broken>>
    BY <1>2, <2>1, PollOutcomes DEF ConsoleInv
  <2>3. waiting' = FALSE /\ Last(results').answer = Current
    <3>1. results \in Seq(Result)
      BY DEF ConsoleInv, PromptInv, OrderInv, ClientTypeOK, QueuesOK
    <3>2. \A r : Last(Append(results, r)) = r
      BY <3>1 DEF Last
    <3> QED BY <2>2, <3>2 DEF Finish
  <2>4. Current \in DOMAIN answer
    BY <2>2, ArrivingAnswer DEF ConsoleInv
  <2>5. PICK reply : reply = answer[Current]
    OBVIOUS
  <2>6. Continue(at, reply)
    BY <1>2, <2>3, <2>4, <2>5 DEF Receive, Returns
  <2>7. Agree(AuthAfter(at, reply), UserAfter(at, reply))
    BY <2>2, <2>4, <2>5 DEF ConsoleInv, SessionInv, AnswerAgrees
  <2>8. UNCHANGED <<clients_, users_>>
    BY DEF Receive, LinkPoll, store
  <2>9. PICK s : s = at
    OBVIOUS
  <2>10. connected_ /\ s.op \in Ops /\ (s.op \notin GuestOps => authenticated_)
    BY <2>2, <2>9, WaitingOp DEF ConsoleInv, SessionInv
  <2>11. Continue(s, reply) /\ Agree(AuthAfter(s, reply), UserAfter(s, reply))
    BY <2>6, <2>7, <2>9
  <2> QED BY <2>2, <2>3, <2>8, <2>10, <2>11, ContinueKeepsSession
<1> QED BY <1>1, <1>2

LEMMA GiveUpKeepsSession ==
    ASSUME ConsoleInv, orderly', GiveUp
    PROVE  SessionInv'
<1>1. /\ waiting /\ waiting' = FALSE /\ Continue(at, NoReply) /\ NoAnswerComing
      /\ UNCHANGED <<connected_, conn, broken, serverOpen, clients_, users_>>
  BY DEF GiveUp, LinkTimeOut, TimeOut, Finish, remote, store
<1>2. Agree(authenticated_, currentUser_) /\ (at.op = "LOGOUT_REQUEST" => ~serverOpen[conn])
  <2>1. ~Arriving(Current)
    BY <1>1 DEF NoAnswerComing, Arriving, Response
  <2>2. executed[Current] = 0 \/ executed[Current] = 1
    BY <1>1, PromptTypes DEF ConsoleInv, PromptInv, CarriedOnce
  <2>3. executed[Current] = 0 \/ at.op \in UnsureOps
    BY <1>1, <2>1, <2>2 DEF ConsoleInv, SessionInv, AnswerComes, MayNotFit
  <2>4. Agree(authenticated_, currentUser_)
    BY <2>3 DEF ConsoleInv, SessionInv, ViewAgrees, Undone
  <2>5. at.op = "LOGOUT_REQUEST" => ~serverOpen[conn]
    BY <1>1, <2>3 DEF ConsoleInv, SessionInv, AnswerComes, NoAnswerComing, FieldsOK, Sound,
       UnsureOps
  <2> QED BY <2>4, <2>5
<1>3. PICK s : s = at
  OBVIOUS
<1>4. connected_ /\ s.op \in Ops /\ (s.op \notin GuestOps => authenticated_)
  BY <1>1, <1>3, WaitingOp DEF ConsoleInv, SessionInv
<1>5. Agree(AuthAfter(s, NoReply), UserAfter(s, NoReply))
  BY <1>2, <1>3, NoEffectOfFailure DEF ConsoleInv, FieldsOK
<1>6. Continue(s, NoReply)
  BY <1>1, <1>3
<1> QED BY <1>1, <1>4, <1>5, <1>6, ContinueKeepsSession

(* While all is orderly and no request is lost, all this stays true.         *)
LEMMA ConsoleKeepsInv ==
    ASSUME ConsoleInv, orderly', lossless', [Next]_vars
    PROVE  ConsoleInv'
<1>1. PromptInv' /\ LinkInv' /\ FieldsOK'
  BY ConsoleSteps, OrderlySteps, ConsoleIsFrontEnd, LinkKeepsInv, NextKeepsFields DEF ConsoleInv
<1>2. ASSUME Remote /\ UNCHANGED consoleVars PROVE SessionInv'
  <2>1. \A c \in Conns : ~LinkMisread(c)
    BY <1>1 DEF LinkMisread, Misread, PromptInv
  <2> QED BY <1>1, <1>2, <2>1, ServeKeepsSession, DropKeepsSession, LoseKeepsSession,
             CloseKeepsSession, ResetKeepsSession DEF Remote
<1>3. SessionInv'
  BY <1>2, UserKeepsSession, ReceiveKeepsSession, GiveUpKeepsSession, StutterKeepsSession DEF Next
<1> QED BY <1>1, <1>3 DEF ConsoleInv

LEMMA ConsoleStarts == Init => ConsoleInv
<1> SUFFICES ASSUME Init PROVE ConsoleInv
  OBVIOUS
<1>1. LinkInv /\ FieldsOK /\ PromptInv
  BY InitTyped, InitPrompt DEF Init, LinkInit
<1>2. ~authenticated_ /\ at.op = "menu" /\ ~waiting /\ ~connected_ /\ \A c \in Conns : ~serverOpen[c]
  BY DEF Init, LinkInit, ClientInit, Menu
<1>3. SessionInv
  BY <1>2 DEF SessionInv, MenuRight, NewestOpen, RequestMatches, ResetClosed, ViewAgrees, Agree,
     StoreAgrees, AnswerAgrees, AnswerComes, GuestOps
<1> QED BY <1>1, <1>3 DEF ConsoleInv

(* After a mishap only the types are left.                                   *)
Invariant == LinkInv /\ FieldsOK /\ (orderly /\ lossless => ConsoleInv)

LEMMA StepsBefore ==
    ASSUME Invariant, [Next]_vars, orderly', lossless'
    PROVE  ConsoleInv /\ ConsoleInv'
<1>1. OrderInv /\ [ClientNext]_clientVars
  BY ConsoleSteps DEF Invariant, LinkInv
<1>2. orderly /\ lossless
  BY <1>1, OrderlyBefore, LosslessBefore
<1> QED BY <1>2, ConsoleKeepsInv DEF Invariant

LEMMA ConsoleInvariance == Spec => []Invariant
<1>1. Init => Invariant
  BY ConsoleStarts DEF Invariant, ConsoleInv
<1>2. Invariant /\ [Next]_vars => Invariant'
  BY ConsoleIsFrontEnd, LinkKeepsInv, NextKeepsFields, StepsBefore DEF Invariant
<1> QED BY <1>1, <1>2, PTL DEF Spec

(* As long as all is orderly and no request is lost, whoever the console      *)
(* greets is the user the server would act for.                               *)
THEOREM ConsoleMenuMatches == Spec => []MenuMatchesServer
<1>1. Invariant => MenuMatchesServer
  BY DEF Invariant, ConsoleInv, SessionInv, ViewAgrees, Undone, Agree, HandlerAgrees,
     MenuMatchesServer
<1> QED BY <1>1, ConsoleInvariance, PTL

(* Under the same condition the level and the score on the dashboard are      *)
(* those of the store.                                                        *)
THEOREM ConsoleDashboardCurrent == Spec => []DashboardCurrent
<1>1. Invariant => DashboardCurrent
  BY DEF Invariant, ConsoleInv, SessionInv, ViewAgrees, Undone, Agree, StoreAgrees,
     DashboardCurrent
<1> QED BY <1>1, ConsoleInvariance, PTL

(* As long as all is orderly, no request is lost and the server keeps the     *)
(* connection open, a call returns the answer to its own request, if request  *)
(* and response fit the framing: one line, of 8192 bytes at most.             *)
THEOREM ConsoleReturnsAnswers == Spec => ReturnsAnswers
<1>1. ASSUME Invariant, [Next]_vars PROVE [AnswerStep]_vars
  <2> SUFFICES ASSUME orderly', lossless', waiting, ~waiting', serverOpen[conn], Answerable, Next
               PROVE  Last(results').answer = Current
    BY <1>1 DEF AnswerStep, vars, linkVars, clientVars, local
  <2>1. ConsoleInv
    BY <1>1, StepsBefore
  <2>2. Receive \/ GiveUp
    <3>1. ~User
      BY DEF User, connectToServer, exit, disconnect, registerUser, login, logout, setLevel,
         browseLessons, chooseLesson, submitQuiz, submitExercise, playGame, enterMove, chat,
         chatWithStudent, Chat, viewScoreAndFeedback, fetchFeedback, provideFeedback,
         addGameContent, Ask, Call, CallFails, Send, SendFails, LinkConnect, Connect,
         LinkDisconnect, Disconnect, linkVars, clientVars, local
    <3>2. ~Remote
      BY DEF Remote, LinkServe, Serve, LinkMisread, Misread, LinkDrop, Drop, LinkLose, Lose,
         LinkClose, ServerClose, LinkReset, Reset, local
    <3> QED BY <3>1, <3>2 DEF Next
  <2>3. CASE Receive
    <3>1. PICK n \in 1..Len(down), garbled \in BOOLEAN : Poll(n, garbled)
      BY <2>3 DEF Receive, LinkPoll
    <3>2. Finish(Current)
      BY <2>1, <3>1, PollOutcomes DEF ConsoleInv
    <3>3. results \in Seq(Result)
      BY <2>1 DEF ConsoleInv, PromptInv, OrderInv, ClientTypeOK, QueuesOK
    <3>4. \A r : Last(Append(results, r)) = r
      BY <3>3 DEF Last
    <3> QED BY <3>2, <3>4 DEF Finish
  <2>4. CASE GiveUp
    <3>1. down = << >> /\ up[conn] = << >>
      BY <2>4 DEF GiveUp, LinkTimeOut, TimeOut, NoAnswerComing
    <3>2. ~Arriving(Current)
      BY <3>1 DEF Arriving, Response
    <3>3. executed[Current] = 0 \/ executed[Current] = 1
      BY <2>1, PromptTypes DEF ConsoleInv, PromptInv, CarriedOnce
    <3> QED BY <2>1, <3>1, <3>2, <3>3
            DEF ConsoleInv, SessionInv, AnswerComes, MayNotFit, Answerable
  <2> QED BY <2>2, <2>3, <2>4
<1> QED BY <1>1, ConsoleInvariance, PTL DEF Spec, ReturnsAnswers

(* As long as all is orderly and no request is lost, the server sees logins   *)
(* only where nobody is logged in: what the theorems about SoloSpec say holds *)
(* of a server with this console.                                             *)
THEOREM ConsoleLogsInAlone == Spec => ImplementsSolo
<1>1. Init => H!Init
  BY DEF Init, LinkInit
<1>2. ASSUME Invariant, [Next]_vars PROVE [orderly' /\ lossless' => [H!SoloNext]_store]_linkVars
  <2> SUFFICES ASSUME orderly', lossless' PROVE [H!SoloNext]_store
    OBVIOUS
  <2>1. ConsoleInv /\ ConsoleInv' /\ [LinkNext]_linkVars
    BY <1>2, StepsBefore, ConsoleIsFrontEnd
  <2>2. LoginByGuest
    <3> SUFFICES ASSUME waiting, connected_, serverOpen[conn], executed[Current] = 0,
                        Current \in DOMAIN request,
                        request[Current].message.type = "LOGIN_REQUEST"
                 PROVE  ~clients_[conn].authenticated
      BY DEF LoginByGuest
    <3>1. Agree(authenticated_, currentUser_)
      BY <2>1 DEF ConsoleInv, SessionInv, ViewAgrees, Undone
    <3> QED BY <2>1, <3>1 DEF Agree, HandlerAgrees, Says, ConsoleInv, SessionInv, RequestMatches,
                MenuRight, GuestOps
  <2> QED BY <2>1, <2>2, LinkStepsSolo DEF ConsoleInv, SessionInv
<1> QED BY <1>1, <1>2, ConsoleInvariance, PTL DEF Spec, ImplementsSolo
=============================================================================
