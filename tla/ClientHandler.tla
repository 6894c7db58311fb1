--------------------------- MODULE ClientHandler ---------------------------
(***************************************************************************)
(* The request handlers (ClientHandler.cpp) over the store, one handler    *)
(* object per connection.  Server::processMessage runs a handler from      *)
(* parsing to sendMessage under clientsMutex_, so one request is one step. *)
(***************************************************************************)
EXTENDS Database

CONSTANTS
    Requests,     \* the requests clients send
    MaxScore,     \* bound on a user's score
    MaxFeedback,  \* bound on the feedback entries of a user
    MaxItems      \* bound on the items of a game type

(* A request is its type and its payload split at '|', already parsed;       *)
(* << >> stands for every payload the handler's parser rejects.              *)
Message(type, payloads) == [type : {type}, parts : payloads]

Messages ==
    UNION {
      Message("REGISTER_REQUEST", (Usernames \X Passwords \X Roles) \cup {<< >>}),
      Message("LOGIN_REQUEST", (Usernames \X Passwords) \cup {<< >>}),
      Message("SET_LEVEL_REQUEST", {<<l>> : l \in Levels} \cup {<< >>}),
      Message("SUBMIT_QUIZ_REQUEST", {<<"id", "answers">>, << >>}),
      Message("SUBMIT_EXERCISE_REQUEST", {<<"id", "content">>, << >>}),
      Message("SEND_FEEDBACK_REQUEST", {<<u>> : u \in Usernames} \cup {<< >>}),
      Message("ADD_GAME_ITEM_REQUEST", {<<g>> : g \in GameTypes} \cup {<< >>}),
      Message("CHAT_MESSAGE", {<<"recipient", "text">>, << >>}),
      [type : {"LOGOUT_REQUEST", "GET_LESSON_LIST_REQUEST",
               "GET_LESSON_CONTENT_REQUEST", "GAME_START_REQUEST",
               "GAME_MOVE_REQUEST", "GET_SCORE_REQUEST", "GET_FEEDBACK_REQUEST",
               "VOICE_CALL_REQUEST", "HEARTBEAT_REQUEST", "OTHER_TYPE"},
       parts : {<< >>}] }

ASSUME RequestsAssumption == Requests \subseteq Messages
ASSUME BoundsAssumption == {MaxScore, MaxFeedback, MaxItems} \subseteq Nat

VARIABLES
    clients_,  \* Server::clients_: socket -> the fields of its ClientHandler
    response   \* the last response sent: addressee, message type, error code

vars == <<dbVars, clients_, response>>

Handler == [authenticated : BOOLEAN, username : Usernames \cup {""},
            role : Roles, level : Levels]

(* What the handlers answer with, and the error codes such an answer carries. *)
ResponseTypes ==
    {"ERROR_MESSAGE", "REGISTER_SUCCESS", "REGISTER_FAILED", "LOGIN_SUCCESS",
     "LOGIN_FAILED", "LOGOUT_SUCCESS", "SET_LEVEL_SUCCESS", "SET_LEVEL_FAILED",
     "GET_LESSON_LIST_RESPONSE", "GET_LESSON_CONTENT_RESPONSE",
     "SUBMIT_QUIZ_RESPONSE", "SUBMIT_EXERCISE_RESPONSE", "GAME_START_RESPONSE",
     "GAME_MOVE_RESPONSE", "GET_SCORE_RESPONSE", "GET_FEEDBACK_RESPONSE",
     "SEND_FEEDBACK_SUCCESS", "CHAT_MESSAGE_ACK", "VOICE_CALL_ACCEPT",
     "ADD_GAME_ITEM_SUCCESS", "ADD_GAME_ITEM_FAILED", "HEARTBEAT_RESPONSE"}

ErrorCodes ==
    {"SUCCESS", "INVALID_FORMAT", "INVALID_CREDENTIALS", "USER_ALREADY_EXISTS",
     "NOT_AUTHENTICATED", "PERMISSION_DENIED", "DATABASE_ERROR", "INVALID_PARAMETER"}

NoResponse == [to |-> "", type |-> "", code |-> ""]  \* before the first response

Response == [to : Sockets, type : ResponseTypes, code : ErrorCodes]

TypeOK ==
    /\ DbTypeOK
    /\ IsMap(clients_, Sockets, Handler)
    /\ response \in Response \cup {NoResponse}

(* The constructor's fields. *)
NewHandler ==
    [authenticated |-> FALSE, username |-> "", role |-> "STUDENT", level |-> "BEGINNER"]

Init == initialize /\ clients_ = << >> /\ response = NoResponse

Send(s, type, code) == response' = [to |-> s, type |-> type, code |-> code]

(* A handler that changes nothing but answers. *)
Answer(s, type)       == Send(s, type, "SUCCESS") /\ UNCHANGED <<dbVars, clients_>>
Refuse(s, type, code) == Send(s, type, code) /\ UNCHANGED <<dbVars, clients_>>

(* The answer that depends on what the store returned. *)
Report(s, ok, type, failure) ==
    IF ok THEN Send(s, type, "SUCCESS") ELSE Send(s, failure, "DATABASE_ERROR")

Malformed(m) == m.parts = << >>
User(s)      == clients_[s].username
-----------------------------------------------------------------------------
(* Fault for OwnProgressOnly: a name is registered again.                    *)
handleRegisterAgain(s, m) ==
    /\ ~Malformed(m)
    /\ users_' = Put(users_, m.parts[1], NewUser(m.parts[2], m.parts[3]))
    /\ Send(s, "REGISTER_SUCCESS", "SUCCESS")
    /\ UNCHANGED <<sessions_, socketToUser_, feedbacks_, gameItems_, clients_>>

handleRegisterRequest(s, m) ==
    \/ Malformed(m) /\ Refuse(s, "ERROR_MESSAGE", "INVALID_FORMAT")
    \/ /\ ~Malformed(m)
       /\ userExists(m.parts[1])
       /\ Refuse(s, "REGISTER_FAILED", "USER_ALREADY_EXISTS")
    \/ /\ ~Malformed(m)
       /\ ~userExists(m.parts[1])
       /\ createUser(m.parts[1], m.parts[2], m.parts[3])
       /\ Report(s, createUserReturns(m.parts[1]), "REGISTER_SUCCESS", "ERROR_MESSAGE")
       /\ UNCHANGED <<sessions_, socketToUser_, feedbacks_, gameItems_, clients_>>

(* Fault for RolesCoherent and GameItemsByAdmin: role_ is not refreshed once *)
(* it was set by an earlier login.                                           *)
handleLoginKeepingRole(s, m) ==
    /\ ~Malformed(m)
    /\ authenticateUser(m.parts[1], m.parts[2])
    /\ clients_' = [clients_ EXCEPT ![s] =
           [authenticated |-> TRUE, username |-> m.parts[1],
            role |-> IF @.role # "STUDENT" THEN @.role ELSE users_[m.parts[1]].role,
            level |-> users_[m.parts[1]].level]]
    /\ createSession(m.parts[1], s)
    /\ Send(s, "LOGIN_SUCCESS", "SUCCESS")
    /\ UNCHANGED <<users_, feedbacks_, gameItems_>>

(* Fault for LevelsCoherent: the account's level is not loaded.              *)
handleLoginKeepingLevel(s, m) ==
    /\ ~Malformed(m)
    /\ authenticateUser(m.parts[1], m.parts[2])
    /\ clients_' = [clients_ EXCEPT ![s].authenticated = TRUE,
           ![s].username = m.parts[1], ![s].role = users_[m.parts[1]].role]
    /\ createSession(m.parts[1], s)
    /\ Send(s, "LOGIN_SUCCESS", "SUCCESS")
    /\ UNCHANGED <<users_, feedbacks_, gameItems_>>

(* Nothing here looks at authenticated_: a login on an authenticated         *)
(* connection replaces the user, and leaves the earlier user's session.      *)
handleLoginRequest(s, m) ==
    \/ Malformed(m) /\ Refuse(s, "ERROR_MESSAGE", "INVALID_FORMAT")
    \/ /\ ~Malformed(m)
       /\ ~authenticateUser(m.parts[1], m.parts[2])
       /\ Refuse(s, "LOGIN_FAILED", "INVALID_CREDENTIALS")
    \/ /\ ~Malformed(m)
       /\ authenticateUser(m.parts[1], m.parts[2])
       /\ Report(s, getUserDataReturns(m.parts[1]), "LOGIN_SUCCESS", "ERROR_MESSAGE")
       /\ IF getUserDataReturns(m.parts[1])
          THEN /\ clients_' = [clients_ EXCEPT ![s] =
                      [authenticated |-> TRUE, username |-> m.parts[1],
                       role |-> users_[m.parts[1]].role, level |-> users_[m.parts[1]].level]]
               /\ createSession(m.parts[1], s)
          ELSE UNCHANGED <<clients_, sessions_, socketToUser_>>
       /\ UNCHANGED <<users_, feedbacks_, gameItems_>>

(* Fault for SessionsLive: the session outlives the login.                   *)
handleLogoutKeepingSession(s) ==
    /\ clients_' = [clients_ EXCEPT ![s].authenticated = FALSE, ![s].username = ""]
    /\ Send(s, "LOGOUT_SUCCESS", "SUCCESS")
    /\ UNCHANGED dbVars

(* role_ and level_ keep their values. *)
handleLogoutRequest(s) ==
    /\ removeSession(User(s))
    /\ clients_' = [clients_ EXCEPT ![s].authenticated = FALSE, ![s].username = ""]
    /\ Send(s, "LOGOUT_SUCCESS", "SUCCESS")
    /\ UNCHANGED <<users_, feedbacks_, gameItems_>>

handleSetLevelRequest(s, m) ==
    \/ Malformed(m) /\ Refuse(s, "ERROR_MESSAGE", "INVALID_PARAMETER")
    \/ /\ ~Malformed(m)
       /\ updateUserLevel(User(s), m.parts[1])
       /\ clients_' = IF userExists(User(s))
                      THEN [clients_ EXCEPT ![s].level = m.parts[1]] ELSE clients_
       /\ Report(s, userExists(User(s)), "SET_LEVEL_SUCCESS", "SET_LEVEL_FAILED")
       /\ UNCHANGED <<sessions_, socketToUser_, feedbacks_, gameItems_>>

(* Quiz and exercise submissions differ in the points and the answer's type; *)
(* saveScore's result is ignored.                                            *)
Submit(s, m, points, type) ==
    \/ Malformed(m) /\ Refuse(s, "ERROR_MESSAGE", "INVALID_FORMAT")
    \/ /\ ~Malformed(m)
       /\ userExists(User(s)) => users_[User(s)].score + points <= MaxScore  \* bound
       /\ updateUserScore(User(s), points)
       /\ Send(s, type, "SUCCESS")
       /\ UNCHANGED <<sessions_, socketToUser_, feedbacks_, gameItems_, clients_>>

handleSubmitQuizRequest(s, m)     == Submit(s, m, 10, "SUBMIT_QUIZ_RESPONSE")
handleSubmitExerciseRequest(s, m) == Submit(s, m, 5, "SUBMIT_EXERCISE_RESPONSE")

handleGetLessonListRequest(s)    == Answer(s, "GET_LESSON_LIST_RESPONSE")
handleGetLessonContentRequest(s) == Answer(s, "GET_LESSON_CONTENT_RESPONSE")
handleGameStartRequest(s)        == Answer(s, "GAME_START_RESPONSE")
handleGameMoveRequest(s)         == Answer(s, "GAME_MOVE_RESPONSE")
handleGetFeedbackRequest(s)      == Answer(s, "GET_FEEDBACK_RESPONSE")
handleVoiceCallRequest(s)        == Answer(s, "VOICE_CALL_ACCEPT")
handleHeartbeatRequest(s)        == Answer(s, "HEARTBEAT_RESPONSE")

handleGetScoreRequest(s) ==
    /\ Report(s, userExists(User(s)), "GET_SCORE_RESPONSE", "ERROR_MESSAGE")
    /\ UNCHANGED <<dbVars, clients_>>

(* The role is the handler's copy, taken at login; the target need not exist. *)
handleSendFeedbackRequest(s, m) ==
    \/ /\ clients_[s].role \notin {"TEACHER", "ADMIN"}
       /\ Refuse(s, "ERROR_MESSAGE", "PERMISSION_DENIED")
    \/ /\ clients_[s].role \in {"TEACHER", "ADMIN"}
       /\ Malformed(m)
       /\ Refuse(s, "ERROR_MESSAGE", "INVALID_FORMAT")
    \/ /\ clients_[s].role \in {"TEACHER", "ADMIN"}
       /\ ~Malformed(m)
       /\ Len(feedbacks_[m.parts[1]]) < MaxFeedback  \* bound
       /\ saveFeedback(m.parts[1], User(s))
       /\ Report(s, saveFeedbackReturns, "SEND_FEEDBACK_SUCCESS", "ERROR_MESSAGE")
       /\ UNCHANGED <<users_, sessions_, socketToUser_, gameItems_, clients_>>

(* Nothing is forwarded to the recipient: the text goes to the log.          *)
handleChatMessage(s, m) ==
    \/ Malformed(m) /\ Refuse(s, "ERROR_MESSAGE", "INVALID_FORMAT")
    \/ ~Malformed(m) /\ Answer(s, "CHAT_MESSAGE_ACK")

handleAddGameItemRequest(s, m) ==
    \/ /\ clients_[s].role # "ADMIN"
       /\ Refuse(s, "ADD_GAME_ITEM_FAILED", "PERMISSION_DENIED")
    \/ /\ clients_[s].role = "ADMIN"
       /\ Malformed(m)
       /\ Refuse(s, "ADD_GAME_ITEM_FAILED", "INVALID_FORMAT")
    \/ /\ clients_[s].role = "ADMIN"
       /\ ~Malformed(m)
       /\ gameItems_[m.parts[1]] < MaxItems  \* bound
       /\ addGameItem(m.parts[1])
       /\ Report(s, addGameItemReturns, "ADD_GAME_ITEM_SUCCESS", "ADD_GAME_ITEM_FAILED")
       /\ UNCHANGED <<users_, sessions_, socketToUser_, feedbacks_, clients_>>
-----------------------------------------------------------------------------
(* The handlers that need no login; every other one starts with the test of  *)
(* authenticated_.                                                           *)
Open == {"REGISTER_REQUEST", "LOGIN_REQUEST", "HEARTBEAT_REQUEST", "OTHER_TYPE"}

RefuseGuest(s, m) ==
    /\ m.type \notin Open
    /\ ~clients_[s].authenticated
    /\ Refuse(s, "ERROR_MESSAGE", "NOT_AUTHENTICATED")

(* Fault for FeedbackFromStaff: no test of authenticated_.                   *)
AllowedAnyone(s, m, type) == m.type = type

Allowed(s, m, type) == m.type = type /\ (type \in Open \/ clients_[s].authenticated)

processMessage(s, m) ==
    \/ RefuseGuest(s, m)
    \/ Allowed(s, m, "REGISTER_REQUEST") /\ handleRegisterRequest(s, m)
    \/ Allowed(s, m, "LOGIN_REQUEST") /\ handleLoginRequest(s, m)
    \/ Allowed(s, m, "LOGOUT_REQUEST") /\ handleLogoutRequest(s)
    \/ Allowed(s, m, "SET_LEVEL_REQUEST") /\ handleSetLevelRequest(s, m)
    \/ Allowed(s, m, "GET_LESSON_LIST_REQUEST") /\ handleGetLessonListRequest(s)
    \/ Allowed(s, m, "GET_LESSON_CONTENT_REQUEST") /\ handleGetLessonContentRequest(s)
    \/ Allowed(s, m, "SUBMIT_QUIZ_REQUEST") /\ handleSubmitQuizRequest(s, m)
    \/ Allowed(s, m, "SUBMIT_EXERCISE_REQUEST") /\ handleSubmitExerciseRequest(s, m)
    \/ Allowed(s, m, "GAME_START_REQUEST") /\ handleGameStartRequest(s)
    \/ Allowed(s, m, "GAME_MOVE_REQUEST") /\ handleGameMoveRequest(s)
    \/ Allowed(s, m, "GET_SCORE_REQUEST") /\ handleGetScoreRequest(s)
    \/ Allowed(s, m, "GET_FEEDBACK_REQUEST") /\ handleGetFeedbackRequest(s)
    \/ Allowed(s, m, "SEND_FEEDBACK_REQUEST") /\ handleSendFeedbackRequest(s, m)
    \/ Allowed(s, m, "CHAT_MESSAGE") /\ handleChatMessage(s, m)
    \/ Allowed(s, m, "VOICE_CALL_REQUEST") /\ handleVoiceCallRequest(s)
    \/ Allowed(s, m, "ADD_GAME_ITEM_REQUEST") /\ handleAddGameItemRequest(s, m)
    \/ Allowed(s, m, "HEARTBEAT_REQUEST") /\ handleHeartbeatRequest(s)
    \/ Allowed(s, m, "OTHER_TYPE") /\ Refuse(s, "ERROR_MESSAGE", "INVALID_FORMAT")
-----------------------------------------------------------------------------
(* accept() hands out a descriptor no open connection has. *)
Connect(s) ==
    /\ s \notin DOMAIN clients_
    /\ clients_' = Put(clients_, s, NewHandler)
    /\ UNCHANGED <<dbVars, response>>

(* Fault for ImplementsPresence: the destructor forgets the session.         *)
DisconnectOnly(s) ==
    /\ clients_' = Erase(clients_, s)
    /\ UNCHANGED <<dbVars, response>>

(* ~ClientHandler, run by clients_.erase when the peer goes, the connection  *)
(* times out or the server stops.                                            *)
Disconnect(s) ==
    /\ clients_' = Erase(clients_, s)
    /\ IF clients_[s].authenticated
       THEN removeSession(User(s))
       ELSE UNCHANGED <<sessions_, socketToUser_>>
    /\ UNCHANGED <<users_, feedbacks_, gameItems_, response>>

Connections == (\E s \in Sockets : Connect(s)) \/ (\E s \in DOMAIN clients_ : Disconnect(s))

Next == Connections \/ (\E s \in DOMAIN clients_, m \in Requests : processMessage(s, m))

Spec == Init /\ [][Next]_vars

(* The same server when clients log in only where nobody is logged in yet:   *)
(* not on an authenticated connection, not as a user of another connection.  *)
LoggedIn(s, u) == clients_[s].authenticated /\ User(s) = u

OneLogin(s, m) ==
    m.type = "LOGIN_REQUEST" /\ ~Malformed(m) =>
        /\ ~clients_[s].authenticated
        /\ \A t \in DOMAIN clients_ : ~LoggedIn(t, m.parts[1])

SoloNext ==
    \/ Connections
    \/ \E s \in DOMAIN clients_, m \in Requests : OneLogin(s, m) /\ processMessage(s, m)

SoloSpec == Init /\ [][SoloNext]_vars
-----------------------------------------------------------------------------
Staff == {u \in DOMAIN users_ : users_[u].role \in {"TEACHER", "ADMIN"}}

(* Every logged-in handler names an account, and its private copy of the     *)
(* role (ClientHandler::role_, what the permission checks read) is the       *)
(* account's, whatever logins went before on the same connection.            *)
RolesCoherent ==
    \A s \in DOMAIN clients_ : clients_[s].authenticated =>
        /\ userExists(User(s))
        /\ clients_[s].role = users_[User(s)].role

(* All stored feedback was written by an account that is (still) a teacher's *)
(* or an admin's.                                                            *)
FeedbackFromStaff ==
    \A u \in Usernames : \A i \in DOMAIN feedbacks_[u] : feedbacks_[u][i] \in Staff

(* Accounts are never dropped and keep password and role; level and score of *)
(* an account change only in a step that answers a connection logged in as   *)
(* that account, and a score never goes down.                                *)
ProgressStep ==
    \A u \in DOMAIN users_ :
        /\ u \in DOMAIN users_'
        /\ users_'[u].passwordHash = users_[u].passwordHash
        /\ users_'[u].role = users_[u].role
        /\ users_'[u].score >= users_[u].score
        /\ users_'[u] # users_[u] => response' \in Response /\ LoggedIn(response'.to, u)

OwnProgressOnly == [][ProgressStep]_vars

(* Game items appear only in a step that answers a connection logged in as   *)
(* an account whose role, in the store, is ADMIN.                            *)
GameItemsStep ==
    gameItems_' # gameItems_ =>
        /\ response' \in Response
        /\ \E u \in DOMAIN users_ :
              users_[u].role = "ADMIN" /\ LoggedIn(response'.to, u)

GameItemsByAdmin == [][GameItemsStep]_vars

(* Documented of sessions ("created on login and removed on logout"): a user *)
(* with a session is logged in on the connection the session names.          *)
SessionsLive ==
    \A u \in DOMAIN sessions_ :
        /\ sessions_[u].socket \in DOMAIN clients_
        /\ LoggedIn(sessions_[u].socket, u)

(* Conversely the sessions cover all logins, and the index by socket is the  *)
(* exact inverse of the sessions.                                            *)
SessionsComplete ==
    /\ \A s \in DOMAIN clients_ :
          clients_[s].authenticated => /\ User(s) \in DOMAIN sessions_
                                       /\ sessions_[User(s)].socket = s
                                       /\ s \in DOMAIN socketToUser_
    /\ \A s \in DOMAIN socketToUser_ :
          /\ socketToUser_[s] \in DOMAIN sessions_
          /\ sessions_[socketToUser_[s]].socket = s

(* The level a logged-in handler serves lessons from is the account's.       *)
LevelsCoherent ==
    \A s \in DOMAIN clients_ :
        clients_[s].authenticated => clients_[s].level = users_[User(s)].level

(* With one login per user and connection the sessions implement Presence.   *)
Online == [u \in DOMAIN sessions_ |-> sessions_[u].socket]

P == INSTANCE Presence WITH Users <- Usernames, Conns <- Sockets,
                            open <- DOMAIN clients_, online <- Online

ImplementsPresence == P!Spec
=============================================================================
