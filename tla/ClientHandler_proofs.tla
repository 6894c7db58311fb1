------------------------ MODULE ClientHandler_proofs ------------------------
(***************************************************************************)
(* Proofs about ClientHandler.  The first half is about the server under   *)
(* any clients: type correctness, permission safety and the ownership of   *)
(* progress.  The second is about the login sessions: while nobody logs in *)
(* twice, the tables of sessions match the logins on the open connections, *)
(* the levels the handlers keep are those of the accounts, and the server  *)
(* implements Presence.                                                    *)
(***************************************************************************)
EXTENDS ClientHandler, TLAPS

(* An insertion keeps the types of a map.                                   *)
LEMMA PutIsMap ==
    ASSUME NEW K, NEW V, NEW f, IsMap(f, K, V), NEW k \in K, NEW v \in V
    PROVE  IsMap(Put(f, k, v), K, V)
BY DEF IsMap, Put

(* An insertion defines its key and leaves the others alone.                *)
LEMMA PutApply ==
    ASSUME NEW f, NEW k, NEW v
    PROVE  /\ DOMAIN Put(f, k, v) = (DOMAIN f) \cup {k}
           /\ Put(f, k, v)[k] = v
           /\ \A x \in DOMAIN f : x # k => Put(f, k, v)[x] = f[x]
BY DEF Put

(* An erasure keeps the types of a map.                                     *)
LEMMA EraseIsMap ==
    ASSUME NEW K, NEW V, NEW f, IsMap(f, K, V), NEW k
    PROVE  IsMap(Erase(f, k), K, V)
BY DEF IsMap, Erase

(* So does a change of the value of a key.                                  *)
LEMMA ExceptIsMap ==
    ASSUME NEW K, NEW V, NEW f, IsMap(f, K, V), NEW k \in K, NEW v \in V
    PROVE  IsMap([f EXCEPT ![k] = v], K, V)
BY DEF IsMap

-----------------------------------------------------------------------------
(* The permission checks read the handler's copy of the role, so that only    *)
(* staff write feedback needs RolesCoherent; and that needs typed state.  The *)
(* three together are inductive.                                              *)
Inv == TypeOK /\ RolesCoherent /\ FeedbackFromStaff

(* What the store finds in one call still holds at the next, under the one    *)
(* lock on clientsMutex_: a free name is registered, and the account that     *)
(* authenticateUser has found is loaded.                                      *)
LEMMA RegisterCases ==
    ASSUME NEW s, NEW m, handleRegisterRequest(s, m)
    PROVE  \/ Malformed(m) /\ Refuse(s, "ERROR_MESSAGE", "INVALID_FORMAT")
           \/ /\ ~Malformed(m)
              /\ userExists(m.parts[1])
              /\ Refuse(s, "REGISTER_FAILED", "USER_ALREADY_EXISTS")
           \/ /\ ~Malformed(m)
              /\ ~userExists(m.parts[1])
              /\ createUser(m.parts[1], m.parts[2], m.parts[3])
              /\ Send(s, "REGISTER_SUCCESS", "SUCCESS")
              /\ UNCHANGED <<sessions_, socketToUser_, feedbacks_, gameItems_, clients_>>
BY DEF handleRegisterRequest, createUserReturns, Report

(* The ways in which a login request ends. *)
LEMMA LoginCases ==
    ASSUME NEW s, NEW m, handleLoginRequest(s, m)
    PROVE  \/ Malformed(m) /\ Refuse(s, "ERROR_MESSAGE", "INVALID_FORMAT")
           \/ /\ ~Malformed(m)
              /\ ~authenticateUser(m.parts[1], m.parts[2])
              /\ Refuse(s, "LOGIN_FAILED", "INVALID_CREDENTIALS")
           \/ /\ ~Malformed(m)
              /\ authenticateUser(m.parts[1], m.parts[2])
              /\ clients_' = [clients_ EXCEPT ![s] =
                     [authenticated |-> TRUE, username |-> m.parts[1],
                      role |-> users_[m.parts[1]].role, level |-> users_[m.parts[1]].level]]
              /\ createSession(m.parts[1], s)
              /\ Send(s, "LOGIN_SUCCESS", "SUCCESS")
              /\ UNCHANGED <<users_, feedbacks_, gameItems_>>
BY DEF handleLoginRequest, getUserDataReturns, authenticateUser, Report

(* The built-in accounts and no connection satisfy Inv.                     *)
LEMMA InitInv == Init => Inv
<1> SUFFICES ASSUME Init PROVE Inv
  OBVIOUS
<1> USE DEF Init, initialize
<1>1. NewUser("admin123", "ADMIN") \in UserData /\ NewUser("teacher123", "TEACHER") \in UserData
  BY PasswordsAssumption DEF NewUser, UserData, Roles, Levels
<1>2. IsMap(users_, Usernames, UserData)
  BY <1>1, UsernamesAssumption DEF IsMap
<1>3. IsMap(sessions_, Usernames, SessionData) /\ IsMap(socketToUser_, Sockets, Usernames)
  BY DEF IsMap
<1>4. IsMap(clients_, Sockets, Handler) /\ DOMAIN clients_ = {}
  BY DEF IsMap
<1>5. TypeOK
  BY <1>2, <1>3, <1>4 DEF TypeOK, DbTypeOK
<1> QED BY <1>4, <1>5 DEF Inv, RolesCoherent, FeedbackFromStaff, NoResponse

(* A handler that only answers preserves Inv.                               *)
LEMMA QuietPreserves ==
    ASSUME Inv, UNCHANGED <<dbVars, clients_>>,
           response' \in Response
    PROVE  Inv'
BY DEF Inv, dbVars, TypeOK, DbTypeOK, RolesCoherent, FeedbackFromStaff,
       IsMap, userExists, User, Staff
-----------------------------------------------------------------------------
(* Sessions never enter Inv beyond their types. *)
LEMMA RemoveSessionTyped ==
    ASSUME DbTypeOK, NEW u, removeSession(u)
    PROVE  /\ IsMap(sessions_, Usernames, SessionData)'
           /\ IsMap(socketToUser_, Sockets, Usernames)'
BY EraseIsMap DEF removeSession, DbTypeOK

(* A new session and its index entry have their types.                      *)
LEMMA CreateSessionTyped ==
    ASSUME DbTypeOK, NEW u \in DOMAIN users_, NEW s \in Sockets, createSession(u, s)
    PROVE  /\ IsMap(sessions_, Usernames, SessionData)'
           /\ IsMap(socketToUser_, Sockets, Usernames)'
<1>1. u \in Usernames /\ users_[u] \in UserData
  BY DEF DbTypeOK, IsMap
<1>2. [socket |-> s, role |-> users_[u].role] \in SessionData
  BY <1>1 DEF UserData, SessionData
<1> QED BY <1>1, <1>2, PutIsMap DEF createSession, DbTypeOK

(* Registering adds a name that no handler is logged in as.                 *)
LEMMA RegisterPreserves ==
    ASSUME Inv, NEW s \in DOMAIN clients_, NEW m \in Messages,
           m.type = "REGISTER_REQUEST", handleRegisterRequest(s, m)
    PROVE  Inv'
<1>0. s \in Sockets
  BY DEF Inv, TypeOK, IsMap
<1>1. CASE Malformed(m) /\ Refuse(s, "ERROR_MESSAGE", "INVALID_FORMAT")
  BY <1>0, <1>1, QuietPreserves DEF Refuse, Send, Response, ResponseTypes, ErrorCodes
<1>2. CASE Refuse(s, "REGISTER_FAILED", "USER_ALREADY_EXISTS")
  BY <1>0, <1>2, QuietPreserves DEF Refuse, Send, Response, ResponseTypes, ErrorCodes
<1>3. CASE /\ ~Malformed(m)
           /\ ~userExists(m.parts[1])
           /\ createUser(m.parts[1], m.parts[2], m.parts[3])
           /\ Send(s, "REGISTER_SUCCESS", "SUCCESS")
           /\ UNCHANGED <<sessions_, socketToUser_, feedbacks_, gameItems_, clients_>>
  <2>1. /\ m.parts[1] \in Usernames
        /\ m.parts[2] \in Passwords
        /\ m.parts[3] \in Roles
    BY <1>3 DEF Messages, Message, Malformed
  <2>2. NewUser(m.parts[2], m.parts[3]) \in UserData
    BY <2>1, PasswordsAssumption DEF NewUser, UserData, Levels
  <2>3. users_' = Put(users_, m.parts[1], NewUser(m.parts[2], m.parts[3]))
    BY <1>3 DEF createUser
  <2>4. IsMap(users_, Usernames, UserData)'
    BY <2>1, <2>2, <2>3, PutIsMap DEF Inv, TypeOK, DbTypeOK
  <2>5. \A u \in DOMAIN users_ : u \in DOMAIN users_' /\ users_'[u] = users_[u]
    BY <1>3, <2>3 DEF userExists, Put
  <2>6. TypeOK'
    BY <1>0, <1>3, <2>4 DEF Inv, TypeOK, DbTypeOK, Send, Response,
                            ResponseTypes, ErrorCodes
  <2>7. RolesCoherent' /\ FeedbackFromStaff'
    BY <1>3, <2>5 DEF Inv, TypeOK, DbTypeOK, RolesCoherent, FeedbackFromStaff, Staff,
                      userExists, User
  <2> QED BY <1>3, <2>6, <2>7 DEF Inv, Send
<1> QED BY <1>1, <1>2, <1>3, RegisterCases

(* A login copies the role of the account it has just found.                *)
LEMMA LoginPreserves ==
    ASSUME Inv, NEW s \in DOMAIN clients_, NEW m \in Messages,
           m.type = "LOGIN_REQUEST", handleLoginRequest(s, m)
    PROVE  Inv'
<1>0. s \in Sockets
  BY DEF Inv, TypeOK, IsMap
<1>1. CASE Refuse(s, "ERROR_MESSAGE", "INVALID_FORMAT")
  BY <1>0, <1>1, QuietPreserves DEF Refuse, Send, Response, ResponseTypes, ErrorCodes
<1>2. CASE Refuse(s, "LOGIN_FAILED", "INVALID_CREDENTIALS")
  BY <1>0, <1>2, QuietPreserves DEF Refuse, Send, Response, ResponseTypes, ErrorCodes
<1>3. CASE /\ ~Malformed(m)
           /\ authenticateUser(m.parts[1], m.parts[2])
           /\ clients_' = [clients_ EXCEPT ![s] =
                  [authenticated |-> TRUE, username |-> m.parts[1],
                   role |-> users_[m.parts[1]].role, level |-> users_[m.parts[1]].level]]
           /\ createSession(m.parts[1], s)
           /\ Send(s, "LOGIN_SUCCESS", "SUCCESS")
           /\ UNCHANGED <<users_, feedbacks_, gameItems_>>
  <2> DEFINE u == m.parts[1]
             h == [authenticated |-> TRUE, username |-> u,
                   role |-> users_[u].role, level |-> users_[u].level]
  <2>1. u \in DOMAIN users_ /\ u \in Usernames /\ users_[u] \in UserData
    BY <1>3 DEF authenticateUser, userExists, Inv, TypeOK, DbTypeOK, IsMap
  <2>2. h \in Handler
    BY <2>1 DEF Handler, UserData
  <2>3. clients_' = [clients_ EXCEPT ![s] = h]
    BY <1>3
  <2>4. IsMap(clients_, Sockets, Handler)'
    <3> HIDE DEF h
    <3> QED BY <1>0, <2>2, <2>3, ExceptIsMap DEF Inv, TypeOK
  <2>5. /\ IsMap(sessions_, Usernames, SessionData)'
        /\ IsMap(socketToUser_, Sockets, Usernames)'
    BY <1>0, <1>3, <2>1, CreateSessionTyped DEF Inv, TypeOK
  <2>6. TypeOK'
    BY <1>0, <1>3, <2>4, <2>5 DEF Inv, TypeOK, DbTypeOK, IsMap, Send, Response,
                                  ResponseTypes, ErrorCodes
  <2>7. RolesCoherent'
    BY <1>3, <2>1, <2>3 DEF Inv, RolesCoherent, userExists, User
  <2> QED BY <1>3, <2>6, <2>7 DEF Inv, FeedbackFromStaff, Staff, Send
<1> QED BY <1>1, <1>2, <1>3, LoginCases

(* A logout leaves a guest, of whom RolesCoherent says nothing.             *)
LEMMA LogoutPreserves ==
    ASSUME Inv, NEW s \in DOMAIN clients_, handleLogoutRequest(s)
    PROVE  Inv'
<1> DEFINE h == [clients_[s] EXCEPT !.authenticated = FALSE, !.username = ""]
<1>0. s \in Sockets /\ clients_[s] \in Handler
  BY DEF Inv, TypeOK, IsMap
<1>1. h \in Handler
  BY <1>0 DEF Handler
<1>2. clients_' = [clients_ EXCEPT ![s] = h]
  BY <1>0 DEF handleLogoutRequest, Inv, TypeOK, IsMap
<1>3. IsMap(clients_, Sockets, Handler)'
  <2> HIDE DEF h
  <2> QED BY <1>0, <1>1, <1>2, ExceptIsMap DEF Inv, TypeOK
<1>4. /\ IsMap(sessions_, Usernames, SessionData)'
      /\ IsMap(socketToUser_, Sockets, Usernames)'
  BY RemoveSessionTyped DEF Inv, TypeOK, handleLogoutRequest
<1>5. TypeOK'
  <2>1. DbTypeOK'
    BY <1>4 DEF handleLogoutRequest, Inv, TypeOK, DbTypeOK, IsMap
  <2>2. response' \in Response
    BY <1>0 DEF handleLogoutRequest, Send, Response, ResponseTypes, ErrorCodes
  <2> QED BY <1>3, <2>1, <2>2 DEF TypeOK
<1>6. RolesCoherent'
  BY <1>0, <1>2 DEF handleLogoutRequest, Inv, RolesCoherent, userExists, User, Handler
<1> QED BY <1>5, <1>6 DEF handleLogoutRequest, Inv, FeedbackFromStaff, Staff, Send

(* Level and score change; role and existence of every account stay. *)
LEMMA RecordPreserves ==
    ASSUME Inv, NEW s \in DOMAIN clients_, clients_[s].authenticated,
           NEW d \in UserData, d.role = users_[User(s)].role,
           users_' = [users_ EXCEPT ![User(s)] = d],
           UNCHANGED <<sessions_, socketToUser_, feedbacks_, gameItems_>>,
           IsMap(clients_, Sockets, Handler)',
           \A t \in DOMAIN clients_' :
              /\ t \in DOMAIN clients_
              /\ clients_'[t].authenticated = clients_[t].authenticated
              /\ clients_'[t].username = clients_[t].username
              /\ clients_'[t].role = clients_[t].role,
           response' \in Response
    PROVE  Inv'
<1>1. User(s) \in DOMAIN users_ /\ User(s) \in Usernames
  BY DEF Inv, RolesCoherent, userExists, TypeOK, DbTypeOK, IsMap
<1>2. IsMap(users_, Usernames, UserData)'
  BY <1>1, ExceptIsMap DEF Inv, TypeOK, DbTypeOK
<1>3. /\ DOMAIN users_' = DOMAIN users_
      /\ \A u \in DOMAIN users_ : users_'[u].role = users_[u].role
  BY <1>1
<1>4. TypeOK'
  BY <1>2 DEF Inv, TypeOK, DbTypeOK, IsMap
<1>5. RolesCoherent'
  BY <1>3 DEF Inv, RolesCoherent, userExists, User
<1>6. FeedbackFromStaff'
  BY <1>3 DEF Inv, FeedbackFromStaff, Staff
<1> QED BY <1>4, <1>5, <1>6 DEF Inv

(* A new level is an instance of RecordPreserves.                           *)
LEMMA SetLevelPreserves ==
    ASSUME Inv, NEW s \in DOMAIN clients_, clients_[s].authenticated,
           NEW m \in Messages, m.type = "SET_LEVEL_REQUEST", handleSetLevelRequest(s, m)
    PROVE  Inv'
<1>0. /\ s \in Sockets /\ clients_[s] \in Handler
      /\ User(s) \in DOMAIN users_ /\ users_[User(s)] \in UserData
  BY DEF Inv, TypeOK, DbTypeOK, IsMap, RolesCoherent, userExists
<1>1. CASE Refuse(s, "ERROR_MESSAGE", "INVALID_PARAMETER")
  BY <1>0, <1>1, QuietPreserves DEF Refuse, Send, Response, ResponseTypes, ErrorCodes
<1>2. CASE ~Malformed(m) /\ ~Refuse(s, "ERROR_MESSAGE", "INVALID_PARAMETER")
  <2> DEFINE d == [users_[User(s)] EXCEPT !.level = m.parts[1]]
             h == [clients_[s] EXCEPT !.level = m.parts[1]]
  <2>1. m.parts[1] \in Levels
    BY <1>2 DEF Messages, Message, Malformed
  <2>2. d \in UserData /\ d.role = users_[User(s)].role /\ h \in Handler
    BY <1>0, <2>1 DEF UserData, Handler
  <2>3. /\ users_' = [users_ EXCEPT ![User(s)] = d]
        /\ clients_' = [clients_ EXCEPT ![s] = h]
        /\ response' = [to |-> s, type |-> "SET_LEVEL_SUCCESS", code |-> "SUCCESS"]
        /\ UNCHANGED <<sessions_, socketToUser_, feedbacks_, gameItems_>>
    BY <1>0, <1>2 DEF handleSetLevelRequest, updateUserLevel, userExists, Report, Send
  <2>4. IsMap(clients_, Sockets, Handler)'
    <3> HIDE DEF d, h
    <3> QED BY <1>0, <2>2, <2>3, ExceptIsMap DEF Inv, TypeOK
  <2>5. \A t \in DOMAIN clients_' :
              /\ t \in DOMAIN clients_
              /\ clients_'[t].authenticated = clients_[t].authenticated
              /\ clients_'[t].username = clients_[t].username
              /\ clients_'[t].role = clients_[t].role
    BY <1>0, <2>3 DEF Handler
  <2>6. response' \in Response
    BY <1>0, <2>3 DEF Response, ResponseTypes, ErrorCodes
  <2> HIDE DEF d, h
  <2> QED BY <2>2, <2>3, <2>4, <2>5, <2>6, RecordPreserves
<1> QED BY <1>1, <1>2 DEF handleSetLevelRequest

(* So are the points of a quiz or an exercise.                              *)
LEMMA SubmitPreserves ==
    ASSUME Inv, NEW s \in DOMAIN clients_, clients_[s].authenticated, NEW m,
           NEW points \in Nat, NEW type \in ResponseTypes, Submit(s, m, points, type)
    PROVE  Inv'
<1>0. /\ s \in Sockets
      /\ User(s) \in DOMAIN users_ /\ users_[User(s)] \in UserData
  BY DEF Inv, TypeOK, DbTypeOK, IsMap, RolesCoherent, userExists
<1>1. CASE Refuse(s, "ERROR_MESSAGE", "INVALID_FORMAT")
  BY <1>0, <1>1, QuietPreserves DEF Refuse, Send, Response, ResponseTypes, ErrorCodes
<1>2. CASE ~Refuse(s, "ERROR_MESSAGE", "INVALID_FORMAT")
  <2> DEFINE d == [users_[User(s)] EXCEPT !.score = @ + points]
  <2>1. d \in UserData /\ d.role = users_[User(s)].role
    BY <1>0 DEF UserData
  <2>2. /\ users_' = [users_ EXCEPT ![User(s)] = d]
        /\ response' = [to |-> s, type |-> type, code |-> "SUCCESS"]
        /\ UNCHANGED <<sessions_, socketToUser_, feedbacks_, gameItems_, clients_>>
    BY <1>0, <1>2 DEF Submit, updateUserScore, userExists, Send
  <2>3. IsMap(clients_, Sockets, Handler)'
    BY <2>2 DEF Inv, TypeOK, IsMap
  <2>4. response' \in Response
    BY <1>0, <2>2 DEF Response, ErrorCodes
  <2> HIDE DEF d
  <2> QED BY <2>1, <2>2, <2>3, <2>4, RecordPreserves
<1> QED BY <1>1, <1>2

(* The author's role is checked on a copy: RolesCoherent makes it the account's. *)
LEMMA SendFeedbackPreserves ==
    ASSUME Inv, NEW s \in DOMAIN clients_, clients_[s].authenticated,
           NEW m \in Messages, m.type = "SEND_FEEDBACK_REQUEST",
           handleSendFeedbackRequest(s, m)
    PROVE  Inv'
<1>0. /\ s \in Sockets /\ User(s) \in DOMAIN users_ /\ User(s) \in Usernames
      /\ clients_[s].role = users_[User(s)].role
  BY DEF Inv, TypeOK, DbTypeOK, IsMap, RolesCoherent, userExists
<1>1. CASE \/ Refuse(s, "ERROR_MESSAGE", "PERMISSION_DENIED")
           \/ Refuse(s, "ERROR_MESSAGE", "INVALID_FORMAT")
  BY <1>0, <1>1, QuietPreserves DEF Refuse, Send, Response, ResponseTypes, ErrorCodes
<1>2. CASE /\ clients_[s].role \in {"TEACHER", "ADMIN"}
           /\ ~Malformed(m)
           /\ saveFeedback(m.parts[1], User(s))
           /\ Report(s, saveFeedbackReturns, "SEND_FEEDBACK_SUCCESS", "ERROR_MESSAGE")
           /\ UNCHANGED <<users_, sessions_, socketToUser_, gameItems_, clients_>>
  <2>1. m.parts[1] \in Usernames
    BY <1>2 DEF Messages, Message, Malformed
  <2>2. /\ feedbacks_ \in [Usernames -> Seq(Usernames)]
        /\ feedbacks_' = [feedbacks_ EXCEPT ![m.parts[1]] = Append(@, User(s))]
    BY <1>2 DEF saveFeedback, Inv, TypeOK, DbTypeOK
  <2>3. feedbacks_' \in [Usernames -> Seq(Usernames)]
    BY <1>0, <2>1, <2>2
  <2>4. TypeOK'
    BY <1>0, <1>2, <2>3 DEF Inv, TypeOK, DbTypeOK, IsMap, Send, Response,
                            Report, saveFeedbackReturns, addGameItemReturns, ResponseTypes, ErrorCodes
  <2>5. User(s) \in Staff
    BY <1>0, <1>2 DEF Staff
  <2>6. FeedbackFromStaff'
    <3> SUFFICES ASSUME NEW u \in Usernames, NEW i \in DOMAIN feedbacks_'[u]
                 PROVE  feedbacks_'[u][i] \in Staff
      BY <1>2 DEF FeedbackFromStaff, Staff
    <3>1. CASE u = m.parts[1]
      <4>1. feedbacks_'[u] = Append(feedbacks_[u], User(s)) /\ feedbacks_[u] \in Seq(Usernames)
        BY <2>1, <2>2, <3>1
      <4>2. i \in 1..(Len(feedbacks_[u]) + 1)
        BY <1>0, <4>1
      <4>3. CASE i = Len(feedbacks_[u]) + 1
        BY <1>0, <2>5, <4>1, <4>3
      <4>4. CASE i \in 1..Len(feedbacks_[u])
        <5>1. feedbacks_'[u][i] = feedbacks_[u][i] /\ i \in DOMAIN feedbacks_[u]
          BY <1>0, <4>1, <4>4
        <5> QED BY <5>1 DEF Inv, FeedbackFromStaff
      <4> QED BY <4>1, <4>2, <4>3, <4>4
    <3>2. CASE u # m.parts[1]
      BY <2>1, <2>2, <3>2 DEF Inv, FeedbackFromStaff
    <3> QED BY <3>1, <3>2
  <2>7. RolesCoherent'
    BY <1>2 DEF Inv, RolesCoherent, userExists, User
  <2> QED BY <1>2, <2>4, <2>6, <2>7 DEF Inv, Send
<1> QED BY <1>1, <1>2 DEF handleSendFeedbackRequest

(* Game items enter Inv by their type only.                                 *)
LEMMA AddGameItemPreserves ==
    ASSUME Inv, NEW s \in DOMAIN clients_, NEW m \in Messages,
           m.type = "ADD_GAME_ITEM_REQUEST", handleAddGameItemRequest(s, m)
    PROVE  Inv'
<1>0. s \in Sockets
  BY DEF Inv, TypeOK, IsMap
<1>1. CASE \/ Refuse(s, "ADD_GAME_ITEM_FAILED", "PERMISSION_DENIED")
           \/ Refuse(s, "ADD_GAME_ITEM_FAILED", "INVALID_FORMAT")
  BY <1>0, <1>1, QuietPreserves DEF Refuse, Send, Response, ResponseTypes, ErrorCodes
<1>2. CASE /\ ~Malformed(m)
           /\ addGameItem(m.parts[1])
           /\ Report(s, addGameItemReturns, "ADD_GAME_ITEM_SUCCESS", "ADD_GAME_ITEM_FAILED")
           /\ UNCHANGED <<users_, sessions_, socketToUser_, feedbacks_, clients_>>
  <2>0. m.parts[1] \in GameTypes
    BY <1>2 DEF Messages, Message, Malformed
  <2>1. gameItems_' \in [GameTypes -> Nat]
    BY <1>2, <2>0 DEF addGameItem, Inv, TypeOK, DbTypeOK
  <2>2. TypeOK'
    BY <1>0, <1>2, <2>1 DEF Inv, TypeOK, DbTypeOK, IsMap, Send, Response,
                            Report, saveFeedbackReturns, addGameItemReturns, ResponseTypes, ErrorCodes
  <2> QED BY <1>2, <2>2 DEF Inv, RolesCoherent, userExists, User, FeedbackFromStaff,
                            Staff, Send
<1> QED BY <1>1, <1>2 DEF handleAddGameItemRequest

(* A chat message changes nothing.                                          *)
LEMMA ChatPreserves ==
    ASSUME Inv, NEW s \in DOMAIN clients_, NEW m, handleChatMessage(s, m)
    PROVE  Inv'
<1>0. s \in Sockets
  BY DEF Inv, TypeOK, IsMap
<1> QED BY <1>0, QuietPreserves DEF handleChatMessage, Refuse, Answer, Send, Response,
                                    ResponseTypes, ErrorCodes

(* The score is answered from the store. *)
LEMMA GetScorePreserves ==
    ASSUME Inv, NEW s \in DOMAIN clients_, clients_[s].authenticated,
           handleGetScoreRequest(s)
    PROVE  Inv'
<1>0. s \in Sockets /\ userExists(User(s))
  BY DEF Inv, TypeOK, IsMap, RolesCoherent
<1> QED BY <1>0, QuietPreserves DEF handleGetScoreRequest, Report, Send, Response,
                                    ResponseTypes, ErrorCodes

(* The handlers that only answer. *)
QuietRequest(s, m) ==
    \/ RefuseGuest(s, m)
    \/ handleGetLessonListRequest(s)
    \/ handleGetLessonContentRequest(s)
    \/ handleGameStartRequest(s)
    \/ handleGameMoveRequest(s)
    \/ handleGetFeedbackRequest(s)
    \/ handleVoiceCallRequest(s)
    \/ handleHeartbeatRequest(s)
    \/ Refuse(s, "ERROR_MESSAGE", "INVALID_FORMAT")

(* The handlers that only answer, all at once.                              *)
LEMMA QuietRequestPreserves ==
    ASSUME Inv, NEW s \in DOMAIN clients_, NEW m, QuietRequest(s, m)
    PROVE  Inv'
<1>0. s \in Sockets
  BY DEF Inv, TypeOK, IsMap
<1>1. /\ UNCHANGED <<dbVars, clients_>>
      /\ response' \in Response
  BY <1>0 DEF QuietRequest, RefuseGuest, handleGetLessonListRequest,
              handleGetLessonContentRequest, handleGameStartRequest,
              handleGameMoveRequest, handleGetFeedbackRequest, handleVoiceCallRequest,
              handleHeartbeatRequest, Refuse, Answer, Send, Response, ResponseTypes,
              ErrorCodes
<1> QED BY <1>1, QuietPreserves

(* What processMessage does, with the test of authenticated_ where it is made. *)
LEMMA RequestCases ==
    ASSUME NEW s, NEW m, processMessage(s, m)
    PROVE  \/ QuietRequest(s, m)
           \/ m.type = "REGISTER_REQUEST" /\ handleRegisterRequest(s, m)
           \/ m.type = "LOGIN_REQUEST" /\ handleLoginRequest(s, m)
           \/ handleChatMessage(s, m)
           \/ /\ clients_[s].authenticated
              /\ \/ handleLogoutRequest(s)
                 \/ m.type = "SET_LEVEL_REQUEST" /\ handleSetLevelRequest(s, m)
                 \/ handleSubmitQuizRequest(s, m)
                 \/ handleSubmitExerciseRequest(s, m)
                 \/ handleGetScoreRequest(s)
                 \/ m.type = "SEND_FEEDBACK_REQUEST" /\ handleSendFeedbackRequest(s, m)
                 \/ m.type = "ADD_GAME_ITEM_REQUEST" /\ handleAddGameItemRequest(s, m)
BY DEF processMessage, Allowed, Open, QuietRequest

(* Every request preserves Inv, by the lemma of its handler.                *)
LEMMA ProcessMessagePreserves ==
    ASSUME Inv, NEW s \in DOMAIN clients_, NEW m \in Requests, processMessage(s, m)
    PROVE  Inv'
<1>0. m \in Messages
  BY RequestsAssumption
<1>1. CASE QuietRequest(s, m)
  BY <1>1, QuietRequestPreserves
<1>2. CASE m.type = "REGISTER_REQUEST" /\ handleRegisterRequest(s, m)
  BY <1>0, <1>2, RegisterPreserves
<1>3. CASE m.type = "LOGIN_REQUEST" /\ handleLoginRequest(s, m)
  BY <1>0, <1>3, LoginPreserves
<1>4. CASE handleChatMessage(s, m)
  BY <1>4, ChatPreserves
<1>5. CASE clients_[s].authenticated /\ handleLogoutRequest(s)
  BY <1>5, LogoutPreserves
<1>6. CASE /\ clients_[s].authenticated
           /\ m.type = "SET_LEVEL_REQUEST" /\ handleSetLevelRequest(s, m)
  BY <1>0, <1>6, SetLevelPreserves
<1>7. CASE clients_[s].authenticated /\ handleSubmitQuizRequest(s, m)
  <2>1. Submit(s, m, 10, "SUBMIT_QUIZ_RESPONSE") /\ "SUBMIT_QUIZ_RESPONSE" \in ResponseTypes
    BY <1>7 DEF handleSubmitQuizRequest, ResponseTypes
  <2> QED BY <1>7, <2>1, SubmitPreserves
<1>8. CASE clients_[s].authenticated /\ handleSubmitExerciseRequest(s, m)
  <2>1. /\ Submit(s, m, 5, "SUBMIT_EXERCISE_RESPONSE")
        /\ "SUBMIT_EXERCISE_RESPONSE" \in ResponseTypes
    BY <1>8 DEF handleSubmitExerciseRequest, ResponseTypes
  <2> QED BY <1>8, <2>1, SubmitPreserves
<1>9. CASE clients_[s].authenticated /\ handleGetScoreRequest(s)
  BY <1>9, GetScorePreserves
<1>10. CASE /\ clients_[s].authenticated
            /\ m.type = "SEND_FEEDBACK_REQUEST" /\ handleSendFeedbackRequest(s, m)
  BY <1>0, <1>10, SendFeedbackPreserves
<1>11. CASE m.type = "ADD_GAME_ITEM_REQUEST" /\ handleAddGameItemRequest(s, m)
  BY <1>0, <1>11, AddGameItemPreserves
<1> QED BY <1>1, <1>2, <1>3, <1>4, <1>5, <1>6, <1>7, <1>8, <1>9, <1>10, <1>11, RequestCases

(* A new handler is a guest.                                                *)
LEMMA ConnectPreserves ==
    ASSUME Inv, NEW s \in Sockets, Connect(s)
    PROVE  Inv'
<1>1. NewHandler \in Handler
  BY DEF NewHandler, Handler, Roles, Levels
<1>2. IsMap(clients_, Sockets, Handler)'
  BY <1>1, PutIsMap DEF Inv, TypeOK, Connect
<1>3. TypeOK'
  BY <1>2 DEF Inv, TypeOK, DbTypeOK, IsMap, Connect, dbVars
<1>4. RolesCoherent'
  BY DEF Inv, RolesCoherent, userExists, User, Connect, dbVars, Put, NewHandler
<1> QED BY <1>3, <1>4 DEF Inv, FeedbackFromStaff, Staff, Connect, dbVars

(* The other handlers and the accounts stay as they are.                    *)
LEMMA DisconnectPreserves ==
    ASSUME Inv, NEW s \in DOMAIN clients_, Disconnect(s)
    PROVE  Inv'
<1>1. IsMap(clients_, Sockets, Handler)'
  BY EraseIsMap DEF Inv, TypeOK, Disconnect
<1>2. /\ IsMap(sessions_, Usernames, SessionData)'
      /\ IsMap(socketToUser_, Sockets, Usernames)'
  BY RemoveSessionTyped DEF Inv, TypeOK, DbTypeOK, Disconnect, IsMap
<1>3. TypeOK'
  BY <1>1, <1>2 DEF Inv, TypeOK, DbTypeOK, IsMap, Disconnect
<1>4. RolesCoherent'
  BY DEF Inv, RolesCoherent, userExists, User, Disconnect, Erase
<1> QED BY <1>3, <1>4 DEF Inv, FeedbackFromStaff, Staff, Disconnect

(* Inv is inductive.                                                        *)
LEMMA NextPreserves == Inv /\ [Next]_vars => Inv'
<1> SUFFICES ASSUME Inv, [Next]_vars PROVE Inv'
  OBVIOUS
<1>1. ASSUME NEW s \in Sockets, Connect(s) PROVE Inv'
  BY <1>1, ConnectPreserves
<1>2. ASSUME NEW s \in DOMAIN clients_, Disconnect(s) PROVE Inv'
  BY <1>2, DisconnectPreserves
<1>3. ASSUME NEW s \in DOMAIN clients_, NEW m \in Requests, processMessage(s, m) PROVE Inv'
  BY <1>3, ProcessMessagePreserves
<1>4. CASE UNCHANGED vars
  BY <1>4 DEF vars, dbVars, Inv, TypeOK, DbTypeOK, RolesCoherent, FeedbackFromStaff, IsMap,
     userExists, User, Staff
<1> QED BY <1>1, <1>2, <1>3, <1>4 DEF Next, Connections

(* Inv always holds.                                                        *)
LEMMA Invariance == Spec => []Inv
<1> QED BY InitInv, NextPreserves, PTL DEF Spec

(* The whole state of server and store keeps its types. *)
THEOREM TypeCorrect == Spec => []TypeOK
<1>1. Inv => TypeOK
  BY DEF Inv
<1> QED BY <1>1, Invariance, PTL

(* Permission checks on the handler's copy of the role are checks on the role *)
(* the store has for the logged-in account.                                   *)
THEOREM RolesStayCoherent == Spec => []RolesCoherent
<1>1. Inv => RolesCoherent
  BY DEF Inv
<1> QED BY <1>1, Invariance, PTL

(* Nobody but teachers and admins ever wrote a stored feedback entry. *)
THEOREM FeedbackAuthorship == Spec => []FeedbackFromStaff
<1>1. Inv => FeedbackFromStaff
  BY DEF Inv
<1> QED BY <1>1, Invariance, PTL

-----------------------------------------------------------------------------
(* Steps that leave the accounts alone satisfy ProgressStep. *)
LEMMA AccountsKept ==
    ASSUME Inv, UNCHANGED users_
    PROVE  ProgressStep
BY DEF Inv, TypeOK, DbTypeOK, IsMap, UserData, ProgressStep

(* A step that answers s and rewrites only the account s is logged in as.     *)
LEMMA OwnAccountRewritten ==
    ASSUME Inv, NEW s \in DOMAIN clients_, clients_[s].authenticated,
           NEW d \in UserData,
           d.passwordHash = users_[User(s)].passwordHash,
           d.role = users_[User(s)].role, d.score >= users_[User(s)].score,
           users_' = [users_ EXCEPT ![User(s)] = d],
           response' \in Response, response'.to = s
    PROVE  ProgressStep
BY DEF Inv, TypeOK, DbTypeOK, IsMap, UserData, RolesCoherent, userExists,
       ProgressStep, LoggedIn

(* Every request leaves the accounts alone or rewrites its own.             *)
LEMMA RequestProgress ==
    ASSUME Inv, NEW s \in DOMAIN clients_, NEW m \in Requests, processMessage(s, m)
    PROVE  ProgressStep
<1>0. /\ m \in Messages /\ s \in Sockets /\ clients_[s] \in Handler
      /\ clients_[s].authenticated =>
            User(s) \in DOMAIN users_ /\ users_[User(s)] \in UserData
  BY RequestsAssumption DEF Inv, TypeOK, DbTypeOK, IsMap, RolesCoherent, userExists
<1>1. CASE UNCHANGED users_
  BY <1>1, AccountsKept
<1>2. CASE m.type = "REGISTER_REQUEST" /\ handleRegisterRequest(s, m) /\ users_' # users_
  <2>1. /\ ~userExists(m.parts[1])
        /\ users_' = Put(users_, m.parts[1], NewUser(m.parts[2], m.parts[3]))
    BY <1>2 DEF handleRegisterRequest, Refuse, dbVars, createUser, createUserReturns, Report
  <2>2. \A u \in DOMAIN users_ : u \in DOMAIN users_' /\ users_'[u] = users_[u]
    BY <2>1 DEF userExists, Put
  <2> QED BY <2>2 DEF Inv, TypeOK, DbTypeOK, IsMap, UserData, ProgressStep
<1>3. CASE /\ clients_[s].authenticated /\ users_' # users_
           /\ m.type = "SET_LEVEL_REQUEST" /\ handleSetLevelRequest(s, m)
  <2> DEFINE d == [users_[User(s)] EXCEPT !.level = m.parts[1]]
  <2>1. ~Malformed(m) /\ m.parts[1] \in Levels
    BY <1>0, <1>3 DEF handleSetLevelRequest, Report, Refuse, dbVars, Messages, Message, Malformed
  <2>2. /\ users_' = [users_ EXCEPT ![User(s)] = d]
        /\ response' = [to |-> s, type |-> "SET_LEVEL_SUCCESS", code |-> "SUCCESS"]
    BY <1>0, <1>3, <2>1 DEF handleSetLevelRequest, updateUserLevel, userExists, Report, Send
  <2>3. /\ d \in UserData /\ d.passwordHash = users_[User(s)].passwordHash
        /\ d.role = users_[User(s)].role /\ d.score >= users_[User(s)].score
    BY <1>0, <1>3, <2>1 DEF UserData
  <2>4. response' \in Response /\ response'.to = s
    BY <1>0, <2>2 DEF Response, ResponseTypes, ErrorCodes
  <2> HIDE DEF d
  <2> QED BY <1>3, <2>2, <2>3, <2>4, OwnAccountRewritten
<1>4. ASSUME NEW points \in Nat, NEW type \in ResponseTypes, Submit(s, m, points, type),
             clients_[s].authenticated, users_' # users_
      PROVE  ProgressStep
  <2> DEFINE d == [users_[User(s)] EXCEPT !.score = @ + points]
  <2>1. /\ users_' = [users_ EXCEPT ![User(s)] = d]
        /\ response' = [to |-> s, type |-> type, code |-> "SUCCESS"]
    BY <1>0, <1>4 DEF Submit, Refuse, dbVars, updateUserScore, userExists, Send
  <2>2. /\ d \in UserData /\ d.passwordHash = users_[User(s)].passwordHash
        /\ d.role = users_[User(s)].role /\ d.score >= users_[User(s)].score
    BY <1>0, <1>4 DEF UserData
  <2>3. response' \in Response /\ response'.to = s
    BY <1>0, <2>1 DEF Response, ErrorCodes
  <2> HIDE DEF d
  <2> QED BY <1>4, <2>1, <2>2, <2>3, OwnAccountRewritten
<1>5. CASE /\ clients_[s].authenticated /\ users_' # users_
           /\ handleSubmitQuizRequest(s, m) \/ handleSubmitExerciseRequest(s, m)
  <2>1. {"SUBMIT_QUIZ_RESPONSE", "SUBMIT_EXERCISE_RESPONSE"} \subseteq ResponseTypes
    BY DEF ResponseTypes
  <2> QED BY <1>4, <1>5, <2>1 DEF handleSubmitQuizRequest, handleSubmitExerciseRequest
<1>6. CASE QuietRequest(s, m)
  BY <1>6, AccountsKept DEF QuietRequest, RefuseGuest, handleGetLessonListRequest,
       handleGetLessonContentRequest, handleGameStartRequest, handleGameMoveRequest,
       handleGetFeedbackRequest, handleVoiceCallRequest, handleHeartbeatRequest, Refuse,
       Answer, dbVars
<1>7. CASE \/ handleLoginRequest(s, m)
           \/ handleChatMessage(s, m)
           \/ handleLogoutRequest(s)
           \/ handleGetScoreRequest(s)
           \/ handleSendFeedbackRequest(s, m)
           \/ handleAddGameItemRequest(s, m)
  BY <1>7, AccountsKept DEF handleLoginRequest, handleChatMessage, handleLogoutRequest,
       handleGetScoreRequest, handleSendFeedbackRequest, handleAddGameItemRequest,
       Refuse, Answer, dbVars
<1> QED BY <1>1, <1>2, <1>3, <1>5, <1>6, <1>7, RequestCases

(* Progress belongs to its owner: whatever any client sends, an account's     *)
(* level and score change only for connections logged in as it, and a score   *)
(* never decreases.                                                           *)
THEOREM ProgressOwnership == Spec => OwnProgressOnly
<1>1. Inv /\ [Next]_vars => [ProgressStep]_vars
  <2> SUFFICES ASSUME Inv, Next PROVE ProgressStep
    OBVIOUS
  <2>1. ASSUME NEW s \in DOMAIN clients_, NEW m \in Requests, processMessage(s, m)
        PROVE  ProgressStep
    BY <2>1, RequestProgress
  <2>2. CASE Connections
    BY <2>2, AccountsKept DEF Connections, Connect, Disconnect, dbVars
  <2> QED BY <2>1, <2>2 DEF Next
<1> QED BY <1>1, Invariance, PTL DEF Spec, OwnProgressOnly

(* Only an admin's request adds game items.                                 *)
LEMMA RequestGameItems ==
    ASSUME Inv, NEW s \in DOMAIN clients_, NEW m \in Requests, processMessage(s, m)
    PROVE  GameItemsStep
<1>0. s \in Sockets
  BY DEF Inv, TypeOK, IsMap
<1>1. CASE UNCHANGED gameItems_
  BY <1>1 DEF GameItemsStep
<1>2. CASE /\ clients_[s].authenticated /\ handleAddGameItemRequest(s, m)
           /\ gameItems_' # gameItems_
  <2>1. /\ clients_[s].role = "ADMIN"
        /\ response' = [to |-> s, type |-> "ADD_GAME_ITEM_SUCCESS", code |-> "SUCCESS"]
    BY <1>2 DEF handleAddGameItemRequest, addGameItemReturns, Report, Refuse, dbVars, Send
  <2>2. response' \in Response /\ response'.to = s
    BY <1>0, <2>1 DEF Response, ResponseTypes, ErrorCodes
  <2>3. /\ User(s) \in DOMAIN users_ /\ users_[User(s)].role = "ADMIN"
        /\ LoggedIn(s, User(s))
    BY <1>2, <2>1 DEF Inv, RolesCoherent, userExists, LoggedIn
  <2> QED BY <2>2, <2>3 DEF GameItemsStep
<1>3. CASE QuietRequest(s, m)
  BY <1>1, <1>3 DEF QuietRequest, RefuseGuest, handleGetLessonListRequest,
       handleGetLessonContentRequest, handleGameStartRequest, handleGameMoveRequest,
       handleGetFeedbackRequest, handleVoiceCallRequest, handleHeartbeatRequest, Refuse,
       Answer, dbVars
<1>4. CASE \/ handleRegisterRequest(s, m)
           \/ handleLoginRequest(s, m)
           \/ handleChatMessage(s, m)
           \/ handleLogoutRequest(s)
           \/ handleSetLevelRequest(s, m)
           \/ handleSubmitQuizRequest(s, m)
           \/ handleSubmitExerciseRequest(s, m)
           \/ handleGetScoreRequest(s)
           \/ handleSendFeedbackRequest(s, m)
  BY <1>1, <1>4 DEF handleRegisterRequest, handleLoginRequest, handleChatMessage,
       handleLogoutRequest, handleSetLevelRequest, handleSubmitQuizRequest,
       handleSubmitExerciseRequest, Submit, handleGetScoreRequest,
       handleSendFeedbackRequest, Refuse, Answer, dbVars
<1> QED BY <1>1, <1>2, <1>3, <1>4, RequestCases

(* The game content is the admins': it changes only for a connection logged   *)
(* in as an account that is an ADMIN in the store.                            *)
THEOREM GameItemsAuthorship == Spec => GameItemsByAdmin
<1>1. Inv /\ [Next]_vars => [GameItemsStep]_vars
  <2> SUFFICES ASSUME Inv, Next PROVE GameItemsStep
    OBVIOUS
  <2>1. ASSUME NEW s \in DOMAIN clients_, NEW m \in Requests, processMessage(s, m)
        PROVE  GameItemsStep
    BY <2>1, RequestGameItems
  <2>2. CASE Connections
    BY <2>2 DEF Connections, Connect, Disconnect, dbVars, GameItemsStep
  <2> QED BY <2>1, <2>2 DEF Next
<1> QED BY <1>1, Invariance, PTL DEF Spec, GameItemsByAdmin
-----------------------------------------------------------------------------
(* The three are inductive together: a session names the one connection of    *)
(* its user, which is why a new level reaches every copy of the old one.      *)
SessionInv == SessionsLive /\ SessionsComplete /\ LevelsCoherent

SoloInv == Inv /\ SessionInv

(* An erasure takes out its key and leaves the others alone.                *)
LEMMA EraseApply ==
    ASSUME NEW f, NEW k
    PROVE  /\ DOMAIN Erase(f, k) = (DOMAIN f) \ {k}
           /\ \A x \in DOMAIN f : x # k => Erase(f, k)[x] = f[x]
BY DEF Erase

(* Types, in the form the lemmas below use them. *)
LEMMA HandlerOf ==
    ASSUME Inv, NEW s \in DOMAIN clients_
    PROVE  /\ s \in Sockets
           /\ clients_[s] \in Handler
           /\ clients_[s].authenticated =>
                 User(s) \in DOMAIN users_ /\ User(s) \in Usernames
BY DEF Inv, TypeOK, DbTypeOK, IsMap, RolesCoherent, userExists

(* Steps that leave sessions and handlers alone, and every level as it is. *)
LEMMA LevelsKeptPreserves ==
    ASSUME SoloInv, UNCHANGED <<sessions_, socketToUser_, clients_>>,
           \A u \in DOMAIN users_ : users_'[u].level = users_[u].level
    PROVE  SessionInv'
<1>1. LevelsCoherent'
  BY HandlerOf DEF SoloInv, SessionInv, LevelsCoherent, User
<1> QED BY <1>1 DEF SoloInv, SessionInv, SessionsLive, SessionsComplete, LoggedIn, User

(* A login of a user who is logged in nowhere, by a guest, adds one session. *)
LEMMA LoginKeepsSessions ==
    ASSUME SoloInv, NEW s \in DOMAIN clients_, NEW u \in DOMAIN users_,
           ~clients_[s].authenticated,
           \A t \in DOMAIN clients_ : ~LoggedIn(t, u),
           clients_' = [clients_ EXCEPT ![s] =
               [authenticated |-> TRUE, username |-> u,
                role |-> users_[u].role, level |-> users_[u].level]],
           createSession(u, s), UNCHANGED users_
    PROVE  SessionInv'
<1>1. u \notin DOMAIN sessions_
  BY DEF SoloInv, SessionInv, SessionsLive
<1>2. s \notin DOMAIN socketToUser_
  BY DEF SoloInv, SessionInv, SessionsLive, SessionsComplete, LoggedIn
<1>3. /\ DOMAIN sessions_' = DOMAIN sessions_ \cup {u}
      /\ sessions_'[u].socket = s
      /\ \A v \in DOMAIN sessions_ : sessions_'[v] = sessions_[v]
      /\ DOMAIN socketToUser_' = DOMAIN socketToUser_ \cup {s}
      /\ socketToUser_'[s] = u
      /\ \A t \in DOMAIN socketToUser_ : socketToUser_'[t] = socketToUser_[t]
  BY <1>1, <1>2 DEF createSession, Put
<1>4. /\ DOMAIN clients_' = DOMAIN clients_
      /\ clients_'[s].authenticated /\ clients_'[s].username = u
      /\ clients_'[s].level = users_[u].level
      /\ \A t \in DOMAIN clients_ \ {s} : clients_'[t] = clients_[t]
  OBVIOUS
<1>5. SessionsLive'
  BY <1>1, <1>3, <1>4 DEF SoloInv, SessionInv, SessionsLive, LoggedIn, User
<1>6. SessionsComplete'
  BY <1>1, <1>2, <1>3, <1>4 DEF SoloInv, SessionInv, SessionsComplete, User
<1>7. LevelsCoherent'
  BY <1>4 DEF SoloInv, SessionInv, LevelsCoherent, User
<1> QED BY <1>5, <1>6, <1>7 DEF SessionInv

(* What the session of a connection that is logged in looks like. *)
LEMMA OwnSession ==
    ASSUME SoloInv, NEW s \in DOMAIN clients_, clients_[s].authenticated
    PROVE  /\ User(s) \in DOMAIN sessions_
           /\ sessions_[User(s)].socket = s
           /\ \A t \in DOMAIN clients_ : clients_[t].authenticated /\ t # s => User(t) # User(s)
BY DEF SoloInv, SessionInv, SessionsComplete

(* A logout and the closing of a connection that is logged in remove the      *)
(* session and leave the other handlers alone.                                *)
LEMMA RemovalKeepsSessions ==
    ASSUME SoloInv, NEW s \in DOMAIN clients_, clients_[s].authenticated,
           removeSession(User(s)), UNCHANGED users_,
           DOMAIN clients_' \subseteq DOMAIN clients_,
           DOMAIN clients_ \ {s} \subseteq DOMAIN clients_',
           \A t \in DOMAIN clients_ \ {s} : clients_'[t] = clients_[t],
           s \in DOMAIN clients_' => ~clients_'[s].authenticated
    PROVE  SessionInv'
<1> DEFINE u == User(s)
<1>1. /\ u \in DOMAIN sessions_ /\ sessions_[u].socket = s
      /\ \A t \in DOMAIN clients_ : clients_[t].authenticated /\ t # s => User(t) # u
  BY OwnSession
<1>2. sessions_' = Erase(sessions_, u) /\ socketToUser_' = Erase(socketToUser_, s)
  BY <1>1 DEF removeSession
<1>3. /\ DOMAIN sessions_' = DOMAIN sessions_ \ {u}
      /\ \A v \in DOMAIN sessions_ \ {u} : sessions_'[v] = sessions_[v]
      /\ DOMAIN socketToUser_' = DOMAIN socketToUser_ \ {s}
      /\ \A t \in DOMAIN socketToUser_ \ {s} : socketToUser_'[t] = socketToUser_[t]
  BY <1>2 DEF Erase
<1>4. SessionsLive'
  BY <1>1, <1>3 DEF SoloInv, SessionInv, SessionsLive, LoggedIn, User
<1>5. SessionsComplete'
  BY <1>1, <1>3 DEF SoloInv, SessionInv, SessionsComplete, User
<1>6. LevelsCoherent'
  BY DEF SoloInv, SessionInv, LevelsCoherent, User
<1> QED BY <1>4, <1>5, <1>6 DEF SessionInv

(* A new level reaches the one handler that keeps a copy of the old one. *)
LEMMA SetLevelKeepsSessions ==
    ASSUME SoloInv, NEW s \in DOMAIN clients_, clients_[s].authenticated,
           NEW level, UNCHANGED <<sessions_, socketToUser_>>,
           users_' = [users_ EXCEPT ![User(s)].level = level],
           clients_' = [clients_ EXCEPT ![s].level = level]
    PROVE  SessionInv'
<1>1. /\ User(s) \in DOMAIN users_ /\ users_[User(s)] \in UserData
      /\ clients_[s] \in Handler
      /\ \A t \in DOMAIN clients_ : clients_[t].authenticated /\ t # s => User(t) # User(s)
  BY HandlerOf, OwnSession DEF SoloInv, Inv, TypeOK, DbTypeOK, IsMap
<1>2. /\ DOMAIN clients_' = DOMAIN clients_
      /\ clients_'[s].level = level
      /\ clients_'[s].authenticated /\ clients_'[s].username = User(s)
      /\ \A t \in DOMAIN clients_ \ {s} : clients_'[t] = clients_[t]
  BY <1>1 DEF Handler, User
<1>3. /\ users_'[User(s)].level = level
      /\ \A v \in DOMAIN users_ \ {User(s)} : users_'[v] = users_[v]
  BY <1>1 DEF UserData
<1>4. SessionsLive'
  BY <1>2 DEF SoloInv, SessionInv, SessionsLive, LoggedIn, User
<1>5. SessionsComplete'
  BY <1>2 DEF SoloInv, SessionInv, SessionsComplete, User
<1>6. LevelsCoherent'
  BY <1>1, <1>2, <1>3, HandlerOf DEF SoloInv, SessionInv, LevelsCoherent, User
<1> QED BY <1>4, <1>5, <1>6 DEF SessionInv

(* The steps of SoloSpec as far as sessions and levels can tell them apart.   *)
KeepStep ==
    /\ UNCHANGED <<sessions_, socketToUser_, clients_>>
    /\ \A u \in DOMAIN users_ : users_'[u].level = users_[u].level

SetLevelStep(s) ==
    /\ clients_[s].authenticated
    /\ UNCHANGED <<sessions_, socketToUser_>>
    /\ \E level \in Levels :
          /\ users_' = [users_ EXCEPT ![User(s)].level = level]
          /\ clients_' = [clients_ EXCEPT ![s].level = level]

LoginStep(s, u) ==
    /\ ~clients_[s].authenticated
    /\ \A t \in DOMAIN clients_ : ~LoggedIn(t, u)
    /\ clients_' = [clients_ EXCEPT ![s] =
           [authenticated |-> TRUE, username |-> u,
            role |-> users_[u].role, level |-> users_[u].level]]
    /\ createSession(u, s)
    /\ UNCHANGED users_

LogoutStep(s) == clients_[s].authenticated /\ handleLogoutRequest(s)

SoloRequest(s) ==
    \/ KeepStep
    \/ SetLevelStep(s)
    \/ \E u \in DOMAIN users_ : LoginStep(s, u)
    \/ LogoutStep(s)

(* Every request with one login per user is one of the four kinds of steps. *)
LEMMA SoloRequestCases ==
    ASSUME Inv, NEW s \in DOMAIN clients_, NEW m \in Requests,
           OneLogin(s, m), processMessage(s, m)
    PROVE  SoloRequest(s)
<1>0. /\ m \in Messages /\ clients_[s] \in Handler
      /\ clients_[s].authenticated =>
            User(s) \in DOMAIN users_ /\ users_[User(s)] \in UserData
  BY RequestsAssumption, HandlerOf DEF Inv, TypeOK, DbTypeOK, IsMap
<1>1. CASE UNCHANGED <<dbVars, clients_>>
  BY <1>1 DEF SoloRequest, KeepStep, dbVars
<1>2. CASE QuietRequest(s, m)
  BY <1>1, <1>2 DEF QuietRequest, RefuseGuest, handleGetLessonListRequest,
       handleGetLessonContentRequest, handleGameStartRequest, handleGameMoveRequest,
       handleGetFeedbackRequest, handleVoiceCallRequest, handleHeartbeatRequest, Refuse,
       Answer
<1>3. CASE handleChatMessage(s, m) \/ handleGetScoreRequest(s)
  BY <1>1, <1>3 DEF handleChatMessage, handleGetScoreRequest, Refuse, Answer
<1>4. CASE handleRegisterRequest(s, m)
  <2>1. CASE createUser(m.parts[1], m.parts[2], m.parts[3]) /\ ~userExists(m.parts[1])
             /\ UNCHANGED <<sessions_, socketToUser_, clients_>>
    BY <2>1 DEF createUser, userExists, Put, SoloRequest, KeepStep
  <2> QED BY <1>1, <1>4, <2>1 DEF handleRegisterRequest, Refuse
<1>5. CASE m.type = "LOGIN_REQUEST" /\ handleLoginRequest(s, m)
  <2>1. CASE /\ ~Malformed(m) /\ authenticateUser(m.parts[1], m.parts[2])
             /\ clients_' = [clients_ EXCEPT ![s] =
                    [authenticated |-> TRUE, username |-> m.parts[1],
                     role |-> users_[m.parts[1]].role, level |-> users_[m.parts[1]].level]]
             /\ createSession(m.parts[1], s) /\ UNCHANGED users_
    <3>1. m.parts[1] \in DOMAIN users_ /\ LoginStep(s, m.parts[1])
      BY <1>5, <2>1 DEF OneLogin, LoginStep, authenticateUser, userExists
    <3> QED BY <3>1 DEF SoloRequest
  <2> QED BY <1>1, <1>5, <2>1, LoginCases DEF Refuse
<1>6. CASE clients_[s].authenticated /\ handleLogoutRequest(s)
  BY <1>6 DEF SoloRequest, LogoutStep
<1>7. CASE /\ clients_[s].authenticated
           /\ m.type = "SET_LEVEL_REQUEST" /\ handleSetLevelRequest(s, m)
  <2>1. CASE ~Malformed(m) /\ ~Refuse(s, "ERROR_MESSAGE", "INVALID_PARAMETER")
    <3>1. m.parts[1] \in Levels
      BY <1>0, <1>7, <2>1 DEF Messages, Message, Malformed
    <3>2. SetLevelStep(s)
      BY <1>0, <1>7, <2>1, <3>1 DEF handleSetLevelRequest, updateUserLevel, userExists, Report,
                                    SetLevelStep
    <3> QED BY <3>2 DEF SoloRequest
  <2> QED BY <1>1, <1>7, <2>1 DEF handleSetLevelRequest, Report, Refuse
<1>8. CASE /\ clients_[s].authenticated
           /\ handleSubmitQuizRequest(s, m) \/ handleSubmitExerciseRequest(s, m)
  <2>1. PICK points \in Nat : \E type : Submit(s, m, points, type)
    BY <1>8 DEF handleSubmitQuizRequest, handleSubmitExerciseRequest
  <2>2. CASE /\ users_' = [users_ EXCEPT ![User(s)].score = @ + points]
             /\ UNCHANGED <<sessions_, socketToUser_, clients_>>
    BY <1>0, <1>8, <2>2 DEF SoloRequest, KeepStep, UserData
  <2> QED BY <1>0, <1>1, <1>8, <2>1, <2>2 DEF Submit, Refuse, updateUserScore, userExists
<1>9. CASE handleSendFeedbackRequest(s, m) \/ handleAddGameItemRequest(s, m)
  BY <1>1, <1>9 DEF handleSendFeedbackRequest, handleAddGameItemRequest, Refuse,
       SoloRequest, KeepStep
<1> QED BY <1>2, <1>3, <1>4, <1>5, <1>6, <1>7, <1>8, <1>9, RequestCases

(* Each of the four preserves the relation of sessions, index and logins.   *)
LEMMA SoloRequestPreserves ==
    ASSUME SoloInv, NEW s \in DOMAIN clients_, SoloRequest(s)
    PROVE  SessionInv'
<1>1. CASE KeepStep
  BY <1>1, LevelsKeptPreserves DEF KeepStep
<1>2. CASE SetLevelStep(s)
  BY <1>2, SetLevelKeepsSessions DEF SetLevelStep
<1>3. ASSUME NEW u \in DOMAIN users_, LoginStep(s, u) PROVE SessionInv'
  BY <1>3, LoginKeepsSessions DEF LoginStep
<1>4. CASE LogoutStep(s)
  <2>1. clients_[s] \in Handler
    BY HandlerOf DEF SoloInv
  <2>2. /\ removeSession(User(s)) /\ UNCHANGED users_
        /\ DOMAIN clients_' = DOMAIN clients_
        /\ \A t \in DOMAIN clients_ \ {s} : clients_'[t] = clients_[t]
        /\ ~clients_'[s].authenticated
    BY <1>4, <2>1 DEF LogoutStep, handleLogoutRequest, Handler
  <2> QED BY <1>4, <2>2, RemovalKeepsSessions DEF LogoutStep
<1> QED BY <1>1, <1>2, <1>3, <1>4 DEF SoloRequest

(* A new connection is a guest and has no session.                          *)
LEMMA ConnectKeepsSessions ==
    ASSUME SoloInv, NEW s \in Sockets, Connect(s)
    PROVE  SessionInv'
<1>1. /\ DOMAIN clients_' = DOMAIN clients_ \cup {s}
      /\ ~clients_'[s].authenticated
      /\ \A t \in DOMAIN clients_ : clients_'[t] = clients_[t]
      /\ UNCHANGED <<users_, sessions_, socketToUser_>>
  BY DEF Connect, Put, NewHandler, dbVars
<1> QED BY <1>1 DEF SoloInv, SessionInv, SessionsLive, SessionsComplete, LevelsCoherent,
                    LoggedIn, User

(* Closing removes the session of a login, and a guest has none.            *)
LEMMA DisconnectKeepsSessions ==
    ASSUME SoloInv, NEW s \in DOMAIN clients_, Disconnect(s)
    PROVE  SessionInv'
<1>1. /\ DOMAIN clients_' = DOMAIN clients_ \ {s}
      /\ \A t \in DOMAIN clients_ \ {s} : clients_'[t] = clients_[t]
      /\ UNCHANGED users_
  BY DEF Disconnect, Erase
<1>2. CASE clients_[s].authenticated
  BY <1>1, <1>2, RemovalKeepsSessions DEF Disconnect
<1>3. CASE ~clients_[s].authenticated
  BY <1>1, <1>3 DEF Disconnect, SoloInv, SessionInv, SessionsLive, SessionsComplete,
                    LevelsCoherent, LoggedIn, User
<1> QED BY <1>2, <1>3

(* SoloInv is inductive while nobody logs in twice.                         *)
LEMMA SoloPreserves == SoloInv /\ [SoloNext]_vars => SoloInv'
<1> SUFFICES ASSUME SoloInv, [SoloNext]_vars PROVE SoloInv'
  OBVIOUS
<1>1. Inv'
  BY NextPreserves DEF SoloInv, SoloNext, Next
<1>2. CASE UNCHANGED vars
  <2>1. SessionInv'
    BY <1>2, LevelsKeptPreserves DEF vars, dbVars
  <2> QED BY <1>1, <2>1 DEF SoloInv
<1>3. ASSUME NEW s \in Sockets, Connect(s) PROVE SessionInv'
  BY <1>3, ConnectKeepsSessions
<1>4. ASSUME NEW s \in DOMAIN clients_, Disconnect(s) PROVE SessionInv'
  BY <1>4, DisconnectKeepsSessions
<1>5. ASSUME NEW s \in DOMAIN clients_, NEW m \in Requests,
             OneLogin(s, m), processMessage(s, m)
      PROVE  SessionInv'
  BY <1>5, SoloRequestCases, SoloRequestPreserves DEF SoloInv
<1> QED BY <1>1, <1>2, <1>3, <1>4, <1>5 DEF SoloInv, SoloNext, Connections

(* Nobody is connected at first.                                            *)
LEMMA InitSolo == Init => SoloInv
<1> SUFFICES ASSUME Init PROVE SoloInv
  OBVIOUS
<1>1. DOMAIN clients_ = {} /\ DOMAIN sessions_ = {} /\ DOMAIN socketToUser_ = {}
  BY DEF Init, initialize
<1> QED BY <1>1, InitInv DEF SoloInv, SessionInv, SessionsLive, SessionsComplete,
                             LevelsCoherent

(* SoloInv always holds while nobody logs in twice.                         *)
LEMMA SoloInvariance == SoloSpec => []SoloInv
<1> QED BY InitSolo, SoloPreserves, PTL DEF SoloSpec

(* While nobody logs in twice, every session is that of a user logged in on   *)
(* the connection it names: createSession and removeSession leave none behind.*)
THEOREM NoSessionLeaks == SoloSpec => []SessionsLive
<1>1. SoloInv => SessionsLive
  BY DEF SoloInv, SessionInv
<1> QED BY <1>1, SoloInvariance, PTL

(* While nobody logs in twice, every login has its session, and               *)
(* socketToUser_ is the inverse of sessions_.                                 *)
THEOREM SessionsCoverLogins == SoloSpec => []SessionsComplete
<1>1. SoloInv => SessionsComplete
  BY DEF SoloInv, SessionInv
<1> QED BY <1>1, SoloInvariance, PTL

(* While nobody logs in twice, the level a handler picks lessons by is the    *)
(* one the store has.                                                         *)
THEOREM LevelsStayCoherent == SoloSpec => []LevelsCoherent
<1>1. SoloInv => LevelsCoherent
  BY DEF SoloInv, SessionInv
<1> QED BY <1>1, SoloInvariance, PTL
-----------------------------------------------------------------------------
(* Initial states map to initial states of Presence.                        *)
LEMMA InitPresence == Init => P!Init
<1> SUFFICES ASSUME Init PROVE DOMAIN clients_ = {} /\ Online = << >>
  BY DEF P!Init
<1> QED BY DEF Init, initialize, Online

(* Requests other than logins and logouts are stutters of Presence. *)
LEMMA RequestPresence ==
    ASSUME SoloInv, NEW s \in DOMAIN clients_, SoloRequest(s)
    PROVE  P!Next \/ UNCHANGED P!vars
<1>0. s \in Sockets
  BY HandlerOf DEF SoloInv
<1>1. CASE KeepStep \/ SetLevelStep(s)
  BY <1>1 DEF KeepStep, SetLevelStep, Online, P!vars
<1>2. ASSUME NEW u \in DOMAIN users_, LoginStep(s, u) PROVE P!Next
  <2>1. u \in Usernames
    BY DEF SoloInv, Inv, TypeOK, DbTypeOK, IsMap
  <2>2. u \notin DOMAIN sessions_ /\ \A v \in DOMAIN sessions_ : sessions_[v].socket # s
    BY <1>2 DEF SoloInv, SessionInv, SessionsLive, LoginStep, LoggedIn
  <2>3. Online' = [v \in DOMAIN Online \cup {u} |-> IF v = u THEN s ELSE Online[v]]
    BY <1>2, <2>2 DEF LoginStep, createSession, Put, Online
  <2>4. DOMAIN clients_' = DOMAIN clients_
    BY <1>2 DEF LoginStep
  <2>5. P!Login(u, s)
    BY <2>2, <2>3, <2>4 DEF P!Login, Online
  <2> QED BY <1>0, <2>1, <2>5 DEF P!Next
<1>3. CASE LogoutStep(s)
  <2>1. User(s) \in DOMAIN sessions_ /\ User(s) \in Usernames
    BY <1>3, OwnSession, HandlerOf DEF LogoutStep, SoloInv
  <2>2. sessions_' = Erase(sessions_, User(s)) /\ DOMAIN clients_' = DOMAIN clients_
    BY <1>3, <2>1 DEF LogoutStep, handleLogoutRequest, removeSession
  <2>3. P!Logout(User(s))
    BY <2>1, <2>2 DEF P!Logout, Online, Erase
  <2> QED BY <2>1, <2>3 DEF P!Next
<1> QED BY <1>1, <1>2, <1>3 DEF SoloRequest

(* A closed connection takes its user offline.                              *)
LEMMA DisconnectPresence ==
    ASSUME SoloInv, NEW s \in DOMAIN clients_, Disconnect(s)
    PROVE  P!Next
<1>0. s \in Sockets
  BY HandlerOf DEF SoloInv
<1>1. DOMAIN clients_' = DOMAIN clients_ \ {s}
  BY DEF Disconnect, Erase
<1>2. Online' = [v \in {w \in DOMAIN Online : Online[w] # s} |-> Online[v]]
  <2>1. CASE clients_[s].authenticated
    <3>1. User(s) \in DOMAIN sessions_ /\ sessions_[User(s)].socket = s
      BY <2>1, OwnSession
    <3>2. sessions_' = Erase(sessions_, User(s))
      BY <2>1, <3>1 DEF Disconnect, removeSession
    <3>3. \A v \in DOMAIN sessions_ : sessions_[v].socket = s <=> v = User(s)
      BY <3>1 DEF SoloInv, SessionInv, SessionsLive, LoggedIn
    <3> QED BY <3>2, <3>3 DEF Online, Erase
  <2>2. CASE ~clients_[s].authenticated
    <3>1. \A v \in DOMAIN sessions_ : sessions_[v].socket # s
      BY <2>2 DEF SoloInv, SessionInv, SessionsLive, LoggedIn
    <3> QED BY <2>2, <3>1 DEF Disconnect, Online
  <2> QED BY <2>1, <2>2
<1>3. P!Close(s)
  BY <1>1, <1>2 DEF P!Close
<1> QED BY <1>0, <1>3 DEF P!Next

(* While nobody logs in twice, the server with its tables implements the      *)
(* abstract notion of presence: on one connection at most, gone with the      *)
(* logout or the connection.                                                  *)
THEOREM PresenceImplemented == SoloSpec => ImplementsPresence
<1>1. SoloInv /\ [SoloNext]_vars => [P!Next]_P!vars
  <2> SUFFICES ASSUME SoloInv, [SoloNext]_vars PROVE P!Next \/ UNCHANGED P!vars
    OBVIOUS
  <2>1. CASE UNCHANGED vars
    BY <2>1 DEF vars, dbVars, Online, P!vars
  <2>2. ASSUME NEW s \in Sockets, Connect(s) PROVE P!Next
    <3>1. P!Open(s)
      BY <2>2 DEF Connect, Put, dbVars, Online, P!Open
    <3> QED BY <3>1 DEF P!Next
  <2>3. ASSUME NEW s \in DOMAIN clients_, Disconnect(s) PROVE P!Next
    BY <2>3, DisconnectPresence
  <2>4. ASSUME NEW s \in DOMAIN clients_, NEW m \in Requests,
               OneLogin(s, m), processMessage(s, m)
        PROVE  P!Next \/ UNCHANGED P!vars
    BY <2>4, SoloRequestCases, RequestPresence DEF SoloInv
  <2> QED BY <2>1, <2>2, <2>3, <2>4 DEF SoloNext, Connections
<1> QED BY <1>1, InitPresence, SoloInvariance, PTL DEF SoloSpec, ImplementsPresence, P!Spec
=============================================================================
