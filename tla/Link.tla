-------------------------------- MODULE Link --------------------------------
(***************************************************************************)
(* Client and server composed: the requests that a front end makes through *)
(* Client are carried out by the handlers of ClientHandler, one handler    *)
(* per connection, and what they answer is what the calls return.          *)
(***************************************************************************)
EXTENDS Client

CONSTANTS Usernames, Passwords, Hashes, hashPassword(_), GameTypes, Requests,
          MaxScore, MaxFeedback, MaxItems  \* those of ClientHandler

CONSTANTS
    Accounts,            \* the names and passwords people type
    NameRead(_),         \* what the server's parser reads of a typed name: the
                         \* text before its first '|', without the blanks around
    LoginRead(_),        \* what it reads of a login, << >> if it rejects that
    RegisterRead(_, _),  \* and of a registration in a role
    Lines                \* the requests that a line or the end of a text is

Typed == {a[1] : a \in Accounts}

ASSUME AccountsAssumption ==
    \A a \in Accounts :
        /\ LoginRead(a) # << >> =>
              LoginRead(a) \in Usernames \X Passwords /\ LoginRead(a)[1] = NameRead(a[1])
        /\ \A r \in {"STUDENT", "TEACHER", "ADMIN"} :
              RegisterRead(a, r) # << >> =>
                  RegisterRead(a, r) \in
                      Usernames \X Passwords \X {"STUDENT", "TEACHER", "ADMIN", "OTHER"}

VARIABLES
    users_, sessions_, socketToUser_, feedbacks_, gameItems_, clients_,
    response,  \* those of ClientHandler
    request,   \* call -> what it asks for, until the server has dealt with it
    answer     \* call or stray -> what it was answered, while that may
               \* reach the client

H == INSTANCE ClientHandler WITH Sockets <- Conns

(* Those of the messages that people with these accounts can send.           *)
AskableOf(messages) ==
    {m \in messages :
        /\ m.type = "REGISTER_REQUEST" =>
              m.parts \in {<< >>} \cup
                  {RegisterRead(a, r) : a \in Accounts, r \in {"STUDENT", "TEACHER", "ADMIN"}}
        /\ m.type = "LOGIN_REQUEST" => m.parts \in {<< >>} \cup {LoginRead(a) : a \in Accounts}}

Askable == AskableOf(H!Messages)

(* Those of ClientHandler and Database, and that Requests suffices. *)
ASSUME HandlerAssumption ==
    /\ Askable \subseteq Requests /\ Lines \subseteq Requests /\ Requests \subseteq H!Messages
    /\ {"admin", "teacher1"} \subseteq Usernames /\ "" \notin Usernames
    /\ {"admin123", "teacher123"} \subseteq Passwords
    /\ \A p \in Passwords : hashPassword(p) \in Hashes
    /\ {MaxScore, MaxFeedback, MaxItems} \subseteq Nat

store    == <<users_, sessions_, socketToUser_, feedbacks_, gameItems_, clients_, response>>
wire     == <<request, answer>>
linkVars == <<clientVars, store, wire>>

(* What a request says, and whether it fits the framing: one line, of 8192    *)
(* bytes at most.                                                             *)
Request == [message : Requests, fits : BOOLEAN]

(* What the wrappers of Client read of a response: its type, role and level  *)
(* after a login, and a score.                                               *)
Reply == [type : H!ResponseTypes, role : H!Roles, level : H!Levels, score : Nat]

NoReply == [type |-> "ERROR_MESSAGE", role |-> "OTHER", level |-> "BEGINNER", score |-> 0]

(* The response type by which each wrapper knows that its request succeeded. *)
Success ==
    [REGISTER_REQUEST |-> "REGISTER_SUCCESS", LOGIN_REQUEST |-> "LOGIN_SUCCESS",
     LOGOUT_REQUEST |-> "LOGOUT_SUCCESS", SET_LEVEL_REQUEST |-> "SET_LEVEL_SUCCESS",
     GET_LESSON_LIST_REQUEST |-> "GET_LESSON_LIST_RESPONSE",
     GET_LESSON_CONTENT_REQUEST |-> "GET_LESSON_CONTENT_RESPONSE",
     SUBMIT_QUIZ_REQUEST |-> "SUBMIT_QUIZ_RESPONSE",
     SUBMIT_EXERCISE_REQUEST |-> "SUBMIT_EXERCISE_RESPONSE",
     GAME_START_REQUEST |-> "GAME_START_RESPONSE", GAME_MOVE_REQUEST |-> "GAME_MOVE_RESPONSE",
     CHAT_MESSAGE |-> "CHAT_MESSAGE_ACK", VOICE_CALL_REQUEST |-> "VOICE_CALL_ACCEPT",
     GET_SCORE_REQUEST |-> "GET_SCORE_RESPONSE",
     GET_FEEDBACK_REQUEST |-> "GET_FEEDBACK_RESPONSE",
     HEARTBEAT_REQUEST |-> "HEARTBEAT_RESPONSE",
     SEND_FEEDBACK_REQUEST |-> "SEND_FEEDBACK_SUCCESS",
     ADD_GAME_ITEM_REQUEST |-> "ADD_GAME_ITEM_SUCCESS"]

LinkInit == ClientInit /\ H!Init /\ request = << >> /\ answer = << >>

LinkTypeOK ==
    /\ ClientTypeOK
    /\ H!TypeOK
    /\ H!IsMap(request, Calls, Request)
    /\ H!IsMap(answer, Ids \ {0}, Reply)
    /\ DOMAIN clients_ = {c \in Conns : serverOpen[c]}
    /\ \A c \in Conns : ToSet(up[c]) \subseteq DOMAIN request
    /\ \A k \in DOMAIN down : down[k].id \in DOMAIN answer \cup {0}
-----------------------------------------------------------------------------
(* connect() at the client, accept() at the server. *)
LinkConnect == Connect /\ H!Connect(conn') /\ UNCHANGED wire

(* The answers of which some byte is still on its way. *)
Coming(a) == [i \in DOMAIN a \cap {down'[k].id : k \in DOMAIN down'} |-> a[i]]

LinkDisconnect ==
    /\ Disconnect
    /\ answer' = Coming(answer)
    /\ UNCHANGED <<store, request>>

(* A wrapper of Client up to the receive loop: its request is on its way.     *)
(* The payload of one that does not fit is never taken apart.                 *)
Call(type, parts, fits) ==
    LET m == [type |-> type, parts |-> IF fits THEN parts ELSE << >>]
    IN  /\ Send
        /\ request' = IF alive' THEN H!Put(request, Current, [message |-> m, fits |-> fits])
                      ELSE request
        /\ UNCHANGED <<store, answer>>

(* A wrapper that fails at once: without a connection, or in send(). *)
CallRefused == Refused /\ UNCHANGED <<store, wire>>
CallFails   == SendFails /\ UNCHANGED <<store, wire>>

(* What the call that just ended returns. *)
Returns(i) == IF i \in DOMAIN answer THEN answer[i] ELSE NoReply

LinkPoll ==
    /\ \E n \in 1..Len(down), garbled \in BOOLEAN : Poll(n, garbled)
    /\ answer' = Coming(answer)
    /\ UNCHANGED <<store, request>>

LinkTimeOut == TimeOut /\ UNCHANGED <<store, wire>>
-----------------------------------------------------------------------------
(* Whether a response of connection c fits the framing: the content of a      *)
(* lesson is four lines; a game's items, and the feedback for a user, are     *)
(* joined in one line, which one of them may make too long.                   *)
FitsOf(c, type) ==
    CASE type = "GET_LESSON_CONTENT_RESPONSE" -> {FALSE}
      [] type = "GAME_START_RESPONSE" ->
            IF \A g \in GameTypes : gameItems_[g] = 0 THEN {TRUE} ELSE BOOLEAN
      [] type = "GET_FEEDBACK_RESPONSE" ->
            IF feedbacks_[clients_[c].username] = << >> THEN {TRUE} ELSE BOOLEAN
      [] OTHER -> {TRUE}

(* role|level|score after a login, the points after a submission. *)
ReplyOf(type, m) ==
    LET u == users_[m.parts[1]]
    IN  CASE type = "LOGIN_SUCCESS" ->
                [type |-> type, role |-> u.role, level |-> u.level, score |-> u.score]
          [] type = "SUBMIT_QUIZ_RESPONSE"     -> [NoReply EXCEPT !.type = type, !.score = 10]
          [] type = "SUBMIT_EXERCISE_RESPONSE" -> [NoReply EXCEPT !.type = type, !.score = 5]
          [] OTHER                             -> [NoReply EXCEPT !.type = type]

(* The server reads the next request of connection c and carries it out.     *)
LinkServe(c) ==
    LET i == Head(up[c])
        m == request[i].message
    IN  /\ serverOpen[c] /\ up[c] # << >>
        /\ request[i].fits
        /\ H!processMessage(c, m)
        /\ \E fits \in FitsOf(c, response'.type), n \in 0..2 : Serve(c, fits, n)
        /\ request' = H!Erase(request, i)
        /\ answer' = Coming(H!Put(answer, i, ReplyOf(response'.type, m)))

(* The requests whose text people type. *)
Texts ==
    {"REGISTER_REQUEST", "LOGIN_REQUEST", "SUBMIT_QUIZ_REQUEST", "SUBMIT_EXERCISE_REQUEST",
     "GAME_MOVE_REQUEST", "CHAT_MESSAGE", "VOICE_CALL_REQUEST", "SEND_FEEDBACK_REQUEST",
     "ADD_GAME_ITEM_REQUEST"}

(* The messages that the server can find inside a request: in its text, and   *)
(* in the rest of its header, which is of no known type.                      *)
Inside(type) ==
    {[type |-> "OTHER_TYPE", parts |-> << >>]} \cup (IF type \in Texts THEN Lines ELSE {})

(* It finds one; of the request itself nothing will be carried out any more.  *)
LinkMisread(c) ==
    LET i == Head(up[c])
    IN  /\ serverOpen[c] /\ up[c] # << >>
        /\ \E m \in Inside(request[i].message.type) :
              /\ H!processMessage(c, m)
              /\ \E fits \in FitsOf(c, response'.type), n \in 0..2 : Misread(c, fits, n)
              /\ answer' = Coming(H!Put(answer, -strays', ReplyOf(response'.type, m)))
        /\ request' = [request EXCEPT ![i].fits = FALSE]

LinkDrop(c) ==
    /\ Drop(c)
    /\ ~request[Head(up[c])].fits
    /\ request' = H!Erase(request, Head(up[c]))
    /\ UNCHANGED <<store, answer>>

LinkLose(c) ==
    /\ Lose(c)
    /\ request' = H!Erase(request, Head(up[c]))
    /\ UNCHANGED <<store, answer>>

(* Fault for TypeOK: the handler stays in clients_. *)
LinkCloseKeeping(c) == ServerClose(c) /\ UNCHANGED <<store, wire>>

(* The connection leaves clients_, and its handler's destructor runs. *)
LinkClose(c) == ServerClose(c) /\ H!Disconnect(c) /\ UNCHANGED wire

LinkReset ==
    /\ Reset
    /\ request' = [i \in DOMAIN request \ ToSet(up[conn]) |-> request[i]]
    /\ answer' = Coming(answer)
    /\ UNCHANGED store

Remote ==
    \/ \E c \in Conns :
          LinkServe(c) \/ LinkMisread(c) \/ LinkDrop(c) \/ LinkLose(c) \/ LinkClose(c)
    \/ LinkReset
-----------------------------------------------------------------------------
(* As long as all is orderly and no request is lost the server sees logins    *)
(* only where nobody is logged in, as SoloSpec of ClientHandler requires.     *)
ImplementsSolo == H!Init /\ [][orderly' /\ lossless' => [H!SoloNext]_store]_linkVars

(* The same whatever requests are lost. *)
LoginsAlone == [][orderly' => [H!SoloNext]_store]_linkVars
=============================================================================
