------------------------------ MODULE Database ------------------------------
(***************************************************************************)
(* The in-memory store of the server (Database.cpp): accounts, login       *)
(* sessions and their index by socket, feedback and game items.  Every     *)
(* member function holds dbMutex_ for its whole body, so each is one       *)
(* operator here: a primed equation for what it writes, a state function   *)
(* for what it returns.                                                    *)
(***************************************************************************)
EXTENDS Naturals, Sequences, TLC

CONSTANTS
    Usernames,        \* the names that pass Parser::validateUsername
    Passwords,        \* the passwords that pass Parser::validatePassword
    Hashes,           \* what hashPassword returns
    hashPassword(_),  \* std::hash of the salted password (need not be injective)
    Sockets,          \* the descriptors accept() can hand out
    GameTypes         \* the keys of gameItems_

ASSUME UsernamesAssumption == /\ {"admin", "teacher1"} \subseteq Usernames
                              /\ "" \notin Usernames
ASSUME PasswordsAssumption == /\ {"admin123", "teacher123"} \subseteq Passwords
                              /\ \A p \in Passwords : hashPassword(p) \in Hashes

Roles  == {"STUDENT", "TEACHER", "ADMIN", "OTHER"}  \* OTHER: any other uint8_t
Levels == {"BEGINNER", "INTERMEDIATE", "ADVANCED"}

VARIABLES
    users_,         \* username -> UserData
    sessions_,      \* username -> SessionData
    socketToUser_,  \* socket -> username
    feedbacks_,     \* username -> the authors of the feedback left for it, oldest first
    gameItems_      \* game type -> number of items

dbVars == <<users_, sessions_, socketToUser_, feedbacks_, gameItems_>>

UserData    == [passwordHash : Hashes, role : Roles, level : Levels, score : Nat]
SessionData == [socket : Sockets, role : Roles]

(* std::unordered_map: a function on part of the keys K, with values in V. *)
IsMap(f, K, V) == DOMAIN f \subseteq K /\ f \in [DOMAIN f -> V]
Put(f, k, v) == [x \in (DOMAIN f) \cup {k} |-> IF x = k THEN v ELSE f[x]]
Erase(f, k)  == [x \in (DOMAIN f) \ {k} |-> f[x]]

DbTypeOK ==
    /\ IsMap(users_, Usernames, UserData)
    /\ IsMap(sessions_, Usernames, SessionData)
    /\ IsMap(socketToUser_, Sockets, Usernames)
    /\ feedbacks_ \in [Usernames -> Seq(Usernames)]
    /\ gameItems_ \in [GameTypes -> Nat]

NewUser(p, role) ==
    [passwordHash |-> hashPassword(p), role |-> role, level |-> "BEGINNER", score |-> 0]

(* Database::initialize: the two built-in accounts; nobody is logged in. *)
initialize ==
    /\ users_ = [u \in {"admin", "teacher1"} |->
                    IF u = "admin" THEN NewUser("admin123", "ADMIN")
                                   ELSE NewUser("teacher123", "TEACHER")]
    /\ sessions_ = << >>
    /\ socketToUser_ = << >>
    /\ feedbacks_ = [u \in Usernames |-> << >>]
    /\ gameItems_ = [g \in GameTypes |-> 0]

userExists(u) == u \in DOMAIN users_

authenticateUser(u, p) == userExists(u) /\ users_[u].passwordHash = hashPassword(p)

(* Fault for TypeOK: the password is stored as typed.                        *)
createUserPlain(u, p, role) ==
    users_' = IF userExists(u) THEN users_
              ELSE Put(users_, u, [NewUser(p, role) EXCEPT !.passwordHash = p])

createUser(u, p, role) ==
    users_' = IF userExists(u) THEN users_ ELSE Put(users_, u, NewUser(p, role))

createUserReturns(u)  == ~userExists(u)
getUserDataReturns(u) == userExists(u)

(* updateUserLevel and updateUserScore return userExists(u). *)
updateUserLevel(u, level) ==
    users_' = IF userExists(u) THEN [users_ EXCEPT ![u].level = level] ELSE users_

updateUserScore(u, points) ==
    users_' = IF userExists(u) THEN [users_ EXCEPT ![u].score = @ + points] ELSE users_

createSession(u, s) ==
    /\ sessions_' = Put(sessions_, u, [socket |-> s, role |-> users_[u].role])
    /\ socketToUser_' = Put(socketToUser_, s, u)

(* Fault for SessionsComplete: the index by socket is forgotten.             *)
removeSessionOnly(u) ==
    /\ sessions_' = Erase(sessions_, u)
    /\ UNCHANGED socketToUser_

(* A no-op for a user without a session; otherwise the index entry of the    *)
(* socket the session names goes too, whoever that entry belongs to by now.  *)
removeSession(u) ==
    IF u \in DOMAIN sessions_
    THEN /\ sessions_' = Erase(sessions_, u)
         /\ socketToUser_' = Erase(socketToUser_, sessions_[u].socket)
    ELSE UNCHANGED <<sessions_, socketToUser_>>

saveFeedback(target, from) ==
    feedbacks_' = [feedbacks_ EXCEPT ![target] = Append(@, from)]

addGameItem(g) == gameItems_' = [gameItems_ EXCEPT ![g] = @ + 1]

saveFeedbackReturns == TRUE
addGameItemReturns  == TRUE
=============================================================================
