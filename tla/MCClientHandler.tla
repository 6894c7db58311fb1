--------------------------- MODULE MCClientHandler ---------------------------
(* Small instances of ClientHandler: two connections, the two built-in        *)
(* accounts and one that registers; each run takes the part of the message    *)
(* alphabet its question is about.                                            *)
EXTENDS ClientHandler

CONSTANTS s1, s2
MCSockets   == {s1, s2}
MCUsernames == {"admin", "teacher1", "ann"}
MCPasswords == {"admin123", "teacher123", "secret"}
MCHashes    == {"h0", "h1"}
MCHash(p)   == IF p = "admin123" THEN "h0" ELSE "h1"  \* two passwords collide
Symmetry    == Permutations(MCSockets)

Req(type, parts) == [type |-> type, parts |-> parts]
Logins == {Req("LOGIN_REQUEST", <<"admin", "admin123">>),
           Req("LOGIN_REQUEST", <<"teacher1", "teacher123">>),
           Req("LOGIN_REQUEST", <<"ann", "secret">>)}
Logout == Req("LOGOUT_REQUEST", << >>)
RegisterAnn(role) == Req("REGISTER_REQUEST", <<"ann", "secret", role>>)

(* Who may do what: logins in any order, staff requests, quizzes.             *)
HandlerRequests ==
    Logins \cup {Logout, RegisterAnn("STUDENT"),
                 Req("SUBMIT_QUIZ_REQUEST", <<"id", "answers">>),
                 Req("GET_SCORE_REQUEST", << >>),
                 Req("SEND_FEEDBACK_REQUEST", <<"ann">>),
                 Req("SEND_FEEDBACK_REQUEST", << >>),
                 Req("ADD_GAME_ITEM_REQUEST", <<"word_match">>),
                 Req("ADD_GAME_ITEM_REQUEST", << >>)}

(* What touches the sessions and the cached level. *)
SessionRequests ==
    Logins \cup {Logout, RegisterAnn("STUDENT"),
                 Req("SET_LEVEL_REQUEST", <<"ADVANCED">>),
                 Req("SET_LEVEL_REQUEST", <<"BEGINNER">>)}

(* A learner's day: every request a student's menu sends, malformed ones too. *)
SoloRequests ==
    SessionRequests \cup
    {Req("LOGIN_REQUEST", <<"ann", "admin123">>), Req("LOGIN_REQUEST", << >>),
     Req("REGISTER_REQUEST", << >>), Req("SET_LEVEL_REQUEST", << >>),
     Req("SUBMIT_QUIZ_REQUEST", <<"id", "answers">>), Req("SUBMIT_QUIZ_REQUEST", << >>),
     Req("SUBMIT_EXERCISE_REQUEST", <<"id", "content">>),
     Req("SUBMIT_EXERCISE_REQUEST", << >>),
     Req("CHAT_MESSAGE", <<"recipient", "text">>), Req("CHAT_MESSAGE", << >>)}
    \cup {Req(t, << >>) : t \in {"GET_LESSON_LIST_REQUEST",
            "GET_LESSON_CONTENT_REQUEST", "GAME_START_REQUEST", "GAME_MOVE_REQUEST",
            "GET_SCORE_REQUEST", "GET_FEEDBACK_REQUEST", "VOICE_CALL_REQUEST",
            "HEARTBEAT_REQUEST", "OTHER_TYPE"}}
=============================================================================
