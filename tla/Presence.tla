------------------------------ MODULE Presence ------------------------------
(***************************************************************************)
(* What the login sessions promise: a user is online on at most one open   *)
(* connection, a connection carries at most one user, and a user goes      *)
(* offline by logging out or when the connection closes.                   *)
(***************************************************************************)
CONSTANTS Users, Conns

VARIABLES
    open,   \* the open connections
    online  \* user -> the connection it is online on

vars == <<open, online>>

Init == open = {} /\ online = << >>

Open(s) == s \notin open /\ open' = open \cup {s} /\ UNCHANGED online

Close(s) ==
    /\ s \in open
    /\ open' = open \ {s}
    /\ online' = [u \in {v \in DOMAIN online : online[v] # s} |-> online[u]]

Login(u, s) ==
    /\ s \in open
    /\ u \notin DOMAIN online
    /\ \A v \in DOMAIN online : online[v] # s
    /\ online' = [v \in DOMAIN online \cup {u} |-> IF v = u THEN s ELSE online[v]]
    /\ UNCHANGED open

Logout(u) ==
    /\ u \in DOMAIN online
    /\ online' = [v \in DOMAIN online \ {u} |-> online[v]]
    /\ UNCHANGED open

Next ==
    \/ \E s \in Conns : Open(s) \/ Close(s)
    \/ \E u \in Users : Logout(u) \/ \E s \in Conns : Login(u, s)

Spec == Init /\ [][Next]_vars
=============================================================================
