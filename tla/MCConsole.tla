------------------------------ MODULE MCConsole ------------------------------
(* One console and one user, who registers in a role and whose name is typed   *)
(* with a blank before it, or with the password after a '|': what the password *)
(* field holds is then read as the role of a registration.                     *)
EXTENDS Console

MCUsernames == {"admin", "teacher1", "ann"}
MCPasswords == {"admin123", "teacher123", "secret"}
MCHashes    == {"h0", "h1"}
MCHash(p)   == IF p = "admin123" THEN "h0" ELSE "h1"
MCAccounts  == {<<" ann", "secret">>, <<"ann|secret", "2">>}

MCNameRead(s)        == IF s \in Typed THEN "ann" ELSE s
MCLoginRead(a)       == <<"ann", "secret">>
MCRegisterRead(a, r) == Append(MCLoginRead(a), IF a[1] = " ann" THEN r ELSE "TEACHER")

MCLines == {[type |-> "LOGIN_REQUEST", parts |-> <<"admin", "admin123">>]}

\* Messages do not depend on Requests, which is to be defined by them.
Bare == INSTANCE ClientHandler WITH Sockets <- Conns, Requests <- {}

MCRequests == AskableOf(Bare!Messages) \cup MCLines
=============================================================================
