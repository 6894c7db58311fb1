------------------------------ MODULE MCWindow -------------------------------
(* One window, a built-in administrator, and a name that registers, typed with *)
(* a blank before it and the password after a '|': the password typed is then   *)
(* read as the role of a registration.                                         *)
EXTENDS Window

MCUsernames == {"admin", "teacher1", "ann"}
MCPasswords == {"admin123", "teacher123", "secret"}
MCHashes    == {"h0", "h1"}
MCHash(p)   == IF p = "admin123" THEN "h0" ELSE "h1"
MCAccounts  == {<<" ann|secret", "2">>, <<"admin", "admin123">>}

MCNameRead(s)        == IF s = " ann|secret" THEN "ann" ELSE s
MCLoginRead(a)       == IF a[1] = "admin" THEN a ELSE <<"ann", "secret">>
MCRegisterRead(a, r) == Append(MCLoginRead(a), IF a[1] = "admin" THEN r ELSE "TEACHER")

\* Messages do not depend on Requests, which is to be defined by them.
Bare == INSTANCE ClientHandler WITH Sockets <- Conns, Requests <- {}

MCRequests == AskableOf(Bare!Messages)
=============================================================================
