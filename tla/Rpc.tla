-------------------------------- MODULE Rpc --------------------------------
(***************************************************************************)
(* What a caller expects of Client::sendMessageSync: one call at a time, a *)
(* call is carried out at most once, a call that returns an answer returns *)
(* its own, and a call refused for want of a connection never happens.     *)
(* A call that fails may or may not have been carried out, even later on.  *)
(***************************************************************************)
EXTENDS Naturals

CONSTANT Calls  \* the calls, in the order they are made

VARIABLES
    status,   \* the calls: idle, pending, answered, failed or refused
    executed  \* how often the server carried each out

vars == <<status, executed>>

Init ==
    /\ status = [i \in Calls |-> "idle"]
    /\ executed = [i \in Calls |-> 0]

Become(i, s) == status' = [status EXCEPT ![i] = s] /\ UNCHANGED executed

Begin(i, s) ==
    /\ status[i] = "idle"
    /\ \A j \in Calls \ {i} : status[j] # "pending"
    /\ Become(i, s)

Invoke(i) == Begin(i, "pending")

Refuse(i) == Begin(i, "refused")

Reject(i) == Begin(i, "failed")

Execute(i) ==
    /\ status[i] \in {"pending", "failed"}
    /\ executed[i] = 0
    /\ executed' = [executed EXCEPT ![i] = 1]
    /\ UNCHANGED status

Return(i) == status[i] = "pending" /\ executed[i] = 1 /\ Become(i, "answered")

Fail(i) == status[i] = "pending" /\ Become(i, "failed")

Next ==
    \E i \in Calls :
        Invoke(i) \/ Refuse(i) \/ Reject(i) \/ Execute(i) \/ Return(i) \/ Fail(i)

Spec == Init /\ [][Next]_vars
=============================================================================
