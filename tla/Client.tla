------------------------------- MODULE Client -------------------------------
(***************************************************************************)
(* The client library (Client.cpp): one thread calls sendMessageSync over  *)
(* a TCP connection, and may disconnect and connect again between calls.   *)
(* Calls are numbered; a request carries its number only in this model,    *)
(* for the wire format's sequence field is always 0.  A response is two    *)
(* pieces of bytes, the second one ending in its newline, so that a chunk  *)
(* may end inside it.  A response that the framing breaks carries call 0,  *)
(* and the answer to a message that the server found inside the text of a  *)
(* request, and that no call made, a negative number.                      *)
(* What the requests say, and who makes them, is in Link and above.        *)
(***************************************************************************)
EXTENDS Integers, SequencesExt

CONSTANTS
    MaxCalls,  \* bound on the calls
    MaxLate,   \* bound on the calls before one that begins after a mishap
    MaxConns,  \* bound on the connections made
    MaxStrays  \* bound on the messages found inside requests

ASSUME ClientAssumption == {MaxCalls, MaxLate, MaxConns, MaxStrays} \subseteq Nat

VARIABLES
    alive,          \* the client process
    connected_,     \* Client::connected_
    receiveBuffer_, \* Client::receiveBuffer_
    waiting,        \* sendMessageSync is in its receive loop
    results,        \* per finished call: its connection (0: none) and the
                    \* call whose response it returned (0: an error)
    conn,           \* the number of connections made so far
    broken,         \* a reset has reached this connection
    up,             \* per connection: requests on their way to the server
    down,           \* the response bytes on their way to the client
    serverOpen,     \* per connection: the server has not closed it
    executed,       \* per call: how often the server carried it out
    strays,         \* messages found inside requests so far
    orderly,        \* so far no answer came after its call had given up, or
                    \* only in part; the server saw the end of a connection
                    \* before it served the next; and no part of a request
                    \* was carried out as a request
    lossless        \* so far the server read every request whole that was
                    \* sent on a connection still open at the client

local      == <<alive, connected_, receiveBuffer_, waiting, results, conn>>
remote     == <<up, down, serverOpen, executed, strays>>
mishaps    == <<orderly, lossless>>
clientVars == <<local, broken, remote, mishaps>>

Calls == 1..MaxCalls
Conns == 1..MaxConns
Ids   == (-MaxStrays)..MaxCalls
Piece == [id : Ids, part : {1, 2}]
First == [id : Ids, part : {1}]

Result == [conn : 0..MaxConns, answer : Ids]

Current == Len(results) + 1  \* the call being made or made next

Response(i) == <<[id |-> i, part |-> 1], [id |-> i, part |-> 2]>>
-----------------------------------------------------------------------------
(* Protocol::extractMessages: the newlines among the bytes received. *)
Ends(bytes) == {k \in DOMAIN bytes : bytes[k].part = 2}

(* The line that ends at k is a response, both pieces of it and no more.      *)
Whole(bytes, k) ==
    /\ k > 1 /\ bytes[k - 1] = [id |-> bytes[k].id, part |-> 1]
    /\ k > 2 => bytes[k - 2].part = 2

(* The ends of the messages: a response whose payload holds a newline is      *)
(* dropped, its lines one by one; a line that is not one response, which only *)
(* the rest of an older connection's bytes can make, is dropped too, or       *)
(* passes for a message of some type nobody waits for (garbled).              *)
Extract(bytes, garbled) ==
    {k \in Ends(bytes) : IF Whole(bytes, k) THEN bytes[k].id # 0 ELSE garbled}

(* The call that the message ending at k answers. *)
Answered(bytes, k) == IF Whole(bytes, k) THEN bytes[k].id ELSE 0

Rest(bytes) == SubSeq(bytes, Max({0} \cup Ends(bytes)) + 1, Len(bytes))
-----------------------------------------------------------------------------
ClientInit ==
    /\ orderly = TRUE /\ lossless = TRUE
    /\ alive = TRUE /\ connected_ = FALSE /\ waiting = FALSE
    /\ broken = FALSE
    /\ receiveBuffer_ = << >> /\ results = << >> /\ conn = 0
    /\ up = [c \in Conns |-> << >>] /\ down = << >>
    /\ serverOpen = [c \in Conns |-> FALSE]
    /\ executed = [i \in Calls |-> 0] /\ strays = 0

(* receiveBuffer_ keeps what it held. *)
Connect ==
    /\ alive /\ ~connected_
    /\ conn < MaxConns  \* bound
    /\ connected_' = TRUE
    /\ conn' = conn + 1
    /\ serverOpen' = [serverOpen EXCEPT ![conn'] = TRUE]
    /\ broken' = FALSE
    /\ UNCHANGED <<alive, receiveBuffer_, waiting, results, up, down, executed, strays,
                   mishaps>>

(* What was still on its way here is lost with the socket. *)
Disconnect ==
    /\ alive /\ connected_ /\ ~waiting
    /\ connected_' = FALSE
    /\ down' = << >>
    /\ UNCHANGED <<alive, receiveBuffer_, waiting, results, conn, broken,
                   up, serverOpen, executed, strays, mishaps>>

Finish(answer) ==
    /\ results' = Append(results, [conn |-> IF connected_ THEN conn ELSE 0, answer |-> answer])
    /\ waiting' = FALSE

(* The bound on what follows a mishap. *)
NotTooLate == (orderly /\ lossless) \/ Len(results) < MaxLate

(* sendMessageSync on no connection: "Not connected". *)
Refused ==
    /\ alive /\ ~connected_
    /\ Len(results) < MaxCalls /\ NotTooLate
    /\ Finish(0)
    /\ UNCHANGED <<alive, connected_, receiveBuffer_, conn, broken, remote, mishaps>>

(* sendMessageSync up to its loop.  send() on a connection that a reset has   *)
(* reached raises SIGPIPE, which nothing in the client handles, unless it is  *)
(* the first to report a reset that no hang-up preceded (SendFails).          *)
Send ==
    /\ alive /\ connected_ /\ ~waiting
    /\ Len(results) < MaxCalls /\ NotTooLate
    /\ IF broken
       THEN alive' = FALSE /\ UNCHANGED <<waiting, up>>
       ELSE /\ waiting' = TRUE
            /\ up' = [up EXCEPT ![conn] = Append(@, Current)]
            /\ UNCHANGED alive
    /\ UNCHANGED <<connected_, receiveBuffer_, results, conn, broken,
                   down, serverOpen, executed, strays, mishaps>>

(* "Send failed": that report, or a full send buffer.                         *)
SendFails ==
    /\ alive /\ connected_ /\ ~waiting
    /\ Len(results) < MaxCalls /\ NotTooLate
    /\ broken \/ up[conn] # << >>
    /\ lossless' = (lossless /\ broken)
    /\ Finish(0)
    /\ UNCHANGED <<alive, connected_, receiveBuffer_, conn, broken, remote, orderly>>

(* Fault for AnswersInOrder: what was extracted stays in the buffer. *)
PollKeeping(n, garbled) ==
    LET bytes == receiveBuffer_ \o SubSeq(down, 1, n)
        messages == Extract(bytes, garbled)
    IN  /\ alive /\ waiting
        /\ receiveBuffer_' = bytes
        /\ down' = SubSeq(down, n + 1, Len(down))
        /\ IF messages # {} THEN Finish(Answered(bytes, Min(messages)))
                            ELSE UNCHANGED <<waiting, results>>
        /\ UNCHANGED <<alive, connected_, conn, broken, up, serverOpen, executed, strays, mishaps>>

(* Fault for FromThisConnection: the messages after the first stay. *)
PollFirst(n, garbled) ==
    LET bytes == receiveBuffer_ \o SubSeq(down, 1, n)
        messages == Extract(bytes, garbled)
    IN  /\ alive /\ waiting
        /\ receiveBuffer_' = SubSeq(bytes, IF Ends(bytes) = {} THEN 1 ELSE Min(Ends(bytes)) + 1,
                                      Len(bytes))
        /\ down' = SubSeq(down, n + 1, Len(down))
        /\ IF messages # {} THEN Finish(Answered(bytes, Min(messages)))
                            ELSE UNCHANGED <<waiting, results>>
        /\ UNCHANGED <<alive, connected_, conn, broken, up, serverOpen, executed, strays, mishaps>>

(* Fault for ReturnsAnswers: an incomplete line is not kept. *)
PollForgetting(n, garbled) ==
    LET bytes == receiveBuffer_ \o SubSeq(down, 1, n)
        messages == Extract(bytes, garbled)
    IN  /\ alive /\ waiting
        /\ receiveBuffer_' = << >>
        /\ down' = SubSeq(down, n + 1, Len(down))
        /\ IF messages # {} THEN Finish(Answered(bytes, Min(messages)))
                            ELSE UNCHANGED <<waiting, results>>
        /\ UNCHANGED <<alive, connected_, conn, broken, up, serverOpen, executed, strays, mishaps>>

(* One round of the loop with n pieces received: the first message extracted  *)
(* is the response, the others are dropped.                                   *)
Poll(n, garbled) ==
    LET bytes == receiveBuffer_ \o SubSeq(down, 1, n)
        messages == Extract(bytes, garbled)
    IN  /\ alive /\ waiting
        /\ receiveBuffer_' = Rest(bytes)
        /\ down' = SubSeq(down, n + 1, Len(down))
        /\ IF messages # {} THEN Finish(Answered(bytes, Min(messages)))
                            ELSE UNCHANGED <<waiting, results>>
        /\ UNCHANGED <<alive, connected_, conn, broken, up, serverOpen, executed, strays, mishaps>>

NoAnswerComing == down = << >> /\ (up[conn] = << >> \/ ~serverOpen[conn])

(* Fault for ImplementsRpc: the time-out strikes before the answer can come. *)
TimeOutEarly ==
    /\ alive /\ waiting
    /\ Finish(0)
    /\ UNCHANGED <<alive, connected_, receiveBuffer_, conn, broken, remote, mishaps>>

(* Fault for CallsReturn: a recv() of 0 goes round the loop without a look at *)
(* the clock.                                                                 *)
TimeOutWhileOpen ==
    /\ alive /\ waiting
    /\ serverOpen[conn]
    /\ orderly' = (orderly /\ NoAnswerComing)
    /\ Finish(0)
    /\ UNCHANGED <<alive, connected_, receiveBuffer_, conn, broken, remote, lossless>>

(* More than 10 s have passed without a message.  A recv() of 0, the end of   *)
(* the connection, is like one that found nothing: connected_ stays TRUE.     *)
TimeOut ==
    /\ alive /\ waiting
    /\ orderly' = (orderly /\ NoAnswerComing)
    /\ Finish(0)
    /\ UNCHANGED <<alive, connected_, receiveBuffer_, conn, broken, remote, lossless>>
-----------------------------------------------------------------------------
(* The server's end of connection c, as its loop and the network behave.      *)
OlderClosed(c) == \A d \in Conns : d < c => ~serverOpen[d]

(* What reaches the client's wire of a response: n of its pieces, for the     *)
(* server's non-blocking send() may take a part or nothing when its buffer is *)
(* full, which loses the rest.                                                *)
Written(c, id, n) ==
    /\ n < 2 => connected_ /\ c = conn /\ down # << >>
    /\ down' = IF connected_ /\ c = conn THEN down \o SubSeq(Response(id), 1, n) ELSE down

(* A request is carried out; fits: its response fits the framing.             *)
Serve(c, fits, n) ==
    /\ serverOpen[c] /\ up[c] # << >>
    /\ orderly' = (orderly /\ OlderClosed(c) /\ n = 2)
    /\ up' = [up EXCEPT ![c] = Tail(@)]
    /\ executed' = [executed EXCEPT ![Head(up[c])] = @ + 1]
    /\ Written(c, IF fits THEN Head(up[c]) ELSE 0, n)
    /\ UNCHANGED <<local, broken, serverOpen, strays, lossless>>

(* Protocol::extractMessages at the server decodes each line of a request on  *)
(* its own: a line of its text, or what follows the cut in a request read in  *)
(* two parts, that is a message in itself is carried out and answered.        *)
Misread(c, fits, n) ==
    /\ serverOpen[c] /\ up[c] # << >>
    /\ strays < MaxStrays  \* bound
    /\ strays' = strays + 1
    /\ orderly' = FALSE
    /\ Written(c, IF fits THEN -(strays + 1) ELSE 0, n)
    /\ UNCHANGED <<local, broken, up, serverOpen, executed, lossless>>

(* The lines that are no messages are dropped, without an answer. *)
Drop(c) ==
    /\ serverOpen[c] /\ up[c] # << >>
    /\ up' = [up EXCEPT ![c] = Tail(@)]
    /\ UNCHANGED <<local, broken, down, serverOpen, executed, strays, mishaps>>

(* A request read in two parts is dropped by the server; one on a connection  *)
(* the client has closed may be lost.                                         *)
Lose(c) ==
    /\ up[c] # << >>
    /\ lossless' = (lossless /\ ~(connected_ /\ c = conn))
    /\ up' = [up EXCEPT ![c] = Tail(@)]
    /\ UNCHANGED <<local, broken, down, serverOpen, executed, strays, orderly>>

(* The peer's hang-up, the idle time-out, or the end of the server. *)
ServerClose(c) ==
    /\ serverOpen[c]
    /\ serverOpen' = [serverOpen EXCEPT ![c] = FALSE]
    /\ UNCHANGED <<local, broken, up, down, executed, strays, mishaps>>

(* The answer to bytes sent on a connection that the server has closed.       *)
Reset ==
    /\ connected_ /\ ~serverOpen[conn] /\ up[conn] # << >>
    /\ broken' = TRUE
    /\ up' = [up EXCEPT ![conn] = << >>]
    /\ down' \in {down, << >>}
    /\ UNCHANGED <<local, serverOpen, executed, strays, mishaps>>
-----------------------------------------------------------------------------
FlagsOK ==
    /\ alive \in BOOLEAN /\ connected_ \in BOOLEAN /\ waiting \in BOOLEAN
    /\ broken \in BOOLEAN /\ orderly \in BOOLEAN /\ lossless \in BOOLEAN
    /\ waiting => alive /\ connected_

QueuesOK ==
    /\ receiveBuffer_ \in Seq(First)
    /\ down \in Seq(Piece)
    /\ results \in Seq(Result)
    /\ conn \in 0..MaxConns
    /\ up \in [Conns -> Seq(Calls)]
    /\ serverOpen \in [Conns -> BOOLEAN]
    /\ executed \in [Calls -> Nat]
    /\ strays \in 0..MaxStrays

ClientTypeOK == FlagsOK /\ QueuesOK

(* However late responses come, and whatever answers nobody asked for come    *)
(* between them, each is returned to one call at most, in the order of the    *)
(* calls, and never to a call made before its own.                            *)
AnswersInOrder ==
    \A i \in DOMAIN results : results[i].answer > 0 =>
        /\ results[i].answer <= i
        /\ executed[results[i].answer] > 0
        /\ \A j \in 1..(i - 1) : results[j].answer < results[i].answer

(* No call returns a response from an older connection, though the bytes      *)
(* received before a reconnect stay in receiveBuffer_.                        *)
FromThisConnection ==
    \A i \in DOMAIN results : results[i].answer \in 1..i =>
        results[results[i].answer].conn = results[i].conn

Status(i) ==
    IF i > Len(results) THEN IF i = Current /\ waiting THEN "pending" ELSE "idle"
    ELSE IF results[i].conn = 0 THEN "refused"
    ELSE IF results[i].answer = 0 THEN "failed"
    ELSE IF results[i].answer = i THEN "answered"
    ELSE "mismatched"

(* As long as all is orderly, whatever requests are lost, the library is a    *)
(* remote procedure call as Rpc states it: own answers only, and each call    *)
(* carried out once at most.                                                  *)
R == INSTANCE Rpc WITH status <- [i \in Calls |-> Status(i)]
ImplementsRpc == R!Init /\ [][orderly' => [R!Next]_(R!vars)]_clientVars
=============================================================================
