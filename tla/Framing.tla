------------------------------ MODULE Framing ------------------------------
(***************************************************************************)
(* One direction of a connection at the level of bytes: a sender encodes   *)
(* messages onto a TCP stream, the receiver takes the stream in chunks of  *)
(* any size and extracts messages.  Client::receiveData appends each chunk *)
(* to receiveBuffer_ (Keep); Server::handleClientData puts it in a local   *)
(* buffer that is gone when the call ends (~Keep).                         *)
(***************************************************************************)
EXTENDS Protocol

CONSTANTS
    Outgoing,    \* the messages that may be sent
    MaxSent,     \* bound on the messages sent
    BufferSize,  \* the bytes one recv() takes at most
    Keep         \* the receiver keeps what it could not extract

ASSUME FramingAssumption ==
    MaxSent \in Nat /\ BufferSize \in Nat \ {0} /\ Keep \in BOOLEAN

Chars == Digits \cup {"|", "\n", "\r", "a"}

(* What the constructor makes; no caller gives it the type UNKNOWN.           *)
ASSUME OutgoingAssumption ==
    \A m \in Outgoing : /\ m.type \in (0..(Width - 1)) \ {UNKNOWN}
                        /\ m.payload \in Seq(Chars)
                        /\ m = Message(m.type, m.payload)

VARIABLES
    sent,    \* the messages sent
    wire,    \* the bytes on their way
    buffer,  \* the receiver's incomplete bytes
    got      \* the messages extracted

vars == <<sent, wire, buffer, got>>

(* The receiver holds an incomplete line at most, and what it passed on is    *)
(* valid.                                                                    *)
TypeOK ==
    /\ sent \in Seq(Outgoing)
    /\ wire \in Seq(Chars)
    /\ buffer \in Seq(Chars \ {"\n"})
    /\ \A i \in DOMAIN got : validateMessage(got[i])

Init == sent = << >> /\ wire = << >> /\ buffer = << >> /\ got = << >>

Send(m) ==
    /\ Len(sent) < MaxSent  \* bound
    /\ sent' = Append(sent, m)
    /\ wire' = wire \o serialize(m)
    /\ UNCHANGED <<buffer, got>>

(* Fault for NoLoss: the incomplete bytes replace the buffer. *)
ReceiveForgetting(n) ==
    LET bytes == SubSeq(wire, 1, n) IN
    /\ wire' = SubSeq(wire, n + 1, Len(wire))
    /\ got' = got \o Extracted(bytes)
    /\ buffer' = Remaining(bytes)
    /\ UNCHANGED sent

(* recv() returns what there is, up to the size of the caller's buffer.       *)
Receive(n) ==
    LET bytes == (IF Keep THEN buffer ELSE << >>) \o SubSeq(wire, 1, n) IN
    /\ wire' = SubSeq(wire, n + 1, Len(wire))
    /\ got' = got \o Extracted(bytes)
    /\ buffer' = IF Keep THEN Remaining(bytes) ELSE << >>
    /\ UNCHANGED sent

Next ==
    \/ \E m \in Outgoing : Send(m)
    \/ \E n \in 1..Len(wire) : n <= BufferSize /\ Receive(n)

Spec == Init /\ [][Next]_vars
-----------------------------------------------------------------------------
Stream(messages) == FlattenSeq([i \in DOMAIN messages |-> serialize(messages[i])])

(* How the stream is cut makes no difference: what was extracted, and what    *)
(* the bytes not yet extracted will yield, is what extractMessages makes of   *)
(* the whole stream at once.  ("Partial message? Keep in buffer".)           *)
NoLoss == got \o Extracted(buffer \o wire) = Extracted(Stream(sent))

(* What was sent arrives, and nothing else, if and only if every payload fits *)
(* the framing: no newline inside, no '\r' at the end, no more than           *)
(* MAX_MESSAGE_SIZE bytes (which are far fewer than the 2^16 the length field *)
(* can count).                                                               *)
RoundTrip ==
    wire = << >> => (got = sent <=> \A i \in DOMAIN sent : Framable(sent[i].payload))
=============================================================================
