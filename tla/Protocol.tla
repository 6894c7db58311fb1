------------------------------ MODULE Protocol ------------------------------
(***************************************************************************)
(* The wire format TYPE|LENGTH|SEQUENCE|PAYLOAD\n: Message::serialize and  *)
(* deserialize (message_structs.hpp), Protocol::extractMessages and        *)
(* validateMessage.  A byte string is a sequence of one-character strings. *)
(* Width stands for 2^16, the range of the uint16_t header fields.         *)
(***************************************************************************)
EXTENDS Integers, SequencesExt

CONSTANTS
    Width,          \* 2^16
    MaxMessageSize  \* AppConstants::MAX_MESSAGE_SIZE, 8192

ASSUME WidthAssumption == Width \in Nat /\ MaxMessageSize \in 0..(Width - 1)

UNKNOWN == Width - 1

DigitChars == <<"0", "1", "2", "3", "4", "5", "6", "7", "8", "9">>
Digits     == {DigitChars[i] : i \in 1..10}
Value(c)   == (CHOOSE i \in 1..10 : DigitChars[i] = c) - 1

(* operator<< of an unsigned number. *)
Decimal[n \in Nat] ==
    IF n < 10 THEN <<DigitChars[n + 1]>>
              ELSE Append(Decimal[n \div 10], DigitChars[(n % 10) + 1])

(* std::stoi: the number the leading digits spell; it throws without any.     *)
(* (Signs and blanks do not occur in what the programs write.)               *)
Leading(s) == CHOOSE n \in 0..Len(s) :
                  /\ \A i \in 1..n : s[i] \in Digits
                  /\ n < Len(s) => s[n + 1] \notin Digits
Throws(s)  == Leading(s) = 0
Stoi(s)    ==
    LET value[n \in 0..Leading(s)] == IF n = 0 THEN 0 ELSE 10 * value[n - 1] + Value(s[n])
    IN  value[Leading(s)]

(* std::string::find from position i on; 0 is npos. *)
Find(s, c, i) ==
    IF \E j \in i..Len(s) : s[j] = c
    THEN CHOOSE j \in i..Len(s) : s[j] = c /\ \A k \in i..(j - 1) : s[k] # c
    ELSE 0

(* The constructor: the length is cut to 16 bits.                            *)
Message(type, payload) ==
    [type |-> type, length |-> Len(payload) % Width, sequence |-> 0, payload |-> payload]

Unknown == [type |-> UNKNOWN, length |-> 0, sequence |-> 0, payload |-> << >>]

serialize(m) ==
    Decimal[m.type] \o <<"|">> \o Decimal[m.length] \o <<"|">>
        \o Decimal[m.sequence] \o <<"|">> \o m.payload \o <<"\n">>

(* Fault for RoundTrip: the payload ends at the next delimiter.              *)
deserializeSplitting(data) ==
    LET p1 == Find(data, "|", 1)
        p2 == Find(data, "|", p1 + 1)
        p3 == Find(data, "|", p2 + 1)
        p4 == Find(data, "|", p3 + 1)
        type == SubSeq(data, 1, p1 - 1)
        length == SubSeq(data, p1 + 1, p2 - 1)
        sequence == SubSeq(data, p2 + 1, p3 - 1)
    IN  IF 0 \in {p1, p2, p3} \/ Throws(type) \/ Throws(length) \/ Throws(sequence)
        THEN Unknown
        ELSE [type |-> Stoi(type) % Width, length |-> Stoi(length) % Width,
              sequence |-> Stoi(sequence),
              payload |-> SubSeq(data, p3 + 1, IF p4 = 0 THEN Len(data) ELSE p4 - 1)]

(* The payload is all that follows the third delimiter.  A header that stoi  *)
(* refuses makes the type UNKNOWN; what was read of it does not matter then. *)
deserialize(data) ==
    LET p1 == Find(data, "|", 1)
        p2 == Find(data, "|", p1 + 1)
        p3 == Find(data, "|", p2 + 1)
        type == SubSeq(data, 1, p1 - 1)
        length == SubSeq(data, p1 + 1, p2 - 1)
        sequence == SubSeq(data, p2 + 1, p3 - 1)
    IN  IF 0 \in {p1, p2, p3} \/ Throws(type) \/ Throws(length) \/ Throws(sequence)
        THEN Unknown
        ELSE [type |-> Stoi(type) % Width, length |-> Stoi(length) % Width,
              sequence |-> Stoi(sequence), payload |-> SubSeq(data, p3 + 1, Len(data))]

(* Any type but UNKNOWN passes, whether the enumeration has it or not.       *)
validateMessage(m) ==
    /\ m.type # UNKNOWN
    /\ Len(m.payload) = m.length
    /\ Len(m.payload) <= MaxMessageSize

(* Where the line begins that ends before position i: at the front, once the  *)
(* complete lines before it have been erased.                                *)
LineStart(buffer, i) ==
    CHOOSE s \in 1..i : /\ s > 1 => buffer[s - 1] = "\n"
                        /\ \A j \in s..(i - 1) : buffer[j] # "\n"

(* The line that ends before position i, without the '\r' of a foreign line   *)
(* end.                                                                      *)
Line(buffer, i) ==
    LET line == SubSeq(buffer, LineStart(buffer, i), i - 1)
    IN  IF line # << >> /\ Last(line) = "\r" THEN Front(line) ELSE line

(* The message that position i completes, if any: invalid lines are dropped.  *)
Completed(buffer, i) ==
    LET line == Line(buffer, i)
    IN  IF buffer[i] = "\n" /\ line # << >> /\ validateMessage(deserialize(line))
        THEN <<deserialize(line)>> ELSE << >>

(* What extractMessages returns, in order. *)
Extracted(buffer) == FlattenSeq([i \in DOMAIN buffer |-> Completed(buffer, i)])

(* Fault for TypeOK of Framing: the newline of the last line stays.          *)
RemainingWithEnd(buffer) ==
    LET start == LineStart(buffer, Len(buffer) + 1)
    IN  SubSeq(buffer, IF start = 1 THEN 1 ELSE start - 1, Len(buffer))

(* What it leaves in its buffer argument: the incomplete last line.          *)
Remaining(buffer) == SubSeq(buffer, LineStart(buffer, Len(buffer) + 1), Len(buffer))

(* The payloads that fit the framing. *)
Framable(payload) ==
    /\ Len(payload) <= MaxMessageSize
    /\ \A i \in DOMAIN payload : payload[i] # "\n"
    /\ payload # << >> => Last(payload) # "\r"
=============================================================================
