----------------------------- MODULE Rpc_proofs -----------------------------
(***************************************************************************)
(* Proof that the client library is the remote procedure call of Rpc for   *)
(* as long as all is orderly, whatever the front end does with it.         *)
(***************************************************************************)
EXTENDS Client_proofs, SequenceTheorems

(* A call is carried out once at most, and not before it is made. *)
CarriedOnce ==
    /\ waiting => Current \in Calls
    /\ \A i \in Calls : executed[i] \in {0, 1} /\ (i > Begun => executed[i] = 0)

(* The server has at most one request to read: that of the waiting call.     *)
Asked(c) == waiting /\ c = conn /\ up[c] = <<Current>> /\ executed[Current] = 0

OneRequest == \A c \in Conns : serverOpen[c] => up[c] = << >> \/ Asked(c)

(* The bytes at the client and on their way to it are those of one response,  *)
(* whole or with its first piece in the buffer.                               *)
Quiet == receiveBuffer_ = << >> /\ down = << >>

Arriving(i) ==
    /\ up[conn] = << >>
    /\ \/ receiveBuffer_ = << >> /\ down = Response(i)
       \/ receiveBuffer_ = <<[id |-> i, part |-> 1]>> /\ down = <<[id |-> i, part |-> 2]>>

OneResponse ==
    \/ Quiet
    \/ waiting /\ Arriving(0)
    \/ waiting /\ Arriving(Current) /\ executed[Current] = 1

PromptInv ==
    OrderInv /\ orderly = TRUE /\ CarriedOnce /\ OneRequest /\ OneResponse

-----------------------------------------------------------------------------
(* What the front ends and the proofs below need of the types. *)
LEMMA PromptTypes ==
    ASSUME PromptInv
    PROVE  /\ Len(results) \in Nat /\ DOMAIN results = 1..Len(results)
           /\ Current = Len(results) + 1 /\ Current \in Nat
           /\ Begun = IF waiting THEN Current ELSE Len(results)
           /\ waiting \in BOOLEAN /\ connected_ \in BOOLEAN
           /\ waiting => alive /\ connected_ /\ Current \in Calls
           /\ connected_ => conn \in Conns /\ conn # 0
           /\ conn \in 0..MaxConns
           /\ up \in [Conns -> Seq(Calls)] /\ executed \in [Calls -> Nat]
           /\ serverOpen \in [Conns -> BOOLEAN]
<1>1. results \in Seq(Result)
  BY DEF PromptInv, OrderInv, ClientTypeOK, QueuesOK
<1>2. Len(results) \in Nat /\ DOMAIN results = 1..Len(results)
  BY <1>1
<1>3. /\ conn \in 0..MaxConns /\ up \in [Conns -> Seq(Calls)]
      /\ executed \in [Calls -> Nat] /\ serverOpen \in [Conns -> BOOLEAN]
  BY DEF PromptInv, OrderInv, ClientTypeOK, QueuesOK
<1>4. /\ waiting \in BOOLEAN /\ connected_ \in BOOLEAN /\ (waiting => alive /\ connected_)
  BY DEF PromptInv, OrderInv, ClientTypeOK, FlagsOK
<1>5. connected_ => conn \in Conns /\ conn # 0
  BY <1>3, ClientAssumption DEF PromptInv, OrderInv, WiresOpen, Conns
<1>6. waiting => Current \in Calls
  BY DEF PromptInv, CarriedOnce
<1> QED BY <1>2, <1>3, <1>4, <1>5, <1>6 DEF Current, Begun

(* The chunks that the one or two pieces of a response may come in. *)
LEMMA Chunks ==
    ASSUME NEW p, NEW q
    PROVE  /\ << >> \o <<p>> = <<p>> /\ << >> \o <<p, q>> = <<p, q>> /\ <<p>> \o <<q>> = <<p, q>>
           /\ SubSeq(<<p>>, 1, 1) = <<p>> /\ SubSeq(<<p, q>>, 1, 2) = <<p, q>>
           /\ SubSeq(<<p, q>>, 1, 1) = <<p>> /\ SubSeq(<<p, q>>, 2, 2) = <<q>>
<1> DEFINE S == {p, q}
<1>1. /\ <<p>> \in Seq(S) /\ Len(<<p>>) = 1
      /\ <<p, q>> \in Seq(S) /\ Len(<<p, q>>) = 2
  OBVIOUS
<1>2. \A t \in Seq(S) : Len(t) = 1 => t = <<t[1]>>
  OBVIOUS
<1>3. SubSeq(<<p, q>>, 1, 1) = <<p>> /\ SubSeq(<<p, q>>, 2, 2) = <<q>>
  <2>1. /\ SubSeq(<<p, q>>, 1, 1) \in Seq(S) /\ Len(SubSeq(<<p, q>>, 1, 1)) = 1
        /\ SubSeq(<<p, q>>, 1, 1)[1] = p
    OBVIOUS
  <2>2. /\ SubSeq(<<p, q>>, 2, 2) \in Seq(S) /\ Len(SubSeq(<<p, q>>, 2, 2)) = 1
        /\ SubSeq(<<p, q>>, 2, 2)[1] = q
    OBVIOUS
  <2> HIDE DEF S
  <2> QED BY <1>2, <2>1, <2>2
<1>4. SubSeq(<<p>>, 1, 1) = <<p>> /\ SubSeq(<<p, q>>, 1, 2) = <<p, q>>
  BY <1>1, SubSeqFull
<1>5. << >> \o <<p>> = <<p>> /\ << >> \o <<p, q>> = <<p, q>>
  BY <1>1, ConcatEmptySeq
<1>6. <<p>> \o <<q>> = <<p, q>>
  <2>1. \A t \in Seq(S) : Len(t) = 2 => t = <<t[1], t[2]>>
    OBVIOUS
  <2>2. /\ <<p>> \o <<q>> \in Seq(S) /\ Len(<<p>> \o <<q>>) = 2
        /\ (<<p>> \o <<q>>)[1] = p /\ (<<p>> \o <<q>>)[2] = q
    OBVIOUS
  <2> HIDE DEF S
  <2> QED BY <2>1, <2>2
<1> QED BY <1>3, <1>4, <1>5, <1>6

(* One piece is no message, and a response is one, unless it is broken.       *)
LEMMA OnePiece ==
    ASSUME NEW i, NEW garbled \in BOOLEAN, NEW bytes, bytes = <<[id |-> i, part |-> 1]>>
    PROVE  Extract(bytes, garbled) = {} /\ Rest(bytes) = bytes
<1>1. Len(bytes) = 1 /\ DOMAIN bytes = {1} /\ bytes[1].part = 1
  OBVIOUS
<1>2. Ends(bytes) = {}
  BY <1>1 DEF Ends
<1>3. Max({0} \cup Ends(bytes)) = 0
  <2>1. {0} \cup Ends(bytes) = {0} /\ {0} \subseteq 0..0
    BY <1>2
  <2> QED BY <2>1, MaxIsGreatest
<1>4. SubSeq(bytes, 1, 1) = bytes
  BY Chunks
<1> QED BY <1>1, <1>2, <1>3, <1>4 DEF Extract, Rest

LEMMA TwoPieces ==
    ASSUME NEW i \in 0..MaxCalls, NEW garbled \in BOOLEAN
    PROVE  LET messages == Extract(Response(i), garbled)
           IN  /\ messages = IF i = 0 THEN {} ELSE {2}
               /\ i # 0 => Answered(Response(i), Min(messages)) = i
               /\ Rest(Response(i)) = << >>
<1> DEFINE bytes == Response(i)
<1>1. /\ Len(bytes) = 2 /\ DOMAIN bytes = {1, 2} /\ bytes \in Seq(Piece)
      /\ bytes[1] = [id |-> i, part |-> 1] /\ bytes[2] = [id |-> i, part |-> 2]
  BY IdsAreNumbers DEF Response, Piece
<1>2. bytes[1].part = 1 /\ bytes[2].part = 2 /\ bytes[2].id = i
  BY <1>1
<1> HIDE DEF bytes
<1>3. Ends(bytes) = {2}
  BY <1>1, <1>2 DEF Ends
<1>4. Whole(bytes, 2)
  BY <1>1, <1>2 DEF Whole
<1>5. Extract(bytes, garbled) = IF i = 0 THEN {} ELSE {2}
  BY <1>2, <1>3, <1>4 DEF Extract
<1>6. Min({2}) = 2
  BY MinIsLeast
<1>7. Max({0} \cup Ends(bytes)) = 2
  <2>1. {0, 2} \subseteq 0..2 /\ {0, 2} # {} /\ {0} \cup Ends(bytes) = {0, 2}
    BY <1>3
  <2>2. Max({0, 2}) \in {0, 2} /\ 2 <= Max({0, 2})
    BY <2>1, MaxIsGreatest
  <2> QED BY <2>1, <2>2
<1>8. Rest(bytes) = << >>
  BY <1>1, <1>7 DEF Rest
<1> QED BY <1>2, <1>4, <1>5, <1>6, <1>8 DEF Answered, bytes

(* The response that arrives is the broken one or that of the call.           *)
LEMMA OneArrives == ASSUME NEW i, Arriving(0), Arriving(i) PROVE i = 0
<1>1. \A k : down = Response(k) => down[1].id = k /\ Len(down) = 2
  BY DEF Response
<1>2. \A k : down = <<[id |-> k, part |-> 2]>> => down[1].id = k /\ Len(down) = 1
  OBVIOUS
<1> QED BY <1>1, <1>2 DEF Arriving

(* A round of the receive loop moves the first piece into the buffer, drops a  *)
(* broken response, or returns the answer to the waiting call.                 *)
LEMMA PollOutcomes ==
    ASSUME PromptInv, NEW n \in 1..Len(down), NEW garbled \in BOOLEAN, Poll(n, garbled)
    PROVE  /\ waiting
           /\ UNCHANGED <<alive, connected_, conn, broken, up, serverOpen, executed, orderly>>
           /\ \/ /\ UNCHANGED <<waiting, results>>
                 /\ \/ Arriving(0) /\ (Quiet' \/ Arriving(0)')
                    \/ Arriving(Current)' /\ executed[Current] = 1
              \/ Finish(Current) /\ Arriving(Current) /\ Quiet' /\ executed[Current] = 1
<1> DEFINE bytes == receiveBuffer_ \o SubSeq(down, 1, n)
           messages == Extract(bytes, garbled)
<1>1. /\ waiting /\ receiveBuffer_' = Rest(bytes) /\ down' = SubSeq(down, n + 1, Len(down))
      /\ IF messages # {} THEN Finish(Answered(bytes, Min(messages)))
                          ELSE UNCHANGED <<waiting, results>>
      /\ UNCHANGED <<alive, connected_, conn, broken, up, serverOpen, executed, orderly>>
  BY DEF Poll, mishaps
<1>2. /\ Current \in 1..MaxCalls /\ Current # 0 /\ Current \in 0..MaxCalls /\ 0 \in 0..MaxCalls
  BY <1>1, PromptTypes, ClientAssumption DEF Calls
<1>3. PICK i \in {0, Current} : Arriving(i) /\ (i # 0 => executed[Current] = 1)
  <2>1. ~Quiet
    BY DEF Quiet
  <2> QED BY <1>2, <2>1 DEF PromptInv, OneResponse
<1>4. i \in 0..MaxCalls
  BY <1>2
<1> DEFINE first == [id |-> i, part |-> 1]
           second == [id |-> i, part |-> 2]
<1>5. Response(i) = <<first, second>> /\ up[conn] = << >>
  BY <1>3 DEF Response, Arriving
<1>6. ASSUME bytes = <<first>>, down' = <<second>>
      PROVE  UNCHANGED <<waiting, results>> /\ Arriving(i)'
  <2>1. messages = {} /\ Rest(bytes) = <<first>>
    BY <1>6, OnePiece
  <2>2. receiveBuffer_' = <<first>> /\ UNCHANGED <<waiting, results, up, conn>>
    BY <1>1, <2>1
  <2> QED BY <1>5, <1>6, <2>2 DEF Arriving
<1>7. ASSUME bytes = Response(i), down' = << >>
      PROVE  Quiet' /\ IF i = 0 THEN UNCHANGED <<waiting, results>> ELSE Finish(i)
  <2>1. /\ Rest(bytes) = << >> /\ messages = IF i = 0 THEN {} ELSE {2}
        /\ i # 0 => Answered(bytes, Min(messages)) = i
    BY <1>4, <1>7, TwoPieces
  <2>2. Quiet'
    BY <1>1, <1>7, <2>1 DEF Quiet
  <2>3. CASE i = 0
    BY <1>1, <2>1, <2>2, <2>3
  <2>4. CASE i # 0
    <3>1. messages # {} /\ Answered(bytes, Min(messages)) = i
      BY <2>1, <2>4
    <3> HIDE DEF bytes
    <3> QED BY <1>1, <2>2, <2>4, <3>1
  <2> QED BY <2>3, <2>4
<1>8. \/ bytes = <<first>> /\ down' = <<second>>
      \/ bytes = Response(i) /\ down' = << >>
  <2>1. CASE receiveBuffer_ = << >> /\ down = <<first, second>>
    <3>1. Len(down) = 2 /\ n \in {1, 2}
      BY <2>1
    <3>2. CASE n = 1
      <4>1. bytes = << >> \o SubSeq(<<first, second>>, 1, 1)
        BY <2>1, <3>2
      <4>2. down' = SubSeq(<<first, second>>, 2, 2)
        BY <1>1, <2>1, <3>1, <3>2
      <4> QED BY <4>1, <4>2, Chunks
    <3>3. CASE n = 2
      <4>1. down' = << >>
        BY <1>1, <3>1, <3>3
      <4>2. bytes = << >> \o SubSeq(<<first, second>>, 1, 2)
        BY <2>1, <3>3
      <4> QED BY <1>5, <4>1, <4>2, Chunks
    <3> QED BY <3>1, <3>2, <3>3
  <2>2. CASE receiveBuffer_ = <<first>> /\ down = <<second>>
    <3>1. Len(down) = 1 /\ n = 1
      BY <2>2
    <3>2. bytes = <<first, second>>
      BY <2>2, <3>1, Chunks
    <3>3. down' = << >>
      BY <1>1, <3>1
    <3> QED BY <1>5, <3>2, <3>3
  <2> QED BY <1>3, <1>5, <2>1, <2>2 DEF Arriving
<1>9. CASE bytes = <<first>> /\ down' = <<second>>
  <2>1. UNCHANGED <<waiting, results>> /\ Arriving(i)' /\ Current' = Current
    BY <1>6, <1>9 DEF Current
  <2>2. CASE i = 0
    BY <1>1, <1>3, <2>1, <2>2
  <2>3. CASE i = Current
    BY <1>1, <1>2, <1>3, <2>1, <2>3
  <2> QED BY <2>2, <2>3
<1>10. CASE bytes = Response(i) /\ down' = << >>
  BY <1>1, <1>2, <1>3, <1>7, <1>10
<1> QED BY <1>8, <1>9, <1>10

-----------------------------------------------------------------------------
(* The calls and what they have come to do not change. *)
LEMMA SameCalls ==
    UNCHANGED <<results, waiting, executed>> => UNCHANGED R!vars /\ Current' = Current /\ Begun' = Begun
BY DEF R!vars, Status, Current, Begun

LEMMA InitPrompt == ClientInit => PromptInv /\ R!Init
<1> SUFFICES ASSUME ClientInit PROVE PromptInv /\ R!Init
  OBVIOUS
<1>1. OrderInv
  BY InitOrder
<1>2. CarriedOnce /\ OneRequest /\ OneResponse /\ orderly = TRUE
  BY DEF ClientInit, CarriedOnce, OneRequest, OneResponse, Quiet
<1>3. \A i \in Calls : Status(i) = "idle"
  BY DEF ClientInit, Status, Calls, Current
<1>4. R!Init
  BY <1>3 DEF R!Init, ClientInit
<1> QED BY <1>1, <1>2, <1>4 DEF PromptInv

(* Connections come and go between the calls.                                 *)
LEMMA ConnectKeepsPrompt ==
    ASSUME PromptInv, Connect
    PROVE  orderly' = TRUE /\ CarriedOnce' /\ OneRequest' /\ OneResponse' /\ UNCHANGED R!vars
<1>1. /\ ~connected_ /\ ~waiting /\ conn' = conn + 1 /\ conn < MaxConns
      /\ UNCHANGED <<receiveBuffer_, waiting, results, up, down, executed, orderly>>
      /\ serverOpen' = [serverOpen EXCEPT ![conn'] = TRUE]
  BY PromptTypes DEF Connect, mishaps
<1>2. UNCHANGED R!vars /\ Current' = Current /\ Begun' = Begun
  BY <1>1, SameCalls
<1>3. orderly' = TRUE /\ CarriedOnce' /\ OneResponse'
  BY <1>1, <1>2 DEF PromptInv, CarriedOnce, OneResponse, Quiet
<1>4. up[conn'] = << >>
  <2>1. conn' \in Conns /\ conn' > conn
    BY <1>1, PromptTypes, ClientAssumption DEF Conns
  <2> QED BY <2>1 DEF PromptInv, OrderInv, WiresOpen
<1>5. OneRequest'
  BY <1>1, <1>4, PromptTypes DEF PromptInv, OneRequest, Asked
<1> QED BY <1>2, <1>3, <1>5

LEMMA DisconnectKeepsPrompt ==
    ASSUME PromptInv, Disconnect
    PROVE  orderly' = TRUE /\ CarriedOnce' /\ OneRequest' /\ OneResponse' /\ UNCHANGED R!vars
<1>1. /\ ~waiting /\ down' = << >>
      /\ UNCHANGED <<receiveBuffer_, waiting, results, conn, up, serverOpen, executed, orderly>>
  BY DEF Disconnect, mishaps
<1>2. UNCHANGED R!vars /\ Current' = Current /\ Begun' = Begun
  BY <1>1, SameCalls
<1> QED BY <1>1, <1>2 DEF PromptInv, CarriedOnce, OneRequest, Asked, OneResponse, Quiet

LEMMA CloseKeepsPrompt ==
    ASSUME PromptInv, NEW c \in Conns, ServerClose(c)
    PROVE  orderly' = TRUE /\ CarriedOnce' /\ OneRequest' /\ OneResponse' /\ UNCHANGED R!vars
<1>1. /\ serverOpen' = [serverOpen EXCEPT ![c] = FALSE]
      /\ UNCHANGED <<receiveBuffer_, waiting, results, conn, up, down, executed, orderly>>
  BY DEF ServerClose, local, mishaps
<1>2. UNCHANGED R!vars /\ Current' = Current /\ Begun' = Begun
  BY <1>1, SameCalls
<1>3. OneRequest'
  BY <1>1, <1>2, PromptTypes DEF PromptInv, OneRequest, Asked
<1>4. CarriedOnce' /\ OneResponse'
  BY <1>1, <1>2 DEF PromptInv, CarriedOnce, OneResponse, Quiet, Arriving, Response
<1> QED BY <1>1, <1>2, <1>3, <1>4 DEF PromptInv

(* A request that comes to nothing leaves the wire. *)
LEMMA LossKeepsPrompt ==
    ASSUME PromptInv, NEW c \in Conns, Drop(c) \/ Lose(c)
    PROVE  orderly' = TRUE /\ CarriedOnce' /\ OneRequest' /\ OneResponse' /\ UNCHANGED R!vars
<1>1. /\ up[c] # << >> /\ up' = [up EXCEPT ![c] = Tail(@)]
      /\ UNCHANGED <<receiveBuffer_, waiting, results, conn, down, serverOpen, executed, orderly>>
  BY DEF Drop, Lose, local, mishaps
<1>2. UNCHANGED R!vars /\ Current' = Current /\ Begun' = Begun
  BY <1>1, SameCalls
<1>3. serverOpen[c] => up'[c] = << >>
  <2>1. ASSUME Asked(c) PROVE up'[c] = << >>
    BY <1>1, <2>1, PromptTypes DEF Asked
  <2> QED BY <1>1, <2>1 DEF PromptInv, OneRequest
<1>4. \A d \in Conns : up'[d] = IF d = c THEN Tail(up[c]) ELSE up[d]
  BY <1>1, PromptTypes
<1>5. OneRequest'
  BY <1>1, <1>2, <1>3, <1>4 DEF PromptInv, OneRequest, Asked
<1>6. OneResponse'
  <2>1. ASSUME NEW i, waiting, Arriving(i) PROVE Arriving(i)'
    BY <1>1, <1>4, <2>1, PromptTypes DEF Arriving, Response
  <2> QED BY <1>1, <1>2, <2>1 DEF PromptInv, OneResponse, Quiet
<1>7. CarriedOnce'
  BY <1>1, <1>2 DEF PromptInv, CarriedOnce
<1> QED BY <1>1, <1>2, <1>5, <1>6, <1>7 DEF PromptInv

(* A reset finds requests that the server never reads. *)
LEMMA ResetKeepsPrompt ==
    ASSUME PromptInv, Reset
    PROVE  orderly' = TRUE /\ CarriedOnce' /\ OneRequest' /\ OneResponse' /\ UNCHANGED R!vars
<1>1. /\ connected_ /\ ~serverOpen[conn] /\ up[conn] # << >>
      /\ up' = [up EXCEPT ![conn] = << >>] /\ down' \in {down, << >>}
      /\ UNCHANGED <<receiveBuffer_, waiting, results, conn, serverOpen, executed, orderly>>
  BY DEF Reset, local, mishaps
<1>2. UNCHANGED R!vars /\ Current' = Current /\ Begun' = Begun
  BY <1>1, SameCalls
<1>3. Quiet
  BY <1>1 DEF PromptInv, OneResponse, Arriving
<1>4. OneRequest'
  BY <1>1, <1>2, PromptTypes DEF PromptInv, OneRequest, Asked
<1>5. CarriedOnce' /\ OneResponse'
  BY <1>1, <1>2, <1>3 DEF PromptInv, CarriedOnce, OneResponse, Quiet
<1> QED BY <1>1, <1>2, <1>4, <1>5 DEF PromptInv

-----------------------------------------------------------------------------
(* The end of a call, which was pending, or idle and is refused.             *)
LEMMA FinishBecomes ==
    ASSUME PromptInv, NEW a \in {0, Current}, Finish(a), Len(results) < MaxCalls,
           UNCHANGED executed
    PROVE  R!Become(Current, IF ~connected_ THEN "refused"
                             ELSE IF a = 0 THEN "failed" ELSE "answered")
<1> DEFINE N == Len(results)
           new == [conn |-> IF connected_ THEN conn ELSE 0, answer |-> a]
           s == IF ~connected_ THEN "refused" ELSE IF a = 0 THEN "failed" ELSE "answered"
<1>1. /\ results \in Seq(Result) /\ N \in Nat /\ Current = N + 1 /\ Current # 0
      /\ waiting \in BOOLEAN /\ connected_ \in BOOLEAN /\ (connected_ => conn # 0)
  BY PromptTypes DEF PromptInv, OrderInv, ClientTypeOK, QueuesOK
<1>2. Current \in Calls
  BY <1>1, ClientAssumption DEF Calls
<1>3. /\ results' = Append(results, new) /\ waiting' = FALSE
  BY DEF Finish
<1>4. /\ Len(results') = N + 1 /\ \A i \in 1..N : results'[i] = results[i]
      /\ results'[N + 1] = new /\ Current' = N + 2
  BY <1>1, <1>3 DEF Current
<1>5. ASSUME NEW i \in Calls, i # Current PROVE Status(i)' = Status(i)
  <2>1. CASE i <= N
    <3>1. i \in 1..N
      BY <1>1, <2>1 DEF Calls
    <3>2. results'[i] = results[i]
      BY <1>4, <3>1
    <3> QED BY <1>1, <1>4, <2>1, <3>2 DEF Status, Calls
  <2>2. CASE i > N
    BY <1>1, <1>3, <1>4, <1>5, <2>2 DEF Status, Calls
  <2> QED BY <1>1, <2>1, <2>2 DEF Calls
<1>6. ASSUME NEW i \in Calls, i = Current PROVE Status(i)' = s
  <2>1. results'[i].answer = a /\ results'[i].conn = IF connected_ THEN conn ELSE 0
    BY <1>1, <1>4, <1>6
  <2>2. i <= Len(results')
    BY <1>1, <1>4, <1>6
  <2>3. Status(i)' = IF results'[i].conn = 0 THEN "refused"
                     ELSE IF results'[i].answer = 0 THEN "failed"
                     ELSE IF results'[i].answer = i THEN "answered"
                     ELSE "mismatched"
    BY <1>1, <1>4, <1>6, <2>2 DEF Status
  <2> QED BY <1>1, <1>6, <2>1, <2>3
<1>7. [i \in Calls |-> Status(i)]' = [[i \in Calls |-> Status(i)] EXCEPT ![Current] = s]
  BY <1>2, <1>5, <1>6
<1> QED BY <1>7 DEF R!Become

(* The status of the calls before a step. *)
LEMMA StatusNow ==
    ASSUME PromptInv
    PROVE  /\ \A i \in Calls : Status(i) = "pending" <=> waiting /\ i = Current
           /\ ~waiting /\ Current \in Calls => Status(Current) = "idle"
BY PromptTypes DEF Status, Calls

(* A call is refused while there is no connection. *)
LEMMA RefusedRefuses ==
    ASSUME PromptInv, Refused
    PROVE  /\ orderly' = TRUE /\ CarriedOnce' /\ OneRequest' /\ OneResponse'
           /\ \E i \in Calls : R!Refuse(i)
<1>1. /\ ~connected_ /\ Len(results) < MaxCalls /\ Finish(0) /\ waiting' = FALSE
      /\ UNCHANGED <<receiveBuffer_, conn, up, down, serverOpen, executed, orderly>>
  BY DEF Refused, remote, Finish, mishaps
<1>2. /\ waiting = FALSE /\ Current \in Calls /\ Len(results) \in Nat
      /\ results \in Seq(Result)
  BY <1>1, PromptTypes, ClientAssumption DEF Calls, PromptInv, OrderInv, ClientTypeOK, QueuesOK
<1>3. Begun' = Begun + 1 /\ Begun \in Nat
  BY <1>1, <1>2 DEF Begun, Finish
<1>4. R!Refuse(Current)
  <2>1. R!Become(Current, "refused")
    BY <1>1, FinishBecomes
  <2> QED BY <1>2, <2>1, StatusNow DEF R!Refuse, R!Begin
<1>5. CarriedOnce'
  BY <1>1, <1>3 DEF PromptInv, CarriedOnce, Calls
<1>6. OneRequest' /\ OneResponse'
  BY <1>1, <1>2 DEF PromptInv, OneRequest, Asked, OneResponse, Quiet
<1> QED BY <1>1, <1>2, <1>4, <1>5, <1>6 DEF PromptInv

(* A call that fails in send() has not begun, nor will it be carried out.     *)
LEMMA SendFailsRejects ==
    ASSUME PromptInv, SendFails
    PROVE  /\ orderly' = TRUE /\ CarriedOnce' /\ OneRequest' /\ OneResponse'
           /\ \E i \in Calls : R!Reject(i)
<1>1. /\ connected_ /\ Len(results) < MaxCalls /\ Finish(0) /\ waiting' = FALSE
      /\ UNCHANGED <<connected_, receiveBuffer_, conn, up, down, serverOpen, executed, orderly>>
      /\ waiting = FALSE
  BY PromptTypes DEF SendFails, remote, Finish
<1>2. /\ Current \in Calls /\ Len(results) \in Nat /\ results \in Seq(Result)
  BY <1>1, PromptTypes, ClientAssumption DEF Calls, PromptInv, OrderInv, ClientTypeOK, QueuesOK
<1>3. Begun' = Begun + 1 /\ Begun \in Nat
  BY <1>1, <1>2 DEF Begun, Finish
<1>4. R!Reject(Current)
  <2>1. R!Become(Current, "failed")
    BY <1>1, FinishBecomes
  <2> QED BY <1>1, <1>2, <2>1, StatusNow DEF R!Reject, R!Begin
<1>5. CarriedOnce'
  BY <1>1, <1>3 DEF PromptInv, CarriedOnce, Calls
<1>6. OneRequest' /\ OneResponse'
  BY <1>1, <1>2 DEF PromptInv, OneRequest, Asked, OneResponse, Quiet
<1> QED BY <1>1, <1>2, <1>4, <1>5, <1>6 DEF PromptInv

(* A call that is given up when nothing is late is never carried out later on. *)
LEMMA TimeOutFails ==
    ASSUME PromptInv, orderly', TimeOut
    PROVE  /\ orderly' = TRUE /\ CarriedOnce' /\ OneRequest' /\ OneResponse'
           /\ \E i \in Calls : R!Fail(i)
<1>1. /\ waiting /\ Finish(0) /\ waiting' = FALSE /\ orderly' = TRUE /\ NoAnswerComing
      /\ UNCHANGED <<connected_, receiveBuffer_, conn, up, down, serverOpen, executed>>
  BY DEF TimeOut, remote, Finish, PromptInv, mishaps
<1>2. /\ connected_ /\ Current \in Calls /\ Len(results) < MaxCalls /\ Len(results) \in Nat
      /\ results \in Seq(Result)
  BY <1>1, PromptTypes, ClientAssumption DEF Calls, PromptInv, OrderInv, ClientTypeOK, QueuesOK
<1>3. Begun' = Begun
  BY <1>1, <1>2 DEF Begun, Finish
<1>4. R!Fail(Current)
  <2>1. R!Become(Current, "failed")
    BY <1>1, <1>2, FinishBecomes
  <2> QED BY <1>1, <1>2, <2>1, StatusNow DEF R!Fail
<1>5. CarriedOnce'
  BY <1>1, <1>3 DEF PromptInv, CarriedOnce
<1>6. OneRequest'
  BY <1>1 DEF PromptInv, OneRequest, Asked, NoAnswerComing
<1>7. OneResponse'
  <2>1. Quiet
    BY <1>1 DEF PromptInv, OneResponse, Arriving, Response, NoAnswerComing
  <2> QED BY <1>1, <2>1 DEF OneResponse, Quiet
<1> QED BY <1>1, <1>2, <1>4, <1>5, <1>6, <1>7

LEMMA SendInvokes ==
    ASSUME PromptInv, Send
    PROVE  /\ orderly' = TRUE /\ CarriedOnce' /\ OneRequest' /\ OneResponse'
           /\ UNCHANGED R!vars \/ \E i \in Calls : R!Invoke(i)
<1>1. /\ connected_ /\ waiting = FALSE /\ Len(results) < MaxCalls
      /\ UNCHANGED <<receiveBuffer_, results, conn, down, serverOpen, executed, orderly>>
  BY PromptTypes DEF Send, mishaps
<1>2. Current' = Current /\ Current \in Calls /\ Len(results) \in Nat
  BY <1>1, PromptTypes, ClientAssumption DEF Calls, Current
<1>3. CASE broken
  <2>1. UNCHANGED <<waiting, up>>
    BY <1>3 DEF Send
  <2>2. UNCHANGED R!vars /\ Begun' = Begun
    BY <1>1, <2>1, SameCalls
  <2> QED BY <1>1, <1>2, <2>1, <2>2 DEF PromptInv, CarriedOnce, OneRequest, Asked,
              OneResponse, Quiet
<1>4. CASE ~broken
  <2>1. waiting' = TRUE /\ up' = [up EXCEPT ![conn] = Append(@, Current)]
    BY <1>4 DEF Send
  <2>2. executed[Current] = 0
    BY <1>1, <1>2, PromptTypes DEF PromptInv, CarriedOnce
  <2>3. OneRequest'
    <3> SUFFICES ASSUME NEW c \in Conns, serverOpen[c] PROVE up'[c] = << >> \/ Asked(c)'
      BY <1>1 DEF OneRequest
    <3>1. up[c] = << >>
      BY <1>1 DEF PromptInv, OneRequest, Asked
    <3>2. CASE c = conn
      <4>1. up'[c] = Append(<< >>, Current)
        BY <2>1, <3>1, <3>2, PromptTypes
      <4> QED BY <1>1, <1>2, <2>1, <2>2, <3>2, <4>1 DEF Asked
    <3>3. CASE c # conn
      BY <2>1, <3>1, <3>3, PromptTypes
    <3> QED BY <3>2, <3>3
  <2>4. CarriedOnce'
    <3>1. Begun' = Begun + 1 /\ Begun \in Nat
      BY <1>1, <1>2, <2>1 DEF Begun
    <3> QED BY <1>1, <1>2, <3>1 DEF PromptInv, CarriedOnce, Calls
  <2>5. OneResponse'
    BY <1>1 DEF PromptInv, OneResponse, Quiet
  <2>6. R!Invoke(Current)
    <3>1. ASSUME NEW i \in Calls
          PROVE  Status(i)' = IF i = Current THEN "pending" ELSE Status(i)
      BY <1>1, <1>2, <2>1 DEF Status, Calls, Current
    <3>2. [i \in Calls |-> Status(i)]'
             = [[i \in Calls |-> Status(i)] EXCEPT ![Current] = "pending"]
      BY <1>2, <3>1
    <3> QED BY <1>1, <1>2, <3>2, StatusNow DEF R!Invoke, R!Begin, R!Become
  <2> QED BY <1>1, <1>2, <2>3, <2>4, <2>5, <2>6 DEF PromptInv
<1> QED BY <1>3, <1>4

LEMMA ServeExecutes ==
    ASSUME PromptInv, NEW c \in Conns, NEW fits \in BOOLEAN, NEW n \in 0..2, Serve(c, fits, n),
           orderly'
    PROVE  /\ orderly' = TRUE /\ CarriedOnce' /\ OneRequest' /\ OneResponse'
           /\ \E i \in Calls : R!Execute(i)
<1>1. /\ serverOpen[c] /\ up[c] # << >> /\ orderly'
      /\ up' = [up EXCEPT ![c] = Tail(@)]
      /\ executed' = [executed EXCEPT ![Head(up[c])] = @ + 1]
      /\ down' = IF connected_ /\ c = conn
                 THEN down \o Response(IF fits THEN Head(up[c]) ELSE 0) ELSE down
      /\ UNCHANGED <<connected_, receiveBuffer_, waiting, results, conn, serverOpen>>
  <2>1. n = 2 /\ Written(c, IF fits THEN Head(up[c]) ELSE 0, n)
    BY DEF Serve
  <2>2. \A i : SubSeq(Response(i), 1, 2) = Response(i)
    BY Chunks DEF Response
  <2> QED BY <2>1, <2>2 DEF Serve, local, Written
<1>2. waiting /\ c = conn /\ up[c] = <<Current>> /\ executed[Current] = 0
  BY <1>1 DEF PromptInv, OneRequest, Asked
<1>3. /\ connected_ /\ Current \in Calls /\ Current' = Current /\ Begun' = Begun /\ Current # 0
      /\ \A i : Status(i)' = Status(i)
  BY <1>1, <1>2, PromptTypes DEF Current, Begun, Status
<1>4. up'[c] = << >> /\ \A d \in Conns : d # c => up'[d] = up[d]
  BY <1>1, <1>2, PromptTypes
<1>5. executed' = [executed EXCEPT ![Current] = 1]
  <2>1. Head(up[c]) = Current
    BY <1>2
  <2>2. executed' = [executed EXCEPT ![Current] = executed[Current] + 1]
    BY <1>1, <2>1
  <2>3. executed[Current] + 1 = 1
    BY <1>2
  <2> QED BY <2>2, <2>3
<1>6. executed'[Current] = 1 /\ \A i \in Calls : i # Current => executed'[i] = executed[i]
  BY <1>3, <1>5, PromptTypes
<1>7. CarriedOnce'
  <2>1. Begun = Current
    BY <1>2, PromptTypes
  <2> QED BY <1>1, <1>3, <1>6, <2>1 DEF PromptInv, CarriedOnce, Calls
<1>8. OneRequest'
  BY <1>1, <1>2, <1>4 DEF PromptInv, OneRequest, Asked
<1>9. OneResponse'
  <2>1. Quiet
    BY <1>2 DEF PromptInv, OneResponse, Arriving
  <2>2. ASSUME NEW i \in {0, Current}, down' = << >> \o Response(i) PROVE Arriving(i)'
    <3>1. down' = Response(i)
      BY <2>2, Chunks DEF Response
    <3> QED BY <1>1, <1>2, <1>4, <2>1, <3>1 DEF Arriving, Quiet, Response
  <2>3. down' = << >> \o Response(IF fits THEN Current ELSE 0)
    BY <1>1, <1>2, <1>3, <2>1 DEF Quiet
  <2>4. CASE fits
    BY <1>1, <1>2, <1>3, <1>6, <2>2, <2>3, <2>4 DEF OneResponse
  <2>5. CASE ~fits
    BY <1>1, <1>2, <2>2, <2>3, <2>5 DEF OneResponse
  <2> QED BY <2>4, <2>5
<1>10. R!Execute(Current)
  BY <1>2, <1>3, <1>5, StatusNow DEF R!Execute
<1>11. orderly' = TRUE
  BY <1>1 DEF Serve, PromptInv
<1> QED BY <1>3, <1>7, <1>8, <1>9, <1>10, <1>11

LEMMA PollReturns ==
    ASSUME PromptInv, NEW n \in 1..Len(down), NEW garbled \in BOOLEAN, Poll(n, garbled)
    PROVE  /\ orderly' = TRUE /\ CarriedOnce' /\ OneRequest' /\ OneResponse'
           /\ UNCHANGED R!vars \/ \E i \in Calls : R!Return(i)
<1>1. /\ waiting /\ UNCHANGED <<connected_, conn, up, serverOpen, executed, orderly>>
      /\ \/ /\ UNCHANGED <<waiting, results>>
            /\ Quiet' \/ Arriving(0)' \/ (Arriving(Current)' /\ executed[Current] = 1)
         \/ Finish(Current) /\ Quiet' /\ executed[Current] = 1
  BY PollOutcomes
<1>2. /\ connected_ /\ Current \in Calls /\ Len(results) < MaxCalls /\ Len(results) \in Nat
      /\ Current # 0 /\ results \in Seq(Result)
  BY <1>1, PromptTypes, ClientAssumption DEF Calls, PromptInv, OrderInv, ClientTypeOK, QueuesOK
<1>3. CASE /\ UNCHANGED <<waiting, results>>
           /\ Quiet' \/ Arriving(0)' \/ (Arriving(Current)' /\ executed[Current] = 1)
  <2>1. UNCHANGED R!vars /\ Current' = Current /\ Begun' = Begun
    BY <1>1, <1>3, SameCalls
  <2>2. CarriedOnce' /\ OneRequest'
    BY <1>1, <1>3, <2>1 DEF PromptInv, CarriedOnce, OneRequest, Asked
  <2>3. OneResponse'
    BY <1>1, <1>3, <2>1 DEF OneResponse
  <2> QED BY <1>1, <2>1, <2>2, <2>3 DEF PromptInv
<1>4. CASE Finish(Current) /\ Quiet' /\ executed[Current] = 1
  <2>1. waiting' = FALSE
    BY <1>4 DEF Finish
  <2>2. Begun' = Begun
    BY <1>1, <1>2, <1>4 DEF Begun, Finish
  <2>3. CarriedOnce'
    BY <1>1, <2>1, <2>2 DEF PromptInv, CarriedOnce
  <2>4. OneRequest'
    <3>1. \A c \in Conns : ~Asked(c)
      BY <1>4 DEF Asked
    <3> QED BY <1>1, <3>1 DEF PromptInv, OneRequest
  <2>5. R!Return(Current)
    <3>1. R!Become(Current, "answered")
      BY <1>1, <1>2, <1>4, FinishBecomes
    <3> QED BY <1>1, <1>2, <1>4, <3>1, StatusNow DEF R!Return
  <2> QED BY <1>1, <1>2, <1>4, <2>3, <2>4, <2>5 DEF PromptInv, OneResponse
<1> QED BY <1>1, <1>3, <1>4

-----------------------------------------------------------------------------
(* As long as all is orderly, every step of the library is a step of a remote  *)
(* procedure call, or none.                                                   *)
LEMMA OrderlySteps ==
    ASSUME PromptInv, orderly', [ClientNext]_clientVars
    PROVE  PromptInv' /\ [R!Next]_(R!vars)
<1>1. OrderInv'
  BY ClientKeepsOrder DEF PromptInv
<1>2. ASSUME ClientNext
      PROVE  /\ orderly' = TRUE /\ CarriedOnce' /\ OneRequest' /\ OneResponse'
             /\ [R!Next]_(R!vars)
  <2>1. CASE Connect
    BY <2>1, ConnectKeepsPrompt
  <2>2. CASE Disconnect
    BY <2>2, DisconnectKeepsPrompt
  <2>3. CASE Refused
    BY <2>3, RefusedRefuses DEF R!Next
  <2>4. CASE Send
    BY <2>4, SendInvokes DEF R!Next
  <2>5. CASE TimeOut
    BY <2>5, TimeOutFails DEF R!Next
  <2>6. CASE Reset
    BY <2>6, ResetKeepsPrompt
  <2>7. CASE \E n \in 1..Len(down), garbled \in BOOLEAN : Poll(n, garbled)
    BY <2>7, PollReturns DEF R!Next
  <2>8. ASSUME NEW c \in Conns, Drop(c) \/ Lose(c) \/ ServerClose(c)
        PROVE  /\ orderly' = TRUE /\ CarriedOnce' /\ OneRequest' /\ OneResponse'
               /\ [R!Next]_(R!vars)
    BY <2>8, LossKeepsPrompt, CloseKeepsPrompt
  <2>9. ASSUME NEW c \in Conns, NEW fits \in BOOLEAN, NEW n \in 0..2, Serve(c, fits, n)
        PROVE  /\ orderly' = TRUE /\ CarriedOnce' /\ OneRequest' /\ OneResponse'
               /\ [R!Next]_(R!vars)
    BY <2>9, ServeExecutes DEF R!Next
  <2>10. ~\E c \in Conns, fits \in BOOLEAN, n \in 0..2 : Misread(c, fits, n)
    BY DEF Misread
  <2>11. CASE SendFails
    BY <2>11, SendFailsRejects DEF R!Next
  <2> QED BY <1>2, <2>1, <2>2, <2>3, <2>4, <2>5, <2>6, <2>7, <2>8, <2>9, <2>10, <2>11
          DEF ClientNext
<1>3. ASSUME UNCHANGED clientVars
      PROVE  /\ orderly' = TRUE /\ CarriedOnce' /\ OneRequest' /\ OneResponse'
             /\ [R!Next]_(R!vars)
  <2>1. UNCHANGED <<receiveBuffer_, waiting, results, conn, up, down, serverOpen, executed, orderly>>
    BY <1>3 DEF clientVars, local, remote, mishaps
  <2>2. UNCHANGED R!vars /\ Current' = Current /\ Begun' = Begun
    BY <2>1, SameCalls
  <2> QED BY <2>1, <2>2 DEF PromptInv, CarriedOnce, OneRequest, Asked, OneResponse, Quiet,
              Arriving, Response
<1> QED BY <1>1, <1>2, <1>3 DEF PromptInv

(* What is not orderly once stays so. *)
LEMMA OrderlyBefore ==
    ASSUME OrderInv, [ClientNext]_clientVars, orderly'
    PROVE  orderly = TRUE
<1>1. orderly \in BOOLEAN
  BY DEF OrderInv, ClientTypeOK, FlagsOK
<1>2. ASSUME NEW c \in Conns, NEW fits \in BOOLEAN, NEW n \in 0..2,
             Serve(c, fits, n) \/ Misread(c, fits, n)
      PROVE  orderly
  BY <1>2 DEF Serve, Misread
<1>3. CASE TimeOut
  BY <1>1, <1>3 DEF TimeOut
<1>4. CASE UNCHANGED orderly
  BY <1>1, <1>4
<1> QED BY <1>1, <1>2, <1>3, <1>4 DEF ClientNext, Connect, Disconnect, Refused, Send, SendFails,
           Reset, Poll, Drop, Lose, ServerClose, clientVars, mishaps

(* However a front end uses the library: as long as all is orderly, every     *)
(* step is a step of a remote procedure call, or none.                        *)
THEOREM StepsOfRpc == ClientInit /\ [][ClientNext]_clientVars => ImplementsRpc
<1> DEFINE Inv == OrderInv /\ (orderly => PromptInv)
<1>1. ClientInit => Inv /\ R!Init
  BY InitPrompt DEF PromptInv
<1>2. Inv /\ [ClientNext]_clientVars => Inv' /\ (orderly' => [R!Next]_(R!vars))
  <2> SUFFICES ASSUME Inv, [ClientNext]_clientVars
               PROVE  Inv' /\ (orderly' => [R!Next]_(R!vars))
    OBVIOUS
  <2>1. OrderInv'
    BY ClientKeepsOrder
  <2>2. ASSUME orderly' PROVE PromptInv' /\ [R!Next]_(R!vars)
    BY <2>2, OrderlyBefore, OrderlySteps
  <2> QED BY <2>1, <2>2
<1>3. Inv /\ Inv' /\ [ClientNext]_clientVars => [orderly' => [R!Next]_(R!vars)]_clientVars
  BY <1>2
<1> QED BY <1>1, <1>2, <1>3, PTL DEF ImplementsRpc
=============================================================================
