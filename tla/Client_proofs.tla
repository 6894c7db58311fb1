---------------------------- MODULE Client_proofs ----------------------------
(***************************************************************************)
(* Proofs about the client library, for every front end whose steps change *)
(* the variables of Client only as its actions say: answers come in order  *)
(* and from the connection of their call, whatever comes late, is lost, or *)
(* is carried out that nobody asked for.                                   *)
(***************************************************************************)
EXTENDS Client, WellFoundedInduction, TLAPS

(* What client, network and server do to the variables of Client. *)
ClientNext ==
    \/ Connect \/ Disconnect \/ Refused \/ Send \/ SendFails \/ TimeOut \/ Reset
    \/ \E n \in 1..Len(down), garbled \in BOOLEAN : Poll(n, garbled)
    \/ \E c \in Conns :
          \/ Drop(c) \/ Lose(c) \/ ServerClose(c)
          \/ \E fits \in BOOLEAN, n \in 0..2 : Serve(c, fits, n) \/ Misread(c, fits, n)

-----------------------------------------------------------------------------
(* The calls made so far, the one that waits included. *)
Begun == Len(results) + (IF waiting THEN 1 ELSE 0)

(* A response to call i would not come out of order, nor from another         *)
(* connection.                                                                *)
MayAnswer(i) ==
    /\ i <= Begun
    /\ i <= Len(results) => results[i].conn = conn
    /\ \A j \in DOMAIN results : results[j].answer < i

(* The responses on their way, and behind them the requests, are in the order *)
(* of the calls and later than what was returned.                             *)
ResponsesOrdered ==
    \A k \in DOMAIN down : down[k].id > 0 =>
        /\ MayAnswer(down[k].id)
        /\ executed[down[k].id] > 0
        /\ \A l \in 1..(k - 1) : down[l].part = 2 => down[l].id < down[k].id

RequestsOrdered ==
    connected_ => \A k \in DOMAIN up[conn] :
        /\ MayAnswer(up[conn][k])
        /\ \A l \in 1..(k - 1) : up[conn][l] < up[conn][k]
        /\ \A l \in DOMAIN down : down[l].id < up[conn][k]

(* Nothing is under way without a connection, or on one still to be made.    *)
WiresOpen ==
    /\ connected_ => conn # 0
    /\ ~connected_ => down = << >>
    /\ \A c \in Conns : /\ c > conn => up[c] = << >>
                        /\ \A k \in DOMAIN up[c] : up[c][k] <= Begun

OrderInv == /\ ClientTypeOK /\ WiresOpen /\ ResponsesOrdered /\ RequestsOrdered
            /\ AnswersInOrder /\ FromThisConnection

-----------------------------------------------------------------------------
LEMMA IdsAreNumbers ==
    /\ Ids \subseteq Int /\ 0..MaxCalls \subseteq Ids
    /\ \A i \in Ids : i > 0 => i \in Calls
BY ClientAssumption DEF Ids, Calls

(* The bytes received. *)
LEMMA MinIsLeast ==
    ASSUME NEW S, S \subseteq Nat, S # {}
    PROVE  Min(S) \in S /\ \A x \in S : Min(S) <= x
<1>1. PICK m \in S : \A x \in S : <<x, m>> \notin OpToRel(<, Nat)
  BY NatLessThanWellFounded, WFMin
<1>2. \A x \in S : ~(x < m)
  BY <1>1 DEF OpToRel
<1>3. \A x \in S : m <= x
  BY <1>2
<1> QED BY <1>3 DEF Min

LEMMA MaxIsGreatest ==
    ASSUME NEW n \in Nat, NEW S, S \subseteq 0..n, S # {}
    PROVE  Max(S) \in S /\ \A x \in S : x <= Max(S)
<1> DEFINE T == {n - x : x \in S}
<1>1. T \subseteq Nat /\ T # {}
  <2>1. \A x \in S : n - x \in Nat
    OBVIOUS
  <2> QED BY <2>1
<1>2. Min(T) \in T /\ \A y \in T : Min(T) <= y
  BY <1>1, MinIsLeast
<1>3. PICK m \in S : Min(T) = n - m
  BY <1>2
<1>4. \A x \in S : n - m <= n - x
  BY <1>2, <1>3
<1>5. \A x \in S : m >= x
  BY <1>4
<1> QED BY <1>5 DEF Max

LEMMA FirstPieces ==
    /\ First \subseteq Piece
    /\ \A p \in Piece : p.id \in Ids /\ p.id \in Int /\ p.part \in {1, 2}
                        /\ (p.part # 2 => p \in First)
BY IdsAreNumbers DEF First, Piece

LEMMA PartialIsBytes == Seq(First) \subseteq Seq(Piece)
<1> SUFFICES ASSUME NEW s \in Seq(First) PROVE s \in Seq(Piece)
  OBVIOUS
<1>1. \A k \in 1..Len(s) : s[k] \in First
  OBVIOUS
<1>2. \A k \in 1..Len(s) : s[k] \in Piece
  BY <1>1, FirstPieces
<1> QED BY <1>2

(* What is left of a sequence when its first n elements are taken.          *)
LEMMA Taken ==
    ASSUME NEW S, NEW s \in Seq(S), NEW n \in 0..Len(s)
    PROVE  LET t == SubSeq(s, n + 1, Len(s))
           IN  /\ t \in Seq(S) /\ Len(t) = Len(s) - n
               /\ \A k \in 1..Len(t) : t[k] = s[n + k]
OBVIOUS

LEMMA Beginning ==
    ASSUME NEW S, NEW s \in Seq(S), NEW n \in 0..Len(s)
    PROVE  LET t == SubSeq(s, 1, n)
           IN  t \in Seq(S) /\ Len(t) = n /\ \A k \in 1..n : t[k] = s[k]
OBVIOUS

(* What extractMessages leaves in the buffer holds no newline. *)
LEMMA RestIsIncomplete ==
    ASSUME NEW bytes \in Seq(Piece)
    PROVE  Rest(bytes) \in Seq(First)
<1> DEFINE E == {0} \cup Ends(bytes)
<1>1. E \subseteq 0..Len(bytes) /\ E # {}
  BY DEF Ends
<1>2. PICK m \in E : m = Max(E) /\ \A x \in E : x <= m
  <2>1. Len(bytes) \in Nat
    OBVIOUS
  <2> HIDE DEF E
  <2> QED BY <1>1, <2>1, MaxIsGreatest
<1>3. Rest(bytes) = SubSeq(bytes, m + 1, Len(bytes)) /\ m \in 0..Len(bytes)
  BY <1>1, <1>2 DEF Rest
<1>4. \A k \in (m + 1)..Len(bytes) : bytes[k].part # 2
  BY <1>1, <1>2 DEF Ends
<1>5. \A k \in (m + 1)..Len(bytes) : bytes[k] \in First
  <2> SUFFICES ASSUME NEW k \in (m + 1)..Len(bytes) PROVE bytes[k] \in First
    OBVIOUS
  <2>1. k \in 1..Len(bytes)
    BY <1>3
  <2>2. bytes[k] \in Piece
    BY <2>1
  <2>3. bytes[k].part # 2
    BY <1>4
  <2> QED BY <2>2, <2>3, FirstPieces
<1> QED BY <1>3, <1>5

(* The first message extracted ends in the bytes that arrived last, for what   *)
(* the buffer held was no line.                                                *)
LEMMA FirstMessageArrived ==
    ASSUME ClientTypeOK, NEW n \in 1..Len(down), NEW garbled \in BOOLEAN,
           Extract(receiveBuffer_ \o SubSeq(down, 1, n), garbled) # {}
    PROVE  LET bytes == receiveBuffer_ \o SubSeq(down, 1, n)
               answer == Answered(bytes, Min(Extract(bytes, garbled)))
           IN  /\ answer \in Ids
               /\ answer > 0 => \E k \in 1..n : down[k].part = 2 /\ answer = down[k].id
<1> DEFINE bytes == receiveBuffer_ \o SubSeq(down, 1, n)
           messages == Extract(bytes, garbled)
<1>1. /\ bytes \in Seq(Piece) /\ Len(bytes) = Len(receiveBuffer_) + n
      /\ \A j \in 1..Len(receiveBuffer_) : bytes[j].part = 1
      /\ \A j \in 1..n : bytes[Len(receiveBuffer_) + j] = down[j]
  <2>1. receiveBuffer_ \in Seq(Piece) /\ \A j \in 1..Len(receiveBuffer_) : receiveBuffer_[j].part = 1
    <3>1. receiveBuffer_ \in Seq(First)
      BY DEF ClientTypeOK, QueuesOK
    <3>2. \A j \in 1..Len(receiveBuffer_) : receiveBuffer_[j] \in First
      BY <3>1
    <3>3. receiveBuffer_ \in Seq(Piece)
      BY <3>1, <3>2, FirstPieces
    <3> QED BY <3>2, <3>3 DEF First
  <2>2. SubSeq(down, 1, n) \in Seq(Piece) /\ Len(SubSeq(down, 1, n)) = n
    BY DEF ClientTypeOK, QueuesOK
  <2>3. \A j \in 1..n : SubSeq(down, 1, n)[j] = down[j]
    BY DEF ClientTypeOK, QueuesOK
  <2> QED BY <2>1, <2>2, <2>3
<1> HIDE DEF bytes
<1>2. messages \subseteq Nat
  BY <1>1 DEF Extract, Ends
<1>3. PICK m \in messages : m = Min(messages)
  BY <1>2, MinIsLeast DEF bytes
<1>4. m \in 1..Len(bytes) /\ bytes[m].part = 2
  BY <1>1, <1>3 DEF Extract, Ends
<1>5. m > Len(receiveBuffer_)
  BY <1>1, <1>4
<1> DEFINE k == m - Len(receiveBuffer_)
<1>6. k \in 1..n /\ bytes[m] = down[k]
  BY <1>1, <1>4, <1>5
<1>7. bytes[m].id \in Ids
  BY <1>1, <1>4, FirstPieces
<1>8. 0 \in Ids /\ ~(0 > 0)
  BY IdsAreNumbers, ClientAssumption
<1> QED BY <1>3, <1>4, <1>6, <1>7, <1>8 DEF Answered, bytes

-----------------------------------------------------------------------------
LEMMA InitOrder == ClientInit => OrderInv
<1> SUFFICES ASSUME ClientInit PROVE OrderInv
  OBVIOUS
<1> USE DEF ClientInit
<1>1. ClientTypeOK
  <2>1. conn \in 0..MaxConns
    BY ClientAssumption
  <2>2. executed \in [Calls -> Nat] /\ strays \in 0..MaxStrays
    BY ClientAssumption
  <2>3. up \in [Conns -> Seq(Calls)]
    OBVIOUS
  <2>4. FlagsOK
    BY DEF FlagsOK
  <2>5. QueuesOK
    BY <2>1, <2>2, <2>3 DEF QueuesOK
  <2> QED BY <2>4, <2>5 DEF ClientTypeOK
<1>2. WiresOpen /\ ResponsesOrdered /\ RequestsOrdered
  BY DEF WiresOpen, ResponsesOrdered, RequestsOrdered, Conns
<1> QED BY <1>1, <1>2 DEF OrderInv, AnswersInOrder, FromThisConnection

LEMMA StutterKeepsOrder == OrderInv /\ UNCHANGED clientVars => OrderInv'
BY DEF OrderInv, clientVars, local, remote, mishaps, ClientTypeOK, FlagsOK, QueuesOK,
       WiresOpen, ResponsesOrdered, RequestsOrdered, MayAnswer, Begun, AnswersInOrder, FromThisConnection

(* A new connection starts with nothing under way on it. *)
LEMMA ConnectKeepsOrder == OrderInv /\ Connect => OrderInv'
<1> SUFFICES ASSUME OrderInv, Connect PROVE OrderInv'
  OBVIOUS
<1>1. /\ ~connected_ /\ connected_' = TRUE /\ conn \in 0..MaxConns /\ conn < MaxConns
      /\ conn' = conn + 1
      /\ UNCHANGED <<alive, receiveBuffer_, waiting, results, up, down, executed, strays, mishaps>>
      /\ serverOpen' = [serverOpen EXCEPT ![conn'] = TRUE] /\ broken' = FALSE
  BY DEF Connect, OrderInv, ClientTypeOK, FlagsOK, QueuesOK
<1>2. conn' \in 1..MaxConns /\ conn' > conn
  BY <1>1, ClientAssumption
<1>3. down = << >> /\ down' = << >> /\ up'[conn'] = << >> /\ waiting = FALSE
  BY <1>1, <1>2 DEF OrderInv, WiresOpen, ClientTypeOK, FlagsOK, Conns
<1>4. ClientTypeOK'
  <2>1. serverOpen' \in [Conns -> BOOLEAN]
    BY <1>1 DEF OrderInv, ClientTypeOK, QueuesOK
  <2>2. QueuesOK'
    BY <1>1, <1>2, <2>1 DEF OrderInv, ClientTypeOK, QueuesOK
  <2>3. FlagsOK'
    BY <1>1, <1>3 DEF OrderInv, ClientTypeOK, FlagsOK, mishaps
  <2> QED BY <2>2, <2>3 DEF ClientTypeOK
<1>5. WiresOpen'
  BY <1>1, <1>2, <1>3 DEF OrderInv, WiresOpen, Begun, Conns
<1>6. ResponsesOrdered' /\ RequestsOrdered'
  BY <1>3 DEF ResponsesOrdered, RequestsOrdered
<1>7. AnswersInOrder' /\ FromThisConnection'
  BY <1>1 DEF OrderInv, AnswersInOrder, FromThisConnection
<1> QED BY <1>4, <1>5, <1>6, <1>7 DEF OrderInv

(* What was on its way to the client is lost. *)
LEMMA DisconnectKeepsOrder == OrderInv /\ Disconnect => OrderInv'
<1> SUFFICES ASSUME OrderInv, Disconnect PROVE OrderInv'
  OBVIOUS
<1>1. /\ connected_' = FALSE /\ down' = << >> /\ waiting = FALSE
      /\ UNCHANGED <<alive, receiveBuffer_, waiting, results, conn, broken,
                     up, serverOpen, executed, strays, mishaps>>
  BY DEF Disconnect, OrderInv, ClientTypeOK, FlagsOK, QueuesOK
<1>2. ClientTypeOK' /\ WiresOpen'
  <2>1. FlagsOK'
    BY <1>1 DEF OrderInv, ClientTypeOK, FlagsOK, mishaps
  <2>2. QueuesOK'
    BY <1>1 DEF OrderInv, ClientTypeOK, QueuesOK
  <2> QED BY <1>1, <2>1, <2>2 DEF ClientTypeOK, OrderInv, WiresOpen, Begun
<1>3. ResponsesOrdered' /\ RequestsOrdered' /\ AnswersInOrder' /\ FromThisConnection'
  BY <1>1 DEF OrderInv, ResponsesOrdered, RequestsOrdered, AnswersInOrder, FromThisConnection
<1> QED BY <1>2, <1>3 DEF OrderInv

(* The requests under way are calls. *)
LEMMA RequestsAreCalls ==
    ASSUME OrderInv, NEW c \in Conns
    PROVE  /\ up[c] \in Seq(Calls) /\ DOMAIN up[c] = 1..Len(up[c])
           /\ \A k \in DOMAIN up[c] : up[c][k] \in Calls /\ up[c][k] \in Nat \ {0}
<1>1. up[c] \in Seq(Calls)
  BY DEF OrderInv, ClientTypeOK, QueuesOK
<1>2. \A k \in DOMAIN up[c] : up[c][k] \in Calls
  BY <1>1
<1> QED BY <1>1, <1>2 DEF Calls

(* The end of a call that takes the first n pieces off the wire, and answers   *)
(* with one of them or with an error.                                          *)
LEMMA FinishKeepsOrder ==
    ASSUME OrderInv, NEW a \in Ids, Finish(a), UNCHANGED <<connected_, conn, executed, up>>,
           NEW n \in 0..Len(down), Len(down') = Len(down) - n, down' \in Seq(Piece),
           \A k \in 1..Len(down') : down'[k] = down[n + k],
           a > 0 => \E k \in 1..n : down[k].part = 2 /\ a = down[k].id
    PROVE  /\ results' \in Seq(Result)
           /\ WiresOpen' /\ ResponsesOrdered' /\ RequestsOrdered'
           /\ AnswersInOrder' /\ FromThisConnection'
<1> DEFINE N == Len(results)
           new == [conn |-> IF connected_ THEN conn ELSE 0, answer |-> a]
<1>a. a \in Int
  BY IdsAreNumbers
<1>1. /\ results \in Seq(Result) /\ down \in Seq(Piece) /\ conn \in 0..MaxConns
      /\ up \in [Conns -> Seq(Calls)]
  BY DEF OrderInv, ClientTypeOK, QueuesOK
<1>2. new \in Result
  BY <1>1, ClientAssumption DEF Result
<1>3. results' = Append(results, new) /\ waiting' = FALSE
  BY DEF Finish
<1>4. results' \in Seq(Result)
  BY <1>1, <1>2, <1>3
<1>5. /\ N \in Nat /\ Len(results') = N + 1
      /\ \A i \in 1..N : results'[i] = results[i]
      /\ results'[N + 1].answer = a /\ (connected_ => results'[N + 1].conn = conn)
  BY <1>1, <1>2, <1>3
<1>6. /\ connected_' = connected_ /\ conn' = conn /\ executed' = executed /\ up' = up
      /\ Begun' = N + 1 /\ Begun \in {N, N + 1}
  BY <1>3, <1>5 DEF Begun
<1>7. DOMAIN results = 1..N /\ DOMAIN results' = 1..(N + 1)
  BY <1>1, <1>4, <1>5
<1>8. DOMAIN down = 1..Len(down) /\ DOMAIN down' = 1..Len(down')
  BY <1>1
<1>9. a > 0 => MayAnswer(a) /\ executed[a] > 0 /\ connected_
  BY <1>8 DEF OrderInv, ResponsesOrdered, WiresOpen
<1>10. ASSUME NEW i \in Nat, i # 0, MayAnswer(i), connected_, a < i PROVE MayAnswer(i)'
  <2>1. i <= N + 1 /\ \A j \in 1..N : results[j].answer < i
    BY <1>6, <1>7, <1>10 DEF MayAnswer
  <2>2. i <= N => results[i].conn = conn
    BY <1>10 DEF MayAnswer
  <2>3. i <= N + 1 => results'[i].conn = conn
    BY <1>5, <1>10, <2>1, <2>2
  <2>4. \A j \in 1..(N + 1) : results'[j].answer < i
    <3> SUFFICES ASSUME NEW j \in 1..(N + 1) PROVE results'[j].answer < i
      OBVIOUS
    <3>1. CASE j \in 1..N
      BY <1>5, <2>1, <3>1
    <3>2. CASE j = N + 1
      BY <1>5, <1>10, <3>2
    <3> QED BY <1>5, <3>1, <3>2
  <2> QED BY <1>5, <1>6, <1>7, <2>1, <2>3, <2>4 DEF MayAnswer
<1>11. ResponsesOrdered'
  <2> SUFFICES ASSUME NEW k \in 1..Len(down'), down'[k].id > 0
               PROVE  /\ MayAnswer(down[k].id)' /\ executed[down'[k].id] > 0
                      /\ \A l \in 1..(k - 1) : down'[l].part = 2 => down'[l].id < down'[k].id
    BY <1>6, <1>8 DEF ResponsesOrdered
  <2>1. PICK i \in Nat : i = down[n + k].id /\ i = down'[k].id
    <3>1. n + k \in 1..Len(down)
      BY <1>1
    <3>2. down[n + k].id \in Int
      BY <1>1, <3>1, FirstPieces
    <3>3. down'[k] = down[n + k]
      OBVIOUS
    <3> QED BY <3>2, <3>3
  <2>2. n + k \in DOMAIN down /\ i # 0 /\ connected_
    BY <1>8, <2>1 DEF OrderInv, WiresOpen
  <2>3. /\ MayAnswer(i) /\ executed[i] > 0
        /\ \A l \in 1..(n + k - 1) : down[l].part = 2 => down[l].id < i
    <3>1. ResponsesOrdered
      BY DEF OrderInv
    <3>2. down[n + k].id > 0
      BY <2>1, <2>2
    <3>3. /\ MayAnswer(down[n + k].id) /\ executed[down[n + k].id] > 0
          /\ \A l \in 1..(n + k - 1) : down[l].part = 2 => down[l].id < down[n + k].id
      BY <2>2, <3>1, <3>2 DEF ResponsesOrdered
    <3> QED BY <2>1, <3>3
  <2>4. a < i
    <3>1. CASE ~(a > 0)
      BY <1>a, <2>2, <3>1
    <3>2. CASE a > 0
      <4>1. PICK l \in 1..n : down[l].part = 2 /\ a = down[l].id
        BY <3>2
      <4>2. l \in 1..(n + k - 1)
        OBVIOUS
      <4> QED BY <2>3, <4>1, <4>2
    <3> QED BY <3>1, <3>2
  <2>5. MayAnswer(i)'
    BY <1>10, <2>2, <2>3, <2>4
  <2>6. MayAnswer(down[k].id)'
    BY <2>1, <2>5
  <2>7. \A l \in 1..(k - 1) : l \in 1..Len(down') /\ n + l \in 1..(n + k - 1)
    OBVIOUS
  <2> QED BY <2>1, <2>3, <2>6, <2>7
<1>12. RequestsOrdered'
  <2> SUFFICES ASSUME connected_, NEW k \in DOMAIN up[conn]
               PROVE  /\ MayAnswer(up[conn][k])'
                      /\ \A l \in 1..(k - 1) : up[conn][l] < up[conn][k]
                      /\ \A l \in DOMAIN down' : down'[l].id < up[conn][k]
    BY <1>6 DEF RequestsOrdered
  <2>1. /\ MayAnswer(up[conn][k]) /\ \A l \in 1..(k - 1) : up[conn][l] < up[conn][k]
        /\ \A l \in DOMAIN down : down[l].id < up[conn][k]
    BY DEF OrderInv, RequestsOrdered
  <2>2. conn \in Conns
    BY <1>1 DEF Conns, OrderInv, WiresOpen
  <2>3. PICK i \in Nat \ {0} : i = up[conn][k]
    BY <2>2, RequestsAreCalls
  <2>4. a < i
    <3>1. CASE a > 0
      <4>1. PICK l \in DOMAIN down : a = down[l].id
        BY <1>8, <1>9, <3>1
      <4> QED BY <2>1, <2>3, <4>1
    <3>2. CASE ~(a > 0)
      BY <1>a, <2>3, <3>2
    <3> QED BY <3>1, <3>2
  <2>5. MayAnswer(i)'
    BY <1>10, <2>1, <2>3, <2>4
  <2>6. \A l \in 1..Len(down') : n + l \in 1..Len(down)
    OBVIOUS
  <2>7. \A l \in DOMAIN down' : down'[l].id < up[conn][k]
    BY <1>8, <2>1, <2>6
  <2> QED BY <1>6, <2>1, <2>3, <2>5, <2>7
<1>13. WiresOpen'
  <2>1. ~connected_ => down' = << >>
    <3> SUFFICES ASSUME ~connected_ PROVE down' = << >>
      OBVIOUS
    <3>1. Len(down) = 0
      BY DEF OrderInv, WiresOpen
    <3>2. n = 0
      BY <3>1
    <3> QED BY <3>1, <3>2
  <2>2. \A c \in Conns : \A k \in DOMAIN up[c] : up[c][k] <= N + 1
    <3> SUFFICES ASSUME NEW c \in Conns, NEW k \in DOMAIN up[c] PROVE up[c][k] <= N + 1
      OBVIOUS
    <3>1. up[c][k] \in Nat /\ up[c][k] <= Begun
      BY RequestsAreCalls DEF OrderInv, WiresOpen
    <3> QED BY <1>5, <1>6, <3>1
  <2> QED BY <1>6, <2>1, <2>2 DEF OrderInv, WiresOpen
<1>14. AnswersInOrder'
  <2> SUFFICES ASSUME NEW i \in 1..(N + 1), results'[i].answer > 0
               PROVE  /\ results'[i].answer <= i
                      /\ executed[results'[i].answer] > 0
                      /\ \A j \in 1..(i - 1) : results'[j].answer < results'[i].answer
    BY <1>6, <1>7 DEF AnswersInOrder
  <2>1. CASE i \in 1..N
    <3>1. /\ results[i].answer > 0 /\ results[i].answer <= i
          /\ executed[results[i].answer] > 0
          /\ \A j \in 1..(i - 1) : results[j].answer < results[i].answer
      BY <1>5, <1>7, <2>1 DEF OrderInv, AnswersInOrder
    <3>2. results'[i] = results[i]
      BY <1>5, <2>1
    <3>3. \A j \in 1..(i - 1) : results'[j] = results[j]
      BY <1>5
    <3> QED BY <3>1, <3>2, <3>3
  <2>2. CASE i = N + 1
    <3>1. MayAnswer(a) /\ executed[a] > 0 /\ a <= N + 1
      BY <1>a, <1>5, <1>6, <1>9, <2>2 DEF MayAnswer
    <3>2. \A j \in DOMAIN results : results[j].answer < a
      BY <3>1 DEF MayAnswer
    <3>3. \A j \in 1..N : results[j].answer < a
      BY <1>7, <3>2
    <3>4. results'[i].answer = a /\ i - 1 = N
      BY <1>5, <2>2
    <3>5. \A j \in 1..(i - 1) : results'[j].answer < a
      BY <1>5, <3>3, <3>4
    <3>6. a <= i /\ executed[a] > 0
      BY <2>2, <3>1
    <3> QED BY <3>4, <3>5, <3>6
  <2> QED BY <1>5, <2>1, <2>2
<1>15. FromThisConnection'
  <2> SUFFICES ASSUME NEW i \in 1..(N + 1), results'[i].answer \in 1..i
               PROVE  results'[results'[i].answer].conn = results'[i].conn
    BY <1>7 DEF FromThisConnection
  <2>1. CASE i \in 1..N
    <3>1. results'[i] = results[i]
      BY <1>5, <2>1
    <3>2. LET j == results[i].answer IN j \in 1..N /\ results'[j] = results[j]
      BY <1>5, <2>1, <3>1
    <3>3. results[results[i].answer].conn = results[i].conn
      BY <1>7, <2>1, <3>1 DEF OrderInv, FromThisConnection
    <3> QED BY <3>1, <3>2, <3>3
  <2>2. CASE i = N + 1
    <3>1. a > 0 /\ a \in 1..(N + 1) /\ MayAnswer(a) /\ connected_
      BY <1>5, <1>9, <2>2
    <3>2. a \in 1..N => results[a].conn = conn
      BY <3>1 DEF MayAnswer
    <3> QED BY <1>5, <2>2, <3>1, <3>2
  <2> QED BY <1>5, <2>1, <2>2
<1> QED BY <1>4, <1>11, <1>12, <1>13, <1>14, <1>15

LEMMA FailureKeepsOrder == OrderInv /\ (Refused \/ SendFails \/ TimeOut) => OrderInv'
<1> SUFFICES ASSUME OrderInv, Refused \/ SendFails \/ TimeOut PROVE OrderInv'
  OBVIOUS
<1>1. /\ Finish(0) /\ waiting' = FALSE
      /\ UNCHANGED <<alive, connected_, receiveBuffer_, conn, broken, remote>>
      /\ orderly' \in BOOLEAN /\ lossless' \in BOOLEAN
  BY DEF Refused, SendFails, TimeOut, Finish, OrderInv, ClientTypeOK, FlagsOK, mishaps
<1>2. /\ down \in Seq(Piece) /\ down' = down /\ Len(down') = Len(down) - 0
      /\ 0 \in 0..Len(down) /\ 0 \in Ids /\ ~(0 > 0)
      /\ \A k \in 1..Len(down') : down'[k] = down[0 + k]
  BY <1>1, IdsAreNumbers, ClientAssumption DEF remote, OrderInv, ClientTypeOK, QueuesOK
<1>3. /\ results' \in Seq(Result)
      /\ WiresOpen' /\ ResponsesOrdered' /\ RequestsOrdered'
      /\ AnswersInOrder' /\ FromThisConnection'
  BY <1>1, <1>2, FinishKeepsOrder DEF remote
<1>4. QueuesOK'
  BY <1>1, <1>3 DEF OrderInv, ClientTypeOK, QueuesOK, remote
<1>5. FlagsOK'
  BY <1>1 DEF OrderInv, ClientTypeOK, FlagsOK, mishaps
<1> QED BY <1>3, <1>4, <1>5 DEF OrderInv, ClientTypeOK

(* A round of the receive loop takes the first n pieces off the wire. *)
LEMMA PollKeepsOrder ==
    ASSUME OrderInv, NEW n \in 1..Len(down), NEW garbled \in BOOLEAN, Poll(n, garbled)
    PROVE  OrderInv'
<1> DEFINE bytes == receiveBuffer_ \o SubSeq(down, 1, n)
           messages == Extract(bytes, garbled)
           a == Answered(bytes, Min(messages))
<1>1. /\ alive /\ waiting /\ connected_
      /\ receiveBuffer_' = Rest(bytes) /\ down' = SubSeq(down, n + 1, Len(down))
      /\ IF messages # {} THEN Finish(a) ELSE UNCHANGED <<waiting, results>>
      /\ UNCHANGED <<alive, connected_, conn, broken, up, serverOpen, executed, strays, mishaps>>
  BY DEF Poll, OrderInv, ClientTypeOK, FlagsOK, mishaps
<1>2. /\ receiveBuffer_ \in Seq(First) /\ down \in Seq(Piece)
      /\ ClientTypeOK /\ DOMAIN down = 1..Len(down)
  BY DEF OrderInv, ClientTypeOK, QueuesOK
<1>3. /\ Len(down') = Len(down) - n /\ down' \in Seq(Piece)
      /\ \A k \in 1..Len(down') : down'[k] = down[n + k]
  <2>1. n \in 0..Len(down)
    OBVIOUS
  <2> QED BY <1>1, <1>2, <2>1, Taken
<1>4. receiveBuffer_' \in Seq(First)
  <2>1. receiveBuffer_ \in Seq(Piece)
    BY <1>2, PartialIsBytes
  <2>2. bytes \in Seq(Piece)
    BY <1>2, <2>1
  <2> QED BY <1>1, <2>2, RestIsIncomplete
<1>5. /\ results' \in Seq(Result)
      /\ WiresOpen' /\ ResponsesOrdered' /\ RequestsOrdered'
      /\ AnswersInOrder' /\ FromThisConnection'
  <2>1. CASE messages # {}
    <3>1. a \in Ids /\ (a > 0 => \E k \in 1..n : down[k].part = 2 /\ a = down[k].id)
      BY <1>2, <2>1, FirstMessageArrived
    <3>2. Finish(a) /\ n \in 0..Len(down)
      BY <1>1, <2>1
    <3> HIDE DEF a
    <3> QED BY <1>1, <1>3, <3>1, <3>2, FinishKeepsOrder
  <2>2. CASE messages = {}
    <3>1. UNCHANGED <<waiting, results, connected_, conn, up, executed>>
      BY <1>1, <2>2
    <3>2. /\ DOMAIN down' = 1..Len(down')
          /\ \A k \in 1..Len(down') : /\ n + k \in 1..Len(down)
                                      /\ \A l \in 1..(k - 1) : /\ l \in 1..Len(down')
                                                               /\ n + l \in 1..(n + k - 1)
      BY <1>2, <1>3
    <3>3. ASSUME NEW i, MayAnswer(i) PROVE MayAnswer(i)'
      BY <3>1, <3>3 DEF MayAnswer, Begun
    <3>4. ResponsesOrdered'
      <4> SUFFICES ASSUME NEW k \in 1..Len(down'), down'[k].id > 0
                   PROVE  /\ MayAnswer(down[k].id)' /\ executed[down'[k].id] > 0
                          /\ \A l \in 1..(k - 1) : down'[l].part = 2 => down'[l].id < down'[k].id
        BY <3>1, <3>2 DEF ResponsesOrdered
      <4>1. PICK i : i = down'[k].id /\ i = down[n + k].id
        BY <1>3
      <4>2. /\ MayAnswer(i) /\ executed[i] > 0
            /\ \A l \in 1..(n + k - 1) : down[l].part = 2 => down[l].id < i
        <5>1. n + k \in DOMAIN down /\ down[n + k].id > 0
          BY <1>2, <3>2, <4>1
        <5> QED BY <4>1, <5>1 DEF OrderInv, ResponsesOrdered
      <4>3. MayAnswer(i)'
        BY <3>3, <4>2
      <4>4. MayAnswer(down[k].id)'
        BY <4>1, <4>3
      <4> QED BY <1>3, <3>2, <4>1, <4>2, <4>4
    <3>5. RequestsOrdered'
      <4> SUFFICES ASSUME NEW k \in DOMAIN up[conn]
                   PROVE  /\ MayAnswer(up[conn][k])'
                          /\ \A l \in 1..(k - 1) : up[conn][l] < up[conn][k]
                          /\ \A l \in DOMAIN down' : down'[l].id < up[conn][k]
        BY <3>1 DEF RequestsOrdered
      <4>1. PICK i : i = up[conn][k]
        OBVIOUS
      <4>2. /\ MayAnswer(i) /\ \A l \in 1..(k - 1) : up[conn][l] < i
            /\ \A l \in DOMAIN down : down[l].id < i
        BY <1>1, <4>1 DEF OrderInv, RequestsOrdered
      <4>3. MayAnswer(i)'
        BY <3>3, <4>2
      <4>4. MayAnswer(up[conn][k])'
        BY <3>1, <4>1, <4>3
      <4> QED BY <1>2, <1>3, <3>2, <4>1, <4>2, <4>4
    <3> QED BY <1>1, <3>1, <3>4, <3>5 DEF OrderInv, WiresOpen, Begun, AnswersInOrder,
                FromThisConnection, ClientTypeOK, QueuesOK
  <2> QED BY <2>1, <2>2
<1>6. QueuesOK'
  BY <1>1, <1>3, <1>4, <1>5 DEF OrderInv, ClientTypeOK, QueuesOK
<1>7. FlagsOK'
  <2>1. waiting' \in BOOLEAN
    BY <1>1 DEF Finish, OrderInv, ClientTypeOK, FlagsOK, mishaps
  <2> QED BY <1>1, <2>1 DEF OrderInv, ClientTypeOK, FlagsOK, mishaps
<1> QED BY <1>5, <1>6, <1>7 DEF OrderInv, ClientTypeOK

(* A call in flight may be answered by what comes later. *)
LEMMA CallMayBeAnswered ==
    ASSUME OrderInv, ~waiting
    PROVE  /\ Current \in Nat
           /\ \A j \in DOMAIN results : results[j].answer < Current
           /\ \A k \in DOMAIN down : down[k].id < Current
           /\ \A c \in Conns : \A k \in DOMAIN up[c] : up[c][k] < Current
<1>1. /\ results \in Seq(Result) /\ down \in Seq(Piece)
      /\ DOMAIN results = 1..Len(results) /\ DOMAIN down = 1..Len(down)
      /\ Begun = Len(results) /\ Len(results) \in Nat
  BY DEF OrderInv, ClientTypeOK, QueuesOK, Begun
<1>2. \A j \in DOMAIN results : results[j].answer < Current
  <2> SUFFICES ASSUME NEW j \in 1..Len(results) PROVE results[j].answer < Current
    BY <1>1
  <2>1. results[j] \in Result
    BY <1>1
  <2>2. results[j].answer \in Int
    BY <2>1, IdsAreNumbers DEF Result
  <2>3. results[j].answer > 0 => results[j].answer <= j
    BY <1>1, <2>2 DEF OrderInv, AnswersInOrder
  <2> QED BY <1>1, <2>2, <2>3 DEF Current
<1>3. \A k \in DOMAIN down : down[k].id < Current
  <2> SUFFICES ASSUME NEW k \in 1..Len(down) PROVE down[k].id < Current
    BY <1>1
  <2>1. down[k].id \in Int
    BY <1>1, FirstPieces
  <2>2. down[k].id > 0 => down[k].id <= Len(results)
    BY <1>1, <2>1 DEF OrderInv, ResponsesOrdered, MayAnswer
  <2> QED BY <1>1, <2>1, <2>2 DEF Current
<1>4. \A c \in Conns : \A k \in DOMAIN up[c] : up[c][k] < Current
  <2> SUFFICES ASSUME NEW c \in Conns, NEW k \in DOMAIN up[c] PROVE up[c][k] < Current
    OBVIOUS
  <2>1. up[c][k] \in Nat /\ up[c][k] <= Begun
    BY RequestsAreCalls DEF OrderInv, WiresOpen
  <2> QED BY <1>1, <2>1 DEF Current
<1> QED BY <1>1, <1>2, <1>3, <1>4 DEF Current

LEMMA SendKeepsOrder == OrderInv /\ Send => OrderInv'
<1> SUFFICES ASSUME OrderInv, Send PROVE OrderInv'
  OBVIOUS
<1>1. /\ alive /\ connected_ /\ ~waiting /\ Len(results) < MaxCalls
      /\ UNCHANGED <<connected_, receiveBuffer_, results, conn, broken,
                     down, serverOpen, executed, strays, mishaps>>
  BY DEF Send
<1>2. conn \in Conns /\ results \in Seq(Result) /\ up \in [Conns -> Seq(Calls)]
  BY <1>1 DEF OrderInv, ClientTypeOK, QueuesOK, WiresOpen, Conns
<1>3. CASE broken
  <2>1. alive' = FALSE /\ waiting' = FALSE /\ waiting = FALSE /\ up' = up
    BY <1>1, <1>3 DEF Send, OrderInv, ClientTypeOK, FlagsOK, mishaps
  <2>2. FlagsOK'
    BY <1>1, <2>1 DEF OrderInv, ClientTypeOK, FlagsOK, mishaps
  <2>3. QueuesOK'
    BY <1>1, <2>1 DEF OrderInv, ClientTypeOK, QueuesOK
  <2> QED BY <1>1, <2>1, <2>2, <2>3 DEF OrderInv, ClientTypeOK, WiresOpen,
              ResponsesOrdered, RequestsOrdered, MayAnswer, Begun, AnswersInOrder,
              FromThisConnection
<1>4. CASE ~broken
  <2>1. /\ waiting' = TRUE /\ alive' = alive
        /\ up' = [up EXCEPT ![conn] = Append(up[conn], Current)]
    BY <1>4 DEF Send
  <2>2. Current \in Calls /\ Current = Len(results) + 1 /\ Begun = Len(results)
        /\ Begun' = Current /\ Len(results) \in Nat
    BY <1>1, <1>2, <2>1, ClientAssumption DEF Current, Calls, Begun
  <2>3. /\ \A j \in DOMAIN results : results[j].answer < Current
        /\ \A k \in DOMAIN down : down[k].id < Current
        /\ \A c \in Conns : \A k \in DOMAIN up[c] : up[c][k] < Current
    BY <1>1, CallMayBeAnswered
  <2>4. /\ up' \in [Conns -> Seq(Calls)]
        /\ \A c \in Conns : c # conn => up'[c] = up[c]
        /\ DOMAIN up'[conn] = 1..(Len(up[conn]) + 1) /\ DOMAIN up[conn] = 1..Len(up[conn])
        /\ \A k \in 1..Len(up[conn]) : up'[conn][k] = up[conn][k]
        /\ up'[conn][Len(up[conn]) + 1] = Current
    <3>1. Append(up[conn], Current) \in Seq(Calls)
      BY <1>2, <2>2
    <3>2. up'[conn] = Append(up[conn], Current) /\ \A c \in Conns : c # conn => up'[c] = up[c]
      BY <1>2, <2>1
    <3>3. up' \in [Conns -> Seq(Calls)]
      BY <1>2, <2>1, <3>1
    <3> QED BY <1>2, <2>2, <3>2, <3>3
  <2>5. \A i \in Nat : MayAnswer(i) => MayAnswer(i)'
    BY <1>1, <2>2 DEF MayAnswer
  <2>6. QueuesOK'
    BY <1>1, <2>4 DEF OrderInv, ClientTypeOK, QueuesOK
  <2>7. FlagsOK'
    BY <1>1, <2>1 DEF OrderInv, ClientTypeOK, FlagsOK, mishaps
  <2>8. WiresOpen'
    <3>1. ASSUME NEW c \in Conns, NEW k \in DOMAIN up'[c] PROVE up'[c][k] <= Begun'
      <4>1. CASE c = conn /\ k = Len(up[conn]) + 1
        BY <2>2, <2>4, <4>1
      <4>2. CASE ~(c = conn /\ k = Len(up[conn]) + 1)
        <5>1. k \in DOMAIN up[c] /\ up'[c][k] = up[c][k]
          BY <1>2, <2>4, <4>2
        <5>2. up[c][k] \in Nat
          BY <5>1, RequestsAreCalls
        <5> QED BY <2>2, <2>3, <5>1, <5>2
      <4> QED BY <4>1, <4>2
    <3>2. \A c \in Conns : c > conn => up'[c] = << >>
      <4>1. \A c \in Conns : c > conn => c # conn
        BY <1>2 DEF Conns
      <4> QED BY <2>4, <4>1 DEF OrderInv, WiresOpen
    <3> QED BY <1>1, <3>1, <3>2 DEF OrderInv, WiresOpen
  <2>9. ResponsesOrdered'
    <3> SUFFICES ASSUME NEW k \in DOMAIN down, down[k].id > 0 PROVE MayAnswer(down[k].id)'
      BY <1>1 DEF OrderInv, ResponsesOrdered
    <3>1. PICK i \in Nat : i = down[k].id
      BY FirstPieces DEF OrderInv, ClientTypeOK, QueuesOK
    <3>2. MayAnswer(i)'
      BY <2>5, <3>1 DEF OrderInv, ResponsesOrdered
    <3> QED BY <1>1, <3>1, <3>2
  <2>10. RequestsOrdered'
    <3> SUFFICES ASSUME NEW k \in DOMAIN up'[conn]
                 PROVE  /\ MayAnswer(up[conn][k])'
                        /\ \A l \in 1..(k - 1) : up'[conn][l] < up'[conn][k]
                        /\ \A l \in DOMAIN down : down[l].id < up'[conn][k]
      BY <1>1 DEF RequestsOrdered
    <3>1. CASE k = Len(up[conn]) + 1
      <4>1. PICK i \in Nat : i = Current
        BY <2>2, <1>2
      <4>2. MayAnswer(i)'
        BY <1>1, <2>2, <2>3, <4>1 DEF MayAnswer
      <4>3. i = up'[conn][k]
        BY <2>4, <3>1, <4>1
      <4>4. MayAnswer(up[conn][k])'
        BY <1>1, <4>2, <4>3
      <4>5. \A l \in 1..(k - 1) : l \in DOMAIN up[conn]
        BY <1>2, <2>4, <3>1
      <4> QED BY <1>2, <2>3, <2>4, <4>1, <4>3, <4>4, <4>5
    <3>2. CASE k \in 1..Len(up[conn])
      <4>1. PICK i \in Nat : i = up[conn][k] /\ i = up'[conn][k]
        BY <1>2, <2>4, <3>2, RequestsAreCalls
      <4>2. /\ MayAnswer(i) /\ \A l \in 1..(k - 1) : up[conn][l] < i
            /\ \A l \in DOMAIN down : down[l].id < i
        BY <1>1, <2>4, <3>2, <4>1 DEF OrderInv, RequestsOrdered
      <4>3. MayAnswer(i)'
        BY <2>5, <4>2
      <4>4. MayAnswer(up[conn][k])'
        BY <1>1, <4>1, <4>3
      <4>5. \A l \in 1..(k - 1) : l \in 1..Len(up[conn])
        BY <3>2
      <4> QED BY <2>4, <4>1, <4>2, <4>4, <4>5
    <3> QED BY <2>4, <3>1, <3>2
  <2> QED BY <1>1, <2>6, <2>7, <2>8, <2>9, <2>10 DEF OrderInv, ClientTypeOK,
              AnswersInOrder, FromThisConnection
<1> QED BY <1>3, <1>4

(* The server takes the oldest request off connection c. *)
LEMMA TailOfRequests ==
    ASSUME OrderInv, NEW c \in Conns, up[c] # << >>, up' = [up EXCEPT ![c] = Tail(@)]
    PROVE  /\ up' \in [Conns -> Seq(Calls)]
           /\ \A d \in Conns : d # c => up'[d] = up[d]
           /\ 1 \in DOMAIN up[c] /\ Head(up[c]) = up[c][1]
           /\ \A k \in DOMAIN up'[c] : /\ k \in Nat /\ k + 1 \in DOMAIN up[c]
                                       /\ up'[c][k] = up[c][k + 1]
           /\ \A k \in DOMAIN up'[c] : \A l \in 1..(k - 1) : l \in DOMAIN up'[c]
<1>1. up \in [Conns -> Seq(Calls)] /\ up[c] \in Seq(Calls) /\ DOMAIN up[c] = 1..Len(up[c])
  BY RequestsAreCalls DEF OrderInv, ClientTypeOK, QueuesOK
<1>2. Len(up[c]) > 0 /\ Len(up[c]) \in Nat
  BY <1>1
<1>3. /\ Tail(up[c]) \in Seq(Calls) /\ DOMAIN Tail(up[c]) = 1..(Len(up[c]) - 1)
      /\ \A k \in 1..(Len(up[c]) - 1) : Tail(up[c])[k] = up[c][k + 1]
      /\ Head(up[c]) = up[c][1]
  BY <1>1, <1>2
<1>4. up'[c] = Tail(up[c]) /\ \A d \in Conns : d # c => up'[d] = up[d]
  BY <1>1
<1>5. up' \in [Conns -> Seq(Calls)]
  BY <1>1, <1>3
<1> QED BY <1>1, <1>2, <1>3, <1>4, <1>5

LEMMA TakingKeepsRequests ==
    ASSUME OrderInv, NEW c \in Conns, up[c] # << >>, up' = [up EXCEPT ![c] = Tail(@)],
           UNCHANGED <<waiting, results, connected_, conn>>,
           ~connected_ => down' = << >>,
           \A l \in DOMAIN down' : \/ l \in DOMAIN down /\ down'[l].id = down[l].id
                                   \/ down'[l].id \in Int /\ ~(down'[l].id > 0)
                                   \/ c = conn /\ down'[l].id = Head(up[c])
    PROVE  WiresOpen' /\ RequestsOrdered' /\ \A i : MayAnswer(i) => MayAnswer(i)'
<1>1. ASSUME NEW i, MayAnswer(i) PROVE MayAnswer(i)'
  BY <1>1 DEF MayAnswer, Begun
<1>2. WiresOpen'
  <2>1. Begun' = Begun
    BY DEF Begun
  <2>2. \A d \in Conns : d > conn => up'[d] = << >>
    BY TailOfRequests DEF OrderInv, WiresOpen
  <2>3. ASSUME NEW d \in Conns, NEW k \in DOMAIN up'[d] PROVE up'[d][k] <= Begun
    <3>1. \A j \in DOMAIN up[d] : up[d][j] <= Begun
      BY DEF OrderInv, WiresOpen
    <3>2. CASE d = c
      <4>1. k + 1 \in DOMAIN up[c] /\ up'[c][k] = up[c][k + 1]
        BY <2>3, <3>2, TailOfRequests
      <4> QED BY <3>1, <3>2, <4>1
    <3>3. CASE d # c
      <4>1. up'[d] = up[d]
        BY <3>3, TailOfRequests
      <4> QED BY <3>1, <2>3, <4>1
    <3> QED BY <3>2, <3>3
  <2> QED BY <2>1, <2>2, <2>3 DEF OrderInv, WiresOpen
<1>3. RequestsOrdered'
  <2> SUFFICES ASSUME connected_, NEW k \in DOMAIN up'[conn]
               PROVE  /\ MayAnswer(up[conn][k])'
                      /\ \A l \in 1..(k - 1) : up'[conn][l] < up'[conn][k]
                      /\ \A l \in DOMAIN down' : down'[l].id < up'[conn][k]
    BY DEF RequestsOrdered
  <2>1. conn \in Conns
    BY DEF OrderInv, WiresOpen, ClientTypeOK, QueuesOK, Conns
  <2>2. PICK j \in DOMAIN up[conn] : /\ up'[conn][k] = up[conn][j] /\ j \in Nat /\ k \in Nat
                                     /\ j = IF c = conn THEN k + 1 ELSE k
    <3>1. CASE c = conn
      <4>1. k \in Nat /\ k + 1 \in DOMAIN up[conn] /\ up'[conn][k] = up[conn][k + 1]
        BY <3>1, TailOfRequests
      <4>2. k + 1 \in Nat
        BY <4>1
      <4> QED BY <3>1, <4>1, <4>2
    <3>2. CASE c # conn
      <4>1. up'[conn] = up[conn] /\ DOMAIN up[conn] = 1..Len(up[conn])
        BY <2>1, <3>2, TailOfRequests, RequestsAreCalls
      <4>2. k \in DOMAIN up[conn] /\ k \in Nat /\ up'[conn][k] = up[conn][k]
        <5>1. k \in 1..Len(up[conn]) /\ Len(up[conn]) \in Nat
          BY <4>1, <2>1, RequestsAreCalls
        <5>2. k \in Nat
          BY <5>1
        <5> QED BY <4>1, <5>1, <5>2
      <4> QED BY <3>2, <4>2
    <3> QED BY <3>1, <3>2
  <2>3. PICK i \in Nat \ {0} : i = up[conn][j]
    BY <2>1, RequestsAreCalls
  <2>4. /\ MayAnswer(i) /\ \A l \in 1..(j - 1) : up[conn][l] < i
        /\ \A l \in DOMAIN down : down[l].id < i
    BY <2>3 DEF OrderInv, RequestsOrdered
  <2>5. MayAnswer(up[conn][k])'
    <3>1. MayAnswer(i)'
      BY <1>1, <2>4
    <3> QED BY <2>2, <2>3, <3>1
  <2>6. \A l \in 1..(k - 1) : up'[conn][l] < i
    <3>1. CASE c = conn
      <4>1. \A l \in 1..(k - 1) : up'[conn][l] = up[conn][l + 1] /\ l + 1 \in 1..(j - 1)
        <5> SUFFICES ASSUME NEW l \in 1..(k - 1)
                     PROVE  up'[conn][l] = up[conn][l + 1] /\ l + 1 \in 1..(j - 1)
          OBVIOUS
        <5>1. l \in DOMAIN up'[conn]
          BY <3>1, TailOfRequests
        <5>2. up'[conn][l] = up[conn][l + 1]
          BY <3>1, <5>1, TailOfRequests
        <5>3. l + 1 \in 1..(j - 1)
          BY <2>2, <3>1
        <5> QED BY <5>2, <5>3
      <4> QED BY <2>4, <4>1
    <3>2. CASE c # conn
      BY <2>1, <2>2, <2>4, <3>2, TailOfRequests
    <3> QED BY <3>1, <3>2
  <2>7. ASSUME NEW l \in DOMAIN down' PROVE down'[l].id < i
    <3>1. c = conn => Head(up[c]) < i
      <4> SUFFICES ASSUME c = conn PROVE up[c][1] < i
        BY TailOfRequests
      <4>1. 1 \in 1..(j - 1)
        <5>1. DOMAIN up'[conn] = 1..Len(up'[conn])
          BY <2>1, TailOfRequests
        <5>2. k \in Nat \ {0} /\ j = k + 1
          BY <2>2, <5>1
        <5> QED BY <5>2
      <4> QED BY <2>4, <4>1
    <3> QED BY <2>3, <2>4, <3>1
  <2> QED BY <2>2, <2>3, <2>5, <2>6, <2>7
<1> QED BY <1>1, <1>2, <1>3

LEMMA LossKeepsOrder ==
    ASSUME OrderInv, NEW c \in Conns, Drop(c) \/ Lose(c)
    PROVE  OrderInv'
<1>1. /\ up[c] # << >> /\ up' = [up EXCEPT ![c] = Tail(@)]
      /\ UNCHANGED <<local, broken, down, serverOpen, executed, strays>>
      /\ orderly' = orderly /\ lossless' \in BOOLEAN
  BY DEF Drop, Lose, OrderInv, ClientTypeOK, FlagsOK, mishaps
<1>2. ~connected_ => down' = << >>
  BY <1>1 DEF OrderInv, WiresOpen
<1>3. /\ up' \in [Conns -> Seq(Calls)]
      /\ WiresOpen' /\ RequestsOrdered' /\ \A i : MayAnswer(i) => MayAnswer(i)'
  BY <1>1, <1>2, TailOfRequests, TakingKeepsRequests DEF local
<1>4. ResponsesOrdered'
  <2> SUFFICES ASSUME NEW k \in DOMAIN down, down[k].id > 0 PROVE MayAnswer(down[k].id)'
    BY <1>1 DEF OrderInv, ResponsesOrdered
  <2>1. PICK i : i = down[k].id
    OBVIOUS
  <2>2. MayAnswer(i)'
    BY <1>3, <2>1 DEF OrderInv, ResponsesOrdered
  <2> QED BY <1>1, <2>1, <2>2
<1>5. QueuesOK' /\ FlagsOK'
  BY <1>1, <1>3 DEF OrderInv, ClientTypeOK, QueuesOK, FlagsOK, local, mishaps
<1> QED BY <1>1, <1>3, <1>4, <1>5 DEF OrderInv, ClientTypeOK, AnswersInOrder,
            FromThisConnection, local

LEMMA ServerCloseKeepsOrder ==
    ASSUME OrderInv, NEW c \in Conns, ServerClose(c)
    PROVE  OrderInv'
<1>1. /\ serverOpen' = [serverOpen EXCEPT ![c] = FALSE]
      /\ UNCHANGED <<local, broken, up, down, executed, strays, mishaps>>
  BY DEF ServerClose
<1>2. QueuesOK' /\ FlagsOK'
  BY <1>1 DEF OrderInv, ClientTypeOK, QueuesOK, FlagsOK, local, mishaps
<1> QED BY <1>1, <1>2 DEF OrderInv, ClientTypeOK, WiresOpen, ResponsesOrdered,
            RequestsOrdered, MayAnswer, Begun, AnswersInOrder, FromThisConnection, local

LEMMA ResetKeepsOrder == OrderInv /\ Reset => OrderInv'
<1> SUFFICES ASSUME OrderInv, Reset PROVE OrderInv'
  OBVIOUS
<1>1. /\ connected_ /\ up' = [up EXCEPT ![conn] = << >>] /\ broken' = TRUE
      /\ down' = down \/ down' = << >>
      /\ UNCHANGED <<local, serverOpen, executed, strays, mishaps>>
  BY DEF Reset
<1>2. conn \in Conns
  BY <1>1 DEF OrderInv, WiresOpen, ClientTypeOK, QueuesOK, Conns
<1>3. /\ up' \in [Conns -> Seq(Calls)] /\ up'[conn] = << >>
      /\ \A d \in Conns : d # conn => up'[d] = up[d]
  BY <1>1, <1>2 DEF OrderInv, ClientTypeOK, QueuesOK
<1>4. RequestsOrdered' /\ WiresOpen'
  BY <1>1, <1>3 DEF OrderInv, RequestsOrdered, WiresOpen, Begun, local
<1>5. ResponsesOrdered'
  BY <1>1 DEF OrderInv, ResponsesOrdered, MayAnswer, Begun, local
<1>6. down' \in Seq(Piece)
  <2>1. down \in Seq(Piece)
    BY DEF OrderInv, ClientTypeOK, QueuesOK
  <2>2. << >> \in Seq(Piece)
    OBVIOUS
  <2> QED BY <1>1, <2>1, <2>2
<1>7. QueuesOK' /\ FlagsOK'
  BY <1>1, <1>3, <1>6 DEF OrderInv, ClientTypeOK, QueuesOK, FlagsOK, local, mishaps
<1> QED BY <1>1, <1>4, <1>5, <1>7 DEF OrderInv, ClientTypeOK, AnswersInOrder,
            FromThisConnection, local

(* What reaches the client of a response, or of the lines of one that the     *)
(* framing breaks, comes behind what is on its way.                           *)
LEMMA WrittenKeepsOrder ==
    ASSUME OrderInv, NEW c \in Conns, NEW r \in Ids, NEW n \in 0..2, Written(c, r, n),
           UNCHANGED local,
           \A i \in Calls : executed[i] > 0 => executed'[i] > 0,
           r > 0 => up[c] # << >> /\ r = Head(up[c]) /\ executed'[r] > 0
    PROVE  /\ down' \in Seq(Piece) /\ (~connected_ => down' = << >>)
           /\ ResponsesOrdered'
           /\ \A l \in DOMAIN down' : \/ l \in DOMAIN down /\ down'[l].id = down[l].id
                                      \/ down'[l].id \in Int /\ ~(down'[l].id > 0)
                                      \/ c = conn /\ r > 0 /\ down'[l].id = Head(up[c])
<1>1. down \in Seq(Piece) /\ DOMAIN down = 1..Len(down) /\ Len(down) \in Nat /\ r \in Int
  BY IdsAreNumbers DEF OrderInv, ClientTypeOK, QueuesOK
<1>2. \A i : MayAnswer(i) => MayAnswer(i)'
  BY DEF MayAnswer, Begun, local
<1>3. ASSUME NEW k \in 1..Len(down), NEW i, i = down[k].id, i > 0
      PROVE  /\ MayAnswer(i)' /\ executed'[i] > 0
             /\ \A l \in 1..(k - 1) : down[l].part = 2 => down[l].id < i
  <2>1. i \in Calls
    <3>1. down[k].id \in Ids
      BY <1>1, FirstPieces
    <3> QED BY <1>3, <3>1, IdsAreNumbers
  <2>2. /\ MayAnswer(i) /\ executed[i] > 0
        /\ \A l \in 1..(k - 1) : down[l].part = 2 => down[l].id < i
    BY <1>1, <1>3 DEF OrderInv, ResponsesOrdered
  <2>3. MayAnswer(i)' /\ executed'[i] > 0
    BY <1>2, <2>1, <2>2
  <2> QED BY <2>2, <2>3
<1>4. CASE connected_ /\ c = conn
  <2> DEFINE bytes == SubSeq(Response(r), 1, n)
  <2>1. /\ bytes \in Seq(Piece) /\ Len(bytes) = n
        /\ \A j \in 1..n : bytes[j] = [id |-> r, part |-> j]
    <3>1. \A p \in {1, 2} : [id |-> r, part |-> p] \in Piece
      BY DEF Piece
    <3>2. /\ Response(r) \in Seq(Piece) /\ Len(Response(r)) = 2
          /\ \A j \in 1..2 : Response(r)[j] = [id |-> r, part |-> j]
      BY <3>1 DEF Response
    <3> HIDE DEF Response
    <3>3. n \in 0..Len(Response(r)) /\ \A j \in 1..n : j \in 1..2
      BY <3>2
    <3> QED BY <3>2, <3>3, Beginning
  <2>2. down' = down \o bytes
    BY <1>4 DEF Written
  <2> HIDE DEF bytes
  <2>3. /\ down' \in Seq(Piece) /\ DOMAIN down' = 1..(Len(down) + n)
        /\ \A k \in 1..Len(down) : down'[k] = down[k]
        /\ \A j \in 1..n : down'[Len(down) + j] = [id |-> r, part |-> j]
    BY <1>1, <2>1, <2>2
  <2>4. ASSUME NEW k \in DOMAIN down', ~(k \in 1..Len(down))
        PROVE  k - Len(down) \in 1..n /\ down'[k] = [id |-> r, part |-> k - Len(down)]
    <3>1. k - Len(down) \in 1..n
      BY <1>1, <2>3, <2>4
    <3>2. k = Len(down) + (k - Len(down))
      BY <1>1, <2>3, <2>4
    <3> QED BY <2>3, <3>1, <3>2
  <2>5. ResponsesOrdered'
    <3> SUFFICES ASSUME NEW k \in DOMAIN down', down'[k].id > 0
                 PROVE  /\ MayAnswer(down[k].id)' /\ executed'[down'[k].id] > 0
                        /\ \A l \in 1..(k - 1) : down'[l].part = 2 => down'[l].id < down'[k].id
      BY DEF ResponsesOrdered
    <3>1. CASE k \in 1..Len(down)
      <4>1. \A l \in 1..(k - 1) : l \in 1..Len(down)
        BY <1>1, <3>1
      <4>2. PICK i : i = down[k].id /\ i = down'[k].id
        BY <2>3, <3>1
      <4>3. /\ MayAnswer(i)' /\ executed'[i] > 0
            /\ \A l \in 1..(k - 1) : down[l].part = 2 => down[l].id < i
        BY <1>3, <3>1, <4>2
      <4> QED BY <2>3, <3>1, <4>1, <4>2, <4>3
    <3>2. CASE ~(k \in 1..Len(down))
      <4>1. down'[k].id = r /\ r > 0 /\ k - Len(down) \in 1..n
        BY <2>4, <3>2
      <4>2. up[c] # << >> /\ r = up[conn][1] /\ 1 \in DOMAIN up[conn] /\ executed'[r] > 0
        BY <1>4, <4>1, RequestsAreCalls
      <4>3. MayAnswer(r) /\ \A l \in 1..Len(down) : down[l].id < r
        BY <1>1, <1>4, <4>2 DEF OrderInv, RequestsOrdered
      <4>4. ASSUME NEW l \in 1..(k - 1), down'[l].part = 2 PROVE down'[l].id < r
        <5>1. CASE l \in 1..Len(down)
          BY <2>3, <4>3, <5>1
        <5>2. CASE ~(l \in 1..Len(down))
          <6>1. l \in DOMAIN down' /\ k - Len(down) <= 2 /\ l - Len(down) < k - Len(down)
            BY <1>1, <2>3, <4>1
          <6>2. l - Len(down) = 2
            BY <2>4, <4>4, <5>2, <6>1
          <6> QED BY <1>1, <2>3, <6>1, <6>2
        <5> QED BY <5>1, <5>2
      <4>5. MayAnswer(r)'
        BY <1>2, <4>3
      <4> QED BY <4>1, <4>2, <4>4, <4>5
    <3> QED BY <3>1, <3>2
  <2>6. ASSUME NEW l \in DOMAIN down'
        PROVE  \/ l \in DOMAIN down /\ down'[l].id = down[l].id
               \/ down'[l].id \in Int /\ ~(down'[l].id > 0)
               \/ c = conn /\ r > 0 /\ down'[l].id = Head(up[c])
    <3>1. CASE l \in 1..Len(down)
      BY <1>1, <2>3, <3>1
    <3>2. CASE ~(l \in 1..Len(down))
      BY <1>1, <1>4, <2>4, <3>2
    <3> QED BY <3>1, <3>2
  <2> QED BY <1>4, <2>3, <2>5, <2>6
<1>5. CASE ~(connected_ /\ c = conn)
  <2>1. down' = down
    BY <1>5 DEF Written
  <2>2. ResponsesOrdered'
    <3> SUFFICES ASSUME NEW k \in 1..Len(down), NEW i, i = down[k].id, i > 0
                 PROVE  /\ MayAnswer(i)' /\ executed'[i] > 0
                        /\ \A l \in 1..(k - 1) : down[l].part = 2 => down[l].id < i
      BY <1>1, <2>1 DEF ResponsesOrdered
    <3> QED BY <1>3
  <2> QED BY <1>1, <2>1, <2>2 DEF OrderInv, WiresOpen
<1> QED BY <1>4, <1>5

LEMMA ReturnedStaysExecuted ==
    ASSUME OrderInv, UNCHANGED local, \A i \in Calls : executed[i] > 0 => executed'[i] > 0
    PROVE  AnswersInOrder' /\ FromThisConnection'
<1>1. results' = results /\ results \in Seq(Result)
  BY DEF local, OrderInv, ClientTypeOK, QueuesOK
<1>2. ASSUME NEW i \in DOMAIN results, results[i].answer > 0 PROVE results[i].answer \in Calls
  <2>1. results[i] \in Result
    BY <1>1
  <2> QED BY <1>2, <2>1, IdsAreNumbers DEF Result
<1> QED BY <1>1, <1>2 DEF OrderInv, AnswersInOrder, FromThisConnection

LEMMA ServeKeepsOrder ==
    ASSUME OrderInv, NEW c \in Conns, NEW fits \in BOOLEAN, NEW n \in 0..2, Serve(c, fits, n)
    PROVE  OrderInv'
<1> DEFINE h == Head(up[c])
           r == IF fits THEN h ELSE 0
<1>1. /\ up[c] # << >> /\ up' = [up EXCEPT ![c] = Tail(@)]
      /\ executed' = [executed EXCEPT ![h] = @ + 1]
      /\ orderly' \in BOOLEAN
      /\ UNCHANGED <<local, broken, serverOpen, strays, lossless>>
      /\ Written(c, r, n)
  BY DEF Serve, OrderInv, ClientTypeOK, FlagsOK, mishaps
<1>2. h = up[c][1] /\ h \in Calls /\ h \in Nat \ {0} /\ up' \in [Conns -> Seq(Calls)]
  <2>1. 1 \in DOMAIN up[c] /\ h = up[c][1] /\ up' \in [Conns -> Seq(Calls)]
    BY <1>1, TailOfRequests
  <2> QED BY <2>1, RequestsAreCalls
<1>3. /\ executed' \in [Calls -> Nat] /\ executed'[h] > 0
      /\ \A i \in Calls : executed[i] > 0 => executed'[i] > 0
  <2>1. executed \in [Calls -> Nat]
    BY DEF OrderInv, ClientTypeOK, QueuesOK
  <2> QED BY <1>1, <1>2, <2>1
<1>4. r \in Ids /\ (r > 0 => r = h)
  BY <1>2, IdsAreNumbers, ClientAssumption DEF Calls
<1> HIDE DEF r
<1>5. /\ down' \in Seq(Piece) /\ (~connected_ => down' = << >>)
      /\ ResponsesOrdered'
      /\ \A l \in DOMAIN down' : \/ l \in DOMAIN down /\ down'[l].id = down[l].id
                                 \/ down'[l].id \in Int /\ ~(down'[l].id > 0)
                                 \/ c = conn /\ r > 0 /\ down'[l].id = Head(up[c])
  BY <1>1, <1>3, <1>4, WrittenKeepsOrder
<1>6. WiresOpen' /\ RequestsOrdered'
  BY <1>1, <1>5, TakingKeepsRequests DEF local
<1>7. QueuesOK' /\ FlagsOK'
  BY <1>1, <1>2, <1>3, <1>5 DEF OrderInv, ClientTypeOK, QueuesOK, FlagsOK, local, mishaps
<1>8. AnswersInOrder' /\ FromThisConnection'
  BY <1>1, <1>3, ReturnedStaysExecuted
<1> QED BY <1>5, <1>6, <1>7, <1>8 DEF OrderInv, ClientTypeOK

(* A message found in a request answers no call. *)
LEMMA MisreadKeepsOrder ==
    ASSUME OrderInv, NEW c \in Conns, NEW fits \in BOOLEAN, NEW n \in 0..2, Misread(c, fits, n)
    PROVE  OrderInv'
<1> DEFINE r == IF fits THEN -(strays + 1) ELSE 0
<1>1. /\ strays < MaxStrays /\ strays' = strays + 1 /\ strays \in 0..MaxStrays
      /\ orderly' = FALSE
      /\ UNCHANGED <<local, broken, up, serverOpen, executed, lossless>>
      /\ Written(c, r, n)
  BY DEF Misread, OrderInv, ClientTypeOK, QueuesOK
<1>2. r \in Ids /\ ~(r > 0) /\ strays' \in 0..MaxStrays
  BY <1>1, ClientAssumption DEF Ids
<1> HIDE DEF r
<1>3. /\ down' \in Seq(Piece) /\ (~connected_ => down' = << >>)
      /\ ResponsesOrdered'
      /\ \A l \in DOMAIN down' : \/ l \in DOMAIN down /\ down'[l].id = down[l].id
                                 \/ down'[l].id \in Int /\ ~(down'[l].id > 0)
                                 \/ c = conn /\ r > 0 /\ down'[l].id = Head(up[c])
  BY <1>1, <1>2, WrittenKeepsOrder
<1>4. WiresOpen'
  BY <1>1, <1>3 DEF OrderInv, WiresOpen, Begun, local
<1>5. RequestsOrdered'
  <2> SUFFICES ASSUME connected_, NEW k \in DOMAIN up[conn]
               PROVE  /\ MayAnswer(up[conn][k])'
                      /\ \A l \in 1..(k - 1) : up[conn][l] < up[conn][k]
                      /\ \A l \in DOMAIN down' : down'[l].id < up[conn][k]
    BY <1>1 DEF RequestsOrdered, local
  <2>1. conn \in Conns
    BY DEF OrderInv, WiresOpen, ClientTypeOK, QueuesOK, Conns
  <2>2. PICK i \in Nat \ {0} : i = up[conn][k]
    BY <2>1, RequestsAreCalls
  <2>3. /\ MayAnswer(i) /\ \A l \in 1..(k - 1) : up[conn][l] < i
        /\ \A l \in DOMAIN down : down[l].id < i
    BY <2>2 DEF OrderInv, RequestsOrdered
  <2>4. MayAnswer(i)'
    BY <1>1, <2>3 DEF MayAnswer, Begun, local
  <2>5. ASSUME NEW l \in DOMAIN down' PROVE down'[l].id < i
    <3>1. CASE l \in DOMAIN down /\ down'[l].id = down[l].id
      BY <2>3, <3>1
    <3>2. CASE down'[l].id \in Int /\ ~(down'[l].id > 0)
      BY <2>2, <3>2
    <3> QED BY <1>3, <3>1, <3>2, <1>2, <1>1
  <2>6. MayAnswer(up[conn][k])'
    BY <1>1, <2>2, <2>4 DEF local
  <2> QED BY <2>2, <2>3, <2>5, <2>6
<1>6. QueuesOK' /\ FlagsOK'
  BY <1>1, <1>2, <1>3 DEF OrderInv, ClientTypeOK, QueuesOK, FlagsOK, local, mishaps
<1>7. AnswersInOrder' /\ FromThisConnection'
  BY <1>1, ReturnedStaysExecuted
<1> QED BY <1>3, <1>4, <1>5, <1>6, <1>7 DEF OrderInv, ClientTypeOK

(* However the front end uses the library. *)
LEMMA ClientKeepsOrder == OrderInv /\ [ClientNext]_clientVars => OrderInv'
BY StutterKeepsOrder, ConnectKeepsOrder, DisconnectKeepsOrder, FailureKeepsOrder,
   PollKeepsOrder, SendKeepsOrder, LossKeepsOrder, ServerCloseKeepsOrder,
   ResetKeepsOrder, ServeKeepsOrder, MisreadKeepsOrder DEF ClientNext

(* At every moment of every use of the library, responses are kept in the    *)
(* order of their calls on all the wires and in what the calls returned.     *)
THEOREM ResponsesInOrder == ClientInit /\ [][ClientNext]_clientVars => []OrderInv
BY InitOrder, ClientKeepsOrder, PTL

=============================================================================
