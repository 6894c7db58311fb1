--------------------------- MODULE Framing_proofs ---------------------------
(***************************************************************************)
(* Proofs about the wire format, for streams of any length: a receiver     *)
(* which keeps its buffer extracts the same messages however the stream of *)
(* bytes is cut into chunks, and they are those that were sent if and only *)
(* if every payload fits the framing.                                      *)
(***************************************************************************)
EXTENDS Framing, WellFoundedInduction, SequenceTheorems, TLAPS

(* Induction over the natural numbers, for a set of them: one that holds not   *)
(* all of them has a least one missing.                                       *)
LEMMA AllNumbers ==
    ASSUME NEW S, 0 \in S, \A n \in Nat : n \in S => n + 1 \in S
    PROVE  \A n \in Nat : n \in S
<1> SUFFICES ASSUME Nat \ S # {} PROVE FALSE
  OBVIOUS
<1>1. PICK m \in Nat \ S : \A x \in Nat \ S : <<x, m>> \notin OpToRel(<, Nat)
  BY NatLessThanWellFounded, WFMin
<1>2. \A x \in Nat \ S : ~(x < m)
  BY <1>1 DEF OpToRel
<1>3. m # 0 /\ m - 1 \in Nat /\ m - 1 < m
  OBVIOUS
<1>4. m - 1 \in S
  BY <1>2, <1>3
<1>5. (m - 1) + 1 \in S
  BY <1>3, <1>4
<1> QED BY <1>5

-----------------------------------------------------------------------------
(* What FlattenSeq computes, part by part. *)
Flattens(f, s, n) == f = [i \in 1..n |-> IF i = 1 THEN s[i] ELSE f[i - 1] \o s[i]]

SameTo(s, t, n) == \A i \in 1..n : s[i] = t[i]

LEMMA FlattensTwice ==
    ASSUME NEW s, NEW t, NEW n \in Nat, NEW f, NEW g, NEW m \in n..(n + 1),
           Flattens(f, s, n), Flattens(g, t, m), SameTo(s, t, n)
    PROVE  SameTo(f, g, n)
<1> DEFINE S == {k \in Nat : k + 1 \in 1..n => f[k + 1] = g[k + 1]}
<1>f. \A i \in 1..n : f[i] = IF i = 1 THEN s[i] ELSE f[i - 1] \o s[i]
  BY DEF Flattens
<1>g. \A i \in 1..m : g[i] = IF i = 1 THEN t[i] ELSE g[i - 1] \o t[i]
  BY DEF Flattens
<1>1. \A i \in 1..n : /\ f[i] = IF i = 1 THEN s[i] ELSE f[i - 1] \o s[i]
                      /\ g[i] = IF i = 1 THEN s[i] ELSE g[i - 1] \o s[i]
  <2>1. \A i \in 1..n : i \in 1..m
    OBVIOUS
  <2>2. \A i \in 1..n : s[i] = t[i]
    BY DEF SameTo
  <2> QED BY <1>f, <1>g, <2>1, <2>2
<1>2. 0 \in S
  BY <1>1
<1>3. ASSUME NEW k \in Nat, k \in S PROVE k + 1 \in S
  <2> SUFFICES ASSUME k + 2 \in 1..n PROVE f[k + 2] = g[k + 2]
    OBVIOUS
  <2>1. f[k + 1] = g[k + 1]
    BY <1>3
  <2>2. k + 2 # 1 /\ (k + 2) - 1 = k + 1
    OBVIOUS
  <2> QED BY <1>1, <2>1, <2>2
<1> HIDE DEF S
<1>4. \A k \in Nat : k \in S
  BY <1>2, <1>3, AllNumbers
<1>5. \A i \in 1..n : f[i] = g[i]
  <2> SUFFICES ASSUME NEW i \in 1..n PROVE f[i] = g[i]
    OBVIOUS
  <2>1. i - 1 \in S /\ (i - 1) + 1 = i
    BY <1>4
  <2> QED BY <2>1 DEF S
<1> QED BY <1>5 DEF SameTo

LEMMA FlattensOnce ==
    ASSUME NEW V, NEW s \in Seq(Seq(V))
    PROVE  \E f : Flattens(f, s, Len(s)) /\ \A i \in 1..Len(s) : f[i] \in Seq(V)
<1> DEFINE Good(n) == \E f : Flattens(f, s, n) /\ \A i \in 1..n : f[i] \in Seq(V)
           S == {n \in Nat : n <= Len(s) => Good(n)}
<1>1. 0 \in S
  <2>1. Good(0)
    <3> DEFINE f == [i \in 1..0 |-> s[i]]
    <3>1. f = [i \in 1..0 |-> IF i = 1 THEN s[i] ELSE f[i - 1] \o s[i]]
      OBVIOUS
    <3> HIDE DEF f
    <3> QED BY <3>1 DEF Flattens
  <2> QED BY <2>1
<1>2. ASSUME NEW n \in Nat, n \in S PROVE n + 1 \in S
  <2> SUFFICES ASSUME n + 1 <= Len(s) PROVE Good(n + 1)
    OBVIOUS
  <2>1. PICK f : Flattens(f, s, n) /\ \A i \in 1..n : f[i] \in Seq(V)
    BY <1>2
  <2>2. s[n + 1] \in Seq(V)
    OBVIOUS
  <2> DEFINE g == [i \in 1..(n + 1) |-> IF i = n + 1 THEN (IF n = 0 THEN s[i] ELSE f[n] \o s[i]) ELSE f[i]]
  <2>3. \A i \in 1..(n + 1) : g[i] = IF i = 1 THEN s[i] ELSE g[i - 1] \o s[i]
    <3> SUFFICES ASSUME NEW i \in 1..(n + 1) PROVE g[i] = IF i = 1 THEN s[i] ELSE g[i - 1] \o s[i]
      OBVIOUS
    <3>1. CASE i = n + 1
      BY <3>1
    <3>2. CASE i # n + 1
      <4>1. i \in 1..n /\ i - 1 # n + 1
        BY <3>2
      <4>2. \A j \in 1..n : f[j] = IF j = 1 THEN s[j] ELSE f[j - 1] \o s[j]
        BY <2>1 DEF Flattens
      <4>3. g[i] = f[i] /\ (i # 1 => g[i - 1] = f[i - 1])
        BY <4>1
      <4> HIDE DEF g
      <4> QED BY <4>1, <4>2, <4>3
    <3> QED BY <3>1, <3>2
  <2>4. g = [i \in 1..(n + 1) |-> g[i]]
    OBVIOUS
  <2>5. \A i \in 1..(n + 1) : g[i] \in Seq(V)
    <3>1. n # 0 => f[n] \o s[n + 1] \in Seq(V)
      BY <2>1, <2>2
    <3> QED BY <2>1, <2>2, <3>1
  <2> HIDE DEF g
  <2>6. Flattens(g, s, n + 1)
    BY <2>3, <2>4 DEF Flattens
  <2> QED BY <2>5, <2>6
<1>3. Len(s) \in Nat
  OBVIOUS
<1> HIDE DEF S
<1>4. \A n \in Nat : n \in S
  BY <1>1, <1>2, AllNumbers
<1>5. Good(Len(s))
  BY <1>3, <1>4 DEF S
<1> QED BY <1>5

LEMMA FlattenParts ==
    ASSUME NEW V, NEW s \in Seq(Seq(V)), Len(s) # 0
    PROVE  \E f : /\ Flattens(f, s, Len(s)) /\ \A i \in 1..Len(s) : f[i] \in Seq(V)
                  /\ FlattenSeq(s) = f[Len(s)]
<1> DEFINE f == CHOOSE f : f = [i \in 1..Len(s) |-> IF i = 1 THEN s[i] ELSE f[i - 1] \o s[i]]
<1>1. PICK g : Flattens(g, s, Len(s)) /\ \A i \in 1..Len(s) : g[i] \in Seq(V)
  BY FlattensOnce
<1>2. f = [i \in 1..Len(s) |-> IF i = 1 THEN s[i] ELSE f[i - 1] \o s[i]]
  BY <1>1 DEF Flattens
<1>3. FlattenSeq(s) = f[Len(s)]
  BY DEF FlattenSeq
<1> HIDE DEF f
<1>4. Flattens(f, s, Len(s))
  BY <1>2 DEF Flattens
<1>5. \A i \in 1..Len(s) : f[i] = g[i]
  <2>1. Len(s) \in Nat /\ Len(s) \in Len(s)..(Len(s) + 1)
    OBVIOUS
  <2>2. SameTo(s, s, Len(s))
    BY DEF SameTo
  <2>3. SameTo(f, g, Len(s))
    BY <1>1, <1>4, <2>1, <2>2, FlattensTwice
  <2> QED BY <2>3 DEF SameTo
<1> QED BY <1>1, <1>3, <1>4, <1>5

(* Its equations, and the type of what it yields. *)
LEMMA FlattenEmpty == FlattenSeq(<< >>) = << >>
<1>1. Len(<< >>) = 0
  OBVIOUS
<1> QED BY <1>1 DEF FlattenSeq

LEMMA FlattenType ==
    ASSUME NEW V, NEW s \in Seq(Seq(V))
    PROVE  FlattenSeq(s) \in Seq(V)
<1>1. CASE Len(s) = 0
  <2>1. s = << >>
    BY <1>1
  <2> QED BY <2>1, FlattenEmpty, EmptySeq
<1>2. CASE Len(s) # 0
  <2>1. Len(s) \in 1..Len(s)
    BY <1>2
  <2> QED BY <1>2, <2>1, FlattenParts
<1> QED BY <1>1, <1>2

LEMMA FlattenAppend ==
    ASSUME NEW V, NEW s \in Seq(Seq(V)), NEW x \in Seq(V)
    PROVE  FlattenSeq(Append(s, x)) = FlattenSeq(s) \o x
<1> DEFINE t == Append(s, x)
<1>1. /\ t \in Seq(Seq(V)) /\ Len(t) = Len(s) + 1 /\ Len(s) \in Nat
      /\ t[Len(s) + 1] = x /\ \A i \in 1..Len(s) : s[i] = t[i]
  OBVIOUS
<1> HIDE DEF t
<1>2. PICK g : Flattens(g, t, Len(t)) /\ FlattenSeq(t) = g[Len(t)]
  BY <1>1, FlattenParts
<1>3. \A i \in 1..Len(t) : g[i] = IF i = 1 THEN t[i] ELSE g[i - 1] \o t[i]
  BY <1>2 DEF Flattens
<1>4. CASE Len(s) = 0
  <2>1. s = << >> /\ 1 \in 1..Len(t) /\ Len(t) = 1
    BY <1>1, <1>4
  <2>2. FlattenSeq(t) = x
    BY <1>1, <1>2, <1>3, <2>1
  <2>3. << >> \o x = x
    OBVIOUS
  <2> QED BY <2>1, <2>2, <2>3, FlattenEmpty DEF t
<1>5. CASE Len(s) # 0
  <2>1. PICK f : Flattens(f, s, Len(s)) /\ FlattenSeq(s) = f[Len(s)]
    BY <1>5, FlattenParts
  <2>2. Len(t) \in Len(s)..(Len(s) + 1)
    BY <1>1
  <2>3. \A i \in 1..Len(s) : f[i] = g[i]
    <3>1. SameTo(s, t, Len(s)) /\ Len(s) \in Nat
      BY <1>1 DEF SameTo
    <3>2. SameTo(f, g, Len(s))
      BY <1>2, <2>1, <2>2, <3>1, FlattensTwice
    <3> QED BY <3>2 DEF SameTo
  <2>4. Len(s) \in 1..Len(s) /\ Len(t) \in 1..Len(t) /\ Len(t) # 1 /\ Len(t) - 1 = Len(s)
    BY <1>1, <1>5
  <2>5. g[Len(t)] = g[Len(s)] \o t[Len(t)]
    BY <1>3, <2>4
  <2> QED BY <1>1, <1>2, <2>1, <2>3, <2>4, <2>5 DEF t
<1> QED BY <1>1, <1>4, <1>5

(* Concatenation behind a name, so that a proof may use its laws by citing    *)
(* them and not by expanding it.                                             *)
Joined(s, t) == s \o t

IsJoined(V, s, t, w) ==
    /\ w \in Seq(V) /\ Len(w) = Len(s) + Len(t)
    /\ \A i \in 1..Len(s) : w[i] = s[i]
    /\ \A i \in 1..Len(t) : w[Len(s) + i] = t[i]

LEMMA JoinedIs ==
    ASSUME NEW V, NEW s \in Seq(V), NEW t \in Seq(V)
    PROVE  IsJoined(V, s, t, s \o t)
<1>1. /\ Len(s) \in Nat /\ Len(t) \in Nat
      /\ \A i \in 1..Len(s) : i \in 1..(Len(s) + Len(t))
      /\ \A i \in 1..Len(t) : Len(s) + i \in 1..(Len(s) + Len(t)) /\ ~(Len(s) + i <= Len(s))
      /\ \A i \in 1..Len(t) : (Len(s) + i) - Len(s) = i
  OBVIOUS
<1>2. \A i \in 1..Len(s) : (s \o t)[i] = s[i]
  BY <1>1
<1>3. \A i \in 1..Len(t) : (s \o t)[Len(s) + i] = t[i]
  BY <1>1
<1>4. s \o t \in Seq(V) /\ Len(s \o t) = Len(s) + Len(t)
  OBVIOUS
<1> QED BY <1>2, <1>3, <1>4 DEF IsJoined

LEMMA JoinedAssociative ==
    ASSUME NEW V, NEW s \in Seq(V), NEW t \in Seq(V), NEW u \in Seq(V)
    PROVE  Joined(Joined(s, t), u) = Joined(s, Joined(t, u))
BY DEF Joined

LEMMA JoinedAppend ==
    ASSUME NEW V, NEW s \in Seq(V), NEW t \in Seq(V), NEW x \in V
    PROVE  Joined(s, Append(t, x)) = Append(Joined(s, t), x)
BY DEF Joined

LEMMA FlattenConcat ==
    ASSUME NEW V, NEW s \in Seq(Seq(V)), NEW t \in Seq(Seq(V))
    PROVE  FlattenSeq(s \o t) = FlattenSeq(s) \o FlattenSeq(t)
<1> DEFINE front(n) == SubSeq(t, 1, n)
           S == {n \in Nat : n <= Len(t) =>
                    FlattenSeq(s \o front(n)) = FlattenSeq(s) \o FlattenSeq(front(n))}
<1>1. 0 \in S
  <2>1. front(0) = << >> /\ s \o << >> = s
    BY ConcatEmptySeq
  <2>2. FlattenSeq(s) \o << >> = FlattenSeq(s)
    BY FlattenType, ConcatEmptySeq
  <2> QED BY <2>1, <2>2, FlattenEmpty
<1>2. ASSUME NEW n \in Nat, n \in S PROVE n + 1 \in S
  <2> SUFFICES ASSUME n + 1 <= Len(t)
               PROVE  FlattenSeq(s \o front(n + 1)) = FlattenSeq(s) \o FlattenSeq(front(n + 1))
    OBVIOUS
  <2>1. front(n) \in Seq(Seq(V)) /\ t[n + 1] \in Seq(V)
    OBVIOUS
  <2>2. front(n + 1) = Append(front(n), t[n + 1])
    OBVIOUS
  <2>3. FlattenSeq(s \o front(n)) = FlattenSeq(s) \o FlattenSeq(front(n))
    BY <1>2
  <2> HIDE DEF front
  <2>4. s \o Append(front(n), t[n + 1]) = Append(s \o front(n), t[n + 1])
    <3> DEFINE W == Seq(V)
               u == front(n)
               x == t[n + 1]
    <3>1. s \in Seq(W) /\ u \in Seq(W) /\ x \in W
      BY <2>1
    <3> HIDE DEF W, u, x
    <3>2. Joined(s, Append(u, x)) = Append(Joined(s, u), x)
      BY <3>1, JoinedAppend
    <3> QED BY <3>2, Zenon DEF Joined, u, x
  <2>5. s \o front(n) \in Seq(Seq(V))
    BY <2>1
  <2>6. FlattenSeq(s \o front(n + 1)) = FlattenSeq(s \o front(n)) \o t[n + 1]
    BY <2>1, <2>2, <2>4, <2>5, FlattenAppend
  <2>7. FlattenSeq(front(n + 1)) = FlattenSeq(front(n)) \o t[n + 1]
    BY <2>1, <2>2, FlattenAppend
  <2>8. FlattenSeq(s) \in Seq(V) /\ FlattenSeq(front(n)) \in Seq(V)
    BY <2>1, FlattenType
  <2>9. (FlattenSeq(s) \o FlattenSeq(front(n))) \o t[n + 1]
            = FlattenSeq(s) \o (FlattenSeq(front(n)) \o t[n + 1])
    <3>1. Joined(Joined(FlattenSeq(s), FlattenSeq(front(n))), t[n + 1])
              = Joined(FlattenSeq(s), Joined(FlattenSeq(front(n)), t[n + 1]))
      BY <2>1, <2>8, JoinedAssociative
    <3> QED BY <3>1, Zenon DEF Joined
  <2> QED BY <2>3, <2>6, <2>7, <2>9
<1> HIDE DEF S
<1>3. \A n \in Nat : n \in S
  BY <1>1, <1>2, AllNumbers
<1>4. Len(t) \in Nat /\ front(Len(t)) = t
  OBVIOUS
<1> HIDE DEF front
<1>5. Len(t) \in S
  BY <1>3, <1>4
<1>6. FlattenSeq(s \o front(Len(t))) = FlattenSeq(s) \o FlattenSeq(front(Len(t)))
  BY <1>4, <1>5 DEF S
<1> QED BY <1>4, <1>6

-----------------------------------------------------------------------------
(* The line that ends before position i begins at exactly one place.         *)
IsStart(z, i, s) ==
    /\ s \in 1..i
    /\ s > 1 => z[s - 1] = "\n"
    /\ \A j \in s..(i - 1) : z[j] # "\n"

LEMMA StartExists ==
    ASSUME NEW z, NEW i \in Nat \ {0}
    PROVE  \E s : IsStart(z, i, s)
<1> DEFINE S == {k \in Nat : \E s : IsStart(z, k + 1, s)}
<1>1. 0 \in S
  <2>1. IsStart(z, 0 + 1, 1)
    BY DEF IsStart
  <2> QED BY <2>1
<1>2. ASSUME NEW k \in Nat, k \in S PROVE k + 1 \in S
  <2>1. PICK s : IsStart(z, k + 1, s)
    BY <1>2
  <2>2. CASE z[k + 1] = "\n"
    <3>1. IsStart(z, (k + 1) + 1, k + 2)
      BY <2>2 DEF IsStart
    <3> QED BY <3>1
  <2>3. CASE z[k + 1] # "\n"
    <3>1. IsStart(z, (k + 1) + 1, s)
      BY <2>1, <2>3 DEF IsStart
    <3> QED BY <3>1
  <2> QED BY <2>2, <2>3
<1> HIDE DEF S
<1>3. \A k \in Nat : k \in S
  BY <1>1, <1>2, AllNumbers
<1>4. i - 1 \in S /\ (i - 1) + 1 = i
  BY <1>3
<1> QED BY <1>4 DEF S

LEMMA StartIs ==
    ASSUME NEW z, NEW i \in Nat \ {0}
    PROVE  IsStart(z, i, LineStart(z, i))
<1>1. PICK s : IsStart(z, i, s)
  BY StartExists
<1>2. /\ s \in 1..i /\ (s > 1 => z[s - 1] = "\n")
      /\ \A j \in s..(i - 1) : z[j] # "\n"
  BY <1>1 DEF IsStart
<1> DEFINE Good(t) == /\ t > 1 => z[t - 1] = "\n"
                      /\ \A j \in t..(i - 1) : z[j] # "\n"
           a == CHOOSE t \in 1..i : Good(t)
<1>3. s \in 1..i /\ Good(s)
  BY <1>2
<1> HIDE DEF Good
<1>4. a \in 1..i /\ Good(a)
  BY <1>3, Zenon
<1>5. LineStart(z, i) = a
  BY DEF LineStart, Good
<1> HIDE DEF a
<1> QED BY <1>4, <1>5 DEF IsStart, Good

LEMMA StartOnce ==
    ASSUME NEW z, NEW i \in Nat \ {0}, NEW s, IsStart(z, i, s)
    PROVE  LineStart(z, i) = s
<1>1. IsStart(z, i, LineStart(z, i))
  BY StartIs
<1> QED BY <1>1 DEF IsStart

(* Where two sequences agree so do their parts.                              *)
LEMMA SubSeqSame ==
    ASSUME NEW C, NEW z \in Seq(C), NEW v \in Seq(C), NEW n \in Nat, NEW a \in Nat \ {0},
           NEW b \in Nat, b <= Len(v), n + b <= Len(z), \A k \in a..b : z[n + k] = v[k]
    PROVE  SubSeq(z, n + a, n + b) = SubSeq(v, a, b)
<1> DEFINE s == SubSeq(z, n + a, n + b)
           t == SubSeq(v, a, b)
<1>1. s \in Seq(C) /\ t \in Seq(C)
  OBVIOUS
<1>2. Len(s) = IF a <= b THEN b - a + 1 ELSE 0
  OBVIOUS
<1>3. Len(t) = IF a <= b THEN b - a + 1 ELSE 0
  OBVIOUS
<1>4. ASSUME NEW i \in 1..Len(s) PROVE s[i] = t[i]
  <2>1. a + i - 1 \in a..b
    BY <1>2
  <2>2. s[i] = z[n + (a + i - 1)] /\ t[i] = v[a + i - 1]
    BY <1>2, <2>1
  <2> QED BY <2>1, <2>2
<1> HIDE DEF s, t
<1> QED BY <1>1, <1>2, <1>3, <1>4, SeqEqual

(* What comes after a position does not change the line that ends there.     *)
LEMMA CompletedBefore ==
    ASSUME NEW C, NEW x \in Seq(C), NEW y \in Seq(C), NEW i \in 1..Len(x)
    PROVE  Completed(x \o y, i) = Completed(x, i)
<1> DEFINE z == x \o y
           a == LineStart(x, i)
<1>1. \A k \in 1..Len(x) : z[k] = x[k]
  OBVIOUS
<1>2. z \in Seq(C) /\ Len(z) = Len(x) + Len(y) /\ Len(x) \in Nat /\ Len(y) \in Nat
  OBVIOUS
<1> HIDE DEF z
<1>3. i \in Nat \ {0}
  OBVIOUS
<1>4. IsStart(x, i, a)
  BY <1>3, StartIs
<1>5. IsStart(z, i, a)
  <2>1. a \in 1..i /\ (a > 1 => x[a - 1] = "\n") /\ \A j \in a..(i - 1) : x[j] # "\n"
    BY <1>4 DEF IsStart
  <2>2. a > 1 => a - 1 \in 1..Len(x)
    BY <1>2, <2>1
  <2>3. \A j \in a..(i - 1) : j \in 1..Len(x)
    BY <1>2, <2>1
  <2> QED BY <1>1, <2>1, <2>2, <2>3 DEF IsStart
<1>6. LineStart(z, i) = a
  BY <1>3, <1>5, StartOnce
<1>7. a \in 1..i
  BY <1>4 DEF IsStart
<1> HIDE DEF a
<1>8. SubSeq(z, a, i - 1) = SubSeq(x, a, i - 1)
  <2>1. /\ 0 \in Nat /\ a \in Nat \ {0} /\ i - 1 \in Nat /\ i - 1 <= Len(x)
        /\ 0 + (i - 1) <= Len(z) /\ 0 + (i - 1) = i - 1 /\ 0 + a = a
    BY <1>2, <1>7
  <2>2. \A k \in a..(i - 1) : z[0 + k] = x[k]
    BY <1>1, <2>1
  <2> QED BY <1>2, <2>1, <2>2, SubSeqSame
<1>9. Line(z, i) = Line(x, i)
  BY <1>6, <1>8 DEF Line, a
<1>10. z[i] = x[i]
  BY <1>1
<1> QED BY <1>9, <1>10 DEF Completed, z

(* Nor do whole lines before it. *)
IsCut(u) == u # << >> => u[Len(u)] = "\n"

LEMMA StartShift ==
    ASSUME NEW C, NEW u \in Seq(C), NEW v \in Seq(C), IsCut(u), NEW i \in 1..(Len(v) + 1)
    PROVE  LineStart(u \o v, Len(u) + i) = Len(u) + LineStart(v, i)
<1> DEFINE z == u \o v
           a == LineStart(v, i)
           n == Len(u)
<1>1. /\ \A k \in 1..n : z[k] = u[k]
      /\ \A k \in 1..Len(v) : z[n + k] = v[k]
      /\ n \in Nat /\ Len(v) \in Nat
      /\ n # 0 => u # << >>
  OBVIOUS
<1>2. i \in Nat \ {0}
  OBVIOUS
<1>3. IsStart(v, i, a)
  BY <1>2, StartIs
<1>4. n # 0 => u[n] = "\n"
  BY <1>1 DEF IsCut
<1> HIDE DEF z, a, n
<1>5. IsStart(z, n + i, n + a)
  <2>1. a \in 1..i /\ (a > 1 => v[a - 1] = "\n") /\ \A j \in a..(i - 1) : v[j] # "\n"
    BY <1>3 DEF IsStart
  <2>2. n + a \in 1..(n + i)
    BY <1>1, <2>1
  <2>3. n + a > 1 => z[(n + a) - 1] = "\n"
    <3>1. CASE a = 1
      BY <1>1, <1>4, <3>1
    <3>2. CASE a > 1
      <4>1. a - 1 \in 1..Len(v) /\ (n + a) - 1 = n + (a - 1)
        BY <1>1, <2>1, <3>2
      <4> QED BY <1>1, <2>1, <3>2, <4>1
    <3> QED BY <2>1, <3>1, <3>2
  <2>4. ASSUME NEW j \in (n + a)..((n + i) - 1) PROVE z[j] # "\n"
    <3>1. j - n \in a..(i - 1) /\ j - n \in 1..Len(v) /\ j = n + (j - n)
      BY <1>1, <2>1
    <3> QED BY <1>1, <2>1, <3>1
  <2> QED BY <2>2, <2>3, <2>4 DEF IsStart
<1>6. n + i \in Nat \ {0}
  BY <1>1
<1> QED BY <1>5, <1>6, StartOnce DEF z, a, n

LEMMA CompletedAfter ==
    ASSUME NEW C, NEW u \in Seq(C), NEW v \in Seq(C), IsCut(u), NEW i \in 1..Len(v)
    PROVE  Completed(u \o v, Len(u) + i) = Completed(v, i)
<1> DEFINE z == u \o v
           a == LineStart(v, i)
           n == Len(u)
<1>1. /\ \A k \in 1..Len(v) : z[n + k] = v[k]
      /\ n \in Nat /\ Len(v) \in Nat /\ z \in Seq(C) /\ Len(z) = n + Len(v)
  OBVIOUS
<1>2. i \in Nat \ {0} /\ i \in 1..(Len(v) + 1)
  OBVIOUS
<1>3. LineStart(z, n + i) = n + a
  BY <1>2, StartShift
<1>4. a \in 1..i
  BY <1>2, StartIs DEF IsStart
<1> HIDE DEF z, a, n
<1>5. SubSeq(z, n + a, (n + i) - 1) = SubSeq(v, a, i - 1)
  <2>1. /\ a \in Nat \ {0} /\ i - 1 \in Nat /\ i - 1 <= Len(v)
        /\ n + (i - 1) <= Len(z) /\ n + (i - 1) = (n + i) - 1
    BY <1>1, <1>2, <1>4
  <2>2. \A k \in a..(i - 1) : z[n + k] = v[k]
    BY <1>1, <2>1
  <2>3. z \in Seq(C) /\ v \in Seq(C) /\ n \in Nat
    BY <1>1
  <2>4. SubSeq(z, n + a, n + (i - 1)) = SubSeq(v, a, i - 1)
    BY <2>1, <2>2, <2>3, SubSeqSame
  <2> QED BY <2>1, <2>4
<1>6. Line(z, n + i) = Line(v, i)
  BY <1>3, <1>5 DEF Line, a
<1>7. z[n + i] = v[i]
  BY <1>1
<1> QED BY <1>6, <1>7 DEF Completed, z, n

-----------------------------------------------------------------------------
(* What a receiver may get: the valid messages that some line decodes to.    *)
Lines == Seq(Chars \ {"\n"})
Valid == {m \in {deserialize(l) : l \in Lines} : validateMessage(m)}

LEMMA LineType ==
    ASSUME NEW b \in Seq(Chars), NEW i \in 1..Len(b)
    PROVE  Line(b, i) \in Lines
<1> DEFINE a == LineStart(b, i)
           l == SubSeq(b, a, i - 1)
<1>1. a \in 1..i /\ \A j \in a..(i - 1) : b[j] # "\n"
  <2>1. i \in Nat \ {0}
    OBVIOUS
  <2> QED BY <2>1, StartIs DEF IsStart
<1> HIDE DEF a
<1>2. \A j \in a..(i - 1) : b[j] \in Chars \ {"\n"}
  BY <1>1
<1>3. a \in Int /\ i - 1 \in Int
  BY <1>1
<1>4. l \in Lines
  BY <1>2, <1>3, SubSeqProperties DEF Lines
<1> HIDE DEF l
<1>5. l # << >> => Front(l) \in Lines
  BY <1>4 DEF Front, Lines
<1> QED BY <1>4, <1>5 DEF Line, l, a

LEMMA CompletedType ==
    ASSUME NEW b \in Seq(Chars), NEW i \in 1..Len(b)
    PROVE  Completed(b, i) \in Seq(Valid)
<1> DEFINE m == deserialize(Line(b, i))
<1>1. Line(b, i) \in Lines
  BY LineType
<1>2. validateMessage(m) => m \in Valid
  BY <1>1 DEF Valid
<1>3. Completed(b, i) = << >> \/ (Completed(b, i) = <<m>> /\ validateMessage(m))
  BY DEF Completed
<1> HIDE DEF m
<1>4. << >> \in Seq(Valid)
  OBVIOUS
<1>5. ASSUME m \in Valid PROVE <<m>> \in Seq(Valid)
  BY <1>5
<1> QED BY <1>2, <1>3, <1>4, <1>5

(* What the positions of a buffer complete, one by one. *)
Positions(b) == [i \in DOMAIN b |-> Completed(b, i)]

LEMMA PositionsType ==
    ASSUME NEW b \in Seq(Chars)
    PROVE  /\ Positions(b) \in Seq(Seq(Valid)) /\ Len(Positions(b)) = Len(b)
           /\ \A i \in 1..Len(b) : Positions(b)[i] = Completed(b, i)
           /\ Extracted(b) = FlattenSeq(Positions(b))
           /\ Extracted(b) \in Seq(Valid)
<1>1. DOMAIN b = 1..Len(b) /\ Len(b) \in Nat
  OBVIOUS
<1>2. \A i \in 1..Len(b) : Completed(b, i) \in Seq(Valid)
  BY CompletedType
<1>3. Positions(b) = [i \in 1..Len(b) |-> Completed(b, i)]
  BY <1>1 DEF Positions
<1>4. Positions(b) \in Seq(Seq(Valid)) /\ Len(Positions(b)) = Len(b)
  BY <1>1, <1>2, <1>3
<1>5. Extracted(b) = FlattenSeq(Positions(b))
  BY DEF Extracted, Positions
<1> QED BY <1>3, <1>4, <1>5, FlattenType

LEMMA ExtractedCut ==
    ASSUME NEW u \in Seq(Chars), NEW v \in Seq(Chars), IsCut(u)
    PROVE  Extracted(u \o v) = Extracted(u) \o Extracted(v)
<1> DEFINE z == u \o v
           p == Positions(u)
           q == Positions(v)
           r == Positions(z)
<1>1. /\ z \in Seq(Chars) /\ Len(z) = Len(u) + Len(v)
      /\ Len(u) \in Nat /\ Len(v) \in Nat
  OBVIOUS
<1>2. /\ p \in Seq(Seq(Valid)) /\ Len(p) = Len(u)
      /\ \A i \in 1..Len(u) : p[i] = Completed(u, i)
  BY PositionsType
<1>3. /\ q \in Seq(Seq(Valid)) /\ Len(q) = Len(v)
      /\ \A i \in 1..Len(v) : q[i] = Completed(v, i)
  BY PositionsType
<1>4. /\ r \in Seq(Seq(Valid)) /\ Len(r) = Len(z)
      /\ \A i \in 1..Len(z) : r[i] = Completed(z, i)
  BY <1>1, PositionsType
<1>5. \A i \in 1..Len(u) : Completed(z, i) = Completed(u, i)
  BY CompletedBefore
<1>6. \A i \in 1..Len(v) : Completed(z, Len(u) + i) = Completed(v, i)
  BY CompletedAfter
<1> HIDE DEF z, p, q, r
<1> DEFINE w == p \o q
<1>7. /\ w \in Seq(Seq(Valid)) /\ Len(w) = Len(z)
      /\ \A i \in 1..Len(u) : w[i] = p[i]
      /\ \A i \in 1..Len(v) : w[Len(u) + i] = q[i]
  <2> DEFINE W == Seq(Valid)
  <2>1. p \in Seq(W) /\ q \in Seq(W)
    BY <1>2, <1>3
  <2> HIDE DEF W
  <2>2. IsJoined(W, p, q, p \o q)
    BY <2>1, JoinedIs
  <2> HIDE DEF w
  <2>3. IsJoined(W, p, q, w)
    BY <2>2, Zenon DEF w
  <2>4. /\ w \in Seq(W) /\ Len(w) = Len(p) + Len(q)
        /\ \A i \in 1..Len(p) : w[i] = p[i]
        /\ \A i \in 1..Len(q) : w[Len(p) + i] = q[i]
    BY <2>3, Zenon DEF IsJoined
  <2> QED BY <1>1, <1>2, <1>3, <2>4 DEF W
<1> HIDE DEF w
<1>8. ASSUME NEW i \in 1..Len(r) PROVE r[i] = w[i]
  <2>1. i \in 1..Len(z) /\ r[i] = Completed(z, i)
    BY <1>4
  <2>2. CASE i <= Len(u)
    <3>1. i \in 1..Len(u)
      BY <1>1, <2>1, <2>2
    <3> QED BY <1>2, <1>5, <1>7, <2>1, <3>1
  <2>3. CASE ~(i <= Len(u))
    <3> DEFINE k == i - Len(u)
    <3>1. k \in 1..Len(v) /\ i = Len(u) + k
      BY <1>1, <2>1, <2>3
    <3> HIDE DEF k
    <3> QED BY <1>3, <1>6, <1>7, <2>1, <3>1
  <2> QED BY <2>2, <2>3
<1>9. r = p \o q
  BY <1>4, <1>7, <1>8, SeqEqual DEF w
<1>10. FlattenSeq(p \o q) = FlattenSeq(p) \o FlattenSeq(q)
  BY <1>2, <1>3, FlattenConcat
<1>11. Extracted(z) = FlattenSeq(r)
  BY <1>1, PositionsType DEF r
<1>12. Extracted(u) = FlattenSeq(p) /\ Extracted(v) = FlattenSeq(q)
  BY PositionsType DEF p, q
<1> QED BY <1>9, <1>10, <1>11, <1>12 DEF z

(* No newline, no message. *)
LEMMA FlattenNothing ==
    ASSUME NEW V, NEW s \in Seq(Seq(V)), \A i \in 1..Len(s) : s[i] = << >>
    PROVE  FlattenSeq(s) = << >>
<1> DEFINE front(n) == SubSeq(s, 1, n)
           S == {n \in Nat : n <= Len(s) => FlattenSeq(front(n)) = << >>}
<1>1. 0 \in S
  <2>1. front(0) = << >>
    OBVIOUS
  <2> QED BY <2>1, FlattenEmpty
<1>2. ASSUME NEW n \in Nat, n \in S PROVE n + 1 \in S
  <2> SUFFICES ASSUME n + 1 <= Len(s) PROVE FlattenSeq(front(n + 1)) = << >>
    OBVIOUS
  <2>1. front(n) \in Seq(Seq(V)) /\ s[n + 1] = << >> /\ << >> \in Seq(V)
    OBVIOUS
  <2>2. front(n + 1) = Append(front(n), s[n + 1])
    OBVIOUS
  <2>3. FlattenSeq(front(n)) = << >>
    BY <1>2
  <2> HIDE DEF front
  <2>4. FlattenSeq(front(n + 1)) = FlattenSeq(front(n)) \o << >>
    BY <2>1, <2>2, FlattenAppend
  <2> QED BY <2>3, <2>4
<1> HIDE DEF S
<1>3. \A n \in Nat : n \in S
  BY <1>1, <1>2, AllNumbers
<1>4. Len(s) \in Nat /\ front(Len(s)) = s
  OBVIOUS
<1> HIDE DEF front
<1>5. Len(s) \in S
  BY <1>3, <1>4
<1> QED BY <1>4, <1>5 DEF S

LEMMA ExtractedLine ==
    ASSUME NEW r \in Lines
    PROVE  Extracted(r) = << >>
<1>1. r \in Seq(Chars) /\ \A i \in 1..Len(r) : r[i] # "\n"
  BY DEF Lines
<1>2. \A i \in 1..Len(r) : Completed(r, i) = << >>
  BY <1>1 DEF Completed
<1>3. \A i \in 1..Len(Positions(r)) : Positions(r)[i] = << >>
  BY <1>1, <1>2, PositionsType
<1>4. Positions(r) \in Seq(Seq(Valid)) /\ Extracted(r) = FlattenSeq(Positions(r))
  BY <1>1, PositionsType
<1> QED BY <1>3, <1>4, FlattenNothing

(* A buffer consists of whole lines and what remains.                        *)
LEMMA RemainingIs ==
    ASSUME NEW x \in Seq(Chars)
    PROVE  /\ Remaining(x) \in Lines
           /\ \E u \in Seq(Chars) : IsCut(u) /\ x = u \o Remaining(x)
<1> DEFINE a == LineStart(x, Len(x) + 1)
           u == SubSeq(x, 1, a - 1)
<1>1. Len(x) \in Nat /\ Len(x) + 1 \in Nat \ {0} /\ (Len(x) + 1) - 1 = Len(x)
  OBVIOUS
<1>2. /\ a \in 1..(Len(x) + 1) /\ (a > 1 => x[a - 1] = "\n")
      /\ \A j \in a..Len(x) : x[j] # "\n"
  BY <1>1, StartIs DEF IsStart
<1>3. Remaining(x) = SubSeq(x, a, Len(x))
  BY DEF Remaining
<1> HIDE DEF a
<1>4. Remaining(x) \in Lines
  <2>1. \A j \in a..Len(x) : x[j] \in Chars \ {"\n"}
    BY <1>1, <1>2
  <2>2. a \in Int /\ Len(x) \in Int
    BY <1>1, <1>2
  <2> QED BY <1>3, <2>1, <2>2, SubSeqProperties DEF Lines
<1>5. u \in Seq(Chars) /\ Len(u) = a - 1 /\ \A i \in 1..Len(u) : u[i] = x[i]
  BY <1>1, <1>2
<1>6. x = u \o Remaining(x)
  <2> DEFINE k == a - 1
  <2>1. 1 \in 1..(Len(x) + 1) /\ k \in (1 - 1)..Len(x) /\ Len(x) \in k..Len(x) /\ k + 1 = a
    BY <1>1, <1>2
  <2> HIDE DEF k
  <2>2. SubSeq(x, 1, k) \o SubSeq(x, k + 1, Len(x)) = SubSeq(x, 1, Len(x))
    BY <2>1, ConcatAdjacentSubSeq
  <2>3. SubSeq(x, 1, Len(x)) = x
    BY SubSeqFull
  <2> QED BY <1>3, <2>1, <2>2, <2>3 DEF k
<1> HIDE DEF u
<1>7. IsCut(u)
  <2> SUFFICES ASSUME u # << >> PROVE u[Len(u)] = "\n"
    BY DEF IsCut
  <2>1. Len(u) # 0 /\ Len(u) \in Nat
    BY <1>5
  <2>2. a > 1 /\ Len(u) \in 1..Len(u)
    BY <1>2, <1>5, <2>1
  <2> QED BY <1>2, <1>5, <2>2
<1> QED BY <1>4, <1>5, <1>6, <1>7

(* Extracting in two steps, with what remains kept in between, is extracting  *)
(* at once.                                                                  *)
LEMMA ExtractedJoin ==
    ASSUME NEW x \in Seq(Chars), NEW y \in Seq(Chars)
    PROVE  Extracted(x \o y) = Extracted(x) \o Extracted(Remaining(x) \o y)
<1> DEFINE r == Remaining(x)
<1>1. PICK u \in Seq(Chars) : IsCut(u) /\ x = u \o r
  BY RemainingIs
<1>2. r \in Seq(Chars) /\ Extracted(r) = << >>
  <2>1. r \in Lines
    BY RemainingIs
  <2> HIDE DEF r
  <2> QED BY <2>1, ExtractedLine DEF Lines
<1> HIDE DEF r
<1>3. r \o y \in Seq(Chars)
  BY <1>2
<1>4. x \o y = u \o (r \o y)
  BY <1>1, <1>2
<1>5. Extracted(x) = Extracted(u)
  <2>1. Extracted(x) = Extracted(u) \o << >>
    BY <1>1, <1>2, ExtractedCut
  <2>2. Extracted(u) \in Seq(Valid)
    BY PositionsType
  <2> QED BY <2>1, <2>2
<1>6. Extracted(u \o (r \o y)) = Extracted(u) \o Extracted(r \o y)
  BY <1>1, <1>3, ExtractedCut
<1> QED BY <1>4, <1>5, <1>6 DEF r

LEMMA RemainingCut ==
    ASSUME NEW x \in Seq(Chars), NEW y \in Seq(Chars), IsCut(x \o y)
    PROVE  IsCut(Remaining(x) \o y)
<1> DEFINE r == Remaining(x)
<1>1. PICK u \in Seq(Chars) : x = u \o r
  BY RemainingIs
<1>2. r \in Seq(Chars)
  BY RemainingIs DEF Lines
<1> HIDE DEF r
<1> DEFINE v == r \o y
           z == x \o y
<1>3. z = u \o v /\ v \in Seq(Chars)
  BY <1>1, <1>2
<1> SUFFICES ASSUME v # << >> PROVE v[Len(v)] = "\n"
  BY DEF IsCut, r
<1>4. z # << >> => z[Len(z)] = "\n"
  BY DEF IsCut
<1> HIDE DEF v, z
<1>5. Len(v) \in Nat /\ Len(v) # 0
  BY <1>3
<1>6. Len(z) = Len(u) + Len(v) /\ Len(u) \in Nat
  BY <1>3
<1>7. z[Len(u) + Len(v)] = v[Len(v)]
  BY <1>3, <1>5, <1>6
<1>8. z # << >>
  BY <1>5, <1>6
<1> QED BY <1>4, <1>6, <1>7, <1>8

-----------------------------------------------------------------------------
(* The ten digits. *)
LEMMA DigitsAre ==
    /\ Digits = {"0", "1", "2", "3", "4", "5", "6", "7", "8", "9"}
    /\ \A i \in 1..10 : DigitChars[i] \in Digits
    /\ \A i, j \in 1..10 : DigitChars[i] = DigitChars[j] => i = j
<1>1. /\ DigitChars[1] = "0" /\ DigitChars[2] = "1" /\ DigitChars[3] = "2"
      /\ DigitChars[4] = "3" /\ DigitChars[5] = "4" /\ DigitChars[6] = "5"
      /\ DigitChars[7] = "6" /\ DigitChars[8] = "7" /\ DigitChars[9] = "8"
      /\ DigitChars[10] = "9"
  BY DEF DigitChars
<1>2. 1..10 = {1, 2, 3, 4, 5, 6, 7, 8, 9, 10}
  OBVIOUS
<1> QED BY <1>1, <1>2 DEF Digits

LEMMA ValueIs ==
    ASSUME NEW i \in 1..10
    PROVE  Value(DigitChars[i]) = i - 1
<1>1. \E k \in 1..10 : DigitChars[k] = DigitChars[i]
  OBVIOUS
<1> DEFINE j == CHOOSE k \in 1..10 : DigitChars[k] = DigitChars[i]
<1>2. j \in 1..10 /\ DigitChars[j] = DigitChars[i]
  BY <1>1, Zenon
<1>3. Value(DigitChars[i]) = j - 1
  BY DEF Value
<1> HIDE DEF j
<1> QED BY <1>2, <1>3, DigitsAre

LEMMA Division ==
    ASSUME NEW n \in Nat, ~(n < 10)
    PROVE  /\ n \div 10 \in Nat /\ n \div 10 < n
           /\ (n % 10) + 1 \in 1..10 /\ n = 10 * (n \div 10) + (n % 10)
<1>1. n \div 10 \in Nat /\ n \div 10 < n /\ (n % 10) + 1 \in 1..10
  OBVIOUS
<1>2. \A k \in Int : k = 10 * (k \div 10) + (k % 10)
  OBVIOUS
<1>3. n \in Int
  OBVIOUS
<1>4. n = 10 * (n \div 10) + (n % 10)
  BY <1>2, <1>3, Zenon
<1> QED BY <1>1, <1>4, Zenon

(* Decimal is well defined: its equation has a solution, as each number needs *)
(* but a smaller one.                                                        *)
Spelt(f, n) == IF n < 10 THEN <<DigitChars[n + 1]>>
                         ELSE Append(f[n \div 10], DigitChars[(n % 10) + 1])
Spells(f, n) == \A k \in 0..n : f[k] = Spelt(f, k)
SameUpTo(f, g, n) == \A k \in 0..n : f[k] = g[k]

LEMMA SpellsOnce ==
    ASSUME NEW n \in Nat, NEW f, NEW g, Spells(f, n), Spells(g, n)
    PROVE  SameUpTo(f, g, n)
<1> DEFINE S == {k \in Nat : \A i \in 0..k : i <= n => f[i] = g[i]}
<1>1. ASSUME NEW k \in 0..n, \A i \in 0..(k - 1) : f[i] = g[i] PROVE f[k] = g[k]
  <2>1. f[k] = Spelt(f, k) /\ g[k] = Spelt(g, k)
    BY DEF Spells
  <2>2. CASE k < 10
    BY <2>1, <2>2 DEF Spelt
  <2>3. CASE ~(k < 10)
    <3>1. k \in Nat
      OBVIOUS
    <3>2. k \div 10 \in 0..(k - 1)
      BY <2>3, <3>1, Division
    <3>3. f[k \div 10] = g[k \div 10]
      BY <1>1, <3>2
    <3> QED BY <2>1, <2>3, <3>3 DEF Spelt
  <2> QED BY <2>2, <2>3
<1>2. 0 \in S
  BY <1>1
<1>3. ASSUME NEW k \in Nat, k \in S PROVE k + 1 \in S
  <2>1. \A i \in 0..k : i <= n => f[i] = g[i]
    BY <1>3
  <2>2. k + 1 <= n => f[k + 1] = g[k + 1]
    BY <1>1, <2>1
  <2> QED BY <2>1, <2>2
<1> HIDE DEF S
<1>4. \A k \in Nat : k \in S
  BY <1>2, <1>3, AllNumbers
<1> QED BY <1>4 DEF S, SameUpTo

LEMMA SpellsExists ==
    ASSUME NEW n \in Nat
    PROVE  \E f : Spells(f, n)
<1> DEFINE S == {k \in Nat : \E f : Spells(f, k)}
<1>1. 0 \in S
  <2> DEFINE f == [k \in 0..0 |-> Spelt(0, k)]
  <2>1. f[0] = Spelt(f, 0)
    BY DEF Spelt
  <2> HIDE DEF f
  <2>2. Spells(f, 0)
    BY <2>1 DEF Spells
  <2> QED BY <2>2
<1>2. ASSUME NEW k \in Nat, k \in S PROVE k + 1 \in S
  <2>1. PICK f : Spells(f, k)
    BY <1>2
  <2> DEFINE g == [i \in 0..(k + 1) |-> IF i = k + 1 THEN Spelt(f, i) ELSE f[i]]
  <2>2. \A i \in 0..k : g[i] = f[i]
    OBVIOUS
  <2>3. g[k + 1] = Spelt(f, k + 1)
    OBVIOUS
  <2> HIDE DEF g
  <2>4. ASSUME NEW i \in 0..(k + 1) PROVE Spelt(g, i) = Spelt(f, i)
    <3>1. CASE i < 10
      BY <3>1 DEF Spelt
    <3>2. CASE ~(i < 10)
      <4>1. i \in Nat
        OBVIOUS
      <4>2. i \div 10 \in 0..k
        BY <3>2, <4>1, Division
      <4>3. g[i \div 10] = f[i \div 10]
        BY <2>2, <4>2
      <4> QED BY <3>2, <4>3 DEF Spelt
    <3> QED BY <3>1, <3>2
  <2>5. ASSUME NEW i \in 0..(k + 1) PROVE g[i] = Spelt(g, i)
    <3>1. CASE i = k + 1
      BY <2>3, <2>4, <3>1
    <3>2. CASE i # k + 1
      <4>1. i \in 0..k
        BY <3>2
      <4> QED BY <2>1, <2>2, <2>4, <4>1 DEF Spells
    <3> QED BY <3>1, <3>2
  <2>6. Spells(g, k + 1)
    BY <2>5 DEF Spells
  <2> QED BY <2>6
<1> HIDE DEF S
<1>3. \A k \in Nat : k \in S
  BY <1>1, <1>2, AllNumbers
<1>4. n \in S
  BY <1>3
<1> QED BY <1>4 DEF S

LEMMA DecimalIs == \A n \in Nat : Decimal[n] = Spelt(Decimal, n)
<1> DEFINE F(n) == CHOOSE f : Spells(f, n)
           D == [n \in Nat |-> F(n)[n]]
<1>1. ASSUME NEW n \in Nat PROVE Spells(F(n), n)
  BY SpellsExists
<1> HIDE DEF F
<1>2. \A n \in Nat : D[n] = F(n)[n]
  OBVIOUS
<1>3. D = [n \in Nat |-> D[n]]
  OBVIOUS
<1> HIDE DEF D
<1>4. ASSUME NEW n \in Nat PROVE D[n] = Spelt(D, n)
  <2>1. D[n] = Spelt(F(n), n)
    BY <1>1, <1>2 DEF Spells
  <2>2. CASE n < 10
    BY <2>1, <2>2 DEF Spelt
  <2>3. CASE ~(n < 10)
    <3> DEFINE k == n \div 10
    <3>1. k \in Nat /\ k < n
      BY <2>3, Division
    <3> HIDE DEF k
    <3>2. Spells(F(n), k)
      BY <1>1, <3>1 DEF Spells
    <3>3. Spells(F(k), k)
      BY <1>1, <3>1
    <3>4. SameUpTo(F(k), F(n), k)
      BY <3>1, <3>2, <3>3, SpellsOnce
    <3>5. F(k)[k] = F(n)[k]
      BY <3>1, <3>4 DEF SameUpTo
    <3>6. D[k] = F(n)[k]
      BY <1>2, <3>1, <3>5
    <3> QED BY <2>1, <2>3, <3>6 DEF Spelt, k
  <2> QED BY <2>2, <2>3
<1>5. D = [n \in Nat |-> IF n < 10 THEN <<DigitChars[n + 1]>>
                        ELSE Append(D[n \div 10], DigitChars[(n % 10) + 1])]
  <2>1. \A n \in Nat : D[n] = IF n < 10 THEN <<DigitChars[n + 1]>>
                              ELSE Append(D[n \div 10], DigitChars[(n % 10) + 1])
    BY <1>4 DEF Spelt
  <2> QED BY <1>3, <2>1
<1>6. Decimal = [n \in Nat |-> IF n < 10 THEN <<DigitChars[n + 1]>>
                        ELSE Append(Decimal[n \div 10], DigitChars[(n % 10) + 1])]
  BY <1>5 DEF Decimal
<1>7. \A n \in Nat : Decimal[n] = IF n < 10 THEN <<DigitChars[n + 1]>>
                        ELSE Append(Decimal[n \div 10], DigitChars[(n % 10) + 1])
  BY <1>6
<1> QED BY <1>7 DEF Spelt

LEMMA DecimalType ==
    ASSUME NEW n \in Nat
    PROVE  Decimal[n] \in Seq(Digits) /\ Decimal[n] # << >>
<1> DEFINE P(k) == Decimal[k] \in Seq(Digits) /\ Decimal[k] # << >>
           S == {k \in Nat : \A i \in 0..k : P(i)}
<1>1. ASSUME NEW k \in Nat, \A i \in 0..(k - 1) : P(i) PROVE P(k)
  <2>1. Decimal[k] = Spelt(Decimal, k)
    BY DecimalIs
  <2>2. CASE k < 10
    <3>1. k + 1 \in 1..10 /\ Decimal[k] = <<DigitChars[k + 1]>>
      BY <2>1, <2>2 DEF Spelt
    <3>2. DigitChars[k + 1] \in Digits
      BY <3>1, DigitsAre
    <3> QED BY <3>1, <3>2
  <2>3. CASE ~(k < 10)
    <3>1. k \div 10 \in 0..(k - 1) /\ (k % 10) + 1 \in 1..10
      BY <2>3, Division
    <3>2. Decimal[k] = Append(Decimal[k \div 10], DigitChars[(k % 10) + 1])
      BY <2>1, <2>3 DEF Spelt
    <3>3. Decimal[k \div 10] \in Seq(Digits)
      BY <1>1, <3>1
    <3>4. DigitChars[(k % 10) + 1] \in Digits
      BY <3>1, DigitsAre
    <3> QED BY <3>2, <3>3, <3>4, AppendProperties
  <2> QED BY <2>2, <2>3
<1> HIDE DEF P
<1>2. 0 \in S
  BY <1>1
<1>3. ASSUME NEW k \in Nat, k \in S PROVE k + 1 \in S
  BY <1>1, <1>3
<1> HIDE DEF S
<1>4. \A k \in Nat : k \in S
  BY <1>2, <1>3, AllNumbers
<1>5. P(n)
  BY <1>4 DEF S
<1> QED BY <1>5 DEF P

(* A sent message is a string of bytes that ends a line.                     *)
Header(m) == Decimal[m.type] \o <<"|">> \o Decimal[m.length] \o <<"|">>
                 \o Decimal[m.sequence] \o <<"|">>

LEMMA SerializeType ==
    ASSUME NEW m \in Outgoing
    PROVE  /\ m.type \in Nat /\ m.length \in Nat /\ m.sequence = 0
           /\ m.payload \in Seq(Chars) /\ Header(m) \in Seq(Chars \ {"\n"})
           /\ Header(m) # << >> /\ Header(m)[Len(Header(m))] = "|"
           /\ serialize(m) = (Header(m) \o m.payload) \o <<"\n">>
           /\ serialize(m) \in Seq(Chars) /\ IsCut(serialize(m))
<1>1. /\ m.type \in Nat /\ m.payload \in Seq(Chars) /\ m = Message(m.type, m.payload)
  BY OutgoingAssumption
<1>2. m.sequence = 0 /\ m.length = Len(m.payload) % Width
  BY <1>1 DEF Message
<1>3. m.length \in Nat
  <2>1. Width \in Nat \ {0} /\ Len(m.payload) \in Nat
    BY <1>1, WidthAssumption
  <2>2. \A k \in Nat, w \in Nat \ {0} : k % w \in Nat
    OBVIOUS
  <2> QED BY <1>2, <2>1, <2>2, Zenon
<1> DEFINE C == Chars \ {"\n"}
<1>4. "|" \in C /\ Digits \subseteq C /\ "\n" \in Chars /\ C \subseteq Chars
  BY DigitsAre DEF Chars
<1>5. <<"|">> \in Seq(C) /\ <<"|">> # << >> /\ <<"\n">> \in Seq(Chars)
  BY <1>4
<1>6. \A n \in Nat : Decimal[n] \in Seq(C)
  BY <1>4, DecimalType, SeqMonotonic
<1> DEFINE h == Decimal[m.type] \o <<"|">> \o Decimal[m.length] \o <<"|">> \o Decimal[m.sequence]
<1>7. h \in Seq(C)
  <2>1. Decimal[m.type] \in Seq(C) /\ Decimal[m.length] \in Seq(C) /\ Decimal[m.sequence] \in Seq(C)
    BY <1>1, <1>2, <1>3, <1>6
  <2> HIDE DEF C
  <2> QED BY <1>5, <2>1
<1>8. Header(m) = h \o <<"|">>
  BY DEF Header
<1> HIDE DEF h
<1>9. Header(m) \in Seq(C) /\ Header(m) # << >> /\ Header(m)[Len(Header(m))] = "|"
  BY <1>5, <1>7, <1>8
<1>10. serialize(m) = (Header(m) \o m.payload) \o <<"\n">>
  BY DEF serialize, Header
<1> DEFINE p == Header(m) \o m.payload
<1>11. p \in Seq(Chars)
  <2>1. Header(m) \in Seq(Chars)
    BY <1>4, <1>9, SeqMonotonic
  <2> QED BY <1>1, <2>1
<1> HIDE DEF p
<1>12. p \o <<"\n">> \in Seq(Chars) /\ (p \o <<"\n">>)[Len(p \o <<"\n">>)] = "\n"
  BY <1>5, <1>11
<1> QED BY <1>1, <1>2, <1>3, <1>9, <1>10, <1>12 DEF IsCut, p

-----------------------------------------------------------------------------
(* The types, and where the messages come from. *)
TypeInv == TypeOK /\ got \in Seq(Valid)

LEMMA TypeInvInit == Init => TypeInv
<1> SUFFICES ASSUME Init PROVE TypeInv
  OBVIOUS
<1>1. sent = << >> /\ wire = << >> /\ buffer = << >> /\ got = << >>
  BY DEF Init
<1> QED BY <1>1 DEF TypeInv, TypeOK

LEMMA ChunkTypes ==
    ASSUME TypeInv, NEW n \in 1..Len(wire)
    PROVE  /\ buffer \in Seq(Chars) /\ << >> \in Seq(Chars) /\ << >> \in Lines
           /\ SubSeq(wire, 1, n) \in Seq(Chars) /\ SubSeq(wire, n + 1, Len(wire)) \in Seq(Chars)
           /\ wire = SubSeq(wire, 1, n) \o SubSeq(wire, n + 1, Len(wire))
<1>1. wire \in Seq(Chars) /\ Len(wire) \in Nat
  BY DEF TypeInv, TypeOK
<1>2. buffer \in Seq(Chars)
  BY SeqMonotonic DEF TypeInv, TypeOK
<1>3. SubSeq(wire, 1, n) \in Seq(Chars) /\ SubSeq(wire, n + 1, Len(wire)) \in Seq(Chars)
  BY <1>1
<1>4. wire = SubSeq(wire, 1, n) \o SubSeq(wire, n + 1, Len(wire))
  <2>1. 1 \in 1..(Len(wire) + 1) /\ n \in (1 - 1)..Len(wire) /\ Len(wire) \in n..Len(wire)
    BY <1>1
  <2>2. SubSeq(wire, 1, n) \o SubSeq(wire, n + 1, Len(wire)) = SubSeq(wire, 1, Len(wire))
    BY <1>1, <2>1, ConcatAdjacentSubSeq
  <2>3. SubSeq(wire, 1, Len(wire)) = wire
    BY <1>1, SubSeqFull
  <2> QED BY <2>2, <2>3
<1> QED BY <1>2, <1>3, <1>4 DEF Lines

LEMMA TypeInvNext == TypeInv /\ [Next]_vars => TypeInv'
<1> SUFFICES ASSUME TypeInv, [Next]_vars PROVE TypeInv'
  OBVIOUS
<1>1. /\ sent \in Seq(Outgoing) /\ wire \in Seq(Chars) /\ buffer \in Lines
      /\ got \in Seq(Valid) /\ \A i \in DOMAIN got : validateMessage(got[i])
  BY DEF TypeInv, TypeOK, Lines
<1>2. ASSUME NEW m \in Outgoing, Send(m) PROVE TypeInv'
  <2>1. sent' \in Seq(Outgoing)
    BY <1>1, <1>2 DEF Send
  <2>2. wire' \in Seq(Chars)
    BY <1>1, <1>2, SerializeType DEF Send
  <2>3. buffer' = buffer /\ got' = got
    BY <1>2 DEF Send
  <2> QED BY <1>1, <2>1, <2>2, <2>3 DEF TypeInv, TypeOK, Lines
<1>3. ASSUME NEW n \in 1..Len(wire), Receive(n) PROVE TypeInv'
  <2> DEFINE bytes == (IF Keep THEN buffer ELSE << >>) \o SubSeq(wire, 1, n)
  <2>1. sent' = sent /\ wire' = SubSeq(wire, n + 1, Len(wire))
    BY <1>3 DEF Receive
  <2>2. got' = got \o Extracted(bytes) /\ buffer' = IF Keep THEN Remaining(bytes) ELSE << >>
    BY <1>3 DEF Receive
  <2>3. bytes \in Seq(Chars)
    BY ChunkTypes
  <2> HIDE DEF bytes
  <2>4. buffer' \in Lines
    BY <2>2, <2>3, RemainingIs, ChunkTypes
  <2>5. got' \in Seq(Valid)
    BY <1>1, <2>2, <2>3, PositionsType
  <2>6. \A i \in DOMAIN got' : validateMessage(got'[i])
    BY <2>5 DEF Valid
  <2>7. wire' \in Seq(Chars)
    BY <2>1, ChunkTypes
  <2> QED BY <1>1, <2>1, <2>4, <2>5, <2>6, <2>7 DEF TypeInv, TypeOK, Lines
<1>4. CASE UNCHANGED vars
  BY <1>1, <1>4 DEF vars, TypeInv, TypeOK, Lines
<1> QED BY <1>2, <1>3, <1>4 DEF Next

(* The receiver keeps less than a line, and passes on valid messages only.   *)
THEOREM FramingTypes == Spec => []TypeOK
<1>1. TypeInv => TypeOK
  BY DEF TypeInv
<1> QED BY TypeInvInit, TypeInvNext, <1>1, PTL DEF Spec

-----------------------------------------------------------------------------
(* The stream of the messages sent, one message at a time. *)
LEMMA StreamTypes ==
    ASSUME NEW t \in Seq(Outgoing)
    PROVE  [i \in DOMAIN t |-> serialize(t[i])] \in Seq(Seq(Chars)) /\ Stream(t) \in Seq(Chars)
<1>1. DOMAIN t = 1..Len(t) /\ Len(t) \in Nat /\ \A i \in 1..Len(t) : t[i] \in Outgoing
  OBVIOUS
<1>2. \A i \in 1..Len(t) : serialize(t[i]) \in Seq(Chars)
  BY <1>1, SerializeType
<1>3. [i \in DOMAIN t |-> serialize(t[i])] \in Seq(Seq(Chars))
  BY <1>1, <1>2
<1> QED BY <1>3, FlattenType DEF Stream

LEMMA StreamEmpty == Stream(<< >>) = << >>
<1>1. [i \in DOMAIN << >> |-> serialize(<< >>[i])] = << >>
  OBVIOUS
<1> QED BY <1>1, FlattenEmpty DEF Stream

LEMMA StreamAppend ==
    ASSUME NEW t \in Seq(Outgoing), NEW m \in Outgoing
    PROVE  Stream(Append(t, m)) = Stream(t) \o serialize(m)
<1> DEFINE s == [i \in DOMAIN t |-> serialize(t[i])]
           a == Append(t, m)
           r == [i \in DOMAIN a |-> serialize(a[i])]
           x == serialize(m)
<1>1. s \in Seq(Seq(Chars)) /\ x \in Seq(Chars)
  BY StreamTypes, SerializeType
<1>2. a \in Seq(Outgoing) /\ Len(a) = Len(t) + 1 /\ Len(t) \in Nat
  OBVIOUS
<1>3. Len(s) = Len(t) /\ \A i \in 1..Len(t) : s[i] = serialize(t[i])
  OBVIOUS
<1>4. Len(r) = Len(t) + 1 /\ \A i \in 1..(Len(t) + 1) : r[i] = serialize(a[i])
  BY <1>2
<1>5. r \in Seq(Seq(Chars))
  BY <1>2, StreamTypes
<1>6. a[Len(t) + 1] = m /\ \A i \in 1..Len(t) : a[i] = t[i]
  OBVIOUS
<1> HIDE DEF s, r, a
<1>7. \A i \in 1..Len(t) : r[i] = s[i]
  <2> SUFFICES ASSUME NEW i \in 1..Len(t) PROVE r[i] = s[i]
    OBVIOUS
  <2>1. i \in 1..(Len(t) + 1)
    BY <1>2
  <2>2. r[i] = serialize(a[i]) /\ a[i] = t[i] /\ s[i] = serialize(t[i])
    BY <1>3, <1>4, <1>6, <2>1
  <2> QED BY <2>2
<1>8. r[Len(t) + 1] = x
  <2>1. Len(t) + 1 \in 1..(Len(t) + 1)
    BY <1>2
  <2> QED BY <1>4, <1>6, <2>1
<1> HIDE DEF x
<1>9. r = Append(s, x)
  <2>1. Append(s, x) \in Seq(Seq(Chars)) /\ Len(Append(s, x)) = Len(t) + 1
    BY <1>1, <1>3
  <2>2. \A i \in 1..Len(r) : r[i] = Append(s, x)[i]
    BY <1>1, <1>2, <1>3, <1>4, <1>7, <1>8
  <2> QED BY <1>4, <1>5, <2>1, <2>2, SeqEqual
<1>10. FlattenSeq(Append(s, x)) = FlattenSeq(s) \o x
  BY <1>1, FlattenAppend
<1> QED BY <1>9, <1>10 DEF Stream, r, s, a, x

LEMMA CutConcat ==
    ASSUME NEW C, NEW u \in Seq(C), NEW v \in Seq(C), IsCut(u), IsCut(v)
    PROVE  IsCut(u \o v)
<1>1. CASE v = << >>
  <2>1. u \o v = u
    BY <1>1
  <2> QED BY <2>1
<1>2. CASE v # << >>
  <2>1. Len(v) \in Nat \ {0} /\ Len(u) \in Nat /\ Len(u \o v) = Len(u) + Len(v)
    BY <1>2
  <2>2. (u \o v)[Len(u) + Len(v)] = v[Len(v)]
    BY <2>1
  <2> QED BY <1>2, <2>1, <2>2 DEF IsCut
<1> QED BY <1>1, <1>2

(* The sender writes whole messages, so that the bytes not yet extracted end  *)
(* a line whenever there are any, and what is written next starts afresh.    *)
WholeLines == IsCut(buffer \o wire) /\ IsCut(Stream(sent))

KeepInv == TypeInv /\ WholeLines /\ NoLoss

LEMMA KeepInvInit == Init => KeepInv
<1> SUFFICES ASSUME Init PROVE KeepInv
  OBVIOUS
<1>1. sent = << >> /\ wire = << >> /\ buffer = << >> /\ got = << >>
  BY DEF Init
<1>2. Stream(sent) = << >> /\ buffer \o wire = << >>
  BY <1>1, StreamEmpty
<1>3. Extracted(<< >>) = << >>
  <2>1. << >> \in Lines
    BY DEF Lines
  <2> QED BY <2>1, ExtractedLine
<1>4. got \o Extracted(buffer \o wire) = Extracted(Stream(sent))
  BY <1>1, <1>2, <1>3
<1>5. IsCut(<< >>)
  BY DEF IsCut
<1> QED BY <1>2, <1>4, <1>5, TypeInvInit DEF KeepInv, WholeLines, NoLoss

LEMMA KeepInvNext == Keep /\ KeepInv /\ [Next]_vars => KeepInv'
<1> SUFFICES ASSUME Keep, KeepInv, [Next]_vars PROVE KeepInv'
  OBVIOUS
<1>1. /\ sent \in Seq(Outgoing) /\ wire \in Seq(Chars) /\ buffer \in Seq(Chars)
      /\ got \in Seq(Valid)
  BY SeqMonotonic DEF KeepInv, TypeInv, TypeOK
<1>2. TypeInv'
  BY TypeInvNext DEF KeepInv
<1>3. IsCut(buffer \o wire) /\ IsCut(Stream(sent))
  BY DEF KeepInv, WholeLines
<1>4. got \o Extracted(buffer \o wire) = Extracted(Stream(sent))
  BY DEF KeepInv, NoLoss
<1>5. Stream(sent) \in Seq(Chars) /\ buffer \o wire \in Seq(Chars)
  <2>1. Stream(sent) \in Seq(Chars)
    BY <1>1, StreamTypes
  <2>2. buffer \o wire \in Seq(Chars)
    BY <1>1
  <2> QED BY <2>1, <2>2
<1>6. ASSUME NEW m \in Outgoing, Send(m) PROVE WholeLines' /\ NoLoss'
  <2> DEFINE x == serialize(m)
             y == buffer \o wire
             z == Stream(sent)
  <2>1. x \in Seq(Chars) /\ IsCut(x)
    BY SerializeType
  <2>2. got' = got /\ buffer' = buffer /\ wire' = wire \o x /\ sent' = Append(sent, m)
    BY <1>6 DEF Send
  <2> HIDE DEF x
  <2>3. buffer' \o wire' = y \o x
    BY <1>1, <2>1, <2>2
  <2>4. Stream(sent') = z \o x
    BY <1>1, <2>2, StreamAppend DEF x
  <2>5. y \in Seq(Chars) /\ z \in Seq(Chars) /\ IsCut(y) /\ IsCut(z)
    BY <1>3, <1>5
  <2>6. got \o Extracted(y) = Extracted(z)
    BY <1>4
  <2> HIDE DEF y, z
  <2>7. IsCut(y \o x) /\ IsCut(z \o x)
    BY <2>1, <2>5, CutConcat
  <2>8. Extracted(y \o x) = Extracted(y) \o Extracted(x) /\ Extracted(z \o x) = Extracted(z) \o Extracted(x)
    BY <2>1, <2>5, ExtractedCut
  <2>9. Extracted(x) \in Seq(Valid) /\ Extracted(y) \in Seq(Valid)
    BY <2>1, <2>5, PositionsType
  <2>10. got \o (Extracted(y) \o Extracted(x)) = (got \o Extracted(y)) \o Extracted(x)
    <3>1. Joined(Joined(got, Extracted(y)), Extracted(x))
              = Joined(got, Joined(Extracted(y), Extracted(x)))
      BY <1>1, <2>9, JoinedAssociative
    <3> QED BY <3>1, Zenon DEF Joined
  <2>11. NoLoss'
    BY <2>2, <2>3, <2>4, <2>6, <2>8, <2>10 DEF NoLoss
  <2> QED BY <2>3, <2>4, <2>7, <2>11 DEF WholeLines
<1>7. ASSUME NEW n \in 1..Len(wire), Receive(n) PROVE WholeLines' /\ NoLoss'
  <2> DEFINE a == SubSeq(wire, 1, n)
             b == SubSeq(wire, n + 1, Len(wire))
             x == buffer \o a
  <2>1. a \in Seq(Chars) /\ b \in Seq(Chars) /\ wire = a \o b
    BY ChunkTypes DEF KeepInv
  <2>2. sent' = sent /\ wire' = b /\ got' = got \o Extracted(x) /\ buffer' = Remaining(x)
    BY <1>7 DEF Receive
  <2> HIDE DEF a, b
  <2>3. x \in Seq(Chars) /\ buffer \o wire = x \o b
    BY <1>1, <2>1
  <2> HIDE DEF x
  <2>4. Extracted(x \o b) = Extracted(x) \o Extracted(Remaining(x) \o b)
    BY <2>1, <2>3, ExtractedJoin
  <2>5. IsCut(Remaining(x) \o b)
    BY <1>3, <2>1, <2>3, RemainingCut
  <2>6. Remaining(x) \o b \in Seq(Chars)
    <3>1. Remaining(x) \in Seq(Chars)
      BY <2>3, RemainingIs, SeqMonotonic DEF Lines
    <3> QED BY <2>1, <3>1
  <2>7. Extracted(x) \in Seq(Valid) /\ Extracted(Remaining(x) \o b) \in Seq(Valid)
    BY <2>3, <2>6, PositionsType
  <2>8. (got \o Extracted(x)) \o Extracted(Remaining(x) \o b)
            = got \o (Extracted(x) \o Extracted(Remaining(x) \o b))
    <3> DEFINE f == Remaining(x) \o b
    <3> HIDE DEF f
    <3>1. Extracted(x) \in Seq(Valid) /\ Extracted(f) \in Seq(Valid)
      BY <2>7 DEF f
    <3>2. Joined(Joined(got, Extracted(x)), Extracted(f))
              = Joined(got, Joined(Extracted(x), Extracted(f)))
      BY <1>1, <3>1, JoinedAssociative
    <3> QED BY <3>2, Zenon DEF Joined, f
  <2>9. NoLoss'
    BY <1>4, <2>2, <2>3, <2>4, <2>8 DEF NoLoss
  <2> QED BY <1>3, <2>2, <2>5, <2>9 DEF WholeLines
<1>8. ASSUME UNCHANGED vars PROVE WholeLines' /\ NoLoss'
  BY <1>3, <1>4, <1>8 DEF vars, WholeLines, NoLoss
<1>9. WholeLines' /\ NoLoss'
  BY <1>6, <1>7, <1>8 DEF Next
<1> QED BY <1>2, <1>9 DEF KeepInv

(* However the stream is cut into chunks, a receiver that keeps its buffer    *)
(* extracts what the whole stream holds.                                     *)
THEOREM KeepsAll ==
    ASSUME Keep
    PROVE  Spec => []NoLoss
<1>1. KeepInv => NoLoss
  BY DEF KeepInv
<1>2. KeepInv /\ [Next]_vars => KeepInv'
  BY KeepInvNext
<1> QED BY KeepInvInit, <1>1, <1>2, PTL DEF Spec

-----------------------------------------------------------------------------
(* std::stoi undoes operator<<.  First its recursion, digit by digit.        *)
Counts(f, t, n) == \A i \in 0..n : f[i] = IF i = 0 THEN 0 ELSE 10 * f[i - 1] + Value(t[i])

LEMMA CountsOnce ==
    ASSUME NEW s, NEW t, NEW n \in Nat, NEW f, NEW g, NEW m \in n..(n + 1),
           Counts(f, s, n), Counts(g, t, m), SameTo(s, t, n)
    PROVE  SameUpTo(f, g, n)
<1> DEFINE S == {k \in Nat : k <= n => f[k] = g[k]}
<1>f. \A i \in 0..n : f[i] = IF i = 0 THEN 0 ELSE 10 * f[i - 1] + Value(s[i])
  BY DEF Counts
<1>g. \A i \in 0..m : g[i] = IF i = 0 THEN 0 ELSE 10 * g[i - 1] + Value(t[i])
  BY DEF Counts
<1>s. \A i \in 1..n : s[i] = t[i]
  BY DEF SameTo
<1>1. 0 \in S
  BY <1>f, <1>g
<1>2. ASSUME NEW k \in Nat, k \in S PROVE k + 1 \in S
  <2> SUFFICES ASSUME k + 1 <= n PROVE f[k + 1] = g[k + 1]
    OBVIOUS
  <2>1. f[k] = g[k]
    BY <1>2
  <2>2. /\ k + 1 \in 0..n /\ k + 1 \in 0..m /\ k + 1 \in 1..n
        /\ k + 1 # 0 /\ (k + 1) - 1 = k
    OBVIOUS
  <2>3. f[k + 1] = 10 * f[k] + Value(s[k + 1])
    BY <1>f, <2>2
  <2>4. g[k + 1] = 10 * g[k] + Value(t[k + 1])
    BY <1>g, <2>2
  <2>5. s[k + 1] = t[k + 1]
    BY <1>s, <2>2
  <2> QED BY <2>1, <2>3, <2>4, <2>5
<1> HIDE DEF S
<1>3. \A k \in Nat : k \in S
  BY <1>1, <1>2, AllNumbers
<1> QED BY <1>3 DEF S, SameUpTo

LEMMA CountsExists ==
    ASSUME NEW t, NEW n \in Nat
    PROVE  \E f : Counts(f, t, n) /\ f = [i \in 0..n |-> f[i]]
<1> DEFINE S == {k \in Nat : \E f : Counts(f, t, k) /\ f = [i \in 0..k |-> f[i]]}
<1>1. 0 \in S
  <2> DEFINE f == [i \in 0..0 |-> 0]
  <2>1. f[0] = 0 /\ f = [i \in 0..0 |-> f[i]]
    OBVIOUS
  <2> HIDE DEF f
  <2>2. Counts(f, t, 0)
    BY <2>1 DEF Counts
  <2> QED BY <2>1, <2>2
<1>2. ASSUME NEW k \in Nat, k \in S PROVE k + 1 \in S
  <2>1. PICK f : Counts(f, t, k)
    BY <1>2
  <2> DEFINE g == [i \in 0..(k + 1) |-> IF i = k + 1 THEN 10 * f[k] + Value(t[i]) ELSE f[i]]
  <2>2. \A i \in 0..k : g[i] = f[i]
    OBVIOUS
  <2>3. g[k + 1] = 10 * f[k] + Value(t[k + 1]) /\ g = [i \in 0..(k + 1) |-> g[i]]
    OBVIOUS
  <2> HIDE DEF g
  <2>4. ASSUME NEW i \in 0..(k + 1)
        PROVE  g[i] = IF i = 0 THEN 0 ELSE 10 * g[i - 1] + Value(t[i])
    <3>1. CASE i = k + 1
      <4>1. i # 0 /\ i - 1 = k /\ g[k] = f[k]
        BY <2>2, <3>1
      <4> QED BY <2>3, <3>1, <4>1
    <3>2. CASE i # k + 1
      <4>1. i \in 0..k /\ (i # 0 => i - 1 \in 0..k)
        BY <3>2
      <4>2. f[i] = IF i = 0 THEN 0 ELSE 10 * f[i - 1] + Value(t[i])
        BY <2>1, <4>1 DEF Counts
      <4>3. g[i] = f[i] /\ (i # 0 => g[i - 1] = f[i - 1])
        BY <2>2, <4>1
      <4>4. CASE i = 0
        BY <4>2, <4>3, <4>4
      <4>5. CASE i # 0
        BY <4>2, <4>3, <4>5
      <4> QED BY <4>4, <4>5
    <3> QED BY <3>1, <3>2
  <2>5. Counts(g, t, k + 1)
    BY <2>4 DEF Counts
  <2> QED BY <2>3, <2>5
<1> HIDE DEF S
<1>3. \A k \in Nat : k \in S
  BY <1>1, <1>2, AllNumbers
<1>4. n \in S
  BY <1>3
<1> QED BY <1>4 DEF S

LEMMA LeadingIs ==
    ASSUME NEW t \in Seq(Digits)
    PROVE  Leading(t) = Len(t)
<1> DEFINE Good(n) == /\ \A i \in 1..n : t[i] \in Digits
                      /\ n < Len(t) => t[n + 1] \notin Digits
           k == CHOOSE n \in 0..Len(t) : Good(n)
<1>1. Len(t) \in 0..Len(t) /\ Good(Len(t))
  OBVIOUS
<1>2. \A n \in 0..Len(t) : Good(n) => n = Len(t)
  <2> SUFFICES ASSUME NEW n \in 0..Len(t), Good(n), n # Len(t) PROVE FALSE
    OBVIOUS
  <2>1. n < Len(t) /\ n + 1 \in 1..Len(t)
    OBVIOUS
  <2>2. t[n + 1] \in Digits
    BY <2>1
  <2> QED BY <2>1, <2>2
<1>3. Leading(t) = k
  BY DEF Leading
<1> HIDE DEF Good
<1>4. k \in 0..Len(t) /\ Good(k)
  BY <1>1, Zenon
<1> QED BY <1>2, <1>3, <1>4

LEMMA NumberIs ==
    ASSUME NEW t \in Seq(Digits)
    PROVE  \E f : Counts(f, t, Len(t)) /\ Stoi(t) = f[Len(t)]
<1> DEFINE f == CHOOSE f : f = [i \in 0..Len(t) |-> IF i = 0 THEN 0 ELSE 10 * f[i - 1] + Value(t[i])]
<1>1. Len(t) \in Nat
  OBVIOUS
<1>2. PICK g : Counts(g, t, Len(t)) /\ g = [i \in 0..Len(t) |-> g[i]]
  BY <1>1, CountsExists
<1>3. \A i \in 0..Len(t) : g[i] = IF i = 0 THEN 0 ELSE 10 * g[i - 1] + Value(t[i])
  BY <1>2 DEF Counts
<1>4. g = [i \in 0..Len(t) |-> IF i = 0 THEN 0 ELSE 10 * g[i - 1] + Value(t[i])]
  BY <1>2, <1>3
<1>5. f = [i \in 0..Len(t) |-> IF i = 0 THEN 0 ELSE 10 * f[i - 1] + Value(t[i])]
  BY <1>4
<1>6. Stoi(t) = f[Len(t)]
  BY LeadingIs DEF Stoi
<1> HIDE DEF f
<1>7. Counts(f, t, Len(t))
  BY <1>5 DEF Counts
<1> QED BY <1>6, <1>7

LEMMA NumberAppend ==
    ASSUME NEW t \in Seq(Digits), NEW d \in Digits
    PROVE  Stoi(Append(t, d)) = 10 * Stoi(t) + Value(d)
<1> DEFINE s == Append(t, d)
           n == Len(t)
<1>1. s \in Seq(Digits) /\ Len(s) = n + 1 /\ n \in Nat /\ s[n + 1] = d /\ SameTo(t, s, n)
  BY DEF SameTo
<1> HIDE DEF s
<1>2. PICK f : Counts(f, t, n) /\ Stoi(t) = f[n]
  BY NumberIs
<1>3. PICK g : Counts(g, s, n + 1) /\ Stoi(s) = g[n + 1]
  BY <1>1, NumberIs
<1> HIDE DEF n
<1>4. n + 1 \in n..(n + 1)
  BY <1>1
<1>5. SameUpTo(f, g, n)
  BY <1>1, <1>2, <1>3, <1>4, CountsOnce
<1>6. f[n] = g[n]
  BY <1>1, <1>5 DEF SameUpTo
<1>7. n + 1 \in 0..(n + 1) /\ n + 1 # 0 /\ (n + 1) - 1 = n
  BY <1>1
<1>8. g[n + 1] = 10 * g[n] + Value(s[n + 1])
  BY <1>3, <1>7 DEF Counts
<1> QED BY <1>1, <1>2, <1>3, <1>6, <1>8 DEF s

LEMMA NumberEmpty == Stoi(<< >>) = 0
<1>1. << >> \in Seq(Digits) /\ Len(<< >>) = 0
  OBVIOUS
<1>2. PICK f : Counts(f, << >>, 0) /\ Stoi(<< >>) = f[0]
  BY <1>1, NumberIs
<1> QED BY <1>2 DEF Counts

(* What a header field is written as, stoi reads. *)
LEMMA StoiDecimal ==
    ASSUME NEW n \in Nat
    PROVE  Stoi(Decimal[n]) = n /\ ~Throws(Decimal[n])
<1> DEFINE P(k) == Stoi(Decimal[k]) = k
           S == {k \in Nat : \A i \in 0..k : P(i)}
<1>1. ASSUME NEW k \in Nat, \A i \in 0..(k - 1) : P(i) PROVE P(k)
  <2>1. Decimal[k] = Spelt(Decimal, k)
    BY DecimalIs
  <2>2. CASE k < 10
    <3>1. k + 1 \in 1..10 /\ Decimal[k] = <<DigitChars[k + 1]>>
      BY <2>1, <2>2 DEF Spelt
    <3>2. DigitChars[k + 1] \in Digits /\ Value(DigitChars[k + 1]) = (k + 1) - 1
      BY <3>1, DigitsAre, ValueIs
    <3>3. << >> \in Seq(Digits) /\ Append(<< >>, DigitChars[k + 1]) = <<DigitChars[k + 1]>>
      OBVIOUS
    <3>4. Stoi(Decimal[k]) = 10 * Stoi(<< >>) + Value(DigitChars[k + 1])
      BY <3>1, <3>2, <3>3, NumberAppend
    <3> QED BY <3>2, <3>4, NumberEmpty
  <2>3. CASE ~(k < 10)
    <3> DEFINE q == k \div 10
               d == DigitChars[(k % 10) + 1]
    <3>1. q \in Nat /\ q \in 0..(k - 1) /\ (k % 10) + 1 \in 1..10 /\ k = 10 * q + (k % 10)
      BY <2>3, Division
    <3>2. Decimal[k] = Append(Decimal[q], d)
      BY <2>1, <2>3 DEF Spelt
    <3>3. d \in Digits /\ Value(d) = ((k % 10) + 1) - 1
      BY <3>1, DigitsAre, ValueIs
    <3>4. Decimal[q] \in Seq(Digits) /\ Stoi(Decimal[q]) = q
      BY <1>1, <3>1, DecimalType
    <3> HIDE DEF q, d
    <3>5. Stoi(Decimal[k]) = 10 * q + Value(d)
      BY <3>2, <3>3, <3>4, NumberAppend
    <3>6. ((k % 10) + 1) - 1 = k % 10
      BY <3>1
    <3> QED BY <3>1, <3>3, <3>5, <3>6
  <2> QED BY <2>2, <2>3
<1> HIDE DEF P
<1>2. 0 \in S
  BY <1>1
<1>3. ASSUME NEW k \in Nat, k \in S PROVE k + 1 \in S
  BY <1>1, <1>3
<1> HIDE DEF S
<1>4. \A k \in Nat : k \in S
  BY <1>2, <1>3, AllNumbers
<1>5. P(n)
  BY <1>4 DEF S
<1>6. ~Throws(Decimal[n])
  <2>1. Decimal[n] \in Seq(Digits) /\ Decimal[n] # << >>
    BY DecimalType
  <2>2. Len(Decimal[n]) # 0
    BY <2>1
  <2> QED BY <2>1, <2>2, LeadingIs DEF Throws
<1> QED BY <1>5, <1>6 DEF P

-----------------------------------------------------------------------------
(* The parts of a line, as deserialize finds them. *)
LEMMA FindIs ==
    ASSUME NEW z, NEW c, NEW i \in Nat \ {0}, NEW j \in i..Len(z), Len(z) \in Nat, z[j] = c,
           \A k \in i..(j - 1) : z[k] # c
    PROVE  Find(z, c, i) = j
<1> DEFINE Good(n) == z[n] = c /\ \A k \in i..(n - 1) : z[k] # c
           f == CHOOSE n \in i..Len(z) : Good(n)
<1>1. j \in i..Len(z) /\ Good(j)
  OBVIOUS
<1>2. ASSUME NEW n \in i..Len(z), Good(n) PROVE n = j
  <2>1. ~(n < j)
    <3>1. n < j => n \in i..(j - 1)
      OBVIOUS
    <3> QED BY <1>2, <3>1
  <2>2. ~(j < n)
    <3>1. j < n => j \in i..(n - 1)
      OBVIOUS
    <3> QED BY <1>2, <3>1
  <2> QED BY <2>1, <2>2
<1>3. Find(z, c, i) = f
  BY DEF Find
<1> HIDE DEF Good
<1>4. f \in i..Len(z) /\ Good(f)
  BY <1>1, Zenon
<1> QED BY <1>2, <1>3, <1>4

LEMMA PartIs ==
    ASSUME NEW C, NEW z \in Seq(C), NEW v \in Seq(C), NEW n \in Nat, n + Len(v) <= Len(z),
           \A k \in 1..Len(v) : z[n + k] = v[k]
    PROVE  SubSeq(z, n + 1, n + Len(v)) = v
<1>1. 1 \in Nat \ {0} /\ Len(v) \in Nat /\ Len(v) <= Len(v)
  OBVIOUS
<1>2. SubSeq(z, n + 1, n + Len(v)) = SubSeq(v, 1, Len(v))
  BY <1>1, SubSeqSame
<1> QED BY <1>2, SubSeqFull

IsJoint(C, z, x, c, y, n) ==
    /\ z \in Seq(C) /\ Len(z) = n + Len(y)
    /\ \A k \in 1..(n - 1) : z[k] = x[k]
    /\ z[n] = c
    /\ \A k \in 1..Len(y) : z[n + k] = y[k]

LEMMA Joint ==
    ASSUME NEW C, NEW x \in Seq(C), NEW y \in Seq(C), NEW c \in C, NEW n \in Nat, Len(x) + 1 = n
    PROVE  IsJoint(C, x \o <<c>> \o y, x, c, y, n)
<1> DEFINE w == x \o <<c>>
<1>1. /\ w \in Seq(C) /\ Len(w) = n
      /\ \A k \in 1..(n - 1) : w[k] = x[k]
      /\ w[n] = c
  OBVIOUS
<1> HIDE DEF w
<1>2. w \o y \in Seq(C) /\ Len(w \o y) = n + Len(y)
  BY <1>1
<1>3. /\ \A k \in 1..n : (w \o y)[k] = w[k]
      /\ \A k \in 1..Len(y) : (w \o y)[n + k] = y[k]
  BY <1>1
<1>4. /\ \A k \in 1..(n - 1) : (w \o y)[k] = x[k]
      /\ (w \o y)[n] = c
  <2>1. n \in 1..n /\ \A k \in 1..(n - 1) : k \in 1..n
    OBVIOUS
  <2> QED BY <1>1, <1>3, <2>1
<1> QED BY <1>2, <1>3, <1>4 DEF IsJoint, w

Laid(a, b, d, p, c) == a \o <<c>> \o b \o <<c>> \o d \o <<c>> \o p

HaveFields(C, z, a, b, d, p, c, p1, p2, p3) ==
    /\ z \in Seq(C) /\ Len(z) = p3 + Len(p)
    /\ Len(a) \in Nat /\ Len(b) \in Nat /\ Len(d) \in Nat /\ Len(p) \in Nat
    /\ z[p1] = c /\ z[p2] = c /\ z[p3] = c
    /\ \A k \in 1..Len(a) : z[0 + k] = a[k]
    /\ \A k \in 1..Len(b) : z[p1 + k] = b[k]
    /\ \A k \in 1..Len(d) : z[p2 + k] = d[k]
    /\ \A k \in 1..Len(p) : z[p3 + k] = p[k]

LEMMA Fields ==
    ASSUME NEW C, NEW c \in C, NEW a \in Seq(C), NEW b \in Seq(C), NEW d \in Seq(C),
           NEW p \in Seq(C), NEW z, z = Laid(a, b, d, p, c),
           NEW p1, p1 = Len(a) + 1, NEW p2, p2 = p1 + Len(b) + 1, NEW p3, p3 = p2 + Len(d) + 1
    PROVE  HaveFields(C, z, a, b, d, p, c, p1, p2, p3)
<1> DEFINE x == a \o <<c>> \o b
           y == x \o <<c>> \o d
           w == y \o <<c>> \o p
<1>1. /\ Len(a) \in Nat /\ Len(b) \in Nat /\ Len(d) \in Nat /\ Len(p) \in Nat
      /\ p1 = Len(a) + 1 /\ p2 = p1 + Len(b) + 1 /\ p3 = p2 + Len(d) + 1
      /\ p1 \in Nat /\ p2 \in Nat /\ p3 \in Nat
  OBVIOUS
<1>2. z = w
  BY DEF Laid
<1>3. IsJoint(C, x, a, c, b, p1)
  BY <1>1, Joint
<1> HIDE DEF x
<1>4. IsJoint(C, y, x, c, d, p2)
  <2>1. x \in Seq(C) /\ Len(x) + 1 = p2
    BY <1>1, <1>3 DEF IsJoint
  <2> QED BY <1>1, <2>1, Joint
<1> HIDE DEF y
<1>5. IsJoint(C, w, y, c, p, p3)
  <2>1. y \in Seq(C) /\ Len(y) + 1 = p3
    BY <1>1, <1>4 DEF IsJoint
  <2> QED BY <1>1, <2>1, Joint
<1> HIDE DEF w
<1>6. /\ \A k \in 1..(p1 - 1) : x[k] = a[k]
      /\ x[p1] = c
      /\ \A k \in 1..Len(b) : x[p1 + k] = b[k]
  BY <1>3 DEF IsJoint
<1>7. /\ \A k \in 1..(p2 - 1) : y[k] = x[k]
      /\ y[p2] = c
      /\ \A k \in 1..Len(d) : y[p2 + k] = d[k]
  BY <1>4 DEF IsJoint
<1>8. /\ z \in Seq(C) /\ Len(z) = p3 + Len(p)
      /\ \A k \in 1..(p3 - 1) : z[k] = y[k]
      /\ z[p3] = c
      /\ \A k \in 1..Len(p) : z[p3 + k] = p[k]
  BY <1>2, <1>5 DEF IsJoint
<1>9. z[p2] = c /\ \A k \in 1..Len(d) : z[p2 + k] = d[k]
  <2>1. p2 \in 1..(p3 - 1) /\ \A k \in 1..Len(d) : p2 + k \in 1..(p3 - 1)
    BY <1>1
  <2>2. z[p2] = c
    BY <1>7, <1>8, <2>1
  <2>3. ASSUME NEW k \in 1..Len(d) PROVE z[p2 + k] = d[k]
    BY <1>7, <1>8, <2>1
  <2> QED BY <2>2, <2>3
<1>10. \A k \in 1..(p2 - 1) : z[k] = x[k]
  BY <1>1, <1>7, <1>8
<1>11. z[p1] = c /\ \A k \in 1..Len(b) : z[p1 + k] = b[k]
  <2>1. p1 \in 1..(p2 - 1) /\ \A k \in 1..Len(b) : p1 + k \in 1..(p2 - 1)
    BY <1>1
  <2>2. z[p1] = c
    BY <1>6, <1>10, <2>1
  <2>3. ASSUME NEW k \in 1..Len(b) PROVE z[p1 + k] = b[k]
    BY <1>6, <1>10, <2>1
  <2> QED BY <2>2, <2>3
<1>12. \A k \in 1..Len(a) : z[0 + k] = a[k]
  BY <1>1, <1>6, <1>10
<1> QED BY <1>1, <1>8, <1>9, <1>11, <1>12 DEF HaveFields

(* Where the first delimiter from position n + 1 on is, if v stands there.   *)
LEMMA FindBar ==
    ASSUME NEW z, Len(z) \in Nat, NEW n \in Nat, NEW v \in Seq(Digits), NEW j,
           j = (n + Len(v)) + 1, j <= Len(z), z[j] = "|",
           \A k \in 1..Len(v) : z[n + k] = v[k]
    PROVE  Find(z, "|", n + 1) = j
<1>1. Len(v) \in Nat /\ \A k \in 1..Len(v) : v[k] # "|"
  <2>1. "|" \notin Digits
    BY DigitsAre
  <2> QED BY <2>1
<1>2. n + 1 \in Nat \ {0} /\ j \in (n + 1)..Len(z)
  BY <1>1
<1>3. ASSUME NEW i \in (n + 1)..(j - 1) PROVE z[i] # "|"
  <2>1. i - n \in 1..Len(v) /\ n + (i - n) = i
    BY <1>1
  <2> QED BY <1>1, <2>1
<1> QED BY <1>2, <1>3, FindIs

LEMMA DeserializeIs ==
    ASSUME NEW m \in Outgoing, NEW p \in Seq(Chars)
    PROVE  deserialize(Header(m) \o p) =
               [type |-> m.type, length |-> m.length, sequence |-> 0, payload |-> p]
<1> DEFINE a == Decimal[m.type]
           b == Decimal[m.length]
           d == Decimal[m.sequence]
           z == Header(m) \o p
           p1 == Len(a) + 1
           p2 == p1 + Len(b) + 1
           p3 == p2 + Len(d) + 1
<1>1. m.type \in Nat /\ m.length \in Nat /\ m.sequence = 0
  BY SerializeType
<1>2. /\ a \in Seq(Digits) /\ b \in Seq(Digits) /\ d \in Seq(Digits)
      /\ ~Throws(a) /\ ~Throws(b) /\ ~Throws(d)
      /\ Stoi(a) = m.type /\ Stoi(b) = m.length /\ Stoi(d) = 0
  BY <1>1, DecimalType, StoiDecimal
<1>3. a \in Seq(Chars) /\ b \in Seq(Chars) /\ d \in Seq(Chars) /\ "|" \in Chars
  BY <1>2, SeqMonotonic DEF Chars
<1>4. z = Laid(a, b, d, p, "|")
  BY DEF Laid, Header
<1>p. p1 = Len(a) + 1 /\ p2 = p1 + Len(b) + 1 /\ p3 = p2 + Len(d) + 1
  OBVIOUS
<1> HIDE DEF a, b, d, z, p1, p2, p3
<1>5. /\ z \in Seq(Chars) /\ Len(z) = p3 + Len(p)
      /\ Len(a) \in Nat /\ Len(b) \in Nat /\ Len(d) \in Nat /\ Len(p) \in Nat
      /\ z[p1] = "|" /\ z[p2] = "|" /\ z[p3] = "|"
      /\ \A k \in 1..Len(a) : z[0 + k] = a[k]
      /\ \A k \in 1..Len(b) : z[p1 + k] = b[k]
      /\ \A k \in 1..Len(d) : z[p2 + k] = d[k]
      /\ \A k \in 1..Len(p) : z[p3 + k] = p[k]
  <2>1. HaveFields(Chars, z, a, b, d, p, "|", p1, p2, p3)
    BY <1>p, <1>3, <1>4, Fields
  <2> QED BY <2>1 DEF HaveFields
<1>6. /\ p1 = Len(a) + 1 /\ p2 = p1 + Len(b) + 1 /\ p3 = p2 + Len(d) + 1
      /\ p1 \in Nat \ {0} /\ p2 \in Nat \ {0} /\ p3 \in Nat \ {0}
  BY <1>p, <1>5
<1>7. Find(z, "|", 1) = p1
  <2>1. p1 = (0 + Len(a)) + 1 /\ p1 <= Len(z) /\ 0 + 1 = 1 /\ 0 \in Nat /\ Len(z) \in Nat
    BY <1>5, <1>6
  <2>2. Find(z, "|", 0 + 1) = p1
    BY <1>2, <1>5, <2>1, FindBar
  <2> QED BY <2>1, <2>2
<1>8. Find(z, "|", p1 + 1) = p2
  <2>1. p2 = (p1 + Len(b)) + 1 /\ p2 <= Len(z) /\ p1 \in Nat /\ Len(z) \in Nat
    BY <1>5, <1>6
  <2> QED BY <1>2, <1>5, <2>1, FindBar
<1>9. Find(z, "|", p2 + 1) = p3
  <2>1. p3 = (p2 + Len(d)) + 1 /\ p3 <= Len(z) /\ p2 \in Nat /\ Len(z) \in Nat
    BY <1>5, <1>6
  <2> QED BY <1>2, <1>5, <2>1, FindBar
<1>10. SubSeq(z, 1, p1 - 1) = a
  <2>1. 0 \in Nat /\ 0 + Len(a) <= Len(z) /\ 0 + Len(a) = p1 - 1 /\ 0 + 1 = 1
    BY <1>5, <1>6
  <2>2. SubSeq(z, 0 + 1, 0 + Len(a)) = a
    BY <1>3, <1>5, <2>1, PartIs
  <2> QED BY <2>1, <2>2
<1>11. SubSeq(z, p1 + 1, p2 - 1) = b
  <2>1. p1 \in Nat /\ p1 + Len(b) <= Len(z) /\ p1 + Len(b) = p2 - 1
    BY <1>5, <1>6
  <2>2. SubSeq(z, p1 + 1, p1 + Len(b)) = b
    BY <1>3, <1>5, <2>1, PartIs
  <2> QED BY <2>1, <2>2
<1>12. SubSeq(z, p2 + 1, p3 - 1) = d
  <2>1. p2 \in Nat /\ p2 + Len(d) <= Len(z) /\ p2 + Len(d) = p3 - 1
    BY <1>5, <1>6
  <2>2. SubSeq(z, p2 + 1, p2 + Len(d)) = d
    BY <1>3, <1>5, <2>1, PartIs
  <2> QED BY <2>1, <2>2
<1>13. SubSeq(z, p3 + 1, Len(z)) = p
  <2>1. p3 \in Nat /\ p3 + Len(p) <= Len(z) /\ p3 + Len(p) = Len(z)
    BY <1>5, <1>6
  <2>2. SubSeq(z, p3 + 1, p3 + Len(p)) = p
    BY <1>5, <2>1, PartIs
  <2> QED BY <2>1, <2>2
<1>14. 0 \notin {p1, p2, p3}
  BY <1>6
<1>15. m.type % Width = m.type /\ m.length % Width = m.length
  <2>1. \A k \in Nat, w \in Nat : k < w => k % w = k
    OBVIOUS
  <2>2. \A k \in Nat, w \in Nat \ {0} : k % w < w
    OBVIOUS
  <2>3. m.type \in 0..(Width - 1) /\ m.length = Len(m.payload) % Width /\ Len(m.payload) \in Nat
    BY OutgoingAssumption DEF Message
  <2>4. Width \in Nat \ {0} /\ m.type < Width
    BY <2>3, WidthAssumption
  <2>5. m.length < Width
    BY <2>2, <2>3, <2>4, Zenon
  <2>6. Width \in Nat
    BY <2>4
  <2> QED BY <1>1, <2>1, <2>4, <2>5, <2>6, Zenon
<1>16. deserialize(z) = [type |-> Stoi(a) % Width, length |-> Stoi(b) % Width,
                         sequence |-> Stoi(d), payload |-> p]
  BY <1>2, <1>7, <1>8, <1>9, <1>10, <1>11, <1>12, <1>13, <1>14, Zenon DEF deserialize
<1> QED BY <1>2, <1>15, <1>16 DEF z

-----------------------------------------------------------------------------
IsConcat(C, z, x, y) ==
    /\ z \in Seq(C) /\ Len(z) = Len(x) + Len(y)
    /\ \A i \in 1..Len(x) : z[i] = x[i]
    /\ \A i \in 1..Len(y) : z[Len(x) + i] = y[i]

LEMMA ConcatIs ==
    ASSUME NEW C, NEW x \in Seq(C), NEW y \in Seq(C)
    PROVE  IsConcat(C, x \o y, x, y)
BY DEF IsConcat

(* What a single line of bytes yields. *)
Unended(x) == IF x[Len(x)] = "\r" THEN SubSeq(x, 1, Len(x) - 1) ELSE x

LEMMA ExtractedOne ==
    ASSUME NEW x \in Lines, x # << >>, NEW l, l = Unended(x), l # << >>
    PROVE  Extracted(x \o <<"\n">>) =
               IF validateMessage(deserialize(l)) THEN <<deserialize(l)>> ELSE << >>
<1> DEFINE z == x \o <<"\n">>
           n == Len(x)
           p == Positions(z)
           f == SubSeq(p, 1, n)
           e == Completed(z, n + 1)
<1>1. x \in Seq(Chars) /\ "\n" \in Chars /\ n \in Nat \ {0} /\ \A i \in 1..n : x[i] # "\n"
  BY DEF Lines, Chars
<1>2. /\ z \in Seq(Chars) /\ Len(z) = n + 1 /\ z[n + 1] = "\n"
      /\ \A i \in 1..n : z[i] = x[i]
  BY <1>1
<1> HIDE DEF z, n
<1>3. /\ p \in Seq(Seq(Valid)) /\ Len(p) = n + 1
      /\ \A i \in 1..(n + 1) : p[i] = Completed(z, i)
      /\ Extracted(z) = FlattenSeq(p)
  BY <1>2, PositionsType
<1>4. ASSUME NEW i \in 1..n PROVE p[i] = << >>
  <2>1. z[i] # "\n" /\ i \in 1..(n + 1)
    BY <1>1, <1>2
  <2>2. Completed(z, i) = << >>
    BY <2>1 DEF Completed
  <2> QED BY <1>3, <2>1, <2>2
<1>5. p[n + 1] = e /\ e \in Seq(Valid)
  <2>1. n + 1 \in 1..(n + 1) /\ n + 1 \in 1..Len(z)
    BY <1>1, <1>2
  <2> QED BY <1>2, <1>3, <2>1, CompletedType
<1> HIDE DEF p, e
<1>6. /\ f \in Seq(Seq(Valid)) /\ Len(f) = n /\ \A i \in 1..n : f[i] = p[i]
  BY <1>1, <1>3
<1>7. p = Append(f, e)
  <2>1. Append(f, e) \in Seq(Seq(Valid)) /\ Len(Append(f, e)) = n + 1
    BY <1>1, <1>5, <1>6
  <2> HIDE DEF f
  <2>2. \A i \in 1..Len(p) : p[i] = Append(f, e)[i]
    BY <1>1, <1>3, <1>5, <1>6
  <2> QED BY <1>3, <2>1, <2>2, SeqEqual
<1> HIDE DEF f
<1>8. FlattenSeq(f) = << >>
  BY <1>4, <1>6, FlattenNothing
<1>9. FlattenSeq(p) = FlattenSeq(f) \o e
  BY <1>5, <1>6, <1>7, FlattenAppend
<1>10. Extracted(z) = e
  BY <1>3, <1>5, <1>8, <1>9
<1>11. LineStart(z, n + 1) = 1
  <2>1. IsStart(z, n + 1, 1)
    BY <1>1, <1>2 DEF IsStart
  <2> QED BY <1>1, <2>1, StartOnce
<1>12. SubSeq(z, 1, (n + 1) - 1) = x
  <2>1. 0 \in Nat /\ 0 + 1 = 1 /\ 0 + n = (n + 1) - 1 /\ 0 + n <= Len(z)
    BY <1>1, <1>2
  <2>2. \A i \in 1..n : z[0 + i] = x[i]
    BY <1>2
  <2>3. SubSeq(z, 0 + 1, 0 + n) = x
    BY <1>1, <1>2, <2>1, <2>2, PartIs DEF n
  <2> QED BY <2>1, <2>3
<1>13. Line(z, n + 1) = l
  BY <1>11, <1>12 DEF Line, Last, Front, Unended, n
<1>14. e = IF validateMessage(deserialize(l)) THEN <<deserialize(l)>> ELSE << >>
  BY <1>2, <1>13 DEF Completed, e
<1> QED BY <1>10, <1>14 DEF z

(* A message without newlines, and not too long, arrives if and only if it    *)
(* fits the framing.                                                         *)
Whole(m) == Len(m.payload) <= MaxMessageSize /\ \A i \in DOMAIN m.payload : m.payload[i] # "\n"

LEMMA SentOne ==
    ASSUME NEW m \in Outgoing, Whole(m)
    PROVE  Extracted(serialize(m)) = IF Framable(m.payload) THEN <<m>> ELSE << >>
<1> DEFINE h == Header(m)
           q == m.payload
           x == h \o q
           n == Len(h)
           k == Len(q)
           l == Unended(x)
<1>1. /\ q \in Seq(Chars) /\ h \in Seq(Chars \ {"\n"}) /\ h # << >> /\ h[n] = "|"
      /\ serialize(m) = x \o <<"\n">>
  BY SerializeType
<1>2. k <= MaxMessageSize /\ \A i \in 1..k : q[i] # "\n"
  BY <1>1 DEF Whole
<1>3. m = [type |-> m.type, length |-> m.length, sequence |-> 0, payload |-> q]
  BY OutgoingAssumption DEF Message
<1>4. m.length = k
  <2>1. m.length = k % Width
    BY OutgoingAssumption DEF Message
  <2>2. k \in Nat /\ Width \in Nat /\ k < Width
    BY <1>1, <1>2, WidthAssumption
  <2>3. \A i \in Nat, w \in Nat : i < w => i % w = i
    OBVIOUS
  <2> QED BY <2>1, <2>2, <2>3, Zenon
<1>5. m.type # UNKNOWN
  BY OutgoingAssumption
<1>6. \A y \in Seq(Chars) : deserialize(h \o y) =
          [type |-> m.type, length |-> m.length, sequence |-> 0, payload |-> y]
  BY DeserializeIs
<1>7. Framable(q) <=> (q # << >> => q[k] # "\r")
  BY <1>1, <1>2 DEF Framable, Last
<1> HIDE DEF h, q
<1>8. q \in Lines
  BY <1>1, <1>2 DEF Lines
<1>9. /\ n \in Nat \ {0} /\ k \in Nat /\ Len(x) = n + k
      /\ x \in Lines /\ x # << >>
      /\ \A i \in 1..n : x[i] = h[i]
      /\ \A i \in 1..k : x[n + i] = q[i]
  BY <1>1, <1>8 DEF Lines
<1>10. CASE Framable(q)
  <2>1. x[Len(x)] # "\r"
    <3>1. CASE k = 0
      BY <1>1, <1>9, <3>1
    <3>2. CASE k # 0
      <4>1. q # << >> /\ k \in 1..k /\ q[k] # "\r"
        BY <1>7, <1>9, <1>10, <3>2
      <4> QED BY <1>9, <4>1
    <3> QED BY <3>1, <3>2
  <2>2. l = x
    BY <2>1 DEF Unended
  <2>3. deserialize(l) = m
    BY <1>1, <1>3, <1>6, <2>2
  <2>4. validateMessage(m)
    BY <1>2, <1>4, <1>5 DEF validateMessage, q
  <2> HIDE DEF x, l
  <2>5. Extracted(x \o <<"\n">>) = <<m>>
    BY <1>9, <2>2, <2>3, <2>4, ExtractedOne DEF l
  <2> QED BY <1>1, <1>10, <2>5 DEF q
<1>11. CASE ~Framable(q)
  <2> DEFINE r == SubSeq(q, 1, k - 1)
  <2>1. q # << >> /\ q[k] = "\r" /\ k \in Nat \ {0} /\ k \in 1..k
    BY <1>1, <1>7, <1>9, <1>11
  <2>2. x[Len(x)] = "\r"
    BY <1>9, <2>1
  <2>3. r \in Seq(Chars) /\ Len(r) = k - 1 /\ \A i \in 1..(k - 1) : r[i] = q[i]
    BY <1>1, <2>1
  <2>4. h \in Seq(Chars)
    BY <1>1
  <2>5. x \in Seq(Chars)
    BY <1>9 DEF Lines
  <2> HIDE DEF r
  <2>6. l = h \o r
    <3> DEFINE y == h \o r
               w == SubSeq(x, 1, Len(x) - 1)
    <3>1. /\ y \in Seq(Chars) /\ Len(y) = n + (k - 1)
          /\ \A i \in 1..n : y[i] = h[i]
          /\ \A i \in 1..(k - 1) : y[n + i] = r[i]
      <4>1. r \in Seq(Chars)
        BY <2>3
      <4>2. IsConcat(Chars, y, h, r)
        BY <2>4, <4>1, ConcatIs
      <4> HIDE DEF y
      <4> QED BY <2>3, <4>2 DEF IsConcat
    <3>2. l = w
      BY <2>2 DEF Unended
    <3> HIDE DEF x, l, y
    <3>3. /\ w \in Seq(Chars) /\ Len(w) = n + (k - 1)
          /\ \A i \in 1..(n + (k - 1)) : w[i] = x[i]
      BY <1>9, <2>1, <2>5
    <3> HIDE DEF w
    <3>4. ASSUME NEW i \in 1..Len(w) PROVE w[i] = y[i]
      <4>1. CASE i <= n
        <5>1. i \in 1..n /\ i \in 1..(n + (k - 1))
          BY <1>9, <3>3, <4>1
        <5> QED BY <1>9, <3>1, <3>3, <5>1
      <4>2. CASE ~(i <= n)
        <5>1. i - n \in 1..(k - 1) /\ i - n \in 1..k /\ n + (i - n) = i
          BY <1>9, <2>1, <3>3, <4>2
        <5>2. w[i] = x[i] /\ x[i] = q[i - n] /\ y[i] = r[i - n] /\ r[i - n] = q[i - n]
          BY <1>9, <2>3, <3>1, <3>3, <5>1
        <5> QED BY <5>2
      <4> QED BY <4>1, <4>2
    <3>5. w = y
      BY <3>1, <3>3, <3>4, SeqEqual
    <3> QED BY <3>2, <3>5 DEF y
  <2>7. deserialize(l) = [type |-> m.type, length |-> m.length, sequence |-> 0, payload |-> r]
    BY <1>6, <2>3, <2>6
  <2>8. ~validateMessage(deserialize(l))
    BY <1>4, <1>9, <2>3, <2>7 DEF validateMessage
  <2>9. l # << >>
    BY <1>9, <2>3, <2>4, <2>6
  <2> HIDE DEF x, l
  <2>10. Extracted(x \o <<"\n">>) = << >>
    BY <1>9, <2>8, <2>9, ExtractedOne DEF l
  <2> QED BY <1>1, <1>11, <2>10 DEF q
<1> QED BY <1>10, <1>11

-----------------------------------------------------------------------------
(* The messages of a stream, one by one. *)
Prefix(t, n) == SubSeq(t, 1, n)

LEMMA PrefixIs ==
    ASSUME NEW t \in Seq(Outgoing)
    PROVE  /\ Prefix(t, 0) = << >> /\ Len(t) \in Nat /\ Prefix(t, Len(t)) = t
           /\ \A n \in Nat : n + 1 <= Len(t) =>
                /\ t[n + 1] \in Outgoing /\ Prefix(t, n) \in Seq(Outgoing)
                /\ Prefix(t, n + 1) = Append(Prefix(t, n), t[n + 1])
BY DEF Prefix

LEMMA StreamCut ==
    ASSUME NEW t \in Seq(Outgoing)
    PROVE  IsCut(Stream(t))
<1> DEFINE S == {n \in Nat : n <= Len(t) => IsCut(Stream(Prefix(t, n)))}
<1>1. 0 \in S
  <2>1. IsCut(<< >>)
    BY DEF IsCut
  <2> QED BY <2>1, PrefixIs, StreamEmpty
<1>2. ASSUME NEW n \in Nat, n \in S PROVE n + 1 \in S
  <2> SUFFICES ASSUME n + 1 <= Len(t) PROVE IsCut(Stream(Prefix(t, n + 1)))
    OBVIOUS
  <2> DEFINE u == Prefix(t, n)
             m == t[n + 1]
  <2>1. u \in Seq(Outgoing) /\ m \in Outgoing /\ Prefix(t, n + 1) = Append(u, m)
    BY PrefixIs
  <2>2. IsCut(Stream(u))
    BY <1>2, PrefixIs
  <2> HIDE DEF u, m
  <2>3. Stream(u) \in Seq(Chars) /\ serialize(m) \in Seq(Chars) /\ IsCut(serialize(m))
    BY <2>1, StreamTypes, SerializeType
  <2>4. Stream(Append(u, m)) = Stream(u) \o serialize(m)
    BY <2>1, StreamAppend
  <2> QED BY <2>1, <2>2, <2>3, <2>4, CutConcat
<1> HIDE DEF S
<1>3. \A n \in Nat : n \in S
  BY <1>1, <1>2, AllNumbers
<1>4. Len(t) \in S /\ Len(t) <= Len(t) /\ Prefix(t, Len(t)) = t
  BY <1>3, PrefixIs
<1> QED BY <1>4 DEF S

LEMMA ExtractedNext ==
    ASSUME NEW t \in Seq(Outgoing), NEW n \in Nat, n + 1 <= Len(t)
    PROVE  /\ t[n + 1] \in Outgoing /\ Prefix(t, n) \in Seq(Outgoing)
           /\ Prefix(t, n + 1) = Append(Prefix(t, n), t[n + 1])
           /\ Extracted(Stream(Prefix(t, n))) \in Seq(Valid)
           /\ Extracted(Stream(Prefix(t, n + 1))) =
                   Extracted(Stream(Prefix(t, n))) \o Extracted(serialize(t[n + 1]))
<1> DEFINE u == Prefix(t, n)
           m == t[n + 1]
<1>1. u \in Seq(Outgoing) /\ m \in Outgoing /\ Prefix(t, n + 1) = Append(u, m)
  BY PrefixIs
<1> HIDE DEF u, m
<1>2. Stream(u) \in Seq(Chars) /\ IsCut(Stream(u)) /\ serialize(m) \in Seq(Chars)
  BY <1>1, StreamTypes, StreamCut, SerializeType
<1>3. Stream(Append(u, m)) = Stream(u) \o serialize(m)
  BY <1>1, StreamAppend
<1>4. Extracted(Stream(u) \o serialize(m)) = Extracted(Stream(u)) \o Extracted(serialize(m))
  BY <1>2, ExtractedCut
<1>5. Extracted(Stream(u)) \in Seq(Valid)
  BY <1>2, PositionsType
<1> QED BY <1>1, <1>3, <1>4, <1>5 DEF u, m

LEMMA FramableWhole ==
    ASSUME NEW m \in Outgoing, Framable(m.payload)
    PROVE  Whole(m)
BY DEF Framable, Whole

(* Messages that all fit the framing arrive as they were sent. *)
LEMMA AllArrive ==
    ASSUME NEW t \in Seq(Outgoing), \A i \in 1..Len(t) : Framable(t[i].payload)
    PROVE  Extracted(Stream(t)) = t
<1> DEFINE S == {n \in Nat : n <= Len(t) => Extracted(Stream(Prefix(t, n))) = Prefix(t, n)}
<1>1. 0 \in S
  <2>1. << >> \in Lines
    BY DEF Lines
  <2>2. Extracted(<< >>) = << >>
    BY <2>1, ExtractedLine
  <2> QED BY <2>2, PrefixIs, StreamEmpty
<1>2. ASSUME NEW n \in Nat, n \in S PROVE n + 1 \in S
  <2> SUFFICES ASSUME n + 1 <= Len(t)
               PROVE  Extracted(Stream(Prefix(t, n + 1))) = Prefix(t, n + 1)
    OBVIOUS
  <2> DEFINE u == Prefix(t, n)
             m == t[n + 1]
  <2>1. /\ u \in Seq(Outgoing) /\ m \in Outgoing /\ Prefix(t, n + 1) = Append(u, m)
        /\ Extracted(Stream(Prefix(t, n + 1))) = Extracted(Stream(u)) \o Extracted(serialize(m))
    BY ExtractedNext
  <2>2. Extracted(Stream(u)) = u
    BY <1>2, PrefixIs
  <2>3. Framable(m.payload)
    <3>1. n + 1 \in 1..Len(t)
      BY PrefixIs
    <3> QED BY <3>1
  <2> HIDE DEF u, m
  <2>4. Extracted(serialize(m)) = <<m>>
    BY <2>1, <2>3, FramableWhole, SentOne
  <2>5. Append(u, m) = u \o <<m>>
    BY <2>1, AppendIsConcat
  <2> QED BY <2>1, <2>2, <2>4, <2>5
<1> HIDE DEF S
<1>3. \A n \in Nat : n \in S
  BY <1>1, <1>2, AllNumbers
<1>4. Len(t) \in S /\ Len(t) <= Len(t) /\ Prefix(t, Len(t)) = t
  BY <1>3, PrefixIs
<1> QED BY <1>4 DEF S

(* If one of them does not, fewer arrive. *)
LEMMA FewerArrive ==
    ASSUME NEW t \in Seq(Outgoing), \A i \in 1..Len(t) : Whole(t[i]),
           NEW b \in 1..Len(t), ~Framable(t[b].payload)
    PROVE  Extracted(Stream(t)) # t
<1> DEFINE count(n) == Len(Extracted(Stream(Prefix(t, n))))
           S == {n \in Nat : n <= Len(t) => /\ count(n) \in 0..n
                                            /\ b <= n => count(n) < n}
<1>1. 0 \in S
  <2>1. << >> \in Lines
    BY DEF Lines
  <2>2. Extracted(<< >>) = << >>
    BY <2>1, ExtractedLine
  <2>3. count(0) = 0
    BY <2>2, PrefixIs, StreamEmpty
  <2> QED BY <2>3
<1>2. ASSUME NEW n \in Nat, n \in S PROVE n + 1 \in S
  <2> SUFFICES ASSUME n + 1 <= Len(t)
               PROVE  count(n + 1) \in 0..(n + 1) /\ (b <= n + 1 => count(n + 1) < n + 1)
    OBVIOUS
  <2> DEFINE e == Extracted(Stream(Prefix(t, n)))
             m == t[n + 1]
             x == Extracted(serialize(m))
  <2>1. /\ m \in Outgoing /\ e \in Seq(Valid)
        /\ Extracted(Stream(Prefix(t, n + 1))) = e \o x
    BY ExtractedNext
  <2>2. count(n) \in 0..n /\ (b <= n => count(n) < n)
    BY <1>2, PrefixIs
  <2>3. Whole(m)
    <3>1. n + 1 \in 1..Len(t)
      BY PrefixIs
    <3> QED BY <3>1
  <2>4. x = IF Framable(m.payload) THEN <<m>> ELSE << >>
    BY <2>1, <2>3, SentOne
  <2>5. x \in Seq(Valid)
    BY <2>1, SerializeType, PositionsType
  <2>6. Len(x) \in 0..1 /\ (b = n + 1 => Len(x) = 0)
    BY <2>4
  <2>7. count(n) = Len(e) /\ count(n + 1) = Len(e \o x)
    BY <2>1
  <2> HIDE DEF e, x, m, count
  <2>8. Len(e \o x) = Len(e) + Len(x)
    BY <2>1, <2>5
  <2>9. Len(e) \in 0..n /\ (b <= n => Len(e) < n)
    BY <2>2, <2>7
  <2>10. count(n + 1) = Len(e) + Len(x)
    BY <2>7, <2>8
  <2> DEFINE i == Len(e)
             j == Len(x)
  <2>11. i \in 0..n /\ j \in 0..1 /\ (b <= n => i < n) /\ (b = n + 1 => j = 0) /\ b \in Nat
    BY <2>6, <2>9
  <2> HIDE DEF i, j
  <2>12. i + j \in 0..(n + 1) /\ (b <= n + 1 => i + j < n + 1)
    BY <2>11
  <2> QED BY <2>10, <2>12 DEF i, j
<1> HIDE DEF S
<1>3. \A n \in Nat : n \in S
  BY <1>1, <1>2, AllNumbers
<1>4. Len(t) \in S /\ Len(t) <= Len(t) /\ Prefix(t, Len(t)) = t
  BY <1>3, PrefixIs
<1> HIDE DEF count
<1>5. count(Len(t)) < Len(t)
  BY <1>4 DEF S
<1> QED BY <1>4, <1>5 DEF count

(* Nor can one with a newline arrive, or one that is too long. *)
LEMMA FindType ==
    ASSUME NEW z, NEW c, NEW i \in Nat, Len(z) \in Nat
    PROVE  Find(z, c, i) \in Nat
<1> DEFINE Good(j) == z[j] = c /\ \A k \in i..(j - 1) : z[k] # c
           f == CHOOSE j \in i..Len(z) : Good(j)
<1>1. CASE \E j \in i..Len(z) : z[j] = c
  <2>1. PICK j \in i..Len(z) : z[j] = c
    BY <1>1
  <2> DEFINE S == {k \in i..Len(z) : z[k] = c}
  <2>2. PICK k \in S : \A x \in S : ~(x < k)
    <3>1. S \subseteq Nat /\ j \in S
      BY <2>1
    <3> HIDE DEF S
    <3>2. PICK k \in S : \A x \in S : <<x, k>> \notin OpToRel(<, Nat)
      BY <3>1, NatLessThanWellFounded, WFMin
    <3> QED BY <3>1, <3>2 DEF OpToRel
  <2>3. k \in i..Len(z) /\ Good(k)
    BY <2>2
  <2> HIDE DEF Good, S
  <2>4. f \in i..Len(z)
    BY <2>3, Zenon
  <2>5. Find(z, c, i) = f
    BY <1>1 DEF Find, Good
  <2> QED BY <2>4, <2>5
<1>2. CASE ~\E j \in i..Len(z) : z[j] = c
  BY <1>2 DEF Find
<1> QED BY <1>1, <1>2

LEMMA ValidWhole ==
    ASSUME NEW m \in Valid
    PROVE  Whole(m)
<1>1. PICK l \in Lines : m = deserialize(l) /\ validateMessage(m)
  BY DEF Valid
<1> DEFINE p1 == Find(l, "|", 1)
           p2 == Find(l, "|", p1 + 1)
           p3 == Find(l, "|", p2 + 1)
<1>2. Len(l) \in Nat /\ \A i \in 1..Len(l) : l[i] \in Chars \ {"\n"}
  BY DEF Lines
<1>3. p1 \in Nat
  BY <1>2, FindType
<1>4. p2 \in Nat
  BY <1>2, <1>3, FindType
<1>5. p3 \in Nat
  BY <1>2, <1>4, FindType
<1>6. m.payload = << >> \/ m.payload = SubSeq(l, p3 + 1, Len(l))
  BY <1>1 DEF deserialize, Unknown
<1> HIDE DEF p1, p2, p3
<1>7. m.payload \in Lines
  <2>1. << >> \in Lines
    BY DEF Lines
  <2>2. SubSeq(l, p3 + 1, Len(l)) \in Lines
    <3>1. \A i \in (p3 + 1)..Len(l) : l[i] \in Chars \ {"\n"}
      BY <1>2, <1>5
    <3>2. p3 + 1 \in Int /\ Len(l) \in Int
      BY <1>2, <1>5
    <3> QED BY <3>1, <3>2, SubSeqProperties DEF Lines
  <2> QED BY <1>6, <2>1, <2>2
<1>8. \A i \in DOMAIN m.payload : m.payload[i] # "\n"
  BY <1>7 DEF Lines
<1> QED BY <1>1, <1>8 DEF Whole, validateMessage

LEMMA ArriveIfFramable ==
    ASSUME NEW t \in Seq(Outgoing)
    PROVE  Extracted(Stream(t)) = t <=> \A i \in DOMAIN t : Framable(t[i].payload)
<1>1. DOMAIN t = 1..Len(t)
  OBVIOUS
<1>2. ASSUME \A i \in 1..Len(t) : Framable(t[i].payload) PROVE Extracted(Stream(t)) = t
  BY <1>2, AllArrive
<1>3. ASSUME Extracted(Stream(t)) = t, NEW b \in 1..Len(t) PROVE Framable(t[b].payload)
  <2>1. t \in Seq(Valid)
    BY <1>3, StreamTypes, PositionsType
  <2>2. ASSUME NEW i \in 1..Len(t) PROVE Whole(t[i])
    <3>1. t[i] \in Valid
      BY <2>1, ElementOfSeq
    <3> QED BY <3>1, ValidWhole
  <2> QED BY <1>3, <2>2, FewerArrive
<1> QED BY <1>1, <1>2, <1>3

LEMMA KeepRoundTrip == KeepInv => RoundTrip
<1> SUFFICES ASSUME KeepInv, wire = << >>
             PROVE  got = sent <=> \A i \in DOMAIN sent : Framable(sent[i].payload)
  BY DEF RoundTrip
<1>1. sent \in Seq(Outgoing) /\ buffer \in Lines /\ got \in Seq(Valid)
  BY DEF KeepInv, TypeInv, TypeOK, Lines
<1>2. buffer \o wire = buffer
  BY <1>1 DEF Lines
<1>3. Extracted(buffer) = << >>
  BY <1>1, ExtractedLine
<1>4. got \o << >> = Extracted(Stream(sent))
  BY <1>2, <1>3 DEF KeepInv, NoLoss
<1>5. got = Extracted(Stream(sent))
  BY <1>1, <1>4
<1> QED BY <1>1, <1>5, ArriveIfFramable

(* Once the wire is empty the receiver has exactly what was sent, if and only *)
(* if every payload fits the framing.                                        *)
THEOREM RoundTrips ==
    ASSUME Keep
    PROVE  Spec => []RoundTrip
<1>1. KeepInv /\ [Next]_vars => KeepInv'
  BY KeepInvNext
<1> QED BY KeepInvInit, KeepRoundTrip, <1>1, PTL DEF Spec

(* Payloads that fit the framing arrive in order and unchanged, none before   *)
(* those sent earlier: what Client takes for granted of its connections.      *)
InOrder == (\A i \in DOMAIN sent : Framable(sent[i].payload)) => IsPrefix(got, sent)

(* Whatever has been read so far, Protocol::extractMessages has made the       *)
(* beginning of what was sent out of it, and nothing else.                   *)
THEOREM ArrivesInOrder ==
    ASSUME Keep
    PROVE  Spec => []InOrder
<1>1. KeepInv => InOrder
  <2> SUFFICES ASSUME KeepInv, \A i \in DOMAIN sent : Framable(sent[i].payload)
               PROVE  IsPrefix(got, sent)
    BY DEF InOrder
  <2> DEFINE rest == Extracted(buffer \o wire)
  <2>1. /\ sent \in Seq(Outgoing) /\ got \in Seq(Valid)
        /\ buffer \in Seq(Chars) /\ wire \in Seq(Chars)
    BY SeqMonotonic DEF KeepInv, TypeInv, TypeOK
  <2>2. Extracted(Stream(sent)) = sent
    BY <2>1, ArriveIfFramable
  <2>3. rest \in Seq(Valid)
    <3>1. buffer \o wire \in Seq(Chars)
      BY <2>1
    <3> QED BY <3>1, PositionsType
  <2>4. sent = got \o rest
    BY <2>2 DEF KeepInv, NoLoss
  <2> HIDE DEF rest
  <2>5. IsJoined(Valid, got, rest, sent)
    BY <2>1, <2>3, <2>4, JoinedIs
  <2>6. /\ Len(sent) = Len(got) + Len(rest) /\ \A i \in 1..Len(got) : sent[i] = got[i]
        /\ Len(got) \in Nat /\ Len(rest) \in Nat
    BY <2>1, <2>3, <2>5 DEF IsJoined
  <2>7. SubSeq(got, 1, Len(got)) = SubSeq(sent, 1, Len(got))
    <3>1. \A i \in 1..Len(got) : 1 + i - 1 = i
      OBVIOUS
    <3> QED BY <2>6
  <2> QED BY <2>6, <2>7 DEF IsPrefix
<1>2. KeepInv /\ [Next]_vars => KeepInv'
  BY KeepInvNext
<1> QED BY KeepInvInit, <1>1, <1>2, PTL DEF Spec
=============================================================================
