---------------------------- MODULE NodeClientProofs ----------------------------
(***************************************************************************)
(* Theorems about a call of the console client, for every set of keys and  *)
(* digests, every length of a reply, every way to cut the stream and every *)
(* loss of the connection:                                                 *)
(*   CallsReturnReplies   Spec => []ReturnsReply                           *)
(*   SegmentsAreItems     Spec => []SegmentItems                           *)
(*                                                                         *)
(* Both speak of a call that has returned, and are not inductive: the      *)
(* invariant says how far a call has come that has not.  It has taken some *)
(* number i of lines of the reply and has collected just what they say     *)
(* (Held), and the bytes of the buffer and then of the wire come next in   *)
(* the reply, of which an end may be lost (At).  At the top of the loop    *)
(* the buffer may still start with the end of the line before (EndKept);   *)
(* that this is told from a line by its first byte needs lines that are    *)
(* not empty.  A line that is found in the buffer is then line i + 1       *)
(* (LineRead), and since no line but the last of a reply is ack or nack    *)
(* (AnswersGood), the call returns with nothing left behind it (AllRead).  *)
(***************************************************************************)
EXTENDS NodeClient, SequenceTheorems, FiniteSetTheorems, NaturalsInduction, TLAPS

-----------------------------------------------------------------------------
(* Sequences of sequences, joined.                                         *)

(* A set of naturals that has an element has a least one.                  *)
LEMMA LeastElement ==
  ASSUME NEW S, S \subseteq Nat, S # {}
  PROVE  \E m \in S : \A n \in S : m <= n
<1>1. PICK R : R = OpToRel(<, Nat)
  OBVIOUS
<1>2. IsWellFoundedOn(R, Nat)
  BY <1>1, NatLessThanWellFounded
<1>3. PICK x \in S : \A y \in S : <<y, x>> \notin R
  BY <1>2, WFMin
<1>4. \A y \in Nat : <<y, x>> \in R <=> y < x
  BY <1>1 DEF OpToRel
<1>5. \A n \in S : x <= n
  <2> SUFFICES ASSUME NEW n \in S PROVE x <= n
    OBVIOUS
  <2>1. x \in Nat /\ n \in Nat
    OBVIOUS
  <2>2. ~ (n < x)
    BY <1>3, <1>4, <2>1
  <2> QED
    BY <2>1, <2>2
<1> QED
  BY <1>5

(* FlattenSeq is a recursive function: the function of the sequences       *)
(* joined so far exists.                                                   *)
LEMMA JoinExists ==
  ASSUME NEW B, NEW s \in Seq(Seq(B)), Len(s) # 0
  PROVE  \E g \in [1..Len(s) -> Seq(B)] :
           g = [i \in 1..Len(s) |-> IF i = 1 THEN s[i] ELSE g[i-1] \o s[i]]
<1> DEFINE N == Len(s)
<1> DEFINE Good(n, g) == /\ g \in [1..n -> Seq(B)]
                      /\ \A i \in 1..n : g[i] = IF i = 1 THEN s[i] ELSE g[i-1] \o s[i]
<1> DEFINE Bad == {n \in 1..N : ~ \E g : Good(n, g)}
<1>1. N \in Nat \ {0} /\ \A i \in 1..N : s[i] \in Seq(B)
  OBVIOUS
<1>2. Bad = {}
  <2> SUFFICES ASSUME Bad # {} PROVE FALSE
    OBVIOUS
  <2>1. PICK m \in Bad : \A n \in Bad : m <= n
    <3>1. Bad \subseteq Nat
      BY <1>1
    <3> QED BY <3>1, LeastElement
  <2>2. m \in 1..N /\ \A n \in Bad : m <= n
    BY <2>1
  <2> HIDE DEF Bad
  <2>3. \E g : Good(m, g)
    <3>1. CASE m = 1
      <4>1. Good(1, [i \in 1..1 |-> s[1]])
        BY <1>1
      <4> QED BY <3>1, <4>1
    <3>2. CASE m # 1
      <4>1. m - 1 \in 1..N /\ ~(m <= m - 1)
        BY <2>2, <3>2, <1>1
      <4>2. m - 1 \notin Bad
        BY <4>1, <2>2
      <4>3. PICK g : Good(m - 1, g)
        BY <4>1, <4>2 DEF Bad
      <4> DEFINE h == [i \in 1..m |-> IF i = m THEN g[m - 1] \o s[m] ELSE g[i]]
      <4>4. Good(m, h)
        <5>1. g[m - 1] \in Seq(B) /\ s[m] \in Seq(B) /\ m - 1 \in 1..(m - 1)
          BY <4>3, <1>1, <2>2, <3>2
        <5>2. g[m - 1] \o s[m] \in Seq(B)
          BY <5>1
        <5>3. h \in [1..m -> Seq(B)]
          BY <5>2, <4>3, <2>2, <1>1
        <5>4. ASSUME NEW i \in 1..m PROVE h[i] = IF i = 1 THEN s[i] ELSE h[i - 1] \o s[i]
          <6>1. CASE i = m
            <7>1. i - 1 \in 1..m /\ i - 1 # m /\ i # 1
              BY <6>1, <3>2, <2>2, <1>1
            <7>2. h[i] = g[m - 1] \o s[m] /\ h[i - 1] = g[i - 1]
              BY <7>1, <6>1
            <7> QED BY <6>1, <7>1, <7>2
          <6>2. CASE i # m
            <7>1. i \in 1..(m-1)
              BY <6>2, <2>2, <1>1
            <7>2. g[i] = IF i = 1 THEN s[i] ELSE g[i - 1] \o s[i]
              BY <7>1, <4>3
            <7>3. i # 1 => i - 1 \in 1..m /\ i - 1 # m
              BY <7>1, <2>2, <1>1
            <7>4. h[i] = g[i] /\ (i # 1 => h[i - 1] = g[i - 1])
              BY <7>1, <7>3, <6>2
            <7> QED BY <7>2, <7>4
          <6> QED BY <6>1, <6>2
        <5> QED BY <5>3, <5>4
      <4> QED BY <4>4
    <3> QED BY <3>1, <3>2
  <2> QED BY <2>3, <2>1 DEF Bad
<1>3. PICK g : Good(N, g)
  <2>1. N \in 1..N
    BY <1>1
  <2>2. N \notin Bad
    BY <1>2
  <2> QED BY <2>1, <2>2
<1>4. g = [i \in 1..Len(s) |-> IF i = 1 THEN s[i] ELSE g[i-1] \o s[i]]
  BY <1>3
<1>5. g \in [1..Len(s) -> Seq(B)]
  BY <1>3
<1> QED BY <1>4, <1>5

(* So FlattenSeq is the last of the sequences joined one after the other.  *)
LEMMA FlattenIs ==
  ASSUME NEW B, NEW s \in Seq(Seq(B))
  PROVE  \E g \in [0..Len(s) -> Seq(B)] :
           /\ g[0] = <<>>
           /\ \A i \in 1..Len(s) : g[i] = g[i - 1] \o s[i]
           /\ FlattenSeq(s) = g[Len(s)]
<1>1. Len(s) \in Nat /\ \A i \in 1..Len(s) : s[i] \in Seq(B)
  OBVIOUS
<1>2. CASE Len(s) = 0
  <2>1. s = <<>> /\ FlattenSeq(s) = <<>>
    BY <1>2 DEF FlattenSeq
  <2>2. [i \in 0..0 |-> <<>>] \in [0..0 -> Seq(B)]
    OBVIOUS
  <2> DEFINE g == [i \in 0..0 |-> <<>>]
  <2>3. g[0] = <<>> /\ g \in [0..Len(s) -> Seq(B)] /\ FlattenSeq(s) = g[Len(s)]
    BY <1>2, <2>1, <2>2
  <2>4. 1..Len(s) = {}
    BY <1>2
  <2> HIDE DEF g
  <2> QED BY <2>3, <2>4
<1>3. CASE Len(s) # 0
  <2> DEFINE R(f) == f = [i \in 1..Len(s) |-> IF i = 1 THEN s[i] ELSE f[i-1] \o s[i]]
  <2>1. PICK f0 \in [1..Len(s) -> Seq(B)] : R(f0)
    BY <1>3, JoinExists
  <2>2. FlattenSeq(s) = (CHOOSE f : R(f))[Len(s)]
    BY <1>3 DEF FlattenSeq
  <2>3. PICK c : c = CHOOSE f : R(f)
    OBVIOUS
  <2>4. R(c)
    BY <2>1, <2>3
  <2>5. /\ DOMAIN c = 1..Len(s)
        /\ \A i \in 1..Len(s) : c[i] = IF i = 1 THEN s[i] ELSE c[i - 1] \o s[i]
    BY <2>4
  <2>6. \A i \in 1..Len(s) : c[i] \in Seq(B)
    <3> DEFINE Bad == {i \in 1..Len(s) : c[i] \notin Seq(B)}
    <3> SUFFICES ASSUME Bad # {} PROVE FALSE
      OBVIOUS
    <3>1. PICK m \in Bad : \A i \in Bad : m <= i
      <4>1. Bad \subseteq Nat
        BY <1>1
      <4> QED BY <4>1, LeastElement
    <3>2. m # 1
      BY <2>5, <1>1
    <3>3. m - 1 \in 1..Len(s) /\ m - 1 \notin Bad
      BY <3>1, <3>2, <1>1
    <3>4. c[m - 1] \in Seq(B) /\ s[m] \in Seq(B)
      BY <3>3, <1>1
    <3>5. c[m] = c[m - 1] \o s[m]
      BY <2>5, <3>2
    <3>6. c[m - 1] \o s[m] \in Seq(B)
      BY <3>4, ConcatProperties
    <3>7. c[m] \notin Seq(B)
      BY <3>1
    <3> QED BY <3>5, <3>6, <3>7
  <2> DEFINE g == [i \in 0..Len(s) |-> IF i = 0 THEN <<>> ELSE c[i]]
  <2>7. g \in [0..Len(s) -> Seq(B)]
    BY <1>1, <2>6
  <2>8. g[0] = <<>> /\ FlattenSeq(s) = g[Len(s)]
    BY <1>1, <1>3, <2>2, <2>3
  <2>9. ASSUME NEW i \in 1..Len(s) PROVE g[i] = g[i - 1] \o s[i]
    <3>1. g[i] = c[i]
      BY <1>1
    <3>2. CASE i = 1
      <4>5. c[i] = IF i = 1 THEN s[i] ELSE c[i - 1] \o s[i]
        BY <2>5
      <4>6. c[i] = s[i]
        BY <3>2, <4>5
      <4>7. i - 1 = 0 /\ 0 \in 0..Len(s)
        BY <3>2, <1>1
      <4>1. i - 1 = 0 /\ 0 \in 0..Len(s) /\ c[i] = s[i]
        BY <4>6, <4>7
      <4>3. g[i] = s[i] /\ g[i - 1] = <<>>
        BY <3>1, <4>1
      <4>2. <<>> \o s[i] = s[i]
        BY <1>1, ConcatEmptySeq
      <4> QED BY <4>2, <4>3
    <3>3. CASE i # 1
      <4>1. g[i - 1] = c[i - 1]
        BY <3>3, <1>1
      <4> QED BY <3>1, <3>3, <4>1, <2>5
    <3> QED BY <3>2, <3>3
  <2> HIDE DEF g
  <2> QED BY <2>7, <2>8, <2>9
<1> QED BY <1>2, <1>3
-----------------------------------------------------------------------------
(* The bytes that are sent.                                                *)
Bytes == (UNION {ToSet(w) : w \in Keys \cup Digests}) \cup {SP, NL, "a", "c", "k", "n", "u"}

(* What is sent and received, with the operators on it under names of      *)
(* their own: the algebra of joined texts needs no look at their bytes.    *)
Texts == Seq(Bytes)
Lines == Seq(Texts)
Join(a, b) == a \o b
Ended(l) == Append(l, NL)

(* Joining is associative.                                                 *)
LEMMA Assoc == \A a, b, c \in Texts : Join(Join(a, b), c) = Join(a, Join(b, c))
BY ConcatAssociative DEF Texts, Join

(* Texts that start alike and are equal go on alike.                       *)
LEMMA Cancel == \A a, b, c \in Texts : Join(a, b) = Join(a, c) => b = c
BY ConcatSimplifications DEF Texts, Join

(* Texts that are joined are a text.                                       *)
LEMMA Joined == \A a, b \in Texts : Join(a, b) \in Texts
BY DEF Texts, Join

(* The empty text joins to nothing new, and nothing else does.             *)
LEMMA Nothing ==
  /\ <<>> \in Texts
  /\ \A a \in Texts : Join(a, <<>>) = a /\ Join(<<>>, a) = a
  /\ \A a, b \in Texts : Join(a, b) = <<>> => a = <<>> /\ b = <<>>
  /\ \A a, b \in Texts : Join(a, b) = a => b = <<>>
BY ConcatSimplifications, ConcatEmptySeq DEF Texts, Join

(* A line with its end is a text.                                          *)
LEMMA EndedIsText == \A l \in Texts : Ended(l) \in Texts
BY DEF Texts, Bytes, Ended

(* g[i] is what is sent of the first i lines.                              *)
IsUpto(lines, g) ==
  /\ g \in [0..Len(lines) -> Texts]
  /\ g[0] = <<>>
  /\ \A i \in 1..Len(lines) : g[i] = Join(g[i - 1], Ended(lines[i]))
  /\ Sent(lines) = g[Len(lines)]

Upto(lines) == CHOOSE g : IsUpto(lines, g)

(* Upto(lines)[i] is what is sent of the first i lines.                    *)
LEMMA UptoIs ==
  ASSUME NEW lines \in Lines
  PROVE  IsUpto(lines, Upto(lines))
<1> DEFINE s == [n \in DOMAIN lines |-> Append(lines[n], NL)]
<1>1. lines \in Seq(Texts) /\ Len(lines) \in Nat /\ DOMAIN lines = 1..Len(lines)
  BY DEF Lines
<1>2. s \in Seq(Texts) /\ Len(s) = Len(lines)
      /\ \A i \in 1..Len(lines) : s[i] = Ended(lines[i])
  <2>1. ASSUME NEW i \in 1..Len(lines) PROVE Append(lines[i], NL) \in Texts
    <3>1. lines[i] \in Texts
      BY <1>1
    <3> QED BY <3>1, EndedIsText DEF Ended
  <2>2. s \in [1..Len(lines) -> Texts]
    BY <1>1, <2>1
  <2> QED BY <1>1, <2>2 DEF Ended
<1>3. Sent(lines) = FlattenSeq(s)
  BY DEF Sent
<1> HIDE DEF s
<1>4. PICK g \in [0..Len(s) -> Seq(Bytes)] :
           /\ g[0] = <<>>
           /\ \A i \in 1..Len(s) : g[i] = g[i - 1] \o s[i]
           /\ FlattenSeq(s) = g[Len(s)]
  <2>1. s \in Seq(Seq(Bytes))
    BY <1>2 DEF Texts
  <2> QED BY <2>1, FlattenIs
<1>5. IsUpto(lines, g)
  BY <1>2, <1>3, <1>4 DEF IsUpto, Join, Texts
<1> QED
  BY <1>5 DEF Upto

(* The texts of the first lines, from none of them to all.                 *)
LEMMA UptoType ==
  ASSUME NEW lines \in Lines
  PROVE  /\ Len(lines) \in Nat
         /\ \A i \in 0..Len(lines) : Upto(lines)[i] \in Texts
         /\ Sent(lines) = Upto(lines)[Len(lines)] /\ Sent(lines) \in Texts
         /\ Upto(lines)[0] = <<>>
<1>1. Len(lines) \in Nat
  BY DEF Lines
<1>2. /\ Upto(lines) \in [0..Len(lines) -> Texts]
      /\ Upto(lines)[0] = <<>> /\ Sent(lines) = Upto(lines)[Len(lines)]
  BY UptoIs DEF IsUpto
<1>3. 0 \in 0..Len(lines) /\ Len(lines) \in 0..Len(lines)
  BY <1>1
<1> QED
  BY <1>1, <1>2, <1>3

(* One more line is sent with its end.                                     *)
LEMMA NextUpto ==
  ASSUME NEW lines \in Lines, NEW i \in 1..Len(lines)
  PROVE  /\ lines[i] \in Texts /\ Ended(lines[i]) \in Texts
         /\ i - 1 \in 0..Len(lines) /\ Upto(lines)[i - 1] \in Texts
         /\ Upto(lines)[i] = Join(Upto(lines)[i - 1], Ended(lines[i]))
<1>1. lines[i] \in Texts
  BY DEF Lines
<1>2. i - 1 \in 0..Len(lines)
  BY UptoType
<1>3. Upto(lines)[i - 1] \in Texts
  BY <1>2, UptoType
<1>4. Upto(lines)[i] = Join(Upto(lines)[i - 1], Ended(lines[i]))
  BY UptoIs DEF IsUpto
<1> QED
  BY <1>1, <1>2, <1>3, <1>4, EndedIsText

(* What is sent of some lines starts what is sent of more of them.         *)
LEMMA UptoExtends ==
  ASSUME NEW lines \in Lines, NEW i \in 0..Len(lines)
  PROVE  \A j \in i..Len(lines) : \E t \in Texts : Upto(lines)[j] = Join(Upto(lines)[i], t)
<1> DEFINE Bad == {j \in i..Len(lines) :
                    ~ \E t \in Texts : Upto(lines)[j] = Join(Upto(lines)[i], t)}
<1>1. Len(lines) \in Nat /\ Upto(lines)[i] \in Texts
  BY UptoType
<1> SUFFICES ASSUME Bad # {} PROVE FALSE
  OBVIOUS
<1>2. PICK m \in Bad : \A j \in Bad : m <= j
  <2>1. Bad \subseteq Nat
    BY <1>1
  <2> QED BY <2>1, LeastElement
<1>3. m \in i..Len(lines) /\ ~ \E t \in Texts : Upto(lines)[m] = Join(Upto(lines)[i], t)
  BY <1>2
<1>4. m # i
  BY <1>1, <1>3, Nothing
<1>5. m - 1 \in i..Len(lines) /\ ~(m <= m - 1) /\ m \in 1..Len(lines)
  BY <1>1, <1>3, <1>4
<1>6. m - 1 \notin Bad
  BY <1>2, <1>5
<1>7. PICK t \in Texts : Upto(lines)[m - 1] = Join(Upto(lines)[i], t)
  BY <1>5, <1>6
<1>8. Ended(lines[m]) \in Texts /\ Upto(lines)[m] = Join(Upto(lines)[m - 1], Ended(lines[m]))
  BY <1>5, NextUpto
<1>9. Upto(lines)[m] = Join(Upto(lines)[i], Join(t, Ended(lines[m])))
  BY <1>1, <1>7, <1>8, Assoc
<1> QED
  BY <1>3, <1>7, <1>8, <1>9, Joined

(* Behind the first i lines come these bytes and some that are lost.       *)
Placed(lines, i, bytes, lost) == Join(Upto(lines)[i], Join(bytes, lost)) = Sent(lines)

(* The first line in a buffer ends at n.                                   *)
EndsAt(b, n) ==
  /\ n \in 1..Len(b) /\ b[n] = NL
  /\ \A k \in 1..Len(b) : b[k] = NL => n <= k

(* A line: a text that is not empty and does not hold its own end.         *)
Unbroken(l) == l \in Texts /\ l # <<>> /\ \A k \in 1..Len(l) : l[k] # NL

GoodLines(lines) == lines \in Lines /\ \A i \in 1..Len(lines) : Unbroken(lines[i])

(* Behind all lines there is nothing.                                      *)
LEMMA NothingLeft ==
  ASSUME NEW lines \in Lines, NEW bytes \in Texts, NEW lost \in Texts,
         Placed(lines, Len(lines), bytes, lost)
  PROVE  bytes = <<>> /\ lost = <<>>
<1>1. Join(Sent(lines), Join(bytes, lost)) = Sent(lines)
  BY UptoType DEF Placed
<1>2. Join(bytes, lost) = <<>>
  BY <1>1, UptoType, Joined, Nothing
<1> QED
  BY <1>2, Nothing

(* Where something comes behind the first i lines, the next line comes.    *)
LEMMA NextLine ==
  ASSUME NEW lines, GoodLines(lines), NEW i \in 0..Len(lines),
         NEW bytes \in Texts, bytes # <<>>,
         NEW lost \in Texts, Placed(lines, i, bytes, lost)
  PROVE  /\ i + 1 \in 1..Len(lines)
         /\ \E t \in Texts : Join(bytes, lost) = Join(Ended(lines[i + 1]), t)
<1>1. lines \in Lines
  BY DEF GoodLines
<1>2. Len(lines) \in Nat
  BY <1>1, UptoType
<1>3. i # Len(lines)
  BY <1>1, NothingLeft
<1>4. PICK j : j = i + 1
  OBVIOUS
<1>5. j \in 1..Len(lines) /\ j \in 0..Len(lines) /\ Len(lines) \in j..Len(lines) /\ j - 1 = i
  BY <1>2, <1>3, <1>4
<1>6. PICK t \in Texts : Upto(lines)[Len(lines)] = Join(Upto(lines)[j], t)
  BY <1>1, <1>5, UptoExtends
<1>7. /\ Ended(lines[j]) \in Texts /\ Upto(lines)[i] \in Texts
      /\ Upto(lines)[j] = Join(Upto(lines)[i], Ended(lines[j]))
  BY <1>1, <1>5, NextUpto
<1>8. Join(Upto(lines)[i], Join(bytes, lost)) = Join(Upto(lines)[i], Join(Ended(lines[j]), t))
  BY <1>1, <1>6, <1>7, UptoType, Assoc DEF Placed
<1>9. Join(bytes, lost) = Join(Ended(lines[j]), t)
  BY <1>6, <1>7, <1>8, Joined, Cancel
<1> QED
  BY <1>4, <1>5, <1>6, <1>9

(* How the first line of bytes is found in a buffer b that holds some of   *)
(* them.                                                                   *)
LEMMA FirstLine ==
  ASSUME NEW b \in Texts, NEW z \in Texts, NEW l, Unbroken(l), NEW t \in Texts,
         Join(b, z) = Join(Ended(l), t), NEW n, EndsAt(b, n)
  PROVE  /\ SubSeq(b, 1, n - 1) = l
         /\ b = Join(Ended(l), SubSeq(b, n + 1, Len(b)))
<1>1. /\ NL \in Bytes /\ Len(l) \in Nat /\ Len(b) \in Nat /\ b \in Seq(Bytes)
      /\ l \in Seq(Bytes) /\ \A k \in 1..Len(l) : l[k] # NL
  BY DEF Bytes, Unbroken, Texts
<1>2. n \in 1..Len(b) /\ b[n] = NL /\ \A k \in 1..Len(b) : b[k] = NL => n <= k
  BY DEF EndsAt
<1>3. PICK a : a = Ended(l)
  OBVIOUS
<1>4. a \in Seq(Bytes) /\ Len(a) = Len(l) + 1
      /\ (\A k \in 1..Len(l) : a[k] = l[k]) /\ a[Len(l) + 1] = NL
  BY <1>1, <1>3 DEF Ended
<1>5. \A k \in 1..Len(b) : k <= Len(a) => b[k] = a[k]
  <2>1. \A k \in 1..Len(b) : Join(b, z)[k] = b[k]
    BY <1>1, ConcatProperties DEF Join, Texts
  <2>2. \A k \in 1..Len(a) : Join(a, t)[k] = a[k]
    BY <1>4, ConcatProperties DEF Join, Texts
  <2> QED BY <1>1, <1>3, <1>4, <2>1, <2>2
<1>6. n = Len(l) + 1
  <2>1. ~(n <= Len(l))
    <3> SUFFICES ASSUME n <= Len(l) PROVE FALSE
      OBVIOUS
    <3>1. n \in 1..Len(l) /\ n <= Len(a)
      BY <1>1, <1>2, <1>4
    <3>2. b[n] = a[n] /\ a[n] = l[n]
      BY <3>1, <1>2, <1>4, <1>5
    <3> QED BY <3>1, <3>2, <1>1, <1>2
  <2>2. Len(l) + 1 \in 1..Len(b) /\ Len(l) + 1 <= Len(a)
    BY <2>1, <1>1, <1>2, <1>4
  <2>3. b[Len(l) + 1] = NL
    BY <2>2, <1>4, <1>5
  <2> QED BY <2>1, <2>2, <2>3, <1>1, <1>2
<1>7. SubSeq(b, 1, n - 1) = l
  <2>1. SubSeq(b, 1, n - 1) \in Seq(Bytes) /\ Len(SubSeq(b, 1, n - 1)) = Len(l)
    BY <1>1, <1>2, <1>6
  <2>2. \A k \in 1..Len(l) : SubSeq(b, 1, n - 1)[k] = l[k]
    BY <1>1, <1>2, <1>4, <1>5, <1>6
  <2> QED BY <1>1, <2>1, <2>2, SeqEqual
<1>8. SubSeq(b, 1, n) = a
  <2>1. SubSeq(b, 1, n) \in Seq(Bytes) /\ Len(SubSeq(b, 1, n)) = n
    BY <1>1, <1>2
  <2>2. \A k \in 1..n : SubSeq(b, 1, n)[k] = a[k]
    BY <1>1, <1>2, <1>4, <1>5, <1>6
  <2> QED BY <1>4, <1>6, <2>1, <2>2, SeqEqual
<1>9. b = SubSeq(b, 1, n) \o SubSeq(b, n + 1, Len(b))
  <2>1. SubSeq(b, 1, n) \o SubSeq(b, n + 1, Len(b)) = SubSeq(b, 1, Len(b))
    BY <1>1, <1>2, ConcatAdjacentSubSeq
  <2>2. SubSeq(b, 1, Len(b)) = b
    BY <1>1, SubSeqFull
  <2> QED BY <2>1, <2>2
<1> QED
  BY <1>3, <1>7, <1>8, <1>9 DEF Join

(* What a line that ends in the buffer is, and what stands behind it.      *)
LEMMA LineRead ==
  ASSUME NEW lines, GoodLines(lines), NEW i \in 0..Len(lines),
         NEW b \in Texts, NEW z \in Texts, Placed(lines, i, b, z),
         NEW n, EndsAt(b, n)
  PROVE  /\ i + 1 \in 1..Len(lines)
         /\ SubSeq(b, 1, n - 1) = lines[i + 1]
         /\ SubSeq(b, n + 1, Len(b)) \in Texts
         /\ Placed(lines, i + 1, SubSeq(b, n + 1, Len(b)), z)
<1>1. lines \in Lines /\ Len(lines) \in Nat
  BY UptoType DEF GoodLines
<1>2. b # <<>>
  BY DEF EndsAt
<1>3. PICK j, r : j = i + 1 /\ r = SubSeq(b, n + 1, Len(b))
  OBVIOUS
<1>4. /\ j \in 1..Len(lines) /\ j - 1 = i
      /\ \E t \in Texts : Join(b, z) = Join(Ended(lines[j]), t)
  <2>1. j - 1 = i
    BY <1>1, <1>3
  <2> QED BY <1>2, <1>3, <2>1, NextLine
<1>5. PICK t \in Texts : Join(b, z) = Join(Ended(lines[j]), t)
  BY <1>4
<1>6. Unbroken(lines[j])
  BY <1>4 DEF GoodLines
<1>7. SubSeq(b, 1, n - 1) = lines[j] /\ b = Join(Ended(lines[j]), r)
  BY <1>3, <1>5, <1>6, FirstLine
<1>8. /\ Upto(lines)[i] \in Texts /\ Ended(lines[j]) \in Texts
      /\ Upto(lines)[j] = Join(Upto(lines)[i], Ended(lines[j]))
  BY <1>1, <1>4, NextUpto
<1>9. r \in Texts
  BY <1>3 DEF EndsAt, Texts
<1>10. Join(Upto(lines)[i], Join(b, z)) = Join(Upto(lines)[j], Join(r, z))
  <2>1. Join(b, z) = Join(Ended(lines[j]), Join(r, z))
    BY <1>7, <1>8, <1>9, Assoc
  <2>2. Join(r, z) \in Texts
    BY <1>9, Joined
  <2>3. Join(Join(Upto(lines)[i], Ended(lines[j])), Join(r, z))
          = Join(Upto(lines)[i], Join(Ended(lines[j]), Join(r, z)))
    BY <1>8, <2>2, Assoc
  <2> QED BY <1>8, <2>1, <2>3
<1>11. Placed(lines, j, r, z)
  BY <1>10 DEF Placed
<1> QED
  BY <1>3, <1>4, <1>7, <1>9, <1>11

-----------------------------------------------------------------------------
(* Behind the first i lines comes the buffer b and then the wire w.        *)
At(lines, i, b, w) == \E lost \in Texts : Placed(lines, i, b, Join(w, lost))

(* Of no lines nothing is sent, and nothing can be read.                   *)
LEMMA NoLines ==
  /\ GoodLines(<<>>)
  /\ \A b, w \in Texts : \A i \in 0..Len(<<>>) : At(<<>>, i, b, w) <=> b = <<>> /\ w = <<>>
<1>1. <<>> \in Lines /\ Len(<<>>) = 0
  BY DEF Lines
<1>2. Upto(<<>>)[0] = <<>> /\ Sent(<<>>) = <<>>
  BY <1>1, UptoType
<1>3. ASSUME NEW b \in Texts, NEW w \in Texts, NEW i \in 0..Len(<<>>), At(<<>>, i, b, w)
      PROVE  b = <<>> /\ w = <<>>
  <2>1. PICK lost \in Texts : Placed(<<>>, Len(<<>>), b, Join(w, lost))
    <3>1. i = Len(<<>>)
      BY <1>1
    <3> QED BY <1>3, <3>1 DEF At
  <2>2. b = <<>> /\ Join(w, lost) = <<>>
    BY <1>1, <2>1, Joined, NothingLeft
  <2> QED BY <2>2, Nothing
<1>4. \A i \in 0..Len(<<>>) : At(<<>>, i, <<>>, <<>>)
  <2>1. Placed(<<>>, 0, <<>>, Join(<<>>, <<>>))
    BY <1>2, Nothing DEF Placed
  <2> QED BY <1>1, <2>1, Nothing DEF At
<1>5. GoodLines(<<>>)
  BY <1>1 DEF GoodLines
<1> QED
  BY <1>3, <1>4, <1>5

(* Nothing of a reply has been read when it is sent.                       *)
LEMMA AtStart ==
  ASSUME NEW lines \in Lines
  PROVE  At(lines, 0, <<>>, Sent(lines))
<1>1. Upto(lines)[0] = <<>> /\ Sent(lines) \in Texts
  BY UptoType
<1>2. Placed(lines, 0, <<>>, Join(Sent(lines), <<>>))
  BY <1>1, Nothing DEF Placed
<1> QED
  BY <1>2, Nothing DEF At

(* Bytes move from the wire into the buffer, or are lost.                  *)
LEMMA AtMove ==
  ASSUME NEW lines, NEW i, NEW b \in Texts, NEW c \in Texts, NEW w \in Texts,
         At(lines, i, b, Join(c, w)), Upto(lines)[i] \in Texts
  PROVE  At(lines, i, Join(b, c), w)
<1>1. PICK lost \in Texts : Join(Upto(lines)[i], Join(b, Join(Join(c, w), lost))) = Sent(lines)
  BY DEF At, Placed
<1>2. Join(w, lost) \in Texts
  BY Joined
<1>3. Join(b, Join(Join(c, w), lost)) = Join(Join(b, c), Join(w, lost))
  <2>1. Join(Join(c, w), lost) = Join(c, Join(w, lost))
    BY Assoc
  <2>2. Join(Join(b, c), Join(w, lost)) = Join(b, Join(c, Join(w, lost)))
    BY <1>2, Assoc
  <2> QED BY <2>1, <2>2
<1> QED
  BY <1>1, <1>3 DEF At, Placed

(* What is lost at the end of the wire was not read.                       *)
LEMMA AtLess ==
  ASSUME NEW lines, NEW i, NEW b \in Texts, NEW c \in Texts, NEW w \in Texts,
         At(lines, i, b, Join(w, c))
  PROVE  At(lines, i, b, w)
<1>1. PICK lost \in Texts : Placed(lines, i, b, Join(Join(w, c), lost))
  BY DEF At
<1>2. Join(Join(w, c), lost) = Join(w, Join(c, lost)) /\ Join(c, lost) \in Texts
  BY Assoc, Joined
<1> QED
  BY <1>1, <1>2 DEF At

(* A line has been dropped with its end or not at all: no line is empty.   *)
LEMMA NoEndAhead ==
  ASSUME NEW lines, GoodLines(lines), NEW i \in 0..Len(lines),
         NEW b \in Texts, NEW w \in Texts, At(lines, i, b, w), b # <<>>
  PROVE  Head(b) # NL
<1>1. PICK lost \in Texts : Placed(lines, i, b, Join(w, lost))
  BY DEF At
<1>2. PICK z \in Texts : z = Join(w, lost)
  BY Joined
<1>3. PICK j : j = i + 1
  OBVIOUS
<1>4. j \in 1..Len(lines) /\ \E t \in Texts : Join(b, z) = Join(Ended(lines[j]), t)
  BY <1>1, <1>2, <1>3, NextLine
<1>5. PICK l : l = lines[j]
  OBVIOUS
<1>6. l \in Seq(Bytes) /\ l # <<>> /\ \A k \in 1..Len(l) : l[k] # NL
  BY <1>4, <1>5 DEF GoodLines, Unbroken, Texts
<1>7. PICK t \in Texts : Join(b, z) = Join(Ended(l), t)
  BY <1>4, <1>5
<1>8. b \in Seq(Bytes) /\ z \in Seq(Bytes) /\ t \in Seq(Bytes) /\ NL \in Bytes
  BY DEF Texts, Bytes
<1>9. 1 \in 1..Len(b) /\ 1 \in 1..Len(l)
  BY <1>6, <1>8
<1>10. Join(b, z)[1] = b[1]
  BY <1>8, <1>9 DEF Join
<1>11. Join(Ended(l), t)[1] = l[1]
  <2>1. PICK e : e = Ended(l)
    OBVIOUS
  <2>2. e \in Seq(Bytes) /\ Len(e) = Len(l) + 1 /\ \A k \in 1..Len(l) : e[k] = l[k]
    BY <2>1, <1>6, <1>8 DEF Ended
  <2>3. e[1] = l[1] /\ 1 \in 1..Len(e)
    BY <2>2, <1>6, <1>9
  <2> QED BY <2>1, <2>2, <2>3, <1>8 DEF Join
<1> QED
  BY <1>6, <1>7, <1>8, <1>9, <1>10, <1>11

(* The buffer behind a line that ends at n.                                *)
LEMMA RestIs ==
  ASSUME NEW b \in Texts, NEW n, EndsAt(b, n)
  PROVE  /\ SubSeq(b, n, Len(b)) \in Texts /\ SubSeq(b, n, Len(b)) # <<>>
         /\ Head(SubSeq(b, n, Len(b))) = NL
         /\ Tail(SubSeq(b, n, Len(b))) = SubSeq(b, n + 1, Len(b))
         /\ SubSeq(b, n + 1, Len(b)) = <<>> => SubSeq(b, n, Len(b)) = <<NL>>
<1>1. b \in Seq(Bytes) /\ n \in 1..Len(b) /\ b[n] = NL /\ Len(b) \in Nat
  BY DEF EndsAt, Texts
<1>2. PICK r, q : r = SubSeq(b, n, Len(b)) /\ q = SubSeq(b, n + 1, Len(b))
  OBVIOUS
<1>3. r \in Seq(Bytes) /\ Len(r) = Len(b) - n + 1 /\ r[1] = NL
  BY <1>1, <1>2
<1>4. q \in Seq(Bytes) /\ Len(q) = Len(b) - n
  BY <1>1, <1>2
<1>5. Head(r) = b[n] /\ Tail(r) = q
  BY <1>1, <1>2, HeadTailOfSubSeq
<1>6. ASSUME q = <<>> PROVE r = <<NL>>
  <2>1. Len(q) = 0
    BY <1>6
  <2>2. Len(r) = 1
    BY <1>1, <1>3, <1>4, <2>1
  <2>3. PICK e : e = <<NL>>
    OBVIOUS
  <2>4. e \in Seq(Bytes) /\ Len(e) = 1 /\ e[1] = NL
    BY <2>3 DEF Bytes
  <2>5. \A k \in 1..1 : k = 1
    OBVIOUS
  <2>6. \A k \in 1..Len(r) : r[k] = e[k]
    BY <1>3, <2>2, <2>4, <2>5
  <2> QED BY <1>3, <2>2, <2>3, <2>4, <2>6, SeqEqual
<1>7. r # <<>>
  BY <1>1, <1>3
<1> QED
  BY <1>1, <1>2, <1>3, <1>5, <1>6, <1>7 DEF Texts
-----------------------------------------------------------------------------
(* The commands of the three calls.                                        *)
Commands == {"digest", "segment", "update"}

(* A line that split(' ', 1) splits.                                       *)
HasSpace(l) == \E k \in 1..Len(l) : l[k] = SP

(* A line with a space is its key, the space and the rest.                 *)
LEMMA ItemJoins ==
  ASSUME NEW l \in Texts, HasSpace(l)
  PROVE  Starts(l) \o <<SP>> \o Item(l)[2] = l
<1>1. l \in Seq(Bytes) /\ Len(l) \in Nat
  BY DEF Texts
<1>2. PICK n : n = FirstSpace(l)
  OBVIOUS
<1>3. n \in 1..Len(l) /\ l[n] = SP
  <2> DEFINE I == {i \in 1..Len(l) : l[i] = SP}
  <2>1. n = IF I # {} THEN Min(I) ELSE 0
    BY <1>2 DEF FirstSpace, SelectInSeq
  <2>2. I # {} /\ I \subseteq Nat
    BY <1>1 DEF HasSpace
  <2> HIDE DEF I
  <2>3. n = CHOOSE x \in I : \A y \in I : x =< y
    BY <2>1, <2>2 DEF Min
  <2>4. n \in I
    BY <2>2, <2>3, LeastElement
  <2> QED BY <2>4 DEF I
<1>4. Starts(l) = SubSeq(l, 1, n - 1) /\ Item(l)[2] = SubSeq(l, n + 1, Len(l))
  BY <1>2 DEF Starts, Item
<1>5. PICK a, c : a = SubSeq(l, 1, n - 1) /\ c = SubSeq(l, n + 1, Len(l))
  OBVIOUS
<1>6. /\ a \in Seq(Bytes) /\ Len(a) = n - 1 /\ \A k \in 1..(n - 1) : a[k] = l[k]
      /\ c \in Seq(Bytes) /\ Len(c) = Len(l) - n /\ \A k \in 1..(Len(l) - n) : c[k] = l[n + k]
  BY <1>1, <1>3, <1>5
<1>7. SP \in Bytes
  BY DEF Bytes
<1>8. PICK x : x = (a \o <<SP>>) \o c
  OBVIOUS
<1>9. x \in Seq(Bytes) /\ Len(x) = Len(l)
  BY <1>1, <1>3, <1>6, <1>7, <1>8
<1>10. ASSUME NEW k \in 1..Len(l) PROVE x[k] = l[k]
  <2>1. CASE k < n
    BY <2>1, <1>1, <1>3, <1>6, <1>8
  <2>2. CASE k = n
    BY <2>2, <1>1, <1>3, <1>6, <1>8
  <2>3. CASE k > n
    <3>1. k - n \in 1..(Len(l) - n) /\ n + (k - n) = k
      BY <2>3, <1>1, <1>3
    <3>2. c[k - n] = l[k]
      BY <3>1, <1>6
    <3>3. x[k] = c[k - n]
      BY <2>3, <1>1, <1>3, <1>6, <1>8
    <3> QED BY <3>2, <3>3
  <2> QED BY <2>1, <2>2, <2>3, <1>1, <1>3
<1>11. x = l
  BY <1>1, <1>9, <1>10, SeqEqual
<1> QED
  BY <1>4, <1>5, <1>8, <1>11

(* What SegmentItems says of a dict and the lines it was made of.          *)
Dict(d, ls) ==
  /\ DOMAIN d = {Starts(l) : l \in ls}
  /\ \A l \in ls :
       (\A m \in ls \ {l} : Starts(m) # Starts(l)) => Starts(l) \o <<SP>> \o d[Starts(l)] = l

(* One more line into the dict replaces the item of a line that starts     *)
(* like it.                                                                *)
LEMMA DictAdd ==
  ASSUME NEW d, NEW ls, NEW l \in Texts, HasSpace(l), Dict(d, ls)
  PROVE  Dict(With(d, Item(l)[1], Item(l)[2]), ls \cup {l})
<1>1. PICK e : e = With(d, Item(l)[1], Item(l)[2])
  OBVIOUS
<1>2. Item(l)[1] = Starts(l)
  BY DEF Item
<1>3. DOMAIN e = {Starts(l)} \cup DOMAIN d
  BY <1>1, <1>2 DEF With
<1>4. e[Starts(l)] = Item(l)[2]
  BY <1>1, <1>2 DEF With
<1>5. \A k \in DOMAIN d : k # Starts(l) => e[k] = d[k]
  BY <1>1, <1>2 DEF With
<1>6. DOMAIN e = {Starts(m) : m \in ls \cup {l}}
  BY <1>3 DEF Dict
<1>7. ASSUME NEW k \in ls \cup {l}, \A m \in (ls \cup {l}) \ {k} : Starts(m) # Starts(k)
      PROVE  Starts(k) \o <<SP>> \o e[Starts(k)] = k
  <2>1. CASE k = l
    BY <2>1, <1>4, ItemJoins
  <2>2. CASE k # l
    <3>1. k \in ls /\ Starts(l) # Starts(k) /\ \A m \in ls \ {k} : Starts(m) # Starts(k)
      BY <1>7, <2>2
    <3>2. Starts(k) \in DOMAIN d
      BY <3>1 DEF Dict
    <3>3. e[Starts(k)] = d[Starts(k)]
      BY <1>5, <3>1, <3>2
    <3>4. Starts(k) \o <<SP>> \o d[Starts(k)] = k
      BY <3>1 DEF Dict
    <3> QED BY <3>3, <3>4
  <2> QED BY <2>1, <2>2
<1> QED
  BY <1>1, <1>6, <1>7 DEF Dict

-----------------------------------------------------------------------------
(* A whole reply: its last line, and no other, ends it; the lines of a     *)
(* segment can be split.                                                   *)
GoodReply(c, r) ==
  /\ GoodLines(r) /\ Len(r) >= 1
  /\ r[Len(r)] \in {Ack, Nack}
  /\ \A j \in 1..(Len(r) - 1) : r[j] \notin {Ack, Nack} /\ (c = "segment" => HasSpace(r[j]))

(* The lines that end a reply, and the line that goes before a nack.       *)
LEMMA EndLines ==
  /\ Unbroken(Ack) /\ Unbroken(Nack) /\ Unbroken(Unknown)
  /\ HasSpace(Unknown) /\ Unknown \notin {Ack, Nack} /\ Ack # Nack
<1>1. Ack \in Texts /\ Nack \in Texts /\ Unknown \in Texts
  BY DEF Texts, Bytes, Ack, Nack, Unknown
<1>2. Len(Ack) = 2 /\ Len(Nack) = 2 /\ Len(Unknown) = 3
  BY DEF Ack, Nack, Unknown
<1>3. /\ \A k \in 1..2 : Ack[k] # NL /\ Nack[k] # NL
      /\ \A k \in 1..3 : Unknown[k] # NL
      /\ Unknown[2] = SP /\ Ack[1] # Nack[1]
  BY DEF Ack, Nack, Unknown, SP, NL
<1> QED
  BY <1>1, <1>2, <1>3 DEF Unbroken, HasSpace

(* A key or a digest is a text without the end of a line.                  *)
LEMMA Words ==
  ASSUME NEW w \in Keys \cup Digests
  PROVE  Unbroken(w)
<1>1. w \in Seq(ToSet(w)) /\ w # <<>> /\ NL \notin ToSet(w)
  BY ClientAssumption
<1>2. ToSet(w) \subseteq Bytes
  BY DEF Bytes
<1>3. w \in Seq(Bytes)
  BY <1>1, <1>2, SeqMonotonic
<1>4. \A k \in 1..Len(w) : w[k] \in ToSet(w)
  BY <1>3 DEF ToSet
<1> QED
  BY <1>1, <1>3, <1>4 DEF Unbroken, Texts

(* A row of a segment is a line that can be split and ends no reply.       *)
LEMMA RowIsLine ==
  ASSUME NEW k \in Keys, NEW d \in Digests
  PROVE  Unbroken(Row(k, d)) /\ HasSpace(Row(k, d)) /\ Row(k, d) \notin {Ack, Nack}
<1>1. /\ k \in Seq(Bytes) /\ \A i \in 1..Len(k) : k[i] # NL
      /\ d \in Seq(Bytes) /\ \A i \in 1..Len(d) : d[i] # NL
      /\ Len(k) \in Nat /\ Len(d) \in Nat /\ SP \in Bytes /\ SP # NL
  <2>1. Unbroken(k) /\ Unbroken(d)
    BY Words
  <2>2. k \in Seq(Bytes) /\ d \in Seq(Bytes)
    BY <2>1 DEF Unbroken, Texts
  <2>3. SP \in Bytes /\ SP # NL
    BY DEF Bytes, SP, NL
  <2> QED BY <2>1, <2>2, <2>3 DEF Unbroken
<1>2. PICK x : x = k \o <<SP>> \o d
  OBVIOUS
<1>3. x \in Seq(Bytes) /\ Len(x) = Len(k) + 1 + Len(d)
  BY <1>1, <1>2
<1>4. x[Len(k) + 1] = SP /\ Len(k) + 1 \in 1..Len(x)
  BY <1>1, <1>2, <1>3
<1>5. \A i \in 1..Len(x) : x[i] # NL
  BY <1>1, <1>2, <1>3
<1>6. x # <<>>
  BY <1>1, <1>3
<1>7. ~HasSpace(Ack) /\ ~HasSpace(Nack)
  <2>1. Len(Ack) = 2 /\ Len(Nack) = 2 /\ \A i \in 1..2 : Ack[i] # SP /\ Nack[i] # SP
    BY DEF Ack, Nack, SP
  <2> QED BY <2>1 DEF HasSpace
<1>8. HasSpace(x)
  BY <1>4 DEF HasSpace
<1> QED
  BY <1>2, <1>3, <1>5, <1>6, <1>7, <1>8 DEF Row, Unbroken, Texts

(* Lines, then an ack.                                                     *)
LEMMA AckedIsGood ==
  ASSUME NEW c, NEW s, NEW m \in Nat, DOMAIN s = 1..m, s = [j \in 1..m |-> s[j]],
         \A j \in 1..m : /\ Unbroken(s[j]) /\ s[j] \notin {Ack, Nack}
                         /\ c = "segment" => HasSpace(s[j])
  PROVE  GoodReply(c, Append(s, Ack))
<1>1. s \in Seq(Texts) /\ Len(s) = m
  <2>1. s \in [1..m -> Texts]
    BY DEF Unbroken
  <2> QED BY <2>1
<1>2. PICK r : r = Append(s, Ack)
  OBVIOUS
<1>3. Ack \in Texts
  BY EndLines DEF Unbroken
<1>4. r \in Seq(Texts) /\ Len(r) = m + 1 /\ r[m + 1] = Ack /\ \A j \in 1..m : r[j] = s[j]
  BY <1>1, <1>2, <1>3
<1>5. \A j \in 1..Len(r) : Unbroken(r[j])
  BY <1>4, EndLines
<1>6. (m + 1) - 1 = m /\ m + 1 >= 1
  OBVIOUS
<1> QED
  BY <1>2, <1>4, <1>5, <1>6, EndLines DEF GoodReply, GoodLines, Lines

(* lineReceived answers with whole replies only.                           *)
LEMMA AnswersGood ==
  ASSUME NEW c \in Commands, NEW r \in Answers(c)
  PROVE  GoodReply(c, r)
<1>1. CASE r = <<Unknown, Nack>>
  <2>1. Unknown \in Texts /\ Nack \in Texts
    BY EndLines DEF Unbroken
  <2>2. r \in Seq(Texts) /\ Len(r) = 2 /\ r[1] = Unknown /\ r[2] = Nack
    BY <1>1, <2>1
  <2>3. \A j \in 1..2 : j = 1 \/ j = 2
    OBVIOUS
  <2>4. \A j \in 1..(2 - 1) : j = 1
    OBVIOUS
  <2> QED
    BY <2>2, <2>3, <2>4, EndLines DEF GoodReply, GoodLines, Lines
<1>2. CASE c = "digest" /\ \E s \in SeqOf(Digests, MaxDigests) : r = Append(s, Ack)
  <2>1. PICK s \in SeqOf(Digests, MaxDigests) : r = Append(s, Ack)
    BY <1>2
  <2>2. PICK m \in 0..MaxDigests : s \in [1..m -> Digests]
    BY <2>1 DEF SeqOf
  <2>3. m \in Nat
    BY <2>2, ClientAssumption
  <2>4. \A j \in 1..m : Unbroken(s[j]) /\ s[j] \notin {Ack, Nack}
    BY <2>2, Words, ClientAssumption
  <2> QED
    BY <1>2, <2>1, <2>2, <2>3, <2>4, AckedIsGood
<1>3. CASE c = "segment" /\ \E s \in RowLines : r = Append(s, Ack)
  <2>1. PICK s \in RowLines : r = Append(s, Ack)
    BY <1>3
  <2>2. PICK ks \in UNION {SetToSeqs(S) : S \in SUBSET Keys}, f \in [Keys -> Digests] :
          s = [n \in DOMAIN ks |-> Row(ks[n], f[ks[n]])]
    BY <2>1 DEF RowLines
  <2>3. PICK S \in SUBSET Keys : ks \in SetToSeqs(S)
    BY <2>2
  <2>4. PICK m : m = Cardinality(S)
    OBVIOUS
  <2>5. ks \in [1..m -> S]
    BY <2>3, <2>4 DEF SetToSeqs
  <2>6. m \in Nat
    BY <2>4, ClientAssumption, FS_Subset, FS_CardinalityType
  <2>7. DOMAIN s = 1..m /\ s = [j \in 1..m |-> s[j]]
        /\ \A j \in 1..m : s[j] = Row(ks[j], f[ks[j]])
    BY <2>2, <2>5
  <2>8. \A j \in 1..m : ks[j] \in Keys /\ f[ks[j]] \in Digests
    BY <2>2, <2>5
  <2>9. \A j \in 1..m : Unbroken(s[j]) /\ s[j] \notin {Ack, Nack} /\ HasSpace(s[j])
    BY <2>7, <2>8, RowIsLine
  <2> QED
    BY <2>1, <2>6, <2>7, <2>9, AckedIsGood
<1>4. CASE c = "update" /\ r = <<Ack>>
  <2>1. Ack \in Texts
    BY EndLines DEF Unbroken
  <2>2. r \in Seq(Texts) /\ Len(r) = 1 /\ r[1] = Ack
    BY <1>4, <2>1
  <2> QED
    BY <2>2, EndLines DEF GoodReply, GoodLines, Lines
<1> QED
  BY <1>1, <1>2, <1>3, <1>4 DEF Answers, Commands
-----------------------------------------------------------------------------
(* The same steps, of the buffer and the wire.                             *)
LEMMA LineAt ==
  ASSUME NEW lines, GoodLines(lines), NEW i \in 0..Len(lines),
         NEW b \in Texts, NEW w \in Texts, At(lines, i, b, w),
         NEW n, EndsAt(b, n)
  PROVE  /\ i + 1 \in 1..Len(lines)
         /\ SubSeq(b, 1, n - 1) = lines[i + 1]
         /\ SubSeq(b, n + 1, Len(b)) \in Texts
         /\ At(lines, i + 1, SubSeq(b, n + 1, Len(b)), w)
<1>1. PICK lost \in Texts : Placed(lines, i, b, Join(w, lost))
  BY DEF At
<1>2. PICK z \in Texts : z = Join(w, lost)
  BY Joined
<1>3. /\ i + 1 \in 1..Len(lines)
      /\ SubSeq(b, 1, n - 1) = lines[i + 1]
      /\ SubSeq(b, n + 1, Len(b)) \in Texts
      /\ Placed(lines, i + 1, SubSeq(b, n + 1, Len(b)), z)
  BY <1>1, <1>2, LineRead
<1> QED
  BY <1>2, <1>3 DEF At

(* When all lines are read the buffer and the wire are empty.              *)
LEMMA AllRead ==
  ASSUME NEW lines, GoodLines(lines), NEW b \in Texts, NEW w \in Texts,
         At(lines, Len(lines), b, w)
  PROVE  b = <<>> /\ w = <<>>
<1>1. PICK lost \in Texts : Placed(lines, Len(lines), b, Join(w, lost))
  BY DEF At
<1>2. Join(w, lost) \in Texts
  BY Joined
<1>3. b = <<>> /\ Join(w, lost) = <<>>
  BY <1>1, <1>2, NothingLeft DEF GoodLines
<1> QED
  BY <1>3, Nothing

(* The end of line that is found is the first.                             *)
LEMMA FirstEnd ==
  ASSUME buf \in Texts, LineEnds # {}
  PROVE  EndsAt(buf, CHOOSE m \in LineEnds : \A l \in LineEnds : m <= l)
<1>1. buf \in Seq(Bytes)
  BY DEF Texts
<1>2. LineEnds = {n \in 1..Len(buf) : buf[n] = NL} /\ LineEnds \subseteq Nat
  BY <1>1 DEF LineEnds
<1>3. PICK n : n = CHOOSE m \in LineEnds : \A l \in LineEnds : m <= l
  OBVIOUS
<1>4. n \in LineEnds /\ \A l \in LineEnds : n <= l
  BY <1>2, <1>3, LeastElement
<1> QED
  BY <1>2, <1>3, <1>4 DEF EndsAt

(* Bytes that are received are the first on the wire.                      *)
LEMMA Cut ==
  ASSUME NEW w \in Texts, NEW n \in 0..Len(w)
  PROVE  /\ SubSeq(w, 1, n) \in Texts /\ SubSeq(w, n + 1, Len(w)) \in Texts
         /\ w = Join(SubSeq(w, 1, n), SubSeq(w, n + 1, Len(w)))
<1>1. w \in Seq(Bytes) /\ Len(w) \in Nat
  BY DEF Texts
<1>2. SubSeq(w, 1, n) \o SubSeq(w, n + 1, Len(w)) = SubSeq(w, 1, Len(w))
  <2>1. 1 \in 1..(Len(w) + 1) /\ n \in (1 - 1)..Len(w) /\ Len(w) \in n..Len(w)
    BY <1>1
  <2> QED BY <1>1, <2>1, ConcatAdjacentSubSeq
<1>3. SubSeq(w, 1, Len(w)) = w
  BY <1>1, SubSeqFull
<1>4. SubSeq(w, 1, n) \in Seq(Bytes) /\ SubSeq(w, n + 1, Len(w)) \in Seq(Bytes)
  BY <1>1
<1> QED
  BY <1>2, <1>3, <1>4 DEF Texts, Join

(* What _read returns was in front of the wire.                            *)
LEMMA Received ==
  ASSUME wire \in Texts, NEW chunk, Recv(chunk)
  PROVE  chunk \in Texts /\ wire' \in Texts /\ wire = Join(chunk, wire')
<1>1. CASE \E n \in 1..Len(wire) :
             chunk = SubSeq(wire, 1, n) /\ wire' = SubSeq(wire, n + 1, Len(wire))
  <2>1. PICK n \in 1..Len(wire) :
          chunk = SubSeq(wire, 1, n) /\ wire' = SubSeq(wire, n + 1, Len(wire))
    BY <1>1
  <2>2. n \in 0..Len(wire)
    BY DEF Texts
  <2> QED BY <2>1, <2>2, Cut
<1>2. CASE wire = <<>> /\ chunk = <<>> /\ UNCHANGED wire
  BY <1>2, Nothing
<1> QED
  BY <1>1, <1>2 DEF Recv

-----------------------------------------------------------------------------
(* What the call c has collected in d from the first i lines of r.         *)
Held(c, d, r, i) ==
  /\ c = "digest" => d = SubSeq(r, 1, i)
  /\ c = "segment" => Dict(d, {r[j] : j \in 1..i})

(* A call starts with nothing collected.                                   *)
LEMMA HeldAtStart ==
  \A c, r : Held(c, <<>>, r, 0)
<1> SUFFICES ASSUME NEW c, NEW r PROVE Held(c, <<>>, r, 0)
  OBVIOUS
<1>1. SubSeq(r, 1, 0) = <<>>
  BY SubSeqEmpty
<1>2. {r[j] : j \in 1..0} = {} /\ DOMAIN <<>> = {}
  OBVIOUS
<1>3. Dict(<<>>, {})
  BY <1>2 DEF Dict
<1> QED
  BY <1>1, <1>2, <1>3 DEF Held

(* Nothing collected is nothing of any reply.                              *)
LEMMA HeldNothing ==
  ASSUME NEW c, NEW d, NEW q, NEW r, Held(c, d, q, 0)
  PROVE  Held(c, d, r, 0)
<1>1. SubSeq(q, 1, 0) = SubSeq(r, 1, 0)
  BY SubSeqEmpty
<1>2. {q[j] : j \in 1..0} = {} /\ {r[j] : j \in 1..0} = {}
  OBVIOUS
<1> QED
  BY <1>1, <1>2 DEF Held

(* The line is collected.                                                  *)
LEMMA HeldNext ==
  ASSUME NEW r \in Lines, NEW i \in 0..Len(r), NEW j, j = i + 1, j \in 1..Len(r),
         call = "segment" => HasSpace(r[j]), Held(call, rst, r, i)
  PROVE  Held(call, Collected(r[j]), r, j)
<1>1. r \in Seq(Texts) /\ Len(r) \in Nat /\ r[j] \in Texts
  BY DEF Lines
<1>2. CASE call = "digest"
  <2>1. rst = SubSeq(r, 1, i)
    BY <1>2 DEF Held
  <2>2. PICK a, e : a = SubSeq(r, 1, j) /\ e = Append(rst, r[j])
    OBVIOUS
  <2>3. a \in Seq(Texts) /\ Len(a) = j /\ \A k \in 1..j : a[k] = r[k]
    BY <1>1, <2>2
  <2>4. rst \in Seq(Texts) /\ Len(rst) = i /\ \A k \in 1..i : rst[k] = r[k]
    BY <1>1, <2>1
  <2>5. e \in Seq(Texts) /\ Len(e) = j
    BY <1>1, <2>2, <2>4
  <2>6. \A k \in 1..j : e[k] = r[k]
    BY <1>1, <2>2, <2>4
  <2>7. a = e
    BY <2>3, <2>5, <2>6, SeqEqual
  <2> QED BY <1>2, <2>2, <2>7 DEF Held, Collected
<1>3. CASE call = "segment"
  <2>1. Dict(rst, {r[k] : k \in 1..i})
    BY <1>3 DEF Held
  <2>2. Dict(With(rst, Item(r[j])[1], Item(r[j])[2]), {r[k] : k \in 1..i} \cup {r[j]})
    BY <1>1, <1>3, <2>1, DictAdd
  <2>3. 1..j = (1..i) \cup {j}
    OBVIOUS
  <2>4. {r[k] : k \in 1..i} \cup {r[j]} = {r[k] : k \in 1..j}
    BY <2>3
  <2>5. Collected(r[j]) = With(rst, Item(r[j])[1], Item(r[j])[2])
    BY <1>3 DEF Collected
  <2> QED BY <1>3, <2>2, <2>4, <2>5 DEF Held
<1> QED
  BY <1>2, <1>3 DEF Held

-----------------------------------------------------------------------------
(* The types; the reply, if there is one, is a whole one.                  *)
TypeInv ==
  /\ open \in BOOLEAN /\ wire \in Texts /\ buf \in Texts
  /\ call \in Commands /\ asked \in {"none"} \cup Commands
  /\ reply = <<>> \/ GoodReply(call, reply)

(* The call has taken i lines of the reply, and bytes and the wire are     *)
(* what comes next.                                                        *)
Reading(bytes) ==
  \E i \in 0..Len(reply) : Held(call, rst, reply, i) /\ At(reply, i, bytes, wire)

(* The end of the line before is still in the buffer.                      *)
EndKept == buf # <<>> /\ Head(buf) = NL /\ Reading(Tail(buf))

(* Between two calls nothing is under way, and the last one returned what  *)
(* it should.                                                              *)
IdleInv ==
  /\ asked = "none" /\ wire = <<>> /\ buf \in {<<>>, <<NL>>}
  /\ ReturnsReply /\ SegmentItems

(* The inductive invariant: where in the reply the call is.                *)
ClientInv ==
  /\ TypeInv
  /\ asked # "none" => asked = call /\ reply = <<>>
  /\ pc = "idle" => IdleInv
  /\ pc = "first" => rst = <<>> /\ buf \in {<<>>, <<NL>>} /\ At(reply, 0, <<>>, wire)
  /\ pc = "top" => Reading(buf) \/ EndKept
  /\ pc = "find" => Reading(buf)

(* The lines of the reply, if there are any, are lines.                    *)
LEMMA ReplyIsGood ==
  TypeInv => GoodLines(reply) /\ Len(reply) \in Nat
BY NoLines, UptoType DEF TypeInv, GoodReply, GoodLines

(* A new connection.                                                       *)
LEMMA InitInv == Init => ClientInv
BY Nothing DEF Init, ClientInv, TypeInv, IdleInv, ReturnsReply, SegmentItems, Commands

(* Bytes of the wire go to the buffer.                                     *)
LEMMA ReadingMore ==
  ASSUME TypeInv, NEW b \in Texts, Reading(b), NEW chunk, Recv(chunk),
         UNCHANGED <<call, rst, reply>>
  PROVE  Reading(Join(b, chunk))'
<1>1. chunk \in Texts /\ wire' \in Texts /\ wire = Join(chunk, wire')
  BY Received DEF TypeInv
<1>2. PICK i \in 0..Len(reply) : Held(call, rst, reply, i) /\ At(reply, i, b, wire)
  BY DEF Reading
<1>3. Upto(reply)[i] \in Texts
  BY ReplyIsGood, UptoType DEF GoodLines
<1>4. At(reply, i, Join(b, chunk), wire')
  BY <1>1, <1>2, <1>3, AtMove
<1> QED
  BY <1>2, <1>4 DEF Reading

(* A call sends its command; of its reply there is nothing yet.            *)
LEMMA CallInv ==
  ASSUME ClientInv, NEW c \in Commands, Call(c)
  PROVE  ClientInv'
<1>1. At(<<>>, 0, <<>>, <<>>)
  <2>1. 0 \in 0..Len(<<>>)
    OBVIOUS
  <2> QED BY <2>1, NoLines, Nothing
<1> QED
  BY <1>1 DEF ClientInv, TypeInv, IdleInv, Call

(* Nothing of the reply was expected before it is sent.                    *)
LEMMA BeforeReply ==
  ASSUME TypeInv, reply = <<>>, NEW b \in Texts, Reading(b)
  PROVE  b = <<>> /\ wire = <<>> /\ Held(call, rst, <<>>, 0)
<1>1. PICK i \in 0..Len(<<>>) : Held(call, rst, <<>>, i) /\ At(<<>>, i, b, wire)
  BY DEF Reading
<1>2. i = 0
  OBVIOUS
<1>3. b = <<>> /\ wire = <<>>
  BY <1>1, NoLines DEF TypeInv
<1> QED
  BY <1>1, <1>2, <1>3

(* The console answers when nothing is left of what it sent before.        *)
LEMMA AnswerInv ==
  ASSUME ClientInv, Answer
  PROVE  ClientInv'
<1>1. /\ TypeInv /\ asked # "none" /\ asked = call /\ reply = <<>> /\ pc # "idle"
      /\ wire \in Texts /\ buf \in Texts /\ call \in Commands
  BY DEF ClientInv, TypeInv, IdleInv, Answer
<1>2. GoodReply(call, reply') /\ reply' \in Lines /\ 0 \in 0..Len(reply')
  <2>1. GoodReply(call, reply')
    BY <1>1, AnswersGood DEF Answer
  <2>2. reply' \in Lines
    BY <2>1 DEF GoodReply, GoodLines
  <2> QED BY <2>1, <2>2, UptoType
<1>3. Sent(reply') \in Texts /\ At(reply', 0, <<>>, Sent(reply'))
  BY <1>2, UptoType, AtStart
<1>4. /\ wire' = Join(wire, Sent(reply')) /\ asked' = "none"
      /\ UNCHANGED <<pc, open, call, buf, rst>>
  BY DEF Answer, client, Join
<1>5. wire' \in Texts
  BY <1>1, <1>3, <1>4, Joined
<1>6. TypeInv'
  BY <1>1, <1>2, <1>4, <1>5 DEF TypeInv
<1>7. ASSUME NEW b \in Texts, Reading(b) PROVE Reading(b)'
  <2>1. b = <<>> /\ wire = <<>> /\ Held(call, rst, <<>>, 0)
    BY <1>1, <1>7, BeforeReply
  <2>2. wire' = Sent(reply')
    BY <1>3, <1>4, <2>1, Nothing
  <2>3. Held(call, rst, reply', 0)
    BY <2>1, HeldNothing
  <2> QED BY <1>2, <1>3, <1>4, <2>1, <2>2, <2>3 DEF Reading
<1>8. pc = "first" => At(reply, 0, <<>>, wire)' /\ (rst = <<>> /\ buf \in {<<>>, <<NL>>})'
  <2> SUFFICES ASSUME pc = "first"
               PROVE  At(reply', 0, <<>>, wire') /\ rst = <<>> /\ buf \in {<<>>, <<NL>>}
    BY <1>4
  <2>1. rst = <<>> /\ buf \in {<<>>, <<NL>>} /\ At(<<>>, 0, <<>>, wire)
    BY <1>1 DEF ClientInv
  <2>2. wire = <<>>
    <3>1. 0 \in 0..Len(<<>>)
      OBVIOUS
    <3> QED BY <1>1, <2>1, <3>1, NoLines, Nothing
  <2>3. wire' = Sent(reply')
    BY <1>3, <1>4, <2>2, Nothing
  <2> QED BY <1>3, <2>1, <2>3
<1>9. EndKept => Tail(buf) \in Texts
  BY <1>1 DEF EndKept, Texts
<1>10. EndKept => EndKept'
  BY <1>4, <1>7, <1>9 DEF EndKept
<1> QED
  BY <1>1, <1>4, <1>6, <1>7, <1>8, <1>10 DEF ClientInv

(* A part of the wire is lost.                                             *)
LEMMA LoseInv ==
  ASSUME ClientInv, Lose
  PROVE  ClientInv'
<1>1. /\ TypeInv /\ wire \in Texts /\ buf \in Texts
      /\ UNCHANGED <<asked, reply, pc, call, buf, rst>> /\ open' = FALSE
  BY DEF ClientInv, TypeInv, Lose, client
<1>2. PICK n \in 0..Len(wire) : wire' = SubSeq(wire, 1, n)
  BY DEF Lose
<1>3. PICK c : c = SubSeq(wire, n + 1, Len(wire))
  OBVIOUS
<1>4. wire' \in Texts /\ c \in Texts /\ wire = Join(wire', c)
  BY <1>1, <1>2, <1>3, Cut
<1>5. TypeInv'
  BY <1>1, <1>4 DEF TypeInv
<1>6. ASSUME NEW b \in Texts, NEW i, At(reply, i, b, wire) PROVE At(reply, i, b, wire)'
  BY <1>1, <1>4, <1>6, AtLess
<1>7. ASSUME NEW b \in Texts, Reading(b) PROVE Reading(b)'
  BY <1>1, <1>6, <1>7 DEF Reading
<1>8. EndKept => Tail(buf) \in Texts
  BY <1>1 DEF EndKept, Texts
<1>9. EndKept => EndKept'
  BY <1>1, <1>7, <1>8 DEF EndKept
<1>10. wire = <<>> => wire' = <<>>
  BY <1>4, Nothing
<1>11. IdleInv => IdleInv'
  BY <1>1, <1>10 DEF IdleInv, ReturnsReply, SegmentItems, Body
<1> QED
  BY <1>1, <1>5, <1>6, <1>7, <1>9, <1>11, Nothing DEF ClientInv

(* An empty buffer is filled; one that holds the end of a line is not.     *)
LEMMA FirstInv ==
  ASSUME ClientInv, First
  PROVE  ClientInv'
<1>1. /\ TypeInv /\ wire \in Texts /\ rst = <<>> /\ buf \in {<<>>, <<NL>>}
      /\ At(reply, 0, <<>>, wire) /\ UNCHANGED <<open, asked, reply, call, rst>> /\ pc' = "top"
  BY DEF ClientInv, TypeInv, First
<1>2. Reading(<<>>)
  <2>1. 0 \in 0..Len(reply)
    BY <1>1, ReplyIsGood
  <2> QED BY <1>1, <2>1, HeldAtStart DEF Reading
<1>3. CASE buf = <<>> /\ \E chunk \in Chunks : Recv(chunk) /\ buf' = chunk
  <2>1. PICK chunk : Recv(chunk) /\ buf' = chunk
    BY <1>3
  <2>2. chunk \in Texts /\ wire' \in Texts
    BY <1>1, <2>1, Received
  <2>3. Reading(Join(<<>>, chunk))'
    BY <1>1, <1>2, <2>1, Nothing, ReadingMore
  <2>4. Join(<<>>, chunk) = buf'
    BY <2>1, <2>2, Nothing
  <2>5. Reading(buf)'
    BY <2>3, <2>4, <2>1
  <2> QED BY <1>1, <2>1, <2>2, <2>5 DEF ClientInv, TypeInv
<1>4. CASE buf # <<>> /\ UNCHANGED <<buf, wire>>
  <2>1. buf = <<NL>>
    BY <1>1, <1>4
  <2>2. Head(<<NL>>) = NL /\ Tail(<<NL>>) = <<>>
    <3>1. \A x : Head(<<x>>) = x /\ Tail(<<x>>) = <<>>
      OBVIOUS
    <3> QED BY <3>1
  <2>3. EndKept
    BY <1>2, <1>4, <2>1, <2>2 DEF EndKept
  <2>4. EndKept'
    BY <1>1, <1>4, <2>3 DEF EndKept, Reading
  <2> QED BY <1>1, <1>4, <2>4 DEF ClientInv, TypeInv
<1> QED
  BY <1>3, <1>4 DEF First

(* The end of the line before is dropped, and nothing but that: no line is *)
(* empty.                                                                  *)
LEMMA TopInv ==
  ASSUME ClientInv, Top
  PROVE  ClientInv'
<1>1. /\ TypeInv /\ wire \in Texts /\ buf \in Texts /\ buf # <<>>
      /\ Reading(buf) \/ EndKept
      /\ UNCHANGED <<open, asked, reply, call, rst>> /\ pc' = "find"
  BY DEF ClientInv, TypeInv, Top
<1>2. CASE EndKept
  <2>1. Head(buf) = NL /\ Reading(Tail(buf)) /\ Tail(buf) \in Texts
    BY <1>1, <1>2 DEF EndKept, Texts
  <2>2. CASE buf = <<NL>>
    <3>1. PICK chunk : Recv(chunk) /\ buf' = chunk
      BY <2>2 DEF Top
    <3>2. chunk \in Texts /\ wire' \in Texts
      BY <1>1, <3>1, Received
    <3>3. Tail(buf) = <<>>
      BY <2>2
    <3>4. Reading(Join(<<>>, chunk))'
      BY <1>1, <2>1, <3>1, <3>3, Nothing, ReadingMore
    <3>5. Join(<<>>, chunk) = buf'
      BY <3>1, <3>2, Nothing
    <3>6. Reading(buf)'
      BY <3>1, <3>4, <3>5
    <3> QED BY <1>1, <3>1, <3>2, <3>6 DEF ClientInv, TypeInv
  <2>3. CASE buf # <<NL>>
    <3>1. buf' = Tail(buf) /\ UNCHANGED wire
      BY <2>1, <2>3 DEF Top
    <3>2. Reading(buf)'
      BY <1>1, <2>1, <3>1 DEF Reading
    <3> QED BY <1>1, <2>1, <3>1, <3>2 DEF ClientInv, TypeInv
  <2> QED BY <2>2, <2>3
<1>3. CASE Reading(buf)
  <2>1. PICK i \in 0..Len(reply) : At(reply, i, buf, wire)
    BY <1>3 DEF Reading
  <2>2. Head(buf) # NL
    BY <1>1, <2>1, ReplyIsGood, NoEndAhead
  <2>3. buf # <<NL>>
    BY <2>2
  <2>4. UNCHANGED <<buf, wire>>
    BY <2>2, <2>3 DEF Top
  <2>5. Reading(buf)'
    BY <1>1, <1>3, <2>4 DEF Reading
  <2> QED BY <1>1, <2>4, <2>5 DEF ClientInv, TypeInv
<1> QED
  BY <1>1, <1>2, <1>3

(* More bytes are read behind those in the buffer.                         *)
LEMMA MoreInv ==
  ASSUME ClientInv, More
  PROVE  ClientInv'
<1>1. /\ TypeInv /\ wire \in Texts /\ buf \in Texts /\ Reading(buf)
      /\ UNCHANGED <<open, asked, reply, call, rst>> /\ pc' = "top"
  BY DEF ClientInv, TypeInv, More
<1>2. PICK chunk, b : Recv(chunk) /\ b = buf /\ buf' = Join(b, chunk)
  BY DEF More, Join
<1>3. chunk \in Texts /\ wire' \in Texts /\ buf' \in Texts
  BY <1>1, <1>2, Received, Joined
<1>4. b \in Texts /\ Reading(b)
  BY <1>1, <1>2
<1>5. Reading(Join(b, chunk))'
  BY <1>1, <1>2, <1>4, ReadingMore
<1>6. Reading(buf)'
  BY <1>2, <1>5
<1> QED
  BY <1>1, <1>3, <1>6 DEF ClientInv, TypeInv

(* The lines before the last are the body of a reply that is acked.        *)
LEMMA BodyIs ==
  ASSUME reply \in Lines, NEW j, j = Len(reply), j >= 1, reply[j] = Ack
  PROVE  /\ Body = SubSeq(reply, 1, j - 1)
         /\ ToSet(Body) = {reply[k] : k \in 1..(j - 1)}
<1>1. reply \in Seq(Texts) /\ Len(reply) \in Nat
  BY DEF Lines
<1>2. Last(reply) = Ack
  BY DEF Last
<1>3. Body = Front(reply)
  BY <1>2, EndLines DEF Body
<1>4. Front(reply) = SubSeq(reply, 1, j - 1)
  BY DEF Front
<1>5. PICK f : f = SubSeq(reply, 1, j - 1)
  OBVIOUS
<1>6. f \in Seq(Texts) /\ Len(f) = j - 1 /\ \A k \in 1..(j - 1) : f[k] = reply[k]
  BY <1>1, <1>5
<1>7. ToSet(f) = {reply[k] : k \in 1..(j - 1)}
  BY <1>6 DEF ToSet
<1> QED
  BY <1>3, <1>4, <1>5, <1>7

(* A line is read: the last of the reply ends the call, any other is       *)
(* collected.                                                              *)
LEMMA LineInv ==
  ASSUME ClientInv, Line
  PROVE  ClientInv'
<1>1. /\ TypeInv /\ wire \in Texts /\ buf \in Texts /\ Reading(buf) /\ call \in Commands
      /\ UNCHANGED <<open, wire, asked, reply, call>>
  BY DEF ClientInv, TypeInv, Line, stream
<1>2. PICK n, line :
        /\ n = CHOOSE m \in LineEnds : \A l \in LineEnds : m <= l
        /\ line = SubSeq(buf, 1, n - 1)
        /\ buf' = Rest(n)
        /\ \/ line = Ack /\ pc' = "idle" /\ rst' = rst
           \/ line = Nack /\ pc' = "idle" /\ rst' = <<>>
           \/ line \notin {Ack, Nack} /\ pc' = "top" /\ rst' = Collected(line)
  BY DEF Line
<1>3. EndsAt(buf, n)
  BY <1>1, <1>2, FirstEnd DEF Line
<1>4. PICK i \in 0..Len(reply) : Held(call, rst, reply, i) /\ At(reply, i, buf, wire)
  BY <1>1 DEF Reading
<1>5. PICK j, rest : j = i + 1 /\ rest = SubSeq(buf, n + 1, Len(buf))
  OBVIOUS
<1>6. GoodLines(reply) /\ Len(reply) \in Nat
  BY <1>1, ReplyIsGood
<1>7. j \in 1..Len(reply) /\ line = reply[j] /\ rest \in Texts /\ At(reply, j, rest, wire)
  BY <1>1, <1>2, <1>3, <1>4, <1>5, <1>6, LineAt
<1>8. /\ buf' \in Texts /\ buf' # <<>> /\ Head(buf') = NL /\ Tail(buf') = rest
      /\ rest = <<>> => buf' = <<NL>>
  <2> PICK b : b = buf
    OBVIOUS
  <2>1. /\ b \in Texts /\ EndsAt(b, n)
        /\ buf' = SubSeq(b, n, Len(b)) /\ rest = SubSeq(b, n + 1, Len(b))
    BY <1>1, <1>2, <1>3, <1>5 DEF Rest
  <2> QED BY <2>1, RestIs
<1>9. reply # <<>> /\ GoodReply(call, reply) /\ asked = "none"
  <2>1. reply # <<>>
    BY <1>6, <1>7
  <2> QED BY <1>1, <2>1 DEF TypeInv, ClientInv
<1>10. TypeInv'
  BY <1>1, <1>8 DEF TypeInv
<1>11. CASE line \in {Ack, Nack}
  <2>1. j = Len(reply)
    <3>1. j \notin 1..(Len(reply) - 1)
      BY <1>7, <1>9, <1>11 DEF GoodReply
    <3> QED BY <3>1, <1>6, <1>7
  <2>2. rest = <<>> /\ wire = <<>>
    BY <1>1, <1>6, <1>7, <2>1, AllRead
  <2>3. pc' = "idle" /\ buf' = <<NL>> /\ wire' = <<>>
    BY <1>1, <1>2, <1>8, <1>11, <2>2
  <2>4. /\ Body' = Body
        /\ call = "digest" => rst' = Body
        /\ call = "segment" => Dict(rst', ToSet(Body))
    <3>1. Body' = Body
      BY <1>1 DEF Body
    <3>2. CASE line = Ack
      <4>1. rst' = rst
        BY <1>2, <3>2, EndLines
      <4>2. Body = SubSeq(reply, 1, i) /\ ToSet(Body) = {reply[k] : k \in 1..i}
        <5>1. j - 1 = i /\ j >= 1
          BY <1>5, <1>6, <1>7
        <5>2. Body = SubSeq(reply, 1, j - 1) /\ ToSet(Body) = {reply[k] : k \in 1..(j - 1)}
          BY <1>6, <1>7, <2>1, <3>2, <5>1, BodyIs DEF GoodLines
        <5> QED BY <5>1, <5>2
      <4> QED BY <1>4, <3>1, <4>1, <4>2 DEF Held
    <3>3. CASE line = Nack
      <4>1. rst' = <<>>
        BY <1>2, <3>3, EndLines
      <4>2. Body = <<>>
        BY <1>7, <2>1, <3>3 DEF Body, Last
      <4>3. ToSet(<<>>) = {} /\ DOMAIN <<>> = {}
        BY DEF ToSet
      <4>4. Dict(<<>>, {})
        BY <4>3 DEF Dict
      <4> QED BY <3>1, <4>1, <4>2, <4>3, <4>4
    <3> QED BY <1>11, <3>2, <3>3
  <2>5. ReturnsReply'
    BY <1>1, <2>3, <2>4 DEF ReturnsReply
  <2>6. SegmentItems'
    BY <1>1, <2>4 DEF SegmentItems, Dict
  <2>7. IdleInv'
    BY <1>1, <1>9, <2>3, <2>5, <2>6 DEF IdleInv
  <2> QED
    BY <1>1, <1>9, <1>10, <2>3, <2>7 DEF ClientInv
<1>12. CASE line \notin {Ack, Nack}
  <2>1. pc' = "top" /\ rst' = Collected(line)
    BY <1>2, <1>12
  <2>2. j \in 1..(Len(reply) - 1)
    <3>1. j # Len(reply)
      BY <1>7, <1>9, <1>12 DEF GoodReply
    <3> QED BY <3>1, <1>6, <1>7
  <2>3. call = "segment" => HasSpace(reply[j])
    BY <1>9, <2>2 DEF GoodReply
  <2>4. Held(call, Collected(reply[j]), reply, j)
    BY <1>4, <1>5, <1>6, <1>7, <2>3, HeldNext DEF GoodLines
  <2>5. j \in 0..Len(reply)
    BY <1>7
  <2>6. /\ Held(call, rst', reply, j) /\ At(reply, j, rest, wire)
    BY <1>7, <2>1, <2>4
  <2>7. Reading(rest)'
    BY <1>1, <2>5, <2>6 DEF Reading
  <2>8. Reading(Tail(buf))'
    BY <1>8, <2>7
  <2>9. EndKept'
    BY <1>8, <2>8 DEF EndKept
  <2> QED
    BY <1>1, <1>9, <1>10, <2>1, <2>9 DEF ClientInv
<1> QED
  BY <1>11, <1>12

(* Nothing moves in a failed call, and in a step that changes nothing.     *)
LEMMA StillInv ==
  ASSUME ClientInv, UNCHANGED vars
  PROVE  ClientInv'
BY DEF vars, stream, client, ClientInv, TypeInv, IdleInv, ReturnsReply, SegmentItems, Body,
       Reading, EndKept

(* The exception of an empty buffer ends the client, and nothing else      *)
(* changes.                                                                *)
LEMMA TopFailsInv ==
  ASSUME ClientInv, TopFails
  PROVE  ClientInv'
BY DEF TopFails, stream, ClientInv, TypeInv

(* Every step keeps the invariant.                                         *)
LEMMA StepInv == ClientInv /\ [Next]_vars => ClientInv'
<1> SUFFICES ASSUME ClientInv, [Next]_vars PROVE ClientInv'
  OBVIOUS
<1>1. ASSUME NEW c \in {"digest", "segment", "update"}, Call(c) PROVE ClientInv'
  BY <1>1, CallInv DEF Commands
<1>2. CASE Answer
  BY <1>2, AnswerInv
<1>3. CASE Lose
  BY <1>3, LoseInv
<1>4. CASE First
  BY <1>4, FirstInv
<1>5. CASE Top
  BY <1>5, TopInv
<1>6. CASE TopFails
  BY <1>6, TopFailsInv
<1>7. CASE More
  BY <1>7, MoreInv
<1>8. CASE Line
  BY <1>8, LineInv
<1>9. CASE UNCHANGED vars
  BY <1>9, StillInv
<1> QED
  BY <1>1, <1>2, <1>3, <1>4, <1>5, <1>6, <1>7, <1>8, <1>9 DEF Next, ClientStep, Failed

(* The invariant, from which the two theorems follow.                      *)
THEOREM ClientInvHolds == Spec => []ClientInv
<1> QED
  BY InitInv, StepInv, PTL DEF Spec

(* A call of the console client that returns has read the whole of its own *)
(* reply and nothing else, however the stream was cut (nodecmp:20-35).     *)
THEOREM CallsReturnReplies == Spec => []ReturnsReply
<1>1. ClientInv => ReturnsReply
  BY DEF ClientInv, IdleInv, ReturnsReply
<1> QED
  BY <1>1, ClientInvHolds, PTL

(* get_segment returns an item for each row, except that rows whose keys   *)
(* start alike become one (nodecmp:51-57).                                 *)
THEOREM SegmentsAreItems == Spec => []SegmentItems
<1>1. ClientInv => SegmentItems
  BY DEF ClientInv, IdleInv, SegmentItems
<1> QED
  BY <1>1, ClientInvHolds, PTL
=================================================================================
