----------------------------- MODULE MsgQueueProofs -----------------------------
(***************************************************************************)
(* MsgQueue for any players and any number of requests.                    *)
(*                                                                         *)
(* Line is every request that is handled, copied or fresh, in that order.  *)
(* The steps of CopyRecvMsg and of Update move requests along it without   *)
(* changing it; a push adds one at its end; the loop that clears the queue *)
(* takes one out of it, the first fresh one. Order and number are          *)
(* therefore stated over Line, and hold for handled as it is a prefix.     *)
(***************************************************************************)
EXTENDS MsgQueue, FiniteSetTheorems, SequenceTheorems, TLAPS

Transit == copiedRecvMsgs \o Fresh
Line == handled \o Transit

(* Sequence q without its i-th element. *)
Without(q, i) ==
    [j \in 1..(Len(q) - 1) |-> IF j < i THEN q[j] ELSE q[j + 1]]

(* In q the requests of each player are in the order of their numbers. *)
InOrder(q) ==
    \A i, j \in DOMAIN q : i < j /\ q[i].id = q[j].id => q[i].no < q[j].no

(* The copy is worked off before the next one is taken; only while the     *)
(* queue is being cleared does it hold what has been copied.               *)
QueueInv ==
    /\ pc = "waiting" => copiedRecvMsgs = <<>>
    /\ pc # "clear" => stale = 0

(* A player's requests are pushed without gaps. *)
PushedInv ==
    /\ IsFiniteSet(pushed) /\ IsFiniteSet(lost)
    /\ \A m \in pushed : \A k \in 1..(m.no - 1) : [m EXCEPT !.no = k] \in pushed

LineInv ==
    /\ InOrder(Line)
    /\ pushed = Elements(Line) \cup lost
    /\ Elements(Line) \cap lost = {}
    /\ Cardinality(pushed) = Len(Line) + Cardinality(lost)

IInv == TypeOK /\ QueueInv /\ PushedInv /\ LineInv

-----------------------------------------------------------------------------
(* Sequences. *)

LEMMA ConcatAppend ==
    ASSUME NEW S, NEW q \in Seq(S), NEW r \in Seq(S), NEW e \in S
    PROVE  q \o Append(r, e) = Append(q \o r, e)
<1>1. <<e>> \in Seq(S) /\ q \o r \in Seq(S)
  BY ConcatProperties
<1>2. Append(r, e) = r \o <<e>> /\ Append(q \o r, e) = (q \o r) \o <<e>>
  BY <1>1, AppendIsConcat
<1> QED
  BY <1>1, <1>2, ConcatAssociative

LEMMA ConcatHead ==
    ASSUME NEW S, NEW q \in Seq(S), NEW r \in Seq(S), r # <<>>
    PROVE  Append(q, Head(r)) \o Tail(r) = q \o r
<1>1. Head(r) \in S /\ Tail(r) \in Seq(S) /\ <<Head(r)>> \in Seq(S)
  BY HeadTailProperties
<1>2. Append(q, Head(r)) = q \o <<Head(r)>>
  BY <1>1, AppendIsConcat
<1>3. <<Head(r)>> \o Tail(r) = r
  <2>1. Len(Tail(r)) = Len(r) - 1 /\ \A i \in 1..Len(Tail(r)) : Tail(r)[i] = r[i + 1]
    BY HeadTailProperties
  <2>2. Len(r) \in Nat \ {0} /\ Head(r) = r[1]
    BY EmptySeq
  <2>3. <<Head(r)>> \o Tail(r) \in Seq(S) /\ Len(<<Head(r)>> \o Tail(r)) = Len(r)
    BY <1>1, <2>1, <2>2, ConcatProperties
  <2>4. ASSUME NEW i \in 1..Len(r) PROVE (<<Head(r)>> \o Tail(r))[i] = r[i]
    <3>1. Len(<<Head(r)>>) = 1 /\ <<Head(r)>>[1] = Head(r)
      OBVIOUS
    <3>2. (<<Head(r)>> \o Tail(r))[i] = IF i <= 1 THEN <<Head(r)>>[i] ELSE Tail(r)[i - 1]
      BY <1>1, <2>1, <2>2, <3>1, ConcatProperties
    <3> QED
      BY <2>1, <2>2, <3>1, <3>2
  <2> QED
    BY <2>3, <2>4, SeqEqual
<1> QED
  BY <1>1, <1>2, <1>3, ConcatAssociative

LEMMA HeadTailConcat ==
    ASSUME NEW S, NEW q \in Seq(S), NEW r \in Seq(S), q # <<>>
    PROVE  /\ q \o r # <<>>
           /\ Head(q \o r) = Head(q)
           /\ Tail(q \o r) = Tail(q) \o r
<1>1. /\ q \o r \in Seq(S) /\ Len(q \o r) = Len(q) + Len(r)
      /\ \A i \in 1..Len(q) + Len(r) :
           (q \o r)[i] = IF i <= Len(q) THEN q[i] ELSE r[i - Len(q)]
  BY ConcatProperties
<1>2. Len(q) \in Nat \ {0} /\ Len(r) \in Nat
  BY EmptySeq, LenProperties
<1>3. q \o r # <<>>
  BY <1>1, <1>2, EmptySeq
<1>4. Head(q \o r) = Head(q)
  <2>1. Head(q \o r) = (q \o r)[1] /\ Head(q) = q[1]
    BY <1>1, <1>3
  <2> QED
    BY <1>1, <1>2, <2>1
<1>5. /\ Tail(q) \in Seq(S) /\ Len(Tail(q)) = Len(q) - 1
      /\ \A i \in 1..Len(Tail(q)) : Tail(q)[i] = q[i + 1]
  BY HeadTailProperties
<1>6. /\ Tail(q \o r) \in Seq(S) /\ Len(Tail(q \o r)) = Len(q) + Len(r) - 1
      /\ \A i \in 1..Len(Tail(q \o r)) : Tail(q \o r)[i] = (q \o r)[i + 1]
  BY <1>1, <1>3, HeadTailProperties
<1>7. /\ Tail(q) \o r \in Seq(S) /\ Len(Tail(q) \o r) = Len(q) - 1 + Len(r)
      /\ \A i \in 1..(Len(q) - 1 + Len(r)) :
           (Tail(q) \o r)[i] = IF i <= Len(q) - 1 THEN Tail(q)[i] ELSE r[i - (Len(q) - 1)]
  BY <1>5, ConcatProperties
<1>8. ASSUME NEW i \in 1..Len(Tail(q \o r)) PROVE Tail(q \o r)[i] = (Tail(q) \o r)[i]
  BY <1>1, <1>2, <1>5, <1>6, <1>7
<1>9. Len(Tail(q \o r)) = Len(Tail(q) \o r)
  BY <1>2, <1>6, <1>7
<1>10. Tail(q \o r) = Tail(q) \o r
  BY <1>6, <1>7, <1>8, <1>9, SeqEqual
<1> QED
  BY <1>3, <1>4, <1>10

LEMMA WithoutProperties ==
    ASSUME NEW S, NEW q \in Seq(S), NEW i \in 1..Len(q)
    PROVE  /\ Without(q, i) \in Seq(S)
           /\ Len(Without(q, i)) = Len(q) - 1
           /\ \A j \in 1..(Len(q) - 1) :
                Without(q, i)[j] = IF j < i THEN q[j] ELSE q[j + 1]
<1>1. Len(q) - 1 \in Nat /\ Len(q) \in Nat
  BY LenProperties
<1>2. \A j \in 1..(Len(q) - 1) : (IF j < i THEN q[j] ELSE q[j + 1]) \in S
  BY <1>1, ElementOfSeq
<1>3. Without(q, i) \in [1..(Len(q) - 1) -> S]
  BY <1>2 DEF Without
<1>4. Without(q, i) \in Seq(S)
  BY <1>1, <1>3, SeqDef
<1>5. Len(Without(q, i)) = Len(q) - 1
  BY <1>1, <1>3, <1>4, LenProperties
<1> QED
  BY <1>4, <1>5 DEF Without

LEMMA ConcatWithout ==
    ASSUME NEW S, NEW q \in Seq(S), NEW r \in Seq(S), NEW i \in 1..Len(r)
    PROVE  /\ Len(q) + i \in 1..Len(q \o r)
           /\ q \o Without(r, i) = Without(q \o r, Len(q) + i)
           /\ (q \o r)[Len(q) + i] = r[i]
<1>1. Len(q) \in Nat /\ Len(r) \in Nat
  BY LenProperties
<1>2. /\ q \o r \in Seq(S) /\ Len(q \o r) = Len(q) + Len(r)
      /\ \A j \in 1..(Len(q) + Len(r)) :
           (q \o r)[j] = IF j <= Len(q) THEN q[j] ELSE r[j - Len(q)]
  BY ConcatProperties
<1>3. Len(q) + i \in 1..Len(q \o r)
  BY <1>1, <1>2
<1> DEFINE u == Without(r, i)
           v == Without(q \o r, Len(q) + i)
<1>4. /\ u \in Seq(S) /\ Len(u) = Len(r) - 1
      /\ \A j \in 1..(Len(r) - 1) : u[j] = IF j < i THEN r[j] ELSE r[j + 1]
  BY WithoutProperties
<1>5. /\ v \in Seq(S) /\ Len(v) = Len(q \o r) - 1
      /\ \A j \in 1..(Len(q \o r) - 1) :
           v[j] = IF j < Len(q) + i THEN (q \o r)[j] ELSE (q \o r)[j + 1]
  BY <1>2, <1>3, WithoutProperties
<1> HIDE DEF u, v
<1>6. /\ q \o u \in Seq(S) /\ Len(q \o u) = Len(q) + Len(u)
      /\ \A j \in 1..(Len(q) + Len(u)) :
           (q \o u)[j] = IF j <= Len(q) THEN q[j] ELSE u[j - Len(q)]
  BY <1>4, ConcatProperties
<1>7. Len(q \o u) = Len(v)
  BY <1>1, <1>2, <1>4, <1>5, <1>6
<1>8. ASSUME NEW j \in 1..Len(q \o u) PROVE (q \o u)[j] = v[j]
  <2>1. /\ j \in 1..(Len(q \o r) - 1) /\ j \in 1..(Len(q) + Len(u))
        /\ j \in 1..(Len(q) + Len(r)) /\ j + 1 \in 1..(Len(q) + Len(r))
    BY <1>1, <1>2, <1>4, <1>6
  <2>2. CASE j <= Len(q)
    BY <1>1, <1>2, <1>5, <1>6, <2>1, <2>2
  <2>3. CASE ~(j <= Len(q))
    <3>1. /\ j - Len(q) \in 1..(Len(r) - 1)
          /\ ~(j + 1 <= Len(q)) /\ (j + 1) - Len(q) = (j - Len(q)) + 1
          /\ j - Len(q) < i <=> j < Len(q) + i
      BY <1>1, <1>4, <1>6, <2>3
    <3>2. (q \o u)[j] = u[j - Len(q)]
      BY <1>6, <2>1, <2>3
    <3>3. u[j - Len(q)] = IF j < Len(q) + i THEN r[j - Len(q)] ELSE r[(j - Len(q)) + 1]
      BY <1>4, <3>1
    <3>4. (q \o r)[j] = r[j - Len(q)] /\ (q \o r)[j + 1] = r[(j - Len(q)) + 1]
      BY <1>2, <2>1, <2>3, <3>1
    <3> QED
      BY <1>5, <2>1, <3>2, <3>3, <3>4
  <2> QED
    BY <2>2, <2>3
<1>9. q \o u = v
  BY <1>5, <1>6, <1>7, <1>8, SeqEqual
<1>10. (q \o r)[Len(q) + i] = r[i]
  BY <1>1, <1>2
<1> QED
  BY <1>3, <1>9, <1>10 DEF u, v

-----------------------------------------------------------------------------
(* Sequences of requests. *)

(* Adding a request that comes after those of its player. *)
LEMMA AppendInOrder ==
    ASSUME NEW q \in Seq(Messages), NEW m \in Messages, InOrder(q),
           \A i \in 1..Len(q) : q[i].id = m.id => q[i].no < m.no
    PROVE  InOrder(Append(q, m)) /\ Elements(Append(q, m)) = Elements(q) \cup {m}
<1>1. /\ Len(q) \in Nat /\ DOMAIN q = 1..Len(q)
      /\ DOMAIN Append(q, m) = 1..(Len(q) + 1)
      /\ \A i \in 1..Len(q) : Append(q, m)[i] = q[i]
      /\ Append(q, m)[Len(q) + 1] = m
  BY AppendProperties, LenProperties
<1> DEFINE a == Append(q, m)
<1>2. ASSUME NEW i \in DOMAIN a, NEW j \in DOMAIN a, i < j, a[i].id = a[j].id
      PROVE  a[i].no < a[j].no
  <2>1. i \in 1..Len(q) /\ a[i] = q[i]
    BY <1>1, <1>2
  <2>2. CASE j = Len(q) + 1
    BY <1>1, <1>2, <2>1, <2>2
  <2>3. CASE j \in 1..Len(q)
    BY <1>1, <1>2, <2>1, <2>3 DEF InOrder
  <2> QED
    BY <1>1, <2>2, <2>3
<1>3. Elements(a) = Elements(q) \cup {m}
  <2> HIDE DEF a
  <2>1. DOMAIN a = 1..(Len(q) + 1) /\ (\A i \in 1..Len(q) : a[i] = q[i])
        /\ a[Len(q) + 1] = m
    BY <1>1 DEF a
  <2>2. Elements(a) \subseteq Elements(q) \cup {m}
    BY <1>1, <2>1 DEF Elements
  <2>3. \A i \in DOMAIN q : i \in DOMAIN a /\ a[i] = q[i]
    BY <1>1, <2>1
  <2>4. Len(q) + 1 \in DOMAIN a
    BY <1>1, <2>1
  <2> QED
    BY <2>1, <2>2, <2>3, <2>4 DEF Elements
<1> QED
  BY <1>2, <1>3 DEF InOrder

(* Taking one out: it is gone, as it was there only once. *)
LEMMA WithoutInOrder ==
    ASSUME NEW q \in Seq(Messages), NEW i \in 1..Len(q), InOrder(q)
    PROVE  /\ InOrder(Without(q, i))
           /\ Elements(q) = Elements(Without(q, i)) \cup {q[i]}
           /\ q[i] \notin Elements(Without(q, i))
<1> DEFINE w == Without(q, i)
           Was(j) == IF j < i THEN j ELSE j + 1
<1>1. /\ Len(q) \in Nat /\ DOMAIN q = 1..Len(q) /\ i \in 1..Len(q)
      /\ \A j \in DOMAIN q : q[j].no \in Int
  <2>1. Len(q) \in Nat /\ DOMAIN q = 1..Len(q)
    BY LenProperties
  <2>2. \A j \in DOMAIN q : q[j] \in Messages
    BY <2>1, ElementOfSeq
  <2>3. \A m \in Messages : m.no \in Int
    BY MsgQueueAssumption DEF Messages
  <2> QED
    BY <2>1, <2>2, <2>3
<1>2. DOMAIN w = 1..(Len(q) - 1) /\ \A j \in DOMAIN w : w[j] = q[Was(j)]
  BY ZenonT(60), WithoutProperties, LenProperties
<1> HIDE DEF w
<1>3. /\ \A j \in DOMAIN w : Was(j) \in DOMAIN q /\ Was(j) # i
      /\ \A j, k \in DOMAIN w : j < k => Was(j) < Was(k)
  BY <1>1, <1>2
<1>4. \A k \in DOMAIN q : k # i => \E j \in DOMAIN w : Was(j) = k
  <2> SUFFICES ASSUME NEW k \in DOMAIN q, k # i
               PROVE  \E j \in DOMAIN w : Was(j) = k
    OBVIOUS
  <2>1. CASE k < i
    <3>1. k \in DOMAIN w /\ Was(k) = k
      BY <1>1, <1>2, <2>1
    <3> QED
      BY <3>1
  <2>2. CASE k > i
    <3>1. k - 1 \in DOMAIN w /\ Was(k - 1) = k
      BY <1>1, <1>2, <2>2
    <3> QED
      BY <3>1
  <2> QED
    BY <1>1, <2>1, <2>2
<1>5. \A k \in DOMAIN q : k # i => q[k] # q[i]
  BY <1>1 DEF InOrder
<1>6. InOrder(w)
  BY <1>2, <1>3 DEF InOrder
<1>7. Elements(w) \subseteq Elements(q) /\ q[i] \in Elements(q)
  BY <1>1, <1>2, <1>3 DEF Elements
<1>8. Elements(q) \subseteq Elements(w) \cup {q[i]}
  <2> SUFFICES ASSUME NEW k \in DOMAIN q, k # i PROVE q[k] \in Elements(w)
    BY DEF Elements
  <2> QED
    BY <1>2, <1>4 DEF Elements
<1>9. q[i] \notin Elements(w)
  BY <1>2, <1>3, <1>5 DEF Elements
<1> QED
  BY <1>6, <1>7, <1>8, <1>9 DEF w

(* What holds of a sequence holds of its beginning. *)
LEMMA PrefixInOrder ==
    ASSUME NEW q \in Seq(Messages), NEW r \in Seq(Messages), InOrder(q \o r)
    PROVE  InOrder(q)
<1>1. /\ Len(q) \in Nat /\ Len(r) \in Nat
      /\ DOMAIN q = 1..Len(q) /\ DOMAIN (q \o r) = 1..(Len(q) + Len(r))
      /\ \A i \in 1..(Len(q) + Len(r)) :
           (q \o r)[i] = IF i <= Len(q) THEN q[i] ELSE r[i - Len(q)]
  BY ConcatProperties, LenProperties
<1>2. \A i \in DOMAIN q : i \in DOMAIN (q \o r) /\ (q \o r)[i] = q[i]
  BY <1>1
<1> QED
  BY <1>2 DEF InOrder

LEMMA ElementsOfConcat ==
    ASSUME NEW q \in Seq(Messages), NEW r \in Seq(Messages)
    PROVE  Elements(q \o r) = Elements(q) \cup Elements(r)
<1>1. Range(q \o r) = Range(q) \cup Range(r)
  BY RangeConcatenation
<1> QED
  BY <1>1 DEF Elements, Range

-----------------------------------------------------------------------------
(* What is left of q after its first n elements: Fresh is of this form. *)
Drop(q, n) == SubSeq(q, n + 1, Len(q))

LEMMA DropProperties ==
    ASSUME NEW S, NEW q \in Seq(S), NEW n \in 0..Len(q)
    PROVE  /\ Drop(q, n) \in Seq(S)
           /\ Len(Drop(q, n)) = Len(q) - n
           /\ \A i \in 1..(Len(q) - n) : Drop(q, n)[i] = q[n + i]
<1>1. Len(q) \in Nat /\ n + 1 \in Int
  BY LenProperties
<1>2. \A i \in (n + 1)..Len(q) : q[i] \in S
  BY <1>1, ElementOfSeq
<1>3. /\ Drop(q, n) \in Seq(S)
      /\ Len(Drop(q, n)) = IF n + 1 <= Len(q) THEN Len(q) - (n + 1) + 1 ELSE 0
      /\ \A i \in 1..(Len(q) - (n + 1) + 1) : Drop(q, n)[i] = q[(n + 1) + i - 1]
  BY <1>1, <1>2, SubSeqProperties DEF Drop
<1>4. Len(Drop(q, n)) = Len(q) - n
  BY <1>1, <1>3
<1>5. \A i \in 1..(Len(q) - n) : Drop(q, n)[i] = q[n + i]
  <2> SUFFICES ASSUME NEW i \in 1..(Len(q) - n) PROVE Drop(q, n)[i] = q[n + i]
    OBVIOUS
  <2>1. i \in 1..(Len(q) - (n + 1) + 1) /\ (n + 1) + i - 1 = n + i
    BY <1>1
  <2> QED
    BY <1>3, <2>1
<1> QED
  BY <1>3, <1>4, <1>5

LEMMA DropNone ==
    ASSUME NEW S, NEW q \in Seq(S)
    PROVE  Drop(q, 0) = q
  BY SubSeqFull DEF Drop

LEMMA DropAll ==
    ASSUME NEW S, NEW q \in Seq(S)
    PROVE  Drop(q, Len(q)) = <<>>
<1>1. Len(q) \in Int /\ Len(q) + 1 \in Int /\ Len(q) < Len(q) + 1
  BY LenProperties
<1> QED
  BY <1>1, SubSeqEmpty DEF Drop

LEMMA DropAppend ==
    ASSUME NEW S, NEW q \in Seq(S), NEW n \in 0..Len(q), NEW e \in S
    PROVE  Drop(Append(q, e), n) = Append(Drop(q, n), e)
<1> DEFINE a == Append(q, e)
           d == Drop(q, n)
<1>1. /\ Len(q) \in Nat /\ a \in Seq(S) /\ Len(a) = Len(q) + 1
      /\ \A i \in 1..Len(q) : a[i] = q[i]
      /\ a[Len(q) + 1] = e
  BY LenProperties, AppendProperties
<1>2. /\ d \in Seq(S) /\ Len(d) = Len(q) - n
      /\ \A i \in 1..(Len(q) - n) : d[i] = q[n + i]
  BY DropProperties
<1> HIDE DEF a, d
<1>3. /\ Drop(a, n) \in Seq(S) /\ Len(Drop(a, n)) = Len(a) - n
      /\ \A i \in 1..(Len(a) - n) : Drop(a, n)[i] = a[n + i]
  <2>1. n \in 0..Len(a)
    BY <1>1
  <2> QED
    BY ZenonT(60), <1>1, <2>1, DropProperties
<1>4. /\ Append(d, e) \in Seq(S) /\ Len(Append(d, e)) = Len(d) + 1
      /\ \A i \in 1..Len(d) : Append(d, e)[i] = d[i]
      /\ Append(d, e)[Len(d) + 1] = e
  BY <1>2, AppendProperties
<1>5. Len(Drop(a, n)) = Len(Append(d, e))
  BY <1>1, <1>2, <1>3, <1>4
<1>6. ASSUME NEW i \in 1..Len(Drop(a, n)) PROVE Drop(a, n)[i] = Append(d, e)[i]
  <2>1. i \in 1..(Len(a) - n) /\ n + i \in 1..(Len(q) + 1)
    BY <1>1, <1>3
  <2>2. CASE i \in 1..Len(d)
    BY <1>1, <1>2, <1>3, <1>4, <2>1, <2>2
  <2>3. CASE i = Len(d) + 1
    <3>1. n + i = Len(q) + 1
      BY <1>1, <1>2, <2>3
    <3> QED
      BY <1>1, <1>3, <1>4, <2>1, <2>3, <3>1
  <2> QED
    BY SMTT(60), <1>1, <1>2, <1>3, <2>2, <2>3
<1>7. Drop(a, n) = Append(d, e)
  BY <1>3, <1>4, <1>5, <1>6, SeqEqual
<1> QED
  BY <1>7 DEF a, d

LEMMA DropTail ==
    ASSUME NEW S, NEW q \in Seq(S), NEW n \in 1..Len(q)
    PROVE  /\ n - 1 \in 0..Len(Tail(q))
           /\ Drop(Tail(q), n - 1) = Drop(q, n)
<1>1. Len(q) \in Nat /\ q # <<>>
  BY EmptySeq, LenProperties
<1>2. /\ Tail(q) \in Seq(S) /\ Len(Tail(q)) = Len(q) - 1
      /\ \A i \in 1..Len(Tail(q)) : Tail(q)[i] = q[i + 1]
  BY <1>1, HeadTailProperties
<1>3. n - 1 \in 0..Len(Tail(q))
  BY <1>1, <1>2
<1> DEFINE d == Drop(Tail(q), n - 1)
<1>4. /\ d \in Seq(S)
      /\ Len(d) = Len(Tail(q)) - (n - 1)
      /\ \A i \in 1..(Len(Tail(q)) - (n - 1)) : d[i] = Tail(q)[(n - 1) + i]
  BY ZenonT(60), <1>2, <1>3, DropProperties
<1> HIDE DEF d
<1>5. /\ Drop(q, n) \in Seq(S) /\ Len(Drop(q, n)) = Len(q) - n
      /\ \A i \in 1..(Len(q) - n) : Drop(q, n)[i] = q[n + i]
  BY <1>1, DropProperties
<1>6. Len(d) = Len(Drop(q, n))
  BY <1>1, <1>2, <1>4, <1>5
<1>7. ASSUME NEW i \in 1..Len(Drop(q, n)) PROVE d[i] = Drop(q, n)[i]
  <2>1. i \in 1..(Len(Tail(q)) - (n - 1)) /\ i \in 1..(Len(q) - n)
        /\ (n - 1) + i \in 1..Len(Tail(q)) /\ (n - 1) + i + 1 = n + i
    BY <1>1, <1>2, <1>5
  <2> QED
    BY <1>2, <1>4, <1>5, <2>1
<1>8. d = Drop(q, n)
  BY <1>4, <1>5, <1>6, <1>7, SeqEqual
<1> QED
  BY <1>3, <1>8 DEF d

-----------------------------------------------------------------------------
(* What each step does to Transit, and so to Line. *)

LEMMA FreshType ==
    ASSUME TypeOK
    PROVE  /\ Fresh = Drop(recvMsgQueue, stale)
           /\ Fresh \in Seq(Messages)
           /\ Transit \in Seq(Messages) /\ Line \in Seq(Messages)
<1>1. Fresh = Drop(recvMsgQueue, stale)
  BY DEF Fresh, Drop
<1>2. Fresh \in Seq(Messages)
  BY <1>1, DropProperties DEF TypeOK
<1>3. Transit \in Seq(Messages)
  BY <1>2, ConcatProperties DEF Transit, TypeOK
<1>4. Line \in Seq(Messages)
  BY <1>3, ConcatProperties DEF Line, TypeOK
<1> QED
  BY <1>1, <1>2, <1>3, <1>4

(* A push adds to the end of Transit. *)
LEMMA PushTransit ==
    ASSUME TypeOK, NEW m \in Messages, PushMsg(m)
    PROVE  /\ Transit' = Append(Transit, m) /\ handled' = handled
           /\ Line' = Append(Line, m)
<1>1. Fresh' = Append(Fresh, m)
  BY ZenonT(60), FreshType, DropAppend DEF PushMsg, Fresh, Drop, TypeOK
<1>2. Transit' = Append(Transit, m)
  BY SMTT(60), <1>1, FreshType, ConcatAppend DEF PushMsg, Transit, TypeOK
<1>3. handled' = handled
  BY DEF PushMsg
<1>4. Line' = Append(Line, m)
  BY <1>2, <1>3, FreshType, ConcatAppend DEF Line, TypeOK
<1> QED
  BY <1>2, <1>3, <1>4

(* The copy, the clearing of what was copied, and the ends of the loops    *)
(* change nothing.                                                         *)
LEMMA SameTransit ==
    ASSUME TypeOK, QueueInv,
           \/ CopyRecvMsg_Copy \/ CopyRecvMsg_End \/ UpdateEnd \/ UNCHANGED vars
           \/ CopyRecvMsg_Pop /\ stale > 0
    PROVE  Transit' = Transit /\ handled' = handled /\ Line' = Line
<1>1. CASE CopyRecvMsg_Copy
  <2>1. copiedRecvMsgs = <<>> /\ stale = 0
    BY <1>1 DEF CopyRecvMsg_Copy, QueueInv
  <2>2. Fresh = recvMsgQueue
    BY <2>1, FreshType, DropNone DEF TypeOK
  <2>3. Fresh' = <<>>
    BY <1>1, DropAll DEF CopyRecvMsg_Copy, Fresh, Drop, TypeOK
  <2>4. Transit' = recvMsgQueue /\ Transit = recvMsgQueue
    BY <1>1, <2>1, <2>2, <2>3, ConcatEmptySeq DEF CopyRecvMsg_Copy, Transit, TypeOK
  <2> QED
    BY <1>1, <2>4 DEF CopyRecvMsg_Copy, Line
<1>2. CASE CopyRecvMsg_Pop /\ stale > 0
  <2>1. /\ stale \in 1..Len(recvMsgQueue) /\ stale' = stale - 1
        /\ recvMsgQueue' = Tail(recvMsgQueue)
        /\ UNCHANGED <<copiedRecvMsgs, handled>>
    BY <1>2, LenProperties DEF CopyRecvMsg_Pop, TypeOK
  <2>2. Fresh' = Fresh
    BY <2>1, DropTail DEF Fresh, Drop, TypeOK
  <2> QED
    BY <2>1, <2>2 DEF Transit, Line
<1>3. CASE CopyRecvMsg_End \/ UpdateEnd \/ UNCHANGED vars
  BY <1>3 DEF CopyRecvMsg_End, UpdateEnd, vars, Transit, Line, Fresh
<1> QED
  BY <1>1, <1>2, <1>3

(* What is cleared unseen is the first fresh request. *)
LEMMA PopTransit ==
    ASSUME TypeOK, CopyRecvMsg_Pop, ~(stale > 0)
    PROVE  LET i == Len(copiedRecvMsgs) + 1
               j == Len(handled) + i
           IN  /\ i \in 1..Len(Transit) /\ Transit' = Without(Transit, i)
               /\ handled' = handled
               /\ j \in 1..Len(Line) /\ Line' = Without(Line, j)
               /\ Head(recvMsgQueue) = Line[j]
<1> DEFINE i == Len(copiedRecvMsgs) + 1
           j == Len(handled) + i
<1>1. /\ stale = 0 /\ stale' = 0 /\ recvMsgQueue # <<>>
      /\ recvMsgQueue' = Tail(recvMsgQueue)
      /\ UNCHANGED <<copiedRecvMsgs, handled>>
  BY LenProperties DEF CopyRecvMsg_Pop, TypeOK
<1>2. /\ recvMsgQueue \in Seq(Messages) /\ Tail(recvMsgQueue) \in Seq(Messages)
      /\ Len(recvMsgQueue) \in Nat \ {0}
      /\ Len(Tail(recvMsgQueue)) = Len(recvMsgQueue) - 1
      /\ \A k \in 1..Len(Tail(recvMsgQueue)) :
           Tail(recvMsgQueue)[k] = recvMsgQueue[k + 1]
  BY <1>1, HeadTailProperties, EmptySeq DEF TypeOK
<1>3. Fresh = recvMsgQueue /\ Fresh' = Tail(recvMsgQueue)
  BY SMTT(60), <1>1, <1>2, FreshType, DropNone DEF Fresh, Drop
<1>4. 1 \in 1..Len(Fresh) /\ Fresh' = Without(Fresh, 1)
  <2>1. 1 \in 1..Len(recvMsgQueue)
    BY <1>2
  <2>2. /\ Without(recvMsgQueue, 1) \in Seq(Messages)
        /\ Len(Without(recvMsgQueue, 1)) = Len(recvMsgQueue) - 1
        /\ \A k \in 1..(Len(recvMsgQueue) - 1) :
             Without(recvMsgQueue, 1)[k] = IF k < 1 THEN recvMsgQueue[k]
                                                    ELSE recvMsgQueue[k + 1]
    BY <1>2, <2>1, WithoutProperties
  <2>3. Len(Tail(recvMsgQueue)) = Len(Without(recvMsgQueue, 1))
    BY <1>2, <2>2
  <2>4. \A k \in 1..Len(Tail(recvMsgQueue)) :
           Tail(recvMsgQueue)[k] = Without(recvMsgQueue, 1)[k]
    BY <1>2, <2>2
  <2>5. Tail(recvMsgQueue) = Without(recvMsgQueue, 1)
    BY <1>2, <2>2, <2>3, <2>4, SeqEqual
  <2> QED
    BY <1>3, <2>1, <2>5
<1>5. /\ copiedRecvMsgs \in Seq(Messages) /\ handled \in Seq(Messages)
      /\ Fresh \in Seq(Messages) /\ Transit \in Seq(Messages)
  BY FreshType DEF TypeOK
<1>6. /\ i \in 1..Len(Transit) /\ Transit' = Without(Transit, i)
      /\ Transit[i] = Fresh[1]
  <2>1. /\ i \in 1..Len(copiedRecvMsgs \o Fresh)
        /\ copiedRecvMsgs \o Without(Fresh, 1) = Without(copiedRecvMsgs \o Fresh, i)
        /\ (copiedRecvMsgs \o Fresh)[i] = Fresh[1]
    <3>1. PICK k : k = 1
      OBVIOUS
    <3>2. k \in 1..Len(Fresh)
      BY <1>4, <3>1
    <3> QED
      BY SMTT(60), <1>5, <3>1, <3>2, ConcatWithout
  <2> QED
    BY <1>1, <1>4, <2>1 DEF Transit
<1> HIDE DEF i
<1>7. /\ j \in 1..Len(Line) /\ Line' = Without(Line, j)
      /\ Line[j] = Transit[i]
  <2>1. /\ j \in 1..Len(handled \o Transit)
        /\ handled \o Without(Transit, i) = Without(handled \o Transit, j)
        /\ (handled \o Transit)[j] = Transit[i]
    <3>1. /\ Len(handled) + i \in 1..Len(handled \o Transit)
          /\ handled \o Without(Transit, i) = Without(handled \o Transit, Len(handled) + i)
          /\ (handled \o Transit)[Len(handled) + i] = Transit[i]
      <4> HIDE DEF j
      <4>1. handled \in Seq(Messages) /\ Transit \in Seq(Messages) /\ i \in 1..Len(Transit)
        BY <1>5, <1>6
      <4> QED
        BY ONLY SMTT(60), <4>1, ConcatWithout
    <3> QED
      BY <3>1
  <2> QED
    BY <1>1, <1>6, <2>1 DEF Line
<1>8. Head(recvMsgQueue) = Fresh[1]
  BY <1>1, <1>2, <1>3
<1> QED
  BY <1>1, <1>6, <1>7, <1>8 DEF i

(* What is handled is the first of Transit; Line remains. *)
LEMMA ProcTransit ==
    ASSUME TypeOK, ProcMsg
    PROVE  /\ Transit # <<>> /\ Transit' = Tail(Transit)
           /\ handled' = Append(handled, Head(Transit))
           /\ Line' = Line
<1>1. /\ copiedRecvMsgs \in Seq(Messages) /\ copiedRecvMsgs # <<>>
      /\ Fresh \in Seq(Messages) /\ Transit \in Seq(Messages)
      /\ handled \in Seq(Messages)
  BY FreshType DEF ProcMsg, TypeOK
<1>2. /\ copiedRecvMsgs' = Tail(copiedRecvMsgs) /\ Fresh' = Fresh
      /\ handled' = Append(handled, Head(copiedRecvMsgs))
  BY DEF ProcMsg, Fresh
<1>3. /\ Transit # <<>> /\ Transit' = Tail(Transit)
      /\ Head(Transit) = Head(copiedRecvMsgs)
  BY <1>1, <1>2, HeadTailConcat DEF Transit
<1>4. Line' = Line
  BY <1>1, <1>2, <1>3, ConcatHead DEF Line
<1> QED
  BY <1>2, <1>3, <1>4

-----------------------------------------------------------------------------
(* Each step keeps the types. *)

LEMMA TypeStep == TypeOK /\ [Next]_vars => TypeOK'
<1> SUFFICES ASSUME TypeOK, [Next]_vars PROVE TypeOK'
  OBVIOUS
<1> USE DEF TypeOK
<1>1. Len(recvMsgQueue) \in Nat
  BY LenProperties
<1>2. ASSUME NEW m \in Messages, PushMsg(m) PROVE TypeOK'
  <2>1. Len(recvMsgQueue') = Len(recvMsgQueue) + 1 /\ recvMsgQueue' \in Seq(Messages)
    BY <1>2, AppendProperties DEF PushMsg
  <2> QED
    BY <1>1, <1>2, <2>1 DEF PushMsg
<1>3. CASE CopyRecvMsg_Copy
  BY <1>1, <1>3 DEF CopyRecvMsg_Copy
<1>4. CASE CopyRecvMsg_Pop
  <2>1. /\ recvMsgQueue' \in Seq(Messages) /\ Head(recvMsgQueue) \in Messages
        /\ Len(recvMsgQueue') = Len(recvMsgQueue) - 1
        /\ Len(recvMsgQueue) \in Nat \ {0}
    BY <1>4, HeadTailProperties, EmptySeq DEF CopyRecvMsg_Pop
  <2>2. stale' \in 0..Len(recvMsgQueue') /\ lost' \subseteq Messages
    BY <1>4, <2>1 DEF CopyRecvMsg_Pop
  <2> QED
    BY <1>4, <2>1, <2>2 DEF CopyRecvMsg_Pop
<1>5. CASE CopyRecvMsg_End
  BY <1>5 DEF CopyRecvMsg_End
<1>6. CASE ProcMsg
  <2>1. copiedRecvMsgs' \in Seq(Messages) /\ handled' \in Seq(Messages)
    BY <1>6, HeadTailProperties, AppendProperties DEF ProcMsg
  <2> QED
    BY <1>6, <2>1 DEF ProcMsg
<1>7. CASE UpdateEnd
  BY <1>7 DEF UpdateEnd
<1>8. CASE UNCHANGED vars
  BY <1>8 DEF vars
<1> QED
  BY <1>2, <1>3, <1>4, <1>5, <1>6, <1>7, <1>8 DEF Next, Update

LEMMA QueueStep == TypeOK /\ QueueInv /\ [Next]_vars => QueueInv'
<1> SUFFICES ASSUME TypeOK, QueueInv, [Next]_vars PROVE QueueInv'
  OBVIOUS
<1> USE DEF TypeOK, QueueInv
<1>1. CASE CopyRecvMsg_End
  <2>1. stale = 0
    BY <1>1, EmptySeq DEF CopyRecvMsg_End
  <2> QED
    BY <1>1, <2>1 DEF CopyRecvMsg_End
<1>2. ASSUME ~CopyRecvMsg_End PROVE QueueInv'
  BY <1>2 DEF Next, Update, PushMsg, CopyRecvMsg_Copy, CopyRecvMsg_Pop, ProcMsg,
              UpdateEnd, vars
<1> QED
  BY <1>1, <1>2

(* A request that is pushed comes after all of its player's. *)
LEMMA PushedLast ==
    ASSUME TypeOK, PushedInv, NEW m \in Messages, PushMsg(m), NEW e \in pushed,
           e.id = m.id
    PROVE  e.no < m.no
<1>1. e \in Messages /\ m \notin pushed
  BY DEF TypeOK, PushMsg
<1>2. e.no \in Int /\ m.no \in Int /\ m.no >= 1
  BY <1>1, MsgQueueAssumption DEF Messages
<1>3. e.no # m.no
  <2>1. e.no = m.no => e = m
    BY <1>1 DEF Messages
  <2> QED
    BY <1>1, <2>1
<1>4. ~(m.no < e.no)
  <2> SUFFICES ASSUME m.no < e.no PROVE FALSE
    OBVIOUS
  <2>1. m.no \in 1..(e.no - 1)
    BY <1>2
  <2>2. [e EXCEPT !.no = m.no] \in pushed
    BY <2>1 DEF PushedInv
  <2>3. [e EXCEPT !.no = m.no] = m
    BY <1>1 DEF Messages
  <2> QED
    BY <1>1, <2>2, <2>3
<1> QED
  BY <1>2, <1>3, <1>4

(* Requests are handed over without gaps, and are finitely many.           *)
LEMMA PushedStep == TypeOK /\ PushedInv /\ [Next]_vars => PushedInv'
<1> SUFFICES ASSUME TypeOK, PushedInv, [Next]_vars PROVE PushedInv'
  OBVIOUS
<1>1. ASSUME NEW m \in Messages, PushMsg(m) PROVE PushedInv'
  <2>1. pushed' = pushed \cup {m} /\ lost' = lost
    BY <1>1 DEF PushMsg
  <2>2. IsFiniteSet(pushed')
    BY <2>1, FS_AddElement DEF PushedInv
  <2>3. \A k \in 1..(m.no - 1) : [m EXCEPT !.no = k] \in pushed
    BY <1>1 DEF PushMsg
  <2> QED
    BY <2>1, <2>2, <2>3 DEF PushedInv
<1>2. CASE CopyRecvMsg_Pop
  <2>1. IsFiniteSet(lost')
    BY <1>2, FS_AddElement DEF CopyRecvMsg_Pop, PushedInv
  <2>2. pushed' = pushed
    BY <1>2 DEF CopyRecvMsg_Pop
  <2> QED
    BY <2>1, <2>2 DEF PushedInv
<1>3. CASE UNCHANGED <<pushed, lost>>
  BY <1>3 DEF PushedInv
<1> QED
  BY <1>1, <1>2, <1>3 DEF Next, Update, CopyRecvMsg_Copy, CopyRecvMsg_End, ProcMsg,
     UpdateEnd, vars

(* Line stays in order; with lost it is all that was pushed, once each.    *)
LEMMA LineStep == IInv /\ [Next]_vars => LineInv'
<1> SUFFICES ASSUME IInv, [Next]_vars PROVE LineInv'
  OBVIOUS
<1> USE DEF IInv
<1>1. /\ Line \in Seq(Messages) /\ Len(Line) \in Nat
      /\ Cardinality(lost) \in Nat
  BY FreshType, LenProperties, FS_CardinalityType DEF PushedInv
<1>2. ASSUME NEW m \in Messages, PushMsg(m) PROVE LineInv'
  <2>1. Line' = Append(Line, m)
    BY <1>2, PushTransit
  <2>2. pushed' = pushed \cup {m} /\ m \notin pushed /\ lost' = lost
    BY <1>2 DEF PushMsg
  <2>3. \A i \in 1..Len(Line) : Line[i] \in pushed
    BY <1>1, LenProperties DEF LineInv, Elements
  <2>4. \A i \in 1..Len(Line) : Line[i].id = m.id => Line[i].no < m.no
    BY <1>2, <2>3, PushedLast
  <2>5. InOrder(Line') /\ Elements(Line') = Elements(Line) \cup {m}
    BY <1>1, <2>1, <2>4, AppendInOrder DEF LineInv
  <2>6. Len(Line') = Len(Line) + 1
    BY <1>1, <2>1, AppendProperties
  <2>7. Cardinality(pushed') = Cardinality(pushed) + 1
    BY <2>2, FS_AddElement DEF PushedInv
  <2>8. Cardinality(pushed') = Len(Line') + Cardinality(lost')
    BY <1>1, <2>2, <2>6, <2>7 DEF LineInv
  <2>9. /\ pushed' = Elements(Line') \cup lost'
        /\ Elements(Line') \cap lost' = {}
    BY <2>2, <2>5 DEF LineInv
  <2> QED
    BY <2>5, <2>8, <2>9 DEF LineInv
<1>3. CASE CopyRecvMsg_Pop /\ ~(stale > 0)
  <2> DEFINE j == Len(handled) + (Len(copiedRecvMsgs) + 1)
  <2>1. j \in 1..Len(Line) /\ Line' = Without(Line, j) /\ Head(recvMsgQueue) = Line[j]
    BY <1>3, PopTransit
  <2> HIDE DEF j
  <2>2. pushed' = pushed /\ lost' = lost \cup {Line[j]}
    BY <1>3, <2>1 DEF CopyRecvMsg_Pop
  <2>3. /\ InOrder(Line') /\ Elements(Line) = Elements(Line') \cup {Line[j]}
        /\ Line[j] \notin Elements(Line')
    BY <1>1, <2>1, WithoutInOrder DEF LineInv
  <2>4. Len(Line') = Len(Line) - 1
    BY <1>1, <2>1, WithoutProperties
  <2>5. Line[j] \notin lost
    BY <2>3 DEF LineInv
  <2>6. Cardinality(lost') = Cardinality(lost) + 1
    BY <2>2, <2>5, FS_AddElement DEF PushedInv
  <2>7. Cardinality(pushed') = Len(Line') + Cardinality(lost')
    BY <1>1, <2>2, <2>4, <2>6 DEF LineInv
  <2>8. /\ pushed' = Elements(Line') \cup lost'
        /\ Elements(Line') \cap lost' = {}
    BY <2>2, <2>3 DEF LineInv
  <2> QED
    BY <2>3, <2>7, <2>8 DEF LineInv
<1>4. CASE ProcMsg
  <2>1. Line' = Line
    BY <1>4, ProcTransit
  <2>2. UNCHANGED <<pushed, lost>>
    BY <1>4 DEF ProcMsg
  <2> QED
    BY <2>1, <2>2 DEF LineInv
<1>5. CASE \/ CopyRecvMsg_Copy \/ CopyRecvMsg_End \/ UpdateEnd \/ UNCHANGED vars
           \/ CopyRecvMsg_Pop /\ stale > 0
  <2>1. Line' = Line
    BY <1>5, SameTransit
  <2>2. UNCHANGED <<pushed, lost>>
    BY <1>5 DEF CopyRecvMsg_Copy, CopyRecvMsg_Pop, CopyRecvMsg_End, UpdateEnd, vars
  <2> QED
    BY <2>1, <2>2 DEF LineInv
<1> QED
  BY <1>2, <1>3, <1>4, <1>5 DEF Next, Update

-----------------------------------------------------------------------------
LEMMA InitIInv == Init => IInv
<1> SUFFICES ASSUME Init PROVE IInv
  OBVIOUS
<1>1. TypeOK
  BY EmptySeq DEF Init, TypeOK
<1>2. QueueInv
  BY DEF Init, QueueInv
<1>3. PushedInv
  BY FS_EmptySet DEF Init, PushedInv
<1>4. Line = <<>>
  <2>1. Fresh = <<>>
    BY <1>1, FreshType, DropNone DEF Init, TypeOK
  <2> QED
    BY <1>1, <2>1, ConcatEmptySeq DEF Line, Transit, Init, TypeOK
<1>5. LineInv
  <2>1. DOMAIN Line = {} /\ Len(Line) = 0
    BY <1>4
  <2> QED
    BY <2>1, FS_EmptySet DEF Init, LineInv, InOrder, Elements
<1> QED
  BY <1>1, <1>2, <1>3, <1>5 DEF IInv

THEOREM Inductive == Spec => []IInv
<1>1. Init => IInv
  BY InitIInv
<1>2. IInv /\ [Next]_vars => IInv'
  BY TypeStep, QueueStep, PushedStep, LineStep DEF IInv
<1> QED
  BY <1>1, <1>2, PTL DEF Spec

(* However the pushes fall between the steps of CopyRecvMsg, World::Update *)
(* carries out the requests of one player in the order it sent them, none  *)
(* of them twice.                                                          *)
THEOREM OrderKept == Spec => []HandledInOrder
<1>1. IInv => HandledInOrder
  <2> SUFFICES ASSUME IInv PROVE InOrder(handled)
    BY DEF InOrder, HandledInOrder
  <2>1. handled \in Seq(Messages) /\ Transit \in Seq(Messages)
    BY FreshType DEF IInv, TypeOK
  <2> QED
    BY <2>1, PrefixInOrder DEF IInv, LineInv, Line
<1> QED
  BY <1>1, Inductive, PTL

(* PushMsg, CopyRecvMsg and Update lose no request but those that          *)
(* CopyRecvMsg clears without having copied them, and double none.         *)
THEOREM NothingElseVanishes == Spec => []EveryMsgAccounted
<1>1. IInv => EveryMsgAccounted
  <2> SUFFICES ASSUME IInv PROVE EveryMsgAccounted
    OBVIOUS
  <2>1. /\ handled \in Seq(Messages) /\ copiedRecvMsgs \in Seq(Messages)
        /\ Fresh \in Seq(Messages) /\ Transit \in Seq(Messages)
    BY FreshType DEF IInv, TypeOK
  <2>2. Elements(Line) = Elements(handled)
                           \cup (Elements(copiedRecvMsgs) \cup Elements(Fresh))
    <3>1. Elements(Line) = Elements(handled) \cup Elements(Transit)
      BY <2>1, ElementsOfConcat DEF Line
    <3>2. Elements(Transit) = Elements(copiedRecvMsgs) \cup Elements(Fresh)
      BY <2>1, ElementsOfConcat DEF Transit
    <3> QED
      BY <3>1, <3>2
  <2>3. Len(Line) = Len(handled) + (Len(copiedRecvMsgs) + Len(Fresh))
    BY <2>1, ConcatProperties DEF Line, Transit
  <2>4. pushed = Elements(Fresh) \cup Elements(copiedRecvMsgs)
                   \cup Elements(handled) \cup lost
    BY <2>2 DEF IInv, LineInv
  <2>5. /\ Len(handled) \in Nat /\ Len(copiedRecvMsgs) \in Nat
        /\ Len(Fresh) \in Nat /\ Cardinality(lost) \in Nat
    BY <2>1, LenProperties, FS_CardinalityType DEF IInv, PushedInv
  <2>6. Cardinality(pushed) = Len(Fresh) + Len(copiedRecvMsgs)
                                + Len(handled) + Cardinality(lost)
    BY <2>3, <2>5 DEF IInv, LineInv
  <2> QED
    BY <2>4, <2>6 DEF IInv, EveryMsgAccounted
<1> QED
  BY <1>1, Inductive, PTL

(* Each step of the queues is one of the lossy channel's, or changes       *)
(* nothing there.                                                          *)
LEMMA ChannelStep == IInv /\ [Next]_vars => [Lossy!Next]_(Lossy!vars)
<1> SUFFICES ASSUME IInv, [Next]_vars PROVE [Lossy!Next]_(Lossy!vars)
  OBVIOUS
<1> USE DEF IInv
<1>1. ASSUME NEW m \in Messages, PushMsg(m) PROVE Lossy!Send(m)
  BY <1>1, PushTransit DEF PushMsg, Lossy!Send, Transit
<1>2. CASE CopyRecvMsg_Pop /\ ~(stale > 0)
  <2> DEFINE i == Len(copiedRecvMsgs) + 1
  <2>1. i \in 1..Len(Transit) /\ Transit' = Without(Transit, i)
        /\ UNCHANGED <<pushed, handled>>
    BY <1>2, PopTransit DEF CopyRecvMsg_Pop
  <2>2. Lossy!Lose(i)
    BY <2>1 DEF Lossy!Lose, Transit, Without
  <2> QED
    BY <2>1, <2>2 DEF Lossy!Next, Transit
<1>3. CASE ProcMsg
  <2>1. Lossy!Deliver
    BY <1>3, ProcTransit DEF ProcMsg, Lossy!Deliver, Transit
  <2> QED
    BY <2>1 DEF Lossy!Next
<1>4. CASE \/ CopyRecvMsg_Copy \/ CopyRecvMsg_End \/ UpdateEnd \/ UNCHANGED vars
           \/ CopyRecvMsg_Pop /\ stale > 0
  <2>1. Transit' = Transit /\ handled' = handled
    BY <1>4, SameTransit
  <2>2. pushed' = pushed
    BY <1>4 DEF CopyRecvMsg_Copy, CopyRecvMsg_Pop, CopyRecvMsg_End, UpdateEnd, vars
  <2> QED
    BY <2>1, <2>2 DEF Lossy!vars, Transit
<1> QED
  BY <1>1, <1>2, <1>3, <1>4 DEF Next, Update, Lossy!Next

(* The two queues implement a channel that may lose a request but neither  *)
(* doubles nor reorders them.                                              *)
THEOREM ImplementsLossyFifo == Spec => Channel
<1>1. Init => Lossy!Init
  <2> SUFFICES ASSUME Init PROVE Transit = <<>>
    BY DEF Init, Lossy!Init, Transit
  <2>1. TypeOK
    BY InitIInv DEF IInv
  <2>2. Fresh = <<>>
    BY <2>1, FreshType, DropNone DEF Init, TypeOK
  <2> QED
    BY <2>1, <2>2, ConcatEmptySeq DEF Transit, Init, TypeOK
<1> QED
  BY <1>1, ChannelStep, Inductive, PTL DEF Spec, Channel, Lossy!Spec
=============================================================================
