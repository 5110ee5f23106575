------------------------- MODULE LectureServersProofs -------------------------
(***************************************************************************)
(* The AI server and the multithreaded server, for any number of clients,  *)
(* NPCs and workers: every NPC has one turn (EveryNpcHasOneTurn), workers  *)
(* that wait for each other's locks are logins (OnlyLoginsEverDeadlock),   *)
(* and the clients of the multithreaded server come to show everybody in   *)
(* the game, and nobody else (EveryoneIsShown). Positions, counts and lists*)
(* stay within their bounds (LectureServersTypeOK). LectureListsProofs goes*)
(* on from here.                                                           *)
(*                                                                         *)
(* The two servers are programs of instructions, so most of what is said   *)
(* here is about the rest of a worker's program, and how it goes with what *)
(* is in the shared state:                                                 *)
(*   - the sequences and sets of which the programs are built;             *)
(*   - MtServer: MtInv, the locks a handler holds at each place in it;     *)
(*   - AiServer: AiInv, the objects that a handler is about;               *)
(*   - AiServer: OneTurn, the turns of the NPCs;                           *)
(*   - AiServer: Shapes, the m_slocks a handler holds at each place in it; *)
(*   - AiServer: FreshInv, why nobody is stuck before a send has failed;   *)
(*   - MtServer: ShownInv, what is still to be told to the clients;        *)
(*   - AiServer: Enters, Counts, Placed, for the type invariant.           *)
(***************************************************************************)
EXTENDS LectureServers, SequenceTheorems, FiniteSetTheorems, WellFoundedInduction, TLAPS
-----------------------------------------------------------------------------
(* The least number of a set. In place of induction: what holds of every    *)
(* m below n, and not of n, is shown to be impossible for the least such n. *)
LEMMA Least ==
    ASSUME NEW S \in SUBSET Nat, S # {}
    PROVE  \E n \in S : \A m \in S : n <= m
<1> DEFINE R == OpToRel(<, Nat)
<1>1. \A x, y \in Nat : y < x => <<y, x>> \in R
  BY DEF OpToRel
<1>2. IsWellFoundedOn(R, Nat)
  BY NatLessThanWellFounded
<1> HIDE DEF R
<1>3. PICK x \in S : \A y \in S : ~ (<<y, x>> \in R)
  BY <1>2, WFMin
<1>4. ASSUME NEW y \in S PROVE x <= y
  <2>1. x \in Nat /\ y \in Nat /\ ~(y < x)
    BY <1>1, <1>3
  <2> QED
    BY <2>1
<1> QED
  BY <1>4

(***************************************************************************)
(* Sequences, taken apart and put together.                                *)
(***************************************************************************)
LEMMA SeqGrows ==
    ASSUME NEW A, NEW B, A \subseteq B, NEW T \in Seq(A)
    PROVE  T \in Seq(B)
  OBVIOUS

LEMMA Cons ==
    ASSUME NEW S, NEW a \in S, NEW r \in Seq(S)
    PROVE  /\ <<a>> \o r \in Seq(S) /\ <<a>> \o r # <<>>
           /\ Head(<<a>> \o r) = a /\ Tail(<<a>> \o r) = r
<1>1. <<a>> \in Seq(S) /\ Len(<<a>>) = 1 /\ Len(r) \in Nat
  OBVIOUS
<1>2. /\ <<a>> \o r \in Seq(S) /\ Len(<<a>> \o r) = 1 + Len(r)
      /\ \A i \in 1..(1 + Len(r)) : (<<a>> \o r)[i] = IF i = 1 THEN a ELSE r[i - 1]
  BY <1>1, ConcatProperties
<1> DEFINE c == <<a>> \o r
<1> HIDE DEF c
<1>3. c \in Seq(S) /\ Len(c) = 1 + Len(r) /\ c # <<>>
      /\ \A i \in 1..(1 + Len(r)) : c[i] = IF i = 1 THEN a ELSE r[i - 1]
  BY <1>1, <1>2 DEF c
<1>4. Tail(c) \in Seq(S) /\ Len(Tail(c)) = Len(r)
      /\ \A i \in 1..Len(r) : Tail(c)[i] = r[i]
  BY <1>1, <1>3
<1>5. Tail(c) = r
  BY <1>4, SeqEqual
<1>6. Head(c) = a
  BY <1>1, <1>3
<1> QED
  BY <1>3, <1>5, <1>6 DEF c

LEMMA Uncons ==
    ASSUME NEW S, NEW s \in Seq(S), s # <<>>
    PROVE  s = <<Head(s)>> \o Tail(s)
<1> DEFINE r == Tail(s)
           a == Head(s)
           t == <<a>> \o r
<1>1. /\ a \in S /\ r \in Seq(S) /\ Len(r) = Len(s) - 1 /\ Len(s) \in Nat /\ Len(s) > 0
      /\ \A i \in 1..Len(r) : r[i] = s[i + 1]
      /\ a = s[1]
  BY HeadTailProperties, EmptySeq
<1> HIDE DEF r, a
<1>2. <<a>> \in Seq(S) /\ Len(<<a>>) = 1 /\ <<a>>[1] = a
  BY <1>1
<1>3. /\ t \in Seq(S) /\ Len(t) = Len(s)
      /\ \A i \in 1..(1 + Len(r)) : t[i] = IF i <= 1 THEN <<a>>[i] ELSE r[i - 1]
  BY <1>1, <1>2, ConcatProperties
<1> HIDE DEF t
<1>4. ASSUME NEW i \in 1..Len(s) PROVE s[i] = t[i]
  <2>1. i \in 1..(1 + Len(r)) /\ i \in Nat
    BY <1>1
  <2>2. CASE i = 1
    BY <1>1, <1>2, <1>3, <2>1, <2>2
  <2>3. CASE i # 1
    <3>1. i - 1 \in 1..Len(r) /\ i - 1 + 1 = i /\ ~(i <= 1)
      BY <1>1, <2>1, <2>3
    <3> QED
      BY <1>1, <1>3, <2>1, <3>1
  <2> QED
    BY <2>2, <2>3
<1>5. s = t
  BY <1>3, <1>4, SeqEqual
<1> QED
  BY <1>5 DEF t, a, r

LEMMA Pair ==
    ASSUME NEW S, NEW a \in S, NEW b \in S
    PROVE  <<a, b>> = <<a>> \o <<b>>
<1> DEFINE s == <<a>> \o <<b>>
           t == <<a, b>>
<1>1. t \in Seq(S) /\ Len(t) = 2 /\ t[1] = a /\ t[2] = b
  OBVIOUS
<1>2. <<a>> \in Seq(S) /\ <<b>> \in Seq(S) /\ Len(<<a>>) = 1 /\ Len(<<b>>) = 1
      /\ <<a>>[1] = a /\ <<b>>[1] = b
  OBVIOUS
<1>3. /\ s \in Seq(S) /\ Len(s) = Len(<<a>>) + Len(<<b>>)
      /\ \A i \in 1..(Len(<<a>>) + Len(<<b>>)) :
           s[i] = IF i <= Len(<<a>>) THEN <<a>>[i] ELSE <<b>>[i - Len(<<a>>)]
  BY <1>2, ConcatProperties
<1> HIDE DEF s, t
<1>4. Len(s) = 2 /\ \A i \in 1..2 : s[i] = IF i <= 1 THEN <<a>>[i] ELSE <<b>>[i - 1]
  BY <1>2, <1>3
<1>5. s[1] = a /\ s[2] = b
  BY <1>2, <1>4
<1>6. \A i \in 1..Len(s) : s[i] = t[i]
  <2> SUFFICES ASSUME NEW i \in 1..Len(s) PROVE s[i] = t[i]
    OBVIOUS
  <2>1. i = 1 \/ i = 2
    BY <1>4
  <2> QED
    BY <1>1, <1>5, <2>1
<1>7. s = t
  BY <1>1, <1>3, <1>4, <1>6, SeqEqual
<1> QED
  BY <1>7 DEF s, t

LEMMA Joined ==
    ASSUME NEW S, NEW A \in Seq(S), NEW B \in Seq(S)
    PROVE  /\ A \o B \in Seq(S) /\ Len(A \o B) = Len(A) + Len(B)
           /\ \A i \in 1..Len(A) : (A \o B)[i] = A[i]
           /\ \A i \in 1..Len(B) : (A \o B)[Len(A) + i] = B[i]
<1>1. Len(A) \in Nat /\ Len(B) \in Nat
  OBVIOUS
<1>2. ASSUME NEW i \in 1..Len(B) PROVE (A \o B)[Len(A) + i] = B[i]
  <2>1. /\ Len(A) + i \in 1..(Len(A) + Len(B)) /\ ~(Len(A) + i <= Len(A))
        /\ Len(A) + i - Len(A) = i
    BY <1>1
  <2> QED
    BY <2>1, ConcatProperties
<1> QED
  BY <1>1, <1>2, ConcatProperties

LEMMA Twice ==
    ASSUME NEW S, NEW x \in S, NEW y \in S, NEW Q \in Seq(S)
    PROVE  <<x, y>> \o Q = <<x>> \o (<<y>> \o Q)
<1>1. <<x, y>> = <<x>> \o <<y>>
  BY Pair
<1>2. <<x>> \in Seq(S) /\ <<y>> \in Seq(S)
  OBVIOUS
<1>3. (<<x>> \o <<y>>) \o Q = <<x>> \o (<<y>> \o Q)
  BY <1>2, ConcatAssociative
<1> QED
  BY <1>1, <1>3

LEMMA Thrice ==
    ASSUME NEW S, NEW a \in S, NEW b \in S, NEW c \in S, NEW R \in Seq(S)
    PROVE  <<a, b, c>> \o R = <<a>> \o (<<b>> \o (<<c>> \o R))
<1>2. <<a, b, c>> = <<a, b>> \o <<c>>
  <2> DEFINE t == <<a, b, c>>
             s == <<a, b>> \o <<c>>
             x == <<a, b>>
             y == <<c>>
  <2>1. x \in Seq(S) /\ y \in Seq(S) /\ Len(x) = 2 /\ Len(y) = 1
        /\ x[1] = a /\ x[2] = b /\ y[1] = c
    OBVIOUS
  <2>2. t \in Seq(S) /\ Len(t) = 3 /\ t[1] = a /\ t[2] = b /\ t[3] = c
    OBVIOUS
  <2> HIDE DEF x, y, t
  <2> x \in Seq(S) /\ y \in Seq(S)
    BY <2>1
  <2>3. /\ x \o y \in Seq(S) /\ Len(x \o y) = Len(x) + Len(y)
        /\ \A i \in 1..Len(x) : (x \o y)[i] = x[i]
        /\ \A i \in 1..Len(y) : (x \o y)[Len(x) + i] = y[i]
    BY Joined
  <2> s = x \o y
    BY DEF x, y
  <2> HIDE DEF s
  <2>4. s \in Seq(S) /\ Len(s) = 3 /\ s[1] = a /\ s[2] = b /\ s[2 + 1] = c
    BY <2>1, <2>3
  <2>5. \A i \in 1..3 : i = 1 \/ i = 2 \/ i = 3
    OBVIOUS
  <2>6. s[1] = t[1] /\ s[2] = t[2] /\ s[3] = t[3]
    BY <2>2, <2>4
  <2>7. \A i \in 1..Len(s) : s[i] = t[i]
    <3> SUFFICES ASSUME NEW i \in 1..Len(s) PROVE s[i] = t[i]
      OBVIOUS
    <3>1. i = 1 \/ i = 2 \/ i = 3
      BY <2>4, <2>5
    <3> QED
      BY <2>6, <3>1
  <2>8. s = t
    BY <2>2, <2>4, <2>7, SeqEqual
  <2> QED
    BY <2>8 DEF s, t
<1>3. <<c>> \in Seq(S) /\ <<a, b>> \in Seq(S) /\ <<c>> \o R \in Seq(S)
  BY Cons
<1>4. (<<a, b>> \o <<c>>) \o R = <<a, b>> \o (<<c>> \o R)
  BY <1>3, ConcatAssociative
<1> QED
  <2> DEFINE Q == <<c>> \o R
  <2>1. Q \in Seq(S)
    BY <1>3
  <2>2. <<a, b, c>> \o R = <<a, b>> \o Q
    BY <1>2, <1>4
  <2> HIDE DEF Q
  <2>3. <<a, b>> \o Q = <<a>> \o (<<b>> \o Q)
    BY SMTT(60), <2>1, Twice
  <2> QED
    BY <2>2, <2>3 DEF Q

(* The first of a sequence, and of the rest of it.                         *)
LEMMA Prefix ==
    ASSUME NEW S, NEW U, U \subseteq S, NEW V \in Seq(U), NEW X \in Seq(S)
    PROVE  /\ V \o X \in Seq(S)
           /\ V = <<>> => V \o X = X
           /\ V # <<>> => /\ V \o X # <<>> /\ Head(V \o X) = Head(V)
                          /\ Tail(V \o X) = Tail(V) \o X
                          /\ Head(V) \in U /\ Tail(V) \in Seq(U)
<1>1. V \in Seq(S)
  BY SeqGrows
<1>2. V \o X \in Seq(S)
  BY <1>1, ConcatProperties
<1>3. V = <<>> => V \o X = X
  BY ConcatEmptySeq
<1>4. ASSUME V # <<>>
      PROVE  /\ V \o X # <<>> /\ Head(V \o X) = Head(V) /\ Tail(V \o X) = Tail(V) \o X
             /\ Head(V) \in U /\ Tail(V) \in Seq(U)
  <2> DEFINE a == Head(V)
             r == Tail(V)
  <2>1. a \in U /\ r \in Seq(U) /\ V = <<a>> \o r
    BY <1>4, Uncons, HeadTailProperties
  <2>2. a \in S /\ r \in Seq(S)
    BY <2>1, SeqGrows
  <2> HIDE DEF a, r
  <2>3. <<a>> \in Seq(S) /\ r \o X \in Seq(S)
    BY <2>2, ConcatProperties
  <2>4. V \o X = <<a>> \o (r \o X)
    BY <2>1, <2>2, <2>3, ConcatAssociative
  <2>5. V \o X # <<>> /\ Head(V \o X) = a /\ Tail(V \o X) = r \o X
    BY <2>2, <2>3, <2>4, Cons
  <2> QED
    BY <2>1, <2>5 DEF a, r
<1> QED
  BY <1>2, <1>3, <1>4
-----------------------------------------------------------------------------
(***************************************************************************)
(* MtServer: OnlyLoginsDeadlock. What a worker still has to do and which   *)
(* locks it holds belong together: MtInv says how. A login holds the lock  *)
(* of its own slot, and beside it at most that of a slot it visits; every  *)
(* other handler holds at most one lock, and never waits while it does.    *)
(***************************************************************************)
Instr == {"lock", "free", "unlock", "enter", "look", "visit", "tell", "tellMove",
          "add", "remove", "done"} \X Nat \X Nat

Todo(w) == task[w].todo
Held(w) == {o \in Mt!Slots : slock[o] = w}

(* A program of do_move and disconnect, between two of its locked parts.   *)
Calm(T) ==
    /\ T \in Seq(Instr)
    /\ \A i \in 1..Len(T) :
         /\ T[i][1] \in {"lock", "free", "tell", "tellMove", "done"}
         /\ T[i][1] \in {"lock", "tell", "tellMove"} => T[i][2] \in Mt!Slots
         /\ T[i][1] = "lock" => /\ i < Len(T)
                                /\ T[i + 1] = <<"free", T[i][2], T[i][2]>>
         /\ T[i][1] = "free" => i > 1 /\ T[i - 1][1] = "lock"

(* The rest of the login of p, between two visits.                         *)
Looks(T, p) ==
    /\ T \in Seq(Instr) /\ Len(T) >= 2
    /\ T[Len(T) - 1] = <<"unlock", p, p>> /\ T[Len(T)] = <<"done", p, p>>
    /\ \A i \in 1..(Len(T) - 2) : \E j \in Mt!Slots \ {p} : T[i] = <<"look", p, j>>

(* Begins with an instruction that holds for Op, and has the rest R.       *)
Starts(T, i, R) == T # <<>> /\ Head(T) = i /\ Tail(T) = R

LEMMA LooksStep ==
    ASSUME NEW T, NEW p, Looks(T, p)
    PROVE  /\ T # <<>> /\ T \in Seq(Instr) /\ Tail(T) \in Seq(Instr)
           /\ \/ Head(T) = <<"unlock", p, p>> /\ Tail(T) = << <<"done", p, p>> >>
              \/ /\ \E j \in Mt!Slots \ {p} : Head(T) = <<"look", p, j>>
                 /\ Looks(Tail(T), p)
<1>1. T \in Seq(Instr) /\ Len(T) \in Nat /\ Len(T) >= 2 /\ T # <<>>
  BY DEF Looks
<1>2. /\ Tail(T) \in Seq(Instr) /\ Len(Tail(T)) = Len(T) - 1
      /\ \A i \in 1..(Len(T) - 1) : Tail(T)[i] = T[i + 1]
      /\ Head(T) = T[1]
  BY <1>1
<1>3. CASE Len(T) = 2
  <2>1. Head(T) = <<"unlock", p, p>> /\ T[2] = <<"done", p, p>>
    BY <1>2, <1>3 DEF Looks
  <2>2. Len(Tail(T)) = 1 /\ Tail(T)[1] = <<"done", p, p>>
    BY SMTT(90), <1>2, <1>3, <2>1
  <2>3. Tail(T) = << <<"done", p, p>> >>
    <3> DEFINE R == Tail(T)
    <3> DEFINE d == <<"done", p, p>>
    <3>1. R \in Seq(Instr) /\ Len(R) = 1 /\ R[1] = d
      BY <1>2, <2>2
    <3> HIDE DEF R, d
    <3>2. d \in Instr
      BY <3>1
    <3>3. <<d>> \in Seq(Instr) /\ Len(<<d>>) = 1 /\ <<d>>[1] = d
      BY <3>2
    <3>4. R = <<d>>
      BY <3>1, <3>3, SeqEqual
    <3> QED
      BY <3>4 DEF R, d
  <2> QED
    BY <1>1, <1>2, <2>1, <2>3
<1>4. CASE Len(T) # 2
  <2>1. 1 \in 1..(Len(T) - 2)
    <3> DEFINE n == Len(T)
    <3>1. n \in Nat /\ n >= 2 /\ n # 2
      BY <1>1, <1>4
    <3> HIDE DEF n
    <3>2. 1 \in 1..(n - 2)
      BY <3>1
    <3> QED
      BY <3>2 DEF n
  <2>2. \E j \in Mt!Slots \ {p} : Head(T) = <<"look", p, j>>
    BY <1>2, <2>1 DEF Looks
  <2>3. /\ Len(Tail(T)) >= 2
        /\ Tail(T)[Len(Tail(T)) - 1] = <<"unlock", p, p>>
        /\ Tail(T)[Len(Tail(T))] = <<"done", p, p>>
    BY <1>1, <1>2, <1>4 DEF Looks
  <2>4. ASSUME NEW i \in 1..(Len(Tail(T)) - 2)
        PROVE  \E j \in Mt!Slots \ {p} : Tail(T)[i] = <<"look", p, j>>
    <3>1. i + 1 \in 1..(Len(T) - 2) /\ Tail(T)[i] = T[i + 1]
      BY <1>1, <1>2
    <3> QED
      BY <3>1 DEF Looks
  <2> QED
    BY <1>1, <1>2, <2>2, <2>3, <2>4 DEF Looks
<1> QED
  BY <1>3, <1>4

LEMMA CalmStep ==
    ASSUME NEW T, Calm(T), T # <<>>
    PROVE  /\ T \in Seq(Instr) /\ Tail(T) \in Seq(Instr)
           /\ Head(T)[1] \in {"lock", "tell", "tellMove", "done"}
           /\ Head(T)[1] \in {"lock", "tell", "tellMove"} => Head(T)[2] \in Mt!Slots
           /\ Head(T)[1] # "lock" => Calm(Tail(T))
           /\ Head(T)[1] = "lock" =>
                /\ Tail(T) # <<>>
                /\ Head(Tail(T)) = <<"free", Head(T)[2], Head(T)[2]>>
                /\ Calm(Tail(Tail(T)))
<1>1. T \in Seq(Instr) /\ Len(T) \in Nat /\ Len(T) >= 1 /\ Head(T) = T[1]
  BY DEF Calm
<1> DEFINE R == Tail(T)
<1>2. /\ R \in Seq(Instr) /\ Len(R) = Len(T) - 1
      /\ \A i \in 1..(Len(T) - 1) : R[i] = T[i + 1]
  BY <1>1
<1> HIDE DEF R
<1>3. /\ T[1][1] \in {"lock", "tell", "tellMove", "done"}
      /\ T[1][1] \in {"lock", "tell", "tellMove"} => T[1][2] \in Mt!Slots
  <2>1. 1 \in 1..Len(T)
    BY <1>1
  <2>2. /\ T[1][1] \in {"lock", "free", "tell", "tellMove", "done"}
        /\ T[1][1] \in {"lock", "tell", "tellMove"} => T[1][2] \in Mt!Slots
        /\ T[1][1] = "free" => 1 > 1
    BY <2>1 DEF Calm
  <2> QED
    BY <2>2
<1>4. ASSUME NEW i \in 1..Len(R)
      PROVE  /\ R[i][1] \in {"lock", "free", "tell", "tellMove", "done"}
             /\ R[i][1] \in {"lock", "tell", "tellMove"} => R[i][2] \in Mt!Slots
             /\ R[i][1] = "lock" => /\ i < Len(R)
                                    /\ R[i + 1] = <<"free", R[i][2], R[i][2]>>
             /\ R[i][1] = "free" => T[i][1] = "lock"
  <2>1. i + 1 \in 1..Len(T) /\ R[i] = T[i + 1] /\ i + 1 - 1 = i
    BY <1>1, <1>2
  <2>2. /\ T[i + 1][1] \in {"lock", "free", "tell", "tellMove", "done"}
        /\ T[i + 1][1] \in {"lock", "tell", "tellMove"} => T[i + 1][2] \in Mt!Slots
        /\ T[i + 1][1] = "lock" => /\ i + 1 < Len(T)
                                   /\ T[i + 1 + 1] = <<"free", T[i + 1][2], T[i + 1][2]>>
        /\ T[i + 1][1] = "free" => T[i][1] = "lock"
    BY <2>1 DEF Calm
  <2>3. i + 1 < Len(T) => i < Len(R) /\ R[i + 1] = T[i + 1 + 1]
    BY <1>1, <1>2, <2>1
  <2> QED
    BY <2>1, <2>2, <2>3
<1>5. CASE T[1][1] # "lock"
  <2>1. ASSUME NEW i \in 1..Len(R), R[i][1] = "free"
        PROVE  i > 1 /\ R[i - 1][1] = "lock"
    <3>1. T[i][1] = "lock"
      BY <1>4, <2>1
    <3>2. i # 1
      BY <1>5, <3>1
    <3>3. i > 1 /\ i - 1 \in 1..(Len(T) - 1) /\ i - 1 + 1 = i
      BY <1>1, <1>2, <3>2
    <3> QED
      BY <1>2, <3>1, <3>3
  <2>2. Calm(R)
    BY <1>2, <1>4, <2>1 DEF Calm
  <2> QED
    BY <1>1, <1>2, <1>3, <1>5, <2>2 DEF R
<1>6. CASE T[1][1] = "lock"
  <2>1. 1 \in 1..Len(T) /\ T[1][2] \in Mt!Slots /\ 1 < Len(T)
        /\ T[1 + 1] = <<"free", T[1][2], T[1][2]>>
    BY <1>1, <1>6 DEF Calm
  <2>2. R # <<>> /\ Head(R) = <<"free", T[1][2], T[1][2]>> /\ 1 \in 1..Len(R)
    BY <1>1, <1>2, <2>1
  <2>3. Calm(Tail(R))
    <3> DEFINE Q == Tail(R)
    <3>1. /\ Q \in Seq(Instr) /\ Len(Q) = Len(R) - 1
          /\ \A i \in 1..(Len(R) - 1) : Q[i] = R[i + 1]
      BY <1>2, <2>2
    <3> HIDE DEF Q
    <3>2. Len(R) \in Nat
      BY <1>2
    <3>3. ASSUME NEW i \in 1..Len(Q)
          PROVE  /\ Q[i][1] \in {"lock", "free", "tell", "tellMove", "done"}
                 /\ Q[i][1] \in {"lock", "tell", "tellMove"} => Q[i][2] \in Mt!Slots
                 /\ Q[i][1] = "lock" => /\ i < Len(Q)
                                        /\ Q[i + 1] = <<"free", Q[i][2], Q[i][2]>>
                 /\ Q[i][1] = "free" => i > 1 /\ Q[i - 1][1] = "lock"
      <4>1. i + 1 \in 1..Len(R) /\ Q[i] = R[i + 1] /\ R[i] = T[i + 1]
        <5> DEFINE m == Len(R)
        <5> DEFINE n == Len(T)
        <5>1. m \in Nat /\ n \in Nat /\ m = n - 1 /\ Len(Q) = m - 1
          BY <1>1, <1>2, <3>1, <3>2
        <5>2. i \in 1..(m - 1)
          BY <5>1
        <5> HIDE DEF m, n
        <5>3. i + 1 \in 1..m /\ i \in 1..(m - 1) /\ i \in 1..(n - 1)
          BY <5>1, <5>2
        <5> QED
          BY <1>2, <3>1, <5>3 DEF m, n
      <4>2. i + 1 < Len(R) => i < Len(Q) /\ Q[i + 1] = R[i + 1 + 1]
        BY <3>1, <3>2, <4>1
      <4>3. R[i + 1][1] = "free" => T[i + 1][1] = "lock"
        BY <1>4, <4>1
      <4>4. R[i + 1][1] = "free" => i > 1 /\ Q[i - 1][1] = "lock"
        <5> SUFFICES ASSUME R[i + 1][1] = "free" PROVE i > 1 /\ Q[i - 1][1] = "lock"
          OBVIOUS
        <5>1. R[i][1] = "lock"
          BY <4>1, <4>3
        <5>2. i # 1
          BY <2>2, <5>1
        <5>3. i > 1 /\ i - 1 \in 1..(Len(R) - 1) /\ i - 1 + 1 = i
          BY <3>1, <3>2, <5>2
        <5> QED
          BY <3>1, <5>1, <5>3
      <4> QED
        BY <1>4, <4>1, <4>2, <4>4
    <3> QED
      BY <3>1, <3>3 DEF Calm, Q
  <2> QED
    BY <1>1, <1>2, <1>3, <1>6, <2>1, <2>2, <2>3 DEF R
<1> QED
  BY <1>5, <1>6

(***************************************************************************)
(* Where a login of p may be, with the program T and the locks H.          *)
(***************************************************************************)
Me(op, p) == <<op, p, p>>

LoginAt(p, T, H) ==
    \/ /\ H = {}
       /\ \E R : Looks(R, p) /\ T = <<Me("lock", p)>> \o (<<Me("enter", p)>> \o R)
    \/ /\ H = {p}
       /\ \/ \E R : Looks(R, p) /\ T = <<Me("enter", p)>> \o R
          \/ Looks(T, p)
          \/ \E j \in Mt!Slots \ {p} : \E R :
                Looks(R, p) /\ T = << <<"visit", p, j>> >> \o R
    \/ \E j \in Mt!Slots \ {p} : \E R :
          /\ H = {p, j} /\ Looks(R, p)
          /\ \/ \E a, b \in Instr : /\ a[1] = "add" /\ b[1] = "add"
                                    /\ T = <<a>> \o (<<b>> \o (<<Me("unlock", j)>> \o R))
             \/ \E b \in Instr : b[1] = "add" /\ T = <<b>> \o (<<Me("unlock", j)>> \o R)
             \/ T = <<Me("unlock", j)>> \o R
    \/ H = {} /\ T = <<Me("done", p)>>

LEMMA MeParts ==
    ASSUME NEW i \in Mt!Slots,
           NEW op \in {"lock", "free", "unlock", "enter", "look", "visit", "tell", "tellMove",
                       "add", "remove", "done"}
    PROVE  /\ i \in Nat /\ Me(op, i) \in Instr
           /\ Me(op, i)[1] = op /\ Me(op, i)[2] = i /\ Me(op, i)[3] = i
  BY DEF Mt!Slots, Me, Instr

LEMMA LooksStarts ==
    ASSUME NEW T, NEW p, Looks(T, p)
    PROVE  /\ T # <<>> /\ T \in Seq(Instr) /\ Tail(T) \in Seq(Instr)
           /\ \/ Head(T) = Me("unlock", p) /\ Tail(T) = <<Me("done", p)>>
              \/ /\ \E j \in Mt!Slots \ {p} : Head(T) = <<"look", p, j>>
                 /\ Looks(Tail(T), p)
  BY LooksStep DEF Me

LEMMA LoginStep ==
    ASSUME MAX_USER \in Nat, NEW p \in Mt!Slots, NEW T, NEW H, LoginAt(p, T, H)
    PROVE  /\ T # <<>> /\ T \in Seq(Instr) /\ Tail(T) \in Seq(Instr) /\ H \subseteq Mt!Slots
           /\ Head(T)[1] \in {"lock", "unlock", "enter", "look", "visit", "add", "done"}
           /\ Head(T)[1] = "lock" => Head(T)[2] = p /\ H = {} /\ LoginAt(p, Tail(T), {p})
           /\ Head(T)[1] = "unlock" =>
                Head(T)[2] \in H /\ LoginAt(p, Tail(T), H \ {Head(T)[2]})
           /\ Head(T)[1] = "enter" => Head(T)[2] = p /\ LoginAt(p, Tail(T), H)
           /\ Head(T)[1] = "add" => LoginAt(p, Tail(T), H)
           /\ Head(T)[1] \in {"look", "visit"} =>
                /\ Head(T)[2] = p /\ Head(T)[3] \in Mt!Slots \ {p} /\ H = {p}
                /\ Looks(Tail(T), p)
           /\ Head(T)[1] = "done" => H = {}
<1>1. CASE /\ H = {}
           /\ \E R : Looks(R, p) /\ T = <<Me("lock", p)>> \o (<<Me("enter", p)>> \o R)
  <2>1. PICK R : Looks(R, p) /\ T = <<Me("lock", p)>> \o (<<Me("enter", p)>> \o R)
    BY <1>1
  <2>2. R \in Seq(Instr) /\ Me("lock", p) \in Instr /\ Me("enter", p) \in Instr
    BY <2>1, LooksStarts, MeParts
  <2> DEFINE Q == <<Me("enter", p)>> \o R
  <2>3. Q \in Seq(Instr)
    BY <2>2, Cons
  <2>4. T = <<Me("lock", p)>> \o Q
    BY SMTT(60), <2>1
  <2>5. LoginAt(p, Q, {p})
    BY <2>1 DEF LoginAt
  <2> HIDE DEF Q
  <2>6. /\ T # <<>> /\ T \in Seq(Instr) /\ Tail(T) = Q /\ Head(T) = Me("lock", p)
    BY <2>2, <2>3, <2>4, Cons
  <2>7. Head(T)[1] = "lock" /\ Head(T)[2] = p
    BY <2>6, MeParts
  <2>8. LoginAt(p, Tail(T), {p}) /\ Tail(T) \in Seq(Instr) /\ H \subseteq Mt!Slots
    BY <1>1, <2>3, <2>5, <2>6
  <2> QED
    BY <1>1, <2>6, <2>7, <2>8
<1>2. CASE H = {p} /\ \E R : Looks(R, p) /\ T = <<Me("enter", p)>> \o R
  <2>1. PICK R : Looks(R, p) /\ T = <<Me("enter", p)>> \o R
    BY <1>2
  <2>2. R \in Seq(Instr) /\ Me("enter", p) \in Instr
    BY <2>1, LooksStarts, MeParts
  <2>3. /\ T # <<>> /\ T \in Seq(Instr) /\ Tail(T) = R /\ Head(T) = Me("enter", p)
    BY <2>1, <2>2, Cons
  <2>4. LoginAt(p, R, {p})
    BY <2>1 DEF LoginAt
  <2>5. Head(T)[1] = "enter" /\ Head(T)[2] = p
    BY <2>3, MeParts
  <2>6. LoginAt(p, Tail(T), H) /\ Tail(T) \in Seq(Instr) /\ H \subseteq Mt!Slots
    BY <1>2, <2>2, <2>3, <2>4
  <2> QED
    BY <2>3, <2>5, <2>6
<1>3. CASE H = {p} /\ Looks(T, p)
  <2>1. CASE Head(T) = Me("unlock", p) /\ Tail(T) = <<Me("done", p)>>
    <3>1. LoginAt(p, Tail(T), {})
      BY <2>1 DEF LoginAt
    <3>2. H \ {p} = {}
      BY <1>3
    <3>3. Head(T)[1] = "unlock" /\ Head(T)[2] = p
      BY <2>1, MeParts
    <3>4. LoginAt(p, Tail(T), H \ {p}) /\ p \in H /\ H \subseteq Mt!Slots
      BY <1>3, <3>1, <3>2
    <3>5. T # <<>> /\ T \in Seq(Instr) /\ Tail(T) \in Seq(Instr)
      BY <1>3, LooksStarts
    <3> QED
      BY <3>3, <3>4, <3>5
  <2>2. CASE (\E j \in Mt!Slots \ {p} : Head(T) = <<"look", p, j>>) /\ Looks(Tail(T), p)
    BY <1>3, <2>2, LooksStarts
  <2> QED
    BY <1>3, <2>1, <2>2, LooksStarts
<1>4. CASE H = {p} /\ \E j \in Mt!Slots \ {p} : \E R :
                Looks(R, p) /\ T = << <<"visit", p, j>> >> \o R
  <2>0. PICK j \in Mt!Slots \ {p} : \E R : Looks(R, p) /\ T = << <<"visit", p, j>> >> \o R
    BY <1>4
  <2>1. PICK R : Looks(R, p) /\ T = << <<"visit", p, j>> >> \o R
    BY <2>0
  <2>2. R \in Seq(Instr) /\ <<"visit", p, j>> \in Instr
    BY <2>1, LooksStarts, MeParts DEF Instr
  <2>3. /\ T # <<>> /\ T \in Seq(Instr) /\ Tail(T) = R /\ Head(T) = <<"visit", p, j>>
    BY <2>1, <2>2, Cons
  <2>4. Head(T)[1] = "visit" /\ Head(T)[2] = p /\ Head(T)[3] = j
    BY <2>3
  <2>5. Looks(Tail(T), p) /\ Tail(T) \in Seq(Instr) /\ H \subseteq Mt!Slots
    BY <1>4, <2>1, <2>2, <2>3
  <2> QED
    BY <1>4, <2>3, <2>4, <2>5
<1>5. ASSUME NEW j \in Mt!Slots \ {p}, NEW R, H = {p, j}, Looks(R, p),
             NEW b \in Instr, b[1] = "add", NEW a \in Instr, a[1] = "add",
             T = <<a>> \o (<<b>> \o (<<Me("unlock", j)>> \o R))
      PROVE  /\ T # <<>> /\ T \in Seq(Instr) /\ Tail(T) \in Seq(Instr)
             /\ Head(T)[1] = "add" /\ LoginAt(p, Tail(T), H)
  <2>1. R \in Seq(Instr) /\ Me("unlock", j) \in Instr
    BY <1>5, LooksStarts, MeParts
  <2> DEFINE Q == <<b>> \o (<<Me("unlock", j)>> \o R)
  <2>2. Q \in Seq(Instr)
    BY <2>1, Cons
  <2>3. LoginAt(p, Q, H)
    BY <1>5 DEF LoginAt
  <2>4. T = <<a>> \o Q
    BY <1>5
  <2> HIDE DEF Q
  <2>5. T # <<>> /\ T \in Seq(Instr) /\ Head(T) = a /\ Tail(T) = Q
    BY <2>2, <2>4, Cons
  <2> QED
    BY <1>5, <2>2, <2>3, <2>5
<1>6. ASSUME NEW j \in Mt!Slots \ {p}, NEW R, H = {p, j}, Looks(R, p),
             NEW b \in Instr, b[1] = "add", T = <<b>> \o (<<Me("unlock", j)>> \o R)
      PROVE  /\ T # <<>> /\ T \in Seq(Instr) /\ Tail(T) \in Seq(Instr)
             /\ Head(T)[1] = "add" /\ LoginAt(p, Tail(T), H)
  <2>1. R \in Seq(Instr) /\ Me("unlock", j) \in Instr
    BY <1>6, LooksStarts, MeParts
  <2> DEFINE Q == <<Me("unlock", j)>> \o R
  <2>2. Q \in Seq(Instr)
    BY <2>1, Cons
  <2>3. LoginAt(p, Q, H)
    BY <1>6 DEF LoginAt
  <2>4. T = <<b>> \o Q
    BY <1>6
  <2> HIDE DEF Q
  <2>5. T # <<>> /\ T \in Seq(Instr) /\ Head(T) = b /\ Tail(T) = Q
    BY <2>2, <2>4, Cons
  <2> QED
    BY <1>6, <2>2, <2>3, <2>5
<1>7. ASSUME NEW j \in Mt!Slots \ {p}, NEW R, H = {p, j}, Looks(R, p),
             T = <<Me("unlock", j)>> \o R
      PROVE  /\ T # <<>> /\ T \in Seq(Instr) /\ Tail(T) \in Seq(Instr)
             /\ Head(T) = Me("unlock", j) /\ LoginAt(p, Tail(T), H \ {j})
  <2>1. R \in Seq(Instr) /\ Me("unlock", j) \in Instr
    BY <1>7, LooksStarts, MeParts
  <2>2. T # <<>> /\ T \in Seq(Instr) /\ Head(T) = Me("unlock", j) /\ Tail(T) = R
    BY <1>7, <2>1, Cons
  <2>3. H \ {j} = {p}
    BY <1>7
  <2>4. LoginAt(p, R, {p})
    BY <1>7 DEF LoginAt
  <2> QED
    BY <2>1, <2>2, <2>3, <2>4
<1>8. CASE H = {} /\ T = <<Me("done", p)>>
  <2>1. Me("done", p) \in Instr
    BY MeParts
  <2>2. <<>> \in Seq(Instr) /\ T = <<Me("done", p)>> \o <<>>
    BY <1>8
  <2>3. T # <<>> /\ T \in Seq(Instr) /\ Head(T) = Me("done", p) /\ Tail(T) = <<>>
    BY <2>1, <2>2, Cons
  <2> QED
    BY <1>8, <2>2, <2>3, MeParts
<1>9. CASE \E j \in Mt!Slots \ {p} : \E R :
              /\ H = {p, j} /\ Looks(R, p)
              /\ \/ \E a, b \in Instr : /\ a[1] = "add" /\ b[1] = "add"
                                        /\ T = <<a>> \o (<<b>> \o (<<Me("unlock", j)>> \o R))
                 \/ \E b \in Instr : b[1] = "add" /\ T = <<b>> \o (<<Me("unlock", j)>> \o R)
                 \/ T = <<Me("unlock", j)>> \o R
  <2>0. PICK j \in Mt!Slots \ {p} : \E R :
              /\ H = {p, j} /\ Looks(R, p)
              /\ \/ \E a, b \in Instr : /\ a[1] = "add" /\ b[1] = "add"
                                        /\ T = <<a>> \o (<<b>> \o (<<Me("unlock", j)>> \o R))
                 \/ \E b \in Instr : b[1] = "add" /\ T = <<b>> \o (<<Me("unlock", j)>> \o R)
                 \/ T = <<Me("unlock", j)>> \o R
    BY <1>9
  <2>1. PICK R :
              /\ H = {p, j} /\ Looks(R, p)
              /\ \/ \E a, b \in Instr : /\ a[1] = "add" /\ b[1] = "add"
                                        /\ T = <<a>> \o (<<b>> \o (<<Me("unlock", j)>> \o R))
                 \/ \E b \in Instr : b[1] = "add" /\ T = <<b>> \o (<<Me("unlock", j)>> \o R)
                 \/ T = <<Me("unlock", j)>> \o R
    BY <2>0
  <2>2. H \subseteq Mt!Slots /\ j \in H
    BY <2>1
  <2>3. CASE T = <<Me("unlock", j)>> \o R
    <3>1. Head(T)[1] = "unlock" /\ Head(T)[2] = j
      BY <1>7, <2>1, <2>3, MeParts
    <3> QED
      BY <1>7, <2>1, <2>2, <2>3, <3>1
  <2>4. CASE T # <<Me("unlock", j)>> \o R
    <3>1. /\ T # <<>> /\ T \in Seq(Instr) /\ Tail(T) \in Seq(Instr)
          /\ Head(T)[1] = "add" /\ LoginAt(p, Tail(T), H)
      BY <1>5, <1>6, <2>1, <2>4
    <3> QED
      BY <2>2, <3>1
  <2> QED
    BY <2>3, <2>4
<1> QED
  BY <1>1, <1>2, <1>3, <1>4, <1>8, <1>9 DEF LoginAt

(* Where any other handler may be, with the program T and the locks H.     *)
OtherAt(T, H) ==
    \/ H = {} /\ Calm(T)
    \/ \E o \in Mt!Slots : \E R :
          /\ H = {o} /\ Calm(R)
          /\ \/ T = <<Me("free", o)>> \o R
             \/ T = <<Me("unlock", o)>> \o R
             \/ \E b \in Instr : b[1] = "remove" /\ T = <<b>> \o (<<Me("unlock", o)>> \o R)

LEMMA OtherStep ==
    ASSUME NEW T, NEW H, OtherAt(T, H)
    PROVE  /\ T \in Seq(Instr) /\ H \subseteq Mt!Slots
           /\ T = <<>> => H = {}
           /\ T # <<>> =>
                /\ Tail(T) \in Seq(Instr)
                /\ Head(T)[1] \in {"lock", "free", "tell", "tellMove", "remove", "unlock", "done"}
                /\ Head(T)[1] \in {"lock", "tell", "tellMove"} => Head(T)[2] \in Mt!Slots
                /\ Head(T)[1] \in {"lock", "tell", "tellMove", "done"} => H = {}
                /\ Head(T)[1] = "lock" => OtherAt(Tail(T), {Head(T)[2]})
                /\ Head(T)[1] \in {"free", "unlock"} =>
                     H = {Head(T)[2]} /\ OtherAt(Tail(T), {})
                /\ Head(T)[1] \in {"tell", "tellMove"} => Calm(Tail(T))
                /\ Head(T)[1] = "remove" => OtherAt(Tail(T), H)
<1>1. CASE H = {} /\ Calm(T) /\ T # <<>>
  <2> DEFINE R == Tail(T)
  <2>1. /\ T \in Seq(Instr) /\ R \in Seq(Instr)
        /\ Head(T)[1] \in {"lock", "tell", "tellMove", "done"}
        /\ Head(T)[1] \in {"lock", "tell", "tellMove"} => Head(T)[2] \in Mt!Slots
        /\ Head(T)[1] # "lock" => Calm(R)
        /\ Head(T)[1] = "lock" =>
             /\ R # <<>> /\ Head(R) = <<"free", Head(T)[2], Head(T)[2]>> /\ Calm(Tail(R))
    BY <1>1, CalmStep
  <2> HIDE DEF R
  <2>2. ASSUME Head(T)[1] = "lock" PROVE OtherAt(R, {Head(T)[2]})
    <3>1. R = <<Me("free", Head(T)[2])>> \o Tail(R)
      BY <2>1, <2>2, Uncons DEF Me
    <3> QED
      BY <2>1, <2>2, <3>1 DEF OtherAt
  <2> QED
    BY <1>1, <2>1, <2>2 DEF R
<1>2. CASE H = {} /\ Calm(T) /\ T = <<>>
  BY <1>2 DEF Calm
<1>3. ASSUME NEW o \in Mt!Slots, NEW R, H = {o}, Calm(R), NEW op \in {"free", "unlock"},
             T = <<Me(op, o)>> \o R
      PROVE  /\ T \in Seq(Instr) /\ Tail(T) \in Seq(Instr) /\ T # <<>>
             /\ Head(T)[1] = op /\ Head(T)[2] = o /\ OtherAt(Tail(T), {})
  <2>1. R \in Seq(Instr) /\ Me(op, o) \in Instr
    BY <1>3, MeParts DEF Calm
  <2>2. T # <<>> /\ T \in Seq(Instr) /\ Head(T) = Me(op, o) /\ Tail(T) = R
    BY <1>3, <2>1, Cons
  <2>3. OtherAt(R, {})
    BY <1>3 DEF OtherAt
  <2>4. Head(T)[1] = op /\ Head(T)[2] = o
    BY <1>3, <2>2, MeParts
  <2> QED
    BY <2>1, <2>2, <2>3, <2>4
<1>4. ASSUME NEW o \in Mt!Slots, NEW R, H = {o}, Calm(R), NEW b \in Instr, b[1] = "remove",
             T = <<b>> \o (<<Me("unlock", o)>> \o R)
      PROVE  /\ T \in Seq(Instr) /\ Tail(T) \in Seq(Instr) /\ T # <<>>
             /\ Head(T)[1] = "remove" /\ OtherAt(Tail(T), H)
  <2> DEFINE Q == <<Me("unlock", o)>> \o R
  <2>1. R \in Seq(Instr) /\ Me("unlock", o) \in Instr
    BY <1>4, MeParts DEF Calm
  <2>2. Q \in Seq(Instr)
    BY <2>1, Cons
  <2>3. OtherAt(Q, H)
    BY <1>4 DEF OtherAt
  <2>4. T = <<b>> \o Q
    BY <1>4
  <2> HIDE DEF Q
  <2>5. T # <<>> /\ T \in Seq(Instr) /\ Head(T) = b /\ Tail(T) = Q
    BY <2>2, <2>4, Cons
  <2> QED
    BY <1>4, <2>2, <2>3, <2>5
<1>5. CASE \E o \in Mt!Slots : \E R :
          /\ H = {o} /\ Calm(R)
          /\ \/ T = <<Me("free", o)>> \o R
             \/ T = <<Me("unlock", o)>> \o R
             \/ \E b \in Instr : b[1] = "remove" /\ T = <<b>> \o (<<Me("unlock", o)>> \o R)
  <2>0. PICK o \in Mt!Slots : \E R :
          /\ H = {o} /\ Calm(R)
          /\ \/ T = <<Me("free", o)>> \o R
             \/ T = <<Me("unlock", o)>> \o R
             \/ \E b \in Instr : b[1] = "remove" /\ T = <<b>> \o (<<Me("unlock", o)>> \o R)
    BY <1>5
  <2>1. PICK R :
          /\ H = {o} /\ Calm(R)
          /\ \/ T = <<Me("free", o)>> \o R
             \/ T = <<Me("unlock", o)>> \o R
             \/ \E b \in Instr : b[1] = "remove" /\ T = <<b>> \o (<<Me("unlock", o)>> \o R)
    BY <2>0
  <2>2. CASE T = <<Me("free", o)>> \o R
    <3>1. /\ T \in Seq(Instr) /\ Tail(T) \in Seq(Instr) /\ T # <<>>
          /\ Head(T)[1] = "free" /\ Head(T)[2] = o /\ OtherAt(Tail(T), {})
      BY <1>3, <2>1, <2>2
    <3> QED
      BY <2>1, <3>1
  <2>3. CASE T = <<Me("unlock", o)>> \o R
    <3>1. /\ T \in Seq(Instr) /\ Tail(T) \in Seq(Instr) /\ T # <<>>
          /\ Head(T)[1] = "unlock" /\ Head(T)[2] = o /\ OtherAt(Tail(T), {})
      BY <1>3, <2>1, <2>3
    <3> QED
      BY <2>1, <3>1
  <2>4. CASE \E b \in Instr : b[1] = "remove" /\ T = <<b>> \o (<<Me("unlock", o)>> \o R)
    <3>1. /\ T \in Seq(Instr) /\ Tail(T) \in Seq(Instr) /\ T # <<>>
          /\ Head(T)[1] = "remove" /\ OtherAt(Tail(T), H)
      BY <1>4, <2>1, <2>4
    <3> QED
      BY <2>1, <3>1
  <2> QED
    BY <2>1, <2>2, <2>3, <2>4
<1> QED
  BY <1>1, <1>2, <1>5 DEF OtherAt

(***************************************************************************)
(* The programs that handlers begin with.                                  *)
(***************************************************************************)
LEMMA OthersOf ==
    ASSUME Mt!MtServerAssumption, NEW p \in Mt!Slots
    PROVE  \E n \in Nat :
              /\ DOMAIN Mt!Others(p) = 1..n
              /\ \A k \in 1..n : Mt!Others(p)[k] \in Mt!Slots
              /\ p < MAX_USER => \A k \in 1..n : Mt!Others(p)[k] # p
<1>1. MAX_USER \in Nat /\ MAX_USER >= 1 /\ p \in 1..MAX_USER
  BY DEF Mt!MtServerAssumption, Mt!Slots
<1>2. CASE p < MAX_USER
  <2>1. MAX_USER - 1 \in Nat
    BY <1>1
  <2>2. Mt!Others(p) = [k \in 1..(MAX_USER - 1) |-> IF k < p THEN k ELSE k + 1]
    BY <1>2 DEF Mt!Others
  <2>3. ASSUME NEW k \in 1..(MAX_USER - 1)
        PROVE  Mt!Others(p)[k] \in Mt!Slots /\ Mt!Others(p)[k] # p
    BY <1>1, <2>2 DEF Mt!Slots
  <2>4. DOMAIN Mt!Others(p) = 1..(MAX_USER - 1)
    BY <2>2
  <2> QED
    BY <2>1, <2>3, <2>4
<1>3. CASE ~(p < MAX_USER)
  <2>1. Mt!Others(p) = [k \in 1..MAX_USER |-> k]
    BY <1>3 DEF Mt!Others, Mt!Slots
  <2>2. /\ DOMAIN Mt!Others(p) = 1..MAX_USER
        /\ \A k \in 1..MAX_USER : Mt!Others(p)[k] \in Mt!Slots
    BY <2>1 DEF Mt!Slots
  <2> QED
    BY <1>1, <1>3, <2>2
<1> QED
  BY <1>2, <1>3

LEMMA LoginStarts ==
    ASSUME Mt!MtServerAssumption, NEW p \in Mt!Slots, p < MAX_USER
    PROVE  LoginAt(p, Mt!LoginProgram(p), {})
<1> DEFINE l == Me("lock", p)
           e == Me("enter", p)
           u == Me("unlock", p)
           d == Me("done", p)
           X == [k \in DOMAIN Mt!Others(p) |-> <<"look", p, Mt!Others(p)[k]>>]
           D == <<u, d>>
           R == X \o D
<1>1. PICK n \in Nat : /\ DOMAIN Mt!Others(p) = 1..n
                       /\ \A k \in 1..n : Mt!Others(p)[k] \in Mt!Slots \ {p}
  BY OthersOf
<1>2. l \in Instr /\ e \in Instr /\ u \in Instr /\ d \in Instr
  BY MeParts
<1>3. X \in Seq(Instr) /\ Len(X) = n
      /\ \A k \in 1..n : \E j \in Mt!Slots \ {p} : X[k] = <<"look", p, j>>
  <2>1. ASSUME NEW k \in 1..n
        PROVE  /\ <<"look", p, Mt!Others(p)[k]>> \in Instr
               /\ X[k] = <<"look", p, Mt!Others(p)[k]>>
    BY <1>1, MeParts DEF Instr
  <2>2. X \in [1..n -> Instr]
    BY <1>1, <2>1
  <2> QED
    BY <1>1, <2>1, <2>2
<1>4. D \in Seq(Instr) /\ Len(D) = 2 /\ D[1] = u /\ D[2] = d
  BY <1>2
<1> Mt!LoginProgram(p) = (<<l, e>> \o X) \o D
  BY DEF Mt!LoginProgram, Me
<1> HIDE DEF l, e, u, d, X, D
<1>5. /\ R \in Seq(Instr) /\ Len(R) = n + 2
      /\ \A i \in 1..n : R[i] = X[i]
      /\ \A i \in 1..2 : R[n + i] = D[i]
  <2> X \in Seq(Instr) /\ D \in Seq(Instr)
    BY <1>3, <1>4
  <2>1. /\ R \in Seq(Instr) /\ Len(R) = Len(X) + Len(D)
        /\ \A i \in 1..Len(X) : R[i] = X[i]
        /\ \A i \in 1..Len(D) : R[Len(X) + i] = D[i]
    BY Joined
  <2>2. Len(X) = n /\ Len(D) = 2
    BY <1>3, <1>4
  <2> HIDE DEF R
  <2> QED
    BY <2>1, <2>2
<1> HIDE DEF R
<1>6. Looks(R, p)
  <2>1. R[n + 2 - 1] = u /\ R[n + 2] = d
    <3>1. n + 2 - 1 = n + 1
      OBVIOUS
    <3> QED
      BY <1>4, <1>5, <3>1
  <2>2. ASSUME NEW i \in 1..(n + 2 - 2)
        PROVE  \E j \in Mt!Slots \ {p} : R[i] = <<"look", p, j>>
    <3>1. i \in 1..n
      OBVIOUS
    <3> QED
      BY <1>3, <1>5, <3>1
  <2>3. n + 2 >= 2
    OBVIOUS
  <2> QED
    BY <1>5, <2>1, <2>2, <2>3 DEF Looks, Me, u, d
<1>7. Mt!LoginProgram(p) = <<l>> \o (<<e>> \o R)
  <2>1. <<l>> \in Seq(Instr) /\ <<e>> \in Seq(Instr) /\ <<l, e>> \in Seq(Instr)
    BY <1>2
  <2>2. <<l, e>> = <<l>> \o <<e>>
    BY <1>2, Pair
  <2>3. (<<l, e>> \o X) \o D = <<l, e>> \o R
    BY <1>3, <1>4, <2>1, ConcatAssociative DEF R
  <2>4. (<<l>> \o <<e>>) \o R = <<l>> \o (<<e>> \o R)
    BY <1>5, <2>1, ConcatAssociative
  <2> QED
    BY <2>2, <2>3, <2>4
<1> QED
  BY <1>6, <1>7 DEF LoginAt, l, e

LEMMA CalmConcat ==
    ASSUME NEW A, NEW B, Calm(A), Calm(B)
    PROVE  Calm(A \o B)
<1> DEFINE C == A \o B
           a == Len(A)
           b == Len(B)
           Fine(T, i) == /\ T[i][1] \in {"lock", "free", "tell", "tellMove", "done"}
                         /\ T[i][1] \in {"lock", "tell", "tellMove"} => T[i][2] \in Mt!Slots
                         /\ T[i][1] = "lock" => /\ i < Len(T)
                                                /\ T[i + 1] = <<"free", T[i][2], T[i][2]>>
                         /\ T[i][1] = "free" => i > 1 /\ T[i - 1][1] = "lock"
<1>1. A \in Seq(Instr) /\ B \in Seq(Instr) /\ a \in Nat /\ b \in Nat
  BY DEF Calm
<1>2. /\ C \in Seq(Instr) /\ Len(C) = a + b
      /\ \A i \in 1..a : C[i] = A[i]
      /\ \A i \in 1..b : C[a + i] = B[i]
  BY <1>1, Joined
<1> HIDE DEF C
<1>3. ASSUME NEW i \in 1..a PROVE Fine(C, i)
  <2>1. Fine(A, i) /\ C[i] = A[i]
    BY <1>2 DEF Calm
  <2> HIDE DEF a, b
  <2>2. i < a => i < a + b /\ C[i + 1] = A[i + 1]
    <3>1. i < a => i + 1 \in 1..a
      BY <1>1
    <3>2. i < a => i < a + b
      BY <1>1
    <3> QED
      BY <1>2, <3>1, <3>2
  <2>3. i > 1 => C[i - 1] = A[i - 1]
    <3>1. i > 1 => i - 1 \in 1..a
      BY <1>1
    <3> QED
      BY <1>2, <3>1
  <2>4. Len(A) = a /\ Len(C) = a + b
    BY <1>2 DEF a
  <2> QED
    BY <2>1, <2>2, <2>3, <2>4
<1>4. ASSUME NEW i \in 1..b PROVE Fine(C, a + i)
  <2>1. Fine(B, i) /\ C[a + i] = B[i]
    BY <1>2 DEF Calm
  <2> HIDE DEF a, b
  <2>2. i < b => a + i < a + b /\ C[a + i + 1] = B[i + 1]
    <3>1. i < b => i + 1 \in 1..b /\ a + (i + 1) = a + i + 1 /\ a + i < a + b
      BY <1>1
    <3> QED
      BY <1>2, <3>1
  <2>3. i > 1 => a + i > 1 /\ C[a + i - 1] = B[i - 1]
    <3>1. i > 1 => i - 1 \in 1..b /\ a + (i - 1) = a + i - 1 /\ a + i > 1
      BY <1>1
    <3> QED
      BY <1>2, <3>1
  <2>4. Len(B) = b /\ Len(C) = a + b
    BY <1>2 DEF b
  <2> DEFINE k == a + i
  <2>5. C[k] = B[i]
    BY <2>1
  <2>6. i < Len(B) => k < Len(C) /\ C[k + 1] = B[i + 1]
    BY <2>2, <2>4
  <2>7. i > 1 => k > 1 /\ C[k - 1] = B[i - 1]
    BY <1>1, <2>3
  <2> HIDE DEF k
  <2>8. Fine(C, k)
    BY <2>1, <2>5, <2>6, <2>7
  <2> QED
    BY <2>8 DEF k
<1>5. ASSUME NEW i \in 1..Len(C) PROVE Fine(C, i)
  <2> HIDE DEF a, b, Fine
  <2>1. i \in 1..(a + b)
    BY <1>2
  <2>2. CASE i <= a
    <3>1. i \in 1..a
      BY <1>1, <2>1, <2>2
    <3> QED
      BY <1>3, <3>1
  <2>3. CASE ~(i <= a)
    <3>1. i - a \in 1..b /\ a + (i - a) = i
      BY <1>1, <2>1, <2>3
    <3>2. Fine(C, a + (i - a))
      BY <1>4, <3>1
    <3> QED
      BY <3>1, <3>2
  <2> QED
    BY <2>2, <2>3
<1> QED
  BY <1>2, <1>5 DEF Calm, C


LEMMA CalmTells ==
    ASSUME NEW n \in Nat, NEW X \in [1..n -> Instr],
           \A k \in 1..n : X[k][1] \in {"tell", "tellMove"} /\ X[k][2] \in Mt!Slots
    PROVE  Calm(X)
<1>1. X \in Seq(Instr) /\ Len(X) = n
  OBVIOUS
<1>2. ASSUME NEW i \in 1..Len(X)
      PROVE  /\ X[i][1] \in {"lock", "free", "tell", "tellMove", "done"}
             /\ X[i][2] \in Mt!Slots /\ X[i][1] # "lock" /\ X[i][1] # "free"
  BY <1>1
<1> QED
  BY <1>1, <1>2 DEF Calm

LEMMA CalmNothing == Calm(<<>>)
<1>1. <<>> \in Seq(Instr) /\ Len(<<>>) = 0
  OBVIOUS
<1> QED
  BY <1>1 DEF Calm

LEMMA CalmEnds ==
    ASSUME NEW p \in Mt!Slots
    PROVE  /\ Calm(<<>>)
           /\ Calm(<<Me("done", p)>>)
           /\ Calm(<<Me("lock", p), Me("free", p)>>)
<1>1. Calm(<<>>)
  BY CalmNothing
<1>2. Calm(<<Me("done", p)>>)
  <2> DEFINE d == Me("done", p)
             T == <<d>>
  <2>1. d \in Instr /\ d[1] = "done"
    BY MeParts
  <2> HIDE DEF d
  <2>2. T \in Seq(Instr) /\ Len(T) = 1 /\ T[1] = d
    BY <2>1
  <2> HIDE DEF T
  <2>3. \A i \in 1..Len(T) : T[i] = d
    BY <2>2
  <2>4. Calm(T)
    BY <2>1, <2>2, <2>3 DEF Calm
  <2> QED
    BY <2>4 DEF T, d
<1>3. Calm(<<Me("lock", p), Me("free", p)>>)
  <2> DEFINE l == Me("lock", p)
             f == Me("free", p)
             T == <<l, f>>
  <2>1. l \in Instr /\ l[1] = "lock" /\ l[2] = p /\ f \in Instr /\ f[1] = "free"
    BY MeParts
  <2>2. f = <<"free", l[2], l[2]>>
    BY <2>1 DEF Me
  <2> HIDE DEF l, f
  <2>3. T \in Seq(Instr) /\ Len(T) = 2 /\ T[1] = l /\ T[2] = f
    BY <2>1
  <2> HIDE DEF T
  <2>4. ASSUME NEW i \in 1..Len(T)
        PROVE  /\ T[i][1] \in {"lock", "free", "tell", "tellMove", "done"}
               /\ T[i][1] \in {"lock", "tell", "tellMove"} => T[i][2] \in Mt!Slots
               /\ T[i][1] = "lock" => /\ i < Len(T)
                                      /\ T[i + 1] = <<"free", T[i][2], T[i][2]>>
               /\ T[i][1] = "free" => i > 1 /\ T[i - 1][1] = "lock"
    <3>1. i = 1 \/ i = 2
      BY <2>3
    <3>2. CASE i = 1
      BY <2>1, <2>2, <2>3, <3>2
    <3>3. CASE i = 2
      BY <2>1, <2>3, <3>3
    <3> QED
      BY <3>1, <3>2, <3>3
  <2>5. Calm(T)
    BY <2>3, <2>4 DEF Calm
  <2> QED
    BY <2>5 DEF T, l, f
<1> QED
  BY <1>1, <1>2, <1>3

LEMMA CalmPrograms ==
    ASSUME Mt!MtServerAssumption, NEW p \in Mt!Slots
    PROVE  /\ Calm(Mt!MoveProgram(p)) /\ Calm(Mt!DisconnectProgram(p))
           /\ Calm(Mt!DisconnectProgram(p) \o <<Me("done", p)>>)
           /\ Calm(Mt!DisconnectProgram(p) \o Mt!DisconnectProgram(p) \o <<Me("done", p)>>)
<1>1. Calm(Mt!MoveProgram(p))
  <2> DEFINE X == [i \in Mt!Slots |-> <<"tellMove", i, p>>]
  <2>1. MAX_USER \in Nat /\ Mt!Slots = 1..MAX_USER
    BY DEF Mt!MtServerAssumption, Mt!Slots
  <2>2. ASSUME NEW k \in Mt!Slots
        PROVE  X[k] \in Instr /\ X[k][1] = "tellMove" /\ X[k][2] = k
    BY MeParts DEF Instr
  <2>3. X \in [Mt!Slots -> Instr]
    BY <2>2
  <2> HIDE DEF X
  <2>4. Calm(X)
    BY <2>1, <2>2, <2>3, CalmTells
  <2>5. Calm(X \o <<Me("done", p)>>)
    BY <2>4, CalmEnds, CalmConcat
  <2> QED
    BY <2>5 DEF Mt!MoveProgram, X, Me
<1>2. Calm(Mt!DisconnectProgram(p))
  <2>1. PICK n \in Nat : /\ DOMAIN Mt!Others(p) = 1..n
                         /\ \A k \in 1..n : Mt!Others(p)[k] \in Mt!Slots
    BY OthersOf
  <2> DEFINE X == [k \in DOMAIN Mt!Others(p) |-> <<"tell", Mt!Others(p)[k], p>>]
  <2>2. ASSUME NEW k \in 1..n
        PROVE  X[k] \in Instr /\ X[k][1] = "tell" /\ X[k][2] \in Mt!Slots
    BY <2>1, <2>2, MeParts DEF Instr
  <2>3. X \in [1..n -> Instr]
    BY <2>1, <2>2
  <2> HIDE DEF X
  <2>4. Calm(X)
    BY <2>2, <2>3, CalmTells
  <2>5. Calm(<<Me("lock", p), Me("free", p)>> \o X)
    BY <2>4, CalmEnds, CalmConcat
  <2> QED
    BY <2>5 DEF Mt!DisconnectProgram, X, Me
<1> DEFINE D == Mt!DisconnectProgram(p)
           d == <<Me("done", p)>>
<1>3. Calm(D) /\ Calm(d)
  BY <1>2, CalmEnds
<1> HIDE DEF D, d
<1>4. Calm(D \o d) /\ Calm(D \o D)
  BY <1>3, CalmConcat
<1>5. Calm((D \o D) \o d)
  BY <1>3, <1>4, CalmConcat
<1> QED
  BY <1>1, <1>3, <1>4, <1>5 DEF D, d

(***************************************************************************)
(* The inductive invariant.                                                *)
(***************************************************************************)
Handlers == [op : {"idle", "login", "move", "quit", "abort"}, id : 0..MAX_USER,
             life : Nat, todo : Seq(Instr)]

MtType ==
    /\ state \in [Mt!Slots -> {"FREE", "CONNECTED", "INGAME"}]
    /\ slock \in [Mt!Slots -> Workers \cup {0}]
    /\ lives \in [Mt!Slots -> Nat]
    /\ task \in [Workers -> Handlers]

(* Clients are in the first slots, so that the last one is never taken.    *)
FirstSlots == \A p \in Mt!Slots : state[p] # "FREE" => p <= MaxClients

InHandler(w) ==
    IF task[w].op = "login"
    THEN task[w].id \in 1..MaxClients /\ LoginAt(task[w].id, Todo(w), Held(w))
    ELSE OtherAt(Todo(w), Held(w))

MtInv == MtType /\ FirstSlots /\ \A w \in Workers : InHandler(w)

(* A worker goes on to the next instruction, after more.                   *)
LEMMA GoesOn ==
    ASSUME MtType, NEW w \in Workers, NEW more \in Seq(Instr), Todo(w) # <<>>, Mt!Go(w, more)
    PROVE  /\ task' \in [Workers -> Handlers]
           /\ Todo(w)' = more \o Tail(Todo(w))
           /\ task'[w].op = task[w].op /\ task'[w].id = task[w].id
           /\ \A u \in Workers \ {w} : task'[u] = task[u]
<1> DEFINE t == task[w]
           T == more \o Tail(t.todo)
           t2 == [t EXCEPT !.todo = T]
<1>1. t \in Handlers
  BY DEF MtType
<1>2. t.todo \in Seq(Instr) /\ t.todo # <<>>
  BY <1>1 DEF Handlers, Todo
<1>3. T \in Seq(Instr)
  <2>1. Tail(t.todo) \in Seq(Instr)
    BY <1>2
  <2> QED
    BY <2>1
<1>4. task' = [task EXCEPT ![w] = t2]
  BY DEF Mt!Go
<1> HIDE DEF T
<1>5. t2 \in Handlers /\ t2.todo = T /\ t2.op = t.op /\ t2.id = t.id
  BY <1>1, <1>3 DEF Handlers
<1>6. task \in [Workers -> Handlers]
  BY DEF MtType
<1> HIDE DEF t, t2
<1>7. /\ task' \in [Workers -> Handlers] /\ task'[w] = t2
      /\ \A u \in Workers \ {w} : task'[u] = task[u]
  BY <1>4, <1>5, <1>6
<1> QED
  BY <1>5, <1>7 DEF t, T, Todo

(* A lock is taken, or given back: no other worker's locks change.         *)
LEMMA Takes ==
    ASSUME Mt!MtServerAssumption, MtType, NEW w \in Workers, NEW s \in Mt!Slots,
           slock[s] = 0, slock' = [slock EXCEPT ![s] = w]
    PROVE  /\ slock' \in [Mt!Slots -> Workers \cup {0}]
           /\ Held(w)' = Held(w) \cup {s}
           /\ \A u \in Workers \ {w} : Held(u)' = Held(u)
<1>1. 0 \notin Workers /\ slock \in [Mt!Slots -> Workers \cup {0}]
  BY DEF Mt!MtServerAssumption, MtType
<1>2. \A o \in Mt!Slots : slock'[o] = IF o = s THEN w ELSE slock[o]
  BY <1>1
<1> QED
  BY <1>1, <1>2 DEF Held

LEMMA GivesBack ==
    ASSUME Mt!MtServerAssumption, MtType, NEW w \in Workers, NEW s \in Held(w),
           slock' = [slock EXCEPT ![s] = 0]
    PROVE  /\ slock' \in [Mt!Slots -> Workers \cup {0}]
           /\ Held(w)' = Held(w) \ {s}
           /\ \A u \in Workers \ {w} : Held(u)' = Held(u)
<1>1. 0 \notin Workers /\ slock \in [Mt!Slots -> Workers \cup {0}] /\ s \in Mt!Slots
      /\ slock[s] = w
  BY DEF Mt!MtServerAssumption, MtType, Held
<1>2. \A o \in Mt!Slots : slock'[o] = IF o = s THEN 0 ELSE slock[o]
  BY <1>1
<1> QED
  BY <1>1, <1>2 DEF Held

LEMMA OthersStay ==
    ASSUME MtInv, NEW w \in Workers,
           \A u \in Workers \ {w} : task'[u] = task[u] /\ Held(u)' = Held(u),
           InHandler(w)'
    PROVE  (\A u \in Workers : InHandler(u))'
<1>1. ASSUME NEW u \in Workers, u # w PROVE InHandler(u)'
  <2>1. InHandler(u) /\ task'[u] = task[u] /\ Held(u)' = Held(u)
    BY <1>1 DEF MtInv
  <2> QED
    BY <2>1 DEF InHandler, Todo
<1> QED
  BY <1>1

(* Steps that change no state: FirstSlots is kept.                       *)
LEMMA Works ==
    ASSUME MtInv, NEW w \in Workers, UNCHANGED <<state, lives>>,
           slock' \in [Mt!Slots -> Workers \cup {0}],
           task' \in [Workers -> Handlers],
           \A u \in Workers \ {w} : task'[u] = task[u] /\ Held(u)' = Held(u),
           InHandler(w)'
    PROVE  MtInv'
<1>1. MtType' /\ FirstSlots'
  BY DEF MtInv, MtType, FirstSlots
<1>2. (\A u \in Workers : InHandler(u))'
  BY OthersStay
<1> QED
  BY <1>1, <1>2 DEF MtInv

(* What the next instruction of a worker says of its locks.                *)
LEMMA AtInstr ==
    ASSUME MtInv, MAX_USER \in Nat, MaxClients \in 0..MAX_USER, NEW w \in Workers, Todo(w) # <<>>
    PROVE  /\ Todo(w) \in Seq(Instr) /\ Tail(Todo(w)) \in Seq(Instr)
           /\ Head(Todo(w)) \in Instr /\ Held(w) \subseteq Mt!Slots
           /\ task[w].op = "login" =>
                /\ task[w].id \in Mt!Slots /\ LoginAt(task[w].id, Todo(w), Held(w))
           /\ task[w].op # "login" => OtherAt(Todo(w), Held(w))
<1>1. Todo(w) \in Seq(Instr)
  BY DEF MtInv, MtType, Handlers, Todo
<1>2. InHandler(w)
  BY DEF MtInv
<1>3. task[w].op = "login" => task[w].id \in Mt!Slots
  BY <1>2 DEF InHandler, Mt!Slots
<1> QED
  BY <1>1, <1>2, <1>3 DEF InHandler, Held

LEMMA GoesPlain ==
    ASSUME MtInv, NEW w \in Workers, Todo(w) # <<>>, Mt!Go(w, <<>>)
    PROVE  /\ task' \in [Workers -> Handlers]
           /\ Todo(w)' = Tail(Todo(w))
           /\ task'[w].op = task[w].op /\ task'[w].id = task[w].id
           /\ \A u \in Workers \ {w} : task'[u] = task[u]
<1>1. Todo(w) \in Seq(Instr) /\ <<>> \in Seq(Instr) /\ MtType
  BY DEF MtInv, MtType, Handlers, Todo
<1>2. Tail(Todo(w)) \in Seq(Instr)
  BY <1>1
<1>3. <<>> \o Tail(Todo(w)) = Tail(Todo(w))
  BY <1>2, ConcatEmptySeq
<1> QED
  BY <1>1, <1>3, GoesOn

LEMMA MtInit ==
    ASSUME Mt!MtServerAssumption, Mt!Init
    PROVE  MtInv
<1>1. MtType
  <2>1. Mt!Idle \in Handlers
    BY DEF Mt!Idle, Handlers, Mt!MtServerAssumption
  <2> QED
    BY <2>1 DEF Mt!Init, MtType
<1>2. FirstSlots
  BY DEF Mt!Init, FirstSlots
<1>3. ASSUME NEW w \in Workers PROVE InHandler(w)
  <2>1. Held(w) = {}
    BY DEF Mt!Init, Held, Mt!MtServerAssumption
  <2>2. task[w].op = "idle" /\ Todo(w) = <<>>
    BY DEF Mt!Init, Mt!Idle, Todo
  <2>3. OtherAt(<<>>, {})
    BY CalmNothing DEF OtherAt
  <2> QED
    BY <2>1, <2>2, <2>3 DEF InHandler
<1> QED
  BY <1>1, <1>2, <1>3 DEF MtInv

-----------------------------------------------------------------------------
LEMMA MtStarts ==
    ASSUME Mt!MtServerAssumption, MaxClients < MAX_USER, MtInv,
           NEW w \in Workers, NEW op \in {"login", "move", "quit", "abort"},
           NEW p \in Mt!Slots, NEW T, Mt!Begin(w, op, p, T), UNCHANGED <<state, lives, slock>>,
           op = "login" => T = Mt!LoginProgram(p) /\ p <= MaxClients,
           op # "login" => Calm(T)
    PROVE  MtInv'
<1>1. MAX_USER \in Nat /\ MaxClients \in 0..MAX_USER /\ p \in 1..MAX_USER
  BY DEF Mt!MtServerAssumption, Mt!Slots
<1>2. Held(w) = {}
  <2>1. Todo(w) = <<>> /\ task[w].op = "idle"
    BY DEF Mt!Begin, Mt!Idle, Todo
  <2>2. OtherAt(Todo(w), Held(w))
    BY <2>1 DEF MtInv, InHandler
  <2> QED
    BY <2>1, <2>2, OtherStep
<1>3. \A u \in Workers : Held(u)' = Held(u)
  BY DEF Held
<1> DEFINE t == [op |-> op, id |-> p, life |-> lives[p], todo |-> T]
<1>4. /\ op = "login" => LoginAt(p, T, {})
      /\ op # "login" => OtherAt(T, {})
      /\ T \in Seq(Instr)
  <2>1. CASE op = "login"
    <3>1. p < MAX_USER
      BY <1>1, <2>1
    <3>2. LoginAt(p, T, {})
      BY <2>1, <3>1, LoginStarts
    <3> QED
      BY <1>1, <2>1, <3>2, LoginStep
  <2>2. CASE op # "login"
    BY <2>2 DEF Calm, OtherAt
  <2> QED
    BY <2>1, <2>2
<1>5. t \in Handlers /\ t.op = op /\ t.id = p /\ t.todo = T
  BY <1>1, <1>4 DEF Handlers, MtInv, MtType
<1>6. task' = [task EXCEPT ![w] = t] /\ task \in [Workers -> Handlers]
  BY DEF Mt!Begin, MtInv, MtType
<1> HIDE DEF t
<1>7. /\ task' \in [Workers -> Handlers] /\ task'[w] = t
      /\ \A u \in Workers \ {w} : task'[u] = task[u]
  BY <1>5, <1>6
<1>8. task'[w].op = op /\ task'[w].id = p /\ Todo(w)' = T /\ Held(w)' = {}
  BY <1>2, <1>3, <1>5, <1>7 DEF Todo
<1>9. InHandler(w)'
  <2>1. op = "login" => p \in 1..MaxClients
    BY <1>1
  <2> QED
    BY <1>4, <1>8, <2>1 DEF InHandler
<1>10. slock' \in [Mt!Slots -> Workers \cup {0}]
  BY DEF MtInv, MtType
<1> QED
  BY <1>3, <1>7, <1>9, <1>10, Works

LEMMA MtStart ==
    ASSUME Mt!MtServerAssumption, MaxClients < MAX_USER, MtInv,
           NEW w \in Workers, Mt!Start(w)
    PROVE  MtInv'
<1>1. ASSUME NEW p \in Mt!Slots, Mt!Accept(w, p) PROVE MtInv'
  <2>1. MAX_USER \in Nat /\ MaxClients \in Nat /\ p \in 1..MAX_USER /\ Mt!Slots = 1..MAX_USER
    BY DEF Mt!MtServerAssumption, Mt!Slots
  <2> DEFINE Used == {i \in Mt!Slots : state[i] # "FREE"}
  <2>2. p <= MaxClients
    <3>1. 1..(p - 1) \subseteq Used
      <4> SUFFICES ASSUME NEW i \in 1..(p - 1) PROVE i \in Used
        OBVIOUS
      <4>1. i \in 1..p /\ i < p /\ i \in Mt!Slots
        BY <2>1
      <4> QED
        BY <1>1, <4>1 DEF Mt!Accept
    <3>2. IsFiniteSet(Mt!Slots)
      BY <2>1, FS_Interval
    <3>3. Used \subseteq Mt!Slots
      OBVIOUS
    <3>4. IsFiniteSet(Used)
      BY <3>2, <3>3, FS_Subset
    <3>5. Cardinality(1..(p - 1)) <= Cardinality(Used)
      BY <3>1, <3>4, FS_Subset
    <3>6. Cardinality(1..(p - 1)) = p - 1
      <4>1. 1 \in Int /\ p - 1 \in Int
        BY <2>1
      <4>2. Cardinality(1..(p - 1)) = IF 1 > p - 1 THEN 0 ELSE (p - 1) - 1 + 1
        BY <4>1, FS_Interval
      <4> QED
        BY <2>1, <4>2
    <3>7. Cardinality(Used) < MaxClients
      <4>1. Mt!Cardinality(Used) = Cardinality(Used)
        BY DEF Mt!Cardinality, Cardinality
      <4>2. Mt!Cardinality(Used) < MaxClients
        BY <1>1 DEF Mt!Accept
      <4> QED
        BY <4>1, <4>2
    <3>8. Cardinality(Used) \in Nat
      BY <3>4, FS_CardinalityType
    <3> HIDE DEF Used
    <3> QED
      BY <2>1, <3>5, <3>6, <3>7, <3>8
  <2> HIDE DEF Used
  <2>3. MtType'
    BY <1>1 DEF Mt!Accept, MtInv, MtType
  <2>4. FirstSlots'
    BY <1>1, <2>2 DEF Mt!Accept, MtInv, MtType, FirstSlots
  <2>5. \A u \in Workers : InHandler(u)'
    <3>1. UNCHANGED <<slock, task>>
      BY <1>1 DEF Mt!Accept
    <3>2. \A u \in Workers : Held(u)' = Held(u) /\ Todo(u)' = Todo(u)
      BY <3>1 DEF Held, Todo
    <3> QED
      BY <3>1, <3>2 DEF MtInv, InHandler
  <2> QED
    BY <2>3, <2>4, <2>5 DEF MtInv
<1>2. ASSUME NEW p \in Mt!Slots, Mt!Login(w, p) PROVE MtInv'
  <2>1. p <= MaxClients
    BY <1>2 DEF Mt!Login, MtInv, FirstSlots
  <2> QED
    BY <1>2, <2>1, MtStarts DEF Mt!Login
<1>3. ASSUME NEW p \in Mt!Slots, Mt!Move(w, p) PROVE MtInv'
  BY <1>3, CalmPrograms, MtStarts DEF Mt!Move
<1>4. ASSUME NEW p \in Mt!Slots, Mt!Quit(w, p) PROVE MtInv'
  <2>1. PICK error \in BOOLEAN :
          Mt!Begin(w, "quit", p, (IF error THEN Mt!DisconnectProgram(p) ELSE <<>>)
                                   \o Mt!DisconnectProgram(p) \o << <<"done", p, p>> >>)
    BY <1>4 DEF Mt!Quit
  <2> DEFINE D == Mt!DisconnectProgram(p)
             T == (IF error THEN D ELSE <<>>) \o D \o << <<"done", p, p>> >>
  <2>2. Calm(T)
    <3>1. CASE error
      BY <3>1, CalmPrograms DEF Me
    <3>2. CASE ~error
      <4>1. D \in Seq(Instr)
        BY CalmPrograms DEF Calm
      <4> HIDE DEF D
      <4>2. <<>> \o D = D
        BY <4>1, ConcatEmptySeq
      <4>3. T = D \o <<Me("done", p)>>
        BY <3>2, <4>2 DEF Me
      <4> QED
        BY <4>3, CalmPrograms DEF D
    <3> QED
      BY <3>1, <3>2
  <2>3. Mt!Begin(w, "quit", p, T)
    BY <2>1
  <2> HIDE DEF T
  <2> QED
    BY <1>4, <2>2, <2>3, MtStarts DEF Mt!Quit
<1>5. ASSUME NEW p \in Mt!Slots, Mt!Abort(w, p) PROVE MtInv'
  <2> DEFINE T == Mt!DisconnectProgram(p) \o Mt!DisconnectProgram(p) \o << <<"done", p, p>> >>
  <2>1. Calm(T)
    BY CalmPrograms DEF Me
  <2>2. Mt!Begin(w, "abort", p, T)
    BY <1>5 DEF Mt!Abort
  <2> HIDE DEF T
  <2> QED
    BY <1>5, <2>1, <2>2, MtStarts DEF Mt!Abort
<1> QED
  BY <1>1, <1>2, <1>3, <1>4, <1>5 DEF Mt!Start

(***************************************************************************)
(* The steps of a handler.                                                 *)
(***************************************************************************)
LEMMA MtWork ==
    ASSUME Mt!MtServerAssumption, MaxClients < MAX_USER, MtInv,
           NEW w \in Workers, Mt!Work(w)
    PROVE  MtInv'
<1> DEFINE T == Todo(w)
           H == Held(w)
           R == Tail(T)
           p == task[w].id
<1>1. MAX_USER \in Nat /\ MaxClients \in 0..MAX_USER /\ MtType
  BY DEF Mt!MtServerAssumption, MtInv
<1>2. T # <<>>
  BY DEF Mt!Work, Mt!Lock, Mt!Unlock, Mt!Enter, Mt!Look, Mt!Visit, Mt!TellMove, Mt!Tell,
         Mt!Free, Mt!Send, Mt!Finish, Mt!At, Todo
<1>3. /\ T \in Seq(Instr) /\ R \in Seq(Instr) /\ Head(T) \in Instr /\ H \subseteq Mt!Slots
      /\ task[w].op = "login" => p \in Mt!Slots /\ LoginAt(p, T, H)
      /\ task[w].op # "login" => OtherAt(T, H)
  BY <1>1, <1>2, AtInstr
<1>4. /\ Mt!First(w) = Head(T)[2] /\ Mt!Second(w) = Head(T)[3]
      /\ \A op : Mt!At(w, op) <=> Head(T)[1] = op
  BY <1>2 DEF Mt!First, Mt!Second, Mt!At, Todo
<1>5. \A u \in Workers : slock' = slock => Held(u)' = Held(u)
  BY DEF Held
<1>6. slock \in [Mt!Slots -> Workers \cup {0}]
  BY <1>1 DEF MtType
<1>7. ASSUME task[w].op = "login"
      PROVE  /\ p \in Mt!Slots /\ p \in 1..MaxClients
             /\ Head(T)[1] \in {"lock", "unlock", "enter", "look", "visit", "add", "done"}
             /\ Head(T)[1] = "lock" => Head(T)[2] = p /\ H = {} /\ LoginAt(p, R, {p})
             /\ Head(T)[1] = "unlock" =>
                  Head(T)[2] \in H /\ LoginAt(p, R, H \ {Head(T)[2]})
             /\ Head(T)[1] = "enter" => Head(T)[2] = p /\ LoginAt(p, R, H)
             /\ Head(T)[1] = "add" => LoginAt(p, R, H)
             /\ Head(T)[1] \in {"look", "visit"} =>
                  /\ Head(T)[2] = p /\ Head(T)[3] \in Mt!Slots \ {p} /\ H = {p}
                  /\ Looks(R, p)
             /\ Head(T)[1] = "done" => H = {}
  <2>1. p \in 1..MaxClients
    BY <1>7 DEF MtInv, InHandler
  <2>2. p \in Mt!Slots /\ LoginAt(p, T, H)
    BY <1>3, <1>7
  <2> HIDE DEF T, H, p
  <2> QED
    BY <1>1, <2>1, <2>2, LoginStep
<1>8. ASSUME task[w].op # "login"
      PROVE  /\ Head(T)[1] \in {"lock", "free", "tell", "tellMove", "remove", "unlock", "done"}
             /\ Head(T)[1] \in {"lock", "tell", "tellMove"} => Head(T)[2] \in Mt!Slots
             /\ Head(T)[1] \in {"lock", "tell", "tellMove", "done"} => H = {}
             /\ Head(T)[1] = "lock" => OtherAt(R, {Head(T)[2]})
             /\ Head(T)[1] \in {"free", "unlock"} =>
                  H = {Head(T)[2]} /\ OtherAt(R, {})
             /\ Head(T)[1] \in {"tell", "tellMove"} => Calm(R)
             /\ Head(T)[1] = "remove" => OtherAt(R, H)
  <2>1. OtherAt(T, H)
    BY <1>3, <1>8
  <2> HIDE DEF T, H, p
  <2> QED
    BY <1>2, <2>1, OtherStep
<1>9. ASSUME Mt!Go(w, <<>>)
      PROVE  /\ task' \in [Workers -> Handlers] /\ T' = R
             /\ task'[w].op = task[w].op /\ task'[w].id = p
             /\ \A u \in Workers \ {w} : task'[u] = task[u]
  BY <1>2, <1>9, GoesPlain
<1> HIDE DEF R
<1>10. CASE Mt!Lock(w)
  <2> DEFINE s == Head(T)[2]
  <2>1. /\ Head(T)[1] = "lock" /\ slock[s] = 0 /\ slock' = [slock EXCEPT ![s] = w]
        /\ Mt!Go(w, <<>>) /\ UNCHANGED <<state, lives>>
    BY <1>4, <1>10 DEF Mt!Lock
  <2>2. s \in Mt!Slots /\ H = {}
    BY <1>7, <1>8, <2>1
  <2>3. /\ slock' \in [Mt!Slots -> Workers \cup {0}] /\ H' = {s}
        /\ \A u \in Workers \ {w} : Held(u)' = Held(u)
    <3> HIDE DEF s
    <3> QED
      BY ZenonT(60), <1>1, <2>1, <2>2, Takes
  <2>4. /\ task' \in [Workers -> Handlers] /\ T' = R
        /\ task'[w].op = task[w].op /\ task'[w].id = p
        /\ \A u \in Workers \ {w} : task'[u] = task[u]
    BY <1>9, <2>1
  <2>5. InHandler(w)'
    <3>1. CASE task[w].op = "login"
      <4>1. s = p /\ LoginAt(p, R, {s}) /\ p \in 1..MaxClients
        BY <1>7, <2>1, <3>1
      <4> QED
        BY <2>3, <2>4, <3>1, <4>1 DEF InHandler
    <3>2. CASE task[w].op # "login"
      <4>1. OtherAt(R, {s})
        BY <1>8, <2>1, <3>2
      <4> QED
        BY <2>3, <2>4, <3>2, <4>1 DEF InHandler
    <3> QED
      BY <3>1, <3>2
  <2> QED
    BY <2>1, <2>3, <2>4, <2>5, Works
<1>11. CASE Mt!Unlock(w)
  <2> DEFINE s == Head(T)[2]
  <2>1. /\ Head(T)[1] = "unlock" /\ slock' = [slock EXCEPT ![s] = 0]
        /\ Mt!Go(w, <<>>) /\ UNCHANGED <<state, lives>>
    BY <1>4, <1>11 DEF Mt!Unlock
  <2>2. s \in H
    BY <1>7, <1>8, <2>1
  <2>3. /\ slock' \in [Mt!Slots -> Workers \cup {0}] /\ H' = H \ {s}
        /\ \A u \in Workers \ {w} : Held(u)' = Held(u)
    <3> HIDE DEF s
    <3> QED
      BY <1>1, <2>1, <2>2, GivesBack
  <2>4. /\ task' \in [Workers -> Handlers] /\ T' = R
        /\ task'[w].op = task[w].op /\ task'[w].id = p
        /\ \A u \in Workers \ {w} : task'[u] = task[u]
    BY <1>9, <2>1
  <2>5. InHandler(w)'
    <3>1. CASE task[w].op = "login"
      <4>1. LoginAt(p, R, H \ {s}) /\ p \in 1..MaxClients
        BY <1>7, <2>1, <3>1
      <4> QED
        BY <2>3, <2>4, <3>1, <4>1 DEF InHandler
    <3>2. CASE task[w].op # "login"
      <4>1. OtherAt(R, {}) /\ H \ {s} = {}
        BY <1>8, <2>1, <3>2
      <4> QED
        BY <2>3, <2>4, <3>2, <4>1 DEF InHandler
    <3> QED
      BY <3>1, <3>2
  <2> QED
    BY <2>1, <2>3, <2>4, <2>5, Works
<1>12. CASE Mt!Free(w)
  <2> DEFINE s == Head(T)[2]
  <2>1. /\ Head(T)[1] = "free" /\ slock' = [slock EXCEPT ![s] = 0]
        /\ Mt!Go(w, <<>>) /\ state' = [state EXCEPT ![s] = "FREE"] /\ UNCHANGED lives
    BY <1>4, <1>12 DEF Mt!Free
  <2>2. task[w].op # "login"
    BY <1>7, <2>1
  <2>3. s \in H /\ H \ {s} = {} /\ OtherAt(R, {})
    BY <1>8, <2>1, <2>2
  <2>4. /\ slock' \in [Mt!Slots -> Workers \cup {0}] /\ H' = {}
        /\ \A u \in Workers \ {w} : Held(u)' = Held(u)
    <3> HIDE DEF s
    <3> QED
      BY <1>1, <2>1, <2>3, GivesBack
  <2>5. /\ task' \in [Workers -> Handlers] /\ T' = R
        /\ task'[w].op = task[w].op /\ task'[w].id = p
        /\ \A u \in Workers \ {w} : task'[u] = task[u]
    BY <1>9, <2>1
  <2>6. InHandler(w)'
    BY <2>2, <2>3, <2>4, <2>5 DEF InHandler
  <2>7. MtType' /\ FirstSlots'
    <3> HIDE DEF s
    <3> QED
      BY <2>1, <2>4, <2>5 DEF MtInv, MtType, FirstSlots
  <2>8. (\A u \in Workers : InHandler(u))'
    BY <2>4, <2>5, <2>6, OthersStay
  <2> QED
    BY <2>7, <2>8 DEF MtInv
<1>13. CASE Mt!Enter(w)
  <2>1. /\ Head(T)[1] = "enter" /\ state' = [state EXCEPT ![Head(T)[2]] = "INGAME"]
        /\ Mt!Go(w, <<>>) /\ UNCHANGED <<slock, lives>>
    BY <1>4, <1>13 DEF Mt!Enter
  <2>2. task[w].op = "login"
    BY <1>8, <2>1
  <2>3. Head(T)[2] = p /\ LoginAt(p, R, H) /\ p \in 1..MaxClients
    BY <1>7, <2>1, <2>2
  <2>4. /\ task' \in [Workers -> Handlers] /\ T' = R
        /\ task'[w].op = task[w].op /\ task'[w].id = p
        /\ \A u \in Workers \ {w} : task'[u] = task[u]
    BY <1>9, <2>1
  <2>5. \A u \in Workers : Held(u)' = Held(u)
    BY <1>5, <2>1
  <2>6. InHandler(w)'
    BY <2>2, <2>3, <2>4, <2>5 DEF InHandler
  <2>7. state' = [state EXCEPT ![p] = "INGAME"] /\ p <= MaxClients
    <3>1. p <= MaxClients
      BY <1>1, <2>3
    <3>2. state' = [state EXCEPT ![p] = "INGAME"]
      BY <2>1, <2>3
    <3> QED
      BY <3>1, <3>2
  <2>8. MtType' /\ FirstSlots'
    <3> HIDE DEF p
    <3> QED
      BY <2>1, <2>4, <2>7 DEF MtInv, MtType, FirstSlots
  <2>9. (\A u \in Workers : InHandler(u))'
    BY <2>4, <2>5, <2>6, OthersStay
  <2> QED
    BY <2>8, <2>9 DEF MtInv
<1>14. CASE Mt!TellMove(w) \/ Mt!Send(w)
  <2>1. /\ Head(T)[1] \in {"tellMove", "add", "remove"}
        /\ Mt!Go(w, <<>>) /\ UNCHANGED <<state, slock, lives>>
    BY <1>4, <1>14 DEF Mt!TellMove, Mt!Send
  <2>2. /\ task' \in [Workers -> Handlers] /\ T' = R
        /\ task'[w].op = task[w].op /\ task'[w].id = p
        /\ \A u \in Workers \ {w} : task'[u] = task[u]
    BY <1>9, <2>1
  <2>3. \A u \in Workers : Held(u)' = Held(u)
    BY <1>5, <2>1
  <2>4. InHandler(w)'
    <3>1. CASE task[w].op = "login"
      <4>1. LoginAt(p, R, H) /\ p \in 1..MaxClients
        BY <1>7, <2>1, <3>1
      <4> QED
        BY <2>2, <2>3, <3>1, <4>1 DEF InHandler
    <3>2. CASE task[w].op # "login"
      <4>1. OtherAt(R, H)
        BY <1>8, <2>1, <3>2 DEF OtherAt
      <4> QED
        BY <2>2, <2>3, <3>2, <4>1 DEF InHandler
    <3> QED
      BY <3>1, <3>2
  <2>5. slock' \in [Mt!Slots -> Workers \cup {0}]
    BY <1>6, <2>1
  <2> QED
    BY <2>1, <2>2, <2>3, <2>4, <2>5, Works
<1>15. CASE Mt!Look(w)
  <2> DEFINE j == Head(T)[3]
             v == <<"visit", Head(T)[2], j>>
             more == IF state[j] = "INGAME" THEN <<v>> ELSE <<>>
  <2>1. /\ Head(T)[1] = "look" /\ Mt!Go(w, more) /\ UNCHANGED <<state, slock, lives>>
    BY <1>4, <1>15 DEF Mt!Look
  <2>2. task[w].op = "login"
    BY <1>8, <2>1
  <2>3. /\ Head(T)[2] = p /\ j \in Mt!Slots \ {p} /\ H = {p} /\ Looks(R, p)
        /\ p \in Mt!Slots /\ p \in 1..MaxClients
    BY <1>7, <2>1, <2>2
  <2>4. v = <<"visit", p, j>> /\ v \in Instr
    BY <2>3, MeParts DEF Instr
  <2> HIDE DEF v
  <2>5. more \in Seq(Instr) /\ (more = <<v>> \/ more = <<>>)
    BY <2>4
  <2> HIDE DEF more
  <2>6. /\ task' \in [Workers -> Handlers] /\ T' = more \o R
        /\ task'[w].op = task[w].op /\ task'[w].id = p
        /\ \A u \in Workers \ {w} : task'[u] = task[u]
    BY <1>1, <1>2, <2>1, <2>5, GoesOn DEF R
  <2>7. LoginAt(p, more \o R, {p})
    <3>1. CASE more = <<v>>
      BY <2>3, <2>4, <3>1 DEF LoginAt
    <3>2. CASE more = <<>>
      <4>1. <<>> \o R = R
        BY <1>3, ConcatEmptySeq DEF R
      <4> QED
        BY <2>3, <3>2, <4>1 DEF LoginAt
    <3> QED
      BY <2>5, <3>1, <3>2
  <2>8. \A u \in Workers : Held(u)' = Held(u)
    BY <1>5, <2>1
  <2>9. InHandler(w)'
    BY <2>2, <2>3, <2>6, <2>7, <2>8 DEF InHandler
  <2>10. slock' \in [Mt!Slots -> Workers \cup {0}]
    BY <1>6, <2>1
  <2> QED
    BY <2>1, <2>6, <2>8, <2>9, <2>10, Works
<1>16. CASE Mt!Visit(w)
  <2> DEFINE j == Head(T)[3]
             greets == state[j] = "INGAME"
             a == <<"add", p, Mt!m_id(j)>>
             b == <<"add", Mt!m_id(j), p>>
             more == IF greets THEN Mt!GreetProgram(Head(T)[2], j) ELSE <<>>
  <2>1. /\ Head(T)[1] = "visit" /\ slock[j] = 0
        /\ slock' = IF greets THEN [slock EXCEPT ![j] = w] ELSE slock
        /\ Mt!Go(w, more) /\ UNCHANGED <<state, lives>>
    BY <1>4, <1>16 DEF Mt!Visit
  <2>2. task[w].op = "login"
    BY <1>8, <2>1
  <2>3. /\ Head(T)[2] = p /\ j \in Mt!Slots \ {p} /\ H = {p} /\ Looks(R, p)
        /\ p \in Mt!Slots /\ p \in 1..MaxClients
    BY <1>7, <2>1, <2>2
  <2>4. a \in Instr /\ b \in Instr /\ a[1] = "add" /\ b[1] = "add" /\ Me("unlock", j) \in Instr
    <3>1. j \in Nat /\ p \in Nat /\ Mt!m_id(j) \in Nat
      BY <2>3, MeParts DEF Mt!m_id
    <3> QED
      BY <2>3, <3>1, MeParts DEF Instr
  <2>5. greets => more = <<a, b, Me("unlock", j)>>
    BY <2>3 DEF Mt!GreetProgram, Me
  <2>6. ~greets => more = <<>>
    OBVIOUS
  <2> DEFINE ul == Me("unlock", j)
  <2> HIDE DEF a, b, ul, more, greets
  <2>7. more \in Seq(Instr)
    <3>1. <<a, b, ul>> \in Seq(Instr) /\ <<>> \in Seq(Instr)
      BY <2>4 DEF ul
    <3> QED
      BY <2>5, <2>6, <3>1 DEF ul
  <2>8. /\ task' \in [Workers -> Handlers] /\ T' = more \o R
        /\ task'[w].op = task[w].op /\ task'[w].id = p
        /\ \A u \in Workers \ {w} : task'[u] = task[u]
    BY <1>1, <1>2, <2>1, <2>7, GoesOn DEF R
  <2>9. R \in Seq(Instr)
    BY <1>3 DEF R
  <2>10. CASE greets
    <3>1. /\ slock' \in [Mt!Slots -> Workers \cup {0}] /\ H' = {p, j}
          /\ \A u \in Workers \ {w} : Held(u)' = Held(u)
      <4>1. slock' = [slock EXCEPT ![j] = w] /\ j \in Mt!Slots /\ slock[j] = 0
        BY <2>1, <2>3, <2>10
      <4> HIDE DEF j
      <4>2. /\ slock' \in [Mt!Slots -> Workers \cup {0}] /\ Held(w)' = Held(w) \cup {j}
            /\ \A u \in Workers \ {w} : Held(u)' = Held(u)
        BY <1>1, <4>1, Takes
      <4> QED
        BY <2>3, <4>2
    <3>2. more \o R = <<a>> \o (<<b>> \o (<<Me("unlock", j)>> \o R))
      <4>1. a \in Instr /\ b \in Instr /\ ul \in Instr
        BY <2>4 DEF ul
      <4>2. <<a, b, ul>> \o R = <<a>> \o (<<b>> \o (<<ul>> \o R))
        BY SMTT(90), <2>9, <4>1, Thrice
      <4> QED
        BY <2>5, <2>10, <4>2 DEF ul
    <3>3. LoginAt(p, more \o R, {p, j})
      BY <2>3, <2>4, <3>2 DEF LoginAt
    <3>4. InHandler(w)'
      BY <2>2, <2>3, <2>8, <3>1, <3>3 DEF InHandler
    <3> QED
      BY <2>1, <2>8, <3>1, <3>4, Works
  <2>11. CASE ~greets
    <3>1. UNCHANGED slock
      BY <2>1, <2>11
    <3>2. \A u \in Workers : Held(u)' = Held(u)
      BY <1>5, <3>1
    <3>3. more \o R = R
      BY <2>6, <2>9, <2>11, ConcatEmptySeq
    <3>4. LoginAt(p, R, {p})
      BY <2>3 DEF LoginAt
    <3>5. InHandler(w)'
      BY <2>2, <2>3, <2>8, <3>2, <3>3, <3>4 DEF InHandler
    <3>6. slock' \in [Mt!Slots -> Workers \cup {0}]
      BY <1>6, <3>1
    <3> QED
      BY <2>1, <2>8, <3>2, <3>5, <3>6, Works
  <2> QED
    BY <2>10, <2>11
<1>17. CASE Mt!Tell(w)
  <2> DEFINE i == Head(T)[2]
             told == state[i] = "INGAME"
             b == <<"remove", Mt!m_id(i), Head(T)[3]>>
             more == IF told THEN <<b, Me("unlock", i)>> ELSE <<>>
  <2>1. /\ Head(T)[1] = "tell" /\ slock[i] = 0
        /\ slock' = IF told THEN [slock EXCEPT ![i] = w] ELSE slock
        /\ Mt!Go(w, more) /\ UNCHANGED <<state, lives>>
    BY <1>4, <1>17 DEF Mt!Tell, Me
  <2>2. task[w].op # "login"
    BY <1>7, <2>1
  <2>3. i \in Mt!Slots /\ H = {} /\ Calm(R)
    BY <1>8, <2>1, <2>2
  <2>4. b \in Instr /\ b[1] = "remove" /\ Me("unlock", i) \in Instr
    <3>1. i \in Nat /\ Mt!m_id(i) \in Nat /\ Head(T)[3] \in Nat
      BY <1>3, <2>3, MeParts DEF Mt!m_id, Instr
    <3> QED
      BY <2>3, <3>1, MeParts DEF Instr
  <2> HIDE DEF b
  <2>5. more \in Seq(Instr)
    BY <2>4
  <2>6. /\ told => more = <<b, Me("unlock", i)>>
        /\ ~told => more = <<>>
    OBVIOUS
  <2> HIDE DEF more, told
  <2>7. /\ task' \in [Workers -> Handlers] /\ T' = more \o R
        /\ task'[w].op = task[w].op /\ task'[w].id = p
        /\ \A u \in Workers \ {w} : task'[u] = task[u]
    BY <1>1, <1>2, <2>1, <2>5, GoesOn DEF R
  <2>8. R \in Seq(Instr)
    BY <1>3 DEF R
  <2>9. CASE told
    <3>1. /\ slock' \in [Mt!Slots -> Workers \cup {0}] /\ H' = {i}
          /\ \A u \in Workers \ {w} : Held(u)' = Held(u)
      <4>1. slock' = [slock EXCEPT ![i] = w] /\ i \in Mt!Slots /\ slock[i] = 0
        BY <2>1, <2>3, <2>9
      <4> HIDE DEF i
      <4>2. /\ slock' \in [Mt!Slots -> Workers \cup {0}] /\ Held(w)' = Held(w) \cup {i}
            /\ \A u \in Workers \ {w} : Held(u)' = Held(u)
        BY <1>1, <4>1, Takes
      <4> QED
        BY <2>3, <4>2
    <3>2. more \o R = <<b>> \o (<<Me("unlock", i)>> \o R)
      <4> DEFINE u == Me("unlock", i)
      <4>1. b \in Instr /\ u \in Instr
        BY <2>4
      <4> HIDE DEF u
      <4>2. <<b, u>> \o R = <<b>> \o (<<u>> \o R)
        BY SMTT(60), <2>8, <4>1, Twice
      <4> QED
        BY <2>6, <2>9, <4>2 DEF u
    <3>3. OtherAt(more \o R, {i})
      BY <2>3, <2>4, <3>2 DEF OtherAt
    <3>4. InHandler(w)'
      BY <2>2, <2>7, <3>1, <3>3 DEF InHandler
    <3> QED
      BY <2>1, <2>7, <3>1, <3>4, Works
  <2>10. CASE ~told
    <3>1. UNCHANGED slock
      BY <2>1, <2>10
    <3>2. \A u \in Workers : Held(u)' = Held(u)
      BY <1>5, <3>1
    <3>3. more \o R = R
      BY <2>6, <2>8, <2>10, ConcatEmptySeq
    <3>4. OtherAt(R, {})
      BY <2>3 DEF OtherAt
    <3>5. InHandler(w)'
      BY <2>2, <2>3, <2>7, <3>2, <3>3, <3>4 DEF InHandler
    <3>6. slock' \in [Mt!Slots -> Workers \cup {0}]
      BY <1>6, <3>1
    <3> QED
      BY <2>1, <2>7, <3>2, <3>5, <3>6, Works
  <2> QED
    BY <2>9, <2>10
<1>18. CASE Mt!Finish(w)
  <2>1. /\ Head(T)[1] = "done" /\ task' = [task EXCEPT ![w] = Mt!Idle]
        /\ UNCHANGED <<state, slock, lives>>
    BY <1>4, <1>18 DEF Mt!Finish
  <2>2. H = {}
    BY <1>7, <1>8, <2>1
  <2>3. Mt!Idle \in Handlers /\ Mt!Idle.op = "idle" /\ Mt!Idle.todo = <<>>
    BY <1>1 DEF Mt!Idle, Handlers
  <2>4. /\ task' \in [Workers -> Handlers] /\ task'[w] = Mt!Idle
        /\ \A u \in Workers \ {w} : task'[u] = task[u]
    BY <1>1, <2>1, <2>3 DEF MtType
  <2>5. \A u \in Workers : Held(u)' = Held(u)
    BY <1>5, <2>1
  <2>6. T' = <<>> /\ H' = {} /\ task'[w].op = "idle"
    BY <2>2, <2>3, <2>4, <2>5 DEF Todo
  <2>7. OtherAt(<<>>, {})
    BY CalmNothing DEF OtherAt
  <2>8. InHandler(w)'
    BY <2>6, <2>7 DEF InHandler
  <2>9. slock' \in [Mt!Slots -> Workers \cup {0}]
    BY <1>6, <2>1
  <2> QED
    BY <2>1, <2>4, <2>5, <2>8, <2>9, Works
<1> QED
  BY <1>10, <1>11, <1>12, <1>13, <1>14, <1>15, <1>16, <1>17, <1>18 DEF Mt!Work

(***************************************************************************)
(* OnlyLoginsDeadlock follows.                                             *)
(***************************************************************************)
(* A worker that waits while it holds a lock is a login at a visit: it     *)
(* holds the lock of its own slot, and waits for that of another.          *)
LEMMA WaitsInVisit ==
    ASSUME Mt!MtServerAssumption, MtInv, NEW w \in Workers, Mt!WaitsFor(w) # 0, Held(w) # {}
    PROVE  /\ task[w].op = "login"
           /\ \E j \in Mt!Slots : j \notin Held(w) /\ Mt!WaitsFor(w) = slock[j]
<1> DEFINE T == Todo(w)
           H == Held(w)
           p == task[w].id
<1>1. T # <<>>
  BY DEF Mt!WaitsFor, Mt!At, Todo
<1>2. /\ Mt!First(w) = Head(T)[2] /\ Mt!Second(w) = Head(T)[3]
      /\ \A op : Mt!At(w, op) <=> Head(T)[1] = op
  BY <1>1 DEF Mt!First, Mt!Second, Mt!At, Todo
<1>3. MAX_USER \in Nat /\ MaxClients \in 0..MAX_USER
  BY DEF Mt!MtServerAssumption
<1>4. \/ Head(T)[1] \in {"lock", "tell", "tellMove"}
      \/ Head(T)[1] = "visit" /\ Mt!WaitsFor(w) = slock[Head(T)[3]]
  BY <1>2 DEF Mt!WaitsFor
<1>5. /\ task[w].op = "login" => p \in Mt!Slots /\ LoginAt(p, T, H)
      /\ task[w].op # "login" => OtherAt(T, H)
  BY <1>1, <1>3, AtInstr
<1> HIDE DEF T, p
<1>6. CASE task[w].op # "login"
  <2>1. /\ Head(T)[1] \in {"lock", "free", "tell", "tellMove", "remove", "unlock", "done"}
        /\ Head(T)[1] \in {"lock", "tell", "tellMove"} => H = {}
    <3> HIDE DEF H
    <3> QED
      BY <1>1, <1>5, <1>6, OtherStep
  <2> QED
    BY <1>4, <2>1
<1>7. CASE task[w].op = "login"
  <2>1. /\ Head(T)[1] \in {"lock", "unlock", "enter", "look", "visit", "add", "done"}
        /\ Head(T)[1] = "lock" => H = {}
        /\ Head(T)[1] = "visit" => Head(T)[3] \in Mt!Slots \ {p} /\ H = {p}
    <3> HIDE DEF H
    <3> QED
      BY <1>3, <1>5, <1>7, LoginStep
  <2>2. Head(T)[1] = "visit"
    BY <1>4, <2>1
  <2>3. Head(T)[3] \in Mt!Slots /\ Head(T)[3] \notin H /\ Mt!WaitsFor(w) = slock[Head(T)[3]]
    BY <1>4, <2>1, <2>2
  <2> QED
    BY <1>7, <2>3
<1> QED
  BY <1>6, <1>7

(* A worker that another one waits for holds a lock.                       *)
LEMMA WaitedForHolds ==
    ASSUME Mt!MtServerAssumption, MtInv, NEW w \in Workers, Mt!WaitsFor(w) \in Workers
    PROVE  Held(Mt!WaitsFor(w)) # {}
<1> DEFINE T == Todo(w)
<1>1. T # <<>> /\ 0 \notin Workers
  BY DEF Mt!MtServerAssumption, Mt!WaitsFor, Mt!At, Todo
<1>2. /\ Mt!First(w) = Head(T)[2] /\ Mt!Second(w) = Head(T)[3]
      /\ \A op : Mt!At(w, op) <=> Head(T)[1] = op
  BY <1>1 DEF Mt!First, Mt!Second, Mt!At, Todo
<1>3. MAX_USER \in Nat /\ MaxClients \in 0..MAX_USER
  BY DEF Mt!MtServerAssumption
<1>4. \/ /\ Head(T)[1] \in {"lock", "tell", "tellMove"}
         /\ Mt!WaitsFor(w) = slock[Head(T)[2]]
      \/ Head(T)[1] = "visit" /\ Mt!WaitsFor(w) = slock[Head(T)[3]]
  BY <1>1, <1>2 DEF Mt!WaitsFor
<1>5. \E s \in Mt!Slots : Mt!WaitsFor(w) = slock[s]
  <2>1. CASE task[w].op = "login"
    <3>1. LoginAt(task[w].id, T, Held(w)) /\ task[w].id \in Mt!Slots
      BY <1>1, <1>3, <2>1, AtInstr
    <3> HIDE DEF T
    <3>2. /\ Head(T)[1] \in {"lock", "unlock", "enter", "look", "visit", "add", "done"}
          /\ Head(T)[1] = "lock" => Head(T)[2] = task[w].id
          /\ Head(T)[1] = "visit" => Head(T)[3] \in Mt!Slots
      BY <1>3, <3>1, LoginStep
    <3> QED
      BY <1>4, <3>1, <3>2
  <2>2. CASE task[w].op # "login"
    <3>1. OtherAt(T, Held(w))
      BY <1>1, <1>3, <2>2, AtInstr
    <3> HIDE DEF T
    <3>2. /\ Head(T)[1] \in {"lock", "free", "tell", "tellMove", "remove", "unlock", "done"}
          /\ Head(T)[1] \in {"lock", "tell", "tellMove"} => Head(T)[2] \in Mt!Slots
      BY <1>1, <3>1, OtherStep
    <3> QED
      BY <1>4, <3>2
  <2> QED
    BY <2>1, <2>2
<1> QED
  BY <1>5 DEF Held

LEMMA OnlyLogins ==
    ASSUME Mt!MtServerAssumption, MtInv
    PROVE  Mt!OnlyLoginsDeadlock
<1> SUFFICES ASSUME NEW S \in SUBSET Workers, S # {}, \A w \in S : Mt!WaitsFor(w) \in S
             PROVE  \E w, u \in S : w # u /\ {task[w].op, task[u].op} = {"login"}
  BY DEF Mt!OnlyLoginsDeadlock
<1>1. \A w \in S : w \in Workers /\ Mt!WaitsFor(w) \in S /\ Mt!WaitsFor(w) # 0
  BY DEF Mt!MtServerAssumption
<1>2. ASSUME NEW w \in S, Held(w) # {}
      PROVE  task[w].op = "login" /\ Mt!WaitsFor(w) # w
  <2>1. /\ task[w].op = "login"
        /\ \E j \in Mt!Slots : j \notin Held(w) /\ Mt!WaitsFor(w) = slock[j]
    BY <1>1, <1>2, WaitsInVisit
  <2> QED
    BY <2>1 DEF Held
<1>3. PICK z \in S : TRUE
  OBVIOUS
<1> DEFINE w == Mt!WaitsFor(z)
           u == Mt!WaitsFor(w)
<1>4. w \in S /\ Held(w) # {}
  BY <1>1, WaitedForHolds
<1>5. u \in S /\ Held(u) # {}
  BY <1>1, <1>4, WaitedForHolds
<1> HIDE DEF w
<1>6. u # w /\ task[w].op = "login"
  BY <1>2, <1>4
<1> HIDE DEF u
<1>7. task[u].op = "login"
  BY <1>2, <1>5
<1> QED
  BY <1>4, <1>5, <1>6, <1>7

LEMMA MtSteps ==
    ASSUME Mt!MtServerAssumption, MaxClients < MAX_USER, MtInv, [Mt!Next]_(Mt!vars)
    PROVE  MtInv'
<1>1. CASE Mt!Next
  BY <1>1, MtStart, MtWork DEF Mt!Next
<1>2. CASE UNCHANGED Mt!vars
  <2>1. UNCHANGED <<state, slock, lives, task>>
    BY <1>2 DEF Mt!vars
  <2>2. \A u \in Workers : Held(u)' = Held(u) /\ Todo(u)' = Todo(u)
    BY <2>1 DEF Held, Todo
  <2> QED
    BY <2>1, <2>2 DEF MtInv, MtType, FirstSlots, InHandler
<1> QED
  BY <1>1, <1>2

(* Flatten makes one program of several, of instructions of the same set.   *)
LEMMA Flattened ==
    ASSUME NEW c, NEW S, NEW seqs \in Seq(Seq(S))
    PROVE  Ai(c)!Flatten(seqs) \in Seq(S)
<1> DEFINE n == Len(seqs)
           After(f, i) == IF i = 0 THEN <<>> ELSE f[i - 1] \o seqs[i]
           Upto(m) == \E f \in [0..m -> Seq(S)] : \A i \in 0..m : f[i] = After(f, i)
           upto == CHOOSE f : f = [i \in 0..n |-> After(f, i)]
<1>1. n \in Nat /\ \A i \in 1..n : seqs[i] \in Seq(S)
  OBVIOUS
<1>2. Ai(c)!Flatten(seqs) = upto[n]
  BY DEF Ai!Flatten
<1>3. Upto(0)
  <2> DEFINE f == [i \in 0..0 |-> <<>>]
  <2>1. f \in [0..0 -> Seq(S)] /\ \A i \in 0..0 : f[i] = After(f, i)
    OBVIOUS
  <2> QED
    BY <2>1
<1> HIDE DEF n
<1>4. ASSUME NEW m \in Nat, m < n, Upto(m) PROVE Upto(m + 1)
  <2>1. PICK f \in [0..m -> Seq(S)] : \A i \in 0..m : f[i] = After(f, i)
    BY <1>4
  <2> DEFINE last == f[m] \o seqs[m + 1]
             g == [i \in 0..(m + 1) |-> IF i = m + 1 THEN last ELSE f[i]]
  <2>2. m + 1 \in 1..n /\ f[m] \in Seq(S)
    BY <1>1, <1>4
  <2>3. last \in Seq(S)
    BY <1>1, <2>2
  <2> HIDE DEF last
  <2>4. g \in [0..(m + 1) -> Seq(S)]
    BY <2>3
  <2>5. ASSUME NEW i \in 0..(m + 1) PROVE g[i] = After(g, i)
    <3>1. CASE i = m + 1
      <4>1. g[i] = last /\ g[i - 1] = f[m] /\ i # 0 /\ seqs[i] = seqs[m + 1]
        BY <3>1
      <4> QED
        BY <4>1 DEF last
    <3>2. CASE i # m + 1
      <4>1. i \in 0..m /\ g[i] = f[i]
        BY <3>2
      <4>2. i # 0 => i - 1 \in 0..(m + 1) /\ i - 1 # m + 1
        BY <4>1
      <4>3. i # 0 => g[i - 1] = f[i - 1]
        BY <4>2
      <4>4. f[i] = After(f, i)
        BY <2>1, <4>1
      <4> QED
        BY <4>1, <4>3, <4>4
    <3> QED
      BY <3>1, <3>2
  <2> QED
    BY <2>4, <2>5
<1>5. ASSUME NEW m \in 0..n PROVE Upto(m)
  <2> DEFINE Bad == {k \in Nat : k <= n /\ ~Upto(k)}
  <2> HIDE DEF Upto
  <2>1. SUFFICES ASSUME Bad # {} PROVE FALSE
    BY <1>1
  <2>2. PICK k \in Bad : \A j \in Bad : k <= j
    BY <2>1, Least
  <2>3. k # 0
    BY <1>3, <2>2
  <2>4. k - 1 \in Nat /\ k - 1 < n /\ k - 1 \notin Bad /\ k - 1 + 1 = k
    BY <1>1, <2>2, <2>3
  <2>5. Upto(k - 1)
    BY <1>1, <2>4
  <2>6. Upto(k - 1 + 1)
    BY <1>4, <2>4, <2>5
  <2> QED
    BY <2>2, <2>4, <2>6
<1>6. PICK f \in [0..n -> Seq(S)] : \A i \in 0..n : f[i] = After(f, i)
  <2>1. n \in 0..n
    BY <1>1
  <2>2. Upto(n)
    BY SMTT(90), <1>5, <2>1
  <2> QED
    BY <2>2
<1>7. upto = [i \in 0..n |-> After(upto, i)]
  <2>1. f = [i \in 0..n |-> After(f, i)]
    BY <1>6
  <2> QED
    BY <2>1
<1> HIDE DEF upto
<1>8. ASSUME NEW i \in 0..n PROVE upto[i] = After(upto, i)
  BY <1>7
<1>9. ASSUME NEW m \in 0..n PROVE upto[m] \in Seq(S)
  <2> DEFINE Bad == {k \in Nat : k <= n /\ upto[k] \notin Seq(S)}
  <2> SUFFICES ASSUME upto[m] \notin Seq(S) PROVE FALSE
    OBVIOUS
  <2>1. m \in Bad
    BY <1>1
  <2>2. PICK k \in Bad : \A j \in Bad : k <= j
    BY <2>1, Least
  <2>3. k \in 0..n /\ upto[k] = After(upto, k)
    BY <1>1, <1>8, <2>2
  <2>4. CASE k = 0
    <3>1. upto[k] = <<>>
      BY <2>3, <2>4
    <3>2. <<>> \in Seq(S)
      OBVIOUS
    <3> QED
      BY <2>2, <3>1, <3>2
  <2>5. CASE k # 0
    <3>1. k - 1 \in Nat /\ k - 1 <= n /\ k - 1 \notin Bad /\ k \in 1..n
      BY <1>1, <2>2, <2>5
    <3>2. upto[k - 1] \in Seq(S) /\ seqs[k] \in Seq(S)
      BY <1>1, <3>1
    <3>3. upto[k] = upto[k - 1] \o seqs[k]
      BY <2>3, <2>5
    <3>4. upto[k] \in Seq(S)
      BY <3>2, <3>3
    <3> QED
      BY <2>2, <3>4
  <2> QED
    BY <2>4, <2>5
<1> QED
  BY <1>1, <1>2, <1>9
-----------------------------------------------------------------------------
(***************************************************************************)
(* AiServer: what its handlers still have to do is about objects that have *)
(* been there (Seen), and a handler ends, sorts and sends to itself for    *)
(* its own object only.                                                    *)
(***************************************************************************)
AiOps == {"place", "ok", "enter", "visit", "unlock", "done", "step", "copy", "look", "sort",
          "insert", "erase", "meet", "part", "wake", "own", "add", "move", "remove",
          "free", "tell"}

(* The objects that have been there; the NPCs always have.                 *)
Seen(c) == {o \in Ai(c)!Objects : o \in Ai(c)!Players => lives[o] >= 1}

(* The instructions of a handler of a.                                     *)
AiInstr(c, a) ==
    {i \in AiOps \X Ai(c)!Objects \X Ai(c)!Objects :
        /\ i[1] \in {"done", "sort", "step", "copy", "own", "look", "place", "ok", "enter",
                     "visit"} => i[2] = a /\ a \in Seen(c)
        /\ i[1] \in {"copy", "own", "place", "ok", "enter", "visit", "tell"}
             => i[2] \in Ai(c)!Players
        /\ i[1] = "wake" => i[2] \in Ai(c)!Npcs
        /\ i[1] \in {"insert", "erase", "meet", "part", "add", "move", "remove", "free"}
             => i[2] \in Ai(c)!Players /\ i[2] \in Seen(c)
        /\ i[1] \in {"insert", "meet"} => i[3] \in Seen(c)
        /\ i[1] = "look" /\ a \in Ai(c)!Npcs => i[3] \in Ai(c)!Players}

(* Those that take and give back no lock, and free no slot.                *)
LockOps == {"place", "ok", "enter", "visit", "unlock"}

Quiet(c, a) == {i \in AiInstr(c, a) : i[1] \notin LockOps \cup {"free"}}

AiHandlers(c) ==
    [op : {"idle", "login", "move", "quit", "abort", "npc"}, id : Ai(c)!Objects \cup {0},
     life : Nat, old : SUBSET Ai(c)!Objects, new : SUBSET Ai(c)!Objects,
     todo : Seq(AiOps \X Ai(c)!Objects \X Ai(c)!Objects)]

AiType(c) ==
    /\ state \in [Ai(c)!Objects -> {"FREE", "CONNECTED", "INGAME"}]
    /\ view \in [Ai(c)!Players -> SUBSET Ai(c)!Objects]
    /\ active \in [Ai(c)!Npcs -> BOOLEAN]
    /\ due \in [Ai(c)!Npcs -> Nat]
    /\ slock \in [Ai(c)!Objects -> c.workers \cup {0}]
    /\ lives \in [Ai(c)!Players -> Nat]
    /\ failed \in Nat
    /\ aborted \in [Ai(c)!Players -> Nat]
    /\ task \in [c.workers -> AiHandlers(c)]

OfClient == {"login", "move", "quit"}

HandlerSeen(c, w) ==
    /\ task[w].old \subseteq Seen(c) /\ task[w].new \subseteq Seen(c)
    /\ task[w].todo \in Seq(AiInstr(c, task[w].id))
    /\ task[w].op \in OfClient \cup {"abort"} =>
         task[w].id \in Ai(c)!Players /\ task[w].id \in Seen(c)
    /\ task[w].op \in OfClient => task[w].life >= 1 /\ task[w].life <= lives[task[w].id]
    /\ task[w].op = "npc" => task[w].id \in Ai(c)!Npcs
    /\ task[w].id \in Ai(c)!Npcs =>
         task[w].old \subseteq Ai(c)!Players /\ task[w].new \subseteq Ai(c)!Players

SlotsSeen(c) ==
    \A p \in Ai(c)!Players :
        /\ state[p] # "FREE" \/ aborted[p] > 0 => lives[p] >= 1
        /\ view[p] \subseteq Seen(c)

AiInv(c) == AiType(c) /\ SlotsSeen(c) /\ \A w \in c.workers : HandlerSeen(c, w)

LEMMA Sizes ==
    ASSUME NEW c \in AiServers
    PROVE  /\ c.users \in Nat /\ c.npcStart \in Nat /\ c.npcStart >= 1
           /\ c.npcStart <= c.users + 1
           /\ Ai(c)!Players = 1..(c.npcStart - 1) /\ Ai(c)!Npcs = c.npcStart..c.users
           /\ Ai(c)!Objects = 1..c.users
           /\ \A o \in Ai(c)!Objects : o \in Nat /\ o # 0
           /\ \A o \in Ai(c)!Objects : o \in Ai(c)!Npcs <=> o \notin Ai(c)!Players
           /\ Ai(c)!Players \subseteq Ai(c)!Objects /\ Ai(c)!Npcs \subseteq Ai(c)!Objects
           /\ 0 \notin c.workers
<1>1. Ai(c)!AiServerAssumption
  BY LectureServersAssumption
<1>2. /\ c.users \in Nat /\ c.npcStart \in Nat /\ c.npcStart >= 1
      /\ c.npcStart <= c.users + 1 /\ 0 \notin c.workers
  BY <1>1 DEF Ai!AiServerAssumption
<1>3. Ai(c)!Players = 1..(c.npcStart - 1) /\ Ai(c)!Npcs = c.npcStart..c.users
  BY DEF Ai!Players, Ai!Npcs
<1>4. Ai(c)!Objects = 1..c.users
  BY <1>2, <1>3 DEF Ai!Objects
<1>5. \A o \in Ai(c)!Objects : o \in Nat /\ o # 0
  BY <1>4
<1>6. \A o \in Ai(c)!Objects : o \in Ai(c)!Npcs <=> o \notin Ai(c)!Players
  BY <1>2, <1>3, <1>4
<1> QED
  BY <1>2, <1>3, <1>4, <1>5, <1>6 DEF Ai!Objects

LEMMA QuietSeq ==
    ASSUME NEW c, NEW a, NEW T \in Seq(Quiet(c, a))
    PROVE  T \in Seq(AiInstr(c, a))
<1>1. Quiet(c, a) \subseteq AiInstr(c, a)
  BY DEF Quiet
<1> QED
  BY <1>1, SeqGrows

(* Clients only come: what was seen stays seen.                            *)
LEMMA SeenGrows ==
    ASSUME NEW c \in AiServers, AiType(c), AiType(c)',
           \A p \in Ai(c)!Players : lives'[p] >= lives[p]
    PROVE  /\ Seen(c) \subseteq Seen(c)'
           /\ \A a : AiInstr(c, a) \subseteq AiInstr(c, a)'
<1>1. Seen(c) \subseteq Seen(c)'
  <2> SUFFICES ASSUME NEW o \in Ai(c)!Objects, o \in Ai(c)!Players, lives[o] >= 1
               PROVE  lives'[o] >= 1
    BY DEF Seen
  <2>1. lives[o] \in Nat /\ lives'[o] \in Nat /\ lives'[o] >= lives[o]
    BY DEF AiType
  <2> QED
    BY <2>1
<1>2. ASSUME NEW a PROVE AiInstr(c, a) \subseteq AiInstr(c, a)'
  <2> SUFFICES ASSUME NEW i \in AiInstr(c, a) PROVE i \in AiInstr(c, a)'
    OBVIOUS
  <2> QED
    BY <1>1 DEF AiInstr
<1> QED
  BY <1>1, <1>2

(* A handler that does nothing.                                            *)
LEMMA StaysSeen ==
    ASSUME NEW c \in AiServers, AiType(c), AiType(c)',
           \A p \in Ai(c)!Players : lives'[p] >= lives[p],
           NEW u \in c.workers, HandlerSeen(c, u), task'[u] = task[u]
    PROVE  HandlerSeen(c, u)'
<1>1. /\ Seen(c) \subseteq Seen(c)'
      /\ AiInstr(c, task[u].id) \subseteq AiInstr(c, task[u].id)'
  BY SeenGrows
<1>2. task[u].todo \in Seq(AiInstr(c, task[u].id)')
  BY <1>1, SeqGrows DEF HandlerSeen
<1>3. task[u].op \in OfClient => task[u].life <= lives'[task[u].id]
  <2> SUFFICES ASSUME task[u].op \in OfClient PROVE task[u].life <= lives'[task[u].id]
    OBVIOUS
  <2> DEFINE p == task[u].id
             l == task[u].life
  <2>1. p \in Ai(c)!Players /\ l <= lives[p] /\ l \in Nat
    BY DEF HandlerSeen, AiType, AiHandlers
  <2> HIDE DEF p, l
  <2>2. lives[p] \in Nat /\ lives'[p] \in Nat /\ lives'[p] >= lives[p]
    BY <2>1 DEF AiType
  <2>3. l <= lives'[p]
    BY <2>1, <2>2
  <2> QED
    BY <2>3 DEF p, l
<1> QED
  BY <1>1, <1>2, <1>3 DEF HandlerSeen

-----------------------------------------------------------------------------
(* A handler goes on, after more.                                          *)
LEMMA AiGoes ==
    ASSUME NEW c \in AiServers, AiInv(c), NEW w \in c.workers, task[w].todo # <<>>,
           NEW more \in Seq(AiInstr(c, task[w].id)), Ai(c)!Go(w, more)
    PROVE  /\ task' \in [c.workers -> AiHandlers(c)]
           /\ task'[w].todo = more \o Tail(task[w].todo)
           /\ task'[w].todo \in Seq(AiInstr(c, task[w].id))
           /\ task'[w].op = task[w].op /\ task'[w].id = task[w].id
           /\ task'[w].life = task[w].life
           /\ task'[w].old = task[w].old /\ task'[w].new = task[w].new
           /\ \A u \in c.workers : u # w => task'[u] = task[u]
<1> DEFINE t == task[w]
           S == AiInstr(c, t.id)
           T == more \o Tail(t.todo)
           t2 == [t EXCEPT !.todo = T]
<1>1. t \in AiHandlers(c) /\ t.todo \in Seq(S) /\ task \in [c.workers -> AiHandlers(c)]
  BY DEF AiInv, AiType, HandlerSeen
<1>2. S \subseteq AiOps \X Ai(c)!Objects \X Ai(c)!Objects
  BY DEF AiInstr
<1>3. task' = [task EXCEPT ![w] = t2]
  BY DEF Ai!Go
<1> HIDE DEF S
<1>4. T \in Seq(S)
  <2>1. Tail(t.todo) \in Seq(S)
    BY <1>1
  <2> QED
    BY <2>1 DEF S
<1> HIDE DEF T
<1>5. T \in Seq(AiOps \X Ai(c)!Objects \X Ai(c)!Objects)
  BY <1>2, <1>4, SeqGrows
<1>6. /\ t2 \in AiHandlers(c) /\ t2.todo = T /\ t2.op = t.op /\ t2.id = t.id
      /\ t2.life = t.life /\ t2.old = t.old /\ t2.new = t.new
  BY <1>1, <1>5 DEF AiHandlers
<1> HIDE DEF t, t2
<1>7. /\ task' \in [c.workers -> AiHandlers(c)] /\ task'[w] = t2
      /\ \A u \in c.workers : u # w => task'[u] = task[u]
  BY <1>1, <1>3, <1>6
<1> QED
  BY <1>4, <1>6, <1>7 DEF t, S, T

(* The instruction a handler is at.                                        *)
LEMMA AiNow ==
    ASSUME NEW c \in AiServers, AiInv(c), NEW w \in c.workers, task[w].todo # <<>>
    PROVE  /\ Head(task[w].todo) \in AiInstr(c, task[w].id)
           /\ Ai(c)!First(w) = Head(task[w].todo)[2] /\ Ai(c)!Second(w) = Head(task[w].todo)[3]
           /\ Ai(c)!First(w) \in Ai(c)!Objects /\ Ai(c)!Second(w) \in Ai(c)!Objects
           /\ \A op : Ai(c)!At(w, op) <=> Head(task[w].todo)[1] = op
           /\ <<>> \in Seq(AiInstr(c, task[w].id))
           /\ Tail(task[w].todo) \in Seq(AiInstr(c, task[w].id))
<1>1. task[w].todo \in Seq(AiInstr(c, task[w].id))
  BY DEF AiInv, HandlerSeen
<1>2. Head(task[w].todo) \in AiInstr(c, task[w].id)
      /\ Tail(task[w].todo) \in Seq(AiInstr(c, task[w].id))
  <2> DEFINE S == AiInstr(c, task[w].id)
             T == task[w].todo
  <2>1. T \in Seq(S) /\ T # <<>>
    BY <1>1
  <2> HIDE DEF S, T
  <2>2. Head(T) \in S /\ Tail(T) \in Seq(S)
    BY <2>1
  <2> QED
    BY <2>2 DEF S, T
<1>3. /\ Ai(c)!First(w) = Head(task[w].todo)[2] /\ Ai(c)!Second(w) = Head(task[w].todo)[3]
      /\ \A op : Ai(c)!At(w, op) <=> Head(task[w].todo)[1] = op
  BY DEF Ai!First, Ai!Second, Ai!At
<1>4. Head(task[w].todo)[2] \in Ai(c)!Objects /\ Head(task[w].todo)[3] \in Ai(c)!Objects
  BY <1>2 DEF AiInstr
<1> QED
  BY <1>2, <1>3, <1>4

(* A step of a handler that goes on, and leaves the counts of clients.     *)
LEMMA AiKeeps ==
    ASSUME NEW c \in AiServers, AiInv(c), AiType(c)', SlotsSeen(c)',
           UNCHANGED lives, NEW w \in c.workers,
           task'[w].todo \in Seq(AiInstr(c, task[w].id)),
           task'[w].op = task[w].op, task'[w].id = task[w].id, task'[w].life = task[w].life,
           task'[w].old \subseteq Seen(c), task'[w].new \subseteq Seen(c),
           task[w].id \in Ai(c)!Npcs => /\ task'[w].old \subseteq Ai(c)!Players
                                        /\ task'[w].new \subseteq Ai(c)!Players,
           \A u \in c.workers : u # w => task'[u] = task[u]
    PROVE  AiInv(c)'
<1>1. AiType(c) /\ \A p \in Ai(c)!Players : lives'[p] >= lives[p]
  <2>1. AiType(c)
    BY DEF AiInv
  <2>2. \A p \in Ai(c)!Players : lives[p] >= lives[p]
    BY <2>1 DEF AiType
  <2> QED
    BY <2>1, <2>2
<1>2. /\ Seen(c) \subseteq Seen(c)'
      /\ AiInstr(c, task[w].id) \subseteq AiInstr(c, task[w].id)'
  BY <1>1, SeenGrows
<1>3. HandlerSeen(c, w) /\ \A u \in c.workers : HandlerSeen(c, u)
  BY DEF AiInv
<1>4. HandlerSeen(c, w)'
  <2>1. task'[w].todo \in Seq(AiInstr(c, task[w].id)')
    BY <1>2, SeqGrows
  <2> QED
    BY <1>2, <1>3, <2>1 DEF HandlerSeen
<1>5. ASSUME NEW u \in c.workers, u # w PROVE HandlerSeen(c, u)'
  BY <1>1, <1>3, <1>5, StaysSeen
<1> QED
  BY <1>4, <1>5 DEF AiInv

LEMMA AiGoesOn ==
    ASSUME NEW c \in AiServers, AiInv(c), NEW w \in c.workers, task[w].todo # <<>>,
           NEW more \in Seq(AiInstr(c, task[w].id)), Ai(c)!Go(w, more),
           AiType(c)' \/ UNCHANGED <<state, view, active, due, slock, failed, aborted>>,
           SlotsSeen(c)' \/ UNCHANGED <<state, view, aborted>>,
           UNCHANGED lives
    PROVE  AiInv(c)'
<1>1. /\ task' \in [c.workers -> AiHandlers(c)]
      /\ task'[w].todo \in Seq(AiInstr(c, task[w].id))
      /\ task'[w].op = task[w].op /\ task'[w].id = task[w].id
      /\ task'[w].life = task[w].life
      /\ task'[w].old = task[w].old /\ task'[w].new = task[w].new
      /\ \A u \in c.workers : u # w => task'[u] = task[u]
  BY AiGoes
<1>2. AiType(c)'
  BY <1>1 DEF AiInv, AiType
<1>3. SlotsSeen(c)'
  BY DEF AiInv, SlotsSeen, Seen
<1>4. HandlerSeen(c, w)
  BY DEF AiInv
<1> QED
  BY <1>1, <1>2, <1>3, <1>4, AiKeeps DEF HandlerSeen

-----------------------------------------------------------------------------
(* The programs that handlers begin with, and go on with.                  *)
LEMMA AiOthers ==
    ASSUME NEW c \in AiServers, NEW o \in Ai(c)!Objects, NEW k \in 1..(c.users - 1)
    PROVE  Ai(c)!Others(o)[k] \in Ai(c)!Objects \ {o}
<1>1. c.users \in Nat /\ Ai(c)!Objects = 1..c.users
  BY Sizes
<1>2. Ai(c)!Others(o)[k] = IF k < o THEN k ELSE k + 1
  BY DEF Ai!Others
<1> QED
  BY <1>1, <1>2

LEMMA EachSeq ==
    ASSUME NEW S, NEW n \in Nat, NEW X \in [1..n -> S]
    PROVE  X \in Seq(S) /\ Len(X) = n
  OBVIOUS

LEMMA LoginPrograms ==
    ASSUME NEW c \in AiServers, NEW p \in Ai(c)!Players, p \in Seen(c)
    PROVE  Ai(c)!LoginProgram(p) \in Seq(AiInstr(c, p))
<1> DEFINE S == AiInstr(c, p)
           V == [i \in 1..(c.users - 1) |-> <<"visit", p, Ai(c)!Others(p)[i]>>]
<1>1. p \in Ai(c)!Objects /\ p \notin Ai(c)!Npcs /\ c.users - 1 \in Nat
  BY Sizes
<1>2. /\ \A op \in {"place", "ok", "enter", "unlock", "done"} : <<op, p, p>> \in S
      /\ \A o \in Ai(c)!Objects : <<"visit", p, o>> \in S
  BY <1>1 DEF AiInstr, AiOps
<1> HIDE DEF S
<1>3. V \in Seq(S)
  <2>1. V \in [1..(c.users - 1) -> S]
    BY <1>1, <1>2, AiOthers
  <2> HIDE DEF V
  <2> QED
    BY <1>1, <2>1, EachSeq
<1> HIDE DEF V
<1>4. /\ << <<"place", p, p>>, <<"ok", p, p>>, <<"enter", p, p>> >> \in Seq(S)
      /\ << <<"unlock", p, p>>, <<"done", p, p>> >> \in Seq(S)
  BY <1>2
<1>5. << <<"place", p, p>>, <<"ok", p, p>>, <<"enter", p, p>> >> \o V
         \o << <<"unlock", p, p>>, <<"done", p, p>> >> \in Seq(S)
  BY <1>3, <1>4, ConcatProperties
<1> QED
  BY <1>5 DEF Ai!LoginProgram, V, S

LEMMA MovePrograms ==
    ASSUME NEW c \in AiServers, NEW p \in Ai(c)!Players, p \in Seen(c)
    PROVE  Ai(c)!MoveProgram(p) \in Seq(Quiet(c, p))
<1> DEFINE S == Quiet(c, p)
           L == [i \in 1..(c.users - 1) |-> <<"look", p, Ai(c)!Others(p)[i]>>]
<1>1. p \in Ai(c)!Objects /\ p \notin Ai(c)!Npcs /\ c.users - 1 \in Nat
  BY Sizes
<1>2. /\ \A op \in {"step", "copy", "sort"} : <<op, p, p>> \in S
      /\ \A o \in Ai(c)!Objects : <<"look", p, o>> \in S
  BY <1>1 DEF Quiet, LockOps, AiInstr, AiOps
<1> HIDE DEF S
<1>3. L \in Seq(S)
  <2>1. L \in [1..(c.users - 1) -> S]
    BY <1>1, <1>2, AiOthers
  <2> HIDE DEF L
  <2> QED
    BY <1>1, <2>1, EachSeq
<1> HIDE DEF L
<1>4. << <<"step", p, p>>, <<"copy", p, p>> >> \in Seq(S) /\ << <<"sort", p, p>> >> \in Seq(S)
  BY <1>2
<1>5. << <<"step", p, p>>, <<"copy", p, p>> >> \o L \o << <<"sort", p, p>> >> \in Seq(S)
  BY <1>3, <1>4, ConcatProperties
<1> QED
  BY <1>5 DEF Ai!MoveProgram, L, S

LEMMA NpcPrograms ==
    ASSUME NEW c \in AiServers, NEW n \in Ai(c)!Npcs
    PROVE  Ai(c)!NpcProgram(n) \in Seq(Quiet(c, n))
<1> DEFINE S == Quiet(c, n)
           L == [p \in Ai(c)!Players |-> <<"look", n, p>>]
<1>1. /\ n \in Ai(c)!Objects /\ Ai(c)!Players \subseteq Ai(c)!Objects
      /\ c.npcStart - 1 \in Nat /\ Ai(c)!Players = 1..(c.npcStart - 1)
      /\ n \in Seen(c)
  BY Sizes DEF Seen
<1>2. /\ <<"step", n, n>> \in S /\ <<"sort", n, n>> \in S
      /\ \A p \in Ai(c)!Players : <<"look", n, p>> \in S
  BY <1>1 DEF Quiet, LockOps, AiInstr, AiOps
<1> HIDE DEF S
<1>3. L \in Seq(S)
  <2>1. L \in [1..(c.npcStart - 1) -> S]
    BY <1>1, <1>2
  <2> HIDE DEF L
  <2> QED
    BY <1>1, <2>1, EachSeq
<1> HIDE DEF L
<1>4. << <<"step", n, n>> >> \in Seq(S) /\ << <<"sort", n, n>> >> \in Seq(S)
  BY <1>2
<1>5. L \o << <<"step", n, n>> >> \o L \o << <<"sort", n, n>> >> \in Seq(S)
  BY <1>3, <1>4, ConcatProperties
<1> QED
  BY <1>5 DEF Ai!NpcProgram, S, L

LEMMA TellsAll ==
    ASSUME NEW c \in AiServers, NEW p \in Ai(c)!Players, p \in Seen(c), NEW a
    PROVE  [q \in Ai(c)!Players |-> <<"tell", q, p>>] \in Seq(Quiet(c, a))
<1> DEFINE S == Quiet(c, a)
           L == [q \in Ai(c)!Players |-> <<"tell", q, p>>]
<1>1. /\ Ai(c)!Players \subseteq Ai(c)!Objects
      /\ c.npcStart - 1 \in Nat /\ Ai(c)!Players = 1..(c.npcStart - 1)
  BY Sizes
<1>2. \A q \in Ai(c)!Players : <<"tell", q, p>> \in S
  BY <1>1 DEF Quiet, LockOps, AiInstr, AiOps
<1> HIDE DEF S
<1>3. L \in [1..(c.npcStart - 1) -> S]
  BY <1>1, <1>2
<1> HIDE DEF L
<1>4. L \in Seq(S)
  BY <1>1, <1>3, EachSeq
<1> QED
  BY <1>4 DEF S, L

(* The end of a connection: the slot is freed once, or twice.              *)
Leave(c, p) == Quiet(c, p) \cup {<<"free", p, p>>}

LEMMA Disconnects ==
    ASSUME NEW c \in AiServers, NEW p \in Ai(c)!Players, p \in Seen(c), NEW error \in BOOLEAN
    PROVE  /\ (IF error THEN Ai(c)!DisconnectProgram(p) ELSE <<>>)
               \o Ai(c)!DisconnectProgram(p) \o << <<"done", p, p>> >> \in Seq(Leave(c, p))
           /\ Ai(c)!DisconnectProgram(p) \o Ai(c)!DisconnectProgram(p)
                \o << <<"done", p, p>> >> \in Seq(Leave(c, p))
<1> DEFINE S == Leave(c, p)
           D == Ai(c)!DisconnectProgram(p)
           E == << <<"done", p, p>> >>
           X == IF error THEN D ELSE <<>>
<1>1. p \in Ai(c)!Objects
  BY Sizes
<1>2. <<"free", p, p>> \in S /\ <<"done", p, p>> \in S
  BY <1>1 DEF Leave, Quiet, LockOps, AiInstr, AiOps
<1> HIDE DEF S
<1>3. D \in Seq(S) /\ E \in Seq(S) /\ X \in Seq(S)
  BY <1>2 DEF Ai!DisconnectProgram
<1> HIDE DEF X, D, E
<1>4. X \o D \o E \in Seq(S) /\ D \o D \o E \in Seq(S)
  BY <1>3, ConcatProperties
<1> QED
  BY <1>4 DEF S, X, D, E

LEMMA LeaveSeq ==
    ASSUME NEW c \in AiServers, NEW p \in Ai(c)!Players, p \in Seen(c), NEW T \in Seq(Leave(c, p))
    PROVE  T \in Seq(AiInstr(c, p))
<1>1. p \in Ai(c)!Objects
  BY Sizes
<1>2. Leave(c, p) \subseteq AiInstr(c, p)
  BY <1>1 DEF Leave, Quiet, AiInstr, AiOps
<1> QED
  BY <1>2, SeqGrows

LEMMA GreetsSeen ==
    ASSUME NEW c \in AiServers, NEW p \in Ai(c)!Players, p \in Seen(c),
           NEW o \in Ai(c)!Objects, o \in Seen(c), NEW a
    PROVE  Ai(c)!GreetProgram(p, o) \in Seq(AiInstr(c, a))
<1> DEFINE S == AiInstr(c, a)
           M == IF o \in Ai(c)!Npcs THEN << <<"wake", o, o>> >>
                ELSE << <<"insert", o, p>>, <<"add", o, p>> >>
<1>1. p \in Ai(c)!Objects /\ (o \in Ai(c)!Npcs <=> o \notin Ai(c)!Players)
  BY Sizes
<1>2. /\ <<"insert", p, o>> \in S /\ <<"add", p, o>> \in S /\ <<"unlock", o, o>> \in S
      /\ o \in Ai(c)!Npcs => <<"wake", o, o>> \in S
      /\ o \notin Ai(c)!Npcs => <<"insert", o, p>> \in S /\ <<"add", o, p>> \in S
  BY <1>1 DEF AiInstr, AiOps
<1> HIDE DEF S
<1>3. /\ << <<"insert", p, o>>, <<"add", p, o>> >> \in Seq(S)
      /\ << <<"unlock", o, o>> >> \in Seq(S) /\ M \in Seq(S)
  BY <1>2
<1> HIDE DEF M
<1>4. << <<"insert", p, o>>, <<"add", p, o>> >> \o M \o << <<"unlock", o, o>> >> \in Seq(S)
  BY <1>3, ConcatProperties
<1> QED
  BY <1>4 DEF Ai!GreetProgram, S, M

LEMMA PlayerSorts ==
    ASSUME NEW c \in AiServers, NEW a \in Ai(c)!Players, a \in Seen(c), NEW o \in Seen(c),
           NEW old
    PROVE  /\ Ai(c)!MeetProgram(a, o, old) \in Seq(Quiet(c, a))
           /\ Ai(c)!PartProgram(a, o, {}) \in Seq(Quiet(c, a))
           /\ << <<"own", a, a>> >> \in Seq(Quiet(c, a))
<1> DEFINE S == Quiet(c, a)
<1>1. a \in Ai(c)!Objects /\ o \in Ai(c)!Objects
      /\ (o \in Ai(c)!Npcs <=> o \notin Ai(c)!Players)
  BY Sizes DEF Seen
<1>2. /\ <<"own", a, a>> \in S /\ <<"insert", a, o>> \in S /\ <<"add", a, o>> \in S
      /\ <<"erase", a, o>> \in S /\ <<"remove", a, o>> \in S
      /\ o \in Ai(c)!Players => <<"meet", o, a>> \in S /\ <<"part", o, a>> \in S
      /\ o \notin Ai(c)!Players => <<"wake", o, o>> \in S
  BY <1>1 DEF Quiet, LockOps, AiInstr, AiOps
<1> HIDE DEF S
<1>3. Ai(c)!MeetProgram(a, o, old) \in Seq(S)
  <2> DEFINE A == IF o \in old THEN <<>> ELSE << <<"insert", a, o>>, <<"add", a, o>> >>
             B == IF o \in Ai(c)!Players THEN << <<"meet", o, a>> >>
                  ELSE IF o \in old THEN <<>> ELSE << <<"wake", o, o>> >>
  <2>1. A \in Seq(S) /\ B \in Seq(S)
    BY <1>2
  <2> HIDE DEF A, B
  <2>2. A \o B \in Seq(S)
    BY <2>1, ConcatProperties
  <2> QED
    BY <2>2 DEF Ai!MeetProgram, A, B
<1>4. Ai(c)!PartProgram(a, o, {}) \in Seq(S)
  <2> DEFINE A == << <<"erase", a, o>>, <<"remove", a, o>> >>
             B == IF o \in Ai(c)!Players THEN << <<"part", o, a>> >> ELSE <<>>
  <2>1. A \in Seq(S) /\ B \in Seq(S)
    BY <1>2
  <2> HIDE DEF A, B
  <2>2. A \o B \in Seq(S)
    BY <2>1, ConcatProperties
  <2> QED
    BY <2>2 DEF Ai!PartProgram, A, B
<1>5. << <<"own", a, a>> >> \in Seq(S)
  BY <1>2
<1> QED
  BY <1>3, <1>4, <1>5 DEF S

LEMMA NpcSorts ==
    ASSUME NEW c \in AiServers, NEW n \in Ai(c)!Npcs, NEW p \in Ai(c)!Players, p \in Seen(c),
           NEW old
    PROVE  /\ Ai(c)!NpcMeetProgram(n, p, old) \in Seq(Quiet(c, n))
           /\ Ai(c)!NpcPartProgram(n, p, {}) \in Seq(Quiet(c, n))
<1> DEFINE S == Quiet(c, n)
<1>1. n \in Ai(c)!Objects /\ p \in Ai(c)!Objects /\ n \notin Ai(c)!Players /\ n \in Seen(c)
  BY Sizes DEF Seen
<1>2. /\ <<"move", p, n>> \in S /\ <<"insert", p, n>> \in S /\ <<"add", p, n>> \in S
      /\ <<"part", p, n>> \in S
  BY <1>1 DEF Quiet, LockOps, AiInstr, AiOps
<1> HIDE DEF S
<1>3. /\ << <<"move", p, n>> >> \in Seq(S) /\ << <<"part", p, n>> >> \in Seq(S)
      /\ << <<"insert", p, n>>, <<"add", p, n>> >> \in Seq(S)
  BY <1>2
<1> QED
  BY <1>3 DEF Ai!NpcMeetProgram, Ai!NpcPartProgram, S

(* In whatever order a set is gone through.                                *)
LEMMA InOrder ==
    ASSUME NEW c \in AiServers, NEW S, NEW D \in SUBSET Ai(c)!Objects,
           NEW program \in [D -> Seq(S)], NEW order \in Ai(c)!Orders(D)
    PROVE  Ai(c)!EachOf(program, order) \in Seq(S)
<1> DEFINE n == Cardinality(D)
           P == [i \in 1..Len(order) |-> program[order[i]]]
<1>1. n \in Nat
  <2>1. IsFiniteSet(1..c.users)
    BY Sizes, FS_Interval
  <2>2. IsFiniteSet(D)
    BY <2>1, Sizes, FS_Subset
  <2> QED
    BY <2>2, FS_CardinalityType
<1>2. order \in [1..n -> D]
  <2>1. Ai(c)!Cardinality(D) = Cardinality(D)
    BY DEF Ai!Cardinality, Cardinality
  <2> QED
    BY <2>1 DEF Ai!Orders
<1> HIDE DEF n
<1>3. Len(order) = n
  BY <1>1, <1>2
<1>4. P \in [1..n -> Seq(S)]
  BY <1>2, <1>3
<1> HIDE DEF P
<1>5. P \in Seq(Seq(S))
  BY <1>1, <1>4, EachSeq
<1>6. Ai(c)!Flatten(P) \in Seq(S)
  BY <1>5, Flattened
<1> QED
  BY <1>6 DEF Ai!EachOf, P

-----------------------------------------------------------------------------
(* The start of a handler, and every step of one.                          *)
LEMMA Begun ==
    ASSUME NEW op, NEW id, NEW todo, NEW life, NEW idle,
           idle = [op |-> "idle", id |-> 0, life |-> 0, old |-> {}, new |-> {}, todo |-> <<>>]
    PROVE  [idle EXCEPT !.op = op, !.id = id, !.todo = todo, !.life = life]
             = [op |-> op, id |-> id, life |-> life, old |-> {}, new |-> {}, todo |-> todo]
<1> DEFINE e == [idle EXCEPT !.op = op, !.id = id, !.todo = todo, !.life = life]
<1>1. /\ e.op = op /\ e.id = id /\ e.life = life /\ e.old = {} /\ e.new = {}
      /\ e.todo = todo
  OBVIOUS
<1>2. DOMAIN idle = {"op", "id", "life", "old", "new", "todo"}
  OBVIOUS
<1>3. /\ DOMAIN e = {"op", "id", "life", "old", "new", "todo"}
      /\ e = [f \in {"op", "id", "life", "old", "new", "todo"} |-> e[f]]
  BY <1>2
<1> HIDE DEF e
<1>4. e = [op |-> op, id |-> id, life |-> life, old |-> {}, new |-> {}, todo |-> todo]
  BY <1>1, <1>3
<1> QED
  BY <1>4 DEF e

LEMMA AiBegins ==
    ASSUME NEW c \in AiServers, AiInv(c), NEW w \in c.workers,
           NEW op \in OfClient \cup {"abort", "npc"}, NEW id \in Ai(c)!Objects,
           NEW todo \in Seq(AiInstr(c, id)), Ai(c)!Begin(w, op, id, todo),
           op # "npc" => id \in Ai(c)!Players /\ id \in Seen(c),
           op = "npc" => id \in Ai(c)!Npcs,
           due' \in [Ai(c)!Npcs -> Nat], aborted' \in [Ai(c)!Players -> Nat],
           \A p \in Ai(c)!Players : aborted'[p] > 0 => aborted[p] > 0,
           UNCHANGED <<state, view, active, slock, lives, failed>>
    PROVE  /\ AiInv(c)'
           /\ task[w].op = "idle" /\ task'[w].op = op /\ task'[w].id = id
           /\ task'[w].todo = todo
           /\ \A u \in c.workers : u # w => task'[u] = task[u]
<1> DEFINE life == IF id \in Ai(c)!Players THEN lives[id] ELSE 0
           t == [op |-> op, id |-> id, life |-> life, old |-> {}, new |-> {}, todo |-> todo]
<1>1. task \in [c.workers -> AiHandlers(c)] /\ lives \in [Ai(c)!Players -> Nat]
  BY DEF AiInv, AiType
<1>2. task[w] = Ai(c)!Idle /\ task' = [task EXCEPT ![w] = t]
  <2>1. task[w] = Ai(c)!Idle
    BY DEF Ai!Begin
  <2>2. task' = [task EXCEPT ![w] = [Ai(c)!Idle EXCEPT !.op = op, !.id = id, !.todo = todo,
                                                        !.life = life]]
    BY DEF Ai!Begin
  <2>3. [Ai(c)!Idle EXCEPT !.op = op, !.id = id, !.todo = todo, !.life = life] = t
    <3>1. Ai(c)!Idle = [op |-> "idle", id |-> 0, life |-> 0, old |-> {}, new |-> {},
                        todo |-> <<>>]
      BY DEF Ai!Idle
    <3> DEFINE idle == Ai(c)!Idle
    <3> HIDE DEF idle, life
    <3>2. idle = [op |-> "idle", id |-> 0, life |-> 0, old |-> {}, new |-> {},
                  todo |-> <<>>]
      BY <3>1 DEF idle
    <3>3. [idle EXCEPT !.op = op, !.id = id, !.todo = todo, !.life = life] = t
      BY <3>2, Begun
    <3> QED
      BY <3>3 DEF idle
  <2> HIDE DEF t, life
  <2> QED
    BY <2>1, <2>2, <2>3
<1>3. todo \in Seq(AiOps \X Ai(c)!Objects \X Ai(c)!Objects)
  <2>1. AiInstr(c, id) \subseteq AiOps \X Ai(c)!Objects \X Ai(c)!Objects
    BY DEF AiInstr
  <2> QED
    BY <2>1, SeqGrows
<1>4. life \in Nat
  BY <1>1
<1> HIDE DEF life
<1>5. t \in AiHandlers(c)
  BY <1>3, <1>4 DEF AiHandlers, OfClient
<1>6. /\ t.op = op /\ t.id = id /\ t.life = life /\ t.old = {} /\ t.new = {}
      /\ t.todo = todo
  OBVIOUS
<1> HIDE DEF t
<1>7. /\ task' \in [c.workers -> AiHandlers(c)] /\ task'[w] = t
      /\ \A u \in c.workers : u # w => task'[u] = task[u]
  BY <1>1, <1>2, <1>5
<1>8. AiType(c)'
  BY <1>7 DEF AiInv, AiType
<1>9. SlotsSeen(c)'
  BY DEF AiInv, SlotsSeen, Seen
<1>10. AiType(c) /\ \A p \in Ai(c)!Players : lives'[p] >= lives[p]
  <2>1. \A p \in Ai(c)!Players : lives[p] >= lives[p]
    BY <1>1
  <2> QED
    BY <2>1 DEF AiInv
<1>11. HandlerSeen(c, w)'
  <2>1. Seen(c)' = Seen(c) /\ AiInstr(c, id)' = AiInstr(c, id)
    BY DEF Seen, AiInstr
  <2>2. op \in OfClient => life >= 1 /\ life <= lives[id]
    BY <1>1 DEF OfClient, Seen, life
  <2> QED
    BY <1>6, <1>7, <2>1, <2>2 DEF HandlerSeen, OfClient
<1>12. ASSUME NEW u \in c.workers, u # w PROVE HandlerSeen(c, u)'
  <2>1. HandlerSeen(c, u) /\ task'[u] = task[u]
    BY <1>7, <1>12 DEF AiInv
  <2> QED
    BY <1>8, <1>10, <2>1, StaysSeen
<1>13. task[w].op = "idle"
  BY <1>2 DEF Ai!Idle
<1> QED
  BY <1>6, <1>7, <1>8, <1>9, <1>11, <1>12, <1>13 DEF AiInv

LEMMA AiAccept ==
    ASSUME NEW c \in AiServers, AiInv(c), NEW w \in c.workers, NEW p \in Ai(c)!Players,
           Ai(c)!Accept(w, p)
    PROVE  AiInv(c)'
<1>1. /\ state' = [state EXCEPT ![p] = "CONNECTED"] /\ lives' = [lives EXCEPT ![p] = @ + 1]
      /\ UNCHANGED <<view, active, due, slock, failed, aborted, task>>
  BY DEF Ai!Accept, Ai!timer
<1>2. AiType(c) /\ SlotsSeen(c) /\ \A u \in c.workers : HandlerSeen(c, u)
  BY DEF AiInv
<1>3. \A q \in Ai(c)!Players : lives'[q] >= lives[q] /\ lives'[q] \in Nat
  BY <1>1, <1>2 DEF AiType
<1>4. lives'[p] >= 1
  <2>1. lives'[p] = lives[p] + 1 /\ lives[p] \in Nat
    BY <1>1, <1>2 DEF AiType
  <2> QED
    BY <2>1
<1>5. AiType(c)'
  <2>1. lives' \in [Ai(c)!Players -> Nat]
    BY <1>1, <1>2, <1>3 DEF AiType
  <2>2. state' \in [Ai(c)!Objects -> {"FREE", "CONNECTED", "INGAME"}]
    BY <1>1, <1>2 DEF AiType
  <2> QED
    BY <1>1, <1>2, <2>1, <2>2 DEF AiType
<1>6. Seen(c) \subseteq Seen(c)'
  BY <1>2, <1>3, <1>5, SeenGrows
<1>7. SlotsSeen(c)'
  <2> SUFFICES ASSUME NEW q \in Ai(c)!Players
               PROVE  /\ state'[q] # "FREE" \/ aborted'[q] > 0 => lives'[q] >= 1
                      /\ view'[q] \subseteq Seen(c)'
    BY DEF SlotsSeen
  <2>1. view'[q] \subseteq Seen(c)'
    BY <1>1, <1>2, <1>6 DEF SlotsSeen
  <2>2. ASSUME q # p, state'[q] # "FREE" \/ aborted'[q] > 0 PROVE lives'[q] >= 1
    <3>1. state'[q] = state[q] /\ aborted'[q] = aborted[q] /\ lives'[q] = lives[q]
      BY <1>1, <1>2, <2>2, Sizes DEF AiType
    <3>2. lives[q] >= 1
      BY <1>2, <2>2, <3>1 DEF SlotsSeen
    <3> QED
      BY <3>1, <3>2
  <2> QED
    BY <1>4, <2>1, <2>2
<1>8. ASSUME NEW u \in c.workers PROVE HandlerSeen(c, u)'
  <2>1. HandlerSeen(c, u) /\ task'[u] = task[u]
    BY <1>1, <1>2
  <2> QED
    BY <1>2, <1>3, <1>5, <2>1, StaysSeen
<1> QED
  BY <1>5, <1>7, <1>8 DEF AiInv

LEMMA AiLogin ==
    ASSUME NEW c \in AiServers, AiInv(c), NEW w \in c.workers, NEW p \in Ai(c)!Players,
           Ai(c)!Login(w, p)
    PROVE  AiInv(c)'
<1>1. /\ p \in Ai(c)!Objects /\ state[p] # "FREE"
      /\ Ai(c)!Begin(w, "login", p, Ai(c)!LoginProgram(p))
      /\ UNCHANGED <<state, view, active, due, slock, lives, failed, aborted>>
  BY Sizes DEF Ai!Login, Ai!timer, Ai!faults
<1>2. p \in Seen(c) /\ AiType(c)
  BY <1>1 DEF AiInv, SlotsSeen, Seen
<1>3. due' \in [Ai(c)!Npcs -> Nat] /\ aborted' \in [Ai(c)!Players -> Nat]
      /\ \A q \in Ai(c)!Players : aborted'[q] > 0 => aborted[q] > 0
  BY <1>1, <1>2 DEF AiType
<1>4. Ai(c)!LoginProgram(p) \in Seq(AiInstr(c, p))
  BY <1>2, LoginPrograms
<1> QED
  BY <1>1, <1>2, <1>3, <1>4, AiBegins DEF OfClient

(* The other handlers begin with no lock.                                  *)
LEMMA Begins ==
    ASSUME NEW c \in AiServers, AiInv(c), NEW w \in c.workers, NEW a \in Ai(c)!Objects,
           \/ a \in Ai(c)!Players /\ (Ai(c)!Move(w, a) \/ Ai(c)!Quit(w, a) \/ Ai(c)!Abort(w, a))
           \/ a \in Ai(c)!Npcs /\ Ai(c)!NpcTurn(w, a)
    PROVE  /\ a \in Seen(c)
           /\ \/ \E op \in {"move", "npc"} : \E todo \in Seq(Quiet(c, a)) :
                   /\ Ai(c)!Begin(w, op, a, todo)
                   /\ IF op = "move" THEN a \in Ai(c)!Players ELSE a \in Ai(c)!Npcs
              \/ /\ a \in Ai(c)!Players
                 /\ \E op \in {"quit", "abort"} : \E todo \in Seq(Leave(c, a)) :
                      /\ Ai(c)!Begin(w, op, a, todo)
                      /\ op = "quit" => Ai(c)!Quit(w, a)
                      /\ op = "abort" => aborted[a] > 0
<1>1. CASE a \in Ai(c)!Players /\ Ai(c)!Move(w, a)
  <2>1. state[a] # "FREE" /\ Ai(c)!Begin(w, "move", a, Ai(c)!MoveProgram(a))
    BY <1>1 DEF Ai!Move
  <2>2. a \in Seen(c)
    BY <1>1, <2>1 DEF AiInv, SlotsSeen, Seen
  <2>3. Ai(c)!MoveProgram(a) \in Seq(Quiet(c, a))
    BY <1>1, <2>2, MovePrograms
  <2> QED
    BY <1>1, <2>1, <2>2, <2>3
<1>2. CASE a \in Ai(c)!Players /\ Ai(c)!Quit(w, a)
  <2>1. state[a] # "FREE"
    BY <1>2 DEF Ai!Quit
  <2>2. a \in Seen(c)
    BY <1>2, <2>1 DEF AiInv, SlotsSeen, Seen
  <2>3. PICK error \in BOOLEAN :
          Ai(c)!Begin(w, "quit", a, (IF error THEN Ai(c)!DisconnectProgram(a) ELSE <<>>)
                                \o Ai(c)!DisconnectProgram(a) \o << <<"done", a, a>> >>)
    BY <1>2 DEF Ai!Quit
  <2>4. (IF error THEN Ai(c)!DisconnectProgram(a) ELSE <<>>)
          \o Ai(c)!DisconnectProgram(a) \o << <<"done", a, a>> >> \in Seq(Leave(c, a))
    BY <1>2, <2>2, Disconnects
  <2> QED
    BY <1>2, <2>2, <2>3, <2>4
<1>3. CASE a \in Ai(c)!Players /\ Ai(c)!Abort(w, a)
  <2>1. /\ aborted[a] > 0
        /\ Ai(c)!Begin(w, "abort", a, Ai(c)!DisconnectProgram(a)
                                        \o Ai(c)!DisconnectProgram(a) \o << <<"done", a, a>> >>)
    BY <1>3 DEF Ai!Abort
  <2>2. a \in Seen(c)
    BY <1>3, <2>1 DEF AiInv, SlotsSeen, Seen
  <2>3. Ai(c)!DisconnectProgram(a) \o Ai(c)!DisconnectProgram(a) \o << <<"done", a, a>> >>
          \in Seq(Leave(c, a))
    BY <1>3, <2>2, Disconnects
  <2> QED
    BY <1>3, <2>1, <2>2, <2>3
<1>4. CASE a \in Ai(c)!Npcs /\ Ai(c)!NpcTurn(w, a)
  <2>1. Ai(c)!Begin(w, "npc", a, Ai(c)!NpcProgram(a))
    BY <1>4 DEF Ai!NpcTurn
  <2>2. a \in Seen(c)
    BY <1>4, Sizes DEF Seen
  <2>3. Ai(c)!NpcProgram(a) \in Seq(Quiet(c, a))
    BY <1>4, NpcPrograms
  <2> QED
    BY <1>4, <2>1, <2>2, <2>3
<1> QED
  BY <1>1, <1>2, <1>3, <1>4

LEMMA AiBegin ==
    ASSUME NEW c \in AiServers, AiInv(c), NEW w \in c.workers, NEW a \in Ai(c)!Objects,
           \/ a \in Ai(c)!Players /\ (Ai(c)!Move(w, a) \/ Ai(c)!Quit(w, a) \/ Ai(c)!Abort(w, a))
           \/ a \in Ai(c)!Npcs /\ Ai(c)!NpcTurn(w, a)
    PROVE  AiInv(c)'
<1>1. AiType(c) /\ UNCHANGED <<state, view, active, slock, lives, failed>>
  BY DEF AiInv, Ai!Move, Ai!Quit, Ai!Abort, Ai!NpcTurn, Ai!timer, Ai!faults
<1>2. /\ aborted' \in [Ai(c)!Players -> Nat] /\ due' \in [Ai(c)!Npcs -> Nat]
      /\ \A q \in Ai(c)!Players : aborted'[q] > 0 => aborted[q] > 0
  <2>1. CASE a \in Ai(c)!Players /\ (Ai(c)!Move(w, a) \/ Ai(c)!Quit(w, a))
    <3>1. UNCHANGED <<aborted, due>>
      BY <2>1 DEF Ai!Move, Ai!Quit, Ai!timer, Ai!faults
    <3> QED
      BY <1>1, <3>1 DEF AiType
  <2>2. CASE a \in Ai(c)!Players /\ Ai(c)!Abort(w, a)
    <3>1. aborted[a] > 0 /\ aborted' = [aborted EXCEPT ![a] = aborted[a] - 1] /\ UNCHANGED due
      BY <2>2 DEF Ai!Abort, Ai!timer
    <3>2. aborted \in [Ai(c)!Players -> Nat] /\ due \in [Ai(c)!Npcs -> Nat]
      BY <1>1 DEF AiType
    <3>3. aborted[a] - 1 \in Nat
      BY <2>2, <3>1, <3>2
    <3>4. aborted' \in [Ai(c)!Players -> Nat]
      BY <3>1, <3>2, <3>3
    <3>5. \A q \in Ai(c)!Players : aborted'[q] > 0 => aborted[q] > 0
      BY <3>1, <3>2
    <3> QED
      BY <3>1, <3>2, <3>4, <3>5
  <2>3. CASE a \in Ai(c)!Npcs /\ Ai(c)!NpcTurn(w, a)
    <3>1. due[a] > 0 /\ due' = [due EXCEPT ![a] = due[a] - 1] /\ UNCHANGED aborted
      BY <2>3 DEF Ai!NpcTurn, Ai!faults
    <3>2. aborted \in [Ai(c)!Players -> Nat] /\ due \in [Ai(c)!Npcs -> Nat]
      BY <1>1 DEF AiType
    <3>3. due[a] - 1 \in Nat
      BY <2>3, <3>1, <3>2
    <3> QED
      BY <3>1, <3>2, <3>3
  <2> QED
    BY <2>1, <2>2, <2>3
<1>3. a \in Seen(c)
  BY Begins
<1>4. ASSUME NEW op \in {"move", "npc"}, NEW todo \in Seq(Quiet(c, a)),
             Ai(c)!Begin(w, op, a, todo),
             IF op = "move" THEN a \in Ai(c)!Players ELSE a \in Ai(c)!Npcs
      PROVE  AiInv(c)'
  <2>1. todo \in Seq(AiInstr(c, a))
    BY QuietSeq
  <2> QED
    BY <1>1, <1>2, <1>3, <1>4, <2>1, AiBegins DEF OfClient
<1>5. ASSUME NEW op \in {"quit", "abort"}, NEW todo \in Seq(Leave(c, a)),
             Ai(c)!Begin(w, op, a, todo), a \in Ai(c)!Players
      PROVE  AiInv(c)'
  <2>1. todo \in Seq(AiInstr(c, a))
    BY <1>3, <1>5, LeaveSeq
  <2> QED
    BY <1>1, <1>2, <1>3, <1>5, <2>1, AiBegins DEF OfClient
<1> QED
  BY <1>4, <1>5, Begins

(* The instruction at hand, as a triple; what each kind of it is about.    *)
LEMMA AiHand ==
    ASSUME NEW c \in AiServers, AiInv(c), NEW w \in c.workers, task[w].todo # <<>>,
           NEW op, Ai(c)!At(w, op)
    PROVE  /\ <<op, Ai(c)!First(w), Ai(c)!Second(w)>> \in AiInstr(c, task[w].id)
           /\ Head(task[w].todo) = <<op, Ai(c)!First(w), Ai(c)!Second(w)>>
           /\ Ai(c)!First(w) \in Ai(c)!Objects /\ Ai(c)!Second(w) \in Ai(c)!Objects
           /\ <<>> \in Seq(AiInstr(c, task[w].id))
<1> DEFINE h == Head(task[w].todo)
<1>1. /\ h \in AiInstr(c, task[w].id)
      /\ Ai(c)!First(w) = h[2] /\ Ai(c)!Second(w) = h[3] /\ h[1] = op
      /\ Ai(c)!First(w) \in Ai(c)!Objects /\ Ai(c)!Second(w) \in Ai(c)!Objects
      /\ <<>> \in Seq(AiInstr(c, task[w].id))
  BY AiNow
<1> HIDE DEF h
<1>2. h = <<h[1], h[2], h[3]>>
  BY <1>1 DEF AiInstr
<1>3. h = <<op, Ai(c)!First(w), Ai(c)!Second(w)>>
  BY <1>1, <1>2
<1> QED
  BY <1>1, <1>3 DEF h

LEMMA InGameSeen ==
    ASSUME NEW c \in AiServers, AiInv(c), NEW o \in Ai(c)!Objects, state[o] = "INGAME"
    PROVE  o \in Seen(c)
  BY DEF AiInv, SlotsSeen, Seen

LEMMA AiPlace ==
    ASSUME NEW c \in AiServers, AiInv(c), NEW w \in c.workers, Ai(c)!Place(w)
    PROVE  AiInv(c)'
<1>1. task[w].todo # <<>> /\ Ai(c)!At(w, "place") /\ Ai(c)!Go(w, <<>>)
      /\ slock' = [slock EXCEPT ![Ai(c)!First(w)] = w]
      /\ UNCHANGED <<state, view, active, due, lives, failed, aborted>>
  BY DEF Ai!Place, Ai!At, Ai!timer, Ai!faults
<1>2. /\ <<>> \in Seq(AiInstr(c, task[w].id))
      /\ Ai(c)!First(w) \in Ai(c)!Objects
  BY <1>1, AiHand
<1>3. AiType(c)'
  <2>1. task' \in [c.workers -> AiHandlers(c)]
    BY <1>1, <1>2, AiGoes
  <2>2. slock' \in [Ai(c)!Objects -> c.workers \cup {0}]
    BY <1>1, <1>2 DEF AiInv, AiType
  <2> QED
    BY <1>1, <2>1, <2>2 DEF AiInv, AiType
<1> QED
  BY <1>1, <1>2, <1>3, AiGoesOn

LEMMA AiEnter ==
    ASSUME NEW c \in AiServers, AiInv(c), NEW w \in c.workers, Ai(c)!Enter(w)
    PROVE  AiInv(c)'
<1>1. task[w].todo # <<>> /\ Ai(c)!At(w, "enter") /\ Ai(c)!Go(w, <<>>)
      /\ state' = [state EXCEPT ![Ai(c)!First(w)] = "INGAME"]
      /\ UNCHANGED <<slock, view, active, due, lives, failed, aborted>>
  BY DEF Ai!Enter, Ai!At, Ai!timer, Ai!faults
<1> DEFINE p == Ai(c)!First(w)
<1>2. /\ <<>> \in Seq(AiInstr(c, task[w].id)) /\ p \in Ai(c)!Objects
      /\ <<"enter", p, Ai(c)!Second(w)>> \in AiInstr(c, task[w].id)
  BY <1>1, AiHand
<1>3. p \in Seen(c)
  BY <1>2 DEF AiInstr
<1> HIDE DEF p
<1>4. AiType(c) /\ SlotsSeen(c)
  BY DEF AiInv
<1>5. AiType(c)'
  <2>1. task' \in [c.workers -> AiHandlers(c)]
    BY <1>1, <1>2, AiGoes
  <2>2. state' \in [Ai(c)!Objects -> {"FREE", "CONNECTED", "INGAME"}]
    BY <1>1, <1>4 DEF AiType
  <2> QED
    BY <1>1, <1>4, <2>1, <2>2 DEF AiType
<1>6. SlotsSeen(c)'
  <2> SUFFICES ASSUME NEW q \in Ai(c)!Players
               PROVE  /\ state'[q] # "FREE" \/ aborted'[q] > 0 => lives'[q] >= 1
                      /\ view'[q] \subseteq Seen(c)'
    BY DEF SlotsSeen
  <2>1. view'[q] \subseteq Seen(c)'
    BY <1>1, <1>4 DEF SlotsSeen, Seen
  <2>2. CASE q = p
    BY <1>1, <1>3, <2>1, <2>2 DEF Seen
  <2>3. CASE q # p
    <3>1. state'[q] = state[q]
      BY <1>1, <1>4, <2>3, Sizes DEF AiType, p
    <3> QED
      BY <1>1, <1>4, <2>1, <3>1 DEF SlotsSeen
  <2> QED
    BY <2>2, <2>3
<1> QED
  BY <1>1, <1>2, <1>5, <1>6, AiGoesOn

LEMMA AiVisit ==
    ASSUME NEW c \in AiServers, AiInv(c), NEW w \in c.workers, Ai(c)!Visit(w)
    PROVE  AiInv(c)'
<1> DEFINE p == Ai(c)!First(w)
           o == Ai(c)!Second(w)
           greets == state[o] = "INGAME" /\ Ai(c)!CanSee(p, o)
           more == IF greets THEN Ai(c)!GreetProgram(p, o) ELSE <<>>
<1>1. task[w].todo # <<>> /\ Ai(c)!At(w, "visit") /\ Ai(c)!Go(w, more)
      /\ slock' = (IF greets THEN [slock EXCEPT ![o] = w] ELSE slock)
      /\ UNCHANGED <<state, view, active, due, lives, failed, aborted>>
  BY DEF Ai!Visit, Ai!At, Ai!timer, Ai!faults
<1>2. /\ <<>> \in Seq(AiInstr(c, task[w].id)) /\ o \in Ai(c)!Objects
      /\ <<"visit", p, o>> \in AiInstr(c, task[w].id)
  BY <1>1, AiHand
<1>3. p \in Seen(c) /\ p \in Ai(c)!Players
  BY <1>2 DEF AiInstr
<1>4. greets => o \in Seen(c)
  BY <1>2, InGameSeen
<1> HIDE DEF p, o, greets
<1>5. more \in Seq(AiInstr(c, task[w].id))
  BY <1>2, <1>3, <1>4, GreetsSeen
<1> HIDE DEF more
<1>6. AiType(c)'
  <2>1. task' \in [c.workers -> AiHandlers(c)]
    BY <1>1, <1>5, AiGoes
  <2>2. slock' \in [Ai(c)!Objects -> c.workers \cup {0}]
    BY <1>1, <1>2 DEF AiInv, AiType
  <2> QED
    BY <1>1, <2>1, <2>2 DEF AiInv, AiType
<1> QED
  BY <1>1, <1>5, <1>6, AiGoesOn

LEMMA AiUnlock ==
    ASSUME NEW c \in AiServers, AiInv(c), NEW w \in c.workers, Ai(c)!Unlock(w)
    PROVE  AiInv(c)'
<1>1. task[w].todo # <<>> /\ Ai(c)!At(w, "unlock") /\ Ai(c)!Go(w, <<>>)
      /\ slock' = [slock EXCEPT ![Ai(c)!First(w)] = 0]
      /\ UNCHANGED <<state, view, active, due, lives, failed, aborted>>
  BY DEF Ai!Unlock, Ai!At, Ai!timer, Ai!faults
<1>2. /\ <<>> \in Seq(AiInstr(c, task[w].id))
      /\ Ai(c)!First(w) \in Ai(c)!Objects
  BY <1>1, AiHand
<1>3. AiType(c)'
  <2>1. task' \in [c.workers -> AiHandlers(c)]
    BY <1>1, <1>2, AiGoes
  <2>2. slock' \in [Ai(c)!Objects -> c.workers \cup {0}]
    BY <1>1, <1>2 DEF AiInv, AiType
  <2> QED
    BY <1>1, <2>1, <2>2 DEF AiInv, AiType
<1> QED
  BY <1>1, <1>2, <1>3, AiGoesOn

LEMMA AiTell ==
    ASSUME NEW c \in AiServers, AiInv(c), NEW w \in c.workers, Ai(c)!Tell(w)
    PROVE  AiInv(c)'
<1> DEFINE o == Ai(c)!First(w)
           p == Ai(c)!Second(w)
           more == IF state[o] = "INGAME" THEN << <<"remove", o, p>>, <<"unlock", o, o>> >>
                   ELSE <<>>
<1>1. task[w].todo # <<>> /\ Ai(c)!At(w, "tell") /\ Ai(c)!Go(w, more)
      /\ slock' = (IF state[o] = "INGAME" THEN [slock EXCEPT ![o] = w] ELSE slock)
      /\ UNCHANGED <<state, view, active, due, lives, failed, aborted>>
  BY DEF Ai!Tell, Ai!At, Ai!timer, Ai!faults
<1>2. /\ <<>> \in Seq(AiInstr(c, task[w].id)) /\ o \in Ai(c)!Objects /\ p \in Ai(c)!Objects
      /\ <<"tell", o, p>> \in AiInstr(c, task[w].id)
  BY <1>1, AiHand
<1>3. o \in Ai(c)!Players
  BY <1>2 DEF AiInstr
<1>4. state[o] = "INGAME" => o \in Seen(c)
  BY <1>2, InGameSeen
<1> HIDE DEF o, p
<1>5. more \in Seq(AiInstr(c, task[w].id))
  <2>1. state[o] = "INGAME" => /\ <<"remove", o, p>> \in AiInstr(c, task[w].id)
                               /\ <<"unlock", o, o>> \in AiInstr(c, task[w].id)
    BY <1>2, <1>3, <1>4 DEF AiInstr, AiOps
  <2> DEFINE S == AiInstr(c, task[w].id)
  <2> HIDE DEF S
  <2>2. ASSUME <<"remove", o, p>> \in S, <<"unlock", o, o>> \in S
        PROVE  << <<"remove", o, p>>, <<"unlock", o, o>> >> \in Seq(S)
    BY <2>2
  <2> QED
    BY <1>2, <2>1, <2>2 DEF S
<1> HIDE DEF more
<1>6. AiType(c)'
  <2>1. task' \in [c.workers -> AiHandlers(c)]
    BY <1>1, <1>5, AiGoes
  <2>2. slock' \in [Ai(c)!Objects -> c.workers \cup {0}]
    BY <1>1, <1>2 DEF AiInv, AiType
  <2> QED
    BY <1>1, <2>1, <2>2 DEF AiInv, AiType
<1> QED
  BY <1>1, <1>5, <1>6, AiGoesOn

(* insert, erase, meet and part change one list.                           *)
LEMMA AiLists ==
    ASSUME NEW c \in AiServers, AiInv(c), NEW w \in c.workers, task[w].todo # <<>>,
           NEW more \in Seq(AiInstr(c, task[w].id)), Ai(c)!Go(w, more),
           NEW o \in Ai(c)!Players, NEW list \in SUBSET Seen(c),
           view' = [view EXCEPT ![o] = list],
           UNCHANGED <<state, active, due, slock, lives, failed, aborted>>
    PROVE  AiInv(c)'
<1>1. AiType(c) /\ SlotsSeen(c) /\ list \subseteq Ai(c)!Objects
  BY DEF AiInv, Seen
<1>2. AiType(c)'
  <2>1. task' \in [c.workers -> AiHandlers(c)]
    BY AiGoes
  <2>2. view' \in [Ai(c)!Players -> SUBSET Ai(c)!Objects]
    BY <1>1 DEF AiType
  <2> QED
    BY <1>1, <2>1, <2>2 DEF AiType
<1>3. SlotsSeen(c)'
  <2>1. \A q \in Ai(c)!Players : view'[q] \subseteq Seen(c)
    BY <1>1 DEF AiType, SlotsSeen
  <2>2. Seen(c)' = Seen(c)
    BY DEF Seen
  <2> QED
    BY <1>1, <2>1, <2>2 DEF SlotsSeen
<1> QED
  BY <1>2, <1>3, AiGoesOn

LEMMA AiInsert ==
    ASSUME NEW c \in AiServers, AiInv(c), NEW w \in c.workers,
           \/ Ai(c)!Insert(w) \/ Ai(c)!Erase(w) \/ Ai(c)!Meet(w) \/ Ai(c)!Part(w)
    PROVE  AiInv(c)'
<1> DEFINE o == Ai(c)!First(w)
           p == Ai(c)!Second(w)
           S == AiInstr(c, task[w].id)
           met == IF p \in view[o] THEN << <<"move", o, p>> >> ELSE << <<"add", o, p>> >>
           parted == IF p \in view[o] THEN << <<"remove", o, p>> >> ELSE <<>>
<1>1. /\ task[w].todo # <<>>
      /\ UNCHANGED <<state, active, due, slock, lives, failed, aborted>>
  BY DEF Ai!Insert, Ai!Erase, Ai!Meet, Ai!Part, Ai!At, Ai!timer, Ai!faults
<1>2. PICK op \in {"insert", "erase", "meet", "part"} :
        /\ Ai(c)!At(w, op)
        /\ op \in {"insert", "erase"} => Ai(c)!Go(w, <<>>)
        /\ op = "meet" => Ai(c)!Go(w, met)
        /\ op = "part" => Ai(c)!Go(w, parted)
        /\ op \in {"insert", "meet"} => view' = [view EXCEPT ![o] = view[o] \cup {p}]
        /\ op \in {"erase", "part"} => view' = [view EXCEPT ![o] = view[o] \ {p}]
  <2>1. CASE Ai(c)!Insert(w)
    BY <2>1 DEF Ai!Insert
  <2>2. CASE Ai(c)!Erase(w)
    BY <2>2 DEF Ai!Erase
  <2>3. CASE Ai(c)!Meet(w)
    BY <2>3 DEF Ai!Meet
  <2>4. CASE Ai(c)!Part(w)
    BY <2>4 DEF Ai!Part
  <2> QED
    BY <2>1, <2>2, <2>3, <2>4
<1>3. /\ <<>> \in Seq(S) /\ o \in Ai(c)!Objects /\ p \in Ai(c)!Objects
      /\ <<op, o, p>> \in S
  BY <1>1, <1>2, AiHand
<1>4. /\ o \in Ai(c)!Players /\ o \in Seen(c)
      /\ op \in {"insert", "meet"} => p \in Seen(c)
  BY <1>3 DEF AiInstr
<1>5. /\ <<"move", o, p>> \in S /\ <<"add", o, p>> \in S /\ <<"remove", o, p>> \in S
  BY <1>3, <1>4 DEF AiInstr, AiOps
<1>6. view[o] \subseteq Seen(c)
  BY <1>4 DEF AiInv, SlotsSeen
<1> HIDE DEF o, p, S
<1>7. met \in Seq(S) /\ parted \in Seq(S)
  BY <1>3, <1>5
<1> HIDE DEF met, parted
<1>8. \E more \in Seq(S) : Ai(c)!Go(w, more)
  BY <1>2, <1>3, <1>7
<1>9. \E list \in SUBSET Seen(c) : view' = [view EXCEPT ![o] = list]
  BY <1>2, <1>4, <1>6
<1> QED
  BY <1>1, <1>4, <1>8, <1>9, AiLists DEF S

LEMMA AiWake ==
    ASSUME NEW c \in AiServers, AiInv(c), NEW w \in c.workers, Ai(c)!Wake(w)
    PROVE  AiInv(c)'
<1> DEFINE n == Ai(c)!First(w)
<1>1. task[w].todo # <<>> /\ Ai(c)!At(w, "wake") /\ Ai(c)!Go(w, <<>>)
      /\ active' = [active EXCEPT ![n] = TRUE]
      /\ due' = (IF active[n] THEN due ELSE [due EXCEPT ![n] = due[n] + 1])
      /\ UNCHANGED <<state, view, slock, lives, failed, aborted>>
  BY DEF Ai!Wake, Ai!At, Ai!faults
<1>2. /\ <<>> \in Seq(AiInstr(c, task[w].id))
      /\ <<"wake", n, Ai(c)!Second(w)>> \in AiInstr(c, task[w].id)
  BY <1>1, AiHand
<1>3. n \in Ai(c)!Npcs
  BY <1>2 DEF AiInstr
<1> HIDE DEF n
<1>4. AiType(c)'
  <2>1. task' \in [c.workers -> AiHandlers(c)]
    BY <1>1, <1>2, AiGoes
  <2>2. active' \in [Ai(c)!Npcs -> BOOLEAN] /\ due' \in [Ai(c)!Npcs -> Nat]
    BY <1>1, <1>3 DEF AiInv, AiType
  <2> QED
    BY <1>1, <2>1, <2>2 DEF AiInv, AiType
<1> QED
  BY <1>1, <1>2, <1>4, AiGoesOn

LEMMA AiDeliver ==
    ASSUME NEW c \in AiServers, AiInv(c), NEW w \in c.workers, Ai(c)!Deliver(w)
    PROVE  AiInv(c)'
<1>1. task[w].todo # <<>> /\ Ai(c)!Go(w, <<>>)
      /\ UNCHANGED <<state, view, active, due, slock, lives, failed, aborted>>
  BY DEF Ai!Deliver, Ai!At, Ai!timer, Ai!faults
<1>2. <<>> \in Seq(AiInstr(c, task[w].id))
  BY <1>1, AiNow
<1> QED
  BY <1>1, <1>2, AiGoesOn

LEMMA AiSendFails ==
    ASSUME NEW c \in AiServers, AiInv(c), NEW w \in c.workers, Ai(c)!SendFails(w)
    PROVE  AiInv(c)'
<1> DEFINE p == Ai(c)!First(w)
           more == Ai(c)!DisconnectProgram(p)
<1>1. task[w].todo # <<>> /\ Ai(c)!Go(w, more)
      /\ failed' = (IF state[p] = "FREE" THEN failed ELSE failed + 1)
      /\ UNCHANGED <<state, view, active, due, slock, lives, aborted>>
  BY DEF Ai!SendFails, Ai!At, Ai!timer
<1>2. PICK op \in {"ok", "own", "add", "move", "remove"} : Ai(c)!At(w, op)
  BY DEF Ai!SendFails, Ai!Sends
<1>3. p \in Ai(c)!Objects /\ <<op, p, Ai(c)!Second(w)>> \in AiInstr(c, task[w].id)
  BY <1>1, <1>2, AiHand
<1>4. p \in Ai(c)!Players /\ p \in Seen(c)
  BY <1>3 DEF AiInstr
<1> HIDE DEF p
<1>5. more \in Seq(AiInstr(c, task[w].id))
  <2>1. <<"free", p, p>> \in AiInstr(c, task[w].id)
    BY <1>3, <1>4 DEF AiInstr, AiOps, p
  <2> DEFINE S == AiInstr(c, task[w].id)
  <2> HIDE DEF S
  <2>2. << <<"free", p, p>> >> \in Seq(S)
    BY <2>1 DEF S
  <2> QED
    BY <2>2 DEF S, Ai!DisconnectProgram
<1> HIDE DEF more
<1>6. AiType(c)'
  <2>1. task' \in [c.workers -> AiHandlers(c)]
    BY <1>1, <1>5, AiGoes
  <2>2. failed' \in Nat
    BY <1>1 DEF AiInv, AiType
  <2> QED
    BY <1>1, <2>1, <2>2 DEF AiInv, AiType
<1> QED
  BY <1>1, <1>5, <1>6, AiGoesOn

LEMMA AiFree ==
    ASSUME NEW c \in AiServers, AiInv(c), NEW w \in c.workers, Ai(c)!Free(w)
    PROVE  AiInv(c)'
<1> DEFINE p == Ai(c)!First(w)
           told == [q \in Ai(c)!Players |-> <<"tell", q, p>>]
           more == IF state[p] = "FREE" THEN <<>> ELSE told
<1>1. task[w].todo # <<>> /\ Ai(c)!At(w, "free") /\ Ai(c)!Go(w, more)
      /\ state' = [state EXCEPT ![p] = "FREE"]
      /\ \/ aborted' = aborted
         \/ aborted' = [aborted EXCEPT ![p] = aborted[p] + 1]
      /\ UNCHANGED <<view, active, due, slock, lives, failed>>
  BY DEF Ai!Free, Ai!At, Ai!timer
<1>2. /\ <<>> \in Seq(AiInstr(c, task[w].id)) /\ p \in Ai(c)!Objects
      /\ <<"free", p, Ai(c)!Second(w)>> \in AiInstr(c, task[w].id)
  BY <1>1, AiHand
<1>3. p \in Ai(c)!Players /\ p \in Seen(c)
  BY <1>2 DEF AiInstr
<1>4. told \in Seq(AiInstr(c, task[w].id))
  BY <1>3, TellsAll, QuietSeq
<1> HIDE DEF p, told
<1>5. more \in Seq(AiInstr(c, task[w].id))
  BY <1>2, <1>4
<1> HIDE DEF more
<1>6. AiType(c) /\ SlotsSeen(c)
  BY DEF AiInv
<1>7. AiType(c)'
  <2>1. task' \in [c.workers -> AiHandlers(c)]
    BY <1>1, <1>5, AiGoes
  <2>2. state' \in [Ai(c)!Objects -> {"FREE", "CONNECTED", "INGAME"}]
    BY <1>1, <1>6 DEF AiType
  <2>3. aborted' \in [Ai(c)!Players -> Nat]
    BY <1>1, <1>6 DEF AiType
  <2> QED
    BY <1>1, <1>6, <2>1, <2>2, <2>3 DEF AiType
<1>8. SlotsSeen(c)'
  <2> SUFFICES ASSUME NEW q \in Ai(c)!Players
               PROVE  /\ state'[q] # "FREE" \/ aborted'[q] > 0 => lives'[q] >= 1
                      /\ view'[q] \subseteq Seen(c)'
    BY DEF SlotsSeen
  <2>1. view'[q] \subseteq Seen(c)'
    BY <1>1, <1>6 DEF SlotsSeen, Seen
  <2>2. CASE q = p
    BY <1>1, <1>3, <2>1, <2>2 DEF Seen
  <2>3. CASE q # p
    <3>1. aborted'[q] = aborted[q]
      BY <1>1, <1>6, <2>3 DEF AiType
    <3>2. state'[q] = state[q]
      BY SMTT(90), <1>1, <1>6, <2>3, Sizes DEF AiType
    <3> QED
      BY <1>1, <1>6, <2>1, <3>1, <3>2 DEF SlotsSeen
  <2> QED
    BY <2>2, <2>3
<1> QED
  BY <1>1, <1>5, <1>7, <1>8, AiGoesOn

(* A handler that has looked at something.                                 *)
LEMMA AiLooks ==
    ASSUME NEW c \in AiServers, AiInv(c), NEW w \in c.workers, task[w].todo # <<>>,
           NEW old \in SUBSET Seen(c), NEW new \in SUBSET Seen(c),
           task[w].id \in Ai(c)!Npcs => old \subseteq Ai(c)!Players /\ new \subseteq Ai(c)!Players,
           task' = [task EXCEPT ![w].todo = Tail(task[w].todo), ![w].old = old, ![w].new = new],
           UNCHANGED <<state, view, active, due, slock, lives, failed, aborted>>
    PROVE  AiInv(c)'
<1> DEFINE t == task[w]
           T == Tail(t.todo)
           S == AiInstr(c, t.id)
           t2 == [t EXCEPT !.todo = T, !.old = old, !.new = new]
<1>1. t \in AiHandlers(c) /\ task \in [c.workers -> AiHandlers(c)]
  BY DEF AiInv, AiType
<1>2. T \in Seq(S)
  BY AiNow
<1>3. task' = [task EXCEPT ![w] = t2]
  BY <1>1
<1>4. old \subseteq Ai(c)!Objects /\ new \subseteq Ai(c)!Objects
  BY DEF Seen
<1>5. T \in Seq(AiOps \X Ai(c)!Objects \X Ai(c)!Objects)
  <2>1. S \subseteq AiOps \X Ai(c)!Objects \X Ai(c)!Objects
    BY DEF AiInstr
  <2> HIDE DEF S, T
  <2> QED
    BY <1>2, <2>1, SeqGrows
<1> HIDE DEF T, S
<1>6. /\ t2 \in AiHandlers(c) /\ t2.todo = T /\ t2.op = t.op /\ t2.id = t.id
      /\ t2.life = t.life /\ t2.old = old /\ t2.new = new
  BY <1>1, <1>4, <1>5 DEF AiHandlers
<1> HIDE DEF t, t2
<1>7. /\ task' \in [c.workers -> AiHandlers(c)] /\ task'[w] = t2
      /\ \A u \in c.workers : u # w => task'[u] = task[u]
  BY ZenonT(60), <1>1, <1>3, <1>6
<1>8. AiType(c)' /\ SlotsSeen(c)'
  <2>1. AiType(c)'
    BY <1>7 DEF AiInv, AiType
  <2>2. SlotsSeen(c)'
    BY DEF AiInv, SlotsSeen, Seen
  <2> QED
    BY <2>1, <2>2
<1> QED
  BY <1>2, <1>6, <1>7, <1>8, AiKeeps DEF t, S

LEMMA AiStep ==
    ASSUME NEW c \in AiServers, AiInv(c), NEW w \in c.workers,
           Ai(c)!Step(w) \/ Ai(c)!Copy(w) \/ Ai(c)!Look(w)
    PROVE  AiInv(c)'
<1> DEFINE a == Ai(c)!First(w)
           o == Ai(c)!Second(w)
           id == task[w].id
<1>1. /\ task[w].todo # <<>>
      /\ UNCHANGED <<state, view, active, due, slock, lives, failed, aborted>>
  BY DEF Ai!Step, Ai!Copy, Ai!Look, Ai!At, Ai!timer, Ai!faults
<1>2. /\ task[w].old \in SUBSET Seen(c) /\ task[w].new \in SUBSET Seen(c)
      /\ id \in Ai(c)!Npcs => /\ task[w].old \subseteq Ai(c)!Players
                              /\ task[w].new \subseteq Ai(c)!Players
  BY DEF AiInv, HandlerSeen
<1>3. task \in [c.workers -> AiHandlers(c)]
  BY DEF AiInv, AiType
<1>4. CASE Ai(c)!Step(w)
  <2>1. task' = [task EXCEPT ![w].todo = Tail(task[w].todo),
                             ![w].old = task[w].old \cup task[w].new, ![w].new = {}]
    BY <1>4 DEF Ai!Step
  <2> DEFINE old == task[w].old \cup task[w].new
  <2>2. /\ old \in SUBSET Seen(c) /\ {} \in SUBSET Seen(c)
        /\ id \in Ai(c)!Npcs => old \subseteq Ai(c)!Players /\ {} \subseteq Ai(c)!Players
    BY <1>2
  <2> HIDE DEF old
  <2> QED
    BY <1>1, <2>1, <2>2, AiLooks DEF old
<1>5. CASE Ai(c)!Copy(w)
  <2>1. /\ Ai(c)!At(w, "copy")
        /\ task' = [task EXCEPT ![w].todo = Tail(task[w].todo), ![w].old = view[a]]
    BY <1>5 DEF Ai!Copy
  <2>2. a = id /\ a \in Ai(c)!Players
    <3>1. <<"copy", a, o>> \in AiInstr(c, id)
      BY <1>1, <2>1, AiHand
    <3> QED
      BY <3>1 DEF AiInstr
  <2>3. view[a] \in SUBSET Seen(c) /\ id \notin Ai(c)!Npcs
    BY <2>2, Sizes DEF AiInv, SlotsSeen
  <2>4. task' = [task EXCEPT ![w].todo = Tail(task[w].todo), ![w].old = view[a],
                             ![w].new = task[w].new]
    BY <1>3, <2>1 DEF AiHandlers
  <2> QED
    BY <1>1, <1>2, <2>3, <2>4, AiLooks
<1>6. CASE Ai(c)!Look(w)
  <2> DEFINE new == IF o \in Ai(c)!Sight(a) THEN task[w].new \cup {o} ELSE task[w].new
  <2>1. /\ Ai(c)!At(w, "look")
        /\ task' = [task EXCEPT ![w].todo = Tail(task[w].todo), ![w].new = new]
    BY <1>6 DEF Ai!Look
  <2>2. id \in Ai(c)!Npcs => o \in Ai(c)!Players
    <3>1. <<"look", a, o>> \in AiInstr(c, id)
      BY <1>1, <2>1, AiHand
    <3> QED
      BY <3>1 DEF AiInstr
  <2>3. o \in Ai(c)!Sight(a) => o \in Seen(c)
    BY InGameSeen DEF Ai!Sight
  <2>4. /\ new \in SUBSET Seen(c)
        /\ id \in Ai(c)!Npcs => new \subseteq Ai(c)!Players
    BY <1>2, <2>2, <2>3
  <2> HIDE DEF new
  <2>5. task' = [task EXCEPT ![w].todo = Tail(task[w].todo), ![w].old = task[w].old,
                             ![w].new = new]
    BY <1>3, <2>1 DEF AiHandlers
  <2> QED
    BY <1>1, <1>2, <2>4, <2>5, AiLooks
<1> QED
  BY <1>4, <1>5, <1>6

LEMMA Sorts ==
    ASSUME NEW c \in AiServers, AiInv(c), NEW w \in c.workers, Ai(c)!Sort(w)
    PROVE  \E more \in Seq(Quiet(c, task[w].id)) : Ai(c)!Go(w, more)
<1> DEFINE a == Ai(c)!First(w)
           old == task[w].old
           new == task[w].new
           S == Quiet(c, task[w].id)
           met == [o \in new |-> IF a \in Ai(c)!Players THEN Ai(c)!MeetProgram(a, o, old)
                                 ELSE Ai(c)!NpcMeetProgram(a, o, old)]
           parted == [o \in old \ new |-> IF a \in Ai(c)!Players THEN Ai(c)!PartProgram(a, o, {})
                                          ELSE Ai(c)!NpcPartProgram(a, o, {})]
           own == IF a \in Ai(c)!Players THEN << <<"own", a, a>> >> ELSE <<>>
           done == << <<"done", a, a>> >>
<1>1. task[w].todo # <<>> /\ Ai(c)!At(w, "sort")
  BY DEF Ai!Sort, Ai!At
<1>2. PICK in \in Ai(c)!Orders(new), out \in Ai(c)!Orders(old \ new) :
        Ai(c)!Go(w, own \o Ai(c)!EachOf(met, in) \o Ai(c)!EachOf(parted, out) \o done)
  BY DEF Ai!Sort
<1>3. a = task[w].id /\ a \in Seen(c) /\ a \in Ai(c)!Objects
  <2>1. <<"sort", a, Ai(c)!Second(w)>> \in AiInstr(c, task[w].id)
    BY <1>1, AiHand
  <2> QED
    BY <2>1 DEF AiInstr, Seen
<1>4. /\ old \subseteq Seen(c) /\ new \subseteq Seen(c)
      /\ a \notin Ai(c)!Players => old \subseteq Ai(c)!Players /\ new \subseteq Ai(c)!Players
  BY <1>3, Sizes DEF AiInv, HandlerSeen
<1>5. <<"done", a, a>> \in S
  BY <1>3 DEF Quiet, LockOps, AiInstr, AiOps
<1>6. /\ Seen(c) \subseteq Ai(c)!Objects
      /\ a \notin Ai(c)!Players => a \in Ai(c)!Npcs
  BY <1>3, Sizes DEF Seen
<1>7. met \in [new -> Seq(S)] /\ parted \in [old \ new -> Seq(S)] /\ own \in Seq(S)
  <2> HIDE DEF old, new
  <2>1. CASE a \in Ai(c)!Players
    <3>1. \A o \in Seen(c) : /\ Ai(c)!MeetProgram(a, o, old) \in Seq(S)
                             /\ Ai(c)!PartProgram(a, o, {}) \in Seq(S)
                             /\ << <<"own", a, a>> >> \in Seq(S)
      BY <1>3, <2>1, PlayerSorts
    <3> HIDE DEF S, a
    <3> QED
      BY <1>3, <1>4, <2>1, <3>1
  <2>2. CASE a \notin Ai(c)!Players
    <3>1. \A o \in Seen(c) \cap Ai(c)!Players :
            /\ Ai(c)!NpcMeetProgram(a, o, old) \in Seq(S)
            /\ Ai(c)!NpcPartProgram(a, o, {}) \in Seq(S)
      BY <1>3, <1>6, <2>2, NpcSorts
    <3> HIDE DEF S, a
    <3> QED
      BY <1>4, <2>2, <3>1
  <2> QED
    BY <2>1, <2>2
<1>8. done \in Seq(S)
  <2> HIDE DEF S, a
  <2> QED
    BY <1>5
<1>9. Ai(c)!EachOf(met, in) \in Seq(S) /\ Ai(c)!EachOf(parted, out) \in Seq(S)
  <2>1. new \in SUBSET Ai(c)!Objects /\ old \ new \in SUBSET Ai(c)!Objects
    BY <1>4, <1>6
  <2> HIDE DEF met, parted, S, old, new
  <2> QED
    BY <1>2, <1>7, <2>1, InOrder
<1> HIDE DEF met, parted, own, done, S, a, old, new
<1>10. own \o Ai(c)!EachOf(met, in) \o Ai(c)!EachOf(parted, out) \o done \in Seq(S)
  BY <1>7, <1>8, <1>9, ConcatProperties
<1> QED
  BY <1>2, <1>10 DEF S

LEMMA AiSort ==
    ASSUME NEW c \in AiServers, AiInv(c), NEW w \in c.workers, Ai(c)!Sort(w)
    PROVE  AiInv(c)'
<1>1. /\ task[w].todo # <<>>
      /\ UNCHANGED <<state, view, active, due, slock, lives, failed, aborted>>
  BY DEF Ai!Sort, Ai!At, Ai!timer, Ai!faults
<1>2. PICK more \in Seq(Quiet(c, task[w].id)) : Ai(c)!Go(w, more)
  BY Sorts
<1>3. more \in Seq(AiInstr(c, task[w].id))
  BY QuietSeq
<1> QED
  BY <1>1, <1>2, <1>3, AiGoesOn

LEMMA AiFinish ==
    ASSUME NEW c \in AiServers, AiInv(c), NEW w \in c.workers, Ai(c)!Finish(w)
    PROVE  AiInv(c)'
<1> DEFINE id == Ai(c)!First(w)
<1>1. /\ task[w].todo # <<>> /\ Ai(c)!At(w, "done")
      /\ task' = [task EXCEPT ![w] = Ai(c)!Idle]
      /\ due' = (IF task[w].op = "npc" THEN [due EXCEPT ![id] = due[id] + 1] ELSE due)
      /\ UNCHANGED <<state, view, active, slock, lives, failed, aborted>>
  BY DEF Ai!Finish, Ai!At, Ai!faults
<1>2. AiType(c) /\ SlotsSeen(c) /\ \A u \in c.workers : HandlerSeen(c, u)
  BY DEF AiInv
<1>3. id = task[w].id
  <2>1. <<"done", id, Ai(c)!Second(w)>> \in AiInstr(c, task[w].id)
    BY <1>1, AiHand
  <2> QED
    BY <2>1 DEF AiInstr
<1>4. task[w].op = "npc" => id \in Ai(c)!Npcs
  BY <1>2, <1>3 DEF HandlerSeen
<1>5. due' \in [Ai(c)!Npcs -> Nat]
  <2> HIDE DEF id
  <2> QED
    BY <1>1, <1>2, <1>4 DEF AiType
<1>6. Ai(c)!Idle \in AiHandlers(c)
  BY DEF Ai!Idle, AiHandlers
<1>7. /\ task' \in [c.workers -> AiHandlers(c)] /\ task'[w] = Ai(c)!Idle
      /\ \A u \in c.workers : u # w => task'[u] = task[u]
  BY <1>1, <1>2, <1>6 DEF AiType
<1>8. AiType(c)'
  BY <1>1, <1>2, <1>5, <1>7 DEF AiType
<1>9. SlotsSeen(c)'
  BY <1>1, <1>2 DEF SlotsSeen, Seen
<1>10. HandlerSeen(c, w)'
  <2>1. 0 \notin Ai(c)!Npcs
    BY Sizes
  <2> QED
    BY <1>7, <2>1 DEF HandlerSeen, Ai!Idle, OfClient
<1>11. ASSUME NEW u \in c.workers, u # w PROVE HandlerSeen(c, u)'
  <2>1. \A p \in Ai(c)!Players : lives'[p] >= lives[p]
    BY <1>1, <1>2 DEF AiType
  <2> QED
    BY <1>2, <1>7, <1>8, <1>11, <2>1, StaysSeen
<1> QED
  BY <1>8, <1>9, <1>10, <1>11 DEF AiInv

(* What handlers are about never changes on their way.                     *)
LEMMA OpsStay ==
    ASSUME NEW c \in AiServers, AiInv(c), NEW w \in c.workers, NEW u \in c.workers,
           Ai(c)!Work(w), ~ Ai(c)!Finish(w)
    PROVE  task'[u].op = task[u].op /\ task'[u].id = task[u].id
<1>1. task \in [c.workers -> AiHandlers(c)]
  BY DEF AiInv, AiType
<1>2. ASSUME NEW more, Ai(c)!Go(w, more)
      PROVE  task'[u].op = task[u].op /\ task'[u].id = task[u].id
  BY <1>1, <1>2 DEF Ai!Go, AiHandlers
<1>3. CASE \/ Ai(c)!Place(w) \/ Ai(c)!Enter(w) \/ Ai(c)!Visit(w) \/ Ai(c)!Unlock(w)
           \/ Ai(c)!Insert(w) \/ Ai(c)!Erase(w)
  <2>1. \E more : Ai(c)!Go(w, more)
    BY <1>3 DEF Ai!Place, Ai!Enter, Ai!Visit, Ai!Unlock, Ai!Insert, Ai!Erase
  <2> QED
    BY <1>2, <2>1
<1>4. CASE \/ Ai(c)!Meet(w) \/ Ai(c)!Part(w) \/ Ai(c)!Wake(w) \/ Ai(c)!Deliver(w)
           \/ Ai(c)!SendFails(w) \/ Ai(c)!Free(w) \/ Ai(c)!Tell(w)
  <2>1. \E more : Ai(c)!Go(w, more)
    BY <1>4 DEF Ai!Meet, Ai!Part, Ai!Wake, Ai!Deliver, Ai!SendFails, Ai!Free, Ai!Tell
  <2> QED
    BY <1>2, <2>1
<1>5. CASE Ai(c)!Sort(w)
  <2>1. \E more : Ai(c)!Go(w, more)
    BY <1>5 DEF Ai!Sort
  <2> QED
    BY <1>2, <2>1
<1>6. CASE Ai(c)!Step(w)
  BY <1>1, <1>6 DEF Ai!Step, AiHandlers
<1>7. CASE Ai(c)!Copy(w)
  BY <1>1, <1>7 DEF Ai!Copy, AiHandlers
<1>8. CASE Ai(c)!Look(w)
  <2>1. \E new : task' = [task EXCEPT ![w].todo = Tail(task[w].todo), ![w].new = new]
    BY <1>8 DEF Ai!Look
  <2> QED
    BY <1>1, <2>1 DEF AiHandlers
<1> QED
  BY <1>3, <1>4, <1>5, <1>6, <1>7, <1>8 DEF Ai!Work

LEMMA AiWorks ==
    ASSUME NEW c \in AiServers, AiInv(c), NEW w \in c.workers, Ai(c)!Work(w)
    PROVE  AiInv(c)'
  BY AiPlace, AiEnter, AiVisit, AiUnlock, AiStep, AiSort, AiInsert, AiWake, AiDeliver,
     AiSendFails, AiFree, AiTell, AiFinish DEF Ai!Work

LEMMA AiStarts ==
    ASSUME NEW c \in AiServers, AiInv(c), NEW w \in c.workers, Ai(c)!Start(w)
    PROVE  AiInv(c)'
<1>1. Ai(c)!Players \subseteq Ai(c)!Objects /\ Ai(c)!Npcs \subseteq Ai(c)!Objects
  BY Sizes
<1> QED
  BY <1>1, AiAccept, AiLogin, AiBegin DEF Ai!Start

LEMMA AiSteps ==
    ASSUME NEW c \in AiServers, AiInv(c), [Ai(c)!Next]_(Ai(c)!vars)
    PROVE  AiInv(c)'
<1>1. CASE Ai(c)!Next
  BY <1>1, AiWorks, AiStarts DEF Ai!Next
<1>2. CASE UNCHANGED Ai(c)!vars
  <2>1. UNCHANGED <<state, view, active, due, slock, lives, failed, aborted, task>>
    BY <1>2 DEF Ai!vars
  <2>2. AiType(c)' /\ AiType(c)
    BY <2>1 DEF AiInv, AiType
  <2>3. SlotsSeen(c)'
    BY <2>1 DEF AiInv, SlotsSeen, Seen
  <2>4. ASSUME NEW u \in c.workers PROVE HandlerSeen(c, u)'
    <3>1. \A p \in Ai(c)!Players : lives'[p] >= lives[p]
      BY <2>1, <2>2 DEF AiType
    <3>2. HandlerSeen(c, u) /\ task'[u] = task[u]
      BY <2>1 DEF AiInv
    <3> QED
      BY <2>2, <3>1, <3>2, StaysSeen
  <2> QED
    BY <2>2, <2>3, <2>4 DEF AiInv
<1> QED
  BY <1>1, <1>2

LEMMA AiInit ==
    ASSUME NEW c \in AiServers, Ai(c)!Init
    PROVE  AiInv(c)
<1>1. /\ state = [o \in Ai(c)!Objects |-> IF o \in Ai(c)!Npcs THEN "INGAME" ELSE "FREE"]
      /\ view = [p \in Ai(c)!Players |-> {}] /\ active = [n \in Ai(c)!Npcs |-> FALSE]
      /\ due = [n \in Ai(c)!Npcs |-> 0] /\ slock = [o \in Ai(c)!Objects |-> 0]
      /\ lives = [p \in Ai(c)!Players |-> 0] /\ failed = 0
      /\ aborted = [p \in Ai(c)!Players |-> 0] /\ task = [w \in c.workers |-> Ai(c)!Idle]
  BY DEF Ai!Init
<1>2. Ai(c)!Idle \in AiHandlers(c)
  BY DEF Ai!Idle, AiHandlers
<1>3. AiType(c)
  BY <1>1, <1>2 DEF AiType
<1>4. SlotsSeen(c)
  BY <1>1, Sizes DEF SlotsSeen
<1>5. ASSUME NEW w \in c.workers PROVE HandlerSeen(c, w)
  <2>1. 0 \notin Ai(c)!Npcs
    BY Sizes
  <2>2. task[w] = Ai(c)!Idle
    BY <1>1
  <2> QED
    BY <2>1, <2>2 DEF HandlerSeen, Ai!Idle, OfClient
<1> QED
  BY <1>3, <1>4, <1>5 DEF AiInv

-----------------------------------------------------------------------------
(***************************************************************************)
(* AiServer: OneTurnPerNpc, inductive together with AiInv.                 *)
(***************************************************************************)
Turns(c, n) == {w \in c.workers : task[w].op = "npc" /\ task[w].id = n}

OneTurn(c) ==
    \A n \in Ai(c)!Npcs :
        due[n] + Cardinality(Turns(c, n)) = IF active[n] THEN 1 ELSE 0

LEMMA OneTurnIs ==
    ASSUME NEW c \in AiServers
    PROVE  OneTurn(c) <=> Ai(c)!OneTurnPerNpc
<1>1. \A S : Ai(c)!Cardinality(S) = Cardinality(S)
  BY DEF Ai!Cardinality, Cardinality
<1> QED
  BY <1>1 DEF OneTurn, Turns, Ai!OneTurnPerNpc

LEMMA TurnsFinite ==
    ASSUME NEW c \in AiServers, NEW n
    PROVE  IsFiniteSet(Turns(c, n)) /\ Cardinality(Turns(c, n)) \in Nat
<1>1. IsFiniteSet(c.workers)
  <2>1. Ai(c)!AiServerAssumption
    BY LectureServersAssumption
  <2>2. Ai(c)!IsFiniteSet(c.workers)
    BY <2>1 DEF Ai!AiServerAssumption
  <2> QED
    BY <2>2 DEF Ai!IsFiniteSet, IsFiniteSet
<1>2. Turns(c, n) \subseteq c.workers
  BY DEF Turns
<1> QED
  BY <1>1, <1>2, FS_Subset, FS_CardinalityType

LEMMA TurnsStay ==
    ASSUME NEW c \in AiServers, OneTurn(c), UNCHANGED <<active, due>>,
           \A u \in c.workers : \/ task'[u].op = task[u].op /\ task'[u].id = task[u].id
                                \/ task'[u].op # "npc" /\ task[u].op # "npc"
    PROVE  OneTurn(c)'
<1>1. \A n \in Ai(c)!Npcs : Turns(c, n)' = Turns(c, n)
  BY DEF Turns
<1> QED
  BY <1>1 DEF OneTurn

(* NpcTurn: one entry less, one worker more.                               *)
LEMMA TurnBegins ==
    ASSUME NEW c \in AiServers, AiInv(c), OneTurn(c), NEW w \in c.workers,
           NEW n \in Ai(c)!Npcs, Ai(c)!NpcTurn(w, n)
    PROVE  OneTurn(c)'
<1>1. /\ task[w].op = "idle" /\ task'[w].op = "npc" /\ task'[w].id = n
      /\ \A u \in c.workers : u # w => task'[u] = task[u]
  <2>1. \E todo : Ai(c)!Begin(w, "npc", n, todo)
    BY DEF Ai!NpcTurn
  <2>2. task \in [c.workers -> AiHandlers(c)]
    BY DEF AiInv, AiType
  <2> QED
    BY <2>1, <2>2 DEF Ai!Begin, Ai!Idle
<1>2. due[n] > 0 /\ due' = [due EXCEPT ![n] = due[n] - 1] /\ UNCHANGED active
  BY DEF Ai!NpcTurn
<1>3. due \in [Ai(c)!Npcs -> Nat]
  BY DEF AiInv, AiType
<1>4. SUFFICES ASSUME NEW m \in Ai(c)!Npcs
               PROVE  due'[m] + Cardinality(Turns(c, m)') = IF active'[m] THEN 1 ELSE 0
  BY DEF OneTurn
<1>5. due[m] + Cardinality(Turns(c, m)) = IF active[m] THEN 1 ELSE 0
  BY DEF OneTurn
<1>6. CASE m # n
  <2>1. Turns(c, m)' = Turns(c, m)
    BY <1>1, <1>6 DEF Turns
  <2>2. due'[m] = due[m]
    BY <1>2, <1>3, <1>6
  <2> QED
    BY <1>2, <1>5, <2>1, <2>2
<1>7. CASE m = n
  <2>1. Turns(c, m)' = Turns(c, m) \cup {w} /\ w \notin Turns(c, m)
    BY <1>1, <1>7 DEF Turns
  <2> DEFINE k == Cardinality(Turns(c, m))
  <2>2. k \in Nat /\ Cardinality(Turns(c, m)') = k + 1
    BY <2>1, TurnsFinite, FS_AddElement
  <2>3. due'[m] = due[m] - 1 /\ due[m] \in Nat
    BY <1>2, <1>3, <1>7
  <2> HIDE DEF k
  <2>4. due[m] + k = due'[m] + (k + 1)
    BY <2>2, <2>3
  <2> QED
    BY <1>2, <1>5, <2>2, <2>4 DEF k
<1> QED
  BY <1>6, <1>7

(* Finish: one worker less, one entry more.                                *)
LEMMA TurnEnds ==
    ASSUME NEW c \in AiServers, AiInv(c), OneTurn(c), NEW w \in c.workers, Ai(c)!Finish(w)
    PROVE  OneTurn(c)'
<1> DEFINE id == Ai(c)!First(w)
<1>1. /\ task[w].todo # <<>> /\ Ai(c)!At(w, "done")
      /\ task' = [task EXCEPT ![w] = Ai(c)!Idle]
      /\ due' = (IF task[w].op = "npc" THEN [due EXCEPT ![id] = due[id] + 1] ELSE due)
      /\ UNCHANGED active
  BY DEF Ai!Finish, Ai!At
<1>2. task \in [c.workers -> AiHandlers(c)] /\ due \in [Ai(c)!Npcs -> Nat]
  BY DEF AiInv, AiType
<1>3. id = task[w].id
  <2>1. <<"done", id, Ai(c)!Second(w)>> \in AiInstr(c, task[w].id)
    BY <1>1, AiHand
  <2> QED
    BY <2>1 DEF AiInstr
<1>4. task'[w].op = "idle" /\ \A u \in c.workers : u # w => task'[u] = task[u]
  BY <1>1, <1>2 DEF Ai!Idle
<1>5. CASE task[w].op # "npc"
  BY <1>1, <1>4, <1>5, TurnsStay
<1>6. CASE task[w].op = "npc"
  <2> HIDE DEF id
  <2>1. due' = [due EXCEPT ![id] = due[id] + 1] /\ id \in Ai(c)!Npcs
    BY <1>1, <1>3, <1>6 DEF AiInv, HandlerSeen
  <2>2. SUFFICES ASSUME NEW m \in Ai(c)!Npcs
                 PROVE  due'[m] + Cardinality(Turns(c, m)') = IF active'[m] THEN 1 ELSE 0
    BY DEF OneTurn
  <2>3. due[m] + Cardinality(Turns(c, m)) = IF active[m] THEN 1 ELSE 0
    BY DEF OneTurn
  <2>4. CASE m # id
    <3>1. Turns(c, m)' = Turns(c, m)
      BY <1>3, <1>4, <2>4 DEF Turns
    <3>2. due'[m] = due[m]
      BY <1>2, <2>1, <2>4
    <3> QED
      BY <1>1, <2>3, <3>1, <3>2
  <2>5. CASE m = id
    <3>1. Turns(c, m)' = Turns(c, m) \ {w} /\ w \in Turns(c, m)
      BY <1>3, <1>4, <1>6, <2>5 DEF Turns
    <3> DEFINE k == Cardinality(Turns(c, m))
    <3>2. k \in Nat /\ Cardinality(Turns(c, m)') = k - 1
      BY <3>1, TurnsFinite, FS_RemoveElement
    <3>3. due'[m] = due[m] + 1 /\ due[m] \in Nat
      BY <1>2, <2>1, <2>5
    <3> HIDE DEF k
    <3>4. due[m] + k = due'[m] + (k - 1)
      BY <3>2, <3>3
    <3> QED
      BY <1>1, <2>3, <3>2, <3>4 DEF k
  <2> QED
    BY <2>4, <2>5
<1> QED
  BY <1>5, <1>6

(* Wake: the exchange lets the first worker alone add an entry.            *)
LEMMA TurnAdded ==
    ASSUME NEW c \in AiServers, AiInv(c), OneTurn(c), NEW w \in c.workers, Ai(c)!Wake(w)
    PROVE  OneTurn(c)'
<1> DEFINE n == Ai(c)!First(w)
<1>1. /\ task[w].todo # <<>> /\ Ai(c)!At(w, "wake")
      /\ active' = [active EXCEPT ![n] = TRUE]
      /\ due' = (IF active[n] THEN due ELSE [due EXCEPT ![n] = due[n] + 1])
  BY DEF Ai!Wake, Ai!At
<1>2. n \in Ai(c)!Npcs
  <2>1. <<"wake", n, Ai(c)!Second(w)>> \in AiInstr(c, task[w].id)
    BY <1>1, AiHand
  <2> QED
    BY <2>1 DEF AiInstr
<1>3. due \in [Ai(c)!Npcs -> Nat] /\ active \in [Ai(c)!Npcs -> BOOLEAN]
  BY DEF AiInv, AiType
<1>4. \A m \in Ai(c)!Npcs : Turns(c, m)' = Turns(c, m)
  <2>1. \A u \in c.workers : task'[u].op = task[u].op /\ task'[u].id = task[u].id
    <3>1. Ai(c)!Go(w, <<>>)
      BY DEF Ai!Wake
    <3>2. task \in [c.workers -> AiHandlers(c)]
      BY DEF AiInv, AiType
    <3> QED
      BY <3>1, <3>2 DEF Ai!Go, AiHandlers
  <2> QED
    BY <2>1 DEF Turns
<1> HIDE DEF n
<1>5. SUFFICES ASSUME NEW m \in Ai(c)!Npcs
               PROVE  due'[m] + Cardinality(Turns(c, m)) = IF active'[m] THEN 1 ELSE 0
  BY <1>4 DEF OneTurn
<1> DEFINE k == Cardinality(Turns(c, m))
<1>6. due[m] + k = IF active[m] THEN 1 ELSE 0
  BY DEF OneTurn
<1>7. k \in Nat /\ due[m] \in Nat
  BY <1>3, TurnsFinite
<1> HIDE DEF k
<1>8. due'[m] + k = IF active'[m] THEN 1 ELSE 0
  <2>1. CASE m # n \/ active[n]
    BY <1>1, <1>2, <1>3, <1>6, <2>1
  <2>2. CASE m = n /\ ~active[n]
    <3>1. due'[m] = due[m] + 1 /\ active'[m]
      BY <1>1, <1>2, <1>3, <2>2
    <3> QED
      BY <1>6, <1>7, <2>2, <3>1
  <2> QED
    BY <2>1, <2>2
<1> QED
  BY <1>8 DEF k

LEMMA TurnSteps ==
    ASSUME NEW c \in AiServers, AiInv(c), OneTurn(c), [Ai(c)!Next]_(Ai(c)!vars)
    PROVE  OneTurn(c)'
<1>1. ASSUME NEW w \in c.workers, NEW p \in Ai(c)!Players,
             \/ Ai(c)!Accept(w, p) \/ Ai(c)!Login(w, p) \/ Ai(c)!Move(w, p)
             \/ Ai(c)!Quit(w, p) \/ Ai(c)!Abort(w, p)
      PROVE  OneTurn(c)'
  <2>1. UNCHANGED <<active, due>>
    BY <1>1 DEF Ai!Accept, Ai!Login, Ai!Move, Ai!Quit, Ai!Abort, Ai!timer
  <2>2. \/ UNCHANGED task
        \/ \E op \in {"login", "move", "quit", "abort"} : \E todo : Ai(c)!Begin(w, op, p, todo)
    BY <1>1 DEF Ai!Accept, Ai!Login, Ai!Move, Ai!Quit, Ai!Abort
  <2>3. task \in [c.workers -> AiHandlers(c)]
    BY DEF AiInv, AiType
  <2>4. ASSUME NEW op \in {"login", "move", "quit", "abort"}, NEW todo,
               Ai(c)!Begin(w, op, p, todo), NEW u \in c.workers
        PROVE  \/ task'[u].op = task[u].op /\ task'[u].id = task[u].id
               \/ task'[u].op # "npc" /\ task[u].op # "npc"
    BY <2>3, <2>4 DEF Ai!Begin, Ai!Idle
  <2> QED
    BY <2>1, <2>2, <2>4, TurnsStay
<1>2. ASSUME NEW w \in c.workers, Ai(c)!Work(w), ~Ai(c)!Finish(w), ~Ai(c)!Wake(w)
      PROVE  OneTurn(c)'
  <2>1. UNCHANGED <<active, due>>
    BY <1>2 DEF Ai!Work, Ai!Place, Ai!Enter, Ai!Visit, Ai!Unlock, Ai!Step, Ai!Copy, Ai!Look,
                Ai!Sort, Ai!Insert, Ai!Erase, Ai!Meet, Ai!Part, Ai!Deliver, Ai!SendFails,
                Ai!Free, Ai!Tell, Ai!timer
  <2> QED
    BY SMTT(60), <1>2, <2>1, OpsStay, TurnsStay
<1>3. CASE UNCHANGED Ai(c)!vars
  <2>1. UNCHANGED <<active, due, task>>
    BY <1>3 DEF Ai!vars
  <2> QED
    BY <2>1, TurnsStay
<1> QED
  BY <1>1, <1>2, <1>3, TurnBegins, TurnEnds, TurnAdded DEF Ai!Next, Ai!Start

LEMMA TurnInit ==
    ASSUME NEW c \in AiServers, Ai(c)!Init
    PROVE  OneTurn(c)
<1>1. /\ active = [n \in Ai(c)!Npcs |-> FALSE] /\ due = [n \in Ai(c)!Npcs |-> 0]
      /\ task = [w \in c.workers |-> Ai(c)!Idle]
  BY DEF Ai!Init
<1>2. \A n \in Ai(c)!Npcs : Turns(c, n) = {}
  BY <1>1 DEF Turns, Ai!Idle
<1> QED
  BY <1>1, <1>2, FS_EmptySet DEF OneTurn

TurnsInv == \A c \in AiServers : server = c => AiInv(c) /\ OneTurn(c)

(* A step of the composition is one of its server.                         *)
LEMMA AiServerSteps ==
    ASSUME [Next]_vars, NEW c \in AiServers, server' = c
    PROVE  server = c /\ [Ai(c)!Next]_(Ai(c)!vars)
<1>1. CASE Next
  <2>1. server = c /\ server # MtIocp
    BY <1>1, LectureServersAssumption DEF Next
  <2> QED
    BY <1>1, <2>1 DEF Next
<1>2. CASE UNCHANGED vars
  BY <1>2 DEF vars, aiOnly, Ai!vars
<1> QED
  BY <1>1, <1>2

(* wake_up_npc, OP_RANDO_MOVE and the end of do_npc_random_move: however   *)
(* many workers wake an NPC, and however long its turns take, there is     *)
(* exactly one entry for it in the timer queue or one worker that moves it *)
(* once it has been seen, and none before. So two workers never move the   *)
(* same NPC at once, and no NPC that has been seen ever stops.             *)
THEOREM EveryNpcHasOneTurn == Spec => []OneTurnPerNpc
<1>1. Init => TurnsInv
  <2> SUFFICES ASSUME Init, NEW c \in AiServers, server = c
               PROVE  AiInv(c) /\ OneTurn(c)
    BY DEF TurnsInv
  <2>1. Ai(c)!Init
    BY LectureServersAssumption DEF Init
  <2> QED
    BY <2>1, AiInit, TurnInit
<1>2. TurnsInv /\ [Next]_vars => TurnsInv'
  <2> SUFFICES ASSUME TurnsInv, [Next]_vars, NEW c \in AiServers, server' = c
               PROVE  (AiInv(c) /\ OneTurn(c))'
    BY DEF TurnsInv
  <2>1. server = c /\ [Ai(c)!Next]_(Ai(c)!vars)
    BY AiServerSteps
  <2>2. AiInv(c) /\ OneTurn(c)
    BY <2>1 DEF TurnsInv
  <2>3. AiInv(c)'
    BY <2>1, <2>2, AiSteps
  <2>4. OneTurn(c)'
    BY <2>1, <2>2, TurnSteps
  <2> QED
    BY <2>3, <2>4
<1>3. TurnsInv => OneTurnPerNpc
  BY OneTurnIs DEF TurnsInv, OneTurnPerNpc
<1> QED
  BY <1>1, <1>2, <1>3, PTL DEF Spec

-----------------------------------------------------------------------------
(***************************************************************************)
(* AiServer: OnlyLoginsDeadlock. What a worker still has to do and which   *)
(* m_slocks it holds belong together: Shape says how. A login holds its    *)
(* own, and beside it at most that of an object it greets; every other     *)
(* handler holds at most the lock of the client it tells that somebody has *)
(* left. A worker is stuck when it disconnects, for a failed send, the     *)
(* owner of a lock that it holds.                                          *)
(***************************************************************************)
Triples(c) == AiOps \X Ai(c)!Objects \X Ai(c)!Objects

Plain(c) == {i \in Triples(c) : i[1] \notin LockOps}

Visit(c, p) == {i \in Triples(c) : i[1] = "visit" /\ i[2] = p /\ i[3] # p}

(* What login does under the lock of the object it visits.                 *)
Greeting(c, p, o) ==
    {i \in Triples(c) : i[1] \in {"insert", "add", "wake"} /\ i[2] \in {p, o}}

AiHeld(c, w) == {o \in Ai(c)!Objects : slock[o] = w}

(* The rest of the login of p, between two visits.                         *)
Visits(c, p, T) == \E V \in Seq(Visit(c, p)) : T = V \o <<Me("unlock", p), Me("done", p)>>

AiLoginAt(c, p, T, H) ==
    \/ /\ H = {}
       /\ \E R : Visits(c, p, R)
                   /\ T = <<Me("place", p), Me("ok", p), Me("enter", p)>> \o R
    \/ /\ H = {p}
       /\ \/ \E R : Visits(c, p, R) /\ T = <<Me("ok", p)>> \o (<<Me("enter", p)>> \o R)
          \/ \E R : Visits(c, p, R) /\ T = <<Me("enter", p)>> \o R
          \/ Visits(c, p, T)
    \/ \E o \in Ai(c)!Objects \ {p} : \E G \in Seq(Greeting(c, p, o)) : \E R :
          H = {p, o} /\ Visits(c, p, R) /\ T = G \o (<<Me("unlock", o)>> \o R)

AiOtherAt(c, T, H) ==
    \/ H = {} /\ T \in Seq(Plain(c))
    \/ \E o \in Ai(c)!Players : \E R \in Seq(Plain(c)) :
          /\ H = {o}
          /\ \/ T = <<Me("unlock", o)>> \o R
             \/ \E x \in Ai(c)!Objects :
                  T = << <<"remove", o, x>> >> \o (<<Me("unlock", o)>> \o R)

StuckAt(T, H) == T # <<>> /\ Head(T)[1] = "free" /\ Head(T)[2] \in H

Shape(c, w) ==
    \/ StuckAt(Todo(w), AiHeld(c, w))
    \/ AiOtherAt(c, Todo(w), AiHeld(c, w))
    \/ /\ task[w].op = "login" /\ task[w].id \in Ai(c)!Players
       /\ AiLoginAt(c, task[w].id, Todo(w), AiHeld(c, w))

(* Where it is by its next instruction h and the rest R.                   *)
OtherNow(c, h, R, H) ==
    \/ H = {} /\ h \in Plain(c) /\ R \in Seq(Plain(c))
    \/ \E o \in Ai(c)!Players :
         /\ H = {o}
         /\ \/ h = Me("unlock", o) /\ R \in Seq(Plain(c))
            \/ (\E x \in Ai(c)!Objects : h = <<"remove", o, x>>) /\ AiOtherAt(c, R, {o})

LoginNow(c, p, h, R, H) ==
    \/ h = Me("place", p) /\ H = {} /\ AiLoginAt(c, p, R, {p})
    \/ h \in {Me("ok", p), Me("enter", p)} /\ H = {p} /\ AiLoginAt(c, p, R, {p})
    \/ h \in Visit(c, p) /\ H = {p} /\ Visits(c, p, R)
    \/ h = Me("unlock", p) /\ H = {p} /\ R = <<Me("done", p)>>
    \/ \E o \in Ai(c)!Objects \ {p} :
         /\ H = {p, o}
         /\ \/ h = Me("unlock", o) /\ AiLoginAt(c, p, R, {p})
            \/ h \in Greeting(c, p, o) /\ AiLoginAt(c, p, R, {p, o})

LEMMA AiMe ==
    ASSUME NEW c \in AiServers, NEW o \in Ai(c)!Objects, NEW op \in AiOps
    PROVE  /\ Me(op, o) \in Triples(c) /\ Me(op, o)[1] = op /\ Me(op, o)[2] = o
           /\ Me(op, o)[3] = o
  BY DEF Me, Triples

LEMMA VisitsStep ==
    ASSUME NEW c \in AiServers, NEW p \in Ai(c)!Objects, NEW T, Visits(c, p, T)
    PROVE  /\ T # <<>> /\ T \in Seq(Triples(c))
           /\ \/ Head(T) = Me("unlock", p) /\ Tail(T) = <<Me("done", p)>>
              \/ Head(T) \in Visit(c, p) /\ Visits(c, p, Tail(T))
<1> DEFINE u == Me("unlock", p)
           d == Me("done", p)
           X == <<u, d>>
           S == Triples(c)
<1>1. u \in S /\ d \in S
  BY AiMe DEF AiOps
<1>2. PICK V \in Seq(Visit(c, p)) : T = V \o X
  BY DEF Visits
<1> HIDE DEF u, d, S
<1>3. X \in Seq(S) /\ X # <<>> /\ Head(X) = u /\ Tail(X) = <<d>>
  BY <1>1
<1>4. Visit(c, p) \subseteq S
  BY DEF Visit, S
<1>5. CASE V = <<>>
  <2>1. T = X
    BY <1>2, <1>3, <1>4, <1>5, Prefix
  <2> QED
    BY <1>3, <2>1 DEF u, d, S
<1>6. CASE V # <<>>
  <2> HIDE DEF X
  <2>1. /\ T \in Seq(S) /\ T # <<>> /\ Head(T) = Head(V) /\ Tail(T) = Tail(V) \o X
        /\ Head(V) \in Visit(c, p) /\ Tail(V) \in Seq(Visit(c, p))
    BY SMTT(60), <1>2, <1>3, <1>4, <1>6, Prefix
  <2>2. Visits(c, p, Tail(T))
    BY <2>1 DEF Visits, X, u, d
  <2> QED
    BY <2>1, <2>2 DEF S
<1> QED
  BY <1>5, <1>6

LEMMA AiLoginStep ==
    ASSUME NEW c \in AiServers, NEW p \in Ai(c)!Players, NEW T, NEW H, AiLoginAt(c, p, T, H)
    PROVE  T # <<>> /\ LoginNow(c, p, Head(T), Tail(T), H)
<1> DEFINE S == Triples(c)
           a == Me("place", p)
           b == Me("ok", p)
           e == Me("enter", p)
<1>1. p \in Ai(c)!Objects
  BY Sizes
<1>2. a \in S /\ b \in S /\ e \in S
  BY <1>1, AiMe DEF AiOps
<1>3. \A R : Visits(c, p, R) => R \in Seq(S)
  BY <1>1, VisitsStep
<1> HIDE DEF a, b, e, S
<1>4. ASSUME NEW R, Visits(c, p, R), H = {}, T = <<a, b, e>> \o R
      PROVE  T # <<>> /\ Head(T) = a /\ AiLoginAt(c, p, Tail(T), {p})
  <2> DEFINE Q == <<b>> \o (<<e>> \o R)
  <2>1. R \in Seq(S)
    BY <1>3, <1>4
  <2>2. <<e>> \o R \in Seq(S)
    BY <1>2, <2>1, Cons
  <2>3. Q \in Seq(S)
    BY <1>2, <2>2, Cons
  <2>4. T = <<a>> \o Q
    <3>1. <<a, b, e>> \o R = <<a>> \o (<<b>> \o (<<e>> \o R))
      BY SMTT(90), <1>2, <2>1, Thrice
    <3> QED
      BY <1>4, <3>1
  <2> HIDE DEF Q
  <2>5. T # <<>> /\ Head(T) = a /\ Tail(T) = Q
    BY <1>2, <2>3, <2>4, Cons
  <2>6. AiLoginAt(c, p, Q, {p})
    BY <1>4 DEF AiLoginAt, Q, b, e
  <2> QED
    BY <2>5, <2>6
<1>5. ASSUME NEW R, Visits(c, p, R), H = {p}, T = <<b>> \o (<<e>> \o R)
      PROVE  T # <<>> /\ Head(T) = b /\ AiLoginAt(c, p, Tail(T), {p})
  <2> DEFINE Q == <<e>> \o R
  <2>1. R \in Seq(S)
    BY <1>3, <1>5
  <2>2. Q \in Seq(S)
    BY <1>2, <2>1, Cons
  <2>3. AiLoginAt(c, p, Q, {p})
    BY <1>5 DEF AiLoginAt, e
  <2> HIDE DEF Q
  <2>4. T # <<>> /\ Head(T) = b /\ Tail(T) = Q
    <3>1. T = <<b>> \o Q
      BY <1>5 DEF Q
    <3> QED
      BY <1>2, <2>2, <3>1, Cons
  <2> QED
    BY <2>3, <2>4
<1>6. ASSUME NEW R, Visits(c, p, R), H = {p}, T = <<e>> \o R
      PROVE  T # <<>> /\ Head(T) = e /\ AiLoginAt(c, p, Tail(T), {p})
  <2>1. R \in Seq(S)
    BY <1>3, <1>6
  <2>2. T # <<>> /\ Head(T) = e /\ Tail(T) = R
    BY <1>2, <1>6, <2>1, Cons
  <2>3. AiLoginAt(c, p, R, {p})
    BY <1>6 DEF AiLoginAt
  <2> QED
    BY <2>2, <2>3
<1>7. ASSUME NEW o \in Ai(c)!Objects \ {p}, NEW G \in Seq(Greeting(c, p, o)), NEW R,
             H = {p, o}, Visits(c, p, R), T = G \o (<<Me("unlock", o)>> \o R)
      PROVE  /\ T # <<>>
             /\ \/ Head(T) = Me("unlock", o) /\ AiLoginAt(c, p, Tail(T), {p})
                \/ Head(T) \in Greeting(c, p, o) /\ AiLoginAt(c, p, Tail(T), {p, o})
  <2> DEFINE u == Me("unlock", o)
             X == <<u>> \o R
  <2>1. u \in S /\ Greeting(c, p, o) \subseteq S /\ R \in Seq(S)
    BY <1>3, <1>7, AiMe DEF AiOps, Greeting, S
  <2> HIDE DEF u
  <2>2. X \in Seq(S) /\ X # <<>> /\ Head(X) = u /\ Tail(X) = R
    BY <2>1, Cons
  <2>3. T = G \o X
    BY <1>7 DEF u
  <2> HIDE DEF X
  <2>4. CASE G = <<>>
    <3>1. T = X
      BY <2>1, <2>2, <2>3, <2>4, Prefix
    <3>2. AiLoginAt(c, p, R, {p})
      BY <1>7 DEF AiLoginAt
    <3> QED
      BY <2>2, <3>1, <3>2 DEF u
  <2>5. CASE G # <<>>
    <3>1. /\ T # <<>> /\ Head(T) = Head(G) /\ Tail(T) = Tail(G) \o X
          /\ Head(G) \in Greeting(c, p, o) /\ Tail(G) \in Seq(Greeting(c, p, o))
      BY SMTT(60), <2>1, <2>2, <2>3, <2>5, Prefix
    <3>2. AiLoginAt(c, p, Tail(T), {p, o})
      BY <1>7, <3>1 DEF AiLoginAt, X, u
    <3> QED
      BY <3>1, <3>2
  <2> QED
    BY <2>4, <2>5
<1>8. ASSUME H = {p}, Visits(c, p, T)
      PROVE  /\ T # <<>>
             /\ \/ Head(T) \in Visit(c, p) /\ Visits(c, p, Tail(T))
                \/ Head(T) = Me("unlock", p) /\ Tail(T) = <<Me("done", p)>>
  BY <1>1, <1>8, VisitsStep
<1> QED
  BY <1>4, <1>5, <1>6, <1>7, <1>8 DEF AiLoginAt, LoginNow, a, b, e

LEMMA AiOtherStep ==
    ASSUME NEW c \in AiServers, NEW T, NEW H, AiOtherAt(c, T, H), T # <<>>
    PROVE  OtherNow(c, Head(T), Tail(T), H)
<1>1. CASE H = {} /\ T \in Seq(Plain(c))
  BY <1>1 DEF OtherNow
<1>2. ASSUME NEW o \in Ai(c)!Players, NEW R \in Seq(Plain(c)), H = {o},
             \/ T = <<Me("unlock", o)>> \o R
             \/ \E x \in Ai(c)!Objects :
                  T = << <<"remove", o, x>> >> \o (<<Me("unlock", o)>> \o R)
      PROVE  \/ Head(T) = Me("unlock", o) /\ Tail(T) \in Seq(Plain(c))
             \/ /\ \E x \in Ai(c)!Objects : Head(T) = <<"remove", o, x>>
                /\ AiOtherAt(c, Tail(T), {o})
  <2> DEFINE S == Triples(c)
             u == Me("unlock", o)
             X == <<u>> \o R
  <2>1. o \in Ai(c)!Objects /\ u \in S /\ R \in Seq(S)
    <3>1. o \in Ai(c)!Objects
      BY Sizes
    <3>2. Plain(c) \subseteq Triples(c)
      BY DEF Plain
    <3> QED
      BY <3>1, <3>2, AiMe, SeqGrows DEF AiOps
  <2>2. \A x \in Ai(c)!Objects : <<"remove", o, x>> \in S
    BY <2>1 DEF Triples, AiOps
  <2>3. AiOtherAt(c, X, {o})
    BY DEF AiOtherAt
  <2> HIDE DEF u, S
  <2>4. X \in Seq(S) /\ Head(X) = u /\ Tail(X) = R
    BY <2>1, Cons
  <2>5. CASE T = X
    BY <2>4, <2>5 DEF u
  <2>6. ASSUME NEW x \in Ai(c)!Objects, T = << <<"remove", o, x>> >> \o X
        PROVE  Head(T) = <<"remove", o, x>> /\ AiOtherAt(c, Tail(T), {o})
    <3> HIDE DEF X
    <3>1. Head(T) = <<"remove", o, x>> /\ Tail(T) = X
      BY <2>2, <2>4, <2>6, Cons
    <3> QED
      BY <2>3, <3>1
  <2> QED
    BY <1>2, <2>5, <2>6 DEF u
<1> QED
  BY <1>1, <1>2 DEF AiOtherAt, OtherNow
Shapes(c) == \A w \in c.workers : Shape(c, w)

LEMMA ShapeAt ==
    ASSUME NEW c \in AiServers, NEW w \in c.workers, Shape(c, w), Todo(w) # <<>>
    PROVE  \/ Head(Todo(w))[1] = "free" /\ Head(Todo(w))[2] \in AiHeld(c, w)
           \/ OtherNow(c, Head(Todo(w)), Tail(Todo(w)), AiHeld(c, w))
           \/ /\ task[w].op = "login" /\ task[w].id \in Ai(c)!Players
              /\ LoginNow(c, task[w].id, Head(Todo(w)), Tail(Todo(w)), AiHeld(c, w))
  BY AiOtherStep, AiLoginStep DEF Shape, StuckAt

(* A worker with nothing to do holds nothing.                              *)
LEMMA ShapeIdle ==
    ASSUME NEW c \in AiServers, AiInv(c), NEW w \in c.workers, Shape(c, w), Todo(w) = <<>>
    PROVE  AiHeld(c, w) = {}
<1> DEFINE T == Todo(w)
           H == AiHeld(c, w)
           p == task[w].id
<1>1. T = <<>>
  OBVIOUS
<1>2. \/ StuckAt(T, H)
      \/ AiOtherAt(c, T, H)
      \/ p \in Ai(c)!Players /\ AiLoginAt(c, p, T, H)
  BY DEF Shape
<1> HIDE DEF T, H, p
<1>3. ~ StuckAt(T, H)
  BY <1>1 DEF StuckAt
<1>4. p \in Ai(c)!Players => ~ AiLoginAt(c, p, T, H)
  BY <1>1, AiLoginStep
<1>5. AiOtherAt(c, T, H) => H = {}
  <2> SUFFICES ASSUME NEW o \in Ai(c)!Players, NEW R \in Seq(Plain(c)),
                      \/ T = <<Me("unlock", o)>> \o R
                      \/ \E x \in Ai(c)!Objects :
                           T = << <<"remove", o, x>> >> \o (<<Me("unlock", o)>> \o R)
               PROVE  FALSE
    BY DEF AiOtherAt
  <2>1. o \in Ai(c)!Objects
    BY Sizes
  <2>2. Me("unlock", o) \in Triples(c)
    BY <2>1, AiMe DEF AiOps
  <2>3. R \in Seq(Triples(c))
    BY SeqGrows DEF Plain
  <2> DEFINE Q == <<Me("unlock", o)>> \o R
  <2>4. Q \in Seq(Triples(c)) /\ Q # <<>>
    BY <2>2, <2>3, Cons
  <2>5. \A x \in Ai(c)!Objects : <<"remove", o, x>> \in Triples(c)
    BY <2>1 DEF Triples, AiOps
  <2> HIDE DEF Q
  <2>6. \A x \in Ai(c)!Objects : << <<"remove", o, x>> >> \o Q # <<>>
    BY <2>4, <2>5, Cons
  <2> QED
    BY <1>1, <2>4, <2>6 DEF Q
<1> QED
  BY <1>2, <1>3, <1>4, <1>5 DEF H

LEMMA AiTakes ==
    ASSUME NEW c \in AiServers, AiInv(c), NEW w \in c.workers, NEW o \in Ai(c)!Objects,
           slock[o] = 0, slock' = [slock EXCEPT ![o] = w]
    PROVE  /\ AiHeld(c, w)' = AiHeld(c, w) \cup {o}
           /\ \A u \in c.workers : u # w => AiHeld(c, u)' = AiHeld(c, u)
<1>1. /\ 0 \notin c.workers /\ slock \in [Ai(c)!Objects -> c.workers \cup {0}]
  BY Sizes DEF AiInv, AiType
<1>2. \A x \in Ai(c)!Objects : slock'[x] = IF x = o THEN w ELSE slock[x]
  BY <1>1
<1> QED
  BY <1>1, <1>2 DEF AiHeld

LEMMA AiGivesBack ==
    ASSUME NEW c \in AiServers, AiInv(c), NEW w \in c.workers, NEW o \in Ai(c)!Objects,
           o \in AiHeld(c, w), slock' = [slock EXCEPT ![o] = 0]
    PROVE  /\ AiHeld(c, w)' = AiHeld(c, w) \ {o}
           /\ \A u \in c.workers : u # w => AiHeld(c, u)' = AiHeld(c, u)
<1>1. /\ 0 \notin c.workers /\ slock \in [Ai(c)!Objects -> c.workers \cup {0}]
  BY Sizes DEF AiInv, AiType
<1>2. \A x \in Ai(c)!Objects : slock'[x] = IF x = o THEN 0 ELSE slock[x]
  BY <1>1
<1>3. slock[o] = w
  BY DEF AiHeld
<1> QED
  BY <1>1, <1>2, <1>3 DEF AiHeld

LEMMA AiHolds ==
    ASSUME UNCHANGED slock, NEW c
    PROVE  \A u : AiHeld(c, u)' = AiHeld(c, u)
  BY DEF AiHeld

(* What the others do does not change how a worker stands.                 *)
LEMMA ShapesStep ==
    ASSUME NEW c \in AiServers, Shapes(c), NEW w \in c.workers, Shape(c, w)',
           \A u \in c.workers : u # w => task'[u] = task[u] /\ AiHeld(c, u)' = AiHeld(c, u)
    PROVE  Shapes(c)'
<1> SUFFICES ASSUME NEW u \in c.workers, u # w PROVE Shape(c, u)'
  BY DEF Shapes
<1>1. Todo(u)' = Todo(u) /\ AiHeld(c, u)' = AiHeld(c, u) /\ task'[u] = task[u]
  BY DEF Todo
<1>2. Shape(c, u)
  BY DEF Shapes
<1> QED
  BY <1>1, <1>2 DEF Shape

(* A worker that is not stuck.                                             *)
Orderly(c, w, T, H) ==
    \/ AiOtherAt(c, T, H)
    \/ /\ task[w].op = "login" /\ task[w].id \in Ai(c)!Players
       /\ AiLoginAt(c, task[w].id, T, H)

AiCalm(c, w) == Orderly(c, w, Todo(w), AiHeld(c, w))

AllCalm(c) == \A w \in c.workers : AiCalm(c, w)

LEMMA ShapeCalm ==
    ASSUME NEW c \in AiServers, Shapes(c), NEW w \in c.workers, AiCalm(c, w)',
           \A u \in c.workers : u # w => task'[u] = task[u] /\ AiHeld(c, u)' = AiHeld(c, u)
    PROVE  Shapes(c)' /\ (AllCalm(c) => AllCalm(c)')
<1>1. Shape(c, w)'
  BY DEF AiCalm, Orderly, Shape
<1>2. ASSUME NEW u \in c.workers, AiCalm(c, u), u # w PROVE AiCalm(c, u)'
  <2>1. Todo(u)' = Todo(u) /\ AiHeld(c, u)' = AiHeld(c, u) /\ task'[u] = task[u]
    BY <1>2 DEF Todo
  <2> QED
    BY <1>2, <2>1 DEF AiCalm, Orderly
<1> QED
  BY <1>1, <1>2, ShapesStep DEF AllCalm

LEMMA OtherHand ==
    ASSUME NEW c \in AiServers, NEW op \in AiOps, NEW f \in Ai(c)!Objects,
           NEW s \in Ai(c)!Objects, NEW R, NEW H, OtherNow(c, <<op, f, s>>, R, H)
    PROVE  \/ H = {} /\ op \notin LockOps /\ R \in Seq(Plain(c))
           \/ f \in H /\ op = "unlock" /\ AiOtherAt(c, R, H \ {f})
           \/ f \in H /\ op = "remove" /\ AiOtherAt(c, R, H)
<1> DEFINE h == <<op, f, s>>
<1>1. h[1] = op /\ h[2] = f /\ h[3] = s
  OBVIOUS
<1> HIDE DEF h
<1>2. CASE H = {} /\ h \in Plain(c) /\ R \in Seq(Plain(c))
  BY <1>1, <1>2 DEF Plain
<1>3. ASSUME NEW o \in Ai(c)!Players, H = {o}, h = Me("unlock", o), R \in Seq(Plain(c))
      PROVE  f \in H /\ op = "unlock" /\ AiOtherAt(c, R, H \ {f})
  <2>1. op = "unlock" /\ f = o
    BY <1>1, <1>3 DEF Me
  <2>2. H \ {f} = {}
    BY <1>3, <2>1
  <2> QED
    BY <1>3, <2>1, <2>2 DEF AiOtherAt
<1>4. ASSUME NEW o \in Ai(c)!Players, H = {o}, NEW x \in Ai(c)!Objects,
             h = <<"remove", o, x>>, AiOtherAt(c, R, {o})
      PROVE  f \in H /\ op = "remove" /\ AiOtherAt(c, R, H)
  <2>1. op = "remove" /\ f = o
    BY <1>1, <1>4
  <2> QED
    BY <1>4, <2>1
<1> QED
  BY <1>2, <1>3, <1>4 DEF OtherNow, h

LEMMA LoginHand ==
    ASSUME NEW c \in AiServers, NEW op \in AiOps, NEW f \in Ai(c)!Objects,
           NEW s \in Ai(c)!Objects, NEW R, NEW H, NEW p \in Ai(c)!Players,
           LoginNow(c, p, <<op, f, s>>, R, H)
    PROVE  \/ f = p /\ op = "place" /\ H = {} /\ AiLoginAt(c, p, R, {p})
           \/ /\ f = p /\ s \in Ai(c)!Objects \ {p} /\ op = "visit" /\ H = {p}
              /\ Visits(c, p, R)
           \/ /\ f \in H /\ op \in {"ok", "enter", "insert", "add", "wake"}
              /\ AiLoginAt(c, p, R, H)
           \/ /\ f \in H /\ op = "unlock"
              /\ \/ AiLoginAt(c, p, R, H \ {f})
                 \/ H = {f} /\ R = <<Me("done", p)>>
<1> DEFINE h == <<op, f, s>>
<1>1. h[1] = op /\ h[2] = f /\ h[3] = s
  OBVIOUS
<1> HIDE DEF h
<1>2. CASE h = Me("place", p) /\ H = {} /\ AiLoginAt(c, p, R, {p})
  BY <1>1, <1>2 DEF Me
<1>3. CASE h \in {Me("ok", p), Me("enter", p)} /\ H = {p} /\ AiLoginAt(c, p, R, {p})
  <2>1. f = p /\ op \in {"ok", "enter"}
    BY <1>1, <1>3 DEF Me
  <2> QED
    BY <1>3, <2>1
<1>4. CASE h \in Visit(c, p) /\ H = {p} /\ Visits(c, p, R)
  BY <1>1, <1>4 DEF Visit
<1>5. CASE h = Me("unlock", p) /\ H = {p} /\ R = <<Me("done", p)>>
  BY <1>1, <1>5 DEF Me
<1>6. ASSUME NEW o \in Ai(c)!Objects \ {p}, H = {p, o}, h = Me("unlock", o),
             AiLoginAt(c, p, R, {p})
      PROVE  f \in H /\ op = "unlock" /\ AiLoginAt(c, p, R, H \ {f})
  <2>1. op = "unlock" /\ f = o
    BY <1>1, <1>6 DEF Me
  <2>2. H \ {f} = {p}
    BY <1>6, <2>1
  <2> QED
    BY <1>6, <2>1, <2>2
<1>7. ASSUME NEW o \in Ai(c)!Objects \ {p}, H = {p, o}, h \in Greeting(c, p, o),
             AiLoginAt(c, p, R, {p, o})
      PROVE  f \in H /\ op \in {"insert", "add", "wake"} /\ AiLoginAt(c, p, R, H)
  <2>1. f \in {p, o} /\ op \in {"insert", "add", "wake"}
    BY <1>1, <1>7 DEF Greeting
  <2> QED
    BY <1>7, <2>1
<1> QED
  BY <1>2, <1>3, <1>4, <1>5, <1>6, <1>7 DEF LoginNow, h

LEMMA ShapeHand ==
    ASSUME NEW c \in AiServers, AiInv(c), NEW w \in c.workers, Shape(c, w), NEW op \in AiOps,
           Ai(c)!At(w, op)
    PROVE  \/ /\ AiHeld(c, w) = {} /\ op \notin LockOps
              /\ Tail(task[w].todo) \in Seq(Plain(c))
           \/ op = "free" /\ Ai(c)!First(w) \in AiHeld(c, w)
           \/ /\ op \in {"ok", "enter", "insert", "add", "wake", "remove"}
              /\ Ai(c)!First(w) \in AiHeld(c, w)
              /\ Orderly(c, w, Tail(task[w].todo), AiHeld(c, w))
           \/ /\ op = "unlock" /\ Ai(c)!First(w) \in AiHeld(c, w)
              /\ Orderly(c, w, Tail(task[w].todo), AiHeld(c, w) \ {Ai(c)!First(w)})
           \/ /\ op = "place" /\ task[w].op = "login" /\ task[w].id \in Ai(c)!Players
              /\ Ai(c)!First(w) = task[w].id /\ AiHeld(c, w) = {}
              /\ Orderly(c, w, Tail(task[w].todo), {task[w].id})
           \/ /\ op = "visit" /\ task[w].op = "login" /\ task[w].id \in Ai(c)!Players
              /\ Ai(c)!First(w) = task[w].id
              /\ Ai(c)!Second(w) \in Ai(c)!Objects \ {task[w].id}
              /\ AiHeld(c, w) = {task[w].id} /\ Visits(c, task[w].id, Tail(task[w].todo))
<1> DEFINE f == Ai(c)!First(w)
           s == Ai(c)!Second(w)
           T == task[w].todo
           R == Tail(T)
           H == AiHeld(c, w)
           p == task[w].id
<1>1. T # <<>>
  BY DEF Ai!At
<1>2. Head(T) = <<op, f, s>> /\ f \in Ai(c)!Objects /\ s \in Ai(c)!Objects
  BY <1>1, AiHand
<1>3. \/ Head(T)[1] = "free" /\ Head(T)[2] \in H
      \/ OtherNow(c, Head(T), R, H)
      \/ /\ task[w].op = "login" /\ p \in Ai(c)!Players
         /\ LoginNow(c, p, Head(T), R, H)
  BY <1>1, ShapeAt DEF Todo
<1> HIDE DEF f, s, T, R, H, p
<1>4. CASE Head(T)[1] = "free" /\ Head(T)[2] \in H
  BY <1>2, <1>4 DEF f, H
<1>5. CASE OtherNow(c, Head(T), R, H)
  <2>1. \/ H = {} /\ op \notin LockOps /\ R \in Seq(Plain(c))
        \/ f \in H /\ op = "unlock" /\ AiOtherAt(c, R, H \ {f})
        \/ f \in H /\ op = "remove" /\ AiOtherAt(c, R, H)
    <3>1. OtherNow(c, <<op, f, s>>, R, H)
      BY <1>2, <1>5
    <3> QED
      BY <1>2, <3>1, OtherHand
  <2> QED
    BY <2>1 DEF Orderly, f, H, R, T
<1>6. CASE /\ task[w].op = "login" /\ p \in Ai(c)!Players
           /\ LoginNow(c, p, Head(T), R, H)
  <2>1. \/ f = p /\ op = "place" /\ H = {} /\ AiLoginAt(c, p, R, {p})
        \/ /\ f = p /\ s \in Ai(c)!Objects \ {p} /\ op = "visit" /\ H = {p}
           /\ Visits(c, p, R)
        \/ /\ f \in H /\ op \in {"ok", "enter", "insert", "add", "wake"}
           /\ AiLoginAt(c, p, R, H)
        \/ /\ f \in H /\ op = "unlock"
           /\ \/ AiLoginAt(c, p, R, H \ {f})
              \/ H = {f} /\ R = <<Me("done", p)>>
    <3>1. LoginNow(c, p, <<op, f, s>>, R, H)
      BY <1>2, <1>6
    <3> QED
      BY <1>2, <1>6, <3>1, LoginHand
  <2>2. CASE H = {f} /\ R = <<Me("done", p)>> /\ op = "unlock"
    <3>1. p \in Ai(c)!Objects
      BY <1>6, Sizes
    <3>2. Me("done", p) \in Plain(c)
      BY <3>1, AiMe DEF Plain, AiOps, LockOps
    <3>3. R \in Seq(Plain(c)) /\ H \ {f} = {} /\ f \in H
      BY <2>2, <3>2
    <3> QED
      BY <2>2, <3>3 DEF Orderly, AiOtherAt, f, H, R, T
  <2> QED
    BY <1>6, <2>1, <2>2 DEF Orderly, f, s, H, R, T, p
<1> QED
  BY <1>3, <1>4, <1>5, <1>6

LEMMA QuietPlain ==
    ASSUME NEW c \in AiServers, NEW a \in Ai(c)!Objects
    PROVE  Quiet(c, a) \subseteq Plain(c) /\ Leave(c, a) \subseteq Plain(c)
<1>1. Quiet(c, a) \subseteq Plain(c)
  BY DEF Quiet, AiInstr, Plain, Triples
<1>2. <<"free", a, a>> \in Plain(c)
  BY DEF Plain, Triples, AiOps, LockOps
<1> QED
  BY <1>1, <1>2 DEF Leave

LEMMA CalmAfter ==
    ASSUME NEW c \in AiServers, NEW w, Orderly(c, w, task'[w].todo, AiHeld(c, w)'),
           task'[w].op = task[w].op, task'[w].id = task[w].id
    PROVE  AiCalm(c, w)'
  BY DEF AiCalm, Orderly, Todo

LEMMA AiGoesPlain ==
    ASSUME NEW c \in AiServers, AiInv(c), Shapes(c), NEW w \in c.workers, NEW op \in AiOps,
           Ai(c)!At(w, op), op \notin LockOps \cup {"insert", "add", "wake", "remove"},
           op = "free" => Ai(c)!First(w) \notin AiHeld(c, w),
           NEW more \in Seq(Plain(c)), task'[w].todo = more \o Tail(task[w].todo),
           \A u \in c.workers : u # w => task'[u] = task[u], UNCHANGED slock
    PROVE  Shapes(c)' /\ (AllCalm(c) => AllCalm(c)')
<1>1. AiHeld(c, w) = {} /\ Tail(task[w].todo) \in Seq(Plain(c))
  BY ShapeHand DEF Shapes, LockOps
<1>2. task'[w].todo \in Seq(Plain(c))
  BY <1>1, Joined
<1>3. \A u : AiHeld(c, u)' = AiHeld(c, u)
  BY AiHolds
<1>4. AiCalm(c, w)'
  BY <1>1, <1>2, <1>3 DEF AiCalm, Orderly, AiOtherAt, Todo
<1> QED
  BY <1>3, <1>4, ShapeCalm

LEMMA GoesNext ==
    ASSUME NEW c \in AiServers, AiInv(c), Shapes(c), NEW w \in c.workers, NEW op \in AiOps,
           Ai(c)!At(w, op), op \notin {"free", "place", "visit", "unlock"},
           task'[w].todo = Tail(task[w].todo),
           task'[w].op = task[w].op, task'[w].id = task[w].id,
           \A u \in c.workers : u # w => task'[u] = task[u], UNCHANGED slock
    PROVE  Shapes(c)' /\ (AllCalm(c) => AllCalm(c)')
<1>1. \/ AiHeld(c, w) = {} /\ Tail(task[w].todo) \in Seq(Plain(c))
      \/ Orderly(c, w, Tail(task[w].todo), AiHeld(c, w))
  BY ShapeHand DEF Shapes
<1>2. Orderly(c, w, Tail(task[w].todo), AiHeld(c, w))
  BY <1>1 DEF Orderly, AiOtherAt
<1>3. \A u : AiHeld(c, u)' = AiHeld(c, u)
  BY AiHolds
<1>4. AiCalm(c, w)'
  BY <1>2, <1>3, CalmAfter
<1> QED
  BY <1>3, <1>4, ShapeCalm

(* The sender disconnects the player in the midst of what it does.         *)
LEMMA ShapeSendFails ==
    ASSUME NEW c \in AiServers, AiInv(c), Shapes(c), NEW w \in c.workers, Ai(c)!SendFails(w)
    PROVE  /\ Shapes(c)'
           /\ AllCalm(c) /\ Ai(c)!First(w) \notin AiHeld(c, w) => AllCalm(c)'
<1> DEFINE f == Ai(c)!First(w)
           T == task[w].todo
           d == <<"free", f, f>>
<1>1. PICK op \in Ai(c)!Sends : Ai(c)!At(w, op)
  BY DEF Ai!SendFails
<1>2. T # <<>> /\ op \in AiOps /\ op \in {"ok", "own", "add", "move", "remove"}
  BY <1>1 DEF Ai!At, Ai!Sends, AiOps
<1>3. f \in Ai(c)!Players /\ f \in Ai(c)!Objects /\ f \in Seen(c)
      /\ f \in Ai(c)!Objects
  <2>1. <<op, f, Ai(c)!Second(w)>> \in AiInstr(c, task[w].id) /\ f \in Ai(c)!Objects
    BY <1>1, <1>2, AiHand
  <2> QED
    BY <1>2, <2>1 DEF AiInstr
<1>4. <<d>> \in Seq(AiInstr(c, task[w].id)) /\ d \in Plain(c) /\ d \in Triples(c)
  <2>1. d \in AiInstr(c, task[w].id)
    BY <1>3 DEF AiInstr, AiOps
  <2> QED
    BY <1>3, <2>1 DEF Plain, Triples, AiOps, LockOps
<1>5. Ai(c)!Go(w, <<d>>) /\ UNCHANGED slock
  BY DEF Ai!SendFails, Ai!DisconnectProgram
<1> HIDE DEF f, d
<1>6. /\ task'[w].todo = <<d>> \o Tail(T)
      /\ task'[w].op = task[w].op /\ task'[w].id = task[w].id
      /\ \A u \in c.workers : u # w => task'[u] = task[u]
  BY <1>2, <1>4, <1>5, AiGoes
<1>7. \A u : AiHeld(c, u)' = AiHeld(c, u)
  BY <1>5, AiHolds
<1>8. Tail(T) \in Seq(Triples(c))
  <2>1. Tail(T) \in Seq(AiInstr(c, task[w].id))
    BY <1>2, AiNow
  <2>2. AiInstr(c, task[w].id) \subseteq Triples(c)
    BY DEF AiInstr, Triples
  <2> HIDE DEF T
  <2> QED
    BY <2>1, <2>2, SeqGrows
<1>9. task'[w].todo # <<>> /\ Head(task'[w].todo) = d
  BY <1>4, <1>6, <1>8, Cons
<1>10. Shape(c, w)
  BY DEF Shapes
<1>11. \/ AiHeld(c, w) = {} /\ Tail(T) \in Seq(Plain(c))
       \/ f \in AiHeld(c, w)
  <2> HIDE DEF T
  <2> QED
    BY <1>1, <1>2, <1>10, ShapeHand DEF f, T
<1>12. CASE AiHeld(c, w) = {} /\ Tail(T) \in Seq(Plain(c))
  <2>1. task'[w].todo \in Seq(Plain(c))
    BY <1>4, <1>6, <1>12, Cons
  <2>2. AiCalm(c, w)'
    BY <1>7, <1>12, <2>1 DEF AiCalm, Orderly, AiOtherAt, Todo
  <2> QED
    BY <1>6, <1>7, <2>2, ShapeCalm
<1>13. CASE f \in AiHeld(c, w)
  <2>1. Shape(c, w)'
    BY <1>7, <1>9, <1>13 DEF Shape, StuckAt, Todo, d
  <2> QED
    BY <1>6, <1>7, <1>13, <2>1, ShapesStep DEF f
<1> QED
  BY <1>11, <1>12, <1>13

LEMMA GoesBy ==
    ASSUME NEW c \in AiServers, AiInv(c), NEW w \in c.workers, task[w].todo # <<>>,
           Ai(c)!Go(w, <<>>)
    PROVE  /\ task'[w].todo = Tail(task[w].todo)
           /\ task'[w].op = task[w].op /\ task'[w].id = task[w].id
           /\ \A u \in c.workers : u # w => task'[u] = task[u]
<1> DEFINE S == AiInstr(c, task[w].id)
           R == Tail(task[w].todo)
           E == <<>>
<1>1. E \in Seq(S) /\ R \in Seq(S)
  BY AiNow
<1>2. E \o R = R
  <2> HIDE DEF R, S
  <2> QED
    BY <1>1, Prefix
<1>3. /\ task'[w].todo = E \o R
      /\ task'[w].op = task[w].op /\ task'[w].id = task[w].id
      /\ \A u \in c.workers : u # w => task'[u] = task[u]
  BY <1>1, AiGoes
<1> QED
  BY <1>2, <1>3

LEMMA ShapePlace ==
    ASSUME NEW c \in AiServers, AiInv(c), Shapes(c), NEW w \in c.workers, Ai(c)!Place(w)
    PROVE  Shapes(c)' /\ (AllCalm(c) => AllCalm(c)')
<1> DEFINE f == Ai(c)!First(w)
           p == task[w].id
<1>1. /\ task[w].todo # <<>> /\ Ai(c)!At(w, "place") /\ Ai(c)!Go(w, <<>>)
      /\ slock[f] = 0 /\ slock' = [slock EXCEPT ![f] = w]
  BY DEF Ai!Place, Ai!At
<1>2. f = p /\ f \in Ai(c)!Objects /\ AiHeld(c, w) = {} /\ Orderly(c, w, Tail(task[w].todo), {p})
  <2>1. f \in Ai(c)!Objects
    BY <1>1, AiHand
  <2>2. /\ f = p /\ AiHeld(c, w) = {}
        /\ Orderly(c, w, Tail(task[w].todo), {p})
    BY <1>1, ShapeHand DEF Shapes, AiOps, LockOps
  <2> QED
    BY <2>1, <2>2
<1>3. /\ AiHeld(c, w)' = {p}
      /\ \A u \in c.workers : u # w => AiHeld(c, u)' = AiHeld(c, u)
  <2> HIDE DEF f
  <2>1. /\ AiHeld(c, w)' = AiHeld(c, w) \cup {f}
        /\ \A u \in c.workers : u # w => AiHeld(c, u)' = AiHeld(c, u)
    BY <1>1, <1>2, AiTakes
  <2> QED
    BY <1>2, <2>1
<1>4. /\ task'[w].todo = Tail(task[w].todo)
      /\ task'[w].op = task[w].op /\ task'[w].id = task[w].id
      /\ \A u \in c.workers : u # w => task'[u] = task[u]
  BY <1>1, GoesBy
<1>5. AiCalm(c, w)'
  BY <1>2, <1>3, <1>4, CalmAfter
<1> QED
  BY <1>3, <1>4, <1>5, ShapeCalm

LEMMA ShapeUnlock ==
    ASSUME NEW c \in AiServers, AiInv(c), Shapes(c), NEW w \in c.workers, Ai(c)!Unlock(w)
    PROVE  Shapes(c)' /\ (AllCalm(c) => AllCalm(c)')
<1> DEFINE f == Ai(c)!First(w)
<1>1. /\ task[w].todo # <<>> /\ Ai(c)!At(w, "unlock") /\ Ai(c)!Go(w, <<>>)
      /\ slock' = [slock EXCEPT ![f] = 0]
  BY DEF Ai!Unlock, Ai!At
<1>2. /\ f \in Ai(c)!Objects /\ f \in AiHeld(c, w)
      /\ Orderly(c, w, Tail(task[w].todo), AiHeld(c, w) \ {f})
  BY <1>1, ShapeHand, AiHand DEF Shapes, AiOps, LockOps
<1>3. /\ AiHeld(c, w)' = AiHeld(c, w) \ {f}
      /\ \A u \in c.workers : u # w => AiHeld(c, u)' = AiHeld(c, u)
  <2> HIDE DEF f
  <2> QED
    BY <1>1, <1>2, AiGivesBack
<1>4. /\ task'[w].todo = Tail(task[w].todo)
      /\ task'[w].op = task[w].op /\ task'[w].id = task[w].id
      /\ \A u \in c.workers : u # w => task'[u] = task[u]
  BY <1>1, GoesBy
<1>5. AiCalm(c, w)'
  BY <1>2, <1>3, <1>4, CalmAfter
<1> QED
  BY <1>3, <1>4, <1>5, ShapeCalm

(* The greeting of o, and the rest of the login after it.                  *)
LEMMA Greets ==
    ASSUME NEW c \in AiServers, NEW p \in Ai(c)!Players, NEW o \in Ai(c)!Objects \ {p},
           NEW R, Visits(c, p, R)
    PROVE  AiLoginAt(c, p, Ai(c)!GreetProgram(p, o) \o R, {p, o})
<1> DEFINE S == Triples(c)
           A == << <<"insert", p, o>>, <<"add", p, o>> >>
           B == IF o \in Ai(c)!Npcs THEN << <<"wake", o, o>> >>
                ELSE << <<"insert", o, p>>, <<"add", o, p>> >>
           u == Me("unlock", o)
<1>1. p \in Ai(c)!Objects
  BY Sizes
<1>2. A \in Seq(Greeting(c, p, o)) /\ B \in Seq(Greeting(c, p, o))
  <2>1. /\ <<"insert", p, o>> \in Greeting(c, p, o) /\ <<"add", p, o>> \in Greeting(c, p, o)
        /\ <<"insert", o, p>> \in Greeting(c, p, o) /\ <<"add", o, p>> \in Greeting(c, p, o)
        /\ <<"wake", o, o>> \in Greeting(c, p, o)
    BY <1>1 DEF Greeting, Triples, AiOps
  <2> QED
    BY <2>1
<1>3. u \in S /\ R \in Seq(S) /\ Greeting(c, p, o) \subseteq S
  BY <1>1, AiMe, VisitsStep DEF Greeting, AiOps
<1>4. Ai(c)!GreetProgram(p, o) = (A \o B) \o <<u>>
  BY DEF Ai!GreetProgram, Me
<1> HIDE DEF A, B, u, S
<1>5. A \o B \in Seq(Greeting(c, p, o))
  BY <1>2, Joined
<1> DEFINE G == A \o B
<1>6. G \in Seq(S) /\ <<u>> \in Seq(S)
  BY <1>3, <1>5, SeqGrows
<1> HIDE DEF G
<1>7. (G \o <<u>>) \o R = G \o (<<u>> \o R)
  BY <1>3, <1>6, ConcatAssociative
<1>8. Ai(c)!GreetProgram(p, o) \o R = G \o (<<Me("unlock", o)>> \o R)
  BY <1>4, <1>7 DEF G, u
<1> QED
  BY <1>5, <1>8 DEF AiLoginAt, G

LEMMA ShapeVisit ==
    ASSUME NEW c \in AiServers, AiInv(c), Shapes(c), NEW w \in c.workers, Ai(c)!Visit(w)
    PROVE  Shapes(c)' /\ (AllCalm(c) => AllCalm(c)')
<1> DEFINE f == Ai(c)!First(w)
           o == Ai(c)!Second(w)
           p == task[w].id
           R == Tail(task[w].todo)
<1>1. /\ task[w].todo # <<>> /\ Ai(c)!At(w, "visit") /\ slock[o] = 0
      /\ \/ slock' = slock /\ Ai(c)!Go(w, <<>>)
         \/ /\ slock' = [slock EXCEPT ![o] = w] /\ Ai(c)!Go(w, Ai(c)!GreetProgram(f, o))
            /\ state[o] = "INGAME"
  BY DEF Ai!Visit, Ai!At
<1>2. /\ task[w].op = "login" /\ p \in Ai(c)!Players /\ f = p /\ o \in Ai(c)!Objects \ {p}
      /\ AiHeld(c, w) = {p} /\ Visits(c, p, R)
  BY <1>1, ShapeHand DEF Shapes, AiOps, LockOps
<1>3. CASE slock' = slock /\ Ai(c)!Go(w, <<>>)
  <2>1. /\ task'[w].todo = R
        /\ task'[w].op = task[w].op /\ task'[w].id = p
        /\ \A u \in c.workers : u # w => task'[u] = task[u]
    BY <1>1, <1>3, GoesBy
  <2>2. \A u : AiHeld(c, u)' = AiHeld(c, u)
    BY <1>3, AiHolds
  <2>3. Orderly(c, w, R, {p})
    BY <1>2 DEF Orderly, AiLoginAt
  <2>4. AiCalm(c, w)'
    BY <1>2, <2>1, <2>2, <2>3, CalmAfter
  <2> QED
    BY <2>1, <2>2, <2>4, ShapeCalm
<1>4. CASE /\ slock' = [slock EXCEPT ![o] = w] /\ Ai(c)!Go(w, Ai(c)!GreetProgram(f, o))
           /\ state[o] = "INGAME"
  <2>1. p \in Seen(c) /\ o \in Seen(c)
    BY <1>2, <1>4, InGameSeen DEF AiInv, HandlerSeen, OfClient
  <2> DEFINE G == Ai(c)!GreetProgram(p, o)
  <2>2. G \in Seq(AiInstr(c, p))
    BY <1>2, <2>1, GreetsSeen
  <2>3. AiLoginAt(c, p, G \o R, {p, o})
    BY <1>2, Greets
  <2>4. Ai(c)!Go(w, G)
    BY <1>2, <1>4
  <2> HIDE DEF G, R
  <2>5. /\ task'[w].todo = G \o R
        /\ task'[w].op = task[w].op /\ task'[w].id = p
        /\ \A u \in c.workers : u # w => task'[u] = task[u]
    BY <1>1, <2>2, <2>4, AiGoes DEF R
  <2>6. /\ AiHeld(c, w)' = {p, o}
        /\ \A u \in c.workers : u # w => AiHeld(c, u)' = AiHeld(c, u)
    <3>1. /\ AiHeld(c, w)' = AiHeld(c, w) \cup {o}
          /\ \A u \in c.workers : u # w => AiHeld(c, u)' = AiHeld(c, u)
      <4> HIDE DEF o
      <4> QED
        BY <1>1, <1>2, <1>4, AiTakes
    <3> QED
      BY <1>2, <3>1
  <2>7. Orderly(c, w, G \o R, {p, o})
    BY <1>2, <2>3 DEF Orderly
  <2>8. AiCalm(c, w)'
    BY <2>5, <2>6, <2>7, CalmAfter
  <2> QED
    BY <2>5, <2>6, <2>8, ShapeCalm
<1> QED
  BY <1>1, <1>3, <1>4

LEMMA ShapeTell ==
    ASSUME NEW c \in AiServers, AiInv(c), Shapes(c), NEW w \in c.workers, Ai(c)!Tell(w)
    PROVE  Shapes(c)' /\ (AllCalm(c) => AllCalm(c)')
<1> DEFINE o == Ai(c)!First(w)
           x == Ai(c)!Second(w)
           a == <<"remove", o, x>>
           u == <<"unlock", o, o>>
           R == Tail(task[w].todo)
<1>1. /\ task[w].todo # <<>> /\ Ai(c)!At(w, "tell") /\ slock[o] = 0
      /\ \/ slock' = slock /\ Ai(c)!Go(w, <<>>)
         \/ /\ slock' = [slock EXCEPT ![o] = w] /\ Ai(c)!Go(w, <<a, u>>)
            /\ state[o] = "INGAME"
  BY DEF Ai!Tell, Ai!At
<1>2. /\ o \in Ai(c)!Players /\ o \in Ai(c)!Objects /\ x \in Ai(c)!Objects
      /\ AiHeld(c, w) = {} /\ R \in Seq(Plain(c))
  <2>1. <<"tell", o, x>> \in AiInstr(c, task[w].id) /\ x \in Ai(c)!Objects
        /\ o \in Ai(c)!Objects
    BY <1>1, AiHand
  <2>2. o \in Ai(c)!Players
    BY <2>1 DEF AiInstr
  <2> QED
    BY <1>1, <2>1, <2>2, ShapeHand DEF Shapes, AiOps
<1>3. CASE slock' = slock /\ Ai(c)!Go(w, <<>>)
  <2>1. /\ task'[w].todo = R
        /\ task'[w].op = task[w].op /\ task'[w].id = task[w].id
        /\ \A v \in c.workers : v # w => task'[v] = task[v]
    BY <1>1, <1>3, GoesBy
  <2> HIDE DEF o, x, a, u
  <2> QED
    BY <1>1, <1>3, <2>1, GoesNext DEF AiOps
<1>4. CASE /\ slock' = [slock EXCEPT ![o] = w] /\ Ai(c)!Go(w, <<a, u>>)
           /\ state[o] = "INGAME"
  <2>1. a \in AiInstr(c, task[w].id) /\ u \in AiInstr(c, task[w].id)
        /\ a \in Triples(c) /\ u \in Triples(c) /\ u = Me("unlock", o)
    <3>1. o \in Seen(c)
      BY <1>2, <1>4, InGameSeen
    <3> QED
      BY <1>2, <3>1 DEF AiInstr, AiOps, Triples, Me
  <2>2. <<a, u>> \in Seq(AiInstr(c, task[w].id))
    BY <2>1
  <2>3. AiOtherAt(c, <<a, u>> \o R, {o})
    <3>1. R \in Seq(Triples(c))
      BY <1>2, SeqGrows DEF Plain
    <3>2. <<a, u>> \o R = <<a>> \o (<<u>> \o R)
      <4> HIDE DEF a, u, R
      <4> QED
        BY SMTT(90), <2>1, <3>1, Twice
    <3>3. <<a, u>> \o R = << <<"remove", o, x>> >> \o (<<Me("unlock", o)>> \o R)
      BY <2>1, <3>2
    <3> QED
      BY <1>2, <3>3 DEF AiOtherAt
  <2> HIDE DEF o, x, a, u, R
  <2>4. /\ task'[w].todo = <<a, u>> \o R
        /\ task'[w].op = task[w].op /\ task'[w].id = task[w].id
        /\ \A v \in c.workers : v # w => task'[v] = task[v]
    BY <1>1, <1>4, <2>2, AiGoes DEF R
  <2>5. /\ AiHeld(c, w)' = {o}
        /\ \A v \in c.workers : v # w => AiHeld(c, v)' = AiHeld(c, v)
    <3>1. /\ AiHeld(c, w)' = AiHeld(c, w) \cup {o}
          /\ \A v \in c.workers : v # w => AiHeld(c, v)' = AiHeld(c, v)
      BY <1>1, <1>2, <1>4, AiTakes
    <3> QED
      BY <1>2, <3>1
  <2>6. Orderly(c, w, <<a, u>> \o R, {o})
    BY <2>3 DEF Orderly
  <2>7. AiCalm(c, w)'
    BY <2>4, <2>5, <2>6, CalmAfter
  <2> QED
    BY <2>4, <2>5, <2>7, ShapeCalm
<1> QED
  BY <1>1, <1>3, <1>4

LEMMA ShapeFree ==
    ASSUME NEW c \in AiServers, AiInv(c), Shapes(c), NEW w \in c.workers, Ai(c)!Free(w)
    PROVE  Shapes(c)' /\ (AllCalm(c) => AllCalm(c)')
<1> DEFINE p == Ai(c)!First(w)
           tells == [q \in Ai(c)!Players |-> <<"tell", q, p>>]
           more == IF state[p] = "FREE" THEN <<>> ELSE tells
           a == task[w].id
<1>1. /\ task[w].todo # <<>> /\ Ai(c)!At(w, "free") /\ slock[p] = 0 /\ UNCHANGED slock
      /\ Ai(c)!Go(w, more)
  BY DEF Ai!Free, Ai!At
<1>2. p \in Ai(c)!Players /\ p \in Seen(c) /\ p \in Ai(c)!Objects
  <2>1. <<"free", p, Ai(c)!Second(w)>> \in AiInstr(c, a) /\ p \in Ai(c)!Objects
    BY <1>1, AiHand
  <2> QED
    BY <2>1 DEF AiInstr
<1>3. a \in Ai(c)!Objects \cup {0}
  BY DEF AiInv, AiType, AiHandlers
<1>4. more \in Seq(AiInstr(c, a)) /\ more \in Seq(Plain(c))
  <2>1. tells \in Seq(Quiet(c, a)) /\ tells \in Seq(Quiet(c, p))
    BY <1>2, TellsAll
  <2>2. more \in Seq(Quiet(c, a)) /\ more \in Seq(Quiet(c, p))
    <3> HIDE DEF tells, a, p
    <3>1. <<>> \in Seq(Quiet(c, a)) /\ <<>> \in Seq(Quiet(c, p))
      OBVIOUS
    <3> QED
      BY <2>1, <3>1
  <2> HIDE DEF more, a
  <2>3. more \in Seq(AiInstr(c, a))
    BY <2>2, QuietSeq
  <2>4. more \in Seq(Plain(c))
    BY <1>2, <2>2, QuietPlain, SeqGrows
  <2> QED
    BY <2>3, <2>4
<1>5. p \notin AiHeld(c, w)
  BY <1>1, <1>2, Sizes DEF AiHeld
<1> HIDE DEF more, a
<1>6. /\ task'[w].todo = more \o Tail(task[w].todo)
      /\ \A u \in c.workers : u # w => task'[u] = task[u]
  BY <1>1, <1>4, AiGoes DEF a
<1> HIDE DEF tells
<1> QED
  BY <1>1, <1>4, <1>5, <1>6, AiGoesPlain DEF LockOps, AiOps

LEMMA ShapeFinish ==
    ASSUME NEW c \in AiServers, AiInv(c), Shapes(c), NEW w \in c.workers, Ai(c)!Finish(w)
    PROVE  Shapes(c)' /\ (AllCalm(c) => AllCalm(c)')
<1>1. /\ task[w].todo # <<>> /\ Ai(c)!At(w, "done") /\ UNCHANGED slock
      /\ task' = [task EXCEPT ![w] = Ai(c)!Idle]
  BY DEF Ai!Finish, Ai!At
<1>2. /\ task'[w].todo = <<>> /\ \A u \in c.workers : u # w => task'[u] = task[u]
  BY <1>1 DEF AiInv, AiType, Ai!Idle
<1>3. AiHeld(c, w) = {}
  BY <1>1, ShapeHand DEF Shapes, AiOps, LockOps
<1>4. \A u : AiHeld(c, u)' = AiHeld(c, u)
  BY <1>1, AiHolds
<1>5. AiCalm(c, w)'
  BY <1>2, <1>3, <1>4 DEF AiCalm, Orderly, AiOtherAt, Todo
<1> QED
  BY <1>2, <1>4, <1>5, ShapeCalm

(* Handlers that neither take nor give back a lock.                        *)
LEMMA ShapeSort ==
    ASSUME NEW c \in AiServers, AiInv(c), Shapes(c), NEW w \in c.workers, Ai(c)!Sort(w)
    PROVE  Shapes(c)' /\ (AllCalm(c) => AllCalm(c)')
<1> DEFINE a == task[w].id
<1>1. task[w].todo # <<>> /\ Ai(c)!At(w, "sort") /\ UNCHANGED slock
  BY DEF Ai!Sort, Ai!At
<1>2. PICK more \in Seq(Quiet(c, a)) : Ai(c)!Go(w, more)
  BY Sorts
<1>3. a \in Ai(c)!Objects
  <2>1. <<"sort", Ai(c)!First(w), Ai(c)!Second(w)>> \in AiInstr(c, a)
        /\ Ai(c)!First(w) \in Ai(c)!Objects
    BY <1>1, AiHand
  <2> QED
    BY <2>1 DEF AiInstr
<1> HIDE DEF a
<1>4. more \in Seq(AiInstr(c, a)) /\ more \in Seq(Plain(c))
  BY <1>3, QuietSeq, QuietPlain, SeqGrows
<1>5. /\ task'[w].todo = more \o Tail(task[w].todo)
      /\ \A u \in c.workers : u # w => task'[u] = task[u]
  BY <1>1, <1>2, <1>4, AiGoes DEF a
<1> QED
  BY <1>1, <1>4, <1>5, AiGoesPlain DEF LockOps, AiOps

LEMMA ShapeLists ==
    ASSUME NEW c \in AiServers, AiInv(c), Shapes(c), NEW w \in c.workers,
           Ai(c)!Meet(w) \/ Ai(c)!Part(w)
    PROVE  Shapes(c)' /\ (AllCalm(c) => AllCalm(c)')
<1> DEFINE o == Ai(c)!First(w)
           p == Ai(c)!Second(w)
<1>1. PICK op \in {"meet", "part"} :
         /\ task[w].todo # <<>> /\ Ai(c)!At(w, op) /\ UNCHANGED slock
         /\ \E kind \in {"move", "add", "remove"} :
               \/ Ai(c)!Go(w, << <<kind, o, p>> >>)
               \/ Ai(c)!Go(w, <<>>)
  BY DEF Ai!Meet, Ai!Part, Ai!At
<1>2. o \in Ai(c)!Objects /\ p \in Ai(c)!Objects /\ o \in Ai(c)!Players /\ o \in Seen(c)
  <2>1. <<op, o, p>> \in AiInstr(c, task[w].id)
        /\ o \in Ai(c)!Objects /\ p \in Ai(c)!Objects
    BY <1>1, AiHand
  <2> QED
    BY <2>1 DEF AiInstr
<1>3. \A kind \in {"move", "add", "remove"} :
         <<kind, o, p>> \in AiInstr(c, task[w].id) /\ <<kind, o, p>> \in Plain(c)
  BY <1>2 DEF AiInstr, AiOps, Plain, LockOps, Triples
<1>4. PICK more : /\ more \in Seq(AiInstr(c, task[w].id)) /\ more \in Seq(Plain(c))
                  /\ Ai(c)!Go(w, more)
  <2>1. <<>> \in Seq(AiInstr(c, task[w].id)) /\ <<>> \in Seq(Plain(c))
    OBVIOUS
  <2>2. \A kind \in {"move", "add", "remove"} :
          /\ << <<kind, o, p>> >> \in Seq(AiInstr(c, task[w].id))
          /\ << <<kind, o, p>> >> \in Seq(Plain(c))
    BY <1>3
  <2> QED
    BY <1>1, <2>1, <2>2
<1>5. /\ task'[w].todo = more \o Tail(task[w].todo)
      /\ \A u \in c.workers : u # w => task'[u] = task[u]
  BY <1>1, <1>4, AiGoes
<1>6. op \in AiOps \ (LockOps \cup {"insert", "add", "wake", "remove", "free"})
  BY DEF LockOps, AiOps
<1> HIDE DEF o, p
<1> QED
  BY <1>1, <1>4, <1>5, <1>6, AiGoesPlain

LEMMA ShapeLook ==
    ASSUME NEW c \in AiServers, AiInv(c), Shapes(c), NEW w \in c.workers,
           Ai(c)!Step(w) \/ Ai(c)!Copy(w) \/ Ai(c)!Look(w)
    PROVE  Shapes(c)' /\ (AllCalm(c) => AllCalm(c)')
<1>1. PICK op \in {"step", "copy", "look"} :
         /\ Ai(c)!At(w, op) /\ UNCHANGED slock
         /\ \E old, new : task' = [task EXCEPT ![w].todo = Tail(task[w].todo),
                                              ![w].old = old, ![w].new = new]
  <2>1. CASE Ai(c)!Step(w)
    BY <2>1 DEF Ai!Step
  <2>2. CASE Ai(c)!Copy(w)
    <3>1. task' = [task EXCEPT ![w].todo = Tail(@), ![w].old = view[Ai(c)!First(w)]]
      BY <2>2 DEF Ai!Copy
    <3>2. task' = [task EXCEPT ![w].todo = Tail(task[w].todo),
                               ![w].old = view[Ai(c)!First(w)], ![w].new = task[w].new]
      BY <3>1 DEF AiInv, AiType, AiHandlers
    <3> QED
      BY <2>2, <3>2 DEF Ai!Copy
  <2>3. CASE Ai(c)!Look(w)
    <3>1. PICK new : task' = [task EXCEPT ![w].todo = Tail(@), ![w].new = new]
      BY <2>3 DEF Ai!Look
    <3>2. task' = [task EXCEPT ![w].todo = Tail(task[w].todo),
                               ![w].old = task[w].old, ![w].new = new]
      BY <3>1 DEF AiInv, AiType, AiHandlers
    <3> QED
      BY <2>3, <3>2 DEF Ai!Look
  <2> QED
    BY <2>1, <2>2, <2>3
<1>2. PICK old, new : task' = [task EXCEPT ![w].todo = Tail(task[w].todo),
                                           ![w].old = old, ![w].new = new]
  BY <1>1
<1>3. /\ task'[w].todo = Tail(task[w].todo)
      /\ task'[w].op = task[w].op /\ task'[w].id = task[w].id
      /\ \A u \in c.workers : u # w => task'[u] = task[u]
  BY <1>2 DEF AiInv, AiType, AiHandlers
<1>4. op \in AiOps /\ op \notin {"free", "place", "visit", "unlock"}
  BY DEF AiOps
<1> QED
  BY <1>1, <1>3, <1>4, GoesNext

(* Those that go on with the next instruction.                             *)
LEMMA ShapeNext ==
    ASSUME NEW c \in AiServers, AiInv(c), Shapes(c), NEW w \in c.workers,
           \/ Ai(c)!Enter(w) \/ Ai(c)!Insert(w) \/ Ai(c)!Erase(w) \/ Ai(c)!Wake(w)
           \/ Ai(c)!Deliver(w)
    PROVE  Shapes(c)' /\ (AllCalm(c) => AllCalm(c)')
<1>1. PICK op \in {"enter", "insert", "erase", "wake"} \cup Ai(c)!Sends :
         Ai(c)!At(w, op) /\ UNCHANGED slock /\ Ai(c)!Go(w, <<>>)
  BY DEF Ai!Enter, Ai!Insert, Ai!Erase, Ai!Wake, Ai!Deliver
<1>2. op \in AiOps /\ op \notin {"free", "place", "visit", "unlock"}
  BY DEF Ai!Sends, AiOps
<1>3. task[w].todo # <<>>
  BY <1>1 DEF Ai!At
<1>4. /\ task'[w].todo = Tail(task[w].todo)
      /\ task'[w].op = task[w].op /\ task'[w].id = task[w].id
      /\ \A u \in c.workers : u # w => task'[u] = task[u]
  BY <1>1, <1>3, GoesBy
<1> QED
  BY <1>1, <1>2, <1>4, GoesNext

LEMMA BeginsWith ==
    ASSUME NEW c \in AiServers, AiInv(c), NEW w \in c.workers, NEW op, NEW id, NEW todo,
           Ai(c)!Begin(w, op, id, todo)
    PROVE  /\ task[w].todo = <<>> /\ task[w].op = "idle"
           /\ task'[w].op = op /\ task'[w].id = id /\ task'[w].todo = todo
           /\ \A u \in c.workers : u # w => task'[u] = task[u]
<1>1. task \in [c.workers -> AiHandlers(c)]
  BY DEF AiInv, AiType
<1> QED
  BY <1>1 DEF Ai!Begin, Ai!Idle

LEMMA ShapeLogin ==
    ASSUME NEW c \in AiServers, AiInv(c), Shapes(c), NEW w \in c.workers,
           NEW p \in Ai(c)!Players, Ai(c)!Login(w, p)
    PROVE  Shapes(c)' /\ (AllCalm(c) => AllCalm(c)')
<1> DEFINE S == Triples(c)
           A == <<Me("place", p), Me("ok", p), Me("enter", p)>>
           V == [i \in 1..(c.users - 1) |-> <<"visit", p, Ai(c)!Others(p)[i]>>]
           X == <<Me("unlock", p), Me("done", p)>>
<1>1. Ai(c)!Begin(w, "login", p, Ai(c)!LoginProgram(p)) /\ UNCHANGED slock
  BY DEF Ai!Login
<1>2. /\ task[w].todo = <<>> /\ task'[w].todo = Ai(c)!LoginProgram(p)
      /\ task'[w].op = "login" /\ task'[w].id = p
      /\ \A u \in c.workers : u # w => task'[u] = task[u]
  BY <1>1, BeginsWith
<1>3. p \in Ai(c)!Objects
  BY Sizes
<1>4. V \in Seq(Visit(c, p))
  <2>1. c.users - 1 \in Nat
    BY <1>3, Sizes
  <2>2. ASSUME NEW i \in 1..(c.users - 1)
        PROVE  <<"visit", p, Ai(c)!Others(p)[i]>> \in Visit(c, p)
    <3>1. Ai(c)!Others(p)[i] \in Ai(c)!Objects \ {p}
      BY <1>3, AiOthers
    <3> QED
      BY <1>3, <3>1 DEF Visit, Triples, AiOps
  <2>3. V \in [1..(c.users - 1) -> Visit(c, p)]
    BY <2>2
  <2> HIDE DEF V
  <2> QED
    BY <2>1, <2>3, EachSeq
<1>5. A \in Seq(S) /\ X \in Seq(S)
  <2>1. /\ Me("place", p) \in S /\ Me("ok", p) \in S /\ Me("enter", p) \in S
        /\ Me("unlock", p) \in S /\ Me("done", p) \in S
    BY <1>3, AiMe DEF AiOps
  <2> QED
    BY <2>1
<1>6. V \in Seq(S)
  <2> HIDE DEF V
  <2>1. Visit(c, p) \subseteq S
    BY DEF Visit
  <2> QED
    BY <1>4, <2>1, SeqGrows
<1>7. Ai(c)!LoginProgram(p) = (A \o V) \o X
  BY DEF Ai!LoginProgram, Me
<1>8. Visits(c, p, V \o X)
  BY <1>4 DEF Visits
<1> HIDE DEF V, X, S, A
<1>9. (A \o V) \o X = A \o (V \o X)
  BY SMTT(60), <1>5, <1>6, ConcatAssociative
<1> DEFINE R == V \o X
<1>10. Visits(c, p, R) /\ task'[w].todo = A \o R
  BY <1>2, <1>7, <1>8, <1>9
<1> HIDE DEF R
<1>11. AiLoginAt(c, p, task'[w].todo, {})
  BY <1>10 DEF AiLoginAt, A
<1>12. \A u : AiHeld(c, u)' = AiHeld(c, u)
  BY <1>1, AiHolds
<1>13. AiHeld(c, w) = {}
  BY <1>2, ShapeIdle DEF Shapes, Todo
<1>14. AiCalm(c, w)'
  BY <1>2, <1>11, <1>12, <1>13 DEF AiCalm, Orderly, Todo
<1> QED
  BY <1>2, <1>12, <1>14, ShapeCalm

LEMMA ShapeBegins ==
    ASSUME NEW c \in AiServers, AiInv(c), Shapes(c), NEW w \in c.workers,
           NEW a \in Ai(c)!Objects,
           \/ a \in Ai(c)!Players /\ (Ai(c)!Move(w, a) \/ Ai(c)!Quit(w, a) \/ Ai(c)!Abort(w, a))
           \/ a \in Ai(c)!Npcs /\ Ai(c)!NpcTurn(w, a)
    PROVE  Shapes(c)' /\ (AllCalm(c) => AllCalm(c)')
<1>1. UNCHANGED slock
  BY DEF Ai!Move, Ai!Quit, Ai!Abort, Ai!NpcTurn
<1>2. PICK op, todo : /\ todo \in Seq(Quiet(c, a)) \/ todo \in Seq(Leave(c, a))
                      /\ Ai(c)!Begin(w, op, a, todo)
  BY Begins
<1>3. todo \in Seq(Plain(c))
  BY <1>2, QuietPlain, SeqGrows
<1>4. /\ task[w].todo = <<>> /\ task'[w].todo = todo
      /\ \A u \in c.workers : u # w => task'[u] = task[u]
  BY <1>2, BeginsWith
<1>5. \A u : AiHeld(c, u)' = AiHeld(c, u)
  BY <1>1, AiHolds
<1>6. AiHeld(c, w) = {}
  BY <1>4, ShapeIdle DEF Shapes, Todo
<1>7. AiCalm(c, w)'
  BY <1>3, <1>4, <1>5, <1>6 DEF AiCalm, Orderly, AiOtherAt, Todo
<1> QED
  BY <1>4, <1>5, <1>7, ShapeCalm

LEMMA ShapesSteps ==
    ASSUME NEW c \in AiServers, AiInv(c), Shapes(c), [Ai(c)!Next]_(Ai(c)!vars)
    PROVE  /\ Shapes(c)'
           /\ \/ AllCalm(c) => AllCalm(c)'
              \/ \E w \in c.workers : Ai(c)!SendFails(w) /\ Ai(c)!First(w) \in AiHeld(c, w)
<1>1. ASSUME UNCHANGED <<task, slock>> PROVE Shapes(c)' /\ (AllCalm(c) => AllCalm(c)')
  <2>1. \A u : AiHeld(c, u)' = AiHeld(c, u) /\ Todo(u)' = Todo(u) /\ task'[u] = task[u]
    BY <1>1 DEF AiHeld, Todo
  <2>2. ASSUME NEW u \in c.workers, Shape(c, u) PROVE Shape(c, u)'
    BY <2>1, <2>2 DEF Shape
  <2>3. ASSUME NEW u \in c.workers, AiCalm(c, u) PROVE AiCalm(c, u)'
    BY <2>1, <2>3 DEF AiCalm, Orderly
  <2> QED
    BY <2>2, <2>3 DEF Shapes, AllCalm
<1>2. ASSUME NEW w \in c.workers, Ai(c)!Work(w)
      PROVE  /\ Shapes(c)'
             /\ \/ AllCalm(c) => AllCalm(c)'
                \/ Ai(c)!SendFails(w) /\ Ai(c)!First(w) \in AiHeld(c, w)
  BY <1>2, ShapePlace, ShapeVisit, ShapeUnlock, ShapeLook, ShapeSort, ShapeLists, ShapeNext,
     ShapeSendFails, ShapeFree, ShapeTell, ShapeFinish DEF Ai!Work
<1>3. ASSUME NEW w \in c.workers, Ai(c)!Start(w)
      PROVE  Shapes(c)' /\ (AllCalm(c) => AllCalm(c)')
  <2>1. ASSUME NEW p \in Ai(c)!Players, Ai(c)!Accept(w, p)
        PROVE  Shapes(c)' /\ (AllCalm(c) => AllCalm(c)')
    BY <1>1, <2>1 DEF Ai!Accept
  <2>2. Ai(c)!Players \subseteq Ai(c)!Objects /\ Ai(c)!Npcs \subseteq Ai(c)!Objects
    BY Sizes
  <2> QED
    BY <1>3, <2>1, <2>2, ShapeLogin, ShapeBegins DEF Ai!Start
<1> QED
  BY <1>1, <1>2, <1>3 DEF Ai!Next, Ai!vars

LEMMA ShapesInit ==
    ASSUME NEW c \in AiServers, Ai(c)!Init
    PROVE  Shapes(c) /\ AllCalm(c)
<1> SUFFICES ASSUME NEW w \in c.workers PROVE AiOtherAt(c, Todo(w), AiHeld(c, w))
  BY DEF Shapes, Shape, AllCalm, AiCalm, Orderly
<1>1. task = [u \in c.workers |-> Ai(c)!Idle] /\ slock = [o \in Ai(c)!Objects |-> 0]
  BY DEF Ai!Init
<1>2. Todo(w) = <<>> /\ AiHeld(c, w) = {}
  BY <1>1, Sizes DEF Ai!Idle, Todo, AiHeld
<1> QED
  BY <1>2 DEF AiOtherAt

(***************************************************************************)
(* Before a send has failed, and a slot has been taken twice, no worker is *)
(* stuck: nobody sends to a slot that is free, since the lock that the     *)
(* sender holds keeps the slot from being freed.                           *)
(***************************************************************************)
Fresh(c) == failed = 0 /\ \A p \in Ai(c)!Players : lives[p] <= 1

NoFree(c) == {i \in Triples(c) : i[1] # "free"}

(* A slot is freed by its client's own disconnect, or it is free.          *)
Frees(c, w) ==
    {i \in Triples(c) : i[1] = "free" => \/ state[i[2]] = "FREE"
                                         \/ task[w].op = "quit" /\ task[w].id = i[2]}

OnePerClient(c) ==
    \A w, u \in c.workers :
        w # u /\ task[w].op \in OfClient /\ task[u].op \in OfClient => task[w].id # task[u].id

LocksKeep(c) == \A p \in Ai(c)!Players : slock[p] # 0 => state[p] # "FREE"

HandlerFresh(c, w) ==
    /\ task[w].op # "abort"
    /\ task[w].op = "login" => state[task[w].id] # "FREE"
    /\ task[w].todo \in Seq(Frees(c, w))

Gentle(c) ==
    /\ \A p \in Ai(c)!Players : aborted[p] = 0
    /\ AllCalm(c) /\ OnePerClient(c) /\ LocksKeep(c)
    /\ \A w \in c.workers : HandlerFresh(c, w)

LEMMA NoFreeFrees ==
    ASSUME NEW c, NEW w
    PROVE  NoFree(c) \subseteq Frees(c, w)
  BY DEF NoFree, Frees

(* An instruction frees only a player that has been there.                 *)
LEMMA FreeHand ==
    ASSUME NEW c \in AiServers, AiInv(c), NEW w \in c.workers, HandlerFresh(c, w),
           Ai(c)!At(w, "free")
    PROVE  \/ state[Ai(c)!First(w)] = "FREE"
           \/ task[w].op = "quit" /\ task[w].id = Ai(c)!First(w)
<1>1. task[w].todo # <<>> /\ task[w].todo \in Seq(Frees(c, w))
  BY DEF Ai!At, HandlerFresh
<1>2. Head(task[w].todo) \in Frees(c, w)
  BY <1>1
<1>3. Head(task[w].todo)[1] = "free" /\ Head(task[w].todo)[2] = Ai(c)!First(w)
  BY DEF Ai!At, Ai!First
<1> QED
  BY <1>2, <1>3 DEF Frees

(* No other worker handles a completion of p, if p is not Busy.            *)
LEMMA FreshBusy ==
    ASSUME NEW c \in AiServers, AiInv(c), Fresh(c), NEW p \in Ai(c)!Players,
           NEW w \in c.workers, task[w].op \in OfClient, task[w].id = p
    PROVE  Ai(c)!Busy(p)
<1>1. /\ task[w].life >= 1 /\ task[w].life <= lives[p] /\ lives[p] <= 1
      /\ task[w].life \in Nat /\ lives[p] \in Nat
  BY DEF AiInv, AiType, AiHandlers, HandlerSeen, Fresh
<1>2. task[w].life = lives[p]
  BY <1>1
<1> QED
  BY <1>2 DEF Ai!Busy, OfClient

(* A step of w that neither takes nor frees a slot.                        *)
SameFree(c) == \A o \in Ai(c)!Objects : state'[o] = "FREE" <=> state[o] = "FREE"

LEMMA GentleStays ==
    ASSUME NEW c \in AiServers, AiInv(c), Gentle(c), NEW w \in c.workers,
           AllCalm(c)', LocksKeep(c)', SameFree(c), UNCHANGED aborted,
           task'[w].op = task[w].op, task'[w].id = task[w].id,
           task'[w].todo \in Seq(Frees(c, w)),
           \A u \in c.workers : u # w => task'[u] = task[u]
    PROVE  Gentle(c)'
<1>1. \A u \in c.workers : task'[u].op = task[u].op /\ task'[u].id = task[u].id
  OBVIOUS
<1>2. \A u \in c.workers : Frees(c, u) \subseteq Frees(c, u)'
  BY <1>1 DEF Frees, Triples, SameFree
<1>3. ASSUME NEW u \in c.workers PROVE HandlerFresh(c, u)'
  <2>1. task'[u].todo \in Seq(Frees(c, u))
    BY DEF Gentle, HandlerFresh
  <2>2. task'[u].todo \in Seq(Frees(c, u)')
    BY <1>2, <2>1, SeqGrows
  <2>3. task[u].op = "login" => task[u].id \in Ai(c)!Objects
    BY Sizes DEF AiInv, HandlerSeen, OfClient
  <2> QED
    BY <1>1, <2>2, <2>3 DEF Gentle, HandlerFresh, SameFree
<1>4. OnePerClient(c)'
  BY <1>1 DEF Gentle, OnePerClient
<1> QED
  BY <1>3, <1>4 DEF Gentle

(* What a worker goes on with, when it does not disconnect anybody.        *)
LEMMA GoesGently ==
    ASSUME NEW c \in AiServers, AiInv(c), NEW w \in c.workers, HandlerFresh(c, w),
           task[w].todo # <<>>, NEW more \in Seq(NoFree(c)),
           more \in Seq(AiInstr(c, task[w].id)), Ai(c)!Go(w, more)
    PROVE  /\ task'[w].op = task[w].op /\ task'[w].id = task[w].id
           /\ task'[w].todo \in Seq(Frees(c, w))
           /\ \A u \in c.workers : u # w => task'[u] = task[u]
<1> DEFINE R == Tail(task[w].todo)
<1>1. R \in Seq(Frees(c, w))
  BY DEF HandlerFresh
<1>2. more \in Seq(Frees(c, w))
  BY NoFreeFrees, SeqGrows
<1>3. /\ task'[w].op = task[w].op /\ task'[w].id = task[w].id
      /\ task'[w].todo = more \o R
      /\ \A u \in c.workers : u # w => task'[u] = task[u]
  BY AiGoes
<1> HIDE DEF R
<1>4. more \o R \in Seq(Frees(c, w))
  BY <1>1, <1>2, Joined
<1> QED
  BY <1>3, <1>4

LEMMA GreetNoFree ==
    ASSUME NEW c \in AiServers, NEW p \in Ai(c)!Objects, NEW o \in Ai(c)!Objects
    PROVE  Ai(c)!GreetProgram(p, o) \in Seq(NoFree(c))
<1> DEFINE A == << <<"insert", p, o>>, <<"add", p, o>> >>
           B == IF o \in Ai(c)!Npcs THEN << <<"wake", o, o>> >>
                ELSE << <<"insert", o, p>>, <<"add", o, p>> >>
           U == << <<"unlock", o, o>> >>
           S == NoFree(c)
<1>1. A \in Seq(S) /\ B \in Seq(S) /\ U \in Seq(S)
  <2>1. /\ <<"insert", p, o>> \in S /\ <<"add", p, o>> \in S
        /\ <<"insert", o, p>> \in S /\ <<"add", o, p>> \in S
        /\ <<"wake", o, o>> \in S /\ <<"unlock", o, o>> \in S
    BY DEF NoFree, Triples, AiOps
  <2> HIDE DEF S
  <2> QED
    BY <2>1
<1>2. Ai(c)!GreetProgram(p, o) = (A \o B) \o U
  BY DEF Ai!GreetProgram
<1> HIDE DEF A, B, U, S
<1>3. A \o B \in Seq(S)
  BY <1>1, Joined
<1> DEFINE G == A \o B
<1>4. G \in Seq(S)
  BY <1>3
<1> HIDE DEF G
<1>5. G \o U \in Seq(S)
  BY <1>1, <1>4, Joined
<1> QED
  BY <1>2, <1>5 DEF G, S

LEMMA QuietNoFree ==
    ASSUME NEW c, NEW a
    PROVE  Quiet(c, a) \subseteq NoFree(c)
  BY DEF Quiet, AiInstr, NoFree, Triples

(* The handlers' steps but the looks, the ends, and the disconnects.       *)
LEMMA WorkGoes ==
    ASSUME NEW c \in AiServers, AiInv(c), NEW w \in c.workers,
           \/ Ai(c)!Place(w) \/ Ai(c)!Enter(w) \/ Ai(c)!Visit(w) \/ Ai(c)!Unlock(w)
           \/ Ai(c)!Sort(w) \/ Ai(c)!Insert(w) \/ Ai(c)!Erase(w) \/ Ai(c)!Meet(w)
           \/ Ai(c)!Part(w) \/ Ai(c)!Wake(w) \/ Ai(c)!Deliver(w) \/ Ai(c)!Tell(w)
    PROVE  /\ task[w].todo # <<>>
           /\ \E more \in Seq(NoFree(c)) :
                more \in Seq(AiInstr(c, task[w].id)) /\ Ai(c)!Go(w, more)
<1> DEFINE f == Ai(c)!First(w)
           s == Ai(c)!Second(w)
           a == task[w].id
<1>1. task[w].todo # <<>>
  BY DEF Ai!Place, Ai!Enter, Ai!Visit, Ai!Unlock, Ai!Sort, Ai!Insert, Ai!Erase, Ai!Meet,
         Ai!Part, Ai!Wake, Ai!Deliver, Ai!Tell, Ai!At
<1>2. \A op : Ai(c)!At(w, op) => <<op, f, s>> \in AiInstr(c, a)
  BY <1>1, AiHand
<1>3. f \in Ai(c)!Objects /\ s \in Ai(c)!Objects
  BY <1>1, AiNow
<1>4. <<>> \in Seq(NoFree(c)) /\ <<>> \in Seq(AiInstr(c, a))
  OBVIOUS
<1>5. CASE Ai(c)!Go(w, <<>>)
  BY <1>1, <1>4, <1>5
<1>6. CASE Ai(c)!Sort(w)
  <2>1. PICK more \in Seq(Quiet(c, a)) : Ai(c)!Go(w, more)
    BY <1>6, Sorts
  <2> HIDE DEF a
  <2>2. more \in Seq(NoFree(c)) /\ more \in Seq(AiInstr(c, a))
    BY QuietNoFree, QuietSeq, SeqGrows
  <2> QED
    BY <1>1, <2>1, <2>2 DEF a
<1>7. ASSUME NEW kind \in {"move", "add", "remove"}, NEW op \in {"meet", "part"},
             Ai(c)!At(w, op), Ai(c)!Go(w, << <<kind, f, s>> >>)
      PROVE  \E more \in Seq(NoFree(c)) : more \in Seq(AiInstr(c, a)) /\ Ai(c)!Go(w, more)
  <2>1. <<kind, f, s>> \in NoFree(c)
    BY <1>3 DEF NoFree, Triples, AiOps
  <2>2. <<kind, f, s>> \in AiInstr(c, a)
    BY <1>2, <1>3, <1>7 DEF AiInstr, AiOps
  <2>3. << <<kind, f, s>> >> \in Seq(NoFree(c)) /\ << <<kind, f, s>> >> \in Seq(AiInstr(c, a))
    BY <2>1, <2>2
  <2> QED
    BY <1>7, <2>3
<1>8. ASSUME Ai(c)!Visit(w), state[s] = "INGAME", Ai(c)!Go(w, Ai(c)!GreetProgram(f, s))
      PROVE  \E more \in Seq(NoFree(c)) : more \in Seq(AiInstr(c, a)) /\ Ai(c)!Go(w, more)
  <2>1. s \in Seen(c)
    BY <1>3, <1>8, InGameSeen
  <2>2. f \in Ai(c)!Players /\ f \in Seen(c)
    BY <1>2, <1>8 DEF Ai!Visit, AiInstr
  <2>3. Ai(c)!GreetProgram(f, s) \in Seq(AiInstr(c, a))
    BY <1>3, <2>1, <2>2, GreetsSeen
  <2>4. Ai(c)!GreetProgram(f, s) \in Seq(NoFree(c))
    BY <1>3, GreetNoFree
  <2> QED
    BY <1>8, <2>3, <2>4
<1>9. ASSUME Ai(c)!Tell(w), state[f] = "INGAME",
             Ai(c)!Go(w, << <<"remove", f, s>>, <<"unlock", f, f>> >>)
      PROVE  \E more \in Seq(NoFree(c)) : more \in Seq(AiInstr(c, a)) /\ Ai(c)!Go(w, more)
  <2>1. f \in Seen(c) /\ f \in Ai(c)!Players
    BY <1>2, <1>3, <1>9, InGameSeen DEF Ai!Tell, AiInstr
  <2>2. /\ <<"remove", f, s>> \in NoFree(c) /\ <<"unlock", f, f>> \in NoFree(c)
        /\ <<"remove", f, s>> \in AiInstr(c, a) /\ <<"unlock", f, f>> \in AiInstr(c, a)
    BY <1>3, <2>1 DEF NoFree, Triples, AiOps, AiInstr
  <2> DEFINE more == << <<"remove", f, s>>, <<"unlock", f, f>> >>
  <2>3. more \in Seq(NoFree(c)) /\ more \in Seq(AiInstr(c, a))
    BY <2>2
  <2>4. Ai(c)!Go(w, more)
    BY <1>9
  <2> HIDE DEF more
  <2> QED
    BY <2>3, <2>4
<1>10. CASE Ai(c)!Visit(w)
  BY <1>1, <1>5, <1>8, <1>10 DEF Ai!Visit
<1>11. CASE Ai(c)!Tell(w)
  BY <1>1, <1>5, <1>9, <1>11 DEF Ai!Tell
<1>12. CASE Ai(c)!Meet(w)
  BY <1>1, <1>7, <1>12 DEF Ai!Meet
<1>13. CASE Ai(c)!Part(w)
  BY <1>1, <1>5, <1>7, <1>13 DEF Ai!Part
<1> QED
  BY SMTT(60), <1>5, <1>6, <1>10, <1>11, <1>12, <1>13
     DEF Ai!Place, Ai!Enter, Ai!Unlock, Ai!Insert, Ai!Erase, Ai!Wake, Ai!Deliver

(* A lock is taken on a slot in use only.                                  *)
LEMMA LocksTaken ==
    ASSUME NEW c \in AiServers, AiInv(c), Shapes(c), Gentle(c), NEW w \in c.workers,
           Ai(c)!Place(w) \/ Ai(c)!Visit(w) \/ Ai(c)!Unlock(w) \/ Ai(c)!Tell(w)
    PROVE  LocksKeep(c)'
<1> DEFINE f == Ai(c)!First(w)
           s == Ai(c)!Second(w)
<1>1. /\ task[w].todo # <<>> /\ UNCHANGED state
      /\ slock \in [Ai(c)!Objects -> c.workers \cup {0}]
  BY DEF Ai!Place, Ai!Visit, Ai!Unlock, Ai!Tell, Ai!At, AiInv, AiType
<1>2. f \in Ai(c)!Objects /\ s \in Ai(c)!Objects /\ Ai(c)!Players \subseteq Ai(c)!Objects
  BY <1>1, AiNow, Sizes
<1>3. ASSUME NEW o \in Ai(c)!Objects, NEW v, slock' = [slock EXCEPT ![o] = v],
             v = 0 \/ state[o] # "FREE"
      PROVE  LocksKeep(c)'
  BY <1>1, <1>2, <1>3 DEF Gentle, LocksKeep
<1>4. CASE Ai(c)!Place(w)
  <2>1. f = task[w].id /\ task[w].op = "login"
    BY <1>4, ShapeHand DEF Shapes, AiOps, LockOps, Ai!Place
  <2>2. state[f] # "FREE"
    BY <2>1 DEF Gentle, HandlerFresh
  <2> QED
    BY <1>2, <1>3, <1>4, <2>2 DEF Ai!Place
<1>5. CASE Ai(c)!Visit(w)
  <2>1. CASE UNCHANGED slock
    BY <1>1, <2>1 DEF Gentle, LocksKeep
  <2>2. CASE slock' = [slock EXCEPT ![s] = w] /\ state[s] = "INGAME"
    BY <1>2, <1>3, <2>2
  <2> QED
    BY <1>5, <2>1, <2>2 DEF Ai!Visit
<1>6. CASE Ai(c)!Unlock(w)
  BY <1>2, <1>3, <1>6 DEF Ai!Unlock
<1>7. CASE Ai(c)!Tell(w)
  <2>1. CASE UNCHANGED slock
    BY <1>1, <2>1 DEF Gentle, LocksKeep
  <2>2. CASE slock' = [slock EXCEPT ![f] = w] /\ state[f] = "INGAME"
    BY <1>2, <1>3, <2>2
  <2> QED
    BY <1>7, <2>1, <2>2 DEF Ai!Tell
<1> QED
  BY <1>4, <1>5, <1>6, <1>7

LEMMA GentleGoes ==
    ASSUME NEW c \in AiServers, AiInv(c), Shapes(c), Gentle(c), NEW w \in c.workers,
           AllCalm(c)',
           \/ Ai(c)!Place(w) \/ Ai(c)!Visit(w) \/ Ai(c)!Unlock(w)
           \/ Ai(c)!Sort(w) \/ Ai(c)!Insert(w) \/ Ai(c)!Erase(w) \/ Ai(c)!Meet(w)
           \/ Ai(c)!Part(w) \/ Ai(c)!Wake(w) \/ Ai(c)!Deliver(w) \/ Ai(c)!Tell(w)
    PROVE  Gentle(c)'
<1>1. PICK more \in Seq(NoFree(c)) :
         more \in Seq(AiInstr(c, task[w].id)) /\ Ai(c)!Go(w, more)
  BY WorkGoes
<1>2. task[w].todo # <<>>
  BY WorkGoes
<1>3. HandlerFresh(c, w)
  BY DEF Gentle
<1>4. /\ task'[w].op = task[w].op /\ task'[w].id = task[w].id
      /\ task'[w].todo \in Seq(Frees(c, w))
      /\ \A u \in c.workers : u # w => task'[u] = task[u]
  BY <1>1, <1>2, <1>3, GoesGently
<1>5. UNCHANGED <<state, aborted>>
  BY DEF Ai!Place, Ai!Visit, Ai!Unlock, Ai!Sort, Ai!Insert, Ai!Erase, Ai!Meet, Ai!Part,
         Ai!Wake, Ai!Deliver, Ai!Tell, Ai!faults
<1>6. UNCHANGED slock \/ Ai(c)!Place(w) \/ Ai(c)!Visit(w) \/ Ai(c)!Unlock(w) \/ Ai(c)!Tell(w)
  BY DEF Ai!Sort, Ai!Insert, Ai!Erase, Ai!Meet, Ai!Part, Ai!Wake, Ai!Deliver
<1>7. LocksKeep(c)'
  <2>1. CASE UNCHANGED slock
    BY <1>5, <2>1 DEF Gentle, LocksKeep
  <2> QED
    BY <1>6, <2>1, LocksTaken
<1> QED
  BY <1>4, <1>5, <1>7, GentleStays DEF SameFree

LEMMA GentleLooks ==
    ASSUME NEW c \in AiServers, AiInv(c), Gentle(c), NEW w \in c.workers, AllCalm(c)',
           Ai(c)!Step(w) \/ Ai(c)!Copy(w) \/ Ai(c)!Look(w)
    PROVE  Gentle(c)'
<1>1. /\ task[w].todo # <<>>
      /\ task'[w].todo = Tail(task[w].todo)
      /\ task'[w].op = task[w].op /\ task'[w].id = task[w].id
      /\ \A u \in c.workers : u # w => task'[u] = task[u]
  <2>1. task \in [c.workers -> AiHandlers(c)]
    BY DEF AiInv, AiType
  <2>2. CASE Ai(c)!Step(w)
    BY <2>1, <2>2 DEF Ai!Step, Ai!At, AiHandlers
  <2>3. CASE Ai(c)!Copy(w)
    BY <2>1, <2>3 DEF Ai!Copy, Ai!At, AiHandlers
  <2>4. CASE Ai(c)!Look(w)
    <3>1. PICK new : task' = [task EXCEPT ![w].todo = Tail(@), ![w].new = new]
      BY <2>4 DEF Ai!Look
    <3> QED
      BY <2>1, <2>4, <3>1 DEF Ai!Look, Ai!At, AiHandlers
  <2> QED
    BY <2>2, <2>3, <2>4
<1>2. UNCHANGED <<state, aborted, slock>>
  BY DEF Ai!Step, Ai!Copy, Ai!Look, Ai!faults
<1>3. task'[w].todo \in Seq(Frees(c, w))
  BY <1>1 DEF Gentle, HandlerFresh
<1>4. LocksKeep(c)'
  BY <1>2 DEF Gentle, LocksKeep
<1> QED
  BY <1>1, <1>2, <1>3, <1>4, GentleStays DEF SameFree

(* A send fails only on a slot that is free already.                       *)
LEMMA FailsOnFree ==
    ASSUME NEW c \in AiServers, AiInv(c), Gentle(c), Fresh(c)', NEW w \in c.workers,
           Ai(c)!SendFails(w)
    PROVE  /\ state[Ai(c)!First(w)] = "FREE" /\ Ai(c)!First(w) \in Ai(c)!Players
           /\ Ai(c)!First(w) \notin AiHeld(c, w)
<1> DEFINE f == Ai(c)!First(w)
<1>1. state[f] = "FREE"
  <2>1. failed \in Nat /\ failed' = 0
    BY DEF AiInv, AiType, Fresh
  <2>2. failed' = IF state[f] = "FREE" THEN failed ELSE failed + 1
    BY DEF Ai!SendFails
  <2> QED
    BY <2>1, <2>2
<1>2. f \in Ai(c)!Players
  <2>1. PICK op \in Ai(c)!Sends : Ai(c)!At(w, op)
    BY DEF Ai!SendFails
  <2>2. <<op, f, Ai(c)!Second(w)>> \in AiInstr(c, task[w].id)
    BY <2>1, AiHand DEF Ai!At
  <2> QED
    BY <2>1, <2>2 DEF Ai!Sends, AiInstr
<1>3. f \notin AiHeld(c, w)
  BY <1>1, <1>2, Sizes DEF Gentle, LocksKeep, AiHeld
<1> QED
  BY <1>1, <1>2, <1>3

LEMMA GentleSendFails ==
    ASSUME NEW c \in AiServers, AiInv(c), Gentle(c), Fresh(c)', NEW w \in c.workers,
           AllCalm(c)', Ai(c)!SendFails(w)
    PROVE  Gentle(c)'
<1> DEFINE f == Ai(c)!First(w)
           d == <<"free", f, f>>
           R == Tail(task[w].todo)
<1>1. state[f] = "FREE" /\ f \in Ai(c)!Players /\ f \in Ai(c)!Objects
  BY FailsOnFree, Sizes
<1>2. /\ task[w].todo # <<>> /\ Ai(c)!Go(w, <<d>>) /\ UNCHANGED <<state, aborted, slock>>
  BY DEF Ai!SendFails, Ai!DisconnectProgram, Ai!At
<1>3. d \in AiInstr(c, task[w].id)
  <2>1. PICK op \in Ai(c)!Sends : Ai(c)!At(w, op)
    BY DEF Ai!SendFails
  <2>2. <<op, f, Ai(c)!Second(w)>> \in AiInstr(c, task[w].id)
    BY <1>2, <2>1, AiHand
  <2> QED
    BY <1>1, <2>1, <2>2 DEF Ai!Sends, AiInstr, AiOps
<1>4. d \in Frees(c, w)
  BY <1>1 DEF Frees, Triples, AiOps
<1>5. R \in Seq(Frees(c, w))
  BY <1>2 DEF Gentle, HandlerFresh
<1> HIDE DEF d, R, f
<1>6. <<d>> \in Seq(AiInstr(c, task[w].id))
  BY <1>3
<1>7. /\ task'[w].todo = <<d>> \o R
      /\ task'[w].op = task[w].op /\ task'[w].id = task[w].id
      /\ \A u \in c.workers : u # w => task'[u] = task[u]
  BY <1>2, <1>6, AiGoes DEF R
<1>8. <<d>> \o R \in Seq(Frees(c, w))
  BY <1>4, <1>5, Cons
<1>9. LocksKeep(c)'
  BY <1>2 DEF Gentle, LocksKeep
<1> QED
  BY <1>2, <1>7, <1>8, <1>9, GentleStays DEF SameFree

LEMMA GentleEnter ==
    ASSUME NEW c \in AiServers, AiInv(c), Shapes(c), Gentle(c), NEW w \in c.workers,
           AllCalm(c)', Ai(c)!Enter(w)
    PROVE  Gentle(c)'
<1> DEFINE f == Ai(c)!First(w)
<1>1. PICK more \in Seq(NoFree(c)) :
         more \in Seq(AiInstr(c, task[w].id)) /\ Ai(c)!Go(w, more)
  BY WorkGoes
<1>2. task[w].todo # <<>> /\ HandlerFresh(c, w)
  BY WorkGoes DEF Gentle
<1>3. /\ task'[w].op = task[w].op /\ task'[w].id = task[w].id
      /\ task'[w].todo \in Seq(Frees(c, w))
      /\ \A u \in c.workers : u # w => task'[u] = task[u]
  BY <1>1, <1>2, GoesGently
<1>4. /\ state' = [state EXCEPT ![f] = "INGAME"] /\ UNCHANGED <<slock, aborted>>
      /\ Ai(c)!At(w, "enter")
  BY DEF Ai!Enter, Ai!faults
<1>5. state[f] # "FREE" /\ f \in Ai(c)!Objects
  <2>1. f \in AiHeld(c, w)
    BY <1>4, ShapeHand DEF Shapes, AiOps, LockOps
  <2>2. f \in Ai(c)!Players
    BY <1>2, <1>4, AiHand DEF AiInstr
  <2> QED
    BY <2>1, <2>2, Sizes DEF AiHeld, Gentle, LocksKeep
<1>6. SameFree(c)
  BY <1>4, <1>5 DEF SameFree, AiInv, AiType
<1>7. LocksKeep(c)'
  BY <1>4, <1>6, Sizes DEF Gentle, LocksKeep, SameFree
<1> QED
  BY <1>3, <1>4, <1>6, <1>7, GentleStays

LEMMA GentleFree ==
    ASSUME NEW c \in AiServers, AiInv(c), Fresh(c), Gentle(c), NEW w \in c.workers,
           AllCalm(c)', Ai(c)!Free(w)
    PROVE  Gentle(c)'
<1> DEFINE p == Ai(c)!First(w)
           tells == [q \in Ai(c)!Players |-> <<"tell", q, p>>]
           more == IF state[p] = "FREE" THEN <<>> ELSE tells
           a == task[w].id
<1>1. /\ task[w].todo # <<>> /\ Ai(c)!At(w, "free") /\ slock[p] = 0 /\ UNCHANGED slock
      /\ Ai(c)!Go(w, more) /\ state' = [state EXCEPT ![p] = "FREE"]
      /\ aborted' = IF state[p] = "FREE" \/ Ai(c)!Busy(p) THEN aborted
                    ELSE [aborted EXCEPT ![p] = @ + 1]
  BY DEF Ai!Free, Ai!At
<1>2. p \in Ai(c)!Players /\ p \in Seen(c) /\ p \in Ai(c)!Objects
  <2>1. <<"free", p, Ai(c)!Second(w)>> \in AiInstr(c, a) /\ p \in Ai(c)!Objects
    BY <1>1, AiHand
  <2> QED
    BY <2>1 DEF AiInstr
<1>3. more \in Seq(Quiet(c, a))
  <2>1. tells \in Seq(Quiet(c, a))
    BY <1>2, TellsAll
  <2> HIDE DEF tells, a, p
  <2>2. <<>> \in Seq(Quiet(c, a))
    OBVIOUS
  <2> QED
    BY <2>1, <2>2
<1> HIDE DEF more, a, tells
<1>4. more \in Seq(AiInstr(c, a)) /\ more \in Seq(NoFree(c))
  BY <1>3, QuietSeq, QuietNoFree, SeqGrows
<1>5. HandlerFresh(c, w)
  BY DEF Gentle
<1>6. /\ task'[w].op = task[w].op /\ task'[w].id = task[w].id
      /\ task'[w].todo \in Seq(Frees(c, w))
      /\ \A u \in c.workers : u # w => task'[u] = task[u]
  BY <1>1, <1>4, <1>5, GoesGently DEF a
<1>7. \/ state[p] = "FREE"
      \/ task[w].op = "quit" /\ task[w].id = p
  BY <1>1, <1>5, FreeHand
<1>8. UNCHANGED aborted
  <2>1. CASE task[w].op = "quit" /\ task[w].id = p
    <3>1. Ai(c)!Busy(p)
      BY <1>2, <2>1, FreshBusy DEF OfClient
    <3> QED
      BY <1>1, <3>1
  <2> QED
    BY <1>1, <1>7, <2>1
<1>9. \A u \in c.workers : task'[u].op = task[u].op /\ task'[u].id = task[u].id
                             /\ task'[u].todo \in Seq(Frees(c, u))
  BY <1>6 DEF Gentle, HandlerFresh
<1>10. state \in [Ai(c)!Objects -> {"FREE", "CONNECTED", "INGAME"}]
  BY DEF AiInv, AiType
<1> HIDE DEF p
<1>11. \A o \in Ai(c)!Objects : state'[o] = IF o = p THEN "FREE" ELSE state[o]
  BY <1>1, <1>10
<1>12. ASSUME NEW u \in c.workers PROVE HandlerFresh(c, u)'
  <2>1. Frees(c, u) \subseteq Frees(c, u)'
    BY <1>9, <1>11 DEF Frees, Triples
  <2>2. task'[u].todo \in Seq(Frees(c, u)')
    BY <1>9, <2>1, SeqGrows
  <2>3. task[u].op = "login" => task[u].id \in Ai(c)!Objects /\ state[task[u].id] # "FREE"
    BY Sizes DEF AiInv, HandlerSeen, OfClient, Gentle, HandlerFresh
  <2>4. task[u].op = "login" => task[u].id # p
    BY <1>7, <2>3 DEF Gentle, OnePerClient, OfClient
  <2> QED
    BY <1>9, <1>11, <2>2, <2>3, <2>4 DEF Gentle, HandlerFresh
<1>13. OnePerClient(c)'
  BY <1>9 DEF Gentle, OnePerClient
<1>14. LocksKeep(c)'
  BY <1>1, <1>11, Sizes DEF Gentle, LocksKeep
<1> QED
  BY <1>8, <1>12, <1>13, <1>14 DEF Gentle

LEMMA GentleFinish ==
    ASSUME NEW c \in AiServers, AiInv(c), Gentle(c), NEW w \in c.workers, AllCalm(c)',
           Ai(c)!Finish(w)
    PROVE  Gentle(c)'
<1>1. UNCHANGED <<state, slock, aborted>> /\ task' = [task EXCEPT ![w] = Ai(c)!Idle]
  BY DEF Ai!Finish, Ai!faults
<1>2. /\ task'[w].todo = <<>> /\ task'[w].op = "idle"
      /\ \A u \in c.workers : u # w => task'[u] = task[u]
  BY <1>1 DEF AiInv, AiType, Ai!Idle
<1>3. LocksKeep(c)'
  BY <1>1 DEF Gentle, LocksKeep
<1>4. OnePerClient(c)'
  BY <1>2 DEF Gentle, OnePerClient, OfClient
<1>5. ASSUME NEW u \in c.workers, u # w PROVE HandlerFresh(c, u)'
  <2>1. task'[u] = task[u] /\ Frees(c, u)' = Frees(c, u)
    BY <1>1, <1>2, <1>5 DEF Frees, Triples
  <2> QED
    BY <1>1, <2>1 DEF Gentle, HandlerFresh
<1>6. HandlerFresh(c, w)'
  BY <1>2 DEF HandlerFresh
<1> QED
  BY <1>1, <1>3, <1>4, <1>5, <1>6 DEF Gentle

LEMMA SeqBoth ==
    ASSUME NEW A, NEW B, NEW S, A \cap B \subseteq S, NEW T \in Seq(A), T \in Seq(B)
    PROVE  T \in Seq(S)
<1>1. \A i \in 1..Len(T) : T[i] \in A /\ T[i] \in B
  BY ElementOfSeq
<1>2. T \in [1..Len(T) -> S] /\ Len(T) \in Nat
  BY <1>1, SeqDef
<1> QED
  BY <1>2, EachSeq

LEMMA LoginNoFree ==
    ASSUME NEW c \in AiServers, NEW p \in Ai(c)!Players
    PROVE  Ai(c)!LoginProgram(p) \in Seq(NoFree(c))
<1> DEFINE S == NoFree(c)
           A == << <<"place", p, p>>, <<"ok", p, p>>, <<"enter", p, p>> >>
           V == [i \in 1..(c.users - 1) |-> <<"visit", p, Ai(c)!Others(p)[i]>>]
           X == << <<"unlock", p, p>>, <<"done", p, p>> >>
<1>1. p \in Ai(c)!Objects
  BY Sizes
<1>2. A \in Seq(S) /\ X \in Seq(S)
  <2>1. /\ <<"place", p, p>> \in S /\ <<"ok", p, p>> \in S /\ <<"enter", p, p>> \in S
        /\ <<"unlock", p, p>> \in S /\ <<"done", p, p>> \in S
    BY <1>1 DEF NoFree, Triples, AiOps
  <2> HIDE DEF S
  <2> QED
    BY <2>1
<1>3. V \in Seq(S)
  <2>1. c.users - 1 \in Nat
    BY <1>1, Sizes
  <2>2. ASSUME NEW i \in 1..(c.users - 1)
        PROVE  <<"visit", p, Ai(c)!Others(p)[i]>> \in S
    <3>1. Ai(c)!Others(p)[i] \in Ai(c)!Objects \ {p}
      BY <1>1, AiOthers
    <3> QED
      BY <1>1, <3>1 DEF NoFree, Triples, AiOps
  <2>3. V \in [1..(c.users - 1) -> S]
    BY <2>2
  <2> HIDE DEF V, S
  <2> QED
    BY <2>1, <2>3, EachSeq
<1>4. Ai(c)!LoginProgram(p) = (A \o V) \o X
  BY DEF Ai!LoginProgram
<1> HIDE DEF A, V, X, S
<1> DEFINE G == A \o V
<1>5. G \in Seq(S)
  BY <1>2, <1>3, Joined
<1> HIDE DEF G
<1>6. G \o X \in Seq(S)
  BY <1>2, <1>5, Joined
<1> QED
  BY <1>4, <1>6 DEF G, S

(* A worker that begins a handler of a.                                    *)
LEMMA GentleBegins ==
    ASSUME NEW c \in AiServers, AiInv(c), Fresh(c), Gentle(c), NEW w \in c.workers,
           AllCalm(c)', UNCHANGED <<state, slock, aborted>>,
           NEW op, op # "abort", NEW a, NEW todo, Ai(c)!Begin(w, op, a, todo),
           op \in OfClient => a \in Ai(c)!Players /\ ~ Ai(c)!Busy(a) /\ state[a] # "FREE",
           \/ todo \in Seq(NoFree(c))
           \/ todo \in Seq(NoFree(c) \cup {<<"free", a, a>>}) /\ op = "quit"
    PROVE  Gentle(c)'
<1>1. /\ task'[w].op = op /\ task'[w].id = a /\ task'[w].todo = todo
      /\ \A u \in c.workers : u # w => task'[u] = task[u]
  BY BeginsWith
<1>2. LocksKeep(c)'
  BY DEF Gentle, LocksKeep
<1>3. \A u \in c.workers : task[u].op \in OfClient /\ op \in OfClient => task[u].id # a
  BY FreshBusy
<1>4. OnePerClient(c)'
  BY <1>1, <1>3 DEF Gentle, OnePerClient
<1>5. ASSUME NEW u \in c.workers, u # w PROVE HandlerFresh(c, u)'
  <2>1. task'[u] = task[u] /\ Frees(c, u)' = Frees(c, u)
    BY <1>1, <1>5 DEF Frees, Triples
  <2> QED
    BY <2>1 DEF Gentle, HandlerFresh
<1>6. HandlerFresh(c, w)'
  <2>1. NoFree(c) \subseteq Frees(c, w)'
    BY DEF NoFree, Frees, Triples
  <2>2. op = "quit" => NoFree(c) \cup {<<"free", a, a>>} \subseteq Frees(c, w)'
    <3> SUFFICES ASSUME op = "quit" PROVE <<"free", a, a>> \in Frees(c, w)'
      BY <2>1
    <3>1. a \in Ai(c)!Objects
      BY Sizes DEF OfClient
    <3> QED
      BY <1>1, <3>1 DEF Frees, Triples, AiOps
  <2>3. todo \in Seq(Frees(c, w)')
    BY <2>1, <2>2, SeqGrows
  <2>4. op = "login" => state'[a] # "FREE"
    BY DEF OfClient
  <2> QED
    BY <1>1, <2>3, <2>4 DEF HandlerFresh
<1> QED
  BY <1>2, <1>4, <1>5, <1>6 DEF Gentle

LEMMA GentleStarts ==
    ASSUME NEW c \in AiServers, AiInv(c), Fresh(c), Gentle(c), NEW w \in c.workers,
           AllCalm(c)', NEW a \in Ai(c)!Objects,
           \/ /\ a \in Ai(c)!Players
              /\ Ai(c)!Login(w, a) \/ Ai(c)!Move(w, a) \/ Ai(c)!Quit(w, a) \/ Ai(c)!Abort(w, a)
           \/ a \in Ai(c)!Npcs /\ Ai(c)!NpcTurn(w, a)
    PROVE  Gentle(c)'
<1>1. ~ (a \in Ai(c)!Players /\ Ai(c)!Abort(w, a))
  BY DEF Ai!Abort, Gentle
<1>2. UNCHANGED <<state, slock, aborted>>
  BY <1>1 DEF Ai!Login, Ai!Move, Ai!Quit, Ai!NpcTurn, Ai!faults
<1>3. CASE a \in Ai(c)!Players /\ Ai(c)!Login(w, a)
  <2>1. /\ Ai(c)!Begin(w, "login", a, Ai(c)!LoginProgram(a))
        /\ ~ Ai(c)!Busy(a) /\ state[a] # "FREE"
    BY <1>3 DEF Ai!Login
  <2>2. Ai(c)!LoginProgram(a) \in Seq(NoFree(c))
    BY <1>3, LoginNoFree
  <2> QED
    BY <1>2, <1>3, <2>1, <2>2, GentleBegins DEF OfClient
<1>4. CASE a \in Ai(c)!Players /\ Ai(c)!Move(w, a)
  <2>1. /\ Ai(c)!Begin(w, "move", a, Ai(c)!MoveProgram(a))
        /\ ~ Ai(c)!Busy(a) /\ state[a] # "FREE" /\ state[a] = "INGAME"
    BY <1>4 DEF Ai!Move
  <2>2. Ai(c)!MoveProgram(a) \in Seq(NoFree(c))
    <3>1. a \in Seen(c)
      BY <2>1, InGameSeen
    <3> QED
      BY <1>4, <3>1, MovePrograms, QuietNoFree, SeqGrows
  <2> QED
    BY <1>2, <1>4, <2>1, <2>2, GentleBegins DEF OfClient
<1>5. CASE a \in Ai(c)!Players /\ Ai(c)!Quit(w, a)
  <2>1. PICK error \in BOOLEAN :
           Ai(c)!Begin(w, "quit", a, (IF error THEN Ai(c)!DisconnectProgram(a) ELSE <<>>)
               \o Ai(c)!DisconnectProgram(a) \o << <<"done", a, a>> >>)
    BY <1>5 DEF Ai!Quit
  <2> DEFINE todo == (IF error THEN Ai(c)!DisconnectProgram(a) ELSE <<>>)
               \o Ai(c)!DisconnectProgram(a) \o << <<"done", a, a>> >>
  <2>2. ~ Ai(c)!Busy(a) /\ state[a] # "FREE"
    BY <1>5 DEF Ai!Quit
  <2>3. a \in Seen(c)
    BY <1>5, <2>2 DEF AiInv, SlotsSeen, Seen
  <2>4. todo \in Seq(Leave(c, a))
    BY <1>5, <2>3, Disconnects
  <2> HIDE DEF todo
  <2>5. todo \in Seq(NoFree(c) \cup {<<"free", a, a>>})
    <3>1. Leave(c, a) \subseteq NoFree(c) \cup {<<"free", a, a>>}
      BY QuietNoFree DEF Leave
    <3> QED
      BY <2>4, <3>1, SeqGrows
  <2>6. Ai(c)!Begin(w, "quit", a, todo)
    BY <2>1 DEF todo
  <2> QED
    BY <1>2, <1>5, <2>2, <2>5, <2>6, GentleBegins
<1>6. CASE a \in Ai(c)!Npcs /\ Ai(c)!NpcTurn(w, a)
  <2>1. Ai(c)!Begin(w, "npc", a, Ai(c)!NpcProgram(a))
    BY <1>6 DEF Ai!NpcTurn
  <2>2. Ai(c)!NpcProgram(a) \in Seq(NoFree(c))
    BY <1>6, NpcPrograms, QuietNoFree, SeqGrows
  <2> QED
    BY <1>2, <2>1, <2>2, GentleBegins DEF OfClient
<1> QED
  BY <1>1, <1>3, <1>4, <1>5, <1>6

LEMMA GentleAccept ==
    ASSUME NEW c \in AiServers, AiInv(c), Fresh(c)', Gentle(c), NEW w \in c.workers,
           AllCalm(c)', NEW p \in Ai(c)!Players, Ai(c)!Accept(w, p)
    PROVE  Gentle(c)'
<1>1. /\ state[p] = "FREE" /\ state' = [state EXCEPT ![p] = "CONNECTED"]
      /\ lives' = [lives EXCEPT ![p] = @ + 1] /\ UNCHANGED <<slock, aborted, task>>
  BY DEF Ai!Accept
<1>2. p \in Ai(c)!Objects /\ state \in [Ai(c)!Objects -> {"FREE", "CONNECTED", "INGAME"}]
      /\ lives \in [Ai(c)!Players -> Nat]
  BY Sizes DEF AiInv, AiType
<1>3. p \notin Seen(c)
  <2>1. lives'[p] = lives[p] + 1 /\ lives'[p] <= 1 /\ lives[p] \in Nat
    BY <1>1, <1>2 DEF Fresh
  <2>2. ~ (lives[p] >= 1)
    BY <2>1
  <2> QED
    BY <2>2 DEF Seen
<1>4. \A o \in Ai(c)!Objects : state'[o] = IF o = p THEN "CONNECTED" ELSE state[o]
  BY <1>1, <1>2
<1>5. ASSUME NEW u \in c.workers PROVE HandlerFresh(c, u)'
  <2>1. HandlerFresh(c, u) /\ task[u].todo \in Seq(AiInstr(c, task[u].id))
    BY DEF Gentle, AiInv, HandlerSeen
  <2>2. AiInstr(c, task[u].id) \cap Frees(c, u) \subseteq Frees(c, u)'
    BY <1>1, <1>3, <1>4 DEF AiInstr, Frees, Triples
  <2>3. task[u].todo \in Seq(Frees(c, u)')
    <3>1. task[u].todo \in Seq(Frees(c, u))
      BY <2>1 DEF HandlerFresh
    <3> QED
      BY <2>1, <2>2, <3>1, SeqBoth
  <2>4. task[u].op = "login" => task[u].id \in Ai(c)!Objects
    BY Sizes DEF AiInv, HandlerSeen, OfClient
  <2> QED
    BY <1>1, <1>4, <2>1, <2>3, <2>4 DEF HandlerFresh
<1>6. OnePerClient(c)'
  BY <1>1 DEF Gentle, OnePerClient
<1>7. LocksKeep(c)'
  BY <1>1, <1>4, Sizes DEF Gentle, LocksKeep
<1> QED
  BY <1>1, <1>5, <1>6, <1>7 DEF Gentle

FreshInv(c) == Fresh(c) => Gentle(c)

LEMMA StaysFresh ==
    ASSUME NEW c \in AiServers, AiInv(c), Fresh(c)', [Ai(c)!Next]_(Ai(c)!vars)
    PROVE  Fresh(c)
<1>1. failed \in Nat /\ lives \in [Ai(c)!Players -> Nat]
  BY DEF AiInv, AiType
<1>2. CASE UNCHANGED <<failed, lives>>
  BY <1>2 DEF Fresh
<1>3. ASSUME NEW w \in c.workers, Ai(c)!SendFails(w) PROVE Fresh(c)
  <2>1. UNCHANGED lives /\ (failed' = failed \/ failed' = failed + 1)
    BY <1>3 DEF Ai!SendFails
  <2>2. failed = 0
    BY <1>1, <2>1 DEF Fresh
  <2> QED
    BY <2>1, <2>2 DEF Fresh
<1>4. ASSUME NEW w \in c.workers, NEW p \in Ai(c)!Players, Ai(c)!Accept(w, p) PROVE Fresh(c)
  <2>1. lives' = [lives EXCEPT ![p] = @ + 1] /\ UNCHANGED failed
    BY <1>4 DEF Ai!Accept
  <2>2. ASSUME NEW q \in Ai(c)!Players PROVE lives[q] <= 1
    <3>1. lives'[q] = (IF q = p THEN lives[q] + 1 ELSE lives[q]) /\ lives'[q] <= 1
          /\ lives[q] \in Nat
      BY SMTT(60), <1>1, <2>1 DEF Fresh
    <3> QED
      BY <3>1
  <2> QED
    BY <2>1, <2>2 DEF Fresh
<1>5. ASSUME NEW w \in c.workers, Ai(c)!Work(w), ~ Ai(c)!SendFails(w)
      PROVE  UNCHANGED <<failed, lives>>
  BY <1>5 DEF Ai!Work, Ai!Place, Ai!Enter, Ai!Visit, Ai!Unlock, Ai!Step, Ai!Copy, Ai!Look,
              Ai!Sort, Ai!Insert, Ai!Erase, Ai!Meet, Ai!Part, Ai!Wake, Ai!Deliver, Ai!Free,
              Ai!Tell, Ai!Finish, Ai!faults
<1>6. ASSUME NEW w \in c.workers, Ai(c)!Start(w),
             \A p \in Ai(c)!Players : ~ Ai(c)!Accept(w, p)
      PROVE  UNCHANGED <<failed, lives>>
  BY <1>6 DEF Ai!Start, Ai!Login, Ai!Move, Ai!Quit, Ai!Abort, Ai!NpcTurn, Ai!faults
<1>7. CASE UNCHANGED Ai(c)!vars
  BY <1>2, <1>7 DEF Ai!vars
<1> QED
  BY <1>2, <1>3, <1>4, <1>5, <1>6, <1>7 DEF Ai!Next

LEMMA FreshSteps ==
    ASSUME NEW c \in AiServers, AiInv(c), Shapes(c), FreshInv(c), [Ai(c)!Next]_(Ai(c)!vars)
    PROVE  FreshInv(c)'
<1> SUFFICES ASSUME Fresh(c)' PROVE Gentle(c)'
  BY DEF FreshInv
<1>1. Fresh(c) /\ Gentle(c)
  BY StaysFresh DEF FreshInv
<1>2. AllCalm(c)'
  <2>1. AllCalm(c)
    BY <1>1 DEF Gentle
  <2> QED
    BY <1>1, <2>1, ShapesSteps, FailsOnFree
<1>3. ASSUME NEW w \in c.workers, Ai(c)!Work(w) PROVE Gentle(c)'
  BY <1>1, <1>2, <1>3, GentleGoes, GentleLooks, GentleSendFails, GentleEnter, GentleFree,
     GentleFinish DEF Ai!Work
<1>4. ASSUME NEW w \in c.workers, Ai(c)!Start(w) PROVE Gentle(c)'
  <2>1. Ai(c)!Players \subseteq Ai(c)!Objects /\ Ai(c)!Npcs \subseteq Ai(c)!Objects
    BY Sizes
  <2> QED
    BY <1>1, <1>2, <1>4, <2>1, GentleStarts, GentleAccept DEF Ai!Start
<1>5. CASE UNCHANGED Ai(c)!vars
  <2>1. UNCHANGED <<state, slock, aborted, task>>
    BY <1>5 DEF Ai!vars
  <2>2. \A u \in c.workers : Frees(c, u)' = Frees(c, u)
    BY <2>1 DEF Frees, Triples
  <2>3. \A u \in c.workers : HandlerFresh(c, u)'
    BY <1>1, <2>1, <2>2 DEF Gentle, HandlerFresh
  <2>4. OnePerClient(c)' /\ LocksKeep(c)'
    BY <1>1, <2>1 DEF Gentle, OnePerClient, LocksKeep
  <2> QED
    BY <1>1, <1>2, <2>1, <2>3, <2>4 DEF Gentle
<1> QED
  BY <1>3, <1>4, <1>5 DEF Ai!Next

LEMMA FreshInit ==
    ASSUME NEW c \in AiServers, Ai(c)!Init
    PROVE  FreshInv(c)
<1>1. /\ task = [w \in c.workers |-> Ai(c)!Idle] /\ slock = [o \in Ai(c)!Objects |-> 0]
      /\ aborted = [p \in Ai(c)!Players |-> 0]
  BY DEF Ai!Init
<1>2. \A w \in c.workers : task[w].op = "idle" /\ task[w].todo = <<>>
  BY <1>1 DEF Ai!Idle
<1>3. ASSUME NEW w \in c.workers PROVE HandlerFresh(c, w)
  <2>1. <<>> \in Seq(Frees(c, w))
    OBVIOUS
  <2> QED
    BY <1>2, <2>1 DEF HandlerFresh
<1>4. AllCalm(c)
  BY ShapesInit
<1> QED
  BY <1>1, <1>2, <1>3, <1>4, Sizes DEF FreshInv, Gentle, OnePerClient, OfClient, LocksKeep

-----------------------------------------------------------------------------
(* A worker that waits while it holds a lock is a login at a visit, or it  *)
(* is stuck.                                                               *)
LEMMA AiWaitsInVisit ==
    ASSUME NEW c \in AiServers, AiInv(c), Shapes(c), FreshInv(c), NEW w \in c.workers,
           Ai(c)!WaitsFor(w) \in c.workers, AiHeld(c, w) # {}
    PROVE  \/ task[w].op = "login" /\ Ai(c)!WaitsFor(w) # w
           \/ Ai(c)!WaitsFor(w) = w /\ Ai(c)!At(w, "free") /\ ~ Fresh(c)
<1> DEFINE f == Ai(c)!First(w)
           s == Ai(c)!Second(w)
<1>1. 0 \notin c.workers /\ Shape(c, w)
  BY Sizes DEF Shapes
<1>2. PICK op \in {"place", "free", "tell", "visit"} :
         /\ Ai(c)!At(w, op)
         /\ Ai(c)!WaitsFor(w) = IF op = "visit" THEN slock[s] ELSE slock[f]
  BY <1>1 DEF Ai!WaitsFor, Ai!At
<1>3. CASE op = "visit"
  <2>1. /\ task[w].op = "login" /\ s \in Ai(c)!Objects \ {task[w].id}
        /\ AiHeld(c, w) = {task[w].id}
    BY <1>1, <1>2, <1>3, ShapeHand DEF AiOps, LockOps
  <2>2. slock[s] # w
    BY <2>1 DEF AiHeld
  <2> QED
    BY <1>2, <1>3, <2>1, <2>2
<1>4. CASE op \in {"place", "tell"}
  <2>1. op \in AiOps
    BY <1>4 DEF AiOps
  <2>2. AiHeld(c, w) = {}
    BY <1>1, <1>2, <1>4, <2>1, ShapeHand
  <2> QED
    BY <2>2
<1>5. CASE op = "free"
  <2>1. f \in AiHeld(c, w)
    BY <1>1, <1>2, <1>5, ShapeHand DEF AiOps, LockOps
  <2>2. Ai(c)!WaitsFor(w) = w
    BY <1>2, <1>5, <2>1 DEF AiHeld
  <2>3. ASSUME Fresh(c) PROVE FALSE
    <3>1. state[f] # "FREE" \/ f \notin Ai(c)!Players
      BY <1>1, <2>1, <2>3 DEF FreshInv, Gentle, LocksKeep, AiHeld
    <3>2. AiCalm(c, w)
      BY <2>3 DEF FreshInv, Gentle, AllCalm
    <3> DEFINE T == task[w].todo
               H == AiHeld(c, w)
               p == task[w].id
    <3>3. T # <<>>
      BY <1>2 DEF Ai!At
    <3>4. /\ Head(T) = <<"free", f, s>>
          /\ f \in Ai(c)!Objects /\ s \in Ai(c)!Objects
      BY <1>2, <1>5, <3>3, AiHand
    <3>5. AiOtherAt(c, T, H) \/ (p \in Ai(c)!Players /\ AiLoginAt(c, p, T, H))
      BY <3>2 DEF AiCalm, Orderly, Todo
    <3> HIDE DEF T, H, p, f, s
    <3>6. \/ OtherNow(c, <<"free", f, s>>, Tail(T), H)
          \/ p \in Ai(c)!Players /\ LoginNow(c, p, <<"free", f, s>>, Tail(T), H)
      BY <3>3, <3>4, <3>5, AiOtherStep, AiLoginStep
    <3>7. "free" \in AiOps
      BY DEF AiOps
    <3>8. CASE OtherNow(c, <<"free", f, s>>, Tail(T), H)
      <4>1. H = {}
        BY <3>4, <3>7, <3>8, OtherHand
      <4> QED
        BY <2>1, <4>1 DEF H
    <3>9. CASE p \in Ai(c)!Players /\ LoginNow(c, p, <<"free", f, s>>, Tail(T), H)
      BY ZenonT(40), <3>4, <3>7, <3>9, LoginHand
    <3> QED
      BY <3>6, <3>8, <3>9
  <2> QED
    BY <1>2, <1>5, <2>2, <2>3
<1> QED
  BY <1>2, <1>3, <1>4, <1>5

(* A worker that another one waits for holds a lock.                       *)
LEMMA AiWaitedForHolds ==
    ASSUME NEW c \in AiServers, AiInv(c), NEW w \in c.workers, Ai(c)!WaitsFor(w) \in c.workers
    PROVE  AiHeld(c, Ai(c)!WaitsFor(w)) # {}
<1>1. 0 \notin c.workers
  BY Sizes
<1>2. \/ Ai(c)!WaitsFor(w) = slock[Ai(c)!First(w)]
      \/ Ai(c)!WaitsFor(w) = slock[Ai(c)!Second(w)]
  BY <1>1 DEF Ai!WaitsFor
<1>3. task[w].todo # <<>>
  BY <1>1 DEF Ai!WaitsFor, Ai!At
<1>4. Ai(c)!First(w) \in Ai(c)!Objects /\ Ai(c)!Second(w) \in Ai(c)!Objects
  BY <1>3, AiNow
<1> QED
  BY <1>2, <1>4 DEF AiHeld

LEMMA AiOnlyLogins ==
    ASSUME NEW c \in AiServers, AiInv(c), Shapes(c), FreshInv(c)
    PROVE  Ai(c)!OnlyLoginsDeadlock
<1> SUFFICES ASSUME NEW S \in (SUBSET c.workers) \ {{}}, \A w \in S : Ai(c)!WaitsFor(w) \in S
             PROVE  \/ \E w, u \in S : w # u /\ {task[w].op, task[u].op} = {"login"}
                    \/ /\ failed > 0 \/ \E p \in Ai(c)!Players : lives[p] > 1
                       /\ \E w \in S : Ai(c)!WaitsFor(w) = w /\ Ai(c)!At(w, "free")
  BY DEF Ai!OnlyLoginsDeadlock
<1>1. \A w \in S : w \in c.workers /\ Ai(c)!WaitsFor(w) \in S /\ Ai(c)!WaitsFor(w) \in c.workers
  OBVIOUS
<1>2. ~ Fresh(c) => failed > 0 \/ \E p \in Ai(c)!Players : lives[p] > 1
  <2>1. failed \in Nat /\ \A p \in Ai(c)!Players : lives[p] \in Nat
    BY DEF AiInv, AiType
  <2>2. \A p \in Ai(c)!Players : ~ (lives[p] <= 1) => lives[p] > 1
    BY <2>1
  <2> QED
    BY <2>1, <2>2 DEF Fresh
<1>3. PICK z \in S : TRUE
  OBVIOUS
<1> DEFINE w == Ai(c)!WaitsFor(z)
           u == Ai(c)!WaitsFor(w)
<1>4. w \in S /\ AiHeld(c, w) # {}
  BY <1>1, AiWaitedForHolds
<1>5. u \in S /\ AiHeld(c, u) # {}
  BY <1>1, <1>4, AiWaitedForHolds
<1> HIDE DEF w
<1>6. \/ task[w].op = "login" /\ u # w
      \/ u = w /\ Ai(c)!At(w, "free") /\ ~ Fresh(c)
  BY <1>1, <1>4, AiWaitsInVisit
<1>7. \/ task[u].op = "login"
      \/ Ai(c)!WaitsFor(u) = u /\ Ai(c)!At(u, "free") /\ ~ Fresh(c)
  <2> HIDE DEF u
  <2> QED
    BY <1>1, <1>5, AiWaitsInVisit
<1> QED
  BY <1>2, <1>4, <1>5, <1>6, <1>7

LockInv ==
    /\ \A c \in AiServers : server = c => AiInv(c) /\ Shapes(c) /\ FreshInv(c)
    /\ server = MtIocp => MtInv

LEMMA MtServerSteps ==
    ASSUME [Next]_vars, server' = MtIocp
    PROVE  server = MtIocp /\ [Mt!Next]_(Mt!vars)
<1>1. CASE Next
  <2>1. server = MtIocp /\ MtIocp \notin AiServers
    BY <1>1, LectureServersAssumption DEF Next
  <2> QED
    BY <1>1, <2>1 DEF Next
<1>2. CASE UNCHANGED vars
  BY <1>2 DEF vars, Mt!vars
<1> QED
  BY <1>1, <1>2

(* login, disconnect, do_move and send_packet of the AI server, and login, *)
(* disconnect and do_move of the multithreaded one: however many workers   *)
(* and clients there are, workers that wait for each other's locks in a    *)
(* circle include two logins in the midst of their visits or, in the AI    *)
(* server, one worker that waits for itself: it disconnects, for a send    *)
(* that failed, the owner of a lock it holds. No other handler is ever in  *)
(* a circle, and until a send has failed or a slot is taken again, nobody  *)
(* waits for itself.                                                       *)
THEOREM OnlyLoginsEverDeadlock == Spec => []OnlyLoginsDeadlock
<1>1. Mt!MtServerAssumption /\ MaxClients < MAX_USER /\ MtIocp \notin AiServers
  BY LectureServersAssumption
<1>2. Init => LockInv
  <2> SUFFICES ASSUME Init PROVE LockInv
    OBVIOUS
  <2>1. ASSUME NEW c \in AiServers, server = c
        PROVE  AiInv(c) /\ Shapes(c) /\ FreshInv(c)
    <3>1. Ai(c)!Init
      BY <1>1, <2>1 DEF Init
    <3> QED
      BY <3>1, AiInit, ShapesInit, FreshInit
  <2>2. ASSUME server = MtIocp PROVE MtInv
    <3>1. Mt!Init
      BY <1>1, <2>2 DEF Init
    <3> QED
      BY <1>1, <3>1, MtInit
  <2> QED
    BY <2>1, <2>2 DEF LockInv
<1>3. LockInv /\ [Next]_vars => LockInv'
  <2> SUFFICES ASSUME LockInv, [Next]_vars PROVE LockInv'
    OBVIOUS
  <2>1. ASSUME NEW c \in AiServers, server' = c
        PROVE  (AiInv(c) /\ Shapes(c) /\ FreshInv(c))'
    <3>1. server = c /\ [Ai(c)!Next]_(Ai(c)!vars)
      BY <2>1, AiServerSteps
    <3>2. AiInv(c) /\ Shapes(c) /\ FreshInv(c)
      BY <3>1 DEF LockInv
    <3> QED
      BY <3>1, <3>2, AiSteps, ShapesSteps, FreshSteps
  <2>2. ASSUME server' = MtIocp PROVE MtInv'
    <3>1. server = MtIocp /\ [Mt!Next]_(Mt!vars)
      BY <2>2, MtServerSteps
    <3> QED
      BY <1>1, <3>1, MtSteps DEF LockInv
  <2> QED
    BY <2>1, <2>2 DEF LockInv
<1>4. LockInv => OnlyLoginsDeadlock
  <2> SUFFICES ASSUME LockInv PROVE OnlyLoginsDeadlock
    OBVIOUS
  <2>1. ASSUME NEW c \in AiServers, server = c PROVE Ai(c)!OnlyLoginsDeadlock
    BY <2>1, AiOnlyLogins DEF LockInv
  <2>2. ASSUME server = MtIocp PROVE Mt!OnlyLoginsDeadlock
    BY <1>1, <2>2, OnlyLogins DEF LockInv
  <2> QED
    BY <2>1, <2>2 DEF OnlyLoginsDeadlock
<1> QED
  BY <1>2, <1>3, <1>4, PTL DEF Spec

-----------------------------------------------------------------------------
(***************************************************************************)
(* MtServer: EveryoneShown. What a worker's program still holds in store   *)
(* for the clients' screens: its instructions, in any order (Elems), and   *)
(* that a free is followed by a tell to, an enter by a look at, every      *)
(* other slot (Follows), and that it ends where it is done (Ends).         *)
(***************************************************************************)
Elems(T) == {T[k] : k \in 1..Len(T)}
After(T, k) == {T[m] : m \in (k + 1)..Len(T)}

(* What has to come after an instruction. *)
Owes(c) ==
    IF c[1] = "free" THEN {<<"tell", i, c[2]>> : i \in Mt!Slots \ {c[2]}}
    ELSE IF c[1] = "enter" THEN {<<"look", c[2], i>> : i \in Mt!Slots \ {c[2]}}
    ELSE {}

Follows(T) == \A k \in 1..Len(T) : Owes(T[k]) \subseteq After(T, k)

Ends(T) == \A k \in 1..Len(T) : T[k][1] = "done" => k = Len(T)

LEMMA ElemsStep ==
    ASSUME NEW S, NEW T \in Seq(S), T # <<>>
    PROVE  /\ Elems(T) = {Head(T)} \cup Elems(Tail(T)) /\ Tail(T) \in Seq(S)
           /\ Follows(T) => Follows(Tail(T)) /\ Owes(Head(T)) \subseteq Elems(Tail(T))
<1> DEFINE R == Tail(T)
           n == Len(T)
<1>1. /\ n \in Nat /\ n >= 1 /\ Head(T) = T[1] /\ R \in Seq(S) /\ Len(R) = n - 1
      /\ \A k \in 1..(n - 1) : R[k] = T[k + 1]
  OBVIOUS
<1> HIDE DEF R, n
<1>2. \A k \in 2..n : k - 1 \in 1..(n - 1) /\ T[k] = R[k - 1]
  <2> SUFFICES ASSUME NEW k \in 2..n PROVE k - 1 \in 1..(n - 1) /\ T[k] = R[k - 1]
    OBVIOUS
  <2>1. k - 1 \in 1..(n - 1) /\ (k - 1) + 1 = k
    BY <1>1
  <2>2. R[k - 1] = T[(k - 1) + 1]
    BY <1>1, <2>1
  <2> QED
    BY <2>1, <2>2
<1>3. Elems(T) = {Head(T)} \cup Elems(R)
  <2>1. ASSUME NEW k \in 1..n PROVE T[k] \in {Head(T)} \cup Elems(R)
    <3>1. CASE k = 1
      BY <1>1, <3>1
    <3>2. CASE k # 1
      <4>1. k \in 2..n
        BY <1>1, <3>2
      <4> QED
        BY <1>1, <1>2, <4>1 DEF Elems
    <3> QED
      BY <3>1, <3>2
  <2>2. ASSUME NEW k \in 1..(n - 1) PROVE R[k] \in Elems(T)
    <3>1. k + 1 \in 1..n /\ R[k] = T[k + 1]
      BY <1>1
    <3> QED
      BY <3>1 DEF Elems, n
  <2>3. Head(T) \in Elems(T)
    <3>1. 1 \in 1..n
      BY <1>1
    <3> QED
      BY <1>1, <3>1 DEF Elems, n
  <2> QED
    BY <1>1, <2>1, <2>2, <2>3 DEF Elems, n
<1>4. \A k \in 1..(n - 1) : After(T, k + 1) \subseteq After(R, k)
  <2> SUFFICES ASSUME NEW k \in 1..(n - 1), NEW m \in ((k + 1) + 1)..n
               PROVE  T[m] \in After(R, k)
    BY DEF After, n
  <2>1. m \in 2..n /\ m - 1 \in (k + 1)..Len(R)
    BY <1>1
  <2>2. T[m] = R[m - 1]
    BY <1>2, <2>1
  <2> QED
    BY <2>1, <2>2 DEF After
<1>5. After(T, 1) \subseteq Elems(R)
  <2> SUFFICES ASSUME NEW m \in (1 + 1)..n PROVE T[m] \in Elems(R)
    BY DEF After, n
  <2>1. m \in 2..n
    OBVIOUS
  <2>2. m - 1 \in 1..Len(R) /\ T[m] = R[m - 1]
    BY <1>1, <1>2, <2>1
  <2> QED
    BY <2>2 DEF Elems
<1>6. ASSUME Follows(T) PROVE Follows(R)
  <2> SUFFICES ASSUME NEW k \in 1..Len(R) PROVE Owes(R[k]) \subseteq After(R, k)
    BY DEF Follows
  <2>1. k \in 1..(n - 1) /\ k + 1 \in 1..Len(T) /\ R[k] = T[k + 1]
    BY <1>1 DEF n
  <2>2. Owes(T[k + 1]) \subseteq After(T, k + 1)
    BY <1>6, <2>1 DEF Follows
  <2> QED
    BY <1>4, <2>1, <2>2
<1>7. ASSUME Follows(T) PROVE Owes(Head(T)) \subseteq Elems(R)
  <2>1. 1 \in 1..Len(T)
    BY <1>1 DEF n
  <2>2. Owes(T[1]) \subseteq After(T, 1)
    BY <1>7, <2>1 DEF Follows
  <2> QED
    BY <1>1, <1>5, <2>2
<1> QED
  BY <1>1, <1>3, <1>6, <1>7 DEF R

LEMMA ElemsJoin ==
    ASSUME NEW S, NEW A \in Seq(S), NEW B \in Seq(S)
    PROVE  /\ A \o B \in Seq(S) /\ Elems(A \o B) = Elems(A) \cup Elems(B)
           /\ Follows(A) /\ Follows(B) => Follows(A \o B)
<1> DEFINE C == A \o B
           a == Len(A)
           b == Len(B)
<1>1. a \in Nat /\ b \in Nat
  OBVIOUS
<1>2. /\ C \in Seq(S) /\ Len(C) = a + b
      /\ \A k \in 1..a : C[k] = A[k]
      /\ \A k \in 1..b : C[a + k] = B[k]
  BY Joined
<1> HIDE DEF C, a, b
<1>3. \A k \in 1..(a + b) : k \in 1..a \/ (k - a \in 1..b /\ C[k] = B[k - a])
  <2> SUFFICES ASSUME NEW k \in 1..(a + b), k \notin 1..a
               PROVE  k - a \in 1..b /\ C[k] = B[k - a]
    OBVIOUS
  <2>1. k - a \in 1..b /\ a + (k - a) = k
    BY <1>1
  <2>2. C[a + (k - a)] = B[k - a]
    BY <1>2, <2>1
  <2> QED
    BY <2>1, <2>2
<1>4. Elems(C) = Elems(A) \cup Elems(B)
  <2>1. \A k \in 1..a : k \in 1..(a + b)
    BY <1>1
  <2>2. \A k \in 1..b : a + k \in 1..(a + b)
    BY <1>1
  <2>3. /\ Elems(C) = {C[k] : k \in 1..(a + b)} /\ Elems(A) = {A[k] : k \in 1..a}
        /\ Elems(B) = {B[k] : k \in 1..b}
    BY <1>2 DEF Elems, a, b
  <2>4. ASSUME NEW x \in Elems(C) PROVE x \in Elems(A) \cup Elems(B)
    <3>1. PICK k \in 1..(a + b) : x = C[k]
      BY <2>3
    <3> QED
      BY <1>2, <1>3, <2>3, <3>1
  <2>5. ASSUME NEW x \in Elems(A) PROVE x \in Elems(C)
    <3>1. PICK k \in 1..a : x = A[k]
      BY <2>3
    <3> QED
      BY <1>2, <2>1, <2>3, <3>1
  <2>6. ASSUME NEW x \in Elems(B) PROVE x \in Elems(C)
    <3>1. PICK k \in 1..b : x = B[k]
      BY <2>3
    <3> QED
      BY <1>2, <2>2, <2>3, <3>1
  <2> QED
    BY <2>4, <2>5, <2>6
<1>5. \A k \in 1..a : After(A, k) \subseteq After(C, k)
  <2> SUFFICES ASSUME NEW k \in 1..a, NEW m \in (k + 1)..a PROVE A[m] \in After(C, k)
    BY DEF After, a
  <2>1. m \in 1..a /\ m \in (k + 1)..Len(C)
    BY <1>1, <1>2
  <2> QED
    BY <1>2, <2>1 DEF After
<1>6. \A k \in 1..b : After(B, k) \subseteq After(C, a + k)
  <2> SUFFICES ASSUME NEW k \in 1..b, NEW m \in (k + 1)..b PROVE B[m] \in After(C, a + k)
    BY DEF After, b
  <2>1. m \in 1..b /\ a + m \in ((a + k) + 1)..Len(C)
    BY <1>1, <1>2
  <2> QED
    BY <1>2, <2>1 DEF After
<1>7. ASSUME Follows(A), Follows(B) PROVE Follows(C)
  <2>1. /\ \A k \in 1..a : Owes(A[k]) \subseteq After(A, k)
        /\ \A k \in 1..b : Owes(B[k]) \subseteq After(B, k)
    BY <1>7 DEF Follows, a, b
  <2> SUFFICES ASSUME NEW k \in 1..(a + b) PROVE Owes(C[k]) \subseteq After(C, k)
    BY <1>2 DEF Follows
  <2>2. CASE k \in 1..a
    BY <1>2, <1>5, <2>1, <2>2
  <2>3. CASE k - a \in 1..b /\ C[k] = B[k - a]
    <3> DEFINE h == k - a
    <3>1. h \in 1..b /\ C[k] = B[h] /\ a + h = k
      BY <1>1, <2>3
    <3> HIDE DEF h
    <3>2. After(B, h) \subseteq After(C, k)
      BY <1>6, <3>1
    <3> QED
      BY <2>1, <3>1, <3>2
  <2> QED
    BY <1>3, <2>2, <2>3
<1> QED
  BY <1>2, <1>4, <1>7 DEF C

(* The short programs by which instructions are replaced.                  *)
LEMMA ElemsNone == Elems(<<>>) = {} /\ Follows(<<>>)
<1>1. 1..Len(<<>>) = {}
  OBVIOUS
<1> QED
  BY <1>1 DEF Elems, Follows

LEMMA ElemsOne ==
    ASSUME NEW S, NEW x \in S
    PROVE  <<x>> \in Seq(S) /\ Elems(<<x>>) = {x}
<1> DEFINE s == <<x>>
<1>1. s \in Seq(S) /\ Len(s) = 1 /\ s[1] = x /\ 1..1 = {1}
  OBVIOUS
<1> HIDE DEF s
<1>2. Elems(s) = {x}
  BY <1>1 DEF Elems
<1> QED
  BY <1>1, <1>2 DEF s

LEMMA ElemsTwo ==
    ASSUME NEW S, NEW x \in S, NEW y \in S
    PROVE  <<x, y>> \in Seq(S) /\ Elems(<<x, y>>) = {x, y}
<1> DEFINE s == <<x, y>>
<1>1. s \in Seq(S) /\ Len(s) = 2 /\ s[1] = x /\ s[2] = y /\ 1..2 = {1, 2}
  OBVIOUS
<1> HIDE DEF s
<1>2. Elems(s) = {x, y}
  BY <1>1 DEF Elems
<1> QED
  BY <1>1, <1>2 DEF s

LEMMA ElemsThree ==
    ASSUME NEW S, NEW x \in S, NEW y \in S, NEW z \in S
    PROVE  <<x, y, z>> \in Seq(S) /\ Elems(<<x, y, z>>) = {x, y, z}
<1> DEFINE s == <<x, y, z>>
<1>1. /\ s \in Seq(S) /\ Len(s) = 3 /\ s[1] = x /\ s[2] = y /\ s[3] = z
      /\ 1..3 = {1, 2, 3}
  OBVIOUS
<1> HIDE DEF s
<1>2. Elems(s) = {x, y, z}
  BY <1>1 DEF Elems
<1> QED
  BY <1>1, <1>2 DEF s

LEMMA FollowsPlain ==
    ASSUME NEW S, NEW T \in Seq(S), \A i \in Elems(T) : i[1] \notin {"free", "enter"}
    PROVE  Follows(T)
<1>1. \A k \in 1..Len(T) : T[k][1] \notin {"free", "enter"}
  BY DEF Elems
<1> QED
  BY <1>1 DEF Follows, Owes

LEMMA EndsStep ==
    ASSUME NEW S, NEW T \in Seq(S), T # <<>>, Ends(T)
    PROVE  Ends(Tail(T)) /\ (Head(T)[1] = "done" => Tail(T) = <<>>)
<1> DEFINE R == Tail(T)
           n == Len(T)
<1>1. /\ n \in Nat /\ n >= 1 /\ Head(T) = T[1] /\ R \in Seq(S) /\ Len(R) = n - 1
      /\ \A k \in 1..(n - 1) : R[k] = T[k + 1]
  OBVIOUS
<1> HIDE DEF R
<1>2. \A k \in 1..n : T[k][1] = "done" => k = n
  BY DEF Ends
<1> HIDE DEF n
<1>3. Ends(R)
  <2> SUFFICES ASSUME NEW k \in 1..Len(R), R[k][1] = "done" PROVE k = Len(R)
    BY DEF Ends
  <2>1. k + 1 \in 1..n /\ T[k + 1][1] = "done"
    BY <1>1
  <2> QED
    BY <1>1, <1>2, <2>1
<1>4. Head(T)[1] = "done" => R = <<>>
  <2> SUFFICES ASSUME T[1][1] = "done" PROVE R = <<>>
    BY <1>1
  <2>1. 1 \in 1..n
    BY <1>1
  <2>2. Len(R) = 0
    BY <1>1, <1>2, <2>1
  <2> QED
    BY <1>1, <2>2, EmptySeq
<1> QED
  BY <1>3, <1>4 DEF R

LEMMA EndsJoin ==
    ASSUME NEW S, NEW A \in Seq(S), NEW B \in Seq(S),
           \A i \in Elems(A) : i[1] # "done", Ends(B)
    PROVE  Ends(A \o B)
<1> DEFINE C == A \o B
           a == Len(A)
           b == Len(B)
<1>1. a \in Nat /\ b \in Nat
  OBVIOUS
<1>2. /\ Len(C) = a + b
      /\ \A k \in 1..a : C[k] = A[k]
      /\ \A k \in 1..b : C[a + k] = B[k]
  BY Joined
<1>3. \A k \in 1..a : A[k][1] # "done"
  BY DEF Elems
<1>4. \A k \in 1..b : B[k][1] = "done" => k = b
  BY DEF Ends
<1> HIDE DEF C, a, b
<1>5. ASSUME NEW k \in 1..(a + b), C[k][1] = "done" PROVE k = a + b
  <2>1. k \notin 1..a
    BY <1>2, <1>3, <1>5
  <2> DEFINE h == k - a
  <2>2. h \in 1..b /\ a + h = k
    BY <1>1, <2>1
  <2> HIDE DEF h
  <2>3. C[k] = B[h]
    BY <1>2, <2>2
  <2> QED
    BY <1>1, <1>4, <1>5, <2>2, <2>3
<1> QED
  BY <1>2, <1>5 DEF C, Ends

LEMMA EndsShort ==
    ASSUME NEW x, NEW y, x[1] # "done"
    PROVE  Ends(<<>>) /\ Ends(<<y>>) /\ Ends(<<x, y>>)
<1>1. Ends(<<>>)
  BY DEF Ends
<1>2. Ends(<<y>>)
  <2> DEFINE s == <<y>>
  <2>1. Len(s) = 1
    OBVIOUS
  <2> HIDE DEF s
  <2>2. \A k \in 1..Len(s) : k = Len(s)
    BY <2>1
  <2> QED
    BY <2>2 DEF Ends, s
<1>3. Ends(<<x, y>>)
  <2> DEFINE s == <<x, y>>
  <2>1. Len(s) = 2 /\ s[1] = x /\ s[1][1] # "done"
    OBVIOUS
  <2> HIDE DEF s
  <2>2. \A k \in 1..Len(s) : s[k][1] = "done" => k = Len(s)
    <3> SUFFICES ASSUME NEW k \in 1..2, s[k][1] = "done" PROVE k = 2
      BY <2>1
    <3>1. k = 1 \/ k = 2
      OBVIOUS
    <3> QED
      BY <2>1, <3>1
  <2> QED
    BY <2>2 DEF Ends, s
<1> QED
  BY <1>1, <1>2, <1>3
-----------------------------------------------------------------------------
(* The instructions of each handler of slot p.                             *)
Does(op, p) ==
    CASE op = "idle"  -> {}
      [] op = "login" -> {Me("lock", p), Me("enter", p), Me("done", p)}
                           \cup {Me("unlock", i) : i \in Mt!Slots}
                           \cup {<<k, p, j>> : k \in {"look", "visit", "add"}, j \in Mt!Slots \ {p}}
                           \cup {<<"add", j, p>> : j \in Mt!Slots \ {p}}
      [] op = "move"  -> {Me("done", p)} \cup {<<"tellMove", i, p>> : i \in Mt!Slots}
      [] OTHER        -> {Me("lock", p), Me("free", p), Me("done", p)}
                           \cup {Me("unlock", i) : i \in Mt!Slots}
                           \cup {<<k, i, p>> : k \in {"tell", "remove"}, i \in Mt!Slots \ {p}}

(* A handler is one of a client of its slot; once a login has entered, the *)
(* slots whose locks it holds are in the game, and it adds these alone.    *)
Knows(w) ==
    LET h == task[w]
        T == Todo(w)
    IN  /\ h.op # "idle" => h.id \in Mt!Slots /\ h.life \in 1..lives[h.id]
        /\ Elems(T) \subseteq Does(h.op, h.id)
        /\ Follows(T) /\ Ends(T)
        /\ \A i \in Elems(T) : i[1] = "add" => {i[2], i[3]} \subseteq Held(w)
        /\ T # <<>> /\ h.op = "login" /\ Head(T)[1] \in {"look", "visit", "add", "unlock"}
             => \A o \in Held(w) : state[o] = "INGAME"

(* The first client of a slot has one handler at a time, and no receive of *)
(* it is left when it has gone: when its quit has freed the slot, the slot *)
(* stays free until the next client comes.                                 *)
Of(q) == {w \in Workers : task[w].op # "idle" /\ task[w].id = q}

FirstLife(q) ==
    lives[q] <= 1 =>
        /\ aborted[q] = 0
        /\ \A w \in Of(q) : task[w].op # "abort"
        /\ \A u, w \in Of(q) : u = w
        /\ \A w \in Of(q) :
              task[w].op = "quit" /\ Head(Todo(w))[1] \notin {"lock", "free"}
                => state[q] = "FREE"

Screens ==
    /\ open \in [Mt!Slots -> BOOLEAN]
    /\ shown \in [Mt!Slots -> SUBSET Mt!Slots]
    /\ aborted \in [Mt!Slots -> Nat]
    /\ \A p \in Mt!Slots :
          /\ p \notin shown[p]
          /\ open[p] /\ shown[p] # {} => state[p] = "INGAME"
          /\ state[p] = "FREE" => ~open[p]
          /\ state[p] # "FREE" => lives[p] >= 1
          /\ lives[p] >= 1 => p <= MaxClients
          /\ lives[p] <= Lives
          /\ aborted[p] + (IF open[p] THEN 1 ELSE 0) <= lives[p]

Awaits(I) == \E w \in Workers : Elems(Todo(w)) \cap I # {}

(* The messages under way by which p ceases to show q, or comes to show it. *)
Leaving(p, q) == {<<"tell", p, q>>, <<"remove", p, q>>}
Meeting(p, q) == {<<"look", p, q>>, <<"visit", p, q>>, <<"add", p, q>>,
                  <<"look", q, p>>, <<"visit", q, p>>}

Shows(p, q) ==
    /\ q \in shown[p] => state[q] = "INGAME" \/ Awaits(Leaving(p, q))
    /\ p # q /\ state[p] = "INGAME" /\ state[q] = "INGAME" /\ lives[q] = 1
         => q \in shown[p] \/ Awaits(Meeting(p, q))

ShownInv ==
    /\ MtInv /\ Screens
    /\ \A w \in Workers : Knows(w)
    /\ \A q \in Mt!Slots : FirstLife(q)
    /\ \A p \in {i \in Mt!Slots : open[i]} : \A q \in Mt!Slots : Shows(p, q)

-----------------------------------------------------------------------------
(* Where a login has come to, by its next instruction.                     *)
LEMMA LooksElems ==
    ASSUME MAX_USER \in Nat, NEW p \in Mt!Slots, NEW R, Looks(R, p)
    PROVE  R \in Seq(Instr) /\ \A i \in Elems(R) : i[1] \in {"look", "unlock", "done"}
<1>1. R \in Seq(Instr) /\ Len(R) \in Nat /\ Len(R) >= 2
  BY DEF Looks
<1>2. ASSUME NEW k \in 1..Len(R) PROVE R[k][1] \in {"look", "unlock", "done"}
  <2> DEFINE n == Len(R)
  <2>1. k \in 1..(n - 2) \/ k = n - 1 \/ k = n
    BY <1>1
  <2> QED
    BY <2>1 DEF Looks
<1> QED
  BY <1>1, <1>2 DEF Elems

LEMMA LoginOrder ==
    ASSUME MAX_USER \in Nat, NEW p \in Mt!Slots, NEW T, NEW H, LoginAt(p, T, H)
    PROVE  /\ Head(T)[1] = "lock" => Tail(T) # <<>> /\ Head(Tail(T)) = Me("enter", p)
           /\ Head(T)[1] = "enter" => H = {p}
           /\ Head(T)[1] \in {"lock", "enter", "look", "visit", "unlock"} =>
                \A i \in Elems(Tail(T)) : i[1] # "add"
<1>1. ASSUME NEW R, Looks(R, p)
      PROVE R \in Seq(Instr) /\ \A i \in Elems(R) : i[1] \in {"look", "unlock", "done"}
  BY <1>1, LooksElems
<1>2. /\ Me("lock", p) \in Instr /\ Me("enter", p) \in Instr /\ Me("done", p) \in Instr
      /\ Me("lock", p)[1] = "lock" /\ Me("enter", p)[1] = "enter" /\ Me("done", p)[1] = "done"
  BY MeParts
<1>3. ASSUME NEW R, Looks(R, p), T = <<Me("lock", p)>> \o (<<Me("enter", p)>> \o R), H = {}
      PROVE  /\ Head(T)[1] = "lock" /\ Tail(T) # <<>> /\ Head(Tail(T)) = Me("enter", p)
             /\ \A i \in Elems(Tail(T)) : i[1] # "add"
  <2> DEFINE Q == <<Me("enter", p)>> \o R
  <2>1. Q \in Seq(Instr) /\ Q # <<>> /\ Head(Q) = Me("enter", p) /\ Tail(Q) = R
    BY <1>1, <1>2, <1>3, Cons
  <2>2. T = <<Me("lock", p)>> \o Q
    BY <1>3
  <2> HIDE DEF Q
  <2>3. Head(T) = Me("lock", p) /\ Tail(T) = Q
    BY <1>2, <2>1, <2>2, Cons
  <2>4. Elems(Q) = {Me("enter", p)} \cup Elems(R)
    BY <2>1, ElemsStep
  <2> QED
    BY <1>1, <1>2, <1>3, <2>1, <2>3, <2>4
<1>4. ASSUME NEW R, Looks(R, p), T = <<Me("enter", p)>> \o R
      PROVE  /\ Head(T)[1] = "enter"
             /\ \A i \in Elems(Tail(T)) : i[1] # "add"
  <2>1. Head(T) = Me("enter", p) /\ Tail(T) = R
    BY <1>1, <1>2, <1>4, Cons
  <2> QED
    BY <1>1, <1>2, <1>4, <2>1
<1>5. ASSUME Looks(T, p)
      PROVE  /\ Head(T)[1] \in {"look", "unlock"}
             /\ \A i \in Elems(Tail(T)) : i[1] # "add"
  <2>1. T # <<>> /\ T \in Seq(Instr) /\ Head(T)[1] \in {"look", "unlock"}
    <3>1. /\ T # <<>> /\ T \in Seq(Instr)
          /\ Head(T) = Me("unlock", p) \/ \E j \in Mt!Slots \ {p} : Head(T) = <<"look", p, j>>
      BY <1>5, LooksStarts
    <3>2. Me("unlock", p)[1] = "unlock" /\ \A j : <<"look", p, j>>[1] = "look"
      BY DEF Me
    <3> QED
      BY <3>1, <3>2
  <2>2. Elems(T) = {Head(T)} \cup Elems(Tail(T))
    BY <2>1, ElemsStep
  <2> QED
    BY <1>1, <1>5, <2>1, <2>2
<1>6. ASSUME NEW j \in Mt!Slots, NEW R, Looks(R, p), T = << <<"visit", p, j>> >> \o R
      PROVE  /\ Head(T)[1] = "visit"
             /\ \A i \in Elems(Tail(T)) : i[1] # "add"
  <2> DEFINE v == <<"visit", p, j>>
  <2>1. v \in Instr /\ v[1] = "visit" /\ T = <<v>> \o R
    BY <1>6, MeParts DEF Instr
  <2> HIDE DEF v
  <2>2. Head(T) = v /\ Tail(T) = R
    BY <1>1, <1>6, <2>1, Cons
  <2> QED
    BY <1>1, <1>6, <2>1, <2>2
<1>7. ASSUME NEW j \in Mt!Slots, NEW R, Looks(R, p), NEW Q \in Seq(Instr),
             NEW a \in Instr, a[1] = "add", T = <<a>> \o Q
      PROVE  Head(T)[1] = "add"
  BY <1>7, Cons
<1>8. ASSUME NEW j \in Mt!Slots, NEW R, Looks(R, p), T = <<Me("unlock", j)>> \o R
      PROVE  /\ Head(T)[1] = "unlock"
             /\ \A i \in Elems(Tail(T)) : i[1] # "add"
  <2>1. Head(T) = Me("unlock", j) /\ Tail(T) = R /\ Me("unlock", j)[1] = "unlock"
    BY <1>1, <1>8, MeParts, Cons
  <2> QED
    BY <1>1, <1>8, <2>1
<1>9. ASSUME NEW j \in Mt!Slots \ {p}, NEW R, Looks(R, p),
             \/ \E a, b \in Instr : /\ a[1] = "add" /\ b[1] = "add"
                                    /\ T = <<a>> \o (<<b>> \o (<<Me("unlock", j)>> \o R))
             \/ \E b \in Instr : b[1] = "add" /\ T = <<b>> \o (<<Me("unlock", j)>> \o R)
             \/ T = <<Me("unlock", j)>> \o R
      PROVE  /\ Head(T)[1] \in {"add", "unlock"}
             /\ Head(T)[1] = "unlock" => \A i \in Elems(Tail(T)) : i[1] # "add"
  <2> DEFINE Q == <<Me("unlock", j)>> \o R
  <2>1. Q \in Seq(Instr)
    BY <1>1, <1>9, MeParts, Cons
  <2>2. CASE T = Q
    BY <1>8, <1>9, <2>2
  <2>3. ASSUME NEW b \in Instr, b[1] = "add", T = <<b>> \o Q PROVE Head(T)[1] = "add"
    <3> HIDE DEF Q
    <3> QED
      BY <2>1, <2>3, Cons
  <2>4. ASSUME NEW a \in Instr, NEW b \in Instr, a[1] = "add", T = <<a>> \o (<<b>> \o Q)
        PROVE  Head(T)[1] = "add"
    <3> HIDE DEF Q
    <3>1. <<b>> \o Q \in Seq(Instr)
      BY <2>1, Cons
    <3> QED
      BY <2>4, <3>1, Cons
  <2> HIDE DEF Q
  <2>5. \/ T = Q
        \/ \E b \in Instr : b[1] = "add" /\ T = <<b>> \o Q
        \/ \E a, b \in Instr : a[1] = "add" /\ T = <<a>> \o (<<b>> \o Q)
    BY <1>9 DEF Q
  <2> QED
    BY <1>8, <1>9, <2>2, <2>3, <2>4, <2>5
<1>10. ASSUME T = <<Me("done", p)>> PROVE Head(T)[1] = "done"
  BY <1>2, <1>10
<1>11. CASE /\ H = {}
            /\ \E R : Looks(R, p) /\ T = <<Me("lock", p)>> \o (<<Me("enter", p)>> \o R)
  BY <1>3, <1>11
<1>12. CASE /\ H = {p}
            /\ \/ \E R : Looks(R, p) /\ T = <<Me("enter", p)>> \o R
               \/ Looks(T, p)
               \/ \E j \in Mt!Slots \ {p} : \E R :
                     Looks(R, p) /\ T = << <<"visit", p, j>> >> \o R
  BY <1>4, <1>5, <1>6, <1>12
<1>13. CASE \E j \in Mt!Slots \ {p} : \E R :
              /\ H = {p, j} /\ Looks(R, p)
              /\ \/ \E a, b \in Instr : /\ a[1] = "add" /\ b[1] = "add"
                                        /\ T = <<a>> \o (<<b>> \o (<<Me("unlock", j)>> \o R))
                 \/ \E b \in Instr : b[1] = "add" /\ T = <<b>> \o (<<Me("unlock", j)>> \o R)
                 \/ T = <<Me("unlock", j)>> \o R
  BY <1>9, <1>13
<1>14. CASE H = {} /\ T = <<Me("done", p)>>
  BY <1>10, <1>14
<1> QED
  BY <1>11, <1>12, <1>13, <1>14 DEF LoginAt
-----------------------------------------------------------------------------
(* The programs with which the handlers begin.                             *)
LEMMA FollowsCons ==
    ASSUME NEW S, NEW x \in S, NEW R \in Seq(S), Follows(R), Owes(x) \subseteq Elems(R)
    PROVE  /\ <<x>> \o R \in Seq(S) /\ <<x>> \o R # <<>> /\ Head(<<x>> \o R) = x
           /\ Follows(<<x>> \o R) /\ Elems(<<x>> \o R) = {x} \cup Elems(R)
<1> DEFINE C == <<x>> \o R
           A == <<x>>
           n == Len(R)
<1>1. A \in Seq(S) /\ Len(A) = 1 /\ A[1] = x /\ n \in Nat
  OBVIOUS
<1>2. C \in Seq(S) /\ C # <<>> /\ Head(C) = x /\ Tail(C) = R
  BY Cons
<1>3. /\ Len(C) = 1 + n /\ C[1] = x
      /\ \A k \in 1..n : C[1 + k] = R[k]
  <2>1. Len(C) \in Nat /\ Len(C) >= 1 /\ Head(C) = C[1] /\ Len(Tail(C)) = Len(C) - 1
        /\ \A k \in 1..(Len(C) - 1) : Tail(C)[k] = C[k + 1]
    <3> HIDE DEF C
    <3> QED
      BY SMTT(90), <1>2
  <2> HIDE DEF C
  <2>2. Len(R) = Len(C) - 1 /\ \A k \in 1..(Len(C) - 1) : R[k] = C[k + 1]
    BY <1>2, <2>1
  <2>3. Len(C) = 1 + n /\ Len(C) - 1 = n
    BY <2>1, <2>2
  <2>4. \A k \in 1..n : C[1 + k] = R[k]
    <3> SUFFICES ASSUME NEW k \in 1..n PROVE C[1 + k] = R[k]
      OBVIOUS
    <3>1. k + 1 = 1 + k
      OBVIOUS
    <3> QED
      BY <2>2, <2>3, <3>1
  <2> QED
    BY <1>2, <2>1, <2>3, <2>4
<1>4. Elems(C) = {x} \cup Elems(R)
  BY <1>2, ElemsStep
<1> HIDE DEF C, A, n
<1>5. Elems(R) \subseteq After(C, 1)
  <2> SUFFICES ASSUME NEW k \in 1..n PROVE R[k] \in After(C, 1)
    BY DEF Elems, n
  <2>1. 1 + k \in (1 + 1)..Len(C)
    BY <1>1, <1>3
  <2> QED
    BY <1>3, <2>1 DEF After
<1>6. \A k \in 1..n : After(R, k) \subseteq After(C, 1 + k)
  <2> SUFFICES ASSUME NEW k \in 1..n, NEW m \in (k + 1)..n PROVE R[m] \in After(C, 1 + k)
    BY DEF After, n
  <2>1. m \in 1..n /\ 1 + m \in ((1 + k) + 1)..Len(C)
    BY <1>1, <1>3
  <2> QED
    BY <1>3, <2>1 DEF After
<1>7. Follows(C)
  <2> SUFFICES ASSUME NEW k \in 1..Len(C) PROVE Owes(C[k]) \subseteq After(C, k)
    BY DEF Follows
  <2>1. CASE k = 1
    BY <1>3, <1>5, <2>1
  <2>2. CASE k # 1
    <3> DEFINE h == k - 1
    <3>1. h \in 1..n /\ 1 + h = k
      BY <1>1, <1>3, <2>2
    <3> HIDE DEF h
    <3>2. C[k] = R[h] /\ Owes(R[h]) \subseteq After(R, h)
      BY <1>3, <3>1 DEF Follows, n
    <3> QED
      BY <1>6, <3>1, <3>2
  <2> QED
    BY <2>1, <2>2
<1> QED
  BY <1>2, <1>4, <1>7 DEF C

LEMMA OthersAll ==
    ASSUME Mt!MtServerAssumption, NEW p \in Mt!Slots
    PROVE  \E n \in Nat :
              /\ DOMAIN Mt!Others(p) = 1..n
              /\ \A k \in 1..n : Mt!Others(p)[k] \in Mt!Slots
              /\ p < MAX_USER => \A k \in 1..n : Mt!Others(p)[k] # p
              /\ \A i \in Mt!Slots \ {p} : \E k \in 1..n : Mt!Others(p)[k] = i
<1>1. MAX_USER \in Nat /\ MAX_USER >= 1 /\ p \in 1..MAX_USER /\ Mt!Slots = 1..MAX_USER
  BY DEF Mt!MtServerAssumption, Mt!Slots
<1>2. PICK n \in Nat : /\ DOMAIN Mt!Others(p) = 1..n
                       /\ \A k \in 1..n : Mt!Others(p)[k] \in Mt!Slots
                       /\ p < MAX_USER => \A k \in 1..n : Mt!Others(p)[k] # p
  BY OthersOf
<1>3. ASSUME NEW i \in Mt!Slots \ {p} PROVE \E k \in DOMAIN Mt!Others(p) : Mt!Others(p)[k] = i
  <2>1. CASE p < MAX_USER
    <3>1. Mt!Others(p) = [k \in 1..(MAX_USER - 1) |-> IF k < p THEN k ELSE k + 1]
      BY <2>1 DEF Mt!Others
    <3> DEFINE k == IF i < p THEN i ELSE i - 1
    <3>2. k \in 1..(MAX_USER - 1) /\ (IF k < p THEN k ELSE k + 1) = i
      BY <1>1
    <3> HIDE DEF k
    <3>3. Mt!Others(p)[k] = i /\ k \in DOMAIN Mt!Others(p)
      BY <3>1, <3>2
    <3> QED
      BY <3>3
  <2>2. CASE ~(p < MAX_USER)
    <3>1. Mt!Others(p) = [k \in 1..MAX_USER |-> k]
      BY <1>1, <2>2 DEF Mt!Others
    <3> QED
      BY <1>1, <3>1
  <2> QED
    BY <2>1, <2>2
<1> QED
  BY <1>2, <1>3

LEMMA ElemsFun ==
    ASSUME NEW S, NEW n \in Nat, NEW X \in [1..n -> S]
    PROVE  X \in Seq(S) /\ \A i : i \in Elems(X) <=> \E k \in 1..n : X[k] = i
<1>1. X \in Seq(S) /\ Len(X) = n
  OBVIOUS
<1> QED
  BY <1>1 DEF Elems

LEMMA LoginKnows ==
    ASSUME Mt!MtServerAssumption, NEW p \in Mt!Slots, p < MAX_USER
    PROVE  LET T == Mt!LoginProgram(p)
           IN  /\ T # <<>> /\ Head(T) = Me("lock", p)
               /\ Elems(T) \subseteq Does("login", p) /\ Follows(T) /\ Ends(T)
               /\ \A i \in Elems(T) : i[1] # "add"
<1> DEFINE l == Me("lock", p)
           e == Me("enter", p)
           u == Me("unlock", p)
           d == Me("done", p)
           X == [k \in DOMAIN Mt!Others(p) |-> <<"look", p, Mt!Others(p)[k]>>]
           D == <<u, d>>
           R == X \o D
<1>1. PICK n \in Nat : /\ DOMAIN Mt!Others(p) = 1..n
                       /\ \A k \in 1..n : Mt!Others(p)[k] \in Mt!Slots \ {p}
                       /\ \A i \in Mt!Slots \ {p} : \E k \in 1..n : Mt!Others(p)[k] = i
  BY OthersAll
<1>2. /\ l \in Instr /\ e \in Instr /\ u \in Instr /\ d \in Instr
      /\ l[1] = "lock" /\ e[1] = "enter" /\ u[1] = "unlock" /\ d[1] = "done"
      /\ e[2] = p
  BY MeParts
<1>3. ASSUME NEW k \in 1..n
      PROVE  /\ <<"look", p, Mt!Others(p)[k]>> \in Instr
             /\ X[k] = <<"look", p, Mt!Others(p)[k]>>
  BY <1>1, MeParts DEF Instr
<1>4. X \in [1..n -> Instr]
  BY <1>1, <1>3
<1>5. /\ X \in Seq(Instr)
      /\ Elems(X) = {<<"look", p, j>> : j \in Mt!Slots \ {p}}
  <2> HIDE DEF X
  <2>1. X \in Seq(Instr) /\ \A i : i \in Elems(X) <=> \E k \in 1..n : X[k] = i
    BY <1>4, ElemsFun
  <2>2. \A k \in 1..n : X[k] = <<"look", p, Mt!Others(p)[k]>>
    BY <1>3
  <2>3. ASSUME NEW x \in Elems(X) PROVE \E j \in Mt!Slots \ {p} : x = <<"look", p, j>>
    <3>1. PICK k \in 1..n : X[k] = x
      BY <2>1
    <3> QED
      BY <1>1, <2>2, <3>1
  <2>4. ASSUME NEW j \in Mt!Slots \ {p} PROVE <<"look", p, j>> \in Elems(X)
    BY <1>1, <2>1, <2>2
  <2> QED
    BY <2>1, <2>3, <2>4
<1>6. D \in Seq(Instr) /\ Elems(D) = {u, d}
  <2> HIDE DEF u, d
  <2> QED
    BY <1>2, ElemsTwo
<1>7. Mt!LoginProgram(p) = (<<l, e>> \o X) \o D
  BY DEF Mt!LoginProgram, Me
<1> HIDE DEF l, e, u, d, X, D
<1>8. Mt!LoginProgram(p) = <<l>> \o (<<e>> \o R)
  <2>1. <<l, e>> \in Seq(Instr)
    BY <1>2
  <2>2. (<<l, e>> \o X) \o D = <<l, e>> \o R
    BY <1>5, <1>6, <2>1, ConcatAssociative DEF R
  <2>3. R \in Seq(Instr)
    BY <1>5, <1>6, ElemsJoin
  <2> HIDE DEF R
  <2>4. <<l, e>> \o R = <<l>> \o (<<e>> \o R)
    BY SMTT(60), <1>2, <2>3, Twice
  <2> QED
    BY <1>7, <2>2, <2>4
<1>9. \A i \in Elems(X) : i[1] = "look"
  <2>1. \A j : <<"look", p, j>>[1] = "look"
    OBVIOUS
  <2> QED
    BY <1>5, <2>1
<1>10. Follows(X) /\ Follows(D)
  BY <1>2, <1>5, <1>6, <1>9, FollowsPlain
<1>11. R \in Seq(Instr) /\ Elems(R) = Elems(X) \cup {u, d} /\ Follows(R)
  BY <1>5, <1>6, <1>10, ElemsJoin
<1> HIDE DEF R
<1>17. Ends(Mt!LoginProgram(p))
  <2>1. <<l, e>> \in Seq(Instr) /\ Elems(<<l, e>>) = {l, e}
    BY <1>2, ElemsTwo
  <2>2. <<l, e>> \o X \in Seq(Instr) /\ Elems(<<l, e>> \o X) = {l, e} \cup Elems(X)
    <3> DEFINE A == <<l, e>>
    <3>1. A \in Seq(Instr) /\ Elems(A) = {l, e}
      BY <2>1
    <3> HIDE DEF A
    <3>2. A \o X \in Seq(Instr) /\ Elems(A \o X) = Elems(A) \cup Elems(X)
      BY <1>5, <3>1, ElemsJoin
    <3> QED
      BY <3>1, <3>2 DEF A
  <2>3. \A i \in Elems(<<l, e>> \o X) : i[1] # "done"
    BY <1>2, <1>9, <2>2
  <2>4. Ends(D)
    BY <1>2, EndsShort DEF D
  <2> QED
    BY <1>6, <1>7, <2>2, <2>3, <2>4, EndsJoin
<1>12. Owes(l) = {} /\ Owes(e) = {<<"look", p, j>> : j \in Mt!Slots \ {p}}
  BY <1>2 DEF Owes
<1> DEFINE Q == <<e>> \o R
<1>13. /\ Q \in Seq(Instr) /\ Follows(Q) /\ Elems(Q) = {e} \cup Elems(R)
  BY <1>2, <1>5, <1>11, <1>12, FollowsCons
<1> HIDE DEF Q
<1>14. LET T == <<l>> \o Q
       IN T # <<>> /\ Head(T) = l /\ Follows(T) /\ Elems(T) = {l} \cup Elems(Q)
  BY <1>2, <1>12, <1>13, FollowsCons
<1>15. {l, e, u, d} \cup Elems(X) \subseteq Does("login", p)
  BY <1>5 DEF Does, l, e, u, d
<1>16. \A i \in {l, e, u, d} \cup Elems(X) : i[1] # "add"
  BY <1>2, <1>9
<1> QED
  BY <1>8, <1>11, <1>13, <1>14, <1>15, <1>16, <1>17 DEF Q, l

LEMMA MoveKnows ==
    ASSUME Mt!MtServerAssumption, NEW p \in Mt!Slots
    PROVE  LET T == Mt!MoveProgram(p)
           IN  /\ T # <<>> /\ Elems(T) \subseteq Does("move", p) /\ Follows(T) /\ Ends(T)
               /\ \A i \in Elems(T) : i[1] # "add"
<1> DEFINE d == Me("done", p)
           X == [i \in Mt!Slots |-> <<"tellMove", i, p>>]
           D == <<d>>
           T == X \o D
<1>1. MAX_USER \in Nat /\ Mt!Slots = 1..MAX_USER
  BY DEF Mt!MtServerAssumption, Mt!Slots
<1>2. d \in Instr /\ d[1] = "done"
  BY MeParts
<1>3. \A k \in Mt!Slots : X[k] \in Instr /\ X[k] = <<"tellMove", k, p>> /\ X[k][1] = "tellMove"
  BY MeParts DEF Instr
<1>4. X \in [1..MAX_USER -> Instr]
  BY <1>1, <1>3
<1>5. X \in Seq(Instr) /\ Elems(X) = {<<"tellMove", i, p>> : i \in Mt!Slots}
      /\ \A i \in Elems(X) : i[1] = "tellMove"
  <2> HIDE DEF X
  <2>1. X \in Seq(Instr) /\ \A i : i \in Elems(X) <=> \E k \in 1..MAX_USER : X[k] = i
    BY <1>1, <1>4, ElemsFun
  <2> QED
    BY ZenonT(40), <1>1, <1>3, <2>1
<1>6. D \in Seq(Instr) /\ Elems(D) = {d}
  <2> HIDE DEF d
  <2> QED
    BY <1>2, ElemsOne
<1>7. Mt!MoveProgram(p) = T
  BY DEF Mt!MoveProgram, Me
<1> HIDE DEF X, D, d
<1>8. Follows(X) /\ Follows(D)
  BY <1>2, <1>5, <1>6, FollowsPlain
<1>12. Ends(T)
  <2>1. (\A i \in Elems(X) : i[1] # "done") /\ Ends(D)
    BY <1>5, EndsShort DEF D, Me
  <2> QED
    BY <1>5, <1>6, <2>1, EndsJoin DEF T
<1>9. T \in Seq(Instr) /\ Elems(T) = Elems(X) \cup {d} /\ Follows(T)
  BY <1>5, <1>6, <1>8, ElemsJoin
<1>10. T # <<>>
  <2>1. Elems(<<>>) = {}
    BY ElemsNone
  <2> QED
    BY <1>9, <2>1
<1>11. Elems(X) \cup {d} \subseteq Does("move", p)
  BY <1>5 DEF Does, d
<1> QED
  BY <1>2, <1>5, <1>7, <1>9, <1>10, <1>11, <1>12

LEMMA QuitKnows ==
    ASSUME Mt!MtServerAssumption, NEW p \in Mt!Slots, p < MAX_USER,
           NEW op \in {"quit", "abort"}
    PROVE  LET D == Mt!DisconnectProgram(p)
               T == D \o <<Me("done", p)>>
               U == (D \o D) \o <<Me("done", p)>>
           IN  /\ T # <<>> /\ Head(T) = Me("lock", p)
               /\ Elems(T) \subseteq Does(op, p) /\ Follows(T) /\ Ends(T)
               /\ U # <<>> /\ Head(U) = Me("lock", p)
               /\ Elems(U) \subseteq Does(op, p) /\ Follows(U) /\ Ends(U)
               /\ \A i \in Elems(T) \cup Elems(U) : i[1] # "add"
<1> DEFINE l == Me("lock", p)
           f == Me("free", p)
           d == Me("done", p)
           X == [k \in DOMAIN Mt!Others(p) |-> <<"tell", Mt!Others(p)[k], p>>]
           D == Mt!DisconnectProgram(p)
           E == <<d>>
<1>1. PICK n \in Nat : /\ DOMAIN Mt!Others(p) = 1..n
                       /\ \A k \in 1..n : Mt!Others(p)[k] \in Mt!Slots \ {p}
                       /\ \A i \in Mt!Slots \ {p} : \E k \in 1..n : Mt!Others(p)[k] = i
  BY OthersAll
<1>2. /\ l \in Instr /\ f \in Instr /\ d \in Instr
      /\ l[1] = "lock" /\ f[1] = "free" /\ f[2] = p /\ d[1] = "done"
  BY MeParts
<1>3. ASSUME NEW k \in 1..n
      PROVE  /\ <<"tell", Mt!Others(p)[k], p>> \in Instr
             /\ X[k] = <<"tell", Mt!Others(p)[k], p>>
  BY <1>1, MeParts DEF Instr
<1>4. X \in [1..n -> Instr]
  BY <1>1, <1>3
<1>5. /\ X \in Seq(Instr)
      /\ Elems(X) = {<<"tell", i, p>> : i \in Mt!Slots \ {p}}
  <2> HIDE DEF X
  <2>1. X \in Seq(Instr) /\ \A i : i \in Elems(X) <=> \E k \in 1..n : X[k] = i
    BY <1>4, ElemsFun
  <2>2. \A k \in 1..n : X[k] = <<"tell", Mt!Others(p)[k], p>>
    BY <1>3
  <2>3. ASSUME NEW x \in Elems(X) PROVE \E i \in Mt!Slots \ {p} : x = <<"tell", i, p>>
    <3>1. PICK k \in 1..n : X[k] = x
      BY <2>1
    <3> QED
      BY <1>1, <2>2, <3>1
  <2>4. ASSUME NEW i \in Mt!Slots \ {p} PROVE <<"tell", i, p>> \in Elems(X)
    BY <1>1, <2>1, <2>2
  <2> QED
    BY <2>1, <2>3, <2>4
<1>6. D = <<l, f>> \o X
  BY DEF Mt!DisconnectProgram, Me
<1>7. E \in Seq(Instr) /\ Elems(E) = {d}
  <2> HIDE DEF d
  <2> QED
    BY <1>2, ElemsOne
<1> HIDE DEF l, f, d, X, E
<1>8. \A i \in Elems(X) : i[1] = "tell"
  <2>1. \A i : <<"tell", i, p>>[1] = "tell"
    OBVIOUS
  <2> QED
    BY <1>5, <2>1
<1>9. Follows(X) /\ Follows(E)
  BY <1>2, <1>5, <1>7, <1>8, FollowsPlain
<1>10. Owes(l) = {} /\ Owes(f) = {<<"tell", i, p>> : i \in Mt!Slots \ {p}}
  BY <1>2 DEF Owes
<1> DEFINE Q == <<f>> \o X
<1>11. /\ Q \in Seq(Instr) /\ Follows(Q) /\ Elems(Q) = {f} \cup Elems(X)
  BY <1>2, <1>5, <1>9, <1>10, FollowsCons
<1>12. D = <<l>> \o Q
  <2> HIDE DEF D, Q
  <2>1. X \in Seq(Instr)
    BY <1>5
  <2>2. <<l, f>> \o X = <<l>> \o (<<f>> \o X)
    BY SMTT(90), <1>2, <2>1, Twice
  <2>3. Q = <<f>> \o X
    BY DEF Q
  <2> QED
    BY <1>6, <2>2, <2>3, Zenon
<1> HIDE DEF Q, D
<1>13. /\ D \in Seq(Instr) /\ Follows(D) /\ Elems(D) = {l, f} \cup Elems(X)
       /\ D # <<>> /\ Head(D) = l
  <2>1. /\ <<l>> \o Q \in Seq(Instr) /\ Follows(<<l>> \o Q)
        /\ Elems(<<l>> \o Q) = {l} \cup Elems(Q)
        /\ <<l>> \o Q # <<>> /\ Head(<<l>> \o Q) = l
    BY <1>2, <1>10, <1>11, FollowsCons
  <2> QED
    BY <1>11, <1>12, <2>1
<1>14. D \o D \in Seq(Instr) /\ Follows(D \o D) /\ Elems(D \o D) = Elems(D)
       /\ D \o D # <<>> /\ Head(D \o D) = l
  BY <1>13, ElemsJoin, Prefix
<1> DEFINE DD == D \o D
<1> HIDE DEF DD
<1>15. DD \in Seq(Instr) /\ Follows(DD) /\ Elems(DD) = Elems(D) /\ DD # <<>> /\ Head(DD) = l
  BY <1>14 DEF DD
<1>16. ASSUME NEW V \in Seq(Instr), Follows(V), Elems(V) = Elems(D), V # <<>>, Head(V) = l
       PROVE  /\ V \o E # <<>> /\ Head(V \o E) = l /\ Follows(V \o E) /\ Ends(V \o E)
              /\ Elems(V \o E) = {l, f, d} \cup Elems(X)
  <2>1. /\ V \o E # <<>> /\ Head(V \o E) = l /\ Follows(V \o E)
        /\ Elems(V \o E) = {l, f, d} \cup Elems(X)
    BY <1>7, <1>9, <1>13, <1>16, ElemsJoin, Prefix
  <2>2. (\A i \in Elems(V) : i[1] # "done") /\ Ends(E)
    <3>1. Ends(E)
      BY <1>2, EndsShort DEF E
    <3> QED
      BY <1>2, <1>8, <1>13, <1>16, <3>1
  <2>3. Ends(V \o E)
    BY <1>7, <1>16, <2>2, EndsJoin
  <2> QED
    BY <2>1, <2>3
<1>17. {l, f, d} \cup Elems(X) \subseteq Does(op, p)
  BY <1>5 DEF Does, l, f, d
<1>18. \A i \in {l, f, d} \cup Elems(X) : i[1] # "add"
  BY <1>2, <1>8
<1>19. /\ D \o E # <<>> /\ Head(D \o E) = l /\ Follows(D \o E) /\ Ends(D \o E)
       /\ Elems(D \o E) = {l, f, d} \cup Elems(X)
  BY <1>13, <1>16
<1>20. /\ DD \o E # <<>> /\ Head(DD \o E) = l /\ Follows(DD \o E) /\ Ends(DD \o E)
       /\ Elems(DD \o E) = {l, f, d} \cup Elems(X)
  BY <1>15, <1>16
<1> QED
  BY <1>17, <1>18, <1>19, <1>20 DEF DD, D, E, l, d
-----------------------------------------------------------------------------
(* What an instruction says of the handler that has it in its program.     *)
Ops == {"idle", "login", "move", "quit", "abort"}

LEMMA DoesKinds ==
    ASSUME NEW op \in Ops, NEW p, NEW i \in Does(op, p)
    PROVE  /\ op # "idle"
           /\ i[1] \in {"enter", "look", "visit", "add"} => op = "login"
           /\ i[1] = "tellMove" => op = "move"
           /\ i[1] \in {"free", "tell", "remove"} => op \in {"quit", "abort"}
           /\ i[1] \in {"lock", "enter", "free"} => i = Me(i[1], p)
           /\ i[1] = "unlock" => i[2] \in Mt!Slots
           /\ i[1] \in {"tell", "remove"} => i[2] \in Mt!Slots \ {p} /\ i[3] = p
           /\ i[1] \in {"look", "visit"} => i[2] = p /\ i[3] \in Mt!Slots \ {p}
           /\ i[1] = "add" => \E j \in Mt!Slots \ {p} : i = <<"add", p, j>> \/ i = <<"add", j, p>>
           /\ i = <<i[1], i[2], i[3]>>
<1>1. CASE op = "idle"
  BY <1>1 DEF Does
<1>2. CASE op = "login"
  <2>1. \/ i \in {Me("lock", p), Me("enter", p), Me("done", p)}
        \/ \E o \in Mt!Slots : i = Me("unlock", o)
        \/ \E k \in {"look", "visit", "add"}, j \in Mt!Slots \ {p} : i = <<k, p, j>>
        \/ \E j \in Mt!Slots \ {p} : i = <<"add", j, p>>
    BY <1>2 DEF Does
  <2> QED
    BY <1>2, <2>1 DEF Me
<1>3. CASE op = "move"
  <2>1. i = Me("done", p) \/ \E o \in Mt!Slots : i = <<"tellMove", o, p>>
    BY <1>3 DEF Does
  <2> QED
    BY <1>3, <2>1 DEF Me
<1>4. CASE op \in {"quit", "abort"}
  <2>1. \/ i \in {Me("lock", p), Me("free", p), Me("done", p)}
        \/ \E o \in Mt!Slots : i = Me("unlock", o)
        \/ \E k \in {"tell", "remove"}, j \in Mt!Slots \ {p} : i = <<k, j, p>>
    BY <1>4 DEF Does
  <2> QED
    BY <1>4, <2>1 DEF Me
<1> QED
  BY <1>1, <1>2, <1>3, <1>4 DEF Ops

LEMMA KnowsStays ==
    ASSUME NEW u \in Workers, Knows(u), task'[u] = task[u], Held(u)' = Held(u),
           \A p \in Mt!Slots : lives[p] \in Nat /\ lives'[p] \in Nat /\ lives[p] <= lives'[p],
           \A o \in Held(u) : state[o] = "INGAME" => state'[o] = "INGAME"
    PROVE  Knows(u)'
<1>1. Todo(u)' = Todo(u)
  BY DEF Todo
<1>2. task[u].op # "idle" => task[u].id \in Mt!Slots /\ task[u].life \in 1..lives'[task[u].id]
  <2> SUFFICES ASSUME task[u].op # "idle"
               PROVE  task[u].id \in Mt!Slots /\ task[u].life \in 1..lives'[task[u].id]
    OBVIOUS
  <2>1. task[u].id \in Mt!Slots /\ task[u].life \in 1..lives[task[u].id]
    BY DEF Knows
  <2> QED
    BY <2>1
<1> QED
  BY <1>1, <1>2 DEF Knows

LEMMA KnowsGoes ==
    ASSUME MtInv, NEW w \in Workers, Knows(w), Todo(w) # <<>>,
           NEW more \in Seq(Instr), Mt!Go(w, more), lives' = lives,
           Elems(more) \subseteq Does(task[w].op, task[w].id), Follows(more),
           \A i \in Elems(more) : i[1] # "done",
           \A i \in Elems(more) \cup Elems(Tail(Todo(w))) :
              i[1] = "add" => {i[2], i[3]} \subseteq Held(w)',
           LET N == more \o Tail(Todo(w))
           IN  N # <<>> /\ task[w].op = "login" /\ Head(N)[1] \in {"look", "visit", "add", "unlock"}
                 => \A o \in Held(w)' : state'[o] = "INGAME"
    PROVE  /\ Knows(w)'
           /\ task'[w].op = task[w].op /\ task'[w].id = task[w].id
           /\ task'[w].life = task[w].life
           /\ Elems(Todo(w)') = Elems(more) \cup Elems(Tail(Todo(w)))
           /\ \A u \in Workers \ {w} : task'[u] = task[u]
<1> DEFINE T == Todo(w)
           N == more \o Tail(T)
<1>1. T \in Seq(Instr) /\ MtType
  BY DEF MtInv, MtType, Handlers, Todo
<1>2. /\ T' = N /\ task'[w].op = task[w].op /\ task'[w].id = task[w].id
      /\ \A u \in Workers \ {w} : task'[u] = task[u]
  BY <1>1, GoesOn
<1>3. task'[w].life = task[w].life
  <2>1. task \in [Workers -> Handlers] /\ task[w] \in Handlers
    BY <1>1 DEF MtType
  <2>2. task'[w] = [task[w] EXCEPT !.todo = more \o Tail(@)]
    BY <2>1 DEF Mt!Go
  <2> QED
    BY <2>1, <2>2 DEF Handlers
<1>4. /\ Elems(T) = {Head(T)} \cup Elems(Tail(T)) /\ Tail(T) \in Seq(Instr)
      /\ Follows(Tail(T)) /\ Ends(Tail(T))
  <2>1. Follows(T) /\ Ends(T) /\ T # <<>>
    BY DEF Knows
  <2> HIDE DEF T
  <2> QED
    BY <1>1, <2>1, ElemsStep, EndsStep
<1> HIDE DEF T
<1>5. /\ N \in Seq(Instr) /\ Elems(N) = Elems(more) \cup Elems(Tail(T)) /\ Follows(N)
      /\ Ends(N)
  <2> DEFINE R == Tail(T)
  <2>1. R \in Seq(Instr) /\ Ends(R) /\ Follows(R)
    BY <1>4
  <2> HIDE DEF R
  <2>2. Ends(more \o R)
    BY <2>1, EndsJoin
  <2>3. /\ more \o R \in Seq(Instr) /\ Elems(more \o R) = Elems(more) \cup Elems(R)
        /\ Follows(more \o R)
    BY <2>1, ElemsJoin
  <2> QED
    BY <2>2, <2>3 DEF R
<1> HIDE DEF N
<1>6. Elems(N) \subseteq Does(task[w].op, task[w].id)
  <2>1. Elems(T) \subseteq Does(task[w].op, task[w].id)
    BY DEF Knows, T
  <2> QED
    BY <1>4, <1>5, <2>1
<1>7. task[w].op # "idle" => task[w].id \in Mt!Slots /\ task[w].life \in 1..lives[task[w].id]
  BY DEF Knows
<1>8. \A i \in Elems(N) : i[1] = "add" => {i[2], i[3]} \subseteq Held(w)'
  BY <1>5 DEF T
<1>9. N # <<>> /\ task[w].op = "login" /\ Head(N)[1] \in {"look", "visit", "add", "unlock"}
         => \A o \in Held(w)' : state'[o] = "INGAME"
  BY DEF N, T
<1>10. Todo(w)' = N
  BY <1>2 DEF T
<1>11. Knows(w)'
  BY <1>2, <1>3, <1>5, <1>6, <1>7, <1>8, <1>9, <1>10 DEF Knows
<1> QED
  BY <1>2, <1>3, <1>5, <1>10, <1>11 DEF T

(* The same for an instruction that is done with.                          *)
LEMMA KnowsDone ==
    ASSUME MtInv, NEW w \in Workers, Knows(w), Todo(w) # <<>>, Mt!Go(w, <<>>), lives' = lives,
           \A i \in Elems(Tail(Todo(w))) : i[1] = "add" => {i[2], i[3]} \subseteq Held(w)',
           LET R == Tail(Todo(w))
           IN  R # <<>> /\ task[w].op = "login" /\ Head(R)[1] \in {"look", "visit", "add", "unlock"}
                 => \A o \in Held(w)' : state'[o] = "INGAME"
    PROVE  /\ Knows(w)'
           /\ task'[w].op = task[w].op /\ task'[w].id = task[w].id
           /\ task'[w].life = task[w].life
           /\ Todo(w)' = Tail(Todo(w))
           /\ \A u \in Workers \ {w} : task'[u] = task[u]
<1> DEFINE R == Tail(Todo(w))
<1>1. Todo(w) \in Seq(Instr)
  BY DEF MtInv, MtType, Handlers, Todo
<1>2. R \in Seq(Instr)
  BY <1>1
<1>3. <<>> \o R = R
  BY <1>2, ConcatEmptySeq
<1>4. <<>> \in Seq(Instr) /\ Elems(<<>>) = {} /\ Follows(<<>>)
  BY ElemsNone
<1>5. Knows(w)' /\ task'[w].life = task[w].life
  BY <1>3, <1>4, KnowsGoes
<1> QED
  BY <1>5, GoesPlain

LEMMA HeadKnows ==
    ASSUME MtInv, NEW w \in Workers, Knows(w), Todo(w) # <<>>
    PROVE  /\ task[w].op \in Ops
           /\ Todo(w) \in Seq(Instr) /\ Tail(Todo(w)) \in Seq(Instr)
           /\ Elems(Todo(w)) = {Head(Todo(w))} \cup Elems(Tail(Todo(w)))
           /\ Head(Todo(w)) \in Does(task[w].op, task[w].id)
           /\ Owes(Head(Todo(w))) \subseteq Elems(Tail(Todo(w)))
           /\ Head(Todo(w))[1] = "done" => Tail(Todo(w)) = <<>>
           /\ task[w].op # "idle" /\ task[w].id \in Mt!Slots
           /\ task[w].life \in 1..lives[task[w].id]
           /\ task[w].op # "login" => \A i \in Elems(Tail(Todo(w))) : i[1] # "add"
           /\ \A i \in Elems(Tail(Todo(w))) : i[1] = "add" => {i[2], i[3]} \subseteq Held(w)
<1> DEFINE T == Todo(w)
<1>1. T \in Seq(Instr) /\ T # <<>> /\ task[w].op \in Ops
  BY DEF MtInv, MtType, Handlers, Todo, Ops
<1>2. Elems(T) \subseteq Does(task[w].op, task[w].id) /\ Follows(T) /\ Ends(T)
  BY DEF Knows
<1>3. \A i \in Elems(T) : i[1] = "add" => {i[2], i[3]} \subseteq Held(w)
  BY DEF Knows
<1> HIDE DEF T
<1>4. /\ Elems(T) = {Head(T)} \cup Elems(Tail(T)) /\ Tail(T) \in Seq(Instr)
      /\ Owes(Head(T)) \subseteq Elems(Tail(T))
      /\ Head(T)[1] = "done" => Tail(T) = <<>>
  BY <1>1, <1>2, ElemsStep, EndsStep
<1>5. Head(T) \in Does(task[w].op, task[w].id)
  BY <1>2, <1>4
<1>6. task[w].op # "idle"
  BY <1>1, <1>5, DoesKinds
<1>7. task[w].id \in Mt!Slots /\ task[w].life \in 1..lives[task[w].id]
  BY <1>6 DEF Knows
<1>8. task[w].op # "login" => \A i \in Elems(Tail(T)) : i[1] # "add"
  BY <1>1, <1>2, <1>4, DoesKinds
<1> QED
  BY <1>1, <1>3, <1>4, <1>5, <1>6, <1>7, <1>8 DEF T

LEMMA OthersKnow ==
    ASSUME MtInv, NEW w \in Workers, \A u \in Workers : Knows(u), Knows(w)', lives' = lives,
           \A u \in Workers \ {w} : task'[u] = task[u] /\ Held(u)' = Held(u),
           \A o \in Mt!Slots : state[o] = "INGAME" => state'[o] = "INGAME" \/ o \in Held(w)
    PROVE  \A u \in Workers : Knows(u)'
<1>1. ASSUME NEW u \in Workers, u # w PROVE Knows(u)'
  <2>1. \A p \in Mt!Slots : lives[p] \in Nat /\ lives'[p] \in Nat /\ lives[p] <= lives'[p]
    BY DEF MtInv, MtType
  <2>2. \A o \in Held(u) : o \in Mt!Slots /\ o \notin Held(w)
    BY <1>1 DEF Held
  <2>3. \A o \in Held(u) : state[o] = "INGAME" => state'[o] = "INGAME"
    BY <2>2
  <2> QED
    BY <1>1, <2>1, <2>3, KnowsStays
<1> QED
  BY <1>1

LEMMA KnowsWork ==
    ASSUME Mt!MtServerAssumption, MaxClients < MAX_USER, MtInv,
           \A u \in Workers : Knows(u), NEW w \in Workers, Mt!Work(w), ~ Mt!Finish(w)
    PROVE  /\ \A u \in Workers : Knows(u)'
           /\ lives' = lives
           /\ \A u \in Workers \ {w} : task'[u] = task[u]
           /\ task'[w].op = task[w].op /\ task'[w].id = task[w].id
           /\ task'[w].life = task[w].life
<1> DEFINE T == Todo(w)
           H == Held(w)
           R == Tail(T)
           p == task[w].id
           c == Head(T)
<1>1. MAX_USER \in Nat /\ MaxClients \in 0..MAX_USER /\ MtType /\ Knows(w)
  BY DEF Mt!MtServerAssumption, MtInv
<1>2. T # <<>>
  BY DEF Mt!Work, Mt!Lock, Mt!Unlock, Mt!Enter, Mt!Look, Mt!Visit, Mt!TellMove, Mt!Tell,
         Mt!Free, Mt!Send, Mt!Finish, Mt!At, Todo
<1>3. /\ T \in Seq(Instr) /\ R \in Seq(Instr) /\ H \subseteq Mt!Slots
      /\ task[w].op = "login" => LoginAt(p, T, H)
      /\ task[w].op # "login" => OtherAt(T, H)
  BY <1>1, <1>2, AtInstr
<1>4. /\ Mt!First(w) = c[2] /\ Mt!Second(w) = c[3]
      /\ \A op : Mt!At(w, op) <=> c[1] = op
  BY <1>2 DEF Mt!First, Mt!Second, Mt!At, Todo
<1>5. /\ task[w].op \in Ops /\ task[w].op # "idle" /\ p \in Mt!Slots
      /\ c \in Does(task[w].op, p)
      /\ Elems(T) = {c} \cup Elems(R)
      /\ task[w].op # "login" => \A i \in Elems(R) : i[1] # "add"
      /\ \A i \in Elems(R) : i[1] = "add" => {i[2], i[3]} \subseteq H
  BY <1>1, <1>2, HeadKnows
<1>6. /\ c[1] \in {"enter", "look", "visit", "add"} => task[w].op = "login"
      /\ c[1] = "tellMove" => task[w].op = "move"
      /\ c[1] \in {"free", "tell", "remove"} => task[w].op \in {"quit", "abort"}
      /\ c[1] \in {"lock", "enter", "free"} => c = Me(c[1], p)
      /\ c[1] \in {"tell", "remove"} => c[2] \in Mt!Slots \ {p} /\ c[3] = p
      /\ c[1] \in {"look", "visit"} => c[2] = p /\ c[3] \in Mt!Slots \ {p}
  BY <1>5, DoesKinds
<1>7. task[w].op = "login" =>
        /\ c[1] = "lock" => R # <<>> /\ Head(R) = Me("enter", p) /\ H = {}
        /\ c[1] = "enter" => H = {p}
        /\ c[1] = "unlock" => c[2] \in H
        /\ c[1] = "visit" => H = {p}
        /\ c[1] \in {"lock", "enter", "look", "visit", "unlock"} =>
             \A i \in Elems(R) : i[1] # "add"
  <2> SUFFICES ASSUME task[w].op = "login"
               PROVE  /\ c[1] = "lock" => R # <<>> /\ Head(R) = Me("enter", p) /\ H = {}
                      /\ c[1] = "enter" => H = {p}
                      /\ c[1] = "unlock" => c[2] \in H
                      /\ c[1] = "visit" => H = {p}
                      /\ c[1] \in {"lock", "enter", "look", "visit", "unlock"} =>
                           \A i \in Elems(R) : i[1] # "add"
    OBVIOUS
  <2>1. LoginAt(p, T, H) /\ p \in Mt!Slots
    BY <1>3, <1>5
  <2> HIDE DEF T, H, p
  <2>2. /\ c[1] = "lock" => R # <<>> /\ Head(R) = Me("enter", p)
        /\ c[1] = "enter" => H = {p}
        /\ c[1] \in {"lock", "enter", "look", "visit", "unlock"} =>
             \A i \in Elems(R) : i[1] # "add"
    BY <1>1, <2>1, LoginOrder
  <2>3. /\ c[1] = "lock" => H = {}
        /\ c[1] = "unlock" => c[2] \in H
        /\ c[1] = "visit" => H = {p}
    BY <1>1, <2>1, LoginStep
  <2> QED
    BY <2>2, <2>3
<1>8. task[w].op # "login" =>
        /\ c[1] \in {"free", "unlock"} => H = {c[2]}
        /\ c[1] \in {"lock", "tell", "tellMove"} => H = {}
  <2> SUFFICES ASSUME task[w].op # "login"
               PROVE  /\ c[1] \in {"free", "unlock"} => H = {c[2]}
                      /\ c[1] \in {"lock", "tell", "tellMove"} => H = {}
    OBVIOUS
  <2>1. OtherAt(T, H) /\ T # <<>>
    BY <1>2, <1>3
  <2> HIDE DEF T, H
  <2> QED
    BY <2>1, OtherStep
<1>9. task[w].op = "login" /\ c[1] \in {"look", "visit", "add", "unlock"}
        => \A o \in H : state[o] = "INGAME"
  BY <1>1, <1>2 DEF Knows
<1>10. \A u \in Workers : slock' = slock => Held(u)' = Held(u)
  BY DEF Held
<1> DEFINE Kept == /\ Knows(w)'
                   /\ task'[w].op = task[w].op /\ task'[w].id = p
                   /\ task'[w].life = task[w].life
                   /\ \A u \in Workers \ {w} : task'[u] = task[u]
(* An instruction that is done with: what the rest needs.                  *)
<1>11. ASSUME Mt!Go(w, <<>>), lives' = lives,
              \A i \in Elems(R) : i[1] = "add" => {i[2], i[3]} \subseteq H',
              R # <<>> /\ task[w].op = "login" /\ Head(R)[1] \in {"look", "visit", "add", "unlock"}
                => \A o \in H' : state'[o] = "INGAME"
       PROVE  Kept
  BY <1>1, <1>2, <1>11, KnowsDone
<1>12. ASSUME Kept, lives' = lives,
              \A u \in Workers \ {w} : Held(u)' = Held(u),
              \A o \in Mt!Slots : state[o] = "INGAME" => state'[o] = "INGAME" \/ o \in H
       PROVE  /\ \A u \in Workers : Knows(u)'
              /\ lives' = lives
              /\ \A u \in Workers \ {w} : task'[u] = task[u]
              /\ task'[w].op = task[w].op /\ task'[w].id = task[w].id
              /\ task'[w].life = task[w].life
  BY <1>12, OthersKnow
<1> HIDE DEF R, c, p
<1>13. CASE Mt!Lock(w)
  <2> DEFINE s == c[2]
  <2>1. /\ c[1] = "lock" /\ slock[s] = 0 /\ slock' = [slock EXCEPT ![s] = w]
        /\ Mt!Go(w, <<>>) /\ UNCHANGED <<state, lives>>
    BY <1>4, <1>13 DEF Mt!Lock
  <2>2. s \in Mt!Slots
    BY <1>5, <1>6, <2>1 DEF Me
  <2>3. H' = H \cup {s} /\ \A u \in Workers \ {w} : Held(u)' = Held(u)
    <3> HIDE DEF s
    <3> QED
      BY <1>1, <2>1, <2>2, Takes
  <2>4. Kept
    <3>1. task[w].op = "login" => Head(R)[1] = "enter"
      BY <1>7, <2>1 DEF Me
    <3>2. \A i \in Elems(R) : i[1] = "add" => {i[2], i[3]} \subseteq H'
      BY <1>5, <2>3
    <3> QED
      BY <1>11, <2>1, <3>1, <3>2
  <2> QED
    BY <1>12, <2>1, <2>3, <2>4
<1>14. CASE Mt!Unlock(w)
  <2> DEFINE s == c[2]
  <2>1. /\ c[1] = "unlock" /\ slock' = [slock EXCEPT ![s] = 0]
        /\ Mt!Go(w, <<>>) /\ UNCHANGED <<state, lives>>
    BY <1>4, <1>14 DEF Mt!Unlock
  <2>2. s \in H
    BY <1>7, <1>8, <2>1
  <2>3. H' = H \ {s} /\ \A u \in Workers \ {w} : Held(u)' = Held(u)
    <3> HIDE DEF s
    <3> QED
      BY <1>1, <2>1, <2>2, GivesBack
  <2>4. \A i \in Elems(R) : i[1] # "add"
    BY <1>5, <1>7, <2>1
  <2>5. task[w].op = "login" => \A o \in H' : state'[o] = "INGAME"
    BY <1>9, <2>1, <2>3
  <2>6. Kept
    BY <1>11, <2>1, <2>4, <2>5
  <2> QED
    BY <1>12, <2>1, <2>3, <2>6
<1>15. CASE Mt!Enter(w)
  <2>1. /\ c[1] = "enter" /\ state' = [state EXCEPT ![c[2]] = "INGAME"]
        /\ Mt!Go(w, <<>>) /\ UNCHANGED <<slock, lives>>
    BY <1>4, <1>15 DEF Mt!Enter
  <2>2. task[w].op = "login" /\ c[2] = p /\ H = {p}
    BY <1>6, <1>7, <2>1 DEF Me
  <2>3. \A u \in Workers : Held(u)' = Held(u)
    BY <1>10, <2>1
  <2>4. \A o \in Mt!Slots : state'[o] = IF o = p THEN "INGAME" ELSE state[o]
    BY <1>1, <2>1, <2>2 DEF MtType
  <2>5. Kept
    <3>1. \A i \in Elems(R) : i[1] # "add"
      BY <1>7, <2>1, <2>2
    <3>2. \A o \in H' : state'[o] = "INGAME"
      BY <1>5, <2>2, <2>3, <2>4
    <3> QED
      BY <1>11, <2>1, <3>1, <3>2
  <2> QED
    BY <1>12, <2>1, <2>3, <2>4, <2>5
<1>16. CASE Mt!TellMove(w) \/ Mt!Send(w)
  <2>1. /\ c[1] \in {"tellMove", "add", "remove"}
        /\ Mt!Go(w, <<>>) /\ UNCHANGED <<state, slock, lives>>
    BY <1>4, <1>16 DEF Mt!TellMove, Mt!Send
  <2>2. \A u \in Workers : Held(u)' = Held(u)
    BY <1>10, <2>1
  <2>3. Kept
    <3>1. \A i \in Elems(R) : i[1] = "add" => {i[2], i[3]} \subseteq H'
      BY <1>5, <2>2
    <3>2. task[w].op = "login" => \A o \in H' : state'[o] = "INGAME"
      BY <1>6, <1>9, <2>1, <2>2
    <3> QED
      BY <1>11, <2>1, <3>1, <3>2
  <2> QED
    BY <1>12, <2>1, <2>2, <2>3
<1>17. CASE Mt!Free(w)
  <2> DEFINE s == c[2]
  <2>1. /\ c[1] = "free" /\ slock' = [slock EXCEPT ![s] = 0]
        /\ Mt!Go(w, <<>>) /\ state' = [state EXCEPT ![s] = "FREE"] /\ UNCHANGED lives
    BY <1>4, <1>17 DEF Mt!Free
  <2>2. task[w].op # "login" /\ H = {s}
    BY <1>6, <1>8, <2>1
  <2>3. \A u \in Workers \ {w} : Held(u)' = Held(u)
    <3> HIDE DEF s
    <3> QED
      BY <1>1, <2>1, <2>2, GivesBack
  <2>4. \A o \in Mt!Slots : o # s => state'[o] = state[o]
    BY <1>1, <2>1 DEF MtType
  <2>5. Kept
    <3>1. \A i \in Elems(R) : i[1] = "add" => {i[2], i[3]} \subseteq H'
      BY <1>5, <2>2
    <3>2. Mt!Go(w, <<>>) /\ lives' = lives
      BY <2>1
    <3>3. task[w].op = "login" => \A o \in H' : state'[o] = "INGAME"
      BY <2>2
    <3> HIDE DEF Kept
    <3> QED
      BY <1>11, <3>1, <3>2, <3>3
  <2> QED
    BY <1>12, <2>1, <2>2, <2>3, <2>4, <2>5
<1>18. CASE Mt!Look(w)
  <2> DEFINE j == c[3]
             v == <<"visit", c[2], j>>
             more == IF state[j] = "INGAME" THEN <<v>> ELSE <<>>
  <2>1. /\ c[1] = "look" /\ Mt!Go(w, more) /\ UNCHANGED <<state, slock, lives>>
    BY <1>4, <1>18 DEF Mt!Look
  <2>2. task[w].op = "login" /\ c[2] = p /\ j \in Mt!Slots \ {p}
    BY <1>6, <2>1
  <2>3. v \in Instr /\ v \in Does("login", p) /\ v[1] = "visit"
    <3>1. v = <<"visit", p, j>>
      BY <2>2
    <3> QED
      BY <1>5, <2>2, <3>1, MeParts DEF Instr, Does
  <2> HIDE DEF v
  <2>4. /\ more \in Seq(Instr) /\ Elems(more) \subseteq {v} /\ Follows(more)
    <3>1. <<v>> \in Seq(Instr) /\ Elems(<<v>>) = {v} /\ <<>> \in Seq(Instr)
      BY <2>3, ElemsOne
    <3>2. Follows(<<v>>)
      BY <2>3, <3>1, FollowsPlain
    <3> QED
      BY <3>1, <3>2, ElemsNone
  <2> HIDE DEF more
  <2>5. \A u \in Workers : Held(u)' = Held(u)
    BY <1>10, <2>1
  <2>6. Kept
    <3>1. Elems(more) \subseteq Does(task[w].op, task[w].id)
      BY <2>2, <2>3, <2>4 DEF p
    <3>2. \A i \in Elems(more) \cup Elems(R) : i[1] # "add"
      BY <1>7, <2>1, <2>2, <2>3, <2>4
    <3>3. \A o \in H' : state'[o] = "INGAME"
      BY <1>9, <2>1, <2>2, <2>5
    <3>4. \A i \in Elems(more) : i[1] # "done"
      BY <2>3, <2>4
    <3> QED
      BY <1>1, <1>2, <2>1, <2>4, <3>1, <3>2, <3>3, <3>4, KnowsGoes DEF R, p
  <2> QED
    BY <1>12, <2>1, <2>5, <2>6
<1>19. CASE Mt!Visit(w)
  <2> DEFINE j == c[3]
             greets == state[j] = "INGAME"
             a == <<"add", p, j>>
             b == <<"add", j, p>>
             ul == Me("unlock", j)
             more == IF greets THEN Mt!GreetProgram(c[2], j) ELSE <<>>
  <2>1. /\ c[1] = "visit" /\ slock[j] = 0
        /\ slock' = IF greets THEN [slock EXCEPT ![j] = w] ELSE slock
        /\ Mt!Go(w, more) /\ UNCHANGED <<state, lives>>
    BY <1>4, <1>19 DEF Mt!Visit
  <2>2. /\ task[w].op = "login" /\ c[2] = p /\ j \in Mt!Slots \ {p} /\ H = {p}
    BY <1>6, <1>7, <2>1
  <2>3. /\ a \in Instr /\ b \in Instr /\ ul \in Instr
        /\ {a, b, ul} \subseteq Does("login", p)
        /\ a[1] = "add" /\ b[1] = "add" /\ ul[1] = "unlock"
        /\ {a[2], a[3], b[2], b[3]} = {p, j}
    BY <1>5, <2>2, MeParts DEF Instr, Does
  <2>4. greets => more = <<a, b, ul>>
    <3>1. greets => j <= MaxClients
      BY <2>2 DEF MtInv, FirstSlots
    <3>2. greets => Mt!m_id(j) = j
      BY <1>1, <2>2, <3>1 DEF Mt!m_id, Mt!Slots
    <3> QED
      BY <2>2, <3>2 DEF Mt!GreetProgram, Me
  <2>5. ~greets => more = <<>>
    OBVIOUS
  <2> HIDE DEF a, b, ul, more
  <2>6. /\ more \in Seq(Instr) /\ Follows(more)
        /\ greets => Elems(more) = {a, b, ul}
        /\ ~greets => Elems(more) = {}
    <3>1. <<a, b, ul>> \in Seq(Instr) /\ Elems(<<a, b, ul>>) = {a, b, ul} /\ <<>> \in Seq(Instr)
      BY <2>3, ElemsThree
    <3>2. Follows(<<a, b, ul>>)
      BY <2>3, <3>1, FollowsPlain
    <3> QED
      BY <2>4, <2>5, <3>1, <3>2, ElemsNone
  <2>7. /\ H' = (IF greets THEN {p, j} ELSE {p})
        /\ \A u \in Workers \ {w} : Held(u)' = Held(u)
    <3>1. CASE greets
      <4>1. slock' = [slock EXCEPT ![j] = w] /\ j \in Mt!Slots /\ slock[j] = 0
        BY <2>1, <2>2, <3>1
      <4> HIDE DEF j
      <4>2. H' = H \cup {j} /\ \A u \in Workers \ {w} : Held(u)' = Held(u)
        BY <1>1, <4>1, Takes
      <4> QED
        BY <2>2, <3>1, <4>2
    <3>2. CASE ~greets
      BY <1>10, <2>1, <2>2, <3>2
    <3> QED
      BY <3>1, <3>2
  <2>8. Kept
    <3>1. Elems(more) \subseteq Does(task[w].op, task[w].id)
      BY <2>2, <2>3, <2>6 DEF p
    <3>2. \A i \in Elems(R) : i[1] # "add"
      BY <1>7, <2>1, <2>2
    <3>3. \A i \in Elems(more) : i[1] = "add" => {i[2], i[3]} \subseteq H'
      <4>1. CASE greets
        <5>1. {a[2], a[3]} \subseteq H' /\ {b[2], b[3]} \subseteq H'
          BY <2>3, <2>7, <4>1
        <5> QED
          BY <2>3, <2>6, <4>1, <5>1
      <4>2. CASE ~greets
        BY <2>6, <4>2
      <4> QED
        BY <4>1, <4>2
    <3>4. \A o \in H' : state'[o] = "INGAME"
      BY <1>9, <2>1, <2>2, <2>7
    <3>5. \A i \in Elems(more) \cup Elems(R) : i[1] = "add" => {i[2], i[3]} \subseteq H'
      BY <3>2, <3>3
    <3>6. \A i \in Elems(more) : i[1] # "done"
      BY <2>3, <2>6
    <3> QED
      BY <1>1, <1>2, <2>1, <2>6, <3>1, <3>4, <3>5, <3>6, KnowsGoes DEF R, p
  <2> QED
    BY <1>12, <2>1, <2>7, <2>8
<1>20. CASE Mt!Tell(w)
  <2> DEFINE i == c[2]
             told == state[i] = "INGAME"
             b == <<"remove", i, p>>
             ul == Me("unlock", i)
             more == IF told THEN << <<"remove", Mt!m_id(i), c[3]>>, ul>> ELSE <<>>
  <2>1. /\ c[1] = "tell" /\ slock[i] = 0
        /\ slock' = IF told THEN [slock EXCEPT ![i] = w] ELSE slock
        /\ Mt!Go(w, more) /\ UNCHANGED <<state, lives>>
    BY <1>4, <1>20 DEF Mt!Tell, Me
  <2>2. task[w].op \in {"quit", "abort"} /\ i \in Mt!Slots \ {p} /\ c[3] = p
    BY <1>6, <2>1
  <2>3. /\ b \in Instr /\ ul \in Instr /\ b[1] = "remove" /\ ul[1] = "unlock"
        /\ {b, ul} \subseteq Does(task[w].op, p)
    BY <1>5, <2>2, MeParts DEF Instr, Does
  <2>4. told => more = <<b, ul>>
    <3>1. told => i <= MaxClients
      BY <2>2 DEF MtInv, FirstSlots
    <3>2. told => Mt!m_id(i) = i
      BY <1>1, <2>2, <3>1 DEF Mt!m_id, Mt!Slots
    <3> QED
      BY <2>2, <3>2
  <2>5. ~told => more = <<>>
    OBVIOUS
  <2> HIDE DEF b, ul, more
  <2>6. /\ more \in Seq(Instr) /\ Follows(more) /\ Elems(more) \subseteq {b, ul}
    <3>1. <<b, ul>> \in Seq(Instr) /\ Elems(<<b, ul>>) = {b, ul} /\ <<>> \in Seq(Instr)
      BY <2>3, ElemsTwo
    <3>2. Follows(<<b, ul>>)
      BY <2>3, <3>1, FollowsPlain
    <3> QED
      BY <2>4, <2>5, <3>1, <3>2, ElemsNone
  <2>7. \A u \in Workers \ {w} : Held(u)' = Held(u)
    <3>1. CASE told
      <4>1. slock' = [slock EXCEPT ![i] = w] /\ i \in Mt!Slots /\ slock[i] = 0
        BY <2>1, <2>2, <3>1
      <4> HIDE DEF i
      <4> QED
        BY <1>1, <4>1, Takes
    <3>2. CASE ~told
      BY <1>10, <2>1, <3>2
    <3> QED
      BY <3>1, <3>2
  <2>8. Kept
    <3>1. Elems(more) \subseteq Does(task[w].op, task[w].id)
      BY <2>3, <2>6 DEF p
    <3>2. \A x \in Elems(more) \cup Elems(R) : x[1] # "add"
      BY <1>5, <2>2, <2>3, <2>6
    <3>3. \A x \in Elems(more) : x[1] # "done"
      BY <2>3, <2>6
    <3> QED
      BY <1>1, <1>2, <2>1, <2>2, <2>6, <3>1, <3>2, <3>3, KnowsGoes DEF R, p
  <2> QED
    BY <1>12, <2>1, <2>7, <2>8
<1> QED
  BY <1>13, <1>14, <1>15, <1>16, <1>17, <1>18, <1>19, <1>20 DEF Mt!Work

LEMMA KnowsFinish ==
    ASSUME Mt!MtServerAssumption, MtInv, \A u \in Workers : Knows(u),
           NEW w \in Workers, Mt!Finish(w)
    PROVE  /\ \A u \in Workers : Knows(u)'
           /\ \A u \in Workers \ {w} : task'[u] = task[u]
           /\ task'[w].op = "idle" /\ Todo(w)' = <<>>
<1>1. /\ task' = [task EXCEPT ![w] = Mt!Idle] /\ UNCHANGED <<state, slock, lives>>
  BY DEF Mt!Finish
<1>2. /\ task \in [Workers -> Handlers]
      /\ Mt!Idle.op = "idle" /\ Mt!Idle.todo = <<>>
  BY DEF MtInv, MtType, Mt!Idle
<1>3. task'[w] = Mt!Idle /\ \A u \in Workers \ {w} : task'[u] = task[u]
  BY <1>1, <1>2
<1>4. \A u \in Workers : Held(u)' = Held(u)
  BY <1>1 DEF Held
<1>5. task'[w].op = "idle" /\ Todo(w)' = <<>>
  BY <1>2, <1>3 DEF Todo
<1>6. Knows(w)'
  <2>1. Elems(<<>>) = {} /\ Follows(<<>>) /\ Ends(<<>>)
    BY ElemsNone DEF Ends
  <2>2. Elems(Todo(w)') = {} /\ Follows(Todo(w)') /\ Ends(Todo(w)')
    BY <1>5, <2>1
  <2> QED
    BY <1>5, <2>2 DEF Knows
<1>7. \A u \in Workers : Knows(u)'
  BY <1>1, <1>3, <1>4, <1>6, OthersKnow
<1> QED
  BY <1>3, <1>5, <1>7

LEMMA KnowsBegins ==
    ASSUME MtInv, \A u \in Workers : Knows(u), UNCHANGED <<state, slock, lives>>,
           NEW w \in Workers, NEW op \in Ops, NEW p \in Mt!Slots, NEW T, Mt!Begin(w, op, p, T),
           lives[p] >= 1, T # <<>>, Elems(T) \subseteq Does(op, p), Follows(T), Ends(T),
           \A i \in Elems(T) : i[1] # "add",
           op = "login" => Head(T) = Me("lock", p)
    PROVE  /\ \A u \in Workers : Knows(u)'
           /\ task[w].op = "idle" /\ Todo(w) = <<>>
           /\ \A u \in Workers \ {w} : task'[u] = task[u]
           /\ task'[w].op = op /\ task'[w].id = p /\ Todo(w)' = T
<1> DEFINE t == [op |-> op, id |-> p, life |-> lives[p], todo |-> T]
<1>1. task \in [Workers -> Handlers] /\ lives[p] \in Nat
  BY DEF MtInv, MtType
<1>2. task[w] = Mt!Idle /\ task' = [task EXCEPT ![w] = t]
  BY DEF Mt!Begin
<1>3. t.op = op /\ t.id = p /\ t.life = lives[p] /\ t.todo = T
  OBVIOUS
<1> HIDE DEF t
<1>4. task'[w] = t /\ \A u \in Workers \ {w} : task'[u] = task[u]
  BY <1>1, <1>2
<1>5. /\ task'[w].op = op /\ task'[w].id = p /\ task'[w].life = lives[p] /\ Todo(w)' = T
  BY <1>3, <1>4 DEF Todo
<1>6. task[w].op = "idle" /\ Todo(w) = <<>>
  BY <1>2 DEF Mt!Idle, Todo
<1>7. \A u \in Workers : Held(u)' = Held(u)
  BY DEF Held
<1>8. Knows(w)'
  <2>1. lives'[p] = lives[p] /\ lives[p] \in 1..lives[p]
    BY <1>1
  <2>2. op = "login" => Head(T)[1] = "lock"
    BY DEF Me
  <2> QED
    BY <1>5, <2>1, <2>2 DEF Knows
<1>9. \A u \in Workers : Knows(u)'
  BY <1>4, <1>7, <1>8, OthersKnow
<1> QED
  BY <1>4, <1>5, <1>6, <1>9

(* The first client of a slot: no handler of it goes on beside another.    *)
LEMMA OneHandler ==
    ASSUME Mt!MtServerAssumption, MtInv, \A u \in Workers : Knows(u),
           NEW q \in Mt!Slots, FirstLife(q), lives[q] <= 1, NEW u \in Of(q)
    PROVE  lives[q] = 1 /\ task[u].op \in {"login", "move", "quit"} /\ Mt!Busy(q)
<1>1. u \in Workers /\ task[u].op # "idle" /\ task[u].id = q /\ task[u].op # "abort"
  BY DEF Of, FirstLife
<1>2. task[u].op \in Ops /\ lives[q] \in Nat /\ task[u].life \in 1..lives[q]
  BY <1>1 DEF MtInv, MtType, Handlers, Knows, Ops
<1>3. task[u].op \in {"login", "move", "quit"} /\ lives[q] = 1 /\ task[u].life = lives[q]
  BY <1>1, <1>2 DEF Ops
<1> QED
  BY <1>1, <1>3 DEF Mt!Busy

LEMMA LockThenFree ==
    ASSUME NEW T, NEW H, OtherAt(T, H), T # <<>>, Head(T)[1] = "lock"
    PROVE  Tail(T) # <<>> /\ Head(Tail(T))[1] = "free"
<1>1. CASE H = {} /\ Calm(T)
  BY <1>1, CalmStep
<1>2. ASSUME NEW o \in Mt!Slots, NEW R, Calm(R),
             \/ T = <<Me("free", o)>> \o R
             \/ T = <<Me("unlock", o)>> \o R
             \/ \E b \in Instr : b[1] = "remove" /\ T = <<b>> \o (<<Me("unlock", o)>> \o R)
      PROVE  FALSE
  <2> DEFINE f == Me("free", o)
             ul == Me("unlock", o)
             Q == <<ul>> \o R
  <2>1. R \in Seq(Instr) /\ f \in Instr /\ ul \in Instr /\ f[1] = "free" /\ ul[1] = "unlock"
    BY <1>2, MeParts DEF Calm
  <2>2. T = <<f>> \o R \/ T = Q \/ \E b \in Instr : b[1] = "remove" /\ T = <<b>> \o Q
    BY <1>2
  <2> HIDE DEF f, ul
  <2>3. Q \in Seq(Instr) /\ Head(Q) = ul /\ Head(<<f>> \o R) = f
    BY <2>1, Cons
  <2> HIDE DEF Q
  <2>4. \A b \in Instr : Head(<<b>> \o Q) = b
    BY <2>3, Cons
  <2> QED
    BY <2>1, <2>2, <2>3, <2>4
<1> QED
  BY <1>1, <1>2 DEF OtherAt

LEMMA FirstLifeWork ==
    ASSUME Mt!MtServerAssumption, MaxClients < MAX_USER, ShownInv,
           NEW w \in Workers, Mt!Work(w), ~ Mt!Finish(w), NEW q \in Mt!Slots
    PROVE  FirstLife(q)'
<1> DEFINE T == Todo(w)
           R == Tail(T)
           p == task[w].id
           c == Head(T)
<1>1. /\ MtInv /\ Screens /\ FirstLife(q) /\ \A u \in Workers : Knows(u)
      /\ MAX_USER \in Nat /\ MaxClients \in 0..MAX_USER
  BY DEF ShownInv, Mt!MtServerAssumption
<1>2. /\ lives' = lives
      /\ \A u \in Workers \ {w} : task'[u] = task[u]
      /\ task'[w].op = task[w].op /\ task'[w].id = task[w].id
  BY <1>1, KnowsWork
<1>3. Of(q)' = Of(q)
  BY <1>2 DEF Of
<1>4. T # <<>>
  BY DEF Mt!Work, Mt!Lock, Mt!Unlock, Mt!Enter, Mt!Look, Mt!Visit, Mt!TellMove, Mt!Tell,
         Mt!Free, Mt!Send, Mt!Finish, Mt!At, Todo
<1>5. /\ Mt!First(w) = c[2] /\ Mt!Second(w) = c[3]
      /\ \A op : Mt!At(w, op) <=> c[1] = op
  BY <1>4 DEF Mt!First, Mt!Second, Mt!At, Todo
<1>6. /\ task[w].op \in Ops /\ task[w].op # "idle" /\ p \in Mt!Slots
      /\ c \in Does(task[w].op, p)
  BY <1>1, <1>4, HeadKnows
<1>7. /\ c[1] \in {"enter", "look", "visit", "add"} => task[w].op = "login"
      /\ c[1] = "tellMove" => task[w].op = "move"
      /\ c[1] \in {"free", "tell", "remove"} => task[w].op \in {"quit", "abort"}
      /\ c[1] \in {"lock", "enter", "free"} => c = Me(c[1], p)
  BY <1>6, DoesKinds
<1>8. CASE ~(lives[q] <= 1)
  BY <1>2, <1>8 DEF FirstLife
<1>9. CASE lives[q] <= 1
  <2>1. /\ aborted[q] = 0
        /\ \A u \in Of(q) : task[u].op # "abort"
        /\ \A u, v \in Of(q) : u = v
        /\ \A u \in Of(q) : task[u].op = "quit" /\ Head(Todo(u))[1] \notin {"lock", "free"}
                              => state[q] = "FREE"
    BY <1>1, <1>9 DEF FirstLife
  <2>2. aborted'[q] = 0
    <3>1. CASE Mt!Free(w)
      <4>1. c[1] = "free" /\ aborted' = IF ~open[c[2]] \/ Mt!Busy(c[2]) THEN aborted
                                        ELSE [aborted EXCEPT ![c[2]] = @ + 1]
        BY <1>5, <3>1 DEF Mt!Free
      <4>2. c[2] = p
        BY <1>7, <4>1 DEF Me
      <4>3. p = q => Mt!Busy(q)
        <5> SUFFICES ASSUME p = q PROVE Mt!Busy(q)
          OBVIOUS
        <5>1. w \in Of(q)
          BY <1>6 DEF Of
        <5> QED
          BY <1>1, <1>9, <5>1, OneHandler
      <4>4. aborted \in [Mt!Slots -> Nat]
        BY <1>1 DEF Screens
      <4> HIDE DEF p, c
      <4> QED
        BY <2>1, <4>1, <4>2, <4>3, <4>4
    <3>2. CASE ~Mt!Free(w)
      <4>1. aborted' = aborted
        BY <3>2 DEF Mt!Work, Mt!Lock, Mt!Unlock, Mt!Enter, Mt!Look, Mt!Visit, Mt!TellMove,
                    Mt!Tell, Mt!Send, Mt!Finish
      <4> QED
        BY <2>1, <4>1
    <3> QED
      BY <3>1, <3>2
  <2>3. \A u \in Of(q)' : task'[u].op # "abort"
    BY <1>2, <1>3, <2>1 DEF Of
  <2>4. \A u, v \in Of(q)' : u = v
    BY <1>3, <2>1
  <2>5. state \in [Mt!Slots -> {"FREE", "CONNECTED", "INGAME"}]
    BY <1>1 DEF MtInv, MtType
  <2>6. ASSUME state'[q] # state[q]
        PROVE  p = q /\ (Mt!Enter(w) \/ Mt!Free(w))
    <3>1. Mt!Enter(w) \/ Mt!Free(w)
      BY <2>6 DEF Mt!Work, Mt!Lock, Mt!Unlock, Mt!Look, Mt!Visit, Mt!TellMove, Mt!Tell,
                  Mt!Send, Mt!Finish
    <3>2. c[2] = p
      BY <1>5, <1>7, <3>1 DEF Mt!Enter, Mt!Free, Me
    <3>3. \E s : state' = [state EXCEPT ![c[2]] = s]
      BY <1>5, <3>1 DEF Mt!Enter, Mt!Free
    <3> HIDE DEF p, c
    <3> QED
      BY <2>5, <2>6, <3>1, <3>2, <3>3
  <2>7. ASSUME NEW u \in Of(q), u # w, task[u].op = "quit",
               Head(Todo(u))[1] \notin {"lock", "free"}
        PROVE  state'[q] = "FREE"
    <3>1. state[q] = "FREE"
      BY <2>1, <2>7
    <3>2. w \notin Of(q)
      BY <2>1, <2>7
    <3>3. p # q
      BY <1>6, <3>2 DEF Of
    <3> QED
      BY <2>6, <3>1, <3>3
  <2>8. ASSUME w \in Of(q), task[w].op = "quit", Head(Todo(w)')[1] \notin {"lock", "free"}
        PROVE  state'[q] = "FREE"
    <3>1. p = q
      BY <2>8 DEF Of
    <3>2. CASE c[1] = "lock"
      <4>1. Mt!Go(w, <<>>)
        BY <1>5, <3>2 DEF Mt!Work, Mt!Lock, Mt!Unlock, Mt!Enter, Mt!Look, Mt!Visit,
                          Mt!TellMove, Mt!Tell, Mt!Free, Mt!Send, Mt!Finish
      <4>2. Todo(w)' = R
        BY <1>1, <1>4, <4>1, GoesPlain
      <4>3. OtherAt(T, Held(w))
        BY <1>1, <1>4, <2>8, AtInstr
      <4> HIDE DEF T
      <4>4. Head(R)[1] = "free"
        BY <1>4, <3>2, <4>3, LockThenFree
      <4> QED
        BY <2>8, <4>2, <4>4
    <3>3. CASE c[1] = "free"
      <4>1. state' = [state EXCEPT ![c[2]] = "FREE"]
        BY <1>5, <3>3 DEF Mt!Work, Mt!Lock, Mt!Unlock, Mt!Enter, Mt!Look, Mt!Visit,
                          Mt!TellMove, Mt!Tell, Mt!Free, Mt!Send, Mt!Finish
      <4>2. c[2] = q
        BY <1>7, <3>1, <3>3 DEF Me
      <4> HIDE DEF c
      <4> QED
        BY <2>5, <4>1, <4>2
    <3>4. CASE c[1] \notin {"lock", "free"}
      <4>1. state[q] = "FREE"
        BY <2>1, <2>8, <3>4
      <4>2. ~Mt!Enter(w) /\ ~Mt!Free(w)
        BY <1>5, <1>7, <2>8, <3>4 DEF Mt!Enter, Mt!Free
      <4> QED
        BY <2>6, <4>1, <4>2
    <3> QED
      BY <3>2, <3>3, <3>4
  <2>9. \A u \in Of(q)' : task'[u].op = "quit" /\ Head(Todo(u)')[1] \notin {"lock", "free"}
                            => state'[q] = "FREE"
    <3> SUFFICES ASSUME NEW u \in Of(q), task'[u].op = "quit",
                        Head(Todo(u)')[1] \notin {"lock", "free"}
                 PROVE  state'[q] = "FREE"
      BY <1>3
    <3>1. CASE u = w
      BY <1>2, <2>8, <3>1
    <3>2. CASE u # w
      <4>1. task'[u] = task[u] /\ Todo(u)' = Todo(u)
        BY <1>2, <3>2 DEF Of, Todo
      <4> QED
        BY <2>7, <3>2, <4>1
    <3> QED
      BY <3>1, <3>2
  <2> QED
    BY <2>2, <2>3, <2>4, <2>9 DEF FirstLife
<1> QED
  BY <1>8, <1>9

LEMMA FirstLifeFinish ==
    ASSUME Mt!MtServerAssumption, ShownInv,
           NEW w \in Workers, Mt!Finish(w), NEW q \in Mt!Slots
    PROVE  FirstLife(q)'
<1>1. MtInv /\ (\A u \in Workers : Knows(u)) /\ FirstLife(q)
  BY DEF ShownInv
<1>2. /\ \A u \in Workers \ {w} : task'[u] = task[u]
      /\ task'[w].op = "idle" /\ UNCHANGED <<state, lives, aborted>>
  BY <1>1, KnowsFinish DEF Mt!Finish
<1>3. \A u \in Of(q)' : u \in Of(q) /\ task'[u] = task[u] /\ Todo(u)' = Todo(u)
  BY <1>2 DEF Of, Todo
<1> QED
  BY <1>1, <1>2, <1>3 DEF FirstLife

(* A handler begins: of a slot that had other clients before, or as the    *)
(* only one of its client.                                                 *)
LEMMA FirstLifeBegins ==
    ASSUME Mt!MtServerAssumption, ShownInv, NEW q \in Mt!Slots,
           NEW w \in Workers, NEW op \in Ops, NEW p \in Mt!Slots,
           \A u \in Workers \ {w} : task'[u] = task[u],
           task[w].op = "idle", task'[w].op = op, task'[w].id = p,
           op = "quit" => Head(Todo(w)')[1] = "lock",
           op = "abort" => lives[p] > 1,
           op # "abort" => ~Mt!Busy(p) /\ aborted' = aborted,
           \A o \in Mt!Slots : o # p => aborted'[o] = aborted[o],
           UNCHANGED <<state, lives>>
    PROVE  FirstLife(q)'
<1>1. MtInv /\ (\A u \in Workers : Knows(u)) /\ FirstLife(q)
  BY DEF ShownInv
<1>2. CASE ~(lives[q] <= 1)
  BY <1>2 DEF FirstLife
<1>3. CASE lives[q] <= 1 /\ p # q
  <2>1. \A u \in Of(q)' : u \in Of(q) /\ task'[u] = task[u] /\ Todo(u)' = Todo(u)
    BY <1>3 DEF Of, Todo
  <2> QED
    BY <1>1, <1>3, <2>1 DEF FirstLife
<1>4. CASE lives[q] <= 1 /\ p = q
  <2>1. lives[q] \in Nat
    BY <1>1 DEF MtInv, MtType
  <2>2. op # "abort"
    BY <1>4, <2>1
  <2>3. \A u \in Of(q) : FALSE
    BY <1>1, <1>4, <2>2, OneHandler
  <2>4. \A u \in Of(q)' : u = w
    BY <2>3 DEF Of
  <2> QED
    BY <1>1, <1>4, <2>2, <2>4 DEF FirstLife
<1> QED
  BY <1>2, <1>3, <1>4

LEMMA FirstLifeAccept ==
    ASSUME Mt!MtServerAssumption, ShownInv, NEW q \in Mt!Slots,
           NEW w \in Workers, NEW p \in Mt!Slots, Mt!Accept(w, p)
    PROVE  FirstLife(q)'
<1>1. MtInv /\ (\A u \in Workers : Knows(u)) /\ FirstLife(q)
  BY DEF ShownInv
<1>2. /\ state' = [state EXCEPT ![p] = "CONNECTED"]
      /\ lives' = [lives EXCEPT ![p] = @ + 1]
      /\ UNCHANGED <<aborted, task>>
  BY DEF Mt!Accept
<1>3. /\ state \in [Mt!Slots -> {"FREE", "CONNECTED", "INGAME"}]
      /\ lives \in [Mt!Slots -> Nat]
  BY <1>1 DEF MtInv, MtType
<1>4. Of(q)' = Of(q) /\ \A u \in Workers : Todo(u)' = Todo(u)
  BY <1>2 DEF Of, Todo
<1>5. CASE p # q
  <2>1. lives'[q] = lives[q] /\ state'[q] = state[q]
    BY <1>2, <1>3, <1>5
  <2>2. \A u \in Of(q) : u \in Workers
    BY DEF Of
  <2> QED
    BY <1>1, <1>2, <1>4, <2>1, <2>2 DEF FirstLife
<1>6. CASE p = q /\ lives'[q] <= 1
  <2>1. lives[q] <= 1 /\ lives[q] # 1
    BY <1>2, <1>3, <1>6
  <2>2. \A u \in Of(q) : FALSE
    BY <1>1, <2>1, OneHandler
  <2> QED
    BY <1>1, <1>2, <1>4, <2>1, <2>2 DEF FirstLife
<1> QED
  BY <1>5, <1>6 DEF FirstLife

-----------------------------------------------------------------------------
LEMMA ScreensWork ==
    ASSUME Mt!MtServerAssumption, MaxClients < MAX_USER, ShownInv,
           NEW w \in Workers, Mt!Work(w)
    PROVE  Screens'
<1> DEFINE T == Todo(w)
           p == task[w].id
           c == Head(T)
<1>1. MtInv /\ Screens /\ \A u \in Workers : Knows(u)
  BY DEF ShownInv
<1>2. /\ state \in [Mt!Slots -> {"FREE", "CONNECTED", "INGAME"}]
      /\ lives \in [Mt!Slots -> Nat]
  BY <1>1 DEF MtInv, MtType
<1>3. T # <<>>
  BY DEF Mt!Work, Mt!Lock, Mt!Unlock, Mt!Enter, Mt!Look, Mt!Visit, Mt!TellMove, Mt!Tell,
         Mt!Free, Mt!Send, Mt!Finish, Mt!At, Todo
<1>4. /\ Mt!First(w) = c[2] /\ Mt!Second(w) = c[3]
      /\ \A op : Mt!At(w, op) <=> c[1] = op
  BY <1>3 DEF Mt!First, Mt!Second, Mt!At, Todo
<1>5. /\ task[w].op \in Ops /\ p \in Mt!Slots /\ task[w].life \in 1..lives[p]
      /\ c \in Does(task[w].op, p) /\ Elems(T) = {c} \cup Elems(Tail(T))
  BY <1>1, <1>3, HeadKnows
<1>6. /\ c[1] \in {"enter", "look", "visit", "add"} => task[w].op = "login"
      /\ c[1] \in {"lock", "enter", "free"} => c = Me(c[1], p)
      /\ c[1] \in {"tell", "remove"} => c[2] \in Mt!Slots \ {p} /\ c[3] = p
      /\ c[1] = "add" => \E j \in Mt!Slots \ {p} : c = <<"add", p, j>> \/ c = <<"add", j, p>>
  BY <1>5, DoesKinds
<1>7. c[1] = "add" => state[c[2]] = "INGAME"
  <2> SUFFICES ASSUME c[1] = "add" PROVE state[c[2]] = "INGAME"
    OBVIOUS
  <2>1. c[2] \in Held(w)
    BY <1>1, <1>5 DEF Knows
  <2> QED
    BY <1>1, <1>3, <1>6, <2>1 DEF Knows
<1> HIDE DEF c, p
<1>8. CASE Mt!Enter(w)
  <2>1. /\ c[1] = "enter" /\ state' = [state EXCEPT ![c[2]] = "INGAME"]
        /\ UNCHANGED <<open, shown, lives, aborted>>
    BY <1>4, <1>8 DEF Mt!Enter
  <2>2. c[2] = p /\ lives[p] >= 1
    BY <1>2, <1>5, <1>6, <2>1 DEF Me
  <2>3. \A o \in Mt!Slots : state'[o] = IF o = p THEN "INGAME" ELSE state[o]
    BY <1>2, <2>1, <2>2
  <2> QED
    BY <1>1, <2>1, <2>2, <2>3 DEF Screens
<1>9. CASE Mt!Free(w)
  <2>1. /\ c[1] = "free" /\ state' = [state EXCEPT ![c[2]] = "FREE"]
        /\ open' = [open EXCEPT ![c[2]] = FALSE]
        /\ aborted' = IF ~open[c[2]] \/ Mt!Busy(c[2]) THEN aborted
                      ELSE [aborted EXCEPT ![c[2]] = @ + 1]
        /\ UNCHANGED <<shown, lives>>
    BY <1>4, <1>9 DEF Mt!Free
  <2>2. c[2] = p
    BY <1>6, <2>1 DEF Me
  <2>3. open \in [Mt!Slots -> BOOLEAN] /\ aborted \in [Mt!Slots -> Nat]
    BY <1>1 DEF Screens
  <2>4. /\ open' \in [Mt!Slots -> BOOLEAN] /\ aborted' \in [Mt!Slots -> Nat]
        /\ state'[p] = "FREE" /\ open'[p] = FALSE
        /\ aborted'[p] = aborted[p] \/ (open[p] /\ aborted'[p] = aborted[p] + 1)
        /\ \A o \in Mt!Slots : o # p => /\ state'[o] = state[o] /\ open'[o] = open[o]
                                        /\ aborted'[o] = aborted[o]
    <3>1. /\ open' \in [Mt!Slots -> BOOLEAN] /\ open'[p] = FALSE
          /\ \A o \in Mt!Slots : o # p => open'[o] = open[o]
      BY <1>5, <2>1, <2>2, <2>3
    <3>2. /\ state'[p] = "FREE"
          /\ \A o \in Mt!Slots : o # p => state'[o] = state[o]
      BY <1>2, <1>5, <2>1, <2>2
    <3>3. CASE ~open[p] \/ Mt!Busy(p)
      <4>1. aborted' = aborted
        BY <2>1, <2>2, <3>3
      <4> QED
        BY <2>3, <3>1, <3>2, <4>1
    <3>4. CASE ~(~open[p] \/ Mt!Busy(p))
      <4>1. aborted' = [aborted EXCEPT ![p] = @ + 1] /\ open[p]
        BY <2>1, <2>2, <2>3, <3>4
      <4>2. /\ aborted' \in [Mt!Slots -> Nat] /\ aborted'[p] = aborted[p] + 1
            /\ \A o \in Mt!Slots : o # p => aborted'[o] = aborted[o]
        BY <1>5, <2>3, <4>1
      <4> QED
        BY <3>1, <3>2, <4>1, <4>2
    <3> QED
      BY <3>3, <3>4
  <2>5. /\ p \notin shown[p] /\ lives[p] <= Lives /\ (lives[p] >= 1 => p <= MaxClients)
        /\ aborted[p] + (IF open[p] THEN 1 ELSE 0) <= lives[p]
    BY <1>1, <1>5 DEF Screens
  <2>6. aborted'[p] + 0 <= lives[p]
    BY <1>2, <1>5, <2>3, <2>4, <2>5
  <2>7. ASSUME NEW o \in Mt!Slots
        PROVE  /\ o \notin shown'[o]
               /\ open'[o] /\ shown'[o] # {} => state'[o] = "INGAME"
               /\ state'[o] = "FREE" => ~open'[o]
               /\ state'[o] # "FREE" => lives'[o] >= 1
               /\ lives'[o] >= 1 => o <= MaxClients
               /\ lives'[o] <= Lives
               /\ aborted'[o] + (IF open'[o] THEN 1 ELSE 0) <= lives'[o]
    <3>1. CASE o = p
      BY <2>1, <2>4, <2>5, <2>6, <3>1
    <3>2. CASE o # p
      BY ZenonT(40), <1>1, <2>1, <2>4, <3>2 DEF Screens
    <3> QED
      BY <3>1, <3>2
  <2>8. shown' \in [Mt!Slots -> SUBSET Mt!Slots]
    BY <1>1, <2>1 DEF Screens
  <2> QED
    BY <2>4, <2>7, <2>8 DEF Screens
<1>10. CASE Mt!Send(w)
  <2> DEFINE a == c[2]
             b == c[3]
  <2>1. /\ c[1] \in {"add", "remove"} /\ UNCHANGED <<state, open, lives, aborted>>
        /\ shown' = IF a = 0 \/ ~open[a] THEN shown
                    ELSE [shown EXCEPT ![a] = IF c[1] = "add" THEN @ \cup {b} ELSE @ \ {b}]
    BY <1>4, <1>10 DEF Mt!Send
  <2>2. /\ a \in Mt!Slots /\ b \in Mt!Slots /\ a # b
    BY <1>5, <1>6, <2>1
  <2>3. shown \in [Mt!Slots -> SUBSET Mt!Slots]
    BY <1>1 DEF Screens
  <2> HIDE DEF a, b
  <2>4. /\ shown' \in [Mt!Slots -> SUBSET Mt!Slots]
        /\ \A o \in Mt!Slots : o # a => shown'[o] = shown[o]
        /\ shown'[a] \subseteq shown[a] \/ (c[1] = "add" /\ shown'[a] = shown[a] \cup {b})
    <3>1. CASE a = 0 \/ ~open[a]
      <4>1. shown' = shown
        BY <2>1, <3>1
      <4> QED
        BY <2>3, <4>1
    <3>2. CASE ~(a = 0 \/ ~open[a]) /\ c[1] = "add"
      <4>1. shown' = [shown EXCEPT ![a] = @ \cup {b}]
        BY <2>1, <3>2
      <4>2. /\ shown' \in [Mt!Slots -> SUBSET Mt!Slots] /\ shown'[a] = shown[a] \cup {b}
            /\ \A o \in Mt!Slots : o # a => shown'[o] = shown[o]
        BY <2>2, <2>3, <4>1
      <4> QED
        BY <3>2, <4>2
    <3>3. CASE ~(a = 0 \/ ~open[a]) /\ c[1] # "add"
      <4>1. shown' = [shown EXCEPT ![a] = @ \ {b}]
        BY <2>1, <3>3
      <4>2. /\ shown' \in [Mt!Slots -> SUBSET Mt!Slots] /\ shown'[a] = shown[a] \ {b}
            /\ \A o \in Mt!Slots : o # a => shown'[o] = shown[o]
        BY <2>2, <2>3, <4>1
      <4> QED
        BY <4>2
    <3> QED
      BY <3>1, <3>2, <3>3
  <2>5. a \notin shown'[a] /\ (shown'[a] # {} => state[a] = "INGAME" \/ shown[a] # {})
    BY <1>1, <1>7, <2>2, <2>4 DEF Screens, a
  <2>6. ASSUME NEW o \in Mt!Slots
        PROVE  o \notin shown'[o] /\ (open[o] /\ shown'[o] # {} => state[o] = "INGAME")
    BY <1>1, <2>4, <2>5 DEF Screens
  <2> QED
    BY <1>1, <2>1, <2>4, <2>6 DEF Screens
<1>11. CASE ~Mt!Enter(w) /\ ~Mt!Free(w) /\ ~Mt!Send(w)
  <2>1. UNCHANGED <<state, open, shown, lives, aborted>>
    BY <1>11 DEF Mt!Work, Mt!Lock, Mt!Unlock, Mt!Look, Mt!Visit, Mt!TellMove, Mt!Tell,
                 Mt!Finish
  <2> QED
    BY <1>1, <2>1 DEF Screens
<1> QED
  BY <1>8, <1>9, <1>10, <1>11

LEMMA ScreensStart ==
    ASSUME Mt!MtServerAssumption, MaxClients < MAX_USER, ShownInv,
           NEW w \in Workers, Mt!Start(w)
    PROVE  Screens'
<1>1. /\ Screens /\ state \in [Mt!Slots -> {"FREE", "CONNECTED", "INGAME"}]
      /\ lives \in [Mt!Slots -> Nat]
      /\ open \in [Mt!Slots -> BOOLEAN] /\ aborted \in [Mt!Slots -> Nat]
      /\ shown \in [Mt!Slots -> SUBSET Mt!Slots] /\ Lives \in Nat
  BY DEF ShownInv, Screens, MtInv, MtType, Mt!MtServerAssumption
<1>2. ASSUME NEW p \in Mt!Slots, Mt!Accept(w, p) PROVE Screens'
  <2>1. /\ state[p] = "FREE" /\ lives[p] < Lives
        /\ state' = [state EXCEPT ![p] = "CONNECTED"]
        /\ open' = [open EXCEPT ![p] = TRUE]
        /\ lives' = [lives EXCEPT ![p] = @ + 1]
        /\ shown' = [shown EXCEPT ![p] = {}]
        /\ aborted' = aborted
    BY <1>2 DEF Mt!Accept
  <2>2. /\ state'[p] = "CONNECTED" /\ open'[p] = TRUE /\ lives'[p] = lives[p] + 1
        /\ shown'[p] = {}
        /\ open' \in [Mt!Slots -> BOOLEAN] /\ shown' \in [Mt!Slots -> SUBSET Mt!Slots]
        /\ \A o \in Mt!Slots : o # p => /\ state'[o] = state[o] /\ open'[o] = open[o]
                                        /\ lives'[o] = lives[o] /\ shown'[o] = shown[o]
    BY <1>1, <2>1
  <2>6. p <= MaxClients
    <3>1. MtInv'
      BY MtStart DEF ShownInv
    <3> QED
      BY <2>2, <3>1 DEF MtInv, FirstSlots
  <2>3. ~open[p] /\ aborted[p] + (IF open[p] THEN 1 ELSE 0) <= lives[p]
    BY <1>1, <2>1 DEF Screens
  <2>4. lives[p] + 1 <= Lives /\ lives[p] + 1 >= 1 /\ aborted[p] + 1 <= lives[p] + 1
    BY <1>1, <2>1, <2>3
  <2>5. ASSUME NEW o \in Mt!Slots
        PROVE  /\ o \notin shown'[o]
               /\ open'[o] /\ shown'[o] # {} => state'[o] = "INGAME"
               /\ state'[o] = "FREE" => ~open'[o]
               /\ state'[o] # "FREE" => lives'[o] >= 1
               /\ lives'[o] >= 1 => o <= MaxClients
               /\ lives'[o] <= Lives
               /\ aborted'[o] + (IF open'[o] THEN 1 ELSE 0) <= lives'[o]
    <3>1. CASE o = p
      BY <2>1, <2>2, <2>4, <2>6, <3>1
    <3>2. CASE o # p
      BY <1>1, <2>1, <2>2, <3>2 DEF Screens
    <3> QED
      BY <3>1, <3>2
  <2> QED
    BY <1>1, <2>1, <2>2, <2>5 DEF Screens
<1>3. ASSUME NEW p \in Mt!Slots, Mt!Abort(w, p) PROVE Screens'
  <2>1. /\ aborted[p] > 0 /\ aborted' = [aborted EXCEPT ![p] = @ - 1]
        /\ UNCHANGED <<state, open, shown, lives>>
    BY <1>3 DEF Mt!Abort
  <2>2. /\ aborted' \in [Mt!Slots -> Nat]
        /\ \A o \in Mt!Slots : aborted'[o] <= aborted[o]
    BY <1>1, <2>1
  <2>3. ASSUME NEW o \in Mt!Slots
        PROVE  aborted'[o] + (IF open[o] THEN 1 ELSE 0) <= lives[o]
    <3>1. aborted[o] + (IF open[o] THEN 1 ELSE 0) <= lives[o]
      BY <1>1 DEF Screens
    <3>2. aborted'[o] \in Nat /\ aborted[o] \in Nat /\ lives[o] \in Nat
      BY <1>1, <2>2
    <3> QED
      BY <2>2, <3>1, <3>2
  <2> QED
    BY <1>1, <2>1, <2>2, <2>3 DEF Screens
<1>4. ASSUME NEW p \in Mt!Slots, Mt!Login(w, p) \/ Mt!Move(w, p) \/ Mt!Quit(w, p)
      PROVE  Screens'
  <2>1. UNCHANGED <<state, open, shown, lives, aborted>>
    BY <1>4 DEF Mt!Login, Mt!Move, Mt!Quit
  <2> QED
    BY <1>1, <2>1 DEF Screens
<1> QED
  BY <1>2, <1>3, <1>4 DEF Mt!Start
-----------------------------------------------------------------------------
(* The instruction at which a worker is, and whose it is.                  *)
LEMMA AtWork ==
    ASSUME ShownInv, NEW w \in Workers, Mt!Work(w)
    PROVE  LET c == Head(Todo(w))
               p == task[w].id
           IN  /\ Todo(w) # <<>> /\ MtInv /\ Knows(w)
               /\ Mt!First(w) = c[2] /\ Mt!Second(w) = c[3]
               /\ \A op : Mt!At(w, op) <=> c[1] = op
               /\ p \in Mt!Slots /\ task[w].op \in Ops /\ task[w].op # "idle"
               /\ Elems(Todo(w)) = {c} \cup Elems(Tail(Todo(w)))
               /\ Owes(c) \subseteq Elems(Tail(Todo(w)))
               /\ c[1] = "done" => Tail(Todo(w)) = <<>>
               /\ c[1] \in {"lock", "enter", "free"} => c = Me(c[1], p)
               /\ c[1] \in {"free", "tell", "remove"} => task[w].op \in {"quit", "abort"}
               /\ c[1] \in {"tell", "remove"} => c[2] \in Mt!Slots \ {p} /\ c[3] = p
               /\ c[1] \in {"look", "visit"} => c[2] = p /\ c[3] \in Mt!Slots \ {p}
               /\ c[1] = "add" => \E j \in Mt!Slots \ {p} : c = <<"add", p, j>> \/ c = <<"add", j, p>>
               /\ c[1] = "add" => state[c[2]] = "INGAME" /\ state[c[3]] = "INGAME"
               /\ c = <<c[1], c[2], c[3]>>
<1> DEFINE T == Todo(w)
           c == Head(T)
           p == task[w].id
<1>1. MtInv /\ Knows(w)
  BY DEF ShownInv
<1>2. T # <<>>
  BY DEF Mt!Work, Mt!Lock, Mt!Unlock, Mt!Enter, Mt!Look, Mt!Visit, Mt!TellMove, Mt!Tell,
         Mt!Free, Mt!Send, Mt!Finish, Mt!At, Todo
<1>3. /\ Mt!First(w) = c[2] /\ Mt!Second(w) = c[3]
      /\ \A op : Mt!At(w, op) <=> c[1] = op
  BY <1>2 DEF Mt!First, Mt!Second, Mt!At, Todo
<1>4. /\ task[w].op \in Ops /\ task[w].op # "idle" /\ p \in Mt!Slots
      /\ c \in Does(task[w].op, p) /\ Elems(T) = {c} \cup Elems(Tail(T))
      /\ Owes(c) \subseteq Elems(Tail(T))
      /\ c[1] = "done" => Tail(T) = <<>>
  BY <1>1, <1>2, HeadKnows
<1>5. /\ c[1] \in {"lock", "enter", "free"} => c = Me(c[1], p)
      /\ c[1] \in {"enter", "look", "visit", "add"} => task[w].op = "login"
      /\ c[1] \in {"free", "tell", "remove"} => task[w].op \in {"quit", "abort"}
      /\ c[1] \in {"tell", "remove"} => c[2] \in Mt!Slots \ {p} /\ c[3] = p
      /\ c[1] \in {"look", "visit"} => c[2] = p /\ c[3] \in Mt!Slots \ {p}
      /\ c[1] = "add" => \E j \in Mt!Slots \ {p} : c = <<"add", p, j>> \/ c = <<"add", j, p>>
      /\ c = <<c[1], c[2], c[3]>>
  BY <1>4, DoesKinds
<1>6. c[1] = "add" => state[c[2]] = "INGAME" /\ state[c[3]] = "INGAME"
  <2> SUFFICES ASSUME c[1] = "add" PROVE state[c[2]] = "INGAME" /\ state[c[3]] = "INGAME"
    OBVIOUS
  <2>1. c[2] \in Held(w) /\ c[3] \in Held(w)
    BY <1>1, <1>4 DEF Knows
  <2> QED
    BY <1>1, <1>2, <1>5, <2>1 DEF Knows
<1> QED
  BY <1>1, <1>2, <1>3, <1>4, <1>5, <1>6

(* What was under way stays so, but for the instruction that is worked off.*)
LEMMA AwaitsGoes ==
    ASSUME MtInv, NEW w \in Workers, Todo(w) # <<>>,
           NEW more \in Seq(Instr), Mt!Go(w, more), NEW I
    PROVE  /\ Awaits(I) => Awaits(I)' \/ Head(Todo(w)) \in I
           /\ Elems(more) \cap I # {} => Awaits(I)'
           /\ Elems(Tail(Todo(w))) \cap I # {} => Awaits(I)'
<1> DEFINE T == Todo(w)
           R == Tail(T)
<1>1. T \in Seq(Instr) /\ T # <<>> /\ MtType
  BY DEF MtInv, MtType, Handlers, Todo
<1>2. /\ Todo(w)' = more \o R
      /\ \A u \in Workers \ {w} : task'[u] = task[u]
  BY <1>1, GoesOn
<1> HIDE DEF T
<1>3. Elems(T) = {Head(T)} \cup Elems(R) /\ R \in Seq(Instr)
  BY <1>1, ElemsStep
<1> HIDE DEF R
<1>4. Elems(more \o R) = Elems(more) \cup Elems(R)
  BY <1>3, ElemsJoin
<1>5. Elems(Todo(w)') \cap I # {} => Awaits(I)'
  BY DEF Awaits
<1>6. ASSUME Awaits(I), Head(T) \notin I PROVE Awaits(I)'
  <2>1. PICK u \in Workers : Elems(Todo(u)) \cap I # {}
    BY <1>6 DEF Awaits
  <2>2. CASE u = w
    BY <1>2, <1>3, <1>4, <1>5, <1>6, <2>1, <2>2 DEF T
  <2>3. CASE u # w
    <3>1. Todo(u)' = Todo(u)
      BY <1>2, <2>3 DEF Todo
    <3> QED
      BY <2>1, <3>1 DEF Awaits
  <2> QED
    BY <2>2, <2>3
<1> QED
  BY <1>2, <1>4, <1>5, <1>6 DEF R, T

(* The screens stay as they are where a step changes neither them nor the  *)
(* states, if what it works off of their messages is passed on, or void.   *)
LEMMA ShowsKept ==
    ASSUME ShownInv, NEW w \in Workers, Todo(w) # <<>>,
           NEW more \in Seq(Instr), Mt!Go(w, more), UNCHANGED <<state, shown, lives>>,
           NEW p \in Mt!Slots, NEW q \in Mt!Slots, open[p],
           Head(Todo(w)) \in Leaving(p, q) =>
              Elems(more) \cap Leaving(p, q) # {} \/ q \notin shown[p],
           Head(Todo(w)) \in Meeting(p, q) =>
              \/ Elems(more) \cap Meeting(p, q) # {}
              \/ state[p] # "INGAME" \/ state[q] # "INGAME"
    PROVE  Shows(p, q)'
<1>1. MtInv /\ Shows(p, q)
  BY DEF ShownInv
<1> DEFINE L == Leaving(p, q)
           M == Meeting(p, q)
<1>2. L' = L /\ M' = M
  BY DEF Leaving, Meeting
<1>3. /\ Awaits(L) => Awaits(L)' \/ Head(Todo(w)) \in L
      /\ Elems(more) \cap L # {} => Awaits(L)'
  BY <1>1, AwaitsGoes
<1>4. /\ Awaits(M) => Awaits(M)' \/ Head(Todo(w)) \in M
      /\ Elems(more) \cap M # {} => Awaits(M)'
  BY <1>1, AwaitsGoes
<1>5. q \in shown[p] => state[q] = "INGAME" \/ Awaits(L)'
  BY <1>1, <1>3 DEF Shows
<1>6. p # q /\ state[p] = "INGAME" /\ state[q] = "INGAME" /\ lives[q] = 1
        => q \in shown[p] \/ Awaits(M)'
  BY <1>1, <1>4 DEF Shows
<1> QED
  BY <1>5, <1>6 DEF Shows

(* login's look at another slot, and its greeting of the player there.     *)
LEMMA ShowsGreets ==
    ASSUME Mt!MtServerAssumption, MaxClients < MAX_USER, ShownInv,
           NEW w \in Workers, Mt!Work(w), Mt!Look(w) \/ Mt!Visit(w),
           NEW p \in Mt!Slots, NEW q \in Mt!Slots, open[p]
    PROVE  Shows(p, q)'
<1> DEFINE c == Head(Todo(w))
           i == c[2]
           j == c[3]
<1>1. /\ MtInv /\ MAX_USER \in Nat /\ MaxClients \in 0..MAX_USER
  BY DEF ShownInv, Mt!MtServerAssumption
<1>2. /\ Todo(w) # <<>> /\ Mt!First(w) = i /\ Mt!Second(w) = j
      /\ \A op : Mt!At(w, op) <=> c[1] = op
      /\ c[1] \in {"look", "visit"} => i \in Mt!Slots /\ j \in Mt!Slots \ {i}
      /\ c = <<c[1], i, j>>
  BY AtWork
<1>3. UNCHANGED <<state, shown, lives>>
  BY DEF Mt!Look, Mt!Visit
<1>4. c[1] \in {"look", "visit"}
  BY <1>2 DEF Mt!Look, Mt!Visit
<1>5. i \in Mt!Slots /\ j \in Mt!Slots \ {i}
  BY <1>2, <1>4
<1>6. c \notin Leaving(p, q)
  BY <1>4 DEF Leaving
<1>7. c \in Meeting(p, q) => (i = p /\ j = q) \/ (i = q /\ j = p)
  BY <1>2 DEF Meeting
<1>8. ASSUME NEW more \in Seq(Instr), Mt!Go(w, more),
             state[j] = "INGAME" => Elems(more) \cap Meeting(i, j) # {}
                                    /\ Elems(more) \cap Meeting(j, i) # {}
      PROVE  Shows(p, q)'
  <2>1. c \in Meeting(p, q) => \/ Elems(more) \cap Meeting(p, q) # {}
                               \/ state[p] # "INGAME" \/ state[q] # "INGAME"
    BY <1>7, <1>8
  <2> HIDE DEF i, j
  <2> QED
    BY <1>2, <1>3, <1>6, <1>8, <2>1, ShowsKept
<1>9. CASE Mt!Look(w)
  <2> DEFINE v == <<"visit", i, j>>
             more == IF state[j] = "INGAME" THEN <<v>> ELSE <<>>
  <2>1. Mt!Go(w, more)
    BY <1>2, <1>9 DEF Mt!Look
  <2>2. v \in Instr /\ v \in Meeting(i, j) /\ v \in Meeting(j, i)
    BY <1>5, MeParts DEF Instr, Meeting
  <2> HIDE DEF v
  <2>3. <<v>> \in Seq(Instr) /\ Elems(<<v>>) = {v} /\ <<>> \in Seq(Instr)
    BY <2>2, ElemsOne
  <2>4. /\ more \in Seq(Instr)
        /\ state[j] = "INGAME" => v \in Elems(more)
    BY <2>3
  <2> HIDE DEF more
  <2> QED
    BY <1>8, <2>1, <2>2, <2>4
<1>10. CASE Mt!Visit(w)
  <2> DEFINE greets == state[j] = "INGAME"
             a == <<"add", i, j>>
             b == <<"add", j, i>>
             ul == Me("unlock", j)
             more == IF greets THEN Mt!GreetProgram(i, j) ELSE <<>>
  <2>1. Mt!Go(w, more)
    BY <1>2, <1>10 DEF Mt!Visit
  <2>2. /\ a \in Instr /\ b \in Instr /\ ul \in Instr
        /\ a \in Meeting(i, j) /\ b \in Meeting(j, i)
    BY <1>5, MeParts DEF Instr, Meeting
  <2>3. greets => more = <<a, b, ul>>
    <3>1. greets => j <= MaxClients
      BY <1>1, <1>5 DEF MtInv, FirstSlots
    <3>2. greets => Mt!m_id(j) = j
      BY <1>1, <1>5, <3>1 DEF Mt!m_id, Mt!Slots
    <3> QED
      BY <3>2 DEF Mt!GreetProgram, Me
  <2>4. ~greets => more = <<>>
    OBVIOUS
  <2> HIDE DEF a, b, ul, more
  <2>5. <<a, b, ul>> \in Seq(Instr) /\ Elems(<<a, b, ul>>) = {a, b, ul} /\ <<>> \in Seq(Instr)
    BY <2>2, ElemsThree
  <2>6. more \in Seq(Instr) /\ (greets => a \in Elems(more) /\ b \in Elems(more))
    BY <2>3, <2>4, <2>5
  <2> QED
    BY <1>8, <2>1, <2>2, <2>6
<1> QED
  BY <1>9, <1>10

(* disconnect's search for those who show the player.                      *)
LEMMA ShowsTell ==
    ASSUME Mt!MtServerAssumption, MaxClients < MAX_USER, ShownInv,
           NEW w \in Workers, Mt!Work(w), Mt!Tell(w),
           NEW p \in Mt!Slots, NEW q \in Mt!Slots, open[p]
    PROVE  Shows(p, q)'
<1> DEFINE c == Head(Todo(w))
           i == c[2]
           o == c[3]
           told == state[i] = "INGAME"
           r == <<"remove", i, o>>
           ul == Me("unlock", i)
           more == IF told THEN << <<"remove", Mt!m_id(i), o>>, <<"unlock", i, i>> >> ELSE <<>>
<1>1. /\ MtInv /\ Screens /\ MAX_USER \in Nat /\ MaxClients \in 0..MAX_USER
  BY DEF ShownInv, Mt!MtServerAssumption
<1>2. /\ Todo(w) # <<>> /\ Mt!First(w) = i /\ Mt!Second(w) = o
      /\ c[1] = "tell" /\ i \in Mt!Slots \ {o} /\ o \in Mt!Slots
  BY AtWork DEF Mt!Tell
<1>3. Mt!Go(w, more) /\ UNCHANGED <<state, shown, lives>>
  BY <1>2 DEF Mt!Tell
<1>4. r \in Instr /\ ul \in Instr /\ r \in Leaving(i, o)
  BY <1>2, MeParts DEF Instr, Leaving
<1>5. told => more = <<r, ul>>
  <2>1. told => i <= MaxClients
    BY <1>1, <1>2 DEF MtInv, FirstSlots
  <2>2. told => Mt!m_id(i) = i
    BY <1>1, <1>2, <2>1 DEF Mt!m_id, Mt!Slots
  <2> QED
    BY <2>2 DEF Me
<1>6. ~told => more = <<>>
  OBVIOUS
<1> HIDE DEF r, ul, more
<1>7. <<r, ul>> \in Seq(Instr) /\ Elems(<<r, ul>>) = {r, ul} /\ <<>> \in Seq(Instr)
  BY <1>4, ElemsTwo
<1>8. more \in Seq(Instr) /\ (told => r \in Elems(more))
  BY <1>5, <1>6, <1>7
<1>9. c \notin Meeting(p, q)
  BY <1>2 DEF Meeting
<1>10. c \in Leaving(p, q) => Elems(more) \cap Leaving(p, q) # {} \/ q \notin shown[p]
  <2> SUFFICES ASSUME c \in Leaving(p, q)
               PROVE  Elems(more) \cap Leaving(p, q) # {} \/ q \notin shown[p]
    OBVIOUS
  <2>1. i = p /\ o = q
    BY DEF Leaving
  <2>2. shown[p] # {} => told
    BY <1>1, <2>1 DEF Screens
  <2> QED
    BY <1>4, <1>8, <2>1, <2>2
<1> HIDE DEF i, o
<1> QED
  BY <1>2, <1>3, <1>8, <1>9, <1>10, ShowsKept

(* The locks, and what do_move tells.                                      *)
LEMMA ShowsRest ==
    ASSUME ShownInv, NEW w \in Workers, Mt!Work(w),
           Mt!Lock(w) \/ Mt!Unlock(w) \/ Mt!TellMove(w),
           NEW p \in Mt!Slots, NEW q \in Mt!Slots, open[p]
    PROVE  Shows(p, q)'
<1> DEFINE c == Head(Todo(w))
<1>1. Todo(w) # <<>> /\ \A op : Mt!At(w, op) <=> c[1] = op
  BY AtWork
<1>2. c[1] \in {"lock", "unlock", "tellMove"}
  BY <1>1 DEF Mt!Lock, Mt!Unlock, Mt!TellMove
<1>3. c \notin Leaving(p, q) /\ c \notin Meeting(p, q)
  BY <1>2 DEF Leaving, Meeting
<1>4. Mt!Go(w, <<>>) /\ UNCHANGED <<state, shown, lives>> /\ <<>> \in Seq(Instr)
  BY DEF Mt!Lock, Mt!Unlock, Mt!TellMove
<1> QED
  BY <1>1, <1>3, <1>4, ShowsKept

LEMMA ShowsFinish ==
    ASSUME ShownInv, NEW w \in Workers, Mt!Work(w), Mt!Finish(w),
           NEW p \in Mt!Slots, NEW q \in Mt!Slots, open[p]
    PROVE  Shows(p, q)'
<1> DEFINE c == Head(Todo(w))
<1>1. MtInv /\ Shows(p, q)
  BY DEF ShownInv
<1>2. /\ \A op : Mt!At(w, op) <=> c[1] = op
      /\ Elems(Todo(w)) = {c} \cup Elems(Tail(Todo(w)))
      /\ c[1] = "done" => Tail(Todo(w)) = <<>>
  BY AtWork
<1>3. c[1] = "done"
  BY <1>2 DEF Mt!Finish
<1>4. Elems(Todo(w)) = {c}
  BY <1>2, <1>3, ElemsNone
<1>5. c \notin Leaving(p, q) /\ c \notin Meeting(p, q)
  BY <1>3 DEF Leaving, Meeting
<1>6. \A u \in Workers \ {w} : Todo(u)' = Todo(u)
  BY <1>1 DEF Mt!Finish, MtInv, MtType, Todo
<1>7. ASSUME NEW I, c \notin I, Awaits(I) PROVE Awaits(I)'
  BY <1>4, <1>6, <1>7 DEF Awaits
<1>8. UNCHANGED <<state, shown, lives>>
  BY DEF Mt!Finish
<1>9. Leaving(p, q)' = Leaving(p, q) /\ Meeting(p, q)' = Meeting(p, q)
  BY DEF Leaving, Meeting
<1>10. /\ Awaits(Leaving(p, q)) => Awaits(Leaving(p, q))'
       /\ Awaits(Meeting(p, q)) => Awaits(Meeting(p, q))'
  BY <1>5, <1>7
<1> QED
  BY <1>1, <1>8, <1>10 DEF Shows

(* A login enters the game, before it looks at the others.                 *)
LEMMA ShowsEnter ==
    ASSUME ShownInv, NEW w \in Workers, Mt!Work(w), Mt!Enter(w),
           NEW p \in Mt!Slots, NEW q \in Mt!Slots, open[p]
    PROVE  Shows(p, q)'
<1> DEFINE c == Head(Todo(w))
           x == c[2]
           L == Leaving(p, q)
           M == Meeting(p, q)
<1>1. /\ MtInv /\ Shows(p, q) /\ <<>> \in Seq(Instr)
      /\ state \in [Mt!Slots -> {"FREE", "CONNECTED", "INGAME"}]
  BY DEF ShownInv, MtInv, MtType
<1>2. /\ Todo(w) # <<>> /\ Mt!First(w) = x /\ c[1] = "enter" /\ x \in Mt!Slots
      /\ Owes(c) \subseteq Elems(Tail(Todo(w)))
  BY AtWork DEF Mt!Enter, Me
<1>3. /\ state' = [state EXCEPT ![x] = "INGAME"] /\ Mt!Go(w, <<>>)
      /\ UNCHANGED <<shown, lives>>
  BY <1>2 DEF Mt!Enter
<1>4. /\ Awaits(L) => Awaits(L)' \/ c \in L
      /\ Awaits(M) => Awaits(M)' \/ c \in M
      /\ Elems(Tail(Todo(w))) \cap M # {} => Awaits(M)'
  BY <1>1, <1>2, <1>3, AwaitsGoes
<1>5. c \notin L /\ c \notin M
  BY <1>2 DEF Leaving, Meeting
<1>6. \A i \in Mt!Slots \ {x} : <<"look", x, i>> \in Elems(Tail(Todo(w)))
  BY <1>2 DEF Owes
<1>7. p # q /\ x \in {p, q} => Awaits(M)'
  <2>1. CASE x = p /\ p # q
    <3>1. <<"look", p, q>> \in Elems(Tail(Todo(w)))
      BY <1>6, <2>1
    <3> QED
      BY <1>4, <3>1 DEF Meeting
  <2>2. CASE x = q /\ p # q
    <3>1. <<"look", q, p>> \in Elems(Tail(Todo(w)))
      BY <1>6, <2>2
    <3> QED
      BY <1>4, <3>1 DEF Meeting
  <2> QED
    BY <2>1, <2>2
<1> HIDE DEF x, c
<1>8. \A o \in Mt!Slots : state'[o] = IF o = x THEN "INGAME" ELSE state[o]
  BY <1>1, <1>2, <1>3
<1>9. q \in shown[p] => state'[q] = "INGAME" \/ Awaits(L)'
  BY <1>1, <1>4, <1>5, <1>8 DEF Shows
<1>10. p # q /\ state'[p] = "INGAME" /\ state'[q] = "INGAME" /\ lives[q] = 1
         => q \in shown[p] \/ Awaits(M)'
  BY <1>1, <1>4, <1>5, <1>7, <1>8 DEF Shows
<1> QED
  BY <1>3, <1>9, <1>10 DEF Shows

(* disconnect frees the slot, before it tells the others.                  *)
LEMMA ShowsFree ==
    ASSUME ShownInv, NEW w \in Workers, Mt!Work(w), Mt!Free(w),
           NEW p \in Mt!Slots, NEW q \in Mt!Slots, open'[p]
    PROVE  Shows(p, q)'
<1> DEFINE c == Head(Todo(w))
           x == c[2]
           L == Leaving(p, q)
           M == Meeting(p, q)
<1>1. /\ MtInv /\ Screens /\ <<>> \in Seq(Instr)
      /\ state \in [Mt!Slots -> {"FREE", "CONNECTED", "INGAME"}]
      /\ open \in [Mt!Slots -> BOOLEAN]
  BY DEF ShownInv, MtInv, MtType, Screens
<1>2. /\ Todo(w) # <<>> /\ Mt!First(w) = x /\ c[1] = "free" /\ x \in Mt!Slots
      /\ Owes(c) \subseteq Elems(Tail(Todo(w)))
  BY AtWork DEF Mt!Free, Me
<1>3. /\ state' = [state EXCEPT ![x] = "FREE"] /\ open' = [open EXCEPT ![x] = FALSE]
      /\ Mt!Go(w, <<>>) /\ UNCHANGED <<shown, lives>>
  BY <1>2 DEF Mt!Free
<1>4. /\ Awaits(L) => Awaits(L)' \/ c \in L
      /\ Awaits(M) => Awaits(M)' \/ c \in M
      /\ Elems(Tail(Todo(w))) \cap L # {} => Awaits(L)'
  BY <1>1, <1>2, <1>3, AwaitsGoes
<1>5. c \notin L /\ c \notin M
  BY <1>2 DEF Leaving, Meeting
<1>6. \A i \in Mt!Slots \ {x} : <<"tell", i, x>> \in Elems(Tail(Todo(w)))
  BY <1>2 DEF Owes
<1>7. x = q /\ p # q => Awaits(L)'
  <2> SUFFICES ASSUME x = q, p # q PROVE Awaits(L)'
    OBVIOUS
  <2>1. <<"tell", p, q>> \in Elems(Tail(Todo(w)))
    BY <1>6
  <2> QED
    BY <1>4, <2>1 DEF Leaving
<1> HIDE DEF x, c
<1>8. /\ \A o \in Mt!Slots : state'[o] = IF o = x THEN "FREE" ELSE state[o]
      /\ p # x /\ open[p]
  BY <1>1, <1>2, <1>3
<1>9. Shows(p, q) /\ p \notin shown[p]
  BY <1>1, <1>8 DEF ShownInv, Screens
<1>10. q \in shown[p] => state'[q] = "INGAME" \/ Awaits(L)'
  BY <1>4, <1>5, <1>7, <1>8, <1>9 DEF Shows
<1>11. p # q /\ state'[p] = "INGAME" /\ state'[q] = "INGAME" /\ lives[q] = 1
         => q \in shown[p] \/ Awaits(M)'
  BY <1>4, <1>5, <1>8, <1>9 DEF Shows
<1> QED
  BY <1>3, <1>10, <1>11 DEF Shows

(* A message arrives: to add a slot whose lock the login holds, or to      *)
(* remove one that its disconnect has freed.                               *)
LEMMA ShowsSend ==
    ASSUME Mt!MtServerAssumption, ShownInv, NEW w \in Workers, Mt!Work(w), Mt!Send(w),
           NEW p \in Mt!Slots, NEW q \in Mt!Slots, open[p]
    PROVE  Shows(p, q)'
<1> DEFINE c == Head(Todo(w))
           a == c[2]
           b == c[3]
           L == Leaving(p, q)
           M == Meeting(p, q)
<1>1. /\ MtInv /\ Shows(p, q) /\ <<>> \in Seq(Instr) /\ FirstLife(q)
      /\ \A u \in Workers : Knows(u)
      /\ shown \in [Mt!Slots -> SUBSET Mt!Slots] /\ 0 \notin Mt!Slots
  BY DEF ShownInv, Screens, Mt!Slots
<1>2. /\ Todo(w) # <<>> /\ Mt!First(w) = a /\ Mt!Second(w) = b /\ c[1] \in {"add", "remove"}
      /\ \A op : Mt!At(w, op) <=> c[1] = op
      /\ c[1] = "add" => state[a] = "INGAME" /\ state[b] = "INGAME"
      /\ c[1] = "remove" => b = task[w].id /\ task[w].op \in {"quit", "abort"}
      /\ c = <<c[1], a, b>> /\ a \in Mt!Slots
  BY AtWork DEF Mt!Send
<1>3. /\ shown' = IF a = 0 \/ ~open[a] THEN shown
                  ELSE [shown EXCEPT ![a] = IF c[1] = "add" THEN @ \cup {b} ELSE @ \ {b}]
      /\ Mt!Go(w, <<>>) /\ UNCHANGED <<state, lives>>
  BY <1>2 DEF Mt!Send
<1>4. /\ Awaits(L) => Awaits(L)' \/ c \in L
      /\ Awaits(M) => Awaits(M)' \/ c \in M
  BY <1>1, <1>2, <1>3, AwaitsGoes
<1>5. /\ c \in L => c[1] = "remove" /\ a = p /\ b = q
      /\ c \in M => c[1] = "add" /\ a = p /\ b = q
  BY <1>2 DEF Leaving, Meeting
<1>6. c[1] = "remove" /\ b = q /\ lives[q] = 1 => state[q] = "FREE"
  <2> SUFFICES ASSUME c[1] = "remove", b = q, lives[q] = 1 PROVE state[q] = "FREE"
    OBVIOUS
  <2>1. w \in Of(q)
    BY <1>2 DEF Of
  <2>2. task[w].op = "quit"
    BY <1>1, <1>2, <2>1, OneHandler
  <2> QED
    BY <1>1, <2>1, <2>2 DEF FirstLife
<1> HIDE DEF c, a, b
<1>7. /\ a # p => shown'[p] = shown[p]
      /\ a = p /\ c[1] = "add" => shown'[p] = shown[p] \cup {b}
      /\ a = p /\ c[1] # "add" => shown'[p] = shown[p] \ {b}
  <2>1. CASE a # p
    BY <1>1, <1>2, <1>3, <2>1
  <2>2. CASE a = p /\ c[1] = "add"
    <3>1. shown' = [shown EXCEPT ![p] = @ \cup {b}]
      BY <1>1, <1>3, <2>2
    <3> QED
      BY <1>1, <2>2, <3>1
  <2>3. CASE a = p /\ c[1] # "add"
    <3>1. shown' = [shown EXCEPT ![p] = @ \ {b}]
      BY <1>1, <1>3, <2>3
    <3> QED
      BY <1>1, <2>3, <3>1
  <2> QED
    BY <2>1, <2>2, <2>3
<1>8. q \in shown'[p] => state[q] = "INGAME" \/ Awaits(L)'
  <2> SUFFICES ASSUME q \in shown'[p], state[q] # "INGAME" PROVE Awaits(L)'
    OBVIOUS
  <2>1. q \in shown[p]
    BY <1>2, <1>7
  <2>2. c \notin L
    BY <1>5, <1>7
  <2> QED
    BY <1>1, <1>4, <2>1, <2>2 DEF Shows
<1>9. p # q /\ state[p] = "INGAME" /\ state[q] = "INGAME" /\ lives[q] = 1
        => q \in shown'[p] \/ Awaits(M)'
  <2> SUFFICES ASSUME p # q, state[p] = "INGAME", state[q] = "INGAME", lives[q] = 1,
                      q \notin shown'[p]
               PROVE  Awaits(M)'
    OBVIOUS
  <2>1. q \notin shown[p]
    BY <1>2, <1>6, <1>7
  <2>2. c \notin M
    BY <1>5, <1>7
  <2> QED
    BY <1>1, <1>4, <2>1, <2>2 DEF Shows
<1> QED
  BY <1>3, <1>8, <1>9 DEF Shows

LEMMA ShowsWork ==
    ASSUME Mt!MtServerAssumption, MaxClients < MAX_USER, ShownInv,
           NEW w \in Workers, Mt!Work(w),
           NEW p \in Mt!Slots, NEW q \in Mt!Slots, open'[p]
    PROVE  Shows(p, q)'
<1>1. CASE Mt!Free(w)
  BY <1>1, ShowsFree
<1>2. CASE ~Mt!Free(w)
  <2>1. open[p]
    BY <1>2 DEF Mt!Work, Mt!Lock, Mt!Unlock, Mt!Enter, Mt!Look, Mt!Visit, Mt!TellMove,
                Mt!Tell, Mt!Send, Mt!Finish
  <2> QED
    BY <1>2, <2>1, ShowsGreets, ShowsTell, ShowsRest, ShowsFinish, ShowsEnter, ShowsSend
       DEF Mt!Work
<1> QED
  BY <1>1, <1>2

-----------------------------------------------------------------------------
(* A handler begins.                                                       *)
LEMMA ShownBegins ==
    ASSUME Mt!MtServerAssumption, ShownInv, MtInv', Screens',
           NEW w \in Workers, NEW op \in Ops, NEW x \in Mt!Slots, NEW T, Mt!Begin(w, op, x, T),
           lives[x] >= 1, T # <<>>, Elems(T) \subseteq Does(op, x), Follows(T), Ends(T),
           \A i \in Elems(T) : i[1] # "add",
           op \in {"login", "quit"} => Head(T) = Me("lock", x),
           op = "abort" => lives[x] > 1,
           op # "abort" => ~Mt!Busy(x) /\ aborted' = aborted,
           \A o \in Mt!Slots : o # x => aborted'[o] = aborted[o],
           UNCHANGED <<state, open, slock, shown, lives>>
    PROVE  ShownInv'
<1>1. MtInv /\ \A u \in Workers : Knows(u)
  BY DEF ShownInv
<1>2. /\ \A u \in Workers : Knows(u)'
      /\ task[w].op = "idle" /\ Todo(w) = <<>>
      /\ \A u \in Workers \ {w} : task'[u] = task[u]
      /\ task'[w].op = op /\ task'[w].id = x /\ Todo(w)' = T
  BY <1>1, KnowsBegins
<1>3. op = "quit" => Head(Todo(w)')[1] = "lock"
  BY <1>2 DEF Me
<1>4. \A q \in Mt!Slots : FirstLife(q)'
  BY <1>2, <1>3, FirstLifeBegins
<1>5. ASSUME NEW I, Awaits(I) PROVE Awaits(I)'
  <2>1. PICK u \in Workers : Elems(Todo(u)) \cap I # {}
    BY <1>5 DEF Awaits
  <2>2. u # w
    BY <1>2, <2>1, ElemsNone
  <2>3. Todo(u)' = Todo(u)
    BY <1>2, <2>2 DEF Todo
  <2> QED
    BY <2>1, <2>3 DEF Awaits
<1>6. ASSUME NEW p \in Mt!Slots, open'[p], NEW q \in Mt!Slots PROVE Shows(p, q)'
  <2>1. Shows(p, q)
    BY <1>6 DEF ShownInv
  <2>2. /\ Awaits(Leaving(p, q)) => Awaits(Leaving(p, q))'
        /\ Awaits(Meeting(p, q)) => Awaits(Meeting(p, q))'
    BY <1>5
  <2> QED
    BY <2>1, <2>2 DEF Shows
<1> QED
  BY <1>2, <1>4, <1>6 DEF ShownInv

LEMMA ShownAccept ==
    ASSUME Mt!MtServerAssumption, ShownInv, MtInv', Screens',
           NEW w \in Workers, NEW x \in Mt!Slots, Mt!Accept(w, x)
    PROVE  ShownInv'
<1>1. /\ MtInv /\ \A u \in Workers : Knows(u)
      /\ state \in [Mt!Slots -> {"FREE", "CONNECTED", "INGAME"}]
      /\ lives \in [Mt!Slots -> Nat]
      /\ open \in [Mt!Slots -> BOOLEAN] /\ shown \in [Mt!Slots -> SUBSET Mt!Slots]
  BY DEF ShownInv, MtInv, MtType, Screens
<1>2. /\ state[x] = "FREE"
      /\ state' = [state EXCEPT ![x] = "CONNECTED"]
      /\ open' = [open EXCEPT ![x] = TRUE]
      /\ lives' = [lives EXCEPT ![x] = @ + 1]
      /\ shown' = [shown EXCEPT ![x] = {}]
      /\ UNCHANGED <<slock, task>>
  BY DEF Mt!Accept
<1>3. /\ state'[x] = "CONNECTED" /\ shown'[x] = {} /\ lives'[x] = lives[x] + 1
      /\ \A o \in Mt!Slots : o # x => /\ state'[o] = state[o] /\ open'[o] = open[o]
                                      /\ lives'[o] = lives[o] /\ shown'[o] = shown[o]
  BY <1>1, <1>2
<1>4. \A u \in Workers : Knows(u)'
  <2> SUFFICES ASSUME NEW u \in Workers PROVE Knows(u)'
    OBVIOUS
  <2>1. task'[u] = task[u] /\ Held(u)' = Held(u) /\ Held(u) \subseteq Mt!Slots
    BY <1>2 DEF Held
  <2>2. \A o \in Mt!Slots : lives[o] \in Nat /\ lives'[o] \in Nat /\ lives[o] <= lives'[o]
    BY <1>1, <1>3
  <2>3. \A o \in Held(u) : state[o] = "INGAME" => state'[o] = "INGAME"
    BY <1>2, <1>3, <2>1
  <2> QED
    BY <1>1, <2>1, <2>2, <2>3, KnowsStays
<1>5. \A q \in Mt!Slots : FirstLife(q)'
  BY FirstLifeAccept
<1>6. ASSUME NEW I PROVE Awaits(I)' <=> Awaits(I)
  BY <1>2 DEF Awaits, Todo
<1>7. ASSUME NEW p \in Mt!Slots, open'[p], NEW q \in Mt!Slots PROVE Shows(p, q)'
  <2>1. CASE p = x
    BY <1>3, <2>1 DEF Shows
  <2>2. CASE p # x
    <3>1. Shows(p, q)
      BY <1>3, <1>7, <2>2 DEF ShownInv
    <3>2. /\ Awaits(Leaving(p, q))' <=> Awaits(Leaving(p, q))
          /\ Awaits(Meeting(p, q))' <=> Awaits(Meeting(p, q))
      BY <1>6
    <3>3. CASE q = x
      BY <1>2, <1>3, <2>2, <3>1, <3>2, <3>3 DEF Shows
    <3>4. CASE q # x
      BY <1>3, <2>2, <3>1, <3>2, <3>4 DEF Shows
    <3> QED
      BY <3>3, <3>4
  <2> QED
    BY <2>1, <2>2
<1> QED
  BY <1>4, <1>5, <1>7 DEF ShownInv

LEMMA ShownStart ==
    ASSUME Mt!MtServerAssumption, MaxClients < MAX_USER, ShownInv,
           NEW w \in Workers, Mt!Start(w)
    PROVE  ShownInv'
<1>1. /\ MtInv /\ Screens /\ MtInv' /\ Screens'
      /\ MAX_USER \in Nat /\ MaxClients \in 0..MAX_USER
      /\ lives \in [Mt!Slots -> Nat] /\ aborted \in [Mt!Slots -> Nat]
  BY MtStart, ScreensStart DEF ShownInv, MtInv, MtType, Screens, Mt!MtServerAssumption
<1>2. \A x \in Mt!Slots : lives[x] >= 1 => x < MAX_USER
  BY <1>1 DEF Screens, Mt!Slots
<1>3. \A x \in Mt!Slots : state[x] # "FREE" \/ open[x] => lives[x] >= 1
  BY <1>1 DEF Screens
<1>4. ASSUME NEW x \in Mt!Slots, Mt!Accept(w, x) PROVE ShownInv'
  BY <1>1, <1>4, ShownAccept
<1>5. ASSUME NEW x \in Mt!Slots, Mt!Login(w, x) PROVE ShownInv'
  <2> DEFINE T == Mt!LoginProgram(x)
  <2>1. /\ state[x] # "FREE" /\ ~Mt!Busy(x) /\ Mt!Begin(w, "login", x, T)
        /\ UNCHANGED <<state, open, slock, shown, lives, aborted>>
    BY <1>5 DEF Mt!Login
  <2>2. lives[x] >= 1 /\ x < MAX_USER
    BY <1>2, <1>3, <2>1
  <2>3. /\ T # <<>> /\ Head(T) = Me("lock", x)
        /\ Elems(T) \subseteq Does("login", x) /\ Follows(T) /\ Ends(T)
        /\ \A i \in Elems(T) : i[1] # "add"
    BY <2>2, LoginKnows
  <2> HIDE DEF T
  <2> QED
    BY <1>1, <2>1, <2>2, <2>3, ShownBegins DEF Ops
<1>6. ASSUME NEW x \in Mt!Slots, Mt!Move(w, x) PROVE ShownInv'
  <2> DEFINE T == Mt!MoveProgram(x)
  <2>1. /\ state[x] # "FREE" /\ ~Mt!Busy(x) /\ Mt!Begin(w, "move", x, T)
        /\ UNCHANGED <<state, open, slock, shown, lives, aborted>>
    BY <1>6 DEF Mt!Move
  <2>2. lives[x] >= 1
    BY <1>3, <2>1
  <2>3. /\ T # <<>> /\ Elems(T) \subseteq Does("move", x) /\ Follows(T) /\ Ends(T)
        /\ \A i \in Elems(T) : i[1] # "add"
    BY MoveKnows
  <2> HIDE DEF T
  <2> QED
    BY <1>1, <2>1, <2>2, <2>3, ShownBegins DEF Ops
<1>7. ASSUME NEW x \in Mt!Slots, x < MAX_USER, NEW op \in {"quit", "abort"},
             NEW T \in {Mt!DisconnectProgram(x) \o <<Me("done", x)>>,
                        (Mt!DisconnectProgram(x) \o Mt!DisconnectProgram(x)) \o <<Me("done", x)>>}
      PROVE  /\ T # <<>> /\ Head(T) = Me("lock", x)
             /\ Elems(T) \subseteq Does(op, x) /\ Follows(T) /\ Ends(T)
             /\ \A i \in Elems(T) : i[1] # "add"
  BY <1>7, QuitKnows
<1>8. ASSUME NEW x \in Mt!Slots, Mt!Quit(w, x) PROVE ShownInv'
  <2>1. PICK error \in BOOLEAN :
          Mt!Begin(w, "quit", x, (IF error THEN Mt!DisconnectProgram(x) ELSE <<>>)
                                   \o Mt!DisconnectProgram(x) \o << <<"done", x, x>> >>)
    BY <1>8 DEF Mt!Quit
  <2> DEFINE D == Mt!DisconnectProgram(x)
             T == (IF error THEN D ELSE <<>>) \o D \o << <<"done", x, x>> >>
  <2>2. /\ open[x] /\ ~Mt!Busy(x) /\ UNCHANGED <<state, open, slock, shown, lives, aborted>>
    BY <1>8 DEF Mt!Quit
  <2>3. T \in {D \o <<Me("done", x)>>, (D \o D) \o <<Me("done", x)>>}
    <3>1. CASE error
      BY <3>1 DEF Me
    <3>2. CASE ~error
      <4>1. D \in Seq(Instr)
        BY CalmPrograms DEF Calm
      <4> HIDE DEF D
      <4>2. <<>> \o D = D
        BY <4>1, ConcatEmptySeq
      <4>3. T = D \o <<Me("done", x)>>
        BY <3>2, <4>2 DEF Me
      <4> QED
        BY <4>3
    <3> QED
      BY <3>1, <3>2
  <2>4. Mt!Begin(w, "quit", x, T)
    BY <2>1
  <2>5. lives[x] >= 1 /\ x < MAX_USER
    BY <1>2, <1>3, <2>2
  <2> HIDE DEF T
  <2>6. /\ T # <<>> /\ Head(T) = Me("lock", x)
        /\ Elems(T) \subseteq Does("quit", x) /\ Follows(T) /\ Ends(T)
        /\ \A i \in Elems(T) : i[1] # "add"
    BY <1>7, <2>3, <2>5
  <2> QED
    BY <1>1, <2>2, <2>4, <2>5, <2>6, ShownBegins DEF Ops
<1>9. ASSUME NEW x \in Mt!Slots, Mt!Abort(w, x) PROVE ShownInv'
  <2> DEFINE T == Mt!DisconnectProgram(x) \o Mt!DisconnectProgram(x) \o << <<"done", x, x>> >>
  <2>1. /\ aborted[x] > 0 /\ aborted' = [aborted EXCEPT ![x] = @ - 1]
        /\ Mt!Begin(w, "abort", x, T) /\ UNCHANGED <<state, open, slock, shown, lives>>
    BY <1>9 DEF Mt!Abort
  <2>2. lives[x] > 1
    <3>1. lives[x] <= 1 => aborted[x] = 0
      BY DEF ShownInv, FirstLife
    <3> QED
      BY <1>1, <2>1, <3>1
  <2>3. lives[x] >= 1 /\ x < MAX_USER
    BY <1>1, <1>2, <2>2
  <2>4. T = (Mt!DisconnectProgram(x) \o Mt!DisconnectProgram(x)) \o <<Me("done", x)>>
    BY DEF Me
  <2> HIDE DEF T
  <2>5. /\ T # <<>> /\ Head(T) = Me("lock", x)
        /\ Elems(T) \subseteq Does("abort", x) /\ Follows(T) /\ Ends(T)
        /\ \A i \in Elems(T) : i[1] # "add"
    BY <1>7, <2>3, <2>4
  <2>6. \A o \in Mt!Slots : o # x => aborted'[o] = aborted[o]
    BY <1>1, <2>1
  <2> QED
    BY <1>1, <2>1, <2>2, <2>3, <2>5, <2>6, ShownBegins DEF Ops
<1> QED
  BY <1>4, <1>5, <1>6, <1>8, <1>9 DEF Mt!Start

LEMMA ShownWork ==
    ASSUME Mt!MtServerAssumption, MaxClients < MAX_USER, ShownInv,
           NEW w \in Workers, Mt!Work(w)
    PROVE  ShownInv'
<1>1. MtInv' /\ Screens' /\ MtInv /\ \A u \in Workers : Knows(u)
  BY MtWork, ScreensWork DEF ShownInv
<1>2. \A u \in Workers : Knows(u)'
  BY <1>1, KnowsWork, KnowsFinish
<1>3. \A q \in Mt!Slots : FirstLife(q)'
  BY FirstLifeWork, FirstLifeFinish
<1>4. \A p \in Mt!Slots, q \in Mt!Slots : open'[p] => Shows(p, q)'
  BY ShowsWork
<1> QED
  BY <1>1, <1>2, <1>3, <1>4 DEF ShownInv

LEMMA ShownSteps ==
    ASSUME Mt!MtServerAssumption, MaxClients < MAX_USER, ShownInv, [Mt!Next]_(Mt!vars)
    PROVE  ShownInv'
<1>1. CASE Mt!Next
  BY <1>1, ShownStart, ShownWork DEF Mt!Next
<1>2. CASE UNCHANGED Mt!vars
  <2>1. UNCHANGED <<state, open, slock, shown, lives, aborted, task>>
    BY <1>2 DEF Mt!vars
  <2>2. MtInv'
    BY MtSteps DEF ShownInv
  <2>3. Screens'
    BY <2>1 DEF ShownInv, Screens
  <2>4. \A u \in Workers : Todo(u)' = Todo(u) /\ Held(u)' = Held(u) /\ Knows(u)'
    BY <2>1 DEF ShownInv, Knows, Todo, Held
  <2>5. \A q \in Mt!Slots : FirstLife(q)'
    <3> SUFFICES ASSUME NEW q \in Mt!Slots PROVE FirstLife(q)'
      OBVIOUS
    <3>1. Of(q)' = Of(q) /\ \A u \in Of(q) : u \in Workers
      BY <2>1 DEF Of
    <3> QED
      BY <2>1, <2>4, <3>1 DEF ShownInv, FirstLife
  <2>6. ASSUME NEW p \in Mt!Slots, open[p], NEW q \in Mt!Slots PROVE Shows(p, q)'
    <3>1. Shows(p, q)
      BY <2>6 DEF ShownInv
    <3>2. /\ Awaits(Leaving(p, q))' <=> Awaits(Leaving(p, q))
          /\ Awaits(Meeting(p, q))' <=> Awaits(Meeting(p, q))
      BY <2>4 DEF Awaits, Leaving, Meeting
    <3> QED
      BY <2>1, <3>1, <3>2 DEF Shows
  <2> QED
    BY <2>1, <2>2, <2>3, <2>4, <2>5, <2>6 DEF ShownInv
<1> QED
  BY <1>1, <1>2

LEMMA ShownInit ==
    ASSUME Mt!MtServerAssumption, MaxClients < MAX_USER, Mt!Init
    PROVE  ShownInv
<1>1. MtInv
  BY MtInit
<1>2. /\ \A i \in Mt!Slots : /\ state[i] = "FREE" /\ ~open[i] /\ slock[i] = 0
                             /\ shown[i] = {} /\ lives[i] = 0 /\ aborted[i] = 0
      /\ \A w \in Workers : task[w].op = "idle" /\ Todo(w) = <<>>
      /\ open \in [Mt!Slots -> BOOLEAN] /\ shown \in [Mt!Slots -> SUBSET Mt!Slots]
      /\ aborted \in [Mt!Slots -> Nat]
  BY DEF Mt!Init, Mt!Idle, Todo
<1>3. Screens
  BY <1>2 DEF Screens, Mt!MtServerAssumption
<1>4. \A w \in Workers : Knows(w)
  <2>1. Ends(<<>>)
    BY DEF Ends
  <2> QED
    BY <1>2, <2>1, ElemsNone DEF Knows
<1>5. \A q \in Mt!Slots : FirstLife(q)
  BY <1>2 DEF FirstLife, Of
<1> QED
  BY <1>1, <1>2, <1>3, <1>4, <1>5 DEF ShownInv

(* With every worker at rest nothing is under way.                         *)
LEMMA ShownAtRest ==
    ASSUME ShownInv
    PROVE  Mt!EveryoneShown
<1> SUFFICES ASSUME Mt!AtRest, NEW p \in Mt!InGame, open[p]
             PROVE  /\ shown[p] \subseteq Mt!InGame \ {p}
                    /\ \A q \in Mt!InGame \ {p} : lives[q] = 1 => q \in shown[p]
  BY DEF Mt!EveryoneShown
<1>1. \A w \in Workers : Elems(Todo(w)) = {}
  BY ElemsNone DEF Mt!AtRest, Mt!Idle, Todo
<1>2. ASSUME NEW I PROVE ~Awaits(I)
  BY <1>1 DEF Awaits
<1>3. p \in Mt!Slots /\ state[p] = "INGAME"
  BY DEF Mt!InGame
<1>4. \A q \in Mt!Slots : Shows(p, q)
  BY <1>3 DEF ShownInv
<1>5. shown[p] \subseteq Mt!Slots /\ p \notin shown[p]
  BY <1>3 DEF ShownInv, Screens
<1>6. ASSUME NEW q \in shown[p] PROVE q \in Mt!InGame \ {p}
  <2>1. ~Awaits(Leaving(p, q))
    BY <1>2
  <2> QED
    BY <1>4, <1>5, <2>1 DEF Shows, Mt!InGame
<1>7. ASSUME NEW q \in Mt!InGame \ {p}, lives[q] = 1 PROVE q \in shown[p]
  <2>1. ~Awaits(Meeting(p, q))
    BY <1>2
  <2> QED
    BY <1>3, <1>4, <1>7, <2>1 DEF Shows, Mt!InGame
<1> QED
  BY <1>6, <1>7

(* login, disconnect and send_packet of the multithreaded server, for any  *)
(* number of workers and clients: when all handlers have run, the client   *)
(* of a player in the game shows nobody who has left, and everybody else   *)
(* in the game but perhaps a client in a slot used before. What its screen *)
(* lacks, or has too much, some worker always still has to tell it.        *)
THEOREM EveryoneIsShown == Spec => []EveryoneShown
<1> DEFINE Inv == server = MtIocp => ShownInv
<1>1. Mt!MtServerAssumption /\ MaxClients < MAX_USER /\ MtIocp \notin AiServers
  BY LectureServersAssumption
<1>2. Init => Inv
  BY <1>1, ShownInit DEF Init
<1>3. Inv /\ [Next]_vars => Inv'
  <2> SUFFICES ASSUME Inv, [Next]_vars, server' = MtIocp PROVE ShownInv'
    OBVIOUS
  <2>1. server = MtIocp /\ [Mt!Next]_(Mt!vars)
    BY MtServerSteps
  <2> QED
    BY <1>1, <2>1, ShownSteps
<1>4. Inv => EveryoneShown
  BY ShownAtRest DEF EveryoneShown
<1> QED
  BY <1>2, <1>3, <1>4, PTL DEF Spec

-----------------------------------------------------------------------------
(***************************************************************************)
(* AiServer: TypeOK. A login enters the game only after its "ok" was sent, *)
(* under the m_slock of its slot, to a client that was still there: so no  *)
(* slot that was given up is entered, and the receives of closed sockets   *)
(* and the client in the slot are never more than the accepts.             *)
(***************************************************************************)
Further(c) == {i \in Triples(c) : i[1] \notin {"place", "ok", "enter"}}

EntryAt(c, w, T) ==
    \/ T \in Seq(Further(c))
    \/ \E p \in Ai(c)!Players : \E R \in Seq(Further(c)) :
         \/ T = <<Me("place", p)>> \o (<<Me("ok", p)>> \o (<<Me("enter", p)>> \o R))
         \/ /\ slock[p] = w
            /\ \/ T = <<Me("ok", p)>> \o (<<Me("enter", p)>> \o R)
               \/ T = <<Me("free", p)>> \o (<<Me("enter", p)>> \o R)
               \/ T = <<Me("enter", p)>> \o R /\ state[p] # "FREE"

(* Where it is by its next instruction h and the rest Q.                   *)
EntryNow(c, w, h, Q) ==
    \/ h \in Further(c) /\ Q \in Seq(Further(c))
    \/ \E p \in Ai(c)!Players : \E R \in Seq(Further(c)) :
         \/ h = Me("place", p) /\ Q = <<Me("ok", p)>> \o (<<Me("enter", p)>> \o R)
         \/ /\ slock[p] = w
            /\ \/ h = Me("ok", p) /\ Q = <<Me("enter", p)>> \o R
               \/ h = Me("free", p) /\ Q = <<Me("enter", p)>> \o R
               \/ h = Me("enter", p) /\ Q = R /\ state[p] # "FREE"

LEMMA EntryHand ==
    ASSUME NEW c \in AiServers, NEW w, NEW T, EntryAt(c, w, T), T # <<>>
    PROVE  EntryNow(c, w, Head(T), Tail(T))
<1> DEFINE S == Triples(c)
<1>1. Further(c) \subseteq S
  BY DEF Further
<1>2. CASE T \in Seq(Further(c))
  <2>1. Head(T) \in Further(c) /\ Tail(T) \in Seq(Further(c))
    BY <1>2
  <2> QED
    BY <2>1 DEF EntryNow
<1>3. ASSUME NEW p \in Ai(c)!Players, NEW R \in Seq(Further(c)),
             \/ T = <<Me("place", p)>> \o (<<Me("ok", p)>> \o (<<Me("enter", p)>> \o R))
             \/ /\ slock[p] = w
                /\ \/ T = <<Me("ok", p)>> \o (<<Me("enter", p)>> \o R)
                   \/ T = <<Me("free", p)>> \o (<<Me("enter", p)>> \o R)
                   \/ T = <<Me("enter", p)>> \o R /\ state[p] # "FREE"
      PROVE  EntryNow(c, w, Head(T), Tail(T))
  <2> DEFINE a == Me("place", p)
             b == Me("ok", p)
             e == Me("enter", p)
             f == Me("free", p)
             X == <<e>> \o R
             Y == <<b>> \o X
  <2>1. a \in S /\ b \in S /\ e \in S /\ f \in S
    BY Sizes, AiMe DEF AiOps
  <2>2. R \in Seq(S)
    BY <1>1, SeqGrows
  <2>3. \/ T = <<a>> \o Y
        \/ slock[p] = w /\ (T = Y \/ T = <<f>> \o X \/ (T = X /\ state[p] # "FREE"))
    BY <1>3
  <2> HIDE DEF S, a, b, e, f
  <2>4. X \in Seq(S) /\ Head(X) = e /\ Tail(X) = R
    BY <2>1, <2>2, Cons
  <2>5. Y = <<b>> \o X /\ X = <<e>> \o R
    OBVIOUS
  <2> HIDE DEF X
  <2>6. /\ Y \in Seq(S) /\ Head(Y) = b /\ Tail(Y) = X
        /\ Head(<<f>> \o X) = f /\ Tail(<<f>> \o X) = X
    BY <2>1, <2>4, Cons
  <2> HIDE DEF Y
  <2>7. Head(<<a>> \o Y) = a /\ Tail(<<a>> \o Y) = Y
    BY <2>1, <2>6, Cons
  <2>8. \/ Head(T) = a /\ Tail(T) = Y
        \/ /\ slock[p] = w
           /\ \/ Head(T) = b /\ Tail(T) = X
              \/ Head(T) = f /\ Tail(T) = X
              \/ Head(T) = e /\ Tail(T) = R /\ state[p] # "FREE"
    BY <2>3, <2>4, <2>6, <2>7
  <2> QED
    BY <2>5, <2>8 DEF EntryNow, a, b, e, f
<1> QED
  BY <1>2, <1>3 DEF EntryAt

(* The program of a greeting, over any set of instructions.                *)
LEMMA GreetIn ==
    ASSUME NEW c \in AiServers, NEW S, NEW p, NEW o,
           <<"insert", p, o>> \in S, <<"add", p, o>> \in S, <<"unlock", o, o>> \in S,
           IF o \in Ai(c)!Npcs THEN <<"wake", o, o>> \in S
           ELSE <<"insert", o, p>> \in S /\ <<"add", o, p>> \in S
    PROVE  Ai(c)!GreetProgram(p, o) \in Seq(S)
<1> DEFINE A == << <<"insert", p, o>>, <<"add", p, o>> >>
           B == IF o \in Ai(c)!Npcs THEN << <<"wake", o, o>> >>
                ELSE << <<"insert", o, p>>, <<"add", o, p>> >>
           U == << <<"unlock", o, o>> >>
<1>1. A \in Seq(S) /\ B \in Seq(S) /\ U \in Seq(S)
  OBVIOUS
<1>2. Ai(c)!GreetProgram(p, o) = (A \o B) \o U
  BY DEF Ai!GreetProgram
<1> HIDE DEF A, B, U
<1>3. A \o B \in Seq(S)
  BY <1>1, Joined
<1> DEFINE G == A \o B
<1>4. G \in Seq(S)
  BY <1>3
<1> HIDE DEF G
<1>5. G \o U \in Seq(S)
  BY <1>1, <1>4, Joined
<1> QED
  BY <1>2, <1>5 DEF G

(* Every step of a handler but the last: what it goes on with is no entry. *)
LEMMA WorksOn ==
    ASSUME NEW c \in AiServers, AiInv(c), NEW w \in c.workers, Ai(c)!Work(w),
           ~ Ai(c)!Finish(w)
    PROVE  /\ task[w].todo # <<>>
           /\ \E more \in Seq(Further(c)) : task'[w].todo = more \o Tail(task[w].todo)
           /\ \A u \in c.workers : u # w => task'[u] = task[u]
<1> DEFINE f == Ai(c)!First(w)
           s == Ai(c)!Second(w)
           a == task[w].id
           S == Further(c)
<1>1. task[w].todo # <<>>
  BY DEF Ai!Work, Ai!Place, Ai!Enter, Ai!Visit, Ai!Unlock, Ai!Step, Ai!Copy, Ai!Look, Ai!Sort,
         Ai!Insert, Ai!Erase, Ai!Meet, Ai!Part, Ai!Wake, Ai!Deliver, Ai!SendFails, Ai!Free,
         Ai!Tell, Ai!At
<1>2. \A op : Ai(c)!At(w, op) => <<op, f, s>> \in AiInstr(c, a)
  BY <1>1, AiHand
<1>3. f \in Ai(c)!Objects /\ s \in Ai(c)!Objects
  BY <1>1, AiNow
<1>4. <<>> \in Seq(S) /\ <<>> \in Seq(AiInstr(c, a))
  OBVIOUS
<1>5. task \in [c.workers -> AiHandlers(c)]
  BY DEF AiInv, AiType
<1>6. ASSUME NEW more \in Seq(S), Ai(c)!Go(w, more)
      PROVE  /\ task'[w].todo = more \o Tail(task[w].todo)
             /\ \A u \in c.workers : u # w => task'[u] = task[u]
  BY <1>5, <1>6 DEF Ai!Go, AiHandlers
<1>7. CASE Ai(c)!Go(w, <<>>)
  BY <1>1, <1>4, <1>6, <1>7
<1>8. CASE Ai(c)!Step(w) \/ Ai(c)!Copy(w) \/ Ai(c)!Look(w)
  <2>1. /\ task'[w].todo = Tail(task[w].todo)
        /\ \A u \in c.workers : u # w => task'[u] = task[u]
    <3>1. CASE Ai(c)!Step(w)
      BY <1>5, <3>1 DEF Ai!Step, AiHandlers
    <3>2. CASE Ai(c)!Copy(w)
      BY <1>5, <3>2 DEF Ai!Copy, AiHandlers
    <3>3. CASE Ai(c)!Look(w)
      <4>1. \E new : task' = [task EXCEPT ![w].todo = Tail(task[w].todo), ![w].new = new]
        BY <3>3 DEF Ai!Look
      <4> QED
        BY <1>5, <4>1 DEF AiHandlers
    <3> QED
      BY <1>8, <3>1, <3>2, <3>3
  <2>2. <<>> \o Tail(task[w].todo) = Tail(task[w].todo)
    <3> DEFINE R == Tail(task[w].todo)
    <3>1. R \in Seq(AiInstr(c, a))
      BY <1>1, AiNow
    <3> HIDE DEF R
    <3> QED
      BY <3>1, Prefix DEF R
  <2> QED
    BY <1>1, <1>4, <2>1, <2>2
<1>9. CASE Ai(c)!Sort(w)
  <2>1. PICK more \in Seq(Quiet(c, a)) : Ai(c)!Go(w, more)
    BY <1>9, Sorts
  <2>2. Quiet(c, a) \subseteq S
    BY DEF Quiet, AiInstr, Further, Triples, LockOps
  <2>3. more \in Seq(S)
    BY <2>2, SeqGrows
  <2> QED
    BY <1>1, <1>6, <2>1, <2>3
<1>10. ASSUME NEW kind \in {"move", "add", "remove", "free"}, NEW x \in Ai(c)!Objects,
              Ai(c)!Go(w, << <<kind, f, x>> >>)
       PROVE  \E more \in Seq(S) : Ai(c)!Go(w, more)
  <2>1. <<kind, f, x>> \in S
    BY <1>3 DEF Further, Triples, AiOps
  <2>2. << <<kind, f, x>> >> \in Seq(S)
    BY <2>1
  <2> QED
    BY <1>10, <2>2
<1>11. ASSUME Ai(c)!Go(w, Ai(c)!GreetProgram(f, s))
       PROVE  \E more \in Seq(S) : Ai(c)!Go(w, more)
  <2>1. /\ <<"insert", f, s>> \in S /\ <<"add", f, s>> \in S
        /\ <<"insert", s, f>> \in S /\ <<"add", s, f>> \in S
        /\ <<"wake", s, s>> \in S /\ <<"unlock", s, s>> \in S
    BY <1>3 DEF Further, Triples, AiOps
  <2> HIDE DEF S, f, s
  <2>2. Ai(c)!GreetProgram(f, s) \in Seq(S)
    BY <2>1, GreetIn
  <2> QED
    BY <1>11, <2>2
<1>12. ASSUME Ai(c)!Go(w, << <<"remove", f, s>>, <<"unlock", f, f>> >>)
       PROVE  \E more \in Seq(S) : Ai(c)!Go(w, more)
  <2>1. <<"remove", f, s>> \in S /\ <<"unlock", f, f>> \in S
    BY <1>3 DEF Further, Triples, AiOps
  <2> DEFINE more == << <<"remove", f, s>>, <<"unlock", f, f>> >>
  <2>2. more \in Seq(S)
    BY <2>1
  <2> HIDE DEF more
  <2>3. Ai(c)!Go(w, more)
    BY <1>12 DEF more
  <2> QED
    BY <2>2, <2>3
<1>13. ASSUME NEW p \in Ai(c)!Objects, Ai(c)!Go(w, [q \in Ai(c)!Players |-> <<"tell", q, p>>])
       PROVE  \E more \in Seq(S) : Ai(c)!Go(w, more)
  <2> DEFINE L == [q \in Ai(c)!Players |-> <<"tell", q, p>>]
  <2>1. /\ Ai(c)!Players \subseteq Ai(c)!Objects
        /\ c.npcStart - 1 \in Nat /\ Ai(c)!Players = 1..(c.npcStart - 1)
    BY Sizes
  <2>2. \A q \in Ai(c)!Players : <<"tell", q, p>> \in S
    BY <2>1 DEF Further, Triples, AiOps
  <2> HIDE DEF S
  <2>3. L \in [1..(c.npcStart - 1) -> S]
    BY <2>1, <2>2
  <2>4. Ai(c)!Go(w, L)
    BY <1>13
  <2> HIDE DEF L
  <2>5. L \in Seq(S)
    BY <2>1, <2>3, EachSeq
  <2> QED
    BY <2>4, <2>5
<1>14. CASE \/ Ai(c)!Place(w) \/ Ai(c)!Enter(w) \/ Ai(c)!Unlock(w) \/ Ai(c)!Insert(w)
            \/ Ai(c)!Erase(w) \/ Ai(c)!Wake(w) \/ Ai(c)!Deliver(w)
  BY <1>7, <1>14
     DEF Ai!Place, Ai!Enter, Ai!Unlock, Ai!Insert, Ai!Erase, Ai!Wake, Ai!Deliver
<1>15. CASE Ai(c)!Visit(w)
  <2>1. Ai(c)!Go(w, <<>>) \/ Ai(c)!Go(w, Ai(c)!GreetProgram(f, s))
    BY <1>15 DEF Ai!Visit
  <2> QED
    BY <1>1, <1>4, <1>6, <1>11, <2>1
<1>16. CASE Ai(c)!Meet(w) \/ Ai(c)!Part(w) \/ Ai(c)!SendFails(w)
  <2>1. \E kind \in {"move", "add", "remove", "free"}, x \in Ai(c)!Objects :
           Ai(c)!Go(w, <<>>) \/ Ai(c)!Go(w, << <<kind, f, x>> >>)
    BY <1>3, <1>16 DEF Ai!Meet, Ai!Part, Ai!SendFails, Ai!DisconnectProgram
  <2> QED
    BY <1>1, <1>4, <1>6, <1>10, <2>1
<1>17. CASE Ai(c)!Free(w)
  <2>1. Ai(c)!Go(w, <<>>) \/ Ai(c)!Go(w, [q \in Ai(c)!Players |-> <<"tell", q, f>>])
    BY <1>17 DEF Ai!Free
  <2> QED
    BY <1>1, <1>3, <1>4, <1>6, <1>13, <2>1
<1>18. CASE Ai(c)!Tell(w)
  <2>1. Ai(c)!Go(w, <<>>) \/ Ai(c)!Go(w, << <<"remove", f, s>>, <<"unlock", f, f>> >>)
    BY <1>18 DEF Ai!Tell
  <2> QED
    BY <1>1, <1>4, <1>6, <1>12, <2>1
<1> QED
  BY <1>8, <1>9, <1>14, <1>15, <1>16, <1>17, <1>18 DEF Ai!Work


Enters(c) == \A w \in c.workers : EntryAt(c, w, Todo(w))

(* Nobody but the worker that holds a slot's lock changes it, or frees the *)
(* slot.                                                                   *)
LEMMA LocksHold ==
    ASSUME NEW c \in AiServers, AiInv(c), Shapes(c), NEW w \in c.workers,
           Ai(c)!Start(w) \/ Ai(c)!Work(w), NEW u \in c.workers, u # w \/ ~ Ai(c)!Unlock(w),
           NEW p \in Ai(c)!Objects, slock[p] = u
    PROVE  slock'[p] = u /\ (state[p] # "FREE" => state'[p] # "FREE")
<1> DEFINE f == Ai(c)!First(w)
           s == Ai(c)!Second(w)
<1>1. /\ u # 0 /\ slock \in [Ai(c)!Objects -> c.workers \cup {0}]
      /\ state \in [Ai(c)!Objects -> {"FREE", "CONNECTED", "INGAME"}]
  BY Sizes DEF AiInv, AiType
<1>2. CASE UNCHANGED <<slock, state>>
  BY <1>2
<1>3. CASE Ai(c)!Start(w)
  <2>1. CASE UNCHANGED <<slock, state>>
    BY <2>1
  <2>2. ASSUME NEW q \in Ai(c)!Players, Ai(c)!Accept(w, q)
        PROVE  slock'[p] = u /\ (state[p] # "FREE" => state'[p] # "FREE")
    BY <1>1, <2>2 DEF Ai!Accept
  <2> QED
    BY <1>3, <2>1, <2>2
       DEF Ai!Start, Ai!Login, Ai!Move, Ai!Quit, Ai!Abort, Ai!NpcTurn
<1>4. CASE Ai(c)!Place(w) \/ Ai(c)!Tell(w)
  <2>1. /\ slock[f] = 0 /\ UNCHANGED state
        /\ UNCHANGED slock \/ slock' = [slock EXCEPT ![f] = w]
    BY <1>4 DEF Ai!Place, Ai!Tell
  <2> QED
    BY <1>1, <2>1
<1>5. CASE Ai(c)!Visit(w)
  <2>1. /\ slock[s] = 0 /\ UNCHANGED state
        /\ UNCHANGED slock \/ slock' = [slock EXCEPT ![s] = w]
    BY <1>5 DEF Ai!Visit
  <2> QED
    BY <1>1, <2>1
<1>6. CASE Ai(c)!Unlock(w)
  <2>1. UNCHANGED state /\ slock' = [slock EXCEPT ![f] = 0] /\ u # w
    BY <1>6 DEF Ai!Unlock
  <2>2. slock[f] = w
    BY <1>6, ShapeHand DEF Ai!Unlock, Shapes, AiOps, LockOps, AiHeld
  <2> QED
    BY <1>1, <2>1, <2>2
<1>7. CASE Ai(c)!Free(w)
  <2>1. UNCHANGED slock /\ slock[f] = 0 /\ state' = [state EXCEPT ![f] = "FREE"]
    BY <1>7 DEF Ai!Free
  <2> QED
    BY <1>1, <2>1
<1>8. CASE Ai(c)!Enter(w)
  <2>1. UNCHANGED slock /\ state' = [state EXCEPT ![f] = "INGAME"]
    BY SMTT(60), <1>8 DEF Ai!Enter
  <2> QED
    BY <1>1, <2>1
<1>9. CASE \/ Ai(c)!Step(w) \/ Ai(c)!Copy(w) \/ Ai(c)!Look(w) \/ Ai(c)!Sort(w)
           \/ Ai(c)!Insert(w) \/ Ai(c)!Erase(w) \/ Ai(c)!Meet(w) \/ Ai(c)!Part(w)
           \/ Ai(c)!Wake(w) \/ Ai(c)!Deliver(w) \/ Ai(c)!SendFails(w) \/ Ai(c)!Finish(w)
  BY <1>2, <1>9 DEF Ai!Step, Ai!Copy, Ai!Look, Ai!Sort, Ai!Insert, Ai!Erase, Ai!Meet,
                    Ai!Part, Ai!Wake, Ai!Deliver, Ai!SendFails, Ai!Finish
<1> QED
  BY <1>3, <1>4, <1>5, <1>6, <1>7, <1>8, <1>9 DEF Ai!Work

LEMMA EntryKept ==
    ASSUME NEW c \in AiServers, NEW u, NEW T, EntryAt(c, u, T),
           \A p \in Ai(c)!Players : slock[p] = u =>
                slock'[p] = u /\ (state[p] # "FREE" => state'[p] # "FREE")
    PROVE  EntryAt(c, u, T)'
  BY DEF EntryAt, Further, Triples

(* The op at the head of a handler's list names the action that works it.   *)
LEMMA WorkByOp ==
    ASSUME NEW c \in AiServers, NEW w \in c.workers, NEW op,
           Ai(c)!Work(w), ~ Ai(c)!Finish(w), \A k : Ai(c)!At(w, k) => k = op
    PROVE  /\ op = "place" => Ai(c)!Place(w)
           /\ op = "ok" => Ai(c)!Deliver(w) \/ Ai(c)!SendFails(w)
           /\ op = "free" => Ai(c)!Free(w)
<1>1. Ai(c)!Place(w) => op = "place"
  BY DEF Ai!Place
<1>2. Ai(c)!Free(w) => op = "free"
  BY DEF Ai!Free
<1>3. Ai(c)!Tell(w) => op = "tell"
  BY DEF Ai!Tell
<1>4. Ai(c)!Deliver(w) \/ Ai(c)!SendFails(w) => op \in Ai(c)!Sends
  BY DEF Ai!Deliver, Ai!SendFails
<1>5. /\ Ai(c)!Enter(w) => op = "enter"
      /\ Ai(c)!Visit(w) => op = "visit"
      /\ Ai(c)!Unlock(w) => op = "unlock"
  BY DEF Ai!Enter, Ai!Visit, Ai!Unlock
<1>6. /\ Ai(c)!Step(w) => op = "step"
      /\ Ai(c)!Copy(w) => op = "copy"
      /\ Ai(c)!Look(w) => op = "look"
  BY DEF Ai!Step, Ai!Copy, Ai!Look
<1>7. Ai(c)!Sort(w) => op = "sort"
  BY DEF Ai!Sort
<1>8. /\ Ai(c)!Insert(w) => op = "insert"
      /\ Ai(c)!Erase(w) => op = "erase"
      /\ Ai(c)!Wake(w) => op = "wake"
  BY DEF Ai!Insert, Ai!Erase, Ai!Wake
<1>9. /\ Ai(c)!Meet(w) => op = "meet"
      /\ Ai(c)!Part(w) => op = "part"
  BY DEF Ai!Meet, Ai!Part
<1> QED
  BY <1>1, <1>2, <1>3, <1>4, <1>5, <1>6, <1>7, <1>8, <1>9 DEF Ai!Work, Ai!Sends

(* The next step of an entry.                                              *)
LEMMA EntryWorks ==
    ASSUME NEW c \in AiServers, AiInv(c), Shapes(c), NEW w \in c.workers,
           EntryAt(c, w, Todo(w)), Ai(c)!Work(w), ~ Ai(c)!Finish(w)
    PROVE  EntryAt(c, w, Todo(w))'
<1> DEFINE T == Todo(w)
           S == Further(c)
           h == Head(T)
           Q == Tail(T)
<1>1. PICK more \in Seq(S) : Todo(w)' = more \o Q
  BY WorksOn DEF Todo
<1>2. T # <<>> /\ EntryNow(c, w, h, Q)
  BY EntryHand, WorksOn DEF Todo
<1>3. \A op : Ai(c)!At(w, op) <=> h[1] = op
  BY <1>2 DEF Ai!At, Todo
<1>4. h[2] = Ai(c)!First(w)
  BY DEF Ai!First, Todo
<1>5. S' = S
  BY DEF Further, Triples
<1>6. CASE h \in S /\ Q \in Seq(S)
  <2>1. more \o Q \in Seq(S)
    <3> HIDE DEF S, Q
    <3> QED
      BY <1>6, Joined
  <2> QED
    BY <1>1, <1>5, <2>1 DEF EntryAt
<1>7. ASSUME NEW p \in Ai(c)!Players, NEW R \in Seq(S), h = Me("place", p),
             Q = <<Me("ok", p)>> \o (<<Me("enter", p)>> \o R)
      PROVE  EntryAt(c, w, Todo(w))'
  <2>1. h[1] = "place" /\ h[2] = p /\ p \in Ai(c)!Objects
    BY <1>7, Sizes, AiMe DEF AiOps
  <2>2. Ai(c)!Place(w)
    BY <1>3, <2>1, WorkByOp
  <2>3. slock'[p] = w
    BY <1>4, <2>1, <2>2 DEF Ai!Place, AiInv, AiType
  <2>4. Todo(w)' = Q
    BY <1>2, <2>2, GoesBy DEF Ai!Place, Todo
  <2> QED
    BY <1>5, <1>7, <2>3, <2>4 DEF EntryAt
<1>8. ASSUME NEW p \in Ai(c)!Players, NEW R \in Seq(S), h = Me("ok", p),
             Q = <<Me("enter", p)>> \o R, slock[p] = w
      PROVE  EntryAt(c, w, Todo(w))'
  <2>1. h[1] = "ok" /\ h[2] = p /\ p \in Ai(c)!Objects
    BY <1>8, Sizes, AiMe DEF AiOps
  <2>2. Ai(c)!Deliver(w) \/ Ai(c)!SendFails(w)
    BY <1>3, <2>1, WorkByOp
  <2>3. CASE Ai(c)!Deliver(w)
    <3>1. Todo(w)' = Q
      BY <1>2, <2>3, GoesBy DEF Ai!Deliver, Todo
    <3>2. state[p] # "FREE" /\ UNCHANGED <<state, slock>>
      BY <1>4, <2>1, <2>3 DEF Ai!Deliver
    <3> QED
      BY <1>5, <1>8, <3>1, <3>2 DEF EntryAt
  <2>4. CASE Ai(c)!SendFails(w)
    <3>1. Ai(c)!Go(w, <<Me("free", p)>>) /\ UNCHANGED slock
      BY <1>4, <2>1, <2>4 DEF Ai!SendFails, Ai!DisconnectProgram, Me
    <3>2. Todo(w)' = <<Me("free", p)>> \o Q
      <4>1. task \in [c.workers -> AiHandlers(c)]
        BY DEF AiInv, AiType
      <4> QED
        BY <3>1, <4>1 DEF Ai!Go, AiHandlers, Todo
    <3> QED
      BY <1>5, <1>8, <3>1, <3>2 DEF EntryAt
  <2> QED
    BY <2>2, <2>3, <2>4
<1>9. ASSUME NEW p \in Ai(c)!Players, h = Me("free", p), slock[p] = w
      PROVE  FALSE
  <2>1. h[1] = "free" /\ h[2] = p
    BY SMTT(60), <1>9, Sizes, AiMe DEF AiOps
  <2>2. Ai(c)!Free(w)
    BY <1>3, <2>1, WorkByOp
  <2> QED
    BY <1>4, <1>9, <2>1, <2>2, Sizes DEF Ai!Free
<1>10. ASSUME NEW p \in Ai(c)!Players, NEW R \in Seq(S), h = Me("enter", p), Q = R
       PROVE  EntryAt(c, w, Todo(w))'
  <2>1. more \o Q \in Seq(S)
    <3>1. Q \in Seq(S)
      BY <1>10
    <3> HIDE DEF S, Q
    <3> QED
      BY <3>1, Joined
  <2> QED
    BY <1>1, <1>5, <2>1 DEF EntryAt
<1> HIDE DEF T, h, Q
<1> QED
  BY <1>2, <1>6, <1>7, <1>8, <1>9, <1>10 DEF EntryNow

LEMMA EntryBegins ==
    ASSUME NEW c \in AiServers, AiInv(c), NEW w \in c.workers, Ai(c)!Start(w)
    PROVE  \/ UNCHANGED task
           \/ /\ EntryAt(c, w, Todo(w))'
              /\ \A u \in c.workers : u # w => task'[u] = task[u]
<1> DEFINE S == Further(c)
<1>1. S' = S
  BY DEF Further, Triples
<1>2. ASSUME NEW p \in Ai(c)!Players, Ai(c)!Login(w, p)
      PROVE  /\ EntryAt(c, w, Todo(w))'
             /\ \A u \in c.workers : u # w => task'[u] = task[u]
  <2> DEFINE V == [i \in 1..(c.users - 1) |-> <<"visit", p, Ai(c)!Others(p)[i]>>]
             X == <<Me("unlock", p), Me("done", p)>>
             A == <<Me("place", p), Me("ok", p), Me("enter", p)>>
             K == Triples(c)
  <2>1. /\ Todo(w)' = Ai(c)!LoginProgram(p)
        /\ \A u \in c.workers : u # w => task'[u] = task[u]
    BY <1>2, BeginsWith DEF Ai!Login, Todo
  <2>2. p \in Ai(c)!Objects /\ c.users - 1 \in Nat
    BY Sizes
  <2>3. V \in Seq(S)
    <3>1. ASSUME NEW i \in 1..(c.users - 1)
          PROVE  <<"visit", p, Ai(c)!Others(p)[i]>> \in S
      <4>1. Ai(c)!Others(p)[i] \in Ai(c)!Objects
        BY <2>2, AiOthers
      <4> QED
        BY <2>2, <4>1 DEF Further, Triples, AiOps
    <3>2. V \in [1..(c.users - 1) -> S]
      BY <3>1
    <3> HIDE DEF V, S
    <3> QED
      BY <2>2, <3>2, EachSeq
  <2>4. X \in Seq(S)
    <3>1. Me("unlock", p) \in S /\ Me("done", p) \in S
      BY <2>2 DEF Further, Triples, AiOps, Me
    <3> QED
      BY <3>1
  <2>5. /\ Me("place", p) \in K /\ Me("ok", p) \in K /\ Me("enter", p) \in K
        /\ S \subseteq K
    BY <2>2, AiMe DEF AiOps, Further
  <2>6. Ai(c)!LoginProgram(p) = (A \o V) \o X
    BY DEF Ai!LoginProgram, Me
  <2> DEFINE R == V \o X
  <2> HIDE DEF V, X, S, K
  <2>7. R \in Seq(S)
    BY <2>3, <2>4, Joined
  <2>8. (A \o V) \o X = A \o R
    <3>1. A \in Seq(K)
      BY <2>5
    <3>2. V \in Seq(K) /\ X \in Seq(K)
      BY <2>3, <2>4, <2>5, SeqGrows
    <3> HIDE DEF A
    <3> QED
      BY SMTT(60), <3>1, <3>2, ConcatAssociative
  <2> HIDE DEF R
  <2>9. A \o R = <<Me("place", p)>> \o (<<Me("ok", p)>> \o (<<Me("enter", p)>> \o R))
    <3>1. R \in Seq(K)
      BY <2>5, <2>7, SeqGrows
    <3>2. Me("place", p) \in K /\ Me("ok", p) \in K /\ Me("enter", p) \in K
      BY <2>5
    <3> QED
      BY SMTT(90), <3>1, <3>2, Thrice DEF A
  <2>10. Todo(w)' = <<Me("place", p)>> \o (<<Me("ok", p)>> \o (<<Me("enter", p)>> \o R))
    BY <2>1, <2>6, <2>8, <2>9
  <2> QED
    BY <1>1, <2>1, <2>7, <2>10 DEF EntryAt, S
<1>3. ASSUME NEW a \in Ai(c)!Objects,
             \/ a \in Ai(c)!Players /\ (Ai(c)!Move(w, a) \/ Ai(c)!Quit(w, a) \/ Ai(c)!Abort(w, a))
             \/ a \in Ai(c)!Npcs /\ Ai(c)!NpcTurn(w, a)
      PROVE  /\ EntryAt(c, w, Todo(w))'
             /\ \A u \in c.workers : u # w => task'[u] = task[u]
  <2>1. PICK op, todo : /\ todo \in Seq(Quiet(c, a)) \/ todo \in Seq(Leave(c, a))
                        /\ Ai(c)!Begin(w, op, a, todo)
    BY <1>3, Begins
  <2>2. Plain(c) \subseteq S
    BY DEF Plain, Further, LockOps
  <2>3. todo \in Seq(S)
    <3>1. todo \in Seq(Plain(c))
      BY <2>1, QuietPlain, SeqGrows
    <3> QED
      BY <2>2, <3>1, SeqGrows
  <2>4. /\ Todo(w)' = todo
        /\ \A u \in c.workers : u # w => task'[u] = task[u]
    BY <2>1, BeginsWith DEF Todo
  <2> QED
    BY <1>1, <2>3, <2>4 DEF EntryAt
<1>4. Ai(c)!Players \subseteq Ai(c)!Objects /\ Ai(c)!Npcs \subseteq Ai(c)!Objects
  BY Sizes
<1> QED
  BY <1>2, <1>3, <1>4 DEF Ai!Start, Ai!Accept

LEMMA EntersSteps ==
    ASSUME NEW c \in AiServers, AiInv(c), Shapes(c), Enters(c), [Ai(c)!Next]_(Ai(c)!vars)
    PROVE  Enters(c)'
<1>1. Ai(c)!Players \subseteq Ai(c)!Objects
  BY Sizes
<1>2. CASE UNCHANGED Ai(c)!vars
  <2>1. UNCHANGED <<slock, state, task>>
    BY <1>2 DEF Ai!vars
  <2>2. ASSUME NEW u \in c.workers PROVE EntryAt(c, u, Todo(u))'
    <3>1. EntryAt(c, u, Todo(u)) /\ Todo(u)' = Todo(u)
      BY <2>1 DEF Enters, Todo
    <3> DEFINE T == Todo(u)
    <3> HIDE DEF T
    <3>2. EntryAt(c, u, T)'
      BY <2>1, <3>1, EntryKept DEF T
    <3> QED
      BY <3>1, <3>2 DEF T
  <2> QED
    BY <2>2 DEF Enters
<1>3. ASSUME NEW w \in c.workers, Ai(c)!Start(w) \/ Ai(c)!Work(w),
             NEW u \in c.workers, task'[u] = task[u], ~ Ai(c)!Unlock(w) \/ u # w
      PROVE  EntryAt(c, u, Todo(u))'
  <2>1. EntryAt(c, u, Todo(u)) /\ Todo(u)' = Todo(u)
    BY <1>3 DEF Enters, Todo
  <2>2. \A p \in Ai(c)!Players : slock[p] = u =>
           slock'[p] = u /\ (state[p] # "FREE" => state'[p] # "FREE")
    BY <1>1, <1>3, LocksHold
  <2>3. EntryAt(c, u, Todo(u))' <=> EntryAt(c, u, Todo(u))'
    OBVIOUS
  <2> QED
    BY <2>1, <2>2 DEF EntryAt, Further, Triples
<1>4. ASSUME NEW w \in c.workers, Ai(c)!Start(w) PROVE Enters(c)'
  <2>1. ~ Ai(c)!Unlock(w)
    <3>1. ASSUME NEW p \in Ai(c)!Players,
                 \/ Ai(c)!Accept(w, p) \/ Ai(c)!Login(w, p) \/ Ai(c)!Move(w, p)
                 \/ Ai(c)!Quit(w, p) \/ Ai(c)!Abort(w, p)
          PROVE  task[w] = Ai(c)!Idle
      BY <3>1 DEF Ai!Accept, Ai!Login, Ai!Move, Ai!Quit, Ai!Abort, Ai!Begin
    <3>2. ASSUME NEW n \in Ai(c)!Npcs, Ai(c)!NpcTurn(w, n) PROVE task[w] = Ai(c)!Idle
      BY <3>2 DEF Ai!NpcTurn, Ai!Begin
    <3>3. task[w] = Ai(c)!Idle
      BY <1>4, <3>1, <3>2 DEF Ai!Start
    <3>4. task[w].todo = <<>>
      BY <3>3 DEF Ai!Idle
    <3> QED
      BY <3>4 DEF Ai!Unlock, Ai!At
  <2> QED
    BY <1>3, <1>4, <2>1, EntryBegins DEF Enters
<1>5. ASSUME NEW w \in c.workers, Ai(c)!Work(w) PROVE Enters(c)'
  <2>1. ASSUME NEW u \in c.workers, u # w PROVE EntryAt(c, u, Todo(u))'
    <3>1. task'[u] = task[u]
      <4>1. CASE Ai(c)!Finish(w)
        BY <2>1, <4>1 DEF Ai!Finish, AiInv, AiType
      <4> QED
        BY <1>5, <2>1, <4>1, WorksOn
    <3> QED
      BY <1>3, <1>5, <2>1, <3>1
  <2>2. CASE Ai(c)!Finish(w)
    <3>1. Todo(w)' = <<>>
      BY <2>2 DEF Ai!Finish, Ai!Idle, AiInv, AiType, Todo
    <3>2. <<>> \in Seq(Further(c)')
      OBVIOUS
    <3>3. EntryAt(c, w, Todo(w))'
      BY <3>1, <3>2 DEF EntryAt
    <3> QED
      BY <2>1, <3>3 DEF Enters
  <2>3. CASE ~ Ai(c)!Finish(w)
    BY <1>5, <2>1, <2>3, EntryWorks DEF Enters
  <2> QED
    BY <2>2, <2>3
<1> QED
  BY <1>2, <1>4, <1>5 DEF Ai!Next


LEMMA EntersInit ==
    ASSUME NEW c \in AiServers, Ai(c)!Init
    PROVE  Enters(c)
<1> SUFFICES ASSUME NEW w \in c.workers PROVE EntryAt(c, w, Todo(w))
  BY DEF Enters
<1>1. Todo(w) = <<>>
  BY DEF Ai!Init, Ai!Idle, Todo
<1>2. <<>> \in Seq(Further(c))
  OBVIOUS
<1> QED
  BY <1>1, <1>2 DEF EntryAt

(* Who enters is in its slot.                                              *)
LEMMA EntersTaken ==
    ASSUME NEW c \in AiServers, AiInv(c), Enters(c), NEW w \in c.workers, Ai(c)!Enter(w)
    PROVE  Ai(c)!First(w) \in Ai(c)!Players /\ state[Ai(c)!First(w)] # "FREE"
<1> DEFINE h == Head(Todo(w))
<1>1. Todo(w) # <<>> /\ h[1] = "enter" /\ h[2] = Ai(c)!First(w)
  BY DEF Ai!Enter, Ai!At, Ai!First, Todo
<1>2. EntryNow(c, w, h, Tail(Todo(w)))
  BY <1>1, EntryHand DEF Enters
<1> HIDE DEF h
<1>3. h \notin Further(c)
  BY <1>1 DEF Further
<1>4. \A p \in Ai(c)!Players :
        /\ Me("place", p)[1] = "place" /\ Me("ok", p)[1] = "ok" /\ Me("free", p)[1] = "free"
        /\ Me("enter", p)[2] = p
  BY DEF Me
<1>5. PICK p \in Ai(c)!Players : h = Me("enter", p) /\ state[p] # "FREE"
  BY <1>1, <1>2, <1>3, <1>4 DEF EntryNow
<1> QED
  BY <1>1, <1>4, <1>5

Counts(c) ==
    /\ failed <= c.failures
    /\ \A p \in Ai(c)!Players :
          /\ lives[p] <= c.lives
          /\ aborted[p] + (IF state[p] = "FREE" THEN 0 ELSE 1) <= lives[p]

LEMMA CountsSteps ==
    ASSUME NEW c \in AiServers, AiInv(c), AiInv(c)', Enters(c), Counts(c),
           [Ai(c)!Next]_(Ai(c)!vars)
    PROVE  Counts(c)'
<1>1. /\ c.lives \in Nat /\ c.failures \in Nat
  BY LectureServersAssumption DEF Ai!AiServerAssumption
<1>2. /\ state \in [Ai(c)!Objects -> {"FREE", "CONNECTED", "INGAME"}]
      /\ lives \in [Ai(c)!Players -> Nat] /\ aborted \in [Ai(c)!Players -> Nat]
      /\ failed \in Nat /\ Ai(c)!Players \subseteq Ai(c)!Objects
  BY Sizes DEF AiInv, AiType
<1>3. CASE UNCHANGED <<state, lives, aborted, failed>>
  BY <1>3 DEF Counts
<1>4. ASSUME NEW w \in c.workers, NEW p \in Ai(c)!Players, Ai(c)!Accept(w, p)
      PROVE  Counts(c)'
  <2>1. /\ state[p] = "FREE" /\ lives[p] < c.lives /\ UNCHANGED <<aborted, failed>>
        /\ state' = [state EXCEPT ![p] = "CONNECTED"]
        /\ lives' = [lives EXCEPT ![p] = lives[p] + 1]
    BY <1>4 DEF Ai!Accept
  <2> SUFFICES ASSUME NEW q \in Ai(c)!Players
               PROVE  /\ lives'[q] <= c.lives
                      /\ aborted'[q] + (IF state'[q] = "FREE" THEN 0 ELSE 1) <= lives'[q]
    BY <2>1 DEF Counts
  <2>2. /\ lives[q] \in Nat /\ aborted[q] \in Nat /\ lives[q] <= c.lives
        /\ aborted[q] + (IF state[q] = "FREE" THEN 0 ELSE 1) <= lives[q]
    BY <1>2 DEF Counts
  <2>3. CASE q = p
    <3>1. lives'[q] = lives[q] + 1 /\ state'[q] = "CONNECTED" /\ aborted'[q] = aborted[q]
      BY <1>2, <2>1, <2>3
    <3> QED
      BY <1>1, <2>1, <2>2, <2>3, <3>1
  <2>4. CASE q # p
    <3>1. lives'[q] = lives[q] /\ state'[q] = state[q] /\ aborted'[q] = aborted[q]
      BY <1>2, <2>1, <2>4
    <3> QED
      BY <2>2, <3>1
  <2> QED
    BY <2>3, <2>4
<1>5. ASSUME NEW w \in c.workers, NEW p \in Ai(c)!Players, Ai(c)!Abort(w, p)
      PROVE  Counts(c)'
  <2>1. /\ UNCHANGED <<state, lives, failed>>
        /\ aborted' = [aborted EXCEPT ![p] = aborted[p] - 1]
    BY <1>5 DEF Ai!Abort
  <2> SUFFICES ASSUME NEW q \in Ai(c)!Players
               PROVE  aborted'[q] + (IF state[q] = "FREE" THEN 0 ELSE 1) <= lives[q]
    BY <2>1 DEF Counts
  <2>2. /\ lives[q] \in Nat /\ aborted[q] \in Nat
        /\ aborted[q] + (IF state[q] = "FREE" THEN 0 ELSE 1) <= lives[q]
    BY <1>2 DEF Counts
  <2>3. aborted'[q] = aborted[q] \/ aborted'[q] = aborted[q] - 1
    BY <1>2, <2>1
  <2> QED
    BY <2>2, <2>3
<1>6. ASSUME NEW w \in c.workers, Ai(c)!Enter(w) PROVE Counts(c)'
  <2>1. /\ UNCHANGED <<lives, failed, aborted>>
        /\ state' = [state EXCEPT ![Ai(c)!First(w)] = "INGAME"]
    BY <1>6 DEF Ai!Enter, Ai!faults
  <2>2. state[Ai(c)!First(w)] # "FREE" /\ Ai(c)!First(w) \in Ai(c)!Objects
    BY <1>2, <1>6, EntersTaken
  <2>3. \A q \in Ai(c)!Players : state'[q] = "FREE" <=> state[q] = "FREE"
    BY <1>2, <2>1, <2>2
  <2> QED
    BY <2>1, <2>3 DEF Counts
<1>7. ASSUME NEW w \in c.workers, Ai(c)!SendFails(w) PROVE Counts(c)'
  <2>1. /\ UNCHANGED <<state, lives, aborted>>
        /\ failed' = failed \/ (failed' = failed + 1 /\ failed < c.failures)
    BY <1>7 DEF Ai!SendFails
  <2> QED
    BY <1>1, <1>2, <2>1 DEF Counts
<1>8. ASSUME NEW w \in c.workers, Ai(c)!Free(w) PROVE Counts(c)'
  <2> DEFINE p == Ai(c)!First(w)
  <2>1. /\ UNCHANGED <<lives, failed>> /\ state' = [state EXCEPT ![p] = "FREE"]
        /\ \/ aborted' = aborted
           \/ state[p] # "FREE" /\ aborted' = [aborted EXCEPT ![p] = aborted[p] + 1]
    BY <1>8 DEF Ai!Free
  <2>2. p \in Ai(c)!Objects
    BY <1>8, AiNow DEF Ai!Free, Ai!At
  <2> HIDE DEF p
  <2> SUFFICES ASSUME NEW q \in Ai(c)!Players
               PROVE  aborted'[q] + (IF state'[q] = "FREE" THEN 0 ELSE 1) <= lives[q]
    BY <2>1 DEF Counts
  <2>3. /\ lives[q] \in Nat /\ aborted[q] \in Nat
        /\ aborted[q] + (IF state[q] = "FREE" THEN 0 ELSE 1) <= lives[q]
    BY <1>2 DEF Counts
  <2>4. CASE q = p
    <3>1. state'[q] = "FREE"
      BY <1>2, <2>1, <2>2, <2>4
    <3>2. \/ aborted'[q] = aborted[q]
          \/ state[q] # "FREE" /\ aborted'[q] = aborted[q] + 1
      BY <1>2, <2>1, <2>4
    <3> QED
      BY <2>3, <3>1, <3>2
  <2>5. CASE q # p
    <3>1. state'[q] = state[q] /\ aborted'[q] = aborted[q]
      BY SMTT(60), <1>2, <2>1, <2>2, <2>5
    <3> QED
      BY <2>3, <3>1
  <2> QED
    BY <2>4, <2>5
<1>9. ASSUME NEW w \in c.workers, Ai(c)!Work(w), ~ Ai(c)!Enter(w), ~ Ai(c)!SendFails(w),
             ~ Ai(c)!Free(w)
      PROVE  Counts(c)'
  BY <1>3, <1>9 DEF Ai!Work, Ai!Place, Ai!Visit, Ai!Unlock, Ai!Step, Ai!Copy, Ai!Look, Ai!Sort,
     Ai!Insert, Ai!Erase, Ai!Meet, Ai!Part, Ai!Wake, Ai!Deliver, Ai!Tell, Ai!Finish, Ai!faults
<1>10. ASSUME NEW w \in c.workers, Ai(c)!Start(w) PROVE Counts(c)'
  <2>1. ASSUME NEW p \in Ai(c)!Players,
               Ai(c)!Login(w, p) \/ Ai(c)!Move(w, p) \/ Ai(c)!Quit(w, p)
        PROVE  Counts(c)'
    BY <1>3, <2>1 DEF Ai!Login, Ai!Move, Ai!Quit, Ai!faults
  <2>2. ASSUME NEW n \in Ai(c)!Npcs, Ai(c)!NpcTurn(w, n) PROVE Counts(c)'
    BY <1>3, <2>2 DEF Ai!NpcTurn, Ai!faults
  <2> QED
    BY <1>4, <1>5, <1>10, <2>1, <2>2 DEF Ai!Start
<1>11. CASE UNCHANGED Ai(c)!vars
  BY <1>3, <1>11 DEF Ai!vars
<1> QED
  BY <1>6, <1>7, <1>8, <1>9, <1>10, <1>11 DEF Ai!Next

(* Where the objects are, what the clients show, and the history.          *)
Placed(c) ==
    /\ pos \in [Ai(c)!Objects -> Ai(c)!World]
    /\ shown \in [Ai(c)!Players -> SUBSET Ai(c)!Objects]
    /\ healed \subseteq Ai(c)!Players /\ alone \in BOOLEAN

LEMMA PlacedSteps ==
    ASSUME NEW c \in AiServers, AiInv(c), Placed(c), [Ai(c)!Next]_(Ai(c)!vars)
    PROVE  Placed(c)'
<1>1. CASE UNCHANGED <<pos, shown, alone, healed>>
  BY <1>1 DEF Placed
<1>2. ASSUME NEW w, NEW op, NEW id, NEW todo, Ai(c)!Begin(w, op, id, todo)
      PROVE  healed' \subseteq Ai(c)!Players /\ alone' \in BOOLEAN
  BY <1>2 DEF Ai!Begin, Placed
<1>3. ASSUME NEW w \in c.workers, NEW p \in Ai(c)!Players,
             \/ Ai(c)!Login(w, p) \/ Ai(c)!Move(w, p) \/ Ai(c)!Quit(w, p) \/ Ai(c)!Abort(w, p)
      PROVE  Placed(c)'
  <2>1. UNCHANGED <<pos, shown>> /\ \E op, todo : Ai(c)!Begin(w, op, p, todo)
    BY <1>3 DEF Ai!Login, Ai!Move, Ai!Quit, Ai!Abort
  <2> QED
    BY <1>2, <2>1 DEF Placed
<1>4. ASSUME NEW w \in c.workers, NEW n \in Ai(c)!Npcs, Ai(c)!NpcTurn(w, n)
      PROVE  Placed(c)'
  <2>1. UNCHANGED <<pos, shown>> /\ \E op, todo : Ai(c)!Begin(w, op, n, todo)
    BY <1>4 DEF Ai!NpcTurn
  <2> QED
    BY <1>2, <2>1 DEF Placed
<1>5. ASSUME NEW w \in c.workers, NEW p \in Ai(c)!Players, Ai(c)!Accept(w, p)
      PROVE  Placed(c)'
  <2>1. UNCHANGED <<pos, alone, healed>> /\ shown' = [shown EXCEPT ![p] = {}]
    BY <1>5 DEF Ai!Accept, Ai!history
  <2> QED
    BY <2>1 DEF Placed
<1>6. ASSUME NEW w \in c.workers, Ai(c)!Place(w) \/ Ai(c)!Step(w) PROVE Placed(c)'
  <2> DEFINE f == Ai(c)!First(w)
  <2>1. f \in Ai(c)!Objects
    BY <1>6, AiNow DEF Ai!Place, Ai!Step, Ai!At
  <2>2. UNCHANGED <<shown, alone, healed>>
    BY <1>6 DEF Ai!Place, Ai!Step, Ai!history
  <2>3. pos[f] \in Ai(c)!World
    BY <2>1 DEF Placed
  <2>4. \E d \in Ai(c)!World : pos' = [pos EXCEPT ![f] = d]
    BY <1>6, <2>3 DEF Ai!Place, Ai!Step, Ai!Steps
  <2> HIDE DEF f
  <2>5. pos' \in [Ai(c)!Objects -> Ai(c)!World]
    BY <2>1, <2>4 DEF Placed
  <2> QED
    BY <2>2, <2>5 DEF Placed
<1>7. ASSUME NEW w \in c.workers, Ai(c)!Deliver(w) PROVE Placed(c)'
  <2> DEFINE f == Ai(c)!First(w)
             s == Ai(c)!Second(w)
  <2>1. PICK op \in Ai(c)!Sends : Ai(c)!At(w, op)
    BY <1>7 DEF Ai!Deliver
  <2>2. s \in Ai(c)!Objects /\ <<op, f, s>> \in AiInstr(c, task[w].id)
    BY <2>1, AiHand DEF Ai!At
  <2>3. f \in Ai(c)!Players
    BY <2>2 DEF AiInstr, Ai!Sends
  <2>4. UNCHANGED <<pos, alone, healed>>
    BY <1>7 DEF Ai!Deliver, Ai!history
  <2>5. \/ shown' = [shown EXCEPT ![f] = shown[f] \cup {s}]
        \/ shown' = [shown EXCEPT ![f] = shown[f] \ {s}]
        \/ shown' = [shown EXCEPT ![f] = shown[f]]
    BY <1>7 DEF Ai!Deliver
  <2> HIDE DEF f, s
  <2>6. shown' \in [Ai(c)!Players -> SUBSET Ai(c)!Objects]
    BY <2>2, <2>3, <2>5 DEF Placed
  <2> QED
    BY <2>4, <2>6 DEF Placed
<1>8. ASSUME NEW w \in c.workers, Ai(c)!SendFails(w) PROVE Placed(c)'
  BY <1>8 DEF Ai!SendFails, Placed
<1>9. ASSUME NEW w \in c.workers, Ai(c)!Free(w) PROVE Placed(c)'
  <2>1. UNCHANGED <<pos, shown, alone>> /\ healed' \subseteq healed
    BY <1>9 DEF Ai!Free
  <2> QED
    BY <2>1 DEF Placed
<1>10. ASSUME NEW w \in c.workers, Ai(c)!Finish(w) PROVE Placed(c)'
  <2> DEFINE f == Ai(c)!First(w)
  <2>1. /\ Ai(c)!At(w, "done") /\ UNCHANGED <<pos, shown, alone>>
        /\ healed' = healed \/ (task[w].op = "move" /\ healed' = healed \cup {f})
    BY <1>10 DEF Ai!Finish
  <2>2. <<"done", f, Ai(c)!Second(w)>> \in AiInstr(c, task[w].id)
    BY <2>1, AiHand DEF Ai!At
  <2>3. task[w].op = "move" => f \in Ai(c)!Players
    <3>1. f = task[w].id
      BY <2>2 DEF AiInstr
    <3> QED
      BY <3>1 DEF AiInv, HandlerSeen, OfClient
  <2> QED
    BY <2>1, <2>3 DEF Placed
<1>11. ASSUME NEW w \in c.workers, Ai(c)!Work(w), ~ Ai(c)!Place(w), ~ Ai(c)!Step(w),
              ~ Ai(c)!Deliver(w), ~ Ai(c)!SendFails(w), ~ Ai(c)!Free(w), ~ Ai(c)!Finish(w)
       PROVE  Placed(c)'
  BY <1>1, <1>11 DEF Ai!Work, Ai!Enter, Ai!Visit, Ai!Unlock, Ai!Copy, Ai!Look, Ai!Sort,
     Ai!Insert, Ai!Erase, Ai!Meet, Ai!Part, Ai!Wake, Ai!Tell, Ai!history
<1>12. ASSUME NEW w \in c.workers, Ai(c)!Start(w) PROVE Placed(c)'
  BY <1>3, <1>4, <1>5, <1>12 DEF Ai!Start
<1>13. CASE UNCHANGED Ai(c)!vars
  BY <1>1, <1>13 DEF Ai!vars
<1> QED
  BY <1>6, <1>7, <1>8, <1>9, <1>10, <1>11, <1>12, <1>13 DEF Ai!Next


LEMMA PlacedInit ==
    ASSUME NEW c \in AiServers, Ai(c)!Init
    PROVE  Counts(c) /\ Placed(c)
<1>1. /\ c.lives \in Nat /\ c.failures \in Nat
  BY LectureServersAssumption DEF Ai!AiServerAssumption
<1>2. /\ state = [o \in Ai(c)!Objects |-> IF o \in Ai(c)!Npcs THEN "INGAME" ELSE "FREE"]
      /\ lives = [p \in Ai(c)!Players |-> 0] /\ failed = 0
      /\ aborted = [p \in Ai(c)!Players |-> 0]
  BY DEF Ai!Init
<1>3. \A p \in Ai(c)!Players : state[p] = "FREE"
  BY <1>2, Sizes
<1>4. Counts(c)
  BY <1>1, <1>2, <1>3 DEF Counts
<1>5. Placed(c)
  BY DEF Ai!Init, Placed
<1> QED
  BY <1>4, <1>5

LEMMA AiTyped ==
    ASSUME NEW c \in AiServers, AiInv(c), Counts(c), Placed(c)
    PROVE  Ai(c)!TypeOK
<1>1. /\ c.lives \in Nat /\ c.failures \in Nat
  BY LectureServersAssumption DEF Ai!AiServerAssumption
<1>2. AiType(c)
  BY DEF AiInv
<1>3. failed \in 0..c.failures
  BY <1>1, <1>2 DEF AiType, Counts
<1>4. ASSUME NEW p \in Ai(c)!Players PROVE lives[p] \in 0..c.lives /\ aborted[p] \in 0..c.lives
  <2>1. /\ lives[p] \in Nat /\ aborted[p] \in Nat /\ lives[p] <= c.lives
        /\ aborted[p] + (IF state[p] = "FREE" THEN 0 ELSE 1) <= lives[p]
    BY <1>2 DEF AiType, Counts
  <2> QED
    BY <1>1, <2>1
<1>5. /\ lives \in [Ai(c)!Players -> 0..c.lives] /\ aborted \in [Ai(c)!Players -> 0..c.lives]
  BY <1>2, <1>4 DEF AiType
<1>6. ASSUME NEW w \in c.workers
      PROVE  /\ task[w].op \in {"idle", "login", "move", "quit", "abort", "npc"}
             /\ task[w].id \in Ai(c)!Objects \cup {0}
             /\ task[w].old \cup task[w].new \subseteq Ai(c)!Objects
  <2>1. task[w] \in AiHandlers(c)
    BY <1>2 DEF AiType
  <2> QED
    BY <2>1 DEF AiHandlers
<1> QED
  BY <1>2, <1>3, <1>5, <1>6 DEF AiType, Placed, Ai!TypeOK

LEMMA MtTyped ==
    ASSUME MtInv, Screens
    PROVE  Mt!TypeOK
<1>1. MAX_USER \in Nat /\ Lives \in Nat
  BY LectureServersAssumption DEF Mt!MtServerAssumption
<1>2. Mt!Slots \subseteq 0..MAX_USER /\ 0..MAX_USER \subseteq Mt!Slots \cup {0}
  BY <1>1 DEF Mt!Slots
<1>3. MtType
  BY DEF MtInv
<1>4. ASSUME NEW p \in Mt!Slots PROVE lives[p] \in 0..Lives /\ aborted[p] \in 0..Lives
  <2>1. /\ lives[p] \in Nat /\ aborted[p] \in Nat /\ lives[p] <= Lives
        /\ aborted[p] + (IF open[p] THEN 1 ELSE 0) <= lives[p]
    BY <1>3 DEF MtType, Screens
  <2> QED
    BY <1>1, <2>1
<1>5. lives \in [Mt!Slots -> 0..Lives] /\ aborted \in [Mt!Slots -> 0..Lives]
  BY <1>3, <1>4 DEF MtType, Screens
<1>6. shown \in [Mt!Slots -> SUBSET (0..MAX_USER)]
  BY <1>2 DEF Screens
<1>7. \A w \in Workers : task[w].id \in Mt!Slots \cup {0}
  BY <1>2, <1>3 DEF MtType, Handlers
<1> QED
  BY <1>3, <1>5, <1>6, <1>7 DEF MtType, Screens, Mt!TypeOK

TypeInv ==
    /\ \A c \in AiServers : server = c =>
          AiInv(c) /\ Shapes(c) /\ Enters(c) /\ Counts(c) /\ Placed(c)
    /\ server = MtIocp => ShownInv

(* Both servers: every variable keeps its type, for any number of objects, *)
(* workers, accepts and failing sends. Beyond its arrays' types, the bound *)
(* on aborted says that no close is reported twice, and no slot is entered *)
(* after its client was disconnected: the receives of closed sockets not   *)
(* yet reported, and the client in the slot, are together at most the      *)
(* accepts of the slot.                                                    *)
THEOREM LectureServersTypeOK == Spec => []TypeOK
<1>1. Mt!MtServerAssumption /\ MaxClients < MAX_USER /\ MtIocp \notin AiServers
  BY LectureServersAssumption
<1>2. Init => TypeInv
  <2> SUFFICES ASSUME Init PROVE TypeInv
    OBVIOUS
  <2>1. ASSUME NEW c \in AiServers, server = c
        PROVE  AiInv(c) /\ Shapes(c) /\ Enters(c) /\ Counts(c) /\ Placed(c)
    <3>1. Ai(c)!Init
      BY <1>1, <2>1 DEF Init
    <3> QED
      BY <3>1, AiInit, ShapesInit, EntersInit, PlacedInit
  <2>2. ASSUME server = MtIocp PROVE ShownInv
    <3>1. Mt!Init
      BY <1>1, <2>2 DEF Init
    <3> QED
      BY <1>1, <3>1, ShownInit
  <2> QED
    BY <2>1, <2>2 DEF TypeInv
<1>3. TypeInv /\ [Next]_vars => TypeInv'
  <2> SUFFICES ASSUME TypeInv, [Next]_vars PROVE TypeInv'
    OBVIOUS
  <2>1. ASSUME NEW c \in AiServers, server' = c
        PROVE  (AiInv(c) /\ Shapes(c) /\ Enters(c) /\ Counts(c) /\ Placed(c))'
    <3>1. server = c /\ [Ai(c)!Next]_(Ai(c)!vars)
      BY <2>1, AiServerSteps
    <3>2. AiInv(c) /\ Shapes(c) /\ Enters(c) /\ Counts(c) /\ Placed(c)
      BY <3>1 DEF TypeInv
    <3>3. AiInv(c)' /\ Shapes(c)' /\ Enters(c)' /\ Placed(c)'
      BY <3>1, <3>2, AiSteps, ShapesSteps, EntersSteps, PlacedSteps
    <3>4. Counts(c)'
      BY <3>1, <3>2, <3>3, CountsSteps
    <3> QED
      BY <3>3, <3>4
  <2>2. ASSUME server' = MtIocp PROVE ShownInv'
    <3>1. server = MtIocp /\ [Mt!Next]_(Mt!vars)
      BY <2>2, MtServerSteps
    <3> QED
      BY <1>1, <3>1, ShownSteps DEF TypeInv
  <2> QED
    BY <2>1, <2>2 DEF TypeInv
<1>4. TypeInv => TypeOK
  <2> SUFFICES ASSUME TypeInv PROVE TypeOK
    OBVIOUS
  <2>1. ASSUME NEW c \in AiServers, server = c PROVE Ai(c)!TypeOK
    BY <2>1, AiTyped DEF TypeInv
  <2>2. ASSUME server = MtIocp PROVE Mt!TypeOK
    BY <2>2, MtTyped DEF TypeInv, ShownInv
  <2> QED
    BY <2>1, <2>2 DEF TypeOK
<1> QED
  BY <1>2, <1>3, <1>4, PTL DEF Spec
=============================================================================
