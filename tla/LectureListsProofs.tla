-------------------------- MODULE LectureListsProofs --------------------------
(***************************************************************************)
(* The AI server's view lists and screens, for any number of clients, NPCs *)
(* and workers. A move beside which nothing runs repairs its player's      *)
(* lists, which from then on stay right until handlers overlap again       *)
(* (LonelyMovesRepair); and the handlers of a single worker keep all the   *)
(* lists, and what the clients show, what the players see                  *)
(* (HandlersKeepLists).                                                    *)
(*                                                                         *)
(*   - the programs, instruction by instruction;                           *)
(*   - Fair, how the lists stand in the midst of a handler that nothing    *)
(*     runs beside;                                                        *)
(*   - RepairInv, the lists that such handlers keep right;                 *)
(*   - ScreenInv, how the screens stand beside the lists.                  *)
(***************************************************************************)
EXTENDS LectureServersProofs
-----------------------------------------------------------------------------
(***************************************************************************)
(* AiServer: the lists. What is left of a program that is worked off from  *)
(* its k-th instruction on; the programs, instruction by instruction; and  *)
(* what is in the program of a sort.                                       *)
(***************************************************************************)
From(P, k) == [j \in 1..(Len(P) - k + 1) |-> P[k + j - 1]]

LEMMA FromSteps ==
    ASSUME NEW S, NEW P \in Seq(S), NEW k \in 1..Len(P)
    PROVE  /\ From(P, k) \in Seq(S) /\ From(P, k) # <<>> /\ Head(From(P, k)) = P[k]
           /\ Tail(From(P, k)) = From(P, k + 1)
           /\ Elems(From(P, k)) = {P[j] : j \in k..Len(P)}
           /\ k = Len(P) => Tail(From(P, k)) = <<>>
<1> DEFINE n == Len(P)
           F == From(P, k)
           R == From(P, k + 1)
<1>1. n \in Nat /\ \A j \in 1..n : P[j] \in S
  OBVIOUS
<1>2. k \in 1..n
  OBVIOUS
<1> HIDE DEF n
<1>3. /\ F \in [1..(n - k + 1) -> S] /\ n - k + 1 \in Nat
      /\ \A j \in 1..(n - k + 1) : F[j] = P[k + j - 1]
  <2>1. \A j \in 1..(n - k + 1) : k + j - 1 \in 1..n
    BY <1>1, <1>2
  <2> QED
    BY <1>1, <1>2, <2>1 DEF From, n
<1>4. /\ R \in [1..(n - k) -> S] /\ n - k \in Nat
      /\ \A j \in 1..(n - k) : R[j] = P[k + j]
  <2>1. \A j \in 1..(n - k) : k + j \in 1..n /\ (k + 1) + j - 1 = k + j
    BY <1>1, <1>2
  <2>2. n - (k + 1) + 1 = n - k
    BY <1>1, <1>2
  <2> QED
    BY <1>1, <1>2, <2>1, <2>2 DEF From, n
<1>5. F \in Seq(S) /\ Len(F) = n - k + 1
  BY <1>3, EachSeq
<1>6. R \in Seq(S) /\ Len(R) = n - k
  BY <1>4, EachSeq
<1> HIDE DEF F, R
<1>7. F # <<>> /\ Head(F) = P[k]
  <2>1. 1 \in 1..(n - k + 1) /\ k + 1 - 1 = k
    BY <1>1, <1>2
  <2> QED
    BY <1>3, <1>5, <2>1
<1>8. Tail(F) = R
  <2>1. Tail(F) \in Seq(S) /\ Len(Tail(F)) = n - k
        /\ \A j \in 1..(n - k) : Tail(F)[j] = F[j + 1]
    BY <1>1, <1>2, <1>5
  <2>2. ASSUME NEW j \in 1..(n - k) PROVE Tail(F)[j] = R[j]
    <3>1. j + 1 \in 1..(n - k + 1) /\ k + (j + 1) - 1 = k + j
      BY <1>1, <1>2
    <3> QED
      BY <1>3, <1>4, <2>1, <3>1
  <2> QED
    BY <1>6, <2>1, <2>2, SeqEqual
<1>9. Elems(F) = {P[j] : j \in k..n}
  <2>1. ASSUME NEW i \in 1..(n - k + 1) PROVE F[i] \in {P[j] : j \in k..n}
    <3>1. k + i - 1 \in k..n
      BY <1>1, <1>2
    <3> QED
      BY <1>3, <3>1
  <2>2. ASSUME NEW j \in k..n PROVE P[j] \in Elems(F)
    <3>1. j - k + 1 \in 1..(n - k + 1) /\ k + (j - k + 1) - 1 = j
      BY <1>1, <1>2
    <3>2. F[j - k + 1] = P[k + (j - k + 1) - 1]
      BY <1>3, <3>1
    <3> QED
      BY <1>5, <3>1, <3>2 DEF Elems
  <2> QED
    BY <1>5, <2>1, <2>2 DEF Elems
<1>10. k = n => R = <<>>
  BY <1>1, <1>6, EmptySeq
<1> QED
  BY <1>5, <1>7, <1>8, <1>9, <1>10 DEF F, R, n

(* The objects in the order of the array: each once, and not o.            *)
LEMMA OthersOnce ==
    ASSUME NEW c \in AiServers, NEW o \in Ai(c)!Objects
    PROVE  /\ \A k \in 1..(c.users - 1) : Ai(c)!Others(o)[k] \in Ai(c)!Objects \ {o}
           /\ \A j, k \in 1..(c.users - 1) :
                Ai(c)!Others(o)[j] = Ai(c)!Others(o)[k] => j = k
           /\ \A q \in Ai(c)!Objects \ {o} :
                \E k \in 1..(c.users - 1) : Ai(c)!Others(o)[k] = q
<1>1. c.users \in Nat /\ Ai(c)!Objects = 1..c.users
  BY Sizes
<1>2. \A k \in 1..(c.users - 1) : Ai(c)!Others(o)[k] = IF k < o THEN k ELSE k + 1
  BY DEF Ai!Others
<1>3. ASSUME NEW j \in 1..(c.users - 1), NEW k \in 1..(c.users - 1),
             Ai(c)!Others(o)[j] = Ai(c)!Others(o)[k]
      PROVE  j = k
  BY <1>1, <1>2, <1>3
<1>4. ASSUME NEW q \in Ai(c)!Objects \ {o}
      PROVE  \E k \in 1..(c.users - 1) : Ai(c)!Others(o)[k] = q
  <2>1. CASE q < o
    <3>1. q \in 1..(c.users - 1)
      BY <1>1, <2>1
    <3> QED
      BY <1>2, <2>1, <3>1
  <2>2. CASE ~(q < o)
    <3>1. q - 1 \in 1..(c.users - 1) /\ ~(q - 1 < o) /\ q - 1 + 1 = q
      BY <1>1, <2>2
    <3> QED
      BY <1>2, <3>1
  <2> QED
    BY <2>1, <2>2
<1> QED
  BY <1>3, <1>4, AiOthers

(* A middle, with something before and after it.                           *)
LEMMA Between ==
    ASSUME NEW S, NEW A \in Seq(S), NEW B \in Seq(S), NEW C \in Seq(S)
    PROVE  /\ A \o B \o C \in Seq(S) /\ Len(A \o B \o C) = Len(A) + Len(B) + Len(C)
           /\ \A i \in 1..Len(A) : (A \o B \o C)[i] = A[i]
           /\ \A i \in 1..Len(B) : (A \o B \o C)[Len(A) + i] = B[i]
           /\ \A i \in 1..Len(C) : (A \o B \o C)[Len(A) + Len(B) + i] = C[i]
<1> DEFINE D == A \o B
<1>1. /\ D \in Seq(S) /\ Len(D) = Len(A) + Len(B)
      /\ \A i \in 1..Len(A) : D[i] = A[i]
      /\ \A i \in 1..Len(B) : D[Len(A) + i] = B[i]
  BY Joined
<1> HIDE DEF D
<1>2. /\ D \o C \in Seq(S) /\ Len(D \o C) = Len(D) + Len(C)
      /\ \A i \in 1..Len(D) : (D \o C)[i] = D[i]
      /\ \A i \in 1..Len(C) : (D \o C)[Len(D) + i] = C[i]
  <2>1. D \in Seq(S)
    BY <1>1
  <2> QED
    BY <2>1, Joined
<1>3. Len(A) \in Nat /\ Len(B) \in Nat
  OBVIOUS
<1>4. \A i \in 1..Len(A) : i \in 1..Len(D)
  BY <1>1, <1>3
<1>5. \A i \in 1..Len(B) : Len(A) + i \in 1..Len(D)
  BY <1>1, <1>3
<1> QED
  BY <1>1, <1>2, <1>4, <1>5 DEF D

(* Z is A, B and C one after the other.                                    *)
Threefold(Z, A, B, C, S) ==
    /\ Z \in Seq(S) /\ Len(Z) = Len(A) + Len(B) + Len(C)
    /\ \A i \in 1..Len(A) : Z[i] = A[i]
    /\ \A i \in 1..Len(B) : Z[Len(A) + i] = B[i]
    /\ \A i \in 1..Len(C) : Z[Len(A) + Len(B) + i] = C[i]

(* A, B and C, each joined to the next, are one after the other.            *)
LEMMA ThreefoldIs ==
    ASSUME NEW S, NEW A \in Seq(S), NEW B \in Seq(S), NEW C \in Seq(S)
    PROVE  Threefold(A \o B \o C, A, B, C, S)
BY Between DEF Threefold


(* The programs, instruction by instruction.                               *)
LEMMA LoginByStep ==
    ASSUME NEW c \in AiServers, NEW p \in Ai(c)!Players
    PROVE  LET P == Ai(c)!LoginProgram(p)
           IN  /\ P \in Seq(Triples(c)) /\ Len(P) = c.users + 4
               /\ P[1] = Me("place", p) /\ P[2] = Me("ok", p) /\ P[3] = Me("enter", p)
               /\ \A k \in 1..(c.users - 1) : P[3 + k] = <<"visit", p, Ai(c)!Others(p)[k]>>
               /\ P[c.users + 3] = Me("unlock", p) /\ P[c.users + 4] = Me("done", p)
<1> DEFINE S == Triples(c)
           u == c.users - 1
           A == << Me("place", p), Me("ok", p), Me("enter", p) >>
           V == [i \in 1..u |-> <<"visit", p, Ai(c)!Others(p)[i]>>]
           B == << Me("unlock", p), Me("done", p) >>
<1>1. p \in Ai(c)!Objects /\ c.users \in Nat /\ c.users >= 1
  BY Sizes
<1>2. /\ \A op \in {"place", "ok", "enter", "unlock", "done"} : Me(op, p) \in S
      /\ \A o \in Ai(c)!Objects : <<"visit", p, o>> \in S
  BY <1>1 DEF Triples, AiOps, Me
<1>3. Ai(c)!LoginProgram(p) = A \o V \o B
  BY DEF Ai!LoginProgram, Me
<1>4. u \in Nat /\ \A i \in 1..u : Ai(c)!Others(p)[i] \in Ai(c)!Objects
  BY <1>1, OthersOnce
<1> HIDE DEF S, u
<1>5. V \in [1..u -> S] /\ \A i \in 1..u : V[i] = <<"visit", p, Ai(c)!Others(p)[i]>>
  BY <1>2, <1>4
<1>6. V \in Seq(S) /\ Len(V) = u
  <2> HIDE DEF V
  <2> QED
    BY <1>4, <1>5, EachSeq
<1> DEFINE pl == Me("place", p)
           ok == Me("ok", p)
           en == Me("enter", p)
           ul == Me("unlock", p)
           dn == Me("done", p)
<1>7. {pl, ok, en, ul, dn} \subseteq S
  BY <1>2
<1> HIDE DEF pl, ok, en, ul, dn, V
<1>8. /\ <<pl, ok, en>> \in Seq(S) /\ Len(<<pl, ok, en>>) = 3
      /\ <<pl, ok, en>>[1] = pl /\ <<pl, ok, en>>[2] = ok /\ <<pl, ok, en>>[3] = en
      /\ <<ul, dn>> \in Seq(S) /\ Len(<<ul, dn>>) = 2
      /\ <<ul, dn>>[1] = ul /\ <<ul, dn>>[2] = dn
  BY <1>7
<1> DEFINE X == <<pl, ok, en>>
           Y == <<ul, dn>>
<1> HIDE DEF X, Y
<1>9. /\ X \in Seq(S) /\ Len(X) = 3 /\ X[1] = pl /\ X[2] = ok /\ X[3] = en
      /\ Y \in Seq(S) /\ Len(Y) = 2 /\ Y[1] = ul /\ Y[2] = dn
  BY <1>8 DEF X, Y
<1>10. /\ X \o V \o Y \in Seq(S) /\ Len(X \o V \o Y) = Len(X) + Len(V) + Len(Y)
       /\ \A i \in 1..Len(X) : (X \o V \o Y)[i] = X[i]
       /\ \A i \in 1..Len(V) : (X \o V \o Y)[Len(X) + i] = V[i]
       /\ \A i \in 1..Len(Y) : (X \o V \o Y)[Len(X) + Len(V) + i] = Y[i]
  <2>1. X \in Seq(S)
    BY <1>6, <1>9
  <2>2. V \in Seq(S)
    BY <1>6, <1>9
  <2>3. Y \in Seq(S)
    BY <1>6, <1>9
  <2>4. Threefold(X \o V \o Y, X, V, Y, S)
    BY <2>1, <2>2, <2>3, ThreefoldIs
  <2> QED
    BY <2>4 DEF Threefold
<1> DEFINE P == X \o V \o Y
<1> HIDE DEF P
<1>11. /\ P \in Seq(S) /\ Len(P) = c.users + 4
       /\ P[1] = pl /\ P[2] = ok /\ P[3] = en
       /\ \A i \in 1..u : P[3 + i] = V[i]
       /\ P[c.users + 3] = ul /\ P[c.users + 4] = dn
  <2>1. /\ P \in Seq(S) /\ Len(P) = 3 + u + 2
        /\ \A i \in 1..3 : P[i] = X[i]
        /\ \A i \in 1..u : P[3 + i] = V[i]
        /\ \A i \in 1..2 : P[3 + u + i] = Y[i]
    BY <1>6, <1>9, <1>10 DEF P
  <2>2. 3 + u + 1 = c.users + 3 /\ 3 + u + 2 = c.users + 4
    BY <1>1 DEF u
  <2>3. P[1] = pl /\ P[2] = ok /\ P[3] = en
    BY <1>9, <2>1
  <2>4. P[3 + u + 1] = ul /\ P[3 + u + 2] = dn
    BY <1>9, <2>1
  <2> QED
    BY <2>1, <2>2, <2>3, <2>4
<1>12. Ai(c)!LoginProgram(p) = P
  BY <1>3 DEF P, X, Y, pl, ok, en, ul, dn
<1> QED
  BY <1>5, <1>11, <1>12 DEF pl, ok, en, ul, dn, S, u

LEMMA MoveByStep ==
    ASSUME NEW c \in AiServers, NEW p \in Ai(c)!Players
    PROVE  LET P == Ai(c)!MoveProgram(p)
           IN  /\ P \in Seq(Triples(c)) /\ Len(P) = c.users + 2
               /\ P[1] = Me("step", p) /\ P[2] = Me("copy", p)
               /\ \A k \in 1..(c.users - 1) : P[2 + k] = <<"look", p, Ai(c)!Others(p)[k]>>
               /\ P[c.users + 2] = Me("sort", p)
<1> DEFINE S == Triples(c)
           u == c.users - 1
           V == [i \in 1..u |-> <<"look", p, Ai(c)!Others(p)[i]>>]
           st == Me("step", p)
           cp == Me("copy", p)
           so == Me("sort", p)
<1>1. p \in Ai(c)!Objects /\ c.users \in Nat /\ c.users >= 1
  BY Sizes
<1>2. /\ {st, cp, so} \subseteq S
      /\ \A o \in Ai(c)!Objects : <<"look", p, o>> \in S
  BY <1>1 DEF Triples, AiOps, Me
<1>3. Ai(c)!MoveProgram(p) = <<st, cp>> \o V \o <<so>>
  BY DEF Ai!MoveProgram, Me
<1>4. u \in Nat /\ \A i \in 1..u : Ai(c)!Others(p)[i] \in Ai(c)!Objects
  BY <1>1, OthersOnce
<1> HIDE DEF S, u, st, cp, so
<1>5. V \in [1..u -> S] /\ \A i \in 1..u : V[i] = <<"look", p, Ai(c)!Others(p)[i]>>
  BY <1>2, <1>4
<1>6. V \in Seq(S) /\ Len(V) = u
  <2> HIDE DEF V
  <2> QED
    BY <1>4, <1>5, EachSeq
<1> HIDE DEF V
<1> DEFINE X == <<st, cp>>
           Y == <<so>>
<1>9. /\ X \in Seq(S) /\ Len(X) = 2 /\ X[1] = st /\ X[2] = cp
      /\ Y \in Seq(S) /\ Len(Y) = 1 /\ Y[1] = so
  BY <1>2
<1> HIDE DEF X, Y
<1>10. /\ X \o V \o Y \in Seq(S) /\ Len(X \o V \o Y) = Len(X) + Len(V) + Len(Y)
       /\ \A i \in 1..Len(X) : (X \o V \o Y)[i] = X[i]
       /\ \A i \in 1..Len(V) : (X \o V \o Y)[Len(X) + i] = V[i]
       /\ \A i \in 1..Len(Y) : (X \o V \o Y)[Len(X) + Len(V) + i] = Y[i]
  <2>1. X \in Seq(S)
    BY <1>6, <1>9
  <2>2. V \in Seq(S)
    BY <1>6, <1>9
  <2>3. Y \in Seq(S)
    BY <1>6, <1>9
  <2>4. Threefold(X \o V \o Y, X, V, Y, S)
    BY <2>1, <2>2, <2>3, ThreefoldIs
  <2> QED
    BY <2>4 DEF Threefold
<1> DEFINE P == X \o V \o Y
<1> HIDE DEF P
<1>11. /\ P \in Seq(S) /\ Len(P) = c.users + 2
       /\ P[1] = st /\ P[2] = cp
       /\ \A i \in 1..u : P[2 + i] = V[i]
       /\ P[c.users + 2] = so
  <2>1. /\ P \in Seq(S) /\ Len(P) = 2 + u + 1
        /\ \A i \in 1..2 : P[i] = X[i]
        /\ \A i \in 1..u : P[2 + i] = V[i]
        /\ \A i \in 1..1 : P[2 + u + i] = Y[i]
    BY <1>6, <1>9, <1>10 DEF P
  <2>2. 2 + u + 1 = c.users + 2
    BY <1>1 DEF u
  <2>3. P[1] = st /\ P[2] = cp
    BY <1>9, <2>1
  <2>4. P[2 + u + 1] = so
    BY <1>9, <2>1
  <2> QED
    BY <2>1, <2>2, <2>3, <2>4
<1>12. Ai(c)!MoveProgram(p) = P
  BY <1>3 DEF P, X, Y
<1> QED
  BY <1>5, <1>11, <1>12 DEF st, cp, so, S, u

(* The turn of an NPC; m is the number of players.                         *)
LEMMA NpcByStep ==
    ASSUME NEW c \in AiServers, NEW n \in Ai(c)!Npcs
    PROVE  LET P == Ai(c)!NpcProgram(n)
               m == c.npcStart - 1
           IN  /\ P \in Seq(Triples(c)) /\ Len(P) = c.npcStart + c.npcStart
               /\ \A k \in 1..m : /\ P[k] = <<"look", n, k>>
                                  /\ P[c.npcStart + k] = <<"look", n, k>>
               /\ P[c.npcStart] = Me("step", n)
               /\ P[c.npcStart + c.npcStart] = Me("sort", n)
<1> DEFINE S == Triples(c)
           m == c.npcStart - 1
           L == [p \in Ai(c)!Players |-> <<"look", n, p>>]
           st == Me("step", n)
           so == Me("sort", n)
<1>1. /\ n \in Ai(c)!Objects /\ Ai(c)!Players \subseteq Ai(c)!Objects
      /\ m \in Nat /\ Ai(c)!Players = 1..m /\ c.npcStart = m + 1
  BY Sizes
<1>2. /\ {st, so} \subseteq S
      /\ \A o \in Ai(c)!Players : <<"look", n, o>> \in S
  BY <1>1 DEF Triples, AiOps, Me
<1>3. Ai(c)!NpcProgram(n) = L \o <<st>> \o L \o <<so>>
  BY DEF Ai!NpcProgram, Me
<1> HIDE DEF S, m, st, so
<1>5. L \in [1..m -> S] /\ \A i \in 1..m : L[i] = <<"look", n, i>>
  BY <1>1, <1>2
<1> HIDE DEF L
<1>6. L \in Seq(S) /\ Len(L) = m
  BY <1>1, <1>5, EachSeq
<1> DEFINE X == <<st>>
           Y == <<so>>
<1>9. /\ X \in Seq(S) /\ Len(X) = 1 /\ X[1] = st
      /\ Y \in Seq(S) /\ Len(Y) = 1 /\ Y[1] = so
  BY <1>2
<1> HIDE DEF X, Y
<1> DEFINE Q == L \o X \o L
<1>10. /\ Q \in Seq(S) /\ Len(Q) = Len(L) + Len(X) + Len(L)
       /\ \A i \in 1..Len(L) : Q[i] = L[i]
       /\ \A i \in 1..Len(X) : Q[Len(L) + i] = X[i]
       /\ \A i \in 1..Len(L) : Q[Len(L) + Len(X) + i] = L[i]
  <2>1. L \in Seq(S)
    BY <1>6, <1>9
  <2>2. X \in Seq(S)
    BY <1>6, <1>9
  <2>3. L \in Seq(S)
    BY <1>6, <1>9
  <2>4. Threefold(L \o X \o L, L, X, L, S)
    BY <2>1, <2>2, <2>3, ThreefoldIs
  <2> QED
    BY <2>4 DEF Threefold
<1> HIDE DEF Q
<1>11. /\ Q \in Seq(S) /\ Len(Q) = m + 1 + m
       /\ \A i \in 1..m : Q[i] = L[i] /\ Q[m + 1 + i] = L[i]
       /\ Q[m + 1] = st
  BY <1>6, <1>9, <1>10
<1> DEFINE P == Q \o Y
<1>12. /\ P \in Seq(S) /\ Len(P) = Len(Q) + Len(Y)
       /\ \A i \in 1..Len(Q) : P[i] = Q[i]
       /\ \A i \in 1..Len(Y) : P[Len(Q) + i] = Y[i]
  <2>1. Q \in Seq(S) /\ Y \in Seq(S)
    BY <1>9, <1>11
  <2> QED
    BY <2>1, Joined
<1> HIDE DEF P
<1>13. /\ P \in Seq(S) /\ Len(P) = (m + 1) + (m + 1)
       /\ \A i \in 1..m : P[i] = L[i] /\ P[(m + 1) + i] = L[i]
       /\ P[m + 1] = st /\ P[(m + 1) + (m + 1)] = so
  <2>1. \A i \in 1..(m + 1 + m) : P[i] = Q[i]
    BY <1>11, <1>12
  <2>2. Len(P) = (m + 1) + (m + 1) /\ P[m + 1 + m + 1] = so
    BY <1>1, <1>9, <1>11, <1>12
  <2>3. /\ m + 1 + m + 1 = (m + 1) + (m + 1) /\ m + 1 \in 1..(m + 1 + m)
        /\ \A i \in 1..m : i \in 1..(m + 1 + m) /\ (m + 1) + i \in 1..(m + 1 + m)
    BY <1>1
  <2> QED
    BY <1>11, <1>12, <2>1, <2>2, <2>3
<1>14. Ai(c)!NpcProgram(n) = P
  BY <1>3 DEF P, Q, X, Y
<1>15. m + 1 = c.npcStart
  BY <1>1
<1> QED
  BY <1>5, <1>13, <1>14, <1>15 DEF st, so, S, m

-----------------------------------------------------------------------------
(***************************************************************************)
(* AiServer: the lists. Of a pair <<q, o>> in Must it is said that q lists *)
(* o if they are near each other, of one in Only that q lists o only then; *)
(* or else the instructions E that a worker has yet to carry out make it   *)
(* so.                                                                     *)
(***************************************************************************)
Near(c, q, o) ==
    q # o /\ state[q] = "INGAME" /\ state[o] = "INGAME" /\ Ai(c)!CanSee(q, o)

Comes(E, q, o) == <<"insert", q, o>> \in E \/ <<"meet", q, o>> \in E
Parts(E, q, o) == <<"erase", q, o>> \in E \/ <<"part", q, o>> \in E
Called(E, q, o) == <<"visit", q, o>> \in E \/ <<"visit", o, q>> \in E

Agrees(c, E, Must, Only, q, o) ==
    /\ <<q, o>> \in Must /\ Near(c, q, o) /\ o \notin view[q]
         => Comes(E, q, o) \/ Called(E, q, o)
    /\ <<q, o>> \in Only /\ ~Near(c, q, o) /\ o \in view[q] => Parts(E, q, o)
    /\ Comes(E, q, o) => Near(c, q, o)
    /\ Parts(E, q, o) => ~Near(c, q, o)

Agreed(c, E, Must, Only) ==
    \A q \in Ai(c)!Players, o \in Ai(c)!Objects : Agrees(c, E, Must, Only, q, o)

(* The pairs that a is not one of.                                         *)
AgreedBut(c, a, Must, Only) ==
    \A q \in Ai(c)!Players \ {a}, o \in Ai(c)!Objects \ {a} :
        Agrees(c, {}, Must, Only, q, o)

(* What a handler of this op may have left when it has sorted or entered.  *)
Later(c, op) ==
    {i \in Triples(c) :
        /\ i[1] \notin {"place", "ok", "enter", "step", "copy", "look", "sort"}
        /\ i[1] = "visit" => op = "login" /\ state[i[2]] = "INGAME" /\ i[2] # i[3]
        /\ i[1] \in {"insert", "meet"} => op \notin {"quit", "abort"}
        /\ i[1] = "free" => op \in {"quit", "abort"} \/ state[i[2]] = "FREE"}

Settled(c, w, Must, Only) ==
    /\ Todo(w) \in Seq(Triples(c)) /\ Elems(Todo(w)) \subseteq Later(c, task[w].op)
    /\ Ends(Todo(w))
    /\ Agreed(c, Elems(Todo(w)), Must, Only)

Entering(c, w, p, k, Must, Only) ==
    /\ task[w].op = "login" /\ task[w].id = p /\ state[p] = "CONNECTED"
    /\ Todo(w) = From(Ai(c)!LoginProgram(p), k)
    /\ Agreed(c, {}, Must, Only)

Stepping(c, w, p, Must, Only) ==
    /\ task[w].op = "move" /\ task[w].id = p /\ state[p] = "INGAME"
    /\ Todo(w) = From(Ai(c)!MoveProgram(p), 1)
    /\ task[w].new = {}
    /\ Agreed(c, {}, Must, Only)

(* A player that has stepped, and has not sorted: whoever lists it, it     *)
(* lists; and those it has looked at it has seen if they are near.         *)
Looking(c, w, p, k, Must, Only) ==
    /\ task[w].op = "move" /\ task[w].id = p /\ state[p] = "INGAME"
    /\ Todo(w) = From(Ai(c)!MoveProgram(p), k)
    /\ AgreedBut(c, p, Must, Only)
    /\ \A q \in Ai(c)!Players \ {p} : <<q, p>> \in Only /\ p \in view[q] => q \in view[p]
    /\ k > 2 => task[w].old = view[p]
    /\ \A o \in Ai(c)!Objects :
          o \in task[w].new
            <=> Near(c, p, o) /\ \E j \in 1..(k - 3) : Ai(c)!Others(p)[j] = o

(* An NPC before its step ... *)
Waiting(c, w, n, k, Must, Only) ==
    /\ task[w].op = "npc" /\ task[w].id = n /\ state[n] = "INGAME"
    /\ Todo(w) = From(Ai(c)!NpcProgram(n), k)
    /\ Agreed(c, {}, Must, Only)
    /\ task[w].old = {}
    /\ \A p \in Ai(c)!Players : p \in task[w].new <=> Near(c, p, n) /\ p < k

(* ... and after it: its old list is of those that have it in theirs.      *)
Roaming(c, w, n, k, Must, Only) ==
    /\ task[w].op = "npc" /\ task[w].id = n /\ state[n] = "INGAME"
    /\ Todo(w) = From(Ai(c)!NpcProgram(n), c.npcStart + k)
    /\ AgreedBut(c, n, Must, Only)
    /\ \A p \in Ai(c)!Players :
          /\ <<p, n>> \in Only /\ n \in view[p] => p \in task[w].old
          /\ <<p, n>> \in Must /\ p \in task[w].old => n \in view[p]
          /\ p \in task[w].new <=> Near(c, p, n) /\ p < k

Fair(c, w, Must, Only) ==
    \/ Settled(c, w, Must, Only)
    \/ \E p \in Ai(c)!Players :
          \/ \E k \in 1..3 : Entering(c, w, p, k, Must, Only)
          \/ Stepping(c, w, p, Must, Only)
          \/ \E k \in 2..(c.users + 2) : Looking(c, w, p, k, Must, Only)
    \/ \E n \in Ai(c)!Npcs : \E k \in 1..c.npcStart :
          Waiting(c, w, n, k, Must, Only) \/ Roaming(c, w, n, k, Must, Only)

LEMMA NearBoth ==
    ASSUME NEW c \in AiServers, Placed(c), NEW q \in Ai(c)!Objects, NEW o \in Ai(c)!Objects
    PROVE  Near(c, q, o) <=> Near(c, o, q)
<1>1. /\ {pos[q].x, pos[q].y, pos[o].x, pos[o].y} \subseteq Int
  <2>1. pos[q] \in Ai(c)!World /\ pos[o] \in Ai(c)!World
    BY DEF Placed
  <2>2. Ai(c)!World \subseteq [x : Int, y : Int]
    BY LectureServersAssumption DEF Ai!World, Ai!AiServerAssumption
  <2> QED
    BY <2>1, <2>2
<1>2. ASSUME NEW i \in Int, NEW j \in Int PROVE Ai(c)!Distance(i, j) = Ai(c)!Distance(j, i)
  BY <1>2 DEF Ai!Distance
<1> QED
  BY <1>1, <1>2 DEF Near, Ai!CanSee

LEMMA NearSight ==
    ASSUME NEW c \in AiServers, NEW a \in Ai(c)!Objects, state[a] = "INGAME",
           NEW o \in Ai(c)!Objects
    PROVE  o \in Ai(c)!Sight(a) <=> Near(c, a, o)
  BY DEF Near, Ai!Sight

(* Pairs may be left out, and nothing else need be said of them.           *)
LEMMA AgreesLess ==
    ASSUME NEW c, NEW E, NEW Must, NEW Only, NEW M2, NEW O2, NEW q, NEW o,
           <<q, o>> \in M2 => <<q, o>> \in Must, <<q, o>> \in O2 => <<q, o>> \in Only,
           Agrees(c, E, Must, Only, q, o)
    PROVE  Agrees(c, E, M2, O2, q, o)
  BY DEF Agrees

-----------------------------------------------------------------------------
(* What is said of a pair stays so if neither the pair nor what is to be   *)
(* done about it changes.                                                  *)
SameFor(E, F, q, o) ==
    /\ Comes(E, q, o) <=> Comes(F, q, o)
    /\ Parts(E, q, o) <=> Parts(F, q, o)
    /\ Called(E, q, o) <=> Called(F, q, o)

Fewer(M2, Must) == \A x \in M2 : x \in Must

LEMMA PairStays ==
    ASSUME NEW c, NEW E, NEW F, NEW Must, NEW Only, NEW M2, NEW O2, NEW q, NEW o,
           Fewer(M2, Must), Fewer(O2, Only),
           Agrees(c, E, Must, Only, q, o), SameFor(E, F, q, o),
           Near(c, q, o)' <=> Near(c, q, o), o \in view'[q] <=> o \in view[q]
    PROVE  Agrees(c, F, M2, O2, q, o)'
<1>1. <<q, o>> \in M2 => <<q, o>> \in Must
  BY DEF Fewer
<1>2. <<q, o>> \in O2 => <<q, o>> \in Only
  BY DEF Fewer
<1> QED
  BY <1>1, <1>2 DEF Agrees, SameFor, Comes, Parts, Called

(* Near are those who are where they were, and in the game as they were.   *)
LEMMA NearStays ==
    ASSUME NEW c, NEW q, NEW o,
           state'[q] = "INGAME" <=> state[q] = "INGAME",
           state'[o] = "INGAME" <=> state[o] = "INGAME",
           state[q] = "INGAME" => pos'[q] = pos[q], state[o] = "INGAME" => pos'[o] = pos[o]
    PROVE  Near(c, q, o)' <=> Near(c, q, o)
<1>1. CASE state[q] = "INGAME" /\ state[o] = "INGAME"
  <2>1. pos'[q] = pos[q] /\ pos'[o] = pos[o]
    BY <1>1
  <2>2. Ai(c)!CanSee(q, o)' <=> Ai(c)!CanSee(q, o)
    BY <2>1 DEF Ai!CanSee, Ai!Distance
  <2> QED
    BY <1>1, <2>2 DEF Near
<1>2. CASE ~ (state[q] = "INGAME" /\ state[o] = "INGAME")
  BY <1>2 DEF Near
<1> QED
  BY <1>1, <1>2

LEMMA LaterStays ==
    ASSUME NEW c, NEW op, \A o \in Ai(c)!Objects : state'[o] = state[o]
    PROVE  Later(c, op) \subseteq Later(c, op)'
<1> SUFFICES ASSUME NEW i \in Later(c, op) PROVE i \in Later(c, op)'
  OBVIOUS
<1>1. i \in Triples(c) /\ i[2] \in Ai(c)!Objects
  BY DEF Later, Triples
<1>2. state'[i[2]] = state[i[2]]
  BY <1>1
<1>3. i \in Triples(c)'
  BY <1>1 DEF Triples, Ai!Objects, Ai!Players, Ai!Npcs
<1> QED
  BY <1>2, <1>3 DEF Later

LEMMA SettledGoes ==
    ASSUME NEW c \in AiServers, NEW w, NEW Must, NEW Only, NEW M2, NEW O2,
           Settled(c, w, Must, Only), Todo(w) # <<>>,
           NEW more \in Seq(Triples(c)), task'[w].todo = more \o Tail(task[w].todo),
           task'[w].op = task[w].op, \A i \in Elems(more) : i[1] # "done",
           NEW F, F = Elems(more) \cup Elems(Tail(Todo(w))),
           F \subseteq Later(c, task[w].op)', Agreed(c, F, M2, O2)'
    PROVE  Settled(c, w, M2, O2)'
<1> DEFINE T == Todo(w)
           R == Tail(T)
<1>1. T \in Seq(Triples(c)) /\ T # <<>> /\ Ends(T) /\ T = task[w].todo
  BY DEF Settled, Todo
<1>2. R \in Seq(Triples(c)) /\ Ends(R)
  BY <1>1, ElemsStep, EndsStep
<1>3. Todo(w)' = more \o R
  BY DEF Todo
<1> HIDE DEF R, T
<1>4. more \o R \in Seq(Triples(c)) /\ Elems(more \o R) = Elems(more) \cup Elems(R)
  BY <1>2, ElemsJoin
<1>5. Ends(more \o R)
  BY <1>2, EndsJoin
<1>6. Triples(c)' = Triples(c)
  BY DEF Triples, Ai!Objects, Ai!Players, Ai!Npcs
<1>7. F = Elems(more \o R)
  BY <1>4 DEF R, T
<1>8. PICK N : N = more \o R
  OBVIOUS
<1>9. Todo(w)' = N /\ N \in Seq(Triples(c)) /\ Ends(N) /\ Elems(N) = F
  BY <1>3, <1>4, <1>5, <1>7, <1>8
<1>10. /\ Todo(w)' \in Seq(Triples(c)') /\ Ends(Todo(w))' /\ Elems(Todo(w))' = F
  <2>1. Ends(Todo(w))' <=> Ends(N)
    BY <1>9 DEF Ends
  <2>2. Elems(Todo(w))' = Elems(N)
    BY <1>9 DEF Elems
  <2> QED
    BY <1>6, <1>9, <2>1, <2>2
<1>11. F \subseteq (Later(c, task[w].op))'
  OBVIOUS
<1>12. Agreed(c, Elems(Todo(w)), M2, O2)'
  BY <1>10
<1> QED
  BY <1>10, <1>11, <1>12 DEF Settled

(* The parts of what is left.                                              *)
LEMMA SettledHand ==
    ASSUME NEW c \in AiServers, NEW w, NEW Must, NEW Only,
           Settled(c, w, Must, Only), Todo(w) # <<>>
    PROVE  /\ Elems(Todo(w)) = {Head(Todo(w))} \cup Elems(Tail(Todo(w)))
           /\ Head(Todo(w)) \in Later(c, task[w].op)
           /\ Elems(Tail(Todo(w))) \subseteq Later(c, task[w].op)
           /\ Head(Todo(w))[1] = "done" => Tail(Todo(w)) = <<>>
<1>1. /\ Todo(w) \in Seq(Triples(c)) /\ Ends(Todo(w))
      /\ Elems(Todo(w)) \subseteq Later(c, task[w].op)
  BY DEF Settled
<1>2. Elems(Todo(w)) = {Head(Todo(w))} \cup Elems(Tail(Todo(w)))
  BY <1>1, ElemsStep
<1> QED
  BY <1>1, <1>2, EndsStep

(* An instruction that is not about the lists, or finds nothing to do.     *)
LEMMA SettledPlain ==
    ASSUME NEW c \in AiServers, NEW w, NEW Must, NEW Only, NEW M2, NEW O2,
           Fewer(M2, Must), Fewer(O2, Only),
           Settled(c, w, Must, Only), Todo(w) # <<>>,
           Head(Todo(w))[1] \notin {"insert", "meet", "erase", "part", "visit"},
           NEW more \in Seq(Triples(c)), task'[w].todo = more \o Tail(task[w].todo),
           task'[w].op = task[w].op,
           \A i \in Elems(more) : /\ i \in Later(c, task[w].op)
                                  /\ i[1] \notin {"insert", "meet", "erase", "part", "visit", "done"},
           \A o \in Ai(c)!Objects : state'[o] = state[o],
           UNCHANGED <<pos, view>>
    PROVE  Settled(c, w, M2, O2)'
<1> DEFINE h == Head(Todo(w))
<1>1. PICK E : E = Elems(Todo(w))
  OBVIOUS
<1>2. PICK R : R = Elems(Tail(Todo(w)))
  OBVIOUS
<1>3. PICK A : A = Elems(more)
  OBVIOUS
<1>4. PICK F : F = A \cup R
  OBVIOUS
<1>5. E = {h} \cup R /\ R \subseteq Later(c, task[w].op)
  BY <1>1, <1>2, SettledHand
<1>6. F \subseteq Later(c, task[w].op)
  BY <1>3, <1>4, <1>5
<1>7. PICK op : op = task[w].op
  OBVIOUS
<1>8. F \subseteq Later(c, task[w].op)'
  <2>1. F \subseteq Later(c, op)
    BY <1>6, <1>7
  <2>2. F \subseteq Later(c, op)'
    BY <2>1, LaterStays
  <2> QED
    BY <1>7, <2>2
<1>9. ASSUME NEW q \in Ai(c)!Players, NEW o \in Ai(c)!Objects PROVE SameFor(E, F, q, o)
  <2>1. \A i : i[1] \in {"insert", "meet", "erase", "part", "visit"} => (i \in E <=> i \in F)
    <3> HIDE DEF h
    <3>1. h[1] \notin {"insert", "meet", "erase", "part", "visit"}
      BY DEF h
    <3>2. \A i \in A : i[1] \notin {"insert", "meet", "erase", "part", "visit"}
      BY <1>3
    <3> QED
      BY <1>4, <1>5, <3>1, <3>2
  <2>2. /\ <<"insert", q, o>>[1] = "insert" /\ <<"meet", q, o>>[1] = "meet"
        /\ <<"erase", q, o>>[1] = "erase" /\ <<"part", q, o>>[1] = "part"
        /\ <<"visit", q, o>>[1] = "visit" /\ <<"visit", o, q>>[1] = "visit"
    OBVIOUS
  <2> QED
    BY <2>1, <2>2 DEF SameFor, Comes, Parts, Called
<1>10. Agreed(c, F, M2, O2)'
  <2> SUFFICES ASSUME NEW q \in Ai(c)!Players, NEW o \in Ai(c)!Objects
               PROVE  Agrees(c, F, M2, O2, q, o)'
    BY DEF Agreed, Ai!Players, Ai!Objects, Ai!Npcs
  <2>1. Agrees(c, E, Must, Only, q, o)
    BY <1>1 DEF Settled, Agreed
  <2>2. q \in Ai(c)!Objects
    BY Sizes
  <2>3. Near(c, q, o)' <=> Near(c, q, o)
    BY <2>2, NearStays
  <2> QED
    BY <1>9, <2>1, <2>3, PairStays
<1> QED
  BY <1>2, <1>3, <1>4, <1>8, <1>10, SettledGoes

(* An entry comes into a list, or goes from it, as was called for.         *)
LEMMA SettledLists ==
    ASSUME NEW c \in AiServers, NEW w, NEW Must, NEW Only, NEW M2, NEW O2,
           Fewer(M2, Must), Fewer(O2, Only), AiType(c),
           Settled(c, w, Must, Only), Todo(w) # <<>>,
           NEW f \in Ai(c)!Players, NEW s \in Ai(c)!Objects,
           \/ /\ Head(Todo(w)) \in {<<"insert", f, s>>, <<"meet", f, s>>}
              /\ view' = [view EXCEPT ![f] = @ \cup {s}]
           \/ /\ Head(Todo(w)) \in {<<"erase", f, s>>, <<"part", f, s>>}
              /\ view' = [view EXCEPT ![f] = @ \ {s}],
           NEW more \in Seq(Triples(c)), task'[w].todo = more \o Tail(task[w].todo),
           task'[w].op = task[w].op,
           \A i \in Elems(more) : /\ i \in Later(c, task[w].op)
                                  /\ i[1] \notin {"insert", "meet", "erase", "part", "visit", "done"},
           UNCHANGED <<pos, state>>
    PROVE  Settled(c, w, M2, O2)'
<1>0. PICK h : h = Head(Todo(w))
  OBVIOUS
<1>1. PICK E : E = Elems(Todo(w))
  OBVIOUS
<1>2. PICK R : R = Elems(Tail(Todo(w)))
  OBVIOUS
<1>3. PICK A : A = Elems(more)
  OBVIOUS
<1>4. PICK F : F = A \cup R
  OBVIOUS
<1>5. E = {h} \cup R /\ R \subseteq Later(c, task[w].op)
  BY <1>0, <1>1, <1>2, SettledHand
<1>6. F \subseteq Later(c, task[w].op)
  BY <1>3, <1>4, <1>5
<1>7. PICK op : op = task[w].op
  OBVIOUS
<1>8. F \subseteq Later(c, task[w].op)'
  <2>1. F \subseteq Later(c, op)
    BY <1>6, <1>7
  <2>2. F \subseteq Later(c, op)'
    BY <2>1, LaterStays
  <2> QED
    BY <1>7, <2>2
<1>9. \A i : i[1] \in {"insert", "meet", "erase", "part", "visit"} /\ i # h => (i \in E <=> i \in F)
  <2>1. \A i \in A : i[1] \notin {"insert", "meet", "erase", "part", "visit"}
    BY <1>3
  <2> QED
    BY <1>4, <1>5, <2>1
<1>10. \A i : i[1] \in {"insert", "meet", "erase", "part", "visit"} /\ i \in F => i \in E
  <2>1. \A i \in A : i[1] \notin {"insert", "meet", "erase", "part", "visit"}
    BY <1>3
  <2> QED
    BY <1>4, <1>5, <2>1
<1>11. ASSUME NEW q, NEW o
       PROVE  /\ <<"insert", q, o>>[1] = "insert" /\ <<"meet", q, o>>[1] = "meet"
              /\ <<"erase", q, o>>[1] = "erase" /\ <<"part", q, o>>[1] = "part"
              /\ <<"visit", q, o>>[1] = "visit" /\ <<"visit", o, q>>[1] = "visit"
  OBVIOUS
<1>12. view \in [Ai(c)!Players -> SUBSET Ai(c)!Objects]
  BY DEF AiType
<1>13. ASSUME NEW q \in Ai(c)!Players, NEW o \in Ai(c)!Objects PROVE Near(c, q, o)' <=> Near(c, q, o)
  <2>1. q \in Ai(c)!Objects
    BY Sizes
  <2> QED
    BY <2>1, NearStays
<1>14. ASSUME NEW q \in Ai(c)!Players, NEW o \in Ai(c)!Objects
       PROVE  Agrees(c, F, M2, O2, q, o)'
  <2>1. Agrees(c, E, Must, Only, q, o)
    BY <1>1 DEF Settled, Agreed
  <2>2. CASE q = f /\ o = s
    <3>1. (Comes(F, q, o) => Comes(E, q, o)) /\ (Parts(F, q, o) => Parts(E, q, o))
      BY <1>10, <1>11 DEF Comes, Parts
    <3>2. h \in E
      BY <1>5
    <3>3. CASE h \in {<<"insert", f, s>>, <<"meet", f, s>>}
      <4>1. h \notin {<<"erase", f, s>>, <<"part", f, s>>}
        BY <3>3
      <4>2. view' = [view EXCEPT ![f] = @ \cup {s}]
        BY <1>0, <4>1
      <4>3. o \in view'[q]
        BY <1>12, <2>2, <4>2
      <4>4. Comes(E, q, o)
        BY <2>2, <3>2, <3>3 DEF Comes
      <4>5. Near(c, q, o)'
        BY <1>13, <2>1, <4>4 DEF Agrees
      <4>6. ~Parts(F, q, o)
        BY <1>13, <2>1, <3>1, <4>5 DEF Agrees
      <4> QED
        BY <4>3, <4>5, <4>6 DEF Agrees
    <3>4. CASE h \in {<<"erase", f, s>>, <<"part", f, s>>}
      <4>1. h \notin {<<"insert", f, s>>, <<"meet", f, s>>}
        BY <3>4
      <4>2. view' = [view EXCEPT ![f] = @ \ {s}]
        BY <1>0, <4>1
      <4>3. o \notin view'[q]
        BY <1>12, <2>2, <4>2
      <4>4. Parts(E, q, o)
        BY <2>2, <3>2, <3>4 DEF Parts
      <4>5. ~Near(c, q, o)'
        BY <1>13, <2>1, <4>4 DEF Agrees
      <4>6. ~Comes(F, q, o)
        BY <1>13, <2>1, <3>1, <4>5 DEF Agrees
      <4> QED
        BY <4>3, <4>5, <4>6 DEF Agrees
    <3> QED
      BY <1>0, <3>3, <3>4
  <2>3. CASE ~ (q = f /\ o = s)
    <3>1. h[1] # "visit" /\ h \notin {<<"insert", q, o>>, <<"meet", q, o>>, <<"erase", q, o>>, <<"part", q, o>>}
      BY <1>0, <2>3
    <3>2. SameFor(E, F, q, o)
      BY <1>9, <1>11, <3>1 DEF SameFor, Comes, Parts, Called
    <3>3. o \in view'[q] <=> o \in view[q]
      BY <1>12, <2>3
    <3> QED
      BY <1>13, <2>1, <3>2, <3>3, PairStays
  <2> QED
    BY <2>2, <2>3
<1>15. Agreed(c, F, M2, O2)'
  BY <1>14 DEF Agreed, Ai!Players, Ai!Objects, Ai!Npcs
<1> QED
  BY <1>2, <1>3, <1>4, <1>8, <1>15, SettledGoes

(* login has looked at one more object.                                    *)
LEMMA SettledVisit ==
    ASSUME NEW c \in AiServers, NEW w, NEW Must, NEW Only, NEW M2, NEW O2,
           Fewer(M2, Must), Fewer(O2, Only), Placed(c),
           Settled(c, w, Must, Only), Todo(w) # <<>>,
           NEW p \in Ai(c)!Players, NEW o \in Ai(c)!Objects, Head(Todo(w)) = <<"visit", p, o>>,
           NEW more \in Seq(Triples(c)), task'[w].todo = more \o Tail(task[w].todo),
           task'[w].op = task[w].op,
           more = IF state[o] = "INGAME" /\ Ai(c)!CanSee(p, o) THEN Ai(c)!GreetProgram(p, o) ELSE <<>>,
           UNCHANGED <<pos, state, view>>
    PROVE  Settled(c, w, M2, O2)'
<1>0. PICK h : h = <<"visit", p, o>>
  OBVIOUS
<1>1. PICK E : E = Elems(Todo(w))
  OBVIOUS
<1>2. PICK R : R = Elems(Tail(Todo(w)))
  OBVIOUS
<1>3. PICK A : A = Elems(more)
  OBVIOUS
<1>4. PICK F : F = A \cup R
  OBVIOUS
<1>5. E = {h} \cup R /\ R \subseteq Later(c, task[w].op) /\ h \in Later(c, task[w].op)
  BY <1>0, <1>1, <1>2, SettledHand
<1>6. task[w].op = "login" /\ state[p] = "INGAME" /\ p # o
  <2>1. h[1] = "visit" /\ h[2] = p /\ h[3] = o
    BY <1>0
  <2> QED
    BY <1>5, <2>1 DEF Later
<1>7. p \in Ai(c)!Objects
  BY Sizes
<1>8. (state[o] = "INGAME" /\ Ai(c)!CanSee(p, o)) <=> Near(c, p, o)
  BY <1>6 DEF Near
<1>9. Near(c, o, p) <=> Near(c, p, o)
  BY <1>7, NearBoth
<1>10. /\ ~Near(c, p, o) => A = {}
       /\ Near(c, p, o) =>
            /\ <<"insert", p, o>> \in A
            /\ o \in Ai(c)!Players => <<"insert", o, p>> \in A
            /\ A \subseteq {<<"insert", p, o>>, <<"insert", o, p>>, <<"add", p, o>>,
                            <<"add", o, p>>, <<"wake", o, o>>, <<"unlock", o, o>>}
  <2>1. CASE ~Near(c, p, o)
    BY <1>3, <1>8, <2>1, ElemsNone
  <2>2. CASE Near(c, p, o)
    <3> DEFINE S == {<<"insert", p, o>>, <<"insert", o, p>>, <<"add", p, o>>,
                     <<"add", o, p>>, <<"wake", o, o>>, <<"unlock", o, o>>}
               a == <<"insert", p, o>>
               b == <<"add", p, o>>
               B == IF o \in Ai(c)!Npcs THEN << <<"wake", o, o>> >>
                    ELSE << <<"insert", o, p>>, <<"add", o, p>> >>
               u == <<"unlock", o, o>>
    <3>1. a \in S /\ b \in S /\ u \in S /\ <<"wake", o, o>> \in S
          /\ <<"insert", o, p>> \in S /\ <<"add", o, p>> \in S
      OBVIOUS
    <3>2. more = <<a, b>> \o B \o <<u>>
      BY <1>8, <2>2 DEF Ai!GreetProgram
    <3> HIDE DEF S, a, b, u
    <3>3. B \in Seq(S) /\ Elems(B) \subseteq S
          /\ (o \in Ai(c)!Players => <<"insert", o, p>> \in Elems(B))
      <4>1. CASE o \in Ai(c)!Npcs
        <5>1. B = << <<"wake", o, o>> >>
          BY <4>1
        <5>2. o \notin Ai(c)!Players
          BY <4>1, Sizes
        <5> QED
          BY <3>1, <5>1, <5>2, ElemsOne
      <4>2. CASE o \notin Ai(c)!Npcs
        <5>1. B = << <<"insert", o, p>>, <<"add", o, p>> >>
          BY <4>2
        <5> QED
          BY <3>1, <5>1, ElemsTwo
      <4> QED
        BY <4>1, <4>2
    <3> HIDE DEF B
    <3>4. <<a, b>> \in Seq(S) /\ Elems(<<a, b>>) = {a, b} /\ <<u>> \in Seq(S) /\ Elems(<<u>>) = {u}
      BY <3>1, ElemsOne, ElemsTwo
    <3> DEFINE X == <<a, b>>
               Y == <<u>>
    <3> HIDE DEF X, Y
    <3>5. X \o B \in Seq(S) /\ Elems(X \o B) = {a, b} \cup Elems(B)
      <4>1. X \in Seq(S) /\ Elems(X) = {a, b}
        BY <3>4 DEF X
      <4> QED
        BY <3>3, <4>1, ElemsJoin
    <3>6. Elems(X \o B \o Y) = Elems(X \o B) \cup {u}
      <4>1. Y \in Seq(S) /\ Elems(Y) = {u}
        BY <3>4 DEF Y
      <4>2. PICK Z : Z = X \o B
        OBVIOUS
      <4>3. Z \in Seq(S)
        BY <3>5, <4>2
      <4>4. Elems(Z \o Y) = Elems(Z) \cup Elems(Y)
        BY <4>1, <4>3, ElemsJoin
      <4> QED
        BY <4>1, <4>2, <4>4
    <3>7. A = {a, b} \cup Elems(B) \cup {u}
      BY <1>3, <3>2, <3>5, <3>6 DEF X, Y
    <3>8. A \subseteq S /\ a \in A /\ (o \in Ai(c)!Players => <<"insert", o, p>> \in A)
      BY <3>1, <3>3, <3>7
    <3> QED
      BY <2>2, <3>8 DEF S, a
  <2> QED
    BY <2>1, <2>2
<1>11. /\ \A i \in A : i[1] \in {"insert", "add", "wake", "unlock"}
       /\ \A i \in A : i \in Later(c, task[w].op)
  <2>1. {<<"insert", p, o>>, <<"insert", o, p>>, <<"add", p, o>>,
                            <<"add", o, p>>, <<"wake", o, o>>, <<"unlock", o, o>>}
          \subseteq Triples(c)
    BY <1>7 DEF Triples, AiOps
  <2>2. A \subseteq {<<"insert", p, o>>, <<"insert", o, p>>, <<"add", p, o>>,
                            <<"add", o, p>>, <<"wake", o, o>>, <<"unlock", o, o>>}
    BY <1>10
  <2>3. \A i \in A : i[1] \in {"insert", "add", "wake", "unlock"}
    BY <2>2
  <2> QED
    BY <1>6, <2>1, <2>2, <2>3 DEF Later
<1>12. F \subseteq Later(c, task[w].op)'
  <2>1. PICK op : op = task[w].op
    OBVIOUS
  <2>2. F \subseteq Later(c, op)
    BY <1>4, <1>5, <1>11, <2>1
  <2>3. F \subseteq Later(c, op)'
    BY <2>2, LaterStays
  <2> QED
    BY <2>1, <2>3
<1>13. ASSUME NEW q, NEW x
       PROVE  /\ <<"insert", q, x>>[1] = "insert" /\ <<"meet", q, x>>[1] = "meet"
              /\ <<"erase", q, x>>[1] = "erase" /\ <<"part", q, x>>[1] = "part"
              /\ <<"visit", q, x>>[1] = "visit" /\ <<"visit", x, q>>[1] = "visit"
  OBVIOUS
<1>14. \A i : i[1] \in {"meet", "erase", "part", "visit"} /\ i # h => (i \in E <=> i \in F)
  BY <1>4, <1>5, <1>11
<1>15. \A i : i[1] = "insert" /\ i \in E => i \in F
  <2>1. h[1] # "insert"
    BY <1>0
  <2> QED
    BY <1>4, <1>5, <2>1
<1>16. ASSUME NEW q \in Ai(c)!Players, NEW x \in Ai(c)!Objects
       PROVE  Agrees(c, F, M2, O2, q, x)'
  <2>1. Agrees(c, E, Must, Only, q, x)
    BY <1>1 DEF Settled, Agreed
  <2>2. Near(c, q, x)' <=> Near(c, q, x)
    <3>1. q \in Ai(c)!Objects
      BY Sizes
    <3> QED
      BY <3>1, NearStays
  <2>3. Parts(F, q, x) <=> Parts(E, q, x)
    <3>1. h[1] = "visit"
      BY <1>0
    <3> QED
      BY <1>13, <1>14, <3>1 DEF Parts
  <2>4. <<q, x>> \in O2 => <<q, x>> \in Only
    BY DEF Fewer
  <2>5. CASE (q = p /\ x = o) \/ (q = o /\ x = p)
    <3>1. Near(c, q, x) <=> Near(c, p, o)
      BY <1>9, <2>5
    <3>2. CASE Near(c, p, o)
      <4>1. Comes(F, q, x)
        BY <1>4, <1>10, <2>5, <3>2 DEF Comes
      <4> QED
        BY <2>1, <2>2, <2>3, <3>1, <3>2, <4>1 DEF Agrees
    <3>3. CASE ~Near(c, p, o)
      <4>1. F \subseteq E
        BY <1>4, <1>5, <1>10, <3>3
      <4>2. Comes(F, q, x) => Comes(E, q, x)
        BY <4>1 DEF Comes
      <4> QED
        BY <2>1, <2>2, <2>3, <2>4, <3>1, <3>3, <4>2 DEF Agrees
    <3> QED
      BY <3>2, <3>3
  <2>6. CASE ~ ((q = p /\ x = o) \/ (q = o /\ x = p))
    <3>1. h \notin {<<"visit", q, x>>, <<"visit", x, q>>} /\ h[1] = "visit"
      BY <1>0, <2>6
    <3>2. Called(E, q, x) <=> Called(F, q, x)
      BY <1>13, <1>14, <3>1 DEF Called
    <3>3. <<"insert", q, x>> \in F => <<"insert", q, x>> \in E
      <4>1. <<"insert", q, x>> \notin A
        <5>1. A \subseteq {<<"insert", p, o>>, <<"insert", o, p>>, <<"add", p, o>>,
                            <<"add", o, p>>, <<"wake", o, o>>, <<"unlock", o, o>>}
          BY <1>10
        <5> QED
          BY <2>6, <5>1
      <4> QED
        BY <1>4, <1>5, <4>1
    <3>4. Comes(E, q, x) <=> Comes(F, q, x)
      BY <1>13, <1>14, <1>15, <3>1, <3>3 DEF Comes
    <3>5. SameFor(E, F, q, x)
      BY <2>3, <3>2, <3>4 DEF SameFor
    <3> QED
      BY <2>1, <2>2, <3>5, PairStays
  <2> QED
    BY <2>5, <2>6
<1>17. Agreed(c, F, M2, O2)'
  BY <1>16 DEF Agreed, Ai!Players, Ai!Objects, Ai!Npcs
<1>18. \A i \in Elems(more) : i[1] # "done"
  BY <1>3, <1>11
<1> QED
  BY <1>2, <1>3, <1>4, <1>12, <1>17, <1>18, SettledGoes

(* A slot is freed by the disconnect of its client: who lists it, or whom  *)
(* it lists, is no longer said to.                                         *)
FreesWell(c, w, O2) ==
    Ai(c)!At(w, "free") /\ state[Ai(c)!First(w)] = "INGAME" =>
        \A q \in Ai(c)!Players, o \in Ai(c)!Objects :
            <<q, o>> \in O2 /\ o \in view[q] => q # Ai(c)!First(w) /\ o # Ai(c)!First(w)

LEMMA SettledFree ==
    ASSUME NEW c \in AiServers, NEW w, NEW Must, NEW Only, NEW M2, NEW O2,
           Fewer(M2, Must), Fewer(O2, Only), AiType(c),
           Settled(c, w, Must, Only), Todo(w) # <<>>,
           NEW p \in Ai(c)!Players, Head(Todo(w))[1] = "free",
           task[w].op \in {"quit", "abort"},
           state[p] = "INGAME" => \A q \in Ai(c)!Players, o \in Ai(c)!Objects :
                                     <<q, o>> \in O2 /\ o \in view[q] => q # p /\ o # p,
           NEW more \in Seq(Triples(c)), task'[w].todo = more \o Tail(task[w].todo),
           task'[w].op = task[w].op,
           \A i \in Elems(more) : i[1] = "tell",
           state' = [state EXCEPT ![p] = "FREE"],
           UNCHANGED <<pos, view>>
    PROVE  Settled(c, w, M2, O2)'
<1>0. PICK h : h = Head(Todo(w))
  OBVIOUS
<1>1. PICK E : E = Elems(Todo(w))
  OBVIOUS
<1>2. PICK R : R = Elems(Tail(Todo(w)))
  OBVIOUS
<1>3. PICK A : A = Elems(more)
  OBVIOUS
<1>4. PICK F : F = A \cup R
  OBVIOUS
<1>5. E = {h} \cup R /\ R \subseteq Later(c, task[w].op)
  BY <1>0, <1>1, <1>2, SettledHand
<1>6. state' \in [Ai(c)!Objects -> {"FREE", "CONNECTED", "INGAME"}] /\ p \in Ai(c)!Objects
      /\ \A o \in Ai(c)!Objects : o # p => state'[o] = state[o]
      /\ state'[p] = "FREE"
  BY Sizes DEF AiType
<1>7. A \subseteq Triples(c)
  BY <1>3 DEF Elems
<1>8. F \subseteq Later(c, task[w].op)'
  <2>1. PICK op : op = task[w].op
    OBVIOUS
  <2>2. ASSUME NEW i \in F PROVE i \in Later(c, op)'
    <3>1. i \in Triples(c)'
      <4>1. i \in Triples(c)
        BY <1>4, <1>5, <1>7 DEF Later
      <4> QED
        BY <4>1 DEF Triples, Ai!Objects, Ai!Players, Ai!Npcs
    <3>2. CASE i \in A
      <4>1. i[1] = "tell"
        BY <1>3, <3>2
      <4> QED
        BY <3>1, <4>1 DEF Later
    <3>3. CASE i \in R
      <4>1. i \in Later(c, op)
        BY <1>5, <2>1, <3>3
      <4> QED
        BY <2>1, <3>1, <4>1 DEF Later
    <3> QED
      BY <1>4, <3>2, <3>3
  <2>3. F \subseteq Later(c, op)'
    BY <2>2
  <2> QED
    BY <2>1, <2>3
<1>9. ASSUME NEW q, NEW o
       PROVE  /\ <<"insert", q, o>>[1] = "insert" /\ <<"meet", q, o>>[1] = "meet"
              /\ <<"erase", q, o>>[1] = "erase" /\ <<"part", q, o>>[1] = "part"
              /\ <<"visit", q, o>>[1] = "visit" /\ <<"visit", o, q>>[1] = "visit"
  OBVIOUS
<1>10. \A i : i[1] \in {"insert", "meet", "erase", "part", "visit"} => (i \in E <=> i \in F)
  BY <1>0, <1>3, <1>4, <1>5
<1>11. \A i \in E : i[1] \notin {"insert", "meet", "visit"}
  BY <1>1 DEF Settled, Later
<1>12. ASSUME NEW q \in Ai(c)!Players, NEW o \in Ai(c)!Objects
       PROVE  Agrees(c, F, M2, O2, q, o)'
  <2>1. Agrees(c, E, Must, Only, q, o) /\ q \in Ai(c)!Objects
    BY <1>1, Sizes DEF Settled, Agreed
  <2>2. SameFor(E, F, q, o)
    BY <1>9, <1>10 DEF SameFor, Comes, Parts, Called
  <2>3. CASE q # p /\ o # p
    <3>1. Near(c, q, o)' <=> Near(c, q, o)
      BY <1>6, <2>1, <2>3, NearStays
    <3> QED
      BY <2>1, <2>2, <3>1, PairStays
  <2>4. CASE q = p \/ o = p
    <3>1. ~Near(c, q, o)'
      BY <1>6, <2>4 DEF Near
    <3>2. ~Comes(F, q, o)
      BY <1>9, <1>10, <1>11 DEF Comes
    <3>3. ASSUME <<q, o>> \in O2, o \in view[q] PROVE Parts(F, q, o)
      <4>1. state[p] # "INGAME"
        BY <2>4, <3>3
      <4>2. ~Near(c, q, o)
        BY <2>4, <4>1 DEF Near
      <4>3. <<q, o>> \in Only
        BY <3>3 DEF Fewer
      <4> QED
        BY <2>1, <2>2, <3>3, <4>2, <4>3 DEF Agrees, SameFor
    <3> QED
      BY <3>1, <3>2, <3>3 DEF Agrees
  <2> QED
    BY <2>3, <2>4
<1>13. Agreed(c, F, M2, O2)'
  BY <1>12 DEF Agreed, Ai!Players, Ai!Objects, Ai!Npcs
<1> QED
  BY <1>2, <1>3, <1>4, <1>8, <1>13, SettledGoes

LEMMA GoesWith ==
    ASSUME NEW c \in AiServers, AiInv(c), NEW w \in c.workers, NEW more, Ai(c)!Go(w, more)
    PROVE  /\ task'[w].todo = more \o Tail(task[w].todo)
           /\ task'[w].op = task[w].op /\ task'[w].id = task[w].id
           /\ task'[w].old = task[w].old /\ task'[w].new = task[w].new
           /\ \A u \in c.workers : u # w => task'[u] = task[u]
<1>1. task \in [c.workers -> AiHandlers(c)] /\ task[w] \in AiHandlers(c)
  BY DEF AiInv, AiType
<1> QED
  BY <1>1 DEF Ai!Go, AiHandlers

LEMMA ShortIn ==
    ASSUME NEW c \in AiServers, NEW x \in Triples(c)
    PROVE  /\ <<x>> \in Seq(Triples(c)) /\ Elems(<<x>>) = {x}
           /\ <<>> \in Seq(Triples(c)) /\ Elems(<<>>) = {}
  BY ElemsOne, ElemsNone

(* A worker that has sorted or entered goes on.                            *)
LEMMA SettledWorks ==
    ASSUME NEW c \in AiServers, AiInv(c), Placed(c), NEW w \in c.workers,
           Ai(c)!Work(w), ~ Ai(c)!Finish(w),
           Ai(c)!SendFails(w) => state[Ai(c)!First(w)] = "FREE",
           NEW Must, NEW Only, NEW M2, NEW O2, Fewer(M2, Must), Fewer(O2, Only),
           FreesWell(c, w, O2), Settled(c, w, Must, Only)
    PROVE  Settled(c, w, M2, O2)'
<1> DEFINE h == Head(Todo(w))
           f == Ai(c)!First(w)
           s == Ai(c)!Second(w)
           op == task[w].op
           L == {"insert", "meet", "erase", "part", "visit"}
<1>1. Todo(w) = task[w].todo /\ AiType(c)
  BY DEF Todo, AiInv
<1>2. Todo(w) # <<>>
  BY <1>1, WorksOn
<1>3. h \in Later(c, op) /\ h \in Triples(c)
  BY <1>2, SettledHand DEF Later
<1>4. ASSUME NEW kind, Ai(c)!At(w, kind)
      PROVE  /\ h = <<kind, f, s>> /\ h[1] = kind
             /\ f \in Ai(c)!Objects /\ s \in Ai(c)!Objects
             /\ h \in AiInstr(c, task[w].id)
  <2>1. task[w].todo # <<>>
    BY <1>1, <1>2
  <2>2. /\ <<kind, f, s>> \in AiInstr(c, task[w].id)
        /\ Head(task[w].todo) = <<kind, f, s>>
        /\ f \in Ai(c)!Objects /\ s \in Ai(c)!Objects
    BY <1>4, <2>1, AiHand
  <2> HIDE DEF f, s
  <2> QED
    BY <1>1, <2>2
<1>5. ASSUME NEW kind, Ai(c)!At(w, kind)
      PROVE  kind \notin {"place", "ok", "enter", "step", "copy", "look", "sort"}
  BY <1>3, <1>4, <1>5 DEF Later
<1>6. /\ <<>> \in Seq(Triples(c)) /\ Elems(<<>>) = {}
      /\ \A x \in Triples(c) : <<x>> \in Seq(Triples(c)) /\ Elems(<<x>>) = {x}
  BY <1>3, ShortIn
<1>7. ASSUME NEW kind \in AiOps \ L, Ai(c)!At(w, kind), Ai(c)!Go(w, <<>>),
             UNCHANGED <<pos, state, view>>
      PROVE  Settled(c, w, M2, O2)'
  <2>1. h[1] \notin L
    BY <1>4, <1>7
  <2>2. task'[w].todo = <<>> \o Tail(task[w].todo) /\ task'[w].op = task[w].op
    BY <1>7, GoesWith
  <2> HIDE DEF h
  <2> QED
    BY <1>2, <1>6, <1>7, <2>1, <2>2, SettledPlain DEF h
<1>8. ASSUME NEW kind \in AiOps \ L, Ai(c)!At(w, kind),
             NEW more \in Seq(Triples(c)), Ai(c)!Go(w, more),
             \A i \in Elems(more) : i \in Later(c, op) /\ i[1] \notin L \cup {"done"},
             UNCHANGED <<pos, state, view>>
      PROVE  Settled(c, w, M2, O2)'
  <2>1. h[1] \notin L
    BY <1>4, <1>8
  <2>2. task'[w].todo = more \o Tail(task[w].todo) /\ task'[w].op = task[w].op
    BY <1>8, GoesWith
  <2> HIDE DEF h
  <2> QED
    BY <1>2, <1>8, <2>1, <2>2, SettledPlain DEF h
<1>9. ASSUME NEW x \in AiOps \X Ai(c)!Objects \X Ai(c)!Objects,
             x[1] \in {"move", "add", "remove", "unlock", "tell"}
             PROVE x \in Triples(c) /\ x \in Later(c, op)
  BY <1>9 DEF Later, Triples
<1>10. CASE Ai(c)!Unlock(w)
  BY <1>7, <1>10 DEF Ai!Unlock, AiOps
<1>11. CASE Ai(c)!Wake(w)
  BY <1>7, <1>11 DEF Ai!Wake, AiOps
<1>12. CASE Ai(c)!Deliver(w)
  <2>1. PICK kind \in Ai(c)!Sends : Ai(c)!At(w, kind)
    BY <1>12 DEF Ai!Deliver
  <2>2. kind \in AiOps \ L
    BY <1>5, <2>1 DEF AiOps, Ai!Sends
  <2> QED
    BY <1>7, <1>12, <2>1, <2>2 DEF Ai!Deliver
<1>13. CASE Ai(c)!SendFails(w)
  <2>1. PICK kind \in Ai(c)!Sends : Ai(c)!At(w, kind)
    BY <1>13 DEF Ai!SendFails
  <2>2. kind \in AiOps \ L
    BY <1>5, <2>1 DEF AiOps, Ai!Sends
  <2>3. Ai(c)!Go(w, << <<"free", f, f>> >>) /\ UNCHANGED <<pos, state, view>>
    BY <1>13 DEF Ai!SendFails, Ai!DisconnectProgram
  <2>4. state[f] = "FREE" /\ f \in Ai(c)!Objects
    BY <1>4, <1>13, <2>1
  <2>5. PICK x : x = <<"free", f, f>>
    OBVIOUS
  <2>6. x \in Triples(c) /\ x \in Later(c, op) /\ x[1] \notin L \cup {"done"}
    BY <2>4, <2>5 DEF Triples, AiOps, Later
  <2>7. <<x>> \in Seq(Triples(c)) /\ Elems(<<x>>) = {x}
    BY <1>6, <2>6
  <2> HIDE DEF op
  <2>8. \A i \in Elems(<<x>>) : i \in Later(c, op) /\ i[1] \notin L \cup {"done"}
    BY <2>6, <2>7
  <2> QED
    BY <1>8, <2>1, <2>2, <2>3, <2>5, <2>7, <2>8
<1>14. CASE Ai(c)!Tell(w)
  <2>1. Ai(c)!At(w, "tell") /\ UNCHANGED <<pos, state, view>>
    BY <1>14 DEF Ai!Tell
  <2>2. CASE state[f] # "INGAME"
    <3>1. Ai(c)!Go(w, <<>>)
      BY <1>14, <2>2 DEF Ai!Tell
    <3> QED
      BY <1>7, <2>1, <3>1 DEF AiOps
  <2>3. CASE state[f] = "INGAME"
    <3>1. PICK x : x = <<"remove", f, s>>
      OBVIOUS
    <3>2. PICK y : y = <<"unlock", f, f>>
      OBVIOUS
    <3>3. Ai(c)!Go(w, <<x, y>>)
      BY <1>14, <2>3, <3>1, <3>2 DEF Ai!Tell
    <3>4. /\ x \in AiOps \X Ai(c)!Objects \X Ai(c)!Objects /\ x[1] = "remove"
          /\ y \in AiOps \X Ai(c)!Objects \X Ai(c)!Objects /\ y[1] = "unlock"
      BY <1>4, <2>1, <3>1, <3>2 DEF AiOps
    <3>5. x \in Triples(c) /\ x \in Later(c, op) /\ y \in Triples(c) /\ y \in Later(c, op)
      BY <1>9, <3>4
    <3>6. <<x, y>> \in Seq(Triples(c)) /\ Elems(<<x, y>>) = {x, y}
      BY <3>5, ElemsTwo
    <3> HIDE DEF op
    <3>7. \A i \in Elems(<<x, y>>) : i \in Later(c, op) /\ i[1] \notin L \cup {"done"}
      BY <3>4, <3>5, <3>6
    <3>8. "tell" \in AiOps \ L
      BY SMTT(60) DEF AiOps
    <3> QED
      BY <1>8, <2>1, <3>3, <3>6, <3>7, <3>8
  <2> QED
    BY <2>2, <2>3
<1>15. ASSUME NEW kind \in {"insert", "meet", "erase", "part"}, Ai(c)!At(w, kind),
              NEW more \in Seq(Triples(c)), Ai(c)!Go(w, more),
              \A i \in Elems(more) : i \in Later(c, op) /\ i[1] \notin L \cup {"done"},
              view' = [view EXCEPT ![f] = IF kind \in {"insert", "meet"} THEN @ \cup {s}
                                          ELSE @ \ {s}],
              UNCHANGED <<pos, state>>
       PROVE  Settled(c, w, M2, O2)'
  <2>1. h = <<kind, f, s>> /\ s \in Ai(c)!Objects
    BY <1>4, <1>15
  <2>2. f \in Ai(c)!Players
    <3>1. h \in AiInstr(c, task[w].id) /\ h[1] = kind /\ h[2] = f
      BY <1>4, <1>15
    <3> QED
      BY <3>1 DEF AiInstr
  <2>3. task'[w].todo = more \o Tail(task[w].todo) /\ task'[w].op = task[w].op
    BY <1>15, GoesWith
  <2> HIDE DEF h, f, s
  <2>4. \/ /\ h \in {<<"insert", f, s>>, <<"meet", f, s>>}
           /\ view' = [view EXCEPT ![f] = @ \cup {s}]
        \/ /\ h \in {<<"erase", f, s>>, <<"part", f, s>>}
           /\ view' = [view EXCEPT ![f] = @ \ {s}]
    BY <1>15, <2>1
  <2> QED
    BY <1>1, <1>2, <1>15, <2>1, <2>2, <2>3, <2>4, SettledLists DEF h
<1>16. CASE Ai(c)!Insert(w)
  BY <1>6, <1>15, <1>16 DEF Ai!Insert
<1>17. CASE Ai(c)!Erase(w)
  BY <1>6, <1>15, <1>17 DEF Ai!Erase
<1>18. CASE Ai(c)!Meet(w)
  <2>1. Ai(c)!At(w, "meet")
    BY <1>18 DEF Ai!Meet
  <2>2. PICK x : x = IF s \in view[f] THEN <<"move", f, s>> ELSE <<"add", f, s>>
    OBVIOUS
  <2>3. x \in AiOps \X Ai(c)!Objects \X Ai(c)!Objects /\ x[1] \in {"move", "add"}
    BY <1>4, <2>1, <2>2 DEF AiOps
  <2>4. x \in Triples(c) /\ x \in Later(c, op)
    BY <1>9, <2>3
  <2>5. <<x>> \in Seq(Triples(c)) /\ Elems(<<x>>) = {x}
    BY <1>6, <2>4
  <2>6. Ai(c)!Go(w, <<x>>)
    BY <1>18, <2>2 DEF Ai!Meet
  <2> HIDE DEF op
  <2>7. \A i \in Elems(<<x>>) : i \in Later(c, op) /\ i[1] \notin L \cup {"done"}
    BY <2>3, <2>4, <2>5
  <2> QED
    BY <1>15, <1>18, <2>1, <2>5, <2>6, <2>7 DEF Ai!Meet
<1>19. CASE Ai(c)!Part(w)
  <2>1. Ai(c)!At(w, "part")
    BY <1>19 DEF Ai!Part
  <2>2. PICK x : x = <<"remove", f, s>>
    OBVIOUS
  <2>3. x \in AiOps \X Ai(c)!Objects \X Ai(c)!Objects /\ x[1] = "remove"
    BY <1>4, <2>1, <2>2 DEF AiOps
  <2>4. x \in Triples(c) /\ x \in Later(c, op)
    BY <1>9, <2>3
  <2>5. PICK more : more = IF s \in view[f] THEN <<x>> ELSE <<>>
    OBVIOUS
  <2>6. more \in Seq(Triples(c)) /\ Elems(more) \subseteq {x}
    BY <1>6, <2>4, <2>5
  <2>7. Ai(c)!Go(w, more)
    BY <1>19, <2>2, <2>5 DEF Ai!Part
  <2> HIDE DEF op
  <2>8. \A i \in Elems(more) : i \in Later(c, op) /\ i[1] \notin L \cup {"done"}
    BY <2>3, <2>4, <2>6
  <2> QED
    BY <1>15, <1>19, <2>1, <2>6, <2>7, <2>8 DEF Ai!Part
<1>20. CASE Ai(c)!Visit(w)
  <2>1. Ai(c)!At(w, "visit")
    BY <1>20 DEF Ai!Visit
  <2>2. h = <<"visit", f, s>> /\ s \in Ai(c)!Objects /\ f \in Ai(c)!Players
    <3>1. h \in AiInstr(c, task[w].id) /\ h[1] = "visit" /\ h[2] = f
      BY <1>4, <2>1
    <3> QED
      BY <1>4, <2>1, <3>1 DEF AiInstr
  <2>3. PICK more : more = IF state[s] = "INGAME" /\ Ai(c)!CanSee(f, s)
                           THEN Ai(c)!GreetProgram(f, s) ELSE <<>>
    OBVIOUS
  <2>4. Ai(c)!Go(w, more)
    BY <1>20, <2>3 DEF Ai!Visit
  <2>5. more \in Seq(Triples(c))
    <3>1. f \in Ai(c)!Objects
      BY <2>2, Sizes
    <3>2. Ai(c)!GreetProgram(f, s) \in Seq(Triples(c))
      <4>1. /\ <<"insert", f, s>> \in Triples(c) /\ <<"add", f, s>> \in Triples(c)
            /\ <<"insert", s, f>> \in Triples(c) /\ <<"add", s, f>> \in Triples(c)
            /\ <<"unlock", s, s>> \in Triples(c) /\ <<"wake", s, s>> \in Triples(c)
        BY <2>2, <3>1 DEF Triples, AiOps
      <4> HIDE DEF f, s
      <4> QED
        BY <4>1, GreetIn
    <3> QED
      BY <1>6, <2>3, <3>2
  <2>6. task'[w].todo = more \o Tail(task[w].todo) /\ task'[w].op = task[w].op
    BY <2>4, GoesWith
  <2>7. UNCHANGED <<pos, state, view>>
    BY <1>20 DEF Ai!Visit
  <2> HIDE DEF h, f, s
  <2> QED
    BY <1>2, <2>2, <2>3, <2>5, <2>6, <2>7, SettledVisit DEF h
<1>21. CASE Ai(c)!Free(w)
  <2>1. /\ Ai(c)!At(w, "free") /\ UNCHANGED <<pos, view>>
        /\ state' = [state EXCEPT ![f] = "FREE"]
    BY <1>21 DEF Ai!Free
  <2>2. f \in Ai(c)!Players /\ h[1] = "free" /\ h[2] = f
    <3>1. h \in AiInstr(c, task[w].id) /\ h[1] = "free" /\ h[2] = f
      BY <1>4, <2>1
    <3> QED
      BY <3>1 DEF AiInstr
  <2>3. f \in Ai(c)!Objects
    BY <2>2, Sizes
  <2>4. CASE state[f] = "FREE"
    <3>1. Ai(c)!Go(w, <<>>)
      BY <1>21, <2>4 DEF Ai!Free
    <3>2. state' = state
      BY <1>1, <2>1, <2>3, <2>4 DEF AiType
    <3> QED
      BY <1>7, <2>1, <3>1, <3>2 DEF AiOps
  <2>5. CASE state[f] # "FREE"
    <3>1. op \in {"quit", "abort"}
      BY <1>3, <2>2, <2>5 DEF Later
    <3>2. PICK more : more = [q \in Ai(c)!Players |-> <<"tell", q, f>>]
      OBVIOUS
    <3>3. Ai(c)!Go(w, more)
      BY <1>21, <2>5, <3>2 DEF Ai!Free
    <3>4. more \in Seq(Triples(c)) /\ \A i \in Elems(more) : i[1] = "tell"
      <4>1. c.npcStart - 1 \in Nat /\ Ai(c)!Players = 1..(c.npcStart - 1)
        BY Sizes
      <4>2. \A q \in Ai(c)!Players : <<"tell", q, f>> \in Triples(c)
        BY <2>3, Sizes DEF Triples, AiOps
      <4>3. more \in [1..(c.npcStart - 1) -> Triples(c)]
        BY <3>2, <4>1, <4>2
      <4>4. more \in Seq(Triples(c)) /\ Len(more) = c.npcStart - 1
        BY <4>1, <4>3, EachSeq
      <4>5. \A i \in Elems(more) : \E q \in Ai(c)!Players : i = <<"tell", q, f>>
        BY <3>2, <4>1, <4>4 DEF Elems
      <4> QED
        BY <4>4, <4>5
    <3>5. task'[w].todo = more \o Tail(task[w].todo) /\ task'[w].op = task[w].op
      BY <3>3, GoesWith
    <3>6. state[f] = "INGAME" => \A q \in Ai(c)!Players, o \in Ai(c)!Objects :
                                     <<q, o>> \in O2 /\ o \in view[q] => q # f /\ o # f
      BY <2>1 DEF FreesWell
    <3> HIDE DEF h, f, s
    <3> QED
      BY <1>1, <1>2, <2>1, <2>2, <3>1, <3>4, <3>5, <3>6, SettledFree DEF h
  <2> QED
    BY <2>4, <2>5
<1>22. /\ ~ Ai(c)!Place(w) /\ ~ Ai(c)!Enter(w) /\ ~ Ai(c)!Step(w) /\ ~ Ai(c)!Copy(w)
       /\ ~ Ai(c)!Look(w) /\ ~ Ai(c)!Sort(w)
  BY <1>5 DEF Ai!Place, Ai!Enter, Ai!Step, Ai!Copy, Ai!Look, Ai!Sort
<1> QED
  BY <1>10, <1>11, <1>12, <1>13, <1>14, <1>16, <1>17, <1>18, <1>19, <1>20, <1>21, <1>22
  DEF Ai!Work

(* Which step the next instruction is.                                     *)
LEMMA WorkBy ==
    ASSUME NEW c \in AiServers, AiInv(c), NEW w \in c.workers, Ai(c)!Work(w), Todo(w) # <<>>,
           NEW kind, Head(Todo(w))[1] = kind
    PROVE  /\ kind = "place" => Ai(c)!Place(w)
           /\ kind = "enter" => Ai(c)!Enter(w)
           /\ kind = "ok" => Ai(c)!Deliver(w) \/ Ai(c)!SendFails(w)
           /\ kind = "step" => Ai(c)!Step(w)
           /\ kind = "copy" => Ai(c)!Copy(w)
           /\ kind = "look" => Ai(c)!Look(w)
           /\ kind = "sort" => Ai(c)!Sort(w)
           /\ kind = "done" => Ai(c)!Finish(w)
           /\ Ai(c)!First(w) = Head(Todo(w))[2] /\ Ai(c)!Second(w) = Head(Todo(w))[3]
<1>1. /\ \A op : Ai(c)!At(w, op) <=> kind = op
      /\ Ai(c)!First(w) = Head(Todo(w))[2] /\ Ai(c)!Second(w) = Head(Todo(w))[3]
  BY AiNow DEF Todo
<1>2. /\ Ai(c)!Place(w) => kind = "place"
      /\ Ai(c)!Enter(w) => kind = "enter"
      /\ Ai(c)!Visit(w) => kind = "visit"
      /\ Ai(c)!Unlock(w) => kind = "unlock"
      /\ Ai(c)!Step(w) => kind = "step"
      /\ Ai(c)!Copy(w) => kind = "copy"
  BY <1>1 DEF Ai!Place, Ai!Enter, Ai!Visit, Ai!Unlock, Ai!Step, Ai!Copy
<1>3. /\ Ai(c)!Look(w) => kind = "look"
      /\ Ai(c)!Sort(w) => kind = "sort"
      /\ Ai(c)!Insert(w) => kind = "insert"
      /\ Ai(c)!Erase(w) => kind = "erase"
      /\ Ai(c)!Meet(w) => kind = "meet"
      /\ Ai(c)!Part(w) => kind = "part"
  BY <1>1 DEF Ai!Look, Ai!Sort, Ai!Insert, Ai!Erase, Ai!Meet, Ai!Part
<1>4. /\ Ai(c)!Wake(w) => kind = "wake"
      /\ Ai(c)!Free(w) => kind = "free"
      /\ Ai(c)!Tell(w) => kind = "tell"
      /\ Ai(c)!Finish(w) => kind = "done"
      /\ Ai(c)!Deliver(w) \/ Ai(c)!SendFails(w) => kind \in {"ok", "own", "add", "move", "remove"}
  BY <1>1 DEF Ai!Wake, Ai!Free, Ai!Tell, Ai!Finish, Ai!Deliver, Ai!SendFails, Ai!Sends
<1> QED
  BY <1>1, <1>2, <1>3, <1>4 DEF Ai!Work

(* Programs, and the way through them, are the same in every state.        *)
LEMMA ProgramStays ==
    ASSUME NEW c \in AiServers, NEW o, NEW k
    PROVE  /\ From(Ai(c)!LoginProgram(o), k)' = From(Ai(c)!LoginProgram(o), k)
           /\ From(Ai(c)!MoveProgram(o), k)' = From(Ai(c)!MoveProgram(o), k)
           /\ From(Ai(c)!NpcProgram(o), k)' = From(Ai(c)!NpcProgram(o), k)
           /\ Ai(c)!Others(o)' = Ai(c)!Others(o)
           /\ Ai(c)!Players' = Ai(c)!Players /\ Ai(c)!Objects' = Ai(c)!Objects
           /\ Ai(c)!Npcs' = Ai(c)!Npcs /\ Triples(c)' = Triples(c)
<1>1. Ai(c)!LoginProgram(o)' = Ai(c)!LoginProgram(o)
  BY DEF Ai!LoginProgram, Ai!Others
<1>2. Ai(c)!MoveProgram(o)' = Ai(c)!MoveProgram(o)
  BY DEF Ai!MoveProgram, Ai!Others
<1>3. Ai(c)!NpcProgram(o)' = Ai(c)!NpcProgram(o)
  BY DEF Ai!NpcProgram, Ai!Players
<1>4. /\ Ai(c)!Others(o)' = Ai(c)!Others(o)
      /\ Ai(c)!Players' = Ai(c)!Players /\ Ai(c)!Objects' = Ai(c)!Objects
      /\ Ai(c)!Npcs' = Ai(c)!Npcs /\ Triples(c)' = Triples(c)
  BY DEF Ai!Others, Ai!Players, Ai!Npcs, Ai!Objects, Triples
<1> QED
  BY <1>1, <1>2, <1>3, <1>4 DEF From

LEMMA AgreedStays ==
    ASSUME NEW c \in AiServers, NEW E, NEW Must, NEW Only, NEW M2, NEW O2,
           Fewer(M2, Must), Fewer(O2, Only), Agreed(c, E, Must, Only), UNCHANGED view,
           \A q \in Ai(c)!Players, o \in Ai(c)!Objects : Near(c, q, o)' <=> Near(c, q, o)
    PROVE  Agreed(c, E, M2, O2)'
<1> SUFFICES ASSUME NEW q \in Ai(c)!Players, NEW o \in Ai(c)!Objects
             PROVE  Agrees(c, E, M2, O2, q, o)'
  BY DEF Agreed, Ai!Players, Ai!Objects, Ai!Npcs
<1>1. Agrees(c, E, Must, Only, q, o) /\ SameFor(E, E, q, o)
  BY DEF Agreed, SameFor
<1> QED
  BY <1>1, PairStays

LEMMA AgreedButStays ==
    ASSUME NEW c \in AiServers, NEW a, NEW Must, NEW Only, NEW M2, NEW O2,
           \A q, o : q # a /\ o # a /\ <<q, o>> \in M2 => <<q, o>> \in Must,
           \A q, o : q # a /\ o # a /\ <<q, o>> \in O2 => <<q, o>> \in Only,
           Agreed(c, {}, Must, Only) \/ AgreedBut(c, a, Must, Only), UNCHANGED view,
           \A q \in Ai(c)!Players \ {a}, o \in Ai(c)!Objects \ {a} :
               Near(c, q, o)' <=> Near(c, q, o)
    PROVE  AgreedBut(c, a, M2, O2)'
<1> SUFFICES ASSUME NEW q \in Ai(c)!Players \ {a}, NEW o \in Ai(c)!Objects \ {a}
             PROVE  Agrees(c, {}, M2, O2, q, o)'
  BY DEF AgreedBut, Ai!Players, Ai!Objects, Ai!Npcs
<1>1. Agrees(c, {}, Must, Only, q, o)
  BY DEF Agreed, AgreedBut
<1>2. Near(c, q, o)' <=> Near(c, q, o)
  OBVIOUS
<1> QED
  BY <1>1, <1>2 DEF Agrees, Comes, Parts, Called

(* A login, until it is in the game: it is to visit everybody.             *)
LEMMA EnteringWorks ==
    ASSUME NEW c \in AiServers, AiInv(c), Placed(c), NEW w \in c.workers, Ai(c)!Work(w),
           Ai(c)!SendFails(w) => state[Ai(c)!First(w)] = "FREE",
           NEW Must, NEW Only, NEW M2, NEW O2, Fewer(M2, Must), Fewer(O2, Only),
           NEW p \in Ai(c)!Players, NEW k \in 1..3, Entering(c, w, p, k, Must, Only)
    PROVE  Fair(c, w, M2, O2)'
<1>1. PICK P : P = Ai(c)!LoginProgram(p)
  OBVIOUS
<1>2. PICK n : n = c.users
  OBVIOUS
<1>3. /\ P \in Seq(Triples(c)) /\ Len(P) = n + 4
      /\ P[1] = Me("place", p) /\ P[2] = Me("ok", p) /\ P[3] = Me("enter", p)
      /\ \A j \in 1..(n - 1) : P[3 + j] = <<"visit", p, Ai(c)!Others(p)[j]>>
      /\ P[n + 3] = Me("unlock", p) /\ P[n + 4] = Me("done", p)
  BY <1>1, <1>2, LoginByStep
<1>4. n \in Nat /\ n >= 1 /\ p \in Ai(c)!Objects
  BY <1>2, Sizes
<1>5. k \in 1..Len(P)
  BY <1>3, <1>4
<1>6. Todo(w) = From(P, k) /\ task[w].op = "login" /\ task[w].id = p /\ state[p] = "CONNECTED"
      /\ Agreed(c, {}, Must, Only)
  BY <1>1 DEF Entering
<1>7. Todo(w) # <<>> /\ Head(Todo(w)) = P[k] /\ Tail(Todo(w)) = From(P, k + 1)
  BY ZenonT(60), <1>3, <1>5, <1>6, FromSteps
<1>8. P[k][2] = p /\ (k = 1 => P[k][1] = "place") /\ (k = 2 => P[k][1] = "ok") /\ (k = 3 => P[k][1] = "enter")
  BY <1>3 DEF Me
<1>9. /\ k = 1 => Ai(c)!Place(w)
      /\ k = 2 => Ai(c)!Deliver(w) \/ Ai(c)!SendFails(w)
      /\ k = 3 => Ai(c)!Enter(w)
      /\ Ai(c)!First(w) = p
  BY <1>7, <1>8, WorkBy
<1>10. ASSUME Ai(c)!Go(w, <<>>)
       PROVE  /\ Todo(w)' = From(P, k + 1)
              /\ task'[w].op = "login" /\ task'[w].id = p
  BY <1>6, <1>7, <1>10, GoesBy DEF Todo
<1>11. ASSUME k \in 1..2, Ai(c)!Go(w, <<>>), UNCHANGED <<state, view>>,
              \A o \in Ai(c)!Objects : o # p => pos'[o] = pos[o]
       PROVE  Fair(c, w, M2, O2)'
  <2>1. \A q \in Ai(c)!Players, o \in Ai(c)!Objects : Near(c, q, o)' <=> Near(c, q, o)
    <3>1. ASSUME NEW q \in Ai(c)!Players, NEW o \in Ai(c)!Objects
          PROVE  Near(c, q, o)' <=> Near(c, q, o)
      <4>1. q \in Ai(c)!Objects
        BY Sizes
      <4> QED
        BY <1>6, <1>11, <4>1, NearStays
    <3> QED
      BY <3>1
  <2>2. Agreed(c, {}, M2, O2)'
    BY <1>6, <1>11, <2>1, AgreedStays
  <2>3. k + 1 \in 1..3
    BY <1>11
  <2>4. PICK j : j = k + 1
    OBVIOUS
  <2>5. Todo(w)' = From(Ai(c)!LoginProgram(p), j)'
    BY <1>1, <1>10, <1>11, <2>4, ProgramStays
  <2>6. Entering(c, w, p, j, M2, O2)'
    BY <1>6, <1>10, <1>11, <2>2, <2>5 DEF Entering
  <2>7. p \in Ai(c)!Players'
    BY ProgramStays
  <2> QED
    BY <2>3, <2>4, <2>6, <2>7 DEF Fair
<1>12. CASE k = 1
  <2>1. Ai(c)!Go(w, <<>>) /\ UNCHANGED <<state, view>> /\ \E d : pos' = [pos EXCEPT ![p] = d]
    BY <1>9, <1>12 DEF Ai!Place
  <2>2. \A o \in Ai(c)!Objects : o # p => pos'[o] = pos[o]
    BY <2>1 DEF Placed
  <2> QED
    BY <1>11, <1>12, <2>1, <2>2
<1>13. CASE k = 2
  <2>1. Ai(c)!Deliver(w)
    BY <1>6, <1>9, <1>13
  <2>2. Ai(c)!Go(w, <<>>) /\ UNCHANGED <<state, view, pos>>
    BY <2>1 DEF Ai!Deliver
  <2> QED
    BY <1>11, <1>13, <2>2
<1>14. CASE k = 3
  <2>1. Ai(c)!Go(w, <<>>) /\ UNCHANGED <<pos, view>> /\ state' = [state EXCEPT ![p] = "INGAME"]
    BY <1>9, <1>14 DEF Ai!Enter
  <2>2. /\ state'[p] = "INGAME" /\ \A o \in Ai(c)!Objects : o # p => state'[o] = state[o]
    BY <1>4, <2>1 DEF AiInv, AiType
  <2>3. Todo(w)' = From(P, 4)
    BY <1>10, <1>14, <2>1
  <2>4. 4 \in 1..Len(P)
    BY <1>3, <1>4
  <2>5. PICK T : T = From(P, 4)
    OBVIOUS
  <2>6. PICK F : F = Elems(T)
    OBVIOUS
  <2> DEFINE Tr == Triples(c)
  <2>a. P \in Seq(Tr)
    BY <1>3
  <2> HIDE DEF Tr
  <2>b. From(P, 4) \in Seq(Tr) /\ Elems(From(P, 4)) = {P[j] : j \in 4..Len(P)}
    BY <2>a, <2>4, FromSteps
  <2>7. T \in Seq(Triples(c)) /\ F = {P[j] : j \in 4..Len(P)}
    BY <2>b, <2>5, <2>6 DEF Tr
  <2>8. \A j \in 1..(n + 1) : T[j] = P[3 + j]
    BY <1>3, <1>4, <2>5 DEF From
  <2>9. Len(T) = n + 1
    BY <1>3, <1>4, <2>5 DEF From
  <2>10. ASSUME NEW j \in 4..(n + 4)
         PROVE  \/ \E i \in 1..(n - 1) : P[j] = <<"visit", p, Ai(c)!Others(p)[i]>>
                \/ j = n + 3 /\ P[j] = Me("unlock", p)
                \/ j = n + 4 /\ P[j] = Me("done", p)
    <3>1. CASE j <= n + 2
      <4>1. j - 3 \in 1..(n - 1) /\ 3 + (j - 3) = j
        BY <1>4, <3>1
      <4>2. P[3 + (j - 3)] = <<"visit", p, Ai(c)!Others(p)[j - 3]>>
        BY <1>3, <4>1
      <4> QED
        BY <4>1, <4>2
    <3>2. CASE j > n + 2
      <4>1. j = n + 3 \/ j = n + 4
        BY <1>4, <3>2
      <4> QED
        BY <1>3, <4>1
    <3> QED
      BY <1>4, <3>1, <3>2
  <2>11. Ends(T)
    <3> SUFFICES ASSUME NEW j \in 1..Len(T), T[j][1] = "done" PROVE j = Len(T)
      BY DEF Ends
    <3>1. 3 + j \in 4..(n + 4) /\ j \in 1..(n + 1) /\ T[j] = P[3 + j]
      BY <1>4, <2>8, <2>9
    <3>2. P[3 + j][1] = "done"
      BY <3>1
    <3>3. 3 + j = n + 4
      BY <2>10, <3>1, <3>2 DEF Me
    <3> QED
      BY <1>4, <2>9, <3>1, <3>3
  <2>12. \A i \in F : \/ \E o \in Ai(c)!Objects \ {p} : i = <<"visit", p, o>>
                      \/ i = Me("unlock", p) \/ i = Me("done", p)
    <3> SUFFICES ASSUME NEW i \in F
                 PROVE  \/ \E o \in Ai(c)!Objects \ {p} : i = <<"visit", p, o>>
                        \/ i = Me("unlock", p) \/ i = Me("done", p)
      OBVIOUS
    <3>1. PICK j \in 4..(n + 4) : i = P[j]
      BY <1>3, <2>7
    <3>2. \A x \in 1..(n - 1) : Ai(c)!Others(p)[x] \in Ai(c)!Objects \ {p}
      BY <1>2, <1>4, OthersOnce
    <3> QED
      BY <2>10, <3>1, <3>2
  <2>13. \A o \in Ai(c)!Objects \ {p} : <<"visit", p, o>> \in F
    <3> SUFFICES ASSUME NEW o \in Ai(c)!Objects \ {p} PROVE <<"visit", p, o>> \in F
      OBVIOUS
    <3>1. PICK x \in 1..(n - 1) : Ai(c)!Others(p)[x] = o
      BY <1>2, <1>4, OthersOnce
    <3>2. 3 + x \in 4..Len(P) /\ P[3 + x] = <<"visit", p, o>>
      BY <1>3, <1>4, <3>1
    <3> QED
      BY <2>7, <3>2
  <2>14. F \subseteq Later(c, "login")'
    <3> SUFFICES ASSUME NEW i \in F PROVE i \in Later(c, "login")'
      OBVIOUS
    <3>1. i \in Triples(c)'
      <4>1. i \in Triples(c)
        BY <2>6, <2>7 DEF Elems
      <4> QED
        BY <4>1, ProgramStays
    <3>2. CASE \E o \in Ai(c)!Objects \ {p} : i = <<"visit", p, o>>
      <4>1. i[1] = "visit" /\ i[2] = p /\ i[3] # p
        BY <3>2
      <4> QED
        BY <2>2, <3>1, <4>1 DEF Later
    <3>3. CASE i = Me("unlock", p) \/ i = Me("done", p)
      <4>1. i[1] \in {"unlock", "done"}
        BY <3>3 DEF Me
      <4> QED
        BY <3>1, <4>1 DEF Later
    <3> QED
      BY <2>12, <3>2, <3>3
  <2>15. \A i \in F : i[1] \in {"visit", "unlock", "done"}
    BY <2>12 DEF Me
  <2>16. ASSUME NEW q \in Ai(c)!Players, NEW o \in Ai(c)!Objects
         PROVE  Agrees(c, F, M2, O2, q, o)'
    <3>1. Agrees(c, {}, Must, Only, q, o) /\ q \in Ai(c)!Objects
      BY <1>6, Sizes DEF Agreed
    <3>2. ~Comes(F, q, o) /\ ~Parts(F, q, o)
      <4>1. /\ <<"insert", q, o>>[1] = "insert" /\ <<"meet", q, o>>[1] = "meet"
            /\ <<"erase", q, o>>[1] = "erase" /\ <<"part", q, o>>[1] = "part"
        OBVIOUS
      <4> QED
        BY <2>15, <4>1 DEF Comes, Parts
    <3>3. ~Comes({}, q, o) /\ ~Parts({}, q, o) /\ ~Called({}, q, o)
      BY DEF Comes, Parts, Called
    <3>4. Near(c, q, o) => Near(c, q, o)'
      <4>1. state[q] = "INGAME" /\ state[o] = "INGAME" => q # p /\ o # p
        BY <1>6
      <4>2. Ai(c)!CanSee(q, o)' <=> Ai(c)!CanSee(q, o)
        BY <2>1 DEF Ai!CanSee, Ai!Distance
      <4> QED
        BY <2>2, <3>1, <4>1, <4>2 DEF Near
    <3>5. q # p /\ o # p => (Near(c, q, o)' <=> Near(c, q, o))
      BY <2>1, <2>2, <3>1, NearStays
    <3>6. (q = p \/ o = p) /\ q # o => Called(F, q, o)
      BY <2>13, <3>1 DEF Called
    <3>7. Near(c, q, o)' => q # o
      BY DEF Near
    <3>8. (<<q, o>> \in M2 => <<q, o>> \in Must) /\ (<<q, o>> \in O2 => <<q, o>> \in Only)
      BY DEF Fewer
    <3>9. <<q, o>> \in M2 /\ Near(c, q, o)' /\ o \notin view[q] => Called(F, q, o)
      BY <3>1, <3>3, <3>5, <3>6, <3>7, <3>8 DEF Agrees
    <3>10. ~ (<<q, o>> \in O2 /\ ~Near(c, q, o)' /\ o \in view[q])
      BY <3>1, <3>3, <3>4, <3>8 DEF Agrees
    <3> QED
      BY <2>1, <3>2, <3>9, <3>10 DEF Agrees
  <2>17. Agreed(c, F, M2, O2)'
    BY <2>16 DEF Agreed, Ai!Players, Ai!Objects, Ai!Npcs
  <2>18. Todo(w)' = T /\ Elems(Todo(w))' = F /\ (Ends(Todo(w))' <=> Ends(T))
    BY <2>3, <2>5, <2>6 DEF Elems, Ends
  <2>19. Todo(w)' \in Seq(Triples(c)') /\ Ends(Todo(w))'
    <3>1. T \in Seq(Triples(c)')
      BY <2>7, ProgramStays
    <3> QED
      BY <2>11, <2>18, <3>1
  <2>20. task'[w].op = "login"
    BY <1>10, <2>1
  <2>21. Agreed(c, Elems(Todo(w)), M2, O2)'
    BY <2>17, <2>18
  <2>22. Elems(Todo(w))' \subseteq (Later(c, task[w].op))'
    BY <2>14, <2>18, <2>20
  <2> QED
    BY <2>19, <2>21, <2>22 DEF Settled, Fair
<1> QED
  BY <1>12, <1>13, <1>14

(* A player has taken its step. Only its own pairs may come in: those in   *)
(* which it lists, and those with it that were there.                      *)
StepsWell(p, Must, Only, M2, O2) ==
    /\ \A q, o : q # p /\ o # p /\ <<q, o>> \in M2 => <<q, o>> \in Must
    /\ \A q, o : q # p /\ <<q, o>> \in O2 => <<q, o>> \in Only
    /\ \A q : <<q, p>> \in Only => <<p, q>> \in Must

LEMMA SteppingWorks ==
    ASSUME NEW c \in AiServers, AiInv(c), Placed(c), NEW w \in c.workers, Ai(c)!Work(w),
           NEW Must, NEW Only, NEW M2, NEW O2,
           NEW p \in Ai(c)!Players, StepsWell(p, Must, Only, M2, O2),
           Stepping(c, w, p, Must, Only)
    PROVE  Fair(c, w, M2, O2)'
<1>1. PICK P : P = Ai(c)!MoveProgram(p)
  OBVIOUS
<1>2. P \in Seq(Triples(c)) /\ Len(P) = c.users + 2 /\ P[1] = Me("step", p)
  BY <1>1, MoveByStep
<1>3. c.users \in Nat /\ c.users >= 1 /\ p \in Ai(c)!Objects /\ 1 \in 1..Len(P)
  BY <1>2, Sizes
<1>4. Todo(w) = From(P, 1) /\ task[w].op = "move" /\ task[w].id = p /\ state[p] = "INGAME"
      /\ Agreed(c, {}, Must, Only) /\ task[w].new = {}
  BY <1>1 DEF Stepping
<1>5. Todo(w) # <<>> /\ Head(Todo(w)) = P[1] /\ Tail(Todo(w)) = From(P, 2)
  BY <1>2, <1>3, <1>4, FromSteps
<1>6. Ai(c)!Step(w) /\ Ai(c)!First(w) = p
  <2>1. P[1][1] = "step" /\ P[1][2] = p
    BY <1>2 DEF Me
  <2> QED
    BY <1>5, <2>1, WorkBy
<1>7. /\ UNCHANGED <<state, view>> /\ \E d : pos' = [pos EXCEPT ![p] = d]
      /\ task' = [task EXCEPT ![w].todo = Tail(@), ![w].old = @ \cup task[w].new,
                              ![w].new = {}]
  BY <1>6 DEF Ai!Step
<1>8. \A o \in Ai(c)!Objects : o # p => pos'[o] = pos[o]
  BY <1>7 DEF Placed
<1>9. /\ Todo(w)' = From(P, 2) /\ task'[w].op = "move" /\ task'[w].id = p
      /\ task'[w].new = {}
  <2>1. task \in [c.workers -> AiHandlers(c)] /\ task[w] \in AiHandlers(c)
    BY DEF AiInv, AiType
  <2>2. /\ task'[w].todo = Tail(task[w].todo) /\ task'[w].op = task[w].op
        /\ task'[w].id = task[w].id /\ task'[w].new = {}
    BY <1>7, <2>1 DEF AiHandlers
  <2> QED
    BY <1>4, <1>5, <2>2 DEF Todo
<1>10. AgreedBut(c, p, M2, O2)'
  <2>1. \A q \in Ai(c)!Players \ {p}, o \in Ai(c)!Objects \ {p} :
            Near(c, q, o)' <=> Near(c, q, o)
    <3>1. ASSUME NEW q \in Ai(c)!Players \ {p}, NEW o \in Ai(c)!Objects \ {p}
          PROVE  Near(c, q, o)' <=> Near(c, q, o)
      <4>1. q \in Ai(c)!Objects
        BY Sizes
      <4> QED
        BY <1>7, <1>8, <4>1, NearStays
    <3> QED
      BY <3>1
  <2>2. /\ \A q, o : q # p /\ o # p /\ <<q, o>> \in M2 => <<q, o>> \in Must
        /\ \A q, o : q # p /\ o # p /\ <<q, o>> \in O2 => <<q, o>> \in Only
    BY DEF StepsWell
  <2> QED
    BY <1>4, <1>7, <2>1, <2>2, AgreedButStays
<1>11. ASSUME NEW q \in Ai(c)!Players \ {p}, <<q, p>> \in O2, p \in view[q]
       PROVE  q \in view[p]
  <2>1. <<q, p>> \in Only /\ <<p, q>> \in Must /\ q \in Ai(c)!Objects
    BY <1>11, Sizes DEF StepsWell
  <2>2. Agrees(c, {}, Must, Only, q, p) /\ Agrees(c, {}, Must, Only, p, q)
    BY <1>3, <1>4, <2>1 DEF Agreed
  <2>3. \A x, y : ~Parts({}, x, y) /\ ~Comes({}, x, y) /\ ~Called({}, x, y)
    BY DEF Parts, Comes, Called
  <2>4. Near(c, q, p)
    BY <1>11, <2>1, <2>2, <2>3 DEF Agrees
  <2>5. Near(c, p, q)
    BY <1>3, <2>1, <2>4, NearBoth
  <2> QED
    BY <2>1, <2>2, <2>3, <2>5 DEF Agrees
<1>12. Looking(c, w, p, 2, M2, O2)'
  <2>0. PICK m : m = 2
    OBVIOUS
  <2>1. Todo(w)' = From(Ai(c)!MoveProgram(p), m)'
    BY <1>1, <1>9, <2>0, ProgramStays
  <2>2. \A q \in Ai(c)!Players' \ {p} : <<q, p>> \in O2 /\ p \in view'[q] => q \in view'[p]
    BY <1>7, <1>11, ProgramStays
  <2>3. \A o \in Ai(c)!Objects' :
           o \in task'[w].new
             <=> Near(c, p, o)' /\ \E j \in 1..(m - 3) : Ai(c)!Others(p)'[j] = o
    <3>1. \A j \in Int : j \notin 1..(m - 3)
      BY <2>0
    <3> QED
      BY <1>9, <3>1
  <2>4. m > 2 => task'[w].old = view'[p]
    BY <2>0
  <2>5. Looking(c, w, p, m, M2, O2)'
    BY <1>4, <1>7, <1>9, <1>10, <2>1, <2>2, <2>3, <2>4 DEF Looking
  <2> QED
    BY <2>0, <2>5
<1>13. 2 \in 2..(c.users + 2) /\ p \in Ai(c)!Players'
  BY <1>3, ProgramStays
<1> QED
  BY <1>12, <1>13 DEF Fair

(* It reads its list, and looks at one object after the other.             *)
LEMMA LookingWorks ==
    ASSUME NEW c \in AiServers, AiInv(c), Placed(c), NEW w \in c.workers, Ai(c)!Work(w),
           NEW Must, NEW Only, NEW M2, NEW O2, Fewer(M2, Must), Fewer(O2, Only),
           NEW p \in Ai(c)!Players, NEW k \in 2..(c.users + 1),
           Looking(c, w, p, k, Must, Only)
    PROVE  Fair(c, w, M2, O2)'
<1>1. PICK P : P = Ai(c)!MoveProgram(p)
  OBVIOUS
<1>2. /\ P \in Seq(Triples(c)) /\ Len(P) = c.users + 2 /\ P[2] = Me("copy", p)
      /\ \A j \in 1..(c.users - 1) : P[2 + j] = <<"look", p, Ai(c)!Others(p)[j]>>
  BY <1>1, MoveByStep
<1>3. c.users \in Nat /\ c.users >= 1 /\ p \in Ai(c)!Objects /\ k \in 1..Len(P)
  BY SMTT(60), <1>2, Sizes
<1>4. /\ Todo(w) = From(P, k) /\ task[w].op = "move" /\ task[w].id = p /\ state[p] = "INGAME"
      /\ AgreedBut(c, p, Must, Only)
      /\ \A q \in Ai(c)!Players \ {p} : <<q, p>> \in Only /\ p \in view[q] => q \in view[p]
      /\ k > 2 => task[w].old = view[p]
      /\ \A o \in Ai(c)!Objects :
            o \in task[w].new
              <=> Near(c, p, o) /\ \E j \in 1..(k - 3) : Ai(c)!Others(p)[j] = o
  BY <1>1 DEF Looking
<1>5. Todo(w) # <<>> /\ Head(Todo(w)) = P[k] /\ Tail(Todo(w)) = From(P, k + 1)
  BY SMTT(60), <1>2, <1>3, <1>4, FromSteps
<1>6. task \in [c.workers -> AiHandlers(c)] /\ task[w] \in AiHandlers(c)
  BY DEF AiInv, AiType
<1>7. ASSUME UNCHANGED <<pos, state, view>>, task'[w].todo = Tail(task[w].todo),
             task'[w].op = task[w].op, task'[w].id = task[w].id, task'[w].old = view[p],
             \A o \in Ai(c)!Objects :
               o \in task'[w].new
                 <=> Near(c, p, o) /\ \E j \in 1..(k - 2) : Ai(c)!Others(p)[j] = o
      PROVE  Fair(c, w, M2, O2)'
  <2>1. PICK m : m = k + 1
    OBVIOUS
  <2>2. Todo(w)' = From(Ai(c)!MoveProgram(p), m)'
    <3>1. Todo(w)' = From(P, k + 1)
      BY <1>5, <1>7 DEF Todo
    <3> QED
      BY <1>1, <2>1, <3>1, ProgramStays
  <2>3. \A q, o : Near(c, q, o)' <=> Near(c, q, o)
    BY <1>7, NearStays
  <2>4. AgreedBut(c, p, M2, O2)'
    BY <1>4, <1>7, <2>3, AgreedButStays DEF Fewer
  <2>5. \A q \in Ai(c)!Players' \ {p} : <<q, p>> \in O2 /\ p \in view'[q] => q \in view'[p]
    BY <1>4, <1>7, ProgramStays DEF Fewer
  <2>6. \A o \in Ai(c)!Objects' :
           o \in task'[w].new
             <=> Near(c, p, o)' /\ \E j \in 1..(m - 3) : Ai(c)!Others(p)'[j] = o
    <3>1. m - 3 = k - 2
      BY <2>1
    <3> QED
      BY <1>7, <2>3, <3>1, ProgramStays
  <2>7. Looking(c, w, p, m, M2, O2)'
    BY <1>4, <1>7, <2>2, <2>4, <2>5, <2>6 DEF Looking
  <2>8. m \in 2..(c.users + 2) /\ p \in Ai(c)!Players'
    BY <1>3, <2>1, ProgramStays
  <2> QED
    BY <2>7, <2>8 DEF Fair
<1>8. CASE k = 2
  <2>1. P[k][1] = "copy" /\ P[k][2] = p
    BY <1>2, <1>8 DEF Me
  <2>2. Ai(c)!Copy(w) /\ Ai(c)!First(w) = p
    BY <1>5, <2>1, WorkBy
  <2>3. /\ UNCHANGED <<pos, state, view>>
        /\ task' = [task EXCEPT ![w].todo = Tail(@), ![w].old = view[p]]
    BY <2>2 DEF Ai!Copy
  <2>4. /\ task'[w].todo = Tail(task[w].todo) /\ task'[w].op = task[w].op
        /\ task'[w].id = task[w].id /\ task'[w].new = task[w].new /\ task'[w].old = view[p]
    BY <1>6, <2>3 DEF AiHandlers
  <2>5. \A o : (~ \E j \in 1..(k - 3) : Ai(c)!Others(p)[j] = o)
               /\ (~ \E j \in 1..(k - 2) : Ai(c)!Others(p)[j] = o)
    BY <1>8
  <2> QED
    BY <1>4, <1>7, <2>3, <2>4, <2>5
<1>9. CASE k # 2
  <2>1. PICK j : j = k - 2
    OBVIOUS
  <2>2. j \in 1..(c.users - 1) /\ 2 + j = k /\ k - 3 = j - 1
    BY <1>3, <1>9, <2>1
  <2>3. PICK x : x = Ai(c)!Others(p)[j]
    OBVIOUS
  <2>4. P[k] = <<"look", p, x>> /\ x \in Ai(c)!Objects \ {p}
    BY <1>2, <1>3, <2>2, <2>3, OthersOnce
  <2>5. P[k][1] = "look" /\ P[k][2] = p /\ P[k][3] = x
    BY <2>4
  <2>6. Ai(c)!Look(w) /\ Ai(c)!First(w) = p /\ Ai(c)!Second(w) = x
    BY <1>5, <2>5, WorkBy
  <2>7. /\ UNCHANGED <<pos, state, view>>
        /\ task' = [task EXCEPT ![w].todo = Tail(@),
                       ![w].new = IF x \in Ai(c)!Sight(p) THEN @ \cup {x} ELSE @]
    BY <2>6 DEF Ai!Look
  <2>8. /\ task'[w].todo = Tail(task[w].todo) /\ task'[w].op = task[w].op
        /\ task'[w].id = task[w].id /\ task'[w].old = task[w].old
        /\ task'[w].new = IF x \in Ai(c)!Sight(p) THEN task[w].new \cup {x} ELSE task[w].new
    BY <1>6, <2>7 DEF AiHandlers
  <2>9. x \in Ai(c)!Sight(p) <=> Near(c, p, x)
    BY <1>3, <1>4, <2>4, NearSight
  <2>10. ASSUME NEW o \in Ai(c)!Objects
         PROVE  o \in task'[w].new
                  <=> Near(c, p, o) /\ \E i \in 1..(k - 2) : Ai(c)!Others(p)[i] = o
    <3>1. (\E i \in 1..(k - 2) : Ai(c)!Others(p)[i] = o)
            <=> (o = x \/ \E i \in 1..(k - 3) : Ai(c)!Others(p)[i] = o)
      <4>1. \A i \in 1..(k - 2) : i = j \/ i \in 1..(k - 3)
        BY <2>2
      <4>2. (\A i \in 1..(k - 3) : i \in 1..(k - 2)) /\ j \in 1..(k - 2)
        BY <2>2
      <4> QED
        BY <2>3, <4>1, <4>2
    <3> QED
      BY <1>4, <2>8, <2>9, <3>1
  <2>11. task'[w].old = view[p]
    BY <1>4, <1>9, <2>8
  <2> QED
    BY <1>7, <2>7, <2>8, <2>10, <2>11
<1> QED
  BY <1>8, <1>9

(* An NPC looks at the players, steps, and looks again.                    *)
LEMMA NpcLooks ==
    ASSUME NEW c \in AiServers, AiInv(c), Placed(c), NEW w \in c.workers,
           Ai(c)!Look(w), NEW n \in Ai(c)!Npcs, state[n] = "INGAME",
           Ai(c)!First(w) = n, NEW k \in Ai(c)!Players, Ai(c)!Second(w) = k,
           \A p \in Ai(c)!Players : p \in task[w].new <=> Near(c, p, n) /\ p < k
    PROVE  /\ UNCHANGED <<pos, state, view>>
           /\ task'[w].todo = Tail(task[w].todo) /\ task'[w].op = task[w].op
           /\ task'[w].id = task[w].id /\ task'[w].old = task[w].old
           /\ \A p \in Ai(c)!Players : p \in task'[w].new <=> Near(c, p, n)' /\ p < k + 1
<1>1. task \in [c.workers -> AiHandlers(c)] /\ task[w] \in AiHandlers(c)
  BY DEF AiInv, AiType
<1>2. /\ UNCHANGED <<pos, state, view>>
      /\ task' = [task EXCEPT ![w].todo = Tail(@),
                     ![w].new = IF k \in Ai(c)!Sight(n) THEN @ \cup {k} ELSE @]
  BY DEF Ai!Look
<1>3. /\ task'[w].todo = Tail(task[w].todo) /\ task'[w].op = task[w].op
      /\ task'[w].id = task[w].id /\ task'[w].old = task[w].old
      /\ task'[w].new = IF k \in Ai(c)!Sight(n) THEN task[w].new \cup {k} ELSE task[w].new
  BY <1>1, <1>2 DEF AiHandlers
<1>4. n \in Ai(c)!Objects /\ k \in Ai(c)!Objects /\ Ai(c)!Players \subseteq Nat
  BY Sizes
<1>5. k \in Ai(c)!Sight(n) <=> Near(c, k, n)
  BY <1>4, NearSight, NearBoth
<1>6. ASSUME NEW p \in Ai(c)!Players
      PROVE  p \in task'[w].new <=> Near(c, p, n)' /\ p < k + 1
  <2>1. Near(c, p, n)' <=> Near(c, p, n)
    BY <1>2, NearStays
  <2>2. p < k + 1 <=> (p < k \/ p = k)
    BY <1>4
  <2>3. CASE p = k
    <3>1. ~ (p < k)
      BY <1>4, <2>3
    <3> QED
      BY <1>3, <1>5, <2>1, <2>2, <2>3, <3>1
  <2>4. CASE p # k
    <3>1. p \in task'[w].new <=> p \in task[w].new
      BY <1>3, <2>4
    <3> QED
      BY <2>1, <2>2, <2>4, <3>1
  <2> QED
    BY <2>3, <2>4
<1> QED
  BY <1>2, <1>3, <1>6

LEMMA WaitingWorks ==
    ASSUME NEW c \in AiServers, AiInv(c), Placed(c), NEW w \in c.workers, Ai(c)!Work(w),
           NEW Must, NEW Only, NEW M2, NEW O2, Fewer(M2, Must), Fewer(O2, Only),
           NEW n \in Ai(c)!Npcs, NEW k \in 1..c.npcStart,
           Waiting(c, w, n, k, Must, Only)
    PROVE  Fair(c, w, M2, O2)'
<1>1. PICK P : P = Ai(c)!NpcProgram(n)
  OBVIOUS
<1>2. PICK m : m = c.npcStart
  OBVIOUS
<1>3. /\ P \in Seq(Triples(c)) /\ Len(P) = m + m /\ P[m] = Me("step", n)
      /\ \A j \in 1..(m - 1) : P[j] = <<"look", n, j>>
  BY <1>1, <1>2, NpcByStep
<1>4. /\ m \in Nat /\ m >= 1 /\ Ai(c)!Players = 1..(m - 1) /\ n \in Ai(c)!Objects
      /\ k \in 1..Len(P) /\ n \notin Ai(c)!Players
  <2>1. /\ m \in Nat /\ m >= 1 /\ Ai(c)!Players = 1..(m - 1) /\ n \in Ai(c)!Objects
        /\ n \notin Ai(c)!Players
    BY <1>2, Sizes
  <2> QED
    BY <1>2, <1>3, <2>1
<1>5. /\ Todo(w) = From(P, k) /\ task[w].op = "npc" /\ task[w].id = n /\ state[n] = "INGAME"
      /\ Agreed(c, {}, Must, Only) /\ task[w].old = {}
      /\ \A p \in Ai(c)!Players : p \in task[w].new <=> Near(c, p, n) /\ p < k
  BY <1>1 DEF Waiting
<1>6. Todo(w) # <<>> /\ Head(Todo(w)) = P[k] /\ Tail(Todo(w)) = From(P, k + 1)
  BY SMTT(60), <1>3, <1>4, <1>5, FromSteps
<1>7. CASE k < m
  <2>1. k \in Ai(c)!Players /\ k \in 1..(m - 1)
    BY <1>2, <1>4, <1>7
  <2>2. P[k] = <<"look", n, k>>
    BY <1>3, <2>1
  <2>3. P[k][1] = "look" /\ P[k][2] = n /\ P[k][3] = k
    BY <2>2
  <2>4. Ai(c)!Look(w) /\ Ai(c)!First(w) = n /\ Ai(c)!Second(w) = k
    BY <1>6, <2>3, WorkBy
  <2>5. /\ UNCHANGED <<pos, state, view>>
        /\ task'[w].todo = Tail(task[w].todo) /\ task'[w].op = task[w].op
        /\ task'[w].id = task[w].id /\ task'[w].old = task[w].old
        /\ \A p \in Ai(c)!Players : p \in task'[w].new <=> Near(c, p, n)' /\ p < k + 1
    BY <1>5, <2>1, <2>4, NpcLooks
  <2>6. PICK j : j = k + 1
    OBVIOUS
  <2>7. Todo(w)' = From(Ai(c)!NpcProgram(n), j)'
    <3>1. Todo(w)' = From(P, k + 1)
      BY <1>6, <2>5 DEF Todo
    <3> QED
      BY <1>1, <2>6, <3>1, ProgramStays
  <2>8. Agreed(c, {}, M2, O2)'
    <3>1. \A q, o : Near(c, q, o)' <=> Near(c, q, o)
      BY <2>5, NearStays
    <3> QED
      BY <1>5, <2>5, <3>1, AgreedStays
  <2>9. \A p \in Ai(c)!Players' : p \in task'[w].new <=> Near(c, p, n)' /\ p < j
    BY <2>5, <2>6, ProgramStays
  <2>10. Waiting(c, w, n, j, M2, O2)'
    BY <1>5, <2>5, <2>7, <2>8, <2>9 DEF Waiting
  <2>11. j \in 1..c.npcStart /\ n \in Ai(c)!Npcs'
    BY <1>2, <1>4, <1>7, <2>6, ProgramStays
  <2> QED
    BY <2>10, <2>11 DEF Fair
<1>8. CASE ~ (k < m)
  <2>1. k = m
    BY <1>2, <1>4, <1>8
  <2>2. P[k][1] = "step" /\ P[k][2] = n
    BY <1>3, <2>1 DEF Me
  <2>3. Ai(c)!Step(w) /\ Ai(c)!First(w) = n
    BY <1>6, <2>2, WorkBy
  <2>4. /\ UNCHANGED <<state, view>> /\ \E d : pos' = [pos EXCEPT ![n] = d]
        /\ task' = [task EXCEPT ![w].todo = Tail(@), ![w].old = @ \cup task[w].new,
                                ![w].new = {}]
    BY <2>3 DEF Ai!Step
  <2>5. \A o \in Ai(c)!Objects : o # n => pos'[o] = pos[o]
    BY <2>4 DEF Placed
  <2>6. /\ Todo(w)' = From(P, m + 1) /\ task'[w].op = "npc" /\ task'[w].id = n
        /\ task'[w].new = {} /\ task'[w].old = task[w].new
    <3>1. task \in [c.workers -> AiHandlers(c)] /\ task[w] \in AiHandlers(c)
      BY DEF AiInv, AiType
    <3>2. /\ task'[w].todo = Tail(task[w].todo) /\ task'[w].op = task[w].op
          /\ task'[w].id = task[w].id /\ task'[w].new = {}
          /\ task'[w].old = task[w].old \cup task[w].new
      BY <2>4, <3>1 DEF AiHandlers
    <3> QED
      BY <1>5, <1>6, <2>1, <3>2 DEF Todo
  <2>7. AgreedBut(c, n, M2, O2)'
    <3>1. \A q \in Ai(c)!Players \ {n}, o \in Ai(c)!Objects \ {n} :
              Near(c, q, o)' <=> Near(c, q, o)
      <4>1. ASSUME NEW q \in Ai(c)!Players \ {n}, NEW o \in Ai(c)!Objects \ {n}
            PROVE  Near(c, q, o)' <=> Near(c, q, o)
        <5>1. q \in Ai(c)!Objects
          BY Sizes
        <5> QED
          BY <2>4, <2>5, <5>1, NearStays
      <4> QED
        BY <4>1
    <3> QED
      BY <1>5, <2>4, <3>1, AgreedButStays DEF Fewer
  <2>8. PICK j : j = 1
    OBVIOUS
  <2>9. \A p \in Ai(c)!Players :
           /\ <<p, n>> \in O2 /\ n \in view'[p] => p \in task'[w].old
           /\ <<p, n>> \in M2 /\ p \in task'[w].old => n \in view'[p]
           /\ p \in task'[w].new <=> Near(c, p, n)' /\ p < j
    <3> SUFFICES ASSUME NEW p \in Ai(c)!Players
                 PROVE  /\ <<p, n>> \in O2 /\ n \in view'[p] => p \in task'[w].old
                        /\ <<p, n>> \in M2 /\ p \in task'[w].old => n \in view'[p]
                        /\ p \in task'[w].new <=> Near(c, p, n)' /\ p < j
      OBVIOUS
    <3>1. Agrees(c, {}, Must, Only, p, n)
      BY <1>4, <1>5 DEF Agreed
    <3>2. ~Parts({}, p, n) /\ ~Comes({}, p, n) /\ ~Called({}, p, n)
      BY DEF Parts, Comes, Called
    <3>3. (<<p, n>> \in M2 => <<p, n>> \in Must) /\ (<<p, n>> \in O2 => <<p, n>> \in Only)
      BY DEF Fewer
    <3>4. p < k /\ ~ (p < j)
      BY <1>4, <2>1, <2>8
    <3>5. p \in task[w].new <=> Near(c, p, n)
      BY <1>5, <3>4
    <3>6. <<p, n>> \in O2 /\ n \in view[p] => p \in task[w].new
      BY <3>1, <3>2, <3>3, <3>5 DEF Agrees
    <3>7. <<p, n>> \in M2 /\ p \in task[w].new => n \in view[p]
      BY <3>1, <3>2, <3>3, <3>5 DEF Agrees
    <3> QED
      BY <2>4, <2>6, <3>4, <3>6, <3>7
  <2>10. Todo(w)' = From(Ai(c)!NpcProgram(n), c.npcStart + j)'
    <3>1. PICK i : i = c.npcStart + j
      OBVIOUS
    <3>2. From(Ai(c)!NpcProgram(n), i)' = From(P, m + 1)
      BY <1>1, <1>2, <2>8, <3>1, ProgramStays
    <3> QED
      BY <2>6, <3>1, <3>2
  <2>11. \A p \in Ai(c)!Players' :
           /\ <<p, n>> \in O2 /\ n \in view'[p] => p \in task'[w].old
           /\ <<p, n>> \in M2 /\ p \in task'[w].old => n \in view'[p]
           /\ p \in task'[w].new <=> Near(c, p, n)' /\ p < j
    BY <2>9, ProgramStays
  <2>12. Roaming(c, w, n, j, M2, O2)'
    BY <1>5, <2>4, <2>6, <2>7, <2>10, <2>11 DEF Roaming
  <2>13. j \in 1..c.npcStart /\ n \in Ai(c)!Npcs'
    BY <1>2, <1>4, <2>8, ProgramStays
  <2> QED
    BY <2>12, <2>13 DEF Fair
<1> QED
  BY <1>7, <1>8

LEMMA RoamingWorks ==
    ASSUME NEW c \in AiServers, AiInv(c), Placed(c), NEW w \in c.workers, Ai(c)!Work(w),
           NEW Must, NEW Only, NEW M2, NEW O2, Fewer(M2, Must), Fewer(O2, Only),
           NEW n \in Ai(c)!Npcs, NEW k \in Ai(c)!Players,
           Roaming(c, w, n, k, Must, Only)
    PROVE  Fair(c, w, M2, O2)'
<1>1. PICK P : P = Ai(c)!NpcProgram(n)
  OBVIOUS
<1>2. PICK m : m = c.npcStart
  OBVIOUS
<1>3. /\ P \in Seq(Triples(c)) /\ Len(P) = m + m
      /\ \A j \in 1..(m - 1) : P[m + j] = <<"look", n, j>>
  BY <1>1, <1>2, NpcByStep
<1>4. /\ m \in Nat /\ m >= 1 /\ k \in 1..(m - 1) /\ n \in Ai(c)!Objects
      /\ m + k \in 1..Len(P) /\ m + k + 1 = m + (k + 1)
  <2>1. /\ m \in Nat /\ m >= 1 /\ Ai(c)!Players = 1..(m - 1) /\ n \in Ai(c)!Objects
    BY <1>2, Sizes
  <2> QED
    BY <1>3, <2>1
<1>5. /\ Todo(w) = From(P, m + k) /\ task[w].op = "npc" /\ task[w].id = n
      /\ state[n] = "INGAME" /\ AgreedBut(c, n, Must, Only)
      /\ \A p \in Ai(c)!Players :
            /\ <<p, n>> \in Only /\ n \in view[p] => p \in task[w].old
            /\ <<p, n>> \in Must /\ p \in task[w].old => n \in view[p]
            /\ p \in task[w].new <=> Near(c, p, n) /\ p < k
  BY <1>1, <1>2 DEF Roaming
<1>6. Todo(w) # <<>> /\ Head(Todo(w)) = P[m + k] /\ Tail(Todo(w)) = From(P, m + k + 1)
  BY SMTT(60), <1>3, <1>4, <1>5, FromSteps
<1>7. P[m + k] = <<"look", n, k>>
  BY <1>3, <1>4
<1>8. P[m + k][1] = "look" /\ P[m + k][2] = n /\ P[m + k][3] = k
  BY <1>7
<1>9. Ai(c)!Look(w) /\ Ai(c)!First(w) = n /\ Ai(c)!Second(w) = k
  BY <1>6, <1>8, WorkBy
<1>10. /\ UNCHANGED <<pos, state, view>>
       /\ task'[w].todo = Tail(task[w].todo) /\ task'[w].op = task[w].op
       /\ task'[w].id = task[w].id /\ task'[w].old = task[w].old
       /\ \A p \in Ai(c)!Players : p \in task'[w].new <=> Near(c, p, n)' /\ p < k + 1
  BY <1>5, <1>9, NpcLooks
<1>11. PICK j : j = k + 1
  OBVIOUS
<1>12. Todo(w)' = From(Ai(c)!NpcProgram(n), c.npcStart + j)'
  <2>1. PICK i : i = c.npcStart + j
    OBVIOUS
  <2>2. From(Ai(c)!NpcProgram(n), i)' = From(P, m + k + 1)
    BY <1>1, <1>2, <1>4, <1>11, <2>1, ProgramStays
  <2>3. Todo(w)' = From(P, m + k + 1)
    BY <1>6, <1>10 DEF Todo
  <2> QED
    BY <2>1, <2>2, <2>3
<1>13. AgreedBut(c, n, M2, O2)'
  <2>1. \A q, o : Near(c, q, o)' <=> Near(c, q, o)
    BY <1>10, NearStays
  <2> QED
    BY <1>5, <1>10, <2>1, AgreedButStays DEF Fewer
<1>14. \A p \in Ai(c)!Players' :
          /\ <<p, n>> \in O2 /\ n \in view'[p] => p \in task'[w].old
          /\ <<p, n>> \in M2 /\ p \in task'[w].old => n \in view'[p]
          /\ p \in task'[w].new <=> Near(c, p, n)' /\ p < j
  BY <1>5, <1>10, <1>11, ProgramStays DEF Fewer
<1>15. Roaming(c, w, n, j, M2, O2)'
  BY <1>5, <1>10, <1>12, <1>13, <1>14 DEF Roaming
<1>16. j \in 1..c.npcStart /\ n \in Ai(c)!Npcs'
  BY <1>2, <1>4, <1>11, ProgramStays
<1> QED
  BY <1>15, <1>16 DEF Fair

FlatBy(c, S, seqs, upto) ==
    /\ upto \in [0..Len(seqs) -> Seq(S)] /\ Ai(c)!Flatten(seqs) = upto[Len(seqs)]
    /\ \A i \in 1..Len(seqs) : upto[i] = upto[i - 1] \o seqs[i]

LEMMA FlattenedUpTo ==
    ASSUME NEW c, NEW S, NEW seqs \in Seq(Seq(S))
    PROVE  \E upto : FlatBy(c, S, seqs, upto)
<1> DEFINE n == Len(seqs)
           AtEach(f, i) == IF i = 0 THEN <<>> ELSE f[i - 1] \o seqs[i]
           Upto(m) == \E f \in [0..m -> Seq(S)] : \A i \in 0..m : f[i] = AtEach(f, i)
           upto == CHOOSE f : f = [i \in 0..n |-> AtEach(f, i)]
<1>1. n \in Nat /\ \A i \in 1..n : seqs[i] \in Seq(S)
  OBVIOUS
<1>2. Ai(c)!Flatten(seqs) = upto[n]
  BY DEF Ai!Flatten
<1>3. Upto(0)
  <2> DEFINE f == [i \in 0..0 |-> <<>>]
  <2>1. f \in [0..0 -> Seq(S)] /\ \A i \in 0..0 : f[i] = AtEach(f, i)
    OBVIOUS
  <2> QED
    BY <2>1
<1> HIDE DEF n
<1>4. ASSUME NEW m \in Nat, m < n, Upto(m) PROVE Upto(m + 1)
  <2>1. PICK f \in [0..m -> Seq(S)] : \A i \in 0..m : f[i] = AtEach(f, i)
    BY <1>4
  <2> DEFINE last == f[m] \o seqs[m + 1]
             g == [i \in 0..(m + 1) |-> IF i = m + 1 THEN last ELSE f[i]]
  <2>2. m + 1 \in 1..n /\ f[m] \in Seq(S)
    BY <1>1, <1>4
  <2>3. last \in Seq(S)
    BY <1>1, <2>2
  <2> HIDE DEF last
  <2>4. g \in [0..(m + 1) -> Seq(S)]
    BY <2>3
  <2>5. ASSUME NEW i \in 0..(m + 1) PROVE g[i] = AtEach(g, i)
    <3>1. CASE i = m + 1
      <4>1. g[i] = last /\ g[i - 1] = f[m] /\ i # 0 /\ seqs[i] = seqs[m + 1]
        BY <3>1
      <4> QED
        BY <4>1 DEF last
    <3>2. CASE i # m + 1
      <4>1. i \in 0..m /\ g[i] = f[i]
        BY <3>2
      <4>2. i # 0 => i - 1 \in 0..(m + 1) /\ i - 1 # m + 1
        BY <4>1
      <4>3. i # 0 => g[i - 1] = f[i - 1]
        BY <4>2
      <4>4. f[i] = AtEach(f, i)
        BY <2>1, <4>1
      <4> QED
        BY <4>1, <4>3, <4>4
    <3> QED
      BY SMTT(60), <3>1, <3>2
  <2> QED
    BY <2>4, <2>5
<1>5. ASSUME NEW m \in 0..n PROVE Upto(m)
  <2> DEFINE Bad == {k \in Nat : k <= n /\ ~Upto(k)}
  <2> HIDE DEF Upto
  <2>1. SUFFICES ASSUME Bad # {} PROVE FALSE
    BY <1>1
  <2>2. PICK k \in Bad : \A j \in Bad : k <= j
    BY <2>1, Least
  <2>3. k # 0
    BY <1>3, <2>2
  <2>4. k - 1 \in Nat /\ k - 1 < n /\ k - 1 \notin Bad /\ k - 1 + 1 = k
    BY <1>1, <2>2, <2>3
  <2>5. Upto(k - 1)
    BY <1>1, <2>4
  <2>6. Upto(k - 1 + 1)
    BY <1>4, <2>4, <2>5
  <2> QED
    BY <2>2, <2>4, <2>6
<1>6. PICK f \in [0..n -> Seq(S)] : \A i \in 0..n : f[i] = AtEach(f, i)
  <2>1. n \in 0..n
    BY <1>1
  <2>2. Upto(n)
    BY SMTT(90), <1>5, <2>1
  <2> QED
    BY <2>2
<1>7. upto = [i \in 0..n |-> AtEach(upto, i)]
  <2>1. f = [i \in 0..n |-> AtEach(f, i)]
    BY <1>6
  <2> QED
    BY <2>1
<1> HIDE DEF upto
<1>8. ASSUME NEW i \in 0..n PROVE upto[i] = AtEach(upto, i)
  BY <1>7
<1>9. ASSUME NEW m \in 0..n PROVE upto[m] \in Seq(S)
  <2> DEFINE Bad == {k \in Nat : k <= n /\ upto[k] \notin Seq(S)}
  <2> SUFFICES ASSUME upto[m] \notin Seq(S) PROVE FALSE
    OBVIOUS
  <2>1. m \in Bad
    BY <1>1
  <2>2. PICK k \in Bad : \A j \in Bad : k <= j
    BY <2>1, Least
  <2>3. k \in 0..n /\ upto[k] = AtEach(upto, k)
    BY <1>1, <1>8, <2>2
  <2>4. CASE k = 0
    <3>1. upto[k] = <<>>
      BY <2>3, <2>4
    <3>2. <<>> \in Seq(S)
      OBVIOUS
    <3> QED
      BY <2>2, <3>1, <3>2
  <2>5. CASE k # 0
    <3>1. k - 1 \in Nat /\ k - 1 <= n /\ k - 1 \notin Bad /\ k \in 1..n
      BY <1>1, <2>2, <2>5
    <3>2. upto[k - 1] \in Seq(S) /\ seqs[k] \in Seq(S)
      BY <1>1, <3>1
    <3>3. upto[k] = upto[k - 1] \o seqs[k]
      BY <2>3, <2>5
    <3>4. upto[k] \in Seq(S)
      BY <3>2, <3>3
    <3> QED
      BY <2>2, <3>4
  <2> QED
    BY <2>4, <2>5
<1>10. DOMAIN upto = 0..n
  BY <1>7
<1>11. upto \in [0..n -> Seq(S)]
  BY <1>7, <1>9, <1>10
<1>12. ASSUME NEW i \in 1..n PROVE upto[i] = upto[i - 1] \o seqs[i]
  <2>1. i \in 0..n /\ i # 0
    BY <1>1
  <2>2. upto[i] = AtEach(upto, i)
    BY <1>8, <2>1
  <2> QED
    BY <2>1, <2>2
<1> QED
  BY <1>2, <1>11, <1>12 DEF n, FlatBy

(* Each of the sequences is part of it.                                    *)
LEMMA FlattenHas ==
    ASSUME NEW c, NEW S, NEW seqs \in Seq(Seq(S)), NEW i \in 1..Len(seqs)
    PROVE  Elems(seqs[i]) \subseteq Elems(Ai(c)!Flatten(seqs))
<1>1. PICK n : n = Len(seqs)
  OBVIOUS
<1>2. n \in Nat /\ i \in 1..n /\ \A k \in 1..n : seqs[k] \in Seq(S)
  BY <1>1
<1>3. PICK upto \in [0..n -> Seq(S)] :
         /\ Ai(c)!Flatten(seqs) = upto[n]
         /\ \A k \in 1..n : upto[k] = upto[k - 1] \o seqs[k]
  <2>1. PICK upto : FlatBy(c, S, seqs, upto)
    BY FlattenedUpTo
  <2> QED
    BY <1>1, <2>1 DEF FlatBy
<1>4. ASSUME NEW k \in 1..n
      PROVE  Elems(upto[k]) = Elems(upto[k - 1]) \cup Elems(seqs[k])
  <2>0. k - 1 \in 0..n
    BY <1>2
  <2>1. upto[k - 1] \in Seq(S) /\ seqs[k] \in Seq(S) /\ upto[k] = upto[k - 1] \o seqs[k]
    BY <1>2, <1>3, <2>0
  <2> QED
    BY <2>1, ElemsJoin
<1> DEFINE Bad == {k \in Nat : k <= n /\ i <= k /\ ~ (Elems(seqs[i]) \subseteq Elems(upto[k]))}
<1> SUFFICES ASSUME ~ (Elems(seqs[i]) \subseteq Elems(upto[n])) PROVE FALSE
  BY <1>3
<1>5. n \in Bad
  BY <1>2
<1>6. PICK k \in Bad : \A j \in Bad : k <= j
  BY <1>5, Least
<1>7. k \in 1..n
  BY <1>2, <1>6
<1>8. CASE k = i
  BY <1>4, <1>6, <1>7, <1>8
<1>9. CASE k # i
  <2>1. k - 1 \in Nat /\ k - 1 <= n /\ i <= k - 1 /\ k - 1 \notin Bad
    BY <1>2, <1>6, <1>9
  <2>2. Elems(seqs[i]) \subseteq Elems(upto[k - 1])
    BY <2>1
  <2> QED
    BY <1>4, <1>6, <1>7, <2>2
<1> QED
  BY <1>8, <1>9

LEMMA SeqOf ==
    ASSUME NEW S, NEW A, NEW T \in Seq(S), Elems(T) \subseteq A
    PROVE  T \in Seq(A)
<1>1. Len(T) \in Nat /\ T \in [1..Len(T) -> S]
  OBVIOUS
<1>2. \A i \in 1..Len(T) : T[i] \in A
  BY DEF Elems
<1>3. PICK n : n = Len(T)
  OBVIOUS
<1>4. T \in [1..n -> A] /\ n \in Nat
  BY <1>1, <1>2, <1>3
<1> QED
  BY <1>4, EachSeq

(* The programs of a sort, of all the objects and of nobody else.          *)
LEMMA EachElems ==
    ASSUME NEW c \in AiServers, NEW S, NEW D \in SUBSET Ai(c)!Objects,
           NEW program \in [D -> Seq(S)], NEW order \in Ai(c)!Orders(D)
    PROVE  /\ Ai(c)!EachOf(program, order) \in Seq(S)
           /\ \A x : x \in Elems(Ai(c)!EachOf(program, order))
                       <=> \E o \in D : x \in Elems(program[o])
<1> DEFINE P == [i \in 1..Len(order) |-> program[order[i]]]
<1>1. PICK n : n = Cardinality(D)
  OBVIOUS
<1>2. n \in Nat /\ IsFiniteSet(D)
  <2>1. IsFiniteSet(1..c.users)
    BY Sizes, FS_Interval
  <2>2. IsFiniteSet(D)
    BY <2>1, Sizes, FS_Subset
  <2> QED
    BY <1>1, <2>2, FS_CardinalityType
<1>3. order \in [1..n -> D] /\ \A i, j \in 1..n : order[i] = order[j] => i = j
  <2>1. Ai(c)!Cardinality(D) = n
    BY <1>1 DEF Ai!Cardinality, Cardinality
  <2> QED
    BY <2>1 DEF Ai!Orders
<1>4. \A o \in D : \E i \in 1..n : order[i] = o
  <2>1. order \in Injection(1..n, D)
    BY <1>3 DEF Injection, IsInjective
  <2>2. Cardinality(1..n) = n
    BY <1>2, FS_Interval
  <2>3. order \in Surjection(1..n, D)
    BY <1>1, <1>2, <2>1, <2>2, FS_Injection
  <2> QED
    BY <2>3 DEF Surjection
<1>5. Len(order) = n
  BY <1>2, <1>3
<1>6. P \in [1..n -> Seq(S)] /\ \A i \in 1..n : P[i] = program[order[i]]
  BY <1>3, <1>5
<1> HIDE DEF P
<1>7. P \in Seq(Seq(S)) /\ Len(P) = n
  BY <1>2, <1>6, EachSeq
<1>8. Ai(c)!EachOf(program, order) = Ai(c)!Flatten(P)
  BY DEF Ai!EachOf, P
<1>9. Ai(c)!EachOf(program, order) \in Seq(S)
  BY <1>7, <1>8, Flattened
<1>10. ASSUME NEW o \in D, NEW x \in Elems(program[o])
       PROVE  x \in Elems(Ai(c)!EachOf(program, order))
  <2>1. PICK i \in 1..n : order[i] = o
    BY <1>4
  <2>2. Elems(P[i]) \subseteq Elems(Ai(c)!Flatten(P))
    BY <1>7, FlattenHas
  <2> QED
    BY <1>6, <1>8, <2>1, <2>2
<1>11. ASSUME NEW x \in Elems(Ai(c)!EachOf(program, order))
       PROVE  \E o \in D : x \in Elems(program[o])
  <2>1. PICK A : A = {y \in S : \E o \in D : y \in Elems(program[o])}
    OBVIOUS
  <2>2. ASSUME NEW o \in D PROVE program[o] \in Seq(A)
    <3>1. program[o] \in Seq(S)
      OBVIOUS
    <3>2. Elems(program[o]) \subseteq S
      BY <3>1 DEF Elems
    <3>3. Elems(program[o]) \subseteq A
      BY <2>1, <3>2
    <3> QED
      BY <3>1, <3>3, SeqOf
  <2>3. program \in [D -> Seq(A)]
    BY <2>2
  <2>4. Ai(c)!EachOf(program, order) \in Seq(A)
    BY <2>3, InOrder
  <2>5. x \in A
    BY <2>4 DEF Elems
  <2> QED
    BY <2>1, <2>5
<1> QED
  BY <1>9, <1>10, <1>11

-----------------------------------------------------------------------------
(* What a sort is about, instruction by instruction.                       *)
Meets(c, p, o, old) ==
    (IF o \in old THEN {} ELSE {<<"insert", p, o>>, <<"add", p, o>>})
      \cup (IF o \in Ai(c)!Players THEN {<<"meet", o, p>>}
            ELSE IF o \in old THEN {} ELSE {<<"wake", o, o>>})

PartsWith(c, p, o) ==
    {<<"erase", p, o>>, <<"remove", p, o>>}
      \cup (IF o \in Ai(c)!Players THEN {<<"part", o, p>>} ELSE {})

NpcMeets(n, p, old) ==
    IF p \in old THEN {<<"move", p, n>>} ELSE {<<"insert", p, n>>, <<"add", p, n>>}

LEMMA PlayerElems ==
    ASSUME NEW c \in AiServers, NEW p \in Ai(c)!Players, NEW o \in Ai(c)!Objects, NEW old
    PROVE  /\ Ai(c)!MeetProgram(p, o, old) \in Seq(Triples(c))
           /\ Elems(Ai(c)!MeetProgram(p, o, old)) = Meets(c, p, o, old)
           /\ Ai(c)!PartProgram(p, o, {}) \in Seq(Triples(c))
           /\ Elems(Ai(c)!PartProgram(p, o, {})) = PartsWith(c, p, o)
<1> DEFINE S == Triples(c)
<1>1. p \in Ai(c)!Objects /\ (o \in Ai(c)!Npcs <=> o \notin Ai(c)!Players)
  BY Sizes
<1>2. /\ <<"insert", p, o>> \in S /\ <<"add", p, o>> \in S
      /\ <<"erase", p, o>> \in S /\ <<"remove", p, o>> \in S
      /\ <<"meet", o, p>> \in S /\ <<"part", o, p>> \in S /\ <<"wake", o, o>> \in S
  BY <1>1 DEF Triples, AiOps
<1> DEFINE in == <<"insert", p, o>>
           ad == <<"add", p, o>>
           er == <<"erase", p, o>>
           re == <<"remove", p, o>>
           me == <<"meet", o, p>>
           pa == <<"part", o, p>>
           wk == <<"wake", o, o>>
<1>3. {in, ad, er, re, me, pa, wk} \subseteq S
  BY <1>2
<1> HIDE DEF S, in, ad, er, re, me, pa, wk
<1>4. /\ <<in, ad>> \in Seq(S) /\ Elems(<<in, ad>>) = {in, ad}
      /\ <<er, re>> \in Seq(S) /\ Elems(<<er, re>>) = {er, re}
  BY <1>3, ElemsTwo
<1>5. /\ <<me>> \in Seq(S) /\ Elems(<<me>>) = {me}
      /\ <<pa>> \in Seq(S) /\ Elems(<<pa>>) = {pa}
      /\ <<wk>> \in Seq(S) /\ Elems(<<wk>>) = {wk}
  BY <1>3, ElemsOne
<1>6. <<>> \in Seq(S) /\ Elems(<<>>) = {}
  BY ElemsNone
<1>7. /\ Ai(c)!MeetProgram(p, o, old) \in Seq(S)
      /\ Elems(Ai(c)!MeetProgram(p, o, old)) = Meets(c, p, o, old)
  <2> DEFINE A == IF o \in old THEN <<>> ELSE <<in, ad>>
             B == IF o \in Ai(c)!Players THEN <<me>> ELSE IF o \in old THEN <<>> ELSE <<wk>>
  <2>1. A \in Seq(S) /\ Elems(A) = IF o \in old THEN {} ELSE {in, ad}
    BY <1>4, <1>6
  <2>2. /\ B \in Seq(S)
        /\ Elems(B) = IF o \in Ai(c)!Players THEN {me} ELSE IF o \in old THEN {} ELSE {wk}
    BY <1>5, <1>6
  <2>3. Ai(c)!MeetProgram(p, o, old) = A \o B
    BY DEF Ai!MeetProgram, in, ad, me, wk
  <2> HIDE DEF A, B
  <2>4. A \o B \in Seq(S) /\ Elems(A \o B) = Elems(A) \cup Elems(B)
    BY <2>1, <2>2, ElemsJoin
  <2> QED
    BY <2>1, <2>2, <2>3, <2>4 DEF Meets, in, ad, me, wk
<1>8. /\ Ai(c)!PartProgram(p, o, {}) \in Seq(S)
      /\ Elems(Ai(c)!PartProgram(p, o, {})) = PartsWith(c, p, o)
  <2> DEFINE A == <<er, re>>
             B == IF o \in Ai(c)!Players THEN <<pa>> ELSE <<>>
  <2>1. A \in Seq(S) /\ Elems(A) = {er, re}
    BY <1>4
  <2>2. B \in Seq(S) /\ Elems(B) = IF o \in Ai(c)!Players THEN {pa} ELSE {}
    BY <1>5, <1>6
  <2>3. Ai(c)!PartProgram(p, o, {}) = A \o B
    BY DEF Ai!PartProgram, er, re, pa
  <2> HIDE DEF A, B
  <2>4. A \o B \in Seq(S) /\ Elems(A \o B) = Elems(A) \cup Elems(B)
    BY <2>1, <2>2, ElemsJoin
  <2> QED
    BY <2>1, <2>2, <2>3, <2>4 DEF PartsWith, er, re, pa
<1> QED
  BY <1>7, <1>8 DEF S

LEMMA NpcElems ==
    ASSUME NEW c \in AiServers, NEW n \in Ai(c)!Npcs, NEW p \in Ai(c)!Players, NEW old
    PROVE  /\ Ai(c)!NpcMeetProgram(n, p, old) \in Seq(Triples(c))
           /\ Elems(Ai(c)!NpcMeetProgram(n, p, old)) = NpcMeets(n, p, old)
           /\ Ai(c)!NpcPartProgram(n, p, {}) \in Seq(Triples(c))
           /\ Elems(Ai(c)!NpcPartProgram(n, p, {})) = {<<"part", p, n>>}
<1> DEFINE S == Triples(c)
<1>1. p \in Ai(c)!Objects /\ n \in Ai(c)!Objects
  BY Sizes
<1> DEFINE in == <<"insert", p, n>>
           ad == <<"add", p, n>>
           mo == <<"move", p, n>>
           pa == <<"part", p, n>>
<1>2. {in, ad, mo, pa} \subseteq S
  BY <1>1 DEF Triples, AiOps
<1> HIDE DEF S, in, ad, mo, pa
<1>3. /\ <<in, ad>> \in Seq(S) /\ Elems(<<in, ad>>) = {in, ad}
      /\ <<mo>> \in Seq(S) /\ Elems(<<mo>>) = {mo}
      /\ <<pa>> \in Seq(S) /\ Elems(<<pa>>) = {pa}
  BY ZenonT(60), <1>2, ElemsOne, ElemsTwo
<1>4. /\ Ai(c)!NpcMeetProgram(n, p, old) = IF p \in old THEN <<mo>> ELSE <<in, ad>>
      /\ Ai(c)!NpcPartProgram(n, p, {}) = <<pa>>
      /\ NpcMeets(n, p, old) = IF p \in old THEN {mo} ELSE {in, ad}
  BY DEF Ai!NpcMeetProgram, Ai!NpcPartProgram, NpcMeets, in, ad, mo, pa
<1> QED
  BY <1>3, <1>4 DEF S, pa

(* A sort puts the handler's last program before it.                       *)
PlayerSorted(c, p, old, new, more) ==
    /\ more \in Seq(Triples(c)) /\ Ends(more)
    /\ \A x : x \in Elems(more) <=>
                \/ x = Me("own", p) \/ x = Me("done", p)
                \/ \E o \in new : x \in Meets(c, p, o, old)
                \/ \E o \in old \ new : x \in PartsWith(c, p, o)

NpcSorted(c, n, old, new, more) ==
    /\ more \in Seq(Triples(c)) /\ Ends(more)
    /\ \A x : x \in Elems(more) <=>
                \/ x = Me("done", n)
                \/ \E o \in new : x \in NpcMeets(n, o, old)
                \/ \E o \in old \ new : x = <<"part", o, n>>

(* Four sequences, of which the last alone ends the handler.               *)
LEMMA FourJoin ==
    ASSUME NEW S, NEW A \in Seq(S), NEW B \in Seq(S), NEW C \in Seq(S), NEW d \in S,
           \A i \in Elems(A) \cup Elems(B) \cup Elems(C) : i[1] # "done"
    PROVE  /\ A \o B \o C \o <<d>> \in Seq(S) /\ Ends(A \o B \o C \o <<d>>)
           /\ Elems(A \o B \o C \o <<d>>) = Elems(A) \cup Elems(B) \cup Elems(C) \cup {d}
<1>1. A \o B \in Seq(S) /\ Elems(A \o B) = Elems(A) \cup Elems(B)
  BY ElemsJoin
<1> DEFINE X == A \o B
           Y == X \o C
<1> HIDE DEF X
<1>2. X \in Seq(S) /\ Elems(X) = Elems(A) \cup Elems(B)
  BY <1>1 DEF X
<1>3. Y \in Seq(S) /\ Elems(Y) = Elems(X) \cup Elems(C)
  BY <1>2, ElemsJoin
<1> HIDE DEF Y
<1>4. <<d>> \in Seq(S) /\ Elems(<<d>>) = {d} /\ Ends(<<d>>)
  <2>1. Ends(<<d>>)
    <3>1. Me("own", d)[1] # "done"
      BY DEF Me
    <3> QED
      BY <3>1, EndsShort
  <2> QED
    BY <2>1, ElemsOne
<1> DEFINE Z == <<d>>
<1>5. Z \in Seq(S) /\ Elems(Z) = {d} /\ Ends(Z)
  BY <1>4
<1> HIDE DEF Z
<1>6. Y \o Z \in Seq(S) /\ Elems(Y \o Z) = Elems(Y) \cup Elems(Z)
  BY <1>3, <1>5, ElemsJoin
<1>7. \A i \in Elems(Y) : i[1] # "done"
  BY <1>2, <1>3
<1>8. Ends(Y \o Z)
  BY <1>3, <1>5, <1>7, EndsJoin
<1> QED
  BY <1>2, <1>3, <1>5, <1>6, <1>8 DEF X, Y, Z

LEMMA PlayerSortIs ==
    ASSUME NEW c \in AiServers, AiInv(c), NEW w \in c.workers, Ai(c)!Sort(w),
           NEW p \in Ai(c)!Players, Ai(c)!First(w) = p
    PROVE  \E more : Ai(c)!Go(w, more) /\ PlayerSorted(c, p, task[w].old, task[w].new, more)
<1> DEFINE S == Triples(c)
           old == task[w].old
           new == task[w].new
           gone == old \ new
           met == [o \in new |-> Ai(c)!MeetProgram(p, o, old)]
           parted == [o \in gone |-> Ai(c)!PartProgram(p, o, {})]
           own == << <<"own", p, p>> >>
           dn == <<"done", p, p>>
<1>1. PICK in \in Ai(c)!Orders(new), out \in Ai(c)!Orders(gone) :
        Ai(c)!Go(w, own \o Ai(c)!EachOf(met, in) \o Ai(c)!EachOf(parted, out) \o <<dn>>)
  <2>1. \E in \in Ai(c)!Orders(new), out \in Ai(c)!Orders(gone) :
          Ai(c)!Go(w, (IF p \in Ai(c)!Players THEN << <<"own", p, p>> >> ELSE <<>>)
             \o Ai(c)!EachOf([o \in new |-> IF p \in Ai(c)!Players THEN Ai(c)!MeetProgram(p, o, old)
                                            ELSE Ai(c)!NpcMeetProgram(p, o, old)], in)
             \o Ai(c)!EachOf([o \in gone |-> IF p \in Ai(c)!Players THEN Ai(c)!PartProgram(p, o, {})
                                             ELSE Ai(c)!NpcPartProgram(p, o, {})], out)
             \o << <<"done", p, p>> >>)
    BY DEF Ai!Sort
  <2> QED
    BY <2>1
<1>2. new \in SUBSET Ai(c)!Objects /\ gone \in SUBSET Ai(c)!Objects
  BY DEF AiInv, AiType, AiHandlers
<1>3. p \in Ai(c)!Objects
  BY Sizes
<1>4. /\ met \in [new -> Seq(S)] /\ \A o \in new : Elems(met[o]) = Meets(c, p, o, old)
      /\ parted \in [gone -> Seq(S)] /\ \A o \in gone : Elems(parted[o]) = PartsWith(c, p, o)
  <2> HIDE DEF old, new, gone, S
  <2>1. \A o \in Ai(c)!Objects :
          /\ Ai(c)!MeetProgram(p, o, old) \in Seq(S)
          /\ Elems(Ai(c)!MeetProgram(p, o, old)) = Meets(c, p, o, old)
          /\ Ai(c)!PartProgram(p, o, {}) \in Seq(S)
          /\ Elems(Ai(c)!PartProgram(p, o, {})) = PartsWith(c, p, o)
    BY PlayerElems DEF S
  <2> QED
    BY <1>2, <2>1
<1> DEFINE ow == <<"own", p, p>>
<1>5. dn \in S /\ ow \in S /\ ow[1] # "done"
  BY <1>3 DEF Triples, AiOps
<1>6. own \in Seq(S) /\ Elems(own) = {ow}
  <2> HIDE DEF ow, S
  <2>1. <<ow>> \in Seq(S) /\ Elems(<<ow>>) = {ow}
    BY <1>5, ElemsOne
  <2> QED
    BY <2>1 DEF ow
<1> DEFINE M == Ai(c)!EachOf(met, in)
           G == Ai(c)!EachOf(parted, out)
<1>7. /\ M \in Seq(S) /\ \A x : x \in Elems(M) <=> \E o \in new : x \in Elems(met[o])
      /\ G \in Seq(S) /\ \A x : x \in Elems(G) <=> \E o \in gone : x \in Elems(parted[o])
  <2> HIDE DEF met, parted, S, new, gone
  <2>1. /\ in \in Ai(c)!Orders(new) /\ new \in SUBSET Ai(c)!Objects /\ met \in [new -> Seq(S)]
        /\ out \in Ai(c)!Orders(gone) /\ gone \in SUBSET Ai(c)!Objects
        /\ parted \in [gone -> Seq(S)]
    BY <1>1, <1>2, <1>4
  <2>2. M \in Seq(S) /\ \A x : x \in Elems(M) <=> \E o \in new : x \in Elems(met[o])
    BY SMTT(60), <2>1, EachElems
  <2>3. G \in Seq(S) /\ \A x : x \in Elems(G) <=> \E o \in gone : x \in Elems(parted[o])
    BY <2>1, EachElems
  <2> QED
    BY <2>2, <2>3
<1>8. /\ \A x : x \in Elems(M) <=> \E o \in new : x \in Meets(c, p, o, old)
      /\ \A x : x \in Elems(G) <=> \E o \in gone : x \in PartsWith(c, p, o)
  <2> HIDE DEF met, parted, S, new, gone, M, G
  <2> QED
    BY <1>4, <1>7
<1> HIDE DEF met, parted, M, G, old, new, gone
<1>9. \A i \in Elems(own) \cup Elems(M) \cup Elems(G) : i[1] # "done"
  <2>1. \A o, x : x \in Meets(c, p, o, old) => x[1] # "done"
    BY DEF Meets
  <2>2. \A o, x : x \in PartsWith(c, p, o) => x[1] # "done"
    BY DEF PartsWith
  <2> QED
    BY <1>5, <1>6, <1>8, <2>1, <2>2
<1> HIDE DEF own, dn, S
<1> DEFINE more == own \o M \o G \o <<dn>>
<1>10. /\ more \in Seq(S) /\ Ends(more)
       /\ Elems(more) = Elems(own) \cup Elems(M) \cup Elems(G) \cup {dn}
  BY <1>5, <1>6, <1>7, <1>9, FourJoin
<1>11. Ai(c)!Go(w, more)
  BY <1>1 DEF M, G
<1> HIDE DEF more
<1>12. PlayerSorted(c, p, old, new, more)
  <2>1. dn = Me("done", p) /\ ow = Me("own", p)
    BY DEF dn, Me
  <2> HIDE DEF ow
  <2>2. \A x : x \in Elems(more) <=>
                \/ x = Me("own", p) \/ x = Me("done", p)
                \/ \E o \in new : x \in Meets(c, p, o, old)
                \/ \E o \in gone : x \in PartsWith(c, p, o)
    BY <1>6, <1>8, <1>10, <2>1
  <2> QED
    BY <1>10, <2>2 DEF PlayerSorted, S, gone
<1> QED
  BY <1>11, <1>12 DEF old, new

LEMMA NpcSortIs ==
    ASSUME NEW c \in AiServers, AiInv(c), NEW w \in c.workers, Ai(c)!Sort(w),
           NEW n \in Ai(c)!Npcs, Ai(c)!First(w) = n, task[w].id = n
    PROVE  \E more : Ai(c)!Go(w, more) /\ NpcSorted(c, n, task[w].old, task[w].new, more)
<1> DEFINE S == Triples(c)
           old == task[w].old
           new == task[w].new
           gone == old \ new
           met == [o \in new |-> Ai(c)!NpcMeetProgram(n, o, old)]
           parted == [o \in gone |-> Ai(c)!NpcPartProgram(n, o, {})]
           dn == <<"done", n, n>>
<1>1. n \notin Ai(c)!Players /\ n \in Ai(c)!Objects
  BY Sizes
<1>2. PICK in \in Ai(c)!Orders(new), out \in Ai(c)!Orders(gone) :
        Ai(c)!Go(w, <<>> \o Ai(c)!EachOf(met, in) \o Ai(c)!EachOf(parted, out) \o <<dn>>)
  <2>1. \E in \in Ai(c)!Orders(new), out \in Ai(c)!Orders(gone) :
          Ai(c)!Go(w, (IF n \in Ai(c)!Players THEN << <<"own", n, n>> >> ELSE <<>>)
             \o Ai(c)!EachOf([o \in new |-> IF n \in Ai(c)!Players THEN Ai(c)!MeetProgram(n, o, old)
                                            ELSE Ai(c)!NpcMeetProgram(n, o, old)], in)
             \o Ai(c)!EachOf([o \in gone |-> IF n \in Ai(c)!Players THEN Ai(c)!PartProgram(n, o, {})
                                             ELSE Ai(c)!NpcPartProgram(n, o, {})], out)
             \o << <<"done", n, n>> >>)
    BY DEF Ai!Sort
  <2> QED
    BY <1>1, <2>1
<1>3. /\ new \in SUBSET Ai(c)!Objects /\ gone \in SUBSET Ai(c)!Objects
      /\ new \subseteq Ai(c)!Players /\ gone \subseteq Ai(c)!Players
  BY Sizes DEF AiInv, HandlerSeen
<1>4. /\ met \in [new -> Seq(S)] /\ \A o \in new : Elems(met[o]) = NpcMeets(n, o, old)
      /\ parted \in [gone -> Seq(S)] /\ \A o \in gone : Elems(parted[o]) = {<<"part", o, n>>}
  <2> HIDE DEF old, new, gone, S
  <2>1. \A o \in Ai(c)!Players :
          /\ Ai(c)!NpcMeetProgram(n, o, old) \in Seq(S)
          /\ Elems(Ai(c)!NpcMeetProgram(n, o, old)) = NpcMeets(n, o, old)
          /\ Ai(c)!NpcPartProgram(n, o, {}) \in Seq(S)
          /\ Elems(Ai(c)!NpcPartProgram(n, o, {})) = {<<"part", o, n>>}
    BY NpcElems DEF S
  <2> QED
    BY <1>3, <2>1
<1>5. dn \in S
  BY <1>1 DEF Triples, AiOps
<1>6. <<>> \in Seq(S) /\ Elems(<<>>) = {}
  BY ElemsNone
<1> DEFINE M == Ai(c)!EachOf(met, in)
           G == Ai(c)!EachOf(parted, out)
<1>7. /\ M \in Seq(S) /\ \A x : x \in Elems(M) <=> \E o \in new : x \in Elems(met[o])
      /\ G \in Seq(S) /\ \A x : x \in Elems(G) <=> \E o \in gone : x \in Elems(parted[o])
  <2> HIDE DEF met, parted, S, new, gone
  <2>1. /\ in \in Ai(c)!Orders(new) /\ new \in SUBSET Ai(c)!Objects /\ met \in [new -> Seq(S)]
        /\ out \in Ai(c)!Orders(gone) /\ gone \in SUBSET Ai(c)!Objects
        /\ parted \in [gone -> Seq(S)]
    BY <1>2, <1>3, <1>4
  <2>2. M \in Seq(S) /\ \A x : x \in Elems(M) <=> \E o \in new : x \in Elems(met[o])
    BY SMTT(60), <2>1, EachElems
  <2>3. G \in Seq(S) /\ \A x : x \in Elems(G) <=> \E o \in gone : x \in Elems(parted[o])
    BY SMTT(60), <2>1, EachElems
  <2> QED
    BY <2>2, <2>3
<1>8. /\ \A x : x \in Elems(M) <=> \E o \in new : x \in NpcMeets(n, o, old)
      /\ \A x : x \in Elems(G) <=> \E o \in gone : x = <<"part", o, n>>
  <2> HIDE DEF met, parted, S, new, gone, M, G
  <2> QED
    BY <1>4, <1>7
<1> HIDE DEF met, parted, M, G, old, new, gone
<1>9. \A i \in Elems(<<>>) \cup Elems(M) \cup Elems(G) : i[1] # "done"
  <2>1. \A o, x : x \in NpcMeets(n, o, old) => x[1] # "done"
    BY DEF NpcMeets
  <2> QED
    BY <1>6, <1>8, <2>1
<1> HIDE DEF dn, S
<1> DEFINE e == <<>>
<1> DEFINE more == e \o M \o G \o <<dn>>
<1>10. /\ more \in Seq(S) /\ Ends(more)
       /\ Elems(more) = Elems(e) \cup Elems(M) \cup Elems(G) \cup {dn}
  <2>1. e \in Seq(S) /\ \A i \in Elems(e) \cup Elems(M) \cup Elems(G) : i[1] # "done"
    BY <1>6, <1>9
  <2> HIDE DEF e
  <2> QED
    BY <1>5, <1>7, <2>1, FourJoin
<1>11. Ai(c)!Go(w, more)
  BY <1>2 DEF M, G
<1>12. Elems(e) = {}
  BY <1>6
<1> HIDE DEF more, e
<1>13. NpcSorted(c, n, old, new, more)
  <2>1. dn = Me("done", n)
    BY DEF dn, Me
  <2>2. \A x : x \in Elems(more) <=>
                \/ x = Me("done", n)
                \/ \E o \in new : x \in NpcMeets(n, o, old)
                \/ \E o \in gone : x = <<"part", o, n>>
    BY <1>8, <1>10, <1>12, <2>1
  <2> QED
    BY <1>10, <2>2 DEF NpcSorted, S, gone
<1> QED
  BY <1>11, <1>13 DEF old, new

(* What a sort says of a pair.                                             *)
PlayerPairs(c, p, old, new, E) ==
    \A q, o :
        /\ <<"insert", q, o>> \in E <=> q = p /\ o \in new \ old
        /\ <<"add", q, o>> \in E <=> q = p /\ o \in new \ old
        /\ <<"meet", q, o>> \in E <=> o = p /\ q \in new \cap Ai(c)!Players
        /\ <<"erase", q, o>> \in E <=> q = p /\ o \in old \ new
        /\ <<"remove", q, o>> \in E <=> q = p /\ o \in old \ new
        /\ <<"part", q, o>> \in E <=> o = p /\ q \in (old \ new) \cap Ai(c)!Players

NpcPairs(n, old, new, E) ==
    \A q, o :
        /\ <<"insert", q, o>> \in E <=> o = n /\ q \in new \ old
        /\ <<"add", q, o>> \in E <=> o = n /\ q \in new \ old
        /\ <<"move", q, o>> \in E <=> o = n /\ q \in new \cap old
        /\ <<"part", q, o>> \in E <=> o = n /\ q \in old \ new

LEMMA PlayerSortSays ==
    ASSUME NEW c, NEW p, NEW old, NEW new, NEW more, PlayerSorted(c, p, old, new, more),
           NEW E, E = Elems(more)
    PROVE  PlayerPairs(c, p, old, new, E)
<1> SUFFICES ASSUME NEW q, NEW o
             PROVE  /\ <<"insert", q, o>> \in E <=> q = p /\ o \in new \ old
                    /\ <<"add", q, o>> \in E <=> q = p /\ o \in new \ old
                    /\ <<"meet", q, o>> \in E <=> o = p /\ q \in new \cap Ai(c)!Players
                    /\ <<"erase", q, o>> \in E <=> q = p /\ o \in old \ new
                    /\ <<"remove", q, o>> \in E <=> q = p /\ o \in old \ new
                    /\ <<"part", q, o>> \in E <=> o = p /\ q \in (old \ new) \cap Ai(c)!Players
  BY DEF PlayerPairs
<1>1. \A x : x \in E <=>
                \/ x = Me("own", p) \/ x = Me("done", p)
                \/ \E y \in new : x \in Meets(c, p, y, old)
                \/ \E y \in old \ new : x \in PartsWith(c, p, y)
  BY DEF PlayerSorted
<1>2. ASSUME NEW k \in {"insert", "add", "meet", "erase", "remove", "part"}
      PROVE  <<k, q, o>> # Me("own", p) /\ <<k, q, o>> # Me("done", p)
  BY DEF Me
<1>3. ASSUME NEW k \in {"insert", "add", "meet"}, NEW y
      PROVE  <<k, q, o>> \notin PartsWith(c, p, y)
  BY DEF PartsWith
<1>4. ASSUME NEW k \in {"erase", "remove", "part"}, NEW y
      PROVE  <<k, q, o>> \notin Meets(c, p, y, old)
  BY DEF Meets
<1>5. ASSUME NEW k \in {"insert", "add", "meet"}
      PROVE  <<k, q, o>> \in E <=> \E y \in new : <<k, q, o>> \in Meets(c, p, y, old)
  BY <1>1, <1>2, <1>3
<1>6. ASSUME NEW k \in {"erase", "remove", "part"}
      PROVE  <<k, q, o>> \in E <=> \E y \in old \ new : <<k, q, o>> \in PartsWith(c, p, y)
  BY <1>1, <1>2, <1>4
<1>7. ASSUME NEW y
      PROVE  /\ <<"insert", q, o>> \in Meets(c, p, y, old) <=> q = p /\ o = y /\ y \notin old
             /\ <<"add", q, o>> \in Meets(c, p, y, old) <=> q = p /\ o = y /\ y \notin old
             /\ <<"meet", q, o>> \in Meets(c, p, y, old) <=> o = p /\ q = y /\ y \in Ai(c)!Players
  BY DEF Meets
<1>8. ASSUME NEW y
      PROVE  /\ <<"erase", q, o>> \in PartsWith(c, p, y) <=> q = p /\ o = y
             /\ <<"remove", q, o>> \in PartsWith(c, p, y) <=> q = p /\ o = y
             /\ <<"part", q, o>> \in PartsWith(c, p, y) <=> o = p /\ q = y /\ y \in Ai(c)!Players
  BY DEF PartsWith
<1>9. /\ <<"insert", q, o>> \in E <=> q = p /\ o \in new \ old
      /\ <<"add", q, o>> \in E <=> q = p /\ o \in new \ old
      /\ <<"meet", q, o>> \in E <=> o = p /\ q \in new \cap Ai(c)!Players
  BY <1>5, <1>7
<1>10. /\ <<"erase", q, o>> \in E <=> q = p /\ o \in old \ new
       /\ <<"remove", q, o>> \in E <=> q = p /\ o \in old \ new
       /\ <<"part", q, o>> \in E <=> o = p /\ q \in (old \ new) \cap Ai(c)!Players
  BY <1>6, <1>8
<1> QED
  BY <1>9, <1>10

LEMMA PlayerSortKinds ==
    ASSUME NEW c, NEW p, NEW old, NEW new, NEW more, PlayerSorted(c, p, old, new, more)
    PROVE  \A x \in Elems(more) : x \in Triples(c)
             /\ x[1] \in {"own", "insert", "add", "meet", "wake", "erase", "remove", "part", "done"}
<1>1. \A x \in Elems(more) :
                \/ x = Me("own", p) \/ x = Me("done", p)
                \/ \E y \in new : x \in Meets(c, p, y, old)
                \/ \E y \in old \ new : x \in PartsWith(c, p, y)
  BY DEF PlayerSorted
<1>2. \A y, x : x \in Meets(c, p, y, old) => x[1] \in {"insert", "add", "meet", "wake"}
  BY DEF Meets
<1>3. \A y, x : x \in PartsWith(c, p, y) => x[1] \in {"erase", "remove", "part"}
  BY DEF PartsWith
<1>4. Me("own", p)[1] = "own" /\ Me("done", p)[1] = "done"
  BY DEF Me
<1>5. \A x \in Elems(more) : x \in Triples(c)
  BY DEF PlayerSorted, Elems
<1> QED
  BY <1>1, <1>2, <1>3, <1>4, <1>5

LEMMA NpcSortSays ==
    ASSUME NEW c, NEW n, NEW old, NEW new, NEW more, NpcSorted(c, n, old, new, more),
           NEW E, E = Elems(more)
    PROVE  NpcPairs(n, old, new, E)
<1> SUFFICES ASSUME NEW q, NEW o
             PROVE  /\ <<"insert", q, o>> \in E <=> o = n /\ q \in new \ old
                    /\ <<"add", q, o>> \in E <=> o = n /\ q \in new \ old
                    /\ <<"move", q, o>> \in E <=> o = n /\ q \in new \cap old
                    /\ <<"part", q, o>> \in E <=> o = n /\ q \in old \ new
  BY DEF NpcPairs
<1>1. \A x : x \in E <=>
                \/ x = Me("done", n)
                \/ \E y \in new : x \in NpcMeets(n, y, old)
                \/ \E y \in old \ new : x = <<"part", y, n>>
  BY DEF NpcSorted
<1>2. ASSUME NEW k \in {"insert", "add", "move", "part"}
      PROVE  <<k, q, o>> # Me("done", n)
  BY DEF Me
<1>3. ASSUME NEW y
      PROVE  /\ <<"insert", q, o>> \in NpcMeets(n, y, old) <=> q = y /\ o = n /\ y \notin old
             /\ <<"add", q, o>> \in NpcMeets(n, y, old) <=> q = y /\ o = n /\ y \notin old
             /\ <<"move", q, o>> \in NpcMeets(n, y, old) <=> q = y /\ o = n /\ y \in old
             /\ <<"part", q, o>> \notin NpcMeets(n, y, old)
  BY DEF NpcMeets
<1>4. ASSUME NEW k \in {"insert", "add", "move"}
      PROVE  <<k, q, o>> \in E <=> \E y \in new : <<k, q, o>> \in NpcMeets(n, y, old)
  BY <1>1, <1>2
<1>5. <<"part", q, o>> \in E <=> o = n /\ q \in old \ new
  BY <1>1, <1>2, <1>3
<1> QED
  BY <1>3, <1>4, <1>5

LEMMA NpcSortKinds ==
    ASSUME NEW c, NEW n, NEW old, NEW new, NEW more, NpcSorted(c, n, old, new, more)
    PROVE  \A x \in Elems(more) : x \in Triples(c)
             /\ x[1] \in {"insert", "add", "move", "part", "done"}
<1>1. \A x \in Elems(more) :
                \/ x = Me("done", n)
                \/ \E y \in new : x \in NpcMeets(n, y, old)
                \/ \E y \in old \ new : x = <<"part", y, n>>
  BY DEF NpcSorted
<1>2. \A y, x : x \in NpcMeets(n, y, old) => x[1] \in {"insert", "add", "move"}
  BY DEF NpcMeets
<1>3. Me("done", n)[1] = "done"
  BY DEF Me
<1>4. \A x \in Elems(more) : x \in Triples(c)
  BY DEF NpcSorted, Elems
<1> QED
  BY <1>1, <1>2, <1>3, <1>4

(* The sort is settled: what it has found is what is near.                 *)
LEMMA SortSettles ==
    ASSUME NEW c \in AiServers, AiInv(c), NEW w \in c.workers, NEW more \in Seq(Triples(c)),
           Ai(c)!Go(w, more), Tail(Todo(w)) = <<>>, Ends(more),
           NEW E, E = Elems(more), E \subseteq Later(c, task[w].op),
           UNCHANGED <<pos, state, view>>, NEW M2, NEW O2,
           \A q \in Ai(c)!Players, o \in Ai(c)!Objects : Agrees(c, E, M2, O2, q, o)
    PROVE  Settled(c, w, M2, O2)'
<1>1. task'[w].todo = more \o Tail(task[w].todo) /\ task'[w].op = task[w].op
  BY GoesWith
<1>2. Todo(w)' = more
  <2>1. Todo(w)' = more \o <<>>
    BY <1>1 DEF Todo
  <2> QED
    BY <2>1, ConcatEmptySeq
<1>3. Todo(w)' \in Seq(Triples(c)')
  BY <1>2, ProgramStays
<1>4. Ends(Todo(w))' /\ Elems(Todo(w))' = E
  BY <1>2 DEF Ends, Elems
<1>5. Elems(Todo(w))' \subseteq (Later(c, task[w].op))'
  <2>1. PICK op : op = task[w].op
    OBVIOUS
  <2>2. E \subseteq Later(c, op)
    BY <2>1
  <2>3. E \subseteq Later(c, op)'
    BY <2>2, LaterStays
  <2>4. task'[w].op = op
    BY <1>1, <2>1
  <2> QED
    BY <1>4, <2>3, <2>4
<1>6. Agreed(c, E, M2, O2)'
  <2> SUFFICES ASSUME NEW q \in Ai(c)!Players, NEW o \in Ai(c)!Objects
               PROVE  Agrees(c, E, M2, O2, q, o)'
    BY DEF Agreed, Ai!Players, Ai!Objects, Ai!Npcs
  <2>1. Near(c, q, o)' <=> Near(c, q, o)
    BY NearStays
  <2>2. Agrees(c, E, M2, O2, q, o) /\ SameFor(E, E, q, o) /\ Fewer(M2, M2) /\ Fewer(O2, O2)
    BY DEF SameFor, Fewer
  <2> QED
    BY <2>1, <2>2, PairStays
<1>7. Agreed(c, Elems(Todo(w)), M2, O2)'
  BY <1>4, <1>6
<1> QED
  BY <1>3, <1>4, <1>5, <1>7 DEF Settled

LEMMA LookingSorts ==
    ASSUME NEW c \in AiServers, AiInv(c), Placed(c), NEW w \in c.workers, Ai(c)!Work(w),
           NEW Must, NEW Only, NEW M2, NEW O2, Fewer(M2, Must), Fewer(O2, Only),
           NEW p \in Ai(c)!Players, Looking(c, w, p, c.users + 2, Must, Only)
    PROVE  Settled(c, w, M2, O2)' /\ Ai(c)!Sort(w)
<1>1. PICK P : P = Ai(c)!MoveProgram(p)
  OBVIOUS
<1>2. PICK k : k = c.users + 2
  OBVIOUS
<1>3. P \in Seq(Triples(c)) /\ Len(P) = k /\ P[k] = Me("sort", p)
  BY <1>1, <1>2, MoveByStep
<1>4. c.users \in Nat /\ c.users >= 1 /\ p \in Ai(c)!Objects /\ k \in 1..Len(P) /\ k > 2
      /\ k - 3 = c.users - 1
  BY <1>2, <1>3, Sizes
<1>5. PICK old : old = task[w].old
  OBVIOUS
<1>6. PICK new : new = task[w].new
  OBVIOUS
<1>7. /\ Todo(w) = From(P, k) /\ task[w].op = "move"
      /\ AgreedBut(c, p, Must, Only)
      /\ \A q \in Ai(c)!Players \ {p} : <<q, p>> \in Only /\ p \in view[q] => q \in view[p]
      /\ old = view[p]
      /\ \A o \in Ai(c)!Objects :
            o \in new <=> Near(c, p, o) /\ \E j \in 1..(k - 3) : Ai(c)!Others(p)[j] = o
  <2>1. Looking(c, w, p, k, Must, Only)
    BY <1>2
  <2> QED
    BY <1>1, <1>4, <1>5, <1>6, <2>1 DEF Looking
<1>8. Todo(w) # <<>> /\ Head(Todo(w)) = P[k] /\ Tail(Todo(w)) = <<>>
  BY SMTT(60), <1>3, <1>4, <1>7, FromSteps
<1>9. Ai(c)!Sort(w) /\ Ai(c)!First(w) = p
  <2>1. P[k][1] = "sort" /\ P[k][2] = p
    BY <1>3 DEF Me
  <2> QED
    BY <1>8, <2>1, WorkBy
<1>10. ASSUME NEW o \in Ai(c)!Objects PROVE o \in new <=> Near(c, p, o)
  <2>1. Near(c, p, o) => o # p
    BY DEF Near
  <2>2. o # p => \E j \in 1..(k - 3) : Ai(c)!Others(p)[j] = o
    BY <1>4, OthersOnce
  <2> QED
    BY <1>7, <2>1, <2>2
<1>11. PICK more : Ai(c)!Go(w, more) /\ PlayerSorted(c, p, old, new, more)
  BY <1>5, <1>6, <1>9, PlayerSortIs
<1>12. PICK E : E = Elems(more)
  OBVIOUS
<1>13. more \in Seq(Triples(c)) /\ Ends(more)
  BY <1>11 DEF PlayerSorted
<1>14. E \subseteq Later(c, task[w].op)
  <2>1. \A x \in E : x \in Triples(c)
             /\ x[1] \in {"own", "insert", "add", "meet", "wake", "erase", "remove", "part", "done"}
    BY <1>11, <1>12, PlayerSortKinds
  <2> QED
    BY <1>7, <2>1 DEF Later
<1>15. UNCHANGED <<pos, state, view>>
  BY <1>9 DEF Ai!Sort
<1>16. ASSUME NEW q \in Ai(c)!Players, NEW o \in Ai(c)!Objects
       PROVE  Agrees(c, E, M2, O2, q, o)
  <2>1. /\ <<"insert", q, o>> \in E <=> q = p /\ o \in new \ old
        /\ <<"meet", q, o>> \in E <=> o = p /\ q \in new \cap Ai(c)!Players
        /\ <<"erase", q, o>> \in E <=> q = p /\ o \in old \ new
        /\ <<"part", q, o>> \in E <=> o = p /\ q \in (old \ new) \cap Ai(c)!Players
    <3>1. PlayerPairs(c, p, old, new, E)
      BY <1>11, <1>12, PlayerSortSays
    <3> QED
      BY <3>1 DEF PlayerPairs
  <2>2. q \in Ai(c)!Objects
    BY Sizes
  <2>3. /\ o \in new <=> Near(c, p, o)
        /\ q \in new <=> Near(c, q, p)
    BY <1>4, <1>10, <2>2, NearBoth
  <2>4. (<<q, o>> \in M2 => <<q, o>> \in Must) /\ (<<q, o>> \in O2 => <<q, o>> \in Only)
    BY DEF Fewer
  <2>5. ~Near(c, p, p)
    BY DEF Near
  <2>6. CASE q = p
    <3>1. Comes(E, q, o) => Near(c, q, o)
      BY <2>1, <2>3, <2>5, <2>6 DEF Comes
    <3>2. Parts(E, q, o) => ~Near(c, q, o)
      BY <2>1, <2>3, <2>5, <2>6 DEF Parts
    <3>3. Near(c, q, o) /\ o \notin view[q] => Comes(E, q, o)
      BY <1>7, <2>1, <2>3, <2>6 DEF Comes
    <3>4. ~Near(c, q, o) /\ o \in view[q] => Parts(E, q, o)
      BY <1>7, <2>1, <2>3, <2>6 DEF Parts
    <3> QED
      BY <3>1, <3>2, <3>3, <3>4 DEF Agrees
  <2>7. CASE q # p /\ o = p
    <3>1. Comes(E, q, o) <=> Near(c, q, o)
      BY <2>1, <2>3, <2>7 DEF Comes
    <3>2. Parts(E, q, o) <=> q \in old \ new
      BY <2>1, <2>7 DEF Parts
    <3>3. <<q, o>> \in O2 /\ ~Near(c, q, o) /\ o \in view[q] => q \in old \ new
      BY <1>7, <2>3, <2>4, <2>7
    <3> QED
      BY <2>3, <2>7, <3>1, <3>2, <3>3 DEF Agrees
  <2>8. CASE q # p /\ o # p
    <3>1. Agrees(c, {}, Must, Only, q, o)
      BY <1>7, <2>8 DEF AgreedBut
    <3>2. ~Comes(E, q, o) /\ ~Parts(E, q, o)
      BY <2>1, <2>8 DEF Comes, Parts
    <3>3. ~Comes({}, q, o) /\ ~Parts({}, q, o) /\ ~Called({}, q, o)
      BY DEF Comes, Parts, Called
    <3> QED
      BY <2>4, <3>1, <3>2, <3>3 DEF Agrees
  <2> QED
    BY <2>6, <2>7, <2>8
<1> QED
  BY <1>8, <1>9, <1>11, <1>12, <1>13, <1>14, <1>15, <1>16, SortSettles

LEMMA RoamingSorts ==
    ASSUME NEW c \in AiServers, AiInv(c), Placed(c), NEW w \in c.workers, Ai(c)!Work(w),
           NEW Must, NEW Only, NEW M2, NEW O2, Fewer(M2, Must), Fewer(O2, Only),
           NEW n \in Ai(c)!Npcs, Roaming(c, w, n, c.npcStart, Must, Only)
    PROVE  Settled(c, w, M2, O2)' /\ Ai(c)!Sort(w)
<1>1. PICK P : P = Ai(c)!NpcProgram(n)
  OBVIOUS
<1>2. PICK m : m = c.npcStart
  OBVIOUS
<1>3. PICK k : k = m + m
  OBVIOUS
<1>4. P \in Seq(Triples(c)) /\ Len(P) = k /\ P[k] = Me("sort", n)
  BY <1>1, <1>2, <1>3, NpcByStep
<1>5. /\ m \in Nat /\ m >= 1 /\ n \in Ai(c)!Objects /\ k \in 1..Len(P)
      /\ Ai(c)!Players = 1..(m - 1) /\ n \notin Ai(c)!Players
  <2>1. /\ m \in Nat /\ m >= 1 /\ n \in Ai(c)!Objects
        /\ Ai(c)!Players = 1..(m - 1) /\ n \notin Ai(c)!Players
    BY <1>2, Sizes
  <2> QED
    BY <1>3, <1>4, <2>1
<1>6. PICK old : old = task[w].old
  OBVIOUS
<1>7. PICK new : new = task[w].new
  OBVIOUS
<1>8. /\ Todo(w) = From(P, k) /\ task[w].op = "npc" /\ task[w].id = n
      /\ AgreedBut(c, n, Must, Only)
      /\ \A q \in Ai(c)!Players :
            /\ <<q, n>> \in Only /\ n \in view[q] => q \in old
            /\ <<q, n>> \in Must /\ q \in old => n \in view[q]
            /\ q \in new <=> Near(c, q, n)
  <2>1. Roaming(c, w, n, m, Must, Only) /\ c.npcStart + m = k
    BY <1>2, <1>3
  <2>2. \A q \in Ai(c)!Players : q < m
    BY <1>5
  <2> QED
    BY <1>1, <1>6, <1>7, <2>1, <2>2 DEF Roaming
<1>9. Todo(w) # <<>> /\ Head(Todo(w)) = P[k] /\ Tail(Todo(w)) = <<>>
  BY <1>4, <1>5, <1>8, FromSteps
<1>10. Ai(c)!Sort(w) /\ Ai(c)!First(w) = n
  <2>1. P[k][1] = "sort" /\ P[k][2] = n
    BY <1>4 DEF Me
  <2> QED
    BY <1>9, <2>1, WorkBy
<1>11. PICK more : Ai(c)!Go(w, more) /\ NpcSorted(c, n, old, new, more)
  BY <1>6, <1>7, <1>8, <1>10, NpcSortIs
<1>12. PICK E : E = Elems(more)
  OBVIOUS
<1>13. more \in Seq(Triples(c)) /\ Ends(more)
  BY <1>11 DEF NpcSorted
<1>14. \A x \in E : x \in Triples(c) /\ x[1] \in {"insert", "add", "move", "part", "done"}
  BY <1>11, <1>12, NpcSortKinds
<1>15. E \subseteq Later(c, task[w].op)
  BY <1>8, <1>14 DEF Later
<1>16. UNCHANGED <<pos, state, view>>
  BY <1>10 DEF Ai!Sort
<1>17. ASSUME NEW q \in Ai(c)!Players, NEW o \in Ai(c)!Objects
       PROVE  Agrees(c, E, M2, O2, q, o)
  <2>1. /\ <<"insert", q, o>> \in E <=> o = n /\ q \in new \ old
        /\ <<"part", q, o>> \in E <=> o = n /\ q \in old \ new
    <3>1. NpcPairs(n, old, new, E)
      BY <1>11, <1>12, NpcSortSays
    <3> QED
      BY <3>1 DEF NpcPairs
  <2>2. <<"meet", q, o>> \notin E /\ <<"erase", q, o>> \notin E
    <3>1. <<"meet", q, o>>[1] = "meet" /\ <<"erase", q, o>>[1] = "erase"
      OBVIOUS
    <3> QED
      BY <1>14, <3>1
  <2>3. Comes(E, q, o) <=> o = n /\ q \in new \ old
    BY <2>1, <2>2 DEF Comes
  <2>4. Parts(E, q, o) <=> o = n /\ q \in old \ new
    BY <2>1, <2>2 DEF Parts
  <2>5. (<<q, o>> \in M2 => <<q, o>> \in Must) /\ (<<q, o>> \in O2 => <<q, o>> \in Only)
    BY DEF Fewer
  <2>6. CASE o = n
    BY <1>8, <2>3, <2>4, <2>5, <2>6 DEF Agrees
  <2>7. CASE o # n
    <3>1. Agrees(c, {}, Must, Only, q, o)
      BY <1>5, <1>8, <2>7 DEF AgreedBut
    <3>2. ~Comes({}, q, o) /\ ~Parts({}, q, o) /\ ~Called({}, q, o)
      BY DEF Comes, Parts, Called
    <3> QED
      BY <2>3, <2>4, <2>5, <2>7, <3>1, <3>2 DEF Agrees
  <2> QED
    BY <2>6, <2>7
<1> QED
  BY <1>9, <1>10, <1>11, <1>12, <1>13, <1>15, <1>16, <1>17, SortSettles

(* Every step of a worker but its last: whatever it is at, it goes on to   *)
(* be at it, or has sorted or entered.                                     *)
KeepsPairs(c, w, Must, Only, M2, O2) ==
    /\ FreesWell(c, w, O2)
    /\ IF Ai(c)!At(w, "step") /\ Ai(c)!First(w) \in Ai(c)!Players
       THEN StepsWell(Ai(c)!First(w), Must, Only, M2, O2)
       ELSE Fewer(M2, Must) /\ Fewer(O2, Only)

LEMMA FairWorks ==
    ASSUME NEW c \in AiServers, AiInv(c), Placed(c), NEW w \in c.workers,
           Ai(c)!Work(w), ~ Ai(c)!Finish(w),
           Ai(c)!SendFails(w) => state[Ai(c)!First(w)] = "FREE",
           NEW Must, NEW Only, NEW M2, NEW O2, KeepsPairs(c, w, Must, Only, M2, O2),
           Fair(c, w, Must, Only)
    PROVE  Fair(c, w, M2, O2)'
<1>1. Todo(w) # <<>>
  BY WorksOn DEF Todo
<1>2. /\ \A kind : Ai(c)!At(w, kind) <=> Head(Todo(w))[1] = kind
      /\ Ai(c)!First(w) = Head(Todo(w))[2]
  BY <1>1, AiNow DEF Todo
<1>3. c.users \in Nat /\ c.npcStart \in Nat /\ c.npcStart >= 1
      /\ Ai(c)!Players = 1..(c.npcStart - 1) /\ c.users + 2 \in Nat /\ c.users + 1 \in Nat
      /\ (Ai(c)!Players # {} => c.users >= 1)
  BY Sizes
<1>4. CASE Settled(c, w, Must, Only)
  <2>1. Head(Todo(w)) \in Later(c, task[w].op)
    BY <1>1, <1>4, SettledHand
  <2>2. ~ Ai(c)!At(w, "step")
    BY <1>2, <2>1 DEF Later
  <2>3. Settled(c, w, M2, O2)'
    BY <1>4, <2>2, SettledWorks DEF KeepsPairs
  <2> QED
    BY <2>3 DEF Fair
<1>5. ASSUME NEW p \in Ai(c)!Players, NEW k \in 1..3, Entering(c, w, p, k, Must, Only)
      PROVE  Fair(c, w, M2, O2)'
  <2>1. ~ Ai(c)!At(w, "step")
    <3>1. PICK P : P = Ai(c)!LoginProgram(p)
      OBVIOUS
    <3>2. /\ P \in Seq(Triples(c)) /\ Len(P) = c.users + 4
          /\ P[1] = Me("place", p) /\ P[2] = Me("ok", p) /\ P[3] = Me("enter", p)
      BY <3>1, LoginByStep
    <3>3. Todo(w) = From(P, k)
      BY <1>5, <3>1 DEF Entering
    <3>9. k \in 1..Len(P)
      BY SMTT(60), <1>3, <3>2
    <3>4. Head(Todo(w)) = P[k]
      BY <1>3, <3>2, <3>3, <3>9, FromSteps
    <3>5. P[k][1] # "step"
      BY <3>2 DEF Me
    <3> QED
      BY <1>2, <3>4, <3>5
  <2> QED
    BY <1>5, <2>1, EnteringWorks DEF KeepsPairs
<1>6. ASSUME NEW p \in Ai(c)!Players, Stepping(c, w, p, Must, Only)
      PROVE  Fair(c, w, M2, O2)'
  <2>1. Ai(c)!At(w, "step") /\ Ai(c)!First(w) = p
    <3>1. PICK P : P = Ai(c)!MoveProgram(p)
      OBVIOUS
    <3>2. P \in Seq(Triples(c)) /\ Len(P) = c.users + 2 /\ P[1] = Me("step", p)
      BY <3>1, MoveByStep
    <3>3. Todo(w) = From(P, 1)
      BY <1>6, <3>1 DEF Stepping
    <3>4. Head(Todo(w)) = P[1]
      BY SMTT(60), <1>3, <3>2, <3>3, FromSteps
    <3>5. P[1][1] = "step" /\ P[1][2] = p
      BY <3>2 DEF Me
    <3> QED
      BY <1>2, <3>4, <3>5
  <2>2. StepsWell(p, Must, Only, M2, O2)
    BY <2>1 DEF KeepsPairs
  <2> QED
    BY <1>6, <2>2, SteppingWorks
<1>7. ASSUME NEW p \in Ai(c)!Players, NEW k \in 2..(c.users + 2), Looking(c, w, p, k, Must, Only)
      PROVE  Fair(c, w, M2, O2)'
  <2>1. ~ Ai(c)!At(w, "step")
    <3>1. PICK P : P = Ai(c)!MoveProgram(p)
      OBVIOUS
    <3>2. /\ P \in Seq(Triples(c)) /\ Len(P) = c.users + 2
          /\ P[2] = Me("copy", p)
          /\ \A j \in 1..(c.users - 1) : P[2 + j] = <<"look", p, Ai(c)!Others(p)[j]>>
          /\ P[c.users + 2] = Me("sort", p)
      BY <3>1, MoveByStep
    <3>3. Todo(w) = From(P, k)
      BY <1>7, <3>1 DEF Looking
    <3>4. k \in 1..Len(P)
      BY <1>3, <3>2
    <3>5. Head(Todo(w)) = P[k]
      BY <3>2, <3>3, <3>4, FromSteps
    <3>6. P[k][1] # "step"
      <4>1. CASE k = 2 \/ k = c.users + 2
        BY <3>2, <4>1 DEF Me
      <4>2. CASE ~ (k = 2 \/ k = c.users + 2)
        <5>1. k - 2 \in 1..(c.users - 1) /\ 2 + (k - 2) = k
          BY SMTT(60), <1>3, <4>2
        <5>2. P[2 + (k - 2)] = <<"look", p, Ai(c)!Others(p)[k - 2]>>
          BY <3>2, <5>1
        <5> QED
          BY <5>1, <5>2
      <4> QED
        BY <4>1, <4>2
    <3> QED
      BY <1>2, <3>5, <3>6
  <2>2. Fewer(M2, Must) /\ Fewer(O2, Only)
    BY <2>1 DEF KeepsPairs
  <2>3. CASE k = c.users + 2
    <3>1. Looking(c, w, p, c.users + 2, Must, Only)
      BY <1>7, <2>3
    <3>2. Settled(c, w, M2, O2)'
      BY <2>2, <3>1, LookingSorts
    <3> QED
      BY <3>2 DEF Fair
  <2>4. CASE k # c.users + 2
    <3>1. k \in 2..(c.users + 1)
      BY <1>3, <2>4
    <3> QED
      BY <1>7, <2>2, <3>1, LookingWorks
  <2> QED
    BY <2>3, <2>4
<1>8. ASSUME NEW n \in Ai(c)!Npcs, NEW k \in 1..c.npcStart,
             Waiting(c, w, n, k, Must, Only) \/ Roaming(c, w, n, k, Must, Only)
      PROVE  Fair(c, w, M2, O2)'
  <2>1. Fewer(M2, Must) /\ Fewer(O2, Only)
    <3>1. ~ (Ai(c)!At(w, "step") /\ Ai(c)!First(w) \in Ai(c)!Players)
      <4>1. task[w].id = n /\ n \notin Ai(c)!Players
        BY <1>8, Sizes DEF Waiting, Roaming
      <4>2. Ai(c)!At(w, "step") => Ai(c)!First(w) = task[w].id
        <5>1. SUFFICES ASSUME Ai(c)!At(w, "step") PROVE Ai(c)!First(w) = task[w].id
          OBVIOUS
        <5>2. <<"step", Ai(c)!First(w), Ai(c)!Second(w)>> \in AiInstr(c, task[w].id)
          BY <1>1, <5>1, AiHand DEF Todo
        <5> QED
          BY <5>2 DEF AiInstr
      <4> QED
        BY <4>1, <4>2
    <3> QED
      BY <3>1 DEF KeepsPairs
  <2>2. CASE Waiting(c, w, n, k, Must, Only)
    BY <2>1, <2>2, WaitingWorks
  <2>3. CASE Roaming(c, w, n, k, Must, Only) /\ k = c.npcStart
    <3>1. Roaming(c, w, n, c.npcStart, Must, Only)
      BY <2>3
    <3>2. Settled(c, w, M2, O2)'
      BY <2>1, <3>1, RoamingSorts
    <3> QED
      BY <3>2 DEF Fair
  <2>4. CASE Roaming(c, w, n, k, Must, Only) /\ k # c.npcStart
    <3>1. k \in Ai(c)!Players
      BY <1>3, <2>4
    <3> QED
      BY <2>1, <2>4, <3>1, RoamingWorks
  <2> QED
    BY <1>8, <2>2, <2>3, <2>4
<1> QED
  BY <1>4, <1>5, <1>6, <1>7, <1>8 DEF Fair

(* A handler that has neither entered nor sorted is at an instruction that *)
(* comes before that.                                                      *)
Early == {"place", "ok", "enter", "step", "copy", "look", "sort"}

LEMMA FairEarly ==
    ASSUME NEW c \in AiServers, NEW w, NEW Must, NEW Only,
           Fair(c, w, Must, Only), ~ Settled(c, w, Must, Only)
    PROVE  Todo(w) # <<>> /\ Head(Todo(w))[1] \in Early
<1>1. c.users \in Nat /\ c.npcStart \in Nat /\ c.npcStart >= 1
      /\ Ai(c)!Players = 1..(c.npcStart - 1) /\ (Ai(c)!Players # {} => c.users >= 1)
  BY Sizes
<1>2. ASSUME NEW P, P \in Seq(Triples(c)), NEW k \in 1..Len(P), Todo(w) = From(P, k),
             P[k][1] \in Early
      PROVE  Todo(w) # <<>> /\ Head(Todo(w))[1] \in Early
  BY <1>2, FromSteps
<1>3. ASSUME NEW p \in Ai(c)!Players, NEW k \in 1..3, Entering(c, w, p, k, Must, Only)
      PROVE  Todo(w) # <<>> /\ Head(Todo(w))[1] \in Early
  <2>1. PICK P : P = Ai(c)!LoginProgram(p)
    OBVIOUS
  <2>2. /\ P \in Seq(Triples(c)) /\ Len(P) = c.users + 4
        /\ P[1] = Me("place", p) /\ P[2] = Me("ok", p) /\ P[3] = Me("enter", p)
    BY <2>1, LoginByStep
  <2>3. Todo(w) = From(P, k) /\ k \in 1..Len(P)
    BY SMTT(60), <1>1, <1>3, <2>1, <2>2 DEF Entering
  <2>4. P[k][1] \in Early
    BY <2>2 DEF Me, Early
  <2> QED
    BY <1>2, <2>2, <2>3, <2>4
<1>4. ASSUME NEW p \in Ai(c)!Players, NEW k \in 1..(c.users + 2), Todo(w) = From(Ai(c)!MoveProgram(p), k)
      PROVE  Todo(w) # <<>> /\ Head(Todo(w))[1] \in Early
  <2>1. PICK P : P = Ai(c)!MoveProgram(p)
    OBVIOUS
  <2>2. /\ P \in Seq(Triples(c)) /\ Len(P) = c.users + 2
        /\ P[1] = Me("step", p) /\ P[2] = Me("copy", p)
        /\ \A j \in 1..(c.users - 1) : P[2 + j] = <<"look", p, Ai(c)!Others(p)[j]>>
        /\ P[c.users + 2] = Me("sort", p)
    BY <2>1, MoveByStep
  <2>3. Todo(w) = From(P, k) /\ k \in 1..Len(P)
    BY <1>4, <2>1, <2>2
  <2>4. P[k][1] \in Early
    <3>1. CASE k = 1 \/ k = 2 \/ k = c.users + 2
      BY <2>2, <3>1 DEF Me, Early
    <3>2. CASE ~ (k = 1 \/ k = 2 \/ k = c.users + 2)
      <4>1. k - 2 \in 1..(c.users - 1) /\ 2 + (k - 2) = k
        BY <1>1, <3>2
      <4>2. P[2 + (k - 2)] = <<"look", p, Ai(c)!Others(p)[k - 2]>>
        BY <2>2, <4>1
      <4> QED
        BY <4>1, <4>2 DEF Early
    <3> QED
      BY <3>1, <3>2
  <2> QED
    BY <1>2, <2>2, <2>3, <2>4
<1>5. ASSUME NEW n \in Ai(c)!Npcs, NEW k \in 1..c.npcStart, NEW j \in {k, c.npcStart + k},
             Todo(w) = From(Ai(c)!NpcProgram(n), j)
      PROVE  Todo(w) # <<>> /\ Head(Todo(w))[1] \in Early
  <2>1. PICK P : P = Ai(c)!NpcProgram(n)
    OBVIOUS
  <2>2. PICK m : m = c.npcStart
    OBVIOUS
  <2>3. /\ P \in Seq(Triples(c)) /\ Len(P) = m + m
        /\ \A i \in 1..(m - 1) : P[i] = <<"look", n, i>> /\ P[m + i] = <<"look", n, i>>
        /\ P[m] = Me("step", n) /\ P[m + m] = Me("sort", n)
    BY <2>1, <2>2, NpcByStep
  <2>4. Todo(w) = From(P, j) /\ j \in 1..Len(P) /\ m \in Nat /\ k \in 1..m /\ j \in {k, m + k}
    <3>1. m \in Nat /\ k \in 1..m /\ j \in {k, m + k}
      BY <1>1, <1>5, <2>2
    <3>2. j \in 1..(m + m)
      BY <3>1
    <3> QED
      BY <1>5, <2>1, <2>3, <3>1, <3>2
  <2>5. P[j][1] \in Early
    <3>1. CASE k = m
      BY <2>3, <2>4, <3>1 DEF Me, Early
    <3>2. CASE k # m
      <4>1. k \in 1..(m - 1)
        BY <2>4, <3>2
      <4>2. P[k] = <<"look", n, k>> /\ P[m + k] = <<"look", n, k>>
        BY <2>3, <4>1
      <4> QED
        BY <2>4, <4>2 DEF Early
    <3> QED
      BY <3>1, <3>2
  <2> QED
    BY <1>2, <2>3, <2>4, <2>5
<1>6. CASE \E p \in Ai(c)!Players : Stepping(c, w, p, Must, Only)
  <2>1. PICK p \in Ai(c)!Players : Stepping(c, w, p, Must, Only)
    BY <1>6
  <2>2. PICK k : k = 1
    OBVIOUS
  <2>3. k \in 1..(c.users + 2) /\ Todo(w) = From(Ai(c)!MoveProgram(p), k)
    BY <1>1, <2>1, <2>2 DEF Stepping
  <2> QED
    BY <1>4, <2>3
<1>7. CASE \E p \in Ai(c)!Players : \E k \in 2..(c.users + 2) : Looking(c, w, p, k, Must, Only)
  <2>1. PICK p \in Ai(c)!Players, k \in 2..(c.users + 2) : Looking(c, w, p, k, Must, Only)
    BY <1>7
  <2>2. k \in 1..(c.users + 2) /\ Todo(w) = From(Ai(c)!MoveProgram(p), k)
    BY <1>1, <2>1 DEF Looking
  <2> QED
    BY <1>4, <2>2
<1>8. CASE \E n \in Ai(c)!Npcs : \E k \in 1..c.npcStart :
               Waiting(c, w, n, k, Must, Only) \/ Roaming(c, w, n, k, Must, Only)
  <2>1. PICK n \in Ai(c)!Npcs, k \in 1..c.npcStart :
               Waiting(c, w, n, k, Must, Only) \/ Roaming(c, w, n, k, Must, Only)
    BY <1>8
  <2>2. \/ Todo(w) = From(Ai(c)!NpcProgram(n), k)
        \/ Todo(w) = From(Ai(c)!NpcProgram(n), c.npcStart + k)
    BY <2>1 DEF Waiting, Roaming
  <2> QED
    BY <1>5, <2>2
<1> QED
  BY <1>3, <1>6, <1>7, <1>8 DEF Fair

(* A handler that is at its end, or a worker without one, leaves nothing   *)
(* to be done to the lists.                                                *)
LEMMA FairAtEnd ==
    ASSUME NEW c \in AiServers, NEW w, NEW Must, NEW Only, Fair(c, w, Must, Only),
           Todo(w) # <<>> => Head(Todo(w))[1] = "done"
    PROVE  /\ Agreed(c, {}, Must, Only)
           /\ Todo(w) # <<>> => Elems(Todo(w)) = {Head(Todo(w))}
<1>1. Settled(c, w, Must, Only)
  BY FairEarly DEF Early
<1>2. PICK E : E = Elems(Todo(w))
  OBVIOUS
<1>3. Todo(w) # <<>> => E = {Head(Todo(w))}
  <2> SUFFICES ASSUME Todo(w) # <<>> PROVE E = {Head(Todo(w))}
    OBVIOUS
  <2>1. Tail(Todo(w)) = <<>> /\ E = {Head(Todo(w))} \cup Elems(Tail(Todo(w)))
    BY <1>1, <1>2, SettledHand
  <2> QED
    BY <2>1, ElemsNone
<1>4. Todo(w) = <<>> => E = {}
  BY <1>2, ElemsNone
<1>5. \A i \in E : i[1] = "done"
  BY <1>3, <1>4
<1>6. ASSUME NEW q \in Ai(c)!Players, NEW o \in Ai(c)!Objects
      PROVE  Agrees(c, {}, Must, Only, q, o)
  <2>1. Agrees(c, E, Must, Only, q, o)
    BY <1>1, <1>2 DEF Settled, Agreed
  <2>2. /\ <<"insert", q, o>>[1] = "insert" /\ <<"meet", q, o>>[1] = "meet"
        /\ <<"erase", q, o>>[1] = "erase" /\ <<"part", q, o>>[1] = "part"
        /\ <<"visit", q, o>>[1] = "visit" /\ <<"visit", o, q>>[1] = "visit"
    OBVIOUS
  <2>3. ~ Comes(E, q, o) /\ ~ Parts(E, q, o) /\ ~ Called(E, q, o)
    BY <1>5, <2>2 DEF Comes, Parts, Called
  <2> QED
    BY <2>1, <2>3 DEF Agrees, Comes, Parts, Called
<1> QED
  BY <1>2, <1>3, <1>6 DEF Agreed

-----------------------------------------------------------------------------
(* AiServer: a worker begins a handler while the lists are as they should  *)
(* be.                                                                     *)
NpcsIn(c) == \A n \in Ai(c)!Npcs : state[n] = "INGAME"

(* What a disconnect begins with.                                          *)
Leaves(c, p, todo) ==
    /\ todo \in Seq(Triples(c)) /\ Ends(todo)
    /\ Elems(todo) = {Me("free", p), Me("done", p)}

LEMMA QuitByStep ==
    ASSUME NEW c \in AiServers, NEW p \in Ai(c)!Players, NEW error \in BOOLEAN
    PROVE  /\ Leaves(c, p, (IF error THEN Ai(c)!DisconnectProgram(p) ELSE <<>>)
                             \o Ai(c)!DisconnectProgram(p) \o << <<"done", p, p>> >>)
           /\ Leaves(c, p, Ai(c)!DisconnectProgram(p)
                             \o Ai(c)!DisconnectProgram(p) \o << <<"done", p, p>> >>)
<1> DEFINE f == Me("free", p)
           d == Me("done", p)
           F == <<f>>
           D == <<d>>
           S == Triples(c)
<1>1. f \in S /\ d \in S /\ f[1] # "done"
  BY Sizes DEF Me, Triples, AiOps
<1>2. Ai(c)!DisconnectProgram(p) = F /\ D = << <<"done", p, p>> >>
  BY DEF Ai!DisconnectProgram, Me
<1> HIDE DEF f, d, S
<1>3. /\ F \in Seq(S) /\ Elems(F) = {f} /\ D \in Seq(S) /\ Elems(D) = {d}
      /\ <<>> \in Seq(S) /\ Elems(<<>>) = {}
  <2>1. <<f>> \in Seq(S) /\ Elems(<<f>>) = {f}
    BY <1>1, ElemsOne
  <2>2. <<d>> \in Seq(S) /\ Elems(<<d>>) = {d}
    BY <1>1, ElemsOne
  <2>3. <<>> \in Seq(S) /\ Elems(<<>>) = {}
    BY ElemsNone
  <2> QED
    BY <2>1, <2>2, <2>3
<1>4. Ends(D)
  BY <1>1, EndsShort
<1> HIDE DEF F, D
<1>5. ASSUME NEW X \in Seq(S), Elems(X) \subseteq {f}
      PROVE  Leaves(c, p, X \o F \o D)
  <2>1. X \o F \in Seq(S) /\ Elems(X \o F) = {f}
    BY <1>3, <1>5, ElemsJoin
  <2>2. PICK Y : Y = X \o F
    OBVIOUS
  <2>3. Y \o D \in Seq(S) /\ Elems(Y \o D) = {f, d}
    <3>1. Y \in Seq(S) /\ Elems(Y) = {f}
      BY <2>1, <2>2
    <3>2. Y \o D \in Seq(S) /\ Elems(Y \o D) = Elems(Y) \cup Elems(D)
      BY <1>3, <3>1, ElemsJoin
    <3> QED
      BY <1>3, <3>1, <3>2
  <2>4. Ends(Y \o D)
    BY <1>1, <1>3, <1>4, <2>1, <2>2, EndsJoin
  <2> QED
    BY <2>2, <2>3, <2>4 DEF Leaves, f, d, S
<1>6. PICK X : X = IF error THEN F ELSE <<>>
  OBVIOUS
<1>7. X \in Seq(S) /\ Elems(X) \subseteq {f}
  BY <1>3, <1>6
<1>8. Leaves(c, p, X \o F \o D) /\ Leaves(c, p, F \o F \o D)
  BY <1>3, <1>5, <1>7
<1> QED
  BY <1>2, <1>6, <1>8

LEMMA FromFirst ==
    ASSUME NEW S, NEW P \in Seq(S)
    PROVE  From(P, 1) = P
<1>1. /\ From(P, 1) \in Seq(S) /\ Len(From(P, 1)) = Len(P)
      /\ \A i \in 1..Len(P) : From(P, 1)[i] = P[i]
  BY DEF From
<1> QED
  BY <1>1

LEMMA FairBegins ==
    ASSUME NEW c \in AiServers, AiInv(c), NpcsIn(c), NEW w \in c.workers,
           NEW Must, NEW Only, NEW M2, NEW O2, Fewer(M2, Must), Fewer(O2, Only),
           Agreed(c, {}, Must, Only), UNCHANGED <<state, pos, view>>,
           NEW op, NEW a, NEW todo, Ai(c)!Begin(w, op, a, todo),
           \/ /\ op = "login" /\ a \in Ai(c)!Players /\ state[a] = "CONNECTED"
              /\ todo = Ai(c)!LoginProgram(a)
           \/ /\ op = "move" /\ a \in Ai(c)!Players /\ state[a] = "INGAME"
              /\ todo = Ai(c)!MoveProgram(a)
           \/ op = "npc" /\ a \in Ai(c)!Npcs /\ todo = Ai(c)!NpcProgram(a)
           \/ op \in {"quit", "abort"} /\ a \in Ai(c)!Players /\ Leaves(c, a, todo)
    PROVE  Fair(c, w, M2, O2)'
<1>1. /\ task'[w].op = op /\ task'[w].id = a /\ task'[w].todo = todo
      /\ task'[w].old = {} /\ task'[w].new = {}
  <2>1. task \in [c.workers -> AiHandlers(c)]
    BY DEF AiInv, AiType
  <2> QED
    BY <2>1 DEF Ai!Begin, Ai!Idle
<1>2. Todo(w)' = todo
  BY <1>1 DEF Todo
<1>3. \A q \in Ai(c)!Players, o \in Ai(c)!Objects : Near(c, q, o)' <=> Near(c, q, o)
  BY NearStays
<1>4. Agreed(c, {}, M2, O2)'
  BY <1>3, AgreedStays
<1>5. CASE op = "login" /\ a \in Ai(c)!Players /\ state[a] = "CONNECTED"
              /\ todo = Ai(c)!LoginProgram(a)
  <2>1. PICK k : k = 1
    OBVIOUS
  <2>2. From(Ai(c)!LoginProgram(a), k)' = todo
    BY <1>5, <2>1, LoginByStep, FromFirst, ProgramStays
  <2>3. k \in 1..3 /\ Entering(c, w, a, k, M2, O2)'
    BY <1>1, <1>2, <1>4, <1>5, <2>1, <2>2 DEF Entering
  <2>4. a \in Ai(c)!Players'
    BY <1>5, ProgramStays
  <2> QED
    BY <2>3, <2>4 DEF Fair
<1>6. CASE op = "move" /\ a \in Ai(c)!Players /\ state[a] = "INGAME"
              /\ todo = Ai(c)!MoveProgram(a)
  <2>1. PICK k : k = 1
    OBVIOUS
  <2>2. From(Ai(c)!MoveProgram(a), k)' = todo
    BY <1>6, <2>1, MoveByStep, FromFirst, ProgramStays
  <2>3. Stepping(c, w, a, M2, O2)'
    BY <1>1, <1>2, <1>4, <1>6, <2>1, <2>2 DEF Stepping
  <2>4. a \in Ai(c)!Players'
    BY <1>6, ProgramStays
  <2> QED
    BY <2>3, <2>4 DEF Fair
<1>7. CASE op = "npc" /\ a \in Ai(c)!Npcs /\ todo = Ai(c)!NpcProgram(a)
  <2>1. PICK k : k = 1
    OBVIOUS
  <2>2. From(Ai(c)!NpcProgram(a), k)' = todo
    BY <1>7, <2>1, NpcByStep, FromFirst, ProgramStays
  <2>3. \A p \in Ai(c)!Players : ~ p < k
    BY <2>1, Sizes
  <2>4. \A p \in Ai(c)!Players' : p \in task'[w].new <=> Near(c, p, a)' /\ p < k
    BY <1>1, <2>3, ProgramStays
  <2>5. state'[a] = "INGAME"
    BY <1>7 DEF NpcsIn
  <2>6. Waiting(c, w, a, k, M2, O2)'
    BY <1>1, <1>2, <1>4, <1>7, <2>2, <2>4, <2>5 DEF Waiting
  <2>7. a \in Ai(c)!Npcs' /\ k \in 1..c.npcStart
    BY <1>7, <2>1, Sizes, ProgramStays
  <2> QED
    BY <2>6, <2>7 DEF Fair
<1>8. CASE op \in {"quit", "abort"} /\ a \in Ai(c)!Players /\ Leaves(c, a, todo)
  <2>1. todo \in Seq(Triples(c)) /\ Ends(todo) /\ Elems(todo) = {Me("free", a), Me("done", a)}
    BY <1>8 DEF Leaves
  <2>2. PICK E : E = Elems(todo)
    OBVIOUS
  <2>3. E \subseteq Later(c, task[w].op)'
    <3>1. a \in Ai(c)!Objects
      BY <1>8, Sizes
    <3>2. Me("free", a) \in Triples(c)' /\ Me("done", a) \in Triples(c)'
      BY <3>1, ProgramStays DEF Me, Triples, AiOps
    <3>3. Me("free", a) \in Later(c, task[w].op)' /\ Me("done", a) \in Later(c, task[w].op)'
      BY <1>1, <1>8, <3>2 DEF Later, Me
    <3> QED
      BY <2>1, <2>2, <3>3
  <2>4. Agreed(c, E, M2, O2)'
    <3>1. ASSUME NEW q \in Ai(c)!Players, NEW o \in Ai(c)!Objects
          PROVE  SameFor({}, E, q, o)
      <4>1. \A i \in E : i[1] \in {"free", "done"}
        BY <2>1, <2>2 DEF Me
      <4>2. /\ <<"insert", q, o>>[1] = "insert" /\ <<"meet", q, o>>[1] = "meet"
            /\ <<"erase", q, o>>[1] = "erase" /\ <<"part", q, o>>[1] = "part"
            /\ <<"visit", q, o>>[1] = "visit" /\ <<"visit", o, q>>[1] = "visit"
        OBVIOUS
      <4> QED
        BY <4>1, <4>2 DEF SameFor, Comes, Parts, Called
    <3>2. ASSUME NEW q \in Ai(c)!Players, NEW o \in Ai(c)!Objects
          PROVE  Agrees(c, E, M2, O2, q, o)'
      <4>1. Agrees(c, {}, Must, Only, q, o)
        BY DEF Agreed
      <4> QED
        BY <1>3, <3>1, <4>1, PairStays
    <3> QED
      BY <3>2 DEF Agreed, Ai!Players, Ai!Objects, Ai!Npcs
  <2>5. Todo(w)' \in Seq(Triples(c)') /\ Ends(Todo(w))' /\ Elems(Todo(w))' = E
    <3>1. Ends(Todo(w))' /\ Elems(Todo(w))' = E
      BY <1>2, <2>1, <2>2 DEF Ends, Elems
    <3> QED
      BY <1>2, <2>1, <3>1, ProgramStays
  <2>6. Settled(c, w, M2, O2)'
    BY <2>3, <2>4, <2>5 DEF Settled
  <2> QED
    BY <2>6 DEF Fair
<1> QED
  BY <1>5, <1>6, <1>7, <1>8

(* Nobody comes into the game or leaves it, and nothing moves: a client is *)
(* accepted, at most.                                                      *)
LEMMA FairStays ==
    ASSUME NEW c \in AiServers, AiInv(c), NEW w \in c.workers,
           NEW Must, NEW Only, NEW M2, NEW O2, Fewer(M2, Must), Fewer(O2, Only),
           Fair(c, w, Must, Only), UNCHANGED <<pos, view, task>>,
           \A o \in Ai(c)!Objects : /\ state'[o] = "INGAME" <=> state[o] = "INGAME"
                                    /\ state[o] # "FREE" => state'[o] = state[o],
           \/ task[w].op \in {"quit", "abort"}
           \/ \A i \in Elems(Todo(w)) : i[1] = "free" => state'[i[2]] = state[i[2]]
    PROVE  Fair(c, w, M2, O2)'
<1>2. \A o \in Ai(c)!Objects : /\ state'[o] = "INGAME" <=> state[o] = "INGAME"
                               /\ state[o] # "FREE" => state'[o] = state[o]
  OBVIOUS
<1>3. Ai(c)!Players \subseteq Ai(c)!Objects /\ Ai(c)!Npcs \subseteq Ai(c)!Objects
  BY Sizes
<1>4. \A q \in Ai(c)!Objects, o \in Ai(c)!Objects : Near(c, q, o)' <=> Near(c, q, o)
  BY <1>2, NearStays
<1>5. \A E : Agreed(c, E, Must, Only) => Agreed(c, E, M2, O2)'
  BY <1>3, <1>4, AgreedStays
<1>6. \A a : AgreedBut(c, a, Must, Only) => AgreedBut(c, a, M2, O2)'
  <2>1. ASSUME NEW a, AgreedBut(c, a, Must, Only) PROVE AgreedBut(c, a, M2, O2)'
    BY <1>3, <1>4, <2>1, AgreedButStays DEF Fewer
  <2> QED
    BY <2>1
<1>7. Todo(w)' = Todo(w) /\ task'[w] = task[w]
  BY DEF Todo
<1>8. CASE Settled(c, w, Must, Only)
  <2>1. PICK E : E = Elems(Todo(w))
    OBVIOUS
  <2>2. PICK op : op = task[w].op
    OBVIOUS
  <2>3. E \subseteq Later(c, op) /\ (op \in {"quit", "abort"} \/ \A i \in E : i[1] = "free" => state'[i[2]] = state[i[2]])
    BY <1>8, <2>1, <2>2 DEF Settled
  <2>4. E \subseteq Later(c, op)'
    <3> SUFFICES ASSUME NEW i \in E PROVE i \in Later(c, op)'
      OBVIOUS
    <3>1. i \in Later(c, op) /\ i \in Triples(c) /\ i \in Triples(c)'
      BY <2>3, ProgramStays DEF Later
    <3>2. i[2] \in Ai(c)!Objects
      BY <3>1 DEF Triples
    <3>3. state[i[2]] = "INGAME" => state'[i[2]] = "INGAME"
      BY <1>2, <3>2
    <3> QED
      BY <2>3, <3>1, <3>3 DEF Later
  <2>5. Todo(w)' \in Seq(Triples(c)') /\ Ends(Todo(w))' /\ Elems(Todo(w))' = E
    <3>1. Ends(Todo(w))' /\ Elems(Todo(w))' = E
      BY <1>7, <1>8, <2>1 DEF Ends, Elems, Settled
    <3> QED
      BY <1>7, <1>8, <3>1, ProgramStays DEF Settled
  <2>6. Agreed(c, E, M2, O2)'
    BY <1>5, <1>8, <2>1 DEF Settled
  <2>7. (Elems(Todo(w)) \subseteq Later(c, task[w].op))'
    BY <1>7, <2>2, <2>4, <2>5
  <2> QED
    BY <2>5, <2>6, <2>7 DEF Settled, Fair
<1>9. ASSUME NEW q \in Ai(c)!Players, NEW k \in 1..3, Entering(c, w, q, k, Must, Only)
      PROVE  Fair(c, w, M2, O2)'
  <2>1. Entering(c, w, q, k, M2, O2)'
    BY <1>2, <1>3, <1>5, <1>7, <1>9, ProgramStays DEF Entering
  <2> QED
    BY <2>1, ProgramStays DEF Fair
<1>10. ASSUME NEW q \in Ai(c)!Players, Stepping(c, w, q, Must, Only)
       PROVE  Fair(c, w, M2, O2)'
  <2>1. PICK k : k = 1
    OBVIOUS
  <2>2. From(Ai(c)!MoveProgram(q), k)' = From(Ai(c)!MoveProgram(q), k)
    BY ProgramStays
  <2>3. Stepping(c, w, q, M2, O2)'
    BY <1>2, <1>3, <1>5, <1>7, <1>10, <2>1, <2>2 DEF Stepping
  <2> QED
    BY <2>3, ProgramStays DEF Fair
<1>11. ASSUME NEW q \in Ai(c)!Players, NEW k \in 2..(c.users + 2),
              Looking(c, w, q, k, Must, Only)
       PROVE  Fair(c, w, M2, O2)'
  <2>1. q \in Ai(c)!Objects /\ state'[q] = "INGAME"
    BY <1>2, <1>3, <1>11 DEF Looking
  <2>2. \A o \in Ai(c)!Objects : Near(c, q, o)' <=> Near(c, q, o)
    BY <1>4, <2>1
  <2>3. (\A r \in Ai(c)!Players \ {q} : <<r, q>> \in O2 /\ q \in view[r] => r \in view[q])'
    <3>1. \A r \in Ai(c)!Players \ {q} : <<r, q>> \in O2 /\ q \in view[r] => r \in view[q]
      BY <1>11 DEF Looking, Fewer
    <3> QED
      BY <3>1, ProgramStays
  <2>4. (\A o \in Ai(c)!Objects :
            o \in task[w].new
              <=> Near(c, q, o) /\ \E j \in 1..(k - 3) : Ai(c)!Others(q)[j] = o)'
    <3>1. \A o \in Ai(c)!Objects :
            o \in task[w].new
              <=> Near(c, q, o) /\ \E j \in 1..(k - 3) : Ai(c)!Others(q)[j] = o
      BY <1>11 DEF Looking
    <3> QED
      BY <1>7, <2>2, <3>1, ProgramStays
  <2>5. (k > 2 => task[w].old = view[q])' /\ Todo(w)' = From(Ai(c)!MoveProgram(q), k)'
        /\ task'[w].op = "move" /\ task'[w].id = q
    BY <1>7, <1>11, ProgramStays DEF Looking
  <2>6. AgreedBut(c, q, M2, O2)'
    BY <1>6, <1>11 DEF Looking
  <2>7. Looking(c, w, q, k, M2, O2)'
    BY <2>1, <2>3, <2>4, <2>5, <2>6 DEF Looking
  <2> QED
    BY <2>7, ProgramStays DEF Fair
<1>12. ASSUME NEW n \in Ai(c)!Npcs, NEW k \in 1..c.npcStart, Waiting(c, w, n, k, Must, Only)
       PROVE  Fair(c, w, M2, O2)'
  <2>1. \A q \in Ai(c)!Players : Near(c, q, n)' <=> Near(c, q, n)
    BY <1>3, <1>4
  <2>2. (\A q \in Ai(c)!Players : q \in task[w].new <=> Near(c, q, n) /\ q < k)'
    <3>1. \A q \in Ai(c)!Players : q \in task[w].new <=> Near(c, q, n) /\ q < k
      BY <1>12 DEF Waiting
    <3> QED
      BY <1>7, <2>1, <3>1, ProgramStays
  <2>3. Waiting(c, w, n, k, M2, O2)'
    BY <1>2, <1>3, <1>5, <1>7, <1>12, <2>2, ProgramStays DEF Waiting
  <2> QED
    BY <2>3, ProgramStays DEF Fair
<1>13. ASSUME NEW n \in Ai(c)!Npcs, NEW k \in 1..c.npcStart, Roaming(c, w, n, k, Must, Only)
       PROVE  Fair(c, w, M2, O2)'
  <2>1. \A q \in Ai(c)!Players : Near(c, q, n)' <=> Near(c, q, n)
    BY <1>3, <1>4
  <2>2. (\A q \in Ai(c)!Players :
            /\ <<q, n>> \in O2 /\ n \in view[q] => q \in task[w].old
            /\ <<q, n>> \in M2 /\ q \in task[w].old => n \in view[q]
            /\ q \in task[w].new <=> Near(c, q, n) /\ q < k)'
    <3>1. \A q \in Ai(c)!Players :
            /\ <<q, n>> \in O2 /\ n \in view[q] => q \in task[w].old
            /\ <<q, n>> \in M2 /\ q \in task[w].old => n \in view[q]
            /\ q \in task[w].new <=> Near(c, q, n) /\ q < k
      BY <1>13 DEF Roaming, Fewer
    <3> QED
      BY <1>7, <2>1, <3>1, ProgramStays
  <2>3. AgreedBut(c, n, M2, O2)'
    BY <1>6, <1>13 DEF Roaming
  <2>4. Todo(w)' = From(Ai(c)!NpcProgram(n), c.npcStart + k)' /\ task'[w].op = "npc"
        /\ task'[w].id = n /\ state'[n] = "INGAME"
    BY <1>2, <1>3, <1>7, <1>13, ProgramStays DEF Roaming
  <2>5. Roaming(c, w, n, k, M2, O2)'
    BY <2>2, <2>3, <2>4 DEF Roaming
  <2> QED
    BY <2>5, ProgramStays DEF Fair
<1> QED
  BY <1>8, <1>9, <1>10, <1>11, <1>12, <1>13 DEF Fair

LEMMA FairAccepts ==
    ASSUME NEW c \in AiServers, AiInv(c), NEW w \in c.workers,
           NEW Must, NEW Only, NEW M2, NEW O2, Fewer(M2, Must), Fewer(O2, Only),
           Fair(c, w, Must, Only), NEW p \in Ai(c)!Players, state[p] = "FREE",
           state' = [state EXCEPT ![p] = "CONNECTED"], UNCHANGED <<pos, view, task>>,
           \/ task[w].op \in {"quit", "abort"}
           \/ \A i \in Elems(Todo(w)) : i[1] # "free"
    PROVE  Fair(c, w, M2, O2)'
<1>1. state \in [Ai(c)!Objects -> {"FREE", "CONNECTED", "INGAME"}] /\ p \in Ai(c)!Objects
  BY Sizes DEF AiInv, AiType
<1>2. \A o \in Ai(c)!Objects : /\ state'[o] = "INGAME" <=> state[o] = "INGAME"
                               /\ state[o] # "FREE" => state'[o] = state[o]
  BY <1>1
<1> QED
  BY <1>2, FairStays

-----------------------------------------------------------------------------
(* AiServer: one handler at a time.                                        *)
LEMMA NpcsStay ==
    ASSUME NEW c \in AiServers, AiInv(c), NpcsIn(c), [Ai(c)!Next]_(Ai(c)!vars)
    PROVE  NpcsIn(c)'
<1>1. /\ state \in [Ai(c)!Objects -> {"FREE", "CONNECTED", "INGAME"}]
      /\ \A n \in Ai(c)!Npcs : n \in Ai(c)!Objects /\ n \notin Ai(c)!Players
      /\ Ai(c)!Players \subseteq Ai(c)!Objects /\ Ai(c)!Npcs' = Ai(c)!Npcs
  BY Sizes, ProgramStays DEF AiInv, AiType
<1>2. CASE UNCHANGED state
  BY <1>1, <1>2 DEF NpcsIn
<1>3. ASSUME NEW p \in Ai(c)!Objects, NEW s, state' = [state EXCEPT ![p] = s],
             p \in Ai(c)!Players \/ s = "INGAME"
      PROVE  NpcsIn(c)'
  BY <1>1, <1>3 DEF NpcsIn
<1>4. ASSUME NEW w \in c.workers, Ai(c)!Start(w) PROVE NpcsIn(c)'
  <2>1. CASE \E p \in Ai(c)!Players : Ai(c)!Accept(w, p)
    <3>1. PICK p \in Ai(c)!Players : state' = [state EXCEPT ![p] = "CONNECTED"]
      BY <2>1 DEF Ai!Accept
    <3>2. p \in Ai(c)!Objects
      BY <1>1
    <3> QED
      BY <1>3, <3>1, <3>2
  <2>2. CASE ~ \E p \in Ai(c)!Players : Ai(c)!Accept(w, p)
    BY <1>2, <1>4, <2>2
    DEF Ai!Start, Ai!Login, Ai!Move, Ai!Quit, Ai!Abort, Ai!NpcTurn
  <2> QED
    BY <2>1, <2>2
<1>5. ASSUME NEW w \in c.workers, Ai(c)!Work(w) PROVE NpcsIn(c)'
  <2>1. CASE Ai(c)!Enter(w)
    <3>1. task[w].todo # <<>>
      BY <2>1 DEF Ai!Enter, Ai!At
    <3>2. Ai(c)!First(w) \in Ai(c)!Objects
      BY <3>1, AiNow
    <3> QED
      BY <1>3, <2>1, <3>2 DEF Ai!Enter
  <2>2. CASE Ai(c)!Free(w)
    <3>1. task[w].todo # <<>> /\ Ai(c)!At(w, "free")
      BY <2>2 DEF Ai!Free, Ai!At
    <3>2. <<"free", Ai(c)!First(w), Ai(c)!Second(w)>> \in AiInstr(c, task[w].id)
      BY <3>1, AiHand
    <3>3. Ai(c)!First(w) \in Ai(c)!Players
      BY <3>2 DEF AiInstr
    <3>4. PICK p : p = Ai(c)!First(w)
      OBVIOUS
    <3>5. p \in Ai(c)!Players /\ p \in Ai(c)!Objects /\ state' = [state EXCEPT ![p] = "FREE"]
      BY SMTT(60), <1>1, <2>2, <3>3, <3>4 DEF Ai!Free
    <3> QED
      BY <1>3, <3>5
  <2>3. CASE ~ Ai(c)!Enter(w) /\ ~ Ai(c)!Free(w)
    BY <1>2, <1>5, <2>3
    DEF Ai!Work, Ai!Place, Ai!Visit, Ai!Unlock, Ai!Step, Ai!Copy, Ai!Look, Ai!Sort,
        Ai!Insert, Ai!Erase, Ai!Meet, Ai!Part, Ai!Wake, Ai!Deliver, Ai!SendFails,
        Ai!Tell, Ai!Finish
  <2> QED
    BY <2>1, <2>2, <2>3
<1>6. CASE UNCHANGED Ai(c)!vars
  BY <1>2, <1>6 DEF Ai!vars
<1> QED
  BY <1>4, <1>5, <1>6 DEF Ai!Next

(* The handler is one that frees a slot, or it frees none.                 *)
Keeping(c, w) == task[w].op \in {"quit", "abort"} \/ task[w].todo \in Seq(NoFree(c))

LEMMA KeepingWorks ==
    ASSUME NEW c \in AiServers, AiInv(c), NEW w \in c.workers, Keeping(c, w),
           Ai(c)!Work(w), ~ Ai(c)!Finish(w), ~ Ai(c)!SendFails(w)
    PROVE  /\ Keeping(c, w)'
           /\ Ai(c)!At(w, "free") => task[w].op \in {"quit", "abort"}
<1>1. task'[w].op = task[w].op /\ task[w].todo # <<>>
  BY OpsStay, WorksOn
<1>2. CASE task[w].op \in {"quit", "abort"}
  BY <1>1, <1>2 DEF Keeping
<1>3. CASE task[w].todo \in Seq(NoFree(c))
  <2>1. Tail(task[w].todo) \in Seq(NoFree(c)) /\ Head(task[w].todo) \in NoFree(c)
    BY <1>1, <1>3
  <2>2. ~ Ai(c)!At(w, "free")
    BY <2>1 DEF Ai!At, NoFree
  <2>3. task'[w].todo \in Seq(NoFree(c))
    <3>1. task \in [c.workers -> AiHandlers(c)]
      BY DEF AiInv, AiType
    <3>2. CASE Ai(c)!Step(w) \/ Ai(c)!Copy(w) \/ Ai(c)!Look(w)
      <4>1. task'[w].todo = Tail(task[w].todo)
        <5>1. CASE Ai(c)!Step(w)
          BY <3>1, <5>1 DEF Ai!Step, AiHandlers
        <5>2. CASE Ai(c)!Copy(w)
          BY <3>1, <5>2 DEF Ai!Copy, AiHandlers
        <5>3. CASE Ai(c)!Look(w)
          <6>1. \E new : task' = [task EXCEPT ![w].todo = Tail(task[w].todo), ![w].new = new]
            BY <5>3 DEF Ai!Look
          <6> QED
            BY <3>1, <6>1 DEF AiHandlers
        <5> QED
          BY <3>2, <5>1, <5>2, <5>3
      <4> QED
        BY <2>1, <4>1
    <3>3. CASE ~ (Ai(c)!Step(w) \/ Ai(c)!Copy(w) \/ Ai(c)!Look(w))
      <4>1. ~ Ai(c)!Free(w)
        BY <2>2 DEF Ai!Free
      <4>2. PICK more \in Seq(NoFree(c)) : Ai(c)!Go(w, more)
        BY <3>3, <4>1, WorkGoes DEF Ai!Work
      <4>3. task'[w].todo = more \o Tail(task[w].todo)
        BY <4>2, GoesWith
      <4> QED
        BY <2>1, <4>3, Joined
    <3> QED
      BY <3>2, <3>3
  <2>4. NoFree(c)' = NoFree(c)
    BY ProgramStays DEF NoFree
  <2> QED
    BY <2>2, <2>3, <2>4 DEF Keeping
<1> QED
  BY <1>2, <1>3 DEF Keeping

OneAtWork(c, w, Must, Only) ==
    /\ task[w].op # "idle" /\ \A u \in c.workers \ {w} : task[u] = Ai(c)!Idle
    /\ Keeping(c, w)
    /\ Fair(c, w, Must, Only)

(* Another worker that begins a handler runs beside it.                    *)
LEMMA OneOrAnother ==
    ASSUME NEW c \in AiServers, AiInv(c), NEW w \in c.workers, NEW Must, NEW Only,
           OneAtWork(c, w, Must, Only), NEW v \in c.workers, Ai(c)!Start(v) \/ Ai(c)!Work(v)
    PROVE  \/ v = w /\ Ai(c)!Work(w)
           \/ \E p \in Ai(c)!Players : Ai(c)!Accept(v, p)
           \/ alone' = FALSE /\ healed' = {} /\ UNCHANGED state
<1>1. task[w] # Ai(c)!Idle
  BY DEF OneAtWork, Ai!Idle
<1>2. CASE v = w
  <2>1. ~ Ai(c)!Start(w)
    BY <1>1
    DEF Ai!Start, Ai!Accept, Ai!Login, Ai!Move, Ai!Quit, Ai!Abort, Ai!NpcTurn, Ai!Begin
  <2> QED
    BY <1>2, <2>1
<1>3. CASE v # w
  <2>1. task[v] = Ai(c)!Idle
    BY <1>3 DEF OneAtWork
  <2>2. ~ Ai(c)!Work(v)
    <3>1. task[v].todo = <<>>
      BY <2>1 DEF Ai!Idle
    <3> QED
      BY <3>1, WorksOn DEF Ai!Finish, Ai!At
  <2>3. \A op, id, todo : Ai(c)!Begin(v, op, id, todo) => alone' = FALSE /\ healed' = {}
    BY <1>1 DEF Ai!Begin
  <2> QED
    BY <2>2, <2>3
    DEF Ai!Start, Ai!Login, Ai!Move, Ai!Quit, Ai!Abort, Ai!NpcTurn
<1> QED
  BY <1>2, <1>3

-----------------------------------------------------------------------------
(* AiServer: what a move repairs. While no handler has run beside another, *)
(* the pairs of the players that have moved are as they should be.         *)
About(c, S) == {x \in Ai(c)!Players \X Ai(c)!Objects : x[1] \in S \/ x[2] \in S}
ListsOf(c, S) == {x \in Ai(c)!Players \X Ai(c)!Objects : x[1] \in S}

(* The player whose move has taken its step.                               *)
Moved(c, w) ==
    {p \in Ai(c)!Players :
        task[w].op = "move" /\ task[w].id = p /\ <<"step", p, p>> \notin Elems(Todo(w))}

Repaired(c, w) == healed \cup Moved(c, w)

RepairInv(c) ==
    /\ ~ alone => healed = {}
    /\ \A p \in healed : state[p] = "INGAME"
    /\ alone =>
         \/ /\ Ai(c)!AtRest
            /\ Agreed(c, {}, About(c, healed), ListsOf(c, healed))
         \/ \E w \in c.workers :
               OneAtWork(c, w, About(c, Repaired(c, w)), ListsOf(c, Repaired(c, w)))

LEMMA PairsLess ==
    ASSUME NEW c, NEW S, NEW T, S \subseteq T
    PROVE  Fewer(About(c, S), About(c, T)) /\ Fewer(ListsOf(c, S), ListsOf(c, T))
  BY DEF Fewer, About, ListsOf

(* The step of a move comes first.                                         *)
LEMMA MovedStays ==
    ASSUME NEW c \in AiServers, AiInv(c), NEW w \in c.workers, Ai(c)!Work(w), ~ Ai(c)!Finish(w)
    PROVE  \A p \in Moved(c, w)' : p \in Moved(c, w) \/ (Ai(c)!At(w, "step") /\ Ai(c)!First(w) = p)
<1> SUFFICES ASSUME NEW p \in Moved(c, w)', p \notin Moved(c, w)
             PROVE  Ai(c)!At(w, "step") /\ Ai(c)!First(w) = p
  OBVIOUS
<1>1. PICK x : x = <<"step", p, p>>
  OBVIOUS
<1>2. p \in Ai(c)!Players /\ task'[w].op = "move" /\ task'[w].id = p /\ x \notin Elems(Todo(w)')
  BY <1>1, ProgramStays DEF Moved
<1>3. task[w].op = "move" /\ task[w].id = p
  BY <1>2, OpsStay
<1>4. x \in Elems(Todo(w))
  BY <1>1, <1>2, <1>3 DEF Moved
<1>5. /\ task[w].todo # <<>>
      /\ \E more \in Seq(Further(c)) : task'[w].todo = more \o Tail(task[w].todo)
  BY WorksOn
<1>6. PICK more \in Seq(Further(c)) : task'[w].todo = more \o Tail(task[w].todo)
  BY <1>5
<1>7. task[w].todo \in Seq(AiInstr(c, task[w].id))
  BY DEF AiInv, HandlerSeen
<1>8. PICK T : T = task[w].todo
  OBVIOUS
<1> DEFINE U == AiInstr(c, task[w].id) \cup Further(c)
<1>9. AiInstr(c, task[w].id) \subseteq U /\ Further(c) \subseteq U
  OBVIOUS
<1> HIDE DEF U
<1>10. T \in Seq(U) /\ more \in Seq(U) /\ T # <<>>
  <2>1. T \in Seq(AiInstr(c, task[w].id))
    BY <1>7, <1>8
  <2>2. T \in Seq(U) /\ more \in Seq(U)
    BY <1>9, <2>1, SeqGrows
  <2> QED
    BY <1>5, <1>8, <2>2
<1>11. Elems(T) = {Head(T)} \cup Elems(Tail(T)) /\ Tail(T) \in Seq(U)
  BY <1>10, ElemsStep
<1>12. PICK R : R = Tail(T)
  OBVIOUS
<1>13. Elems(more \o R) = Elems(more) \cup Elems(R)
  BY ZenonT(60), <1>10, <1>11, <1>12, ElemsJoin
<1>14. Todo(w)' = more \o R /\ Todo(w) = T
  BY <1>6, <1>8, <1>12 DEF Todo
<1>15. Head(T) = x
  BY <1>2, <1>4, <1>11, <1>12, <1>13, <1>14
<1> QED
  BY <1>1, <1>8, <1>15, <1>5 DEF Ai!At, Ai!First

LEMMA RepairWorks ==
    ASSUME NEW c \in AiServers, AiInv(c), AiInv(c)', Placed(c), RepairInv(c), alone,
           NEW w \in c.workers,
           OneAtWork(c, w, About(c, Repaired(c, w)), ListsOf(c, Repaired(c, w))),
           Ai(c)!Work(w), ~ Ai(c)!Finish(w), ~ Ai(c)!SendFails(w)
    PROVE  OneAtWork(c, w, About(c, Repaired(c, w)), ListsOf(c, Repaired(c, w)))'
<1>1. PICK S : S = Repaired(c, w)
  OBVIOUS
<1>2. PICK S2 : S2 = Repaired(c, w)'
  OBVIOUS
<1>3. PICK f : f = Ai(c)!First(w)
  BY SMTT(60)
<1>4. healed' = IF Ai(c)!Free(w) THEN {q \in healed \ {f} : f \notin view[q]} ELSE healed
  BY <1>3
  DEF Ai!Work, Ai!Place, Ai!Enter, Ai!Visit, Ai!Unlock, Ai!Step, Ai!Copy, Ai!Look, Ai!Sort,
      Ai!Insert, Ai!Erase, Ai!Meet, Ai!Part, Ai!Wake, Ai!Deliver, Ai!Free, Ai!Tell, Ai!history
<1>5. \A p \in S2 : p \in S \/ (Ai(c)!At(w, "step") /\ f = p)
  BY <1>1, <1>2, <1>3, <1>4, MovedStays DEF Repaired
<1>6. task[w].todo # <<>> /\ task'[w].op = task[w].op
      /\ \A u \in c.workers : u # w => task'[u] = task[u]
  BY WorksOn, OpsStay
<1>7. f \in Ai(c)!Objects
  BY <1>3, <1>6, AiNow
<1>8. Keeping(c, w)' /\ (Ai(c)!At(w, "free") => task[w].op \in {"quit", "abort"})
  BY KeepingWorks DEF OneAtWork
<1>9. FreesWell(c, w, ListsOf(c, S2))
  <2> SUFFICES ASSUME Ai(c)!At(w, "free"), NEW q \in Ai(c)!Players, NEW o \in Ai(c)!Objects,
                      <<q, o>> \in ListsOf(c, S2), o \in view[q]
               PROVE  q # f /\ o # f
    BY <1>3 DEF FreesWell
  <2>1. q \in S2
    BY DEF ListsOf
  <2>2. q \notin Moved(c, w)'
    BY <1>6, <1>8 DEF Moved
  <2>3. q \in healed'
    BY SMTT(60), <1>2, <2>1, <2>2 DEF Repaired
  <2>4. Ai(c)!Free(w)
    <3>1. \A k : Ai(c)!At(w, k) => k = "free"
      BY DEF Ai!At
    <3> QED
      BY <3>1, WorkByOp
  <2> QED
    BY <1>4, <2>3, <2>4
<1>10. KeepsPairs(c, w, About(c, S), ListsOf(c, S), About(c, S2), ListsOf(c, S2))
  <2>1. CASE Ai(c)!At(w, "step") /\ f \in Ai(c)!Players
    <3>1. StepsWell(f, About(c, S), ListsOf(c, S), About(c, S2), ListsOf(c, S2))
      <4>1. \A p \in S2 : p \in S \/ p = f
        BY <1>5
      <4>2. Ai(c)!Players \subseteq Ai(c)!Objects
        BY Sizes
      <4> QED
        BY <2>1, <4>1, <4>2 DEF StepsWell, About, ListsOf
    <3> QED
      BY <1>3, <1>9, <2>1, <3>1 DEF KeepsPairs
  <2>2. CASE ~ (Ai(c)!At(w, "step") /\ f \in Ai(c)!Players)
    <3>1. healed' \subseteq Ai(c)!Players
      BY <1>4 DEF Placed
    <3>2. S2 \subseteq Ai(c)!Players
      BY <1>2, <3>1, ProgramStays DEF Repaired, Moved
    <3>3. S2 \subseteq S
      BY <1>5, <2>2, <3>2
    <3> QED
      BY <1>3, <1>9, <2>2, <3>3, PairsLess DEF KeepsPairs
  <2> QED
    BY <2>1, <2>2
<1>11. Fair(c, w, About(c, S), ListsOf(c, S))
  BY <1>1 DEF OneAtWork
<1>12. PICK M2 : M2 = About(c, S2)
  OBVIOUS
<1>13. PICK O2 : O2 = ListsOf(c, S2)
  OBVIOUS
<1>14. Fair(c, w, M2, O2)'
  BY <1>10, <1>11, <1>12, <1>13, FairWorks
<1>15. About(c, Repaired(c, w))' = M2 /\ ListsOf(c, Repaired(c, w))' = O2
  BY <1>2, <1>12, <1>13 DEF About, ListsOf, Ai!Players, Ai!Npcs, Ai!Objects
<1>16. Fair(c, w, About(c, Repaired(c, w)), ListsOf(c, Repaired(c, w)))'
  BY <1>14, <1>15
<1>17. (task[w].op # "idle" /\ \A u \in c.workers \ {w} : task[u] = Ai(c)!Idle)'
  BY <1>6 DEF OneAtWork, Ai!Idle
<1> QED
  BY <1>8, <1>16, <1>17 DEF OneAtWork

LEMMA RepairFinish ==
    ASSUME NEW c \in AiServers, AiInv(c), Placed(c), NEW w \in c.workers,
           OneAtWork(c, w, About(c, Repaired(c, w)), ListsOf(c, Repaired(c, w))),
           Ai(c)!Finish(w)
    PROVE  (/\ Ai(c)!AtRest
            /\ Agreed(c, {}, About(c, healed), ListsOf(c, healed)))'
<1>1. PICK S : S = Repaired(c, w)
  OBVIOUS
<1>2. PICK S2 : S2 = healed'
  OBVIOUS
<1>3. /\ task[w].todo # <<>> /\ Ai(c)!At(w, "done") /\ UNCHANGED <<state, pos, view>>
      /\ task' = [task EXCEPT ![w] = Ai(c)!Idle]
      /\ S2 = IF task[w].op = "move" /\ alone /\ state[Ai(c)!First(w)] = "INGAME"
              THEN healed \cup {Ai(c)!First(w)} ELSE healed
  BY <1>2 DEF Ai!Finish, Ai!At
<1>4. Todo(w) # <<>> /\ Head(Todo(w))[1] = "done"
  BY <1>3 DEF Todo, Ai!At
<1>5. /\ Agreed(c, {}, About(c, S), ListsOf(c, S))
      /\ Elems(Todo(w)) = {Head(Todo(w))}
  BY <1>1, <1>4, FairAtEnd DEF OneAtWork
<1>6. S2 \subseteq S
  <2>1. Ai(c)!First(w) = task[w].id
    <3>1. <<"done", Ai(c)!First(w), Ai(c)!Second(w)>> \in AiInstr(c, task[w].id)
      BY <1>3, AiHand
    <3> QED
      BY <3>1 DEF AiInstr
  <2>2. task[w].op = "move" => task[w].id \in Ai(c)!Players
    BY DEF AiInv, HandlerSeen, OfClient
  <2>3. \A p : <<"step", p, p>> \notin Elems(Todo(w))
    BY <1>4, <1>5
  <2>4. task[w].op = "move" => task[w].id \in Moved(c, w)
    BY <2>2, <2>3 DEF Moved
  <2> QED
    BY <1>1, <1>3, <2>1, <2>4 DEF Repaired
<1>7. PICK M2 : M2 = About(c, S2)
  OBVIOUS
<1>8. PICK O2 : O2 = ListsOf(c, S2)
  OBVIOUS
<1>9. Agreed(c, {}, M2, O2)'
  <2>1. Fewer(M2, About(c, S)) /\ Fewer(O2, ListsOf(c, S))
    BY <1>6, <1>7, <1>8, PairsLess
  <2>2. \A q \in Ai(c)!Players, o \in Ai(c)!Objects : Near(c, q, o)' <=> Near(c, q, o)
    BY <1>3, NearStays
  <2>3. UNCHANGED view
    BY <1>3
  <2> QED
    BY <1>5, <2>1, <2>2, <2>3, AgreedStays
<1>10. About(c, healed)' = M2 /\ ListsOf(c, healed)' = O2
  BY <1>2, <1>7, <1>8 DEF About, ListsOf, Ai!Players, Ai!Npcs, Ai!Objects
<1>11. Ai(c)!AtRest'
  <2>1. task \in [c.workers -> AiHandlers(c)]
    BY DEF AiInv, AiType
  <2> QED
    BY <1>3, <2>1 DEF OneAtWork, Ai!AtRest, Ai!Idle
<1> QED
  BY <1>9, <1>10, <1>11

LEMMA RepairAccept ==
    ASSUME NEW c \in AiServers, AiInv(c), RepairInv(c), NEW v \in c.workers,
           NEW p \in Ai(c)!Players, Ai(c)!Accept(v, p)
    PROVE  RepairInv(c)'
<1>1. /\ task[v] = Ai(c)!Idle /\ state[p] = "FREE" /\ state' = [state EXCEPT ![p] = "CONNECTED"]
      /\ UNCHANGED <<pos, view, task, alone, healed>>
  BY DEF Ai!Accept, Ai!history
<1>2. state \in [Ai(c)!Objects -> {"FREE", "CONNECTED", "INGAME"}]
      /\ Ai(c)!Players \subseteq Ai(c)!Objects /\ p \in Ai(c)!Objects
  BY Sizes DEF AiInv, AiType
<1>3. \A q \in healed' : state'[q] = "INGAME"
  <2> SUFFICES ASSUME NEW q \in healed PROVE state'[q] = "INGAME"
    BY <1>1
  <2>1. state[q] = "INGAME"
    BY DEF RepairInv
  <2> QED
    BY <1>1, <1>2, <2>1
<1>4. PICK H : H = healed
  OBVIOUS
<1>5. PICK M : M = About(c, H)
  OBVIOUS
<1>6. PICK L : L = ListsOf(c, H)
  OBVIOUS
<1>7. About(c, healed)' = M /\ ListsOf(c, healed)' = L
  BY <1>1, <1>4, <1>5, <1>6 DEF About, ListsOf, Ai!Players, Ai!Npcs, Ai!Objects
<1>8. ASSUME Ai(c)!AtRest, Agreed(c, {}, M, L)
      PROVE  (/\ Ai(c)!AtRest /\ Agreed(c, {}, About(c, healed), ListsOf(c, healed)))'
  <2>1. \A q \in Ai(c)!Players, o \in Ai(c)!Objects : Near(c, q, o)' <=> Near(c, q, o)
    BY <1>1, <1>2, NearStays
  <2>2. Fewer(M, M) /\ Fewer(L, L) /\ UNCHANGED view
    BY <1>1 DEF Fewer
  <2>3. Agreed(c, {}, M, L)'
    BY <1>8, <2>1, <2>2, AgreedStays
  <2> QED
    BY <1>1, <1>7, <1>8, <2>3 DEF Ai!AtRest, Ai!Idle
<1>9. ASSUME NEW w \in c.workers,
             OneAtWork(c, w, About(c, Repaired(c, w)), ListsOf(c, Repaired(c, w)))
      PROVE  OneAtWork(c, w, About(c, Repaired(c, w)), ListsOf(c, Repaired(c, w)))'
  <2>1. PICK A : A = About(c, Repaired(c, w))
    OBVIOUS
  <2>2. PICK B : B = ListsOf(c, Repaired(c, w))
    OBVIOUS
  <2>3. Fair(c, w, A, B) /\ Fewer(A, A) /\ Fewer(B, B)
    BY <1>9, <2>1, <2>2 DEF OneAtWork, Fewer
  <2>4. \/ task[w].op \in {"quit", "abort"}
        \/ \A i \in Elems(Todo(w)) : i[1] # "free"
    <3>1. ASSUME task[w].todo \in Seq(NoFree(c)), NEW i \in Elems(Todo(w)) PROVE i[1] # "free"
      <4>1. i \in NoFree(c)
        BY <3>1 DEF Elems, Todo
      <4> QED
        BY <4>1 DEF NoFree
    <3> QED
      BY <1>9, <3>1 DEF OneAtWork, Keeping
  <2>5. Fair(c, w, A, B)'
    BY <1>1, <2>3, <2>4, FairAccepts
  <2>6. About(c, Repaired(c, w))' = A /\ ListsOf(c, Repaired(c, w))' = B
    BY <1>1, <2>1, <2>2
    DEF About, ListsOf, Ai!Players, Ai!Npcs, Ai!Objects, Repaired, Moved, Elems, Todo
  <2>7. Fair(c, w, About(c, Repaired(c, w)), ListsOf(c, Repaired(c, w)))'
    BY <2>5, <2>6
  <2>8. NoFree(c)' = NoFree(c)
    BY ProgramStays DEF NoFree
  <2> QED
    BY <1>1, <1>9, <2>7, <2>8 DEF OneAtWork, Keeping, Ai!Idle
<1>10. alone => \/ Ai(c)!AtRest /\ Agreed(c, {}, M, L)
                \/ \E w \in c.workers :
                     OneAtWork(c, w, About(c, Repaired(c, w)), ListsOf(c, Repaired(c, w)))
  BY <1>4, <1>5, <1>6 DEF RepairInv
<1> QED
  BY <1>1, <1>3, <1>8, <1>9, <1>10 DEF RepairInv

(* The handlers as they begin.                                             *)
LEMMA StartsBy ==
    ASSUME NEW c \in AiServers, NEW w \in c.workers, Ai(c)!Start(w),
           ~ \E p \in Ai(c)!Players : Ai(c)!Accept(w, p)
    PROVE  /\ UNCHANGED <<state, pos, view, shown, lives, failed>>
           /\ \E op, a, todo :
                /\ Ai(c)!Begin(w, op, a, todo)
                /\ \/ /\ op = "login" /\ a \in Ai(c)!Players /\ state[a] = "CONNECTED"
                      /\ todo = Ai(c)!LoginProgram(a)
                   \/ /\ op = "move" /\ a \in Ai(c)!Players /\ state[a] = "INGAME"
                      /\ todo = Ai(c)!MoveProgram(a)
                   \/ op = "npc" /\ a \in Ai(c)!Npcs /\ todo = Ai(c)!NpcProgram(a)
                   \/ op \in {"quit", "abort"} /\ a \in Ai(c)!Players /\ Leaves(c, a, todo)
<1>1. CASE \E a \in Ai(c)!Players : Ai(c)!Login(w, a) \/ Ai(c)!Move(w, a)
  BY <1>1 DEF Ai!Login, Ai!Move, Ai!faults
<1>2. ASSUME NEW a \in Ai(c)!Players, Ai(c)!Quit(w, a)
      PROVE  /\ UNCHANGED <<state, pos, view, shown, lives, failed>>
             /\ \E todo : Ai(c)!Begin(w, "quit", a, todo) /\ Leaves(c, a, todo)
  <2>1. PICK error \in BOOLEAN :
          Ai(c)!Begin(w, "quit", a, (IF error THEN Ai(c)!DisconnectProgram(a) ELSE <<>>)
                          \o Ai(c)!DisconnectProgram(a) \o << <<"done", a, a>> >>)
    BY <1>2 DEF Ai!Quit
  <2> QED
    BY <1>2, <2>1, QuitByStep DEF Ai!Quit, Ai!faults
<1>3. ASSUME NEW a \in Ai(c)!Players, Ai(c)!Abort(w, a)
      PROVE  /\ UNCHANGED <<state, pos, view, shown, lives, failed>>
             /\ \E todo : Ai(c)!Begin(w, "abort", a, todo) /\ Leaves(c, a, todo)
  BY <1>3, QuitByStep DEF Ai!Abort
<1>4. CASE \E n \in Ai(c)!Npcs : Ai(c)!NpcTurn(w, n)
  BY <1>4 DEF Ai!NpcTurn, Ai!faults
<1> QED
  BY <1>1, <1>2, <1>3, <1>4 DEF Ai!Start

LEMMA RepairBegins ==
    ASSUME NEW c \in AiServers, AiInv(c), NpcsIn(c), RepairInv(c), NEW w \in c.workers,
           Ai(c)!Start(w), ~ \E p \in Ai(c)!Players : Ai(c)!Accept(w, p)
    PROVE  RepairInv(c)'
<1>1. UNCHANGED <<state, pos, view>>
  BY StartsBy
<1>2. PICK op, a, todo :
        /\ Ai(c)!Begin(w, op, a, todo)
        /\ \/ /\ op = "login" /\ a \in Ai(c)!Players /\ state[a] = "CONNECTED"
              /\ todo = Ai(c)!LoginProgram(a)
           \/ /\ op = "move" /\ a \in Ai(c)!Players /\ state[a] = "INGAME"
              /\ todo = Ai(c)!MoveProgram(a)
           \/ op = "npc" /\ a \in Ai(c)!Npcs /\ todo = Ai(c)!NpcProgram(a)
           \/ op \in {"quit", "abort"} /\ a \in Ai(c)!Players /\ Leaves(c, a, todo)
  BY StartsBy
<1>3. CASE \E u \in c.workers : task[u] # Ai(c)!Idle
  <2>1. alone' = FALSE /\ healed' = {}
    BY <1>2, <1>3 DEF Ai!Begin
  <2> QED
    BY <2>1 DEF RepairInv
<1>4. CASE \A u \in c.workers : task[u] = Ai(c)!Idle
  <2>1. alone' = TRUE /\ healed' = healed
    BY <1>2, <1>4 DEF Ai!Begin
  <2>2. /\ task'[w].op = op /\ task'[w].id = a /\ task'[w].todo = todo
        /\ \A u \in c.workers : u # w => task'[u] = task[u]
    BY <1>2, BeginsWith
  <2>3. PICK H : H = healed
    OBVIOUS
  <2>4. PICK M : M = About(c, H)
    OBVIOUS
  <2>5. PICK L : L = ListsOf(c, H)
    OBVIOUS
  <2>6. Agreed(c, {}, M, L)
    <3>1. CASE alone
      <4>1. \A u \in c.workers : task[u].op = "idle"
        BY <1>4 DEF Ai!Idle
      <4> QED
        BY <2>3, <2>4, <2>5, <3>1, <4>1 DEF RepairInv, OneAtWork
    <3>2. CASE ~ alone
      <4>1. M = {} /\ L = {}
        BY <2>3, <2>4, <2>5, <3>2 DEF RepairInv, About, ListsOf
      <4> QED
        BY <4>1 DEF Agreed, Agrees, Comes, Parts
    <3> QED
      BY <3>1, <3>2
  <2>7. Moved(c, w)' = {}
    <3> SUFFICES ASSUME NEW p \in Moved(c, w)' PROVE FALSE
      OBVIOUS
    <3>1. p \in Ai(c)!Players /\ op = "move" /\ a = p /\ <<"step", p, p>> \notin Elems(Todo(w))'
      BY <2>2, ProgramStays DEF Moved
    <3>2. todo = Ai(c)!MoveProgram(p) /\ Todo(w)' = todo
      BY <1>2, <2>2, <3>1 DEF Todo
    <3>3. todo[1] = Me("step", p) /\ Len(todo) >= 2
      <4>1. c.users \in Nat
        BY Sizes
      <4> QED
        BY <3>1, <3>2, <4>1, MoveByStep
    <3>4. 1 \in 1..Len(todo)
      <4>1. todo \in Seq(Triples(c))
        BY <3>1, <3>2, MoveByStep
      <4> QED
        BY <3>3, <4>1
    <3>5. todo[1] \in Elems(Todo(w))'
      BY <3>2, <3>4 DEF Elems
    <3> QED
      BY <3>1, <3>3, <3>5 DEF Me
  <2>8. Fair(c, w, M, L)'
    <3>1. Fewer(M, M) /\ Fewer(L, L)
      BY DEF Fewer
    <3> QED
      BY <1>1, <1>2, <2>6, <3>1, FairBegins
  <2>9. About(c, Repaired(c, w))' = M /\ ListsOf(c, Repaired(c, w))' = L
    BY <2>1, <2>3, <2>4, <2>5, <2>7
    DEF About, ListsOf, Ai!Players, Ai!Npcs, Ai!Objects, Repaired
  <2>10. Fair(c, w, About(c, Repaired(c, w)), ListsOf(c, Repaired(c, w)))'
    BY <2>8, <2>9
  <2>11. Keeping(c, w)'
    <3>1. op \notin {"quit", "abort"} => todo \in Seq(NoFree(c))
      <4>1. a \in Ai(c)!Players /\ state[a] # "FREE" => a \in Seen(c)
        <5>1. a \in Ai(c)!Players => a \in Ai(c)!Objects
          BY Sizes
        <5> QED
          BY <5>1 DEF AiInv, SlotsSeen, Seen
      <4>2. op = "login" => todo \in Seq(NoFree(c))
        BY <1>2, LoginNoFree
      <4>3. op = "move" => todo \in Seq(NoFree(c))
        <5> SUFFICES ASSUME op = "move" PROVE todo \in Seq(NoFree(c))
          OBVIOUS
        <5>1. a \in Ai(c)!Players /\ a \in Seen(c) /\ todo = Ai(c)!MoveProgram(a)
          BY <1>2, <4>1
        <5>2. todo \in Seq(Quiet(c, a))
          BY <5>1, MovePrograms
        <5> QED
          BY <5>2, QuietNoFree, SeqGrows
      <4>4. op = "npc" => todo \in Seq(NoFree(c))
        <5> SUFFICES ASSUME op = "npc" PROVE todo \in Seq(NoFree(c))
          OBVIOUS
        <5>1. todo \in Seq(Quiet(c, a))
          BY <1>2, NpcPrograms
        <5> QED
          BY <5>1, QuietNoFree, SeqGrows
      <4> QED
        BY <1>2, <4>2, <4>3, <4>4
    <3>2. NoFree(c)' = NoFree(c)
      BY ProgramStays DEF NoFree
    <3> QED
      BY <2>2, <3>1, <3>2 DEF Keeping
  <2>12. task'[w].op # "idle" /\ \A u \in c.workers \ {w} : task'[u] = Ai(c)!Idle'
    BY <1>2, <1>4, <2>2 DEF Ai!Idle
  <2>13. OneAtWork(c, w, About(c, Repaired(c, w)), ListsOf(c, Repaired(c, w)))'
    BY <2>10, <2>11, <2>12 DEF OneAtWork
  <2>14. \A p \in healed' : state'[p] = "INGAME"
    BY <1>1, <2>1 DEF RepairInv
  <2> QED
    BY <2>1, <2>13, <2>14 DEF RepairInv
<1> QED
  BY <1>3, <1>4

(* Who has moved is in the game.                                           *)
LEMMA RepairedInGame ==
    ASSUME NEW c \in AiServers, AiInv(c), RepairInv(c), NEW w \in c.workers, Ai(c)!Work(w)
    PROVE  /\ ~ alone' => healed' = {}
           /\ \A p \in healed' : state'[p] = "INGAME"
           /\ alone' => alone
<1>1. state \in [Ai(c)!Objects -> {"FREE", "CONNECTED", "INGAME"}]
  BY DEF AiInv, AiType
<1>2. /\ ~ alone => healed = {}
      /\ \A p \in healed : state[p] = "INGAME"
  BY DEF RepairInv
<1>3. CASE Ai(c)!Enter(w)
  <2>1. PICK f : state' = [state EXCEPT ![f] = "INGAME"]
    BY <1>3 DEF Ai!Enter
  <2>2. UNCHANGED <<alone, healed>>
    BY <1>3 DEF Ai!Enter, Ai!history
  <2>3. \A p : state[p] = "INGAME" => state'[p] = "INGAME"
    BY <1>1, <2>1
  <2> QED
    BY <1>2, <2>2, <2>3
<1>4. CASE Ai(c)!Free(w)
  <2>1. PICK f : /\ state' = [state EXCEPT ![f] = "FREE"]
                 /\ healed' = {q \in healed \ {f} : f \notin view[q]}
    BY <1>4 DEF Ai!Free
  <2>2. UNCHANGED alone
    BY <1>4 DEF Ai!Free
  <2> QED
    BY <1>1, <1>2, <2>1, <2>2
<1>5. CASE Ai(c)!SendFails(w)
  BY <1>5 DEF Ai!SendFails
<1>6. CASE Ai(c)!Finish(w)
  BY <1>2, <1>6 DEF Ai!Finish
<1>7. CASE ~ Ai(c)!Enter(w) /\ ~ Ai(c)!Free(w) /\ ~ Ai(c)!SendFails(w) /\ ~ Ai(c)!Finish(w)
  <2>1. UNCHANGED <<state, alone, healed>>
    BY <1>7
    DEF Ai!Work, Ai!Place, Ai!Visit, Ai!Unlock, Ai!Step, Ai!Copy, Ai!Look, Ai!Sort,
        Ai!Insert, Ai!Erase, Ai!Meet, Ai!Part, Ai!Wake, Ai!Deliver, Ai!Tell, Ai!history
  <2> QED
    BY SMTT(60), <1>2, <2>1
<1> QED
  BY <1>3, <1>4, <1>5, <1>6, <1>7

LEMMA RepairSteps ==
    ASSUME NEW c \in AiServers, AiInv(c), AiInv(c)', Placed(c), NpcsIn(c), RepairInv(c),
           [Ai(c)!Next]_(Ai(c)!vars)
    PROVE  RepairInv(c)'
<1>1. ASSUME NEW w \in c.workers, Ai(c)!Start(w) PROVE RepairInv(c)'
  BY <1>1, RepairAccept, RepairBegins
<1>2. ASSUME NEW v \in c.workers, Ai(c)!Work(v) PROVE RepairInv(c)'
  <2>1. /\ ~ alone' => healed' = {}
        /\ \A p \in healed' : state'[p] = "INGAME"
        /\ alone' => alone
    BY <1>2, RepairedInGame
  <2>2. ASSUME alone', ~ Ai(c)!AtRest, NEW w \in c.workers,
               OneAtWork(c, w, About(c, Repaired(c, w)), ListsOf(c, Repaired(c, w)))
        PROVE  RepairInv(c)'
    <3>1. v = w
      <4>1. ~ Ai(c)!Accept(v, 0) /\ \A p \in Ai(c)!Players : ~ Ai(c)!Accept(v, p)
        <5>1. task[v] # Ai(c)!Idle
          <6>1. Ai(c)!Idle.todo = <<>>
            BY DEF Ai!Idle
          <6> QED
            BY <1>2, <6>1, WorksOn DEF Ai!Finish, Ai!At
        <5> QED
          BY <5>1 DEF Ai!Accept
      <4> QED
        BY <1>2, <2>2, <4>1, OneOrAnother
    <3>2. alone /\ ~ Ai(c)!SendFails(w)
      BY <2>1, <2>2 DEF Ai!SendFails
    <3>3. CASE Ai(c)!Finish(w)
      BY <2>1, <2>2, <3>3, RepairFinish DEF RepairInv
    <3>4. CASE ~ Ai(c)!Finish(w)
      <4>1. OneAtWork(c, w, About(c, Repaired(c, w)), ListsOf(c, Repaired(c, w)))'
        BY <1>2, <2>2, <3>1, <3>2, <3>4, RepairWorks
      <4> QED
        BY <2>1, <4>1 DEF RepairInv
    <3> QED
      BY <3>3, <3>4
  <2>3. ~ Ai(c)!AtRest
    <3>1. Ai(c)!Idle.todo = <<>>
      BY DEF Ai!Idle
    <3> QED
      BY <1>2, <3>1, WorksOn DEF Ai!AtRest, Ai!Finish, Ai!At
  <2> QED
    BY <2>1, <2>2, <2>3 DEF RepairInv
<1>3. CASE UNCHANGED Ai(c)!vars
  <2>1. UNCHANGED <<state, pos, view, task, alone, healed>>
    BY <1>3 DEF Ai!vars
  <2>2. PICK H : H = healed
    OBVIOUS
  <2>3. PICK M : M = About(c, H)
    OBVIOUS
  <2>4. PICK L : L = ListsOf(c, H)
    OBVIOUS
  <2>5. About(c, healed)' = M /\ ListsOf(c, healed)' = L
    BY <2>1, <2>2, <2>3, <2>4 DEF About, ListsOf, Ai!Players, Ai!Npcs, Ai!Objects
  <2>6. Ai(c)!AtRest' <=> Ai(c)!AtRest
    BY <2>1 DEF Ai!AtRest, Ai!Idle
  <2>7. ASSUME Agreed(c, {}, M, L) PROVE Agreed(c, {}, About(c, healed), ListsOf(c, healed))'
    <3>1. \A q \in Ai(c)!Players, o \in Ai(c)!Objects : Near(c, q, o)' <=> Near(c, q, o)
      BY <2>1, NearStays
    <3>2. Fewer(M, M) /\ Fewer(L, L) /\ UNCHANGED view
      BY <2>1 DEF Fewer
    <3>3. Agreed(c, {}, M, L)'
      BY <2>7, <3>1, <3>2, AgreedStays
    <3> QED
      BY <2>5, <3>3
  <2>8. ASSUME NEW w \in c.workers,
               OneAtWork(c, w, About(c, Repaired(c, w)), ListsOf(c, Repaired(c, w)))
        PROVE  OneAtWork(c, w, About(c, Repaired(c, w)), ListsOf(c, Repaired(c, w)))'
    <3>1. PICK A : A = About(c, Repaired(c, w))
      OBVIOUS
    <3>2. PICK B : B = ListsOf(c, Repaired(c, w))
      OBVIOUS
    <3>3. Fair(c, w, A, B) /\ Fewer(A, A) /\ Fewer(B, B)
      BY <2>8, <3>1, <3>2 DEF OneAtWork, Fewer
    <3>4. Fair(c, w, A, B)'
      BY <2>1, <3>3, FairStays
    <3>5. About(c, Repaired(c, w))' = A /\ ListsOf(c, Repaired(c, w))' = B
      BY <2>1, <3>1, <3>2
      DEF About, ListsOf, Ai!Players, Ai!Npcs, Ai!Objects, Repaired, Moved, Elems, Todo
    <3>6. Fair(c, w, About(c, Repaired(c, w)), ListsOf(c, Repaired(c, w)))'
      BY <3>4, <3>5
    <3>7. NoFree(c)' = NoFree(c)
      BY ProgramStays DEF NoFree
    <3> QED
      BY <2>1, <2>8, <3>6, <3>7 DEF OneAtWork, Keeping, Ai!Idle
  <2> QED
    BY <2>1, <2>2, <2>3, <2>4, <2>6, <2>7, <2>8 DEF RepairInv
<1> QED
  BY <1>1, <1>2, <1>3 DEF Ai!Next

LEMMA RepairInit ==
    ASSUME NEW c \in AiServers, Ai(c)!Init
    PROVE  NpcsIn(c) /\ RepairInv(c)
<1>1. NpcsIn(c)
  BY Sizes DEF Ai!Init, NpcsIn
<1>2. healed = {} /\ Ai(c)!AtRest
  BY DEF Ai!Init, Ai!AtRest
<1>3. About(c, {}) = {} /\ ListsOf(c, {}) = {}
  BY DEF About, ListsOf
<1>4. Agreed(c, {}, {}, {})
  BY DEF Agreed, Agrees, Comes, Parts
<1> QED
  BY <1>1, <1>2, <1>3, <1>4 DEF RepairInv

LEMMA RepairShows ==
    ASSUME NEW c \in AiServers, AiInv(c), Placed(c), RepairInv(c)
    PROVE  Ai(c)!MovesRepair
<1> SUFFICES ASSUME Ai(c)!AtRest, NEW p \in healed
             PROVE  /\ view[p] = Ai(c)!Sight(p)
                    /\ \A q \in Ai(c)!Sight(p) \cap Ai(c)!Players : p \in view[q]
  BY DEF Ai!MovesRepair
<1>1. /\ p \in Ai(c)!Players /\ p \in Ai(c)!Objects /\ state[p] = "INGAME"
      /\ view[p] \subseteq Ai(c)!Objects /\ Ai(c)!Players \subseteq Ai(c)!Objects
  BY Sizes DEF Placed, RepairInv, AiInv, AiType
<1>2. Agreed(c, {}, About(c, healed), ListsOf(c, healed))
  <2>1. \A w \in c.workers : task[w].op = "idle"
    BY DEF Ai!AtRest, Ai!Idle
  <2> QED
    BY <2>1 DEF RepairInv, OneAtWork
<1>3. ASSUME NEW o \in Ai(c)!Objects PROVE o \in view[p] <=> Near(c, p, o)
  <2>1. Agrees(c, {}, About(c, healed), ListsOf(c, healed), p, o)
    BY <1>1, <1>2 DEF Agreed
  <2>2. <<p, o>> \in About(c, healed) /\ <<p, o>> \in ListsOf(c, healed)
    BY <1>1 DEF About, ListsOf
  <2> QED
    BY <2>1, <2>2 DEF Agrees, Comes, Parts, Called
<1>4. \A o \in Ai(c)!Objects : o \in Ai(c)!Sight(p) <=> Near(c, p, o)
  BY <1>1, NearSight
<1>5. Ai(c)!Sight(p) \subseteq Ai(c)!Objects
  BY DEF Ai!Sight
<1>6. ASSUME NEW q \in Ai(c)!Sight(p) \cap Ai(c)!Players PROVE p \in view[q]
  <2>1. Near(c, q, p)
    BY <1>1, <1>4, <1>6, NearBoth
  <2>2. Agrees(c, {}, About(c, healed), ListsOf(c, healed), q, p)
    BY <1>1, <1>2, <1>6 DEF Agreed
  <2>3. <<q, p>> \in About(c, healed)
    BY <1>1, <1>6 DEF About
  <2> QED
    BY <2>1, <2>2, <2>3 DEF Agrees, Comes, Called
<1> QED
  BY <1>1, <1>3, <1>4, <1>5, <1>6

RepairsInv ==
    \A c \in AiServers :
        server = c => AiInv(c) /\ Placed(c) /\ NpcsIn(c) /\ RepairInv(c)

(* do_move: from any lists, right or wrong, a player's move that no other  *)
(* handler overlaps makes the player's own list what it sees and puts the  *)
(* player into the list of every player that it sees; and every handler    *)
(* that then runs alone - a login, another's move, an NPC's, a disconnect  *)
(* - keeps this so, for any number of objects and workers.                 *)
THEOREM LonelyMovesRepair == Spec => []MovesRepair
<1>1. Init => RepairsInv
  <2> SUFFICES ASSUME Init, NEW c \in AiServers, server = c
               PROVE  AiInv(c) /\ Placed(c) /\ NpcsIn(c) /\ RepairInv(c)
    BY DEF RepairsInv
  <2>1. Ai(c)!Init
    BY LectureServersAssumption DEF Init
  <2> QED
    BY <2>1, AiInit, PlacedInit, RepairInit
<1>2. RepairsInv /\ [Next]_vars => RepairsInv'
  <2> SUFFICES ASSUME RepairsInv, [Next]_vars, NEW c \in AiServers, server' = c
               PROVE  (AiInv(c) /\ Placed(c) /\ NpcsIn(c) /\ RepairInv(c))'
    BY DEF RepairsInv
  <2>1. server = c /\ [Ai(c)!Next]_(Ai(c)!vars)
    BY AiServerSteps
  <2>2. AiInv(c) /\ Placed(c) /\ NpcsIn(c) /\ RepairInv(c)
    BY <2>1 DEF RepairsInv
  <2>3. AiInv(c)' /\ Placed(c)' /\ NpcsIn(c)'
    BY <2>1, <2>2, AiSteps, PlacedSteps, NpcsStay
  <2>4. RepairInv(c)'
    BY <2>1, <2>2, <2>3, RepairSteps
  <2> QED
    BY <2>3, <2>4
<1>3. RepairsInv => MovesRepair
  BY RepairShows DEF RepairsInv, MovesRepair
<1> QED
  BY <1>1, <1>2, <1>3, PTL DEF Spec

-----------------------------------------------------------------------------
(***************************************************************************)
(* AiServer: what the clients show, with one worker and no failing send.   *)
(* The instructions about the pair <<q, o>> that a worker has left.        *)
(***************************************************************************)
Errands == {"insert", "meet", "erase", "part", "add", "remove", "move", "tell"}

Due(E, q, o) == {k \in Errands : <<k, q, o>> \in E}

(* The client of q shows o as q's list says, or K makes it; and shows      *)
(* nobody who is not near, unless q or o has stepped and not sorted yet.   *)
OnScreen(c, K, kept, stray, q, o) ==
    /\ state[q] = "INGAME" =>
          /\ o \in shown[q] /\ o \notin view[q] => "remove" \in K \/ "insert" \in K
          /\ o \in view[q] /\ o \notin shown[q] /\ kept
               => "add" \in K \/ "erase" \in K \/ "part" \in K
          /\ "erase" \in K /\ o \in shown[q] => "remove" \in K
          /\ o \in shown[q] /\ ~Near(c, q, o) /\ ~stray
               => "remove" \in K \/ "part" \in K \/ "tell" \in K
    /\ "remove" \in K => ~Near(c, q, o)
    /\ "add" \in K => Near(c, q, o) /\ (o \in view[q] \/ "insert" \in K)
    /\ "insert" \in K => "add" \in K \/ o \in shown[q]
    /\ "move" \in K => Near(c, q, o) /\ (kept => o \in shown[q])
    /\ "tell" \in K => state[o] # "INGAME"

(* Those that have stepped and not sorted yet.                             *)
Strays(c, w) ==
    {a \in Ai(c)!Objects : /\ Me("sort", a) \in Elems(Todo(w))
                           /\ Me("step", a) \notin Elems(Todo(w))}

All(c) == Ai(c)!Players \X Ai(c)!Objects
Kept(c) == {x \in All(c) : ~ Ai(c)!GivenUp(x[1]) /\ ~ Ai(c)!GivenUp(x[2])}

Displayed(c, w) ==
    \A q \in Ai(c)!Players, o \in Ai(c)!Objects :
        OnScreen(c, Due(Elems(Todo(w)), q, o), <<q, o>> \in Kept(c),
                 q \in Strays(c, w) \/ o \in Strays(c, w), q, o)

(* Who still shows the one that has stepped, it will tell.                 *)
Remembered(c, w) ==
    \A a \in Strays(c, w) : \A q \in Ai(c)!Players :
        q # a /\ state[q] = "INGAME" /\ a \in shown[q]
            => q \in IF a \in Ai(c)!Players THEN view[a] ELSE task[w].old

(* A move adds to others' screens only what it has just put into their     *)
(* lists, and a disconnect adds nothing.                                   *)
Disciplined(w) ==
    /\ \A i \in Elems(Todo(w)) :
          /\ i[1] = "meet" => task[w].op = "move" /\ i[2] # task[w].id
          /\ i[1] \in {"add", "move"} => task[w].op \notin {"quit", "abort"}
    /\ task[w].op = "move" /\ Todo(w) # <<>> =>
          \A i \in Elems(Tail(Todo(w))) : i[1] = "add" => i[2] = task[w].id

ScreenInv(c, w) ==
    /\ \A q \in Ai(c)!Players : state[q] = "CONNECTED" => shown[q] = {}
    /\ Displayed(c, w) /\ Remembered(c, w) /\ Disciplined(w)

ListInv(c) ==
    \A w \in c.workers : Fair(c, w, All(c), Kept(c)) /\ ScreenInv(c, w)


(* What an agreed pair says of the instructions left about it.             *)
ListedBy(c, K, kept, q, o) ==
    /\ "insert" \in K \/ "meet" \in K => Near(c, q, o)
    /\ "erase" \in K \/ "part" \in K => ~Near(c, q, o)
    /\ kept /\ ~Near(c, q, o) /\ o \in view[q] => "erase" \in K \/ "part" \in K

LEMMA AgreesListed ==
    ASSUME NEW c, NEW E, NEW Must, NEW Only, NEW q, NEW o, Agrees(c, E, Must, Only, q, o)
    PROVE  ListedBy(c, Due(E, q, o), <<q, o>> \in Only, q, o)
BY DEF Agrees, Comes, Parts, ListedBy, Due, Errands

(* Nothing about the pair changes, but perhaps that one leaves the game.   *)
LEMMA OnScreenStays ==
    ASSUME NEW c, NEW K, NEW kept, NEW kept2, NEW stray, NEW q, NEW o,
           OnScreen(c, K, kept, stray, q, o), kept2 => kept,
           Near(c, q, o)' <=> Near(c, q, o),
           state'[q] = "INGAME" => state[q] = "INGAME",
           state'[o] = "INGAME" => state[o] = "INGAME",
           o \in view'[q] <=> o \in view[q], o \in shown'[q] <=> o \in shown[q]
    PROVE  OnScreen(c, K, kept2, stray, q, o)'
BY DEF OnScreen

(* Nothing is left to be done about the pair; one of it may have stepped.  *)
LEMMA OnScreenMute ==
    ASSUME NEW c, NEW kept, NEW kept2, NEW stray, NEW stray2, NEW q, NEW o,
           OnScreen(c, {}, kept, stray, q, o), kept2 => kept,
           stray => stray2, Near(c, q, o)' \/ stray2 \/ ~ Near(c, q, o),
           state'[q] = "INGAME" => state[q] = "INGAME",
           o \in view'[q] <=> o \in view[q], o \in shown'[q] <=> o \in shown[q]
    PROVE  OnScreen(c, {}, kept2, stray2, q, o)'
BY DEF OnScreen

(* One of the pair leaves the game, and a player is to be told.            *)
LEMMA OnScreenFreed ==
    ASSUME NEW c, NEW K, NEW K2, NEW kept, NEW kept2, NEW q, NEW o,
           OnScreen(c, K, kept, FALSE, q, o), kept2 => kept,
           K \cap {"insert", "add", "move"} = {},
           K \subseteq K2, K2 \subseteq K \cup {"tell"},
           ~ Near(c, q, o)', state'[q] = "INGAME" => state[q] = "INGAME" /\ "tell" \in K2,
           state'[o] = "INGAME" => state[o] = "INGAME" /\ K2 = K,
           o \in view'[q] <=> o \in view[q], o \in shown'[q] <=> o \in shown[q]
    PROVE  OnScreen(c, K2, kept2, FALSE, q, o)'
BY DEF OnScreen

(* The instruction at hand is carried out on the pair that it is about.    *)
Carried(c, k, K, K2, q, o) ==
    LET Same(old, new) == o \in new[q] <=> o \in old[q]
    IN  \/ /\ k \in {"own", "ok", "move", "wake", "unlock", "free"}
           /\ K \ {k} \subseteq K2 /\ K2 \subseteq K
           /\ Same(view, view') /\ Same(shown, shown')
        \/ /\ k = "add" /\ k \in K
           /\ K \ {k} \subseteq K2 /\ K2 \subseteq K
           /\ Same(view, view') /\ o \in shown'[q]
        \/ /\ k = "remove" /\ k \in K
           /\ K \ {k} \subseteq K2 /\ K2 \subseteq K
           /\ Same(view, view') /\ o \notin shown'[q]
        \/ /\ k \in {"add", "remove", "move", "own", "ok"} /\ state[q] = "FREE"
           /\ K \ {k} \subseteq K2 /\ K2 \subseteq K
           /\ Same(view, view') /\ Same(shown, shown')
        \/ /\ k = "insert" /\ k \in K
           /\ K \ {k} \subseteq K2 /\ K2 \subseteq K
           /\ o \in view'[q] /\ Same(shown, shown')
        \/ /\ k = "erase" /\ k \in K
           /\ K \ {k} \subseteq K2 /\ K2 \subseteq K
           /\ o \notin view'[q] /\ Same(shown, shown')
        \/ /\ k = "meet" /\ k \in K /\ "add" \notin K
           /\ K \ {k} \subseteq K2
           /\ IF o \in view[q] THEN K2 \subseteq K \cup {"move"}
              ELSE "add" \in K2 /\ K2 \subseteq K \cup {"add"}
           /\ o \in view'[q] /\ Same(shown, shown')
        \/ /\ k = "part" /\ k \in K
           /\ K \ {k} \subseteq K2 /\ K2 \subseteq K \cup {"remove"}
           /\ o \in view[q] => "remove" \in K2
           /\ o \notin view'[q] /\ Same(shown, shown')
        \/ /\ k = "visit" /\ Near(c, q, o)
           /\ K \subseteq K2 /\ {"insert", "add"} \subseteq K2
           /\ K2 \subseteq K \cup {"insert", "add"}
           /\ Same(view, view') /\ Same(shown, shown')
        \/ /\ k = "tell" /\ k \in K
           /\ K \ {k} \subseteq K2 /\ K2 \subseteq K \cup {"remove"}
           /\ state[q] = "INGAME" => "remove" \in K2
           /\ Same(view, view') /\ Same(shown, shown')

LEMMA OnScreenCarried ==
    ASSUME NEW c, NEW k, NEW K, NEW K2, NEW kept, NEW kept2, NEW q, NEW o,
           OnScreen(c, K, kept, FALSE, q, o), ListedBy(c, K, kept, q, o),
           Carried(c, k, K, K2, q, o), kept2 => kept,
           Near(c, q, o)' <=> Near(c, q, o),
           state'[q] = state[q], state'[o] = state[o]
    PROVE  OnScreen(c, K2, kept2, FALSE, q, o)'
<1>1. Near(c, q, o) => state[q] = "INGAME" /\ state[o] = "INGAME"
  BY DEF Near
<1>2. CASE K \ {k} \subseteq K2 /\ K2 \subseteq K
  BY <1>1, <1>2 DEF Carried, OnScreen, ListedBy
<1>3. CASE k = "meet"
  BY <1>1, <1>3 DEF Carried, OnScreen, ListedBy
<1>4. CASE k = "part"
  BY <1>1, <1>4 DEF Carried, OnScreen, ListedBy
<1>5. CASE k = "visit"
  BY <1>1, <1>5 DEF Carried, OnScreen, ListedBy
<1>6. CASE k = "tell"
  BY <1>1, <1>6 DEF Carried, OnScreen, ListedBy
<1> QED
  BY <1>2, <1>3, <1>4, <1>5, <1>6 DEF Carried


LEMMA DueOne ==
    ASSUME NEW k, NEW f, NEW s, NEW q, NEW o
    PROVE  /\ ~ (q = f /\ o = s) => Due({<<k, f, s>>}, q, o) = {}
           /\ q = f /\ o = s => Due({<<k, f, s>>}, q, o) = {k} \cap Errands
BY DEF Due

(* Where nothing about the lists and screens is left to be done.           *)
LEMMA DueMute ==
    ASSUME NEW E, \A i \in E : i[1] \notin Errands, NEW q, NEW o
    PROVE  Due(E, q, o) = {}
<1>1. \A k : <<k, q, o>>[1] = k
  OBVIOUS
<1> QED
  BY <1>1 DEF Due

(* The first of what is left is done, and more has come before the rest.   *)
LEMMA TailOf ==
    ASSUME NEW S, NEW A \in Seq(S), NEW R \in Seq(S)
    PROVE  /\ A = <<>> => A \o R = R
           /\ \A x \in S : A = <<x>> => Tail(A \o R) = R
           /\ A # <<>> => A \o R # <<>> /\ Elems(Tail(A \o R)) \subseteq Elems(A) \cup Elems(R)
<1>1. A = <<>> => A \o R = R
  OBVIOUS
<1>2. ASSUME NEW x \in S, A = <<x>> PROVE Tail(A \o R) = R
  BY <1>2, Cons
<1>3. A # <<>> => A \o R # <<>> /\ Elems(Tail(A \o R)) \subseteq Elems(A) \cup Elems(R)
  <2> SUFFICES ASSUME A # <<>>
               PROVE  A \o R # <<>> /\ Elems(Tail(A \o R)) \subseteq Elems(A) \cup Elems(R)
    OBVIOUS
  <2>1. A \o R # <<>> /\ A \o R \in Seq(S)
    BY Prefix
  <2>2. Elems(A \o R) = Elems(A) \cup Elems(R)
    BY ElemsJoin
  <2>3. Elems(Tail(A \o R)) \subseteq Elems(A \o R)
    BY <2>1, ElemsStep
  <2> QED
    BY <2>1, <2>2, <2>3
<1> QED
  BY <1>1, <1>2, <1>3

(* A worker goes on, after more, which keeps to what Disciplined says.     *)
GoesOnBy(c, w, more) ==
    /\ more \in Seq(Triples(c)) /\ task'[w].todo = more \o Tail(task[w].todo)
    /\ task'[w].op = task[w].op /\ task'[w].id = task[w].id
    /\ \A i \in Elems(more) :
          /\ i[1] # "meet" /\ i[1] # "sort"
          /\ i[1] \in {"add", "move"} => task[w].op \notin {"quit", "abort"}
    /\ \/ task[w].op # "move" \/ more = <<>> \/ \E x \in Triples(c) : more = <<x>>
       \/ \A i \in Elems(more) : i[1] # "add"

LEMMA ScreenGoes ==
    ASSUME NEW c \in AiServers, NEW w, Todo(w) \in Seq(Triples(c)), Todo(w) # <<>>,
           Disciplined(w), NEW more, GoesOnBy(c, w, more),
           NEW F, F = Elems(more) \cup Elems(Tail(Todo(w))), \A i \in F : i[1] # "sort",
           \A q \in Ai(c)!Players : state'[q] = "CONNECTED" => shown'[q] = {},
           \A q \in Ai(c)!Players, o \in Ai(c)!Objects :
              OnScreen(c, Due(F, q, o), <<q, o>> \in Kept(c), FALSE, q, o)'
    PROVE  ScreenInv(c, w)'
<1>0. /\ more \in Seq(Triples(c)) /\ task'[w].todo = more \o Tail(task[w].todo)
      /\ task'[w].op = task[w].op /\ task'[w].id = task[w].id
      /\ \A i \in Elems(more) :
            i[1] # "meet" /\ (i[1] \in {"add", "move"} => task[w].op \notin {"quit", "abort"})
      /\ \/ task[w].op # "move" \/ more = <<>> \/ \E x \in Triples(c) : more = <<x>>
         \/ \A i \in Elems(more) : i[1] # "add"
  BY DEF GoesOnBy
<1>1. PICK R : R = Tail(Todo(w))
  OBVIOUS
<1>2. PICK T : T = Todo(w)
  OBVIOUS
<1>3. PICK op : op = task[w].op
  OBVIOUS
<1>4. PICK a : a = task[w].id
  OBVIOUS
<1>5. R \in Seq(Triples(c)) /\ Elems(T) = {Head(T)} \cup Elems(R)
  BY <1>1, <1>2, ElemsStep
<1>6. Todo(w)' = more \o R /\ task'[w].op = op /\ task'[w].id = a
  BY <1>0, <1>1, <1>3, <1>4 DEF Todo
<1>7. Elems(Todo(w))' = F
  <2>1. Elems(more \o R) = Elems(more) \cup Elems(R)
    BY <1>0, <1>5, ElemsJoin
  <2>2. Elems(more \o R) = F
    BY <1>1, <2>1
  <2>3. Elems(Todo(w)') = F
    BY <1>6, <2>2
  <2> QED
    BY <2>3 DEF Elems
<1>8. Strays(c, w)' = {}
  <2>1. \A b : Me("sort", b)[1] = "sort"
    BY DEF Me
  <2>2. \A b : Me("sort", b) \notin F
    BY <2>1
  <2> QED
    BY <1>7, <2>2 DEF Strays
<1>9. Displayed(c, w)'
  <2>1. Ai(c)!Players' = Ai(c)!Players /\ Ai(c)!Objects' = Ai(c)!Objects
    BY ProgramStays
  <2> QED
    BY <1>7, <1>8, <2>1 DEF Displayed
<1>10. Remembered(c, w)'
  BY <1>8 DEF Remembered
<1>11. Disciplined(w)'
  <2>1. \A i \in Elems(T) :
          /\ i[1] = "meet" => op = "move" /\ i[2] # a
          /\ i[1] \in {"add", "move"} => op \notin {"quit", "abort"}
    BY <1>2, <1>3, <1>4 DEF Disciplined
  <2>2. \A i \in F :
          /\ i[1] = "meet" => op = "move" /\ i[2] # a
          /\ i[1] \in {"add", "move"} => op \notin {"quit", "abort"}
    BY <1>0, <1>1, <1>3, <1>5, <2>1
  <2>3. op = "move" => \A i \in Elems(R) : i[1] = "add" => i[2] = a
    BY <1>1, <1>2, <1>3, <1>4 DEF Disciplined
  <2>4. ASSUME op = "move", more \o R # <<>>, NEW i \in Elems(Tail(more \o R)), i[1] = "add"
        PROVE  i[2] = a
    <3>1. CASE more = <<>>
      <4>1. more \o R = R
        BY <1>0, <1>5, <3>1, TailOf
      <4>2. Elems(Tail(R)) \subseteq Elems(R)
        BY <1>5, <2>4, <4>1, ElemsStep
      <4> QED
        BY <2>3, <2>4, <4>1, <4>2
    <3>2. CASE more # <<>>
      <4>1. /\ \A x \in Triples(c) : more = <<x>> => Tail(more \o R) = R
            /\ Elems(Tail(more \o R)) \subseteq Elems(more) \cup Elems(R)
        BY <1>0, <1>5, <3>2, TailOf
      <4>2. (\E x \in Triples(c) : more = <<x>>) \/ \A j \in Elems(more) : j[1] # "add"
        BY <1>0, <1>3, <2>4, <3>2
      <4>3. i \in Elems(R)
        <5>1. CASE \E x \in Triples(c) : more = <<x>>
          BY <2>4, <4>1, <5>1
        <5>2. CASE \A j \in Elems(more) : j[1] # "add"
          BY <2>4, <4>1, <5>2
        <5> QED
          BY <4>2, <5>1, <5>2
      <4> QED
        BY <2>3, <2>4, <4>3
    <3> QED
      BY <3>1, <3>2
  <2>5. PICK Z : Z = more \o R
    OBVIOUS
  <2>6. PICK V : V = Elems(Tail(Z))
    OBVIOUS
  <2>7. Todo(w)' = Z /\ Elems(Tail(Todo(w)))' = V
    <3>1. Todo(w)' = Z
      BY <1>6, <2>5
    <3> QED
      BY <2>6, <3>1 DEF Elems
  <2>8. op = "move" /\ Z # <<>> => \A i \in V : i[1] = "add" => i[2] = a
    BY <2>4, <2>5, <2>6
  <2> QED
    BY <1>6, <1>7, <2>2, <2>7, <2>8 DEF Disciplined
<1> QED
  BY <1>9, <1>10, <1>11 DEF ScreenInv


LEMMA NoStrays ==
    ASSUME NEW c \in AiServers, NEW w, NEW Must, NEW Only, Settled(c, w, Must, Only)
    PROVE  Strays(c, w) = {}
<1>1. \A a : Me("sort", a)[1] = "sort"
  BY DEF Me
<1>2. \A i \in Elems(Todo(w)) : i[1] # "sort"
  BY DEF Settled, Later
<1>3. \A a : Me("sort", a) \notin Elems(Todo(w))
  BY <1>1, <1>2
<1> QED
  BY <1>3 DEF Strays

LEMMA OnScreenNow ==
    ASSUME NEW c, NEW K, NEW kept, NEW stray, NEW q, NEW o,
           OnScreen(c, K, kept, stray, q, o), ~ stray
    PROVE  OnScreen(c, K, kept, FALSE, q, o)
BY DEF OnScreen

(* Fewer pairs are kept, as more slots are given up.                       *)
KeptLess(c) == \A x : x \in Kept(c)' => x \in Kept(c)

(* The lists and the screens are as they were, of a pair.                  *)
Untouched(q, o) ==
    (o \in view'[q] <=> o \in view[q]) /\ (o \in shown'[q] <=> o \in shown[q])

(* A worker that has sorted or entered goes on, and for every pair either  *)
(* nothing changes or the instruction at hand is carried out on it.        *)
LEMMA ScreenCarries ==
    ASSUME NEW c \in AiServers, NEW w, KeptLess(c),
           Settled(c, w, All(c), Kept(c)), ScreenInv(c, w), Todo(w) # <<>>,
           NEW k, NEW more, GoesOnBy(c, w, more),
           NEW E, E = Elems(Todo(w)), NEW F, F = Elems(more) \cup Elems(Tail(Todo(w))),
           UNCHANGED <<pos, state>>,
           \A q \in Ai(c)!Players : state[q] = "CONNECTED" /\ shown[q] = {} => shown'[q] = {},
           \A q \in Ai(c)!Players, o \in Ai(c)!Objects :
              \/ Due(F, q, o) = Due(E, q, o) /\ Untouched(q, o)
              \/ Carried(c, k, Due(E, q, o), Due(F, q, o), q, o)
    PROVE  ScreenInv(c, w)'
<1>1. Strays(c, w) = {}
  BY NoStrays
<1>2. Todo(w) \in Seq(Triples(c)) /\ Disciplined(w)
  BY DEF Settled, ScreenInv
<1>3. ASSUME NEW i \in F PROVE i[1] # "sort"
  <2>1. Elems(Tail(Todo(w))) \subseteq Later(c, task[w].op)
    BY SettledHand
  <2>2. \A j \in Elems(more) : j[1] # "sort"
    BY DEF GoesOnBy
  <2> QED
    BY <1>3, <2>1, <2>2 DEF Later
<1>4. ASSUME NEW q \in Ai(c)!Players, state'[q] = "CONNECTED" PROVE shown'[q] = {}
  BY <1>4 DEF ScreenInv
<1>5. ASSUME NEW q \in Ai(c)!Players, NEW o \in Ai(c)!Objects
      PROVE  OnScreen(c, Due(F, q, o), <<q, o>> \in Kept(c), FALSE, q, o)'
  <2>1. PICK K : K = Due(E, q, o)
    OBVIOUS
  <2>2. PICK K2 : K2 = Due(F, q, o)
    OBVIOUS
  <2>3. PICK kept : kept = (<<q, o>> \in Kept(c))
    OBVIOUS
  <2>4. OnScreen(c, K, kept, FALSE, q, o)
    <3>1. OnScreen(c, K, kept, q \in Strays(c, w) \/ o \in Strays(c, w), q, o)
      BY <2>1, <2>3 DEF ScreenInv, Displayed
    <3> QED
      BY <1>1, <3>1, OnScreenNow
  <2>5. ListedBy(c, K, kept, q, o)
    <3>1. Agrees(c, E, All(c), Kept(c), q, o)
      BY DEF Settled, Agreed
    <3> QED
      BY <2>1, <2>3, <3>1, AgreesListed
  <2>6. (<<q, o>> \in Kept(c))' => kept
    BY <2>3 DEF KeptLess
  <2>7. PICK kept2 : kept2 = (<<q, o>> \in Kept(c))'
    OBVIOUS
  <2>8. Near(c, q, o)' <=> Near(c, q, o)
    BY NearStays
  <2>9. (K2 = K /\ Untouched(q, o)) \/ Carried(c, k, K, K2, q, o)
    BY <2>1, <2>2
  <2>10. state'[q] = state[q] /\ state'[o] = state[o] /\ (kept2 => kept)
    BY <2>6, <2>7
  <2>11. OnScreen(c, K2, kept2, FALSE, q, o)'
    BY <2>4, <2>5, <2>8, <2>9, <2>10, OnScreenStays, OnScreenCarried DEF Untouched
  <2> QED
    BY <2>2, <2>7, <2>11 DEF OnScreen
<1> QED
  BY <1>2, <1>3, <1>4, <1>5, ScreenGoes

(* The instructions E, of which <<k, f, s>> is carried out: A comes in its *)
(* place, and F are the next.                                              *)
Replaced(E, k, f, s, A, F) ==
    \E R : /\ \A x : x \in E <=> x = <<k, f, s>> \/ x \in R
           /\ \A x : x \in F <=> x \in A \/ x \in R

LEMMA DueGoes ==
    ASSUME NEW k, NEW f, NEW s, NEW A, NEW E, NEW F, Replaced(E, k, f, s, A, F)
    PROVE  /\ \A q, o : ~ (q = f /\ o = s) /\ Due(A, q, o) = {} => Due(F, q, o) = Due(E, q, o)
           /\ Due(E, f, s) \ {k} \subseteq Due(F, f, s) /\ Due(A, f, s) \subseteq Due(F, f, s)
           /\ Due(F, f, s) \subseteq Due(E, f, s) \cup Due(A, f, s)
           /\ k \in Errands => k \in Due(E, f, s)
<1>1. PICK R : /\ \A x : x \in E <=> x = <<k, f, s>> \/ x \in R
               /\ \A x : x \in F <=> x \in A \/ x \in R
  BY DEF Replaced
<1>2. \A j, q, o : /\ <<j, q, o>> \in E <=> (j = k /\ q = f /\ o = s) \/ <<j, q, o>> \in R
                   /\ <<j, q, o>> \in F <=> <<j, q, o>> \in A \/ <<j, q, o>> \in R
  BY <1>1
<1>3. \A j, q, o, X : j \in Due(X, q, o) <=> j \in Errands /\ <<j, q, o>> \in X
  BY DEF Due
<1>4. ASSUME NEW q, NEW o, ~ (q = f /\ o = s), Due(A, q, o) = {}
      PROVE  Due(F, q, o) = Due(E, q, o)
  <2>1. \A j \in Errands : <<j, q, o>> \notin A
    BY <1>3, <1>4
  <2>2. \A j \in Errands : <<j, q, o>> \in E <=> <<j, q, o>> \in F
    BY <1>2, <1>4, <2>1
  <2> QED
    BY <2>2 DEF Due
<1>5. Due(E, f, s) \ {k} \subseteq Due(F, f, s) /\ Due(A, f, s) \subseteq Due(F, f, s)
  BY <1>2, <1>3
<1>6. Due(F, f, s) \subseteq Due(E, f, s) \cup Due(A, f, s)
  BY <1>2, <1>3
<1>7. k \in Errands => k \in Due(E, f, s)
  BY <1>2, <1>3
<1> QED
  BY <1>4, <1>5, <1>6, <1>7

(* The instruction at hand is <<k, f, s>>, and all that is done, or left   *)
(* to be done after, is about its pair: J in its place.                    *)
OneDone(c, w, k, f, s, more, J, K) ==
    /\ Head(Todo(w)) = <<k, f, s>> /\ GoesOnBy(c, w, more) /\ UNCHANGED <<pos, state>>
    /\ \A q \in Ai(c)!Players : state[q] = "CONNECTED" /\ shown[q] = {} => shown'[q] = {}
    /\ \A q \in Ai(c)!Players, o \in Ai(c)!Objects : ~ (q = f /\ o = s) => Untouched(q, o)
    /\ Due(Elems(more), f, s) = J
    /\ \A q, o : ~ (q = f /\ o = s) => Due(Elems(more), q, o) = {}
    /\ K = Due(Elems(Todo(w)), f, s)
    /\ f \in Ai(c)!Players =>
          \A K2 : K \ {k} \subseteq K2 /\ J \subseteq K2 /\ K2 \subseteq K \cup J
                     /\ (k \in Errands => k \in K)
                   => Carried(c, k, K, K2, f, s)

LEMMA ScreenOne ==
    ASSUME NEW c \in AiServers, NEW w, KeptLess(c),
           Settled(c, w, All(c), Kept(c)), ScreenInv(c, w), Todo(w) # <<>>,
           NEW k, NEW f, NEW s, NEW more, NEW J, NEW K, OneDone(c, w, k, f, s, more, J, K)
    PROVE  ScreenInv(c, w)'
<1>0. /\ Head(Todo(w)) = <<k, f, s>> /\ GoesOnBy(c, w, more) /\ UNCHANGED <<pos, state>>
      /\ \A q \in Ai(c)!Players : state[q] = "CONNECTED" /\ shown[q] = {} => shown'[q] = {}
      /\ \A q \in Ai(c)!Players, o \in Ai(c)!Objects : ~ (q = f /\ o = s) => Untouched(q, o)
      /\ Due(Elems(more), f, s) = J
      /\ \A q, o : ~ (q = f /\ o = s) => Due(Elems(more), q, o) = {}
      /\ K = Due(Elems(Todo(w)), f, s)
      /\ f \in Ai(c)!Players =>
            \A K2 : K \ {k} \subseteq K2 /\ J \subseteq K2 /\ K2 \subseteq K \cup J
                       /\ (k \in Errands => k \in K)
                     => Carried(c, k, K, K2, f, s)
  BY DEF OneDone
<1>1. PICK E : E = Elems(Todo(w))
  OBVIOUS
<1>2. PICK A : A = Elems(more)
  OBVIOUS
<1>3. PICK R : R = Elems(Tail(Todo(w)))
  OBVIOUS
<1>4. PICK F : F = A \cup R
  OBVIOUS
<1>5. Replaced(E, k, f, s, A, F)
  <2>1. E = {<<k, f, s>>} \cup R
    BY <1>0, <1>1, <1>3, SettledHand
  <2> QED
    BY <1>4, <2>1 DEF Replaced
<1>6. /\ \A q, o : ~ (q = f /\ o = s) => Due(F, q, o) = Due(E, q, o)
      /\ K \ {k} \subseteq Due(F, f, s) /\ J \subseteq Due(F, f, s)
      /\ Due(F, f, s) \subseteq K \cup J
      /\ k \in Errands => k \in K
      /\ Due(E, f, s) = K
  <2>1. Due(A, f, s) = J /\ \A q, o : ~ (q = f /\ o = s) => Due(A, q, o) = {}
    BY <1>0, <1>2
  <2>2. Due(E, f, s) = K
    BY <1>0, <1>1
  <2> QED
    BY <1>5, <2>1, <2>2, DueGoes
<1>7. f \in Ai(c)!Players => Carried(c, k, Due(E, f, s), Due(F, f, s), f, s)
  BY <1>0, <1>6
<1>8. ASSUME NEW q \in Ai(c)!Players, NEW o \in Ai(c)!Objects
      PROVE  \/ Due(F, q, o) = Due(E, q, o) /\ Untouched(q, o)
             \/ Carried(c, k, Due(E, q, o), Due(F, q, o), q, o)
  BY <1>0, <1>6, <1>7
<1>9. F = Elems(more) \cup Elems(Tail(Todo(w)))
  BY <1>2, <1>3, <1>4
<1> QED
  BY <1>0, <1>1, <1>8, <1>9, ScreenCarries


LEMMA MoreNone ==
    ASSUME NEW c \in AiServers, AiInv(c), NEW w \in c.workers, Ai(c)!Go(w, <<>>)
    PROVE  GoesOnBy(c, w, <<>>) /\ \A q, o : Due(Elems(<<>>), q, o) = {}
<1>1. /\ task'[w].todo = <<>> \o Tail(task[w].todo)
      /\ task'[w].op = task[w].op /\ task'[w].id = task[w].id
  BY GoesWith
<1>2. Elems(<<>>) = {} /\ <<>> \in Seq(Triples(c))
  BY ElemsNone
<1>3. \A q, o : Due(Elems(<<>>), q, o) = {}
  BY <1>2 DEF Due
<1> QED
  BY <1>1, <1>2, <1>3 DEF GoesOnBy

LEMMA MoreOne ==
    ASSUME NEW c \in AiServers, AiInv(c), NEW w \in c.workers,
           NEW j \in AiOps \ {"meet", "sort"},
           NEW f \in Ai(c)!Objects, NEW s \in Ai(c)!Objects, Ai(c)!Go(w, << <<j, f, s>> >>),
           j \in {"add", "move"} => task[w].op \notin {"quit", "abort"}
    PROVE  /\ GoesOnBy(c, w, << <<j, f, s>> >>)
           /\ Due(Elems(<< <<j, f, s>> >>), f, s) = {j} \cap Errands
           /\ \A q, o : ~ (q = f /\ o = s) => Due(Elems(<< <<j, f, s>> >>), q, o) = {}
<1>1. PICK x : x = <<j, f, s>>
  OBVIOUS
<1>2. PICK more : more = <<x>>
  OBVIOUS
<1>3. x \in Triples(c) /\ x[1] = j
  BY <1>1 DEF Triples
<1>4. more \in Seq(Triples(c)) /\ Elems(more) = {x}
  BY <1>2, <1>3, ShortIn
<1>5. /\ task'[w].todo = more \o Tail(task[w].todo)
      /\ task'[w].op = task[w].op /\ task'[w].id = task[w].id
  <2>1. Ai(c)!Go(w, more)
    BY <1>1, <1>2
  <2> QED
    BY <2>1, GoesWith
<1>6. GoesOnBy(c, w, more)
  <2>1. \A i \in Elems(more) :
           /\ i[1] # "meet" /\ i[1] # "sort"
           /\ i[1] \in {"add", "move"} => task[w].op \notin {"quit", "abort"}
    BY <1>3, <1>4
  <2>2. \E y \in Triples(c) : more = <<y>>
    BY <1>2, <1>3
  <2> QED
    BY <1>4, <1>5, <2>1, <2>2 DEF GoesOnBy
<1>7. /\ Due(Elems(more), f, s) = {j} \cap Errands
      /\ \A q, o : ~ (q = f /\ o = s) => Due(Elems(more), q, o) = {}
  <2>1. Elems(more) = {<<j, f, s>>}
    BY <1>1, <1>4
  <2>2. Due({<<j, f, s>>}, f, s) = {j} \cap Errands
    BY DueOne
  <2>3. \A q, o : ~ (q = f /\ o = s) => Due({<<j, f, s>>}, q, o) = {}
    BY DueOne
  <2> QED
    BY <2>1, <2>2, <2>3
<1> QED
  BY <1>1, <1>2, <1>6, <1>7

(* What comes in its place is about no list and no screen.                 *)
QuietlyDone(c, w, k, f, s, more, K) ==
    /\ Head(Todo(w)) = <<k, f, s>> /\ GoesOnBy(c, w, more) /\ UNCHANGED <<pos, state>>
    /\ \A q \in Ai(c)!Players : state[q] = "CONNECTED" /\ shown[q] = {} => shown'[q] = {}
    /\ \A q \in Ai(c)!Players, o \in Ai(c)!Objects : ~ (q = f /\ o = s) => Untouched(q, o)
    /\ \A q, o : Due(Elems(more), q, o) = {}
    /\ K = Due(Elems(Todo(w)), f, s)
    /\ f \in Ai(c)!Players =>
          \A K2 : K \ {k} \subseteq K2 /\ K2 \subseteq K /\ (k \in Errands => k \in K)
                   => Carried(c, k, K, K2, f, s)

LEMMA ScreenQuiet ==
    ASSUME NEW c \in AiServers, NEW w, KeptLess(c),
           Settled(c, w, All(c), Kept(c)), ScreenInv(c, w), Todo(w) # <<>>,
           NEW k, NEW f, NEW s, NEW more, NEW K, QuietlyDone(c, w, k, f, s, more, K)
    PROVE  ScreenInv(c, w)'
<1>1. OneDone(c, w, k, f, s, more, {}, K)
  BY DEF QuietlyDone, OneDone
<1> QED
  BY <1>1, ScreenOne

(* The messages, and what is about no list.                                *)
LEMMA ScreenPlain ==
    ASSUME NEW c \in AiServers, AiInv(c), Placed(c), NEW w \in c.workers, KeptLess(c),
           Settled(c, w, All(c), Kept(c)), ScreenInv(c, w), Todo(w) # <<>>,
           NEW k, Ai(c)!At(w, k),
           \/ Ai(c)!Unlock(w) \/ Ai(c)!Wake(w) \/ Ai(c)!Deliver(w)
           \/ Ai(c)!SendFails(w) /\ state[Ai(c)!First(w)] = "FREE"
    PROVE  ScreenInv(c, w)'
<1>1. PICK f : f = Ai(c)!First(w)
  OBVIOUS
<1>2. PICK s : s = Ai(c)!Second(w)
  OBVIOUS
<1>3. /\ Head(Todo(w)) = <<k, f, s>> /\ Head(task[w].todo)[1] = k
      /\ f \in Ai(c)!Objects /\ s \in Ai(c)!Objects
  <2>1. task[w].todo # <<>>
    BY DEF Todo
  <2>2. Head(task[w].todo) = <<k, Ai(c)!First(w), Ai(c)!Second(w)>>
    BY <2>1, AiHand
  <2>3. Ai(c)!First(w) \in Ai(c)!Objects /\ Ai(c)!Second(w) \in Ai(c)!Objects
    BY <2>1, AiHand
  <2> QED
    BY <1>1, <1>2, <2>2, <2>3 DEF Todo
<1>4. \A j : Ai(c)!At(w, j) <=> j = k
  BY DEF Ai!At
<1>5. PICK K : K = Due(Elems(Todo(w)), f, s)
  OBVIOUS
<1>6. shown \in [Ai(c)!Players -> SUBSET Ai(c)!Objects]
  BY DEF Placed
<1>7. k \notin {"ok", "place", "enter", "step", "copy", "look", "sort"}
  <2>1. Head(Todo(w)) \in Later(c, task[w].op) /\ Head(Todo(w))[1] = k
    BY <1>3, SettledHand
  <2> QED
    BY <2>1 DEF Later
<1>8. ASSUME Ai(c)!Go(w, <<>>), UNCHANGED <<pos, state, view>>,
             \/ UNCHANGED shown /\ k \in {"own", "ok", "move", "wake", "unlock"}
             \/ k = "add" /\ shown' = [shown EXCEPT ![f] = shown[f] \cup {s}]
             \/ k = "remove" /\ shown' = [shown EXCEPT ![f] = shown[f] \ {s}]
      PROVE  ScreenInv(c, w)'
  <2>1. GoesOnBy(c, w, <<>>) /\ \A q, o : Due(Elems(<<>>), q, o) = {}
    BY <1>8, MoreNone
  <2>2. \A q \in Ai(c)!Players, o \in Ai(c)!Objects : ~ (q = f /\ o = s) => Untouched(q, o)
    BY <1>3, <1>6, <1>8 DEF Untouched
  <2>3. ASSUME f \in Ai(c)!Players, NEW K2, K \ {k} \subseteq K2,
               K2 \subseteq K, k \in Errands => k \in K
        PROVE  Carried(c, k, K, K2, f, s)
    <3>1. CASE UNCHANGED shown /\ k \in {"own", "ok", "move", "wake", "unlock"}
      BY <1>8, <2>3, <3>1 DEF Carried
    <3>2. CASE k = "add" /\ shown' = [shown EXCEPT ![f] = shown[f] \cup {s}]
      <4>1. s \in shown'[f] /\ k \in K
        BY <1>6, <2>3, <3>2 DEF Errands
      <4> QED
        BY <1>8, <2>3, <3>2, <4>1 DEF Carried
    <3>3. CASE k = "remove" /\ shown' = [shown EXCEPT ![f] = shown[f] \ {s}]
      <4>1. s \notin shown'[f] /\ k \in K
        BY <1>6, <2>3, <3>3 DEF Errands
      <4> QED
        BY <1>8, <2>3, <3>3, <4>1 DEF Carried
    <3> QED
      BY <1>8, <3>1, <3>2, <3>3
  <2>4. ASSUME NEW q \in Ai(c)!Players, state[q] = "CONNECTED", shown[q] = {}
        PROVE  shown'[q] = {}
    <3>1. CASE k # "add" \/ q # f
      BY <1>6, <1>8, <2>4, <3>1
    <3>2. CASE k = "add" /\ q = f
      <4>1. "add" \in Due(Elems(Todo(w)), f, s)
        <5>1. <<"add", f, s>> \in Elems(Todo(w))
          BY <1>3, <3>2, SettledHand
        <5> QED
          BY <5>1 DEF Due, Errands
      <4>2. Near(c, q, s)
        BY <1>3, <3>2, <4>1 DEF ScreenInv, Displayed, OnScreen
      <4> QED
        BY <2>4, <4>2 DEF Near
    <3> QED
      BY <3>1, <3>2
  <2> QED
    <3>1. PICK more : more = <<>>
      OBVIOUS
    <3>2. GoesOnBy(c, w, more) /\ \A q, o : Due(Elems(more), q, o) = {}
      BY <2>1, <3>1
    <3>3. \A q \in Ai(c)!Players : state[q] = "CONNECTED" /\ shown[q] = {} => shown'[q] = {}
      BY <2>4
    <3>4. UNCHANGED <<pos, state>>
      BY <1>8
    <3>5. Head(Todo(w)) = <<k, f, s>>
      BY <1>3
    <3>6. QuietlyDone(c, w, k, f, s, more, K)
      BY <1>5, <2>2, <2>3, <3>2, <3>3, <3>4, <3>5 DEF QuietlyDone
    <3> QED
      BY <3>6, ScreenQuiet
<1>9. CASE Ai(c)!Unlock(w)
  BY <1>4, <1>8, <1>9 DEF Ai!Unlock
<1>10. CASE Ai(c)!Wake(w)
  BY <1>4, <1>8, <1>10 DEF Ai!Wake
<1>11. CASE Ai(c)!Deliver(w)
  <2>1. k \in {"own", "add", "move", "remove"}
    BY <1>4, <1>7, <1>11 DEF Ai!Deliver, Ai!Sends
  <2>2. shown' = [shown EXCEPT ![f] = IF k = "add" THEN shown[f] \cup {s}
                                       ELSE IF k = "remove" THEN shown[f] \ {s} ELSE shown[f]]
    <3>1. shown' = [shown EXCEPT ![f] = IF Ai(c)!At(w, "add") THEN @ \cup {s}
                                         ELSE IF Ai(c)!At(w, "remove") THEN @ \ {s} ELSE @]
      BY <1>1, <1>2, <1>11 DEF Ai!Deliver
    <3>2. (Ai(c)!At(w, "add") <=> k = "add") /\ (Ai(c)!At(w, "remove") <=> k = "remove")
      BY <1>4
    <3> QED
      BY <3>1, <3>2
  <2>3. k \notin {"add", "remove"} => UNCHANGED shown
    BY <1>6, <2>2
  <2>4. /\ k = "add" => shown' = [shown EXCEPT ![f] = shown[f] \cup {s}]
        /\ k = "remove" => shown' = [shown EXCEPT ![f] = shown[f] \ {s}]
    BY <2>2
  <2> QED
    BY <1>8, <1>11, <2>1, <2>3, <2>4 DEF Ai!Deliver
<1>12. CASE Ai(c)!SendFails(w) /\ state[Ai(c)!First(w)] = "FREE"
  <2>1. k \in {"own", "add", "move", "remove"}
    BY <1>4, <1>7, <1>12 DEF Ai!SendFails, Ai!Sends
  <2>2. Ai(c)!Go(w, << <<"free", f, f>> >>) /\ UNCHANGED <<pos, state, view, shown>>
    BY <1>1, <1>12 DEF Ai!SendFails, Ai!DisconnectProgram
  <2>3. PICK more : more = << <<"free", f, f>> >>
    OBVIOUS
  <2>4. "free" \in AiOps \ {"meet", "sort"} /\ "free" \notin Errands
    BY DEF AiOps, Errands
  <2>5. /\ GoesOnBy(c, w, more)
        /\ Due(Elems(more), f, f) = {"free"} \cap Errands
        /\ \A q, o : ~ (q = f /\ o = f) => Due(Elems(more), q, o) = {}
    BY <1>3, <2>2, <2>3, <2>4, MoreOne
  <2>6. {"free"} \cap Errands = {}
    BY <2>4
  <2>7. \A q, o : Due(Elems(more), q, o) = {}
    BY <2>5, <2>6
  <2>8. \A q \in Ai(c)!Players, o \in Ai(c)!Objects : ~ (q = f /\ o = s) => Untouched(q, o)
    BY <2>2 DEF Untouched
  <2>9. state[f] = "FREE"
    BY <1>1, <1>12
  <2>10. ASSUME f \in Ai(c)!Players, NEW K2, K \ {k} \subseteq K2,
               K2 \subseteq K, k \in Errands => k \in K
         PROVE  Carried(c, k, K, K2, f, s)
    BY <2>1, <2>2, <2>9, <2>10 DEF Carried
  <2>11. \A q \in Ai(c)!Players : state[q] = "CONNECTED" /\ shown[q] = {} => shown'[q] = {}
    BY <2>2
  <2>12. UNCHANGED <<pos, state>>
    BY <2>2
  <2>13. GoesOnBy(c, w, more)
    BY <2>5
  <2>14. QuietlyDone(c, w, k, f, s, more, K)
    BY <1>3, <1>5, <2>7, <2>8, <2>10, <2>11, <2>12, <2>13 DEF QuietlyDone
  <2> QED
    BY <2>14, ScreenQuiet
<1> QED
  BY <1>9, <1>10, <1>11, <1>12

(* The instruction at hand of a worker that has sorted or entered.         *)
HandIs(c, w, k, f, s) ==
    /\ f = Ai(c)!First(w) /\ s = Ai(c)!Second(w)
    /\ Head(Todo(w)) = <<k, f, s>> /\ f \in Ai(c)!Objects /\ s \in Ai(c)!Objects
    /\ <<k, f, s>> \in Later(c, task[w].op) /\ <<k, f, s>> \in AiInstr(c, task[w].id)
    /\ Elems(Todo(w)) = {<<k, f, s>>} \cup Elems(Tail(Todo(w)))
    /\ \A j : Ai(c)!At(w, j) <=> j = k

LEMMA ScreenHand ==
    ASSUME NEW c \in AiServers, AiInv(c), NEW w \in c.workers, NEW Must, NEW Only,
           Settled(c, w, Must, Only), Todo(w) # <<>>, NEW k, Ai(c)!At(w, k)
    PROVE  \E f, s : HandIs(c, w, k, f, s)
<1>1. PICK f : f = Ai(c)!First(w)
  OBVIOUS
<1>2. PICK s : s = Ai(c)!Second(w)
  OBVIOUS
<1>3. Todo(w) = task[w].todo
  BY DEF Todo
<1>4. /\ Head(Todo(w)) = <<k, f, s>> /\ f \in Ai(c)!Objects /\ s \in Ai(c)!Objects
      /\ <<k, f, s>> \in AiInstr(c, task[w].id)
  <2>1. task[w].todo # <<>>
    BY <1>3
  <2> QED
    BY <1>1, <1>2, <1>3, <2>1, AiHand
<1>5. /\ <<k, f, s>> \in Later(c, task[w].op)
      /\ Elems(Todo(w)) = {<<k, f, s>>} \cup Elems(Tail(Todo(w)))
  BY <1>4, SettledHand
<1>6. \A j : Ai(c)!At(w, j) <=> j = k
  BY <1>3, <1>4 DEF Ai!At
<1>7. HandIs(c, w, k, f, s)
  BY <1>1, <1>2, <1>4, <1>5, <1>6 DEF HandIs
<1> QED
  BY <1>7

(* A list is changed as was called for, and perhaps a message is to follow. *)
LEMMA ScreenInsert ==
    ASSUME NEW c \in AiServers, AiInv(c), NEW w \in c.workers, KeptLess(c),
           Settled(c, w, All(c), Kept(c)), ScreenInv(c, w), Todo(w) # <<>>,
           Ai(c)!Insert(w) \/ Ai(c)!Erase(w)
    PROVE  ScreenInv(c, w)'
<1>1. PICK k : /\ Ai(c)!At(w, k) /\ k \in {"insert", "erase"}
               /\ k = "insert" => Ai(c)!Insert(w)
               /\ k = "erase" => Ai(c)!Erase(w)
  BY DEF Ai!Insert, Ai!Erase
<1>2. PICK f, s : HandIs(c, w, k, f, s)
  BY <1>1, ScreenHand
<1>3. /\ f = Ai(c)!First(w) /\ s = Ai(c)!Second(w) /\ Head(Todo(w)) = <<k, f, s>>
      /\ f \in Ai(c)!Players
  BY <1>1, <1>2 DEF HandIs, AiInstr
<1>4. /\ Ai(c)!Go(w, <<>>) /\ UNCHANGED <<pos, state, shown>>
      /\ k = "insert" => view' = [view EXCEPT ![f] = @ \cup {s}]
      /\ k = "erase" => view' = [view EXCEPT ![f] = @ \ {s}]
  BY <1>1, <1>3 DEF Ai!Insert, Ai!Erase
<1>5. view \in [Ai(c)!Players -> SUBSET Ai(c)!Objects]
  BY DEF AiInv, AiType
<1>6. PICK K : K = Due(Elems(Todo(w)), f, s)
  OBVIOUS
<1>7. \A q \in Ai(c)!Players, o \in Ai(c)!Objects : ~ (q = f /\ o = s) => Untouched(q, o)
  <2>1. CASE k = "insert"
    BY <1>1, <1>3, <1>4, <1>5, <2>1 DEF Untouched
  <2>2. CASE k = "erase"
    BY <1>1, <1>3, <1>4, <1>5, <2>2 DEF Untouched
  <2> QED
    BY <1>1, <2>1, <2>2
<1>8. ASSUME NEW K2, K \ {k} \subseteq K2, K2 \subseteq K, k \in Errands => k \in K
      PROVE  Carried(c, k, K, K2, f, s)
  <2>1. k \in K /\ (s \in shown'[f] <=> s \in shown[f])
    BY <1>1, <1>4, <1>8 DEF Errands
  <2>2. CASE k = "insert"
    <3>1. s \in view'[f]
      BY <1>3, <1>4, <1>5, <2>2
    <3> QED
      BY <1>8, <2>1, <2>2, <3>1 DEF Carried
  <2>3. CASE k = "erase"
    <3>1. s \notin view'[f]
      BY <1>3, <1>4, <1>5, <2>3
    <3> QED
      BY <1>8, <2>1, <2>3, <3>1 DEF Carried
  <2> QED
    BY <1>1, <2>2, <2>3
<1>9. PICK more : more = <<>>
  OBVIOUS
<1>10. GoesOnBy(c, w, more) /\ \A q, o : Due(Elems(more), q, o) = {}
  BY <1>4, <1>9, MoreNone
<1>11. QuietlyDone(c, w, k, f, s, more, K)
  BY <1>3, <1>4, <1>6, <1>7, <1>8, <1>10 DEF QuietlyDone
<1> QED
  BY <1>11, ScreenQuiet

(* Nothing, or one message, comes in its place.                            *)
MoreIs(c, w, more, j, f, s, J) ==
    /\ GoesOnBy(c, w, more)
    /\ Due(Elems(more), f, s) = J
    /\ \A q, o : ~ (q = f /\ o = s) => Due(Elems(more), q, o) = {}
    /\ IF more = <<>> THEN J = {} ELSE J = {j}

LEMMA MoreOneIs ==
    ASSUME NEW c \in AiServers, AiInv(c), NEW w \in c.workers,
           NEW j \in {"add", "move", "remove"},
           NEW f \in Ai(c)!Objects, NEW s \in Ai(c)!Objects, NEW more,
           more = << <<j, f, s>> >> \/ more = <<>>, Ai(c)!Go(w, more),
           j \in {"add", "move"} => task[w].op \notin {"quit", "abort"}
    PROVE  \E J : MoreIs(c, w, more, j, f, s, J)
<1>1. CASE more = <<>>
  <2>1. GoesOnBy(c, w, more) /\ \A q, o : Due(Elems(more), q, o) = {}
    BY <1>1, MoreNone
  <2>2. MoreIs(c, w, more, j, f, s, {})
    BY <1>1, <2>1 DEF MoreIs
  <2> QED
    BY <2>2
<1>2. CASE more # <<>>
  <2>1. more = << <<j, f, s>> >>
    BY <1>2
  <2>2. j \in AiOps \ {"meet", "sort"} /\ {j} \cap Errands = {j}
    BY DEF AiOps, Errands
  <2>3. /\ GoesOnBy(c, w, << <<j, f, s>> >>)
        /\ Due(Elems(<< <<j, f, s>> >>), f, s) = {j} \cap Errands
        /\ \A q, o : ~ (q = f /\ o = s) => Due(Elems(<< <<j, f, s>> >>), q, o) = {}
    BY <2>1, <2>2, MoreOne
  <2>4. MoreIs(c, w, more, j, f, s, {j})
    BY <1>2, <2>1, <2>2, <2>3 DEF MoreIs
  <2> QED
    BY <2>4
<1> QED
  BY <1>1, <1>2

LEMMA ScreenPart ==
    ASSUME NEW c \in AiServers, AiInv(c), NEW w \in c.workers, KeptLess(c),
           Settled(c, w, All(c), Kept(c)), ScreenInv(c, w), Todo(w) # <<>>,
           Ai(c)!Part(w)
    PROVE  ScreenInv(c, w)'
<1>1. PICK k : Ai(c)!At(w, k) /\ k = "part"
  BY DEF Ai!Part
<1>2. PICK f, s : HandIs(c, w, k, f, s)
  BY <1>1, ScreenHand
<1>3. /\ f = Ai(c)!First(w) /\ s = Ai(c)!Second(w) /\ Head(Todo(w)) = <<k, f, s>>
      /\ f \in Ai(c)!Players /\ s \in Ai(c)!Objects /\ f \in Ai(c)!Objects
  BY <1>1, <1>2 DEF HandIs, AiInstr
<1>4. PICK more : more = IF s \in view[f] THEN << <<"remove", f, s>> >> ELSE <<>>
  OBVIOUS
<1>5. /\ Ai(c)!Go(w, more) /\ UNCHANGED <<pos, state, shown>>
      /\ view' = [view EXCEPT ![f] = @ \ {s}]
  BY <1>3, <1>4 DEF Ai!Part
<1>6. view \in [Ai(c)!Players -> SUBSET Ai(c)!Objects]
  BY DEF AiInv, AiType
<1>7. PICK K : K = Due(Elems(Todo(w)), f, s)
  OBVIOUS
<1>8. PICK J : MoreIs(c, w, more, "remove", f, s, J)
  BY <1>3, <1>4, <1>5, MoreOneIs
<1>9. /\ GoesOnBy(c, w, more) /\ Due(Elems(more), f, s) = J
      /\ \A q, o : ~ (q = f /\ o = s) => Due(Elems(more), q, o) = {}
      /\ J \subseteq {"remove"} /\ (s \in view[f] => "remove" \in J)
  BY <1>4, <1>8 DEF MoreIs
<1>10. \A q \in Ai(c)!Players, o \in Ai(c)!Objects : ~ (q = f /\ o = s) => Untouched(q, o)
  BY <1>3, <1>5, <1>6 DEF Untouched
<1>11. ASSUME NEW K2, K \ {k} \subseteq K2, J \subseteq K2, K2 \subseteq K \cup J,
              k \in Errands => k \in K
       PROVE  Carried(c, k, K, K2, f, s)
  <2>1. /\ k \in K /\ (s \in shown'[f] <=> s \in shown[f]) /\ s \notin view'[f]
        /\ K2 \subseteq K \cup {"remove"} /\ (s \in view[f] => "remove" \in K2)
    BY <1>1, <1>3, <1>5, <1>6, <1>9, <1>11 DEF Errands
  <2> QED
    BY <1>1, <1>11, <2>1 DEF Carried
<1>12. OneDone(c, w, k, f, s, more, J, K)
  BY <1>3, <1>5, <1>7, <1>9, <1>10, <1>11 DEF OneDone
<1> QED
  BY <1>12, ScreenOne

(* The other's list: no add to its client is left from before.             *)
LEMMA ScreenMeet ==
    ASSUME NEW c \in AiServers, AiInv(c), NEW w \in c.workers, KeptLess(c),
           Settled(c, w, All(c), Kept(c)), ScreenInv(c, w), Todo(w) # <<>>,
           Ai(c)!Meet(w)
    PROVE  ScreenInv(c, w)'
<1>1. PICK k : Ai(c)!At(w, k) /\ k = "meet"
  BY DEF Ai!Meet
<1>2. PICK f, s : HandIs(c, w, k, f, s)
  BY <1>1, ScreenHand
<1>3. /\ f = Ai(c)!First(w) /\ s = Ai(c)!Second(w) /\ Head(Todo(w)) = <<k, f, s>>
      /\ f \in Ai(c)!Players /\ s \in Ai(c)!Objects /\ f \in Ai(c)!Objects
      /\ Elems(Todo(w)) = {<<k, f, s>>} \cup Elems(Tail(Todo(w)))
  BY <1>1, <1>2 DEF HandIs, AiInstr
<1>4. PICK j : j = IF s \in view[f] THEN "move" ELSE "add"
  OBVIOUS
<1>5. PICK more : more = << <<j, f, s>> >>
  OBVIOUS
<1>6. /\ Ai(c)!Go(w, more) /\ UNCHANGED <<pos, state, shown>>
      /\ view' = [view EXCEPT ![f] = @ \cup {s}]
  <2>1. /\ Ai(c)!Go(w, IF s \in view[f] THEN << <<"move", f, s>> >> ELSE << <<"add", f, s>> >>)
        /\ UNCHANGED <<pos, state, shown>> /\ view' = [view EXCEPT ![f] = @ \cup {s}]
    BY <1>3 DEF Ai!Meet
  <2>2. (IF s \in view[f] THEN << <<"move", f, s>> >> ELSE << <<"add", f, s>> >>) = more
    BY <1>4, <1>5
  <2> QED
    BY <2>1, <2>2
<1>7. view \in [Ai(c)!Players -> SUBSET Ai(c)!Objects]
  BY DEF AiInv, AiType
<1>8. PICK K : K = Due(Elems(Todo(w)), f, s)
  OBVIOUS
<1>9. task[w].op = "move" /\ f # task[w].id
  <2>1. PICK i : i = <<k, f, s>>
    OBVIOUS
  <2>2. i \in Elems(Todo(w)) /\ i[1] = "meet" /\ i[2] = f
    BY <1>1, <1>3, <2>1
  <2> QED
    BY <2>2 DEF ScreenInv, Disciplined
<1>10. "add" \notin K
  <2>1. SUFFICES ASSUME "add" \in K PROVE FALSE
    OBVIOUS
  <2>2. PICK i : i = <<"add", f, s>>
    OBVIOUS
  <2>3. i \in Elems(Todo(w)) /\ i # <<k, f, s>>
    BY <1>1, <1>8, <2>1, <2>2 DEF Due
  <2>4. i \in Elems(Tail(Todo(w))) /\ i[1] = "add" /\ i[2] = f
    BY <1>3, <2>2, <2>3
  <2> QED
    BY <1>9, <2>4 DEF ScreenInv, Disciplined
<1>11. PICK J : MoreIs(c, w, more, j, f, s, J)
  <2>1. j \in {"add", "move", "remove"} /\ task[w].op \notin {"quit", "abort"}
    BY <1>4, <1>9
  <2> QED
    BY <1>3, <1>5, <1>6, <2>1, MoreOneIs
<1>12. /\ GoesOnBy(c, w, more) /\ Due(Elems(more), f, s) = J
       /\ \A q, o : ~ (q = f /\ o = s) => Due(Elems(more), q, o) = {}
       /\ J = {j}
  BY <1>5, <1>11 DEF MoreIs
<1>13. \A q \in Ai(c)!Players, o \in Ai(c)!Objects : ~ (q = f /\ o = s) => Untouched(q, o)
  BY <1>3, <1>6, <1>7 DEF Untouched
<1>14. ASSUME NEW K2, K \ {k} \subseteq K2, J \subseteq K2, K2 \subseteq K \cup J,
              k \in Errands => k \in K
       PROVE  Carried(c, k, K, K2, f, s)
  <2>1. /\ k \in K /\ (s \in shown'[f] <=> s \in shown[f]) /\ s \in view'[f]
        /\ IF s \in view[f] THEN K2 \subseteq K \cup {"move"}
           ELSE "add" \in K2 /\ K2 \subseteq K \cup {"add"}
    BY <1>1, <1>3, <1>4, <1>6, <1>7, <1>12, <1>14 DEF Errands
  <2> QED
    BY <1>1, <1>10, <1>14, <2>1 DEF Carried
<1>15. OneDone(c, w, k, f, s, more, J, K)
  BY <1>3, <1>6, <1>8, <1>12, <1>13, <1>14 DEF OneDone
<1> QED
  BY <1>15, ScreenOne

(* A disconnect tells one player, if it is in the game.                    *)
LEMMA ScreenTell ==
    ASSUME NEW c \in AiServers, AiInv(c), NEW w \in c.workers, KeptLess(c),
           Settled(c, w, All(c), Kept(c)), ScreenInv(c, w), Todo(w) # <<>>,
           Ai(c)!Tell(w)
    PROVE  ScreenInv(c, w)'
<1>1. PICK k : Ai(c)!At(w, k) /\ k = "tell"
  BY DEF Ai!Tell
<1>2. PICK f, s : HandIs(c, w, k, f, s)
  BY <1>1, ScreenHand
<1>3. /\ f = Ai(c)!First(w) /\ s = Ai(c)!Second(w) /\ Head(Todo(w)) = <<k, f, s>>
      /\ f \in Ai(c)!Players /\ s \in Ai(c)!Objects /\ f \in Ai(c)!Objects
  BY <1>1, <1>2 DEF HandIs, AiInstr
<1>4. PICK x : x = <<"remove", f, s>>
  OBVIOUS
<1>5. PICK y : y = <<"unlock", f, f>>
  OBVIOUS
<1>6. x \in Triples(c) /\ y \in Triples(c) /\ x[1] = "remove" /\ y[1] = "unlock"
  BY <1>3, <1>4, <1>5 DEF Triples, AiOps
<1>7. PICK more : more = IF state[f] = "INGAME" THEN <<x, y>> ELSE <<>>
  OBVIOUS
<1>8. Ai(c)!Go(w, more) /\ UNCHANGED <<pos, state, view, shown>>
  BY <1>3, <1>4, <1>5, <1>7 DEF Ai!Tell
<1>9. PICK A : A = Elems(more)
  OBVIOUS
<1>10. PICK J : J = IF state[f] = "INGAME" THEN {"remove"} ELSE {}
  OBVIOUS
<1>11. more \in Seq(Triples(c)) /\ A = IF state[f] = "INGAME" THEN {x, y} ELSE {}
  <2>1. <<x, y>> \in Seq(Triples(c)) /\ Elems(<<x, y>>) = {x, y}
    BY <1>6, ElemsTwo
  <2>2. <<>> \in Seq(Triples(c)) /\ Elems(<<>>) = {}
    BY ElemsNone
  <2> QED
    BY <1>7, <1>9, <2>1, <2>2
<1>12. GoesOnBy(c, w, more)
  <2>1. /\ task'[w].todo = more \o Tail(task[w].todo)
        /\ task'[w].op = task[w].op /\ task'[w].id = task[w].id
    BY <1>8, GoesWith
  <2>2. \A i \in A : i[1] \notin {"meet", "sort", "add", "move"}
    BY <1>6, <1>11
  <2> QED
    BY <1>9, <1>11, <2>1, <2>2 DEF GoesOnBy
<1>13. Due(A, f, s) = J /\ \A q, o : ~ (q = f /\ o = s) => Due(A, q, o) = {}
  <2>1. "remove" \in Errands /\ "unlock" \notin Errands
    BY DEF Errands
  <2>2. \A j \in Errands : \A q, o : <<j, q, o>> # y
    BY <1>5, <2>1
  <2>3. \A j \in Errands : \A q, o :
            <<j, q, o>> \in A <=> state[f] = "INGAME" /\ j = "remove" /\ q = f /\ o = s
    BY <1>4, <1>11, <2>2
  <2>4. \A q, o : ~ (q = f /\ o = s) => Due(A, q, o) = {}
    BY <2>3 DEF Due
  <2>5. Due(A, f, s) = J
    BY <1>10, <2>1, <2>3 DEF Due
  <2> QED
    BY <2>4, <2>5
<1>14. PICK K : K = Due(Elems(Todo(w)), f, s)
  OBVIOUS
<1>15. \A q \in Ai(c)!Players, o \in Ai(c)!Objects : ~ (q = f /\ o = s) => Untouched(q, o)
  BY <1>8 DEF Untouched
<1>16. ASSUME NEW K2, K \ {k} \subseteq K2, J \subseteq K2, K2 \subseteq K \cup J,
              k \in Errands => k \in K
       PROVE  Carried(c, k, K, K2, f, s)
  <2>1. /\ k \in K /\ K2 \subseteq K \cup {"remove"} /\ (state[f] = "INGAME" => "remove" \in K2)
    BY <1>1, <1>10, <1>16 DEF Errands
  <2> QED
    BY <1>1, <1>8, <1>16, <2>1 DEF Carried
<1>17. Due(Elems(more), f, s) = J /\ \A q, o : ~ (q = f /\ o = s) => Due(Elems(more), q, o) = {}
  BY <1>9, <1>13
<1>18. OneDone(c, w, k, f, s, more, J, K)
  BY <1>3, <1>8, <1>12, <1>14, <1>15, <1>16, <1>17 DEF OneDone
<1> QED
  BY <1>18, ScreenOne

LEMMA DueGoesAll ==
    ASSUME NEW k, k \notin Errands, NEW f, NEW s, NEW A, NEW E, NEW F,
           Replaced(E, k, f, s, A, F), NEW q, NEW o
    PROVE  Due(F, q, o) = Due(E, q, o) \cup Due(A, q, o)
<1>1. PICK R : /\ \A x : x \in E <=> x = <<k, f, s>> \/ x \in R
               /\ \A x : x \in F <=> x \in A \/ x \in R
  BY DEF Replaced
<1>2. \A j \in Errands : <<j, q, o>> # <<k, f, s>>
  OBVIOUS
<1>3. \A j \in Errands : <<j, q, o>> \in F <=> <<j, q, o>> \in E \/ <<j, q, o>> \in A
  BY <1>1, <1>2
<1> QED
  BY <1>3 DEF Due

(* What the greeting of o by p says of a pair.                             *)
LEMMA GreetSays ==
    ASSUME NEW c \in AiServers, NEW p \in Ai(c)!Players, NEW o \in Ai(c)!Objects, p # o
    PROVE  /\ Ai(c)!GreetProgram(p, o) \in Seq(Triples(c))
           /\ \A i \in Elems(Ai(c)!GreetProgram(p, o)) : i[1] \notin {"meet", "sort", "done"}
           /\ \A q \in Ai(c)!Players, r \in Ai(c)!Objects :
                Due(Elems(Ai(c)!GreetProgram(p, o)), q, r)
                  = IF (q = p /\ r = o) \/ (q = o /\ r = p) THEN {"insert", "add"} ELSE {}
<1>1. PICK a : a = <<"insert", p, o>>
  OBVIOUS
<1>2. PICK b : b = <<"add", p, o>>
  OBVIOUS
<1>3. PICK d : d = <<"unlock", o, o>>
  OBVIOUS
<1>4. PICK e : e = IF o \in Ai(c)!Npcs THEN <<"wake", o, o>> ELSE <<"insert", o, p>>
  OBVIOUS
<1>5. PICK g : g = IF o \in Ai(c)!Npcs THEN <<"wake", o, o>> ELSE <<"add", o, p>>
  OBVIOUS
<1>6. p \in Ai(c)!Objects
  BY Sizes
<1>7. /\ a \in Triples(c) /\ b \in Triples(c) /\ d \in Triples(c) /\ e \in Triples(c)
      /\ g \in Triples(c)
      /\ \A i \in {a, b, d, e, g} : i[1] \notin {"meet", "sort", "done"}
  BY <1>1, <1>2, <1>3, <1>4, <1>5, <1>6 DEF Triples, AiOps
<1>8. PICK P : P = Ai(c)!GreetProgram(p, o)
  OBVIOUS
<1>9. P = <<a, b>> \o (IF o \in Ai(c)!Npcs THEN <<e>> ELSE <<e, g>>) \o <<d>>
  BY <1>1, <1>2, <1>3, <1>4, <1>5, <1>8 DEF Ai!GreetProgram
<1>10. PICK M : M = IF o \in Ai(c)!Npcs THEN <<e>> ELSE <<e, g>>
  OBVIOUS
<1>11. M \in Seq(Triples(c)) /\ Elems(M) = {e, g}
  <2>1. <<e>> \in Seq(Triples(c)) /\ Elems(<<e>>) = {e}
    BY <1>7, ElemsOne
  <2>2. <<e, g>> \in Seq(Triples(c)) /\ Elems(<<e, g>>) = {e, g}
    BY <1>7, ElemsTwo
  <2>3. o \in Ai(c)!Npcs => e = g
    BY <1>4, <1>5
  <2> QED
    BY <1>10, <2>1, <2>2, <2>3
<1>12. P \in Seq(Triples(c)) /\ Elems(P) = {a, b, d, e, g}
  <2>1. <<a, b>> \in Seq(Triples(c)) /\ Elems(<<a, b>>) = {a, b}
    BY <1>7, ElemsTwo
  <2>2. <<d>> \in Seq(Triples(c)) /\ Elems(<<d>>) = {d}
    BY <1>7, ElemsOne
  <2>3. PICK X : X = <<a, b>> \o M
    OBVIOUS
  <2>4. X \in Seq(Triples(c)) /\ Elems(X) = Elems(<<a, b>>) \cup Elems(M)
    BY ZenonT(60), <1>11, <2>1, <2>3, ElemsJoin
  <2>5. X \o <<d>> \in Seq(Triples(c)) /\ Elems(X \o <<d>>) = Elems(X) \cup Elems(<<d>>)
    BY SMTT(60), <2>2, <2>4, ElemsJoin
  <2>6. P = X \o <<d>>
    BY <1>9, <1>10, <2>3
  <2> QED
    BY <1>11, <2>1, <2>2, <2>4, <2>5, <2>6
<1>13. PICK E : E = Elems(P)
  OBVIOUS
<1>14. ASSUME NEW q \in Ai(c)!Players, NEW r \in Ai(c)!Objects
       PROVE  Due(E, q, r) = IF (q = p /\ r = o) \/ (q = o /\ r = p) THEN {"insert", "add"} ELSE {}
  <2>1. q \notin Ai(c)!Npcs
    BY Sizes
  <2>2. {"insert", "add"} \subseteq Errands /\ {"unlock", "wake"} \cap Errands = {}
    BY DEF Errands
  <2>3. \A j \in Errands : <<j, q, r>> # d /\ <<j, q, r>> # <<"wake", o, o>>
    BY <1>3, <2>2
  <2>4. ASSUME NEW j \in Errands
        PROVE  <<j, q, r>> \in E
                 <=> j \in {"insert", "add"} /\ ((q = p /\ r = o) \/ (q = o /\ r = p))
    <3>1. PICK z : z = <<j, q, r>>
      OBVIOUS
    <3>2. z \in E <=> z = a \/ z = b \/ z = e \/ z = g
      BY <1>12, <1>13, <2>3, <3>1
    <3>3. (z = a <=> j = "insert" /\ q = p /\ r = o) /\ (z = b <=> j = "add" /\ q = p /\ r = o)
      BY <1>1, <1>2, <3>1
    <3>4. CASE o \in Ai(c)!Npcs
      <4>1. q # o /\ e = <<"wake", o, o>> /\ g = <<"wake", o, o>>
        BY <1>4, <1>5, <2>1, <3>4
      <4>2. z # e /\ z # g
        BY <2>3, <3>1, <4>1
      <4>3. z \in E <=> j \in {"insert", "add"} /\ q = p /\ r = o
        BY <3>2, <3>3, <4>2
      <4> QED
        BY <3>1, <4>1, <4>3
    <3>5. CASE o \notin Ai(c)!Npcs
      <4>1. (z = e <=> j = "insert" /\ q = o /\ r = p) /\ (z = g <=> j = "add" /\ q = o /\ r = p)
        BY <1>4, <1>5, <3>1, <3>5
      <4>2. z \in E <=> j \in {"insert", "add"} /\ ((q = p /\ r = o) \/ (q = o /\ r = p))
        BY <3>2, <3>3, <4>1
      <4> QED
        BY <3>1, <4>2
    <3> QED
      BY <3>4, <3>5
  <2> QED
    BY <2>2, <2>4 DEF Due
<1> QED
  BY <1>7, <1>8, <1>12, <1>13, <1>14

LEMMA ScreenVisit ==
    ASSUME NEW c \in AiServers, AiInv(c), Placed(c), NEW w \in c.workers, KeptLess(c),
           Settled(c, w, All(c), Kept(c)), ScreenInv(c, w), Todo(w) # <<>>,
           Ai(c)!Visit(w)
    PROVE  ScreenInv(c, w)'
<1>1. PICK k : Ai(c)!At(w, k) /\ k = "visit"
  BY DEF Ai!Visit
<1>2. PICK p, o : HandIs(c, w, k, p, o)
  BY <1>1, ScreenHand
<1>3. /\ p = Ai(c)!First(w) /\ o = Ai(c)!Second(w) /\ Head(Todo(w)) = <<k, p, o>>
      /\ p \in Ai(c)!Players /\ o \in Ai(c)!Objects /\ p \in Ai(c)!Objects
      /\ Elems(Todo(w)) = {<<k, p, o>>} \cup Elems(Tail(Todo(w)))
      /\ task[w].op = "login" /\ state[p] = "INGAME" /\ p # o
  BY <1>1, <1>2 DEF HandIs, AiInstr, Later
<1>4. PICK greets : greets = (state[o] = "INGAME" /\ Ai(c)!CanSee(p, o))
  OBVIOUS
<1>5. PICK more : more = IF greets THEN Ai(c)!GreetProgram(p, o) ELSE <<>>
  OBVIOUS
<1>6. Ai(c)!Go(w, more) /\ UNCHANGED <<pos, state, view, shown>>
  BY <1>3, <1>4, <1>5 DEF Ai!Visit
<1>7. PICK A : A = Elems(more)
  OBVIOUS
<1>8. /\ more \in Seq(Triples(c)) /\ \A i \in A : i[1] \notin {"meet", "sort", "done"}
      /\ \A q \in Ai(c)!Players, r \in Ai(c)!Objects :
           Due(A, q, r) = IF greets /\ ((q = p /\ r = o) \/ (q = o /\ r = p))
                          THEN {"insert", "add"} ELSE {}
  <2>1. CASE greets
    BY <1>3, <1>5, <1>7, <2>1, GreetSays
  <2>2. CASE ~ greets
    <3>1. more \in Seq(Triples(c)) /\ A = {}
      BY <1>5, <1>7, <2>2, ElemsNone
    <3>2. \A q, r : Due(A, q, r) = {}
      BY <3>1 DEF Due
    <3> QED
      BY <2>2, <3>1, <3>2
  <2> QED
    BY <2>1, <2>2
<1>9. GoesOnBy(c, w, more)
  <2>1. /\ task'[w].todo = more \o Tail(task[w].todo)
        /\ task'[w].op = task[w].op /\ task'[w].id = task[w].id
    BY <1>6, GoesWith
  <2> QED
    BY <1>3, <1>7, <1>8, <2>1 DEF GoesOnBy
<1>10. PICK E : E = Elems(Todo(w))
  OBVIOUS
<1>11. PICK F : F = A \cup Elems(Tail(Todo(w)))
  OBVIOUS
<1>12. Replaced(E, k, p, o, A, F)
  BY <1>3, <1>10, <1>11 DEF Replaced
<1>13. k \notin Errands
  BY <1>1 DEF Errands
<1>14. greets => Near(c, p, o) /\ Near(c, o, p)
  <2>1. greets => Near(c, p, o)
    BY <1>3, <1>4 DEF Near
  <2> QED
    BY <1>3, <2>1, NearBoth
<1>15. ASSUME NEW q \in Ai(c)!Players, NEW r \in Ai(c)!Objects
       PROVE  \/ Due(F, q, r) = Due(E, q, r) /\ Untouched(q, r)
              \/ Carried(c, k, Due(E, q, r), Due(F, q, r), q, r)
  <2>1. PICK K : K = Due(E, q, r)
    OBVIOUS
  <2>2. PICK K2 : K2 = Due(F, q, r)
    OBVIOUS
  <2>3. PICK J : J = Due(A, q, r)
    OBVIOUS
  <2>4. K2 = K \cup J
    BY <1>12, <1>13, <2>1, <2>2, <2>3, DueGoesAll
  <2>5. Untouched(q, r)
    BY <1>6 DEF Untouched
  <2>6. CASE greets /\ ((q = p /\ r = o) \/ (q = o /\ r = p))
    <3>1. J = {"insert", "add"} /\ Near(c, q, r)
      BY <1>8, <1>14, <2>3, <2>6
    <3>2. Carried(c, k, K, K2, q, r)
      BY <1>1, <2>4, <2>5, <3>1 DEF Carried, Untouched
    <3> QED
      BY <2>1, <2>2, <3>2
  <2>7. CASE ~ (greets /\ ((q = p /\ r = o) \/ (q = o /\ r = p)))
    <3>1. J = {}
      BY <1>8, <2>3, <2>7
    <3> QED
      BY <2>1, <2>2, <2>4, <2>5, <3>1
  <2> QED
    BY <2>6, <2>7
<1>16. F = Elems(more) \cup Elems(Tail(Todo(w)))
  BY <1>7, <1>11
<1>17. \A q \in Ai(c)!Players : state[q] = "CONNECTED" /\ shown[q] = {} => shown'[q] = {}
  BY <1>6
<1>18. UNCHANGED <<pos, state>>
  BY <1>6
<1> QED
  BY <1>9, <1>10, <1>15, <1>16, <1>17, <1>18, ScreenCarries

(* A disconnect frees the slot: every player is to be told.                *)
LEMMA TellSays ==
    ASSUME NEW c \in AiServers, NEW p \in Ai(c)!Players
    PROVE  LET T == [q \in Ai(c)!Players |-> <<"tell", q, p>>]
           IN  /\ T \in Seq(Triples(c))
               /\ \A x : x \in Elems(T) <=> \E q \in Ai(c)!Players : x = <<"tell", q, p>>
<1>1. PICK T : T = [q \in Ai(c)!Players |-> <<"tell", q, p>>]
  OBVIOUS
<1>2. PICK m : m = c.npcStart - 1
  OBVIOUS
<1>3. /\ m \in Nat /\ Ai(c)!Players = 1..m /\ p \in Ai(c)!Objects
      /\ \A q \in Ai(c)!Players : q \in Ai(c)!Objects
  BY <1>2, Sizes
<1>4. T \in [1..m -> Triples(c)]
  BY <1>1, <1>3 DEF Triples, AiOps
<1>5. T \in Seq(Triples(c)) /\ Len(T) = m
  BY <1>3, <1>4, EachSeq
<1>6. \A x : x \in Elems(T) <=> \E q \in Ai(c)!Players : x = <<"tell", q, p>>
  BY <1>1, <1>3, <1>5 DEF Elems
<1> QED
  BY <1>1, <1>5, <1>6

LEMMA ScreenFree ==
    ASSUME NEW c \in AiServers, AiInv(c), NEW w \in c.workers, KeptLess(c),
           Settled(c, w, All(c), Kept(c)), ScreenInv(c, w), Todo(w) # <<>>,
           Ai(c)!Free(w)
    PROVE  ScreenInv(c, w)'
<1>1. PICK k : Ai(c)!At(w, k) /\ k = "free"
  BY DEF Ai!Free
<1>2. PICK p, s : HandIs(c, w, k, p, s)
  BY <1>1, ScreenHand
<1>3. /\ p = Ai(c)!First(w) /\ Head(Todo(w)) = <<k, p, s>>
      /\ p \in Ai(c)!Players /\ p \in Ai(c)!Objects /\ s \in Ai(c)!Objects
      /\ Elems(Todo(w)) = {<<k, p, s>>} \cup Elems(Tail(Todo(w)))
      /\ state[p] = "FREE" \/ task[w].op \in {"quit", "abort"}
  BY <1>1, <1>2 DEF HandIs, AiInstr, Later
<1>4. state \in [Ai(c)!Objects -> {"FREE", "CONNECTED", "INGAME"}]
  BY DEF AiInv, AiType
<1>5. state' = [state EXCEPT ![p] = "FREE"] /\ UNCHANGED <<pos, view, shown>>
  BY <1>3 DEF Ai!Free
<1>6. CASE state[p] = "FREE"
  <2>1. UNCHANGED <<pos, state>> /\ Ai(c)!Go(w, <<>>)
    BY <1>3, <1>4, <1>5, <1>6 DEF Ai!Free
  <2>2. PICK more : more = <<>>
    OBVIOUS
  <2>3. GoesOnBy(c, w, more) /\ \A q, o : Due(Elems(more), q, o) = {}
    BY <2>1, <2>2, MoreNone
  <2>4. PICK K : K = Due(Elems(Todo(w)), p, s)
    OBVIOUS
  <2>5. ASSUME NEW K2, K \ {k} \subseteq K2, K2 \subseteq K PROVE Carried(c, k, K, K2, p, s)
    BY <1>1, <1>5, <2>5 DEF Carried
  <2>6. QuietlyDone(c, w, k, p, s, more, K)
    BY <1>3, <1>5, <2>1, <2>3, <2>4, <2>5 DEF QuietlyDone, Untouched
  <2> QED
    BY <2>6, ScreenQuiet
<1>7. CASE state[p] # "FREE"
  <2>1. PICK more : more = [q \in Ai(c)!Players |-> <<"tell", q, p>>]
    OBVIOUS
  <2>2. Ai(c)!Go(w, more) /\ task[w].op \in {"quit", "abort"}
    BY <1>3, <1>7, <2>1 DEF Ai!Free
  <2>3. PICK A : A = Elems(more)
    OBVIOUS
  <2>4. /\ more \in Seq(Triples(c))
        /\ \A x : x \in A <=> \E q \in Ai(c)!Players : x = <<"tell", q, p>>
    BY <1>3, <2>1, <2>3, TellSays
  <2>5. \A x \in A : x[1] = "tell"
    BY <2>4
  <2>6. GoesOnBy(c, w, more)
    <3>1. /\ task'[w].todo = more \o Tail(task[w].todo)
          /\ task'[w].op = task[w].op /\ task'[w].id = task[w].id
      BY <2>2, GoesWith
    <3> QED
      BY <2>2, <2>3, <2>4, <2>5, <3>1 DEF GoesOnBy
  <2>7. PICK E : E = Elems(Todo(w))
    OBVIOUS
  <2>8. PICK F : F = A \cup Elems(Tail(Todo(w)))
    OBVIOUS
  <2>9. Replaced(E, k, p, s, A, F)
    BY <1>3, <2>7, <2>8 DEF Replaced
  <2>10. E \subseteq Later(c, task[w].op) /\ Disciplined(w) /\ Strays(c, w) = {}
    BY <2>7, NoStrays DEF Settled, ScreenInv
  <2>11. ASSUME NEW i \in F PROVE i[1] # "sort"
    BY <1>3, <2>5, <2>7, <2>8, <2>10, <2>11 DEF Later
  <2>12. ASSUME NEW q \in Ai(c)!Players, NEW o \in Ai(c)!Objects
         PROVE  OnScreen(c, Due(F, q, o), <<q, o>> \in Kept(c), FALSE, q, o)'
    <3>1. PICK K : K = Due(E, q, o)
      OBVIOUS
    <3>2. PICK K2 : K2 = Due(F, q, o)
      OBVIOUS
    <3>3. PICK kept : kept = (<<q, o>> \in Kept(c))
      OBVIOUS
    <3>4. PICK kept2 : kept2 = (<<q, o>> \in Kept(c))'
      OBVIOUS
    <3>5. kept2 => kept
      BY <3>3, <3>4 DEF KeptLess
    <3>6. OnScreen(c, K, kept, FALSE, q, o)
      <4>1. OnScreen(c, K, kept, q \in Strays(c, w) \/ o \in Strays(c, w), q, o)
        BY <2>7, <3>1, <3>3 DEF ScreenInv, Displayed
      <4> QED
        BY <2>10, <4>1, OnScreenNow
    <3>7. PICK J : J = Due(A, q, o)
      OBVIOUS
    <3>8. K2 = K \cup J
      <4>1. k \notin Errands
        BY <1>1 DEF Errands
      <4> QED
        BY <2>9, <3>1, <3>2, <3>7, <4>1, DueGoesAll
    <3>9. J = IF o = p THEN {"tell"} ELSE {}
      <4>1. \A j : <<j, q, o>> \in A <=> j = "tell" /\ o = p
        BY <2>4
      <4>2. "tell" \in Errands
        BY DEF Errands
      <4> QED
        BY <3>7, <4>1, <4>2 DEF Due
    <3>10. K \cap {"insert", "add", "move"} = {}
      <4>1. ASSUME NEW j \in K PROVE j \notin {"insert", "add", "move"}
        <5>1. PICK x : x = <<j, q, o>>
          OBVIOUS
        <5>2. x \in E /\ x[1] = j
          BY <3>1, <4>1, <5>1 DEF Due
        <5> QED
          BY <2>2, <2>7, <2>10, <5>2 DEF Later, Disciplined
      <4> QED
        BY <4>1
    <3>11. q \in Ai(c)!Objects
      BY Sizes
    <3>12. \A r \in Ai(c)!Objects : state'[r] = IF r = p THEN "FREE" ELSE state[r]
      BY <1>4, <1>5
    <3>13. (o \in view'[q] <=> o \in view[q]) /\ (o \in shown'[q] <=> o \in shown[q])
      BY <1>5
    <3>14. CASE q = p \/ o = p
      <4>1. ~ Near(c, q, o)'
        BY <3>11, <3>12, <3>14 DEF Near
      <4>2. K \subseteq K2 /\ K2 \subseteq K \cup {"tell"}
        BY <3>8, <3>9
      <4>3. state'[q] = "INGAME" => state[q] = "INGAME" /\ "tell" \in K2
        BY <3>8, <3>9, <3>11, <3>12, <3>14
      <4>4. state'[o] = "INGAME" => state[o] = "INGAME" /\ K2 = K
        BY <3>8, <3>9, <3>12
      <4>5. OnScreen(c, K2, kept2, FALSE, q, o)'
        BY <3>5, <3>6, <3>10, <3>13, <4>1, <4>2, <4>3, <4>4, OnScreenFreed
      <4> QED
        BY <3>2, <3>4, <4>5 DEF OnScreen
    <3>15. CASE ~ (q = p \/ o = p)
      <4>1. K2 = K /\ state'[q] = state[q] /\ state'[o] = state[o]
        BY <3>8, <3>9, <3>11, <3>12, <3>15
      <4>2. Near(c, q, o)' <=> Near(c, q, o)
        BY <1>5, <4>1, NearStays
      <4>3. OnScreen(c, K2, kept2, FALSE, q, o)'
        BY <3>5, <3>6, <3>13, <4>1, <4>2, OnScreenStays
      <4> QED
        BY <3>2, <3>4, <4>3 DEF OnScreen
    <3> QED
      BY <3>14, <3>15
  <2>13. ASSUME NEW q \in Ai(c)!Players, state'[q] = "CONNECTED" PROVE shown'[q] = {}
    <3>1. q \in Ai(c)!Objects
      BY Sizes
    <3>2. state[q] = "CONNECTED"
      BY <1>4, <1>5, <2>13, <3>1
    <3> QED
      BY <1>5, <3>2 DEF ScreenInv
  <2>14. F = Elems(more) \cup Elems(Tail(Todo(w))) /\ Todo(w) \in Seq(Triples(c))
    BY <2>3, <2>8 DEF Settled
  <2> QED
    BY <2>6, <2>10, <2>11, <2>12, <2>13, <2>14, ScreenGoes
<1> QED
  BY <1>6, <1>7

(* A worker that has sorted or entered goes on.                            *)
LEMMA ScreenWorks ==
    ASSUME NEW c \in AiServers, AiInv(c), Placed(c), NEW w \in c.workers, KeptLess(c),
           Ai(c)!Work(w), ~ Ai(c)!Finish(w),
           Ai(c)!SendFails(w) => state[Ai(c)!First(w)] = "FREE",
           Settled(c, w, All(c), Kept(c)), ScreenInv(c, w)
    PROVE  ScreenInv(c, w)'
<1>1. Todo(w) # <<>>
  BY WorksOn DEF Todo
<1>2. \A k : Ai(c)!At(w, k) => k \notin {"place", "ok", "enter", "step", "copy", "look", "sort"}
  <2>1. ASSUME NEW k, Ai(c)!At(w, k)
        PROVE  k \notin {"place", "ok", "enter", "step", "copy", "look", "sort"}
    <3>1. PICK f, s : HandIs(c, w, k, f, s)
      BY <1>1, <2>1, ScreenHand
    <3> QED
      BY <3>1 DEF HandIs, Later
  <2> QED
    BY <2>1
<1>3. CASE Ai(c)!Insert(w) \/ Ai(c)!Erase(w)
  BY <1>1, <1>3, ScreenInsert
<1>4. CASE Ai(c)!Part(w)
  BY <1>1, <1>4, ScreenPart
<1>5. CASE Ai(c)!Meet(w)
  BY <1>1, <1>5, ScreenMeet
<1>6. CASE Ai(c)!Tell(w)
  BY <1>1, <1>6, ScreenTell
<1>7. CASE Ai(c)!Visit(w)
  BY <1>1, <1>7, ScreenVisit
<1>8. CASE Ai(c)!Free(w)
  BY <1>1, <1>8, ScreenFree
<1>9. CASE Ai(c)!Unlock(w) \/ Ai(c)!Wake(w) \/ Ai(c)!Deliver(w) \/ Ai(c)!SendFails(w)
  <2>1. PICK k : Ai(c)!At(w, k)
    BY <1>9 DEF Ai!Unlock, Ai!Wake, Ai!Deliver, Ai!SendFails
  <2> QED
    BY <1>1, <1>9, <2>1, ScreenPlain
<1>10. ~ (\/ Ai(c)!Place(w) \/ Ai(c)!Enter(w) \/ Ai(c)!Step(w) \/ Ai(c)!Copy(w)
          \/ Ai(c)!Look(w) \/ Ai(c)!Sort(w))
  BY <1>2 DEF Ai!Place, Ai!Enter, Ai!Step, Ai!Copy, Ai!Look, Ai!Sort
<1> QED
  BY <1>3, <1>4, <1>5, <1>6, <1>7, <1>8, <1>9, <1>10 DEF Ai!Work

-----------------------------------------------------------------------------
(***************************************************************************)
(* AiServer: the screens before a handler has entered or sorted. It has    *)
(* nothing to say about any pair; who has stepped may be on screens that   *)
(* it has left.                                                            *)
(***************************************************************************)
MuteIn(T) == \A i \in Elems(T) : i[1] \notin Errands

StraysIn(c, T) ==
    {a \in Ai(c)!Objects : Me("sort", a) \in Elems(T) /\ Me("step", a) \notin Elems(T)}

(* The programs from their k-th instruction on.                            *)
LEMMA LoginMute ==
    ASSUME NEW c \in AiServers, NEW p \in Ai(c)!Players, NEW k \in 1..4, NEW T,
           T = From(Ai(c)!LoginProgram(p), k)
    PROVE  T \in Seq(Triples(c)) /\ T # <<>> /\ MuteIn(T) /\ StraysIn(c, T) = {}
<1>1. PICK P : P = Ai(c)!LoginProgram(p)
  OBVIOUS
<1>2. PICK n : n = c.users
  OBVIOUS
<1>3. /\ P \in Seq(Triples(c)) /\ Len(P) = n + 4
      /\ P[1] = Me("place", p) /\ P[2] = Me("ok", p) /\ P[3] = Me("enter", p)
      /\ \A j \in 1..(n - 1) : P[3 + j] = <<"visit", p, Ai(c)!Others(p)[j]>>
      /\ P[n + 3] = Me("unlock", p) /\ P[n + 4] = Me("done", p)
  BY <1>1, <1>2, LoginByStep
<1>4. n \in Nat
  BY <1>2, Sizes
<1>5. ASSUME NEW j \in 1..(n + 4)
      PROVE  P[j][1] \in {"place", "ok", "enter", "visit", "unlock", "done"}
  <2>1. CASE j \in 1..3
    BY <1>3, <2>1 DEF Me
  <2>2. CASE j \in 4..(n + 2)
    <3>1. PICK m : m = j - 3
      OBVIOUS
    <3>2. m \in 1..(n - 1) /\ j = 3 + m
      BY <1>4, <2>2, <3>1
    <3> QED
      BY <1>3, <3>2
  <2>3. CASE j = n + 3 \/ j = n + 4
    BY <1>3, <2>3 DEF Me
  <2> QED
    BY <1>4, <2>1, <2>2, <2>3
<1>6. T \in Seq(Triples(c)) /\ T # <<>> /\ Elems(T) = {P[j] : j \in k..Len(P)}
  <2>1. k \in 1..Len(P)
    BY <1>3, <1>4
  <2> QED
    BY SMTT(60), <1>1, <1>3, <2>1, FromSteps
<1>7. \A i \in Elems(T) : i[1] \in {"place", "ok", "enter", "visit", "unlock", "done"}
  BY <1>3, <1>4, <1>5, <1>6
<1>8. MuteIn(T)
  BY <1>7 DEF MuteIn, Errands
<1>9. StraysIn(c, T) = {}
  <2>1. \A a : Me("sort", a)[1] = "sort"
    BY DEF Me
  <2>2. \A a : Me("sort", a) \notin Elems(T)
    BY <1>7, <2>1
  <2> QED
    BY <2>2 DEF StraysIn
<1> QED
  BY <1>6, <1>8, <1>9

LEMMA MoveMute ==
    ASSUME NEW c \in AiServers, NEW p \in Ai(c)!Players, NEW k \in 1..(c.users + 2), NEW T,
           T = From(Ai(c)!MoveProgram(p), k)
    PROVE  /\ T \in Seq(Triples(c)) /\ T # <<>> /\ MuteIn(T)
           /\ StraysIn(c, T) = IF k = 1 THEN {} ELSE {p}
<1>1. PICK P : P = Ai(c)!MoveProgram(p)
  OBVIOUS
<1>2. PICK n : n = c.users
  OBVIOUS
<1>3. /\ P \in Seq(Triples(c)) /\ Len(P) = n + 2
      /\ P[1] = Me("step", p) /\ P[2] = Me("copy", p)
      /\ \A j \in 1..(n - 1) : P[2 + j] = <<"look", p, Ai(c)!Others(p)[j]>>
      /\ P[n + 2] = Me("sort", p)
  BY <1>1, <1>2, MoveByStep
<1>4. n \in Nat /\ n >= 1 /\ p \in Ai(c)!Objects
  BY <1>2, Sizes
<1>5. ASSUME NEW j \in 2..(n + 1)
      PROVE  P[j][1] \in {"copy", "look"}
  <2>1. CASE j = 2
    BY <1>3, <2>1 DEF Me
  <2>2. CASE j # 2
    <3>1. PICK m : m = j - 2
      OBVIOUS
    <3>2. m \in 1..(n - 1) /\ j = 2 + m
      BY <1>4, <2>2, <3>1
    <3> QED
      BY <1>3, <3>2
  <2> QED
    BY <2>1, <2>2
<1>6. T \in Seq(Triples(c)) /\ T # <<>> /\ Elems(T) = {P[j] : j \in k..(n + 2)}
  <2>1. k \in 1..Len(P)
    BY <1>2, <1>3
  <2> QED
    BY SMTT(60), <1>1, <1>3, <2>1, FromSteps
<1>7. k \in 1..(n + 2)
  BY <1>2
<1>8. ASSUME NEW x
      PROVE  /\ x \in Elems(T) => x[1] \in {"copy", "look"} \/ x = Me("sort", p)
                                  \/ (x = Me("step", p) /\ k = 1)
             /\ Me("sort", p) \in Elems(T)
             /\ k = 1 => Me("step", p) \in Elems(T)
  <2>1. ASSUME x \in Elems(T)
        PROVE  x[1] \in {"copy", "look"} \/ x = Me("sort", p) \/ (x = Me("step", p) /\ k = 1)
    <3>1. PICK j \in k..(n + 2) : x = P[j]
      BY <1>6, <2>1
    <3>2. j = 1 \/ j \in 2..(n + 1) \/ j = n + 2
      BY <1>4, <1>7
    <3>3. CASE j = 1
      BY <1>3, <1>7, <3>1, <3>3
    <3>4. CASE j \in 2..(n + 1)
      BY <1>5, <3>1, <3>4
    <3>5. CASE j = n + 2
      BY <1>3, <3>1, <3>5
    <3> QED
      BY <3>2, <3>3, <3>4, <3>5
  <2>2. Me("sort", p) \in Elems(T)
    <3>1. n + 2 \in k..(n + 2)
      BY <1>4, <1>7
    <3> QED
      BY <1>3, <1>6, <3>1
  <2>3. k = 1 => Me("step", p) \in Elems(T)
    <3>1. k = 1 => 1 \in k..(n + 2)
      BY <1>4
    <3> QED
      BY <1>3, <1>6, <3>1
  <2> QED
    BY <2>1, <2>2, <2>3
<1>9. MuteIn(T)
  <2>1. Me("sort", p)[1] = "sort" /\ Me("step", p)[1] = "step"
    BY DEF Me
  <2>2. \A x \in Elems(T) : x[1] \in {"copy", "look", "sort", "step"}
    BY <1>8, <2>1
  <2> QED
    BY <2>2 DEF MuteIn, Errands
<1>10. ASSUME NEW a \in Ai(c)!Objects
       PROVE  (Me("sort", a) \in Elems(T) <=> a = p)
                /\ (Me("step", a) \in Elems(T) <=> a = p /\ k = 1)
  <2>1. /\ Me("sort", a)[1] = "sort" /\ Me("step", a)[1] = "step"
        /\ Me("sort", a) = Me("sort", p) <=> a = p
        /\ Me("step", a) = Me("step", p) <=> a = p
        /\ Me("sort", a) # Me("step", p) /\ Me("step", a) # Me("sort", p)
    BY DEF Me
  <2> QED
    BY <1>8, <2>1
<1>11. StraysIn(c, T) = IF k = 1 THEN {} ELSE {p}
  BY <1>4, <1>10 DEF StraysIn
<1> QED
  BY <1>6, <1>9, <1>11

LEMMA NpcMute ==
    ASSUME NEW c \in AiServers, NEW n \in Ai(c)!Npcs, NEW m, m = c.npcStart,
           NEW k \in 1..(m + m), NEW T, T = From(Ai(c)!NpcProgram(n), k)
    PROVE  /\ T \in Seq(Triples(c)) /\ T # <<>> /\ MuteIn(T)
           /\ StraysIn(c, T) = IF k <= m THEN {} ELSE {n}
<1>1. PICK P : P = Ai(c)!NpcProgram(n)
  OBVIOUS
<1>2. /\ P \in Seq(Triples(c)) /\ Len(P) = m + m
      /\ \A j \in 1..(m - 1) : P[j] = <<"look", n, j>> /\ P[m + j] = <<"look", n, j>>
      /\ P[m] = Me("step", n) /\ P[m + m] = Me("sort", n)
  BY <1>1, NpcByStep
<1>3. m \in Nat /\ m >= 1 /\ n \in Ai(c)!Objects
  BY Sizes
<1>4. T \in Seq(Triples(c)) /\ T # <<>> /\ Elems(T) = {P[j] : j \in k..(m + m)}
  <2>1. k \in 1..Len(P) /\ P \in Seq(Triples(c))
    BY <1>2
  <2>2. T = From(P, k)
    BY <1>1
  <2>3. /\ From(P, k) \in Seq(Triples(c)) /\ From(P, k) # <<>>
        /\ Elems(From(P, k)) = {P[j] : j \in k..Len(P)}
    BY <2>1, FromSteps
  <2> QED
    BY <1>2, <2>2, <2>3
<1>5. ASSUME NEW j \in 1..(m + m), j # m, j # m + m PROVE P[j][1] = "look"
  <2>1. CASE j < m
    <3>1. j \in 1..(m - 1)
      BY <1>3, <2>1
    <3>2. P[j] = <<"look", n, j>>
      BY <1>2, <3>1
    <3> QED
      BY <3>2
  <2>2. CASE j > m
    <3>1. PICK i : i = j - m
      OBVIOUS
    <3>2. i \in 1..(m - 1) /\ j = m + i
      BY <1>3, <1>5, <2>2, <3>1
    <3>3. P[m + i] = <<"look", n, i>>
      BY <1>2, <3>2
    <3> QED
      BY <3>2, <3>3
  <2> QED
    BY <1>3, <1>5, <2>1, <2>2
<1>6. ASSUME NEW x
      PROVE  /\ x \in Elems(T) => x[1] = "look" \/ x = Me("sort", n)
                                  \/ (x = Me("step", n) /\ k <= m)
             /\ Me("sort", n) \in Elems(T)
             /\ k <= m => Me("step", n) \in Elems(T)
  <2>1. ASSUME x \in Elems(T)
        PROVE  x[1] = "look" \/ x = Me("sort", n) \/ (x = Me("step", n) /\ k <= m)
    <3>1. PICK j \in k..(m + m) : x = P[j]
      BY <1>4, <2>1
    <3>2. CASE j = m
      BY <1>2, <1>3, <3>1, <3>2
    <3>3. CASE j = m + m
      BY <1>2, <3>1, <3>3
    <3>4. CASE j # m /\ j # m + m
      BY <1>3, <1>5, <3>1, <3>4
    <3> QED
      BY <3>2, <3>3, <3>4
  <2>2. Me("sort", n) \in Elems(T)
    <3>1. m + m \in k..(m + m)
      BY <1>3
    <3> QED
      BY <1>2, <1>4, <3>1
  <2>3. k <= m => Me("step", n) \in Elems(T)
    <3>1. k <= m => m \in k..(m + m)
      BY <1>3
    <3> QED
      BY <1>2, <1>4, <3>1
  <2> QED
    BY <2>1, <2>2, <2>3
<1>7. MuteIn(T)
  <2>1. Me("sort", n)[1] = "sort" /\ Me("step", n)[1] = "step"
    BY DEF Me
  <2>2. \A x \in Elems(T) : x[1] \in {"look", "sort", "step"}
    BY <1>6, <2>1
  <2> QED
    BY <2>2 DEF MuteIn, Errands
<1>8. ASSUME NEW a \in Ai(c)!Objects
      PROVE  (Me("sort", a) \in Elems(T) <=> a = n)
               /\ (Me("step", a) \in Elems(T) <=> a = n /\ k <= m)
  <2>1. /\ Me("sort", a)[1] = "sort" /\ Me("step", a)[1] = "step"
        /\ Me("sort", a) = Me("sort", n) <=> a = n
        /\ Me("step", a) = Me("step", n) <=> a = n
        /\ Me("sort", a) # Me("step", n) /\ Me("step", a) # Me("sort", n)
    BY DEF Me
  <2> QED
    BY <1>6, <2>1
<1>9. StraysIn(c, T) = IF k <= m THEN {} ELSE {n}
  BY <1>3, <1>8 DEF StraysIn
<1> QED
  BY <1>4, <1>7, <1>9

(* The screens in the midst of a handler that has nothing to say about     *)
(* them, S being those that have stepped.                                  *)
MuteInv(c, w, S) ==
    /\ \A q \in Ai(c)!Players : state[q] = "CONNECTED" => shown[q] = {}
    /\ \A q \in Ai(c)!Players, o \in Ai(c)!Objects :
          OnScreen(c, {}, <<q, o>> \in Kept(c), q \in S \/ o \in S, q, o)
    /\ \A a \in S : \A q \in Ai(c)!Players :
          q # a /\ state[q] = "INGAME" /\ a \in shown[q]
              => q \in IF a \in Ai(c)!Players THEN view[a] ELSE task[w].old

LEMMA MuteDue ==
    ASSUME NEW T, MuteIn(T), NEW q, NEW o
    PROVE  Due(Elems(T), q, o) = {}
<1>1. \A i \in Elems(T) : i[1] \notin Errands
  BY DEF MuteIn
<1> QED
  BY <1>1, DueMute

LEMMA MuteShows ==
    ASSUME NEW c \in AiServers, NEW w, NEW T, T = Todo(w), MuteIn(T),
           NEW S, S = StraysIn(c, T), ScreenInv(c, w)
    PROVE  MuteInv(c, w, S)
<1>1. S = Strays(c, w)
  BY DEF Strays, StraysIn
<1>2. ASSUME NEW q \in Ai(c)!Players, NEW o \in Ai(c)!Objects
      PROVE  OnScreen(c, {}, <<q, o>> \in Kept(c), q \in S \/ o \in S, q, o)
  <2>1. Due(Elems(Todo(w)), q, o) = {}
    BY MuteDue
  <2>2. OnScreen(c, Due(Elems(Todo(w)), q, o), <<q, o>> \in Kept(c),
                 q \in Strays(c, w) \/ o \in Strays(c, w), q, o)
    BY DEF ScreenInv, Displayed
  <2> QED
    BY <1>1, <2>1, <2>2
<1> QED
  BY <1>1, <1>2 DEF ScreenInv, Remembered, MuteInv

LEMMA MuteHolds ==
    ASSUME NEW c \in AiServers, NEW w, NEW T, T = Todo(w)', T \in Seq(Triples(c)), MuteIn(T),
           NEW S, S = StraysIn(c, T), MuteInv(c, w, S)'
    PROVE  ScreenInv(c, w)'
<1>1. Ai(c)!Players' = Ai(c)!Players /\ Ai(c)!Objects' = Ai(c)!Objects
  BY ProgramStays
<1>2. PICK E : E = Elems(T)
  OBVIOUS
<1>3. Elems(Todo(w))' = E
  BY <1>2 DEF Elems
<1>4. Strays(c, w)' = S
  BY <1>1, <1>2, <1>3 DEF Strays, StraysIn
<1>5. Displayed(c, w)'
  <2>1. ASSUME NEW q \in Ai(c)!Players, NEW o \in Ai(c)!Objects
        PROVE  OnScreen(c, Due(E, q, o), <<q, o>> \in Kept(c), q \in S \/ o \in S, q, o)'
    <3>1. Due(E, q, o) = {}
      BY <1>2, MuteDue
    <3>2. OnScreen(c, {}, <<q, o>> \in Kept(c), q \in S \/ o \in S, q, o)'
      BY <1>1 DEF MuteInv
    <3> QED
      BY <3>1, <3>2
  <2> QED
    BY <1>1, <1>3, <1>4, <2>1 DEF Displayed
<1>6. Remembered(c, w)'
  BY <1>1, <1>4 DEF MuteInv, Remembered
<1>7. Disciplined(w)'
  <2>1. ASSUME NEW i \in E PROVE i[1] \notin {"meet", "add", "move"}
    BY <1>2, <2>1 DEF MuteIn, Errands
  <2>2. ASSUME T # <<>> PROVE Elems(Tail(T)) \subseteq E
    BY <1>2, <2>2, ElemsStep
  <2>3. PICK V : V = Elems(Tail(T))
    OBVIOUS
  <2>4. Elems(Tail(Todo(w)))' = V /\ (Todo(w)' # <<>> => V \subseteq E)
    BY <2>2, <2>3 DEF Elems
  <2> QED
    BY <1>3, <2>1, <2>4 DEF Disciplined
<1>8. \A q \in Ai(c)!Players : state'[q] = "CONNECTED" => shown'[q] = {}
  BY <1>1 DEF MuteInv
<1> QED
  BY <1>1, <1>5, <1>6, <1>7, <1>8 DEF ScreenInv

(* Nothing changes, but perhaps that one has stepped.                      *)
LEMMA MuteGoes ==
    ASSUME NEW c \in AiServers, NEW w, KeptLess(c), NEW S, MuteInv(c, w, S),
           NEW S2, S \subseteq S2, UNCHANGED <<view, shown>>,
           \A q \in Ai(c)!Players : state'[q] # "FREE" => state'[q] = state[q],
           \A q \in Ai(c)!Players, o \in Ai(c)!Objects :
              Near(c, q, o)' \/ q \in S2 \/ o \in S2 \/ ~ Near(c, q, o),
           \A a \in S2 : \A q \in Ai(c)!Players :
              q # a /\ state'[q] = "INGAME" /\ a \in shown[q]
                 => q \in IF a \in Ai(c)!Players THEN view[a] ELSE task'[w].old
    PROVE  MuteInv(c, w, S2)'
<1>1. Ai(c)!Players' = Ai(c)!Players /\ Ai(c)!Objects' = Ai(c)!Objects
  BY ProgramStays
<1>2. ASSUME NEW q \in Ai(c)!Players, NEW o \in Ai(c)!Objects
      PROVE  OnScreen(c, {}, <<q, o>> \in Kept(c), q \in S2 \/ o \in S2, q, o)'
  <2>1. PICK kept : kept = (<<q, o>> \in Kept(c))
    OBVIOUS
  <2>2. PICK kept2 : kept2 = (<<q, o>> \in Kept(c))'
    OBVIOUS
  <2>3. PICK stray : stray = (q \in S \/ o \in S)
    OBVIOUS
  <2>4. PICK stray2 : stray2 = (q \in S2 \/ o \in S2)
    OBVIOUS
  <2>5. OnScreen(c, {}, kept, stray, q, o) /\ (kept2 => kept) /\ (stray => stray2)
    BY <2>1, <2>2, <2>3, <2>4 DEF MuteInv, KeptLess
  <2>6. Near(c, q, o)' \/ stray2 \/ ~ Near(c, q, o)
    BY <2>4
  <2>7. state'[q] = "INGAME" => state[q] = "INGAME"
    OBVIOUS
  <2>8. (o \in view'[q] <=> o \in view[q]) /\ (o \in shown'[q] <=> o \in shown[q])
    OBVIOUS
  <2>9. OnScreen(c, {}, kept2, stray2, q, o)'
    BY <2>5, <2>6, <2>7, <2>8, OnScreenMute
  <2> QED
    BY <2>2, <2>4, <2>9 DEF OnScreen
<1>3. \A q \in Ai(c)!Players : state'[q] = "CONNECTED" => shown'[q] = {}
  BY DEF MuteInv
<1>4. \A a \in S2 : \A q \in Ai(c)!Players :
         q # a /\ state'[q] = "INGAME" /\ a \in shown'[q]
             => q \in IF a \in Ai(c)!Players THEN view'[a] ELSE task'[w].old
  OBVIOUS
<1> QED
  BY <1>1, <1>2, <1>3, <1>4 DEF MuteInv

(* Its next instruction is done.                                           *)
LEMMA NextDone ==
    ASSUME NEW c \in AiServers, AiInv(c), NEW w \in c.workers, Todo(w) # <<>>,
           \/ Ai(c)!Place(w) \/ Ai(c)!Enter(w) \/ Ai(c)!Deliver(w)
           \/ Ai(c)!Step(w) \/ Ai(c)!Copy(w) \/ Ai(c)!Look(w)
    PROVE  Todo(w)' = Tail(Todo(w))
<1>1. task \in [c.workers -> AiHandlers(c)] /\ task[w] \in AiHandlers(c)
  BY DEF AiInv, AiType
<1>2. PICK T : T = Todo(w)
  OBVIOUS
<1>3. T \in Seq(Triples(c)) /\ task[w].todo = T
  BY <1>1, <1>2 DEF Todo, AiHandlers, Triples
<1>4. CASE Ai(c)!Place(w) \/ Ai(c)!Enter(w) \/ Ai(c)!Deliver(w)
  <2>1. Ai(c)!Go(w, <<>>)
    BY <1>4 DEF Ai!Place, Ai!Enter, Ai!Deliver
  <2>2. task'[w].todo = <<>> \o Tail(task[w].todo)
    BY <2>1, GoesWith
  <2>3. Tail(T) \in Seq(Triples(c))
    BY <1>2, <1>3
  <2>4. <<>> \o Tail(T) = Tail(T)
    BY <2>3
  <2> QED
    BY <1>2, <1>3, <2>2, <2>4 DEF Todo
<1>5. CASE Ai(c)!Step(w) \/ Ai(c)!Copy(w) \/ Ai(c)!Look(w)
  <2>1. CASE Ai(c)!Step(w)
    BY <1>1, <2>1 DEF Ai!Step, AiHandlers, Todo
  <2>2. CASE Ai(c)!Copy(w)
    BY <1>1, <2>2 DEF Ai!Copy, AiHandlers, Todo
  <2>3. CASE Ai(c)!Look(w)
    BY <1>1, <2>3 DEF Ai!Look, AiHandlers, Todo
  <2> QED
    BY <1>5, <2>1, <2>2, <2>3
<1> QED
  BY <1>4, <1>5

(* A login that comes into the game has an empty screen, and is on none.   *)
LEMMA EnteringScreens ==
    ASSUME NEW c \in AiServers, AiInv(c), Placed(c), NEW w \in c.workers, KeptLess(c),
           Ai(c)!Work(w), Ai(c)!SendFails(w) => state[Ai(c)!First(w)] = "FREE",
           NEW p \in Ai(c)!Players, NEW k \in 1..3, Entering(c, w, p, k, All(c), Kept(c)),
           ScreenInv(c, w)
    PROVE  ScreenInv(c, w)'
<1>1. PICK P : P = Ai(c)!LoginProgram(p)
  OBVIOUS
<1>2. /\ P \in Seq(Triples(c)) /\ k \in 1..Len(P) /\ p \in Ai(c)!Objects
      /\ P[1] = Me("place", p) /\ P[2] = Me("ok", p) /\ P[3] = Me("enter", p)
  BY SMTT(60), <1>1, LoginByStep, Sizes
<1>3. Todo(w) = From(P, k) /\ state[p] = "CONNECTED" /\ Agreed(c, {}, All(c), Kept(c))
  BY <1>1 DEF Entering
<1>4. Todo(w) # <<>> /\ Head(Todo(w)) = P[k] /\ Tail(Todo(w)) = From(P, k + 1)
  BY <1>2, <1>3, FromSteps
<1>5. /\ P[k][2] = p /\ (k = 1 => P[k][1] = "place")
      /\ (k = 2 => P[k][1] = "ok") /\ (k = 3 => P[k][1] = "enter")
  BY <1>2 DEF Me
<1>6. /\ k = 1 => Ai(c)!Place(w)
      /\ k = 2 => Ai(c)!Deliver(w) \/ Ai(c)!SendFails(w)
      /\ k = 3 => Ai(c)!Enter(w)
      /\ Ai(c)!First(w) = p
  BY <1>4, <1>5, WorkBy
<1>7. Ai(c)!Place(w) \/ Ai(c)!Enter(w) \/ Ai(c)!Deliver(w)
  BY <1>3, <1>6
<1>8. Todo(w)' = Tail(Todo(w))
  BY <1>4, <1>7, NextDone
<1>9. PICK j : j = k + 1
  OBVIOUS
<1>10. PICK T : T = Todo(w)
  OBVIOUS
<1>11. PICK T2 : T2 = Todo(w)'
  OBVIOUS
<1>12. MuteIn(T) /\ StraysIn(c, T) = {}
  BY <1>1, <1>3, <1>10, LoginMute
<1>13. T2 \in Seq(Triples(c)) /\ MuteIn(T2) /\ StraysIn(c, T2) = {}
  <2>1. j \in 1..4 /\ T2 = From(Ai(c)!LoginProgram(p), j)
    BY <1>1, <1>4, <1>8, <1>9, <1>11
  <2> QED
    BY <2>1, LoginMute
<1>14. MuteInv(c, w, {})
  BY <1>10, <1>12, MuteShows
<1>15. state \in [Ai(c)!Objects -> {"FREE", "CONNECTED", "INGAME"}]
  BY DEF AiInv, AiType
<1>16. CASE k \in 1..2
  <2>1. /\ UNCHANGED <<state, view, shown>>
        /\ \A o \in Ai(c)!Objects : o # p => pos'[o] = pos[o]
    <3>1. CASE k = 1
      <4>1. UNCHANGED <<state, view, shown>> /\ \E d : pos' = [pos EXCEPT ![p] = d]
        BY <1>6, <3>1 DEF Ai!Place
      <4> QED
        BY <4>1 DEF Placed
    <3>2. CASE k = 2
      <4>1. Head(task[w].todo)[1] = "ok"
        BY <1>4, <1>5, <3>2 DEF Todo
      <4>2. ~ Ai(c)!At(w, "add") /\ ~ Ai(c)!At(w, "remove")
        BY <4>1 DEF Ai!At
      <4>3. Ai(c)!Deliver(w)
        BY <1>3, <1>6, <3>2
      <4>4. shown' = [shown EXCEPT ![p] = shown[p]] /\ UNCHANGED <<state, view, pos>>
        BY <1>6, <4>2, <4>3 DEF Ai!Deliver
      <4> QED
        BY <4>4 DEF Placed
    <3> QED
      BY <1>16, <3>1, <3>2
  <2>2. ASSUME NEW q \in Ai(c)!Players, NEW o \in Ai(c)!Objects
        PROVE  Near(c, q, o)' <=> Near(c, q, o)
    <3>1. q \in Ai(c)!Objects
      BY Sizes
    <3> QED
      BY <1>3, <2>1, <3>1, NearStays
  <2>3. PICK S : S = {}
    OBVIOUS
  <2>4. MuteInv(c, w, S) /\ \A a : a \notin S
    BY <1>14, <2>3
  <2>5. MuteInv(c, w, S)'
    BY <2>1, <2>2, <2>4, MuteGoes
  <2>6. S = StraysIn(c, T2)
    BY <1>13, <2>3
  <2> QED
    BY <1>11, <1>13, <2>5, <2>6, MuteHolds
<1>17. CASE k = 3
  <2>1. UNCHANGED <<pos, view, shown>> /\ state' = [state EXCEPT ![p] = "INGAME"]
    BY <1>6, <1>17 DEF Ai!Enter
  <2>2. \A o \in Ai(c)!Objects : state'[o] = IF o = p THEN "INGAME" ELSE state[o]
    BY <1>15, <2>1
  <2>3. Ai(c)!Players' = Ai(c)!Players /\ Ai(c)!Objects' = Ai(c)!Objects
    BY ProgramStays
  <2>4. ASSUME NEW q \in Ai(c)!Players, NEW o \in Ai(c)!Objects
        PROVE  OnScreen(c, {}, <<q, o>> \in Kept(c), FALSE, q, o)'
    <3>1. PICK kept : kept = (<<q, o>> \in Kept(c))
      OBVIOUS
    <3>2. PICK kept2 : kept2 = (<<q, o>> \in Kept(c))'
      OBVIOUS
    <3>3. kept2 => kept
      BY <3>1, <3>2 DEF KeptLess
    <3>4. OnScreen(c, {}, kept, FALSE, q, o) /\ q \in Ai(c)!Objects
      BY <1>14, <3>1, Sizes DEF MuteInv
    <3>5. CASE q # p /\ o # p
      <4>1. state'[q] = state[q] /\ state'[o] = state[o]
        BY <2>2, <3>4, <3>5
      <4>2. Near(c, q, o)' <=> Near(c, q, o)
        BY <2>1, <4>1, NearStays
      <4>3. (o \in view'[q] <=> o \in view[q]) /\ (o \in shown'[q] <=> o \in shown[q])
        BY <2>1
      <4>4. OnScreen(c, {}, kept2, FALSE, q, o)'
        BY <3>3, <3>4, <4>1, <4>2, <4>3, OnScreenStays
      <4> QED
        BY <3>2, <4>4 DEF OnScreen
    <3>6. CASE q = p
      <4>1. o \notin shown'[q]
        BY <1>3, <2>1, <3>6 DEF ScreenInv
      <4>2. kept => o \notin view'[q]
        <5>1. Agrees(c, {}, All(c), Kept(c), q, o) /\ ~ Parts({}, q, o) /\ ~ Near(c, q, o)
          BY <1>3, <3>6 DEF Agreed, Near, Parts
        <5> QED
          BY <2>1, <3>1, <5>1 DEF Agrees
      <4>3. OnScreen(c, {}, kept2, FALSE, q, o)'
        BY <3>3, <4>1, <4>2 DEF OnScreen
      <4> QED
        BY <3>2, <4>3 DEF OnScreen
    <3>7. CASE q # p /\ o = p
      <4>1. state'[q] = state[q]
        BY <2>2, <3>4, <3>7
      <4>2. ~ Near(c, q, o)
        BY <1>3, <3>7 DEF Near
      <4>3. OnScreen(c, {}, kept2, FALSE, q, o)'
        BY <2>1, <3>3, <3>4, <4>1, <4>2 DEF OnScreen
      <4> QED
        BY <3>2, <4>3 DEF OnScreen
    <3> QED
      BY <3>5, <3>6, <3>7
  <2>5. \A q \in Ai(c)!Players : state'[q] = "CONNECTED" => shown'[q] = {}
    <3>1. ASSUME NEW q \in Ai(c)!Players, state'[q] = "CONNECTED" PROVE shown'[q] = {}
      <4>1. q \in Ai(c)!Objects
        BY Sizes
      <4>2. state[q] = "CONNECTED"
        BY <2>2, <3>1, <4>1
      <4> QED
        BY <2>1, <4>2 DEF ScreenInv
    <3> QED
      BY <3>1
  <2>6. MuteInv(c, w, {})'
    BY <2>3, <2>4, <2>5 DEF MuteInv
  <2>7. PICK S : S = {}
    OBVIOUS
  <2>8. MuteInv(c, w, S)' /\ S = StraysIn(c, T2)
    BY <1>13, <2>6, <2>7
  <2> QED
    BY <1>11, <1>13, <2>8, MuteHolds
<1> QED
  BY <1>16, <1>17

(* A player steps: whoever shows it, it has in its list.                   *)
LEMMA SteppingScreens ==
    ASSUME NEW c \in AiServers, AiInv(c), Placed(c), NEW w \in c.workers, KeptLess(c),
           Ai(c)!Work(w), NEW p \in Ai(c)!Players, Stepping(c, w, p, All(c), Kept(c)),
           ScreenInv(c, w)
    PROVE  ScreenInv(c, w)'
<1>1. PICK P : P = Ai(c)!MoveProgram(p)
  OBVIOUS
<1>2. P \in Seq(Triples(c)) /\ Len(P) = c.users + 2 /\ P[1] = Me("step", p)
  BY <1>1, MoveByStep
<1>3. c.users \in Nat /\ c.users >= 1 /\ p \in Ai(c)!Objects /\ 1 \in 1..Len(P)
  BY <1>2, Sizes
<1>4. Todo(w) = From(P, 1) /\ state[p] = "INGAME" /\ Agreed(c, {}, All(c), Kept(c))
  BY <1>1 DEF Stepping
<1>5. Todo(w) # <<>> /\ Head(Todo(w)) = P[1] /\ Tail(Todo(w)) = From(P, 2)
  <2>1. PICK j : j = 1
    OBVIOUS
  <2>2. j \in 1..Len(P) /\ Todo(w) = From(P, j) /\ j + 1 = 2
    BY <1>3, <1>4, <2>1
  <2>3. /\ From(P, j) # <<>> /\ Head(From(P, j)) = P[j]
        /\ Tail(From(P, j)) = From(P, j + 1)
    BY <1>2, <2>2, FromSteps
  <2> QED
    BY <2>1, <2>2, <2>3
<1>6. Ai(c)!Step(w) /\ Ai(c)!First(w) = p
  <2>1. P[1][1] = "step" /\ P[1][2] = p
    BY <1>2 DEF Me
  <2> QED
    BY <1>5, <2>1, WorkBy
<1>7. /\ UNCHANGED <<state, view, shown>> /\ \E d : pos' = [pos EXCEPT ![p] = d]
  BY <1>6 DEF Ai!Step
<1>8. \A o \in Ai(c)!Objects : o # p => pos'[o] = pos[o]
  BY <1>7 DEF Placed
<1>9. PICK T : T = Todo(w)
  OBVIOUS
<1>10. PICK T2 : T2 = Todo(w)'
  OBVIOUS
<1>11. MuteIn(T) /\ StraysIn(c, T) = {}
  <2>1. PICK j : j = 1
    OBVIOUS
  <2>2. j \in 1..(c.users + 2) /\ T = From(Ai(c)!MoveProgram(p), j)
    BY <1>1, <1>3, <1>4, <1>9, <2>1
  <2>3. MuteIn(T) /\ StraysIn(c, T) = IF j = 1 THEN {} ELSE {p}
    BY <2>2, MoveMute
  <2> QED
    BY <2>1, <2>3
<1>12. T2 \in Seq(Triples(c)) /\ MuteIn(T2) /\ StraysIn(c, T2) = {p}
  <2>1. PICK j : j = 2
    OBVIOUS
  <2>2. T2 = From(P, 2)
    BY <1>5, <1>6, <1>10, NextDone
  <2>3. j \in 1..(c.users + 2) /\ T2 = From(Ai(c)!MoveProgram(p), j)
    BY <1>1, <1>3, <2>1, <2>2
  <2>4. T2 \in Seq(Triples(c)) /\ MuteIn(T2) /\ StraysIn(c, T2) = IF j = 1 THEN {} ELSE {p}
    BY <2>3, MoveMute
  <2> QED
    BY <2>1, <2>4
<1>13. MuteInv(c, w, {})
  BY <1>9, <1>11, MuteShows
<1>14. ASSUME NEW q \in Ai(c)!Players, NEW o \in Ai(c)!Objects
       PROVE  Near(c, q, o)' \/ q = p \/ o = p \/ ~ Near(c, q, o)
  <2>1. q \in Ai(c)!Objects
    BY Sizes
  <2>2. q # p /\ o # p => (Near(c, q, o)' <=> Near(c, q, o))
    BY <1>7, <1>8, <2>1, NearStays
  <2> QED
    BY <2>2
<1>15. ASSUME NEW q \in Ai(c)!Players, q # p, state[q] = "INGAME", p \in shown[q]
       PROVE  q \in view[p]
  <2>1. q \in Ai(c)!Objects
    BY Sizes
  <2>2. OnScreen(c, {}, <<q, p>> \in Kept(c), FALSE, q, p)
    BY <1>3, <1>13 DEF MuteInv
  <2>3. Near(c, q, p)
    BY <1>15, <2>2 DEF OnScreen
  <2>4. Near(c, p, q)
    BY <1>3, <2>1, <2>3, NearBoth
  <2>5. Agrees(c, {}, All(c), Kept(c), p, q) /\ <<p, q>> \in All(c)
    BY <1>4, <2>1 DEF Agreed, All
  <2> QED
    BY <2>4, <2>5 DEF Agrees, Comes, Called
<1>16. PICK S : S = {}
  OBVIOUS
<1>17. PICK S2 : S2 = {p}
  OBVIOUS
<1>18. MuteInv(c, w, S) /\ S \subseteq S2
  BY <1>13, <1>16
<1>19. \A q \in Ai(c)!Players, o \in Ai(c)!Objects :
          Near(c, q, o)' \/ q \in S2 \/ o \in S2 \/ ~ Near(c, q, o)
  BY <1>14, <1>17
<1>20. \A a \in S2 : \A q \in Ai(c)!Players :
          q # a /\ state'[q] = "INGAME" /\ a \in shown[q]
             => q \in IF a \in Ai(c)!Players THEN view[a] ELSE task'[w].old
  BY <1>7, <1>15, <1>17
<1>21. MuteInv(c, w, S2)'
  BY <1>7, <1>18, <1>19, <1>20, MuteGoes
<1>22. S2 = StraysIn(c, T2)
  BY <1>12, <1>17
<1> QED
  BY <1>10, <1>12, <1>21, <1>22, MuteHolds

(* Nothing but what the handler has seen changes.                          *)
LEMMA MuteLooks ==
    ASSUME NEW c \in AiServers, NEW w \in c.workers, KeptLess(c), ScreenInv(c, w),
           NEW T, T = Todo(w), NEW T2, T2 = Todo(w)', MuteIn(T), MuteIn(T2),
           T2 \in Seq(Triples(c)), NEW S, S = StraysIn(c, T), S = StraysIn(c, T2),
           UNCHANGED <<state, pos, view, shown>>,
           (\A a \in S : a \in Ai(c)!Players) \/ task'[w].old = task[w].old
    PROVE  ScreenInv(c, w)'
<1>1. MuteInv(c, w, S)
  BY MuteShows
<1>2. \A q \in Ai(c)!Players, o \in Ai(c)!Objects : Near(c, q, o)' <=> Near(c, q, o)
  BY NearStays
<1>3. \A a \in S : \A q \in Ai(c)!Players :
          q # a /\ state'[q] = "INGAME" /\ a \in shown[q]
             => q \in IF a \in Ai(c)!Players THEN view[a] ELSE task'[w].old
  BY <1>1 DEF MuteInv
<1>4. MuteInv(c, w, S)'
  BY <1>1, <1>2, <1>3, MuteGoes
<1> QED
  BY <1>4, MuteHolds

LEMMA LookingScreens ==
    ASSUME NEW c \in AiServers, AiInv(c), Placed(c), NEW w \in c.workers, KeptLess(c),
           Ai(c)!Work(w), NEW p \in Ai(c)!Players, NEW k \in 2..(c.users + 1),
           Looking(c, w, p, k, All(c), Kept(c)), ScreenInv(c, w)
    PROVE  ScreenInv(c, w)'
<1>1. PICK P : P = Ai(c)!MoveProgram(p)
  OBVIOUS
<1>2. PICK n : n = c.users
  OBVIOUS
<1>3. /\ P \in Seq(Triples(c)) /\ Len(P) = n + 2 /\ P[2] = Me("copy", p)
      /\ \A j \in 1..(n - 1) : P[2 + j] = <<"look", p, Ai(c)!Others(p)[j]>>
  BY <1>1, <1>2, MoveByStep
<1>4. n \in Nat /\ k \in 2..(n + 1) /\ k \in 1..Len(P)
  BY <1>2, <1>3, Sizes
<1>5. Todo(w) = From(P, k)
  BY <1>1 DEF Looking
<1>6. Todo(w) # <<>> /\ Head(Todo(w)) = P[k] /\ Tail(Todo(w)) = From(P, k + 1)
  BY SMTT(60), <1>3, <1>4, <1>5, FromSteps
<1>7. Ai(c)!Copy(w) \/ Ai(c)!Look(w)
  <2>1. P[k][1] \in {"copy", "look"}
    <3>1. CASE k = 2
      BY <1>3, <3>1 DEF Me
    <3>2. CASE k # 2
      <4>1. PICK j : j = k - 2
        OBVIOUS
      <4>2. j \in 1..(n - 1) /\ k = 2 + j
        BY <1>4, <3>2, <4>1
      <4>3. P[2 + j] = <<"look", p, Ai(c)!Others(p)[j]>>
        BY <1>3, <4>2
      <4> QED
        BY <4>2, <4>3
    <3> QED
      BY <3>1, <3>2
  <2> QED
    BY <1>6, <2>1, WorkBy
<1>8. UNCHANGED <<state, pos, view, shown>>
  BY <1>7 DEF Ai!Copy, Ai!Look
<1>9. PICK T : T = Todo(w)
  OBVIOUS
<1>10. PICK T2 : T2 = Todo(w)'
  OBVIOUS
<1>11. PICK S : S = {p}
  OBVIOUS
<1>12. MuteIn(T) /\ S = StraysIn(c, T)
  <2>1. k \in 1..(c.users + 2) /\ T = From(Ai(c)!MoveProgram(p), k) /\ k # 1
    BY <1>1, <1>2, <1>4, <1>5, <1>9
  <2>2. MuteIn(T) /\ StraysIn(c, T) = IF k = 1 THEN {} ELSE {p}
    BY <2>1, MoveMute
  <2> QED
    BY <1>11, <2>1, <2>2
<1>13. T2 \in Seq(Triples(c)) /\ MuteIn(T2) /\ S = StraysIn(c, T2)
  <2>1. PICK j : j = k + 1
    OBVIOUS
  <2>2. T2 = From(P, j)
    BY <1>6, <1>7, <1>10, <2>1, NextDone
  <2>3. j \in 1..(c.users + 2) /\ T2 = From(Ai(c)!MoveProgram(p), j) /\ j # 1
    BY <1>1, <1>2, <1>4, <2>1, <2>2
  <2>4. T2 \in Seq(Triples(c)) /\ MuteIn(T2) /\ StraysIn(c, T2) = IF j = 1 THEN {} ELSE {p}
    BY <2>3, MoveMute
  <2> QED
    BY <1>11, <2>3, <2>4
<1>14. \A a \in S : a \in Ai(c)!Players
  BY <1>11
<1> QED
  BY <1>8, <1>9, <1>10, <1>12, <1>13, <1>14, MuteLooks

(* An NPC, before its step and when it takes it: it has seen whoever shows *)
(* it.                                                                     *)
LEMMA WaitingScreens ==
    ASSUME NEW c \in AiServers, AiInv(c), Placed(c), NEW w \in c.workers, KeptLess(c),
           Ai(c)!Work(w), NEW n \in Ai(c)!Npcs, NEW k \in 1..c.npcStart,
           Waiting(c, w, n, k, All(c), Kept(c)), ScreenInv(c, w)
    PROVE  ScreenInv(c, w)'
<1>1. PICK P : P = Ai(c)!NpcProgram(n)
  OBVIOUS
<1>2. PICK m : m = c.npcStart
  OBVIOUS
<1>3. /\ P \in Seq(Triples(c)) /\ Len(P) = m + m /\ P[m] = Me("step", n)
      /\ \A j \in 1..(m - 1) : P[j] = <<"look", n, j>>
  BY <1>1, <1>2, NpcByStep
<1>4. /\ m \in Nat /\ m >= 1 /\ Ai(c)!Players = 1..(m - 1) /\ n \in Ai(c)!Objects
      /\ k \in 1..Len(P) /\ n \notin Ai(c)!Players /\ k \in 1..m
  <2>1. /\ m \in Nat /\ m >= 1 /\ Ai(c)!Players = 1..(m - 1) /\ n \in Ai(c)!Objects
        /\ n \notin Ai(c)!Players
    BY <1>2, Sizes
  <2> QED
    BY <1>2, <1>3, <2>1
<1>5. /\ Todo(w) = From(P, k) /\ task[w].old = {}
      /\ \A q \in Ai(c)!Players : q \in task[w].new <=> Near(c, q, n) /\ q < k
  BY <1>1 DEF Waiting
<1>6. Todo(w) # <<>> /\ Head(Todo(w)) = P[k] /\ Tail(Todo(w)) = From(P, k + 1)
  BY SMTT(60), <1>3, <1>4, <1>5, FromSteps
<1>7. /\ k < m => Ai(c)!Look(w)
      /\ k = m => Ai(c)!Step(w) /\ Ai(c)!First(w) = n
  <2>1. ASSUME k < m PROVE P[k][1] = "look"
    <3>1. k \in 1..(m - 1)
      BY <1>4, <2>1
    <3>2. P[k] = <<"look", n, k>>
      BY <1>3, <3>1
    <3> QED
      BY <3>2
  <2>2. k = m => P[k][1] = "step" /\ P[k][2] = n
    BY <1>3 DEF Me
  <2> QED
    BY <1>6, <2>1, <2>2, WorkBy
<1>8. k < m \/ k = m
  BY <1>4
<1>9. PICK T : T = Todo(w)
  OBVIOUS
<1>10. PICK T2 : T2 = Todo(w)'
  OBVIOUS
<1>11. MuteIn(T) /\ StraysIn(c, T) = {}
  <2>1. k \in 1..(m + m) /\ T = From(Ai(c)!NpcProgram(n), k) /\ k <= m
    BY <1>1, <1>3, <1>4, <1>5, <1>9
  <2>2. MuteIn(T) /\ StraysIn(c, T) = IF k <= m THEN {} ELSE {n}
    BY <1>2, <2>1, NpcMute
  <2> QED
    BY <2>1, <2>2
<1>12. T2 \in Seq(Triples(c)) /\ MuteIn(T2) /\ StraysIn(c, T2) = IF k < m THEN {} ELSE {n}
  <2>1. PICK j : j = k + 1
    OBVIOUS
  <2>2. T2 = From(P, j)
    BY <1>6, <1>7, <1>8, <1>10, <2>1, NextDone
  <2>3. j \in 1..(m + m) /\ T2 = From(Ai(c)!NpcProgram(n), j) /\ (j <= m <=> k < m)
    BY <1>1, <1>4, <2>1, <2>2
  <2>4. /\ T2 \in Seq(Triples(c)) /\ MuteIn(T2)
        /\ StraysIn(c, T2) = IF j <= m THEN {} ELSE {n}
    BY <1>2, <2>3, NpcMute
  <2> QED
    BY <2>3, <2>4
<1>13. CASE k < m
  <2>1. UNCHANGED <<state, pos, view, shown>>
    BY <1>7, <1>13 DEF Ai!Look
  <2>2. PICK S : S = {}
    OBVIOUS
  <2>3. S = StraysIn(c, T) /\ S = StraysIn(c, T2) /\ \A a \in S : a \in Ai(c)!Players
    BY <1>11, <1>12, <1>13, <2>2
  <2> QED
    BY <1>9, <1>10, <1>11, <1>12, <2>1, <2>3, MuteLooks
<1>14. CASE k = m
  <2>1. /\ UNCHANGED <<state, view, shown>> /\ \E d : pos' = [pos EXCEPT ![n] = d]
        /\ task' = [task EXCEPT ![w].todo = Tail(@), ![w].old = @ \cup task[w].new,
                                ![w].new = {}]
    BY <1>7, <1>14 DEF Ai!Step
  <2>2. task'[w].old = task[w].new
    <3>1. task \in [c.workers -> AiHandlers(c)] /\ task[w] \in AiHandlers(c)
      BY DEF AiInv, AiType
    <3>2. task'[w].old = task[w].old \cup task[w].new
      BY <2>1, <3>1 DEF AiHandlers
    <3> QED
      BY <1>5, <3>2
  <2>3. \A o \in Ai(c)!Objects : o # n => pos'[o] = pos[o]
    BY <2>1 DEF Placed
  <2>4. MuteInv(c, w, {})
    BY <1>9, <1>11, MuteShows
  <2>5. ASSUME NEW q \in Ai(c)!Players, NEW o \in Ai(c)!Objects
        PROVE  Near(c, q, o)' \/ o = n \/ ~ Near(c, q, o)
    <3>1. q \in Ai(c)!Objects /\ q # n
      BY <1>4, Sizes
    <3>2. o # n => (Near(c, q, o)' <=> Near(c, q, o))
      BY <2>1, <2>3, <3>1, NearStays
    <3> QED
      BY <3>2
  <2>6. ASSUME NEW q \in Ai(c)!Players, state[q] = "INGAME", n \in shown[q]
        PROVE  q \in task[w].new
    <3>1. OnScreen(c, {}, <<q, n>> \in Kept(c), FALSE, q, n)
      BY <1>4, <2>4 DEF MuteInv
    <3>2. Near(c, q, n)
      BY <2>6, <3>1 DEF OnScreen
    <3>3. q < k
      BY <1>4, <1>14
    <3> QED
      BY <1>5, <3>2, <3>3
  <2>7. PICK S : S = {}
    OBVIOUS
  <2>8. PICK S2 : S2 = {n}
    OBVIOUS
  <2>9. MuteInv(c, w, S) /\ S \subseteq S2
    BY <2>4, <2>7
  <2>10. \A q \in Ai(c)!Players, o \in Ai(c)!Objects :
            Near(c, q, o)' \/ q \in S2 \/ o \in S2 \/ ~ Near(c, q, o)
    BY <2>5, <2>8
  <2>11. \A a \in S2 : \A q \in Ai(c)!Players :
            q # a /\ state'[q] = "INGAME" /\ a \in shown[q]
               => q \in IF a \in Ai(c)!Players THEN view[a] ELSE task'[w].old
    BY <1>4, <2>1, <2>2, <2>6, <2>8
  <2>12. MuteInv(c, w, S2)'
    BY <2>1, <2>9, <2>10, <2>11, MuteGoes
  <2>13. S2 = StraysIn(c, T2)
    BY <1>12, <1>14, <1>4, <2>8
  <2> QED
    BY <1>10, <1>12, <2>12, <2>13, MuteHolds
<1> QED
  BY <1>8, <1>13, <1>14

LEMMA RoamingScreens ==
    ASSUME NEW c \in AiServers, AiInv(c), Placed(c), NEW w \in c.workers, KeptLess(c),
           Ai(c)!Work(w), NEW n \in Ai(c)!Npcs, NEW k \in Ai(c)!Players,
           Roaming(c, w, n, k, All(c), Kept(c)), ScreenInv(c, w)
    PROVE  ScreenInv(c, w)'
<1>1. PICK P : P = Ai(c)!NpcProgram(n)
  OBVIOUS
<1>2. PICK m : m = c.npcStart
  OBVIOUS
<1>3. PICK i : i = m + k
  OBVIOUS
<1>4. /\ P \in Seq(Triples(c)) /\ Len(P) = m + m
      /\ \A j \in 1..(m - 1) : P[m + j] = <<"look", n, j>>
  BY <1>1, <1>2, NpcByStep
<1>5. /\ m \in Nat /\ m >= 1 /\ k \in 1..(m - 1) /\ n \in Ai(c)!Objects
      /\ i \in 1..(m + m) /\ i + 1 \in 1..(m + m) /\ ~ (i <= m) /\ ~ (i + 1 <= m)
  <2>1. /\ m \in Nat /\ m >= 1 /\ Ai(c)!Players = 1..(m - 1) /\ n \in Ai(c)!Objects
    BY <1>2, Sizes
  <2> QED
    BY <1>3, <2>1
<1>6. Todo(w) = From(P, i)
  BY <1>1, <1>2, <1>3 DEF Roaming
<1>7. Todo(w) # <<>> /\ Head(Todo(w)) = P[i] /\ Tail(Todo(w)) = From(P, i + 1)
  BY SMTT(60), <1>4, <1>5, <1>6, FromSteps
<1>8. Ai(c)!Look(w) /\ Ai(c)!First(w) = n
  <2>1. P[i] = <<"look", n, k>>
    BY <1>3, <1>4, <1>5
  <2>2. P[i][1] = "look" /\ P[i][2] = n
    BY <2>1
  <2> QED
    BY <1>7, <2>2, WorkBy
<1>9. UNCHANGED <<state, pos, view, shown>> /\ task'[w].old = task[w].old
  <2>1. task \in [c.workers -> AiHandlers(c)] /\ task[w] \in AiHandlers(c)
    BY DEF AiInv, AiType
  <2> QED
    BY <1>8, <2>1 DEF Ai!Look, AiHandlers
<1>10. PICK T : T = Todo(w)
  OBVIOUS
<1>11. PICK T2 : T2 = Todo(w)'
  OBVIOUS
<1>12. PICK S : S = {n}
  OBVIOUS
<1>13. MuteIn(T) /\ S = StraysIn(c, T)
  <2>1. T = From(Ai(c)!NpcProgram(n), i)
    BY <1>1, <1>6, <1>10
  <2>2. MuteIn(T) /\ StraysIn(c, T) = IF i <= m THEN {} ELSE {n}
    BY <1>2, <1>5, <2>1, NpcMute
  <2> QED
    BY <1>5, <1>12, <2>2
<1>14. T2 \in Seq(Triples(c)) /\ MuteIn(T2) /\ S = StraysIn(c, T2)
  <2>1. PICK j : j = i + 1
    OBVIOUS
  <2>2. T2 = From(Ai(c)!NpcProgram(n), j)
    BY <1>1, <1>7, <1>8, <1>11, <2>1, NextDone
  <2>3. /\ T2 \in Seq(Triples(c)) /\ MuteIn(T2)
        /\ StraysIn(c, T2) = IF j <= m THEN {} ELSE {n}
    BY <1>2, <1>5, <2>1, <2>2, NpcMute
  <2> QED
    BY <1>5, <1>12, <2>1, <2>3
<1> QED
  BY <1>9, <1>10, <1>11, <1>13, <1>14, MuteLooks

(* A sort leaves a program that keeps to what Disciplined says.            *)
LEMMA ScreenSorts ==
    ASSUME NEW c \in AiServers, AiInv(c), NEW w \in c.workers, NEW more \in Seq(Triples(c)),
           Ai(c)!Go(w, more), Tail(Todo(w)) = <<>>, NEW E, E = Elems(more),
           \A i \in E : i[1] # "sort",
           \A i \in E : i[1] = "meet" => task[w].op = "move" /\ i[2] # task[w].id,
           task[w].op \notin {"quit", "abort"},
           task[w].op = "move" => \A i \in E : i[1] = "add" => i[2] = task[w].id,
           \A q \in Ai(c)!Players : state'[q] = "CONNECTED" => shown'[q] = {},
           \A q \in Ai(c)!Players, o \in Ai(c)!Objects :
              OnScreen(c, Due(E, q, o), <<q, o>> \in Kept(c), FALSE, q, o)'
    PROVE  ScreenInv(c, w)'
<1>1. PICK op : op = task[w].op
  OBVIOUS
<1>2. PICK a : a = task[w].id
  OBVIOUS
<1>3. task'[w].todo = more \o Tail(task[w].todo) /\ task'[w].op = op /\ task'[w].id = a
  BY <1>1, <1>2, GoesWith
<1>4. Todo(w)' = more
  <2>1. Todo(w)' = more \o <<>>
    BY <1>3 DEF Todo
  <2> QED
    BY <2>1, ConcatEmptySeq
<1>5. PICK V : V = Elems(Tail(more))
  OBVIOUS
<1>6. Elems(Todo(w))' = E /\ Elems(Tail(Todo(w)))' = V
  BY <1>4, <1>5 DEF Elems
<1>7. more # <<>> => V \subseteq E
  <2>1. ASSUME more # <<>> PROVE Elems(Tail(more)) \subseteq E
    BY <2>1, ElemsStep
  <2> QED
    BY <1>5, <2>1
<1>8. Ai(c)!Players' = Ai(c)!Players /\ Ai(c)!Objects' = Ai(c)!Objects
  BY ProgramStays
<1>9. Strays(c, w)' = {}
  <2>1. \A b : Me("sort", b)[1] = "sort"
    BY DEF Me
  <2>2. \A b : Me("sort", b) \notin E
    BY <2>1
  <2> QED
    BY <1>6, <2>2 DEF Strays
<1>10. Displayed(c, w)'
  BY <1>6, <1>8, <1>9 DEF Displayed
<1>11. Remembered(c, w)'
  BY <1>9 DEF Remembered
<1>12. Disciplined(w)'
  <2>1. \A i \in E : i[1] = "meet" => op = "move" /\ i[2] # a
    BY <1>1, <1>2
  <2>2. op = "move" => \A i \in E : i[1] = "add" => i[2] = a
    BY <1>1, <1>2
  <2>3. op \notin {"quit", "abort"}
    BY <1>1
  <2>4. op = "move" /\ more # <<>> => \A i \in V : i[1] = "add" => i[2] = a
    BY <1>7, <2>2
  <2> QED
    BY <1>3, <1>4, <1>6, <2>1, <2>3, <2>4 DEF Disciplined
<1> QED
  BY <1>8, <1>10, <1>11, <1>12 DEF ScreenInv

(* What is due of a pair, by kind.                                         *)
LEMMA DueBy ==
    ASSUME NEW E, NEW q, NEW o, NEW K, K = Due(E, q, o)
    PROVE  /\ "insert" \in K <=> <<"insert", q, o>> \in E
           /\ "meet" \in K <=> <<"meet", q, o>> \in E
           /\ "erase" \in K <=> <<"erase", q, o>> \in E
           /\ "part" \in K <=> <<"part", q, o>> \in E
           /\ "add" \in K <=> <<"add", q, o>> \in E
           /\ "remove" \in K <=> <<"remove", q, o>> \in E
           /\ "move" \in K <=> <<"move", q, o>> \in E
           /\ "tell" \in K <=> <<"tell", q, o>> \in E
           /\ K \subseteq Errands
BY DEF Due, Errands

(* A player has sorted: what it has lost it will be rid of, and whoever    *)
(* shows it and is not near will part with it.                             *)
LEMMA LookingSorted ==
    ASSUME NEW c \in AiServers, AiInv(c), Placed(c), NEW w \in c.workers, KeptLess(c),
           Ai(c)!Work(w), NEW p \in Ai(c)!Players,
           Looking(c, w, p, c.users + 2, All(c), Kept(c)), ScreenInv(c, w)
    PROVE  ScreenInv(c, w)'
<1>1. PICK P : P = Ai(c)!MoveProgram(p)
  OBVIOUS
<1>2. PICK k : k = c.users + 2
  OBVIOUS
<1>3. P \in Seq(Triples(c)) /\ Len(P) = k /\ P[k] = Me("sort", p)
  BY <1>1, <1>2, MoveByStep
<1>4. c.users \in Nat /\ c.users >= 1 /\ p \in Ai(c)!Objects /\ k \in 1..Len(P) /\ k > 2
      /\ k - 3 = c.users - 1 /\ k \in 1..(c.users + 2) /\ k # 1
  BY <1>2, <1>3, Sizes
<1>5. PICK old : old = task[w].old
  OBVIOUS
<1>6. PICK new : new = task[w].new
  OBVIOUS
<1>7. /\ Todo(w) = From(P, k) /\ task[w].op = "move" /\ task[w].id = p
      /\ old = view[p]
      /\ \A o \in Ai(c)!Objects :
            o \in new <=> Near(c, p, o) /\ \E j \in 1..(k - 3) : Ai(c)!Others(p)[j] = o
  <2>1. Looking(c, w, p, k, All(c), Kept(c))
    BY <1>2
  <2> QED
    BY <1>1, <1>4, <1>5, <1>6, <2>1 DEF Looking
<1>8. Todo(w) # <<>> /\ Head(Todo(w)) = P[k] /\ Tail(Todo(w)) = <<>>
  BY <1>3, <1>4, <1>7, FromSteps
<1>9. Ai(c)!Sort(w) /\ Ai(c)!First(w) = p
  <2>1. P[k][1] = "sort" /\ P[k][2] = p
    BY <1>3 DEF Me
  <2> QED
    BY <1>8, <2>1, WorkBy
<1>10. ASSUME NEW o \in Ai(c)!Objects PROVE o \in new <=> Near(c, p, o)
  <2>1. Near(c, p, o) => o # p
    BY DEF Near
  <2>2. o # p => \E j \in 1..(k - 3) : Ai(c)!Others(p)[j] = o
    BY <1>4, OthersOnce
  <2> QED
    BY <1>7, <2>1, <2>2
<1>11. PICK more : Ai(c)!Go(w, more) /\ PlayerSorted(c, p, old, new, more)
  BY <1>5, <1>6, <1>9, PlayerSortIs
<1>12. PICK E : E = Elems(more)
  OBVIOUS
<1>13. more \in Seq(Triples(c))
  BY <1>11 DEF PlayerSorted
<1>14. \A x \in E : x \in Triples(c)
             /\ x[1] \in {"own", "insert", "add", "meet", "wake", "erase", "remove", "part", "done"}
  BY <1>11, <1>12, PlayerSortKinds
<1>15. UNCHANGED <<pos, state, view, shown>>
  BY <1>9 DEF Ai!Sort
<1>16. PlayerPairs(c, p, old, new, E)
  BY <1>11, <1>12, PlayerSortSays
<1>17. MuteInv(c, w, {p})
  <2>1. PICK T : T = Todo(w)
    OBVIOUS
  <2>2. PICK S : S = {p}
    OBVIOUS
  <2>3. T = From(Ai(c)!MoveProgram(p), k)
    BY <1>1, <1>7, <2>1
  <2>4. MuteIn(T) /\ StraysIn(c, T) = IF k = 1 THEN {} ELSE {p}
    BY <1>4, <2>3, MoveMute
  <2>5. S = StraysIn(c, T) /\ MuteIn(T)
    BY <1>4, <2>2, <2>4
  <2>6. MuteInv(c, w, S)
    BY <2>1, <2>5, MuteShows
  <2> QED
    BY <2>2, <2>6
<1>18. ASSUME NEW q \in Ai(c)!Players, NEW o \in Ai(c)!Objects
       PROVE  OnScreen(c, Due(E, q, o), <<q, o>> \in Kept(c), FALSE, q, o)'
  <2>1. PICK K : K = Due(E, q, o)
    OBVIOUS
  <2>2. PICK kept : kept = (<<q, o>> \in Kept(c))
    OBVIOUS
  <2>3. PICK kept2 : kept2 = (<<q, o>> \in Kept(c))'
    OBVIOUS
  <2>4. kept2 => kept
    BY <2>2, <2>3 DEF KeptLess
  <2>5. PICK stray : stray = (q = p \/ o = p)
    OBVIOUS
  <2>6. OnScreen(c, {}, kept, stray, q, o)
    <3>1. OnScreen(c, {}, kept, q \in {p} \/ o \in {p}, q, o)
      BY <1>17, <2>2 DEF MuteInv
    <3>2. (q \in {p} \/ o \in {p}) <=> stray
      BY <2>5
    <3> QED
      BY <3>1, <3>2 DEF OnScreen
  <2>7. /\ "insert" \in K <=> q = p /\ o \in new \ old
        /\ "add" \in K <=> q = p /\ o \in new \ old
        /\ "erase" \in K <=> q = p /\ o \in old \ new
        /\ "remove" \in K <=> q = p /\ o \in old \ new
        /\ "part" \in K <=> o = p /\ q \in (old \ new) \cap Ai(c)!Players
    <3>1. /\ <<"insert", q, o>> \in E <=> q = p /\ o \in new \ old
          /\ <<"add", q, o>> \in E <=> q = p /\ o \in new \ old
          /\ <<"erase", q, o>> \in E <=> q = p /\ o \in old \ new
          /\ <<"remove", q, o>> \in E <=> q = p /\ o \in old \ new
          /\ <<"part", q, o>> \in E <=> o = p /\ q \in (old \ new) \cap Ai(c)!Players
      BY <1>16 DEF PlayerPairs
    <3> QED
      BY ZenonT(60), <2>1, <3>1, DueBy
  <2>8. "move" \notin K /\ "tell" \notin K
    <3>1. <<"move", q, o>>[1] = "move" /\ <<"tell", q, o>>[1] = "tell"
      OBVIOUS
    <3>2. <<"move", q, o>> \notin E /\ <<"tell", q, o>> \notin E
      BY <1>14, <3>1
    <3> QED
      BY <2>1, <3>2, DueBy
  <2>9. q \in Ai(c)!Objects
    BY Sizes
  <2>10. /\ o \in new <=> Near(c, p, o)
         /\ q \in new <=> Near(c, q, p)
    BY <1>4, <1>10, <2>9, NearBoth
  <2>11. (Near(c, q, o)' <=> Near(c, q, o)) /\ state'[q] = state[q] /\ state'[o] = state[o]
         /\ (o \in view'[q] <=> o \in view[q]) /\ (o \in shown'[q] <=> o \in shown[q])
    BY <1>15, NearStays
  <2>12. CASE q = p
    <3>1. state[q] = "INGAME" /\ o \in shown[q] => o \in old
      BY <1>7, <2>6, <2>12 DEF OnScreen
    <3>2. OnScreen(c, K, kept2, FALSE, q, o)
      BY <1>7, <2>4, <2>6, <2>7, <2>8, <2>10, <2>12, <3>1 DEF OnScreen
    <3>3. OnScreen(c, K, kept2, FALSE, q, o)'
      BY <2>11, <3>2 DEF OnScreen
    <3> QED
      BY <2>1, <2>3, <3>3 DEF OnScreen
  <2>13. CASE q # p /\ o = p
    <3>1. state[q] = "INGAME" /\ o \in shown[q] => q \in old
      BY <1>7, <1>17, <2>13 DEF MuteInv
    <3>2. OnScreen(c, K, kept2, FALSE, q, o)
      BY <2>4, <2>6, <2>7, <2>8, <2>10, <2>13, <3>1 DEF OnScreen
    <3>3. OnScreen(c, K, kept2, FALSE, q, o)'
      BY <2>11, <3>2 DEF OnScreen
    <3> QED
      BY <2>1, <2>3, <3>3 DEF OnScreen
  <2>14. CASE q # p /\ o # p
    <3>1. OnScreen(c, K, kept2, FALSE, q, o)
      BY <2>4, <2>5, <2>6, <2>7, <2>8, <2>14 DEF OnScreen
    <3>2. OnScreen(c, K, kept2, FALSE, q, o)'
      BY <2>11, <3>1 DEF OnScreen
    <3> QED
      BY <2>1, <2>3, <3>2 DEF OnScreen
  <2> QED
    BY <2>12, <2>13, <2>14
<1>19. ASSUME NEW i \in E
       PROVE  /\ i[1] = "meet" => i[2] # p
              /\ i[1] = "add" => i[2] = p
              /\ i[1] # "sort"
  <2>1. i \in Triples(c) /\ i[1] # "sort"
    BY <1>14
  <2>2. PICK q, o : i = <<i[1], q, o>>
    BY <2>1 DEF Triples
  <2>3. i[2] = q
    BY <2>2
  <2>4. ASSUME i[1] = "meet" PROVE q \in new
    <3>1. <<"meet", q, o>> \in E
      BY <2>2, <2>4
    <3> QED
      BY <1>16, <3>1 DEF PlayerPairs
  <2>5. ASSUME i[1] = "add" PROVE q = p
    <3>1. <<"add", q, o>> \in E
      BY <2>2, <2>5
    <3> QED
      BY <1>16, <3>1 DEF PlayerPairs
  <2>6. p \notin new
    BY <1>4, <1>10 DEF Near
  <2> QED
    BY <2>1, <2>3, <2>4, <2>5, <2>6
<1>20. \A q \in Ai(c)!Players : state'[q] = "CONNECTED" => shown'[q] = {}
  BY <1>15, <1>17 DEF MuteInv
<1>21. /\ \A i \in E : i[1] # "sort"
       /\ \A i \in E : i[1] = "meet" => task[w].op = "move" /\ i[2] # task[w].id
       /\ task[w].op \notin {"quit", "abort"}
       /\ task[w].op = "move" => \A i \in E : i[1] = "add" => i[2] = task[w].id
  BY <1>7, <1>19
<1> QED
  BY <1>8, <1>11, <1>12, <1>13, <1>18, <1>20, <1>21, ScreenSorts

(* An NPC has sorted: whoever shows it and is not near it will tell.       *)
LEMMA RoamingSorted ==
    ASSUME NEW c \in AiServers, AiInv(c), Placed(c), NEW w \in c.workers, KeptLess(c),
           Ai(c)!Work(w), NEW n \in Ai(c)!Npcs,
           Roaming(c, w, n, c.npcStart, All(c), Kept(c)), ScreenInv(c, w)
    PROVE  ScreenInv(c, w)'
<1>1. PICK P : P = Ai(c)!NpcProgram(n)
  OBVIOUS
<1>2. PICK m : m = c.npcStart
  OBVIOUS
<1>3. PICK k : k = m + m
  OBVIOUS
<1>4. P \in Seq(Triples(c)) /\ Len(P) = k /\ P[k] = Me("sort", n)
  BY <1>1, <1>2, <1>3, NpcByStep
<1>5. /\ m \in Nat /\ m >= 1 /\ n \in Ai(c)!Objects /\ k \in 1..Len(P)
      /\ Ai(c)!Players = 1..(m - 1) /\ n \notin Ai(c)!Players
      /\ k \in 1..(m + m) /\ ~ (k <= m)
  <2>1. /\ m \in Nat /\ m >= 1 /\ n \in Ai(c)!Objects
        /\ Ai(c)!Players = 1..(m - 1) /\ n \notin Ai(c)!Players
    BY <1>2, Sizes
  <2> QED
    BY <1>3, <1>4, <2>1
<1>6. PICK old : old = task[w].old
  OBVIOUS
<1>7. PICK new : new = task[w].new
  OBVIOUS
<1>8. /\ Todo(w) = From(P, k) /\ task[w].op = "npc" /\ task[w].id = n
      /\ \A q \in Ai(c)!Players :
            /\ <<q, n>> \in Kept(c) /\ n \in view[q] => q \in old
            /\ <<q, n>> \in All(c) /\ q \in old => n \in view[q]
            /\ q \in new <=> Near(c, q, n)
  <2>1. Roaming(c, w, n, m, All(c), Kept(c)) /\ c.npcStart + m = k
    BY <1>2, <1>3
  <2>2. \A q \in Ai(c)!Players : q < m
    BY <1>5
  <2> QED
    BY <1>1, <1>6, <1>7, <2>1, <2>2 DEF Roaming
<1>9. Todo(w) # <<>> /\ Head(Todo(w)) = P[k] /\ Tail(Todo(w)) = <<>>
  BY <1>4, <1>5, <1>8, FromSteps
<1>10. Ai(c)!Sort(w) /\ Ai(c)!First(w) = n
  <2>1. P[k][1] = "sort" /\ P[k][2] = n
    BY <1>4 DEF Me
  <2> QED
    BY <1>9, <2>1, WorkBy
<1>11. PICK more : Ai(c)!Go(w, more) /\ NpcSorted(c, n, old, new, more)
  BY <1>6, <1>7, <1>8, <1>10, NpcSortIs
<1>12. PICK E : E = Elems(more)
  OBVIOUS
<1>13. more \in Seq(Triples(c))
  BY <1>11 DEF NpcSorted
<1>14. \A x \in E : x \in Triples(c) /\ x[1] \in {"insert", "add", "move", "part", "done"}
  BY <1>11, <1>12, NpcSortKinds
<1>15. UNCHANGED <<pos, state, view, shown>>
  BY <1>10 DEF Ai!Sort
<1>16. NpcPairs(n, old, new, E)
  BY <1>11, <1>12, NpcSortSays
<1>17. MuteInv(c, w, {n})
  <2>1. PICK T : T = Todo(w)
    OBVIOUS
  <2>2. PICK S : S = {n}
    OBVIOUS
  <2>3. T = From(Ai(c)!NpcProgram(n), k)
    BY <1>1, <1>8, <2>1
  <2>4. MuteIn(T) /\ StraysIn(c, T) = IF k <= m THEN {} ELSE {n}
    BY <1>2, <1>5, <2>3, NpcMute
  <2>5. S = StraysIn(c, T) /\ MuteIn(T)
    BY <1>5, <2>2, <2>4
  <2>6. MuteInv(c, w, S)
    BY <2>1, <2>5, MuteShows
  <2> QED
    BY <2>2, <2>6
<1>18. ASSUME NEW q \in Ai(c)!Players, NEW o \in Ai(c)!Objects
       PROVE  OnScreen(c, Due(E, q, o), <<q, o>> \in Kept(c), FALSE, q, o)'
  <2>1. PICK K : K = Due(E, q, o)
    OBVIOUS
  <2>2. PICK kept : kept = (<<q, o>> \in Kept(c))
    OBVIOUS
  <2>3. PICK kept2 : kept2 = (<<q, o>> \in Kept(c))'
    OBVIOUS
  <2>4. kept2 => kept
    BY <2>2, <2>3 DEF KeptLess
  <2>5. PICK stray : stray = (o = n)
    OBVIOUS
  <2>6. OnScreen(c, {}, kept, stray, q, o)
    <3>1. OnScreen(c, {}, kept, q \in {n} \/ o \in {n}, q, o)
      BY <1>17, <2>2 DEF MuteInv
    <3>2. (q \in {n} \/ o \in {n}) <=> stray
      BY <1>5, <2>5
    <3> QED
      BY <3>1, <3>2 DEF OnScreen
  <2>7. /\ "insert" \in K <=> o = n /\ q \in new \ old
        /\ "add" \in K <=> o = n /\ q \in new \ old
        /\ "move" \in K <=> o = n /\ q \in new \cap old
        /\ "part" \in K <=> o = n /\ q \in old \ new
    <3>1. /\ <<"insert", q, o>> \in E <=> o = n /\ q \in new \ old
          /\ <<"add", q, o>> \in E <=> o = n /\ q \in new \ old
          /\ <<"move", q, o>> \in E <=> o = n /\ q \in new \cap old
          /\ <<"part", q, o>> \in E <=> o = n /\ q \in old \ new
      BY <1>16 DEF NpcPairs
    <3> QED
      BY <2>1, <3>1, DueBy
  <2>8. "erase" \notin K /\ "remove" \notin K /\ "tell" \notin K
    <3>1. /\ <<"erase", q, o>>[1] = "erase" /\ <<"remove", q, o>>[1] = "remove"
          /\ <<"tell", q, o>>[1] = "tell"
      OBVIOUS
    <3>2. <<"erase", q, o>> \notin E /\ <<"remove", q, o>> \notin E /\ <<"tell", q, o>> \notin E
      BY <1>14, <3>1
    <3> QED
      BY <2>1, <3>2, DueBy
  <2>9. (Near(c, q, o)' <=> Near(c, q, o)) /\ state'[q] = state[q] /\ state'[o] = state[o]
        /\ (o \in view'[q] <=> o \in view[q]) /\ (o \in shown'[q] <=> o \in shown[q])
    BY <1>15, NearStays
  <2>10. CASE o = n
    <3>1. state[q] = "INGAME" /\ o \in shown[q] => q \in old
      BY <1>5, <1>6, <1>17, <2>10 DEF MuteInv
    <3>2. q \in new <=> Near(c, q, o)
      BY <1>8, <2>10
    <3>3. kept2 /\ q \in old /\ Near(c, q, o) => o \in shown[q]
      <4>1. q \in old => o \in view[q]
        BY <1>5, <1>8, <2>10 DEF All
      <4>2. Near(c, q, o) => state[q] = "INGAME"
        BY DEF Near
      <4> QED
        BY <2>4, <2>6, <4>1, <4>2 DEF OnScreen
    <3>4. OnScreen(c, K, kept2, FALSE, q, o)
      BY <2>4, <2>6, <2>7, <2>8, <2>10, <3>1, <3>2, <3>3 DEF OnScreen
    <3>5. OnScreen(c, K, kept2, FALSE, q, o)'
      BY <2>9, <3>4 DEF OnScreen
    <3> QED
      BY <2>1, <2>3, <3>5 DEF OnScreen
  <2>11. CASE o # n
    <3>1. OnScreen(c, K, kept2, FALSE, q, o)
      BY <2>4, <2>5, <2>6, <2>7, <2>8, <2>11 DEF OnScreen
    <3>2. OnScreen(c, K, kept2, FALSE, q, o)'
      BY <2>9, <3>1 DEF OnScreen
    <3> QED
      BY <2>1, <2>3, <3>2 DEF OnScreen
  <2> QED
    BY <2>10, <2>11
<1>19. /\ \A i \in E : i[1] # "sort"
       /\ \A i \in E : i[1] = "meet" => task[w].op = "move" /\ i[2] # task[w].id
       /\ task[w].op \notin {"quit", "abort"}
       /\ task[w].op = "move" => \A i \in E : i[1] = "add" => i[2] = task[w].id
  BY <1>8, <1>14
<1>20. \A q \in Ai(c)!Players : state'[q] = "CONNECTED" => shown'[q] = {}
  BY <1>15, <1>17 DEF MuteInv
<1> QED
  BY <1>9, <1>11, <1>12, <1>13, <1>18, <1>19, <1>20, ScreenSorts

(* Every step of a worker but its last keeps the screens.                  *)
LEMMA AnyScreenWorks ==
    ASSUME NEW c \in AiServers, AiInv(c), Placed(c), NEW w \in c.workers, KeptLess(c),
           Ai(c)!Work(w), ~ Ai(c)!Finish(w),
           Ai(c)!SendFails(w) => state[Ai(c)!First(w)] = "FREE",
           Fair(c, w, All(c), Kept(c)), ScreenInv(c, w)
    PROVE  ScreenInv(c, w)'
<1>1. c.users \in Nat /\ c.npcStart \in Nat /\ Ai(c)!Players = 1..(c.npcStart - 1)
  BY Sizes
<1>2. CASE Settled(c, w, All(c), Kept(c))
  BY <1>2, ScreenWorks
<1>3. ASSUME NEW p \in Ai(c)!Players,
             \/ \E k \in 1..3 : Entering(c, w, p, k, All(c), Kept(c))
             \/ Stepping(c, w, p, All(c), Kept(c))
             \/ \E k \in 2..(c.users + 2) : Looking(c, w, p, k, All(c), Kept(c))
      PROVE  ScreenInv(c, w)'
  <2>1. CASE \E k \in 1..3 : Entering(c, w, p, k, All(c), Kept(c))
    BY <2>1, EnteringScreens
  <2>2. CASE Stepping(c, w, p, All(c), Kept(c))
    BY <2>2, SteppingScreens
  <2>3. ASSUME NEW k \in 2..(c.users + 2), Looking(c, w, p, k, All(c), Kept(c))
        PROVE  ScreenInv(c, w)'
    <3>1. CASE k = c.users + 2
      BY <2>3, <3>1, LookingSorted
    <3>2. CASE k # c.users + 2
      <4>1. k \in 2..(c.users + 1)
        BY <1>1, <3>2
      <4> QED
        BY <2>3, <4>1, LookingScreens
    <3> QED
      BY <3>1, <3>2
  <2> QED
    BY <1>3, <2>1, <2>2, <2>3
<1>4. ASSUME NEW n \in Ai(c)!Npcs, NEW k \in 1..c.npcStart,
             Waiting(c, w, n, k, All(c), Kept(c)) \/ Roaming(c, w, n, k, All(c), Kept(c))
      PROVE  ScreenInv(c, w)'
  <2>1. CASE Waiting(c, w, n, k, All(c), Kept(c))
    BY <2>1, WaitingScreens
  <2>2. CASE Roaming(c, w, n, k, All(c), Kept(c))
    <3>1. CASE k = c.npcStart
      BY <2>2, <3>1, RoamingSorted
    <3>2. CASE k # c.npcStart
      <4>1. k \in Ai(c)!Players
        BY <1>1, <3>2
      <4> QED
        BY <2>2, <4>1, RoamingScreens
    <3> QED
      BY <3>1, <3>2
  <2> QED
    BY <1>4, <2>1, <2>2
<1> QED
  BY <1>2, <1>3, <1>4 DEF Fair

-----------------------------------------------------------------------------
(***************************************************************************)
(* AiServer: the lists and the screens over every step of one worker.      *)
(***************************************************************************)
(* A slot that was given up once is given up for good.                     *)
LEMMA KeptSteps ==
    ASSUME NEW c \in AiServers, AiInv(c), Enters(c), [Ai(c)!Next]_(Ai(c)!vars)
    PROVE  KeptLess(c)
<1>1. /\ state \in [Ai(c)!Objects -> {"FREE", "CONNECTED", "INGAME"}]
      /\ lives \in [Ai(c)!Players -> Nat] /\ Ai(c)!Players \subseteq Ai(c)!Objects
  BY Sizes DEF AiInv, AiType
<1>2. \A p \in Ai(c)!Players : state[p] # "FREE" => lives[p] >= 1
  BY DEF AiInv, SlotsSeen
<1> DEFINE Grows == \A p \in Ai(c)!Players :
                       \/ lives'[p] = lives[p] + 1
                       \/ lives'[p] = lives[p] /\ (state[p] = "FREE" => state'[p] = "FREE")
<1>3. ASSUME NEW w \in c.workers, NEW f \in Ai(c)!Players, Ai(c)!Accept(w, f) PROVE Grows
  <2>1. state[f] = "FREE" /\ state' = [state EXCEPT ![f] = "CONNECTED"]
        /\ lives' = [lives EXCEPT ![f] = lives[f] + 1]
    BY <1>3 DEF Ai!Accept
  <2> QED
    BY <1>1, <2>1
<1>4. ASSUME NEW w \in c.workers, Ai(c)!Start(w),
             ~ \E p \in Ai(c)!Players : Ai(c)!Accept(w, p)
      PROVE  Grows
  BY <1>4, StartsBy
<1>5. ASSUME NEW w \in c.workers, Ai(c)!Work(w) PROVE Grows
  <2>1. UNCHANGED lives
    BY <1>5
    DEF Ai!Work, Ai!Place, Ai!Enter, Ai!Visit, Ai!Unlock, Ai!Step, Ai!Copy, Ai!Look, Ai!Sort,
        Ai!Insert, Ai!Erase, Ai!Meet, Ai!Part, Ai!Wake, Ai!Deliver, Ai!SendFails, Ai!Free,
        Ai!Tell, Ai!Finish, Ai!faults
  <2>2. CASE Ai(c)!Enter(w)
    <3>1. PICK f : f = Ai(c)!First(w)
      OBVIOUS
    <3>2. state[f] # "FREE" /\ state' = [state EXCEPT ![f] = "INGAME"]
      BY <2>2, <3>1, EntersTaken DEF Ai!Enter
    <3> QED
      BY <1>1, <2>1, <3>2
  <2>3. CASE Ai(c)!Free(w)
    <3>1. PICK f : state' = [state EXCEPT ![f] = "FREE"]
      BY <2>3 DEF Ai!Free
    <3> QED
      BY <1>1, <2>1, <3>1
  <2>4. CASE ~ Ai(c)!Enter(w) /\ ~ Ai(c)!Free(w)
    <3>1. UNCHANGED state
      BY <1>5, <2>4
      DEF Ai!Work, Ai!Place, Ai!Visit, Ai!Unlock, Ai!Step, Ai!Copy, Ai!Look, Ai!Sort,
          Ai!Insert, Ai!Erase, Ai!Meet, Ai!Part, Ai!Wake, Ai!Deliver, Ai!SendFails,
          Ai!Tell, Ai!Finish
    <3> QED
      BY <2>1, <3>1
  <2> QED
    BY SMTT(60), <2>2, <2>3, <2>4
<1>6. ASSUME UNCHANGED Ai(c)!vars PROVE Grows
  <2>1. UNCHANGED <<state, lives>>
    BY <1>6 DEF Ai!vars
  <2> QED
    BY <2>1
<1> HIDE DEF Grows
<1>7. Grows
  <2>1. ASSUME NEW w \in c.workers, Ai(c)!Start(w) PROVE Grows
    BY <1>3, <1>4, <2>1
  <2> QED
    BY <1>5, <1>6, <2>1 DEF Ai!Next
<1>8. \A p : Ai(c)!GivenUp(p) => Ai(c)!GivenUp(p)'
  <2> SUFFICES ASSUME NEW p, Ai(c)!GivenUp(p) PROVE Ai(c)!GivenUp(p)'
    OBVIOUS
  <2>1. p \in Ai(c)!Players /\ lives[p] \in Nat
        /\ (lives[p] > 1 \/ (lives[p] = 1 /\ state[p] = "FREE"))
    BY <1>1 DEF Ai!GivenUp
  <2>2. \/ lives'[p] = lives[p] + 1
        \/ lives'[p] = lives[p] /\ (state[p] = "FREE" => state'[p] = "FREE")
    BY <1>7, <2>1 DEF Grows
  <2>3. lives'[p] > 1 \/ (lives'[p] = 1 /\ state'[p] = "FREE")
    BY <2>1, <2>2
  <2> QED
    BY <2>1, <2>3, ProgramStays DEF Ai!GivenUp
<1>9. All(c)' = All(c)
  BY ProgramStays DEF All
<1> QED
  BY <1>8, <1>9 DEF KeptLess, Kept

(* Between two handlers nothing is left to be said about any pair, nor at  *)
(* the beginning of one.                                                   *)
LEMMA ScreenRests ==
    ASSUME NEW c \in AiServers, NEW w, KeptLess(c), ScreenInv(c, w), UNCHANGED view,
           NEW T, T = Todo(w), MuteIn(T), StraysIn(c, T) = {},
           NEW T2, T2 = Todo(w)', T2 \in Seq(Triples(c)), MuteIn(T2), StraysIn(c, T2) = {},
           \A q \in Ai(c)!Players :
              /\ state'[q] = "INGAME" => state[q] = "INGAME" /\ shown'[q] = shown[q]
              /\ state'[q] = "CONNECTED" => shown'[q] = {},
           \A q \in Ai(c)!Players, o \in Ai(c)!Objects : Near(c, q, o)' <=> Near(c, q, o)
    PROVE  ScreenInv(c, w)'
<1>1. PICK S : S = {}
  OBVIOUS
<1>2. MuteInv(c, w, S)
  BY <1>1, MuteShows
<1>3. Ai(c)!Players' = Ai(c)!Players /\ Ai(c)!Objects' = Ai(c)!Objects
  BY ProgramStays
<1>4. ASSUME NEW q \in Ai(c)!Players, NEW o \in Ai(c)!Objects
      PROVE  OnScreen(c, {}, <<q, o>> \in Kept(c), q \in S \/ o \in S, q, o)'
  <2>1. PICK kept : kept = (<<q, o>> \in Kept(c))
    OBVIOUS
  <2>2. PICK kept2 : kept2 = (<<q, o>> \in Kept(c))'
    OBVIOUS
  <2>3. PICK stray : stray = (q \in S \/ o \in S)
    OBVIOUS
  <2>4. OnScreen(c, {}, kept, stray, q, o) /\ (kept2 => kept) /\ ~ stray
    BY <1>1, <1>2, <2>1, <2>2, <2>3 DEF MuteInv, KeptLess
  <2>5. /\ state'[q] = "INGAME" => state[q] = "INGAME" /\ shown'[q] = shown[q]
        /\ Near(c, q, o)' <=> Near(c, q, o)
        /\ o \in view'[q] <=> o \in view[q]
    OBVIOUS
  <2>6. OnScreen(c, {}, kept2, stray, q, o)'
    BY <2>4, <2>5 DEF OnScreen
  <2> QED
    BY <2>2, <2>3, <2>6 DEF OnScreen
<1>5. MuteInv(c, w, S)'
  BY <1>1, <1>3, <1>4 DEF MuteInv
<1> QED
  BY <1>1, <1>5, MuteHolds

LEMMA ScreenFinish ==
    ASSUME NEW c \in AiServers, AiInv(c), NEW w \in c.workers, KeptLess(c), Ai(c)!Finish(w),
           Fair(c, w, All(c), Kept(c)), ScreenInv(c, w)
    PROVE  ScreenInv(c, w)'
<1>1. /\ Ai(c)!At(w, "done") /\ task[w].todo # <<>> /\ UNCHANGED <<state, pos, view, shown>>
      /\ task' = [task EXCEPT ![w] = Ai(c)!Idle]
  BY DEF Ai!Finish, Ai!At
<1>2. PICK T : T = Todo(w)
  OBVIOUS
<1>3. T # <<>> /\ Head(T)[1] = "done"
  BY <1>1, <1>2 DEF Todo, Ai!At
<1>4. Elems(T) = {Head(T)}
  BY <1>2, <1>3, FairAtEnd
<1>5. MuteIn(T)
  BY <1>3, <1>4 DEF MuteIn, Errands
<1>6. StraysIn(c, T) = {}
  <2>1. \A a : Me("sort", a)[1] = "sort"
    BY DEF Me
  <2> QED
    BY <1>3, <1>4, <2>1 DEF StraysIn
<1>7. PICK T2 : T2 = <<>>
  OBVIOUS
<1>8. T2 = Todo(w)'
  <2>1. task \in [c.workers -> AiHandlers(c)]
    BY DEF AiInv, AiType
  <2> QED
    BY <1>1, <1>7, <2>1 DEF Todo, Ai!Idle
<1>9. T2 \in Seq(Triples(c)) /\ MuteIn(T2) /\ StraysIn(c, T2) = {}
  BY <1>7, ElemsNone DEF MuteIn, StraysIn
<1>10. \A q \in Ai(c)!Players, o \in Ai(c)!Objects : Near(c, q, o)' <=> Near(c, q, o)
  BY <1>1, NearStays
<1>11. \A q \in Ai(c)!Players :
          /\ state'[q] = "INGAME" => state[q] = "INGAME" /\ shown'[q] = shown[q]
          /\ state'[q] = "CONNECTED" => shown'[q] = {}
  BY <1>1 DEF ScreenInv
<1> QED
  BY <1>1, <1>2, <1>5, <1>6, <1>8, <1>9, <1>10, <1>11, ScreenRests

LEMMA ScreenAccept ==
    ASSUME NEW c \in AiServers, AiInv(c), Placed(c), NEW w \in c.workers, KeptLess(c),
           NEW p \in Ai(c)!Players, Ai(c)!Accept(w, p),
           Fair(c, w, All(c), Kept(c)), ScreenInv(c, w)
    PROVE  Fair(c, w, All(c), Kept(c))' /\ ScreenInv(c, w)'
<1>1. /\ task[w] = Ai(c)!Idle /\ state[p] = "FREE" /\ state' = [state EXCEPT ![p] = "CONNECTED"]
      /\ shown' = [shown EXCEPT ![p] = {}] /\ UNCHANGED <<pos, view, task>>
  BY DEF Ai!Accept
<1>2. state \in [Ai(c)!Objects -> {"FREE", "CONNECTED", "INGAME"}]
      /\ Ai(c)!Players \subseteq Ai(c)!Objects /\ p \in Ai(c)!Objects
      /\ shown \in [Ai(c)!Players -> SUBSET Ai(c)!Objects]
  BY Sizes DEF AiInv, AiType, Placed
<1>3. PICK T : T = <<>>
  OBVIOUS
<1>4. T = Todo(w) /\ T = Todo(w)'
  BY <1>1, <1>3 DEF Todo, Ai!Idle
<1>5. T \in Seq(Triples(c)) /\ MuteIn(T) /\ StraysIn(c, T) = {}
  BY <1>3, ElemsNone DEF MuteIn, StraysIn
<1>6. \A q \in Ai(c)!Players, o \in Ai(c)!Objects : Near(c, q, o)' <=> Near(c, q, o)
  BY <1>1, <1>2, NearStays
<1>7. ASSUME NEW q \in Ai(c)!Players
      PROVE  /\ state'[q] = "INGAME" => state[q] = "INGAME" /\ shown'[q] = shown[q]
             /\ state'[q] = "CONNECTED" => shown'[q] = {}
  <2>1. CASE q = p
    <3>1. state'[q] = "CONNECTED" /\ shown'[q] = {}
      BY <1>1, <1>2, <2>1
    <3> QED
      BY <3>1
  <2>2. CASE q # p
    <3>1. state'[q] = state[q] /\ shown'[q] = shown[q]
      BY <1>1, <1>2, <2>2
    <3> QED
      BY <3>1 DEF ScreenInv
  <2> QED
    BY <2>1, <2>2
<1>8. ScreenInv(c, w)'
  BY <1>1, <1>4, <1>5, <1>6, <1>7, ScreenRests
<1>9. PICK M : M = All(c)
  OBVIOUS
<1>10. PICK L : L = Kept(c)
  OBVIOUS
<1>11. PICK L2 : L2 = Kept(c)'
  OBVIOUS
<1>12. Fewer(M, M) /\ Fewer(L2, L) /\ All(c)' = M
  BY <1>9, <1>10, <1>11, ProgramStays DEF Fewer, KeptLess, All
<1>13. \A i \in Elems(Todo(w)) : i[1] # "free"
  BY <1>3, <1>4, ElemsNone
<1>14. Fair(c, w, M, L)
  BY <1>9, <1>10
<1>15. Fair(c, w, M, L2)'
  BY <1>1, <1>12, <1>13, <1>14, FairAccepts
<1>16. Fair(c, w, All(c), Kept(c))'
  BY <1>11, <1>12, <1>15
<1> QED
  BY <1>8, <1>16

LEMMA ScreenBegins ==
    ASSUME NEW c \in AiServers, AiInv(c), NpcsIn(c), NEW w \in c.workers, KeptLess(c),
           Ai(c)!Start(w), ~ \E p \in Ai(c)!Players : Ai(c)!Accept(w, p),
           Fair(c, w, All(c), Kept(c)), ScreenInv(c, w)
    PROVE  Fair(c, w, All(c), Kept(c))' /\ ScreenInv(c, w)'
<1>1. UNCHANGED <<state, pos, view, shown>>
  BY StartsBy
<1>2. PICK op, a, todo :
        /\ Ai(c)!Begin(w, op, a, todo)
        /\ \/ /\ op = "login" /\ a \in Ai(c)!Players /\ state[a] = "CONNECTED"
              /\ todo = Ai(c)!LoginProgram(a)
           \/ /\ op = "move" /\ a \in Ai(c)!Players /\ state[a] = "INGAME"
              /\ todo = Ai(c)!MoveProgram(a)
           \/ op = "npc" /\ a \in Ai(c)!Npcs /\ todo = Ai(c)!NpcProgram(a)
           \/ op \in {"quit", "abort"} /\ a \in Ai(c)!Players /\ Leaves(c, a, todo)
  BY StartsBy
<1>3. task[w].todo = <<>> /\ task'[w].todo = todo
  BY <1>2, BeginsWith
<1>4. PICK T : T = <<>>
  OBVIOUS
<1>5. T = Todo(w) /\ todo = Todo(w)'
  BY <1>3, <1>4 DEF Todo
<1>6. MuteIn(T) /\ StraysIn(c, T) = {}
  BY <1>4, ElemsNone DEF MuteIn, StraysIn
<1>7. todo \in Seq(Triples(c)) /\ MuteIn(todo) /\ StraysIn(c, todo) = {}
  <2>1. c.users \in Nat /\ c.npcStart \in Nat /\ c.npcStart >= 1
    BY Sizes
  <2>2. CASE op = "login" /\ a \in Ai(c)!Players /\ todo = Ai(c)!LoginProgram(a)
    <3>1. todo = From(Ai(c)!LoginProgram(a), 1)
      <4>1. Ai(c)!LoginProgram(a) \in Seq(Triples(c))
        BY <2>2, LoginByStep
      <4> QED
        BY <2>2, <4>1, FromFirst
    <3>2. 1 \in 1..4
      OBVIOUS
    <3> QED
      BY <2>2, <3>1, <3>2, LoginMute
  <2>3. CASE op = "move" /\ a \in Ai(c)!Players /\ todo = Ai(c)!MoveProgram(a)
    <3>1. todo = From(Ai(c)!MoveProgram(a), 1)
      <4>1. Ai(c)!MoveProgram(a) \in Seq(Triples(c))
        BY <2>3, MoveByStep
      <4> QED
        BY <2>3, <4>1, FromFirst
    <3>2. 1 \in 1..(c.users + 2)
      BY <2>1
    <3> QED
      BY <2>3, <3>1, <3>2, MoveMute
  <2>4. CASE op = "npc" /\ a \in Ai(c)!Npcs /\ todo = Ai(c)!NpcProgram(a)
    <3>1. todo = From(Ai(c)!NpcProgram(a), 1)
      <4>1. Ai(c)!NpcProgram(a) \in Seq(Triples(c))
        BY <2>4, NpcByStep
      <4> QED
        BY <2>4, <4>1, FromFirst
    <3>2. PICK m : m = c.npcStart
      OBVIOUS
    <3>3. 1 \in 1..(m + m) /\ 1 <= m
      BY <2>1, <3>2
    <3> QED
      BY <2>4, <3>1, <3>2, <3>3, NpcMute
  <2>5. CASE a \in Ai(c)!Players /\ Leaves(c, a, todo)
    <3>1. todo \in Seq(Triples(c)) /\ Elems(todo) = {Me("free", a), Me("done", a)}
      BY <2>5 DEF Leaves
    <3>2. /\ Me("free", a)[1] = "free" /\ Me("done", a)[1] = "done"
          /\ \A b : Me("sort", b)[1] = "sort"
      BY DEF Me
    <3>3. MuteIn(todo)
      BY <3>1, <3>2 DEF MuteIn, Errands
    <3>4. StraysIn(c, todo) = {}
      BY <3>1, <3>2 DEF StraysIn
    <3> QED
      BY <3>1, <3>3, <3>4
  <2> QED
    BY <1>2, <2>2, <2>3, <2>4, <2>5
<1>8. \A q \in Ai(c)!Players, o \in Ai(c)!Objects : Near(c, q, o)' <=> Near(c, q, o)
  BY <1>1, NearStays
<1>9. \A q \in Ai(c)!Players :
         /\ state'[q] = "INGAME" => state[q] = "INGAME" /\ shown'[q] = shown[q]
         /\ state'[q] = "CONNECTED" => shown'[q] = {}
  BY <1>1 DEF ScreenInv
<1>10. ScreenInv(c, w)'
  BY <1>1, <1>5, <1>6, <1>7, <1>8, <1>9, ScreenRests
<1>11. PICK M : M = All(c)
  OBVIOUS
<1>12. PICK L : L = Kept(c)
  OBVIOUS
<1>13. PICK L2 : L2 = Kept(c)'
  OBVIOUS
<1>14. Fewer(M, M) /\ Fewer(L2, L) /\ All(c)' = M
  BY <1>11, <1>12, <1>13, ProgramStays DEF Fewer, KeptLess, All
<1>15. Agreed(c, {}, M, L)
  BY <1>4, <1>5, <1>11, <1>12, FairAtEnd
<1>16. Fair(c, w, M, L2)'
  BY <1>1, <1>2, <1>14, <1>15, FairBegins
<1>17. Fair(c, w, All(c), Kept(c))'
  BY <1>13, <1>14, <1>16
<1> QED
  BY <1>10, <1>17

(* Every step of a worker but its last.                                    *)
LEMMA ListWorks ==
    ASSUME NEW c \in AiServers, AiInv(c), Placed(c), NEW w \in c.workers, KeptLess(c),
           Ai(c)!Work(w), ~ Ai(c)!Finish(w),
           Ai(c)!SendFails(w) => state[Ai(c)!First(w)] = "FREE",
           Fair(c, w, All(c), Kept(c)), ScreenInv(c, w)
    PROVE  Fair(c, w, All(c), Kept(c))' /\ ScreenInv(c, w)'
<1>1. ScreenInv(c, w)'
  BY AnyScreenWorks
<1>2. PICK M : M = All(c)
  OBVIOUS
<1>3. PICK L : L = Kept(c)
  OBVIOUS
<1>4. PICK L2 : L2 = Kept(c)'
  OBVIOUS
<1>5. Fewer(M, M) /\ Fewer(L2, L) /\ All(c)' = M
  BY <1>2, <1>3, <1>4, ProgramStays DEF Fewer, KeptLess, All
<1>6. PICK f : f = Ai(c)!First(w)
  OBVIOUS
<1>7. task[w].todo # <<>>
  BY WorksOn
<1>8. FreesWell(c, w, L2)
  <2> SUFFICES ASSUME Ai(c)!At(w, "free"), state[f] = "INGAME",
                      NEW q, NEW o, <<q, o>> \in L2
               PROVE  q # f /\ o # f
    BY SMTT(60), <1>6 DEF FreesWell
  <2>1. Ai(c)!Free(w)
    <3>1. \A k : Ai(c)!At(w, k) => k = "free"
      BY DEF Ai!At
    <3> QED
      BY <3>1, WorkByOp
  <2>2. f \in Ai(c)!Players /\ f \in Ai(c)!Objects
    <3>1. <<"free", f, Ai(c)!Second(w)>> \in AiInstr(c, task[w].id)
      BY <1>6, <1>7, AiHand
    <3> QED
      BY <3>1, Sizes DEF AiInstr
  <2>3. /\ state \in [Ai(c)!Objects -> {"FREE", "CONNECTED", "INGAME"}]
        /\ lives \in [Ai(c)!Players -> Nat]
        /\ state' = [state EXCEPT ![f] = "FREE"] /\ UNCHANGED lives
    BY <1>6, <2>1 DEF Ai!Free, AiInv, AiType
  <2>4. lives'[f] \in Nat /\ lives'[f] >= 1 /\ state'[f] = "FREE"
    BY <2>2, <2>3 DEF AiInv, SlotsSeen
  <2>5. Ai(c)!GivenUp(f)'
    BY <2>2, <2>4, ProgramStays DEF Ai!GivenUp
  <2>6. ~ Ai(c)!GivenUp(q)' /\ ~ Ai(c)!GivenUp(o)'
    <3>1. \A x \in L2 : ~ Ai(c)!GivenUp(x[1])' /\ ~ Ai(c)!GivenUp(x[2])'
      BY <1>4 DEF Kept
    <3>2. PICK x : x = <<q, o>>
      OBVIOUS
    <3>3. x \in L2 /\ x[1] = q /\ x[2] = o
      BY <3>2
    <3> QED
      BY <3>1, <3>3
  <2> QED
    BY <2>5, <2>6
<1>9. KeepsPairs(c, w, M, L, M, L2)
  <2>1. ASSUME f \in Ai(c)!Players PROVE StepsWell(f, M, L, M, L2)
    <3>1. Ai(c)!Players \subseteq Ai(c)!Objects
      BY Sizes
    <3>2. \A q : <<q, f>> \in L => <<f, q>> \in M
      BY <1>2, <1>3, <2>1, <3>1 DEF Kept, All
    <3> QED
      BY <1>5, <3>2 DEF StepsWell, Fewer
  <2> QED
    BY <1>5, <1>6, <1>8, <2>1 DEF KeepsPairs
<1>10. Fair(c, w, M, L)
  BY <1>2, <1>3
<1>11. Fair(c, w, M, L2)'
  BY <1>9, <1>10, FairWorks
<1>12. Fair(c, w, All(c), Kept(c))'
  BY <1>4, <1>5, <1>11
<1> QED
  BY <1>1, <1>12

LEMMA ListStays ==
    ASSUME NEW c \in AiServers, AiInv(c), NEW w \in c.workers, KeptLess(c),
           UNCHANGED Ai(c)!vars, Fair(c, w, All(c), Kept(c)), ScreenInv(c, w)
    PROVE  Fair(c, w, All(c), Kept(c))' /\ ScreenInv(c, w)'
<1>1. UNCHANGED <<state, pos, view, shown, lives, task>>
  BY DEF Ai!vars
<1>2. PICK M : M = All(c)
  OBVIOUS
<1>3. PICK L : L = Kept(c)
  OBVIOUS
<1>4. PICK L2 : L2 = Kept(c)'
  OBVIOUS
<1>5. Fewer(M, M) /\ Fewer(L2, L) /\ All(c)' = M
  BY <1>2, <1>3, <1>4, ProgramStays DEF Fewer, KeptLess, All
<1>6. Fair(c, w, M, L)
  BY <1>2, <1>3
<1>7. Fair(c, w, M, L2)'
  BY <1>1, <1>5, <1>6, FairStays
<1>8. Fair(c, w, All(c), Kept(c))'
  BY <1>4, <1>5, <1>7
<1>9. Ai(c)!Players' = Ai(c)!Players /\ Ai(c)!Objects' = Ai(c)!Objects
  BY ProgramStays
<1>10. Strays(c, w)' = Strays(c, w) /\ Elems(Todo(w))' = Elems(Todo(w))
  BY <1>1, <1>9 DEF Strays, Elems, Todo, Me
<1>11. PICK A : A = Strays(c, w)
  OBVIOUS
<1>12. PICK E : E = Elems(Todo(w))
  OBVIOUS
<1>13. ASSUME NEW q \in Ai(c)!Players, NEW o \in Ai(c)!Objects
       PROVE  OnScreen(c, Due(E, q, o), <<q, o>> \in Kept(c), q \in A \/ o \in A, q, o)'
  <2>1. PICK K : K = Due(E, q, o)
    OBVIOUS
  <2>2. PICK kept : kept = (<<q, o>> \in Kept(c))
    OBVIOUS
  <2>3. PICK kept2 : kept2 = (<<q, o>> \in Kept(c))'
    OBVIOUS
  <2>4. PICK stray : stray = (q \in A \/ o \in A)
    OBVIOUS
  <2>5. OnScreen(c, K, kept, stray, q, o) /\ (kept2 => kept)
    BY <1>11, <1>12, <2>1, <2>2, <2>3, <2>4 DEF ScreenInv, Displayed, KeptLess
  <2>6. Near(c, q, o)' <=> Near(c, q, o)
    BY <1>1, NearStays
  <2>7. OnScreen(c, K, kept2, stray, q, o)'
    BY <1>1, <2>5, <2>6, OnScreenStays
  <2> QED
    BY <2>1, <2>3, <2>4, <2>7
<1>14. Displayed(c, w)'
  BY <1>9, <1>10, <1>11, <1>12, <1>13 DEF Displayed
<1>15. Remembered(c, w)'
  BY <1>1, <1>9, <1>10 DEF ScreenInv, Remembered
<1>16. Disciplined(w)'
  BY <1>1, <1>10 DEF ScreenInv, Disciplined, Todo, Elems
<1>17. \A q \in Ai(c)!Players' : state'[q] = "CONNECTED" => shown'[q] = {}
  BY <1>1, <1>9 DEF ScreenInv
<1> QED
  BY <1>8, <1>14, <1>15, <1>16, <1>17 DEF ScreenInv

(* A worker that has nothing to do has settled.                            *)
LEMMA IdleSettled ==
    ASSUME NEW c, NEW w, Todo(w) = <<>>, NEW Must, NEW Only, Agreed(c, {}, Must, Only)
    PROVE  Fair(c, w, Must, Only)
<1>1. PICK T : T = <<>>
  OBVIOUS
<1>2. T \in Seq(Triples(c)) /\ Elems(T) = {} /\ Ends(T)
  BY <1>1, ElemsNone DEF Ends
<1> QED
  BY <1>1, <1>2 DEF Fair, Settled

LEMMA FinishedFair ==
    ASSUME NEW c \in AiServers, AiInv(c), NEW w \in c.workers, KeptLess(c), Ai(c)!Finish(w),
           Fair(c, w, All(c), Kept(c))
    PROVE  Fair(c, w, All(c), Kept(c))'
<1>1. /\ Ai(c)!At(w, "done") /\ task[w].todo # <<>> /\ UNCHANGED <<state, pos, view>>
      /\ task' = [task EXCEPT ![w] = Ai(c)!Idle]
  BY DEF Ai!Finish, Ai!At
<1>2. PICK M : M = All(c)
  OBVIOUS
<1>3. PICK L : L = Kept(c)
  OBVIOUS
<1>4. PICK L2 : L2 = Kept(c)'
  OBVIOUS
<1>5. Fewer(M, M) /\ Fewer(L2, L) /\ All(c)' = M
  BY <1>2, <1>3, <1>4, ProgramStays DEF Fewer, KeptLess, All
<1>6. Todo(w) # <<>> => Head(Todo(w))[1] = "done"
  BY <1>1 DEF Todo, Ai!At
<1>7. Agreed(c, {}, M, L)
  BY <1>2, <1>3, <1>6, FairAtEnd
<1>8. \A q \in Ai(c)!Players, o \in Ai(c)!Objects : Near(c, q, o)' <=> Near(c, q, o)
  BY <1>1, NearStays
<1>9. UNCHANGED view
  BY <1>1
<1>10. Agreed(c, {}, M, L2)'
  BY <1>5, <1>7, <1>8, <1>9, AgreedStays
<1>11. Todo(w)' = <<>>
  <2>1. task \in [c.workers -> AiHandlers(c)]
    BY DEF AiInv, AiType
  <2> QED
    BY <1>1, <2>1 DEF Todo, Ai!Idle
<1>12. PICK T : T = <<>>
  OBVIOUS
<1>13. T \in Seq(Triples(c)) /\ Elems(T) = {} /\ Ends(T)
  BY <1>12, ElemsNone DEF Ends
<1>14. Todo(w)' = T /\ Elems(Todo(w))' = Elems(T) /\ Ends(Todo(w))' = Ends(T)
       /\ Triples(c)' = Triples(c)
  BY <1>11, <1>12, ProgramStays DEF Elems, Ends
<1>15. Settled(c, w, M, L2)'
  BY <1>10, <1>13, <1>14 DEF Settled
<1> QED
  BY <1>4, <1>5, <1>15 DEF Fair

(* One worker, and no send that fails.                                     *)
Undisturbed(c) == Cardinality(c.workers) = 1 /\ c.failures = 0

LEMMA OneWorker ==
    ASSUME NEW c \in AiServers, Undisturbed(c)
    PROVE  \E w : c.workers = {w}
<1>1. IsFiniteSet(c.workers)
  <2>1. Ai(c)!IsFiniteSet(c.workers)
    BY LectureServersAssumption DEF Ai!AiServerAssumption
  <2> QED
    BY <2>1 DEF Ai!IsFiniteSet, IsFiniteSet
<1> QED
  BY <1>1, FS_Singleton DEF Undisturbed

LEMMA ListSteps ==
    ASSUME NEW c \in AiServers, Undisturbed(c), AiInv(c), Placed(c), NpcsIn(c), Enters(c),
           Counts(c), ListInv(c), [Ai(c)!Next]_(Ai(c)!vars)
    PROVE  ListInv(c)'
<1>1. PICK w : c.workers = {w}
  BY OneWorker
<1>2. KeptLess(c)
  BY KeptSteps
<1>3. w \in c.workers /\ Fair(c, w, All(c), Kept(c)) /\ ScreenInv(c, w)
  BY <1>1 DEF ListInv
<1>4. Ai(c)!SendFails(w) => state[Ai(c)!First(w)] = "FREE"
  <2>1. failed \in Nat /\ failed <= 0
    BY DEF AiInv, AiType, Counts, Undisturbed
  <2>2. ~ failed < c.failures
    BY <2>1 DEF Undisturbed
  <2> QED
    BY <2>2 DEF Ai!SendFails
<1>5. Fair(c, w, All(c), Kept(c))' /\ ScreenInv(c, w)'
  <2>1. CASE \E p \in Ai(c)!Players : Ai(c)!Accept(w, p)
    BY <1>2, <1>3, <2>1, ScreenAccept
  <2>2. CASE Ai(c)!Start(w) /\ ~ \E p \in Ai(c)!Players : Ai(c)!Accept(w, p)
    BY <1>2, <1>3, <2>2, ScreenBegins
  <2>3. CASE Ai(c)!Work(w) /\ ~ Ai(c)!Finish(w)
    BY <1>2, <1>3, <1>4, <2>3, ListWorks
  <2>4. CASE Ai(c)!Finish(w)
    <3>1. ScreenInv(c, w)'
      BY SMTT(60), <1>2, <1>3, <2>4, ScreenFinish
    <3>2. Fair(c, w, All(c), Kept(c))'
      BY <1>2, <1>3, <2>4, FinishedFair
    <3> QED
      BY <3>1, <3>2
  <2>5. CASE UNCHANGED Ai(c)!vars
    BY <1>2, <1>3, <2>5, ListStays
  <2> QED
    BY <1>1, <2>1, <2>2, <2>3, <2>4, <2>5 DEF Ai!Next
<1>6. \A v \in c.workers : Fair(c, v, All(c), Kept(c))' /\ ScreenInv(c, v)'
  BY <1>1, <1>5
<1> QED
  BY <1>6 DEF ListInv

LEMMA ListInit ==
    ASSUME NEW c \in AiServers, Ai(c)!Init
    PROVE  ListInv(c)
<1>1. /\ Ai(c)!Players \subseteq Ai(c)!Objects
      /\ \A o \in Ai(c)!Objects : o \in Ai(c)!Npcs <=> o \notin Ai(c)!Players
  BY Sizes
<1>2. /\ \A q \in Ai(c)!Players : state[q] = "FREE" /\ view[q] = {} /\ shown[q] = {}
      /\ \A w \in c.workers : Todo(w) = <<>>
  BY <1>1 DEF Ai!Init, Ai!Idle, Todo
<1>3. Agreed(c, {}, All(c), Kept(c))
  BY <1>2 DEF Agreed, Agrees, Comes, Parts, Near
<1> SUFFICES ASSUME NEW w \in c.workers
             PROVE  Fair(c, w, All(c), Kept(c)) /\ ScreenInv(c, w)
  BY DEF ListInv
<1>4. Fair(c, w, All(c), Kept(c))
  BY <1>2, <1>3, IdleSettled
<1>5. Elems(Todo(w)) = {}
  BY <1>2, ElemsNone
<1>6. Strays(c, w) = {}
  BY <1>5 DEF Strays
<1>7. ASSUME NEW q \in Ai(c)!Players, NEW o \in Ai(c)!Objects
      PROVE  OnScreen(c, Due(Elems(Todo(w)), q, o), <<q, o>> \in Kept(c),
                      q \in Strays(c, w) \/ o \in Strays(c, w), q, o)
  <2>1. Due(Elems(Todo(w)), q, o) = {}
    BY <1>5 DEF Due
  <2> QED
    BY <1>2, <2>1 DEF OnScreen
<1>8. Disciplined(w)
  BY <1>2, <1>5 DEF Disciplined
<1>9. Remembered(c, w)
  BY <1>6 DEF Remembered
<1>10. Displayed(c, w)
  BY <1>7 DEF Displayed
<1>11. \A q \in Ai(c)!Players : state[q] = "CONNECTED" => shown[q] = {}
  BY <1>2
<1> QED
  BY <1>4, <1>8, <1>9, <1>10, <1>11 DEF ScreenInv

(* What they say when no handler runs, and of a move that is to be sent.   *)
LEMMA ListShows ==
    ASSUME NEW c \in AiServers, AiInv(c), Placed(c), Undisturbed(c), ListInv(c)
    PROVE  Ai(c)!ListIsSight /\ Ai(c)!ClientShowsSight /\ Ai(c)!MovesAreOfShown
<1>1. /\ Ai(c)!Players \subseteq Ai(c)!Objects
      /\ view \in [Ai(c)!Players -> SUBSET Ai(c)!Objects]
      /\ shown \in [Ai(c)!Players -> SUBSET Ai(c)!Objects]
  BY Sizes DEF AiInv, AiType, Placed
<1>2. ASSUME Ai(c)!AtRest, NEW p \in Ai(c)!InGame, NEW o \in Ai(c)!Objects
      PROVE  /\ o \in Ai(c)!Sight(p) => o \in view[p]
             /\ ~ Ai(c)!GivenUp(p) /\ o \in view[p] /\ o \notin Ai(c)!Sight(p)
                  => Ai(c)!GivenUp(o)
             /\ o \in shown[p] => o \in Ai(c)!Sight(p)
             /\ ~ Ai(c)!GivenUp(p) /\ o \in Ai(c)!Sight(p) /\ o \notin shown[p]
                  => Ai(c)!GivenUp(o)
  <2>1. PICK w \in c.workers : Todo(w) = <<>>
    <3>1. PICK w : c.workers = {w}
      BY OneWorker
    <3> QED
      BY <1>2, <3>1 DEF Ai!AtRest, Ai!Idle, Todo
  <2>2. p \in Ai(c)!Players /\ p \in Ai(c)!Objects /\ state[p] = "INGAME"
    BY <1>1 DEF Ai!InGame
  <2>3. o \in Ai(c)!Sight(p) <=> Near(c, p, o)
    BY <2>2, NearSight
  <2>4. Fair(c, w, All(c), Kept(c)) /\ ScreenInv(c, w)
    BY DEF ListInv
  <2>5. PICK kept : kept = (<<p, o>> \in Kept(c))
    OBVIOUS
  <2>6. <<p, o>> \in All(c) /\ (~ Ai(c)!GivenUp(p) /\ ~ Ai(c)!GivenUp(o) => kept)
    BY <2>2, <2>5 DEF All, Kept
  <2>7. /\ Near(c, p, o) => o \in view[p]
        /\ kept /\ o \in view[p] => Near(c, p, o)
    <3>1. Agreed(c, {}, All(c), Kept(c))
      BY <2>1, <2>4, FairAtEnd
    <3>2. Agrees(c, {}, All(c), Kept(c), p, o)
      BY <2>2, <3>1 DEF Agreed
    <3> QED
      BY <2>5, <2>6, <3>2 DEF Agrees, Comes, Parts, Called
  <2>8. OnScreen(c, {}, kept, FALSE, p, o)
    <3>1. Due(Elems(Todo(w)), p, o) = {} /\ Strays(c, w) = {}
      BY <2>1, ElemsNone DEF Due, Strays
    <3> QED
      BY <2>2, <2>4, <2>5, <3>1 DEF ScreenInv, Displayed
  <2>9. /\ o \in shown[p] => Near(c, p, o)
        /\ kept /\ o \in view[p] => o \in shown[p]
    BY <2>2, <2>8 DEF OnScreen
  <2> QED
    BY <2>3, <2>6, <2>7, <2>9
<1>3. \A p : Ai(c)!Sight(p) \subseteq Ai(c)!Objects
  BY DEF Ai!Sight
<1>4. \A p \in Ai(c)!InGame : view[p] \subseteq Ai(c)!Objects /\ shown[p] \subseteq Ai(c)!Objects
  BY <1>1 DEF Ai!InGame
<1>5. Ai(c)!ListIsSight
  BY <1>2, <1>3, <1>4 DEF Ai!ListIsSight
<1>6. Ai(c)!ClientShowsSight
  BY <1>2, <1>3, <1>4 DEF Ai!ClientShowsSight
<1>7. Ai(c)!MovesAreOfShown
  <2> SUFFICES ASSUME NEW w \in c.workers, Ai(c)!At(w, "move"),
                      ~ Ai(c)!GivenUp(Ai(c)!First(w)), ~ Ai(c)!GivenUp(Ai(c)!Second(w))
               PROVE  Ai(c)!Second(w) \in shown[Ai(c)!First(w)]
    BY DEF Ai!MovesAreOfShown
  <2>1. PICK q : q = Ai(c)!First(w)
    OBVIOUS
  <2>2. PICK o : o = Ai(c)!Second(w)
    OBVIOUS
  <2>3. task[w].todo # <<>>
    BY DEF Ai!At
  <2>4. /\ <<"move", q, o>> \in AiInstr(c, task[w].id) /\ o \in Ai(c)!Objects
        /\ Head(task[w].todo) = <<"move", q, o>>
    BY <2>1, <2>2, <2>3, AiHand
  <2>5. q \in Ai(c)!Players
    BY <2>4 DEF AiInstr
  <2>6. <<"move", q, o>> \in Elems(Todo(w))
    <3>1. Todo(w) \in Seq(AiInstr(c, task[w].id))
      BY DEF AiInv, HandlerSeen, Todo
    <3> QED
      BY <2>3, <2>4, <3>1, ElemsStep DEF Todo
  <2>7. "move" \in Due(Elems(Todo(w)), q, o)
    BY <2>6 DEF Due, Errands
  <2>8. <<q, o>> \in Kept(c)
    BY <2>1, <2>2, <2>4, <2>5 DEF Kept, All
  <2>9. OnScreen(c, Due(Elems(Todo(w)), q, o), <<q, o>> \in Kept(c),
                 q \in Strays(c, w) \/ o \in Strays(c, w), q, o)
    BY <2>4, <2>5 DEF ListInv, ScreenInv, Displayed
  <2>10. o \in shown[q]
    BY <2>7, <2>8, <2>9 DEF OnScreen
  <2> QED
    BY <2>1, <2>2, <2>10
<1> QED
  BY <1>5, <1>6, <1>7

ListsInv ==
    \A c \in AiServers :
        server = c =>
            /\ AiInv(c) /\ Shapes(c) /\ Enters(c) /\ Counts(c) /\ Placed(c) /\ NpcsIn(c)
            /\ Undisturbed(c) => ListInv(c)

(* login, do_move, do_npc_random_move and disconnect, one after the other: *)
(* whatever a worker has still to do about a pair puts right what the list *)
(* or the client does not show yet. So between handlers every player in    *)
(* the game lists what it sees, its client shows nothing else, and         *)
(* - between the first clients of two slots - the list names nothing else, *)
(* the client shows all of it, and is never told of the move of an object  *)
(* that it does not show; for any number of objects, any world and radius, *)
(* and any order of the handlers.                                          *)
THEOREM HandlersKeepLists == Spec => []ListsMatchSight
<1>1. Init => ListsInv
  <2> SUFFICES ASSUME Init, NEW c \in AiServers, server = c
               PROVE  /\ AiInv(c) /\ Shapes(c) /\ Enters(c) /\ Counts(c) /\ Placed(c) /\ NpcsIn(c)
                      /\ ListInv(c)
    BY DEF ListsInv
  <2>1. Ai(c)!Init
    BY LectureServersAssumption DEF Init
  <2> QED
    BY <2>1, AiInit, ShapesInit, EntersInit, PlacedInit, RepairInit, ListInit
<1>2. ListsInv /\ [Next]_vars => ListsInv'
  <2> SUFFICES ASSUME ListsInv, [Next]_vars, NEW c \in AiServers, server' = c
               PROVE  (/\ AiInv(c) /\ Shapes(c) /\ Enters(c) /\ Counts(c) /\ Placed(c) /\ NpcsIn(c)
                       /\ Undisturbed(c) => ListInv(c))'
    BY DEF ListsInv
  <2>1. server = c /\ [Ai(c)!Next]_(Ai(c)!vars)
    BY AiServerSteps
  <2>2. /\ AiInv(c) /\ Shapes(c) /\ Enters(c) /\ Counts(c) /\ Placed(c) /\ NpcsIn(c)
        /\ Undisturbed(c) => ListInv(c)
    BY <2>1 DEF ListsInv
  <2>3. AiInv(c)' /\ Shapes(c)' /\ Enters(c)' /\ Placed(c)' /\ NpcsIn(c)'
    BY <2>1, <2>2, AiSteps, ShapesSteps, EntersSteps, PlacedSteps, NpcsStay
  <2>4. Counts(c)'
    BY <2>1, <2>2, <2>3, CountsSteps
  <2>5. Undisturbed(c) => ListInv(c)'
    BY <2>1, <2>2, ListSteps
  <2>6. Undisturbed(c)' <=> Undisturbed(c)
    BY DEF Undisturbed, Cardinality
  <2> QED
    BY <2>3, <2>4, <2>5, <2>6
<1>3. ListsInv => ListsMatchSight
  BY ListShows DEF ListsInv, ListsMatchSight, Undisturbed
<1> QED
  BY <1>1, <1>2, <1>3, PTL DEF Spec
=============================================================================
