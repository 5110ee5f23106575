-------------------------- MODULE LectureSyncProofs --------------------------
(***************************************************************************)
(* Two programs of the lectures whose threads have to agree on who does    *)
(* what: the lock of sync_1.cpp, and the stress-test client.               *)
(***************************************************************************)
EXTENDS PetersonLock, StressClient, SequenceTheorems, FiniteSetTheorems, TLAPS
-----------------------------------------------------------------------------
(***************************************************************************)
(* PetersonLock. The lock excludes and loses no addition, for any number   *)
(* of iterations and any time the stores stay in their buffers.            *)
(***************************************************************************)
B0 == <<>>
BS == <<"sum">>
BSU == <<"sum", "unlock">>
BU == <<"unlock">>
BSUL == <<"sum", "unlock", "lock">>
BUL == <<"unlock", "lock">>
BL == <<"lock">>
BSULT == <<"sum", "unlock", "lock", "turn">>
BULT == <<"unlock", "lock", "turn">>
BLT == <<"lock", "turn">>
BT == <<"turn">>

Kinds == {"sum", "unlock", "lock", "turn"}

(* A store to sum is still in the buffer. *)
Pending == {BS, BSU, BSUL, BSULT}

(* All buffers that occur, and those at each place in the loop. *)
Buffers == {B0, BS, BSU, BU, BSUL, BUL, BL, BSULT, BULT, BLT, BT}
AtBegin == {B0, BU, BSU}
AtTurn == {B0, BL, BUL, BSUL}
AtFence == {B0, BT, BLT, BULT, BSULT}
AtUnlock == {B0, BS}

Spinning == {"readFlag", "readTurn"}
Critical == {"load", "store", "unlock"}

(* What the buffer can hold at each place in the loop. *)
Shape(t) ==
    /\ pc[t] = "begin" => buf[t] \in AtBegin
    /\ pc[t] = "turn" => buf[t] \in AtTurn
    /\ pc[t] = "fence" => buf[t] \in AtFence
    /\ pc[t] \in Spinning \cup {"load", "store"} => buf[t] = B0
    /\ pc[t] = "unlock" => buf[t] \in AtUnlock

(* When the flag in memory is set. *)
FlagIs(t) ==
    flags[t] <=> \/ pc[t] = "begin" /\ buf[t] # B0
                 \/ pc[t] = "turn" /\ buf[t] # BL
                 \/ pc[t] = "fence" /\ buf[t] # BLT
                 \/ pc[t] \in Spinning \cup Critical

Busy(t) == pc[t] \in Critical \/ buf[t] \in Pending

(* The thread has set its flag and then v, and both are in memory. *)
Asking(t) == pc[t] \in Spinning \/ (pc[t] = "fence" /\ buf[t] = B0)

(* Whoever asks while the other one is busy was the last to set v. *)
Exclusion ==
    /\ ~(Busy(0) /\ Busy(1))
    /\ \A t \in ThreadIds : Busy(t) /\ Asking(Other(t)) => v = Other(t)

Types ==
    /\ flags \in [ThreadIds -> BOOLEAN]
    /\ v \in ThreadIds
    /\ sum \in Nat
    /\ buf \in [ThreadIds -> Buffers]
    /\ stored \in [ThreadIds -> Nat]
    /\ pc \in [ThreadIds -> {"begin", "turn", "fence", "readFlag", "readTurn",
                           "load", "store", "unlock"}]
    /\ done \in [ThreadIds -> 0..MAX]
    /\ printed \in Nat \cup {-1}

(* The additions of a thread that are in memory. *)
Added(t) == done[t] + (IF pc[t] = "unlock" THEN 1 ELSE 0)
                    - (IF buf[t] \in Pending THEN 1 ELSE 0)

Sums ==
    /\ sum = 2 * (Added(0) + Added(1))
    /\ \A t \in ThreadIds : 
          /\ pc[t] = "store" \/ buf[t] \in Pending => stored[t] = sum + 2
          /\ pc[t] # "begin" => done[t] < MAX
    /\ printed # -1 => printed = 4 * MAX

Inv ==
    /\ Types
    /\ \A t \in ThreadIds : Shape(t) /\ FlagIs(t)
    /\ Exclusion
    /\ Sums

-----------------------------------------------------------------------------
(* The buffers that occur are sequences of stores ... *)
LEMMA BufferTypes ==
    /\ B0 \in Seq(Kinds)
    /\ BS \in Seq(Kinds)
    /\ BSU \in Seq(Kinds)
    /\ BU \in Seq(Kinds)
    /\ BSUL \in Seq(Kinds)
    /\ BUL \in Seq(Kinds)
    /\ BL \in Seq(Kinds)
    /\ BSULT \in Seq(Kinds)
    /\ BULT \in Seq(Kinds)
    /\ BLT \in Seq(Kinds)
    /\ BT \in Seq(Kinds)
<1> USE DEF Kinds
<1>1. B0 \in Seq(Kinds)
  BY DEF B0
<1>2. BS \in Seq(Kinds)
  BY DEF BS
<1>3. BSU \in Seq(Kinds)
  BY DEF BSU
<1>4. BU \in Seq(Kinds)
  BY DEF BU
<1>5. BSUL \in Seq(Kinds)
  BY DEF BSUL
<1>6. BUL \in Seq(Kinds)
  BY DEF BUL
<1>7. BL \in Seq(Kinds)
  BY DEF BL
<1>8. BSULT \in Seq(Kinds)
  BY DEF BSULT
<1>9. BULT \in Seq(Kinds)
  BY DEF BULT
<1>10. BLT \in Seq(Kinds)
  BY DEF BLT
<1>11. BT \in Seq(Kinds)
  BY DEF BT
<1> QED BY <1>1, <1>2, <1>3, <1>4, <1>5, <1>6, <1>7, <1>8, <1>9, <1>10, <1>11

LEMMA BufferElements ==
    /\ Len(B0) = 0
    /\ Len(BS) = 1 /\ BS[1] = "sum"
    /\ Len(BSU) = 2 /\ BSU[1] = "sum" /\ BSU[2] = "unlock"
    /\ Len(BU) = 1 /\ BU[1] = "unlock"
    /\ Len(BSUL) = 3 /\ BSUL[1] = "sum" /\ BSUL[2] = "unlock" /\ BSUL[3] = "lock"
    /\ Len(BUL) = 2 /\ BUL[1] = "unlock" /\ BUL[2] = "lock"
    /\ Len(BL) = 1 /\ BL[1] = "lock"
    /\ Len(BSULT) = 4 /\ BSULT[1] = "sum" /\ BSULT[2] = "unlock" /\ BSULT[3] = "lock" /\ BSULT[4] = "turn"
    /\ Len(BULT) = 3 /\ BULT[1] = "unlock" /\ BULT[2] = "lock" /\ BULT[3] = "turn"
    /\ Len(BLT) = 2 /\ BLT[1] = "lock" /\ BLT[2] = "turn"
    /\ Len(BT) = 1 /\ BT[1] = "turn"
<1> QED BY DEF B0, BS, BSU, BU, BSUL, BUL, BL, BSULT, BULT, BLT, BT

(* ... told apart by their lengths and their stores. *)
LEMMA BuffersDiffer ==
    /\ B0 # BS /\ B0 # BSU /\ B0 # BU /\ B0 # BSUL /\ B0 # BUL /\ B0 # BL /\ B0 # BSULT /\ B0 # BULT /\ B0 # BLT /\ B0 # BT
    /\ BS # BSU /\ BS # BU /\ BS # BSUL /\ BS # BUL /\ BS # BL /\ BS # BSULT /\ BS # BULT /\ BS # BLT /\ BS # BT
    /\ BSU # BU /\ BSU # BSUL /\ BSU # BUL /\ BSU # BL /\ BSU # BSULT /\ BSU # BULT /\ BSU # BLT /\ BSU # BT
    /\ BU # BSUL /\ BU # BUL /\ BU # BL /\ BU # BSULT /\ BU # BULT /\ BU # BLT /\ BU # BT
    /\ BSUL # BUL /\ BSUL # BL /\ BSUL # BSULT /\ BSUL # BULT /\ BSUL # BLT /\ BSUL # BT
    /\ BUL # BL /\ BUL # BSULT /\ BUL # BULT /\ BUL # BLT /\ BUL # BT
    /\ BL # BSULT /\ BL # BULT /\ BL # BLT /\ BL # BT
    /\ BSULT # BULT /\ BSULT # BLT /\ BSULT # BT
    /\ BULT # BLT /\ BULT # BT
    /\ BLT # BT
<1> USE BufferElements
<1>1. B0 # BS /\ B0 # BSU /\ B0 # BU /\ B0 # BSUL /\ B0 # BUL /\ B0 # BL /\ B0 # BSULT /\ B0 # BULT /\ B0 # BLT /\ B0 # BT
  OBVIOUS
<1>2. BS # BSU /\ BS # BU /\ BS # BSUL /\ BS # BUL /\ BS # BL /\ BS # BSULT /\ BS # BULT /\ BS # BLT /\ BS # BT
  BY ZenonT(60)
<1>3. BSU # BU /\ BSU # BSUL /\ BSU # BUL /\ BSU # BL /\ BSU # BSULT /\ BSU # BULT /\ BSU # BLT /\ BSU # BT
  BY SMTT(60)
<1>4. BU # BSUL /\ BU # BUL /\ BU # BL /\ BU # BSULT /\ BU # BULT /\ BU # BLT /\ BU # BT
  OBVIOUS
<1>5. BSUL # BUL /\ BSUL # BL /\ BSUL # BSULT /\ BSUL # BULT /\ BSUL # BLT /\ BSUL # BT
  BY ZenonT(60)
<1>6. BUL # BL /\ BUL # BSULT /\ BUL # BULT /\ BUL # BLT /\ BUL # BT
  BY ZenonT(60)
<1>7. BL # BSULT /\ BL # BULT /\ BL # BLT /\ BL # BT
  OBVIOUS
<1>8. BSULT # BULT /\ BSULT # BLT /\ BSULT # BT
  OBVIOUS
<1>9. BULT # BLT /\ BULT # BT
  OBVIOUS
<1>10. BLT # BT
  OBVIOUS
<1> QED BY <1>1, <1>2, <1>3, <1>4, <1>5, <1>6, <1>7, <1>8, <1>9, <1>10

LEMMA AppendIs ==
    ASSUME NEW s \in Seq(Kinds), NEW k \in Kinds, NEW r \in Seq(Kinds),
           Len(r) = Len(s) + 1, r[Len(s) + 1] = k,
           \A i \in 1..Len(s) : r[i] = s[i]
    PROVE  Append(s, k) = r
<1>1. /\ Append(s, k) \in Seq(Kinds)
      /\ Len(Append(s, k)) = Len(s) + 1
      /\ \A i \in 1..Len(s) : Append(s, k)[i] = s[i]
      /\ Append(s, k)[Len(s) + 1] = k
  BY AppendProperties
<1>2. \A i \in 1..Len(r) : Append(s, k)[i] = r[i]
  BY <1>1
<1> QED BY <1>1, <1>2, SeqEqual

LEMMA Stores ==
    /\ Append(B0, "lock") = BL
    /\ Append(BU, "lock") = BUL
    /\ Append(BSU, "lock") = BSUL
    /\ Append(B0, "turn") = BT
    /\ Append(BL, "turn") = BLT
    /\ Append(BUL, "turn") = BULT
    /\ Append(BSUL, "turn") = BSULT
    /\ Append(B0, "sum") = BS
    /\ Append(B0, "unlock") = BU
    /\ Append(BS, "unlock") = BSU
<1>1. Append(B0, "lock") = BL
  <2>1. \A i \in 1..Len(B0) : BL[i] = B0[i]
    BY BufferElements
  <2>2. Len(BL) = Len(B0) + 1 /\ BL[Len(B0) + 1] = "lock"
    BY BufferElements
  <2> QED BY <2>1, <2>2, BufferTypes, AppendIs DEF Kinds
<1>2. Append(BU, "lock") = BUL
  <2>1. \A i \in 1..Len(BU) : BUL[i] = BU[i]
    BY BufferElements
  <2>2. Len(BUL) = Len(BU) + 1 /\ BUL[Len(BU) + 1] = "lock"
    BY BufferElements
  <2> QED BY <2>1, <2>2, BufferTypes, AppendIs DEF Kinds
<1>3. Append(BSU, "lock") = BSUL
  <2>1. \A i \in 1..Len(BSU) : BSUL[i] = BSU[i]
    BY BufferElements
  <2>2. Len(BSUL) = Len(BSU) + 1 /\ BSUL[Len(BSU) + 1] = "lock"
    BY BufferElements
  <2> QED BY <2>1, <2>2, BufferTypes, AppendIs DEF Kinds
<1>4. Append(B0, "turn") = BT
  <2>1. \A i \in 1..Len(B0) : BT[i] = B0[i]
    BY BufferElements
  <2>2. Len(BT) = Len(B0) + 1 /\ BT[Len(B0) + 1] = "turn"
    BY BufferElements
  <2> QED BY <2>1, <2>2, BufferTypes, AppendIs DEF Kinds
<1>5. Append(BL, "turn") = BLT
  <2>1. \A i \in 1..Len(BL) : BLT[i] = BL[i]
    BY BufferElements
  <2>2. Len(BLT) = Len(BL) + 1 /\ BLT[Len(BL) + 1] = "turn"
    BY BufferElements
  <2> QED BY <2>1, <2>2, BufferTypes, AppendIs DEF Kinds
<1>6. Append(BUL, "turn") = BULT
  <2>1. \A i \in 1..Len(BUL) : BULT[i] = BUL[i]
    BY BufferElements
  <2>2. Len(BULT) = Len(BUL) + 1 /\ BULT[Len(BUL) + 1] = "turn"
    BY BufferElements
  <2> QED BY <2>1, <2>2, BufferTypes, AppendIs DEF Kinds
<1>7. Append(BSUL, "turn") = BSULT
  <2>1. \A i \in 1..Len(BSUL) : BSULT[i] = BSUL[i]
    BY BufferElements
  <2>2. Len(BSULT) = Len(BSUL) + 1 /\ BSULT[Len(BSUL) + 1] = "turn"
    BY BufferElements
  <2> QED BY <2>1, <2>2, BufferTypes, AppendIs DEF Kinds
<1>8. Append(B0, "sum") = BS
  <2>1. \A i \in 1..Len(B0) : BS[i] = B0[i]
    BY BufferElements
  <2>2. Len(BS) = Len(B0) + 1 /\ BS[Len(B0) + 1] = "sum"
    BY BufferElements
  <2> QED BY <2>1, <2>2, BufferTypes, AppendIs DEF Kinds
<1>9. Append(B0, "unlock") = BU
  <2>1. \A i \in 1..Len(B0) : BU[i] = B0[i]
    BY BufferElements
  <2>2. Len(BU) = Len(B0) + 1 /\ BU[Len(B0) + 1] = "unlock"
    BY BufferElements
  <2> QED BY <2>1, <2>2, BufferTypes, AppendIs DEF Kinds
<1>10. Append(BS, "unlock") = BSU
  <2>1. \A i \in 1..Len(BS) : BSU[i] = BS[i]
    BY BufferElements
  <2>2. Len(BSU) = Len(BS) + 1 /\ BSU[Len(BS) + 1] = "unlock"
    BY BufferElements
  <2> QED BY <2>1, <2>2, BufferTypes, AppendIs DEF Kinds
<1> QED BY <1>1, <1>2, <1>3, <1>4, <1>5, <1>6, <1>7, <1>8, <1>9, <1>10

LEMMA Drains ==
    /\ Head(BS) = "sum" /\ Tail(BS) = B0
    /\ Head(BSU) = "sum" /\ Tail(BSU) = BU
    /\ Head(BSUL) = "sum" /\ Tail(BSUL) = BUL
    /\ Head(BSULT) = "sum" /\ Tail(BSULT) = BULT
    /\ Head(BU) = "unlock" /\ Tail(BU) = B0
    /\ Head(BUL) = "unlock" /\ Tail(BUL) = BL
    /\ Head(BULT) = "unlock" /\ Tail(BULT) = BLT
    /\ Head(BL) = "lock" /\ Tail(BL) = B0
    /\ Head(BLT) = "lock" /\ Tail(BLT) = BT
    /\ Head(BT) = "turn" /\ Tail(BT) = B0
<1> USE BufferTypes DEF Kinds
<1>1. Head(BS) = "sum" /\ Tail(BS) = B0
  BY DEF BS, B0
<1>2. Head(BSU) = "sum" /\ Tail(BSU) = BU
  BY DEF BSU, BU
<1>3. Head(BSUL) = "sum" /\ Tail(BSUL) = BUL
  BY DEF BSUL, BUL
<1>4. Head(BSULT) = "sum" /\ Tail(BSULT) = BULT
  BY DEF BSULT, BULT
<1>5. Head(BU) = "unlock" /\ Tail(BU) = B0
  BY DEF BU, B0
<1>6. Head(BUL) = "unlock" /\ Tail(BUL) = BL
  BY DEF BUL, BL
<1>7. Head(BULT) = "unlock" /\ Tail(BULT) = BLT
  BY DEF BULT, BLT
<1>8. Head(BL) = "lock" /\ Tail(BL) = B0
  BY DEF BL, B0
<1>9. Head(BLT) = "lock" /\ Tail(BLT) = BT
  BY DEF BLT, BT
<1>10. Head(BT) = "turn" /\ Tail(BT) = B0
  BY DEF BT, B0
<1> QED BY <1>1, <1>2, <1>3, <1>4, <1>5, <1>6, <1>7, <1>8, <1>9, <1>10

(* The same, as far as the proof needs it: what a store does to a buffer   *)
(* of the place before it ...                                              *)
LEMMA BufferSets ==
    /\ AtBegin \subseteq Buffers /\ AtTurn \subseteq Buffers
    /\ AtFence \subseteq Buffers /\ AtUnlock \subseteq Buffers
    /\ B0 \in AtBegin /\ B0 \in AtTurn /\ B0 \in AtFence /\ B0 \in AtUnlock
    /\ B0 \in Buffers /\ B0 # BL /\ B0 # BLT
    /\ B0 \notin Pending /\ BL \notin Pending /\ BLT \notin Pending
<1> QED BY BuffersDiffer DEF Buffers, AtBegin, AtTurn, AtFence, AtUnlock, Pending

LEMMA LockStore ==
    ASSUME NEW b \in AtBegin
    PROVE  /\ Append(b, "lock") \in AtTurn
           /\ Append(b, "lock") = BL <=> b = B0
           /\ Append(b, "lock") \in Pending <=> b \in Pending
<1> QED BY BuffersDiffer, Stores DEF AtBegin, AtTurn, Pending

LEMMA TurnStore ==
    ASSUME NEW b \in AtTurn
    PROVE  /\ Append(b, "turn") \in AtFence
           /\ Append(b, "turn") = BLT <=> b = BL
           /\ Append(b, "turn") # B0
           /\ Append(b, "turn") \in Pending <=> b \in Pending
<1> QED BY BuffersDiffer, Stores DEF AtTurn, AtFence, Pending

LEMMA SumStore ==
    Append(B0, "sum") \in AtUnlock /\ Append(B0, "sum") \in Pending
<1> QED BY Stores DEF AtUnlock, Pending

LEMMA UnlockStore ==
    ASSUME NEW b \in AtUnlock
    PROVE  /\ Append(b, "unlock") \in AtBegin
           /\ Append(b, "unlock") # B0
           /\ Append(b, "unlock") \in Pending <=> b \in Pending
<1> QED BY BuffersDiffer, Stores DEF AtUnlock, AtBegin, Pending

(* ... and what the memory takes out of it. *)
LEMMA DrainBegin ==
    ASSUME NEW b \in AtBegin, b # B0
    PROVE  /\ Tail(b) \in AtBegin /\ Head(b) \in {"sum", "unlock"}
           /\ Head(b) = "unlock" <=> Tail(b) = B0
<1> QED BY BuffersDiffer, Drains DEF AtBegin

LEMMA DrainTurn ==
    ASSUME NEW b \in AtTurn, b # B0
    PROVE  /\ Tail(b) \in AtTurn /\ Head(b) \in {"sum", "unlock", "lock"}
           /\ Head(b) = "lock" <=> b = BL
           /\ Head(b) = "unlock" <=> Tail(b) = BL
<1> QED BY BuffersDiffer, Drains DEF AtTurn

LEMMA DrainFence ==
    ASSUME NEW b \in AtFence, b # B0
    PROVE  /\ Tail(b) \in AtFence
           /\ Head(b) \in {"sum", "unlock", "lock", "turn"}
           /\ Head(b) = "lock" <=> b = BLT
           /\ Head(b) = "unlock" <=> Tail(b) = BLT
           /\ Head(b) = "turn" <=> Tail(b) = B0
<1> QED BY BuffersDiffer, Drains DEF AtFence

LEMMA DrainUnlock ==
    ASSUME NEW b \in AtUnlock, b # B0
    PROVE  Tail(b) = B0 /\ Head(b) = "sum"
<1> QED BY BuffersDiffer, Drains DEF AtUnlock

LEMMA DrainPending ==
    ASSUME NEW b \in Buffers, b # B0
    PROVE  /\ Head(b) = "sum" <=> b \in Pending
           /\ Tail(b) \notin Pending /\ Tail(b) \in Buffers
<1> QED BY ZenonT(60), BuffersDiffer, Drains DEF Buffers, Pending

LEMMA SumMeansPending ==
    ASSUME NEW b \in Buffers, NEW i \in 1..Len(b), b[i] = "sum"
    PROVE  b \in Pending
<1> QED BY BufferElements DEF Buffers, Pending

LEMMA Two ==
    ASSUME NEW t \in ThreadIds
    PROVE  /\ Other(t) \in ThreadIds /\ Other(t) # t /\ Other(Other(t)) = t
           /\ \A u \in ThreadIds : u = t \/ u = Other(t)
<1> QED BY DEF ThreadIds, Other
(* The invariant is inductive: it holds at the start, and every step keeps *)
(* it. One step of the proof per action of a thread, and one for main.     *)
LEMMA InvInit == LockInit => Inv
<1> SUFFICES ASSUME LockInit PROVE Inv
  OBVIOUS
<1>0. \A t \in ThreadIds : buf[t] = B0
  BY DEF LockInit, B0
<1>1. Types
  BY <1>0, BufferSets, PetersonAssumption DEF LockInit, Types, ThreadIds
<1>2. \A t \in ThreadIds : Shape(t) /\ FlagIs(t)
  BY <1>0, BufferSets DEF LockInit, Shape, FlagIs, Spinning, Critical
<1>3. Exclusion
  BY <1>0, BufferSets DEF LockInit, Exclusion, Busy, Critical, ThreadIds
<1>4. Sums
  BY <1>0, BufferSets DEF LockInit, Sums, Added, ThreadIds
<1> QED BY <1>1, <1>2, <1>3, <1>4 DEF Inv

LEMMA InvNext == Inv /\ [LockNext]_lockVars => Inv'
<1> SUFFICES ASSUME Inv, [LockNext]_lockVars PROVE Inv'
  OBVIOUS
<1>1. ASSUME NEW t \in ThreadIds, StoreFlag(t) PROVE Inv'
  <2>1. Types'
    BY <1>1, BufferSets, LockStore DEF Inv, Types, Shape, Spinning, StoreFlag, memory
  <2>2. ASSUME NEW u \in ThreadIds PROVE Shape(u)' /\ FlagIs(u)'
    BY <1>1, <2>2, Two, BufferSets, LockStore
    DEF Inv, Types, Shape, FlagIs, Spinning, Critical, StoreFlag, memory
  <2>3. Exclusion'
    BY <1>1, Two, BufferSets, LockStore
    DEF Inv, Types, Shape, FlagIs, Exclusion, Busy, Asking, Spinning, Critical,
        StoreFlag, memory, ThreadIds
  <2>4. Sums'
    BY <1>1, Two, BufferSets, LockStore
    DEF Inv, Types, Shape, Sums, Added, Spinning, StoreFlag, memory, ThreadIds
  <2> QED BY <2>1, <2>2, <2>3, <2>4 DEF Inv
<1>2. ASSUME NEW t \in ThreadIds, StoreTurn(t) PROVE Inv'
  <2>1. Types'
    BY <1>2, BufferSets, TurnStore DEF Inv, Types, Shape, Spinning, StoreTurn, memory
  <2>2. ASSUME NEW u \in ThreadIds PROVE Shape(u)' /\ FlagIs(u)'
    BY <1>2, <2>2, Two, BufferSets, TurnStore
    DEF Inv, Types, Shape, FlagIs, Spinning, Critical, StoreTurn, memory
  <2>3. Exclusion'
    BY <1>2, Two, BufferSets, TurnStore
    DEF Inv, Types, Shape, FlagIs, Exclusion, Busy, Asking, Spinning, Critical,
        StoreTurn, memory, ThreadIds
  <2>4. Sums'
    BY ZenonT(60), <1>2, Two, BufferSets, TurnStore
    DEF Inv, Types, Shape, Sums, Added, Spinning, StoreTurn, memory, ThreadIds
  <2> QED BY <2>1, <2>2, <2>3, <2>4 DEF Inv
<1>3. ASSUME NEW t \in ThreadIds, Fence(t) PROVE Inv'
  <2>1. Types'
    BY <1>3, BufferSets DEF Inv, Types, Shape, Spinning, Fence, memory, B0
  <2>2. ASSUME NEW u \in ThreadIds PROVE Shape(u)' /\ FlagIs(u)'
    BY <1>3, <2>2, Two, BufferSets
    DEF Inv, Types, Shape, FlagIs, Spinning, Critical, Fence, memory, B0
  <2>3. Exclusion'
    BY <1>3, Two, BufferSets
    DEF Inv, Types, Shape, FlagIs, Exclusion, Busy, Asking, Spinning, Critical,
        Fence, memory, B0, ThreadIds
  <2>4. Sums'
    BY <1>3, Two, BufferSets
    DEF Inv, Types, Shape, Sums, Added, Spinning, Fence, memory, B0, ThreadIds
  <2> QED BY <2>1, <2>2, <2>3, <2>4 DEF Inv
<1>4. ASSUME NEW t \in ThreadIds, ReadFlag(t) PROVE Inv'
  <2>1. Types'
    BY <1>4, BufferSets DEF Inv, Types, Shape, Spinning, ReadFlag, memory
  <2>2. ASSUME NEW u \in ThreadIds PROVE Shape(u)' /\ FlagIs(u)'
    BY <1>4, <2>2, Two, BufferSets
    DEF Inv, Types, Shape, FlagIs, Spinning, Critical, ReadFlag, memory
  <2>3. Exclusion'
    BY <1>4, Two, BufferSets
    DEF Inv, Types, Shape, FlagIs, Exclusion, Busy, Asking, Spinning, Critical,
        ReadFlag, memory, ThreadIds
  <2>4. Sums'
    BY <1>4, Two, BufferSets
    DEF Inv, Types, Shape, Sums, Added, Spinning, ReadFlag, memory, ThreadIds
  <2> QED BY <2>1, <2>2, <2>3, <2>4 DEF Inv
<1>5. ASSUME NEW t \in ThreadIds, ReadTurn(t) PROVE Inv'
  <2>1. Types'
    BY <1>5, BufferSets DEF Inv, Types, Shape, Spinning, ReadTurn, memory
  <2>2. ASSUME NEW u \in ThreadIds PROVE Shape(u)' /\ FlagIs(u)'
    BY <1>5, <2>2, Two, BufferSets
    DEF Inv, Types, Shape, FlagIs, Spinning, Critical, ReadTurn, memory
  <2>3. Exclusion'
    BY <1>5, Two, BufferSets
    DEF Inv, Types, Shape, FlagIs, Exclusion, Busy, Asking, Spinning, Critical,
        ReadTurn, memory, ThreadIds
  <2>4. Sums'
    BY <1>5, Two, BufferSets
    DEF Inv, Types, Shape, Sums, Added, Spinning, ReadTurn, memory, ThreadIds
  <2> QED BY <2>1, <2>2, <2>3, <2>4 DEF Inv
<1>6. ASSUME NEW t \in ThreadIds, Load(t) PROVE Inv'
  <2>1. Types'
    BY <1>6, BufferSets DEF Inv, Types, Shape, Spinning, Load, memory
  <2>2. ASSUME NEW u \in ThreadIds PROVE Shape(u)' /\ FlagIs(u)'
    BY <1>6, <2>2, Two, BufferSets
    DEF Inv, Types, Shape, FlagIs, Spinning, Critical, Load, memory
  <2>3. Exclusion'
    BY <1>6, Two, BufferSets
    DEF Inv, Types, Shape, FlagIs, Exclusion, Busy, Asking, Spinning, Critical,
        Load, memory, ThreadIds
  <2>4. Sums'
    BY <1>6, Two, BufferSets
    DEF Inv, Types, Shape, Sums, Added, Spinning, Load, memory, ThreadIds
  <2> QED BY <2>1, <2>2, <2>3, <2>4 DEF Inv
<1>7. ASSUME NEW t \in ThreadIds, Store(t) PROVE Inv'
  <2>1. Types'
    BY <1>7, BufferSets, SumStore DEF Inv, Types, Shape, Spinning, Store, memory
  <2>2. ASSUME NEW u \in ThreadIds PROVE Shape(u)' /\ FlagIs(u)'
    BY <1>7, <2>2, Two, BufferSets, SumStore
    DEF Inv, Types, Shape, FlagIs, Spinning, Critical, Store, memory
  <2>3. Exclusion'
    BY <1>7, Two, BufferSets, SumStore
    DEF Inv, Types, Shape, FlagIs, Exclusion, Busy, Asking, Spinning, Critical,
        Store, memory, ThreadIds
  <2>4. Sums'
    <3>1. Added(t)' = Added(t) /\ sum' = sum
      BY <1>7, BufferSets, SumStore DEF Inv, Types, Shape, Sums, Added, Spinning, Store, memory
    <3>2. Added(Other(t))' = Added(Other(t))
      BY <1>7, Two DEF Inv, Types, Added, Store, memory
    <3>3. \A u \in ThreadIds : Added(u) \in Int
      BY DEF Inv, Types, Added
    <3>4. sum' = 2 * (Added(0)' + Added(1)')
      BY <3>1, <3>2, <3>3 DEF Inv, Types, Sums, ThreadIds, Other
    <3>5. ASSUME NEW u \in ThreadIds
          PROVE  /\ pc'[u] = "store" \/ buf'[u] \in Pending => stored'[u] = sum' + 2
                 /\ pc'[u] # "begin" => done'[u] < MAX
      BY <1>7, <3>5, Two, BufferSets, SumStore
      DEF Inv, Types, Shape, Exclusion, Busy, Critical, Sums, Spinning, ThreadIds, Store, memory
    <3>6. printed' = printed
      BY <1>7 DEF Store
    <3> QED BY <3>4, <3>5, <3>6 DEF Inv, Sums
  <2> QED BY <2>1, <2>2, <2>3, <2>4 DEF Inv
<1>8. ASSUME NEW t \in ThreadIds, Unlock(t) PROVE Inv'
  <2>1. Types'
    BY <1>8, BufferSets, UnlockStore, PetersonAssumption
    DEF Inv, Types, Shape, Sums, Spinning, Unlock, memory
  <2>2. ASSUME NEW u \in ThreadIds PROVE Shape(u)' /\ FlagIs(u)'
    BY <1>8, <2>2, Two, BufferSets, UnlockStore
    DEF Inv, Types, Shape, FlagIs, Spinning, Critical, Unlock, memory
  <2>3. Exclusion'
    BY <1>8, Two, BufferSets, UnlockStore
    DEF Inv, Types, Shape, FlagIs, Exclusion, Busy, Asking, Spinning, Critical,
        Unlock, memory, ThreadIds
  <2>4. Sums'
    <3>1. Added(t)' = Added(t) /\ sum' = sum
      <4>1. /\ done'[t] = done[t] + 1 /\ pc[t] = "unlock" /\ pc'[t] = "begin"
            /\ buf'[t] \in Pending <=> buf[t] \in Pending
            /\ sum' = sum
        BY <1>8, UnlockStore DEF Inv, Types, Shape, Unlock, memory
      <4> QED BY <4>1 DEF Inv, Types, Added
    <3>2. Added(Other(t))' = Added(Other(t))
      BY <1>8, Two DEF Inv, Types, Added, Unlock, memory
    <3>3. \A u \in ThreadIds : Added(u) \in Int
      BY DEF Inv, Types, Added
    <3>4. sum' = 2 * (Added(0)' + Added(1)')
      BY <3>1, <3>2, <3>3 DEF Inv, Types, Sums, ThreadIds, Other
    <3>5. ASSUME NEW u \in ThreadIds
          PROVE  /\ pc'[u] = "store" \/ buf'[u] \in Pending => stored'[u] = sum' + 2
                 /\ pc'[u] # "begin" => done'[u] < MAX
      BY <1>8, <3>5, Two, BufferSets, UnlockStore
      DEF Inv, Types, Shape, Exclusion, Busy, Critical, Sums, Spinning, ThreadIds, Unlock, memory
    <3>6. printed' = printed
      BY <1>8 DEF Unlock
    <3> QED BY <3>4, <3>5, <3>6 DEF Inv, Sums
  <2> QED BY <2>1, <2>2, <2>3, <2>4 DEF Inv
<1>9. ASSUME NEW t \in ThreadIds, Drain(t) PROVE Inv'
  <2> DEFINE b == buf[t]
             o == Other(t)
  <2>1. /\ b \in Buffers /\ b # B0
        /\ pc[t] \in {"begin", "turn", "fence", "unlock"}
    BY <1>9 DEF Inv, Types, Shape, Spinning, Drain, B0
  <2>2. /\ buf'[t] = Tail(b) /\ Tail(b) \in Buffers /\ Tail(b) \notin Pending
        /\ Head(b) = "sum" <=> b \in Pending
    BY <1>9, <2>1, DrainPending DEF Inv, Types, Drain
  <2>3. /\ o \in ThreadIds /\ o # t /\ Other(o) = t
        /\ buf'[o] = buf[o] /\ flags'[o] = flags[o]
        /\ \A u \in ThreadIds : u = t \/ u = o
    BY <1>9, Two DEF Inv, Types, Drain
  <2>4. /\ pc' = pc /\ done' = done /\ stored' = stored /\ printed' = printed
        /\ flags'[t] = IF Head(b) = "lock" THEN TRUE
                       ELSE IF Head(b) = "unlock" THEN FALSE ELSE flags[t]
        /\ v' = IF Head(b) = "turn" THEN t ELSE v
        /\ sum' = IF Head(b) = "sum" THEN stored[t] ELSE sum
    BY <1>9 DEF Drain, Inv, Types
  <2>5. Types'
    BY <1>9, <2>2 DEF Inv, Types, Drain
  <2>6. /\ pc[t] = "begin" => b \in AtBegin
        /\ pc[t] = "turn" => b \in AtTurn
        /\ pc[t] = "fence" => b \in AtFence
        /\ pc[t] = "unlock" => b \in AtUnlock
    BY DEF Inv, Shape
  <2>7. Shape(t)' /\ FlagIs(t)'
    <3>1. CASE pc[t] = "begin"
      BY <3>1, <2>1, <2>2, <2>4, <2>6, DrainBegin
      DEF Inv, Shape, FlagIs, Spinning, Critical
    <3>2. CASE pc[t] = "turn"
      BY <3>2, <2>1, <2>2, <2>4, <2>6, DrainTurn
      DEF Inv, Shape, FlagIs, Spinning, Critical
    <3>3. CASE pc[t] = "fence"
      BY <3>3, <2>1, <2>2, <2>4, <2>6, DrainFence
      DEF Inv, Shape, FlagIs, Spinning, Critical
    <3>4. CASE pc[t] = "unlock"
      BY <3>4, <2>1, <2>2, <2>4, <2>6, DrainUnlock, BufferSets
      DEF Inv, Shape, FlagIs, Spinning, Critical
    <3> QED BY <2>1, <3>1, <3>2, <3>3, <3>4
  <2>8. Shape(o)' /\ FlagIs(o)'
    BY <2>3, <2>4 DEF Inv, Shape, FlagIs
  <2>9. /\ Busy(t)' => Busy(t) /\ Head(b) # "turn"
        /\ Asking(t)' => \/ Head(b) = "turn"
                         \/ Asking(t) /\ Head(b) # "turn"
        /\ Busy(o)' <=> Busy(o)
        /\ Asking(o)' <=> Asking(o)
    BY <2>1, <2>2, <2>3, <2>4, <2>6, DrainFence, DrainUnlock
    DEF Busy, Asking, Spinning, Critical
  <2>10. Exclusion'
    <3>1. ~(Busy(t) /\ Busy(o))
      BY <2>3 DEF Inv, Exclusion, ThreadIds
    <3>2. ~(Busy(0)' /\ Busy(1)')
      BY <3>1, <2>3, <2>9 DEF ThreadIds
    <3>3. Busy(t)' /\ Asking(o)' => v' = o
      BY <2>3, <2>4, <2>9 DEF Inv, Exclusion
    <3>4. Busy(o)' /\ Asking(t)' => v' = t
      BY <2>3, <2>4, <2>9 DEF Inv, Exclusion
    <3> QED BY <2>3, <3>2, <3>3, <3>4 DEF Exclusion
  <2>11. Sums'
    <3>1. Added(o)' = Added(o)
      BY <2>3, <2>4 DEF Added
    <3>2. \A u \in ThreadIds : Added(u) \in Int
      BY DEF Inv, Types, Added
    <3>3. Added(0) + Added(1) = Added(t) + Added(o)
      BY <3>2 DEF ThreadIds, Other
    <3>4. Added(0)' + Added(1)' = Added(t)' + Added(o)'
      BY <2>5, <2>3 DEF Added, Types, ThreadIds, Other
    <3>5. CASE Head(b) = "sum"
      <4>1. b \in Pending /\ sum' = sum + 2
        BY <3>5, <2>2, <2>4 DEF Inv, Sums
      <4>2. Added(t)' = Added(t) + 1
        BY <4>1, <2>2, <2>4 DEF Added, Inv, Types
      <4>3. pc[o] # "store" /\ buf[o] \notin Pending
        BY <4>1, <2>3 DEF Inv, Exclusion, Busy, Critical, ThreadIds
      <4>4. sum' = 2 * (Added(0)' + Added(1)')
        BY <4>1, <4>2, <3>1, <3>2, <3>3, <3>4, <2>3 DEF Inv, Sums
      <4>5. ASSUME NEW u \in ThreadIds
            PROVE  /\ ~(pc'[u] = "store" \/ buf'[u] \in Pending)
                   /\ pc'[u] # "begin" => done'[u] < MAX
        BY <4>3, <2>1, <2>2, <2>3, <2>4 DEF Inv, Sums
      <4> QED BY <4>4, <4>5, <2>4 DEF Inv, Sums
    <3>6. CASE Head(b) # "sum"
      <4>1. sum' = sum /\ Added(t)' = Added(t)
        BY <3>6, <2>2, <2>4 DEF Added
      <4> QED BY <4>1, <3>1, <3>3, <3>4, <2>1, <2>2, <2>3, <2>4 DEF Inv, Types, Sums
    <3> QED BY <3>5, <3>6
  <2> QED BY <2>3, <2>5, <2>7, <2>8, <2>10, <2>11 DEF Inv
<1>10. CASE Join
  <2> QED BY <1>10 DEF Inv, Types, Shape, FlagIs, Exclusion, Busy, Asking, Sums, Added,
              Join, memory, ThreadIds
<1>11. CASE UNCHANGED lockVars
  <2> QED BY <1>11 DEF Inv, Types, Shape, FlagIs, Exclusion, Busy, Asking, Sums, Added, lockVars
<1> QED BY <1>1, <1>2, <1>3, <1>4, <1>5, <1>6, <1>7, <1>8, <1>9, <1>10, <1>11
  DEF LockNext, Lock, Body

(* Types: every variable keeps its type, so no thread runs an iteration    *)
(* too many.                                                               *)
LEMMA InvTypes == Inv => LockTypeOK
<1> SUFFICES ASSUME Inv PROVE LockTypeOK
  OBVIOUS
<1>1. Buffers \subseteq Seq({"sum", "unlock", "lock", "turn"})
  BY BufferTypes DEF Buffers, Kinds
<1> QED BY <1>1 DEF Inv, Types, LockTypeOK

(* sync_1.cpp: whatever the store buffers delay, the state keeps its types *)
(* and no thread runs more than MAX iterations.                            *)
THEOREM TypeCorrect == LockSpec => []LockTypeOK
<1> QED BY InvInit, InvNext, InvTypes, PTL DEF LockSpec

(* p_lock excludes: the threads never work on sum at the same time, stores *)
(* in flight included.                                                     *)
THEOREM LockExcludes == LockSpec => []MutualExclusion
<1>1. Inv => MutualExclusion
  <2> SUFFICES ASSUME Inv PROVE MutualExclusion
    OBVIOUS
  <2>1. ASSUME NEW t \in ThreadIds, Working(t) PROVE Busy(t)
    <3>1. CASE pc[t] \in {"load", "store", "unlock"}
      BY <3>1 DEF Busy, Critical
    <3>2. CASE \E i \in 1..Len(buf[t]) : buf[t][i] = "sum"
      BY <3>2, SumMeansPending DEF Busy, Inv, Types
    <3> QED BY <2>1, <3>1, <3>2 DEF Working
  <2> QED BY <2>1 DEF Inv, Exclusion, MutualExclusion, ThreadIds
<1> QED BY <1>1, InvInit, InvNext, PTL DEF LockSpec

(* worker: no addition is lost, main prints 4 * MAX.                       *)
THEOREM NothingLost == LockSpec => []SumIsExact
<1>1. Inv => SumIsExact
  BY DEF Inv, Sums, SumIsExact
<1> QED BY <1>1, InvInit, InvNext, PTL DEF LockSpec

(* The store buffers never hold more than one iteration's four stores.     *)
THEOREM BuffersStaySmall == LockSpec => []BufferBound
<1>1. \A b \in Buffers : Len(b) <= 4
  <2> SUFFICES ASSUME NEW b \in Buffers PROVE Len(b) <= 4
    OBVIOUS
  <2>1. Len(B0) <= 4 /\ Len(BS) <= 4 /\ Len(BSU) <= 4 /\ Len(BU) <= 4 /\ Len(BSUL) <= 4
    BY BufferElements
  <2>2. Len(BUL) <= 4 /\ Len(BL) <= 4 /\ Len(BSULT) <= 4 /\ Len(BULT) <= 4
    BY BufferElements
  <2>3. Len(BLT) <= 4 /\ Len(BT) <= 4
    BY BufferElements
  <2> QED BY <2>1, <2>2, <2>3, Zenon DEF Buffers
<1>2. Inv => BufferBound
  BY <1>1 DEF Inv, Types, BufferBound
<1> QED BY <1>2, InvInit, InvNext, PTL DEF LockSpec

-----------------------------------------------------------------------------
(***************************************************************************)
(* The stress-test client for any number of workers and clients, any       *)
(* limits, and any failures of its connects and sends.                     *)
(*                                                                         *)
(* CountIsExact speaks of the moments at which no thread is about to       *)
(* count. CountInv says what active_clients is in between: the connected   *)
(* clients, without those a worker has yet to count in, and with those a   *)
(* thread has yet to count off. It is kept as a client is never set        *)
(* connected when it is so already, for which the rest of IInv is needed:  *)
(* one receive of a client is outstanding or handled at a time (OneRecv),  *)
(* only the first login answer of a client is awaited (LoginInv), and one  *)
(* thread at most closes and counts off a client, once (CloseInv).         *)
(***************************************************************************)
(* A thread stands at one of the steps ops, with client c. *)
At(t, ops, c) == op[t] \in ops /\ cl[t] = c

(* A worker has taken a receive and comes to post the next one; a thread   *)
(* has won the exchange in DisconnectClient.                               *)
Receiving == {"up", "count", "post"}
Closing == {"close", "down"}

ThreadInv ==
    /\ \A t \in Threads : op[t] # "none" => cl[t] \in Clients
    /\ op[test] \notin Receiving
    /\ op[test] = "listen" => cl[test] = num_connections

(* Nothing has happened yet in a slot that Connect has still to give away. *)
FreeInv ==
    \A c \in Clients : c >= num_connections =>
      /\ ~recv[c] /\ ~connected[c]
      /\ \A t \in Threads : ~At(t, Receiving \cup Closing, c)

OneRecv ==
    /\ \A c \in Clients : recv[c] => \A t \in Threads : ~At(t, Receiving, c)
    /\ \A t, u \in Threads :
         t # u /\ op[t] \in Receiving /\ op[u] \in Receiving => cl[t] # cl[u]

(* The answer to the login is awaited, or has come: the client is not      *)
(* connected before the worker sets it so, and its socket is open.         *)
LoginInv ==
    /\ \A c \in Clients : server[c] = "asked" =>
         /\ ~connected[c] /\ sock[c] = "open"
         /\ \A t \in Threads : ~At(t, Receiving \cup Closing, c)
    /\ \A t \in Threads : op[t] = "up" =>
         /\ ~connected[cl[t]] /\ sock[cl[t]] = "open"
         /\ \A u \in Threads : ~At(u, Closing, cl[t])

CloseInv ==
    /\ \A c \in Clients : connected[c] =>
         sock[c] = "open" /\ \A t \in Threads : ~At(t, Closing, c)
    /\ \A t, u \in Threads :
         t # u /\ op[t] \in Closing /\ op[u] \in Closing => cl[t] # cl[u]
    /\ ClosesOpenSocket

(* Who is to be counted in, and off. *)
Connected == {c \in Clients : connected[c]}
ToCount == {t \in Threads : op[t] = "count"}
ToCountOff == {t \in Threads : op[t] \in Closing}

CountInv ==
    active_clients
      = Cardinality(Connected) - Cardinality(ToCount) + Cardinality(ToCountOff)

SlotInv == ThreadInv /\ FreeInv /\ OneRecv /\ LoginInv /\ CloseInv
IInv == TypeOK /\ SlotInv /\ CountInv

-----------------------------------------------------------------------------
(* The steps, one invariant at a time. *)

LEMMA ThreadStep == TypeOK /\ ThreadInv /\ [Next]_vars => ThreadInv'
<1> SUFFICES ASSUME TypeOK, ThreadInv, [Next]_vars PROVE ThreadInv'
  OBVIOUS
<1> USE DEF TypeOK, ThreadInv, Receiving, Threads
<1>1. ASSUME NEW t \in Threads, Swap(t) PROVE ThreadInv'
  BY <1>1 DEF Swap, Does, Returned, adjustment
<1>2. ASSUME NEW t \in Threads, Close(t) PROVE ThreadInv'
  BY <1>2 DEF Close, Does, adjustment
<1>3. ASSUME NEW t \in Threads, CountDown(t) PROVE ThreadInv'
  BY <1>3 DEF CountDown, Returned, adjustment
<1>4. ASSUME NEW w \in Workers, NEW c \in Clients, RecvEnd(w, c) PROVE ThreadInv'
  BY <1>4 DEF RecvEnd, Does, adjustment
<1>5. ASSUME NEW w \in Workers, NEW c \in Clients, RecvLoginOk(w, c) PROVE ThreadInv'
  BY <1>5, StressClientAssumption DEF RecvLoginOk, Does, adjustment
<1>6. ASSUME NEW w \in Workers, NEW c \in Clients, RecvOther(w, c) PROVE ThreadInv'
  BY <1>6, StressClientAssumption DEF RecvOther, Does, adjustment
<1>7. ASSUME NEW w \in Workers, NEW c \in Clients, SendEnd(w, c) PROVE ThreadInv'
  BY <1>7 DEF SendEnd, Does, adjustment
<1>8. ASSUME NEW w \in Workers, Up(w) PROVE ThreadInv'
  BY <1>8 DEF Up, Does, adjustment
<1>9. ASSUME NEW w \in Workers, CountUp(w) PROVE ThreadInv'
  BY <1>9 DEF CountUp, Does, adjustment
<1>10. ASSUME NEW w \in Workers, Post(w) PROVE ThreadInv'
  BY <1>10 DEF Post, Does, adjustment
<1>11. ASSUME Shed PROVE ThreadInv'
  BY <1>11 DEF Shed, MayAdjust, Does
<1>12. ASSUME Connect PROVE ThreadInv'
  <2>1. num_connections \in Clients
    BY <1>12, StressClientAssumption DEF Connect, MayAdjust, Clients
  <2> QED
    BY <1>12, <2>1 DEF Connect, MayAdjust, Does
<1>13. ASSUME Listen PROVE ThreadInv'
  BY <1>13 DEF Listen, Does
<1>14. ASSUME SendMove PROVE ThreadInv'
  BY <1>14 DEF SendMove, Does, adjustment
<1>15. ASSUME NEW c \in Clients, ChooseMove(c) PROVE ThreadInv'
  BY <1>15 DEF ChooseMove, Does, adjustment
<1>16. ASSUME NEW c \in Clients, ServerGone(c) PROVE ThreadInv'
  BY <1>16 DEF ServerGone, adjustment
<1>17. ASSUME UNCHANGED vars PROVE ThreadInv'
  BY <1>17 DEF vars, adjustment
<1> QED
  BY <1>1, <1>2, <1>3, <1>4, <1>5, <1>6, <1>7, <1>8, <1>9, <1>10, <1>11, <1>12, <1>13, <1>14, <1>15, <1>16, <1>17
     DEF Next, Work, Complete, Disconnect, Threads

LEMMA FreeStep == TypeOK /\ SlotInv /\ [Next]_vars => FreeInv'
<1> SUFFICES ASSUME TypeOK, SlotInv, [Next]_vars PROVE FreeInv'
  OBVIOUS
<1> USE DEF TypeOK, SlotInv, ThreadInv, FreeInv, At, Receiving, Closing, Threads
<1>1. ASSUME NEW t \in Threads, Swap(t) PROVE FreeInv'
  BY <1>1 DEF Swap, Does, Returned, adjustment
<1>2. ASSUME NEW t \in Threads, Close(t) PROVE FreeInv'
  BY <1>2 DEF Close, Does, adjustment
<1>3. ASSUME NEW t \in Threads, CountDown(t) PROVE FreeInv'
  BY <1>3 DEF CountDown, Returned, adjustment
<1>4. ASSUME NEW w \in Workers, NEW c \in Clients, RecvEnd(w, c) PROVE FreeInv'
  BY <1>4 DEF RecvEnd, Does, adjustment
<1>5. ASSUME NEW w \in Workers, NEW c \in Clients, RecvLoginOk(w, c) PROVE FreeInv'
  BY <1>5 DEF RecvLoginOk, Does, adjustment
<1>6. ASSUME NEW w \in Workers, NEW c \in Clients, RecvOther(w, c) PROVE FreeInv'
  BY <1>6 DEF RecvOther, Does, adjustment
<1>7. ASSUME NEW w \in Workers, NEW c \in Clients, SendEnd(w, c) PROVE FreeInv'
  BY <1>7 DEF SendEnd, Does, adjustment
<1>8. ASSUME NEW w \in Workers, Up(w) PROVE FreeInv'
  BY <1>8 DEF Up, Does, adjustment
<1>9. ASSUME NEW w \in Workers, CountUp(w) PROVE FreeInv'
  BY <1>9 DEF CountUp, Does, adjustment
<1>10. ASSUME NEW w \in Workers, Post(w) PROVE FreeInv'
  <2>1. cl[w] \in Clients /\ ~(cl[w] >= num_connections)
    BY <1>10 DEF Post
  <2>2. UNCHANGED <<connected, num_connections>> /\ \A c \in Clients : c # cl[w] => recv'[c] = recv[c]
    BY <1>10 DEF Post, adjustment
  <2>3. \A t \in Threads, c \in Clients : At(t, Receiving \cup Closing, c)' => At(t, Receiving \cup Closing, c)
    BY <1>10 DEF Post, Does
  <2> QED
    BY <2>1, <2>2, <2>3
<1>11. ASSUME Shed PROVE FreeInv'
  BY <1>11 DEF Shed, MayAdjust, Does
<1>12. ASSUME Connect PROVE FreeInv'
  BY <1>12 DEF Connect, MayAdjust, Does
<1>13. ASSUME Listen PROVE FreeInv'
  <2>1. \A c \in Clients : c >= num_connections' =>
          /\ c >= num_connections
          /\ recv'[c] => recv[c]
    BY <1>13, StressClientAssumption DEF Listen, Clients
  <2> QED
    BY <1>13, <2>1 DEF Listen, Does
<1>14. ASSUME SendMove PROVE FreeInv'
  BY <1>14 DEF SendMove, Does, adjustment
<1>15. ASSUME NEW c \in Clients, ChooseMove(c) PROVE FreeInv'
  BY <1>15 DEF ChooseMove, Does, adjustment
<1>16. ASSUME NEW c \in Clients, ServerGone(c) PROVE FreeInv'
  BY <1>16 DEF ServerGone, adjustment
<1>17. ASSUME UNCHANGED vars PROVE FreeInv'
  BY <1>17 DEF vars, adjustment
<1> QED
  BY <1>1, <1>2, <1>3, <1>4, <1>5, <1>6, <1>7, <1>8, <1>9, <1>10, <1>11, <1>12, <1>13, <1>14, <1>15, <1>16, <1>17
     DEF Next, Work, Complete, Disconnect, Threads

LEMMA OneRecvStep == TypeOK /\ SlotInv /\ [Next]_vars => OneRecv'
<1> SUFFICES ASSUME TypeOK, SlotInv, [Next]_vars PROVE OneRecv'
  OBVIOUS
<1> USE DEF TypeOK, SlotInv, ThreadInv, FreeInv, OneRecv, At, Receiving, Closing, Threads
<1>1. ASSUME NEW t \in Threads, Swap(t) PROVE OneRecv'
  BY <1>1 DEF Swap, Does, Returned, adjustment
<1>2. ASSUME NEW t \in Threads, Close(t) PROVE OneRecv'
  BY <1>2 DEF Close, Does, adjustment
<1>3. ASSUME NEW t \in Threads, CountDown(t) PROVE OneRecv'
  BY <1>3 DEF CountDown, Returned, adjustment
<1>4. ASSUME NEW w \in Workers, NEW c \in Clients, RecvEnd(w, c) PROVE OneRecv'
  BY <1>4 DEF RecvEnd, Does, adjustment
<1>5. ASSUME NEW w \in Workers, NEW c \in Clients, RecvLoginOk(w, c) PROVE OneRecv'
  BY <1>5 DEF RecvLoginOk, Does, adjustment
<1>6. ASSUME NEW w \in Workers, NEW c \in Clients, RecvOther(w, c) PROVE OneRecv'
  BY <1>6 DEF RecvOther, Does, adjustment
<1>7. ASSUME NEW w \in Workers, NEW c \in Clients, SendEnd(w, c) PROVE OneRecv'
  BY <1>7 DEF SendEnd, Does, adjustment
<1>8. ASSUME NEW w \in Workers, Up(w) PROVE OneRecv'
  BY <1>8 DEF Up, Does, adjustment
<1>9. ASSUME NEW w \in Workers, CountUp(w) PROVE OneRecv'
  BY <1>9 DEF CountUp, Does, adjustment
<1>10. ASSUME NEW w \in Workers, Post(w) PROVE OneRecv'
  BY <1>10 DEF Post, Does, adjustment
<1>11. ASSUME Shed PROVE OneRecv'
  BY <1>11 DEF Shed, MayAdjust, Does
<1>12. ASSUME Connect PROVE OneRecv'
  BY <1>12 DEF Connect, MayAdjust, Does
<1>13. ASSUME Listen PROVE OneRecv'
  BY <1>13 DEF Listen, Does
<1>14. ASSUME SendMove PROVE OneRecv'
  BY <1>14 DEF SendMove, Does, adjustment
<1>15. ASSUME NEW c \in Clients, ChooseMove(c) PROVE OneRecv'
  BY <1>15 DEF ChooseMove, Does, adjustment
<1>16. ASSUME NEW c \in Clients, ServerGone(c) PROVE OneRecv'
  BY <1>16 DEF ServerGone, adjustment
<1>17. ASSUME UNCHANGED vars PROVE OneRecv'
  BY <1>17 DEF vars, adjustment
<1> QED
  BY <1>1, <1>2, <1>3, <1>4, <1>5, <1>6, <1>7, <1>8, <1>9, <1>10, <1>11, <1>12, <1>13, <1>14, <1>15, <1>16, <1>17
     DEF Next, Work, Complete, Disconnect, Threads

LEMMA LoginStep == TypeOK /\ SlotInv /\ [Next]_vars => LoginInv'
<1> SUFFICES ASSUME TypeOK, SlotInv, [Next]_vars PROVE LoginInv'
  OBVIOUS
<1> USE DEF TypeOK, SlotInv, ThreadInv, FreeInv, OneRecv, LoginInv, CloseInv, At, Receiving, Closing, Threads
<1>1. ASSUME NEW t \in Threads, Swap(t) PROVE LoginInv'
  BY <1>1 DEF Swap, Does, Returned, adjustment
<1>2. ASSUME NEW t \in Threads, Close(t) PROVE LoginInv'
  BY <1>2 DEF Close, Does, adjustment
<1>3. ASSUME NEW t \in Threads, CountDown(t) PROVE LoginInv'
  BY <1>3 DEF CountDown, Returned, adjustment
<1>4. ASSUME NEW w \in Workers, NEW c \in Clients, RecvEnd(w, c) PROVE LoginInv'
  BY <1>4 DEF RecvEnd, Does, adjustment
<1>5. ASSUME NEW w \in Workers, NEW c \in Clients, RecvLoginOk(w, c) PROVE LoginInv'
  BY <1>5 DEF RecvLoginOk, Does, adjustment
<1>6. ASSUME NEW w \in Workers, NEW c \in Clients, RecvOther(w, c) PROVE LoginInv'
  BY <1>6 DEF RecvOther, Does, adjustment
<1>7. ASSUME NEW w \in Workers, NEW c \in Clients, SendEnd(w, c) PROVE LoginInv'
  BY <1>7 DEF SendEnd, Does, adjustment
<1>8. ASSUME NEW w \in Workers, Up(w) PROVE LoginInv'
  BY <1>8 DEF Up, Does, adjustment
<1>9. ASSUME NEW w \in Workers, CountUp(w) PROVE LoginInv'
  BY <1>9 DEF CountUp, Does, adjustment
<1>10. ASSUME NEW w \in Workers, Post(w) PROVE LoginInv'
  BY <1>10 DEF Post, Does, adjustment
<1>11. ASSUME Shed PROVE LoginInv'
  BY <1>11 DEF Shed, MayAdjust, Does
<1>12. ASSUME Connect PROVE LoginInv'
  BY <1>12 DEF Connect, MayAdjust, Does
<1>13. ASSUME Listen PROVE LoginInv'
  BY <1>13 DEF Listen, Does
<1>14. ASSUME SendMove PROVE LoginInv'
  BY <1>14 DEF SendMove, Does, adjustment
<1>15. ASSUME NEW c \in Clients, ChooseMove(c) PROVE LoginInv'
  BY <1>15 DEF ChooseMove, Does, adjustment
<1>16. ASSUME NEW c \in Clients, ServerGone(c) PROVE LoginInv'
  BY <1>16 DEF ServerGone, adjustment
<1>17. ASSUME UNCHANGED vars PROVE LoginInv'
  BY <1>17 DEF vars, adjustment
<1> QED
  BY <1>1, <1>2, <1>3, <1>4, <1>5, <1>6, <1>7, <1>8, <1>9, <1>10, <1>11, <1>12, <1>13, <1>14, <1>15, <1>16, <1>17
     DEF Next, Work, Complete, Disconnect, Threads

LEMMA CloseStep == TypeOK /\ SlotInv /\ [Next]_vars => CloseInv'
<1> SUFFICES ASSUME TypeOK, SlotInv, [Next]_vars PROVE CloseInv'
  OBVIOUS
<1> USE DEF TypeOK, SlotInv, ThreadInv, FreeInv, LoginInv, CloseInv, ClosesOpenSocket, At, Receiving, Closing, Threads
<1>1. ASSUME NEW t \in Threads, Swap(t) PROVE CloseInv'
  BY <1>1 DEF Swap, Does, Returned, adjustment
<1>2. ASSUME NEW t \in Threads, Close(t) PROVE CloseInv'
  BY <1>2 DEF Close, Does, adjustment
<1>3. ASSUME NEW t \in Threads, CountDown(t) PROVE CloseInv'
  BY <1>3 DEF CountDown, Returned, adjustment
<1>4. ASSUME NEW w \in Workers, NEW c \in Clients, RecvEnd(w, c) PROVE CloseInv'
  BY <1>4 DEF RecvEnd, Does, adjustment
<1>5. ASSUME NEW w \in Workers, NEW c \in Clients, RecvLoginOk(w, c) PROVE CloseInv'
  BY <1>5 DEF RecvLoginOk, Does, adjustment
<1>6. ASSUME NEW w \in Workers, NEW c \in Clients, RecvOther(w, c) PROVE CloseInv'
  BY <1>6 DEF RecvOther, Does, adjustment
<1>7. ASSUME NEW w \in Workers, NEW c \in Clients, SendEnd(w, c) PROVE CloseInv'
  BY <1>7 DEF SendEnd, Does, adjustment
<1>8. ASSUME NEW w \in Workers, Up(w) PROVE CloseInv'
  BY <1>8 DEF Up, Does, adjustment
<1>9. ASSUME NEW w \in Workers, CountUp(w) PROVE CloseInv'
  BY <1>9 DEF CountUp, Does, adjustment
<1>10. ASSUME NEW w \in Workers, Post(w) PROVE CloseInv'
  BY <1>10 DEF Post, Does, adjustment
<1>11. ASSUME Shed PROVE CloseInv'
  BY <1>11 DEF Shed, MayAdjust, Does
<1>12. ASSUME Connect PROVE CloseInv'
  BY <1>12 DEF Connect, MayAdjust, Does
<1>13. ASSUME Listen PROVE CloseInv'
  BY <1>13 DEF Listen, Does
<1>14. ASSUME SendMove PROVE CloseInv'
  BY <1>14 DEF SendMove, Does, adjustment
<1>15. ASSUME NEW c \in Clients, ChooseMove(c) PROVE CloseInv'
  BY <1>15 DEF ChooseMove, Does, adjustment
<1>16. ASSUME NEW c \in Clients, ServerGone(c) PROVE CloseInv'
  BY <1>16 DEF ServerGone, adjustment
<1>17. ASSUME UNCHANGED vars PROVE CloseInv'
  BY <1>17 DEF vars, adjustment
<1> QED
  BY <1>1, <1>2, <1>3, <1>4, <1>5, <1>6, <1>7, <1>8, <1>9, <1>10, <1>11, <1>12, <1>13, <1>14, <1>15, <1>16, <1>17
     DEF Next, Work, Complete, Disconnect, Threads

-----------------------------------------------------------------------------
(* The counting. *)

LEMMA Counts ==
    /\ IsFiniteSet(Clients) /\ Cardinality(Clients) = MAX_CLIENTS
    /\ IsFiniteSet(Connected) /\ Cardinality(Connected) \in Nat
    /\ IsFiniteSet(ToCount) /\ Cardinality(ToCount) \in Nat
    /\ IsFiniteSet(ToCountOff) /\ Cardinality(ToCountOff) \in Nat
<1>1. IsFiniteSet(Clients) /\ Cardinality(Clients) = MAX_CLIENTS
  <2>1. MAX_CLIENTS \in Nat
    BY StressClientAssumption
  <2>2. IsFiniteSet(Clients) /\ Cardinality(Clients)
          = IF 0 > MAX_CLIENTS - 1 THEN 0 ELSE (MAX_CLIENTS - 1) - 0 + 1
    BY <2>1, FS_Interval DEF Clients
  <2> QED
    BY <2>1, <2>2
<1>2. IsFiniteSet(Threads)
  BY StressClientAssumption, FS_AddElement DEF Threads
<1>3. Connected \subseteq Clients /\ ToCount \subseteq Threads /\ ToCountOff \subseteq Threads
  BY DEF Connected, ToCount, ToCountOff
<1>4. IsFiniteSet(Connected) /\ IsFiniteSet(ToCount) /\ IsFiniteSet(ToCountOff)
  BY <1>1, <1>2, <1>3, FS_Subset
<1> QED
  BY <1>1, <1>4, FS_CardinalityType

(* A step that changes none of the three sets. *)
LEMMA CountsKept ==
    ASSUME CountInv, Connected' = Connected, ToCount' = ToCount,
           ToCountOff' = ToCountOff, active_clients' = active_clients
    PROVE  CountInv'
  BY DEF CountInv

LEMMA CountStep == TypeOK /\ SlotInv /\ CountInv /\ [Next]_vars => CountInv'
<1> SUFFICES ASSUME TypeOK, SlotInv, CountInv, [Next]_vars PROVE CountInv'
  OBVIOUS
<1> USE DEF TypeOK, SlotInv, ThreadInv, LoginInv, Closing, Threads
<1>1. ASSUME NEW t \in Threads, Swap(t) PROVE CountInv'
  <2>1. CASE connected[cl[t]]
    <3>1. cl[t] \in Clients
      BY <1>1 DEF Swap
    <3>2. /\ cl[t] \in Connected /\ Connected' = Connected \ {cl[t]}
          /\ t \notin ToCountOff /\ ToCountOff' = ToCountOff \cup {t}
          /\ ToCount' = ToCount /\ active_clients' = active_clients
      BY <1>1, <2>1, <3>1 DEF Connected, ToCount, ToCountOff, Swap, Does
    <3>3. /\ Cardinality(Connected') = Cardinality(Connected) - 1
          /\ Cardinality(ToCountOff') = Cardinality(ToCountOff) + 1
      BY ZenonT(60), <3>2, Counts, FS_AddElement, FS_RemoveElement
    <3> QED
      BY <3>2, <3>3, Counts DEF CountInv
  <2>2. CASE ~connected[cl[t]]
    <3>1. cl[t] \in Clients
      BY <1>1 DEF Swap
    <3>2. Connected' = Connected /\ ToCount' = ToCount /\ ToCountOff' = ToCountOff
      BY <1>1, <2>2, <3>1 DEF Connected, ToCount, ToCountOff, Swap, Returned
    <3>3. active_clients' = active_clients
      BY <1>1 DEF Swap
    <3> QED
      BY <3>2, <3>3, CountsKept
  <2> QED
    BY <2>1, <2>2
<1>2. ASSUME NEW t \in Threads, Close(t) PROVE CountInv'
  <2>1. Connected' = Connected /\ ToCount' = ToCount /\ ToCountOff' = ToCountOff
    BY <1>2 DEF Connected, ToCount, ToCountOff, Close, Does, adjustment
  <2>2. active_clients' = active_clients
    BY <1>2 DEF Close, Does, adjustment
  <2> QED
    BY <2>1, <2>2, CountsKept
<1>3. ASSUME NEW t \in Threads, CountDown(t) PROVE CountInv'
  <2>1. /\ t \in ToCountOff /\ ToCountOff' = ToCountOff \ {t}
        /\ Connected' = Connected /\ ToCount' = ToCount
        /\ active_clients' = active_clients - 1
    BY <1>3 DEF Connected, ToCount, ToCountOff, CountDown, Returned, adjustment
  <2>2. Cardinality(ToCountOff') = Cardinality(ToCountOff) - 1
    BY <2>1, Counts, FS_RemoveElement
  <2> QED
    BY <2>1, <2>2, Counts DEF CountInv
<1>4. ASSUME NEW w \in Workers, NEW c \in Clients, RecvEnd(w, c) PROVE CountInv'
  <2>1. Connected' = Connected /\ ToCount' = ToCount /\ ToCountOff' = ToCountOff
    BY <1>4 DEF Connected, ToCount, ToCountOff, RecvEnd, Does, adjustment
  <2>2. active_clients' = active_clients
    BY <1>4 DEF RecvEnd, Does, adjustment
  <2> QED
    BY <2>1, <2>2, CountsKept
<1>5. ASSUME NEW w \in Workers, NEW c \in Clients, RecvLoginOk(w, c) PROVE CountInv'
  <2>1. Connected' = Connected /\ ToCount' = ToCount /\ ToCountOff' = ToCountOff
    BY <1>5 DEF Connected, ToCount, ToCountOff, RecvLoginOk, Does, adjustment
  <2>2. active_clients' = active_clients
    BY <1>5 DEF RecvLoginOk, Does, adjustment
  <2> QED
    BY <2>1, <2>2, CountsKept
<1>6. ASSUME NEW w \in Workers, NEW c \in Clients, RecvOther(w, c) PROVE CountInv'
  <2>1. Connected' = Connected /\ ToCount' = ToCount /\ ToCountOff' = ToCountOff
    BY <1>6 DEF Connected, ToCount, ToCountOff, RecvOther, Does, adjustment
  <2>2. active_clients' = active_clients
    BY <1>6 DEF RecvOther, Does, adjustment
  <2> QED
    BY <2>1, <2>2, CountsKept
<1>7. ASSUME NEW w \in Workers, NEW c \in Clients, SendEnd(w, c) PROVE CountInv'
  <2>1. Connected' = Connected /\ ToCount' = ToCount /\ ToCountOff' = ToCountOff
    BY <1>7 DEF Connected, ToCount, ToCountOff, SendEnd, Does, adjustment
  <2>2. active_clients' = active_clients
    BY <1>7 DEF SendEnd, Does, adjustment
  <2> QED
    BY <2>1, <2>2, CountsKept
<1>8. ASSUME NEW w \in Workers, Up(w) PROVE CountInv'
  <2>1. cl[w] \in Clients /\ ~connected[cl[w]]
    BY <1>8 DEF Up
  <2>2. /\ cl[w] \notin Connected /\ Connected' = Connected \cup {cl[w]}
        /\ w \notin ToCount /\ ToCount' = ToCount \cup {w}
        /\ ToCountOff' = ToCountOff /\ active_clients' = active_clients
    BY <1>8, <2>1 DEF Connected, ToCount, ToCountOff, Up, Does, adjustment
  <2>3. /\ Cardinality(Connected') = Cardinality(Connected) + 1
        /\ Cardinality(ToCount') = Cardinality(ToCount) + 1
    BY <2>2, Counts, FS_AddElement
  <2> QED
    BY <2>2, <2>3, Counts DEF CountInv
<1>9. ASSUME NEW w \in Workers, CountUp(w) PROVE CountInv'
  <2>1. /\ w \in ToCount /\ ToCount' = ToCount \ {w}
        /\ Connected' = Connected /\ ToCountOff' = ToCountOff
        /\ active_clients' = active_clients + 1
    BY <1>9 DEF Connected, ToCount, ToCountOff, CountUp, Does, adjustment
  <2>2. Cardinality(ToCount') = Cardinality(ToCount) - 1
    BY <2>1, Counts, FS_RemoveElement
  <2> QED
    BY <2>1, <2>2, Counts DEF CountInv
<1>10. ASSUME NEW w \in Workers, Post(w) PROVE CountInv'
  <2>1. Connected' = Connected /\ ToCount' = ToCount /\ ToCountOff' = ToCountOff
    BY <1>10 DEF Connected, ToCount, ToCountOff, Post, Does, adjustment
  <2>2. active_clients' = active_clients
    BY <1>10 DEF Post, Does, adjustment
  <2> QED
    BY <2>1, <2>2, CountsKept
<1>11. ASSUME Shed PROVE CountInv'
  <2>1. Connected' = Connected /\ ToCount' = ToCount /\ ToCountOff' = ToCountOff
    BY <1>11 DEF Connected, ToCount, ToCountOff, Shed, MayAdjust, Does
  <2>2. active_clients' = active_clients
    BY <1>11 DEF Shed, MayAdjust, Does
  <2> QED
    BY <2>1, <2>2, CountsKept
<1>12. ASSUME Connect PROVE CountInv'
  <2>1. Connected' = Connected /\ ToCount' = ToCount /\ ToCountOff' = ToCountOff
    BY <1>12 DEF Connected, ToCount, ToCountOff, Connect, MayAdjust, Does
  <2>2. active_clients' = active_clients
    BY <1>12 DEF Connect, MayAdjust, Does
  <2> QED
    BY <2>1, <2>2, CountsKept
<1>13. ASSUME Listen PROVE CountInv'
  <2>1. Connected' = Connected /\ ToCount' = ToCount /\ ToCountOff' = ToCountOff
    BY <1>13 DEF Connected, ToCount, ToCountOff, Listen, Does
  <2>2. active_clients' = active_clients
    BY <1>13 DEF Listen, Does
  <2> QED
    BY <2>1, <2>2, CountsKept
<1>14. ASSUME SendMove PROVE CountInv'
  <2>1. Connected' = Connected /\ ToCount' = ToCount /\ ToCountOff' = ToCountOff
    BY <1>14 DEF Connected, ToCount, ToCountOff, SendMove, Does, adjustment
  <2>2. active_clients' = active_clients
    BY <1>14 DEF SendMove, Does, adjustment
  <2> QED
    BY <2>1, <2>2, CountsKept
<1>15. ASSUME NEW c \in Clients, ChooseMove(c) PROVE CountInv'
  <2>1. Connected' = Connected /\ ToCount' = ToCount /\ ToCountOff' = ToCountOff
    BY <1>15 DEF Connected, ToCount, ToCountOff, ChooseMove, Does, adjustment
  <2>2. active_clients' = active_clients
    BY <1>15 DEF ChooseMove, Does, adjustment
  <2> QED
    BY <2>1, <2>2, CountsKept
<1>16. ASSUME NEW c \in Clients, ServerGone(c) PROVE CountInv'
  <2>1. Connected' = Connected /\ ToCount' = ToCount /\ ToCountOff' = ToCountOff
    BY <1>16 DEF Connected, ToCount, ToCountOff, ServerGone, adjustment
  <2>2. active_clients' = active_clients
    BY <1>16 DEF ServerGone, adjustment
  <2> QED
    BY <2>1, <2>2, CountsKept
<1>17. ASSUME UNCHANGED vars PROVE CountInv'
  <2>1. Connected' = Connected /\ ToCount' = ToCount /\ ToCountOff' = ToCountOff
    BY <1>17 DEF Connected, ToCount, ToCountOff, vars, adjustment
  <2>2. active_clients' = active_clients
    BY <1>17 DEF vars, adjustment
  <2> QED
    BY <2>1, <2>2, CountsKept
<1> QED
  BY <1>1, <1>2, <1>3, <1>4, <1>5, <1>6, <1>7, <1>8, <1>9, <1>10, <1>11, <1>12, <1>13, <1>14, <1>15, <1>16, <1>17
     DEF Next, Work, Complete, Disconnect, Threads

Ops == {"none", "swap", "close", "down", "up", "count", "post", "listen", "send"}

(* TypeOK, the range of active_clients apart. *)
TypeRest ==
    /\ connected \in [Clients -> BOOLEAN]
    /\ sock \in [Clients -> {"none", "open", "closed"}]
    /\ recv \in [Clients -> BOOLEAN]
    /\ sends \in [Clients -> 0..MaxSends]
    /\ server \in [Clients -> {"none", "asked", "in", "gone"}]
    /\ active_clients \in Int
    /\ num_connections \in 0..MAX_CLIENTS
    /\ client_to_close \in 0..MAX_CLIENTS
    /\ max_limit \in Int /\ increasing \in BOOLEAN
    /\ op \in [Threads -> Ops]
    /\ cl \in [Threads -> Clients \cup {0}]
    /\ again \in [Threads -> BOOLEAN]
    /\ failures \in 0..MaxFailures

LEMMA TypeRestStep == TypeRest /\ ThreadInv /\ [Next]_vars => TypeRest'
<1> SUFFICES ASSUME TypeRest, ThreadInv, [Next]_vars PROVE TypeRest'
  OBVIOUS
<1> USE DEF TypeRest, ThreadInv, Ops, Threads
<1>a. /\ MAX_CLIENTS \in Nat /\ MaxSends \in Nat /\ MaxFailures \in Nat
  BY StressClientAssumption
<1>1. ASSUME NEW t \in Threads, Swap(t) PROVE TypeRest'
  BY ZenonT(60), <1>1 DEF Swap, Does, Returned, adjustment
<1>2. ASSUME NEW t \in Threads, Close(t) PROVE TypeRest'
  BY <1>2 DEF Close, Does, adjustment
<1>3. ASSUME NEW t \in Threads, CountDown(t) PROVE TypeRest'
  BY <1>3 DEF CountDown, Returned, adjustment
<1>4. ASSUME NEW w \in Workers, NEW c \in Clients, RecvEnd(w, c) PROVE TypeRest'
  BY <1>4 DEF RecvEnd, Does, adjustment
<1>5. ASSUME NEW w \in Workers, NEW c \in Clients, RecvLoginOk(w, c) PROVE TypeRest'
  BY <1>5 DEF RecvLoginOk, Does, adjustment
<1>6. ASSUME NEW w \in Workers, NEW c \in Clients, RecvOther(w, c) PROVE TypeRest'
  BY <1>6 DEF RecvOther, Does, adjustment
<1>7. ASSUME NEW w \in Workers, NEW c \in Clients, SendEnd(w, c) PROVE TypeRest'
  BY <1>7, <1>a DEF SendEnd, Does, adjustment
<1>8. ASSUME NEW w \in Workers, Up(w) PROVE TypeRest'
  BY <1>8 DEF Up, Does, adjustment
<1>9. ASSUME NEW w \in Workers, CountUp(w) PROVE TypeRest'
  BY <1>9 DEF CountUp, Does, adjustment
<1>10. ASSUME NEW w \in Workers, Post(w) PROVE TypeRest'
  BY ZenonT(60), <1>10 DEF Post, Does, adjustment
<1>11. ASSUME Shed PROVE TypeRest'
  <2>1. op' \in [Threads -> Ops] /\ cl' \in [Threads -> Clients \cup {0}]
    BY <1>11 DEF Shed, Does
  <2>2. client_to_close' \in 0..MAX_CLIENTS
    BY <1>11, <1>a DEF Shed, Clients
  <2>3. max_limit' \in Int /\ increasing' \in BOOLEAN
    BY <1>11 DEF Shed
  <2> QED
    BY <1>11, <2>1, <2>2, <2>3 DEF Shed
<1>12. ASSUME Connect PROVE TypeRest'
  <2>1. num_connections \in Clients
    BY <1>12, <1>a DEF Connect, MayAdjust, Clients
  <2>2. op' \in [Threads -> Ops] /\ cl' \in [Threads -> Clients \cup {0}]
    BY <1>12, <2>1 DEF Connect, Does
  <2>3. sends' \in [Clients -> 0..MaxSends]
    BY <1>12, <1>a, <2>1 DEF Connect
  <2>4. failures' \in 0..MaxFailures
    BY <1>12, <1>a DEF Connect
  <2>5. server' \in [Clients -> {"none", "asked", "in", "gone"}]
    BY <1>12, <2>1 DEF Connect
  <2> QED
    BY <1>12, <2>1, <2>2, <2>3, <2>4, <2>5 DEF Connect
<1>13. ASSUME Listen PROVE TypeRest'
  <2>1. cl[test] \in Clients /\ cl[test] = num_connections
    BY <1>13 DEF Listen
  <2>2. num_connections' \in 0..MAX_CLIENTS
    BY <1>13, <1>a, <2>1 DEF Listen, Clients
  <2>3. failures' \in 0..MaxFailures
    BY <1>13, <1>a DEF Listen
  <2>4. op' \in [Threads -> Ops] /\ cl' \in [Threads -> Clients \cup {0}]
    BY <1>13, <2>1 DEF Listen, Does
  <2> QED
    BY <1>13, <2>1, <2>2, <2>3, <2>4 DEF Listen
<1>14. ASSUME SendMove PROVE TypeRest'
  BY <1>14, <1>a DEF SendMove, Does, adjustment
<1>15. ASSUME NEW c \in Clients, ChooseMove(c) PROVE TypeRest'
  BY <1>15 DEF ChooseMove, Does, adjustment
<1>16. ASSUME NEW c \in Clients, ServerGone(c) PROVE TypeRest'
  BY <1>16 DEF ServerGone, adjustment
<1>17. ASSUME UNCHANGED vars PROVE TypeRest'
  BY <1>17 DEF vars, adjustment
<1> QED
  BY <1>1, <1>2, <1>3, <1>4, <1>5, <1>6, <1>7, <1>8, <1>9, <1>10, <1>11, <1>12, <1>13, <1>14, <1>15, <1>16, <1>17
     DEF Next, Work, Complete, Disconnect, Threads

(* At most one thread counts a client off, and none a connected one; only  *)
(* workers count in.                                                       *)
LEMMA Bounds ==
    TypeRest /\ SlotInv /\ CountInv
      => active_clients \in (-Cardinality(Workers))..MAX_CLIENTS
<1> SUFFICES ASSUME TypeRest, SlotInv, CountInv
             PROVE  active_clients \in (-Cardinality(Workers))..MAX_CLIENTS
  OBVIOUS
<1> USE DEF SlotInv
<1>1. Cardinality(ToCount) <= Cardinality(Workers) /\ Cardinality(Workers) \in Nat
  <2>1. ToCount \subseteq Workers
    BY DEF ToCount, ThreadInv, Receiving, Threads
  <2>2. IsFiniteSet(Workers)
    BY StressClientAssumption
  <2> QED
    BY <2>1, <2>2, FS_Subset, FS_CardinalityType
<1>2. Cardinality(ToCountOff) <= MAX_CLIENTS - Cardinality(Connected)
  <2> DEFINE f == [t \in ToCountOff |-> cl[t]]
             Others == Clients \ Connected
  <2>1. f \in [ToCountOff -> Others]
    BY DEF ToCountOff, Closing, ThreadInv, CloseInv, At, Connected
  <2>2. \A t, u \in ToCountOff : t # u => f[t] # f[u]
    BY DEF ToCountOff, CloseInv
  <2> HIDE DEF f, Others
  <2>3. f \in Injection(ToCountOff, Others)
    BY <2>1, <2>2 DEF Injection, IsInjective
  <2>4. /\ IsFiniteSet(Others)
        /\ Cardinality(Others) = Cardinality(Clients) - Cardinality(Clients \cap Connected)
    BY Counts, FS_Difference DEF Others
  <2>5. Clients \cap Connected = Connected
    BY DEF Connected
  <2>6. Cardinality(ToCountOff) <= Cardinality(Others)
    BY <2>3, <2>4, FS_Injection
  <2> QED
    BY <2>4, <2>5, <2>6, Counts
<1>3. MAX_CLIENTS \in Nat
  BY StressClientAssumption
<1> QED
  BY <1>1, <1>2, <1>3, Counts DEF CountInv

LEMMA TypeSplit == TypeOK <=> TypeRest /\ active_clients \in (-Cardinality(Workers))..MAX_CLIENTS
<1>1. Cardinality(Workers) \in Nat /\ MAX_CLIENTS \in Nat
  BY StressClientAssumption, FS_CardinalityType
<1>2. \A n \in (-Cardinality(Workers))..MAX_CLIENTS : n \in Int
  BY <1>1
<1> QED
  BY <1>2 DEF TypeOK, TypeRest, Ops

-----------------------------------------------------------------------------
LEMMA InitIInv == Init => IInv
<1> SUFFICES ASSUME Init PROVE IInv
  OBVIOUS
<1>1. SlotInv
  BY DEF Init, SlotInv, ThreadInv, FreeInv, OneRecv, LoginInv, CloseInv,
         ClosesOpenSocket, At, Receiving, Closing, Threads
<1>2. CountInv
  <2>1. Connected = {} /\ ToCount = {} /\ ToCountOff = {} /\ active_clients = 0
    BY DEF Init, Connected, ToCount, ToCountOff, Closing
  <2> QED
    BY <2>1, FS_EmptySet DEF CountInv
<1>3. TypeRest
  <2>1. MAX_CLIENTS \in Nat /\ MaxSends \in Nat /\ MaxFailures \in Nat
    BY StressClientAssumption
  <2> QED
    BY <2>1 DEF Init, TypeRest, Ops, MAXINT
<1> QED
  BY <1>1, <1>2, <1>3, Bounds, TypeSplit DEF IInv

LEMMA StepIInv == IInv /\ [Next]_vars => IInv'
<1> SUFFICES ASSUME IInv, [Next]_vars PROVE IInv'
  OBVIOUS
<1>1. TypeOK /\ TypeRest /\ SlotInv /\ ThreadInv /\ CountInv
  BY TypeSplit DEF IInv, SlotInv
<1>2. SlotInv'
  BY <1>1, ThreadStep, FreeStep, OneRecvStep, LoginStep, CloseStep DEF SlotInv
<1>3. CountInv' /\ TypeRest'
  BY <1>1, CountStep, TypeRestStep
<1>4. (active_clients \in (-Cardinality(Workers))..MAX_CLIENTS)'
  BY <1>2, <1>3, Bounds, PTL
<1>5. TypeOK'
  BY <1>3, <1>4, TypeSplit, PTL
<1> QED
  BY <1>2, <1>3, <1>5 DEF IInv

(* However many threads call DisconnectClient for a client, it is closed   *)
(* and counted off once, and active_clients is the number of connected     *)
(* clients whenever no thread is in the middle of counting.                *)
THEOREM ClosedAndCountedOnce == Spec => []DisconnectedOnce
<1>1. IInv => DisconnectedOnce
  <2> SUFFICES ASSUME IInv PROVE CountIsExact
    BY DEF IInv, SlotInv, CloseInv, DisconnectedOnce
  <2> SUFFICES ASSUME \A t \in Threads : op[t] \notin {"count", "close", "down"}
               PROVE  active_clients = Cardinality(Connected)
    BY DEF CountIsExact, Connected
  <2>1. ToCount = {} /\ ToCountOff = {}
    BY DEF ToCount, ToCountOff, Closing
  <2> QED
    BY <2>1, Counts, FS_EmptySet DEF IInv, CountInv
<1> QED
  BY <1>1, InitIInv, StepIInv, PTL DEF Spec
=============================================================================
