--------------------------- MODULE FinalServerProofs ---------------------------
(***************************************************************************)
(* Parts of the final server: the rows of the database (DataBase), the map *)
(* and the steps on it (MapMove), experience and levels (Combat), the      *)
(* search for a way (AStar) and the view lists (FinalViews), each for      *)
(* every value of its constants.                                           *)
(***************************************************************************)
EXTENDS FinalServer, SequenceTheorems, FiniteSetTheorems, WellFoundedInduction, TLAPS

-----------------------------------------------------------------------------
(* DataBase: shorts and ints.                                              *)
LEMMA ShortsAre ==
    ASSUME NEW s
    PROVE  s \in Table!Shorts <=> s \in Int /\ -32768 <= s /\ s <= 32767
<1>1. \A lo, hi \in Int : s \in lo..hi <=> s \in Int /\ lo <= s /\ s <= hi
  BY SMT
<1>2. Table!SHRT_MIN \in Int /\ Table!SHRT_MAX \in Int
  BY SMT DEF Table!SHRT_MIN, Table!SHRT_MAX
<1>3. s \in Table!Shorts <=> s \in Int /\ Table!SHRT_MIN <= s /\ s <= Table!SHRT_MAX
  BY <1>1, <1>2, SMT DEF Table!Shorts
<1> QED
  BY <1>3, SMT DEF Table!SHRT_MIN, Table!SHRT_MAX

LEMMA LowIs ==
    ASSUME NEW v \in Int
    PROVE  Table!Low(v) \in Int /\ 0 <= Table!Low(v) /\ Table!Low(v) <= 65535
<1>1. v % 65536 \in Int /\ 0 <= v % 65536 /\ v % 65536 <= 65535
  BY SMT
<1> QED
  BY <1>1, SMT DEF Table!Low, Table!Half

LEMMA LowOfShort ==
    ASSUME NEW s \in Int, -32768 <= s, s <= 32767
    PROVE  Table!Low(s) = IF s >= 0 THEN s ELSE s + 65536
<1>1. s >= 0 => s % 65536 = s
  BY SMT
<1>2. s < 0 => s % 65536 = s + 65536
  BY SMT
<1> QED
  BY <1>1, <1>2, SMT DEF Table!Low, Table!Half

LEMMA LowInto ==
    ASSUME NEW s \in Int, NEW v \in Int
    PROVE  Table!Into(v, s) \in Int /\ Table!Low(Table!Into(v, s)) = Table!Low(s)
<1> DEFINE m == v % 65536
           n == s % 65536
<1>1. n \in Int /\ 0 <= n /\ n < 65536 /\ m \in Int
  BY SMT
<1>2. ((v - m) + n) % 65536 = n
  BY SMT
<1>3. Table!Low(v) = m /\ Table!Low(s) = n
  BY SMT DEF Table!Low, Table!Half
<1>4. Table!Into(v, s) = (v - m) + n
  BY <1>3, SMT DEF Table!Into
<1>5. Table!Low(Table!Into(v, s)) = ((v - m) + n) % 65536
  BY <1>4, SMT DEF Table!Low, Table!Half
<1> HIDE DEF m, n
<1> QED
  BY <1>1, <1>2, <1>3, <1>4, <1>5, SMT

LEMMA ShortFacts ==
    /\ Table!Shorts \subseteq Int /\ 0 \in Table!Shorts
    /\ \A v \in Int : Table!Short(v) \in Table!Shorts
    /\ \A s \in Table!Shorts : Table!Short(s) = s
    /\ \A v \in Int, s \in Table!Shorts :
         Table!Into(v, s) \in Int /\ Table!Short(Table!Into(v, s)) = s
<1>1. ASSUME NEW v \in Int PROVE Table!Short(v) \in Table!Shorts
  BY LowIs, ShortsAre, SMT DEF Table!Short, Table!SHRT_MAX, Table!Half
<1>2. ASSUME NEW s \in Table!Shorts PROVE s \in Int /\ Table!Short(s) = s
  BY LowOfShort, ShortsAre, SMT DEF Table!Short, Table!SHRT_MAX, Table!Half
<1>3. ASSUME NEW v \in Int, NEW s \in Table!Shorts
      PROVE  Table!Into(v, s) \in Int /\ Table!Short(Table!Into(v, s)) = s
  <2>1. s \in Int
    BY <1>2, SMT
  <2>2. Table!Into(v, s) \in Int /\ Table!Low(Table!Into(v, s)) = Table!Low(s)
    BY <2>1, LowInto, Zenon
  <2>3. Table!Short(Table!Into(v, s)) = Table!Short(s)
    BY <2>2, SMT DEF Table!Short
  <2> QED
    BY <1>2, <2>2, <2>3, SMT
<1>4. 0 \in Table!Shorts
  BY ShortsAre, SMT
<1> QED
  BY <1>1, <1>2, <1>3, <1>4, SMT

-----------------------------------------------------------------------------
(***************************************************************************)
(* CallsReachTheirRow depends on the handle of the call that is alone, and *)
(* on what has been fetched through it. AloneInv says so for every step: a *)
(* call has a new handle, fresh until the statement; an open query has the *)
(* row of the call's name, or has filled it in. A handle is one of the     *)
(* bound's, since each call allocates just one (HandleType).               *)
(***************************************************************************)
Avatar == [level : Table!Shorts, hp : Table!Shorts]
Statement == [st : {"none", "fresh", "done", "open", "over"},
              level : Table!Shorts, hp : Table!Shorts]
Locals == [pos : BOOLEAN, level : Int, hp : Table!Shorts]
Queries == {"BindPos", "BindLevel", "BindHp", "Fetch", "Fetched"}

Busy(w) == call[w] # "Idle"
Allocating(at) == {w \in Callers : at[w] = "Alloc"}

TableType ==
    /\ row \in [Names -> Avatar] /\ retcode \in {"ok", "error", "no_data"}
    /\ call \in [Callers -> {"Idle", "FindID", "UpdateDB"}]
    /\ pc \in [Callers -> {"Idle", "Alloc", "Exec", "Test", "Free", "Return"} \cup Queries]
    /\ name \in [Callers -> Names \cup {Table!Nobody}]
    /\ locals \in [Callers -> Locals]
    /\ \A w \in Callers :
         /\ Busy(w) <=> pc[w] # "Idle"
         /\ Busy(w) => name[w] \in Names
         /\ call[w] = "UpdateDB" => locals[w].level \in Table!Shorts /\ pc[w] \notin Queries

HandleType ==
    /\ stmt \in [Table!Handles -> Statement]
    /\ bound \in [Table!Handles -> [Table!Columns -> Callers \cup {Table!Nobody}]]
    /\ hstmt \in Nat /\ calls \in 0..MaxCalls
    /\ IsFiniteSet(Allocating(pc))
    /\ hstmt + Cardinality(Allocating(pc)) = calls
    /\ \A w \in Callers : pc[w] \notin {"Idle", "Alloc"} => hstmt \in Table!Handles

(* The query of w is open on the row of its name; its variables hold it.   *)
Opened(w) ==
    /\ stmt[hstmt].st = "open"
    /\ stmt[hstmt].level = row[name[w]].level /\ stmt[hstmt].hp = row[name[w]].hp
Loaded(w) ==
    /\ locals[w].pos
    /\ Table!Short(locals[w].level) = row[name[w]].level
    /\ locals[w].hp = row[name[w]].hp

QueryInv(w) ==
    /\ pc[w] = "Exec" => stmt[hstmt].st = "fresh"
    /\ pc[w] = "Test" => retcode = "ok"
    /\ pc[w] \in {"Test", "BindPos", "BindLevel", "BindHp"} => Opened(w)
    /\ pc[w] \in {"BindLevel", "BindHp", "Fetch", "Fetched"} => bound[hstmt]["pos"] = w
    /\ pc[w] \in {"BindHp", "Fetch", "Fetched"} => bound[hstmt]["level"] = w
    /\ pc[w] \in {"Fetch", "Fetched"} => bound[hstmt]["hp"] = w
    /\ pc[w] = "Fetch" => Opened(w) \/ (stmt[hstmt].st = "over" /\ Loaded(w))
    /\ pc[w] = "Fetched" => stmt[hstmt].st = "over"
    /\ pc[w] \in {"Fetched", "Free", "Return"} => Loaded(w)

UpdateInv(w) ==
    /\ pc[w] = "Exec" => stmt[hstmt].st = "fresh"
    /\ pc[w] \in {"Test", "Free", "Return"} => row[name[w]] = Table!Swapped(w)

AloneInv ==
    alone =>
        /\ \A v, w \in Callers : Busy(v) /\ Busy(w) => v = w
        /\ \A w \in Callers : call[w] = "FindID" => QueryInv(w)
        /\ \A w \in Callers : call[w] = "UpdateDB" => UpdateInv(w)

RowTypes == TableType /\ HandleType
RowsInv == RowTypes /\ AloneInv

LEMMA RowTypesInit == ASSUME Table!DataBaseAssumption, Table!Init PROVE RowTypes
<1>1. TableType
  BY ShortFacts, Zenon DEF Table!DataBaseAssumption, Table!Init, TableType, Avatar, Locals,
     Busy, Table!NoLocals, Table!Nobody
<1>2. HandleType
  <2>1. Allocating(pc) = {}
    BY DEF Table!Init, Allocating
  <2>2. IsFiniteSet(Allocating(pc)) /\ Cardinality(Allocating(pc)) = 0
    BY <2>1, FS_EmptySet
  <2>3. stmt \in [Table!Handles -> Statement]
    BY ShortFacts DEF Table!Init, Statement
  <2>4. bound \in [Table!Handles -> [Table!Columns -> Callers \cup {Table!Nobody}]]
    BY DEF Table!Init
  <2>5. MaxCalls \in Nat /\ hstmt = 0 /\ calls = 0 /\ \A w \in Callers : pc[w] = "Idle"
    BY DEF Table!Init, Table!Null, Table!DataBaseAssumption
  <2> QED
    BY <2>2, <2>3, <2>4, <2>5 DEF HandleType
<1> QED
  BY <1>1, <1>2 DEF RowTypes

(* A step that neither allocates nor ends the wait for it.                 *)
LEMMA HandleKept ==
    ASSUME HandleType, DOMAIN pc = Callers, NEW w \in Callers, NEW s,
           pc[w] \notin {"Idle", "Alloc"}, s # "Alloc", pc' = [pc EXCEPT ![w] = s],
           hstmt' = hstmt, calls' = calls,
           stmt' \in [Table!Handles -> Statement],
           bound' \in [Table!Handles -> [Table!Columns -> Callers \cup {Table!Nobody}]]
    PROVE  HandleType'
<1>1. IsFiniteSet(Allocating(pc')) /\ Cardinality(Allocating(pc')) = Cardinality(Allocating(pc))
  <2>1. Allocating(pc') = Allocating(pc)
    BY DEF Allocating
  <2> QED
    BY <2>1 DEF HandleType
<1>2. \A v \in Callers : pc'[v] \notin {"Idle", "Alloc"} => hstmt' \in Table!Handles
  BY DEF HandleType
<1>3. Table!Handles' = Table!Handles /\ Table!Columns' = Table!Columns
      /\ Table!Nobody' = Table!Nobody /\ Statement' = Statement
  BY DEF Table!Handles, Table!Columns, Table!Nobody, Statement, Table!Shorts
<1> QED
  BY <1>1, <1>2, <1>3 DEF HandleType

(* The sets of the types are constants.                                    *)
LEMMA RowConstants ==
    /\ Avatar' = Avatar /\ Locals' = Locals /\ Statement' = Statement
    /\ Table!Nobody' = Table!Nobody /\ Table!Shorts' = Table!Shorts
    /\ Table!Handles' = Table!Handles /\ Table!Columns' = Table!Columns
  BY DEF Avatar, Locals, Statement, Table!Nobody, Table!Shorts, Table!Handles, Table!Columns

(* A record of shorts takes the place of another.                          *)
LEMMA SwappedIs ==
    ASSUME TableType, NEW w \in Callers, call[w] = "UpdateDB"
    PROVE  Table!Swapped(w) \in Avatar
<1>1. locals[w].level \in Table!Shorts /\ locals[w].hp \in Table!Shorts
  BY DEF TableType, Locals
<1> QED
  BY <1>1 DEF Table!Swapped, Avatar

LEMMA FilledIs ==
    ASSUME TableType, HandleType, NEW v \in Callers, NEW h \in Table!Handles
    PROVE  /\ Table!Filled(v, h) \in Locals
           /\ call[v] = "UpdateDB" => Table!Filled(v, h).level = locals[v].level
<1>1. /\ locals[v].level \in Int /\ locals[v].hp \in Table!Shorts /\ locals[v].pos \in BOOLEAN
      /\ stmt[h].level \in Table!Shorts /\ stmt[h].hp \in Table!Shorts
  BY DEF TableType, HandleType, Locals, Statement
<1>2. /\ Table!Into(locals[v].level, stmt[h].level) \in Int
      /\ Table!Short(stmt[h].hp) \in Table!Shorts
  BY <1>1, ShortFacts
<1> QED
  BY <1>1, <1>2 DEF Table!Filled, Locals

LEMMA RowTypesStep ==
    ASSUME Table!DataBaseAssumption, RowTypes, Table!Next
    PROVE  RowTypes'
<1> SUFFICES TableType' /\ HandleType'
  BY DEF RowTypes
<1> TableType /\ HandleType
  BY DEF RowTypes
<1>0. DOMAIN pc = Callers /\ MaxCalls \in Nat /\ Table!Handles = 1..MaxCalls
  BY DEF TableType, Table!DataBaseAssumption, Table!Handles
<1>1. ASSUME NEW w \in Callers, NEW c \in {"FindID", "UpdateDB"}, NEW n \in Names,
             Table!Begin(w, c, n)
      PROVE  TableType' /\ HandleType'
  <2>1. /\ call[w] = "Idle" /\ pc[w] = "Idle" /\ calls < MaxCalls
        /\ call' = [call EXCEPT ![w] = c] /\ name' = [name EXCEPT ![w] = n]
        /\ calls' = calls + 1 /\ pc' = [pc EXCEPT ![w] = "Alloc"]
        /\ UNCHANGED <<row, hstmt, retcode, stmt, bound>>
    BY <1>1 DEF Table!Begin, Table!Goto, TableType, Busy
  <2>2. PICK r \in Locals : /\ locals' = [locals EXCEPT ![w] = r]
                            /\ c = "UpdateDB" => r.level \in Table!Shorts
    <3>1. Ints \subseteq Int
      BY DEF Table!DataBaseAssumption
    <3>2. PICK lv, hp \in Ints :
            \/ /\ c = "FindID"
               /\ locals' = [locals EXCEPT ![w] =
                               [pos |-> FALSE, level |-> lv, hp |-> Table!Short(hp)]]
            \/ locals' = [locals EXCEPT ![w] =
                            [pos |-> TRUE, level |-> Table!Short(lv), hp |-> Table!Short(hp)]]
      BY <1>1 DEF Table!Begin
    <3>3. /\ lv \in Int /\ Table!Short(lv) \in Table!Shorts /\ Table!Short(lv) \in Int
          /\ Table!Short(hp) \in Table!Shorts
      BY <3>1, <3>2, ShortFacts
    <3>4. /\ [pos |-> FALSE, level |-> lv, hp |-> Table!Short(hp)] \in Locals
          /\ [pos |-> TRUE, level |-> Table!Short(lv), hp |-> Table!Short(hp)] \in Locals
      BY <3>3 DEF Locals
    <3> QED
      BY <3>2, <3>3, <3>4
  <2>3. TableType'
    BY <2>1, <2>2, RowConstants DEF TableType, Busy, Queries
  <2>4. /\ IsFiniteSet(Allocating(pc')) /\ Cardinality(Allocating(pc)) \in Nat
        /\ Cardinality(Allocating(pc')) = Cardinality(Allocating(pc)) + 1
    <3>1. IsFiniteSet(Allocating(pc))
      BY DEF HandleType
    <3>2. Allocating(pc') = Allocating(pc) \cup {w} /\ w \notin Allocating(pc)
      BY <1>0, <2>1 DEF Allocating
    <3> QED
      BY <3>1, <3>2, FS_AddElement, FS_CardinalityType
  <2>5. \A v \in Callers : pc'[v] \notin {"Idle", "Alloc"} => hstmt' \in Table!Handles
    BY <2>1 DEF HandleType
  <2>6. hstmt' + Cardinality(Allocating(pc')) = calls' /\ calls' \in 0..MaxCalls
    <3>1. hstmt + Cardinality(Allocating(pc)) = calls /\ hstmt \in Nat /\ calls \in 0..MaxCalls
      BY DEF HandleType
    <3> QED
      BY <1>0, <2>1, <2>4, <3>1
  <2>7. HandleType'
    BY <2>1, <2>4, <2>5, <2>6, RowConstants DEF HandleType
  <2> QED
    BY <2>3, <2>7
<1>2. ASSUME NEW w \in Callers, Table!Alloc(w) PROVE TableType' /\ HandleType'
  <2>1. /\ pc[w] = "Alloc" /\ hstmt' = hstmt + 1 /\ retcode' = "ok"
        /\ stmt' = [stmt EXCEPT ![hstmt + 1].st = "fresh"]
        /\ pc' = [pc EXCEPT ![w] = "Exec"]
        /\ UNCHANGED <<row, bound, call, name, locals, calls>>
    BY <1>2 DEF Table!Alloc, Table!Goto
  <2>2. TableType'
    BY <2>1, RowConstants DEF TableType, Busy, Queries
  <2>3. stmt' \in [Table!Handles -> Statement]
    BY <2>1 DEF HandleType, Statement
  <2>4. /\ IsFiniteSet(Allocating(pc')) /\ Cardinality(Allocating(pc)) \in Nat
        /\ Cardinality(Allocating(pc')) = Cardinality(Allocating(pc)) - 1
        /\ Cardinality(Allocating(pc')) \in Nat
    <3>1. IsFiniteSet(Allocating(pc))
      BY DEF HandleType
    <3>2. Allocating(pc') = Allocating(pc) \ {w} /\ w \in Allocating(pc)
      BY <1>0, <2>1 DEF Allocating
    <3> QED
      BY <3>1, <3>2, FS_RemoveElement, FS_CardinalityType
  <2>5. hstmt' \in Table!Handles
    BY <1>0, <2>1, <2>4 DEF HandleType
  <2>6. hstmt' + Cardinality(Allocating(pc')) = calls' /\ hstmt' \in Nat
    <3>1. hstmt + Cardinality(Allocating(pc)) = calls /\ hstmt \in Nat /\ calls \in 0..MaxCalls
      BY DEF HandleType
    <3> QED
      BY <1>0, <2>1, <2>4, <3>1
  <2> QED
    BY <2>1, <2>2, <2>3, <2>4, <2>5, <2>6, RowConstants DEF HandleType
<1>3. ASSUME NEW w \in Callers, Table!ExecDirect(w) PROVE TableType' /\ HandleType'
  <2>1. /\ pc[w] = "Exec" /\ pc' = [pc EXCEPT ![w] = "Test"]
        /\ UNCHANGED <<hstmt, bound, call, name, locals, calls>>
        /\ retcode' \in {"ok", "error", "no_data"}
    BY <1>3 DEF Table!ExecDirect, Table!Goto
  <2>2. name[w] \in Names /\ row[name[w]] \in Avatar
    BY <2>1 DEF TableType
  <2>3. row' \in [Names -> Avatar]
    <3>1. CASE row' = row
      BY <3>1 DEF TableType
    <3>2. CASE call[w] = "UpdateDB" /\ row' = Table!SetPos(w)
      BY <2>2, <3>2, SwappedIs DEF Table!SetPos, TableType
    <3> QED
      BY <1>3, <3>1, <3>2 DEF Table!ExecDirect
  <2>4. stmt' \in [Table!Handles -> Statement]
    <3>1. CASE stmt' = stmt
      BY <3>1 DEF HandleType
    <3>2. CASE stmt' = [stmt EXCEPT ![hstmt] =
                          [st |-> "open", level |-> row[name[w]].level, hp |-> row[name[w]].hp]]
      BY <2>2, <3>2 DEF HandleType, Statement, Avatar
    <3>3. CASE stmt' = [stmt EXCEPT ![hstmt].st = "done"]
      BY <3>3 DEF HandleType, Statement
    <3> QED
      BY <1>3, <3>1, <3>2, <3>3 DEF Table!ExecDirect
  <2>5. TableType'
    BY <2>1, <2>3, RowConstants DEF TableType, Busy, Queries
  <2> QED
    BY <1>0, HandleKept, <2>1, <2>4, <2>5 DEF HandleType
<1>4. ASSUME NEW w \in Callers, Table!Test(w) PROVE TableType' /\ HandleType'
  <2>1. PICK s \in {"BindPos", "Free"} :
          pc' = [pc EXCEPT ![w] = s] /\ (s = "BindPos" => call[w] = "FindID")
    BY <1>4 DEF Table!Test, Table!Goto
  <2>2. /\ pc[w] = "Test"
        /\ UNCHANGED <<row, hstmt, retcode, stmt, bound, call, name, locals, calls>>
    BY <1>4 DEF Table!Test
  <2>3. TableType'
    BY <2>1, <2>2, RowConstants DEF TableType, Busy, Queries
  <2> QED
    BY <1>0, HandleKept, <2>1, <2>2, <2>3 DEF HandleType
<1>5. ASSUME NEW w \in Callers, NEW at \in Queries, NEW c \in Table!Columns,
             NEW next \in Queries, Table!Bind(w, at, c, next)
      PROVE  TableType' /\ HandleType'
  <2>1. /\ pc[w] = at /\ pc' = [pc EXCEPT ![w] = next]
        /\ UNCHANGED <<row, hstmt, stmt, call, name, locals, calls>>
        /\ retcode' \in {"ok", "error", "no_data"}
        /\ bound' = bound \/ bound' = [bound EXCEPT ![hstmt][c] = w]
    BY <1>5 DEF Table!Bind, Table!Goto
  <2>2. TableType'
    BY <2>1, RowConstants DEF TableType, Busy, Queries
  <2>3. bound' \in [Table!Handles -> [Table!Columns -> Callers \cup {Table!Nobody}]]
    BY <2>1 DEF HandleType
  <2> QED
    BY <1>0, HandleKept, <2>1, <2>2, <2>3 DEF HandleType, Queries
<1>6. ASSUME NEW w \in Callers, Table!Fetch(w) PROVE TableType' /\ HandleType'
  <2>1. /\ pc[w] = "Fetch" /\ pc' = [pc EXCEPT ![w] = "Fetched"]
        /\ UNCHANGED <<row, hstmt, bound, call, name, calls>>
        /\ retcode' \in {"ok", "error", "no_data"}
        /\ stmt' = stmt \/ stmt' = [stmt EXCEPT ![hstmt].st = "over"]
        /\ locals' = locals \/ locals' = [v \in Callers |-> Table!Filled(v, hstmt)]
    BY <1>6 DEF Table!Fetch, Table!Goto
  <2>2. hstmt \in Table!Handles
    BY <2>1 DEF HandleType
  <2>3. locals' \in [Callers -> Locals]
        /\ \A v \in Callers : call[v] = "UpdateDB" => locals'[v].level = locals[v].level
    BY <2>1, <2>2, FilledIs DEF TableType
  <2>4. TableType'
    BY <2>1, <2>3, RowConstants DEF TableType, Busy, Queries
  <2>5. stmt' \in [Table!Handles -> Statement]
    BY <2>1 DEF HandleType, Statement
  <2> QED
    BY <1>0, HandleKept, <2>1, <2>4, <2>5 DEF HandleType
<1>7. ASSUME NEW w \in Callers, Table!Fetched(w) PROVE TableType' /\ HandleType'
  <2>1. PICK s \in {"Fetch", "Free"} : pc' = [pc EXCEPT ![w] = s]
    BY <1>7 DEF Table!Fetched, Table!Goto
  <2>2. /\ pc[w] = "Fetched"
        /\ UNCHANGED <<row, hstmt, retcode, stmt, bound, call, name, locals, calls>>
    BY <1>7 DEF Table!Fetched
  <2>3. TableType'
    BY <2>1, <2>2, RowConstants DEF TableType, Busy, Queries
  <2> QED
    BY <1>0, HandleKept, <2>1, <2>2, <2>3 DEF HandleType
<1>8. ASSUME NEW w \in Callers, Table!Free(w) PROVE TableType' /\ HandleType'
  <2>1. /\ pc[w] = "Free" /\ pc' = [pc EXCEPT ![w] = "Return"]
        /\ UNCHANGED <<row, hstmt, retcode, bound, call, name, locals, calls>>
        /\ stmt' = stmt \/ stmt' = [stmt EXCEPT ![hstmt].st = "none"]
    BY <1>8 DEF Table!Free, Table!Goto
  <2>2. TableType'
    BY <2>1, RowConstants DEF TableType, Busy, Queries
  <2>3. stmt' \in [Table!Handles -> Statement]
    BY <2>1 DEF HandleType, Statement
  <2> QED
    BY <1>0, HandleKept, <2>1, <2>2, <2>3 DEF HandleType
<1>9. ASSUME NEW w \in Callers, Table!Return(w) PROVE TableType' /\ HandleType'
  <2>1. /\ pc[w] = "Return" /\ pc' = [pc EXCEPT ![w] = "Idle"]
        /\ call' = [call EXCEPT ![w] = "Idle"]
        /\ name' = [name EXCEPT ![w] = Table!Nobody]
        /\ locals' = [locals EXCEPT ![w] = Table!NoLocals]
        /\ UNCHANGED <<row, hstmt, retcode, stmt, bound, calls>>
    BY <1>9 DEF Table!Return, Table!Goto
  <2>2. Table!NoLocals \in Locals
    BY ShortFacts DEF Table!NoLocals, Locals
  <2>3. TableType'
    BY <2>1, <2>2, RowConstants DEF TableType, Busy, Queries
  <2> QED
    BY <1>0, HandleKept, <2>1, <2>3 DEF HandleType
<1>10. {"pos", "level", "hp"} \subseteq Table!Columns
       /\ {"BindPos", "BindLevel", "BindHp", "Fetch"} \subseteq Queries
  BY DEF Table!Columns, Queries
<1> QED
  BY <1>1, <1>2, <1>3, <1>4, <1>5, <1>6, <1>7, <1>8, <1>9, <1>10 DEF Table!Next, Table!Step

LEMMA RowTypesStand ==
    ASSUME RowTypes, UNCHANGED Table!vars
    PROVE  RowTypes'
  BY RowConstants DEF Table!vars, RowTypes, TableType, HandleType, Busy, Allocating

LEMMA RowTypesOK == ASSUME Table!DataBaseAssumption, RowTypes PROVE Table!TypeOK
<1>1. hstmt \in Table!Handles \cup {Table!Null}
  <2>1. Cardinality(Allocating(pc)) \in Nat
    BY FS_CardinalityType DEF RowTypes, HandleType
  <2> QED
    BY <2>1 DEF RowTypes, HandleType, Table!DataBaseAssumption, Table!Handles, Table!Null
<1> QED
  BY <1>1 DEF RowTypes, TableType, HandleType, Avatar, Statement, Locals, Queries, Table!TypeOK

LEMMA AloneStep ==
    ASSUME Table!DataBaseAssumption, RowsInv, Table!Next
    PROVE  AloneInv'
<1> USE DEF RowsInv, RowTypes
<1>0. /\ DOMAIN pc = Callers /\ DOMAIN call = Callers /\ DOMAIN name = Callers
      /\ DOMAIN locals = Callers /\ DOMAIN row = Names
      /\ DOMAIN stmt = Table!Handles /\ DOMAIN bound = Table!Handles
      /\ \A h \in Table!Handles : DOMAIN bound[h] = Table!Columns
      /\ Table!Columns = {"pos", "level", "hp"}
  BY DEF TableType, HandleType, Table!Columns
(* Who goes on alone is who began alone.                                   *)
<1>1. ASSUME NEW w \in Callers, Busy(w), alone, alone' = alone,
             UNCHANGED <<call, name>> \/ call' = [call EXCEPT ![w] = "Idle"],
             \A v \in Callers : v # w => pc'[v] = pc[v],
             call' = call /\ call[w] = "FindID" => QueryInv(w)',
             call' = call /\ call[w] = "UpdateDB" => UpdateInv(w)'
      PROVE  AloneInv'
  <2>1. \A v \in Callers : Busy(v) => v = w
    BY <1>1 DEF AloneInv
  <2>2. \A v \in Callers : v # w => call[v] = "Idle" /\ call'[v] = "Idle"
    BY <1>0, <1>1, <2>1 DEF Busy
  <2>3. CASE call' = [call EXCEPT ![w] = "Idle"]
    <3>1. \A v \in Callers : call'[v] = "Idle"
      BY <1>0, <2>2, <2>3
    <3> QED
      BY <3>1 DEF AloneInv, Busy
  <2>4. CASE call' = call
    <3>1. \A v \in Callers : call'[v] # "Idle" => v = w
      BY <2>2
    <3>2. \A v \in Callers : call'[v] = "FindID" => QueryInv(v)'
      BY <1>1, <2>4, <3>1
    <3>3. \A v \in Callers : call'[v] = "UpdateDB" => UpdateInv(v)'
      BY <1>1, <2>4, <3>1
    <3> QED
      BY <3>1, <3>2, <3>3 DEF AloneInv, Busy
  <2> QED
    BY <1>1, <2>3, <2>4
<1>2. CASE ~alone'
  BY <1>2 DEF AloneInv
<1>3. ASSUME NEW w \in Callers, NEW c \in {"FindID", "UpdateDB"}, NEW n \in Names,
             Table!Begin(w, c, n)
      PROVE  AloneInv'
  <2>1. /\ call' = [call EXCEPT ![w] = c] /\ pc' = [pc EXCEPT ![w] = "Alloc"]
        /\ alone' = \A v \in Callers : call[v] = "Idle"
    BY <1>3 DEF Table!Begin, Table!Goto
  <2>2. SUFFICES ASSUME \A v \in Callers : call[v] = "Idle" PROVE AloneInv'
    BY <1>2, <2>1
  <2>3. \A v \in Callers : call'[v] # "Idle" => v = w
    BY <1>0, <2>1, <2>2
  <2>4. pc'[w] = "Alloc"
    BY <1>0, <2>1
  <2>5. QueryInv(w)' /\ UpdateInv(w)'
    BY <2>4 DEF QueryInv, UpdateInv
  <2> QED
    BY <2>3, <2>5 DEF AloneInv, Busy
<1>4. ASSUME NEW w \in Callers, Table!Step(w), alone PROVE AloneInv'
  <2>1. /\ Busy(w) /\ alone' = alone
        /\ UNCHANGED <<call, name>> \/ call' = [call EXCEPT ![w] = "Idle"]
        /\ \A v \in Callers : v # w => pc'[v] = pc[v]
    BY <1>0, <1>4 DEF Table!Step, Table!Goto, Table!Alloc, Table!ExecDirect, Table!Test,
       Table!Bind, Table!Fetch, Table!Fetched, Table!Free, Table!Return, TableType, Busy
  <2>2. /\ call[w] = "FindID" => QueryInv(w)
        /\ call[w] = "UpdateDB" => UpdateInv(w)
        /\ name[w] \in Names
        /\ pc[w] \notin {"Idle", "Alloc"} => hstmt \in Table!Handles
    BY <1>4, <2>1 DEF AloneInv, TableType, HandleType
  <2>3. SUFFICES ASSUME call' = call, call[w] \in {"FindID", "UpdateDB"}
                 PROVE  /\ call[w] = "FindID" => QueryInv(w)'
                        /\ call[w] = "UpdateDB" => UpdateInv(w)'
    BY <1>1, <1>4, <2>1
  <2>4. UNCHANGED name
    BY <1>4, <2>1, <2>3 DEF Table!Step, Table!Alloc, Table!ExecDirect, Table!Test,
       Table!Bind, Table!Fetch, Table!Fetched, Table!Free, Table!Return, TableType
  <2>5. CASE Table!Alloc(w)
    <3>1. hstmt' = hstmt + 1 /\ pc'[w] = "Exec"
      BY <1>0, <2>5 DEF Table!Alloc, Table!Goto
    <3>2. HandleType'
      BY RowTypesStep
    <3>3. hstmt + 1 \in Table!Handles
      BY <3>1, <3>2, RowConstants DEF HandleType
    <3> QED
      BY <1>0, <2>5, <3>1, <3>3 DEF Table!Alloc, Table!Goto, QueryInv, UpdateInv
  <2>6. CASE Table!ExecDirect(w)
    BY <1>0, <2>2, <2>6
    DEF Table!ExecDirect, Table!Goto, Table!SetPos, Table!Swapped, QueryInv, UpdateInv, Opened
  <2>7. CASE Table!Test(w)
    BY <1>0, <2>2, <2>7 DEF Table!Test, Table!Goto, Table!Swapped, QueryInv, UpdateInv,
       Opened, Loaded
  <2>8. ASSUME Table!Bind(w, "BindPos", "pos", "BindLevel")
        PROVE  /\ call[w] = "FindID" => QueryInv(w)'
               /\ call[w] = "UpdateDB" => UpdateInv(w)'
    BY <1>0, <2>2, <2>8 DEF Table!Bind, Table!Goto, QueryInv, UpdateInv, Opened, Loaded
  <2>9. ASSUME Table!Bind(w, "BindLevel", "level", "BindHp")
        PROVE  /\ call[w] = "FindID" => QueryInv(w)'
               /\ call[w] = "UpdateDB" => UpdateInv(w)'
    BY <1>0, <2>2, <2>9 DEF Table!Bind, Table!Goto, QueryInv, UpdateInv, Opened, Loaded
  <2>10. ASSUME Table!Bind(w, "BindHp", "hp", "Fetch")
         PROVE  /\ call[w] = "FindID" => QueryInv(w)'
                /\ call[w] = "UpdateDB" => UpdateInv(w)'
    BY <1>0, <2>2, <2>10 DEF Table!Bind, Table!Goto, QueryInv, UpdateInv, Opened, Loaded
  <2>11. CASE Table!Fetch(w)
    <3>1. /\ pc[w] = "Fetch" /\ pc'[w] = "Fetched" /\ hstmt \in Table!Handles
          /\ UNCHANGED <<row, hstmt, bound>>
          /\ \/ /\ stmt[hstmt].st = "open" /\ stmt' = [stmt EXCEPT ![hstmt].st = "over"]
                /\ locals' = [v \in Callers |-> Table!Filled(v, hstmt)]
             \/ stmt[hstmt].st = "over" /\ stmt' = stmt /\ locals' = locals
             \/ stmt[hstmt].st \in {"none", "fresh", "done"}
      BY <1>0, <2>2, <2>11 DEF Table!Fetch, Table!Goto
    <3>2. SUFFICES ASSUME call[w] = "FindID" PROVE QueryInv(w)'
      BY <2>2, <3>1 DEF UpdateInv, TableType, Queries
    <3>3. stmt'[hstmt].st = "over"
      BY <1>0, <2>2, <3>1, <3>2 DEF QueryInv, Opened, HandleType, Statement
    <3>4. Loaded(w)'
      <4>1. CASE stmt[hstmt].st = "over"
        BY <2>2, <2>4, <3>1, <3>2, <4>1 DEF QueryInv, Opened, Loaded
      <4>2. CASE stmt[hstmt].st # "over"
        <5>1. Opened(w) /\ bound[hstmt]["pos"] = w /\ bound[hstmt]["level"] = w
              /\ bound[hstmt]["hp"] = w
          BY <2>2, <3>1, <3>2, <4>2 DEF QueryInv
        <5>2. locals'[w] = Table!Filled(w, hstmt)
          BY <3>1, <4>2, <5>1 DEF Opened
        <5>3. /\ locals[w].level \in Int /\ stmt[hstmt].level \in Table!Shorts
              /\ stmt[hstmt].hp \in Table!Shorts
          BY <3>1 DEF TableType, HandleType, Locals, Statement
        <5>4. Table!Filled(w, hstmt) =
                [pos |-> TRUE, level |-> Table!Into(locals[w].level, stmt[hstmt].level),
                 hp |-> Table!Short(stmt[hstmt].hp)]
          BY <3>2, <5>1 DEF Table!Filled
        <5>5. /\ Table!Short(Table!Into(locals[w].level, stmt[hstmt].level)) = stmt[hstmt].level
              /\ Table!Short(stmt[hstmt].hp) = stmt[hstmt].hp
          BY <5>3, ShortFacts
        <5>6. /\ locals'[w].pos /\ Table!Short(locals'[w].level) = row[name[w]].level
              /\ locals'[w].hp = row[name[w]].hp
          BY <5>1, <5>2, <5>4, <5>5 DEF Opened
        <5> QED
          BY <2>4, <3>1, <5>6 DEF Loaded, Table!Short, Table!Low
      <4> QED
        BY <4>1, <4>2
    <3> QED
      BY <2>2, <3>1, <3>2, <3>3, <3>4 DEF QueryInv
  <2>12. CASE Table!Fetched(w)
    <3>1. /\ pc[w] = "Fetched" /\ UNCHANGED <<row, hstmt, retcode, stmt, bound, locals>>
          /\ pc'[w] \in {"Fetch", "Free"}
      BY <1>0, <2>12 DEF Table!Fetched, Table!Goto
    <3>2. SUFFICES ASSUME call[w] = "FindID" PROVE QueryInv(w)'
      BY <2>2, <3>1 DEF UpdateInv, TableType, Queries
    <3>3. Loaded(w)'
      BY <2>2, <2>4, <3>1, <3>2 DEF QueryInv, Loaded, Table!Short, Table!Low
    <3> QED
      BY <2>2, <3>1, <3>2, <3>3 DEF QueryInv
  <2>13. CASE Table!Free(w)
    BY <1>0, <2>2, <2>13 DEF Table!Free, Table!Goto, Table!Swapped, QueryInv, UpdateInv, Loaded
  <2>14. CASE Table!Return(w)
    BY <1>0, <2>1, <2>3, <2>14 DEF Table!Return, Busy
  <2> QED
    BY <1>4, <2>5, <2>6, <2>7, <2>8, <2>9, <2>10, <2>11, <2>12, <2>13, <2>14 DEF Table!Step
<1>5. ASSUME NEW w \in Callers, Table!Step(w) PROVE AloneInv'
  <2>1. alone' = alone
    BY <1>5 DEF Table!Step, Table!Alloc, Table!ExecDirect, Table!Test,
       Table!Bind, Table!Fetch, Table!Fetched, Table!Free, Table!Return
  <2> QED
    BY <1>2, <1>4, <1>5, <2>1
<1> QED
  BY <1>3, <1>5 DEF Table!Next

LEMMA RowsStep ==
    ASSUME Table!DataBaseAssumption, RowsInv, [Table!Next]_Table!vars
    PROVE  RowsInv'
<1>1. CASE Table!Next
  BY <1>1, AloneStep, RowTypesStep DEF RowsInv
<1>2. CASE UNCHANGED Table!vars
  <2>1. RowTypes'
    BY <1>2, RowTypesStand DEF RowsInv
  <2>2. AloneInv'
    BY <1>2 DEF Table!vars, RowsInv, AloneInv, QueryInv, UpdateInv, Opened, Loaded, Busy,
       Table!Short, Table!Low, Table!Swapped
  <2> QED
    BY <2>1, <2>2 DEF RowsInv
<1> QED
  BY <1>1, <1>2

LEMMA RowsBegin == ASSUME Table!DataBaseAssumption, Table!Init PROVE RowsInv
<1>1. \A w \in Callers : call[w] = "Idle"
  BY DEF Table!Init
<1> QED
  BY <1>1, RowTypesInit DEF RowsInv, AloneInv, Busy

LEMMA RowsReach == RowsInv => Table!CallsReachTheirRow
  BY DEF RowsInv, AloneInv, QueryInv, UpdateInv, Loaded, Table!CallsReachTheirRow,
         Table!LoadsOwnRow, Table!SavesAreMade, Table!Ends

(* A call that no other overlaps reaches the row of its name, for any      *)
(* number of workers, whatever overlapping calls have made of the one      *)
(* hstmt and retcode before, and however many handles are left open.       *)
THEOREM CallsReach ==
    ASSUME Table!DataBaseAssumption
    PROVE  Table!Spec => []Table!CallsReachTheirRow
<1>1. Table!Init => RowsInv
  BY RowsBegin
<1>2. RowsInv /\ [Table!Next]_Table!vars => RowsInv'
  BY RowsStep
<1>3. RowsInv => Table!CallsReachTheirRow
  BY RowsReach
<1> QED
  BY <1>1, <1>2, <1>3, PTL DEF Table!Spec

-----------------------------------------------------------------------------
(***************************************************************************)
(* MapMove. MarksAndWalls says nothing of a move under way; MoveInv adds   *)
(* that what it has read of m_pos are coordinates of places where the      *)
(* object has been, though maybe of two of them.                           *)
(***************************************************************************)
Points == Int \X Int

MapType ==
    /\ DOMAIN data = Map!Memory /\ walls \subseteq Map!Memory
    /\ m_pos \in [Map!Objects -> Points]
    /\ DOMAIN been = Map!Objects /\ DOMAIN pc = Map!Objects
    /\ DOMAIN px = Map!Objects /\ DOMAIN py = Map!Objects
    /\ dir \in [Map!Objects -> 0..3]

ReadInv ==
    \A o \in Map!Objects :
        /\ m_pos[o] \in been[o] /\ been[o] \subseteq Points
        /\ pc[o] \in {"y", "lock"} => \E p \in been[o] : px[o] = p[1]
        /\ pc[o] = "lock" => \E q \in been[o] : py[o] = q[2]

MoveInv == MapType /\ ReadInv /\ Map!MarksAndWalls

(* A cell of the world is one of its memory. *)
LEMMA CellInMemory ==
    ASSUME NEW W \in Nat, NEW H \in Nat, NEW x \in 0..(W - 1), NEW y \in 0..(H - 1)
    PROVE  x * H + y \in 0..(W * H - 1)
<1>1. x * H \in Nat
  OBVIOUS
<1>2. (x + 1) * H = x * H + H
  OBVIOUS
<1>3. (x + 1) * H <= W * H
  <2>1. PICK d \in Nat : W = (x + 1) + d
    <3>1. W - (x + 1) \in Nat /\ W = (x + 1) + (W - (x + 1))
      OBVIOUS
    <3> QED
      BY <3>1
  <2>2. W * H = (x + 1) * H + d * H
    BY <2>1
  <2>3. d * H \in Nat
    OBVIOUS
  <2> QED
    BY <2>2, <2>3, <1>1, <1>2
<1> QED
  BY <1>1, <1>2, <1>3

(* The place ahead is one step away in memory. *)
LEMMA AheadIsNear ==
    ASSUME NEW H \in Nat, NEW x \in Int, NEW y \in Int
    PROVE  /\ x * H + (y - 1) - (x * H + y) = -1
           /\ x * H + (y + 1) - (x * H + y) = 1
           /\ (x - 1) * H + y - (x * H + y) = -H
           /\ (x + 1) * H + y - (x * H + y) = H
           /\ x * H + y \in Int
<1>1. x * H \in Int /\ (x - 1) * H = x * H - H /\ (x + 1) * H = x * H + H
  OBVIOUS
<1> QED
  BY <1>1

LEMMA MoveInit == ASSUME Map!MapAssumption, Map!Init PROVE MoveInv
<1> WORLD_WIDTH \in Nat /\ WORLD_HEIGHT \in Nat
  BY DEF Map!MapAssumption, Map!W, Map!H
<1>1. PICK cells \in Walls : walls = {Map!Index(c[1], c[2]) : c \in cells}
  BY DEF Map!Init
<1>2. walls \subseteq Map!Memory
  <2> SUFFICES ASSUME NEW c \in cells PROVE Map!Index(c[1], c[2]) \in Map!Memory
    BY <1>1
  <2>1. c \in (0..(WORLD_WIDTH - 1)) \X (0..(WORLD_HEIGHT - 1))
    BY DEF Map!MapAssumption, Map!W, Map!H
  <2>2. c[1] \in 0..(WORLD_WIDTH - 1) /\ c[2] \in 0..(WORLD_HEIGHT - 1)
    BY <2>1
  <2> QED
    BY <2>2, CellInMemory DEF Map!Index, Map!Memory, Map!W, Map!H
<1>3. PICK at \in Map!InitNPC :
        m_pos = [o \in Map!Objects |-> IF o \in Monsters THEN at[o] ELSE Map!Nowhere]
  BY DEF Map!Init
<1>4. m_pos \in [Map!Objects -> Points]
  <2> SUFFICES ASSUME NEW o \in Map!Objects
               PROVE  (IF o \in Monsters THEN at[o] ELSE Map!Nowhere) \in Points
    BY <1>3
  <2>1. CASE o \in Monsters
    <3>1. at[o] \in (0..WORLD_WIDTH) \X (0..WORLD_HEIGHT)
      BY <2>1 DEF Map!InitNPC, Map!W, Map!H
    <3> QED
      BY <2>1, <3>1 DEF Points
  <2>2. CASE o \notin Monsters
    BY <2>2 DEF Map!Nowhere, Points
  <2> QED
    BY <2>1, <2>2
<1>5. MapType
  BY <1>2, <1>4 DEF Map!Init, Map!MakeNewMap, Map!MV_UP, MapType
<1>6. ReadInv
  BY <1>4 DEF Map!Init, ReadInv
<1>7. Map!MarksAndWalls
  BY <1>2 DEF Map!Init, Map!MakeNewMap, Map!MarksAndWalls, Map!MarksAreNear,
       Map!WallsStandUntilStoodOn, Map!eBLANK, Map!eBLOCKED, Map!ePLAYER
<1> QED
  BY <1>5, <1>6, <1>7 DEF MoveInv

(* Where no cell is written, marks and walls stay as they are.             *)
LEMMA MarksKept ==
    ASSUME Map!MarksAndWalls, data' = data, walls' = walls,
           \A o \in Map!Objects : been[o] \subseteq been'[o]
    PROVE  Map!MarksAndWalls'
<1>1. \A o \in Map!Objects : Map!Taken(o) \subseteq Map!Taken(o)'
  BY DEF Map!Taken
<1> QED
  BY <1>1 DEF Map!MarksAndWalls, Map!MarksAreNear, Map!WallsStandUntilStoodOn

(* The step of a move: it blanks and marks where the object was, or what   *)
(* is ahead of it if that was blank.                                       *)
LEMMA MarkStep ==
    ASSUME Map!MapAssumption, MoveInv, NEW o \in Map!Objects, Map!Mark(o)
    PROVE  MoveInv'
<1> DEFINE x == px[o]
           y == py[o]
           H == WORLD_HEIGHT
           ahead == Map!Ahead(x, y, dir[o])
<1>1. H \in Nat
  BY DEF Map!MapAssumption, Map!H
<1>2. PICK p \in been[o], q \in been[o] : x = p[1] /\ y = q[2]
  BY DEF MoveInv, ReadInv, Map!Mark
<1>3. x \in Int /\ y \in Int
  BY <1>2 DEF MoveInv, ReadInv, Points
<1>4. x * H + y \in Map!Taken(o) /\ Map!Index(x, y) = x * H + y
  BY <1>2 DEF Map!Taken, Map!Index, Map!H
<1>5. ahead \in {<<x, y - 1>>, <<x, y + 1>>, <<x - 1, y>>, <<x + 1, y>>}
  BY DEF Map!Ahead, Map!MV_UP, Map!MV_DOWN, Map!MV_LEFT, Map!MV_RIGHT, MoveInv, MapType
<1>6. /\ Map!Index(ahead[1], ahead[2]) - (x * H + y) \in {1, -1, H, -H}
      /\ Map!Index(x, y) - (x * H + y) = 0
  BY <1>1, <1>3, <1>5, AheadIsNear DEF Map!Index, Map!H
<1>7. Map!MayStep(x, y, dir[o]) => Map!IsBlank(ahead[1], ahead[2])
  BY DEF Map!MayStep, Map!Ahead, Map!MV_UP, Map!MV_DOWN, Map!MV_LEFT, Map!MV_RIGHT
<1>8. PICK to :
        /\ data' = Map!setData(Map!setData(data, x, y, Map!eBLANK), to[1], to[2], Map!ePLAYER)
        /\ to = <<x, y>> \/ (to = ahead /\ Map!IsBlank(ahead[1], ahead[2]))
  BY <1>7 DEF Map!Mark
<1> HIDE DEF ahead, x, y
<1>9. /\ m_pos' = m_pos /\ been' = been /\ walls' = walls
      /\ pc' = [pc EXCEPT ![o] = "idle"]
      /\ px' = [px EXCEPT ![o] = -1] /\ py' = [py EXCEPT ![o] = -1]
      /\ dir' = [dir EXCEPT ![o] = 0]
  BY DEF Map!Mark, Map!MV_UP
<1>10. MapType'
  BY <1>8, <1>9 DEF MoveInv, MapType, Map!setData
<1>11. ReadInv'
  BY <1>9 DEF MoveInv, MapType, ReadInv
<1>12. \A i \in Map!Memory :
          data'[i] = IF i = Map!Index(to[1], to[2]) THEN Map!ePLAYER
                     ELSE IF i = Map!Index(x, y) THEN Map!eBLANK ELSE data[i]
  BY <1>8 DEF Map!setData
<1>13. \A r \in Map!Objects : Map!Taken(r)' = Map!Taken(r)
  BY <1>9 DEF Map!Taken
<1>14. Map!MarksAreNear'
  <2> SUFFICES ASSUME NEW i \in Map!Memory, data'[i] = Map!ePLAYER
               PROVE  \E r \in Map!Objects : \E t \in Map!Taken(r) :
                         i - t \in {0, 1, -1, H, -H}
    BY <1>13 DEF Map!MarksAreNear, Map!H
  <2>1. CASE i = Map!Index(to[1], to[2])
    <3>1. i = Map!Index(x, y) \/ i = Map!Index(ahead[1], ahead[2])
      BY <1>8, <2>1
    <3>2. i - (x * H + y) \in {0, 1, -1, H, -H}
      BY <1>6, <3>1
    <3> QED
      BY <1>4, <3>2
  <2>2. CASE i # Map!Index(to[1], to[2])
    <3>1. data[i] = Map!ePLAYER
      BY <1>12, <2>2 DEF Map!eBLANK, Map!ePLAYER
    <3> QED
      BY <3>1 DEF MoveInv, Map!MarksAndWalls, Map!MarksAreNear, Map!H
  <2> QED
    BY <2>1, <2>2
<1>15. Map!WallsStandUntilStoodOn'
  <2> SUFFICES ASSUME NEW i \in walls, data'[i] # Map!eBLOCKED
               PROVE  \E r \in Map!Objects : i \in Map!Taken(r)
    BY <1>9, <1>13 DEF Map!WallsStandUntilStoodOn
  <2>1. i \in Map!Memory
    BY DEF MoveInv, MapType
  <2>2. CASE i = Map!Index(x, y)
    BY <1>4, <2>2
  <2>3. CASE i # Map!Index(x, y)
    <3>1. data[i] # Map!eBLOCKED
      BY <1>8, <1>12, <2>1, <2>3 DEF Map!IsBlank, Map!eBLANK, Map!eBLOCKED
    <3> QED
      BY <3>1 DEF MoveInv, Map!MarksAndWalls, Map!WallsStandUntilStoodOn
  <2> QED
    BY <2>2, <2>3
<1> QED
  BY <1>10, <1>11, <1>14, <1>15 DEF MoveInv, Map!MarksAndWalls

LEMMA MoveStep == ASSUME Map!MapAssumption, MoveInv, [Map!Next]_Map!vars PROVE MoveInv'
<1>1. ASSUME NEW c \in Avatars, Map!Place(c) PROVE MoveInv'
  <2>1. PICK pt \in Starts \cup {Map!Nowhere} :
          /\ m_pos' = [m_pos EXCEPT ![c] = pt]
          /\ been' = [been EXCEPT ![c] = @ \cup {pt}]
    BY <1>1 DEF Map!Place
  <2>2. /\ data' = data /\ px' = px /\ py' = py /\ pc' = pc /\ dir' = dir
        /\ walls' = walls /\ c \in Map!Objects
    BY <1>1 DEF Map!Place, Map!Objects
  <2>3. pt \in Points
    BY DEF Map!Nowhere, Map!MapAssumption, Points
  <2>4. MapType'
    BY <2>1, <2>2, <2>3 DEF MoveInv, MapType
  <2>5. \A o \in Map!Objects : been[o] \subseteq been'[o]
    BY <2>1, <2>2 DEF MoveInv, MapType
  <2>6. ReadInv'
    <3> SUFFICES ASSUME NEW o \in Map!Objects
                 PROVE  /\ m_pos'[o] \in been'[o] /\ been'[o] \subseteq Points
                        /\ pc[o] \in {"y", "lock"} => \E p \in been'[o] : px[o] = p[1]
                        /\ pc[o] = "lock" => \E q \in been'[o] : py[o] = q[2]
      BY <2>2 DEF ReadInv
    <3> QED
      BY <2>1, <2>2, <2>3, <2>5 DEF MoveInv, MapType, ReadInv
  <2> QED
    BY <2>2, <2>4, <2>5, <2>6, MarksKept DEF MoveInv
<1>2. ASSUME NEW o \in Map!Objects, NEW d \in Dirs, Map!Begin(o, d) PROVE MoveInv'
  <2>1. /\ dir' = [dir EXCEPT ![o] = d] /\ pc' = [pc EXCEPT ![o] = "x"]
        /\ data' = data /\ m_pos' = m_pos /\ px' = px /\ py' = py /\ been' = been
        /\ walls' = walls
    BY <1>2 DEF Map!Begin
  <2>2. d \in 0..3
    BY DEF Map!MapAssumption
  <2>3. MapType' /\ ReadInv'
    BY <2>1, <2>2 DEF MoveInv, MapType, ReadInv
  <2> QED
    BY <2>1, <2>3, MarksKept DEF MoveInv
<1>3. ASSUME NEW o \in Map!Objects, Map!ReadX(o) PROVE MoveInv'
  <2>1. /\ px' = [px EXCEPT ![o] = m_pos[o][1]] /\ pc' = [pc EXCEPT ![o] = "y"]
        /\ data' = data /\ m_pos' = m_pos /\ dir' = dir /\ py' = py /\ been' = been
        /\ walls' = walls
    BY <1>3 DEF Map!ReadX
  <2>2. MapType' /\ ReadInv'
    BY <2>1 DEF MoveInv, MapType, ReadInv
  <2> QED
    BY <2>1, <2>2, MarksKept DEF MoveInv
<1>4. ASSUME NEW o \in Map!Objects, Map!ReadY(o) PROVE MoveInv'
  <2>1. /\ py' = [py EXCEPT ![o] = m_pos[o][2]] /\ pc' = [pc EXCEPT ![o] = "lock"]
        /\ data' = data /\ m_pos' = m_pos /\ dir' = dir /\ px' = px /\ been' = been
        /\ walls' = walls /\ pc[o] = "y"
    BY <1>4 DEF Map!ReadY
  <2>2. MapType' /\ ReadInv'
    BY <2>1 DEF MoveInv, MapType, ReadInv
  <2> QED
    BY <2>1, <2>2, MarksKept DEF MoveInv
<1>5. ASSUME NEW o \in Map!Objects, Map!Mark(o) PROVE MoveInv'
  BY <1>5, MarkStep
<1>6. CASE UNCHANGED Map!vars
  <2>1. MapType' /\ ReadInv'
    BY <1>6 DEF Map!vars, MoveInv, MapType, ReadInv
  <2>2. data' = data /\ walls' = walls /\ been' = been
    BY <1>6 DEF Map!vars
  <2> QED
    BY <2>1, <2>2, MarksKept DEF MoveInv
<1> QED
  BY <1>1, <1>2, <1>3, <1>4, <1>5, <1>6 DEF Map!Next, Map!Move

(* On every map, with any number of clients and NPCs: a mark lies where an *)
(* object was or one step from there in memory, and a wall is lost only    *)
(* where an object stood on it to begin with.                              *)
THEOREM MarksStayNear ==
    ASSUME Map!MapAssumption
    PROVE  Map!Spec => []Map!MarksAndWalls
<1>1. Map!Init => MoveInv
  BY MoveInit
<1>2. MoveInv /\ [Map!Next]_Map!vars => MoveInv'
  BY MoveStep
<1>3. MoveInv => Map!MarksAndWalls
  BY DEF MoveInv
<1> QED
  BY <1>1, <1>2, <1>3, PTL DEF Map!Spec

(***************************************************************************)
(* MapMove, the types: m_pos is a start, nowhere or on the map, its edge   *)
(* included, and the memory holds nothing but the three values.            *)
(***************************************************************************)
LEMMA MapTypesInit == ASSUME Map!MapAssumption, Map!Init PROVE Map!TypeOK
<1>1. walls \subseteq Map!Memory
  BY MoveInit DEF MoveInv, MapType
<1>2. PICK at \in Map!InitNPC :
        m_pos = [o \in Map!Objects |-> IF o \in Monsters THEN at[o] ELSE Map!Nowhere]
  BY DEF Map!Init
<1>3. m_pos \in [Map!Objects -> Starts \cup {Map!Nowhere} \cup ((0..Map!W) \X (0..Map!H))]
  BY <1>2 DEF Map!InitNPC
<1>4. data \in [Map!Memory -> {Map!eBLANK, Map!eBLOCKED, Map!ePLAYER}]
  BY DEF Map!Init, Map!MakeNewMap
<1> QED
  BY <1>1, <1>3, <1>4 DEF Map!Init, Map!TypeOK

LEMMA MapTypesStep ==
    ASSUME Map!MapAssumption, Map!TypeOK, Map!Next
    PROVE  Map!TypeOK'
<1> USE DEF Map!TypeOK
<1>1. ASSUME NEW c \in Avatars, Map!Place(c) PROVE Map!TypeOK'
  BY ZenonT(60), <1>1 DEF Map!Place
<1>2. ASSUME NEW o \in Map!Objects, NEW d \in Dirs, Map!Begin(o, d) PROVE Map!TypeOK'
  BY <1>2 DEF Map!Begin
<1>3. ASSUME NEW o \in Map!Objects PROVE m_pos[o][1] \in Int /\ m_pos[o][2] \in Int
  <2>1. m_pos[o] \in Starts \cup {Map!Nowhere} \cup ((0..Map!W) \X (0..Map!H))
    OBVIOUS
  <2>2. Starts \subseteq Int \X Int
    BY DEF Map!MapAssumption
  <2> QED
    BY <2>1, <2>2 DEF Map!Nowhere
<1>4. ASSUME NEW o \in Map!Objects, Map!ReadX(o) PROVE Map!TypeOK'
  BY <1>3, <1>4 DEF Map!ReadX
<1>5. ASSUME NEW o \in Map!Objects, Map!ReadY(o) PROVE Map!TypeOK'
  BY <1>3, <1>5 DEF Map!ReadY
<1>6. ASSUME NEW o \in Map!Objects, Map!Mark(o) PROVE Map!TypeOK'
  <2>1. PICK to : data' = Map!setData(Map!setData(data, px[o], py[o], Map!eBLANK),
                                      to[1], to[2], Map!ePLAYER)
    BY <1>6 DEF Map!Mark
  <2>2. data' \in [Map!Memory -> {Map!eBLANK, Map!eBLOCKED, Map!ePLAYER}]
    BY <2>1 DEF Map!setData
  <2>3. /\ pc' = [pc EXCEPT ![o] = "idle"] /\ dir' = [dir EXCEPT ![o] = Map!MV_UP]
        /\ px' = [px EXCEPT ![o] = -1] /\ py' = [py EXCEPT ![o] = -1]
        /\ UNCHANGED <<m_pos, walls>>
    BY <1>6 DEF Map!Mark
  <2> QED
    BY <2>2, <2>3
<1> QED
  BY <1>1, <1>2, <1>4, <1>5, <1>6 DEF Map!Next, Map!Move, Map!Objects

-----------------------------------------------------------------------------
(***************************************************************************)
(* Combat. ExpBelowNext speaks of the avatars whose last reward came to    *)
(* its end calmly. FightInv adds what that end depends on: until a login   *)
(* disturbs it, what the comparison has read is what there is, and from    *)
(* the reset on a level up finds no experience, which is below what any    *)
(* level asks for.                                                         *)
(***************************************************************************)

(* Every set of natural numbers has a least one: what stands in for        *)
(* induction below.                                                        *)
LEMMA Least ==
    ASSUME NEW S \in SUBSET Nat, S # {}
    PROVE  \E n \in S : \A m \in S : n <= m
<1> DEFINE R == OpToRel(<, Nat)
<1>1. \A x, y \in Nat : y < x => <<y, x>> \in R
  BY DEF OpToRel
<1>2. IsWellFoundedOn(R, Nat)
  BY NatLessThanWellFounded
<1> HIDE DEF R
<1>3. PICK x \in S : \A y \in S : ~ (<<y, x>> \in R)
  BY <1>2, WFMin
<1>4. ASSUME NEW y \in S PROVE x <= y
  <2>1. x \in Nat /\ y \in Nat /\ ~(y < x)
    BY <1>1, <1>3
  <2> QED
    BY <2>1
<1> QED
  BY <1>4

(* The definition of the powers of two, which the provers do not have.     *)
PowersOfTwo == 2 ^ 0 = 1 /\ \A n \in Nat : 2 ^ (n + 1) = 2 * 2 ^ n

LEMMA PowerPositive ==
    ASSUME PowersOfTwo
    PROVE  \A n \in Nat : 2 ^ n \in Nat /\ 2 ^ n > 0
<1> DEFINE Wrong == {n \in Nat : ~(2 ^ n \in Nat /\ 2 ^ n > 0)}
<1> SUFFICES ASSUME Wrong # {} PROVE FALSE
  OBVIOUS
<1>1. PICK n \in Wrong : \A m \in Wrong : n <= m
  BY Least
<1>2. n # 0
  <2> SUFFICES 0 \notin Wrong
    BY <1>1
  <2>1. 2 ^ 0 = 1
    BY DEF PowersOfTwo
  <2>2. 1 \in Nat /\ 1 > 0
    OBVIOUS
  <2>3. 2 ^ 0 \in Nat /\ 2 ^ 0 > 0
    BY <2>1, <2>2, Zenon
  <2> QED
    BY <2>3, Zenon
<1>3. n - 1 \in Nat /\ n - 1 \notin Wrong /\ n = (n - 1) + 1
  BY <1>1, <1>2
<1>4. 2 ^ (n - 1) \in Nat /\ 2 ^ (n - 1) > 0
  BY <1>3
<1>5. 2 ^ n = 2 * 2 ^ (n - 1)
  BY <1>3 DEF PowersOfTwo
<1> QED
  BY <1>1, <1>4, <1>5

(* Who has no experience is below what any level asks for.                 *)
LEMMA NothingReaches ==
    ASSUME PowersOfTwo, NEW l \in Int
    PROVE  ~Fight!Reaches(0, l)
<1>1. CASE l >= 1
  <2>1. l - 1 \in Nat
    BY <1>1
  <2>2. 2 ^ (l - 1) \in Nat /\ 2 ^ (l - 1) > 0
    BY <2>1, PowerPositive
  <2> DEFINE p == 2 ^ (l - 1)
  <2>3. p \in Nat /\ p > 0
    BY <2>2
  <2>4. Fight!Reaches(0, l) <=> 0 >= 100 * p
    BY <1>1 DEF Fight!Reaches
  <2> HIDE DEF p
  <2> QED
    BY <2>3, <2>4
<1>2. CASE ~(l >= 1)
  <2>1. 1 - l \in Nat
    BY <1>2
  <2>2. 2 ^ (1 - l) \in Nat
    BY <2>1, PowerPositive
  <2> DEFINE p == 2 ^ (1 - l)
  <2>3. p \in Nat
    BY <2>2
  <2>4. Fight!Reaches(0, l) <=> 0 * p >= 100
    BY <1>2 DEF Fight!Reaches
  <2> HIDE DEF p
  <2> QED
    BY <2>3, <2>4
<1> QED
  BY <1>1, <1>2

FightTypes ==
    /\ Fight!TypeOK
    /\ \A c \in Avatars : login[c] = Fight!Idle \/ login[c].row \in AvatarRows

(* The attacker's reward is under way, from the experience on.             *)
Rewarding == {"Compare", "ExpRead", "LevelRead", "LevelExp", "LevelHp", "LevelUpRead",
              "LevelUp"}

FightInv ==
    /\ FightTypes
    /\ calm /\ pc = "ExpRead" => exp = m_exp[attacker]
    /\ calm /\ pc = "LevelRead" => level = m_level[attacker]
    /\ calm /\ pc \in {"LevelHp", "LevelUpRead", "LevelUp"} => m_exp[attacker] = 0
    /\ pc \in Rewarding => attacker \notin settled
    /\ Fight!ExpBelowNext

LEMMA FightTypesInit == ASSUME Fight!CombatAssumption, Fight!Init PROVE FightTypes
<1>1. PICK r \in [Avatars -> AvatarRows] :
        /\ m_hp = [o \in Fight!Objects |-> IF o \in Monsters THEN 100 ELSE r[o].hp]
        /\ m_level = [o \in Fight!Objects |-> IF o \in Monsters THEN 1 ELSE r[o].level]
        /\ m_exp = [o \in Fight!Objects |-> IF o \in Monsters THEN 0 ELSE r[o].exp]
  BY DEF Fight!Init
<1>2. \A o \in Fight!Objects : o \in Monsters \/ (o \in Avatars /\ r[o] \in AvatarRows)
  BY DEF Fight!Objects
<1>3. AvatarRows \subseteq [level : Int, hp : Int, exp : Int]
  BY DEF Fight!CombatAssumption
<1>4. /\ m_hp \in [Fight!Objects -> Int] /\ m_level \in [Fight!Objects -> Int]
      /\ m_exp \in [Fight!Objects -> Int]
  BY <1>1, <1>2, <1>3
<1> QED
  BY <1>4 DEF Fight!Init, FightTypes, Fight!TypeOK, Fight!Objects

LEMMA FightTypesStep ==
    ASSUME Fight!CombatAssumption, FightTypes, Fight!Next
    PROVE  FightTypes'
<1> AvatarRows \subseteq [level : Int, hp : Int, exp : Int]
  BY DEF Fight!CombatAssumption
<1> \A c \in Avatars : c \in Fight!Objects
  BY DEF Fight!Objects
<1> \A n \in Monsters : n \in Fight!Objects
  BY DEF Fight!Objects
<1> Fight!Idle.next = "Idle"
  BY DEF Fight!Idle
<1> USE DEF FightTypes, Fight!TypeOK, Fight!stats, Fight!flags, Fight!walk, Fight!reads,
            Fight!history
<1>1. ASSUME NEW n \in Monsters, Fight!Wake(n) PROVE FightTypes'
  BY <1>1 DEF Fight!Wake
<1>2. ASSUME NEW c \in Avatars, Fight!LoginBegin(c) PROVE FightTypes'
  BY <1>2 DEF Fight!LoginBegin
<1>3. ASSUME NEW c \in Avatars, NEW s, Fight!Set(c, s), s # "Idle"
      PROVE  /\ login[c].row \in AvatarRows
             /\ \A d \in Avatars : login'[d] = Fight!Idle \/ login'[d].row \in AvatarRows
  BY <1>3 DEF Fight!Set
<1>4. ASSUME NEW c \in Avatars, Fight!SetLevel(c) PROVE FightTypes'
  <2>1. /\ login[c].row \in AvatarRows
        /\ \A d \in Avatars : login'[d] = Fight!Idle \/ login'[d].row \in AvatarRows
    BY <1>3, <1>4 DEF Fight!SetLevel
  <2> QED
    BY <1>4, <2>1 DEF Fight!SetLevel, Fight!Set, Fight!Disturb
<1>5. ASSUME NEW c \in Avatars, Fight!SetHp(c) PROVE FightTypes'
  <2>1. /\ login[c].row \in AvatarRows
        /\ \A d \in Avatars : login'[d] = Fight!Idle \/ login'[d].row \in AvatarRows
    BY <1>3, <1>5 DEF Fight!SetHp
  <2> QED
    BY <1>5, <2>1 DEF Fight!SetHp, Fight!Set
<1>6. ASSUME NEW c \in Avatars, Fight!SetExp(c) PROVE FightTypes'
  <2>1. /\ login[c].row \in AvatarRows
        /\ \A d \in Avatars : login'[d] = Fight!Idle \/ login'[d].row \in AvatarRows
    BY <1>3, <1>6 DEF Fight!SetExp
  <2> QED
    BY <1>6, <2>1 DEF Fight!SetExp, Fight!Set, Fight!Disturb
<1>7. ASSUME NEW c \in Avatars, Fight!Attack(c) PROVE FightTypes'
  BY <1>7 DEF Fight!Attack
<1>8. CASE Fight!Hit
  <2>1. m_level[attacker] \in Int /\ m_hp[attacker] \in Int
    OBVIOUS
  <2>2. m_hp[attacker] - m_level[attacker] * 2 \in Int
    BY <2>1
  <2> QED
    BY <1>8, <2>2 DEF Fight!Hit
<1>9. CASE Fight!Reward
  <2>1. m_level[npc] \in Int
    OBVIOUS
  <2>2. exp + m_level[npc] * m_level[npc] * 2 \in Int
    BY <2>1
  <2> QED
    BY <1>9, <2>2 DEF Fight!Reward
<1>10. CASE Fight!LevelUp
  <2>1. level + 1 \in Int
    OBVIOUS
  <2> QED
    BY <1>10, <2>1 DEF Fight!LevelUp, Fight!Settle
<1>11. CASE Fight!LevelExp \/ Fight!LevelHp \/ Fight!LevelUpRead
  BY <1>11 DEF Fight!LevelExp, Fight!LevelHp, Fight!LevelUpRead
<1>12. CASE Fight!AttackEnd \/ Fight!Survives \/ Fight!RewardRead \/ Fight!CompareRead
  BY <1>12 DEF Fight!AttackEnd, Fight!Survives, Fight!RewardRead, Fight!CompareRead
<1>13. CASE Fight!Compare
  BY <1>13 DEF Fight!Compare, Fight!Settle
<1>14. CASE Fight!Die
  BY <1>14 DEF Fight!Die
<1> QED
  BY <1>1, <1>2, <1>4, <1>5, <1>6, <1>7, <1>8, <1>9, <1>10, <1>11, <1>12, <1>13, <1>14
  DEF Fight!Next, Fight!Login, Fight!Update

LEMMA FightStep ==
    ASSUME PowersOfTwo, Fight!CombatAssumption, FightInv, Fight!Next
    PROVE  FightInv'
<1>0. FightTypes /\ FightTypes'
  BY FightTypesStep DEF FightInv
<1>a. /\ m_level \in [Fight!Objects -> Int] /\ m_exp \in [Fight!Objects -> Int]
      /\ attacker \in Fight!Objects /\ attacker \in Avatars /\ level \in Int
      /\ settled \subseteq Fight!Objects /\ settled' \subseteq Fight!Objects
  BY <1>0 DEF FightTypes, Fight!TypeOK, Fight!Objects
<1> HIDE DEF PowersOfTwo
(* Nothing changes but what no part of the invariant speaks of, or pc.     *)
<1>1. ASSUME UNCHANGED <<m_exp, m_level, exp, level, settled, calm, attacker>>,
             \/ pc' = pc \/ pc' \notin Rewarding
             \/ pc = "LevelHp" /\ pc' = "LevelUpRead"
      PROVE  FightInv'
  <2>1. Fight!ExpBelowNext'
    BY <1>1 DEF FightInv, Fight!ExpBelowNext, Fight!Reaches
  <2> QED
    BY <1>0, <1>1, <2>1 DEF FightInv, Rewarding
<1>2. ASSUME NEW n \in Monsters, Fight!Wake(n) PROVE FightInv'
  BY <1>1, <1>2 DEF Fight!Wake, Fight!stats, Fight!walk, Fight!reads, Fight!history
<1>3. ASSUME NEW c \in Avatars, Fight!LoginBegin(c) \/ Fight!SetHp(c) PROVE FightInv'
  BY <1>1, <1>3 DEF Fight!LoginBegin, Fight!SetHp, Fight!Set, Fight!stats, Fight!walk,
     Fight!reads, Fight!history
<1>4. ASSUME NEW c \in Avatars, Fight!Disturb(c), UNCHANGED <<exp, level, attacker, pc>>,
             \A d \in Fight!Objects : d # c => m_exp'[d] = m_exp[d] /\ m_level'[d] = m_level[d]
      PROVE  FightInv'
  <2>1. Fight!ExpBelowNext'
    BY <1>a, <1>4 DEF FightInv, Fight!ExpBelowNext, Fight!Reaches, Fight!Disturb
  <2>2. calm' => calm /\ m_exp'[attacker] = m_exp[attacker]
                 /\ m_level'[attacker] = m_level[attacker]
    BY <1>a, <1>4 DEF Fight!Disturb
  <2>3. attacker \notin settled => attacker \notin settled'
    BY <1>4 DEF Fight!Disturb
  <2> QED
    BY <1>0, <1>4, <2>1, <2>2, <2>3 DEF FightInv
<1>5. ASSUME NEW c \in Avatars, Fight!SetLevel(c) PROVE FightInv'
  BY <1>4, <1>5, <1>a DEF Fight!SetLevel, Fight!Set, Fight!walk, Fight!reads
<1>6. ASSUME NEW c \in Avatars, Fight!SetExp(c) PROVE FightInv'
  BY <1>4, <1>6, <1>a DEF Fight!SetExp, Fight!Set, Fight!walk, Fight!reads
<1>7. ASSUME NEW c \in Avatars, Fight!Attack(c) PROVE FightInv'
  <2>1. /\ pc' = "Loop" /\ UNCHANGED <<m_exp, m_level, settled, calm>>
    BY <1>7 DEF Fight!Attack, Fight!stats, Fight!history
  <2>2. Fight!ExpBelowNext'
    BY <2>1 DEF FightInv, Fight!ExpBelowNext, Fight!Reaches
  <2> QED
    BY <1>0, <2>1, <2>2 DEF FightInv, Rewarding
<1>8. CASE Fight!Hit \/ Fight!AttackEnd \/ Fight!Survives \/ Fight!Die \/ Fight!LevelHp
  BY <1>1, <1>8 DEF Fight!Hit, Fight!AttackEnd, Fight!Survives, Fight!Die, Fight!LevelHp,
     Fight!stats, Fight!walk, Fight!reads, Fight!history, Rewarding
<1>9. CASE Fight!RewardRead
  <2>1. /\ pc' \notin Rewarding /\ UNCHANGED <<m_exp, m_level, settled, calm>>
    BY <1>9 DEF Fight!RewardRead, Fight!stats, Fight!history, Rewarding
  <2>2. Fight!ExpBelowNext'
    BY <2>1 DEF FightInv, Fight!ExpBelowNext, Fight!Reaches
  <2> QED
    BY <1>0, <2>1, <2>2 DEF FightInv, Rewarding
<1>10. CASE Fight!Reward
  <2>1. /\ pc' = "Compare" /\ settled' = settled \ {attacker} /\ UNCHANGED <<m_level, attacker>>
        /\ \A d \in Fight!Objects : d # attacker => m_exp'[d] = m_exp[d]
    BY <1>a, <1>10 DEF Fight!Reward, Fight!flags, Fight!walk, Fight!reads
  <2>2. Fight!ExpBelowNext'
    BY <1>a, <2>1 DEF FightInv, Fight!ExpBelowNext, Fight!Reaches
  <2> QED
    BY <1>0, <2>1, <2>2 DEF FightInv
<1>11. CASE Fight!CompareRead
  <2>1. /\ pc = "Compare" /\ UNCHANGED <<m_exp, m_level, attacker, settled>>
        /\ \/ pc' = "ExpRead" /\ exp' = m_exp[attacker]
           \/ pc' = "LevelRead" /\ level' = m_level[attacker]
    BY <1>11 DEF Fight!CompareRead, Fight!stats, Fight!walk
  <2>2. Fight!ExpBelowNext'
    BY <2>1 DEF FightInv, Fight!ExpBelowNext, Fight!Reaches
  <2> QED
    BY <1>0, <2>1, <2>2 DEF FightInv, Rewarding
<1>12. CASE Fight!Compare
  <2>1. /\ pc \in {"ExpRead", "LevelRead"} /\ UNCHANGED <<m_exp, m_level, attacker, calm>>
        /\ pc = "ExpRead" => level' = m_level[attacker] /\ exp' = exp
        /\ pc = "LevelRead" => exp' = m_exp[attacker] /\ level' = level
        /\ \/ pc' = "LevelExp" /\ settled' = settled
           \/ ~Fight!Reaches(exp', level') /\ pc' = "Die" /\ Fight!Settle
    BY <1>12 DEF Fight!Compare, Fight!stats, Fight!walk
  <2>2. calm => exp' = m_exp[attacker] /\ level' = m_level[attacker]
    BY <2>1 DEF FightInv
  <2>3. attacker \notin settled
    BY <2>1 DEF FightInv, Rewarding
  <2>4. Fight!ExpBelowNext'
    BY <2>1, <2>2 DEF FightInv, Fight!ExpBelowNext, Fight!Settle, Fight!Reaches
  <2> QED
    BY <1>0, <2>1, <2>3, <2>4 DEF FightInv, Rewarding
<1>13. CASE Fight!LevelExp
  <2>1. /\ pc = "LevelExp" /\ pc' = "LevelHp" /\ UNCHANGED <<m_level, attacker, settled>>
        /\ m_exp'[attacker] = 0
        /\ \A d \in Fight!Objects : d # attacker => m_exp'[d] = m_exp[d]
    BY <1>a, <1>13 DEF Fight!LevelExp, Fight!walk, Fight!history
  <2>2. attacker \notin settled
    BY <2>1 DEF FightInv, Rewarding
  <2>3. Fight!ExpBelowNext'
    BY <1>a, <2>1, <2>2 DEF FightInv, Fight!ExpBelowNext, Fight!Reaches
  <2> QED
    BY <1>0, <2>1, <2>2, <2>3 DEF FightInv
<1>14. CASE Fight!LevelUpRead
  <2>1. /\ pc = "LevelUpRead" /\ pc' = "LevelUp"
        /\ UNCHANGED <<m_exp, m_level, attacker, settled, calm>>
    BY <1>14 DEF Fight!LevelUpRead, Fight!stats, Fight!walk, Fight!history
  <2>2. Fight!ExpBelowNext'
    BY <2>1 DEF FightInv, Fight!ExpBelowNext, Fight!Reaches
  <2> QED
    BY <1>0, <2>1, <2>2 DEF FightInv, Rewarding
<1>15. CASE Fight!LevelUp
  <2>1. /\ pc = "LevelUp" /\ pc' = "Die" /\ UNCHANGED <<m_exp, attacker, calm>> /\ Fight!Settle
        /\ m_level'[attacker] = level + 1 /\ level + 1 \in Int
        /\ \A d \in Fight!Objects : d # attacker => m_level'[d] = m_level[d]
    BY <1>a, <1>15 DEF Fight!LevelUp, Fight!walk
  <2>2. attacker \notin settled
    BY <2>1 DEF FightInv, Rewarding
  <2>3. calm => m_exp[attacker] = 0
    BY <2>1 DEF FightInv
  <2>4. ~Fight!Reaches(0, level + 1)
    BY <2>1, NothingReaches
  <2>5. \A e, l : Fight!Reaches(e, l)' <=> Fight!Reaches(e, l)
    BY DEF Fight!Reaches
  <2>6. \A c \in settled : ~Fight!Reaches(m_exp'[c], m_level'[c])
    BY <1>a, <2>1, <2>2 DEF FightInv, Fight!ExpBelowNext
  <2>7. calm => ~Fight!Reaches(m_exp'[attacker], m_level'[attacker])
    BY <2>1, <2>3, <2>4
  <2>8. Fight!ExpBelowNext'
    BY <2>1, <2>6, <2>7 DEF Fight!ExpBelowNext, Fight!Settle, Fight!Reaches
  <2> QED
    BY <1>0, <2>1, <2>8 DEF FightInv, Rewarding
<1> QED
  BY <1>2, <1>3, <1>5, <1>6, <1>7, <1>8, <1>9, <1>10, <1>11, <1>12, <1>13, <1>14, <1>15
  DEF Fight!Next, Fight!Login, Fight!Update

LEMMA FightStand ==
    ASSUME FightTypes, UNCHANGED Fight!vars
    PROVE  FightTypes'
  BY DEF Fight!vars, FightTypes, Fight!TypeOK

LEMMA FightBegin == ASSUME Fight!CombatAssumption, Fight!Init PROVE FightInv
  BY FightTypesInit, SMT DEF FightInv, Fight!Init, Fight!ExpBelowNext, Rewarding

LEMMA FightGoesOn ==
    ASSUME PowersOfTwo, Fight!CombatAssumption, FightInv, [Fight!Next]_Fight!vars
    PROVE  FightInv'
<1>1. CASE UNCHANGED Fight!vars
  <2>1. FightTypes'
    BY <1>1, FightStand DEF FightInv
  <2>2. Fight!ExpBelowNext'
    BY <1>1 DEF Fight!vars, FightInv, Fight!ExpBelowNext, Fight!Reaches
  <2> QED
    BY <1>1, <2>1, <2>2 DEF Fight!vars, FightInv, Rewarding
<1> QED
  BY <1>1, FightStep

(* A reward leaves an avatar with less experience than its level asks for, *)
(* however many clients fight and whatever their rows hold, although       *)
(* logins set level and experience in the midst of rewards and level ups.  *)
THEOREM ExpStaysBelow ==
    ASSUME PowersOfTwo, Fight!CombatAssumption
    PROVE  Fight!Spec => []Fight!ExpBelowNext
<1>1. Fight!Init => FightInv
  BY FightBegin
<1>2. FightInv /\ [Fight!Next]_Fight!vars => FightInv'
  BY FightGoesOn
<1>3. FightInv => Fight!ExpBelowNext
  BY DEF FightInv
<1> QED
  BY <1>1, <1>2, <1>3, PTL DEF Fight!Spec

-----------------------------------------------------------------------------
(***************************************************************************)
(* AStar. What is left to do counts the cells not visited, so SearchShrinks*)
(* needs that the map is finite, that the queue is, and that a node in it  *)
(* is about a cell of the map: a cell visited then is one cell less.       *)
(***************************************************************************)
SearchInv ==
    /\ IsFiniteSet(openQ)
    /\ \A node \in openQ : node.cur \in Way!Cells
    /\ Way!Visited \subseteq Way!Cells

(* The module's own Cardinality is the one the theorems are about.         *)
LEMMA WayCardinality == \A S : Way!Cardinality(S) = Cardinality(S)
  BY DEF Way!Cardinality, Cardinality

LEMMA CellsAreFinite == ASSUME Way!AStarAssumption PROVE IsFiniteSet(Way!Cells)
<1>1. 0 \in Int /\ SearchWidth - 1 \in Int /\ SearchHeight - 1 \in Int
  BY DEF Way!AStarAssumption
<1>2. IsFiniteSet(0..(SearchWidth - 1)) /\ IsFiniteSet(0..(SearchHeight - 1))
  BY <1>1, FS_Interval
<1> QED
  BY <1>2, FS_Product DEF Way!Cells

(* A cell has at most four neighbours to go to.                            *)
LEMMA FourNodes ==
    ASSUME NEW c, NEW d
    PROVE  LET nodes == {[cur |-> n, prev |-> c, movingDist |-> d] : n \in Way!Next4(c)}
           IN  /\ IsFiniteSet(nodes) /\ Cardinality(nodes) <= 4
               /\ \A node \in nodes : node.cur \in Way!Cells
<1> DEFINE At(x, y) == [cur |-> <<c[1] + x, c[2] + y>>, prev |-> c, movingDist |-> d]
           nodes == {[cur |-> n, prev |-> c, movingDist |-> d] : n \in Way!Next4(c)}
           one == {At(0, -1)}
           two == one \cup {At(-1, 0)}
           three == two \cup {At(1, 0)}
           four == three \cup {At(0, 1)}
<1>1. nodes \subseteq four
  BY DEF Way!Next4
<1>2. \A node \in nodes : node.cur \in Way!Cells
  BY DEF Way!Next4
<1>3. IsFiniteSet(one) /\ Cardinality(one) = 1
  BY FS_Singleton
<1> HIDE DEF At
<1>4. IsFiniteSet(two) /\ Cardinality(two) \in 1..2
  BY <1>3, FS_AddElement
<1>5. IsFiniteSet(three) /\ Cardinality(three) \in 1..3
  BY <1>4, FS_AddElement
<1>6. IsFiniteSet(four) /\ Cardinality(four) \in 1..4
  BY <1>5, FS_AddElement
<1>7. IsFiniteSet(nodes) /\ Cardinality(nodes) <= Cardinality(four)
  BY <1>1, <1>6, FS_Subset
<1>8. Cardinality(nodes) \in Nat
  BY <1>7, FS_CardinalityType
<1> QED
  BY <1>2, <1>6, <1>7, <1>8

LEMMA SearchBegins == ASSUME Way!AStarAssumption, Way!Init PROVE SearchInv
<1>1. IsFiniteSet(openQ)
  BY FS_Singleton DEF Way!Init
<1> QED
  BY <1>1 DEF Way!Init, SearchInv, Way!Visited

(* A visited cell at the top of the queue is dropped.                      *)
LEMMA SkipShrinks ==
    ASSUME Way!AStarAssumption, SearchInv, NEW node \in openQ, Way!Skip(node)
    PROVE  SearchInv' /\ Way!SearchShrinks
<1> USE DEF Way!Skip, SearchInv
<1>1. /\ IsFiniteSet(openQ') /\ Cardinality(openQ') = Cardinality(openQ) - 1
      /\ Cardinality(openQ) \in Nat
  BY FS_RemoveElement, FS_CardinalityType
<1>2. IsFiniteSet(Way!Cells) /\ IsFiniteSet(Way!Visited)
  BY CellsAreFinite, FS_Subset
<1>3. Cardinality(Way!Cells) \in Nat /\ Cardinality(Way!Visited) \in Nat
  BY <1>2, FS_CardinalityType
<1>4. SearchInv' /\ Way!Visited' = Way!Visited
  BY <1>1 DEF Way!Visited
<1> QED
  BY <1>1, <1>3, <1>4, WayCardinality DEF Way!SearchShrinks

(* One that is not is visited now, and puts at most four into the queue.   *)
LEMMA VisitShrinks ==
    ASSUME Way!AStarAssumption, SearchInv, NEW node \in openQ, Way!Visit(node)
    PROVE  SearchInv' /\ Way!SearchShrinks
<1> DEFINE c == node.cur
           rest == openQ \ {node}
           nodes == {[cur |-> n, prev |-> c, movingDist |-> node.movingDist + 1] :
                       n \in Way!Next4(c)}
<1>1. /\ c \in Way!Cells /\ c \notin Way!Visited
      /\ closeQ' = [n \in Way!Visited \cup {c} |-> IF n = c THEN node.prev ELSE closeQ[n]]
      /\ openQ' = rest \cup (IF c = target THEN {} ELSE nodes)
      /\ pc' = IF c = target THEN "path" ELSE pc
  BY DEF Way!Visit, SearchInv
<1>2. Way!Visited' = Way!Visited \cup {c}
  BY <1>1 DEF Way!Visited
<1>3. IsFiniteSet(Way!Cells) /\ IsFiniteSet(Way!Visited)
  BY CellsAreFinite, FS_Subset DEF SearchInv
<1>4. /\ Cardinality(Way!Cells) \in Nat /\ Cardinality(Way!Visited) \in Nat
      /\ Cardinality(Way!Visited') = Cardinality(Way!Visited) + 1
  BY <1>1, <1>2, <1>3, FS_CardinalityType, FS_AddElement
<1>5. /\ IsFiniteSet(rest) /\ Cardinality(rest) = Cardinality(openQ) - 1
      /\ Cardinality(openQ) \in Nat
  BY FS_RemoveElement, FS_CardinalityType DEF SearchInv
<1>6. /\ IsFiniteSet(nodes) /\ Cardinality(nodes) <= 4
      /\ \A n \in nodes : n.cur \in Way!Cells
  BY FourNodes
<1> HIDE DEF nodes, rest, c
<1>7. /\ IsFiniteSet(rest \cup nodes)
      /\ Cardinality(rest \cup nodes) <= Cardinality(openQ) + 3
  <2>1. /\ IsFiniteSet(rest \cup nodes)
        /\ Cardinality(rest \cup nodes)
             = Cardinality(rest) + Cardinality(nodes) - Cardinality(rest \cap nodes)
    BY <1>5, <1>6, FS_Union
  <2>2. IsFiniteSet(rest \cap nodes)
    BY <1>6, FS_Subset
  <2>3. Cardinality(nodes) \in Nat /\ Cardinality(rest \cap nodes) \in Nat
    BY <1>6, <2>2, FS_CardinalityType
  <2> QED
    BY <1>5, <1>6, <2>1, <2>3
<1>8. Cardinality(rest \cup nodes) \in Nat
  BY <1>7, FS_CardinalityType
<1>9. SearchInv'
  <2>1. IsFiniteSet(openQ')
    BY <1>1, <1>5, <1>7
  <2>2. Way!Visited' \subseteq Way!Cells
    BY <1>1, <1>2 DEF SearchInv
  <2>3. \A n \in openQ' : n.cur \in Way!Cells
    BY <1>1, <1>6 DEF SearchInv, rest
  <2> QED
    BY <2>1, <2>2, <2>3 DEF SearchInv
<1>10. Way!SearchShrinks
  <2>1. SUFFICES ASSUME pc' = "search", c # target
                 PROVE  5 * (Cardinality(Way!Cells) - Cardinality(Way!Visited'))
                            + Cardinality(openQ')
                          < 5 * (Cardinality(Way!Cells) - Cardinality(Way!Visited))
                              + Cardinality(openQ)
    BY <1>1, WayCardinality DEF Way!SearchShrinks
  <2>2. openQ' = rest \cup nodes
    BY <1>1, <2>1
  <2> QED
    BY <1>4, <1>5, <1>7, <1>8, <2>2
<1> QED
  BY <1>9, <1>10

LEMMA SearchStep ==
    ASSUME Way!AStarAssumption, SearchInv, Way!Next
    PROVE  SearchInv' /\ Way!SearchShrinks
<1>1. CASE Way!Search
  BY <1>1, SkipShrinks, VisitShrinks DEF Way!Search
<1>2. CASE Way!GiveUp
  BY <1>2 DEF Way!GiveUp, SearchInv, Way!Visited, Way!SearchShrinks
<1>3. CASE Way!Path
  BY <1>3 DEF Way!Path, Way!Back, SearchInv, Way!Visited, Way!SearchShrinks
<1> QED
  BY <1>1, <1>2, <1>3 DEF Way!Next

(***************************************************************************)
(* AStar, the types. The way back stays among the cells visited, as the    *)
(* cell before a visited one was visited too; and a node is at most as far *)
(* as there are cells visited.                                             *)
(***************************************************************************)
WayBack == target \in Way!Visited /\ (resultPath # <<>> =>
    LET last == resultPath[Len(resultPath)]
    IN  last \in Way!Visited /\ closeQ[last] \in Way!Visited)

SearchTypes ==
    /\ SearchInv
    /\ data \subseteq Way!Cells /\ pos \in Way!Cells /\ target \in Way!Cells
    /\ \A node \in openQ : /\ node.prev \in Way!Visited \cup {Way!None}
                           /\ node.movingDist \in Nat
                           /\ node.movingDist <= Cardinality(Way!Visited)
    /\ DOMAIN moved = Way!Visited
    /\ \A c \in Way!Visited : closeQ[c] \in Way!Visited \cup {Way!None}
    /\ resultPath \in Seq(Way!Cells)
    /\ pc \in {"search", "path", "done"}
    /\ pc = "search" => resultPath = <<>>
    /\ pc = "path" => WayBack

LEMMA SearchTypesInit == ASSUME Way!AStarAssumption, Way!Init PROVE SearchTypes
<1>1. Way!Visited = {} /\ Cardinality(Way!Visited) = 0
  BY FS_EmptySet DEF Way!Init, Way!Visited
<1> QED
  BY <1>1, SearchBegins DEF Way!Init, SearchTypes, Way!Visited

LEMMA VisitTypes ==
    ASSUME Way!AStarAssumption, SearchTypes, pc = "search", NEW node \in openQ, Way!Visit(node)
    PROVE  SearchTypes'
<1> DEFINE c == node.cur
           nodes == {[cur |-> n, prev |-> c, movingDist |-> node.movingDist + 1] :
                       n \in Way!Next4(c)}
<1>1. /\ c \in Way!Cells /\ c \notin Way!Visited
      /\ closeQ' = [n \in Way!Visited \cup {c} |-> IF n = c THEN node.prev ELSE closeQ[n]]
      /\ moved' = [n \in Way!Visited \cup {c} |-> IF n = c THEN node.movingDist ELSE moved[n]]
      /\ openQ' = (openQ \ {node}) \cup (IF c = target THEN {} ELSE nodes)
      /\ pc' = IF c = target THEN "path" ELSE pc
      /\ UNCHANGED <<data, pos, target, resultPath>>
  BY DEF Way!Visit, SearchTypes, SearchInv
<1>2. Way!Visited' = Way!Visited \cup {c}
  BY <1>1 DEF Way!Visited
<1>3. IsFiniteSet(Way!Visited) /\ Cardinality(Way!Visited) \in Nat
  BY CellsAreFinite, FS_Subset, FS_CardinalityType DEF SearchTypes, SearchInv
<1>4. Cardinality(Way!Visited') = Cardinality(Way!Visited) + 1
  BY <1>1, <1>2, <1>3, FS_AddElement
<1>5. SearchInv'
  BY VisitShrinks DEF SearchTypes
<1>6. node.prev \in Way!Visited \cup {Way!None} /\ node.movingDist \in Nat
      /\ node.movingDist <= Cardinality(Way!Visited)
  BY DEF SearchTypes
<1>7. \A n \in nodes : n.prev = c /\ n.movingDist = node.movingDist + 1
  OBVIOUS
<1> HIDE DEF nodes, c
<1>8. \A n \in openQ' : /\ n.prev \in Way!Visited' \cup {Way!None}
                        /\ n.movingDist \in Nat
                        /\ n.movingDist <= Cardinality(Way!Visited')
  <2> SUFFICES ASSUME NEW n \in openQ'
               PROVE  /\ n.prev \in Way!Visited' \cup {Way!None}
                      /\ n.movingDist \in Nat
                      /\ n.movingDist <= Cardinality(Way!Visited')
    OBVIOUS
  <2>1. CASE n \in openQ
    BY <1>2, <1>3, <1>4, <2>1 DEF SearchTypes
  <2>2. CASE n \in nodes
    BY <1>2, <1>3, <1>4, <1>6, <1>7, <2>2
  <2> QED
    BY <1>1, <2>1, <2>2
<1>9. \A n \in Way!Visited' : closeQ'[n] \in Way!Visited' \cup {Way!None}
  BY <1>1, <1>2, <1>6 DEF SearchTypes
<1>10. DOMAIN moved' = Way!Visited'
  BY <1>1, <1>2
<1>11. pc' = "path" => target' \in Way!Visited' /\ (resultPath' = <<>>)
  <2>1. pc' = "path" => c = target
    BY <1>1
  <2> QED
    BY <1>1, <1>2, <2>1 DEF SearchTypes
<1> QED
  BY <1>1, <1>5, <1>8, <1>9, <1>10, <1>11 DEF SearchTypes, WayBack

LEMMA BackTypes ==
    ASSUME SearchTypes, Way!Path
    PROVE  SearchTypes'
<1> DEFINE location == IF resultPath = <<>> THEN target ELSE closeQ[resultPath[Len(resultPath)]]
<1>1. /\ pc = "path"
      /\ resultPath' = Append(resultPath, location)
      /\ pc' = IF closeQ[location] = Way!None THEN "done" ELSE pc
      /\ UNCHANGED <<data, pos, target, openQ, closeQ, moved>>
  BY DEF Way!Path, Way!Back
<1>2. location \in Way!Visited
  BY <1>1 DEF SearchTypes, WayBack
<1>3. Way!Visited' = Way!Visited
  BY <1>1 DEF Way!Visited
<1> HIDE DEF location
<1>4. /\ resultPath \in Seq(Way!Cells) /\ location \in Way!Cells
      /\ closeQ[location] \in Way!Visited \cup {Way!None}
  BY <1>2 DEF SearchTypes, SearchInv
<1>5. resultPath' \in Seq(Way!Cells) /\ resultPath'[Len(resultPath')] = location
  BY <1>1, <1>4
<1>6. pc' = "path" => WayBack'
  BY <1>1, <1>2, <1>3, <1>4, <1>5 DEF WayBack, SearchTypes
<1>7. SearchInv'
  BY <1>1, <1>3 DEF SearchInv, SearchTypes
<1> QED
  BY <1>1, <1>3, <1>5, <1>6, <1>7 DEF SearchTypes

LEMMA SearchTypesStep ==
    ASSUME Way!AStarAssumption, SearchTypes, Way!Next
    PROVE  SearchTypes'
<1>1. ASSUME NEW node \in openQ, Way!Skip(node) PROVE SearchTypes'
  <2>1. SearchInv'
    BY <1>1, SkipShrinks DEF SearchTypes
  <2>2. /\ openQ' = openQ \ {node} /\ Way!Visited' = Way!Visited
        /\ UNCHANGED <<data, pos, target, closeQ, resultPath, moved, pc>>
    BY <1>1 DEF Way!Skip, Way!Visited
  <2> QED
    BY <2>1, <2>2 DEF SearchTypes, WayBack
<1>2. CASE Way!Search
  BY <1>1, <1>2, VisitTypes DEF Way!Search
<1>3. CASE Way!GiveUp
  <2>1. /\ Way!Visited' = Way!Visited /\ pc' = "done"
        /\ UNCHANGED <<data, pos, target, openQ, closeQ, resultPath, moved>>
    BY <1>3 DEF Way!GiveUp, Way!Visited
  <2> QED
    BY <2>1 DEF SearchTypes, SearchInv
<1> QED
  BY <1>2, <1>3, BackTypes DEF Way!Next

LEMMA SearchTypesOK == ASSUME Way!AStarAssumption, SearchTypes PROVE Way!TypeOK
<1>1. /\ Cardinality(Way!Visited) \in Nat /\ Cardinality(Way!Cells) \in Nat
      /\ Cardinality(Way!Visited) <= Cardinality(Way!Cells)
  <2>1. IsFiniteSet(Way!Cells) /\ Way!Visited \in SUBSET Way!Cells
    BY CellsAreFinite DEF SearchTypes, SearchInv
  <2>2. IsFiniteSet(Way!Visited) /\ Cardinality(Way!Visited) <= Cardinality(Way!Cells)
    BY <2>1, FS_Subset
  <2> QED
    BY <2>1, <2>2, FS_CardinalityType
<1>2. \A node \in openQ : /\ node.cur \in Way!Cells
                          /\ node.prev \in Way!Cells \cup {Way!None}
                          /\ node.movingDist \in 0..Cardinality(Way!Cells)
  BY <1>1 DEF SearchTypes, SearchInv
<1> QED
  BY <1>2, WayCardinality DEF SearchTypes, SearchInv, Way!TypeOK

-----------------------------------------------------------------------------
(***************************************************************************)
(* AStar, the way. The cells within k steps of pos are the last value of a *)
(* recursive function; Rings says what that function is, one step after    *)
(* the other.                                                              *)
(***************************************************************************)

(* The least number of a set. In place of induction: what holds of every   *)
(* m below n, and not of n, is shown to be impossible for the least such n.*)
LEMMA LeastNumber ==
    ASSUME NEW S \in SUBSET Nat, S # {}
    PROVE  \E n \in S : \A m \in S : n <= m
<1> DEFINE R == OpToRel(<, Nat)
<1>1. \A x, y \in Nat : y < x => <<y, x>> \in R
  BY DEF OpToRel
<1>2. IsWellFoundedOn(R, Nat)
  BY NatLessThanWellFounded
<1> HIDE DEF R
<1>3. PICK x \in S : \A y \in S : ~ (<<y, x>> \in R)
  BY <1>2, WFMin
<1>4. ASSUME NEW y \in S PROVE x <= y
  <2>1. x \in Nat /\ y \in Nat /\ ~(y < x)
    BY <1>1, <1>3
  <2> QED
    BY <2>1
<1> QED
  BY <1>4

Grown(S) == S \cup UNION {Way!Next4(b) : b \in S}

Rings(f, k) ==
    /\ f \in [0..k -> SUBSET Way!Cells]
    /\ \A i \in 0..k : f[i] = IF i = 0 THEN {pos} ELSE Grown(f[i - 1])

LEMMA GrownIn == ASSUME NEW S \in SUBSET Way!Cells PROVE Grown(S) \in SUBSET Way!Cells
  BY DEF Grown, Way!Next4

LEMMA RingsExist == ASSUME pos \in Way!Cells, NEW k \in Nat PROVE \E f : Rings(f, k)
<1> DEFINE Some(m) == \E f : Rings(f, m)
<1>1. Some(0)
  <2> DEFINE f == [i \in 0..0 |-> {pos}]
  <2>1. f \in [0..0 -> SUBSET Way!Cells] /\ \A i \in 0..0 : i = 0 /\ f[i] = {pos}
    OBVIOUS
  <2> HIDE DEF f
  <2> QED
    BY <2>1 DEF Rings
<1>2. ASSUME NEW m \in Nat, Some(m) PROVE Some(m + 1)
  <2>1. PICK f : Rings(f, m)
    BY <1>2
  <2> DEFINE last == Grown(f[m])
             g == [i \in 0..(m + 1) |-> IF i = m + 1 THEN last ELSE f[i]]
  <2>2. f \in [0..m -> SUBSET Way!Cells] /\ f[m] \in SUBSET Way!Cells
    BY <2>1 DEF Rings
  <2>3. last \in SUBSET Way!Cells
    BY <2>2, GrownIn
  <2> HIDE DEF last
  <2>4. g \in [0..(m + 1) -> SUBSET Way!Cells]
    BY <2>2, <2>3
  <2>5. ASSUME NEW i \in 0..(m + 1)
        PROVE  g[i] = IF i = 0 THEN {pos} ELSE Grown(g[i - 1])
    <3>1. CASE i = m + 1
      <4>1. g[i] = last /\ g[i - 1] = f[m] /\ i # 0
        BY <3>1
      <4> QED
        BY <4>1 DEF last
    <3>2. CASE i # m + 1
      <4>1. i \in 0..m /\ g[i] = f[i]
        BY <3>2
      <4>2. i # 0 => g[i - 1] = f[i - 1]
        BY <4>1
      <4> QED
        BY <2>1, <4>1, <4>2 DEF Rings
    <3> QED
      BY <3>1, <3>2
  <2> HIDE DEF g
  <2> QED
    BY <2>4, <2>5 DEF Rings
<1> DEFINE Bad == {m \in Nat : ~Some(m)}
<1> HIDE DEF Some
<1>3. SUFFICES ASSUME Bad # {} PROVE FALSE
  BY DEF Some
<1>4. PICK m \in Bad : \A j \in Bad : m <= j
  BY <1>3, LeastNumber
<1>5. m # 0
  BY <1>1, <1>4
<1>6. m - 1 \in Nat /\ m - 1 \notin Bad /\ m - 1 + 1 = m
  BY <1>4, <1>5
<1> QED
  BY <1>2, <1>4, <1>6

LEMMA RingsAgree ==
    ASSUME NEW k \in Nat, NEW m \in Nat, NEW f, NEW g, Rings(f, k), Rings(g, m),
           NEW i \in Nat, i <= k, i <= m
    PROVE  f[i] = g[i]
<1> DEFINE Bad == {j \in Nat : j <= k /\ j <= m /\ f[j] # g[j]}
<1>1. SUFFICES ASSUME Bad # {} PROVE FALSE
  OBVIOUS
<1>2. PICK j \in Bad : \A l \in Bad : j <= l
  BY <1>1, LeastNumber
<1>3. j \in Nat /\ j \in 0..k /\ j \in 0..m /\ f[j] # g[j]
  BY <1>2
<1>4. CASE j = 0
  BY <1>3, <1>4 DEF Rings
<1>5. CASE j # 0
  <2>1. j - 1 \in Nat /\ j - 1 \notin Bad /\ j - 1 <= k /\ j - 1 <= m
    BY <1>2, <1>3, <1>5
  <2>2. f[j - 1] = g[j - 1]
    BY <2>1
  <2> QED
    BY <1>3, <1>5, <2>2 DEF Rings
<1> QED
  BY <1>4, <1>5

LEMMA WithinIsRing ==
    ASSUME pos \in Way!Cells, NEW k \in Nat, NEW f, Rings(f, k)
    PROVE  Way!Within(k) = f[k]
<1> DEFINE After(h, i) == IF i = 0 THEN {pos} ELSE Grown(h[i - 1])
           within == CHOOSE h : h = [i \in 0..k |-> After(h, i)]
<1>1. Way!Within(k) = within[k]
  BY DEF Way!Within, Grown
<1>2. f = [i \in 0..k |-> After(f, i)]
  BY DEF Rings
<1>3. within = [i \in 0..k |-> After(within, i)]
  BY <1>2
<1> HIDE DEF within
<1> DEFINE Bad == {j \in Nat : j \in 0..k /\ f[j] # within[j]}
<1>4. SUFFICES ASSUME Bad # {} PROVE FALSE
  BY <1>1
<1>5. PICK j \in Bad : \A l \in Bad : j <= l
  BY <1>4, LeastNumber
<1>6. j \in 0..k /\ j \in Nat /\ f[j] # within[j]
  BY <1>5
<1>7. within[j] = IF j = 0 THEN {pos} ELSE Grown(within[j - 1])
  BY <1>3, <1>6
<1>8. f[j] = IF j = 0 THEN {pos} ELSE Grown(f[j - 1])
  BY <1>6 DEF Rings
<1>9. j # 0
  BY <1>6, <1>7, <1>8
<1>10. j - 1 \in 0..k /\ j - 1 \notin Bad
  BY <1>5, <1>6, <1>9
<1>11. f[j - 1] = within[j - 1]
  BY <1>10
<1> QED
  BY <1>6, <1>7, <1>8, <1>9, <1>11

(* What Within is: pos at first, then with each step the neighbours.       *)
LEMMA WithinSteps ==
    ASSUME pos \in Way!Cells
    PROVE  /\ Way!Within(0) = {pos}
           /\ \A k \in Nat : Way!Within(k) \in SUBSET Way!Cells
           /\ \A k \in Nat : Way!Within(k + 1) = Grown(Way!Within(k))
<1>1. ASSUME NEW k \in Nat PROVE Way!Within(k) \in SUBSET Way!Cells
  <2>1. PICK f : Rings(f, k)
    BY RingsExist
  <2>2. Way!Within(k) = f[k] /\ k \in 0..k
    BY <2>1, WithinIsRing
  <2> QED
    BY <2>1, <2>2 DEF Rings
<1>2. Way!Within(0) = {pos}
  <2>1. PICK f : Rings(f, 0)
    BY RingsExist
  <2>2. Way!Within(0) = f[0] /\ 0 \in 0..0
    BY <2>1, WithinIsRing
  <2> QED
    BY <2>1, <2>2 DEF Rings
<1>3. ASSUME NEW k \in Nat PROVE Way!Within(k + 1) = Grown(Way!Within(k))
  <2>1. PICK f : Rings(f, k)
    BY RingsExist
  <2>2. PICK g : Rings(g, k + 1)
    BY RingsExist
  <2>3. f[k] = g[k]
    BY <2>1, <2>2, RingsAgree
  <2>4. g[k + 1] = Grown(g[k])
    <3>1. k + 1 \in 0..(k + 1) /\ k + 1 # 0 /\ k + 1 - 1 = k
      OBVIOUS
    <3> QED
      BY <2>2, <3>1 DEF Rings
  <2> QED
    BY <2>1, <2>2, <2>3, <2>4, WithinIsRing
<1> QED
  BY <1>1, <1>2, <1>3

LEMMA WithinGrows ==
    ASSUME pos \in Way!Cells, NEW i \in Nat, NEW j \in Nat, i <= j
    PROVE  Way!Within(i) \subseteq Way!Within(j)
<1> DEFINE Bad == {k \in Nat : i <= k /\ ~(Way!Within(i) \subseteq Way!Within(k))}
<1>1. SUFFICES ASSUME Bad # {} PROVE FALSE
  OBVIOUS
<1>2. PICK k \in Bad : \A l \in Bad : k <= l
  BY <1>1, LeastNumber
<1>3. k \in Nat /\ i <= k /\ k # i
  BY <1>2
<1>4. k - 1 \in Nat /\ i <= k - 1 /\ k - 1 \notin Bad /\ k - 1 + 1 = k
  BY <1>2, <1>3
<1>5. Way!Within(i) \subseteq Way!Within(k - 1)
  BY <1>4
<1>6. Way!Within(k) = Grown(Way!Within(k - 1))
  BY <1>4, WithinSteps
<1> QED
  BY <1>2, <1>5, <1>6 DEF Grown

LEMMA WithinStays ==
    ASSUME UNCHANGED <<data, pos>>
    PROVE  /\ \A c : Way!Next4(c)' = Way!Next4(c)
           /\ \A k : Way!Within(k)' = Way!Within(k)
<1>1. ASSUME NEW c PROVE Way!Next4(c)' = Way!Next4(c)
  BY DEF Way!Next4
<1>2. ASSUME NEW k PROVE Way!Within(k)' = Way!Within(k)
  BY DEF Way!Within, Way!Next4
<1> QED
  BY <1>1, <1>2

(***************************************************************************)
(* AStar, the weights. From a cell to another there are at least Across    *)
(* steps, and the straight distance to target changes by no more than that *)
(* on the way. So a node that is that near to the cell of another one, and *)
(* not as far as the other is, comes before it in the queue.               *)
(***************************************************************************)
Size(n) == IF n < 0 THEN -n ELSE n
Across(c, d) == Size(c[1] - d[1]) + Size(c[2] - d[2])

LEMMA Products ==
    ASSUME NEW x \in Nat, NEW y \in Nat
    PROVE  /\ x * y \in Nat
           /\ \A z \in Nat : x <= z => x * y <= z * y
           /\ \A z \in Nat : x < z /\ y > 0 => x * y < z * y
<1>1. x * y \in Nat
  OBVIOUS
<1>2. ASSUME NEW z \in Nat, x <= z PROVE x * y <= z * y
  <2>1. z = x + (z - x) /\ z - x \in Nat
    BY <1>2
  <2>2. (z - x) * y \in Nat /\ z * y = x * y + (z - x) * y
    BY <2>1
  <2> QED
    BY <1>1, <2>2
<1>3. ASSUME NEW z \in Nat, x < z, y > 0 PROVE x * y < z * y
  <2>1. z = x + (z - x) /\ z - x \in Nat /\ z - x > 0
    BY <1>3
  <2>2. (z - x) * y \in Nat /\ (z - x) * y > 0 /\ z * y = x * y + (z - x) * y
    BY <1>3, <2>1
  <2> QED
    BY <1>1, <2>2
<1> QED
  BY <1>1, <1>2, <1>3

LEMMA Squares ==
    ASSUME NEW x \in Nat, NEW y \in Nat, x < y
    PROVE  x * x < y * y
<1>1. x * x <= y * x
  BY Products
<1>2. x * y < y * y
  BY Products
<1>3. x * y = y * x
  OBVIOUS
<1> QED
  BY <1>1, <1>2, <1>3

(* Sides dx and dy: the square over the slope is less than that of the way *)
(* along both.                                                             *)
LEMMA SlopeIsShorter ==
    ASSUME NEW dx \in Int, NEW dy \in Int
    PROVE  /\ dx * dx + dy * dy \in Nat /\ Size(dx) + Size(dy) \in Nat
           /\ dx * dx + dy * dy <= (Size(dx) + Size(dy)) * (Size(dx) + Size(dy))
<1> DEFINE a == Size(dx)
           b == Size(dy)
<1>1. a \in Nat /\ b \in Nat /\ a * a = dx * dx /\ b * b = dy * dy
  BY DEF Size
<1> HIDE DEF a, b
<1>2. (a + b) * (a + b) = a * a + b * b + 2 * (a * b)
  BY <1>1
<1>3. a * b \in Nat /\ a * a \in Nat /\ b * b \in Nat
  BY <1>1
<1>4. dx * dx + dy * dy \in Nat /\ dx * dx + dy * dy <= (a + b) * (a + b)
  BY <1>1, <1>2, <1>3
<1> QED
  BY <1>1, <1>4 DEF a, b

(* The straight distance from (u, v), and from (u + dx, v + dy), to (0, 0).*)
LEMMA Triangle ==
    ASSUME NEW u \in Int, NEW v \in Int, NEW dx \in Int, NEW dy \in Int, NEW k \in Nat,
           NEW z \in Nat, Size(dx) + Size(dy) < k,
           z = ((u + dx) * (u + dx) + (v + dy) * (v + dy)) - (u * u + v * v) - k * k
    PROVE  z * z < 4 * (k * k) * (u * u + v * v)
<1> DEFINE m == Size(dx) + Size(dy)
           p == u * u + v * v
           n == dx * dx + dy * dy
           D == u * dx + v * dy
<1>1. m \in Nat /\ n \in Nat /\ n <= m * m
  BY SlopeIsShorter
<1>2. p \in Nat /\ D \in Int
  <2>1. u * u + v * v \in Nat
    BY SlopeIsShorter
  <2> QED
    BY <2>1
<1>3. m * m < k * k
  BY <1>1, Squares
<1>4. n < k * k /\ k * k \in Nat
  BY <1>1, <1>3
<1>5. z = 2 * D + n - k * k
  OBVIOUS
<1>6. D * D <= p * n
  <2> DEFINE e == u * dy - v * dx
  <2>1. e \in Int /\ e * e \in Nat
    OBVIOUS
  <2>2. p * n = D * D + e * e
    OBVIOUS
  <2>3. p * n \in Int /\ D * D \in Int
    BY <1>1, <1>2
  <2> QED
    BY <2>1, <2>2, <2>3
<1> HIDE DEF m, p, n, D
<1>7. z < 2 * D /\ 2 * D \in Nat
  BY <1>1, <1>2, <1>4, <1>5
<1>8. z * z < (2 * D) * (2 * D)
  BY <1>7, Squares
<1>9. (2 * D) * (2 * D) = 4 * (D * D)
  BY <1>2
<1>10. p * n <= (k * k) * p
  BY <1>1, <1>2, <1>4, Products
<1>11. z * z \in Nat /\ D * D \in Int /\ p * n \in Int /\ (k * k) * p \in Int
  BY <1>1, <1>2, <1>4
<1>12. z * z < 4 * ((k * k) * p)
  BY <1>6, <1>8, <1>9, <1>10, <1>11
<1>13. 4 * ((k * k) * p) = 4 * (k * k) * p
  BY <1>2, <1>4
<1> QED
  BY <1>12, <1>13 DEF p

LEMMA NearerComesFirst ==
    ASSUME Way!AStarAssumption, target \in Way!Cells, NEW a, NEW b,
           a.cur \in Way!Cells, b.cur \in Way!Cells,
           a.movingDist \in Nat, b.movingDist \in Nat,
           b.movingDist + Across(b.cur, a.cur) < a.movingDist
    PROVE  ~Way!NotAbove(a, b)
<1> DEFINE u == a.cur[1] - target[1]
           v == a.cur[2] - target[2]
           dx == b.cur[1] - a.cur[1]
           dy == b.cur[2] - a.cur[2]
           k == a.movingDist - b.movingDist
           p == u * u + v * v
           q == (u + dx) * (u + dx) + (v + dy) * (v + dy)
           z == q - p - k * k
<1>1. /\ a.cur[1] \in Int /\ a.cur[2] \in Int /\ b.cur[1] \in Int /\ b.cur[2] \in Int
      /\ target[1] \in Int /\ target[2] \in Int
  BY DEF Way!Cells, Way!AStarAssumption
<1>2. u \in Int /\ v \in Int /\ dx \in Int /\ dy \in Int
  BY <1>1
<1>3. Size(dx) + Size(dy) \in Nat /\ Across(b.cur, a.cur) = Size(dx) + Size(dy)
  <2> HIDE DEF u, v, dx, dy
  <2>1. Size(dx) + Size(dy) \in Nat
    BY <1>2, SlopeIsShorter
  <2> QED
    BY <2>1 DEF Across, dx, dy
<1>4. k \in Nat /\ Size(dx) + Size(dy) < k /\ k > 0 /\ b.movingDist - a.movingDist = -k
  <2> HIDE DEF dx, dy
  <2> QED
    BY <1>3
<1>5. Way!ToTarget(a.cur) = p /\ u + dx = b.cur[1] - target[1] /\ v + dy = b.cur[2] - target[2]
  BY <1>1 DEF Way!ToTarget, Way!Square
<1>6. Way!ToTarget(b.cur) = q
  BY <1>5 DEF Way!ToTarget, Way!Square
<1>7. p \in Int /\ q \in Int /\ k * k \in Int /\ z \in Int
  BY <1>2, <1>4
<1>8. (-k) * (-k) = k * k
  BY <1>4
<1> HIDE DEF u, v, dx, dy, k
<1>9. ASSUME Way!NotAbove(a, b) PROVE z \in Nat /\ 4 * (k * k) * p <= z * z
  <2> HIDE DEF p, q
  <2>1. ~(-k >= 0)
    BY <1>4
  <2>2. /\ q - p - (-k) * (-k) >= 0
        /\ 4 * (-k) * (-k) * p <= Way!Square(q - p - (-k) * (-k))
    BY <1>4, <1>5, <1>6, <1>9, <2>1 DEF Way!NotAbove
  <2>3. 4 * (-k) * (-k) * p = 4 * (k * k) * p
    BY <1>4, <1>7
  <2> QED
    BY <1>7, <1>8, <2>2, <2>3 DEF Way!Square
<1>10. ASSUME z \in Nat PROVE z * z < 4 * (k * k) * p
  <2>1. z = ((u + dx) * (u + dx) + (v + dy) * (v + dy)) - (u * u + v * v) - k * k
    OBVIOUS
  <2> HIDE DEF z
  <2>2. z * z < 4 * (k * k) * (u * u + v * v)
    BY <1>2, <1>4, <1>10, <2>1, Triangle
  <2> QED
    BY <2>2
<1>11. z * z \in Int /\ 4 * (k * k) * p \in Int
  BY <1>7
<1> HIDE DEF p, q, z
<1> QED
  BY <1>9, <1>10, <1>11

(***************************************************************************)
(* AStar, what holds on the way to PathIsShortest. Every cell visited is   *)
(* as far from pos as moved says, and came from the one before it. As long *)
(* as the target was not visited, the neighbours of what was visited were  *)
(* visited too or lie in the queue (Frontier); so on the way to any cell   *)
(* not visited there is a node in the queue (QueueIsAhead), which is why   *)
(* the top of the queue is not farther than need be, and why there is no   *)
(* way if the queue is empty. The way back goes down by one step at a time.*)
(***************************************************************************)
IsDistance(c, d) ==
    /\ d \in Nat /\ c \in Way!Within(d)
    /\ \A j \in Nat : c \in Way!Within(j) => d <= j

ComesFrom(c, p, d) ==
    IF p = Way!None THEN c = pos /\ d = 0
    ELSE p \in Way!Visited /\ c \in Way!Next4(p) /\ d = moved[p] + 1

Frontier ==
    /\ target \notin Way!Visited
    /\ pos \in Way!Visited \/ [cur |-> pos, prev |-> Way!None, movingDist |-> 0] \in openQ
    /\ \A b \in Way!Visited : \A y \in Way!Next4(b) :
          y \in Way!Visited \/ [cur |-> y, prev |-> b, movingDist |-> moved[b] + 1] \in openQ

Exact == \A c \in Way!Visited :
    /\ IsDistance(c, moved[c]) /\ moved[c] <= Cardinality(Way!Cells)
    /\ ComesFrom(c, closeQ[c], moved[c])

Queued == \A node \in openQ : ComesFrom(node.cur, node.prev, node.movingDist)

Back == \A i \in 1..Len(resultPath) :
    /\ resultPath[i] \in Way!Visited
    /\ moved[resultPath[i]] = moved[target] - (i - 1)
    /\ i > 1 => closeQ[resultPath[i - 1]] = resultPath[i]

WayInv ==
    /\ SearchTypes
    /\ Exact /\ Queued /\ Back
    /\ pc = "search" \/ (pc = "done" /\ resultPath = <<>>) => Frontier
    /\ pc = "done" /\ resultPath = <<>> => openQ = {}
    /\ resultPath # <<>> => resultPath[1] = target
    /\ pc = "done" /\ resultPath # <<>> => closeQ[resultPath[Len(resultPath)]] = Way!None

LEMMA NextIsOneStep ==
    ASSUME NEW x \in Way!Cells, NEW y \in Way!Next4(x), Way!AStarAssumption
    PROVE  y \in Way!Cells /\ Across(y, y) = 0
           /\ \A c \in Way!Cells : Across(c, y) <= Across(c, x) + 1 /\ Across(c, x) \in Nat
                                   /\ Across(c, y) \in Nat
<1>1. PICK d \in {<<0, -1>>, <<-1, 0>>, <<1, 0>>, <<0, 1>>} : y = <<x[1] + d[1], x[2] + d[2]>>
  BY DEF Way!Next4
<1>2. y \in Way!Cells
  BY DEF Way!Next4
<1>3. x[1] \in Int /\ x[2] \in Int /\ y[1] = x[1] + d[1] /\ y[2] = x[2] + d[2]
  BY <1>1 DEF Way!Cells, Way!AStarAssumption
<1>4. ASSUME NEW c \in Way!Cells
      PROVE  Across(c, y) <= Across(c, x) + 1 /\ Across(c, x) \in Nat /\ Across(c, y) \in Nat
  <2>1. c[1] \in Int /\ c[2] \in Int
    BY DEF Way!Cells, Way!AStarAssumption
  <2> QED
    BY <1>1, <1>3, <2>1 DEF Across, Size
<1>5. Across(y, y) = 0
  BY <1>1, <1>3 DEF Across, Size
<1> QED
  BY <1>2, <1>4, <1>5

LEMMA QueueIsAhead ==
    ASSUME Way!AStarAssumption, SearchTypes, Exact, Frontier,
           NEW j \in Nat, NEW y \in Way!Within(j), y \notin Way!Visited
    PROVE  \E b \in openQ : b.movingDist + Across(b.cur, y) <= j
<1> DEFINE Before(x, l) == \E b \in openQ : b.movingDist + Across(b.cur, x) <= l
           Bad == {l \in Nat : \E x \in Way!Within(l) : x \notin Way!Visited /\ ~Before(x, l)}
<1>1. SUFFICES ASSUME Bad # {} PROVE FALSE
  OBVIOUS
<1>2. PICK l \in Bad : \A i \in Bad : l <= i
  BY <1>1, LeastNumber
<1>3. PICK x \in Way!Within(l) : x \notin Way!Visited /\ ~Before(x, l)
  BY <1>2
<1>4. pos \in Way!Cells /\ \A b \in openQ : b.cur \in Way!Cells /\ b.movingDist \in Nat
  BY DEF SearchTypes, SearchInv
<1>5. l # 0
  <2> SUFFICES ASSUME l = 0 PROVE FALSE
    OBVIOUS
  <2>1. x = pos
    BY <1>3, <1>4, WithinSteps
  <2> DEFINE first == [cur |-> pos, prev |-> Way!None, movingDist |-> 0]
  <2>2. first \in openQ /\ first.movingDist = 0 /\ first.cur = x
    BY <1>3, <2>1 DEF Frontier
  <2>3. x[1] \in Int /\ x[2] \in Int
    BY <1>4, <2>1 DEF Way!Cells, Way!AStarAssumption
  <2>4. Across(x, x) = 0
    BY <2>3 DEF Across, Size
  <2> HIDE DEF first
  <2> QED
    BY <1>3, <2>2, <2>4
<1>6. l - 1 \in Nat /\ l - 1 \notin Bad /\ l - 1 + 1 = l /\ l \in Nat
  BY <1>2, <1>5
<1>7. \A w \in Way!Within(l - 1) : w \in Way!Visited \/ Before(w, l - 1)
  BY <1>6
<1>8. x \notin Way!Within(l - 1)
  <2> SUFFICES ASSUME x \in Way!Within(l - 1) PROVE FALSE
    OBVIOUS
  <2>1. PICK b \in openQ : b.movingDist + Across(b.cur, x) <= l - 1
    BY <1>3, <1>7
  <2>2. b.movingDist + Across(b.cur, x) \in Int
    <3>1. x \in Way!Cells
      BY <1>4, <1>6, WithinSteps
    <3>2. b.movingDist \in Int /\ b.cur[1] \in Int /\ b.cur[2] \in Int /\ x[1] \in Int /\ x[2] \in Int
      BY <1>4, <3>1 DEF Way!Cells, Way!AStarAssumption
    <3> QED
      BY <3>2 DEF Across, Size
  <2> QED
    BY <1>3, <1>6, <2>1, <2>2
<1>9. PICK w \in Way!Within(l - 1) : x \in Way!Next4(w)
  BY <1>3, <1>4, <1>6, <1>8, WithinSteps DEF Grown
<1>10. w \in Way!Cells
  BY <1>4, <1>6, <1>9, WithinSteps
<1>11. CASE w \in Way!Visited
  <2> DEFINE b == [cur |-> x, prev |-> w, movingDist |-> moved[w] + 1]
  <2>1. b \in openQ
    BY <1>3, <1>9, <1>11 DEF Frontier
  <2>2. moved[w] \in Nat /\ moved[w] <= l - 1
    BY <1>6, <1>9, <1>11 DEF Exact, IsDistance
  <2>3. b.movingDist = moved[w] + 1 /\ b.cur = x
    OBVIOUS
  <2>4. Across(x, x) = 0
    BY <1>9, <1>10, NextIsOneStep
  <2> HIDE DEF b
  <2>5. b.movingDist + Across(b.cur, x) <= l
    BY <1>6, <2>2, <2>3, <2>4
  <2> QED
    BY <1>3, <2>1, <2>5
<1>12. CASE w \notin Way!Visited
  <2>1. PICK b \in openQ : b.movingDist + Across(b.cur, w) <= l - 1
    BY <1>7, <1>9, <1>12
  <2>2. /\ Across(b.cur, x) <= Across(b.cur, w) + 1 /\ Across(b.cur, w) \in Nat
        /\ Across(b.cur, x) \in Nat /\ b.movingDist \in Nat
    BY <1>4, <1>9, <1>10, NextIsOneStep
  <2>3. b.movingDist + Across(b.cur, x) <= l
    BY <1>6, <2>1, <2>2
  <2> QED
    BY <1>3, <2>1, <2>3
<1> QED
  BY <1>11, <1>12

LEMMA WayInit == ASSUME Way!AStarAssumption, Way!Init PROVE WayInv
<1>1. SearchTypes
  BY SearchTypesInit
<1>2. /\ Way!Visited = {} /\ resultPath = <<>> /\ Len(resultPath) = 0 /\ pc = "search"
      /\ openQ = {[cur |-> pos, prev |-> Way!None, movingDist |-> 0]}
  BY DEF Way!Init, Way!Visited
<1> QED
  BY <1>1, <1>2 DEF WayInv, Exact, Queued, Back, Frontier, ComesFrom

LEMMA WaySkip ==
    ASSUME Way!AStarAssumption, WayInv, SearchTypes', pc = "search",
           NEW node \in openQ, Way!Skip(node)
    PROVE  WayInv'
<1>1. /\ node.cur \in Way!Visited /\ openQ' = openQ \ {node}
      /\ UNCHANGED <<data, pos, target, closeQ, resultPath, moved, pc>>
  BY DEF Way!Skip
<1>2. /\ Way!Visited' = Way!Visited
      /\ \A c : Way!Next4(c)' = Way!Next4(c)
      /\ \A k : Way!Within(k)' = Way!Within(k)
  BY <1>1, WithinStays DEF Way!Visited
<1>3. resultPath = <<>> /\ Len(resultPath) = 0
  BY DEF WayInv, SearchTypes
<1>4. Exact'
  BY <1>1, <1>2 DEF WayInv, Exact, IsDistance, ComesFrom
<1>5. Queued'
  BY <1>1, <1>2 DEF WayInv, Queued, ComesFrom
<1>6. Back'
  BY <1>1, <1>3 DEF Back
<1>7. Frontier'
  <2>1. \A y : y \notin Way!Visited => \A p, d :
           [cur |-> y, prev |-> p, movingDist |-> d] # node
    BY <1>1
  <2>2. Frontier
    BY DEF WayInv
  <2>3. pos \in Way!Visited \/ [cur |-> pos, prev |-> Way!None, movingDist |-> 0] \in openQ'
    BY <1>1, <2>1, <2>2 DEF Frontier
  <2>4. ASSUME NEW b \in Way!Visited, NEW y \in Way!Next4(b)
        PROVE  y \in Way!Visited \/ [cur |-> y, prev |-> b, movingDist |-> moved[b] + 1] \in openQ'
    BY <1>1, <2>1, <2>2 DEF Frontier
  <2> QED
    BY <1>1, <1>2, <2>2, <2>3, <2>4 DEF Frontier
<1> QED
  BY <1>1, <1>3, <1>4, <1>5, <1>6, <1>7 DEF WayInv

LEMMA WayGiveUp ==
    ASSUME Way!AStarAssumption, WayInv, SearchTypes', Way!GiveUp
    PROVE  WayInv'
<1>1. /\ pc = "search" /\ openQ = {} /\ pc' = "done"
      /\ UNCHANGED <<data, pos, target, openQ, closeQ, resultPath, moved>>
  BY DEF Way!GiveUp
<1>2. /\ Way!Visited' = Way!Visited
      /\ \A c : Way!Next4(c)' = Way!Next4(c)
      /\ \A k : Way!Within(k)' = Way!Within(k)
  BY <1>1, WithinStays DEF Way!Visited
<1>3. resultPath = <<>> /\ Len(resultPath) = 0
  BY <1>1 DEF WayInv, SearchTypes
<1>4. Exact'
  BY <1>1, <1>2 DEF WayInv, Exact, IsDistance, ComesFrom
<1>5. Queued' /\ Back' /\ Frontier'
  BY <1>1, <1>2, <1>3 DEF WayInv, Queued, Back, Frontier
<1> QED
  BY <1>1, <1>3, <1>4, <1>5 DEF WayInv

(* The top of the queue, where its cell was not visited before: movingDist *)
(* is the distance of the cell.                                            *)
LEMMA TopIsExact ==
    ASSUME Way!AStarAssumption, WayInv, pc = "search", NEW node \in openQ,
           \A other \in openQ : Way!NotAbove(node, other), node.cur \notin Way!Visited
    PROVE  IsDistance(node.cur, node.movingDist)
<1> DEFINE c == node.cur
           d == node.movingDist
<1>1. /\ SearchTypes /\ Exact /\ Frontier /\ ComesFrom(c, node.prev, d)
      /\ c \in Way!Cells /\ pos \in Way!Cells /\ target \in Way!Cells /\ d \in Nat
      /\ \A b \in openQ : b.cur \in Way!Cells /\ b.movingDist \in Nat
  BY DEF WayInv, Queued, SearchTypes, SearchInv
<1> HIDE DEF c, d
<1>2. c \in Way!Within(d)
  <2>1. CASE node.prev = Way!None
    BY <1>1, <2>1, WithinSteps DEF ComesFrom
  <2>2. CASE node.prev # Way!None
    <3> DEFINE p == node.prev
    <3>1. p \in Way!Visited /\ c \in Way!Next4(p) /\ d = moved[p] + 1
      BY <1>1, <2>2 DEF ComesFrom
    <3> HIDE DEF p
    <3>2. moved[p] \in Nat /\ p \in Way!Within(moved[p])
      BY <1>1, <3>1 DEF Exact, IsDistance
    <3>3. Way!Within(d) = Grown(Way!Within(moved[p]))
      BY <1>1, <3>1, <3>2, WithinSteps
    <3> QED
      BY <3>1, <3>2, <3>3 DEF Grown
  <2> QED
    BY <2>1, <2>2
<1>3. ASSUME NEW j \in Nat, c \in Way!Within(j), ~(d <= j) PROVE FALSE
  <2>1. c \notin Way!Visited
    BY DEF c
  <2>2. PICK b \in openQ : b.movingDist + Across(b.cur, c) <= j
    BY <1>1, <1>3, <2>1, QueueIsAhead
  <2>3. b.movingDist + Across(b.cur, c) \in Int
    <3>1. /\ b.cur[1] \in Int /\ b.cur[2] \in Int /\ c[1] \in Int /\ c[2] \in Int
          /\ b.movingDist \in Int
      BY <1>1 DEF Way!Cells, Way!AStarAssumption
    <3> QED
      BY <3>1 DEF Across, Size
  <2>4. b.movingDist + Across(b.cur, c) < d
    BY <1>1, <1>3, <2>2, <2>3
  <2>5. ~Way!NotAbove(node, b)
    BY <1>1, <2>4, NearerComesFirst DEF c, d
  <2> QED
    BY <2>5
<1> QED
  BY <1>1, <1>2, <1>3 DEF IsDistance, c, d

LEMMA WayVisit ==
    ASSUME Way!AStarAssumption, WayInv, SearchTypes', pc = "search", NEW node \in openQ,
           \A other \in openQ : Way!NotAbove(node, other), Way!Visit(node)
    PROVE  WayInv'
<1> DEFINE c == node.cur
           d == node.movingDist
           nodes == {[cur |-> n, prev |-> c, movingDist |-> d + 1] : n \in Way!Next4(c)}
<1>1. /\ c \notin Way!Visited
      /\ closeQ' = [n \in Way!Visited \cup {c} |-> IF n = c THEN node.prev ELSE closeQ[n]]
      /\ moved' = [n \in Way!Visited \cup {c} |-> IF n = c THEN d ELSE moved[n]]
      /\ openQ' = (openQ \ {node}) \cup (IF c = target THEN {} ELSE nodes)
      /\ pc' = IF c = target THEN "path" ELSE pc
      /\ UNCHANGED <<data, pos, target, resultPath>>
  BY DEF Way!Visit
<1>2. IsDistance(c, d)
  BY <1>1, TopIsExact
<1>3. /\ SearchTypes /\ Exact /\ Queued /\ Frontier
      /\ resultPath = <<>> /\ Len(resultPath) = 0
      /\ c \in Way!Cells /\ d \in Nat /\ d <= Cardinality(Way!Visited)
      /\ Way!Visited \subseteq Way!Cells
  BY DEF WayInv, SearchTypes, SearchInv
<1>4. /\ Way!Visited' = Way!Visited \cup {c}
      /\ \A x : Way!Next4(x)' = Way!Next4(x)
      /\ \A k : Way!Within(k)' = Way!Within(k)
  BY <1>1, WithinStays DEF Way!Visited
<1>5. /\ closeQ'[c] = node.prev /\ moved'[c] = d
      /\ \A n \in Way!Visited : n # c /\ closeQ'[n] = closeQ[n] /\ moved'[n] = moved[n]
  BY <1>1
<1>6. d <= Cardinality(Way!Cells)
  <2>1. IsFiniteSet(Way!Cells)
    BY CellsAreFinite
  <2>2. /\ IsFiniteSet(Way!Visited) /\ Cardinality(Way!Visited) <= Cardinality(Way!Cells)
    BY <1>3, <2>1, FS_Subset
  <2>3. Cardinality(Way!Visited) \in Nat /\ Cardinality(Way!Cells) \in Nat
    BY <2>1, <2>2, FS_CardinalityType
  <2> QED
    BY <1>3, <2>2, <2>3
<1>7. c # Way!None
  BY <1>3 DEF Way!None, Way!Cells, Way!AStarAssumption
<1>8. \A n \in nodes : n.prev = c /\ n.movingDist = d + 1 /\ n.cur \in Way!Next4(c)
  OBVIOUS
<1>9. \A y \in Way!Next4(c) : [cur |-> y, prev |-> c, movingDist |-> d + 1] \in nodes
  OBVIOUS
<1>10. \A y, p, e : [cur |-> y, prev |-> p, movingDist |-> e] = node => y = c
  OBVIOUS
<1> HIDE DEF c, d, nodes
<1>11. \A x, p, e : ComesFrom(x, p, e) => ComesFrom(x, p, e)'
  BY <1>1, <1>4, <1>5 DEF ComesFrom
<1>12. ComesFrom(c, node.prev, d)
  BY <1>3 DEF Queued, c, d
<1>13. Exact'
  <2> SUFFICES ASSUME NEW n \in Way!Visited'
               PROVE  (/\ IsDistance(n, moved[n]) /\ moved[n] <= Cardinality(Way!Cells)
                       /\ ComesFrom(n, closeQ[n], moved[n]))'
    BY DEF Exact
  <2>1. CASE n = c
    BY <1>2, <1>4, <1>5, <1>6, <1>11, <1>12, <2>1 DEF IsDistance, ComesFrom
  <2>2. CASE n \in Way!Visited
    <3>1. /\ IsDistance(n, moved[n]) /\ moved[n] <= Cardinality(Way!Cells)
          /\ ComesFrom(n, closeQ[n], moved[n])
      BY <1>3, <2>2 DEF Exact
    <3> QED
      BY <1>4, <1>5, <1>11, <2>2, <3>1 DEF IsDistance, ComesFrom
  <2> QED
    BY <1>4, <2>1, <2>2
<1>14. Queued'
  <2> SUFFICES ASSUME NEW n \in openQ' PROVE ComesFrom(n.cur, n.prev, n.movingDist)'
    BY DEF Queued
  <2>1. CASE n \in openQ
    BY <1>3, <1>11, <2>1 DEF Queued
  <2>2. CASE n \in nodes
    BY <1>4, <1>5, <1>7, <1>8, <2>2 DEF ComesFrom
  <2> QED
    BY <1>1, <2>1, <2>2
<1>15. Back'
  BY <1>1, <1>3 DEF Back
<1>16. ASSUME c # target PROVE Frontier'
  <2>1. openQ' = (openQ \ {node}) \cup nodes
    BY <1>1, <1>16
  <2>2. target' \notin Way!Visited'
    BY <1>1, <1>3, <1>4, <1>16 DEF Frontier
  <2>3. pos' \in Way!Visited' \/ [cur |-> pos', prev |-> Way!None, movingDist |-> 0] \in openQ'
    BY <1>1, <1>3, <1>4, <1>10, <2>1 DEF Frontier
  <2>4. ASSUME NEW b \in Way!Visited, NEW y \in Way!Next4(b)
        PROVE  \/ y \in Way!Visited'
               \/ [cur |-> y, prev |-> b, movingDist |-> moved'[b] + 1] \in openQ'
    BY <1>3, <1>4, <1>5, <1>10, <2>1 DEF Frontier
  <2>5. ASSUME NEW y \in Way!Next4(c)
        PROVE  [cur |-> y, prev |-> c, movingDist |-> moved'[c] + 1] \in openQ'
    BY <1>5, <1>9, <2>1
  <2> QED
    BY <1>4, <2>2, <2>3, <2>4, <2>5 DEF Frontier
<1> QED
  BY <1>1, <1>3, <1>13, <1>14, <1>15, <1>16 DEF WayInv

LEMMA WayPath ==
    ASSUME Way!AStarAssumption, WayInv, SearchTypes', Way!Path
    PROVE  WayInv'
<1> DEFINE location == IF resultPath = <<>> THEN target ELSE closeQ[resultPath[Len(resultPath)]]
           n == Len(resultPath)
<1>1. /\ pc = "path"
      /\ resultPath' = Append(resultPath, location)
      /\ pc' = IF closeQ[location] = Way!None THEN "done" ELSE pc
      /\ UNCHANGED <<data, pos, target, openQ, closeQ, moved>>
  BY DEF Way!Path, Way!Back
<1>2. /\ Way!Visited' = Way!Visited
      /\ \A c : Way!Next4(c)' = Way!Next4(c)
      /\ \A k : Way!Within(k)' = Way!Within(k)
  BY <1>1, WithinStays DEF Way!Visited
<1>3. /\ SearchTypes /\ WayBack /\ Exact /\ Queued /\ Back
      /\ resultPath \in Seq(Way!Cells) /\ n \in Nat
      /\ resultPath # <<>> => resultPath[1] = target
  BY <1>1 DEF WayInv, SearchTypes
<1>4. resultPath = <<>> <=> n = 0
  BY <1>3
<1>5. location \in Way!Visited /\ moved[location] = moved[target] - n
  <2>1. CASE n = 0
    <3>1. location = target /\ target \in Way!Visited
      BY <1>3, <1>4, <2>1 DEF WayBack
    <3>2. moved[target] \in Nat
      BY <1>3, <3>1 DEF Exact, IsDistance
    <3> QED
      BY <2>1, <3>1, <3>2
  <2>2. CASE n # 0
    <3> DEFINE last == resultPath[n]
    <3>1. location = closeQ[last] /\ last \in Way!Visited /\ location \in Way!Visited
      BY <1>3, <1>4, <2>2 DEF WayBack
    <3>2. target \in Way!Visited
      BY <1>3 DEF WayBack
    <3>3. moved[last] = moved[target] - (n - 1)
      BY <1>3, <2>2 DEF Back
    <3>4. ComesFrom(last, location, moved[last])
      BY <1>3, <3>1 DEF Exact
    <3>5. location # Way!None
      <4>1. Way!None \notin Way!Cells
        BY DEF Way!None, Way!Cells, Way!AStarAssumption
      <4>2. Way!Visited \subseteq Way!Cells
        BY <1>3 DEF SearchTypes, SearchInv
      <4> HIDE DEF location
      <4> QED
        BY <3>1, <4>1, <4>2
    <3>6. moved[last] = moved[location] + 1
      BY <3>4, <3>5 DEF ComesFrom
    <3>7. moved[location] \in Nat /\ moved[target] \in Nat
      BY <1>3, <3>1, <3>2 DEF Exact, IsDistance
    <3> HIDE DEF last
    <3> QED
      BY <1>3, <3>1, <3>3, <3>6, <3>7
  <2> QED
    BY <2>1, <2>2
<1>6. /\ Len(resultPath') = n + 1 /\ resultPath'[n + 1] = location
      /\ \A i \in 1..n : resultPath'[i] = resultPath[i]
      /\ resultPath' # <<>>
  <2>1. location \in Way!Cells
    BY <1>3, <1>5 DEF SearchTypes, SearchInv
  <2> HIDE DEF location
  <2> QED
    BY <1>1, <1>3, <2>1
<1>7. n # 0 => location = closeQ[resultPath[n]]
  BY <1>4
<1>8. n = 0 => location = target
  BY <1>4
<1> HIDE DEF n, location
<1>9. Exact' /\ Queued'
  BY <1>1, <1>2, <1>3 DEF Exact, IsDistance, Queued, ComesFrom
<1>10. Back'
  <2> SUFFICES ASSUME NEW i \in 1..(n + 1)
               PROVE  /\ resultPath'[i] \in Way!Visited
                      /\ moved[resultPath'[i]] = moved[target] - (i - 1)
                      /\ i > 1 => closeQ[resultPath'[i - 1]] = resultPath'[i]
    BY <1>1, <1>2, <1>6 DEF Back
  <2>1. CASE i = n + 1
    <3>1. i - 1 = n /\ (i > 1 => n \in 1..n)
      BY <1>3, <2>1
    <3> QED
      BY <1>5, <1>6, <1>7, <2>1, <3>1
  <2>2. CASE i # n + 1
    <3>1. i \in 1..n /\ (i > 1 => i - 1 \in 1..n)
      BY <1>3, <2>2
    <3>2. i \in 1..Len(resultPath)
      BY <3>1 DEF n
    <3> QED
      BY <1>3, <1>6, <3>1, <3>2 DEF Back
  <2> QED
    BY <2>1, <2>2
<1>11. resultPath'[1] = target'
  <2>1. CASE n = 0
    BY <1>1, <1>6, <1>8, <2>1
  <2>2. CASE n # 0
    <3>1. 1 \in 1..n
      BY <1>3, <2>2
    <3> QED
      BY <1>1, <1>3, <1>4, <1>6, <2>2, <3>1
  <2> QED
    BY <2>1, <2>2
<1>12. pc' # "search" /\ (pc' = "done" => closeQ'[resultPath'[Len(resultPath')]] = Way!None)
  BY <1>1, <1>6
<1> QED
  BY <1>6, <1>9, <1>10, <1>11, <1>12 DEF WayInv

LEMMA WayStep ==
    ASSUME Way!AStarAssumption, WayInv, Way!Next
    PROVE  WayInv'
<1>1. SearchTypes'
  BY SearchTypesStep DEF WayInv
<1>2. CASE Way!Search
  BY <1>1, <1>2, WaySkip, WayVisit DEF Way!Search
<1> QED
  BY <1>1, <1>2, WayGiveUp, WayPath DEF Way!Next

(* A distance within the map is what Steps chooses.                        *)
LEMMA StepsIsDistance ==
    ASSUME Way!AStarAssumption, pos \in Way!Cells, NEW c, NEW d, IsDistance(c, d),
           d <= Cardinality(Way!Cells)
    PROVE  c \in Way!Reachable /\ Way!Steps(c) = d
<1> DEFINE N == Cardinality(Way!Cells)
           Is(k) == c \in Way!Within(k) /\ (k = 0 \/ c \notin Way!Within(k - 1))
<1>1. N \in Nat /\ d \in 0..N /\ c \in Way!Within(d)
  BY CellsAreFinite, FS_CardinalityType DEF IsDistance
<1>2. c \in Way!Reachable
  <2>1. Way!Within(d) \subseteq Way!Within(N)
    BY <1>1, WithinGrows
  <2> QED
    BY <1>1, <2>1, WayCardinality DEF Way!Reachable
<1>3. Is(d)
  <2>1. d # 0 => d - 1 \in Nat /\ ~(d <= d - 1)
    BY <1>1
  <2> QED
    BY <1>1, <2>1 DEF IsDistance
<1>4. ASSUME NEW k \in 0..N, Is(k) PROVE k = d
  <2>1. k \in Nat /\ d <= k
    BY <1>1, <1>4 DEF IsDistance
  <2>2. ASSUME d < k PROVE FALSE
    <3>1. k - 1 \in Nat /\ d <= k - 1 /\ k # 0 /\ d \in Nat
      BY <1>1, <2>1, <2>2
    <3>2. Way!Within(d) \subseteq Way!Within(k - 1)
      BY <3>1, WithinGrows
    <3> QED
      BY <1>1, <1>4, <3>1, <3>2
  <2> QED
    BY <1>1, <2>1, <2>2
<1>5. Way!Steps(c) = CHOOSE k \in 0..N : Is(k)
  BY WayCardinality DEF Way!Steps
<1> HIDE DEF N, Is
<1>6. Way!Steps(c) = d
  BY <1>1, <1>3, <1>4, <1>5
<1> QED
  BY <1>2, <1>6

LEMMA VisitedExactly ==
    ASSUME Way!AStarAssumption, WayInv, NEW c \in Way!Visited
    PROVE  c \in Way!Reachable /\ Way!Steps(c) = moved[c] /\ moved[c] \in Nat
<1>1. pos \in Way!Cells /\ IsDistance(c, moved[c]) /\ moved[c] <= Cardinality(Way!Cells)
  BY DEF WayInv, SearchTypes, Exact
<1> QED
  BY <1>1, StepsIsDistance DEF IsDistance

LEMMA WayIsShortest == ASSUME Way!AStarAssumption, WayInv PROVE Way!PathIsShortest
<1> SUFFICES ASSUME pc = "done"
             PROVE  /\ resultPath = <<>> <=> target \notin Way!Reachable
                    /\ resultPath # <<>> =>
                         /\ resultPath[1] = target /\ resultPath[Len(resultPath)] = pos
                         /\ \A i \in 1..(Len(resultPath) - 1) :
                               resultPath[i] \in Way!Next4(resultPath[i + 1])
                         /\ Len(resultPath) = Way!Steps(target) + 1
  BY DEF Way!PathIsShortest
<1>1. SearchTypes /\ Exact /\ Back
  BY DEF WayInv
<1>2. ASSUME resultPath = <<>> PROVE target \notin Way!Reachable
  <2>1. openQ = {} /\ Frontier
    BY <1>2 DEF WayInv
  <2>2. Cardinality(Way!Cells) \in Nat
    BY CellsAreFinite, FS_CardinalityType
  <2>3. target \notin Way!Visited
    BY <2>1 DEF Frontier
  <2>4. target \notin Way!Within(Cardinality(Way!Cells))
    BY <1>1, <2>1, <2>2, <2>3, QueueIsAhead
  <2> QED
    BY <2>4, WayCardinality DEF Way!Reachable
<1>3. ASSUME resultPath # <<>>
      PROVE  /\ target \in Way!Reachable
             /\ resultPath[1] = target /\ resultPath[Len(resultPath)] = pos
             /\ \A i \in 1..(Len(resultPath) - 1) :
                   resultPath[i] \in Way!Next4(resultPath[i + 1])
             /\ Len(resultPath) = Way!Steps(target) + 1
  <2> DEFINE n == Len(resultPath)
  <2>1. n \in Nat /\ n # 0 /\ 1 \in 1..n /\ n \in 1..n
    BY <1>1, <1>3 DEF SearchTypes
  <2>2. resultPath[1] = target /\ closeQ[resultPath[n]] = Way!None
    BY <1>3 DEF WayInv
  <2>3. \A i \in 1..n : /\ resultPath[i] \in Way!Visited
                        /\ moved[resultPath[i]] = moved[target] - (i - 1)
                        /\ i > 1 => closeQ[resultPath[i - 1]] = resultPath[i]
    BY <1>1 DEF Back
  <2> HIDE DEF n
  <2>4. target \in Way!Visited
    BY <2>1, <2>2, <2>3
  <2>5. target \in Way!Reachable /\ Way!Steps(target) = moved[target] /\ moved[target] \in Nat
    BY <2>4, VisitedExactly
  <2>6. resultPath[n] = pos /\ moved[resultPath[n]] = 0
    BY <1>1, <2>1, <2>2, <2>3 DEF Exact, ComesFrom
  <2>7. n = Way!Steps(target) + 1
    BY <2>1, <2>3, <2>5, <2>6
  <2>8. ASSUME NEW i \in 1..(n - 1) PROVE resultPath[i] \in Way!Next4(resultPath[i + 1])
    <3>1. i \in 1..n /\ i + 1 \in 1..n /\ i + 1 > 1 /\ i + 1 - 1 = i
      BY <2>1
    <3>2. closeQ[resultPath[i]] = resultPath[i + 1] /\ resultPath[i] \in Way!Visited
          /\ resultPath[i + 1] \in Way!Visited
      BY <2>3, <3>1
    <3>3. resultPath[i + 1] # Way!None
      <4>1. Way!None \notin Way!Cells
        BY DEF Way!None, Way!Cells, Way!AStarAssumption
      <4>2. Way!Visited \subseteq Way!Cells
        BY <1>1 DEF SearchTypes, SearchInv
      <4> QED
        BY <3>2, <4>1, <4>2
    <3> QED
      BY <1>1, <3>2, <3>3 DEF Exact, ComesFrom
  <2> QED
    BY <2>2, <2>5, <2>6, <2>7, <2>8 DEF n
<1> QED
  BY <1>2, <1>3

-----------------------------------------------------------------------------
(***************************************************************************)
(* FinalViews. NobodyMissed speaks of the end; on the way there, each pair *)
(* of a player and an object in its sight is owed: the object is in the    *)
(* list, or an instruction is still to come that puts it there (AllOwed).  *)
(* That nothing takes it out again is the rest of ViewInv, below.          *)
(***************************************************************************)

(* Flatten makes one program of several, of instructions of the same set.   *)
LEMMA Flattened ==
    ASSUME NEW w, NEW S, NEW seqs \in Seq(Seq(S))
    PROVE  Views(w)!Flatten(seqs) \in Seq(S)
<1> DEFINE n == Len(seqs)
           After(f, i) == IF i = 0 THEN <<>> ELSE f[i - 1] \o seqs[i]
           Upto(m) == \E f \in [0..m -> Seq(S)] : \A i \in 0..m : f[i] = After(f, i)
           upto == CHOOSE f : f = [i \in 0..n |-> After(f, i)]
<1>1. n \in Nat /\ \A i \in 1..n : seqs[i] \in Seq(S)
  OBVIOUS
<1>2. Views(w)!Flatten(seqs) = upto[n]
  BY DEF Views!Flatten
<1>3. Upto(0)
  <2> DEFINE f == [i \in 0..0 |-> <<>>]
  <2>1. f \in [0..0 -> Seq(S)] /\ \A i \in 0..0 : f[i] = After(f, i)
    OBVIOUS
  <2> QED
    BY <2>1
<1> HIDE DEF n
<1>4. ASSUME NEW m \in Nat, m < n, Upto(m) PROVE Upto(m + 1)
  <2>1. PICK f \in [0..m -> Seq(S)] : \A i \in 0..m : f[i] = After(f, i)
    BY <1>4
  <2> DEFINE last == f[m] \o seqs[m + 1]
             g == [i \in 0..(m + 1) |-> IF i = m + 1 THEN last ELSE f[i]]
  <2>2. m + 1 \in 1..n /\ f[m] \in Seq(S)
    BY <1>1, <1>4
  <2>3. last \in Seq(S)
    BY <1>1, <2>2
  <2> HIDE DEF last
  <2>4. g \in [0..(m + 1) -> Seq(S)]
    BY <2>3
  <2>5. ASSUME NEW i \in 0..(m + 1) PROVE g[i] = After(g, i)
    <3>1. CASE i = m + 1
      <4>1. g[i] = last /\ g[i - 1] = f[m] /\ i # 0 /\ seqs[i] = seqs[m + 1]
        BY <3>1
      <4> QED
        BY <4>1 DEF last
    <3>2. CASE i # m + 1
      <4>1. i \in 0..m /\ g[i] = f[i]
        BY <3>2
      <4>2. i # 0 => i - 1 \in 0..(m + 1) /\ i - 1 # m + 1
        BY <4>1
      <4>3. i # 0 => g[i - 1] = f[i - 1]
        BY <4>2
      <4>4. f[i] = After(f, i)
        BY <2>1, <4>1
      <4> QED
        BY <4>1, <4>3, <4>4
    <3> QED
      BY <3>1, <3>2
  <2> QED
    BY <2>4, <2>5
<1>5. ASSUME NEW m \in 0..n PROVE Upto(m)
  <2> DEFINE Bad == {k \in Nat : k <= n /\ ~Upto(k)}
  <2> HIDE DEF Upto
  <2>1. SUFFICES ASSUME Bad # {} PROVE FALSE
    BY <1>1
  <2>2. PICK k \in Bad : \A j \in Bad : k <= j
    BY <2>1, Least
  <2>3. k # 0
    BY <1>3, <2>2
  <2>4. k - 1 \in Nat /\ k - 1 < n /\ k - 1 \notin Bad /\ k - 1 + 1 = k
    BY <1>1, <2>2, <2>3
  <2>5. Upto(k - 1)
    BY <1>1, <2>4
  <2>6. Upto(k - 1 + 1)
    BY <1>4, <2>4, <2>5
  <2> QED
    BY <2>2, <2>4, <2>6
<1>6. PICK f \in [0..n -> Seq(S)] : \A i \in 0..n : f[i] = After(f, i)
  <2>1. n \in 0..n
    BY <1>1
  <2>2. Upto(n)
    BY SMTT(60), <1>5, <2>1
  <2> QED
    BY <2>2
<1>7. upto = [i \in 0..n |-> After(upto, i)]
  <2>1. f = [i \in 0..n |-> After(f, i)]
    BY <1>6
  <2> QED
    BY <2>1
<1> HIDE DEF upto
<1>8. ASSUME NEW i \in 0..n PROVE upto[i] = After(upto, i)
  BY <1>7
<1>9. ASSUME NEW m \in 0..n PROVE upto[m] \in Seq(S)
  <2> DEFINE Bad == {k \in Nat : k <= n /\ upto[k] \notin Seq(S)}
  <2> SUFFICES ASSUME upto[m] \notin Seq(S) PROVE FALSE
    OBVIOUS
  <2>1. m \in Bad
    BY <1>1
  <2>2. PICK k \in Bad : \A j \in Bad : k <= j
    BY <2>1, Least
  <2>3. k \in 0..n /\ upto[k] = After(upto, k)
    BY <1>1, <1>8, <2>2
  <2>4. CASE k = 0
    <3>1. upto[k] = <<>>
      BY <2>3, <2>4
    <3>2. <<>> \in Seq(S)
      OBVIOUS
    <3> QED
      BY <2>2, <3>1, <3>2
  <2>5. CASE k # 0
    <3>1. k - 1 \in Nat /\ k - 1 <= n /\ k - 1 \notin Bad /\ k \in 1..n
      BY <1>1, <2>2, <2>5
    <3>2. upto[k - 1] \in Seq(S) /\ seqs[k] \in Seq(S)
      BY <1>1, <3>1
    <3>3. upto[k] = upto[k - 1] \o seqs[k]
      BY <2>3, <2>5
    <3>4. upto[k] \in Seq(S)
      BY <3>2, <3>3
    <3> QED
      BY <2>2, <3>4
  <2> QED
    BY <2>4, <2>5
<1> QED
  BY <1>1, <1>2, <1>9

(* What a program consists of. *)
Items(T) == {T[i] : i \in 1..Len(T)}

LEMMA ItemsOf ==
    ASSUME NEW S, NEW T \in Seq(S)
    PROVE  /\ Items(T) \subseteq S
           /\ \A U : Items(T) \subseteq U => T \in Seq(U)
           /\ T # <<>> => /\ Items(T) = {Head(T)} \cup Items(Tail(T))
                          /\ Head(T) \in S /\ Tail(T) \in Seq(S)
           /\ T = <<>> => Items(T) = {}
<1>1. Len(T) \in Nat /\ \A i \in 1..Len(T) : T[i] \in S
  OBVIOUS
<1>2. Items(T) \subseteq S
  BY <1>1 DEF Items
<1>3. ASSUME NEW U, Items(T) \subseteq U PROVE T \in Seq(U)
  <2>1. \A i \in 1..Len(T) : T[i] \in U
    BY <1>3 DEF Items
  <2>2. T \in [1..Len(T) -> U]
    BY <2>1
  <2> QED
    BY <1>1, <2>2
<1>4. ASSUME T # <<>>
      PROVE  /\ Items(T) = {Head(T)} \cup Items(Tail(T))
             /\ Head(T) \in S /\ Tail(T) \in Seq(S)
  <2> DEFINE R == Tail(T)
             n == Len(T)
  <2>1. /\ Head(T) = T[1] /\ R \in Seq(S) /\ Len(R) = n - 1
        /\ n \in Nat /\ n >= 1 /\ Head(T) \in S
        /\ \A i \in 1..(n - 1) : R[i] = T[i + 1]
    BY <1>1, <1>4
  <2> HIDE DEF R, n
  <2>2. \A i \in 1..n : i = 1 \/ (i - 1 \in 1..(n - 1) /\ R[i - 1] = T[i])
    BY <2>1
  <2>3. Items(T) = {T[i] : i \in 1..n} /\ Items(R) = {R[i] : i \in 1..(n - 1)}
    BY <2>1 DEF Items, n
  <2>4. Items(T) \subseteq {Head(T)} \cup Items(R)
    BY ZenonT(60), <2>1, <2>2, <2>3
  <2>5. \A i \in 1..(n - 1) : i + 1 \in 1..n
    BY <2>1
  <2>6. {Head(T)} \cup Items(R) \subseteq Items(T)
    <3>1. T[1] \in Items(T)
      BY <2>1, <2>3
    <3>2. Items(R) \subseteq Items(T)
      BY <2>1, <2>3, <2>5
    <3> QED
      BY <2>1, <3>1, <3>2
  <2> QED
    BY <2>1, <2>4, <2>6 DEF R
<1> QED
  BY <1>2, <1>3, <1>4 DEF Items

LEMMA ItemsJoin ==
    ASSUME NEW S, NEW A \in Seq(S), NEW B \in Seq(S)
    PROVE  /\ A \o B \in Seq(S) /\ Len(A \o B) = Len(A) + Len(B)
           /\ Items(A \o B) = Items(A) \cup Items(B)
           /\ \A i \in 1..Len(A) : (A \o B)[i] = A[i]
           /\ \A i \in 1..Len(B) : (A \o B)[Len(A) + i] = B[i]
           /\ A = <<>> => A \o B = B
           /\ B = <<>> => A \o B = A
<1> DEFINE C == A \o B
           m == Len(A)
           n == Len(B)
<1>1. /\ C \in Seq(S) /\ Len(C) = m + n /\ m \in Nat /\ n \in Nat
      /\ \A i \in 1..(m + n) : C[i] = IF i <= m THEN A[i] ELSE B[i - m]
  BY ConcatProperties
<1>2. (A = <<>> => C = B) /\ (B = <<>> => C = A)
  BY ConcatEmptySeq
<1>3. Items(A) = {A[i] : i \in 1..m} /\ Items(B) = {B[i] : i \in 1..n}
  BY DEF Items
<1> HIDE DEF C, m, n
<1>4. Items(C) = {C[i] : i \in 1..(m + n)}
  BY <1>1 DEF Items
<1>5. /\ \A i \in 1..m : i \in 1..(m + n) /\ C[i] = A[i]
      /\ \A i \in 1..n : m + i \in 1..(m + n) /\ C[m + i] = B[i]
  BY <1>1
<1>6. \A i \in 1..(m + n) : (i \in 1..m /\ C[i] = A[i])
                         \/ (i - m \in 1..n /\ C[i] = B[i - m])
  BY <1>1
<1>7. Items(C) = Items(A) \cup Items(B)
  BY <1>3, <1>4, <1>5, <1>6
<1> QED
  BY <1>1, <1>2, <1>5, <1>7 DEF C, m, n

LEMMA ItemsOfOne ==
    ASSUME NEW a
    PROVE  Items(<<a>>) = {a} /\ <<a>> \in Seq({a}) /\ Len(<<a>>) = 1 /\ <<a>>[1] = a
  BY DEF Items

LEMMA Cons ==
    ASSUME NEW S, NEW a \in S, NEW r \in Seq(S)
    PROVE  /\ <<a>> \o r \in Seq(S) /\ <<a>> \o r # <<>>
           /\ Head(<<a>> \o r) = a /\ Tail(<<a>> \o r) = r
<1>1. <<a>> \in Seq(S) /\ Len(<<a>>) = 1 /\ Len(r) \in Nat
  OBVIOUS
<1>2. /\ <<a>> \o r \in Seq(S) /\ Len(<<a>> \o r) = 1 + Len(r)
      /\ \A i \in 1..(1 + Len(r)) : (<<a>> \o r)[i] = IF i = 1 THEN a ELSE r[i - 1]
  BY <1>1, ConcatProperties
<1> DEFINE c == <<a>> \o r
<1> HIDE DEF c
<1>3. c \in Seq(S) /\ Len(c) = 1 + Len(r) /\ c # <<>>
      /\ \A i \in 1..(1 + Len(r)) : c[i] = IF i = 1 THEN a ELSE r[i - 1]
  BY <1>1, <1>2 DEF c
<1>4. Tail(c) \in Seq(S) /\ Len(Tail(c)) = Len(r)
      /\ \A i \in 1..Len(r) : Tail(c)[i] = r[i]
  BY <1>1, <1>3
<1>5. Tail(c) = r
  BY <1>4, SeqEqual
<1>6. Head(c) = a
  BY <1>1, <1>3
<1> QED
  BY <1>3, <1>5, <1>6 DEF c

-----------------------------------------------------------------------------
(***************************************************************************)
(* FinalViews: nobody is missed. Lives is 1, so that a client that has     *)
(* left its slot never comes back to it; nor does one that has sent its    *)
(* requests in disorder ever count as orderly again. Nothing is said of    *)
(* either, and both are called Left.                                       *)
(*                                                                         *)
(* Of two objects it is said that they                                     *)
(*   - are Apart, if they will never both be in the game and near;         *)
(*   - have Met, if one has found the other near, or they are Apart: only  *)
(*     objects that have met are put in each other's lists;                *)
(*   - do not go together (NotBoth), if they are Apart or the same: only   *)
(*     then one is taken out of the other's list.                          *)
(* What is once true of two objects stays so (Steady).                     *)
(***************************************************************************)
Left(w, x) ==
    x \in Views(w)!Clients /\ lives[x] = 1 /\ (~isConnect[x] \/ ~orderly[x])
Placed(w, x) == x \in Views(w)!Clients => pos[x] # -1
Born(w, x) == x \in Views(w)!Clients => lives[x] = 1
Ready(w, x) == Placed(w, x) \/ Left(w, x)

Apart(w, a, b) ==
    \/ Left(w, a) \/ Left(w, b)
    \/ Placed(w, a) /\ Placed(w, b) /\ ~Views(w)!isNear(a, b)

NotBoth(w, a, b) == a = b \/ Apart(w, a, b)

Met(w, a, b) ==
    \/ NotBoth(w, a, b)
    \/ /\ Views(w)!isNear(a, b) /\ Born(w, a) /\ Born(w, b)
       /\ Placed(w, a) \/ Placed(w, b)

(* The instructions of a walk around: looks, and what begins and ends them. *)
Ends == {"sort", "rest", "listAll"}
Begins == {"copy", "restart"}
RoundOps == {"look", "lookBefore"} \cup Begins \cup Ends
ViewOps == RoundOps \cup {"place", "greet", "greetNpc", "wake", "insert", "erase", "list",
                          "meet", "part", "add", "remove"}

ViewInstr(w) == ViewOps \X Views(w)!Objects \X Views(w)!Objects

(* What an instruction may say in a state.                                 *)
Fit(w, i) ==
    /\ i \in ViewInstr(w)
    /\ i[1] = "place" => Left(w, i[2])
    /\ i[1] \in {"erase", "part"} => NotBoth(w, i[2], i[3])
    /\ i[1] \in {"insert", "list", "meet"} => Met(w, i[2], i[3])
    /\ i[1] \in {"greet", "greetNpc"} => Ready(w, i[2]) /\ i[2] \in Views(w)!Clients
    /\ i[1] \in {"greet", "lookBefore"} => i[3] \in Views(w)!Clients
    /\ i[1] = "greetNpc" => i[3] \in Views(w)!Npcs
    /\ i[1] \in Begins => i[3] = i[2]

Last(T) == T[Len(T)]

(* A program has one walk around at most under way or before it, at its    *)
(* end, of one object; copy and restart come before the looks.             *)
Ordered(T) ==
    \A i \in 1..Len(T) :
        /\ T[i][1] \in Ends => i = Len(T)
        /\ T[i][1] \in RoundOps => T[Len(T)][1] \in Ends /\ T[i][2] = T[Len(T)][2]
        /\ T[i][1] = "lookBefore" => T[Len(T)][1] = "sort"
        /\ T[i][1] \in Begins => \A j \in 1..i : T[j][1] # "look"

(* What a walk of object o has noted. Whom it has to compare with is still *)
(* to be looked at, or has been seen near, or does not go together with o. *)
Looking(w, o, T, all, some, seen) ==
    /\ (\E s \in Begins : <<s, o, o>> \in Items(T)) =>
          \A b \in all \ {o} : <<"look", o, b>> \in Items(T)
    /\ (\A s \in Begins : <<s, o, o>> \notin Items(T)) =>
          \A b \in some : b \in seen \/ <<"look", o, b>> \in Items(T) \/ NotBoth(w, o, b)

Walk(w, o, op, r) ==
    /\ Ready(w, o)
    /\ \A b \in r.old \cup r.new \cup r.before : Met(w, o, b)
    /\ r.before \subseteq Views(w)!Clients
    /\ op = "sort" => Looking(w, o, r.todo, Views(w)!Objects, r.old, r.new)
    /\ op = "rest" => Looking(w, o, r.todo, Views(w)!Clients, r.before, r.new)

WalkInv(w, r) ==
    r.todo # <<>> /\ Last(r.todo)[1] \in Ends =>
        Walk(w, Last(r.todo)[2], Last(r.todo)[1], r)

(* A login that has still to set the position finds none, or its client is *)
(* disorderly.                                                             *)
Waiting(w, t) ==
    t \in Views(w)!Clients /\ ((isConnect[t] /\ pos[t] = -1) \/ Left(w, t))

Prog(w, t) ==
    \/ Waiting(w, t) /\ task[t].todo = Views(w)!LoginProgram(t)
    \/ /\ \A i \in Items(task[t].todo) : Fit(w, i)
       /\ Ordered(task[t].todo) /\ WalkInv(w, task[t])

(* What will bring q into the list of p.                                   *)
Owing(p, q) ==
    {<<"greet", p, q>>, <<"greet", q, p>>, <<"greetNpc", p, q>>,
     <<"list", p, q>>, <<"insert", p, q>>}

Owes(w, p, q) ==
    q \in viewlist[p]
    \/ \E t \in Views(w)!Tasks : Items(task[t].todo) \cap Owing(p, q) # {}

Tasklets(w) ==
    [old : SUBSET Views(w)!Objects, before : SUBSET Views(w)!Objects,
     new : SUBSET Views(w)!Objects, todo : Seq(ViewInstr(w))]

ViewType(w) ==
    /\ isConnect \in [Views(w)!Clients -> BOOLEAN]
    /\ pos \in [Views(w)!Objects -> Int]
    /\ viewlist \in [Views(w)!Objects -> SUBSET Views(w)!Objects]
    /\ lives \in [Views(w)!Clients -> {0, 1}]
    /\ orderly \in [Views(w)!Clients -> BOOLEAN]
    /\ task \in [Views(w)!Tasks -> Tasklets(w)]
    /\ \A c \in Views(w)!Clients :
         lives[c] = 0 => pos[c] = -1 /\ ~isConnect[c]

ListMet(w) == \A a \in Views(w)!Objects : \A b \in viewlist[a] : Met(w, a, b)

Progs(w) == \A t \in Views(w)!Tasks : Prog(w, t)

InSight(w, p, q) ==
    /\ p \in Views(w)!InGame /\ q \in (Views(w)!InGame \cup Views(w)!Npcs) \ {p}
    /\ Views(w)!isNear(p, q)

AllOwed(w) ==
    \A p, q \in Views(w)!Objects : InSight(w, p, q) => Owes(w, p, q)

ViewInv(w) == ViewType(w) /\ ListMet(w) /\ Progs(w) /\ AllOwed(w)

-----------------------------------------------------------------------------
(* What a world consists of. *)
LEMMA WorldSizes ==
    ASSUME NEW w \in Worlds
    PROVE  /\ w.clients \in Nat /\ w.objects \in Nat /\ w.clients <= w.objects
           /\ w.width \in Nat \ {0} /\ w.radius \in Nat /\ w.requests \in Nat
           /\ Views(w)!Clients = 0..(w.clients - 1)
           /\ Views(w)!Npcs = w.clients..(w.objects - 1)
           /\ Views(w)!Objects = 0..(w.objects - 1)
           /\ Views(w)!Tasks = 0..w.objects
           /\ Views(w)!update = w.objects
           /\ Views(w)!Clients \subseteq Views(w)!Objects
           /\ Views(w)!Npcs \subseteq Views(w)!Objects
           /\ Views(w)!Objects \subseteq Views(w)!Tasks
           /\ Views(w)!update \in Views(w)!Tasks
           /\ Views(w)!Clients \cap Views(w)!Npcs = {}
           /\ Views(w)!Objects = Views(w)!Clients \cup Views(w)!Npcs
<1>1. /\ w.clients \in Nat /\ w.objects \in Nat /\ w.clients <= w.objects
      /\ w.width \in Nat \ {0} /\ w.radius \in Nat /\ w.requests \in Nat
  BY FinalServerAssumption DEF Views!FinalViewsAssumption
<1>2. /\ Views(w)!Clients = 0..(w.clients - 1)
      /\ Views(w)!Npcs = w.clients..(w.objects - 1)
      /\ Views(w)!Objects = Views(w)!Clients \cup Views(w)!Npcs
      /\ Views(w)!Tasks = Views(w)!Objects \cup {w.objects}
      /\ Views(w)!update = w.objects
  BY DEF Views!Clients, Views!Npcs, Views!Objects, Views!Tasks, Views!update
<1>3. Views(w)!Objects = 0..(w.objects - 1) /\ Views(w)!Tasks = 0..w.objects
  BY <1>1, <1>2
<1>4. Views(w)!Clients \cap Views(w)!Npcs = {}
  BY <1>1, <1>2
<1> QED
  BY <1>1, <1>2, <1>3, <1>4

-----------------------------------------------------------------------------
(* What a step of task t may do to positions and connections: an orderly   *)
(* client takes a position when it has none, and gives it up when it       *)
(* leaves.                                                                 *)
Kept(w, t) ==
    /\ \A x \in Views(w)!Clients :
         /\ lives[x] = 1 => lives'[x] = 1
         /\ Left(w, x) => Left(w, x)'
         /\ pos'[x] = pos[x] \/ pos[x] = -1 \/ Left(w, x)'
         /\ x # t /\ isConnect[x] /\ pos[x] = -1 =>
              (isConnect'[x] /\ pos'[x] = -1) \/ Left(w, x)'
    /\ \A n \in Views(w)!Npcs : pos'[n] = pos[n]

LEMMA Steady ==
    ASSUME NEW w \in Worlds, NEW t, Kept(w, t),
           NEW a \in Views(w)!Objects, NEW b \in Views(w)!Objects
    PROVE  /\ Placed(w, a) => Placed(w, a)' \/ Left(w, a)'
           /\ Placed(w, a) => pos'[a] = pos[a] \/ Left(w, a)'
           /\ Left(w, a) => Left(w, a)'
           /\ Born(w, a) => Born(w, a)'
           /\ Ready(w, a) => Ready(w, a)'
           /\ NotBoth(w, a, b) => NotBoth(w, a, b)'
           /\ Met(w, a, b) => Met(w, a, b)'
<1> DEFINE C == Views(w)!Clients
           Sound(x) == /\ Placed(w, x) => Placed(w, x)' \/ Left(w, x)'
                       /\ Placed(w, x) => pos'[x] = pos[x] \/ Left(w, x)'
                       /\ Left(w, x) => Left(w, x)'
                       /\ Born(w, x) => Born(w, x)'
                       /\ Ready(w, x) => Ready(w, x)'
                       /\ Placed(w, x) \/ Placed(w, x)' \/ pos'[x] = pos[x]
<1>1. ASSUME NEW x \in Views(w)!Objects PROVE Sound(x)
  <2>1. CASE x \in Views(w)!Clients
    <3>1. /\ lives[x] = 1 => lives'[x] = 1
          /\ Left(w, x) => Left(w, x)'
          /\ pos'[x] = pos[x] \/ pos[x] = -1 \/ Left(w, x)'
      BY <2>1 DEF Kept
    <3>2. /\ Placed(w, x) <=> pos[x] # -1
          /\ Placed(w, x)' <=> pos'[x] # -1
          /\ Born(w, x) <=> lives[x] = 1
          /\ Born(w, x)' <=> lives'[x] = 1
      BY <2>1 DEF Placed, Born, Views!Clients
    <3> QED
      BY <3>1, <3>2 DEF Ready
  <2>2. CASE x \notin Views(w)!Clients
    <3>1. x \in Views(w)!Npcs
      BY <2>2, WorldSizes
    <3>2. pos'[x] = pos[x]
      BY <3>1 DEF Kept
    <3>3. /\ Placed(w, x) /\ Placed(w, x)' /\ Born(w, x) /\ Born(w, x)'
          /\ ~Left(w, x)
      BY <2>2 DEF Placed, Born, Left, Views!Clients
    <3> QED
      BY <3>2, <3>3 DEF Ready
  <2> QED
    BY <2>1, <2>2
<1>2. Sound(a) /\ Sound(b)
  BY <1>1
<1> HIDE DEF Sound
<1>3. pos'[a] = pos[a] /\ pos'[b] = pos[b] => (Views(w)!isNear(a, b)' <=> Views(w)!isNear(a, b))
  BY DEF Views!isNear
<1>4. NotBoth(w, a, b) => NotBoth(w, a, b)'
  BY <1>2, <1>3 DEF Sound, NotBoth, Apart
<1>5. Met(w, a, b) => Met(w, a, b)'
  BY <1>2, <1>3, <1>4 DEF Sound, Met, NotBoth, Apart
<1> QED
  BY <1>2, <1>4, <1>5 DEF Sound

LEMMA Symmetric ==
    ASSUME NEW w \in Worlds, ViewType(w),
           NEW a \in Views(w)!Objects, NEW b \in Views(w)!Objects
    PROVE  /\ Views(w)!isNear(a, b) <=> Views(w)!isNear(b, a)
           /\ NotBoth(w, a, b) <=> NotBoth(w, b, a)
           /\ Met(w, a, b) <=> Met(w, b, a)
<1>1. pos[a] \in Int /\ pos[b] \in Int
  BY DEF ViewType
<1>2. Views(w)!isNear(a, b) <=> Views(w)!isNear(b, a)
  BY DEF Views!isNear
<1> QED
  BY <1>2 DEF NotBoth, Apart, Met

-----------------------------------------------------------------------------
(* The order of a program, when its first instruction is taken off, and    *)
(* when others come first.                                                 *)
LEMMA OrderedTail ==
    ASSUME NEW S, NEW T \in Seq(S), T # <<>>, Ordered(T)
    PROVE  /\ Ordered(Tail(T))
           /\ Tail(T) # <<>> => Last(Tail(T)) = Last(T)
           /\ Head(T)[1] \in Ends => Tail(T) = <<>>
           /\ Head(T)[1] \in RoundOps => Last(T)[1] \in Ends /\ Head(T)[2] = Last(T)[2]
           /\ Head(T)[1] \in RoundOps \ Ends => Tail(T) # <<>>
           /\ Head(T)[1] = "lookBefore" => Last(T)[1] = "sort"
           /\ Head(T)[1] = "look" => \A i \in Items(T) : i[1] \notin Begins
<1> DEFINE R == Tail(T)
           n == Len(T)
<1>1. /\ n \in Nat /\ n >= 1 /\ R \in Seq(S) /\ Len(R) = n - 1 /\ Head(T) = T[1]
      /\ \A i \in 1..(n - 1) : R[i] = T[i + 1]
      /\ (R = <<>> <=> n = 1)
  <2>1. /\ n \in Nat /\ n >= 1 /\ R \in Seq(S) /\ Len(R) = n - 1 /\ Head(T) = T[1]
        /\ \A i \in 1..(n - 1) : R[i] = T[i + 1]
    OBVIOUS
  <2>2. \A s \in Seq(S) : s = <<>> <=> Len(s) = 0
    OBVIOUS
  <2> HIDE DEF R, n
  <2> QED
    BY <2>1, <2>2
<1>2. \A i \in 1..n : /\ T[i][1] \in Ends => i = n
                      /\ T[i][1] \in RoundOps => T[n][1] \in Ends /\ T[i][2] = T[n][2]
                      /\ T[i][1] = "lookBefore" => T[n][1] = "sort"
                      /\ T[i][1] \in Begins => \A j \in 1..i : T[j][1] # "look"
  BY DEF Ordered
<1>3. Items(T) = {T[i] : i \in 1..n}
  BY DEF Items
<1>4. Last(T) = T[n] /\ (n # 1 => Last(R) = T[n])
  <2>1. n # 1 => n - 1 \in 1..(n - 1) /\ n - 1 + 1 = n
    BY <1>1
  <2> QED
    BY <1>1, <2>1 DEF Last
<1> HIDE DEF R, n
<1>5. Ordered(R)
  <2>1. ASSUME NEW i \in 1..(n - 1)
        PROVE  /\ R[i][1] \in Ends => i = n - 1
               /\ R[i][1] \in RoundOps => R[n - 1][1] \in Ends /\ R[i][2] = R[n - 1][2]
               /\ R[i][1] = "lookBefore" => R[n - 1][1] = "sort"
               /\ R[i][1] \in Begins => \A j \in 1..i : R[j][1] # "look"
    <3>1. i + 1 \in 1..n /\ n - 1 \in 1..(n - 1) /\ R[i] = T[i + 1] /\ R[n - 1] = T[n]
      BY <1>1
    <3>2. \A j \in 1..i : j + 1 \in 1..(i + 1) /\ R[j] = T[j + 1]
      BY <1>1
    <3>3. R[i][1] \in Begins => \A j \in 1..i : R[j][1] # "look"
      BY <1>2, <3>1, <3>2
    <3>4. R[i][1] \in Ends => i = n - 1
      BY <1>1, <1>2, <3>1
    <3> QED
      BY <1>2, <3>1, <3>3, <3>4
  <2> QED
    BY <1>1, <2>1 DEF Ordered
<1>6. 1 \in 1..n /\ n \in 1..n /\ \A i \in 1..n : 1 \in 1..i
  BY <1>1
<1>7. Ends \subseteq RoundOps
  BY DEF RoundOps
<1>8. Head(T)[1] \in Ends => n = 1
  BY <1>1, <1>2, <1>6
<1>9. Head(T)[1] \in RoundOps \ Ends => n # 1
  BY <1>1, <1>2, <1>6
<1>10. Head(T)[1] = "look" => \A i \in Items(T) : i[1] \notin Begins
  BY <1>1, <1>2, <1>3, <1>6
<1> QED
  BY <1>1, <1>2, <1>4, <1>5, <1>6, <1>8, <1>9, <1>10 DEF R

LEMMA OrderedJoin ==
    ASSUME NEW S, NEW A \in Seq(S), NEW B \in Seq(S), Ordered(B),
           \A i \in Items(A) :
             /\ i[1] \notin Ends
             /\ i[1] \in RoundOps => B # <<>> /\ Last(B)[1] \in Ends /\ i[2] = Last(B)[2]
             /\ i[1] = "lookBefore" => Last(B)[1] = "sort"
             /\ i[1] \in Begins => \A j \in Items(A) : j[1] # "look"
             /\ i[1] = "look" => \A j \in Items(B) : j[1] \notin Begins
    PROVE  /\ Ordered(A \o B)
           /\ B # <<>> => A \o B # <<>> /\ Last(A \o B) = Last(B)
<1> DEFINE C == A \o B
           m == Len(A)
           n == Len(B)
<1>1. /\ C \in Seq(S) /\ Len(C) = m + n /\ m \in Nat /\ n \in Nat
      /\ \A i \in 1..m : C[i] = A[i] /\ A[i] \in Items(A)
      /\ \A i \in 1..n : C[m + i] = B[i] /\ B[i] \in Items(B)
      /\ (B = <<>> <=> n = 0)
  <2>1. Items(A) = {A[i] : i \in 1..m} /\ Items(B) = {B[i] : i \in 1..n}
    BY DEF Items
  <2>2. m \in Nat /\ n \in Nat /\ (B = <<>> <=> n = 0)
    OBVIOUS
  <2> HIDE DEF m, n
  <2> QED
    BY <2>1, <2>2, ItemsJoin DEF m, n
<1>2. \A i \in 1..n : /\ B[i][1] \in Ends => i = n
                      /\ B[i][1] \in RoundOps => B[n][1] \in Ends /\ B[i][2] = B[n][2]
                      /\ B[i][1] = "lookBefore" => B[n][1] = "sort"
                      /\ B[i][1] \in Begins => \A j \in 1..i : B[j][1] # "look"
  BY DEF Ordered
<1>3. Last(B) = B[n]
  BY DEF Last
<1>4. n # 0 => n \in 1..n /\ C[m + n] = B[n]
  <2> HIDE DEF m, n, C
  <2> QED
    BY <1>1
<1> HIDE DEF C, m, n
<1>5. ASSUME NEW i \in 1..(m + n)
      PROVE  /\ C[i][1] \in Ends => i = m + n
             /\ C[i][1] \in RoundOps => C[m + n][1] \in Ends /\ C[i][2] = C[m + n][2]
             /\ C[i][1] = "lookBefore" => C[m + n][1] = "sort"
             /\ C[i][1] \in Begins => \A j \in 1..i : C[j][1] # "look"
  <2>1. CASE i \in 1..m
    <3>1. C[i] = A[i] /\ A[i] \in Items(A)
      BY <1>1, <2>1
    <3>2. C[i][1] \in RoundOps => C[m + n] = Last(B)
      BY <1>1, <1>3, <1>4, <3>1
    <3>3. "lookBefore" \in RoundOps
      BY DEF RoundOps
    <3>4. \A j \in 1..i : C[j] \in Items(A)
      <4>1. \A j \in 1..i : j \in 1..m
        BY <1>1, <2>1
      <4> QED
        BY <1>1, <4>1
    <3> QED
      BY <3>1, <3>2, <3>3, <3>4
  <2>2. CASE i \notin 1..m
    <3>1. i - m \in 1..n /\ m + (i - m) = i /\ n # 0
      BY <1>1, <2>2
    <3>2. C[i] = B[i - m]
      BY <1>1, <3>1
    <3>3. C[i][1] \in Begins => \A j \in 1..i : C[j][1] # "look"
      <4>1. SUFFICES ASSUME C[i][1] \in Begins, NEW j \in 1..i PROVE C[j][1] # "look"
        OBVIOUS
      <4>2. CASE j \in 1..m
        <5>1. C[j] \in Items(A)
          BY <1>1, <4>2
        <5>2. B[i - m] \in Items(B)
          BY <1>1, <3>1
        <5> QED
          BY <3>2, <4>1, <5>1, <5>2
      <4>3. CASE j \notin 1..m
        <5>1. j - m \in 1..(i - m) /\ j - m \in 1..n /\ m + (j - m) = j
          BY <1>1, <3>1, <4>3
        <5>2. C[j] = B[j - m]
          BY <1>1, <5>1
        <5> QED
          BY <1>2, <3>1, <3>2, <4>1, <5>1, <5>2
      <4> QED
        BY <4>2, <4>3
    <3>4. C[i][1] \in Ends => i = m + n
      BY <1>1, <1>2, <3>1, <3>2
    <3> QED
      BY <1>2, <1>4, <3>1, <3>2, <3>3, <3>4
  <2> QED
    BY <2>1, <2>2
<1>6. Ordered(C)
  BY <1>1, <1>5 DEF Ordered
<1>7. ASSUME B # <<>> PROVE C # <<>> /\ Last(C) = Last(B)
  <2>1. n # 0 /\ m + n # 0
    BY <1>1, <1>7
  <2>2. C # <<>>
    BY <1>1, <2>1
  <2> QED
    BY <1>1, <1>3, <1>4, <2>1, <2>2 DEF Last
<1> QED
  BY <1>6, <1>7 DEF C

LEMMA OrderedPlain ==
    ASSUME NEW S, NEW A \in Seq(S), \A i \in Items(A) : i[1] \notin RoundOps
    PROVE  /\ Ordered(A)
           /\ A # <<>> => Last(A)[1] \notin Ends
<1>1. Ends \subseteq RoundOps /\ Begins \subseteq RoundOps /\ "lookBefore" \in RoundOps
  BY DEF RoundOps
<1>2. \A i \in 1..Len(A) : A[i][1] \notin RoundOps
  BY DEF Items
<1>3. A # <<>> => Len(A) \in 1..Len(A)
  OBVIOUS
<1> QED
  BY <1>1, <1>2, <1>3 DEF Ordered, Last

-----------------------------------------------------------------------------
(* Programs that a step leaves as they are stay right.                     *)
LEMMA FitSteady ==
    ASSUME NEW w \in Worlds, NEW t, Kept(w, t), NEW i, Fit(w, i)
    PROVE  Fit(w, i)'
<1>1. i \in ViewInstr(w) /\ i[2] \in Views(w)!Objects /\ i[3] \in Views(w)!Objects
  BY DEF Fit, ViewInstr
<1>2. ViewInstr(w)' = ViewInstr(w)
  BY DEF ViewInstr, Views!Objects, Views!Clients, Views!Npcs
<1>3. Views(w)!Clients' = Views(w)!Clients /\ Views(w)!Npcs' = Views(w)!Npcs
  BY DEF Views!Clients, Views!Npcs
<1>4. /\ Left(w, i[2]) => Left(w, i[2])'
      /\ Ready(w, i[2]) => Ready(w, i[2])'
      /\ NotBoth(w, i[2], i[3]) => NotBoth(w, i[2], i[3])'
      /\ Met(w, i[2], i[3]) => Met(w, i[2], i[3])'
  BY <1>1, Steady
<1> QED
  BY <1>1, <1>2, <1>3, <1>4 DEF Fit

LEMMA WalkSteady ==
    ASSUME NEW w \in Worlds, NEW t, Kept(w, t), NEW r \in Tasklets(w), WalkInv(w, r)
    PROVE  WalkInv(w, r)'
<1>1. r.todo \in Seq(ViewInstr(w))
      /\ r.old \subseteq Views(w)!Objects /\ r.new \subseteq Views(w)!Objects
      /\ r.before \subseteq Views(w)!Objects
  BY DEF Tasklets
<1>2. Views(w)!Clients' = Views(w)!Clients /\ Views(w)!Objects' = Views(w)!Objects
  BY DEF Views!Objects, Views!Clients, Views!Npcs
<1>3. ASSUME NEW o \in Views(w)!Objects, NEW op, Walk(w, o, op, r)
      PROVE  Walk(w, o, op, r)'
  <2>1. Ready(w, o)'
    BY <1>3, Steady DEF Walk
  <2>2. ASSUME NEW b \in r.old \cup r.new \cup r.before PROVE Met(w, o, b)'
    BY <1>1, <1>3, <2>2, Steady DEF Walk
  <2>3. ASSUME NEW T, NEW all, NEW some \in SUBSET Views(w)!Objects, NEW seen,
               Looking(w, o, T, all, some, seen)
        PROVE  Looking(w, o, T, all, some, seen)'
    <3>1. \A b \in some : NotBoth(w, o, b) => NotBoth(w, o, b)'
      BY Steady
    <3> QED
      BY <2>3, <3>1 DEF Looking, Items, Begins
  <2>4. op = "sort" => Looking(w, o, r.todo, Views(w)!Objects, r.old, r.new)'
    BY <1>1, <1>3, <2>3 DEF Walk
  <2>5. op = "rest" => Looking(w, o, r.todo, Views(w)!Clients, r.before, r.new)'
    BY <1>1, <1>3, <2>3 DEF Walk
  <2> QED
    BY <1>2, <1>3, <2>1, <2>2, <2>4, <2>5 DEF Walk, Looking
<1>4. r.todo # <<>> => Last(r.todo) \in ViewInstr(w)
  BY <1>1 DEF Last
<1>5. r.todo # <<>> => Last(r.todo)[2] \in Views(w)!Objects
  BY <1>4 DEF ViewInstr
<1>6. SUFFICES ASSUME r.todo # <<>>, Last(r.todo)[1] \in Ends
               PROVE  Walk(w, Last(r.todo)[2], Last(r.todo)[1], r)'
  BY DEF WalkInv, Last, Ends
<1> QED
  BY <1>3, <1>5, <1>6 DEF WalkInv

LEMMA ProgSteady ==
    ASSUME NEW w \in Worlds, ViewType(w), NEW t, Kept(w, t),
           NEW u \in Views(w)!Tasks, u # t, task'[u] = task[u], Prog(w, u)
    PROVE  Prog(w, u)'
<1>1. PICK r : r = task[u]
  OBVIOUS
<1>2. r \in Tasklets(w) /\ task'[u] = r
  BY <1>1 DEF ViewType
<1>3. CASE Waiting(w, u) /\ task[u].todo = Views(w)!LoginProgram(u)
  <2>1. Views(w)!Clients' = Views(w)!Clients
    BY DEF Views!Clients
  <2>2. Views(w)!LoginProgram(u)' = Views(w)!LoginProgram(u)
    BY DEF Views!LoginProgram, Views!GreetAll, Views!Others
  <2>3. Waiting(w, u)'
    BY <1>3, <2>1 DEF Kept, Waiting
  <2> QED
    BY <1>2, <1>3, <2>1, <2>2, <2>3 DEF Prog
<1>4. CASE /\ \A i \in Items(r.todo) : Fit(w, i)
           /\ Ordered(r.todo) /\ WalkInv(w, r)
  <2>1. \A i \in Items(r.todo) : Fit(w, i)'
    BY <1>4, FitSteady
  <2>2. WalkInv(w, r)'
    BY <1>2, <1>4, WalkSteady
  <2> QED
    BY <1>2, <1>4, <2>1, <2>2 DEF Prog
<1> QED
  BY <1>1, <1>3, <1>4 DEF Prog

-----------------------------------------------------------------------------
(* A program goes on: with more, and then what was left.                   *)
LEMMA GoesOn ==
    ASSUME NEW w \in Worlds, ViewType(w), NEW t \in Views(w)!Tasks, task[t].todo # <<>>,
           NEW M \in Seq(ViewInstr(w)), Views(w)!Go(t, M)
    PROVE  LET R == M \o Tail(task[t].todo)
           IN  /\ R \in Seq(ViewInstr(w))
               /\ Items(R) = Items(M) \cup Items(Tail(task[t].todo))
               /\ \A u \in Views(w)!Tasks : u # t => task'[u] = task[u]
               /\ task' \in [Views(w)!Tasks -> Tasklets(w)]
               /\ task'[t].todo = R
               /\ R # <<>> => /\ task'[t].old = task[t].old
                              /\ task'[t].before = task[t].before
                              /\ task'[t].new = task[t].new
<1> DEFINE Q == Tail(task[t].todo)
           R == M \o Q
           r == IF R = <<>> THEN Views(w)!Idle ELSE [task[t] EXCEPT !.todo = R]
<1>1. /\ task \in [Views(w)!Tasks -> Tasklets(w)] /\ task[t] \in Tasklets(w)
      /\ task[t].todo \in Seq(ViewInstr(w))
  BY DEF ViewType, Tasklets
<1>2. Q \in Seq(ViewInstr(w))
  BY <1>1, ItemsOf
<1>3. R \in Seq(ViewInstr(w)) /\ Items(R) = Items(M) \cup Items(Q)
  <2> HIDE DEF Q
  <2> QED
    BY <1>2, ItemsJoin
<1>4. task' = [task EXCEPT ![t] = r]
  BY DEF Views!Go
<1> HIDE DEF R, Q
<1>5. /\ r \in Tasklets(w) /\ r.todo = R
      /\ R # <<>> => r.old = task[t].old /\ r.before = task[t].before /\ r.new = task[t].new
  <2>1. CASE R = <<>>
    BY <1>3, <2>1 DEF Views!Idle, Tasklets
  <2>2. CASE R # <<>>
    BY <1>1, <1>3, <2>2 DEF Tasklets
  <2> QED
    BY <2>1, <2>2
<1> HIDE DEF r
<1>6. /\ task' \in [Views(w)!Tasks -> Tasklets(w)] /\ task'[t] = r
      /\ \A u \in Views(w)!Tasks : u # t => task'[u] = task[u]
  <2>1. r \in Tasklets(w)
    BY <1>5
  <2> QED
    BY <1>1, <1>4, <2>1
<1>7. /\ task'[t].todo = R
      /\ R # <<>> => /\ task'[t].old = task[t].old
                     /\ task'[t].before = task[t].before
                     /\ task'[t].new = task[t].new
  BY <1>5, <1>6
<1> QED
  BY <1>3, <1>6, <1>7 DEF R, Q

(* The first instruction of a program. *)
LEMMA Hand ==
    ASSUME NEW w \in Worlds, ViewType(w), NEW t \in Views(w)!Tasks, task[t].todo # <<>>
    PROVE  LET T == task[t].todo
               h == Head(T)
           IN  /\ T \in Seq(ViewInstr(w)) /\ Tail(T) \in Seq(ViewInstr(w))
               /\ Items(T) = {h} \cup Items(Tail(T))
               /\ h = <<h[1], Views(w)!First(t), Views(w)!Second(t)>>
               /\ h \in ViewInstr(w) /\ h[1] \in ViewOps
               /\ Views(w)!First(t) \in Views(w)!Objects
               /\ Views(w)!Second(t) \in Views(w)!Objects
               /\ h[2] = Views(w)!First(t) /\ h[3] = Views(w)!Second(t)
               /\ \A op : Views(w)!At(t, op) <=> h[1] = op
<1>1. task[t].todo \in Seq(ViewInstr(w))
  BY DEF ViewType, Tasklets
<1> DEFINE T == task[t].todo
<1>2. Items(T) = {Head(T)} \cup Items(Tail(T)) /\ Head(T) \in ViewInstr(w)
      /\ Tail(T) \in Seq(ViewInstr(w))
  BY <1>1, ItemsOf
<1> HIDE DEF T
<1>3. /\ Head(T) = <<Head(T)[1], Head(T)[2], Head(T)[3]>>
      /\ Head(T)[1] \in ViewOps /\ Head(T)[2] \in Views(w)!Objects
      /\ Head(T)[3] \in Views(w)!Objects
  BY <1>2 DEF ViewInstr
<1> QED
  BY <1>1, <1>2, <1>3 DEF Views!First, Views!Second, Views!At, T

(* A walk around goes on beside instructions that have nothing to do with  *)
(* it.                                                                     *)
LEMMA WalkGoesOn ==
    ASSUME NEW w \in Worlds, NEW r, NEW s, WalkInv(w, r)',
           s.old = r.old, s.new = r.new, s.before = r.before,
           r.todo # <<>>, Last(s.todo) = Last(r.todo),
           \A i : i[1] \in RoundOps => (i \in Items(s.todo) <=> i \in Items(r.todo))
    PROVE  WalkInv(w, s)'
<1>1. SUFFICES ASSUME Last(r.todo)[1] \in Ends
               PROVE  Walk(w, Last(r.todo)[2], Last(r.todo)[1], s)'
  BY DEF WalkInv, Last, Ends
<1>2. /\ \A o, b : <<"look", o, b>> \in Items(s.todo) <=> <<"look", o, b>> \in Items(r.todo)
      /\ \A o, b : \A x \in Begins :
           <<x, o, o>> \in Items(s.todo) <=> <<x, o, o>> \in Items(r.todo)
  <2>1. \A o, b : <<"look", o, b>>[1] = "look"
    OBVIOUS
  <2>2. \A o, x : <<x, o, o>>[1] = x
    OBVIOUS
  <2> QED
    BY <2>1, <2>2 DEF RoundOps
<1>3. \A o, all, some, seen :
        Looking(w, o, r.todo, all, some, seen)' => Looking(w, o, s.todo, all, some, seen)'
  BY ZenonT(60), <1>2 DEF Looking, Items, Begins
<1> QED
  BY <1>1, <1>3 DEF WalkInv, Walk, Last, Ends

LEMMA Advance ==
    ASSUME NEW w \in Worlds, ViewType(w), NEW t \in Views(w)!Tasks, Kept(w, t),
           task[t].todo # <<>>, Head(task[t].todo)[1] \notin RoundOps,
           \A i \in Items(Tail(task[t].todo)) : Fit(w, i)',
           Ordered(Tail(task[t].todo)), 
           \/ WalkInv(w, task[t]) /\ Ordered(task[t].todo)
           \/ \A i \in Items(Tail(task[t].todo)) : i[1] \notin RoundOps,
           NEW M \in Seq(ViewInstr(w)), Views(w)!Go(t, M),
           \A i \in Items(M) : Fit(w, i)' /\ i[1] \notin RoundOps
    PROVE  Prog(w, t)'
<1> DEFINE T == task[t].todo
           R == M \o Tail(T)
<1>1. /\ R \in Seq(ViewInstr(w)) /\ Items(R) = Items(M) \cup Items(Tail(T))
      /\ task' \in [Views(w)!Tasks -> Tasklets(w)] /\ task'[t].todo = R
      /\ R # <<>> => /\ task'[t].old = task[t].old
                     /\ task'[t].before = task[t].before
                     /\ task'[t].new = task[t].new
  BY GoesOn
<1>2. /\ T \in Seq(ViewInstr(w)) /\ Tail(T) \in Seq(ViewInstr(w))
      /\ Items(T) = {Head(T)} \cup Items(Tail(T))
  BY Hand
<1> HIDE DEF R, T
<1>3. T # <<>>
  BY DEF T
<1>4. \A i \in Items(R) : Fit(w, i)'
  BY <1>1 DEF T
<1>5. Ends \subseteq RoundOps /\ Begins \subseteq RoundOps
      /\ "look" \in RoundOps /\ "lookBefore" \in RoundOps
  BY DEF RoundOps
<1>6. Ordered(R) /\ (Tail(T) # <<>> => R # <<>> /\ Last(R) = Last(Tail(T)))
  <2>1. Ordered(Tail(T))
    BY DEF T
  <2> QED
    BY ZenonT(60), <1>2, <1>5, <2>1, OrderedJoin DEF R
<1>7. (Tail(T) = <<>> => R = M) /\ (M = <<>> => R = Tail(T))
  BY ZenonT(60), <1>2, ItemsJoin DEF R
<1>8. CASE \A i \in Items(R) : i[1] \notin RoundOps
  <2>1. R # <<>> => Last(R)[1] \notin Ends
    BY <1>1, <1>8, OrderedPlain
  <2>2. WalkInv(w, task[t])'
    BY <1>1, <2>1 DEF WalkInv
  <2> QED
    BY <1>1, <1>4, <1>6, <2>2 DEF Prog
<1>9. CASE \E i \in Items(R) : i[1] \in RoundOps
  <2>1. \E i \in Items(Tail(T)) : i[1] \in RoundOps
    BY <1>1, <1>9
  <2>2. Tail(T) # <<>>
    <3>1. Tail(T) = <<>> => Items(Tail(T)) = {}
      BY DEF Items
    <3> QED
      BY <2>1, <3>1
  <2>3. WalkInv(w, task[t]) /\ Ordered(T)
    BY <2>1 DEF T
  <2>4. Last(Tail(T)) = Last(T)
    BY <1>2, <1>3, <2>2, <2>3, OrderedTail
  <2>5. PICK r, s : r = task[t] /\ s = task'[t]
    OBVIOUS
  <2>6. r \in Tasklets(w) /\ WalkInv(w, r)'
    BY <2>3, <2>5, WalkSteady DEF ViewType
  <2>7. /\ s.old = r.old /\ s.new = r.new /\ s.before = r.before
        /\ s.todo = R /\ r.todo = T
    BY <1>1, <1>6, <2>2, <2>5 DEF T
  <2>8. \A i : i[1] \in RoundOps => (i \in Items(R) <=> i \in Items(T))
    BY <1>1, <1>2 DEF T
  <2>9. r.todo # <<>> /\ Last(s.todo) = Last(r.todo)
    BY <1>3, <1>6, <2>2, <2>4, <2>7
  <2>10. \A i : i[1] \in RoundOps => (i \in Items(s.todo) <=> i \in Items(r.todo))
    BY <2>7, <2>8
  <2>11. WalkInv(w, s)'
    BY <2>6, <2>7, <2>9, <2>10, WalkGoesOn
  <2> QED
    BY <1>1, <1>4, <1>6, <2>5, <2>11 DEF Prog
<1> QED
  BY <1>8, <1>9

-----------------------------------------------------------------------------
(* A login sets its position first, and then greets everybody.             *)
LEMMA LoginBegins ==
    ASSUME NEW w \in Worlds, NEW t \in Views(w)!Clients
    PROVE  LET T == Views(w)!LoginProgram(t)
               G == Views(w)!GreetAll(t)
           IN  /\ T \in Seq(ViewInstr(w)) /\ T # <<>> /\ Head(T) = <<"place", t, t>>
               /\ Tail(T) = G /\ G \in Seq(ViewInstr(w))
               /\ \A i \in Items(G) :
                    \/ i[1] = "greet" /\ i[2] = t /\ i[3] \in Views(w)!Clients
                    \/ i[1] = "greetNpc" /\ i[2] = t /\ i[3] \in Views(w)!Npcs
               /\ \A q \in Views(w)!Clients \ {t} : <<"greet", t, q>> \in Items(G)
               /\ \A q \in Views(w)!Npcs : <<"greetNpc", t, q>> \in Items(G)
<1> DEFINE C == w.clients
           N == w.objects
           A == [k \in 1..(C - 1) |-> <<"greet", t, Views(w)!Others(t)[k]>>]
           B == [k \in 1..(N - C) |-> <<"greetNpc", t, C + k - 1>>]
           P == << <<"place", t, t>> >>
           G == Views(w)!GreetAll(t)
           T == Views(w)!LoginProgram(t)
           S == ViewInstr(w)
<1>1. G = A \o B /\ T = P \o G
  BY DEF Views!GreetAll, Views!LoginProgram
<1>2. /\ C \in Nat /\ N \in Nat /\ C <= N /\ t \in 0..(C - 1)
      /\ Views(w)!Clients = 0..(C - 1) /\ Views(w)!Npcs = C..(N - 1)
      /\ Views(w)!Objects = 0..(N - 1)
  BY WorldSizes
<1>3. {"place", "greet", "greetNpc"} \subseteq ViewOps
  BY DEF ViewOps
<1>4. ASSUME NEW k \in 1..(C - 1)
      PROVE  Views(w)!Others(t)[k] = IF k <= t THEN k - 1 ELSE k
  BY <1>2 DEF Views!Others
<1> HIDE DEF C, N
<1>5. ASSUME NEW k \in 1..(C - 1)
      PROVE  /\ A[k] = <<"greet", t, Views(w)!Others(t)[k]>>
             /\ Views(w)!Others(t)[k] \in 0..(C - 1)
  BY <1>2, <1>4
<1>6. ASSUME NEW k \in 1..(N - C)
      PROVE  B[k] = <<"greetNpc", t, C + k - 1>> /\ C + k - 1 \in C..(N - 1)
  BY <1>2
<1>7. /\ <<"place", t, t>> \in S
      /\ \A x \in 0..(C - 1) : <<"greet", t, x>> \in S
      /\ \A x \in C..(N - 1) : <<"greetNpc", t, x>> \in S
  BY <1>2, <1>3 DEF ViewInstr
<1>8. A \in [1..(C - 1) -> S] /\ B \in [1..(N - C) -> S]
  <2> HIDE DEF S
  <2> QED
    BY <1>5, <1>6, <1>7
<1>9. /\ A \in Seq(S) /\ B \in Seq(S) /\ P \in Seq(S)
      /\ Items(A) = {A[k] : k \in 1..(C - 1)} /\ Items(B) = {B[k] : k \in 1..(N - C)}
  <2>1. C - 1 \in Nat /\ N - C \in Nat
    BY <1>2
  <2> HIDE DEF A, B, S
  <2>2. Len(A) = C - 1 /\ Len(B) = N - C /\ A \in Seq(S) /\ B \in Seq(S)
    BY <1>8, <2>1
  <2> QED
    BY <1>2, <1>7, <2>2 DEF Items
<1>10. G \in Seq(S) /\ Items(G) = Items(A) \cup Items(B)
  <2> HIDE DEF A, B, G, S
  <2> QED
    BY ZenonT(60), <1>1, <1>9, ItemsJoin
<1>11. T \in Seq(S) /\ T # <<>> /\ Head(T) = <<"place", t, t>> /\ Tail(T) = G
  <2> DEFINE a == <<"place", t, t>>
  <2>1. a \in S /\ T = <<a>> \o G
    BY <1>1, <1>7
  <2> HIDE DEF G, S, T, a
  <2>2. T \in Seq(S) /\ T # <<>> /\ Head(T) = a /\ Tail(T) = G
    BY <1>10, <2>1, Cons
  <2> QED
    BY <2>2 DEF a
<1>12. ASSUME NEW i \in Items(G)
       PROVE  \/ i[1] = "greet" /\ i[2] = t /\ i[3] \in Views(w)!Clients
              \/ i[1] = "greetNpc" /\ i[2] = t /\ i[3] \in Views(w)!Npcs
  <2> HIDE DEF A, B, G, S, T
  <2>1. ASSUME NEW k \in 1..(C - 1), i = A[k]
        PROVE  i[1] = "greet" /\ i[2] = t /\ i[3] \in Views(w)!Clients
    BY <1>2, <1>5, <2>1
  <2>2. ASSUME NEW k \in 1..(N - C), i = B[k]
        PROVE  i[1] = "greetNpc" /\ i[2] = t /\ i[3] \in Views(w)!Npcs
    BY <1>2, <1>6, <2>2
  <2> QED
    BY <1>9, <1>10, <2>1, <2>2
<1>13. ASSUME NEW q \in Views(w)!Clients \ {t} PROVE <<"greet", t, q>> \in Items(G)
  <2> DEFINE k == IF q < t THEN q + 1 ELSE q
  <2>1. k \in 1..(C - 1) /\ (IF k <= t THEN k - 1 ELSE k) = q
    BY <1>2
  <2> HIDE DEF k
  <2>2. A[k] = <<"greet", t, q>>
    BY <1>4, <1>5, <2>1
  <2> HIDE DEF A, B, G, S, T
  <2> QED
    BY <1>9, <1>10, <2>1, <2>2
<1>14. ASSUME NEW q \in Views(w)!Npcs PROVE <<"greetNpc", t, q>> \in Items(G)
  <2> DEFINE k == q - C + 1
  <2>1. k \in 1..(N - C) /\ C + k - 1 = q
    BY <1>2
  <2> HIDE DEF k
  <2>2. B[k] = <<"greetNpc", t, q>>
    BY <1>6, <2>1
  <2> HIDE DEF A, B, G, S, T
  <2> QED
    BY <1>9, <1>10, <2>1, <2>2
<1> QED
  BY <1>10, <1>11, <1>12, <1>13, <1>14

(* What is owed stays owed, when an instruction is carried out that owed   *)
(* something.                                                              *)
LEMMA NotBothInSight ==
    ASSUME NEW w \in Worlds, NEW p \in Views(w)!Objects, NEW q \in Views(w)!Objects,
           NotBoth(w, p, q)
    PROVE  ~InSight(w, p, q)
<1>1. SUFFICES ASSUME InSight(w, p, q) PROVE FALSE
  OBVIOUS
<1>2. p \in Views(w)!Clients /\ isConnect[p] /\ orderly[p] /\ p # q
  BY <1>1 DEF InSight, Views!InGame
<1>3. q \in Views(w)!Clients => isConnect[q] /\ orderly[q]
  BY <1>1, WorldSizes DEF InSight, Views!InGame
<1> QED
  BY <1>1, <1>2, <1>3 DEF NotBoth, Apart, Left, InSight

LEMMA StillOwed ==
    ASSUME NEW w \in Worlds, AllOwed(w), NEW t \in Views(w)!Tasks,
           \A u \in Views(w)!Tasks : u # t => task'[u] = task[u],
           NEW h, Items(task[t].todo) \subseteq {h} \cup Items(task'[t].todo),
           \A p, q \in Views(w)!Objects : InSight(w, p, q)' =>
             /\ InSight(w, p, q)
             /\ q \in viewlist[p] => q \in viewlist'[p]
             /\ h \in Owing(p, q) => \/ q \in viewlist'[p]
                                     \/ Items(task'[t].todo) \cap Owing(p, q) # {}
    PROVE  AllOwed(w)'
<1>1. Views(w)!Tasks' = Views(w)!Tasks /\ Views(w)!Objects' = Views(w)!Objects
  BY DEF Views!Tasks, Views!Objects, Views!Clients, Views!Npcs
<1>2. SUFFICES ASSUME NEW p \in Views(w)!Objects, NEW q \in Views(w)!Objects,
                      InSight(w, p, q)'
               PROVE  Owes(w, p, q)'
  BY <1>1 DEF AllOwed
<1>3. Owes(w, p, q)
  BY <1>2 DEF AllOwed
<1>4. CASE q \in viewlist[p]
  BY <1>2, <1>4 DEF Owes
<1>5. ASSUME NEW u \in Views(w)!Tasks, Items(task[u].todo) \cap Owing(p, q) # {}
      PROVE  Owes(w, p, q)'
  <2>1. SUFFICES ASSUME q \notin viewlist'[p]
                 PROVE  Items(task'[u].todo) \cap Owing(p, q) # {}
    BY <1>1 DEF Owes, Items, Owing
  <2>2. CASE u # t
    BY <1>5, <2>2
  <2>3. CASE u = t
    <3>1. PICK i \in Items(task[t].todo) : i \in Owing(p, q)
      BY <1>5, <2>3
    <3>2. CASE i = h
      BY <1>2, <2>1, <2>3, <3>1, <3>2
    <3>3. CASE i # h
      BY <2>3, <3>1, <3>3
    <3> QED
      BY <3>2, <3>3
  <2> QED
    BY <2>2, <2>3
<1> QED
  BY <1>3, <1>4, <1>5 DEF Owes

LEMMA StepOf ==
    ASSUME NEW w \in Worlds, ViewInv(w), NEW t, Kept(w, t),
           \A u \in Views(w)!Tasks : u # t => task'[u] = task[u],
           ViewType(w)', ListMet(w)', t \in Views(w)!Tasks => Prog(w, t)', AllOwed(w)'
    PROVE  ViewInv(w)'
<1>1. ASSUME NEW u \in Views(w)!Tasks PROVE Prog(w, u)'
  BY ProgSteady DEF ViewInv, Progs
<1>2. Progs(w)'
  BY <1>1 DEF Progs, Views!Tasks, Views!Objects, Views!Clients, Views!Npcs
<1> QED
  BY <1>2 DEF ViewInv

-----------------------------------------------------------------------------
(* The steps that change neither positions nor connections.                *)
Still == isConnect' = isConnect /\ pos' = pos /\ lives' = lives /\ orderly' = orderly

LEMMA StillKept ==
    ASSUME NEW w \in Worlds, NEW t, Still
    PROVE  /\ Kept(w, t)
           /\ \A p, q : InSight(w, p, q)' <=> InSight(w, p, q)
           /\ Views(w)!Objects' = Views(w)!Objects /\ Views(w)!Tasks' = Views(w)!Tasks
<1>1. /\ isConnect' = isConnect /\ pos' = pos /\ lives' = lives /\ orderly' = orderly
      /\ Views(w)!Clients' = Views(w)!Clients /\ Views(w)!Npcs' = Views(w)!Npcs
  BY DEF Still, Views!Clients, Views!Npcs
<1>2. \A p, q : InSight(w, p, q)' <=> InSight(w, p, q)
  BY <1>1 DEF InSight, Views!InGame, Views!isNear
<1>3. \A x : Left(w, x) <=> Left(w, x)'
  BY <1>1 DEF Left
<1>4. Views(w)!Objects' = Views(w)!Objects /\ Views(w)!Tasks' = Views(w)!Tasks
  BY DEF Views!Tasks, Views!Objects, Views!Clients, Views!Npcs
<1> QED
  BY <1>1, <1>2, <1>3, <1>4 DEF Kept

LEMMA StillType ==
    ASSUME NEW w \in Worlds, ViewType(w), Still,
           viewlist' \in [Views(w)!Objects -> SUBSET Views(w)!Objects],
           task' \in [Views(w)!Tasks -> Tasklets(w)]
    PROVE  ViewType(w)'
<1>1. /\ Views(w)!Clients' = Views(w)!Clients /\ Views(w)!Objects' = Views(w)!Objects
      /\ Views(w)!Tasks' = Views(w)!Tasks /\ Tasklets(w)' = Tasklets(w)
  BY DEF Views!Tasks, Views!Objects, Views!Clients, Views!Npcs, Tasklets, ViewInstr
<1> QED
  BY <1>1 DEF Still, ViewType

LEMMA StillMet ==
    ASSUME NEW w \in Worlds, ViewType(w), ListMet(w), NEW t, Kept(w, t),
           \A a \in Views(w)!Objects : \A b \in viewlist'[a] :
             b \in Views(w)!Objects /\ (b \in viewlist[a] \/ Met(w, a, b))
    PROVE  ListMet(w)'
<1>1. Views(w)!Objects' = Views(w)!Objects
  BY DEF Views!Objects, Views!Clients, Views!Npcs
<1>2. SUFFICES ASSUME NEW a \in Views(w)!Objects, NEW b \in viewlist'[a]
               PROVE  Met(w, a, b)'
  BY <1>1 DEF ListMet
<1>3. Met(w, a, b) /\ b \in Views(w)!Objects
  BY DEF ListMet
<1> QED
  BY <1>3, Steady

(* An instruction that is no part of a walk around.                        *)
LEMMA PlainStep ==
    ASSUME NEW w \in Worlds, ViewInv(w), NEW t \in Views(w)!Tasks, Still,
           task[t].todo # <<>>,
           Head(task[t].todo)[1] \notin RoundOps \cup {"place"},
           NEW M \in Seq(ViewInstr(w)), Views(w)!Go(t, M),
           \A i \in Items(M) : Fit(w, i) /\ i[1] \notin RoundOps,
           viewlist' \in [Views(w)!Objects -> SUBSET Views(w)!Objects],
           \A a \in Views(w)!Objects : \A b \in viewlist'[a] :
             b \in viewlist[a] \/ Met(w, a, b),
           \A p, q \in Views(w)!Objects :
             /\ q \in viewlist[p] => q \in viewlist'[p] \/ NotBoth(w, p, q)
             /\ Head(task[t].todo) \in Owing(p, q) =>
                  \/ q \in viewlist'[p] \/ ~InSight(w, p, q)
                  \/ Items(M) \cap Owing(p, q) # {}
    PROVE  ViewInv(w)'
<1> DEFINE T == task[t].todo
           h == Head(T)
<1>1. ViewType(w) /\ ListMet(w) /\ Progs(w) /\ AllOwed(w)
  BY DEF ViewInv
<1>2. Kept(w, t) /\ \A p, q : InSight(w, p, q)' <=> InSight(w, p, q)
  BY StillKept
<1>3. /\ T \in Seq(ViewInstr(w)) /\ Tail(T) \in Seq(ViewInstr(w))
      /\ Items(T) = {h} \cup Items(Tail(T))
  BY <1>1, Hand
<1>4. /\ \A u \in Views(w)!Tasks : u # t => task'[u] = task[u]
      /\ task' \in [Views(w)!Tasks -> Tasklets(w)]
      /\ Items(task'[t].todo) = Items(M) \cup Items(Tail(T))
  <2> DEFINE R == M \o Tail(task[t].todo)
  <2>1. /\ \A u \in Views(w)!Tasks : u # t => task'[u] = task[u]
        /\ task' \in [Views(w)!Tasks -> Tasklets(w)]
        /\ task'[t].todo = R /\ Items(R) = Items(M) \cup Items(Tail(task[t].todo))
    BY <1>1, GoesOn
  <2> HIDE DEF R
  <2> QED
    BY <2>1
<1>5. ~ (t \in Views(w)!Clients /\ T = Views(w)!LoginProgram(t))
  <2>1. \A c \in Views(w)!Clients : Head(Views(w)!LoginProgram(c))[1] = "place"
    BY LoginBegins
  <2> QED
    BY <2>1
<1>6. (\A i \in Items(T) : Fit(w, i)) /\ Ordered(T) /\ WalkInv(w, task[t])
  BY <1>1, <1>5 DEF Progs, Prog, Waiting
<1>7. Ordered(Tail(T))
  BY <1>3, <1>6, OrderedTail
<1>8. /\ \A i \in Items(Tail(T)) : Fit(w, i)'
      /\ \A i \in Items(M) : Fit(w, i)'
  BY <1>2, <1>3, <1>6, FitSteady
<1>9. Prog(w, t)'
  <2> HIDE DEF Prog
  <2> QED
    BY <1>1, <1>2, <1>6, <1>7, <1>8, Advance
<1>10. \A p, q \in Views(w)!Objects : NotBoth(w, p, q) => ~InSight(w, p, q)
  BY NotBothInSight
<1>11. AllOwed(w)'
  <2>1. Items(T) \subseteq {h} \cup Items(task'[t].todo)
    BY <1>3, <1>4
  <2>2. \A p, q \in Views(w)!Objects : InSight(w, p, q)' =>
          /\ InSight(w, p, q)
          /\ q \in viewlist[p] => q \in viewlist'[p]
          /\ h \in Owing(p, q) => \/ q \in viewlist'[p]
                                  \/ Items(task'[t].todo) \cap Owing(p, q) # {}
    BY <1>2, <1>4, <1>10
  <2> HIDE DEF h
  <2> QED
    BY <1>1, <1>4, <2>1, <2>2, StillOwed
<1>12. ViewType(w)'
  BY <1>1, <1>4, StillType
<1>13. ListMet(w)'
  <2>1. \A a \in Views(w)!Objects : \A b \in viewlist'[a] : b \in Views(w)!Objects
    OBVIOUS
  <2> QED
    BY <1>1, <1>2, <2>1, StillMet
<1> QED
  BY <1>2, <1>4, <1>9, <1>11, <1>12, <1>13, StepOf

-----------------------------------------------------------------------------
(* The instructions one by one.                                            *)
LEMMA ShortPrograms ==
    ASSUME NEW S
    PROVE  /\ <<>> \in Seq(S) /\ Items(<<>>) = {}
           /\ \A a \in S : <<a>> \in Seq(S) /\ Items(<<a>>) = {a}
           /\ \A a, b \in S : <<a, b>> \in Seq(S) /\ Items(<<a, b>>) = {a, b}
           /\ \A a, b, c \in S : <<a, b, c>> \in Seq(S) /\ Items(<<a, b, c>>) = {a, b, c}
<1>1. <<>> \in Seq(S) /\ Items(<<>>) = {}
  BY DEF Items
<1>2. ASSUME NEW a \in S PROVE <<a>> \in Seq(S) /\ Items(<<a>>) = {a}
  BY DEF Items
<1>3. ASSUME NEW a \in S, NEW b \in S
      PROVE  <<a, b>> \in Seq(S) /\ Items(<<a, b>>) = {a, b}
  <2> DEFINE s == <<a, b>>
  <2>1. s \in Seq(S) /\ Len(s) = 2 /\ s[1] = a /\ s[2] = b
    OBVIOUS
  <2> HIDE DEF s
  <2>2. Items(s) = {a, b}
    BY <2>1 DEF Items
  <2> QED
    BY <2>1, <2>2 DEF s
<1>4. ASSUME NEW a \in S, NEW b \in S, NEW c \in S
      PROVE  <<a, b, c>> \in Seq(S) /\ Items(<<a, b, c>>) = {a, b, c}
  <2> DEFINE s == <<a, b, c>>
  <2>1. s \in Seq(S) /\ Len(s) = 3 /\ s[1] = a /\ s[2] = b /\ s[3] = c
    OBVIOUS
  <2> HIDE DEF s
  <2>2. Items(s) = {a, b, c}
    BY <2>1 DEF Items
  <2> QED
    BY <2>1, <2>2 DEF s
<1> QED
  BY <1>1, <1>2, <1>3, <1>4

LEMMA Kinds == Begins \subseteq RoundOps /\ Ends \subseteq RoundOps
  BY DEF RoundOps

LEMMA PlainHand ==
    ASSUME NEW w \in Worlds, ViewInv(w), NEW t \in Views(w)!Tasks,
           NEW op, op \notin RoundOps \cup {"place"}, Views(w)!At(t, op)
    PROVE  LET h == <<op, Views(w)!First(t), Views(w)!Second(t)>>
           IN  /\ task[t].todo # <<>> /\ Head(task[t].todo) = h
               /\ Head(task[t].todo)[1] \notin RoundOps \cup {"place"}
               /\ Fit(w, h)
               /\ Views(w)!First(t) \in Views(w)!Objects
               /\ Views(w)!Second(t) \in Views(w)!Objects
<1> DEFINE T == task[t].todo
           h == <<op, Views(w)!First(t), Views(w)!Second(t)>>
<1>1. ViewType(w) /\ Prog(w, t)
  BY DEF ViewInv, Progs
<1>2. T # <<>>
  BY DEF Views!At
<1>3. /\ Head(T) = h /\ Head(T)[1] = op /\ Head(T) \in Items(T)
      /\ Views(w)!First(t) \in Views(w)!Objects
      /\ Views(w)!Second(t) \in Views(w)!Objects
  <2>1. Head(T)[1] = op
    BY <1>2 DEF Views!At
  <2>2. /\ Items(T) = {Head(T)} \cup Items(Tail(T))
        /\ Head(T) = <<Head(T)[1], Views(w)!First(t), Views(w)!Second(t)>>
        /\ Views(w)!First(t) \in Views(w)!Objects
        /\ Views(w)!Second(t) \in Views(w)!Objects
    BY <1>1, <1>2, Hand
  <2> HIDE DEF T
  <2> QED
    BY <2>1, <2>2
<1>4. ~ (t \in Views(w)!Clients /\ T = Views(w)!LoginProgram(t))
  <2>1. \A c \in Views(w)!Clients : Head(Views(w)!LoginProgram(c))[1] = "place"
    BY LoginBegins
  <2> QED
    BY <1>3, <2>1
<1>5. Fit(w, h)
  BY <1>1, <1>3, <1>4 DEF Prog, Waiting
<1> QED
  BY <1>2, <1>3, <1>5

(* What has been found near has met.                                       *)
LEMMA NearHaveMet ==
    ASSUME NEW w \in Worlds, ViewType(w),
           NEW a \in Views(w)!Objects, NEW b \in Views(w)!Objects,
           Ready(w, a), Views(w)!isNear(a, b),
           b \in Views(w)!Clients => isConnect[b]
    PROVE  Met(w, a, b)
<1>1. CASE Left(w, a)
  BY <1>1 DEF Met, NotBoth, Apart
<1>2. CASE Placed(w, a)
  <2>1. ASSUME NEW x \in Views(w)!Clients, pos[x] # -1 \/ isConnect[x]
        PROVE  lives[x] = 1
    BY <2>1 DEF ViewType
  <2>2. Born(w, a) /\ Born(w, b)
    BY <1>2, <2>1 DEF Born, Placed
  <2> QED
    BY <1>2, <2>2 DEF Met
<1> QED
  BY <1>1, <1>2 DEF Ready

(* Of two that have met one is looked for in vain.                         *)
LEMMA NotSeenIsNotBoth ==
    ASSUME NEW w \in Worlds, ViewType(w),
           NEW a \in Views(w)!Objects, NEW b \in Views(w)!Objects,
           Met(w, a, b),
           ~Views(w)!isNear(a, b) \/ (b \in Views(w)!Clients /\ ~isConnect[b])
    PROVE  NotBoth(w, a, b)
  BY DEF Met, Born, Left, NotBoth, Apart

LEMMA GreetStep ==
    ASSUME NEW w \in Worlds, ViewInv(w), NEW t \in Views(w)!Tasks, Views(w)!Greet(t)
    PROVE  ViewInv(w)'
<1> DEFINE c == Views(w)!First(t)
           i == Views(w)!Second(t)
           h == <<"greet", c, i>>
           both == isConnect[i] /\ Views(w)!isNear(i, c)
           M == IF both THEN << <<"list", i, c>>, <<"list", c, i>> >> ELSE <<>>
           S == ViewInstr(w)
<1>1. Views(w)!At(t, "greet") /\ Views(w)!Go(t, M) /\ viewlist' = viewlist /\ Still
  BY DEF Views!Greet, Still
<1>2. "greet" \notin RoundOps \cup {"place"} /\ "list" \notin RoundOps \cup {"place"}
      /\ "list" \in ViewOps
  BY DEF RoundOps, Ends, Begins, ViewOps
<1>3. /\ task[t].todo # <<>> /\ Head(task[t].todo) = h
      /\ Head(task[t].todo)[1] \notin RoundOps \cup {"place"}
      /\ Fit(w, h) /\ c \in Views(w)!Objects /\ i \in Views(w)!Objects
  BY <1>1, <1>2, PlainHand
<1>4. Ready(w, c) /\ c \in Views(w)!Clients /\ i \in Views(w)!Clients
  BY <1>3 DEF Fit
<1>5. ViewType(w) /\ viewlist \in [Views(w)!Objects -> SUBSET Views(w)!Objects]
  BY DEF ViewInv, ViewType
<1> HIDE DEF c, i
<1>6. both => Met(w, c, i) /\ Met(w, i, c)
  BY <1>3, <1>4, <1>5, NearHaveMet, Symmetric
<1>7. \A p, q \in Views(w)!Objects : h \in Owing(p, q) => (p = c /\ q = i) \/ (p = i /\ q = c)
  BY DEF Owing
<1>8. ~both => ~InSight(w, c, i) /\ ~InSight(w, i, c)
  <2>1. InSight(w, c, i) \/ InSight(w, i, c) =>
          isConnect[i] /\ (Views(w)!isNear(c, i) \/ Views(w)!isNear(i, c))
    BY <1>4, WorldSizes DEF InSight, Views!InGame
  <2> QED
    BY <1>3, <1>5, <2>1, Symmetric
<1>9. /\ M \in Seq(S) /\ \A x \in Items(M) : Fit(w, x) /\ x[1] \notin RoundOps
      /\ both => <<"list", i, c>> \in Items(M) /\ <<"list", c, i>> \in Items(M)
  <2>1. CASE ~both
    <3>1. M = <<>> /\ Items(M) = {} /\ M \in Seq(S)
      BY <2>1, ShortPrograms
    <3> QED
      BY <2>1, <3>1
  <2>2. CASE both
    <3> DEFINE x == <<"list", i, c>>
               y == <<"list", c, i>>
    <3>1. x \in S /\ y \in S /\ Fit(w, x) /\ Fit(w, y)
      BY <1>2, <1>3, <1>6, <2>2, Kinds DEF Fit, ViewInstr
    <3>2. x[1] \notin RoundOps /\ y[1] \notin RoundOps
      BY <1>2
    <3>3. M = <<x, y>>
      BY <2>2
    <3> HIDE DEF x, y, S, M
    <3>4. M \in Seq(S) /\ Items(M) = {x, y}
      BY <3>1, <3>3, ShortPrograms
    <3> QED
      BY <3>1, <3>2, <3>4 DEF x, y
  <2> QED
    BY <2>1, <2>2
<1>10. \A p, q \in Views(w)!Objects :
         h \in Owing(p, q) => ~InSight(w, p, q) \/ Items(M) \cap Owing(p, q) # {}
  <2> HIDE DEF h, M, both
  <2>1. <<"list", i, c>> \in Owing(i, c) /\ <<"list", c, i>> \in Owing(c, i)
    BY DEF Owing
  <2> QED
    BY <1>7, <1>8, <1>9, <2>1
<1> HIDE DEF M, h
<1> QED
  BY <1>1, <1>3, <1>5, <1>9, <1>10, PlainStep

LEMMA GreetNpcStep ==
    ASSUME NEW w \in Worlds, ViewInv(w), NEW t \in Views(w)!Tasks, Views(w)!GreetNpc(t)
    PROVE  ViewInv(w)'
<1> DEFINE c == Views(w)!First(t)
           n == Views(w)!Second(t)
           h == <<"greetNpc", c, n>>
           near == Views(w)!isNear(c, n)
           x == <<"insert", c, n>>
           y == <<"add", c, n>>
           z == <<"wake", n, n>>
           M == IF near THEN <<x, y, z>> ELSE <<>>
           S == ViewInstr(w)
<1>1. Views(w)!At(t, "greetNpc") /\ Views(w)!Go(t, M) /\ viewlist' = viewlist /\ Still
  BY DEF Views!GreetNpc, Still
<1>2. /\ "greetNpc" \notin RoundOps \cup {"place"}
      /\ {"insert", "add", "wake"} \subseteq ViewOps \ (RoundOps \cup {"place"})
  BY DEF RoundOps, Ends, Begins, ViewOps
<1>3. /\ task[t].todo # <<>> /\ Head(task[t].todo) = h
      /\ Head(task[t].todo)[1] \notin RoundOps \cup {"place"}
      /\ Fit(w, h) /\ c \in Views(w)!Objects /\ n \in Views(w)!Objects
  BY <1>1, <1>2, PlainHand
<1>4. Ready(w, c) /\ n \in Views(w)!Npcs
  BY <1>3 DEF Fit
<1>5. ViewType(w) /\ viewlist \in [Views(w)!Objects -> SUBSET Views(w)!Objects]
  BY DEF ViewInv, ViewType
<1> HIDE DEF c, n
<1>6. near => Met(w, c, n)
  <2>1. n \notin Views(w)!Clients
    BY <1>4, WorldSizes
  <2> QED
    BY <1>3, <1>4, <1>5, <2>1, NearHaveMet
<1>7. \A p, q \in Views(w)!Objects : h \in Owing(p, q) => p = c /\ q = n
  BY DEF Owing
<1>8. ~near => ~InSight(w, c, n)
  BY DEF InSight
<1>9. /\ M \in Seq(S) /\ \A i \in Items(M) : Fit(w, i) /\ i[1] \notin RoundOps
      /\ near => x \in Items(M)
  <2>1. CASE ~near
    <3>1. M = <<>> /\ Items(M) = {} /\ M \in Seq(S)
      BY <2>1, ShortPrograms
    <3> QED
      BY <2>1, <3>1
  <2>2. CASE near
    <3>1. x \in S /\ y \in S /\ z \in S /\ Fit(w, x) /\ Fit(w, y) /\ Fit(w, z)
      BY <1>2, <1>3, <1>6, <2>2, Kinds DEF Fit, ViewInstr
    <3>2. x[1] \notin RoundOps /\ y[1] \notin RoundOps /\ z[1] \notin RoundOps
      BY <1>2
    <3>3. M = <<x, y, z>>
      BY <2>2
    <3> HIDE DEF x, y, z, S, M
    <3>4. M \in Seq(S) /\ Items(M) = {x, y, z}
      BY <3>1, <3>3, ShortPrograms
    <3> QED
      BY <3>1, <3>2, <3>4
  <2> QED
    BY <2>1, <2>2
<1>10. \A p, q \in Views(w)!Objects :
         h \in Owing(p, q) => ~InSight(w, p, q) \/ Items(M) \cap Owing(p, q) # {}
  <2>1. x \in Owing(c, n)
    BY DEF Owing
  <2> HIDE DEF h, M, near, x
  <2> QED
    BY <1>7, <1>8, <1>9, <2>1
<1> HIDE DEF M, h
<1> QED
  BY <1>1, <1>3, <1>5, <1>9, <1>10, PlainStep

(* Instructions that owe nothing and leave the lists as they are.          *)
LEMMA FreePlainStep ==
    ASSUME NEW w \in Worlds, ViewInv(w), NEW t \in Views(w)!Tasks,
           Still, viewlist' = viewlist,
           NEW op \in {"wake", "meet", "part", "add", "remove"}, Views(w)!At(t, op),
           NEW M \in Seq(ViewInstr(w)), Views(w)!Go(t, M),
           \A i \in Items(M) : Fit(w, i) /\ i[1] \notin RoundOps
    PROVE  ViewInv(w)'
<1> DEFINE h == <<op, Views(w)!First(t), Views(w)!Second(t)>>
<1>1. op \notin RoundOps \cup {"place"}
  BY DEF RoundOps, Ends, Begins
<1>2. /\ task[t].todo # <<>> /\ Head(task[t].todo) = h
      /\ Head(task[t].todo)[1] \notin RoundOps \cup {"place"}
  BY <1>1, PlainHand
<1>3. viewlist \in [Views(w)!Objects -> SUBSET Views(w)!Objects]
  BY DEF ViewInv, ViewType
<1>4. \A p, q \in Views(w)!Objects : h \notin Owing(p, q)
  BY DEF Owing
<1> HIDE DEF h
<1> QED
  BY <1>2, <1>3, <1>4, PlainStep

LEMMA WakeStep ==
    ASSUME NEW w \in Worlds, ViewInv(w), NEW t \in Views(w)!Tasks, Views(w)!Wake(t)
    PROVE  ViewInv(w)'
<1>1. Views(w)!At(t, "wake") /\ Views(w)!Go(t, <<>>) /\ viewlist' = viewlist /\ Still
  BY DEF Views!Wake, Still
<1>2. <<>> \in Seq(ViewInstr(w)) /\ Items(<<>>) = {}
  BY ShortPrograms
<1> QED
  BY <1>1, <1>2, FreePlainStep

LEMMA SendStep ==
    ASSUME NEW w \in Worlds, ViewInv(w), NEW t \in Views(w)!Tasks, Views(w)!Send(t)
    PROVE  ViewInv(w)'
<1>1. Views(w)!At(t, "add") \/ Views(w)!At(t, "remove")
  BY DEF Views!Send
<1>2. Views(w)!Go(t, <<>>) /\ viewlist' = viewlist /\ Still
  BY DEF Views!Send, Still
<1>3. <<>> \in Seq(ViewInstr(w)) /\ Items(<<>>) = {}
  BY ShortPrograms
<1> QED
  BY <1>1, <1>2, <1>3, FreePlainStep

LEMMA MeetStep ==
    ASSUME NEW w \in Worlds, ViewInv(w), NEW t \in Views(w)!Tasks, Views(w)!Meet(t)
    PROVE  ViewInv(w)'
<1> DEFINE n == Views(w)!First(t)
           o == Views(w)!Second(t)
           x == <<"insert", n, o>>
           y == <<"add", o, n>>
           M == IF o \in viewlist[n] THEN <<>> ELSE <<x, y>>
<1>1. Views(w)!At(t, "meet") /\ Views(w)!Go(t, M) /\ viewlist' = viewlist /\ Still
  BY DEF Views!Meet, Still
<1>2. /\ "meet" \notin RoundOps \cup {"place"}
      /\ {"insert", "add"} \subseteq ViewOps \ (RoundOps \cup {"place"})
  BY DEF RoundOps, Ends, Begins, ViewOps
<1>3. Fit(w, <<"meet", n, o>>) /\ n \in Views(w)!Objects /\ o \in Views(w)!Objects
  BY <1>1, <1>2, PlainHand
<1> HIDE DEF n, o
<1>4. Fit(w, x) /\ Fit(w, y) /\ x \in ViewInstr(w) /\ y \in ViewInstr(w)
      /\ x[1] \notin RoundOps /\ y[1] \notin RoundOps
  BY <1>2, <1>3, Kinds DEF Fit, ViewInstr
<1> HIDE DEF x, y
<1>5. M \in Seq(ViewInstr(w)) /\ Items(M) \subseteq {x, y}
  BY <1>4, ShortPrograms
<1> HIDE DEF M
<1> QED
  BY <1>1, <1>4, <1>5, FreePlainStep

LEMMA PartStep ==
    ASSUME NEW w \in Worlds, ViewInv(w), NEW t \in Views(w)!Tasks, Views(w)!Part(t)
    PROVE  ViewInv(w)'
<1> DEFINE a == Views(w)!First(t)
           b == Views(w)!Second(t)
           x == <<"erase", a, b>>
           y == <<"remove", a, b>>
           M == IF b \in viewlist[a] THEN <<x, y>> ELSE <<>>
<1>1. Views(w)!At(t, "part") /\ Views(w)!Go(t, M) /\ viewlist' = viewlist /\ Still
  BY DEF Views!Part, Still
<1>2. /\ "part" \notin RoundOps \cup {"place"}
      /\ {"erase", "remove"} \subseteq ViewOps \ (RoundOps \cup {"place"})
  BY DEF RoundOps, Ends, Begins, ViewOps
<1>3. Fit(w, <<"part", a, b>>) /\ a \in Views(w)!Objects /\ b \in Views(w)!Objects
  BY <1>1, <1>2, PlainHand
<1> HIDE DEF a, b
<1>4. Fit(w, x) /\ Fit(w, y) /\ x \in ViewInstr(w) /\ y \in ViewInstr(w)
      /\ x[1] \notin RoundOps /\ y[1] \notin RoundOps
  BY <1>2, <1>3, Kinds DEF Fit, ViewInstr
<1> HIDE DEF x, y
<1>5. M \in Seq(ViewInstr(w)) /\ Items(M) \subseteq {x, y}
  BY <1>4, ShortPrograms
<1> HIDE DEF M
<1> QED
  BY <1>1, <1>4, <1>5, FreePlainStep

LEMMA ListStep ==
    ASSUME NEW w \in Worlds, ViewInv(w), NEW t \in Views(w)!Tasks, Views(w)!List(t)
    PROVE  ViewInv(w)'
<1> DEFINE a == Views(w)!First(t)
           b == Views(w)!Second(t)
           h == <<"list", a, b>>
           x == <<"insert", a, b>>
           y == <<"add", a, b>>
           M == IF b \in viewlist[a] THEN <<>> ELSE <<x, y>>
<1>1. Views(w)!At(t, "list") /\ Views(w)!Go(t, M) /\ viewlist' = viewlist /\ Still
  BY DEF Views!List, Still
<1>2. /\ "list" \notin RoundOps \cup {"place"}
      /\ {"insert", "add"} \subseteq ViewOps \ (RoundOps \cup {"place"})
  BY DEF RoundOps, Ends, Begins, ViewOps
<1>3. /\ task[t].todo # <<>> /\ Head(task[t].todo) = h
      /\ Head(task[t].todo)[1] \notin RoundOps \cup {"place"}
      /\ Fit(w, h) /\ a \in Views(w)!Objects /\ b \in Views(w)!Objects
  BY <1>1, <1>2, PlainHand
<1> HIDE DEF a, b
<1>4. Fit(w, x) /\ Fit(w, y) /\ x \in ViewInstr(w) /\ y \in ViewInstr(w)
      /\ x[1] \notin RoundOps /\ y[1] \notin RoundOps
  BY <1>2, <1>3, Kinds DEF Fit, ViewInstr
<1>5. x \in Owing(a, b) /\ \A p, q \in Views(w)!Objects : h \in Owing(p, q) => p = a /\ q = b
  BY DEF Owing
<1> HIDE DEF x, y, h
<1>6. /\ M \in Seq(ViewInstr(w)) /\ Items(M) \subseteq {x, y}
      /\ b \notin viewlist[a] => x \in Items(M)
  <2>1. CASE b \in viewlist[a]
    <3>1. M = <<>> /\ Items(M) = {} /\ M \in Seq(ViewInstr(w))
      BY <2>1, ShortPrograms
    <3> QED
      BY <2>1, <3>1
  <2>2. CASE b \notin viewlist[a]
    <3>1. M = <<x, y>>
      BY <2>2
    <3> HIDE DEF M
    <3>2. M \in Seq(ViewInstr(w)) /\ Items(M) = {x, y}
      BY <1>4, <3>1, ShortPrograms
    <3> QED
      BY <3>2
  <2> QED
    BY <2>1, <2>2
<1>7. viewlist \in [Views(w)!Objects -> SUBSET Views(w)!Objects]
  BY DEF ViewInv, ViewType
<1> HIDE DEF M
<1>8. \A p, q \in Views(w)!Objects :
        h \in Owing(p, q) => q \in viewlist'[p] \/ Items(M) \cap Owing(p, q) # {}
  BY <1>1, <1>5, <1>6
<1>9. \A i \in Items(M) : Fit(w, i) /\ i[1] \notin RoundOps
  BY <1>4, <1>6
<1> QED
  BY <1>1, <1>3, <1>6, <1>7, <1>8, <1>9, PlainStep

LEMMA InsertStep ==
    ASSUME NEW w \in Worlds, ViewInv(w), NEW t \in Views(w)!Tasks, Views(w)!Insert(t)
    PROVE  ViewInv(w)'
<1> DEFINE a == Views(w)!First(t)
           b == Views(w)!Second(t)
           h == <<"insert", a, b>>
<1>1. /\ Views(w)!At(t, "insert") /\ Views(w)!Go(t, <<>>) /\ Still
      /\ viewlist' = [viewlist EXCEPT ![a] = @ \cup {b}]
  BY DEF Views!Insert, Still
<1>2. "insert" \notin RoundOps \cup {"place"}
  BY DEF RoundOps, Ends, Begins
<1>3. /\ task[t].todo # <<>> /\ Head(task[t].todo) = h
      /\ Head(task[t].todo)[1] \notin RoundOps \cup {"place"}
      /\ Fit(w, h) /\ a \in Views(w)!Objects /\ b \in Views(w)!Objects
  BY <1>1, <1>2, PlainHand
<1> HIDE DEF a, b
<1>4. Met(w, a, b)
  BY <1>3 DEF Fit
<1>5. \A p, q \in Views(w)!Objects : h \in Owing(p, q) => p = a /\ q = b
  BY DEF Owing
<1>6. viewlist \in [Views(w)!Objects -> SUBSET Views(w)!Objects]
  BY DEF ViewInv, ViewType
<1>7. /\ viewlist' \in [Views(w)!Objects -> SUBSET Views(w)!Objects]
      /\ \A p \in Views(w)!Objects :
           viewlist'[p] = IF p = a THEN viewlist[p] \cup {b} ELSE viewlist[p]
  BY <1>1, <1>3, <1>6
<1>8. <<>> \in Seq(ViewInstr(w)) /\ Items(<<>>) = {}
  BY ShortPrograms
<1> HIDE DEF h
<1>9. \A p \in Views(w)!Objects : \A q \in viewlist'[p] : q \in viewlist[p] \/ Met(w, p, q)
  BY <1>4, <1>7
<1>10. \A p, q \in Views(w)!Objects :
         /\ q \in viewlist[p] => q \in viewlist'[p]
         /\ h \in Owing(p, q) => q \in viewlist'[p]
  BY <1>5, <1>7
<1> QED
  BY <1>1, <1>3, <1>7, <1>8, <1>9, <1>10, PlainStep

LEMMA EraseStep ==
    ASSUME NEW w \in Worlds, ViewInv(w), NEW t \in Views(w)!Tasks, Views(w)!Erase(t)
    PROVE  ViewInv(w)'
<1> DEFINE a == Views(w)!First(t)
           b == Views(w)!Second(t)
           h == <<"erase", a, b>>
<1>1. /\ Views(w)!At(t, "erase") /\ Views(w)!Go(t, <<>>) /\ Still
      /\ viewlist' = [viewlist EXCEPT ![a] = @ \ {b}]
  BY DEF Views!Erase, Still
<1>2. "erase" \notin RoundOps \cup {"place"}
  BY DEF RoundOps, Ends, Begins
<1>3. /\ task[t].todo # <<>> /\ Head(task[t].todo) = h
      /\ Head(task[t].todo)[1] \notin RoundOps \cup {"place"}
      /\ Fit(w, h) /\ a \in Views(w)!Objects /\ b \in Views(w)!Objects
  BY <1>1, <1>2, PlainHand
<1> HIDE DEF a, b
<1>4. NotBoth(w, a, b)
  BY <1>3 DEF Fit
<1>5. \A p, q \in Views(w)!Objects : h \notin Owing(p, q)
  BY DEF Owing
<1>6. viewlist \in [Views(w)!Objects -> SUBSET Views(w)!Objects]
  BY DEF ViewInv, ViewType
<1>7. /\ viewlist' \in [Views(w)!Objects -> SUBSET Views(w)!Objects]
      /\ \A p \in Views(w)!Objects :
           viewlist'[p] = IF p = a THEN viewlist[p] \ {b} ELSE viewlist[p]
  BY <1>1, <1>3, <1>6
<1>8. <<>> \in Seq(ViewInstr(w)) /\ Items(<<>>) = {}
  BY ShortPrograms
<1> HIDE DEF h
<1>9. \A p, q \in Views(w)!Objects : q \in viewlist[p] => q \in viewlist'[p] \/ NotBoth(w, p, q)
  BY <1>4, <1>7
<1> QED
  BY <1>1, <1>3, <1>5, <1>7, <1>8, <1>9, PlainStep

-----------------------------------------------------------------------------
(* The walks around.                                                       *)
LEMMA RoundHand ==
    ASSUME NEW w \in Worlds, ViewInv(w), NEW t \in Views(w)!Tasks,
           NEW op \in RoundOps, Views(w)!At(t, op)
    PROVE  LET T == task[t].todo
               o == Views(w)!First(t)
           IN  /\ T # <<>> /\ Head(T) = <<op, o, Views(w)!Second(t)>>
               /\ Items(T) = {Head(T)} \cup Items(Tail(T))
               /\ o \in Views(w)!Objects /\ Views(w)!Second(t) \in Views(w)!Objects
               /\ \A i \in Items(T) : Fit(w, i)
               /\ Ordered(T) /\ Ordered(Tail(T))
               /\ Last(T)[1] \in Ends /\ Last(T)[2] = o
               /\ Walk(w, o, Last(T)[1], task[t])
               /\ op \in Ends => Tail(T) = <<>> /\ Last(T)[1] = op
               /\ op \notin Ends => Tail(T) # <<>> /\ Last(Tail(T)) = Last(T)
               /\ op = "lookBefore" => Last(T)[1] = "sort"
               /\ op = "look" => \A i \in Items(T) : i[1] \notin Begins
<1> DEFINE T == task[t].todo
           o == Views(w)!First(t)
           b == Views(w)!Second(t)
<1>1. ViewType(w) /\ Prog(w, t)
  BY DEF ViewInv, Progs
<1>2. T # <<>> /\ Head(T)[1] = op
  BY DEF Views!At
<1>3. /\ T \in Seq(ViewInstr(w)) /\ Items(T) = {Head(T)} \cup Items(Tail(T))
      /\ Head(T) = <<op, o, b>> /\ o \in Views(w)!Objects /\ b \in Views(w)!Objects
  <2>1. /\ T \in Seq(ViewInstr(w)) /\ Items(T) = {Head(T)} \cup Items(Tail(T))
        /\ Head(T) = <<Head(T)[1], o, b>> /\ o \in Views(w)!Objects /\ b \in Views(w)!Objects
    BY <1>1, <1>2, Hand
  <2> HIDE DEF T, o, b
  <2> QED
    BY <1>2, <2>1
<1> HIDE DEF o, b
<1>4. ~ (t \in Views(w)!Clients /\ T = Views(w)!LoginProgram(t))
  <2>1. \A c \in Views(w)!Clients : Head(Views(w)!LoginProgram(c))[1] = "place"
    BY LoginBegins
  <2>2. "place" \notin RoundOps
    BY DEF RoundOps, Ends, Begins
  <2> QED
    BY <1>2, <2>1, <2>2
<1>5. (\A i \in Items(T) : Fit(w, i)) /\ Ordered(T) /\ WalkInv(w, task[t])
  BY <1>1, <1>4 DEF Prog, Waiting
<1>6. /\ Ordered(Tail(T))
      /\ Tail(T) # <<>> => Last(Tail(T)) = Last(T)
      /\ op \in Ends => Tail(T) = <<>>
      /\ Last(T)[1] \in Ends /\ Last(T)[2] = o
      /\ op \in RoundOps \ Ends => Tail(T) # <<>>
      /\ op = "lookBefore" => Last(T)[1] = "sort"
      /\ op = "look" => \A i \in Items(T) : i[1] \notin Begins
  <2>1. Head(T)[2] = o
    BY <1>3
  <2> HIDE DEF T
  <2> QED
    BY <1>2, <1>3, <1>5, <2>1, OrderedTail
<1>7. Walk(w, o, Last(T)[1], task[t])
  BY <1>2, <1>5, <1>6 DEF WalkInv
<1>8. op \in Ends => Last(T)[1] = op
  <2>1. ASSUME Tail(T) = <<>> PROVE Last(T) = Head(T)
    <3> HIDE DEF T
    <3>1. Len(Tail(T)) = Len(T) - 1 /\ Len(T) \in Nat /\ Len(T) # 0
      BY <1>2, <1>3
    <3>2. Len(T) = 1
      BY <2>1, <3>1
    <3> QED
      BY <3>2 DEF Last
  <2> QED
    BY <1>2, <1>6, <2>1
<1> QED
  BY <1>2, <1>3, <1>5, <1>6, <1>7, <1>8 DEF o, b

(* A look, or the beginning of one.                                        *)
LEMMA RoundStep ==
    ASSUME NEW w \in Worlds, ViewInv(w), NEW t \in Views(w)!Tasks, Still, viewlist' = viewlist,
           NEW op \in RoundOps \ Ends, Views(w)!At(t, op),
           NEW s \in Tasklets(w), task' = [task EXCEPT ![t] = s],
           s.todo = Tail(task[t].todo),
           Walk(w, Views(w)!First(t), Last(task[t].todo)[1], s)
    PROVE  ViewInv(w)'
<1> DEFINE T == task[t].todo
           o == Views(w)!First(t)
           h == Head(T)
<1>1. ViewType(w) /\ ListMet(w) /\ AllOwed(w)
      /\ viewlist \in [Views(w)!Objects -> SUBSET Views(w)!Objects]
  BY DEF ViewInv, ViewType
<1>2. /\ h = <<op, o, Views(w)!Second(t)>> /\ Items(T) = {h} \cup Items(Tail(T))
      /\ \A i \in Items(T) : Fit(w, i)
      /\ Ordered(Tail(T)) /\ Last(T)[1] \in Ends /\ Last(T)[2] = o
      /\ Tail(T) # <<>> /\ Last(Tail(T)) = Last(T)
  BY RoundHand
<1>3. Kept(w, t) /\ \A p, q : InSight(w, p, q)' <=> InSight(w, p, q)
  BY StillKept
<1>4. /\ task' \in [Views(w)!Tasks -> Tasklets(w)] /\ task'[t] = s
      /\ \A u \in Views(w)!Tasks : u # t => task'[u] = task[u]
  BY <1>1 DEF ViewType
<1> HIDE DEF h, T, o
<1>5. WalkInv(w, s)
  BY <1>2 DEF WalkInv, T, o
<1>6. Prog(w, t)'
  <2>1. WalkInv(w, s)'
    BY <1>3, <1>5, WalkSteady
  <2>2. \A i \in Items(s.todo) : Fit(w, i)'
    BY <1>2, <1>3, FitSteady DEF T
  <2>3. Ordered(s.todo)
    BY <1>2 DEF T
  <2> QED
    BY <1>4, <2>1, <2>2, <2>3 DEF Prog
<1>7. AllOwed(w)'
  <2>1. Items(task[t].todo) \subseteq {h} \cup Items(task'[t].todo)
    BY <1>2, <1>4 DEF T
  <2>2. \A p, q : h \notin Owing(p, q)
    BY <1>2 DEF Owing, RoundOps, Ends, Begins
  <2> QED
    BY <1>1, <1>3, <1>4, <2>1, <2>2, StillOwed
<1>8. ViewType(w)'
  BY <1>1, <1>4, StillType
<1>9. ListMet(w)'
  <2>1. \A a \in Views(w)!Objects : \A b \in viewlist'[a] : b \in Views(w)!Objects
    BY <1>1
  <2> QED
    BY <1>1, <1>3, <2>1, StillMet
<1> QED
  BY <1>3, <1>4, <1>6, <1>7, <1>8, <1>9, StepOf

LEMMA LookStep ==
    ASSUME NEW w \in Worlds, ViewInv(w), NEW t \in Views(w)!Tasks, Views(w)!Look(t)
    PROVE  ViewInv(w)'
<1> DEFINE T == task[t].todo
           o == Views(w)!First(t)
           i == Views(w)!Second(t)
           r == task[t]
           seen == IF Views(w)!Visible(o, i) THEN r.new \cup {i} ELSE r.new
           s == [r EXCEPT !.todo = Tail(T), !.new = seen]
           op == Last(T)[1]
<1>1. Views(w)!At(t, "look") /\ viewlist' = viewlist /\ Still
  BY DEF Views!Look, Still
<1>2. /\ task \in [Views(w)!Tasks -> Tasklets(w)] /\ r \in Tasklets(w) /\ ViewType(w)
  BY DEF ViewInv, ViewType
<1>3. task' = [task EXCEPT ![t] = s]
  <2>1. task' = [task EXCEPT ![t].todo = Tail(@),
                             ![t].new = IF Views(w)!Visible(o, i) THEN @ \cup {i} ELSE @]
    BY DEF Views!Look
  <2> QED
    BY <1>2, <2>1 DEF Tasklets
<1>4. /\ "look" \in RoundOps \ Ends
      /\ Head(T) = <<"look", o, i>> /\ Items(T) = {Head(T)} \cup Items(Tail(T))
      /\ o \in Views(w)!Objects /\ i \in Views(w)!Objects
      /\ Walk(w, o, op, r)
      /\ \A x \in Items(T) : x[1] \notin Begins
  <2>1. "look" \in RoundOps \ Ends
    BY DEF RoundOps, Ends
  <2> QED
    BY <1>1, <2>1, RoundHand
<1>5. T \in Seq(ViewInstr(w)) /\ Tail(T) \in Seq(ViewInstr(w)) /\ T # <<>>
  <2>1. T # <<>>
    BY <1>1 DEF Views!At
  <2> QED
    BY <1>2, <2>1, Hand
<1> HIDE DEF T, o, i
<1>6. /\ s \in Tasklets(w) /\ s.todo = Tail(T) /\ s.new = seen
      /\ s.old = r.old /\ s.before = r.before
  <2>1. seen \subseteq Views(w)!Objects
    BY <1>2, <1>4 DEF Tasklets
  <2> HIDE DEF seen
  <2> QED
    BY <1>2, <1>5, <2>1 DEF Tasklets
<1>7. Views(w)!Visible(o, i) => Met(w, o, i)
  BY <1>2, <1>4, NearHaveMet DEF Walk, Views!Visible
<1>8. ASSUME ~Views(w)!Visible(o, i), i \in r.old \cup r.before PROVE NotBoth(w, o, i)
  BY <1>2, <1>4, <1>8, NotSeenIsNotBoth DEF Walk, Views!Visible
<1>9. ASSUME NEW all, NEW some \in SUBSET (r.old \cup r.before),
             Looking(w, o, T, all, some, r.new)
      PROVE  Looking(w, o, Tail(T), all, some, seen)
  <2>1. ASSUME NEW b PROVE \A x \in Begins : <<x, o, o>> \notin Items(T)
    BY <1>4
  <2>2. \A x \in Begins : <<x, o, o>> \notin Items(T) /\ <<x, o, o>> \notin Items(Tail(T))
    BY <1>4, <2>1
  <2>3. ASSUME NEW b \in some
        PROVE  b \in seen \/ <<"look", o, b>> \in Items(Tail(T)) \/ NotBoth(w, o, b)
    <3>1. b \in r.new \/ <<"look", o, b>> \in Items(T) \/ NotBoth(w, o, b)
      BY <1>9, <2>2 DEF Looking
    <3>2. CASE <<"look", o, b>> = Head(T)
      <4>1. b = i
        BY <1>4, <3>2
      <4> QED
        BY <1>8, <4>1
    <3> QED
      BY <1>4, <3>1, <3>2
  <2> QED
    BY <2>2, <2>3 DEF Looking
<1> HIDE DEF s, op
<1>10. Walk(w, o, op, s)
  <2>1. \A b \in s.old \cup s.new \cup s.before : Met(w, o, b)
    BY <1>4, <1>6, <1>7 DEF Walk
  <2>2. r.old \subseteq r.old \cup r.before /\ r.before \subseteq r.old \cup r.before
    OBVIOUS
  <2>3. r.todo = T
    BY DEF T
  <2> HIDE DEF seen, r
  <2> QED
    BY <1>4, <1>6, <1>9, <2>1, <2>2, <2>3 DEF Walk
<1> QED
  BY <1>1, <1>3, <1>4, <1>6, <1>10, RoundStep DEF T, o, op

LEMMA LookBeforeStep ==
    ASSUME NEW w \in Worlds, ViewInv(w), NEW t \in Views(w)!Tasks, Views(w)!LookBefore(t)
    PROVE  ViewInv(w)'
<1> DEFINE T == task[t].todo
           o == Views(w)!First(t)
           i == Views(w)!Second(t)
           r == task[t]
           seen == IF Views(w)!Visible(o, i) THEN r.before \cup {i} ELSE r.before
           s == [r EXCEPT !.todo = Tail(T), !.before = seen]
           op == Last(T)[1]
<1>1. Views(w)!At(t, "lookBefore") /\ viewlist' = viewlist /\ Still
  BY DEF Views!LookBefore, Still
<1>2. /\ task \in [Views(w)!Tasks -> Tasklets(w)] /\ r \in Tasklets(w) /\ ViewType(w)
  BY DEF ViewInv, ViewType
<1>3. task' = [task EXCEPT ![t] = s]
  <2>1. task' = [task EXCEPT ![t].todo = Tail(@),
                             ![t].before = IF Views(w)!Visible(o, i) THEN @ \cup {i} ELSE @]
    BY DEF Views!LookBefore
  <2> QED
    BY <1>2, <2>1 DEF Tasklets
<1>4. /\ "lookBefore" \in RoundOps \ Ends
      /\ Head(T) = <<"lookBefore", o, i>> /\ Items(T) = {Head(T)} \cup Items(Tail(T))
      /\ o \in Views(w)!Objects /\ i \in Views(w)!Objects
      /\ Walk(w, o, op, r) /\ op = "sort" /\ Fit(w, Head(T))
  <2>1. "lookBefore" \in RoundOps \ Ends
    BY DEF RoundOps, Ends
  <2> QED
    BY <1>1, <2>1, RoundHand
<1>5. T \in Seq(ViewInstr(w)) /\ Tail(T) \in Seq(ViewInstr(w)) /\ T # <<>>
  <2>1. T # <<>>
    BY <1>1 DEF Views!At
  <2> QED
    BY <1>2, <2>1, Hand
<1> HIDE DEF T, o, i
<1>6. /\ s \in Tasklets(w) /\ s.todo = Tail(T) /\ s.new = r.new
      /\ s.old = r.old /\ s.before = seen
  <2>1. seen \subseteq Views(w)!Objects
    BY <1>2, <1>4 DEF Tasklets
  <2> HIDE DEF seen
  <2> QED
    BY <1>2, <1>5, <2>1 DEF Tasklets
<1>7. Views(w)!Visible(o, i) => Met(w, o, i)
  BY <1>2, <1>4, NearHaveMet DEF Walk, Views!Visible
<1>8. i \in Views(w)!Clients
  BY <1>4 DEF Fit
<1>9. \A all, some : Looking(w, o, T, all, some, r.new) => Looking(w, o, Tail(T), all, some, r.new)
  <2>1. \A b : <<"look", o, b>> # Head(T)
    BY <1>4
  <2>2. \A x \in Begins : <<x, o, o>> # Head(T)
    BY <1>4 DEF Begins
  <2> QED
    BY <1>4, <2>1, <2>2 DEF Looking
<1> HIDE DEF s, op
<1>10. Walk(w, o, op, s)
  <2>1. \A b \in s.old \cup s.new \cup s.before : Met(w, o, b)
    BY <1>4, <1>6, <1>7 DEF Walk
  <2>2. s.before \subseteq Views(w)!Clients
    BY <1>4, <1>6, <1>8 DEF Walk
  <2>3. r.todo = T
    BY DEF T
  <2> HIDE DEF seen, r
  <2> QED
    BY <1>4, <1>6, <1>9, <2>1, <2>2, <2>3 DEF Walk
<1> QED
  BY <1>1, <1>3, <1>4, <1>6, <1>10, RoundStep DEF T, o, op

(* The beginning: nobody is noted yet, everybody is still to be looked at. *)
LEMMA BeginStep ==
    ASSUME NEW w \in Worlds, ViewInv(w), NEW t \in Views(w)!Tasks, Still, viewlist' = viewlist,
           NEW begin \in Begins, Views(w)!At(t, begin),
           NEW old \in SUBSET Views(w)!Objects,
           old = task[t].old \/ old = viewlist[Views(w)!First(t)],
           task' = [task EXCEPT ![t] = [task[t] EXCEPT !.todo = Tail(task[t].todo),
                                                       !.old = old, !.new = {}]]
    PROVE  ViewInv(w)'
<1> DEFINE T == task[t].todo
           o == Views(w)!First(t)
           r == task[t]
           s == [r EXCEPT !.todo = Tail(T), !.old = old, !.new = {}]
           op == Last(T)[1]
<1>1. /\ task \in [Views(w)!Tasks -> Tasklets(w)] /\ r \in Tasklets(w) /\ ViewType(w)
      /\ ListMet(w)
  BY DEF ViewInv, ViewType
<1>2. task' = [task EXCEPT ![t] = s]
  OBVIOUS
<1>3. /\ begin \in RoundOps \ Ends
      /\ Head(T) = <<begin, o, o>> /\ Items(T) = {Head(T)} \cup Items(Tail(T))
      /\ o \in Views(w)!Objects /\ Walk(w, o, op, r)
  <2>1. begin \in RoundOps \ Ends
    BY DEF RoundOps, Ends, Begins
  <2>2. /\ Head(T) = <<begin, o, Views(w)!Second(t)>>
        /\ Items(T) = {Head(T)} \cup Items(Tail(T)) /\ Fit(w, Head(T))
        /\ o \in Views(w)!Objects /\ Walk(w, o, op, r)
    BY <2>1, RoundHand
  <2> HIDE DEF T, op, o
  <2>3. Head(T)[1] \in Begins /\ Head(T)[2] = o /\ Head(T)[3] = Views(w)!Second(t)
    BY <2>2
  <2>4. Views(w)!Second(t) = o
    BY <2>2, <2>3 DEF Fit
  <2> QED
    BY <2>1, <2>2, <2>4
<1>4. T \in Seq(ViewInstr(w)) /\ Tail(T) \in Seq(ViewInstr(w)) /\ T # <<>>
  <2>1. T # <<>>
    BY DEF Views!At
  <2> QED
    BY <1>1, <2>1, Hand
<1>5. \A b \in old : Met(w, o, b)
  BY <1>1, <1>3 DEF ListMet, Walk
<1> HIDE DEF T, o
<1>6. /\ s \in Tasklets(w) /\ s.todo = Tail(T) /\ s.new = {}
      /\ s.old = old /\ s.before = r.before
  BY <1>1, <1>4 DEF Tasklets
<1>7. ASSUME NEW all, NEW some \in SUBSET all, NEW before, Looking(w, o, T, all, before, r.new)
      PROVE  Looking(w, o, Tail(T), all, some, {})
  <2>1. \A b \in all \ {o} : <<"look", o, b>> \in Items(T)
    BY <1>3, <1>7 DEF Looking
  <2>2. \A b : <<"look", o, b>> # Head(T)
    BY <1>3 DEF Begins
  <2>3. \A b \in all \ {o} : <<"look", o, b>> \in Items(Tail(T))
    BY <1>3, <2>1, <2>2
  <2>4. NotBoth(w, o, o)
    BY DEF NotBoth
  <2> QED
    BY <2>3, <2>4 DEF Looking
<1> HIDE DEF s, op
<1>8. Walk(w, o, op, s)
  <2>1. \A b \in s.old \cup s.new \cup s.before : Met(w, o, b)
    BY <1>3, <1>5, <1>6 DEF Walk
  <2>2. r.todo = T
    BY DEF T
  <2> HIDE DEF r
  <2> QED
    BY <1>3, <1>6, <1>7, <2>1, <2>2 DEF Walk
<1> QED
  BY <1>2, <1>3, <1>6, <1>8, RoundStep DEF T, o, op

LEMMA CopyStep ==
    ASSUME NEW w \in Worlds, ViewInv(w), NEW t \in Views(w)!Tasks, Views(w)!Copy(t)
    PROVE  ViewInv(w)'
<1> DEFINE old == viewlist[Views(w)!First(t)]
<1>1. /\ Views(w)!At(t, "copy") /\ viewlist' = viewlist /\ Still
      /\ task' = [task EXCEPT ![t].todo = Tail(@), ![t].old = old, ![t].new = {}]
  BY DEF Views!Copy, Still
<1>2. /\ task \in [Views(w)!Tasks -> Tasklets(w)] /\ ViewType(w)
      /\ viewlist \in [Views(w)!Objects -> SUBSET Views(w)!Objects]
  BY DEF ViewInv, ViewType
<1>3. task[t].todo # <<>>
  BY <1>1 DEF Views!At
<1>4. Views(w)!First(t) \in Views(w)!Objects
  BY <1>2, <1>3, Hand
<1>5. old \in SUBSET Views(w)!Objects
  BY <1>2, <1>4
<1> HIDE DEF old
<1> DEFINE s == [task[t] EXCEPT !.todo = Tail(task[t].todo), !.old = old, !.new = {}]
<1>6. task' = [task EXCEPT ![t] = s]
  BY <1>1, <1>2 DEF Tasklets
<1> QED
  BY <1>1, <1>5, <1>6, BeginStep DEF Begins, old

LEMMA RestartStep ==
    ASSUME NEW w \in Worlds, ViewInv(w), NEW t \in Views(w)!Tasks, Views(w)!Restart(t)
    PROVE  ViewInv(w)'
<1> DEFINE old == task[t].old
<1>1. /\ Views(w)!At(t, "restart") /\ viewlist' = viewlist /\ Still
      /\ task' = [task EXCEPT ![t].todo = Tail(@), ![t].new = {}]
  BY DEF Views!Restart, Still
<1>2. task \in [Views(w)!Tasks -> Tasklets(w)] /\ task[t] \in Tasklets(w)
  BY DEF ViewInv, ViewType
<1>3. old \in SUBSET Views(w)!Objects
  BY <1>2 DEF Tasklets
<1> DEFINE s == [task[t] EXCEPT !.todo = Tail(task[t].todo), !.old = old, !.new = {}]
<1>4. task' = [task EXCEPT ![t] = s]
  BY <1>1, <1>2 DEF Tasklets
<1> HIDE DEF old
<1> QED
  BY <1>1, <1>3, <1>4, BeginStep DEF Begins, old

-----------------------------------------------------------------------------
(* Programs made of parts.                                                 *)
LEMMA EachSeq ==
    ASSUME NEW S, NEW n \in Nat, NEW X \in [1..n -> S]
    PROVE  X \in Seq(S) /\ Len(X) = n /\ Items(X) = {X[k] : k \in 1..n}
<1>1. X \in Seq(S) /\ Len(X) = n
  OBVIOUS
<1> QED
  BY <1>1 DEF Items

(* In whatever order a set is gone through.                                *)
LEMMA OrdersOf ==
    ASSUME NEW w \in Worlds, NEW D \in SUBSET Views(w)!Objects, NEW order \in Views(w)!Orders(D)
    PROVE  \E n \in Nat : order \in [1..n -> D] /\ Len(order) = n
<1> DEFINE n == Cardinality(D)
<1>1. n \in Nat
  <2>1. w.objects - 1 \in Int /\ Views(w)!Objects = 0..(w.objects - 1)
    BY WorldSizes
  <2>2. IsFiniteSet(0..(w.objects - 1))
    BY <2>1, FS_Interval
  <2>3. IsFiniteSet(D)
    BY <2>1, <2>2, FS_Subset
  <2> QED
    BY <2>3, FS_CardinalityType
<1>2. order \in [1..n -> D]
  <2>1. Views(w)!Cardinality(D) = Cardinality(D)
    BY DEF Views!Cardinality, Cardinality
  <2> QED
    BY <2>1 DEF Views!Orders
<1> HIDE DEF n
<1> QED
  BY <1>1, <1>2

LEMMA EachInOrder ==
    ASSUME NEW w \in Worlds, NEW S, NEW D \in SUBSET Views(w)!Objects,
           NEW program \in [D -> Seq(S)], NEW order \in Views(w)!Orders(D)
    PROVE  Views(w)!EachOf(program, order) \in Seq(S)
<1> DEFINE P == [i \in 1..Len(order) |-> program[order[i]]]
<1>1. PICK n \in Nat : order \in [1..n -> D] /\ Len(order) = n
  BY OrdersOf
<1>2. P \in [1..n -> Seq(S)]
  BY <1>1
<1> HIDE DEF P
<1>3. P \in Seq(Seq(S))
  BY <1>2, EachSeq
<1>4. Views(w)!Flatten(P) \in Seq(S)
  BY <1>3, Flattened
<1> QED
  BY <1>4 DEF Views!EachOf, P

(* The instructions that may follow a walk around.                         *)
Plain(w) == {i \in ViewInstr(w) : Fit(w, i) /\ i[1] \notin RoundOps}

LEMMA PlainSeq ==
    ASSUME NEW w \in Worlds, NEW A \in Seq(Plain(w))
    PROVE  /\ A \in Seq(ViewInstr(w)) /\ Ordered(A)
           /\ A # <<>> => Last(A)[1] \notin Ends
           /\ \A i \in Items(A) : Fit(w, i) /\ i[1] \notin RoundOps
<1>1. Items(A) \subseteq Plain(w)
  BY ItemsOf
<1>2. Plain(w) \subseteq ViewInstr(w) /\ \A i \in Items(A) : Fit(w, i) /\ i[1] \notin RoundOps
  BY <1>1 DEF Plain
<1>3. Items(A) \subseteq ViewInstr(w)
  BY <1>1, <1>2
<1>4. A \in Seq(ViewInstr(w))
  BY <1>3, ItemsOf
<1> QED
  BY <1>2, <1>4, OrderedPlain

(* A walk around: its beginning, its looks and its end.                    *)
Looks(w, o) == {<<"look", o, b>> : b \in Views(w)!Objects}

LEMMA RoundProgram ==
    ASSUME NEW w \in Worlds, NEW o \in Views(w)!Objects,
           NEW L \in Seq(Looks(w, o)),
           NEW begin \in Begins, NEW end \in {"sort", "rest"}
    PROVE  LET M == << <<begin, o, o>> >> \o L \o << <<end, o, o>> >>
           IN  /\ M \in Seq(ViewInstr(w)) /\ M # <<>> /\ Ordered(M)
               /\ Items(M) = {<<begin, o, o>>} \cup Items(L) \cup {<<end, o, o>>}
               /\ \A i \in Items(M) : Fit(w, i) /\ i[1] # "lookBefore"
               /\ Last(M) = <<end, o, o>>
<1> DEFINE S == ViewInstr(w)
           b == <<begin, o, o>>
           e == <<end, o, o>>
           R == L \o <<e>>
           M == (<<b>> \o L) \o <<e>>
<1>1. /\ {begin, end, "look"} \subseteq ViewOps /\ begin \in RoundOps /\ begin \notin Ends
      /\ end \in Ends /\ "look" \in RoundOps /\ "look" \notin Ends \cup Begins
      /\ begin \notin {"look", "lookBefore"} /\ end \notin Begins \cup {"look", "lookBefore"}
  BY DEF ViewOps, RoundOps, Ends, Begins
<1>2. b \in S /\ e \in S /\ Looks(w, o) \subseteq S
  BY <1>1 DEF ViewInstr, Looks
<1>3. L \in Seq(S) /\ Items(L) \subseteq Looks(w, o)
  <2>1. Items(L) \subseteq Looks(w, o)
    BY ItemsOf
  <2>2. Items(L) \subseteq S
    BY <1>2, <2>1
  <2> HIDE DEF S
  <2> QED
    BY <2>1, <2>2, ItemsOf
<1>4. \A i \in Items(L) : i[1] = "look" /\ i[2] = o /\ Fit(w, i)
  <2>1. \A x \in Views(w)!Objects : Fit(w, <<"look", o, x>>)
    BY <1>1, <1>2 DEF Fit, Begins, Looks
  <2> QED
    BY <1>3, <2>1 DEF Looks
<1>5. Fit(w, b) /\ Fit(w, e)
  <2>1. Fit(w, b)
    BY <1>1, <1>2 DEF Fit, Begins
  <2>2. Fit(w, e)
    BY <1>1, <1>2 DEF Fit, Ends
  <2> QED
    BY <2>1, <2>2
<1>6. b[1] = begin /\ b[2] = o /\ e[1] = end /\ e[2] = o
  OBVIOUS
<1> HIDE DEF S, b, e
<1>7. /\ <<b>> \in Seq(S) /\ Items(<<b>>) = {b}
      /\ <<e>> \in Seq(S) /\ Items(<<e>>) = {e} /\ <<e>> # <<>> /\ Last(<<e>>) = e
  <2>1. <<e>> # <<>> /\ Last(<<e>>) = e
    BY DEF Last
  <2> QED
    BY <1>2, <2>1, ShortPrograms
<1>8. Ordered(<<e>>)
  <2>1. \A i \in 1..Len(<<e>>) : i = 1 /\ <<e>>[i] = e /\ Len(<<e>>) = 1
    OBVIOUS
  <2> QED
    BY <1>1, <1>6, <2>1 DEF Ordered
<1>9. R \in Seq(S) /\ Items(R) = Items(L) \cup {e}
  <2> DEFINE B == <<e>>
  <2>1. B \in Seq(S) /\ Items(B) = {e} /\ R = L \o B
    BY <1>7
  <2> HIDE DEF B, R
  <2> QED
    BY <1>3, <2>1, ItemsJoin
<1>10. Ordered(R) /\ R # <<>> /\ Last(R) = e
  <2> DEFINE B == <<e>>
  <2>1. /\ B \in Seq(S) /\ Ordered(B) /\ B # <<>> /\ Last(B) = e /\ Items(B) = {e}
        /\ R = L \o B
    BY <1>7, <1>8
  <2> HIDE DEF B, R
  <2>2. \A i \in Items(L) :
             /\ i[1] \notin Ends
             /\ i[1] \in RoundOps => B # <<>> /\ Last(B)[1] \in Ends /\ i[2] = Last(B)[2]
             /\ i[1] = "lookBefore" => Last(B)[1] = "sort"
             /\ i[1] \in Begins => \A j \in Items(L) : j[1] # "look"
             /\ i[1] = "look" => \A j \in Items(B) : j[1] \notin Begins
    BY <1>1, <1>4, <1>6, <2>1
  <2> QED
    BY SMTT(60), <1>3, <2>1, <2>2, OrderedJoin
<1>11. M = <<b>> \o R
  BY <1>3, <1>7, ConcatAssociative
<1> HIDE DEF R, M
<1>12. M \in Seq(S) /\ Items(M) = {b} \cup Items(L) \cup {e}
  <2> DEFINE A == <<b>>
  <2>1. A \in Seq(S) /\ Items(A) = {b} /\ M = A \o R
    BY <1>7, <1>11
  <2> HIDE DEF A
  <2> QED
    BY <1>9, <2>1, ItemsJoin
<1>13. Ordered(M) /\ M # <<>> /\ Last(M) = e
  <2> DEFINE A == <<b>>
  <2>1. A \in Seq(S) /\ Items(A) = {b} /\ M = A \o R
    BY <1>7, <1>11
  <2> HIDE DEF A
  <2>2. \A i \in Items(A) :
             /\ i[1] \notin Ends
             /\ i[1] \in RoundOps => R # <<>> /\ Last(R)[1] \in Ends /\ i[2] = Last(R)[2]
             /\ i[1] = "lookBefore" => Last(R)[1] = "sort"
             /\ i[1] \in Begins => \A j \in Items(A) : j[1] # "look"
             /\ i[1] = "look" => \A j \in Items(R) : j[1] \notin Begins
    BY <1>1, <1>6, <1>10, <2>1
  <2> QED
    BY <1>9, <1>10, <2>1, <2>2, OrderedJoin
<1>14. \A i \in Items(M) : Fit(w, i) /\ i[1] # "lookBefore"
  BY <1>1, <1>4, <1>5, <1>6, <1>12
<1> QED
  BY <1>12, <1>13, <1>14 DEF S, b, e, M

LEMMA LooksThere ==
    ASSUME NEW w \in Worlds, NEW o \in Views(w)!Objects, NEW n \in Nat,
           NEW f \in [1..n -> Views(w)!Objects]
    PROVE  LET L == [k \in 1..n |-> <<"look", o, f[k]>>]
           IN  /\ L \in Seq(Looks(w, o))
               /\ \A k \in 1..n : <<"look", o, f[k]>> \in Items(L)
<1> DEFINE L == [k \in 1..n |-> <<"look", o, f[k]>>]
           S == Looks(w, o)
<1>1. \A k \in 1..n : <<"look", o, f[k]>> \in S
  BY DEF Looks
<1> HIDE DEF S
<1>2. L \in [1..n -> S] /\ \A k \in 1..n : L[k] = <<"look", o, f[k]>>
  BY <1>1
<1> HIDE DEF L
<1>3. L \in Seq(S) /\ Items(L) = {L[k] : k \in 1..n}
  BY <1>2, EachSeq
<1>4. \A k \in 1..n : <<"look", o, f[k]>> \in Items(L)
  BY <1>2, <1>3
<1> QED
  BY <1>3, <1>4 DEF L, S

LEMMA NpcLooksAround ==
    ASSUME NEW w \in Worlds, NEW o \in Views(w)!Objects
    PROVE  LET M == Views(w)!NpcLooks(o)
           IN  /\ M \in Seq(ViewInstr(w)) /\ M # <<>> /\ Ordered(M)
               /\ \A i \in Items(M) : Fit(w, i)
               /\ Last(M) = <<"rest", o, o>>
               /\ <<"restart", o, o>> \in Items(M)
               /\ \A b \in Views(w)!Clients : <<"look", o, b>> \in Items(M)
<1> DEFINE n == w.clients
           f == [k \in 1..n |-> k - 1]
           L == [k \in 1..n |-> <<"look", o, f[k]>>]
           M == << <<"restart", o, o>> >> \o L \o << <<"rest", o, o>> >>
<1>1. /\ n \in Nat /\ Views(w)!Clients = 0..(n - 1)
      /\ Views(w)!Clients \subseteq Views(w)!Objects
  BY WorldSizes
<1>2. [k \in 1..n |-> <<"look", o, k - 1>>] = L
  OBVIOUS
<1>3. M = Views(w)!NpcLooks(o)
  BY <1>2 DEF Views!NpcLooks
<1> HIDE DEF n
<1>4. f \in [1..n -> Views(w)!Objects]
  BY <1>1
<1>5. \A b \in Views(w)!Clients : b + 1 \in 1..n /\ f[b + 1] = b
  BY <1>1
<1> HIDE DEF f
<1>6. L \in Seq(Looks(w, o)) /\ \A k \in 1..n : <<"look", o, f[k]>> \in Items(L)
  BY <1>1, <1>4, LooksThere
<1> HIDE DEF L
<1>7. \A b \in Views(w)!Clients : <<"look", o, b>> \in Items(L)
  BY <1>5, <1>6
<1>8. "restart" \in Begins /\ "rest" \in {"sort", "rest"}
  BY DEF Begins
<1>9. /\ M \in Seq(ViewInstr(w)) /\ M # <<>> /\ Ordered(M)
      /\ Items(M) = {<<"restart", o, o>>} \cup Items(L) \cup {<<"rest", o, o>>}
      /\ \A i \in Items(M) : Fit(w, i)
      /\ Last(M) = <<"rest", o, o>>
  BY ZenonT(60), <1>6, <1>8, RoundProgram
<1> HIDE DEF M
<1> QED
  BY <1>3, <1>7, <1>9

(* The end of a walk around, and what it goes on with.                     *)
LEMMA EndStep ==
    ASSUME NEW w \in Worlds, ViewInv(w), NEW t \in Views(w)!Tasks, Still, viewlist' = viewlist,
           NEW op \in Ends, Views(w)!At(t, op),
           NEW M \in Seq(ViewInstr(w)), Views(w)!Go(t, M),
           \A i \in Items(M) : Fit(w, i), Ordered(M),
           \A r \in Tasklets(w) :
             /\ r.todo = M /\ M # <<>> /\ r.old = task[t].old /\ r.before = task[t].before
             /\ r.new = task[t].new
             => WalkInv(w, r)
    PROVE  ViewInv(w)'
<1> DEFINE T == task[t].todo
           h == Head(T)
<1>1. ViewType(w) /\ ListMet(w) /\ AllOwed(w)
      /\ viewlist \in [Views(w)!Objects -> SUBSET Views(w)!Objects]
  BY DEF ViewInv, ViewType
<1>2. /\ T # <<>> /\ h[1] = op /\ Items(T) = {h} \cup Items(Tail(T)) /\ Tail(T) = <<>>
  <2>1. op \in RoundOps
    BY DEF RoundOps
  <2>2. /\ T # <<>> /\ h = <<op, Views(w)!First(t), Views(w)!Second(t)>>
        /\ Items(T) = {h} \cup Items(Tail(T)) /\ Tail(T) = <<>>
    BY <2>1, RoundHand
  <2> HIDE DEF T, h
  <2> QED
    BY <2>2
<1>3. Kept(w, t) /\ \A p, q : InSight(w, p, q)' <=> InSight(w, p, q)
  BY StillKept
<1>4. /\ \A u \in Views(w)!Tasks : u # t => task'[u] = task[u]
      /\ task' \in [Views(w)!Tasks -> Tasklets(w)] /\ task'[t].todo = M
      /\ M # <<>> => /\ task'[t].old = task[t].old
                     /\ task'[t].before = task[t].before
                     /\ task'[t].new = task[t].new
  <2> DEFINE R == M \o Tail(task[t].todo)
  <2>1. /\ \A u \in Views(w)!Tasks : u # t => task'[u] = task[u]
        /\ task' \in [Views(w)!Tasks -> Tasklets(w)] /\ task'[t].todo = R
        /\ R # <<>> => /\ task'[t].old = task[t].old
                       /\ task'[t].before = task[t].before
                       /\ task'[t].new = task[t].new
    BY <1>1, <1>2, GoesOn
  <2>2. R = M
    <3>1. M \o <<>> = M
      OBVIOUS
    <3> QED
      BY <1>2, <3>1
  <2> HIDE DEF R
  <2> QED
    BY <2>1, <2>2
<1> HIDE DEF h, T
<1>5. Prog(w, t)'
  <2>1. \A i \in Items(M) : Fit(w, i)'
    BY <1>3, FitSteady
  <2>2. PICK s : s = task'[t]
    OBVIOUS
  <2>3. s \in Tasklets(w) /\ s.todo = M
    BY <1>4, <2>2
  <2>4. WalkInv(w, s)
    <3>1. CASE M = <<>>
      BY <2>3, <3>1 DEF WalkInv
    <3>2. CASE M # <<>>
      BY <1>4, <2>2, <2>3, <3>2
    <3> QED
      BY <3>1, <3>2
  <2>5. WalkInv(w, s)'
    BY <1>3, <2>3, <2>4, WalkSteady
  <2> QED
    BY <1>4, <2>1, <2>2, <2>5 DEF Prog
<1>6. AllOwed(w)'
  <2>1. Items(task[t].todo) \subseteq {h} \cup Items(task'[t].todo)
    <3>1. Items(Tail(T)) = {}
      BY <1>2 DEF Items
    <3> QED
      BY <1>2, <3>1 DEF T
  <2>2. \A p, q : h \notin Owing(p, q)
    BY <1>2 DEF Owing, Ends
  <2> QED
    BY <1>1, <1>3, <1>4, <2>1, <2>2, StillOwed
<1>7. ViewType(w)'
  BY <1>1, <1>4, StillType
<1>8. ListMet(w)'
  <2>1. \A a \in Views(w)!Objects : \A b \in viewlist'[a] : b \in Views(w)!Objects
    BY <1>1
  <2> QED
    BY <1>1, <1>3, <2>1, StillMet
<1> QED
  BY <1>3, <1>4, <1>5, <1>6, <1>7, <1>8, StepOf

LEMMA SortStep ==
    ASSUME NEW w \in Worlds, ViewInv(w), NEW t \in Views(w)!Tasks, Views(w)!Sort(t)
    PROVE  ViewInv(w)'
<1> DEFINE T == task[t].todo
           o == Views(w)!First(t)
           now == task[t].new
           old == task[t].old
           meets == [n \in now |-> Views(w)!MeetProgram(o, n, old)]
           parts == [n \in old \ now |-> Views(w)!PartProgram(o, n)]
           more == IF o \in Views(w)!Npcs THEN Views(w)!NpcLooks(o) ELSE <<>>
           P == Plain(w)
<1>1. Views(w)!At(t, "sort") /\ viewlist' = viewlist /\ Still
  BY DEF Views!Sort, Still
<1>2. PICK in \in Views(w)!Orders(DOMAIN meets), out \in Views(w)!Orders(DOMAIN parts) :
        Views(w)!Go(t, Views(w)!EachOf(meets, in) \o Views(w)!EachOf(parts, out) \o more)
  BY DEF Views!Sort
<1>3. /\ ViewType(w) /\ now \subseteq Views(w)!Objects /\ old \subseteq Views(w)!Objects
      /\ task[t].before \subseteq Views(w)!Objects
  BY DEF ViewInv, ViewType, Tasklets
<1>4. /\ "sort" \in RoundOps /\ "sort" \in Ends /\ "sort" \notin Begins \cup {"look"}
      /\ {"insert", "add", "meet", "erase", "remove", "part"} \subseteq ViewOps \ RoundOps
  BY DEF RoundOps, Ends, Begins, ViewOps
<1>5. /\ Head(T)[1] = "sort" /\ Items(T) = {Head(T)}
      /\ o \in Views(w)!Objects /\ Walk(w, o, "sort", task[t]) /\ T # <<>>
  <2>1. /\ T # <<>> /\ Head(T) = <<"sort", o, Views(w)!Second(t)>>
        /\ Items(T) = {Head(T)} \cup Items(Tail(T)) /\ o \in Views(w)!Objects
        /\ Walk(w, o, Last(T)[1], task[t]) /\ Last(T)[1] = "sort" /\ Tail(T) = <<>>
    BY <1>1, <1>4, RoundHand
  <2>2. \A X : X = <<>> => Items(X) = {}
    BY DEF Items
  <2> HIDE DEF T, o
  <2>3. Items(T) = {Head(T)}
    BY <2>1, <2>2
  <2>4. Head(T)[1] = "sort"
    BY <2>1
  <2> QED
    BY <2>1, <2>3, <2>4
<1> HIDE DEF T, o
<1>6. \A n \in now \cup old : n \in Views(w)!Objects /\ Met(w, o, n) /\ Met(w, n, o)
  BY <1>3, <1>5, Symmetric DEF Walk
<1>7. ASSUME NEW n \in old \ now PROVE NotBoth(w, o, n) /\ NotBoth(w, n, o)
  <2>1. Looking(w, o, T, Views(w)!Objects, old, now)
    BY <1>5 DEF Walk, T
  <2>2. \A x \in Begins : <<x, o, o>> \notin Items(T)
    BY <1>4, <1>5
  <2>3. <<"look", o, n>> \notin Items(T)
    BY <1>4, <1>5
  <2>4. NotBoth(w, o, n)
    BY <2>1, <2>2, <2>3 DEF Looking
  <2> QED
    BY <1>3, <1>5, <2>4, Symmetric
<1>8. meets \in [now -> Seq(P)]
  <2>1. SUFFICES ASSUME NEW n \in now PROVE Views(w)!MeetProgram(o, n, old) \in Seq(P)
    OBVIOUS
  <2>2. n \in Views(w)!Objects /\ Met(w, o, n) /\ Met(w, n, o) /\ Met(w, n, n)
    BY <1>6 DEF Met, NotBoth
  <2>3. <<"insert", o, n>> \in P /\ <<"add", o, n>> \in P /\ <<"meet", n, o>> \in P
        /\ <<"insert", n, n>> \in P
    BY <1>4, <1>5, <2>2 DEF Plain, Fit, ViewInstr, Begins
  <2> DEFINE a == <<"insert", o, n>>
             b == <<"add", o, n>>
             c == <<"meet", n, o>>
             d == <<"insert", n, n>>
  <2>4. Views(w)!MeetProgram(o, n, old) =
          IF n \notin old THEN <<a, b>> \o (IF n \in Views(w)!Clients THEN <<c>> ELSE <<>>)
          ELSE IF n \in Views(w)!Npcs THEN <<d>> ELSE <<>>
    BY DEF Views!MeetProgram
  <2> HIDE DEF P, a, b, c, d
  <2>5. a \in P /\ b \in P /\ c \in P /\ d \in P
    BY <2>3 DEF a, b, c, d
  <2>6. <<a, b>> \in Seq(P) /\ <<c>> \in Seq(P) /\ <<d>> \in Seq(P) /\ <<>> \in Seq(P)
    BY <2>5
  <2>7. <<a, b>> \o <<c>> \in Seq(P) /\ <<a, b>> \o <<>> \in Seq(P)
    BY <2>6, ConcatProperties
  <2> QED
    BY <2>4, <2>6, <2>7
<1>9. parts \in [old \ now -> Seq(P)]
  <2>1. SUFFICES ASSUME NEW n \in old \ now PROVE Views(w)!PartProgram(o, n) \in Seq(P)
    OBVIOUS
  <2>2. n \in Views(w)!Objects /\ NotBoth(w, o, n) /\ NotBoth(w, n, o)
    BY <1>6, <1>7
  <2>3. <<"erase", o, n>> \in P /\ <<"remove", o, n>> \in P /\ <<"part", n, o>> \in P
    BY <1>4, <1>5, <2>2 DEF Plain, Fit, ViewInstr, Begins
  <2> DEFINE a == <<"erase", o, n>>
             b == <<"remove", o, n>>
             c == <<"part", n, o>>
  <2>4. Views(w)!PartProgram(o, n) = <<a, b>> \o (IF n \in Views(w)!Clients THEN <<c>> ELSE <<>>)
    BY DEF Views!PartProgram
  <2> HIDE DEF P, a, b, c
  <2>5. a \in P /\ b \in P /\ c \in P
    BY <2>3 DEF a, b, c
  <2>6. <<a, b>> \in Seq(P) /\ <<c>> \in Seq(P) /\ <<>> \in Seq(P)
    BY <2>5
  <2>7. <<a, b>> \o <<c>> \in Seq(P) /\ <<a, b>> \o <<>> \in Seq(P)
    BY <2>6, ConcatProperties
  <2> QED
    BY <2>4, <2>6, <2>7
<1> DEFINE A == Views(w)!EachOf(meets, in) \o Views(w)!EachOf(parts, out)
<1>10. A \in Seq(P)
  <2>1. DOMAIN meets = now /\ DOMAIN parts = old \ now
    OBVIOUS
  <2>2. in \in Views(w)!Orders(now) /\ out \in Views(w)!Orders(old \ now)
    BY <2>1
  <2> HIDE DEF meets, parts, P, now, old
  <2>3. Views(w)!EachOf(meets, in) \in Seq(P)
    BY <1>3, <1>8, <2>2, EachInOrder
  <2>4. old \ now \in SUBSET Views(w)!Objects
    BY <1>3
  <2>5. Views(w)!EachOf(parts, out) \in Seq(P)
    BY <1>9, <2>2, <2>4, EachInOrder
  <2> QED
    BY <2>3, <2>5, ConcatProperties
<1>11. Views(w)!Go(t, A \o more)
  BY <1>2
<1> HIDE DEF A, P, meets, parts
<1>12. /\ A \in Seq(ViewInstr(w)) /\ Ordered(A)
       /\ A # <<>> => Last(A)[1] \notin Ends
       /\ \A i \in Items(A) : Fit(w, i) /\ i[1] \notin RoundOps
  BY <1>10, PlainSeq DEF P
<1>13. CASE o \notin Views(w)!Npcs
  <2>1. A \o more = A
    BY <1>12, <1>13
  <2>2. \A r \in Tasklets(w) : r.todo = A => WalkInv(w, r)
    BY <1>12 DEF WalkInv
  <2> HIDE DEF more
  <2> QED
    BY <1>1, <1>4, <1>11, <1>12, <2>1, <2>2, EndStep
<1>14. CASE o \in Views(w)!Npcs
  <2> DEFINE B == Views(w)!NpcLooks(o)
             C == A \o B
  <2>4. /\ B \in Seq(ViewInstr(w)) /\ B # <<>> /\ Ordered(B)
        /\ \A i \in Items(B) : Fit(w, i)
        /\ Last(B) = <<"rest", o, o>>
        /\ <<"restart", o, o>> \in Items(B)
        /\ \A b \in Views(w)!Clients : <<"look", o, b>> \in Items(B)
    BY <1>5, NpcLooksAround
  <2> HIDE DEF B
  <2>5. more = B
    BY <1>14 DEF B
  <2>6. /\ C \in Seq(ViewInstr(w)) /\ Items(C) = Items(A) \cup Items(B)
        /\ Ordered(C) /\ Last(C) = Last(B) /\ Views(w)!Go(t, C)
    <3>1. Ends \subseteq RoundOps /\ Begins \subseteq RoundOps
          /\ "lookBefore" \in RoundOps /\ "look" \in RoundOps
      BY DEF RoundOps
    <3>2. C \in Seq(ViewInstr(w)) /\ Items(C) = Items(A) \cup Items(B)
      BY <1>12, <2>4, ItemsJoin
    <3>3. Ordered(C) /\ Last(C) = Last(B)
      BY <1>12, <2>4, <3>1, OrderedJoin
    <3>4. Views(w)!Go(t, C)
      BY <1>11, <2>5
    <3> QED
      BY <3>2, <3>3, <3>4
  <2> HIDE DEF C
  <2>7. ASSUME NEW r \in Tasklets(w), r.todo = C, r.old = old, r.new = now,
               r.before = task[t].before
        PROVE  WalkInv(w, r)
    <3>1. Walk(w, o, "rest", r)
      <4>1. Looking(w, o, C, Views(w)!Clients, r.before, r.new)
        <5>1. <<"restart", o, o>> \in Items(C) /\ "restart" \in Begins
          BY <2>4, <2>6 DEF Begins
        <5>2. \A b \in Views(w)!Clients : <<"look", o, b>> \in Items(C)
          BY <2>4, <2>6
        <5> QED
          BY <5>1, <5>2 DEF Looking
      <4> HIDE DEF now, old
      <4>2. Ready(w, o) /\ r.before \subseteq Views(w)!Clients
            /\ \A b \in r.old \cup r.new \cup r.before : Met(w, o, b)
        BY <1>5, <2>7 DEF Walk, now, old
      <4> QED
        BY <2>7, <4>1, <4>2 DEF Walk
    <3>2. Last(C)[1] = "rest" /\ Last(C)[2] = o
      BY <2>4, <2>6
    <3> QED
      BY <2>7, <3>1, <3>2 DEF WalkInv
  <2>8. \A i \in Items(C) : Fit(w, i)
    BY <1>12, <2>4, <2>6
  <2> QED
    BY <1>1, <1>4, <2>6, <2>7, <2>8, EndStep
<1> QED
  BY <1>13, <1>14

LEMMA RestStep ==
    ASSUME NEW w \in Worlds, ViewInv(w), NEW t \in Views(w)!Tasks, Views(w)!Rest(t)
    PROVE  ViewInv(w)'
<1> DEFINE T == task[t].todo
           o == Views(w)!First(t)
           now == task[t].new
           was == task[t].before
           P == Plain(w)
<1>1. Views(w)!At(t, "rest") /\ viewlist' = viewlist /\ Still
  BY DEF Views!Rest, Still
<1>2. PICK order \in Views(w)!Orders(was) : Views(w)!Go(t, Views(w)!NpcRest(o, order, now))
  BY DEF Views!Rest
<1>3. ViewType(w) /\ now \subseteq Views(w)!Objects /\ was \subseteq Views(w)!Objects
  BY DEF ViewInv, ViewType, Tasklets
<1>4. /\ "rest" \in RoundOps /\ "rest" \in Ends /\ "rest" \notin Begins \cup {"look"}
      /\ {"list", "part"} \subseteq ViewOps \ RoundOps
      /\ "listAll" \in Ends /\ "listAll" \in ViewOps
      /\ "listAll" \notin Begins \cup {"sort", "rest"}
  BY DEF RoundOps, Ends, Begins, ViewOps
<1>5. /\ Head(T)[1] = "rest" /\ Items(T) = {Head(T)}
      /\ o \in Views(w)!Objects /\ Walk(w, o, "rest", task[t]) /\ T # <<>>
  <2>1. /\ T # <<>> /\ Head(T) = <<"rest", o, Views(w)!Second(t)>>
        /\ Items(T) = {Head(T)} \cup Items(Tail(T)) /\ o \in Views(w)!Objects
        /\ Walk(w, o, Last(T)[1], task[t]) /\ Last(T)[1] = "rest" /\ Tail(T) = <<>>
    BY <1>1, <1>4, RoundHand
  <2>2. \A X : X = <<>> => Items(X) = {}
    BY DEF Items
  <2> HIDE DEF T, o
  <2>3. Items(T) = {Head(T)}
    BY <2>1, <2>2
  <2>4. Head(T)[1] = "rest"
    BY <2>1
  <2> QED
    BY <2>1, <2>3, <2>4
<1> HIDE DEF T, o
<1>6. \A n \in was : n \in Views(w)!Objects /\ Met(w, n, o)
  BY <1>3, <1>5, Symmetric DEF Walk
<1>7. ASSUME NEW n \in was \ now PROVE NotBoth(w, n, o)
  <2>1. Looking(w, o, T, Views(w)!Clients, was, now)
    BY <1>5 DEF Walk, T
  <2>2. \A x \in Begins : <<x, o, o>> \notin Items(T)
    BY <1>4, <1>5
  <2>3. <<"look", o, n>> \notin Items(T)
    BY <1>4, <1>5
  <2>4. NotBoth(w, o, n)
    BY <2>1, <2>2, <2>3 DEF Looking
  <2> QED
    BY <1>3, <1>5, <2>4, Symmetric
<1> DEFINE A == [i \in 1..Len(order) |->
                   <<IF order[i] \in now THEN "list" ELSE "part", order[i], o>>]
           e == <<"listAll", o, o>>
           B == <<e>>
           C == A \o B
<1>8. A \in Seq(P)
  <2>1. PICK n \in Nat : order \in [1..n -> was] /\ Len(order) = n
    BY <1>2, <1>3, OrdersOf
  <2>2. ASSUME NEW k \in 1..n
        PROVE  <<IF order[k] \in now THEN "list" ELSE "part", order[k], o>> \in P
    <3>1. order[k] \in was
      BY <2>1
    <3>2. CASE order[k] \in now
      BY <1>4, <1>5, <1>6, <3>1, <3>2 DEF Plain, Fit, ViewInstr, Begins
    <3>3. CASE order[k] \notin now
      BY <1>4, <1>5, <1>6, <1>7, <3>1, <3>3 DEF Plain, Fit, ViewInstr, Begins
    <3> QED
      BY <3>2, <3>3
  <2> HIDE DEF P
  <2>3. A \in [1..n -> P]
    BY <2>1, <2>2
  <2> HIDE DEF A
  <2> QED
    BY <2>3, EachSeq
<1>9. C = Views(w)!NpcRest(o, order, now)
  BY DEF Views!NpcRest
<1> HIDE DEF P, A
<1>10. /\ A \in Seq(ViewInstr(w)) /\ Ordered(A)
       /\ A # <<>> => Last(A)[1] \notin Ends
       /\ \A i \in Items(A) : Fit(w, i) /\ i[1] \notin RoundOps
  BY <1>8, PlainSeq DEF P
<1>11. /\ B \in Seq(ViewInstr(w)) /\ B # <<>> /\ Ordered(B) /\ Items(B) = {e} /\ Last(B) = e
       /\ Fit(w, e) /\ e[1] = "listAll" /\ e[2] = o
  <2>1. e \in ViewInstr(w) /\ Fit(w, e) /\ e[1] = "listAll" /\ e[2] = o
    BY <1>4, <1>5 DEF ViewInstr, Fit, Begins
  <2> HIDE DEF e
  <2>2. B \in Seq(ViewInstr(w)) /\ B # <<>> /\ Items(B) = {e} /\ Last(B) = e /\ Len(B) = 1
    BY <2>1, ShortPrograms DEF Last
  <2>3. Ordered(B)
    <3>1. \A i \in 1..Len(B) : i = 1 /\ B[i] = e
      OBVIOUS
    <3> HIDE DEF B
    <3>2. e[1] \in Ends /\ e[1] \notin Begins /\ e[1] # "lookBefore"
      BY <1>4, <2>1
    <3> QED
      BY <2>2, <3>1, <3>2 DEF Ordered
  <2> QED
    BY <2>1, <2>2, <2>3
<1> HIDE DEF B, e
<1>12. /\ C \in Seq(ViewInstr(w)) /\ Items(C) = Items(A) \cup Items(B)
       /\ Ordered(C) /\ C # <<>> /\ Last(C) = e
  <2>1. Ends \subseteq RoundOps /\ Begins \subseteq RoundOps
        /\ "lookBefore" \in RoundOps /\ "look" \in RoundOps
    BY DEF RoundOps
  <2>2. C \in Seq(ViewInstr(w)) /\ Items(C) = Items(A) \cup Items(B)
    BY <1>10, <1>11, ItemsJoin
  <2>3. Ordered(C) /\ C # <<>> /\ Last(C) = Last(B)
    BY <1>10, <1>11, <2>1, OrderedJoin
  <2> QED
    BY <1>11, <2>2, <2>3
<1>13. Views(w)!Go(t, C)
  BY <1>2, <1>9
<1> HIDE DEF C
<1>14. ASSUME NEW r \in Tasklets(w), r.todo = C, r.old = task[t].old, r.new = now,
              r.before = was
       PROVE  WalkInv(w, r)
  <2>1. Walk(w, o, "listAll", r)
    <3>1. Ready(w, o) /\ was \subseteq Views(w)!Clients
          /\ \A b \in task[t].old \cup now \cup was : Met(w, o, b)
      BY <1>5 DEF Walk
    <3> HIDE DEF now, was
    <3> QED
      BY <1>14, <3>1 DEF Walk
  <2>2. Last(C)[1] = "listAll" /\ Last(C)[2] = o
    BY <1>11, <1>12
  <2> QED
    BY <1>14, <2>1, <2>2 DEF WalkInv
<1>15. \A i \in Items(C) : Fit(w, i)
  BY <1>10, <1>11, <1>12
<1> QED
  BY <1>1, <1>4, <1>12, <1>13, <1>14, <1>15, EndStep

LEMMA ListAllStep ==
    ASSUME NEW w \in Worlds, ViewInv(w), NEW t \in Views(w)!Tasks, Views(w)!ListAll(t)
    PROVE  ViewInv(w)'
<1> DEFINE T == task[t].todo
           o == Views(w)!First(t)
           lacking == {p \in task[t].new : p \notin viewlist[p]}
           P == Plain(w)
<1>1. Views(w)!At(t, "listAll") /\ viewlist' = viewlist /\ Still
  BY DEF Views!ListAll, Still
<1>2. PICK order \in Views(w)!Orders(lacking) :
        Views(w)!Go(t, [i \in 1..Len(order) |-> <<"list", order[i], o>>])
  BY DEF Views!ListAll
<1>3. ViewType(w) /\ lacking \subseteq Views(w)!Objects
  BY DEF ViewInv, ViewType, Tasklets
<1>4. /\ "listAll" \in RoundOps /\ "listAll" \in Ends
      /\ "list" \in ViewOps \ RoundOps /\ "list" \notin Begins
  BY DEF RoundOps, Ends, Begins, ViewOps
<1>5. o \in Views(w)!Objects /\ Walk(w, o, "listAll", task[t])
  <2>1. /\ o \in Views(w)!Objects
        /\ Walk(w, o, Last(T)[1], task[t]) /\ Last(T)[1] = "listAll"
    BY <1>1, <1>4, RoundHand
  <2> HIDE DEF T, o
  <2> QED
    BY <2>1
<1> HIDE DEF T, o
<1>6. \A n \in lacking : n \in Views(w)!Objects /\ Met(w, n, o)
  BY <1>3, <1>5, Symmetric DEF Walk
<1> DEFINE A == [i \in 1..Len(order) |-> <<"list", order[i], o>>]
<1>7. A \in Seq(P)
  <2>1. PICK n \in Nat : order \in [1..n -> lacking] /\ Len(order) = n
    <3> HIDE DEF lacking
    <3> QED
      BY <1>2, <1>3, OrdersOf
  <2>2. ASSUME NEW k \in 1..n PROVE <<"list", order[k], o>> \in P
    <3>1. order[k] \in Views(w)!Objects /\ Met(w, order[k], o)
      <4> HIDE DEF lacking
      <4> QED
        BY <1>6, <2>1
    <3> QED
      BY <1>4, <1>5, <3>1 DEF Plain, Fit, ViewInstr
  <2> HIDE DEF P
  <2>3. A \in [1..n -> P]
    BY <2>1, <2>2
  <2> HIDE DEF A
  <2> QED
    BY <2>3, EachSeq
<1>8. Views(w)!Go(t, A)
  BY <1>2
<1> HIDE DEF P, A
<1>9. /\ A \in Seq(ViewInstr(w)) /\ Ordered(A)
      /\ A # <<>> => Last(A)[1] \notin Ends
      /\ \A i \in Items(A) : Fit(w, i) /\ i[1] \notin RoundOps
  BY <1>7, PlainSeq DEF P
<1>10. \A r \in Tasklets(w) : r.todo = A => WalkInv(w, r)
  BY <1>9 DEF WalkInv
<1> QED
  BY <1>1, <1>4, <1>8, <1>9, <1>10, EndStep

-----------------------------------------------------------------------------
(* The programs of a move and of the turn of an NPC.                       *)
Around(w, o, M) ==
    /\ M \in Seq(ViewInstr(w)) /\ M # <<>> /\ Ordered(M)
    /\ \A i \in Items(M) : Fit(w, i)
    /\ Last(M) = <<"sort", o, o>>
    /\ <<"copy", o, o>> \in Items(M)
    /\ \A b \in Views(w)!Objects \ {o} : <<"look", o, b>> \in Items(M)

LEMMA LooksAll ==
    ASSUME NEW w \in Worlds, NEW o \in Views(w)!Objects
    PROVE  LET L == Views(w)!LookAll(o)
           IN  /\ L \in Seq(Looks(w, o))
               /\ \A b \in Views(w)!Objects \ {o} : <<"look", o, b>> \in Items(L)
<1>1. /\ w.clients \in Nat /\ w.objects \in Nat
      /\ Views(w)!Clients = 0..(w.clients - 1)
      /\ Views(w)!Objects = 0..(w.objects - 1)
      /\ Views(w)!Clients \subseteq Views(w)!Objects
  BY WorldSizes
<1>2. CASE o \in Views(w)!Clients
  <2> DEFINE n == w.objects - 1
             f == [k \in 1..n |-> Views(w)!Others(o)[k]]
             L == [k \in 1..n |-> <<"look", o, f[k]>>]
  <2>1. n \in Nat
    BY <1>1
  <2>2. \A k \in 1..n : Views(w)!Others(o)[k] = IF k <= o THEN k - 1 ELSE k
    BY <1>1 DEF Views!Others
  <2>3. Views(w)!LookAll(o) = L
    <3>1. Views(w)!LookAll(o) = [k \in 1..n |-> <<"look", o, Views(w)!Others(o)[k]>>]
      BY <1>2 DEF Views!LookAll
    <3> HIDE DEF n
    <3> QED
      BY <3>1
  <2>4. o \in 0..n /\ Views(w)!Objects = 0..n
    BY <1>1
  <2> HIDE DEF n
  <2>5. f \in [1..n -> Views(w)!Objects]
    BY <2>1, <2>2, <2>4
  <2>6. \A b \in Views(w)!Objects \ {o} : \E k \in 1..n : f[k] = b
    <3>1. SUFFICES ASSUME NEW b \in Views(w)!Objects \ {o}
                   PROVE  \E k \in 1..n : f[k] = b
      OBVIOUS
    <3>2. CASE b < o
      <4>1. b + 1 \in 1..n /\ f[b + 1] = b
        BY <2>1, <2>2, <2>4, <3>2
      <4> QED
        BY <4>1
    <3>3. CASE b > o
      <4>1. b \in 1..n /\ f[b] = b
        BY <2>1, <2>2, <2>4, <3>3
      <4> QED
        BY <4>1
    <3> QED
      BY <2>4, <3>2, <3>3
  <2> HIDE DEF f
  <2>7. L \in Seq(Looks(w, o)) /\ \A k \in 1..n : <<"look", o, f[k]>> \in Items(L)
    BY <2>1, <2>5, LooksThere
  <2> HIDE DEF L
  <2> QED
    BY <2>3, <2>6, <2>7
<1>3. CASE o \notin Views(w)!Clients
  <2> DEFINE n == w.objects
             f == [k \in 1..n |-> k - 1]
             L == [k \in 1..n |-> <<"look", o, f[k]>>]
  <2>1. [k \in 1..n |-> <<"look", o, k - 1>>] = L
    OBVIOUS
  <2>2. Views(w)!LookAll(o) = L
    BY <1>3, <2>1 DEF Views!LookAll
  <2>3. n \in Nat /\ Views(w)!Objects = 0..(n - 1)
    BY <1>1
  <2> HIDE DEF n
  <2>4. /\ f \in [1..n -> Views(w)!Objects]
        /\ \A b \in Views(w)!Objects : b + 1 \in 1..n /\ f[b + 1] = b
    BY <2>3
  <2> HIDE DEF f
  <2>5. L \in Seq(Looks(w, o)) /\ \A k \in 1..n : <<"look", o, f[k]>> \in Items(L)
    BY ZenonT(60), <2>3, <2>4, LooksThere
  <2> HIDE DEF L
  <2> QED
    BY <2>2, <2>4, <2>5
<1> QED
  BY <1>2, <1>3

LEMMA MovesAround ==
    ASSUME NEW w \in Worlds, NEW o \in Views(w)!Objects
    PROVE  /\ Around(w, o, Views(w)!MoveProgram(o))
           /\ \A i \in Items(Views(w)!MoveProgram(o)) : i[1] # "lookBefore"
<1> DEFINE L == Views(w)!LookAll(o)
           M == << <<"copy", o, o>> >> \o L \o << <<"sort", o, o>> >>
<1>1. M = Views(w)!MoveProgram(o)
  BY DEF Views!MoveProgram
<1>2. /\ L \in Seq(Looks(w, o))
      /\ \A b \in Views(w)!Objects \ {o} : <<"look", o, b>> \in Items(L)
  BY LooksAll
<1> HIDE DEF L
<1>3. "copy" \in Begins /\ "sort" \in {"sort", "rest"}
  BY DEF Begins
<1>4. /\ M \in Seq(ViewInstr(w)) /\ M # <<>> /\ Ordered(M)
      /\ Items(M) = {<<"copy", o, o>>} \cup Items(L) \cup {<<"sort", o, o>>}
      /\ \A i \in Items(M) : Fit(w, i) /\ i[1] # "lookBefore"
      /\ Last(M) = <<"sort", o, o>>
  BY <1>2, <1>3, RoundProgram
<1> HIDE DEF M
<1>5. Around(w, o, M) /\ \A i \in Items(M) : i[1] # "lookBefore"
  BY <1>2, <1>4 DEF Around
<1> QED
  BY <1>1, <1>5

LEMMA NpcsAround ==
    ASSUME NEW w \in Worlds, NEW o \in Views(w)!Npcs
    PROVE  Around(w, o, Views(w)!NpcProgram(o))
<1> DEFINE n == w.clients
           A == [k \in 1..n |-> <<"lookBefore", o, k - 1>>]
           B == Views(w)!MoveProgram(o)
           C == A \o B
           S == ViewInstr(w)
<1>1. n \in Nat /\ Views(w)!Clients = 0..(n - 1)
      /\ Views(w)!Clients \subseteq Views(w)!Objects /\ o \in Views(w)!Objects
  BY WorldSizes
<1>2. C = Views(w)!NpcProgram(o)
  BY DEF Views!NpcProgram
<1>3. Around(w, o, B)
  BY <1>1, MovesAround
<1>4. "lookBefore" \in ViewOps /\ "lookBefore" \notin Begins \cup Ends \cup {"look"}
      /\ "sort" \in Ends
  BY DEF ViewOps, RoundOps, Begins, Ends
<1>5. ASSUME NEW k \in 1..n
      PROVE  <<"lookBefore", o, k - 1>> \in S /\ Fit(w, <<"lookBefore", o, k - 1>>)
  <2>1. k - 1 \in Views(w)!Clients
    BY <1>1
  <2>2. <<"lookBefore", o, k - 1>> \in S
    BY <1>1, <1>4, <2>1 DEF ViewInstr
  <2> QED
    BY <1>4, <2>1, <2>2 DEF Fit
<1> HIDE DEF n, S, B
<1>6. /\ A \in [1..n -> S]
      /\ \A k \in 1..n : A[k][1] = "lookBefore" /\ A[k][2] = o /\ Fit(w, A[k])
  BY <1>5
<1> HIDE DEF A
<1>7. /\ A \in Seq(S)
      /\ \A i \in Items(A) : i[1] = "lookBefore" /\ i[2] = o /\ Fit(w, i)
  <2>1. A \in Seq(S) /\ Items(A) = {A[k] : k \in 1..n}
    BY <1>1, <1>6, EachSeq
  <2> QED
    BY <1>6, <2>1
<1>8. /\ B \in Seq(S) /\ B # <<>> /\ Ordered(B) /\ \A i \in Items(B) : Fit(w, i)
      /\ Last(B) = <<"sort", o, o>> /\ <<"copy", o, o>> \in Items(B)
      /\ \A b \in Views(w)!Objects \ {o} : <<"look", o, b>> \in Items(B)
  BY <1>3 DEF Around, S
<1>9. C \in Seq(S) /\ Items(C) = Items(A) \cup Items(B)
  BY <1>7, <1>8, ItemsJoin
<1>10. Ordered(C) /\ C # <<>> /\ Last(C) = Last(B)
  <2>1. Last(B)[1] = "sort" /\ Last(B)[2] = o
    BY <1>8
  <2>2. \A i \in Items(A) :
             /\ i[1] \notin Ends
             /\ i[1] \in RoundOps => B # <<>> /\ Last(B)[1] \in Ends /\ i[2] = Last(B)[2]
             /\ i[1] = "lookBefore" => Last(B)[1] = "sort"
             /\ i[1] \in Begins => \A j \in Items(A) : j[1] # "look"
             /\ i[1] = "look" => \A j \in Items(B) : j[1] \notin Begins
    BY <1>4, <1>7, <1>8, <2>1
  <2> QED
    BY <1>7, <1>8, <2>2, OrderedJoin
<1> HIDE DEF C
<1>11. Around(w, o, C)
  BY <1>7, <1>8, <1>9, <1>10 DEF Around, S
<1> QED
  BY <1>2, <1>11

(* A request may show that its client is disorderly.                       *)
Asked(w) ==
    /\ isConnect' = isConnect /\ pos' = pos /\ lives' = lives
    /\ orderly' \in [Views(w)!Clients -> BOOLEAN]
    /\ \A c \in Views(w)!Clients : orderly'[c] => orderly[c]

LEMMA AskedKept ==
    ASSUME NEW w \in Worlds, NEW t, Asked(w)
    PROVE  /\ Kept(w, t)
           /\ \A p, q : InSight(w, p, q)' => InSight(w, p, q)
<1>1. /\ isConnect' = isConnect /\ pos' = pos /\ lives' = lives
      /\ Views(w)!Clients' = Views(w)!Clients /\ Views(w)!Npcs' = Views(w)!Npcs
      /\ \A c \in Views(w)!Clients : orderly'[c] => orderly[c]
  BY DEF Asked, Views!Clients, Views!Npcs
<1>2. \A x : Left(w, x) => Left(w, x)'
  BY <1>1 DEF Left
<1>3. \A p, q : Views(w)!isNear(p, q)' <=> Views(w)!isNear(p, q)
  BY <1>1 DEF Views!isNear
<1>4. Views(w)!InGame' \subseteq Views(w)!InGame
  BY <1>1 DEF Views!InGame
<1>5. \A p, q : InSight(w, p, q)' => InSight(w, p, q)
  BY <1>1, <1>3, <1>4 DEF InSight
<1> QED
  BY <1>1, <1>2, <1>5 DEF Kept

(* A task sets out on a program.                                           *)
LEMMA BegunStep ==
    ASSUME NEW w \in Worlds, ViewInv(w), NEW t \in Views(w)!Tasks, Asked(w),
           viewlist' = viewlist,
           NEW M \in Seq(ViewInstr(w)), Views(w)!Begin(t, M),
           \/ \E o \in Views(w)!Objects : Ready(w, o)' /\ Around(w, o, M)
           \/ Waiting(w, t)' /\ M = Views(w)!LoginProgram(t)
           \/ t \in Views(w)!Clients /\ Left(w, t)' /\ M = << <<"place", t, t>> >>
    PROVE  ViewInv(w)'
<1> DEFINE s == [Views(w)!Idle EXCEPT !.todo = M]
<1>1. ViewType(w) /\ ListMet(w) /\ AllOwed(w)
      /\ viewlist \in [Views(w)!Objects -> SUBSET Views(w)!Objects]
      /\ task \in [Views(w)!Tasks -> Tasklets(w)]
  BY DEF ViewInv, ViewType
<1>2. /\ Kept(w, t) /\ \A p, q : InSight(w, p, q)' => InSight(w, p, q)
      /\ Views(w)!Objects' = Views(w)!Objects /\ Views(w)!Clients' = Views(w)!Clients
      /\ Views(w)!Tasks' = Views(w)!Tasks /\ ViewInstr(w)' = ViewInstr(w)
  BY AskedKept DEF Views!Tasks, Views!Objects, Views!Clients, Views!Npcs, ViewInstr
<1>3. task[t] = Views(w)!Idle /\ task' = [task EXCEPT ![t] = s]
  <2>1. task[t] = Views(w)!Idle /\ task' = [task EXCEPT ![t].todo = M]
    BY DEF Views!Begin
  <2> QED
    BY <1>1, <2>1
<1>4. /\ s \in Tasklets(w) /\ s.todo = M /\ s.old = {} /\ s.new = {} /\ s.before = {}
      /\ task[t].todo = <<>>
  BY <1>3 DEF Views!Idle, Tasklets
<1> HIDE DEF s
<1>5. /\ \A u \in Views(w)!Tasks : u # t => task'[u] = task[u]
      /\ task' \in [Views(w)!Tasks -> Tasklets(w)] /\ task'[t] = s
  BY <1>1, <1>3, <1>4
<1>6. Prog(w, t)'
  <2>1. ASSUME NEW o \in Views(w)!Objects, Ready(w, o)', Around(w, o, M) PROVE Prog(w, t)'
    <3>1. /\ M # <<>> /\ Ordered(M) /\ \A i \in Items(M) : Fit(w, i)
          /\ Last(M) = <<"sort", o, o>> /\ <<"copy", o, o>> \in Items(M)
          /\ \A b \in Views(w)!Objects \ {o} : <<"look", o, b>> \in Items(M)
      BY <2>1 DEF Around
    <3>2. Last(M)[1] = "sort" /\ Last(M)[2] = o /\ "copy" \in Begins
      BY <3>1 DEF Begins
    <3>3. Looking(w, o, M, Views(w)!Objects, {}, {})'
      BY <1>2, <3>1, <3>2 DEF Looking, Items, Begins
    <3>4. Walk(w, o, "sort", s)'
      BY <1>2, <1>4, <2>1, <3>3 DEF Walk
    <3>5. WalkInv(w, s)'
      BY <1>4, <3>2, <3>4 DEF WalkInv, Last, Ends
    <3>6. \A i \in Items(M) : Fit(w, i)'
      BY <1>2, <3>1, FitSteady
    <3> QED
      BY <1>4, <1>5, <3>1, <3>5, <3>6 DEF Prog
  <2>2. ASSUME Waiting(w, t)', M = Views(w)!LoginProgram(t)
        PROVE  Prog(w, t)'
    <3>1. Views(w)!LoginProgram(t)' = Views(w)!LoginProgram(t)
      BY DEF Views!LoginProgram, Views!GreetAll, Views!Others
    <3> QED
      BY <1>4, <1>5, <2>2, <3>1 DEF Prog
  <2>3. ASSUME t \in Views(w)!Clients, Left(w, t)', M = << <<"place", t, t>> >>
        PROVE  Prog(w, t)'
    <3> DEFINE h == <<"place", t, t>>
    <3>1. /\ h[1] = "place" /\ h[2] = t /\ h \in ViewInstr(w)
          /\ h[1] \notin RoundOps /\ h[1] \notin Begins /\ h[1] \notin Ends
      BY <2>3, WorldSizes DEF ViewInstr, ViewOps, RoundOps, Begins, Ends
    <3>2. Items(M) = {h}
      BY <2>3, ItemsOfOne
    <3> HIDE DEF h
    <3>3. Fit(w, h)'
      BY <1>2, <2>3, <3>1 DEF Fit
    <3>4. \A i \in Items(M) : i[1] \notin RoundOps
      BY <3>1, <3>2
    <3>5. Ordered(M) /\ (M # <<>> => Last(M)[1] \notin Ends)
      BY <3>4, OrderedPlain
    <3>6. WalkInv(w, s)'
      BY <1>4, <3>5 DEF WalkInv, Last, Ends
    <3> QED
      BY <1>4, <1>5, <3>2, <3>3, <3>5, <3>6 DEF Prog
  <2> QED
    BY <2>1, <2>2, <2>3
<1>7. AllOwed(w)'
  <2>1. Items(task[t].todo) = {}
    BY <1>4 DEF Items
  <2>2. PICK h : \A p, q : h \notin Owing(p, q)
    <3>1. \A p, q : <<>> \notin Owing(p, q)
      BY DEF Owing
    <3> QED
      BY <3>1
  <2> QED
    BY <1>1, <1>2, <1>5, <2>1, <2>2, StillOwed
<1>8. ViewType(w)'
  <2>1. Tasklets(w)' = Tasklets(w)
    BY <1>2 DEF Tasklets
  <2> QED
    BY <1>1, <1>2, <1>5, <2>1 DEF ViewInv, ViewType, Asked
<1>9. ListMet(w)'
  <2>1. \A a \in Views(w)!Objects : \A b \in viewlist'[a] : b \in Views(w)!Objects
    BY <1>1
  <2> QED
    BY <1>1, <1>2, <2>1, StillMet
<1> QED
  BY <1>2, <1>5, <1>6, <1>7, <1>8, <1>9, StepOf

(* Whoever has sent a request has a connection, or had one.                *)
LEMMA Requested ==
    ASSUME NEW w \in Worlds, ViewInv(w), NEW c \in Views(w)!Clients,
           isConnect' = isConnect, pos' = pos, lives' = lives,
           isConnect[c] \/ lives[c] > 0,
           NEW p, orderly' = [orderly EXCEPT ![c] = orderly[c] /\ p]
    PROVE  /\ Asked(w)
           /\ lives'[c] = 1
           /\ ~p \/ ~isConnect[c] => Left(w, c)'
           /\ p /\ orderly[c] => orderly'[c]
<1>1. /\ orderly \in [Views(w)!Clients -> BOOLEAN]
      /\ lives \in [Views(w)!Clients -> {0, 1}]
      /\ lives[c] = 0 => ~isConnect[c]
  BY DEF ViewInv, ViewType
<1>2. lives'[c] = 1
  <2>1. lives[c] \in {0, 1}
    BY <1>1
  <2> QED
    BY <1>1, <2>1
<1>3. /\ orderly' \in [Views(w)!Clients -> BOOLEAN]
      /\ orderly'[c] = (orderly[c] /\ p)
      /\ \A x \in Views(w)!Clients : orderly'[x] => orderly[x]
  <2>1. (orderly[c] /\ p) \in BOOLEAN
    BY Zenon
  <2>2. PICK v \in BOOLEAN : v = (orderly[c] /\ p)
    BY <2>1
  <2>3. orderly' = [orderly EXCEPT ![c] = v] /\ (v => orderly[c])
    BY <2>2
  <2>4. /\ orderly' \in [Views(w)!Clients -> BOOLEAN] /\ orderly'[c] = v
        /\ \A x \in Views(w)!Clients : x # c => orderly'[x] = orderly[x]
    BY <1>1, <2>3
  <2> QED
    BY <2>2, <2>3, <2>4
<1>4. Views(w)!Clients' = Views(w)!Clients
  BY DEF Views!Clients
<1> QED
  BY <1>2, <1>3, <1>4 DEF Asked, Left

LEMMA LoginStep ==
    ASSUME NEW w \in Worlds, ViewInv(w), NEW c \in Views(w)!Clients, Views(w)!Login(c)
    PROVE  ViewInv(w)'
<1> DEFINE M == Views(w)!LoginProgram(c)
<1>1. /\ lives[c] > 0 /\ Views(w)!Begin(c, M) /\ viewlist' = viewlist
      /\ isConnect' = isConnect /\ pos' = pos /\ lives' = lives
      /\ orderly' = [orderly EXCEPT ![c] = orderly[c] /\ (isConnect[c] /\ pos[c] = -1)]
  BY DEF Views!Login
<1>2. M \in Seq(ViewInstr(w)) /\ c \in Views(w)!Tasks
  BY LoginBegins, WorldSizes
<1>3. Asked(w) /\ (~(isConnect[c] /\ pos[c] = -1) => Left(w, c)')
  BY <1>1, Requested
<1>4. Waiting(w, c)'
  BY <1>1, <1>3 DEF Waiting, Views!Clients
<1> HIDE DEF M
<1> QED
  BY <1>1, <1>2, <1>3, <1>4, BegunStep DEF M

LEMMA DummyLoginStep ==
    ASSUME NEW w \in Worlds, ViewInv(w), NEW c \in Views(w)!Clients, Views(w)!DummyLogin(c)
    PROVE  ViewInv(w)'
<1> DEFINE M == << <<"place", c, c>> >>
<1>1. /\ lives[c] > 0 /\ Views(w)!Begin(c, M) /\ viewlist' = viewlist
      /\ isConnect' = isConnect /\ pos' = pos /\ lives' = lives
      /\ orderly' = [orderly EXCEPT ![c] = FALSE]
  BY DEF Views!DummyLogin
<1>2. c \in Views(w)!Tasks /\ c \in Views(w)!Objects
  BY WorldSizes
<1>3. M \in Seq(ViewInstr(w))
  BY <1>2 DEF ViewInstr, ViewOps
<1>4. orderly' = [orderly EXCEPT ![c] = orderly[c] /\ FALSE]
  BY <1>1
<1>5. Asked(w) /\ Left(w, c)'
  BY <1>1, <1>4, Requested
<1> HIDE DEF M
<1> QED
  BY <1>1, <1>2, <1>3, <1>5, BegunStep DEF M

LEMMA PlayerMoveStep ==
    ASSUME NEW w \in Worlds, ViewInv(w), NEW c \in Views(w)!Clients, Views(w)!Move(c)
    PROVE  ViewInv(w)'
<1> DEFINE M == Views(w)!MoveProgram(c)
           t == Views(w)!update
<1>1. /\ isConnect[c] /\ Views(w)!Begin(t, M) /\ viewlist' = viewlist
      /\ isConnect' = isConnect /\ pos' = pos /\ lives' = lives
      /\ orderly' = [orderly EXCEPT ![c] = orderly[c] /\ (pos[c] # -1 /\ task[c] = Views(w)!Idle)]
  BY DEF Views!Move
<1>2. t \in Views(w)!Tasks /\ c \in Views(w)!Objects
  BY WorldSizes
<1>3. Asked(w) /\ (pos[c] = -1 => Left(w, c)')
  BY <1>1, Requested
<1>4. Ready(w, c)'
  BY <1>1, <1>3 DEF Ready, Placed
<1>5. Around(w, c, M)
  BY <1>2, MovesAround
<1>6. M \in Seq(ViewInstr(w))
  BY <1>5 DEF Around
<1> HIDE DEF M, t
<1> QED
  BY <1>1, <1>2, <1>3, <1>4, <1>5, <1>6, BegunStep

LEMMA NpcTurnStep ==
    ASSUME NEW w \in Worlds, ViewInv(w), NEW n \in Views(w)!Npcs, Views(w)!NpcTurn(n)
    PROVE  ViewInv(w)'
<1> DEFINE M == Views(w)!NpcProgram(n)
<1>1. /\ Views(w)!Begin(n, M) /\ viewlist' = viewlist /\ Asked(w)
      /\ isConnect' = isConnect /\ pos' = pos /\ lives' = lives
  BY DEF Views!NpcTurn, Asked, ViewInv, ViewType
<1>2. n \in Views(w)!Tasks /\ n \in Views(w)!Objects /\ n \notin Views(w)!Clients
  BY WorldSizes
<1>3. Ready(w, n)'
  BY <1>2 DEF Ready, Placed, Views!Clients
<1>4. Around(w, n, M)
  BY NpcsAround
<1>5. M \in Seq(ViewInstr(w))
  BY <1>4 DEF Around
<1> HIDE DEF M
<1> QED
  BY <1>1, <1>2, <1>3, <1>4, <1>5, BegunStep

-----------------------------------------------------------------------------
(* The steps that change positions and connections.                        *)
(* A login sets the position of its client.                                *)
LEMMA PlaceLogin ==
    ASSUME NEW w \in Worlds, ViewInv(w), NEW t \in Views(w)!Tasks, Views(w)!Place(t),
           Waiting(w, t), task[t].todo = Views(w)!LoginProgram(t)
    PROVE  ViewInv(w)'
<1> DEFINE T == task[t].todo
           G == Views(w)!GreetAll(t)
           h == Head(T)
<1>1. /\ Views(w)!At(t, "place") /\ Views(w)!Go(t, <<>>)
      /\ isConnect' = isConnect /\ viewlist' = viewlist /\ lives' = lives
      /\ orderly' = orderly
      /\ \E x \in 0..(w.width - 1) : pos' = [pos EXCEPT ![Views(w)!First(t)] = x]
  BY DEF Views!Place
<1>2. ViewType(w) /\ ListMet(w) /\ Prog(w, t) /\ AllOwed(w)
  BY DEF ViewInv, Progs
<1>3. T # <<>> /\ h[1] = "place"
  BY <1>1 DEF Views!At
<1>4. /\ T \in Seq(ViewInstr(w)) /\ Tail(T) \in Seq(ViewInstr(w))
      /\ Items(T) = {h} \cup Items(Tail(T)) /\ Views(w)!First(t) = h[2]
  BY <1>2, <1>3, Hand
<1>5. /\ t \in Views(w)!Clients /\ T = Views(w)!LoginProgram(t)
      /\ pos[t] = -1 \/ Left(w, t)
      /\ lives[t] # 0
  BY <1>2 DEF Waiting, ViewType, Left
<1>6. /\ h = <<"place", t, t>> /\ Tail(T) = G /\ G \in Seq(ViewInstr(w))
      /\ \A i \in Items(G) :
           \/ i[1] = "greet" /\ i[2] = t /\ i[3] \in Views(w)!Clients
           \/ i[1] = "greetNpc" /\ i[2] = t /\ i[3] \in Views(w)!Npcs
      /\ \A q \in Views(w)!Clients \ {t} : <<"greet", t, q>> \in Items(G)
      /\ \A q \in Views(w)!Npcs : <<"greetNpc", t, q>> \in Items(G)
  BY <1>5, LoginBegins
<1>7. Views(w)!First(t) = t
  BY <1>4, <1>6
<1>8. PICK x \in 0..(w.width - 1) : pos' = [pos EXCEPT ![t] = x]
  BY <1>1, <1>7
<1>9. /\ x \in Int /\ x # -1 /\ pos \in [Views(w)!Objects -> Int] /\ t \in Views(w)!Objects
      /\ Views(w)!Npcs \subseteq Views(w)!Objects /\ t \notin Views(w)!Npcs
      /\ Views(w)!Clients \subseteq Views(w)!Objects
      /\ Views(w)!Objects = Views(w)!Clients \cup Views(w)!Npcs
  <2>1. x \in Int /\ x # -1
    <3>1. w.width \in Nat
      BY WorldSizes
    <3> QED
      BY <1>8, <3>1
  <2>2. pos \in [Views(w)!Objects -> Int]
    BY <1>2 DEF ViewType
  <2> QED
    BY <1>5, <2>1, <2>2, WorldSizes
<1>10. /\ pos' \in [Views(w)!Objects -> Int] /\ pos'[t] = x
       /\ \A o \in Views(w)!Objects \ {t} : pos'[o] = pos[o]
  BY <1>8, <1>9
<1>11. /\ Views(w)!Clients' = Views(w)!Clients /\ Views(w)!Npcs' = Views(w)!Npcs
       /\ Views(w)!Objects' = Views(w)!Objects /\ Views(w)!Tasks' = Views(w)!Tasks
       /\ Tasklets(w)' = Tasklets(w) /\ ViewInstr(w)' = ViewInstr(w)
  BY DEF Views!Tasks, Views!Objects, Views!Clients, Views!Npcs, Tasklets, ViewInstr
<1>12. Kept(w, t)
  <2>1. \A o \in Views(w)!Clients : Left(w, o) => Left(w, o)'
    BY <1>1, <1>11 DEF Left
  <2>2. \A o \in Views(w)!Clients : pos'[o] = pos[o] \/ pos[o] = -1 \/ Left(w, o)'
    BY <1>5, <1>9, <1>10, <2>1
  <2>3. \A n \in Views(w)!Npcs : pos'[n] = pos[n]
    BY <1>9, <1>10
  <2>4. \A o \in Views(w)!Clients : o # t => pos'[o] = pos[o]
    BY <1>9, <1>10
  <2> QED
    BY <1>1, <2>1, <2>2, <2>3, <2>4 DEF Kept
<1> HIDE DEF T, G, h
<1>13. /\ \A u \in Views(w)!Tasks : u # t => task'[u] = task[u]
       /\ task' \in [Views(w)!Tasks -> Tasklets(w)] /\ task'[t].todo = G
  <2> DEFINE M == <<>>
             R == M \o Tail(task[t].todo)
  <2>1. M \in Seq(ViewInstr(w))
    BY ShortPrograms
  <2>2. R = Tail(task[t].todo)
    BY <1>4 DEF T
  <2> HIDE DEF M
  <2>3. Views(w)!Go(t, M) /\ task[t].todo # <<>>
    BY <1>1, <1>3 DEF M, T
  <2>4. /\ \A u \in Views(w)!Tasks : u # t => task'[u] = task[u]
        /\ task' \in [Views(w)!Tasks -> Tasklets(w)] /\ task'[t].todo = R
    BY <1>2, <2>1, <2>3, GoesOn
  <2> HIDE DEF R
  <2> QED
    BY <1>6, <2>2, <2>4 DEF T
<1>14. /\ \A i \in Items(G) : Fit(w, i)' /\ i[1] \notin RoundOps
       /\ Ordered(G)
       /\ G # <<>> => Last(G)[1] \notin Ends
  <2>1. {"greet", "greetNpc"} \cap (RoundOps \cup Begins) = {}
    BY DEF RoundOps, Begins, Ends
  <2>2. \A i \in Items(G) : i[1] \notin RoundOps
    BY <1>6, <2>1
  <2>3. Ready(w, t)'
    BY <1>9, <1>10 DEF Ready, Placed
  <2>4. ASSUME NEW i \in Items(G) PROVE Fit(w, i)'
    <3>1. i \in ViewInstr(w)
      BY <1>6, ItemsOf
    <3>2. \/ i[1] = "greet" /\ i[2] = t /\ i[3] \in Views(w)!Clients
          \/ i[1] = "greetNpc" /\ i[2] = t /\ i[3] \in Views(w)!Npcs
      BY <1>6
    <3> QED
      BY <1>5, <1>11, <2>1, <2>3, <3>1, <3>2 DEF Fit
  <2> QED
    BY <1>6, <2>2, <2>4, OrderedPlain
<1>15. Prog(w, t)'
  <2>1. WalkInv(w, task[t])'
    <3>1. PICK s : s = task'[t]
      OBVIOUS
    <3>2. WalkInv(w, s)'
      BY <1>13, <1>14, <3>1 DEF WalkInv, Last, Ends
    <3> QED
      BY <3>1, <3>2
  <2>2. \A i \in Items(task'[t].todo) : Fit(w, i)'
    BY <1>13, <1>14
  <2> QED
    BY <1>13, <1>14, <2>1, <2>2 DEF Prog
<1>16. AllOwed(w)'
  <2>1. SUFFICES ASSUME NEW p \in Views(w)!Objects, NEW q \in Views(w)!Objects,
                        InSight(w, p, q)'
                 PROVE  Owes(w, p, q)'
    BY <1>11 DEF AllOwed
  <2>2. /\ p \in Views(w)!Clients /\ isConnect[p] /\ orderly[p] /\ pos'[p] # -1 /\ p # q
        /\ q \in Views(w)!Clients => isConnect[q] /\ orderly[q] /\ pos'[q] # -1
        /\ Views(w)!isNear(p, q)'
    BY <1>1, <1>9, <1>11, <2>1, WorldSizes DEF InSight, Views!InGame
  <2>3. \A i : i \in Items(G) /\ i \in Owing(p, q) => Owes(w, p, q)'
    <3>1. ASSUME NEW i \in Items(G), i \in Owing(p, q)
          PROVE  \E u \in Views(w)!Tasks : Items(task'[u].todo) \cap Owing(p, q) # {}
      BY <1>13, <3>1
    <3> QED
      BY <1>11, <3>1 DEF Owes, Items, Owing
  <2>4. CASE p = t
    BY <1>6, <1>9, <2>2, <2>3, <2>4 DEF Owing
  <2>5. CASE q = t
    <3>1. <<"greet", q, p>> \in Items(G)
      BY <1>6, <2>2, <2>5
    <3> QED
      BY <2>3, <3>1 DEF Owing
  <2>6. CASE p # t /\ q # t
    <3>1. pos'[p] = pos[p] /\ pos'[q] = pos[q]
      BY <1>10, <2>6
    <3>2. InSight(w, p, q)
      BY <1>9, <2>2, <3>1 DEF InSight, Views!InGame, Views!isNear
    <3>3. Owes(w, p, q)
      BY <1>2, <3>2 DEF AllOwed
    <3>4. CASE q \in viewlist[p]
      BY <1>1, <3>4 DEF Owes
    <3>5. ASSUME NEW u \in Views(w)!Tasks, NEW i \in Items(task[u].todo) \cap Owing(p, q)
          PROVE  Owes(w, p, q)'
      <4>1. CASE u = t
        <5>1. i # h
          BY <1>6, <3>5 DEF Owing
        <5>2. i \in Items(G)
          BY <1>4, <1>6, <3>5, <4>1, <5>1 DEF T
        <5> QED
          BY <2>3, <3>5, <5>2
      <4>2. CASE u # t
        BY <1>11, <1>13, <3>5, <4>2 DEF Owes, Items, Owing
      <4> QED
        BY <4>1, <4>2
    <3> QED
      BY <3>3, <3>4, <3>5 DEF Owes
  <2> QED
    BY <2>4, <2>5, <2>6
<1>17. ViewType(w)'
  <2>1. \A c \in Views(w)!Clients : lives'[c] = 0 => pos'[c] = -1 /\ ~isConnect'[c]
    BY <1>1, <1>2, <1>5, <1>9, <1>10 DEF ViewType
  <2> QED
    BY <1>1, <1>2, <1>10, <1>11, <1>13, <2>1 DEF ViewType
<1>18. ListMet(w)'
  <2>1. \A a \in Views(w)!Objects : \A b \in viewlist'[a] :
          b \in Views(w)!Objects /\ b \in viewlist[a]
    BY <1>1, <1>2 DEF ViewType
  <2> QED
    BY <1>2, <1>12, <2>1, StillMet
<1> QED
  BY <1>12, <1>13, <1>15, <1>16, <1>17, <1>18, StepOf

(* A dummy login, or the position of one who is disorderly by now.         *)
LEMMA PlaceLeft ==
    ASSUME NEW w \in Worlds, ViewInv(w), NEW t \in Views(w)!Tasks, Views(w)!Place(t),
           \A i \in Items(task[t].todo) : Fit(w, i),
           Ordered(task[t].todo), WalkInv(w, task[t])
    PROVE  ViewInv(w)'
<1> DEFINE T == task[t].todo
           h == Head(T)
           M == <<>>
<1>0. PICK f : f = Views(w)!First(t)
  OBVIOUS
<1>1. /\ Views(w)!At(t, "place") /\ Views(w)!Go(t, M)
      /\ isConnect' = isConnect /\ viewlist' = viewlist /\ lives' = lives
      /\ orderly' = orderly
      /\ \E x \in 0..(w.width - 1) : pos' = [pos EXCEPT ![f] = x]
  BY <1>0 DEF Views!Place
<1>2. ViewType(w) /\ ListMet(w) /\ AllOwed(w)
  BY DEF ViewInv
<1>3. T # <<>> /\ h[1] = "place"
  BY <1>1 DEF Views!At
<1>4. /\ T \in Seq(ViewInstr(w)) /\ Tail(T) \in Seq(ViewInstr(w))
      /\ Items(T) = {h} \cup Items(Tail(T)) /\ f = h[2] /\ f \in Views(w)!Objects
  BY <1>0, <1>2, <1>3, Hand
<1>5. Left(w, f) /\ f \in Views(w)!Clients
  <2>1. Fit(w, h)
    BY <1>4
  <2> QED
    BY <1>3, <1>4, <2>1 DEF Fit, Left
<1>6. /\ Views(w)!Clients' = Views(w)!Clients /\ Views(w)!Npcs' = Views(w)!Npcs
      /\ Views(w)!Objects' = Views(w)!Objects /\ Views(w)!Tasks' = Views(w)!Tasks
      /\ Tasklets(w)' = Tasklets(w)
  BY DEF Views!Tasks, Views!Objects, Views!Clients, Views!Npcs, Tasklets, ViewInstr
<1>7. /\ pos' \in [Views(w)!Objects -> Int]
      /\ \A o \in Views(w)!Objects \ {f} : pos'[o] = pos[o]
  <2>1. PICK x \in 0..(w.width - 1) : pos' = [pos EXCEPT ![f] = x]
    BY <1>1
  <2>2. x \in Int
    BY <2>1, WorldSizes
  <2>3. pos \in [Views(w)!Objects -> Int]
    BY <1>2 DEF ViewType
  <2> QED
    BY <2>1, <2>2, <2>3
<1>8. Kept(w, t)
  <2>1. \A o \in Views(w)!Clients : Left(w, o) => Left(w, o)'
    BY <1>1, <1>6 DEF Left
  <2>2. \A o \in Views(w)!Clients : o # f => pos'[o] = pos[o]
    BY <1>7, WorldSizes
  <2>3. \A n \in Views(w)!Npcs : pos'[n] = pos[n]
    BY <1>5, <1>7, WorldSizes
  <2>4. Left(w, f)'
    BY <1>5, <2>1
  <2> QED
    BY <1>1, <2>1, <2>2, <2>3, <2>4 DEF Kept
<1>9. \A p, q : InSight(w, p, q)' => InSight(w, p, q)
  <2>1. SUFFICES ASSUME NEW p, NEW q, InSight(w, p, q)' PROVE InSight(w, p, q)
    OBVIOUS
  <2>2. /\ p \in Views(w)!Clients /\ isConnect[p] /\ orderly[p] /\ pos'[p] # -1 /\ p # q
        /\ q \in Views(w)!Clients => isConnect[q] /\ orderly[q] /\ pos'[q] # -1
        /\ q \in Views(w)!Clients \cup Views(w)!Npcs
        /\ Views(w)!isNear(p, q)'
    BY <1>1, <1>6, <2>1, WorldSizes DEF InSight, Views!InGame
  <2>3. p # f /\ q # f
    BY <1>5, <2>2 DEF Left
  <2>4. pos'[p] = pos[p] /\ pos'[q] = pos[q]
    BY <1>7, <2>2, <2>3, WorldSizes
  <2> QED
    BY <2>2, <2>4 DEF InSight, Views!InGame, Views!isNear
<1>10. M \in Seq(ViewInstr(w)) /\ Items(M) = {}
  BY ShortPrograms
<1>11. /\ \A u \in Views(w)!Tasks : u # t => task'[u] = task[u]
       /\ task' \in [Views(w)!Tasks -> Tasklets(w)]
       /\ Items(T) \subseteq {h} \cup Items(task'[t].todo)
  <2> DEFINE R == M \o Tail(task[t].todo)
  <2> HIDE DEF M
  <2>1. /\ \A u \in Views(w)!Tasks : u # t => task'[u] = task[u]
        /\ task' \in [Views(w)!Tasks -> Tasklets(w)] /\ task'[t].todo = R
        /\ Items(R) = Items(M) \cup Items(Tail(task[t].todo))
    BY <1>1, <1>2, <1>3, <1>10, GoesOn
  <2> HIDE DEF R
  <2> QED
    BY <1>4, <2>1
<1>12. Prog(w, t)'
  <2>1. \A i \in Items(Tail(T)) : Fit(w, i)'
    BY <1>4, <1>8, FitSteady
  <2>2. Ordered(Tail(T))
    BY <1>3, <1>4, OrderedTail
  <2>3. h[1] \notin RoundOps
    BY <1>3 DEF RoundOps, Begins, Ends
  <2> HIDE DEF M, Prog
  <2> QED
    BY <1>1, <1>2, <1>3, <1>8, <1>10, <2>1, <2>2, <2>3, Advance
<1>13. AllOwed(w)'
  <2>1. \A p, q : h \notin Owing(p, q)
    BY <1>3 DEF Owing
  <2> HIDE DEF h
  <2> QED
    BY <1>1, <1>2, <1>9, <1>11, <2>1, StillOwed
<1>14. ViewType(w)'
  <2>1. \A c \in Views(w)!Clients : lives'[c] = 0 => pos'[c] = -1 /\ ~isConnect'[c]
    BY <1>1, <1>2, <1>5, <1>7, WorldSizes DEF ViewType, Left
  <2> QED
    BY <1>1, <1>2, <1>6, <1>7, <1>11, <2>1 DEF ViewType
<1>15. ListMet(w)'
  <2>1. \A a \in Views(w)!Objects : \A b \in viewlist'[a] :
          b \in Views(w)!Objects /\ b \in viewlist[a]
    BY <1>1, <1>2 DEF ViewType
  <2> QED
    BY <1>2, <1>8, <2>1, StillMet
<1> QED
  BY <1>8, <1>11, <1>12, <1>13, <1>14, <1>15, StepOf

LEMMA PlaceStep ==
    ASSUME NEW w \in Worlds, ViewInv(w), NEW t \in Views(w)!Tasks, Views(w)!Place(t)
    PROVE  ViewInv(w)'
<1>1. Prog(w, t)
  BY DEF ViewInv, Progs
<1> QED
  BY <1>1, PlaceLogin, PlaceLeft DEF Prog

(* Nobody's program changes.                                               *)
LEMMA OutsideStep ==
    ASSUME NEW w \in Worlds, ViewInv(w), Kept(w, -1), task' = task,
           isConnect' \in [Views(w)!Clients -> BOOLEAN],
           lives' \in [Views(w)!Clients -> {0, 1}],
           orderly' \in [Views(w)!Clients -> BOOLEAN],
           pos' \in [Views(w)!Objects -> Int],
           viewlist' \in [Views(w)!Objects -> SUBSET Views(w)!Objects],
           \A c \in Views(w)!Clients : lives'[c] = 0 => pos'[c] = -1 /\ ~isConnect'[c],
           \A a \in Views(w)!Objects : viewlist'[a] \subseteq viewlist[a],
           \A p, q \in Views(w)!Objects : InSight(w, p, q)' =>
             InSight(w, p, q) /\ viewlist'[p] = viewlist[p]
    PROVE  ViewInv(w)'
<1>1. ViewType(w) /\ ListMet(w) /\ AllOwed(w)
  BY DEF ViewInv
<1>2. /\ Views(w)!Clients' = Views(w)!Clients /\ Views(w)!Npcs' = Views(w)!Npcs
      /\ Views(w)!Objects' = Views(w)!Objects /\ Views(w)!Tasks' = Views(w)!Tasks
      /\ Tasklets(w)' = Tasklets(w)
  BY DEF Views!Tasks, Views!Objects, Views!Clients, Views!Npcs, Tasklets, ViewInstr
<1>3. ViewType(w)'
  BY <1>1, <1>2 DEF ViewType
<1>4. ListMet(w)'
  <2>1. \A a \in Views(w)!Objects : \A b \in viewlist'[a] :
          b \in Views(w)!Objects /\ b \in viewlist[a]
    OBVIOUS
  <2> QED
    BY <1>1, <2>1, StillMet
<1>5. AllOwed(w)'
  <2>1. SUFFICES ASSUME NEW p \in Views(w)!Objects, NEW q \in Views(w)!Objects,
                        InSight(w, p, q)'
                 PROVE  Owes(w, p, q)'
    BY <1>2 DEF AllOwed
  <2>2. Owes(w, p, q) /\ viewlist'[p] = viewlist[p]
    BY <1>1, <2>1 DEF AllOwed
  <2> QED
    BY <1>2, <2>2 DEF Owes, Items, Owing
<1>6. -1 \notin Views(w)!Tasks
  BY WorldSizes
<1> QED
  BY <1>3, <1>4, <1>5, <1>6, StepOf

LEMMA AcceptStep ==
    ASSUME NEW w \in Worlds, ViewInv(w), NEW c \in Views(w)!Clients, Views(w)!Accept(c)
    PROVE  ViewInv(w)'
<1>1. /\ ~isConnect[c] /\ lives[c] < 1 /\ task' = task
      /\ isConnect' = [isConnect EXCEPT ![c] = TRUE]
      /\ lives' = [lives EXCEPT ![c] = lives[c] + 1]
      /\ viewlist' = [viewlist EXCEPT ![c] = {}]
      /\ pos' = [pos EXCEPT ![c] = -1]
      /\ orderly' = [orderly EXCEPT ![c] = TRUE]
  BY DEF Views!Accept
<1>2. /\ isConnect \in [Views(w)!Clients -> BOOLEAN]
      /\ lives \in [Views(w)!Clients -> {0, 1}]
      /\ orderly \in [Views(w)!Clients -> BOOLEAN]
      /\ pos \in [Views(w)!Objects -> Int]
      /\ viewlist \in [Views(w)!Objects -> SUBSET Views(w)!Objects]
      /\ \A x \in Views(w)!Clients : lives[x] = 0 => pos[x] = -1 /\ ~isConnect[x]
      /\ Views(w)!Npcs \subseteq Views(w)!Objects
      /\ Views(w)!Clients \subseteq Views(w)!Objects
      /\ Views(w)!Objects = Views(w)!Clients \cup Views(w)!Npcs
  BY WorldSizes DEF ViewInv, ViewType
<1>3. lives[c] = 0 /\ pos[c] = -1 /\ lives'[c] = 1
  <2>1. lives[c] \in {0, 1}
    BY <1>2
  <2> QED
    BY <1>1, <1>2, <2>1
<1>4. /\ pos' = pos
      /\ \A x \in Views(w)!Clients \ {c} :
           /\ isConnect'[x] = isConnect[x] /\ lives'[x] = lives[x]
           /\ orderly'[x] = orderly[x]
      /\ isConnect' \in [Views(w)!Clients -> BOOLEAN]
      /\ orderly' \in [Views(w)!Clients -> BOOLEAN]
  BY <1>1, <1>2, <1>3
<1>5. lives' \in [Views(w)!Clients -> {0, 1}]
  BY <1>1, <1>2, <1>3
<1>6. /\ viewlist' \in [Views(w)!Objects -> SUBSET Views(w)!Objects]
      /\ \A a \in Views(w)!Objects : viewlist'[a] \subseteq viewlist[a]
      /\ \A a \in Views(w)!Objects \ {c} : viewlist'[a] = viewlist[a]
  BY <1>1, <1>2
<1>7. Views(w)!Clients' = Views(w)!Clients /\ Views(w)!Npcs' = Views(w)!Npcs
  BY DEF Views!Clients, Views!Npcs
<1>8. Kept(w, -1)
  <2>1. ASSUME NEW x \in Views(w)!Clients
        PROVE  /\ lives[x] = 1 => lives'[x] = 1
               /\ Left(w, x) => Left(w, x)'
               /\ isConnect[x] => isConnect'[x]
    BY <1>1, <1>3, <1>4, <1>7 DEF Left
  <2> QED
    BY <1>4, <2>1 DEF Kept
<1>9. ASSUME NEW p \in Views(w)!Objects, NEW q \in Views(w)!Objects, InSight(w, p, q)'
      PROVE  InSight(w, p, q) /\ viewlist'[p] = viewlist[p]
  <2>1. \A x : x \in Views(w)!InGame' <=>
                 x \in Views(w)!Clients /\ isConnect'[x] /\ pos[x] # -1 /\ orderly'[x]
    BY <1>4, <1>7 DEF Views!InGame
  <2>2. Views(w)!InGame' \subseteq Views(w)!InGame /\ c \notin Views(w)!InGame'
    BY <1>3, <1>4, <2>1 DEF Views!InGame
  <2>3. Views(w)!isNear(p, q)' <=> Views(w)!isNear(p, q)
    BY <1>4 DEF Views!isNear
  <2> QED
    BY <1>6, <1>7, <1>9, <2>2, <2>3 DEF InSight
<1>10. \A x \in Views(w)!Clients : lives'[x] = 0 => pos'[x] = -1 /\ ~isConnect'[x]
  BY <1>2, <1>3, <1>4
<1>11. pos' \in [Views(w)!Objects -> Int]
  BY <1>2, <1>4
<1> QED
  BY <1>1, <1>4, <1>5, <1>6, <1>8, <1>9, <1>10, <1>11, OutsideStep

LEMMA LogoutStep ==
    ASSUME NEW w \in Worlds, ViewInv(w), NEW c \in Views(w)!Clients, Views(w)!Logout(c)
    PROVE  ViewInv(w)'
<1>1. /\ lives[c] > 0 /\ task' = task /\ viewlist' = viewlist /\ lives' = lives
      /\ isConnect' = [isConnect EXCEPT ![c] = FALSE]
      /\ pos' = [pos EXCEPT ![c] = -1]
      /\ orderly' = orderly
  BY DEF Views!Logout
<1>2. /\ orderly \in [Views(w)!Clients -> BOOLEAN]
      /\ isConnect \in [Views(w)!Clients -> BOOLEAN]
      /\ lives \in [Views(w)!Clients -> {0, 1}]
      /\ pos \in [Views(w)!Objects -> Int]
      /\ viewlist \in [Views(w)!Objects -> SUBSET Views(w)!Objects]
      /\ \A x \in Views(w)!Clients : lives[x] = 0 => pos[x] = -1 /\ ~isConnect[x]
      /\ Views(w)!Clients \subseteq Views(w)!Objects
      /\ Views(w)!Npcs \subseteq Views(w)!Objects
      /\ Views(w)!Clients \cap Views(w)!Npcs = {}
      /\ Views(w)!Objects = Views(w)!Clients \cup Views(w)!Npcs
  BY WorldSizes DEF ViewInv, ViewType
<1>3. lives[c] = 1
  <2>1. lives[c] \in {0, 1}
    BY <1>2
  <2> QED
    BY <1>1, <2>1
<1>4. /\ pos' \in [Views(w)!Objects -> Int] /\ pos'[c] = -1 /\ ~isConnect'[c]
      /\ isConnect' \in [Views(w)!Clients -> BOOLEAN]
      /\ \A x \in Views(w)!Clients \ {c} : isConnect'[x] = isConnect[x]
      /\ \A x \in Views(w)!Objects \ {c} : pos'[x] = pos[x]
  BY <1>1, <1>2
<1>5. Views(w)!Clients' = Views(w)!Clients /\ Views(w)!Npcs' = Views(w)!Npcs
  BY DEF Views!Clients, Views!Npcs
<1>6. Kept(w, -1)
  <2>1. ASSUME NEW x \in Views(w)!Clients
        PROVE  /\ Left(w, x) => Left(w, x)'
               /\ pos'[x] = pos[x] \/ Left(w, x)'
               /\ isConnect[x] /\ pos[x] = -1 =>
                    (isConnect'[x] /\ pos'[x] = -1) \/ Left(w, x)'
    <3>1. CASE x = c
      BY <1>1, <1>3, <1>4, <1>5, <3>1 DEF Left
    <3>2. CASE x # c
      BY <1>1, <1>2, <1>4, <1>5, <3>2 DEF Left
    <3> QED
      BY <3>1, <3>2
  <2>2. \A n \in Views(w)!Npcs : pos'[n] = pos[n]
    BY <1>2, <1>4
  <2> QED
    BY <1>1, <2>1, <2>2 DEF Kept
<1>7. ASSUME NEW p \in Views(w)!Objects, NEW q \in Views(w)!Objects, InSight(w, p, q)'
      PROVE  InSight(w, p, q) /\ viewlist'[p] = viewlist[p]
  <2>1. \A x : x \in Views(w)!InGame' <=>
                 x \in Views(w)!Clients /\ isConnect'[x] /\ pos'[x] # -1 /\ orderly[x]
    BY <1>1, <1>5 DEF Views!InGame
  <2>2. Views(w)!InGame' \subseteq Views(w)!InGame /\ c \notin Views(w)!InGame'
    BY <1>2, <1>4, <2>1 DEF Views!InGame
  <2>3. p # c /\ q # c
    BY <1>2, <1>5, <1>7, <2>2 DEF InSight
  <2>4. Views(w)!isNear(p, q)' <=> Views(w)!isNear(p, q)
    BY <1>4, <2>3 DEF Views!isNear
  <2> QED
    BY <1>1, <1>5, <1>7, <2>2, <2>4 DEF InSight
<1>8. \A x \in Views(w)!Clients : lives'[x] = 0 => pos'[x] = -1 /\ ~isConnect'[x]
  BY <1>1, <1>2, <1>3, <1>4
<1> QED
  BY <1>1, <1>2, <1>4, <1>6, <1>7, <1>8, OutsideStep

-----------------------------------------------------------------------------
LEMMA ViewsBegin == ASSUME NEW w \in Worlds, Views(w)!Init PROVE ViewInv(w)
<1>1. /\ isConnect = [c \in Views(w)!Clients |-> FALSE]
      /\ pos \in [Views(w)!Objects -> -1..(w.width - 1)]
      /\ \A o \in Views(w)!Objects : pos[o] = -1 <=> o \in Views(w)!Clients
      /\ viewlist = [o \in Views(w)!Objects |-> {}]
      /\ lives = [c \in Views(w)!Clients |-> 0]
      /\ orderly = [c \in Views(w)!Clients |-> TRUE]
      /\ task = [t \in Views(w)!Tasks |-> Views(w)!Idle]
  BY DEF Views!Init
<1>2. /\ w.width \in Nat /\ Views(w)!Clients \subseteq Views(w)!Objects
  BY WorldSizes
<1>3. ViewType(w)
  <2>1. Views(w)!Idle \in Tasklets(w)
    BY DEF Views!Idle, Tasklets
  <2>2. pos \in [Views(w)!Objects -> Int]
    BY <1>1, <1>2
  <2> QED
    BY <1>1, <1>2, <2>1, <2>2 DEF ViewType
<1>4. ListMet(w) /\ AllOwed(w)
  BY <1>1 DEF ListMet, AllOwed, InSight, Views!InGame
<1>5. Progs(w)
  <2>1. SUFFICES ASSUME NEW t \in Views(w)!Tasks PROVE Prog(w, t)
    BY DEF Progs
  <2>2. task[t].todo = <<>>
    BY <1>1 DEF Views!Idle
  <2>3. Items(<<>>) = {} /\ Ordered(<<>>)
    BY DEF Items, Ordered
  <2> QED
    BY <2>2, <2>3 DEF Prog, WalkInv
<1> QED
  BY <1>3, <1>4, <1>5 DEF ViewInv

LEMMA ViewsGoOn == ASSUME NEW w \in Worlds, ViewInv(w), Views(w)!Next PROVE ViewInv(w)'
<1>1. ASSUME NEW c \in Views(w)!Clients,
             \/ Views(w)!Accept(c) \/ Views(w)!Login(c) \/ Views(w)!DummyLogin(c)
             \/ Views(w)!Move(c) \/ Views(w)!Logout(c)
      PROVE  ViewInv(w)'
  BY <1>1, AcceptStep, LoginStep, DummyLoginStep, PlayerMoveStep, LogoutStep
<1>2. ASSUME NEW n \in Views(w)!Npcs, Views(w)!NpcTurn(n) PROVE ViewInv(w)'
  BY <1>2, NpcTurnStep
<1>3. ASSUME NEW t \in Views(w)!Tasks, Views(w)!Step(t) PROVE ViewInv(w)'
  <2>1. CASE Views(w)!Place(t) \/ Views(w)!Greet(t) \/ Views(w)!GreetNpc(t) \/ Views(w)!Wake(t)
    BY <2>1, PlaceStep, GreetStep, GreetNpcStep, WakeStep
  <2>2. CASE \/ Views(w)!Copy(t) \/ Views(w)!Look(t) \/ Views(w)!LookBefore(t)
             \/ Views(w)!Sort(t) \/ Views(w)!Restart(t) \/ Views(w)!Rest(t) \/ Views(w)!ListAll(t)
    BY <2>2, CopyStep, LookStep, LookBeforeStep, SortStep, RestartStep, RestStep, ListAllStep
  <2>3. CASE \/ Views(w)!Insert(t) \/ Views(w)!Erase(t) \/ Views(w)!List(t)
             \/ Views(w)!Meet(t) \/ Views(w)!Part(t) \/ Views(w)!Send(t)
    BY <2>3, InsertStep, EraseStep, ListStep, MeetStep, PartStep, SendStep
  <2> QED
    BY <1>3, <2>1, <2>2, <2>3 DEF Views!Step
<1> QED
  BY <1>1, <1>2, <1>3 DEF Views!Next

LEMMA NobodyMissedAtRest ==
    ASSUME NEW w \in Worlds, ViewInv(w) PROVE Views(w)!NobodyMissed
<1>1. SUFFICES ASSUME Views(w)!AtRest, NEW p \in Views(w)!InGame,
                      NEW q \in (Views(w)!InGame \cup Views(w)!Npcs) \ {p},
                      Views(w)!isNear(p, q)
               PROVE  q \in viewlist[p]
  BY DEF Views!NobodyMissed
<1>2. p \in Views(w)!Objects /\ q \in Views(w)!Objects
  BY <1>1, WorldSizes DEF Views!InGame
<1>3. Owes(w, p, q)
  BY <1>1, <1>2 DEF ViewInv, AllOwed, InSight
<1>4. \A t \in Views(w)!Tasks : Items(task[t].todo) = {}
  BY <1>1 DEF Views!AtRest, Views!Idle, Items
<1> QED
  BY <1>3, <1>4 DEF Owes

(* A step that changes nothing.                                          *)
LEMMA ViewsStand == ASSUME NEW w \in Worlds, ViewInv(w), UNCHANGED vars PROVE ViewInv(w)'
<1>1. Still /\ viewlist' = viewlist /\ task' = task
  BY DEF vars, onlyViews, Still
<1>2. Kept(w, -1) /\ \A p, q : InSight(w, p, q)' <=> InSight(w, p, q)
  BY <1>1, StillKept
<1> QED
  BY <1>1, <1>2, OutsideStep DEF Still, ViewInv, ViewType

(***************************************************************************)
(* FinalViews, the types: beside those of ViewInv, positions in the world  *)
(* and messages about objects.                                             *)
(***************************************************************************)
ViewTypes(w) ==
    /\ ViewInv(w)
    /\ pos \in [Views(w)!Objects -> -1..(w.width - 1)]
    /\ shown \in [Views(w)!Clients -> SUBSET Views(w)!Objects]
    /\ isActive \in [Views(w)!Npcs -> BOOLEAN]
    /\ requests \in 0..w.requests

LEMMA ViewTypesInit == ASSUME NEW w \in Worlds, Views(w)!Init PROVE ViewTypes(w)
  BY ViewsBegin, WorldSizes DEF ViewTypes, Views!Init

(* An instruction is about two objects.                                    *)
LEMMA HeadOfProgram ==
    ASSUME NEW w \in Worlds, ViewInv(w), NEW t \in Views(w)!Tasks, NEW op, Views(w)!At(t, op)
    PROVE  Views(w)!First(t) \in Views(w)!Objects /\ Views(w)!Second(t) \in Views(w)!Objects
<1>1. task[t].todo \in Seq(ViewInstr(w)) /\ task[t].todo # <<>>
  BY DEF ViewInv, ViewType, Tasklets, Views!At
<1>2. Head(task[t].todo) \in ViewInstr(w)
  BY <1>1
<1> QED
  BY <1>2 DEF ViewInstr, Views!First, Views!Second

LEMMA ViewTypesStep == ASSUME NEW w \in Worlds, ViewTypes(w), Views(w)!Next PROVE ViewTypes(w)'
<1>1. ViewInv(w)'
  BY ViewsGoOn DEF ViewTypes
<1>2. /\ Views(w)!Objects' = Views(w)!Objects /\ Views(w)!Clients' = Views(w)!Clients
      /\ Views(w)!Npcs' = Views(w)!Npcs
  BY DEF Views!Objects, Views!Clients, Views!Npcs
<1>3. w.width \in Nat \ {0} /\ -1 \in -1..(w.width - 1)
  BY WorldSizes
<1> USE DEF ViewTypes
<1> DEFINE Same == UNCHANGED <<pos, shown, isActive>> /\ requests' \in 0..w.requests
<1>0. Same => ViewTypes(w)'
  BY <1>1, <1>2
<1>4. ASSUME NEW c \in Views(w)!Clients,
             \/ Views(w)!Accept(c) \/ Views(w)!Login(c) \/ Views(w)!DummyLogin(c)
             \/ Views(w)!Move(c) \/ Views(w)!Logout(c)
      PROVE  ViewTypes(w)'
  <2>1. Views(w)!Request => requests' \in 0..w.requests
    BY WorldSizes DEF Views!Request
  <2>2. CASE Views(w)!Accept(c)
    BY <1>1, <1>2, <1>3, <2>2 DEF Views!Accept
  <2>3. CASE Views(w)!Login(c)
    BY <1>0, <2>1, <2>3 DEF Views!Login
  <2>4. CASE Views(w)!DummyLogin(c)
    BY <1>0, <2>1, <2>4 DEF Views!DummyLogin
  <2>5. CASE Views(w)!Move(c)
    BY <1>0, <2>1, <2>5 DEF Views!Move
  <2>6. CASE Views(w)!Logout(c)
    BY <1>1, <1>2, <1>3, <2>1, <2>6 DEF Views!Logout
  <2> QED
    BY <1>4, <2>2, <2>3, <2>4, <2>5, <2>6
<1>5. ASSUME NEW n \in Views(w)!Npcs, Views(w)!NpcTurn(n) PROVE ViewTypes(w)'
  BY <1>0, <1>5 DEF Views!NpcTurn
<1>6. ASSUME NEW t \in Views(w)!Tasks, Views(w)!Place(t) PROVE ViewTypes(w)'
  <2>1. PICK x \in 0..(w.width - 1) : pos' = [pos EXCEPT ![Views(w)!First(t)] = x]
    BY <1>6 DEF Views!Place
  <2>2. x \in -1..(w.width - 1)
    BY <1>3
  <2>3. UNCHANGED <<shown, isActive, requests>>
    BY <1>6 DEF Views!Place
  <2> QED
    BY <1>1, <1>2, <2>1, <2>2, <2>3
<1>7. ASSUME NEW t \in Views(w)!Tasks, Views(w)!Wake(t) \/ Views(w)!Look(t) PROVE ViewTypes(w)'
  BY <1>1, <1>2, <1>7 DEF Views!Wake, Views!Look
<1>8. ASSUME NEW t \in Views(w)!Tasks, Views(w)!Send(t) PROVE ViewTypes(w)'
  <2>1. Views(w)!Second(t) \in Views(w)!Objects
    BY <1>8, HeadOfProgram DEF Views!Send
  <2> QED
    BY <1>1, <1>2, <1>8, <2>1 DEF Views!Send
<1>9. ASSUME NEW t \in Views(w)!Tasks,
             \/ Views(w)!Greet(t) \/ Views(w)!GreetNpc(t) \/ Views(w)!Copy(t)
             \/ Views(w)!LookBefore(t) \/ Views(w)!Sort(t) \/ Views(w)!Restart(t)
             \/ Views(w)!Rest(t) \/ Views(w)!ListAll(t) \/ Views(w)!Insert(t)
             \/ Views(w)!Erase(t) \/ Views(w)!List(t) \/ Views(w)!Meet(t) \/ Views(w)!Part(t)
      PROVE  ViewTypes(w)'
  <2>1. UNCHANGED <<pos, shown, isActive, requests>>
    BY <1>9 DEF Views!Greet, Views!GreetNpc, Views!Copy, Views!LookBefore, Views!Sort,
           Views!Restart, Views!Rest, Views!ListAll, Views!Insert, Views!Erase, Views!List,
           Views!Meet, Views!Part
  <2> QED
    BY <1>0, <2>1
<1> QED
  BY <1>4, <1>5, <1>6, <1>7, <1>8, <1>9 DEF Views!Next, Views!Step

LEMMA ViewTypesOK == ASSUME NEW w \in Worlds, ViewTypes(w) PROVE Views(w)!TypeOK
<1>1. \A t \in Views(w)!Tasks :
        task[t].old \cup task[t].new \cup task[t].before \subseteq Views(w)!Objects
  BY DEF ViewTypes, ViewInv, ViewType, Tasklets
<1>2. {0, 1} = 0..1
  OBVIOUS
<1> QED
  BY <1>1, <1>2 DEF ViewTypes, ViewInv, ViewType, Views!TypeOK

-----------------------------------------------------------------------------
(***************************************************************************)
(* The parts side by side, as they run in FinalServer: a behaviour of it   *)
(* is one of the part it has picked.                                       *)
(***************************************************************************)

(* FinalServer with a table and any workers that call: a login that no     *)
(* other call overlaps loads the row of its name, of the level the lower   *)
(* half, and such a logout is saved, be it with level and hp changed over. *)
THEOREM CallsReachInServer == Spec => []CallsReachTheirRow
<1> DEFINE Inv == part = "rows" => RowsInv
<1>1. Init => Inv
  BY FinalServerAssumption, RowsBegin DEF Init
<1>2. Inv /\ [Next]_vars => Inv'
  BY FinalServerAssumption, RowsStep DEF Next, vars, onlyRows, Table!vars
<1>3. Inv => CallsReachTheirRow
  BY RowsReach DEF CallsReachTheirRow
<1> QED
  BY <1>1, <1>2, <1>3, PTL DEF Spec

(* FinalServer with a map: marks lie where an object was or one step from  *)
(* there, and a wall is lost only where an object was put on it.           *)
THEOREM MarksStayNearInServer == Spec => []MarksAndWalls
<1> DEFINE Inv == part = "map" => MoveInv
<1>1. Init => Inv
  BY FinalServerAssumption, MoveInit DEF Init
<1>2. Inv /\ [Next]_vars => Inv'
  BY FinalServerAssumption, MoveStep DEF Next, vars, onlyMap, Map!vars
<1>3. Inv => MarksAndWalls
  BY DEF MoveInv, MarksAndWalls
<1> QED
  BY <1>1, <1>2, <1>3, PTL DEF Spec

(* FinalServer with a fight: a reward that no login disturbs between the   *)
(* comparison and the end of the level up leaves an avatar with less       *)
(* experience than its level asks for, until a login sets either.          *)
THEOREM ExpStaysBelowInServer == ASSUME PowersOfTwo PROVE Spec => []ExpBelowNext
<1> DEFINE Inv == part = "combat" => FightInv
<1>1. Init => Inv
  BY FinalServerAssumption, FightBegin DEF Init
<1>2. Inv /\ [Next]_vars => Inv'
  BY FinalServerAssumption, FightGoesOn DEF Next, vars, onlyCombat, Fight!vars
<1>3. Inv => ExpBelowNext
  BY DEF FightInv, ExpBelowNext
<1> QED
  BY <1>1, <1>2, <1>3, PTL DEF Spec

(* World::AStar puts cells into its queue that are there already, and that *)
(* it has visited; each step of it leaves less to do all the same, on maps *)
(* of every size and with every set of cells that are eBLOCKED.            *)
THEOREM SearchEnds == Spec => SearchShrinks
<1> DEFINE Searching == part = "search" => SearchInv
<1>1. Init => Searching
  BY FinalServerAssumption, SearchBegins DEF Init
<1>2. Searching /\ [Next]_vars => Searching' /\ (part = "search" => Way!SearchShrinks \/ UNCHANGED vars)
  <2> SUFFICES ASSUME Searching, [Next]_vars
               PROVE  Searching' /\ (part = "search" => Way!SearchShrinks \/ UNCHANGED vars)
    OBVIOUS
  <2>1. CASE Next
    <3>1. part' = part /\ (part = "search" => Way!Next)
      BY <2>1 DEF Next
    <3> QED
      BY <3>1, FinalServerAssumption, SearchStep
  <2>2. CASE UNCHANGED vars
    BY <2>2 DEF vars, onlySearch, SearchInv, Way!Visited
  <2> QED
    BY <2>1, <2>2
<1>3. Searching /\ [Next]_vars => [part = "search" => Way!SearchShrinks]_vars
  BY <1>2
<1> QED
  BY <1>1, <1>2, <1>3, PTL DEF Spec, SearchShrinks

(* World::AStar on maps of every size, with every set of cells that are    *)
(* eBLOCKED and any two cells to go between: whatever the queue does among *)
(* equal weights, each cell is visited by a shortest way, so that none     *)
(* needs to be visited again, and the result is a shortest way from the    *)
(* target back, empty just where there is no way. (Weights are compared    *)
(* exactly here.)                                                          *)
THEOREM WayIsShortestInServer == Spec => []PathIsShortest
<1> DEFINE Inv == part = "search" => WayInv
<1>1. Init => Inv
  BY FinalServerAssumption, WayInit DEF Init
<1>2. Inv /\ [Next]_vars => Inv'
  <2> SUFFICES ASSUME Inv, [Next]_vars PROVE Inv'
    OBVIOUS
  <2>1. CASE Next
    <3>1. part' = part /\ (part = "search" => Way!Next)
      BY <2>1 DEF Next
    <3> QED
      BY <3>1, FinalServerAssumption, WayStep
  <2>2. CASE UNCHANGED vars
    <3>1. UNCHANGED <<data, pos, target, openQ, closeQ, resultPath, moved, pc>> /\ part' = part
      BY <2>2 DEF vars, onlySearch
    <3>2. WayInv => WayInv'
      <4>1. /\ Way!Visited' = Way!Visited
            /\ \A c : Way!Next4(c)' = Way!Next4(c)
            /\ \A k : Way!Within(k)' = Way!Within(k)
        BY <3>1, WithinStays DEF Way!Visited
      <4>2. SearchTypes => SearchTypes'
        BY <3>1, <4>1 DEF SearchTypes, SearchInv, WayBack
      <4>3. Exact => Exact'
        BY <3>1, <4>1 DEF Exact, IsDistance, ComesFrom
      <4>4. (Queued => Queued') /\ (Frontier => Frontier')
        BY <3>1, <4>1 DEF Queued, ComesFrom, Frontier
      <4>5. Back => Back'
        BY <3>1, <4>1 DEF Back
      <4> QED
        BY <3>1, <4>2, <4>3, <4>4, <4>5 DEF WayInv
    <3> QED
      BY <3>1, <3>2
  <2> QED
    BY <2>1, <2>2
<1>3. Inv => PathIsShortest
  <2> SUFFICES ASSUME Inv, part = "search" PROVE Way!DistancesAreExact /\ Way!PathIsShortest
    BY DEF PathIsShortest
  <2>1. Way!AStarAssumption
    BY FinalServerAssumption
  <2> QED
    BY <2>1, VisitedExactly, WayIsShortest DEF Way!DistancesAreExact
<1> QED
  BY <1>1, <1>2, <1>3, PTL DEF Spec

ViewsInv == part = "views" => \A w \in Worlds : world = w => ViewInv(w)

(* Logins, moves and NPCs' turns at the same time, without a lock on any   *)
(* list: in the end everybody near a player, and every NPC, is in its list *)
(* - of players who have logged in once and before they moved, whatever    *)
(* repeated logins, dummy logins, early moves and logouts there are of     *)
(* others beside them.                                                     *)
THEOREM NobodyIsMissed == Spec => []NobodyMissed
<1>1. Init => ViewsInv
  <2>1. ASSUME Init, part = "views", NEW w \in Worlds, world = w PROVE Views(w)!Init
    BY <2>1 DEF Init
  <2> QED
    BY <2>1, ViewsBegin DEF ViewsInv
<1>2. ViewsInv /\ [Next]_vars => ViewsInv'
  <2>1. SUFFICES ASSUME ViewsInv, [Next]_vars, part' = "views",
                        NEW w \in Worlds, world' = w
                 PROVE  ViewInv(w)'
    BY DEF ViewsInv
  <2>2. part' = part /\ world' = world
    BY <2>1 DEF Next, vars
  <2>3. ViewInv(w)
    BY <2>1, <2>2 DEF ViewsInv
  <2>4. CASE Next
    <3>1. Views(w)!Next
      BY <2>1, <2>2, <2>4 DEF Next
    <3> QED
      BY <2>3, <3>1, ViewsGoOn
  <2>5. CASE UNCHANGED vars
    BY <2>3, <2>5, ViewsStand
  <2> QED
    BY <2>1, <2>4, <2>5
<1>3. ViewsInv => NobodyMissed
  BY NobodyMissedAtRest DEF ViewsInv, NobodyMissed
<1> QED
  BY <1>1, <1>2, <1>3, PTL DEF Spec

(***************************************************************************)
(* The types of all parts.                                                 *)
(***************************************************************************)
TypesInv ==
    /\ part \in {"views", "map", "search", "rows", "combat"}
    /\ part = "views" => \A w \in Worlds : world = w => ViewTypes(w)
    /\ part = "map" => Map!TypeOK
    /\ part = "search" => SearchTypes
    /\ part = "rows" => RowTypes
    /\ part = "combat" => FightTypes

LEMMA TypesBegin == Init => TypesInv
<1> SUFFICES ASSUME Init PROVE TypesInv
  OBVIOUS
<1>1. CASE part = "views"
  BY <1>1, ViewTypesInit DEF Init, TypesInv
<1>2. CASE part = "map"
  BY <1>2, FinalServerAssumption, MapTypesInit DEF Init, TypesInv
<1>3. CASE part = "search"
  BY <1>3, FinalServerAssumption, SearchTypesInit DEF Init, TypesInv
<1>4. CASE part = "rows"
  BY <1>4, FinalServerAssumption, RowTypesInit DEF Init, TypesInv
<1>5. CASE part = "combat"
  BY <1>5, FinalServerAssumption, FightTypesInit DEF Init, TypesInv
<1> QED
  BY <1>1, <1>2, <1>3, <1>4, <1>5 DEF Init

LEMMA TypesGoOn == TypesInv /\ Next => TypesInv'
<1> SUFFICES ASSUME TypesInv, Next PROVE TypesInv'
  OBVIOUS
<1>0. part' = part /\ world' = world
  BY DEF Next
<1>1. CASE part = "views"
  <2>1. ASSUME NEW w \in Worlds, world = w PROVE ViewTypes(w)'
    <3>1. Views(w)!Next
      BY <1>1, <2>1 DEF Next
    <3> QED
      BY <1>1, <2>1, <3>1, ViewTypesStep DEF TypesInv
  <2> QED
    BY <1>0, <1>1, <2>1 DEF TypesInv
<1>2. CASE part = "map"
  BY <1>0, <1>2, FinalServerAssumption, MapTypesStep DEF Next, TypesInv
<1>3. CASE part = "search"
  BY <1>0, <1>3, FinalServerAssumption, SearchTypesStep DEF Next, TypesInv
<1>4. CASE part = "rows"
  BY <1>0, <1>4, FinalServerAssumption, RowTypesStep DEF Next, TypesInv
<1>5. CASE part = "combat"
  BY <1>0, <1>5, FinalServerAssumption, FightTypesStep DEF Next, TypesInv
<1> QED
  BY <1>1, <1>2, <1>3, <1>4, <1>5 DEF TypesInv

LEMMA TypesRest == TypesInv => TypeOK
<1> SUFFICES ASSUME TypesInv PROVE TypeOK
  OBVIOUS
<1>1. CASE part = "views"
  BY <1>1, ViewTypesOK DEF TypesInv, TypeOK
<1>2. CASE part = "map"
  BY <1>2 DEF TypesInv, TypeOK
<1>3. CASE part = "search"
  BY <1>3, FinalServerAssumption, SearchTypesOK DEF TypesInv, TypeOK
<1>4. CASE part = "rows"
  BY <1>4, FinalServerAssumption, RowTypesOK DEF TypesInv, TypeOK
<1>5. CASE part = "combat"
  BY <1>5 DEF TypesInv, TypeOK, FightTypes
<1> QED
  BY <1>1, <1>2, <1>3, <1>4, <1>5 DEF TypesInv

LEMMA TypesStand == TypesInv /\ UNCHANGED vars => TypesInv'
<1> SUFFICES ASSUME TypesInv, UNCHANGED vars PROVE TypesInv'
  OBVIOUS
<1> USE DEF vars, onlyViews, onlyMap, onlySearch, onlyRows, onlyCombat
<1>1. part' = part /\ world' = world
  OBVIOUS
<1>2. ASSUME NEW w \in Worlds, ViewTypes(w) PROVE ViewTypes(w)'
  <2>1. ViewInv(w)'
    BY <1>2, ViewsStand DEF ViewTypes
  <2>2. /\ Views(w)!Objects' = Views(w)!Objects /\ Views(w)!Clients' = Views(w)!Clients
        /\ Views(w)!Npcs' = Views(w)!Npcs
    BY DEF Views!Objects, Views!Clients, Views!Npcs
  <2> QED
    BY <1>2, <2>1, <2>2 DEF ViewTypes
<1>3. Map!TypeOK => Map!TypeOK'
  BY DEF Map!TypeOK
<1>4. SearchTypes => SearchTypes'
  BY DEF SearchTypes, SearchInv, WayBack, Way!Visited
<1>5. RowTypes => RowTypes'
  BY RowTypesStand DEF Table!vars
<1>6. FightTypes => FightTypes'
  BY FightStand DEF Fight!vars
<1> HIDE DEF vars, onlyViews, onlyMap, onlySearch, onlyRows, onlyCombat
<1> QED
  BY <1>1, <1>2, <1>3, <1>4, <1>5, <1>6 DEF TypesInv

(* Whichever part is picked, its variables have their types: above all, a  *)
(* row of the table keeps to shorts, every handle is one of those          *)
(* allocated, no object's list has what is not an object, and the path of  *)
(* a search stays on the map.                                              *)
THEOREM PartsAreTyped == Spec => []TypeOK
<1>1. TypesInv /\ [Next]_vars => TypesInv'
  BY TypesGoOn, TypesStand
<1> QED
  BY <1>1, TypesBegin, TypesRest, PTL DEF Spec
=============================================================================
