------------------------------- MODULE DataBase --------------------------------
(***************************************************************************)
(* The rows of the avatars and the calls that load and save them: FindID   *)
(* from CS_LOGIN, UpdateDB from CS_LOGOUT, on as many workers as there are *)
(* calls. hstmt and retcode are members of the one DataBase.               *)
(*                                                                         *)
(*   row       the table: a name's level and hp                            *)
(*   hstmt     the statement handle last allocated                         *)
(*   retcode   what the last ODBC call on any worker returned              *)
(*   stmt      per handle its state st: "none"; "fresh"; "done", an        *)
(*             update; "open", a query with its row not yet fetched;       *)
(*             "over", a query with none left; and the row it is about     *)
(*   bound     per handle and column the worker whose variable it fills    *)
(*   call, pc  per worker the call it runs (Idle) and its next step        *)
(*   name      per worker whose avatar it is about                         *)
(*   locals    per worker the variables of CS_LOGIN (pos: whether x and y  *)
(*             are filled in), or the arguments of UpdateDB                *)
(*   calls     how many calls have begun (the bound)                       *)
(*   alone     history: no two calls have overlapped since the one under   *)
(*             way began                                                   *)
(*                                                                         *)
(* The ODBC driver is external: a handle serves one call at a time, a      *)
(* freed handle is invalid and does not come back, a statement with a      *)
(* cursor still open refuses to execute. Of the six columns level and hp   *)
(* are kept, and one for x and y; the name and exp go with them. What a    *)
(* player's level and hp are at a logout is Combat's: here, any int.       *)
(***************************************************************************)
EXTENDS Integers

CONSTANTS
    Workers, Names,
    Rows,               \* the rows the table may begin with
    Ints,               \* what an int may hold that nobody initialised, and
                        \* what GetLevel() and GetHp() of a player may return
    MaxCalls            \* bound: the calls made

SHRT_MIN == -32768
SHRT_MAX == 32767
Shorts == SHRT_MIN..SHRT_MAX
Half == 65536                               \* the values of half an int
Low(v) == v % Half
Short(v) == IF Low(v) <= SHRT_MAX THEN Low(v) ELSE Low(v) - Half  \* int to short
Into(v, s) == v - Low(v) + Low(s)           \* a short written to an int's place

DataBaseAssumption ==
    /\ MaxCalls \in Nat /\ Names # {}
    /\ Rows \subseteq [level : Shorts, hp : Shorts]
    /\ Ints \subseteq Int

Handles == 1..MaxCalls
Columns == {"pos", "level", "hp"}
Null == 0
Nobody == "nobody"
NoLocals == [pos |-> FALSE, level |-> 0, hp |-> 0]

VARIABLES row, hstmt, retcode, stmt, bound, call, pc, name, locals, calls, alone

vars == <<row, hstmt, retcode, stmt, bound, call, pc, name, locals, calls, alone>>

Init ==
    /\ row \in [Names -> Rows]
    /\ hstmt = Null /\ retcode = "ok"
    /\ stmt = [h \in Handles |-> [st |-> "none", level |-> 0, hp |-> 0]]
    /\ bound = [h \in Handles |-> [c \in Columns |-> Nobody]]
    /\ call = [w \in Workers |-> "Idle"]
    /\ pc = [w \in Workers |-> "Idle"]
    /\ name = [w \in Workers |-> Nobody]
    /\ locals = [w \in Workers |-> NoLocals]
    /\ calls = 0 /\ alone = TRUE

Goto(w, step) == pc' = [pc EXCEPT ![w] = step]

-----------------------------------------------------------------------------
(* CS_LOGIN, with level and hp uninitialised, or CS_LOGOUT, neither of     *)
(* which asks what came before; a client's packets are handled one by one. *)
Begin(w, c, n) ==
    /\ call[w] = "Idle" /\ calls < MaxCalls
    /\ \A v \in Workers : call[v] # "Idle" => name[v] # n
    /\ \E level, hp \in Ints :
         \/ /\ c = "FindID"
            /\ locals' = [locals EXCEPT ![w] =
                            [pos |-> FALSE, level |-> level, hp |-> Short(hp)]]
         \/ /\ c = "UpdateDB"
            /\ locals' = [locals EXCEPT ![w] =
                            [pos |-> TRUE, level |-> Short(level), hp |-> Short(hp)]]
    /\ call' = [call EXCEPT ![w] = c]
    /\ name' = [name EXCEPT ![w] = n]
    /\ alone' = \A v \in Workers : call[v] = "Idle"
    /\ calls' = calls + 1
    /\ Goto(w, "Alloc")
    /\ UNCHANGED <<row, hstmt, retcode, stmt, bound>>

(* Slip (CallsReachTheirRow): the handle there is is used again. *)
SlipAlloc(w) ==
    /\ pc[w] = "Alloc"
    /\ hstmt' = 1
    /\ stmt' = IF hstmt = Null THEN [stmt EXCEPT ![1].st = "fresh"] ELSE stmt
    /\ retcode' = "ok"
    /\ Goto(w, "Exec")
    /\ UNCHANGED <<row, bound, call, name, locals, calls, alone>>

(* SQLAllocHandle. *)
Alloc(w) ==
    /\ pc[w] = "Alloc"
    /\ hstmt' = hstmt + 1
    /\ stmt' = [stmt EXCEPT ![hstmt + 1].st = "fresh"]
    /\ retcode' = "ok"
    /\ Goto(w, "Exec")
    /\ UNCHANGED <<row, bound, call, name, locals, calls, alone>>

(* EXEC SetPos: UpdateDB(id, x, y, lv, hp, exp) is given GetHp() for lv    *)
(* and GetLevel() for hp.                                                  *)
Swapped(w) == [level |-> locals[w].hp, hp |-> locals[w].level]
SetPos(w) == [row EXCEPT ![name[w]] = Swapped(w)]

(* SQLExecDirect of EXEC FindID or EXEC SetPos. *)
ExecDirect(w) ==
    /\ pc[w] = "Exec"
    /\ \/ /\ stmt[hstmt].st \in {"fresh", "done"} /\ call[w] = "FindID"
          /\ LET r == row[name[w]] IN
             stmt' = [stmt EXCEPT ![hstmt] = [st |-> "open", level |-> r.level, hp |-> r.hp]]
          /\ retcode' = "ok" /\ row' = row
       \/ /\ stmt[hstmt].st \in {"fresh", "done"} /\ call[w] = "UpdateDB"
          /\ stmt' = [stmt EXCEPT ![hstmt].st = "done"]
          /\ retcode' = "ok" /\ row' = SetPos(w)
       \/ /\ stmt[hstmt].st \in {"none", "open", "over"}
          /\ retcode' = "error" /\ UNCHANGED <<stmt, row>>
    /\ Goto(w, "Test")
    /\ UNCHANGED <<hstmt, bound, call, name, locals, calls, alone>>

(* The test of retcode, which another worker may have set since. *)
Test(w) ==
    /\ pc[w] = "Test"
    /\ Goto(w, IF call[w] = "FindID" /\ retcode = "ok" THEN "BindPos" ELSE "Free")
    /\ UNCHANGED <<row, hstmt, retcode, stmt, bound, call, name, locals, calls, alone>>

(* SQLBindCol of a column: each reads hstmt and sets retcode, and what it  *)
(* is set to is overwritten unread, unless by another worker.              *)
Bind(w, at, c, next) ==
    /\ pc[w] = at
    /\ IF stmt[hstmt].st = "none"
       THEN retcode' = "error" /\ bound' = bound
       ELSE retcode' = "ok" /\ bound' = [bound EXCEPT ![hstmt][c] = w]
    /\ Goto(w, next)
    /\ UNCHANGED <<row, hstmt, stmt, call, name, locals, calls, alone>>

(* What SQLFetch leaves in the variables of worker v: a short in each that *)
(* is bound to handle h, so that of the int level the upper half stays     *)
(* what it was. A login that has ended has left its to the worker's next.  *)
Filled(v, h) ==
    LET has(c) == call[v] = "FindID" /\ bound[h][c] = v
        to == locals[v]
    IN  [pos |-> has("pos") \/ to.pos,
         level |-> IF has("level") THEN Into(to.level, stmt[h].level) ELSE to.level,
         hp |-> IF has("hp") THEN Short(stmt[h].hp) ELSE to.hp]

(* SQLFetch. Without a row left there is no data; without a cursor it is   *)
(* an error.                                                               *)
Fetch(w) ==
    /\ pc[w] = "Fetch"
    /\ \/ /\ stmt[hstmt].st = "open" /\ retcode' = "ok"
          /\ stmt' = [stmt EXCEPT ![hstmt].st = "over"]
          /\ locals' = [v \in Workers |-> Filled(v, hstmt)]
       \/ /\ stmt[hstmt].st = "over" /\ retcode' = "no_data"
          /\ UNCHANGED <<stmt, locals>>
       \/ /\ stmt[hstmt].st \in {"none", "fresh", "done"} /\ retcode' = "error"
          /\ UNCHANGED <<stmt, locals>>
    /\ Goto(w, "Fetched")
    /\ UNCHANGED <<row, hstmt, bound, call, name, calls, alone>>

Fetched(w) ==
    /\ pc[w] = "Fetched"
    /\ Goto(w, IF retcode = "ok" THEN "Fetch" ELSE "Free")
    /\ UNCHANGED <<row, hstmt, retcode, stmt, bound, call, name, locals, calls, alone>>

(* SQLCancel and SQLFreeHandle, if retcode says success: it does not after *)
(* a FindID, whose loop ends when there is no data.                        *)
Free(w) ==
    /\ pc[w] = "Free"
    /\ stmt' = IF retcode = "ok" THEN [stmt EXCEPT ![hstmt].st = "none"] ELSE stmt
    /\ Goto(w, "Return")
    /\ UNCHANGED <<row, hstmt, retcode, bound, call, name, locals, calls, alone>>

(* CS_LOGIN goes on with what was found, or refuses; CS_LOGOUT resets. The *)
(* variables go out of scope.                                              *)
Return(w) ==
    /\ pc[w] = "Return"
    /\ call' = [call EXCEPT ![w] = "Idle"]
    /\ name' = [name EXCEPT ![w] = Nobody]
    /\ locals' = [locals EXCEPT ![w] = NoLocals]
    /\ Goto(w, "Idle")
    /\ UNCHANGED <<row, hstmt, retcode, stmt, bound, calls, alone>>

Step(w) ==
    \/ Alloc(w) \/ ExecDirect(w) \/ Test(w)
    \/ Bind(w, "BindPos", "pos", "BindLevel")
    \/ Bind(w, "BindLevel", "level", "BindHp")
    \/ Bind(w, "BindHp", "hp", "Fetch")
    \/ Fetch(w) \/ Fetched(w) \/ Free(w) \/ Return(w)

Next ==
    \E w \in Workers : \/ \E c \in {"FindID", "UpdateDB"}, n \in Names : Begin(w, c, n)
                       \/ Step(w)

Spec == Init /\ [][Next]_vars

-----------------------------------------------------------------------------
TypeOK ==
    /\ row \in [Names -> [level : Shorts, hp : Shorts]]
    /\ hstmt \in Handles \cup {Null}
    /\ retcode \in {"ok", "error", "no_data"}
    /\ stmt \in [Handles -> [st : {"none", "fresh", "done", "open", "over"},
                             level : Shorts, hp : Shorts]]
    /\ bound \in [Handles -> [Columns -> Workers \cup {Nobody}]]
    /\ call \in [Workers -> {"Idle", "FindID", "UpdateDB"}]
    /\ pc \in [Workers -> {"Idle", "Alloc", "Exec", "Test", "BindPos", "BindLevel",
                           "BindHp", "Fetch", "Fetched", "Free", "Return"}]
    /\ name \in [Workers -> Names \cup {Nobody}]
    /\ locals \in [Workers -> [pos : BOOLEAN, level : Int, hp : Shorts]]

Ends(w, c) == alone /\ pc[w] = "Return" /\ call[w] = c

(* WorkerThread.cpp:159, "load db": a login loads the row of its name, and *)
(* is not refused for a name the table has; of the level it loads the      *)
(* lower half only.                                                        *)
LoadsOwnRow ==
    \A w \in Workers : Ends(w, "FindID") =>
        LET r == row[name[w]]
        IN  locals[w].pos /\ Short(locals[w].level) = r.level /\ locals[w].hp = r.hp

(* DataBase.cpp:93, "here the data are taken in and the update is made":   *)
(* when UpdateDB returns, the row holds what the player had when it was    *)
(* called, be it with level and hp changed over and cut to a short.        *)
SavesAreMade ==
    \A w \in Workers : Ends(w, "UpdateDB")
        => \/ row[name[w]] = Swapped(w)
           \/ row[name[w]] = [level |-> locals[w].level, hp |-> locals[w].hp]

(* A call no other overlaps reaches the row of its name, whatever calls    *)
(* that did overlap have made of the one hstmt and retcode before, and     *)
(* however many handles they have left open.                               *)
CallsReachTheirRow == LoadsOwnRow /\ SavesAreMade
=============================================================================
