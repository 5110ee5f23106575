------------------------------ MODULE FinalViews ------------------------------
(***************************************************************************)
(* The view lists of the final server. A login (on the worker that         *)
(* received it), World::Update with the moves of the players, and the      *)
(* turns of the NPCs read and change the lists at the same time, each      *)
(* access a step of its own: the code takes no lock around them.           *)
(*                                                                         *)
(* A handler is a program of instructions <<operation, object, object>>;   *)
(* task[t].todo is what is left of it. A task t is a client (its login), an *)
(* NPC (its turn, of which there is one at a time: OneChainPerNpc of       *)
(* EventLoop) or "update" (of which there is one: NoConcurrentUpdate).     *)
(*                                                                         *)
(*   isConnect, pos   of the clients; -1 is the position before the login  *)
(*                    and after a logout. A move does not change it:       *)
(*                    Player::move steps only in local variables, and no   *)
(*                    client is ever "not empty", which an NPC's chase     *)
(*                    asks for (World.cpp:210).                            *)
(*   viewlist         of clients and NPCs                                  *)
(*   shown            what a client shows: objects added, not removed      *)
(*   lives            connections a slot has had                           *)
(*   orderly          history: the client has sent its requests in the     *)
(*                    order a client is written to: one CS_LOGIN, and only *)
(*                    then moves. The server does not ask: a client may    *)
(*                    log in again and is placed anew, a CS_DUMMY_LOGIN    *)
(*                    places it and greets nobody, and a move that came    *)
(*                    before the login may be worked off beside it.        *)
(*   requests         how many requests have been taken up (the bound)     *)
(*                                                                         *)
(* Two accesses to one unordered_set at the same time are undefined; the   *)
(* module takes each as one step. Positions sent are left out: they change *)
(* nothing that is shown. Messages to an NPC go nowhere. A client that is  *)
(* disconnected is Sessions', and how a request of a client that is gone   *)
(* ends the process EventLoop's.                                           *)
(***************************************************************************)
EXTENDS Integers, FiniteSets, Sequences

CONSTANTS NPC_ID_START, MAX_USER, WORLD_WIDTH, VIEW_RADIUS,
          Lives,        \* connections of one slot
          MaxRequests   \* bound: the requests of clients

Clients == 0..(NPC_ID_START - 1)
Npcs == NPC_ID_START..(MAX_USER - 1)
Objects == Clients \cup Npcs
Tasks == Objects \cup {MAX_USER}
update == MAX_USER      \* the task of World::Update

FinalViewsAssumption ==
    /\ NPC_ID_START \in Nat /\ MAX_USER \in Nat /\ NPC_ID_START <= MAX_USER
    /\ WORLD_WIDTH \in Nat \ {0}
    /\ VIEW_RADIUS \in Nat /\ Lives \in Nat /\ MaxRequests \in Nat

VARIABLES isConnect, pos, viewlist, shown, lives, isActive, task, orderly,
          requests

vars == <<isConnect, pos, viewlist, shown, lives, isActive, task, orderly, requests>>

Idle == [old |-> {}, before |-> {}, new |-> {}, todo |-> <<>>]

Init ==
    /\ isConnect = [c \in Clients |-> FALSE]
    /\ pos \in {f \in [Objects -> -1..(WORLD_WIDTH - 1)] :
                  \A o \in Objects : f[o] = -1 <=> o \in Clients}
    /\ viewlist = [o \in Objects |-> {}]
    /\ shown = [c \in Clients |-> {}]
    /\ lives = [c \in Clients |-> 0]
    /\ isActive = [n \in Npcs |-> FALSE]
    /\ task = [t \in Tasks |-> Idle]
    /\ orderly = [c \in Clients |-> TRUE]
    /\ requests = 0

isNear(a, b) == pos[a] - pos[b] < VIEW_RADIUS /\ pos[b] - pos[a] < VIEW_RADIUS

(* The objects in the order of the array, without o. *)
Others(o) == [k \in 1..(MAX_USER - 1) |-> IF k <= o THEN k - 1 ELSE k]

Flatten(seqs) ==
    LET upto[i \in 0..Len(seqs)] == IF i = 0 THEN <<>> ELSE upto[i - 1] \o seqs[i]
    IN  upto[Len(seqs)]

(* The program of each object, in the order given.                         *)
EachOf(program, order) == Flatten([i \in 1..Len(order) |-> program[order[i]]])

(* The orders in which an unordered_set may be gone through.               *)
Orders(S) == {f \in [1..Cardinality(S) -> S] :
                 \A i, j \in DOMAIN f : f[i] = f[j] => i = j}

-----------------------------------------------------------------------------
(* The programs. *)

GreetAll(c) ==
    [k \in 1..(NPC_ID_START - 1) |-> <<"greet", c, Others(c)[k]>>]
       \o [k \in 1..(MAX_USER - NPC_ID_START) |-> <<"greetNpc", c, NPC_ID_START + k - 1>>]

(* Slip (NobodyMissed): the position is set after the loops. *)
SlipLoginProgram(c) == GreetAll(c) \o << <<"place", c, c>> >>

LoginProgram(c) == << <<"place", c, c>> >> \o GreetAll(c)

(* Player::move of a player or an NPC: "look" fills new, "sort" turns it    *)
(* into the rest of the program.                                           *)
LookAll(o) ==
    IF o \in Clients THEN [k \in 1..(MAX_USER - 1) |-> <<"look", o, Others(o)[k]>>]
                     ELSE [k \in 1..MAX_USER |-> <<"look", o, k - 1>>]

MoveProgram(o) == << <<"copy", o, o>> >> \o LookAll(o) \o << <<"sort", o, o>> >>

MeetProgram(o, n, old) ==
    IF n \notin old
    THEN << <<"insert", o, n>>, <<"add", o, n>> >>
           \o (IF n \in Clients THEN << <<"meet", n, o>> >> ELSE <<>>)
    ELSE IF n \in Npcs THEN << <<"insert", n, n>> >> ELSE <<>>

PartProgram(o, n) ==
    << <<"erase", o, n>>, <<"remove", o, n>> >>
       \o (IF n \in Clients THEN << <<"part", n, o>> >> ELSE <<>>)

(* random_move_npc: who is near before and after Player::move. *)
NpcProgram(n) ==
    [k \in 1..NPC_ID_START |-> <<"lookBefore", n, k - 1>>] \o MoveProgram(n)

(* The second look around, and the loops that follow.                      *)
NpcLooks(n) ==
    << <<"restart", n, n>> >>
       \o [k \in 1..NPC_ID_START |-> <<"look", n, k - 1>>]
       \o << <<"rest", n, n>> >>

NpcRest(n, before, after) ==
    [i \in 1..Len(before) |-> <<IF before[i] \in after THEN "list" ELSE "part", before[i], n>>]
       \o << <<"listAll", n, n>> >>

-----------------------------------------------------------------------------
At(t, op) == task[t].todo # <<>> /\ Head(task[t].todo)[1] = op
First(t) == Head(task[t].todo)[2]
Second(t) == Head(task[t].todo)[3]

(* The instruction is done, and those of more come first. *)
Go(t, more) ==
    LET rest == more \o Tail(task[t].todo)
    IN  task' = [task EXCEPT ![t] = IF rest = <<>> THEN Idle ELSE [@ EXCEPT !.todo = rest]]

Begin(t, todo) ==
    /\ task[t] = Idle
    /\ task' = [task EXCEPT ![t].todo = todo]

-----------------------------------------------------------------------------
(* The accept thread: a new CLIENT, with an empty list, nowhere yet. *)
Accept(c) ==
    /\ ~isConnect[c] /\ lives[c] < Lives /\ task[c] = Idle
    /\ isConnect' = [isConnect EXCEPT ![c] = TRUE]
    /\ lives' = [lives EXCEPT ![c] = @ + 1]
    /\ viewlist' = [viewlist EXCEPT ![c] = {}]
    /\ shown' = [shown EXCEPT ![c] = {}]
    /\ pos' = [pos EXCEPT ![c] = -1]
    /\ orderly' = [orderly EXCEPT ![c] = TRUE]
    /\ UNCHANGED <<isActive, task, requests>>

Request == requests < MaxRequests /\ requests' = requests + 1

(* CS_LOGIN and CS_DUMMY_LOGIN, neither of which asks where the client is  *)
(* already, nor whether it has sent a CS_LOGOUT. (A login whose row is not *)
(* found changes nothing here.)                                            *)
Login(c) ==
    /\ Request /\ lives[c] > 0
    /\ Begin(c, LoginProgram(c))
    /\ orderly' = [orderly EXCEPT ![c] = @ /\ isConnect[c] /\ pos[c] = -1]
    /\ UNCHANGED <<isConnect, pos, viewlist, shown, lives, isActive>>

DummyLogin(c) ==
    /\ Request /\ lives[c] > 0
    /\ Begin(c, << <<"place", c, c>> >>)
    /\ orderly' = [orderly EXCEPT ![c] = FALSE]
    /\ UNCHANGED <<isConnect, pos, viewlist, shown, lives, isActive>>

(* CS_MOVE, when World::Update works it off, wherever the client is by     *)
(* then. It goes on as before if the client logs out meanwhile; the code   *)
(* would go on with the number -1, outside the array.                      *)
Move(c) ==
    /\ Request /\ isConnect[c]
    /\ Begin(update, MoveProgram(c))
    /\ orderly' = [orderly EXCEPT ![c] = @ /\ pos[c] # -1 /\ task[c] = Idle]
    /\ UNCHANGED <<isConnect, pos, viewlist, shown, lives, isActive>>

Logout(c) ==
    /\ Request /\ lives[c] > 0 /\ task[c] = Idle
    /\ isConnect' = [isConnect EXCEPT ![c] = FALSE]
    /\ pos' = [pos EXCEPT ![c] = -1]
    /\ UNCHANGED <<viewlist, shown, lives, isActive, task, orderly>>

(* EV_RANDOM_MOVE of an NPC that is awake. *)
NpcTurn(n) ==
    /\ isActive[n]
    /\ Begin(n, NpcProgram(n))
    /\ UNCHANGED <<isConnect, pos, viewlist, shown, lives, isActive, orderly, requests>>

-----------------------------------------------------------------------------

Place(t) ==
    /\ At(t, "place")
    /\ \E x \in 0..(WORLD_WIDTH - 1) : pos' = [pos EXCEPT ![First(t)] = x]
    /\ Go(t, <<>>)
    /\ UNCHANGED <<isConnect, viewlist, shown, lives, isActive, orderly, requests>>

(* Login: each lists the other, where it does not already. *)
Greet(t) ==
    LET c == First(t)
        i == Second(t)
    IN  /\ At(t, "greet")
        /\ Go(t, IF isConnect[i] /\ isNear(i, c)
                 THEN << <<"list", i, c>>, <<"list", c, i>> >> ELSE <<>>)
        /\ UNCHANGED <<isConnect, pos, viewlist, shown, lives, isActive, orderly, requests>>

GreetNpc(t) ==
    LET c == First(t)
        n == Second(t)
    IN  /\ At(t, "greetNpc")
        /\ Go(t, IF isNear(c, n)
                 THEN << <<"insert", c, n>>, <<"add", c, n>>, <<"wake", n, n>> >> ELSE <<>>)
        /\ UNCHANGED <<isConnect, pos, viewlist, shown, lives, isActive, orderly, requests>>

(* wake_up_npc, also of each NPC in Player::move. *)
Wake(t) ==
    /\ At(t, "wake")
    /\ isActive' = [isActive EXCEPT ![First(t)] = TRUE]
    /\ Go(t, <<>>)
    /\ UNCHANGED <<isConnect, pos, viewlist, shown, lives, orderly, requests>>

Copy(t) ==
    /\ At(t, "copy")
    /\ task' = [task EXCEPT ![t].todo = Tail(@), ![t].old = viewlist[First(t)],
                            ![t].new = {}]
    /\ UNCHANGED <<isConnect, pos, viewlist, shown, lives, isActive, orderly, requests>>

Visible(o, i) == (i \in Clients => isConnect[i]) /\ isNear(o, i)

Look(t) ==
    LET i == Second(t)
    IN  /\ At(t, "look")
        /\ task' = [task EXCEPT ![t].todo = Tail(@),
                                ![t].new = IF Visible(First(t), i) THEN @ \cup {i} ELSE @]
        /\ isActive' = IF i \in Npcs THEN [isActive EXCEPT ![i] = TRUE] ELSE isActive
        /\ UNCHANGED <<isConnect, pos, viewlist, shown, lives, orderly, requests>>

LookBefore(t) ==
    LET i == Second(t)
    IN  /\ At(t, "lookBefore")
        /\ task' = [task EXCEPT ![t].todo = Tail(@),
                                ![t].before = IF Visible(First(t), i) THEN @ \cup {i} ELSE @]
        /\ UNCHANGED <<isConnect, pos, viewlist, shown, lives, isActive, orderly, requests>>

(* The loops over new and old, in any order; an NPC's turn then goes on.   *)
Sort(t) ==
    LET o == First(t)
        now == task[t].new
        meets == [n \in now |-> MeetProgram(o, n, task[t].old)]
        parts == [n \in task[t].old \ now |-> PartProgram(o, n)]
    IN  /\ At(t, "sort")
        /\ \E in \in Orders(DOMAIN meets), out \in Orders(DOMAIN parts) :
              Go(t, EachOf(meets, in) \o EachOf(parts, out)
                      \o (IF o \in Npcs THEN NpcLooks(o) ELSE <<>>))
        /\ UNCHANGED <<isConnect, pos, viewlist, shown, lives, isActive, orderly, requests>>

Restart(t) ==
    /\ At(t, "restart")
    /\ task' = [task EXCEPT ![t].todo = Tail(@), ![t].new = {}]
    /\ UNCHANGED <<isConnect, pos, viewlist, shown, lives, isActive, orderly, requests>>

Rest(t) ==
    /\ At(t, "rest")
    /\ \E order \in Orders(task[t].before) :
          Go(t, NpcRest(First(t), order, task[t].new))
    /\ UNCHANGED <<isConnect, pos, viewlist, shown, lives, isActive, orderly, requests>>

(* The last loop of random_move_npc, over new: a client whose own number   *)
(* is not in its list - it never is - lists the NPC.                       *)
ListAll(t) ==
    /\ At(t, "listAll")
    /\ \E order \in Orders({p \in task[t].new : p \notin viewlist[p]}) :
          Go(t, [i \in 1..Len(order) |-> <<"list", order[i], First(t)>>])
    /\ UNCHANGED <<isConnect, pos, viewlist, shown, lives, isActive, orderly, requests>>

(* Changes of a list; the test of count and the change are two steps. *)
Insert(t) ==
    /\ At(t, "insert")
    /\ viewlist' = [viewlist EXCEPT ![First(t)] = @ \cup {Second(t)}]
    /\ Go(t, <<>>)
    /\ UNCHANGED <<isConnect, pos, shown, lives, isActive, orderly, requests>>

Erase(t) ==
    /\ At(t, "erase")
    /\ viewlist' = [viewlist EXCEPT ![First(t)] = @ \ {Second(t)}]
    /\ Go(t, <<>>)
    /\ UNCHANGED <<isConnect, pos, shown, lives, isActive, orderly, requests>>

List(t) ==
    LET a == First(t)
        b == Second(t)
    IN  /\ At(t, "list")
        /\ Go(t, IF b \in viewlist[a] THEN <<>> ELSE << <<"insert", a, b>>, <<"add", a, b>> >>)
        /\ UNCHANGED <<isConnect, pos, viewlist, shown, lives, isActive, orderly, requests>>

(* Player::move lists the mover o with n, but sends the message to o.      *)
Meet(t) ==
    LET n == First(t)
        o == Second(t)
    IN  /\ At(t, "meet")
        /\ Go(t, IF o \in viewlist[n] THEN <<>> ELSE << <<"insert", n, o>>, <<"add", o, n>> >>)
        /\ UNCHANGED <<isConnect, pos, viewlist, shown, lives, isActive, orderly, requests>>

Part(t) ==
    LET a == First(t)
        b == Second(t)
    IN  /\ At(t, "part")
        /\ Go(t, IF b \in viewlist[a] THEN << <<"erase", a, b>>, <<"remove", a, b>> >> ELSE <<>>)
        /\ UNCHANGED <<isConnect, pos, viewlist, shown, lives, isActive, orderly, requests>>

(* SendAddObjectPacket, SendRemoveObjectPacket. *)
Send(t) ==
    LET to == First(t)
    IN  /\ At(t, "add") \/ At(t, "remove")
        /\ shown' = IF to \in Npcs THEN shown
                    ELSE [shown EXCEPT ![to] = IF At(t, "add") THEN @ \cup {Second(t)}
                                               ELSE @ \ {Second(t)}]
        /\ Go(t, <<>>)
        /\ UNCHANGED <<isConnect, pos, viewlist, lives, isActive, orderly, requests>>

Step(t) ==
    \/ Place(t) \/ Greet(t) \/ GreetNpc(t) \/ Wake(t)
    \/ Copy(t) \/ Look(t) \/ LookBefore(t) \/ Sort(t) \/ Restart(t) \/ Rest(t)
    \/ ListAll(t) \/ Insert(t) \/ Erase(t) \/ List(t) \/ Meet(t) \/ Part(t) \/ Send(t)

Next ==
    \/ \E c \in Clients : Accept(c) \/ Login(c) \/ DummyLogin(c) \/ Move(c) \/ Logout(c)
    \/ \E n \in Npcs : NpcTurn(n)
    \/ \E t \in Tasks : Step(t)

Spec == Init /\ [][Next]_vars

-----------------------------------------------------------------------------
AtRest == \A t \in Tasks : task[t] = Idle

InGame == {c \in Clients : isConnect[c] /\ pos[c] # -1 /\ orderly[c]}

TypeOK ==
    /\ isConnect \in [Clients -> BOOLEAN]
    /\ pos \in [Objects -> -1..(WORLD_WIDTH - 1)]
    /\ viewlist \in [Objects -> SUBSET Objects]
    /\ shown \in [Clients -> SUBSET Objects]
    /\ lives \in [Clients -> 0..Lives]
    /\ isActive \in [Npcs -> BOOLEAN]
    /\ orderly \in [Clients -> BOOLEAN] /\ requests \in 0..MaxRequests
    /\ \A t \in Tasks : task[t].old \cup task[t].new \cup task[t].before \subseteq Objects

(* Logins at the same time as logins, moves and NPCs: each sets its        *)
(* position before it looks around, so that of two players near each other *)
(* at least one finds the other, and in the end each is in the list of the *)
(* other; and so is every NPC near it. That is said of the orderly: a      *)
(* second login or a dummy login may leave two in neither's list; but the  *)
(* disorderly spoil nothing between two who are not.                       *)
NobodyMissed ==
    AtRest => \A p \in InGame : \A q \in (InGame \cup Npcs) \ {p} :
        isNear(p, q) => q \in viewlist[p]
=============================================================================
