------------------------------- MODULE AiServer -------------------------------
(***************************************************************************)
(* The AI server (6_AI_server): its workers accept, log in, move and       *)
(* disconnect players and move NPCs, and keep for each player the list of  *)
(* the objects its client shows.                                           *)
(*                                                                         *)
(* A worker's handler is a program of small steps, built from the code:    *)
(* task[w].todo is what it still has to do, an instruction                 *)
(* <<operation, object, object>> for each access to what workers share.    *)
(* The m_vl locks are held for one access, which is one step; an m_slock   *)
(* is held across steps and has an owner.                                  *)
(*                                                                         *)
(*   state, pos, view   m_state, x and y, m_view_list of the objects       *)
(*   active             is_active of the NPCs                              *)
(*   due                OP_RANDO_MOVE entries of an NPC in the timer queue *)
(*                      or in the completion port                          *)
(*   slock              the worker that holds m_slock, or 0                *)
(*   shown              what the client of a slot shows: the objects added *)
(*                      and not removed by the messages sent to it         *)
(*   lives, failed      accepts per slot, failed sends (both bounded)      *)
(*   aborted            receives of a closed socket not yet reported       *)
(*   alone, healed      history: no handler ran beside the last one; the   *)
(*                      players that moved alone since handlers overlapped *)
(*                                                                         *)
(* Left out: names, chats of the NPC scripts (OP_PLAYER_APPROACH), the     *)
(* one-second delay of a timer entry.                                      *)
(***************************************************************************)
EXTENDS Integers, FiniteSets, Sequences

CONSTANTS MAX_USER, NPC_START, WORLD_X_SIZE, WORLD_Y_SIZE, VIEW_RADIUS,
          Workers,
          Lives,        \* accepts of one slot
          Failures      \* sends that fail on an open socket

Players == 1..(NPC_START - 1)
Npcs == NPC_START..MAX_USER
Objects == Players \cup Npcs
World == [x : 0..(WORLD_X_SIZE - 1), y : 0..(WORLD_Y_SIZE - 1)]

AiServerAssumption ==
    /\ MAX_USER \in Nat /\ NPC_START \in 1..(MAX_USER + 1)
    /\ {WORLD_X_SIZE, WORLD_Y_SIZE} \subseteq Nat \ {0}
    /\ {VIEW_RADIUS, Lives, Failures} \subseteq Nat
    /\ IsFiniteSet(Workers) /\ 0 \notin Workers

VARIABLES state, pos, view, active, due, slock, shown, lives, failed, aborted,
          task, alone, healed

vars == <<state, pos, view, active, due, slock, shown, lives, failed, aborted,
          task, alone, healed>>
history == <<alone, healed>>
timer == <<active, due>>
faults == <<lives, failed, aborted>>

Idle == [op |-> "idle", id |-> 0, life |-> 0, old |-> {}, new |-> {}, todo |-> <<>>]

Init ==
    /\ state = [o \in Objects |-> IF o \in Npcs THEN "INGAME" ELSE "FREE"]
    /\ pos \in {f \in [Objects -> World] :
                  \A p \in Players : f[p] = [x |-> 0, y |-> 0]}
    /\ view = [p \in Players |-> {}]
    /\ active = [n \in Npcs |-> FALSE]
    /\ due = [n \in Npcs |-> 0]
    /\ slock = [o \in Objects |-> 0]
    /\ shown = [p \in Players |-> {}]
    /\ lives = [p \in Players |-> 0]
    /\ failed = 0
    /\ aborted = [p \in Players |-> 0]
    /\ task = [w \in Workers |-> Idle]
    /\ alone = TRUE
    /\ healed = {}

-----------------------------------------------------------------------------
Distance(i, j) == IF i < j THEN j - i ELSE i - j

CanSee(a, b) ==
    /\ Distance(pos[a].x, pos[b].x) <= VIEW_RADIUS
    /\ Distance(pos[a].y, pos[b].y) <= VIEW_RADIUS

Sight(a) == {o \in Objects \ {a} : state[o] = "INGAME" /\ CanSee(a, o)}

(* Slip (TypeOK): a step too far. *)
SlipSteps(c) ==
    {d \in [x : 0..WORLD_X_SIZE, y : 0..WORLD_Y_SIZE] :
        Distance(c.x, d.x) + Distance(c.y, d.y) = 1}

(* One step in a direction of the world; none where the world ends. A      *)
(* client may also ask for D_NO.                                           *)
Steps(c) == {d \in World : Distance(c.x, d.x) + Distance(c.y, d.y) = 1}
AtBorder(c) == c.x \in {0, WORLD_X_SIZE - 1} \/ c.y \in {0, WORLD_Y_SIZE - 1}

(* The objects in the order of the array, without o. *)
Others(o) == [k \in 1..(MAX_USER - 1) |-> IF k < o THEN k ELSE k + 1]

Flatten(seqs) ==
    LET upto[i \in 0..Len(seqs)] == IF i = 0 THEN <<>> ELSE upto[i - 1] \o seqs[i]
    IN  upto[Len(seqs)]

(* The program of each object, in the order given.                         *)
EachOf(program, order) == Flatten([i \in 1..Len(order) |-> program[order[i]]])

(* The orders in which an unordered_set may be gone through.               *)
Orders(S) == {f \in [1..Cardinality(S) -> S] :
                 \A i, j \in DOMAIN f : f[i] = f[j] => i = j}

-----------------------------------------------------------------------------
(* The programs of the handlers. *)

DisconnectProgram(p) == << <<"free", p, p>> >>

LoginProgram(p) ==
    << <<"place", p, p>>, <<"ok", p, p>>, <<"enter", p, p>> >>
       \o [i \in 1..(MAX_USER - 1) |-> <<"visit", p, Others(p)[i]>>]
       \o << <<"unlock", p, p>>, <<"done", p, p>> >>

MoveProgram(p) ==
    << <<"step", p, p>>, <<"copy", p, p>> >>
       \o [i \in 1..(MAX_USER - 1) |-> <<"look", p, Others(p)[i]>>]
       \o << <<"sort", p, p>> >>

NpcProgram(n) ==
    [p \in Players |-> <<"look", n, p>>]
       \o << <<"step", n, n>> >>
       \o [p \in Players |-> <<"look", n, p>>]
       \o << <<"sort", n, n>> >>

(* login, for one object in sight, under the m_slock of that object. *)
GreetProgram(p, o) ==
    << <<"insert", p, o>>, <<"add", p, o>> >>
       \o (IF o \in Npcs THEN << <<"wake", o, o>> >>
                         ELSE << <<"insert", o, p>>, <<"add", o, p>> >>)
       \o << <<"unlock", o, o>> >>

(* Slip (MovesRepair): who was in the old list is taken to list the        *)
(* player too.                                                             *)
SlipMeetProgram(p, o, old) ==
    IF o \in old
    THEN (IF o \in Players THEN << <<"move", o, p>> >> ELSE <<>>)
    ELSE << <<"insert", p, o>>, <<"add", p, o>>,
            IF o \in Players THEN <<"meet", o, p>> ELSE <<"wake", o, o>> >>

(* do_move: an object of the new sight ... *)
MeetProgram(p, o, old) ==
    (IF o \in old THEN <<>> ELSE << <<"insert", p, o>>, <<"add", p, o>> >>)
       \o (IF o \in Players THEN << <<"meet", o, p>> >>
           ELSE IF o \in old THEN <<>> ELSE << <<"wake", o, o>> >>)

(* ... and one of the old list that is no longer in sight. *)
PartProgram(p, o, old) ==
    << <<"erase", p, o>>, <<"remove", p, o>> >>
       \o (IF o \in Players THEN << <<"part", o, p>> >> ELSE <<>>)

(* Slip (ListsMatchSight): as in the server of the stress test, which      *)
(* looks for the player itself in the player's list.                       *)
SlipNpcPartProgram(n, p, old) ==
    IF p \in view[p] THEN << <<"part", p, n>> >> ELSE <<>>

(* do_npc_random_move, likewise. *)
NpcMeetProgram(n, p, old) ==
    IF p \in old THEN << <<"move", p, n>> >>
                 ELSE << <<"insert", p, n>>, <<"add", p, n>> >>

NpcPartProgram(n, p, old) == << <<"part", p, n>> >>

-----------------------------------------------------------------------------
(* A worker takes a completion from the port, or goes on with its program. *)

(* A worker handles a completion of the present client of the slot. *)
Busy(p) == \E w \in Workers : /\ task[w].op \in {"login", "move", "quit"}
                              /\ task[w].id = p /\ task[w].life = lives[p]

Begin(w, op, id, todo) ==
    LET overlaps == \E u \in Workers : task[u] # Idle
    IN  /\ task[w] = Idle
        /\ task' = [task EXCEPT ![w] =
                       [Idle EXCEPT !.op = op, !.id = id, !.todo = todo,
                                    !.life = IF id \in Players THEN lives[id] ELSE 0]]
        /\ alone' = ~overlaps
        /\ healed' = IF overlaps THEN {} ELSE healed

At(w, op) == task[w].todo # <<>> /\ Head(task[w].todo)[1] = op
First(w) == Head(task[w].todo)[2]
Second(w) == Head(task[w].todo)[3]

Go(w, more) == task' = [task EXCEPT ![w].todo = more \o Tail(@)]

-----------------------------------------------------------------------------
(* OP_ACCEPT: the first free slot. The one AcceptEx is issued again after, *)
(* so no two workers accept at once, and an accept holds no lock while it  *)
(* waits for one.                                                          *)
Accept(w, p) ==
    /\ task[w] = Idle
    /\ state[p] = "FREE" /\ lives[p] < Lives
    /\ \A q \in 1..p : slock[q] = 0 /\ (q < p => state[q] # "FREE")
    /\ state' = [state EXCEPT ![p] = "CONNECTED"]
    /\ lives' = [lives EXCEPT ![p] = @ + 1]
    /\ shown' = [shown EXCEPT ![p] = {}]
    /\ UNCHANGED <<pos, view, timer, slock, failed, aborted, task, history>>

(* OP_RECV: the client has one receive open, so its packets are handled    *)
(* one after the other. It sends its login first.                          *)
Login(w, p) ==
    /\ state[p] = "CONNECTED" /\ ~Busy(p)
    /\ Begin(w, "login", p, LoginProgram(p))
    /\ UNCHANGED <<state, pos, view, timer, slock, shown, faults>>

Move(w, p) ==
    /\ state[p] = "INGAME" /\ ~Busy(p)
    /\ Begin(w, "move", p, MoveProgram(p))
    /\ UNCHANGED <<state, pos, view, timer, slock, shown, faults>>

(* The client closes (0 bytes), or its connection breaks: then the worker  *)
(* calls disconnect for the error and once more for the 0 bytes.           *)
Quit(w, p) ==
    /\ state[p] # "FREE" /\ ~Busy(p)
    /\ \E error \in BOOLEAN :
          Begin(w, "quit", p, (IF error THEN DisconnectProgram(p) ELSE <<>>)
                                \o DisconnectProgram(p) \o << <<"done", p, p>> >>)
    /\ UNCHANGED <<state, pos, view, timer, slock, shown, faults>>

(* The receive of a socket that a failed send has closed ends in an error. *)
Abort(w, p) ==
    /\ aborted[p] > 0
    /\ aborted' = [aborted EXCEPT ![p] = @ - 1]
    /\ Begin(w, "abort", p, DisconnectProgram(p) \o DisconnectProgram(p)
                              \o << <<"done", p, p>> >>)
    /\ UNCHANGED <<state, pos, view, timer, slock, shown, lives, failed>>

(* do_timer posts OP_RANDO_MOVE and a worker takes it. *)
NpcTurn(w, n) ==
    /\ due[n] > 0
    /\ due' = [due EXCEPT ![n] = @ - 1]
    /\ Begin(w, "npc", n, NpcProgram(n))
    /\ UNCHANGED <<state, pos, view, active, slock, shown, faults>>

(* The end of the handler: do_recv, or add_event for the NPC's next move.  *)
Finish(w) ==
    /\ At(w, "done")
    /\ task' = [task EXCEPT ![w] = Idle]
    /\ due' = IF task[w].op = "npc" THEN [due EXCEPT ![First(w)] = @ + 1] ELSE due
    /\ healed' = IF task[w].op = "move" /\ alone /\ state[First(w)] = "INGAME"
                 THEN healed \cup {First(w)} ELSE healed
    /\ UNCHANGED <<state, pos, view, active, slock, shown, faults, alone>>

-----------------------------------------------------------------------------
(* Login takes its own m_slock for its whole length, then that of each     *)
(* object for its visit.                                                   *)
Place(w) ==
    /\ At(w, "place") /\ slock[First(w)] = 0
    /\ slock' = [slock EXCEPT ![First(w)] = w]
    /\ \E c \in World : pos' = [pos EXCEPT ![First(w)] = c]
    /\ Go(w, <<>>)
    /\ UNCHANGED <<state, view, timer, shown, faults, history>>

Enter(w) ==
    /\ At(w, "enter")
    /\ state' = [state EXCEPT ![First(w)] = "INGAME"]
    /\ Go(w, <<>>)
    /\ UNCHANGED <<pos, view, timer, slock, shown, faults, history>>

Visit(w) ==
    LET o == Second(w)
        greets == state[o] = "INGAME" /\ CanSee(First(w), o)
    IN  /\ At(w, "visit") /\ slock[o] = 0
        /\ slock' = IF greets THEN [slock EXCEPT ![o] = w] ELSE slock
        /\ Go(w, IF greets THEN GreetProgram(First(w), o) ELSE <<>>)
        /\ UNCHANGED <<state, pos, view, timer, shown, faults, history>>

Unlock(w) ==
    /\ At(w, "unlock")
    /\ slock' = [slock EXCEPT ![First(w)] = 0]
    /\ Go(w, <<>>)
    /\ UNCHANGED <<state, pos, view, timer, shown, faults, history>>

(* The position changes first; the list is read, and the objects are       *)
(* looked at one by one, afterwards. An NPC looks at the players before    *)
(* its step as well.                                                       *)
Step(w) ==
    /\ At(w, "step")
    /\ \E c \in Steps(pos[First(w)])
                  \cup (IF First(w) \in Players \/ AtBorder(pos[First(w)])
                        THEN {pos[First(w)]} ELSE {}) :
          pos' = [pos EXCEPT ![First(w)] = c]
    /\ task' = [task EXCEPT ![w].todo = Tail(@), ![w].old = @ \cup task[w].new,
                            ![w].new = {}]
    /\ UNCHANGED <<state, view, timer, slock, shown, faults, history>>

Copy(w) ==
    /\ At(w, "copy")
    /\ task' = [task EXCEPT ![w].todo = Tail(@), ![w].old = view[First(w)]]
    /\ UNCHANGED <<state, pos, view, timer, slock, shown, faults, history>>

Look(w) ==
    /\ At(w, "look")
    /\ task' = [task EXCEPT ![w].todo = Tail(@),
                            ![w].new = IF Second(w) \in Sight(First(w))
                                       THEN @ \cup {Second(w)} ELSE @]
    /\ UNCHANGED <<state, pos, view, timer, slock, shown, faults, history>>

(* The objects in sight, then those that left it, in the order of the      *)
(* unordered_sets, which is any; a player's client is told of its own step *)
(* before.                                                                 *)
Sort(w) ==
    LET a == First(w)
        old == task[w].old
        new == task[w].new
        met == [o \in new |-> IF a \in Players THEN MeetProgram(a, o, old)
                              ELSE NpcMeetProgram(a, o, old)]
        parted == [o \in old \ new |-> IF a \in Players THEN PartProgram(a, o, {})
                                       ELSE NpcPartProgram(a, o, {})]
    IN  /\ At(w, "sort")
        /\ \E in \in Orders(new), out \in Orders(old \ new) :
              Go(w, (IF a \in Players THEN << <<"own", a, a>> >> ELSE <<>>)
                      \o EachOf(met, in) \o EachOf(parted, out)
                      \o << <<"done", a, a>> >>)
        /\ UNCHANGED <<state, pos, view, timer, slock, shown, faults, history>>

(* A list is changed under its m_vl, the message is sent after. *)
Insert(w) ==
    /\ At(w, "insert")
    /\ view' = [view EXCEPT ![First(w)] = @ \cup {Second(w)}]
    /\ Go(w, <<>>)
    /\ UNCHANGED <<state, pos, timer, slock, shown, faults, history>>

Erase(w) ==
    /\ At(w, "erase")
    /\ view' = [view EXCEPT ![First(w)] = @ \ {Second(w)}]
    /\ Go(w, <<>>)
    /\ UNCHANGED <<state, pos, timer, slock, shown, faults, history>>

(* The other player's list: added to it or moved in it ... *)
Meet(w) ==
    LET o == First(w)
        p == Second(w)
    IN  /\ At(w, "meet")
        /\ view' = [view EXCEPT ![o] = @ \cup {p}]
        /\ Go(w, IF p \in view[o] THEN << <<"move", o, p>> >> ELSE << <<"add", o, p>> >>)
        /\ UNCHANGED <<state, pos, timer, slock, shown, faults, history>>

(* ... or erased from it if it is there. *)
Part(w) ==
    LET o == First(w)
        p == Second(w)
    IN  /\ At(w, "part")
        /\ view' = [view EXCEPT ![o] = @ \ {p}]
        /\ Go(w, IF p \in view[o] THEN << <<"remove", o, p>> >> ELSE <<>>)
        /\ UNCHANGED <<state, pos, timer, slock, shown, faults, history>>

(* Slip (OneTurnPerNpc): the entry is added without the exchange. *)
SlipWake(w) ==
    /\ At(w, "wake") /\ due[First(w)] < 2
    /\ active' = [active EXCEPT ![First(w)] = TRUE]
    /\ due' = [due EXCEPT ![First(w)] = @ + 1]
    /\ Go(w, <<>>)
    /\ UNCHANGED <<state, pos, view, slock, shown, faults, history>>

(* wake_up_npc: the exchange lets one worker add the timer entry. *)
Wake(w) ==
    /\ At(w, "wake")
    /\ active' = [active EXCEPT ![First(w)] = TRUE]
    /\ due' = IF active[First(w)] THEN due ELSE [due EXCEPT ![First(w)] = @ + 1]
    /\ Go(w, <<>>)
    /\ UNCHANGED <<state, pos, view, slock, shown, faults, history>>

(* send_packet: the socket takes the message, or the send fails - always   *)
(* when the socket is closed - and the sender disconnects the player there *)
(* and then, whatever locks it holds.                                      *)
Sends == {"ok", "own", "add", "move", "remove"}

Deliver(w) ==
    /\ \E kind \in Sends : At(w, kind)
    /\ state[First(w)] # "FREE"
    /\ shown' = [shown EXCEPT ![First(w)] =
                    IF At(w, "add") THEN @ \cup {Second(w)}
                    ELSE IF At(w, "remove") THEN @ \ {Second(w)} ELSE @]
    /\ Go(w, <<>>)
    /\ UNCHANGED <<state, pos, view, timer, slock, faults, history>>

SendFails(w) ==
    /\ \E kind \in Sends : At(w, kind)
    /\ state[First(w)] = "FREE" \/ failed < Failures
    /\ failed' = IF state[First(w)] = "FREE" THEN failed ELSE failed + 1
    /\ Go(w, DisconnectProgram(First(w)))
    /\ alone' = FALSE
    /\ healed' = {}
    /\ UNCHANGED <<state, pos, view, timer, slock, shown, lives, aborted>>

(* Slip (OnlyLoginsDeadlock): the lock of the player's own slot is kept  *)
(* while the others are told.                                              *)
SlipFree(w) ==
    LET p == First(w)
    IN  /\ At(w, "free") /\ slock[p] = 0
        /\ state' = [state EXCEPT ![p] = "FREE"]
        /\ slock' = IF state[p] = "FREE" THEN slock ELSE [slock EXCEPT ![p] = w]
        /\ Go(w, IF state[p] = "FREE" THEN <<>>
                 ELSE [q \in Players |-> <<"tell", q, p>>]
                        \o << <<"unlock", p, p>> >>)
        /\ healed' = {q \in healed \ {p} : p \notin view[q]}
        /\ UNCHANGED <<pos, view, timer, shown, faults, alone>>

(* disconnect: the slot is free again; then every slot in the game is      *)
(* told, under its m_slock.                                                *)
Free(w) ==
    LET p == First(w)
    IN  /\ At(w, "free") /\ slock[p] = 0
        /\ state' = [state EXCEPT ![p] = "FREE"]
        /\ Go(w, IF state[p] = "FREE" THEN <<>>
                 ELSE [q \in Players |-> <<"tell", q, p>>])
        /\ aborted' = IF state[p] = "FREE" \/ Busy(p) THEN aborted
                      ELSE [aborted EXCEPT ![p] = @ + 1]
        /\ healed' = {q \in healed \ {p} : p \notin view[q]}
        /\ UNCHANGED <<pos, view, timer, slock, shown, lives, failed, alone>>

Tell(w) ==
    LET o == First(w)
    IN  /\ At(w, "tell") /\ slock[o] = 0
        /\ slock' = IF state[o] = "INGAME" THEN [slock EXCEPT ![o] = w] ELSE slock
        /\ Go(w, IF state[o] = "INGAME"
                 THEN << <<"remove", o, Second(w)>>, <<"unlock", o, o>> >> ELSE <<>>)
        /\ UNCHANGED <<state, pos, view, timer, shown, faults, history>>

-----------------------------------------------------------------------------
Start(w) ==
    \/ \E p \in Players : Accept(w, p) \/ Login(w, p) \/ Move(w, p)
                             \/ Quit(w, p) \/ Abort(w, p)
    \/ \E n \in Npcs : NpcTurn(w, n)

Work(w) ==
    \/ Place(w) \/ Enter(w) \/ Visit(w) \/ Unlock(w)
    \/ Step(w) \/ Copy(w) \/ Look(w) \/ Sort(w)
    \/ Insert(w) \/ Erase(w) \/ Meet(w) \/ Part(w) \/ Wake(w)
    \/ Deliver(w) \/ SendFails(w) \/ Free(w) \/ Tell(w) \/ Finish(w)

Next == \E w \in Workers : Start(w) \/ Work(w)

Spec == Init /\ [][Next]_vars

-----------------------------------------------------------------------------
AtRest == \A w \in Workers : task[w] = Idle

InGame == {p \in Players : state[p] = "INGAME"}

TypeOK ==
    /\ state \in [Objects -> {"FREE", "CONNECTED", "INGAME"}]
    /\ pos \in [Objects -> World]
    /\ view \in [Players -> SUBSET Objects]
    /\ shown \in [Players -> SUBSET Objects]
    /\ active \in [Npcs -> BOOLEAN]
    /\ due \in [Npcs -> Nat]
    /\ slock \in [Objects -> Workers \cup {0}]
    /\ lives \in [Players -> 0..Lives]
    /\ aborted \in [Players -> 0..Lives]
    /\ failed \in 0..Failures
    /\ \A w \in Workers :
          /\ task[w].op \in {"idle", "login", "move", "quit", "abort", "npc"}
          /\ task[w].id \in Objects \cup {0}
          /\ task[w].old \cup task[w].new \subseteq Objects
    /\ healed \subseteq Players /\ alone \in BOOLEAN

(* The slot's first client is gone; disconnect leaves it in the lists of   *)
(* the others, and its own list to the slot's next client.                 *)
GivenUp(o) == o \in Players /\ (lives[o] > 1 \/ (lives[o] = 1 /\ state[o] = "FREE"))

(* do_move, do_npc_random_move, login and disconnect between them keep the *)
(* lists: when the handlers run one after the other, each player in the    *)
(* game lists what it sees, and nothing else but slots that were given up; *)
(* the first client of a slot never inherits a list.                       *)
ListIsSight ==
    AtRest => \A p \in InGame :
        /\ Sight(p) \subseteq view[p]
        /\ ~GivenUp(p) => \A o \in view[p] \ Sight(p) : GivenUp(o)

(* ... and its client shows only what it sees, and all of it, but perhaps  *)
(* what a list that outlived its client names already.                     *)
ClientShowsSight ==
    AtRest => \A p \in InGame :
        /\ shown[p] \subseteq Sight(p)
        /\ ~GivenUp(p) => \A o \in Sight(p) \ shown[p] : GivenUp(o)

(* The first client of a slot is never told of a move of an object that it *)
(* does not show, unless that object's slot was given up.                  *)
MovesAreOfShown ==
    \A w \in Workers :
        At(w, "move") /\ ~GivenUp(First(w)) /\ ~GivenUp(Second(w))
            => Second(w) \in shown[First(w)]

(* Overlapping handlers leave wrong lists behind, and a move that no other *)
(* handler overlaps repairs its player's: from then on, until handlers     *)
(* overlap again, the player's list is its sight, and it is in the lists   *)
(* of the players it sees.                                                 *)
MovesRepair ==
    AtRest => \A p \in healed :
        /\ view[p] = Sight(p)
        /\ \A q \in Sight(p) \cap Players : p \in view[q]

(* wake_up_npc, OP_RANDO_MOVE: an NPC that was seen once has exactly one   *)
(* turn outstanding or running; so no two workers ever move it at once.    *)
OneTurnPerNpc ==
    \A n \in Npcs :
        due[n] + Cardinality({w \in Workers : task[w].op = "npc" /\ task[w].id = n})
            = IF active[n] THEN 1 ELSE 0

(* The lock a worker waits for; 0 if it does not wait.                     *)
WaitsFor(w) ==
    IF At(w, "place") \/ At(w, "free") \/ At(w, "tell") THEN slock[First(w)]
    ELSE IF At(w, "visit") THEN slock[Second(w)] ELSE 0

(* The m_slocks: workers that wait for each other include two logins, each *)
(* in the midst of its visits, or a worker that waits for itself, in the   *)
(* disconnect of a failed send under a lock - a send that failed, or one   *)
(* to a client that the second disconnect for its slot's last client met.  *)
OnlyLoginsDeadlock ==
    \A S \in (SUBSET Workers) \ {{}} :
        (\A w \in S : WaitsFor(w) \in S)
            => \/ \E w, u \in S : w # u /\ {task[w].op, task[u].op} = {"login"}
               \/ /\ failed > 0 \/ \E p \in Players : lives[p] > 1
                  /\ \E w \in S : WaitsFor(w) = w /\ At(w, "free")
=============================================================================
