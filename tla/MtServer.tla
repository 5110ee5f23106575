-------------------------------- MODULE MtServer --------------------------------
(***************************************************************************)
(* The multithreaded server (4_mt_iocp_server): its workers accept, log    *)
(* in, move and disconnect players, each of whom sees all the others.      *)
(*                                                                         *)
(* What a worker's handler still has to do is task[w].todo, instructions   *)
(* <<operation, slot, slot>> with one access each to what workers share.   *)
(*                                                                         *)
(*   m_state   of each slot                                                *)
(*   open      its m_socket is open                                        *)
(*   owner     the worker that holds the slot's m_s_lock, or 0             *)
(*   shown     what the client of a slot shows: players added and not      *)
(*             removed by the messages sent to it                          *)
(*   lives     accepts of a slot (bounded), which tell its clients apart   *)
(*   aborted   receives of a closed socket not yet reported                *)
(*                                                                         *)
(* Left out: names, positions and the receive loop (InPlaceStream). To     *)
(* lock an m_s_lock that one holds is undefined: the worker waits for      *)
(* itself here; that the process ends instead is what all of this becomes  *)
(* by stopping there.                                                      *)
(***************************************************************************)
EXTENDS Integers, FiniteSets, Sequences

CONSTANTS MAX_USER, Workers,
          MaxClients,   \* clients at once
          Lives         \* accepts of one slot

Slots == 1..MAX_USER

MtServerAssumption ==
    /\ MAX_USER \in Nat \ {0} /\ MaxClients \in 0..MAX_USER /\ Lives \in Nat
    /\ IsFiniteSet(Workers) /\ 0 \notin Workers

VARIABLES m_state, open, owner, shown, lives, aborted, task

vars == <<m_state, open, owner, shown, lives, aborted, task>>

Idle == [op |-> "idle", id |-> 0, life |-> 0, todo |-> <<>>]

Init ==
    /\ m_state = [i \in Slots |-> "FREE"]
    /\ open = [i \in Slots |-> FALSE]
    /\ owner = [i \in Slots |-> 0]
    /\ shown = [i \in Slots |-> {}]
    /\ lives = [i \in Slots |-> 0]
    /\ aborted = [i \in Slots |-> 0]
    /\ task = [w \in Workers |-> Idle]

(* main numbers players[0] to players[MAX_USER - 1]; the last keeps 0. *)
m_id(i) == IF i < MAX_USER THEN i ELSE 0

(* The slots whose m_id is not p, in the order of the array. *)
Others(p) ==
    IF p < MAX_USER THEN [k \in 1..(MAX_USER - 1) |-> IF k < p THEN k ELSE k + 1]
                    ELSE [k \in Slots |-> k]

-----------------------------------------------------------------------------
(* Slip (EveryoneShown): the player is in the game after its loop. *)
SlipLoginProgram(p) ==
    << <<"lock", p, p>> >>
       \o [k \in DOMAIN Others(p) |-> <<"look", p, Others(p)[k]>>]
       \o << <<"enter", p, p>>, <<"unlock", p, p>>, <<"done", p, p>> >>

(* CS_LOGIN, under the m_s_lock of the player's slot. *)
LoginProgram(p) ==
    << <<"lock", p, p>>, <<"enter", p, p>> >>
       \o [k \in DOMAIN Others(p) |-> <<"look", p, Others(p)[k]>>]
       \o << <<"unlock", p, p>>, <<"done", p, p>> >>

GreetProgram(p, i) ==
    << <<"add", p, m_id(i)>>, <<"add", m_id(i), p>>, <<"unlock", i, i>> >>

MoveProgram(p) ==
    [i \in Slots |-> <<"tellMove", i, p>>] \o << <<"done", p, p>> >>

DisconnectProgram(p) ==
    << <<"lock", p, p>>, <<"free", p, p>> >>
       \o [k \in DOMAIN Others(p) |-> <<"tell", Others(p)[k], p>>]

-----------------------------------------------------------------------------
Busy(p) == \E w \in Workers : /\ task[w].op \in {"login", "move", "quit"}
                              /\ task[w].id = p /\ task[w].life = lives[p]

Begin(w, op, p, todo) ==
    /\ task[w] = Idle
    /\ task' = [task EXCEPT ![w] = [op |-> op, id |-> p, life |-> lives[p], todo |-> todo]]

At(w, op) == task[w].todo # <<>> /\ Head(task[w].todo)[1] = op
First(w) == Head(task[w].todo)[2]
Second(w) == Head(task[w].todo)[3]
Go(w, more) == task' = [task EXCEPT ![w].todo = more \o Tail(@)]

(* OP_ACCEPT: get_new_player_id takes the first free slot; the one         *)
(* AcceptEx is issued again after, so that no two workers accept at once.  *)
Accept(w, p) ==
    /\ task[w] = Idle
    /\ m_state[p] = "FREE" /\ lives[p] < Lives
    /\ Cardinality({i \in Slots : m_state[i] # "FREE"}) < MaxClients
    /\ \A i \in 1..p : owner[i] = 0 /\ (i < p => m_state[i] # "FREE")
    /\ m_state' = [m_state EXCEPT ![p] = "CONNECTED"]
    /\ open' = [open EXCEPT ![p] = TRUE]
    /\ lives' = [lives EXCEPT ![p] = @ + 1]
    /\ shown' = [shown EXCEPT ![p] = {}]
    /\ UNCHANGED <<owner, aborted, task>>

(* OP_RECV: a client has one receive open and sends its login first. *)
Login(w, p) ==
    /\ m_state[p] = "CONNECTED" /\ open[p] /\ ~Busy(p)
    /\ Begin(w, "login", p, LoginProgram(p))
    /\ UNCHANGED <<m_state, open, owner, shown, lives, aborted>>

Move(w, p) ==
    /\ m_state[p] = "INGAME" /\ open[p] /\ ~Busy(p)
    /\ Begin(w, "move", p, MoveProgram(p))
    /\ UNCHANGED <<m_state, open, owner, shown, lives, aborted>>

(* The connection ends: with 0 bytes, or with an error, after which the    *)
(* test for 0 bytes calls disconnect once more.                            *)
Quit(w, p) ==
    /\ open[p] /\ ~Busy(p)
    /\ \E error \in BOOLEAN :
          Begin(w, "quit", p, (IF error THEN DisconnectProgram(p) ELSE <<>>)
                                \o DisconnectProgram(p) \o << <<"done", p, p>> >>)
    /\ UNCHANGED <<m_state, open, owner, shown, lives, aborted>>

(* The same for the receive of a socket that disconnect has closed. *)
Abort(w, p) ==
    /\ aborted[p] > 0
    /\ aborted' = [aborted EXCEPT ![p] = @ - 1]
    /\ Begin(w, "abort", p, DisconnectProgram(p) \o DisconnectProgram(p)
                              \o << <<"done", p, p>> >>)
    /\ UNCHANGED <<m_state, open, owner, shown, lives>>

-----------------------------------------------------------------------------
Lock(w) ==
    /\ At(w, "lock") /\ owner[First(w)] = 0
    /\ owner' = [owner EXCEPT ![First(w)] = w]
    /\ Go(w, <<>>)
    /\ UNCHANGED <<m_state, open, shown, lives, aborted>>

Unlock(w) ==
    /\ At(w, "unlock")
    /\ owner' = [owner EXCEPT ![First(w)] = 0]
    /\ Go(w, <<>>)
    /\ UNCHANGED <<m_state, open, shown, lives, aborted>>

Enter(w) ==
    /\ At(w, "enter")
    /\ m_state' = [m_state EXCEPT ![First(w)] = "INGAME"]
    /\ Go(w, <<>>)
    /\ UNCHANGED <<open, owner, shown, lives, aborted>>

(* The login reads the state of a slot, waits for its m_s_lock if the      *)
(* player is in the game, and reads it again.                              *)
Look(w) ==
    /\ At(w, "look")
    /\ Go(w, IF m_state[Second(w)] = "INGAME"
             THEN << <<"visit", First(w), Second(w)>> >> ELSE <<>>)
    /\ UNCHANGED <<m_state, open, owner, shown, lives, aborted>>

Visit(w) ==
    LET i == Second(w)
        greets == m_state[i] = "INGAME"
    IN  /\ At(w, "visit") /\ owner[i] = 0
        /\ owner' = IF greets THEN [owner EXCEPT ![i] = w] ELSE owner
        /\ Go(w, IF greets THEN GreetProgram(First(w), i) ELSE <<>>)
        /\ UNCHANGED <<m_state, open, shown, lives, aborted>>

(* do_move and disconnect: each slot in the game is told under its lock.   *)
TellMove(w) ==
    /\ At(w, "tellMove") /\ owner[First(w)] = 0
    /\ Go(w, <<>>)
    /\ UNCHANGED <<m_state, open, owner, shown, lives, aborted>>

Tell(w) ==
    LET i == First(w)
        told == m_state[i] = "INGAME"
    IN  /\ At(w, "tell") /\ owner[i] = 0
        /\ owner' = IF told THEN [owner EXCEPT ![i] = w] ELSE owner
        /\ Go(w, IF told THEN << <<"remove", m_id(i), Second(w)>>, <<"unlock", i, i>> >>
                 ELSE <<>>)
        /\ UNCHANGED <<m_state, open, shown, lives, aborted>>

(* disconnect, under the slot's m_s_lock, whatever the slot's state is.    *)
Free(w) ==
    LET p == First(w)
    IN  /\ At(w, "free")
        /\ m_state' = [m_state EXCEPT ![p] = "FREE"]
        /\ open' = [open EXCEPT ![p] = FALSE]
        /\ owner' = [owner EXCEPT ![p] = 0]
        /\ aborted' = IF ~open[p] \/ Busy(p) THEN aborted
                      ELSE [aborted EXCEPT ![p] = @ + 1]
        /\ Go(w, <<>>)
        /\ UNCHANGED <<shown, lives>>

(* send_packet; what is sent to number 0 or a closed socket reaches nobody. *)
Send(w) ==
    LET to == First(w)
    IN  /\ At(w, "add") \/ At(w, "remove")
        /\ shown' = IF to = 0 \/ ~open[to] THEN shown
                    ELSE [shown EXCEPT ![to] = IF At(w, "add") THEN @ \cup {Second(w)}
                                               ELSE @ \ {Second(w)}]
        /\ Go(w, <<>>)
        /\ UNCHANGED <<m_state, open, owner, lives, aborted>>

Finish(w) ==
    /\ At(w, "done")
    /\ task' = [task EXCEPT ![w] = Idle]
    /\ UNCHANGED <<m_state, open, owner, shown, lives, aborted>>

-----------------------------------------------------------------------------
Start(w) ==
    \E p \in Slots : Accept(w, p) \/ Login(w, p) \/ Move(w, p) \/ Quit(w, p) \/ Abort(w, p)

Work(w) ==
    \/ Lock(w) \/ Unlock(w) \/ Enter(w) \/ Look(w) \/ Visit(w)
    \/ TellMove(w) \/ Tell(w) \/ Free(w) \/ Send(w) \/ Finish(w)

Next == \E w \in Workers : Start(w) \/ Work(w)

Spec == Init /\ [][Next]_vars

-----------------------------------------------------------------------------
AtRest == \A w \in Workers : task[w] = Idle

InGame == {p \in Slots : m_state[p] = "INGAME"}

TypeOK ==
    /\ m_state \in [Slots -> {"FREE", "CONNECTED", "INGAME"}]
    /\ open \in [Slots -> BOOLEAN]
    /\ owner \in [Slots -> Workers \cup {0}]
    /\ shown \in [Slots -> SUBSET (0..MAX_USER)]
    /\ lives \in [Slots -> 0..Lives]
    /\ aborted \in [Slots -> 0..Lives]
    /\ \A w \in Workers : task[w].id \in Slots \cup {0}

(* However logins and disconnects overlap, in the end a client in the game *)
(* shows nobody who has left, and every other client in the game - but     *)
(* perhaps one in a slot used before, which the removal of the slot's last *)
(* client may have overtaken: a login is in the game before it looks at    *)
(* the others, and a client is told only under its m_s_lock.               *)
EveryoneShown ==
    AtRest => \A p \in {i \in InGame : open[i]} :
        /\ shown[p] \subseteq InGame \ {p}
        /\ \A q \in InGame \ {p} : lives[q] = 1 => q \in shown[p]

(* The holder of the m_s_lock a worker waits for; 0 if it does not wait. *)
WaitsFor(w) ==
    IF At(w, "lock") \/ At(w, "tell") \/ At(w, "tellMove") THEN owner[First(w)]
    ELSE IF At(w, "visit") THEN owner[Second(w)] ELSE 0

(* Workers that wait for each other include two logins: all others hold    *)
(* one lock at a time.                                                     *)
OnlyLoginsDeadlock ==
    \A S \in (SUBSET Workers) \ {{}} :
        (\A w \in S : WaitsFor(w) \in S)
            => \E w, u \in S : w # u /\ {task[w].op, task[u].op} = {"login"}
=============================================================================
