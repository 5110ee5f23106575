------------------------------ MODULE EventLoop ------------------------------
(***************************************************************************)
(* The event loop of the final server: the timer queue, the timer thread,  *)
(* the I/O completion port and the worker threads that dispatch on the     *)
(* event type, with everything the handlers do to the NPC flags isActive   *)
(* and isAlive and to the events in flight.                                *)
(*                                                                         *)
(*   timer      SR::g_timer_queue, a bag of EVENTs (under g_timer_lock)    *)
(*   popped     proc_ev, the event the timer thread holds between pop and  *)
(*              PostQueuedCompletionStatus                                 *)
(*   iocp       the completion packets posted to SR::g_iocp                *)
(*   job, pc    the completion a worker handles and where it stands in it  *)
(*   todo, npc  the NPCs left in the handler's loop, and the current one   *)
(*   batch      the number of messages left in World::m_copiedRecvMsgs     *)
(*   isActive, isAlive   the CLIENT flags of each NPC                      *)
(*   luaLock    the holder of CLIENT::lua_lock of each NPC                 *)
(*   rewards    how often experience was paid out for an NPC               *)
(*   ended      a worker has dereferenced a null pointer or failed an      *)
(*              assertion, and all the threads have stopped                *)
(*                                                                         *)
(* Time is abstracted: any pending event may be the next one that is due.  *)
(* That the earliest event goes first, and that completion packets are     *)
(* dequeued in order, shows only in the fairness of Spec.                  *)
(***************************************************************************)
EXTENDS Integers

CONSTANTS
    Workers,      \* the worker threads (WORKER_THREAD_NUM of them)
    Npcs,         \* the NPC ids NPC_ID_START .. MAX_USER - 1
    EVENT_KEY,    \* the completion key of the events that belong to no object
    Player,       \* the completion key of a client that logs in
    None,         \* no NPC, no thread, no event
    MaxBatch,     \* bound: messages handled by one World::Update
    MaxPending    \* bound: copies told apart of an event that leaves no trace
                  \* (with 0 such events are left out)

ASSUME EventLoopAssumption ==
    /\ EVENT_KEY \notin Npcs
    /\ Player \notin Npcs
    /\ None \notin Npcs \cup Workers
    /\ MaxBatch \in Nat
    /\ MaxPending \in Nat

-----------------------------------------------------------------------------
(* EVENT and the completion packets made of it *)
Update        == [id |-> EVENT_KEY, et |-> "EV_UPDATE"]
FlushMsg      == [id |-> EVENT_KEY, et |-> "EV_FLUSH_MSG"]
RandomMove(n) == [id |-> n,         et |-> "EV_RANDOM_MOVE"]
MoveNotify(n) == [id |-> n,         et |-> "EV_PLAYER_MOVE_NOTIFY"]
LoginPacket   == [id |-> Player,    et |-> "EV_RECV"]
NoEvent       == [id |-> None,      et |-> "EV_TYPE_COUNT"]

Events == {Update, FlushMsg} \cup {RandomMove(n) : n \in Npcs}
                             \cup {MoveNotify(n) : n \in Npcs}

(* The handlers of these two leave the state as they found it, so that the *)
(* bags need not tell more than MaxPending copies of one of them apart.    *)
Traceless(e) == e.et \in {"EV_FLUSH_MSG", "EV_PLAYER_MOVE_NOTIFY"}

Put(bag, e) == IF Traceless(e) /\ bag[e] >= MaxPending
               THEN bag
               ELSE [bag EXCEPT ![e] = @ + 1]

Pcs == {"gqcs", "dispatch", "proc", "wake", "woke", "arm", "notify",
        "attack", "killed", "unlive", "unactive", "flush", "rearm", "lua"}

VARIABLES timer, popped, iocp, pc, job, todo, npc, batch,
          isActive, isAlive, luaLock, rewards, ended

queues == <<timer, popped, iocp>>
flags  == <<isActive, isAlive>>
vars   == <<timer, popped, iocp, pc, job, todo, npc, batch,
            isActive, isAlive, luaLock, rewards, ended>>

(* main: the World constructor arms the one EV_UPDATE, InitNPC sets the     *)
(* flags of every NPC, and only then are the threads created.               *)
Init ==
    /\ timer    = [e \in Events |-> IF e = Update THEN 1 ELSE 0]
    /\ popped   = NoEvent
    /\ iocp     = [e \in Events |-> 0]
    /\ pc       = [w \in Workers |-> "gqcs"]
    /\ job      = [w \in Workers |-> NoEvent]
    /\ todo     = [w \in Workers |-> {}]
    /\ npc      = [w \in Workers |-> None]
    /\ batch    = 0
    /\ isActive = [n \in Npcs |-> FALSE]
    /\ isAlive  = [n \in Npcs |-> TRUE]
    /\ luaLock  = [n \in Npcs |-> None]
    /\ rewards  = [n \in Npcs |-> 0]
    /\ ended    = FALSE

(* What every step of a thread goes by: the process is still there. *)
Running == ~ended /\ UNCHANGED ended

AddTimer(e) == timer' = Put(timer, e)

(* Worker w goes on at label l with the NPCs of S left in its loop. *)
Goto(w, l, S) ==
    /\ pc'   = [pc EXCEPT ![w] = l]
    /\ todo' = [todo EXCEPT ![w] = S]
    /\ npc'  = [npc EXCEPT ![w] = None]

(* The loop of worker w stops at NPC n, at label l. *)
At(w, l, n) ==
    /\ pc'  = [pc EXCEPT ![w] = l]
    /\ npc' = [npc EXCEPT ![w] = n]
    /\ UNCHANGED todo

(* delete ex_over, and back to GetQueuedCompletionStatus *)
Finish(w) ==
    /\ Goto(w, "gqcs", {})
    /\ job' = [job EXCEPT ![w] = NoEvent]

-----------------------------------------------------------------------------
(* Slips. Each operator below is an action of this module as a plausible   *)
(* mistake in the code would have it; put in the place of the action it    *)
(* breaks the property named with it. No specification uses them.          *)

(* OneTick, NoConcurrentUpdate: the next EV_UPDATE is armed as soon as     *)
(* World::Update begins, to keep the frame rate.                           *)
SlipUpdateBegin(w) ==
    /\ pc[w] = "dispatch" /\ job[w] = Update
    /\ batch' \in 0..MaxBatch
    /\ AddTimer(Update)
    /\ Goto(w, "proc", {})
    /\ UNCHANGED <<popped, iocp, job, flags, luaLock, rewards>>

(* WorldKeepsUpdating: the end of World::Update does not arm the next. *)
SlipUpdateRearm(w) ==
    /\ pc[w] = "proc" /\ batch = 0
    /\ Goto(w, "flush", {})
    /\ UNCHANGED <<queues, job, batch, flags, luaLock, rewards>>

(* OneChainPerNpc: the kill resets isActive but forgets isAlive. *)
SlipAttackUnlive(w) ==
    /\ pc[w] = "unlive"
    /\ At(w, "unactive", npc[w])
    /\ UNCHANGED <<queues, job, batch, flags, luaLock, rewards>>

(* LifeSpec, LifeSafety: wake_up_npc does not look at isAlive. *)
SlipWakeAlive(w) ==
    /\ pc[w] = "woke"
    /\ At(w, "arm", npc[w])
    /\ UNCHANGED <<queues, job, batch, flags, luaLock, rewards>>

(* AwakeNpcHasChain: an NPC that chases a player returns too early. *)
SlipRandomMoveNpc(w) ==
    /\ pc[w] = "dispatch"
    /\ \E n \in Npcs :
         /\ job[w] = RandomMove(n)
         /\ \/ Goto(w, "wake", Npcs) /\ isAlive[n] /\ UNCHANGED job
            \/ Finish(w)
    /\ UNCHANGED <<queues, batch, flags, luaLock, rewards>>

(* NpcKeepsMoving: the event of the next move is not armed. *)
SlipRandomMoveRearm(w) ==
    /\ pc[w] = "rearm"
    /\ Finish(w)
    /\ UNCHANGED <<queues, batch, flags, luaLock, rewards>>

(* RewardedOnce: the test of isAlive is left out. *)
SlipAttackReward(w) ==
    /\ pc[w] = "killed"
    /\ rewards' = [rewards EXCEPT ![npc[w]] = @ + 1]
    /\ At(w, "unlive", npc[w])
    /\ UNCHANGED <<queues, job, batch, flags, luaLock>>

-----------------------------------------------------------------------------
(* TimerThread::ProcThread: pop a due event under g_timer_lock, post it.   *)
TimerPop(e) ==
    /\ Running
    /\ popped = NoEvent
    /\ timer[e] > 0
    /\ timer'  = [timer EXCEPT ![e] = @ - 1]
    /\ popped' = e
    /\ UNCHANGED <<iocp, pc, job, todo, npc, batch, flags, luaLock, rewards>>

TimerPost ==
    /\ Running
    /\ popped # NoEvent
    /\ iocp'   = Put(iocp, popped)
    /\ popped' = NoEvent
    /\ UNCHANGED <<timer, pc, job, todo, npc, batch, flags, luaLock, rewards>>

-----------------------------------------------------------------------------
(* WorkerThread::ProcThread: take a completion packet, switch on its type. *)
GetQueuedCompletionStatus(w, e) ==
    /\ Running
    /\ pc[w] = "gqcs"
    /\ iocp[e] > 0
    /\ iocp' = [iocp EXCEPT ![e] = @ - 1]
    /\ job'  = [job EXCEPT ![w] = e]
    /\ pc'   = [pc EXCEPT ![w] = "dispatch"]
    /\ UNCHANGED <<timer, popped, todo, npc, batch, flags, luaLock, rewards>>

(* A client sends CS_LOGIN: ProcPacket wakes the NPCs near the new player. *)
RecvLogin(w) ==
    /\ Running
    /\ pc[w] = "gqcs"
    /\ job' = [job EXCEPT ![w] = LoginPacket]
    /\ \E near \in SUBSET Npcs : Goto(w, "wake", near)
    /\ UNCHANGED <<queues, batch, flags, luaLock, rewards>>

(* EV_UPDATE: World::Update begins with CopyRecvMsg. *)
UpdateBegin(w) ==
    /\ pc[w] = "dispatch" /\ job[w] = Update
    /\ batch' \in 0..MaxBatch
    /\ Goto(w, "proc", {})
    /\ UNCHANGED <<queues, job, flags, luaLock, rewards>>

(* ProcMsg, CS_MOVE: Player::move calls wake_up_npc for every NPC, if      *)
(* the client is there and the direction one of four (see ProcessEnds).    *)
ProcMove(w) ==
    /\ pc[w] = "proc" /\ batch > 0
    /\ batch' = batch - 1
    /\ Goto(w, "wake", Npcs)
    /\ UNCHANGED <<queues, job, flags, luaLock, rewards>>

(* The end of Player::move of a player: an EV_PLAYER_MOVE_NOTIFY for every *)
(* NPC of the new view list.                                               *)
NotifyNpcs(w) ==
    /\ pc[w] = "notify"
    /\ \E seen \in SUBSET Npcs :
         timer' = [e \in Events |->
                     IF \E n \in seen : e = MoveNotify(n)
                     THEN Put(timer, e)[e] ELSE timer[e]]
    /\ Goto(w, "proc", {})
    /\ UNCHANGED <<popped, iocp, job, batch, flags, luaLock, rewards>>

(* ProcMsg, CS_ATTACK: Player::attack goes through the NPCs in its range,  *)
(* if there is a player (see ProcessEnds).                                 *)
ProcAttack(w) ==
    /\ pc[w] = "proc" /\ batch > 0
    /\ batch' = batch - 1
    /\ \E inRange \in SUBSET Npcs : Goto(w, "attack", inRange)
    /\ UNCHANGED <<queues, job, flags, luaLock, rewards>>

(* The blow leaves the NPC with some hit points, or with less than zero;   *)
(* then isActive decides whether this is a kill.                           *)
AttackHit(w) ==
    /\ pc[w] = "attack"
    /\ \E n \in todo[w] :
         \/ Goto(w, "attack", todo[w] \ {n})
         \/ isActive[n] /\ At(w, "killed", n)
    /\ UNCHANGED <<queues, job, batch, flags, luaLock, rewards>>

(* Experience, once: only for an NPC that is still alive. *)
AttackReward(w) ==
    /\ pc[w] = "killed"
    /\ rewards' = IF isAlive[npc[w]]
                  THEN [rewards EXCEPT ![npc[w]] = @ + 1]
                  ELSE rewards
    /\ At(w, "unlive", npc[w])
    /\ UNCHANGED <<queues, job, batch, flags, luaLock>>

(* n->isAlive = false; *)
AttackUnlive(w) ==
    /\ pc[w] = "unlive"
    /\ isAlive' = [isAlive EXCEPT ![npc[w]] = FALSE]
    /\ At(w, "unactive", npc[w])
    /\ UNCHANGED <<queues, job, batch, isActive, luaLock, rewards>>

(* n->isActive = false; *)
AttackUnactive(w) ==
    /\ pc[w] = "unactive"
    /\ isActive' = [isActive EXCEPT ![npc[w]] = FALSE]
    /\ Goto(w, "attack", todo[w] \ {npc[w]})
    /\ UNCHANGED <<queues, job, batch, isAlive, luaLock, rewards>>

AttackEnd(w) ==
    /\ pc[w] = "attack" /\ todo[w] = {}
    /\ Goto(w, "proc", {})
    /\ UNCHANGED <<queues, job, batch, flags, luaLock, rewards>>

(* The tail of World::Update: AddTimer(EV_UPDATE), then AddTimer(EV_FLUSH_MSG). *)
UpdateRearm(w) ==
    /\ pc[w] = "proc" /\ batch = 0
    /\ AddTimer(Update)
    /\ Goto(w, "flush", {})
    /\ UNCHANGED <<popped, iocp, job, batch, flags, luaLock, rewards>>

UpdateFlush(w) ==
    /\ pc[w] = "flush"
    /\ AddTimer(FlushMsg)
    /\ Finish(w)
    /\ UNCHANGED <<popped, iocp, batch, flags, luaLock, rewards>>

(* EV_FLUSH_MSG: nothing in the server calls PushSendMsg, so that          *)
(* FlushSendMsg finds its queue empty.                                     *)
FlushSendMsg(w) ==
    /\ pc[w] = "dispatch" /\ job[w] = FlushMsg
    /\ Finish(w)
    /\ UNCHANGED <<queues, batch, flags, luaLock, rewards>>

-----------------------------------------------------------------------------
(* World::wake_up_npc for each NPC of todo[w]: the compare-exchange ...    *)
WakeCas(w) ==
    /\ pc[w] = "wake"
    /\ \E n \in todo[w] :
         \/ /\ isActive[n]
            /\ Goto(w, "wake", todo[w] \ {n})
            /\ UNCHANGED isActive
         \/ /\ ~isActive[n]
            /\ At(w, "woke", n)
            /\ isActive' = [isActive EXCEPT ![n] = TRUE]
    /\ UNCHANGED <<queues, job, batch, isAlive, luaLock, rewards>>

(* ... the test of isAlive, after && ... *)
WakeAlive(w) ==
    /\ pc[w] = "woke"
    /\ IF isAlive[npc[w]]
       THEN At(w, "arm", npc[w])
       ELSE Goto(w, "wake", todo[w] \ {npc[w]})
    /\ UNCHANGED <<queues, job, batch, flags, luaLock, rewards>>

(* ... and AddTimer(EV_RANDOM_MOVE). *)
WakeArm(w) ==
    /\ pc[w] = "arm"
    /\ AddTimer(RandomMove(npc[w]))
    /\ Goto(w, "wake", todo[w] \ {npc[w]})
    /\ UNCHANGED <<popped, iocp, job, batch, flags, luaLock, rewards>>

(* The loop is done: where it goes on depends on who called it. *)
WakeEnd(w) ==
    /\ pc[w] = "wake" /\ todo[w] = {}
    /\ \/ job[w] = LoginPacket /\ Finish(w)
       \/ job[w] = Update /\ Goto(w, "notify", {}) /\ UNCHANGED job
       \/ /\ \E n \in Npcs : job[w] = RandomMove(n)
          /\ Goto(w, "rearm", {}) /\ UNCHANGED job
    /\ UNCHANGED <<queues, batch, flags, luaLock, rewards>>

-----------------------------------------------------------------------------
(* EV_RANDOM_MOVE: a live NPC moves; an idle one through Player::move,     *)
(* which wakes every NPC, one that chases a player without it. A dead NPC  *)
(* drops the event.                                                        *)
RandomMoveNpc(w) ==
    /\ pc[w] = "dispatch"
    /\ \E n \in Npcs :
         /\ job[w] = RandomMove(n)
         /\ IF isAlive[n]
            THEN /\ \/ Goto(w, "wake", Npcs)
                    \/ Goto(w, "rearm", {})
                 /\ UNCHANGED job
            ELSE Finish(w)
    /\ UNCHANGED <<queues, batch, flags, luaLock, rewards>>

RandomMoveRearm(w) ==
    /\ pc[w] = "rearm"
    /\ AddTimer(job[w])
    /\ Finish(w)
    /\ UNCHANGED <<popped, iocp, batch, flags, luaLock, rewards>>

(* EV_PLAYER_MOVE_NOTIFY: call event_player_move under the NPC's lua_lock. *)
LuaLock(w) ==
    /\ pc[w] = "dispatch"
    /\ \E n \in Npcs :
         /\ job[w] = MoveNotify(n)
         /\ luaLock[n] = None
         /\ luaLock' = [luaLock EXCEPT ![n] = w]
         /\ At(w, "lua", n)
    /\ UNCHANGED <<queues, job, batch, flags, rewards>>

LuaCall(w) ==
    /\ pc[w] = "lua"
    /\ luaLock' = [luaLock EXCEPT ![npc[w]] = None]
    /\ Finish(w)
    /\ UNCHANGED <<queues, batch, flags, rewards>>

-----------------------------------------------------------------------------
(* One step of the handler a worker is in. *)
Handle(w) ==
    /\ Running
    /\ \/ UpdateBegin(w)   \/ ProcMove(w)       \/ NotifyNpcs(w)
       \/ ProcAttack(w)    \/ AttackHit(w)      \/ AttackReward(w)
       \/ AttackUnlive(w)  \/ AttackUnactive(w) \/ AttackEnd(w)
       \/ UpdateRearm(w)   \/ UpdateFlush(w)    \/ FlushSendMsg(w)
       \/ WakeCas(w)       \/ WakeAlive(w)      \/ WakeArm(w) \/ WakeEnd(w)
       \/ RandomMoveNpc(w) \/ RandomMoveRearm(w)
       \/ LuaLock(w)       \/ LuaCall(w)

(* A worker reads the player of a client that is not there. ProcMsg takes  *)
(* g_users[id]->cur of a request whose client was disconnected since (a    *)
(* null pointer), or has logged out (m_id is -1, and Player::move reads    *)
(* g_users[-1]); it also asserts that the direction is one of four. The    *)
(* loops over the clients (World::Update, login, Player::move, the NPC's   *)
(* turn) test isConnect before they take cur, and a disconnect may come in *)
(* between. A worker back at the port may meet the same in a packet or a   *)
(* completion of a client, which Sessions models. Clients are no part of   *)
(* this module: each of these steps may end the process, or go well.       *)
DerefsClient(w) ==
    \/ pc[w] = "gqcs"
    \/ pc[w] \in {"proc", "wake", "attack"}
    \/ pc[w] = "dispatch" /\ \E n \in Npcs : job[w] = RandomMove(n)

ProcessEnds(w) ==
    /\ ~ended
    /\ DerefsClient(w)
    /\ ended' = TRUE
    /\ UNCHANGED <<queues, pc, job, todo, npc, batch, flags, luaLock, rewards>>

Ended == ended /\ UNCHANGED vars

Next ==
    \/ \E e \in Events : TimerPop(e)
    \/ TimerPost
    \/ \E w \in Workers, e \in Events : GetQueuedCompletionStatus(w, e)
    \/ \E w \in Workers : RecvLogin(w)
    \/ \E w \in Workers : Handle(w) \/ ProcessEnds(w)
    \/ Ended

(* A thread in the middle of its work goes on. The timer queue is ordered  *)
(* by due time and every event is due after a bounded delay, so that none  *)
(* is passed over for ever; the port hands its packets out in order, so    *)
(* that none is passed over by the workers that come back to it. Fairness  *)
(* towards the events that keep something going is all that is needed.     *)
Recurring == {Update} \cup {RandomMove(n) : n \in Npcs}

Fairness ==
    /\ WF_vars(TimerPost)
    /\ \A w \in Workers : WF_vars(Handle(w))
    /\ \A e \in Recurring :
         /\ SF_vars(TimerPop(e))
         /\ SF_vars(\E w \in Workers : GetQueuedCompletionStatus(w, e))

Spec     == Init /\ [][Next]_vars
FairSpec == Spec /\ Fairness
-----------------------------------------------------------------------------
TypeOK ==
    /\ timer    \in [Events -> Nat]
    /\ popped   \in Events \cup {NoEvent}
    /\ iocp     \in [Events -> Nat]
    /\ pc       \in [Workers -> Pcs]
    /\ job      \in [Workers -> Events \cup {NoEvent, LoginPacket}]
    /\ todo     \in [Workers -> SUBSET Npcs]
    /\ npc      \in [Workers -> Npcs \cup {None}]
    /\ batch    \in Nat
    /\ isActive \in [Npcs -> BOOLEAN]
    /\ isAlive  \in [Npcs -> BOOLEAN]
    /\ luaLock  \in [Npcs -> Workers \cup {None}]
    /\ rewards  \in [Npcs -> Nat]
    /\ ended    \in BOOLEAN

(* Who holds an event that is in none of the queues: the worker that runs  *)
(* World::Update until it has armed the next one, the worker that moves an *)
(* NPC, and the worker that has won the compare-exchange and found the NPC *)
(* alive but has not called AddTimer yet.                                  *)
Updates(w)  == job[w] = Update /\ pc[w] # "flush"
Moves(w, n) == job[w] = RandomMove(n)
Wakes(w, n) == pc[w] = "woke" /\ npc[w] = n
Arms(w, n)  == pc[w] = "arm" /\ npc[w] = n

One(b)      == IF b THEN 1 ELSE 0
InQueues(e) == timer[e] + One(popped = e) + iocp[e]
Ticks       == InQueues(Update) + One(\E w \in Workers : Updates(w))
Chains(n)   == InQueues(RandomMove(n))
                 + One(\E w \in Workers : Moves(w, n))
                 + One(\E w \in Workers : Arms(w, n))

(* World::Update has no lock of its own and works on m_copiedRecvMsgs and  *)
(* on every player: it never runs on two workers at a time.                *)
NoConcurrentUpdate ==
    \A v, w \in Workers : Updates(v) /\ Updates(w) => v = w

(* The one EV_UPDATE that the World constructor arms is never lost and     *)
(* never doubled, wherever the timer thread and the workers carry it.      *)
OneTick == Ticks = 1

(* However many workers call wake_up_npc, and even when the NPC is killed  *)
(* meanwhile and its isActive reset, an NPC never has two EV_RANDOM_MOVE   *)
(* chains (it would move at twice its speed, on two workers at a time).    *)
OneChainPerNpc ==
    \A n \in Npcs :
      /\ Chains(n) <= 1
      /\ \A v, w \in Workers : Moves(v, n) /\ Moves(w, n) => v = w
      /\ \A v, w \in Workers : Arms(v, n) /\ Arms(w, n) => v = w

(* A live NPC marked active has its chain, or a worker about to start it:  *)
(* otherwise wake_up_npc would turn away every later call, and the NPC     *)
(* would stand still for ever.                                             *)
AwakeNpcHasChain ==
    \A n \in Npcs :
      isAlive[n] /\ isActive[n] =>
        Chains(n) = 1 \/ \E w \in Workers : Wakes(w, n)

(* Player::attack pays the experience of an NPC out once, although it      *)
(* tests and clears isAlive without a lock and a dead NPC can be marked    *)
(* active, and be struck dead, again.                                      *)
RewardedOnce == \A n \in Npcs : rewards[n] <= 1

(* A lua_State is not thread safe: one worker at a time calls an NPC's.    *)
LuaExclusive ==
    \A v, w \in Workers :
      pc[v] = "lua" /\ pc[w] = "lua" /\ npc[v] = npc[w] => v = w

(* World::Update runs again and again while the process lives: nothing     *)
(* that the workers and the timer thread do between them loses the tick.   *)
(* What ends the process is said at ProcessEnds; a request whose client    *)
(* has gone or that carries a bad direction is enough.                     *)
WorldKeepsUpdating ==
    <>ended \/ []<><<\E w \in Workers : UpdateRearm(w)>>_vars

(* An active NPC moves again and again, until it is killed or the process  *)
(* ends.                                                                   *)
NpcKeepsMoving ==
    \A n \in Npcs :
      isActive[n] /\ isAlive[n]
        ~> \/ ~isAlive[n] \/ ended
           \/ \E w \in Workers : Moves(w, n) /\ pc[w] = "rearm"

(* The life of an NPC as NpcLife tells it: awake is having a chain. *)
Life == INSTANCE NpcLife
            WITH alive <- isAlive, awake <- [n \in Npcs |-> Chains(n) > 0]

(* No NPC is woken twice or after its death, and a live one never drops    *)
(* out of its chain: the step-by-step part of NpcLife.                     *)
LifeSafety == Life!SafeSpec

(* ... and the chain of a killed NPC dies out, if the process lives. *)
LifeSpec == Life!SafeSpec /\ (<>ended \/ Life!Fairness)
=============================================================================
