--------------------------- MODULE EventLoopProofs ---------------------------
(***************************************************************************)
(* Proofs about EventLoop, for any number of worker threads and NPCs.      *)
(***************************************************************************)
EXTENDS EventLoop, TLAPS

(* The kinds of events do not overlap. *)
LEMMA EventsDistinct ==
    /\ Update \in Events /\ FlushMsg \in Events
    /\ \A n \in Npcs : RandomMove(n) \in Events /\ MoveNotify(n) \in Events
    /\ NoEvent \notin Events /\ LoginPacket \notin Events
    /\ NoEvent # LoginPacket
    /\ Update # FlushMsg
    /\ \A n \in Npcs : /\ RandomMove(n) # Update /\ RandomMove(n) # FlushMsg
                       /\ MoveNotify(n) # Update /\ MoveNotify(n) # FlushMsg
    /\ \A m, n \in Npcs : /\ RandomMove(m) # MoveNotify(n)
                          /\ RandomMove(m) = RandomMove(n) => m = n
  BY DEF Update, FlushMsg, RandomMove, MoveNotify, NoEvent, LoginPacket, Events

(* Put adds one copy of an event, or, of a traceless one, possibly none. *)
LEMMA PutType ==
    ASSUME NEW bag \in [Events -> Nat], NEW e \in Events
    PROVE  /\ Put(bag, e) \in [Events -> Nat]
           /\ ~Traceless(e) => Put(bag, e)[e] = bag[e] + 1
           /\ \A f \in Events : f # e => Put(bag, e)[f] = bag[f]
  BY DEF Put

LEMMA AddTimerOther ==
    ASSUME TypeOK, NEW e \in Events, AddTimer(e), NEW f \in Events, f # e
    PROVE  timer'[f] = timer[f]
  BY PutType DEF AddTimer, TypeOK

LEMMA Untraceable ==
    /\ ~Traceless(Update)
    /\ \A n \in Npcs : ~Traceless(RandomMove(n))
  BY DEF Traceless, Update, RandomMove
(* The end of the process moves nothing but ended. *)
Still == UNCHANGED <<timer, popped, iocp, pc, job, todo, npc, batch,
                     isActive, isAlive, luaLock, rewards>>

LEMMA EndIsStill ==
    ASSUME \/ \E w \in Workers : ProcessEnds(w)
           \/ Ended
           \/ UNCHANGED vars
    PROVE  Still
  BY DEF ProcessEnds, Ended, vars, Still, queues, flags
-----------------------------------------------------------------------------
(* Where a worker stands fixes what it handles, and at the steps that work *)
(* on one NPC there is one.                                                *)
PcOK ==
    \A w \in Workers :
      /\ pc[w] = "gqcs" => job[w] = NoEvent
      /\ pc[w] = "dispatch" => job[w] \in Events
      /\ pc[w] \in {"proc", "notify", "attack", "killed", "unlive",
                    "unactive", "flush"} => job[w] = Update
      /\ pc[w] \in {"wake", "woke", "arm"} =>
           \/ job[w] \in {Update, LoginPacket}
           \/ \E n \in Npcs : job[w] = RandomMove(n)
      /\ pc[w] = "rearm" => \E n \in Npcs : job[w] = RandomMove(n)
      /\ pc[w] = "lua" => \E n \in Npcs : job[w] = MoveNotify(n)
      /\ pc[w] \in {"killed", "unlive", "unactive", "woke", "arm", "lua"} =>
           npc[w] \in Npcs

TypeInv == TypeOK /\ PcOK

LEMMA TypeInit == Init => TypeInv
  <1> SUFFICES ASSUME Init PROVE TypeInv
    OBVIOUS
  <1>1. ended \in BOOLEAN
    BY Zenon DEF Init
  <1>2. TypeOK
    BY <1>1, EventsDistinct, EventLoopAssumption DEF Init, TypeOK, Pcs
  <1>3. PcOK
    BY DEF Init, PcOK
  <1> QED
    BY <1>2, <1>3 DEF TypeInv

(* Each step of the threads keeps the types and the positions. *)
LEMMA TypeNext == TypeInv /\ [Next]_vars => TypeInv'
  <1> SUFFICES ASSUME TypeInv, [Next]_vars PROVE TypeInv'
    OBVIOUS
  <1>0. ended' \in BOOLEAN
    <2>1. ended' = ended \/ ended' = TRUE
      BY DEF Next, TimerPop, TimerPost, GetQueuedCompletionStatus, RecvLogin,
             Handle, Running, ProcessEnds, Ended, vars
    <2>2. ended \in BOOLEAN
      BY DEF TypeInv, TypeOK
    <2> QED
      BY <2>1, <2>2
  <1> USE <1>0, EventsDistinct DEF TypeInv, TypeOK, PcOK, Pcs, queues, flags
  <1>1. ASSUME NEW e \in Events, TimerPop(e) PROVE TypeInv'
    BY <1>1 DEF TimerPop
  <1>2. CASE TimerPost
    BY SMTT(60), <1>2, PutType DEF TimerPost
  <1>3. ASSUME NEW w \in Workers, NEW e \in Events,
               GetQueuedCompletionStatus(w, e)
        PROVE  TypeInv'
    BY <1>3 DEF GetQueuedCompletionStatus
  <1>4. ASSUME NEW w \in Workers, RecvLogin(w) PROVE TypeInv'
    BY <1>4 DEF RecvLogin, Goto
  <1>5. ASSUME NEW w \in Workers, Handle(w) PROVE TypeInv'
    <2>1. CASE UpdateBegin(w)
      BY <1>5, <2>1 DEF UpdateBegin, Goto
    <2>2. CASE ProcMove(w)
      BY <1>5, <2>2 DEF ProcMove, Goto
    <2>3. CASE NotifyNpcs(w)
      <3>1. PICK seen \in SUBSET Npcs :
              timer' = [e \in Events |->
                          IF \E n \in seen : e = MoveNotify(n)
                          THEN Put(timer, e)[e] ELSE timer[e]]
        BY <2>3 DEF NotifyNpcs
      <3>2. \A e \in Events : Put(timer, e)[e] \in Nat
        BY PutType
      <3>3. timer' \in [Events -> Nat]
        BY <3>1, <3>2
      <3> QED
        BY <2>3, <3>3 DEF NotifyNpcs, Goto
    <2>4. CASE ProcAttack(w)
      BY <1>5, <2>4 DEF ProcAttack, Goto
    <2>5. CASE AttackHit(w)
      BY SMTT(60), <1>5, <2>5 DEF AttackHit, Goto, At
    <2>6. CASE AttackReward(w)
      BY <1>5, <2>6 DEF AttackReward, At
    <2>7. CASE AttackUnlive(w)
      BY <1>5, <2>7 DEF AttackUnlive, At
    <2>8. CASE AttackUnactive(w)
      BY <1>5, <2>8 DEF AttackUnactive, Goto
    <2>9. CASE AttackEnd(w)
      BY <1>5, <2>9 DEF AttackEnd, Goto
    <2>10. CASE UpdateRearm(w)
      BY <1>5, <2>10, PutType DEF UpdateRearm, AddTimer, Goto
    <2>11. CASE UpdateFlush(w)
      BY <1>5, <2>11, PutType DEF UpdateFlush, AddTimer, Finish, Goto
    <2>12. CASE FlushSendMsg(w)
      BY <1>5, <2>12 DEF FlushSendMsg, Finish, Goto
    <2>13. CASE WakeCas(w)
      <3>1. PICK n \in todo[w] :
              \/ isActive[n] /\ Goto(w, "wake", todo[w] \ {n}) /\ UNCHANGED isActive
              \/ /\ ~isActive[n]
                 /\ At(w, "woke", n)
                 /\ isActive' = [isActive EXCEPT ![n] = TRUE]
        BY <2>13 DEF WakeCas
      <3>2. n \in Npcs
        OBVIOUS
      <3>3. isActive' \in [Npcs -> BOOLEAN]
        BY <3>1, <3>2
      <3> QED
        BY <2>13, <3>1, <3>2, <3>3 DEF WakeCas, Goto, At
    <2>14. CASE WakeAlive(w)
      BY SMTT(60), <1>5, <2>14 DEF WakeAlive, Goto, At
    <2>15. CASE WakeArm(w)
      BY <1>5, <2>15, PutType DEF WakeArm, AddTimer, Goto
    <2>16. CASE WakeEnd(w)
      BY SMTT(60), <1>5, <2>16 DEF WakeEnd, Goto, Finish
    <2>17. CASE RandomMoveNpc(w)
      BY SMTT(60), <1>5, <2>17 DEF RandomMoveNpc, Goto, Finish
    <2>18. CASE RandomMoveRearm(w)
      BY <1>5, <2>18, PutType DEF RandomMoveRearm, AddTimer, Goto, Finish
    <2>19. CASE LuaLock(w)
      BY <1>5, <2>19 DEF LuaLock, At
    <2>20. CASE LuaCall(w)
      BY <1>5, <2>20 DEF LuaCall, Goto, Finish
    <2> QED
      BY <1>5, <2>1, <2>2, <2>3, <2>4, <2>5, <2>6, <2>7, <2>8, <2>9, <2>10, <2>11, <2>12, <2>13, <2>14, <2>15, <2>16, <2>17, <2>18, <2>19, <2>20 DEF Handle
  <1>6. CASE Still
    BY <1>6 DEF Still
  <1> QED
    BY <1>1, <1>2, <1>3, <1>4, <1>5, <1>6, EndIsStill DEF Next

(* Every variable keeps its type. *)
THEOREM TypeCorrect == Spec => []TypeOK
  <1>1. TypeInv => TypeOK
    BY DEF TypeInv
  <1> QED
    BY <1>1, TypeInit, TypeNext, PTL DEF Spec

-----------------------------------------------------------------------------
(* The clock: one EV_UPDATE, in one place.                                 *)
TickInv == NoConcurrentUpdate /\ OneTick

LEMMA InQueuesType ==
    ASSUME TypeOK, NEW e \in Events
    PROVE  InQueues(e) \in Nat
  BY DEF TypeOK, InQueues, One

(* A step that moves no EV_UPDATE in or out of the queues or a worker.     *)
LEMMA TickFrame ==
    ASSUME TickInv,
           InQueues(Update)' = InQueues(Update),
           \A w \in Workers : Updates(w)' <=> Updates(w)
    PROVE  TickInv'
  BY DEF TickInv, NoConcurrentUpdate, OneTick, Ticks, One

LEMMA TickInit == Init => TickInv
  BY EventsDistinct
  DEF Init, TickInv, NoConcurrentUpdate, OneTick, Ticks, InQueues, One, Updates

LEMMA TickNext == TypeInv /\ TickInv /\ [Next]_vars => TickInv'
  <1> SUFFICES ASSUME TypeInv, TickInv, [Next]_vars PROVE TickInv'
    OBVIOUS
  <1> USE EventsDistinct DEF TypeInv, TypeOK, PcOK, queues, flags
  <1>1. ASSUME NEW e \in Events, TimerPop(e) PROVE TickInv'
    <2>1. InQueues(Update)' = InQueues(Update)
      BY <1>1 DEF TimerPop, InQueues, One
    <2> QED
      BY <1>1, <2>1, TickFrame DEF TimerPop, Updates
  <1>2. CASE TimerPost
    <2>1. ASSUME popped = Update PROVE InQueues(Update)' = InQueues(Update)
      <3>1. iocp'[Update] = iocp[Update] + 1
        BY <1>2, <2>1, PutType, Untraceable DEF TimerPost
      <3> QED
        BY <1>2, <2>1, <3>1 DEF TimerPost, InQueues, One
    <2>2. ASSUME popped # Update PROVE InQueues(Update)' = InQueues(Update)
      <3>0. popped \in Events /\ iocp' = Put(iocp, popped)
        BY <1>2 DEF TimerPost
      <3>1. iocp'[Update] = iocp[Update]
        BY <3>0, <2>2, PutType
      <3> QED
        BY <1>2, <2>2, <3>1 DEF TimerPost, InQueues, One
    <2>3. InQueues(Update)' = InQueues(Update)
      BY <2>1, <2>2
    <2> QED
      BY <1>2, <2>3, TickFrame DEF TimerPost, Updates
  <1>3. ASSUME NEW w \in Workers, NEW e \in Events,
               GetQueuedCompletionStatus(w, e)
        PROVE  TickInv'
    <2>1. CASE e = Update
      <3>1. iocp[Update] >= 1 /\ ~ \E v \in Workers : Updates(v)
        BY <1>3, <2>1
        DEF GetQueuedCompletionStatus, TickInv, OneTick, Ticks, InQueues, One
      <3>2. /\ Updates(w)'
            /\ \A v \in Workers \ {w} : ~Updates(v)'
            /\ InQueues(Update)' = InQueues(Update) - 1
        BY <1>3, <2>1, <3>1
        DEF GetQueuedCompletionStatus, Updates, InQueues, One
      <3> QED
        BY <3>1, <3>2, InQueuesType
        DEF TickInv, NoConcurrentUpdate, OneTick, Ticks, One
    <2>2. CASE e # Update
      <3>1. InQueues(Update)' = InQueues(Update)
        BY <1>3, <2>2 DEF GetQueuedCompletionStatus, InQueues
      <3>2. \A v \in Workers : Updates(v)' <=> Updates(v)
        BY <1>3, <2>2 DEF GetQueuedCompletionStatus, Updates
      <3> QED
        BY <3>1, <3>2, TickFrame
    <2> QED
      BY <2>1, <2>2
  <1>4. ASSUME NEW w \in Workers, RecvLogin(w) PROVE TickInv'
    <2>1. InQueues(Update)' = InQueues(Update)
      BY <1>4 DEF RecvLogin, InQueues
    <2>2. \A v \in Workers : Updates(v)' <=> Updates(v)
      BY <1>4 DEF RecvLogin, Goto, Updates
    <2> QED
      BY <2>1, <2>2, TickFrame
  <1>5. ASSUME NEW w \in Workers, UpdateRearm(w) PROVE TickInv'
    <2>1. Updates(w) /\ \A v \in Workers \ {w} : ~Updates(v)
      BY <1>5 DEF UpdateRearm, Updates, TickInv, NoConcurrentUpdate
    <2>2. InQueues(Update)' = InQueues(Update) + 1
      <3>1. /\ timer'[Update] = timer[Update] + 1
            /\ UNCHANGED <<popped, iocp>>
        BY <1>5, PutType, Untraceable DEF UpdateRearm, AddTimer
      <3> QED
        BY <3>1 DEF InQueues, One
    <2>3. \A v \in Workers : ~Updates(v)'
      BY <1>5, <2>1 DEF UpdateRearm, Goto, Updates
    <2>4. InQueues(Update) = 0
      BY <2>1, InQueuesType DEF TickInv, OneTick, Ticks, One
    <2> QED
      BY <2>2, <2>3, <2>4
      DEF TickInv, NoConcurrentUpdate, OneTick, Ticks, One
  <1>6. ASSUME NEW w \in Workers, Handle(w), ~UpdateRearm(w)
        PROVE  /\ InQueues(Update)' = InQueues(Update)
               /\ \A v \in Workers : Updates(v)' <=> Updates(v)
    <2> USE DEF InQueues, Updates
    <2>1. CASE UpdateBegin(w)
      BY <1>6, <2>1 DEF UpdateBegin, Goto
    <2>2. CASE ProcMove(w)
      BY <1>6, <2>2 DEF ProcMove, Goto
    <2>3. CASE NotifyNpcs(w)
      BY <1>6, <2>3, PutType DEF NotifyNpcs, Goto
    <2>4. CASE ProcAttack(w)
      BY <1>6, <2>4 DEF ProcAttack, Goto
    <2>5. CASE AttackHit(w)
      BY <1>6, <2>5 DEF AttackHit, Goto, At
    <2>6. CASE AttackReward(w)
      BY <1>6, <2>6 DEF AttackReward, At
    <2>7. CASE AttackUnlive(w)
      BY <1>6, <2>7 DEF AttackUnlive, At
    <2>8. CASE AttackUnactive(w)
      BY <1>6, <2>8 DEF AttackUnactive, Goto
    <2>9. CASE AttackEnd(w)
      BY <1>6, <2>9 DEF AttackEnd, Goto
    <2>10. CASE UpdateFlush(w)
      <3>1. timer'[Update] = timer[Update] /\ UNCHANGED <<popped, iocp>>
        BY <1>6, <2>10, PutType DEF UpdateFlush, AddTimer
      <3>2. \A v \in Workers : Updates(v)' <=> Updates(v)
        BY <1>6, <2>10 DEF UpdateFlush, Finish, Goto
      <3> QED
        BY <3>1, <3>2
    <2>11. CASE FlushSendMsg(w)
      BY <1>6, <2>11 DEF FlushSendMsg, Finish, Goto
    <2>12. CASE WakeCas(w)
      BY <1>6, <2>12 DEF WakeCas, Goto, At
    <2>13. CASE WakeAlive(w)
      BY <1>6, <2>13 DEF WakeAlive, Goto, At
    <2>14. CASE WakeArm(w)
      <3>1. timer'[Update] = timer[Update] /\ UNCHANGED <<popped, iocp>>
        BY <1>6, <2>14, PutType DEF WakeArm, AddTimer
      <3>2. \A v \in Workers : Updates(v)' <=> Updates(v)
        BY <1>6, <2>14 DEF WakeArm, Goto
      <3> QED
        BY <3>1, <3>2
    <2>15. CASE WakeEnd(w)
      BY <1>6, <2>15 DEF WakeEnd, Goto, Finish
    <2>16. CASE RandomMoveNpc(w)
      BY <1>6, <2>16 DEF RandomMoveNpc, Goto, Finish
    <2>17. CASE RandomMoveRearm(w)
      <3>1. timer'[Update] = timer[Update] /\ UNCHANGED <<popped, iocp>>
        BY SMTT(60), <1>6, <2>17, PutType DEF RandomMoveRearm, AddTimer
      <3>2. \A v \in Workers : Updates(v)' <=> Updates(v)
        BY <1>6, <2>17 DEF RandomMoveRearm, Goto, Finish
      <3> QED
        BY <3>1, <3>2
    <2>18. CASE LuaLock(w)
      BY <1>6, <2>18 DEF LuaLock, At
    <2>19. CASE LuaCall(w)
      BY <1>6, <2>19 DEF LuaCall, Goto, Finish
    <2> QED
      BY <1>6, <2>1, <2>2, <2>3, <2>4, <2>5, <2>6, <2>7, <2>8, <2>9, <2>10, <2>11, <2>12, <2>13, <2>14, <2>15, <2>16, <2>17, <2>18, <2>19 DEF Handle
  <1>7. CASE Still
    BY <1>7, TickFrame DEF Still, InQueues, Updates
  <1> QED
    BY <1>1, <1>2, <1>3, <1>4, <1>5, <1>6, <1>7, TickFrame, EndIsStill DEF Next, Handle

(* World::Update never runs on two workers at a time. *)
THEOREM UpdateIsExclusive == Spec => []NoConcurrentUpdate
  <1>1. TickInv => NoConcurrentUpdate
    BY DEF TickInv
  <1> QED
    BY <1>1, TypeInit, TypeNext, TickInit, TickNext, PTL DEF Spec

(* The clock of the world is neither lost nor doubled. *)
THEOREM ClockIsKept == Spec => []OneTick
  <1>1. TickInv => OneTick
    BY DEF TickInv
  <1> QED
    BY <1>1, TypeInit, TypeNext, TickInit, TickNext, PTL DEF Spec
-----------------------------------------------------------------------------
(* The chains. OneChainPerNpc alone is not inductive: that a worker which  *)
(* finds the NPC alive starts the only chain needs that a live NPC is won  *)
(* by one compare-exchange (isActive is cleared only after isAlive), and   *)
(* has no chain before.                                                    *)
ChainInv(n) ==
    /\ Chains(n) <= 1
    /\ \A v, w \in Workers : Moves(v, n) /\ Moves(w, n) => v = w
    /\ \A v, w \in Workers : Arms(v, n) /\ Arms(w, n) => v = w
    /\ isAlive[n] =>
         /\ \A v, w \in Workers : Wakes(v, n) /\ Wakes(w, n) => v = w
         /\ ~isActive[n] => Chains(n) = 0
         /\ \A w \in Workers : Wakes(w, n) => isActive[n] /\ Chains(n) = 0
         /\ isActive[n] => Chains(n) = 1 \/ \E w \in Workers : Wakes(w, n)

(* isActive is cleared of a dead NPC only. *)
DeadFirst == \A w \in Workers : pc[w] = "unactive" => ~isAlive[npc[w]]

ChainsInv == \A n \in Npcs : ChainInv(n)

(* Experience is paid out for the living: RewardedOnce holds because the   *)
(* one worker in World::Update that pays it is also the one that kills.    *)
RewardInv ==
    \A n \in Npcs :
      /\ rewards[n] <= 1
      /\ isAlive[n] /\ rewards[n] = 1 =>
           \E w \in Workers : pc[w] = "unlive" /\ npc[w] = n

(* Who calls the Lua machine of an NPC has its lock. *)
LuaInv == \A w \in Workers : pc[w] = "lua" => luaLock[npc[w]] = w
(* A step that moves none of the events of n ... *)
SameEvents(n) ==
    /\ InQueues(RandomMove(n))' = InQueues(RandomMove(n))
    /\ \A w \in Workers : /\ Moves(w, n)' <=> Moves(w, n)
                          /\ Arms(w, n)' <=> Arms(w, n)
                          /\ Wakes(w, n)' <=> Wakes(w, n)

(* ... and leaves its flags alone. *)
SameFlags(n) ==
    /\ isAlive'[n] <=> isAlive[n]
    /\ isActive'[n] <=> isActive[n]

LEMMA SameChains ==
    ASSUME NEW n \in Npcs, SameEvents(n)
    PROVE  Chains(n)' = Chains(n)
  BY DEF SameEvents, Chains, One

(* The two steps that begin and end a chain. *)
Starts(n) ==
    /\ \E w \in Workers : WakeAlive(w) /\ npc[w] = n
    /\ isAlive[n] /\ Chains(n) = 0 /\ Chains(n)' = 1

Ends(n) ==
    /\ \E w \in Workers : RandomMoveNpc(w) /\ job[w] = RandomMove(n)
    /\ ~isAlive[n] /\ Chains(n) = 1 /\ Chains(n)' = 0

ChainStep(n) ==
    /\ ChainInv(n)'
    /\ Chains(n)' = Chains(n) \/ Starts(n) \/ Ends(n)

LEMMA ChainFrame ==
    ASSUME NEW n \in Npcs, ChainInv(n), SameEvents(n), SameFlags(n)
    PROVE  ChainStep(n)
  BY SameChains DEF ChainStep, ChainInv, SameEvents, SameFlags

(* At most one chain, counted. *)
LEMMA ChainCount ==
    ASSUME TypeOK, NEW n \in Npcs
    PROVE  /\ InQueues(RandomMove(n)) \in Nat
           /\ Chains(n) \in Nat
           /\ Chains(n) <= 1 =>
                /\ InQueues(RandomMove(n)) <= 1
                /\ (\E w \in Workers : Moves(w, n)) =>
                     /\ Chains(n) = 1
                     /\ InQueues(RandomMove(n)) = 0
                     /\ \A w \in Workers : ~Arms(w, n)
                /\ (\E w \in Workers : Arms(w, n)) =>
                     /\ Chains(n) = 1
                     /\ InQueues(RandomMove(n)) = 0
                     /\ \A w \in Workers : ~Moves(w, n)
                /\ InQueues(RandomMove(n)) = 1 =>
                     /\ Chains(n) = 1
                     /\ \A w \in Workers : ~Moves(w, n) /\ ~Arms(w, n)
                /\ Chains(n) = 0 =>
                     /\ InQueues(RandomMove(n)) = 0
                     /\ \A w \in Workers : ~Moves(w, n) /\ ~Arms(w, n)
  <1>1. InQueues(RandomMove(n)) \in Nat
    BY InQueuesType, EventsDistinct
  <1> QED
    BY <1>1 DEF Chains, One

LEMMA ChainsInit == Init => ChainsInv
  BY EventsDistinct
  DEF Init, ChainsInv, ChainInv, Chains, InQueues, One, Moves, Arms, Wakes

(* The steps that have nothing to do with the events and flags of an NPC. *)
Bystanding(w) ==
    \/ UpdateBegin(w) \/ ProcMove(w) \/ NotifyNpcs(w)
    \/ ProcAttack(w) \/ AttackHit(w) \/ AttackReward(w)
    \/ AttackEnd(w) \/ UpdateRearm(w) \/ UpdateFlush(w)
    \/ FlushSendMsg(w) \/ WakeEnd(w) \/ LuaLock(w)
    \/ LuaCall(w)

LEMMA BystandingKeepsEvents ==
    ASSUME TypeInv, NEW w \in Workers, Bystanding(w), NEW n \in Npcs
    PROVE  SameEvents(n) /\ SameFlags(n)
  <1> USE EventsDistinct
      DEF TypeInv, TypeOK, PcOK, queues, flags, SameEvents, SameFlags,
          InQueues, Moves, Arms, Wakes
  <1>1. CASE UpdateBegin(w)
    BY <1>1 DEF UpdateBegin, Goto
  <1>2. CASE ProcMove(w)
    BY <1>2 DEF ProcMove, Goto
  <1>3. CASE NotifyNpcs(w)
    BY <1>3, PutType DEF NotifyNpcs, Goto
  <1>4. CASE ProcAttack(w)
    BY <1>4 DEF ProcAttack, Goto
  <1>5. CASE AttackHit(w)
    BY <1>5 DEF AttackHit, Goto, At
  <1>6. CASE AttackReward(w)
    BY <1>6 DEF AttackReward, At
  <1>7. CASE AttackEnd(w)
    BY <1>7 DEF AttackEnd, Goto
  <1>8. CASE UpdateRearm(w)
    <2>1. timer'[RandomMove(n)] = timer[RandomMove(n)]
      <3>1. AddTimer(Update)
        BY <1>8 DEF UpdateRearm
      <3>2. RandomMove(n) \in Events /\ RandomMove(n) # Update
        OBVIOUS
      <3> QED
        BY <3>1, <3>2, AddTimerOther
    <2>2. InQueues(RandomMove(n))' = InQueues(RandomMove(n))
      BY <1>8, <2>1 DEF UpdateRearm
    <2>3. \A v \in Workers : /\ Moves(v, n)' <=> Moves(v, n)
                             /\ Arms(v, n)' <=> Arms(v, n)
                             /\ Wakes(v, n)' <=> Wakes(v, n)
      BY <1>8 DEF UpdateRearm, Goto
    <2> QED
      BY <1>8, <2>2, <2>3 DEF UpdateRearm
  <1>9. CASE UpdateFlush(w)
    <2>1. InQueues(RandomMove(n))' = InQueues(RandomMove(n))
      <3>1. timer'[RandomMove(n)] = timer[RandomMove(n)]
        <4>1. AddTimer(FlushMsg)
          BY <1>9 DEF UpdateFlush
        <4>2. RandomMove(n) \in Events /\ RandomMove(n) # FlushMsg
          OBVIOUS
        <4> QED
          BY <4>1, <4>2, AddTimerOther
      <3> QED
        BY <1>9, <3>1 DEF UpdateFlush
    <2>2. \A v \in Workers : /\ Moves(v, n)' <=> Moves(v, n)
                             /\ Arms(v, n)' <=> Arms(v, n)
                             /\ Wakes(v, n)' <=> Wakes(v, n)
      BY <1>9 DEF UpdateFlush, Finish, Goto
    <2> QED
      BY <1>9, <2>1, <2>2 DEF UpdateFlush
  <1>10. CASE FlushSendMsg(w)
    BY <1>10 DEF FlushSendMsg, Finish, Goto
  <1>11. CASE WakeEnd(w)
    BY <1>11 DEF WakeEnd, Goto, Finish
  <1>12. CASE LuaLock(w)
    BY <1>12 DEF LuaLock, At
  <1>13. CASE LuaCall(w)
    BY <1>13 DEF LuaCall, Goto, Finish
  <1> QED
    BY <1>1, <1>2, <1>3, <1>4, <1>5, <1>6, <1>7, <1>8, <1>9, <1>10, <1>11, <1>12, <1>13 DEF Bystanding
LEMMA ChainNext ==
    ASSUME TypeInv, DeadFirst, [Next]_vars, NEW n \in Npcs, ChainInv(n)
    PROVE  ChainStep(n)
  <1> USE EventsDistinct DEF TypeInv, TypeOK, PcOK, queues, flags
  <1>1. ASSUME NEW e \in Events, TimerPop(e) PROVE ChainStep(n)
    <2>1. InQueues(RandomMove(n))' = InQueues(RandomMove(n))
      BY <1>1 DEF TimerPop, InQueues, One
    <2> QED
      BY <1>1, <2>1, ChainFrame
      DEF TimerPop, SameEvents, SameFlags, Moves, Arms, Wakes
  <1>2. CASE TimerPost
    <2>1. ASSUME popped = RandomMove(n)
          PROVE  InQueues(RandomMove(n))' = InQueues(RandomMove(n))
      <3>1. iocp'[RandomMove(n)] = iocp[RandomMove(n)] + 1
        BY <1>2, <2>1, PutType, Untraceable DEF TimerPost
      <3> QED
        BY <1>2, <2>1, <3>1 DEF TimerPost, InQueues, One
    <2>2. ASSUME popped # RandomMove(n)
          PROVE  InQueues(RandomMove(n))' = InQueues(RandomMove(n))
      <3>1. popped \in Events /\ iocp' = Put(iocp, popped)
        BY <1>2 DEF TimerPost
      <3>2. iocp'[RandomMove(n)] = iocp[RandomMove(n)]
        BY <3>1, <2>2, PutType
      <3> QED
        BY <1>2, <2>2, <3>2 DEF TimerPost, InQueues, One
    <2> QED
      BY <1>2, <2>1, <2>2, ChainFrame
      DEF TimerPost, SameEvents, SameFlags, Moves, Arms, Wakes
  <1>3. ASSUME NEW w \in Workers, NEW e \in Events,
               GetQueuedCompletionStatus(w, e)
        PROVE  ChainStep(n)
    <2>1. SameFlags(n) /\ \A v \in Workers : /\ Arms(v, n)' <=> Arms(v, n)
                                             /\ Wakes(v, n)' <=> Wakes(v, n)
      BY <1>3 DEF GetQueuedCompletionStatus, SameFlags, Arms, Wakes
    <2>2. CASE e = RandomMove(n)
      <3>1. iocp[e] >= 1 /\ InQueues(e)' = InQueues(e) - 1
        BY <1>3, <2>2 DEF GetQueuedCompletionStatus, InQueues, One
      <3>2. InQueues(e) >= 1
        BY <1>3, <3>1 DEF InQueues, One
      <3>3. /\ InQueues(e) = 1 /\ Chains(n) = 1
            /\ \A v \in Workers : ~Moves(v, n) /\ ~Arms(v, n)
        BY <2>2, <3>2, ChainCount DEF ChainInv
      <3>4. Moves(w, n)' /\ \A v \in Workers \ {w} : ~Moves(v, n)'
        BY <1>3, <2>2, <3>3 DEF GetQueuedCompletionStatus, Moves
      <3>5. Chains(n)' = 1
        BY <2>1, <2>2, <3>1, <3>3, <3>4 DEF Chains, One
      <3> QED
        BY <2>1, <3>3, <3>4, <3>5 DEF ChainStep, ChainInv, SameFlags
    <2>3. CASE e # RandomMove(n)
      <3>1. InQueues(RandomMove(n))' = InQueues(RandomMove(n))
        BY <1>3, <2>3 DEF GetQueuedCompletionStatus, InQueues
      <3>2. \A v \in Workers : Moves(v, n)' <=> Moves(v, n)
        BY <1>3, <2>3 DEF GetQueuedCompletionStatus, Moves
      <3> QED
        BY <2>1, <3>1, <3>2, ChainFrame DEF SameEvents
    <2> QED
      BY <2>2, <2>3
  <1>4. ASSUME NEW w \in Workers, RecvLogin(w) PROVE ChainStep(n)
    BY <1>4, ChainFrame
    DEF RecvLogin, Goto, SameEvents, SameFlags, InQueues, Moves, Arms, Wakes
  <1>5. ASSUME NEW w \in Workers, Bystanding(w) PROVE ChainStep(n)
    BY <1>5, BystandingKeepsEvents, ChainFrame
  <1>6. ASSUME NEW w \in Workers, AttackUnlive(w) PROVE ChainStep(n)
    <2>1. SameEvents(n)
      BY <1>6
      DEF AttackUnlive, At, SameEvents, InQueues, Moves, Arms, Wakes
    <2>2. /\ isAlive'[n] => isAlive[n]
          /\ isActive'[n] <=> isActive[n]
      BY <1>6 DEF AttackUnlive
    <2> QED
      BY <2>1, <2>2, SameChains DEF ChainStep, ChainInv, SameEvents
  <1>7. ASSUME NEW w \in Workers, AttackUnactive(w) PROVE ChainStep(n)
    <2>1. SameEvents(n)
      BY <1>7
      DEF AttackUnactive, Goto, SameEvents, InQueues, Moves, Arms, Wakes
    <2>2. /\ isAlive'[n] <=> isAlive[n]
          /\ isAlive[n] => (isActive'[n] <=> isActive[n])
      BY <1>7 DEF AttackUnactive, DeadFirst
    <2> QED
      BY <2>1, <2>2, SameChains DEF ChainStep, ChainInv, SameEvents
  <1>8. ASSUME NEW w \in Workers, WakeCas(w) PROVE ChainStep(n)
    <2>1. PICK m \in todo[w] :
            \/ isActive[m] /\ Goto(w, "wake", todo[w] \ {m}) /\ UNCHANGED isActive
            \/ /\ ~isActive[m]
               /\ At(w, "woke", m)
               /\ isActive' = [isActive EXCEPT ![m] = TRUE]
      BY <1>8 DEF WakeCas
    <2>2. /\ pc[w] = "wake" /\ m \in Npcs
          /\ UNCHANGED <<timer, popped, iocp, job, isAlive>>
      BY <1>8 DEF WakeCas
    <2>3. InQueues(RandomMove(n))' = InQueues(RandomMove(n))
      BY <2>2 DEF InQueues
    <2>4. \A v \in Workers : /\ Moves(v, n)' <=> Moves(v, n)
                             /\ Arms(v, n)' <=> Arms(v, n)
      BY <2>1, <2>2 DEF Goto, At, Moves, Arms
    <2>5. Chains(n)' = Chains(n)
      BY <2>3, <2>4 DEF Chains, One
    <2>6. CASE isActive[m] \/ m # n
      <3>1. \A v \in Workers : Wakes(v, n)' <=> Wakes(v, n)
        BY <2>1, <2>2, <2>6 DEF Goto, At, Wakes
      <3>2. SameFlags(n)
        BY <2>1, <2>2, <2>6 DEF SameFlags
      <3> QED
        BY <2>3, <2>4, <3>1, <3>2, ChainFrame DEF SameEvents
    <2>7. CASE ~isActive[m] /\ m = n
      <3>1. /\ isActive'[n]
            /\ isAlive'[n] <=> isAlive[n]
            /\ Wakes(w, n)'
            /\ \A v \in Workers \ {w} : Wakes(v, n)' <=> Wakes(v, n)
        BY <2>1, <2>2, <2>7 DEF At, Wakes
      <3>2. isAlive[n] => Chains(n) = 0 /\ \A v \in Workers : ~Wakes(v, n)
        BY <2>7 DEF ChainInv
      <3> QED
        BY <2>4, <2>5, <3>1, <3>2 DEF ChainStep, ChainInv
    <2> QED
      BY <2>6, <2>7
  <1>9. ASSUME NEW w \in Workers, WakeAlive(w) PROVE ChainStep(n)
    <2>1. SameFlags(n) /\ InQueues(RandomMove(n))' = InQueues(RandomMove(n))
      BY <1>9 DEF WakeAlive, SameFlags, InQueues
    <2>2. \A v \in Workers : Moves(v, n)' <=> Moves(v, n)
      BY <1>9 DEF WakeAlive, Moves
    <2>3. \A v \in Workers \ {w} : /\ Arms(v, n)' <=> Arms(v, n)
                                   /\ Wakes(v, n)' <=> Wakes(v, n)
      BY <1>9 DEF WakeAlive, At, Goto, Arms, Wakes
    <2>4. CASE npc[w] # n
      <3>1. /\ Arms(w, n)' <=> Arms(w, n)
            /\ Wakes(w, n)' <=> Wakes(w, n)
        BY <1>9, <2>4 DEF WakeAlive, At, Goto, Arms, Wakes
      <3> QED
        BY <2>1, <2>2, <2>3, <3>1, ChainFrame DEF SameEvents
    <2>5. CASE npc[w] = n /\ ~isAlive[n]
      <3>1. ~Arms(w, n) /\ ~Arms(w, n)'
        BY <1>9, <2>5 DEF WakeAlive, Goto, Arms
      <3>2. Chains(n)' = Chains(n)
        BY <2>1, <2>2, <2>3, <3>1 DEF Chains, One
      <3> QED
        BY <2>1, <2>2, <2>3, <2>5, <3>1, <3>2 DEF ChainStep, ChainInv, SameFlags
    <2>6. CASE npc[w] = n /\ isAlive[n]
      <3>1. Wakes(w, n) /\ ~Wakes(w, n)' /\ Arms(w, n)'
        BY <1>9, <2>6 DEF WakeAlive, At, Arms, Wakes
      <3>2. /\ isActive[n] /\ Chains(n) = 0
            /\ \A v \in Workers \ {w} : ~Wakes(v, n)
        BY <2>6, <3>1 DEF ChainInv
      <3>3. /\ InQueues(RandomMove(n)) = 0
            /\ \A v \in Workers : ~Moves(v, n) /\ ~Arms(v, n)
        BY <3>2, ChainCount
      <3>4. Chains(n)' = 1
        BY <2>1, <2>2, <3>1, <3>3 DEF Chains, One
      <3> QED
        BY <1>9, <2>1, <2>2, <2>3, <2>6, <3>1, <3>2, <3>3, <3>4
        DEF ChainStep, Starts, ChainInv, SameFlags
    <2> QED
      BY <2>4, <2>5, <2>6
  <1>10. ASSUME NEW w \in Workers, WakeArm(w) PROVE ChainStep(n)
    <2>1. SameFlags(n) /\ \A v \in Workers : Moves(v, n)' <=> Moves(v, n)
      BY <1>10 DEF WakeArm, SameFlags, Moves
    <2>2. \A v \in Workers : Wakes(v, n)' <=> Wakes(v, n)
      BY <1>10 DEF WakeArm, Goto, Wakes
    <2>3. \A v \in Workers \ {w} : Arms(v, n)' <=> Arms(v, n)
      BY <1>10 DEF WakeArm, Goto, Arms
    <2>4. CASE npc[w] # n
      <3>1. Arms(w, n)' <=> Arms(w, n)
        BY <1>10, <2>4 DEF WakeArm, Goto, Arms
      <3>2. InQueues(RandomMove(n))' = InQueues(RandomMove(n))
        BY SMTT(60), <1>10, <2>4, PutType DEF WakeArm, AddTimer, InQueues
      <3> QED
        BY <2>1, <2>2, <2>3, <3>1, <3>2, ChainFrame DEF SameEvents
    <2>5. CASE npc[w] = n
      <3>1. Arms(w, n) /\ ~Arms(w, n)'
        BY <1>10, <2>5 DEF WakeArm, Goto, Arms
      <3>2. /\ timer'[RandomMove(n)] = timer[RandomMove(n)] + 1
            /\ UNCHANGED <<popped, iocp>>
        BY ZenonT(60), <1>10, <2>5, PutType, Untraceable DEF WakeArm, AddTimer
      <3>3. InQueues(RandomMove(n))' = InQueues(RandomMove(n)) + 1
        BY <3>2 DEF InQueues, One
      <3>4. /\ Chains(n) = 1 /\ InQueues(RandomMove(n)) = 0
            /\ \A v \in Workers : ~Moves(v, n)
            /\ \A v \in Workers \ {w} : ~Arms(v, n)
        BY <3>1, ChainCount DEF ChainInv
      <3>5. Chains(n)' = 1
        BY <2>1, <2>3, <3>1, <3>3, <3>4 DEF Chains, One
      <3> QED
        BY <2>1, <2>2, <2>3, <3>1, <3>4, <3>5 DEF ChainStep, ChainInv, SameFlags
    <2> QED
      BY <2>4, <2>5
  <1>11. ASSUME NEW w \in Workers, RandomMoveNpc(w) PROVE ChainStep(n)
    <2>1. PICK m \in Npcs :
            /\ job[w] = RandomMove(m)
            /\ IF isAlive[m]
               THEN /\ \/ Goto(w, "wake", Npcs)
                       \/ Goto(w, "rearm", {})
                    /\ UNCHANGED job
               ELSE Finish(w)
      BY <1>11 DEF RandomMoveNpc
    <2>2. /\ pc[w] = "dispatch" /\ SameFlags(n)
          /\ InQueues(RandomMove(n))' = InQueues(RandomMove(n))
      BY <1>11 DEF RandomMoveNpc, SameFlags, InQueues
    <2>3. \A v \in Workers : /\ Arms(v, n)' <=> Arms(v, n)
                             /\ Wakes(v, n)' <=> Wakes(v, n)
      BY <2>1, <2>2 DEF Goto, Finish, Arms, Wakes
    <2>4. CASE isAlive[m] \/ m # n
      <3>1. \A v \in Workers : Moves(v, n)' <=> Moves(v, n)
        BY <2>1, <2>4 DEF Finish, Goto, Moves
      <3> QED
        BY <2>2, <2>3, <3>1, ChainFrame DEF SameEvents
    <2>5. CASE ~isAlive[m] /\ m = n
      <3>1. Moves(w, n)
        BY <2>1, <2>5 DEF Moves
      <3>2. \A v \in Workers : ~Moves(v, n)'
        <4>1. job' = [job EXCEPT ![w] = NoEvent]
          BY <2>1, <2>5 DEF Finish
        <4> QED
          BY <3>1, <4>1 DEF Moves, ChainInv
      <3>3. /\ Chains(n) = 1 /\ InQueues(RandomMove(n)) = 0
            /\ \A v \in Workers : ~Arms(v, n)
        BY <3>1, ChainCount DEF ChainInv
      <3>4. Chains(n)' = 0
        BY <2>2, <2>3, <3>2, <3>3 DEF Chains, One
      <3> QED
        BY <1>11, <2>1, <2>2, <2>3, <2>5, <3>2, <3>3, <3>4
        DEF ChainStep, Ends, ChainInv, SameFlags
    <2> QED
      BY <2>4, <2>5
  <1>12. ASSUME NEW w \in Workers, RandomMoveRearm(w) PROVE ChainStep(n)
    <2>1. SameFlags(n) /\ \A v \in Workers : /\ Arms(v, n)' <=> Arms(v, n)
                                             /\ Wakes(v, n)' <=> Wakes(v, n)
      BY <1>12 DEF RandomMoveRearm, Finish, Goto, SameFlags, Arms, Wakes
    <2>2. PICK m \in Npcs : job[w] = RandomMove(m)
      BY <1>12 DEF RandomMoveRearm
    <2>3. CASE m # n
      <3>1. InQueues(RandomMove(n))' = InQueues(RandomMove(n))
        BY SMTT(60), <1>12, <2>2, <2>3, PutType DEF RandomMoveRearm, AddTimer, InQueues
      <3>2. \A v \in Workers : Moves(v, n)' <=> Moves(v, n)
        BY <1>12, <2>2, <2>3 DEF RandomMoveRearm, Finish, Moves
      <3> QED
        BY <2>1, <3>1, <3>2, ChainFrame DEF SameEvents
    <2>4. CASE m = n
      <3>1. Moves(w, n)
        BY <2>2, <2>4 DEF Moves
      <3>2. \A v \in Workers : ~Moves(v, n)'
        BY <1>12, <3>1 DEF RandomMoveRearm, Finish, Moves, ChainInv
      <3>3. /\ timer'[RandomMove(n)] = timer[RandomMove(n)] + 1
            /\ UNCHANGED <<popped, iocp>>
        BY SMTT(60), <1>12, <2>2, <2>4, PutType, Untraceable
        DEF RandomMoveRearm, AddTimer
      <3>4. InQueues(RandomMove(n))' = InQueues(RandomMove(n)) + 1
        BY <3>3 DEF InQueues, One
      <3>5. /\ Chains(n) = 1 /\ InQueues(RandomMove(n)) = 0
            /\ \A v \in Workers : ~Arms(v, n)
        BY <3>1, ChainCount DEF ChainInv
      <3>6. Chains(n)' = 1
        BY <2>1, <3>2, <3>4, <3>5 DEF Chains, One
      <3> QED
        BY <2>1, <3>2, <3>5, <3>6 DEF ChainStep, ChainInv, SameFlags
    <2> QED
      BY <2>3, <2>4
  <1>13. CASE Still
    BY <1>13, ChainFrame
    DEF Still, SameEvents, SameFlags, InQueues, Moves, Arms, Wakes
  <1> QED
    BY <1>1, <1>2, <1>3, <1>4, <1>5, <1>6, <1>7, <1>8, <1>9, <1>10, <1>11,
       <1>12, <1>13, EndIsStill
    DEF Next, Handle, Bystanding
-----------------------------------------------------------------------------
(* Killing and calling Lua: everything else keeps out of these steps.      *)
SameKills ==
    /\ UNCHANGED <<isAlive, rewards, luaLock>>
    /\ \A w \in Workers : \A l \in {"unlive", "unactive", "lua"} :
         /\ pc'[w] = l <=> pc[w] = l
         /\ pc[w] = l => npc'[w] = npc[w]

Elsewhere(w) ==
    \/ UpdateBegin(w) \/ ProcMove(w) \/ NotifyNpcs(w)
    \/ ProcAttack(w) \/ AttackHit(w) \/ AttackEnd(w)
    \/ UpdateRearm(w) \/ UpdateFlush(w) \/ FlushSendMsg(w)
    \/ WakeCas(w) \/ WakeAlive(w) \/ WakeArm(w)
    \/ WakeEnd(w) \/ RandomMoveNpc(w) \/ RandomMoveRearm(w)

LEMMA ElsewhereKeepsKills ==
    ASSUME TypeInv, NEW w \in Workers, Elsewhere(w)
    PROVE  SameKills
  <1> USE DEF TypeInv, TypeOK, SameKills, flags
  <1>1. CASE UpdateBegin(w)
    BY <1>1 DEF UpdateBegin, Goto
  <1>2. CASE ProcMove(w)
    BY <1>2 DEF ProcMove, Goto
  <1>3. CASE NotifyNpcs(w)
    BY <1>3 DEF NotifyNpcs, Goto
  <1>4. CASE ProcAttack(w)
    BY <1>4 DEF ProcAttack, Goto
  <1>5. CASE AttackHit(w)
    BY <1>5 DEF AttackHit, Goto, At
  <1>6. CASE AttackEnd(w)
    BY <1>6 DEF AttackEnd, Goto
  <1>7. CASE UpdateRearm(w)
    BY <1>7 DEF UpdateRearm, Goto
  <1>8. CASE UpdateFlush(w)
    BY <1>8 DEF UpdateFlush, Finish, Goto
  <1>9. CASE FlushSendMsg(w)
    BY <1>9 DEF FlushSendMsg, Finish, Goto
  <1>10. CASE WakeCas(w)
    BY <1>10 DEF WakeCas, Goto, At
  <1>11. CASE WakeAlive(w)
    BY <1>11 DEF WakeAlive, Goto, At
  <1>12. CASE WakeArm(w)
    BY <1>12 DEF WakeArm, Goto
  <1>13. CASE WakeEnd(w)
    BY <1>13 DEF WakeEnd, Goto, Finish
  <1>14. CASE RandomMoveNpc(w)
    BY <1>14 DEF RandomMoveNpc, Goto, Finish
  <1>15. CASE RandomMoveRearm(w)
    BY <1>15 DEF RandomMoveRearm, Goto, Finish
  <1> QED
    BY <1>1, <1>2, <1>3, <1>4, <1>5, <1>6, <1>7, <1>8, <1>9, <1>10, <1>11, <1>12, <1>13, <1>14, <1>15 DEF Elsewhere

KillInv == DeadFirst /\ RewardInv /\ LuaInv

LEMMA KillFrame ==
    ASSUME KillInv, SameKills
    PROVE  KillInv'
  BY DEF KillInv, DeadFirst, RewardInv, LuaInv, SameKills

LEMMA KillInit == Init => KillInv
  BY DEF Init, KillInv, DeadFirst, RewardInv, LuaInv

LEMMA KillNext == TypeInv /\ TickInv /\ KillInv /\ [Next]_vars => KillInv'
  <1> SUFFICES ASSUME TypeInv, TickInv, KillInv, [Next]_vars PROVE KillInv'
    OBVIOUS
  <1> USE DEF TypeInv, TypeOK, PcOK, queues, flags
  <1>1. ASSUME NEW e \in Events, TimerPop(e) PROVE SameKills
    BY <1>1 DEF TimerPop, SameKills
  <1>2. CASE TimerPost
    BY <1>2, KillFrame DEF TimerPost, SameKills
  <1>3. ASSUME NEW w \in Workers, NEW e \in Events,
               GetQueuedCompletionStatus(w, e)
        PROVE  SameKills
    BY <1>3 DEF GetQueuedCompletionStatus, SameKills
  <1>4. ASSUME NEW w \in Workers, RecvLogin(w) PROVE SameKills
    BY <1>4 DEF RecvLogin, Goto, SameKills
  <1>5. ASSUME NEW w \in Workers, Elsewhere(w) PROVE SameKills
    BY <1>5, ElsewhereKeepsKills
  <1>6. ASSUME NEW w \in Workers, AttackReward(w) PROVE KillInv'
    <2>1. DeadFirst' /\ LuaInv'
      BY <1>6 DEF AttackReward, At, KillInv, DeadFirst, LuaInv
    <2>2. \A v \in Workers : pc[v] = "unlive" => FALSE
      BY <1>6 DEF AttackReward, TickInv, NoConcurrentUpdate, Updates
    <2>3. rewards' = IF isAlive[npc[w]]
                     THEN [rewards EXCEPT ![npc[w]] = @ + 1] ELSE rewards
      BY <1>6 DEF AttackReward
    <2>4. ASSUME NEW n \in Npcs
          PROVE  /\ rewards'[n] <= 1
                 /\ isAlive'[n] /\ rewards'[n] = 1 =>
                      \E v \in Workers : pc'[v] = "unlive" /\ npc'[v] = n
      <3>1. isAlive[n] => rewards[n] = 0
        <4>1. rewards[n] \in Nat /\ rewards[n] <= 1
          BY DEF KillInv, RewardInv
        <4>2. ~(isAlive[n] /\ rewards[n] = 1)
          BY <2>2 DEF KillInv, RewardInv
        <4> QED
          BY <4>1, <4>2
      <3>2. isAlive' = isAlive /\ pc'[w] = "unlive" /\ npc'[w] = npc[w]
        BY <1>6 DEF AttackReward, At
      <3>3. CASE n = npc[w] /\ isAlive[n]
        BY <2>3, <3>1, <3>2, <3>3
      <3>4. CASE n # npc[w] \/ ~isAlive[n]
        BY <2>3, <3>1, <3>2, <3>4 DEF KillInv, RewardInv
      <3> QED
        BY <3>3, <3>4
    <2> QED
      BY <2>1, <2>4 DEF KillInv, RewardInv
  <1>7. ASSUME NEW w \in Workers, AttackUnlive(w) PROVE KillInv'
    <2>1. /\ isAlive' = [isAlive EXCEPT ![npc[w]] = FALSE]
          /\ pc' = [pc EXCEPT ![w] = "unactive"]
          /\ npc' = [npc EXCEPT ![w] = npc[w]]
          /\ UNCHANGED <<rewards, luaLock>>
          /\ pc[w] = "unlive" /\ npc[w] \in Npcs
      BY <1>7 DEF AttackUnlive, At
    <2>2. DeadFirst' /\ LuaInv'
      BY <2>1 DEF KillInv, DeadFirst, LuaInv
    <2>3. RewardInv'
      BY <2>1 DEF KillInv, RewardInv
    <2> QED
      BY <2>2, <2>3 DEF KillInv
  <1>8. ASSUME NEW w \in Workers, AttackUnactive(w) PROVE KillInv'
    BY <1>8 DEF AttackUnactive, Goto, KillInv, DeadFirst, RewardInv, LuaInv
  <1>9. ASSUME NEW w \in Workers, LuaLock(w) PROVE KillInv'
    <2>1. PICK n \in Npcs : /\ luaLock[n] = None
                            /\ luaLock' = [luaLock EXCEPT ![n] = w]
                            /\ At(w, "lua", n)
      BY <1>9 DEF LuaLock
    <2>2. \A v \in Workers : pc[v] = "lua" => npc[v] # n
      BY <2>1, EventLoopAssumption DEF KillInv, LuaInv
    <2> QED
      BY <1>9, <2>1, <2>2
      DEF LuaLock, At, KillInv, DeadFirst, RewardInv, LuaInv
  <1>10. ASSUME NEW w \in Workers, LuaCall(w) PROVE KillInv'
    BY <1>10 DEF LuaCall, Goto, Finish, KillInv, DeadFirst, RewardInv, LuaInv
  <1>11. CASE Still
    BY <1>11, KillFrame DEF Still, SameKills
  <1> QED
    BY <1>1, <1>2, <1>3, <1>4, <1>5, <1>6, <1>7, <1>8, <1>9, <1>10, <1>11,
       KillFrame, EndIsStill
    DEF Next, Handle, Elsewhere
-----------------------------------------------------------------------------
(* Everything together is inductive. *)
IInv == TypeInv /\ TickInv /\ KillInv /\ ChainsInv

LEMMA Inductive == Spec => []IInv
  <1>1. Init => IInv
    BY TypeInit, TickInit, KillInit, ChainsInit DEF IInv
  <1>2. IInv /\ [Next]_vars => IInv'
    <2> SUFFICES ASSUME IInv, [Next]_vars PROVE IInv'
      OBVIOUS
    <2>1. TypeInv' /\ TickInv' /\ KillInv'
      BY TypeNext, TickNext, KillNext DEF IInv
    <2>2. ChainsInv'
      BY ChainNext DEF IInv, KillInv, ChainsInv, ChainStep
    <2> QED
      BY <2>1, <2>2 DEF IInv
  <1> QED
    BY <1>1, <1>2, PTL DEF Spec

(* No NPC ever has two EV_RANDOM_MOVE chains, with any number of workers   *)
(* in wake_up_npc and a kill in between.                                   *)
THEOREM NoDoubleChain == Spec => []OneChainPerNpc
  <1>1. IInv => OneChainPerNpc
    BY DEF IInv, ChainsInv, ChainInv, OneChainPerNpc
  <1> QED
    BY <1>1, Inductive, PTL

(* An NPC that is alive and marked active has its chain or gets it. *)
THEOREM NoLostChain == Spec => []AwakeNpcHasChain
  <1>1. IInv => AwakeNpcHasChain
    BY DEF IInv, ChainsInv, ChainInv, AwakeNpcHasChain
  <1> QED
    BY <1>1, Inductive, PTL

(* The experience of an NPC is paid out once. *)
THEOREM NoDoubleReward == Spec => []RewardedOnce
  <1>1. IInv => RewardedOnce
    BY DEF IInv, KillInv, RewardInv, RewardedOnce
  <1> QED
    BY <1>1, Inductive, PTL

(* The Lua machine of an NPC is called by one worker at a time. *)
THEOREM LuaIsExclusive == Spec => []LuaExclusive
  <1>1. IInv => LuaExclusive
    BY DEF IInv, TypeInv, TypeOK, KillInv, LuaInv, LuaExclusive
  <1> QED
    BY <1>1, Inductive, PTL
-----------------------------------------------------------------------------
(* Refinement of NpcLife. Only one worker takes a step at a time, so that  *)
(* only one chain begins or ends.                                          *)
LEMMA OneChainAtATime ==
    ASSUME TypeInv, NEW m \in Npcs, NEW n \in Npcs,
           Starts(m) \/ Ends(m), Starts(n) \/ Ends(n)
    PROVE  m = n
  <1> USE EventsDistinct DEF TypeInv, TypeOK
  <1>1. PICK v \in Workers : \/ WakeAlive(v) /\ npc[v] = m
                             \/ RandomMoveNpc(v) /\ job[v] = RandomMove(m)
    BY DEF Starts, Ends
  <1>2. PICK w \in Workers : \/ WakeAlive(w) /\ npc[w] = n
                             \/ RandomMoveNpc(w) /\ job[w] = RandomMove(n)
    BY DEF Starts, Ends
  <1>3. /\ pc[v] \in {"woke", "dispatch"} /\ pc'[v] # pc[v]
        /\ \A u \in Workers \ {v} : pc'[u] = pc[u]
    BY <1>1 DEF WakeAlive, RandomMoveNpc, At, Goto, Finish
  <1>4. pc'[w] # pc[w]
    BY <1>2 DEF WakeAlive, RandomMoveNpc, At, Goto, Finish
  <1>5. v = w
    BY <1>3, <1>4
  <1> QED
    BY <1>1, <1>2, <1>5 DEF WakeAlive, RandomMoveNpc

(* isAlive is cleared at one place. *)
LEMMA OneKiller ==
    ASSUME TypeInv, [Next]_vars
    PROVE  \/ isAlive' = isAlive
           \/ \E w \in Workers : AttackUnlive(w)
  <1> USE DEF flags
  <1>1. ASSUME NEW e \in Events, TimerPop(e) PROVE isAlive' = isAlive
    BY <1>1 DEF TimerPop
  <1>2. CASE TimerPost
    BY <1>2 DEF TimerPost
  <1>3. ASSUME NEW w \in Workers, NEW e \in Events,
               GetQueuedCompletionStatus(w, e)
        PROVE  isAlive' = isAlive
    BY <1>3 DEF GetQueuedCompletionStatus
  <1>4. ASSUME NEW w \in Workers, RecvLogin(w) PROVE isAlive' = isAlive
    BY <1>4 DEF RecvLogin
  <1>5. ASSUME NEW w \in Workers, Elsewhere(w) PROVE isAlive' = isAlive
    BY <1>5, ElsewhereKeepsKills DEF SameKills
  <1>6. ASSUME NEW w \in Workers, AttackReward(w) PROVE isAlive' = isAlive
    BY <1>6 DEF AttackReward
  <1>7. ASSUME NEW w \in Workers, AttackUnactive(w) PROVE isAlive' = isAlive
    BY <1>7 DEF AttackUnactive
  <1>8. ASSUME NEW w \in Workers, LuaLock(w) \/ LuaCall(w)
        PROVE  isAlive' = isAlive
    BY <1>8 DEF LuaLock, LuaCall
  <1>9. CASE Still
    BY <1>9 DEF Still
  <1> QED
    BY <1>1, <1>2, <1>3, <1>4, <1>5, <1>6, <1>7, <1>8, <1>9,
       EndIsStill
    DEF Next, Handle, Elsewhere

LEMMA LifeInit == Init => Life!Init
  <1> SUFFICES ASSUME Init PROVE Life!Init
    OBVIOUS
  <1>1. \A n \in Npcs : Chains(n) = 0
    BY EventsDistinct DEF Init, Chains, InQueues, One, Moves, Arms
  <1>2. \A n \in Npcs : (Chains(n) > 0) = FALSE
    BY <1>1
  <1>3. [n \in Npcs |-> Chains(n) > 0] = [n \in Npcs |-> FALSE]
    BY <1>2, Zenon
  <1> QED
    BY <1>3 DEF Init, Life!Init

(* Each step of the server is a step of one NPC's life, or none. *)
LEMMA LifeStep ==
    ASSUME IInv, [Next]_vars
    PROVE  [Life!Next]_(Life!vars)
  <1> DEFINE awake == [n \in Npcs |-> Chains(n) > 0]
  <1>1. \A n \in Npcs : /\ Chains(n) \in Nat
                        /\ Chains(n) <= 1
                        /\ ChainStep(n)
    BY ChainCount, ChainNext
    DEF IInv, TypeInv, KillInv, ChainsInv, ChainInv
  <1>2. CASE \A n \in Npcs : Chains(n)' = Chains(n)
    <2>1. awake' = awake
      BY <1>2
    <2>2. CASE isAlive' = isAlive
      BY <2>1, <2>2 DEF Life!vars
    <2>3. ASSUME NEW w \in Workers, AttackUnlive(w)
          PROVE  [Life!Next]_(Life!vars)
      <3>1. npc[w] \in Npcs /\ isAlive' = [isAlive EXCEPT ![npc[w]] = FALSE]
        BY <2>3 DEF AttackUnlive, IInv, TypeInv, PcOK
      <3>2. CASE isAlive[npc[w]]
        <4>1. Life!Kill(npc[w])
          BY <2>1, <3>1, <3>2 DEF Life!Kill
        <4> QED
          BY <3>1, <4>1 DEF Life!Next
      <3>3. CASE ~isAlive[npc[w]]
        <4>1. isAlive' = isAlive
          BY <3>1, <3>3 DEF IInv, TypeInv, TypeOK
        <4> QED
          BY <2>1, <4>1 DEF Life!vars
      <3> QED
        BY <3>2, <3>3
    <2> QED
      BY <2>2, <2>3, OneKiller DEF IInv
  <1>3. ASSUME NEW n \in Npcs, Chains(n)' # Chains(n)
        PROVE  Life!Next
    <2>1. Starts(n) \/ Ends(n)
      BY <1>1, <1>3 DEF ChainStep
    <2>2. \A m \in Npcs \ {n} : Chains(m)' = Chains(m)
      BY <1>1, <2>1, OneChainAtATime DEF ChainStep, IInv
    <2>3. isAlive' = isAlive
      BY <2>1 DEF Starts, Ends, WakeAlive, RandomMoveNpc, flags
    <2>4. CASE Starts(n)
      <3>1. awake' = [awake EXCEPT ![n] = TRUE]
        <4>1. (Chains(n)' > 0) = TRUE
          BY <2>4 DEF Starts
        <4>2. \A m \in Npcs : (Chains(m)' > 0) =
                                 IF m = n THEN TRUE ELSE Chains(m) > 0
          BY <2>2, <4>1, Zenon
        <4> QED
          BY <4>2, Zenon
      <3>2. isAlive[n] /\ ~awake[n]
        <4>1. (Chains(n) > 0) = FALSE
          BY <2>4 DEF Starts
        <4> QED
          BY <2>4, <4>1, Zenon DEF Starts
      <3>3. Life!Wake(n)
        BY <2>3, <3>1, <3>2 DEF Life!Wake
      <3> QED
        BY <3>3 DEF Life!Next
    <2>5. CASE Ends(n)
      <3>1. awake' = [awake EXCEPT ![n] = FALSE]
        <4>1. (Chains(n)' > 0) = FALSE
          BY <2>5 DEF Ends
        <4>2. \A m \in Npcs : (Chains(m)' > 0) =
                                 IF m = n THEN FALSE ELSE Chains(m) > 0
          BY <2>2, <4>1, Zenon
        <4> QED
          BY <4>2, Zenon
      <3>2. ~isAlive[n] /\ awake[n] = TRUE
        <4>1. (Chains(n) > 0) = TRUE
          BY <2>5 DEF Ends
        <4> QED
          BY <2>5, <4>1, Zenon DEF Ends
      <3>3. Life!Retire(n)
        BY <2>3, <3>1, <3>2 DEF Life!Retire
      <3> QED
        BY <3>3 DEF Life!Next
    <2> QED
      BY <2>1, <2>4, <2>5
  <1> QED
    BY <1>2, <1>3

(* The event loop implements the life of an NPC: no NPC is woken twice or  *)
(* after its death, and a live one never falls out of its chain.           *)
THEOREM LifeIsKept == Spec => LifeSafety
  <1>1. IInv /\ [Next]_vars => [Life!Next]_(Life!vars)
    BY LifeStep
  <1> QED
    BY <1>1, Inductive, LifeInit, PTL DEF Spec, LifeSafety, Life!SafeSpec
=============================================================================
