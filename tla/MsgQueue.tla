------------------------------ MODULE MsgQueue ------------------------------
(***************************************************************************)
(* The way of a player's request from the worker that received it to       *)
(* World::ProcMsg: m_recvMsgQueue, filled by PushMsg under g_msg_lock, and *)
(* m_copiedRecvMsgs, taken from it by CopyRecvMsg under a different lock,  *)
(* m_recvMsgQueueLock. As the two locks do not exclude each other, a push  *)
(* may fall anywhere between the steps of CopyRecvMsg.                     *)
(*                                                                         *)
(*   recvMsgQueue     World::m_recvMsgQueue                                *)
(*   copiedRecvMsgs   World::m_copiedRecvMsgs                              *)
(*   pc               where the one worker in World::Update stands         *)
(*   stale            how many messages at the head of recvMsgQueue have   *)
(*                    been copied and wait to be cleared                   *)
(*   pushed, handled  the messages pushed, and those given to ProcMsg      *)
(*   lost             the messages cleared without having been copied      *)
(*                                                                         *)
(* EventLoop shows that one worker at a time runs World::Update. The race  *)
(* of a push with a copy or a pop of the same std::queue is undefined      *)
(* behaviour; here each of them is one step, the outcomes in which the     *)
(* queue itself survives the race.                                         *)
(***************************************************************************)
EXTENDS Sequences, Integers, FiniteSets

CONSTANTS
    Players,    \* the players that send requests
    MaxMsgs     \* bound: requests of one player

ASSUME MsgQueueAssumption == MaxMsgs \in Nat

(* message.id and the number of the request: a player's requests are       *)
(* pushed in the order of its packets, as one WSARecv is outstanding.      *)
Messages == [id : Players, no : 1..MaxMsgs]

VARIABLES recvMsgQueue, copiedRecvMsgs, pc, stale, pushed, handled, lost

vars == <<recvMsgQueue, copiedRecvMsgs, pc, stale, pushed, handled, lost>>

Init ==
    /\ recvMsgQueue = <<>>
    /\ copiedRecvMsgs = <<>>
    /\ pc = "waiting"
    /\ stale = 0
    /\ pushed = {}
    /\ handled = <<>>
    /\ lost = {}

-----------------------------------------------------------------------------
(* Slips, each of which breaks the property named with it. *)

(* HandledInOrder: the queue is a stack. *)
SlipPushMsg(m) ==
    /\ m \notin pushed
    /\ \A k \in 1..(m.no - 1) : [m EXCEPT !.no = k] \in pushed
    /\ recvMsgQueue' = <<m>> \o recvMsgQueue
    /\ pushed' = pushed \cup {m}
    /\ UNCHANGED <<copiedRecvMsgs, pc, stale, handled, lost>>

(* Channel: CopyRecvMsg does not clear what it copied. *)
SlipCopyRecvMsg_Copy ==
    /\ pc = "waiting"
    /\ copiedRecvMsgs' = recvMsgQueue
    /\ pc' = "proc"
    /\ UNCHANGED <<recvMsgQueue, stale, pushed, handled, lost>>

(* EveryMsgAccounted: Update clears the copy before it is worked off. *)
SlipProcMsg ==
    /\ pc = "proc" /\ copiedRecvMsgs # <<>>
    /\ handled' = Append(handled, Head(copiedRecvMsgs))
    /\ copiedRecvMsgs' = <<>>
    /\ UNCHANGED <<recvMsgQueue, pc, stale, pushed, lost>>

(* HandledIfNotLost: Update goes on to the next frame after one message. *)
SlipUpdateEnd ==
    /\ pc = "proc"
    /\ pc' = "waiting"
    /\ UNCHANGED <<recvMsgQueue, copiedRecvMsgs, stale, pushed, handled, lost>>

-----------------------------------------------------------------------------
(* World::PushMsg, by any worker, at any time. *)
PushMsg(m) ==
    /\ m \notin pushed
    /\ \A k \in 1..(m.no - 1) : [m EXCEPT !.no = k] \in pushed
    /\ recvMsgQueue' = Append(recvMsgQueue, m)
    /\ pushed' = pushed \cup {m}
    /\ UNCHANGED <<copiedRecvMsgs, pc, stale, handled, lost>>

(* CopyRecvMsg: the copy, under the lock ... *)
CopyRecvMsg_Copy ==
    /\ pc = "waiting"
    /\ copiedRecvMsgs' = recvMsgQueue
    /\ stale' = Len(recvMsgQueue)
    /\ pc' = "clear"
    /\ UNCHANGED <<recvMsgQueue, pushed, handled, lost>>

(* ... then, under the lock taken again, the loop that pops to the end ... *)
CopyRecvMsg_Pop ==
    /\ pc = "clear" /\ recvMsgQueue # <<>>
    /\ recvMsgQueue' = Tail(recvMsgQueue)
    /\ IF stale > 0
       THEN stale' = stale - 1 /\ UNCHANGED lost
       ELSE lost' = lost \cup {Head(recvMsgQueue)} /\ UNCHANGED stale
    /\ UNCHANGED <<copiedRecvMsgs, pc, pushed, handled>>

(* ... and the test that finds the queue empty. *)
CopyRecvMsg_End ==
    /\ pc = "clear" /\ recvMsgQueue = <<>>
    /\ pc' = "proc"
    /\ UNCHANGED <<recvMsgQueue, copiedRecvMsgs, stale, pushed, handled, lost>>

(* World::Update: front, pop, ProcMsg. *)
ProcMsg ==
    /\ pc = "proc" /\ copiedRecvMsgs # <<>>
    /\ handled' = Append(handled, Head(copiedRecvMsgs))
    /\ copiedRecvMsgs' = Tail(copiedRecvMsgs)
    /\ UNCHANGED <<recvMsgQueue, pc, stale, pushed, lost>>

(* The copy is worked off; the next EV_UPDATE comes. *)
UpdateEnd ==
    /\ pc = "proc" /\ copiedRecvMsgs = <<>>
    /\ pc' = "waiting"
    /\ UNCHANGED <<recvMsgQueue, copiedRecvMsgs, stale, pushed, handled, lost>>

Update == CopyRecvMsg_Copy \/ CopyRecvMsg_Pop \/ CopyRecvMsg_End
            \/ ProcMsg \/ UpdateEnd

Next == (\E m \in Messages : PushMsg(m)) \/ Update

Spec == Init /\ [][Next]_vars

(* World::Update goes on, and comes again: EventLoop's WorldKeepsUpdating. *)
FairSpec == Spec /\ WF_vars(Update)

-----------------------------------------------------------------------------
TypeOK ==
    /\ recvMsgQueue \in Seq(Messages)
    /\ copiedRecvMsgs \in Seq(Messages)
    /\ pc \in {"waiting", "clear", "proc"}
    /\ stale \in 0..Len(recvMsgQueue)
    /\ pushed \subseteq Messages
    /\ handled \in Seq(Messages)
    /\ lost \subseteq Messages

Elements(s) == {s[i] : i \in DOMAIN s}

(* The requests of one player are carried out in the order it sent them,   *)
(* and none of them twice, though for a while it is in two queues.         *)
HandledInOrder ==
    \A i, j \in DOMAIN handled :
      i < j /\ handled[i].id = handled[j].id => handled[i].no < handled[j].no

(* The part of recvMsgQueue that has not been copied. *)
Fresh == SubSeq(recvMsgQueue, stale + 1, Len(recvMsgQueue))

(* A pushed request is in one of four places: waiting, copied, handled, or *)
(* cleared unseen. It is never in two, and vanishes from nowhere else. The *)
(* count of what is copied already never exceeds the queue.                *)
EveryMsgAccounted ==
    /\ TypeOK
    /\ pushed = Elements(Fresh) \cup Elements(copiedRecvMsgs)
                  \cup Elements(handled) \cup lost
    /\ Cardinality(pushed) = Len(Fresh) + Len(copiedRecvMsgs)
                               + Len(handled) + Cardinality(lost)

(* The queues implement a lossy channel: transit is the copy followed by   *)
(* what has not been copied.                                               *)
Lossy == INSTANCE LossyFifo
           WITH sent <- pushed, transit <- copiedRecvMsgs \o Fresh,
                delivered <- handled
Channel == Lossy!Spec

(* A request that is not cleared unseen is carried out in the end. *)
HandledIfNotLost ==
    \A m \in Messages : m \in pushed ~> m \in Elements(handled) \/ m \in lost

(* "hand over the msg to be processed" (WorkerThread.cpp:243): every       *)
(* request a worker hands over is carried out.                             *)
EveryMsgHandled ==
    \A m \in Messages : m \in pushed ~> m \in Elements(handled)
=============================================================================
