----------------------------- MODULE LectureServers -----------------------------
(* The AI server and the multithreaded server: the initial state picks one *)
(* server, and no step changes it - an AI server of AiServers, a record of *)
(* its sizes, or the multithreaded one, named MtIocp.                      *)
(*                                                                         *)
(* The two have most of their variables in common; those that one of them  *)
(* does not have are 0 in it.                                              *)
EXTENDS Integers, FiniteSets

CONSTANTS
    AiServers,  \* [users, npcStart, width, height, radius, workers, lives, failures]
    MtIocp,
    MAX_USER, Workers, MaxClients, Lives    \* of the multithreaded server

VARIABLES server, state, pos, view, active, due, slock, shown, lives, failed,
          aborted, task, alone, healed, open

aiOnly == <<pos, view, active, due, failed, alone, healed>>
vars == <<server, state, slock, shown, lives, aborted, task, open, aiOnly>>

Ai(c) == INSTANCE AiServer WITH MAX_USER <- c.users, NPC_START <- c.npcStart,
    WORLD_X_SIZE <- c.width, WORLD_Y_SIZE <- c.height, VIEW_RADIUS <- c.radius,
    Workers <- c.workers, Lives <- c.lives, Failures <- c.failures

Mt == INSTANCE MtServer WITH m_state <- state, owner <- slock

ASSUME LectureServersAssumption ==
    /\ \A c \in AiServers : Ai(c)!AiServerAssumption
    /\ MtIocp \notin AiServers
    /\ Mt!MtServerAssumption /\ MaxClients < MAX_USER

Init ==
    \/ /\ \E c \in AiServers : server = c /\ Ai(c)!Init
       /\ open = 0
    \/ /\ server = MtIocp /\ Mt!Init
       /\ pos = 0 /\ view = 0 /\ active = 0 /\ due = 0
       /\ failed = 0 /\ alone = 0 /\ healed = 0

Next ==
    /\ \/ /\ \E c \in AiServers : server = c /\ Ai(c)!Next
          /\ UNCHANGED open
       \/ /\ server = MtIocp /\ Mt!Next
          /\ UNCHANGED aiOnly
    /\ UNCHANGED server

Spec == Init /\ [][Next]_vars

-----------------------------------------------------------------------------
TypeOK ==
    /\ \A c \in AiServers : server = c => Ai(c)!TypeOK
    /\ server = MtIocp => Mt!TypeOK

(* do_move, do_npc_random_move, login and disconnect between them keep the *)
(* view lists: when they run one after the other, each player in the game  *)
(* lists what it sees; each client shows nothing else than its player      *)
(* sees; and between the first clients of two slots the list names nothing *)
(* else either, the client shows all of it, and is never told that an      *)
(* object it does not show has moved. A slot's next client inherits a list *)
(* and places in lists, which a disconnect does not clear.                 *)
ListsMatchSight ==
    \A c \in AiServers :
        server = c /\ Cardinality(c.workers) = 1 /\ c.failures = 0 =>
            Ai(c)!ListIsSight /\ Ai(c)!ClientShowsSight /\ Ai(c)!MovesAreOfShown

(* Overlapping handlers leave wrong lists behind; a move that no other     *)
(* handler overlaps repairs its player's.                                  *)
MovesRepair == \A c \in AiServers : server = c => Ai(c)!MovesRepair

(* wake_up_npc, OP_RANDO_MOVE: an NPC that was seen once has exactly one   *)
(* turn outstanding or running, whoever wakes it.                          *)
OneTurnPerNpc == \A c \in AiServers : server = c => Ai(c)!OneTurnPerNpc

(* The m_slocks and m_s_locks: workers that wait for each other include    *)
(* two logins or, in the AI server, a worker that waits for itself in the  *)
(* disconnect of a failed send. One worker alone is never stuck, as long   *)
(* as the last slot of the multithreaded server is not taken.              *)
OnlyLoginsDeadlock ==
    /\ \A c \in AiServers : server = c => Ai(c)!OnlyLoginsDeadlock
    /\ server = MtIocp => Mt!OnlyLoginsDeadlock

(* However logins and disconnects overlap, in the end a client of the      *)
(* multithreaded server shows nobody who has left, and everybody else, but *)
(* perhaps one whose add the removal of its slot's last client overtook.   *)
EveryoneShown == server = MtIocp => Mt!EveryoneShown
=============================================================================
