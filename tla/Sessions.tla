------------------------------- MODULE Sessions -------------------------------
(***************************************************************************)
(* The client slots of SR::g_users: the accept thread that fills them, the *)
(* workers that log a client in and out and disconnect it, and the         *)
(* overlapped operations that come back with the number of a slot as their *)
(* only address, whoever holds the slot by then.                           *)
(*                                                                         *)
(* Every accepted connection gets a CLIENT of its own, which is never      *)
(* deleted, so that a connection stands for its CLIENT, too.               *)
(*                                                                         *)
(*   users      SR::g_users: the CLIENT in each slot; None is the one of   *)
(*              CreatePlayerSlot, without a socket and without a Player    *)
(*   isConnect  CLIENT::isConnect                                          *)
(*   zeroed     the CLIENT was overwritten with zeros: m_s and cur are null *)
(*   garbled    a completion that was not its own went through the CLIENT's *)
(*              receive buffer                                             *)
(*   slot       the completion key of a connection's socket                *)
(*   peer       what the client did with the connection                    *)
(*   packets    how many packets the client has still to send              *)
(*   recv       for the m_recv_over of each CLIENT: the socket it waits on *)
(*              and whether its WSABUF has room                            *)
(*   sends      a WSASend to the connection is in flight                   *)
(*   acceptor   the connection that ServerMain::Run has in hand            *)
(*   pc, job    where a worker is, and the completion it handles           *)
(*   s, todo    its local s, and the slots left in the loop of CS_LOGIN    *)
(*   userLock   the holder of ATOMIC::g_user_lock                          *)
(*   worldFull  m_curPlayerNum >= MAX_USER                                 *)
(*   logins     whether a client has asked to log in, and had its answer   *)
(*   down       why the process has ended                                  *)
(*                                                                         *)
(* How packets are put together is PacketStream's, and what becomes of a   *)
(* CS_MOVE that is handed to the world is MsgQueue's: here a receive       *)
(* brings one packet.                                                      *)
(***************************************************************************)
EXTENDS Integers

CONSTANTS
    Workers,        \* the worker threads
    Conns,          \* the connections that clients make
    NPC_ID_START,   \* the number of client slots
    EVENT_KEY,      \* the completion key of the events of the world
    None,
    Requests,       \* the packets that clients send
    Endings,        \* how a connection may end: "closed" or "reset"
    Asserts,        \* assert is compiled in (a build without NDEBUG)
    MaxPackets,     \* bound: packets sent on a connection
    Updated         \* bound: the slots that World::Update sends to

(* CS_MOVE stands for every packet that leaves the sessions as they are. *)
AllRequests == {"CS_LOGIN", "CS_DUMMY_LOGIN", "CS_MOVE", "CS_LOGOUT"}

ASSUME SessionsAssumption ==
    /\ NPC_ID_START \in Nat
    /\ EVENT_KEY \in Nat
    /\ None \notin Conns \cup Workers \cup 0..(NPC_ID_START - 1)
    /\ Requests \subseteq AllRequests
    /\ Endings \subseteq {"closed", "reset"}
    /\ Asserts \in BOOLEAN
    /\ MaxPackets \in Nat
    /\ Updated \subseteq 0..(NPC_ID_START - 1)

Slots == 0..(NPC_ID_START - 1)

VARIABLES users, isConnect, zeroed, garbled, slot, peer, packets, recv, sends,
          acceptor, pc, job, s, todo, userLock, worldFull, logins, down

clients == <<users, isConnect, zeroed, garbled, slot, acceptor>>
locals  == <<job, s, todo>>
vars    == <<users, isConnect, zeroed, garbled, slot, peer, packets, recv, sends,
             acceptor, pc, job, s, todo, userLock, worldFull, logins, down>>

NotWaiting == [on |-> None, room |-> FALSE]
NoJob      == [type |-> "none", over |-> None, on |-> None, bytes |-> FALSE]

Init ==
    /\ users     = [k \in Slots |-> None]
    /\ isConnect = [c \in Conns |-> FALSE]
    /\ zeroed    = [c \in Conns |-> FALSE]
    /\ garbled   = [c \in Conns |-> FALSE]
    /\ slot      = [c \in Conns |-> None]
    /\ peer      = [c \in Conns |-> "idle"]
    /\ packets   = [c \in Conns |-> MaxPackets]
    /\ recv      = [c \in Conns |-> NotWaiting]
    /\ sends     = [c \in Conns |-> FALSE]
    /\ acceptor  = None
    /\ pc        = [w \in Workers |-> "gqcs"]
    /\ job       = [w \in Workers |-> NoJob]
    /\ s         = [w \in Workers |-> None]
    /\ todo      = [w \in Workers |-> {}]
    /\ userLock  = None
    /\ worldFull \in BOOLEAN    \* m_curPlayerNum is not initialised
    /\ logins    = [c \in Conns |-> "none"]
    /\ down      = "no"

Running == down = "no"

(* g_users[k]->m_s and g_users[k]->cur are not null. *)
HasClient(k) == users[k] # None /\ ~zeroed[users[k]]

(* g_users[k]->isConnect *)
Connected(k) == users[k] # None /\ isConnect[users[k]]

Key(w) == slot[job[w].on]

Goto(w, l) == pc' = [pc EXCEPT ![w] = l]

(* Back to GetQueuedCompletionStatus *)
Finish(w) ==
    /\ Goto(w, "gqcs")
    /\ job' = [job EXCEPT ![w] = NoJob]
    /\ s' = [s EXCEPT ![w] = None]
    /\ UNCHANGED todo

(* The process ends: an assertion, or an access through a null pointer. *)
Stop(why) ==
    /\ down' = why
    /\ UNCHANGED <<clients, peer, packets, recv, sends, pc, locals, userLock,
                   worldFull, logins>>

(* SendPacket to the slots of K. Nothing is sent without a socket, and     *)
(* nothing comes back from a socket that is not in the port yet. On a      *)
(* connection that was reset WSASend may fail, which is asserted not to    *)
(* happen.                                                                 *)
Send(K) ==
    LET to == {c \in Conns : \E k \in K : c = users[k] /\ ~zeroed[c]} \ {acceptor}
    IN \E failed \in SUBSET {c \in to : peer[c] = "reset"} :
         /\ sends' = [c \in Conns |-> sends[c] \/ c \in to \ failed]
         /\ down' = IF Asserts /\ failed # {} THEN "WSASend" ELSE down

(* SC_LOGIN_OK or SC_LOGIN_FAIL to slot k *)
Answer(k) ==
    /\ Send({k})
    /\ logins' = [c \in Conns |->
         IF c = users[k] /\ ~zeroed[c] /\ logins[c] = "asked"
         THEN "answered" ELSE logins[c]]

-----------------------------------------------------------------------------
(* Slips, each of which breaks the property named with it. No              *)
(* specification uses them.                                                *)

(* ConnectedIsInItsSlot, OneOwner: the last slot that is looked at is      *)
(* taken, connected or not.                                                *)
SlipFirstFree(k) == \A i \in Slots : i < k => Connected(i)

(* TypeOK: the scan for a slot goes on to the first NPC. *)
SlipAccept(c) ==
    /\ Running
    /\ acceptor = None /\ peer[c] = "idle"
    /\ \E k \in 0..NPC_ID_START :
         /\ k \in Slots => ~Connected(k)
         /\ \A i \in Slots : i < k => Connected(i)
         /\ users' = [users EXCEPT ![k] = c]
         /\ slot' = [slot EXCEPT ![c] = k]
    /\ isConnect' = [isConnect EXCEPT ![c] = TRUE]
    /\ peer' = [peer EXCEPT ![c] = "open"]
    /\ acceptor' = c
    /\ UNCHANGED <<zeroed, garbled, packets, recv, sends, pc, locals, userLock,
                   worldFull, logins, down>>

(* ClosedSlotIsFreed: a receive of no bytes is not the end of the          *)
(* connection, but is posted again.                                        *)
SlipGetSocket(w) ==
    /\ Running
    /\ pc[w] = "socket"
    /\ HasClient(Key(w))
    /\ s' = [s EXCEPT ![w] = users[Key(w)]]
    /\ Goto(w, IF job[w].type = "EV_SEND" THEN "delete"
               ELSE IF job[w].bytes THEN "packet" ELSE "rearm")
    /\ UNCHANGED <<clients, peer, packets, recv, sends, job, todo, userLock,
                   worldFull, logins, down>>

(* ConnectedSlotListens: no receive is posted after a packet. *)
SlipRearm(w) ==
    /\ Running
    /\ pc[w] = "rearm"
    /\ Finish(w)
    /\ UNCHANGED <<clients, peer, packets, recv, sends, userLock, worldFull,
                   logins, down>>

-----------------------------------------------------------------------------
(* ServerMain::Run and the clients                                         *)

(* The scan for a slot: the first whose client is not connected. *)
FirstFree(k) == ~Connected(k) /\ \A i \in Slots : i < k => Connected(i)

(* The first free slot gets a new CLIENT with the socket of connection c.  *)
Accept(c) ==
    /\ Running
    /\ acceptor = None /\ peer[c] = "idle"
    /\ \E k \in Slots :
         /\ FirstFree(k)
         /\ users' = [users EXCEPT ![k] = c]
         /\ slot' = [slot EXCEPT ![c] = k]
    /\ isConnect' = [isConnect EXCEPT ![c] = TRUE]
    /\ peer' = [peer EXCEPT ![c] = "open"]
    /\ acceptor' = c
    /\ UNCHANGED <<zeroed, garbled, packets, recv, sends, pc, locals, userLock,
                   worldFull, logins, down>>

(* No slot is free: user_id is -1, and without the assertion the CLIENT    *)
(* goes where there is no slot, which ends what can be said of the process. *)
NoMoreSlot ==
    /\ Running
    /\ acceptor = None
    /\ \E c \in Conns : peer[c] = "idle"
    /\ \A k \in Slots : Connected(k)
    /\ Stop("no_more_slot")

(* The socket is put in the port, and the first receive posted on it. *)
FirstReceive ==
    /\ Running
    /\ acceptor # None
    /\ acceptor' = None
    /\ \/ /\ recv' = [recv EXCEPT ![acceptor] =
                        [on |-> acceptor, room |-> ~zeroed[acceptor]]]
          /\ UNCHANGED down
       \/ /\ peer[acceptor] = "reset"
          /\ down' = IF Asserts THEN "WSAReceive" ELSE down
          /\ UNCHANGED recv
    /\ UNCHANGED <<users, isConnect, zeroed, garbled, slot, peer, packets, sends,
                   pc, locals, userLock, worldFull, logins>>

PeerEnds(c) ==
    /\ Running
    /\ peer[c] = "open"
    /\ \E e \in Endings : peer' = [peer EXCEPT ![c] = e]
    /\ UNCHANGED <<clients, packets, recv, sends, pc, locals, userLock,
                   worldFull, logins, down>>

(* World::Update tells the client in slot k something. *)
UpdateSends(k) ==
    /\ Running
    /\ Send({k})
    /\ UNCHANGED <<clients, peer, packets, recv, pc, locals, userLock,
                   worldFull, logins>>

-----------------------------------------------------------------------------
(* WorkerThread::ProcThread                                                *)

(* Worker w has taken completion j from the port. For the key EVENT_KEY it *)
(* goes straight to the switch, with s uninitialised; for a client it      *)
(* looks for the socket first.                                             *)
Dequeue(w, j) ==
    LET k == slot[j.on] IN
    \/ /\ k = EVENT_KEY
       /\ \E c \in {None} \cup {d \in Conns : peer[d] # "idle"} :
            s' = [s EXCEPT ![w] = c]
       /\ Goto(w, IF j.type = "EV_SEND" THEN "delete"
                  ELSE IF j.bytes THEN "packet" ELSE "rearm")
       /\ job' = [job EXCEPT ![w] = j]
       /\ UNCHANGED <<todo, down>>
    \/ /\ k # EVENT_KEY /\ HasClient(k)
       /\ Goto(w, "socket")
       /\ job' = [job EXCEPT ![w] = j]
       /\ UNCHANGED <<s, todo, down>>
    \/ /\ k # EVENT_KEY /\ ~HasClient(k)
       /\ down' = IF Asserts THEN "nullptr_socket" ELSE down
       /\ UNCHANGED <<pc, locals>>

(* The receive of the CLIENT of o completes: with a packet, or with no     *)
(* byte at the end of the connection or for want of room.                  *)
TakeReceive(w, o) ==
    /\ Running
    /\ pc[w] = "gqcs" /\ recv[o].on # None
    /\ LET c == recv[o].on IN \E bytes \in BOOLEAN :
         /\ \/ bytes /\ recv[o].room /\ packets[c] > 0
            \/ ~bytes /\ peer[c] # "open"
            \/ ~bytes /\ ~recv[o].room /\ packets[c] > 0
         /\ packets' = IF bytes THEN [packets EXCEPT ![c] = @ - 1] ELSE packets
         /\ Dequeue(w, [type |-> "EV_RECV", over |-> o, on |-> c, bytes |-> bytes])
    /\ recv' = [recv EXCEPT ![o] = NotWaiting]
    /\ UNCHANGED <<clients, peer, sends, userLock, worldFull, logins>>

(* A send to connection c completes: it may fail when the client is gone. *)
TakeSend(w, c) ==
    /\ Running
    /\ pc[w] = "gqcs" /\ sends[c]
    /\ \E bytes \in BOOLEAN :
         /\ ~bytes => peer[c] # "open"
         /\ Dequeue(w, [type |-> "EV_SEND", over |-> None, on |-> c, bytes |-> bytes])
    /\ sends' = [sends EXCEPT ![c] = FALSE]
    /\ UNCHANGED <<clients, peer, packets, recv, userLock, worldFull, logins>>

(* s = g_users[key]->m_s->GetSocket(), some time after m_s was tested *)
GetSocket(w) ==
    /\ Running
    /\ pc[w] = "socket"
    /\ \/ ~HasClient(Key(w)) /\ Stop("null_pointer")
       \/ /\ HasClient(Key(w))
          /\ s' = [s EXCEPT ![w] = users[Key(w)]]
          /\ Goto(w, IF ~job[w].bytes THEN "disconnect"
                     ELSE IF job[w].type = "EV_SEND" THEN "delete" ELSE "packet")
          /\ UNCHANGED <<clients, peer, packets, recv, sends, job, todo, userLock,
                         worldFull, logins, down>>

DeleteSend(w) ==
    /\ Running
    /\ pc[w] = "delete"
    /\ Finish(w)
    /\ UNCHANGED <<clients, peer, packets, recv, sends, userLock, worldFull,
                   logins, down>>

(* The label at which ProcPacket goes on with request r. *)
Handler ==
    [CS_LOGIN  |-> "findid", CS_DUMMY_LOGIN |-> "dummy",
     CS_LOGOUT |-> "logout", CS_MOVE        |-> "rearm"]

(* The bytes came to the receive buffer of the CLIENT of ex_over, but it   *)
(* is the buffer of the CLIENT in the slot that is read.                   *)
OwnBuffer(w) ==
    LET u == users[Key(w)]
    IN job[w].over = u /\ job[w].on = u /\ ~zeroed[u] /\ ~garbled[u]

RecvPacket(w) ==
    /\ Running
    /\ pc[w] = "packet" /\ OwnBuffer(w)
    /\ \E r \in Requests :
         /\ Goto(w, Handler[r])
         /\ logins' = IF r = "CS_LOGIN" THEN [logins EXCEPT ![job[w].on] = "asked"]
                                        ELSE logins
    /\ UNCHANGED <<clients, peer, packets, recv, sends, locals, userLock,
                   worldFull, down>>

(* If it is not its own, the loop reads what is left there: any packet, a  *)
(* piece of one, or zeros, of which it makes packets of length 0 for ever. *)
RecvGarbage(w) ==
    /\ Running
    /\ pc[w] = "packet" /\ ~OwnBuffer(w)
    /\ \E l \in {Handler[r] : r \in Requests} \cup {"rearm", "hung"} : Goto(w, l)
    /\ garbled' = [garbled EXCEPT ![users[Key(w)]] = TRUE]
    /\ UNCHANGED <<users, isConnect, zeroed, slot, acceptor, peer, packets, recv,
                   sends, locals, userLock, worldFull, logins, down>>

(* WSARecv(s, ex_over): an error leaves the worker in while (1). *)
Rearm(w) ==
    /\ Running
    /\ pc[w] = "rearm"
    /\ \/ /\ s[w] # None
          /\ recv' = [recv EXCEPT ![job[w].over] =
                        [on |-> s[w], room |-> ~zeroed[job[w].over]]]
          /\ Finish(w)
       \/ /\ s[w] # None => peer[s[w]] = "reset"
          /\ Goto(w, "hung")
          /\ UNCHANGED <<recv, locals>>
    /\ UNCHANGED <<clients, peer, packets, sends, userLock, worldFull, logins, down>>

-----------------------------------------------------------------------------
(* WorkerThread::ProcPacket                                                *)

(* CS_LOGIN, down to the end of "load db": the account is unknown, or is   *)
(* read into g_users[id]->cur.                                             *)
FindID(w) ==
    /\ Running
    /\ pc[w] = "findid"
    /\ \/ /\ Answer(Key(w))
          /\ Goto(w, "rearm")
          /\ UNCHANGED <<clients, peer, packets, recv, locals, userLock, worldFull>>
       \/ ~HasClient(Key(w)) /\ Stop("null_pointer")
       \/ /\ HasClient(Key(w))
          /\ Goto(w, "enter")
          /\ UNCHANGED <<clients, peer, packets, recv, sends, locals, userLock,
                         worldFull, logins, down>>

(* World::EnterPlayer: unless the count of players is at its limit, cur of *)
(* every slot is read. All players have is_empty set, so that the loop     *)
(* does not end before the last slot.                                      *)
EnterPlayer(w) ==
    /\ Running
    /\ pc[w] \in {"enter", "enterDummy"}
    /\ worldFull \/ userLock = None
    /\ \/ /\ ~worldFull /\ \E k \in Slots : ~HasClient(k)
          /\ Stop("null_pointer")
       \/ /\ worldFull \/ \A k \in Slots : HasClient(k)
          /\ Goto(w, IF pc[w] = "enter" THEN "ok" ELSE "rearm")
          /\ UNCHANGED <<clients, peer, packets, recv, sends, locals, userLock,
                         worldFull, logins, down>>

SendLoginOK(w) ==
    /\ Running
    /\ pc[w] = "ok"
    /\ \/ ~HasClient(Key(w)) /\ Stop("null_pointer")
       \/ /\ HasClient(Key(w))
          /\ Answer(Key(w))
          /\ Goto(w, "others")
          /\ todo' = [todo EXCEPT ![w] = Slots \ {Key(w)}]
          /\ UNCHANGED <<clients, peer, packets, recv, job, s, userLock, worldFull>>

(* The loop over the other clients: isConnect of the next one is tested. *)
TestOther(w) ==
    /\ Running
    /\ pc[w] = "others"
    /\ \E i \in todo[w] :
         /\ \A j \in todo[w] : i <= j
         /\ IF Connected(i)
            THEN Goto(w, "near") /\ UNCHANGED todo
            ELSE todo' = [todo EXCEPT ![w] = @ \ {i}] /\ UNCHANGED pc
    /\ UNCHANGED <<clients, peer, packets, recv, sends, job, s, userLock,
                   worldFull, logins, down>>

(* isNear reads both players, and each may be told of the other. *)
GreetOther(w) ==
    /\ Running
    /\ pc[w] = "near"
    /\ \E i \in todo[w] :
         /\ \A j \in todo[w] : i <= j
         /\ \/ /\ ~HasClient(i) \/ ~HasClient(Key(w))
               /\ Stop("null_pointer")
            \/ /\ HasClient(i) /\ HasClient(Key(w))
               /\ \E K \in SUBSET {i, Key(w)} : Send(K)
               /\ Goto(w, "others")
               /\ todo' = [todo EXCEPT ![w] = @ \ {i}]
               /\ UNCHANGED <<clients, peer, packets, recv, job, s, userLock,
                              worldFull, logins>>

(* The loop over the NPCs. *)
GreetNpcs(w) ==
    /\ Running
    /\ pc[w] = "others" /\ todo[w] = {}
    /\ \/ ~HasClient(Key(w)) /\ Stop("null_pointer")
       \/ /\ HasClient(Key(w))
          /\ \E K \in SUBSET {Key(w)} : Send(K)
          /\ Goto(w, "rearm")
          /\ UNCHANGED <<clients, peer, packets, recv, locals, userLock, worldFull,
                         logins>>

(* CS_DUMMY_LOGIN: the answer first *)
DummyLogin(w) ==
    /\ Running
    /\ pc[w] = "dummy"
    /\ \/ ~HasClient(Key(w)) /\ Stop("null_pointer")
       \/ /\ HasClient(Key(w))
          /\ Answer(Key(w))
          /\ Goto(w, "enterDummy")
          /\ UNCHANGED <<clients, peer, packets, recv, locals, userLock, worldFull>>

(* CS_LOGOUT: the player is saved, and the slot is free from here on; the  *)
(* socket stays open, and the worker will go on to receive from it.        *)
Logout(w) ==
    /\ Running
    /\ pc[w] = "logout"
    /\ \/ ~HasClient(Key(w)) /\ Stop("null_pointer")
       \/ /\ HasClient(Key(w))
          /\ isConnect' = [isConnect EXCEPT ![users[Key(w)]] = FALSE]
          /\ Goto(w, "reset")
          /\ UNCHANGED <<users, zeroed, garbled, slot, acceptor, peer, packets,
                         recv, sends, locals, userLock, worldFull, logins, down>>

(* cur->Reset() *)
ResetPlayer(w) ==
    /\ Running
    /\ pc[w] = "reset"
    /\ \/ ~HasClient(Key(w)) /\ Stop("null_pointer")
       \/ /\ HasClient(Key(w))
          /\ Goto(w, "rearm")
          /\ UNCHANGED <<clients, peer, packets, recv, sends, locals, userLock,
                         worldFull, logins, down>>

-----------------------------------------------------------------------------
(* WorkerThread::DisconnectClient                                          *)

(* The lock is taken, and the slot is free for the accept thread, which    *)
(* does not take the lock.                                                 *)
ClearConnect(w) ==
    /\ Running
    /\ pc[w] = "disconnect" /\ userLock = None
    /\ userLock' = w
    /\ isConnect' = [isConnect EXCEPT ![users[Key(w)]] = FALSE]
    /\ Goto(w, "zero")
    /\ UNCHANGED <<users, zeroed, garbled, slot, acceptor, peer, packets, recv,
                   sends, locals, worldFull, logins, down>>

(* ZeroMemory of whatever CLIENT is in the slot by now, m_s = nullptr *)
ZeroClient(w) ==
    /\ Running
    /\ pc[w] = "zero"
    /\ isConnect' = [isConnect EXCEPT ![users[Key(w)]] = FALSE]
    /\ zeroed' = [zeroed EXCEPT ![users[Key(w)]] = TRUE]
    /\ userLock' = None
    /\ Finish(w)
    /\ UNCHANGED <<users, garbled, slot, acceptor, peer, packets, recv, sends,
                   worldFull, logins, down>>

-----------------------------------------------------------------------------
Handle(w) ==
    \/ GetSocket(w) \/ DeleteSend(w) \/ RecvPacket(w) \/ RecvGarbage(w) \/ Rearm(w)
    \/ FindID(w) \/ EnterPlayer(w) \/ SendLoginOK(w) \/ TestOther(w)
    \/ GreetOther(w) \/ GreetNpcs(w) \/ DummyLogin(w) \/ Logout(w) \/ ResetPlayer(w)
    \/ ClearConnect(w) \/ ZeroClient(w)

Next ==
    \/ \E c \in Conns : Accept(c) \/ PeerEnds(c)
    \/ NoMoreSlot \/ FirstReceive
    \/ \E k \in Updated : UpdateSends(k)
    \/ \E w \in Workers :
         \/ \E c \in Conns : TakeReceive(w, c) \/ TakeSend(w, c)
         \/ Handle(w)

Spec == Init /\ [][Next]_vars

(* The threads go on, and what has come to the port is taken from it. *)
Fairness ==
    /\ WF_vars(FirstReceive)
    /\ \A w \in Workers : WF_vars(Handle(w))
    /\ \A c \in Conns : SF_vars(\E w \in Workers : TakeReceive(w, c))

FairSpec == Spec /\ Fairness

-----------------------------------------------------------------------------
Labels == {"gqcs", "socket", "delete", "packet", "rearm", "hung", "findid", "enter",
           "enterDummy", "ok", "others", "near", "dummy", "logout", "reset",
           "disconnect", "zero"}

Reasons == {"no", "no_more_slot", "nullptr_socket", "null_pointer",
            "WSASend", "WSAReceive"}

TypeOK ==
    /\ users \in [Slots -> Conns \cup {None}]
    /\ isConnect \in [Conns -> BOOLEAN]
    /\ zeroed \in [Conns -> BOOLEAN]
    /\ garbled \in [Conns -> BOOLEAN]
    /\ slot \in [Conns -> Slots \cup {None}]
    /\ peer \in [Conns -> {"idle", "open", "closed", "reset"}]
    /\ packets \in [Conns -> 0..MaxPackets]
    /\ recv \in [Conns -> [on : Conns \cup {None}, room : BOOLEAN]]
    /\ sends \in [Conns -> BOOLEAN]
    /\ acceptor \in Conns \cup {None}
    /\ pc \in [Workers -> Labels]
    /\ job \in [Workers -> [type : {"none", "EV_RECV", "EV_SEND"},
                            over : Conns \cup {None}, on : Conns \cup {None},
                            bytes : BOOLEAN]]
    /\ s \in [Workers -> Conns \cup {None}]
    /\ todo \in [Workers -> SUBSET Slots]
    /\ userLock \in Workers \cup {None}
    /\ worldFull \in BOOLEAN
    /\ logins \in [Conns -> {"none", "asked", "answered"}]
    /\ down \in Reasons

(* A client that counts as connected is the one in its slot: none is left  *)
(* behind with isConnect set where nobody will ever clear it, whatever     *)
(* accept and DisconnectClient do to the slot at the same time.            *)
ConnectedIsInItsSlot ==
    \A c \in Conns : isConnect[c] => slot[c] \in Slots /\ users[slot[c]] = c

(* Worker w handles a receive of connection c, and will come to its end. *)
Receiving(w, c) == job[w].type = "EV_RECV" /\ job[w].on = c /\ pc[w] # "hung"

(* A connected slot listens: a receive waits on its socket or is being     *)
(* handled, so that the end of the connection will be noticed and the slot *)
(* freed. This is for slots other than EVENT_KEY, connections that are not *)
(* reset, and a CLIENT whose buffer no other completion went through.      *)
ConnectedSlotListens ==
    \A k \in Slots \ {EVENT_KEY} :
      LET c == users[k] IN
      Connected(k) /\ acceptor # c /\ peer[c] # "reset" /\ ~garbled[c] =>
        \/ \E o \in Conns : recv[o].on = c
        \/ \E w \in Workers : Receiving(w, c)

(* The assertion in ProcThread: a completion never comes for a client      *)
(* whose socket is gone.                                                   *)
NoNullSocket == down # "nullptr_socket"

(* The slots behave as SlotOwners says. *)
Owners == INSTANCE SlotOwners WITH
    owner  <- [k \in Slots |-> IF Connected(k) THEN users[k] ELSE None],
    served <- {c \in Conns : slot[c] # None}
OneOwner == Owners!Spec

(* The slot of a client that closes its connection is freed, as long as    *)
(* the process runs and not all workers are stuck in a loop.               *)
ClosedSlotIsFreed ==
    \A c \in Conns :
      (isConnect[c] /\ peer[c] = "closed" /\ slot[c] # EVENT_KEY) ~>
        \/ ~isConnect[c] \/ garbled[c] \/ down # "no"
        \/ \A w \in Workers : pc[w] = "hung"

(* CS_LOGIN has its answer, SC_LOGIN_OK or SC_LOGIN_FAIL. *)
EveryLoginAnswered ==
    \A c \in Conns : logins[c] = "asked" ~> logins[c] = "answered"
=============================================================================
