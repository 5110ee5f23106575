---------------------------- MODULE SessionsProofs ----------------------------
(***************************************************************************)
(* Sessions for any number of workers, connections and slots, any requests *)
(* and ways to end, with or without assertions.                            *)
(*                                                                         *)
(* ConnectedSlotListens is not inductive. IInv adds that a CLIENT is in    *)
(* one slot, the one its socket has for a key (SlotInv); that whatever is  *)
(* in flight has a key that is a slot (KeyInv); that an m_recv_over is     *)
(* posted or handled once at a time (OverInv); and that the worker that    *)
(* handles a receive of a connected client has that client's socket in its *)
(* local s when it comes to post the next one (SocketInv).                 *)
(***************************************************************************)
EXTENDS Sessions, TLAPS

SlotInv ==
    /\ \A k \in Slots : users[k] # None => slot[users[k]] = k
    /\ \A c \in Conns : peer[c] = "idle" => slot[c] = None /\ ~zeroed[c]
    /\ \A c \in Conns : peer[c] # "idle" => slot[c] \in Slots
    /\ \A c \in Conns : isConnect[c] => ~zeroed[c]
    /\ ConnectedIsInItsSlot

KeyInv ==
    /\ acceptor # None => slot[acceptor] \in Slots
    /\ \A o \in Conns : recv[o].on # None => slot[recv[o].on] \in Slots
    /\ \A c \in Conns : sends[c] => slot[c] \in Slots
    /\ \A w \in Workers :
         /\ pc[w] = "gqcs" <=> job[w].on = None
         /\ job[w].on # None => slot[job[w].on] \in Slots
         /\ s[w] # None => slot[s[w]] \in Slots

OverInv ==
    /\ \A w \in Workers :
         /\ job[w].type = "EV_RECV" => job[w].over # None
         /\ pc[w] = "delete" => job[w].type = "EV_SEND"
         /\ job[w].over # None => recv[job[w].over].on = None
    /\ \A v, w \in Workers : v # w /\ job[v].over # None => job[v].over # job[w].over
    /\ acceptor # None => peer[acceptor] # "idle"
    /\ \A o \in Conns : peer[o] = "idle" \/ acceptor = o =>
         recv[o].on = None /\ \A w \in Workers : job[w].over # o

(* Where a worker that handles a packet of a client has read s. *)
AfterSocket == Labels \ {"gqcs", "socket", "delete", "disconnect", "zero"}

SocketInv ==
    \A w \in Workers : \A c \in Conns :
      /\ isConnect[c] /\ slot[c] # EVENT_KEY
      /\ job[w].type = "EV_RECV" /\ job[w].on = c
      /\ pc[w] \in AfterSocket
      => s[w] = c

IInv ==
    TypeOK /\ SlotInv /\ KeyInv /\ OverInv /\ SocketInv /\ ConnectedSlotListens
-----------------------------------------------------------------------------
(* A worker with a completion in hand has a key that is a slot. *)
LEMMA KeyType ==
    ASSUME TypeOK, KeyInv, NEW w \in Workers, pc[w] # "gqcs"
    PROVE  job[w].on \in Conns /\ Key(w) \in Slots
  BY DEF TypeOK, KeyInv, Key

(* Sending, and answering a login, keep the types.                         *)
LEMMA SendType ==
    ASSUME TypeOK, NEW K, Send(K)
    PROVE  sends' \in [Conns -> BOOLEAN] /\ down' \in Reasons
  BY DEF TypeOK, Send, Reasons

LEMMA AnswerType ==
    ASSUME TypeOK, NEW k, Answer(k)
    PROVE  /\ sends' \in [Conns -> BOOLEAN] /\ down' \in Reasons
           /\ logins' \in [Conns -> {"none", "asked", "answered"}]
  BY SendType DEF TypeOK, Answer

Jobs == [type : {"none", "EV_RECV", "EV_SEND"}, over : Conns \cup {None},
         on : Conns \cup {None}, bytes : BOOLEAN]

(* What the port hands out is a completion of a receive or of a send. *)
Completion == [type : {"EV_RECV", "EV_SEND"}, over : Conns \cup {None},
               on : Conns, bytes : BOOLEAN]

(* Taking a completion from the port keeps the types of a worker's locals. *)
LEMMA DequeueType ==
    ASSUME TypeOK, NEW w \in Workers, NEW j \in Completion, Dequeue(w, j)
    PROVE  /\ pc' \in [Workers -> Labels] /\ down' \in Reasons
           /\ s' \in [Workers -> Conns \cup {None}]
           /\ job' \in [Workers -> Jobs]
           /\ UNCHANGED todo
  <1> USE DEF TypeOK, Jobs
  <1>1. j \in Jobs
    BY DEF Completion
  <1>2. CASE job' = [job EXCEPT ![w] = j]
    <2>1. s' \in [Workers -> Conns \cup {None}]
      BY <1>2 DEF Dequeue, locals
    <2>2. pc' \in [Workers -> Labels] /\ down' \in Reasons
      BY <1>2 DEF Dequeue, Goto, Labels, Reasons, locals
    <2>3. UNCHANGED todo
      BY DEF Dequeue, locals
    <2> QED
      BY <1>1, <1>2, <2>1, <2>2, <2>3
  <1>3. CASE UNCHANGED <<pc, locals>>
    BY <1>3 DEF Dequeue, Reasons, locals
  <1> QED
    BY <1>2, <1>3 DEF Dequeue

(* Each step keeps the types: what is stored in s is the CLIENT of a slot. *)
LEMMA TypeStep == TypeOK /\ KeyInv /\ [Next]_vars => TypeOK'
  <1> SUFFICES ASSUME TypeOK, KeyInv, [Next]_vars PROVE TypeOK'
    OBVIOUS
  <1> USE DEF TypeOK, clients, locals
  <1>1. ASSUME NEW c \in Conns, Accept(c) PROVE TypeOK'
    BY <1>1 DEF Accept
  <1>2. ASSUME NEW c \in Conns, PeerEnds(c) PROVE TypeOK'
    BY <1>2, SessionsAssumption DEF PeerEnds
  <1>3. ASSUME NoMoreSlot PROVE TypeOK'
    BY <1>3 DEF NoMoreSlot, Stop, Reasons
  <1>4. ASSUME FirstReceive PROVE TypeOK'
    <2>1. /\ acceptor' \in Conns \cup {None} /\ down' \in Reasons
          /\ UNCHANGED <<users, isConnect, zeroed, garbled, slot, peer, packets,
                         sends, pc, locals, userLock, worldFull, logins>>
      BY <1>4 DEF FirstReceive, Reasons
    <2>2. acceptor \in Conns 
      BY <1>4 DEF FirstReceive
    <2>3. [on |-> acceptor, room |-> ~zeroed[acceptor]]
             \in [on : Conns \cup {None}, room : BOOLEAN]
      BY <2>2
    <2>4. recv' \in [Conns -> [on : Conns \cup {None}, room : BOOLEAN]]
      <3> DEFINE r == [on |-> acceptor, room |-> ~zeroed[acceptor]]
      <3>1. recv' = recv \/ recv' = [recv EXCEPT ![acceptor] = r]
        BY <1>4 DEF FirstReceive
      <3>2. r \in [on : Conns \cup {None}, room : BOOLEAN]
        BY <2>3
      <3> HIDE DEF r
      <3> QED
        BY <3>1, <3>2
    <2> QED
      BY <2>1, <2>4
  <1>5. ASSUME NEW k \in Updated, UpdateSends(k) PROVE TypeOK'
    BY <1>5, SendType DEF UpdateSends
  <1>6. ASSUME NEW w \in Workers, NEW c \in Conns, TakeReceive(w, c)
        PROVE TypeOK'
    <2>1. PICK bytes \in BOOLEAN :
            /\ packets' = IF bytes THEN [packets EXCEPT ![recv[c].on] = @ - 1]
                          ELSE packets
            /\ bytes => packets[recv[c].on] > 0
            /\ Dequeue(w, [type |-> "EV_RECV", over |-> c, on |-> recv[c].on,
                           bytes |-> bytes])
      BY <1>6 DEF TakeReceive
    <2>2. recv[c].on \in Conns
      BY <1>6 DEF TakeReceive
    <2>3. [type |-> "EV_RECV", over |-> c, on |-> recv[c].on, bytes |-> bytes]
             \in Completion
      BY <2>2 DEF Completion
    <2>4. packets' \in [Conns -> 0..MaxPackets]
      BY <2>1, <2>2, SessionsAssumption
    <2>5. NotWaiting \in [on : Conns \cup {None}, room : BOOLEAN]
      BY DEF NotWaiting
    <2>6. recv' \in [Conns -> [on : Conns \cup {None}, room : BOOLEAN]]
      BY <1>6, <2>5 DEF TakeReceive
    <2> QED
      BY <1>6, <2>1, <2>3, <2>4, <2>6, DequeueType DEF TakeReceive, Jobs
  <1>7. ASSUME NEW w \in Workers, NEW c \in Conns, TakeSend(w, c) PROVE TypeOK'
    <2>1. PICK bytes \in BOOLEAN :
            Dequeue(w, [type |-> "EV_SEND", over |-> None, on |-> c,
                        bytes |-> bytes])
      BY <1>7 DEF TakeSend
    <2>2. [type |-> "EV_SEND", over |-> None, on |-> c, bytes |-> bytes]
             \in Completion
      BY DEF Completion
    <2> QED
      BY <1>7, <2>1, <2>2, DequeueType DEF TakeSend, Jobs
  <1>8. ASSUME NEW w \in Workers, GetSocket(w) PROVE TypeOK'
    <2>1. Key(w) \in Slots
      BY <1>8, KeyType DEF GetSocket
    <2>2. CASE ~HasClient(Key(w)) /\ Stop("null_pointer")
      BY <2>2 DEF Stop, Reasons
    <2>3. CASE HasClient(Key(w)) /\ s' = [s EXCEPT ![w] = users[Key(w)]]
      BY <1>8, <2>1, <2>3 DEF GetSocket, Stop, Goto, HasClient, Labels, Reasons
    <2> QED
      BY <1>8, <2>2, <2>3 DEF GetSocket
  <1>9. ASSUME NEW w \in Workers, DeleteSend(w) PROVE TypeOK'
    BY <1>9 DEF DeleteSend, Finish, Goto, NoJob, Labels
  <1>10. ASSUME NEW w \in Workers, RecvPacket(w) PROVE TypeOK'
    BY <1>10, SessionsAssumption, KeyType DEF RecvPacket, Goto, Handler, AllRequests, Labels
  <1>11. ASSUME NEW w \in Workers, RecvGarbage(w) PROVE TypeOK'
    <2>1. \A r \in Requests : Handler[r] \in Labels
      BY SessionsAssumption DEF Handler, AllRequests, Labels
    <2>2. pc' \in [Workers -> Labels]
      BY <1>11, <2>1 DEF RecvGarbage, Goto, Labels
    <2>3. garbled' \in [Conns -> BOOLEAN]
      BY <1>11 DEF RecvGarbage
    <2> QED
      BY <1>11, <2>2, <2>3 DEF RecvGarbage
  <1>12. ASSUME NEW w \in Workers, Rearm(w) PROVE TypeOK'
    <2>1. pc' \in [Workers -> Labels] /\ down' \in Reasons
      BY SMTT(60), <1>12 DEF Rearm, Goto, Finish, Labels, Reasons
    <2>2. job' \in [Workers -> Jobs] /\ s' \in [Workers -> Conns \cup {None}]
      <3>1. NoJob \in Jobs
        BY DEF NoJob, Jobs
      <3>2. \/ UNCHANGED <<job, s>>
            \/ job' = [job EXCEPT ![w] = NoJob] /\ s' = [s EXCEPT ![w] = None]
        BY <1>12 DEF Rearm, Finish
      <3>3. job \in [Workers -> Jobs] /\ s \in [Workers -> Conns \cup {None}]
        BY DEF Jobs
      <3> QED
        BY ZenonT(60), <3>1, <3>2, <3>3
    <2>3. recv' \in [Conns -> [on : Conns \cup {None}, room : BOOLEAN]]
      <3> DEFINE r == [on |-> s[w], room |-> ~zeroed[job[w].over]]
      <3>1. r \in [on : Conns \cup {None}, room : BOOLEAN]
        OBVIOUS
      <3>2. recv' = recv \/ recv' = [recv EXCEPT ![job[w].over] = r]
        BY <1>12 DEF Rearm
      <3> HIDE DEF r
      <3> QED
        BY <3>1, <3>2
    <2> QED
      BY <1>12, <2>1, <2>2, <2>3 DEF Rearm, Finish, Jobs
  <1>13. ASSUME NEW w \in Workers, FindID(w) PROVE TypeOK'
    BY <1>13, AnswerType DEF FindID, Goto, Stop, Labels, Reasons
  <1>14. ASSUME NEW w \in Workers, EnterPlayer(w) PROVE TypeOK'
    BY SMTT(60), <1>14 DEF EnterPlayer, Goto, Stop, Labels, Reasons
  <1>15. ASSUME NEW w \in Workers, SendLoginOK(w) PROVE TypeOK'
    BY SMTT(60), <1>15, AnswerType DEF SendLoginOK, Goto, Stop, Labels, Reasons
  <1>16. ASSUME NEW w \in Workers, TestOther(w) PROVE TypeOK'
    <2>1. pc' \in [Workers -> Labels]
      BY SMTT(60), <1>16 DEF TestOther, Goto, Labels
    <2>2. todo' \in [Workers -> SUBSET Slots]
      BY SMTT(60), <1>16 DEF TestOther
    <2> QED
      BY <1>16, <2>1, <2>2 DEF TestOther
  <1>17. ASSUME NEW w \in Workers, GreetOther(w) PROVE TypeOK'
    <2>1. CASE Stop("null_pointer")
      BY <2>1 DEF Stop, Reasons
    <2>2. CASE \E K : Send(K) /\ UNCHANGED <<clients, peer, packets, recv, job,
                                            s, userLock, worldFull, logins>>
      <3>1. sends' \in [Conns -> BOOLEAN] /\ down' \in Reasons
        BY <2>2, SendType
      <3>2. pc' \in [Workers -> Labels] /\ todo' \in [Workers -> SUBSET Slots]
        BY ZenonT(60), <1>17 DEF GreetOther, Goto, Labels, Stop
      <3> QED
        BY <2>2, <3>1, <3>2
    <2> QED
      BY <1>17, <2>1, <2>2 DEF GreetOther
  <1>18. ASSUME NEW w \in Workers, GreetNpcs(w) PROVE TypeOK'
    BY <1>18, SendType DEF GreetNpcs, Goto, Stop, Labels, Reasons
  <1>19. ASSUME NEW w \in Workers, DummyLogin(w) PROVE TypeOK'
    BY SMTT(60), <1>19, AnswerType DEF DummyLogin, Goto, Stop, Labels, Reasons
  <1>20. ASSUME NEW w \in Workers, Logout(w) PROVE TypeOK'
    BY <1>20 DEF Logout, Goto, Stop, Labels, Reasons
  <1>21. ASSUME NEW w \in Workers, ResetPlayer(w) PROVE TypeOK'
    BY <1>21 DEF ResetPlayer, Goto, Stop, Labels, Reasons
  <1>22. ASSUME NEW w \in Workers, ClearConnect(w) PROVE TypeOK'
    BY <1>22 DEF ClearConnect, Goto, Labels
  <1>23. ASSUME NEW w \in Workers, ZeroClient(w) PROVE TypeOK'
    BY <1>23 DEF ZeroClient, Goto, Finish, NoJob, Labels
  <1>24. CASE UNCHANGED vars
    BY <1>24 DEF vars
  <1> QED
    BY <1>1, <1>2, <1>3, <1>4, <1>5, <1>6, <1>7, <1>8, <1>9, <1>10, <1>11,
       <1>12, <1>13, <1>14, <1>15, <1>16, <1>17, <1>18, <1>19, <1>20, <1>21,
       <1>22, <1>23, <1>24
    DEF Next, Handle
-----------------------------------------------------------------------------
(* Accept gives a slot to a CLIENT that is in none; what clears isConnect   *)
(* or zeroes a CLIENT does so by way of a slot.                            *)
LEMMA SlotStep == TypeOK /\ KeyInv /\ SlotInv /\ [Next]_vars => SlotInv'
  <1> SUFFICES ASSUME TypeOK, KeyInv, SlotInv, [Next]_vars PROVE SlotInv'
    OBVIOUS
  <1> USE DEF clients, locals
  <1>0. ASSUME UNCHANGED <<users, isConnect, zeroed, slot, peer>> PROVE SlotInv'
    BY <1>0 DEF SlotInv, ConnectedIsInItsSlot
  <1>a. None \notin Conns /\ None \notin Slots
    BY SessionsAssumption DEF Slots
  <1>1. ASSUME NEW c \in Conns, Accept(c) PROVE SlotInv'
    <2>1. PICK k \in Slots :
            /\ ~Connected(k)
            /\ users' = [users EXCEPT ![k] = c] /\ slot' = [slot EXCEPT ![c] = k]
      BY <1>1 DEF Accept, FirstFree
    <2>2. /\ peer[c] = "idle" /\ peer' = [peer EXCEPT ![c] = "open"]
          /\ isConnect' = [isConnect EXCEPT ![c] = TRUE] /\ UNCHANGED zeroed
      BY <1>1 DEF Accept
    <2>3. slot[c] = None /\ ~zeroed[c]
      BY <2>2 DEF SlotInv
    <2>4. \A j \in Slots : users[j] # c
      BY <2>3, <1>a DEF SlotInv
    <2>5. \A j \in Slots : users'[j] # None => slot'[users'[j]] = j
      BY <2>1, <2>4, <1>a DEF SlotInv, TypeOK
    <2>6. \A d \in Conns : isConnect'[d] => slot'[d] \in Slots /\ users'[slot'[d]] = d
      <3> SUFFICES ASSUME NEW d \in Conns, isConnect'[d]
                   PROVE  slot'[d] \in Slots /\ users'[slot'[d]] = d
        OBVIOUS
      <3>1. CASE d = c
        BY <2>1, <3>1 DEF TypeOK
      <3>2. CASE d # c
        <4>1. isConnect[d] /\ slot[d] \in Slots /\ users[slot[d]] = d
          BY <2>2, <3>2 DEF SlotInv, ConnectedIsInItsSlot, TypeOK
        <4>2. slot[d] # k
          BY <2>1, <4>1, <1>a DEF Connected
        <4> QED
          BY <2>1, <3>2, <4>1, <4>2 DEF TypeOK
      <3> QED
        BY <3>1, <3>2
    <2> QED
      BY <2>1, <2>2, <2>3, <2>5, <2>6 DEF SlotInv, ConnectedIsInItsSlot, TypeOK
  <1>2. ASSUME NEW c \in Conns, PeerEnds(c) PROVE SlotInv'
    BY <1>2, SessionsAssumption DEF PeerEnds, SlotInv, ConnectedIsInItsSlot, TypeOK
  <1>3. ASSUME NoMoreSlot PROVE SlotInv'
    BY <1>3, <1>0 DEF NoMoreSlot, Stop
  <1>4. ASSUME FirstReceive PROVE SlotInv'
    BY <1>4, <1>0 DEF FirstReceive
  <1>5. ASSUME NEW k \in Updated, UpdateSends(k) PROVE SlotInv'
    BY <1>5, <1>0 DEF UpdateSends, Send
  <1>6. ASSUME NEW w \in Workers, NEW c \in Conns, TakeReceive(w, c)
        PROVE  SlotInv'
    BY <1>6, <1>0 DEF TakeReceive, Dequeue
  <1>7. ASSUME NEW w \in Workers, NEW c \in Conns, TakeSend(w, c)
        PROVE  SlotInv'
    BY <1>7, <1>0 DEF TakeSend, Dequeue
  <1>8. ASSUME NEW w \in Workers, GetSocket(w) PROVE SlotInv'
    BY <1>8, <1>0 DEF GetSocket, Stop
  <1>9. ASSUME NEW w \in Workers, DeleteSend(w) PROVE SlotInv'
    BY <1>9, <1>0 DEF DeleteSend, Finish
  <1>10. ASSUME NEW w \in Workers, RecvPacket(w) PROVE SlotInv'
    BY <1>10, <1>0 DEF RecvPacket
  <1>11. ASSUME NEW w \in Workers, RecvGarbage(w) PROVE SlotInv'
    BY <1>11, <1>0 DEF RecvGarbage
  <1>12. ASSUME NEW w \in Workers, Rearm(w) PROVE SlotInv'
    BY <1>12, <1>0 DEF Rearm, Finish
  <1>13. ASSUME NEW w \in Workers, FindID(w) PROVE SlotInv'
    BY <1>13, <1>0 DEF FindID, Stop, Answer, Send
  <1>14. ASSUME NEW w \in Workers, EnterPlayer(w) PROVE SlotInv'
    BY <1>14, <1>0 DEF EnterPlayer, Stop
  <1>15. ASSUME NEW w \in Workers, SendLoginOK(w) PROVE SlotInv'
    BY <1>15, <1>0 DEF SendLoginOK, Stop, Answer, Send
  <1>16. ASSUME NEW w \in Workers, TestOther(w) PROVE SlotInv'
    BY <1>16, <1>0 DEF TestOther
  <1>17. ASSUME NEW w \in Workers, GreetOther(w) PROVE SlotInv'
    BY <1>17, <1>0 DEF GreetOther, Stop, Send
  <1>18. ASSUME NEW w \in Workers, GreetNpcs(w) PROVE SlotInv'
    BY <1>18, <1>0 DEF GreetNpcs, Stop, Send
  <1>19. ASSUME NEW w \in Workers, DummyLogin(w) PROVE SlotInv'
    BY <1>19, <1>0 DEF DummyLogin, Stop, Answer, Send
  <1>20. ASSUME NEW w \in Workers, Logout(w) PROVE SlotInv'
    <2>1. CASE UNCHANGED <<users, isConnect, zeroed, slot, peer>>
      BY <1>0, <2>1
    <2>2. CASE isConnect' = [isConnect EXCEPT ![users[Key(w)]] = FALSE]
      BY <1>20, <2>2 DEF Logout, SlotInv, ConnectedIsInItsSlot, TypeOK, Stop
    <2> QED
      BY <1>20, <2>1, <2>2 DEF Logout, Stop
  <1>21. ASSUME NEW w \in Workers, ResetPlayer(w) PROVE SlotInv'
    BY <1>21, <1>0 DEF ResetPlayer, Stop
  <1>22. ASSUME NEW w \in Workers, ClearConnect(w) PROVE SlotInv'
    BY <1>22 DEF ClearConnect, SlotInv, ConnectedIsInItsSlot, TypeOK
  <1>23. ASSUME NEW w \in Workers, ZeroClient(w) PROVE SlotInv'
    <2> DEFINE u == users[Key(w)]
    <2>1. Key(w) \in Slots
      BY <1>23, KeyType DEF ZeroClient
    <2>2. u # None => peer[u] # "idle"
      BY <2>1, <1>a DEF SlotInv, TypeOK
    <2>3. /\ isConnect' = [isConnect EXCEPT ![u] = FALSE]
          /\ zeroed' = [zeroed EXCEPT ![u] = TRUE]
          /\ UNCHANGED <<users, slot, peer>>
      BY <1>23 DEF ZeroClient
    <2> HIDE DEF u
    <2> QED
      BY <2>2, <2>3, <1>a DEF SlotInv, ConnectedIsInItsSlot, TypeOK
  <1>24. CASE UNCHANGED vars
    BY <1>24, <1>0 DEF vars
  <1> QED
    BY <1>1, <1>2, <1>3, <1>4, <1>5, <1>6, <1>7, <1>8, <1>9, <1>10, <1>11,
       <1>12, <1>13, <1>14, <1>15, <1>16, <1>17, <1>18, <1>19, <1>20, <1>21,
       <1>22, <1>23, <1>24
    DEF Next, Handle

(* What is sent, is sent to connections that have a slot. *)
LEMMA SendKey ==
    ASSUME TypeOK, SlotInv, KeyInv, NEW K \in SUBSET Slots, Send(K)
    PROVE  \A c \in Conns : sends'[c] => slot[c] \in Slots
  <1> SUFFICES ASSUME NEW c \in Conns, sends'[c] PROVE slot[c] \in Slots
    OBVIOUS
  <1>1. sends[c] \/ \E k \in K : c = users[k]
    BY DEF Send
  <1> QED
    BY <1>1, SessionsAssumption DEF SlotInv, KeyInv, TypeOK

(* Whatever is posted or taken has the socket of an accepted connection.   *)
LEMMA KeyStep == TypeOK /\ SlotInv /\ KeyInv /\ [Next]_vars => KeyInv'
  <1> SUFFICES ASSUME TypeOK, SlotInv, KeyInv, [Next]_vars PROVE KeyInv'
    OBVIOUS
  <1> USE DEF clients, locals
  <1>a. None \notin Conns /\ None \notin Slots
    BY SessionsAssumption DEF Slots
  <1>b. \A r \in Requests : Handler[r] \in Labels \ {"gqcs"}
    BY SessionsAssumption DEF Handler, AllRequests, Labels
  <1>0. ASSUME UNCHANGED <<slot, acceptor, recv, sends, pc, job, s>> PROVE KeyInv'
    BY <1>0 DEF KeyInv
  <1>c. ASSUME NEW w \in Workers, pc[w] # "gqcs",
               NEW l \in Labels \ {"gqcs"}, Goto(w, l),
               UNCHANGED <<slot, acceptor, recv, job, s>>,
               \A c \in Conns : sends'[c] => slot[c] \in Slots
        PROVE  KeyInv'
    <2>1. \A v \in Workers : pc'[v] = "gqcs" <=> pc[v] = "gqcs"
      BY <1>c DEF Goto, TypeOK
    <2> QED
      BY <1>c, <2>1 DEF KeyInv
  <1>d. ASSUME NEW w \in Workers, Finish(w), UNCHANGED <<slot, acceptor, sends>>,
               \A o \in Conns : recv'[o].on # None => slot[recv'[o].on] \in Slots
        PROVE  KeyInv'
    BY <1>d DEF KeyInv, Finish, Goto, NoJob, TypeOK
  <1>e. ASSUME NEW w \in Workers, NEW j \in Completion, Dequeue(w, j),
               slot[j.on] \in Slots, UNCHANGED <<slot, acceptor>>,
               \A o \in Conns : recv'[o].on # None => slot[recv'[o].on] \in Slots,
               \A c \in Conns : sends'[c] => slot[c] \in Slots
        PROVE  KeyInv'
    <2>1. CASE UNCHANGED <<pc, job, s>>
      BY <1>e, <2>1 DEF KeyInv
    <2>2. ASSUME NEW l \in Labels \ {"gqcs"}, Goto(w, l), job' = [job EXCEPT ![w] = j],
                 \/ UNCHANGED s
                 \/ \E c \in {None} \cup {d \in Conns : peer[d] # "idle"} :
                      s' = [s EXCEPT ![w] = c]
          PROVE  KeyInv'
      <3>1. \A v \in Workers : s'[v] # None => slot[s'[v]] \in Slots
        BY <2>2 DEF KeyInv, SlotInv, TypeOK
      <3>2. j.on # None /\ pc'[w] # "gqcs" /\ job'[w] = j
        BY <2>2, <1>a DEF Completion, Goto, TypeOK
      <3>3. \A v \in Workers : v # w => pc'[v] = pc[v] /\ job'[v] = job[v]
        BY <2>2 DEF Goto, TypeOK
      <3> QED
        BY <1>e, <3>1, <3>2, <3>3 DEF KeyInv
    <2> QED
      BY <1>e, <2>1, <2>2 DEF Dequeue, Labels, locals
  <1>1. ASSUME NEW c \in Conns, Accept(c) PROVE KeyInv'
    <2>1. PICK k \in Slots : slot' = [slot EXCEPT ![c] = k]
      BY <1>1 DEF Accept
    <2>2. acceptor' = c /\ UNCHANGED <<recv, sends, pc, job, s>>
      BY <1>1 DEF Accept
    <2>3. \A d \in Conns : slot[d] \in Slots => slot'[d] \in Slots
      BY <2>1 DEF TypeOK
    <2> QED
      BY <2>1, <2>2, <2>3 DEF KeyInv, TypeOK
  <1>2. ASSUME NEW c \in Conns, PeerEnds(c) PROVE KeyInv'
    BY <1>2, <1>0 DEF PeerEnds
  <1>3. ASSUME NoMoreSlot PROVE KeyInv'
    BY <1>3, <1>0 DEF NoMoreSlot, Stop
  <1>4. ASSUME FirstReceive PROVE KeyInv'
    BY SMTT(60), <1>4, <1>a DEF FirstReceive, KeyInv, TypeOK
  <1>5. ASSUME NEW k \in Updated, UpdateSends(k) PROVE KeyInv'
    <2>1. {k} \in SUBSET Slots
      BY SessionsAssumption DEF Slots
    <2>2. \A c \in Conns : sends'[c] => slot[c] \in Slots
      BY <1>5, <2>1, SendKey DEF UpdateSends
    <2> QED
      BY <1>5, <2>2 DEF UpdateSends, KeyInv
  <1>6. ASSUME NEW w \in Workers, NEW c \in Conns, TakeReceive(w, c)
        PROVE  KeyInv'
    <2>1. PICK bytes \in BOOLEAN :
            Dequeue(w, [type |-> "EV_RECV", over |-> c, on |-> recv[c].on,
                        bytes |-> bytes])
      BY <1>6 DEF TakeReceive
    <2>2. recv[c].on \in Conns /\ slot[recv[c].on] \in Slots
      BY <1>6 DEF TakeReceive, KeyInv, TypeOK
    <2>3. [type |-> "EV_RECV", over |-> c, on |-> recv[c].on, bytes |-> bytes]
             \in Completion
      BY <2>2 DEF Completion
    <2>4. \A o \in Conns : recv'[o].on # None => slot[recv'[o].on] \in Slots
      BY <1>6 DEF TakeReceive, NotWaiting, KeyInv, TypeOK
    <2>5. UNCHANGED <<slot, acceptor, sends>>
      BY <1>6 DEF TakeReceive
    <2> QED
      BY <2>1, <2>2, <2>3, <2>4, <2>5, <1>e DEF KeyInv
  <1>7. ASSUME NEW w \in Workers, NEW c \in Conns, TakeSend(w, c) PROVE KeyInv'
    <2>1. PICK bytes \in BOOLEAN :
            Dequeue(w, [type |-> "EV_SEND", over |-> None, on |-> c,
                        bytes |-> bytes])
      BY <1>7 DEF TakeSend
    <2>2. slot[c] \in Slots
      BY <1>7 DEF TakeSend, KeyInv
    <2>3. [type |-> "EV_SEND", over |-> None, on |-> c, bytes |-> bytes]
             \in Completion
      BY DEF Completion
    <2>4. \A d \in Conns : sends'[d] => slot[d] \in Slots
      BY <1>7 DEF TakeSend, KeyInv, TypeOK
    <2>5. UNCHANGED <<slot, acceptor, recv>>
      BY <1>7 DEF TakeSend
    <2> QED
      BY <2>1, <2>2, <2>3, <2>4, <2>5, <1>e DEF KeyInv
  <1>8. ASSUME NEW w \in Workers, GetSocket(w) PROVE KeyInv'
    <2>1. Key(w) \in Slots
      BY <1>8, KeyType DEF GetSocket
    <2>2. CASE Stop("null_pointer")
      BY <1>0, <2>2 DEF Stop
    <2>3. CASE s' = [s EXCEPT ![w] = users[Key(w)]]
      <3>1. \A v \in Workers : pc'[v] = "gqcs" <=> pc[v] = "gqcs"
        BY <1>8 DEF GetSocket, Goto, TypeOK, Stop
      <3>2. users[Key(w)] # None => slot[users[Key(w)]] \in Slots
        BY <2>1 DEF SlotInv
      <3>3. \A v \in Workers : s'[v] # None => slot[s'[v]] \in Slots
        BY <2>3, <3>2 DEF KeyInv, TypeOK
      <3>4. UNCHANGED <<slot, acceptor, recv, sends, job>>
        BY <1>8 DEF GetSocket, Stop
      <3> QED
        BY <3>1, <3>3, <3>4 DEF KeyInv
    <2> QED
      BY <1>8, <2>2, <2>3 DEF GetSocket
  <1>9. ASSUME NEW w \in Workers, DeleteSend(w) PROVE KeyInv'
    BY <1>9, <1>d DEF DeleteSend, KeyInv
  <1>10. ASSUME NEW w \in Workers, RecvPacket(w) PROVE KeyInv'
    BY <1>10, <1>b, <1>c DEF RecvPacket, KeyInv
  <1>11. ASSUME NEW w \in Workers, RecvGarbage(w) PROVE KeyInv'
    <2>1. \E l \in Labels \ {"gqcs"} : Goto(w, l)
      BY <1>11, <1>b DEF RecvGarbage, Labels
    <2> QED
      BY <1>11, <2>1, <1>c DEF RecvGarbage, KeyInv
  <1>12. ASSUME NEW w \in Workers, Rearm(w) PROVE KeyInv'
    <2>1. CASE Goto(w, "hung") /\ UNCHANGED <<recv, locals>>
      BY <1>12, <2>1, <1>c DEF Rearm, KeyInv, Labels
    <2>2. CASE Finish(w) /\ s[w] # None
               /\ recv' = [recv EXCEPT ![job[w].over] =
                             [on |-> s[w], room |-> ~zeroed[job[w].over]]]
      <3>1. \A o \in Conns : recv'[o].on # None => slot[recv'[o].on] \in Slots
        BY <2>2 DEF KeyInv, TypeOK
      <3> QED
        BY <1>12, <2>2, <3>1, <1>d DEF Rearm
    <2> QED
      BY <1>12, <2>1, <2>2 DEF Rearm
  <1>13. ASSUME NEW w \in Workers, FindID(w) PROVE KeyInv'
    <2>1. CASE Stop("null_pointer")
      BY <1>0, <2>1 DEF Stop
    <2>2. CASE Answer(Key(w)) \/ UNCHANGED sends
      <3>1. {Key(w)} \in SUBSET Slots
        BY <1>13, KeyType DEF FindID
      <3>2. \A c \in Conns : sends'[c] => slot[c] \in Slots
        BY <2>2, <3>1, SendKey DEF Answer, KeyInv
      <3> QED
        BY <1>13, <2>1, <3>2, <1>c DEF FindID, Labels
    <2> QED
      BY <1>13, <2>1, <2>2 DEF FindID
  <1>14. ASSUME NEW w \in Workers, EnterPlayer(w) PROVE KeyInv'
    BY <1>14, <1>0, <1>c DEF EnterPlayer, Stop, KeyInv, Labels
  <1>15. ASSUME NEW w \in Workers, SendLoginOK(w) PROVE KeyInv'
    <2>1. CASE Stop("null_pointer")
      BY <1>0, <2>1 DEF Stop
    <2>2. CASE Answer(Key(w)) \/ UNCHANGED sends
      <3>1. {Key(w)} \in SUBSET Slots
        BY <1>15, KeyType DEF SendLoginOK
      <3>2. \A c \in Conns : sends'[c] => slot[c] \in Slots
        BY <2>2, <3>1, SendKey DEF Answer, KeyInv
      <3> QED
        BY <1>15, <2>1, <3>2, <1>c DEF SendLoginOK, Labels
    <2> QED
      BY <1>15, <2>1, <2>2 DEF SendLoginOK
  <1>16. ASSUME NEW w \in Workers, TestOther(w) PROVE KeyInv'
    <2>1. Goto(w, "near") \/ UNCHANGED pc
      BY <1>16 DEF TestOther
    <2> QED
      BY <1>16, <2>1, <1>0, <1>c DEF TestOther, KeyInv, Labels
  <1>17. ASSUME NEW w \in Workers, GreetOther(w) PROVE KeyInv'
    <2>1. CASE Stop("null_pointer")
      BY <1>0, <2>1 DEF Stop
    <2>2. ASSUME NEW i \in Slots, NEW K \in SUBSET {i, Key(w)}, Send(K),
                 Goto(w, "others"), UNCHANGED <<slot, acceptor, recv, job, s>>
          PROVE  KeyInv'
      <3>1. Key(w) \in Slots
        BY <1>17, KeyType DEF GreetOther
      <3>2. \A c \in Conns : sends'[c] => slot[c] \in Slots
        BY <2>2, <3>1, SendKey
      <3> QED
        BY <1>17, <2>2, <3>2, <1>c DEF GreetOther, Labels
    <2> QED
      BY <1>17, <2>1, <2>2 DEF GreetOther, TypeOK
  <1>18. ASSUME NEW w \in Workers, GreetNpcs(w) PROVE KeyInv'
    <2>1. CASE Stop("null_pointer")
      BY <1>0, <2>1 DEF Stop
    <2>2. ASSUME NEW K \in SUBSET {Key(w)}, Send(K),
                 Goto(w, "rearm"), UNCHANGED <<slot, acceptor, recv, job, s>>
          PROVE  KeyInv'
      <3>1. Key(w) \in Slots
        BY <1>18, KeyType DEF GreetNpcs
      <3>2. \A c \in Conns : sends'[c] => slot[c] \in Slots
        BY <2>2, <3>1, SendKey
      <3> QED
        BY <1>18, <2>2, <3>2, <1>c DEF GreetNpcs, Labels
    <2> QED
      BY <1>18, <2>1, <2>2 DEF GreetNpcs
  <1>19. ASSUME NEW w \in Workers, DummyLogin(w) PROVE KeyInv'
    <2>1. CASE Stop("null_pointer")
      BY <1>0, <2>1 DEF Stop
    <2>2. CASE Answer(Key(w)) \/ UNCHANGED sends
      <3>1. {Key(w)} \in SUBSET Slots
        BY <1>19, KeyType DEF DummyLogin
      <3>2. \A c \in Conns : sends'[c] => slot[c] \in Slots
        BY <2>2, <3>1, SendKey DEF Answer, KeyInv
      <3> QED
        BY <1>19, <2>1, <3>2, <1>c DEF DummyLogin, Labels
    <2> QED
      BY <1>19, <2>1, <2>2 DEF DummyLogin
  <1>20. ASSUME NEW w \in Workers, Logout(w) PROVE KeyInv'
    BY <1>20, <1>0, <1>c DEF Logout, Stop, KeyInv, Labels
  <1>21. ASSUME NEW w \in Workers, ResetPlayer(w) PROVE KeyInv'
    BY <1>21, <1>0, <1>c DEF ResetPlayer, Stop, KeyInv, Labels
  <1>22. ASSUME NEW w \in Workers, ClearConnect(w) PROVE KeyInv'
    BY <1>22, <1>0, <1>c DEF ClearConnect, Stop, KeyInv, Labels
  <1>23. ASSUME NEW w \in Workers, ZeroClient(w) PROVE KeyInv'
    BY <1>23, <1>d DEF ZeroClient, KeyInv
  <1>24. CASE UNCHANGED vars
    BY <1>24, <1>0 DEF vars
  <1> QED
    BY <1>1, <1>2, <1>3, <1>4, <1>5, <1>6, <1>7, <1>8, <1>9, <1>10, <1>11,
       <1>12, <1>13, <1>14, <1>15, <1>16, <1>17, <1>18, <1>19, <1>20, <1>21,
       <1>22, <1>23, <1>24
    DEF Next, Handle
-----------------------------------------------------------------------------
(* Only FirstReceive posts an m_recv_over that nobody holds, and Rearm the *)
(* one its worker holds.                                                   *)
LEMMA OverStep == TypeOK /\ OverInv /\ [Next]_vars => OverInv'
  <1> SUFFICES ASSUME TypeOK, OverInv, [Next]_vars PROVE OverInv'
    OBVIOUS
  <1> USE DEF clients, locals
  <1>a. None \notin Conns /\ None \notin Slots
    BY SessionsAssumption DEF Slots
  <1>b. \A r \in Requests : Handler[r] \in Labels \ {"delete"}
    BY SessionsAssumption DEF Handler, AllRequests, Labels
  <1>0. ASSUME UNCHANGED <<acceptor, peer, recv, job>>,
               \A w \in Workers : pc'[w] = "delete" => pc[w] = "delete"
        PROVE  OverInv'
    BY <1>0 DEF OverInv
  <1>c. ASSUME NEW w \in Workers, NEW l, l # "delete", Goto(w, l),
               UNCHANGED <<acceptor, peer, recv, job>>
        PROVE  OverInv'
    BY <1>c, <1>0 DEF Goto, TypeOK
  <1>d. ASSUME NEW w \in Workers, Finish(w), UNCHANGED <<acceptor, peer>>,
               \A o \in Conns : o # job[w].over => recv'[o] = recv[o]
        PROVE  OverInv'
    <2>1. /\ pc'[w] # "delete"
          /\ job'[w].type # "EV_RECV" /\ job'[w].over = None
      BY <1>d DEF Finish, Goto, NoJob, TypeOK
    <2>2. \A v \in Workers : v # w => pc'[v] = pc[v] /\ job'[v] = job[v]
      BY <1>d DEF Finish, Goto, TypeOK
    <2>3. \A v \in Workers : job[v].over \in Conns \cup {None}
      BY DEF TypeOK
    <2> QED
      BY <1>d, <1>a, <2>1, <2>2, <2>3 DEF OverInv
  <1>1. ASSUME NEW c \in Conns, Accept(c) PROVE OverInv'
    BY <1>1, <1>a DEF Accept, OverInv, TypeOK
  <1>2. ASSUME NEW c \in Conns, PeerEnds(c) PROVE OverInv'
    BY <1>2, SessionsAssumption DEF PeerEnds, OverInv, TypeOK
  <1>3. ASSUME NoMoreSlot PROVE OverInv'
    BY <1>3, <1>0 DEF NoMoreSlot, Stop
  <1>4. ASSUME FirstReceive PROVE OverInv'
    <2>1. /\ acceptor \in Conns /\ acceptor' = None
          /\ UNCHANGED <<peer, pc, job>>
          /\ \A o \in Conns : o # acceptor => recv'[o] = recv[o]
      BY <1>4 DEF FirstReceive, TypeOK
    <2> QED
      BY ZenonT(60), <2>1, <1>a DEF OverInv, TypeOK
  <1>5. ASSUME NEW k \in Updated, UpdateSends(k) PROVE OverInv'
    BY <1>5, <1>0 DEF UpdateSends, Stop
  <1>6. ASSUME NEW w \in Workers, NEW c \in Conns, TakeReceive(w, c)
        PROVE  OverInv'
    <2>1. PICK bytes \in BOOLEAN :
            Dequeue(w, [type |-> "EV_RECV", over |-> c, on |-> recv[c].on,
                        bytes |-> bytes])
      BY <1>6 DEF TakeReceive
    <2>2. /\ recv[c].on # None
          /\ recv'[c].on = None /\ \A o \in Conns : o # c => recv'[o] = recv[o]
          /\ UNCHANGED <<acceptor, peer>>
      BY <1>6 DEF TakeReceive, NotWaiting, TypeOK
    <2>3. CASE UNCHANGED <<pc, job>>
      <3>1. \A o \in Conns : recv[o].on = None => recv'[o].on = None
        BY <2>2
      <3>2. \A v \in Workers : job[v].over \in Conns \cup {None}
        BY DEF TypeOK
      <3> QED
        BY <1>a, <2>2, <2>3, <3>1, <3>2 DEF OverInv
    <2>4. CASE \E l \in Labels \ {"delete"} : Goto(w, l) /\
                 job' = [job EXCEPT ![w] = [type |-> "EV_RECV", over |-> c,
                                           on |-> recv[c].on, bytes |-> bytes]]
      <3>1. pc'[w] # "delete" /\ job'[w].type = "EV_RECV" /\ job'[w].over = c
        BY <2>4 DEF Goto, TypeOK
      <3>2. \A v \in Workers : v # w => pc'[v] = pc[v] /\ job'[v] = job[v]
        BY <2>4 DEF Goto, TypeOK
      <3>3. \A v \in Workers : job[v].over # c
        BY <1>a, <2>2 DEF OverInv
      <3>4. peer[c] # "idle" /\ acceptor # c
        BY <2>2 DEF OverInv
      <3>5. \A v \in Workers : job[v].over \in Conns \cup {None}
        BY DEF TypeOK
      <3>6. \A o \in Conns : peer'[o] = "idle" \/ acceptor' = o =>
              recv'[o].on = None /\ \A v \in Workers : job'[v].over # o
        BY <2>2, <3>1, <3>2, <3>4 DEF OverInv
      <3>7. \A v \in Workers :
              /\ job'[v].type = "EV_RECV" => job'[v].over # None
              /\ pc'[v] = "delete" => job'[v].type = "EV_SEND"
              /\ job'[v].over # None => recv'[job'[v].over].on = None
        BY <1>a, <2>2, <3>1, <3>2, <3>3, <3>5 DEF OverInv
      <3>8. \A v, x \in Workers :
              v # x /\ job'[v].over # None => job'[v].over # job'[x].over
        BY <1>a, <3>1, <3>2, <3>3, <3>5 DEF OverInv
      <3> QED
        BY <2>2, <3>4, <3>6, <3>7, <3>8 DEF OverInv
    <2> QED
      BY <2>1, <2>3, <2>4 DEF Dequeue, Labels, locals
  <1>7. ASSUME NEW w \in Workers, NEW c \in Conns, TakeSend(w, c)
        PROVE  OverInv'
    <2>1. PICK bytes \in BOOLEAN :
            Dequeue(w, [type |-> "EV_SEND", over |-> None, on |-> c,
                        bytes |-> bytes])
      BY <1>7 DEF TakeSend
    <2>2. UNCHANGED <<acceptor, peer, recv>>
      BY <1>7 DEF TakeSend
    <2>3. CASE UNCHANGED <<pc, job>>
      BY <2>2, <2>3, <1>0
    <2>4. CASE \E l : Goto(w, l) /\
                 job' = [job EXCEPT ![w] = [type |-> "EV_SEND", over |-> None,
                                           on |-> c, bytes |-> bytes]]
      <3>1. job'[w].type = "EV_SEND" /\ job'[w].over = None
        BY <2>4 DEF TypeOK
      <3>2. \A v \in Workers : v # w => pc'[v] = pc[v] /\ job'[v] = job[v]
        BY <2>4 DEF Goto, TypeOK
      <3> QED
        BY <1>a, <2>2, <3>1, <3>2 DEF OverInv
    <2> QED
      BY <2>1, <2>3, <2>4 DEF Dequeue, locals
  <1>8. ASSUME NEW w \in Workers, GetSocket(w) PROVE OverInv'
    <2>1. UNCHANGED <<acceptor, peer, recv, job>>
      BY <1>8 DEF GetSocket, Stop
    <2>2. \A v \in Workers : pc'[v] = "delete" =>
            pc[v] = "delete" \/ (v = w /\ job[w].type = "EV_SEND")
      BY <1>8 DEF GetSocket, Goto, Stop, TypeOK
    <2> QED
      BY <2>1, <2>2 DEF OverInv
  <1>9. ASSUME NEW w \in Workers, DeleteSend(w) PROVE OverInv'
    BY <1>9, <1>d DEF DeleteSend
  <1>10. ASSUME NEW w \in Workers, RecvPacket(w) PROVE OverInv'
    BY <1>10, <1>b, <1>c DEF RecvPacket
  <1>11. ASSUME NEW w \in Workers, RecvGarbage(w) PROVE OverInv'
    BY <1>11, <1>b, <1>c DEF RecvGarbage
  <1>12. ASSUME NEW w \in Workers, Rearm(w) PROVE OverInv'
    <2>1. CASE Goto(w, "hung") /\ UNCHANGED <<recv, locals>>
      BY <1>12, <2>1, <1>c DEF Rearm
    <2>2. CASE Finish(w) /\ \A o \in Conns : o # job[w].over => recv'[o] = recv[o]
      BY <1>12, <2>2, <1>d DEF Rearm
    <2> QED
      BY <1>12, <2>1, <2>2 DEF Rearm, TypeOK
  <1>13. ASSUME NEW w \in Workers, FindID(w) PROVE OverInv'
    BY <1>13, <1>0, <1>c DEF FindID, Stop
  <1>14. ASSUME NEW w \in Workers, EnterPlayer(w) PROVE OverInv'
    BY <1>14, <1>0, <1>c DEF EnterPlayer, Stop
  <1>15. ASSUME NEW w \in Workers, SendLoginOK(w) PROVE OverInv'
    BY <1>15, <1>0, <1>c DEF SendLoginOK, Stop
  <1>16. ASSUME NEW w \in Workers, TestOther(w) PROVE OverInv'
    <2>1. Goto(w, "near") \/ UNCHANGED pc
      BY <1>16 DEF TestOther
    <2> QED
      BY <1>16, <2>1, <1>0, <1>c DEF TestOther
  <1>17. ASSUME NEW w \in Workers, GreetOther(w) PROVE OverInv'
    BY <1>17, <1>0, <1>c DEF GreetOther, Stop
  <1>18. ASSUME NEW w \in Workers, GreetNpcs(w) PROVE OverInv'
    BY <1>18, <1>0, <1>c DEF GreetNpcs, Stop
  <1>19. ASSUME NEW w \in Workers, DummyLogin(w) PROVE OverInv'
    BY <1>19, <1>0, <1>c DEF DummyLogin, Stop
  <1>20. ASSUME NEW w \in Workers, Logout(w) PROVE OverInv'
    BY <1>20, <1>0, <1>c DEF Logout, Stop
  <1>21. ASSUME NEW w \in Workers, ResetPlayer(w) PROVE OverInv'
    BY <1>21, <1>0, <1>c DEF ResetPlayer, Stop
  <1>22. ASSUME NEW w \in Workers, ClearConnect(w) PROVE OverInv'
    BY <1>22, <1>0, <1>c DEF ClearConnect, Stop
  <1>23. ASSUME NEW w \in Workers, ZeroClient(w) PROVE OverInv'
    BY <1>23, <1>d DEF ZeroClient
  <1>24. CASE UNCHANGED vars
    BY <1>24, <1>0 DEF vars
  <1> QED
    BY <1>1, <1>2, <1>3, <1>4, <1>5, <1>6, <1>7, <1>8, <1>9, <1>10, <1>11,
       <1>12, <1>13, <1>14, <1>15, <1>16, <1>17, <1>18, <1>19, <1>20, <1>21,
       <1>22, <1>23, <1>24
    DEF Next, Handle
-----------------------------------------------------------------------------
(* GetSocket finds the client's own socket as long as it is connected.     *)
LEMMA SocketStep == TypeOK /\ SlotInv /\ KeyInv /\ SocketInv /\ [Next]_vars => SocketInv'
  <1> SUFFICES ASSUME TypeOK, SlotInv, KeyInv, SocketInv, [Next]_vars PROVE SocketInv'
    OBVIOUS
  <1> USE DEF clients, locals
  <1>a. None \notin Conns /\ None \notin Slots
    BY SessionsAssumption DEF Slots
  <1>0. ASSUME UNCHANGED <<slot, job, s>>,
               \A c \in Conns : isConnect'[c] => isConnect[c],
               \A w \in Workers : pc'[w] \in AfterSocket => pc[w] \in AfterSocket
        PROVE  SocketInv'
    BY <1>0 DEF SocketInv
  <1>c. ASSUME NEW w \in Workers, pc[w] \in AfterSocket, NEW l, Goto(w, l),
               UNCHANGED <<slot, job, s>>,
               \A c \in Conns : isConnect'[c] => isConnect[c]
        PROVE  SocketInv'
    <2>1. \A v \in Workers : pc'[v] \in AfterSocket => pc[v] \in AfterSocket
      BY <1>c DEF Goto, TypeOK
    <2> QED
      BY <1>c, <2>1, <1>0
  <1>d. ASSUME NEW w \in Workers, Finish(w), UNCHANGED slot,
               \A c \in Conns : isConnect'[c] => isConnect[c]
        PROVE  SocketInv'
    <2>1. pc'[w] \notin AfterSocket
      BY <1>d DEF Finish, Goto, AfterSocket, TypeOK
    <2>2. \A v \in Workers : v # w =>
            pc'[v] = pc[v] /\ job'[v] = job[v] /\ s'[v] = s[v]
      BY <1>d DEF Finish, Goto, TypeOK
    <2> QED
      BY <1>d, <2>1, <2>2 DEF SocketInv
  <1>e. ASSUME NEW w \in Workers, NEW j \in Completion, Dequeue(w, j),
               UNCHANGED <<slot, isConnect>>
        PROVE  SocketInv'
    <2>1. CASE UNCHANGED <<pc, job, s>>
      BY <1>e, <2>1 DEF SocketInv
    <2>2. CASE ~UNCHANGED <<pc, job, s>>
      <3>1. job'[w] = j /\ \A v \in Workers : v # w =>
               pc'[v] = pc[v] /\ job'[v] = job[v] /\ s'[v] = s[v]
        BY <1>e, <2>2 DEF Dequeue, Goto, TypeOK, locals
      <3>2. slot[j.on] = EVENT_KEY \/ pc'[w] = "socket"
        BY <1>e, <2>2 DEF Dequeue, Goto, TypeOK, locals
      <3> QED
        BY <1>e, <3>1, <3>2 DEF SocketInv, AfterSocket
    <2> QED
      BY <2>1, <2>2
  <1>1. ASSUME NEW c \in Conns, Accept(c) PROVE SocketInv'
    <2>1. /\ \A d \in Conns : d # c => isConnect'[d] = isConnect[d] /\ slot'[d] = slot[d]
          /\ UNCHANGED <<pc, job, s>>
          /\ peer[c] = "idle"
      BY <1>1 DEF Accept, TypeOK
    <2>2. \A w \in Workers : job[w].on # c
      BY <2>1, <1>a DEF SlotInv, KeyInv, TypeOK
    <2> QED
      BY <2>1, <2>2 DEF SocketInv
  <1>2. ASSUME NEW c \in Conns, PeerEnds(c) PROVE SocketInv'
    BY <1>2, <1>0 DEF PeerEnds, Stop
  <1>3. ASSUME NoMoreSlot PROVE SocketInv'
    BY <1>3, <1>0 DEF NoMoreSlot, Stop
  <1>4. ASSUME FirstReceive PROVE SocketInv'
    BY <1>4, <1>0 DEF FirstReceive, Stop
  <1>5. ASSUME NEW k \in Updated, UpdateSends(k) PROVE SocketInv'
    BY <1>5, <1>0 DEF UpdateSends, Stop
  <1>6. ASSUME NEW w \in Workers, NEW c \in Conns, TakeReceive(w, c)
        PROVE  SocketInv'
    <2>1. recv[c].on \in Conns
      BY <1>6 DEF TakeReceive, TypeOK
    <2>2. PICK bytes \in BOOLEAN :
            Dequeue(w, [type |-> "EV_RECV", over |-> c, on |-> recv[c].on,
                        bytes |-> bytes])
      BY <1>6 DEF TakeReceive
    <2>3. [type |-> "EV_RECV", over |-> c, on |-> recv[c].on, bytes |-> bytes]
             \in Completion
      BY <2>1 DEF Completion
    <2> QED
      BY <1>6, <2>2, <2>3, <1>e DEF TakeReceive
  <1>7. ASSUME NEW w \in Workers, NEW c \in Conns, TakeSend(w, c)
        PROVE  SocketInv'
    <2>1. PICK bytes \in BOOLEAN :
            Dequeue(w, [type |-> "EV_SEND", over |-> None, on |-> c,
                        bytes |-> bytes])
      BY <1>7 DEF TakeSend
    <2>2. [type |-> "EV_SEND", over |-> None, on |-> c, bytes |-> bytes]
             \in Completion
      BY DEF Completion
    <2> QED
      BY <1>7, <2>1, <2>2, <1>e DEF TakeSend
  <1>8. ASSUME NEW w \in Workers, GetSocket(w) PROVE SocketInv'
    <2>1. CASE Stop("null_pointer")
      BY <1>0, <2>1 DEF Stop
    <2>2. CASE s' = [s EXCEPT ![w] = users[Key(w)]]
      <3>1. UNCHANGED <<slot, isConnect, job>>
        BY <1>8 DEF GetSocket, Stop
      <3>2. s'[w] = users[Key(w)] /\ \A v \in Workers : v # w => s'[v] = s[v]
        BY <2>2 DEF TypeOK
      <3>3. \A v \in Workers : v # w => pc'[v] = pc[v]
        BY <1>8 DEF GetSocket, Goto, Stop, TypeOK
      <3> QED
        BY <3>1, <3>2, <3>3 DEF SocketInv, SlotInv, ConnectedIsInItsSlot, Key
    <2> QED
      BY <1>8, <2>1, <2>2 DEF GetSocket
  <1>9. ASSUME NEW w \in Workers, DeleteSend(w) PROVE SocketInv'
    BY <1>9, <1>d DEF DeleteSend
  <1>10. ASSUME NEW w \in Workers, RecvPacket(w) PROVE SocketInv'
    BY <1>10, <1>c DEF RecvPacket, AfterSocket, Labels
  <1>11. ASSUME NEW w \in Workers, RecvGarbage(w) PROVE SocketInv'
    BY <1>11, <1>c DEF RecvGarbage, AfterSocket, Labels
  <1>12. ASSUME NEW w \in Workers, Rearm(w) PROVE SocketInv'
    BY <1>12, <1>c, <1>d DEF Rearm, AfterSocket, Labels
  <1>13. ASSUME NEW w \in Workers, FindID(w) PROVE SocketInv'
    BY <1>13, <1>0, <1>c DEF FindID, Stop, AfterSocket, Labels
  <1>14. ASSUME NEW w \in Workers, EnterPlayer(w) PROVE SocketInv'
    BY <1>14, <1>0, <1>c DEF EnterPlayer, Stop, AfterSocket, Labels
  <1>15. ASSUME NEW w \in Workers, SendLoginOK(w) PROVE SocketInv'
    BY <1>15, <1>0, <1>c DEF SendLoginOK, Stop, AfterSocket, Labels
  <1>16. ASSUME NEW w \in Workers, TestOther(w) PROVE SocketInv'
    <2>1. Goto(w, "near") \/ UNCHANGED pc
      BY <1>16 DEF TestOther
    <2> QED
      BY <1>16, <2>1, <1>0, <1>c DEF TestOther, AfterSocket, Labels
  <1>17. ASSUME NEW w \in Workers, GreetOther(w) PROVE SocketInv'
    BY <1>17, <1>0, <1>c DEF GreetOther, Stop, AfterSocket, Labels
  <1>18. ASSUME NEW w \in Workers, GreetNpcs(w) PROVE SocketInv'
    BY <1>18, <1>0, <1>c DEF GreetNpcs, Stop, AfterSocket, Labels
  <1>19. ASSUME NEW w \in Workers, DummyLogin(w) PROVE SocketInv'
    BY <1>19, <1>0, <1>c DEF DummyLogin, Stop, AfterSocket, Labels
  <1>20. ASSUME NEW w \in Workers, Logout(w) PROVE SocketInv'
    <2>1. \A c \in Conns : isConnect'[c] => isConnect[c]
      BY <1>20 DEF Logout, Stop, TypeOK
    <2>2. \A v \in Workers : pc'[v] \in AfterSocket => pc[v] \in AfterSocket
      BY <1>20 DEF Logout, Goto, Stop, AfterSocket, Labels, TypeOK
    <2> QED
      BY <1>20, <2>1, <2>2, <1>0 DEF Logout, Stop
  <1>21. ASSUME NEW w \in Workers, ResetPlayer(w) PROVE SocketInv'
    BY <1>21, <1>0, <1>c DEF ResetPlayer, Stop, AfterSocket, Labels
  <1>22. ASSUME NEW w \in Workers, ClearConnect(w) PROVE SocketInv'
    <2>1. \A c \in Conns : isConnect'[c] => isConnect[c]
      BY <1>22 DEF ClearConnect, TypeOK
    <2>2. \A v \in Workers : pc'[v] \in AfterSocket => pc[v] \in AfterSocket
      BY <1>22 DEF ClearConnect, Goto, AfterSocket, TypeOK
    <2> QED
      BY <1>22, <2>1, <2>2, <1>0 DEF ClearConnect
  <1>23. ASSUME NEW w \in Workers, ZeroClient(w) PROVE SocketInv'
    <2>1. \A c \in Conns : isConnect'[c] => isConnect[c]
      BY <1>23 DEF ZeroClient, TypeOK
    <2> QED
      BY <1>23, <2>1, <1>d DEF ZeroClient
  <1>24. CASE UNCHANGED vars
    BY <1>24, <1>0 DEF vars
  <1> QED
    BY <1>1, <1>2, <1>3, <1>4, <1>5, <1>6, <1>7, <1>8, <1>9, <1>10, <1>11,
       <1>12, <1>13, <1>14, <1>15, <1>16, <1>17, <1>18, <1>19, <1>20, <1>21,
       <1>22, <1>23, <1>24
    DEF Next, Handle
-----------------------------------------------------------------------------
(* The end of connection c will be noticed. *)
Listens(c) ==
    (\E o \in Conns : recv[o].on = c) \/ (\E w \in Workers : Receiving(w, c))

(* A receive goes from the port to a worker and back, and is not dropped   *)
(* while its client is connected.                                          *)
LEMMA ListenStep == IInv /\ [Next]_vars => ConnectedSlotListens'
  <1> SUFFICES ASSUME TypeOK, SlotInv, KeyInv, OverInv, SocketInv,
                      ConnectedSlotListens, [Next]_vars
               PROVE ConnectedSlotListens'
    BY DEF IInv
  <1> USE DEF clients, locals
  <1>a. None \notin Conns /\ None \notin Slots
    BY SessionsAssumption DEF Slots
  <1>b. \A r \in Requests : Handler[r] \in Labels \ {"hung"}
    BY SessionsAssumption DEF Handler, AllRequests, Labels
  <1>g. ASSUME UNCHANGED <<users, acceptor>>,
               \A c \in Conns : /\ isConnect'[c] => isConnect[c]
                                /\ peer'[c] # "reset" => peer[c] # "reset"
                                /\ garbled[c] => garbled'[c],
               \A c \in Conns :
                 /\ isConnect'[c] /\ isConnect[c] /\ slot[c] # EVENT_KEY
                 /\ peer[c] # "reset" /\ ~garbled'[c] /\ Listens(c)
                 => Listens(c)'
        PROVE  ConnectedSlotListens'
    <2>1. SUFFICES ASSUME NEW k \in Slots \ {EVENT_KEY}, Connected(k)',
                          acceptor' # users'[k], peer'[users'[k]] # "reset",
                          ~garbled'[users'[k]]
                   PROVE  Listens(users[k])'
      BY <1>g DEF ConnectedSlotListens, Listens
    <2>2. users[k] \in Conns /\ slot[users[k]] = k
      BY <1>g, <2>1, <1>a DEF Connected, SlotInv, TypeOK
    <2>3. Connected(k) /\ ~garbled[users[k]] /\ peer[users[k]] # "reset"
      BY <1>g, <2>1, <2>2 DEF Connected
    <2>4. Listens(users[k])
      BY <1>g, <2>1, <2>3 DEF ConnectedSlotListens, Listens
    <2>5. isConnect'[users[k]] /\ isConnect[users[k]]
      BY <1>g, <2>1, <2>3 DEF Connected
    <2> QED
      BY <1>g, <2>1, <2>2, <2>3, <2>4, <2>5
  <1>0. ASSUME UNCHANGED <<users, acceptor, peer, recv, job>>,
               \A c \in Conns : /\ isConnect'[c] => isConnect[c]
                                /\ garbled[c] => garbled'[c],
               \A w \in Workers : pc'[w] = "hung" => pc[w] = "hung"
        PROVE  ConnectedSlotListens'
    BY <1>0, <1>g DEF Listens, Receiving
  <1>c. ASSUME NEW w \in Workers, NEW l, l # "hung", Goto(w, l),
               UNCHANGED <<users, acceptor, peer, recv, job>>,
               \A c \in Conns : /\ isConnect'[c] => isConnect[c]
                                /\ garbled[c] => garbled'[c]
        PROVE  ConnectedSlotListens'
    BY <1>c, <1>0 DEF Goto, TypeOK
  <1>e. ASSUME NEW w \in Workers, NEW j \in Completion, Dequeue(w, j),
               pc[w] = "gqcs"
        PROVE  /\ \A v \in Workers : \A c \in Conns :
                    Receiving(v, c) => Receiving(v, c)'
               /\ HasClient(slot[j.on]) /\ j.type = "EV_RECV" =>
                    Receiving(w, j.on)'
    <2>1. job[w].on = None
      BY <1>e DEF KeyInv
    <2>2. \/ UNCHANGED <<pc, job>> /\ ~HasClient(slot[j.on])
          \/ /\ job' = [job EXCEPT ![w] = j]
             /\ \E l \in Labels \ {"hung"} : Goto(w, l)
      BY <1>e DEF Dequeue, locals, Labels
    <2>3. CASE UNCHANGED <<pc, job>> /\ ~HasClient(slot[j.on])
      BY <2>3 DEF Receiving
    <2>4. CASE job' = [job EXCEPT ![w] = j] /\ \E l \in Labels \ {"hung"} : Goto(w, l)
      <3>1. job'[w] = j /\ pc'[w] # "hung"
        BY <2>4 DEF Goto, TypeOK
      <3>2. \A v \in Workers : v # w => job'[v] = job[v] /\ pc'[v] = pc[v]
        BY <2>4 DEF Goto, TypeOK
      <3> QED
        BY <1>a, <2>1, <3>1, <3>2 DEF Receiving
    <2> QED
      BY <2>2, <2>3, <2>4
  <1>1. ASSUME NEW c \in Conns, Accept(c) PROVE ConnectedSlotListens'
    <2>1. PICK k \in Slots : users' = [users EXCEPT ![k] = c]
      BY <1>1 DEF Accept
    <2>2. /\ acceptor = None /\ acceptor' = c /\ peer[c] = "idle"
          /\ peer' = [peer EXCEPT ![c] = "open"]
          /\ isConnect' = [isConnect EXCEPT ![c] = TRUE]
          /\ UNCHANGED <<garbled, recv, pc, job>>
      BY <1>1 DEF Accept, locals
    <2>3. SUFFICES ASSUME NEW i \in Slots \ {EVENT_KEY}, Connected(i)',
                          acceptor' # users'[i], peer'[users'[i]] # "reset",
                          ~garbled'[users'[i]]
                   PROVE  Listens(users'[i])
      BY <2>2 DEF ConnectedSlotListens, Listens, Receiving
    <2>4. i # k /\ users'[i] = users[i]
      BY <2>1, <2>2, <2>3 DEF TypeOK
    <2>5. users[i] \in Conns /\ users[i] # c
      BY <2>2, <2>3, <2>4 DEF TypeOK, Connected
    <2>6. Connected(i) /\ acceptor # users[i] /\ peer[users[i]] # "reset"
          /\ ~garbled[users[i]]
      BY <1>a, <2>2, <2>3, <2>4, <2>5 DEF Connected, TypeOK
    <2> QED
      BY <2>4, <2>6 DEF ConnectedSlotListens, Listens
  <1>2. ASSUME NEW c \in Conns, PeerEnds(c) PROVE ConnectedSlotListens'
    <2>1. \A d \in Conns : peer'[d] # "reset" => peer[d] # "reset"
      BY <1>2 DEF PeerEnds, TypeOK
    <2>2. UNCHANGED <<users, acceptor, isConnect, garbled, recv, pc, job>>
      BY <1>2 DEF PeerEnds
    <2> QED
      BY <2>1, <2>2, <1>g DEF Listens, Receiving
  <1>3. ASSUME NoMoreSlot PROVE ConnectedSlotListens'
    BY <1>3, <1>0 DEF NoMoreSlot, Stop
  <1>4. ASSUME FirstReceive PROVE ConnectedSlotListens'
    <2>1. /\ acceptor \in Conns
          /\ UNCHANGED <<users, isConnect, garbled, peer, pc, job>>
          /\ \A o \in Conns : o # acceptor => recv'[o] = recv[o]
          /\ peer[acceptor] = "reset" \/ recv'[acceptor].on = acceptor
      BY <1>4 DEF FirstReceive, TypeOK, locals
    <2>2. recv[acceptor].on = None
      BY <2>1 DEF OverInv
    <2>3. SUFFICES ASSUME NEW k \in Slots \ {EVENT_KEY}, Connected(k),
                          peer[users[k]] # "reset", ~garbled[users[k]]
                   PROVE  Listens(users[k])'
      BY <2>1 DEF ConnectedSlotListens, Listens, Connected
    <2>4. users[k] # None
      BY <2>3 DEF Connected
    <2>5. CASE acceptor = users[k]
      BY <2>1, <2>3, <2>5 DEF Listens
    <2>6. CASE acceptor # users[k]
      <3>1. Listens(users[k])
        BY <2>3, <2>6 DEF ConnectedSlotListens, Listens
      <3> QED
        BY <2>1, <2>2, <2>4, <3>1 DEF Listens, Receiving
    <2> QED
      BY <2>5, <2>6
  <1>5. ASSUME NEW k \in Updated, UpdateSends(k) PROVE ConnectedSlotListens'
    BY <1>5, <1>0 DEF UpdateSends, Stop
  <1>6. ASSUME NEW w \in Workers, NEW c \in Conns, TakeReceive(w, c)
        PROVE  ConnectedSlotListens'
    <2>1. PICK e \in Conns : recv[c].on = e
      BY <1>6 DEF TakeReceive, TypeOK
    <2>2. PICK bytes \in BOOLEAN :
            Dequeue(w, [type |-> "EV_RECV", over |-> c, on |-> e,
                        bytes |-> bytes])
      BY <1>6, <2>1 DEF TakeReceive
    <2>3. [type |-> "EV_RECV", over |-> c, on |-> e, bytes |-> bytes]
             \in Completion
      BY DEF Completion
    <2>4. /\ UNCHANGED <<users, acceptor, isConnect, zeroed, garbled, slot, peer>>
          /\ pc[w] = "gqcs"
          /\ \A o \in Conns : o # c => recv'[o] = recv[o]
      BY <1>6 DEF TakeReceive, TypeOK
    <2>5. \A v \in Workers : \A d \in Conns : Receiving(v, d) => Receiving(v, d)'
      BY <2>2, <2>3, <2>4, <1>e
    <2>6. HasClient(slot[e]) => Receiving(w, e)'
      BY <2>2, <2>3, <2>4, <1>e
    <2>7. \A d \in Conns : isConnect[d] => HasClient(slot[d])
      BY <1>a DEF SlotInv, ConnectedIsInItsSlot, HasClient
    <2>8. \A d \in Conns : isConnect[d] /\ Listens(d) => Listens(d)'
      <3> SUFFICES ASSUME NEW d \in Conns, isConnect[d], Listens(d)
                   PROVE  Listens(d)'
        OBVIOUS
      <3>1. CASE \E v \in Workers : Receiving(v, d)
        BY <2>5, <3>1 DEF Listens
      <3>2. ASSUME NEW o \in Conns, recv[o].on = d, o # c PROVE Listens(d)'
        BY <2>4, <3>2 DEF Listens
      <3>3. CASE recv[c].on = d
        BY <2>1, <2>6, <2>7, <3>3 DEF Listens
      <3> QED
        BY <3>1, <3>2, <3>3 DEF Listens
    <2> QED
      BY <2>4, <2>8, <1>g
  <1>7. ASSUME NEW w \in Workers, NEW c \in Conns, TakeSend(w, c)
        PROVE  ConnectedSlotListens'
    <2>1. PICK bytes \in BOOLEAN :
            Dequeue(w, [type |-> "EV_SEND", over |-> None, on |-> c,
                        bytes |-> bytes])
      BY <1>7 DEF TakeSend
    <2>2. [type |-> "EV_SEND", over |-> None, on |-> c, bytes |-> bytes]
             \in Completion
      BY DEF Completion
    <2>3. /\ UNCHANGED <<users, acceptor, isConnect, garbled, peer, recv>>
          /\ pc[w] = "gqcs"
      BY <1>7 DEF TakeSend
    <2>4. \A v \in Workers : \A d \in Conns : Receiving(v, d) => Receiving(v, d)'
      BY <2>1, <2>2, <2>3, <1>e
    <2> QED
      BY <2>3, <2>4, <1>g DEF Listens
  <1>8. ASSUME NEW w \in Workers, GetSocket(w) PROVE ConnectedSlotListens'
    <2>1. UNCHANGED <<users, acceptor, isConnect, garbled, peer, recv, job>>
      BY <1>8 DEF GetSocket, Stop
    <2>2. \A v \in Workers : pc'[v] = "hung" => pc[v] = "hung"
      BY <1>8 DEF GetSocket, Goto, Stop, TypeOK
    <2> QED
      BY <2>1, <2>2, <1>0
  <1>9. ASSUME NEW w \in Workers, DeleteSend(w) PROVE ConnectedSlotListens'
    <2>1. \A v \in Workers : \A d \in Conns : Receiving(v, d) => v # w
      BY <1>9 DEF DeleteSend, OverInv, Receiving
    <2>2. \A v \in Workers : v # w => job'[v] = job[v] /\ pc'[v] = pc[v]
      BY <1>9 DEF DeleteSend, Finish, Goto, TypeOK
    <2>3. UNCHANGED <<users, acceptor, isConnect, garbled, peer, recv>>
      BY <1>9 DEF DeleteSend
    <2> QED
      BY <2>1, <2>2, <2>3, <1>g DEF Listens, Receiving
  <1>10. ASSUME NEW w \in Workers, RecvPacket(w) PROVE ConnectedSlotListens'
    BY <1>10, <1>b, <1>c DEF RecvPacket
  <1>11. ASSUME NEW w \in Workers, RecvGarbage(w) PROVE ConnectedSlotListens'
    <2>1. /\ UNCHANGED <<users, acceptor, isConnect, slot, peer, recv, job>>
          /\ garbled' = [garbled EXCEPT ![users[Key(w)]] = TRUE]
      BY <1>11 DEF RecvGarbage
    <2>2. \A d \in Conns : garbled[d] => garbled'[d]
      BY <2>1 DEF TypeOK
    <2>3. \A v \in Workers : v # w => pc'[v] = pc[v]
      BY <1>11 DEF RecvGarbage, Goto, TypeOK
    <2>4. ASSUME NEW d \in Conns, isConnect[d], Receiving(w, d) PROVE garbled'[d]
      <3>1. users[Key(w)] = d
        BY <2>4 DEF Receiving, Key, SlotInv, ConnectedIsInItsSlot
      <3> QED
        BY <2>1, <3>1 DEF TypeOK
    <2>5. \A d \in Conns : isConnect[d] /\ ~garbled'[d] /\ Listens(d) => Listens(d)'
      BY <2>1, <2>3, <2>4 DEF Listens, Receiving
    <2> QED
      BY <2>1, <2>2, <2>5, <1>g
  <1>12. ASSUME NEW w \in Workers, Rearm(w) PROVE ConnectedSlotListens'
    <2>1. UNCHANGED <<users, acceptor, isConnect, garbled, slot, peer>>
      BY <1>12 DEF Rearm
    <2>2. ASSUME NEW d \in Conns, isConnect[d], slot[d] # EVENT_KEY,
                 Receiving(w, d)
          PROVE  s[w] = d /\ job[w].over \in Conns
      <3>1. pc[w] \in AfterSocket
        BY <1>12 DEF Rearm, AfterSocket, Labels
      <3> QED
        BY <2>2, <3>1 DEF SocketInv, OverInv, Receiving, TypeOK
    <2>3. CASE Goto(w, "hung") /\ UNCHANGED <<recv, job>>
                /\ (s[w] # None => peer[s[w]] = "reset")
      <3>1. \A v \in Workers : v # w => pc'[v] = pc[v]
        BY <2>3 DEF Goto, TypeOK
      <3>2. \A d \in Conns : /\ isConnect[d] /\ slot[d] # EVENT_KEY
                            /\ peer[d] # "reset" /\ Listens(d)
                            => Listens(d)'
        BY <1>a, <2>2, <2>3, <3>1 DEF Listens, Receiving
      <3> QED
        BY <2>1, <3>2, <1>g
    <2>4. CASE Finish(w) /\ recv' = [recv EXCEPT ![job[w].over] =
                             [on |-> s[w], room |-> ~zeroed[job[w].over]]]
      <3>1. \A v \in Workers : v # w => job'[v] = job[v] /\ pc'[v] = pc[v]
        BY <2>4 DEF Finish, Goto, TypeOK
      <3>2. \A o \in Conns : o # job[w].over => recv'[o] = recv[o]
        BY <2>4 DEF TypeOK
      <3>3. job[w].over \in Conns => recv'[job[w].over].on = s[w]
        BY <2>4 DEF TypeOK
      <3>4. \A o \in Conns : recv[o].on # None => o # job[w].over
        BY <1>a DEF OverInv
      <3>5. \A d \in Conns : isConnect[d] /\ slot[d] # EVENT_KEY /\ Listens(d)
                            => Listens(d)'
        <4> SUFFICES ASSUME NEW d \in Conns, isConnect[d], slot[d] # EVENT_KEY,
                            Listens(d)
                     PROVE  Listens(d)'
          OBVIOUS
        <4>1. ASSUME NEW o \in Conns, recv[o].on = d PROVE Listens(d)'
          BY <1>a, <3>2, <3>4, <4>1 DEF Listens
        <4>2. ASSUME NEW v \in Workers, Receiving(v, d), v # w PROVE Listens(d)'
          BY <3>1, <4>2 DEF Listens, Receiving
        <4>3. CASE Receiving(w, d)
          BY <2>2, <3>3, <4>3 DEF Listens
        <4> QED
          BY <4>1, <4>2, <4>3 DEF Listens
      <3> QED
        BY <2>1, <3>5, <1>g
    <2> QED
      BY <1>12, <2>3, <2>4 DEF Rearm
  <1>13. ASSUME NEW w \in Workers, FindID(w) PROVE ConnectedSlotListens'
    BY <1>13, <1>0, <1>c DEF FindID, Stop
  <1>14. ASSUME NEW w \in Workers, EnterPlayer(w) PROVE ConnectedSlotListens'
    BY <1>14, <1>0, <1>c DEF EnterPlayer, Stop
  <1>15. ASSUME NEW w \in Workers, SendLoginOK(w) PROVE ConnectedSlotListens'
    BY <1>15, <1>0, <1>c DEF SendLoginOK, Stop
  <1>16. ASSUME NEW w \in Workers, TestOther(w) PROVE ConnectedSlotListens'
    <2>1. Goto(w, "near") \/ UNCHANGED pc
      BY <1>16 DEF TestOther
    <2> QED
      BY <1>16, <2>1, <1>0, <1>c DEF TestOther
  <1>17. ASSUME NEW w \in Workers, GreetOther(w) PROVE ConnectedSlotListens'
    BY <1>17, <1>0, <1>c DEF GreetOther, Stop
  <1>18. ASSUME NEW w \in Workers, GreetNpcs(w) PROVE ConnectedSlotListens'
    BY <1>18, <1>0, <1>c DEF GreetNpcs, Stop
  <1>19. ASSUME NEW w \in Workers, DummyLogin(w) PROVE ConnectedSlotListens'
    BY <1>19, <1>0, <1>c DEF DummyLogin, Stop
  <1>20. ASSUME NEW w \in Workers, Logout(w) PROVE ConnectedSlotListens'
    <2>1. \A c \in Conns : isConnect'[c] => isConnect[c]
      BY <1>20 DEF Logout, Stop, TypeOK
    <2> QED
      BY <1>20, <2>1, <1>0, <1>c DEF Logout, Stop
  <1>21. ASSUME NEW w \in Workers, ResetPlayer(w) PROVE ConnectedSlotListens'
    BY <1>21, <1>0, <1>c DEF ResetPlayer, Stop
  <1>22. ASSUME NEW w \in Workers, ClearConnect(w) PROVE ConnectedSlotListens'
    <2>1. \A c \in Conns : isConnect'[c] => isConnect[c]
      BY <1>22 DEF ClearConnect, TypeOK
    <2> QED
      BY <1>22, <2>1, <1>c DEF ClearConnect
  <1>23. ASSUME NEW w \in Workers, ZeroClient(w) PROVE ConnectedSlotListens'
    <2>1. /\ UNCHANGED <<users, acceptor, garbled, slot, peer, recv>>
          /\ isConnect' = [isConnect EXCEPT ![users[Key(w)]] = FALSE]
      BY <1>23 DEF ZeroClient
    <2>2. \A v \in Workers : v # w => job'[v] = job[v] /\ pc'[v] = pc[v]
      BY <1>23 DEF ZeroClient, Finish, Goto, TypeOK
    <2>3. \A d \in Conns : isConnect'[d] => isConnect[d]
      BY <2>1 DEF TypeOK
    <2>4. ASSUME NEW d \in Conns, isConnect[d], Receiving(w, d) PROVE ~isConnect'[d]
      <3>1. users[Key(w)] = d
        BY <2>4 DEF Receiving, Key, SlotInv, ConnectedIsInItsSlot
      <3> QED
        BY <2>1, <3>1 DEF TypeOK
    <2>5. \A d \in Conns : isConnect'[d] /\ isConnect[d] /\ Listens(d) => Listens(d)'
      BY <2>1, <2>2, <2>4 DEF Listens, Receiving
    <2> QED
      BY <2>1, <2>3, <2>5, <1>g
  <1>24. CASE UNCHANGED vars
    BY <1>24, <1>0 DEF vars
  <1> QED
    BY <1>1, <1>2, <1>3, <1>4, <1>5, <1>6, <1>7, <1>8, <1>9, <1>10, <1>11,
       <1>12, <1>13, <1>14, <1>15, <1>16, <1>17, <1>18, <1>19, <1>20, <1>21,
       <1>22, <1>23, <1>24
    DEF Next, Handle
-----------------------------------------------------------------------------
(* Nothing is accepted yet.                                                *)
LEMMA IInvInit == Init => IInv
  <1> SUFFICES ASSUME Init PROVE IInv
    OBVIOUS
  <1> USE SessionsAssumption DEF Init
  <1>1. TypeOK
    BY DEF TypeOK, Slots, Labels, Reasons, NotWaiting, NoJob
  <1>2. SlotInv /\ KeyInv /\ OverInv /\ SocketInv
    BY DEF SlotInv, KeyInv, OverInv, SocketInv, ConnectedIsInItsSlot,
           NotWaiting, NoJob
  <1>3. ConnectedSlotListens
    BY DEF ConnectedSlotListens, Connected
  <1> QED
    BY <1>1, <1>2, <1>3 DEF IInv

(* IInv holds in every reachable state.                                    *)
THEOREM InductiveInvariant == Spec => []IInv
  <1>1. IInv /\ [Next]_vars => IInv'
    BY TypeStep, SlotStep, KeyStep, OverStep, SocketStep, ListenStep DEF IInv
  <1> QED
    BY IInvInit, <1>1, PTL DEF Spec

(* Every variable keeps its type; above all, a connection that is served   *)
(* has a slot in range.                                                    *)
THEOREM TypeCorrect == Spec => []TypeOK
  BY InductiveInvariant, PTL DEF IInv

(* No client is left behind with isConnect set outside its slot, however   *)
(* ServerMain::Run and DisconnectClient overlap.                           *)
THEOREM ConnectedReachable == Spec => []ConnectedIsInItsSlot
  <1>1. IInv => ConnectedIsInItsSlot
    BY DEF IInv, SlotInv
  <1> QED
    BY InductiveInvariant, <1>1, PTL

(* A connected slot has a receive in flight or in the hands of a worker,   *)
(* but for the exceptions the property names.                              *)
THEOREM SlotsListen == Spec => []ConnectedSlotListens
  <1>1. IInv => ConnectedSlotListens
    BY DEF IInv
  <1> QED
    BY InductiveInvariant, <1>1, PTL
-----------------------------------------------------------------------------
(* The refinement of SlotOwners                                            *)

Owner == [k \in Slots |-> IF Connected(k) THEN users[k] ELSE None]
Served == {c \in Conns : slot[c] # None}

(* No slot has an owner at first.                                          *)
LEMMA OwnersInit == Init => Owners!Init
  BY SessionsAssumption DEF Init, Owners!Init, Connected

(* Clearing isConnect of the CLIENT in slot k is Release(k), or nothing if *)
(* it is clear already.                                                    *)
LEMMA ClearReleases ==
    ASSUME TypeOK, SlotInv, NEW k \in Slots, UNCHANGED <<users, slot>>,
           isConnect' = [isConnect EXCEPT ![users[k]] = FALSE]
    PROVE  Owners!Release(k) \/ UNCHANGED Owners!vars
  <1>a. None \notin Conns /\ None \notin Slots
    BY SessionsAssumption DEF Slots
  <1>1. ~Connected(k)'
    BY <1>a DEF Connected, TypeOK
  <1>2. \A j \in Slots : j # k => (Connected(j)' <=> Connected(j))
    BY <1>a DEF Connected, SlotInv, TypeOK
  <1>3. CASE Connected(k)
    <2>1. Owner[k] # None
      BY <1>3 DEF Owner, Connected
    <2>2. Owner' = [Owner EXCEPT ![k] = None]
      BY <1>1, <1>2 DEF Owner
    <2> QED
      BY <2>1, <2>2 DEF Owners!Release, Owner
  <1>4. CASE ~Connected(k)
    <2>1. Owner' = Owner
      BY <1>1, <1>2, <1>4 DEF Owner
    <2> QED
      BY <2>1 DEF Owners!vars, Owner
  <1> QED
    BY <1>3, <1>4

(* Accept takes a slot, the three places that clear isConnect release one, *)
(* and all other steps leave the owners alone.                             *)
LEMMA OwnersStep == IInv /\ [Next]_vars => [Owners!Next]_(Owners!vars)
  <1> SUFFICES ASSUME TypeOK, SlotInv, KeyInv, [Next]_vars
               PROVE [Owners!Next]_(Owners!vars)
    BY DEF IInv
  <1> USE DEF clients, locals
  <1>0. ASSUME UNCHANGED <<users, isConnect, slot>> PROVE [Owners!Next]_(Owners!vars)
    BY <1>0 DEF Owners!vars, Connected
  <1>c. ASSUME NEW k \in Slots, UNCHANGED <<users, slot>>,
               isConnect' = [isConnect EXCEPT ![users[k]] = FALSE]
        PROVE  [Owners!Next]_(Owners!vars)
    BY <1>c, ClearReleases DEF Owners!Next
  <1>1. ASSUME NEW c \in Conns, Accept(c) PROVE [Owners!Next]_(Owners!vars)
    <2>1. PICK k \in Slots :
            /\ ~Connected(k)
            /\ users' = [users EXCEPT ![k] = c] /\ slot' = [slot EXCEPT ![c] = k]
      BY <1>1 DEF Accept, FirstFree
    <2>2. isConnect' = [isConnect EXCEPT ![c] = TRUE] /\ slot[c] = None
      BY <1>1 DEF Accept, SlotInv
    <2>3. None \notin Conns /\ None \notin Slots
      BY SessionsAssumption DEF Slots
    <2>4. \A j \in Slots : users[j] # c
      BY <2>2, <2>3 DEF SlotInv
    <2>5. Connected(k)' /\ users'[k] = c
      BY <2>1, <2>2, <2>3 DEF Connected, TypeOK
    <2>6. \A j \in Slots : j # k => users'[j] = users[j] /\ (Connected(j)' <=> Connected(j))
      BY <2>1, <2>2, <2>4 DEF Connected, TypeOK
    <2>7. Owner[k] = None /\ Owner' = [Owner EXCEPT ![k] = c]
      BY <2>1, <2>5, <2>6 DEF Owner
    <2>8. c \notin Served /\ Served' = Served \cup {c}
      BY <2>1, <2>2, <2>3 DEF Served, TypeOK
    <2>9. Owners!Take(c, k)
      BY <2>7, <2>8 DEF Owners!Take, Owner, Served
    <2> QED
      BY <2>9 DEF Owners!Next
  <1>2. ASSUME NEW c \in Conns, PeerEnds(c) PROVE [Owners!Next]_(Owners!vars)
    BY <1>2, <1>0 DEF PeerEnds
  <1>3. ASSUME NoMoreSlot PROVE [Owners!Next]_(Owners!vars)
    BY <1>3, <1>0 DEF NoMoreSlot, Stop
  <1>4. ASSUME FirstReceive PROVE [Owners!Next]_(Owners!vars)
    BY <1>4, <1>0 DEF FirstReceive
  <1>5. ASSUME NEW k \in Updated, UpdateSends(k)
        PROVE  [Owners!Next]_(Owners!vars)
    BY <1>5, <1>0 DEF UpdateSends, Send
  <1>6. ASSUME NEW w \in Workers, NEW c \in Conns, TakeReceive(w, c)
        PROVE  [Owners!Next]_(Owners!vars)
    BY <1>6, <1>0 DEF TakeReceive, Dequeue
  <1>7. ASSUME NEW w \in Workers, NEW c \in Conns, TakeSend(w, c)
        PROVE  [Owners!Next]_(Owners!vars)
    BY <1>7, <1>0 DEF TakeSend, Dequeue
  <1>8. ASSUME NEW w \in Workers, GetSocket(w)
        PROVE  [Owners!Next]_(Owners!vars)
    BY <1>8, <1>0 DEF GetSocket, Stop
  <1>9. ASSUME NEW w \in Workers, DeleteSend(w)
        PROVE  [Owners!Next]_(Owners!vars)
    BY <1>9, <1>0 DEF DeleteSend, Finish
  <1>10. ASSUME NEW w \in Workers, RecvPacket(w)
        PROVE  [Owners!Next]_(Owners!vars)
    BY <1>10, <1>0 DEF RecvPacket
  <1>11. ASSUME NEW w \in Workers, RecvGarbage(w)
        PROVE  [Owners!Next]_(Owners!vars)
    BY <1>11, <1>0 DEF RecvGarbage
  <1>12. ASSUME NEW w \in Workers, Rearm(w) PROVE [Owners!Next]_(Owners!vars)
    BY <1>12, <1>0 DEF Rearm, Finish
  <1>13. ASSUME NEW w \in Workers, FindID(w) PROVE [Owners!Next]_(Owners!vars)
    BY <1>13, <1>0 DEF FindID, Stop, Answer, Send
  <1>14. ASSUME NEW w \in Workers, EnterPlayer(w)
        PROVE  [Owners!Next]_(Owners!vars)
    BY <1>14, <1>0 DEF EnterPlayer, Stop
  <1>15. ASSUME NEW w \in Workers, SendLoginOK(w)
        PROVE  [Owners!Next]_(Owners!vars)
    BY <1>15, <1>0 DEF SendLoginOK, Stop, Answer, Send
  <1>16. ASSUME NEW w \in Workers, TestOther(w)
        PROVE  [Owners!Next]_(Owners!vars)
    BY <1>16, <1>0 DEF TestOther
  <1>17. ASSUME NEW w \in Workers, GreetOther(w)
        PROVE  [Owners!Next]_(Owners!vars)
    BY <1>17, <1>0 DEF GreetOther, Stop, Send
  <1>18. ASSUME NEW w \in Workers, GreetNpcs(w)
        PROVE  [Owners!Next]_(Owners!vars)
    BY <1>18, <1>0 DEF GreetNpcs, Stop, Send
  <1>19. ASSUME NEW w \in Workers, DummyLogin(w)
        PROVE  [Owners!Next]_(Owners!vars)
    BY <1>19, <1>0 DEF DummyLogin, Stop, Answer, Send
  <1>20. ASSUME NEW w \in Workers, Logout(w) PROVE [Owners!Next]_(Owners!vars)
    <2>1. Key(w) \in Slots
      BY <1>20, KeyType DEF Logout
    <2> QED
      BY <1>20, <2>1, <1>0, <1>c DEF Logout, Stop
  <1>21. ASSUME NEW w \in Workers, ResetPlayer(w)
        PROVE  [Owners!Next]_(Owners!vars)
    BY <1>21, <1>0 DEF ResetPlayer, Stop
  <1>22. ASSUME NEW w \in Workers, ClearConnect(w)
        PROVE  [Owners!Next]_(Owners!vars)
    <2>1. Key(w) \in Slots
      BY <1>22, KeyType DEF ClearConnect
    <2> QED
      BY <1>22, <2>1, <1>c DEF ClearConnect
  <1>23. ASSUME NEW w \in Workers, ZeroClient(w)
        PROVE  [Owners!Next]_(Owners!vars)
    <2>1. Key(w) \in Slots
      BY <1>23, KeyType DEF ZeroClient
    <2> QED
      BY <1>23, <2>1, <1>c DEF ZeroClient
  <1>24. CASE UNCHANGED vars
    BY <1>24, <1>0 DEF vars
  <1> QED
    BY <1>1, <1>2, <1>3, <1>4, <1>5, <1>6, <1>7, <1>8, <1>9, <1>10, <1>11,
       <1>12, <1>13, <1>14, <1>15, <1>16, <1>17, <1>18, <1>19, <1>20, <1>21,
       <1>22, <1>23, <1>24
    DEF Next, Handle

(* The slots behave as SlotOwners says: a slot is given away only when it  *)
(* is free, and to a connection that has none yet.                         *)
THEOREM OwnersKept == Spec => OneOwner
  BY InductiveInvariant, OwnersInit, OwnersStep, PTL DEF Spec, OneOwner, Owners!Spec
=============================================================================
