# Verification of the 2021 spring game server

TLA+ models, TLC configurations and TLAPS proofs for the game server in
`src/2021_spring_server_FINAL` (an MMO server on Windows I/O completion ports,
C++), and for the concurrent programs among the lecture projects in `src/강의`
from which it grew: the AI server, the multithreaded server, the stress-test
client, and Peterson's lock.

In this file paths without a directory are those of
`src/2021_spring_server_FINAL/server/server/`.

## 1. The system

### Threads

| thread | code | what it does |
|---|---|---|
| accept thread | `ServerMain::Run` | accepts a client, finds a free slot of `g_users`, puts a new `CLIENT` there, posts the first `WSARecv` |
| timer thread | `TimerThread::ProcThread` | takes the earliest due `EVENT` from `g_timer_queue`, posts it to the completion port |
| 8 worker threads | `WorkerThread::ProcThread` | take a completion from the port and switch on its event type |

### Parts, their state and operations

| part | state | operations | what makes it correct |
|---|---|---|---|
| timer queue | `g_timer_queue` (under `g_timer_lock`) | `AddTimer`, pop, post to the port | no event is lost or doubled between queue, timer thread, port and worker |
| event dispatch | the port; what each worker is doing | one handler per `EVENT_TYPE` | the handlers that need it are exclusive, the recurring events recur |
| life of the NPCs | `isActive`, `isAlive` of each NPC, its events in flight | `wake_up_npc`, `EV_RANDOM_MOVE`, the kill in `Player::attack` | one chain of moves per live active NPC, none for ever after the kill, experience once |
| world update | `m_recvMsgQueue`, `m_copiedRecvMsgs` | `PushMsg`, `CopyRecvMsg`, `ProcMsg`, re-arming | a request is carried out once, in its player's order |
| packet reassembly | `packet_buf`, `prev_packet_data`, `curr_packet_size` | the loop of `EV_RECV` | the packets sent are the packets handled |
| sessions | `g_users`, `isConnect`, `m_s`, `cur`, I/O in flight | accept, `CS_LOGIN`, `CS_LOGOUT`, `DisconnectClient`, `EnterPlayer` | a slot belongs to one connection, what is in flight for a dead one does no harm |
| view lists | `viewlist` of each client | `Player::move`, `CS_LOGIN`, `random_move_npc` | a client knows of what it is near |
| combat | hit points, experience, level | `Player::attack`, `die`, `revival` | amounts, wrap-around |
| map | `Map::data` | `Player::move`, `setData` | steps stay on the map, marks follow the players |
| path search | none | `World::AStar` | a shortest path where there is one |
| scripts | one `lua_State` per NPC under `lua_lock` | `event_player_move` | one thread in a `lua_State` |
| database | one ODBC statement handle and return code | `FindID`, `UpdateDB` | a call reaches the row of its own name |
| AI server (lecture 6) | sessions, `m_view_list`, `is_active`, timer queue | accept, login, `do_move`, `do_npc_random_move`, `disconnect` | lists and clients agree with what is in sight; one turn per NPC; no deadlock |
| multithreaded server (lecture 4) | `players` with a mutex each | accept, login, move, `disconnect` | everybody in the game is shown; no deadlock |
| receive loop of the lecture servers | `m_packetbuf`, `m_prev_size` | `OP_RECV` | the packets sent are the packets handled |
| stress-test client (lecture 5) | `g_clients`, `active_clients`, the limits | `Test_Thread`, `Worker_Thread`, `DisconnectClient` | each client is counted in and off once |
| Peterson's lock (lecture 3) | `flags`, `v`, `sum` | `p_lock`, `p_unlock` | mutual exclusion on a machine with store buffers |

### How they interact

A client's packet is put together by the worker that completes its receive.
`CS_LOGIN` is handled there, and wakes the NPCs nearby; `CS_MOVE` and
`CS_ATTACK` become a `message`, pushed to the world's queue. Every 16 ms an
`EV_UPDATE` runs `World::Update` on some worker: it copies the queue, works it
off (`Player::move` wakes every NPC and sends an `EV_PLAYER_MOVE_NOTIFY` to those in
view; `Player::attack` kills NPCs) and arms the next `EV_UPDATE` and an
`EV_FLUSH_MSG`. A woken NPC has a chain of `EV_RANDOM_MOVE` events, each
handled by any worker, which moves it (and so wakes others) and arms the next.
So one NPC's flags are touched by several workers at once, with two single
atomic flags and no lock.

### What is hard

Interleavings of the eight workers on the NPC flags; the events in flight
between four places; checks of a flag that are stale by the time of the
action; a copy and a clear under two locks that do not exclude a push; packets
cut anywhere; completions that arrive for a slot that has changed hands; lists
and positions that several workers read and change entry by entry; one database
statement for all of them; locks of two sessions taken in either order. The
list in `PROJECT.json` (`hazards`) gives each with its line and the properties
about it, or the module that is to cover it.

## 2. The modules

| module | what it is |
|---|---|
| `EventLoop` | timer queue, timer thread, port, workers, and all handlers as far as they touch events and NPC flags |
| `NpcLife` | what the server promises about an NPC's life: sleep, wake, kill, rest; `EventLoop` implements it |
| `EventLoopProofs` | theorems about `EventLoop`, for any number of workers and NPCs |
| `MsgQueue` | the message queue of the world, its copy and the race with `PushMsg` |
| `LossyFifo` | a channel that may lose but neither doubles nor reorders; `MsgQueue` implements it |
| `MsgQueueProofs` | theorems about `MsgQueue`, for any number of players and requests |
| `PacketStream` | the receive loop of the final server, packet reassembly |
| `InPlaceStream` | the receive loop of the lecture servers |
| `Streams` | `PacketStream` and `InPlaceStream` side by side |
| `MCStreams` | the packets of an instance of `Streams` |
| `StreamProofs` | theorems about both loops, for any stream, any cuts and any buffer size |
| `Sessions` | accept, client slots, login, logout, disconnect, and the receives and sends in flight |
| `SlotOwners` | what `g_users` promises: a slot has one owner at a time; `Sessions` implements it |
| `MCSessions` | symmetry for the instances of `Sessions` |
| `SessionsProofs` | theorems about `Sessions`, for any number of workers, connections and slots |
| `FinalViews` | the view lists of the final server under logins, moves and NPC turns |
| `MapMove` | the map, `Player::move(int)` and what it does at the borders and beside a login |
| `AStar` | `World::AStar`, step by step |
| `DataBase` | `FindID` and `UpdateDB` on the shared handle, call by call |
| `Combat` | `Player::attack()`: hit points, experience, levels, beside logins |
| `FinalServer` | the five modules above as parts of one specification, with the properties of each |
| `MCFinalServer` | a small instance of `FinalServer` |
| `FinalServerProofs` | theorems about the view lists, the path search, the database, the map and combat, for any clients, workers, names, maps and amounts |
| `AiServer` | the AI server: sessions, view lists, NPC turns, locks |
| `MtServer` | the multithreaded server: sessions, locks, who is shown |
| `LectureServers` | AI servers of several sizes and the multithreaded server in one specification, with the properties of each |
| `MCLectureServers` | a small instance of `LectureServers` |
| `LectureServersProofs` | theorems about both servers, for any number of clients, NPCs and workers |
| `LectureListsProofs` | goes on from there: the view lists and screens of the AI server |
| `StressClient` | the test thread and the workers of the stress-test client |
| `PetersonLock` | the lock of `sync_1.cpp`, on a machine with store buffers |
| `LectureSyncProofs` | theorems about `StressClient`, for any number of clients and workers, and about `PetersonLock`, for any number of rounds |

`FinalServer` and `LectureServers` hold several instances, of several modules,
that are independent of each other: the initial state picks one (`part`, `server`), no step
changes the choice, and a property of an instance begins with it
(`part = "map" => ...`). Variables that only other parts have are 0.
The states of such a run are those of the parts added, not multiplied.
`Streams` is a product instead: its two streams are small. `LectureServers` takes the
sizes of its AI servers as a set of records (`AiServers`), and `FinalServer` those of the worlds of
`FinalViews` (`Worlds`), so that one specification is about any of them at once. The theorems are about these compositions, with their constants
left open; the `MC` modules only give the constants values.

`Slip...` operators in the modules are actions with a plausible mistake. No
specification uses them; each names the property it breaks when it takes the
action's place, which shows that the property does say something.

### EventLoop

State: `timer` and `iocp` are bags (how many of each `EVENT` wait in
`g_timer_queue`, and in the port); `popped` is the event between the timer thread's
pop and its post; `job`, `pc`, `todo`, `npc` say what each worker handles and where
it is in it; `batch` is the length of `m_copiedRecvMsgs`; `isActive`, `isAlive`,
`luaLock` are the fields of `CLIENT`; `rewards` counts payments.

Actions: `TimerPop`/`TimerPost` are the two halves of the timer thread's loop.
`GetQueuedCompletionStatus` and `RecvLogin` give a worker something to do.
`UpdateBegin`, `ProcMove`, `NotifyNpcs`, `ProcAttack`, `AttackHit`, `AttackReward`,
`AttackUnlive`, `AttackUnactive`, `AttackEnd`, `UpdateRearm`, `UpdateFlush` are
`World::Update` cut at each access to what other threads share. `WakeCas`,
`WakeAlive`, `WakeArm`, `WakeEnd` are `wake_up_npc`: the compare-exchange, the
test of `isAlive` and `AddTimer` are three steps, as other workers come between. `RandomMoveNpc` and
`RandomMoveRearm` are `EV_RANDOM_MOVE`, `LuaLock` and `LuaCall`
`EV_PLAYER_MOVE_NOTIFY`.

Abstracted: time (any waiting event may be the next due); positions, view
lists and hit points (who is near, in range or struck dead is a choice); what
is sent to clients. `isAlive` is a plain `bool` read and written by several
threads: each access is one step, as on the x64 machines the build is for.

Clients are no part of the module, but they can end the process: `World::ProcMsg` takes
`cur` of a request's client, which is null once the client is disconnected, and -1 is its number after a
`CS_LOGOUT` (World.cpp:137, 141); `Player::move` asserts that the direction is one of four
(Player.cpp:78); and the loops over the clients take `cur` after a test of `isConnect` that may be stale by then. `ProcessEnds`
may happen at each of these places (`DerefsClient`), and all threads stop (`ended`). The safety properties
hold with it; `WorldKeepsUpdating`, `NpcKeepsMoving` and `LifeSpec` promise what they do
for as long as the process lives.

A login is taken as something that may happen at any time and completes.
In the code it has to pass `EnterPlayer` (World.cpp:178), which reads a null
`cur` unless an uninitialised counter happens to be large: the model is of the
builds and runs in which it passes. Nothing proved about safety depends on a login
taking place. `CS_TELEPORT` is never turned into a message
(WorkerThread.cpp:237-241), so that `Player::move(POINT)` has no caller in
the model, as in the code.

### MsgQueue

`recvMsgQueue`, `copiedRecvMsgs` are the two queues; `stale` is how many
messages at the head of the first have been copied and wait to be popped;
`lost` collects those popped without having been copied. `PushMsg` may
happen at any time, as it takes `g_msg_lock` and `CopyRecvMsg` takes
`m_recvMsgQueueLock`. The two operations race on one `std::queue`, which is
undefined behaviour; the model takes each as one step and so keeps to the outcomes in
which the container survives.

### PacketStream

A byte is its position in the client's stream. `Receive(n)` is a completion with
n bytes, `TakePacket` and `KeepRest` are the branches of the loop, `Rearm` stores
the two locals in `CLIENT` and posts the next receive. The module is about one
session whose slot does not change hands, with well-formed packets
(1 to 255 bytes, the first giving the length). `KeepRest` leaves `buf` where it
is, as the code does.

### Sessions

`users` is `g_users`; since `Accept` makes a new `CLIENT` for every connection and
nothing deletes one, a connection stands for its `CLIENT` as well. `isConnect`
and `zeroed` (the `ZeroMemory` of `DisconnectClient`: `m_s` and `cur` are null) are
fields of the `CLIENT`, `slot` is the completion key its socket got when it was put in the
port, and never changes. `recv` says on which socket each `m_recv_over` waits: after a slot
has changed hands that need not be its own. `sends` has the connections
with a send in flight. `acceptor` is the connection between the two halves of the
loop of `ServerMain::Run` (`Accept`: up to the store into `g_users`; `FirstReceive`: after it), as
`isConnect` is set and the slot visible before the socket is in the port.

A worker's steps are cut where it reads a slot again that another thread can
have changed: `TakeReceive`/`TakeSend` (the completion, and the test of `m_s`),
`GetSocket`, `RecvPacket` or, if the slot has a new owner by now, `RecvGarbage`,
then the steps of the request, then `Rearm`. `DisconnectClient` is two steps
under `g_user_lock` (`ClearConnect`, `ZeroClient`): the accept thread does not take the
lock, so that it may fill the slot between them, and the `ZeroMemory` then hits the
new client.

Abstracted or left out:

* A receive brings one packet; putting packets together is `PacketStream`'s.
  `CS_MOVE` stands for all packets that change nothing about sessions.
* A `CLIENT` whose buffer another one's completion went through is
  `garbled`: what it will read is any packet, part of one, or zeros, of which the loop
  makes packets of length 0 for ever (`"hung"`).
* An access through a null pointer, and a client accepted without a slot
  (`NoMoreSlot`; -1 as an index in a release build), end the process.
* What `World::Update` sends is in (`UpdateSends`); that it also reads `cur` of
  clients that are gone is in `EventLoop` (`ProcessEnds`).
* `WSARecv` may fail on a connection that was reset; the worker then stays in
  `while (1)` (WorkerThread.cpp:89), which is `"hung"`, too.
* The player, the view lists and the database behind a login.

### FinalViews

Each handler is a program: a sequence of instructions `<<operation, object, object>>`
with one access to shared state each, built where the code reads what the rest
depends on (`LoginProgram`, `MoveProgram`, `MeetProgram`, `PartProgram`, `NpcProgram`, `NpcLooks`, `NpcRest`).
A task takes the first instruction off and carries it out (`Place`, `Look`, `Insert`, `Erase`,
`List`, `Send`, ...). Tasks are the login of each client (on any worker), the one world update with the
moves, and the turn of each NPC: that there is one update and one turn per NPC
at a time is `EventLoop`'s `OneTick` and `OneChainPerNpc`.

A client may send what it likes in any order, as the server does not ask: `Login` again,
which places the player anew, `DummyLogin` (`CS_DUMMY_LOGIN`), which places it and greets nobody, a `Move` before or beside its login,
a `Logout` and then a login. `requests` counts what was taken up, which bounds the instance. `orderly` is history: who has logged in
once, and before it moved. A move whose client logs out meanwhile goes on as before in the model; in the code it would go on
with the number -1. A client that is disconnected is left to `Sessions`, and what its requests do then to
`EventLoop`.

No position changes but by login and logout: `Player::move` steps in local
variables only, and an NPC chases nobody, as no `CLIENT` of an avatar ever has
`GetEmpty() == false`, which the chase asks for (ServerMain.cpp:67,
WorkerThread.cpp:166, World.cpp:210). A message sent to an NPC goes nowhere, as
`TCPSocket::WSASend` returns for its null socket (TCPSocket.cpp:54).

### MapMove

`data` is the memory of the map: column x begins at `x * WORLD_HEIGHT`, so that an access to
row -1 or row `WORLD_HEIGHT` is one to the column beside. `m_pos` is read in two steps
(`ReadX`, `ReadY`) before the lock is taken, and a login may `Place` the avatar between
them. A read outside the array gives any value; a write there changes nothing
of the model. The step itself is never stored back (Player.cpp:53-84): a move leaves a mark.

### AStar

One step per turn of the outer loop (`Search`: `Skip` or `Visit`), then `Path`. The
queue is a set of nodes; which of several of equal weight comes first is left open.
Weights are compared exactly (squares of integers instead of `sqrt`): the code uses `float`, which gives the same result
for distances as short as an NPC's reach and may not for longer ones. `data` is the set of blocked cells, over which, as the
test at World.cpp:357 is the wrong way round, the search goes.

### DataBase

`hstmt` and `retcode` are the members of the one `DataBase` object; `stmt` and `bound` are
the driver's side of a handle. Every ODBC call is a step: `Alloc`, `ExecDirect`, `Test`,
`Bind`, `Fetch`, `Fetched`, `Free`, `Return`. Another worker may allocate or free the handle, or
overwrite `retcode`, between any two. What the driver does with a handle that is in
use, freed or has a cursor open is external, and stated in the module's head.
`Swapped` is the order of the arguments in CS_LOGOUT: hit points as level, level as hit points.

`locals` are the variables of `CS_LOGIN`, or the arguments of `UpdateDB`. The columns are bound one by one to those of the worker that
binds (`bound`), and each `SQLBindCol` sets `retcode`; a fetch writes to whomever the handle's columns are bound to (`Filled`).
`UpdateDB` takes shorts, so that an int is cut (`Short`). `FindID` binds the int `level` as `SQL_C_SHORT`, over a variable that nobody has
initialised: the fetch writes the lower half, and the upper half stays one of `Ints` (`Into`). Of the columns
level and hp are kept, and one for x and y. `alone` is history: that no two calls have overlapped since the one under way began.

### Combat

`Attack`, `Hit`, `RewardRead`, `Reward`, `CompareRead`, `Compare`, `LevelExp`, `LevelHp`, `LevelUpRead`, `LevelUp`, `Die`,
`AttackEnd` are `Player::attack()` cut at each getter and setter of level and experience: a sum, the comparison and the level up read in one step and
write, or read on, in another. `LoginBegin`, `SetLevel`, `SetHp`, `SetExp`
are the login that loads the same fields meanwhile, from rows that may hold anything: a logout saves the hit points as the level. An attack goes through its copy of the
view list, whatever is in it, avatars too. `calm` and `settled` are history: that no login has set the attacker's level or
experience since the comparison began, and whose last reward was so and has not been logged in since.

### AiServer and MtServer

Programs of instructions, as in `FinalViews`, run by workers (`task[w].todo`). `slock`
(`owner` in `MtServer`) is the worker that holds a session's mutex across its sends; the `m_vl` locks are
held for one access each, which is one step. A handler that waits for a mutex is one whose next
instruction is not enabled, and `OnlyLoginsDeadlock` says which workers can wait for each other.
`shown` follows a client by the messages sent to it. `lives` counts who has had a slot, so that what
is left of one client (lists, completions of its closed socket: `aborted`) is told apart from
the next. `Sends` may fail on a socket (`Failures`), and then calls `disconnect` in the midst of
the handler, locks held. `alone` and `healed` are history: that no other handler ran beside the last, and who
has moved alone since handlers overlapped.

`AiServer` has one chain of timer entries per NPC (`due`, `active`); its NPCs never rest.
`MtServer` numbers its slots as its `main` does: the last one's `m_id` stays 0.

### InPlaceStream

As `PacketStream`, with a buffer in which the bytes received are put behind those
kept. `Complete` is the loop's test; `KeepRest` is the `memcpy` to the front.

### StressClient

`Swap`, `Close`, `CountDown` are `DisconnectClient` (the atomic exchange, the `closesocket`, the
decrement), in the test thread and in workers; `Up`, `CountUp` are the answer to a login; `Shed`, `Connect`,
`Listen`, `ChooseMove`, `SendMove` are the test thread's. `global_delay` and the clock may have any
value, so that an adjustment may come at any time and in either direction.

### PetersonLock

Two threads with a store buffer each (`buf`): a store goes into the buffer and reaches memory
by `Drain`, in order; a load takes its own buffer's value, or memory's. `Fence` waits until the
buffer is empty. This is the memory of the x86 machines the example is built for; the compiler
is taken to keep the order of volatile accesses, as it does there.

## 3. The runs

| run | question | instance | result |
|---|---|---|---|
| `event_loop` | do the tick, the chain of moves and the reward survive every interleaving; is each step one of `NpcLife`; does the world go on, does an NPC go on, does a dead one stop? | 2 workers, 1 NPC, up to 2 messages per update | holds, 357,756 states |
| `msg_queue` | is anything carried out twice, out of order, or gone without trace; are the queues a lossy FIFO; is a request carried out if it is not cleared? | 2 players, 3 requests each | holds, 16,522 states |
| `msg_queue_loss` | is every request that is handed over carried out? | 1 player, 2 requests | **violated**, see below |
| `streams` | are packets put together right wherever TCP cuts them, in both receive loops? | 4 packets of 2 to 5 bytes each, buffers of 5 and 8 | holds, 79,220 states |
| `sessions` | when a slot is used again and again, has it one owner, is a connected one heard, is the slot of one who leaves freed? | 2 workers, 3 connections, 1 slot | holds, 269,198 states |
| `sessions_login` | is a connected client in its slot, with all requests, two slots and the slot `EVENT_KEY`? | 2 workers, 2 connections, 2 slots | holds, 1,807,532 states |
| `sessions_null_socket` | does a completion never come for a slot without a socket? | 2 workers, 2 connections, 1 slot | **violated**, see below |
| `sessions_login_answer` | is every login answered? | 2 workers, 1 connection, 2 slots | **violated**, see below |
| `final_server` | the five parts of `FinalServer`, the view lists in three worlds: is no orderly player missed; where do marks lie and walls fall; is the way found the shortest, and does the search end; does a database call that is alone reach its row; does a reward leave less experience than the level asks for? | see the module | holds, 2,223,338 states |
| `lecture_servers` | three AI servers and the multithreaded one: do lists, clients and sight agree when handlers do not overlap; does a move repair what overlap left; has an NPC one turn; who can wait for whom; is everybody shown? | see the module | holds, 1,973,317 states |
| `stress_client` | is a client counted off once, whoever disconnects it; is one that is gone counted off? | 2 workers, the test thread, 2 clients | holds, 854,131 states |
| `peterson_lock` | does the lock exclude, is the sum exact, do both threads end? | 3 rounds per thread | holds, 3,441 states |

The states of `sessions_login`, `final_server` and `lecture_servers` are after
symmetry reduction. The other runs check liveness, or need none.

### Bounds

* `Workers`: two are enough for each pair of roles to overlap. The theorems about
  `EventLoop` and `Sessions` are for any number, with three roles at once (a worker in `World::Update`,
  one that moves an NPC, one that wakes it).
* `Npcs`: the flags of different NPCs are independent but for the loops over all of
  them; the theorems are for any number.
* `MaxBatch`: messages per update; two let a move and an attack follow each
  other in one update.
* `MaxPending`: `EV_FLUSH_MSG` and `EV_PLAYER_MOVE_NOTIFY` can pile up without
  limit if their handlers are slow. Their handlers leave the state as they
  found it, so the bags tell only so many copies apart. All other counts are
  unbounded in the model, and shown to be bounded.
* `MaxMsgs`: requests per player; with three there can be one lost, one copied and
  one waiting.
* `N`, `Start`: packets up to the buffer's length, so that a receive can end
  before, in and after the first byte of a packet and can hold several.
* `NPC_ID_START`, `Conns`: three connections in one slot give one that is gone,
  one that has the slot and one that is accepted meanwhile; two slots let a login
  meet another client, and one of them has the number `EVENT_KEY`, as slot 100 has
  in the server.
* `MaxPackets`: packets a client sends; one per connection is enough for a request
  and, when a new owner's buffer is read for an old one's completion, for any other.
* `Updated`: the slots that `World::Update` sends to, at any time.
* `FinalViews`: three clients who see each other let a login meet two others, each busy with
  a login or a move, with three requests. Two clients in a world of two cells, with six
  requests, have four beside their logins: they move, leave, log in again or by `CS_DUMMY_LOGIN`, and are placed anew in or out of each other's sight. A client and an NPC in a world of three cells, with a radius of two, let the NPC's
  turns meet a login and three requests more. `Lives` is 1: what a client leaves in the lists of others when it logs out, and
  its slot's next client finds there, breaks `NobodyMissed`, see "Known to be wrong".
* `MapMove`: a map of 2 x 3 has a column beside for every row that ends, cells whose
  neighbour is no cell, and walls beside and under the places; one placing during the run is one
  login in the midst of a move.
* `AStar`: all maps of 3 x 2 with every pair of ends; ways around a wall and cells that
  are put into the queue twice exist there.
* `DataBase`: of three calls two may overlap in every order, on two workers, and the third be alone after what they have done; or the first
  and third overlap the second. `Ints` has one value, 7 in either half, so that neither the missing upper half nor the cut to a short
  goes unnoticed; two rows that differ in both columns.
* `Combat`: rows one kill short of one and of two level ups, one whose experience is too much for the level of the others,
  and hit points so low that a blow leaves the NPC below zero; three attacks.
* `AiServer`: three servers, each with what one question needs. One worker, two players and an NPC
  (`OneWorker`), slots used twice: handlers do not overlap, and lists, clients and sight have to agree, but for
  what a slot's last client has left. Two workers and two slots used twice (`TwoPlayers`): a slot changes hands under somebody's eyes. Two workers, a player, an NPC and a send that fails
  (`AnNpc`): turns, wake-ups and the disconnect inside a handler. Worlds of one row in which two
  can be in sight of a third but not of each other.
* `MtServer`: three slots, of which clients take two (`MaxClients`; the last slot's client waits for itself), each up
  to three times (`Lives`), so that an add can be overtaken by the removal of its slot's last client.
* `StressClient`: `MAX_CLIENTS`, `MAX_TEST` 2, so that one client is shed and another not; `MaxSends` and
  `MaxFailures` bound what is in flight or fails per client.
* `PetersonLock`: three rounds, after which a buffer has been through all its contents (`BuffersStaySmall`).

`event_loop` (where a process that has ended stays so, `Ended`), `msg_queue` and `msg_queue_loss` check for deadlock. The others do not: in
`streams`, `sessions*`, `stress_client` and `final_server` the clients or calls of the bound may be done, or the
process may end; the threads of `peterson_lock` return; and in `lecture_servers` logins do deadlock, of
which `OnlyLoginsDeadlock` says which.

### Fairness

`EventLoop!Fairness`: the timer thread goes on (weak fairness of
`TimerPost`), each worker inside a handler goes on (weak fairness of
`Handle(w)`: no handler waits for anything but `lua_lock`, which is held for one
call), and every `EV_UPDATE` and `EV_RANDOM_MOVE` is taken in the end from the timer
queue and from the port (strong fairness). The code justifies the last: the
priority queue is ordered by due time, every event is due at most a second after it
is armed, so an event is passed over only by those due earlier; and the port is
first in, first out. Nothing is assumed of logins or of the other events.

`MsgQueue!FairSpec`: `World::Update` goes on and comes again, which is
`WorldKeepsUpdating` of `event_loop`. Pushing is not assumed fair.

`Sessions!Fairness`: the accept thread goes on, each worker goes on in its handler (weak
fairness of `FirstReceive` and `Handle(w)`: `g_user_lock` is held for a few lines), and
a completed receive is taken from the port in the end (strong fairness for each `CLIENT`: the
port is first in, first out). Nothing is assumed of new connections, of what clients
send, or of sends.

`StressClient!Fairness`: each worker and the test thread finish what they have begun (weak
fairness of `Work(w)` and `Disconnect(test)`), and a receive that has ended is taken from the port
(strong fairness of `RecvEnd`, as above). Nothing is assumed of the server, of moves, or of adjustments.

`PetersonLock!LockFairness`: both threads run, and a store does not stay in a buffer for
ever (weak fairness of each thread's next step, and of `Drain`).

`streams`, `sessions_login`, `final_server` and `lecture_servers` check safety only and assume no fairness.

### Findings

`msg_queue_loss`: `CopyRecvMsg` copies the queue, lets the lock go, takes it
again and pops the queue until it is empty (World.cpp:118-125). A request that
`PushMsg` adds in between is popped without having been copied: the player's
step or blow is dropped in silence. The lock held by `PushMsg` is not the one
held by `CopyRecvMsg`, so that the gap is not even needed. `msg_queue`
shows that this is the only place where a request can be lost.

`sessions_null_socket`: `DisconnectClient` clears `m_s` (WorkerThread.cpp:251) while
sends to the client are in flight. The completion of one comes with the same
key, finds no socket and meets `assert(!"use nullptr socket")`
(WorkerThread.cpp:30). Without assertions the worker goes on, and the
`EX_OVER` of the send is never deleted.

`sessions_login_answer`: `EnterPlayer` reads `cur` of every slot (World.cpp:184), and `cur`
of a slot that no client has had is null: the first login ends the process before
its answer, unless `m_curPlayerNum`, which is never initialised, is `MAX_USER` or
more by chance. `Init` leaves that open (`worldFull`), so that the other runs cover the
builds in which logins go on.

### Known to be wrong, and modelled as it is

The models contain what follows because the code does it; the properties say what
still holds in spite of it, and no run is spent on showing it again.

* A client that leaves stays in the view lists of others, who take the next client of
  its slot for one they show already and send it no more than moves (AI server, iocp_main.cpp:377;
  `Lives > 1` in `FinalViews` gives the same of the final server); and its own list is the next client's from the
  start. `ListsMatchSight` exempts what involves such a slot (`GivenUp`) and says what still holds of it.
* In the AI server a login puts its player in the game (336) before it has told its client of anybody, so
  that moves of objects the client does not know overtake it: `ListsMatchSight` holds only for handlers that
  do not overlap, and `MovesRepair` says what becomes of the rest.
* `Player::move` puts the mover into the list of the other client, and sends the packet about that to the mover
  (Player.cpp:118): the two lists agree, the other client shows nobody. `NobodyMissed` is about the lists.
* `Player::move` never stores its step, so that avatars never move, and marks on the map stay (Player.cpp:83).
* The search walks over blocked cells, and only over these (World.cpp:357).
* Two database calls at the same time can load another name's row or no row, or save nothing (DataBase.cpp:85, 126), as the
  shared handle is allocated over. `CallsReachTheirRow` says that they do no harm to the calls after them. A logout
  saves level and hit points changed over (WorkerThread.cpp:231).
* The level a login loads has an upper half that is not the row's: the column is fetched as a short into an int that was
  never initialised (DataBase.cpp:139, WorkerThread.cpp:153). `CallsReachTheirRow` is about the lower half.
* A client that logs in again is placed anew without being taken from any list, and greets only those who are
  near now and were not in its list; one that sends `CS_DUMMY_LOGIN` greets nobody (WorkerThread.cpp:164, 198-207); and a move that was
  queued before the login may look around before the player is placed. Two such players can be near each other and in neither list. `NobodyMissed` is about the
  orderly, and says that the others do not come between two of them.
* A login that sets level or experience while `Player::attack` is between its comparison and the end of the level up may leave the
  avatar with more experience than its level asks for (Player.cpp:269-273), as a row may that says so; with its next reward it
  goes up. `ExpBelowNext` is about rewards that are not disturbed so.
* A worker that reads the player of a client that has gone, or moves it in a direction that is none, ends the process
  (`ProcessEnds` in `EventLoop`).
* `Player::attack()` strikes every object of the view list in reach, avatars too, and takes the attacker's hit points
  for the victim's (Player.cpp:263).
* In the multithreaded server a completion that fails disconnects twice, and the second time may throw the slot's next
  client out (main.cpp:230); and the client in the last slot waits for itself at its login (main.cpp:299).
* `client_to_close` of the stress client only grows and is not bounded (NetworkModule.cpp:277); the model
  stops it at the last client.

## 4. The proofs

### EventLoop (any `Workers`, any `Npcs`, any bounds)

Assumed: `EventLoopAssumption` (the ids and keys are different, the bounds are
naturals). Note that `EVENT_KEY \notin Npcs` is what the constants give, 100 <
`NPC_ID_START`.

Theorems: `TypeCorrect`, `UpdateIsExclusive`, `ClockIsKept`, `NoDoubleChain`,
`NoLostChain`, `NoDoubleReward`, `LuaIsExclusive`, and `LifeIsKept`, the
refinement of `NpcLife` (its safety part).

The inductive invariant is `IInv`, of these parts:

* `TypeInv`: the types, and `PcOK`, what a worker's position says about the
  event it handles;
* `TickInv`: the one `EV_UPDATE` is in exactly one of timer queue, timer thread,
  port and one worker. From it: the clock is kept, and updates are exclusive;
* `KillInv`: what the worker in `Player::attack` knows. As updates are exclusive there is
  one such worker at most, so between its test and its write nobody else clears
  the flags, and `rewards` is 0 for a live NPC;
* `ChainsInv`: for each NPC, the tokens that stand for its chain (its events in the two
  queues and the timer thread, the worker that moves it, the worker about to call
  `AddTimer`) number at most one; if there is a token, or a worker between the
  compare-exchange and the test, and the NPC lives, then it is active.

Why the parts are needed: `OneChainPerNpc` is not inductive, as a second waker
must be kept out while the first has the flag but no event yet, and as the kill
resets `isActive` while the chain still runs; what keeps a second chain from being
started then is that `isAlive` is cleared first, and who clears it is known only by
`TickInv`.

### Streams (any packets, any cuts, any buffer up to 255)

Assumed: `PacketStreamAssumption` (well-formed packets that follow each
other). Theorems: `TypeCorrect`, `PacketsReassembled`, `NoOverrun`, `NoPacketWaits`.
The inductive invariant says what the kept bytes are: the first `pr_size` bytes of
the packet to come, and `psize` that packet's length, or 0 before its first byte
is seen. The lemma `SizeOfNext` gives the length that the loop reads.

`LecturePacketsReassembled` is the same of `InPlaceStream`, under `InPlaceAssumption`. There the bytes kept
are moved to the front of the buffer the next receive writes behind, so that `LIInv` says where in the buffer each byte of the
stream lies, and that the loop's pointer stands at a packet's first byte. What `memcpy` is given, overlapping or not,
is `CopiesApart`. The assumption has no packet longer than the one before it, which is what the lecture clients send (a login, then
moves): of other streams the `memcpy` may overlap itself.

### MsgQueue (any players, any number of requests)

Assumed: `MsgQueueAssumption`. Theorems: `OrderKept` (`HandledInOrder`), `NothingElseVanishes` (`EveryMsgAccounted`), and
`ImplementsLossyFifo`, the refinement of `LossyFifo`.

The invariant is about one sequence, `Line`: the requests handled, then those copied, then those in the
queue behind the `stale` ones. `CopyRecvMsg` and `Update` move requests along it without changing it,
a push adds one at its end, the clearing loop takes out one that is not copied. `LineInv` says that `Line` is in order, has
everything that was pushed and not lost, and has nothing twice; `QueueInv` that an update works
its copy off before it takes the next. What is handled is a prefix of `Line`, and `LossyFifo`'s channel is the rest of it.

### StressClient (any clients, any workers, any limits and failures)

Assumed: `StressClientAssumption`. Theorem: `ClosedAndCountedOnce` (`DisconnectedOnce`).

That `active_clients` is exact when no thread is about to count is not inductive. `CountInv` says what it is in between: the
connected clients, less those a worker has yet to count in, and with those a thread has yet to count
off. For this no client may be set connected twice: a client has one receive outstanding or handled (`OneRecv`), its login is
answered once (`LoginInv`), a slot that `Connect` has still to give away is untouched (`FreeInv`), and the exchange lets one
thread at most close (`CloseInv`).

### FinalServer (view lists, path search, database, map, combat)

Assumed: `FinalServerAssumption`, the assumptions of the parts. Theorems:

* `CallsReachInServer` (`CallsReachTheirRow`): any names, any number of callers, any contents of the table, whatever calls overlap at other times. Of a call that is
  alone `AloneInv` follows the handle, the cursor, the columns' bindings and the return code from step to step. What makes it hold after calls that did overlap is that
  a call begins with a handle nobody has had: `HandleType` counts those (one for each call that has left `Alloc`), so that a
  new one is fresh. The mutant uses the old handle again, with the cursor that the last login left open.
* `MarksStayNearInServer` (`MarksAndWalls`): any map, any number of avatars. `MoveInv` adds where the two reads of `m_pos` and
  the cell ahead can be: a step or less from a place the avatar has had, in either of its coordinates.
* `ExpStaysBelowInServer` (`ExpBelowNext`): any rows, any number of avatars, attacks and logins. `FightInv` says what the attack holds of what it
  has read as long as no login has come between (`calm`): the first of the two it compares is still so, and in a level up the
  experience stays 0, which is less than any level asks for, below level 1 too. Its hypothesis `PowersOfTwo` is the definition of powers of two (2^0 = 1,
  2^(n+1) = 2 * 2^n), which the provers do not have.
* `SearchEnds` (`SearchShrinks`): maps of any size, with any set of blocked cells. `SearchInv` says that the queue is finite and
  that its nodes are cells of the map. A step that visits a cell puts four nodes at most into the queue and takes one cell
  from those not visited, of which there are only so many;
* `WayIsShortestInServer` (`PathIsShortest`): maps of any size, any set of blocked cells, any two ends, and whatever the queue
  does among equal weights; but weights are compared exactly, as in the model, which floats do only for distances as short as an NPC's reach.
  `WayInv` says that each cell visited is as far from the start as `moved` has it (`Exact`), that a node in the queue is one step beyond
  the cell it came from (`Queued`), and that the neighbours of what was visited were visited or are in the queue (`Frontier`).
  From these comes `QueueIsAhead`: to every cell not visited that has a way of j steps, there is a node in the queue from
  which, with the steps it has, even a straight line would not be longer than j. Were the top of the queue farther
  than need be, that node would weigh less (`NearerComesFirst`, which is the triangle inequality, in integers: `Triangle`); and if the queue
  is empty there is no way. The mutant, which begins with the greatest weight, breaks just this. `Back` counts the steps of the way back.
  The reference is a recursive function (`Within`); `LeastNumber` gives what induction would (`Rings`, `WithinSteps`);
* `PartsAreTyped` (`TypeOK`): every part, for all values of its constants. It is not inductive as it stands: `TableType` adds that
  an `UpdateDB` has shorts to save, `HandleType` counts the handles, and `SearchTypes` adds that
  the cell before a visited one was visited, so that the way back never leaves them.
* `NobodyIsMissed` (`NobodyMissed`): worlds of any number of clients and NPCs, any width and any radius, any number of requests in any order; one connection per
  slot (`Lives` is 1). It speaks of orderly players ("Known to be wrong" says why, of both).

`NobodyMissed` speaks of the end, when no handler runs. The invariant `ViewInv` says of every moment what the handlers under way
still owe:

* `AllOwed`: of two in the game, orderly, and near each other, each is in the other's list, or some program still has the instruction
  that puts it there (`Owing`): a greeting of either by the other, or what came of one. A login begins by setting its position and
  ends by greeting everybody (`PlaceStep`); the mutant, which greets first, breaks just this;
* `ListMet`, and `Met` in `Fit`: only objects that have met (one has found the other near, or they can never be near each other
  again) come into each other's list or program;
* `NotBoth` in `Fit`: what is taken out of a list is gone from the game or not near, for ever. Here enters
  that the position of an orderly player does not change between login and logout, so that whom an object has met, but does not see now, has left
  or was never orderly (`Left`, `NotSeenIsNotBoth`): nothing is said any more of a player that is placed anew;
* `Walk` and `Ordered`: a move or a turn has one walk around at most before it. Whom it knew at first it still has to look at, or has
  seen, or does not go together with (`Looking`), so that the loop over the old list parts from nobody who is near. The second walk of an NPC's
  turn begins anew (`NpcLooks`), with the same argument about `before`.

What has once been true of two objects stays so (`Steady`, for every step: `Kept`), so a step has to be looked at for the program that
takes it alone (`StepOf`, `ProgSteady`).

### LectureServers (any players, NPCs, workers, sizes of the world)

Assumed: `LectureServersAssumption`, the assumptions of both servers, and that clients do not take the last slot of the
multithreaded one. Theorems, in `LectureServersProofs`: `EveryNpcHasOneTurn` (`OneTurnPerNpc`), `OnlyLoginsEverDeadlock`
(`OnlyLoginsDeadlock`), `EveryoneIsShown` (`EveryoneShown`) and `LectureServersTypeOK` (`TypeOK`); in `LectureListsProofs`:
`LonelyMovesRepair` (`MovesRepair`) and `HandlersKeepLists` (`ListsMatchSight`).

Handlers are programs of instructions, of a length that depends on how many objects there are. The invariants say of every
worker what the rest of its program can be, and how that goes with the state:

* `MtInv`: the locks that a worker of the multithreaded server has at each place of its handler. A login holds its own lock and asks
  for one more at a time; all others hold one at most, and do not wait while they hold it;
* `AiInv`: what the instructions of each handler of the AI server are about: only players and NPCs that have been in the game (`Seen`),
  so that no NPC instruction meets a player's field, and no list has a slot that nobody has had;
* `OneTurn`: an NPC's turns, due or being carried out, number one if `is_active` is set and none if it is not;
* `Shapes`: what `MtInv` says, for the AI server: a login holds its own `m_slock` and at most that of the one it
  greets, others at most one. A send that fails disconnects in the midst of this, and asks for a lock the worker may
  have: who waits for itself is in such a disconnect;
* `FreshInv`: until a send has failed or a slot is taken again, no program has such a disconnect, so that a circle
  has two logins.
* `ShownInv`, for `EveryoneShown`, which speaks of the end only: at every moment what a client's screen has too much or lacks is
  told by an instruction of some program in flight (`Shows`; `Leaving`, `Meeting`). A `free` is followed by a `tell` to
  every other slot, and an `enter` by a `look` at it (`Follows`; the mutant, which looks first, breaks this). A login greets only
  those in the game whose lock it holds (`Knows`), so it shows nobody who has left; a client that is not in the game shows
  nobody (`Screens`), so it need not be told. That a removal never takes a newcomer off a screen is so only for
  a slot's first client: it has one handler at a time, and when its quit is past the `free` nobody of that slot is
  in the game (`FirstLife`). With the next client in the slot, the old one's removal may come after the new one's add: hence
  `lives[q] = 1` in the property.

* `Enters`, `Counts` and `Placed`, for `LectureServersTypeOK`. That a slot's closed receives never outnumber its accepts needs
  that nobody enters the game in a slot that was given up: from its `place` on a login holds its slot's lock, a disconnect has to
  wait for it, and only the login's own failed send frees the slot in between (`EntryAt`, `EntryNow`).
* `RepairInv`, for `LonelyMovesRepair`. Lists that overlapping handlers left can be wrong in any way, so the invariant speaks of two sets
  of pairs: of those in `Must` the first lists the second if they are near each other, of those in `Only` only then. `Fair` says
  how a handler that nothing runs beside stands to them at every moment: it has not begun to change anything (`Entering`, `Stepping`,
  `Waiting`); it has stepped and looks around, and the pairs of its own object are open (`Looking`, `Roaming`); or it has sorted,
  and each pair that is wrong is in the rest of its program (`Settled`; the mutant, which tells those of the old list no more than
  the move, breaks this). `FairBegins`, `FairWorks`
  and `FairAtEnd` take any `Must` and `Only` through every handler. `RepairInv` has for them the pairs of the players that have
  moved alone (`healed`), and of the one that moves now (`Moved`) from its step on: by what the step leaves behind its pairs are still all
  open, so they may be added; a disconnect takes away those of the slot, and of whoever had it in the list. A handler that starts beside another
  (`OneOrAnother`) and a send that fails end it, with `healed` empty.
* `ListInv`, for `HandlersKeepLists`, which is about one worker whose sends do not fail on an open socket (`Undisturbed`). For the lists it has
  `Fair` with all pairs in `Must` and those of two first clients (`Kept`) in `Only`. For the screens it says of each pair what the
  instructions left about it (`Due`) owe to it (`OnScreen`): whom the list names and the client does not show, an `add`
  will show, or an `erase` or `part` will strike off; whom the client shows without sight of it, a `remove`, `part` or `tell` will take off;
  and a `move` that is still to be sent is about one that the client shows. Who has stepped and not sorted (`Strays`) may be on
  screens that it has left, and has all of their players in the list that it is going to compare with (`Remembered`; the mutant, which looks for
  the player in the player's own list, breaks this). Each instruction turns one debt into another (`Carried`), or its handler has not
  begun to (`MuteInv`). That a slot which was given up stays so (`KeptSteps`) is why pairs only ever leave `Kept`.

`OnlyLoginsDeadlock` says more than that the locks are taken in order, as they are not: of any set of workers that wait for each other it
says which of them are in it. A worker that waits for a lock has the holder in such a set, and the cases of `Shape`
leave only logins.

The programs go through sets of objects in any order. That such an order exists and has each object once
needs induction on the size of the set, which is out of reach as a rule; the lemma `Least` (a set of
naturals that is not empty has a least element, from well-foundedness of <; `LeastNumber` in `FinalServerProofs`) stands in for it: what fails for some
length fails for a least one, and the step leads to a contradiction.

### Sessions (any `Workers`, `Conns`, `NPC_ID_START`, any requests and endings)

Assumed: `SessionsAssumption` (the constants have their types, and `None` is
none of the ids). Theorems: `TypeCorrect`, `ConnectedReachable`, `SlotsListen`, and `OwnersKept`,
the refinement of `SlotOwners`.

The inductive invariant `IInv` has, beside the types and `ConnectedSlotListens`:

* `SlotInv`: a `CLIENT` is in the slot that its socket has for a key, a connection not yet
  accepted has none, and a connected client is not zeroed. So what `DisconnectClient` and
  `CS_LOGOUT` do to a slot they do to the one owner of it;
* `KeyInv`: all that is in flight or in a worker's hands has a key that is a slot, so
  that `g_users[key]` is defined. `TypeOK` is not inductive without it;
* `OverInv`: an `m_recv_over` is waiting, or with one worker, or with the accept
  thread: posting one receive cannot overwrite another;
* `SocketInv`: a worker that handles a receive of a connected client has that client's
  own socket in `s`. This is where the slot `EVENT_KEY` is different, as `s` is then not
  initialised.

`ConnectedSlotListens` then follows a receive from the port to a worker and back:
`GetSocket` of a connected client finds its own socket, so `Rearm` posts the
receive on it again, and `OverInv` keeps it from being overwritten.

### PetersonLock (any number of rounds)

Assumed: `PetersonAssumption` (`MAX` is a natural number). Theorems: `TypeCorrect`, `LockExcludes`, `NothingLost`, `BuffersStaySmall`.
The inductive invariant `Inv` says which eleven contents a buffer can
have, and which of them at each place in the loop (`Shape`); when the flag in memory
is set (`FlagIs`); and `Exclusion`: never are both threads busy, where a thread whose addition is still in
its buffer is busy although it has left, and whoever asks while the other is busy was the last to set `v`.
The fence is what makes the buffer empty while a thread asks. `NothingLost` is not a consequence of
`MutualExclusion`: the addition may reach memory after the unlock has been executed, and only the order of
the buffer brings it there before the flag.

### Only model-checked

* Everything under fairness (`WorldKeepsUpdating`, `NpcKeepsMoving`, `LifeSpec`, `HandledIfNotLost`, `ClosedSlotIsFreed`,
  `GoneIsCountedOff`, `EveryThreadFinishes`, and that the search ends): liveness is beyond the prover.

What is proved and not run as well (`LuaIsExclusive`, `UpdateIsExclusive`,
`BuffersStaySmall`, the type invariants of the proved modules) follows from the theorems.

## 5. Not modelled

See `PROJECT.json` (`components`) for the whole list.

* The vendored SFML and Lua headers, which are by far most of the lines under `src/` and not this
  project's code; drawing and the game clients, which have one thread and one receive loop.
* The socket wrappers, and the echo, overlapped, database and Lua examples of the lectures:
  straight-line calls without state or concurrency to speak of.
* The single-threaded server (`2_singlethread_server`): the file does not compile as it stands, and
  what it means to be is `MtServer` with one worker.
* `NPC.lua`: its function reads positions and sends a chat, which changes no state of the server. (The variable
  it passes for the receiver is nowhere defined, and `lua_tointeger` makes 0 of it: the chat goes to player 0.)
  The call under `lua_lock` is in `EventLoop`.
* An NPC's chase, with `Player::attack(UINT)`, `die` and `revival`: no avatar fulfils the condition of the chase (see
  FinalViews above), and nothing else calls them. `AStar`, which only the chase calls, is modelled for its own sake.
* `FlushSendMsg` beyond its empty queue: `PushSendMsg` has no caller.
* In the view lists, a disconnect, and what becomes of a move when its player logs out in the midst of it (it goes on with the number -1).
* What undefined behaviour does beyond the outcomes named in each module: two threads in one standard
  container, a write outside an array, an access to `objects[-1]`.

## 6. Plan

1. The composition of `MsgQueue` and `Sessions`: a request in the world's queue whose client is gone
   (World.cpp:137).
2. Disconnects in `FinalViews`, and slots used again.
