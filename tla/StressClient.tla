------------------------------ MODULE StressClient ------------------------------
(***************************************************************************)
(* The stress-test client: one test thread opens connections, or closes    *)
(* them when the server's answers are slow, and sends moves; the workers   *)
(* handle the completions of all connections. Both kinds of threads        *)
(* disconnect clients, a worker counts them in.                            *)
(*                                                                         *)
(*   connected, sock   connected and client_socket of a client; a socket   *)
(*                     is none, open or closed                             *)
(*   recv, sends       its receive is outstanding; how many of its sends   *)
(*   server            what the server did with the connection: the login  *)
(*                     is asked, it is in, it is gone (closed or reset)    *)
(*   active_clients, num_connections, client_to_close, max_limit,          *)
(*   increasing        the variables of these names                        *)
(*   op, cl, again     per thread, what it does next, with which client,   *)
(*                     and whether DisconnectClient comes once more        *)
(*   failures          connects that failed (bounded)                      *)
(*                                                                         *)
(* The delay (global_delay) is any at any time, and so is the moment of    *)
(* the next adjustment. Left out: positions, and the putting together of   *)
(* packets, which is that of the servers.                                  *)
(***************************************************************************)
EXTENDS Integers, FiniteSets

CONSTANTS Workers,
          test,             \* the test thread
          MAX_CLIENTS, MAX_TEST,
          MinActive,        \* below so many none is closed (100)
          Margin,           \* 1 / Margin below max_limit is kept free (20)
          MaxSends,         \* sends of one client in flight
          MaxFailures

Clients == 0..(MAX_CLIENTS - 1)
Threads == Workers \cup {test}

ASSUME StressClientAssumption ==
    /\ IsFiniteSet(Workers) /\ test \notin Workers
    /\ {MAX_CLIENTS, MAX_TEST, MinActive, MaxSends, MaxFailures} \subseteq Nat
    /\ Margin \in Nat \ {0}

VARIABLES connected, sock, recv, sends, server,
          active_clients, num_connections, client_to_close, max_limit, increasing,
          op, cl, again, failures

vars == <<connected, sock, recv, sends, server,
          active_clients, num_connections, client_to_close, max_limit, increasing,
          op, cl, again, failures>>
adjustment == <<num_connections, client_to_close, max_limit, increasing, failures>>

MAXINT == 2147483647

Init ==
    /\ connected = [c \in Clients |-> FALSE]
    /\ sock = [c \in Clients |-> "none"]
    /\ recv = [c \in Clients |-> FALSE]
    /\ sends = [c \in Clients |-> 0]
    /\ server = [c \in Clients |-> "none"]
    /\ active_clients = 0
    /\ num_connections = 0
    /\ client_to_close = 0
    /\ max_limit = MAXINT
    /\ increasing = TRUE
    /\ op = [t \in Threads |-> "none"]
    /\ cl = [t \in Threads |-> 0]
    /\ again = [t \in Threads |-> FALSE]
    /\ failures = 0

Does(t, what, c) ==
    /\ op' = [op EXCEPT ![t] = what]
    /\ cl' = [cl EXCEPT ![t] = c]

(* DisconnectClient has returned: it comes again, or the thread is done. *)
Returned(t) ==
    /\ op' = [op EXCEPT ![t] = IF again[t] THEN "swap" ELSE "none"]
    /\ again' = [again EXCEPT ![t] = FALSE]
    /\ UNCHANGED cl

-----------------------------------------------------------------------------
(* Slip (DisconnectedOnce): what the exchange                              *)
(* returns is not looked at.                                               *)
SlipSwap(t) ==
    /\ op[t] = "swap"
    /\ connected' = [connected EXCEPT ![cl[t]] = FALSE]
    /\ Does(t, "close", cl[t])
    /\ UNCHANGED <<sock, recv, sends, server, active_clients, again, adjustment>>

(* DisconnectClient: the exchange has one winner, who closes the socket    *)
(* and counts the client off.                                              *)
Swap(t) ==
    /\ op[t] = "swap"
    /\ connected' = [connected EXCEPT ![cl[t]] = FALSE]
    /\ IF connected[cl[t]]
       THEN Does(t, "close", cl[t]) /\ UNCHANGED again
       ELSE Returned(t)
    /\ UNCHANGED <<sock, recv, sends, server, active_clients, adjustment>>

Close(t) ==
    /\ op[t] = "close"
    /\ sock' = [sock EXCEPT ![cl[t]] = "closed"]
    /\ Does(t, "down", cl[t])
    /\ UNCHANGED <<connected, recv, sends, server, active_clients, again, adjustment>>

CountDown(t) ==
    /\ op[t] = "down"
    /\ active_clients' = active_clients - 1
    /\ Returned(t)
    /\ UNCHANGED <<connected, sock, recv, sends, server, adjustment>>

-----------------------------------------------------------------------------
(* Slip (GoneIsCountedOff): a receive that ends with no bytes is not taken *)
(* for the end of the connection.                                          *)
SlipRecvEnd(w, c) ==
    /\ op[w] = "none" /\ recv[c]
    /\ server[c] = "gone" \/ sock[c] = "closed"
    /\ recv' = [recv EXCEPT ![c] = FALSE]
    /\ UNCHANGED <<connected, sock, sends, server, active_clients, op, cl, again, adjustment>>

(* The receive of a connection that has ended, here or at the server: no   *)
(* bytes, or an error, after which DisconnectClient is called twice.       *)
RecvEnd(w, c) ==
    /\ op[w] = "none" /\ recv[c]
    /\ server[c] = "gone" \/ sock[c] = "closed"
    /\ recv' = [recv EXCEPT ![c] = FALSE]
    /\ Does(w, "swap", c)
    /\ \E error \in BOOLEAN : again' = [again EXCEPT ![w] = error]
    /\ UNCHANGED <<connected, sock, sends, server, active_clients, adjustment>>

(* The receive brings S2C_LOGIN_OK, once for a login; the worker sets      *)
(* connected, counts the client in and posts the next receive.             *)
RecvLoginOk(w, c) ==
    /\ op[w] = "none" /\ recv[c] /\ server[c] = "asked"
    /\ recv' = [recv EXCEPT ![c] = FALSE]
    /\ server' = [server EXCEPT ![c] = "in"]
    /\ Does(w, "up", c)
    /\ UNCHANGED <<connected, sock, sends, active_clients, again, adjustment>>

(* ... or other packets, which change nothing here. *)
RecvOther(w, c) ==
    /\ op[w] = "none" /\ recv[c] /\ server[c] = "in"
    /\ recv' = [recv EXCEPT ![c] = FALSE]
    /\ Does(w, "post", c)
    /\ UNCHANGED <<connected, sock, sends, server, active_clients, again, adjustment>>

Up(w) ==
    /\ op[w] = "up"
    /\ connected' = [connected EXCEPT ![cl[w]] = TRUE]
    /\ Does(w, "count", cl[w])
    /\ UNCHANGED <<sock, recv, sends, server, active_clients, again, adjustment>>

CountUp(w) ==
    /\ op[w] = "count"
    /\ active_clients' = active_clients + 1
    /\ Does(w, "post", cl[w])
    /\ UNCHANGED <<connected, sock, recv, sends, server, again, adjustment>>

(* WSARecv fails on a closed socket, and may on a connection that is gone. *)
Post(w) ==
    LET c == cl[w]
    IN  /\ op[w] = "post"
        /\ \/ /\ sock[c] = "open"
              /\ recv' = [recv EXCEPT ![c] = TRUE]
              /\ Does(w, "none", c)
           \/ /\ sock[c] = "closed" \/ server[c] = "gone"
              /\ Does(w, "swap", c)
              /\ UNCHANGED recv
        /\ UNCHANGED <<connected, sock, sends, server, active_clients, again, adjustment>>

(* A send completes: in full; short; or with an error, as RecvEnd. *)
SendEnd(w, c) ==
    /\ op[w] = "none" /\ sends[c] > 0
    /\ sends' = [sends EXCEPT ![c] = @ - 1]
    /\ \/ UNCHANGED <<op, cl, again>>
       \/ Does(w, "swap", c) /\ \E error \in BOOLEAN : again' = [again EXCEPT ![w] = error]
    /\ UNCHANGED <<connected, sock, recv, server, active_clients, adjustment>>

-----------------------------------------------------------------------------
(* Adjust_Number_Of_Client, at its first and its second limit ... *)
MayAdjust ==
    /\ op[test] = "none"
    /\ active_clients < MAX_TEST /\ num_connections < MAX_CLIENTS

Shed ==
    /\ MayAdjust
    /\ max_limit' = IF increasing THEN active_clients ELSE max_limit
    /\ increasing' = FALSE
    /\ IF active_clients >= MinActive /\ client_to_close \in Clients
       THEN /\ Does(test, "swap", client_to_close)
            /\ client_to_close' = client_to_close + 1
       ELSE UNCHANGED <<op, cl, client_to_close>>
    /\ UNCHANGED <<connected, sock, recv, sends, server, active_clients,
                   num_connections, again, failures>>

(* ... or below them: the next slot gets a socket, which connects or not,  *)
(* and C2S_LOGIN is sent on it ...                                         *)
Room == max_limit - (IF max_limit < 0 THEN -((-max_limit) \div Margin)
                                      ELSE max_limit \div Margin)

Connect ==
    LET c == num_connections
    IN  /\ MayAdjust /\ Room >= active_clients
        /\ increasing' = TRUE
        /\ sock' = [sock EXCEPT ![c] = "open"]
        /\ \/ /\ sends[c] < MaxSends
              /\ sends' = [sends EXCEPT ![c] = @ + 1]
              /\ server' = [server EXCEPT ![c] = "asked"]
              /\ UNCHANGED failures
           \/ /\ failures < MaxFailures
              /\ failures' = failures + 1
              /\ server' = [server EXCEPT ![c] = "none"]
              /\ UNCHANGED sends
        /\ Does(test, "listen", c)
        /\ UNCHANGED <<connected, recv, active_clients, num_connections,
                       client_to_close, max_limit, again>>

(* ... then its first receive is posted. Where that fails the slot is the  *)
(* next one's, and what it has sent is still in flight.                    *)
Listen ==
    LET c == cl[test]
    IN  /\ op[test] = "listen"
        /\ \/ /\ server[c] # "none"
              /\ recv' = [recv EXCEPT ![c] = TRUE]
              /\ num_connections' = num_connections + 1
              /\ UNCHANGED failures
           \/ /\ server[c] # "none" => failures < MaxFailures
              /\ failures' = IF server[c] = "none" THEN failures ELSE failures + 1
              /\ UNCHANGED <<recv, num_connections>>
        /\ Does(test, "none", c)
        /\ UNCHANGED <<connected, sock, sends, server, active_clients,
                       client_to_close, max_limit, increasing, again>>

(* Test_Thread: a move of a connected client; on a socket that is closed   *)
(* by then the send fails.                                                 *)
ChooseMove(c) ==
    /\ op[test] = "none" /\ c < num_connections /\ connected[c]
    /\ Does(test, "send", c)
    /\ UNCHANGED <<connected, sock, recv, sends, server, active_clients, again, adjustment>>

SendMove ==
    LET c == cl[test]
    IN  /\ op[test] = "send"
        /\ sends' = IF sock[c] = "open" /\ sends[c] < MaxSends
                    THEN [sends EXCEPT ![c] = @ + 1] ELSE sends
        /\ Does(test, "none", c)
        /\ UNCHANGED <<connected, sock, recv, server, active_clients, again, adjustment>>

(* The server closes the connection, or it breaks. *)
ServerGone(c) ==
    /\ server[c] \in {"asked", "in"}
    /\ server' = [server EXCEPT ![c] = "gone"]
    /\ UNCHANGED <<connected, sock, recv, sends, active_clients, op, cl, again, adjustment>>

-----------------------------------------------------------------------------
Disconnect(t) == Swap(t) \/ Close(t) \/ CountDown(t)

Complete(w, c) ==
    RecvEnd(w, c) \/ RecvLoginOk(w, c) \/ RecvOther(w, c) \/ SendEnd(w, c)

Work(w) == Disconnect(w) \/ Up(w) \/ CountUp(w) \/ Post(w)

Next ==
    \/ \E w \in Workers : Work(w) \/ \E c \in Clients : Complete(w, c)
    \/ Disconnect(test) \/ Shed \/ Connect \/ Listen \/ SendMove
    \/ \E c \in Clients : ChooseMove(c) \/ ServerGone(c)

Spec == Init /\ [][Next]_vars

(* The threads keep running; a receive that has ended is taken from the    *)
(* port, which hands out its completions in their order.                   *)
Fairness ==
    /\ \A w \in Workers : WF_vars(Work(w))
    /\ WF_vars(Disconnect(test))
    /\ \A c \in Clients : SF_vars(\E w \in Workers : RecvEnd(w, c))

FairSpec == Spec /\ Fairness

-----------------------------------------------------------------------------
TypeOK ==
    /\ connected \in [Clients -> BOOLEAN]
    /\ sock \in [Clients -> {"none", "open", "closed"}]
    /\ recv \in [Clients -> BOOLEAN]
    /\ sends \in [Clients -> 0..MaxSends]
    /\ server \in [Clients -> {"none", "asked", "in", "gone"}]
    /\ active_clients \in (-Cardinality(Workers))..MAX_CLIENTS
    /\ num_connections \in 0..MAX_CLIENTS
    /\ client_to_close \in 0..MAX_CLIENTS
    /\ max_limit \in Int /\ increasing \in BOOLEAN
    /\ op \in [Threads -> {"none", "swap", "close", "down", "up", "count", "post",
                           "listen", "send"}]
    /\ cl \in [Threads -> Clients \cup {0}]
    /\ again \in [Threads -> BOOLEAN]
    /\ failures \in 0..MaxFailures

(* active_clients, which decides on every adjustment, is the number of     *)
(* connected clients whenever no thread is about to count, whoever has     *)
(* disconnected whom in between: no client is counted off twice.           *)
CountIsExact ==
    (\A t \in Threads : op[t] \notin {"count", "close", "down"})
        => active_clients = Cardinality({c \in Clients : connected[c]})

(* closesocket is only called for a socket that is open: a second call     *)
(* would close whatever has got the same handle since.                     *)
ClosesOpenSocket == \A t \in Threads : op[t] = "close" => sock[cl[t]] = "open"

(* However many threads disconnect a client, it is closed and counted off  *)
(* once.                                                                   *)
DisconnectedOnce == TypeOK /\ CountIsExact /\ ClosesOpenSocket

(* A client whose connection has ended is disconnected in the end.         *)
GoneIsCountedOff ==
    \A c \in Clients : (connected[c] /\ server[c] = "gone") ~> ~connected[c]
=============================================================================
