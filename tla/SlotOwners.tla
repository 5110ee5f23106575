------------------------------ MODULE SlotOwners ------------------------------
(***************************************************************************)
(* What the table g_users promises about its client slots: a slot has one  *)
(* owner at a time, it is given away only when it is free, and a           *)
(* connection owns one slot, once. Sessions implements this with the       *)
(* accept thread, the workers and the flag isConnect.                      *)
(***************************************************************************)
CONSTANTS Slots,    \* the client slots
          Conns,    \* the connections
          None

VARIABLES owner,    \* the connection that owns each slot
          served    \* the connections that own or have owned one

vars == <<owner, served>>

Init ==
    /\ owner = [k \in Slots |-> None]
    /\ served = {}

Take(c, k) ==
    /\ owner[k] = None
    /\ c \notin served
    /\ owner' = [owner EXCEPT ![k] = c]
    /\ served' = served \cup {c}

Release(k) ==
    /\ owner[k] # None
    /\ owner' = [owner EXCEPT ![k] = None]
    /\ UNCHANGED served

Next == \E k \in Slots : Release(k) \/ \E c \in Conns : Take(c, k)

Spec == Init /\ [][Next]_vars
=============================================================================
