------------------------------ MODULE LossyFifo ------------------------------
(***************************************************************************)
(* A channel that may lose what it carries but neither doubles nor         *)
(* reorders it: what a player can rely on when its packets reach the       *)
(* world's message queue. MsgQueue implements it.                          *)
(***************************************************************************)
EXTENDS Sequences, Naturals

CONSTANTS Messages      \* what can be sent, each at most once

VARIABLES sent,         \* the messages sent so far
          transit,      \* those on their way, in the order they were sent
          delivered     \* those that arrived, in the order of arrival

vars == <<sent, transit, delivered>>

Init == sent = {} /\ transit = <<>> /\ delivered = <<>>

Send(m) ==
    /\ m \notin sent
    /\ sent' = sent \cup {m}
    /\ transit' = Append(transit, m)
    /\ UNCHANGED delivered

Deliver ==
    /\ transit # <<>>
    /\ transit' = Tail(transit)
    /\ delivered' = Append(delivered, Head(transit))
    /\ UNCHANGED sent

Lose(i) ==
    /\ transit' = [j \in 1..(Len(transit) - 1) |->
                     IF j < i THEN transit[j] ELSE transit[j + 1]]
    /\ UNCHANGED <<sent, delivered>>

Next ==
    \/ \E m \in Messages : Send(m)
    \/ Deliver
    \/ \E i \in 1..Len(transit) : Lose(i)

Spec == Init /\ [][Next]_vars
=============================================================================
