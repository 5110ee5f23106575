------------------------------- MODULE NpcLife -------------------------------
(***************************************************************************)
(* What the server promises about the life of an NPC: it sleeps until a    *)
(* player comes, then moves until it is killed; a killed NPC comes to rest *)
(* and is never woken again. EventLoop implements this with two flags, a   *)
(* timer queue, a completion port and the worker threads.                  *)
(***************************************************************************)
CONSTANTS Npcs      \* the NPCs

VARIABLES alive,    \* the NPC has not been killed
          awake     \* the NPC moves every second

vars == <<alive, awake>>

Init ==
    /\ alive = [n \in Npcs |-> TRUE]
    /\ awake = [n \in Npcs |-> FALSE]

Wake(n) ==
    /\ alive[n] /\ ~awake[n]
    /\ awake' = [awake EXCEPT ![n] = TRUE]
    /\ UNCHANGED alive

Kill(n) ==
    /\ alive[n]
    /\ alive' = [alive EXCEPT ![n] = FALSE]
    /\ UNCHANGED awake

Retire(n) ==
    /\ ~alive[n] /\ awake[n]
    /\ awake' = [awake EXCEPT ![n] = FALSE]
    /\ UNCHANGED alive

Next == \E n \in Npcs : Wake(n) \/ Kill(n) \/ Retire(n)

SafeSpec == Init /\ [][Next]_vars

(* A dead NPC does not haunt the timer queue for ever. *)
Fairness == \A n \in Npcs : WF_vars(Retire(n))

Spec == SafeSpec /\ Fairness
=============================================================================
