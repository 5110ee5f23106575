---------------------------- MODULE MCLectureServers ----------------------------
(* LectureServers on small instances: three AI servers - two players whose *)
(* slots are used twice, an NPC, and one worker; two such players and two  *)
(* workers; and a player and an NPC, and a send that fails - and the       *)
(* multithreaded server with two clients over three slots, each used up to *)
(* three times.                                                            *)
EXTENDS LectureServers, TLC

CONSTANTS w1, w2

OneWorker == [users |-> 3, npcStart |-> 3, width |-> 3, height |-> 1, radius |-> 1,
              workers |-> {w1}, lives |-> 2, failures |-> 0]
TwoPlayers == [users |-> 2, npcStart |-> 3, width |-> 3, height |-> 1, radius |-> 1,
               workers |-> {w1, w2}, lives |-> 2, failures |-> 0]
AnNpc == [users |-> 2, npcStart |-> 2, width |-> 4, height |-> 1, radius |-> 1,
          workers |-> {w1, w2}, lives |-> 1, failures |-> 1]

MCAiServers == {OneWorker, TwoPlayers, AnNpc}

(* One worker is like the other. *)
AnyWorker == Permutations({w1, w2})
=============================================================================
