------------------------------ MODULE MCFinalServer ------------------------------
(* FinalServer on small instances: two workers with three database calls   *)
(* about two avatars; a client and an NPC on a map of 2 x 3, and in a      *)
(* fight of three attacks; three clients who see each other, two who may,  *)
(* or a client and an NPC, with their view lists and a few requests; and   *)
(* the search on every map of 3 x 2.                                       *)
EXTENDS FinalServer, TLC

CONSTANTS w1, w2, ann, bob

(* With three requests three clients log in, or two and one of them moves  *)
(* or leaves; with six two clients log in and do four things more.         *)
MCWorlds ==
    {[clients |-> 3, objects |-> 3, width |-> 1, radius |-> 1, requests |-> 3],
     [clients |-> 2, objects |-> 2, width |-> 2, radius |-> 1, requests |-> 6],
     [clients |-> 1, objects |-> 2, width |-> 3, radius |-> 2, requests |-> 4]}

(* Two rows that differ in level and in hp. *)
MCTableRows == {[level |-> 1, hp |-> 100], [level |-> 3, hp |-> 40]}

(* 7 in the lower half, and 7 in the upper. *)
MCInts == {458759}

(* No wall, one, two; the places are beside them, in a corner, and on one. *)
MCWalls == {{}, {<<1, 0>>}, {<<0, 0>>, <<1, 2>>}}
MCStarts == {<<0, 0>>, <<1, 1>>, <<1, 2>>}

MCNear == {<<"c1", "n1">>}

(* An avatar one kill short of the next level, or not, with hardly any hit *)
(* points left: then a blow leaves an NPC below zero. The experience of    *)
(* the third would be too much for the level of the others.                *)
MCAvatarRows ==
    {[level |-> 1, hp |-> 1, exp |-> 98], [level |-> 2, hp |-> 3, exp |-> 198],
     [level |-> 3, hp |-> 5, exp |-> 390]}

(* One worker is like the other, and one name. *)
AnyCaller == Permutations({w1, w2}) \cup Permutations({ann, bob})
=============================================================================
