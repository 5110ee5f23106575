--------------------------------- MODULE AStar ---------------------------------
(***************************************************************************)
(* World::AStar, the search by which a chasing NPC finds its way.          *)
(*                                                                         *)
(*   data        the map: which cells are eBLOCKED                         *)
(*   pos, target where the search begins and ends                          *)
(*   openQ       the nodes in the priority queue: a cell, the cell before  *)
(*               it and movingDist; no two are equal                       *)
(*   closeQ      per cell visited the cell before it (None for pos)        *)
(*   resultPath  the cells from target back to pos; empty where there is   *)
(*               no way                                                    *)
(*   moved       history: movingDist of the cells visited                  *)
(*                                                                         *)
(* The queue's order among nodes of equal weight is the library's: any     *)
(* such node may come first. A weight is movingDist + preDist, preDist the *)
(* square root of an integer; weights are compared exactly, which is what  *)
(* the float does for distances within an NPC's reach.                     *)
(***************************************************************************)
EXTENDS Integers, FiniteSets, Sequences

CONSTANTS WORLD_WIDTH, WORLD_HEIGHT

AStarAssumption == {WORLD_WIDTH, WORLD_HEIGHT} \subseteq Nat \ {0}

Cells == (0..(WORLD_WIDTH - 1)) \X (0..(WORLD_HEIGHT - 1))
None == <<-1, -1>>

VARIABLES data, pos, target, openQ, closeQ, resultPath, moved, pc

vars == <<data, pos, target, openQ, closeQ, resultPath, moved, pc>>

Init ==
    /\ data \in SUBSET Cells
    /\ pos \in Cells /\ target \in Cells
    /\ openQ = {[cur |-> pos, prev |-> None, movingDist |-> 0]}
    /\ closeQ = <<>>
    /\ resultPath = <<>>
    /\ moved = <<>>
    /\ pc = "search"

-----------------------------------------------------------------------------
Square(n) == n * n

(* The square of the straight distance from a cell to the target. *)
ToTarget(c) == Square(c[1] - target[1]) + Square(c[2] - target[2])

(* Slip (PathIsShortest): std::greater is forgotten, so *)
(* that the queue begins with the greatest weight.                         *)
SlipNotAbove(a, b) ==
    a.movingDist + ToTarget(a.cur) >= b.movingDist + ToTarget(b.cur)

(* The weight of node a is not above that of node b: in terms of           *)
(* k = b.movingDist - a.movingDist, the root of ToTarget(a.cur) is at most *)
(* k plus that of ToTarget(b.cur).                                         *)
NotAbove(a, b) ==
    LET k == b.movingDist - a.movingDist
        p == ToTarget(a.cur)
        q == ToTarget(b.cur)
    IN  IF k >= 0
        THEN p - q - k * k <= 0 \/ Square(p - q - k * k) <= 4 * k * k * q
        ELSE q - p - k * k >= 0 /\ 4 * k * k * p <= Square(q - p - k * k)

(* The four neighbours within the map, without those the loop ignores.     *)
Next4(c) ==
    {n \in {<<c[1] + d[1], c[2] + d[2]>> : d \in {<<0, -1>>, <<-1, 0>>, <<1, 0>>, <<0, 1>>}} :
        n \in Cells /\ n \in data}

Visited == DOMAIN closeQ

-----------------------------------------------------------------------------
(* Slip (SearchShrinks): what was visited is visited again. *)
SlipSkip(node) ==
    /\ node.cur \in Visited
    /\ openQ' = (openQ \ {node})
                  \cup {[cur |-> n, prev |-> node.cur, movingDist |-> node.movingDist] :
                          n \in Next4(node.cur)}
    /\ UNCHANGED <<data, pos, target, closeQ, resultPath, moved, pc>>

(* The top of the queue was visited before. *)
Skip(node) ==
    /\ node.cur \in Visited
    /\ openQ' = openQ \ {node}
    /\ UNCHANGED <<data, pos, target, closeQ, resultPath, moved, pc>>

(* It is visited now; the search ends at the target. *)
Visit(node) ==
    LET c == node.cur
    IN  /\ c \notin Visited
        /\ closeQ' = [n \in Visited \cup {c} |-> IF n = c THEN node.prev ELSE closeQ[n]]
        /\ moved' = [n \in Visited \cup {c} |-> IF n = c THEN node.movingDist ELSE moved[n]]
        /\ openQ' = (openQ \ {node})
                      \cup (IF c = target THEN {}
                            ELSE {[cur |-> n, prev |-> c, movingDist |-> node.movingDist + 1] :
                                    n \in Next4(c)})
        /\ pc' = IF c = target THEN "path" ELSE pc
        /\ UNCHANGED <<data, pos, target, resultPath>>

Search ==
    /\ pc = "search"
    /\ \E node \in openQ : /\ \A other \in openQ : NotAbove(node, other)
                           /\ Skip(node) \/ Visit(node)

(* The queue is empty. *)
GiveUp ==
    /\ pc = "search" /\ openQ = {}
    /\ pc' = "done"
    /\ UNCHANGED <<data, pos, target, openQ, closeQ, resultPath, moved>>

(* The way back from the target to the cell that has none before it. *)
Back(location) ==
    /\ pc = "path"
    /\ resultPath' = Append(resultPath, location)
    /\ pc' = IF closeQ[location] = None THEN "done" ELSE pc
    /\ UNCHANGED <<data, pos, target, openQ, closeQ, moved>>

Path ==
    Back(IF resultPath = <<>> THEN target ELSE closeQ[resultPath[Len(resultPath)]])

Next == Search \/ GiveUp \/ Path

Spec == Init /\ [][Next]_vars

-----------------------------------------------------------------------------
(* The reference: the cells within k steps of pos, over eBLOCKED cells,    *)
(* and how many steps it takes to a cell.                                  *)
Within(k) ==
    LET within[i \in 0..k] ==
            IF i = 0 THEN {pos}
            ELSE LET near == within[i - 1]
                 IN  near \cup UNION {Next4(b) : b \in near}
    IN  within[k]

Reachable == Within(Cardinality(Cells))

Steps(c) == CHOOSE k \in 0..Cardinality(Cells) :
                c \in Within(k) /\ (k = 0 \/ c \notin Within(k - 1))

TypeOK ==
    /\ data \subseteq Cells /\ {pos, target} \subseteq Cells
    /\ \A node \in openQ : /\ node.cur \in Cells
                           /\ node.prev \in Cells \cup {None}
                           /\ node.movingDist \in 0..Cardinality(Cells)
    /\ Visited \subseteq Cells /\ DOMAIN moved = Visited
    /\ resultPath \in Seq(Cells)
    /\ pc \in {"search", "path", "done"}

(* When the search is over, every cell visited was visited by a shortest   *)
(* way, so that it was right not to visit it again: the straight distance  *)
(* never exceeds the true one.                                             *)
DistancesAreExact ==
    pc # "search" => \A c \in Visited : c \in Reachable /\ moved[c] = Steps(c)

(* The result is a shortest way from target back to pos over eBLOCKED      *)
(* cells, each next to the one before; it is empty just where there is no  *)
(* way. Its last but one cell, where the NPC goes, is next to pos.         *)
PathIsShortest ==
    pc = "done" =>
        /\ resultPath = <<>> <=> target \notin Reachable
        /\ resultPath # <<>> =>
             /\ resultPath[1] = target /\ resultPath[Len(resultPath)] = pos
             /\ \A i \in 1..(Len(resultPath) - 1) : resultPath[i] \in Next4(resultPath[i + 1])
             /\ Len(resultPath) = Steps(target) + 1

(* The search ends, although it puts visited cells into the queue again:   *)
(* each of its steps leaves less to do, where a cell not visited is worth  *)
(* its four neighbours and itself.                                         *)
SearchShrinks ==
    LET toDo == 5 * (Cardinality(Cells) - Cardinality(Visited)) + Cardinality(openQ)
    IN  pc = "search" /\ pc' = "search" => toDo' < toDo
=============================================================================
