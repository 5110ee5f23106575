-------------------------------- MODULE MapMove --------------------------------
(***************************************************************************)
(* The map of the final server and the steps of avatars and NPCs on it:    *)
(* Player::move(int), called by the world's update for clients, one after  *)
(* the other, and by the turn of each NPC that chases nobody.              *)
(*                                                                         *)
(*   data     Map::data, as the memory it is: cell (x, y) at x * H + y, so *)
(*            that (x, H) is (x + 1, 0) and some places are no cell        *)
(*   m_pos    where an object is; <<-1, -1>> before its login              *)
(*   px, py   what its move has read of m_pos; -1 between moves            *)
(*   pc       "idle"; "x", "y": next it reads m_pos.x, .y; "lock": next it *)
(*            steps, holding g_map_lock                                    *)
(*   dir      of the move                                                  *)
(*   been     history: where an object was put                             *)
(*   walls    history: what was eBLOCKED at the start                      *)
(*   left     how many times clients may still be placed (the bound)       *)
(*                                                                         *)
(* No caller passes a CS_TELEPORT on, so that move(POINT) is left out. A   *)
(* read of no cell gives any value; what a write there destroys is not     *)
(* modelled.                                                               *)
(***************************************************************************)
EXTENDS Integers

CONSTANTS
    Clients, Npcs,
    WORLD_WIDTH, WORLD_HEIGHT,
    Walls,              \* the sets of cells MakeNewMap may block
    Starts,             \* the places the rows of the database hold
    Dirs,               \* the directions of the run, some of 0..3
    MaxPlacings         \* bound: the placings of clients after the start

W == WORLD_WIDTH
H == WORLD_HEIGHT

MapAssumption ==
    /\ {W, H} \subseteq Nat \ {0} /\ MaxPlacings \in Nat
    /\ Dirs \subseteq 0..3 /\ Clients \cap Npcs = {}
    /\ Walls \subseteq SUBSET ((0..(W - 1)) \X (0..(H - 1)))
    /\ Starts \subseteq Int \X Int

eBLANK == 0
eBLOCKED == 1
ePLAYER == 2

MV_UP == 0
MV_DOWN == 1
MV_LEFT == 2
MV_RIGHT == 3

Objects == Clients \cup Npcs
Nowhere == <<-1, -1>>
Memory == 0..(W * H - 1)
Index(x, y) == x * H + y

VARIABLES data, m_pos, px, py, pc, dir, been, walls, left

vars == <<data, m_pos, px, py, pc, dir, been, walls, left>>

-----------------------------------------------------------------------------
MakeNewMap(blocked) ==
    [i \in Memory |-> IF i \in blocked THEN eBLOCKED ELSE eBLANK]

(* InitNPC draws from 0 to WORLD_WIDTH and to WORLD_HEIGHT, both included. *)
InitNPC == [Npcs -> (0..W) \X (0..H)]

Init ==
    /\ walls \in {{Index(c[1], c[2]) : c \in cells} : cells \in Walls}
    /\ data = MakeNewMap(walls)
    /\ \E at \in InitNPC : m_pos = [o \in Objects |-> IF o \in Npcs THEN at[o] ELSE Nowhere]
    /\ been = [o \in Objects |-> {m_pos[o]}]
    /\ px = [o \in Objects |-> -1] /\ py = px
    /\ pc = [o \in Objects |-> "idle"]
    /\ dir = [o \in Objects |-> MV_UP]
    /\ left = MaxPlacings

(* SetPos of CS_LOGIN and of CS_DUMMY_LOGIN, or the Reset of CS_LOGOUT, on *)
(* any worker.                                                             *)
Place(c) ==
    /\ left > 0
    /\ \E pt \in Starts \cup {Nowhere} :
         /\ m_pos' = [m_pos EXCEPT ![c] = pt]
         /\ been' = [been EXCEPT ![c] = @ \cup {pt}]
    /\ left' = left - 1
    /\ UNCHANGED <<data, px, py, pc, dir, walls>>

(* The world begins a client's move when the one before is done; an NPC    *)
(* has one turn at a time.                                                 *)
Begin(o, d) ==
    /\ IF o \in Clients THEN \A c \in Clients : pc[c] = "idle" ELSE pc[o] = "idle"
    /\ dir' = [dir EXCEPT ![o] = d]
    /\ pc' = [pc EXCEPT ![o] = "x"]
    /\ UNCHANGED <<data, m_pos, px, py, been, walls, left>>

ReadX(o) ==
    /\ pc[o] = "x"
    /\ px' = [px EXCEPT ![o] = m_pos[o][1]]
    /\ pc' = [pc EXCEPT ![o] = "y"]
    /\ UNCHANGED <<data, m_pos, py, dir, been, walls, left>>

ReadY(o) ==
    /\ pc[o] = "y"
    /\ py' = [py EXCEPT ![o] = m_pos[o][2]]
    /\ pc' = [pc EXCEPT ![o] = "lock"]
    /\ UNCHANGED <<data, m_pos, px, dir, been, walls, left>>

-----------------------------------------------------------------------------
(* data[x][y] is eBLANK; outside the array it may be. *)
IsBlank(x, y) == Index(x, y) \in Memory => data[Index(x, y)] = eBLANK

MayBeOther(x, y) == Index(x, y) \notin Memory

(* The bounds of the step, as they are written. *)
MayStep(x, y, d) ==
    \/ d = MV_UP    /\ y > 0 /\ IsBlank(x, y - 1)
    \/ d = MV_DOWN  /\ y < H /\ IsBlank(x, y + 1)
    \/ d = MV_LEFT  /\ x > 0 /\ IsBlank(x - 1, y)
    \/ d = MV_RIGHT /\ x < W /\ IsBlank(x + 1, y)

(* Slip (MarksAndWalls): the break of MV_DOWN is forgotten. *)
SlipAhead(x, y, d) ==
    CASE d = MV_UP    -> <<x, y - 1>>
      [] d = MV_DOWN  -> <<x - 1, y + 1>>
      [] d = MV_LEFT  -> <<x - 1, y>>
      [] d = MV_RIGHT -> <<x + 1, y>>

Ahead(x, y, d) ==
    CASE d = MV_UP    -> <<x, y - 1>>
      [] d = MV_DOWN  -> <<x, y + 1>>
      [] d = MV_LEFT  -> <<x - 1, y>>
      [] d = MV_RIGHT -> <<x + 1, y>>

(* Slip (TypeOK): the value is added to what is there. *)
SlipSetData(map, x, y, value) ==
    [i \in Memory |-> IF i = Index(x, y) THEN map[i] + value ELSE map[i]]

setData(map, x, y, value) == [i \in Memory |-> IF i = Index(x, y) THEN value ELSE map[i]]

(* The place left is blank and the place reached marked. m_pos stays.      *)
Mark(o) ==
    LET x == px[o]
        y == py[o]
        ahead == Ahead(x, y, dir[o])
        reached == (IF MayStep(x, y, dir[o]) THEN {ahead} ELSE {<<x, y>>})
                     \cup (IF MayBeOther(ahead[1], ahead[2]) THEN {<<x, y>>} ELSE {})
    IN  /\ pc[o] = "lock"
        /\ \E to \in reached :
             data' = setData(setData(data, x, y, eBLANK), to[1], to[2], ePLAYER)
        /\ pc' = [pc EXCEPT ![o] = "idle"]
        /\ px' = [px EXCEPT ![o] = -1] /\ py' = [py EXCEPT ![o] = -1]
        /\ dir' = [dir EXCEPT ![o] = MV_UP]
        /\ UNCHANGED <<m_pos, been, walls, left>>

Move(o) == (\E d \in Dirs : Begin(o, d)) \/ ReadX(o) \/ ReadY(o) \/ Mark(o)

Next == (\E c \in Clients : Place(c)) \/ (\E o \in Objects : Move(o))

Spec == Init /\ [][Next]_vars

-----------------------------------------------------------------------------
TypeOK ==
    /\ data \in [Memory -> {eBLANK, eBLOCKED, ePLAYER}]
    /\ m_pos \in [Objects -> Starts \cup {Nowhere} \cup ((0..W) \X (0..H))]
    /\ px \in [Objects -> Int] /\ py \in [Objects -> Int]
    /\ pc \in [Objects -> {"idle", "x", "y", "lock"}]
    /\ dir \in [Objects -> Dirs \cup {MV_UP}]
    /\ walls \subseteq Memory

(* Where object o may have taken itself to be: its move reads m_pos.x and  *)
(* m_pos.y one after the other, and a login may come in between.           *)
Taken(o) == {Index(p[1], q[2]) : p \in been[o], q \in been[o]}

(* Whatever the order of moves and logins, a mark lies where an object was *)
(* or one step from there in memory, which is the same step but in the     *)
(* first and the last row, where it may be in the column beside.           *)
MarksAreNear ==
    \A i \in Memory : data[i] = ePLAYER =>
        \E o \in Objects : \E t \in Taken(o) : i - t \in {0, 1, -1, H, -H}

(* Objects never step onto a wall: one is lost only where an object stood  *)
(* on it to begin with, put there by its login or by InitNPC.              *)
WallsStandUntilStoodOn ==
    \A i \in walls : data[i] # eBLOCKED => \E o \in Objects : i \in Taken(o)

(* Player::move: marks stay near the objects, and walls stand.             *)
MarksAndWalls == MarksAreNear /\ WallsStandUntilStoodOn
=============================================================================
