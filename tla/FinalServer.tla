------------------------------- MODULE FinalServer -------------------------------
(* Parts of the final server side by side: the initial state picks one,    *)
(* and no step changes the choice. What is a variable of other parts only  *)
(* is 0.                                                                   *)
(*                                                                         *)
(*   "views"     FinalViews, in a world of Worlds, a record of its sizes   *)
(*   "map"       MapMove                                                   *)
(*   "search"    AStar                                                     *)
(*   "rows"      DataBase                                                  *)
(*   "combat"    Combat                                                    *)
EXTENDS Integers

CONSTANTS
    Worlds,                 \* [clients, objects, width, radius, requests],
                            \* FinalViews
    SearchWidth, SearchHeight,                                  \* AStar
    Callers, Names, TableRows, Ints, MaxCalls,                  \* DataBase
    Avatars, Monsters,                                          \* MapMove, Combat
    WORLD_WIDTH, WORLD_HEIGHT, Walls, Starts, Dirs, MaxPlacings,
    Near, AvatarRows, MaxAttacks

VARIABLES part, world,
    pc, data, pos, isActive,                                    \* of several
    isConnect, viewlist, shown, lives, task, orderly, requests, \* FinalViews
    m_pos, px, py, dir, been, walls, left,                      \* MapMove
    target, openQ, closeQ, resultPath, moved,                   \* AStar
    row, hstmt, retcode, stmt, bound, call, name, locals,       \* DataBase
    calls, alone,
    m_hp, m_level, m_exp, isAlive, attacker, vl, npc, exp,      \* Combat
    level, login, attacks, calm, settled

onlyViews == <<isConnect, viewlist, shown, lives, task, orderly, requests>>
onlyMap == <<m_pos, px, py, dir, been, walls, left>>
onlySearch == <<target, openQ, closeQ, resultPath, moved>>
onlyRows == <<row, hstmt, retcode, stmt, bound, call, name, locals, calls, alone>>
onlyCombat == <<m_hp, m_level, m_exp, isAlive, attacker, vl, npc, exp, level,
                login, attacks, calm, settled>>
vars == <<part, world, pc, data, pos, isActive,
          onlyViews, onlyMap, onlySearch, onlyRows, onlyCombat>>

-----------------------------------------------------------------------------
Views(w) == INSTANCE FinalViews WITH NPC_ID_START <- w.clients,
    MAX_USER <- w.objects, WORLD_WIDTH <- w.width, VIEW_RADIUS <- w.radius,
    Lives <- 1, MaxRequests <- w.requests

Map == INSTANCE MapMove WITH Clients <- Avatars, Npcs <- Monsters

Way == INSTANCE AStar WITH WORLD_WIDTH <- SearchWidth, WORLD_HEIGHT <- SearchHeight

Table == INSTANCE DataBase WITH Workers <- Callers, Rows <- TableRows

Fight == INSTANCE Combat WITH Clients <- Avatars, Npcs <- Monsters, Rows <- AvatarRows

ASSUME FinalServerAssumption ==
    /\ \A w \in Worlds : Views(w)!FinalViewsAssumption
    /\ Map!MapAssumption /\ Way!AStarAssumption
    /\ Table!DataBaseAssumption /\ Fight!CombatAssumption

-----------------------------------------------------------------------------
NoViews ==
    /\ isConnect = 0 /\ viewlist = 0 /\ shown = 0 /\ lives = 0 /\ task = 0
    /\ orderly = 0 /\ requests = 0

NoMap ==
    /\ m_pos = 0 /\ px = 0 /\ py = 0 /\ dir = 0
    /\ been = 0 /\ walls = 0 /\ left = 0

NoSearch == target = 0 /\ openQ = 0 /\ closeQ = 0 /\ resultPath = 0 /\ moved = 0

NoRows ==
    /\ row = 0 /\ hstmt = 0 /\ retcode = 0 /\ stmt = 0 /\ bound = 0 /\ call = 0
    /\ name = 0 /\ locals = 0 /\ calls = 0 /\ alone = 0

NoCombat ==
    /\ m_hp = 0 /\ m_level = 0 /\ m_exp = 0 /\ isAlive = 0 /\ attacker = 0
    /\ vl = 0 /\ npc = 0 /\ exp = 0 /\ level = 0 /\ login = 0 /\ attacks = 0
    /\ calm = 0 /\ settled = 0

Init ==
    \/ /\ part = "views" /\ \E w \in Worlds : world = w /\ Views(w)!Init
       /\ pc = 0 /\ data = 0 /\ NoMap /\ NoSearch /\ NoRows /\ NoCombat
    \/ /\ part = "map" /\ Map!Init
       /\ world = 0 /\ pos = 0 /\ isActive = 0 /\ NoViews /\ NoSearch /\ NoRows /\ NoCombat
    \/ /\ part = "search" /\ Way!Init
       /\ world = 0 /\ isActive = 0 /\ NoViews /\ NoMap /\ NoRows /\ NoCombat
    \/ /\ part = "rows" /\ Table!Init
       /\ world = 0 /\ data = 0 /\ pos = 0 /\ isActive = 0
       /\ NoViews /\ NoMap /\ NoSearch /\ NoCombat
    \/ /\ part = "combat" /\ Fight!Init
       /\ world = 0 /\ data = 0 /\ pos = 0 /\ NoViews /\ NoMap /\ NoSearch /\ NoRows

Next ==
    /\ \/ /\ part = "views" /\ \E w \in Worlds : world = w /\ Views(w)!Next
          /\ UNCHANGED <<pc, data, onlyMap, onlySearch, onlyRows, onlyCombat>>
       \/ /\ part = "map" /\ Map!Next
          /\ UNCHANGED <<pos, isActive, onlyViews, onlySearch, onlyRows, onlyCombat>>
       \/ /\ part = "search" /\ Way!Next
          /\ UNCHANGED <<isActive, onlyViews, onlyMap, onlyRows, onlyCombat>>
       \/ /\ part = "rows" /\ Table!Next
          /\ UNCHANGED <<data, pos, isActive, onlyViews, onlyMap, onlySearch, onlyCombat>>
       \/ /\ part = "combat" /\ Fight!Next
          /\ UNCHANGED <<data, pos, onlyViews, onlyMap, onlySearch, onlyRows>>
    /\ UNCHANGED <<part, world>>

Spec == Init /\ [][Next]_vars

-----------------------------------------------------------------------------
TypeOK ==
    CASE part = "views" -> \A w \in Worlds : world = w => Views(w)!TypeOK
      [] part = "map" -> Map!TypeOK
      [] part = "search" -> Way!TypeOK
      [] part = "rows" -> Table!TypeOK
      [] part = "combat" -> Fight!TypeOK

(* Logins at the same time as logins, world updates and NPCs' turns: of    *)
(* two players near each other in the end each is in the list of the       *)
(* other, although nobody locks the lists; and so is every NPC near one.   *)
(* Both have logged in once and before they moved; what clients do that    *)
(* log in again, by CS_DUMMY_LOGIN or while they move does not hide two    *)
(* such players from each other.                                           *)
NobodyMissed ==
    part = "views" => \A w \in Worlds : world = w => Views(w)!NobodyMissed

(* Player::move: a mark lies where an object was or one step from there in *)
(* memory, which in the first and the last row is in the column beside;    *)
(* and a wall is lost only where an object was put on it.                  *)
MarksAndWalls == part = "map" => Map!MarksAndWalls

(* World::AStar: every cell visited was reached by a shortest way, and the *)
(* result is a shortest way over the cells it walks, empty just where      *)
(* there is none.                                                          *)
PathIsShortest == part = "search" => Way!DistancesAreExact /\ Way!PathIsShortest

(* World::AStar comes to an end: each step of it leaves less to do.        *)
SearchShrinks == [][part = "search" => Way!SearchShrinks]_vars

(* FindID and UpdateDB: a call that no other overlaps reaches the row of   *)
(* its name. A login loads it, of the level the lower half; a logout saves *)
(* it, be it with level and hp changed over. So it is whatever overlapping *)
(* calls have made of the one hstmt and retcode before, and however many   *)
(* handles are left open.                                                  *)
CallsReachTheirRow == part = "rows" => Table!CallsReachTheirRow

(* Player::attack: a reward leaves an avatar with less experience than its *)
(* level asks for, whatever its row had, and although a login may set both *)
(* in the midst of it; only one that comes between the comparison and the  *)
(* end of the level up may leave more.                                     *)
ExpBelowNext == part = "combat" => Fight!ExpBelowNext
=============================================================================
