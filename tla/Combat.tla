-------------------------------- MODULE Combat ---------------------------------
(***************************************************************************)
(* Hit points, levels and experience: Player::attack, run by the world's   *)
(* update for one CS_ATTACK after the other, while other workers log the   *)
(* same avatars in (a client may log in again at any time) and wake NPCs.  *)
(*                                                                         *)
(*   m_hp, m_level, m_exp   of each avatar and NPC; unsigned in the code,  *)
(*                and read through getters that return int, so that the    *)
(*                values are those of int as long as they fit              *)
(*   isAlive, isActive      of each CLIENT; an avatar's never are set      *)
(*   attacker, vl, pc       of the attack under way: who strikes, whom of  *)
(*                its view list it has still to go through, the next step  *)
(*   npc          the one it is at                                         *)
(*   exp, level   what GetExp() and GetLevel() of the attacker gave last   *)
(*   login        per client the row it loads and the next setter; Idle    *)
(*   attacks      how many attacks have begun (the bound)                  *)
(*   calm         history: since the comparison with what the level asks   *)
(*                for began, no login has set the attacker's level or      *)
(*                experience                                               *)
(*   settled      history: the clients whose last reward was calm, and     *)
(*                whom no login has touched since                          *)
(*                                                                         *)
(* Who stands within reach of whom is the constant Near: avatars and NPCs  *)
(* do not move (see MapMove), and it is a subset of the view list. The     *)
(* other attack, of an NPC that chases an avatar, is not modelled: no      *)
(* avatar has GetEmpty() false, which World.cpp:210 asks for.              *)
(***************************************************************************)
EXTENDS Integers

CONSTANTS
    Clients, Npcs,
    Near,               \* the pairs that can strike each other
    Rows,               \* the rows of the database: level, hp, exp
    MaxAttacks          \* bound: the attacks made

Objects == Clients \cup Npcs

(* e >= 100 * pow(2, l - 1), a double: below level 1 the power is less     *)
(* than one.                                                               *)
Reaches(e, l) == IF l >= 1 THEN e >= 100 * 2 ^ (l - 1) ELSE e * 2 ^ (1 - l) >= 100

(* A row may hold any level and experience: a logout saves the hit points  *)
(* as the level (see DataBase).                                            *)
CombatAssumption ==
    /\ Near \subseteq Objects \X Objects /\ Clients \cap Npcs = {}
    /\ MaxAttacks \in Nat
    /\ Rows \subseteq [level : Int, hp : Int, exp : Int]

Idle == [row |-> [level |-> 0, hp |-> 0, exp |-> 0], next |-> "Idle"]

VARIABLES m_hp, m_level, m_exp, isAlive, isActive, attacker, vl, pc, npc, exp, level,
          login, attacks, calm, settled

stats == <<m_hp, m_level, m_exp>>
flags == <<isAlive, isActive>>
walk == <<attacker, vl, npc>>
reads == <<exp, level>>
history == <<calm, settled>>
vars == <<m_hp, m_level, m_exp, isAlive, isActive, attacker, vl, pc, npc, exp, level,
          login, attacks, calm, settled>>

(* The NPCs of InitNPC, and clients that have logged in. *)
Init ==
    /\ \E row \in [Clients -> Rows] :
         /\ m_hp = [o \in Objects |-> IF o \in Npcs THEN 100 ELSE row[o].hp]
         /\ m_level = [o \in Objects |-> IF o \in Npcs THEN 1 ELSE row[o].level]
         /\ m_exp = [o \in Objects |-> IF o \in Npcs THEN 0 ELSE row[o].exp]
    /\ isAlive = [o \in Objects |-> o \in Npcs]
    /\ isActive = [o \in Objects |-> FALSE]
    /\ attacker \in Clients /\ npc = attacker
    /\ vl = {} /\ pc = "Idle" /\ exp = 0 /\ level = 0
    /\ login = [c \in Clients |-> Idle]
    /\ attacks = 0
    /\ calm = TRUE /\ settled = {}

-----------------------------------------------------------------------------
(* The compare-exchange of wake_up_npc, on any worker. *)
Wake(n) ==
    /\ ~isActive[n]
    /\ isActive' = [isActive EXCEPT ![n] = TRUE]
    /\ UNCHANGED <<stats, isAlive, walk, pc, reads, login, attacks, history>>

(* The order of the setters in CS_LOGIN. *)
After(setter) ==
    CASE setter = "FindID" -> "SetLevel"
      [] setter = "SetLevel" -> "SetHp"
      [] setter = "SetHp" -> "SetExp"
      [] setter = "SetExp" -> "Idle"

(* CS_LOGIN of a client whose row FindID has found. *)
LoginBegin(c) ==
    /\ login[c] = Idle
    /\ \E r \in Rows : login' = [login EXCEPT ![c] = [row |-> r, next |-> After("FindID")]]
    /\ UNCHANGED <<stats, flags, walk, pc, reads, attacks, history>>

Set(c, setter) ==
    /\ login[c].next = setter
    /\ login' = [login EXCEPT ![c] = IF After(setter) = "Idle" THEN Idle
                                     ELSE [@ EXCEPT !.next = After(setter)]]
    /\ UNCHANGED <<flags, walk, pc, reads, attacks>>

(* A login sets what a level or a reward depends on. *)
Disturb(c) ==
    /\ calm' = (calm /\ c # attacker)
    /\ settled' = settled \ {c}

SetLevel(c) ==
    /\ Set(c, "SetLevel")
    /\ m_level' = [m_level EXCEPT ![c] = login[c].row.level]
    /\ Disturb(c)
    /\ UNCHANGED <<m_hp, m_exp>>

SetHp(c) ==
    /\ Set(c, "SetHp")
    /\ m_hp' = [m_hp EXCEPT ![c] = login[c].row.hp]
    /\ UNCHANGED <<m_level, m_exp, history>>

SetExp(c) ==
    /\ Set(c, "SetExp")
    /\ m_exp' = [m_exp EXCEPT ![c] = login[c].row.exp]
    /\ Disturb(c)
    /\ UNCHANGED <<m_hp, m_level>>

Login(c) == LoginBegin(c) \/ SetLevel(c) \/ SetHp(c) \/ SetExp(c)

-----------------------------------------------------------------------------
Attack(c) ==
    /\ pc = "Idle" /\ attacks < MaxAttacks
    /\ attacker' = c
    /\ vl' = {o \in Objects : <<c, o>> \in Near}
    /\ pc' = "Loop"
    /\ attacks' = attacks + 1
    /\ UNCHANGED <<stats, flags, npc, reads, login, history>>

(* The next of the view list within reach, or the end. The struck one's    *)
(* hit points become the attacker's less what its level makes the blow.    *)
(* Hit points decide on nothing but who is killed, so that the two reads   *)
(* here, and those of the test that follows, are one.                      *)
Hit ==
    /\ pc = "Loop"
    /\ \E o \in vl :
         /\ m_hp' = [m_hp EXCEPT ![o] = m_hp[attacker] - m_level[attacker] * 2]
         /\ npc' = o
         /\ vl' = vl \ {o}
    /\ pc' = "Killed"
    /\ UNCHANGED <<m_level, m_exp, flags, attacker, reads, login, attacks, history>>

AttackEnd ==
    /\ pc = "Loop" /\ vl = {}
    /\ pc' = "Idle"
    /\ UNCHANGED <<stats, flags, walk, reads, login, attacks, history>>

IsKilled == m_hp[npc] < 0 /\ isActive[npc]

Survives ==
    /\ pc = "Killed" /\ ~IsKilled
    /\ pc' = "Loop"
    /\ UNCHANGED <<stats, flags, walk, reads, login, attacks, history>>

(* GetExp() of the sum in SetExp. *)
RewardRead ==
    /\ pc = "Killed" /\ IsKilled
    /\ pc' = IF isAlive[npc] THEN "Reward" ELSE "Die"
    /\ exp' = m_exp[attacker]
    /\ UNCHANGED <<stats, flags, walk, level, login, attacks, history>>

Reward ==
    /\ pc = "Reward"
    /\ m_exp' = [m_exp EXCEPT ![attacker] = exp + m_level[npc] * m_level[npc] * 2]
    /\ settled' = settled \ {attacker}
    /\ pc' = "Compare"
    /\ UNCHANGED <<m_hp, m_level, flags, walk, reads, login, attacks, calm>>

(* The comparison reads GetExp() and GetLevel(), the compiler chooses      *)
(* which first.                                                            *)
CompareRead ==
    /\ pc = "Compare"
    /\ \/ exp' = m_exp[attacker] /\ pc' = "ExpRead" /\ level' = level
       \/ level' = m_level[attacker] /\ pc' = "LevelRead" /\ exp' = exp
    /\ calm' = TRUE
    /\ UNCHANGED <<stats, flags, walk, login, attacks, settled>>

(* A reward comes to its end: the avatar has what it is to have.           *)
Settle == settled' = IF calm THEN settled \cup {attacker} ELSE settled

Compare ==
    /\ \/ pc = "ExpRead" /\ level' = m_level[attacker] /\ exp' = exp
       \/ pc = "LevelRead" /\ exp' = m_exp[attacker] /\ level' = level
    /\ \/ Reaches(exp', level') /\ pc' = "LevelExp" /\ UNCHANGED settled
       \/ ~Reaches(exp', level') /\ pc' = "Die" /\ Settle
    /\ UNCHANGED <<stats, flags, walk, login, attacks, calm>>

(* Slip (ExpBelowNext): what is beyond the level's is kept. *)
SlipLevelExp ==
    /\ pc = "LevelExp"
    /\ m_exp' = [m_exp EXCEPT ![attacker] = @ - 100 * 2 ^ (m_level[attacker] - 1)]
    /\ pc' = "LevelHp"
    /\ UNCHANGED <<m_hp, m_level, flags, walk, reads, login, attacks, history>>

(* The level up: SetExp, SetHp, and SetLevel of GetLevel() and one.        *)
LevelExp ==
    /\ pc = "LevelExp"
    /\ m_exp' = [m_exp EXCEPT ![attacker] = 0]
    /\ pc' = "LevelHp"
    /\ UNCHANGED <<m_hp, m_level, flags, walk, reads, login, attacks, history>>

LevelHp ==
    /\ pc = "LevelHp"
    /\ m_hp' = [m_hp EXCEPT ![attacker] = 100]
    /\ pc' = "LevelUpRead"
    /\ UNCHANGED <<m_level, m_exp, flags, walk, reads, login, attacks, history>>

LevelUpRead ==
    /\ pc = "LevelUpRead"
    /\ level' = m_level[attacker]
    /\ pc' = "LevelUp"
    /\ UNCHANGED <<stats, flags, walk, exp, login, attacks, history>>

LevelUp ==
    /\ pc = "LevelUp"
    /\ m_level' = [m_level EXCEPT ![attacker] = level + 1]
    /\ pc' = "Die"
    /\ Settle
    /\ UNCHANGED <<m_hp, m_exp, flags, walk, reads, login, attacks, calm>>

Die ==
    /\ pc = "Die"
    /\ isAlive' = [isAlive EXCEPT ![npc] = FALSE]
    /\ isActive' = [isActive EXCEPT ![npc] = FALSE]
    /\ pc' = "Loop"
    /\ UNCHANGED <<stats, walk, reads, login, attacks, history>>

Update ==
    \/ Hit \/ AttackEnd \/ Survives \/ RewardRead \/ Reward
    \/ CompareRead \/ Compare \/ LevelExp \/ LevelHp \/ LevelUpRead \/ LevelUp \/ Die

Next ==
    \/ \E n \in Npcs : Wake(n)
    \/ \E c \in Clients : Login(c) \/ Attack(c)
    \/ Update

Spec == Init /\ [][Next]_vars

-----------------------------------------------------------------------------
TypeOK ==
    /\ m_hp \in [Objects -> Int] /\ m_level \in [Objects -> Int]
    /\ m_exp \in [Objects -> Int]
    /\ isAlive \in [Objects -> BOOLEAN] /\ isActive \in [Objects -> BOOLEAN]
    /\ attacker \in Clients /\ npc \in Objects /\ vl \subseteq Objects
    /\ exp \in Int /\ level \in Int /\ settled \subseteq Clients
    /\ pc \in {"Idle", "Loop", "Killed", "Reward", "Compare", "ExpRead", "LevelRead",
               "LevelExp", "LevelHp", "LevelUpRead", "LevelUp", "Die"}

(* A reward leaves the avatar with less experience than its level asks     *)
(* for, whatever its row had: at the end of the level up that is due, and  *)
(* on until the next reward or login. Logins may come in anywhere, of the  *)
(* attacker too; one that sets level or experience between the comparison  *)
(* and the end of the level up may leave more (and the avatar goes up with *)
(* its next reward).                                                       *)
ExpBelowNext == \A c \in settled : ~Reaches(m_exp[c], m_level[c])
=============================================================================
