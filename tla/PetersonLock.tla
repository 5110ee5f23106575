----------------------------- MODULE PetersonLock -----------------------------
(***************************************************************************)
(* The lock of sync_1.cpp: two threads add to sum under Peterson's         *)
(* algorithm, written with volatile variables and one fence. The build is  *)
(* for x86, where a store waits in the buffer of its core, in order, until *)
(* it reaches the memory, and a load may overtake the stores before it.    *)
(*                                                                         *)
(*   flags, v, sum   the memory                                            *)
(*   buf             per thread, the stores that have not reached memory:  *)
(*                   "sum" (sum = stored), "unlock" (flags = false),       *)
(*                   "lock" (flags = true), "turn" (v = t_id)              *)
(*   stored          per thread, the value last stored to sum; it is the   *)
(*                   register of the addition as well                      *)
(*   pc, done        per thread, its place in the loop, and the iterations *)
(*   printed         what main prints after the joins; -1 before           *)
(***************************************************************************)
EXTENDS Integers, Sequences

CONSTANT MAX        \* iterations of each thread (25'000'000 in the code)

ASSUME PetersonAssumption == MAX \in Nat

ThreadIds == {0, 1}

Other(t_id) == 1 - t_id

VARIABLES flags, v, sum, buf, stored, pc, done, printed

lockVars == <<flags, v, sum, buf, stored, pc, done, printed>>
memory == <<flags, v, sum>>

LockInit ==
    /\ flags = [t_id \in ThreadIds |-> FALSE]
    /\ v = 0
    /\ sum = 0
    /\ buf = [t_id \in ThreadIds |-> <<>>]
    /\ stored = [t_id \in ThreadIds |-> 0]
    /\ pc = [t_id \in ThreadIds |-> "begin"]
    /\ done = [t_id \in ThreadIds |-> 0]
    /\ printed = -1

-----------------------------------------------------------------------------
(* Slips, each of which breaks the properties named with it. *)

(* MutualExclusion: the fence is forgotten. *)
SlipFence(t_id) ==
    /\ pc[t_id] = "fence"
    /\ pc' = [pc EXCEPT ![t_id] = "readFlag"]
    /\ UNCHANGED <<memory, buf, stored, done, printed>>

(* SumIsExact: v is understood the wrong way round. *)
SlipReadTurn(t_id) ==
    /\ pc[t_id] = "readTurn"
    /\ pc' = [pc EXCEPT ![t_id] = IF v = t_id THEN "load" ELSE "readFlag"]
    /\ UNCHANGED <<memory, buf, stored, done, printed>>

(* EveryThreadFinishes: p_unlock is forgotten after the last iteration. *)
SlipUnlock(t_id) ==
    /\ pc[t_id] = "unlock"
    /\ buf' = IF done[t_id] + 1 = MAX
              THEN buf ELSE [buf EXCEPT ![t_id] = Append(@, "unlock")]
    /\ done' = [done EXCEPT ![t_id] = @ + 1]
    /\ pc' = [pc EXCEPT ![t_id] = "begin"]
    /\ UNCHANGED <<memory, stored, printed>>

-----------------------------------------------------------------------------
(* p_lock: flags[t_id] = true, then v = t_id, both into the buffer ... *)
StoreFlag(t_id) ==
    /\ pc[t_id] = "begin" /\ done[t_id] < MAX
    /\ buf' = [buf EXCEPT ![t_id] = Append(@, "lock")]
    /\ pc' = [pc EXCEPT ![t_id] = "turn"]
    /\ UNCHANGED <<memory, stored, done, printed>>

StoreTurn(t_id) ==
    /\ pc[t_id] = "turn"
    /\ buf' = [buf EXCEPT ![t_id] = Append(@, "turn")]
    /\ pc' = [pc EXCEPT ![t_id] = "fence"]
    /\ UNCHANGED <<memory, stored, done, printed>>

(* ... the fence waits until they are in memory ... *)
Fence(t_id) ==
    /\ pc[t_id] = "fence" /\ buf[t_id] = <<>>
    /\ pc' = [pc EXCEPT ![t_id] = "readFlag"]
    /\ UNCHANGED <<memory, buf, stored, done, printed>>

(* ... and the loop reads the flag of the other thread, then v. *)
ReadFlag(t_id) ==
    /\ pc[t_id] = "readFlag"
    /\ pc' = [pc EXCEPT ![t_id] = IF flags[Other(t_id)] THEN "readTurn" ELSE "load"]
    /\ UNCHANGED <<memory, buf, stored, done, printed>>

ReadTurn(t_id) ==
    /\ pc[t_id] = "readTurn"
    /\ pc' = [pc EXCEPT ![t_id] = IF v = t_id THEN "readFlag" ELSE "load"]
    /\ UNCHANGED <<memory, buf, stored, done, printed>>

(* sum += 2: a load, an addition and a store. The load reads the memory:   *)
(* the thread's own buffer is empty since the fence.                       *)
Load(t_id) ==
    /\ pc[t_id] = "load"
    /\ stored' = [stored EXCEPT ![t_id] = sum + 2]
    /\ pc' = [pc EXCEPT ![t_id] = "store"]
    /\ UNCHANGED <<memory, buf, done, printed>>

Store(t_id) ==
    /\ pc[t_id] = "store"
    /\ buf' = [buf EXCEPT ![t_id] = Append(@, "sum")]
    /\ pc' = [pc EXCEPT ![t_id] = "unlock"]
    /\ UNCHANGED <<memory, stored, done, printed>>

(* p_unlock, a store without a fence; then the next iteration. *)
Unlock(t_id) ==
    /\ pc[t_id] = "unlock"
    /\ buf' = [buf EXCEPT ![t_id] = Append(@, "unlock")]
    /\ done' = [done EXCEPT ![t_id] = @ + 1]
    /\ pc' = [pc EXCEPT ![t_id] = "begin"]
    /\ UNCHANGED <<memory, stored, printed>>

(* The oldest store in the buffer reaches the memory. *)
Drain(t_id) ==
    /\ buf[t_id] # <<>>
    /\ buf' = [buf EXCEPT ![t_id] = Tail(@)]
    /\ flags' = [flags EXCEPT ![t_id] = IF Head(buf[t_id]) = "lock" THEN TRUE
                                   ELSE IF Head(buf[t_id]) = "unlock" THEN FALSE
                                   ELSE @]
    /\ v' = IF Head(buf[t_id]) = "turn" THEN t_id ELSE v
    /\ sum' = IF Head(buf[t_id]) = "sum" THEN stored[t_id] ELSE sum
    /\ UNCHANGED <<stored, pc, done, printed>>

(* main: both threads have returned, which drains their buffers. *)
Join ==
    /\ printed = -1
    /\ \A t_id \in ThreadIds :
          pc[t_id] = "begin" /\ done[t_id] = MAX /\ buf[t_id] = <<>>
    /\ printed' = sum
    /\ UNCHANGED <<memory, buf, stored, pc, done>>

Lock(t_id) == StoreFlag(t_id) \/ StoreTurn(t_id) \/ Fence(t_id)
                \/ ReadFlag(t_id) \/ ReadTurn(t_id)
Body(t_id) == Load(t_id) \/ Store(t_id) \/ Unlock(t_id)

LockNext == (\E t_id \in ThreadIds : Lock(t_id) \/ Body(t_id) \/ Drain(t_id)) \/ Join

LockSpec == LockInit /\ [][LockNext]_lockVars

(* Both threads keep running and a store does not stay in a buffer.        *)
LockFairness ==
    /\ \A t_id \in ThreadIds : /\ WF_lockVars(Lock(t_id) \/ Body(t_id))
                               /\ WF_lockVars(Drain(t_id))
    /\ WF_lockVars(Join)

LockFairSpec == LockSpec /\ LockFairness

-----------------------------------------------------------------------------
LockTypeOK ==
    /\ flags \in [ThreadIds -> BOOLEAN]
    /\ v \in ThreadIds
    /\ sum \in Nat
    /\ buf \in [ThreadIds -> Seq({"sum", "unlock", "lock", "turn"})]
    /\ stored \in [ThreadIds -> Nat]
    /\ pc \in [ThreadIds -> {"begin", "turn", "fence", "readFlag", "readTurn",
                             "load", "store", "unlock"}]
    /\ done \in [ThreadIds -> 0..MAX]
    /\ printed \in Nat \cup {-1}

(* A thread works on sum between p_lock and p_unlock, or its addition is   *)
(* still in its buffer, where the other thread cannot see it.              *)
Working(t_id) ==
    \/ pc[t_id] \in {"load", "store", "unlock"}
    \/ \E i \in 1..Len(buf[t_id]) : buf[t_id][i] = "sum"

(* p_lock excludes: the two threads never work on sum at the same time,    *)
(* stores in flight included, although p_unlock has no fence.              *)
MutualExclusion == ~(Working(0) /\ Working(1))

(* No addition is lost: what main prints is 2 for each iteration.          *)
SumIsExact == printed # -1 => printed = 4 * MAX

(* A store buffer of four entries is enough: the fence empties it before   *)
(* every critical section.                                                 *)
BufferBound == \A t_id \in ThreadIds : Len(buf[t_id]) <= 4

(* Neither thread starves in p_lock: both come to their end and main       *)
(* prints.                                                                 *)
EveryThreadFinishes == <>(printed # -1)
=============================================================================
