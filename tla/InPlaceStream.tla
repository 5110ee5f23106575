----------------------------- MODULE InPlaceStream -----------------------------
(***************************************************************************)
(* OP_RECV of the lecture servers, which put packets together in the very  *)
(* buffer they are received into: a WSARecv writes behind the m_prev_size  *)
(* bytes that are there, the loop hands on the packets that are complete,  *)
(* and a memcpy brings the rest to the front.                              *)
(*                                                                         *)
(* As in PacketStream a byte is its position in the stream, and packet i   *)
(* is the bytes Start[i] .. Start[i+1]-1, the first of which is its size.  *)
(*                                                                         *)
(*   received      how many bytes have arrived                             *)
(*   iobuf         the buffer; -1 is a byte never written                  *)
(*   m_prev_size   bytes kept at its front                                 *)
(*   packet_ptr, num_data   the locals of the loop                         *)
(*   packets       what process_packet has been called with                *)
(***************************************************************************)
EXTENDS Integers, Sequences

CONSTANTS N, Start, MAX_BUFFER,
          Other         \* what a byte that is not a packet's first holds

(* A client logs in first, with its longest packet, and then moves: no     *)
(* packet is longer than the one before.                                   *)
InPlaceAssumption ==
    /\ N \in Nat /\ Other \in Nat
    /\ MAX_BUFFER \in Nat \ {0}
    /\ Start \in [1..(N + 1) -> Nat]
    /\ Start[1] = 0
    /\ \A i \in 1..N : Start[i + 1] - Start[i] \in 1..(MAX_BUFFER - 1)
    /\ \A i, j \in 1..(N + 1) : i < j => Start[i] < Start[j]
    /\ \A i, j \in 1..N : i < j => Start[j + 1] - Start[j] <= Start[i + 1] - Start[i]

VARIABLES pc, received, iobuf, m_prev_size, packet_ptr, num_data, packets

vars == <<pc, received, iobuf, m_prev_size, packet_ptr, num_data, packets>>

Offsets == 0..(MAX_BUFFER - 1)

Init ==
    /\ pc = "recv"
    /\ received = 0
    /\ iobuf = [k \in Offsets |-> -1]
    /\ m_prev_size = 0
    /\ packet_ptr = 0
    /\ num_data = 0
    /\ packets = <<>>

(* The value of the byte at an offset of the buffer. *)
Byte(k) ==
    IF \E i \in 1..N : Start[i] = iobuf[k]
    THEN LET i == CHOOSE i \in 1..N : Start[i] = iobuf[k]
         IN  Start[i + 1] - Start[i]
    ELSE Other

-----------------------------------------------------------------------------
(* Slip (LectureReassembled): the receive does not leave the bytes that    *)
(* are kept alone.                                                         *)
SlipReceive(n) ==
    /\ pc = "recv"
    /\ n <= MAX_BUFFER - m_prev_size /\ received + n <= Start[N + 1]
    /\ iobuf' = [k \in Offsets |-> IF k < n THEN received + k ELSE iobuf[k]]
    /\ received' = received + n
    /\ num_data' = n + m_prev_size
    /\ packet_ptr' = 0
    /\ pc' = "loop"
    /\ UNCHANGED <<m_prev_size, packets>>

(* do_recv and its completion, with n bytes behind those that are kept. *)
Receive(n) ==
    /\ pc = "recv"
    /\ n <= MAX_BUFFER - m_prev_size /\ received + n <= Start[N + 1]
    /\ iobuf' = [k \in Offsets |-> IF k \in m_prev_size..(m_prev_size + n - 1)
                                   THEN received + (k - m_prev_size) ELSE iobuf[k]]
    /\ received' = received + n
    /\ num_data' = n + m_prev_size
    /\ packet_ptr' = 0
    /\ pc' = "loop"
    /\ UNCHANGED <<m_prev_size, packets>>

(* The packet at packet_ptr is complete. *)
Complete == num_data > 0 /\ num_data >= Byte(packet_ptr)

ProcessPacket ==
    /\ pc = "loop" /\ Complete
    /\ packets' = Append(packets,
                         [k \in 0..(Byte(packet_ptr) - 1) |-> iobuf[packet_ptr + k]])
    /\ num_data' = num_data - Byte(packet_ptr)
    /\ packet_ptr' = packet_ptr + Byte(packet_ptr)
    /\ UNCHANGED <<pc, received, iobuf, m_prev_size>>

(* The rest is copied to the front, and the next receive posted. *)
KeepRest ==
    /\ pc = "loop" /\ ~Complete
    /\ m_prev_size' = num_data
    /\ iobuf' = [k \in Offsets |-> IF k < num_data THEN iobuf[packet_ptr + k] ELSE iobuf[k]]
    /\ pc' = "recv"
    /\ UNCHANGED <<received, packet_ptr, num_data, packets>>

Recv == \E n \in 1..MAX_BUFFER : Receive(n)
Loop == ProcessPacket \/ KeepRest

Next == Recv \/ Loop

Spec == Init /\ [][Next]_vars

-----------------------------------------------------------------------------
TypeOK ==
    /\ pc \in {"recv", "loop"}
    /\ received \in 0..Start[N + 1]
    /\ iobuf \in [Offsets -> -1..(Start[N + 1] - 1)]
    /\ m_prev_size \in Offsets
    /\ num_data \in 0..MAX_BUFFER
    /\ packet_ptr \in 0..MAX_BUFFER
    /\ packet_ptr + num_data <= MAX_BUFFER
    /\ Len(packets) <= N

Packet(i) == [k \in 0..(Start[i + 1] - Start[i] - 1) |-> Start[i] + k]

(* However the stream is cut, process_packet gets the packets that were    *)
(* sent, whole and in order.                                               *)
Reassembled == \A i \in 1..Len(packets) : packets[i] = Packet(i)

(* When the next receive is posted no complete packet is left in the       *)
(* buffer, and there is room in it.                                        *)
NothingLeftBehind ==
    pc = "recv" =>
        /\ m_prev_size < MAX_BUFFER
        /\ \A i \in 1..N : Start[i + 1] <= received => i <= Len(packets)

(* The memcpy of the rest is between places that do not overlap (or are    *)
(* the same): it is undefined otherwise, and a longer packet behind a      *)
(* shorter one would make it so.                                           *)
CopyIsApart ==
    pc = "loop" /\ ~Complete => packet_ptr = 0 \/ num_data <= packet_ptr

(* The lecture servers, too, hand on the packets that were sent, whole, in *)
(* order and as soon as they are there, however the stream is cut, and     *)
(* never copy the rest of a packet over itself.                            *)
LectureReassembled == TypeOK /\ Reassembled /\ NothingLeftBehind /\ CopyIsApart
=============================================================================
