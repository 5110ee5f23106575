----------------------------- MODULE PacketStream -----------------------------
(***************************************************************************)
(* EV_RECV in WorkerThread::ProcThread: TCP delivers the packets of a      *)
(* client cut at any place; the loop over a completed WSARecv puts them    *)
(* together again, from the bytes kept in CLIENT::packet_buf and those in  *)
(* net_buf, and gives each one to ProcPacket.                              *)
(*                                                                         *)
(* A byte is known by its position in the client's stream. Packet i is     *)
(* the bytes Start[i] .. Start[i+1]-1, and its first byte holds its size.  *)
(*                                                                         *)
(*   received     how many bytes of the stream have arrived                *)
(*   buf          the position of the byte that the pointer buf points at  *)
(*   num_byte, psize, pr_size   the locals of the loop                     *)
(*   curr_packet_size, prev_packet_data, packet_buf   kept in CLIENT       *)
(*   packets      what ProcPacket has been called with                     *)
(***************************************************************************)
EXTENDS Integers, Sequences

CONSTANTS
    N,           \* how many packets the client sends
    Start,       \* where each begins in its stream, Start[N+1] being the end
    MAX_BUFFER,  \* the size of net_buf and packet_buf
    Other        \* what a byte that is not the first of its packet holds

ASSUME PacketStreamAssumption ==
    /\ N \in Nat
    /\ MAX_BUFFER \in 1..255
    /\ Start \in [1..(N + 1) -> Nat]
    /\ Start[1] = 0
    /\ \A i \in 1..N : Start[i + 1] - Start[i] \in 1..MAX_BUFFER
    /\ \A i, j \in 1..(N + 1) : i < j => Start[i] < Start[j]
    /\ Other \in Nat

VARIABLES pc, received, buf, num_byte, psize, pr_size,
          curr_packet_size, prev_packet_data, packet_buf, packets

locals == <<buf, num_byte, psize, pr_size>>
client == <<curr_packet_size, prev_packet_data>>
vars   == <<pc, received, buf, num_byte, psize, pr_size,
            curr_packet_size, prev_packet_data, packet_buf, packets>>

Init ==
    /\ pc = "recv"
    /\ received = 0
    /\ buf = 0 /\ num_byte = 0 /\ psize = 0 /\ pr_size = 0
    /\ curr_packet_size = 0
    /\ prev_packet_data = 0
    /\ packet_buf = [k \in 0..(MAX_BUFFER - 1) |-> -1]
    /\ packets = <<>>

(* The value of the byte at a position of the stream. *)
Byte(pos) ==
    IF \E i \in 1..N : Start[i] = pos
    THEN LET i == CHOOSE i \in 1..N : Start[i] = pos
         IN Start[i + 1] - Start[i]
    ELSE Other

(* if (psize == 0) psize = (BYTE)buf[0]; *)
Size == IF psize = 0 THEN Byte(buf) ELSE psize

-----------------------------------------------------------------------------
(* Slips, each of which breaks the property named with it. *)

(* Reassembled: buf goes on by a whole packet, kept bytes or not. *)
SlipTakePacket ==
    /\ pc = "loop" /\ num_byte > 0
    /\ num_byte + pr_size >= Size
    /\ packets' = Append(packets,
         [k \in 0..(Size - 1) |->
            IF k < pr_size THEN packet_buf[k] ELSE buf + (k - pr_size)])
    /\ num_byte' = num_byte - (Size - pr_size)
    /\ buf' = buf + Size
    /\ psize' = 0 /\ pr_size' = 0
    /\ UNCHANGED <<pc, received, client, packet_buf>>

(* NothingLeftBehind: the loop is left after the first packet. *)
SlipRearm ==
    /\ pc = "loop" /\ (num_byte = 0 \/ (psize = 0 /\ buf > 0))
    /\ curr_packet_size' = psize
    /\ prev_packet_data' = pr_size
    /\ pc' = "recv"
    /\ UNCHANGED <<received, locals, packet_buf, packets>>

(* BufferFits: bytes are kept even of a packet that is complete. *)
SlipKeepRest ==
    /\ pc = "loop" /\ num_byte > 0
    /\ psize' = Size
    /\ packet_buf' = [k \in 0..(MAX_BUFFER - 1) |->
         IF k \in pr_size..(pr_size + num_byte - 1)
         THEN buf + (k - pr_size) ELSE packet_buf[k]]
    /\ pr_size' = pr_size + num_byte
    /\ num_byte' = 0
    /\ UNCHANGED <<pc, received, buf, client, packets>>

-----------------------------------------------------------------------------
(* A WSARecv completes with n bytes. *)
Receive(n) ==
    /\ pc = "recv"
    /\ received + n <= Start[N + 1]
    /\ buf' = received
    /\ received' = received + n
    /\ num_byte' = n
    /\ psize' = curr_packet_size
    /\ pr_size' = prev_packet_data
    /\ pc' = "loop"
    /\ UNCHANGED <<client, packet_buf, packets>>

(* The packet is complete: what was kept and what has come, to ProcPacket. *)
TakePacket ==
    /\ pc = "loop" /\ num_byte > 0
    /\ num_byte + pr_size >= Size
    /\ packets' = Append(packets,
         [k \in 0..(Size - 1) |->
            IF k < pr_size THEN packet_buf[k] ELSE buf + (k - pr_size)])
    /\ num_byte' = num_byte - (Size - pr_size)
    /\ buf' = buf + (Size - pr_size)
    /\ psize' = 0 /\ pr_size' = 0
    /\ UNCHANGED <<pc, received, client, packet_buf>>

(* It is not: the bytes that have come are kept. *)
KeepRest ==
    /\ pc = "loop" /\ num_byte > 0
    /\ num_byte + pr_size < Size
    /\ psize' = Size
    /\ packet_buf' = [k \in 0..(MAX_BUFFER - 1) |->
         IF k \in pr_size..(pr_size + num_byte - 1)
         THEN buf + (k - pr_size) ELSE packet_buf[k]]
    /\ pr_size' = pr_size + num_byte
    /\ num_byte' = 0
    /\ UNCHANGED <<pc, received, buf, client, packets>>

(* The loop is done: the next WSARecv. *)
Rearm ==
    /\ pc = "loop" /\ num_byte = 0
    /\ curr_packet_size' = psize
    /\ prev_packet_data' = pr_size
    /\ pc' = "recv"
    /\ UNCHANGED <<received, locals, packet_buf, packets>>

Recv == \E n \in 1..MAX_BUFFER : Receive(n)
Loop == TakePacket \/ KeepRest \/ Rearm
Next == Recv \/ Loop

Spec == Init /\ [][Next]_vars

-----------------------------------------------------------------------------
Bytes == [0..(MAX_BUFFER - 1) -> Int]

TypeOK ==
    /\ pc \in {"recv", "loop"}
    /\ received \in 0..Start[N + 1]
    /\ buf \in 0..received
    /\ num_byte \in 0..MAX_BUFFER
    /\ psize \in 0..MAX_BUFFER
    /\ pr_size \in 0..MAX_BUFFER
    /\ curr_packet_size \in 0..MAX_BUFFER
    /\ prev_packet_data \in 0..MAX_BUFFER
    /\ packet_buf \in Bytes
    /\ Len(packets) <= N

(* The bytes of packet i. *)
Packet(i) == [k \in 0..(Start[i + 1] - Start[i] - 1) |-> Start[i] + k]

(* However the stream is cut, ProcPacket gets the packets that were sent,  *)
(* whole and in order.                                                     *)
Reassembled == \A i \in 1..Len(packets) : packets[i] = Packet(i)

(* The memcpy into packet_buf + pr_size never runs over its end: what is   *)
(* kept is less than a packet.                                             *)
BufferFits == pr_size < MAX_BUFFER /\ (psize > 0 => pr_size < psize)

(* When the next WSARecv is posted, every packet that has arrived whole    *)
(* has been handled: nothing waits in the buffer for the bytes of another. *)
NothingLeftBehind ==
    pc = "recv" =>
      \A i \in 1..N : Start[i + 1] <= received => i <= Len(packets)
=============================================================================
