------------------------------ MODULE StreamProofs ------------------------------
(***************************************************************************)
(* The two receive loops. First PacketStream, for every sequence of        *)
(* packets, every way the stream is cut, and every size of the buffers.    *)
(*                                                                         *)
(* Reassembled is not inductive: it says nothing of the bytes that wait in *)
(* packet_buf. IInv adds what they are (the first pr_size bytes of the     *)
(* next packet) and that the size in psize is that packet's.               *)
(***************************************************************************)
EXTENDS Streams, TLAPS

(* Where the packet begins that is handled next. *)
NextStart == Start[Len(packets) + 1]

(* What ProcPacket can be called with. *)
Pieces == UNION {[0..(n - 1) -> Int] : n \in 1..MAX_BUFFER}

TypeInv ==
    /\ pc \in {"recv", "loop"}
    /\ received \in Nat
    /\ buf \in Nat
    /\ num_byte \in 0..MAX_BUFFER
    /\ psize \in 0..MAX_BUFFER
    /\ pr_size \in 0..MAX_BUFFER
    /\ curr_packet_size \in 0..MAX_BUFFER
    /\ prev_packet_data \in 0..MAX_BUFFER
    /\ packet_buf \in Bytes
    /\ packets \in Seq(Pieces)
    /\ Len(packets) <= N

(* The bytes kept and the bytes left are those that have arrived since the *)
(* next packet began; buf stands between the two while some are left.      *)
Place ==
    /\ received = NextStart + pr_size + num_byte
    /\ received <= Start[N + 1]
    /\ buf <= received
    /\ num_byte > 0 => buf = NextStart + pr_size

(* What is kept belongs to the next packet, and is not all of it. *)
Kept ==
    /\ psize = 0 => pr_size = 0
    /\ psize # 0 => /\ Len(packets) < N
                    /\ psize = Start[Len(packets) + 2] - NextStart
                    /\ pr_size < psize
    /\ \A k \in 0..(pr_size - 1) : packet_buf[k] = NextStart + k

(* Between two WSARecvs the locals live on in CLIENT. *)
Saved ==
    pc = "recv" => /\ num_byte = 0
                   /\ curr_packet_size = psize
                   /\ prev_packet_data = pr_size

IInv == TypeInv /\ Place /\ Kept /\ Saved /\ Reassembled

-----------------------------------------------------------------------------
(* Packets begin in order. *)
LEMMA Ordered ==
    ASSUME NEW i \in 1..(N + 1), NEW j \in 1..(N + 1), i < j
    PROVE  Start[i] \in Nat /\ Start[j] \in Nat /\ Start[i] < Start[j]
  BY PacketStreamAssumption

(* The numbers among the variables. *)
LEMMA Numbers ==
    ASSUME IInv
    PROVE  /\ N \in Nat /\ MAX_BUFFER \in Nat
           /\ Len(packets) \in Nat /\ Len(packets) <= N
           /\ NextStart \in Nat /\ Start[N + 1] \in Nat
           /\ received \in Nat /\ buf \in Nat /\ num_byte \in Nat
           /\ pr_size \in Nat /\ psize \in Nat
           /\ num_byte <= MAX_BUFFER /\ pr_size <= MAX_BUFFER
<1>1. Len(packets) \in Nat /\ Len(packets) <= N
  BY DEF IInv, TypeInv
<1>2. N \in Nat /\ MAX_BUFFER \in Nat /\ Start \in [1..(N + 1) -> Nat]
  BY PacketStreamAssumption
<1>3. Len(packets) + 1 \in 1..(N + 1) /\ N + 1 \in 1..(N + 1)
  BY <1>1, <1>2
<1>4. NextStart \in Nat /\ Start[N + 1] \in Nat
  BY <1>2, <1>3 DEF NextStart
<1>5. /\ received \in Nat /\ buf \in Nat /\ num_byte \in 0..MAX_BUFFER
      /\ pr_size \in 0..MAX_BUFFER /\ psize \in 0..MAX_BUFFER
  BY DEF IInv, TypeInv
<1> QED
  BY <1>1, <1>2, <1>4, <1>5

(* The byte at the start of a packet holds its size. *)
LEMMA FirstByte ==
    ASSUME NEW i \in 1..N
    PROVE  Byte(Start[i]) = Start[i + 1] - Start[i]
<1> DEFINE j == CHOOSE j \in 1..N : Start[j] = Start[i]
<1>1. j \in 1..N /\ Start[j] = Start[i]
  OBVIOUS
<1> HIDE DEF j
<1>2. j = i
  <2>1. j \in 1..(N + 1) /\ i \in 1..(N + 1)
    BY <1>1, PacketStreamAssumption
  <2>2. ~(j < i) /\ ~(i < j)
    BY SMTT(60), <1>1, <2>1, PacketStreamAssumption
  <2> QED
    BY <2>1, <2>2, PacketStreamAssumption
<1> QED
  BY <1>2 DEF Byte, j

(* When bytes are left, Size is the size of the next packet. *)
LEMMA SizeOfNext ==
    ASSUME IInv, num_byte > 0
    PROVE  /\ Len(packets) < N
           /\ Size = Start[Len(packets) + 2] - NextStart
           /\ Size \in 1..MAX_BUFFER
           /\ pr_size < Size
<1> USE PacketStreamAssumption
<1>1. Len(packets) \in 0..N
  BY DEF IInv, TypeInv
<1>2. Len(packets) < N
  <2>1. SUFFICES ASSUME Len(packets) = N PROVE FALSE
    BY <1>1
  <2> QED
    BY <1>1, <2>1 DEF IInv, TypeInv, Place, NextStart
<1>3. Len(packets) + 1 \in 1..N
  BY <1>1, <1>2
<1>4. Start[Len(packets) + 1 + 1] - Start[Len(packets) + 1] \in 1..MAX_BUFFER
  BY <1>3
<1>5. Len(packets) + 1 + 1 = Len(packets) + 2
  BY <1>1
<1>6. CASE psize = 0
  <2>1. pr_size = 0 /\ buf = Start[Len(packets) + 1]
    BY <1>1, <1>6 DEF IInv, TypeInv, Place, Kept, NextStart
  <2>2. Size = Start[Len(packets) + 1 + 1] - Start[Len(packets) + 1]
    BY <1>3, <1>6, <2>1, FirstByte DEF Size
  <2> QED
    BY <1>2, <1>4, <1>5, <2>1, <2>2 DEF NextStart
<1>7. CASE psize # 0
  BY <1>2, <1>4, <1>5, <1>7 DEF Size, IInv, Kept, NextStart
<1> QED
  BY <1>6, <1>7

LEMMA InitIInv == Init => IInv
<1> SUFFICES ASSUME Init PROVE IInv
  OBVIOUS
<1> USE PacketStreamAssumption
<1>1. TypeInv /\ Saved
  BY DEF Init, TypeInv, Saved, Bytes
<1>2. 0 <= Start[N + 1]
  OBVIOUS
<1> QED
  BY <1>1, <1>2 DEF Init, IInv, Place, Kept, Reassembled, NextStart

LEMMA ReceiveIInv ==
    ASSUME IInv, NEW n \in 1..MAX_BUFFER, Receive(n)
    PROVE  IInv'
<1>1. TypeInv'
  <2>1. n \in 0..MAX_BUFFER /\ n \in Nat
    BY PacketStreamAssumption
  <2> QED
    BY <2>1 DEF Receive, client, IInv, TypeInv
<1>2. /\ psize' = psize /\ pr_size' = pr_size /\ num_byte = 0
      /\ num_byte' = n /\ buf' = received /\ received' = received + n
      /\ received + n <= Start[N + 1]
      /\ packets' = packets /\ packet_buf' = packet_buf /\ pc' = "loop"
      /\ NextStart' = NextStart
  BY DEF Receive, client, IInv, Saved, NextStart
<1>3. Place'
  <2>1. n \in Nat
    BY PacketStreamAssumption
  <2>2. received = NextStart + pr_size
    BY <1>2, Numbers DEF IInv, Place
  <2> QED
    BY <1>2, <2>1, <2>2, Numbers DEF Place
<1>4. Kept' /\ Saved' /\ Reassembled'
  BY <1>2 DEF IInv, Kept, Saved, Reassembled, Packet
<1> QED
  BY <1>1, <1>3, <1>4 DEF IInv

LEMMA TakePacketIInv ==
    ASSUME IInv, TakePacket
    PROVE  IInv'
<1> DEFINE n == Len(packets)
           piece == [k \in 0..(Size - 1) |->
                       IF k < pr_size THEN packet_buf[k] ELSE buf + (k - pr_size)]
<1>1. /\ n < N
      /\ Size = Start[n + 2] - NextStart
      /\ Size \in 1..MAX_BUFFER
      /\ pr_size < Size
  BY SizeOfNext DEF TakePacket
<1>0. /\ N \in Nat /\ MAX_BUFFER \in Nat /\ Size \in Nat
      /\ received \in Nat /\ buf \in Nat
      /\ num_byte \in Nat /\ num_byte <= MAX_BUFFER
      /\ pr_size \in Nat /\ NextStart \in Nat
      /\ num_byte + pr_size >= Size /\ pr_size < Size
  BY SMTT(60), <1>1, Numbers DEF TakePacket
<1>2. n = Len(packets) /\ n \in Nat /\ packets \in Seq(Pieces) /\ NextStart \in Nat
  BY <1>1, Numbers DEF IInv, TypeInv
<1>3. piece = [k \in 0..(Size - 1) |-> NextStart + k]
  <2> SUFFICES ASSUME NEW k \in 0..(Size - 1)
               PROVE  piece[k] = NextStart + k
    OBVIOUS
  <2>1. CASE k < pr_size
    <3>1. k \in 0..(pr_size - 1)
      BY <1>1, <2>1 DEF IInv, TypeInv
    <3> QED
      BY <2>1, <3>1 DEF IInv, Kept
  <2>2. CASE ~(k < pr_size)
    <3>1. k \in Nat /\ pr_size \in Nat
      BY <1>1 DEF IInv, TypeInv
    <3>2. buf = NextStart + pr_size
      BY DEF TakePacket, IInv, Place
    <3> QED
      BY <1>2, <2>2, <3>1, <3>2
  <2> QED
    BY <2>1, <2>2
<1>4. piece = Packet(n + 1) /\ piece \in Pieces
  <2> HIDE DEF piece
  <2>1. n + 1 + 1 = n + 2
    BY <1>2
  <2>2. Packet(n + 1) = [k \in 0..(Size - 1) |-> NextStart + k]
    BY <1>1, <2>1 DEF Packet, NextStart
  <2>3. piece \in [0..(Size - 1) -> Int]
    BY <1>1, <1>2, <1>3
  <2> QED
    BY <1>1, <1>3, <2>2, <2>3 DEF Pieces
<1>5. packets' = Append(packets, piece)
  BY DEF TakePacket
<1> HIDE DEF piece, n
<1>6. packets' \in Seq(Pieces) /\ Len(packets') = n + 1
  BY <1>2, <1>4, <1>5
<1>7. /\ num_byte' = num_byte - (Size - pr_size)
      /\ buf' = buf + (Size - pr_size)
      /\ psize' = 0 /\ pr_size' = 0
      /\ pc = "loop" /\ pc' = pc /\ received' = received
      /\ curr_packet_size' = curr_packet_size
      /\ prev_packet_data' = prev_packet_data
      /\ packet_buf' = packet_buf
      /\ num_byte + pr_size >= Size
  BY DEF TakePacket, client
<1>8. TypeInv'
  <2>1. Size - pr_size \in Nat /\ num_byte - (Size - pr_size) \in 0..MAX_BUFFER
    <3>1. Size \in Nat /\ pr_size < Size /\ Size <= num_byte + pr_size
      BY <1>0
    <3> QED
      BY <3>1, <1>0
  <2>2. buf' \in Nat /\ num_byte' \in 0..MAX_BUFFER
    BY <1>0, <1>7, <2>1
  <2>3. 0 \in 0..MAX_BUFFER /\ n + 1 <= N
    BY <1>0, <1>1, <1>2
  <2> QED
    BY <1>6, <1>7, <2>2, <2>3 DEF IInv, TypeInv
<1>9. Start[n + 1 + 1] = Start[n + 2]
  <2>1. n + 1 + 1 = n + 2
    BY <1>2
  <2> QED
    BY <2>1
<1>10. NextStart' = NextStart + Size
  <2>1. NextStart' = Start[n + 2]
    BY <1>6, <1>9 DEF NextStart
  <2>2. Start[n + 2] \in Nat /\ NextStart \in Nat
    <3>1. n + 2 \in 1..(N + 1)
      BY <1>0, <1>1, <1>2
    <3> QED
      BY <1>0, <3>1, PacketStreamAssumption
  <2> QED
    BY <1>0, <1>1, <2>1, <2>2
<1>11. Place'
  <2>1. buf = NextStart + pr_size
    BY DEF TakePacket, IInv, Place
  <2>2. received = NextStart + pr_size + num_byte /\ received <= Start[N + 1]
    BY DEF IInv, Place
  <2>4. buf' = NextStart' + pr_size' /\ buf' \in Nat /\ num_byte' \in Int
    BY <1>0, <1>7, <1>10, <2>1
  <2>5. received' = NextStart' + pr_size' + num_byte'
    BY <1>0, <1>7, <1>10, <2>2
  <2>6. buf' <= received'
    BY <1>0, <1>7, <1>10, <2>2, <2>4
  <2> QED
    BY <1>7, <2>2, <2>4, <2>5, <2>6 DEF Place
<1>12. Kept' /\ Saved'
  BY <1>7 DEF Kept, Saved
<1>13. Reassembled'
  <2> SUFFICES ASSUME NEW i \in 1..(n + 1)
               PROVE  packets'[i] = Packet(i)
    BY <1>6 DEF Reassembled, Packet
  <2>1. CASE i = n + 1
    BY <1>2, <1>4, <1>5, <2>1
  <2>2. CASE i # n + 1
    BY <1>2, <1>4, <1>5, <2>2 DEF IInv, Reassembled
  <2> QED
    BY <2>1, <2>2
<1> QED
  BY <1>8, <1>11, <1>12, <1>13 DEF IInv

LEMMA KeepRestIInv ==
    ASSUME IInv, KeepRest
    PROVE  IInv'
<1> USE PacketStreamAssumption
<1>1. /\ Len(packets) < N
      /\ Size = Start[Len(packets) + 2] - NextStart
      /\ Size \in 1..MAX_BUFFER
      /\ pr_size < Size
  BY SizeOfNext DEF KeepRest
<1>2. NextStart \in Nat
  BY <1>1 DEF IInv, TypeInv, NextStart
<1>3. /\ psize' = Size /\ pr_size' = pr_size + num_byte /\ num_byte' = 0
      /\ pr_size' < Size
      /\ packets' = packets /\ pc' = pc /\ pc = "loop"
      /\ received' = received /\ buf' = buf
      /\ curr_packet_size' = curr_packet_size
      /\ prev_packet_data' = prev_packet_data
      /\ NextStart' = NextStart
  <2>1. num_byte + pr_size < Size /\ num_byte \in Nat /\ pr_size \in Nat
    BY DEF KeepRest, IInv, TypeInv
  <2>2. num_byte + pr_size = pr_size + num_byte
    BY <2>1
  <2> QED
    BY <2>1, <2>2 DEF KeepRest, client, NextStart
<1>4. packet_buf' \in Bytes
  BY DEF KeepRest, IInv, TypeInv, Bytes
<1>5. TypeInv'
  BY SMTT(60), <1>1, <1>3, <1>4 DEF IInv, TypeInv
<1>6. Place'
  BY <1>2, <1>3 DEF IInv, TypeInv, Place
<1>7. Kept'
  <2>1. psize' # 0 /\ Len(packets') < N
    BY <1>1, <1>3
  <2>2. psize' = Start[Len(packets') + 2] - NextStart'
    BY <1>1, <1>3
  <2>3. ASSUME NEW k \in 0..(pr_size' - 1)
        PROVE  packet_buf'[k] = NextStart' + k
    <3>1. k \in 0..(MAX_BUFFER - 1) /\ pr_size \in Nat /\ num_byte \in Nat
      BY SMTT(60), <1>1, <1>3 DEF IInv, TypeInv
    <3>2. CASE k \in pr_size..(pr_size + num_byte - 1)
      <4>1. packet_buf'[k] = buf + (k - pr_size)
        BY <3>1, <3>2 DEF KeepRest
      <4>2. buf = NextStart + pr_size
        BY DEF KeepRest, IInv, Place
      <4>3. k - pr_size \in Int /\ k \in Int
        BY <3>1
      <4> QED
        BY <1>2, <1>3, <3>1, <4>1, <4>2, <4>3
    <3>3. CASE k \notin pr_size..(pr_size + num_byte - 1)
      <4>1. packet_buf'[k] = packet_buf[k]
        BY <3>1, <3>3 DEF KeepRest
      <4>2. k \in 0..(pr_size - 1)
        BY <1>3, <3>1, <3>3
      <4> QED
        BY <1>3, <4>1, <4>2 DEF IInv, Kept
    <3> QED
      BY <3>2, <3>3
  <2> QED
    BY <1>3, <2>1, <2>2, <2>3 DEF Kept
<1>8. Saved' /\ Reassembled'
  BY <1>3 DEF IInv, Saved, Reassembled, Packet
<1> QED
  BY <1>5, <1>6, <1>7, <1>8 DEF IInv

LEMMA RearmIInv ==
    ASSUME IInv, Rearm
    PROVE  IInv'
<1>1. TypeInv'
  BY DEF Rearm, locals, IInv, TypeInv
<1>2. Place' /\ Kept' /\ Saved' /\ Reassembled'
  BY DEF Rearm, locals, IInv, TypeInv, Place, Kept, Saved, Reassembled,
         Packet, NextStart
<1> QED
  BY <1>1, <1>2 DEF IInv

LEMMA NextIInv == IInv /\ [Next]_vars => IInv'
<1> SUFFICES ASSUME IInv, [Next]_vars PROVE IInv'
  OBVIOUS
<1>1. CASE Recv
  BY <1>1, ReceiveIInv DEF Recv
<1>2. CASE TakePacket
  BY <1>2, TakePacketIInv
<1>3. CASE KeepRest
  BY <1>3, KeepRestIInv
<1>4. CASE Rearm
  BY <1>4, RearmIInv
<1>5. CASE UNCHANGED vars
  BY <1>5 DEF vars, IInv, TypeInv, Place, Kept, Saved, Reassembled,
              Packet, NextStart
<1> QED
  BY <1>1, <1>2, <1>3, <1>4, <1>5 DEF Next, Loop

LEMMA Invariant == Spec => []IInv
<1> QED
  BY InitIInv, NextIInv, PTL DEF Spec

-----------------------------------------------------------------------------
(* The locals of the loop and the fields of CLIENT keep their ranges, for  *)
(* every stream of packets.                                                *)
THEOREM TypeCorrect == Spec => []TypeOK
<1>1. IInv => TypeOK
  <2> SUFFICES ASSUME IInv PROVE TypeOK
    OBVIOUS
  <2>1. received \in 0..Start[N + 1] /\ buf \in 0..received
    BY PacketStreamAssumption DEF IInv, TypeInv, Place
  <2> QED
    BY <2>1 DEF IInv, TypeInv, TypeOK
<1> QED
  BY <1>1, Invariant, PTL

(* ProcPacket is called with the packets the client sent, whole and in     *)
(* order, wherever TCP cuts the stream.                                    *)
THEOREM PacketsReassembled == Spec => []Reassembled
<1>1. IInv => Reassembled
  BY DEF IInv
<1> QED
  BY <1>1, Invariant, PTL

(* The copy into packet_buf stays within it. *)
THEOREM NoOverrun == Spec => []BufferFits
<1>1. IInv => BufferFits
  BY PacketStreamAssumption DEF IInv, TypeInv, Kept, BufferFits
<1> QED
  BY <1>1, Invariant, PTL

(* No packet that has arrived whole waits for the bytes of a later one. *)
THEOREM NoPacketWaits == Spec => []NothingLeftBehind
<1>1. IInv => NothingLeftBehind
  <2> SUFFICES ASSUME IInv, pc = "recv",
                      NEW i \in 1..N, Start[i + 1] <= received,
                      ~(i <= Len(packets))
               PROVE  FALSE
    BY DEF NothingLeftBehind
  <2> DEFINE n == Len(packets)
  <2>0. n \in Nat /\ i \in Nat /\ i <= N /\ N \in Nat
    BY Numbers
  <2> HIDE DEF n
  <2>1. n < N /\ n + 1 <= i /\ n + 1 \in 1..N /\ n + 2 \in 1..(N + 1)
    <3>1. ~(i <= n)
      BY DEF n
    <3> QED
      BY <2>0, <3>1, Numbers
  <2>2. received = NextStart + pr_size
    BY Numbers DEF IInv, Saved, Place
  <2>3. /\ NextStart = Start[n + 1]
        /\ Start[n + 2] \in Nat /\ Start[n + 1] \in Nat
        /\ Start[n + 1] < Start[n + 2]
    <3>1. NextStart = Start[n + 1]
      BY DEF NextStart, n
    <3>2. n + 1 < n + 2
      BY <2>0
    <3> QED
      BY <2>0, <2>1, <3>1, <3>2, Ordered
  <2>4. received < Start[n + 2]
    <3>1. CASE psize = 0
      <4>1. pr_size = 0
        BY <3>1 DEF IInv, Kept
      <4> QED
        BY <2>2, <2>3, <4>1
    <3>2. CASE psize # 0
      <4>1. psize = Start[n + 2] - NextStart /\ pr_size < psize
        BY <3>2 DEF IInv, Kept, n
      <4> QED
        BY SMTT(60), <2>2, <2>3, <4>1, Numbers
    <3> QED
      BY <3>1, <3>2
  <2>5. Start[n + 2] <= Start[i + 1]
    <3>1. CASE n + 1 = i
      <4>1. n + 2 = i + 1
        BY <2>0, <3>1
      <4> QED
        BY <2>3, <4>1
    <3>2. CASE n + 1 # i
      <4>1. n + 2 < i + 1 /\ i + 1 \in 1..(N + 1)
        BY <2>0, <2>1, <3>2
      <4>2. Start[i + 1] \in Nat /\ Start[n + 2] < Start[i + 1]
        BY <2>1, <4>1, Ordered
      <4> QED
        BY <2>3, <4>2
    <3> QED
      BY <3>1, <3>2
  <2>6. Start[i + 1] \in Nat
    BY <2>0, PacketStreamAssumption
  <2> QED
    BY SMTT(60), <2>3, <2>4, <2>5, <2>6, Numbers
<1> QED
  BY <1>1, Invariant, PTL

-----------------------------------------------------------------------------
(***************************************************************************)
(* InPlaceStream, for every sequence of packets that get no longer, every  *)
(* way the stream is cut, and every size of the buffer.                    *)
(*                                                                         *)
(* LectureReassembled is not inductive: it says nothing of the bytes that  *)
(* wait in iobuf. LIInv adds what they are, that those kept are less than  *)
(* a packet, and that behind a first packet of a receive packet_ptr is at  *)
(* least as far as the last packet was long.                               *)
(***************************************************************************)

(* Where the packet begins that is handled next. *)
LNextStart == LStart[Len(lpackets) + 1]

(* What process_packet can be called with. *)
LPieces == UNION {[0..(n - 1) -> Int] : n \in 1..L_BUFFER}

LTypeInv ==
    /\ lpc \in {"recv", "loop"}
    /\ lreceived \in 0..LStart[LN + 1]
    /\ iobuf \in [Lecture!Offsets -> -1..(LStart[LN + 1] - 1)]
    /\ m_prev_size \in Lecture!Offsets
    /\ num_data \in 0..L_BUFFER
    /\ packet_ptr \in 0..L_BUFFER
    /\ packet_ptr + num_data <= L_BUFFER
    /\ lpackets \in Seq(LPieces)
    /\ Len(lpackets) <= LN

(* In the loop: the bytes left begin the next packet, and if there was one *)
(* before in this receive, packet_ptr is behind it.                        *)
LoopInv ==
    lpc = "loop" =>
        /\ lreceived = LNextStart + num_data
        /\ \A k \in 0..(num_data - 1) : iobuf[packet_ptr + k] = LNextStart + k
        /\ packet_ptr > 0 => /\ Len(lpackets) \in 1..LN
                             /\ LNextStart - LStart[Len(lpackets)] <= packet_ptr

(* At the receive: the bytes kept begin the next packet, and are not all   *)
(* of it.                                                                  *)
RecvInv ==
    lpc = "recv" =>
        /\ lreceived = LNextStart + m_prev_size
        /\ \A k \in 0..(m_prev_size - 1) : iobuf[k] = LNextStart + k
        /\ Len(lpackets) < LN => m_prev_size < LStart[Len(lpackets) + 2] - LNextStart

LIInv == LTypeInv /\ LoopInv /\ RecvInv /\ Lecture!Reassembled

-----------------------------------------------------------------------------
(* The numbers among the variables. *)
LEMMA LectureNumbers ==
    ASSUME Lecture!InPlaceAssumption, LIInv
    PROVE  /\ LN \in Nat /\ L_BUFFER \in Nat /\ L_BUFFER > 0
           /\ Len(lpackets) \in Nat /\ Len(lpackets) <= LN
           /\ LNextStart \in Nat /\ LStart[LN + 1] \in Nat
           /\ lreceived \in Nat /\ lreceived <= LStart[LN + 1]
           /\ m_prev_size \in Nat /\ m_prev_size < L_BUFFER
           /\ num_data \in Nat /\ packet_ptr \in Nat
           /\ packet_ptr + num_data <= L_BUFFER
<1>1. Len(lpackets) \in Nat /\ Len(lpackets) <= LN
  BY DEF LIInv, LTypeInv
<1>2. LN \in Nat /\ L_BUFFER \in Nat /\ L_BUFFER > 0 /\ LStart \in [1..(LN + 1) -> Nat]
  BY DEF Lecture!InPlaceAssumption
<1>3. Len(lpackets) + 1 \in 1..(LN + 1) /\ LN + 1 \in 1..(LN + 1)
  BY <1>1, <1>2
<1>4. LNextStart \in Nat /\ LStart[LN + 1] \in Nat
  BY <1>2, <1>3 DEF LNextStart
<1>5. /\ lreceived \in 0..LStart[LN + 1] /\ m_prev_size \in 0..(L_BUFFER - 1)
      /\ num_data \in 0..L_BUFFER /\ packet_ptr \in 0..L_BUFFER
      /\ packet_ptr + num_data <= L_BUFFER
  BY DEF LIInv, LTypeInv, Lecture!Offsets
<1> QED
  BY <1>1, <1>2, <1>4, <1>5

(* The byte at the start of a packet holds its size. *)
LEMMA LectureFirstByte ==
    ASSUME Lecture!InPlaceAssumption, NEW i \in 1..LN, NEW k, iobuf[k] = LStart[i]
    PROVE  Lecture!Byte(k) = LStart[i + 1] - LStart[i]
<1> DEFINE j == CHOOSE j \in 1..LN : LStart[j] = iobuf[k]
<1>1. j \in 1..LN /\ LStart[j] = iobuf[k]
  OBVIOUS
<1> HIDE DEF j
<1>2. j = i
  <2>1. j \in 1..(LN + 1) /\ i \in 1..(LN + 1)
    BY <1>1 DEF Lecture!InPlaceAssumption
  <2>2. ~(j < i) /\ ~(i < j)
    BY SMTT(60), <1>1, <2>1 DEF Lecture!InPlaceAssumption
  <2> QED
    BY <2>1, <2>2 DEF Lecture!InPlaceAssumption
<1> QED
  BY <1>2 DEF Lecture!Byte, j

(* In the loop, when bytes are left, the one at packet_ptr holds the size  *)
(* of the next packet.                                                     *)
LEMMA LectureSize ==
    ASSUME Lecture!InPlaceAssumption, LIInv, lpc = "loop", num_data > 0
    PROVE  /\ Len(lpackets) < LN
           /\ Lecture!Byte(packet_ptr) = LStart[Len(lpackets) + 2] - LNextStart
           /\ Lecture!Byte(packet_ptr) \in 1..(L_BUFFER - 1)
<1>1. lreceived = LNextStart + num_data /\ iobuf[packet_ptr] = LNextStart
  <2>1. 0 \in 0..(num_data - 1) /\ packet_ptr + 0 = packet_ptr /\ LNextStart + 0 = LNextStart
    BY LectureNumbers
  <2> QED
    BY <2>1 DEF LIInv, LoopInv
<1>2. Len(lpackets) < LN
  <2>1. SUFFICES ASSUME Len(lpackets) = LN PROVE FALSE
    BY LectureNumbers
  <2>2. LNextStart = LStart[LN + 1]
    BY <2>1 DEF LNextStart
  <2> QED
    BY <1>1, <2>2, LectureNumbers
<1>3. Len(lpackets) + 1 \in 1..LN /\ Len(lpackets) + 1 + 1 = Len(lpackets) + 2
  BY <1>2, LectureNumbers
<1>4. LStart[Len(lpackets) + 1 + 1] - LStart[Len(lpackets) + 1] \in 1..(L_BUFFER - 1)
  BY <1>3 DEF Lecture!InPlaceAssumption
<1>5. Lecture!Byte(packet_ptr) = LStart[Len(lpackets) + 1 + 1] - LStart[Len(lpackets) + 1]
  BY <1>1, <1>3, LectureFirstByte DEF LNextStart
<1> QED
  BY <1>2, <1>3, <1>4, <1>5 DEF LNextStart

LEMMA LectureInit == ASSUME Lecture!InPlaceAssumption, Lecture!Init PROVE LIInv
<1>1. LN \in Nat /\ L_BUFFER \in Nat \ {0} /\ LStart[1] = 0
      /\ LStart[LN + 1] \in Nat /\ LN + 1 \in 1..(LN + 1)
  BY DEF Lecture!InPlaceAssumption
<1>2. lpackets = <<>> /\ Len(lpackets) = 0 /\ lpackets \in Seq(LPieces)
  BY DEF Lecture!Init
<1>3. LTypeInv
  BY <1>1, <1>2 DEF Lecture!Init, LTypeInv, Lecture!Offsets
<1>4. LN > 0 => LStart[2] - LStart[1] \in 1..(L_BUFFER - 1)
  <2> SUFFICES ASSUME LN > 0 PROVE LStart[2] - LStart[1] \in 1..(L_BUFFER - 1)
    OBVIOUS
  <2>1. 1 \in 1..LN
    BY <1>1
  <2>2. LStart[1 + 1] - LStart[1] \in 1..(L_BUFFER - 1)
    BY <2>1 DEF Lecture!InPlaceAssumption
  <2> QED
    BY <2>2
<1>5. RecvInv
  <2>1. LNextStart = 0 /\ LStart[Len(lpackets) + 2] = LStart[2]
    BY <1>1, <1>2 DEF LNextStart
  <2>2. LN > 0 => 0 < LStart[2] - LNextStart
    BY <1>1, <1>4, <2>1
  <2> QED
    BY <1>1, <1>2, <2>1, <2>2 DEF Lecture!Init, RecvInv
<1> QED
  BY <1>2, <1>3, <1>5 DEF Lecture!Init, LIInv, LoopInv, Lecture!Reassembled

LEMMA LectureReceive ==
    ASSUME Lecture!InPlaceAssumption, LIInv, NEW n \in 1..L_BUFFER, Lecture!Receive(n)
    PROVE  LIInv'
<1>1. /\ n \in Nat /\ n > 0 /\ n <= L_BUFFER - m_prev_size
      /\ lreceived + n <= LStart[LN + 1] /\ lreceived' = lreceived + n
      /\ num_data' = n + m_prev_size /\ packet_ptr' = 0
      /\ lpc = "recv" /\ lpc' = "loop"
      /\ m_prev_size' = m_prev_size /\ lpackets' = lpackets /\ LNextStart' = LNextStart
  BY LectureNumbers DEF Lecture!Receive, LNextStart
<1>2. lreceived = LNextStart + m_prev_size
  BY <1>1 DEF LIInv, RecvInv
<1>3. ASSUME NEW k \in Lecture!Offsets
      PROVE  iobuf'[k] = IF k \in m_prev_size..(m_prev_size + n - 1)
                         THEN lreceived + (k - m_prev_size) ELSE iobuf[k]
  BY DEF Lecture!Receive
<1>4. LTypeInv'
  <2>1. iobuf' \in [Lecture!Offsets -> -1..(LStart[LN + 1] - 1)]
    <3>1. ASSUME NEW k \in Lecture!Offsets PROVE iobuf'[k] \in -1..(LStart[LN + 1] - 1)
      <4>1. CASE k \in m_prev_size..(m_prev_size + n - 1)
        <5>1. k \in Int /\ m_prev_size \in Nat /\ lreceived \in Nat /\ LStart[LN + 1] \in Nat
          BY <4>1, LectureNumbers
        <5>2. m_prev_size <= k /\ k < m_prev_size + n
          BY <1>1, <4>1, <5>1
        <5>3. lreceived + (k - m_prev_size) \in 0..(LStart[LN + 1] - 1)
          BY <1>1, <5>1, <5>2
        <5> QED
          BY <1>3, <4>1, <5>3
      <4>2. CASE k \notin m_prev_size..(m_prev_size + n - 1)
        BY <1>3, <4>2 DEF LIInv, LTypeInv
      <4> QED
        BY <4>1, <4>2
    <3> QED
      BY <3>1 DEF Lecture!Receive
  <2>2. /\ lreceived' \in 0..LStart[LN + 1] /\ num_data' \in 0..L_BUFFER
        /\ packet_ptr' \in 0..L_BUFFER /\ packet_ptr' + num_data' <= L_BUFFER
    <3>1. L_BUFFER \in Nat /\ m_prev_size \in Nat /\ lreceived \in Nat /\ LStart[LN + 1] \in Nat
      BY LectureNumbers
    <3>2. n + m_prev_size <= L_BUFFER /\ n + m_prev_size \in Nat
      BY <1>1, <3>1
    <3> QED
      BY <1>1, <3>1, <3>2
  <2> QED
    BY <1>1, <2>1, <2>2 DEF LIInv, LTypeInv
<1>5. LoopInv'
  <2>1. lreceived' = LNextStart' + num_data'
    BY SMTT(60), <1>1, <1>2, LectureNumbers
  <2>2. ASSUME NEW k \in 0..(num_data' - 1)
        PROVE  iobuf'[packet_ptr' + k] = LNextStart' + k
    <3>0. m_prev_size \in Nat /\ L_BUFFER \in Nat
      BY LectureNumbers
    <3>1. k \in Lecture!Offsets /\ k \in Nat /\ packet_ptr' + k = k /\ k < n + m_prev_size
      BY <1>1, <3>0 DEF Lecture!Offsets
    <3>2. CASE k < m_prev_size
      <4>1. k \in 0..(m_prev_size - 1) /\ k \notin m_prev_size..(m_prev_size + n - 1)
        BY <3>1, <3>2, LectureNumbers
      <4>2. iobuf[k] = LNextStart + k
        BY <1>1, <4>1 DEF LIInv, RecvInv
      <4> QED
        BY <1>1, <1>3, <3>1, <4>1, <4>2
    <3>3. CASE ~(k < m_prev_size)
      <4>1. k \in m_prev_size..(m_prev_size + n - 1)
        BY <1>1, <3>0, <3>1, <3>3
      <4>2. lreceived + (k - m_prev_size) = LNextStart + k
        BY <1>2, <3>1, LectureNumbers
      <4> QED
        BY <1>1, <1>3, <3>1, <4>1, <4>2
    <3> QED
      BY <3>2, <3>3
  <2> QED
    BY <1>1, <2>1, <2>2 DEF LoopInv
<1>6. RecvInv' /\ Lecture!Reassembled'
  BY <1>1 DEF LIInv, RecvInv, Lecture!Reassembled, Lecture!Packet
<1> QED
  BY <1>4, <1>5, <1>6 DEF LIInv

LEMMA LectureProcess ==
    ASSUME Lecture!InPlaceAssumption, LIInv, Lecture!ProcessPacket
    PROVE  LIInv'
<1> DEFINE n == Len(lpackets)
           size == Lecture!Byte(packet_ptr)
           piece == [k \in 0..(size - 1) |-> iobuf[packet_ptr + k]]
<1>1. /\ n < LN
      /\ size = LStart[n + 2] - LNextStart
      /\ size \in 1..(L_BUFFER - 1)
  BY LectureSize DEF Lecture!ProcessPacket, Lecture!Complete
<1>2. /\ lpackets' = Append(lpackets, piece)
      /\ num_data' = num_data - size /\ packet_ptr' = packet_ptr + size
      /\ lpc = "loop" /\ lpc' = lpc /\ lreceived' = lreceived /\ iobuf' = iobuf
      /\ m_prev_size' = m_prev_size /\ num_data >= size
  BY DEF Lecture!ProcessPacket, Lecture!Complete
<1> HIDE DEF size
<1>3. size \in Nat /\ size > 0 /\ n \in Nat /\ n = Len(lpackets) /\ lpackets \in Seq(LPieces)
  BY SMTT(60), <1>1, LectureNumbers DEF LIInv, LTypeInv
<1>4. ASSUME NEW k \in 0..(num_data - 1)
      PROVE  iobuf[packet_ptr + k] = LNextStart + k
  BY <1>2 DEF LIInv, LoopInv
<1>5. piece = [k \in 0..(size - 1) |-> LNextStart + k]
  <2> SUFFICES ASSUME NEW k \in 0..(size - 1)
               PROVE  iobuf[packet_ptr + k] = LNextStart + k
    OBVIOUS
  <2>1. k \in 0..(num_data - 1)
    BY SMTT(60), <1>2, <1>3, LectureNumbers
  <2> QED
    BY <1>4, <2>1
<1>6. n + 1 + 1 = n + 2 /\ n + 1 \in 1..LN /\ n + 2 \in 1..(LN + 1) /\ LStart[n + 2] \in Nat
  <2>1. n + 1 + 1 = n + 2 /\ n + 1 \in 1..LN /\ n + 2 \in 1..(LN + 1)
    BY SMTT(60), <1>1, <1>3, LectureNumbers
  <2> QED
    BY <2>1 DEF Lecture!InPlaceAssumption
<1>7. piece = Lecture!Packet(n + 1) /\ piece \in LPieces
  <2> HIDE DEF piece
  <2>1. Lecture!Packet(n + 1) = [k \in 0..(size - 1) |-> LNextStart + k]
    BY <1>1, <1>6 DEF Lecture!Packet, LNextStart
  <2>2. piece \in [0..(size - 1) -> Int]
    <3>1. ASSUME NEW k \in 0..(size - 1) PROVE LNextStart + k \in Int
      BY <1>3, LectureNumbers
    <3> QED
      BY <1>5, <3>1
  <2>3. size \in 1..L_BUFFER
    BY <1>1, <1>3, LectureNumbers
  <2> QED
    BY <1>5, <2>1, <2>2, <2>3 DEF LPieces
<1> HIDE DEF piece, n
<1>8. lpackets' \in Seq(LPieces) /\ Len(lpackets') = n + 1
  BY <1>2, <1>3, <1>7
<1>9. LNextStart' = LStart[n + 2] /\ LNextStart' = LNextStart + size
  <2>1. LNextStart' = LStart[n + 2]
    BY <1>6, <1>8 DEF LNextStart
  <2>2. LNextStart \in Nat /\ LStart[n + 2] \in Nat
    BY <1>6, LectureNumbers
  <2> QED
    BY <1>1, <2>1, <2>2
<1>10. LTypeInv'
  <2>1. /\ num_data' \in 0..L_BUFFER /\ packet_ptr' \in 0..L_BUFFER
        /\ packet_ptr' + num_data' <= L_BUFFER
    <3>1. /\ num_data \in Nat /\ packet_ptr \in Nat /\ L_BUFFER \in Nat
          /\ packet_ptr + num_data <= L_BUFFER
      BY LectureNumbers
    <3>2. num_data - size \in Nat /\ packet_ptr + size \in Nat
          /\ packet_ptr + size + (num_data - size) = packet_ptr + num_data
      BY <1>2, <1>3, <3>1
    <3> QED
      BY <1>2, <1>3, <3>1, <3>2
  <2>2. n + 1 <= LN
    BY <1>1, <1>3, LectureNumbers
  <2> QED
    BY <1>2, <1>8, <2>1, <2>2 DEF LIInv, LTypeInv
<1>11. LoopInv'
  <2>1. lreceived' = LNextStart' + num_data'
    <3>1. lreceived = LNextStart + num_data
      BY <1>2 DEF LIInv, LoopInv
    <3>2. num_data \in Nat /\ LNextStart \in Nat
      BY LectureNumbers
    <3> QED
      BY <1>2, <1>3, <1>9, <3>1, <3>2
  <2>2. ASSUME NEW k \in 0..(num_data' - 1)
        PROVE  iobuf'[packet_ptr' + k] = LNextStart' + k
    <3>1. size + k \in 0..(num_data - 1) /\ packet_ptr' + k = packet_ptr + (size + k)
          /\ LNextStart' + k = LNextStart + (size + k)
      <4>1. num_data \in Nat /\ packet_ptr \in Nat /\ LNextStart \in Nat
        BY LectureNumbers
      <4>2. k \in Int /\ 0 <= k /\ k < num_data - size
        BY <1>2, <1>3, <4>1
      <4> QED
        BY <1>2, <1>3, <1>9, <4>1, <4>2
    <3> QED
      BY <1>2, <1>4, <3>1
  <2>3. Len(lpackets') \in 1..LN /\ LNextStart' - LStart[Len(lpackets')] <= packet_ptr'
    <3>1. LStart[Len(lpackets')] = LNextStart
      BY <1>8 DEF LNextStart, n
    <3>2. packet_ptr \in Nat /\ LNextStart \in Nat
      BY LectureNumbers
    <3> QED
      BY <1>2, <1>3, <1>6, <1>8, <1>9, <3>1, <3>2
  <2> QED
    BY <2>1, <2>2, <2>3 DEF LoopInv
<1>12. RecvInv'
  BY <1>2 DEF RecvInv
<1>13. Lecture!Reassembled'
  <2> SUFFICES ASSUME NEW i \in 1..(n + 1)
               PROVE  lpackets'[i] = Lecture!Packet(i)
    BY <1>8 DEF Lecture!Reassembled, Lecture!Packet
  <2>1. CASE i = n + 1
    BY <1>2, <1>3, <1>7, <2>1
  <2>2. CASE i # n + 1
    BY <1>2, <1>3, <1>7, <2>2 DEF LIInv, Lecture!Reassembled
  <2> QED
    BY <2>1, <2>2
<1> QED
  BY <1>10, <1>11, <1>12, <1>13 DEF LIInv

LEMMA LectureKeepRest ==
    ASSUME Lecture!InPlaceAssumption, LIInv, Lecture!KeepRest
    PROVE  LIInv'
<1>1. /\ m_prev_size' = num_data /\ lpc = "loop" /\ lpc' = "recv"
      /\ lreceived' = lreceived /\ packet_ptr' = packet_ptr /\ num_data' = num_data
      /\ lpackets' = lpackets /\ LNextStart' = LNextStart
      /\ num_data > 0 => num_data < Lecture!Byte(packet_ptr)
  <2>1. num_data > 0 => num_data < Lecture!Byte(packet_ptr)
    <3>1. num_data > 0 => Lecture!Byte(packet_ptr) \in 1..(L_BUFFER - 1)
      BY LectureSize DEF Lecture!KeepRest
    <3> QED
      BY <3>1, LectureNumbers DEF Lecture!KeepRest, Lecture!Complete
  <2> QED
    BY <2>1 DEF Lecture!KeepRest, LNextStart
<1>2. num_data > 0 => /\ num_data < LStart[Len(lpackets) + 2] - LNextStart
                      /\ num_data < L_BUFFER
  <2> SUFFICES ASSUME num_data > 0
               PROVE  /\ num_data < LStart[Len(lpackets) + 2] - LNextStart
                      /\ num_data < L_BUFFER
    OBVIOUS
  <2>1. /\ Lecture!Byte(packet_ptr) = LStart[Len(lpackets) + 2] - LNextStart
        /\ Lecture!Byte(packet_ptr) \in 1..(L_BUFFER - 1)
    BY <1>1, LectureSize
  <2> HIDE DEF Lecture!Byte
  <2> QED
    BY SMTT(60), <1>1, <2>1, LectureNumbers
<1>3. ASSUME NEW k \in Lecture!Offsets
      PROVE  iobuf'[k] = IF k < num_data THEN iobuf[packet_ptr + k] ELSE iobuf[k]
  BY DEF Lecture!KeepRest
<1>4. LTypeInv'
  <2>1. iobuf' \in [Lecture!Offsets -> -1..(LStart[LN + 1] - 1)]
    <3>1. ASSUME NEW k \in Lecture!Offsets PROVE iobuf'[k] \in -1..(LStart[LN + 1] - 1)
      <4>1. CASE k < num_data
        <5>1. packet_ptr + k \in Lecture!Offsets
          BY SMTT(60), <4>1, LectureNumbers DEF Lecture!Offsets
        <5> QED
          BY <1>3, <4>1, <5>1 DEF LIInv, LTypeInv
      <4>2. CASE ~(k < num_data)
        BY <1>3, <4>2 DEF LIInv, LTypeInv
      <4> QED
        BY <4>1, <4>2
    <3> QED
      BY <3>1 DEF Lecture!KeepRest
  <2>2. m_prev_size' \in Lecture!Offsets
    BY <1>1, <1>2, LectureNumbers DEF Lecture!Offsets
  <2> QED
    BY <1>1, <2>1, <2>2 DEF LIInv, LTypeInv
<1>5. RecvInv'
  <2>1. lreceived' = LNextStart' + m_prev_size'
    BY <1>1 DEF LIInv, LoopInv
  <2>2. ASSUME NEW k \in 0..(m_prev_size' - 1)
        PROVE  iobuf'[k] = LNextStart' + k
    <3>1. k \in Lecture!Offsets /\ k < num_data /\ k \in 0..(num_data - 1)
      BY SMTT(60), <1>1, LectureNumbers DEF Lecture!Offsets
    <3>2. iobuf[packet_ptr + k] = LNextStart + k
      BY <1>1, <3>1 DEF LIInv, LoopInv
    <3> QED
      BY <1>1, <1>3, <3>1, <3>2
  <2>3. Len(lpackets') < LN => m_prev_size' < LStart[Len(lpackets') + 2] - LNextStart'
    <3> SUFFICES ASSUME Len(lpackets) < LN
                 PROVE  num_data < LStart[Len(lpackets) + 2] - LNextStart
      BY <1>1
    <3>1. LStart[Len(lpackets) + 1 + 1] - LStart[Len(lpackets) + 1] \in 1..(L_BUFFER - 1)
          /\ Len(lpackets) + 1 + 1 = Len(lpackets) + 2
      <4>1. Len(lpackets) + 1 \in 1..LN
        BY LectureNumbers
      <4> QED
        BY SMTT(60), <4>1, LectureNumbers DEF Lecture!InPlaceAssumption
    <3>2. LStart[Len(lpackets) + 2] - LNextStart \in 1..(L_BUFFER - 1)
      BY <3>1 DEF LNextStart
    <3> QED
      BY <1>2, <3>2, LectureNumbers
  <2> QED
    BY <2>1, <2>2, <2>3 DEF RecvInv
<1>6. LoopInv' /\ Lecture!Reassembled'
  BY <1>1 DEF LIInv, LoopInv, Lecture!Reassembled, Lecture!Packet
<1> QED
  BY <1>4, <1>5, <1>6 DEF LIInv

LEMMA LectureStep ==
    ASSUME Lecture!InPlaceAssumption, LIInv, [Lecture!Next]_Lecture!vars
    PROVE  LIInv'
<1>1. CASE Lecture!Recv
  BY <1>1, LectureReceive DEF Lecture!Recv
<1>2. CASE Lecture!ProcessPacket
  BY <1>2, LectureProcess
<1>3. CASE Lecture!KeepRest
  BY <1>3, LectureKeepRest
<1>4. CASE UNCHANGED Lecture!vars
  BY <1>4 DEF Lecture!vars, LIInv, LTypeInv, LoopInv, RecvInv, LNextStart,
              Lecture!Reassembled, Lecture!Packet
<1> QED
  BY <1>1, <1>2, <1>3, <1>4 DEF Lecture!Next, Lecture!Loop

(* The packets that have arrived whole are those handed on. *)
LEMMA NoneLeft ==
    ASSUME Lecture!InPlaceAssumption, LIInv
    PROVE  Lecture!NothingLeftBehind
<1> SUFFICES ASSUME lpc = "recv", NEW i \in 1..LN, LStart[i + 1] <= lreceived,
                    ~(i <= Len(lpackets))
             PROVE  FALSE
  BY LectureNumbers DEF Lecture!NothingLeftBehind
<1> DEFINE n == Len(lpackets)
<1>1. n \in Nat /\ i \in Nat /\ i <= LN /\ LN \in Nat /\ n < i
  BY LectureNumbers
<1>2. /\ lreceived = LStart[n + 1] + m_prev_size
      /\ m_prev_size < LStart[n + 2] - LStart[n + 1]
  BY <1>1 DEF LIInv, RecvInv, LNextStart
<1>3. m_prev_size \in Nat /\ lreceived \in Nat
  BY LectureNumbers
<1> HIDE DEF n
<1>4. n + 1 \in 1..(LN + 1) /\ n + 2 \in 1..(LN + 1) /\ i + 1 \in 1..(LN + 1)
  BY <1>1
<1>5. LStart[n + 1] \in Nat /\ LStart[n + 2] \in Nat /\ LStart[i + 1] \in Nat
  BY <1>4 DEF Lecture!InPlaceAssumption
<1>6. LStart[n + 2] <= LStart[i + 1]
  <2>1. CASE n + 2 = i + 1
    BY <1>5, <2>1
  <2>2. CASE n + 2 # i + 1
    <3>1. n + 2 < i + 1
      BY <1>1, <2>2
    <3>2. LStart[n + 2] < LStart[i + 1]
      BY <1>4, <3>1 DEF Lecture!InPlaceAssumption
    <3> QED
      BY <1>5, <3>2
  <2> QED
    BY <2>1, <2>2
<1> QED
  BY SMTT(60), <1>2, <1>3, <1>5, <1>6

(* A packet that is not complete is shorter than the one before it, and    *)
(* packet_ptr is behind that one.                                          *)
LEMMA CopiesApart ==
    ASSUME Lecture!InPlaceAssumption, LIInv
    PROVE  Lecture!CopyIsApart
<1> SUFFICES ASSUME lpc = "loop", ~Lecture!Complete, packet_ptr # 0, num_data # 0
             PROVE  num_data <= packet_ptr
  BY LectureNumbers DEF Lecture!CopyIsApart
<1> DEFINE n == Len(lpackets)
<1>1. num_data > 0 /\ packet_ptr > 0
  BY LectureNumbers
<1>2. /\ n < LN /\ Lecture!Byte(packet_ptr) = LStart[n + 2] - LStart[n + 1]
      /\ Lecture!Byte(packet_ptr) \in 1..(L_BUFFER - 1)
  BY <1>1, LectureSize DEF LNextStart
<1>3. n \in 1..LN /\ LStart[n + 1] - LStart[n] <= packet_ptr
  BY <1>1 DEF LIInv, LoopInv, LNextStart
<1>4. n \in Nat /\ LN \in Nat /\ num_data \in Nat /\ packet_ptr \in Nat
  BY LectureNumbers
<1>5. num_data < Lecture!Byte(packet_ptr)
  <2>1. ~(num_data >= Lecture!Byte(packet_ptr))
    BY <1>1 DEF Lecture!Complete
  <2> HIDE DEF Lecture!Byte
  <2> QED
    BY <1>2, <1>4, <2>1
<1> HIDE DEF n, Lecture!Byte
<1>6. n + 1 \in 1..LN /\ n < n + 1 /\ n + 1 + 1 = n + 2
  BY <1>2, <1>3, <1>4
<1>7. LStart[n + 1 + 1] - LStart[n + 1] <= LStart[n + 1] - LStart[n]
  BY <1>3, <1>6 DEF Lecture!InPlaceAssumption
<1>8. LStart[n] \in Nat /\ LStart[n + 1] \in Nat /\ LStart[n + 2] \in Nat
  <2>1. n \in 1..(LN + 1) /\ n + 1 \in 1..(LN + 1) /\ n + 2 \in 1..(LN + 1)
    BY <1>3, <1>4, <1>6
  <2> QED
    BY <2>1 DEF Lecture!InPlaceAssumption
<1> QED
  BY <1>2, <1>3, <1>4, <1>5, <1>6, <1>7, <1>8

LEMMA LectureKept == LIInv => LectureReassembled
<1> SUFFICES ASSUME LIInv PROVE LectureReassembled
  OBVIOUS
<1>1. Lecture!TypeOK
  BY DEF LIInv, LTypeInv, Lecture!TypeOK
<1> QED
  BY <1>1, StreamsAssumption, NoneLeft, CopiesApart
  DEF LIInv, Lecture!LectureReassembled, LectureReassembled

(* A lecture server hands on the packets that were sent, whole, in order   *)
(* and as soon as they are there, wherever TCP cuts the stream; and the    *)
(* memcpy of the rest never overlaps, provided that no packet is longer    *)
(* than the one before it.                                                 *)
THEOREM LecturePacketsReassembled == BothSpec => []LectureReassembled
<1>1. BothInit => LIInv
  BY StreamsAssumption, LectureInit DEF BothInit
<1>2. LIInv /\ [BothNext]_<<vars, lectureVars>> => LIInv'
  <2> SUFFICES ASSUME LIInv, [BothNext]_<<vars, lectureVars>> PROVE LIInv'
    OBVIOUS
  <2>1. [Lecture!Next]_Lecture!vars
    BY DEF BothNext, lectureVars, Lecture!vars
  <2> QED
    BY <2>1, StreamsAssumption, LectureStep
<1> QED
  BY <1>1, <1>2, LectureKept, PTL DEF BothSpec
=============================================================================
