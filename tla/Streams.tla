-------------------------------- MODULE Streams --------------------------------
(* A client of the final server and one of a lecture server, side by side: *)
(* the streams have nothing to do with each other.                         *)
EXTENDS PacketStream

(* N, Start and MAX_BUFFER of the lecture server, and its variables. *)
CONSTANTS LN, LStart, L_BUFFER

VARIABLES lpc, lreceived, iobuf, m_prev_size, packet_ptr, num_data, lpackets

lectureVars == <<lpc, lreceived, iobuf, m_prev_size, packet_ptr, num_data, lpackets>>

Lecture == INSTANCE InPlaceStream
    WITH N <- LN, Start <- LStart, MAX_BUFFER <- L_BUFFER,
         pc <- lpc, received <- lreceived, packets <- lpackets

ASSUME StreamsAssumption == Lecture!InPlaceAssumption

BothInit == Init /\ Lecture!Init

BothNext ==
    \/ Next /\ UNCHANGED lectureVars
    \/ Lecture!Next /\ UNCHANGED vars

BothSpec == BothInit /\ [][BothNext]_<<vars, lectureVars>>

-----------------------------------------------------------------------------
(* The lecture servers, too, hand on the packets that were sent, whole, in *)
(* order and as soon as they are there, however the stream is cut, and     *)
(* never copy the rest of a packet over itself.                            *)
LectureReassembled == Lecture!LectureReassembled
=============================================================================
