------------------------------ MODULE TCPStream ------------------------------
(***************************************************************************)
(* transport/tcp.go: packets written by TCPSend to a byte stream and taken *)
(* out of it by the receive state machine of a TCPConnection.              *)
(*                                                                         *)
(* A byte is abstracted to the packet it belongs to and its place in it.   *)
(* TCPRecv holds conn.mu from its first line to its last, so concurrent    *)
(* callers act one after the other; within a call every fd.Read is a step, *)
(* since the sender writes meanwhile.  TCPSend writes a packet with one    *)
(* Write, which net.Conn does not interleave with the Writes of others; a  *)
(* Write that fails may have sent a part of the packet.                    *)
(***************************************************************************)
EXTENDS Integers, SequencesExt

CONSTANTS
  HeaderSize,      \* 24 in the code
  CRCSize,         \* 4
  LenByte,         \* the place of PayloadLen in the header (bytes 18 and 19)
  PayloadSizes,    \* bound: the payload sizes of packets
  MaxPackets,      \* bound: packets sent
  MaxErrors,       \* bound: calls of Read and Write that fail
  ReadsFail,       \* whether Read may fail with the connection intact (a deadline)
  WritesFail       \* whether Write may fail half way

ASSUME TCPAssumption ==
  /\ HeaderSize \in Nat
  /\ CRCSize \in Nat
  /\ LenByte \in 1 .. HeaderSize
  /\ PayloadSizes \subseteq Nat
  /\ MaxPackets \in Nat
  /\ MaxErrors \in Nat
  /\ ReadsFail \in BOOLEAN
  /\ WritesFail \in BOOLEAN

VARIABLES
  stream,          \* the bytes in the connection
  sent,            \* the payload sizes of the packets given to TCPSend
  closed,          \* whether the sender has called TCPClose
  recvState,       \* TCPConnection
  recvBuffer,      \* the bytes of recvBuffer that were filled
  payloadLen,      \* the length recvBuffer holds in its header
  calling,         \* whether a call of TCPRecv is under way
  received,        \* history: the packets TCPRecv returned, in order
  badPackets,      \* history: how often Deserialize failed
  torn,            \* history: whether a Read or Write failed inside a packet
  errors           \* Reads and Writes that failed

conn    == <<recvState, recvBuffer, payloadLen>>
history == <<received, badPackets, torn>>
vars    == <<stream, sent, closed, conn, calling, history, errors>>

States == {"Idle", "ReadingHeader", "ReadingPayload", "ReadingCRC", "Ready"}

\* Serialize: header, payload and CRC32 of packet number k.
serialized(k, size) == [j \in 1 .. (HeaderSize + size + CRCSize) |-> <<k, j>>]

\* NewTCPConnection on a fresh connection.
Init ==
  /\ stream = <<>>
  /\ sent = <<>>
  /\ closed = FALSE
  /\ recvState = "Idle"
  /\ recvBuffer = <<>>
  /\ payloadLen = 0
  /\ calling = FALSE
  /\ received = <<>>
  /\ badPackets = 0
  /\ torn = FALSE
  /\ errors = 0

-----------------------------------------------------------------------------
(***************************************************************************)
(* The sender                                                              *)
(***************************************************************************)
TCPSend(size) ==
  /\ ~ closed
  /\ Len(sent) < MaxPackets
  /\ sent' = Append(sent, size)
  /\ stream' = stream \o serialized(Len(sent'), size)
  /\ UNCHANGED <<closed, conn, calling, history, errors>>

\* The Write fails after n bytes of the packet; TCPSend returns the error and
\* nothing stops the application from sending the next packet.
TCPSendFails(size) ==
  /\ WritesFail
  /\ ~ closed
  /\ errors < MaxErrors
  /\ Len(sent) < MaxPackets
  /\ errors' = errors + 1
  /\ \E n \in 0 .. (HeaderSize + size + CRCSize - 1) :
       \/ n = 0 /\ UNCHANGED <<sent, stream, torn>>
       \/ /\ n > 0
          /\ sent' = Append(sent, size)
          /\ stream' = stream \o SubSeq(serialized(Len(sent'), size), 1, n)
          /\ torn' = TRUE
  /\ UNCHANGED <<closed, conn, calling, received, badPackets>>

TCPClose ==
  /\ ~ closed
  /\ closed' = TRUE
  /\ UNCHANGED <<stream, sent, conn, calling, history, errors>>

-----------------------------------------------------------------------------
(***************************************************************************)
(* TCPRecv                                                                 *)
(***************************************************************************)
Call ==
  /\ ~ calling
  /\ calling' = TRUE
  /\ UNCHANGED <<stream, sent, closed, conn, history, errors>>

\* StateIdle: a new, empty buffer.
StartHeader ==
  /\ calling
  /\ recvState = "Idle"
  /\ recvState' = "ReadingHeader"
  /\ recvBuffer' = <<>>
  /\ UNCHANGED <<stream, sent, closed, payloadLen, calling, history, errors>>

\* A mutant: the CRC is left in the connection.
targetNoCRC ==
  CASE recvState = "ReadingHeader"  -> HeaderSize
    [] recvState = "ReadingPayload" -> HeaderSize + payloadLen
    [] recvState = "ReadingCRC"     -> HeaderSize + payloadLen

\* How many bytes the buffer must hold before the state is left.
target ==
  CASE recvState = "ReadingHeader"  -> HeaderSize
    [] recvState = "ReadingPayload" -> HeaderSize + payloadLen
    [] recvState = "ReadingCRC"     -> HeaderSize + payloadLen + CRCSize

isReading == recvState \in {"ReadingHeader", "ReadingPayload", "ReadingCRC"}

\* readExact: fd.Read returns some of the bytes that are still wanted.
Read(n) ==
  /\ calling
  /\ isReading
  /\ n \in 1 .. (target - Len(recvBuffer))
  /\ n <= Len(stream)
  /\ recvBuffer' = recvBuffer \o SubSeq(stream, 1, n)
  /\ stream' = SubSeq(stream, n + 1, Len(stream))
  /\ UNCHANGED <<sent, closed, recvState, payloadLen, calling, history, errors>>

\* fd.Read fails: at the end of the stream, or at a deadline.
ReadFails ==
  /\ calling
  /\ isReading
  /\ Len(recvBuffer) < target
  /\ \/ /\ stream = <<>>
        /\ closed
        /\ UNCHANGED errors
     \/ /\ ReadsFail
        /\ errors < MaxErrors
        /\ errors' = errors + 1
  /\ recvState' = "Idle"
  /\ calling' = FALSE
  /\ torn' = (torn \/ recvBuffer # <<>>)
  /\ UNCHANGED <<stream, sent, closed, recvBuffer, payloadLen, received, badPackets>>

\* A mutant: the two bytes of PayloadLen are swapped.
lengthsReadSwapped(byte) ==
  IF byte[2] = LenByte THEN {256 * sent[byte[1]]} ELSE PayloadSizes

\* The lengths the bytes at the place of PayloadLen may stand for: that of
\* the packet, if they are its PayloadLen, and otherwise any.
lengthsRead(byte) ==
  IF byte[2] = LenByte THEN {sent[byte[1]]} ELSE PayloadSizes

\* A mutant: a state is left only after a Read, so never for an empty payload.
isCompleteAfterRead ==
  Len(recvBuffer) = target /\ (recvState = "ReadingPayload" => payloadLen > 0)

isComplete == Len(recvBuffer) = target

HeaderDone ==
  /\ calling
  /\ recvState = "ReadingHeader"
  /\ isComplete
  /\ payloadLen' \in lengthsRead(recvBuffer[LenByte])
  /\ recvState' = "ReadingPayload"
  /\ UNCHANGED <<stream, sent, closed, recvBuffer, calling, history, errors>>

PayloadDone ==
  /\ calling
  /\ recvState = "ReadingPayload"
  /\ isComplete
  /\ recvState' = "ReadingCRC"
  /\ UNCHANGED <<stream, sent, closed, recvBuffer, payloadLen, calling, history, errors>>

CRCDone ==
  /\ calling
  /\ recvState = "ReadingCRC"
  /\ isComplete
  /\ recvState' = "Ready"
  /\ UNCHANGED <<stream, sent, closed, recvBuffer, payloadLen, calling, history, errors>>

\* Deserialize accepts the buffer as packet k: Magic, Version and CRC32 are
\* taken to tell a whole packet from anything else.
isPacket(k) == recvBuffer = serialized(k, sent[k])

\* A mutant: the state is not reset when a packet is returned.
stateAfterPacketReady == "Ready"

stateAfterPacket == "Idle"

\* StateReady: TCPRecv returns the packet, or the error of Deserialize.
Deserialize ==
  /\ calling
  /\ recvState = "Ready"
  /\ calling' = FALSE
  /\ \/ \E k \in 1 .. Len(sent) :
          /\ isPacket(k)
          /\ received' = Append(received, k)
          /\ recvState' = stateAfterPacket
          /\ UNCHANGED badPackets
     \/ /\ \A k \in 1 .. Len(sent) : ~ isPacket(k)
        /\ badPackets' = badPackets + 1
        /\ recvState' = "Idle"
        /\ UNCHANGED received
  /\ UNCHANGED <<stream, sent, closed, recvBuffer, payloadLen, torn, errors>>

Progress == StartHeader \/ HeaderDone \/ PayloadDone \/ CRCDone \/ Deserialize

ReadSome == \E n \in 1 .. Len(stream) : Read(n)

Next ==
  \/ \E size \in PayloadSizes : TCPSend(size) \/ TCPSendFails(size)
  \/ TCPClose
  \/ Call
  \/ Progress
  \/ ReadSome
  \/ ReadFails

Spec == Init /\ [][Next]_vars

\* The receiver keeps calling TCPRecv, a call keeps running, and bytes that
\* were written arrive.
FairSpec == Spec /\ WF_vars(Call) /\ WF_vars(Progress) /\ WF_vars(ReadSome)

-----------------------------------------------------------------------------
(***************************************************************************)
(* Properties                                                              *)
(***************************************************************************)
\* Type invariant of the connection and of the state machine.
TCPTypeOK ==
  /\ stream \in Seq((1 .. MaxPackets) \X Nat)
  /\ sent \in Seq(PayloadSizes)
  /\ closed \in BOOLEAN
  /\ recvState \in States
  /\ recvBuffer \in Seq((1 .. MaxPackets) \X Nat)
  /\ isReading => Len(recvBuffer) <= target
  /\ payloadLen \in PayloadSizes \cup {0}
  /\ calling \in BOOLEAN
  /\ received \in Seq(1 .. MaxPackets)
  /\ badPackets \in Nat
  /\ torn \in BOOLEAN
  /\ errors \in 0 .. MaxErrors

\* However Reads cut the stream into pieces, TCPRecv returns the packets that
\* were sent, in order and without a gap, and Deserialize never sees the
\* bytes of two packets.
FramingKept ==
  /\ received = [k \in 1 .. Len(received) |-> k]
  /\ badPackets = 0

\* A Read or a Write that fails between two packets does no harm.
CleanErrorsKeepFraming == ~ torn => FramingKept

\* Also after a failure inside a packet TCPRecv never returns a packet twice
\* or out of order: the state machine leaves nothing of a packet behind.
NeverOutOfOrder ==
  \A i, j \in 1 .. Len(received) : i < j => received[i] < received[j]

\* A packet that TCPSend wrote is returned by TCPRecv, unless a Read or a
\* Write failed inside a packet.
EventuallyReceived ==
  \A k \in 1 .. MaxPackets : Len(sent) >= k ~> k \in Range(received) \/ torn
=============================================================================
