--------------------------- MODULE TCPStream_proofs ---------------------------
(***************************************************************************)
(* Proofs about the TCP transport, for every size of header, CRC and       *)
(* payload, every number of packets and of failures, and every way in      *)
(* which Read cuts the stream into pieces.                                 *)
(*                                                                         *)
(* The stream is described place by place: which byte follows which.  No   *)
(* fact about it needs the stream as a whole, so none needs an induction   *)
(* over its length.                                                        *)
(***************************************************************************)
EXTENDS TCPStream, TLAPS

Bytes == (1 .. MaxPackets) \X Nat

\* The number of bytes of a packet with a payload of n bytes.
packetSize(n) == HeaderSize + n + CRCSize

\* Every byte belongs to a packet that was given to TCPSend.
Written(q) ==
  \A i \in 1 .. Len(q) : q[i][1] \in 1 .. Len(sent) /\ q[i][2] \in 1 .. packetSize(sent[q[i][1]])

(***************************************************************************)
(* TCPTypeOK is not inductive: that PayloadLen is the size of a packet     *)
(* needs the bytes in the buffer to be bytes of packets.                   *)
(***************************************************************************)
TypeInv ==
  /\ TCPTypeOK
  /\ Len(sent) <= MaxPackets
  /\ Written(stream)
  /\ Written(recvBuffer)
  /\ \A i \in 1 .. Len(received) : received[i] \in 1 .. Len(sent)

-----------------------------------------------------------------------------
(***************************************************************************)
(* Sequences, place by place                                               *)
(***************************************************************************)
LEMMA ConcatAt ==
  ASSUME NEW S, NEW s \in Seq(S), NEW t \in Seq(S)
  PROVE  /\ s \o t \in Seq(S)
         /\ Len(s \o t) = Len(s) + Len(t)
         /\ Len(s) \in Nat /\ Len(t) \in Nat
         /\ \A i \in 1 .. (Len(s) + Len(t)) :
              (s \o t)[i] = IF i <= Len(s) THEN s[i] ELSE t[i - Len(s)]
  OBVIOUS

LEMMA PrefixAt ==
  ASSUME NEW S, NEW s \in Seq(S), NEW n \in 0 .. Len(s)
  PROVE  /\ SubSeq(s, 1, n) \in Seq(S)
         /\ Len(SubSeq(s, 1, n)) = n
         /\ \A i \in 1 .. n : SubSeq(s, 1, n)[i] = s[i]
  OBVIOUS

LEMMA RestAt ==
  ASSUME NEW S, NEW s \in Seq(S), NEW n \in 0 .. Len(s)
  PROVE  /\ SubSeq(s, n + 1, Len(s)) \in Seq(S)
         /\ Len(SubSeq(s, n + 1, Len(s))) = Len(s) - n
         /\ \A i \in 1 .. (Len(s) - n) : SubSeq(s, n + 1, Len(s))[i] = s[n + i]
  OBVIOUS

LEMMA NumberedSeq ==
  ASSUME NEW S, NEW s \in Seq(S), NEW k, NEW z, Len(s) = z,
         \A j \in 1 .. z : s[j] = <<k, j>>
  PROVE  s = [j \in 1 .. z |-> <<k, j>>]
<1>1. s = [j \in 1 .. z |-> s[j]]
  OBVIOUS
<1>2. [j \in 1 .. z |-> s[j]] = [j \in 1 .. z |-> <<k, j>>]
  OBVIOUS
<1> QED
  BY <1>1, <1>2

LEMMA OneMoreFits ==
  ASSUME NEW a \in Nat, NEW n \in Nat, NEW z \in Nat, a + n <= z, a + n # z
  PROVE  a + (n + 1) <= z /\ a + (n + 1) = (a + n) + 1
  OBVIOUS

LEMMA SerializedAt ==
  ASSUME NEW k \in 1 .. MaxPackets, NEW size \in Nat
  PROVE  /\ serialized(k, size) \in Seq(Bytes)
         /\ Len(serialized(k, size)) = HeaderSize + size + CRCSize
         /\ \A j \in 1 .. (HeaderSize + size + CRCSize) : serialized(k, size)[j] = <<k, j>>
<1> DEFINE n == HeaderSize + size + CRCSize
<1>1. n \in Nat
  BY TCPAssumption
<1> HIDE DEF n
<1>2. \A j \in 1 .. n : <<k, j>> \in Bytes
  BY <1>1 DEF Bytes
<1>3. [j \in 1 .. n |-> <<k, j>>] \in Seq(Bytes) /\ Len([j \in 1 .. n |-> <<k, j>>]) = n
  BY <1>1, <1>2
<1> QED
  BY <1>3 DEF n, serialized

-----------------------------------------------------------------------------
(***************************************************************************)
(* Types                                                                   *)
(***************************************************************************)
LEMMA InitType == Init => TypeInv
<1> SUFFICES ASSUME Init PROVE TypeInv
  OBVIOUS
<1>1. TCPTypeOK
  <2>1. /\ stream \in Seq((1 .. MaxPackets) \X Nat) /\ sent \in Seq(PayloadSizes)
        /\ recvBuffer \in Seq((1 .. MaxPackets) \X Nat) /\ received \in Seq(1 .. MaxPackets)
    BY DEF Init
  <2>2. ~ isReading /\ recvState \in States
    BY DEF Init, isReading, States
  <2>3. errors \in 0 .. MaxErrors /\ badPackets \in Nat /\ payloadLen \in PayloadSizes \cup {0}
    BY TCPAssumption DEF Init
  <2>4. closed \in BOOLEAN /\ calling \in BOOLEAN /\ torn \in BOOLEAN
    BY DEF Init
  <2> QED
    BY <2>1, <2>2, <2>3, <2>4 DEF TCPTypeOK
<1> QED
  BY <1>1, TCPAssumption DEF Init, TypeInv, Written

LEMMA Constants ==
  /\ HeaderSize \in Nat /\ CRCSize \in Nat /\ LenByte \in 1 .. HeaderSize
  /\ HeaderSize >= 1 /\ LenByte \in Nat
  /\ PayloadSizes \subseteq Nat /\ MaxPackets \in Nat /\ MaxErrors \in Nat
<1>1. /\ HeaderSize \in Nat /\ CRCSize \in Nat /\ LenByte \in 1 .. HeaderSize
      /\ PayloadSizes \subseteq Nat /\ MaxPackets \in Nat /\ MaxErrors \in Nat
  BY TCPAssumption
<1>2. HeaderSize >= 1 /\ LenByte \in Nat
  BY <1>1
<1> QED
  BY <1>1, <1>2

\* The sizes of packets.
LEMMA SizeType ==
  ASSUME TypeInv, NEW k \in 1 .. Len(sent)
  PROVE  /\ sent[k] \in PayloadSizes /\ sent[k] \in Nat
         /\ packetSize(sent[k]) \in Nat /\ HeaderSize <= packetSize(sent[k])
         /\ 1 <= packetSize(sent[k])
<1>1. sent[k] \in PayloadSizes
  BY DEF TypeInv, TCPTypeOK
<1>2. sent[k] \in Nat /\ HeaderSize \in Nat /\ CRCSize \in Nat /\ HeaderSize >= 1
  BY <1>1, Constants
<1> QED
  BY <1>1, <1>2 DEF packetSize

\* The bytes t of a new packet, all or some of them, are written.
Grows(size, t) ==
  /\ size \in PayloadSizes
  /\ Len(sent) < MaxPackets
  /\ t \in Seq(Bytes)
  /\ Len(t) <= packetSize(size)
  /\ \A j \in 1 .. Len(t) : t[j] = <<Len(sent) + 1, j>>
  /\ sent' = Append(sent, size)
  /\ stream' = stream \o t

LEMMA SendGrows ==
  ASSUME TypeInv, NEW size \in PayloadSizes, TCPSend(size)
  PROVE  LET t == serialized(Len(sent) + 1, size)
         IN  Grows(size, t) /\ Len(t) = packetSize(size)
<1> DEFINE k == Len(sent) + 1
<1>1. /\ sent' = Append(sent, size) /\ Len(sent) < MaxPackets
      /\ stream' = stream \o serialized(Len(sent'), size)
  BY DEF TCPSend
<1>2. Len(sent') = k
  BY <1>1 DEF TypeInv, TCPTypeOK
<1>3. k \in 1 .. MaxPackets /\ size \in Nat
  BY <1>1, TCPAssumption DEF TypeInv, TCPTypeOK
<1>4. packetSize(size) \in Nat
  BY <1>3, TCPAssumption DEF packetSize
<1> DEFINE t == serialized(k, size)
<1>5. t \in Seq(Bytes) /\ Len(t) = packetSize(size)
  BY <1>3, SerializedAt DEF packetSize
<1>6. \A j \in 1 .. Len(t) : t[j] = <<k, j>>
  BY <1>3, <1>5, SerializedAt DEF packetSize
<1>7. stream' = stream \o t
  BY <1>1, <1>2
<1> HIDE DEF t
<1>8. Grows(size, t)
  BY <1>1, <1>4, <1>5, <1>6, <1>7 DEF Grows
<1> QED
  BY <1>5, <1>8 DEF t

LEMMA SendFailsGrows ==
  ASSUME TypeInv, NEW size \in PayloadSizes, TCPSendFails(size)
  PROVE  UNCHANGED <<sent, stream, torn>> \/ (torn' = TRUE /\ \E t : Grows(size, t))
<1> SUFFICES ASSUME ~ UNCHANGED <<sent, stream, torn>>
             PROVE  torn' = TRUE /\ \E t : Grows(size, t)
  OBVIOUS
<1>0. PICK n \in 0 .. (HeaderSize + size + CRCSize - 1) :
        \/ n = 0 /\ UNCHANGED <<sent, stream, torn>>
        \/ /\ n > 0
           /\ sent' = Append(sent, size)
           /\ stream' = stream \o SubSeq(serialized(Len(sent'), size), 1, n)
           /\ torn' = TRUE
  BY Zenon DEF TCPSendFails
<1> DEFINE k == Len(sent) + 1
           m == HeaderSize + size + CRCSize
<1>1. /\ n > 0
      /\ sent' = Append(sent, size)
      /\ stream' = stream \o SubSeq(serialized(Len(sent'), size), 1, n)
      /\ torn' = TRUE
  BY <1>0, Zenon
<1>2. Len(sent') = k /\ Len(sent) < MaxPackets
  BY <1>1 DEF TypeInv, TCPTypeOK, TCPSendFails
<1>3. k \in 1 .. MaxPackets /\ size \in Nat /\ m \in Nat
  BY <1>2, TCPAssumption DEF TypeInv, TCPTypeOK
<1>4. /\ serialized(k, size) \in Seq(Bytes)
      /\ Len(serialized(k, size)) = m
      /\ \A j \in 1 .. m : serialized(k, size)[j] = <<k, j>>
  BY <1>3, SerializedAt
<1> DEFINE t == SubSeq(serialized(k, size), 1, n)
<1>6. n \in Nat /\ n <= m
  BY <1>3, Constants
<1> HIDE DEF m
<1>5. t \in Seq(Bytes) /\ Len(t) = n /\ \A j \in 1 .. n : t[j] = <<k, j>>
  <2>1. n \in 0 .. Len(serialized(k, size)) /\ \A j \in 1 .. n : j \in 1 .. m
    BY <1>3, <1>4, <1>6
  <2> QED
    BY <1>4, <2>1, PrefixAt
<1> HIDE DEF t
<1>7. Grows(size, t)
  BY <1>1, <1>2, <1>5, <1>6 DEF Grows, t, m, packetSize
<1> QED
  BY <1>1, <1>7

LEMMA GrowsType ==
  ASSUME TypeInv, NEW size, NEW t, Grows(size, t)
  PROVE  /\ sent' \in Seq(PayloadSizes) /\ Len(sent') = Len(sent) + 1
         /\ sent'[Len(sent) + 1] = size
         /\ \A k \in 1 .. Len(sent) : sent'[k] = sent[k]
         /\ stream' \in Seq(Bytes) /\ Len(stream') = Len(stream) + Len(t)
         /\ \A i \in 1 .. Len(stream) : stream'[i] = stream[i]
         /\ \A i \in 1 .. Len(t) : stream'[Len(stream) + i] = <<Len(sent) + 1, i>>
         /\ Written(stream)'
<1>1. /\ sent \in Seq(PayloadSizes) /\ stream \in Seq(Bytes) /\ size \in PayloadSizes
      /\ t \in Seq(Bytes) /\ sent' = Append(sent, size) /\ stream' = stream \o t
  BY DEF Grows, TypeInv, TCPTypeOK, Bytes
<1>2. /\ sent' \in Seq(PayloadSizes) /\ Len(sent') = Len(sent) + 1 /\ Len(sent) \in Nat
      /\ sent'[Len(sent) + 1] = size
      /\ \A k \in 1 .. Len(sent) : sent'[k] = sent[k]
  BY <1>1
<1>4. /\ stream' \in Seq(Bytes) /\ Len(stream') = Len(stream) + Len(t)
      /\ Len(stream) \in Nat /\ Len(t) \in Nat
      /\ \A i \in 1 .. (Len(stream) + Len(t)) :
           stream'[i] = IF i <= Len(stream) THEN stream[i] ELSE t[i - Len(stream)]
  BY <1>1, ConcatAt
<1>5. \A i \in 1 .. Len(stream) : stream'[i] = stream[i]
  BY <1>4
<1>6. ASSUME NEW i \in 1 .. Len(t) PROVE stream'[Len(stream) + i] = <<Len(sent) + 1, i>>
  <2>1. /\ Len(stream) + i \in 1 .. (Len(stream) + Len(t)) /\ ~ (Len(stream) + i <= Len(stream))
        /\ (Len(stream) + i) - Len(stream) = i
    BY <1>4
  <2>2. stream'[Len(stream) + i] = t[i]
    BY <1>4, <2>1
  <2> QED
    BY <2>2 DEF Grows
<1>7. Written(stream)'
  <2> SUFFICES ASSUME NEW i \in 1 .. Len(stream')
               PROVE  /\ stream'[i][1] \in 1 .. Len(sent')
                      /\ stream'[i][2] \in 1 .. packetSize(sent'[stream'[i][1]])
    BY DEF Written
  <2>1. CASE i <= Len(stream)
    <3>1. i \in 1 .. Len(stream)
      BY <1>4, <2>1
    <3>2. /\ stream[i][1] \in 1 .. Len(sent)
          /\ stream[i][2] \in 1 .. packetSize(sent[stream[i][1]])
      BY <3>1 DEF TypeInv, Written
    <3>3. stream'[i] = stream[i]
      BY <1>5, <3>1
    <3>4. sent'[stream[i][1]] = sent[stream[i][1]]
      BY <1>2, <3>2
    <3>5. stream[i][1] \in 1 .. Len(sent')
      BY <1>2, <3>2
    <3> QED
      BY <3>2, <3>3, <3>4, <3>5, Zenon
  <2>2. CASE ~ (i <= Len(stream))
    <3> DEFINE j == i - Len(stream)
    <3>1. j \in 1 .. Len(t) /\ Len(stream) + j = i
      BY <1>4, <2>2
    <3> HIDE DEF j
    <3>2. stream'[i] = <<Len(sent) + 1, j>>
      BY <3>1, <1>6
    <3>3. j \in 1 .. packetSize(size)
      <4>1. packetSize(size) \in Nat /\ Len(t) <= packetSize(size)
        BY <1>1, TCPAssumption DEF packetSize, Grows
      <4> QED
        BY <4>1, <1>4, <3>1
    <3> QED
      BY <1>2, <3>2, <3>3
  <2> QED
    BY <2>1, <2>2
<1> QED
  BY <1>2, <1>4, <1>5, <1>6, <1>7

\* A packet or a part of one is written; the receiver is left alone.
LEMMA GrowsKeepsType ==
  ASSUME TypeInv, NEW size, NEW t, Grows(size, t),
         UNCHANGED <<closed, conn, calling, received, badPackets>>,
         torn' \in BOOLEAN, errors' \in 0 .. MaxErrors
  PROVE  TypeInv'
<1>1. /\ sent' \in Seq(PayloadSizes) /\ Len(sent') = Len(sent) + 1 /\ Len(sent) \in Nat
      /\ \A k \in 1 .. Len(sent) : sent'[k] = sent[k]
      /\ stream' \in Seq(Bytes) /\ Written(stream)'
  <2>1. Len(sent) \in Nat
    BY DEF TypeInv, TCPTypeOK
  <2> QED
    BY <2>1, GrowsType
<1>2. /\ UNCHANGED <<recvState, recvBuffer, payloadLen, calling, closed>>
      /\ UNCHANGED <<received, badPackets>>
  BY DEF conn
<1>3. Written(recvBuffer)'
  <2> SUFFICES ASSUME NEW i \in 1 .. Len(recvBuffer)
               PROVE  /\ recvBuffer[i][1] \in 1 .. Len(sent')
                      /\ recvBuffer[i][2] \in 1 .. packetSize(sent'[recvBuffer[i][1]])
    BY <1>2 DEF Written
  <2>1. /\ recvBuffer[i][1] \in 1 .. Len(sent)
        /\ recvBuffer[i][2] \in 1 .. packetSize(sent[recvBuffer[i][1]])
    BY DEF TypeInv, Written
  <2>2. sent'[recvBuffer[i][1]] = sent[recvBuffer[i][1]] /\ recvBuffer[i][1] \in 1 .. Len(sent')
    BY <1>1, <2>1
  <2> QED
    BY <2>1, <2>2, Zenon
<1>4. Len(sent') <= MaxPackets
  BY <1>1, TCPAssumption DEF Grows
<1>5. \A i \in 1 .. Len(received') : received'[i] \in 1 .. Len(sent')
  BY <1>1, <1>2 DEF TypeInv
<1>6. (isReading => Len(recvBuffer) <= target)'
  BY <1>2 DEF TypeInv, TCPTypeOK, isReading, target
<1>7. TCPTypeOK'
  BY <1>1, <1>2, <1>6, Zenon DEF TypeInv, TCPTypeOK, Bytes
<1> QED
  BY <1>1, <1>3, <1>4, <1>5, <1>7 DEF TypeInv

\* A Read moves the first bytes of the stream to the end of the buffer.
LEMMA ReadParts ==
  ASSUME TypeInv, NEW n \in 1 .. Len(stream), Read(n)
  PROVE  /\ n \in Nat /\ Len(recvBuffer) \in Nat /\ Len(stream) \in Nat
         /\ recvBuffer' \in Seq(Bytes) /\ Len(recvBuffer') = Len(recvBuffer) + n
         /\ \A i \in 1 .. Len(recvBuffer) : recvBuffer'[i] = recvBuffer[i]
         /\ \A i \in 1 .. n : recvBuffer'[Len(recvBuffer) + i] = stream[i]
         /\ stream' \in Seq(Bytes) /\ Len(stream') = Len(stream) - n
         /\ \A i \in 1 .. (Len(stream) - n) : stream'[i] = stream[n + i]
<1> DEFINE t == SubSeq(stream, 1, n)
<1>1. /\ stream \in Seq(Bytes) /\ recvBuffer \in Seq(Bytes)
      /\ recvBuffer' = recvBuffer \o t
      /\ stream' = SubSeq(stream, n + 1, Len(stream))
  BY DEF TypeInv, TCPTypeOK, Bytes, Read
<1>2. n \in 0 .. Len(stream) /\ n \in Nat /\ Len(recvBuffer) \in Nat /\ Len(stream) \in Nat
  BY <1>1
<1>3. t \in Seq(Bytes) /\ Len(t) = n /\ \A i \in 1 .. n : t[i] = stream[i]
  BY <1>1, <1>2, PrefixAt
<1>4. /\ stream' \in Seq(Bytes) /\ Len(stream') = Len(stream) - n
      /\ \A i \in 1 .. (Len(stream) - n) : stream'[i] = stream[n + i]
  BY <1>1, <1>2, RestAt
<1> HIDE DEF t
<1>5. /\ recvBuffer' \in Seq(Bytes) /\ Len(recvBuffer') = Len(recvBuffer) + n
      /\ \A i \in 1 .. (Len(recvBuffer) + n) :
           recvBuffer'[i] = IF i <= Len(recvBuffer) THEN recvBuffer[i]
                            ELSE t[i - Len(recvBuffer)]
  BY <1>1, <1>3, ConcatAt
<1>6. \A i \in 1 .. Len(recvBuffer) : recvBuffer'[i] = recvBuffer[i]
  BY <1>2, <1>5
<1>7. ASSUME NEW i \in 1 .. n PROVE recvBuffer'[Len(recvBuffer) + i] = stream[i]
  <2>1. /\ Len(recvBuffer) + i \in 1 .. (Len(recvBuffer) + n)
        /\ ~ (Len(recvBuffer) + i <= Len(recvBuffer))
        /\ (Len(recvBuffer) + i) - Len(recvBuffer) = i
    BY <1>2
  <2> QED
    BY <2>1, <1>3, <1>5
<1> QED
  BY <1>2, <1>4, <1>5, <1>6, <1>7

\* Where a byte of the buffer comes from after a Read.
LEMMA ReadFrom ==
  ASSUME TypeInv, NEW n \in 1 .. Len(stream), Read(n), NEW i \in 1 .. Len(recvBuffer')
  PROVE  \/ i \in 1 .. Len(recvBuffer) /\ recvBuffer'[i] = recvBuffer[i]
         \/ \E j \in 1 .. n : i = Len(recvBuffer) + j /\ recvBuffer'[i] = stream[j]
<1>1. CASE i <= Len(recvBuffer)
  BY <1>1, ReadParts
<1>2. CASE ~ (i <= Len(recvBuffer))
  <2> DEFINE j == i - Len(recvBuffer)
  <2>1. j \in 1 .. n /\ i = Len(recvBuffer) + j
    BY <1>2, ReadParts
  <2>2. recvBuffer'[Len(recvBuffer) + j] = stream[j]
    BY <2>1, ReadParts
  <2> HIDE DEF j
  <2> QED
    BY <2>1, <2>2
<1> QED
  BY <1>1, <1>2

\* What TypeInv asks of a step that leaves sent alone.
LEMMA ReceiverType ==
  ASSUME TypeInv, UNCHANGED sent, TCPTypeOK', Written(stream)', Written(recvBuffer)',
         received' = received \/ \E k \in 1 .. Len(sent) : received' = Append(received, k)
  PROVE  TypeInv'
<1>1. \A i \in 1 .. Len(received') : received'[i] \in 1 .. Len(sent')
  <2>0. /\ received \in Seq(1 .. MaxPackets) /\ sent' = sent
        /\ \A i \in 1 .. Len(received) : received[i] \in 1 .. Len(sent)
    BY DEF TypeInv, TCPTypeOK
  <2>1. ASSUME NEW k \in 1 .. Len(sent), received' = Append(received, k)
        PROVE  \A i \in 1 .. Len(received') : received'[i] \in 1 .. Len(sent)
    <3>1. /\ Len(received') = Len(received) + 1 /\ received'[Len(received) + 1] = k
          /\ Len(received) \in Nat
          /\ \A i \in 1 .. Len(received) : received'[i] = received[i]
      BY <2>0, <2>1
    <3>2. \A i \in 1 .. Len(received') : i \in 1 .. Len(received) \/ i = Len(received) + 1
      BY <3>1
    <3> QED
      BY <2>0, <3>1, <3>2
  <2> QED
    BY <2>0, <2>1
<1> QED
  BY <1>1 DEF TypeInv

LEMMA ReadType ==
  ASSUME TypeInv, NEW n \in 1 .. Len(stream), Read(n)
  PROVE  TypeInv'
<1>1. /\ UNCHANGED <<sent, closed, recvState, payloadLen, calling, errors>>
      /\ UNCHANGED <<received, badPackets, torn>>
      /\ isReading /\ n \in 1 .. (target - Len(recvBuffer))
  BY DEF Read, history
<1>2. (isReading => Len(recvBuffer) <= target)'
  <2>1. target \in Nat /\ target' = target
    <3>1. payloadLen \in Nat
      BY Constants DEF TypeInv, TCPTypeOK
    <3>2. target \in Nat
      <4>1. /\ HeaderSize \in Nat /\ HeaderSize + payloadLen \in Nat
            /\ HeaderSize + payloadLen + CRCSize \in Nat
        BY <3>1, Constants
      <4> QED
        BY <1>1, <4>1 DEF target, isReading
    <3>3. target' = target
      BY <1>1, Zenon DEF target
    <3> QED
      BY <3>2, <3>3
  <2> QED
    BY <2>1, <1>1, ReadParts
<1>3. TCPTypeOK'
  BY <1>1, <1>2, ReadParts, Zenon DEF TypeInv, TCPTypeOK, Bytes
<1>4. Written(recvBuffer)'
  <2> SUFFICES ASSUME NEW i \in 1 .. Len(recvBuffer')
               PROVE  /\ recvBuffer'[i][1] \in 1 .. Len(sent)
                      /\ recvBuffer'[i][2] \in 1 .. packetSize(sent[recvBuffer'[i][1]])
    BY <1>1 DEF Written
  <2>1. CASE i \in 1 .. Len(recvBuffer) /\ recvBuffer'[i] = recvBuffer[i]
    BY <2>1 DEF TypeInv, Written
  <2>2. ASSUME NEW j \in 1 .. n, recvBuffer'[i] = stream[j]
        PROVE  /\ recvBuffer'[i][1] \in 1 .. Len(sent)
               /\ recvBuffer'[i][2] \in 1 .. packetSize(sent[recvBuffer'[i][1]])
    <3>1. j \in 1 .. Len(stream)
      BY ReadParts
    <3> QED
      BY <2>2, <3>1 DEF TypeInv, Written
  <2> QED
    BY <2>1, <2>2, ReadFrom
<1>5. Written(stream)'
  <2> SUFFICES ASSUME NEW i \in 1 .. Len(stream')
               PROVE  /\ stream'[i][1] \in 1 .. Len(sent)
                      /\ stream'[i][2] \in 1 .. packetSize(sent[stream'[i][1]])
    BY <1>1 DEF Written
  <2>0. /\ n \in Nat /\ Len(stream) \in Nat /\ Len(stream') = Len(stream) - n
        /\ \A k \in 1 .. (Len(stream) - n) : stream'[k] = stream[n + k]
    BY ReadParts
  <2>1. n + i \in 1 .. Len(stream) /\ stream'[i] = stream[n + i]
    BY <2>0
  <2>2. Written(stream)
    BY DEF TypeInv
  <2> QED
    BY <2>1, <2>2 DEF Written
<1> QED
  BY <1>1, <1>3, <1>4, <1>5, ReceiverType

\* The steps between the Reads, except the end of a call.
LEMMA ControlType ==
  ASSUME TypeInv,
         Call \/ StartHeader \/ HeaderDone \/ PayloadDone \/ CRCDone \/ TCPClose
  PROVE  TypeInv'
<1>1. /\ UNCHANGED <<stream, sent, errors, received, badPackets, torn>>
      /\ closed' \in BOOLEAN /\ calling' \in BOOLEAN
  BY DEF Call, StartHeader, HeaderDone, PayloadDone, CRCDone, TCPClose, conn, history,
         TypeInv, TCPTypeOK
<1>2. recvBuffer' \in {recvBuffer, <<>>}
  BY DEF Call, StartHeader, HeaderDone, PayloadDone, CRCDone, TCPClose, conn
<1>3. Written(recvBuffer)' /\ Written(stream)' /\ recvBuffer' \in Seq(Bytes)
  <2>1. Written(stream)'
    BY <1>1 DEF TypeInv, Written
  <2>2. CASE recvBuffer' = recvBuffer
    BY <1>1, <2>1, <2>2 DEF TypeInv, TCPTypeOK, Written, Bytes
  <2>3. CASE recvBuffer' = <<>>
    <3>1. recvBuffer' \in Seq(Bytes) /\ Len(recvBuffer') = 0
      BY <2>3
    <3> QED
      BY <2>1, <3>1 DEF Written
  <2> QED
    BY <1>2, <2>2, <2>3
<1>4. payloadLen' \in PayloadSizes \cup {0}
  <2>1. CASE HeaderDone
    <3> DEFINE b == recvBuffer[LenByte]
    <3>1. LenByte \in 1 .. Len(recvBuffer)
      BY <2>1, Constants DEF HeaderDone, isComplete, target
    <3>2. b[1] \in 1 .. Len(sent)
      BY <3>1 DEF TypeInv, Written
    <3>3. sent[b[1]] \in PayloadSizes
      BY <3>2, SizeType
    <3> HIDE DEF b
    <3> QED
      BY <2>1, <3>3 DEF HeaderDone, lengthsRead, b
  <2>2. CASE ~ HeaderDone
    BY <2>2 DEF Call, StartHeader, PayloadDone, CRCDone, TCPClose, conn, TypeInv, TCPTypeOK
  <2> QED
    BY <2>1, <2>2
<1>5. recvState' \in States
  BY DEF Call, StartHeader, HeaderDone, PayloadDone, CRCDone, TCPClose, conn,
         TypeInv, TCPTypeOK, States
<1>6. payloadLen \in Nat /\ payloadLen' \in Nat
  BY <1>4, Constants DEF TypeInv, TCPTypeOK
<1>7. (isReading => Len(recvBuffer) <= target)'
  <2>1. CASE StartHeader
    BY <2>1, Constants DEF StartHeader, isReading, target
  <2>2. CASE HeaderDone
    BY <2>2, <1>6, Constants DEF HeaderDone, isComplete, isReading, target
  <2>3. CASE PayloadDone
    BY <2>3, <1>6, Constants DEF PayloadDone, isComplete, isReading, target
  <2>4. CASE CRCDone
    BY <2>4 DEF CRCDone, isReading
  <2>5. CASE Call \/ TCPClose
    BY <2>5 DEF Call, TCPClose, conn, isReading, target, TypeInv, TCPTypeOK
  <2> QED
    BY <2>1, <2>2, <2>3, <2>4, <2>5
<1>8. TCPTypeOK'
  BY <1>1, <1>3, <1>4, <1>5, <1>7, Zenon DEF TypeInv, TCPTypeOK, Bytes
<1> QED
  BY <1>1, <1>3, <1>8, ReceiverType

\* The end of a call of TCPRecv.
LEMMA ReturnType ==
  ASSUME TypeInv, ReadFails \/ Deserialize
  PROVE  TypeInv'
<1>1. /\ UNCHANGED <<stream, sent, closed, recvBuffer, payloadLen>>
      /\ calling' \in BOOLEAN /\ recvState' = "Idle"
  BY DEF ReadFails, Deserialize, stateAfterPacket
<1>2. Written(recvBuffer)' /\ Written(stream)'
  BY <1>1 DEF TypeInv, Written
<1>3. received' = received \/ \E k \in 1 .. Len(sent) : received' = Append(received, k)
  BY DEF ReadFails, Deserialize
<1>4. received' \in Seq(1 .. MaxPackets)
  <2>1. \A k \in 1 .. Len(sent) : k \in 1 .. MaxPackets
    BY Constants DEF TypeInv, TCPTypeOK
  <2>2. received \in Seq(1 .. MaxPackets)
    BY DEF TypeInv, TCPTypeOK
  <2>3. ASSUME NEW k \in 1 .. Len(sent), received' = Append(received, k)
        PROVE  received' \in Seq(1 .. MaxPackets)
    BY <2>1, <2>2, <2>3
  <2> QED
    BY <1>3, <2>2, <2>3
<1>5. badPackets' \in Nat /\ errors' \in 0 .. MaxErrors
  <2>1. badPackets \in Nat /\ errors \in 0 .. MaxErrors /\ MaxErrors \in Nat
    BY Constants DEF TypeInv, TCPTypeOK
  <2>2. badPackets' = badPackets \/ badPackets' = badPackets + 1
    BY Zenon DEF ReadFails, Deserialize
  <2>3. errors' = errors \/ (errors < MaxErrors /\ errors' = errors + 1)
    BY Zenon DEF ReadFails, Deserialize
  <2> QED
    BY <2>1, <2>2, <2>3
<1>6. torn' \in BOOLEAN
  BY Zenon DEF ReadFails, Deserialize, TypeInv, TCPTypeOK
<1>7. (~ isReading)' /\ recvState' \in States
  BY <1>1 DEF isReading, States
<1>8. TCPTypeOK'
  BY <1>1, <1>4, <1>5, <1>6, <1>7, Zenon DEF TypeInv, TCPTypeOK
<1> QED
  BY <1>1, <1>2, <1>3, <1>8, ReceiverType

LEMMA TypeInvInductive == TypeInv /\ [Next]_vars => TypeInv'
<1> SUFFICES ASSUME TypeInv, [Next]_vars PROVE TypeInv'
  OBVIOUS
<1>1. ASSUME NEW size \in PayloadSizes, TCPSend(size) PROVE TypeInv'
  <2>1. PICK t : Grows(size, t)
    BY <1>1, SendGrows
  <2>2. /\ UNCHANGED <<closed, conn, calling, received, badPackets>>
        /\ torn' \in BOOLEAN /\ errors' \in 0 .. MaxErrors
    BY <1>1 DEF TCPSend, history, TypeInv, TCPTypeOK
  <2> QED
    BY <2>1, <2>2, GrowsKeepsType
<1>2. ASSUME NEW size \in PayloadSizes, TCPSendFails(size) PROVE TypeInv'
  <2>1. /\ UNCHANGED <<closed, conn, calling, received, badPackets>>
        /\ errors' \in 0 .. MaxErrors
    BY <1>2, Constants DEF TCPSendFails, TypeInv, TCPTypeOK
  <2>2. CASE UNCHANGED <<sent, stream, torn>>
    <3>1. TCPTypeOK' /\ Written(stream)' /\ Written(recvBuffer)'
      BY <2>1, <2>2 DEF TypeInv, TCPTypeOK, conn, isReading, target, Written
    <3> QED
      BY <2>1, <2>2, <3>1, ReceiverType
  <2>3. ASSUME NEW t, torn' = TRUE, Grows(size, t) PROVE TypeInv'
    BY <2>1, <2>3, GrowsKeepsType
  <2> QED
    BY <1>2, <2>2, <2>3, SendFailsGrows
<1>3. CASE Call \/ StartHeader \/ HeaderDone \/ PayloadDone \/ CRCDone \/ TCPClose
  BY <1>3, ControlType
<1>4. CASE ReadFails \/ Deserialize
  BY <1>4, ReturnType
<1>5. CASE ReadSome
  BY <1>5, ReadType DEF ReadSome
<1>6. CASE UNCHANGED vars
  BY <1>6 DEF vars, conn, history, TypeInv, TCPTypeOK, isReading, target, Written
<1> QED
  BY <1>1, <1>2, <1>3, <1>4, <1>5, <1>6 DEF Next, Progress

(***************************************************************************)
(* The connection and the receive state machine keep their types: the      *)
(* buffer never holds more than the state asks for, whatever length an     *)
(* out-of-step header seems to announce.                                   *)
(***************************************************************************)
THEOREM TCPTypes == Spec => []TCPTypeOK
<1>1. TypeInv => TCPTypeOK
  BY DEF TypeInv
<1> QED
  BY InitType, TypeInvInductive, <1>1, PTL DEF Spec

-----------------------------------------------------------------------------
(***************************************************************************)
(* Order                                                                   *)
(***************************************************************************)
\* Byte a was written before byte b.
Before(a, b) == a[1] < b[1] \/ (a[1] = b[1] /\ a[2] < b[2])

\* The bytes of the stream come in the order in which they were written.
StreamOrdered ==
  \A i, j \in 1 .. Len(stream) : i < j => Before(stream[i], stream[j])

\* What was read came before what is still to be read.
BufferFirst ==
  recvState # "Idle" =>
    \A i \in 1 .. Len(recvBuffer), j \in 1 .. Len(stream) : Before(recvBuffer[i], stream[j])

\* The packets that were returned are older than everything that is left.
ReturnedPast ==
  \A r \in 1 .. Len(received) :
    /\ \A j \in 1 .. Len(stream) : received[r] < stream[j][1]
    /\ recvState # "Idle" => \A i \in 1 .. Len(recvBuffer) : received[r] < recvBuffer[i][1]

(***************************************************************************)
(* That packets are returned in order follows from the order of the bytes: *)
(* a returned packet ended in its last byte, so no other byte of it is     *)
(* left in the connection.  Bytes may be missing anywhere, so this also    *)
(* holds after a failure inside a packet.                                  *)
(***************************************************************************)
OrderInv ==
  /\ TypeInv
  /\ StreamOrdered
  /\ BufferFirst
  /\ ReturnedPast
  /\ NeverOutOfOrder

LEMMA InitOrder == Init => OrderInv
<1> SUFFICES ASSUME Init PROVE OrderInv
  OBVIOUS
<1>1. TypeInv
  BY InitType
<1>2. Len(stream) = 0 /\ Len(received) = 0 /\ recvState = "Idle"
  BY DEF Init
<1> QED
  BY <1>1, <1>2 DEF OrderInv, StreamOrdered, BufferFirst, ReturnedPast, NeverOutOfOrder

\* Everything that was written so far is of an older packet than the next one.
LEMMA GrowsKeepsOrder ==
  ASSUME OrderInv, NEW size, NEW t, Grows(size, t), TypeInv',
         UNCHANGED <<conn, received>>
  PROVE  OrderInv'
<1> DEFINE m == Len(sent) + 1
<1>0. TypeInv /\ UNCHANGED <<recvState, recvBuffer, received>>
  BY DEF OrderInv, conn
<1>1. /\ Len(stream') = Len(stream) + Len(t) /\ Len(stream) \in Nat /\ Len(t) \in Nat
      /\ \A i \in 1 .. Len(stream) : stream'[i] = stream[i]
      /\ \A i \in 1 .. Len(t) : stream'[Len(stream) + i] = <<m, i>>
      /\ Len(sent) \in Nat
  <2>1. Len(stream) \in Nat /\ Len(sent) \in Nat
    BY <1>0 DEF TypeInv, TCPTypeOK
  <2>2. Len(t) \in Nat
    BY DEF Grows
  <2> QED
    BY <1>0, <2>1, <2>2, GrowsType
<1>2. \A j \in 1 .. Len(stream') :
        \/ j \in 1 .. Len(stream) /\ stream'[j] = stream[j]
        \/ \E p \in 1 .. Len(t) : j = Len(stream) + p /\ stream'[j] = <<m, p>>
  <2> SUFFICES ASSUME NEW j \in 1 .. Len(stream'), j \notin 1 .. Len(stream)
               PROVE  \E p \in 1 .. Len(t) : j = Len(stream) + p /\ stream'[j] = <<m, p>>
    BY <1>1
  <2>1. (j - Len(stream)) \in 1 .. Len(t) /\ j = Len(stream) + (j - Len(stream))
    BY <1>1
  <2> QED
    BY <1>1, <2>1
<1>3. \A j \in 1 .. Len(stream) : stream[j][1] \in 1 .. Len(sent)
  BY <1>0 DEF TypeInv, Written
<1>4. StreamOrdered'
  <2> SUFFICES ASSUME NEW i \in 1 .. Len(stream'), NEW j \in 1 .. Len(stream'), i < j
               PROVE  Before(stream'[i], stream'[j])
    BY DEF StreamOrdered
  <2>1. CASE j \in 1 .. Len(stream) /\ stream'[j] = stream[j]
    <3>1. i \in 1 .. Len(stream)
      BY <1>1, <2>1
    <3> QED
      BY <1>1, <2>1, <3>1 DEF OrderInv, StreamOrdered
  <2>2. ASSUME NEW p \in 1 .. Len(t), j = Len(stream) + p, stream'[j] = <<m, p>>
        PROVE  Before(stream'[i], stream'[j])
    <3>1. CASE i \in 1 .. Len(stream) /\ stream'[i] = stream[i]
      <4>1. stream'[i][1] < m
        BY <1>1, <1>3, <3>1
      <4> QED
        BY <2>2, <4>1 DEF Before
    <3>2. ASSUME NEW q \in 1 .. Len(t), i = Len(stream) + q, stream'[i] = <<m, q>>
          PROVE  Before(stream'[i], stream'[j])
      <4>1. q < p
        BY <1>1, <2>2, <3>2
      <4> QED
        BY <2>2, <3>2, <4>1 DEF Before
    <3> QED
      BY <1>2, <3>1, <3>2
  <2> QED
    BY <1>2, <2>1, <2>2
<1>5. BufferFirst'
  <2> SUFFICES ASSUME recvState # "Idle",
                      NEW i \in 1 .. Len(recvBuffer), NEW j \in 1 .. Len(stream')
               PROVE  Before(recvBuffer[i], stream'[j])
    BY <1>0 DEF BufferFirst
  <2>1. CASE j \in 1 .. Len(stream) /\ stream'[j] = stream[j]
    BY <2>1 DEF OrderInv, BufferFirst
  <2>2. ASSUME NEW p \in 1 .. Len(t), stream'[j] = <<m, p>>
        PROVE  Before(recvBuffer[i], stream'[j])
    <3>1. recvBuffer[i][1] \in 1 .. Len(sent)
      BY <1>0 DEF TypeInv, Written
    <3>2. recvBuffer[i][1] < m
      BY <1>1, <3>1
    <3> QED
      BY <2>2, <3>2 DEF Before
  <2> QED
    BY <1>2, <2>1, <2>2
<1>6. ReturnedPast'
  <2> SUFFICES ASSUME NEW r \in 1 .. Len(received), NEW j \in 1 .. Len(stream')
               PROVE  received[r] < stream'[j][1]
    BY <1>0 DEF ReturnedPast, OrderInv
  <2>1. CASE j \in 1 .. Len(stream) /\ stream'[j] = stream[j]
    BY <2>1 DEF OrderInv, ReturnedPast
  <2>2. ASSUME NEW p \in 1 .. Len(t), stream'[j] = <<m, p>>
        PROVE  received[r] < stream'[j][1]
    <3>1. received[r] \in 1 .. Len(sent)
      BY <1>0 DEF TypeInv
    <3>2. received[r] < m
      BY <1>1, <3>1
    <3> QED
      BY <2>2, <3>2
  <2> QED
    BY <1>2, <2>1, <2>2
<1> QED
  BY <1>0, <1>4, <1>5, <1>6 DEF OrderInv, NeverOutOfOrder

LEMMA ReadKeepsOrder ==
  ASSUME OrderInv, NEW n \in 1 .. Len(stream), Read(n), TypeInv'
  PROVE  OrderInv'
<1>0. TypeInv /\ UNCHANGED <<recvState, received>> /\ recvState # "Idle"
  BY DEF OrderInv, Read, history, isReading
<1>1. /\ Len(stream') = Len(stream) - n /\ n \in Nat /\ Len(stream) \in Nat
      /\ Len(recvBuffer) \in Nat
      /\ \A i \in 1 .. (Len(stream) - n) : stream'[i] = stream[n + i]
  BY <1>0, ReadParts
<1>2. \A j \in 1 .. Len(stream') : n + j \in 1 .. Len(stream) /\ stream'[j] = stream[n + j]
  BY <1>1
<1>3. \A i \in 1 .. Len(recvBuffer') :
        \/ i \in 1 .. Len(recvBuffer) /\ recvBuffer'[i] = recvBuffer[i]
        \/ \E k \in 1 .. n : recvBuffer'[i] = stream[k]
  BY <1>0, ReadFrom
<1>4. StreamOrdered'
  <2> SUFFICES ASSUME NEW i \in 1 .. Len(stream'), NEW j \in 1 .. Len(stream'), i < j
               PROVE  Before(stream'[i], stream'[j])
    BY DEF StreamOrdered
  <2>1. n + i < n + j
    BY <1>1
  <2> QED
    BY <1>2, <2>1 DEF OrderInv, StreamOrdered
<1>5. BufferFirst'
  <2> SUFFICES ASSUME NEW i \in 1 .. Len(recvBuffer'), NEW j \in 1 .. Len(stream')
               PROVE  Before(recvBuffer'[i], stream'[j])
    BY DEF BufferFirst
  <2>1. CASE i \in 1 .. Len(recvBuffer) /\ recvBuffer'[i] = recvBuffer[i]
    BY <1>0, <1>2, <2>1 DEF OrderInv, BufferFirst
  <2>2. ASSUME NEW k \in 1 .. n, recvBuffer'[i] = stream[k]
        PROVE  Before(recvBuffer'[i], stream'[j])
    <3>1. k < n + j /\ k \in 1 .. Len(stream)
      BY <1>1
    <3> QED
      BY <1>2, <2>2, <3>1 DEF OrderInv, StreamOrdered
  <2> QED
    BY <1>3, <2>1, <2>2
<1>6. ReturnedPast'
  <2> SUFFICES ASSUME NEW r \in 1 .. Len(received)
               PROVE  /\ \A j \in 1 .. Len(stream') : received[r] < stream'[j][1]
                      /\ \A i \in 1 .. Len(recvBuffer') : received[r] < recvBuffer'[i][1]
    BY <1>0 DEF ReturnedPast
  <2>1. \A j \in 1 .. Len(stream') : received[r] < stream'[j][1]
    BY <1>2 DEF OrderInv, ReturnedPast
  <2>2. ASSUME NEW i \in 1 .. Len(recvBuffer') PROVE received[r] < recvBuffer'[i][1]
    <3>1. CASE i \in 1 .. Len(recvBuffer) /\ recvBuffer'[i] = recvBuffer[i]
      BY <1>0, <3>1 DEF OrderInv, ReturnedPast
    <3>2. ASSUME NEW k \in 1 .. n, recvBuffer'[i] = stream[k]
          PROVE  received[r] < recvBuffer'[i][1]
      <4>1. k \in 1 .. Len(stream)
        BY <1>1
      <4> QED
        BY <3>2, <4>1 DEF OrderInv, ReturnedPast
    <3> QED
      BY <1>3, <3>1, <3>2
  <2> QED
    BY <2>1, <2>2
<1> QED
  BY <1>0, <1>4, <1>5, <1>6 DEF OrderInv, NeverOutOfOrder

\* Steps of the receiver that return no packet and read nothing.
LEMMA StateKeepsOrder ==
  ASSUME OrderInv, TypeInv', UNCHANGED <<stream, received>>,
         \/ recvState' = "Idle"
         \/ recvBuffer' = <<>>
         \/ recvState # "Idle" /\ recvBuffer' = recvBuffer
         \/ UNCHANGED <<recvState, recvBuffer>>
  PROVE  OrderInv'
<1>1. StreamOrdered' /\ NeverOutOfOrder'
  BY DEF OrderInv, StreamOrdered, NeverOutOfOrder
<1>2. ASSUME recvState' # "Idle", NEW i \in 1 .. Len(recvBuffer')
      PROVE  i \in 1 .. Len(recvBuffer) /\ recvBuffer'[i] = recvBuffer[i] /\ recvState # "Idle"
  <2>1. recvBuffer' # <<>>
    BY <1>2
  <2> QED
    BY <1>2, <2>1
<1>3. BufferFirst'
  BY <1>2 DEF OrderInv, BufferFirst
<1>4. ReturnedPast'
  BY <1>2 DEF OrderInv, ReturnedPast
<1> QED
  BY <1>1, <1>3, <1>4 DEF OrderInv

\* A packet is returned: its last byte was read, so the connection holds only
\* bytes of later packets.
LEMMA PacketKeepsOrder ==
  ASSUME OrderInv, TypeInv', NEW k \in 1 .. Len(sent), isPacket(k), recvState = "Ready",
         UNCHANGED <<stream, sent, recvBuffer>>, recvState' = "Idle",
         received' = Append(received, k)
  PROVE  OrderInv'
<1> DEFINE z == packetSize(sent[k])
<1>0. TypeInv /\ k \in 1 .. MaxPackets
  BY Constants DEF OrderInv, TypeInv, TCPTypeOK
<1>1. z \in Nat /\ z >= 1 /\ sent[k] \in Nat
  BY <1>0, SizeType
<1>2. Len(recvBuffer) = z /\ \A j \in 1 .. z : recvBuffer[j] = <<k, j>>
  BY <1>0, <1>1, SerializedAt DEF isPacket, packetSize
<1> HIDE DEF z
<1>3. 1 \in 1 .. Len(recvBuffer) /\ z \in 1 .. Len(recvBuffer)
      /\ recvBuffer[1] = <<k, 1>> /\ recvBuffer[z] = <<k, z>>
  BY <1>1, <1>2
<1>4. ASSUME NEW j \in 1 .. Len(stream) PROVE k < stream[j][1]
  <2>1. Before(<<k, z>>, stream[j])
    BY <1>3 DEF OrderInv, BufferFirst
  <2>2. stream[j][1] \in 1 .. Len(sent) /\ stream[j][2] \in 1 .. packetSize(sent[stream[j][1]])
    BY <1>0 DEF TypeInv, Written
  <2>3. ASSUME k = stream[j][1], z < stream[j][2] PROVE FALSE
    BY <1>1, <2>2, <2>3 DEF z
  <2> QED
    BY <2>1, <2>3 DEF Before
<1>5. ASSUME NEW r \in 1 .. Len(received) PROVE received[r] < k
  <2>1. received[r] < recvBuffer[1][1]
    BY <1>3 DEF OrderInv, ReturnedPast
  <2> QED
    BY <1>3, <2>1
<1>6. /\ Len(received') = Len(received) + 1 /\ Len(received) \in Nat
      /\ received'[Len(received) + 1] = k
      /\ \A r \in 1 .. Len(received) : received'[r] = received[r]
  BY <1>0 DEF TypeInv, TCPTypeOK
<1>7. \A r \in 1 .. Len(received') :
        \/ r \in 1 .. Len(received) /\ received'[r] = received[r]
        \/ r = Len(received) + 1 /\ received'[r] = k
  <2>1. \A r \in 1 .. Len(received') : r \in 1 .. Len(received) \/ r = Len(received) + 1
    BY <1>6
  <2> QED
    BY <1>6, <2>1
<1>8. StreamOrdered' /\ BufferFirst'
  BY DEF OrderInv, StreamOrdered, BufferFirst
<1>9. ReturnedPast'
  BY <1>4, <1>7 DEF OrderInv, ReturnedPast
<1>10. NeverOutOfOrder'
  <2> SUFFICES ASSUME NEW i \in 1 .. Len(received'), NEW j \in 1 .. Len(received'), i < j
               PROVE  received'[i] < received'[j]
    BY DEF NeverOutOfOrder
  <2>1. i \in 1 .. Len(received) /\ received'[i] = received[i]
    BY <1>6
  <2>2. CASE j \in 1 .. Len(received) /\ received'[j] = received[j]
    BY <2>1, <2>2 DEF OrderInv, NeverOutOfOrder
  <2>3. CASE received'[j] = k
    BY <1>5, <2>1, <2>3
  <2> QED
    BY <1>7, <2>2, <2>3
<1> QED
  BY <1>8, <1>9, <1>10 DEF OrderInv

LEMMA OrderInductive == OrderInv /\ [Next]_vars => OrderInv'
<1> SUFFICES ASSUME OrderInv, [Next]_vars PROVE OrderInv'
  OBVIOUS
<1>0. TypeInv /\ TypeInv'
  BY TypeInvInductive DEF OrderInv
<1>1. ASSUME NEW size \in PayloadSizes, TCPSend(size) PROVE OrderInv'
  <2>1. PICK t : Grows(size, t)
    BY <1>0, <1>1, SendGrows
  <2>2. UNCHANGED <<conn, received>>
    BY <1>1 DEF TCPSend, history
  <2> QED
    BY <1>0, <2>1, <2>2, GrowsKeepsOrder
<1>2. ASSUME NEW size \in PayloadSizes, TCPSendFails(size) PROVE OrderInv'
  <2>1. UNCHANGED <<conn, received>>
    BY <1>2 DEF TCPSendFails
  <2>2. CASE UNCHANGED <<sent, stream, torn>>
    BY <1>0, <2>1, <2>2, StateKeepsOrder DEF conn
  <2>3. ASSUME NEW t, Grows(size, t) PROVE OrderInv'
    BY <1>0, <2>1, <2>3, GrowsKeepsOrder
  <2> QED
    BY <1>0, <1>2, <2>2, <2>3, SendFailsGrows
<1>3. CASE StartHeader
  BY <1>0, <1>3, StateKeepsOrder DEF StartHeader, history
<1>4. CASE Call \/ TCPClose \/ HeaderDone \/ PayloadDone \/ CRCDone
  <2>1. UNCHANGED <<stream, received, recvBuffer>>
    BY <1>4 DEF Call, TCPClose, HeaderDone, PayloadDone, CRCDone, conn, history
  <2>2. recvState # "Idle" \/ UNCHANGED recvState
    BY <1>4 DEF Call, TCPClose, HeaderDone, PayloadDone, CRCDone, conn
  <2> QED
    BY <1>0, <2>1, <2>2, StateKeepsOrder
<1>5. CASE ReadFails
  BY <1>0, <1>5, StateKeepsOrder DEF ReadFails
<1>6. CASE Deserialize
  <2>1. recvState = "Ready" /\ recvState' = "Idle" /\ UNCHANGED <<stream, sent, recvBuffer>>
    BY <1>6 DEF Deserialize, stateAfterPacket
  <2>2. CASE received' = received
    BY <1>0, <2>1, <2>2, StateKeepsOrder
  <2>3. ASSUME NEW k \in 1 .. Len(sent), isPacket(k), received' = Append(received, k)
        PROVE  OrderInv'
    BY <1>0, <2>1, <2>3, PacketKeepsOrder
  <2> QED
    BY <1>6, <2>2, <2>3 DEF Deserialize
<1>7. CASE ReadSome
  BY <1>0, <1>7, ReadKeepsOrder DEF ReadSome
<1>8. CASE UNCHANGED vars
  BY <1>0, <1>8, StateKeepsOrder DEF vars, conn, history
<1> QED
  BY <1>1, <1>2, <1>3, <1>4, <1>5, <1>6, <1>7, <1>8 DEF Next, Progress

(***************************************************************************)
(* TCPRecv never returns a packet twice or out of order, also after Reads  *)
(* and Writes that failed in the middle of packets.                        *)
(***************************************************************************)
THEOREM PacketsInOrder == Spec => []NeverOutOfOrder
<1>1. OrderInv => NeverOutOfOrder
  BY DEF OrderInv
<1> QED
  BY InitOrder, OrderInductive, <1>1, PTL DEF Spec

-----------------------------------------------------------------------------
(***************************************************************************)
(* Framing                                                                 *)
(***************************************************************************)
\* The number of the packet that TCPRecv is to return next.
nextPacket == Len(received) + 1

\* A packet lies in the stream without a gap.
PacketsWhole ==
  \A i, j \in 1 .. Len(stream) :
    i <= j /\ stream[i][2] + (j - i) <= packetSize(sent[stream[i][1]])
      => stream[j] = <<stream[i][1], stream[i][2] + (j - i)>>

\* The next packet starts where a packet ends.
PacketsAdjoin ==
  \A i \in 1 .. Len(stream) :
    i + 1 <= Len(stream) /\ stream[i][2] = packetSize(sent[stream[i][1]])
      => stream[i + 1] = <<stream[i][1] + 1, 1>>

\* The last byte of the stream is the last byte of the last packet.
StreamComplete ==
  Len(stream) > 0 =>
    stream[Len(stream)] = <<Len(sent), packetSize(sent[Len(sent)])>>

\* The bytes read since the last packet; an idle connection will drop its buffer.
taken == IF recvState = "Idle" THEN 0 ELSE Len(recvBuffer)

\* The first byte that TCPRecv has not read.
firstUnread ==
  IF taken > 0 /\ taken = packetSize(sent[nextPacket])
  THEN <<nextPacket + 1, 1>>
  ELSE <<nextPacket, taken + 1>>

\* The stream goes on where the receiver stopped.
StreamFollows ==
  IF Len(stream) > 0 THEN stream[1] = firstUnread ELSE firstUnread = <<Len(sent) + 1, 1>>

\* The buffer holds the first bytes of the next packet.
BufferIsPrefix == \A i \in 1 .. taken : recvBuffer[i] = <<nextPacket, i>>

\* Once the header was read, its length is known.
HeaderKnown ==
  recvState \in {"ReadingPayload", "ReadingCRC", "Ready"} =>
    /\ taken >= HeaderSize
    /\ payloadLen = sent[nextPacket]
    /\ recvState = "Ready" => taken = packetSize(sent[nextPacket])

(***************************************************************************)
(* That the framing is kept depends on what is in the stream: whole        *)
(* packets, one after the other, from the byte at which the receiver       *)
(* stopped to the last byte of the last packet.                            *)
(***************************************************************************)
Framed ==
  /\ FramingKept
  /\ PacketsWhole
  /\ PacketsAdjoin
  /\ StreamComplete
  /\ StreamFollows
  /\ BufferIsPrefix
  /\ HeaderKnown

FramingInv == TypeInv /\ (~ torn => Framed)

LEMMA InitFraming == Init => FramingInv
<1> SUFFICES ASSUME Init PROVE FramingInv
  OBVIOUS
<1>1. TypeInv
  BY InitType
<1>2. /\ Len(stream) = 0 /\ Len(received) = 0 /\ Len(sent) = 0
      /\ recvState = "Idle" /\ badPackets = 0 /\ received = <<>>
  BY DEF Init
<1>3. taken = 0 /\ nextPacket = 1 /\ firstUnread = <<1, 1>>
  BY <1>2 DEF taken, nextPacket, firstUnread
<1>4. FramingKept
  <2>1. received = [k \in 1 .. Len(received) |-> k]
    BY <1>2
  <2> QED
    BY <1>2, <2>1 DEF FramingKept
<1>5. PacketsWhole /\ PacketsAdjoin /\ StreamComplete
  BY <1>2 DEF PacketsWhole, PacketsAdjoin, StreamComplete
<1>6. StreamFollows /\ BufferIsPrefix /\ HeaderKnown
  BY <1>2, <1>3 DEF StreamFollows, BufferIsPrefix, HeaderKnown
<1> QED
  BY <1>1, <1>4, <1>5, <1>6 DEF FramingInv, Framed

\* The bytes of the stream, their numbers and the sizes of their packets.
LEMMA StreamBytes ==
  ASSUME TypeInv, NEW i \in 1 .. Len(stream)
  PROVE  /\ stream[i] = <<stream[i][1], stream[i][2]>>
         /\ stream[i][1] \in 1 .. Len(sent) /\ stream[i][1] \in Nat
         /\ stream[i][2] \in Nat /\ stream[i][2] >= 1
         /\ stream[i][2] <= packetSize(sent[stream[i][1]])
         /\ packetSize(sent[stream[i][1]]) \in Nat
<1>1. stream[i] \in (1 .. MaxPackets) \X Nat
  BY DEF TypeInv, TCPTypeOK
<1>2. /\ stream[i][1] \in 1 .. Len(sent)
      /\ stream[i][2] \in 1 .. packetSize(sent[stream[i][1]])
  BY DEF TypeInv, Written
<1>3. packetSize(sent[stream[i][1]]) \in Nat
  BY <1>2, SizeType
<1>4. stream[i] = <<stream[i][1], stream[i][2]>> /\ stream[i][1] \in Nat /\ stream[i][2] \in Nat
  BY <1>1, Constants
<1> QED
  BY <1>2, <1>3, <1>4

\* The receiver, in numbers.
LEMMA TakenType ==
  ASSUME TypeInv
  PROVE  /\ taken \in Nat /\ Len(received) \in Nat /\ nextPacket \in Nat /\ nextPacket >= 1
         /\ Len(sent) \in Nat /\ Len(stream) \in Nat /\ Len(recvBuffer) \in Nat
<1>1. Len(received) \in Nat /\ Len(sent) \in Nat /\ Len(stream) \in Nat /\ Len(recvBuffer) \in Nat
  BY DEF TypeInv, TCPTypeOK
<1> QED
  BY <1>1 DEF taken, nextPacket

\* A packet of which something was read was sent, and has room for what was read.
LEMMA TakenFits ==
  ASSUME TypeInv, BufferIsPrefix, taken > 0
  PROVE  /\ nextPacket \in 1 .. Len(sent)
         /\ taken <= packetSize(sent[nextPacket])
         /\ packetSize(sent[nextPacket]) \in Nat
<1>0. taken \in Nat /\ recvState # "Idle" /\ taken = Len(recvBuffer)
  BY TakenType DEF taken
<1>1. taken \in 1 .. Len(recvBuffer) /\ recvBuffer[taken] = <<nextPacket, taken>>
  BY <1>0 DEF BufferIsPrefix
<1>2. /\ recvBuffer[taken][1] \in 1 .. Len(sent)
      /\ recvBuffer[taken][2] \in 1 .. packetSize(sent[recvBuffer[taken][1]])
  BY <1>1 DEF TypeInv, Written
<1>3. nextPacket \in 1 .. Len(sent) /\ taken \in 1 .. packetSize(sent[nextPacket])
  BY <1>1, <1>2
<1> QED
  BY <1>3, SizeType

-----------------------------------------------------------------------------
\* TCPSend: a whole packet follows the last byte of the packet before it.
LEMMA SendKeepsStream ==
  ASSUME TypeInv, Framed, NEW size \in PayloadSizes, NEW t, Grows(size, t),
         Len(t) = packetSize(size)
  PROVE  PacketsWhole' /\ PacketsAdjoin' /\ StreamComplete'
<1> DEFINE m == Len(sent) + 1
           l == Len(stream)
           z == packetSize(size)
<1>0. l \in Nat /\ m \in Nat /\ z \in Nat /\ z >= 1 /\ Len(sent) \in Nat
  <2>1. size \in Nat /\ HeaderSize \in Nat /\ CRCSize \in Nat /\ HeaderSize >= 1
    BY Constants
  <2>2. z \in Nat /\ z >= 1
    BY <2>1 DEF packetSize
  <2> HIDE DEF z
  <2> QED
    BY <2>2, TakenType
<1>1. /\ Len(stream') = l + z
      /\ \A i \in 1 .. l : stream'[i] = stream[i]
      /\ \A i \in 1 .. z : stream'[l + i] = <<m, i>>
      /\ sent'[m] = size /\ Len(sent') = m
      /\ \A k \in 1 .. Len(sent) : sent'[k] = sent[k]
  BY GrowsType
<1>2. packetSize(sent'[m]) = z
  BY <1>1
<1>3. \A i \in 1 .. l : /\ stream'[i] = stream[i]
                        /\ sent'[stream[i][1]] = sent[stream[i][1]]
                        /\ packetSize(sent'[stream[i][1]]) = packetSize(sent[stream[i][1]])
  BY <1>1, StreamBytes
<1> HIDE DEF m, z, l
<1>4. \A i \in 1 .. (l + z) :
        i \in 1 .. l \/ \E p \in 1 .. z : i = l + p /\ stream'[i] = <<m, p>>
  <2> SUFFICES ASSUME NEW i \in 1 .. (l + z), i \notin 1 .. l
               PROVE  \E p \in 1 .. z : i = l + p /\ stream'[i] = <<m, p>>
    OBVIOUS
  <2>1. (i - l) \in 1 .. z /\ i = l + (i - l)
    BY <1>0
  <2> QED
    BY <1>1, <2>1
<1>5. ASSUME NEW i \in 1 .. l, NEW j, j > l, j \in Nat,
             stream[i][2] + (j - i) <= packetSize(sent[stream[i][1]])
      PROVE  FALSE
  <2>1. /\ stream[i][1] \in Nat /\ stream[i][2] \in Nat
        /\ packetSize(sent[stream[i][1]]) \in Nat
    BY StreamBytes DEF l
  <2>2. i <= l /\ l \in 1 .. l /\ l > 0
    BY <1>0
  <2>3. stream[i][2] + (l - i) <= packetSize(sent[stream[i][1]])
        /\ stream[i][2] + (l - i) < stream[i][2] + (j - i)
    BY <1>0, <1>5, <2>1
  <2>4. stream[l] = <<stream[i][1], stream[i][2] + (l - i)>>
    BY <2>2, <2>3 DEF Framed, PacketsWhole, l
  <2>5. stream[l] = <<Len(sent), packetSize(sent[Len(sent)])>>
    BY <2>2 DEF Framed, StreamComplete, l
  <2>6. stream[i][1] = Len(sent) /\ stream[i][2] + (l - i) = packetSize(sent[Len(sent)])
    BY <2>4, <2>5
  <2>7. stream[i][2] + (l - i) = packetSize(sent[stream[i][1]])
    BY <2>6
  <2> QED
    BY <1>0, <1>5, <2>1, <2>3, <2>7
<1>6. PacketsWhole'
  <2> SUFFICES ASSUME NEW i \in 1 .. (l + z), NEW j \in 1 .. (l + z), i <= j,
                      stream'[i][2] + (j - i) <= packetSize(sent'[stream'[i][1]])
               PROVE  stream'[j] = <<stream'[i][1], stream'[i][2] + (j - i)>>
    BY <1>1 DEF PacketsWhole
  <2>1. CASE i \in 1 .. l
    <3>1. stream[i][2] + (j - i) <= packetSize(sent[stream[i][1]])
      BY <1>3, <2>1
    <3>2. j \in 1 .. l
      <4>1. j \in Nat /\ j >= 1
        BY <1>0
      <4>2. ~ (j > l)
        BY <1>5, <2>1, <3>1, <4>1
      <4> QED
        BY <1>0, <4>1, <4>2
    <3> QED
      BY <1>3, <2>1, <3>1, <3>2 DEF Framed, PacketsWhole, l
  <2>2. ASSUME NEW p \in 1 .. z, i = l + p, stream'[i] = <<m, p>>
        PROVE  stream'[j] = <<stream'[i][1], stream'[i][2] + (j - i)>>
    <3>1. j \notin 1 .. l
      BY <1>0, <2>2
    <3>2. PICK q \in 1 .. z : j = l + q /\ stream'[j] = <<m, q>>
      BY <1>4, <3>1
    <3>3. p + (j - i) = q
      BY <1>0, <2>2, <3>2
    <3> QED
      BY <2>2, <3>2, <3>3
  <2> QED
    BY <1>4, <2>1, <2>2
<1>7. PacketsAdjoin'
  <2> SUFFICES ASSUME NEW i \in 1 .. (l + z), i + 1 <= l + z,
                      stream'[i][2] = packetSize(sent'[stream'[i][1]])
               PROVE  stream'[i + 1] = <<stream'[i][1] + 1, 1>>
    BY <1>1 DEF PacketsAdjoin
  <2>1. CASE i \in 1 .. l /\ i # l
    <3>1. i + 1 \in 1 .. l /\ i + 1 <= l
      BY <1>0, <2>1
    <3>2. stream[i][2] = packetSize(sent[stream[i][1]])
      BY <1>3, <2>1
    <3>3. stream[i + 1] = <<stream[i][1] + 1, 1>>
      BY <2>1, <3>1, <3>2 DEF Framed, PacketsAdjoin, l
    <3> QED
      BY <1>3, <2>1, <3>1, <3>3
  <2>2. CASE i \in 1 .. l /\ i = l
    <3>1. stream[l][1] = Len(sent)
      BY <1>0, <2>2 DEF Framed, StreamComplete, l
    <3>2. stream'[l + 1] = <<m, 1>>
      BY <1>0, <1>1
    <3> QED
      BY <1>3, <2>2, <3>1, <3>2 DEF m
  <2>3. ASSUME NEW p \in 1 .. z, i = l + p, stream'[i] = <<m, p>> PROVE FALSE
    <3>1. p = z
      BY <1>2, <2>3
    <3> QED
      BY <1>0, <2>3, <3>1
  <2> QED
    BY <1>4, <2>1, <2>2, <2>3
<1>8. StreamComplete'
  <2>1. stream'[l + z] = <<m, z>>
    <3>1. z \in 1 .. z
      BY <1>0
    <3> QED
      BY <1>1, <3>1
  <2> QED
    BY <1>1, <1>2, <2>1 DEF StreamComplete
<1> QED
  BY <1>6, <1>7, <1>8

LEMMA SendKeepsFraming ==
  ASSUME TypeInv, TypeInv', Framed, NEW size \in PayloadSizes, NEW t, Grows(size, t),
         Len(t) = packetSize(size), UNCHANGED <<conn, received, badPackets>>
  PROVE  Framed'
<1>0. UNCHANGED <<recvState, recvBuffer, payloadLen>>
  BY DEF conn
<1>1. /\ Len(stream') = Len(stream) + Len(t)
      /\ \A i \in 1 .. Len(stream) : stream'[i] = stream[i]
      /\ \A i \in 1 .. Len(t) : stream'[Len(stream) + i] = <<Len(sent) + 1, i>>
      /\ \A k \in 1 .. Len(sent) : sent'[k] = sent[k]
  BY GrowsType
<1>2. Len(t) \in Nat /\ Len(t) >= 1
  <2>1. size \in Nat /\ HeaderSize \in Nat /\ CRCSize \in Nat /\ HeaderSize >= 1
    BY Constants
  <2> QED
    BY <2>1 DEF packetSize
<1>3. taken' = taken /\ nextPacket' = nextPacket
  BY <1>0 DEF taken, nextPacket
<1>4. taken > 0 => sent'[nextPacket] = sent[nextPacket]
  BY <1>1, TakenFits DEF Framed
<1>5. firstUnread' = firstUnread
  <2>1. CASE taken > 0
    BY <1>3, <1>4, <2>1 DEF firstUnread
  <2>2. CASE ~ (taken > 0)
    BY <1>3, <2>2 DEF firstUnread
  <2> QED
    BY <2>1, <2>2
<1>6. FramingKept' /\ BufferIsPrefix'
  BY <1>0, <1>3 DEF Framed, FramingKept, BufferIsPrefix
<1>7. HeaderKnown'
  <2> SUFFICES ASSUME recvState \in {"ReadingPayload", "ReadingCRC", "Ready"}
               PROVE  /\ taken >= HeaderSize
                      /\ payloadLen = sent'[nextPacket]
                      /\ recvState = "Ready" => taken = packetSize(sent'[nextPacket])
    BY <1>0, <1>3 DEF HeaderKnown
  <2>1. taken >= HeaderSize
    BY DEF Framed, HeaderKnown
  <2>2. taken > 0
    BY <2>1, Constants, TakenType
  <2> QED
    BY <1>4, <2>1, <2>2 DEF Framed, HeaderKnown
<1>8. StreamFollows'
  <2>0. Len(stream) \in Nat
    BY TakenType
  <2>1. CASE Len(stream) > 0
    <3>1. Len(stream') > 0 /\ stream'[1] = stream[1]
      BY <1>1, <1>2, <2>0, <2>1
    <3> QED
      BY <1>5, <2>1, <3>1 DEF Framed, StreamFollows
  <2>2. CASE ~ (Len(stream) > 0)
    <3>1. Len(stream') > 0 /\ stream'[1] = <<Len(sent) + 1, 1>>
      <4>1. Len(stream) = 0 /\ 1 \in 1 .. Len(t) /\ Len(stream) + 1 = 1
        BY <1>2, <2>0, <2>2
      <4> QED
        BY <1>1, <1>2, <4>1
    <3> QED
      BY <1>5, <2>2, <3>1 DEF Framed, StreamFollows
  <2> QED
    BY <2>1, <2>2
<1> QED
  BY <1>6, <1>7, <1>8, SendKeepsStream DEF Framed

-----------------------------------------------------------------------------
\* What the state machine asks for next belongs to the packet it is reading.
LEMMA ReadWithinPacket ==
  ASSUME TypeInv, Framed, NEW n \in 1 .. Len(stream), Read(n)
  PROVE  /\ nextPacket \in 1 .. Len(sent)
         /\ taken + n <= packetSize(sent[nextPacket])
         /\ packetSize(sent[nextPacket]) \in Nat
         /\ taken = Len(recvBuffer)
         /\ stream[1] = <<nextPacket, taken + 1>>
<1> DEFINE z == packetSize(sent[nextPacket])
<1>0. isReading /\ n \in 1 .. (target - Len(recvBuffer))
  BY DEF Read
<1>1. /\ taken = Len(recvBuffer) /\ taken \in Nat /\ Len(stream) \in Nat /\ Len(stream) > 0
      /\ n \in Nat /\ n >= 1
  BY <1>0, TakenType DEF taken, isReading
<1>2. stream[1] = firstUnread
  BY <1>1 DEF Framed, StreamFollows
<1>3. 1 \in 1 .. Len(stream)
  BY <1>1
<1>4. payloadLen \in Nat /\ HeaderSize \in Nat /\ CRCSize \in Nat /\ HeaderSize >= 1
  BY Constants DEF TypeInv, TCPTypeOK
<1>5. CASE recvState = "ReadingHeader"
  <2>1. target = HeaderSize /\ taken < HeaderSize /\ taken + n <= HeaderSize
    BY <1>0, <1>1, <1>4, <1>5 DEF target
  <2>2. taken > 0 => taken # z
    BY <1>1, <1>4, <2>1, TakenFits, SizeType DEF Framed
  <2>3. stream[1] = <<nextPacket, taken + 1>>
    BY <1>2, <2>2 DEF firstUnread
  <2>4. nextPacket \in 1 .. Len(sent)
    BY <1>3, <2>3, StreamBytes
  <2>5. z \in Nat /\ HeaderSize <= z
    BY <2>4, SizeType
  <2> QED
    BY <1>1, <1>4, <2>1, <2>3, <2>4, <2>5
<1>6. CASE recvState \in {"ReadingPayload", "ReadingCRC"}
  <2>1. taken >= HeaderSize /\ payloadLen = sent[nextPacket]
    BY <1>6 DEF Framed, HeaderKnown
  <2>2. taken > 0
    BY <1>1, <1>4, <2>1
  <2>3. nextPacket \in 1 .. Len(sent) /\ z \in Nat
    BY <2>2, TakenFits DEF Framed
  <2>4. target <= z /\ target \in Nat
    BY <1>4, <1>6, <2>1 DEF target, packetSize
  <2>5. taken + n <= z /\ taken < z
    BY <1>0, <1>1, <2>3, <2>4
  <2>6. stream[1] = <<nextPacket, taken + 1>>
    BY <1>1, <1>2, <2>3, <2>5 DEF firstUnread
  <2> QED
    BY <1>1, <2>3, <2>5, <2>6
<1> QED
  BY <1>0, <1>5, <1>6 DEF isReading

\* The bytes a Read takes are the next bytes of that packet.
LEMMA ReadBytes ==
  ASSUME TypeInv, Framed, NEW n \in 1 .. Len(stream), Read(n),
         NEW j \in 1 .. Len(stream), taken + j <= packetSize(sent[nextPacket])
  PROVE  stream[j] = <<nextPacket, taken + j>>
<1>1. /\ stream[1] = <<nextPacket, taken + 1>> /\ taken \in Nat
      /\ packetSize(sent[nextPacket]) \in Nat /\ Len(stream) \in Nat /\ nextPacket \in Nat
  BY ReadWithinPacket, TakenType
<1>2. 1 \in 1 .. Len(stream) /\ 1 <= j /\ (taken + 1) + (j - 1) = taken + j
  BY <1>1
<1>3. stream[1][1] = nextPacket /\ stream[1][2] = taken + 1
  BY <1>1
<1>4. stream[1][2] + (j - 1) <= packetSize(sent[stream[1][1]])
  BY <1>2, <1>3
<1>5. stream[j] = <<stream[1][1], stream[1][2] + (j - 1)>>
  BY <1>2, <1>4 DEF Framed, PacketsWhole
<1> QED
  BY <1>2, <1>3, <1>5

\* The rest of the stream is still in one piece.
LEMMA ReadKeepsStream ==
  ASSUME TypeInv, Framed, NEW n \in 1 .. Len(stream), Read(n)
  PROVE  PacketsWhole' /\ PacketsAdjoin' /\ StreamComplete'
<1>0. sent' = sent
  BY DEF Read
<1>1. /\ Len(stream') = Len(stream) - n /\ n \in Nat /\ Len(stream) \in Nat
      /\ \A i \in 1 .. (Len(stream) - n) : stream'[i] = stream[n + i]
  BY ReadParts
<1>2. \A j \in 1 .. Len(stream') : n + j \in 1 .. Len(stream) /\ stream'[j] = stream[n + j]
  BY <1>1
<1>3. PacketsWhole'
  <2> SUFFICES ASSUME NEW i \in 1 .. Len(stream'), NEW j \in 1 .. Len(stream'), i <= j,
                      stream'[i][2] + (j - i) <= packetSize(sent[stream'[i][1]])
               PROVE  stream'[j] = <<stream'[i][1], stream'[i][2] + (j - i)>>
    BY <1>0 DEF PacketsWhole
  <2>1. (n + j) - (n + i) = j - i /\ n + i <= n + j
    BY <1>1
  <2>2. stream[n + i][2] + ((n + j) - (n + i)) <= packetSize(sent[stream[n + i][1]])
    BY <1>2, <2>1
  <2>3. stream[n + j] = <<stream[n + i][1], stream[n + i][2] + ((n + j) - (n + i))>>
    BY <1>2, <2>1, <2>2 DEF Framed, PacketsWhole
  <2> QED
    BY <1>2, <2>1, <2>3
<1>4. PacketsAdjoin'
  <2> SUFFICES ASSUME NEW i \in 1 .. Len(stream'), i + 1 <= Len(stream'),
                      stream'[i][2] = packetSize(sent[stream'[i][1]])
               PROVE  stream'[i + 1] = <<stream'[i][1] + 1, 1>>
    BY <1>0 DEF PacketsAdjoin
  <2>1. i + 1 \in 1 .. Len(stream') /\ n + (i + 1) = (n + i) + 1 /\ (n + i) + 1 <= Len(stream)
    BY <1>1
  <2>2. stream[(n + i) + 1] = <<stream[n + i][1] + 1, 1>>
    BY <1>2, <2>1 DEF Framed, PacketsAdjoin
  <2> QED
    BY <1>2, <2>1, <2>2
<1>5. StreamComplete'
  <2> SUFFICES ASSUME Len(stream') > 0
               PROVE  stream'[Len(stream')] = <<Len(sent), packetSize(sent[Len(sent)])>>
    BY <1>0 DEF StreamComplete
  <2>1. Len(stream') \in 1 .. Len(stream') /\ n + Len(stream') = Len(stream) /\ Len(stream) > 0
    BY <1>1
  <2>2. stream'[Len(stream')] = stream[Len(stream)]
    BY <1>2, <2>1
  <2> QED
    BY <2>1, <2>2 DEF Framed, StreamComplete
<1> QED
  BY <1>3, <1>4, <1>5

LEMMA ReadKeepsFraming ==
  ASSUME TypeInv, TypeInv', Framed, NEW n \in 1 .. Len(stream), Read(n)
  PROVE  Framed'
<1> DEFINE z == packetSize(sent[nextPacket])
<1>0. /\ UNCHANGED <<sent, recvState, payloadLen, received, badPackets>>
      /\ isReading
  BY DEF Read, history
<1>1. /\ nextPacket \in 1 .. Len(sent) /\ taken + n <= z /\ z \in Nat
      /\ taken = Len(recvBuffer)
  BY ReadWithinPacket
<1>2. /\ Len(recvBuffer') = Len(recvBuffer) + n /\ n \in Nat /\ taken \in Nat /\ n >= 1
      /\ Len(stream) \in Nat /\ Len(stream') = Len(stream) - n
      /\ \A i \in 1 .. (Len(stream) - n) : stream'[i] = stream[n + i]
      /\ nextPacket \in Nat
  <2>1. n >= 1
    OBVIOUS
  <2> QED
    BY <2>1, ReadParts, TakenType
<1>3. taken' = taken + n /\ nextPacket' = nextPacket
  BY <1>0, <1>1, <1>2 DEF taken, nextPacket, isReading
<1>4. BufferIsPrefix'
  <2> SUFFICES ASSUME NEW i \in 1 .. (taken + n)
               PROVE  recvBuffer'[i] = <<nextPacket, i>>
    BY <1>3 DEF BufferIsPrefix
  <2>1. i \in 1 .. Len(recvBuffer')
    BY <1>1, <1>2
  <2>2. CASE i \in 1 .. Len(recvBuffer) /\ recvBuffer'[i] = recvBuffer[i]
    BY <1>1, <2>2 DEF Framed, BufferIsPrefix
  <2>3. ASSUME NEW j \in 1 .. n, i = Len(recvBuffer) + j, recvBuffer'[i] = stream[j]
        PROVE  recvBuffer'[i] = <<nextPacket, i>>
    <3>1. j \in 1 .. Len(stream) /\ taken + j <= z /\ i = taken + j
      BY <1>1, <1>2, <2>3
    <3>2. stream[j] = <<nextPacket, taken + j>>
      BY <3>1, ReadBytes
    <3> QED
      BY <2>3, <3>1, <3>2
  <2> QED
    BY <2>1, <2>2, <2>3, ReadFrom
<1>5. HeaderKnown'
  <2> SUFFICES ASSUME recvState \in {"ReadingPayload", "ReadingCRC"}
               PROVE  taken + n >= HeaderSize /\ payloadLen = sent[nextPacket]
    BY <1>0, <1>3 DEF HeaderKnown, isReading
  <2>1. taken >= HeaderSize /\ payloadLen = sent[nextPacket]
    BY DEF Framed, HeaderKnown
  <2> QED
    BY <1>2, <2>1, Constants
<1>6. FramingKept'
  BY <1>0 DEF Framed, FramingKept
<1>7. stream[n] = <<nextPacket, taken + n>>
  BY <1>1, <1>2, ReadBytes
<1>8. n = Len(stream) => nextPacket = Len(sent) /\ taken + n = z
  <2> SUFFICES ASSUME n = Len(stream) PROVE nextPacket = Len(sent) /\ taken + n = z
    OBVIOUS
  <2>1. stream[n] = <<Len(sent), packetSize(sent[Len(sent)])>>
    BY <1>2 DEF Framed, StreamComplete
  <2>2. nextPacket = Len(sent) /\ taken + n = packetSize(sent[Len(sent)])
    BY <1>7, <2>1
  <2> QED
    BY <2>2
<1>9. StreamFollows'
  <2>1. firstUnread' = IF taken + n = z THEN <<nextPacket + 1, 1>>
                       ELSE <<nextPacket, (taken + n) + 1>>
    <3>1. taken + n > 0
      BY <1>2
    <3> QED
      BY <1>0, <1>3, <3>1 DEF firstUnread
  <2> HIDE DEF z
  <2>2. CASE n = Len(stream)
    <3>1. ~ (Len(stream') > 0)
      BY <1>2, <2>2
    <3> QED
      BY <1>0, <1>8, <2>1, <2>2, <3>1 DEF StreamFollows
  <2>3. CASE n # Len(stream)
    <3>1. Len(stream') > 0 /\ stream'[1] = stream[n + 1] /\ n + 1 \in 1 .. Len(stream)
          /\ n + 1 <= Len(stream)
      BY <1>2, <2>3
    <3>2. CASE taken + n = z
      <4>1. stream[n][2] = packetSize(sent[stream[n][1]])
        BY <1>7, <3>2 DEF z
      <4>2. stream[n + 1] = <<stream[n][1] + 1, 1>>
        BY <3>1, <4>1 DEF Framed, PacketsAdjoin
      <4>3. stream[n + 1] = <<nextPacket + 1, 1>>
        BY <1>7, <4>2
      <4> QED
        BY <2>1, <3>1, <3>2, <4>3 DEF StreamFollows
    <3>3. CASE taken + n # z
      <4>1. taken + (n + 1) <= z /\ taken + (n + 1) = (taken + n) + 1
        BY <1>1, <1>2, <3>3, OneMoreFits
      <4>2. stream[n + 1] = <<nextPacket, taken + (n + 1)>>
        BY <3>1, <4>1, ReadBytes DEF z
      <4> QED
        BY <2>1, <3>1, <3>3, <4>1, <4>2 DEF StreamFollows
    <3> QED
      BY <3>2, <3>3
  <2> QED
    BY <2>2, <2>3
<1> QED
  BY <1>4, <1>5, <1>6, <1>9, ReadKeepsStream DEF Framed

-----------------------------------------------------------------------------
\* Steps between the Reads: what was taken, and the packet it is part of, stay.
LEMMA StateKeepsFraming ==
  ASSUME Framed, UNCHANGED <<stream, sent, received, badPackets>>, taken' = taken,
         recvBuffer' = recvBuffer \/ taken = 0,  HeaderKnown', TypeInv
  PROVE  Framed'
<1>1. nextPacket' = nextPacket
  BY DEF nextPacket
<1>2. firstUnread' = firstUnread
  BY <1>1 DEF firstUnread
<1>3. BufferIsPrefix'
  <2>1. CASE taken = 0
    BY <2>1 DEF BufferIsPrefix
  <2>2. CASE recvBuffer' = recvBuffer
    BY <1>1, <2>2 DEF Framed, BufferIsPrefix
  <2> QED
    BY <2>1, <2>2
<1>4. FramingKept' /\ StreamFollows' /\ StreamComplete'
  BY <1>2 DEF Framed, FramingKept, StreamFollows, StreamComplete
<1>5. PacketsWhole' /\ PacketsAdjoin'
  BY DEF Framed, PacketsWhole, PacketsAdjoin
<1> QED
  BY <1>3, <1>4, <1>5 DEF Framed

\* The header is complete: its PayloadLen is that of the packet.
LEMMA HeaderKeepsFraming ==
  ASSUME TypeInv, Framed, HeaderDone
  PROVE  Framed'
<1>0. /\ UNCHANGED <<stream, sent, received, badPackets, recvBuffer>>
      /\ recvState = "ReadingHeader" /\ recvState' = "ReadingPayload"
      /\ isComplete /\ payloadLen' \in lengthsRead(recvBuffer[LenByte])
  BY DEF HeaderDone, history
<1>1. taken = Len(recvBuffer) /\ taken' = taken /\ taken = HeaderSize
  BY <1>0 DEF taken, isComplete, target
<1>2. LenByte \in 1 .. taken
  BY <1>1, Constants
<1>3. recvBuffer[LenByte] = <<nextPacket, LenByte>>
  BY <1>2 DEF Framed, BufferIsPrefix
<1>4. payloadLen' = sent[nextPacket]
  BY <1>0, <1>3 DEF lengthsRead
<1>5. HeaderKnown'
  <2>1. taken >= HeaderSize /\ nextPacket' = nextPacket
    BY <1>0, <1>1, Constants DEF nextPacket
  <2> QED
    BY <1>0, <1>1, <1>4, <2>1 DEF HeaderKnown
<1> QED
  BY <1>0, <1>1, <1>5, StateKeepsFraming

LEMMA CRCKeepsFraming ==
  ASSUME TypeInv, Framed, PayloadDone \/ CRCDone
  PROVE  Framed'
<1>0. /\ UNCHANGED <<stream, sent, received, badPackets, recvBuffer, payloadLen>>
      /\ recvState \in {"ReadingPayload", "ReadingCRC"} /\ recvState' # "Idle"
      /\ recvState' = "Ready" => recvState = "ReadingCRC" /\ isComplete
  BY DEF PayloadDone, CRCDone, history
<1>1. taken = Len(recvBuffer) /\ taken' = taken /\ nextPacket' = nextPacket
  BY <1>0 DEF taken, nextPacket
<1>2. taken >= HeaderSize /\ payloadLen = sent[nextPacket]
  BY <1>0 DEF Framed, HeaderKnown
<1>3. recvState' = "Ready" => taken = packetSize(sent[nextPacket])
  BY <1>0, <1>1, <1>2 DEF isComplete, target, packetSize
<1>4. HeaderKnown'
  BY <1>0, <1>1, <1>2, <1>3 DEF HeaderKnown
<1> QED
  BY <1>0, <1>1, <1>4, StateKeepsFraming

\* A call begins, a new buffer is made, or a Read fails between two packets.
LEMMA BetweenKeepsFraming ==
  ASSUME TypeInv, Framed,
         \/ Call
         \/ TCPClose
         \/ StartHeader
         \/ ReadFails /\ recvBuffer = <<>>
  PROVE  Framed'
<1>0. UNCHANGED <<stream, sent, received, badPackets, payloadLen>>
  BY DEF Call, TCPClose, StartHeader, ReadFails, conn, history
<1>1. CASE Call \/ TCPClose
  <2>1. UNCHANGED <<recvState, recvBuffer>>
    BY <1>1 DEF Call, TCPClose, conn
  <2>2. taken' = taken /\ nextPacket' = nextPacket
    BY <1>0, <2>1 DEF taken, nextPacket
  <2>3. HeaderKnown'
    BY <1>0, <2>1, <2>2 DEF Framed, HeaderKnown
  <2> QED
    BY <1>0, <2>1, <2>2, <2>3, StateKeepsFraming
<1>2. CASE StartHeader
  <2>1. recvState = "Idle" /\ recvState' = "ReadingHeader" /\ recvBuffer' = <<>>
    BY <1>2 DEF StartHeader
  <2>2. taken = 0 /\ taken' = 0
    BY <2>1 DEF taken
  <2>3. HeaderKnown'
    BY <2>1 DEF HeaderKnown
  <2> QED
    BY <1>0, <2>1, <2>2, <2>3, StateKeepsFraming
<1>3. CASE ReadFails /\ recvBuffer = <<>>
  <2>1. recvState' = "Idle" /\ recvBuffer' = recvBuffer
    BY <1>3 DEF ReadFails
  <2>2. taken = 0 /\ taken' = 0
    BY <1>3, <2>1 DEF taken
  <2>3. HeaderKnown'
    BY <2>1 DEF HeaderKnown
  <2> QED
    BY <1>0, <2>1, <2>2, <2>3, StateKeepsFraming
<1> QED
  BY <1>1, <1>2, <1>3

\* The buffer that Deserialize is given is exactly the next packet.
LEMMA ReadyIsPacket ==
  ASSUME TypeInv, Framed, recvState = "Ready"
  PROVE  /\ nextPacket \in 1 .. Len(sent)
         /\ isPacket(nextPacket)
         /\ \A k \in 1 .. Len(sent) : isPacket(k) => k = nextPacket
         /\ taken > 0 /\ taken = packetSize(sent[nextPacket])
<1> DEFINE z == packetSize(sent[nextPacket])
<1>1. taken = Len(recvBuffer) /\ taken >= HeaderSize /\ taken = z
  BY DEF taken, Framed, HeaderKnown
<1>2. taken > 0 /\ taken \in Nat
  BY <1>1, Constants, TakenType
<1>3. nextPacket \in 1 .. Len(sent)
  BY <1>2, TakenFits DEF Framed
<1>4. \A j \in 1 .. z : recvBuffer[j] = <<nextPacket, j>>
  BY <1>1 DEF Framed, BufferIsPrefix
<1>5. recvBuffer \in Seq((1 .. MaxPackets) \X Nat)
  BY DEF TypeInv, TCPTypeOK
<1>6. isPacket(nextPacket)
  <2>1. recvBuffer = [j \in 1 .. z |-> <<nextPacket, j>>]
    BY <1>1, <1>4, <1>5, NumberedSeq
  <2> QED
    BY <2>1 DEF isPacket, serialized, z, packetSize
<1>7. ASSUME NEW k \in 1 .. Len(sent), isPacket(k) PROVE k = nextPacket
  <2>1. k \in 1 .. MaxPackets /\ sent[k] \in Nat /\ 1 <= packetSize(sent[k])
        /\ packetSize(sent[k]) \in Nat
    <3>1. k \in 1 .. MaxPackets
      BY Constants DEF TypeInv, TCPTypeOK
    <3> QED
      BY <3>1, SizeType
  <2>2. 1 \in 1 .. packetSize(sent[k])
    BY <2>1
  <2>3. recvBuffer[1] = <<k, 1>>
    BY <1>7, <2>1, <2>2, SerializedAt DEF isPacket, packetSize
  <2>4. recvBuffer[1] = <<nextPacket, 1>>
    BY <1>1, <1>2, <1>4
  <2> QED
    BY <2>3, <2>4
<1> QED
  BY <1>1, <1>2, <1>3, <1>6, <1>7

LEMMA DeserializeKeepsFraming ==
  ASSUME TypeInv, TypeInv', Framed, Deserialize
  PROVE  Framed'
<1>0. recvState = "Ready" /\ UNCHANGED <<stream, sent, recvBuffer, payloadLen>>
  BY DEF Deserialize
<1>1. /\ nextPacket \in 1 .. Len(sent) /\ isPacket(nextPacket)
      /\ \A k \in 1 .. Len(sent) : isPacket(k) => k = nextPacket
      /\ taken > 0 /\ taken = packetSize(sent[nextPacket])
  BY <1>0, ReadyIsPacket
<1>2. /\ received' = Append(received, nextPacket) /\ recvState' = "Idle"
      /\ badPackets' = badPackets
  BY <1>1 DEF Deserialize, stateAfterPacket
<1>3. received \in Seq(1 .. MaxPackets) /\ Len(received) \in Nat
  BY TakenType DEF TypeInv, TCPTypeOK
<1>4. /\ Len(received') = nextPacket /\ received'[nextPacket] = nextPacket
      /\ received' \in Seq(1 .. MaxPackets)
      /\ \A i \in 1 .. Len(received) : received'[i] = received[i]
  <2>1. nextPacket \in 1 .. MaxPackets
    BY <1>1, Constants DEF TypeInv, TCPTypeOK
  <2> QED
    BY <1>2, <1>3, <2>1 DEF nextPacket
<1>5. FramingKept'
  <2>1. \A i \in 1 .. Len(received) : received[i] = i
    BY DEF Framed, FramingKept
  <2>2. \A i \in 1 .. Len(received') : received'[i] = i
    <3>1. \A i \in 1 .. Len(received') : i \in 1 .. Len(received) \/ i = nextPacket
      BY <1>3, <1>4 DEF nextPacket
    <3> QED
      BY <1>4, <2>1, <3>1
  <2>3. received' = [k \in 1 .. Len(received') |-> k]
    BY <1>4, <2>2
  <2> QED
    BY <1>2, <2>3 DEF Framed, FramingKept
<1>6. taken' = 0 /\ nextPacket' = nextPacket + 1
  BY <1>2, <1>4 DEF taken, nextPacket
<1>7. firstUnread' = <<nextPacket + 1, 1>> /\ firstUnread = <<nextPacket + 1, 1>>
  BY <1>1, <1>6 DEF firstUnread
<1>8. StreamFollows'
  BY <1>0, <1>7 DEF Framed, StreamFollows
<1>9. PacketsWhole' /\ PacketsAdjoin' /\ StreamComplete'
  BY <1>0 DEF Framed, PacketsWhole, PacketsAdjoin, StreamComplete
<1>10. BufferIsPrefix' /\ HeaderKnown'
  BY <1>2, <1>6 DEF BufferIsPrefix, HeaderKnown
<1> QED
  BY <1>5, <1>8, <1>9, <1>10 DEF Framed

LEMMA FramingInductive == FramingInv /\ [Next]_vars => FramingInv'
<1> SUFFICES ASSUME FramingInv, [Next]_vars PROVE FramingInv'
  OBVIOUS
<1>0. TypeInv /\ TypeInv'
  BY TypeInvInductive DEF FramingInv
<1> SUFFICES ASSUME ~ torn' PROVE Framed'
  BY <1>0 DEF FramingInv
<1>1. ASSUME NEW size \in PayloadSizes, TCPSend(size) PROVE Framed'
  <2>1. PICK t : Grows(size, t) /\ Len(t) = packetSize(size)
    BY <1>0, <1>1, SendGrows
  <2>2. UNCHANGED <<conn, received, badPackets>> /\ torn' = torn
    BY <1>1 DEF TCPSend, history
  <2> QED
    BY <1>0, <2>1, <2>2, SendKeepsFraming DEF FramingInv
<1>2. ASSUME NEW size \in PayloadSizes, TCPSendFails(size) PROVE Framed'
  <2>1. UNCHANGED <<conn, received, badPackets>>
    BY <1>2 DEF TCPSendFails
  <2>2. UNCHANGED <<sent, stream, torn>>
    BY <1>0, <1>2, SendFailsGrows
  <2>3. UNCHANGED <<recvState, recvBuffer, payloadLen>> /\ Framed
    BY <2>1, <2>2 DEF conn, FramingInv
  <2>4. taken' = taken /\ nextPacket' = nextPacket
    BY <2>1, <2>3 DEF taken, nextPacket
  <2>5. HeaderKnown'
    BY <2>2, <2>3, <2>4 DEF Framed, HeaderKnown
  <2> QED
    BY <1>0, <2>1, <2>2, <2>3, <2>4, <2>5, StateKeepsFraming
<1>3. CASE Call \/ TCPClose \/ StartHeader
  <2>1. torn' = torn
    BY <1>3 DEF Call, TCPClose, StartHeader, history
  <2> QED
    BY <1>0, <1>3, <2>1, BetweenKeepsFraming DEF FramingInv
<1>4. CASE ReadFails
  <2>1. ~ torn /\ recvBuffer = <<>>
    BY <1>4, Zenon DEF ReadFails
  <2> QED
    BY <1>0, <1>4, <2>1, BetweenKeepsFraming DEF FramingInv
<1>5. CASE HeaderDone \/ PayloadDone \/ CRCDone
  <2>1. torn' = torn
    BY <1>5 DEF HeaderDone, PayloadDone, CRCDone, history
  <2> QED
    BY <1>0, <1>5, <2>1, HeaderKeepsFraming, CRCKeepsFraming DEF FramingInv
<1>6. CASE Deserialize
  <2>1. torn' = torn
    BY <1>6 DEF Deserialize
  <2> QED
    BY <1>0, <1>6, <2>1, DeserializeKeepsFraming DEF FramingInv
<1>7. CASE ReadSome
  <2>1. PICK n \in 1 .. Len(stream) : Read(n)
    BY <1>7 DEF ReadSome
  <2>2. torn' = torn
    BY <2>1 DEF Read, history
  <2> QED
    BY <1>0, <2>1, <2>2, ReadKeepsFraming DEF FramingInv
<1>8. CASE UNCHANGED vars
  <2>1. UNCHANGED <<stream, sent, received, badPackets, recvState, recvBuffer, payloadLen, torn>>
    BY <1>8 DEF vars, conn, history
  <2>2. Framed /\ taken' = taken /\ nextPacket' = nextPacket
    BY <2>1 DEF FramingInv, taken, nextPacket
  <2>3. HeaderKnown'
    BY <2>1, <2>2 DEF Framed, HeaderKnown
  <2> QED
    BY <1>0, <2>1, <2>2, <2>3, StateKeepsFraming
<1> QED
  BY <1>1, <1>2, <1>3, <1>4, <1>5, <1>6, <1>7, <1>8 DEF Next, Progress

(***************************************************************************)
(* As long as no Read and no Write fails inside a packet, TCPRecv returns  *)
(* the packets that were sent, all of them and in order, and Deserialize   *)
(* is only ever given whole packets: however the Reads cut the stream,     *)
(* whatever the sizes, and whatever fails between two packets.             *)
(***************************************************************************)
THEOREM FramingSafe == Spec => []CleanErrorsKeepFraming
<1>1. FramingInv => CleanErrorsKeepFraming
  BY DEF FramingInv, Framed, CleanErrorsKeepFraming
<1> QED
  BY InitFraming, FramingInductive, <1>1, PTL DEF Spec

=============================================================================
