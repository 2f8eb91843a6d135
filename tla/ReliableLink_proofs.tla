------------------------- MODULE ReliableLink_proofs -------------------------
(***************************************************************************)
(* Two ReliableContexts implement the message channel, for every window    *)
(* size, every number of messages below the overflow of the sequence       *)
(* numbers, one way or both ways, over a faulty network or a perfect one.  *)
(*                                                                         *)
(* The argument.  ACKs go through the same receive window as data, so a    *)
(* sequence number a context has received may be one of the peer's data or *)
(* the acknowledgement of its own.  The invariant keeps the two apart by   *)
(* asking, for each number a peer has received, that it was delivered      *)
(* there or that the other peer has received it too; an ACK that is        *)
(* accepted is then one of the first kind at the other end.                *)
(*                                                                         *)
(* The last two sections, on the types and on the packets that an ACK      *)
(* marks, need no bound on the number of messages.                         *)
(***************************************************************************)
EXTENDS ReliableLink, ReliableSender_proofs

-----------------------------------------------------------------------------
(***************************************************************************)
(* The receive window as a set: recvBase and the bitmap stand for the set  *)
(* of sequence numbers Recv has accepted, and Recv adds one number to it.  *)
(* The sequence numbers must not have overflowed.                          *)
(***************************************************************************)

\* The sequence numbers a base and a bitmap stand for.
Covers(base, window, s) ==
  \/ s < base
  \/ s < base + WindowSize /\ window[getWindowIndex(s)]

\* Recv of peer p has accepted the sequence number s.
Received(p, s) == Covers(recvBase[p], recvWindow[p], s)

\* The number at recvBase is not received: the slide loop ran to its end.
BaseOpen == \A p \in Peers : ~ recvWindow[p][getWindowIndex(recvBase[p])]

ReceiverTypeOK ==
  /\ recvBase \in [Peers -> SeqNum]
  /\ recvWindow \in [Peers -> [Index -> BOOLEAN]]

\* Numbers of one window share a slot only if they are equal.
LEMMA SameSlot ==
  ASSUME NEW base \in Nat, NEW s \in Nat, NEW t \in Nat,
         base <= s, s < base + WindowSize, base <= t, t < base + WindowSize,
         getWindowIndex(s) = getWindowIndex(t)
  PROVE  s = t
<1>1. s < t => FALSE
  BY IndexInjective, WindowAssumption
<1>2. t < s => FALSE
  BY IndexInjective, WindowAssumption
<1> QED
  BY <1>1, <1>2

\* Away from the overflow the window test is the plain one.
LEMMA PlainWindowTest ==
  ASSUME NEW base \in SeqNum, NEW seq \in SeqNum, base + WindowSize < UintMod
  PROVE  isInWindow(base, seq) <=> base <= seq /\ seq < base + WindowSize
<1>1. Add(base, WindowSize) = base + WindowSize
  BY AddPlain, SeqNums, WindowAssumption
<1> QED
  BY <1>1, SeqNums, WindowAssumption DEF isInWindow

LEMMA SlotCleared ==
  ASSUME NEW window \in [Index -> BOOLEAN], NEW base \in Nat,
         NEW n \in 0 .. WindowSize, base + WindowSize < UintMod
  PROVE  /\ bitsCleared(window, base, n) \in [Index -> BOOLEAN]
         /\ \A i \in Index : bitsCleared(window, base, n)[i] <=>
              /\ window[i]
              /\ \A t \in base .. (base + n - 1) : getWindowIndex(t) # i
<1>1. \A j \in 0 .. (n - 1) : Add(base, j) = base + j
  BY AddPlain, WindowAssumption
<1>2. ASSUME NEW i \in Index
      PROVE  (\A j \in 0 .. (n - 1) : getWindowIndex(Add(base, j)) # i)
             <=> (\A t \in base .. (base + n - 1) : getWindowIndex(t) # i)
  <2>1. ASSUME \A j \in 0 .. (n - 1) : getWindowIndex(Add(base, j)) # i,
               NEW t \in base .. (base + n - 1)
        PROVE  getWindowIndex(t) # i
    <3>1. t - base \in 0 .. (n - 1) /\ base + (t - base) = t
      OBVIOUS
    <3> QED BY <3>1, <2>1, <1>1
  <2>2. ASSUME \A t \in base .. (base + n - 1) : getWindowIndex(t) # i,
               NEW j \in 0 .. (n - 1)
        PROVE  getWindowIndex(Add(base, j)) # i
    <3>1. base + j \in base .. (base + n - 1)
      OBVIOUS
    <3> QED BY <3>1, <2>2, <1>1
  <2> QED BY <2>1, <2>2
<1> QED
  BY <1>2 DEF bitsCleared

(***************************************************************************)
(* Setting the bit of seq and sliding the window adds seq to the numbers   *)
(* the window stands for, and nothing else: the bits that are cleared are  *)
(* those of numbers the new base is above, and a slot that is used again   *)
(* never stands for a number that was not received.                        *)
(***************************************************************************)
LEMMA SlideCovers ==
  ASSUME NEW window \in [Index -> BOOLEAN], NEW base \in Nat,
         NEW seq \in Nat, NEW n \in 0 .. WindowSize,
         base + WindowSize < UintMod,
         base <= seq, seq < base + WindowSize,
         \A t \in base .. (base + n - 1) :
           window[getWindowIndex(t)] \/ getWindowIndex(t) = getWindowIndex(seq),
         NEW s \in Nat
  PROVE  LET marked == [window EXCEPT ![getWindowIndex(seq)] = TRUE]
         IN  Covers(base + n, bitsCleared(marked, base, n), s)
             <=> Covers(base, window, s) \/ s = seq
<1> DEFINE marked == [window EXCEPT ![getWindowIndex(seq)] = TRUE]
           after  == bitsCleared(marked, base, n)
           i      == getWindowIndex(s)
<1>1. getWindowIndex(seq) \in Index /\ i \in Index
  BY IndexType
<1>2. marked \in [Index -> BOOLEAN]
  BY <1>1, Zenon
<1>3. marked[i] <=> window[i] \/ i = getWindowIndex(seq)
  BY <1>1
<1>4. after[i] <=> marked[i] /\ \A t \in base .. (base + n - 1) : getWindowIndex(t) # i
  BY <1>1, <1>2, SlotCleared
<1>5. ASSUME base <= s, s < base + WindowSize, marked[i]
      PROVE  Covers(base, window, s) \/ s = seq
  <2>1. i = getWindowIndex(seq) => s = seq
    BY <1>5, SameSlot
  <2> QED BY <2>1, <1>3, <1>5 DEF Covers
<1>6. ASSUME Covers(base + n, after, s)
      PROVE  Covers(base, window, s) \/ s = seq
  <2>1. CASE s < base
    BY <2>1 DEF Covers
  <2>2. CASE base <= s /\ s < base + n
    <3>1. s \in base .. (base + n - 1) /\ s < base + WindowSize
      BY <2>2, WindowAssumption
    <3>2. marked[i]
      BY <3>1, <1>3
    <3> QED BY <2>2, <3>1, <3>2, <1>5
  <2>3. CASE base + n <= s /\ s < base + WindowSize
    <3>1. after[i]
      BY <2>3, <1>6 DEF Covers
    <3> HIDE DEF after, marked, i
    <3> QED BY <2>3, <3>1, <1>4, <1>5
  <2>4. CASE base + n <= s /\ base + WindowSize <= s
    <3>1. after[i] /\ s < base + n + WindowSize
      BY <2>4, <1>6, WindowAssumption DEF Covers
    <3> DEFINE t == s - WindowSize
    <3>2. t \in base .. (base + n - 1) /\ t \in Nat /\ t + WindowSize = s
      BY <2>4, <3>1, WindowAssumption
    <3> HIDE DEF t
    <3>3. getWindowIndex(t) = i
      BY <3>2, IndexPeriod
    <3> QED BY <3>1, <3>2, <3>3, <1>4
  <2> QED
    BY <2>1, <2>2, <2>3, <2>4, WindowAssumption
<1>7. ASSUME Covers(base, window, s) \/ s = seq
      PROVE  Covers(base + n, after, s)
  <2>1. CASE s < base + n
    BY <2>1 DEF Covers
  <2>2. CASE base + n <= s
    <3>1. base <= s /\ s < base + WindowSize /\ marked[i]
      BY <2>2, <1>7, <1>3, WindowAssumption DEF Covers
    <3>2. ASSUME NEW t \in base .. (base + n - 1) PROVE getWindowIndex(t) # i
      <4>1. t \in Nat /\ base <= t /\ t < base + WindowSize /\ t # s
        BY <2>2, WindowAssumption
      <4> QED BY <4>1, <3>1, SameSlot
    <3>3. after[i]
      BY <3>1, <3>2, <1>4
    <3>4. s < base + n + WindowSize
      BY <3>1, WindowAssumption
    <3> HIDE DEF after, marked
    <3> QED BY <3>3, <3>4 DEF Covers
  <2> QED
    BY <2>1, <2>2
<1> HIDE DEF after
<1>8. Covers(base + n, after, s) <=> Covers(base, window, s) \/ s = seq
  BY <1>6, <1>7
<1> QED
  BY <1>8 DEF after

\* What the loop of Recv leaves behind, taken apart.
LEMMA AcceptParts ==
  ASSUME NEW p \in Peers, NEW seq \in SeqNum, ReceiverTypeOK, BaseOpen,
         recvBase[p] + WindowSize < UintMod, isNew(p, seq), Accept(p, seq)
  PROVE  \E n \in 0 .. WindowSize :
           LET marked == [recvWindow[p] EXCEPT ![getWindowIndex(seq)] = TRUE]
           IN  /\ recvBase' = [recvBase EXCEPT ![p] = recvBase[p] + n]
               /\ recvWindow' =
                    [recvWindow EXCEPT ![p] = bitsCleared(marked, recvBase[p], n)]
               /\ \A t \in recvBase[p] .. (recvBase[p] + n - 1) :
                    marked[getWindowIndex(t)]
               /\ \/ n < WindowSize /\ ~ marked[getWindowIndex(recvBase[p] + n)]
                  \/ n = WindowSize
<1> DEFINE base == recvBase[p]
           j == getWindowIndex(seq)
           marked == [recvWindow[p] EXCEPT ![j] = TRUE]
<1>1. /\ base \in Nat /\ base \in SeqNum /\ seq \in Nat /\ j \in Index
      /\ getWindowIndex(base) \in Index
      /\ recvWindow[p] \in [Index -> BOOLEAN]
  BY SeqNums, IndexType DEF ReceiverTypeOK
<1>2. PICK n \in 0 .. WindowSize :
        /\ IF seq = base THEN slideBy(marked, base, n) ELSE n = 0
        /\ recvBase' = [recvBase EXCEPT ![p] = Add(base, n)]
        /\ recvWindow' = [recvWindow EXCEPT ![p] = bitsCleared(marked, base, n)]
  BY DEF Accept
<1>3. ASSUME NEW k \in 0 .. WindowSize PROVE Add(base, k) = base + k
  <2>1. k \in Nat /\ base + k < UintMod /\ base + k < 2 * UintMod
    BY <1>1, WindowAssumption
  <2> HIDE DEF base
  <2> QED BY <2>1, <1>1, AddPlain
<1>4. base <= seq /\ seq < base + WindowSize
  BY <1>1, PlainWindowTest DEF isNew
<1>5. CASE seq = base
  <2>1. slideBy(marked, base, n)
    BY <1>2, <1>5
  <2>2. ASSUME NEW t \in base .. (base + n - 1) PROVE marked[getWindowIndex(t)]
    <3>1. t - base \in 0 .. (n - 1) /\ t - base \in 0 .. WindowSize
          /\ base + (t - base) = t
      BY <1>1, WindowAssumption
    <3> HIDE DEF marked
    <3> QED BY <3>1, <2>1, <1>3 DEF slideBy
  <2>3. n < WindowSize => ~ marked[getWindowIndex(base + n)]
    BY <2>1, <1>3 DEF slideBy
  <2>4. n < WindowSize \/ n = WindowSize
    BY WindowAssumption
  <2> HIDE DEF marked
  <2>5. /\ recvBase' = [recvBase EXCEPT ![p] = base + n]
        /\ recvWindow' = [recvWindow EXCEPT ![p] = bitsCleared(marked, base, n)]
        /\ \A t \in base .. (base + n - 1) : marked[getWindowIndex(t)]
        /\ \/ n < WindowSize /\ ~ marked[getWindowIndex(base + n)]
           \/ n = WindowSize
    BY <1>2, <1>3, <2>2, <2>3, <2>4
  <2> QED BY <2>5 DEF marked
<1>6. CASE seq # base
  <2>1. n = 0
    BY <1>2, <1>6
  <2>2. getWindowIndex(base) # j
    <3>1. base <= base /\ base < base + WindowSize
      BY <1>1, WindowAssumption
    <3> HIDE DEF base
    <3> QED BY <3>1, <1>1, <1>4, <1>6, SameSlot
  <2>3. ~ marked[getWindowIndex(base + 0)]
    <3>1. ~ recvWindow[p][getWindowIndex(base)]
      BY DEF BaseOpen
    <3>2. marked[getWindowIndex(base)] = recvWindow[p][getWindowIndex(base)]
      BY <1>1, <2>2
    <3>3. base + 0 = base
      BY <1>1
    <3> QED BY <3>1, <3>2, <3>3
  <2> HIDE DEF marked
  <2>4. \A t \in base .. (base + 0 - 1) : FALSE
    BY <1>1
  <2>5. /\ recvBase' = [recvBase EXCEPT ![p] = base + 0]
        /\ recvWindow' = [recvWindow EXCEPT ![p] = bitsCleared(marked, base, 0)]
        /\ \A t \in base .. (base + 0 - 1) : marked[getWindowIndex(t)]
        /\ 0 < WindowSize /\ ~ marked[getWindowIndex(base + 0)]
    <3>1. Add(base, 0) = base + 0
      BY <1>3, WindowAssumption
    <3>2. /\ recvBase' = [recvBase EXCEPT ![p] = base + 0]
          /\ recvWindow' = [recvWindow EXCEPT ![p] = bitsCleared(marked, base, 0)]
      BY <3>1, <1>2, <2>1
    <3> QED BY <3>2, <2>3, <2>4, WindowAssumption
  <2>6. 0 \in 0 .. WindowSize
    BY WindowAssumption
  <2> QED BY <2>5, <2>6 DEF marked
<1> QED
  BY <1>5, <1>6

(***************************************************************************)
(* A packet that Recv accepts was not received before, and is the only one *)
(* that becomes received.                                                  *)
(***************************************************************************)
LEMMA AcceptAdds ==
  ASSUME NEW p \in Peers, NEW seq \in SeqNum, ReceiverTypeOK, BaseOpen,
         recvBase[p] + WindowSize < UintMod, isNew(p, seq), Accept(p, seq)
  PROVE  /\ recvWindow' \in [Peers -> [Index -> BOOLEAN]]
         /\ \E n \in 0 .. WindowSize : recvBase' = [recvBase EXCEPT ![p] = recvBase[p] + n]
         /\ BaseOpen'
         /\ ~ Received(p, seq)
         /\ \A s \in Nat : Received(p, s)' <=> Received(p, s) \/ s = seq
         /\ \A q \in Peers : q # p => /\ recvBase'[q] = recvBase[q]
                                      /\ recvWindow'[q] = recvWindow[q]
<1> DEFINE base == recvBase[p]
           marked == [recvWindow[p] EXCEPT ![getWindowIndex(seq)] = TRUE]
<1>1. /\ base \in Nat /\ base \in SeqNum /\ seq \in Nat
      /\ getWindowIndex(seq) \in Index
      /\ recvWindow[p] \in [Index -> BOOLEAN]
      /\ recvBase \in [Peers -> SeqNum]
      /\ recvWindow \in [Peers -> [Index -> BOOLEAN]]
  BY SeqNums, IndexType DEF ReceiverTypeOK
<1>2. PICK n \in 0 .. WindowSize :
        /\ recvBase' = [recvBase EXCEPT ![p] = base + n]
        /\ recvWindow' = [recvWindow EXCEPT ![p] = bitsCleared(marked, base, n)]
        /\ \A t \in base .. (base + n - 1) : marked[getWindowIndex(t)]
        /\ \/ n < WindowSize /\ ~ marked[getWindowIndex(base + n)]
           \/ n = WindowSize
  BY AcceptParts
<1> DEFINE after == bitsCleared(marked, base, n)
<1>3. base <= seq /\ seq < base + WindowSize
  BY <1>1, PlainWindowTest DEF isNew
<1>4. marked \in [Index -> BOOLEAN]
  BY <1>1, Zenon
<1>5. after \in [Index -> BOOLEAN]
  BY <1>1, <1>4, SlotCleared
<1>6. recvBase'[p] = base + n /\ recvWindow'[p] = after
  BY <1>1, <1>2
<1>7. ~ Received(p, seq)
  BY <1>1, <1>3 DEF isNew, Received, Covers
<1>8. ASSUME NEW s \in Nat PROVE Received(p, s)' <=> Received(p, s) \/ s = seq
  <2>1. ASSUME NEW t \in base .. (base + n - 1)
        PROVE  recvWindow[p][getWindowIndex(t)] \/ getWindowIndex(t) = getWindowIndex(seq)
    <3>1. getWindowIndex(t) \in Index
      BY <1>1, IndexType
    <3>2. marked[getWindowIndex(t)]
      BY <1>2
    <3> QED BY <3>1, <3>2, <1>1
  <2>2. Covers(base + n, after, s) <=> Covers(base, recvWindow[p], s) \/ s = seq
    BY <1>1, <1>3, <2>1, SlideCovers
  <2>3. Received(p, s)' <=> Covers(base + n, after, s)
    BY <1>6 DEF Received
  <2> HIDE DEF after
  <2> QED BY <2>2, <2>3 DEF Received
<1>9. BaseOpen'
  <2> SUFFICES ASSUME NEW q \in Peers
               PROVE  ~ recvWindow'[q][getWindowIndex(recvBase'[q])]
    BY DEF BaseOpen
  <2>1. CASE q # p
    BY <2>1, <1>2 DEF BaseOpen, ReceiverTypeOK
  <2>2. CASE q = p
    <3> DEFINE i == getWindowIndex(base + n)
    <3>1. i \in Index
      BY <1>1, IndexType, WindowAssumption
    <3>2. after[i] <=> marked[i] /\ \A t \in base .. (base + n - 1) : getWindowIndex(t) # i
      <4>1. \A x \in Index : after[x] <=>
              marked[x] /\ \A t \in base .. (base + n - 1) : getWindowIndex(t) # x
        <5> HIDE DEF marked, base
        <5> QED BY <1>1, <1>4, SlotCleared DEF base
      <4> HIDE DEF i, marked, base, after
      <4> QED BY <3>1, <4>1
    <3>3. CASE n = WindowSize
      <4>1. base \in base .. (base + n - 1) /\ getWindowIndex(base) = i
        BY <3>3, <1>1, IndexPeriod, WindowAssumption
      <4> QED BY <4>1, <3>2, <1>6, <2>2
    <3>4. CASE ~ marked[i]
      BY <3>4, <3>2, <1>6, <2>2
    <3> QED BY <3>3, <3>4, <1>2
  <2> QED
    BY <2>1, <2>2
<1>10. recvWindow' \in [Peers -> [Index -> BOOLEAN]]
  <2> HIDE DEF after
  <2>1. recvWindow' = [recvWindow EXCEPT ![p] = after]
    BY <1>2 DEF after
  <2> QED BY <1>1, <1>5, <2>1
<1>11. \A q \in Peers : q # p => recvBase'[q] = recvBase[q] /\ recvWindow'[q] = recvWindow[q]
  BY <1>1, <1>2
<1> QED
  BY <1>2, <1>7, <1>8, <1>9, <1>10, <1>11

-----------------------------------------------------------------------------
(***************************************************************************)
(* The two contexts                                                        *)
(***************************************************************************)

\* Data on the wire was sent, an ACK on the wire was received by its sender.
WireSound ==
  \A m \in wire :
    /\ m.kind = "data" => m.seq = m.data /\ m.data < nextSeq[Other(m.to)]
    /\ m.kind = "ack" => Received(Other(m.to), m.seq)

\* A received number is a delivered message, or was received by the peer.
ReceivedSound ==
  \A p \in Peers, s \in Nat :
    Received(p, s) => /\ s \in Payload
                      /\ delivered[p][s] = 1 \/ Received(Other(p), s)

DeliveredSound ==
  \A p \in Peers, d \in Payload :
    /\ delivered[p][d] <= 1
    /\ delivered[p][d] = 1 => Received(p, d) /\ d < nextSeq[Other(p)]

\* ACKs the peer's reader or ProcessACK has seen.
AckSound ==
  \A p \in Peers : \A s \in ackInbox[p] \cup acked[p] :
    /\ s \in Payload
    /\ delivered[Other(p)][s] = 1
    /\ Received(p, s)

LinkInv ==
  /\ TypeOK
  /\ SafeInv
  /\ PrefixInv
  /\ BaseOpen
  /\ WireSound
  /\ ReceivedSound
  /\ DeliveredSound
  /\ AckSound

-----------------------------------------------------------------------------
LEMMA ReceiverTyped == TypeOK => ReceiverTypeOK
  BY DEF TypeOK, ReceiverTypeOK

LEMMA SendersTyped ==
  ASSUME LinkInv
  PROVE  \A p \in Peers : nextSeq[p] \in Nat /\ sendBase[p] \in Nat
<1>1. \A p \in Peers : nextSeq[p] \in SeqNum /\ sendBase[p] \in SeqNum
  BY DEF LinkInv, SafeInv, SenderTypeOK
<1> QED
  BY <1>1, SeqNums

LEMMA InitLink == Init => LinkInv
<1> SUFFICES ASSUME Init PROVE LinkInv
  OBVIOUS
<1>1. SafeInv /\ PrefixInv
  BY InitSafe, InitPrefix DEF Init
<1>2. TypeOK
  BY <1>1, SeqNums DEF Init, ReceiverInit, TypeOK, SafeInv
<1>3. BaseOpen
  BY IndexType DEF Init, ReceiverInit, BaseOpen
<1>4. \A p \in Peers, s \in Nat : ~ Received(p, s)
  <2> SUFFICES ASSUME NEW p \in Peers, NEW s \in Nat PROVE ~ Received(p, s)
    OBVIOUS
  <2>1. recvBase[p] = 0 /\ recvWindow[p] = [i \in Index |-> FALSE]
        /\ getWindowIndex(s) \in Index
    BY IndexType DEF Init, ReceiverInit
  <2> QED BY <2>1 DEF Received, Covers
<1>5. WireSound /\ ReceivedSound /\ AckSound
  BY <1>4 DEF Init, SenderInit, WireSound, ReceivedSound, AckSound
<1>6. DeliveredSound
  BY DEF Init, DeliveredSound
<1> QED
  BY <1>1, <1>2, <1>3, <1>5, <1>6 DEF LinkInv

\* The bases stay below the overflow.
LEMMA RecvBaseBound ==
  ASSUME NoWrap, TypeOK, ReceivedSound, NEW p \in Peers
  PROVE  /\ recvBase[p] \in Nat /\ recvBase[p] <= MaxSends
         /\ recvBase[p] + WindowSize < UintMod
<1>1. recvBase[p] \in Nat
  BY SeqNums DEF TypeOK
<1>2. recvBase[p] > 0 => Received(p, recvBase[p] - 1) /\ recvBase[p] - 1 \in Nat
  BY <1>1 DEF Received, Covers
<1>3. recvBase[p] <= MaxSends
  BY <1>1, <1>2, SenderAssumption DEF ReceivedSound, Payload
<1> QED
  BY <1>1, <1>3, SenderAssumption, WindowAssumption DEF NoWrap

\* What has been received up to n is below the base.
LEMMA PrefixBelowBase ==
  ASSUME TypeOK, BaseOpen, NEW p \in Peers, NEW n \in Nat,
         \A s \in 0 .. (n - 1) : Received(p, s)
  PROVE  n <= recvBase[p]
<1>1. recvBase[p] \in Nat
  BY SeqNums DEF TypeOK
<1>2. ~ Received(p, recvBase[p])
  BY <1>1 DEF BaseOpen, Received, Covers
<1> QED
  BY <1>1, <1>2

\* Every packet a peer has outstanding fits the receive windows of both.
LEMMA SendWindowFits ==
  ASSUME NoWrap, LinkInv, NEW p \in Peers, NEW q \in Peers
  PROVE  nextSeq[p] < recvBase[q] + WindowSize
<1>1. sendBase[p] \in Nat /\ nextSeq[p] \in Nat /\ recvBase[q] \in Nat
      /\ sendBase[p] \in SeqNum /\ nextSeq[p] \in SeqNum
  BY SeqNums DEF LinkInv, TypeOK, SafeInv, SenderTypeOK
<1>2. ASSUME NEW s \in 0 .. (sendBase[p] - 1) PROVE Received(q, s)
  <2>1. s \in acked[p]
    BY DEF LinkInv, PrefixInv, AckedPrefix
  <2>2. s \in Payload /\ delivered[Other(p)][s] = 1 /\ Received(p, s)
    BY <2>1 DEF LinkInv, AckSound
  <2>3. Received(Other(p), s)
    BY <2>2, OtherIsPeer DEF LinkInv, DeliveredSound
  <2>4. q = p \/ q = Other(p)
    BY PeersDistinct DEF Peers, Other
  <2> QED
    BY <2>2, <2>3, <2>4
<1>3. sendBase[p] <= recvBase[q]
  BY <1>1, <1>2, PrefixBelowBase DEF LinkInv
<1>4. sendBase[p] <= nextSeq[p]
  BY DEF LinkInv, PrefixInv, AckedPrefix
<1>5. InFlight(p) = nextSeq[p] - sendBase[p]
  BY <1>1, <1>4, SubPlain DEF InFlight
<1>6. 2 * InFlight(p) <= WindowSize + 1
  BY DEF LinkInv, SafeInv, HalfWindowInFlight
<1> QED
  BY <1>1, <1>3, <1>4, <1>5, <1>6, WindowAssumption

\* A message in the wire is typed, and inside or below the receive window.
LEMMA WireInReach ==
  ASSUME NoWrap, LinkInv, NEW m \in wire
  PROVE  /\ m.to \in Peers /\ m.seq \in SeqNum /\ m.seq \in Nat
         /\ m.kind = "data" \/ m.kind = "ack"
         /\ m.kind = "data" => m.data \in Payload
         /\ m.seq < recvBase[m.to] + WindowSize
<1>1. /\ m.to \in Peers /\ m.seq \in SeqNum
      /\ m.kind = "data" \/ m.kind = "ack"
      /\ m.kind = "data" => m.data \in Payload
  BY DEF LinkInv, TypeOK, DataPackets, AckPackets
<1>2. m.seq \in Nat /\ Other(m.to) \in Peers /\ Other(Other(m.to)) = m.to
  BY <1>1, SeqNums, OtherIsPeer
<1>3. recvBase[m.to] \in Nat /\ \A p \in Peers : nextSeq[p] \in Nat
  BY <1>1, SeqNums DEF LinkInv, TypeOK, SenderTypeOK
<1>4. nextSeq[Other(m.to)] < recvBase[m.to] + WindowSize
      /\ nextSeq[m.to] < recvBase[m.to] + WindowSize
  BY <1>1, <1>2, SendWindowFits
<1>5. CASE m.kind = "data"
  BY <1>2, <1>3, <1>4, <1>5, <1>1, WindowAssumption DEF LinkInv, WireSound
<1>6. CASE m.kind = "ack"
  <2>1. Received(Other(m.to), m.seq)
    BY <1>6 DEF LinkInv, WireSound
  <2>2. m.seq \in Payload
        /\ (delivered[Other(m.to)][m.seq] = 1 \/ Received(m.to, m.seq))
    BY <2>1, <1>2 DEF LinkInv, ReceivedSound
  <2>3. CASE delivered[Other(m.to)][m.seq] = 1
    <3>1. m.seq < nextSeq[m.to]
      BY <2>2, <2>3, <1>2 DEF LinkInv, DeliveredSound
    <3> QED BY <3>1, <1>2, <1>3, <1>4, <1>1, WindowAssumption
  <2>4. CASE Received(m.to, m.seq)
    BY <2>4, <1>1, <1>2, <1>3, WindowAssumption DEF Received, Covers
  <2> QED BY <2>2, <2>3, <2>4
<1> QED
  BY <1>1, <1>2, <1>5, <1>6

\* So a packet that Recv rejects has been received: the ACK it sends is true.
LEMMA RejectedIsReceived ==
  ASSUME NoWrap, LinkInv, NEW m \in wire, ~ isNew(m.to, m.seq)
  PROVE  Received(m.to, m.seq)
<1>1. /\ m.to \in Peers /\ m.seq \in SeqNum /\ m.seq \in Nat
      /\ m.seq < recvBase[m.to] + WindowSize
  BY WireInReach
<1>2. recvBase[m.to] \in SeqNum /\ recvBase[m.to] + WindowSize < UintMod
      /\ recvBase[m.to] \in Nat
  BY <1>1, RecvBaseBound DEF LinkInv, TypeOK
<1>3. isInWindow(recvBase[m.to], m.seq) <=> recvBase[m.to] <= m.seq
  BY <1>1, <1>2, PlainWindowTest
<1> QED
  BY <1>1, <1>2, <1>3 DEF isNew, Received, Covers

-----------------------------------------------------------------------------
(***************************************************************************)
(* Steps of a sender                                                       *)
(***************************************************************************)
\* A packet that belongs on the wire.
SentPacket(k) ==
  /\ k \in DataPackets
  /\ k.seq = k.data
  /\ k.data < nextSeq[Other(k.to)]

\* A live slot holds such a packet, addressed to the peer.
LEMMA LiveSlot ==
  ASSUME NoWrap, SafeInv, PrefixInv, NEW p \in Peers, NEW i \in Index,
         sendWindow[p][i].State # "Empty"
  PROVE  SentPacket(sendWindow[p][i].Serialized)
<1> DEFINE k == sendWindow[p][i].Serialized
<1>1. /\ k \in DataPackets /\ k.to = Other(p)
      /\ Sub(k.seq, sendBase[p]) < InFlight(p)
      /\ k.seq = k.data % UintMod
  BY DEF SafeInv, SlotsHoldTheirPackets
<1> HIDE DEF k
<1>2. k.data \in Payload /\ k.seq \in SeqNum /\ Other(k.to) = p
  BY <1>1, OtherIsPeer DEF DataPackets
<1>3. k.seq = k.data
  BY <1>1, <1>2, PayloadPlain
<1>4. sendBase[p] \in SeqNum /\ nextSeq[p] \in SeqNum /\ sendBase[p] <= nextSeq[p]
  BY DEF SafeInv, SenderTypeOK, PrefixInv, AckedPrefix
<1>5. InFlight(p) = nextSeq[p] - sendBase[p]
  BY <1>4, SubPlain DEF InFlight
<1>6. k.seq < nextSeq[p]
  <2>1. Sub(k.seq, sendBase[p]) = IF sendBase[p] <= k.seq THEN k.seq - sendBase[p]
                                  ELSE k.seq - sendBase[p] + UintMod
    BY <1>2, <1>4, SubPlain
  <2> QED
    BY <1>1, <1>2, <1>4, <1>5, <2>1, WindowAssumption DEF SeqNum
<1> QED
  BY <1>1, <1>2, <1>3, <1>6 DEF SentPacket, k

(***************************************************************************)
(* A step of a sender keeps the invariant if it keeps the sender's own     *)
(* part, only writes packets that were sent, and takes a new ACK only from *)
(* the reader.                                                             *)
(***************************************************************************)
LEMMA SenderStep ==
  ASSUME LinkInv, SafeInv', PrefixInv',
         UNCHANGED <<recvBase, recvWindow, delivered>>,
         \A p \in Peers : nextSeq[p] <= nextSeq'[p],
         \A k \in wire' : k \in wire \/ SentPacket(k)',
         \A p \in Peers : ackInbox'[p] \subseteq ackInbox[p],
         ackInbox' \in [Peers -> SUBSET SeqNum],
         \A p \in Peers : acked'[p] \subseteq acked[p] \cup ackInbox[p]
  PROVE  LinkInv'
<1> USE DEF LinkInv
<1>1. \A p, s : Received(p, s)' <=> Received(p, s)
  BY DEF Received
<1>2. \A p \in Peers : nextSeq[p] \in Nat /\ nextSeq'[p] \in Nat
  BY SeqNums DEF SafeInv, SenderTypeOK
<1>3. \A m \in wire : m.kind = "data" => m.data \in Nat /\ Other(m.to) \in Peers
  BY OtherIsPeer DEF TypeOK, DataPackets, AckPackets, Payload
<1>4. TypeOK'
  BY DEF TypeOK, SafeInv, SentPacket
<1>5. BaseOpen'
  BY DEF BaseOpen
<1>6. WireSound'
  <2> SUFFICES ASSUME NEW k \in wire'
               PROVE  /\ k.kind = "data" => k.seq = k.data /\ k.data < nextSeq'[Other(k.to)]
                      /\ k.kind = "ack" => Received(Other(k.to), k.seq)'
    BY DEF WireSound
  <2>1. CASE k \in wire
    BY <2>1, <1>1, <1>2, <1>3 DEF WireSound
  <2>2. CASE SentPacket(k)'
    <3>1. k \in DataPackets /\ k.seq = k.data /\ k.data < nextSeq'[Other(k.to)]
      BY <2>2 DEF SentPacket
    <3>2. k.kind = "data"
      BY <3>1 DEF DataPackets
    <3> QED BY <3>1, <3>2
  <2> QED
    BY <2>1, <2>2
<1>7. ReceivedSound'
  BY <1>1 DEF ReceivedSound
<1>8. DeliveredSound'
  <2>1. \A d \in Payload : d \in Nat
    BY DEF Payload
  <2> QED BY <1>1, <1>2, <2>1, OtherIsPeer DEF DeliveredSound
<1>9. AckSound'
  BY <1>1 DEF AckSound
<1> QED
  BY <1>4, <1>5, <1>6, <1>7, <1>8, <1>9

LEMMA AppSendLink ==
  ASSUME NoWrap, LinkInv, NEW p \in Peers, AppSend(p)
  PROVE  LinkInv'
<1>1. Send(p) /\ UNCHANGED <<recvBase, recvWindow, delivered, ackInbox>>
  BY DEF AppSend, receiverVars, linkVars
<1>2. SafeInv'
  BY <1>1, SendSafe DEF LinkInv
<1>3. PrefixInv'
  BY <1>1, <1>2, SendPrefix DEF LinkInv
<1>4. nextSeq[p] = sends[p] /\ nextSeq[p] \in Nat /\ nextSeq[p] + WindowSize < UintMod
  BY NextPlain DEF LinkInv
<1>5. nextSeq'[p] = nextSeq[p] + 1 /\ \A q \in Peers : q # p => nextSeq'[q] = nextSeq[q]
  <2>1. Add(nextSeq[p], 1) = nextSeq[p] + 1
    BY <1>4, AddPlain, WindowAssumption
  <2> QED
    BY <1>1, <2>1 DEF Send, LinkInv, SafeInv, SenderTypeOK
<1>6. \A q \in Peers : nextSeq[q] <= nextSeq'[q]
  BY <1>4, <1>5, SendersTyped
<1>7. \A k \in wire' : k \in wire \/ SentPacket(k)'
  <2> DEFINE packet == DataPacket(Other(p), nextSeq[p], sends[p])
  <2>1. packet \in DataPackets /\ packet.to = Other(p)
        /\ packet.seq = nextSeq[p] /\ packet.data = sends[p]
    <3>1. sends[p] \in Payload /\ nextSeq[p] \in SeqNum /\ Other(p) \in Peers
      BY <1>1, OtherIsPeer, SenderAssumption
      DEF Send, LinkInv, SafeInv, SenderTypeOK, Payload
    <3> QED BY <3>1 DEF DataPacket, DataPackets
  <2>2. ASSUME NEW k, k = packet PROVE SentPacket(k)'
    <3>1. Other(k.to) = p /\ k \in DataPackets /\ k.seq = nextSeq[p] /\ k.data = sends[p]
      BY <2>1, <2>2, OtherIsPeer
    <3> HIDE DEF packet
    <3> QED BY <3>1, <1>4, <1>5 DEF SentPacket
  <2>3. wire' \subseteq wire \cup {packet}
    BY <1>1 DEF Send, Write
  <2> HIDE DEF packet
  <2> QED BY <2>2, <2>3
<1>8. acked' = acked
  BY <1>1 DEF Send, ackVars
<1> QED
  BY <1>1, <1>2, <1>3, <1>6, <1>7, <1>8, SenderStep DEF LinkInv, TypeOK

LEMMA TickLink ==
  ASSUME NoWrap, LinkInv, NEW p \in Peers, Tick(p)
  PROVE  LinkInv'
<1>1. PICK expired \in SUBSET waiting(p) : ProcessTimeouts(p, expired)
  BY DEF Tick
<1>2. UNCHANGED <<recvBase, recvWindow, delivered, ackInbox, nextSeq, acked>>
  BY <1>1 DEF Tick, ProcessTimeouts, receiverVars, linkVars, ackVars
<1>3. SafeInv'
  BY <1>1, TimeoutSafe DEF LinkInv
<1>4. PrefixInv'
  BY <1>1, TimeoutPrefix DEF LinkInv
<1>5. \A q \in Peers : nextSeq[q] <= nextSeq'[q]
  BY <1>2, SendersTyped
<1>6. ASSUME NEW k \in wire' PROVE k \in wire \/ SentPacket(k)'
  <2>1. wire' \subseteq wire \cup {slotOf(p, seq).Serialized : seq \in expired}
    BY <1>1 DEF ProcessTimeouts, Write
  <2>2. ASSUME NEW seq \in expired PROVE SentPacket(slotOf(p, seq).Serialized)
    <3>1. seq \in Nat /\ slotOf(p, seq).State # "Empty"
      BY SendersTyped DEF waiting
    <3>2. getWindowIndex(seq) \in Index
      BY <3>1, IndexType
    <3> QED
      BY <3>1, <3>2, LiveSlot DEF LinkInv, slotOf
  <2>3. SentPacket(k)' <=> SentPacket(k)
    BY <1>2 DEF SentPacket
  <2> QED
    BY <2>1, <2>2, <2>3
<1> QED
  BY <1>2, <1>3, <1>4, <1>5, <1>6, SenderStep DEF LinkInv, TypeOK

LEMMA HandleACKLink ==
  ASSUME NoWrap, LinkInv, NEW p \in Peers, NEW seq \in ackInbox[p],
         HandleACK(p, seq)
  PROVE  LinkInv' /\ acked'[p] \subseteq acked[p] \cup {seq}
<1>1. ProcessACK(p, seq) /\ UNCHANGED <<recvBase, recvWindow, delivered>> /\ seq \in SeqNum
      /\ ackInbox' = [ackInbox EXCEPT ![p] = ackInbox[p] \ {seq}]
  BY DEF HandleACK, receiverVars, LinkInv, TypeOK
<1>2. SafeInv'
  BY <1>1, ProcessACKSafe DEF LinkInv
<1>3. PrefixInv'
  BY <1>1, ProcessACKPrefix DEF LinkInv
<1>4. nextSeq' = nextSeq
  BY <1>1 DEF ProcessACK, IgnoredACK, DuplicateACK, NewACK, windowVars
<1>5. \A q \in Peers : nextSeq[q] <= nextSeq'[q]
  BY <1>4, SendersTyped
<1>6. ASSUME NEW k \in wire' PROVE k \in wire \/ SentPacket(k)'
  <2>1. CASE wire' = wire
    BY <2>1
  <2>2. CASE wire' # wire
    <3>1. wire' = wire \cup {slotOf(p, seq).Serialized} /\ slotOf(p, seq).State # "Empty"
      BY <1>1, <2>2 DEF ProcessACK, IgnoredACK, DuplicateACK, NewACK, Write
    <3>2. getWindowIndex(seq) \in Index
      BY <1>1, SeqNums, IndexType
    <3>3. SentPacket(slotOf(p, seq).Serialized)
      BY <3>1, <3>2, LiveSlot DEF LinkInv, slotOf
    <3>4. SentPacket(k)' <=> SentPacket(k)
      BY <1>4 DEF SentPacket
    <3> QED BY <3>1, <3>3, <3>4
  <2> QED BY <2>1, <2>2
<1>7. \A q \in Peers : q # p => acked'[q] = acked[q]
  BY <1>1 DEF ProcessACK, IgnoredACK, DuplicateACK, NewACK, LinkInv, SafeInv, SenderTypeOK
<1>8. acked'[p] \subseteq acked[p] \cup {seq}
  <2>1. CASE acked' = acked
    BY <2>1
  <2>2. CASE acked' # acked
    <3>1. NewACK(p, seq)
      BY <1>1, <2>2 DEF ProcessACK, IgnoredACK, DuplicateACK
    <3>2. acked'[p] = acked[p] \cup {slotOf(p, seq).Serialized.data}
      BY <3>1 DEF NewACK, LinkInv, SafeInv, SenderTypeOK
    <3>3. isInWindow(sendBase[p], seq) /\ slotOf(p, seq).State # "Empty"
      BY <3>1 DEF NewACK, ackIsIgnored
    <3>4. /\ slotOf(p, seq).Serialized \in DataPackets
          /\ seq = slotOf(p, seq).Serialized.data % UintMod
      BY <3>3, <1>1, AckFindsPacket DEF LinkInv
    <3>5. slotOf(p, seq).Serialized.data \in Payload
      BY <3>4 DEF DataPackets
    <3>6. slotOf(p, seq).Serialized.data = seq
      BY <3>4, <3>5, PayloadPlain
    <3> QED BY <3>2, <3>6
  <2> QED BY <2>1, <2>2
<1>9. ackInbox' \in [Peers -> SUBSET SeqNum] /\ \A q \in Peers : ackInbox'[q] \subseteq ackInbox[q]
  BY <1>1 DEF LinkInv, TypeOK
<1>10. \A q \in Peers : acked'[q] \subseteq acked[q] \cup ackInbox[q]
  BY <1>7, <1>8
<1> QED
  BY <1>1, <1>2, <1>3, <1>5, <1>6, <1>8, <1>9, <1>10, SenderStep

-----------------------------------------------------------------------------
(***************************************************************************)
(* Steps of a receiver and of the network                                  *)
(***************************************************************************)
LEMMA LoseLink ==
  ASSUME LinkInv, NEW m \in wire, Lose(m)
  PROVE  LinkInv'
<1>1. UNCHANGED <<senderVars, recvBase, recvWindow, delivered, ackInbox>>
      /\ wire' \subseteq wire
  BY DEF Lose, receiverVars, linkVars
<1>2. UNCHANGED <<sendBase, nextSeq, acked, sendWindow>>
  BY <1>1 DEF senderVars, windowVars, ackVars
<1>3. SafeInv'
  BY <1>1, UnchangedSafe DEF LinkInv
<1>4. PrefixInv'
  BY <1>2, KeepPrefix DEF LinkInv
<1>5. \A q \in Peers : nextSeq[q] <= nextSeq'[q]
  BY <1>2, SendersTyped
<1> QED
  BY <1>1, <1>2, <1>3, <1>4, <1>5, SenderStep DEF LinkInv, TypeOK

\* The ACK that Recv writes, and the rest of the wire.
LEMMA AckWritten ==
  ASSUME LinkInv, NEW m \in wire, NEW duplicated, m.to \in Peers, m.seq \in SeqNum,
         sendACK(m.to, m, duplicated), UNCHANGED nextSeq,
         \A p \in Peers, s \in Nat : Received(p, s) => Received(p, s)',
         Received(m.to, m.seq)'
  PROVE  /\ wire' \subseteq DataPackets \cup AckPackets
         /\ WireSound'
<1> DEFINE ack == AckPacket(Other(m.to), m.seq)
<1>1. wire' \subseteq wire \cup {ack}
  BY DEF sendACK, Take
<1>2. ack \in AckPackets /\ ack.kind = "ack" /\ ack.seq = m.seq /\ ack.to = Other(m.to)
  BY OtherIsPeer DEF AckPacket, AckPackets
<1>3. Other(Other(m.to)) = m.to
  BY OtherIsPeer
<1>4. \A k \in wire : k.kind = "ack" => k.seq \in Nat /\ Other(k.to) \in Peers
  BY SeqNums, OtherIsPeer DEF LinkInv, TypeOK, DataPackets, AckPackets
<1>5. ASSUME NEW k \in wire'
      PROVE  /\ k.kind = "data" => k.seq = k.data /\ k.data < nextSeq'[Other(k.to)]
             /\ k.kind = "ack" => Received(Other(k.to), k.seq)'
  <2>1. CASE k \in wire
    BY <2>1, <1>4 DEF LinkInv, WireSound
  <2>2. CASE k = ack
    <3>1. k.kind = "ack" /\ Other(k.to) = m.to /\ k.seq = m.seq
      BY <2>2, <1>2, <1>3
    <3>2. m.to \in Peers /\ m.seq \in Nat
      BY SeqNums
    <3> QED BY <3>1
  <2> HIDE DEF ack
  <2> QED BY <1>1, <2>1, <2>2
<1> HIDE DEF ack
<1>6. wire' \subseteq DataPackets \cup AckPackets
  BY <1>1, <1>2 DEF LinkInv, TypeOK
<1> QED
  BY <1>5, <1>6 DEF WireSound

LEMMA RecvErrorLink ==
  ASSUME NoWrap, LinkInv, NEW m \in wire, NEW duplicated,
         RecvError(m.to, m, duplicated)
  PROVE  LinkInv'
<1>1. /\ ~ isNew(m.to, m.seq) /\ sendACK(m.to, m, duplicated)
      /\ UNCHANGED <<senderVars, recvBase, recvWindow, delivered, ackInbox>>
  BY DEF RecvError, RecvRejects, receiverVars, linkVars
<1>2. UNCHANGED <<sendBase, nextSeq, acked, sendWindow>>
  BY <1>1 DEF senderVars, windowVars, ackVars
<1>3. \A p, s : Received(p, s)' <=> Received(p, s)
  BY <1>1 DEF Received
<1>4. m.to \in Peers /\ m.seq \in SeqNum
  BY WireInReach
<1>5. Received(m.to, m.seq)
  BY <1>1, RejectedIsReceived
<1>6. wire' \subseteq DataPackets \cup AckPackets /\ WireSound'
  BY <1>1, <1>2, <1>3, <1>4, <1>5, AckWritten
<1>7. SafeInv' /\ PrefixInv'
  BY <1>1, <1>2, UnchangedSafe, KeepPrefix DEF LinkInv
<1>8. TypeOK' /\ BaseOpen'
  BY <1>1, <1>6, <1>7 DEF LinkInv, TypeOK, BaseOpen, SafeInv
<1>9. ReceivedSound' /\ DeliveredSound' /\ AckSound'
  BY <1>1, <1>2, <1>3 DEF LinkInv, ReceivedSound, DeliveredSound, AckSound
<1> QED
  BY <1>6, <1>7, <1>8, <1>9 DEF LinkInv

\* What holds after Recv accepted m, whatever it is.
LEMMA RecvAcceptsLink ==
  ASSUME NoWrap, LinkInv, NEW m \in wire, NEW duplicated,
         RecvAccepts(m.to, m, duplicated), UNCHANGED senderVars
  PROVE  /\ ~ Received(m.to, m.seq)
         /\ \A s \in Nat : Received(m.to, s)' <=> Received(m.to, s) \/ s = m.seq
         /\ \A q \in Peers, s \in Nat : q # m.to => (Received(q, s)' <=> Received(q, s))
         /\ \A q \in Peers, s \in Nat : Received(q, s) => Received(q, s)'
         /\ recvBase' \in [Peers -> SeqNum]
         /\ recvWindow' \in [Peers -> [Index -> BOOLEAN]]
         /\ wire' \subseteq DataPackets \cup AckPackets
         /\ BaseOpen' /\ WireSound' /\ SafeInv' /\ PrefixInv'
<1> DEFINE p == m.to
           seq == m.seq
<1>1. p \in Peers /\ seq \in SeqNum /\ seq \in Nat
  BY WireInReach
<1>2. isNew(p, seq) /\ Accept(p, seq) /\ sendACK(p, m, duplicated)
  BY DEF RecvAccepts
<1>3. /\ recvBase[p] \in Nat /\ recvBase[p] <= MaxSends
      /\ recvBase[p] + WindowSize < UintMod
  BY <1>1, RecvBaseBound DEF LinkInv
<1>4. ReceiverTypeOK /\ BaseOpen
  BY ReceiverTyped DEF LinkInv
<1>5. /\ recvWindow' \in [Peers -> [Index -> BOOLEAN]]
      /\ \E n \in 0 .. WindowSize : recvBase' = [recvBase EXCEPT ![p] = recvBase[p] + n]
      /\ BaseOpen'
      /\ ~ Received(p, seq)
      /\ \A s \in Nat : Received(p, s)' <=> Received(p, s) \/ s = seq
      /\ \A q \in Peers : q # p => recvBase'[q] = recvBase[q] /\ recvWindow'[q] = recvWindow[q]
  BY <1>1, <1>2, <1>3, <1>4, AcceptAdds
<1>6. recvBase' \in [Peers -> SeqNum]
  <2>1. PICK n \in 0 .. WindowSize : recvBase' = [recvBase EXCEPT ![p] = recvBase[p] + n]
    BY <1>5
  <2>2. recvBase[p] + n \in SeqNum
    BY <1>3, WindowAssumption DEF SeqNum
  <2> HIDE DEF p
  <2> QED BY <2>1, <2>2, <1>1 DEF LinkInv, TypeOK
<1>7. \A q \in Peers, s \in Nat : q # p => (Received(q, s)' <=> Received(q, s))
  BY <1>5 DEF Received
<1>8. \A q \in Peers, s \in Nat : Received(q, s) => Received(q, s)'
  BY <1>5, <1>7
<1>9. UNCHANGED <<sendBase, nextSeq, acked, sendWindow>>
  BY DEF senderVars, windowVars, ackVars
<1>10. Received(m.to, m.seq)'
  BY <1>1, <1>5
<1>11. wire' \subseteq DataPackets \cup AckPackets /\ WireSound'
  BY <1>1, <1>2, <1>8, <1>9, <1>10, AckWritten
<1>12. SafeInv' /\ PrefixInv'
  BY <1>9, UnchangedSafe, KeepPrefix DEF LinkInv
<1> QED
  BY <1>5, <1>6, <1>7, <1>8, <1>11, <1>12

\* Recv returns a message: it was not delivered before.
LEMMA RecvDataLink ==
  ASSUME NoWrap, LinkInv, NEW m \in wire, NEW duplicated,
         RecvData(m.to, m, duplicated)
  PROVE  LinkInv' /\ delivered[m.to][m.data] = 0
<1> DEFINE p == m.to
           d == m.data
<1>1. /\ p \in Peers /\ d \in Payload /\ d \in Nat /\ m.kind = "data"
  BY WireInReach DEF RecvData, Payload
<1>2. m.seq = d /\ d < nextSeq[Other(p)]
  BY <1>1 DEF LinkInv, WireSound
<1>3. /\ RecvAccepts(p, m, duplicated) /\ UNCHANGED senderVars /\ ackInbox' = ackInbox
      /\ delivered' = [delivered EXCEPT ![p][d] = @ + 1]
  BY DEF RecvData
<1>4. UNCHANGED <<nextSeq, acked>>
  BY <1>3 DEF senderVars, windowVars, ackVars
<1>5. /\ ~ Received(p, d)
      /\ \A s \in Nat : Received(p, s)' <=> Received(p, s) \/ s = d
      /\ \A q \in Peers, s \in Nat : q # p => (Received(q, s)' <=> Received(q, s))
      /\ \A q \in Peers, s \in Nat : Received(q, s) => Received(q, s)'
      /\ recvBase' \in [Peers -> SeqNum]
      /\ recvWindow' \in [Peers -> [Index -> BOOLEAN]]
      /\ wire' \subseteq DataPackets \cup AckPackets
      /\ BaseOpen' /\ WireSound' /\ SafeInv' /\ PrefixInv'
  BY <1>2, <1>3, RecvAcceptsLink
<1>6. delivered \in [Peers -> [Payload -> Nat]]
  BY DEF LinkInv, TypeOK
<1>7. delivered[p][d] = 0
  <2>1. delivered[p][d] \in Nat
    BY <1>1, <1>6
  <2>2. delivered[p][d] <= 1 /\ delivered[p][d] # 1
    BY <1>1, <1>5 DEF LinkInv, DeliveredSound
  <2> QED BY <2>1, <2>2
<1> HIDE DEF p, d
<1>8. /\ delivered' \in [Peers -> [Payload -> Nat]]
      /\ delivered'[p][d] = 1
      /\ \A q \in Peers, e \in Payload :
           q # p \/ e # d => delivered'[q][e] = delivered[q][e]
  BY <1>1, <1>3, <1>6, <1>7
<1>9. TypeOK'
  BY <1>3, <1>5, <1>8 DEF LinkInv, TypeOK, SafeInv
<1>10. ReceivedSound'
  <2> SUFFICES ASSUME NEW q \in Peers, NEW s \in Nat, Received(q, s)'
               PROVE  s \in Payload /\ (delivered'[q][s] = 1 \/ Received(Other(q), s)')
    BY DEF ReceivedSound
  <2>1. CASE q = p /\ s = d
    BY <2>1, <1>1, <1>8
  <2>2. CASE q # p \/ s # d
    <3>1. Received(q, s)
      BY <2>2, <1>1, <1>5
    <3>2. s \in Payload /\ (delivered[q][s] = 1 \/ Received(Other(q), s))
      BY <3>1 DEF LinkInv, ReceivedSound
    <3> QED BY <2>2, <3>2, <1>5, <1>8, OtherIsPeer
  <2> QED BY <2>1, <2>2
<1>11. DeliveredSound'
  <2> SUFFICES ASSUME NEW q \in Peers, NEW e \in Payload
               PROVE  /\ delivered'[q][e] <= 1
                      /\ delivered'[q][e] = 1 => Received(q, e)' /\ e < nextSeq'[Other(q)]
    BY DEF DeliveredSound
  <2>0. e \in Nat
    BY DEF Payload
  <2>1. CASE q = p /\ e = d
    BY <2>1, <1>1, <1>2, <1>4, <1>5, <1>8 DEF p
  <2>2. CASE q # p \/ e # d
    BY <2>0, <2>2, <1>4, <1>5, <1>8 DEF LinkInv, DeliveredSound
  <2> QED BY <2>1, <2>2
<1>12. AckSound'
  <2> SUFFICES ASSUME NEW q \in Peers, NEW s \in ackInbox[q] \cup acked[q]
               PROVE  s \in Payload /\ delivered'[Other(q)][s] = 1 /\ Received(q, s)'
    BY <1>3, <1>4 DEF AckSound
  <2>1. s \in Payload /\ s \in Nat /\ delivered[Other(q)][s] = 1 /\ Received(q, s)
    BY DEF LinkInv, AckSound, Payload
  <2>2. Other(q) # p \/ s # d
    BY <2>1, <1>7
  <2> QED
    BY <2>1, <2>2, <1>5, <1>8, OtherIsPeer
<1> QED
  BY <1>5, <1>7, <1>9, <1>10, <1>11, <1>12 DEF LinkInv, p, d

\* Recv returns an ACK: the message was delivered at the other end.
LEMMA RecvACKLink ==
  ASSUME NoWrap, LinkInv, NEW m \in wire, NEW duplicated,
         RecvACK(m.to, m, duplicated)
  PROVE  LinkInv'
<1> DEFINE p == m.to
           a == m.seq
<1>1. p \in Peers /\ a \in Nat /\ a \in SeqNum /\ m.kind = "ack" /\ Other(p) \in Peers
      /\ Other(Other(p)) = p /\ Other(p) # p
  BY WireInReach, OtherIsPeer DEF RecvACK
<1>2. Received(Other(p), a)
  BY <1>1 DEF LinkInv, WireSound
<1>3. /\ RecvAccepts(p, m, duplicated) /\ UNCHANGED senderVars /\ delivered' = delivered
      /\ ackInbox' = [ackInbox EXCEPT ![p] = @ \cup {a}]
  BY DEF RecvACK
<1>4. UNCHANGED <<nextSeq, acked>>
  BY <1>3 DEF senderVars, windowVars, ackVars
<1>5. /\ ~ Received(p, a)
      /\ \A s \in Nat : Received(p, s)' <=> Received(p, s) \/ s = a
      /\ \A q \in Peers, s \in Nat : q # p => (Received(q, s)' <=> Received(q, s))
      /\ \A q \in Peers, s \in Nat : Received(q, s) => Received(q, s)'
      /\ recvBase' \in [Peers -> SeqNum]
      /\ recvWindow' \in [Peers -> [Index -> BOOLEAN]]
      /\ wire' \subseteq DataPackets \cup AckPackets
      /\ BaseOpen' /\ WireSound' /\ SafeInv' /\ PrefixInv'
  BY <1>3, RecvAcceptsLink
<1>6. a \in Payload /\ delivered[Other(p)][a] = 1
  BY <1>1, <1>2, <1>5 DEF LinkInv, ReceivedSound
<1> HIDE DEF p, a
<1>7. ackInbox' \in [Peers -> SUBSET SeqNum]
      /\ \A q \in Peers : ackInbox'[q] \subseteq ackInbox[q] \cup (IF q = p THEN {a} ELSE {})
  BY <1>1, <1>3 DEF LinkInv, TypeOK
<1>8. TypeOK'
  BY <1>3, <1>5, <1>7 DEF LinkInv, TypeOK, SafeInv
<1>9. ReceivedSound'
  <2> SUFFICES ASSUME NEW q \in Peers, NEW s \in Nat, Received(q, s)'
               PROVE  s \in Payload /\ (delivered[q][s] = 1 \/ Received(Other(q), s)')
    BY <1>3 DEF ReceivedSound
  <2>1. CASE q = p /\ s = a
    BY <2>1, <1>1, <1>2, <1>5, <1>6
  <2>2. CASE q # p \/ s # a
    <3>1. Received(q, s)
      BY <2>2, <1>1, <1>5
    <3> QED BY <3>1, <1>5, OtherIsPeer DEF LinkInv, ReceivedSound
  <2> QED BY <2>1, <2>2
<1>10. DeliveredSound'
  <2>1. \A d \in Payload : d \in Nat
    BY DEF Payload
  <2> QED BY <2>1, <1>3, <1>4, <1>5 DEF LinkInv, DeliveredSound
<1>11. AckSound'
  <2> SUFFICES ASSUME NEW q \in Peers, NEW s \in ackInbox'[q] \cup acked[q]
               PROVE  s \in Payload /\ delivered[Other(q)][s] = 1 /\ Received(q, s)'
    BY <1>3, <1>4 DEF AckSound
  <2>1. CASE s \in ackInbox[q] \cup acked[q]
    <3>1. s \in Payload /\ s \in Nat /\ delivered[Other(q)][s] = 1 /\ Received(q, s)
      BY <2>1 DEF LinkInv, AckSound, Payload
    <3> QED BY <3>1, <1>5
  <2>2. CASE q = p /\ s = a
    BY <2>2, <1>1, <1>5, <1>6
  <2> QED BY <2>1, <2>2, <1>7
<1> QED
  BY <1>5, <1>8, <1>9, <1>10, <1>11 DEF LinkInv

LEMMA LinkInvInductive ==
  ASSUME NoWrap
  PROVE  LinkInv /\ [Next]_vars => LinkInv'
<1> SUFFICES ASSUME LinkInv, [Next]_vars PROVE LinkInv'
  OBVIOUS
<1>1. ASSUME NEW p \in Senders, AppSend(p) PROVE LinkInv'
  BY <1>1, AppSendLink, LinkAssumption
<1>2. ASSUME NEW p \in Peers, Tick(p) PROVE LinkInv'
  BY <1>2, TickLink
<1>3. ASSUME NEW p \in Peers, NEW seq \in ackInbox[p], HandleACK(p, seq) PROVE LinkInv'
  BY <1>3, HandleACKLink
<1>4. ASSUME NEW m \in wire, Lose(m) PROVE LinkInv'
  BY <1>4, LoseLink
<1>5. CASE Receive
  BY <1>5, RecvDataLink, RecvACKLink, RecvErrorLink DEF Receive
<1>6. CASE UNCHANGED vars
  <2>1. UNCHANGED <<senderVars, recvBase, recvWindow, delivered, ackInbox, wire>>
    BY <1>6 DEF vars, receiverVars, linkVars
  <2>2. UNCHANGED <<sendBase, nextSeq, acked, sendWindow>>
    BY <2>1 DEF senderVars, windowVars, ackVars
  <2>3. SafeInv' /\ PrefixInv'
    BY <2>1, <2>2, UnchangedSafe, KeepPrefix DEF LinkInv
  <2>4. \A q \in Peers : nextSeq[q] <= nextSeq'[q]
    BY <2>2, SendersTyped
  <2> QED
    BY <2>1, <2>2, <2>3, <2>4, SenderStep DEF LinkInv, TypeOK
<1> QED
  BY <1>1, <1>2, <1>3, <1>4, <1>5, <1>6 DEF Next

-----------------------------------------------------------------------------
(***************************************************************************)
(* Recv hands each message to its application at most once: over any       *)
(* network, for any number of messages below the overflow, with ACKs       *)
(* sharing the receive window.                                             *)
(***************************************************************************)
THEOREM DeliverySafe ==
  ASSUME NoWrap
  PROVE  Spec => []DeliveredAtMostOnce
<1>1. LinkInv => DeliveredAtMostOnce
  BY DEF LinkInv, DeliveredSound, DeliveredAtMostOnce
<1> QED
  BY <1>1, InitLink, LinkInvInductive, PTL DEF Spec

(***************************************************************************)
(* ProcessACK only confirms messages that the other end's Recv has handed  *)
(* out, although Recv also acknowledges the packets that it rejects and    *)
(* acknowledges ACKs.                                                      *)
(***************************************************************************)
THEOREM ConfirmedWasDelivered ==
  ASSUME NoWrap
  PROVE  Spec => []AckedIsDelivered
<1>1. LinkInv => AckedIsDelivered
  BY DEF LinkInv, AckSound, AckedIsDelivered
<1> QED
  BY <1>1, InitLink, LinkInvInductive, PTL DEF Spec

\* Every step of the link is a step of the channel or leaves it alone.
LEMMA ChannelStep ==
  ASSUME NoWrap, LinkInv, [Next]_vars
  PROVE  [Channel!Next]_(Channel!channelVars)
<1> DEFINE got == [p \in Peers |-> delivered[Other(p)]]
<1> USE DEF Channel!channelVars
<1>1. ASSUME NEW p \in Senders, AppSend(p)
      PROVE  Channel!Submit(p) /\ p \in Peers
  <2>1. /\ sends[p] < MaxSends /\ sends' = [sends EXCEPT ![p] = @ + 1]
        /\ delivered' = delivered /\ acked' = acked
    BY <1>1 DEF AppSend, Send, linkVars, ackVars
  <2> QED BY <2>1, LinkAssumption DEF Channel!Submit
<1>2. ASSUME sends' = sends, delivered' = delivered, acked' = acked
      PROVE  UNCHANGED Channel!channelVars
  BY <1>2
<1>3. ASSUME NEW p \in Peers, Tick(p) PROVE UNCHANGED Channel!channelVars
  <2>1. sends' = sends /\ delivered' = delivered /\ acked' = acked
    BY <1>3 DEF Tick, ProcessTimeouts, linkVars, ackVars
  <2> QED BY <2>1, <1>2
<1>4. ASSUME NEW p \in Peers, NEW seq \in ackInbox[p], HandleACK(p, seq)
      PROVE  [Channel!Next]_(Channel!channelVars)
  <2>1. /\ sends' = sends /\ delivered' = delivered
    BY <1>4 DEF HandleACK, ProcessACK
  <2>2. seq \in Payload /\ delivered[Other(p)][seq] = 1
    BY DEF LinkInv, AckSound
  <2>3. /\ acked \in [Peers -> SUBSET Payload]
        /\ \/ acked' = acked
           \/ acked' = [acked EXCEPT ![p] = @ \cup {seq}]
    <3>1. acked'[p] \subseteq acked[p] \cup {seq}
      BY <1>4, HandleACKLink
    <3>2. acked' = acked \/ \E d : acked' = [acked EXCEPT ![p] = @ \cup {d}]
      BY <1>4 DEF HandleACK, ProcessACK, IgnoredACK, DuplicateACK, NewACK
    <3>3. acked \in [Peers -> SUBSET Payload]
      BY DEF LinkInv, SafeInv, SenderTypeOK
    <3>4. CASE acked' = acked
      BY <3>3, <3>4
    <3>5. ASSUME NEW d, acked' = [acked EXCEPT ![p] = @ \cup {d}]
          PROVE  acked' = acked \/ acked' = [acked EXCEPT ![p] = @ \cup {seq}]
      <4>1. acked'[p] = acked[p] \cup {d}
        BY <3>3, <3>5
      <4>2. d = seq \/ d \in acked[p]
        BY <4>1, <3>1
      <4>3. CASE d = seq
        BY <4>3, <3>5
      <4>4. CASE d \in acked[p]
        <5>1. acked[p] \cup {d} = acked[p]
          BY <4>4
        <5> QED BY <5>1, <3>3, <3>5
      <4> QED BY <4>2, <4>3, <4>4
    <3> QED BY <3>2, <3>3, <3>4, <3>5
  <2>4. CASE acked' = acked
    BY <2>1, <2>4, <1>2
  <2>5. CASE acked' = [acked EXCEPT ![p] = @ \cup {seq}]
    <3>1. Channel!Confirm(p, seq)
      BY <2>1, <2>2, <2>5 DEF Channel!Confirm
    <3>2. seq \in 0 .. (MaxSends - 1)
      BY <2>2 DEF Payload
    <3> QED BY <3>1, <3>2 DEF Channel!Next
  <2> QED BY <2>3, <2>4, <2>5
<1>5. ASSUME NEW m \in wire, NEW duplicated, RecvData(m.to, m, duplicated)
      PROVE  Channel!Next
  <2> DEFINE p == m.to
             d == m.data
  <2>1. p \in Peers /\ d \in Payload /\ m.kind = "data" /\ Other(p) \in Peers
        /\ Other(Other(p)) = p
    BY <1>5, WireInReach, OtherIsPeer DEF RecvData
  <2>2. d < sends[Other(p)]
    BY <2>1, NextPlain DEF LinkInv, WireSound
  <2>3. delivered[p][d] = 0
    BY <1>5, RecvDataLink
  <2>4. /\ delivered' = [delivered EXCEPT ![p][d] = @ + 1]
        /\ sends' = sends /\ acked' = acked
    BY <1>5 DEF RecvData, senderVars, ackVars
  <2>5. delivered \in [Peers -> [Payload -> Nat]]
    BY DEF LinkInv, TypeOK
  <2> HIDE DEF p, d
  <2>6. delivered' = [delivered EXCEPT ![p][d] = 1]
    BY <2>1, <2>3, <2>4, <2>5
  <2>7. got[Other(p)][d] = 0
    BY <2>1, <2>3
  <2>8. [q \in Peers |-> delivered'[Other(q)]] = [got EXCEPT ![Other(p)][d] = 1]
    <3>1. \A q \in Peers : q = Other(p) <=> Other(q) = p
      BY <2>1, PeersDistinct DEF Peers, Other
    <3>2. delivered'[p] = [delivered[p] EXCEPT ![d] = 1]
          /\ \A q \in Peers : q # p => delivered'[q] = delivered[q]
      BY <2>1, <2>5, <2>6
    <3>3. ASSUME NEW q \in Peers
          PROVE  delivered'[Other(q)] = [got EXCEPT ![Other(p)][d] = 1][q]
      <4>1. CASE q = Other(p)
        BY <4>1, <3>2, <2>1
      <4>2. CASE q # Other(p)
        BY <4>2, <3>1, <3>2, <2>1, OtherIsPeer
      <4> QED BY <4>1, <4>2
    <3> QED BY <3>3
  <2>9. Channel!Deliver(Other(p), d)
    BY <2>2, <2>4, <2>7, <2>8 DEF Channel!Deliver
  <2>10. d \in 0 .. (MaxSends - 1)
    BY <2>1 DEF Payload
  <2> QED
    BY <2>1, <2>9, <2>10 DEF Channel!Next
<1>6. ASSUME NEW m \in wire, NEW duplicated,
             RecvACK(m.to, m, duplicated) \/ RecvError(m.to, m, duplicated) \/ Lose(m)
      PROVE  UNCHANGED Channel!channelVars
  <2>1. sends' = sends /\ delivered' = delivered /\ acked' = acked
    BY <1>6 DEF RecvACK, RecvError, Lose, linkVars, senderVars, ackVars
  <2> QED BY <2>1, <1>2
<1>7. CASE UNCHANGED vars
  BY <1>7, <1>2 DEF vars, senderVars, ackVars, linkVars
<1>8. CASE Receive
  BY <1>5, <1>6, <1>8 DEF Receive
<1> QED
  BY <1>1, <1>3, <1>4, <1>6, <1>7, <1>8 DEF Next, Channel!Next

(***************************************************************************)
(* Two ReliableContexts implement the message channel: every step of Send, *)
(* Recv, ProcessACK, ProcessTimeouts and of the network is a submission, a *)
(* first delivery, a confirmation of a delivered message, or invisible.    *)
(***************************************************************************)
THEOREM LinkImplementsChannel ==
  ASSUME NoWrap
  PROVE  Spec => ImplementsChannel
<1>1. Init => Channel!Init
  <2> SUFFICES ASSUME Init PROVE Channel!Init
    OBVIOUS
  <2>1. sends = [p \in Peers |-> 0] /\ acked = [p \in Peers |-> {}]
    BY DEF Init, SenderInit
  <2>2. [p \in Peers |-> delivered[Other(p)]] =
          [p \in Peers |-> [d \in 0 .. (MaxSends - 1) |-> 0]]
    BY OtherIsPeer DEF Init, Payload
  <2> QED BY <2>1, <2>2 DEF Channel!Init
<1>2. LinkInv /\ [Next]_vars => [Channel!Next]_(Channel!channelVars)
  BY ChannelStep
<1> QED
  BY <1>1, <1>2, InitLink, LinkInvInductive, PTL
  DEF Spec, ImplementsChannel, Channel!Spec

-----------------------------------------------------------------------------
(***************************************************************************)
(* What Recv throws away                                                   *)
(***************************************************************************)
\* A received number is that of a message delivered at one of the two ends.
NumbersUsed ==
  \A q \in Peers, s \in Nat :
    Received(q, s) => delivered[q][s] = 1 \/ delivered[Other(q)][s] = 1

LEMMA NumbersUsedInductive ==
  ASSUME NoWrap, LinkInv, NumbersUsed, [Next]_vars
  PROVE  NumbersUsed'
<1>1. ASSUME UNCHANGED <<recvBase, recvWindow, delivered>>
      PROVE  NumbersUsed'
  BY <1>1 DEF NumbersUsed, Received
<1>2. ASSUME NEW p \in Senders, AppSend(p) PROVE NumbersUsed'
  BY <1>1, <1>2 DEF AppSend, receiverVars, linkVars
<1>3. ASSUME NEW p \in Peers, Tick(p) PROVE NumbersUsed'
  BY <1>1, <1>3 DEF Tick, receiverVars, linkVars
<1>4. ASSUME NEW p \in Peers, NEW seq \in ackInbox[p], HandleACK(p, seq) PROVE NumbersUsed'
  BY <1>1, <1>4 DEF HandleACK, receiverVars
<1>5. ASSUME NEW m \in wire, NEW duplicated, RecvError(m.to, m, duplicated) \/ Lose(m)
      PROVE  NumbersUsed'
  BY <1>1, <1>5 DEF RecvError, RecvRejects, Lose, receiverVars, linkVars
<1>6. ASSUME NEW m \in wire, NEW duplicated, RecvACK(m.to, m, duplicated)
      PROVE  NumbersUsed'
  <2>1. /\ m.to \in Peers /\ m.seq \in Nat /\ m.kind = "ack"
        /\ Other(m.to) \in Peers /\ Other(Other(m.to)) = m.to
    BY <1>6, WireInReach, OtherIsPeer DEF RecvACK
  <2>2. Received(Other(m.to), m.seq)
    BY <2>1 DEF LinkInv, WireSound
  <2>3. delivered[m.to][m.seq] = 1 \/ delivered[Other(m.to)][m.seq] = 1
    BY <2>1, <2>2 DEF NumbersUsed
  <2>4. RecvAccepts(m.to, m, duplicated) /\ UNCHANGED senderVars /\ delivered' = delivered
    BY <1>6 DEF RecvACK
  <2>5. /\ \A s \in Nat : Received(m.to, s)' <=> Received(m.to, s) \/ s = m.seq
        /\ \A q \in Peers, s \in Nat : q # m.to => (Received(q, s)' <=> Received(q, s))
    BY <2>4, RecvAcceptsLink
  <2> QED
    BY <2>3, <2>4, <2>5 DEF NumbersUsed
<1>7. ASSUME NEW m \in wire, NEW duplicated, RecvData(m.to, m, duplicated)
      PROVE  NumbersUsed'
  <2>1. /\ m.to \in Peers /\ m.kind = "data" /\ m.data \in Payload /\ m.data \in Nat
        /\ m.seq = m.data
    BY <1>7, WireInReach DEF RecvData, Payload, LinkInv, WireSound
  <2>2. /\ RecvAccepts(m.to, m, duplicated) /\ UNCHANGED senderVars
        /\ delivered' = [delivered EXCEPT ![m.to][m.data] = @ + 1]
    BY <1>7 DEF RecvData
  <2>3. /\ \A s \in Nat : Received(m.to, s)' <=> Received(m.to, s) \/ s = m.data
        /\ \A q \in Peers, s \in Nat : q # m.to => (Received(q, s)' <=> Received(q, s))
    BY <2>1, <2>2, RecvAcceptsLink
  <2>4. delivered[m.to][m.data] = 0 /\ delivered \in [Peers -> [Payload -> Nat]]
    BY <1>7, RecvDataLink DEF LinkInv, TypeOK
  <2>5. /\ delivered'[m.to][m.data] = 1
        /\ \A q \in Peers, e \in Payload :
             q # m.to \/ e # m.data => delivered'[q][e] = delivered[q][e]
    BY <2>1, <2>2, <2>4
  <2>6. ASSUME NEW q \in Peers, NEW s \in Nat, Received(q, s)'
        PROVE  delivered'[q][s] = 1 \/ delivered'[Other(q)][s] = 1
    <3>1. CASE q = m.to /\ s = m.data
      BY <3>1, <2>5
    <3>2. CASE ~ (q = m.to /\ s = m.data)
      <4>1. Received(q, s)
        BY <3>2, <2>3, <2>6
      <4>2. /\ s \in Payload /\ Other(q) \in Peers
            /\ delivered[q][s] = 1 \/ delivered[Other(q)][s] = 1
        BY <4>1, OtherIsPeer DEF LinkInv, ReceivedSound, NumbersUsed
      <4>3. delivered[m.to][m.data] # 1
        BY <2>4
      <4> QED BY <4>2, <4>3, <2>5
    <3> QED BY <3>1, <3>2
  <2> QED
    BY <2>6 DEF NumbersUsed
<1>8. CASE UNCHANGED vars
  BY <1>8, <1>1 DEF vars, receiverVars, linkVars
<1> QED
  BY <1>2, <1>3, <1>4, <1>5, <1>6, <1>7, <1>8 DEF Next, Receive

(***************************************************************************)
(* A data packet that Recv rejects as a duplicate or as outside the window *)
(* has a number that a delivered message used up: this message, or the     *)
(* rejecting end's own.  In particular an end that sends nothing throws    *)
(* nothing away.                                                           *)
(***************************************************************************)
THEOREM RejectedNumbersUsed ==
  ASSUME NoWrap
  PROVE  Spec => []RejectedNumberIsUsed
<1> DEFINE Inv == LinkInv /\ NumbersUsed
<1>1. Init => Inv
  <2> SUFFICES ASSUME Init PROVE NumbersUsed
    BY InitLink
  <2>1. ASSUME NEW q \in Peers, NEW s \in Nat PROVE ~ Received(q, s)
    <3>1. recvBase[q] = 0 /\ recvWindow[q] = [i \in Index |-> FALSE]
          /\ getWindowIndex(s) \in Index
      BY IndexType DEF Init, ReceiverInit
    <3> QED BY <3>1 DEF Received, Covers
  <2> QED BY <2>1 DEF NumbersUsed
<1>2. Inv /\ [Next]_vars => Inv'
  BY LinkInvInductive, NumbersUsedInductive
<1>3. Inv => RejectedNumberIsUsed
  <2> SUFFICES ASSUME LinkInv, NumbersUsed, NEW m \in wire, m.kind = "data",
                      ~ isNew(m.to, m.seq)
               PROVE  \E p \in Peers : delivered[p][m.data] >= 1
    BY DEF RejectedNumberIsUsed
  <2>1. m.to \in Peers /\ m.seq \in Nat /\ m.data \in Payload /\ m.data \in Nat
    BY WireInReach DEF Payload
  <2>2. m.seq = m.data
    BY DEF LinkInv, WireSound
  <2>3. Received(m.to, m.seq)
    BY RejectedIsReceived
  <2>4. \E p \in Peers : delivered[p][m.data] = 1
    BY <2>1, <2>2, <2>3, OtherIsPeer DEF NumbersUsed
  <2> QED
    BY <2>4
<1> QED
  BY <1>1, <1>2, <1>3, PTL DEF Spec
-----------------------------------------------------------------------------
(***************************************************************************)
(* Types, across the overflow                                              *)
(*                                                                         *)
(* Nothing here needs NoWrap: the sequence numbers may go around.          *)
(***************************************************************************)
TypedLink == TypeOK /\ SafeInv

LEMMA WireTyped ==
  ASSUME TypeOK, NEW m \in wire
  PROVE  /\ m.to \in Peers /\ m.seq \in SeqNum
         /\ m.kind = "data" => m.data \in Payload
  BY DEF TypeOK, DataPackets, AckPackets

\* The packet of a slot in use can be written to the wire.
LEMMA SlotIsPacket ==
  ASSUME SafeInv, NEW p \in Peers, NEW seq \in Nat, slotOf(p, seq).State # "Empty"
  PROVE  slotOf(p, seq).Serialized \in DataPackets
  BY IndexType DEF SafeInv, SlotsHoldTheirPackets, slotOf

\* A step of a sender: it writes data packets and takes ACKs away.
LEMMA SenderStepTyped ==
  ASSUME TypedLink, SafeInv', UNCHANGED <<recvBase, recvWindow, delivered>>,
         wire' \subseteq wire \cup DataPackets,
         ackInbox' \in [Peers -> SUBSET SeqNum]
  PROVE  TypedLink'
  BY DEF TypedLink, TypeOK, SafeInv

LEMMA AcceptTyped ==
  ASSUME NEW p \in Peers, NEW seq, TypeOK, Accept(p, seq)
  PROVE  /\ recvBase' \in [Peers -> SeqNum]
         /\ recvWindow' \in [Peers -> [Index -> BOOLEAN]]
<1> DEFINE marked == [recvWindow[p] EXCEPT ![getWindowIndex(seq)] = TRUE]
<1>1. PICK n \in 0 .. WindowSize :
        /\ recvBase' = [recvBase EXCEPT ![p] = Add(recvBase[p], n)]
        /\ recvWindow' = [recvWindow EXCEPT ![p] = bitsCleared(marked, recvBase[p], n)]
  BY DEF Accept
<1>2. recvBase \in [Peers -> SeqNum] /\ recvWindow \in [Peers -> [Index -> BOOLEAN]]
  BY DEF TypeOK
<1>3. Add(recvBase[p], n) \in SeqNum
  <2> HIDE DEF marked
  <2>1. recvBase[p] \in Nat
    BY <1>2, SeqNums
  <2>2. recvBase[p] + n \in Nat
    BY <2>1, WindowAssumption
  <2> QED
    BY <2>2, WindowAssumption DEF Add, SeqNum
<1>4. bitsCleared(marked, recvBase[p], n) \in [Index -> BOOLEAN]
  <2>1. marked \in [Index -> BOOLEAN]
    BY <1>2, Zenon
  <2> HIDE DEF marked
  <2> QED
    BY <2>1, Zenon DEF bitsCleared
<1> HIDE DEF marked
<1> QED
  BY <1>1, <1>2, <1>3, <1>4

\* A call of Recv: it writes an ACK, and data or an ACK go to the reader.
LEMMA RecvTyped ==
  ASSUME TypedLink, NEW m \in wire, NEW duplicated,
         \/ RecvData(m.to, m, duplicated)
         \/ RecvACK(m.to, m, duplicated)
         \/ RecvError(m.to, m, duplicated)
  PROVE  TypedLink' /\ UNCHANGED senderVars
         /\ \A q \in Peers : ackInbox[q] \subseteq ackInbox'[q]
<1>1. /\ m.to \in Peers /\ m.seq \in SeqNum /\ TypeOK /\ SafeInv
      /\ m.kind = "data" => m.data \in Payload
  BY WireTyped DEF TypedLink
<1>2. UNCHANGED senderVars /\ sendACK(m.to, m, duplicated)
  BY DEF RecvData, RecvACK, RecvError, RecvAccepts, RecvRejects
<1>3. SafeInv'
  BY <1>1, <1>2, UnchangedSafe
<1>4. wire' \subseteq DataPackets \cup AckPackets
  <2>1. AckPacket(Other(m.to), m.seq) \in AckPackets
    BY <1>1, OtherIsPeer DEF AckPacket, AckPackets
  <2> QED
    BY <1>1, <1>2, <2>1 DEF sendACK, Take, TypeOK
<1>5. recvBase' \in [Peers -> SeqNum] /\ recvWindow' \in [Peers -> [Index -> BOOLEAN]]
  <2>1. CASE RecvError(m.to, m, duplicated)
    BY <1>1, <2>1 DEF RecvError, RecvRejects, receiverVars, TypeOK
  <2>2. CASE Accept(m.to, m.seq)
    BY <1>1, <2>2, AcceptTyped
  <2> QED
    BY <2>1, <2>2 DEF RecvData, RecvACK, RecvAccepts
<1>6. /\ ackInbox' \in [Peers -> SUBSET SeqNum]
      /\ \A q \in Peers : ackInbox[q] \subseteq ackInbox'[q]
  <2>1. ackInbox \in [Peers -> SUBSET SeqNum]
    BY <1>1 DEF TypeOK
  <2>2. \/ ackInbox' = ackInbox
        \/ ackInbox' = [ackInbox EXCEPT ![m.to] = @ \cup {m.seq}]
    BY DEF RecvData, RecvACK, RecvError, linkVars
  <2> QED
    BY <1>1, <2>1, <2>2
<1>7. delivered' \in [Peers -> [Payload -> Nat]]
  <2>1. delivered \in [Peers -> [Payload -> Nat]]
    BY <1>1 DEF TypeOK
  <2>2. CASE RecvData(m.to, m, duplicated)
    <3>1. m.data \in Payload /\ delivered' = [delivered EXCEPT ![m.to][m.data] = @ + 1]
      BY <1>1, <2>2 DEF RecvData
    <3> QED
      BY <1>1, <2>1, <3>1
  <2> QED
    BY <2>1, <2>2 DEF RecvACK, RecvError, linkVars
<1> QED
  BY <1>2, <1>3, <1>4, <1>5, <1>6, <1>7 DEF TypedLink, TypeOK, SafeInv

LEMMA HandleACKTyped ==
  ASSUME TypedLink, NEW p \in Peers, NEW seq \in ackInbox[p], HandleACK(p, seq)
  PROVE  TypedLink' /\ seq \in SeqNum /\ ProcessACK(p, seq)
         /\ \A q \in Peers : ackInbox[q] \ ackInbox'[q] \subseteq IF q = p THEN {seq} ELSE {}
<1>1. /\ ProcessACK(p, seq) /\ UNCHANGED <<recvBase, recvWindow, delivered>>
      /\ seq \in SeqNum /\ TypeOK /\ SafeInv
      /\ ackInbox \in [Peers -> SUBSET SeqNum]
      /\ ackInbox' = [ackInbox EXCEPT ![p] = ackInbox[p] \ {seq}]
  BY DEF HandleACK, receiverVars, TypedLink, TypeOK
<1>2. SafeInv'
  BY <1>1, ProcessACKSafe
<1>3. wire' \subseteq wire \cup DataPackets
  <2>1. CASE wire' = wire
    BY <2>1
  <2>2. CASE wire' # wire
    <3>1. wire' = wire \cup {slotOf(p, seq).Serialized} /\ slotOf(p, seq).State # "Empty"
      BY <1>1, <2>2 DEF ProcessACK, IgnoredACK, DuplicateACK, NewACK, Write
    <3> QED
      BY <1>1, <3>1, SeqNums, SlotIsPacket
  <2> QED
    BY <2>1, <2>2
<1>4. ackInbox' \in [Peers -> SUBSET SeqNum]
  BY <1>1
<1>5. TypedLink'
  BY <1>1, <1>2, <1>3, <1>4, SenderStepTyped
<1> QED
  BY <1>1, <1>5

LEMMA AppSendTyped ==
  ASSUME TypedLink, NEW p \in Peers, AppSend(p)
  PROVE  TypedLink' /\ ackInbox' = ackInbox
<1>1. Send(p) /\ UNCHANGED <<recvBase, recvWindow, delivered, ackInbox>> /\ TypeOK /\ SafeInv
  BY DEF AppSend, receiverVars, linkVars, TypedLink
<1>2. SafeInv'
  BY <1>1, SendSafe
<1>3. wire' \subseteq wire \cup DataPackets
  <2> DEFINE packet == DataPacket(Other(p), nextSeq[p], sends[p])
  <2>1. packet \in DataPackets
    <3>1. sends[p] \in Payload /\ nextSeq[p] \in SeqNum /\ Other(p) \in Peers
      BY <1>1, OtherIsPeer, SenderAssumption DEF Send, SafeInv, SenderTypeOK, Payload
    <3> QED BY <3>1 DEF DataPacket, DataPackets
  <2>2. wire' \subseteq wire \cup {packet}
    BY <1>1 DEF Send, Write
  <2> HIDE DEF packet
  <2> QED BY <2>1, <2>2
<1> QED
  BY <1>1, <1>2, <1>3, SenderStepTyped DEF TypeOK

LEMMA TickTyped ==
  ASSUME TypedLink, NEW p \in Peers, Tick(p)
  PROVE  TypedLink' /\ ackInbox' = ackInbox
<1>1. PICK expired \in SUBSET waiting(p) : ProcessTimeouts(p, expired)
  BY DEF Tick
<1>2. UNCHANGED <<recvBase, recvWindow, delivered, ackInbox>> /\ TypeOK /\ SafeInv
  BY DEF Tick, receiverVars, linkVars, TypedLink
<1>3. SafeInv'
  BY <1>1, <1>2, TimeoutSafe
<1>4. ASSUME NEW seq \in expired PROVE slotOf(p, seq).Serialized \in DataPackets
  <2>1. sendBase[p] \in Nat /\ nextSeq[p] \in Nat
    BY <1>2, SeqNums DEF SafeInv, SenderTypeOK
  <2>2. seq \in Nat /\ slotOf(p, seq).State # "Empty"
    BY <2>1 DEF waiting
  <2> QED
    BY <1>2, <2>2, SlotIsPacket
<1>5. wire' \subseteq wire \cup {slotOf(p, seq).Serialized : seq \in expired}
  BY <1>1 DEF ProcessTimeouts, Write
<1> QED
  BY <1>2, <1>3, <1>4, <1>5, SenderStepTyped DEF TypeOK

LEMMA TypedLinkInductive == TypedLink /\ [Next]_vars => TypedLink'
<1> SUFFICES ASSUME TypedLink, [Next]_vars PROVE TypedLink'
  OBVIOUS
<1>1. ASSUME NEW p \in Senders, AppSend(p) PROVE TypedLink'
  BY <1>1, AppSendTyped, LinkAssumption
<1>2. ASSUME NEW p \in Peers, Tick(p) PROVE TypedLink'
  BY <1>2, TickTyped
<1>3. ASSUME NEW p \in Peers, NEW seq \in ackInbox[p], HandleACK(p, seq) PROVE TypedLink'
  BY <1>3, HandleACKTyped
<1>4. ASSUME NEW m \in wire, Lose(m) PROVE TypedLink'
  <2>1. UNCHANGED <<senderVars, recvBase, recvWindow, delivered, ackInbox>>
        /\ wire' \subseteq wire
    BY <1>4 DEF Lose, receiverVars, linkVars
  <2> QED
    BY <2>1, UnchangedSafe, SenderStepTyped DEF TypedLink, TypeOK
<1>5. CASE Receive
  BY <1>5, RecvTyped DEF Receive
<1>6. CASE UNCHANGED vars
  <2>1. UNCHANGED <<senderVars, recvBase, recvWindow, delivered, ackInbox, wire>>
    BY <1>6 DEF vars, receiverVars, linkVars
  <2> QED
    BY <2>1, UnchangedSafe, SenderStepTyped DEF TypedLink, TypeOK
<1> QED
  BY <1>1, <1>2, <1>3, <1>4, <1>5, <1>6 DEF Next

(***************************************************************************)
(* Whatever the network does, both contexts keep their types: no slot of a *)
(* ring is missing, every datagram is a data packet or an ACK, and every   *)
(* number stays a uint32, also after the sequence numbers have gone around.*)
(***************************************************************************)
THEOREM LinkTypes == Spec => []TypeOK
<1>1. Init => TypedLink
  BY InitLink DEF TypedLink, LinkInv
<1>2. TypedLink => TypeOK
  BY DEF TypedLink
<1> QED
  BY <1>1, <1>2, TypedLinkInductive, PTL DEF Spec

-----------------------------------------------------------------------------
(***************************************************************************)
(* What ProcessACK does with the ACK of a waiting packet                   *)
(***************************************************************************)
LEMMA SettledInductive ==
  ASSUME TypedLink, [Next]_vars, NEW q \in Peers, LastACKSettled(q)
  PROVE  LastACKSettled(q)'
<1>0. SafeInv /\ SenderTypeOK
  BY DEF TypedLink, SafeInv
<1>1. ASSUME NEW p \in Senders, AppSend(p) PROVE LastACKSettled(q)'
  <2>1. p \in Peers /\ Send(p)
    BY <1>1, LinkAssumption DEF AppSend
  <2>2. UNCHANGED <<sendBase, lastACKSeq, acked>>
    BY <2>1 DEF Send, ackVars
  <2>3. CASE q = p
    <3>1. \A i \in Index : sendWindow[p][i].State = "ACKed" =>
                             sendWindow'[p][i] = sendWindow[p][i]
      BY <1>0, <2>1, SendKeepsSlots
    <3> QED
      BY <1>0, <2>2, <2>3, <3>1, SettledKept
  <2>4. CASE q # p
    <3>1. sendWindow'[q] = sendWindow[q]
      BY <1>0, <2>1, <2>4 DEF Send, SenderTypeOK
    <3> QED
      BY <1>0, <2>2, <3>1, SettledElsewhere
  <2> QED
    BY <2>3, <2>4
<1>2. ASSUME NEW p \in Peers, Tick(p) PROVE LastACKSettled(q)'
  <2>1. PICK expired \in SUBSET waiting(p) : ProcessTimeouts(p, expired)
    BY <1>2 DEF Tick
  <2>2. UNCHANGED <<sendBase, lastACKSeq, acked>>
    BY <2>1 DEF ProcessTimeouts, ackVars
  <2>3. CASE q = p
    <3>1. \A i \in Index : sendWindow[p][i].State = "ACKed" =>
                             sendWindow'[p][i] = sendWindow[p][i]
      BY <1>0, <2>1, TimeoutKeepsAcked
    <3> QED
      BY <1>0, <2>2, <2>3, <3>1, SettledKept
  <2>4. CASE q # p
    <3>1. sendWindow'[q] = sendWindow[q]
      BY <1>0, <2>1, <2>4 DEF ProcessTimeouts, SenderTypeOK
    <3> QED
      BY <1>0, <2>2, <3>1, SettledElsewhere
  <2> QED
    BY <2>3, <2>4
<1>3. ASSUME NEW p \in Peers, NEW seq \in ackInbox[p], HandleACK(p, seq)
      PROVE  LastACKSettled(q)'
  BY <1>0, <1>3, HandleACKTyped, SettledAfterACK
<1>4. ASSUME UNCHANGED senderVars PROVE LastACKSettled(q)'
  BY <1>0, <1>4, SettledElsewhere DEF senderVars, windowVars, ackVars
<1>5. ASSUME NEW m \in wire, Lose(m) PROVE LastACKSettled(q)'
  BY <1>4, <1>5 DEF Lose
<1>6. CASE Receive
  BY <1>4, <1>6, RecvTyped DEF Receive
<1>7. CASE UNCHANGED vars
  BY <1>4, <1>7 DEF vars
<1> QED
  BY <1>1, <1>2, <1>3, <1>5, <1>6, <1>7 DEF Next

\* The numbers the scan of ProcessTimeouts goes through are in the window.
LEMMA WaitingInWindow ==
  ASSUME SafeInv, NEW p \in Peers, NEW seq \in waiting(p)
  PROVE  seq \in SeqNum /\ isInWindow(sendBase[p], seq) /\ ~ ackIsIgnored(p, seq)
<1>1. sendBase[p] \in SeqNum /\ nextSeq[p] \in SeqNum /\ sendBase[p] \in Nat /\ nextSeq[p] \in Nat
  BY SeqNums DEF SafeInv, SenderTypeOK
<1>2. /\ seq \in Nat /\ sendBase[p] <= seq /\ seq < nextSeq[p]
      /\ seq < sendBase[p] + WindowSize
  BY <1>1 DEF waiting
<1>3. slotOf(p, seq).State \notin {"Empty", "ACKed"}
  BY DEF waiting
<1>4. seq \in SeqNum
  BY <1>1, <1>2, WindowAssumption DEF SeqNum
<1>5. Sub(seq, sendBase[p]) = seq - sendBase[p]
  BY <1>1, <1>2, <1>4, SubPlain
<1>6. Sub(seq, sendBase[p]) < WindowSize
  BY <1>1, <1>2, <1>5, WindowAssumption
<1>7. isInWindow(sendBase[p], seq)
  BY <1>1, <1>4, <1>6, WindowTestIsDistance DEF WindowTestCorrect
<1> QED
  BY <1>3, <1>4, <1>7 DEF ackIsIgnored

(***************************************************************************)
(* ProcessACK, given the ACK of a packet that waits for it, marks it       *)
(* acknowledged, however often the packet was sent and whatever other ACKs *)
(* came before; packet 0 before any other ACK is the one exception.  The   *)
(* window may lie across the overflow of the sequence numbers.             *)
(***************************************************************************)
THEOREM WaitingPacketsMarked == Spec => AckMarksPacket
<1> DEFINE Inv == TypedLink /\ \A q \in Peers : LastACKSettled(q)
           Marks == \A p \in Peers : \A seq \in ackInbox[p] \ ackInbox'[p] :
                      seq \in waiting(p) =>
                        \/ slotOf(p, seq).Serialized.data \in acked'[p]
                        \/ seq = 0 /\ acked[p] = {}
<1>1. Init => Inv
  <2> SUFFICES ASSUME Init, NEW q \in Peers PROVE LastACKSettled(q)
    BY InitLink DEF TypedLink, LinkInv
  <2> QED
    BY DEF Init, SenderInit, LastACKSettled
<1>2. Inv /\ [Next]_vars => Inv'
  BY TypedLinkInductive, SettledInductive
<1>3. Inv /\ [Next]_vars => [Marks]_vars
  <2> SUFFICES ASSUME TypedLink, \A q \in Peers : LastACKSettled(q), Next,
                      NEW p \in Peers, NEW seq \in ackInbox[p] \ ackInbox'[p],
                      seq \in waiting(p)
               PROVE  \/ slotOf(p, seq).Serialized.data \in acked'[p]
                      \/ seq = 0 /\ acked[p] = {}
    OBVIOUS
  <2>0. SafeInv /\ SenderTypeOK
    BY DEF TypedLink, SafeInv
  <2>1. HandleACK(p, seq)
    <3>1. ASSUME NEW q \in Senders, AppSend(q) PROVE FALSE
      BY <3>1, AppSendTyped, LinkAssumption
    <3>2. ASSUME NEW q \in Peers, Tick(q) PROVE FALSE
      BY <3>2, TickTyped
    <3>3. ASSUME NEW q \in Peers, NEW s \in ackInbox[q], HandleACK(q, s)
          PROVE  q = p /\ s = seq
      BY <3>3, HandleACKTyped
    <3>4. ASSUME NEW m \in wire, Lose(m) PROVE FALSE
      BY <3>4 DEF Lose, linkVars
    <3>5. ~ Receive
      BY RecvTyped DEF Receive
    <3> QED
      BY <3>1, <3>2, <3>3, <3>4, <3>5 DEF Next
  <2>2. seq \in SeqNum /\ ~ ackIsIgnored(p, seq)
    BY <2>0, WaitingInWindow
  <2>3. ProcessACK(p, seq)
    BY <2>1 DEF HandleACK
  <2>4. CASE NewACK(p, seq)
    BY <2>0, <2>4 DEF NewACK, SenderTypeOK
  <2>5. CASE DuplicateACK(p, seq)
    <3>1. seq = lastACKSeq[p]
      BY <2>5 DEF DuplicateACK
    <3> QED
      BY <2>2, <3>1 DEF ackIsIgnored, LastACKSettled
  <2> QED
    BY <2>2, <2>3, <2>4, <2>5 DEF ProcessACK, IgnoredACK
<1>4. AckMarksPacket <=> [][Marks]_vars
  BY DEF AckMarksPacket
<1> HIDE DEF Marks
<1> QED
  BY <1>1, <1>2, <1>3, <1>4, PTL DEF Spec
=============================================================================
