------------------------ MODULE ReliableSender_proofs ------------------------
(***************************************************************************)
(* The arithmetic of the sequence window, proved for every width of the    *)
(* sequence space and every window size, and what Send, ProcessACK and     *)
(* ProcessTimeouts preserve, as lemmas about one action each;              *)
(* TimedSender_proofs and ReliableLink_proofs put them together for their  *)
(* next-state relations.                                                   *)
(***************************************************************************)
EXTENDS ReliableSender, TLAPS

-----------------------------------------------------------------------------
(***************************************************************************)
(* The window                                                              *)
(***************************************************************************)

\* Multiples of m.
LEMMA Multiples ==
  ASSUME NEW m \in Nat, m >= 1, NEW k \in Int
  PROVE  /\ m * k \in Int
         /\ k >= 1 => m * k >= m
         /\ k <= -1 => m * k <= - m
         /\ k = 0 => m * k = 0
  OBVIOUS

\* uint32 addition is addition, or addition less one turn.
LEMMA AddPlain ==
  ASSUME NEW a \in Nat, NEW b \in Nat, a + b < 2 * UintMod
  PROVE  Add(a, b) = IF a + b < UintMod THEN a + b ELSE a + b - UintMod
  BY WindowAssumption DEF Add

\* uint32 subtraction is subtraction, or subtraction and one turn.
LEMMA SubPlain ==
  ASSUME NEW a \in SeqNum, NEW b \in SeqNum
  PROVE  Sub(a, b) = IF b <= a THEN a - b ELSE a - b + UintMod
  BY WindowAssumption DEF Sub, SeqNum

LEMMA SeqArithmetic ==
  ASSUME NEW a \in SeqNum, NEW b \in SeqNum
  PROVE  /\ Add(a, b) \in SeqNum /\ Add(a, b) \in Nat
         /\ Sub(a, b) \in SeqNum /\ Sub(a, b) \in Nat
<1>1. a + b < 2 * UintMod /\ a \in Nat /\ b \in Nat
  BY WindowAssumption DEF SeqNum
<1> QED
  BY <1>1, AddPlain, SubPlain, WindowAssumption DEF SeqNum

LEMMA SeqNums == 0 \in SeqNum /\ 1 \in SeqNum /\ SeqNum \subseteq Nat
  BY WindowAssumption DEF SeqNum

LEMMA IndexType ==
  ASSUME NEW s \in Nat
  PROVE  getWindowIndex(s) \in Index
  BY WindowAssumption DEF getWindowIndex, Index

\* Numbers less than one window apart have different slots.
LEMMA IndexInjective ==
  ASSUME NEW s \in Nat, NEW t \in Nat, s < t, t < s + WindowSize
  PROVE  getWindowIndex(s) # getWindowIndex(t)
<1> DEFINE k == (t \div WindowSize) - (s \div WindowSize)
<1>1. /\ s = WindowSize * (s \div WindowSize) + (s % WindowSize)
      /\ t = WindowSize * (t \div WindowSize) + (t % WindowSize)
      /\ k \in Int
      /\ s % WindowSize \in Int /\ t % WindowSize \in Int
  BY WindowAssumption
<1>2. t - s = WindowSize * k + ((t % WindowSize) - (s % WindowSize))
  BY <1>1, WindowAssumption
<1> HIDE DEF k
<1>3. /\ WindowSize * k \in Int
      /\ k >= 1 => WindowSize * k >= WindowSize
      /\ k <= 0 => WindowSize * k <= 0
  BY <1>1, Multiples, WindowAssumption
<1> QED
  BY <1>1, <1>2, <1>3, WindowAssumption DEF getWindowIndex

\* Slots repeat with the period of the window.
LEMMA IndexPeriod ==
  ASSUME NEW s \in Nat
  PROVE  getWindowIndex(s + WindowSize) = getWindowIndex(s)
<1> DEFINE r == s % WindowSize
           t == s + WindowSize
           u == t % WindowSize
           k == (t \div WindowSize) - (s \div WindowSize) - 1
<1>1. /\ s = WindowSize * (s \div WindowSize) + r
      /\ t = WindowSize * (t \div WindowSize) + u
      /\ k \in Int
      /\ r \in 0 .. (WindowSize - 1) /\ u \in 0 .. (WindowSize - 1)
  BY WindowAssumption
<1>2. r - u = WindowSize * k
  BY <1>1, WindowAssumption
<1>3. r = u
  <2> HIDE DEF k, r, u
  <2> QED BY <1>1, <1>2, Multiples, WindowAssumption
<1> QED
  BY <1>3 DEF getWindowIndex

\* A whole number of windows fits into the sequence space, so slots do not
\* move when the sequence number overflows.
LEMMA IndexOverflow ==
  ASSUME NEW s \in Nat
  PROVE  getWindowIndex(s + UintMod) = getWindowIndex(s)
<1> DEFINE r == s % WindowSize
           t == s + UintMod
           u == t % WindowSize
           k == (t \div WindowSize) - (s \div WindowSize) - (UintMod \div WindowSize)
<1>1. /\ s = WindowSize * (s \div WindowSize) + r
      /\ t = WindowSize * (t \div WindowSize) + u
      /\ UintMod = WindowSize * (UintMod \div WindowSize)
      /\ k \in Int
      /\ r \in 0 .. (WindowSize - 1) /\ u \in 0 .. (WindowSize - 1)
  BY WindowAssumption
<1>2. r - u = WindowSize * k
  BY <1>1, WindowAssumption
<1>3. r = u
  <2> HIDE DEF k, r, u
  <2> QED BY <1>1, <1>2, Multiples, WindowAssumption
<1> QED
  BY <1>3 DEF getWindowIndex

\* Moving a base up to at most next keeps what is between b and next there.
LEMMA SubSlide ==
  ASSUME NEW base \in SeqNum, NEW next \in SeqNum, NEW b \in SeqNum,
         b = base \/ (base < b /\ b <= next)
  PROVE  /\ Sub(next, b) <= Sub(next, base)
         /\ \A n \in SeqNum :
              n \notin base .. (b - 1) /\ Sub(n, base) < Sub(next, base)
                => Sub(n, b) < Sub(next, b)
<1>1. \A x, y \in SeqNum : Sub(x, y) = IF y <= x THEN x - y ELSE x - y + UintMod
  BY SubPlain
<1> HIDE DEF Sub
<1> QED
  BY <1>1, WindowAssumption DEF SeqNum

\* The sequence space holds at least two windows.
LEMMA TwoWindowsFit == 2 * WindowSize <= UintMod
<1> DEFINE k == UintMod \div WindowSize
<1>1. UintMod = WindowSize * k /\ k \in Int
  BY WindowAssumption
<1>2. k >= 2
  BY <1>1, Multiples, WindowAssumption
<1> HIDE DEF k
<1>3. WindowSize * (k - 1) >= WindowSize
  BY <1>1, <1>2, Multiples, WindowAssumption
<1>4. WindowSize * k = WindowSize * (k - 1) + WindowSize
  BY <1>1, WindowAssumption
<1> QED
  BY <1>1, <1>3, <1>4, WindowAssumption

(***************************************************************************)
(* isInSendWindow and isInRecvWindow decide, for all bases and sequence    *)
(* numbers of uint32, whether the number is less than one window ahead of  *)
(* the base; their overflow branch is right.                               *)
(***************************************************************************)
THEOREM WindowTestIsDistance ==
  ASSUME NEW base \in SeqNum, NEW seq \in SeqNum
  PROVE  WindowTestCorrect(base, seq)
<1>1. Add(base, WindowSize) =
        IF base + WindowSize < UintMod THEN base + WindowSize
                                       ELSE base + WindowSize - UintMod
  BY AddPlain, WindowAssumption DEF SeqNum
<1>2. Sub(seq, base) = IF base <= seq THEN seq - base ELSE seq - base + UintMod
  BY SubPlain
<1> QED
  BY <1>1, <1>2, WindowAssumption DEF WindowTestCorrect, isInWindow, SeqNum

(***************************************************************************)
(* Two sequence numbers in one window never share a slot of the ring, also *)
(* when the window straddles the overflow: getWindowIndex may index        *)
(* sendWindow and recvWindow directly.                                     *)
(***************************************************************************)
THEOREM WindowSlotsDistinct ==
  ASSUME NEW base \in SeqNum, NEW s \in SeqNum, NEW t \in SeqNum
  PROVE  SlotsDistinct(base, s, t)
<1> DEFINE up(n) == IF base <= n THEN n ELSE n + UintMod
<1> SUFFICES ASSUME isInWindow(base, s), isInWindow(base, t),
                    getWindowIndex(s) = getWindowIndex(t)
             PROVE  s = t
  BY DEF SlotsDistinct
<1>1. Sub(s, base) < WindowSize /\ Sub(t, base) < WindowSize
  BY WindowTestIsDistance DEF WindowTestCorrect
<1>2. /\ up(s) \in Nat /\ base <= up(s) /\ up(s) < base + WindowSize
      /\ up(t) \in Nat /\ base <= up(t) /\ up(t) < base + WindowSize
  BY <1>1, SubPlain, WindowAssumption DEF SeqNum
<1>3. getWindowIndex(up(s)) = getWindowIndex(up(t))
  BY IndexOverflow, WindowAssumption DEF SeqNum
<1>4. up(s) = up(t)
  <2> HIDE DEF up
  <2> base \in Nat
    BY WindowAssumption DEF SeqNum
  <2> QED BY <1>2, <1>3, IndexInjective, WindowAssumption
<1> QED
  BY <1>4, WindowAssumption DEF SeqNum

-----------------------------------------------------------------------------
(***************************************************************************)
(* The sending half                                                        *)
(***************************************************************************)

\* nextSeq is the number of sequence numbers taken, in uint32.
NextIsSends == \A p \in Peers : nextSeq[p] = sends[p] % UintMod

\* The invariant that needs no bound on the number of packets.
SafeInv ==
  /\ SenderTypeOK
  /\ NextIsSends
  /\ HalfWindowInFlight
  /\ SlotsHoldTheirPackets

LEMMA OtherIsPeer ==
  ASSUME NEW p \in Peers
  PROVE  Other(p) \in Peers /\ Other(p) # p /\ Other(Other(p)) = p
  BY PeersDistinct DEF Peers, Other

\* Counting modulo UintMod.
LEMMA SuccModulo ==
  ASSUME NEW n \in Nat
  PROVE  (n + 1) % UintMod = Add(n % UintMod, 1)
<1> DEFINE r == n % UintMod
           u == (n + 1) % UintMod
           v == IF r + 1 < UintMod THEN r + 1 ELSE 0
           j == IF r + 1 < UintMod THEN 0 ELSE 1
           k == ((n + 1) \div UintMod) - (n \div UintMod) - j
<1>1. /\ n = UintMod * (n \div UintMod) + r
      /\ n + 1 = UintMod * ((n + 1) \div UintMod) + u
      /\ k \in Int
      /\ r \in 0 .. (UintMod - 1) /\ u \in 0 .. (UintMod - 1)
  BY WindowAssumption
<1>2. v - u = UintMod * k
  BY <1>1, WindowAssumption
<1>4. v \in 0 .. (UintMod - 1)
  BY <1>1, WindowAssumption
<1>5. v = u
  <2> HIDE DEF k, r, u, v
  <2> QED BY <1>1, <1>2, <1>4, Multiples, WindowAssumption
<1>6. Add(r, 1) = v
  BY <1>1, AddPlain, WindowAssumption
<1> QED
  BY <1>5, <1>6

\* The distance to a base grows by one with the number, away from overflow.
LEMMA SubSucc ==
  ASSUME NEW a \in SeqNum, NEW b \in SeqNum, Sub(a, b) < UintMod - 1
  PROVE  Sub(Add(a, 1), b) = Sub(a, b) + 1
<1>1. Add(a, 1) = IF a + 1 < UintMod THEN a + 1 ELSE 0
  BY AddPlain, WindowAssumption DEF SeqNum
<1>2. Add(a, 1) \in SeqNum
  BY <1>1, WindowAssumption DEF SeqNum
<1>3. Sub(a, b) = IF b <= a THEN a - b ELSE a - b + UintMod
  BY SubPlain
<1>4. Sub(Add(a, 1), b) = IF b <= Add(a, 1) THEN Add(a, 1) - b ELSE Add(a, 1) - b + UintMod
  BY <1>2, SubPlain
<1>5. a \in Int /\ b \in Int /\ UintMod \in Int /\ 0 <= a /\ a < UintMod /\ 0 <= b /\ b < UintMod
  BY WindowAssumption DEF SeqNum
<1>6. CASE a + 1 < UintMod
  BY <1>1, <1>3, <1>4, <1>5, <1>6
<1>7. CASE ~ (a + 1 < UintMod)
  BY <1>1, <1>3, <1>4, <1>5, <1>7
<1> QED
  BY <1>6, <1>7

-----------------------------------------------------------------------------
LEMMA InitSafe == SenderInit => SafeInv
<1> SUFFICES ASSUME SenderInit PROVE SafeInv
  OBVIOUS
<1>1. EmptySlot \in WindowSlot
  BY SenderAssumption DEF EmptySlot, WindowSlot, PacketState
<1>2. SenderTypeOK
  BY <1>1, WindowAssumption, SenderAssumption DEF SenderInit, SenderTypeOK, SeqNum
<1>3. NextIsSends
  BY WindowAssumption DEF SenderInit, NextIsSends
<1>4. HalfWindowInFlight
  BY SubPlain, WindowAssumption DEF SenderInit, HalfWindowInFlight, InFlight, SeqNum
<1>5. SlotsHoldTheirPackets
  BY DEF SenderInit, SlotsHoldTheirPackets, EmptySlot
<1> QED
  BY <1>2, <1>3, <1>4, <1>5 DEF SafeInv

\* Send only takes a number when less than half of the ring is outstanding.
LEMMA RoomIsHalf ==
  ASSUME NEW p \in Peers, SafeInv, windowHasRoom(p)
  PROVE  2 * InFlight(p) < WindowSize
<1>1. InFlight(p) \in SeqNum /\ 2 * InFlight(p) <= WindowSize + 1
  BY SeqArithmetic DEF SafeInv, SenderTypeOK, HalfWindowInFlight, InFlight
<1>2. InFlight(p) < WindowSize
  BY <1>1, WindowAssumption DEF SeqNum
<1>3. Sub(WindowSize, InFlight(p)) = WindowSize - InFlight(p)
  BY <1>1, <1>2, SubPlain, WindowAssumption DEF SeqNum
<1>4. cwnd[p] \in Nat
  BY SenderAssumption DEF SafeInv, SenderTypeOK
<1> QED
  BY <1>1, <1>2, <1>3, <1>4, WindowAssumption
  DEF windowHasRoom, availableSlots, SeqNum

LEMMA SendSafe ==
  ASSUME NEW p \in Peers, SafeInv, Send(p)
  PROVE  SafeInv'
<1> DEFINE packet == DataPacket(Other(p), nextSeq[p], sends[p])
           slot   == [State |-> "Sent", RetryCount |-> 0, Serialized |-> packet]
           i0     == getWindowIndex(nextSeq[p])
<1> USE DEF SafeInv
<1>1. /\ nextSeq[p] \in SeqNum /\ sendBase[p] \in SeqNum
      /\ sends[p] \in Payload /\ nextSeq[p] \in Nat
  BY SenderAssumption, WindowAssumption DEF Send, SenderTypeOK, Payload, SeqNum
<1>2. i0 \in Index
  BY <1>1, IndexType
<1>3. packet \in DataPackets /\ packet.to = Other(p) /\ packet.seq = nextSeq[p]
      /\ packet.data = sends[p]
  BY <1>1, OtherIsPeer DEF DataPackets, DataPacket
<1>4. slot \in WindowSlot
  BY <1>3, SenderAssumption DEF WindowSlot, PacketState
<1>5. \/ sendWindow' = sendWindow
      \/ sendWindow' = [sendWindow EXCEPT ![p][i0] = slot]
  BY DEF Send
<1>6. SenderTypeOK'
  <2>1. sendWindow' \in [Peers -> [Index -> WindowSlot]]
    <3>1. sendWindow \in [Peers -> [Index -> WindowSlot]]
      BY DEF SenderTypeOK
    <3> HIDE DEF slot, i0
    <3> QED BY <3>1, <1>2, <1>4, <1>5
  <2>2. nextSeq' \in [Peers -> SeqNum]
    <3>1. Add(nextSeq[p], 1) \in SeqNum
      BY <1>1, SeqArithmetic, SeqNums
    <3> QED BY <3>1 DEF Send, SenderTypeOK
  <2>3. sends' \in [Peers -> 0 .. MaxSends]
    BY SenderAssumption DEF Send, SenderTypeOK
  <2> QED
    BY <2>1, <2>2, <2>3 DEF Send, SenderTypeOK, congestionVars, ackVars
<1>7. NextIsSends'
  BY SuccModulo, SenderAssumption DEF Send, NextIsSends, SenderTypeOK
<1>8. InFlight(p)' = InFlight(p) + 1 /\ InFlight(p) \in Nat
  <2>1. InFlight(p) \in SeqNum /\ 2 * InFlight(p) < WindowSize
    BY <1>1, SeqArithmetic, RoomIsHalf DEF Send, InFlight
  <2>2. InFlight(p) < UintMod - 1
    BY <2>1, WindowAssumption DEF SeqNum
  <2>3. Sub(Add(nextSeq[p], 1), sendBase[p]) = InFlight(p) + 1
    BY <1>1, <2>2, SubSucc DEF InFlight
  <2>4. nextSeq'[p] = Add(nextSeq[p], 1) /\ sendBase' = sendBase
    BY DEF Send, SenderTypeOK
  <2> QED
    BY <2>1, <2>3, <2>4 DEF InFlight, SeqNum
<1>9. \A q \in Peers : q # p => /\ InFlight(q)' = InFlight(q)
                                /\ sendWindow'[q] = sendWindow[q]
  BY DEF Send, InFlight, SenderTypeOK
<1>10. HalfWindowInFlight'
  BY <1>8, <1>9, RoomIsHalf, WindowAssumption DEF HalfWindowInFlight, Send
<1>11. SlotsHoldTheirPackets'
  <2> SUFFICES ASSUME NEW q \in Peers, NEW i \in Index,
                      sendWindow'[q][i].State # "Empty"
               PROVE  LET s == sendWindow'[q][i].Serialized
                      IN  /\ s \in DataPackets
                          /\ s.to = Other(q)
                          /\ getWindowIndex(s.seq) = i
                          /\ Sub(s.seq, sendBase[q]) < InFlight(q)'
                          /\ s.seq = s.data % UintMod
    BY DEF SlotsHoldTheirPackets, Send
  <2>1. CASE sendWindow'[q][i] = sendWindow[q][i]
    <3>1. InFlight(q)' >= InFlight(q) /\ InFlight(q)' \in Int /\ InFlight(q) \in Int
      <4>1. Sub(nextSeq[q], sendBase[q]) \in Nat
        BY SeqArithmetic DEF SenderTypeOK
      <4> QED BY <4>1, <1>8, <1>9 DEF InFlight
    <3>2. LET s == sendWindow[q][i].Serialized
          IN  s \in DataPackets /\ Sub(s.seq, sendBase[q]) < InFlight(q)
      BY <2>1 DEF SlotsHoldTheirPackets
    <3>3. Sub(sendWindow[q][i].Serialized.seq, sendBase[q]) \in Int
      <4>1. sendWindow[q][i].Serialized.seq \in SeqNum /\ sendBase[q] \in SeqNum
        BY <3>2 DEF SenderTypeOK, DataPackets
      <4> QED BY <4>1, SeqArithmetic
    <3> QED
      BY <2>1, <3>1, <3>2, <3>3 DEF SlotsHoldTheirPackets
  <2>2. CASE q = p /\ i = i0 /\ sendWindow'[q][i] = slot
    <3>1. Sub(nextSeq[p], sendBase[p]) < InFlight(p)'
      BY <1>8 DEF InFlight
    <3>2. slot.Serialized = packet
      OBVIOUS
    <3>3. nextSeq[p] = sends[p] % UintMod
      BY DEF NextIsSends
    <3> HIDE DEF slot, packet
    <3> QED
      BY <2>2, <3>1, <3>2, <3>3, <1>3
  <2>3. \/ sendWindow'[q][i] = sendWindow[q][i]
        \/ q = p /\ i = i0 /\ sendWindow'[q][i] = slot
    <3>1. sendWindow \in [Peers -> [Index -> WindowSlot]]
      BY DEF SenderTypeOK
    <3> HIDE DEF slot, i0
    <3> QED BY <3>1, <1>5, <1>2
  <2> QED
    BY <2>1, <2>2, <2>3
<1> QED
  BY <1>6, <1>7, <1>10, <1>11

-----------------------------------------------------------------------------
(***************************************************************************)
(* ProcessTimeouts changes the State and the RetryCount of slots, and may  *)
(* only empty a slot or keep its packet.                                   *)
(***************************************************************************)
LEMMA TimedOutSlot ==
  ASSUME NEW slot \in WindowSlot
  PROVE  /\ timedOutSlot(slot) \in WindowSlot
         /\ timedOutSlot(slot).Serialized = slot.Serialized
         /\ timedOutSlot(slot).State \in {"Empty", "Retransmit"}
<1> DEFINE n == slot.RetryCount
<1>1. n \in 0 .. MaxRetries
  BY DEF WindowSlot
<1>2. CASE n >= MaxRetries
  <2>1. timedOutSlot(slot) = [slot EXCEPT !.State = "Empty"]
    BY <1>2 DEF timedOutSlot
  <2> QED BY <2>1 DEF WindowSlot, PacketState
<1>3. CASE ~ (n >= MaxRetries)
  <2>1. timedOutSlot(slot) = [slot EXCEPT !.State = "Retransmit", !.RetryCount = n + 1]
    BY <1>3 DEF timedOutSlot
  <2>2. n + 1 \in 0 .. MaxRetries
    BY <1>1, <1>3, SenderAssumption
  <2> HIDE DEF n
  <2> QED BY <2>1, <2>2 DEF WindowSlot, PacketState
<1> QED
  BY <1>2, <1>3

LEMMA HalvedType ==
  ASSUME NEW c \in Nat, c <= MaxCwnd
  PROVE  halved(c) \in 2 .. MaxCwnd
  BY SenderAssumption DEF halved

\* The slots after the call, one by one.
LEMMA TimeoutSlots ==
  ASSUME NEW p \in Peers, NEW expired, SenderTypeOK, ProcessTimeouts(p, expired)
  PROVE  /\ sendWindow' \in [Peers -> [Index -> WindowSlot]]
         /\ \A q \in Peers, i \in Index :
              \/ sendWindow'[q][i] = sendWindow[q][i]
              \/ /\ q = p
                 /\ \E seq \in expired : getWindowIndex(seq) = i
                 /\ sendWindow'[q][i] = timedOutSlot(sendWindow[q][i])
<1> DEFINE hit(i) == \E seq \in expired : getWindowIndex(seq) = i
           ring == [i \in Index |-> IF hit(i) THEN timedOutSlot(sendWindow[p][i])
                                              ELSE sendWindow[p][i]]
<1>1. sendWindow \in [Peers -> [Index -> WindowSlot]]
  BY DEF SenderTypeOK
<1>2. sendWindow' = [sendWindow EXCEPT ![p] = ring]
  BY <1>1 DEF ProcessTimeouts
<1>3. ring \in [Index -> WindowSlot]
  BY <1>1, TimedOutSlot
<1>4. ASSUME NEW i \in Index
      PROVE  \/ ring[i] = sendWindow[p][i]
             \/ hit(i) /\ ring[i] = timedOutSlot(sendWindow[p][i])
  <2> HIDE DEF hit
  <2>1. ring[i] = IF hit(i) THEN timedOutSlot(sendWindow[p][i]) ELSE sendWindow[p][i]
    OBVIOUS
  <2> QED BY <2>1
<1> HIDE DEF ring
<1> QED
  BY <1>1, <1>2, <1>3, <1>4

LEMMA TimeoutSafe ==
  ASSUME NEW p \in Peers, NEW expired, SafeInv, ProcessTimeouts(p, expired)
  PROVE  SafeInv'
<1> USE DEF SafeInv
<1> DEFINE re == {seq \in expired : ~ exhausted(p, seq)}
<1>1. UNCHANGED <<sendBase, nextSeq, ackVars, sends>> /\ backOff(p, re)
  BY DEF ProcessTimeouts
<1>2. /\ cwnd' \in [Peers -> InitialCwnd .. MaxCwnd]
      /\ ssthresh' \in [Peers -> 2 .. MaxCwnd]
      /\ inSlowStart' \in [Peers -> BOOLEAN]
  <2>1. halved(cwnd[p]) \in 2 .. MaxCwnd /\ halved(InitialCwnd) \in 2 .. MaxCwnd
    BY HalvedType, SenderAssumption DEF SenderTypeOK
  <2>2. CASE re = {}
    BY <1>1, <2>2 DEF backOff, SenderTypeOK, congestionVars
  <2>3. CASE re # {}
    <3> DEFINE new == IF \E s, t \in re : s # t THEN halved(InitialCwnd)
                                               ELSE halved(cwnd[p])
    <3>1. new \in 2 .. MaxCwnd
      BY <2>1
    <3>2. /\ ssthresh' = [ssthresh EXCEPT ![p] = new]
          /\ cwnd' = [cwnd EXCEPT ![p] = InitialCwnd]
          /\ inSlowStart' = [inSlowStart EXCEPT ![p] = TRUE]
      BY <1>1, <2>3 DEF backOff
    <3>3. cwnd' \in [Peers -> InitialCwnd .. MaxCwnd]
      BY <3>2, SenderAssumption DEF SenderTypeOK
    <3>4. inSlowStart' \in [Peers -> BOOLEAN]
      BY <3>2, Zenon DEF SenderTypeOK
    <3> HIDE DEF new
    <3> QED
      BY <3>1, <3>2, <3>3, <3>4 DEF SenderTypeOK
  <2> QED
    BY <2>2, <2>3
<1>3. SenderTypeOK'
  BY <1>1, <1>2, TimeoutSlots DEF SenderTypeOK, ackVars
<1>4. NextIsSends' /\ HalfWindowInFlight'
  BY <1>1 DEF NextIsSends, HalfWindowInFlight, InFlight
<1>5. SlotsHoldTheirPackets'
  <2> SUFFICES ASSUME NEW q \in Peers, NEW i \in Index,
                      sendWindow'[q][i].State # "Empty"
               PROVE  /\ sendWindow[q][i].State # "Empty"
                      /\ sendWindow'[q][i].Serialized = sendWindow[q][i].Serialized
    BY <1>1 DEF SlotsHoldTheirPackets, InFlight
  <2>1. \/ sendWindow'[q][i] = sendWindow[q][i]
        \/ /\ q = p
           /\ \E seq \in expired : getWindowIndex(seq) = i
           /\ sendWindow'[q][i] = timedOutSlot(sendWindow[q][i])
    BY TimeoutSlots
  <2>2. ASSUME q = p, NEW seq \in expired, getWindowIndex(seq) = i
        PROVE  sendWindow[q][i].State # "Empty"
    BY <2>2 DEF ProcessTimeouts, waiting, slotOf
  <2>3. sendWindow[q][i] \in WindowSlot
    BY DEF SenderTypeOK
  <2> QED
    BY <2>1, <2>2, <2>3, TimedOutSlot
<1> QED
  BY <1>3, <1>4, <1>5

-----------------------------------------------------------------------------
(***************************************************************************)
(* ProcessACK                                                              *)
(***************************************************************************)
LEMMA GrownCwndType ==
  ASSUME NEW c \in InitialCwnd .. MaxCwnd, NEW slow \in BOOLEAN
  PROVE  grownCwnd(c, slow) \in InitialCwnd .. MaxCwnd
<1>1. c \in Nat /\ c >= 2
  BY SenderAssumption
<1>2. 1 \div c = 0
  BY <1>1
<1> QED
  BY <1>1, <1>2, SenderAssumption DEF grownCwnd

LEMMA CongestionType ==
  ASSUME NEW p \in Peers, SenderTypeOK, updateCongestionWindow(p)
  PROVE  /\ cwnd' \in [Peers -> InitialCwnd .. MaxCwnd]
         /\ ssthresh' \in [Peers -> 2 .. MaxCwnd]
         /\ inSlowStart' \in [Peers -> BOOLEAN]
<1>1. grownCwnd(cwnd[p], inSlowStart[p]) \in InitialCwnd .. MaxCwnd
  BY GrownCwndType DEF SenderTypeOK
<1>2. cwnd' = [cwnd EXCEPT ![p] = grownCwnd(cwnd[p], inSlowStart[p])]
  BY DEF updateCongestionWindow, SenderTypeOK
<1>3. cwnd' \in [Peers -> InitialCwnd .. MaxCwnd]
  BY <1>1, <1>2 DEF SenderTypeOK
<1>4. inSlowStart' \in [Peers -> BOOLEAN]
  <2> DEFINE v == inSlowStart[p] /\ slowStartContinues(cwnd[p], ssthresh[p])
  <2>1. inSlowStart' = [inSlowStart EXCEPT ![p] = v] /\ v \in BOOLEAN
    BY DEF updateCongestionWindow, SenderTypeOK
  <2> HIDE DEF v
  <2> QED BY <2>1, Zenon DEF SenderTypeOK
<1> QED
  BY <1>3, <1>4 DEF updateCongestionWindow, SenderTypeOK

\* The ring after the new ACK of seq was marked and the base moved to b.
markedRing(p, seq) == [sendWindow[p] EXCEPT ![getWindowIndex(seq)].State = "ACKed"]

LEMMA MarkedRing ==
  ASSUME NEW p \in Peers, NEW seq \in SeqNum, SenderTypeOK
  PROVE  /\ markedRing(p, seq) \in [Index -> WindowSlot]
         /\ \A i \in Index :
              /\ markedRing(p, seq)[i].Serialized = sendWindow[p][i].Serialized
              /\ markedRing(p, seq)[i].State =
                   IF i = getWindowIndex(seq) THEN "ACKed" ELSE sendWindow[p][i].State
<1> DEFINE j == getWindowIndex(seq)
           w == sendWindow[p]
<1>1. j \in Index
  BY IndexType, SeqNums
<1>2. w \in [Index -> WindowSlot]
  BY DEF SenderTypeOK
<1>3. markedRing(p, seq) = [w EXCEPT ![j] = [w[j] EXCEPT !.State = "ACKed"]]
  BY <1>1, <1>2 DEF markedRing
<1>4. /\ [w[j] EXCEPT !.State = "ACKed"] \in WindowSlot
      /\ [w[j] EXCEPT !.State = "ACKed"].Serialized = w[j].Serialized
      /\ [w[j] EXCEPT !.State = "ACKed"].State = "ACKed"
  BY <1>1, <1>2 DEF WindowSlot, PacketState
<1> HIDE DEF j, w
<1>5. markedRing(p, seq) \in [Index -> WindowSlot]
  BY <1>1, <1>2, <1>3, <1>4
<1>6. ASSUME NEW i \in Index
      PROVE  /\ markedRing(p, seq)[i].Serialized = w[i].Serialized
             /\ markedRing(p, seq)[i].State = IF i = j THEN "ACKed" ELSE w[i].State
  BY <1>1, <1>2, <1>3, <1>4
<1> QED
  BY <1>5, <1>6 DEF j, w

LEMMA ClearedRing ==
  ASSUME NEW window \in [Index -> WindowSlot], NEW base, NEW b
  PROVE  /\ cleared(window, base, b) \in [Index -> WindowSlot]
         /\ \A i \in Index :
              cleared(window, base, b)[i].State # "Empty" =>
                /\ cleared(window, base, b)[i] = window[i]
                /\ \A t \in base .. (b - 1) : getWindowIndex(t) # i
<1>1. EmptySlot \in WindowSlot /\ EmptySlot.State = "Empty"
  BY SenderAssumption DEF EmptySlot, WindowSlot, PacketState
<1>2. cleared(window, base, b) \in [Index -> WindowSlot]
  BY <1>1 DEF cleared
<1>3. ASSUME NEW i \in Index, cleared(window, base, b)[i].State # "Empty"
      PROVE  /\ cleared(window, base, b)[i] = window[i]
             /\ \A t \in base .. (b - 1) : getWindowIndex(t) # i
  <2> DEFINE hit == \E t \in base .. (b - 1) : getWindowIndex(t) = i
  <2>1. cleared(window, base, b)[i] = IF hit THEN EmptySlot ELSE window[i]
    BY DEF cleared
  <2>2. ~ hit
    <3> HIDE DEF hit
    <3> QED BY <2>1, <1>1, <1>3
  <2> QED
    BY <2>1, <2>2
<1> QED
  BY <1>2, <1>3

\* A new ACK, taken apart.
LEMMA NewACKParts ==
  ASSUME NEW p \in Peers, NEW seq \in SeqNum, SenderTypeOK, NewACK(p, seq)
  PROVE  \E b \in SeqNum :
           /\ slidTo(markedRing(p, seq), sendBase[p], nextSeq[p], b)
           /\ sendBase' = [sendBase EXCEPT ![p] = b]
           /\ sendWindow' =
                [sendWindow EXCEPT ![p] = cleared(markedRing(p, seq), sendBase[p], b)]
           /\ sendBase'[p] = b
           /\ sendWindow'[p] = cleared(markedRing(p, seq), sendBase[p], b)
           /\ \A q \in Peers : q # p => /\ sendBase'[q] = sendBase[q]
                                        /\ sendWindow'[q] = sendWindow[q]
  BY DEF NewACK, markedRing, SenderTypeOK

LEMMA NewACKSafe ==
  ASSUME NEW p \in Peers, NEW seq \in SeqNum, SafeInv, NewACK(p, seq),
         UNCHANGED sends
  PROVE  SafeInv'
<1> USE DEF SafeInv
<1>1. PICK b \in SeqNum :
        /\ slidTo(markedRing(p, seq), sendBase[p], nextSeq[p], b)
        /\ sendBase' = [sendBase EXCEPT ![p] = b]
        /\ sendWindow' =
             [sendWindow EXCEPT ![p] = cleared(markedRing(p, seq), sendBase[p], b)]
        /\ sendBase'[p] = b
        /\ sendWindow'[p] = cleared(markedRing(p, seq), sendBase[p], b)
        /\ \A q \in Peers : q # p => /\ sendBase'[q] = sendBase[q]
                                     /\ sendWindow'[q] = sendWindow[q]
  BY NewACKParts
<1> DEFINE base == sendBase[p]
           next == nextSeq[p]
           ring == cleared(markedRing(p, seq), base, b)
<1>2. b = base \/ (base < b /\ b <= next)
  BY <1>1 DEF slidTo
<1>3. nextSeq' = nextSeq /\ base \in SeqNum /\ next \in SeqNum
  BY DEF NewACK, SenderTypeOK
<1>4. ring \in [Index -> WindowSlot]
  BY MarkedRing, ClearedRing
<1>5. sendWindow[p][getWindowIndex(seq)].State # "Empty" /\ getWindowIndex(seq) \in Index
  BY IndexType, SeqNums DEF NewACK, ackIsIgnored, slotOf
<1>6. SenderTypeOK'
  <2>1. acked' \in [Peers -> SUBSET Payload]
    <3>1. sendWindow[p][getWindowIndex(seq)].Serialized \in DataPackets
      BY <1>5 DEF SlotsHoldTheirPackets
    <3>2. slotOf(p, seq).Serialized.data \in Payload
      BY <3>1 DEF DataPackets, slotOf
    <3> QED
      BY <3>2 DEF NewACK, SenderTypeOK
  <2>2. sendWindow' \in [Peers -> [Index -> WindowSlot]]
    <3> HIDE DEF ring
    <3> sendWindow' = [sendWindow EXCEPT ![p] = ring]
      BY <1>1 DEF ring
    <3> QED BY <1>4 DEF SenderTypeOK
  <2>3. /\ sendBase' \in [Peers -> SeqNum] /\ lastACKSeq' \in [Peers -> SeqNum]
        /\ dupACKCount' \in [Peers -> SeqNum]
    BY <1>1, SeqNums DEF NewACK, SenderTypeOK
  <2> QED
    BY <2>1, <2>2, <2>3, <1>3, CongestionType DEF NewACK, SenderTypeOK
<1>7. NextIsSends'
  BY <1>3 DEF NextIsSends
<1>8. HalfWindowInFlight'
  <2> SUFFICES ASSUME NEW q \in Peers PROVE 2 * InFlight(q)' <= WindowSize + 1
    BY DEF HalfWindowInFlight
  <2>1. CASE q # p
    BY <2>1, <1>1, <1>3 DEF HalfWindowInFlight, InFlight
  <2>2. CASE q = p
    <3>1. InFlight(q)' = Sub(next, b) /\ InFlight(q) = Sub(next, base)
      BY <2>2, <1>1, <1>3 DEF InFlight
    <3>2. Sub(next, b) <= Sub(next, base) /\ Sub(next, b) \in Nat /\ Sub(next, base) \in Nat
      BY <1>2, <1>3, SubSlide, SeqArithmetic
    <3>3. 2 * Sub(next, base) <= WindowSize + 1
      BY <2>2, <3>1 DEF HalfWindowInFlight
    <3> HIDE DEF base, next
    <3> QED BY <3>1, <3>2, <3>3, WindowAssumption
  <2> QED
    BY <2>1, <2>2
<1>9. SlotsHoldTheirPackets'
  <2> SUFFICES ASSUME NEW q \in Peers, NEW i \in Index,
                      sendWindow'[q][i].State # "Empty"
               PROVE  LET s == sendWindow'[q][i].Serialized
                      IN  /\ s \in DataPackets
                          /\ s.to = Other(q)
                          /\ getWindowIndex(s.seq) = i
                          /\ Sub(s.seq, sendBase'[q]) < InFlight(q)'
                          /\ s.seq = s.data % UintMod
    BY DEF SlotsHoldTheirPackets
  <2>1. CASE q # p
    BY <2>1, <1>1, <1>3 DEF SlotsHoldTheirPackets, InFlight
  <2>2. CASE q = p
    <3> DEFINE s == sendWindow[p][i].Serialized
    <3>1. /\ sendWindow'[q][i] = markedRing(p, seq)[i]
          /\ \A t \in base .. (b - 1) : getWindowIndex(t) # i
      BY <2>2, <1>1, MarkedRing, ClearedRing
    <3>2. sendWindow'[q][i].Serialized = s /\ sendWindow[p][i].State # "Empty"
      BY <3>1, MarkedRing, <1>5
    <3>3. /\ s \in DataPackets /\ s.to = Other(p) /\ getWindowIndex(s.seq) = i
          /\ Sub(s.seq, base) < Sub(next, base) /\ s.seq = s.data % UintMod
      BY <3>2 DEF SlotsHoldTheirPackets, InFlight
    <3>4. s.seq \in SeqNum
      BY <3>3 DEF DataPackets
    <3>5. s.seq \notin base .. (b - 1)
      BY <3>1, <3>3
    <3>6. Sub(s.seq, b) < Sub(next, b)
      BY <3>3, <3>4, <3>5, <1>2, <1>3, SubSlide
    <3>7. InFlight(q)' = Sub(next, b) /\ sendBase'[q] = b
      BY <2>2, <1>1, <1>3 DEF InFlight
    <3> HIDE DEF s, base, next
    <3> QED
      BY <2>2, <3>2, <3>3, <3>6, <3>7
  <2> QED
    BY <2>1, <2>2
<1> QED
  BY <1>6, <1>7, <1>8, <1>9

\* A duplicate ACK at most marks a slot for retransmission.
LEMMA DuplicateACKSlots ==
  ASSUME NEW p \in Peers, NEW seq \in SeqNum, SenderTypeOK, DuplicateACK(p, seq)
  PROVE  /\ sendWindow' \in [Peers -> [Index -> WindowSlot]]
         /\ \A q \in Peers, i \in Index :
              \/ sendWindow'[q][i] = sendWindow[q][i]
              \/ /\ q = p
                 /\ sendWindow[q][i].State = "Sent"
                 /\ sendWindow'[q][i].State = "Retransmit"
                 /\ sendWindow'[q][i].Serialized = sendWindow[q][i].Serialized
<1> DEFINE j == getWindowIndex(seq)
           new == [sendWindow[p][j] EXCEPT !.State = "Retransmit"]
<1>1. j \in Index /\ sendWindow \in [Peers -> [Index -> WindowSlot]]
  BY IndexType, SeqNums DEF SenderTypeOK
<1>2. \/ sendWindow' = sendWindow
      \/ sendWindow[p][j].State = "Sent" /\ sendWindow' = [sendWindow EXCEPT ![p][j] = new]
  BY <1>1 DEF DuplicateACK, slotOf
<1>3. /\ new \in WindowSlot /\ new.State = "Retransmit"
      /\ new.Serialized = sendWindow[p][j].Serialized
  <2> DEFINE old == sendWindow[p][j]
  <2>1. old \in WindowSlot
    BY <1>1
  <2> HIDE DEF old
  <2>2. LET n == [old EXCEPT !.State = "Retransmit"]
        IN  n \in WindowSlot /\ n.State = "Retransmit" /\ n.Serialized = old.Serialized
    BY <2>1 DEF WindowSlot, PacketState
  <2> QED BY <2>2 DEF old
<1>4. CASE sendWindow' = sendWindow
  BY <1>1, <1>4
<1>5. CASE /\ sendWindow[p][j].State = "Sent"
           /\ sendWindow' = [sendWindow EXCEPT ![p][j] = new]
  <2> HIDE DEF j, new
  <2>1. sendWindow' \in [Peers -> [Index -> WindowSlot]]
    BY <1>1, <1>3, <1>5
  <2>2. ASSUME NEW q \in Peers, NEW i \in Index
        PROVE  \/ sendWindow'[q][i] = sendWindow[q][i]
               \/ q = p /\ i = j /\ sendWindow'[q][i] = new
    BY <1>1, <1>5
  <2> QED
    BY <1>3, <1>5, <2>1, <2>2
<1> QED
  BY <1>2, <1>4, <1>5

LEMMA DuplicateACKSafe ==
  ASSUME NEW p \in Peers, NEW seq \in SeqNum, SafeInv, DuplicateACK(p, seq),
         UNCHANGED sends
  PROVE  SafeInv'
<1> USE DEF SafeInv
<1>1. UNCHANGED <<sendBase, nextSeq, congestionVars, lastACKSeq, acked, sends>>
  BY DEF DuplicateACK
<1>2. dupACKCount' \in [Peers -> SeqNum]
  <2>1. Add(dupACKCount[p], 1) \in SeqNum
    BY SeqArithmetic, SeqNums DEF SenderTypeOK
  <2>2. dupACKCount' = [dupACKCount EXCEPT ![p] = Add(dupACKCount[p], 1)]
    BY DEF DuplicateACK
  <2> QED
    BY <2>1, <2>2 DEF DuplicateACK, SenderTypeOK
<1>3. SenderTypeOK'
  <2>1. sendWindow' \in [Peers -> [Index -> WindowSlot]]
    BY DuplicateACKSlots
  <2> QED
    BY <1>1, <1>2, <2>1 DEF SenderTypeOK, congestionVars
<1>4. NextIsSends' /\ HalfWindowInFlight'
  BY <1>1 DEF NextIsSends, HalfWindowInFlight, InFlight
<1>5. SlotsHoldTheirPackets'
  <2> SUFFICES ASSUME NEW q \in Peers, NEW i \in Index,
                      sendWindow'[q][i].State # "Empty"
               PROVE  /\ sendWindow[q][i].State # "Empty"
                      /\ sendWindow'[q][i].Serialized = sendWindow[q][i].Serialized
    BY <1>1 DEF SlotsHoldTheirPackets, InFlight
  <2> QED
    BY DuplicateACKSlots
<1> QED
  BY <1>3, <1>4, <1>5

LEMMA UnchangedSafe ==
  ASSUME SafeInv, UNCHANGED senderVars
  PROVE  SafeInv'
  BY DEF SafeInv, senderVars, windowVars, congestionVars, ackVars, SenderTypeOK,
         NextIsSends, HalfWindowInFlight, SlotsHoldTheirPackets, InFlight

LEMMA ProcessACKSafe ==
  ASSUME NEW p \in Peers, NEW seq \in SeqNum, SafeInv, ProcessACK(p, seq)
  PROVE  SafeInv'
<1>1. CASE IgnoredACK(p, seq)
  BY <1>1, UnchangedSafe DEF IgnoredACK, ProcessACK, senderVars, ackVars
<1>2. CASE DuplicateACK(p, seq)
  BY <1>2, DuplicateACKSafe DEF ProcessACK
<1>3. CASE NewACK(p, seq)
  BY <1>3, NewACKSafe DEF ProcessACK
<1> QED
  BY <1>1, <1>2, <1>3 DEF ProcessACK

-----------------------------------------------------------------------------
(***************************************************************************)
(* An ACK that ProcessACK takes finds the packet that carries its sequence *)
(* number: two numbers of the send window never meet in a slot.            *)
(***************************************************************************)
LEMMA AckFindsPacket ==
  ASSUME NEW p \in Peers, NEW seq \in SeqNum, SafeInv,
         isInWindow(sendBase[p], seq), slotOf(p, seq).State # "Empty"
  PROVE  /\ slotOf(p, seq).Serialized \in DataPackets
         /\ slotOf(p, seq).Serialized.seq = seq
         /\ Sub(seq, sendBase[p]) < InFlight(p)
         /\ seq = slotOf(p, seq).Serialized.data % UintMod
<1> DEFINE i == getWindowIndex(seq)
           s == sendWindow[p][i].Serialized
<1>1. i \in Index /\ sendBase[p] \in SeqNum /\ nextSeq[p] \in SeqNum
  BY IndexType, SeqNums DEF SafeInv, SenderTypeOK
<1>2. /\ s \in DataPackets /\ getWindowIndex(s.seq) = i
      /\ Sub(s.seq, sendBase[p]) < InFlight(p)
      /\ s.seq = s.data % UintMod
  BY <1>1 DEF SafeInv, SlotsHoldTheirPackets, slotOf
<1>3. s.seq \in SeqNum
  BY <1>2 DEF DataPackets
<1>4. InFlight(p) \in Nat /\ 2 * InFlight(p) <= WindowSize + 1
  BY <1>1, SeqArithmetic DEF SafeInv, HalfWindowInFlight, InFlight
<1>5. Sub(s.seq, sendBase[p]) < WindowSize
  <2>1. Sub(s.seq, sendBase[p]) \in Nat
    BY <1>1, <1>3, SeqArithmetic
  <2> QED BY <2>1, <1>2, <1>4, WindowAssumption
<1>6. isInWindow(sendBase[p], s.seq)
  BY <1>1, <1>3, <1>5, WindowTestIsDistance DEF WindowTestCorrect
<1>7. s.seq = seq
  BY <1>1, <1>2, <1>3, <1>6, WindowSlotsDistinct DEF SlotsDistinct
<1> QED
  BY <1>2, <1>7 DEF slotOf

-----------------------------------------------------------------------------
(***************************************************************************)
(* What becomes of an acknowledged slot.                                   *)
(***************************************************************************)
\* The slots the slide loop of ProcessACK passes belong to the numbers it
\* counts through.
LEMMA PassedSlot ==
  ASSUME NEW p \in Peers, SafeInv, NEW t \in Nat, sendBase[p] <= t, t < nextSeq[p],
         slotOf(p, t).State # "Empty"
  PROVE  slotOf(p, t).Serialized.seq = t
<1>1. /\ sendBase[p] \in SeqNum /\ nextSeq[p] \in SeqNum
      /\ sendBase[p] \in Nat /\ nextSeq[p] \in Nat
  BY SeqNums DEF SafeInv, SenderTypeOK
<1>2. t \in SeqNum
  BY <1>1, WindowAssumption DEF SeqNum
<1>3. Sub(t, sendBase[p]) = t - sendBase[p] /\ InFlight(p) = nextSeq[p] - sendBase[p]
  BY <1>1, <1>2, SubPlain DEF InFlight
<1>4. 2 * InFlight(p) <= WindowSize + 1
  BY DEF SafeInv, HalfWindowInFlight
<1>5. Sub(t, sendBase[p]) < WindowSize
  BY <1>1, <1>3, <1>4, WindowAssumption
<1>6. isInWindow(sendBase[p], t)
  BY <1>1, <1>2, <1>5, WindowTestIsDistance DEF WindowTestCorrect
<1> QED
  BY <1>2, <1>6, AckFindsPacket

\* Send never takes a slot that is in use.
LEMMA SendKeepsSlots ==
  ASSUME NEW p \in Peers, SafeInv, Send(p), NEW i \in Index,
         sendWindow[p][i].State # "Empty"
  PROVE  sendWindow'[p][i] = sendWindow[p][i]
<1> DEFINE i0   == getWindowIndex(nextSeq[p])
           slot == [State |-> "Sent", RetryCount |-> 0,
                    Serialized |-> DataPacket(Other(p), nextSeq[p], sends[p])]
           s    == sendWindow[p][i].Serialized
<1>1. /\ sendBase[p] \in SeqNum /\ nextSeq[p] \in SeqNum
      /\ sendWindow \in [Peers -> [Index -> WindowSlot]]
      /\ InFlight(p) \in Nat /\ i0 \in Index
  BY SeqNums, SeqArithmetic, IndexType DEF SafeInv, SenderTypeOK, InFlight
<1>2. /\ s \in DataPackets /\ getWindowIndex(s.seq) = i
      /\ Sub(s.seq, sendBase[p]) < InFlight(p)
  BY DEF SafeInv, SlotsHoldTheirPackets
<1>3. s.seq \in SeqNum
  BY <1>2 DEF DataPackets
<1>4. InFlight(p) < WindowSize
  <2>1. 2 * InFlight(p) < WindowSize
    BY RoomIsHalf DEF Send
  <2> QED
    BY <2>1, <1>1, WindowAssumption
<1>5. isInWindow(sendBase[p], nextSeq[p]) /\ isInWindow(sendBase[p], s.seq)
  <2>1. Sub(s.seq, sendBase[p]) \in Nat
    BY <1>1, <1>3, SeqArithmetic
  <2>2. Sub(s.seq, sendBase[p]) < WindowSize /\ Sub(nextSeq[p], sendBase[p]) < WindowSize
    BY <2>1, <1>1, <1>2, <1>4, WindowAssumption DEF InFlight
  <2> QED
    BY <1>1, <1>3, <2>2, WindowTestIsDistance DEF WindowTestCorrect
<1>6. s.seq # nextSeq[p]
  BY <1>1, <1>2 DEF InFlight
<1>7. i # i0
  BY <1>1, <1>2, <1>3, <1>5, <1>6, WindowSlotsDistinct DEF SlotsDistinct
<1>8. sendWindow' = sendWindow \/ sendWindow' = [sendWindow EXCEPT ![p][i0] = slot]
  BY DEF Send
<1> HIDE DEF i0, slot
<1> QED
  BY <1>1, <1>7, <1>8

\* ProcessTimeouts skips acknowledged slots.
LEMMA TimeoutKeepsAcked ==
  ASSUME NEW p \in Peers, NEW expired, SafeInv, ProcessTimeouts(p, expired),
         NEW i \in Index, sendWindow[p][i].State = "ACKed"
  PROVE  sendWindow'[p][i] = sendWindow[p][i]
<1>1. SenderTypeOK
  BY DEF SafeInv
<1>2. \A seq \in expired : slotOf(p, seq).State # "ACKed"
  BY DEF ProcessTimeouts, waiting
<1>3. ~ \E seq \in expired : getWindowIndex(seq) = i
  BY <1>2 DEF slotOf
<1> QED
  BY <1>1, <1>3, TimeoutSlots

\* A new ACK clears the acknowledged slots that its slide passes, and leaves
\* the others alone.
LEMMA NewACKClearsPassed ==
  ASSUME NEW p \in Peers, NEW seq \in SeqNum, SafeInv, NewACK(p, seq),
         NEW i \in Index, sendWindow[p][i].State = "ACKed"
  PROVE  \/ sendWindow'[p][i] = sendWindow[p][i]
         \/ /\ sendWindow'[p][i] = EmptySlot
            /\ sendBase'[p] > sendWindow[p][i].Serialized.seq
<1> DEFINE base == sendBase[p]
           ring == markedRing(p, seq)
<1>0. SenderTypeOK
  BY DEF SafeInv
<1>1. PICK b \in SeqNum :
        /\ slidTo(ring, base, nextSeq[p], b)
        /\ sendBase'[p] = b
        /\ sendWindow'[p] = cleared(ring, base, b)
  BY <1>0, NewACKParts
<1>2. base \in Nat /\ b \in Nat /\ nextSeq[p] \in Nat
  BY <1>0, SeqNums DEF SenderTypeOK
<1>3. i # getWindowIndex(seq)
  BY DEF NewACK, ackIsIgnored, slotOf
<1>4. ring[i] = sendWindow[p][i]
  BY <1>0, <1>3 DEF markedRing, SenderTypeOK
<1>5. sendWindow'[p][i] =
        IF \E t \in base .. (b - 1) : getWindowIndex(t) = i THEN EmptySlot ELSE ring[i]
  BY <1>1, Zenon DEF cleared
<1>6. ASSUME NEW t \in base .. (b - 1), getWindowIndex(t) = i
      PROVE  sendWindow[p][i].Serialized.seq < b
  <2>1. t \in Nat /\ base <= t /\ t < b /\ b <= nextSeq[p]
    BY <1>1, <1>2 DEF slidTo
  <2>2. slotOf(p, t) = sendWindow[p][i]
    BY <1>6 DEF slotOf
  <2>3. sendWindow[p][i].Serialized.seq = t
    BY <1>2, <2>1, <2>2, PassedSlot
  <2> QED
    BY <2>1, <2>3
<1>7. CASE \E t \in base .. (b - 1) : getWindowIndex(t) = i
  <2>1. sendWindow[p][i].Serialized.seq < b
    BY <1>6, <1>7
  <2>2. sendWindow[p][i].Serialized.seq \in Nat
    BY SeqNums DEF SafeInv, SlotsHoldTheirPackets, DataPackets
  <2>3. sendWindow'[p][i] = EmptySlot
    BY <1>5, <1>7, Zenon
  <2> QED
    BY <1>1, <1>2, <2>1, <2>2, <2>3
<1>8. CASE ~ \E t \in base .. (b - 1) : getWindowIndex(t) = i
  BY <1>4, <1>5, <1>8, Zenon
<1> QED
  BY <1>7, <1>8

\* The number a new ACK was taken for is never taken again in this window:
\* its slot is marked, or the slide has passed it.
LEMMA NewACKSettles ==
  ASSUME NEW p \in Peers, NEW seq \in SeqNum, SafeInv, NewACK(p, seq)
  PROVE  \/ ~ isInWindow(sendBase'[p], seq)
         \/ sendWindow'[p][getWindowIndex(seq)].State = "ACKed"
<1> DEFINE base == sendBase[p]
           i    == getWindowIndex(seq)
           ring == markedRing(p, seq)
<1>0. SenderTypeOK /\ i \in Index
  BY IndexType, SeqNums DEF SafeInv
<1>1. PICK b \in SeqNum :
        /\ slidTo(ring, base, nextSeq[p], b)
        /\ sendBase'[p] = b
        /\ sendWindow'[p] = cleared(ring, base, b)
  BY <1>0, NewACKParts
<1>2. /\ base \in Nat /\ b \in Nat /\ nextSeq[p] \in Nat /\ seq \in Nat
      /\ base \in SeqNum /\ nextSeq[p] \in SeqNum
  BY <1>0, SeqNums DEF SenderTypeOK
<1>3. ring[i].State = "ACKed"
  BY <1>0, MarkedRing
<1>4. sendWindow'[p][i] =
        IF \E t \in base .. (b - 1) : getWindowIndex(t) = i THEN EmptySlot ELSE ring[i]
  BY <1>0, <1>1, Zenon DEF cleared
<1>5. CASE \E t \in base .. (b - 1) : getWindowIndex(t) = i
  <2>1. PICK t \in base .. (b - 1) : getWindowIndex(t) = i
    BY <1>5
  <2>2. t \in Nat /\ base <= t /\ t < b /\ b <= nextSeq[p]
    BY <1>1, <1>2, <2>1 DEF slidTo
  <2>3. /\ isInWindow(base, seq) /\ slotOf(p, seq).State # "Empty"
        /\ slotOf(p, t) = slotOf(p, seq)
    BY <2>1 DEF NewACK, ackIsIgnored, slotOf
  <2>4. slotOf(p, seq).Serialized.seq = seq /\ slotOf(p, t).Serialized.seq = t
    BY <1>2, <2>2, <2>3, AckFindsPacket, PassedSlot
  <2>5. base <= seq /\ seq < b
    BY <2>2, <2>3, <2>4
  <2>6. InFlight(p) = nextSeq[p] - base /\ 2 * InFlight(p) <= WindowSize + 1
    BY <1>2, <2>2, SubPlain DEF SafeInv, HalfWindowInFlight, InFlight
  <2>7. Sub(seq, b) = seq - b + UintMod
    BY <1>2, <2>5, SubPlain
  <2>8. 2 * WindowSize <= UintMod
    BY TwoWindowsFit
  <2>9. ~ (Sub(seq, b) < WindowSize)
    BY <1>2, <2>2, <2>5, <2>6, <2>7, <2>8, WindowAssumption
  <2> QED
    BY <1>1, <2>9, WindowTestIsDistance DEF WindowTestCorrect
<1>6. CASE ~ \E t \in base .. (b - 1) : getWindowIndex(t) = i
  BY <1>3, <1>4, <1>6, Zenon
<1> QED
  BY <1>5, <1>6

\* The number of the last ACK taken is ignored from then on; before the
\* first one it is 0.
LastACKSettled(p) ==
  /\ acked[p] = {} => lastACKSeq[p] = 0
  /\ acked[p] # {} => \/ ~ isInWindow(sendBase[p], lastACKSeq[p])
                      \/ slotOf(p, lastACKSeq[p]).State = "ACKed"

LEMMA SettledKept ==
  ASSUME SafeInv, NEW p \in Peers, LastACKSettled(p),
         sendBase'[p] = sendBase[p], lastACKSeq'[p] = lastACKSeq[p], acked'[p] = acked[p],
         \A i \in Index : sendWindow[p][i].State = "ACKed" =>
                            sendWindow'[p][i] = sendWindow[p][i]
  PROVE  LastACKSettled(p)'
<1>1. getWindowIndex(lastACKSeq[p]) \in Index
  BY IndexType, SeqNums DEF SafeInv, SenderTypeOK
<1> QED
  BY <1>1 DEF LastACKSettled, slotOf

\* Another context's step, or one that leaves the sender alone.
LEMMA SettledElsewhere ==
  ASSUME SafeInv, NEW q \in Peers, LastACKSettled(q),
         sendBase'[q] = sendBase[q], lastACKSeq'[q] = lastACKSeq[q], acked'[q] = acked[q],
         sendWindow'[q] = sendWindow[q]
  PROVE  LastACKSettled(q)'
  BY SettledKept

LEMMA SettledAfterACK ==
  ASSUME SafeInv, NEW p \in Peers, NEW seq \in SeqNum, ProcessACK(p, seq),
         NEW q \in Peers, LastACKSettled(q)
  PROVE  LastACKSettled(q)'
<1>0. SenderTypeOK
  BY DEF SafeInv
<1>1. CASE IgnoredACK(p, seq)
  BY <1>1, SettledElsewhere DEF IgnoredACK, windowVars
<1>2. CASE DuplicateACK(p, seq)
  <2>1. UNCHANGED <<sendBase, lastACKSeq, acked>>
    BY <1>2 DEF DuplicateACK
  <2>2. \A i \in Index : sendWindow[q][i].State = "ACKed" =>
                           sendWindow'[q][i] = sendWindow[q][i]
    BY <1>0, <1>2, DuplicateACKSlots
  <2> QED
    BY <2>1, <2>2, SettledKept
<1>3. CASE NewACK(p, seq) /\ q # p
  <2>1. /\ sendBase'[q] = sendBase[q] /\ lastACKSeq'[q] = lastACKSeq[q]
        /\ acked'[q] = acked[q] /\ sendWindow'[q] = sendWindow[q]
    BY <1>0, <1>3 DEF NewACK, SenderTypeOK
  <2> QED
    BY <2>1, SettledElsewhere
<1>4. CASE NewACK(p, seq) /\ q = p
  <2>1. /\ lastACKSeq'[p] = seq
        /\ acked'[p] = acked[p] \cup {slotOf(p, seq).Serialized.data}
    BY <1>0, <1>4 DEF NewACK, SenderTypeOK
  <2>2. \/ ~ isInWindow(sendBase'[p], seq)
        \/ sendWindow'[p][getWindowIndex(seq)].State = "ACKed"
    BY <1>0, <1>4, NewACKSettles
  <2>3. acked'[p] # {}
    BY <2>1
  <2> QED
    BY <1>4, <2>1, <2>2, <2>3 DEF LastACKSettled, slotOf
<1> QED
  BY <1>1, <1>2, <1>3, <1>4 DEF ProcessACK

-----------------------------------------------------------------------------
(***************************************************************************)
(* Before the sequence numbers overflow: the rest of the sender's          *)
(* invariant.  It needs the bound because the loops of ProcessACK and      *)
(* ProcessTimeouts compare sendBase with nextSeq as plain numbers.         *)
(***************************************************************************)
NoWrap == MaxSends + WindowSize < UintMod

\* Everything below sendBase, and every slot marked ACKed, was acknowledged.
AckedPrefix ==
  \A p \in Peers :
    /\ sendBase[p] <= nextSeq[p]
    /\ \A s \in 0 .. (sendBase[p] - 1) : s \in acked[p]
    /\ \A i \in Index : sendWindow[p][i].State = "ACKed" =>
                          sendWindow[p][i].Serialized.data \in acked[p]

PrefixInv == AckedPrefix /\ BaseIsUnacked

LEMMA NextPlain ==
  ASSUME NoWrap, SafeInv, NEW p \in Peers
  PROVE  /\ nextSeq[p] = sends[p] /\ nextSeq[p] \in 0 .. MaxSends
         /\ nextSeq[p] + WindowSize < UintMod
<1>1. sends[p] \in 0 .. MaxSends
  BY DEF SafeInv, SenderTypeOK
<1>2. sends[p] % UintMod = sends[p]
  BY <1>1, SenderAssumption, WindowAssumption DEF NoWrap
<1> QED
  BY <1>1, <1>2, SenderAssumption, WindowAssumption DEF SafeInv, NextIsSends, NoWrap

LEMMA PayloadPlain ==
  ASSUME NoWrap, NEW d \in Payload
  PROVE  d % UintMod = d
  BY SenderAssumption, WindowAssumption DEF NoWrap, Payload

LEMMA InitPrefix == SenderInit => PrefixInv
  BY SubPlain, WindowAssumption, SeqNums
  DEF SenderInit, PrefixInv, AckedPrefix, BaseIsUnacked, EmptySlot, InFlight, slotOf

\* An empty window has only empty slots.
LEMMA IdleRingEmpty ==
  ASSUME NEW p \in Peers, SafeInv, InFlight(p) = 0, NEW i \in Index
  PROVE  sendWindow[p][i].State = "Empty"
<1> SUFFICES ASSUME sendWindow[p][i].State # "Empty" PROVE FALSE
  OBVIOUS
<1>1. /\ sendWindow[p][i].Serialized \in DataPackets
      /\ Sub(sendWindow[p][i].Serialized.seq, sendBase[p]) < 0
  BY DEF SafeInv, SlotsHoldTheirPackets
<1>2. sendWindow[p][i].Serialized.seq \in SeqNum /\ sendBase[p] \in SeqNum
  BY <1>1 DEF DataPackets, SafeInv, SenderTypeOK
<1> QED
  BY <1>1, <1>2, SeqArithmetic

LEMMA SendPrefix ==
  ASSUME NEW p \in Peers, NoWrap, SafeInv, SafeInv', PrefixInv, Send(p)
  PROVE  PrefixInv'
<1> DEFINE i0 == getWindowIndex(nextSeq[p])
<1>1. /\ sendBase' = sendBase /\ acked' = acked
      /\ \A q \in Peers : nextSeq'[q] = nextSeq[q] \/ (q = p /\ nextSeq'[q] = nextSeq[q] + 1)
  <2>1. nextSeq[p] \in Nat /\ nextSeq[p] + 1 < UintMod
    BY NextPlain, WindowAssumption
  <2>2. Add(nextSeq[p], 1) = nextSeq[p] + 1
    BY <2>1, AddPlain, WindowAssumption
  <2> QED
    BY <2>2 DEF Send, ackVars, SafeInv, SenderTypeOK
<1>2. ASSUME NEW q \in Peers, NEW i \in Index
      PROVE  \/ sendWindow'[q][i] = sendWindow[q][i]
             \/ q = p /\ i = i0 /\ sendWindow'[q][i].State = "Sent"
  <2> DEFINE slot == [State |-> "Sent", RetryCount |-> 0,
                      Serialized |-> DataPacket(Other(p), nextSeq[p], sends[p])]
  <2>1. sendWindow' = sendWindow \/ sendWindow' = [sendWindow EXCEPT ![p][i0] = slot]
    BY DEF Send
  <2>2. slot.State = "Sent"
    OBVIOUS
  <2>3. sendWindow \in [Peers -> [Index -> WindowSlot]] /\ i0 \in Index
    BY IndexType, SeqNums DEF SafeInv, SenderTypeOK
  <2> HIDE DEF slot, i0
  <2> QED
    BY <2>1, <2>2, <2>3
<1>3. AckedPrefix'
  <2>1. \A q \in Peers : sendBase[q] \in Nat /\ nextSeq[q] \in Nat
    BY SeqNums DEF SafeInv, SenderTypeOK
  <2> QED
    BY <1>1, <1>2, <2>1 DEF PrefixInv, AckedPrefix
<1>4. BaseIsUnacked'
  <2> SUFFICES ASSUME NEW q \in Peers, InFlight(q)' > 0
               PROVE  sendWindow'[q][getWindowIndex(sendBase[q])].State # "ACKed"
    BY <1>1 DEF BaseIsUnacked, slotOf
  <2>1. getWindowIndex(sendBase[q]) \in Index
    BY IndexType, SeqNums DEF SafeInv, SenderTypeOK
  <2>2. InFlight(q) \in Nat
    BY SeqArithmetic DEF SafeInv, SenderTypeOK, InFlight
  <2>3. sendWindow[q][getWindowIndex(sendBase[q])].State # "ACKed"
    BY <2>1, <2>2, IdleRingEmpty DEF PrefixInv, BaseIsUnacked, slotOf
  <2> QED
    BY <2>1, <2>3, <1>2
<1> QED
  BY <1>3, <1>4 DEF PrefixInv

\* A step that changes no base and no ACKed slot, and marks none.
LEMMA KeepPrefix ==
  ASSUME PrefixInv, SafeInv, UNCHANGED <<sendBase, nextSeq, acked>>,
         \A q \in Peers, i \in Index : sendWindow'[q][i] = sendWindow[q][i]
                                       \/ sendWindow'[q][i].State # "ACKed"
  PROVE  PrefixInv'
<1>1. AckedPrefix'
  BY DEF PrefixInv, AckedPrefix
<1>2. \A q \in Peers : getWindowIndex(sendBase[q]) \in Index
  BY IndexType, SeqNums DEF SafeInv, SenderTypeOK
<1>3. BaseIsUnacked'
  BY <1>2 DEF PrefixInv, BaseIsUnacked, InFlight, slotOf
<1> QED
  BY <1>1, <1>3 DEF PrefixInv

LEMMA TimeoutPrefix ==
  ASSUME NEW p \in Peers, NEW expired, SafeInv, PrefixInv,
         ProcessTimeouts(p, expired)
  PROVE  PrefixInv'
<1>1. UNCHANGED <<sendBase, nextSeq, acked>>
  BY DEF ProcessTimeouts, ackVars
<1>2. ASSUME NEW q \in Peers, NEW i \in Index
      PROVE  sendWindow'[q][i] = sendWindow[q][i] \/ sendWindow'[q][i].State # "ACKed"
  <2>1. sendWindow[q][i] \in WindowSlot /\ SenderTypeOK
    BY DEF SafeInv, SenderTypeOK
  <2> QED
    BY <2>1, TimeoutSlots, TimedOutSlot
<1> QED
  BY <1>1, <1>2, KeepPrefix

LEMMA NewACKPrefix ==
  ASSUME NEW p \in Peers, NEW seq \in SeqNum, NoWrap, SafeInv, PrefixInv,
         NewACK(p, seq)
  PROVE  PrefixInv'
<1> DEFINE base == sendBase[p]
           next == nextSeq[p]
           ring == markedRing(p, seq)
<1>1. PICK b \in SeqNum :
        /\ slidTo(ring, base, next, b)
        /\ sendBase'[p] = b
        /\ sendWindow'[p] = cleared(ring, base, b)
        /\ \A q \in Peers : q # p => /\ sendBase'[q] = sendBase[q]
                                     /\ sendWindow'[q] = sendWindow[q]
  BY NewACKParts DEF SafeInv
<1>2. /\ base \in Nat /\ next \in Nat /\ base <= next /\ b \in Nat
      /\ base \in SeqNum /\ next \in SeqNum
  BY SeqNums DEF SafeInv, SenderTypeOK, PrefixInv, AckedPrefix
<1>3. base <= b /\ b <= next
  BY <1>1, <1>2 DEF slidTo
<1>4. /\ nextSeq' = nextSeq
      /\ acked'[p] = acked[p] \cup {sendWindow[p][getWindowIndex(seq)].Serialized.data}
      /\ \A q \in Peers : q # p => acked'[q] = acked[q]
  BY DEF NewACK, SafeInv, SenderTypeOK, slotOf
<1>5. ASSUME NEW i \in Index, ring[i].State = "ACKed"
      PROVE  sendWindow[p][i].Serialized.data \in acked'[p] /\ sendWindow[p][i].State # "Empty"
  <2>1. ring[i].State = IF i = getWindowIndex(seq) THEN "ACKed" ELSE sendWindow[p][i].State
    BY MarkedRing DEF SafeInv
  <2>2. CASE i = getWindowIndex(seq)
    BY <2>2, <1>4 DEF NewACK, ackIsIgnored, slotOf
  <2>3. CASE i # getWindowIndex(seq)
    BY <1>5, <2>1, <2>3, <1>4 DEF PrefixInv, AckedPrefix
  <2> QED
    BY <2>2, <2>3
<1>6. ASSUME NEW t \in base .. (b - 1)
      PROVE  t \in acked'[p]
  <2>1. t \in Nat /\ t \in SeqNum /\ base <= t /\ t < next
    BY <1>2, <1>3, WindowAssumption DEF SeqNum
  <2>2. getWindowIndex(t) \in Index
    BY <2>1, IndexType
  <2>3. ring[getWindowIndex(t)].State = "ACKed"
    BY <1>1 DEF slidTo
  <2>4. sendWindow[p][getWindowIndex(t)].State # "Empty"
        /\ sendWindow[p][getWindowIndex(t)].Serialized.data \in acked'[p]
    BY <1>5, <2>2, <2>3
  <2>5. isInWindow(base, t)
    <3>1. Sub(t, base) = t - base /\ InFlight(p) = next - base
      BY <2>1, <1>2, SubPlain DEF InFlight
    <3>2. 2 * (next - base) <= WindowSize + 1
      BY <3>1 DEF SafeInv, HalfWindowInFlight
    <3>3. t - base < WindowSize
      BY <3>2, <2>1, <1>2, WindowAssumption
    <3> QED
      BY <3>1, <3>3, <2>1, <1>2, WindowTestIsDistance DEF WindowTestCorrect
  <2>6. /\ slotOf(p, t).Serialized \in DataPackets
        /\ t = slotOf(p, t).Serialized.data % UintMod
    BY <2>1, <2>4, <2>5, AckFindsPacket DEF slotOf
  <2>7. slotOf(p, t).Serialized.data \in Payload
    BY <2>6 DEF DataPackets
  <2> QED
    BY <2>4, <2>6, <2>7, PayloadPlain DEF slotOf
<1>7. AckedPrefix'
  <2> SUFFICES ASSUME NEW q \in Peers
               PROVE  /\ sendBase'[q] <= nextSeq'[q]
                      /\ \A s \in 0 .. (sendBase'[q] - 1) : s \in acked'[q]
                      /\ \A i \in Index : sendWindow'[q][i].State = "ACKed" =>
                           sendWindow'[q][i].Serialized.data \in acked'[q]
    BY DEF AckedPrefix
  <2>1. CASE q # p
    BY <2>1, <1>1, <1>4 DEF PrefixInv, AckedPrefix
  <2>2. CASE q = p
    <3>1. ASSUME NEW s \in 0 .. (b - 1) PROVE s \in acked'[p]
      <4>1. s \in 0 .. (base - 1) \/ s \in base .. (b - 1)
        BY <1>2, <1>3
      <4>2. s \in 0 .. (base - 1) => s \in acked[p]
        BY DEF PrefixInv, AckedPrefix
      <4> QED
        BY <4>1, <4>2, <1>4, <1>6
    <3>2. ASSUME NEW i \in Index, sendWindow'[p][i].State = "ACKed"
          PROVE  sendWindow'[p][i].Serialized.data \in acked'[p]
      <4>1. ring \in [Index -> WindowSlot]
            /\ ring[i].Serialized = sendWindow[p][i].Serialized
        BY MarkedRing DEF SafeInv
      <4>2. sendWindow'[p][i] = ring[i]
        BY <3>2, <1>1, <4>1, ClearedRing
      <4> QED
        BY <3>2, <4>1, <4>2, <1>5
    <3> QED
      BY <2>2, <3>1, <3>2, <1>1, <1>3, <1>4
  <2> QED
    BY <2>1, <2>2
<1>8. BaseIsUnacked'
  <2> SUFFICES ASSUME NEW q \in Peers, InFlight(q)' > 0
               PROVE  sendWindow'[q][getWindowIndex(sendBase'[q])].State # "ACKed"
    BY DEF BaseIsUnacked, slotOf
  <2>1. CASE q # p
    BY <2>1, <1>1, <1>4 DEF PrefixInv, BaseIsUnacked, InFlight, slotOf
  <2>2. CASE q = p
    <3>1. b # next
      BY <2>2, <1>1, <1>4, <1>2, SubPlain DEF InFlight
    <3>2. ring[getWindowIndex(b)].State # "ACKed" /\ getWindowIndex(b) \in Index
      BY <3>1, <1>1, <1>2, <1>3, IndexType DEF slidTo
    <3>3. ring \in [Index -> WindowSlot]
      BY MarkedRing DEF SafeInv
    <3> QED
      BY <2>2, <3>2, <3>3, <1>1, ClearedRing
  <2> QED
    BY <2>1, <2>2
<1> QED
  BY <1>7, <1>8 DEF PrefixInv

LEMMA ProcessACKPrefix ==
  ASSUME NEW p \in Peers, NEW seq \in SeqNum, NoWrap, SafeInv, PrefixInv,
         ProcessACK(p, seq)
  PROVE  PrefixInv'
<1>1. CASE IgnoredACK(p, seq)
  BY <1>1, KeepPrefix DEF IgnoredACK, windowVars
<1>2. CASE DuplicateACK(p, seq)
  <2>1. UNCHANGED <<sendBase, nextSeq, acked>>
    BY <1>2 DEF DuplicateACK
  <2>2. \A q \in Peers, i \in Index : sendWindow'[q][i] = sendWindow[q][i]
                                      \/ sendWindow'[q][i].State # "ACKed"
    BY <1>2, DuplicateACKSlots DEF SafeInv
  <2> QED
    BY <2>1, <2>2, KeepPrefix
<1>3. CASE NewACK(p, seq)
  BY <1>3, NewACKPrefix
<1> QED
  BY <1>1, <1>2, <1>3 DEF ProcessACK
=============================================================================
