------------------------- MODULE TimedSender_proofs -------------------------
(***************************************************************************)
(* The invariants of one sending half, whatever ACKs it is given, for      *)
(* every window size, sequence space and number of packets; and what the   *)
(* clock adds to it: the timed specification is one of the behaviours of   *)
(* SenderAlone, so that all its theorems hold for it, and the round-trip   *)
(* estimate stays within what was measured, for every bound on round trips *)
(* and every sequence of ACKs and timeouts.                                *)
(***************************************************************************)
EXTENDS TimedSender, ReliableSender_proofs

-----------------------------------------------------------------------------
(***************************************************************************)
(* The sending half without the clock                                      *)
(***************************************************************************)

LEMMA AIsPeer == A \in Peers
  BY DEF Peers

LEMMA SafeInvInductive == SafeInv /\ [Next]_vars => SafeInv'
<1> SUFFICES ASSUME SafeInv, [Next]_vars PROVE SafeInv'
  OBVIOUS
<1>1. CASE Send(A)
  BY <1>1, AIsPeer, SendSafe
<1>2. ASSUME NEW seq \in SeqNum, ProcessACK(A, seq) PROVE SafeInv'
  BY <1>2, AIsPeer, ProcessACKSafe
<1>3. CASE Tick
  BY <1>3, AIsPeer, TimeoutSafe DEF Tick
<1>4. CASE UNCHANGED vars
  BY <1>4, UnchangedSafe DEF vars
<1> QED
  BY <1>1, <1>2, <1>3, <1>4 DEF Next

(***************************************************************************)
(* The state of the sending half keeps its types: the congestion window    *)
(* stays between InitialCwnd and MaxCwnd, ssthresh never falls below 2, no *)
(* packet is retried more than MaxRetries times.                           *)
(***************************************************************************)
THEOREM TypeCorrect == Spec => []SenderTypeOK
<1>1. Init => SafeInv
  BY InitSafe DEF Init
<1>2. SafeInv => SenderTypeOK
  BY DEF SafeInv
<1> QED
  BY <1>1, <1>2, SafeInvInductive, PTL DEF Spec

(***************************************************************************)
(* Send never has more than half of the ring outstanding, so it never      *)
(* writes over a slot whose packet is still waited for.  Overflow of the   *)
(* sequence numbers does not matter.                                       *)
(***************************************************************************)
THEOREM HalfWindow == Spec => []HalfWindowInFlight
<1>1. Init => SafeInv
  BY InitSafe DEF Init
<1>2. SafeInv => HalfWindowInFlight
  BY DEF SafeInv
<1> QED
  BY <1>1, <1>2, SafeInvInductive, PTL DEF Spec

(***************************************************************************)
(* What ProcessTimeouts and fast retransmit write to the socket is the     *)
(* packet Send stored under that sequence number, inside the window.       *)
(***************************************************************************)
THEOREM SlotsSound == Spec => []SlotsHoldTheirPackets
<1>1. Init => SafeInv
  BY InitSafe DEF Init
<1>2. SafeInv => SlotsHoldTheirPackets
  BY DEF SafeInv
<1> QED
  BY <1>1, <1>2, SafeInvInductive, PTL DEF Spec

(***************************************************************************)
(* Until the sequence numbers overflow, the slide loop of ProcessACK       *)
(* leaves sendBase at a packet that is not acknowledged: no acknowledged   *)
(* packet blocks the window.                                               *)
(***************************************************************************)
THEOREM BaseUnacked == ASSUME NoWrap PROVE Spec => []BaseIsUnacked
<1> DEFINE Inv == SafeInv /\ PrefixInv
<1>1. Init => Inv
  BY InitSafe, InitPrefix DEF Init
<1>2. Inv /\ [Next]_vars => Inv'
  <2> SUFFICES ASSUME SafeInv, PrefixInv, [Next]_vars PROVE PrefixInv'
    BY SafeInvInductive
  <2>0. SafeInv'
    BY SafeInvInductive
  <2>1. CASE Send(A)
    BY <2>0, <2>1, AIsPeer, NoWrap, SendPrefix
  <2>2. ASSUME NEW seq \in SeqNum, ProcessACK(A, seq) PROVE PrefixInv'
    BY <2>2, AIsPeer, NoWrap, ProcessACKPrefix
  <2>3. CASE Tick
    BY <2>3, AIsPeer, TimeoutPrefix DEF Tick
  <2>4. CASE UNCHANGED vars
    BY <2>4, KeepPrefix DEF vars, senderVars, windowVars, ackVars
  <2> QED
    BY <2>1, <2>2, <2>3, <2>4 DEF Next
<1>3. Inv => BaseIsUnacked
  BY DEF PrefixInv
<1> QED
  BY <1>1, <1>2, <1>3, PTL DEF Spec

(***************************************************************************)
(* Whatever ACKs and timeouts come, and however many packets one call of   *)
(* ProcessTimeouts retransmits, slow start ends before the congestion      *)
(* window passes ssthresh.                                                 *)
(***************************************************************************)
LEMMA SlowStartAfterACK ==
  ASSUME SenderTypeOK, updateCongestionWindow(A)
  PROVE  SlowStartStopsAtThreshold'
<1> DEFINE c == cwnd[A]
           s == ssthresh[A]
<1>1. /\ c \in Nat /\ c <= MaxCwnd
      /\ s \in Nat /\ s <= MaxCwnd
  BY AIsPeer, SenderAssumption DEF SenderTypeOK
<1>2. /\ cwnd'[A] = grownCwnd(c, inSlowStart[A])
      /\ ssthresh'[A] = s
  BY AIsPeer DEF updateCongestionWindow, SenderTypeOK
<1>3. inSlowStart'[A] => inSlowStart[A] /\ c + 1 < s
  <2>1. inSlowStart' = [inSlowStart EXCEPT ![A] = inSlowStart[A] /\ slowStartContinues(c, s)]
    BY AIsPeer DEF updateCongestionWindow, SenderTypeOK
  <2> QED
    BY <2>1, AIsPeer, Zenon DEF SenderTypeOK, slowStartContinues
<1>4. ASSUME inSlowStart[A], c + 1 < s
      PROVE  cwnd'[A] < ssthresh'[A]
  <2>1. cwnd'[A] = IF c + 1 > MaxCwnd THEN MaxCwnd ELSE c + 1
    BY <1>2, <1>4 DEF grownCwnd
  <2>2. c + 1 < s /\ MaxCwnd \in Nat
    BY <1>4, SenderAssumption
  <2> HIDE DEF c, s
  <2> QED
    BY <1>1, <1>2, <2>1, <2>2
<1> QED
  BY <1>3, <1>4, Zenon DEF SlowStartStopsAtThreshold

LEMMA SlowStartAfterTimeout ==
  ASSUME SenderTypeOK, SlowStartStopsAtThreshold, NEW expired, ProcessTimeouts(A, expired)
  PROVE  SlowStartStopsAtThreshold'
<1>1. CASE UNCHANGED congestionVars
  BY <1>1 DEF SlowStartStopsAtThreshold, congestionVars
<1>2. CASE ~ UNCHANGED congestionVars
  <2>1. cwnd' = [cwnd EXCEPT ![A] = InitialCwnd]
    BY <1>2 DEF ProcessTimeouts, backOff
  <2> QED
    BY <2>1, AIsPeer DEF SenderTypeOK, SlowStartStopsAtThreshold
<1> QED
  BY <1>1, <1>2

THEOREM SlowStartStops == Spec => []SlowStartStopsAtThreshold
<1> DEFINE Inv == SafeInv /\ SlowStartStopsAtThreshold
<1>1. Init => Inv
  <2> SUFFICES ASSUME Init PROVE SlowStartStopsAtThreshold
    BY InitSafe DEF Init
  <2> QED
    BY AIsPeer DEF Init, SenderInit, SlowStartStopsAtThreshold
<1>2. Inv /\ [Next]_vars => Inv'
  <2> SUFFICES ASSUME SafeInv, SlowStartStopsAtThreshold, [Next]_vars
               PROVE  SlowStartStopsAtThreshold'
    BY SafeInvInductive
  <2>0. SenderTypeOK
    BY DEF SafeInv
  <2>1. CASE UNCHANGED congestionVars
    BY <2>1 DEF SlowStartStopsAtThreshold, congestionVars
  <2>2. CASE Send(A)
    BY <2>1, <2>2 DEF Send
  <2>3. ASSUME NEW seq \in SeqNum, ProcessACK(A, seq) PROVE SlowStartStopsAtThreshold'
    <3>1. CASE NewACK(A, seq)
      BY <2>0, <3>1, SlowStartAfterACK DEF NewACK
    <3> QED
      BY <2>1, <2>3, <3>1 DEF ProcessACK, IgnoredACK, DuplicateACK
  <2>4. CASE Tick
    BY <2>0, <2>4, SlowStartAfterTimeout DEF Tick
  <2>5. CASE UNCHANGED vars
    BY <2>1, <2>5 DEF vars, senderVars
  <2> QED
    BY <2>2, <2>3, <2>4, <2>5 DEF Next
<1> QED
  BY <1>1, <1>2, PTL DEF Spec

(***************************************************************************)
(* An acknowledged slot is never sent again, marked again or given to      *)
(* another packet: all that happens to it is that the slide of sendBase    *)
(* clears it.  Overflow of the sequence numbers does not matter.           *)
(***************************************************************************)
THEOREM AckedSlotsStay == Spec => AckedSlotsOnlyCleared
<1> DEFINE Kept == \A i \in Index :
             sendWindow[A][i].State = "ACKed" /\ sendWindow'[A][i] # sendWindow[A][i] =>
               /\ sendWindow'[A][i] = EmptySlot
               /\ sendBase'[A] > sendWindow[A][i].Serialized.seq
<1>1. Init => SafeInv
  BY InitSafe DEF Init
<1>2. SafeInv /\ [Next]_vars => [Kept]_vars
  <2> SUFFICES ASSUME SafeInv, Next, NEW i \in Index, sendWindow[A][i].State = "ACKed"
               PROVE  \/ sendWindow'[A][i] = sendWindow[A][i]
                      \/ /\ sendWindow'[A][i] = EmptySlot
                         /\ sendBase'[A] > sendWindow[A][i].Serialized.seq
    BY Zenon
  <2>1. CASE Send(A)
    BY <2>1, AIsPeer, SendKeepsSlots
  <2>2. ASSUME NEW seq \in SeqNum, ProcessACK(A, seq)
        PROVE  \/ sendWindow'[A][i] = sendWindow[A][i]
               \/ /\ sendWindow'[A][i] = EmptySlot
                  /\ sendBase'[A] > sendWindow[A][i].Serialized.seq
    <3>1. CASE IgnoredACK(A, seq)
      BY <3>1 DEF IgnoredACK, windowVars
    <3>2. CASE DuplicateACK(A, seq)
      BY <3>2, AIsPeer, DuplicateACKSlots DEF SafeInv
    <3>3. CASE NewACK(A, seq)
      BY <3>3, AIsPeer, NewACKClearsPassed
    <3> QED
      BY <2>2, <3>1, <3>2, <3>3 DEF ProcessACK
  <2>3. CASE Tick
    BY <2>3, AIsPeer, TimeoutKeepsAcked DEF Tick
  <2> QED
    BY <2>1, <2>2, <2>3 DEF Next
<1> QED
  BY <1>1, <1>2, SafeInvInductive, PTL DEF Spec, AckedSlotsOnlyCleared

-----------------------------------------------------------------------------
(***************************************************************************)
(* The clock                                                               *)
(***************************************************************************)

LEMMA TimedStep == [TimedNext]_timedVars => [Next]_vars
<1> SUFFICES ASSUME [TimedNext]_timedVars PROVE [Next]_vars
  OBVIOUS
<1>1. CASE TimedSend
  BY <1>1 DEF TimedSend, Next
<1>2. ASSUME NEW seq \in SeqNum, TimedACK(seq) PROVE [Next]_vars
  BY <1>2 DEF TimedACK, Next
<1>3. CASE TimedTick
  <2>1. PICK expired \in SUBSET overdue : ProcessTimeouts(A, expired)
    BY <1>3 DEF TimedTick
  <2>2. expired \in SUBSET waiting(A)
    BY <2>1 DEF overdue
  <2> QED
    BY <2>1, <2>2 DEF Tick, Next
<1>4. CASE Advance
  BY <1>4 DEF Advance
<1>5. CASE UNCHANGED timedVars
  BY <1>5 DEF timedVars
<1> QED
  BY <1>1, <1>2, <1>3, <1>4, <1>5 DEF TimedNext

(***************************************************************************)
(* Choosing the packets that ProcessTimeouts finds overdue by their age    *)
(* and the RTO is one way of choosing them: the sender with its clock      *)
(* implements the sender whose clock is abstracted.                        *)
(***************************************************************************)
THEOREM TimedImplementsSender == TimedSpec => Spec
<1>1. TimedInit => Init
  BY DEF TimedInit
<1> QED
  BY <1>1, TimedStep, PTL DEF TimedSpec, Spec

-----------------------------------------------------------------------------
\* A weighted mean lies between its terms, also after the division.
LEMMA MeanBetween ==
  ASSUME NEW s \in Nat, NEW t \in Nat, NEW low \in Nat, NEW high \in Nat,
         low <= s, low <= t, s <= high, t <= high
  PROVE  /\ (7 * s + t) \div 8 \in Nat
         /\ low <= (7 * s + t) \div 8
         /\ (7 * s + t) \div 8 <= high
  OBVIOUS

LEMMA DeviationBelow ==
  ASSUME NEW v \in Nat, NEW d \in Nat, NEW high \in Nat, v <= high, d <= high
  PROVE  (3 * v + d) \div 4 \in Nat /\ (3 * v + d) \div 4 <= high
  OBVIOUS

\* Nothing that updateRTT computes overflows.
LEMMA MilliPlain ==
  ASSUME NEW n \in Nat, n <= 8 * MaxRTT
  PROVE  Milli(n) = n
  BY TimeAssumption DEF Milli

\* The statistics r lie within the samples from low to high.
Between(r, low, high) ==
  /\ low <= r.SRTT
  /\ r.SRTT <= high
  /\ r.RTTVar <= high
  /\ r.RTO = r.SRTT + 4 * r.RTTVar

Statistics == [SRTT : Nat, RTTVar : Nat, RTO : Nat]

EstimateInv ==
  /\ rtt \in Statistics
  /\ samples \subseteq 0 .. MaxRTT
  /\ age \in [Index -> 0 .. MaxAge]
  /\ samples # {} => \E low, high \in samples : Between(rtt, low, high)

LEMMA FirstSample ==
  ASSUME EstimateInv, NEW sample \in 0 .. MaxRTT, samples = {}, updateRTT(sample)
  PROVE  rtt' \in Statistics /\ Between(rtt', sample, sample)
<1> DEFINE v == sample \div 2
<1>1. sample \in Nat /\ v \in Nat /\ v <= sample /\ sample + 4 * v <= 8 * MaxRTT
  BY TimeAssumption
<1>2. rtt' = [SRTT |-> sample, RTTVar |-> v, RTO |-> Milli(sample + 4 * v)]
  BY DEF updateRTT
<1>3. Milli(sample + 4 * v) = sample + 4 * v
  BY <1>1, MilliPlain, sample + 4 * v \in Nat
<1> HIDE DEF v
<1> QED
  BY <1>1, <1>2, <1>3 DEF Statistics, Between

LEMMA LaterSample ==
  ASSUME EstimateInv, NEW sample \in 0 .. MaxRTT, updateRTT(sample),
         NEW low \in samples, NEW high \in samples, Between(rtt, low, high)
  PROVE  /\ rtt' \in Statistics
         /\ Between(rtt', IF sample < low THEN sample ELSE low,
                          IF sample > high THEN sample ELSE high)
<1> DEFINE s == rtt.SRTT
           v == rtt.RTTVar
           d == delta(sample)
           lo == IF sample < low THEN sample ELSE low
           hi == IF sample > high THEN sample ELSE high
           s1 == (7 * s + sample) \div 8
           v1 == (3 * v + d) \div 4
<1>1. /\ s \in Nat /\ v \in Nat /\ sample \in Nat /\ MaxRTT \in Nat
      /\ low \in 0 .. MaxRTT /\ high \in 0 .. MaxRTT
      /\ low <= s /\ s <= high /\ v <= high
  BY TimeAssumption DEF EstimateInv, Statistics, Between
<1>2. /\ lo \in Nat /\ hi \in Nat /\ hi <= MaxRTT
      /\ lo <= s /\ lo <= sample /\ s <= hi /\ sample <= hi /\ v <= hi
  BY <1>1
<1>3. d \in Nat /\ d <= hi
  BY <1>1, <1>2 DEF delta
<1>4. rtt' = [SRTT   |-> Milli(7 * s + sample) \div 8,
              RTTVar |-> Milli(3 * v + d) \div 4,
              RTO    |-> Milli((Milli(7 * s + sample) \div 8)
                               + 4 * (Milli(3 * v + d) \div 4))]
  BY DEF updateRTT, smoothed
<1> HIDE DEF s, v, d, lo, hi
<1>5. Milli(7 * s + sample) = 7 * s + sample /\ Milli(3 * v + d) = 3 * v + d
  <2>1. /\ 7 * s + sample \in Nat /\ 7 * s + sample <= 8 * MaxRTT
        /\ 3 * v + d \in Nat /\ 3 * v + d <= 8 * MaxRTT
    BY <1>1, <1>2, <1>3
  <2> QED
    BY <2>1, MilliPlain
<1>6. s1 \in Nat /\ lo <= s1 /\ s1 <= hi
  BY <1>1, <1>2, MeanBetween
<1>7. v1 \in Nat /\ v1 <= hi
  BY <1>1, <1>2, <1>3, DeviationBelow
<1>8. rtt' = [SRTT |-> s1, RTTVar |-> v1, RTO |-> Milli(s1 + 4 * v1)]
  BY <1>4, <1>5
<1> HIDE DEF s1, v1
<1>9. Milli(s1 + 4 * v1) = s1 + 4 * v1
  <2>1. s1 + 4 * v1 \in Nat /\ s1 + 4 * v1 <= 8 * MaxRTT
    BY <1>1, <1>2, <1>6, <1>7
  <2> QED
    BY <2>1, MilliPlain
<1>10. rtt' \in Statistics /\ Between(rtt', lo, hi)
  BY <1>6, <1>7, <1>8, <1>9 DEF Statistics, Between
<1> QED
  BY <1>10 DEF lo, hi

\* A sample keeps the statistics within the samples.
LEMMA MeasureKeepsEstimate ==
  ASSUME EstimateInv, NEW slot, NEW elapsed \in 0 .. MaxAge, Measure(slot, elapsed)
  PROVE  /\ rtt' \in Statistics
         /\ samples' \subseteq 0 .. MaxRTT
         /\ samples' # {} => \E low, high \in samples' : Between(rtt', low, high)
<1>1. CASE UNCHANGED <<rtt, samples>>
  BY <1>1 DEF EstimateInv
<1>2. CASE elapsed <= MaxRTT /\ updateRTT(elapsed)
  <2>1. elapsed \in 0 .. MaxRTT
    BY <1>2, TimeAssumption
  <2>2. samples' = samples \cup {elapsed}
    BY <1>2 DEF updateRTT
  <2>3. samples' \subseteq 0 .. MaxRTT
    BY <2>1, <2>2 DEF EstimateInv
  <2>4. CASE samples = {}
    BY <1>2, <2>1, <2>2, <2>3, <2>4, FirstSample
  <2>5. CASE samples # {}
    <3>1. PICK low \in samples, high \in samples : Between(rtt, low, high)
      BY <2>5 DEF EstimateInv
    <3> DEFINE lo == IF elapsed < low THEN elapsed ELSE low
               hi == IF elapsed > high THEN elapsed ELSE high
    <3>2. rtt' \in Statistics /\ Between(rtt', lo, hi)
      BY <1>2, <2>1, <3>1, LaterSample
    <3>3. lo \in samples' /\ hi \in samples'
      BY <2>2
    <3> QED
      BY <2>3, <3>2, <3>3
  <2> QED
    BY <2>4, <2>5
<1> QED
  BY <1>1, <1>2 DEF Measure

LEMMA EstimateInductive ==
  ASSUME SafeInv, EstimateInv, [TimedNext]_timedVars
  PROVE  EstimateInv'
<1> USE DEF EstimateInv
<1>0. MaxAge \in Nat
  BY TimeAssumption
<1>1. CASE TimedSend
  <2>1. PICK i, stored : age' = [age EXCEPT ![i] = IF stored THEN 0 ELSE age[i]]
    BY <1>1 DEF TimedSend
  <2>2. UNCHANGED <<rtt, samples>>
    BY <1>1 DEF TimedSend
  <2>3. age' \in [Index -> 0 .. MaxAge]
    <3>1. age \in [Index -> 0 .. MaxAge] /\ 0 \in 0 .. MaxAge
      BY <1>0
    <3> HIDE DEF EstimateInv
    <3>2. CASE stored
      BY <2>1, <3>1, <3>2
    <3>3. CASE ~ stored
      BY <2>1, <3>1, <3>3
    <3> QED
      BY <3>2, <3>3
  <2> QED
    BY <2>2, <2>3
<1>2. ASSUME NEW seq \in SeqNum, TimedACK(seq) PROVE EstimateInv'
  <2>1. CASE UNCHANGED <<rtt, samples, age>>
    BY <2>1
  <2>2. CASE ~ UNCHANGED <<rtt, samples, age>>
    <3>1. /\ Measure(slotOf(A, seq), age[getWindowIndex(seq)])
          /\ age' = [j \in Index |-> IF sendWindow'[A][j] = EmptySlot THEN 0 ELSE age[j]]
      BY <1>2, <2>2 DEF TimedACK
    <3>2. age[getWindowIndex(seq)] \in 0 .. MaxAge
      BY SeqNums, IndexType
    <3>3. age' \in [Index -> 0 .. MaxAge]
      BY <1>0, <3>1
    <3> QED
      BY <3>1, <3>2, <3>3, MeasureKeepsEstimate
  <2> QED
    BY <2>1, <2>2
<1>3. CASE TimedTick
  <2>1. age' \in [Index -> 0 .. MaxAge] /\ UNCHANGED <<rtt, samples>>
    BY <1>0, <1>3 DEF TimedTick
  <2> QED
    BY <2>1
<1>4. CASE Advance
  <2>1. age' \in [Index -> 0 .. MaxAge] /\ UNCHANGED <<rtt, samples>>
    BY <1>0, <1>4 DEF Advance, growsOlder
  <2> QED
    BY <2>1
<1>5. CASE UNCHANGED timedVars
  BY <1>5 DEF timedVars, timeVars
<1> QED
  BY <1>1, <1>2, <1>3, <1>4, <1>5 DEF TimedNext

LEMMA InitEstimate == TimedInit => EstimateInv
<1> SUFFICES ASSUME TimedInit PROVE EstimateInv
  OBVIOUS
<1> DEFINE v == InitialRTT \div 2
           o == Milli(InitialRTT + 4 * v)
<1>1. v \in Nat
  BY TimeAssumption
<1>2. MilliMod >= 1 /\ MilliMod \in Nat /\ InitialRTT + 4 * v \in Nat
  BY <1>1, TimeAssumption
<1>3. o \in Nat
  BY <1>2 DEF Milli
<1>4. rtt = [SRTT |-> InitialRTT, RTTVar |-> v, RTO |-> o]
  BY DEF TimedInit
<1> HIDE DEF v, o
<1>5. rtt \in Statistics
  BY <1>1, <1>3, <1>4, TimeAssumption DEF Statistics
<1>6. age \in [Index -> 0 .. MaxAge]
  BY TimeAssumption DEF TimedInit
<1> QED
  BY <1>5, <1>6 DEF TimedInit, EstimateInv

(***************************************************************************)
(* The rounding uint32 arithmetic of updateRTT keeps SRTT between the      *)
(* shortest and the longest round trip measured and the RTO within five    *)
(* times the longest: no overflow, and no drift by rounding.               *)
(***************************************************************************)
THEOREM EstimateSound == TimedSpec => []EstimateWithinSamples
<1> DEFINE Inv == SafeInv /\ EstimateInv
<1>1. TimedInit => Inv
  BY InitSafe, InitEstimate DEF TimedInit, Init
<1>2. Inv /\ [TimedNext]_timedVars => Inv'
  BY TimedStep, SafeInvInductive, EstimateInductive
<1>3. Inv => EstimateWithinSamples
  <2> SUFFICES ASSUME EstimateInv, samples # {}
               PROVE  \E shortest, longest \in samples :
                        /\ shortest <= rtt.SRTT
                        /\ rtt.SRTT <= longest
                        /\ rtt.SRTT <= rtt.RTO
                        /\ rtt.RTO <= 5 * longest
    BY DEF EstimateWithinSamples
  <2>1. PICK low \in samples, high \in samples : Between(rtt, low, high)
    BY DEF EstimateInv
  <2>2. rtt.SRTT \in Nat /\ rtt.RTTVar \in Nat /\ high \in Nat
    BY TimeAssumption DEF EstimateInv, Statistics
  <2>3. low <= rtt.SRTT /\ rtt.SRTT <= high /\ rtt.SRTT <= rtt.RTO /\ rtt.RTO <= 5 * high
    BY <2>1, <2>2 DEF Between
  <2> QED
    BY <2>3
<1> QED
  BY <1>1, <1>2, <1>3, PTL DEF TimedSpec

-----------------------------------------------------------------------------
(***************************************************************************)
(* Karn's rule                                                             *)
(***************************************************************************)
\* A slot that is still in its first transmission was never sent again.
ResentInv == \A i \in Index : sendWindow[A][i].State = "Sent" => i \notin resent

\* A new ACK takes only its own packet out of the waiting ones: what it clears
\* was acknowledged before, or just now.
LEMMA NewACKSlots ==
  ASSUME SenderTypeOK, NEW seq \in SeqNum, NewACK(A, seq), NEW i \in Index
  PROVE  /\ sendWindow'[A][i].State = "Sent" => sendWindow[A][i].State = "Sent"
         /\ isWaiting(sendWindow[A][i]) /\ ~ isWaiting(sendWindow'[A][i])
              => i = getWindowIndex(seq)
<1> DEFINE marked == markedRing(A, seq)
<1>1. PICK b \in SeqNum :
        /\ slidTo(marked, sendBase[A], nextSeq[A], b)
        /\ sendWindow'[A] = cleared(marked, sendBase[A], b)
  BY AIsPeer, NewACKParts
<1>2. marked[i].State = IF i = getWindowIndex(seq) THEN "ACKed" ELSE sendWindow[A][i].State
  BY AIsPeer, MarkedRing
<1> HIDE DEF marked
<1>3. \/ sendWindow'[A][i] = marked[i]
      \/ sendWindow'[A][i].State = "Empty" /\ marked[i].State = "ACKed"
  <2>1. CASE \E t \in sendBase[A] .. (b - 1) : getWindowIndex(t) = i
    <3>1. marked[i].State = "ACKed"
      BY <1>1, <2>1 DEF slidTo
    <3>2. sendWindow'[A][i] = EmptySlot
      BY <1>1, <2>1 DEF cleared
    <3> QED
      BY <3>1, <3>2 DEF EmptySlot
  <2>2. CASE ~ \E t \in sendBase[A] .. (b - 1) : getWindowIndex(t) = i
    BY <1>1, <2>2 DEF cleared
  <2> QED
    BY <2>1, <2>2
<1>4. CASE i = getWindowIndex(seq)
  <2>1. sendWindow'[A][i].State \in {"ACKed", "Empty"}
    BY <1>2, <1>3, <1>4
  <2> QED
    BY <1>4, <2>1
<1>5. CASE i # getWindowIndex(seq)
  BY <1>2, <1>3, <1>5 DEF isWaiting
<1> QED
  BY <1>4, <1>5

LEMMA ResentAfterSend ==
  ASSUME SafeInv, ResentInv, TimedSend, NEW i \in Index,
         sendWindow'[A][i].State = "Sent"
  PROVE  i \notin resent'
<1> DEFINE j == getWindowIndex(nextSeq[A])
<1>1. sendWindow \in [Peers -> [Index -> WindowSlot]]
  BY DEF SafeInv, SenderTypeOK
<1>2. CASE sendWindow'[A] = sendWindow[A]
  <2>1. resent' = resent
    BY <1>2 DEF TimedSend
  <2> QED
    BY <1>2, <2>1 DEF ResentInv
<1>3. CASE sendWindow'[A] # sendWindow[A]
  <2>1. resent' = resent \ {j}
    BY <1>3 DEF TimedSend
  <2>2. PICK slot : sendWindow' = [sendWindow EXCEPT ![A][j] = slot]
    BY <1>3 DEF TimedSend, Send
  <2> HIDE DEF j
  <2>3. i # j => sendWindow'[A][i] = sendWindow[A][i]
    BY <1>1, <2>2, AIsPeer
  <2> QED
    BY <2>1, <2>3 DEF ResentInv
<1> QED
  BY <1>2, <1>3

LEMMA ResentAfterACK ==
  ASSUME SafeInv, ResentInv, NEW seq \in SeqNum, TimedACK(seq), NEW i \in Index,
         sendWindow'[A][i].State = "Sent"
  PROVE  i \notin resent'
<1>0. SenderTypeOK
  BY DEF SafeInv
<1>1. \/ resent' = resent
      \/ /\ resent' = resent \cup {getWindowIndex(seq)}
         /\ sendWindow'[A][getWindowIndex(seq)].State = "Retransmit"
  BY DEF TimedACK
<1>2. sendWindow[A][i].State = "Sent"
  <2>1. CASE IgnoredACK(A, seq)
    BY <2>1 DEF IgnoredACK, windowVars
  <2>2. CASE DuplicateACK(A, seq)
    <3>1. \/ sendWindow'[A][i] = sendWindow[A][i]
          \/ sendWindow[A][i].State = "Sent"
      BY <1>0, <2>2, AIsPeer, DuplicateACKSlots
    <3> QED
      BY <3>1
  <2>3. CASE NewACK(A, seq)
    BY <1>0, <2>3, NewACKSlots
  <2> QED
    BY <2>1, <2>2, <2>3 DEF TimedACK, ProcessACK
<1>3. i \notin resent
  BY <1>2 DEF ResentInv
<1> QED
  BY <1>1, <1>3

LEMMA ResentAfterTick ==
  ASSUME SafeInv, ResentInv, TimedTick, NEW i \in Index,
         sendWindow'[A][i].State = "Sent"
  PROVE  i \notin resent'
<1>1. PICK expired \in SUBSET overdue :
        /\ ProcessTimeouts(A, expired)
        /\ resent' = resent \cup
             {getWindowIndex(seq) : seq \in {s \in expired : ~ exhausted(A, s)}}
  BY DEF TimedTick
<1>2. sendWindow \in [Peers -> [Index -> WindowSlot]]
  BY DEF SafeInv, SenderTypeOK
<1> DEFINE hit == \E seq \in expired : getWindowIndex(seq) = i
           old == sendWindow[A][i]
<1>3. sendWindow'[A][i] = IF hit THEN timedOutSlot(old) ELSE old
  BY <1>1, <1>2, AIsPeer DEF ProcessTimeouts
<1>4. timedOutSlot(old).State # "Sent"
  BY <1>2, AIsPeer, TimedOutSlot
<1> HIDE DEF old
<1>5. ~ hit
  <2> HIDE DEF hit
  <2> QED
    BY <1>3, <1>4
<1>6. i \notin resent
  BY <1>3, <1>5 DEF ResentInv, old
<1> QED
  BY <1>1, <1>5, <1>6

LEMMA ResentInductive ==
  ASSUME SafeInv, ResentInv, [TimedNext]_timedVars
  PROVE  ResentInv'
<1> SUFFICES ASSUME NEW i \in Index, sendWindow'[A][i].State = "Sent"
             PROVE  i \notin resent'
  BY DEF ResentInv
<1>1. CASE TimedSend
  BY <1>1, ResentAfterSend
<1>2. ASSUME NEW seq \in SeqNum, TimedACK(seq) PROVE i \notin resent'
  BY <1>2, ResentAfterACK
<1>3. CASE TimedTick
  BY <1>3, ResentAfterTick
<1>4. CASE Advance \/ UNCHANGED timedVars
  <2>1. UNCHANGED <<sendWindow, resent>>
    BY <1>4 DEF Advance, timedVars, timeVars, vars, senderVars, windowVars
  <2> QED
    BY <2>1 DEF ResentInv
<1> QED
  BY <1>1, <1>2, <1>3, <1>4 DEF TimedNext

(***************************************************************************)
(* ProcessACK measures a packet only if it was sent exactly once, whether  *)
(* a timeout or fast retransmit would have sent it again: the State test   *)
(* beside RetryCount is what excludes fast retransmit, which does not      *)
(* count.                                                                  *)
(***************************************************************************)
THEOREM KarnRule == TimedSpec => OnlyFirstTransmissionsMeasured
<1> DEFINE Inv == SafeInv /\ ResentInv
           Unmeasured == \A i \in Index :
             isWaiting(sendWindow[A][i]) /\ ~ isWaiting(sendWindow'[A][i]) => i \notin resent
<1>1. TimedInit => Inv
  BY InitSafe DEF TimedInit, Init, ResentInv
<1>2. Inv /\ [TimedNext]_timedVars => Inv'
  BY TimedStep, SafeInvInductive, ResentInductive
<1>3. Inv /\ [TimedNext]_timedVars => [rtt' # rtt => Unmeasured]_timedVars
  <2> SUFFICES ASSUME SafeInv, ResentInv, [TimedNext]_timedVars, rtt' # rtt PROVE Unmeasured
    OBVIOUS
  <2>1. PICK seq \in SeqNum : TimedACK(seq)
    BY DEF TimedNext, TimedSend, TimedTick, Advance, timedVars, timeVars
  <2>2. /\ ~ (ackIsIgnored(A, seq) \/ seq = lastACKSeq[A])
        /\ Measure(slotOf(A, seq), age[getWindowIndex(seq)])
    BY <2>1 DEF TimedACK
  <2>3. sendWindow[A][getWindowIndex(seq)].State = "Sent"
    BY <2>2 DEF Measure, isFirstTransmission, slotOf
  <2>4. NewACK(A, seq)
    BY <2>1, <2>2 DEF TimedACK, ProcessACK, IgnoredACK, DuplicateACK
  <2>5. ASSUME NEW i \in Index,
               isWaiting(sendWindow[A][i]), ~ isWaiting(sendWindow'[A][i])
        PROVE  i \notin resent
    <3>1. i = getWindowIndex(seq)
      BY <2>4, <2>5, NewACKSlots DEF SafeInv
    <3> QED
      BY <2>3, <3>1 DEF ResentInv
  <2> QED
    BY <2>5
<1> QED
  BY <1>1, <1>2, <1>3, PTL DEF TimedSpec, OnlyFirstTransmissionsMeasured
=============================================================================
