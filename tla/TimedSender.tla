----------------------------- MODULE TimedSender -----------------------------
(***************************************************************************)
(* The sending half of a ReliableContext with its clock: the round-trip    *)
(* statistics that ProcessACK updates, the retransmission timeout they     *)
(* give, and the time since each packet was sent.  SenderAlone lets        *)
(* ProcessTimeouts find any packets overdue; here it finds exactly those   *)
(* that waited longer than the RTO.  The peer and the network stay         *)
(* arbitrary: ProcessACK may be called with any number at any time.        *)
(***************************************************************************)
EXTENDS SenderAlone

CONSTANTS
  InitialRTT,    \* 100 ms in the code
  MilliMod,      \* 2^32: times are uint32 milliseconds
  MaxRTT,        \* bound: the longest round trip that is measured
  MaxAge         \* bound: the age at which a packet stops growing older

(***************************************************************************)
(* Sums of eight round trips do not overflow uint32.  MaxAge stands for    *)
(* every age that is no longer a uint32.                                   *)
(***************************************************************************)
ASSUME TimeAssumption ==
  /\ InitialRTT \in Nat
  /\ MilliMod \in Nat
  /\ MaxRTT \in Nat
  /\ MaxAge \in Nat
  /\ 8 * MaxRTT < MilliMod
  /\ 3 * InitialRTT < MilliMod
  /\ MaxRTT < MaxAge

VARIABLES
  rtt,           \* RTTStats: SRTT, RTTVar and RTO
  samples,       \* the round trips measured; SamplesCount = 0 iff it is {}
  age,           \* time since SentAt of each slot in use, in ms
  resent         \* history: the slots whose packet was sent more than once

timeVars  == <<rtt, samples, age, resent>>
timedVars == <<vars, timeVars>>

Milli(n) == n % MilliMod

\* NewReliableContext: the estimate before any packet was acknowledged.
TimedInit ==
  /\ Init
  /\ rtt = [SRTT   |-> InitialRTT,
            RTTVar |-> InitialRTT \div 2,
            RTO    |-> Milli(InitialRTT + 4 * (InitialRTT \div 2))]
  /\ samples = {}
  /\ age = [i \in Index |-> 0]
  /\ resent = {}

-----------------------------------------------------------------------------
\* SentAt is set when the slot is filled.
TimedSend ==
  /\ Send(A)
  /\ LET i == getWindowIndex(nextSeq[A])
         stored == sendWindow'[A] # sendWindow[A]
     IN  /\ age' = [age EXCEPT ![i] = IF stored THEN 0 ELSE @]
         /\ resent' = IF stored THEN resent \ {i} ELSE resent
  /\ UNCHANGED <<rtt, samples>>

-----------------------------------------------------------------------------
delta(sample) ==
  IF sample > rtt.SRTT THEN sample - rtt.SRTT ELSE rtt.SRTT - sample

\* A mutant: each term is divided, and rounded, on its own.
smoothedTermwise(sample) == (7 * rtt.SRTT) \div 8 + sample \div 8

smoothed(sample) == Milli(7 * rtt.SRTT + sample) \div 8

\* updateRTT: the first sample replaces the estimate, later ones move it.
updateRTT(sample) ==
  LET srtt   == IF samples = {} THEN sample ELSE smoothed(sample)
      rttvar == IF samples = {} THEN sample \div 2
                ELSE Milli(3 * rtt.RTTVar + delta(sample)) \div 4
  IN  /\ rtt' = [SRTT |-> srtt, RTTVar |-> rttvar, RTO |-> Milli(srtt + 4 * rttvar)]
      /\ samples' = samples \cup {sample}

\* A mutant: a packet that fast retransmit sent again is measured too.
isFirstTransmissionByCount(slot) == slot.RetryCount = 0

\* Only packets that were sent once are measured.
isFirstTransmission(slot) == slot.RetryCount = 0 /\ slot.State = "Sent"

\* SafeInt64ToUint32 accepts the time that has passed.
isUint32(elapsed) == elapsed < MaxAge

\* The measured time must be a uint32, or there is no sample.
Measure(slot, elapsed) ==
  IF isFirstTransmission(slot) /\ isUint32(elapsed)
  THEN elapsed <= MaxRTT /\ updateRTT(elapsed)
  ELSE UNCHANGED <<rtt, samples>>

\* Fast retransmit sends the packet again and leaves SentAt alone.
TimedACK(seq) ==
  LET i == getWindowIndex(seq)
  IN  /\ ProcessACK(A, seq)
      /\ IF ackIsIgnored(A, seq) \/ seq = lastACKSeq[A]
         THEN UNCHANGED <<rtt, samples, age>>
         ELSE /\ Measure(slotOf(A, seq), age[i])
              /\ age' = [j \in Index |->
                   IF sendWindow'[A][j] = EmptySlot THEN 0 ELSE age[j]]
      /\ resent' = IF sendWindow'[A][i].State = "Retransmit"
                   THEN resent \cup {i}
                   ELSE resent

-----------------------------------------------------------------------------
\* The packets that waited longer than the RTO, or so long that the time is
\* no uint32.
overdue ==
  {seq \in waiting(A) :
     LET elapsed == age[getWindowIndex(seq)]
     IN  elapsed > rtt.RTO \/ ~ isUint32(elapsed)}

\* ProcessTimeouts gets to every overdue packet, or to those up to the first
\* one whose write fails.  SentAt is set before the write.
TimedTick ==
  \E expired \in SUBSET overdue :
    LET again == {seq \in expired : ~ exhausted(A, seq)}
    IN  /\ ProcessTimeouts(A, expired)
        /\ \/ expired = overdue
           \/ \E last \in again :
                /\ expired = {seq \in overdue : seq <= last}
                /\ Write({slotOf(A, seq).Serialized : seq \in again \ {last}})
        /\ age' = [i \in Index |->
             IF \E seq \in expired : getWindowIndex(seq) = i THEN 0 ELSE age[i]]
        /\ resent' = resent \cup {getWindowIndex(seq) : seq \in again}
        /\ UNCHANGED <<rtt, samples>>

growsOlder(i) == sendWindow[A][i].State # "Empty" /\ age[i] < MaxAge

\* A millisecond passes.
Advance ==
  /\ \E i \in Index : growsOlder(i)
  /\ age' = [i \in Index |-> IF growsOlder(i) THEN age[i] + 1 ELSE age[i]]
  /\ UNCHANGED <<vars, rtt, samples, resent>>

TimedNext ==
  \/ TimedSend
  \/ \E seq \in SeqNum : TimedACK(seq)
  \/ TimedTick
  \/ Advance

\* Time passes, and the ticker of the application calls ProcessTimeouts
\* again and again.
TimedSpec ==
  /\ TimedInit
  /\ [][TimedNext]_timedVars
  /\ WF_timedVars(Advance)
  /\ WF_timedVars(TimedTick)

-----------------------------------------------------------------------------
(***************************************************************************)
(* Properties                                                              *)
(***************************************************************************)
\* The integer arithmetic of updateRTT keeps the estimate between the
\* shortest and the longest round trip measured, whatever is lost to
\* rounding, and the RTO between the shortest and five times the longest: it
\* is 0, with every packet overdue after a millisecond, only when some round
\* trip took less than a millisecond.
EstimateWithinSamples ==
  samples # {} =>
    \E shortest, longest \in samples :
      /\ shortest <= rtt.SRTT
      /\ rtt.SRTT <= longest
      /\ rtt.SRTT <= rtt.RTO
      /\ rtt.RTO <= 5 * longest

isWaiting(slot) == slot.State \in {"Sent", "Retransmit"}

\* Karn's rule: the estimate never moves for a packet that was sent more than
\* once, by a timeout or by fast retransmit, since its ACK may be for either
\* transmission.
OnlyFirstTransmissionsMeasured ==
  [][rtt' # rtt =>
       \A i \in Index : isWaiting(sendWindow[A][i]) /\ ~ isWaiting(sendWindow'[A][i])
                          => i \notin resent]_timedVars

\* A full window opens again, unless the packet at its base was given up or
\* never stored: these are the only packets that can close it for good.
WindowReopensUnlessAbandoned ==
  []<>(windowHasRoom(A) \/ slotOf(A, sendBase[A]).State = "Empty")
=============================================================================
