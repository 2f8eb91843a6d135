--------------------------- MODULE ReliableSender ---------------------------
(***************************************************************************)
(* The sending half of ReliableContext (transport/reliable.go): the ring   *)
(* of sent packets, its congestion window, Send, ProcessACK and            *)
(* ProcessTimeouts.  Every method runs under ctx.mu from its first line to *)
(* its last, so each is one action.  All state is a function of the peer   *)
(* that owns the context; ReliableLink composes two contexts.              *)
(*                                                                         *)
(* The clock is abstracted: ProcessTimeouts is told which of the packets   *)
(* it scans are older than the RTO.                                        *)
(***************************************************************************)
EXTENDS SeqWindow, Datagrams

CONSTANTS
  InitialCwnd,              \* 4 in the code
  MaxCwnd,                  \* 32
  MaxRetries,               \* 5
  FastRetransmitThreshold,  \* 3
  MaxSends,                 \* bound: sequence numbers a peer may consume
  NoPacket                  \* the Serialized field of an empty slot

ASSUME SenderAssumption ==
  /\ InitialCwnd \in Nat
  /\ MaxCwnd \in Nat
  /\ MaxRetries \in Nat
  /\ FastRetransmitThreshold \in Nat
  /\ MaxSends \in Nat
  /\ 2 <= InitialCwnd
  /\ InitialCwnd <= MaxCwnd
  /\ MaxCwnd <= WindowSize

VARIABLES
  sendWindow,    \* ring of slots
  sendBase,      \* oldest sequence number still in the window
  nextSeq,       \* sequence number the next Send takes
  cwnd, ssthresh, inSlowStart,
  dupACKCount, lastACKSeq,
  \* History: the sequence numbers ever taken (nextSeq without the wrap-
  \* around) and the messages the peer regards as acknowledged.
  sends, acked

congestionVars == <<cwnd, ssthresh, inSlowStart>>
windowVars     == <<sendWindow, sendBase, nextSeq>>
ackVars        == <<dupACKCount, lastACKSeq, acked>>
senderVars     == <<windowVars, congestionVars, ackVars, sends>>

PacketState == {"Empty", "Sent", "ACKed", "Retransmit"}
Payload     == 0 .. (MaxSends - 1)
DataPackets == [kind : {"data"}, to : Peers, seq : SeqNum, data : Payload]
WindowSlot  == [State : PacketState, RetryCount : 0 .. MaxRetries,
                Serialized : DataPackets \cup {NoPacket}]

\* WindowSlot{}, the zero value of the Go struct.
EmptySlot == [State |-> "Empty", RetryCount |-> 0, Serialized |-> NoPacket]

\* NewReliableContext, sending half.
SenderInit ==
  /\ sendWindow  = [p \in Peers |-> [i \in Index |-> EmptySlot]]
  /\ sendBase    = [p \in Peers |-> 0]
  /\ nextSeq     = [p \in Peers |-> 0]
  /\ cwnd        = [p \in Peers |-> InitialCwnd]
  /\ ssthresh    = [p \in Peers |-> MaxCwnd]
  /\ inSlowStart = [p \in Peers |-> TRUE]
  /\ dupACKCount = [p \in Peers |-> 0]
  /\ lastACKSeq  = [p \in Peers |-> 0]
  /\ sends       = [p \in Peers |-> 0]
  /\ acked       = [p \in Peers |-> {}]

slotOf(p, seq) == sendWindow[p][getWindowIndex(seq)]

InFlight(p) == Sub(nextSeq[p], sendBase[p])

-----------------------------------------------------------------------------
(***************************************************************************)
(* Send                                                                    *)
(***************************************************************************)
\* A mutant: the room test compares with the whole window, "<=" for "<".
windowHasRoomOffByOne(p) == InFlight(p) <= WindowSize

\* The number of slots Send allows itself: the free slots of the window,
\* replaced by the congestion window when there are none or more than that.
availableSlots(p) ==
  LET free == Sub(WindowSize, InFlight(p))
      room == IF free > WindowSize THEN WindowSize ELSE free
  IN  IF room = 0 \/ room > cwnd[p] THEN cwnd[p] ELSE room

windowHasRoom(p) == InFlight(p) < availableSlots(p)

\* Send takes the next sequence number.  A payload that does not fit a
\* packet makes Serialize fail after the number was taken and before the
\* slot is written; otherwise the packet is stored in its slot and written
\* to the socket (a failing write returns the error and keeps the slot).
Send(p) ==
  /\ sends[p] < MaxSends
  /\ windowHasRoom(p)
  /\ nextSeq' = [nextSeq EXCEPT ![p] = Add(@, 1)]
  /\ sends' = [sends EXCEPT ![p] = @ + 1]
  /\ \/ UNCHANGED <<sendWindow, wire>>                    \* Serialize fails
     \/ LET packet == DataPacket(Other(p), nextSeq[p], sends[p])
            slot   == [State |-> "Sent", RetryCount |-> 0, Serialized |-> packet]
        IN  /\ sendWindow' =
                 [sendWindow EXCEPT ![p][getWindowIndex(nextSeq[p])] = slot]
            /\ \/ Write({packet})
               \/ UNCHANGED wire                          \* WriteToUDP fails
  /\ UNCHANGED <<sendBase, congestionVars, ackVars>>

-----------------------------------------------------------------------------
(***************************************************************************)
(* ProcessACK                                                              *)
(***************************************************************************)
\* updateCongestionWindow: the new window, and whether slow start goes on.
grownCwnd(c, slow) ==
  LET grown == IF slow THEN c + 1 ELSE c + (1 \div c)
  IN  IF grown > MaxCwnd THEN MaxCwnd ELSE grown

\* A mutant: the threshold is compared with the window before it grew.
slowStartContinuesLate(c, threshold) == c < threshold

slowStartContinues(c, threshold) == c + 1 < threshold

updateCongestionWindow(p) ==
  /\ cwnd' = [cwnd EXCEPT ![p] = grownCwnd(@, inSlowStart[p])]
  /\ inSlowStart' =
       [inSlowStart EXCEPT ![p] = @ /\ slowStartContinues(cwnd[p], ssthresh[p])]
  /\ UNCHANGED ssthresh

\* A mutant: the base advances by one slot at most, "if" for "for".
slidToNext(window, base, next, b) ==
  IF base < next /\ window[getWindowIndex(base)].State = "ACKed"
  THEN b = base + 1
  ELSE b = base

\* The loop that moves sendBase over acknowledged slots ends at b.  It
\* compares sendBase < nextSeq as plain numbers.
slidTo(window, base, next, b) ==
  /\ b = base \/ (base < b /\ b <= next)
  /\ \A t \in base .. (b - 1) : window[getWindowIndex(t)].State = "ACKed"
  /\ b < next => window[getWindowIndex(b)].State # "ACKed"

\* A mutant: the slots are not cleared.
clearedNot(window, base, b) == window

\* The slots of the sequence numbers from base up to b are cleared.
cleared(window, base, b) ==
  [i \in Index |-> IF \E t \in base .. (b - 1) : getWindowIndex(t) = i
                   THEN EmptySlot
                   ELSE window[i]]

\* A mutant: the ACK of a retransmitted packet is ignored.
ackIsIgnoredIfRetransmitted(p, seq) ==
  \/ ~ isInWindow(sendBase[p], seq)
  \/ slotOf(p, seq).State # "Sent"

ackIsIgnored(p, seq) ==
  \/ ~ isInWindow(sendBase[p], seq)
  \/ slotOf(p, seq).State \in {"Empty", "ACKed"}

IgnoredACK(p, seq) ==
  /\ ackIsIgnored(p, seq)
  /\ UNCHANGED <<windowVars, congestionVars, dupACKCount, lastACKSeq, acked, wire>>

\* An ACK for lastACKSeq is counted as a duplicate; the third one
\* retransmits the packet, if it is still in its first transmission.
DuplicateACK(p, seq) ==
  /\ ~ ackIsIgnored(p, seq)
  /\ seq = lastACKSeq[p]
  /\ dupACKCount' = [dupACKCount EXCEPT ![p] = Add(@, 1)]
  /\ IF dupACKCount'[p] = FastRetransmitThreshold /\ slotOf(p, seq).State = "Sent"
     THEN /\ sendWindow' =
               [sendWindow EXCEPT ![p][getWindowIndex(seq)].State = "Retransmit"]
          /\ Write({slotOf(p, seq).Serialized})
     ELSE UNCHANGED <<sendWindow, wire>>
  /\ UNCHANGED <<sendBase, nextSeq, congestionVars, lastACKSeq, acked>>

NewACK(p, seq) ==
  /\ ~ ackIsIgnored(p, seq)
  /\ seq # lastACKSeq[p]
  /\ dupACKCount' = [dupACKCount EXCEPT ![p] = 0]
  /\ lastACKSeq' = [lastACKSeq EXCEPT ![p] = seq]
  /\ acked' = [acked EXCEPT ![p] = @ \cup {slotOf(p, seq).Serialized.data}]
  /\ updateCongestionWindow(p)
  /\ LET marked == [sendWindow[p] EXCEPT ![getWindowIndex(seq)].State = "ACKed"]
     IN  \E b \in SeqNum :
           /\ slidTo(marked, sendBase[p], nextSeq[p], b)
           /\ sendBase' = [sendBase EXCEPT ![p] = b]
           /\ sendWindow' =
                [sendWindow EXCEPT ![p] = cleared(marked, sendBase[p], b)]
  /\ UNCHANGED <<nextSeq, wire>>

ProcessACK(p, seq) ==
  /\ IgnoredACK(p, seq) \/ DuplicateACK(p, seq) \/ NewACK(p, seq)
  /\ UNCHANGED sends

-----------------------------------------------------------------------------
(***************************************************************************)
(* ProcessTimeouts                                                         *)
(***************************************************************************)
\* A mutant: the scan does not skip acknowledged slots.
waitingOrAcked(p) ==
  {seq \in sendBase[p] .. (nextSeq[p] - 1) :
     /\ seq < sendBase[p] + WindowSize
     /\ slotOf(p, seq).State # "Empty"}

\* The sequence numbers whose slots wait for an acknowledgement and are
\* reached by the scan, which stops at the first seq >= nextSeq.
waiting(p) ==
  {seq \in sendBase[p] .. (nextSeq[p] - 1) :
     /\ seq < sendBase[p] + WindowSize
     /\ slotOf(p, seq).State \notin {"Empty", "ACKed"}}

exhausted(p, seq) == slotOf(p, seq).RetryCount >= MaxRetries

\* A mutant: ssthresh has no floor.
halvedToZero(c) == c \div 2

halved(c) == IF c \div 2 < 2 THEN 2 ELSE c \div 2

\* A mutant: a retransmission is not counted.
timedOutSlotUncounted(slot) ==
  IF slot.RetryCount >= MaxRetries
  THEN [slot EXCEPT !.State = "Empty"]
  ELSE [slot EXCEPT !.State = "Retransmit"]

\* The slot after its timeout: given up, or marked for retransmission.
timedOutSlot(slot) ==
  IF slot.RetryCount >= MaxRetries
  THEN [slot EXCEPT !.State = "Empty"]
  ELSE [slot EXCEPT !.State = "Retransmit", !.RetryCount = @ + 1]

\* Each retransmission halves the congestion window into ssthresh and
\* restarts slow start; the second one of a call halves InitialCwnd.
backOff(p, retransmitted) ==
  IF retransmitted = {}
  THEN UNCHANGED congestionVars
  ELSE /\ ssthresh' = [ssthresh EXCEPT ![p] =
            IF \E s, t \in retransmitted : s # t
            THEN halved(InitialCwnd)
            ELSE halved(cwnd[p])]
       /\ cwnd' = [cwnd EXCEPT ![p] = InitialCwnd]
       /\ inSlowStart' = [inSlowStart EXCEPT ![p] = TRUE]

\* expired is the set of waiting packets older than the RTO that this call
\* gets to.  A failing write returns at once: the packet it was for is the
\* last one the call gets to, and is not on the wire.
ProcessTimeouts(p, expired) ==
  LET retransmitted == {seq \in expired : ~ exhausted(p, seq)}
      Packets(seqs) == {slotOf(p, seq).Serialized : seq \in seqs}
  IN  /\ expired # {}
      /\ expired \subseteq waiting(p)
      /\ sendWindow' = [sendWindow EXCEPT ![p] =
           [i \in Index |-> IF \E seq \in expired : getWindowIndex(seq) = i
                            THEN timedOutSlot(@[i])
                            ELSE @[i]]]
      /\ backOff(p, retransmitted)
      /\ \/ Write(Packets(retransmitted))
         \/ \E last \in retransmitted :                      \* WriteToUDP fails
              /\ \A seq \in expired : seq <= last
              /\ Write(Packets(retransmitted \ {last}))
      /\ UNCHANGED <<sendBase, nextSeq, ackVars, sends>>

-----------------------------------------------------------------------------
(***************************************************************************)
(* Invariants of the sending half                                          *)
(***************************************************************************)
SenderTypeOK ==
  /\ sendWindow \in [Peers -> [Index -> WindowSlot]]
  /\ sendBase \in [Peers -> SeqNum]
  /\ nextSeq \in [Peers -> SeqNum]
  /\ cwnd \in [Peers -> InitialCwnd .. MaxCwnd]
  /\ ssthresh \in [Peers -> 2 .. MaxCwnd]
  /\ inSlowStart \in [Peers -> BOOLEAN]
  /\ dupACKCount \in [Peers -> SeqNum]
  /\ lastACKSeq \in [Peers -> SeqNum]
  /\ sends \in [Peers -> 0 .. MaxSends]
  /\ acked \in [Peers -> SUBSET Payload]

\* Send never lets more than half of the ring (rounded up) be outstanding,
\* so no slot is written over while its packet waits for its ACK.
HalfWindowInFlight == \A p \in Peers : 2 * InFlight(p) <= WindowSize + 1

\* After every call the window starts at a packet that is not acknowledged:
\* the slide loop of ProcessACK never stops early.
BaseIsUnacked ==
  \A p \in Peers : InFlight(p) > 0 => slotOf(p, sendBase[p]).State # "ACKed"

\* What a live slot retransmits is the packet that Send gave its sequence
\* number to, and that number is still in the window.
SlotsHoldTheirPackets ==
  \A p \in Peers, i \in Index :
    LET slot == sendWindow[p][i]
    IN  slot.State # "Empty" =>
          /\ slot.Serialized \in DataPackets
          /\ slot.Serialized.to = Other(p)
          /\ getWindowIndex(slot.Serialized.seq) = i
          /\ Sub(slot.Serialized.seq, sendBase[p]) < InFlight(p)
          /\ slot.Serialized.seq = slot.Serialized.data % UintMod
=============================================================================
