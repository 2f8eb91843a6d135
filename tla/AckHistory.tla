----------------------------- MODULE AckHistory -----------------------------
(***************************************************************************)
(* One sending half with the history needed to compare its congestion      *)
(* control with what the comments of reliable.go say of it: how often an   *)
(* ACK was repeated, and how many ACKs congestion avoidance has taken.     *)
(* The peer and the network are as arbitrary as in SenderAlone.            *)
(***************************************************************************)
EXTENDS SenderAlone

VARIABLES
  repeats,    \* ACKs that came in a row, with nothing between them, for the
              \* number that was acknowledged last
  avoided     \* ACKs taken in congestion avoidance since cwnd last changed

historyVars == <<vars, repeats, avoided>>

HistoryInit == Init /\ repeats = 0 /\ avoided = 0

HistorySend == Send(A) /\ repeats' = 0 /\ UNCHANGED avoided

\* acked and lastACKSeq are updated together, so that lastACKSeq is a number
\* that was acknowledged if acked is not empty.
isRepeat(seq) == acked[A] # {} /\ seq = lastACKSeq[A]

HistoryACK(seq) ==
  /\ ProcessACK(A, seq)
  /\ IF isRepeat(seq)
     THEN repeats < FastRetransmitThreshold /\ repeats' = repeats + 1
     ELSE repeats' = 0
  /\ avoided' = CASE inSlowStart[A] \/ cwnd'[A] # cwnd[A] -> 0
                  [] acked'[A] # acked[A]                 -> avoided + 1
                  [] OTHER                                -> avoided

HistoryTick == Tick /\ repeats' = 0 /\ avoided' = 0

HistoryNext ==
  \/ HistorySend
  \/ \E seq \in SeqNum : HistoryACK(seq)
  \/ HistoryTick

HistorySpec == HistoryInit /\ [][HistoryNext]_historyVars

-----------------------------------------------------------------------------
(***************************************************************************)
(* What the comments say                                                   *)
(***************************************************************************)
\* "Fast Retransmit": when the last ACK was repeated FastRetransmitThreshold
\* times while packets wait for theirs, one of those was sent again at once.
RepeatedACKsRetransmit ==
  repeats = FastRetransmitThreshold /\ waiting(A) # {} =>
    \E seq \in waiting(A) : slotOf(A, seq).State = "Retransmit"

\* "Congestion Avoidance: linear growth": a congestion window below its
\* maximum grows with every window's worth of ACKs.
AvoidanceGrowsLinearly ==
  ~ inSlowStart[A] /\ cwnd[A] < MaxCwnd => avoided <= cwnd[A]

\* Congestion control reacts to ACKs as ProcessACK's comments say: where both
\* a retransmission and growth are due, at least one of them has happened.  A
\* state that violates this refutes both comments.
CongestionControlReacts == RepeatedACKsRetransmit \/ AvoidanceGrowsLinearly
=============================================================================
