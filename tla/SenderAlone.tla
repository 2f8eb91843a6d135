----------------------------- MODULE SenderAlone -----------------------------
(***************************************************************************)
(* One sending half of a ReliableContext in an environment that may call   *)
(* ProcessACK with any sequence number at any time: the peer, the network  *)
(* and the application's dispatching of ACKs are arbitrary.  What holds    *)
(* here holds for every driver of the API.                                 *)
(***************************************************************************)
EXTENDS ReliableSender

vars == <<wire, senderVars>>

Init == wire = {} /\ SenderInit

Tick == \E expired \in SUBSET waiting(A) : ProcessTimeouts(A, expired)

Next ==
  \/ Send(A)
  \/ \E seq \in SeqNum : ProcessACK(A, seq)
  \/ Tick

Spec == Init /\ [][Next]_vars

-----------------------------------------------------------------------------
\* Every packet is eventually acknowledged or given up: retransmission stops
\* after MaxRetries whatever the peer does.
EventuallyResolved == []<>(waiting(A) = {})

\* Slow start, which grows the window with every ACK, never runs on at or
\* above the threshold that the last timeout left, however many packets that
\* call retransmitted; only a window that was just reset may start there.
SlowStartStopsAtThreshold ==
  inSlowStart[A] => cwnd[A] < ssthresh[A] \/ cwnd[A] = InitialCwnd

\* An acknowledged slot changes in one way only: it is cleared by the slide
\* that moves sendBase past its packet.
AckedSlotsOnlyCleared ==
  [][\A i \in Index :
       sendWindow[A][i].State = "ACKed" /\ sendWindow'[A][i] # sendWindow[A][i] =>
         /\ sendWindow'[A][i] = EmptySlot
         /\ sendBase'[A] > sendWindow[A][i].Serialized.seq]_vars
=============================================================================
