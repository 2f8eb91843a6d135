---------------------------- MODULE ReliableLink ----------------------------
(***************************************************************************)
(* Two ReliableContexts, one at each end of a datagram link, with the      *)
(* goroutines an application runs on them: any number of senders (Send),   *)
(* of readers (Recv, and ProcessACK on what Recv returned with OpACK) and  *)
(* a ticker (ProcessTimeouts).  The library has no such driver yet, so     *)
(* this one is the only use the API allows: both data and ACKs arrive on   *)
(* ctx.conn, and Recv is the only method that hands them out.              *)
(*                                                                         *)
(* Between Recv and ProcessACK the reader holds no lock: the ACKs it holds *)
(* are in ackInbox, and other goroutines may run.                          *)
(***************************************************************************)
EXTENDS ReliableSender, ReliableReceiver

CONSTANTS
  Senders,    \* the peers that send data: one way or both ways
  Faulty      \* whether the network loses and duplicates datagrams

ASSUME LinkAssumption == Senders \subseteq Peers /\ Faulty \in BOOLEAN

VARIABLES
  ackInbox,     \* ACKs returned by Recv and not yet given to ProcessACK
  delivered     \* history: how often Recv returned each message, by peer

linkVars == <<ackInbox, delivered>>
vars     == <<wire, senderVars, receiverVars, linkVars>>

Init ==
  /\ wire = {}
  /\ SenderInit
  /\ ReceiverInit
  /\ ackInbox  = [p \in Peers |-> {}]
  /\ delivered = [p \in Peers |-> [d \in Payload |-> 0]]

\* An application goroutine calls Send.
AppSend(p) == Send(p) /\ UNCHANGED <<receiverVars, linkVars>>

\* A reader calls Recv and gets a message, an ACK, or an error.
RecvData(p, m, duplicated) ==
  /\ m.kind = "data"
  /\ RecvAccepts(p, m, duplicated)
  /\ delivered' = [delivered EXCEPT ![p][m.data] = @ + 1]
  /\ UNCHANGED <<senderVars, ackInbox>>

RecvACK(p, m, duplicated) ==
  /\ m.kind = "ack"
  /\ RecvAccepts(p, m, duplicated)
  /\ ackInbox' = [ackInbox EXCEPT ![p] = @ \cup {m.seq}]
  /\ UNCHANGED <<senderVars, delivered>>

RecvError(p, m, duplicated) ==
  /\ RecvRejects(p, m, duplicated)
  /\ UNCHANGED <<senderVars, linkVars>>

\* One call of Recv.
Receive ==
  \E m \in wire, duplicated \in {FALSE, Faulty} :
    \/ RecvData(m.to, m, duplicated)
    \/ RecvACK(m.to, m, duplicated)
    \/ RecvError(m.to, m, duplicated)

\* The reader passes the sequence number of an ACK to ProcessACK.
HandleACK(p, seq) ==
  /\ ProcessACK(p, seq)
  /\ ackInbox' = [ackInbox EXCEPT ![p] = @ \ {seq}]
  /\ UNCHANGED <<receiverVars, delivered>>

\* The ticker calls ProcessTimeouts.
Tick(p) ==
  /\ \E expired \in SUBSET waiting(p) : ProcessTimeouts(p, expired)
  /\ UNCHANGED <<receiverVars, linkVars>>

\* The network loses a datagram.
Lose(m) ==
  /\ Faulty
  /\ wire' = wire \ {m}
  /\ UNCHANGED <<senderVars, receiverVars, linkVars>>

Next ==
  \/ \E p \in Senders : AppSend(p)
  \/ \E p \in Peers : Tick(p)
  \/ \E p \in Peers : \E seq \in ackInbox[p] : HandleACK(p, seq)
  \/ \E m \in wire : Lose(m)
  \/ Receive

Spec == Init /\ [][Next]_vars

\* The readers keep calling Recv and pass on every ACK, and the tickers keep
\* calling ProcessTimeouts.
FairSpec ==
  /\ Spec
  /\ WF_vars(Receive)
  /\ \A p \in Peers : WF_vars(Tick(p))
  /\ \A p \in Peers : WF_vars(\E seq \in ackInbox[p] : HandleACK(p, seq))

-----------------------------------------------------------------------------
(***************************************************************************)
(* Properties                                                              *)
(***************************************************************************)
AckPackets == [kind : {"ack"}, to : Peers, seq : SeqNum]

\* Type invariant of the two contexts, the wire and the histories.
TypeOK ==
  /\ wire \subseteq DataPackets \cup AckPackets
  /\ SenderTypeOK
  /\ recvBase \in [Peers -> SeqNum]
  /\ recvWindow \in [Peers -> [Index -> BOOLEAN]]
  /\ ackInbox \in [Peers -> SUBSET SeqNum]
  /\ delivered \in [Peers -> [Payload -> Nat]]

\* Recv hands a message to the application at most once, however often it
\* is retransmitted or duplicated and in whatever order copies arrive: the
\* duplicate handling Recv's comment promises.
DeliveredAtMostOnce ==
  \A p \in Peers, d \in Payload : delivered[p][d] <= 1

\* A message ProcessACK marked acknowledged was returned by the peer's Recv,
\* although Recv also acknowledges packets that it rejects.
AckedIsDelivered ==
  \A p \in Peers : \A d \in acked[p] : delivered[Other(p)][d] >= 1

\* Recv rejects a data packet as seen or as outside the window only if its
\* message was delivered: nothing is thrown away that was never received.
RejectedIsDelivered ==
  \A m \in wire :
    m.kind = "data" /\ ~ isNew(m.to, m.seq) => delivered[m.to][m.data] >= 1

\* Recv rejects a data packet only if its sequence number is used up, by that
\* message or by the one of the other direction, whose ACK went through the
\* same receive window: neither losses nor repetition nor reordering make
\* Recv throw away another packet.
RejectedNumberIsUsed ==
  \A m \in wire :
    m.kind = "data" /\ ~ isNew(m.to, m.seq) =>
      \E p \in Peers : delivered[p][m.data] >= 1

\* ProcessACK, called with the ACK of a packet that waits for it, marks that
\* packet acknowledged, however often it was retransmitted.  The exception is
\* the first packet before any other ACK: lastACKSeq is still 0, and its ACK
\* passes for a duplicate.
AckMarksPacket ==
  [][\A p \in Peers : \A seq \in ackInbox[p] \ ackInbox'[p] :
       seq \in waiting(p) =>
         \/ slotOf(p, seq).Serialized.data \in acked'[p]
         \/ seq = 0 /\ acked[p] = {}]_vars

\* After the last message, the traffic dies down: the wire empties again and
\* again.
TrafficDiesDown == []<>(wire = {})

-----------------------------------------------------------------------------
(***************************************************************************)
(* The promise to the application                                          *)
(***************************************************************************)
Channel == INSTANCE MessageChannel WITH
  Ends      <- Peers,
  Limit     <- MaxSends,
  sent      <- sends,
  got       <- [p \in Peers |-> delivered[Other(p)]],
  confirmed <- acked

\* Each step of the two contexts, the network and the applications is a step
\* of the message channel or does not change it: Recv never returns a
\* message twice nor one that was not sent, and ProcessACK never confirms
\* one that the other end's Recv has not returned.
ImplementsChannel == Channel!Spec
=============================================================================
