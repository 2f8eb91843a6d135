-------------------------- MODULE ReliableReceiver --------------------------
(***************************************************************************)
(* The receiving half of ReliableContext (transport/reliable.go): Recv and *)
(* sendACK.  The part of Recv after UDPRecv runs under ctx.mu, so handling *)
(* one packet is one action; the time a packet spends between UDPRecv and  *)
(* the lock is time it spends on the wire.                                 *)
(*                                                                         *)
(* The early returns of Recv that precede the lock (a datagram that does   *)
(* not decode, one from another address, one without FlagReliable) leave   *)
(* the context alone: to the context they are lost datagrams.              *)
(*                                                                         *)
(* A packet that passes the window and the bitmap is returned to the       *)
(* caller.  Recv does not look at the opcode: an ACK is a packet like any  *)
(* other, occupies the receive window and is answered by an ACK.           *)
(***************************************************************************)
EXTENDS SeqWindow, Datagrams

VARIABLES
  recvBase,     \* lowest sequence number not yet received
  recvWindow    \* bitmap of received sequence numbers, a ring

receiverVars == <<recvBase, recvWindow>>

\* NewReliableContext, receiving half.
ReceiverInit ==
  /\ recvBase   = [p \in Peers |-> 0]
  /\ recvWindow = [p \in Peers |-> [i \in Index |-> FALSE]]

\* A mutant: the bitmap is not consulted, a repeated packet is accepted.
isNewNoBitmap(p, seq) == isInWindow(recvBase[p], seq)

\* Recv accepts the sequence number: in the window and not seen before.
isNew(p, seq) ==
  /\ isInWindow(recvBase[p], seq)
  /\ ~ recvWindow[p][getWindowIndex(seq)]

\* A mutant: the loop tests the bit it just left, and goes one too far.
slideByOneMore(window, base, n) ==
  /\ n > 0
  /\ \A j \in 0 .. (n - 2) : window[getWindowIndex(Add(base, j))]
  /\ n < WindowSize => ~ window[getWindowIndex(Add(base, n - 1))]

\* The loop that moves recvBase over received packets moves it by n: every
\* bit it passes is set, and it stops at a clear bit (after a whole ring,
\* at the first bit it cleared itself).
slideBy(window, base, n) ==
  /\ \A j \in 0 .. (n - 1) : window[getWindowIndex(Add(base, j))]
  /\ n < WindowSize => ~ window[getWindowIndex(Add(base, n))]

\* The bits of the sequence numbers passed by the loop are cleared.
bitsCleared(window, base, n) ==
  [i \in Index |-> /\ window[i]
                   /\ \A j \in 0 .. (n - 1) : getWindowIndex(Add(base, j)) # i]

\* Recv on a packet it has not seen: the bit is set and, if the packet is
\* the expected one, the window slides.
Accept(p, seq) ==
  LET marked == [recvWindow[p] EXCEPT ![getWindowIndex(seq)] = TRUE]
  IN  \E n \in 0 .. WindowSize :
        /\ IF seq = recvBase[p] THEN slideBy(marked, recvBase[p], n) ELSE n = 0
        /\ recvBase' = [recvBase EXCEPT ![p] = Add(@, n)]
        /\ recvWindow' =
             [recvWindow EXCEPT ![p] = bitsCleared(marked, recvBase[p], n)]

\* sendACK, on every path of Recv; a failing write is ignored.
sendACK(p, m, duplicated) ==
  wire' = Take(m, duplicated) \cup {AckPacket(Other(p), m.seq)}

\* Recv returns the packet m to its caller.
RecvAccepts(p, m, duplicated) ==
  /\ isNew(p, m.seq)
  /\ Accept(p, m.seq)
  /\ sendACK(p, m, duplicated)

\* Recv acknowledges m and returns an error: outside the window, or seen.
RecvRejects(p, m, duplicated) ==
  /\ ~ isNew(p, m.seq)
  /\ sendACK(p, m, duplicated)
  /\ UNCHANGED receiverVars
=============================================================================
