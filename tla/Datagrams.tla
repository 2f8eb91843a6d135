------------------------------ MODULE Datagrams ------------------------------
(***************************************************************************)
(* The datagram service two ReliableContexts talk over: the *net.UDPConn   *)
(* of each peer and the network between them.  It is external code; the    *)
(* model takes from it what reliable.go relies on and no more.  A datagram *)
(* may be lost, received twice, or overtaken by a later one.               *)
(*                                                                         *)
(* The bytes on the wire are abstracted to the header fields reliable.go   *)
(* looks at: FlagReliable is set on every packet of this module, the       *)
(* opcode is the kind, and the payload is the number of the message.       *)
(***************************************************************************)
EXTENDS Naturals

CONSTANTS A, B      \* the two peers: each is the addr of the other

ASSUME PeersDistinct == A # B

Peers    == {A, B}
Other(p) == IF p = A THEN B ELSE A

VARIABLE wire       \* the datagrams in flight

DataPacket(to, seq, data) ==
  [kind |-> "data", to |-> to, seq |-> seq, data |-> data]

AckPacket(to, seq) == [kind |-> "ack", to |-> to, seq |-> seq]

\* WriteToUDP: the datagrams enter the network.  A write that fails is a
\* datagram that is lost at once; reliable.go ignores the difference except
\* where an action says otherwise.
Write(packets) == wire' = wire \cup packets

\* UDPRecv takes one datagram; if the network delivered a copy, another one
\* stays in flight.
Take(m, duplicated) == IF duplicated THEN wire ELSE wire \ {m}
=============================================================================
