--------------------------- MODULE MessageChannel ---------------------------
(***************************************************************************)
(* What a ReliableContext promises its application, without windows,       *)
(* timers or packets: messages may be lost and may overtake each other,    *)
(* but each is delivered at most once and is confirmed to its sender only  *)
(* after its delivery.  State is kept by sending end.                      *)
(***************************************************************************)
EXTENDS Naturals

CONSTANTS
  Ends,       \* the ends of the channel
  Limit       \* bound: messages an end may send

VARIABLES
  sent,       \* how many messages were accepted from the application
  got,        \* how often the other end's application got each message
  confirmed   \* the messages the sender knows to be delivered

channelVars == <<sent, got, confirmed>>

Init ==
  /\ sent      = [p \in Ends |-> 0]
  /\ got       = [p \in Ends |-> [d \in 0 .. (Limit - 1) |-> 0]]
  /\ confirmed = [p \in Ends |-> {}]

Submit(p) ==
  /\ sent[p] < Limit
  /\ sent' = [sent EXCEPT ![p] = @ + 1]
  /\ UNCHANGED <<got, confirmed>>

Deliver(p, d) ==
  /\ d < sent[p]
  /\ got[p][d] = 0
  /\ got' = [got EXCEPT ![p][d] = 1]
  /\ UNCHANGED <<sent, confirmed>>

Confirm(p, d) ==
  /\ got[p][d] = 1
  /\ confirmed' = [confirmed EXCEPT ![p] = @ \cup {d}]
  /\ UNCHANGED <<sent, got>>

Next ==
  \E p \in Ends :
    \/ Submit(p)
    \/ \E d \in 0 .. (Limit - 1) : Deliver(p, d) \/ Confirm(p, d)

Spec == Init /\ [][Next]_channelVars
=============================================================================
