------------------------------ MODULE SeqWindow ------------------------------
(***************************************************************************)
(* Sequence-number arithmetic of transport/reliable.go.                    *)
(*                                                                         *)
(* Sequence numbers are uint32, so + and - are taken modulo UintMod (2^32  *)
(* in the code).  A context keeps two rings of WindowSize slots, indexed   *)
(* by getWindowIndex, and asks with isInSendWindow / isInRecvWindow        *)
(* whether a sequence number belongs to the window that starts at a base.  *)
(* Those two methods have the same body and differ only in the base they   *)
(* read, which is a parameter here.                                        *)
(***************************************************************************)
EXTENDS Integers

CONSTANTS
  UintMod,      \* 2^32: the number of uint32 values
  WindowSize    \* the slots of the send and of the receive ring

(***************************************************************************)
(* The ring holds at least two slots and a whole number of rings fits into *)
(* the sequence space (2^32 is a multiple of 32).                          *)
(***************************************************************************)
ASSUME WindowAssumption ==
  /\ UintMod \in Nat
  /\ WindowSize \in Nat
  /\ WindowSize >= 2
  /\ WindowSize < UintMod
  /\ UintMod % WindowSize = 0

SeqNum == 0 .. (UintMod - 1)
Index  == 0 .. (WindowSize - 1)

\* uint32 addition and subtraction.
Add(a, b) == (a + b) % UintMod
Sub(a, b) == (a - b) % UintMod

getWindowIndex(seq) == seq % WindowSize

\* The body shared by isInSendWindow and isInRecvWindow.
isInWindow(base, seq) ==
  \/ base <= seq /\ seq < Add(base, WindowSize)
  \/ /\ Add(base, WindowSize) < base
     /\ seq >= base \/ seq < Add(base, WindowSize)

-----------------------------------------------------------------------------
(***************************************************************************)
(* What the window test must compute: the distance from the base to the    *)
(* sequence number, going up and around, is less than the window size.     *)
(***************************************************************************)
WindowTestCorrect(base, seq) ==
  isInWindow(base, seq) <=> Sub(seq, base) < WindowSize

(***************************************************************************)
(* Two sequence numbers of one window never share a slot: this is what     *)
(* lets the rings be arrays instead of maps.                               *)
(***************************************************************************)
SlotsDistinct(base, s, t) ==
  /\ isInWindow(base, s)
  /\ isInWindow(base, t)
  /\ getWindowIndex(s) = getWindowIndex(t)
  => s = t
=============================================================================
