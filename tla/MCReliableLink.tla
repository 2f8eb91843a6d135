--------------------------- MODULE MCReliableLink ---------------------------
(***************************************************************************)
(* The bound of TLC's run with data in both directions.                    *)
(***************************************************************************)
EXTENDS ReliableLink

\* Bound: B sends one message while A sends MaxSends.
OneMessageBack == sends[B] <= 1
=============================================================================
