------------------------------ MODULE CRCTable ------------------------------
(***************************************************************************)
(* core/crc32.go used by several goroutines at once.  Each CRC starts with *)
(* NewCRC32, which builds the lookup table unless a flag says that it was  *)
(* built; neither the table nor the flag is protected by a lock.           *)
(*                                                                         *)
(* A data race: what a goroutine sees of the stores of another is decided  *)
(* by the hardware.  view[g] is the set of stores that g sees.  With       *)
(* memory "in order" the stores of a goroutine reach the others in the     *)
(* order of its program, as on amd64; with "any order" each comes alone,   *)
(* as arm64 allows.  Every goroutine stores the same values, so a store is *)
(* named by its place.                                                     *)
(***************************************************************************)
EXTENDS Naturals

CONSTANTS
  Goroutines,
  TableSize      \* 256 in the code; entry 0, which holds 0, is left out

ASSUME TableAssumption == TableSize \in Nat /\ TableSize >= 1

VARIABLES
  memory,        \* the memory model, fixed for a behaviour
  view,          \* the stores each goroutine sees
  pc,            \* where it is: "idle", "fill" in initCRC32Table, "update"
  i,             \* the loop variable of initCRC32Table
  crc,           \* whether the CRC it computes is "right" or "wrong"
  built          \* history: the goroutines that filled the table themselves

vars == <<memory, view, pc, i, crc, built>>

Entries == 1 .. TableSize
Flag    == 0

Init ==
  /\ memory \in {"in order", "any order"}
  /\ view = [g \in Goroutines |-> {}]
  /\ pc = [g \in Goroutines |-> "idle"]
  /\ i = [g \in Goroutines |-> 1]
  /\ crc = [g \in Goroutines |-> "right"]
  /\ built = {}

-----------------------------------------------------------------------------
\* NewCRC32 up to the test of the flag.
NewCRC32(g) ==
  /\ pc[g] = "idle"
  /\ pc' = [pc EXCEPT ![g] = IF Flag \in view[g] THEN "update" ELSE "fill"]
  /\ i' = [i EXCEPT ![g] = 1]
  /\ crc' = [crc EXCEPT ![g] = "right"]
  /\ UNCHANGED <<memory, view, built>>

\* A mutant: the flag is set before the table is filled.
storeFlagFirst(g) == IF i[g] = 1 THEN Flag ELSE i[g] - 1

\* A mutant: the loop ends one entry early.
storeOneLess(g) == IF i[g] < TableSize THEN i[g] ELSE Flag

\* What initCRC32Table stores next: the entries in turn, then the flag.
store(g) == IF i[g] <= TableSize THEN i[g] ELSE Flag

isDone(g) == i[g] > TableSize

FillTable(g) ==
  /\ pc[g] = "fill"
  /\ view' = [view EXCEPT ![g] = @ \cup {store(g)}]
  /\ i' = [i EXCEPT ![g] = @ + 1]
  /\ IF isDone(g)
     THEN /\ pc' = [pc EXCEPT ![g] = "update"]
          /\ built' = built \cup {g}
     ELSE UNCHANGED <<pc, built>>
  /\ UNCHANGED <<memory, crc>>

\* Update looks up an entry for every byte of the data; an entry that was not
\* stored yet reads as 0.
Update(g, entry) ==
  /\ pc[g] = "update"
  /\ crc' = [crc EXCEPT ![g] = IF entry \in view[g] THEN @ ELSE "wrong"]
  /\ UNCHANGED <<memory, view, pc, i, built>>

Final(g) ==
  /\ pc[g] = "update"
  /\ pc' = [pc EXCEPT ![g] = "idle"]
  /\ i' = [i EXCEPT ![g] = 1]
  /\ UNCHANGED <<memory, view, crc, built>>

\* The program order of the stores of h: h made all of these before x.
storedBefore(x) == IF x = Flag THEN Entries ELSE 1 .. (x - 1)

\* A store of h reaches g.
Propagate(g, h, x) ==
  /\ x \in view[h] \ view[g]
  /\ memory = "in order" => storedBefore(x) \cap view[h] \subseteq view[g]
  /\ view' = [view EXCEPT ![g] = @ \cup {x}]
  /\ UNCHANGED <<memory, pc, i, crc, built>>

Reach == \E g, h \in Goroutines, x \in Entries \cup {Flag} : Propagate(g, h, x)

ComputeCRC32(g) ==
  \/ NewCRC32(g)
  \/ FillTable(g)
  \/ \E entry \in Entries : Update(g, entry)
  \/ Final(g)

Next == Reach \/ \E g \in Goroutines : ComputeCRC32(g)

\* Stores become visible, and a goroutine in a call keeps running.
Spec ==
  /\ Init
  /\ [][Next]_vars
  /\ WF_vars(Reach)
  /\ \A g \in Goroutines : WF_vars(FillTable(g)) /\ WF_vars(Final(g))

-----------------------------------------------------------------------------
(***************************************************************************)
(* Properties                                                              *)
(***************************************************************************)
\* A wrong CRC needs two things: memory on which stores become visible out of
\* program order, and a goroutine that trusted the flag of another.  Where
\* stores stay in order the race is harmless, also while several goroutines
\* fill the table, and a goroutine that filled it itself computes right CRCs
\* for ever.
WrongOnlyOnForeignTable ==
  \A g \in Goroutines : crc[g] = "wrong" => memory = "any order" /\ g \notin built

\* The damage is confined to the start of the program: from some point on no
\* CRC becomes wrong.
WrongOnlyAtFirst ==
  <>[][\A g \in Goroutines : crc[g] = "right" => crc'[g] = "right"]_vars
=============================================================================
