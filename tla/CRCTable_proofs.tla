--------------------------- MODULE CRCTable_proofs ---------------------------
(***************************************************************************)
(* Proof that the unlocked lookup table of core/crc32.go is harmless where *)
(* stores become visible in program order, for any number of goroutines    *)
(* and any size of the table.                                              *)
(***************************************************************************)
EXTENDS CRCTable, TLAPS

Stores == Entries \cup {Flag}

CRCTypes ==
  /\ view \in [Goroutines -> SUBSET Stores]
  /\ pc \in [Goroutines -> {"idle", "fill", "update"}]
  /\ i \in [Goroutines -> Nat]
  /\ crc \in [Goroutines -> {"right", "wrong"}]

\* A goroutine in initCRC32Table sees all that it has stored itself.
OwnStoresSeen ==
  \A g \in Goroutines : pc[g] = "fill" =>
    i[g] >= 1 /\ 1 .. (i[g] - 1) \subseteq view[g] /\ crc[g] = "right"

\* In ordered memory, who sees a store sees all that were made before it.
SeenInOrder ==
  memory = "in order" =>
    \A g \in Goroutines : \A x \in view[g] : storedBefore(x) \subseteq view[g]

BuilderSeesTable == \A g \in built : Entries \subseteq view[g]

FlagSeen == \A g \in Goroutines : pc[g] = "update" => Flag \in view[g]

(***************************************************************************)
(* The inductive invariant.  That a CRC is right follows from what its     *)
(* goroutine sees of the table, and that from the flag it has seen: hence  *)
(* the order in which stores are seen.                                     *)
(***************************************************************************)
TableInv ==
  /\ CRCTypes
  /\ memory \in {"in order", "any order"}
  /\ built \subseteq Goroutines
  /\ OwnStoresSeen
  /\ SeenInOrder
  /\ BuilderSeesTable
  /\ FlagSeen
  /\ WrongOnlyOnForeignTable

\* At the start nobody has stored anything.
LEMMA InitTable == Init => TableInv
<1> SUFFICES ASSUME Init PROVE TableInv
  OBVIOUS
<1>1. CRCTypes
  BY DEF Init, CRCTypes
<1>2. OwnStoresSeen /\ FlagSeen
  BY DEF Init, OwnStoresSeen, FlagSeen
<1>3. SeenInOrder /\ BuilderSeesTable
  BY DEF Init, SeenInOrder, BuilderSeesTable
<1>4. WrongOnlyOnForeignTable
  BY DEF Init, WrongOnlyOnForeignTable
<1> QED
  BY <1>1, <1>2, <1>3, <1>4 DEF Init, TableInv

\* The stores before a store are entries of the table.
LEMMA StoredBeforeEntries ==
  ASSUME NEW x \in Stores
  PROVE  storedBefore(x) \subseteq Entries
  BY TableAssumption DEF Stores, storedBefore, Entries, Flag

\* No entry comes before the first.
LEMMA NoneBeforeFirst ==
  ASSUME NEW S
  PROVE  1 >= 1 /\ 1 .. (1 - 1) \subseteq S
  OBVIOUS

\* NewCRC32 goes on to Update only if its goroutine sees the flag.
LEMMA NewTable ==
  ASSUME TableInv, NEW g \in Goroutines, NewCRC32(g)
  PROVE  TableInv'
<1> USE DEF TableInv, CRCTypes
<1>1. CRCTypes'
  BY DEF NewCRC32
<1>2. OwnStoresSeen'
  <2>1. i'[g] = 1 /\ crc'[g] = "right" /\ view' = view
    BY DEF NewCRC32
  <2>2. i'[g] >= 1 /\ 1 .. (i'[g] - 1) \subseteq view'[g] /\ crc'[g] = "right"
    <3>1. 1 >= 1 /\ 1 .. (1 - 1) \subseteq view'[g]
      BY NoneBeforeFirst, Zenon
    <3> QED
      BY <2>1, <3>1, Zenon
  <2>3. \A h \in Goroutines \ {g} : pc'[h] = pc[h] /\ i'[h] = i[h] /\ crc'[h] = crc[h]
    BY DEF NewCRC32
  <2>4. \A h \in Goroutines \ {g} : pc'[h] = "fill" =>
          i'[h] >= 1 /\ 1 .. (i'[h] - 1) \subseteq view'[h] /\ crc'[h] = "right"
    BY <2>1, <2>3 DEF OwnStoresSeen
  <2> QED
    BY <2>2, <2>4, Zenon DEF OwnStoresSeen
<1>3. SeenInOrder' /\ BuilderSeesTable'
  BY DEF NewCRC32, SeenInOrder, BuilderSeesTable
<1>4. FlagSeen'
  BY DEF NewCRC32, FlagSeen
<1>5. WrongOnlyOnForeignTable'
  BY DEF NewCRC32, WrongOnlyOnForeignTable
<1> QED
  BY <1>1, <1>2, <1>3, <1>4, <1>5 DEF NewCRC32

\* A step of initCRC32Table stores an entry after those before it, and the
\* flag after all of them.
LEMMA FillTableStep ==
  ASSUME TableInv, NEW g \in Goroutines, FillTable(g)
  PROVE  TableInv'
<1> DEFINE x == store(g)
<1>1. /\ pc[g] = "fill" /\ crc[g] = "right" /\ i[g] \in Nat /\ i[g] >= 1
      /\ 1 .. (i[g] - 1) \subseteq view[g]
  BY DEF FillTable, TableInv, CRCTypes, OwnStoresSeen
<1>2. x \in Stores /\ storedBefore(x) \subseteq view[g]
  BY <1>1, TableAssumption DEF store, Stores, Entries, Flag, storedBefore
<1>3. view' = [view EXCEPT ![g] = @ \cup {x}] /\ i' = [i EXCEPT ![g] = @ + 1]
  BY DEF FillTable
<1>4. UNCHANGED <<memory, crc>>
  BY DEF FillTable
<1>5. \A h \in Goroutines : view[h] \subseteq view'[h]
  BY <1>3 DEF TableInv, CRCTypes
<1>t. view' \in [Goroutines -> SUBSET Stores] /\ i' \in [Goroutines -> Nat]
  <2>1. i[g] + 1 \in Nat
    BY <1>1
  <2>2. view \in [Goroutines -> SUBSET Stores] /\ i \in [Goroutines -> Nat]
    BY DEF TableInv, CRCTypes
  <2> HIDE DEF x
  <2> QED
    BY <2>1, <2>2, <1>2, <1>3
<1>6. SeenInOrder'
  BY <1>2, <1>3, <1>4, <1>5 DEF TableInv, CRCTypes, SeenInOrder
<1>7. CASE isDone(g)
  <2>1. pc' = [pc EXCEPT ![g] = "update"] /\ built' = built \cup {g}
    BY <1>7 DEF FillTable
  <2>2. x = Flag /\ Entries \subseteq view[g]
    BY <1>7, <1>1, TableAssumption DEF isDone, store, Entries
  <2>3. CRCTypes'
    BY <1>t, <1>4, <2>1 DEF TableInv, CRCTypes
  <2>4. OwnStoresSeen'
    <3>1. \A h \in Goroutines \ {g} : pc'[h] = pc[h] /\ i'[h] = i[h]
      BY <1>3, <2>1 DEF TableInv, CRCTypes
    <3>2. pc'[g] # "fill"
      BY <2>1 DEF TableInv, CRCTypes
    <3> QED
      BY <3>1, <3>2, <1>4, <1>5 DEF TableInv, OwnStoresSeen
  <2>5. BuilderSeesTable'
    BY <1>5, <2>1, <2>2 DEF TableInv, BuilderSeesTable
  <2>6. FlagSeen'
    BY <1>3, <1>5, <2>1, <2>2 DEF TableInv, CRCTypes, FlagSeen
  <2>7. WrongOnlyOnForeignTable'
    BY <1>1, <1>4, <2>1 DEF TableInv, WrongOnlyOnForeignTable
  <2> QED
    BY <1>4, <1>6, <2>1, <2>3, <2>4, <2>5, <2>6, <2>7 DEF TableInv
<1>8. CASE ~ isDone(g)
  <2>1. UNCHANGED <<pc, built>>
    BY <1>8 DEF FillTable
  <2>2. x = i[g]
    BY <1>8, <1>1, TableAssumption DEF isDone, store
  <2>3. CRCTypes'
    BY <1>t, <1>4, <2>1 DEF TableInv, CRCTypes
  <2>4. OwnStoresSeen'
    <3>1. i'[g] = i[g] + 1 /\ view'[g] = view[g] \cup {i[g]}
      BY <1>1, <1>3, <2>2 DEF TableInv, CRCTypes
    <3>2. 1 .. ((i[g] + 1) - 1) \subseteq view[g] \cup {i[g]} /\ i[g] + 1 >= 1
      BY <1>1
    <3>3. \A h \in Goroutines \ {g} : i'[h] = i[h]
      BY <1>3 DEF TableInv, CRCTypes
    <3> HIDE DEF x
    <3> QED
      BY <3>1, <3>2, <3>3, <1>4, <1>5, <2>1 DEF TableInv, OwnStoresSeen
  <2>5. BuilderSeesTable'
    BY <1>5, <2>1 DEF TableInv, BuilderSeesTable
  <2>6. FlagSeen'
    BY <1>5, <2>1 DEF TableInv, FlagSeen
  <2>7. WrongOnlyOnForeignTable'
    BY <1>4, <2>1 DEF TableInv, WrongOnlyOnForeignTable
  <2> QED
    BY <1>4, <1>6, <2>1, <2>3, <2>4, <2>5, <2>6, <2>7 DEF TableInv
<1> QED
  BY <1>7, <1>8

\* Update meets a missing entry only in unordered memory, and never in the
\* table that its goroutine filled itself.
LEMMA UpdateTable ==
  ASSUME TableInv, NEW g \in Goroutines, NEW entry \in Entries, Update(g, entry)
  PROVE  TableInv'
<1>1. pc[g] = "update" /\ UNCHANGED <<memory, view, pc, i, built>>
  BY DEF Update
<1>2. crc' = [crc EXCEPT ![g] = IF entry \in view[g] THEN @ ELSE "wrong"]
  BY DEF Update
<1>3. CRCTypes'
  BY <1>1, <1>2 DEF TableInv, CRCTypes
<1>4. OwnStoresSeen'
  BY <1>1, <1>2 DEF TableInv, CRCTypes, OwnStoresSeen
<1>5. entry \notin view[g] => memory = "any order" /\ g \notin built
  <2>1. Flag \in view[g]
    BY <1>1 DEF TableInv, FlagSeen
  <2>2. memory = "in order" => Entries \subseteq view[g]
    BY <2>1 DEF TableInv, SeenInOrder, storedBefore
  <2> QED
    BY <2>2 DEF TableInv, BuilderSeesTable
<1>6. WrongOnlyOnForeignTable'
  BY <1>1, <1>2, <1>5 DEF TableInv, CRCTypes, WrongOnlyOnForeignTable
<1> QED
  BY <1>1, <1>3, <1>4, <1>6 DEF TableInv, SeenInOrder, BuilderSeesTable, FlagSeen

\* Final forgets nothing that the goroutine sees.
LEMMA FinalTable ==
  ASSUME TableInv, NEW g \in Goroutines, Final(g)
  PROVE  TableInv'
<1>1. CRCTypes'
  BY DEF Final, TableInv, CRCTypes
<1>2. OwnStoresSeen' /\ FlagSeen'
  BY DEF Final, TableInv, CRCTypes, OwnStoresSeen, FlagSeen
<1>3. SeenInOrder' /\ BuilderSeesTable' /\ WrongOnlyOnForeignTable'
  BY DEF Final, TableInv, SeenInOrder, BuilderSeesTable, WrongOnlyOnForeignTable
<1> QED
  BY <1>1, <1>2, <1>3 DEF Final, TableInv

\* A store that reaches another goroutine comes after those before it.
LEMMA ReachTable ==
  ASSUME TableInv, NEW g \in Goroutines, NEW h \in Goroutines, NEW x \in Stores,
         Propagate(g, h, x)
  PROVE  TableInv'
<1>1. view' = [view EXCEPT ![g] = @ \cup {x}] /\ UNCHANGED <<memory, pc, i, crc, built>>
  BY DEF Propagate
<1>2. \A f \in Goroutines : view[f] \subseteq view'[f]
  BY <1>1 DEF TableInv, CRCTypes
<1>3. memory = "in order" => storedBefore(x) \subseteq view[g]
  BY DEF Propagate, TableInv, SeenInOrder
<1>4. SeenInOrder'
  BY <1>1, <1>2, <1>3 DEF TableInv, CRCTypes, SeenInOrder
<1>5. CRCTypes'
  BY <1>1 DEF TableInv, CRCTypes
<1>6. OwnStoresSeen'
  BY <1>1, <1>2 DEF TableInv, OwnStoresSeen
<1>7. BuilderSeesTable' /\ FlagSeen' /\ WrongOnlyOnForeignTable'
  BY <1>1, <1>2 DEF TableInv, BuilderSeesTable, FlagSeen, WrongOnlyOnForeignTable
<1> QED
  BY <1>1, <1>4, <1>5, <1>6, <1>7 DEF TableInv

(***************************************************************************)
(* However many goroutines race to fill the table, and whatever its size:  *)
(* a CRC comes out wrong only where stores are seen out of program order,  *)
(* and only in a goroutine that trusted the flag of another.               *)
(***************************************************************************)
THEOREM RaceHarmlessInOrder == Spec => []WrongOnlyOnForeignTable
<1>1. TableInv /\ [Next]_vars => TableInv'
  <2> SUFFICES ASSUME TableInv, [Next]_vars PROVE TableInv'
    OBVIOUS
  <2>1. CASE Reach
    BY <2>1, ReachTable DEF Reach, Stores
  <2>2. ASSUME NEW g \in Goroutines, ComputeCRC32(g) PROVE TableInv'
    BY <2>2, NewTable, FillTableStep, UpdateTable, FinalTable DEF ComputeCRC32
  <2>3. CASE UNCHANGED vars
    BY <2>3 DEF vars, TableInv, CRCTypes, OwnStoresSeen, SeenInOrder,
                BuilderSeesTable, FlagSeen, WrongOnlyOnForeignTable
  <2> QED
    BY <2>1, <2>2, <2>3 DEF Next
<1>2. TableInv => WrongOnlyOnForeignTable
  BY DEF TableInv
<1> QED
  BY InitTable, <1>1, <1>2, PTL DEF Spec
=============================================================================
