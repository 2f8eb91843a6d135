------------------------- MODULE Fragmentation_proofs -------------------------
(***************************************************************************)
(* Proofs about fragmentation, for every payload, every MTU, every width   *)
(* of the integers involved, and every order and number of copies in which *)
(* the fragments arrive.                                                   *)
(*                                                                         *)
(* What Assemble glues together is a recursive function of the fragments.  *)
(* The function it must be is known, namely the prefixes of the payload;   *)
(* that it is no other one follows from the least place where they differ. *)
(***************************************************************************)
EXTENDS Fragmentation, FiniteSetTheorems, TLAPS

-----------------------------------------------------------------------------
(***************************************************************************)
(* Numbers                                                                 *)
(***************************************************************************)
LEMMA DivBounds ==
  ASSUME NEW a \in Nat, NEW b \in Nat, b > 0
  PROVE  /\ a \div b \in Nat
         /\ (a \div b) * b <= a
         /\ a < (a \div b) * b + b
  OBVIOUS

LEMMA ModSmall ==
  ASSUME NEW a \in Nat, NEW b \in Nat, a < b
  PROVE  a % b = a
  OBVIOUS

LEMMA ModType ==
  ASSUME NEW a \in Int, NEW b \in Nat, 0 < b
  PROVE  a % b \in Nat /\ a % b < b
  OBVIOUS

LEMMA ProductMonotonic ==
  ASSUME NEW a \in Nat, NEW b \in Nat, NEW m \in Nat, a <= b
  PROVE  /\ a * m <= b * m /\ a * m \in Nat /\ b * m \in Nat
         /\ (a + 1) * m = a * m + m
  OBVIOUS

LEMMA ProductAtLeastTwo ==
  ASSUME NEW q \in Nat, NEW m \in Nat, NEW n \in Nat, m < n, n <= q * m
  PROVE  q >= 2
  OBVIOUS

LEMMA LeastNumber ==
  ASSUME NEW T, T \subseteq Nat, T # {}
  PROVE  \E n \in T : \A m \in T : n <= m
<1> DEFINE R == {p \in Nat \X Nat : p[1] < p[2]}
<1>1. IsWellFoundedOn(R, Nat)
  BY NatLessThanWellFounded DEF OpToRel
<1>2. PICK n \in T : \A m \in T : ~ (<<m, n>> \in R)
  BY <1>1, WFMin
<1>3. \A m \in T : ~ (m < n)
  BY <1>2
<1> QED
  BY <1>3

(***************************************************************************)
(* Sequences                                                               *)
(***************************************************************************)
\* g holds the concatenations of the first sequences of s.
RunningConcat(g, s, n) ==
  \A i \in 1 .. n : g[i] = IF i = 1 THEN s[i] ELSE g[i - 1] \o s[i]

\* The last of them is what FlattenSeq computes.
LEMMA FlattenIs ==
  ASSUME NEW s, NEW n \in Nat, n > 0, Len(s) = n, NEW S, NEW g \in [1 .. n -> S],
         RunningConcat(g, s, n)
  PROVE  FlattenSeq(s) = g[n]
<1> DEFINE f == CHOOSE h : h = [i \in 1 .. n |-> IF i = 1 THEN s[i] ELSE h[i - 1] \o s[i]]
<1>1. FlattenSeq(s) = f[n]
  <2>1. n # 0
    OBVIOUS
  <2> QED
    BY <2>1, Zenon DEF FlattenSeq
<1>2. f = [i \in 1 .. n |-> IF i = 1 THEN s[i] ELSE f[i - 1] \o s[i]]
  <2>1. g = [i \in 1 .. n |-> IF i = 1 THEN s[i] ELSE g[i - 1] \o s[i]]
    BY DEF RunningConcat
  <2> QED
    BY <2>1
<1> HIDE DEF f
<1> DEFINE T == {i \in 1 .. n : f[i] # g[i]}
<1>3. T = {}
  <2> SUFFICES ASSUME T # {} PROVE FALSE
    OBVIOUS
  <2>1. PICK k \in T : \A m \in T : k <= m
    <3>1. T \subseteq Nat
      OBVIOUS
    <3> HIDE DEF T
    <3> QED
      BY <3>1, LeastNumber
  <2>2. k \in 1 .. n /\ f[k] # g[k]
    BY <2>1
  <2>3. CASE k = 1
    <3>1. f[1] = s[1] /\ g[1] = s[1]
      BY <1>2, <2>2, <2>3 DEF RunningConcat
    <3> QED
      BY <2>2, <2>3, <3>1
  <2>4. CASE k # 1
    <3>1. (k - 1) \in 1 .. n /\ ~ (k <= k - 1)
      BY <2>2, <2>4
    <3>2. f[k - 1] = g[k - 1]
      BY <2>1, <3>1
    <3>3. f[k] = f[k - 1] \o s[k]
      BY <1>2, <2>2, <2>4
    <3>4. g[k] = g[k - 1] \o s[k]
      BY <2>2, <2>4 DEF RunningConcat
    <3> QED
      BY <2>2, <3>2, <3>3, <3>4
  <2> QED
    BY <2>3, <2>4
<1>4. n \in 1 .. n
  OBVIOUS
<1> QED
  BY <1>1, <1>3, <1>4

LEMMA PrefixIs ==
  ASSUME NEW S, NEW p \in Seq(S), NEW b \in 0 .. Len(p)
  PROVE  /\ SubSeq(p, 1, b) \in Seq(S) /\ Len(SubSeq(p, 1, b)) = b
         /\ \A i \in 1 .. b : SubSeq(p, 1, b)[i] = p[i]
  OBVIOUS

LEMMA SliceIs ==
  ASSUME NEW S, NEW p \in Seq(S), NEW a \in Nat, NEW c \in Nat, a + c <= Len(p)
  PROVE  /\ SubSeq(p, a + 1, a + c) \in Seq(S) /\ Len(SubSeq(p, a + 1, a + c)) = c
         /\ \A i \in 1 .. c : SubSeq(p, a + 1, a + c)[i] = p[a + i]
  OBVIOUS

LEMMA ConcatIs ==
  ASSUME NEW S, NEW s \in Seq(S), NEW t \in Seq(S)
  PROVE  /\ s \o t \in Seq(S)
         /\ Len(s \o t) = Len(s) + Len(t)
         /\ \A i \in 1 .. (Len(s) + Len(t)) :
              (s \o t)[i] = IF i <= Len(s) THEN s[i] ELSE t[i - Len(s)]
  OBVIOUS

LEMMA SameSeq ==
  ASSUME NEW S, NEW s \in Seq(S), NEW t \in Seq(S), Len(s) = Len(t),
         \A i \in 1 .. Len(s) : s[i] = t[i]
  PROVE  s = t
  OBVIOUS

\* A prefix and the slice that follows it make a longer prefix.
LEMMA PrefixGrows ==
  ASSUME NEW S, NEW p \in Seq(S), NEW a \in Nat, NEW c \in Nat, a + c <= Len(p)
  PROVE  SubSeq(p, 1, a) \o SubSeq(p, a + 1, a + c) = SubSeq(p, 1, a + c)
<1> DEFINE x == SubSeq(p, 1, a)
           y == SubSeq(p, a + 1, a + c)
           z == SubSeq(p, 1, a + c)
<1>0. Len(p) \in Nat /\ a \in 0 .. Len(p) /\ (a + c) \in 0 .. Len(p)
  OBVIOUS
<1>1. x \in Seq(S) /\ Len(x) = a /\ \A i \in 1 .. a : x[i] = p[i]
  BY <1>0, PrefixIs
<1>2. z \in Seq(S) /\ Len(z) = a + c /\ \A i \in 1 .. (a + c) : z[i] = p[i]
  BY <1>0, PrefixIs
<1>3. y \in Seq(S) /\ Len(y) = c /\ \A i \in 1 .. c : y[i] = p[a + i]
  BY SliceIs
<1> HIDE DEF x, y, z
<1>4. /\ x \o y \in Seq(S) /\ Len(x \o y) = a + c
      /\ \A i \in 1 .. (a + c) : (x \o y)[i] = IF i <= a THEN x[i] ELSE y[i - a]
  <2>1. /\ x \o y \in Seq(S) /\ Len(x \o y) = Len(x) + Len(y)
        /\ \A i \in 1 .. (Len(x) + Len(y)) :
             (x \o y)[i] = IF i <= Len(x) THEN x[i] ELSE y[i - Len(x)]
    BY <1>1, <1>3, ConcatIs
  <2>2. Len(x) = a /\ Len(y) = c
    BY <1>1, <1>3
  <2> QED
    BY <2>1, <2>2, Zenon
<1>5. ASSUME NEW i \in 1 .. (a + c) PROVE (x \o y)[i] = z[i]
  <2>1. CASE i <= a
    <3>1. i \in 1 .. a
      BY <2>1
    <3> QED
      BY <1>1, <1>2, <1>4, <2>1, <3>1
  <2>2. CASE ~ (i <= a)
    <3>1. (i - a) \in 1 .. c /\ a + (i - a) = i
      BY <2>2
    <3>2. y[i - a] = p[a + (i - a)]
      BY <1>3, <3>1
    <3> QED
      BY <1>2, <1>4, <2>2, <3>1, <3>2
  <2> QED
    BY <2>1, <2>2
<1>6. x \o y = z
  BY <1>2, <1>4, <1>5, SameSeq
<1> QED
  BY <1>6 DEF x, y, z

-----------------------------------------------------------------------------
(***************************************************************************)
(* FragmentPacket                                                          *)
(***************************************************************************)
InputsOK == payload \in Seq(Nat) /\ mtu \in MTUs

\* The bytes that fragment i carries.
slice(i) == SubSeq(payload, i * maxFragPayload + 1, i * maxFragPayload + fragSize(i))

LEMMA MaxFragPayloadType ==
  ASSUME InputsOK
  PROVE  /\ maxFragPayload \in Nat
         /\ mtu \in Nat /\ Overhead \in Nat /\ Len(payload) \in Nat
         /\ Overhead <= mtu => maxFragPayload = mtu - Overhead
<1>1. /\ mtu \in Nat /\ Overhead \in Nat /\ UintMod \in Nat /\ mtu < UintMod
      /\ Overhead < UintMod
  BY FragmentationAssumption DEF InputsOK
<1>2. (mtu - Overhead) % UintMod \in Nat
  BY <1>1, ModType
<1>3. ASSUME Overhead <= mtu PROVE (mtu - Overhead) % UintMod = mtu - Overhead
  <2>1. mtu - Overhead \in Nat /\ mtu - Overhead < UintMod
    BY <1>1, <1>3
  <2> QED
    BY <1>1, <2>1, ModSmall
<1>4. Len(payload) \in Nat
  BY DEF InputsOK
<1> QED
  BY <1>1, <1>2, <1>3, <1>4 DEF maxFragPayload

\* What the three checks of FragmentPacket leave.
LEMMA OutcomeMeans ==
  /\ fragmentOutcome \in {"nil", "error", "fragments"}
  /\ fragmentOutcome = "nil" => Len(payload) <= maxFragPayload
  /\ fragmentOutcome = "fragments" =>
       /\ ~ (maxFragPayload <= 0)
       /\ ~ (Len(payload) <= maxFragPayload)
       /\ ~ (totalFrags > FragMaxFragments)
       /\ ~ (maxFragPayload > MaxUint16)
  BY DEF fragmentOutcome

\* The number of fragments is the right one: all but the last are full, and
\* the last one is not empty.
LEMMA CutBounds ==
  ASSUME InputsOK, fragmentOutcome = "fragments"
  PROVE  /\ maxFragPayload \in Nat /\ maxFragPayload >= 1 /\ maxFragPayload <= MaxUint16
         /\ MaxUint16 \in Nat /\ FragMaxFragments \in Nat
         /\ Len(payload) \in Nat /\ maxFragPayload < Len(payload)
         /\ totalFrags \in Nat /\ totalFrags >= 2 /\ totalFrags <= FragMaxFragments
         /\ (totalFrags - 1) * maxFragPayload < Len(payload)
         /\ Len(payload) <= totalFrags * maxFragPayload
<1> DEFINE M == maxFragPayload
           L == Len(payload)
           T == totalFrags
<1>1. M \in Nat /\ L \in Nat
  BY MaxFragPayloadType
<1>2. MaxUint16 \in Nat /\ FragMaxFragments \in Nat
  BY FragmentationAssumption
<1>3. ~ (M <= 0) /\ ~ (L <= M) /\ ~ (T > FragMaxFragments) /\ ~ (M > MaxUint16)
  BY OutcomeMeans
<1>4. T = (L + M - 1) \div M
  BY DEF totalFrags
<1> HIDE DEF M, L, T
<1>5. M >= 1 /\ M <= MaxUint16 /\ M < L /\ (L + M - 1) \in Nat /\ M > 0
  BY <1>1, <1>2, <1>3
<1>6. T \in Nat /\ T * M <= L + M - 1 /\ L + M - 1 < T * M + M
  BY <1>1, <1>4, <1>5, DivBounds
<1>7. T * M \in Nat /\ L <= T * M
  <2>1. T * M \in Nat
    BY <1>1, <1>6, ProductMonotonic
  <2> HIDE DEF T
  <2> QED
    BY <1>1, <1>6, <2>1
<1>8. T >= 2
  BY <1>1, <1>5, <1>6, <1>7, ProductAtLeastTwo
<1>9. (T - 1) * M < L
  <2>1. (T - 1) \in Nat /\ (T - 1) + 1 = T
    BY <1>6, <1>8
  <2>2. ((T - 1) + 1) * M = (T - 1) * M + M /\ (T - 1) * M \in Nat
    BY <1>1, <2>1, ProductMonotonic
  <2>3. T * M = (T - 1) * M + M
    BY <2>1, <2>2
  <2> QED
    BY <1>1, <1>6, <1>7, <2>2, <2>3
<1>10. T <= FragMaxFragments
  BY <1>2, <1>3, <1>6
<1> QED
  BY <1>1, <1>2, <1>5, <1>6, <1>7, <1>8, <1>9, <1>10 DEF M, L, T

LEMMA FragmentBounds ==
  ASSUME InputsOK, fragmentOutcome = "fragments", NEW i \in 0 .. (totalFrags - 1)
  PROVE  /\ i \in FragSlots /\ i \in Nat /\ i < totalFrags
         /\ i * maxFragPayload \in Nat
         /\ fragSize(i) \in Nat /\ fragSize(i) >= 1 /\ fragSize(i) <= maxFragPayload
         /\ i * maxFragPayload + fragSize(i) <= Len(payload)
         /\ i < totalFrags - 1 =>
              i * maxFragPayload + fragSize(i) = (i + 1) * maxFragPayload
         /\ i = totalFrags - 1 => i * maxFragPayload + fragSize(i) = Len(payload)
<1> DEFINE M == maxFragPayload
           L == Len(payload)
           T == totalFrags
<1>1. /\ M \in Nat /\ M >= 1 /\ L \in Nat /\ T \in Nat /\ T >= 2 /\ T <= FragMaxFragments
      /\ (T - 1) * M < L /\ L <= T * M /\ FragMaxFragments \in Nat
  BY CutBounds
<1>2. fragSize(i) = IF (i + 1) * M > L THEN L - i * M ELSE M
  BY DEF fragSize
<1>3. i \in 0 .. (T - 1)
  OBVIOUS
<1> HIDE DEF M, L, T
<1>4. i \in Nat /\ i <= T - 1 /\ (T - 1) \in Nat /\ i < T
  BY <1>1, <1>3
<1>5. i * M <= (T - 1) * M /\ i * M \in Nat /\ (T - 1) * M \in Nat /\ (i + 1) * M = i * M + M
  BY <1>1, <1>4, ProductMonotonic
<1>6. i * M < L
  BY <1>1, <1>5
<1>7. i \in FragSlots
  BY <1>1, <1>4 DEF FragSlots
<1>8. fragSize(i) \in Nat /\ fragSize(i) >= 1 /\ fragSize(i) <= M /\ i * M + fragSize(i) <= L
  BY <1>1, <1>2, <1>5, <1>6
<1>9. ASSUME i < T - 1 PROVE i * M + fragSize(i) = (i + 1) * M
  <2>1. i + 1 \in Nat /\ i + 1 <= T - 1
    BY <1>4, <1>9
  <2>2. (i + 1) * M <= (T - 1) * M /\ (i + 1) * M \in Nat
    BY <1>1, <1>4, <2>1, ProductMonotonic
  <2>3. ~ ((i + 1) * M > L)
    BY <1>1, <1>5, <2>2
  <2> QED
    BY <1>2, <1>5, <2>3
<1>10. ASSUME i = T - 1 PROVE i * M + fragSize(i) = L
  <2>1. (i + 1) * M = T * M
    BY <1>1, <1>10
  <2>2. L <= i * M + M
    BY <1>1, <1>5, <2>1
  <2> QED
    BY <1>1, <1>2, <1>5, <2>2
<1> QED
  BY <1>4, <1>5, <1>7, <1>8, <1>9, <1>10 DEF M, L, T

\* A fragment is never empty and never the nil of an empty slot.
LEMMA SliceType ==
  ASSUME InputsOK, fragmentOutcome = "fragments", NEW i \in 0 .. (totalFrags - 1)
  PROVE  slice(i) \in Seq(Nat) /\ slice(i) # Nil
<1>1. payload \in Seq(Nat)
  BY DEF InputsOK
<1>2. slice(i) \in Seq(Nat)
  BY <1>1, FragmentBounds, SliceIs DEF slice
<1> QED
  BY <1>2, FragmentationAssumption

(***************************************************************************)
(* The slices, glued together, are the payload.                            *)
(***************************************************************************)
LEMMA SlicesMakePayload ==
  ASSUME InputsOK, fragmentOutcome = "fragments"
  PROVE  FlattenSeq([k \in 1 .. totalFrags |-> slice(k - 1)]) = payload
<1> DEFINE T == totalFrags
           s == [k \in 1 .. T |-> slice(k - 1)]
           end(k) == (k - 1) * maxFragPayload + fragSize(k - 1)
           g == [k \in 1 .. T |-> SubSeq(payload, 1, end(k))]
<1>1. T \in Nat /\ T >= 2 /\ maxFragPayload \in Nat /\ Len(payload) \in Nat
  BY CutBounds
<1>2. payload \in Seq(Nat)
  BY DEF InputsOK
<1>3. \A k \in 1 .. T : (k - 1) \in 0 .. (T - 1) /\ k \in Nat
  BY <1>1
<1>4. ASSUME NEW k \in 1 .. T
      PROVE  /\ end(k) \in 0 .. Len(payload)
             /\ k # 1 => /\ (k - 1) \in 1 .. T
                         /\ SubSeq(payload, 1, end(k - 1)) \o slice(k - 1) = SubSeq(payload, 1, end(k))
             /\ k = 1 => slice(0) = SubSeq(payload, 1, end(1))
             /\ k = T => end(k) = Len(payload)
  <2> DEFINE a == (k - 1) * maxFragPayload
             c == fragSize(k - 1)
  <2>1. /\ a \in Nat /\ c \in Nat /\ a + c <= Len(payload)
        /\ (k - 1) = T - 1 => a + c = Len(payload)
    BY <1>3, FragmentBounds
  <2>2. end(k) = a + c
    OBVIOUS
  <2>3. slice(k - 1) = SubSeq(payload, a + 1, a + c)
    BY DEF slice
  <2>4. ASSUME k # 1
        PROVE  /\ (k - 1) \in 1 .. T
               /\ SubSeq(payload, 1, end(k - 1)) \o slice(k - 1) = SubSeq(payload, 1, end(k))
    <3>1. /\ (k - 1) \in 1 .. T /\ (k - 2) \in 0 .. (T - 1) /\ k - 2 < T - 1
          /\ (k - 1) - 1 = k - 2 /\ (k - 2) + 1 = k - 1
      BY <1>1, <2>4
    <3>2. (k - 2) * maxFragPayload + fragSize(k - 2) = ((k - 2) + 1) * maxFragPayload
      BY <3>1, FragmentBounds
    <3>3. end(k - 1) = a
      BY <3>1, <3>2
    <3> HIDE DEF a, c, end
    <3>4. SubSeq(payload, 1, a) \o SubSeq(payload, a + 1, a + c) = SubSeq(payload, 1, a + c)
      BY <1>2, <2>1, PrefixGrows
    <3> QED
      BY <2>2, <2>3, <3>1, <3>3, <3>4
  <2>5. ASSUME k = 1 PROVE slice(0) = SubSeq(payload, 1, end(1))
    <3>1. k - 1 = 0 /\ a = 0
      BY <1>1, <2>5
    <3>2. slice(0) = SubSeq(payload, 0 + 1, 0 + c) /\ end(1) = 0 + c
      BY <2>2, <2>3, <2>5, <3>1
    <3> QED
      BY <2>1, <3>2
  <2>6. k = T => end(k) = Len(payload)
    BY <2>1, <2>2
  <2>7. end(k) \in 0 .. Len(payload)
    <3> HIDE DEF a, c, end
    <3> QED
      BY <1>1, <2>1, <2>2
  <2> QED
    BY <2>4, <2>5, <2>6, <2>7
<1> HIDE DEF end, T
<1>5. RunningConcat(g, s, T)
  <2>1. ASSUME NEW k \in 1 .. T
        PROVE  SubSeq(payload, 1, end(k)) = IF k = 1 THEN s[k] ELSE g[k - 1] \o s[k]
    <3>1. s[k] = slice(k - 1)
      OBVIOUS
    <3>2. CASE k = 1
      <4>1. s[1] = slice(0)
        BY <1>1, <3>1, <3>2
      <4> QED
        BY <1>4, <3>2, <4>1
    <3>3. CASE k # 1
      <4>1. g[k - 1] = SubSeq(payload, 1, end(k - 1))
        BY <1>4, <3>3
      <4>2. SubSeq(payload, 1, end(k - 1)) \o slice(k - 1) = SubSeq(payload, 1, end(k))
        BY <1>4, <3>3
      <4> HIDE DEF g, s
      <4> QED
        BY <3>1, <3>3, <4>1, <4>2
    <3> QED
      BY <3>2, <3>3
  <2> QED
    BY <2>1 DEF RunningConcat
<1>6. Len(s) = T /\ g \in [1 .. T -> Seq(Nat)] /\ T > 0 /\ T \in 1 .. T
  <2>1. \A k \in 1 .. T : SubSeq(payload, 1, end(k)) \in Seq(Nat)
    BY <1>2, <1>4, PrefixIs
  <2>2. g \in [1 .. T -> Seq(Nat)]
    BY <2>1
  <2>3. Len(s) = T
    BY <1>1
  <2>4. T > 0 /\ T \in 1 .. T
    BY <1>1
  <2> QED
    BY <2>2, <2>3, <2>4
<1>7. g[T] = SubSeq(payload, 1, Len(payload))
  BY <1>4, <1>6
<1>8. SubSeq(payload, 1, Len(payload)) = payload
  BY <1>2
<1> HIDE DEF g, s
<1>9. FlattenSeq(s) = g[T]
  BY <1>1, <1>5, <1>6, FlattenIs
<1> QED
  BY <1>7, <1>8, <1>9 DEF s, T

-----------------------------------------------------------------------------
(***************************************************************************)
(* The inductive invariant                                                 *)
(***************************************************************************)
OutcomeSound ==
  \/ outcome = "none" /\ wire = {}
  \/ outcome = fragmentOutcome

\* Only fragments of the packet are on the wire.
WireSound ==
  \A f \in wire : outcome = "fragments" /\ \E i \in 0 .. (totalFrags - 1) : f = fragment(i)

ContextSound ==
  TotalFrags = 0 \/ (outcome = "fragments" /\ TotalFrags = totalFrags)

\* A slot is empty or holds the bytes that belong there.
SlotsSound ==
  /\ Fragments \in [FragSlots -> Seq(Nat) \cup {Nil}]
  /\ \A i \in FragSlots :
       Fragments[i] # Nil => i \in 0 .. (TotalFrags - 1) /\ Fragments[i] = slice(i)

HeaderSound ==
  TotalFrags # 0 /\ Fragments[0] # Nil => Header = fragment(0).hdr

\* ReceivedFrags counts the slots that are filled.
Counted == ReceivedFrags = Cardinality(Received)

(***************************************************************************)
(* CompletesOnce needs that ReceivedFrags, which AddFragment compares with *)
(* TotalFrags, counts slots and not fragments; AssembledIsOriginal needs   *)
(* what is in each slot.                                                   *)
(***************************************************************************)
FragInv ==
  /\ InputsOK
  /\ OutcomeSound
  /\ WireSound
  /\ ContextSound
  /\ SlotsSound
  /\ HeaderSound
  /\ Counted
  /\ CompletesOnce
  /\ AssembledIsOriginal

\* The context was created: the packet was cut, into as many fragments as it says.
LEMMA ContextMeans ==
  ASSUME FragInv, TotalFrags # 0
  PROVE  /\ fragmentOutcome = "fragments" /\ TotalFrags = totalFrags
         /\ TotalFrags \in Nat /\ TotalFrags >= 2 /\ TotalFrags <= FragMaxFragments
         /\ 0 .. (TotalFrags - 1) \subseteq FragSlots
         /\ 0 \in 0 .. (TotalFrags - 1)
<1>1. fragmentOutcome = "fragments" /\ TotalFrags = totalFrags
  BY DEF FragInv, ContextSound, OutcomeSound
<1>2. TotalFrags \in Nat /\ TotalFrags >= 2 /\ TotalFrags <= FragMaxFragments
      /\ FragMaxFragments \in Nat
  BY <1>1, CutBounds DEF FragInv
<1> QED
  BY <1>1, <1>2 DEF FragSlots

LEMMA ReceivedBounds ==
  ASSUME FragInv
  PROVE  /\ TotalFrags \in Nat
         /\ Received \subseteq 0 .. (TotalFrags - 1)
         /\ IsFiniteSet(Received) /\ Cardinality(Received) \in Nat
         /\ Cardinality(Received) <= TotalFrags
         /\ Cardinality(Received) = TotalFrags => Received = 0 .. (TotalFrags - 1)
         /\ Received = 0 .. (TotalFrags - 1) => Cardinality(Received) = TotalFrags
<1>1. TotalFrags \in Nat
  BY ContextMeans
<1>2. Received \subseteq 0 .. (TotalFrags - 1)
  BY DEF FragInv, SlotsSound, Received
<1>3. IsFiniteSet(0 .. (TotalFrags - 1)) /\ Cardinality(0 .. (TotalFrags - 1)) = TotalFrags
  <2>1. 0 \in Int /\ TotalFrags - 1 \in Int /\ (TotalFrags - 1) - 0 + 1 = TotalFrags
        /\ (0 > TotalFrags - 1 => TotalFrags = 0)
    BY <1>1
  <2> QED
    BY <2>1, FS_Interval
<1>4. IsFiniteSet(Received) /\ Cardinality(Received) <= TotalFrags
      /\ (TotalFrags = Cardinality(Received) => 0 .. (TotalFrags - 1) = Received)
  BY <1>2, <1>3, FS_Subset
<1>5. Cardinality(Received) \in Nat
  BY <1>4, FS_CardinalityType
<1> QED
  BY <1>1, <1>2, <1>3, <1>4, <1>5

LEMMA InitFrag == Init => FragInv
<1> SUFFICES ASSUME Init PROVE FragInv
  OBVIOUS
<1>1. InputsOK
  <2>1. PICK n \in PayloadSizes : payload = Bytes(n)
    BY DEF Init
  <2>2. n \in Nat
    BY FragmentationAssumption
  <2>3. [i \in 1 .. n |-> i] \in Seq(Nat)
    BY <2>2
  <2> QED
    BY <2>1, <2>3 DEF Init, InputsOK, Bytes
<1>2. OutcomeSound /\ WireSound /\ ContextSound /\ AssembledIsOriginal
  BY DEF Init, OutcomeSound, WireSound, ContextSound, AssembledIsOriginal
<1>3. SlotsSound /\ HeaderSound
  BY DEF Init, SlotsSound, HeaderSound
<1>4. Received = {}
  BY DEF Init, Received
<1>5. Counted
  BY <1>4, FS_EmptySet DEF Init, Counted
<1>6. CompletesOnce
  BY DEF Init, CompletesOnce
<1> QED
  BY <1>1, <1>2, <1>3, <1>5, <1>6 DEF FragInv

\* FragmentPacket depends on its arguments only, which do not change.
LEMMA InputsFixed ==
  ASSUME UNCHANGED inputs
  PROVE  /\ maxFragPayload' = maxFragPayload /\ totalFrags' = totalFrags
         /\ fragmentOutcome' = fragmentOutcome
         /\ \A i : fragSize(i)' = fragSize(i)
         /\ \A i : fragment(i)' = fragment(i)
         /\ \A i : slice(i)' = slice(i)
         /\ InputsOK' = InputsOK /\ OriginalHeader' = OriginalHeader
<1>1. payload' = payload /\ mtu' = mtu
  BY DEF inputs
<1>2. maxFragPayload' = maxFragPayload
  BY <1>1 DEF maxFragPayload
<1>3. totalFrags' = totalFrags
  BY <1>1, <1>2 DEF totalFrags
<1>4. fragmentOutcome' = fragmentOutcome
  BY <1>1, <1>2, <1>3 DEF fragmentOutcome
<1>5. \A i : fragSize(i)' = fragSize(i)
  BY <1>1, <1>2 DEF fragSize
<1>6. \A i : slice(i)' = slice(i)
  BY <1>1, <1>2, <1>5 DEF slice
<1>7. \A i : fragment(i)' = fragment(i)
  BY <1>1, <1>2, <1>3, <1>5 DEF fragment
<1>8. InputsOK' = InputsOK /\ OriginalHeader' = OriginalHeader
  BY <1>1 DEF InputsOK, OriginalHeader
<1> QED
  BY <1>2, <1>3, <1>4, <1>5, <1>6, <1>7, <1>8

LEMMA FragmentPacketKeeps ==
  ASSUME FragInv, FragmentPacket
  PROVE  FragInv'
<1>0. /\ UNCHANGED <<Fragments, TotalFrags, ReceivedFrags, Header, completions, assembled>>
      /\ UNCHANGED inputs /\ outcome = "none" /\ outcome' = fragmentOutcome
      /\ wire' = IF outcome' = "fragments"
                 THEN {fragment(i) : i \in 0 .. (totalFrags - 1)} ELSE {}
  BY DEF FragmentPacket, context
<1>1. TotalFrags = 0
  BY <1>0 DEF FragInv, ContextSound
<1>2. InputsOK' /\ OutcomeSound'
  BY <1>0, InputsFixed DEF FragInv, OutcomeSound
<1>3. WireSound'
  BY <1>0, InputsFixed DEF WireSound
<1>4. ContextSound' /\ HeaderSound'
  BY <1>0, <1>1 DEF ContextSound, HeaderSound
<1>5. SlotsSound'
  BY <1>0, InputsFixed DEF FragInv, SlotsSound
<1>6. Received' = Received
  BY <1>0 DEF Received
<1>7. Counted' /\ CompletesOnce'
  BY <1>0, <1>6 DEF FragInv, Counted, CompletesOnce
<1>8. AssembledIsOriginal'
  BY <1>0, InputsFixed DEF FragInv, AssembledIsOriginal, inputs
<1> QED
  BY <1>2, <1>3, <1>4, <1>5, <1>7, <1>8 DEF FragInv

\* A fragment on the wire, field by field.
LEMMA WireFragment ==
  ASSUME FragInv, NEW f \in wire
  PROVE  /\ outcome = "fragments" /\ fragmentOutcome = "fragments"
         /\ f.hdr.FragID \in 0 .. (totalFrags - 1)
         /\ f = fragment(f.hdr.FragID)
         /\ f.hdr.TotalFrags = totalFrags
         /\ f.hdr.PayloadLen = fragSize(f.hdr.FragID)
         /\ f.data = slice(f.hdr.FragID)
<1>1. PICK i \in 0 .. (totalFrags - 1) : f = fragment(i)
  BY DEF FragInv, WireSound
<1>2. outcome = "fragments" /\ fragmentOutcome = "fragments"
  BY DEF FragInv, WireSound, OutcomeSound
<1>3. /\ fragment(i).hdr.FragID = i /\ fragment(i).hdr.TotalFrags = totalFrags
      /\ fragment(i).hdr.PayloadLen = fragSize(i) /\ fragment(i).data = slice(i)
  BY DEF fragment, slice
<1> QED
  BY <1>1, <1>2, <1>3

LEMMA NewContextKeeps ==
  ASSUME FragInv, NEW f \in wire, NewFragmentContext(f)
  PROVE  FragInv'
<1>0. /\ UNCHANGED <<Fragments, ReceivedFrags, Header, completions, assembled>>
      /\ UNCHANGED <<inputs, outcome, wire>> /\ TotalFrags = 0
      /\ TotalFrags' = f.hdr.TotalFrags
  BY DEF NewFragmentContext
<1>1. TotalFrags' = totalFrags /\ outcome = "fragments" /\ fragmentOutcome = "fragments"
  BY <1>0, WireFragment
<1>2. totalFrags \in Nat /\ totalFrags >= 2
  BY <1>1, CutBounds DEF FragInv
<1>3. \A i \in FragSlots : Fragments[i] = Nil
  BY <1>0 DEF FragInv, SlotsSound
<1>4. Received = {} /\ Received' = {}
  BY <1>0, <1>3 DEF Received
<1>5. InputsOK' /\ OutcomeSound' /\ ContextSound'
  BY <1>0, <1>1, InputsFixed DEF FragInv, OutcomeSound, ContextSound
<1>6. WireSound'
  BY <1>0, InputsFixed DEF FragInv, WireSound
<1>7. SlotsSound'
  BY <1>0, <1>3 DEF FragInv, SlotsSound
<1>8. HeaderSound'
  <2>1. 0 \in FragSlots
    BY <1>1, <1>2, CutBounds DEF FragInv, FragSlots
  <2> QED
    BY <1>0, <1>3, <2>1 DEF HeaderSound
<1>9. Counted'
  BY <1>0, <1>4 DEF FragInv, Counted
<1>10. CompletesOnce'
  <2>1. 0 \in 0 .. (totalFrags - 1)
    BY <1>2
  <2>2. completions = 0
    BY <1>0 DEF FragInv, CompletesOnce
  <2> QED
    BY <1>0, <1>1, <1>4, <2>1, <2>2 DEF CompletesOnce
<1>11. AssembledIsOriginal'
  BY <1>0, InputsFixed DEF FragInv, AssembledIsOriginal, inputs
<1> QED
  BY <1>5, <1>6, <1>7, <1>8, <1>9, <1>10, <1>11 DEF FragInv

LEMMA AddFragmentKeeps ==
  ASSUME FragInv, NEW f \in wire, AddFragment(f)
  PROVE  FragInv'
<1> DEFINE id == f.hdr.FragID
<1>0. /\ UNCHANGED <<inputs, outcome, wire, TotalFrags, assembled>>
      /\ id < TotalFrags /\ Fragments[id] = Nil
      /\ Fragments' = [Fragments EXCEPT ![id] = f.data]
      /\ ReceivedFrags' = ReceivedFrags + 1
      /\ Header' = headerAfter(f)
      /\ completions' = IF ReceivedFrags' = TotalFrags THEN completions + 1 ELSE completions
  BY DEF AddFragment, isNewFragment
<1>1. /\ id \in 0 .. (totalFrags - 1) /\ f.data = slice(id) /\ f = fragment(id)
      /\ fragmentOutcome = "fragments"
  BY WireFragment
<1>2. TotalFrags # 0 /\ TotalFrags = totalFrags /\ TotalFrags \in Nat
      /\ 0 .. (TotalFrags - 1) \subseteq FragSlots
  <2>1. TotalFrags # 0
    <3>1. totalFrags \in Nat
      BY <1>1, CutBounds DEF FragInv
    <3>2. id \in Int /\ id >= 0
      BY <1>1, <3>1
    <3> QED
      BY <1>0, <3>2
  <2> QED
    BY <2>1, ContextMeans
<1>3. slice(id) \in Seq(Nat) /\ slice(id) # Nil
  BY <1>1, SliceType DEF FragInv
<1>4. id \in FragSlots
  BY <1>1, <1>2
<1> HIDE DEF id
<1>5. /\ Fragments' \in [FragSlots -> Seq(Nat) \cup {Nil}] /\ Fragments'[id] = slice(id)
      /\ \A i \in FragSlots : i # id => Fragments'[i] = Fragments[i]
  BY <1>0, <1>1, <1>3, <1>4 DEF FragInv, SlotsSound
<1>6. InputsOK' /\ OutcomeSound' /\ ContextSound'
  BY <1>0, InputsFixed DEF FragInv, OutcomeSound, ContextSound
<1>7. WireSound'
  BY <1>0, InputsFixed DEF FragInv, WireSound
<1>8. SlotsSound'
  <2> SUFFICES ASSUME NEW i \in FragSlots, Fragments'[i] # Nil
               PROVE  i \in 0 .. (TotalFrags - 1) /\ Fragments'[i] = slice(i)
    BY <1>0, <1>5, InputsFixed DEF SlotsSound
  <2>1. CASE i = id
    BY <1>1, <1>2, <1>5, <2>1
  <2>2. CASE i # id
    BY <1>5, <2>2 DEF FragInv, SlotsSound
  <2> QED
    BY <2>1, <2>2
<1>9. HeaderSound'
  <2> SUFFICES ASSUME Fragments'[0] # Nil PROVE Header' = fragment(0).hdr
    BY InputsFixed, <1>0 DEF HeaderSound
  <2>0. 0 \in FragSlots
    BY <1>2, ContextMeans
  <2>1. CASE id = 0
    BY <1>0, <1>1, <2>1 DEF headerAfter, id
  <2>2. CASE id # 0
    <3>1. Fragments[0] # Nil /\ Header' = Header
      BY <1>0, <1>5, <2>0, <2>2 DEF headerAfter, id
    <3> QED
      BY <1>2, <3>1 DEF FragInv, HeaderSound
  <2> QED
    BY <2>1, <2>2
<1>10. Received' = Received \cup {id} /\ id \notin Received
  BY <1>0, <1>3, <1>4, <1>5 DEF Received
<1>11. Cardinality(Received') = Cardinality(Received) + 1
  BY <1>10, ReceivedBounds, FS_AddElement
<1>12. Counted'
  BY <1>0, <1>11 DEF FragInv, Counted
<1>13. CompletesOnce'
  <2>1. Received # 0 .. (TotalFrags - 1)
    BY <1>1, <1>2, <1>10
  <2>2. completions = 0
    BY <2>1 DEF FragInv, CompletesOnce
  <2>3. Received' \subseteq 0 .. (TotalFrags - 1)
    BY <1>1, <1>2, <1>10, ReceivedBounds
  <2>4. Received' = 0 .. (TotalFrags - 1) <=> Cardinality(Received') = TotalFrags
    <3>1. IsFiniteSet(0 .. (TotalFrags - 1)) /\ Cardinality(0 .. (TotalFrags - 1)) = TotalFrags
      <4>1. 0 \in Int /\ TotalFrags - 1 \in Int /\ (TotalFrags - 1) - 0 + 1 = TotalFrags
            /\ (0 > TotalFrags - 1 => TotalFrags = 0)
        BY <1>2
      <4> QED
        BY <4>1, FS_Interval
    <3>2. TotalFrags = Cardinality(Received') => 0 .. (TotalFrags - 1) = Received'
      BY <2>3, <3>1, FS_Subset
    <3> QED
      BY <3>1, <3>2
  <2>5. ReceivedFrags' = Cardinality(Received')
    BY <1>12 DEF Counted
  <2>6. TotalFrags > 0
    BY <1>2
  <2>7. CASE Received' = 0 .. (TotalFrags - 1)
    <3>1. completions' = 1
      BY <1>0, <2>2, <2>4, <2>5, <2>7
    <3> QED
      BY <1>0, <2>6, <2>7, <3>1 DEF CompletesOnce
  <2>8. CASE Received' # 0 .. (TotalFrags - 1)
    <3>1. completions' = 0
      BY <1>0, <2>2, <2>4, <2>5, <2>8
    <3> QED
      BY <1>0, <2>8, <3>1 DEF CompletesOnce
  <2> QED
    BY <2>7, <2>8
<1>14. AssembledIsOriginal'
  BY <1>0, InputsFixed DEF FragInv, AssembledIsOriginal, inputs
<1> QED
  BY <1>6, <1>7, <1>8, <1>9, <1>12, <1>13, <1>14 DEF FragInv

\* With every slot filled, what Assemble glues is the payload.
LEMMA GluedIsPayload ==
  ASSUME FragInv, TotalFrags # 0, \A i \in 0 .. (TotalFrags - 1) : Fragments[i] # Nil
  PROVE  glued = payload
<1>1. /\ fragmentOutcome = "fragments" /\ TotalFrags = totalFrags /\ TotalFrags \in Nat
      /\ 0 .. (TotalFrags - 1) \subseteq FragSlots
  BY ContextMeans
<1>2. ASSUME NEW k \in 1 .. TotalFrags
      PROVE  (IF Fragments[k - 1] = Nil THEN <<>> ELSE Fragments[k - 1]) = slice(k - 1)
  <2>1. (k - 1) \in 0 .. (TotalFrags - 1)
    BY <1>1
  <2>2. Fragments[k - 1] # Nil /\ (k - 1) \in FragSlots
    BY <1>1, <2>1
  <2> QED
    BY <2>2 DEF FragInv, SlotsSound
<1>3. [k \in 1 .. TotalFrags |-> IF Fragments[k - 1] = Nil THEN <<>> ELSE Fragments[k - 1]]
        = [k \in 1 .. totalFrags |-> slice(k - 1)]
  BY <1>1, <1>2
<1>4. glued = FlattenSeq([k \in 1 .. totalFrags |-> slice(k - 1)])
  BY <1>3 DEF glued
<1> QED
  BY <1>1, <1>4, SlicesMakePayload DEF FragInv

\* The header that Assemble makes of the header of fragment 0.
wholeHeader(r, n) ==
  [r EXCEPT !.FlagFragment = FALSE, !.FragID = 0, !.TotalFrags = 0, !.PayloadLen = n]

\* Nothing of the old header is left in it.
LEMMA HeaderReplaced ==
  ASSUME NEW c, NEW d, NEW n, NEW r,
         r = [FlagFragment |-> TRUE, FragID |-> 0, TotalFrags |-> c, PayloadLen |-> d]
  PROVE  wholeHeader(r, n)
         = [FlagFragment |-> FALSE, FragID |-> 0, TotalFrags |-> 0, PayloadLen |-> n]
<1> DEFINE e == FALSE
           r1 == [r EXCEPT !.FlagFragment = e]
           r2 == [r1 EXCEPT !.FragID = 0]
           r3 == [r2 EXCEPT !.TotalFrags = 0]
           r4 == [r3 EXCEPT !.PayloadLen = n]
<1>0. wholeHeader(r, n) = r4
  BY Zenon DEF wholeHeader
<1> HIDE DEF e
<1>1. r1 = [FlagFragment |-> e, FragID |-> 0, TotalFrags |-> c, PayloadLen |-> d]
  OBVIOUS
<1> HIDE DEF r1
<1>2. r2 = [FlagFragment |-> e, FragID |-> 0, TotalFrags |-> c, PayloadLen |-> d]
  BY <1>1
<1> HIDE DEF r2
<1>3. r3 = [FlagFragment |-> e, FragID |-> 0, TotalFrags |-> 0, PayloadLen |-> d]
  BY <1>2
<1> HIDE DEF r3
<1>4. r4 = [FlagFragment |-> e, FragID |-> 0, TotalFrags |-> 0, PayloadLen |-> n]
  BY <1>3
<1> HIDE DEF r4
<1> QED
  BY <1>0, <1>4, Zenon DEF e

LEMMA AssembleKeeps ==
  ASSUME FragInv, Assemble
  PROVE  FragInv'
<1> DEFINE h == [Header EXCEPT !.FlagFragment = FALSE, !.FragID = 0,
                               !.TotalFrags = 0, !.PayloadLen = Len(glued)]
           r == [hdr |-> h, data |-> glued]
<1>0. /\ UNCHANGED <<outcome, wire, Fragments, TotalFrags, ReceivedFrags, Header, completions>>
      /\ UNCHANGED inputs /\ assembled' = assembled \cup {r}
      /\ TotalFrags # 0 /\ \A i \in 0 .. (TotalFrags - 1) : Fragments[i] # Nil
  BY ReceivedBounds DEF Assemble, canAssemble, context
<1>1. glued = payload
  BY <1>0, GluedIsPayload
<1>2. Header = fragment(0).hdr
  <2>1. 0 \in 0 .. (TotalFrags - 1)
    BY <1>0, ContextMeans
  <2> QED
    BY <1>0, <2>1 DEF FragInv, HeaderSound
<1>3. h = OriginalHeader
  <2>1. Header = [FlagFragment |-> TRUE, FragID |-> 0, TotalFrags |-> totalFrags,
                  PayloadLen |-> fragSize(0)]
    BY <1>2 DEF fragment
  <2>2. h = [FlagFragment |-> FALSE, FragID |-> 0, TotalFrags |-> 0,
             PayloadLen |-> Len(glued)]
    <3>1. h = wholeHeader(Header, Len(glued))
      BY Zenon DEF wholeHeader
    <3> QED
      BY <2>1, <3>1, HeaderReplaced, Zenon
  <2> QED
    BY <1>1, <2>2, Zenon DEF OriginalHeader
<1>4. r = [hdr |-> OriginalHeader, data |-> payload]
  BY <1>1, <1>3
<1> HIDE DEF r
<1>5. AssembledIsOriginal'
  BY <1>0, <1>4, InputsFixed DEF FragInv, AssembledIsOriginal, inputs
<1>6. InputsOK' /\ OutcomeSound' /\ ContextSound' /\ HeaderSound'
  BY <1>0, InputsFixed DEF FragInv, OutcomeSound, ContextSound, HeaderSound
<1>7. WireSound' /\ SlotsSound'
  BY <1>0, InputsFixed DEF FragInv, WireSound, SlotsSound
<1>8. Received' = Received
  BY <1>0 DEF Received
<1>9. Counted' /\ CompletesOnce'
  BY <1>0, <1>8 DEF FragInv, Counted, CompletesOnce
<1> QED
  BY <1>5, <1>6, <1>7, <1>9 DEF FragInv

LEMMA FragInductive == FragInv /\ [Next]_vars => FragInv'
<1> SUFFICES ASSUME FragInv, [Next]_vars PROVE FragInv'
  OBVIOUS
<1>1. CASE FragmentPacket
  BY <1>1, FragmentPacketKeeps
<1>2. ASSUME NEW f \in wire, NewFragmentContext(f) PROVE FragInv'
  BY <1>2, NewContextKeeps
<1>3. ASSUME NEW f \in wire, AddFragment(f) PROVE FragInv'
  BY <1>3, AddFragmentKeeps
<1>4. CASE Assemble
  BY <1>4, AssembleKeeps
<1>5. CASE UNCHANGED vars
  <2>1. /\ UNCHANGED <<outcome, wire, Fragments, TotalFrags, ReceivedFrags, Header>>
        /\ UNCHANGED <<inputs, completions, assembled>>
    BY <1>5 DEF vars, context
  <2>2. InputsOK' /\ OutcomeSound' /\ ContextSound' /\ HeaderSound'
    BY <2>1, InputsFixed DEF FragInv, OutcomeSound, ContextSound, HeaderSound
  <2>3. WireSound' /\ SlotsSound'
    BY <2>1, InputsFixed DEF FragInv, WireSound, SlotsSound
  <2>4. Received' = Received
    BY <2>1 DEF Received
  <2>5. Counted' /\ CompletesOnce'
    BY <2>1, <2>4 DEF FragInv, Counted, CompletesOnce
  <2>6. AssembledIsOriginal'
    BY <2>1, InputsFixed DEF FragInv, AssembledIsOriginal, inputs
  <2> QED
    BY <2>2, <2>3, <2>5, <2>6 DEF FragInv
<1> QED
  BY <1>1, <1>2, <1>3, <1>4, <1>5 DEF Next

LEMMA FragInvariant == Spec => []FragInv
  BY InitFrag, FragInductive, PTL DEF Spec

-----------------------------------------------------------------------------
(***************************************************************************)
(* The fragment IDs FragmentPacket produces are indices of the arrays of a *)
(* FragmentContext, and no fragment is empty or larger than PayloadLen     *)
(* can say.                                                                *)
(***************************************************************************)
THEOREM FragTypes == Spec => []FragTypeOK
<1>1. FragInv => FragTypeOK
  <2> SUFFICES ASSUME FragInv PROVE FragTypeOK
    OBVIOUS
  <2>1. outcome \in {"none", "nil", "error", "fragments"}
    BY OutcomeMeans DEF FragInv, OutcomeSound
  <2>2. ASSUME NEW f \in wire
        PROVE  f.hdr.FragID \in FragSlots /\ f.hdr.PayloadLen \in 1 .. MaxUint16
    <3> DEFINE i == f.hdr.FragID
    <3>1. /\ fragmentOutcome = "fragments" /\ i \in 0 .. (totalFrags - 1)
          /\ f.hdr.PayloadLen = fragSize(i)
      BY WireFragment
    <3>2. /\ i \in FragSlots /\ fragSize(i) \in Nat /\ fragSize(i) >= 1
          /\ fragSize(i) <= maxFragPayload
      BY <3>1, FragmentBounds DEF FragInv
    <3>3. maxFragPayload \in Nat /\ maxFragPayload <= MaxUint16 /\ MaxUint16 \in Nat
      BY <3>1, CutBounds DEF FragInv
    <3> QED
      BY <3>1, <3>2, <3>3
  <2>3. DOMAIN Fragments = FragSlots
    BY DEF FragInv, SlotsSound
  <2>4. TotalFrags \in 0 .. FragMaxFragments
    <3>1. FragMaxFragments \in Nat
      BY FragmentationAssumption
    <3> QED
      BY <3>1, ContextMeans
  <2>5. ReceivedFrags \in 0 .. TotalFrags
    BY ReceivedBounds DEF FragInv, Counted
  <2>6. completions \in Nat
    BY DEF FragInv, CompletesOnce
  <2> QED
    BY <2>1, <2>2, <2>3, <2>4, <2>5, <2>6 DEF FragTypeOK
<1> QED
  BY <1>1, FragInvariant, PTL

(***************************************************************************)
(* AddFragment returns true once, and exactly when the last missing        *)
(* fragment was stored, whatever the order and the number of copies in     *)
(* which fragments arrive.                                                 *)
(***************************************************************************)
THEOREM CompletionUnique == Spec => []CompletesOnce
<1>1. FragInv => CompletesOnce
  BY DEF FragInv
<1> QED
  BY <1>1, FragInvariant, PTL

(***************************************************************************)
(* Assemble returns the packet that FragmentPacket was given, byte for     *)
(* byte: no fragment is lost, doubled or put in the wrong place.           *)
(***************************************************************************)
THEOREM AssemblyFaithful == Spec => []AssembledIsOriginal
<1>1. FragInv => AssembledIsOriginal
  BY DEF FragInv
<1> QED
  BY <1>1, FragInvariant, PTL

(***************************************************************************)
(* Once AddFragment has returned true Assemble returns a packet, for every *)
(* payload of at most MaxUint16 bytes and for no other.                    *)
(***************************************************************************)
THEOREM CompleteAssembles == Spec => []CompleteMeansAssemblable
<1>1. FragInv => CompleteMeansAssemblable
  <2> SUFFICES ASSUME FragInv, completions > 0
               PROVE  canAssemble <=> Len(payload) <= MaxUint16
    BY DEF CompleteMeansAssemblable
  <2>1. TotalFrags > 0 /\ Received = 0 .. (TotalFrags - 1)
    BY DEF FragInv, CompletesOnce
  <2>2. ReceivedFrags = TotalFrags /\ TotalFrags \in Nat
    BY <2>1, ReceivedBounds DEF FragInv, Counted
  <2>3. \A i \in 0 .. (TotalFrags - 1) : Fragments[i] # Nil
    BY <2>1 DEF Received
  <2>4. glued = payload
    BY <2>1, <2>2, <2>3, GluedIsPayload
  <2> QED
    BY <2>1, <2>2, <2>3, <2>4 DEF canAssemble
<1> QED
  BY <1>1, FragInvariant, PTL
=============================================================================
