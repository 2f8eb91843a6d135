---------------------------- MODULE Fragmentation ----------------------------
(***************************************************************************)
(* core/fragment.go: FragmentPacket cuts a packet into fragments, the      *)
(* datagram service delivers them in any order, several times or never,    *)
(* and a FragmentContext shared by any number of goroutines puts them      *)
(* together again.  AddFragment and Assemble run under ctx.mu, so each is  *)
(* one action; between the AddFragment that completes the packet and the   *)
(* Assemble that follows it, other goroutines may run.                     *)
(*                                                                         *)
(* Bytes are abstracted to their positions in the original payload, which  *)
(* tells any two of them apart.  Of the header only the fields that        *)
(* fragmentation changes are kept; Serialize and Deserialize carry them    *)
(* over unchanged.                                                         *)
(***************************************************************************)
EXTENDS Integers, FiniteSets, SequencesExt

CONSTANTS
  Overhead,          \* HeaderSize + 4, the bytes of a packet around its payload
  MaxUint16,         \* 65535
  UintMod,           \* the number of values of Go's uint
  FragMaxFragments,  \* 256
  PayloadSizes,      \* bound: the sizes of the payload to be sent
  MTUs,              \* bound: the MTUs it is cut for
  Nil

ASSUME FragmentationAssumption ==
  /\ Overhead \in Nat
  /\ UintMod \in Nat
  /\ Overhead < UintMod
  /\ MaxUint16 \in Nat
  /\ MaxUint16 < UintMod
  /\ FragMaxFragments \in Nat
  /\ FragMaxFragments <= MaxUint16
  /\ PayloadSizes \subseteq Nat
  /\ MTUs \subseteq 0 .. (UintMod - 1)
  /\ Nil \notin Seq(Nat)

VARIABLES
  payload, mtu,      \* the arguments of FragmentPacket
  outcome,           \* what it returned: "nil", "error" or "fragments"
  wire,              \* the fragments in the network
  Fragments,         \* FragmentContext: the data of each fragment, or Nil
  TotalFrags, ReceivedFrags,
  Header,            \* the header of fragment 0
  completions,       \* history: how often AddFragment returned true
  assembled          \* history: what the successful calls of Assemble returned

inputs   == <<payload, mtu>>
context  == <<Fragments, TotalFrags, ReceivedFrags, Header>>
vars     == <<inputs, outcome, wire, context, completions, assembled>>

FragSlots == 0 .. (FragMaxFragments - 1)
Bytes(n)  == [i \in 1 .. n |-> i]

\* The header of the packet before fragmentation.
OriginalHeader ==
  [FlagFragment |-> FALSE, FragID |-> 0, TotalFrags |-> 0, PayloadLen |-> Len(payload)]

Init ==
  /\ \E n \in PayloadSizes : payload = Bytes(n)
  /\ mtu \in MTUs
  /\ outcome = "none"
  /\ wire = {}
  /\ Fragments = [i \in FragSlots |-> Nil]
  /\ TotalFrags = 0
  /\ ReceivedFrags = 0
  /\ Header = Nil
  /\ completions = 0
  /\ assembled = {}

-----------------------------------------------------------------------------
(***************************************************************************)
(* FragmentPacket                                                          *)
(***************************************************************************)
maxFragPayload == (mtu - Overhead) % UintMod

totalFrags == (Len(payload) + maxFragPayload - 1) \div maxFragPayload

\* A mutant: the limit on the number of fragments is not checked.
fragmentOutcomeUnlimited ==
  CASE maxFragPayload <= 0            -> "error"
    [] Len(payload) <= maxFragPayload -> "nil"
    [] maxFragPayload > MaxUint16     -> "error"
    [] OTHER                          -> "fragments"

\* Nothing is cut if the payload fits into one fragment; it cannot be cut if
\* there is no room for payload, if there are too many fragments, or if a
\* fragment is too large for PayloadLen.
fragmentOutcome ==
  CASE maxFragPayload <= 0            -> "error"
    [] Len(payload) <= maxFragPayload -> "nil"
    [] OTHER -> IF totalFrags > FragMaxFragments \/ maxFragPayload > MaxUint16
                THEN "error"
                ELSE "fragments"

fragSize(i) ==
  IF (i + 1) * maxFragPayload > Len(payload)
  THEN Len(payload) - i * maxFragPayload
  ELSE maxFragPayload

\* The i-th fragment, as Deserialize returns it to the receiver.
fragment(i) ==
  [hdr  |-> [FlagFragment |-> TRUE, FragID |-> i, TotalFrags |-> totalFrags,
             PayloadLen |-> fragSize(i)],
   data |-> SubSeq(payload, i * maxFragPayload + 1,
                   i * maxFragPayload + fragSize(i))]

FragmentPacket ==
  /\ outcome = "none"
  /\ outcome' = fragmentOutcome
  /\ wire' = IF outcome' = "fragments"
             THEN {fragment(i) : i \in 0 .. (totalFrags - 1)}
             ELSE {}
  /\ UNCHANGED <<inputs, context, completions, assembled>>

-----------------------------------------------------------------------------
(***************************************************************************)
(* FragmentContext                                                         *)
(***************************************************************************)
\* The first fragment to arrive, whichever it is, creates the context.
NewFragmentContext(f) ==
  /\ TotalFrags = 0
  /\ TotalFrags' = f.hdr.TotalFrags
  /\ UNCHANGED <<inputs, outcome, wire, Fragments, ReceivedFrags, Header,
                 completions, assembled>>

\* A mutant: a fragment that was received before is counted again.
isNewFragmentAlways(f) == f.hdr.FragID < TotalFrags

\* A mutant: fragment IDs are taken to start at 1.
isNewFragmentOneBased(f) ==
  /\ f.hdr.FragID \in 1 .. TotalFrags
  /\ Fragments[f.hdr.FragID] = Nil

isNewFragment(f) ==
  /\ f.hdr.FragID < TotalFrags
  /\ Fragments[f.hdr.FragID] = Nil

headerAfter(f) == IF f.hdr.FragID = 0 THEN f.hdr ELSE Header

\* A call with an invalid or a duplicate fragment ID returns without changing
\* the context.  Data longer than MaxUint16, which AddFragment would refuse,
\* does not come out of Deserialize.
AddFragment(f) ==
  /\ isNewFragment(f)
  /\ Fragments' = [Fragments EXCEPT ![f.hdr.FragID] = f.data]
  /\ ReceivedFrags' = ReceivedFrags + 1
  /\ Header' = headerAfter(f)
  /\ completions' =
       IF ReceivedFrags' = TotalFrags THEN completions + 1 ELSE completions
  /\ UNCHANGED <<inputs, outcome, wire, TotalFrags, assembled>>

\* A mutant: Assemble does not check the number of fragments received.
canAssembleAny == TotalFrags > 0 /\ Header # Nil

\* A mutant: a payload of the maximal size is refused.
canAssembleBelowLimit ==
  /\ TotalFrags > 0
  /\ ReceivedFrags = TotalFrags
  /\ Len(payload) < MaxUint16

\* The fragments glued together in the order of their IDs.
glued == FlattenSeq([k \in 1 .. TotalFrags |->
                       IF Fragments[k - 1] = Nil THEN <<>> ELSE Fragments[k - 1]])

\* Assemble returns an error, and changes nothing, while a fragment is
\* missing or if the payload is too large for PayloadLen.
canAssemble ==
  /\ TotalFrags > 0
  /\ ReceivedFrags = TotalFrags
  /\ \A i \in 0 .. (TotalFrags - 1) : Fragments[i] # Nil
  /\ Len(glued) <= MaxUint16

Assemble ==
  /\ canAssemble
  /\ assembled' = assembled \cup
       {[hdr  |-> [Header EXCEPT !.FlagFragment = FALSE, !.FragID = 0,
                                 !.TotalFrags = 0, !.PayloadLen = Len(glued)],
         data |-> glued]}
  /\ UNCHANGED <<inputs, outcome, wire, context, completions>>

Next ==
  \/ FragmentPacket
  \/ \E f \in wire : NewFragmentContext(f)
  \/ \E f \in wire : AddFragment(f)
  \/ Assemble

Spec == Init /\ [][Next]_vars

\* FragmentPacket returns, every fragment reaches the receiver at some time,
\* and the goroutine that completed the packet goes on to assemble it.
FairSpec ==
  /\ Spec
  /\ WF_vars(FragmentPacket)
  /\ WF_vars(\E f \in wire : NewFragmentContext(f))
  /\ WF_vars(\E f \in wire : AddFragment(f))
  /\ WF_vars(Assemble)

-----------------------------------------------------------------------------
(***************************************************************************)
(* Properties                                                              *)
(***************************************************************************)
Received == {i \in FragSlots : Fragments[i] # Nil}

\* Type invariant; the fragment IDs FragmentPacket produces are indices of
\* the fixed-size arrays of a FragmentContext.
FragTypeOK ==
  /\ outcome \in {"none", "nil", "error", "fragments"}
  /\ \A f \in wire : f.hdr.FragID \in FragSlots /\ f.hdr.PayloadLen \in 1 .. MaxUint16
  /\ DOMAIN Fragments = FragSlots
  /\ TotalFrags \in 0 .. FragMaxFragments
  /\ ReceivedFrags \in 0 .. TotalFrags
  /\ completions \in Nat

\* Whatever the order and the number of copies in which fragments arrive,
\* AddFragment returns true once, and exactly when the last missing fragment
\* was stored: only one goroutine is told to assemble the packet.
CompletesOnce ==
  completions = (IF TotalFrags > 0 /\ Received = 0 .. (TotalFrags - 1) THEN 1 ELSE 0)

\* Assemble returns the packet that FragmentPacket was given: its payload,
\* byte for byte, and its header without any trace of the fragmentation.
AssembledIsOriginal ==
  \A r \in assembled : r = [hdr |-> OriginalHeader, data |-> payload]

\* A packet that was cut into fragments which all arrive is assembled, if it
\* is not larger than a packet may be.
EventuallyAssembled ==
  outcome = "fragments" /\ Len(payload) <= MaxUint16 ~> assembled # {}

\* Once AddFragment has returned true, Assemble returns a packet, except for
\* the payloads above 65535 bytes that FragmentPacket does not refuse.
CompleteMeansAssemblable ==
  completions > 0 => (canAssemble <=> Len(payload) <= MaxUint16)
=============================================================================
