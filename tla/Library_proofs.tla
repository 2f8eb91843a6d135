--------------------------- MODULE Library_proofs ---------------------------
(***************************************************************************)
(* Proofs about the package API, for any number of goroutines, keys and    *)
(* calls: setting a new key never disturbs a message that is being         *)
(* encrypted, the flags of a packet describe its payload, and Send refuses *)
(* no data for its size that it should take.                               *)
(***************************************************************************)
EXTENDS Library, TLAPS

Contents == Keys \cup {"zero", "torn"}

KeyTypes ==
  /\ keysSet \in 0 .. MaxKeys
  /\ encryptionKey \in (1 .. keysSet) \cup {Nil}
  /\ keyBytes \in [Buffers -> Contents]
  /\ pc \in [Callers -> {"idle", "called", "check key", "take key", "encrypt", "transmit"}]
  /\ heldKey \in [Callers -> Buffers \cup {Nil}]
  /\ takenKey \in [Callers -> Contents \cup {Nil}]

(***************************************************************************)
(* The inductive invariant.  HeldKeyNotReplaced alone is not inductive:    *)
(* that SetEncryptionKey leaves the held buffer alone follows from the     *)
(* buffer having been allocated before.                                    *)
(***************************************************************************)
RotationInv ==
  /\ KeyTypes
  /\ \A s \in Callers : pc[s] = "encrypt" =>
       /\ heldKey[s] \in 1 .. keysSet
       /\ keyBytes[heldKey[s]] \in {takenKey[s], "torn", "zero"}

\* The initial state of the package: no key, nobody inside Send.
LEMMA InitRotation == Init => RotationInv
  BY KeyStoreAssumption
  DEF Init, KeyInit, RotationInv, KeyTypes, Contents, Buffers

\* SetEncryptionKey writes to a buffer that nobody can hold yet.
LEMMA SetKeyRotation ==
  ASSUME RotationInv, NEW key \in Keys, SetKey(key)
  PROVE  RotationInv'
<1>0. keysSet \in Nat /\ MaxKeys \in Nat /\ keysSet < MaxKeys /\ keysSet' = keysSet + 1
  <2>1. keysSet \in 0 .. MaxKeys
    BY DEF RotationInv, KeyTypes
  <2>2. keysSet < MaxKeys /\ keysSet' = keysSet + 1
    BY DEF SetKey, SetEncryptionKey
  <2>3. MaxKeys \in Nat
    BY KeyStoreAssumption
  <2> QED
    BY <2>1, <2>2, <2>3
<1>1. keysSet' \in 0 .. MaxKeys /\ keysSet + 1 \in Buffers /\ keysSet + 1 \in 1 .. keysSet'
  BY <1>0 DEF Buffers
<1>2. encryptionKey' = keysSet + 1 /\ keyBytes' = [keyBytes EXCEPT ![keysSet + 1] = key]
  BY DEF SetKey, SetEncryptionKey, bufferForKey
<1>3. UNCHANGED <<pc, heldKey, takenKey>>
  BY DEF SetKey, sendVars
<1>4. KeyTypes'
  <2>1. keyBytes' \in [Buffers -> Contents]
    BY <1>2 DEF RotationInv, KeyTypes, Contents
  <2> QED
    BY <2>1, <1>1, <1>2, <1>3 DEF RotationInv, KeyTypes
<1>5. ASSUME NEW s \in Callers, pc[s] = "encrypt"
      PROVE  /\ heldKey[s] \in 1 .. keysSet'
             /\ keyBytes'[heldKey[s]] \in {takenKey[s], "torn", "zero"}
  <2>1. /\ heldKey[s] \in 1 .. keysSet
        /\ keyBytes[heldKey[s]] \in {takenKey[s], "torn", "zero"}
    BY <1>5 DEF RotationInv
  <2>2. /\ heldKey[s] \in Buffers
        /\ heldKey[s] # keysSet + 1
        /\ heldKey[s] \in 1 .. keysSet'
    BY <2>1, <1>0 DEF Buffers
  <2>3. keyBytes'[heldKey[s]] = keyBytes[heldKey[s]]
    BY <2>2, <1>2 DEF RotationInv, KeyTypes
  <2> QED
    BY <2>1, <2>2, <2>3
<1> QED
  BY <1>3, <1>4, <1>5 DEF RotationInv

\* A step of Send: only TakeKey makes a caller hold a key, the current one.
LEMMA SendRotation ==
  ASSUME RotationInv, NEW s \in Callers, Send(s)
  PROVE  RotationInv'
<1>1. UNCHANGED keyVars
  BY DEF Send, SendCall, SendStart, CheckKey, TakeKey, EncryptPayload, Transmit
<1>0. CASE \E r \in Requests : SendCall(s, r)
  <2>1. UNCHANGED <<heldKey, takenKey>> /\ pc' = [pc EXCEPT ![s] = "called"]
    BY <1>0 DEF SendCall
  <2> QED
    BY <1>1, <2>1 DEF RotationInv, KeyTypes, keyVars
<1>2. CASE SendStart(s)
  <2>1. UNCHANGED <<heldKey, takenKey>>
    BY <1>2 DEF SendStart
  <2>2. \E to \in {"idle", "check key", "transmit"} : pc' = [pc EXCEPT ![s] = to]
    BY <1>2, Zenon DEF SendStart, Return
  <2> QED
    BY <1>1, <2>1, <2>2 DEF RotationInv, KeyTypes, keyVars
<1>3. CASE CheckKey(s)
  <2>1. UNCHANGED <<heldKey, takenKey>>
    BY <1>3 DEF CheckKey
  <2>2. \E to \in {"idle", "take key"} : pc' = [pc EXCEPT ![s] = to]
    BY <1>3, Zenon DEF CheckKey, Return
  <2> QED
    BY <1>1, <2>1, <2>2 DEF RotationInv, KeyTypes, keyVars
<1>4. CASE TakeKey(s)
  <2>1. CASE ~ IsEncryptionEnabled \/ job[s].size = 0
    <3>1. pc' = [pc EXCEPT ![s] = "idle"] /\ UNCHANGED <<heldKey, takenKey>>
      BY <1>4, <2>1 DEF TakeKey, Return
    <3> QED
      BY <1>1, <3>1 DEF RotationInv, KeyTypes, keyVars
  <2>2. CASE ~ (~ IsEncryptionEnabled \/ job[s].size = 0)
    <3>1. /\ pc' = [pc EXCEPT ![s] = "encrypt"]
          /\ heldKey' = [heldKey EXCEPT ![s] = encryptionKey]
          /\ takenKey' = [takenKey EXCEPT ![s] = keyBytes[encryptionKey]]
      BY <1>4, <2>2 DEF TakeKey
    <3>2. encryptionKey \in 1 .. keysSet
      BY <2>2 DEF IsEncryptionEnabled, RotationInv, KeyTypes
    <3>3. keysSet \in 0 .. MaxKeys /\ MaxKeys \in Nat
      BY KeyStoreAssumption DEF RotationInv, KeyTypes
    <3>4. encryptionKey \in Buffers
      BY <3>2, <3>3 DEF Buffers
    <3> QED
      BY <1>1, <3>1, <3>2, <3>4 DEF RotationInv, KeyTypes, keyVars
  <2> QED
    BY <2>1, <2>2
<1>5. CASE EncryptPayload(s)
  <2>1. /\ heldKey' = [heldKey EXCEPT ![s] = Nil]
        /\ takenKey' = [takenKey EXCEPT ![s] = Nil]
    BY <1>5 DEF EncryptPayload
  <2>2. \E to \in {"idle", "transmit"} : pc' = [pc EXCEPT ![s] = to]
    BY <1>5, Zenon DEF EncryptPayload, Return
  <2> QED
    BY <1>1, <2>1, <2>2 DEF RotationInv, KeyTypes, keyVars
<1>6. CASE Transmit(s)
  <2>1. pc' = [pc EXCEPT ![s] = "idle"] /\ UNCHANGED <<heldKey, takenKey>>
    BY <1>6 DEF Transmit, Return
  <2> QED
    BY <1>1, <2>1 DEF RotationInv, KeyTypes, keyVars
<1> QED
  BY <1>0, <1>2, <1>3, <1>4, <1>5, <1>6 DEF Send

\* Clearing writes torn or zero bytes, into the current buffer only.
LEMMA ClearRotation ==
  ASSUME RotationInv, NEW bytes \in {"torn", "zero"},
         keyBytes' = [b \in Buffers |-> IF b = encryptionKey THEN bytes ELSE keyBytes[b]],
         encryptionKey' \in {encryptionKey, Nil},
         UNCHANGED <<keysSet, sendVars>>
  PROVE  RotationInv'
<1>1. UNCHANGED <<pc, heldKey, takenKey>>
  BY DEF sendVars
<1>2. keyBytes' \in [Buffers -> Contents]
  BY DEF RotationInv, KeyTypes, Contents
<1>3. KeyTypes'
  BY <1>1, <1>2 DEF RotationInv, KeyTypes
<1>4. ASSUME NEW s \in Callers, pc[s] = "encrypt"
      PROVE  keyBytes'[heldKey[s]] \in {takenKey[s], "torn", "zero"}
  <2>1. /\ heldKey[s] \in 1 .. keysSet
        /\ keyBytes[heldKey[s]] \in {takenKey[s], "torn", "zero"}
    BY <1>4 DEF RotationInv
  <2>2. keysSet \in 0 .. MaxKeys /\ MaxKeys \in Nat
    BY KeyStoreAssumption DEF RotationInv, KeyTypes
  <2>3. heldKey[s] \in Buffers
    BY <2>1, <2>2 DEF Buffers
  <2> QED
    BY <2>1, <2>3
<1> QED
  BY <1>1, <1>3, <1>4 DEF RotationInv

LEMMA RotationInductive == RotationInv /\ [Next]_vars => RotationInv'
<1> SUFFICES ASSUME RotationInv, [Next]_vars PROVE RotationInv'
  OBVIOUS
<1>1. CASE \E cfg \in {"default", "given"} : InitLibrary(cfg)
  BY <1>1 DEF InitLibrary, RotationInv, KeyTypes, keyVars, sendVars
<1>2. CASE \E callback \in {"callback", Nil} : SetHandler(callback)
  BY <1>2 DEF SetHandler, RotationInv, KeyTypes, keyVars, sendVars
<1>3. CASE \E key \in Keys : SetKey(key)
  BY <1>3, SetKeyRotation
<1>4. CASE ShutdownStart
  BY <1>4 DEF ShutdownStart, RotationInv, KeyTypes, keyVars, sendVars
<1>5. CASE ShutdownClear
  BY <1>5, ClearRotation DEF ShutdownClear, ClearStart, ClearFinish
<1>9. CASE ShutdownFinish
  BY <1>9 DEF ShutdownFinish, RotationInv, KeyTypes, keyVars, sendVars
<1>6. CASE ClearKey
  BY <1>6, ClearRotation DEF ClearKey, ClearStart, ClearFinish
<1>7. CASE \E s \in Callers : Send(s)
  BY <1>7, SendRotation
<1>8. CASE UNCHANGED vars
  BY <1>8 DEF vars, RotationInv, KeyTypes, keyVars, sendVars
<1> QED
  BY <1>1, <1>2, <1>3, <1>4, <1>5, <1>6, <1>7, <1>8, <1>9 DEF Next

(***************************************************************************)
(* SetEncryptionKey, Shutdown and ClearEncryptionKey may run at any moment *)
(* of any number of Sends: the key Encrypt took under keyMutex is never    *)
(* exchanged for another one before the cipher is made; only clearing      *)
(* reaches it.                                                             *)
(***************************************************************************)
THEOREM RotationSafe == Spec => []HeldKeyNotReplaced
<1>1. RotationInv => HeldKeyNotReplaced
  BY DEF RotationInv, HeldKeyNotReplaced
<1> QED
  BY InitRotation, RotationInductive, <1>1, PTL DEF Spec

-----------------------------------------------------------------------------
(***************************************************************************)
(* The rest of the type invariant: the package variables, the number of    *)
(* calls and the packets on the wire.                                      *)
(***************************************************************************)
APITypes ==
  /\ clearing \in {"no", "alone", "shutdown"}
  /\ initialized \in BOOLEAN
  /\ config = Nil <=> ~ initialized
  /\ recvCallback \in {"callback", Nil}
  /\ shutdown \in {"no", "started", "cleared"}
  /\ clearing = "shutdown" => shutdown = "started"
  /\ calls \in 0 .. MaxCalls

(***************************************************************************)
(* What a job looks like at each point of Send.  layers is what was done   *)
(* to the payload, zipLayers and aesLayers what the flags say; size has    *)
(* not grown but by the overhead of the encryption.                        *)
(***************************************************************************)
zipLayers(compressed) == IF compressed THEN <<"zip">> ELSE <<>>
aesLayers(encrypted)  == IF encrypted THEN <<"aes">> ELSE <<>>

Jobs == [request : Requests, size : Nat, compressed : BOOLEAN,
         layers : Seq({"zip", "aes"})]

\* Before the encryption.
Plain(j) ==
  /\ j \in Jobs
  /\ j.layers = zipLayers(j.compressed)
  /\ j.size <= j.request.size
  /\ j.request.size <= MaxPayload

\* When the packet is made.
Finished(j) ==
  /\ j \in Jobs
  /\ j.layers = zipLayers(j.compressed) \o aesLayers(j.request.encrypted)
  /\ j.request.size <= MaxPayload
  /\ j.size <= j.request.size + (IF j.request.encrypted THEN EncryptionOverhead ELSE 0)

JobSound(s) ==
  /\ pc[s] = "called" => /\ job[s].request \in Requests
                         /\ job[s] = jobOf(job[s].request)
  /\ pc[s] \in {"check key", "take key", "encrypt"} =>
       Plain(job[s]) /\ job[s].request.encrypted
  /\ pc[s] = "transmit" => Finished(job[s])

WireSound ==
  \A m \in wire :
    /\ m.PayloadLen \in 0 .. MaxPayload
    /\ m.layers = zipLayers(m.compressed) \o aesLayers(m.encrypted)

SendTypes ==
  /\ pc \in [Callers -> {"idle", "called", "check key", "take key", "encrypt", "transmit"}]
  /\ DOMAIN job = Callers
  /\ DOMAIN result = Callers

(***************************************************************************)
(* The inductive invariant for what is on the wire and for the answers of  *)
(* Send: the properties speak of the packet and of the request, the        *)
(* invariant follows the job from the one to the other.                    *)
(***************************************************************************)
SendInv ==
  /\ SendTypes
  /\ APITypes
  /\ \A s \in Callers : JobSound(s)
  /\ WireSound
  /\ TooLargeMeansAboveLimit

LEMMA InitSend == Init => SendInv
<1> SUFFICES ASSUME Init PROVE SendInv
  OBVIOUS
<1>1. SendTypes
  BY DEF Init, SendTypes
<1>4. APITypes
  <2>1. calls \in 0 .. MaxCalls
    BY LibraryAssumption DEF Init
  <2> QED
    BY <2>1, Zenon DEF Init, KeyInit, APITypes
<1>2. \A s \in Callers : JobSound(s)
  BY DEF Init, JobSound
<1>3. WireSound /\ TooLargeMeansAboveLimit
  BY DEF Init, WireSound, TooLargeMeansAboveLimit
<1> QED
  BY <1>1, <1>2, <1>3, <1>4 DEF SendInv

LEMMA JobFields ==
  ASSUME NEW j \in Jobs
  PROVE  /\ j.request \in Requests /\ j.request.size \in Nat
         /\ j.request.encrypted \in BOOLEAN
         /\ j.size \in Nat /\ j.compressed \in BOOLEAN
         /\ j.layers \in Seq({"zip", "aes"})
<1>1. j.request \in Requests /\ j.size \in Nat /\ j.layers \in Seq({"zip", "aes"})
  BY DEF Jobs
<1>2. j.compressed \in BOOLEAN
  BY DEF Jobs
<1>3. j.request.size \in Nat
  BY <1>1, LibraryAssumption DEF Requests
<1>4. j.request.encrypted \in BOOLEAN
  BY <1>1 DEF Requests
<1> QED
  BY <1>1, <1>2, <1>3, <1>4

\* A step of a caller changes nothing of the other callers.
LEMMA SendByOne ==
  ASSUME SendInv, NEW s \in Callers, APITypes', WireSound',
         NEW to \in {"idle", "called", "check key", "take key", "encrypt", "transmit"},
         pc' = [pc EXCEPT ![s] = to],
         DOMAIN job' = Callers, DOMAIN result' = Callers,
         \A t \in Callers \ {s} : job'[t] = job[t] /\ result'[t] = result[t],
         JobSound(s)',
         result'[s] = "too large" /\ to = "idle" =>
           \/ job'[s].request.size > MaxPayload
           \/ /\ job'[s].request.encrypted
              /\ job'[s].request.size + EncryptionOverhead > MaxPayload
  PROVE  SendInv'
<1>1. SendTypes'
  BY DEF SendInv, SendTypes
<1>2. pc'[s] = to /\ \A t \in Callers \ {s} : pc'[t] = pc[t]
  BY DEF SendInv, SendTypes
<1>3. \A t \in Callers : JobSound(t)'
  BY <1>2 DEF SendInv, JobSound
<1>4. TooLargeMeansAboveLimit'
  BY <1>2 DEF SendInv, TooLargeMeansAboveLimit
<1> QED
  BY <1>1, <1>3, <1>4 DEF SendInv

\* Compression keeps the request, sets the flag only when it did something,
\* and never makes the payload larger.
LEMMA CompressPlain ==
  ASSUME NEW r \in Requests, r.size <= MaxPayload, NEW j \in compressOutcomes(jobOf(r))
  PROVE  Plain(j) /\ j.request = r
<1> DEFINE j0 == jobOf(r)
<1>1. r.size \in Nat /\ r.compressed \in BOOLEAN /\ r.encrypted \in BOOLEAN
  BY LibraryAssumption DEF Requests
<1>2. /\ j0.request = r /\ j0.size = r.size /\ j0.compressed = r.compressed
      /\ j0.layers = zipLayers(r.compressed)
      /\ j0 \in Jobs
  <2>1. zipLayers(r.compressed) \in Seq({"zip", "aes"})
    <3>1. <<"zip">> \in Seq({"zip", "aes"}) /\ <<>> \in Seq({"zip", "aes"})
      OBVIOUS
    <3> QED
      BY <3>1, Zenon DEF zipLayers
  <2> QED
    BY <1>1, <2>1 DEF jobOf, Jobs, zipLayers
<1>3. CASE j = j0
  BY <1>1, <1>2, <1>3 DEF Plain
<1>4. CASE j # j0
  <2>1. PICK n \in 1 .. (j0.size - 1) :
          /\ ~ j0.compressed
          /\ j = [j0 EXCEPT !.size = n, !.compressed = TRUE, !.layers = Append(@, "zip")]
    BY <1>4 DEF compressOutcomes
  <2>2. n \in Nat /\ n <= r.size
    BY <1>1, <1>2, <2>1
  <2>3. Append(j0.layers, "zip") = <<"zip">>
    BY <1>2, <2>1 DEF zipLayers
  <2>4. /\ j.request = r /\ j.size = n /\ j.compressed = TRUE /\ j.layers = <<"zip">>
        /\ j \in Jobs
    <3> HIDE DEF j0
    <3>1. j = [request |-> r, size |-> n, compressed |-> TRUE, layers |-> <<"zip">>]
      BY <1>2, <2>1, <2>3 DEF Jobs
    <3>2. <<"zip">> \in Seq({"zip", "aes"})
      OBVIOUS
    <3> QED
      BY <2>2, <3>1, <3>2 DEF Jobs
  <2> QED
    BY <2>2, <2>4 DEF Plain, zipLayers
<1> QED
  BY <1>3, <1>4

\* A call of Send, which has not looked at anything yet.
LEMMA CallSend ==
  ASSUME SendInv, NEW s \in Callers, NEW r \in Requests, SendCall(s, r)
  PROVE  SendInv'
<1>1. /\ UNCHANGED <<keyVars, apiVars, result, wire>> /\ calls' = calls + 1 /\ calls < MaxCalls
      /\ job' = [job EXCEPT ![s] = jobOf(r)]
      /\ pc' = [pc EXCEPT ![s] = "called"]
  BY DEF SendCall
<1>2. APITypes' /\ WireSound'
  <2>1. calls' \in 0 .. MaxCalls
    BY <1>1, LibraryAssumption DEF SendInv, APITypes
  <2> QED
    BY <1>1, <2>1 DEF SendInv, APITypes, WireSound, keyVars, apiVars
<1>3. pc'[s] = "called" /\ job'[s] = jobOf(r)
  BY <1>1 DEF SendInv, SendTypes
<1>4. jobOf(r).request = r
  BY DEF jobOf
<1>5. JobSound(s)'
  BY <1>3, <1>4, Zenon DEF JobSound
<1>6. /\ DOMAIN job' = Callers /\ DOMAIN result' = Callers
      /\ \A t \in Callers \ {s} : job'[t] = job[t] /\ result'[t] = result[t]
  BY <1>1 DEF SendInv, SendTypes
<1> QED
  BY <1>1, <1>2, <1>5, <1>6, SendByOne

\* Send up to its compression.
LEMMA StartSend ==
  ASSUME SendInv, NEW s \in Callers, SendStart(s)
  PROVE  SendInv'
<1> DEFINE r == job[s].request
<1>0. r \in Requests /\ job[s] = jobOf(r) /\ job[s].size = r.size
  <2>1. r \in Requests /\ job[s] = jobOf(r)
    BY DEF SendStart, SendInv, JobSound
  <2>2. jobOf(r).size = r.size
    BY DEF jobOf
  <2> QED
    BY <2>1, <2>2, Zenon
<1>1. UNCHANGED <<keyVars, apiVars, calls, wire>>
  BY DEF SendStart
<1>2. APITypes' /\ WireSound'
  BY <1>1 DEF SendInv, APITypes, WireSound, keyVars, apiVars
<1>3. CASE ~ initialized \/ r.size > MaxPayload
  <2>0. r.size > MaxPayload <=> ~ (r.size <= MaxPayload)
    <3>1. r.size \in Nat /\ MaxPayload \in Nat
      BY <1>0, LibraryAssumption DEF Requests
    <3> QED
      BY <3>1
  <2>1. /\ job' = job
        /\ pc' = [pc EXCEPT ![s] = "idle"]
        /\ result' = [result EXCEPT ![s] =
             IF initialized THEN "too large" ELSE "not initialized"]
    BY <1>0, <1>3, <2>0 DEF SendStart, Return
  <2>2. pc'[s] = "idle" /\ job'[s].request = r
    BY <2>1 DEF SendInv, SendTypes
  <2>3. JobSound(s)'
    BY <2>2 DEF JobSound
  <2>4. result'[s] = "too large" => r.size > MaxPayload
    BY <1>3, <2>1 DEF SendInv, SendTypes
  <2>5. /\ DOMAIN job' = Callers /\ DOMAIN result' = Callers
        /\ \A t \in Callers \ {s} : job'[t] = job[t] /\ result'[t] = result[t]
    BY <2>1 DEF SendInv, SendTypes
  <2> QED
    BY <1>2, <2>1, <2>2, <2>3, <2>4, <2>5, SendByOne
<1>4. CASE ~ (~ initialized \/ r.size > MaxPayload)
  <2>1. PICK j \in compressOutcomes(jobOf(r)) : job' = [job EXCEPT ![s] = j]
    BY <1>0, <1>4 DEF SendStart
  <2>2. /\ r.size <= MaxPayload /\ UNCHANGED result
        /\ pc' = [pc EXCEPT ![s] = IF r.encrypted THEN "check key" ELSE "transmit"]
    BY <1>0, <1>4 DEF SendStart
  <2>3. Plain(j) /\ j.request = r
    BY <1>0, <2>1, <2>2, CompressPlain
  <2> HIDE DEF r
  <2>4. job'[s] = j
    BY <2>1 DEF SendInv, SendTypes
  <2>5. ~ r.encrypted => Finished(j)
    <3>1. \A l \in Seq({"zip", "aes"}) : l \o <<>> = l
      OBVIOUS
    <3>2. ~ r.encrypted => j.layers = zipLayers(j.compressed) \o aesLayers(j.request.encrypted)
      BY <2>3, <3>1 DEF Plain, Jobs, aesLayers
    <3>3. ~ r.encrypted => j.size <= j.request.size + 0
      <4>1. j.size \in Nat /\ j.request.size \in Nat /\ j.size <= j.request.size
        BY <2>3, JobFields DEF Plain
      <4> QED
        BY <4>1
    <3> QED
      BY <2>3, <3>2, <3>3 DEF Plain, Finished
  <2>6. /\ DOMAIN job' = Callers /\ DOMAIN result' = Callers
        /\ \A t \in Callers \ {s} : job'[t] = job[t] /\ result'[t] = result[t]
    BY <2>1, <2>2 DEF SendInv, SendTypes
  <2>7. CASE r.encrypted
    <3>1. pc' = [pc EXCEPT ![s] = "check key"] /\ pc'[s] = "check key"
      BY <2>2, <2>7 DEF SendInv, SendTypes
    <3>2. JobSound(s)'
      BY <2>3, <2>4, <2>7, <3>1 DEF JobSound
    <3> QED
      BY <1>2, <2>6, <3>1, <3>2, SendByOne
  <2>8. CASE ~ r.encrypted
    <3>1. pc' = [pc EXCEPT ![s] = "transmit"] /\ pc'[s] = "transmit"
      BY <2>2, <2>8 DEF SendInv, SendTypes
    <3>2. JobSound(s)'
      BY <2>4, <2>5, <2>8, <3>1 DEF JobSound
    <3> QED
      BY <1>2, <2>6, <3>1, <3>2, SendByOne
  <2> QED
    BY <2>7, <2>8
<1> QED
  BY <1>3, <1>4

\* Looking for the key leaves the job alone.
LEMMA KeySend ==
  ASSUME SendInv, NEW s \in Callers, CheckKey(s) \/ TakeKey(s)
  PROVE  SendInv'
<1>1. UNCHANGED <<keyVars, apiVars, job, calls, wire>>
  BY DEF CheckKey, TakeKey
<1>2. APITypes' /\ WireSound'
  BY <1>1 DEF SendInv, APITypes, WireSound, keyVars, apiVars
<1>3. PICK to \in {"idle", "take key", "encrypt"} :
        /\ pc' = [pc EXCEPT ![s] = to]
        /\ to = "idle" => \E answer \in {"no key", "empty data"} :
                            result' = [result EXCEPT ![s] = answer]
        /\ to # "idle" => UNCHANGED result
  <2>1. CASE CheckKey(s)
    BY <2>1, Zenon DEF CheckKey, Return
  <2>2. CASE TakeKey(s)
    BY <2>2, Zenon DEF TakeKey, Return
  <2> QED
    BY <2>1, <2>2
<1>4. Plain(job[s]) /\ job[s].request.encrypted
  BY DEF CheckKey, TakeKey, SendInv, JobSound
<1>5. JobSound(s)'
  BY <1>1, <1>3, <1>4 DEF JobSound, SendInv, SendTypes
<1>6. /\ DOMAIN result' = Callers
      /\ \A t \in Callers \ {s} : result'[t] = result[t]
      /\ to = "idle" => result'[s] # "too large"
  BY <1>3 DEF SendInv, SendTypes
<1>7. DOMAIN job' = Callers /\ \A t \in Callers \ {s} : job'[t] = job[t]
  BY <1>1 DEF SendInv, SendTypes
<1> QED
  BY <1>2, <1>3, <1>5, <1>6, <1>7, SendByOne

LEMMA EncryptedJob ==
  ASSUME NEW j, Plain(j), j.request.encrypted
  PROVE  Finished([j EXCEPT !.size = @ + EncryptionOverhead, !.layers = Append(@, "aes")])
<1> DEFINE n == j.size + EncryptionOverhead
           l == Append(j.layers, "aes")
           k == [j EXCEPT !.size = n, !.layers = l]
<1>1. /\ j \in Jobs /\ j.size \in Nat /\ j.request.size \in Nat
      /\ j.layers \in Seq({"zip", "aes"})
      /\ j.layers = zipLayers(j.compressed) /\ j.size <= j.request.size
      /\ j.request.size <= MaxPayload
  BY JobFields DEF Plain
<1>2. n \in Nat
  BY <1>1, LibraryAssumption
<1>3. l \in Seq({"zip", "aes"})
  BY <1>1
<1>4. k = [j EXCEPT !.size = @ + EncryptionOverhead, !.layers = Append(@, "aes")]
  BY <1>1 DEF Jobs
<1> HIDE DEF n, l
<1>5. /\ k \in Jobs /\ k.request = j.request /\ k.compressed = j.compressed
      /\ k.size = n /\ k.layers = l
  <2>1. k \in Jobs
    BY <1>1, <1>2, <1>3 DEF Jobs
  <2>2. k.request = j.request
    BY <1>1 DEF Jobs
  <2>3. k.compressed = j.compressed
    BY <1>1 DEF Jobs
  <2>4. k.size = n /\ k.layers = l
    BY <1>1 DEF Jobs
  <2> HIDE DEF k
  <2> QED
    BY <2>1, <2>2, <2>3, <2>4, Zenon
<1>6. l = zipLayers(j.compressed) \o <<"aes">>
  BY <1>1 DEF l, zipLayers
<1>7. n <= j.request.size + EncryptionOverhead
  BY <1>1, LibraryAssumption DEF n
<1> HIDE DEF k
<1>8. Finished(k)
  BY <1>1, <1>5, <1>6, <1>7 DEF Finished, aesLayers
<1> QED
  BY <1>4, <1>8

\* Sizes that pass the check of the payload, and sizes that do not.
LEMMA SizeLimit ==
  ASSUME NEW j, Finished(j)
  PROVE  /\ fitsPacket(j) => j.size \in 0 .. MaxPayload
         /\ ~ fitsPacket(j) => /\ j.request.encrypted
                               /\ j.request.size + EncryptionOverhead > MaxPayload
<1> DEFINE n == j.size
           m == j.request.size
<1>1. n \in Nat /\ m \in Nat /\ m <= MaxPayload
  BY JobFields DEF Finished
<1>2. MaxPayload \in Nat /\ EncryptionOverhead \in Nat
  BY LibraryAssumption
<1>3. fitsPacket(j) => j.size \in 0 .. MaxPayload
  BY <1>1, <1>2 DEF fitsPacket
<1>4. CASE j.request.encrypted
  <2>1. n <= m + EncryptionOverhead
    BY <1>4 DEF Finished
  <2> HIDE DEF n, m
  <2>2. ~ (n <= MaxPayload) => m + EncryptionOverhead > MaxPayload
    BY <1>1, <1>2, <2>1
  <2> QED
    BY <1>3, <1>4, <2>2 DEF fitsPacket, n, m
<1>5. CASE ~ j.request.encrypted
  <2>1. n <= m + 0
    BY <1>5 DEF Finished
  <2> HIDE DEF n, m
  <2>2. n <= MaxPayload
    BY <1>1, <1>2, <2>1
  <2> QED
    BY <1>3, <2>2 DEF fitsPacket, n
<1> QED
  BY <1>4, <1>5

\* Encryption adds its layer and its overhead.
LEMMA EncryptSend ==
  ASSUME SendInv, NEW s \in Callers, EncryptPayload(s)
  PROVE  SendInv'
<1> DEFINE j == job[s]
           k == [j EXCEPT !.size = @ + EncryptionOverhead, !.layers = Append(@, "aes")]
<1>1. UNCHANGED <<keyVars, apiVars, calls, wire>> /\ pc[s] = "encrypt"
  BY DEF EncryptPayload
<1>2. APITypes' /\ WireSound'
  BY <1>1 DEF SendInv, APITypes, WireSound, keyVars, apiVars
<1>3. Plain(j) /\ j.request.encrypted
  BY <1>1 DEF SendInv, JobSound
<1>4. CASE pc' = [pc EXCEPT ![s] = "idle"]
  <2>1. pc'[s] = "idle"
    BY <1>4 DEF SendInv, SendTypes
  <2>2. UNCHANGED job /\ result' = [result EXCEPT ![s] = "encryption error"]
    BY <2>1 DEF EncryptPayload, Return, SendInv, SendTypes
  <2>3. JobSound(s)'
    BY <2>1 DEF JobSound
  <2>4. /\ DOMAIN job' = Callers /\ DOMAIN result' = Callers
        /\ \A t \in Callers \ {s} : job'[t] = job[t] /\ result'[t] = result[t]
        /\ result'[s] # "too large"
    BY <2>2 DEF SendInv, SendTypes
  <2> QED
    BY <1>2, <1>4, <2>3, <2>4, SendByOne
<1>5. CASE pc' # [pc EXCEPT ![s] = "idle"]
  <2>1. UNCHANGED result /\ pc' = [pc EXCEPT ![s] = "transmit"]
    BY <1>5 DEF EncryptPayload, Return
  <2>2. job' = [job EXCEPT ![s] = k]
    BY <1>3, <1>5 DEF EncryptPayload, Return, SendInv, SendTypes, Plain, Jobs
  <2>3. Finished(k)
    BY <1>3, EncryptedJob
  <2> HIDE DEF k
  <2>4. JobSound(s)'
    BY <2>1, <2>2, <2>3 DEF JobSound, SendInv, SendTypes
  <2>5. /\ DOMAIN job' = Callers /\ DOMAIN result' = Callers
        /\ \A t \in Callers \ {s} : job'[t] = job[t] /\ result'[t] = result[t]
    BY <2>1, <2>2 DEF SendInv, SendTypes
  <2> QED
    BY <1>2, <2>1, <2>4, <2>5, SendByOne
<1> QED
  BY <1>4, <1>5

\* The packet is made of the job.
LEMMA TransmitSend ==
  ASSUME SendInv, NEW s \in Callers, Transmit(s)
  PROVE  SendInv'
<1> DEFINE j == job[s]
<1>1. /\ UNCHANGED <<keyVars, apiVars, job, calls>>
      /\ pc[s] = "transmit"
      /\ pc' = [pc EXCEPT ![s] = "idle"]
      /\ wire' = wire \/ (fitsPacket(j) /\ wire' = wire \cup {packetOf(j)})
  BY DEF Transmit, Return
<1>2. PICK answer \in {"too large", "ok", "transport error"} :
        /\ result' = [result EXCEPT ![s] = answer]
        /\ answer = "too large" => ~ fitsPacket(j)
  BY Zenon DEF Transmit, Return
<1>3. Finished(j)
  BY <1>1 DEF SendInv, JobSound
<1>4. /\ j.size \in Nat /\ j.request.size \in Nat /\ j.request.encrypted \in BOOLEAN
  BY <1>3, JobFields DEF Finished
<1>5. fitsPacket(j) => /\ packetOf(j).PayloadLen \in 0 .. MaxPayload
                       /\ packetOf(j).layers = zipLayers(packetOf(j).compressed)
                                               \o aesLayers(packetOf(j).encrypted)
  <2>1. /\ packetOf(j).PayloadLen = j.size /\ packetOf(j).compressed = j.compressed
        /\ packetOf(j).encrypted = j.request.encrypted /\ packetOf(j).layers = j.layers
    BY DEF packetOf
  <2>2. fitsPacket(j) => j.size \in 0 .. MaxPayload
    BY <1>3, SizeLimit
  <2>3. j.layers = zipLayers(j.compressed) \o aesLayers(j.request.encrypted)
    BY <1>3 DEF Finished
  <2> HIDE DEF j
  <2> QED
    BY <2>1, <2>2, <2>3
<1>6. APITypes'
  BY <1>1 DEF SendInv, APITypes, keyVars, apiVars
<1>7. WireSound'
  <2> HIDE DEF j
  <2> QED
    BY <1>1, <1>5 DEF SendInv, WireSound
<1>8. ~ fitsPacket(j) => j.request.encrypted /\ j.request.size + EncryptionOverhead > MaxPayload
  BY <1>3, SizeLimit
<1>9. JobSound(s)'
  BY <1>1 DEF JobSound, SendInv, SendTypes
<1>10. /\ DOMAIN job' = Callers /\ DOMAIN result' = Callers
       /\ job' = job /\ result'[s] = answer
       /\ \A t \in Callers \ {s} : result'[t] = result[t]
  BY <1>1, <1>2 DEF SendInv, SendTypes
<1> QED
  BY <1>1, <1>2, <1>6, <1>7, <1>8, <1>9, <1>10, SendByOne

\* The calls beside Send.
LEMMA OtherCallsSend ==
  ASSUME SendInv, UNCHANGED <<sendVars, wire>>, APITypes'
  PROVE  SendInv'
<1>1. UNCHANGED <<pc, job, result, wire>>
  BY DEF sendVars
<1>2. \A s \in Callers : JobSound(s)'
  BY <1>1 DEF SendInv, JobSound
<1> QED
  BY <1>1, <1>2 DEF SendInv, SendTypes, WireSound, TooLargeMeansAboveLimit

LEMMA SendInvInductive == SendInv /\ [Next]_vars => SendInv'
<1> SUFFICES ASSUME SendInv, [Next]_vars PROVE SendInv'
  OBVIOUS
<1>1. CASE \E cfg \in {"default", "given"} : InitLibrary(cfg)
  <2>1. APITypes' /\ UNCHANGED <<sendVars, wire>>
    BY <1>1, LibraryAssumption DEF InitLibrary, SendInv, APITypes, keyVars, sendVars
  <2> QED
    BY <2>1, OtherCallsSend
<1>2. CASE \E callback \in {"callback", Nil} : SetHandler(callback)
  <2>1. APITypes' /\ UNCHANGED <<sendVars, wire>>
    BY <1>2 DEF SetHandler, SendInv, APITypes, keyVars, sendVars
  <2> QED
    BY <2>1, OtherCallsSend
<1>3. CASE \E key \in Keys : SetKey(key)
  <2>1. APITypes' /\ UNCHANGED <<sendVars, wire>>
    BY <1>3 DEF SetKey, SetEncryptionKey, SendInv, APITypes, apiVars, sendVars
  <2> QED
    BY <2>1, OtherCallsSend
<1>4. CASE ShutdownStart
  <2>1. APITypes' /\ UNCHANGED <<sendVars, wire>>
    BY <1>4 DEF ShutdownStart, muFree, SendInv, APITypes, keyVars, sendVars
  <2> QED
    BY <2>1, OtherCallsSend
<1>5. CASE ShutdownClear
  <2>1. APITypes' /\ UNCHANGED <<sendVars, wire>>
    BY <1>5 DEF ShutdownClear, ClearStart, ClearFinish, lockAfterClear, SendInv, APITypes,
                sendVars
  <2> QED
    BY <2>1, OtherCallsSend
<1>9. CASE ShutdownFinish
  <2>1. APITypes' /\ UNCHANGED <<sendVars, wire>>
    BY <1>9 DEF ShutdownFinish, SendInv, APITypes, keyVars, sendVars
  <2> QED
    BY <2>1, OtherCallsSend
<1>6. CASE ClearKey
  <2>1. APITypes' /\ UNCHANGED <<sendVars, wire>>
    BY <1>6 DEF ClearKey, ClearStart, ClearFinish, lockAfterClear, SendInv, APITypes,
                apiVars, sendVars
  <2> QED
    BY <2>1, OtherCallsSend
<1>7. ASSUME NEW s \in Callers, Send(s) PROVE SendInv'
  BY <1>7, CallSend, StartSend, KeySend, EncryptSend, TransmitSend DEF Send
<1>8. CASE UNCHANGED vars
  <2>1. APITypes' /\ UNCHANGED <<sendVars, wire>>
    BY <1>8 DEF vars, SendInv, APITypes, keyVars, apiVars, sendVars
  <2> QED
    BY <2>1, OtherCallsSend
<1> QED
  BY <1>1, <1>2, <1>3, <1>4, <1>5, <1>6, <1>7, <1>8, <1>9 DEF Next

(***************************************************************************)
(* Types of the package state; every PayloadLen on the wire is a uint16,   *)
(* whatever compression and encryption made of the payload.                *)
(***************************************************************************)
THEOREM LibraryTypes == Spec => []LibraryTypeOK
<1>1. RotationInv /\ SendInv => LibraryTypeOK
  <2> SUFFICES ASSUME RotationInv, SendInv PROVE LibraryTypeOK
    OBVIOUS
  <2>1. encryptionKey \in Buffers \cup {Nil}
    <3>1. keysSet \in 0 .. MaxKeys /\ MaxKeys \in Nat
      BY KeyStoreAssumption DEF RotationInv, KeyTypes
    <3>2. \A b \in 1 .. keysSet : b \in Buffers
      BY <3>1 DEF Buffers
    <3> QED
      BY <3>2 DEF RotationInv, KeyTypes
  <2>2. (config = Nil) = ~ initialized
    BY DEF SendInv, APITypes
  <2>3. \A m \in wire : m.PayloadLen \in 0 .. MaxPayload
    BY DEF SendInv, WireSound
  <2> QED
    BY <2>1, <2>2, <2>3
    DEF RotationInv, KeyTypes, Contents, SendInv, APITypes, LibraryTypeOK
<1>2. Init => RotationInv /\ SendInv
  BY InitRotation, InitSend
<1> QED
  BY <1>1, <1>2, RotationInductive, SendInvInductive, PTL DEF Spec

(***************************************************************************)
(* The flags of a packet list exactly what was done to its payload, in the *)
(* order in which the receiver undoes it, whatever other goroutines do to  *)
(* the key and to the package between the steps of Send.                   *)
(***************************************************************************)
THEOREM FlagsCorrect == Spec => []FlagsDescribePayload
<1>1. SendInv => FlagsDescribePayload
  BY DEF SendInv, WireSound, FlagsDescribePayload, zipLayers, aesLayers
<1> QED
  BY InitSend, <1>1, SendInvInductive, PTL DEF Spec

(***************************************************************************)
(* Compression never makes Send refuse data; only data above the limit,    *)
(* and data that encryption lifts above it, is too large.                  *)
(***************************************************************************)
THEOREM TooLargeJustified == Spec => []TooLargeMeansAboveLimit
<1>1. SendInv => TooLargeMeansAboveLimit
  BY DEF SendInv
<1> QED
  BY InitSend, <1>1, SendInvInductive, PTL DEF Spec
=============================================================================
