------------------------------- MODULE Library -------------------------------
(***************************************************************************)
(* The package API of overproto.go: Init, Shutdown, SetHandler and Send    *)
(* with its compression and encryption, called by any number of goroutines *)
(* at once.  Send reads the package state under three separate locks: mu   *)
(* for initialized, keyMutex in IsEncryptionEnabled, and keyMutex again in *)
(* Encrypt.  Other calls may run between them, and until the key is used.  *)
(* Shutdown is the one call that waits for a lock, keyMutex, while it      *)
(* holds another, mu.                                                      *)
(*                                                                         *)
(* A payload is abstracted to its size and to the transformations applied  *)
(* to it, in order: "zip" and "aes".                                       *)
(***************************************************************************)
EXTENDS KeyStore, Sequences

CONSTANTS
  Callers,             \* goroutines that call Send
  MaxCalls,            \* bound: calls of Send
  Sizes,               \* bound: the sizes of data
  MaxPayload,          \* 65535
  CompressThreshold,   \* 512
  EncryptionOverhead,  \* 28: IV and tag
  Clears               \* whether the key is cleared while Sends may run

ASSUME LibraryAssumption ==
  /\ MaxCalls \in Nat
  /\ Sizes \subseteq Nat
  /\ MaxPayload \in Nat
  /\ CompressThreshold \in Nat
  /\ CompressThreshold >= 1
  /\ EncryptionOverhead \in Nat
  /\ Clears \in BOOLEAN
  /\ Nil \notin {"default", "given"}

VARIABLES
  initialized, config, recvCallback,  \* the package variables
  shutdown,       \* where Shutdown is: while it is not "no" it holds mu
  pc,             \* where each caller is in Send
  job,            \* what it sends: the request and the payload made of it
  heldKey,        \* the local variable key of Encrypt
  takenKey,       \* history: the key that slice held when it was taken
  result,         \* what the last Send returned
  calls,          \* the number of calls of Send
  wire            \* the packets written to a connection

apiVars  == <<initialized, config, recvCallback, shutdown>>
sendVars == <<pc, job, heldKey, takenKey, result, calls>>
vars     == <<keyVars, apiVars, sendVars, wire>>

Requests == [size : Sizes, compressed : BOOLEAN, encrypted : BOOLEAN]

\* The job of a request: a caller that sets FlagCompressed passes data that
\* is compressed already.
jobOf(r) ==
  [request |-> r, size |-> r.size, compressed |-> r.compressed,
   layers |-> IF r.compressed THEN <<"zip">> ELSE <<>>]

Init ==
  /\ KeyInit
  /\ initialized = FALSE
  /\ config = Nil
  /\ recvCallback = Nil
  /\ shutdown = "no"
  /\ pc = [s \in Callers |-> "idle"]
  /\ job = [s \in Callers |-> Nil]
  /\ heldKey = [s \in Callers |-> Nil]
  /\ takenKey = [s \in Callers |-> Nil]
  /\ result = [s \in Callers |-> "none"]
  /\ calls = 0
  /\ wire = {}

-----------------------------------------------------------------------------
(***************************************************************************)
(* Init, Shutdown, SetHandler and the key                                  *)
(***************************************************************************)
muFree == shutdown = "no"

\* Init with cfg == nil makes a default configuration.
InitLibrary(cfg) ==
  /\ muFree
  /\ ~ initialized
  /\ initialized' = TRUE
  /\ config' = cfg
  /\ UNCHANGED <<keyVars, recvCallback, shutdown, sendVars, wire>>

SetHandler(callback) ==
  /\ muFree
  /\ recvCallback' = callback
  /\ UNCHANGED <<keyVars, initialized, config, shutdown, sendVars, wire>>

SetKey(key) == SetEncryptionKey(key) /\ UNCHANGED <<apiVars, sendVars, wire>>

\* Shutdown takes mu; without Init it returns at once and leaves the key alone.
ShutdownStart ==
  /\ Clears
  /\ muFree
  /\ initialized
  /\ shutdown' = "started"
  /\ UNCHANGED <<keyVars, initialized, config, recvCallback, sendVars, wire>>

\* It calls ClearEncryptionKey, which waits for keyMutex.
ShutdownClear ==
  /\ shutdown = "started"
  /\ \/ ClearStart("shutdown") /\ UNCHANGED shutdown
     \/ clearing = "shutdown" /\ ClearFinish /\ shutdown' = "cleared"
  /\ UNCHANGED <<initialized, config, recvCallback, sendVars, wire>>

ShutdownFinish ==
  /\ shutdown = "cleared"
  /\ shutdown' = "no"
  /\ initialized' = FALSE
  /\ config' = Nil
  /\ recvCallback' = Nil
  /\ UNCHANGED <<keyVars, sendVars, wire>>

\* ClearEncryptionKey called by the application.
ClearKey ==
  /\ Clears
  /\ \/ ClearStart("alone")
     \/ clearing = "alone" /\ ClearFinish
  /\ UNCHANGED <<apiVars, sendVars, wire>>

-----------------------------------------------------------------------------
(***************************************************************************)
(* Send                                                                    *)
(***************************************************************************)
Return(s, outcome) ==
  /\ pc' = [pc EXCEPT ![s] = "idle"]
  /\ result' = [result EXCEPT ![s] = outcome]

\* A mutant: the flag is set although compression did not help.
compressOutcomesFlagged(j) ==
  IF j.size >= CompressThreshold /\ ~ j.compressed
  THEN {[j EXCEPT !.compressed = TRUE]}
  ELSE {j}

\* A mutant: the result is taken also if it is larger.
compressOutcomesGrowing(j) ==
  {j} \cup
  (IF j.size >= CompressThreshold /\ ~ j.compressed
   THEN {[j EXCEPT !.size = @ + 1, !.compressed = TRUE, !.layers = Append(@, "zip")]}
   ELSE {})

\* Large data is compressed, unless that does not make it smaller.
compressOutcomes(j) ==
  {j} \cup
  (IF j.size >= CompressThreshold /\ ~ j.compressed
   THEN {[j EXCEPT !.size = n, !.compressed = TRUE, !.layers = Append(@, "zip")] :
           n \in 1 .. (j.size - 1)}
   ELSE {})

\* A goroutine calls Send, which waits for mu.
SendCall(s, r) ==
  /\ pc[s] = "idle"
  /\ calls < MaxCalls
  /\ calls' = calls + 1
  /\ job' = [job EXCEPT ![s] = jobOf(r)]
  /\ pc' = [pc EXCEPT ![s] = "called"]
  /\ UNCHANGED <<keyVars, apiVars, heldKey, takenKey, result, wire>>

\* Send up to its compression: the library is initialized, the size is legal.
SendStart(s) ==
  /\ pc[s] = "called"
  /\ muFree
  /\ \/ /\ ~ initialized \/ job[s].size > MaxPayload
        /\ Return(s, IF initialized THEN "too large" ELSE "not initialized")
        /\ UNCHANGED job
     \/ /\ initialized
        /\ job[s].size <= MaxPayload
        /\ \E j \in compressOutcomes(job[s]) : job' = [job EXCEPT ![s] = j]
        /\ pc' = [pc EXCEPT ![s] =
             IF job[s].request.encrypted THEN "check key" ELSE "transmit"]
        /\ UNCHANGED result
  /\ UNCHANGED <<keyVars, apiVars, heldKey, takenKey, calls, wire>>

CheckKey(s) ==
  /\ pc[s] = "check key"
  /\ keyMutexFree
  /\ IF IsEncryptionEnabled
     THEN pc' = [pc EXCEPT ![s] = "take key"] /\ UNCHANGED result
     ELSE Return(s, "no key")
  /\ UNCHANGED <<keyVars, apiVars, job, heldKey, takenKey, calls, wire>>

\* Encrypt takes the slice under keyMutex and checks it again.
TakeKey(s) ==
  /\ pc[s] = "take key"
  /\ keyMutexFree
  /\ IF ~ IsEncryptionEnabled \/ job[s].size = 0
     THEN /\ Return(s, IF IsEncryptionEnabled THEN "empty data" ELSE "no key")
          /\ UNCHANGED <<heldKey, takenKey>>
     ELSE /\ pc' = [pc EXCEPT ![s] = "encrypt"]
          /\ heldKey' = [heldKey EXCEPT ![s] = encryptionKey]
          /\ takenKey' = [takenKey EXCEPT ![s] = keyBytes[encryptionKey]]
          /\ UNCHANGED result
  /\ UNCHANGED <<keyVars, apiVars, job, calls, wire>>

\* NewCipher reads the bytes of the key, Seal encrypts, and Send puts the IV
\* in front; or the cipher or the random IV cannot be made.
EncryptPayload(s) ==
  /\ pc[s] = "encrypt"
  /\ takenKey' = [takenKey EXCEPT ![s] = Nil]
  /\ heldKey' = [heldKey EXCEPT ![s] = Nil]
  /\ \/ /\ job' = [job EXCEPT ![s].size = @ + EncryptionOverhead,
                              ![s].layers = Append(@, "aes")]
        /\ pc' = [pc EXCEPT ![s] = "transmit"]
        /\ UNCHANGED result
     \/ Return(s, "encryption error") /\ UNCHANGED job
  /\ UNCHANGED <<keyVars, apiVars, calls, wire>>

packetOf(j) ==
  [PayloadLen |-> j.size, compressed |-> j.compressed,
   encrypted |-> j.request.encrypted, layers |-> j.layers]

\* A mutant: the size of the payload is not checked again.
fitsPacketUnchecked(j) == TRUE

fitsPacket(j) == j.size <= MaxPayload

\* The header is filled in and the packet handed to TCPSend or UDPSend, which
\* may fail, as may the choice of the transport.
Transmit(s) ==
  /\ pc[s] = "transmit"
  /\ \/ ~ fitsPacket(job[s]) /\ Return(s, "too large") /\ UNCHANGED wire
     \/ /\ fitsPacket(job[s])
        /\ \/ Return(s, "ok") /\ wire' = wire \cup {packetOf(job[s])}
           \/ Return(s, "transport error") /\ UNCHANGED wire
  /\ UNCHANGED <<keyVars, apiVars, job, heldKey, takenKey, calls>>

Send(s) ==
  \/ \E r \in Requests : SendCall(s, r)
  \/ SendStart(s)
  \/ CheckKey(s)
  \/ TakeKey(s)
  \/ EncryptPayload(s)
  \/ Transmit(s)

Next ==
  \/ \E cfg \in {"default", "given"} : InitLibrary(cfg)
  \/ \E callback \in {"callback", Nil} : SetHandler(callback)
  \/ \E key \in Keys : SetKey(key)
  \/ ShutdownStart
  \/ ShutdownClear
  \/ ShutdownFinish
  \/ ClearKey
  \/ \E s \in Callers : Send(s)

Spec == Init /\ [][Next]_vars

\* A goroutine inside a call keeps running; sync.RWMutex lets neither a
\* reader nor a writer wait for ever, however often the lock is taken.
FairSpec ==
  /\ Spec
  /\ SF_vars(ShutdownClear)
  /\ WF_vars(ShutdownFinish)
  /\ WF_vars(ClearKey /\ clearing = "alone")
  /\ \A s \in Callers :
       /\ SF_vars(SendStart(s))
       /\ SF_vars(CheckKey(s))
       /\ SF_vars(TakeKey(s))
       /\ WF_vars(EncryptPayload(s))
       /\ WF_vars(Transmit(s))

-----------------------------------------------------------------------------
(***************************************************************************)
(* Properties                                                              *)
(***************************************************************************)
\* Type invariant; every PayloadLen on the wire is a uint16.
LibraryTypeOK ==
  /\ encryptionKey \in Buffers \cup {Nil}
  /\ keyBytes \in [Buffers -> Keys \cup {"zero", "torn"}]
  /\ keysSet \in 0 .. MaxKeys
  /\ clearing \in {"no", "alone", "shutdown"}
  /\ initialized \in BOOLEAN
  /\ (config = Nil) = ~ initialized
  /\ recvCallback \in {"callback", Nil}
  /\ shutdown \in {"no", "started", "cleared"}
  /\ clearing = "shutdown" => shutdown = "started"
  /\ pc \in [Callers -> {"idle", "called", "check key", "take key", "encrypt", "transmit"}]
  /\ heldKey \in [Callers -> Buffers \cup {Nil}]
  /\ calls \in 0 .. MaxCalls
  /\ \A m \in wire : m.PayloadLen \in 0 .. MaxPayload

\* A receiver that undoes what the flags say, decryption first, gets the data
\* back: the flags list exactly the transformations of the payload.
FlagsDescribePayload ==
  \A m \in wire : m.layers = (IF m.compressed THEN <<"zip">> ELSE <<>>)
                             \o (IF m.encrypted THEN <<"aes">> ELSE <<>>)

\* A message is encrypted with the key that was set when Encrypt took it,
\* whatever happens to the global key between that moment and its use.
HeldKeyUnchanged ==
  \A s \in Callers : pc[s] = "encrypt" => keyBytes[heldKey[s]] = takenKey[s]

\* Setting another key never reaches a message that is being encrypted: the
\* key Encrypt holds is the one it took, or was cleared.
HeldKeyNotReplaced ==
  \A s \in Callers : pc[s] = "encrypt" =>
    keyBytes[heldKey[s]] \in {takenKey[s], "torn", "zero"}

\* Every call of Send and of Shutdown returns, also while it waits for mu or
\* keyMutex and others set and clear the key and shut the library down again
\* and again.
CallsReturn ==
  /\ \A s \in Callers : pc[s] # "idle" ~> pc[s] = "idle"
  /\ shutdown # "no" ~> shutdown = "no"

\* Send answers "payload too large" only for data above the documented limit,
\* or for data that encryption lifts above it; compression never does.
TooLargeMeansAboveLimit ==
  \A s \in Callers : result[s] = "too large" /\ pc[s] = "idle" =>
    LET r == job[s].request
    IN  \/ r.size > MaxPayload
        \/ r.encrypted /\ r.size + EncryptionOverhead > MaxPayload
=============================================================================
