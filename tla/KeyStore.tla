------------------------------ MODULE KeyStore ------------------------------
(***************************************************************************)
(* The global encryption key of optimize/crypto.go.  encryptionKey is a    *)
(* slice: SetEncryptionKey allocates a new one, ClearEncryptionKey writes  *)
(* zeros into it, and Encrypt copies the slice under keyMutex but reads    *)
(* the bytes behind it after it has released the lock.  The model keeps    *)
(* the slices and the bytes behind them apart for that reason.             *)
(***************************************************************************)
EXTENDS Naturals

CONSTANTS
  Keys,       \* the keys an application may set
  MaxKeys,    \* bound: calls of SetEncryptionKey
  Nil

ASSUME KeyStoreAssumption ==
  /\ MaxKeys \in Nat
  /\ Nil \notin 1 .. MaxKeys
  /\ "zero" \notin Keys
  /\ "torn" \notin Keys

VARIABLES
  encryptionKey,  \* the slice: Nil or the number of a buffer
  keyBytes,       \* what each buffer holds: a key, zeros, or a part of each
  keysSet,        \* the number of buffers allocated
  clearing        \* "no", or who zeroes the key, holding keyMutex:
                  \* "alone", or "shutdown"

keyVars == <<encryptionKey, keyBytes, keysSet, clearing>>

Buffers == 1 .. MaxKeys

KeyInit ==
  /\ encryptionKey = Nil
  /\ keyBytes = [b \in Buffers |-> "zero"]
  /\ keysSet = 0
  /\ clearing = "no"

keyMutexFree == clearing = "no"

\* A mutant: the new key is copied over the old one.
bufferForKeyInPlace == IF encryptionKey = Nil THEN keysSet + 1 ELSE encryptionKey

bufferForKey == keysSet + 1

SetEncryptionKey(key) ==
  /\ keyMutexFree
  /\ keysSet < MaxKeys
  /\ keysSet' = keysSet + 1
  /\ encryptionKey' = bufferForKey
  /\ keyBytes' = [keyBytes EXCEPT ![bufferForKey] = key]
  /\ UNCHANGED clearing

\* ClearEncryptionKey takes keyMutex and is in the middle of its loop.
ClearStart(who) ==
  /\ keyMutexFree
  /\ clearing' = who
  /\ keyBytes' = [b \in Buffers |-> IF b = encryptionKey THEN "torn" ELSE keyBytes[b]]
  /\ UNCHANGED <<encryptionKey, keysSet>>

\* A mutant: a return without unlocking when there is no key.
lockAfterClearKept == IF encryptionKey = Nil THEN clearing ELSE "no"

lockAfterClear == "no"

ClearFinish ==
  /\ clearing # "no"
  /\ keyBytes' = [b \in Buffers |-> IF b = encryptionKey THEN "zero" ELSE keyBytes[b]]
  /\ encryptionKey' = Nil
  /\ clearing' = lockAfterClear
  /\ UNCHANGED keysSet

IsEncryptionEnabled == encryptionKey # Nil
=============================================================================
