---------------------------- MODULE SignalChannel ----------------------------
(***************************************************************************)
(* The channel sigChan that every example program makes and registers with *)
(* signal.Notify, shared by all goroutines of the program that want to     *)
(* stop.  It has room for one signal; a signal that finds it full is       *)
(* dropped by os/signal.  The Go runtime hands a signal to the goroutine   *)
(* that has waited longest, to that one only.                              *)
(***************************************************************************)
EXTENDS Naturals, SequencesExt

CONSTANTS
  Programs,      \* the running programs, each with its own channel
  MaxSignals     \* bound: signals sent to all programs together

VARIABLES
  pending,       \* whether the buffer of the channel holds a signal
  waiters,       \* the goroutines blocked in a receive, oldest first
  handed,        \* the goroutines that received a signal
  signals        \* history: the signals that reached the channel

signalVars == <<pending, waiters, handed, signals>>

\* make(chan os.Signal, 1) and signal.Notify.
SignalInit ==
  /\ pending = [p \in Programs |-> FALSE]
  /\ waiters = [p \in Programs |-> <<>>]
  /\ handed = [p \in Programs |-> {}]
  /\ signals = [p \in Programs |-> 0]

\* A mutant: make(chan os.Signal), without a buffer.
bufferedNever == FALSE

\* What the buffer holds of a signal that nobody waits for.
buffered == TRUE

\* The user interrupts the program.
Signal(p) ==
  /\ FoldFunction(+, 0, signals) < MaxSignals
  /\ ~ pending[p]
  /\ signals' = [signals EXCEPT ![p] = @ + 1]
  /\ \/ /\ waiters[p] = <<>>
        /\ pending' = [pending EXCEPT ![p] = buffered]
        /\ UNCHANGED <<waiters, handed>>
     \/ /\ waiters[p] # <<>>
        /\ waiters' = [waiters EXCEPT ![p] = Tail(@)]
        /\ handed' = [handed EXCEPT ![p] = @ \cup {Head(waiters[p])}]
        /\ UNCHANGED pending

\* Goroutine g of p comes to a receive from the channel: it takes the
\* buffered signal, or waits.
Receive(p, g) ==
  /\ \/ /\ pending[p]
        /\ pending' = [pending EXCEPT ![p] = FALSE]
        /\ handed' = [handed EXCEPT ![p] = @ \cup {g}]
        /\ UNCHANGED waiters
     \/ /\ ~ pending[p]
        /\ waiters' = [waiters EXCEPT ![p] = Append(@, g)]
        /\ UNCHANGED <<pending, handed>>
  /\ UNCHANGED signals

\* The select of g goes on with another case than the signal.
Leave(p, g) ==
  /\ g \notin handed[p]
  /\ waiters' = [waiters EXCEPT ![p] = RemoveFirst(@, g)]
  /\ UNCHANGED <<pending, handed, signals>>
=============================================================================
