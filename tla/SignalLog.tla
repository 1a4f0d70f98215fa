----------------------------- MODULE SignalLog -----------------------------
(***************************************************************************)
(* What the archive promises, without its buffers: for every signal a log  *)
(* that holds the first so many of the values handed over, each once and   *)
(* in order.  Values of a signal are numbered 1, 2, ...                    *)
(*                                                                         *)
(* The promise ends when a save fails ("failed").                          *)
(***************************************************************************)
EXTENDS Naturals, Sequences

CONSTANT Signals

VARIABLES accepted, \* number of values handed over, by signal
          log,      \* what is on the disk, by signal
          failed

vars == <<accepted, log, failed>>

Init ==
  /\ accepted = [s \in Signals |-> 0]
  /\ log = [s \in Signals |-> <<>>]
  /\ failed \in BOOLEAN

Accept(s) ==
  /\ accepted' = [accepted EXCEPT ![s] = @ + 1]
  /\ UNCHANGED <<log, failed>>

\* A block goes to the disk: some signals' logs grow.
Flush ==
  /\ log' \in [Signals -> Seq(Nat)]
  /\ \A s \in Signals :
       /\ Len(log[s]) <= Len(log'[s])
       /\ Len(log'[s]) <= accepted[s]
       /\ \A i \in 1 .. Len(log'[s]) : log'[s][i] = i
  /\ UNCHANGED <<accepted, failed>>

Fail ==
  /\ ~failed
  /\ failed' = TRUE
  /\ UNCHANGED <<accepted, log>>

\* After a failure the logs may take anything.
Degraded ==
  /\ failed
  /\ UNCHANGED <<accepted, failed>>

Next ==
  \/ \E s \in Signals : Accept(s)
  \/ Flush
  \/ Fail
  \/ Degraded

Spec == Init /\ [][Next]_vars
=============================================================================
