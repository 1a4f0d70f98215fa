------------------------------ MODULE MCViewer ------------------------------
(* Three files, one with UTC in its name and one of other sizes; two signals; *)
(* the ring of the monitor, over all its fillings; and the assumptions of   *)
(* Statistics and of SignalTree.                                            *)
EXTENDS Viewer, Statistics, SignalTree

CONSTANTS sig1, sig2, file1, file2, file3

MCSignals == {sig1, sig2}
MCFiles   == {file1, file2, file3}
MCOtherSizes == {file3}
MCShift   == (file1 :> 0) @@ (file2 :> -1) @@ (file3 :> -1)
MCSteps   == {1, 3}

\* The ring of n slots after k records, as the update thread leaves it.
Ring(n, k, step) ==
  LET full == k >= n
      slot(p) == IF k > p THEN 10 + step * (p + n * ((k - 1 - p) \div n)) ELSE 0
  IN  [data  |-> [i \in 1 .. n |-> slot(i - 1)],
       value |-> k % n,
       begin |-> IF full THEN (k + 1) % n ELSE 0,
       min   |-> IF full THEN 10 + step * (k - n) ELSE 10,
       max   |-> 10 + step * (k - 1) + Cycle]

\* Of a ring with two free slots the line shows all there is in the window;
\* after that it shows the latest n - 2 records.
ASSUME PlayerShows ==
  \A n \in 4 .. 5, k \in 1 .. 12, step \in 2 .. 3 :
    LET sd   == Ring(n, k, step)
        live == IF k < n - 1 THEN 0 .. k - 1 ELSE k - n + 2 .. k - 1
    IN  \A lo, hi \in 8 .. 10 + 3 * k + 2 : lo < hi =>
          {Time(sd, p) : p \in Range(Points(sd, "player", lo, hi))}
            = {t \in {10 + step * i : i \in live} : Crosses(t, lo, hi)}
=============================================================================
