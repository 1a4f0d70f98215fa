---------------------------- MODULE SignalQueue ----------------------------
(***************************************************************************)
(* What the server's signal buffer promises, without its ring.             *)
(*                                                                         *)
(* Records are numbered 1, 2, ... in the order in which the receiving      *)
(* threads are given room for them.  They become visible in that order,    *)
(* and the update thread processes each of them once, whole and in order:  *)
(* the header (module, name, type, time) and the values of a processed     *)
(* record belong to the same record.                                       *)
(*                                                                         *)
(* The promise ends when the backlog (accepted and not yet processed)      *)
(* reaches the capacity: nothing in the code holds the receiving threads   *)
(* back, so from then on only the order of acceptance and of publication   *)
(* is kept.  "overrun" says that this has happened.                        *)
(***************************************************************************)
EXTENDS Naturals, Sequences

CONSTANT Capacity

VARIABLES accepted,  \* number of records given room
          published, \* number of records the reader may see
          delivered, \* what the update thread has processed, in its order
          overrun    \* the backlog has reached Capacity at some time

vars == <<accepted, published, delivered, overrun>>

Init ==
  /\ accepted = 0
  /\ published = 0
  /\ delivered = <<>>
  /\ overrun = FALSE

\* Room for some more records is given, however full the buffer is.
Accept ==
  /\ accepted' \in Nat
  /\ accepted' > accepted
  /\ overrun' = (overrun \/ accepted' - Len(delivered) >= Capacity)
  /\ UNCHANGED <<published, delivered>>

Publish ==
  /\ published' \in Nat
  /\ published' > published
  /\ published' <= accepted
  /\ UNCHANGED <<accepted, delivered, overrun>>

\* The next record, whole.
Deliver ==
  /\ Len(delivered) < published
  /\ delivered' = Append(delivered, [hdr  |-> Len(delivered) + 1,
                                     vals |-> Len(delivered) + 1])
  /\ UNCHANGED <<accepted, published, overrun>>

\* After an overrun the reader may process anything.
Degraded ==
  /\ overrun
  /\ UNCHANGED <<accepted, published, overrun>>

Next ==
  \/ Accept
  \/ Publish
  \/ Deliver
  \/ Degraded

Spec == Init /\ [][Next]_vars
=============================================================================
