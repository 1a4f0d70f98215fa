---------------------------- MODULE MCBufferData ----------------------------
(***************************************************************************)
(* The signal buffer for TLC.  The bounds let two threads hold the whole   *)
(* ring between them, lap the reader, and lose records.                    *)
(***************************************************************************)
EXTENDS BufferData

\* Every record given room is processed, unless the reader is lapped.
EventuallyDelivered ==
  \A r \in 1 .. MaxRecords : (reserved >= r) ~> (Len(delivered) >= r \/ overrun)
=============================================================================
