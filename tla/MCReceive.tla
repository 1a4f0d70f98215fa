----------------------------- MODULE MCReceive -----------------------------
(* One connection or one port, three frames of a single piece each: a      *)
(* frame that came whole has one before and one after it, and lost units   *)
(* of these may join.  The log, with room for two messages, is checked by  *)
(* the assumptions of Logger.                                              *)
EXTENDS Receive, Logger

CONSTANT c1
=============================================================================
