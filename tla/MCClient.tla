------------------------------ MODULE MCClient ------------------------------
(***************************************************************************)
(* The client for TLC: a value and a front, packets of two samples, and    *)
(* one socket, which is all that is needed unless two connects overlap.    *)
(***************************************************************************)
EXTENDS Client
=============================================================================
