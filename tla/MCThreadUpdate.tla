--------------------------- MODULE MCThreadUpdate ---------------------------
(***************************************************************************)
(* The update thread for TLC.  Two devices; a ring of three slots is       *)
(* filled, wrapped and lapped by the reader's scan.  What the web server   *)
(* and its page make of the last records is checked by the assumptions of  *)
(* WebChecks.                                                              *)
(***************************************************************************)
EXTENDS ThreadUpdate, TLC, WebChecks

\* Names "a" of module "bc" and of module "c": two keys.
Apart == {<<"a", "bc">>, <<"a", "c">>}
ApartKeys == [s \in Apart |-> IF s[2] = "bc" THEN "abc" ELSE "ac"]

\* A module that has been heard of is shown as connected, unless the update
\* thread is gone.
HeardIsConnected ==
  \A m \in Modules \ {Virtual} :
    Marked(m) ~> ((m \in DOMAIN moduleData /\ moduleData[m]) \/ update.pc = "null")
=============================================================================
