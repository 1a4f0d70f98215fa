----------------------------- MODULE WebServer -----------------------------
(***************************************************************************)
(* What the web server and the Zabbix agent of the monitor answer on one   *)
(* connection (web_server_impl.cpp, zbx_server.cpp).  Both run in the      *)
(* window's thread and answer within the handler, so a connection is a     *)
(* function of the pieces in which its bytes arrive.                       *)
(*                                                                         *)
(* A request is a sequence of tokens [kind, text], and a piece any part of *)
(* one or several: "get", those of the address, "space", and "end" for the *)
(* rest of the message.  An address is a path of segments, each with its   *)
(* slash, "more" for what is cut off a segment, then "?" and one "name"    *)
(* for each signal asked for.  The parser of messages is external: it      *)
(* hands over what a piece holds of the address, and refuses every further *)
(* piece once a callback has failed.                                       *)
(*                                                                         *)
(* The registry r: sig from keys to [name, module, type, active, last],    *)
(* last the values of the last packet with its time; modul from names to   *)
(* whether they are active.                                                *)
(***************************************************************************)
EXTENDS Integers, Sequences, SequencesExt

NewConnection ==
  [at |-> "start", fragment |-> << >>, read |-> 0, reqPage |-> << >>, reqSignals |-> << >>,
   answers |-> << >>]

Texts(fragment, kinds) ==
  LET of == SelectSeq(fragment, LAMBDA t : t.kind \in kinds)
  IN  [i \in DOMAIN of |-> of[i].text]

\* The callback takes every part of the address for a whole one: a part that
\* does not begin with a slash is an error.
OnUrl(c) ==
  IF c.fragment = << >> \/ Head(c.fragment).kind # "segment"
  THEN [c EXCEPT !.at = "error"]
  ELSE [c EXCEPT !.reqPage    = Texts(c.fragment, {"segment", "more"}),
                 !.reqSignals = Texts(c.fragment, {"name"}),
                 !.fragment   = << >>]

AllSignals(r) == r.sig

AllModules(r) == r.modul

\* Of a signal that is not known nothing is said; one asked for twice is there
\* once.
LastSignalData(r, snames) ==
  [s \in {x \in DOMAIN r.sig : Contains(snames, x)} |-> r.sig[s].last]

\* The start page has a name of its own; a page of api that is not known, and
\* a file that is not there, have an empty body.
Response(r, page, snames) ==
  CASE page = <<"/api", "/allSignals">>     -> [status |-> 200, body |-> AllSignals(r)]
    [] page = <<"/api", "/allModules">>     -> [status |-> 200, body |-> AllModules(r)]
    [] page = <<"/api", "/lastSignalData">> -> [status |-> 200, body |-> LastSignalData(r, snames)]
    [] OTHER -> [status |-> 200,
                 body |-> LET file == IF page = <<"/">> THEN <<"/index.html">> ELSE page
                          IN  IF file \in r.files THEN file ELSE << >>]

Token(r, c, t) ==
  LET next == [c EXCEPT !.read = c.read + 1]
  IN  CASE c.at = "error"    -> c
        [] t.kind = "get"    -> [next EXCEPT !.at = "address", !.fragment = << >>]
        [] t.kind = "space"  -> [OnUrl([next EXCEPT !.at = "rest"]) EXCEPT !.fragment = << >>]
        [] t.kind = "end"    -> [next EXCEPT !.at = "start",
                                   !.answers = Append(c.answers, Response(r, c.reqPage, c.reqSignals))]
        [] OTHER             -> [next EXCEPT !.at = "url", !.fragment = Append(c.fragment, t)]

\* A piece that is not parsed to its end is answered with "bad request"; the
\* connection stays.
ReadData(r, c, piece) ==
  LET parsed == FoldLeft(LAMBDA x, t : Token(r, x, t), [c EXCEPT !.read = 0], piece)
      read   == IF parsed.at = "url" THEN [OnUrl(parsed) EXCEPT !.fragment = << >>] ELSE parsed
  IN  IF parsed.read < Len(piece)
      THEN [read EXCEPT !.answers = Append(read.answers, [status |-> 400, body |-> << >>])]
      ELSE read

\* The agent takes all that has arrived for one name.
GetLastValueStr(r, sname) ==
  IF sname \in DOMAIN r.sig THEN r.sig[sname].last.vals[Len(r.sig[sname].last.vals)] ELSE 0

\* What has arrived is a sequence of names, of which the last may be cut off.
ZbxReadData(r, arrived) == IF Len(arrived) = 1 THEN GetLastValueStr(r, arrived[1]) ELSE 0
=============================================================================
