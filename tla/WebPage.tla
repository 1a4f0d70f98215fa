------------------------------ MODULE WebPage ------------------------------
(***************************************************************************)
(* The page the web server hands out (SVWebServer/website/src): graphs of  *)
(* signals, and a poll for their last packets that comes around a little   *)
(* sooner than packets do and does not wait for its answer.                *)
(*                                                                         *)
(* A page p: signals from keys to [ena, buff], buff a sequence of packets  *)
(* [begin, vals]; graphs, a sequence of sequences of keys; flying, the     *)
(* polls that have not been answered, each the answer as the server gave   *)
(* it.  Times are in cycles.                                               *)
(***************************************************************************)
EXTENDS Integers, Sequences, FiniteSets, SequencesExt, FiniteSetsExt

NewPage(keys) ==
  [signals |-> [k \in keys |-> [ena |-> FALSE, buff |-> << >>]], graphs |-> << << >> >>, flying |-> << >>]

\* What is no longer shown gives its packets up.
BufferEnable(p, keys, set) ==
  [p EXCEPT !.signals = [k \in DOMAIN p.signals |->
     IF k \notin keys THEN p.signals[k]
     ELSE [ena |-> set, buff |-> IF set THEN p.signals[k].buff ELSE << >>]]]

AddGraph(p) == [p EXCEPT !.graphs = Append(p.graphs, << >>)]

AddSignalToGraph(p, i, key) ==
  IF i \notin DOMAIN p.graphs \/ key \notin DOMAIN p.signals \/ Contains(p.graphs[i], key)
  THEN p
  ELSE BufferEnable([p EXCEPT !.graphs[i] = Append(p.graphs[i], key)], {key}, TRUE)

OnlyOn(p, i) ==
  {k \in ToSet(p.graphs[i]) : \A j \in DOMAIN p.graphs \ {i} : ~Contains(p.graphs[j], k)}

RemoveSignal(p, i, key) ==
  IF i \notin DOMAIN p.graphs
  THEN p
  ELSE [BufferEnable(p, OnlyOn(p, i) \cap {key}, FALSE)
          EXCEPT !.graphs[i] = SelectSeq(p.graphs[i], LAMBDA k : k # key)]

CloseGraph(p, i) ==
  IF i \notin DOMAIN p.graphs
  THEN p
  ELSE [BufferEnable(p, OnlyOn(p, i), FALSE) EXCEPT !.graphs = RemoveAt(p.graphs, i)]

\* A row of the tree is dragged as module, dot and name, and taken apart at the
\* first dot; texts are sequences of words.
Dragged(name, module) == module \o <<".">> \o name
Dropped(text) ==
  LET dot == SelectInSeq(text, LAMBDA w : w = ".")
  IN  SubSeq(text, dot + 1, Len(text)) \o SubSeq(text, 1, dot - 1)

-----------------------------------------------------------------------------
(* The poll; last gives each signal's last packet at the server.           *)

Poll(p, last) ==
  LET keys == {k \in DOMAIN p.signals : p.signals[k].ena}
  IN  IF keys = {} THEN p ELSE [p EXCEPT !.flying = Append(p.flying, [k \in keys |-> last[k]])]

\* Whatever has become of the signal since it was asked for.
Answer(p, n) ==
  IF n \notin DOMAIN p.flying
  THEN p
  ELSE LET got == p.flying[n]
       IN  [p EXCEPT !.flying = RemoveAt(p.flying, n),
              !.signals = [k \in DOMAIN p.signals |->
                 IF k \notin DOMAIN got THEN p.signals[k]
                 ELSE [p.signals[k] EXCEPT !.buff = Append(p.signals[k].buff, got[k])]]]

-----------------------------------------------------------------------------
(* What a graph makes of the packets; size is the length of a packet.      *)

\* The points of a signal in the window, zone by zone, at one point a cycle.
Zones(buff, size, tm) ==
  LET points(rd, prev) ==
        {[pos |-> rd.begin + i - 1 - tm.begin, value |-> rd.vals[i]] :
           i \in {j \in 1 .. size : rd.begin + j - 1 - tm.begin > prev}}
      packet(z, rd) ==
        IF z.done \/ rd.begin >= tm.end
        THEN [z EXCEPT !.done = TRUE]
        ELSE IF rd.begin + size <= tm.begin
        THEN [z EXCEPT !.endPrev = rd.begin + size]
        ELSE LET new   == points(rd, z.prev)
                 zones == IF rd.begin - z.endPrev > size THEN Append(z.zones, {}) ELSE z.zones
             IN  [z EXCEPT !.zones   = [zones EXCEPT ![Len(zones)] = @ \cup new],
                           !.prev    = Max({z.prev} \cup {pnt.pos : pnt \in new}),
                           !.endPrev = rd.begin + size]
      start == [done |-> buff = << >>, prev |-> -1, zones |-> <<{}>>,
                endPrev |-> IF buff = << >> THEN 0 ELSE buff[1].begin]
  IN  FoldLeft(packet, start, buff).zones

\* From the first packet of all to the last one, as long as there are any.
CalcTimeInterval(buffs, size, tm) ==
  LET any == {b \in buffs : b # << >>}
  IN  IF any = {} THEN tm
      ELSE [begin |-> Min({b[1].begin : b \in any}), end |-> Max({b[Len(b)].begin : b \in any}) + size]

\* The values of packets that begin within the window.
CalcValueInterval(buffs, tm, val) ==
  LET inside == UNION {{b[i] : i \in DOMAIN b} : b \in buffs}
      values == UNION {ToSet(rd.vals) : rd \in {x \in inside : tm.begin < x.begin /\ x.begin < tm.end}}
  IN  IF values = {} THEN val ELSE [begin |-> Min(values), end |-> Max(values)]

\* The player, after every answer that changed a buffer of the graph: the
\* window's end goes to the last packet, its begin on by one packet.
Scrolled(buffs, size, least, tm) ==
  LET end == CalcTimeInterval(buffs, size, tm).end
  IN  [begin |-> IF end - (tm.begin + size) < least THEN end - least ELSE tm.begin + size, end |-> end]
=============================================================================
