----------------------------- MODULE SignalView -----------------------------
(***************************************************************************)
(* What is read out of the buffer of a signal: the line and the range of a *)
(* graph (SVGraphPanel/graph_widget.cpp), the files of the export dialog   *)
(* (SVExportDialog/export_dialog_impl.cpp) and the records the statistics  *)
(* are made of (SVStatDialog/stat_dialog_impl.cpp).                        *)
(*                                                                         *)
(* A signal is the record [data, begin, value, min, max]: buffData, of     *)
(* each record its beginTime; buffBeginPos; buffValuePos; buffMinTime;     *)
(* buffMaxTime.  In a ring (mode "player") buffValuePos is the slot that   *)
(* is written next; of loaded data (mode "viewer") it is the last record.  *)
(* Positions count from 0, as in the code.  Each operator returns the      *)
(* positions of the records it takes; what is drawn or written of a record *)
(* is left out.                                                            *)
(***************************************************************************)
EXTENDS Integers, Sequences, SequencesExt

CONSTANT Cycle \* SV_CYCLESAVE_MS

Time(sd, pos) == sd.data[pos + 1]
Size(sd)      == Len(sd.data)

\* Over the window between lo and hi there is part of the record.
Crosses(t, lo, hi) == t < hi /\ t + Cycle > lo

\* The positions of S among those on the way.
Only(way, S) == FlattenSeq([k \in DOMAIN way |-> IF way[k] \in S THEN <<way[k]>> ELSE <<>>])

-----------------------------------------------------------------------------
(* Where the line begins.                                                  *)

\* std::lower_bound over the positions from .. to - 1.
LowerBound(sd, from, to, t) ==
  LET reached == {p \in from .. to - 1 : Time(sd, p) >= t}
  IN  IF reached = {} THEN to ELSE CHOOSE p \in reached : \A q \in reached : p <= q

\* The record before the one found, unless that is the first of the part.
StepBack(pos, first) == IF pos = first THEN pos ELSE pos - 1

RingIndexBeforeTime(sd, start, end, t) ==
  LET sz    == Size(sd)
      lower == LowerBound(sd, 0, end, t)
  IN  IF start = end THEN start
      ELSE IF start < end THEN StepBack(LowerBound(sd, start, end, t), start)
      ELSE IF end = 0 \/ t <= Time(sd, sz - 1)
      THEN StepBack(LowerBound(sd, start, sz, t), start)
      ELSE IF lower = 0 THEN sz - 1 ELSE lower - 1

\* Bug: the line begins with the first record that begins in the window.
StartInside(sd, lo) ==
  IF sd.min < lo THEN LowerBound(sd, 0, Size(sd), lo) % Size(sd) ELSE sd.begin

ViewerStart(sd, lo) ==
  IF sd.min < lo THEN StepBack(LowerBound(sd, 0, Size(sd), lo), 0) ELSE sd.begin

\* The oldest slot is left out when the next write, or the one after it, takes it.
PlayerStart(sd, lo) ==
  LET from == IF (sd.value + 1) % Size(sd) = sd.begin
              THEN (sd.begin + 1) % Size(sd) ELSE sd.begin
  IN  IF sd.min < lo THEN RingIndexBeforeTime(sd, from, sd.value, lo) ELSE from

SelectBufStart(sd, mode, lo) ==
  IF mode = "viewer" THEN ViewerStart(sd, lo) ELSE PlayerStart(sd, lo)

-----------------------------------------------------------------------------
(* The line, and the range of its values.                                  *)

\* From start round the buffer, until the end or the first record past the window.
Walk(sd, start, hi) ==
  LET n    == IF start = sd.value THEN Size(sd) ELSE (sd.value - start + Size(sd)) % Size(sd)
      way  == [k \in 1 .. n |-> (start + k - 1) % Size(sd)]
      past == SelectInSeq(way, LAMBDA p : Time(sd, p) >= hi)
  IN  IF past = 0 THEN way ELSE SubSeq(way, 1, past - 1)

Outside(sd, lo, hi) == sd.data = <<>> \/ sd.min >= hi \/ sd.max <= lo

InWindow(sd, way, lo, hi) == Only(way, {p \in Range(way) : Crosses(Time(sd, p), lo, hi)})

Points(sd, mode, lo, hi) ==
  IF Outside(sd, lo, hi) THEN <<>>
  ELSE InWindow(sd, Walk(sd, SelectBufStart(sd, mode, lo), hi), lo, hi)

\* The records whose values bound the axis: none when the line begins at the end.
RangeOf(sd, mode, lo, hi) ==
  IF Outside(sd, lo, hi) \/ SelectBufStart(sd, mode, lo) = sd.value THEN <<>>
  ELSE Points(sd, mode, lo, hi)

-----------------------------------------------------------------------------
(* The export: every value, or the first of every record whose place is a  *)
(* multiple of evr.                                                        *)

\* From the first record to the one before buffValuePos.
ExportWay(sd) ==
  [k \in 1 .. (IF sd.data = <<>> THEN 0 ELSE (sd.value - sd.begin + Size(sd)) % Size(sd))
     |-> (sd.begin + k - 1) % Size(sd)]

Exported(sd, allTime, lo, hi, everyValues, evr) ==
  Only(ExportWay(sd), {p \in Range(ExportWay(sd)) :
                         /\ allTime \/ (lo < Time(sd, p) /\ Time(sd, p) < hi)
                         /\ everyValues \/ p % evr = 0})

-----------------------------------------------------------------------------
(* The statistics: the whole buffer, or the window of the main graph.      *)

\* The first step takes the time of the first record from buffMinTime.
StatWay(sd, hi) ==
  LET way  == [k \in 1 .. Size(sd) |-> k - 1]
      past == SelectInSeq(way, LAMBDA p : (IF p = 0 THEN sd.min ELSE Time(sd, p)) >= hi)
  IN  IF past = 0 THEN way ELSE SubSeq(way, 1, past - 1)

StatRecords(sd, winDiap, lo, hi) ==
  CASE ~winDiap          -> [k \in 1 .. Size(sd) |-> k - 1]
    [] Outside(sd, lo, hi) -> <<>>
    [] OTHER             -> InWindow(sd, StatWay(sd, hi), lo, hi)
=============================================================================
