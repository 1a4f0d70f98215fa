----------------------------- MODULE Statistics -----------------------------
(***************************************************************************)
(* The statistics dialog (SVStatDialog): how often a signal had each value *)
(* (calcHist), when it took one (listTimeUpdate), and the histogram with a *)
(* line the user moves or types a value for (HistWidget).                  *)
(*                                                                         *)
(* The values of a signal are one sequence, record after record; a value   *)
(* of type FLOAT is a number of tenths.  What the dialog keeps of a signal *)
(* (valData) maps a value to [changes, steps]: changeCnt, and duration in  *)
(* units of SV_CYCLEREC_MS.  A widget is the record [points, pos, painted, *)
(* width, height]: grPnts_ as a function from values to counts, targPos_,  *)
(* and what the last painting left in minXPos_, sclX_, minYPos_, sclY_, as *)
(* [minX, spanX, minY, spanY].  Fractions are exact.                       *)
(***************************************************************************)
EXTENDS Integers, Sequences, SequencesExt, Rounding

-----------------------------------------------------------------------------
(* calcHist.                                                               *)

\* The values that are counted: of BOOL only TRUE, under the key 0.
HistValues(type, vals) ==
  IF type = "FLOAT" THEN [i \in DOMAIN vals |-> RoundDiv(vals[i], 10)] ELSE vals

\* A value for the first time counts as a change whatever came before it.
CountValue(st, v, onlyFront) ==
  LET new  == v \notin DOMAIN st.hist
      turn == IF new \/ v # st.prev THEN 1 ELSE 0
      old  == IF new THEN [changes |-> 0, steps |-> 0] ELSE st.data[v]
      n    == IF new THEN 0 ELSE st.hist[v]
  IN  [hist |-> (v :> n + IF onlyFront THEN turn ELSE 1) @@ st.hist,
       data |-> (v :> [changes |-> old.changes + turn, steps |-> old.steps + 1]) @@ st.data,
       prev |-> v]

\* Values out of the range are passed over; the one before them stays the previous.
CountNumbers(vals, data, range, onlyFront) ==
  FoldLeft(LAMBDA st, v : IF v \in range THEN CountValue(st, v, onlyFront) ELSE st,
           [hist |-> <<>>, data |-> data, prev |-> 0], vals)

CountBools(vals, data, onlyFront) ==
  LET on    == {i \in DOMAIN vals : vals[i]}
      turns == {i \in on : i = 1 \/ ~vals[i - 1]}
  IN  [hist |-> 0 :> Cardinality(IF onlyFront THEN turns ELSE on),
       data |-> (0 :> [changes |-> Cardinality(turns), steps |-> Cardinality(on)]) @@ data]

\* data is what is known of the signal from before: it is never cleared.
CalcHist(type, vals, data, range, onlyFront) ==
  IF type = "BOOL" THEN CountBools(vals, data, onlyFront)
  ELSE LET st == CountNumbers(HistValues(type, vals), data, range, onlyFront)
       IN  [hist |-> st.hist, data |-> st.data]

\* The mean time a value stays, in ms.  Undefined for a signal that never was on.
DurationMean(d, cycleRec) == RoundDiv(d.steps * cycleRec, d.changes)

\* The mean of the values.  (Of a negative one the half is added, not taken away.)
Mx(hist) ==
  LET total == SumFunction(hist)
      sum   == SumFunction([v \in DOMAIN hist |-> v * hist[v]])
  IN  IF total = 0 THEN 0 ELSE TruncDiv(2 * sum + total, 2 * total)

-----------------------------------------------------------------------------
(* listTimeUpdate: the places at which the signal takes the value.  Here a *)
(* FLOAT is cut, where calcHist rounds it; before the first one comes 0.   *)

ListValues(type, vals) ==
  CASE type = "FLOAT" -> [i \in DOMAIN vals |-> TruncDiv(vals[i], 10)]
    [] type = "BOOL"  -> [i \in DOMAIN vals |-> IF vals[i] THEN 1 ELSE 0]
    [] OTHER          -> vals

TimesListed(type, vals, selVal) ==
  LET seen == ListValues(type, vals)
      sel  == IF type = "BOOL" THEN 1 ELSE selVal
  IN  {i \in DOMAIN seen : seen[i] = sel /\ sel # (IF i = 1 THEN 0 ELSE seen[i - 1])}

\* Without the box "fronts" only the times of a BOOL are listed.
ListTimeUpdate(type, vals, selVal, onlyFront) ==
  IF onlyFront \/ type = "BOOL" THEN TimesListed(type, vals, selVal) ELSE {}

\* A second to either side of the chosen time.
SelectSignalTime(t) == [first |-> t - 1000, second |-> t + 1000]

-----------------------------------------------------------------------------
(* HistWidget.                                                             *)

Least(S) == CHOOSE x \in S : \A y \in S : x <= y
Most(S)  == CHOOSE x \in S : \A y \in S : x >= y

SetGraphPnt(w, hist) == [w EXCEPT !.points = hist]

PaintEvent(w) ==
  LET xs == DOMAIN w.points
      ys == Range(w.points)
  IN  IF xs = {} THEN w
      ELSE [w EXCEPT !.painted = [minX |-> Least(xs), spanX |-> Most(xs) - Least(xs),
                                  minY |-> Least(ys), spanY |-> Most(ys) - Least(ys)]]

\* Where the bar of a value stands and how high it is; the lowest has half its height.
Bar(w, v) ==
  LET p == w.painted
      h == RoundDiv((w.points[v] - p.minY) * w.height, p.spanY)
  IN  [x |-> RoundDiv((v - p.minX) * w.width, p.spanX),
       h |-> IF h = 0 THEN RoundDiv(w.points[v] * w.height, 2 * p.spanY) ELSE h]

MousePress(w, x) == [w EXCEPT !.pos = x]

SetTargPos(w, v) ==
  [w EXCEPT !.pos = TruncDiv((v - w.painted.minX) * w.width, w.painted.spanX)]

\* The value at the line, and the height at it: of the first bar that is not left
\* of the value, its count as if it were a height.
TargValue(w) == RoundDiv(w.pos * w.painted.spanX + w.painted.minX * w.width, w.width)

TargHeight(w) ==
  LET v     == TargValue(w)
      right == {x \in DOMAIN w.points : x >= v /\ \E y \in DOMAIN w.points : y < x /\ y <= v}
  IN  IF right = {} THEN 0
      ELSE RoundDiv(w.points[Least(right)] * w.painted.spanY + w.painted.minY * w.height,
                    w.height)

\* The share of the counts up to the line, in percent.
AreaHist(w, left, right) ==
  TruncDiv(100 * SumFunctionOnSet(w.points, {v \in DOMAIN w.points : v \in left .. right}),
           SumFunction(w.points))

AreaByPos(w) ==
  AreaHist(w, w.painted.minX,
           TruncDiv(w.pos * w.painted.spanX + w.painted.minX * w.width, w.width))

\* graphValueChange: the fields of the dialog.  After another signal is chosen the
\* histogram is new, and what it is read with is still of the last painting.
GraphValueChange(w) ==
  [area |-> AreaByPos(w), value |-> TargValue(w), height |-> TargHeight(w), mean |-> Mx(w.points)]

SelectSignalChange(w, hist) == GraphValueChange(SetGraphPnt(w, hist))

\* A dropped signal is appended and chosen, also when it is in the list already.
DropEvent(cmbSignals, sname) ==
  [list |-> Append(cmbSignals, sname), current |-> Len(cmbSignals) + 1]

-----------------------------------------------------------------------------
(* A value is typed: the line moves to it, selValueChange writes the value *)
(* at the line back into the text, and that is a value typed again, until  *)
(* nothing changes.  The calls are nested, so that the innermost one sets  *)
(* the text and the outermost one, which ends last, the list of times.     *)

Typed(w, v, n) ==
  LET back[k \in 0 .. n] == IF k = 0 THEN v ELSE TargValue(SetTargPos(w, back[k - 1]))
  IN  back

TextSettles(w, v, n) == \E k \in 0 .. n - 1 : Typed(w, v, n)[k + 1] = Typed(w, v, n)[k]
TextShown(w, v, n)   == Typed(w, v, n)[n]
ListShown(w, v)      == TargValue(SetTargPos(w, v))

-----------------------------------------------------------------------------
(* What the statistics say, against what they should say, over all short   *)
(* sequences of values.  TLC evaluates the assumptions in the run of       *)
(* MCViewer.                                                               *)

\* A value is taken at i when it stands there and not before.
Runs(s, v)   == {i \in DOMAIN s : s[i] = v /\ (i = 1 \/ s[i - 1] # v)}
Occurrences(s, v) == {i \in DOMAIN s : s[i] = v}

Numbers == UNION {[1 .. n -> -1 .. 2] : n \in 1 .. 5}
Bools   == UNION {[1 .. n -> BOOLEAN] : n \in 1 .. 5}

\* Without a range every value is counted once per sample, its changes are the
\* times it is taken, and with "fronts" only those are counted.
ASSUME HistIsCount ==
  \A s \in Numbers, onlyFront \in BOOLEAN :
    LET r == CalcHist("INT", s, <<>>, Int, onlyFront)
    IN  /\ DOMAIN r.hist = Range(s)
        /\ \A v \in Range(s) :
             /\ r.data[v] = [changes |-> Cardinality(Runs(s, v)), steps |-> Cardinality(Occurrences(s, v))]
             /\ r.hist[v] = IF onlyFront THEN r.data[v].changes ELSE r.data[v].steps

\* With a range the same of what is in it, except that a value that comes back
\* from outside the range is not counted as a change: it is the sequence without
\* the other values that is counted.
ASSUME RangeHidesChanges ==
  \A s \in Numbers, onlyFront \in BOOLEAN :
    LET inside == SelectSeq(s, LAMBDA v : v \in 0 .. 1)
    IN  CalcHist("INT", s, <<>>, 0 .. 1, onlyFront) = CalcHist("INT", inside, <<>>, Int, onlyFront)

\* The times listed are those at which the value is taken, but for a signal that
\* begins with 0: this first time of 0 is not listed, and it is counted.
ASSUME TimesAreRuns ==
  /\ \A s \in Numbers, v \in -1 .. 2 :
       TimesListed("INT", s, v) = Runs(s, v) \ (IF v = 0 THEN {1} ELSE {})
  /\ \A s \in Bools :
       /\ TimesListed("BOOL", s, 0) = Runs(s, TRUE)
       /\ CalcHist("BOOL", s, <<>>, Int, TRUE).hist[0] = Cardinality(Runs(s, TRUE))

\* A FLOAT is counted rounded and listed cut: they agree where the tenths are < 5.
ASSUME FloatsAgreeBelowHalf ==
  \A x \in -30 .. 30 :
    (HistValues("FLOAT", <<x>>) = ListValues("FLOAT", <<x>>))
      <=> (IF x < 0 THEN -x ELSE x) % 10 < 5

\* What was known of a value that does not occur any more stays as it was.
ASSUME OldDataStays ==
  \A s, t \in UNION {[1 .. n -> 0 .. 2] : n \in 1 .. 3} :
    LET before == CalcHist("INT", s, <<>>, Int, FALSE).data
        after  == CalcHist("INT", t, before, Int, FALSE).data
    IN  \A v \in DOMAIN after :
          after[v] = IF v \in Range(t) THEN CalcHist("INT", t, <<>>, Int, FALSE).data[v]
                     ELSE before[v]

Widget(min, span, width) ==
  [points |-> (min :> 1) @@ ((min + span) :> 2), pos |-> 0, width |-> width, height |-> 10,
   painted |-> [minX |-> min, spanX |-> span, minY |-> 1, spanY |-> 1]]

\* Typing a value comes to an end.  With more than two pixels to a value the text
\* stays what was typed, and the list of times is of the value in the text.
ASSUME TypingEnds ==
  \A min \in -2 .. 1, span \in 1 .. 12, width \in 1 .. 26 : \A v \in min .. min + span :
    LET w == Widget(min, span, width)
    IN  /\ TextSettles(w, v, span + 2)
        /\ width > 2 * span => TextShown(w, v, span + 2) = v /\ ListShown(w, v) = v

\* The area is a share: none left of the histogram, all at its right end.
ASSUME AreaIsShare ==
  \A min \in -2 .. 1, span \in 1 .. 8, width \in 9 .. 12 :
    LET w == Widget(min, span, width)
        areas == [x \in 0 .. width |-> AreaByPos(MousePress(w, x))]
    IN  /\ \A x \in 0 .. width : areas[x] \in 0 .. 100
        /\ \A x \in 1 .. width : areas[x - 1] <= areas[x]
        /\ areas[width] = 100
=============================================================================
