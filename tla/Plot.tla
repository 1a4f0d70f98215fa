-------------------------------- MODULE Plot --------------------------------
(***************************************************************************)
(* What a graph paints of its signals and what the table under the graphs  *)
(* says of them (graph_widget.cpp, graph_panel_widget.cpp).  The axes are  *)
(* the records of Axes; the records of a signal, [begin, vals], are those  *)
(* SignalView!Points chooses, in their order.  A value of a BOOL is 0 or   *)
(* 1, others are counted in parts.  A point is <<x, y>>: pixels from the   *)
(* left and from the bottom of the plot.  Quotients are taken as exact.    *)
(***************************************************************************)
EXTENDS Axes, FiniteSetsExt, Functions

MaxWidth == 1900

\* Times are put into columns, of which there are at most MaxWidth.
Columns(a) == IF a.width > MaxWidth THEN MaxWidth ELSE a.width

TimePnt(a, t) == TruncDiv((t - a.first) * Columns(a), Span(a))

OnPlot(a, column) == TruncDiv(column * a.width, Columns(a))

ValuePnt(v, type, x) == IF type = "BOOL" THEN x ELSE TruncDiv(x - v.lo, ValScale(v))

-----------------------------------------------------------------------------
(* The lines: a sequence of zones, each a sequence of points.  The state   *)
(* of the loop is [zones, prevPos, valMem, isChange, endPrev]; backVal and *)
(* prevBackVal are the heights of the last two points.                     *)

NoLines == [zones |-> <<>>, prevPos |-> -1, valMem |-> 0, isChange |-> FALSE, endPrev |-> 0]

WithHeight(zones, back, y) == [zones EXCEPT ![Len(zones)][Len(Last(zones)) - back][2] = y]

\* A new column, and the column after it whatever it is.
AddPoint(st, column, x, y) ==
  [zones    |-> Front(st.zones) \o <<Append(Last(st.zones), <<x, y>>)>>,
   prevPos  |-> column, valMem |-> y, isChange |-> ~st.isChange, endPrev |-> st.endPrev]

\* In the same column the last two points are drawn apart to reach y.
Merge(st, y) ==
  LET zone == Last(st.zones)
      back == Last(zone)[2]
      prev == zone[Len(zone) - 1][2]
      pulls == CASE prev < back -> IF y < prev THEN 1 ELSE IF y > back THEN 0 ELSE 2
                 [] prev > back -> IF y > prev THEN 1 ELSE IF y < back THEN 0 ELSE 2
                 [] OTHER       -> 0
  IN  [st EXCEPT !.valMem = y, !.zones = IF pulls = 2 THEN @ ELSE WithHeight(@, pulls, y)]

AddSample(st, a, column, y) ==
  IF column > st.prevPos \/ st.isChange THEN AddPoint(st, column, OnPlot(a, column), y)
  ELSE IF y # st.valMem THEN Merge(st, y) ELSE st

\* A zone begins with the first two samples of its record.  What is left of the
\* zone before is isChange.
StartZone(st, a, cols, ys) ==
  [zones    |-> Append(st.zones, <<<<OnPlot(a, cols[1]), ys[1]>>, <<OnPlot(a, cols[2]), ys[2]>>>>),
   prevPos  |-> cols[2], valMem |-> ys[2], isChange |-> st.isChange, endPrev |-> st.endPrev]

AddRecord(st, rec, type, a, v, recMs, tolerance) ==
  LET n     == Len(rec.vals)
      cols  == [i \in 1 .. n |-> TimePnt(a, rec.begin + (i - 1) * recMs)]
      ys    == [i \in 1 .. n |-> ValuePnt(v, type, rec.vals[i])]
      gap   == st.zones = <<>> \/ rec.begin - st.endPrev > n * recMs * tolerance
      begun == [(IF gap THEN StartZone(st, a, cols, ys) ELSE st) EXCEPT !.endPrev = rec.begin + n * recMs]
  IN  FoldLeftDomain(LAMBDA s, i : AddSample(s, a, cols[i], ys[i]), begun, cols)

GetPoints(type, recs, a, v, recMs, tolerance) ==
  FoldLeft(LAMBDA st, rec : AddRecord(st, rec, type, a, v, recMs, tolerance), NoLines, recs).zones

\* An additional signal is drawn over the whole height, whatever the axis says.
RecordRange(type, recs) ==
  LET vals == UNION {Range(rec.vals) : rec \in Range(recs)}
  IN  IF type = "BOOL" \/ vals = {} THEN <<0, Parts>>
      ELSE IF Cardinality(vals) = 1 THEN <<Min(vals) - Tenth, Max(vals) + Tenth>>
      ELSE <<Min(vals), Max(vals)>>

AlterAxis(v, type, recs) ==
  [v EXCEPT !.lo = RecordRange(type, recs)[1], !.hi = RecordRange(type, recs)[2]]

-----------------------------------------------------------------------------
(* What the lines are read for.                                            *)

PointsOf(zones) == UNION {Range(zone) : zone \in Range(zones)}

GetSignPntsMaxMinValue(zones) ==
  LET ys == {p[2] : p \in PointsOf(zones)} IN IF ys = {} THEN <<0, 1>> ELSE <<Min(ys), Max(ys)>>

\* The axis is fitted to the lines of the signals, not to their values.
ResizeByValue(v, signals) ==
  LET ranges == {GetSignPntsMaxMinValue(s.zones) : s \in {q \in signals : q.type # "BOOL"}}
  IN  IF ranges = {} THEN v
      ELSE SetValInterval(v, v.lo + Min({r[1] : r \in ranges}) * ValScale(v),
                             v.lo + Max({r[2] : r \in ranges}) * ValScale(v))

\* The first point at the marker or the first behind it that has one before it;
\* without any the fields are what the memory held.
MarkerPoint(zones, pos) ==
  LET at == {<<z, i>> \in (1 .. Len(zones)) \X (1 .. FoldLeft(LAMBDA m, zone : m + Len(zone), 0, zones)) :
               /\ i <= Len(zones[z])
               /\ \/ zones[z][i][1] = pos
                  \/ zones[z][IF i = 1 THEN 1 ELSE i - 1][1] < pos /\ pos < zones[z][i][1]}
      first == CHOOSE p \in at : \A q \in at : p[1] < q[1] \/ (p[1] = q[1] /\ p[2] <= q[2])
  IN  IF at = {} THEN <<>> ELSE zones[first[1]][first[2]]

PointValue(v, type, y) == IF type = "BOOL" THEN y ELSE y * ValScale(v) + v.lo

\* Between the markers, in their order or not: up to the first point past the later.
PointsBetween(zones, m1, m2) ==
  LET all  == FlattenSeq(zones)
      lo   == Min({m1, m2})
      hi   == Max({m1, m2})
      past == SelectInSeq(all, LAMBDA p : p[1] > hi)
  IN  SelectSeq(IF past = 0 THEN all ELSE SubSeq(all, 1, past - 1), LAMBDA p : lo <= p[1])

\* min, max, sum and count; the table divides the sum by the count.
GetStatParams(zones, v, type, m1, m2) ==
  LET vals == [i \in DOMAIN PointsBetween(zones, m1, m2) |->
                 PointValue(v, type, PointsBetween(zones, m1, m2)[i][2])]
  IN  IF vals = <<>> THEN [min |-> 2147483647, max |-> -2147483647 - 1, sum |-> 0, count |-> 0]
      ELSE [min |-> Min(Range(vals)), max |-> Max(Range(vals)),
            sum |-> FoldLeft(+, 0, vals), count |-> Len(vals)]

\* A row of the table.  The mean of a BOOL is 0 or 1.
TableRow(zones, a, v, type, left, right) ==
  LET y(m) == MarkerPoint(zones, m)
      st   == GetStatParams(zones, v, type, left, right)
      n    == IF st.count = 0 THEN 1 ELSE st.count
  IN  [x1 |-> TimeAt(a, left), x2 |-> TimeAt(a, right),
       dx |-> TruncDiv(Abs(right - left) * Span(a), a.width),
       y1 |-> IF y(left) = <<>> THEN <<>> ELSE <<PointValue(v, type, y(left)[2])>>,
       y2 |-> IF y(right) = <<>> THEN <<>> ELSE <<PointValue(v, type, y(right)[2])>>,
       min |-> st.min, max |-> st.max,
       mean |-> IF type = "BOOL" THEN RoundDiv(st.sum, n) ELSE TruncDiv(st.sum, n)]

-----------------------------------------------------------------------------
(* What is painted over and under the lines.                               *)

\* The bars of a BOOL in one zone: from a point to a point, by their numbers.
Bars(zone) ==
  LET n == Len(zone)
      step(st, i) ==
        LET ends == IF st.on THEN zone[i][2] = 0 \/ i = n ELSE zone[i][2] > 0 \/ i = n
        IN  IF ~ends THEN st
            ELSE [on   |-> ~st.on, from |-> i - 1,
                  bars |-> IF st.on THEN Append(st.bars, <<st.from, i - 1>>) ELSE st.bars]
  IN  FoldLeft(step, [on |-> zone[1][2] > 0, from |-> 1, bars |-> <<>>],
               [i \in 1 .. n - 1 |-> i + 1]).bars

\* The k-th BOOL of n, counted from the end of the list: where its bar is (its upper
\* and lower edge from the top of the plot), and where its label begins.
BarPlace(n, k, height, onTop) ==
  LET low == (IF onTop THEN (n - k + 1) * (-15) + height - 5 ELSE (k - 1) * 15) + 1
  IN  <<height - low - 10, height - low>>

LabelPlace(n, k, height, onTop, font) ==
  IF onTop THEN 5 + (n - k) * 15 ELSE height - font + 1 - (k - 1) * 15

\* What is filled reaches to the height of 0, and takes at most 1024 points of a zone.
FillBase(v) ==
  IF v.lo >= 0 THEN 0 ELSE IF v.hi > 0 THEN v.height - TruncDiv(v.hi, ValScale(v)) ELSE v.height

FillPoints(n) == {i \in 1 .. n : i = 1 \/ (1024 * (i - 1)) \div n > (1024 * (i - 2)) \div n}

\* The text at a marker stays inside the plot.
GetMarkPos(pt, width, height, text) ==
  LET y    == IF height - pt[2] < 0 THEN 0 ELSE height - pt[2]
      most == height - text.height - 10
  IN  <<IF pt[1] < width \div 2 THEN pt[1] + 2 ELSE pt[1] - text.width - 2,
        IF y > most THEN most ELSE y>>

\* The values written at a marker: of every signal that has a point there, but BOOLs.
MarkerTexts(signals, v, pos, width, height, text) ==
  {[sign |-> s.sign, val |-> PointValue(v, s.type, MarkerPoint(s.zones, pos)[2]),
    at   |-> GetMarkPos(<<pos, MarkerPoint(s.zones, pos)[2]>>, width, height, text)] :
     s \in {q \in signals : q.type # "BOOL" /\ MarkerPoint(q.zones, pos) # <<>>}}

\* Of the num-th signal, when the counter of the graph is cnt.
NewColor(num, cnt) == <<(num * cnt) % 255, (num * cnt * 2) % 255, (num * cnt * 3) % 255>>

OtherColor(num, cnt) ==
  <<(num * (60 + cnt)) % 255, (num * (120 + cnt)) % 255, (num * (180 + cnt)) % 255>>

\* Signals that were given a colour keep it; the counter moves with each.
ColorUpdate(cnt, colors, given) ==
  [colors |-> [k \in DOMAIN colors |-> IF k \in given THEN colors[k] ELSE OtherColor(k, cnt + 30 * k)],
   cnt    |-> cnt + 30 * Len(colors)]

-----------------------------------------------------------------------------
(* The panel: of each graph its markers and the interval its lines were    *)
(* made for, and the same of what the table was made of.                   *)

PanelMarkerChange(panel, names, g) ==
  [marks |-> MarkerChange(panel.marks, names, g), seen |-> panel.seen,
   table |-> [marks |-> panel.marks, seen |-> panel.seen]]

\* Graph g has made its lines anew before it tells the panel.  The table is made
\* only if there is a selected graph.
PanelTimeChange(panel, names, g, interval, selected) ==
  LET mine == [panel.seen EXCEPT ![g] = interval]
  IN  [marks |-> panel.marks,
       seen  |-> [i \in DOMAIN mine |-> IF names[i] # names[g] THEN interval ELSE mine[i]],
       table |-> IF selected THEN [marks |-> panel.marks, seen |-> mine] ELSE panel.table]
=============================================================================
