-------------------------------- MODULE Axes --------------------------------
(***************************************************************************)
(* What the mouse, the wheel and the keys do to a graph: the axes          *)
(* (axis_time_widget.cpp, axis_value_widget.cpp, axis_setting_dialog.h),   *)
(* the rectangle drawn on a plot (plot_widget.cpp), the two markers        *)
(* (marker_widget.cpp), the zooms and their history (graph_widget.cpp) and *)
(* the graphs of several periods (distr_graph_panel_widget.cpp).           *)
(*                                                                         *)
(* The time axis of a panel is the record [first, second, sec, dash, offs, *)
(* font, mouse, width]: tmInterval_, curIntervSec_, curDashStep_,          *)
(* curOffsPos_, fontMetr_, mousePrevPosX_; tmScale_ always is the length   *)
(* of the interval over the width.  The value axis of a graph is [lo, hi,  *)
(* interv, dash, offs, mouse, height, attr]: valInterval_, curInterv_,     *)
(* curDashStep_, curOffsPos_, mousePrevPosY_, axisAttr_.                   *)
(*                                                                         *)
(* Values are counted in parts of which Parts make 1, so small that the    *)
(* scale, the length of the interval over the height, is a whole number    *)
(* of them.                                                                *)
(***************************************************************************)
EXTENDS Integers, Sequences, SequencesExt, Rounding

CONSTANT Parts

ASSUME PartsAssumption == Parts \in Nat /\ Parts > 0 /\ Parts % 10 = 0

Tenth == Parts \div 10

\* The drag moves the marks along; out of [0, dash] they start at the other end.
Wrapped(offs, dash) == IF offs > dash THEN 0 ELSE IF offs < 0 THEN dash ELSE offs

\* getAxisMark: every dash pixels from offs on.
Marks(offs, dash, size) == {p \in 0 .. size - 1 : p % dash = offs % dash}

-----------------------------------------------------------------------------
(* The time axis, in ms and pixels.                                        *)

NewAxisTime(now, width) ==
  [first |-> now, second |-> now + 3600000, sec |-> 0, dash |-> 100, offs |-> 0,
   font |-> 0, mouse |-> 0, width |-> width]

Span(a) == a.second - a.first

\* The interval at a new place: curIntervSec_ goes with it.
Between(a, first, second) ==
  [first |-> first, second |-> second, sec |-> TruncDiv(second - first, 1000),
   dash |-> a.dash, offs |-> a.offs, font |-> a.font, mouse |-> a.mouse, width |-> a.width]

TimeAt(a, x) == TruncDiv(Span(a) * x + a.first * a.width, a.width)

MousePressTime(a, x) == [a EXCEPT !.mouse = x]

\* One ms is added in the direction of the drag, also of one that goes nowhere.
Drag(a, diff) ==
  TruncDiv(-(Span(a) * diff) + (IF diff < 0 THEN a.width ELSE -a.width), a.width)

MouseMoveTime(a, x) ==
  LET diff  == x - a.mouse
      moved == Between(a, a.first + Drag(a, diff), a.second + Drag(a, diff))
  IN  [moved EXCEPT !.offs = Wrapped(a.offs + diff, a.dash), !.mouse = x]

\* By how much the wheel moves either end.
WheelStep(sec) ==
  IF sec > 86400 THEN 10000000
  ELSE IF sec > 3600 THEN 1000000
  ELSE IF sec < 1 THEN 10
  ELSE IF sec < 60 THEN 1000 ELSE 10000

\* Marks stay between 1.1 and 3 texts apart.
Fitted(dash, font) == IF dash > 3 * font \/ 10 * dash < 11 * font THEN 2 * font ELSE dash

\* Both ends come nearer, or 20 ms are left in the middle.
Narrowed(a, step) ==
  IF a.first + step < a.second - step THEN <<a.first + step, a.second - step>>
  ELSE LET mid == (a.first + a.second) \div 2 IN <<mid - 10, mid + 10>>

Widened(a, step) == <<a.first - step, a.second + step>>

\* The time under the mouse stays where it is.
ScaleTime(a, delta, x) ==
  LET step == WheelStep(a.sec)
      ends == IF delta > 0 THEN Narrowed(a, step) ELSE Widened(a, step)
      b    == Between(a, ends[1], ends[2])
      back == TimeAt(a, x) - TimeAt(b, x)
      c    == Between(b, b.first + back, b.second + back)
  IN  [c EXCEPT !.dash = Fitted(a.dash + (IF delta > 0 THEN 1 ELSE -1), a.font)]

\* font is the width of the text of the first mark.
SetTimeInterval(a, first, second, font) ==
  [Between(a, first, second) EXCEPT !.font = font, !.dash = Fitted(a.dash, font)]

ResizeTime(a, width) == [a EXCEPT !.width = width]

-----------------------------------------------------------------------------
(* The value axis.  A fixed one (attr.isAuto is FALSE) is moved by its     *)
(* dialog only.                                                            *)

NewAxisValue(height) ==
  [lo |-> 0, hi |-> 1000 * Parts, interv |-> 0, dash |-> 100, offs |-> 0, mouse |-> 0,
   height |-> height, attr |-> [isAuto |-> TRUE, min |-> 0, max |-> 0, step |-> 0]]

ValScale(v) == (v.hi - v.lo) \div v.height

WithValues(v, lo, hi) ==
  [v EXCEPT !.lo = lo, !.hi = hi, !.interv = Abs(hi - lo) \div Parts]

ValueAt(v, y) == v.lo + ValScale(v) * (v.height - y)

MousePressValue(v, y) == [v EXCEPT !.mouse = y]

MouseMoveValue(v, y) ==
  LET diff == y - v.mouse
      by   == ValScale(v) * diff
  IN  IF ~v.attr.isAuto THEN v
      ELSE [WithValues(v, v.lo + by, v.hi + by)
              EXCEPT !.offs = Wrapped(v.offs + diff, v.dash), !.mouse = y]

\* (The step for intervals over 10000 is behind the one for those over 1000.)
ValueStep(interv) == (IF interv > 1000 THEN 100 ELSE IF interv < 100 THEN 1 ELSE 10) * Parts

ScaleValue(v, delta, y) ==
  LET step == ValueStep(v.interv)
      hi   == IF delta > 0 THEN v.hi - step ELSE v.hi + step
      lo   == IF delta > 0 THEN (IF v.lo + step >= hi THEN hi - Tenth ELSE v.lo + step)
              ELSE v.lo - step
      w    == WithValues(v, lo, hi)
      back == ValueAt(v, y) - ValueAt(w, y)
      dash == v.dash + (IF delta > 0 THEN 1 ELSE -1)
  IN  IF ~v.attr.isAuto THEN v
      ELSE [WithValues(w, lo + back, hi + back)
              EXCEPT !.dash = IF dash > 200 THEN 100 ELSE IF dash < 100 THEN 200 ELSE dash]

\* Marks of a fixed axis begin at its top.  With the ends swapped the scale is negative.
FixedDash(step, scale) ==
  LET n == IF scale > 0 THEN (2 * Abs(step) + scale) \div (2 * scale) ELSE 1
  IN  IF n < 1 THEN 1 ELSE n

WithStep(v, step) ==
  [v EXCEPT !.dash = FixedDash(step, ValScale(v)), !.offs = FixedDash(step, ValScale(v))]

\* Two auto settings in a row are one.  An empty interval gets the least length.
SetAxisAttr(v, attr) ==
  LET lo == IF attr.min = attr.max THEN attr.max - v.height ELSE attr.min
  IN  IF v.attr.isAuto /\ attr.isAuto THEN v
      ELSE [WithStep(WithValues(v, lo, attr.max), attr.step) EXCEPT !.attr = attr]

GetAxisAttr(v) ==
  [isAuto |-> v.attr.isAuto, min |-> v.lo, max |-> v.hi,
   step |-> IF v.attr.isAuto THEN v.dash * ValScale(v) ELSE v.attr.step]

ResizeValue(v, height) ==
  LET w == [v EXCEPT !.height = height]
  IN  IF v.attr.isAuto THEN w ELSE WithStep(w, v.attr.step)

SetValInterval(v, min, max) ==
  IF ~v.attr.isAuto THEN v
  ELSE IF min # max THEN WithValues(v, min, max) ELSE WithValues(v, min - Tenth, max + Tenth)

\* What is written at a mark: of a fixed axis the k-th is the top less k steps.
ValueMark(v, p) ==
  IF v.attr.isAuto THEN v.hi - ValScale(v) * p
  ELSE v.attr.max - v.attr.step * ((p - (v.offs % v.dash)) \div v.dash)

\* The dialog of the axis is made at the first click on its button and kept; it
\* shows one digit behind the point, and what it shows is what any edit passes on.
AxisDialog(v) ==
  LET attr == GetAxisAttr(v)
  IN  [isAuto |-> attr.isAuto, min |-> RoundDiv(attr.min, Tenth) * Tenth,
       max |-> RoundDiv(attr.max, Tenth) * Tenth, step |-> RoundDiv(attr.step, Tenth) * Tenth]

ParamChange(v, dlg) == SetAxisAttr(v, dlg)

-----------------------------------------------------------------------------
(* The plot: [lpm, rpm, keyCntr, timer, pres, rect], where a rectangle is  *)
(* [x, y, w, h].  drag is the distance at which a move begins to count.    *)

NoRect  == [x |-> 0, y |-> 0, w |-> 0, h |-> 0]
NewPlot == [lpm |-> FALSE, rpm |-> FALSE, keyCntr |-> FALSE, timer |-> FALSE,
            pres |-> <<0, 0>>, rect |-> NoRect]

MousePressPlot(p, button, pos) ==
  IF button = "left" THEN [p EXCEPT !.pres = pos, !.lpm = TRUE, !.timer = TRUE]
  ELSE [p EXCEPT !.pres = pos, !.rpm = TRUE]

\* After a second with the button down the marker comes to the mouse.
TimerFires(p) == [p EXCEPT !.timer = FALSE, !.keyCntr = p.keyCntr \/ p.lpm]

RectOf(p, pos, old) ==
  LET w == pos[1] - p[1]
      h == pos[2] - p[2]
  IN  IF w = 0 \/ h = 0 THEN old
      ELSE [x |-> IF w > 0 THEN p[1] ELSE pos[1], y |-> IF h > 0 THEN p[2] ELSE pos[2],
            w |-> Abs(w), h |-> Abs(h)]

MouseMovePlot(p, pos, drag) ==
  IF Abs(pos[1] - p.pres[1]) + Abs(pos[2] - p.pres[2]) < drag THEN p
  ELSE [p EXCEPT !.timer = FALSE,
                 !.rect = IF p.lpm /\ ~p.keyCntr THEN RectOf(p.pres, pos, p.rect) ELSE p.rect]

\* Which axes a move with the right button, or the wheel, goes to.
MovesAxes(p, pos, drag) ==
  /\ Abs(pos[1] - p.pres[1]) + Abs(pos[2] - p.pres[2]) >= drag
  /\ ~p.lpm /\ p.rpm

WheelAxes(ctrl, shift) == IF ctrl THEN {"value"} ELSE IF shift THEN {"time"} ELSE {"time", "value"}

\* The release asks for a zoom, unless the button was down for the marker.  The
\* zoom takes the rectangle away.
AsksZoom(p) == ~p.keyCntr

MouseReleasePlot(p, button) ==
  IF button = "left"
  THEN [p EXCEPT !.lpm = FALSE, !.keyCntr = FALSE, !.rect = IF AsksZoom(p) THEN NoRect ELSE p.rect]
  ELSE [p EXCEPT !.rpm = FALSE]

-----------------------------------------------------------------------------
(* A graph: [time, value, history].  The k-th graph of a panel of periods  *)
(* looks k periods behind the axis, of which the panel has one.            *)

Shifted(a, period, k) == <<a.first + period * k, a.first + period * k + Span(a)>>

\* What addGraph of such a panel makes: how many graphs, and how far apart.
GraphCount(a, periodMs) ==
  LET n == Span(a) \div periodMs IN IF n < 1 THEN 1 ELSE IF n > 1000 THEN 1000 ELSE n

Period(a, periodMs) == Span(a) \div GraphCount(a, periodMs)

AddPosToHistory(g, shift) ==
  Append(g.history, [val |-> <<g.value.lo, g.value.hi>>,
                     tm  |-> Shifted(g.time, shift, 1)])

\* The zoom takes the interval of the axis itself.
ResizeByRect(g, rct, shift, font) ==
  LET tm  == Span(g.time)
      at(x) == TruncDiv(g.time.first * g.time.width + x * tm, g.time.width)
      top == g.value.height - rct.y
  IN  IF rct.w < 30 \/ rct.h < 30 THEN g
      ELSE [time    |-> SetTimeInterval(g.time, at(rct.x), at(rct.x + rct.w), font),
            value   |-> SetValInterval(g.value, g.value.lo + (top - rct.h) * ValScale(g.value),
                                       g.value.lo + top * ValScale(g.value)),
            history |-> AddPosToHistory(g, shift)]

\* The oldest one stays.
UndoCmd(g, font) ==
  LET last == Last(g.history)
  IN  IF g.history = <<>> THEN g
      ELSE [time    |-> SetTimeInterval(g.time, last.tm[1], last.tm[2], font),
            value   |-> SetValInterval(g.value, last.val[1], last.val[2]),
            history |-> IF Len(g.history) > 1 THEN Front(g.history) ELSE g.history]

\* A fifth, or four of them, to either side of what the graph shows.
KeyPress(g, key, shift, font) ==
  LET tenths == CASE key = "left"   -> -2 [] key = "right"  -> 2
                  [] key = "pageup" ->  8 [] key = "pagedn" -> -8
      at(t)  == TruncDiv(10 * t + tenths * Span(g.time), 10)
      seen   == Shifted(g.time, shift, 1)
  IN  [g EXCEPT !.time = SetTimeInterval(g.time, at(seen[1]), at(seen[2]), font)]

\* All there is of the signals of the graph; ranges is a set of <<min, max>>.
ResizeByTime(g, ranges, font) ==
  IF ranges = {} THEN g
  ELSE LET min == CHOOSE t \in {r[1] : r \in ranges} : \A r \in ranges : t <= r[1]
           max == CHOOSE t \in {r[2] : r \in ranges} : \A r \in ranges : t >= r[2]
       IN  [g EXCEPT !.time = SetTimeInterval(g.time, min, max, font)]

\* While the graph plays, the interval ends where the last record begins.
UpdateSignals(a, now, cycle, font) == SetTimeInterval(a, now - cycle - Span(a), now - cycle, font)

-----------------------------------------------------------------------------
(* The markers: x is where the left edge of one is, the line is half its   *)
(* width (5) further.                                                      *)

SetLimitPosX(x, width) == LET y == IF x < 0 THEN 0 ELSE x IN IF y > width - 5 THEN width - 5 ELSE y

MoveMarker(x, dx, width) == SetLimitPosX(x + dx, width)

\* The nearer one comes to the mouse; of two as near the left one.  No limit is asked.
ShowMarkPos(left, right, cursor) ==
  IF Abs(cursor - (left + 2)) > Abs(cursor - (right + 2))
  THEN <<left, cursor - 2>> ELSE <<cursor - 2, right>>

\* All graphs of the panel, but those of the sender's name, take over its markers.
MarkerChange(marks, names, sender) ==
  [g \in DOMAIN marks |-> IF names[g] # names[sender] THEN marks[sender] ELSE marks[g]]
=============================================================================
