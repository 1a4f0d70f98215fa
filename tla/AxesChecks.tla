----------------------------- MODULE AxesChecks -----------------------------
(* What a gesture on a graph does, against what it should do.  TLC          *)
(* evaluates the assumptions in the run of MCGraphPanel.                    *)
EXTENDS Axes

\* A time axis eight pixels wide, and a value axis of the same height.
Times(first, second, width) ==
  [Between(NewAxisTime(0, width), first, second) EXCEPT !.font = 40]

SomeTimes == {Times(100000, 100000 + n, 8) : n \in {1, 2, 7, 19, 20, 21, 800, 59999, 70000, 3600001}}

Values(lo, length) == WithValues(NewAxisValue(8), lo, lo + 8 * length)

SomeValues == {Values(lo, n) : lo \in {-400, 0, 17}, n \in {1, 10, 500, 9000}}

-----------------------------------------------------------------------------
(* A drag keeps the length of the interval, and the way back undoes it.  A *)
(* move straight up or down takes 1 ms off every time.                     *)
ASSUME DragReturns ==
  \A a \in SomeTimes, d \in -8 .. 8 :
    LET there == MouseMoveTime(a, d)
        back  == MouseMoveTime(there, 0)
    IN  /\ Span(there) = Span(a)
        /\ d # 0 => back.first = a.first
        /\ d = 0 => there.first = a.first - 1

(* The wheel keeps the time under the mouse, and leaves an interval.        *)
ASSUME WheelKeepsTime ==
  \A a \in SomeTimes, delta \in {-120, 120}, x \in 0 .. 7 :
    LET b == ScaleTime(a, delta, x)
    IN  TimeAt(b, x) = TimeAt(a, x) /\ Span(b) > 0

(* A turn in and a turn out: the old interval, unless the step is another   *)
(* one on the way back or the least length was reached.                     *)
ASSUME WheelReturns ==
  \A a \in SomeTimes, x \in 0 .. 7 :
    LET in  == ScaleTime(a, 120, x)
        out == ScaleTime(in, -120, x)
    IN  (WheelStep(in.sec) = WheelStep(a.sec) /\ Span(a) > 2 * WheelStep(a.sec))
          => Span(out) = Span(a) /\ Abs(out.first - a.first) <= 1

(* The marks of an axis that was painted are at least one text apart.       *)
ASSUME MarksApart ==
  \A a \in SomeTimes, n \in 1 .. 30, up \in BOOLEAN :
    LET turn[k \in 0 .. n] == IF k = 0 THEN a ELSE ScaleTime(turn[k - 1], IF up THEN 120 ELSE -120, 3)
    IN  turn[n].dash > turn[n].font

(* The value axis: a drag moves both ends alike, the wheel keeps the value  *)
(* under the mouse, and a fixed axis does not move at all.                  *)
ASSUME ValueUnderMouse ==
  \A v \in SomeValues, y \in 0 .. 8, delta \in {-120, 120} :
    LET m == MouseMoveValue(v, y)
        s == ScaleValue(v, delta, y)
        f == SetAxisAttr(v, [isAuto |-> FALSE, min |-> 0, max |-> 80, step |-> 10])
    IN  /\ m.hi - m.lo = v.hi - v.lo /\ m.lo - v.lo = y * ValScale(v)
        /\ ValueAt(s, y) = ValueAt(v, y) /\ s.hi > s.lo
        /\ MouseMoveValue(f, y) = f /\ ScaleValue(f, delta, y) = f
        /\ SetValInterval(f, 1, 2) = f

(* The settings of a fixed axis are those that were given, and put on       *)
(* another axis again; those of an auto axis put on a new one do nothing.   *)
ASSUME AttrReturns ==
  \A v, w \in SomeValues, min \in {-80, 0}, max \in {80, 160}, step \in {0, 10, 800} :
    LET attr == [isAuto |-> FALSE, min |-> min, max |-> max, step |-> step]
        f    == SetAxisAttr(v, attr)
    IN  /\ GetAxisAttr(f) = attr
        /\ GetAxisAttr(SetAxisAttr(w, GetAxisAttr(f))) = attr
        /\ f.dash >= 1 /\ \A p \in Marks(f.offs, f.dash, f.height) : ValueMark(f, p) <= max
        /\ SetAxisAttr(w, GetAxisAttr(v)) = w

(* An axis that is fixed in its dialog takes what it was when the dialog    *)
(* was made, not what it shows at the moment; and at most one digit of it.  *)
ASSUME DialogIsOld ==
  \A v, w \in SomeValues :
    LET dlg   == AxisDialog(v)
        fixed == ParamChange(w, [dlg EXCEPT !.isAuto = FALSE])
    IN  /\ fixed.hi = dlg.max /\ (dlg.min # dlg.max => fixed.lo = dlg.min)
        /\ 2 * Abs(fixed.hi - v.hi) <= Tenth

-----------------------------------------------------------------------------
(* Every sequence of five events on a plot that one mouse button can send:  *)
(* when a release asks for a zoom, the rectangle was drawn since the press. *)

PlotEvents ==
  ({"press", "timer", "release"} \X {<<2, 2>>}) \cup ({"move"} \X {<<4, 4>>, <<4, 2>>, <<1, 5>>})

PlotStep(st, e) ==
  LET p     == st.plot
      asked == e[1] = "release" /\ p.lpm /\ AsksZoom(p)
  IN  [plot  |-> CASE e[1] = "press"   -> MousePressPlot(p, "left", e[2])
                   [] e[1] = "timer"   -> IF p.timer THEN TimerFires(p) ELSE p
                   [] e[1] = "release" -> MouseReleasePlot(p, "left")
                   [] OTHER            -> MouseMovePlot(p, e[2], 2),
       asked |-> IF asked THEN p.rect ELSE NoRect]

ASSUME ZoomIsDrawn ==
  \A es \in [1 .. 5 -> PlotEvents] :
    LET st[k \in 0 .. 5] ==
          IF k = 0 THEN [plot |-> NewPlot, asked |-> NoRect] ELSE PlotStep(st[k - 1], es[k])
        legal == \A k \in 1 .. 5 :
                   /\ es[k][1] = "press" => ~st[k - 1].plot.lpm
                   /\ es[k][1] = "release" => st[k - 1].plot.lpm
    IN  legal => \A k \in 1 .. 5 : st[k].asked # NoRect =>
          \E i, j \in 1 .. k - 1 :
            /\ i < j /\ es[i][1] = "press" /\ es[j][1] = "move"
            /\ \A n \in i + 1 .. k - 1 : es[n][1] \notin {"press", "release"}
            /\ st[k].asked = RectOf(<<2, 2>>, es[j][2], NoRect)

-----------------------------------------------------------------------------
(* Zooms of a graph and the way back, with the k-th graph of a panel.       *)

NewGraph(first, second, k) ==
  [time |-> Times(first, second, 100), value |-> [Values(0, 9000) EXCEPT !.height = 72], history |-> <<>>]

Rects == {[x |-> x, y |-> 1, w |-> w, h |-> 36] : x \in {0, 10, 30}, w \in {30, 50}}

View(g) == <<g.time.first, g.time.second, g.value.lo, g.value.hi>>

\* As many undos as zooms lead back to the first view, and more stay there; on the
\* k-th graph of a panel of periods every undo goes k periods too far.
ASSUME UndoReturns ==
  \A r1, r2 \in Rects, shift \in {0, 500} :
    LET g0 == NewGraph(100000, 110000, 0)
        g2 == ResizeByRect(ResizeByRect(g0, r1, shift, 40), r2, shift, 40)
        u2 == UndoCmd(UndoCmd(g2, 40), 40)
        u3 == UndoCmd(u2, 40)
    IN  /\ View(u3) = View(u2)
        /\ View(u2) = <<100000 + shift, 110000 + shift, g0.value.lo, g0.value.hi>>

\* A key and the one against it: the same interval, but for 1 ms; on the k-th
\* graph both go k periods forward.
ASSUME KeysReturn ==
  \A n \in 1 .. 23, shift \in {0, 7},
     pair \in {<<"left", "right">>, <<"right", "left">>, <<"pageup", "pagedn">>, <<"pagedn", "pageup">>} :
    LET g == NewGraph(100000, 100000 + n, 0)
        h == KeyPress(KeyPress(g, pair[1], shift, 40), pair[2], shift, 40)
    IN  /\ Span(h.time) = n
        /\ g.time.first + 2 * shift - h.time.first \in 0 .. 1

\* Rectangles of the least size, one in the other, leave an interval without
\* length: the next scale is zero, and the places of points are divided by it.
ASSUME RubberBands ==
  LET g[k \in 0 .. 10] ==
        IF k = 0 THEN NewGraph(100000, 110000, 0)
        ELSE [ResizeByRect(g[k - 1], [x |-> 30, y |-> 1, w |-> 30, h |-> 30], 0, 40) EXCEPT !.value = g[0].value]
  IN  \E k \in 1 .. 10 : Span(g[k].time) = 0

(* Within the plot a marker stays within it; and the graphs of one panel    *)
(* show the same markers, as long as their names differ.                    *)
ASSUME MarkersTogether ==
  /\ \A x \in 0 .. 15, dx \in -30 .. 30 : MoveMarker(x, dx, 20) \in 0 .. 15
  /\ \A l, r, c \in 0 .. 15 :
       LET m == ShowMarkPos(l, r, c)
       IN  (m[1] + 2 = c \/ m[2] + 2 = c) /\ (m[1] = l \/ m[2] = r)
  /\ \A names \in [1 .. 3 -> {"graph_0", "graph_1", "graph_2"}], g \in 1 .. 3 :
       LET m == MarkerChange([i \in 1 .. 3 |-> <<i, i + 9>>], names, g)
       IN  (\A i \in 1 .. 3 : m[i] = m[g]) <=> (\A i \in 1 .. 3 : i # g => names[i] # names[g])
=============================================================================
