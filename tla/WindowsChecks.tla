--------------------------- MODULE WindowsChecks ---------------------------
(* What the windows show against what was chosen for them, and what comes   *)
(* back of them from their file.  TLC evaluates the assumptions in the run  *)
(* of MCGraphPanel.                                                         *)
EXTENDS Windows

AnySignal == CHOOSE s \in PanelSignals : TRUE

-----------------------------------------------------------------------------
(* Every way of four gestures with one signal and two windows.              *)

Gestures == {"choose", "script", "reset", "add", "addToNew", "open", "periods", "close", "dark"}

Gesture(ws, e) ==
  LET new == ws.next - 1
  IN  CASE e = "choose"  -> ChooseColour(ws, AnySignal, "red")
        [] e = "script"  -> ChangeSignColor(ws, AnySignal, "blue")
        [] e = "reset"   -> ResetColour(ws, AnySignal)
        [] e = "add"     -> AddSignalOnGraph(ws, 0, AnySignal, 0)
        [] e = "addToNew" -> IF new = 0 \/ new \notin DOMAIN ws.win THEN ws
                             ELSE IF ws.win[new].distr THEN AddSignalToPeriods(ws, new, AnySignal, 2)
                             ELSE AddSignalOnGraph(ws, new, AnySignal, 1)
        [] e = "open"    -> AddNewWindow(ws, FALSE)
        [] e = "periods" -> AddNewWindow(ws, TRUE)
        [] e = "close"   -> IF new = 0 \/ new \notin DOMAIN ws.win THEN ws ELSE CloseWindow(ws, new)
        [] e = "dark"    -> UpdateGraphSetting(ws, "dark")

GestureRun(es) ==
  LET st[k \in 0 .. Len(es)] == IF k = 0 THEN NewSession("plain") ELSE Gesture(st[k - 1], es[k])
  IN  st[Len(es)]

AllGestures == [1 .. 4 -> Gestures]

\* Every window that is open has the look chosen last, whether it was open then or not.
ASSUME LookEverywhere ==
  \A es \in AllGestures :
    LET ws == GestureRun(es) IN \A w \in DOMAIN ws.win : ws.win[w].look = ws.look

ColoursAgree(ws) ==
  \A w \in DOMAIN ws.win : \A gs \in DOMAIN ws.win[w].colour :
    ws.win[w].colour[gs] = ColourOf(ws, gs[2])

\* Every graph of every window draws a signal in the colour the tree shows, as long
\* as no script gives it one and its colour is not reset.
ASSUME ColoursOfTheTree ==
  \A es \in AllGestures :
    Range(es) \cap {"script", "reset"} = {} => ColoursAgree(GestureRun(es))

\* A script's colour reaches the graphs only, and not those opened later; a reset
\* reaches the tree only.
ASSUME ScriptAndResetDiffer ==
  /\ ~ColoursAgree(GestureRun(<<"choose", "add", "script">>))
  /\ ~ColoursAgree(GestureRun(<<"choose", "add", "reset">>))
  /\ LET ws == GestureRun(<<"add", "script", "open", "addToNew">>)
     IN  {ws.win[w].colour[gs] : w \in {0}, gs \in DOMAIN ws.win[0].colour} = {"blue"}
         /\ \A gs \in DOMAIN ws.win[1].colour : ws.win[1].colour[gs] = Palette

-----------------------------------------------------------------------------
(* The file of the windows.                                                 *)

PlainNames == [comma |-> {}, space |-> {}]

\* Panels of one to three graphs, without and with an empty one, moved about.
Layouts ==
  LET secs  == {q \in UNION {[1 .. n -> PanelSignals] : n \in 1 .. 2} : IsInjective(q)} \cup {<<>>}
      built == {Loaded(EmptyPanel, f, PanelSignals) : f \in UNION {[1 .. n -> secs \ {<<>>}] : n \in 1 .. 2}}
      moved == {MovedUp(p, p.split[1]) : p \in built}
      other == {Toggled(p, p.split[1], AnySignal) : p \in built}
      grown == {WithGraph(p) : p \in built}
  IN  built \cup moved \cup other \cup grown

HasEmpty(p) == \E g \in Range(p.split) : p.obj[g].main \o p.obj[g].alter = <<>>

FixedAxis == [auto |-> FALSE, min |-> -12, max |-> 1200000, step |-> 40]

WithLayout(ws, w, p) ==
  LET filled == WithPanel(ws, w, p)
  IN  [filled EXCEPT !.win[w].span = "zoomed", !.win[w].axes[p.split[1]] = FixedAxis]

TwoWindows(p, q, distr) ==
  WithLayout(WithLayout(AddNewWindow(NewSession("plain"), distr), 0, p), 1, q)

\* What is seen of a window, in the order on the screen.
Seen(win) ==
  [sections |-> [i \in DOMAIN win.panel.split |->
                   win.panel.obj[win.panel.split[i]].main \o win.panel.obj[win.panel.split[i]].alter],
   axes     |-> AxisAttrs(win)]

Spans(ws) == {ws.win[w].span : w \in DOMAIN ws.win}

Restored(ws, monitor, odd) == LoadWindows(NewSession("plain"), SaveWinState(ws, monitor), monitor, odd)

\* Into windows nobody has used, the state comes back: as many windows, in each the
\* graphs in their order, in each the signals in theirs, those of the second axis now
\* behind the others, and the attributes of the axes, as long as no graph is empty.
\* The monitor brings back the width of the time axis, the viewer does not.  Both
\* bring a window of periods back as a plain one.
ASSUME StateComesBack ==
  \A p \in Layouts, monitor, distr \in BOOLEAN :
    LET q   == IF distr THEN AddGraphs(EmptyPanel, AnySignal, 2) ELSE Loaded(EmptyPanel, <<<<AnySignal>>>>, PanelSignals)
        ws  == TwoWindows(p, q, distr)
        res == Restored(ws, monitor, PlainNames)
    IN  ~HasEmpty(p) =>
          /\ DOMAIN res.win = {0, 1}
          /\ \A w \in {0, 1} : Seen(res.win[w]) = Seen(ws.win[w]) /\ ~res.win[w].distr
          /\ Spans(res) = IF monitor THEN {"zoomed"} ELSE {"buffer"}

\* An empty graph, or a name with a comma, ends what is read of its window; a name
\* with a space is not found.
ASSUME EmptyGraphEnds ==
  \A p \in Layouts :
    LET back(q) == Restored(WithLayout(NewSession("plain"), 0, q), TRUE, PlainNames).win[0].panel.split
    IN  HasEmpty(p) => /\ Len(back(p)) = Len(p.split) - 1
                       /\ back(Moved(p, p.split[Len(p.split)], 0)) = <<>>

ASSUME OddNamesAreLost ==
  \A p \in Layouts :
    LET ws     == WithLayout(NewSession("plain"), 0, p)
        sec(i) == p.obj[p.split[i]].main \o p.obj[p.split[i]].alter
        comma  == Restored(ws, TRUE, [PlainNames EXCEPT !.comma = {AnySignal}]).win[0].panel
        space  == Restored(ws, TRUE, [PlainNames EXCEPT !.space = {AnySignal}]).win[0].panel
    IN  /\ Contains(sec(1), AnySignal) => comma.split = <<>>
        /\ \A g \in Range(space.split) : ~Contains(space.obj[g].main, AnySignal)
        /\ ~HasEmpty(p) => Shown(space) = Shown(p) \ {AnySignal}

\* Six digits of a bound of an axis come back, not seven.
ASSUME SixDigits ==
  /\ \A x \in {0, 1, -999999, 1200000} : Six(x) = x
  /\ Six(1234567) = 1234570 /\ Six(-9999995) = -10000000

\* Into windows that are in use: the other windows double, and all the sections of
\* the main one go to the graph that is selected there.
ASSUME LoadedTwiceIsMixed ==
  \A p \in Layouts :
    LET ws    == TwoWindows(p, p, FALSE)
        file  == SaveWinState(ws, TRUE)
        twice == LoadWindows(LoadWindows(NewSession("plain"), file, TRUE, PlainNames), file, TRUE, PlainNames)
        main  == twice.win[0].panel
    IN  ~HasEmpty(p) =>
          /\ DOMAIN twice.win = 0 .. 2
          /\ Range(main.obj[main.sel].main) = Shown(p)

\* A request for data from a window that was closed is refused, though its graphs
\* may still ask.
ASSUME ClosedIsRefused ==
  LET ws == GestureRun(<<"open", "addToNew", "close">>)
  IN  /\ \A has \in BOOLEAN : LoadRequest(TRUE, DOMAIN ws.win, 1, has) = "refused"
      /\ \A has \in BOOLEAN : LoadRequest(TRUE, DOMAIN ws.win, 0, has) # "refused"
=============================================================================
