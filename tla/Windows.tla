------------------------------ MODULE Windows ------------------------------
(***************************************************************************)
(* The windows of graphs of the monitor and of the viewer (main_win.cpp of *)
(* both): opened, closed, the look and the colours they are given, and the *)
(* file their state is kept in.  Each window has a panel of GraphPanel.    *)
(*                                                                         *)
(* The state ws is a record: win, from the windows that are open, 0 the    *)
(* main one, to [distr, panel, colour, axes, span, look]; next, the number *)
(* of the next window; attr, from signals to the colours chosen in the     *)
(* tree (signAttr_); look, cng.graphSett.  colour is a function of         *)
(* <<graph, signal>>, axes one of graphs, span says where the width of the *)
(* time axis comes from.                                                   *)
(*                                                                         *)
(* Left out: where a window is on the screen, what the look is made of,    *)
(* the colours of the palette (NewColor in Plot).                          *)
(***************************************************************************)
EXTENDS GraphPanel, FiniteSetsExt, Rounding

Palette    == "palette"
AutoAxis   == [auto |-> TRUE, min |-> 0, max |-> 0, step |-> 0]
NoFunction == [x \in {} |-> 0]

BlankWindow(distr, look) ==
  [distr |-> distr, panel |-> EmptyPanel, colour |-> NoFunction, axes |-> NoFunction,
   span |-> "default", look |-> look]

NewSession(look) ==
  [win |-> [w \in {0} |-> BlankWindow(FALSE, look)], next |-> 1, attr |-> NoFunction, look |-> look]

-----------------------------------------------------------------------------
(* Windows.                                                                *)

AddNewWindow(ws, distr) ==
  [ws EXCEPT !.win = (ws.next :> BlankWindow(distr, ws.look)) @@ @, !.next = @ + 1]

CloseWindow(ws, w) ==
  [ws EXCEPT !.win = Restrict(@, DOMAIN @ \ {w})]

\* The look is kept for the windows to come, and given to all there are.
UpdateGraphSetting(ws, look) ==
  [ws EXCEPT !.look = look, !.win = [w \in DOMAIN ws.win |-> [ws.win[w] EXCEPT !.look = look]]]

\* Who asks for data is answered from the database by the loader of its window,
\* over the interval chosen for the signal or one that is asked for.
LoadRequest(fromDatabase, loaders, w, hasInterval) ==
  IF ~fromDatabase THEN "file"
  ELSE IF w \notin loaders THEN "refused"
  ELSE IF hasInterval THEN "interval" ELSE "dialog"

-----------------------------------------------------------------------------
(* Signals and their colours.                                              *)

ColourOf(ws, s) == IF s \in DOMAIN ws.attr THEN ws.attr[s] ELSE Palette

Plotted(p) == {<<g, s>> \in Range(p.split) \X PanelSignals :
                 Contains(p.obj[g].main, s) \/ Contains(p.obj[g].alter, s)}

\* What was on a graph keeps its colour, what is new gets that of the tree.
WithPanel(ws, w, p) ==
  LET win     == ws.win[w]
      colours == [gs \in Plotted(p) |-> IF gs \in DOMAIN win.colour THEN win.colour[gs] ELSE ColourOf(ws, gs[2])]
      axes    == [g \in Range(p.split) |-> IF g \in DOMAIN win.axes THEN win.axes[g] ELSE AutoAxis]
  IN  [ws EXCEPT !.win[w] = [win EXCEPT !.panel = p, !.colour = colours, !.axes = axes]]

\* The first signal, and each new section, takes the time axis to the buffer.
AddSignalOnGraph(ws, w, s, section) ==
  LET old   == ws.win[w].panel
      added == WithPanel(ws, w, WithSignalOnGraph(old, s, section, PanelSignals))
  IN  IF Len(old.graphObj) <= section THEN [added EXCEPT !.win[w].span = "buffer"] ELSE added

\* A window of periods: as many graphs as periods, all with the same signals.
AddGraphs(p, s, count) ==
  LET grown == FoldLeft(LAMBDA q, i : LET r == WithGraph(q) IN WithSignal(r, r.sel, s),
                        p, [i \in 1 .. count |-> i])
  IN  [grown EXCEPT !.sel = grown.graphObj[1]]

AddSignalToPeriods(ws, w, s, count) ==
  LET old == ws.win[w].panel
  IN  IF old.graphObj = <<>>
      THEN [WithPanel(ws, w, AddGraphs(old, s, count)) EXCEPT !.win[w].span = "buffer"]
      ELSE WithPanel(ws, w, FoldLeft(LAMBDA q, g : WithSignal(q, g, s), old, old.graphObj))

SetSignalAttr(ws, s, c) ==
  LET painted(win) == [gs \in DOMAIN win.colour |-> IF gs[2] = s THEN c ELSE win.colour[gs]]
  IN  [ws EXCEPT !.win = [w \in DOMAIN ws.win |-> [ws.win[w] EXCEPT !.colour = painted(ws.win[w])]]]

\* A double click on the colour of a signal in the tree.
ChooseColour(ws, s, c) == [SetSignalAttr(ws, s, c) EXCEPT !.attr = (s :> c) @@ @]

\* A script gives a colour to what is drawn, not to the tree.
ChangeSignColor(ws, s, c) == SetSignalAttr(ws, s, c)

\* The menu takes the colour from the tree; the graphs are only drawn again.
ResetColour(ws, s) == [ws EXCEPT !.attr = Restrict(@, DOMAIN @ \ {s})]

-----------------------------------------------------------------------------
(* The file of the windows.  Names with a space or a comma in them do not  *)
(* survive it: odd is a record of the two sets.                            *)

\* A stream writes a number with six digits.
Six(x) ==
  LET p == CHOOSE n \in {1, 10, 100, 1000} :
             /\ Abs(x) < 1000000 * n
             /\ n = 1 \/ Abs(x) >= 100000 * n
  IN  RoundDiv(x, p) * p

WrittenAxis(attr) == [attr EXCEPT !.min = Six(@), !.max = Six(@), !.step = Six(@)]

\* GraphPanelWidget::getAxisAttr, in the order of the splitter.
AxisAttrs(win) == [i \in DOMAIN win.panel.split |-> win.axes[win.panel.split[i]]]

\* Only the monitor keeps the width of the time axis in this file.
Entry(win, w, monitor) ==
  [main     |-> w = 0,
   span     |-> IF monitor THEN win.span ELSE "none",
   sections |-> Sections(win.panel),
   axes     |-> [i \in DOMAIN win.panel.split |-> WrittenAxis(AxisAttrs(win)[i])]]

SaveWinState(ws, monitor) ==
  LET open == SetToSeq(DOMAIN ws.win)
  IN  [i \in DOMAIN open |-> Entry(ws.win[open[i]], open[i], monitor)]

\* A comma makes a list of the value, which has no text; a space ends a name.
ReadSection(sec, odd) ==
  IF Range(sec) \cap odd.comma # {} THEN <<>> ELSE SelectSeq(sec, LAMBDA s : s \notin odd.space)

\* A section whose text is empty is the end; one of spaced names only adds nothing.
ReadSections(e, odd) ==
  LET ends == SelectInSeq(e.sections, LAMBDA x : x = <<>> \/ Range(x) \cap odd.comma # {})
      kept == IF ends = 0 THEN e.sections ELSE SubSeq(e.sections, 1, ends - 1)
  IN  [i \in DOMAIN kept |-> ReadSection(kept[i], odd)]

SetAxisAttrs(ws, w, attrs) ==
  LET win   == ws.win[w]
      at(g) == SelectInSeq(win.panel.split, LAMBDA h : h = g)
  IN  [ws EXCEPT !.win[w].axes =
         [g \in DOMAIN win.axes |-> IF at(g) <= Len(attrs) THEN attrs[at(g)] ELSE win.axes[g]]]

LoadSections(ws, w, secs) ==
  FoldLeft(LAMBDA u, i : FoldLeft(LAMBDA v, s : AddSignalOnGraph(v, w, s, i - 1), u, secs[i]),
           ws, [i \in DOMAIN secs |-> i])

\* One window of the file: the main one, or a new one, never one of periods.
LoadEntry(ws, e, monitor, odd) ==
  LET w      == IF e.main THEN 0 ELSE ws.next
      opened == IF e.main THEN ws ELSE AddNewWindow(ws, FALSE)
      filled == SetAxisAttrs(LoadSections(opened, w, ReadSections(e, odd)), w, e.axes)
      span   == IF e.span = "none" THEN "10000" ELSE e.span
  IN  IF monitor THEN [filled EXCEPT !.win[w].span = span] ELSE filled

LoadWindows(ws, file, monitor, odd) ==
  FoldLeft(LAMBDA u, e : LoadEntry(u, e, monitor, odd), ws, file)
=============================================================================
