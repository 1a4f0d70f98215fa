----------------------------- MODULE GraphPanel -----------------------------
(***************************************************************************)
(* The panel of graphs (SVGraphPanel/src/graph_panel_widget.cpp, the part  *)
(* of graph_widget.cpp that says which signals a graph shows) and how the  *)
(* monitor keeps what it shows from one session to the next                *)
(* (SVMonitor/src/main_win.cpp: writeSettings, the timer of readSettings). *)
(*                                                                         *)
(* Everything runs in the window's thread, one handler after the other.    *)
(* A graph is a place in the sequence obj of all that were made in the     *)
(* session.  Its name is the number in "graph_<n>".  A closed graph leaves *)
(* the splitter (deleteLater) but may stay in graphObj_: from then on the  *)
(* panel holds a pointer to freed memory, whatever it does next is         *)
(* undefined and the session is over.                                      *)
(*                                                                         *)
(* Left out: axes, markers, colours, the drawing.  left is history.        *)
(***************************************************************************)
EXTENDS Integers, Sequences, SequencesExt

CONSTANTS PanelSignals,
          BoolSignals,   \* those of type BOOL
          MaxGraphs,     \* bound: graphs made in a session
          PanelSessions    \* bound: sessions

ASSUME PanelAssumption ==
  /\ BoolSignals \subseteq PanelSignals
  /\ MaxGraphs \in Nat \ {0}
  /\ PanelSessions \in Nat \ {0}

VARIABLES panel,    \* obj, graphObj_, the splitter, selGraph_
          known,    \* signals of the registry
          pending,  \* tmWinSetts_ has not fired yet
          ini,      \* sections of the settings file
          panelSession,  \* bound: how many there have been
          left      \* the plots at the last orderly exit

panelVars == <<panel, known, pending, ini, panelSession, left>>

NoGraph == 0
Freed   == [name |-> 0, main |-> <<>>, alter |-> <<>>]
EmptyPanel   == [obj |-> <<>>, graphObj |-> <<>>, split |-> <<>>, sel |-> NoGraph]

PanelInit ==
  /\ panel = EmptyPanel
  /\ known = {}
  /\ pending = TRUE
  /\ ini = <<>>
  /\ panelSession = 1
  /\ left = <<>>

-----------------------------------------------------------------------------
(* Operations of a graph, as functions of the panel.                       *)

\* Bug: a signal that is there is added again.
WithSignalAgain(p, g, s) == [p EXCEPT !.obj[g].main = <<s>> \o @]

\* signalList_ and signalListAlter_, the newest first.
WithSignal(p, g, s) ==
  [p EXCEPT !.obj[g].main = IF Contains(@, s) THEN @ ELSE <<s>> \o @]

WithAlterSignal(p, g, s) ==
  [p EXCEPT !.obj[g].alter = IF s \in BoolSignals \/ Contains(@, s) THEN @ ELSE <<s>> \o @]

WithoutSignal(p, g, s)      == [p EXCEPT !.obj[g].main  = RemoveFirst(@, s)]
WithoutAlterSignal(p, g, s) == [p EXCEPT !.obj[g].alter = RemoveFirst(@, s)]

\* Bug: the label of a signal takes it off, whatever its type.
ToggledAny(p, g, s) ==
  IF Contains(p.obj[g].main, s)
  THEN WithAlterSignal(WithoutSignal(p, g, s), g, s)
  ELSE WithSignal(WithoutAlterSignal(p, g, s), g, s)

\* A label that is dropped on a graph: from one axis to the other.
Toggled(p, g, s) ==
  IF Contains(p.obj[g].main, s)
  THEN IF s \in BoolSignals THEN p ELSE WithAlterSignal(WithoutSignal(p, g, s), g, s)
  ELSE WithSignal(WithoutAlterSignal(p, g, s), g, s)

OfLabel(p, g, axis, s) ==
  IF axis = "main" THEN WithoutSignal(p, g, s) ELSE WithoutAlterSignal(p, g, s)

-----------------------------------------------------------------------------
(* Operations of the panel.                                                *)

\* addGraph, n > 0 times; the last graph is selected.
WithGraphs(p, n) ==
  LET new == [i \in 1 .. n |-> Len(p.obj) + i]
  IN  [obj      |-> p.obj \o [i \in 1 .. n |-> [name |-> Len(p.graphObj) + i - 1,
                                               main |-> <<>>, alter |-> <<>>]],
       graphObj |-> p.graphObj \o new,
       split    |-> p.split \o new,
       sel      |-> Len(p.obj) + n]

WithGraph(p) == WithGraphs(p, 1)

\* while (graphObj_.size() <= section) addGraph("")
Grown(p, section) ==
  IF Len(p.graphObj) > section THEN p ELSE WithGraphs(p, section + 1 - Len(p.graphObj))

\* The selected graph takes it; there is none after the last but one was closed.
Target(p, section) == IF p.sel # NoGraph THEN p.sel ELSE p.graphObj[section + 1]

WithSignalOnGraph(p, s, section, exist) ==
  IF s \notin exist THEN p
  ELSE LET q == Grown(p, section)
           g == Target(q, section)
       IN  [WithSignal(q, g, s) EXCEPT !.sel = g]

\* The first graph of that name, in the order in which they were made.
OfName(p, name) == SelectInSeq(p.graphObj, LAMBDA h : p.obj[h].name = name)

SelAfter(p, g, rest) ==
  IF g # p.sel THEN p.sel
  ELSE IF Len(rest) > 1 THEN rest[1] ELSE NoGraph

\* closeGraph takes the first graph of that name from the list, and deletes this one.
Closed(p, g) ==
  LET rest == RemoveAt(p.graphObj, OfName(p, p.obj[g].name))
  IN  [p EXCEPT !.obj[g] = Freed, !.graphObj = rest, !.split = RemoveFirst(@, g),
                !.sel = SelAfter(p, g, rest)]

\* QSplitter::insertWidget of a widget it has: an index out of range is the last.
Moved(p, g, index) ==
  LET rest == RemoveFirst(p.split, g)
      at   == IF index < 0 \/ index > Len(rest) THEN Len(rest) ELSE index
  IN  [p EXCEPT !.split = InsertAt(rest, at + 1, g)]

\* Index in the splitter, from 0, of the graph found by the name of g.
IndexByName(p, g) ==
  SelectInSeq(p.split, LAMBDA h : h = p.graphObj[OfName(p, p.obj[g].name)]) - 1

MovedDn(p, g) == Moved(p, g, IndexByName(p, g) - 1)

MovedUp(p, g) ==
  LET next == IndexByName(p, g) + 1
  IN  Moved(p, g, IF next >= Len(p.graphObj) THEN 0 ELSE next)

-----------------------------------------------------------------------------
(* The file.  Sections follow the splitter, from the oldest signal to the  *)
(* newest, those of the second axis before the others.                     *)

Sections(p) ==
  [i \in DOMAIN p.split |-> Reverse(p.obj[p.split[i]].main \o p.obj[p.split[i]].alter)]

\* An empty value is taken for the end of the sections.
ReadableLines(f) ==
  LET empty == SelectInSeq(f, LAMBDA x : x = <<>>)
  IN  IF empty = 0 THEN f ELSE SubSeq(f, 1, empty - 1)

\* The signals of a line, one after the other.
WithLine(p, line, section, exist) ==
  LET After[j \in 0 .. Len(line)] ==
        IF j = 0 THEN p ELSE WithSignalOnGraph(After[j - 1], line[j], section, exist)
  IN  After[Len(line)]

Loaded(p, f, exist) ==
  LET lines == ReadableLines(f)
      After[i \in 0 .. Len(lines)] ==
        IF i = 0 THEN p ELSE WithLine(After[i - 1], lines[i], i - 1, exist)
  IN  After[Len(lines)]

-----------------------------------------------------------------------------
(* Handlers.                                                               *)

Graphs   == Range(panel.split)
Dangling == Range(panel.graphObj) # Graphs
Room     == Len(panel.obj) < MaxGraphs
Running  == ~Dangling
Working  == Running /\ panelSession < PanelSessions  \* bound: the last session only loads

Labels(g) == {<<"main", s>>  : s \in Range(panel.obj[g].main)} \cup
             {<<"alter", s>> : s \in Range(panel.obj[g].alter)}

Becomes(p) == panel' = p /\ UNCHANGED <<known, ini, panelSession, left>>

\* A double click in the list of signals: the saved layout is not loaded any more.
ClickSignal(s) ==
  /\ Working /\ s \in known
  /\ panel.graphObj = <<>> => Room
  /\ pending' = FALSE
  /\ Becomes(WithSignalOnGraph(panel, s, 0, known))

DropSignalOnPanel(s) ==
  /\ Working /\ s \in known /\ Room
  /\ LET p == WithGraph(panel) IN Becomes(WithSignal(p, p.sel, s))
  /\ UNCHANGED pending

DropSignalOnGraph(s, g) ==
  /\ Working /\ s \in known
  /\ Becomes(WithSignal(panel, g, s))
  /\ UNCHANGED pending

\* What is dropped on its own graph goes to the other axis, on another it is copied.
DropLabelOnGraph(from, label, g) ==
  /\ Working
  /\ label \in Labels(from)
  /\ Becomes(Toggled(panel, g, label[2]))
  /\ UNCHANGED pending

DropLabelOnPanel(from, label) ==
  /\ Working /\ Room
  /\ label \in Labels(from)
  /\ LET p == WithGraph(OfLabel(panel, from, label[1], label[2]))
     IN  Becomes(WithSignal(p, p.sel, label[2]))
  /\ UNCHANGED pending

\* The right button on a label.
DelSignal(g, label) ==
  /\ Working
  /\ label \in Labels(g)
  /\ Becomes(OfLabel(panel, g, label[1], label[2]))
  /\ UNCHANGED pending

SelectGraph(g) ==
  /\ Working
  /\ Becomes([panel EXCEPT !.sel = panel.graphObj[OfName(panel, panel.obj[g].name)]])
  /\ UNCHANGED pending

CloseGraph(g) ==
  /\ Working
  /\ Becomes(Closed(panel, g))
  /\ UNCHANGED pending

GraphToDn(g) == Working /\ Becomes(MovedDn(panel, g)) /\ UNCHANGED pending
GraphToUp(g) == Working /\ Becomes(MovedUp(panel, g)) /\ UNCHANGED pending

\* The registry learns of a signal; it never forgets one.
SignalAppears(s) ==
  /\ s \notin known
  /\ known' = known \cup {s}
  /\ UNCHANGED <<panel, pending, ini, panelSession, left>>

\* toutLoadWinStateSec after the start, whatever has appeared by then.
LoadWinState ==
  /\ Running /\ pending
  /\ Len(panel.obj) + Len(ini) <= MaxGraphs
  /\ pending' = FALSE
  /\ Becomes(Loaded(panel, ini, known))

NextSession ==
  /\ panelSession < PanelSessions
  /\ panelSession' = panelSession + 1
  /\ panel' = EmptyPanel
  /\ known' = {}
  /\ pending' = TRUE

\* Bug: the graphs are written as graphObj_ has them, not as the splitter shows them.
ExitByCreation ==
  /\ Running
  /\ ini' = Sections([panel EXCEPT !.split = panel.graphObj])
  /\ left' = [i \in DOMAIN panel.split |-> panel.obj[panel.split[i]]]
  /\ NextSession

\* The destructor writes the settings, whether or not they were ever loaded.
PanelExit ==
  /\ Running
  /\ ini' = Sections(panel)
  /\ left' = [i \in DOMAIN panel.split |-> panel.obj[panel.split[i]]]
  /\ NextSession

\* The process ends otherwise: what was written last stays.
Crash ==
  /\ NextSession
  /\ UNCHANGED <<ini, left>>

UserStep ==
  \/ \E s \in PanelSignals : ClickSignal(s) \/ DropSignalOnPanel(s)
  \/ \E s \in PanelSignals, g \in Graphs : DropSignalOnGraph(s, g)
  \/ \E from, g \in Graphs : \E l \in Labels(from) : DropLabelOnGraph(from, l, g)
  \/ \E g \in Graphs : \E l \in Labels(g) : DropLabelOnPanel(g, l) \/ DelSignal(g, l)
  \/ \E g \in Graphs : SelectGraph(g) \/ CloseGraph(g) \/ GraphToDn(g) \/ GraphToUp(g)

PanelNext ==
  \/ UserStep
  \/ \E s \in PanelSignals : SignalAppears(s)
  \/ LoadWinState
  \/ PanelExit
  \/ Crash

PanelSpec == PanelInit /\ [][PanelNext]_panelVars

-----------------------------------------------------------------------------
(* Properties.                                                             *)

\* Everything is where it can be; a BOOL signal is never on the second axis.
Lists(q) == IsInjective(q) /\ Range(q) \subseteq PanelSignals

PanelTypeOK ==
  /\ \A g \in DOMAIN panel.obj :
       /\ panel.obj[g].name \in 0 .. MaxGraphs - 1
       /\ Lists(panel.obj[g].main) /\ Lists(panel.obj[g].alter)
       /\ Range(panel.obj[g].alter) \cap BoolSignals = {}
  /\ IsInjective(panel.graphObj) /\ Range(panel.graphObj) \subseteq DOMAIN panel.obj
  /\ IsInjective(panel.split)    /\ Range(panel.split)    \subseteq DOMAIN panel.obj
  /\ panel.sel \in DOMAIN panel.obj \cup {NoGraph}
  /\ known \subseteq PanelSignals
  /\ pending \in BOOLEAN
  /\ \A i \in DOMAIN ini : Range(ini[i]) \subseteq PanelSignals
  /\ panelSession \in 1 .. PanelSessions
  /\ Len(left) = Len(ini)

Shown(p) == UNION {Range(p.obj[g].main) \cup Range(p.obj[g].alter) : g \in Range(p.split)}

\* Moving labels about never takes the last view of a signal away: not from one
\* axis to the other, where a BOOL signal cannot go, not when the other axis has it
\* already, and not to another or a new graph (GraphWidget::dropEvent,
\* GraphPanelWidget::dropEvent: delete first, add then).
MovingKeeps ==
  [][(\E from \in Graphs : \E l \in Labels(from) :
        DropLabelOnPanel(from, l) \/ \E g \in Graphs : DropLabelOnGraph(from, l, g))
     => Shown(panel) \subseteq Shown(panel')]_panelVars

Before(q, x, y) == \E i, j \in DOMAIN q : i < j /\ q[i] = x /\ q[j] = y

\* The signals of l, those of its second axis now on the first and behind the others.
SamePlot(q, l) ==
  LET own   == Range(l.main) \ Range(l.alter)
      moved == Range(l.alter)
  IN  /\ Range(q.main) = own \cup moved /\ q.alter = <<>>
      /\ \A x, y \in own   : Before(q.main, x, y) <=> Before(l.main, x, y)
      /\ \A x, y \in moved : Before(q.main, x, y) <=> Before(l.alter, x, y)
      /\ \A x \in own, y \in moved : Before(q.main, x, y)

\* Plots that were all in use at an orderly exit, and whose signals have all appeared
\* when the layout is loaded into a panel nobody has touched, come back: as many, in
\* the order on the screen and not that of graphObj_, each with its signals in their
\* order, those of the second axis now behind them on the first.  Neither sessions
\* that crashed in between nor signals that come in any order change that
\* (getLocateSignals, writeSettings, readSettings' timer, addSignalOnGraph).
LayoutKept ==
  [][(/\ LoadWinState /\ panel = EmptyPanel
      /\ \A i \in DOMAIN ini : ini[i] # <<>> /\ Range(ini[i]) \subseteq known)
     => /\ Len(panel'.split) = Len(left)
        /\ \A i \in DOMAIN left : SamePlot(panel'.obj[panel'.split[i]], left[i])]_panelVars
=============================================================================
