---------------------------- MODULE SignalTree ----------------------------
(***************************************************************************)
(* The tree of signals in the windows of the monitor and of the viewer     *)
(* (main_win.cpp of both): what is in it, what its menu does, what is      *)
(* edited in it, and the file in which the viewer keeps its signals.       *)
(*                                                                         *)
(* A registry r is a record: sig, from the ids of signals to [name,        *)
(* module, group, comment, active, deleted]; modul, from modules to        *)
(* [signls, active, enabled, deleted]; group (viewer), from groups to      *)
(* [signls, active]; attr, from ids to colours (signAttr_).  All texts are *)
(* sequences of letters, Tab one of them: an id is the name and the module *)
(* one after the other.                                                    *)
(*                                                                         *)
(* Left out: types, the order of the rows, non-latin letters.              *)
(***************************************************************************)
EXTENDS Naturals, Sequences, SequencesExt

Virtual == <<"V">>
Tab     == "tab"

Sign(name, module) == name \o module

With(f, x, y) == (x :> y) @@ f

IsSeen(r, s) == s \in DOMAIN r.sig

-----------------------------------------------------------------------------
(* The tree of the monitor.  Rows: [text, parent, sign], sign <<>> for a   *)
(* module or a group.                                                      *)

Root(module)       == [text |-> module, parent |-> <<>>, sign |-> <<>>]
Leaf(r, s, parent) == [text |-> r.sig[s].name, parent |-> parent, sign |-> s]

IsRoot(row) == row.sign = <<>>

RowsBelow(r, parent, signs) == {Leaf(r, s, parent) : s \in signs}

\* What the registry can give of a list of signs.
Given(r, signls) == {s \in Range(signls) : IsSeen(r, s)}

SortSignalByModule(r) ==
  UNION {{Root(m)} \cup RowsBelow(r, m, {s \in Given(r, r.modul[m].signls) : ~r.sig[s].deleted})
           : m \in {x \in DOMAIN r.modul : ~r.modul[x].deleted}}

Light(md) == IF ~md.active THEN "red" ELSE IF md.enabled THEN "green" ELSE "yellow"

\* A module that stays in the tree stays open; open is the set of roots that were.
StaysOpen(open, tree) == {row.text : row \in {x \in tree : IsRoot(x)}} \cap open

\* Counted whether they are shown or not.
AllSignCount(r)    == Cardinality(DOMAIN r.sig)
ModuleCount(r, m)  == Len(r.modul[m].signls)

\* What a row offers depends on its text: a signal with the name of a module is one.
ContextMenu(r, row) ==
  IF row.text \in DOMAIN r.modul
  THEN LET md == r.modul[row.text]
       IN  IF md.enabled /\ md.active THEN {"showAll", "disable"} ELSE {"enable", "delete"}
  ELSE {"resetColour", "delete"} \cup IF row.parent = Virtual THEN {} ELSE {"script"}

DeleteModule(r, m) ==
  [r EXCEPT !.modul[m].deleted = TRUE,
            !.sig = [s \in DOMAIN r.sig |-> IF r.sig[s].module = m THEN [r.sig[s] EXCEPT !.deleted = TRUE]
                                            ELSE r.sig[s]]]

DeleteSignal(r, s) == IF IsSeen(r, s) THEN [r EXCEPT !.sig[s].deleted = TRUE] ELSE r

\* The registry and the signals that are put on the graphs of the main window; reset
\* needs the database, hasDb, once a colour was chosen.
NoEffect(r) == [reg |-> r, shown |-> {}, crash |-> FALSE]

ContextMenuClick(r, row, act, hasDb) ==
  LET s == Sign(row.text, row.parent)
  IN  IF row.text \in DOMAIN r.modul
      THEN CASE act = "showAll" ->
                  [NoEffect(r) EXCEPT !.shown =
                     {t \in Range(r.modul[row.text].signls) : IsSeen(r, t) /\ r.sig[t].active}]
             [] act = "enable"  -> NoEffect([r EXCEPT !.modul[row.text].enabled = TRUE])
             [] act = "disable" -> NoEffect([r EXCEPT !.modul[row.text].enabled = FALSE])
             [] act = "delete"  -> NoEffect(DeleteModule(r, row.text))
      ELSE CASE act = "script"  -> NoEffect(r)
             [] act = "delete"  -> NoEffect(DeleteSignal(r, s))
             [] act = "resetColour" ->
                  IF s \notin DOMAIN r.attr THEN NoEffect(r)
                  ELSE [NoEffect([r EXCEPT !.attr = Restrict(@, DOMAIN @ \ {s})]) EXCEPT !.crash = ~hasDb]

\* A double click: on the name to the graph, on the colour to choose one; anything
\* else is edited.  A row with the text of a module only opens and closes.
DoubleClick(r, row, column, colour) ==
  IF row.text \in DOMAIN r.modul THEN NoEffect(r)
  ELSE CASE column = "name"   -> [NoEffect(r) EXCEPT !.shown = {row.sign} \cap DOMAIN r.sig]
         [] column = "colour" -> IF IsSeen(r, row.sign) THEN NoEffect([r EXCEPT !.attr = With(@, row.sign, colour)])
                                 ELSE NoEffect(r)
         [] OTHER             -> NoEffect(r)

\* What was typed into the row of a signal.
ItemChanged(r, row, column, text) ==
  IF ~IsSeen(r, row.sign) THEN r
  ELSE CASE column = "comment" -> [r EXCEPT !.sig[row.sign].comment = text]
         [] column = "group"   -> [r EXCEPT !.sig[row.sign].group = text]
         [] OTHER              -> r

-----------------------------------------------------------------------------
(* The tree of the viewer: by module or by group, of what is active.       *)

ViewerByModule(r) ==
  UNION {{Root(m)} \cup RowsBelow(r, m, {s \in Given(r, r.modul[m].signls) : r.sig[s].active})
           : m \in {x \in DOMAIN r.modul : r.modul[x].active}}

ViewerByGroup(r) ==
  UNION {{Root(g)} \cup RowsBelow(r, g, {s \in Given(r, r.group[g].signls) : r.sig[s].active})
           : g \in {x \in DOMAIN r.group : r.group[x].active /\ r.group[x].signls # <<>>}}

SortSignalByGroupOrModule(r, byModule) == IF byModule THEN ViewerByModule(r) ELSE ViewerByGroup(r)

\* lbAllSignCnt: the rows that were made, a signal of two groups twice.
RowCount(tree) == Cardinality({row \in tree : ~IsRoot(row)})

\* A new group is not active; a signal is not taken out of the group it was in.
UpdateGroup(r, g, s) ==
  LET grp == IF g \in DOMAIN r.group THEN r.group[g] ELSE [signls |-> <<>>, active |-> FALSE]
  IN  [r EXCEPT !.group = With(@, g, [grp EXCEPT !.signls = IF Contains(@, s) THEN @ ELSE Append(@, s)])]

\* The third column shows the group, or the module, which nothing changes.
ViewerItemChanged(r, s, byModule, column, text) ==
  IF ~IsSeen(r, s) THEN r
  ELSE CASE column = 3 /\ byModule -> UpdateGroup([r EXCEPT !.sig[s].group = text], text, s)
         [] column = 4 -> [r EXCEPT !.sig[s].comment = text]
         [] OTHER -> r

\* A module that is not active has no menu, a signal no one to delete it.
ViewerContextMenu(r, row) ==
  IF row.text \in DOMAIN r.modul
  THEN IF r.modul[row.text].active THEN {"showAll"} ELSE {}
  ELSE IF ~IsSeen(r, row.sign) THEN {}
  ELSE {"resetColour"} \cup IF r.sig[row.sign].module = Virtual THEN {} ELSE {"script"}

ViewerMenuClick(r, row, act) ==
  CASE act = "showAll" ->
         LET signls == IF row.text \in DOMAIN r.modul THEN r.modul[row.text].signls ELSE <<>>
         IN  [NoEffect(r) EXCEPT !.shown = {s \in Range(signls) : IsSeen(r, s) /\ r.sig[s].active}]
    [] act = "resetColour" -> NoEffect([r EXCEPT !.attr = Restrict(@, DOMAIN @ \ {row.sign})])
    [] act = "script" -> NoEffect(r)

-----------------------------------------------------------------------------
(* The file of the viewer's signals: a line each, its fields with tabs     *)
(* between them.  The type is left out.                                    *)

\* A colour is a text without tabs.
Line(r, s) ==
  LET sd == r.sig[s]
  IN  sd.module \o <<Tab>> \o sd.name \o <<Tab>> \o sd.comment \o <<Tab>> \o sd.group
        \o IF s \in DOMAIN r.attr THEN <<Tab>> \o r.attr[s] ELSE <<>>

WriteSignals(r) ==
  LET kept == SetToSeq({s \in DOMAIN r.sig : r.sig[s].module # Virtual})
  IN  [i \in DOMAIN kept |-> Line(r, kept[i])]

Fields(line) ==
  LET tabs == {i \in DOMAIN line : line[i] = Tab}
      ends == SetToSortSeq(tabs \cup {Len(line) + 1}, <)
  IN  [k \in DOMAIN ends |-> SubSeq(line, IF k = 1 THEN 1 ELSE ends[k - 1] + 1, ends[k] - 1)]

\* Signals, modules and groups are known again, and none is active; a line that
\* gives an id once more is passed over.
ReadLine(r, line) ==
  LET f      == Fields(line)
      module == f[1]
      s      == Sign(f[2], module)
      group  == IF Len(f) >= 4 THEN f[4] ELSE <<>>
      joined(all, x) == With(all, x, [signls |-> Append(IF x \in DOMAIN all THEN all[x].signls ELSE <<>>, s),
                                      active |-> FALSE])
  IN  IF Len(f) < 3 \/ IsSeen(r, s) THEN r
      ELSE [sig   |-> With(r.sig, s, [name |-> f[2], module |-> module, group |-> group, comment |-> f[3],
                                      active |-> FALSE]),
            modul |-> joined(r.modul, module),
            group |-> joined(r.group, group),
            attr  |-> IF Len(f) >= 5 THEN With(r.attr, s, f[5]) ELSE r.attr]

NoSignals == [sig |-> <<>>, modul |-> <<>>, group |-> <<>>, attr |-> <<>>]

ReadSignals(file) == FoldLeft(ReadLine, NoSignals, file)

-----------------------------------------------------------------------------
(* What a file of data, or a script, does to the registry of the viewer.   *)

\* A signal that was known becomes active with its module and its group.
Activated(r, s) ==
  IF r.sig[s].active THEN r
  ELSE [r EXCEPT !.sig[s].active = TRUE, !.modul[r.sig[s].module].active = TRUE,
                 !.group[r.sig[s].group].active = TRUE]

KnownRecord(r, s, rec) ==
  LET kept(old, new) == IF old = <<>> THEN new ELSE old
  IN  [Activated(r, s) EXCEPT !.sig[s].group = kept(@, rec.group), !.sig[s].comment = kept(@, rec.comment)]

\* A module or a group is active when it is made, one that was known stays as it was.
Joined(all, x, s) ==
  LET old == IF x \in DOMAIN all THEN all[x] ELSE [signls |-> <<>>, active |-> TRUE]
  IN  With(all, x, [old EXCEPT !.signls = Append(@, s)])

\* The group of a new signal is taken from the comment.
NewRecord(r, s, rec) ==
  [r EXCEPT !.sig   = With(@, s, [name |-> rec.name, module |-> rec.module, group |-> rec.comment,
                                  comment |-> rec.comment, active |-> TRUE]),
            !.modul = Joined(@, rec.module, s),
            !.group = Joined(@, rec.group, s)]

LoadRecord(r, rec) ==
  LET s == Sign(rec.name, rec.module)
  IN  IF IsSeen(r, s) THEN KnownRecord(r, s, rec) ELSE NewRecord(r, s, rec)

\* A script makes the module first; its signal has no group.
AddModule(r, m) ==
  IF m \in DOMAIN r.modul THEN r ELSE [r EXCEPT !.modul = With(@, m, [signls |-> <<>>, active |-> TRUE])]

AddScriptSignal(r, name, module) ==
  LET s == Sign(name, module)
  IN  IF IsSeen(r, s) THEN r
      ELSE [r EXCEPT !.sig = With(@, s, [name |-> name, module |-> module, group |-> <<>>,
                                         comment |-> <<>>, active |-> TRUE]),
                     !.modul[module].signls = Append(@, s)]

-----------------------------------------------------------------------------
(* What the tree of signals shows and its menu does, against what is in the *)
(* registry, and what the viewer knows of its signals the next time.  TLC   *)
(* evaluates the assumptions in the run of MCViewer.                        *)

-----------------------------------------------------------------------------
(* The monitor: two modules with two signals each; second is the name of    *)
(* the second signal of the first module.                                   *)

MonitorModules == {<<"m">>, <<"n">>}

MonitorRegistry(second, active, enabled) ==
  LET signal(name, m) == [name |-> name, module |-> m, group |-> <<>>, comment |-> <<>>,
                          active |-> active, deleted |-> FALSE]
      ids(m, x)       == <<Sign(<<"a">>, m), Sign(x, m)>>
  IN  [sig   |-> (<<"a", "m">> :> signal(<<"a">>, <<"m">>)) @@ (Sign(second, <<"m">>) :> signal(second, <<"m">>))
                   @@ (<<"a", "n">> :> signal(<<"a">>, <<"n">>)) @@ (<<"b", "n">> :> signal(<<"b">>, <<"n">>)),
       modul |-> [m \in MonitorModules |-> [signls  |-> ids(m, IF m = <<"m">> THEN second ELSE <<"b">>),
                                            active  |-> active, enabled |-> enabled, deleted |-> FALSE]],
       attr  |-> (<<"a", "m">> :> <<"red">>)]

MonitorRegistries == {MonitorRegistry(x, act, ena) : x \in {<<"b">>, <<"n">>}, act, ena \in BOOLEAN}

\* The registries after every way of up to two clicks, or edits, in the tree.
OfMenu(r) ==
  {r} \cup UNION {{ContextMenuClick(r, row, act, TRUE).reg : act \in ContextMenu(r, row)} : row \in SortSignalByModule(r)}
      \cup {ItemChanged(r, row, c, <<"x">>) : row \in SortSignalByModule(r), c \in {"comment", "group", "name"}}

MonitorStates == UNION {OfMenu(r) : r \in UNION {OfMenu(q) : q \in MonitorRegistries}}

NamedAsModule(r, row) == ~IsRoot(row) /\ row.text \in DOMAIN r.modul

RowsOf(tree, row) ==
  IF IsRoot(row) THEN {x \in tree : x = row \/ x.parent = row.text} ELSE {row}

\* Deleting a row takes that row out of the tree, of a module all that is below it,
\* and nothing else; no other entry of a menu changes which rows there are.
ASSUME ClickKeepsOthers ==
  \A r \in MonitorStates :
    LET tree == SortSignalByModule(r)
    IN  \A row \in tree : ~NamedAsModule(r, row) =>
          \A act \in ContextMenu(r, row) :
            SortSignalByModule(ContextMenuClick(r, row, act, TRUE).reg)
              = IF act = "delete" THEN tree \ RowsOf(tree, row) ELSE tree

\* The menu of a signal with the name of a module is that module's: to delete the one
\* deletes the other, and a double click does not put the signal on a graph.
ASSUME NameOfModuleDeletesIt ==
  \A r \in MonitorStates :
    LET tree == SortSignalByModule(r)
    IN  \A row \in tree : NamedAsModule(r, row) =>
          LET res == SortSignalByModule(ContextMenuClick(r, row, "delete", TRUE).reg)
          IN  /\ "delete" \in ContextMenu(r, row) => row \in res /\ Root(row.text) \notin res
              /\ DoubleClick(r, row, "name", <<>>).shown = {}

\* Show all shows the signals of the module in the tree, and those deleted from it.
ASSUME ShowAllShowsDeleted ==
  \A r \in MonitorStates, m \in MonitorModules :
    (Root(m) \in SortSignalByModule(r) /\ "showAll" \in ContextMenu(r, Root(m))) =>
      LET shown   == ContextMenuClick(r, Root(m), "showAll", TRUE).shown
          visible == {row.sign : row \in {x \in SortSignalByModule(r) : x.parent = m}}
      IN  shown = visible \cup {s \in Range(r.modul[m].signls) : r.sig[s].deleted}

\* The counts beside the tree do not go down with what is deleted.
ASSUME CountsKeepDeleted ==
  \A q \in MonitorRegistries : \A r \in OfMenu(q) :
    /\ AllSignCount(r) = AllSignCount(q)
    /\ \A m \in MonitorModules : ModuleCount(r, m) = ModuleCount(q, m)

\* Only taking back a colour needs the database: without one it ends the program.
ASSUME ResetWithoutBase ==
  \A r \in MonitorStates : \A row \in SortSignalByModule(r) : \A act \in ContextMenu(r, row) :
    ContextMenuClick(r, row, act, FALSE).crash
      <=> act = "resetColour" /\ row.sign \in DOMAIN r.attr

\* What is switched on while its module is not connected still shows red.
ASSUME EnabledStaysRed ==
  \A r \in MonitorStates, m \in MonitorModules :
    (Root(m) \in SortSignalByModule(r) /\ "enable" \in ContextMenu(r, Root(m)) /\ ~r.modul[m].active) =>
      Light(ContextMenuClick(r, Root(m), "enable", TRUE).reg.modul[m]) = "red"

-----------------------------------------------------------------------------
(* The viewer: every way of four events.                                    *)

Rec(name, module, group, comment) ==
  [name |-> <<name>>, module |-> <<module>>, group |-> <<group>>, comment |-> comment]

ViewerEvents == {"loadA", "loadB", "loadC", "toOther", "comment", "tabbed", "colour", "script", "restart"}

ViewerEvent(r, e) ==
  LET a == <<"a", "m">>
  IN  CASE e = "loadA"   -> LoadRecord(r, Rec("a", "m", "g", <<"p">>))
        [] e = "loadB"   -> LoadRecord(r, Rec("b", "m", "g", <<>>))
        [] e = "loadC"   -> LoadRecord(r, Rec("a", "n", "h", <<"g">>))
        [] e = "toOther" -> ViewerItemChanged(r, a, TRUE, 3, <<"k">>)
        [] e = "comment" -> ViewerItemChanged(r, a, TRUE, 4, <<"q">>)
        [] e = "tabbed"  -> ViewerItemChanged(r, a, FALSE, 4, <<"q", Tab, "k">>)
        [] e = "colour"  -> IF IsSeen(r, a) THEN [r EXCEPT !.attr = With(@, a, <<"#f00">>)] ELSE r
        [] e = "script"  -> AddScriptSignal(AddModule(r, Virtual), <<"s">>, Virtual)
        [] e = "restart" -> ReadSignals(WriteSignals(r))

ViewerRun(es) ==
  LET st[k \in 0 .. Len(es)] == IF k = 0 THEN NoSignals ELSE ViewerEvent(st[k - 1], es[k])
  IN  st[Len(es)]

ViewerWays == [1 .. 4 -> ViewerEvents]

Active(r) == {s \in DOMAIN r.sig : r.sig[s].active}
Leaves(tree) == {row \in tree : ~IsRoot(row)}

GroupsOf(r, s) == {g \in DOMAIN r.group : Contains(r.group[g].signls, s)}

\* Whatever is loaded, edited and read again: a signal is in the list of its module,
\* once, and the group of one that is not active yet is there to be switched on.
ASSUME ListsHoldAll ==
  \A es \in ViewerWays :
    LET r == ViewerRun(es)
    IN  \A s \in DOMAIN r.sig :
          /\ Contains(r.modul[r.sig[s].module].signls, s)
          /\ IsInjective(r.modul[r.sig[s].module].signls)
          /\ ~r.sig[s].active => r.sig[s].group \in DOMAIN r.group

\* In the first session the tree by modules shows what is active, each signal once.
ASSUME FirstTreeShowsActive ==
  \A es \in ViewerWays : "restart" \notin Range(es) =>
    LET r == ViewerRun(es)
    IN  /\ {row.sign : row \in Leaves(ViewerByModule(r))} = Active(r)
        /\ RowCount(ViewerByModule(r)) = Cardinality(Active(r))

\* A new signal of a module that is known from the file of signals, and of which
\* nothing else is loaded, is not shown.
ASSUME NewSignalOfKnownModule ==
  LET r == ViewerRun(<<"loadA", "restart", "loadB">>)
  IN  Active(r) = {<<"b", "m">>} /\ ViewerByModule(r) = {} /\ ViewerByGroup(r) = {Root(<<"g">>), Leaf(r, <<"b", "m">>, <<"g">>)}

\* The line of a signal gives back all that is known of it, as long as its comment has
\* no tab; the groups are made anew, of each signal the one of its line.
ASSUME SignalsComeBack ==
  \A es \in ViewerWays : "tabbed" \notin Range(es) =>
    LET r == ViewerRun(es)
        q == ReadSignals(WriteSignals(r))
    IN  /\ DOMAIN q.sig = {s \in DOMAIN r.sig : r.sig[s].module # Virtual}
        /\ \A s \in DOMAIN q.sig : /\ q.sig[s] = [r.sig[s] EXCEPT !.active = FALSE]
                                   /\ GroupsOf(q, s) = {r.sig[s].group}
        /\ q.attr = Restrict(r.attr, DOMAIN q.sig \cap DOMAIN r.attr)

\* A tab cuts the comment; what is behind it becomes the group, and the group a colour.
ASSUME TabMovesFields ==
  LET q == ViewerRun(<<"loadA", "tabbed", "restart">>)
  IN  /\ q.sig[<<"a", "m">>].comment = <<"q">> /\ q.sig[<<"a", "m">>].group = <<"k">>
      /\ q.attr[<<"a", "m">>] = <<"p">>

\* A new signal is listed in the group of its file until the next start, and after it
\* in one named as its comment.
ASSUME CommentIsGroup ==
  \A e \in {"loadA", "loadC"} :
    LET r == ViewerRun(<<e>>)
        q == ViewerRun(<<e, "restart">>)
    IN  \A s \in DOMAIN r.sig :
          r.sig[s].group \notin GroupsOf(r, s) /\ GroupsOf(q, s) = {r.sig[s].comment}

\* A signal that is put into a new group is shown in its old one only.
ASSUME EditedGroupHides ==
  LET r == ViewerRun(<<"loadA", "toOther">>)
      a == <<"a", "m">>
  IN  GroupsOf(r, a) = {<<"g">>, <<"k">>} /\ Leaves(ViewerByGroup(r)) = {Leaf(r, a, <<"g">>)}

\* By group it may be shown more than once, but never more often than it has groups.
ASSUME RowsByGroup ==
  \A es \in ViewerWays :
    LET r == ViewerRun(es)
    IN  \A s \in DOMAIN r.sig :
          Cardinality({row \in ViewerByGroup(r) : row.sign = s}) <= Cardinality(GroupsOf(r, s))

\* Show all shows the rows below the module; a group has no menu, unless it has the
\* name of a module.  To sort by groups and back closes every module.
ASSUME MenuOfTheViewer ==
  \A es \in ViewerWays :
    LET r == ViewerRun(es)
    IN  /\ \A m \in DOMAIN r.modul : "showAll" \in ViewerContextMenu(r, Root(m)) =>
             ViewerMenuClick(r, Root(m), "showAll").shown
               = {row.sign : row \in {x \in SortSignalByGroupOrModule(r, TRUE) : x.parent = m}}
        /\ \A row \in SortSignalByGroupOrModule(r, FALSE) \ Leaves(ViewerByGroup(r)) :
             row.text \notin DOMAIN r.modul => ViewerContextMenu(r, row) = {}
        /\ LET open == {row.text : row \in ViewerByModule(r)}
           IN  StaysOpen(StaysOpen(open, ViewerByGroup(r)), ViewerByModule(r)) \subseteq DOMAIN r.group
=============================================================================
