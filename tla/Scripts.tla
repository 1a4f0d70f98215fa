------------------------------ MODULE Scripts -------------------------------
(***************************************************************************)
(* The script dialog (SVScriptDialog/script_dialog_impl.cpp) with the      *)
(* small dialog for the script of one signal (subscript_dialog.cpp) and    *)
(* the thread that runs the active scripts.                                *)
(*                                                                         *)
(* The thread holds mtx_ for a whole cycle; in the viewer a cycle goes     *)
(* over all data.  Some handlers of the window take mtx_, some try it and  *)
(* some do without; a handler that takes it waits for the end of a cycle.  *)
(* Names and texts are model values; what a script computes, and what is   *)
(* left on Lua's stack when one fails, is left out.                        *)
(* Positions in the lists count from 1, and tabInx 0 stands for the code's *)
(* -1.  loaded and exLoad are history: the texts of the chunk that is run, *)
(* and the scripts that were load.lua when they were active.               *)
(***************************************************************************)
EXTENDS Integers, Sequences, SequencesExt, FiniteSets, FiniteSetsExt

CONSTANTS Mode,       \* of the dialog: "viewer" or "player"
          LoadLua,    \* "load.lua"
          NewNames,   \* "NewScript.lua", "NewScript1.lua" ...: a sequence
          OtherNames, \* what a user renames to
          SubName,    \* the script of the signal, or a name that is not used
          Empty,      \* the text of a new script
          Stored,     \* the text of the scripts there are, and of the template
          Texts,      \* what a user writes
          Answers,    \* to the question whether a closed tab is saved
          MaxScripts, \* bound: scripts in the list
          MaxChanges  \* bound: scripts added, deleted or renamed by the user

Names == {LoadLua, SubName} \cup Range(NewNames) \cup OtherNames

ASSUME ScriptsAssumption ==
  /\ Mode \in {"viewer", "player"}
  /\ Answers \subseteq {"save", "discard"}
  /\ LoadLua \notin Range(NewNames) /\ Empty \notin Texts \cup {Stored} /\ Stored \notin Texts
  /\ NewNames \in Seq(Range(NewNames)) /\ IsInjective(NewNames)
  /\ MaxScripts \in 1 .. Len(NewNames)

VARIABLES scrState,  \* scrState_: [name, text, isActive, isChange, tabInx]
          tabs,      \* tabWidget: [name, row, edit]; row is the handler's copy
          current,   \* currentIndex
          active,    \* names in tblActiveScripts
          files,     \* the texts in the directory of scripts
          mtx,       \* mtx_: "free", or held for a cycle that "runs" scripts or "skips"
          pos,       \* buffCPos_: at the "start", or "past" it
          sub,       \* the small dialog: [edit, isChange, pc]
          loaded, exLoad,
          changes

vars == <<scrState, tabs, current, active, files, mtx, pos, sub, loaded, exLoad,
          changes>>

thread == <<mtx, loaded>>

\* One more change of the list.
Change == changes < MaxChanges /\ changes' = changes + 1

-----------------------------------------------------------------------------
(* Lists.                                                                  *)

RowOf(name)   == SelectInSeq(scrState, LAMBDA st : st.name = name)
HasName(name) == RowOf(name) # 0
TabOf(name)   == SelectInSeq(tabs, LAMBDA t : t.name = name)

Script(name, text, tab) ==
  [name |-> name, text |-> text, isActive |-> FALSE, isChange |-> FALSE, tabInx |-> tab]

Without(f, x) == [y \in DOMAIN f \ {x} |-> f[y]]
With(f, x, v) == [y \in DOMAIN f \cup {x} |-> IF y = x THEN v ELSE f[y]]

\* Bug: the current tab is not counted anew when one before it goes.
CurrentKept(inx) == IF inx = current /\ inx = Len(tabs) THEN current - 1 ELSE current

\* QTabWidget::removeTab: the tab to the right becomes the current one.
CurrentAfter(inx) ==
  IF inx < current \/ (inx = current /\ inx = Len(tabs)) THEN current - 1 ELSE current

\* Bug: the places of the tabs to the right stay as they are.
OnlyThisTab(scr, inx) ==
  [r \in DOMAIN scr |-> IF scr[r].tabInx = inx THEN [scr[r] EXCEPT !.tabInx = 0] ELSE scr[r]]

\* A tab goes, those to the right of it move.
TabGone(scr, inx) ==
  [r \in DOMAIN scr |->
     CASE scr[r].tabInx = inx -> [scr[r] EXCEPT !.tabInx = 0]
       [] scr[r].tabInx > inx -> [scr[r] EXCEPT !.tabInx = @ - 1]
       [] OTHER               -> scr[r]]

-----------------------------------------------------------------------------
\* The scripts are the files of the directory, in its order.
Init ==
  /\ \E S \in SUBSET {LoadLua, SubName} :
       /\ files = [n \in S |-> Stored]
       /\ scrState = [r \in 1 .. Cardinality(S) |-> Script(SetToSeq(S)[r], Stored, 0)]
  /\ tabs = <<>> /\ current = 0
  /\ active = <<>>
  /\ mtx = "free" /\ pos = "start"
  /\ sub = [edit |-> Empty, isChange |-> FALSE, pc |-> "closed"]
  /\ loaded = {} /\ exLoad = {} /\ changes = 0

\* The window waits for mtx_ in the middle of a handler.
WindowFree == sub.pc # "activate"

-----------------------------------------------------------------------------
(* The window.                                                             *)

\* Button New; exlName finds a free name.
AddScript ==
  LET name == NewNames[SelectInSeq(NewNames, LAMBDA n : ~HasName(n))]
  IN  /\ Change
      /\ WindowFree /\ mtx = "free"
      /\ Len(scrState) < MaxScripts
      /\ tabs' = Append(tabs, [name |-> name, row |-> Len(scrState) + 1, edit |-> Empty])
      /\ current' = Len(tabs) + 1
      /\ scrState' = Append(scrState, Script(name, Empty, Len(tabs) + 1))
      /\ UNCHANGED <<thread, active, files, pos, sub, exLoad>>

\* A script of either list is opened, unless there is a tab of its name.
OpenTab(row) ==
  /\ WindowFree
  /\ TabOf(scrState[row].name) = 0
  /\ tabs' = Append(tabs, [name |-> scrState[row].name, row |-> row, edit |-> scrState[row].text])
  /\ current' = Len(tabs) + 1
  /\ scrState' = [scrState EXCEPT ![row].tabInx = Len(tabs) + 1]
  /\ UNCHANGED <<thread, active, files, pos, sub, exLoad, changes>>

SelectTab(inx) ==
  /\ WindowFree
  /\ current' = inx
  /\ UNCHANGED <<thread, scrState, tabs, active, files, pos, sub, exLoad, changes>>

\* textChanged marks the row the tab was opened for; behind the end of the
\* list the mark is written to the memory of a removed script.
Marked(scr, row) == IF row \in DOMAIN scr THEN [scr EXCEPT ![row].isChange = TRUE] ELSE scr

Edit(text) ==
  /\ WindowFree /\ current # 0
  /\ tabs[current].edit # text
  /\ tabs' = [tabs EXCEPT ![current].edit = text]
  /\ scrState' = Marked(scrState, tabs[current].row)
  /\ UNCHANGED <<thread, current, active, files, pos, sub, exLoad, changes>>

SavedToBoth(row, text) == [scrState EXCEPT ![row].isChange = FALSE, ![row].text = text]

\* The script of the current tab, marked changed, and mtx_ is free.
CanSave ==
  /\ current # 0 /\ HasName(tabs[current].name)
  /\ scrState[RowOf(tabs[current].name)].isChange
  /\ mtx = "free"

\* saveScript; the file can be opened or not.
SaveScript ==
  LET row == RowOf(tabs[current].name)
  IN  /\ WindowFree /\ CanSave
      /\ \/ /\ scrState' = SavedToBoth(row, tabs[current].edit)
            /\ files' = With(files, tabs[current].name, tabs[current].edit)
         \/ UNCHANGED <<scrState, files>>
      /\ pos' = "start" /\ exLoad' = {}
      /\ UNCHANGED <<thread, tabs, current, active, sub, changes>>

\* A tab is closed; a changed script is saved or not, as the user answers.
CloseTab(inx, reply, opens) ==
  LET row    == RowOf(tabs[inx].name)
      saves  == scrState[row].isChange /\ reply = "save" /\ CanSave
      shown  == RowOf(tabs[current].name)
      scr    == IF saves /\ opens THEN SavedToBoth(shown, tabs[current].edit) ELSE scrState
  IN  /\ WindowFree
      /\ scrState' = TabGone([scr EXCEPT ![row].isChange = FALSE], inx)
      /\ files' = IF saves /\ opens THEN With(files, tabs[current].name, tabs[current].edit) ELSE files
      /\ pos' = IF saves THEN "start" ELSE pos
      /\ exLoad' = IF saves THEN {} ELSE exLoad
      /\ tabs' = RemoveAt(tabs, inx)
      /\ current' = CurrentAfter(inx)
      /\ UNCHANGED <<thread, active, sub, changes>>

\* Item Delete of the menu.
DeleteScript(row) ==
  LET name == scrState[row].name
      inx  == scrState[row].tabInx
  IN  /\ Change
      /\ WindowFree /\ mtx = "free"
      /\ scrState' = RemoveAt(IF inx # 0 THEN TabGone(scrState, inx) ELSE scrState, row)
      /\ tabs' = IF inx # 0 THEN RemoveAt(tabs, inx) ELSE tabs
      /\ current' = IF inx # 0 THEN CurrentAfter(inx) ELSE current
      /\ active' = RemoveFirst(active, name)
      /\ files' = Without(files, name)
      /\ exLoad' = exLoad \ {name}
      /\ UNCHANGED <<thread, pos, sub>>

\* QFile::rename does nothing when there is no such file, or one of the new name.
FileRenamed(old, name) ==
  IF old \in DOMAIN files /\ name \notin DOMAIN files
  THEN With(Without(files, old), name, files[old]) ELSE files

\* nameScriptChange, when the name is not in the list.
RenameScript(row, name) ==
  LET old == scrState[row].name
      was == (exLoad \cap {old}) # {} \/ (old = LoadLua /\ scrState[row].isActive)
  IN  /\ Change
      /\ WindowFree /\ ~HasName(name)
      /\ tabs' = IF scrState[row].tabInx # 0
                 THEN [tabs EXCEPT ![scrState[row].tabInx].name = name] ELSE tabs
      /\ active' = [i \in DOMAIN active |-> IF active[i] = old THEN name ELSE active[i]]
      /\ files' = FileRenamed(old, name)
      /\ scrState' = [scrState EXCEPT ![row].name = name]
      /\ exLoad' = (exLoad \ {old}) \cup (IF was THEN {name} ELSE {})
      /\ UNCHANGED <<thread, current, pos, sub>>

\* Bug: the data is not gone over again.
StillThere == pos

FromStart == "start"

\* Button Set active, and activeScript for the row of a name.
Activated(row) ==
  /\ scrState' = [scrState EXCEPT ![row].isActive = TRUE]
  /\ active' = Append(active, scrState[row].name)
  /\ pos' = FromStart
  /\ exLoad' = {}

SetActive(row) ==
  /\ WindowFree /\ mtx = "free"
  /\ ~scrState[row].isActive
  /\ Activated(row)
  /\ UNCHANGED <<thread, tabs, current, files, sub, changes>>

\* Button Reset active, without mtx_.
ResetActive(i) ==
  /\ WindowFree
  /\ scrState' = [scrState EXCEPT ![RowOf(active[i])].isActive = FALSE]
  /\ active' = RemoveAt(active, i)
  /\ exLoad' = exLoad \ {active[i]}
  /\ UNCHANGED <<thread, tabs, current, files, pos, sub, changes>>

-----------------------------------------------------------------------------
(* The small dialog.                                                       *)

\* isActiveScript adds a script that is not in the list.
WithSub(text) ==
  IF HasName(SubName) THEN scrState ELSE Append(scrState, Script(SubName, text, 0))

\* showSignScript: the file is read, or made with a text for the signal.
ShowSub ==
  LET text == IF SubName \in DOMAIN files THEN files[SubName] ELSE Stored
  IN  /\ WindowFree /\ sub.pc = "closed"
      /\ HasName(SubName) \/ (mtx = "free" /\ Len(scrState) < MaxScripts)
      /\ files' = With(files, SubName, text)
      /\ scrState' = WithSub(text)
      /\ sub' = [edit |-> text, isChange |-> FALSE, pc |-> "open"]
      /\ UNCHANGED <<thread, tabs, current, active, pos, exLoad, changes>>

SubEdit(text) ==
  /\ sub.pc = "open" /\ sub.edit # text
  /\ sub' = [sub EXCEPT !.edit = text, !.isChange = TRUE]
  /\ UNCHANGED <<thread, scrState, tabs, current, active, files, pos, exLoad, changes>>

\* Bug: the script keeps the text it had.
NotRefreshed(scr, text) == scr

\* refreshScript: text and tab are those of the file.
Refreshed(scr, text) ==
  [scr EXCEPT ![RowOf(SubName)].text = text,
              ![RowOf(SubName)].isChange = IF TabOf(SubName) # 0 THEN FALSE ELSE @]

\* The text of the tab is set, and its handler marks its row.
TabMarked ==
  LET t == TabOf(SubName)
  IN  IF t # 0 THEN Marked(scrState, tabs[t].row) ELSE scrState

\* saveScript of the dialog: an active script is put off and on again; the
\* script is in the list unless it was deleted or renamed meanwhile.
SubSave(opens) ==
  LET row   == RowOf(SubName)
      wasOn == row # 0 /\ scrState[row].isActive
      after == IF opens THEN With(files, SubName, sub.edit) ELSE files
      text  == IF SubName \in DOMAIN after THEN after[SubName]
               ELSE IF row # 0 THEN scrState[row].text ELSE Empty
      scr   == IF wasOn THEN [TabMarked EXCEPT ![row].isActive = FALSE] ELSE TabMarked
  IN  /\ sub.pc = "open" /\ sub.isChange
      /\ row # 0 \/ (mtx = "free" /\ Len(scrState) < MaxScripts)
      /\ files' = after
      /\ scrState' = IF row = 0 THEN WithSub(text) ELSE Refreshed(scr, text)
      /\ tabs' = IF TabOf(SubName) # 0 THEN [tabs EXCEPT ![TabOf(SubName)].edit = text] ELSE tabs
      /\ active' = RemoveFirst(active, SubName)
      /\ exLoad' = exLoad \ {SubName}
      /\ sub' = [sub EXCEPT !.isChange = FALSE, !.pc = IF wasOn THEN "activate" ELSE "open"]
      /\ UNCHANGED <<thread, current, pos, changes>>

SubActivate ==
  /\ sub.pc = "activate" /\ mtx = "free"
  /\ Activated(RowOf(SubName))
  /\ sub' = [sub EXCEPT !.pc = "open"]
  /\ UNCHANGED <<thread, tabs, current, files, changes>>

\* Button Active of the dialog.
SubButton ==
  LET row == RowOf(SubName)
  IN  /\ sub.pc = "open" /\ row # 0
      /\ \/ scrState[row].isActive /\ ResetActive(SelectInSeq(active, LAMBDA n : n = SubName))
         \/ SetActive(row)

SubClose ==
  /\ sub.pc = "open" /\ ~sub.isChange
  /\ sub' = [sub EXCEPT !.pc = "closed", !.edit = Empty]
  /\ UNCHANGED <<thread, scrState, tabs, current, active, files, pos, exLoad, changes>>

-----------------------------------------------------------------------------
(* The thread.                                                             *)

Others == {r \in DOMAIN scrState : scrState[r].isActive /\ scrState[r].name # LoadLua}

Anew(from, grown) == Mode = "player" \/ from = "start"

\* A cycle begins: load.lua, when it has just been made active, and then the
\* chunk of the others, unless load.lua fails.  fillBuffer finds grown data.
CycleBegin(grown, loadFails) ==
  LET loadRow == RowOf(LoadLua)
      from == IF Mode = "viewer" /\ grown THEN "start" ELSE pos
      runs == Others # {} /\ ~(loadRow # 0 /\ scrState[loadRow].isActive /\ loadFails)
      anew == runs /\ Anew(from, grown)
  IN  /\ mtx = "free"
      /\ mtx' = IF runs THEN "runs" ELSE "skips"
      /\ pos' = IF runs THEN from ELSE pos
      /\ loaded' = IF anew THEN {scrState[r].text : r \in Others} ELSE loaded
      /\ exLoad' = IF anew THEN {} ELSE exLoad
      /\ UNCHANGED <<scrState, tabs, current, active, files, sub, changes>>

\* It ends.  In the viewer it was over all records that were left, if any, or
\* up to one at which the scripts failed.
CycleEnd(left) ==
  /\ mtx # "free"
  /\ mtx' = "free"
  /\ pos' = IF mtx = "runs" /\ Mode = "viewer" /\ left THEN "past" ELSE pos
  /\ UNCHANGED <<scrState, tabs, current, active, files, sub, loaded, exLoad, changes>>

Window ==
  \/ AddScript \/ SaveScript
  \/ \E row \in DOMAIN scrState :
       \/ OpenTab(row) \/ DeleteScript(row) \/ SetActive(row)
       \/ \E name \in Names : RenameScript(row, name)
  \/ \E inx \in DOMAIN tabs :
       \/ SelectTab(inx)
       \/ \E reply \in Answers, opens \in BOOLEAN : CloseTab(inx, reply, opens)
  \/ \E text \in Texts : Edit(text)
  \/ \E i \in DOMAIN active : ResetActive(i)

SubWindow ==
  \/ ShowSub
  \/ \E text \in Texts : SubEdit(text)
  \/ \E opens \in BOOLEAN : SubSave(opens)
  \/ SubActivate \/ SubButton \/ SubClose

Thread ==
  \/ \E grown, loadFails \in BOOLEAN : CycleBegin(grown, loadFails)
  \/ \E left \in BOOLEAN : CycleEnd(left)

Next == Window \/ SubWindow \/ Thread

Spec == Init /\ [][Next]_vars

-----------------------------------------------------------------------------
(* Properties.                                                             *)

\* Names in the list are of one script each, positions are of what there is.
TypeOK ==
  /\ mtx \in {"free", "runs", "skips"}
  /\ pos \in (IF Mode = "player" THEN {"start"} ELSE {"start", "past"})
  /\ \A r \in DOMAIN scrState :
       /\ scrState[r].name \in Names /\ RowOf(scrState[r].name) = r
       /\ scrState[r].text \in Texts \cup {Stored, Empty}
       /\ scrState[r].tabInx \in Nat
  /\ current \in 0 .. Len(tabs) /\ (current = 0 <=> tabs = <<>>)
  /\ sub.pc \in {"closed", "open", "activate"}

\* Opening, closing, deleting and renaming keep the three lists together: the
\* tabs are those of the scripts that have their place noted, under the script's
\* name, and the list of the active scripts names each of them once.
ListsAgree ==
  /\ \A inx \in DOMAIN tabs :
       /\ HasName(tabs[inx].name)
       /\ scrState[RowOf(tabs[inx].name)].tabInx = inx
  /\ \A r \in DOMAIN scrState :
       scrState[r].tabInx # 0 => tabs[scrState[r].tabInx].name = scrState[r].name
  /\ Range(active) = {scrState[r].name : r \in {q \in DOMAIN scrState : scrState[q].isActive}}
  /\ IsInjective(active)

\* The text a script runs with is that of the file of its name, whichever
\* dialog saved it and however it was renamed, so that the next start has it,
\* and no file is left of a script that was deleted or renamed.
TextOnDisk ==
  /\ \A name \in DOMAIN files : HasName(name)
  /\ \A r \in DOMAIN scrState : LET st == scrState[r] IN
       st.text # Empty => st.name \in DOMAIN files /\ files[st.name] = st.text

\* What has been gone over was gone over with the present text of every active
\* script: whatever changes the text or makes a script active sends the thread
\* back to the start.  A script that was load.lua when it was active and then
\* got another name is left out until something else does.
CurrentIsRun ==
  pos # "start" =>
    \A r \in Others : scrState[r].name \in exLoad \/ scrState[r].text \in loaded

\* A changed tab that is closed with the answer Save leaves its text in the
\* file, which can be opened: 'Save the changes?' asks script_dialog_impl.cpp.
\* Told of a user who always answers Save.
ClosedIsSaved ==
  [][\A inx \in DOMAIN tabs :
       (/\ CloseTab(inx, "save", TRUE)
        /\ scrState[RowOf(tabs[inx].name)].isChange) =>
         /\ tabs[inx].name \in DOMAIN files'
         /\ files'[tabs[inx].name] = tabs[inx].edit]_vars
=============================================================================
