------------------------------ MODULE Settings ------------------------------
(***************************************************************************)
(* The settings of the monitor and of the viewer: what is written to the   *)
(* .ini file when a program ends and what is read of it when it starts     *)
(* (main_win.cpp of both), the dialogs that show and change them           *)
(* (settings_dialog.cpp, graph_setting_dialog.cpp), and what of a change   *)
(* reaches the running server.                                             *)
(*                                                                         *)
(* A configuration is the record of MainWin::Config.  Its plain fields are *)
(* two functions, texts and numbers, from the names of the fields; a flag  *)
(* is a number 0 or 1.  The fields with a rule of their own are archName,  *)
(* archHours, archPath (outArchive...), dbPath and ports (com_ports, pairs *)
(* of name and speed).  The [Param] section of a file is the same record   *)
(* of what is written under the name of each field; a field that is not    *)
(* written is not in it.  The sections of the windows are in GraphPanel.   *)
(*                                                                         *)
(* A text is written as it is, without quotes and in UTF-8, and QSettings  *)
(* reads it: iniText says what comes of it.  Of a text with a comma, for   *)
(* one, nothing.                                                           *)
(***************************************************************************)
EXTENDS Integers, Sequences

CONSTANTS Texts,   \* texts of the configuration, NoText among them
          NoText,
          iniText, \* what QSettings reads of a text that was written
          slashed, \* a text with / for \
          Speeds,  \* what the list of speeds of a port offers
          Slowest  \* the first of them

ASSUME TextsAssumption ==
  /\ NoText \in Texts
  /\ iniText \in [Texts -> Texts] /\ iniText[NoText] = NoText
  /\ slashed \in [Texts -> Texts] /\ \A t \in Texts : slashed[slashed[t]] = slashed[t]
  /\ Speeds \subseteq Texts /\ Slowest \in Speeds /\ NoText \notin Speeds

AtLeast(n, x)     == IF x < n THEN n ELSE x
Bound(lo, x, hi)  == IF x < lo THEN lo ELSE IF x > hi THEN hi ELSE x
OrElse(t, other)  == IF t = NoText THEN other ELSE t

-----------------------------------------------------------------------------
(* The monitor.                                                            *)

TextFields == {"selOpenDir", "tcp_addr", "web_addr", "zabbix_addr",
               "outDataBaseName", "outDataBaseAddr"}

FlagFields == {"com_ena", "web_ena", "zabbix_ena", "outArchiveEna", "outDataBaseEna",
               "darkTheme", "signBoolOnTop"}

\* Least values: qMax(..., 1) of a period and of a packet, qMax(..., 0) of the offset.
LeastOf == [cycleRecMs |-> 1, packetSz |-> 1, offsetMs |-> 0]

NumberFields == FlagFields \cup DOMAIN LeastOf \cup
  {"fontSz", "tcp_port", "web_port", "zabbix_port", "lineWidth", "transparent",
   "gapTolerance", "toutLoadWinStateSec"}

Port == [name : Texts, speed : Texts]

Configs == [texts : [TextFields -> Texts], numbers : [NumberFields -> Int],
            archName : Texts, archPath : Texts, archHours : Int, dbPath : Texts,
            ports : Seq(Port)]

\* The name of the archive is written under outArchiveName; the hours are not written.
WriteSettings(c) ==
  [texts |-> c.texts, numbers |-> c.numbers, outArchiveName |-> c.archName,
   archPath |-> c.archPath, dbPath |-> c.dbPath, ports |-> c.ports]

ReadNumber(k, n) ==
  IF k \in FlagFields THEN (IF n = 1 THEN 1 ELSE 0)
  ELSE IF k \in DOMAIN LeastOf THEN AtLeast(LeastOf[k], n) ELSE n

IniPort(p) == [name |-> iniText[p.name], speed |-> iniText[p.speed]]

\* The first port is there whatever is in it; after it, up to the first empty one.
ReadPorts(ports) ==
  LET read == [i \in DOMAIN ports |-> IniPort(ports[i])]
      gaps == {i \in DOMAIN read : i > 1 /\ (read[i].name = NoText \/ read[i].speed = NoText)}
      end  == IF gaps = {} THEN Len(ports)
              ELSE (CHOOSE i \in gaps : \A j \in gaps : i <= j) - 1
  IN  SubSeq(read, 1, end)

\* The name is read under outFileName and the hours under outFileHourCnt, which
\* writeSettings never writes: the defaults take their place.  home stands for the
\* directory of the program and defaultDb for the file svm.db in it.
ReadSettings(ini, home, defaultDb, svrec) ==
  [texts     |-> [k \in TextFields |-> iniText[ini.texts[k]]],
   numbers   |-> [k \in NumberFields |-> ReadNumber(k, ini.numbers[k])],
   archName  |-> svrec,
   archHours |-> 2,
   archPath  |-> slashed[OrElse(iniText[ini.archPath], home)],
   dbPath    |-> OrElse(iniText[ini.dbPath], defaultDb),
   ports     |-> ReadPorts(ini.ports)]

\* Only whether values are saved, and where archives go, reaches the server that runs.
\* The window has all of it at once, the period and the packet of graphs among them.
UpdateConfig(old, new) ==
  [window |-> new,
   server |-> [cycleRecMs    |-> old.numbers["cycleRecMs"],
               packetSz      |-> old.numbers["packetSz"],
               archiveEna    |-> new.numbers["outArchiveEna"],
               archiveHours  |-> new.archHours,
               archiveName   |-> new.archName,
               archivePath   |-> new.archPath,
               dataBaseEna   |-> new.numbers["outDataBaseEna"],
               dataBaseName  |-> new.texts["outDataBaseName"],
               dataBaseAddr  |-> new.texts["outDataBaseAddr"]]]

\* What the window starts, and what it stops at its end: both ask the configuration of
\* the moment.  Ports without a name or a speed are passed over.
Services(c) == {k \in {"web_ena", "zabbix_ena"} : c.numbers[k] = 1}

Started(c) ==
  IF c.numbers["com_ena"] = 1
  THEN [tcp |-> FALSE, services |-> Services(c),
        com |-> {i \in DOMAIN c.ports : c.ports[i].name # NoText /\ c.ports[i].speed # NoText}]
  ELSE [tcp |-> TRUE, services |-> Services(c), com |-> {}]

Left(started, c) ==
  IF c.numbers["com_ena"] = 1
  THEN [tcp |-> started.tcp, services |-> started.services \ Services(c), com |-> {}]
  ELSE [tcp |-> FALSE, services |-> started.services \ Services(c), com |-> started.com]

-----------------------------------------------------------------------------
(* The settings dialog of the monitor.  It lives as long as the window: it *)
(* is filled when it is shown, but for its list of ports, which is filled  *)
(* once.  Of the two radio buttons one is always on, the one for COM at    *)
(* the beginning (settings_dialog.ui).                                     *)

DialogTexts   == TextFields \ {"selOpenDir"}
DialogNumbers == {"web_ena", "zabbix_ena", "outArchiveEna", "outDataBaseEna",
                  "tcp_port", "web_port", "zabbix_port"}

\* A speed that the list does not offer leaves it at its first one.
ComboSpeed(s) == IF s \in Speeds THEN s ELSE Slowest

ShownPort(p)  == [name |-> p.name, speed |-> ComboSpeed(p.speed)]

NewDialog(c) ==
  [texts |-> [k \in DialogTexts |-> NoText], numbers |-> [k \in DialogNumbers |-> 0],
   archPath |-> NoText, cycleRecMs |-> 100, packetSz |-> 10, offsetSec |-> 0,
   radio |-> "com", changed |-> Len(c.ports) > 0,
   ports |-> [i \in DOMAIN c.ports |-> ShownPort(c.ports[i])]]

\* setChecked(false) on the button that is on does nothing.
ShowEvent(d, c) ==
  [texts |-> [k \in DialogTexts |-> c.texts[k]],
   numbers |-> [k \in DialogNumbers |-> c.numbers[k]],
   archPath |-> c.archPath,
   cycleRecMs |-> Bound(1, c.numbers["cycleRecMs"], 60000),
   packetSz |-> Bound(1, c.numbers["packetSz"], 1000000),
   offsetSec |-> Bound(0, c.numbers["offsetMs"] \div 1000, 1000),
   radio |-> IF c.numbers["com_ena"] = 0 THEN "ethernet" ELSE d.radio,
   changed |-> FALSE,
   ports |-> d.ports]

AddCOM(d, port, speed) ==
  [d EXCEPT !.ports = Append(d.ports, ShownPort([name |-> port, speed |-> speed])),
            !.changed = TRUE]

\* The last port that has a name loses it; its row stays.
DelCOM(d) ==
  LET named == {i \in DOMAIN d.ports : d.ports[i].name # NoText}
      last  == CHOOSE i \in named : \A j \in named : j <= i
  IN  [d EXCEPT !.ports = IF named = {} THEN d.ports ELSE [d.ports EXCEPT ![last].name = NoText],
                !.changed = TRUE]

SelDirArch(d, dir)   == IF dir = NoText THEN d ELSE [d EXCEPT !.archPath = dir]
SelectRadio(d, r)    == [d EXCEPT !.radio = r, !.changed = TRUE]

\* The fields that the dialog shows; the others stay as they are.
SavedNumber(d, c, k) ==
  IF k \in DialogNumbers THEN d.numbers[k]
  ELSE IF k = "com_ena" THEN (IF d.radio = "com" THEN 1 ELSE 0)
  ELSE IF k = "cycleRecMs" THEN d.cycleRecMs
  ELSE IF k = "packetSz" THEN d.packetSz
  ELSE IF k = "offsetMs" THEN d.offsetSec * 1000
  ELSE c.numbers[k]

SaveChange(d, c) ==
  [texts |-> [k \in TextFields |-> IF k \in DialogTexts THEN d.texts[k] ELSE c.texts[k]],
   numbers |-> [k \in NumberFields |-> SavedNumber(d, c, k)],
   archName |-> c.archName, archPath |-> slashed[d.archPath], archHours |-> c.archHours,
   dbPath |-> c.dbPath, ports |-> d.ports]

-----------------------------------------------------------------------------
(* The dialog of the graphs.  Each control passes on the settings of all   *)
(* of them, except that graphSetting leaves the tolerance at its default.  *)

GraphSetting(dlg) == [dlg EXCEPT !.gapTolerance = 1]

NewGraphDialog(gs) ==
  [gs EXCEPT !.transparent  = Bound(0, gs.transparent, 255),
             !.lineWidth    = Bound(1, gs.lineWidth, 5),
             !.gapTolerance = Bound(1, gs.gapTolerance, 999999999)]

\* What a control at a new place makes of the dialog and of the graphs.
MoveControl(dlg, k, v) ==
  LET moved == [dlg EXCEPT ![k] = v]
  IN  [dialog |-> moved,
       graphs |-> IF k = "gapTolerance" THEN moved ELSE GraphSetting(moved)]

-----------------------------------------------------------------------------
(* The viewer: everything is read as it was written, with the rules above. *)

ViewerTexts  == {"selOpenDir", "inputDataBaseName", "inputDataBaseAddr"}
ViewerFlags  == {"sortByMod", "inputDataBaseEna", "darkTheme", "signBoolOnTop"}
ViewerNumbers == ViewerFlags \cup {"cycleRecMs", "packetSz", "lineWidth", "transparent",
                                   "gapTolerance", "toutLoadWinStateSec", "fontSz"}

ViewerConfigs == [texts : [ViewerTexts -> Texts], numbers : [ViewerNumbers -> Int]]

ViewerWrite(c) == [texts |-> c.texts, numbers |-> c.numbers]

ViewerReadNumber(k, n) ==
  CASE k \in ViewerFlags               -> (IF n = 1 THEN 1 ELSE 0)
    [] k \in {"cycleRecMs", "packetSz"} -> AtLeast(1, n)
    [] OTHER                           -> n

ViewerRead(ini) ==
  [texts   |-> [k \in ViewerTexts |-> iniText[ini.texts[k]]],
   numbers |-> [k \in ViewerNumbers |-> ViewerReadNumber(k, ini.numbers[k])]]

ViewerShow(c) ==
  [ena |-> c.numbers["inputDataBaseEna"], name |-> c.texts["inputDataBaseName"],
   addr |-> c.texts["inputDataBaseAddr"],
   cycleRecMs |-> c.numbers["cycleRecMs"], packetSz |-> c.numbers["packetSz"]]

ViewerSave(d, c) ==
  [texts   |-> [c.texts EXCEPT !["inputDataBaseName"] = d.name,
                               !["inputDataBaseAddr"] = d.addr],
   numbers |-> [c.numbers EXCEPT !["inputDataBaseEna"] = d.ena,
                                 !["cycleRecMs"] = d.cycleRecMs,
                                 !["packetSz"]   = d.packetSz]]
=============================================================================
