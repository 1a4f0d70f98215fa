------------------------------ MODULE Trigger ------------------------------
(***************************************************************************)
(* The triggers (SVTriggerDialog/src/trigger_dialog_impl.cpp) with the     *)
(* delay and the front they use (SVMisc/timer_delay.h, front.h) and the    *)
(* monitor's part (SVMonitor/src/main_win.cpp): events of a module, what   *)
(* is done when a trigger fires.                                           *)
(*                                                                         *)
(* The work thread copies the map of triggers (pointers), and looks at one *)
(* after the other; the window's thread adds, deletes and changes triggers *)
(* meanwhile, its assignments seen one by one.  Data of deleted triggers   *)
(* are never freed: an object is a place in the sequence obj.              *)
(*                                                                         *)
(* Time is counted in units in which condTOut is given.  A packet is the   *)
(* set of its values.  The numbers of triggers in TimerDelay and Front are *)
(* one-to-one with their names and left out.  A trigger of a signal is     *)
(* made for a signal that is there, so its look-up finds it; for a         *)
(* trigger of a module it finds nothing: NoSignal.  held and spent are     *)
(* history.                                                                *)
(*                                                                         *)
(* Triggers of a module are those of a monitor whose database could not be *)
(* opened (main_win.cpp:848-855): with it DbProvider::getTrigger never     *)
(* returns null, and a new module gets two blank triggers of no type,      *)
(* which the work cycle passes over (lines 639-640).                       *)
(***************************************************************************)
EXTENDS Integers, Sequences, FiniteSets

CONSTANTS Signals,
          SignalTriggers, \* names the user gives to triggers of a signal
          OnName, OffName,\* module + "On", module + "Off"
          Values,         \* bound: values of the signals
          Conditions,     \* bound: conditions the user sets
          CycleTms,       \* bound: times from one cycle to the next
          ModuleActive,   \* bound: what isActive of a module's trigger is set to
          MaxObjs         \* bound: triggers ever made

ModuleTriggers == {OnName, OffName}
Names          == SignalTriggers \cup ModuleTriggers
NoName         == "none"
NoSignal       == "null"

TOuts       == {0} \cup {c.condTOut : c \in Conditions}
LongestTOut == CHOOSE t \in TOuts : \A u \in TOuts : u <= t

ASSUME TriggerAssumption ==
  /\ OnName # OffName
  /\ SignalTriggers \cap ModuleTriggers = {}
  /\ NoName \notin Names
  /\ Values \subseteq Int /\ Values # {}
  /\ Conditions \subseteq [condType : {"LESS", "EQUALS", "MORE", "POS_FRONT", "NEG_FRONT"},
                           condValue : Int, condTOut : Int]
  /\ \E t \in TOuts : \A u \in TOuts : u <= t \* condTOut is an int
  /\ CycleTms \subseteq Nat \ {0}
  /\ ModuleActive \subseteq BOOLEAN
  /\ MaxObjs \in Nat

VARIABLES obj,          \* every TriggerData ever made
          triggerData,  \* triggerData_: name -> place in obj
          signExist,    \* the module has been seen (signExist_)
          gui,          \* what the window's thread is in the middle of
          packet,       \* lastData of each signal
          work,         \* the work thread
          sdata,        \* its signals, by name of the trigger (trgId, sdata)
          cycleTm, count, touched, \* TimerDelay, by name
          onc,          \* Front, by name
          held, spent

guiVars  == <<obj, triggerData, signExist, gui>>
workVars == <<work, sdata, cycleTm, count, touched, onc, held, spent>>
vars     == <<guiVars, packet, workVars>>

-----------------------------------------------------------------------------
NewTrigger(n, s, type, value, tout, active) ==
  [name |-> n, signal |-> s, condType |-> type, condValue |-> value, condTOut |-> tout,
   isActive |-> active]

OfModule(t) == t.condType \in {"CONNECT_MODULE", "DISCONNECT_MODULE"}

IdleGui == [pc |-> "idle"]

Init ==
  /\ obj = <<>>
  /\ triggerData = <<>>
  /\ signExist = FALSE
  /\ gui = IdleGui
  /\ packet \in [Signals -> {{v} : v \in Values}]
  /\ work = [pc |-> "top", tref |-> <<>>, todo |-> {}, due |-> NoName]
  /\ sdata = <<>>
  /\ cycleTm = 0
  /\ count = [n \in Names |-> 0]
  /\ touched = [n \in Names |-> FALSE]
  /\ onc = [n \in Names |-> FALSE]
  /\ held = [n \in Names |-> 0]
  /\ spent = [n \in Names |-> FALSE]

-----------------------------------------------------------------------------
(* The window's thread.  Every action but the assignments of a change and  *)
(* the parts of moduleConnect is a handler run to its end.                 *)

\* TriggerDialog::addTrigger(trg, td): a name that is there is left alone.
Insert(t) ==
  IF t.name \in DOMAIN triggerData
  THEN UNCHANGED <<obj, triggerData>>
  ELSE /\ Len(obj) < MaxObjs
       /\ obj' = Append(obj, t)
       /\ triggerData' = [n \in DOMAIN triggerData \cup {t.name} |->
                            IF n = t.name THEN Len(obj) + 1 ELSE triggerData[n]]

AddTrigger(n, s, c, active) ==
  /\ gui = IdleGui
  /\ n \notin DOMAIN triggerData
  /\ Insert(NewTrigger(n, s, c.condType, c.condValue, c.condTOut, active))
  /\ UNCHANGED <<signExist, gui, packet, workVars>>

\* Who still has the pointer finds the trigger switched off.
SwitchedOff(o) == [obj EXCEPT ![o].isActive = FALSE]

\* Data of the trigger are not freed, on purpose.
DelTrigger(n) ==
  /\ gui = IdleGui
  /\ n \in DOMAIN triggerData
  /\ obj' = SwitchedOff(triggerData[n])
  /\ triggerData' = [m \in DOMAIN triggerData \ {n} |-> triggerData[m]]
  /\ UNCHANGED <<signExist, gui, packet, workVars>>

\* changeTrigger of a signal's trigger: four assignments without a lock.
ChangeTrigger(n, c, active) ==
  /\ gui = IdleGui
  /\ n \in DOMAIN triggerData
  /\ obj' = [obj EXCEPT ![triggerData[n]].condValue = c.condValue]
  /\ gui' = [pc |-> "tout", o |-> triggerData[n], c |-> c, active |-> active]
  /\ UNCHANGED <<triggerData, signExist, packet, workVars>>

ChangeTOut ==
  /\ gui.pc = "tout"
  /\ obj' = [obj EXCEPT ![gui.o].condTOut = gui.c.condTOut]
  /\ gui' = [gui EXCEPT !.pc = "type"]
  /\ UNCHANGED <<triggerData, signExist, packet, workVars>>

ChangeType ==
  /\ gui.pc = "type"
  /\ obj' = [obj EXCEPT ![gui.o].condType = gui.c.condType]
  /\ gui' = [gui EXCEPT !.pc = "active"]
  /\ UNCHANGED <<triggerData, signExist, packet, workVars>>

ChangeActive ==
  /\ gui.pc = "active"
  /\ obj' = [obj EXCEPT ![gui.o].isActive = gui.active]
  /\ gui' = IdleGui
  /\ UNCHANGED <<triggerData, signExist, packet, workVars>>

\* ... and of a module's trigger, which has no condition to change.
ChangeModuleTrigger(n, active) ==
  /\ gui = IdleGui
  /\ n \in DOMAIN triggerData
  /\ obj' = [obj EXCEPT ![triggerData[n]].isActive = active]
  /\ UNCHANGED <<triggerData, signExist, gui, packet, workVars>>

\* MainWin::moduleConnect makes the module's triggers when it sees the module
\* for the first time ...
ModuleConnect(active) ==
  /\ gui = IdleGui
  /\ IF signExist
     THEN /\ UNCHANGED <<obj, triggerData>>
          /\ gui' = [pc |-> "event", on |-> 1]
     ELSE /\ Insert(NewTrigger(OnName, NoSignal, "CONNECT_MODULE", 0, 0, active))
          /\ gui' = [pc |-> "off"]
  /\ UNCHANGED <<signExist, packet, workVars>>

ModuleConnectOff(active) ==
  /\ gui.pc = "off"
  /\ Insert(NewTrigger(OffName, NoSignal, "DISCONNECT_MODULE", 0, 0, active))
  /\ signExist' = TRUE
  /\ gui' = [pc |-> "event", on |-> 1]
  /\ UNCHANGED <<packet, workVars>>

ModuleDisconnect ==
  /\ gui = IdleGui
  /\ signExist
  /\ gui' = [pc |-> "event", on |-> 0]
  /\ UNCHANGED <<obj, triggerData, signExist, packet, workVars>>

\* ... and tells the active ones what happened (two assignments, of different
\* triggers, as one).
SetEvent ==
  LET value(n) == IF n = OnName THEN gui.on ELSE 1 - gui.on
  IN  /\ gui.pc = "event"
      /\ obj' = [o \in DOMAIN obj |->
                   IF \E n \in ModuleTriggers : triggerData[n] = o /\ obj[o].isActive
                   THEN [obj[o] EXCEPT !.condValue = value(obj[o].name)]
                   ELSE obj[o]]
      /\ gui' = IdleGui
      /\ UNCHANGED <<triggerData, signExist, packet, workVars>>

-----------------------------------------------------------------------------
(* The work thread.                                                        *)

\* Bound: no more time than the longest condTOut is counted.
Cap(ms) == IF ms > LongestTOut THEN LongestTOut ELSE ms

\* Bug: timers that were not asked for go on from where they were.
KeepCounts == count

\* Bug: the marks are taken back before they are looked at.
ResetEvery == [n \in Names |-> 0]

\* TimerDelay::update: a timer nobody asked for since the last time starts anew.
ResetIdle == [n \in Names |-> IF touched[n] THEN count[n] ELSE 0]

\* A cycle: the copy of the map, under mtx_, and TimerDelay::update.
StartCycle(tm) ==
  /\ work.pc = "top"
  /\ work' = [work EXCEPT !.pc = "look", !.tref = triggerData, !.todo = DOMAIN triggerData]
  /\ cycleTm' = tm
  /\ count' = ResetIdle
  /\ touched' = [n \in Names |-> FALSE]
  /\ held' = [n \in Names |-> IF n \in DOMAIN triggerData THEN Cap(held[n] + tm) ELSE 0]
  /\ spent' = [n \in Names |-> spent[n] /\ n \in DOMAIN triggerData]
  /\ UNCHANGED <<guiVars, packet, sdata, onc>>

\* Whether one value of the signal meets the condition.
Meets(t, v) ==
  CASE t.condType = "LESS"      -> v < t.condValue
    [] t.condType = "EQUALS"    -> v = t.condValue
    [] t.condType = "MORE"      -> v > t.condValue
    [] t.condType = "POS_FRONT" -> v # 0
    [] t.condType = "NEG_FRONT" -> v = 0

\* checkCondition: without a delay one value of the packet is enough, with a
\* delay all of them have to meet the condition.
CheckCondition(t, s) ==
  IF t.condTOut <= 0 THEN \E v \in packet[s] : Meets(t, v)
                     ELSE \A v \in packet[s] : Meets(t, v)

\* Bug: time is taken off, as offDelayMS does.
CountDown(n, ena) == IF ena THEN count[n] - cycleTm ELSE 0

\* TimerDelay::onDelayMS: the time for which the condition has been seen.
OnDelay(n, ena) == IF ena THEN Cap(count[n] + cycleTm) ELSE 0

\* The count is unsigned: a negative delay is never reached.
Elapsed(ms, tout) == tout >= 0 /\ ms >= tout

\* Front::PosFront.
PosFront(n, ena) == ena /\ ~onc[n]

\* The signal of a trigger is looked up the first time its name is met, and
\* kept.
SignalOf(t) == IF t.name \in DOMAIN sdata THEN sdata[t.name] ELSE t.signal

\* A look at one trigger.  checkCondition uses the signal's data before it
\* looks at the type of the condition; a module's trigger has none.
Look(n) ==
  LET t   == obj[work.tref[n]]
      ena == t.isActive /\ CheckCondition(t, SignalOf(t))
      on  == ena /\ Elapsed(OnDelay(n, ena), t.condTOut)
      due == PosFront(n, on)
  IN  /\ work.pc = "look"
      /\ n \in work.todo
      /\ sdata' = [m \in DOMAIN sdata \cup {n} |-> IF m = n THEN SignalOf(t) ELSE sdata[m]]
      /\ IF t.isActive /\ SignalOf(t) = NoSignal
         THEN /\ work' = [work EXCEPT !.pc = "null"]
              /\ UNCHANGED <<count, touched, onc, held, spent>>
         ELSE /\ count' = [count EXCEPT ![n] = OnDelay(n, ena)]
              /\ touched' = [touched EXCEPT ![n] = TRUE]
              /\ onc' = [onc EXCEPT ![n] = on]
              /\ work' = [work EXCEPT !.todo = @ \ {n},
                                      !.pc = IF due THEN "report" ELSE "look",
                                      !.due = IF due THEN n ELSE NoName]
              /\ held' = [held EXCEPT ![n] = IF ena THEN @ ELSE 0]
              /\ spent' = [spent EXCEPT ![n] = on /\ (@ \/ due)]
      /\ UNCHANGED <<guiVars, packet, cycleTm>>

\* MainWin::onTrigger, in the work thread: the event is written and the user's
\* process started, unless the trigger is gone.  Neither is modelled.
Report ==
  /\ work.pc = "report"
  /\ work' = [work EXCEPT !.pc = "look", !.due = NoName]
  /\ UNCHANGED <<guiVars, packet, sdata, cycleTm, count, touched, onc, held, spent>>

EndCycle ==
  /\ work.pc = "look"
  /\ work.todo = {}
  /\ work' = [work EXCEPT !.pc = "top"]
  /\ UNCHANGED <<guiVars, packet, sdata, cycleTm, count, touched, onc, held, spent>>

-----------------------------------------------------------------------------
\* The update thread stores a packet of a signal, under the lock under which
\* checkCondition copies it.
NewPacket(s, p) ==
  /\ packet' = [packet EXCEPT ![s] = p]
  /\ UNCHANGED <<guiVars, workVars>>

GuiStep ==
  \/ \E n \in SignalTriggers, c \in Conditions, active \in BOOLEAN :
       (\E s \in Signals : AddTrigger(n, s, c, active)) \/ ChangeTrigger(n, c, active)
  \/ \E n \in SignalTriggers : DelTrigger(n)
  \/ ChangeTOut \/ ChangeType \/ ChangeActive
  \/ \E n \in ModuleTriggers, active \in ModuleActive : ChangeModuleTrigger(n, active)
  \/ \E active \in ModuleActive : ModuleConnect(active) \/ ModuleConnectOff(active)
  \/ ModuleDisconnect
  \/ SetEvent

WorkStep ==
  \/ \E tm \in CycleTms : StartCycle(tm)
  \/ \E n \in Names : Look(n)
  \/ Report
  \/ EndCycle

Next ==
  \/ GuiStep
  \/ WorkStep
  \/ \E s \in Signals, p \in (SUBSET Values) \ {{}} : NewPacket(s, p)

\* The work thread runs on; nothing makes the user act or packets come.
Spec == Init /\ [][Next]_vars /\ WF_vars(WorkStep)
-----------------------------------------------------------------------------
(* Properties.                                                             *)

\* Every variable keeps to its range, and the map leads to a trigger of that
\* name.
TypeOK ==
  /\ Len(obj) <= MaxObjs
  /\ \A o \in DOMAIN obj :
       /\ obj[o].name \in Names /\ obj[o].isActive \in BOOLEAN
       /\ obj[o].condTOut \in TOuts
       /\ OfModule(obj[o]) = (obj[o].name \in ModuleTriggers)
       /\ OfModule(obj[o]) => obj[o].condValue \in {0, 1}
  /\ DOMAIN triggerData \subseteq Names
  /\ \A n \in DOMAIN triggerData : triggerData[n] \in DOMAIN obj /\ obj[triggerData[n]].name = n
  /\ signExist => ModuleTriggers \subseteq DOMAIN triggerData
  /\ packet \in [Signals -> (SUBSET Values) \ {{}}]
  /\ work.pc \in {"top", "look", "report", "null"}
  /\ sdata \in [DOMAIN sdata -> Signals \cup {NoSignal}] /\ DOMAIN sdata \subseteq Names
  /\ work.todo \subseteq DOMAIN work.tref
  /\ work.due \in Names \cup {NoName}
  /\ cycleTm \in CycleTms \cup {0}
  /\ count \in [Names -> 0 .. LongestTOut]
  /\ touched \in [Names -> BOOLEAN] /\ onc \in [Names -> BOOLEAN]

\* A trigger becomes due only if it was active, and its condition met, at every
\* look for condTOut, and only once until one of these fails: neither another
\* trigger, nor one of its name before, nor a cycle without it counts.
DueAfterHolding ==
  [][\A n \in DOMAIN work.tref :
       LET t == obj[work.tref[n]]
       IN  work.due # n /\ work'.due = n =>
             /\ t.isActive
             /\ CheckCondition(t, SignalOf(t))
             /\ held[n] >= t.condTOut
             /\ ~spent[n]]_vars

\* The condition of a signal's trigger is met and will be at the next look.
Standing(n) ==
  /\ n \in DOMAIN triggerData
  /\ LET t == obj[triggerData[n]]
     IN  t.isActive /\ CheckCondition(t, SignalOf(t)) /\ t.condTOut >= 0

\* A condition that stays met is not overlooked: the trigger becomes due, or
\* has become due, unless the work thread is gone.
StandingFires ==
  \A n \in SignalTriggers : Standing(n) ~> (onc[n] \/ ~Standing(n) \/ work.pc = "null")
=============================================================================
