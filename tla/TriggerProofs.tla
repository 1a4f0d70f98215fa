--------------------------- MODULE TriggerProofs ---------------------------
(***************************************************************************)
(* Theorems about the triggers, for any signals, names, values, conditions *)
(* and lengths of a cycle.                                                 *)
(*                                                                         *)
(* The invariant has three parts.  Of the objects: each is of a kind that  *)
(* goes with its name, and whoever holds a place - the map, the copy of    *)
(* the work thread, the window's thread in the middle of a change - holds  *)
(* one of an object of the name it is meant for; an object never changes   *)
(* its name.  Of the time: what TimerDelay has counted of a trigger is no  *)
(* more than for how long its condition has been met (Counted), in a cycle *)
(* with the time that this cycle adds (Counting).  Of the front: what has  *)
(* become due is still on (Fronts).                                        *)
(***************************************************************************)
EXTENDS Trigger, SequenceTheorems, TLAPS

-----------------------------------------------------------------------------
(* The inductive invariant.                                                *)

SignalTypes == {"LESS", "EQUALS", "MORE", "POS_FRONT", "NEG_FRONT"}
ModuleTypes == {"CONNECT_MODULE", "DISCONNECT_MODULE"}

TriggerData == [name : Names, signal : Signals \cup {NoSignal},
                condType : SignalTypes \cup ModuleTypes,
                condValue : Int, condTOut : TOuts, isActive : BOOLEAN]

\* A trigger of a module is one by its type, and knows of two events.
KindOK(t) ==
  /\ OfModule(t) <=> t.name \in ModuleTriggers
  /\ OfModule(t) => t.condValue \in {0, 1}

ObjectsOK ==
  /\ obj \in Seq(TriggerData)
  /\ Len(obj) <= MaxObjs
  /\ \A o \in DOMAIN obj : KindOK(obj[o])

\* A map from names to places leads to objects of these names.
Refers(m) ==
  /\ m = [n \in DOMAIN m |-> m[n]]
  /\ DOMAIN m \subseteq Names
  /\ \A n \in DOMAIN m : m[n] \in DOMAIN obj /\ obj[m[n]].name = n

MapOK ==
  /\ Refers(triggerData)
  /\ signExist \in BOOLEAN
  /\ signExist => ModuleTriggers \subseteq DOMAIN triggerData

Changes == [pc : {"tout", "type", "active"}, o : Nat, c : Conditions, active : BOOLEAN]

\* The window's thread: between two assignments of a change, the two triggers of
\* a module, or a module's event and the triggers it is for.
GuiOK ==
  \/ gui = IdleGui
  \/ gui \in Changes /\ gui.o \in DOMAIN obj /\ obj[gui.o].name \in SignalTriggers
  \/ gui = [pc |-> "off"] /\ OnName \in DOMAIN triggerData
  \/ gui \in [pc : {"event"}, on : {0, 1}] /\ signExist

WorkOK ==
  /\ work = [pc |-> work.pc, tref |-> work.tref, todo |-> work.todo, due |-> work.due]
  /\ work.pc \in {"top", "look", "report", "null"}
  /\ Refers(work.tref)
  /\ work.todo \subseteq DOMAIN work.tref
  /\ work.pc = "top" => work.todo = {}
  /\ work.due \in Names \cup {NoName}
  /\ sdata = [n \in DOMAIN sdata |-> sdata[n]]
  /\ DOMAIN sdata \subseteq Names
  /\ \A n \in DOMAIN sdata : sdata[n] \in Signals \cup {NoSignal}

TimesOK ==
  /\ cycleTm \in CycleTms \cup {0}
  /\ count \in [Names -> 0 .. LongestTOut]
  /\ held \in [Names -> 0 .. LongestTOut]
  /\ touched \in [Names -> BOOLEAN]
  /\ onc \in [Names -> BOOLEAN]
  /\ spent \in [Names -> BOOLEAN]

\* What a timer that was asked for has counted ...
Counted  == \A n \in Names : touched[n] => count[n] <= held[n]

\* ... and what it will have counted after the look of this cycle.
Counting == \A n \in work.todo : Cap(count[n] + cycleTm) <= held[n]

Fronts == \A n \in Names : spent[n] => onc[n]

PacketOK == packet \in [Signals -> (SUBSET Values) \ {{}}]

IInv ==
  /\ ObjectsOK /\ MapOK /\ GuiOK /\ PacketOK
  /\ WorkOK /\ TimesOK /\ Counted /\ Counting /\ Fronts

-----------------------------------------------------------------------------
(* The longest delay, and what Cap makes of a time.                        *)

LEMMA Delays ==
  /\ TOuts \subseteq Int /\ 0 \in TOuts
  /\ LongestTOut \in TOuts /\ LongestTOut \in Nat
  /\ \A t \in TOuts : t <= LongestTOut
<1>1. TOuts \subseteq Int /\ 0 \in TOuts
  <2>1. \A c \in Conditions : c.condTOut \in Int
    BY TriggerAssumption
  <2> QED BY <2>1 DEF TOuts
<1>2. LongestTOut \in TOuts /\ \A t \in TOuts : t <= LongestTOut
  BY TriggerAssumption, Zenon DEF LongestTOut
<1> QED BY <1>1, <1>2

LEMMA Capped ==
  ASSUME NEW m \in Nat
  PROVE  /\ Cap(m) \in 0 .. LongestTOut /\ Cap(m) <= m
         /\ \A t \in TOuts : Cap(m) >= t <=> m >= t
         /\ \A k \in Nat : k <= m => Cap(k) <= Cap(m)
BY Delays DEF Cap

-----------------------------------------------------------------------------
(* Assignments to one object.                                              *)

KeepsNames ==
  /\ Len(obj) <= Len(obj')
  /\ \A o \in DOMAIN obj : obj'[o].name = obj[o].name

\* Objects keep their places and their names: who holds a place holds it still.
LEMMA StillRefers ==
  ASSUME ObjectsOK, ObjectsOK', KeepsNames, NEW m, Refers(m)
  PROVE  /\ DOMAIN obj \subseteq DOMAIN obj'
         /\ DOMAIN m \subseteq Names
         /\ \A n \in DOMAIN m : m[n] \in DOMAIN obj' /\ obj'[m[n]].name = n
<1>1. obj \in Seq(TriggerData) /\ obj' \in Seq(TriggerData)
  BY DEF ObjectsOK
<1>2. DOMAIN obj \subseteq DOMAIN obj'
  BY <1>1 DEF KeepsNames
<1> QED BY <1>2 DEF KeepsNames, Refers

LEMMA Assigned ==
  ASSUME ObjectsOK, NEW i \in DOMAIN obj, NEW t \in TriggerData, KindOK(t),
         t.name = obj[i].name, obj' = [obj EXCEPT ![i] = t]
  PROVE  ObjectsOK' /\ KeepsNames
<1>1. obj \in Seq(TriggerData) /\ Len(obj) <= MaxObjs /\ i \in 1 .. Len(obj)
  BY DEF ObjectsOK
<1>2. obj' \in Seq(TriggerData) /\ Len(obj') = Len(obj) /\ DOMAIN obj' = DOMAIN obj
  BY <1>1
<1>3. \A o \in DOMAIN obj : obj'[o] = IF o = i THEN t ELSE obj[o]
  BY <1>1
<1>4. \A o \in DOMAIN obj' : KindOK(obj'[o])
  BY <1>2, <1>3 DEF ObjectsOK
<1> QED BY <1>1, <1>2, <1>3, <1>4 DEF ObjectsOK, KeepsNames

-----------------------------------------------------------------------------
(* What a step of the window's thread has to show.                         *)

LEMMA GuiStepKeeps ==
  ASSUME IInv, ObjectsOK', KeepsNames, MapOK', GuiOK', UNCHANGED <<packet, workVars>>
  PROVE  IInv'
<1>1. Refers(work.tref)'
  <2>1. Refers(work.tref)
    BY DEF IInv, WorkOK
  <2>2. work' = work
    BY DEF workVars
  <2>3. /\ DOMAIN work.tref \subseteq Names
        /\ \A n \in DOMAIN work.tref : work.tref[n] \in DOMAIN obj' /\ obj'[work.tref[n]].name = n
    BY <2>1, StillRefers DEF IInv
  <2> QED BY <2>1, <2>2, <2>3 DEF Refers
<1>2. WorkOK'
  BY <1>1 DEF IInv, WorkOK, workVars
<1>3. TimesOK' /\ Counted' /\ Counting' /\ Fronts' /\ PacketOK'
  BY DEF IInv, TimesOK, Counted, Counting, Fronts, PacketOK, workVars, Cap
<1> QED BY <1>2, <1>3 DEF IInv

\* The map is as it was, the objects keep their names.
LEMMA MapStays ==
  ASSUME IInv, ObjectsOK', KeepsNames, UNCHANGED <<triggerData, signExist>>
  PROVE  MapOK'
<1>1. Refers(triggerData)
  BY DEF IInv, MapOK
<1>2. /\ DOMAIN triggerData \subseteq Names
      /\ \A n \in DOMAIN triggerData :
           triggerData[n] \in DOMAIN obj' /\ obj'[triggerData[n]].name = n
  BY <1>1, StillRefers DEF IInv
<1>3. Refers(triggerData)'
  BY <1>1, <1>2 DEF Refers
<1> QED BY <1>3 DEF IInv, MapOK

\* A trigger of the name of a signal's trigger is of a signal's type, and the other
\* way round.
LEMMA Kinds ==
  ASSUME ObjectsOK, NEW o \in DOMAIN obj
  PROVE  /\ obj[o] \in TriggerData /\ KindOK(obj[o])
         /\ obj[o].name \in SignalTriggers => obj[o].condType \in SignalTypes
         /\ obj[o].name \in ModuleTriggers => obj[o].condType \in ModuleTypes
<1>1. obj[o] \in TriggerData
  BY DEF ObjectsOK
<1>2. KindOK(obj[o])
  BY DEF ObjectsOK
<1> QED BY <1>1, <1>2, TriggerAssumption DEF TriggerData, KindOK, OfModule, SignalTypes, ModuleTypes

LEMMA Conds ==
  ASSUME NEW c \in Conditions
  PROVE  c.condType \in SignalTypes /\ c.condValue \in Int /\ c.condTOut \in TOuts
BY TriggerAssumption DEF SignalTypes, TOuts

-----------------------------------------------------------------------------
(* The steps of the window's thread.                                       *)

\* addTrigger with the data of a new trigger.
LEMMA Inserted ==
  ASSUME IInv, NEW t \in TriggerData, KindOK(t), Insert(t)
  PROVE  /\ ObjectsOK' /\ KeepsNames
         /\ Refers(triggerData)'
         /\ DOMAIN triggerData' = DOMAIN triggerData \cup {t.name}
<1>1. ObjectsOK /\ Refers(triggerData)
  BY DEF IInv, MapOK
<1>2. CASE t.name \in DOMAIN triggerData
  <2>1. UNCHANGED <<obj, triggerData>>
    BY <1>2 DEF Insert
  <2>2. ObjectsOK' /\ KeepsNames
    BY <1>1, <2>1 DEF ObjectsOK, KeepsNames
  <2>3. Refers(triggerData)'
    BY <1>1, <2>1 DEF Refers
  <2>4. DOMAIN triggerData' = DOMAIN triggerData \cup {t.name}
    BY <1>2, <2>1
  <2> QED BY <2>2, <2>3, <2>4
<1>3. CASE t.name \notin DOMAIN triggerData
  <2>1. /\ Len(obj) < MaxObjs
        /\ obj' = Append(obj, t)
        /\ triggerData' = [n \in DOMAIN triggerData \cup {t.name} |->
                             IF n = t.name THEN Len(obj) + 1 ELSE triggerData[n]]
    BY <1>3 DEF Insert
  <2>2. obj \in Seq(TriggerData) /\ Len(obj) \in Nat /\ MaxObjs \in Nat
    BY <1>1, TriggerAssumption DEF ObjectsOK
  <2>3. /\ obj' \in Seq(TriggerData) /\ Len(obj') = Len(obj) + 1
        /\ \A o \in DOMAIN obj : o \in DOMAIN obj' /\ obj'[o] = obj[o]
        /\ obj'[Len(obj) + 1] = t
        /\ \A o \in DOMAIN obj' : o \in DOMAIN obj \/ o = Len(obj) + 1
        /\ Len(obj) + 1 \in DOMAIN obj'
    BY <2>1, <2>2
  <2>4. ObjectsOK'
    <3>1. \A o \in DOMAIN obj' : KindOK(obj'[o])
      BY <1>1, <2>3 DEF ObjectsOK
    <3> QED BY <2>1, <2>2, <2>3, <3>1 DEF ObjectsOK
  <2>5. KeepsNames
    BY <2>2, <2>3 DEF KeepsNames
  <2>6. Refers(triggerData)'
    <3>1. t.name \in Names
      BY DEF TriggerData
    <3>2. /\ DOMAIN triggerData' = DOMAIN triggerData \cup {t.name}
          /\ \A n \in DOMAIN triggerData' :
               triggerData'[n] = IF n = t.name THEN Len(obj) + 1 ELSE triggerData[n]
      BY <2>1
    <3>3. \A n \in DOMAIN triggerData' :
             triggerData'[n] \in DOMAIN obj' /\ obj'[triggerData'[n]].name = n
      BY <1>1, <2>3, <3>2 DEF Refers
    <3>4. triggerData' = [n \in DOMAIN triggerData' |-> triggerData'[n]]
      BY <2>1
    <3> QED BY <1>1, <3>1, <3>2, <3>3, <3>4 DEF Refers
  <2> QED BY <2>1, <2>4, <2>5, <2>6
<1> QED BY <1>2, <1>3

LEMMA AddTriggerKeeps ==
  ASSUME IInv, NEW n \in SignalTriggers, NEW s \in Signals, NEW c \in Conditions,
         NEW active \in BOOLEAN, AddTrigger(n, s, c, active)
  PROVE  IInv'
<1> DEFINE t == NewTrigger(n, s, c.condType, c.condValue, c.condTOut, active)
<1>1. c.condType \in SignalTypes /\ c.condValue \in Int /\ c.condTOut \in TOuts
  BY Conds
<1>2. t \in TriggerData /\ t.name = n /\ t.condType \in SignalTypes
  BY <1>1 DEF NewTrigger, TriggerData, Names
<1>3. KindOK(t)
  BY <1>2, TriggerAssumption DEF KindOK, OfModule, SignalTypes
<1>4. Insert(t) /\ gui = IdleGui /\ gui' = gui /\ signExist' = signExist
      /\ packet' = packet /\ workVars' = workVars
  BY DEF AddTrigger
<1>5. ObjectsOK' /\ KeepsNames /\ Refers(triggerData)' /\ DOMAIN triggerData \subseteq DOMAIN triggerData'
  <2> HIDE DEF t
  <2> QED BY <1>2, <1>3, <1>4, Inserted
<1>6. MapOK'
  BY <1>4, <1>5 DEF IInv, MapOK
<1>7. GuiOK'
  BY <1>4 DEF GuiOK
<1> QED BY <1>4, <1>5, <1>6, <1>7, GuiStepKeeps

LEMMA DelTriggerKeeps ==
  ASSUME IInv, NEW n \in SignalTriggers, DelTrigger(n)
  PROVE  IInv'
<1>1. /\ gui = IdleGui /\ n \in DOMAIN triggerData /\ obj' = SwitchedOff(triggerData[n])
      /\ triggerData' = [m \in DOMAIN triggerData \ {n} |-> triggerData[m]]
      /\ gui' = gui /\ signExist' = signExist /\ packet' = packet /\ workVars' = workVars
  BY DEF DelTrigger
<1>2. PICK i : i = triggerData[n] /\ i \in DOMAIN obj
  BY <1>1 DEF IInv, MapOK, Refers
<1>3. obj[i] \in TriggerData /\ KindOK(obj[i])
  BY <1>2, Kinds DEF IInv
<1>4. PICK t : t = [obj[i] EXCEPT !.isActive = FALSE]
  OBVIOUS
<1>5. /\ t \in TriggerData /\ t.name = obj[i].name
      /\ t.condType = obj[i].condType /\ t.condValue = obj[i].condValue
  BY <1>3, <1>4 DEF TriggerData
<1>6. KindOK(t)
  BY <1>3, <1>5 DEF KindOK, OfModule
<1>7. obj' = [obj EXCEPT ![i] = t]
  BY <1>1, <1>2, <1>4 DEF SwitchedOff
<1>8. ObjectsOK' /\ KeepsNames
  BY <1>2, <1>5, <1>6, <1>7, Assigned DEF IInv
<1>9. MapOK'
  <2>1. Refers(triggerData)
    BY DEF IInv, MapOK
  <2>2. /\ DOMAIN triggerData \subseteq Names
        /\ \A m \in DOMAIN triggerData :
             triggerData[m] \in DOMAIN obj' /\ obj'[triggerData[m]].name = m
    BY <1>8, <2>1, StillRefers DEF IInv
  <2>3. Refers(triggerData)'
    BY <1>1, <2>2 DEF Refers
  <2>4. signExist' => ModuleTriggers \subseteq DOMAIN triggerData'
    BY <1>1, TriggerAssumption DEF IInv, MapOK
  <2> QED BY <1>1, <2>3, <2>4 DEF IInv, MapOK
<1>10. GuiOK'
  BY <1>1 DEF GuiOK
<1> QED BY <1>1, <1>8, <1>9, <1>10, GuiStepKeeps

\* An assignment of a change, at a place of the object of a signal's trigger.
LEMMA ChangeAssigns ==
  ASSUME IInv, NEW i \in DOMAIN obj, obj[i].name \in SignalTriggers,
         NEW t \in TriggerData, t.name = obj[i].name, t.condType \in SignalTypes,
         obj' = [obj EXCEPT ![i] = t], UNCHANGED <<triggerData, signExist>>
  PROVE  /\ ObjectsOK' /\ KeepsNames /\ MapOK'
         /\ i \in DOMAIN obj' /\ obj'[i].name \in SignalTriggers
<1>1. KindOK(t)
  BY TriggerAssumption DEF KindOK, OfModule, SignalTypes
<1>2. ObjectsOK' /\ KeepsNames
  BY <1>1, Assigned DEF IInv
<1>3. MapOK'
  BY <1>2, MapStays
<1>4. obj \in Seq(TriggerData)
  BY DEF IInv, ObjectsOK
<1>5. i \in DOMAIN obj' /\ obj'[i] = t
  BY <1>4
<1> QED BY <1>2, <1>3, <1>5

LEMMA ChangeTriggerKeeps ==
  ASSUME IInv, NEW n \in SignalTriggers, NEW c \in Conditions, NEW active \in BOOLEAN,
         ChangeTrigger(n, c, active)
  PROVE  IInv'
<1>1. /\ n \in DOMAIN triggerData
      /\ obj' = [obj EXCEPT ![triggerData[n]].condValue = c.condValue]
      /\ gui' = [pc |-> "tout", o |-> triggerData[n], c |-> c, active |-> active]
      /\ UNCHANGED <<triggerData, signExist, packet, workVars>>
  BY DEF ChangeTrigger
<1>2. PICK i : i = triggerData[n] /\ i \in DOMAIN obj /\ obj[i].name = n
  BY <1>1 DEF IInv, MapOK, Refers
<1>3. obj[i] \in TriggerData /\ obj[i].condType \in SignalTypes
  BY <1>2, Kinds DEF IInv
<1>4. PICK t : t = [obj[i] EXCEPT !.condValue = c.condValue]
  OBVIOUS
<1>5. t \in TriggerData /\ t.name = obj[i].name /\ t.condType \in SignalTypes
  BY <1>3, <1>4, Conds DEF TriggerData
<1>6. obj' = [obj EXCEPT ![i] = t]
  BY <1>1, <1>2, <1>4
<1>7. /\ ObjectsOK' /\ KeepsNames /\ MapOK'
      /\ i \in DOMAIN obj' /\ obj'[i].name \in SignalTriggers
  BY <1>1, <1>2, <1>5, <1>6, ChangeAssigns
<1>8. i \in Nat
  <2>1. obj \in Seq(TriggerData)
    BY DEF IInv, ObjectsOK
  <2> QED BY <1>2, <2>1
<1>9. GuiOK'
  BY <1>1, <1>2, <1>7, <1>8 DEF GuiOK, Changes
<1> QED BY <1>1, <1>7, <1>9, GuiStepKeeps

\* In the middle of a change.
LEMMA Changing ==
  ASSUME IInv, gui.pc \in {"tout", "type", "active"}
  PROVE  /\ gui \in Changes /\ gui.o \in DOMAIN obj /\ obj[gui.o].name \in SignalTriggers
         /\ obj[gui.o] \in TriggerData /\ obj[gui.o].condType \in SignalTypes
<1>1. gui \in Changes /\ gui.o \in DOMAIN obj /\ obj[gui.o].name \in SignalTriggers
  BY DEF IInv, GuiOK, IdleGui
<1> QED BY <1>1, Kinds DEF IInv

LEMMA ChangeTOutKeeps ==
  ASSUME IInv, ChangeTOut
  PROVE  IInv'
<1>1. /\ gui.pc = "tout"
      /\ obj' = [obj EXCEPT ![gui.o].condTOut = gui.c.condTOut]
      /\ gui' = [gui EXCEPT !.pc = "type"]
      /\ UNCHANGED <<triggerData, signExist, packet, workVars>>
  BY DEF ChangeTOut
<1>2. PICK i, c : /\ i = gui.o /\ c = gui.c /\ gui \in Changes
                  /\ i \in DOMAIN obj /\ obj[i].name \in SignalTriggers
                  /\ obj[i] \in TriggerData /\ obj[i].condType \in SignalTypes
  BY <1>1, Changing
<1>3. c \in Conditions
  BY <1>2 DEF Changes
<1>4. PICK t : t = [obj[i] EXCEPT !.condTOut = c.condTOut]
  OBVIOUS
<1>5. t \in TriggerData /\ t.name = obj[i].name /\ t.condType \in SignalTypes
  BY <1>2, <1>3, <1>4, Conds DEF TriggerData
<1>6. obj' = [obj EXCEPT ![i] = t]
  BY <1>1, <1>2, <1>4
<1>7. /\ ObjectsOK' /\ KeepsNames /\ MapOK'
      /\ i \in DOMAIN obj' /\ obj'[i].name \in SignalTriggers
  BY <1>1, <1>2, <1>5, <1>6, ChangeAssigns
<1>8. gui' \in Changes /\ gui'.o = i
  BY <1>1, <1>2 DEF Changes
<1>9. GuiOK'
  BY <1>7, <1>8 DEF GuiOK
<1> QED BY <1>1, <1>7, <1>9, GuiStepKeeps

LEMMA ChangeTypeKeeps ==
  ASSUME IInv, ChangeType
  PROVE  IInv'
<1>1. /\ gui.pc = "type"
      /\ obj' = [obj EXCEPT ![gui.o].condType = gui.c.condType]
      /\ gui' = [gui EXCEPT !.pc = "active"]
      /\ UNCHANGED <<triggerData, signExist, packet, workVars>>
  BY DEF ChangeType
<1>2. PICK i, c : /\ i = gui.o /\ c = gui.c /\ gui \in Changes
                  /\ i \in DOMAIN obj /\ obj[i].name \in SignalTriggers
                  /\ obj[i] \in TriggerData /\ obj[i].condType \in SignalTypes
  BY <1>1, Changing
<1>3. c \in Conditions
  BY <1>2 DEF Changes
<1>4. PICK t : t = [obj[i] EXCEPT !.condType = c.condType]
  OBVIOUS
<1>5. t \in TriggerData /\ t.name = obj[i].name /\ t.condType \in SignalTypes
  BY <1>2, <1>3, <1>4, Conds DEF TriggerData
<1>6. obj' = [obj EXCEPT ![i] = t]
  BY <1>1, <1>2, <1>4
<1>7. /\ ObjectsOK' /\ KeepsNames /\ MapOK'
      /\ i \in DOMAIN obj' /\ obj'[i].name \in SignalTriggers
  BY <1>1, <1>2, <1>5, <1>6, ChangeAssigns
<1>8. gui' \in Changes /\ gui'.o = i
  BY <1>1, <1>2 DEF Changes
<1>9. GuiOK'
  BY <1>7, <1>8 DEF GuiOK
<1> QED BY <1>1, <1>7, <1>9, GuiStepKeeps

LEMMA ChangeActiveKeeps ==
  ASSUME IInv, ChangeActive
  PROVE  IInv'
<1>1. /\ gui.pc = "active"
      /\ obj' = [obj EXCEPT ![gui.o].isActive = gui.active]
      /\ gui' = IdleGui
      /\ UNCHANGED <<triggerData, signExist, packet, workVars>>
  BY DEF ChangeActive
<1>2. PICK i : /\ i = gui.o /\ gui \in Changes
               /\ i \in DOMAIN obj /\ obj[i].name \in SignalTriggers
               /\ obj[i] \in TriggerData /\ obj[i].condType \in SignalTypes
  BY <1>1, Changing
<1>3. gui.active \in BOOLEAN
  BY <1>2 DEF Changes
<1>4. PICK t : t = [obj[i] EXCEPT !.isActive = gui.active]
  OBVIOUS
<1>5. t \in TriggerData /\ t.name = obj[i].name /\ t.condType \in SignalTypes
  BY <1>2, <1>3, <1>4 DEF TriggerData
<1>6. obj' = [obj EXCEPT ![i] = t]
  BY <1>1, <1>2, <1>4
<1>7. ObjectsOK' /\ KeepsNames /\ MapOK'
  BY <1>1, <1>2, <1>5, <1>6, ChangeAssigns
<1>8. GuiOK'
  BY <1>1 DEF GuiOK, IdleGui
<1> QED BY <1>1, <1>7, <1>8, GuiStepKeeps

LEMMA ChangeModuleTriggerKeeps ==
  ASSUME IInv, NEW n \in ModuleTriggers, NEW active \in ModuleActive,
         ChangeModuleTrigger(n, active)
  PROVE  IInv'
<1>1. /\ gui = IdleGui /\ n \in DOMAIN triggerData
      /\ obj' = [obj EXCEPT ![triggerData[n]].isActive = active]
      /\ UNCHANGED <<triggerData, signExist, gui, packet, workVars>>
  BY DEF ChangeModuleTrigger
<1>2. PICK i : i = triggerData[n] /\ i \in DOMAIN obj
  BY <1>1 DEF IInv, MapOK, Refers
<1>3. obj[i] \in TriggerData /\ KindOK(obj[i])
  BY <1>2, Kinds DEF IInv
<1>4. PICK t : t = [obj[i] EXCEPT !.isActive = active]
  OBVIOUS
<1>5. /\ t \in TriggerData /\ t.name = obj[i].name
      /\ t.condType = obj[i].condType /\ t.condValue = obj[i].condValue
  BY <1>3, <1>4, TriggerAssumption DEF TriggerData
<1>6. KindOK(t)
  BY <1>3, <1>5 DEF KindOK, OfModule
<1>7. obj' = [obj EXCEPT ![i] = t]
  BY <1>1, <1>2, <1>4
<1>8. ObjectsOK' /\ KeepsNames
  BY <1>2, <1>5, <1>6, <1>7, Assigned DEF IInv
<1>9. MapOK'
  BY <1>1, <1>8, MapStays
<1>10. GuiOK'
  BY <1>1 DEF GuiOK, IdleGui
<1> QED BY <1>1, <1>8, <1>9, <1>10, GuiStepKeeps

\* The triggers that moduleConnect makes.
LEMMA NewModuleTrigger ==
  ASSUME NEW n \in ModuleTriggers, NEW type \in ModuleTypes, NEW active \in ModuleActive
  PROVE  LET t == NewTrigger(n, NoSignal, type, 0, 0, active)
         IN  t \in TriggerData /\ t.name = n /\ KindOK(t)
BY TriggerAssumption, Delays
   DEF NewTrigger, TriggerData, KindOK, OfModule, ModuleTypes, Names

LEMMA ModuleConnectKeeps ==
  ASSUME IInv, NEW active \in ModuleActive, ModuleConnect(active)
  PROVE  IInv'
<1>1. /\ gui = IdleGui /\ signExist \in BOOLEAN
      /\ UNCHANGED <<signExist, packet, workVars>>
  BY DEF ModuleConnect, IInv, MapOK
<1>2. CASE signExist
  <2>1. UNCHANGED <<obj, triggerData>> /\ gui' = [pc |-> "event", on |-> 1]
    BY <1>2 DEF ModuleConnect
  <2>2. ObjectsOK' /\ KeepsNames
    BY <2>1 DEF IInv, ObjectsOK, KeepsNames
  <2>3. MapOK'
    BY <1>1, <2>1, <2>2, MapStays
  <2>4. GuiOK'
    BY <1>1, <1>2, <2>1 DEF GuiOK
  <2> QED BY <1>1, <2>2, <2>3, <2>4, GuiStepKeeps
<1>3. CASE ~signExist
  <2>1. PICK t : t = NewTrigger(OnName, NoSignal, "CONNECT_MODULE", 0, 0, active)
    OBVIOUS
  <2>2. t \in TriggerData /\ t.name = OnName /\ KindOK(t)
    BY <2>1, NewModuleTrigger DEF ModuleTriggers, ModuleTypes
  <2>3. Insert(t) /\ gui' = [pc |-> "off"]
    BY <1>3, <2>1 DEF ModuleConnect
  <2>4. /\ ObjectsOK' /\ KeepsNames /\ Refers(triggerData)'
        /\ DOMAIN triggerData' = DOMAIN triggerData \cup {OnName}
    BY <2>2, <2>3, Inserted
  <2>5. MapOK'
    BY <1>1, <1>3, <2>4 DEF MapOK
  <2>6. GuiOK'
    BY <2>3, <2>4 DEF GuiOK
  <2> QED BY <1>1, <2>4, <2>5, <2>6, GuiStepKeeps
<1> QED BY <1>1, <1>2, <1>3

LEMMA ModuleConnectOffKeeps ==
  ASSUME IInv, NEW active \in ModuleActive, ModuleConnectOff(active)
  PROVE  IInv'
<1>1. /\ gui.pc = "off" /\ signExist' = TRUE /\ gui' = [pc |-> "event", on |-> 1]
      /\ UNCHANGED <<packet, workVars>>
  BY DEF ModuleConnectOff
<1>2. PICK t : t = NewTrigger(OffName, NoSignal, "DISCONNECT_MODULE", 0, 0, active)
  OBVIOUS
<1>3. t \in TriggerData /\ t.name = OffName /\ KindOK(t)
  BY <1>2, NewModuleTrigger DEF ModuleTriggers, ModuleTypes
<1>4. Insert(t)
  BY <1>2 DEF ModuleConnectOff
<1>5. /\ ObjectsOK' /\ KeepsNames /\ Refers(triggerData)'
      /\ DOMAIN triggerData' = DOMAIN triggerData \cup {OffName}
  BY <1>3, <1>4, Inserted
<1>6. OnName \in DOMAIN triggerData
  BY <1>1 DEF IInv, GuiOK, IdleGui, Changes
<1>7. MapOK'
  BY <1>1, <1>5, <1>6 DEF MapOK, ModuleTriggers
<1>8. GuiOK'
  BY <1>1 DEF GuiOK
<1> QED BY <1>1, <1>5, <1>7, <1>8, GuiStepKeeps

LEMMA ModuleDisconnectKeeps ==
  ASSUME IInv, ModuleDisconnect
  PROVE  IInv'
<1>1. /\ signExist /\ gui' = [pc |-> "event", on |-> 0]
      /\ UNCHANGED <<obj, triggerData, signExist, packet, workVars>>
  BY DEF ModuleDisconnect
<1>2. ObjectsOK' /\ KeepsNames
  BY <1>1 DEF IInv, ObjectsOK, KeepsNames
<1>3. MapOK'
  BY <1>1, <1>2, MapStays
<1>4. GuiOK'
  BY <1>1 DEF GuiOK
<1> QED BY <1>1, <1>2, <1>3, <1>4, GuiStepKeeps

LEMMA SetEventKeeps ==
  ASSUME IInv, SetEvent
  PROVE  IInv'
<1> DEFINE value(n) == IF n = OnName THEN gui.on ELSE 1 - gui.on
           told(o) == \E n \in ModuleTriggers : triggerData[n] = o /\ obj[o].isActive
           became(o) == IF told(o) THEN [obj[o] EXCEPT !.condValue = value(obj[o].name)]
                                   ELSE obj[o]
<1>1. /\ gui.pc = "event" /\ gui' = IdleGui
      /\ obj' = [o \in DOMAIN obj |-> became(o)]
      /\ UNCHANGED <<triggerData, signExist, packet, workVars>>
  BY DEF SetEvent
<1>2. gui \in [pc : {"event"}, on : {0, 1}]
  BY <1>1 DEF IInv, GuiOK, IdleGui, Changes
<1>3. obj \in Seq(TriggerData)
  BY DEF IInv, ObjectsOK
<1>4. ASSUME NEW o \in DOMAIN obj
      PROVE  became(o) \in TriggerData /\ became(o).name = obj[o].name /\ KindOK(became(o))
  <2>1. obj[o] \in TriggerData /\ KindOK(obj[o])
    BY <1>4, Kinds DEF IInv
  <2>2. PICK v : v = value(obj[o].name) /\ v \in {0, 1}
    BY <1>2
  <2>3. PICK t : t = [obj[o] EXCEPT !.condValue = v]
    OBVIOUS
  <2>4. /\ t \in TriggerData /\ t.name = obj[o].name /\ t.condType = obj[o].condType
        /\ t.condValue = v
    BY <2>1, <2>2, <2>3 DEF TriggerData
  <2>5. KindOK(t)
    BY <2>1, <2>2, <2>4 DEF KindOK, OfModule
  <2>6. became(o) = t \/ became(o) = obj[o]
    BY <2>2, <2>3
  <2> HIDE DEF became
  <2> QED BY <2>1, <2>4, <2>5, <2>6
<1>5. /\ obj' \in Seq(TriggerData) /\ Len(obj') = Len(obj) /\ DOMAIN obj' = DOMAIN obj
      /\ \A o \in DOMAIN obj : obj'[o] = became(o)
  <2> HIDE DEF became
  <2>1. DOMAIN obj = 1 .. Len(obj) /\ Len(obj) \in Nat
    BY <1>3
  <2>2. obj' \in [1 .. Len(obj) -> TriggerData]
    BY <1>1, <1>4, <2>1
  <2> QED BY <1>1, <2>1, <2>2, SeqDef
<1>6. ObjectsOK' /\ KeepsNames
  <2> HIDE DEF became
  <2>1. Len(obj) \in Nat
    BY <1>3
  <2> QED BY <1>4, <1>5, <2>1 DEF IInv, ObjectsOK, KeepsNames
<1>7. MapOK'
  BY <1>1, <1>6, MapStays
<1>8. GuiOK'
  BY <1>1 DEF GuiOK, IdleGui
<1> QED BY <1>1, <1>6, <1>7, <1>8, GuiStepKeeps

-----------------------------------------------------------------------------
(* The steps of the work thread.                                           *)

\* The window's part of the invariant stays when the work thread moves.
LEMMA WorkStepKeeps ==
  ASSUME IInv, UNCHANGED <<guiVars, packet>>,
         WorkOK', TimesOK', Counted', Counting', Fronts'
  PROVE  IInv'
<1>1. ObjectsOK' /\ MapOK' /\ GuiOK' /\ PacketOK'
  BY DEF IInv, guiVars, ObjectsOK, MapOK, Refers, GuiOK, PacketOK
<1> QED BY <1>1 DEF IInv

LEMMA StartCycleKeeps ==
  ASSUME IInv, NEW tm \in CycleTms, StartCycle(tm)
  PROVE  IInv'
<1>1. /\ work.pc = "top"
      /\ work' = [work EXCEPT !.pc = "look", !.tref = triggerData, !.todo = DOMAIN triggerData]
      /\ cycleTm' = tm
      /\ count' = ResetIdle
      /\ touched' = [n \in Names |-> FALSE]
      /\ held' = [n \in Names |-> IF n \in DOMAIN triggerData THEN Cap(held[n] + tm) ELSE 0]
      /\ spent' = [n \in Names |-> spent[n] /\ n \in DOMAIN triggerData]
      /\ UNCHANGED <<guiVars, packet, sdata, onc>>
  BY DEF StartCycle
<1>2. /\ work'.pc = "look" /\ work'.tref = triggerData /\ work'.todo = DOMAIN triggerData
      /\ work'.due = work.due
      /\ work' = [pc |-> work'.pc, tref |-> work'.tref, todo |-> work'.todo, due |-> work'.due]
  <2>1. work = [pc |-> work.pc, tref |-> work.tref, todo |-> work.todo, due |-> work.due]
    BY DEF IInv, WorkOK
  <2> QED BY <1>1, <2>1
<1>3. DOMAIN triggerData \subseteq Names /\ tm \in Nat
  BY TriggerAssumption DEF IInv, MapOK, Refers
<1>4. WorkOK'
  <2>1. Refers(work.tref)'
    BY <1>1, <1>2 DEF IInv, MapOK, Refers, guiVars
  <2> QED BY <1>1, <1>2, <2>1 DEF IInv, WorkOK
<1>5. ASSUME NEW n \in Names
      PROVE  /\ Cap(held[n] + tm) \in 0 .. LongestTOut
             /\ (IF touched[n] THEN count[n] ELSE 0) \in 0 .. LongestTOut
             /\ Cap((IF touched[n] THEN count[n] ELSE 0) + tm) <= Cap(held[n] + tm)
  <2>1. /\ held[n] \in 0 .. LongestTOut /\ count[n] \in 0 .. LongestTOut
        /\ touched[n] \in BOOLEAN /\ (touched[n] => count[n] <= held[n])
    BY DEF IInv, TimesOK, Counted
  <2>2. PICK k : k = (IF touched[n] THEN count[n] ELSE 0)
    OBVIOUS
  <2>3. LongestTOut \in Nat
    BY Delays
  <2>4. k \in 0 .. LongestTOut /\ k <= held[n]
    BY <2>1, <2>2, <2>3
  <2>5. held[n] + tm \in Nat /\ k + tm \in Nat /\ k + tm <= held[n] + tm
    BY <1>3, <2>1, <2>4, <2>3
  <2> QED BY <2>2, <2>4, <2>5, Capped
<1>6. count' \in [Names -> 0 .. LongestTOut]
  BY <1>1, <1>5 DEF ResetIdle
<1>7. held' \in [Names -> 0 .. LongestTOut]
  BY <1>1, <1>5, Delays
<1>8. TimesOK'
  <2>1. /\ onc' \in [Names -> BOOLEAN] /\ touched' \in [Names -> BOOLEAN]
        /\ spent' \in [Names -> BOOLEAN] /\ cycleTm' \in CycleTms \cup {0}
    BY <1>1 DEF IInv, TimesOK
  <2> QED BY <1>6, <1>7, <2>1 DEF TimesOK
<1>9. Counted'
  BY <1>1 DEF Counted
<1>10. Counting'
  <2> SUFFICES ASSUME NEW n \in DOMAIN triggerData
               PROVE  Cap(count'[n] + tm) <= held'[n]
    BY <1>1, <1>2 DEF Counting, Cap
  <2>1. n \in Names
    BY <1>3
  <2> QED BY <1>1, <1>5, <2>1 DEF ResetIdle
<1>11. Fronts'
  BY <1>1 DEF IInv, Fronts
<1> QED BY <1>1, <1>4, <1>8, <1>9, <1>10, <1>11, WorkStepKeeps DEF guiVars

\* A look, its parts by name.
Enabled(t) == t.isActive /\ CheckCondition(t, SignalOf(t))
SwitchedOn(n, t) == Enabled(t) /\ Elapsed(OnDelay(n, Enabled(t)), t.condTOut)
BecomesDue(n, t) == PosFront(n, SwitchedOn(n, t))

LEMMA LookDoes ==
  ASSUME IInv, NEW n \in Names, Look(n)
  PROVE  LET t == obj[work.tref[n]]
         IN  /\ n \in work.todo /\ n \in DOMAIN work.tref
             /\ t \in TriggerData /\ t.name = n
             /\ SignalOf(t) \in Signals \cup {NoSignal}
             /\ sdata' = [m \in DOMAIN sdata \cup {n} |-> IF m = n THEN SignalOf(t) ELSE sdata[m]]
             /\ UNCHANGED <<guiVars, packet, cycleTm>>
             /\ \/ /\ work' = [work EXCEPT !.pc = "null"]
                   /\ UNCHANGED <<count, touched, onc, held, spent>>
                \/ /\ count' = [count EXCEPT ![n] = OnDelay(n, Enabled(t))]
                   /\ touched' = [touched EXCEPT ![n] = TRUE]
                   /\ onc' = [onc EXCEPT ![n] = SwitchedOn(n, t)]
                   /\ work' = [work EXCEPT !.todo = @ \ {n},
                                           !.pc = IF BecomesDue(n, t) THEN "report" ELSE "look",
                                           !.due = IF BecomesDue(n, t) THEN n ELSE NoName]
                   /\ held' = [held EXCEPT ![n] = IF Enabled(t) THEN @ ELSE 0]
                   /\ spent' = [spent EXCEPT ![n] = SwitchedOn(n, t) /\ (@ \/ BecomesDue(n, t))]
<1>1. n \in work.todo
  BY DEF Look
<1>2. n \in DOMAIN work.tref /\ work.tref[n] \in DOMAIN obj /\ obj[work.tref[n]].name = n
  BY <1>1 DEF IInv, WorkOK, Refers
<1>3. PICK t : t = obj[work.tref[n]]
  OBVIOUS
<1>4. t \in TriggerData /\ t.name = n
  BY <1>2, <1>3, Kinds DEF IInv
<1>5. SignalOf(t) \in Signals \cup {NoSignal}
  BY <1>4 DEF SignalOf, TriggerData, IInv, WorkOK
<1>6. UNCHANGED <<guiVars, packet, cycleTm>>
  BY DEF Look
<1>7. sdata' = [m \in DOMAIN sdata \cup {n} |-> IF m = n THEN SignalOf(t) ELSE sdata[m]]
  BY <1>3 DEF Look
<1>8. CASE t.isActive /\ SignalOf(t) = NoSignal
  <2>1. work' = [work EXCEPT !.pc = "null"] /\ UNCHANGED <<count, touched, onc, held, spent>>
    BY <1>3, <1>8 DEF Look
  <2> QED BY <1>1, <1>2, <1>3, <1>4, <1>5, <1>6, <1>7, <2>1
<1>9. CASE ~(t.isActive /\ SignalOf(t) = NoSignal)
  <2>1. /\ count' = [count EXCEPT ![n] = OnDelay(n, Enabled(t))]
        /\ touched' = [touched EXCEPT ![n] = TRUE]
        /\ onc' = [onc EXCEPT ![n] = SwitchedOn(n, t)]
        /\ work' = [work EXCEPT !.todo = @ \ {n},
                                !.pc = IF BecomesDue(n, t) THEN "report" ELSE "look",
                                !.due = IF BecomesDue(n, t) THEN n ELSE NoName]
        /\ held' = [held EXCEPT ![n] = IF Enabled(t) THEN @ ELSE 0]
        /\ spent' = [spent EXCEPT ![n] = SwitchedOn(n, t) /\ (@ \/ BecomesDue(n, t))]
    BY <1>3, <1>9, Zenon DEF Look, Enabled, SwitchedOn, BecomesDue
  <2> QED BY <1>1, <1>2, <1>3, <1>4, <1>5, <1>6, <1>7, <2>1
<1> QED BY <1>8, <1>9

LEMMA LookKeeps ==
  ASSUME IInv, NEW n \in Names, Look(n)
  PROVE  IInv'
<1> DEFINE t == obj[work.tref[n]]
<1>1. /\ n \in work.todo /\ n \in DOMAIN work.tref
      /\ t \in TriggerData /\ t.name = n
      /\ SignalOf(t) \in Signals \cup {NoSignal}
      /\ sdata' = [m \in DOMAIN sdata \cup {n} |-> IF m = n THEN SignalOf(t) ELSE sdata[m]]
      /\ UNCHANGED <<guiVars, packet, cycleTm>>
  BY LookDoes
<1>2. work = [pc |-> work.pc, tref |-> work.tref, todo |-> work.todo, due |-> work.due]
  BY DEF IInv, WorkOK
<1>3. /\ sdata' = [m \in DOMAIN sdata' |-> sdata'[m]] /\ DOMAIN sdata' \subseteq Names
      /\ \A m \in DOMAIN sdata' : sdata'[m] \in Signals \cup {NoSignal}
  <2>1. PICK s : s = SignalOf(t)
    OBVIOUS
  <2>2. DOMAIN sdata' = DOMAIN sdata \cup {n}
    BY <1>1
  <2>3. \A m \in DOMAIN sdata' : sdata'[m] = IF m = n THEN s ELSE sdata[m]
    BY <1>1, <2>1
  <2>4. sdata' = [m \in DOMAIN sdata' |-> sdata'[m]]
    BY <1>1
  <2>5. DOMAIN sdata \subseteq Names /\ \A m \in DOMAIN sdata : sdata[m] \in Signals \cup {NoSignal}
    BY DEF IInv, WorkOK
  <2>6. s \in Signals \cup {NoSignal}
    BY <1>1, <2>1
  <2> QED BY <2>2, <2>3, <2>4, <2>5, <2>6
<1>4. /\ Refers(work.tref) /\ DOMAIN work.tref \subseteq Names
      /\ work.todo \subseteq DOMAIN work.tref /\ obj' = obj /\ work.due \in Names \cup {NoName}
  BY <1>1 DEF IInv, WorkOK, Refers, guiVars
<1>5. CASE work' = [work EXCEPT !.pc = "null"] /\ UNCHANGED <<count, touched, onc, held, spent>>
  <2>1. /\ work'.pc = "null" /\ work'.tref = work.tref /\ work'.todo = work.todo
        /\ work'.due = work.due
        /\ work' = [pc |-> work'.pc, tref |-> work'.tref, todo |-> work'.todo, due |-> work'.due]
    BY <1>2, <1>5
  <2>2. Refers(work.tref)'
    BY <1>4, <2>1 DEF Refers
  <2>3. WorkOK'
    BY <1>3, <1>4, <2>1, <2>2 DEF WorkOK
  <2>4. TimesOK' /\ Counted' /\ Counting' /\ Fronts'
    BY <1>1, <1>5, <2>1 DEF IInv, TimesOK, Counted, Counting, Fronts, Cap
  <2> QED BY <1>1, <2>3, <2>4, WorkStepKeeps
<1>6. CASE /\ count' = [count EXCEPT ![n] = OnDelay(n, Enabled(t))]
           /\ touched' = [touched EXCEPT ![n] = TRUE]
           /\ onc' = [onc EXCEPT ![n] = SwitchedOn(n, t)]
           /\ work' = [work EXCEPT !.todo = @ \ {n},
                                   !.pc = IF BecomesDue(n, t) THEN "report" ELSE "look",
                                   !.due = IF BecomesDue(n, t) THEN n ELSE NoName]
           /\ held' = [held EXCEPT ![n] = IF Enabled(t) THEN @ ELSE 0]
           /\ spent' = [spent EXCEPT ![n] = SwitchedOn(n, t) /\ (@ \/ BecomesDue(n, t))]
  <2>1. PICK ena, on, due : /\ ena = Enabled(t) /\ on = SwitchedOn(n, t) /\ due = BecomesDue(n, t)
                            /\ ena \in BOOLEAN /\ on \in BOOLEAN /\ due \in BOOLEAN
                            /\ due = (on /\ ~onc[n])
    <3>1. Enabled(t) \in BOOLEAN /\ SwitchedOn(n, t) \in BOOLEAN /\ BecomesDue(n, t) \in BOOLEAN
          /\ BecomesDue(n, t) = (SwitchedOn(n, t) /\ ~onc[n])
      BY DEF Enabled, SwitchedOn, BecomesDue, PosFront
    <3> QED BY <3>1
  <2>2. PICK ms : ms = OnDelay(n, ena) /\ ms = IF ena THEN Cap(count[n] + cycleTm) ELSE 0
    BY DEF OnDelay
  <2>3. /\ count[n] \in 0 .. LongestTOut /\ held[n] \in 0 .. LongestTOut /\ cycleTm \in Nat
        /\ LongestTOut \in Nat
    BY TriggerAssumption, Delays DEF IInv, TimesOK
  <2>4. ms \in 0 .. LongestTOut /\ (ena => ms <= held[n])
    <3>1. count[n] + cycleTm \in Nat
      BY <2>3
    <3>2. Cap(count[n] + cycleTm) \in 0 .. LongestTOut
      BY <3>1, Capped
    <3>3. Cap(count[n] + cycleTm) <= held[n]
      BY <1>1 DEF IInv, Counting
    <3> QED BY <2>2, <2>3, <3>2, <3>3
  <2>5. /\ work'.pc = IF due THEN "report" ELSE "look"
        /\ work'.tref = work.tref /\ work'.todo = work.todo \ {n}
        /\ work'.due = IF due THEN n ELSE NoName
        /\ work' = [pc |-> work'.pc, tref |-> work'.tref, todo |-> work'.todo, due |-> work'.due]
    BY <1>2, <1>6, <2>1
  <2>6. Refers(work.tref)'
    BY <1>4, <2>5 DEF Refers
  <2>7. WorkOK'
    BY <1>3, <1>4, <2>5, <2>6 DEF WorkOK
  <2>8. /\ count' = [count EXCEPT ![n] = ms]
        /\ onc' = [onc EXCEPT ![n] = on]
        /\ held' = [held EXCEPT ![n] = IF ena THEN held[n] ELSE 0]
        /\ spent' = [spent EXCEPT ![n] = on /\ (spent[n] \/ due)]
        /\ touched' = [touched EXCEPT ![n] = TRUE]
    <3>1. count' = [count EXCEPT ![n] = ms] /\ touched' = [touched EXCEPT ![n] = TRUE]
      BY <1>6, <2>1, <2>2
    <3>2. onc' = [onc EXCEPT ![n] = on]
      BY <1>6, <2>1
    <3>3. held' = [held EXCEPT ![n] = IF ena THEN held[n] ELSE 0]
      BY <1>6, <2>1
    <3>4. spent' = [spent EXCEPT ![n] = on /\ (spent[n] \/ due)]
      BY <1>6, <2>1
    <3> QED BY <3>1, <3>2, <3>3, <3>4
  <2> HIDE DEF t
  <2>9. TimesOK'
    <3>1. count' \in [Names -> 0 .. LongestTOut] /\ held' \in [Names -> 0 .. LongestTOut]
      BY <2>3, <2>4, <2>8 DEF IInv, TimesOK
    <3>2. /\ touched' \in [Names -> BOOLEAN] /\ onc' \in [Names -> BOOLEAN]
          /\ spent' \in [Names -> BOOLEAN]
      BY <2>1, <2>8 DEF IInv, TimesOK
    <3> QED BY <1>1, <3>1, <3>2 DEF IInv, TimesOK
  <2>10. Counted'
    <3> SUFFICES ASSUME NEW m \in Names, touched'[m] PROVE count'[m] <= held'[m]
      BY DEF Counted
    <3>1. CASE m = n
      <4>1. count'[n] = ms /\ held'[n] = IF ena THEN held[n] ELSE 0
        BY <2>8 DEF IInv, TimesOK
      <4>2. ms <= IF ena THEN held[n] ELSE 0
        BY <2>2, <2>4
      <4> QED BY <3>1, <4>1, <4>2
    <3>2. CASE m # n
      <4>1. count'[m] = count[m] /\ held'[m] = held[m] /\ touched'[m] = touched[m]
        BY <2>8, <3>2 DEF IInv, TimesOK
      <4> QED BY <4>1 DEF IInv, Counted
    <3> QED BY <3>1, <3>2
  <2>11. Counting'
    <3> SUFFICES ASSUME NEW m \in work.todo, m # n PROVE Cap(count'[m] + cycleTm) <= held'[m]
      BY <1>1, <2>5 DEF Counting, Cap
    <3>1. m \in Names
      BY <1>4
    <3>2. count'[m] = count[m] /\ held'[m] = held[m]
      BY <2>8, <3>1 DEF IInv, TimesOK
    <3> QED BY <3>2 DEF IInv, Counting
  <2>12. Fronts'
    <3> SUFFICES ASSUME NEW m \in Names, spent'[m] PROVE onc'[m]
      BY DEF Fronts
    <3>1. CASE m = n
      BY <2>1, <2>8, <3>1 DEF IInv, TimesOK
    <3>2. CASE m # n
      BY <2>8, <3>2 DEF IInv, TimesOK, Fronts
    <3> QED BY <3>1, <3>2
  <2> QED BY <1>1, <2>7, <2>9, <2>10, <2>11, <2>12, WorkStepKeeps
<1> QED BY <1>5, <1>6, LookDoes

LEMMA ReportKeeps ==
  ASSUME IInv, Report
  PROVE  IInv'
<1>1. /\ work.pc = "report" /\ work' = [work EXCEPT !.pc = "look", !.due = NoName]
      /\ UNCHANGED <<guiVars, packet, sdata, cycleTm, count, touched, onc, held, spent>>
  BY DEF Report
<1>2. /\ work'.pc = "look" /\ work'.tref = work.tref /\ work'.todo = work.todo
      /\ work'.due = NoName
      /\ work' = [pc |-> work'.pc, tref |-> work'.tref, todo |-> work'.todo, due |-> work'.due]
  BY <1>1 DEF IInv, WorkOK
<1>3. Refers(work.tref)'
  BY <1>1, <1>2 DEF IInv, WorkOK, Refers, guiVars
<1>4. WorkOK'
  BY <1>1, <1>2, <1>3 DEF IInv, WorkOK
<1>5. TimesOK' /\ Counted' /\ Counting' /\ Fronts'
  BY <1>1, <1>2 DEF IInv, TimesOK, Counted, Counting, Fronts, Cap
<1> QED BY <1>1, <1>4, <1>5, WorkStepKeeps

LEMMA EndCycleKeeps ==
  ASSUME IInv, EndCycle
  PROVE  IInv'
<1>1. /\ work.todo = {} /\ work' = [work EXCEPT !.pc = "top"]
      /\ UNCHANGED <<guiVars, packet, sdata, cycleTm, count, touched, onc, held, spent>>
  BY DEF EndCycle
<1>2. /\ work'.pc = "top" /\ work'.tref = work.tref /\ work'.todo = work.todo
      /\ work'.due = work.due
      /\ work' = [pc |-> work'.pc, tref |-> work'.tref, todo |-> work'.todo, due |-> work'.due]
  BY <1>1 DEF IInv, WorkOK
<1>3. Refers(work.tref)'
  BY <1>1, <1>2 DEF IInv, WorkOK, Refers, guiVars
<1>4. WorkOK'
  BY <1>1, <1>2, <1>3 DEF IInv, WorkOK
<1>5. TimesOK' /\ Counted' /\ Counting' /\ Fronts'
  BY <1>1, <1>2 DEF IInv, TimesOK, Counted, Counting, Fronts, Cap
<1> QED BY <1>1, <1>4, <1>5, WorkStepKeeps

LEMMA NewPacketKeeps ==
  ASSUME IInv, NEW s \in Signals, NEW p \in (SUBSET Values) \ {{}}, NewPacket(s, p)
  PROVE  IInv'
<1>1. packet' = [packet EXCEPT ![s] = p] /\ UNCHANGED <<guiVars, workVars>>
  BY DEF NewPacket
<1>2. PacketOK'
  BY <1>1 DEF IInv, PacketOK
<1>3. ObjectsOK' /\ MapOK' /\ GuiOK' /\ WorkOK'
  BY <1>1 DEF IInv, guiVars, workVars, ObjectsOK, MapOK, GuiOK, WorkOK, Refers
<1>4. TimesOK' /\ Counted' /\ Counting' /\ Fronts'
  BY <1>1 DEF IInv, workVars, TimesOK, Counted, Counting, Fronts, Cap
<1> QED BY <1>2, <1>3, <1>4 DEF IInv

-----------------------------------------------------------------------------
(* The theorems.                                                           *)

LEMMA InitOK == Init => IInv
<1> SUFFICES ASSUME Init PROVE IInv
  OBVIOUS
<1>1. ObjectsOK /\ MapOK /\ GuiOK
  <2>1. obj = <<>> /\ obj \in Seq(TriggerData) /\ Len(obj) = 0 /\ DOMAIN obj = {}
    BY DEF Init
  <2>2. triggerData = [n \in DOMAIN triggerData |-> triggerData[n]] /\ DOMAIN triggerData = {}
    BY DEF Init
  <2>3. ObjectsOK
    BY <2>1, TriggerAssumption DEF ObjectsOK
  <2>4. MapOK
    BY <2>2 DEF Init, MapOK, Refers
  <2>5. GuiOK
    BY DEF Init, GuiOK
  <2> QED BY <2>3, <2>4, <2>5
<1>2. WorkOK
  <2>1. work = [pc |-> "top", tref |-> <<>>, todo |-> {}, due |-> NoName]
    BY DEF Init
  <2>2. /\ work = [pc |-> work.pc, tref |-> work.tref, todo |-> work.todo, due |-> work.due]
        /\ work.pc = "top" /\ work.tref = <<>> /\ work.todo = {} /\ work.due = NoName
    BY <2>1
  <2>3. Refers(work.tref)
    BY <2>2 DEF Refers
  <2>4. sdata = [n \in DOMAIN sdata |-> sdata[n]] /\ DOMAIN sdata = {}
    BY DEF Init
  <2> QED BY <2>2, <2>3, <2>4 DEF WorkOK
<1>3. TimesOK /\ Counted /\ Counting /\ Fronts
  <2>1. 0 \in 0 .. LongestTOut
    BY Delays
  <2> QED BY <2>1 DEF Init, TimesOK, Counted, Counting, Fronts
<1>4. PacketOK
  <2>1. ASSUME NEW v \in Values PROVE {v} \in (SUBSET Values) \ {{}}
    <3>1. v \in {v}
      OBVIOUS
    <3>2. {v} # {} /\ {v} \subseteq Values
      BY <3>1
    <3> QED BY <3>2, Zenon
  <2>2. packet \in [Signals -> {{v} : v \in Values}]
    BY DEF Init
  <2>3. {{v} : v \in Values} \subseteq (SUBSET Values) \ {{}}
    BY <2>1
  <2>4. \A s \in Signals : packet[s] \in (SUBSET Values) \ {{}}
    BY <2>2, <2>3
  <2> QED BY <2>2, <2>4 DEF PacketOK
<1> QED BY <1>1, <1>2, <1>3, <1>4 DEF IInv

LEMMA NextKeeps == IInv /\ [Next]_vars => IInv'
<1> SUFFICES ASSUME IInv, [Next]_vars PROVE IInv'
  OBVIOUS
<1>1. CASE GuiStep
  <2>1. ASSUME NEW n \in SignalTriggers, NEW c \in Conditions, NEW active \in BOOLEAN,
               (\E s \in Signals : AddTrigger(n, s, c, active)) \/ ChangeTrigger(n, c, active)
        PROVE  IInv'
    BY <2>1, AddTriggerKeeps, ChangeTriggerKeeps
  <2>2. ASSUME NEW n \in SignalTriggers, DelTrigger(n) PROVE IInv'
    BY <2>2, DelTriggerKeeps
  <2>3. CASE ChangeTOut \/ ChangeType \/ ChangeActive
    BY <2>3, ChangeTOutKeeps, ChangeTypeKeeps, ChangeActiveKeeps
  <2>4. ASSUME NEW n \in ModuleTriggers, NEW active \in ModuleActive,
               ChangeModuleTrigger(n, active)
        PROVE  IInv'
    BY <2>4, ChangeModuleTriggerKeeps
  <2>5. ASSUME NEW active \in ModuleActive, ModuleConnect(active) \/ ModuleConnectOff(active)
        PROVE  IInv'
    BY <2>5, ModuleConnectKeeps, ModuleConnectOffKeeps
  <2>6. CASE ModuleDisconnect \/ SetEvent
    BY <2>6, ModuleDisconnectKeeps, SetEventKeeps
  <2> QED BY <1>1, <2>1, <2>2, <2>3, <2>4, <2>5, <2>6 DEF GuiStep
<1>2. CASE WorkStep
  BY <1>2, StartCycleKeeps, LookKeeps, ReportKeeps, EndCycleKeeps DEF WorkStep
<1>3. CASE \E s \in Signals, p \in (SUBSET Values) \ {{}} : NewPacket(s, p)
  BY <1>3, NewPacketKeeps
<1>4. CASE UNCHANGED vars
  <2>1. UNCHANGED <<guiVars, packet, workVars>>
    BY <1>4 DEF vars
  <2>2. ObjectsOK' /\ MapOK' /\ GuiOK' /\ WorkOK' /\ PacketOK'
    BY <2>1 DEF IInv, guiVars, workVars, ObjectsOK, MapOK, GuiOK, WorkOK, Refers, PacketOK
  <2>3. TimesOK' /\ Counted' /\ Counting' /\ Fronts'
    BY <2>1 DEF IInv, workVars, TimesOK, Counted, Counting, Fronts, Cap
  <2> QED BY <2>2, <2>3 DEF IInv
<1> QED BY <1>1, <1>2, <1>3, <1>4 DEF Next

(* What the threads rely on in every state: places are those of objects of *)
(* the right names, and no time is counted that has not been               *)
(* (trigger_dialog_impl.cpp, timer_delay.h, front.h).                       *)
THEOREM Invariance == Spec => []IInv
<1>1. IInv /\ [Next]_vars => IInv'
  BY NextKeeps
<1> QED BY InitOK, <1>1, PTL DEF Spec

(* A trigger is found under its name by the window and by the work thread's *)
(* copy of the map, whatever is added, deleted or changed meanwhile; what   *)
(* TimerDelay counts keeps to its range.                                    *)
THEOREM TypeCorrect == Spec => []TypeOK
<1>1. IInv => TypeOK
  <2> SUFFICES ASSUME IInv PROVE TypeOK
    OBVIOUS
  <2>1. ASSUME NEW o \in DOMAIN obj
        PROVE  /\ obj[o].name \in Names /\ obj[o].isActive \in BOOLEAN
               /\ obj[o].condTOut \in TOuts
               /\ OfModule(obj[o]) = (obj[o].name \in ModuleTriggers)
               /\ OfModule(obj[o]) => obj[o].condValue \in {0, 1}
    <3>1. obj[o] \in TriggerData /\ KindOK(obj[o])
      BY <2>1, Kinds DEF IInv
    <3> QED BY <3>1 DEF TriggerData, KindOK, OfModule
  <2>2. Len(obj) <= MaxObjs
    BY DEF IInv, ObjectsOK
  <2>3. /\ DOMAIN triggerData \subseteq Names
        /\ \A n \in DOMAIN triggerData :
             triggerData[n] \in DOMAIN obj /\ obj[triggerData[n]].name = n
        /\ signExist => ModuleTriggers \subseteq DOMAIN triggerData
    BY DEF IInv, MapOK, Refers
  <2>4. sdata \in [DOMAIN sdata -> Signals \cup {NoSignal}] /\ DOMAIN sdata \subseteq Names
    BY DEF IInv, WorkOK
  <2>5. /\ work.pc \in {"top", "look", "report", "null"} /\ work.todo \subseteq DOMAIN work.tref
        /\ work.due \in Names \cup {NoName}
    BY DEF IInv, WorkOK
  <2>6. /\ cycleTm \in CycleTms \cup {0} /\ count \in [Names -> 0 .. LongestTOut]
        /\ touched \in [Names -> BOOLEAN] /\ onc \in [Names -> BOOLEAN]
    BY DEF IInv, TimesOK
  <2>7. packet \in [Signals -> (SUBSET Values) \ {{}}]
    BY DEF IInv, PacketOK
  <2> QED BY <2>1, <2>2, <2>3, <2>4, <2>5, <2>6, <2>7 DEF TypeOK
<1> QED BY Invariance, <1>1, PTL

(* A trigger becomes due only when its condition has been met at every look *)
(* for as long as condTOut says, and once until it has not been met: what   *)
(* a step of the work thread finds is what has happened since (onDelayMS,   *)
(* PosFront, the resets of TimerDelay::update).                             *)
THEOREM DueOnlyAfterHolding == Spec => DueAfterHolding
<1> DEFINE Due(n) ==
      LET t == obj[work.tref[n]]
      IN  work.due # n /\ work'.due = n =>
            /\ t.isActive
            /\ CheckCondition(t, SignalOf(t))
            /\ held[n] >= t.condTOut
            /\ ~spent[n]
<1>1. IInv /\ [Next]_vars => [\A n \in DOMAIN work.tref : Due(n)]_vars
  <2> SUFFICES ASSUME IInv, Next, NEW n \in DOMAIN work.tref,
                      work.due # n, work'.due = n
               PROVE  LET t == obj[work.tref[n]]
                      IN  /\ t.isActive
                          /\ CheckCondition(t, SignalOf(t))
                          /\ held[n] >= t.condTOut
                          /\ ~spent[n]
    OBVIOUS
  <2>1. n \in Names /\ n # NoName
    BY TriggerAssumption DEF IInv, WorkOK, Refers
  <2>2. work = [pc |-> work.pc, tref |-> work.tref, todo |-> work.todo, due |-> work.due]
    BY DEF IInv, WorkOK
  <2>3. work # work'
    OBVIOUS
  <2>4. ~GuiStep
    BY <2>3 DEF GuiStep, AddTrigger, ChangeTrigger, DelTrigger, ChangeTOut, ChangeType,
                ChangeActive, ChangeModuleTrigger, ModuleConnect, ModuleConnectOff,
                ModuleDisconnect, SetEvent, workVars
  <2>5. ~(\E s \in Signals, p \in (SUBSET Values) \ {{}} : NewPacket(s, p))
    BY <2>3 DEF NewPacket, workVars
  <2>6. ~Report
    BY <2>1, <2>2 DEF Report
  <2>7. ~EndCycle
    BY <2>2 DEF EndCycle
  <2>8. \A tm \in CycleTms : ~StartCycle(tm)
    BY <2>2 DEF StartCycle
  <2>9. PICK m \in Names : Look(m)
    BY <2>4, <2>5, <2>6, <2>7, <2>8 DEF Next, WorkStep
  <2>10. PICK t : t = obj[work.tref[m]]
    OBVIOUS
  <2>11. /\ m \in work.todo /\ t \in TriggerData
         /\ \/ work' = [work EXCEPT !.pc = "null"]
            \/ work' = [work EXCEPT !.todo = @ \ {m},
                                    !.pc = IF BecomesDue(m, t) THEN "report" ELSE "look",
                                    !.due = IF BecomesDue(m, t) THEN m ELSE NoName]
    BY <2>9, <2>10, LookDoes
  <2>12. work'.due = IF BecomesDue(m, t) THEN m ELSE NoName
    BY <2>2, <2>11
  <2>13. m = n /\ BecomesDue(n, t)
    BY <2>1, <2>12
  <2>14. Enabled(t) /\ Elapsed(OnDelay(n, Enabled(t)), t.condTOut) /\ ~onc[n]
    BY <2>13 DEF BecomesDue, PosFront, SwitchedOn
  <2>15. t.isActive /\ CheckCondition(t, SignalOf(t))
    BY <2>14 DEF Enabled
  <2>16. ~spent[n]
    BY <2>1, <2>14 DEF IInv, Fronts
  <2>17. held[n] >= t.condTOut
    <3>1. Cap(count[n] + cycleTm) >= t.condTOut
      BY <2>14 DEF Elapsed, OnDelay
    <3>2. Cap(count[n] + cycleTm) <= held[n]
      BY <2>11, <2>13 DEF IInv, Counting
    <3>3. held[n] \in Int /\ t.condTOut \in Int /\ count[n] + cycleTm \in Nat
      BY <2>1, <2>11, Delays, TriggerAssumption DEF IInv, TimesOK, TriggerData
    <3>4. Cap(count[n] + cycleTm) \in Int
      BY <3>3, Capped
    <3> QED BY <3>1, <3>2, <3>3, <3>4
  <2> QED BY <2>10, <2>13, <2>15, <2>16, <2>17
<1>2. Spec => [][\A n \in DOMAIN work.tref : Due(n)]_vars
  BY Invariance, <1>1, PTL DEF Spec
<1> QED BY <1>2 DEF DueAfterHolding
=============================================================================
