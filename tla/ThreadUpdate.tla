---------------------------- MODULE ThreadUpdate ----------------------------
(***************************************************************************)
(* The update thread (SVServer/thread_update.cpp) over the registry of     *)
(* signals and modules (SVServer/server.cpp), and a reader of a signal's   *)
(* two hour ring (the graphs, the export).                                 *)
(*                                                                         *)
(* The thread takes records, registers signals it has not seen, stores the *)
(* record as the last one of the signal and in the signal's ring, and from *)
(* time to time checks which signals and modules are still heard of.  A    *)
(* user makes the ring of a signal (signalBufferEna).  A reader takes the  *)
(* bounds of the ring under the shared lock and goes through the slots     *)
(* without it.                                                             *)
(*                                                                         *)
(* Records of a key are numbered 1, 2, ... in the order they are stored;   *)
(* the number stands for time and values.  Maps are functions whose domain *)
(* grows; sref and mref are the domains of the thread's maps.  Where the   *)
(* records come from is BufferData, the archive is Archive; min and max    *)
(* values, and redrawing, are left out.  madeAt, taken and scan.at are     *)
(* history or bound variables.                                             *)
(***************************************************************************)
EXTENDS Integers, Sequences, FiniteSets

CONSTANTS Signals,   \* pairs <<name, module>> that devices send
          KeyOf,     \* name + module, by pair
          Virtual,   \* the module of the scripts' signals
          ScriptKey, \* bound: the one signal a script makes
          TwoHours,  \* 2 * 3600000 / SV_CYCLESAVE_MS
          MinAlloc,  \* the least size of a ring's vector; 10
          MaxRecords \* bound: records taken

ModuleOf(s) == s[2]
Keys        == {KeyOf[s] : s \in Signals} \cup {ScriptKey}
Modules     == {ModuleOf(s) : s \in Signals} \cup {Virtual}

ASSUME UpdateAssumption ==
  /\ IsFiniteSet(Signals)
  /\ DOMAIN KeyOf = Signals
  /\ TwoHours \in Nat
  /\ MinAlloc \in Nat \ {0}
  /\ MaxRecords \in Nat

VARIABLES signalData,   \* m_signalData
          moduleData,   \* m_moduleData, isActive of each module
          sref, mref,   \* the thread's copies of the two
          signActive,   \* marks: heard of since the last check
          moduleActive,
          update,       \* where the thread is, and the record it has
          enabling,     \* the key signalBufferEna is making a ring for
          scan,         \* a reader of a ring
          madeAt,       \* lastData of a key when its ring was made
          taken

vars == <<signalData, moduleData, sref, mref, signActive, moduleActive, update, enabling,
          scan, madeAt, taken>>

-----------------------------------------------------------------------------
Absent == "absent"

\* The thread's ring size.
RingSz == IF TwoHours = 0 THEN 1 ELSE TwoHours

\* The size of the vector signalBufferEna makes.
AllocSz == IF TwoHours < MinAlloc THEN MinAlloc ELSE TwoHours

Slots   == 0 .. AllocSz - 1
NoSlot  == [time |-> 0, vals |-> 0]
NoRec   == <<>>

NewSignal(m) ==
  [module |-> m, isActive |-> TRUE, isBuffEnable |-> FALSE, lastData |-> 0,
   buffBeginPos |-> 0, buffValuePos |-> 0, buffMinTime |-> 0,
   buffData |-> [p \in Slots |-> NoSlot]]

Known == DOMAIN signalData

\* A map after map[k] = v.
Put(map, k, v) == [x \in DOMAIN map \cup {k} |-> IF x = k THEN v ELSE map[x]]

IdleScan == [key |-> Absent, pos |-> 0, end |-> 0, out |-> <<>>, at |-> 0, first |-> 0]

\* Nothing is registered; the thread's maps are empty.
Init ==
  /\ signalData = <<>>
  /\ moduleData = <<>>
  /\ sref = {} /\ mref = {}
  /\ signActive = <<>>
  /\ moduleActive = <<>>
  /\ update = [pc |-> "start", rec |-> NoRec]
  /\ enabling = Absent
  /\ scan = IdleScan
  /\ madeAt = [k \in Keys |-> 0]
  /\ taken = 0

-----------------------------------------------------------------------------
(* The update thread.                                                      *)

\* What is registered when the thread starts counts as heard of.
StartCycle ==
  /\ update.pc = "start"
  /\ sref' = Known
  /\ signActive' = [k \in Known |-> TRUE]
  /\ mref' = DOMAIN moduleData
  /\ moduleActive' = [m \in DOMAIN moduleData |-> TRUE]
  /\ update' = [update EXCEPT !.pc = "idle"]
  /\ UNCHANGED <<signalData, moduleData, enabling, scan, madeAt, taken>>

\* The next record is one of signal s.
Take(s) ==
  /\ update.pc = "idle"
  /\ taken < MaxRecords
  /\ taken' = taken + 1
  /\ update' = [pc |-> IF KeyOf[s] \in sref THEN "store" ELSE "register", rec |-> s]
  /\ UNCHANGED <<signalData, moduleData, sref, mref, signActive, moduleActive, enabling,
                 scan, madeAt>>

\* The module of a new signal, looked up in the registry.
LookUp(m) == mref \cup {m}

\* ThreadUpdate::addSignal, and the look-up of what it registered: both take
\* m_mtxCommon, which signalBufferEna holds while it makes a ring.
Register ==
  LET k == KeyOf[update.rec]
      m == ModuleOf(update.rec)
  IN  /\ update.pc = "register"
      /\ enabling = Absent
      /\ signalData' = IF k \in Known THEN signalData ELSE Put(signalData, k, NewSignal(m))
      /\ moduleData' = IF m \in DOMAIN moduleData THEN moduleData ELSE Put(moduleData, m, FALSE)
      /\ sref' = sref \cup {k}
      /\ mref' = LookUp(m)
      /\ update' = [update EXCEPT !.pc = "store"]
      /\ UNCHANGED <<signActive, moduleActive, enabling, scan, madeAt, taken>>

\* The first half of the section under m_mtxRW: marks, lastData, and the time
\* of the slot if the ring is there.
StoreTime ==
  LET k  == KeyOf[update.rec]
      sd == signalData[k]
      n  == sd.lastData + 1
  IN  /\ update.pc = "store"
      /\ signActive' = Put(signActive, k, TRUE)
      /\ moduleActive' = Put(moduleActive, ModuleOf(update.rec), TRUE)
      /\ signalData' =
           [signalData EXCEPT
              ![k].lastData = n,
              ![k].buffData = IF sd.isBuffEnable
                              THEN [@ EXCEPT ![sd.buffValuePos].time = n] ELSE @]
      /\ update' = [update EXCEPT !.pc = IF sd.isBuffEnable THEN "values" ELSE "idle"]
      /\ UNCHANGED <<moduleData, sref, mref, enabling, scan, madeAt, taken>>

\* Bug: positions wrap one slot late.
NextPosLate(p) == IF p + 1 > RingSz THEN 0 ELSE p + 1

\* Positions wrap at the thread's size.
NextPos(p) == IF p + 1 >= RingSz THEN 0 ELSE p + 1

\* Bug: the oldest record stays in the window.
NewBeginLate(b, vp) == b

\* The oldest record leaves the window when the ring is full.
NewBegin(b, vp) == IF vp = b THEN NextPos(b) ELSE b

\* The second half: the values of the slot, the least time (updateSignalsBuff),
\* the positions; then the lock is released.
StoreValues ==
  LET k  == KeyOf[update.rec]
      sd == signalData[k]
      vp == NextPos(sd.buffValuePos)
  IN  /\ update.pc = "values"
      /\ signalData' =
           [signalData EXCEPT
              ![k].buffData[sd.buffValuePos].vals = sd.lastData,
              ![k].buffMinTime = sd.buffData[sd.buffBeginPos].time,
              ![k].buffValuePos = vp,
              ![k].buffBeginPos = NewBegin(sd.buffBeginPos, vp)]
      /\ update' = [update EXCEPT !.pc = "idle"]
      /\ UNCHANGED <<moduleData, sref, mref, signActive, moduleActive, enabling, scan,
                     madeAt, taken>>

\* Every signal has to be heard of again.
TakeBackMarks == [k \in DOMAIN signActive |-> FALSE]

\* Bug: only modules shown as connected are looked at.
ConnectedOnly == {m \in DOMAIN moduleActive \ {Virtual} : m \in DOMAIN moduleData /\ moduleData[m]}

\* The marked modules that the check looks at.
Checked == DOMAIN moduleActive \ {Virtual}

\* The check of the connections, under m_mtxRW.  A module that is not in mref
\* has no ModuleData: it is used all the same.
Check ==
  /\ update.pc = "idle"
  /\ signalData' = [k \in Known |-> IF k \in DOMAIN signActive
                                    THEN [signalData[k] EXCEPT !.isActive = signActive[k]]
                                    ELSE signalData[k]]
  /\ signActive' = TakeBackMarks
  /\ IF Checked \subseteq mref
     THEN /\ moduleData' = [m \in DOMAIN moduleData |->
                              IF m \in Checked THEN moduleActive[m] ELSE moduleData[m]]
          /\ moduleActive' = [m \in DOMAIN moduleActive |->
                                IF m \in Checked THEN FALSE ELSE moduleActive[m]]
          /\ update' = update
     ELSE /\ update' = [update EXCEPT !.pc = "null"]
          /\ UNCHANGED <<moduleData, moduleActive>>
  /\ UNCHANGED <<sref, mref, enabling, scan, madeAt, taken>>

-----------------------------------------------------------------------------
(* The user's side.                                                        *)

\* Bug: users of the ring do not take the lock.
NoLock == TRUE

\* The update thread does not hold m_mtxRW.
RWFree == update.pc # "values"

\* A script makes its signal: addModule and addSignal.
AddVirtual ==
  /\ enabling = Absent
  /\ ScriptKey \notin Known
  /\ signalData' = Put(signalData, ScriptKey, NewSignal(Virtual))
  /\ moduleData' = Put(moduleData, Virtual, TRUE)
  /\ UNCHANGED <<sref, mref, signActive, moduleActive, update, enabling, scan, madeAt, taken>>

\* signalBufferEna makes the vector under m_mtxCommon ...
MakeRing(k) ==
  /\ enabling = Absent
  /\ k \in Known
  /\ ~signalData[k].isBuffEnable
  /\ enabling' = k
  /\ UNCHANGED <<signalData, moduleData, sref, mref, signActive, moduleActive, update, scan,
                 madeAt, taken>>

\* ... and shows it under m_mtxRW, not while the update thread has the lock.
EnableRing ==
  /\ enabling # Absent
  /\ RWFree
  /\ signalData' = [signalData EXCEPT ![enabling].isBuffEnable = TRUE]
  /\ madeAt' = [madeAt EXCEPT ![enabling] = signalData[enabling].lastData]
  /\ enabling' = Absent
  /\ UNCHANGED <<moduleData, sref, mref, signActive, moduleActive, update, scan, taken>>

\* The number of records between the positions.
Window(sd) == (sd.buffValuePos - sd.buffBeginPos) % RingSz

\* A reader takes the bounds under the shared lock.
ScanStart(k) ==
  LET sd == signalData[k]
  IN  /\ scan.key = Absent
      /\ RWFree
      /\ k \in Known
      /\ sd.isBuffEnable
      /\ scan' = [key |-> k, pos |-> sd.buffBeginPos, end |-> sd.buffValuePos, out |-> <<>>,
                  at |-> sd.lastData, first |-> sd.lastData - Window(sd) + 1]
      /\ UNCHANGED <<signalData, moduleData, sref, mref, signActive, moduleActive, update,
                     enabling, madeAt, taken>>

\* It reads a slot without the lock, and wraps at the size of the vector.
ScanSlot ==
  /\ scan.key # Absent
  /\ scan.pos # scan.end
  /\ scan' = [scan EXCEPT !.out = Append(@, signalData[scan.key].buffData[scan.pos]),
                          !.pos = IF scan.pos + 1 >= AllocSz THEN 0 ELSE scan.pos + 1]
  /\ UNCHANGED <<signalData, moduleData, sref, mref, signActive, moduleActive, update,
                 enabling, madeAt, taken>>

ScanEnd ==
  /\ scan.key # Absent
  /\ scan.pos = scan.end
  /\ scan' = IdleScan
  /\ UNCHANGED <<signalData, moduleData, sref, mref, signActive, moduleActive, update,
                 enabling, madeAt, taken>>

-----------------------------------------------------------------------------
UpdateStep == StartCycle \/ Register \/ StoreTime \/ StoreValues \/ Check

UserStep ==
  \/ AddVirtual
  \/ \E k \in Keys : MakeRing(k) \/ ScanStart(k)
  \/ EnableRing
  \/ ScanSlot
  \/ ScanEnd

Next ==
  \/ \E s \in Signals : Take(s)
  \/ UpdateStep
  \/ UserStep

\* Records need not come, users need not act; the update thread runs on, and a
\* user who holds a lock releases it.
Spec == Init /\ [][Next]_vars /\ WF_vars(UpdateStep) /\ WF_vars(EnableRing)
-----------------------------------------------------------------------------
(* Properties.                                                             *)

SignalType ==
  [module : Modules, isActive : BOOLEAN, isBuffEnable : BOOLEAN, lastData : 0 .. MaxRecords,
   buffBeginPos : Slots, buffValuePos : Slots, buffMinTime : 0 .. MaxRecords,
   buffData : [Slots -> [time : 0 .. MaxRecords, vals : 0 .. MaxRecords]]]

\* Every variable keeps to its range; the thread's positions stay inside the
\* vector although the two sizes are computed in two places.
TypeOK ==
  /\ Known \subseteq Keys /\ signalData \in [Known -> SignalType]
  /\ DOMAIN moduleData \subseteq Modules /\ moduleData \in [DOMAIN moduleData -> BOOLEAN]
  /\ sref \subseteq Known
  /\ mref \subseteq DOMAIN moduleData
  /\ signActive \in [DOMAIN signActive -> BOOLEAN] /\ DOMAIN signActive \subseteq sref
  /\ moduleActive \in [DOMAIN moduleActive -> BOOLEAN]
  /\ DOMAIN moduleActive \subseteq Modules
  /\ update \in [pc : {"start", "idle", "register", "store", "values", "null"},
                 rec : Signals \cup {NoRec}]
  /\ enabling \in Known \cup {Absent}
  /\ scan.pos \in Slots
  /\ taken \in 0 .. MaxRecords

\* The slot of a ring's window that holds the i-th record of it.
SlotAt(sd, i) == (sd.buffBeginPos + i) % RingSz

\* Between the two positions a ring holds the last records, whole and in
\* order, as many as were stored since it was made, up to its size; the least
\* time is that of the first of them, or of the one that has just left.
RingIsLatest ==
  \A k \in Known :
    LET sd == signalData[k]
        n  == Window(sd)
    IN  sd.isBuffEnable /\ update.pc # "values" =>
          /\ n = IF sd.lastData - madeAt[k] < RingSz THEN sd.lastData - madeAt[k]
                                                     ELSE RingSz - 1
          /\ \A i \in 0 .. n - 1 :
               sd.buffData[SlotAt(sd, i)] = [time |-> sd.lastData - n + 1 + i,
                                             vals |-> sd.lastData - n + 1 + i]
          /\ n > 0 => sd.buffMinTime \in {sd.lastData - n, sd.lastData - n + 1}

\* A reader that goes through a ring outside the lock gets the records it was
\* promised, whole and in order, as long as no more than one more is stored
\* meanwhile, and the two sizes agree.
ScanInOrder ==
  scan.key # Absent /\ AllocSz = RingSz /\ signalData[scan.key].lastData <= scan.at + 1 =>
    \A i \in DOMAIN scan.out :
      scan.out[i] = [time |-> scan.first + i - 1, vals |-> scan.first + i - 1]

\* Module m has been heard of since the last check.
Marked(m) == m \in DOMAIN moduleActive /\ moduleActive[m]
=============================================================================
