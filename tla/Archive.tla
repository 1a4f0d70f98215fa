------------------------------- MODULE Archive -------------------------------
(***************************************************************************)
(* The server's archive (SVServer/archive.cpp) and the part of the update  *)
(* thread that drives it (thread_update.cpp).                              *)
(*                                                                         *)
(* The update thread fills one of two buffers with the values of the       *)
(* signals.  When a signal has m_copySz values, when the hour changes, and *)
(* when the server stops, copyToDisk saves the buffer: it joins the save   *)
(* thread of the last time, gives the full buffer to a new save thread and *)
(* goes on with the other buffer; at a stop the update thread saves the    *)
(* buffer itself.  A save collects the values of SMAXCNT signals into a    *)
(* block, compresses it and appends it to the file; the positions of the   *)
(* buffer are reset only after the last block.                             *)
(*                                                                         *)
(* Values of a signal are numbered 1, 2, ...  "disk" is what the files     *)
(* hold, by signal.  added, faults, toggled and hours are history or bound *)
(* variables.  The ClickHouse sink is not modelled.                        *)
(***************************************************************************)
EXTENDS Integers, Sequences, FiniteSets

CONSTANTS Signals,
          CopySz,     \* m_copySz
          BlockMax,   \* SMAXCNT
          MaxValues,  \* bound: values handed over of one signal
          MaxFaults,  \* bound: failed saves
          MaxToggles, \* bound: changes of the setting while running
          MaxHours    \* bound: changes of the hour

ASSUME ArchiveAssumption ==
  /\ IsFiniteSet(Signals)
  /\ CopySz \in Nat \ {0}
  /\ BlockMax \in Nat \ {0}
  /\ MaxValues \in Nat
  /\ MaxFaults \in Nat
  /\ MaxToggles \in Nat
  /\ MaxHours \in Nat

VARIABLES outArchiveEna, \* cng.outArchiveEna of ThreadUpdate and of Archive
          archiveIndex,  \* m_archiveIndex
          archiveData,   \* m_archiveData
          valPos,        \* m_valPos
          known,         \* the keys of both, signals addSignal has seen
          update,        \* where the update thread is
          save,          \* the save thread and the locals of copyToDiskImpl
          disk,
          added, faults, toggled, hours

vars == <<outArchiveEna, archiveIndex, archiveData, valPos, known, update, save, disk,
          added, faults, toggled, hours>>

Buffers == {0, 1}
NoBlock == [s \in Signals |-> <<>>]

-----------------------------------------------------------------------------
\* A signal's part of the buffer is full: the test is for equality.
Full(n) == n = CopySz

\* Bug: the index runs on instead of changing between 0 and 1.
BufferAfter(i) == i + 1

\* The buffer filled while buffer i is saved.
OtherBuffer(i) == 1 - i

\* The values that buffer i holds of signal s.
Held(i, s) == SubSeq(archiveData[i][s], 1, valPos[i][s])

\* Signals with values in the block.
InBlock == {s \in Signals : save.block[s] # <<>>}

Init ==
  /\ outArchiveEna \in {[thread |-> e, archive |-> e] : e \in BOOLEAN}
  /\ archiveIndex = 0
  /\ archiveData = [i \in Buffers |-> [s \in Signals |-> [p \in 1 .. CopySz |-> 0]]]
  /\ valPos = [i \in Buffers |-> [s \in Signals |-> 0]]
  /\ known = {}
  /\ update = "run"
  /\ save = [pc |-> "none", index |-> 0, todo |-> {}, block |-> NoBlock]
  /\ disk = [s \in Signals |-> <<>>]
  /\ added = [s \in Signals |-> 0]
  /\ faults = 0
  /\ toggled = 0
  /\ hours = 0

-----------------------------------------------------------------------------
(* The update thread.                                                      *)

\* A record of a signal comes first that the update thread has not seen:
\* ThreadUpdate::addSignal, which calls Archive::addSignal.
AddSignal(s) ==
  /\ update = "run"
  /\ s \notin known
  /\ known' = known \cup {s}
  /\ UNCHANGED <<outArchiveEna, archiveIndex, archiveData, valPos, update, save, disk,
                 added, faults, toggled, hours>>

\* A record of a known signal: Archive::addValue stores it, and a full buffer
\* is to be saved.
AddValue(s) ==
  LET i == archiveIndex
      p == valPos[i][s] + 1
  IN  /\ update = "run"
      /\ outArchiveEna.thread
      /\ s \in known
      /\ added[s] < MaxValues
      /\ p <= CopySz
      /\ archiveData' = [archiveData EXCEPT ![i][s][p] = added[s] + 1]
      /\ valPos' = [valPos EXCEPT ![i][s] = p]
      /\ added' = [added EXCEPT ![s] = @ + 1]
      /\ update' = IF Full(p) THEN "handOver" ELSE "run"
      /\ UNCHANGED <<outArchiveEna, archiveIndex, known, save, disk, faults, toggled, hours>>

\* The same when the position is already at the end: the store goes past the
\* end of the vector, which is undefined.  Nothing is said of what follows.
AddValuePastEnd(s) ==
  /\ update = "run"
  /\ outArchiveEna.thread
  /\ s \in known
  /\ added[s] < MaxValues
  /\ valPos[archiveIndex][s] >= CopySz
  /\ update' = "undefined"
  /\ UNCHANGED <<outArchiveEna, archiveIndex, archiveData, valPos, known, save, disk,
                 added, faults, toggled, hours>>

\* TimerDelay::hourOnc in updateCycle.
HourOnce ==
  /\ update = "run"
  /\ outArchiveEna.thread
  /\ hours < MaxHours
  /\ hours' = hours + 1
  /\ update' = "handOver"
  /\ UNCHANGED <<outArchiveEna, archiveIndex, archiveData, valPos, known, save, disk,
                 added, faults, toggled>>

\* Bug: only a save thread that was never started is waited for.
NeverStarted == save.pc = "none"

\* The save thread of the last time can be joined, or there is none.
Joined == save.pc \in {"none", "ended"}

\* copyToDisk(false): join, start the save thread, change the buffer.
HandOver ==
  /\ update = "handOver"
  /\ Joined
  /\ save' = [pc |-> "keys", index |-> archiveIndex, todo |-> {}, block |-> NoBlock]
  /\ archiveIndex' = OtherBuffer(archiveIndex)
  /\ update' = "run"
  /\ UNCHANGED <<outArchiveEna, archiveData, valPos, known, disk, added, faults, toggled,
                 hours>>

\* The last buffer is saved only if saving is active.
AfterStop == IF outArchiveEna.thread THEN "lastJoin" ELSE "done"

\* updateCycle sees m_thrStop.
StopCycle ==
  /\ update = "run"
  /\ update' = AfterStop
  /\ UNCHANGED <<outArchiveEna, archiveIndex, archiveData, valPos, known, save, disk,
                 added, faults, toggled, hours>>

\* Bug: the buffer saved last is saved again.
SavedBefore == OtherBuffer(archiveIndex)

\* The buffer saved at a stop.
LastBuffer == archiveIndex

\* copyToDisk(true): join, then copyToDiskImpl in the update thread itself.
LastSave ==
  /\ update = "lastJoin"
  /\ Joined
  /\ save' = [pc |-> "keys", index |-> LastBuffer, todo |-> {}, block |-> NoBlock]
  /\ update' = "lastSave"
  /\ UNCHANGED <<outArchiveEna, archiveIndex, archiveData, valPos, known, disk, added,
                 faults, toggled, hours>>

LastSaveReturns ==
  /\ update = "lastSave"
  /\ save.pc = "ended"
  /\ save' = [save EXCEPT !.pc = "none"]
  /\ update' = "done"
  /\ UNCHANGED <<outArchiveEna, archiveIndex, archiveData, valPos, known, disk, added,
                 faults, toggled, hours>>

\* The update thread has ended and ~Archive runs: destroying the handle of a
\* save thread that was not joined ends the program.
Destroy ==
  /\ update = "done"
  /\ update' = IF save.pc = "none" THEN "destroyed" ELSE "terminated"
  /\ UNCHANGED <<outArchiveEna, archiveIndex, archiveData, valPos, known, save, disk,
                 added, faults, toggled, hours>>

-----------------------------------------------------------------------------
(* copyToDiskImpl, in the save thread, or in the update thread at a stop.  *)

\* The keys of the buffer are copied under m_mtx.
CopyKeys ==
  /\ save.pc = "keys"
  /\ save' = [save EXCEPT !.todo = known,
                          !.pc = CASE known = {}                -> "ended"
                                   [] ~outArchiveEna.archive    -> "reset"
                                   [] OTHER                     -> "open"]
  /\ UNCHANGED <<outArchiveEna, archiveIndex, archiveData, valPos, known, update, disk,
                 added, faults, toggled, hours>>

OpenFile ==
  /\ save.pc = "open"
  /\ save' = [save EXCEPT !.pc = "collect"]
  /\ UNCHANGED <<outArchiveEna, archiveIndex, archiveData, valPos, known, update, disk,
                 added, faults, toggled, hours>>

\* Bug: a save that fails drops what it was to save.
DropHeld == [valPos EXCEPT ![save.index] = [s \in Signals |-> 0]]

\* A save that fails leaves the positions of its buffer as they are.
KeepHeld == valPos

OpenFails ==
  /\ save.pc = "open"
  /\ faults < MaxFaults
  /\ faults' = faults + 1
  /\ save' = [save EXCEPT !.pc = "ended"]
  /\ valPos' = KeepHeld
  /\ UNCHANGED <<outArchiveEna, archiveIndex, archiveData, known, update, disk, added,
                 toggled, hours>>

\* The values of one signal go into the block, under m_mtx; a full block, or
\* the last one, is to be written.
Collect(s) ==
  LET block == [save.block EXCEPT ![s] = Held(save.index, s)]
      cnt   == Cardinality({t \in Signals : block[t] # <<>>})
      last  == save.todo = {s}
  IN  /\ save.pc = "collect"
      /\ s \in save.todo
      /\ save' = [save EXCEPT !.todo = @ \ {s},
                              !.block = block,
                              !.pc = IF cnt > 0 /\ (cnt = BlockMax \/ last) THEN "write"
                                     ELSE IF last THEN "reset" ELSE "collect"]
      /\ UNCHANGED <<outArchiveEna, archiveIndex, archiveData, valPos, known, update, disk,
                     added, faults, toggled, hours>>

WriteBlock ==
  /\ save.pc = "write"
  /\ disk' = [s \in Signals |-> disk[s] \o save.block[s]]
  /\ save' = [save EXCEPT !.block = NoBlock,
                          !.pc = IF save.todo = {} THEN "reset" ELSE "collect"]
  /\ UNCHANGED <<outArchiveEna, archiveIndex, archiveData, valPos, known, update, added,
                 faults, toggled, hours>>

\* compressData fails; blocks written before stay on the disk.
CompressFails ==
  /\ save.pc = "write"
  /\ faults < MaxFaults
  /\ faults' = faults + 1
  /\ save' = [save EXCEPT !.pc = "ended", !.block = NoBlock]
  /\ valPos' = KeepHeld
  /\ UNCHANGED <<outArchiveEna, archiveIndex, archiveData, known, update, disk, added,
                 toggled, hours>>

\* Bug: the positions are left as they are.
ResetNone == valPos

\* The buffer is empty again.
ResetAll == [valPos EXCEPT ![save.index] = [s \in Signals |-> 0]]

\* All positions of the buffer are reset under m_mtx, and the thread ends.
ResetPos ==
  /\ save.pc = "reset"
  /\ valPos' = ResetAll
  /\ save' = [save EXCEPT !.pc = "ended"]
  /\ UNCHANGED <<outArchiveEna, archiveIndex, archiveData, known, update, disk, added,
                 faults, toggled, hours>>

-----------------------------------------------------------------------------
\* The user changes the setting: ThreadUpdate::setArchiveConfig copies it,
\* Archive::setConfig does not.
SetConfig ==
  /\ toggled < MaxToggles
  /\ update \in {"run", "handOver"}
  /\ toggled' = toggled + 1
  /\ outArchiveEna' = [outArchiveEna EXCEPT !.thread = ~@]
  /\ UNCHANGED <<archiveIndex, archiveData, valPos, known, update, save, disk, added,
                 faults, hours>>

UpdateStep == HandOver \/ LastSave \/ LastSaveReturns \/ Destroy

SaveStep ==
  /\ update # "undefined"
  /\ \/ CopyKeys
     \/ OpenFile \/ OpenFails
     \/ \E s \in Signals : Collect(s)
     \/ WriteBlock \/ CompressFails
     \/ ResetPos

Next ==
  \/ \E s \in Signals : AddSignal(s) \/ AddValue(s) \/ AddValuePastEnd(s)
  \/ HourOnce
  \/ StopCycle
  \/ SetConfig
  \/ UpdateStep
  \/ SaveStep

\* Records, hours, settings and the stop come from outside; the two threads
\* run on.
Spec == Init /\ [][Next]_vars /\ WF_vars(UpdateStep) /\ WF_vars(SaveStep)
-----------------------------------------------------------------------------
(* Properties.                                                             *)

\* Every variable keeps to its range; a position never passes the end of its
\* buffer without the past-the-end store that sets "undefined".
TypeOK ==
  /\ outArchiveEna \in [thread : BOOLEAN, archive : BOOLEAN]
  /\ archiveIndex \in Buffers
  /\ archiveData \in [Buffers -> [Signals -> [1 .. CopySz -> 0 .. MaxValues]]]
  /\ valPos \in [Buffers -> [Signals -> 0 .. CopySz]]
  /\ known \subseteq Signals
  /\ update \in {"run", "handOver", "lastJoin", "lastSave", "done", "destroyed",
                 "terminated", "undefined"}
  /\ save \in [pc : {"none", "keys", "open", "collect", "write", "reset", "ended"},
               index : Buffers, todo : SUBSET Signals, block : [Signals -> Seq(Nat)]]
  /\ disk \in [Signals -> Seq(Nat)]
  /\ added \in [Signals -> 0 .. MaxValues]
  /\ faults \in 0 .. MaxFaults
  /\ toggled \in 0 .. MaxToggles
  /\ hours \in 0 .. MaxHours

ValuesOf(q) == {q[i] : i \in DOMAIN q}

\* A save that fails, at the first block or at a later one, loses nothing: what
\* it did not write is still in its buffer for the next save.
FailedSaveKeeps ==
  outArchiveEna.archive /\ update # "undefined" =>
    \A s \in Signals :
      1 .. added[s] = UNION {ValuesOf(disk[s]), ValuesOf(Held(0, s)), ValuesOf(Held(1, s))}

\* A stop with saving active leaves nothing behind in either buffer.
StopSavesAll ==
  update = "destroyed" /\ faults = 0 /\ outArchiveEna.thread /\ outArchiveEna.archive =>
    \A s \in Signals : disk[s] = [i \in 1 .. added[s] |-> i]

\* The files are the log of the values, in spite of two buffers that are saved
\* in turn, in blocks, by two threads.
Promise == INSTANCE SignalLog
             WITH accepted <- added,
                  log      <- disk,
                  failed   <- faults > 0 \/ ~outArchiveEna.archive

ImplementsLog == Promise!Spec
=============================================================================
