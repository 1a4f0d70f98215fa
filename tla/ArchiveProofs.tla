---------------------------- MODULE ArchiveProofs ----------------------------
(***************************************************************************)
(* Theorems about the archive, for any number of signals, any size of the  *)
(* buffers and of a block, and any number of values, failed saves, changes *)
(* of the setting and of the hour.                                         *)
(*                                                                         *)
(* The heart of the argument is Turn: a save that runs beside the update   *)
(* thread has the buffer that is not being filled.  Two things follow from *)
(* it.  What a save has not yet written is still in its buffer until it    *)
(* has written all (Collected), so a failure loses nothing.  And, before   *)
(* the first failure, disk, saved buffer and filled buffer follow each     *)
(* other without a gap (Contiguous), so the files are a log.               *)
(***************************************************************************)
EXTENDS Archive, FiniteSetTheorems, SequenceTheorems, TLAPS

-----------------------------------------------------------------------------
(* The inductive invariant.                                                *)

\* A save is under way.
Saving == save.pc \in {"keys", "open", "collect", "write", "reset"}

\* A save beside the update thread has the other buffer, the last one has the
\* buffer that was filled.
Turn ==
  /\ Saving => save.index = IF update = "lastSave" THEN archiveIndex
                                                   ELSE OtherBuffer(archiveIndex)
  /\ update = "lastSave" => save.pc # "none"
  /\ update = "destroyed" => save.pc = "none"

\* A signal that is not known has no values.
KnownOnly ==
  \A s \in Signals \ known : \A i \in Buffers : valPos[i][s] = 0

\* A block holds what its buffer holds of signals that are done with; the keys
\* were copied before, and of a signal that came later the buffer has nothing.
Blocks ==
  /\ save.pc \notin {"collect", "write"} => save.block = NoBlock
  /\ save.pc = "open" => \A s \in Signals \ save.todo : valPos[save.index][s] = 0
  /\ save.pc = "reset" /\ outArchiveEna.archive => save.todo = {}
  /\ save.pc \in {"collect", "write"} =>
       \A s \in Signals : /\ save.block[s] \in {<<>>, Held(save.index, s)}
                          /\ s \in save.todo => save.block[s] = <<>>

\* What a save has collected is in its block or on the disk.
Collected ==
  outArchiveEna.archive /\ save.pc \in {"collect", "write", "reset"} =>
    \A s \in Signals \ save.todo :
      \/ save.block[s] = Held(save.index, s)
      \/ ValuesOf(Held(save.index, s)) \subseteq ValuesOf(disk[s])

\* No save failed, and what is saved is written.
Sound == faults = 0 /\ outArchiveEna.archive

\* The part of signal s in the buffer being saved is on the disk already.
Written(s) ==
  save.pc \in {"collect", "write", "reset"} /\ s \notin save.todo /\ save.block[s] = <<>>

\* The first value in the buffer being filled, and in the other one, less one.
FilledFrom(s) == added[s] - valPos[archiveIndex][s]
SavedFrom(s)  == FilledFrom(s) - valPos[OtherBuffer(archiveIndex)][s]

\* The other buffer is empty when it is not being saved, and so is the filled one
\* after the last save.
Emptied ==
  Sound =>
    /\ ~Saving \/ update = "lastSave" =>
         \A s \in Signals : valPos[OtherBuffer(archiveIndex)][s] = 0
    /\ \/ update = "lastSave" /\ save.pc = "ended"
       \/ update \in {"done", "destroyed", "terminated"} /\ outArchiveEna.thread
       => \A s \in Signals : valPos[archiveIndex][s] = 0

\* Disk, other buffer and filled buffer follow each other without a gap.
Chain(s) ==
  /\ \A p \in 1 .. valPos[archiveIndex][s] :
       archiveData[archiveIndex][s][p] = FilledFrom(s) + p
  /\ \A p \in 1 .. valPos[OtherBuffer(archiveIndex)][s] :
       archiveData[OtherBuffer(archiveIndex)][s][p] = SavedFrom(s) + p
  /\ \A i \in 1 .. Len(disk[s]) : disk[s][i] = i
  /\ Len(disk[s]) = SavedFrom(s) + (IF Written(s) THEN valPos[save.index][s] ELSE 0)

Contiguous == Sound => \A s \in Signals : Chain(s)

IInv ==
  /\ TypeOK
  /\ Turn
  /\ KnownOnly
  /\ Blocks
  /\ Collected
  /\ FailedSaveKeeps
  /\ Emptied
  /\ Contiguous

-----------------------------------------------------------------------------
(* Type correctness.                                                       *)

\* Each of the two buffers follows the other.
LEMMA OtherFacts ==
  ASSUME NEW i \in Buffers
  PROVE  OtherBuffer(i) \in Buffers /\ OtherBuffer(i) # i /\ OtherBuffer(OtherBuffer(i)) = i
BY DEF Buffers, OtherBuffer

\* What a buffer holds of a signal: the first so many values of its vector.
LEMMA HeldFacts ==
  ASSUME TypeOK, NEW i \in Buffers, NEW s \in Signals
  PROVE  /\ valPos[i][s] \in 0 .. CopySz
         /\ Held(i, s) \in Seq(Nat)
         /\ Len(Held(i, s)) = valPos[i][s]
         /\ \A p \in 1 .. valPos[i][s] : Held(i, s)[p] = archiveData[i][s][p]
<1>1. valPos[i][s] \in 0 .. CopySz /\ archiveData[i][s] \in [1 .. CopySz -> 0 .. MaxValues]
  BY DEF TypeOK
<1>2. \A p \in 1 .. valPos[i][s] : archiveData[i][s][p] \in Nat
  BY <1>1, ArchiveAssumption
<1>. QED BY <1>1, <1>2, ArchiveAssumption, SubSeqProperties DEF Held

\* Positions stay in the buffers, and indices between 0 and 1.
THEOREM TypeCorrect == Spec => []TypeOK
<1>1. Init => TypeOK
  BY ArchiveAssumption DEF Init, TypeOK, NoBlock, Buffers
<1>2. TypeOK /\ [Next]_vars => TypeOK'
  <2>. SUFFICES ASSUME TypeOK, [Next]_vars PROVE TypeOK'
    OBVIOUS
  <2>. USE ArchiveAssumption DEF TypeOK
  <2>1. ASSUME NEW s \in Signals, AddSignal(s) PROVE TypeOK'
    BY <2>1 DEF AddSignal
  <2>2. ASSUME NEW s \in Signals, AddValue(s) PROVE TypeOK'
    <3>1. /\ archiveIndex \in Buffers
          /\ valPos[archiveIndex][s] + 1 \in 1 .. CopySz
          /\ added[s] + 1 \in 0 .. MaxValues
      BY <2>2, SMTT(60) DEF AddValue
    <3>2. archiveData' \in [Buffers -> [Signals -> [1 .. CopySz -> 0 .. MaxValues]]]
      <4>1. [archiveData[archiveIndex][s] EXCEPT ![valPos[archiveIndex][s] + 1] = added[s] + 1]
              \in [1 .. CopySz -> 0 .. MaxValues]
        BY <3>1, SMTT(60)
      <4>. QED BY <2>2, <3>1, <4>1 DEF AddValue
    <3>3. valPos' \in [Buffers -> [Signals -> 0 .. CopySz]]
      BY <2>2, <3>1, SMTT(60) DEF AddValue
    <3>4. added' \in [Signals -> 0 .. MaxValues]
      BY <2>2, <3>1 DEF AddValue
    <3>. QED BY <2>2, <3>2, <3>3, <3>4 DEF AddValue
  <2>3. ASSUME NEW s \in Signals, AddValuePastEnd(s) PROVE TypeOK'
    BY <2>3 DEF AddValuePastEnd
  <2>4. CASE HourOnce
    BY <2>4 DEF HourOnce
  <2>5. CASE StopCycle
    BY <2>5 DEF StopCycle, AfterStop
  <2>6. CASE SetConfig
    <3>1. toggled' \in 0 .. MaxToggles
      BY <2>6 DEF SetConfig
    <3>2. outArchiveEna' \in [thread : BOOLEAN, archive : BOOLEAN]
      BY <2>6 DEF SetConfig
    <3>. QED BY <2>6, <3>1, <3>2 DEF SetConfig
  <2>7. CASE HandOver
    BY <2>7, OtherFacts, SMTT(60) DEF HandOver, NoBlock
  <2>8. CASE LastSave
    BY <2>8 DEF LastSave, LastBuffer, NoBlock
  <2>9. CASE LastSaveReturns
    BY <2>9 DEF LastSaveReturns
  <2>10. CASE Destroy
    BY <2>10 DEF Destroy
  <2>11. CASE CopyKeys
    BY <2>11 DEF CopyKeys
  <2>12. CASE OpenFile
    BY <2>12 DEF OpenFile
  <2>13. CASE OpenFails
    <3>1. faults' \in 0 .. MaxFaults
      BY <2>13 DEF OpenFails
    <3>. QED BY <2>13, <3>1 DEF OpenFails, KeepHeld
  <2>14. ASSUME NEW s \in Signals, Collect(s) PROVE TypeOK'
    <3>1. Held(save.index, s) \in Seq(Nat)
      BY HeldFacts
    <3>. QED BY <2>14, <3>1 DEF Collect
  <2>15. CASE WriteBlock
    <3>1. \A s \in Signals : disk[s] \o save.block[s] \in Seq(Nat)
      OBVIOUS
    <3>2. disk' \in [Signals -> Seq(Nat)]
      BY <2>15, <3>1 DEF WriteBlock
    <3>3. NoBlock \in [Signals -> Seq(Nat)]
      BY DEF NoBlock
    <3>. QED BY <2>15, <3>2, <3>3 DEF WriteBlock
  <2>16. CASE CompressFails
    <3>1. faults' \in 0 .. MaxFaults
      BY <2>16 DEF CompressFails
    <3>2. NoBlock \in [Signals -> Seq(Nat)]
      BY DEF NoBlock
    <3>. QED BY <2>16, <3>1, <3>2 DEF CompressFails, KeepHeld
  <2>17. CASE ResetPos
    <3>1. valPos' \in [Buffers -> [Signals -> 0 .. CopySz]]
      <4>. [s \in Signals |-> 0] \in [Signals -> 0 .. CopySz]
        OBVIOUS
      <4>. QED BY <2>17 DEF ResetPos, ResetAll
    <3>. QED BY <2>17, <3>1 DEF ResetPos
  <2>18. CASE UNCHANGED vars
    BY <2>18 DEF vars
  <2>. QED BY <2>1, <2>2, <2>3, <2>4, <2>5, <2>6, <2>7, <2>8, <2>9, <2>10, <2>11, <2>12,
              <2>13, <2>14, <2>15, <2>16, <2>17, <2>18 DEF Next, UpdateStep, SaveStep
<1>. QED BY <1>1, <1>2, PTL DEF Spec

-----------------------------------------------------------------------------
\* Steps preserve the invariant.

\* A step that moves no value loses none.
LEMMA NoValueMoves ==
  ASSUME FailedSaveKeeps, update = "undefined" => update' = "undefined",
         UNCHANGED <<archiveData, valPos, disk, added>>,
         outArchiveEna'.archive = outArchiveEna.archive
  PROVE  FailedSaveKeeps'
<1>1. ASSUME NEW i \in Buffers, NEW s \in Signals
      PROVE  ValuesOf(Held(i, s))' = ValuesOf(Held(i, s))
  BY DEF Held, ValuesOf
<1>2. \A s \in Signals : ValuesOf(disk[s])' = ValuesOf(disk[s])
  BY DEF ValuesOf
<1>. QED BY <1>1, <1>2 DEF FailedSaveKeeps, Buffers

\* Neither does it change what the save under way has collected.
LEMMA NoSaveMoves ==
  ASSUME Collected, UNCHANGED <<archiveData, valPos, disk, save>>,
         outArchiveEna'.archive = outArchiveEna.archive
  PROVE  Collected'
<1>1. \A s \in Signals : Held(save.index, s)' = Held(save.index, s)
  BY DEF Held
<1>2. \A s \in Signals : /\ ValuesOf(Held(save.index, s))' = ValuesOf(Held(save.index, s))
                         /\ ValuesOf(disk[s])' = ValuesOf(disk[s])
  BY <1>1 DEF ValuesOf
<1>. QED BY <1>1, <1>2 DEF Collected

\* Nor does it tear disk and buffers apart.
LEMMA ChainStays ==
  ASSUME NEW s \in Signals, Chain(s),
         UNCHANGED <<archiveIndex, archiveData, valPos, disk, added>>,
         (IF Written(s) THEN valPos[save.index][s] ELSE 0)'
           = IF Written(s) THEN valPos[save.index][s] ELSE 0
  PROVE  Chain(s)'
BY DEF Chain, SavedFrom, FilledFrom

\* The values of a sequence that grows.
LEMMA ValuesOfLonger ==
  ASSUME NEW q \in Seq(Nat), NEW r \in Seq(Nat), Len(r) = Len(q) + 1,
         \A j \in 1 .. Len(q) : r[j] = q[j]
  PROVE  ValuesOf(r) = ValuesOf(q) \cup {r[Len(r)]}
<1>1. DOMAIN q = 1 .. Len(q) /\ DOMAIN r = 1 .. Len(r) /\ Len(q) \in Nat
  OBVIOUS
<1>2. 1 .. Len(r) = (1 .. Len(q)) \cup {Len(r)}
  BY <1>1
<1>. QED BY <1>1, <1>2 DEF ValuesOf

\* The values of two sequences put together.
LEMMA ValuesOfConcat ==
  ASSUME NEW q \in Seq(Nat), NEW r \in Seq(Nat)
  PROVE  ValuesOf(q \o r) = ValuesOf(q) \cup ValuesOf(r)
<1>1. /\ q \o r \in Seq(Nat) /\ Len(q \o r) = Len(q) + Len(r)
      /\ Len(q) \in Nat /\ Len(r) \in Nat
      /\ DOMAIN q = 1 .. Len(q) /\ DOMAIN r = 1 .. Len(r)
      /\ DOMAIN (q \o r) = 1 .. Len(q) + Len(r)
  OBVIOUS
<1>2. /\ \A j \in 1 .. Len(q) : (q \o r)[j] = q[j]
      /\ \A j \in 1 .. Len(r) : (q \o r)[Len(q) + j] = r[j]
  BY <1>1
<1>3. ASSUME NEW j \in 1 .. Len(q) + Len(r)
      PROVE  (q \o r)[j] \in ValuesOf(q) \cup ValuesOf(r)
  <2>1. CASE j <= Len(q)
    <3>. j \in 1 .. Len(q)
      BY <1>1, <2>1
    <3>. QED BY <1>1, <1>2 DEF ValuesOf
  <2>2. CASE ~(j <= Len(q))
    <3>. j - Len(q) \in 1 .. Len(r) /\ j = Len(q) + (j - Len(q))
      BY <1>1, <2>2
    <3>. QED BY <1>1, <1>2 DEF ValuesOf
  <2>. QED BY <2>1, <2>2
<1>4. ASSUME NEW j \in 1 .. Len(q) PROVE q[j] \in ValuesOf(q \o r)
  <2>. j \in 1 .. Len(q) + Len(r)
    BY <1>1
  <2>. QED BY <1>1, <1>2 DEF ValuesOf
<1>5. ASSUME NEW j \in 1 .. Len(r) PROVE r[j] \in ValuesOf(q \o r)
  <2>. Len(q) + j \in 1 .. Len(q) + Len(r)
    BY <1>1
  <2>. QED BY <1>1, <1>2 DEF ValuesOf
<1>6. ValuesOf(q \o r) \subseteq ValuesOf(q) \cup ValuesOf(r)
  BY <1>1, <1>3 DEF ValuesOf
<1>7. ValuesOf(q) \cup ValuesOf(r) \subseteq ValuesOf(q \o r)
  BY <1>1, <1>4, <1>5 DEF ValuesOf
<1>. QED BY <1>6, <1>7

\* A signal that becomes known has no value anywhere yet.
LEMMA AddSignalInv ==
  ASSUME IInv, TypeOK', NEW s \in Signals, AddSignal(s)
  PROVE  IInv'
<1>. USE DEF IInv, AddSignal
<1>1. Turn'
  BY DEF TypeOK, Turn, Saving
<1>2. KnownOnly'
  BY DEF TypeOK, KnownOnly
<1>3. Blocks'
  BY DEF TypeOK, Blocks, Held, NoBlock
<1>4. Collected'
  BY NoSaveMoves
<1>5. FailedSaveKeeps'
  BY NoValueMoves
<1>6. Emptied'
  BY DEF TypeOK, Emptied, Saving, Sound
<1>7. Contiguous'
  <2>1. ASSUME NEW t \in Signals, Chain(t) PROVE Chain(t)'
    <3>. QED BY <2>1, ChainStays DEF TypeOK, KnownOnly, Blocks, Written
  <2>. QED BY <2>1 DEF Contiguous, Sound
<1>. QED BY <1>1, <1>2, <1>3, <1>4, <1>5, <1>6, <1>7

\* After a store past the end nothing more is done, and nothing of it is said.
LEMMA AddValuePastEndInv ==
  ASSUME IInv, TypeOK', NEW s \in Signals, AddValuePastEnd(s)
  PROVE  IInv'
<1>. USE DEF IInv, AddValuePastEnd
<1>1. Turn'
  BY DEF TypeOK, Turn, Saving
<1>2. KnownOnly'
  BY DEF TypeOK, KnownOnly
<1>3. Blocks'
  BY DEF TypeOK, Blocks, Held, NoBlock
<1>4. Collected'
  BY NoSaveMoves
<1>5. FailedSaveKeeps'
  BY DEF FailedSaveKeeps
<1>6. Emptied'
  BY DEF TypeOK, Emptied, Saving, Sound
<1>7. Contiguous'
  BY SMTT(60) DEF TypeOK, Contiguous, Sound, Chain, FilledFrom, SavedFrom, Written
<1>. QED BY <1>1, <1>2, <1>3, <1>4, <1>5, <1>6, <1>7

\* The hour only asks for a save.
LEMMA HourOnceInv ==
  ASSUME IInv, TypeOK', HourOnce
  PROVE  IInv'
<1>. USE DEF IInv, HourOnce
<1>1. Turn'
  BY DEF TypeOK, Turn, Saving
<1>2. KnownOnly'
  BY DEF TypeOK, KnownOnly
<1>3. Blocks'
  BY DEF TypeOK, Blocks, Held, NoBlock
<1>4. Collected'
  BY NoSaveMoves
<1>5. FailedSaveKeeps'
  BY NoValueMoves
<1>6. Emptied'
  BY DEF TypeOK, Emptied, Saving, Sound
<1>7. Contiguous'
  BY DEF TypeOK, Contiguous, Sound, Chain, FilledFrom, SavedFrom, Written
<1>. QED BY <1>1, <1>2, <1>3, <1>4, <1>5, <1>6, <1>7

\* The stop asks for the last save, if saving is active.
LEMMA StopCycleInv ==
  ASSUME IInv, TypeOK', StopCycle
  PROVE  IInv'
<1>. USE DEF IInv, StopCycle, AfterStop
<1>1. Turn'
  BY DEF TypeOK, Turn, Saving
<1>2. KnownOnly'
  BY DEF TypeOK, KnownOnly
<1>3. Blocks'
  BY DEF TypeOK, Blocks, Held, NoBlock
<1>4. Collected'
  BY NoSaveMoves
<1>5. FailedSaveKeeps'
  BY NoValueMoves
<1>6. Emptied'
  BY DEF TypeOK, Emptied, Saving, Sound
<1>7. Contiguous'
  BY DEF TypeOK, Contiguous, Sound, Chain, FilledFrom, SavedFrom, Written
<1>. QED BY <1>1, <1>2, <1>3, <1>4, <1>5, <1>6, <1>7

\* The update thread's setting is not the archive's.
LEMMA SetConfigInv ==
  ASSUME IInv, TypeOK', SetConfig
  PROVE  IInv'
<1>. USE DEF IInv, SetConfig
<1>1. Turn'
  BY DEF TypeOK, Turn, Saving
<1>2. KnownOnly'
  BY DEF TypeOK, KnownOnly
<1>3. Blocks'
  BY DEF TypeOK, Blocks, Held, NoBlock
<1>4. Collected'
  BY NoSaveMoves
<1>5. FailedSaveKeeps'
  BY NoValueMoves
<1>6. Emptied'
  BY DEF TypeOK, Emptied, Saving, Sound
<1>7. Contiguous'
  BY DEF TypeOK, Contiguous, Sound, Chain, FilledFrom, SavedFrom, Written
<1>. QED BY <1>1, <1>2, <1>3, <1>4, <1>5, <1>6, <1>7

\* The full buffer and the emptied one change their parts.
LEMMA HandOverInv ==
  ASSUME IInv, TypeOK', HandOver
  PROVE  IInv'
<1>. USE DEF IInv, HandOver, Joined
<1>1. Turn'
  BY OtherFacts DEF TypeOK, Turn, Saving
<1>2. KnownOnly'
  BY DEF TypeOK, KnownOnly
<1>3. Blocks'
  BY DEF TypeOK, Blocks, Held, NoBlock
<1>4. Collected'
  BY DEF TypeOK, Collected
<1>5. FailedSaveKeeps'
  BY NoValueMoves
<1>6. Emptied'
  BY OtherFacts DEF TypeOK, Emptied, Saving, Sound
<1>7. Contiguous'
  <2>1. ASSUME NEW s \in Signals, Sound, Chain(s) PROVE Chain(s)'
    <3>1. /\ ~Written(s) /\ ~Written(s)'
          /\ valPos[OtherBuffer(archiveIndex)][s] = 0
      BY <2>1 DEF Written, Emptied, Saving
    <3>2. /\ archiveIndex' = OtherBuffer(archiveIndex)
          /\ OtherBuffer(archiveIndex)' = archiveIndex
      BY OtherFacts DEF TypeOK
    <3>3. added[s] \in Nat /\ valPos[archiveIndex][s] \in Nat
      BY DEF TypeOK
    <3>. QED BY <2>1, <3>1, <3>2, <3>3 DEF Chain, FilledFrom, SavedFrom
  <2>. QED BY <2>1 DEF Contiguous, Sound
<1>. QED BY <1>1, <1>2, <1>3, <1>4, <1>5, <1>6, <1>7

\* The last save has the buffer that was filled; the other one is empty by then.
LEMMA LastSaveInv ==
  ASSUME IInv, TypeOK', LastSave
  PROVE  IInv'
<1>. USE DEF IInv, LastSave, Joined, LastBuffer
<1>1. Turn'
  BY DEF TypeOK, Turn, Saving
<1>2. KnownOnly'
  BY DEF TypeOK, KnownOnly
<1>3. Blocks'
  BY DEF TypeOK, Blocks, Held, NoBlock
<1>4. Collected'
  BY DEF TypeOK, Collected
<1>5. FailedSaveKeeps'
  BY NoValueMoves
<1>6. Emptied'
  BY DEF TypeOK, Emptied, Saving, Sound
<1>7. Contiguous'
  BY DEF TypeOK, Contiguous, Sound, Chain, FilledFrom, SavedFrom, Written
<1>. QED BY <1>1, <1>2, <1>3, <1>4, <1>5, <1>6, <1>7

\* The last save is over: both buffers are empty, if nothing failed.
LEMMA LastSaveReturnsInv ==
  ASSUME IInv, TypeOK', LastSaveReturns
  PROVE  IInv'
<1>. USE DEF IInv, LastSaveReturns
<1>1. Turn'
  BY DEF TypeOK, Turn, Saving
<1>2. KnownOnly'
  BY DEF TypeOK, KnownOnly
<1>3. Blocks'
  BY DEF TypeOK, Blocks, Held, NoBlock
<1>4. Collected'
  BY DEF TypeOK, Collected
<1>5. FailedSaveKeeps'
  BY NoValueMoves
<1>6. Emptied'
  BY DEF TypeOK, Emptied, Saving, Sound
<1>7. Contiguous'
  BY DEF TypeOK, Contiguous, Sound, Chain, FilledFrom, SavedFrom, Written
<1>. QED BY <1>1, <1>2, <1>3, <1>4, <1>5, <1>6, <1>7

\* The end of the thread's handle moves no value.
LEMMA DestroyInv ==
  ASSUME IInv, TypeOK', Destroy
  PROVE  IInv'
<1>. USE DEF IInv, Destroy
<1>1. Turn'
  BY DEF TypeOK, Turn, Saving
<1>2. KnownOnly'
  BY DEF TypeOK, KnownOnly
<1>3. Blocks'
  BY DEF TypeOK, Blocks, Held, NoBlock
<1>4. Collected'
  BY NoSaveMoves
<1>5. FailedSaveKeeps'
  BY NoValueMoves
<1>6. Emptied'
  BY DEF TypeOK, Emptied, Saving, Sound
<1>7. Contiguous'
  BY DEF TypeOK, Contiguous, Sound, Chain, FilledFrom, SavedFrom, Written
<1>. QED BY <1>1, <1>2, <1>3, <1>4, <1>5, <1>6, <1>7

\* Signals without a key in the list have nothing in the buffer.
LEMMA OpenFileInv ==
  ASSUME IInv, TypeOK', OpenFile
  PROVE  IInv'
<1>. USE DEF IInv, OpenFile
<1>1. Turn'
  BY DEF TypeOK, Turn, Saving
<1>2. KnownOnly'
  BY DEF TypeOK, KnownOnly
<1>3. Blocks'
  BY DEF TypeOK, Blocks, Held, NoBlock
<1>4. Collected'
  <2>1. ASSUME NEW s \in Signals \ save'.todo
        PROVE  ValuesOf(Held(save.index, s))' = {}
    <3>1. valPos[save.index][s] = 0 /\ save.index \in Buffers
      BY DEF Blocks, TypeOK
    <3>. QED BY <3>1, SubSeqEmpty DEF ValuesOf, Held
  <2>. QED BY <2>1 DEF Collected
<1>5. FailedSaveKeeps'
  BY NoValueMoves
<1>6. Emptied'
  BY DEF TypeOK, Emptied, Saving, Sound
<1>7. Contiguous'
  <2>1. ASSUME NEW s \in Signals, Chain(s) PROVE Chain(s)'
    <3>. QED BY <2>1, ChainStays DEF TypeOK, KnownOnly, Blocks, Written
  <2>. QED BY <2>1 DEF Contiguous, Sound
<1>. QED BY <1>1, <1>2, <1>3, <1>4, <1>5, <1>6, <1>7

\* The keys are those of all signals with values.
LEMMA CopyKeysInv ==
  ASSUME IInv, TypeOK', CopyKeys
  PROVE  IInv'
<1>. USE DEF IInv, CopyKeys
<1>1. Turn'
  BY DEF TypeOK, Turn, Saving
<1>2. KnownOnly'
  BY DEF TypeOK, KnownOnly
<1>3. Blocks'
  BY ZenonT(60) DEF TypeOK, KnownOnly, Blocks
<1>4. Collected'
  BY DEF TypeOK, Collected
<1>5. FailedSaveKeeps'
  BY NoValueMoves
<1>6. Emptied'
  BY OtherFacts DEF TypeOK, KnownOnly, Emptied, Saving, Sound
<1>7. Contiguous'
  <2>1. ASSUME NEW s \in Signals, Chain(s) PROVE Chain(s)'
    <3>. QED BY <2>1, ChainStays, ZenonT(60) DEF TypeOK, KnownOnly, Blocks, Written
  <2>. QED BY <2>1 DEF Contiguous, Sound
<1>. QED BY <1>1, <1>2, <1>3, <1>4, <1>5, <1>6, <1>7

\* A value goes into the buffer that is not being saved.
LEMMA AddValueInv ==
  ASSUME IInv, TypeOK', NEW s \in Signals, AddValue(s)
  PROVE  IInv'
<1>0. PICK i \in Buffers : i = archiveIndex
  BY DEF IInv, TypeOK
<1>1. PICK p \in 1 .. CopySz :
        /\ OtherBuffer(i) \in Buffers /\ OtherBuffer(i) # i
        /\ added[s] \in Nat /\ added[s] + 1 \in 0 .. MaxValues
        /\ update = "run" /\ s \in known
        /\ p \in Nat /\ valPos[i][s] = p - 1
        /\ valPos[OtherBuffer(i)][s] \in Nat
  <2>1. OtherBuffer(i) \in Buffers /\ OtherBuffer(i) # i
    BY OtherFacts
  <2>2. /\ valPos[i][s] \in 0 .. CopySz /\ valPos[OtherBuffer(i)][s] \in 0 .. CopySz
        /\ added[s] \in 0 .. MaxValues
    BY <2>1 DEF IInv, TypeOK
  <2>3. valPos[i][s] + 1 <= CopySz /\ added[s] < MaxValues /\ update = "run" /\ s \in known
    BY <1>0 DEF AddValue
  <2>4. /\ valPos[i][s] + 1 \in 1 .. CopySz /\ valPos[i][s] + 1 \in Nat
        /\ valPos[i][s] = (valPos[i][s] + 1) - 1
        /\ added[s] \in Nat /\ added[s] + 1 \in 0 .. MaxValues
        /\ valPos[OtherBuffer(i)][s] \in Nat
    BY <2>2, <2>3, ArchiveAssumption
  <2>. QED BY <2>1, <2>3, <2>4
<1>2. /\ valPos'[i][s] = p
      /\ \A j \in Buffers, t \in Signals : j # i \/ t # s => valPos'[j][t] = valPos[j][t]
  <2>1. valPos' = [valPos EXCEPT ![i][s] = p]
    <3>. valPos[i][s] + 1 = p
      BY <1>1
    <3>. QED BY <1>0 DEF AddValue
  <2>. QED BY <1>1, <2>1 DEF IInv, TypeOK
<1>3. /\ archiveData'[i][s][p] = added[s] + 1
      /\ \A q \in 1 .. CopySz : q # p => archiveData'[i][s][q] = archiveData[i][s][q]
      /\ \A j \in Buffers, t \in Signals :
           j # i \/ t # s => archiveData'[j][t] = archiveData[j][t]
  <2>1. archiveData' = [archiveData EXCEPT ![i][s][p] = added[s] + 1]
    <3>. valPos[i][s] + 1 = p
      BY <1>1
    <3>. QED BY <1>0 DEF AddValue
  <2>2. /\ archiveData \in [Buffers -> [Signals -> [1 .. CopySz -> 0 .. MaxValues]]]
    BY DEF IInv, TypeOK
  <2>3. archiveData[i][s] \in [1 .. CopySz -> 0 .. MaxValues]
    BY <1>1, <2>2
  <2>4. archiveData'[i][s] = [archiveData[i][s] EXCEPT ![p] = added[s] + 1]
    BY <1>1, <2>1, <2>2
  <2>. QED BY <1>1, <2>1, <2>2, <2>3, <2>4
<1>4. /\ added'[s] = added[s] + 1
      /\ \A t \in Signals : t # s => added'[t] = added[t]
  BY DEF AddValue, IInv, TypeOK
<1>5. UNCHANGED <<outArchiveEna, archiveIndex, known, save, disk, faults>>
  BY DEF AddValue
<1>6. Saving => save.index \in Buffers /\ save.index # i
  BY <1>0, <1>1 DEF IInv, Turn
<1>7. \A j \in Buffers, t \in Signals : j # i \/ t # s => Held(j, t)' = Held(j, t)
  BY <1>2, <1>3 DEF Held
<1>8. update' \in {"run", "handOver"}
  BY DEF AddValue
<1>9. Turn'
  BY <1>1, <1>5, <1>8 DEF IInv, Turn, Saving
<1>10. KnownOnly'
  BY <1>1, <1>2, <1>5 DEF IInv, KnownOnly
<1>11. Blocks'
  BY <1>2, <1>5, <1>6, <1>7 DEF IInv, Blocks, Saving, TypeOK
<1>12. Collected'
  <2>1. ASSUME NEW t \in Signals, save.pc \in {"collect", "write", "reset"}
        PROVE  /\ Held(save.index, t)' = Held(save.index, t)
               /\ ValuesOf(Held(save.index, t))' = ValuesOf(Held(save.index, t))
               /\ ValuesOf(disk[t])' = ValuesOf(disk[t])
    BY <1>5, <1>6, <1>7, <2>1 DEF Saving, ValuesOf
  <2>. QED BY <1>5, <2>1 DEF IInv, Collected
<1>13. FailedSaveKeeps'
  <2>. SUFFICES ASSUME outArchiveEna.archive, NEW t \in Signals
                PROVE  1 .. added'[t] = UNION {ValuesOf(disk'[t]), ValuesOf(Held(0, t)'),
                                               ValuesOf(Held(1, t)')}
    BY <1>5 DEF FailedSaveKeeps, ValuesOf
  <2>0. 1 .. added[t] = UNION {ValuesOf(disk[t]), ValuesOf(Held(0, t)), ValuesOf(Held(1, t))}
    BY <1>1 DEF IInv, FailedSaveKeeps
  <2>1. ValuesOf(disk'[t]) = ValuesOf(disk[t])
    BY <1>5
  <2>2. CASE t # s
    <3>1. \A j \in Buffers : ValuesOf(Held(j, t)') = ValuesOf(Held(j, t))
      BY <1>7, <2>2
    <3>. QED BY <1>4, <2>0, <2>1, <2>2, <3>1 DEF Buffers
  <2>3. CASE t = s
    <3>1. ValuesOf(Held(OtherBuffer(i), s)') = ValuesOf(Held(OtherBuffer(i), s))
      <4>1. Held(OtherBuffer(i), s)' = Held(OtherBuffer(i), s)
        BY <1>1, <1>7
      <4>. QED BY <4>1
    <3>2. ValuesOf(Held(i, s)') = ValuesOf(Held(i, s)) \cup {added[s] + 1}
      <4>1. /\ Held(i, s) \in Seq(Nat) /\ Len(Held(i, s)) = p - 1
            /\ \A q \in 1 .. p - 1 : Held(i, s)[q] = archiveData[i][s][q]
        <5>. TypeOK
          BY DEF IInv
        <5>. QED BY <1>1, HeldFacts
      <4>2. /\ Held(i, s)' \in Seq(Nat) /\ Len(Held(i, s)') = p
            /\ \A q \in 1 .. p : Held(i, s)'[q] = archiveData'[i][s][q]
        <5>1. \A q \in 1 .. p : archiveData'[i][s][q] \in Nat
          <6>1. archiveData'[i][s] \in [1 .. CopySz -> 0 .. MaxValues]
            BY <1>1 DEF TypeOK
          <6>. QED BY <1>1, <6>1, ArchiveAssumption
        <5>. QED BY <1>1, <1>2, <5>1, SubSeqProperties DEF Held
      <4>3. \A q \in 1 .. p - 1 : archiveData'[i][s][q] = archiveData[i][s][q]
        BY <1>1, <1>3, ArchiveAssumption
      <4>4. /\ Len(Held(i, s)') = Len(Held(i, s)) + 1
            /\ \A q \in 1 .. Len(Held(i, s)) : Held(i, s)'[q] = Held(i, s)[q]
        <5>1. Len(Held(i, s)) = p - 1 /\ Len(Held(i, s)') = p
          BY <4>1, <4>2
        <5>2. ASSUME NEW q \in 1 .. p - 1 PROVE Held(i, s)'[q] = Held(i, s)[q]
          <6>. q \in 1 .. p
            BY <1>1
          <6>. QED BY <4>1, <4>2, <4>3
        <5>. QED BY <1>1, <5>1, <5>2
      <4>5. Held(i, s)'[Len(Held(i, s)')] = added[s] + 1
        BY <1>1, <1>3, <4>2
      <4>. QED BY <4>1, <4>2, <4>4, <4>5, ValuesOfLonger
    <3>3. 1 .. added[s] + 1 = (1 .. added[s]) \cup {added[s] + 1}
      BY <1>1
    <3>4. CASE i = 0
      <4>. QED BY <1>4, <2>0, <2>1, <2>3, <3>1, <3>2, <3>3, <3>4 DEF OtherBuffer
    <3>5. CASE i = 1
      <4>. QED BY <1>4, <2>0, <2>1, <2>3, <3>1, <3>2, <3>3, <3>5 DEF OtherBuffer
    <3>. QED BY <1>1, <3>4, <3>5 DEF Buffers
  <2>. QED BY <2>2, <2>3
<1>14. Emptied'
  BY <1>0, <1>1, <1>2, <1>5, <1>8 DEF IInv, Emptied, Saving, Sound
<1>15. Contiguous'
  <2>. SUFFICES ASSUME Sound, NEW t \in Signals PROVE Chain(t)'
    BY <1>5 DEF Contiguous, Sound
  <2>1. Chain(t)
    BY DEF IInv, Contiguous
  <2>2. (IF Written(t) THEN valPos[save.index][t] ELSE 0)'
          = IF Written(t) THEN valPos[save.index][t] ELSE 0
    BY <1>2, <1>5, <1>6 DEF Written, Saving
  <2>3. CASE t # s
    BY <1>1, <1>2, <1>3, <1>0, <1>4, <1>5, <2>1, <2>2, <2>3 DEF Chain, FilledFrom, SavedFrom
  <2>4. CASE t = s
    <3>1. SavedFrom(s)' = SavedFrom(s) /\ FilledFrom(s)' = FilledFrom(s)
      <4>. QED BY <1>0, <1>1, <1>2, <1>4, <1>5 DEF FilledFrom, SavedFrom
    <3>2. ASSUME NEW q \in 1 .. p
          PROVE  archiveData'[i][s][q] = FilledFrom(s) + q
      <4>1. CASE q = p
        BY <1>0, <1>1, <1>3, <4>1 DEF FilledFrom
      <4>2. CASE q # p
        <5>. q \in 1 .. p - 1 /\ q \in 1 .. CopySz
          BY <1>1, <4>2, ArchiveAssumption
        <5>. QED BY <1>0, <1>1, <1>3, <2>1, <2>4, <4>2 DEF Chain
      <4>. QED BY <4>1, <4>2
    <3>. QED BY <1>0, <1>1, <1>2, <1>3, <1>5, <2>1, <2>2, <2>4, <3>1, <3>2 DEF Chain
  <2>. QED BY <2>3, <2>4
<1>. QED BY <1>9, <1>10, <1>11, <1>12, <1>13, <1>14, <1>15 DEF IInv

\* A file that does not open: the buffer stays as it is.
LEMMA OpenFailsInv ==
  ASSUME IInv, TypeOK', OpenFails, update # "undefined"
  PROVE  IInv'
<1>. USE DEF IInv, OpenFails, KeepHeld
<1>1. Turn' /\ KnownOnly'
  BY DEF TypeOK, Turn, KnownOnly, Saving
<1>2. Blocks' /\ Collected'
  BY DEF TypeOK, Blocks, Collected
<1>3. FailedSaveKeeps'
  BY NoValueMoves
<1>4. ~Sound'
  BY DEF TypeOK, Sound
<1>. QED BY <1>1, <1>2, <1>3, <1>4 DEF Emptied, Contiguous

\* A block that cannot be compressed: it is dropped, its buffer is not.
LEMMA CompressFailsInv ==
  ASSUME IInv, TypeOK', CompressFails, update # "undefined"
  PROVE  IInv'
<1>. USE DEF IInv, CompressFails, KeepHeld
<1>1. Turn' /\ KnownOnly'
  BY DEF TypeOK, Turn, KnownOnly, Saving
<1>2. Blocks' /\ Collected'
  BY DEF TypeOK, Blocks, Collected
<1>3. FailedSaveKeeps'
  BY NoValueMoves
<1>4. ~Sound'
  BY DEF TypeOK, Sound
<1>. QED BY <1>1, <1>2, <1>3, <1>4 DEF Emptied, Contiguous

\* The values of one more signal are in the block, and still in the buffer.
LEMMA CollectInv ==
  ASSUME IInv, TypeOK', NEW s \in Signals, Collect(s), update # "undefined"
  PROVE  IInv'
<1>. DEFINE block == [save.block EXCEPT ![s] = Held(save.index, s)]
            cnt   == Cardinality({t \in Signals : block[t] # <<>>})
            last  == save.todo = {s}
<1>1. /\ save.pc = "collect" /\ s \in save.todo
      /\ save'.index = save.index /\ save'.todo = save.todo \ {s} /\ save'.block = block
      /\ save'.pc = IF cnt > 0 /\ (cnt = BlockMax \/ last) THEN "write"
                    ELSE IF last THEN "reset" ELSE "collect"
      /\ UNCHANGED <<outArchiveEna, archiveIndex, archiveData, valPos, known, update, disk,
                     added, faults>>
  BY DEF Collect, IInv, TypeOK
<1>2. /\ save.block \in [Signals -> Seq(Nat)] /\ save.todo \subseteq Signals
      /\ save.index \in Buffers
  BY DEF IInv, TypeOK
<1>3. /\ block[s] = Held(save.index, s)
      /\ \A t \in Signals : t # s => block[t] = save.block[t]
  BY <1>2
<1>4. save'.pc = "reset" => block = NoBlock
  <2>. SUFFICES ASSUME save'.pc = "reset" PROVE \A t \in Signals : block[t] = <<>>
    BY <1>2 DEF NoBlock
  <2>1. IsFiniteSet({t \in Signals : block[t] # <<>>})
    BY ArchiveAssumption, FS_Subset
  <2>2. cnt \in Nat /\ ~(cnt > 0)
    BY <1>1, <2>1, FS_CardinalityType
  <2>3. {t \in Signals : block[t] # <<>>} = {}
    BY <2>1, <2>2, FS_EmptySet
  <2>. QED BY <2>3
<1>5. \A t \in Signals : Held(save.index, t)' = Held(save.index, t)
  BY <1>1 DEF Held
<1>. HIDE DEF block, cnt
<1>6. Turn' /\ KnownOnly'
  BY <1>1 DEF IInv, Turn, KnownOnly, Saving
<1>7. Blocks'
  <2>1. ASSUME NEW t \in Signals
        PROVE  /\ block[t] \in {<<>>, Held(save.index, t)}
               /\ t \in save'.todo => block[t] = <<>>
    BY <1>1, <1>3 DEF IInv, Blocks
  <2>2. save'.pc = "reset" => save'.todo = {}
    BY <1>1
  <2>. QED BY <1>1, <1>4, <1>5, <2>1, <2>2 DEF Blocks
<1>8. Collected'
  <2>1. ASSUME NEW t \in Signals
        PROVE  ValuesOf(Held(save.index, t))' = ValuesOf(Held(save.index, t))
    BY <1>1, <1>5 DEF ValuesOf
  <2>2. ASSUME NEW t \in Signals
        PROVE  ValuesOf(disk[t])' = ValuesOf(disk[t])
    BY <1>1 DEF ValuesOf
  <2>. QED BY <1>1, <1>3, <1>5, <2>1, <2>2 DEF IInv, Collected
<1>9. FailedSaveKeeps'
  BY <1>1, NoValueMoves DEF IInv
<1>10. Emptied'
  BY <1>1 DEF IInv, Emptied, Saving, Sound
<1>11. Contiguous'
  <2>1. ASSUME NEW t \in Signals, Chain(t) PROVE Chain(t)'
    <3>1. (IF Written(t) THEN valPos[save.index][t] ELSE 0)'
             = IF Written(t) THEN valPos[save.index][t] ELSE 0
      <4>1. CASE t # s
        BY <1>1, <1>3, <4>1 DEF Written
      <4>2. CASE t = s
        <5>1. ~Written(s)
          BY <1>1 DEF Written
        <5>2. block[s] = <<>> => valPos[save.index][s] = 0
          <6>1. TypeOK /\ Len(<<>>) = 0
            BY DEF IInv
          <6>2. Len(Held(save.index, s)) = valPos[save.index][s]
            BY <1>2, <6>1, HeldFacts
          <6>. QED BY <1>3, <6>1, <6>2
        <5>. QED BY <1>1, <4>2, <5>1, <5>2 DEF Written
      <4>. QED BY <4>1, <4>2
    <3>. QED BY <1>1, <2>1, <3>1, ChainStays
  <2>. QED BY <1>1, <2>1 DEF IInv, Contiguous, Sound
<1>. QED BY <1>6, <1>7, <1>8, <1>9, <1>10, <1>11 DEF IInv

\* What is written was in the block, and stays in the buffer until all is.
LEMMA WriteBlockInv ==
  ASSUME IInv, TypeOK', WriteBlock, update # "undefined"
  PROVE  IInv'
<1>1. /\ save.pc = "write"
      /\ save'.index = save.index /\ save'.todo = save.todo /\ save'.block = NoBlock
      /\ save'.pc = IF save.todo = {} THEN "reset" ELSE "collect"
      /\ \A s \in Signals : disk'[s] = disk[s] \o save.block[s]
      /\ UNCHANGED <<outArchiveEna, archiveIndex, archiveData, valPos, known, update, added,
                     faults>>
  BY DEF WriteBlock, IInv, TypeOK
<1>2. /\ save.block \in [Signals -> Seq(Nat)] /\ save.todo \subseteq Signals
      /\ save.index \in Buffers /\ disk \in [Signals -> Seq(Nat)]
  BY DEF IInv, TypeOK
<1>3. \A s \in Signals : /\ Held(save.index, s)' = Held(save.index, s)
                         /\ NoBlock[s] = <<>>
  BY <1>1 DEF Held, NoBlock
<1>4. \A s \in Signals :
        /\ save.block[s] \in {<<>>, Held(save.index, s)}
        /\ s \in save.todo => save.block[s] = <<>>
  BY <1>1 DEF IInv, Blocks
<1>5. \A s \in Signals : ValuesOf(disk'[s]) = ValuesOf(disk[s]) \cup ValuesOf(save.block[s])
  BY <1>1, <1>2, ValuesOfConcat
<1>6. Turn' /\ KnownOnly'
  BY <1>1 DEF IInv, Turn, KnownOnly, Saving
<1>7. Blocks'
  BY <1>1, <1>3 DEF Blocks
<1>8. Collected'
  <2>1. ASSUME NEW s \in Signals, outArchiveEna.archive, s \notin save.todo
        PROVE  ValuesOf(Held(save.index, s)) \subseteq ValuesOf(disk'[s])
    BY <1>1, <1>5, <2>1 DEF IInv, Collected
  <2>2. ASSUME NEW s \in Signals
        PROVE  /\ ValuesOf(Held(save.index, s))' = ValuesOf(Held(save.index, s))
               /\ ValuesOf(disk[s])' = ValuesOf(disk'[s])
    BY <1>1, <1>3 DEF ValuesOf
  <2>. QED BY <1>1, <2>1, <2>2 DEF Collected
<1>9. FailedSaveKeeps'
  <2>1. ASSUME NEW s \in Signals
        PROVE  \/ ValuesOf(disk'[s]) = ValuesOf(disk[s])
               \/ ValuesOf(disk'[s]) = ValuesOf(disk[s]) \cup ValuesOf(Held(save.index, s))
    <3>. ValuesOf(<<>>) = {}
      BY DEF ValuesOf
    <3>. QED BY <1>4, <1>5
  <2>2. ASSUME NEW s \in Signals, NEW i \in Buffers
        PROVE  ValuesOf(Held(i, s))' = ValuesOf(Held(i, s))
    BY <1>1 DEF Held, ValuesOf
  <2>3. ASSUME NEW s \in Signals
        PROVE  ValuesOf(disk[s])' = ValuesOf(disk'[s])
    BY DEF ValuesOf
  <2>. SUFFICES ASSUME outArchiveEna.archive, NEW s \in Signals
                PROVE  1 .. added[s] = UNION {ValuesOf(disk'[s]), ValuesOf(Held(0, s)),
                                              ValuesOf(Held(1, s))}
    BY <1>1, <2>2, <2>3 DEF FailedSaveKeeps, Buffers
  <2>4. 1 .. added[s] = UNION {ValuesOf(disk[s]), ValuesOf(Held(0, s)), ValuesOf(Held(1, s))}
    BY <1>1 DEF IInv, FailedSaveKeeps
  <2>5. ValuesOf(Held(save.index, s)) \subseteq ValuesOf(Held(0, s)) \cup ValuesOf(Held(1, s))
    <3>1. CASE save.index = 0
      BY <3>1
    <3>2. CASE save.index = 1
      BY <3>2
    <3>. QED BY <1>2, <3>1, <3>2 DEF Buffers
  <2>. QED BY <2>1, <2>4, <2>5
<1>10. Emptied'
  BY <1>1 DEF IInv, Emptied, Saving, Sound
<1>11. Contiguous'
  <2>. SUFFICES ASSUME Sound, NEW s \in Signals PROVE Chain(s)'
    BY <1>1 DEF Contiguous, Sound
  <2>1. Chain(s)
    BY DEF IInv, Contiguous
  <2>2. CASE save.block[s] = <<>>
    <3>1. disk'[s] = disk[s]
      BY <1>1, <1>2, <2>2, ConcatEmptySeq
    <3>2. Written(s)' = Written(s)
      BY <1>1, <1>3, <2>2 DEF Written
    <3>. QED BY <1>1, <2>1, <3>1, <3>2 DEF Chain, FilledFrom, SavedFrom
  <2>3. CASE save.block[s] # <<>>
    <3>1. PICK i \in Buffers : i = save.index
      BY <1>2
    <3>2. /\ save.block[s] = Held(i, s) /\ s \notin save.todo
          /\ Len(Held(i, s)) = valPos[i][s]
          /\ \A p \in 1 .. valPos[i][s] : Held(i, s)[p] = archiveData[i][s][p]
          /\ valPos[i][s] \in Nat
      BY <1>4, <2>3, <3>1, HeldFacts DEF IInv
    <3>3. ~Written(s) /\ Written(s)'
      BY <1>1, <1>3, <2>3, <3>2 DEF Written
    <3>4. /\ Len(disk[s]) = SavedFrom(s) /\ Len(disk[s]) \in Nat
          /\ \A p \in 1 .. valPos[i][s] : archiveData[i][s][p] = SavedFrom(s) + p
      <4>1. Len(disk[s]) = SavedFrom(s) /\ Len(disk[s]) \in Nat
        <5>1. disk[s] \in Seq(Nat)
          BY <1>2
        <5>2. added[s] \in Nat /\ \A j \in Buffers : valPos[j][s] \in Nat
          BY DEF IInv, TypeOK
        <5>3. SavedFrom(s) \in Int
          <6>. archiveIndex \in Buffers /\ OtherBuffer(archiveIndex) \in Buffers
            BY OtherFacts DEF IInv, TypeOK
          <6>. QED BY <5>2 DEF SavedFrom, FilledFrom
        <5>. QED BY <2>1, <3>3, <5>1, <5>3 DEF Chain
      <4>2. CASE i = OtherBuffer(archiveIndex)
        BY <2>1, <4>1, <4>2 DEF Chain
      <4>3. CASE update = "lastSave"
        <5>1. i = archiveIndex
          BY <1>1, <3>1, <4>3 DEF IInv, Turn, Saving
        <5>2. valPos[OtherBuffer(archiveIndex)][s] = 0
          BY <4>3 DEF IInv, Emptied
        <5>3. added[s] \in Nat /\ valPos[archiveIndex][s] \in Nat
          BY DEF IInv, TypeOK
        <5>4. SavedFrom(s) = FilledFrom(s)
          BY <5>2, <5>3 DEF SavedFrom, FilledFrom
        <5>. QED BY <2>1, <4>1, <5>1, <5>4 DEF Chain
      <4>. QED BY <1>1, <3>1, <4>2, <4>3 DEF IInv, Turn, Saving
    <3>5. disk'[s] = disk[s] \o Held(i, s) /\ Held(i, s) \in Seq(Nat)
      BY <1>1, <1>2, <3>2
    <3>6. /\ Len(disk'[s]) = SavedFrom(s) + valPos[i][s]
          /\ \A j \in 1 .. Len(disk'[s]) : disk'[s][j] = j
      <4>1. Len(disk'[s]) = Len(disk[s]) + valPos[i][s]
        BY <1>2, <3>2, <3>5, ConcatProperties
      <4>2. ASSUME NEW j \in 1 .. Len(disk'[s]) PROVE disk'[s][j] = j
        <5>1. CASE j <= Len(disk[s])
          <6>. j \in 1 .. Len(disk[s])
            BY <3>4, <4>1, <5>1
          <6>. disk'[s][j] = disk[s][j]
            BY <1>2, <3>5
          <6>. QED BY <2>1 DEF Chain
        <5>2. CASE ~(j <= Len(disk[s]))
          <6>1. j - Len(disk[s]) \in 1 .. valPos[i][s]
            BY <3>2, <3>4, <4>1, <5>2
          <6>2. disk'[s][j] = Held(i, s)[j - Len(disk[s])]
            BY <1>2, <3>2, <3>4, <3>5, <4>1, <5>2
          <6>3. archiveData[i][s][j - Len(disk[s])] = Len(disk[s]) + (j - Len(disk[s]))
            BY <3>4, <6>1
          <6>. QED BY <3>2, <3>4, <4>1, <6>1, <6>2, <6>3
        <5>. QED BY <5>1, <5>2
      <4>. QED BY <3>4, <4>1, <4>2
    <3>. QED BY <1>1, <2>1, <3>1, <3>3, <3>6 DEF Chain, FilledFrom, SavedFrom
  <2>. QED BY <2>2, <2>3
<1>. QED BY <1>6, <1>7, <1>8, <1>9, <1>10, <1>11 DEF IInv

\* The buffer is emptied when all it held is on the disk.
LEMMA ResetPosInv ==
  ASSUME IInv, TypeOK', ResetPos, update # "undefined"
  PROVE  IInv'
<1>1. PICK b \in Buffers : b = save.index
  BY DEF IInv, TypeOK
<1>2. /\ save.pc = "reset"
      /\ save'.index = save.index /\ save'.todo = save.todo /\ save'.block = save.block
      /\ save'.pc = "ended"
      /\ UNCHANGED <<outArchiveEna, archiveIndex, archiveData, known, update, disk, added,
                     faults>>
  BY DEF ResetPos, IInv, TypeOK
<1>3. /\ \A s \in Signals : valPos'[b][s] = 0
      /\ \A i \in Buffers, s \in Signals : i # b => valPos'[i][s] = valPos[i][s]
  BY <1>1 DEF ResetPos, ResetAll, IInv, TypeOK
<1>4. Turn' /\ KnownOnly'
  BY <1>2, <1>3 DEF IInv, Turn, KnownOnly, Saving
<1>5. Blocks' /\ Collected'
  BY <1>2 DEF IInv, Blocks, Collected
<1>6. outArchiveEna.archive =>
        \A s \in Signals : s \notin save.todo /\ save.block[s] = <<>>
  BY <1>2 DEF IInv, Blocks, NoBlock
<1>7. FailedSaveKeeps'
  <2>. SUFFICES ASSUME outArchiveEna.archive, NEW s \in Signals
                PROVE  1 .. added[s] = UNION {ValuesOf(disk[s]), ValuesOf(Held(0, s)'),
                                              ValuesOf(Held(1, s)')}
    BY <1>2 DEF FailedSaveKeeps, ValuesOf
  <2>1. 1 .. added[s] = UNION {ValuesOf(disk[s]), ValuesOf(Held(0, s)), ValuesOf(Held(1, s))}
    BY <1>2 DEF IInv, FailedSaveKeeps
  <2>2. ValuesOf(Held(b, s)) \subseteq ValuesOf(disk[s])
    <3>1. CASE save.block[s] = Held(save.index, s)
      BY <1>1, <1>6, <3>1 DEF ValuesOf
    <3>. QED BY <1>1, <1>2, <1>6, <3>1 DEF IInv, Collected
  <2>3. ValuesOf(Held(b, s)') = {}
    BY <1>3, SubSeqEmpty DEF Held, ValuesOf
  <2>4. \A i \in Buffers : i # b => ValuesOf(Held(i, s)') = ValuesOf(Held(i, s))
    BY <1>2, <1>3 DEF Held
  <2>. QED BY <2>1, <2>2, <2>3, <2>4 DEF Buffers
<1>8. Emptied'
  BY <1>1, <1>2, <1>3, OtherFacts DEF IInv, Emptied, Turn, Saving, Sound, TypeOK
<1>9. Contiguous'
  <2>. SUFFICES ASSUME Sound, NEW s \in Signals PROVE Chain(s)'
    BY <1>2 DEF Contiguous, Sound
  <2>1. PICK i \in Buffers : i = archiveIndex
    BY DEF IInv, TypeOK
  <2>2. Chain(s) /\ Written(s) /\ ~Written(s)'
    BY <1>2, <1>6 DEF IInv, Contiguous, Written, Sound
  <2>3. OtherBuffer(i) \in Buffers /\ OtherBuffer(i) # i
    BY OtherFacts
  <2>4. added[s] \in Nat /\ valPos[i][s] \in Nat /\ valPos[OtherBuffer(i)][s] \in Nat
    BY <2>3 DEF IInv, TypeOK
  <2>5. CASE b = OtherBuffer(i)
    <3>1. /\ FilledFrom(s)' = FilledFrom(s)
          /\ SavedFrom(s)' = SavedFrom(s) + valPos[b][s]
      BY <1>2, <1>3, <2>1, <2>3, <2>4, <2>5 DEF FilledFrom, SavedFrom
    <3>. QED BY <1>1, <1>2, <1>3, <2>1, <2>2, <2>3, <2>4, <2>5, <3>1 DEF Chain
  <2>6. CASE b = i /\ valPos[OtherBuffer(i)][s] = 0
    BY <1>1, <1>2, <1>3, <2>1, <2>2, <2>3, <2>4, <2>6 DEF Chain, FilledFrom, SavedFrom
  <2>. QED BY <1>1, <1>2, <2>1, <2>5, <2>6 DEF IInv, Turn, Saving, Emptied
<1>. QED BY <1>4, <1>5, <1>7, <1>8, <1>9 DEF IInv

-----------------------------------------------------------------------------
(* The theorems.                                                           *)

\* The two buffers, the disk and the save under way fit together at all times.
THEOREM Invariance == Spec => []IInv
<1>1. Init => IInv
  <2>. SUFFICES ASSUME Init PROVE IInv
    OBVIOUS
  <2>1. TypeOK
    BY ArchiveAssumption DEF Init, TypeOK, NoBlock, Buffers
  <2>2. Turn /\ KnownOnly /\ Blocks /\ Collected /\ Emptied
    BY OtherFacts DEF Init, Turn, KnownOnly, Blocks, Collected, Emptied, Saving, Buffers
  <2>3. FailedSaveKeeps
    BY SubSeqEmpty DEF Init, FailedSaveKeeps, Held, ValuesOf, Buffers
  <2>4. Contiguous
    BY OtherFacts DEF Init, Contiguous, Chain, FilledFrom, SavedFrom, Written, Buffers
  <2>. QED BY <2>1, <2>2, <2>3, <2>4 DEF IInv
<1>2. IInv /\ TypeOK' /\ [Next]_vars => IInv'
  <2>. SUFFICES ASSUME IInv, TypeOK', [Next]_vars PROVE IInv'
    OBVIOUS
  <2>1. ASSUME NEW s \in Signals, AddSignal(s) \/ AddValue(s) \/ AddValuePastEnd(s)
        PROVE  IInv'
    BY <2>1, AddSignalInv, AddValueInv, AddValuePastEndInv
  <2>2. CASE HourOnce \/ StopCycle \/ SetConfig
    BY <2>2, HourOnceInv, StopCycleInv, SetConfigInv
  <2>3. CASE UpdateStep
    BY <2>3, HandOverInv, LastSaveInv, LastSaveReturnsInv, DestroyInv DEF UpdateStep
  <2>4. CASE SaveStep
    BY <2>4, CopyKeysInv, OpenFileInv, OpenFailsInv, CollectInv, WriteBlockInv,
       CompressFailsInv, ResetPosInv DEF SaveStep
  <2>5. CASE UNCHANGED vars
    <3>1. FailedSaveKeeps' /\ Collected'
      BY <2>5, NoValueMoves, NoSaveMoves DEF IInv, vars
    <3>. QED BY <2>5, <3>1 DEF vars, IInv, Turn, KnownOnly, Blocks, Held, Emptied, Contiguous,
                Chain, FilledFrom, SavedFrom, Written, Saving, Sound
  <2>. QED BY <2>1, <2>2, <2>3, <2>4, <2>5 DEF Next
<1>. QED BY <1>1, <1>2, TypeCorrect, PTL DEF Spec

\* A save that fails, in opening the file or in compressing any block, loses
\* nothing (archive.cpp:171, 208).
THEOREM FailuresKeep == Spec => []FailedSaveKeeps
BY Invariance, PTL DEF IInv

\* A stop with saving active leaves nothing behind (archive.cpp:119-130).
THEOREM StopSaves == Spec => []StopSavesAll
<1>1. IInv => StopSavesAll
  <2>. SUFFICES ASSUME IInv, update = "destroyed", faults = 0, outArchiveEna.thread,
                       outArchiveEna.archive, NEW s \in Signals
                PROVE  disk[s] = [i \in 1 .. added[s] |-> i]
    BY DEF StopSavesAll
  <2>1. Sound /\ Chain(s)
    BY DEF Sound, IInv, Contiguous
  <2>2. ~Written(s)
    BY DEF IInv, Turn, Written
  <2>3. valPos[archiveIndex][s] = 0 /\ valPos[OtherBuffer(archiveIndex)][s] = 0
    BY <2>1 DEF IInv, Turn, Emptied, Saving
  <2>4. added[s] \in Nat /\ disk[s] \in Seq(Nat)
    BY DEF IInv, TypeOK
  <2>5. Len(disk[s]) = added[s] /\ \A i \in 1 .. Len(disk[s]) : disk[s][i] = i
    BY <2>1, <2>2, <2>3, <2>4 DEF Chain, SavedFrom, FilledFrom
  <2>. QED BY <2>4, <2>5, SMTT(60)
<1>. QED BY <1>1, Invariance, PTL

-----------------------------------------------------------------------------
(* Refinement.                                                             *)

\* The logs begin empty.
LEMMA InitMaps == Init => Promise!Init
BY DEF Init, Promise!Init

\* A block that is written continues the logs, before the first failure.
LEMMA WriteBlockMaps ==
  ASSUME IInv, IInv', WriteBlock
  PROVE  Promise!Flush \/ Promise!Degraded
<1>1. UNCHANGED <<added, faults, outArchiveEna>>
  BY DEF WriteBlock
<1>2. CASE ~Sound
  BY <1>1, <1>2 DEF Sound, Promise!Degraded, IInv, TypeOK
<1>3. CASE Sound
  <2>1. disk' \in [Signals -> Seq(Nat)]
    BY DEF IInv, TypeOK
  <2>2. ASSUME NEW s \in Signals
        PROVE  /\ Len(disk[s]) <= Len(disk'[s])
               /\ Len(disk'[s]) <= added[s]
               /\ \A i \in 1 .. Len(disk'[s]) : disk'[s][i] = i
    <3>1. /\ disk[s] \in Seq(Nat) /\ save.block[s] \in Seq(Nat)
          /\ disk'[s] = disk[s] \o save.block[s]
      BY DEF WriteBlock, IInv, TypeOK
    <3>2. Chain(s)'
      BY <1>1, <1>3 DEF IInv, Contiguous, Sound
    <3>3. PICK i \in Buffers : i = archiveIndex'
      BY DEF IInv, TypeOK
    <3>4. /\ valPos'[i][s] \in Nat /\ valPos'[OtherBuffer(i)][s] \in Nat /\ added[s] \in Nat
          /\ save'.index \in Buffers /\ valPos'[save'.index][s] \in Nat
      BY <1>1, OtherFacts DEF IInv, TypeOK
    <3>5. save'.pc \in {"collect", "reset"}
      BY DEF WriteBlock, IInv, TypeOK
    <3>6. Len(disk'[s]) <= added[s]
      <4>1. /\ added'[s] = added[s]
            /\ Len(disk'[s]) = added'[s] - valPos'[i][s] - valPos'[OtherBuffer(i)][s]
                                 + (IF Written(s)' THEN valPos'[save'.index][s] ELSE 0)
        BY <1>1, <3>2, <3>3 DEF Chain, SavedFrom, FilledFrom
      <4>2. CASE save'.index = OtherBuffer(i)
        BY <3>4, <4>1, <4>2
      <4>3. CASE update' = "lastSave"
        <5>1. save'.index = i
          BY <3>3, <3>5, <4>3 DEF IInv, Turn, Saving
        <5>2. valPos'[OtherBuffer(i)][s] = 0
          BY <1>1, <1>3, <3>3, <4>3 DEF IInv, Emptied, Sound
        <5>. QED BY <3>4, <4>1, <5>1, <5>2
      <4>. QED BY <3>3, <3>5, <4>2, <4>3 DEF IInv, Turn, Saving
    <3>7. Len(disk[s]) <= Len(disk'[s])
      <4>1. PICK m \in Nat, n \in Nat : m = Len(disk[s]) /\ n = Len(save.block[s])
        BY <3>1
      <4>2. Len(disk[s] \o save.block[s]) = m + n
        BY <3>1, <4>1, ConcatProperties
      <4>3. Len(disk'[s]) = m + n
        BY <3>1, <4>2, Zenon
      <4>4. \A a, b \in Nat : a <= a + b
        OBVIOUS
      <4>. QED BY <4>1, <4>3, <4>4, Zenon
    <3>8. \A j \in 1 .. Len(disk'[s]) : disk'[s][j] = j
      BY <3>2 DEF Chain
    <3>. QED BY <3>6, <3>7, <3>8
  <2>. QED BY <1>1, <2>1, <2>2 DEF Promise!Flush
<1>. QED BY <1>2, <1>3

\* Every step of the archive is a step of the log or changes nothing of it.
LEMMA StepMaps == IInv /\ IInv' /\ [Next]_vars => [Promise!Next]_(Promise!vars)
<1>. SUFFICES ASSUME IInv, IInv', [Next]_vars PROVE [Promise!Next]_(Promise!vars)
  OBVIOUS
<1>1. ASSUME UNCHANGED <<added, disk, faults>>, outArchiveEna'.archive = outArchiveEna.archive
      PROVE  UNCHANGED Promise!vars
  BY <1>1 DEF Promise!vars
<1>2. ASSUME NEW s \in Signals, AddSignal(s) \/ AddValuePastEnd(s)
      PROVE  UNCHANGED Promise!vars
  BY <1>1, <1>2 DEF AddSignal, AddValuePastEnd
<1>3. ASSUME NEW s \in Signals, AddValue(s)
      PROVE  Promise!Next
  BY <1>3 DEF AddValue, Promise!Next, Promise!Accept
<1>4. CASE HourOnce \/ StopCycle \/ SetConfig \/ UpdateStep
  BY <1>1, <1>4 DEF HourOnce, StopCycle, SetConfig, UpdateStep, HandOver, LastSave,
                    LastSaveReturns, Destroy, IInv, TypeOK
<1>5. CASE OpenFails \/ CompressFails
  BY <1>5 DEF OpenFails, CompressFails, Promise!Next, Promise!Fail, Promise!Degraded, IInv, TypeOK
<1>6. CASE WriteBlock
  BY <1>6, WriteBlockMaps DEF Promise!Next
<1>7. CASE CopyKeys \/ OpenFile \/ ResetPos \/ \E s \in Signals : Collect(s)
  BY <1>1, <1>7 DEF CopyKeys, OpenFile, ResetPos, Collect
<1>8. CASE UNCHANGED vars
  BY <1>1, <1>8 DEF vars
<1>. QED BY <1>2, <1>3, <1>4, <1>5, <1>6, <1>7, <1>8 DEF Next, SaveStep

\* The archive, with two buffers saved in turn, in blocks, by two threads,
\* implements the log of SignalLog (archive.cpp:104-236).
THEOREM Refinement == Spec => ImplementsLog
BY InitMaps, StepMaps, Invariance, PTL DEF Spec, ImplementsLog, Promise!Spec
=============================================================================
