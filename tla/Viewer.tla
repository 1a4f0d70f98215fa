------------------------------- MODULE Viewer -------------------------------
(***************************************************************************)
(* The archive viewer (SVViewer): archive files are opened, which makes an *)
(* index of the signals in them (FileLoader::loadFile), and the records of *)
(* a signal are read when somebody asks for them - a graph that paints it, *)
(* the statistics, the export, a script (FileLoader::loadSignalData).  The *)
(* monitor may be writing the file meanwhile, and a file may be out of     *)
(* reach for some time.                                                    *)
(*                                                                         *)
(* A file is a sequence of compressed blocks; a block holds of some        *)
(* signals some records; of a record only beginTime is kept.  Opening runs *)
(* in the window's thread (the connection's receiver is the window), so a  *)
(* handler is one step.  openedAt and answer are history: what a file held *)
(* when it was opened, and what the last load of a signal returned.        *)
(***************************************************************************)
EXTENDS SignalView, FiniteSets, FiniteSetsExt, Functions

CONSTANTS Signals, Files,
          OtherSizes, \* files whose packetSz or cycleRecMs is not the viewer's
          Shift,      \* utcOffsMs of each file, from its name
          Steps,      \* bound: times between a record and the next
          MaxRecs,    \* bound: records of a block
          MaxBlocks   \* bound: blocks written

FirstTime == 10 \* the archives begin after it

ASSUME ViewerAssumption ==
  /\ IsFiniteSet(Signals) /\ IsFiniteSet(Files)
  /\ OtherSizes \subseteq Files
  /\ Shift \in [Files -> Int]
  /\ \A f \in Files : FirstTime + Shift[f] >= 0 \* no shift leads before 1970
  /\ Cycle \in Nat \ {0}
  /\ Steps \subseteq Nat \ {0}
  /\ MaxRecs \in Nat /\ MaxBlocks \in Nat

VARIABLES disk,     \* per file: its blocks, the one being written, is it in reach
          now, written,
          fileRef,  \* opened files: per signal [patchApos, vlsCnt, isLoad]
          signals,  \* signalRef_: [isActive, data, begin, value, min, max]
          openedAt,
          answer

viewerVars == <<disk, now, written, fileRef, signals, openedAt, answer>>

-----------------------------------------------------------------------------
NoBlock == <<>>

Known  == DOMAIN signals
Opened == DOMAIN fileRef

\* A signal without data, read from svsignals.txt or met in a file.
NewSignal(isOn) ==
  [isActive |-> isOn, data |-> <<>>, begin |-> 0, value |-> 0, min |-> 0, max |-> 0]

\* Some signals are known from an earlier session; nothing is opened.
ViewerInit ==
  /\ disk = [f \in Files |-> [blocks |-> <<>>, torn |-> NoBlock, inReach |-> TRUE]]
  /\ now = FirstTime /\ written = 0
  /\ fileRef = <<>>
  /\ \E S \in SUBSET Signals : signals = [s \in S |-> NewSignal(FALSE)]
  /\ openedAt = <<>>
  /\ answer = [s \in Signals |-> FALSE]

-----------------------------------------------------------------------------
(* Opening: the index of a file.                                           *)

\* The records of a signal in some blocks, one block after the other.
Recorded(blocks, in, s) == FlattenSeq([i \in DOMAIN in |-> blocks[in[i]][s]])

\* A block that ends early is not uncompressed: the index stops before it.
IndexOf(blocks) ==
  [s \in UNION {DOMAIN blocks[k] : k \in DOMAIN blocks} |->
    LET in == Only([k \in DOMAIN blocks |-> k], {k \in DOMAIN blocks : s \in DOMAIN blocks[k]})
    IN  [patchApos |-> in, vlsCnt |-> Len(Recorded(blocks, in, s)), isLoad |-> FALSE]]

\* A file of other sizes keeps its place in the list, without an index.
Index(f) == IF f \in OtherSizes THEN <<>> ELSE IndexOf(disk[f].blocks)

\* Bug: a signal known from the last session is not made active.
SignalsAdded(sigs, S) ==
  [s \in DOMAIN sigs \cup S |-> IF s \in DOMAIN sigs THEN sigs[s] ELSE NewSignal(TRUE)]

WithSignals(sigs, S) ==
  [s \in DOMAIN sigs \cup S |->
     IF s \notin DOMAIN sigs THEN NewSignal(TRUE)
     ELSE IF s \in S THEN [sigs[s] EXCEPT !.isActive = TRUE] ELSE sigs[s]]

\* preloadFiles: those opened before and those out of reach are passed over.
OpenData(chosen) ==
  LET new == {f \in chosen \ Opened : disk[f].inReach}
  IN  /\ fileRef' = [f \in Opened \cup new |-> IF f \in Opened THEN fileRef[f] ELSE Index(f)]
      /\ signals' = WithSignals(signals, UNION {DOMAIN Index(f) : f \in new})
      /\ openedAt' = [f \in Opened \cup new |->
                        IF f \in Opened THEN openedAt[f]
                        ELSE IF f \in OtherSizes THEN <<>> ELSE disk[f].blocks]
      /\ UNCHANGED <<disk, now, written, answer>>

-----------------------------------------------------------------------------
(* Loading the records of a signal.                                        *)

\* Bug: what was loaded is loaded again.
AllWithIt(s) == {f \in Opened : s \in DOMAIN fileRef[f]}

ToLoad(s) == {f \in Opened : s \in DOMAIN fileRef[f] /\ ~fileRef[f][s].isLoad}

\* The blocks of the index; the buffer was made for vlsCnt records.
FromFile(f, s) ==
  LET read == Recorded(disk[f].blocks, fileRef[f][s].patchApos, s)
  IN  [i \in 1 .. fileRef[f][s].vlsCnt |-> IF i \in DOMAIN read THEN read[i] + Shift[f] ELSE 0]

\* Bug: a file that cannot be read is passed over without a word.
NotTorn(found) == \A f \in found : disk[f].torn = NoBlock

\* Every file could be read, and to its end.
AllRead(found) == \A f \in found : disk[f].inReach /\ disk[f].torn = NoBlock

\* std::sort of the records by their time.
Inserted(q, t) ==
  LET later == SelectInSeq(q, LAMBDA u : u > t)
  IN  IF later = 0 THEN Append(q, t) ELSE InsertAt(q, later, t)

InOrder(q) ==
  LET First[n \in 0 .. Len(q)] == IF n = 0 THEN <<>> ELSE Inserted(First[n - 1], q[n])
  IN  First[Len(q)]

Loaded(sd, more) ==
  LET data == InOrder(sd.data \o more)
  IN  [sd EXCEPT !.data = data, !.value = Len(data) - 1,
                 !.min = data[1], !.max = data[Len(data)] + Cycle]

LoadSignalData(s) ==
  LET found == ToLoad(s)
      read  == {f \in found : disk[f].inReach}
      queue == SetToSeq(read)
      more  == FlattenSeq([i \in DOMAIN queue |-> FromFile(queue[i], s)])
      sd    == IF read = {} THEN signals[s] ELSE Loaded(signals[s], more)
  IN  /\ s \in Known
      /\ signals' = [signals EXCEPT ![s] = sd]
      /\ fileRef' = [f \in Opened |->
                       IF f \in read THEN [fileRef[f] EXCEPT ![s].isLoad = TRUE] ELSE fileRef[f]]
      /\ answer' = [answer EXCEPT ![s] = AllRead(found) /\ sd.data # <<>>]
      /\ UNCHANGED <<disk, now, written, openedAt>>

-----------------------------------------------------------------------------
(* The monitor writes blocks (Archive); files go out of reach and return.  *)

SaveBegin(f, S, n, step) ==
  /\ disk[f].torn = NoBlock
  /\ written < MaxBlocks
  /\ written' = written + 1
  /\ now' = now + n * step
  /\ disk' = [disk EXCEPT ![f].torn = [s \in S |-> [i \in 1 .. n |-> now + i * step]]]
  /\ UNCHANGED <<fileRef, signals, openedAt, answer>>

SaveEnd(f) ==
  /\ disk[f].torn # NoBlock
  /\ disk' = [disk EXCEPT ![f].blocks = Append(@, disk[f].torn), ![f].torn = NoBlock]
  /\ UNCHANGED <<now, written, fileRef, signals, openedAt, answer>>

Reach(f) ==
  /\ disk' = [disk EXCEPT ![f].inReach = ~@]
  /\ UNCHANGED <<now, written, fileRef, signals, openedAt, answer>>

ViewerNext ==
  \/ \E chosen \in (SUBSET Files) \ {{}} : OpenData(chosen)
  \/ \E s \in Signals : LoadSignalData(s)
  \/ \E f \in Files \ OtherSizes :
       \/ \E S \in (SUBSET Signals) \ {{}}, n \in 1 .. MaxRecs, step \in Steps :
            SaveBegin(f, S, n, step)
       \/ SaveEnd(f)
       \/ Reach(f)

ViewerSpec == ViewerInit /\ [][ViewerNext]_viewerVars

-----------------------------------------------------------------------------
(* Properties.                                                             *)

\* Only known signals are in an index; a signal's positions fit its buffer.
ViewerTypeOK ==
  /\ Known \subseteq Signals
  /\ Opened \subseteq Files /\ DOMAIN openedAt = Opened
  /\ \A f \in Opened : \A s \in DOMAIN fileRef[f] :
       /\ s \in Known /\ signals[s].isActive
       /\ fileRef[f][s].vlsCnt \in Nat \ {0}
  /\ \A s \in Known :
       /\ signals[s].data \in Seq(Nat)
       /\ signals[s].begin = 0
       /\ signals[s].value \in 0 .. (IF signals[s].data = <<>> THEN 0 ELSE Len(signals[s].data) - 1)
  /\ answer \in [Signals -> BOOLEAN]

\* The times of a signal that a file held when it was opened.
Held(f, s) ==
  FlattenSeq([k \in DOMAIN openedAt[f] |->
    IF s \notin DOMAIN openedAt[f][k] THEN <<>>
    ELSE [i \in DOMAIN openedAt[f][k][s] |-> openedAt[f][k][s][i] + Shift[f]]])

HeldBy(from, s) ==
  LET queue == SetToSeq(from)
  IN  InOrder(FlattenSeq([i \in DOMAIN queue |-> Held(queue[i], s)]))

\* However opening, loading and the monitor's saves interleave, the buffer of
\* a signal is, in the order of time, the records that the files loaded for it
\* held when they were opened, each once.
LoadedOnce ==
  \A s \in Known :
    signals[s].data =
      HeldBy({f \in Opened : s \in DOMAIN fileRef[f] /\ fileRef[f][s].isLoad}, s)

\* A load that returns true has left nothing out: the buffer holds all that
\* the opened files held of the signal, also after a file was out of reach.
TrueIsAll ==
  [][\A s \in Signals :
       (LoadSignalData(s) /\ answer'[s]) => signals'[s].data = HeldBy(Opened, s)]_viewerVars

\* All positions of the buffer.
Places(sd) == 0 .. Size(sd) - 1

\* The three readers of a loaded buffer, over any window.  The statistics take
\* every record that reaches into the window; the line of a graph leaves out of
\* them only the last one of the buffer, and those before the record in which
\* the window begins.  The axis is scaled without what the line shows only when
\* the window begins in the last record.  The export of all time is all but the
\* last record.
ViewsAgree ==
  \A s \in Known : LET sd == signals[s] IN sd.data # <<>> =>
    /\ Exported(sd, TRUE, 0, 0, TRUE, 1) = [k \in 1 .. Size(sd) - 1 |-> k - 1]
    /\ \A lo, hi \in sd.min - 1 .. sd.max + 1 : lo < hi =>
         LET stat   == Range(StatRecords(sd, TRUE, lo, hi))
             line   == Range(Points(sd, "viewer", lo, hi))
             before == {p \in Places(sd) : Time(sd, p) < lo}
             last   == Size(sd) - 1
         IN  /\ stat = {p \in Places(sd) : Crosses(Time(sd, p), lo, hi)}
             /\ line \subseteq stat
             /\ \A p \in stat \ line : p = last \/ (p \in before /\ p < Max(before))
             /\ (line # {} /\ RangeOf(sd, "viewer", lo, hi) = <<>>) => (last = 0 \/ last \in before)
=============================================================================
