----------------------------- MODULE BufferData -----------------------------
(***************************************************************************)
(* The server's signal buffer (SVServer/buffer_data.h, buffer_data.cpp): a *)
(* ring of records between the threads that receive packets and the one    *)
(* update thread.                                                          *)
(*                                                                         *)
(* A receiving thread reserves room for the records of a packet under      *)
(* m_mtxWrite, copies them into the ring without a lock, and then spins    *)
(* under m_mtxRead until the records reserved before its own are           *)
(* published, and publishes its own.  The update thread takes a snapshot   *)
(* of the published position under m_mtxRead, copies the records up to it  *)
(* without a lock and processes them.  A copied record still points into   *)
(* the ring for its values (RecData::vals): they are read when the record  *)
(* is processed.                                                           *)
(*                                                                         *)
(* Nothing compares the write position with the read position, so a        *)
(* receiving thread can lap the update thread.                             *)
(*                                                                         *)
(* Records are numbered 1, 2, ... in the order of reservation; the number  *)
(* stands for the record's contents.  reserved, published, delivered,      *)
(* overrun and first are history variables: the code has none of them.     *)
(***************************************************************************)
EXTENDS Integers, Sequences, FiniteSets

CONSTANTS Writers,    \* threads that call updateDataSignals
          BufSz,      \* m_buffSz
          BatchShare, \* a packet may take m_buffSz / BatchShare slots; 10
          MaxPacket,  \* bound: records in a packet
          Modules,    \* module names
          OffsetMs,   \* cng.offsetMs
          MaxRecords  \* bound: records reserved in a behaviour

ASSUME BufferAssumption ==
  /\ IsFiniteSet(Writers)
  /\ BufSz \in Nat \ {0}
  /\ BatchShare \in Nat \ {0}
  /\ Cardinality(Writers) <= BatchShare
  /\ MaxPacket \in Nat
  /\ OffsetMs \in Nat
  /\ MaxRecords \in Nat

VARIABLES buffer,                \* m_buffer
          buffWritePos,          \* m_buffWritePos
          buffWritePosForReader, \* m_buffWritePosForReader
          buffReadPos,           \* m_buffReadPos
          timeOffsetMs,          \* m_timeOffsetMs
          writer,                \* the locals of updateDataSignals, by thread
          reader,                \* the locals of getDataByReadPos and its caller
          reserved, published, delivered, overrun

vars == <<buffer, buffWritePos, buffWritePosForReader, buffReadPos,
          timeOffsetMs, writer, reader, reserved, published, delivered, overrun>>

-----------------------------------------------------------------------------
Slots   == 0 .. BufSz - 1
NoEntry == -1

\* A header stands for module, name, type and beginTime; "shift" is the part
\* of beginTime that comes from m_timeOffsetMs.
Header == [rec : Nat, module : Modules \cup {NoEntry}, shift : Nat]

\* Bug: the share of a packet is not limited.
MaxBatchUnlimited == BufSz

\* The most records of a packet that are taken: m_buffSz / 10.
MaxBatch == BufSz \div BatchShare

TakeMin(a, b) == IF a <= b THEN a ELSE b

\* Bug: the wrap is one position late.
AdvanceLate(pos, n) == IF pos + n > BufSz THEN pos + n - BufSz ELSE pos + n

\* Positions advance by a conditional subtraction, not by %.
Advance(pos, n) == IF pos + n >= BufSz THEN pos + n - BufSz ELSE pos + n

IdleWriter == [pc |-> "idle", first |-> 0, cnt |-> 0, copied |-> 0,
               wPos |-> 0, wPosMem |-> 0, module |-> NoEntry, shift |-> 0]

Init ==
  /\ buffer = [s \in Slots |-> [hdr  |-> [rec |-> 0, module |-> NoEntry, shift |-> 0],
                                vals |-> 0]]
  /\ buffWritePos = 0
  /\ buffWritePosForReader = 0
  /\ buffReadPos = 0
  /\ timeOffsetMs = [m \in Modules |-> NoEntry]
  /\ writer = [w \in Writers |-> IdleWriter]
  /\ reader = [pc |-> "idle", end |-> 0, out |-> <<>>]
  /\ reserved = 0
  /\ published = 0
  /\ delivered = <<>>
  /\ overrun = FALSE

-----------------------------------------------------------------------------
(* A receiving thread.                                                     *)

\* The module's time shift after one more packet of it.
NextShift(m) ==
  IF OffsetMs = 0 \/ timeOffsetMs[m] = NoEntry THEN 0
                                              ELSE timeOffsetMs[m] + OffsetMs

\* The section under m_mtxWrite.  What a packet holds beyond MaxBatch records
\* is dropped; a packet without room for one record is ignored.
Reserve(w, m, packet) ==
  LET cnt == TakeMin(packet, MaxBatch)
  IN  /\ writer[w].pc = "idle"
      /\ cnt > 0
      /\ reserved + cnt <= MaxRecords
      /\ writer' = [writer EXCEPT ![w] =
                      [pc |-> "header", first |-> reserved + 1, cnt |-> cnt, copied |-> 0,
                       wPos |-> buffWritePos, wPosMem |-> buffWritePos,
                       module |-> m, shift |-> NextShift(m)]]
      /\ buffWritePos' = Advance(buffWritePos, cnt)
      /\ timeOffsetMs' = IF OffsetMs = 0 THEN timeOffsetMs
                         ELSE [timeOffsetMs EXCEPT ![m] = NextShift(m)]
      /\ reserved' = reserved + cnt
      /\ overrun' = (overrun \/ reserved + cnt - Len(delivered) >= BufSz)
      /\ UNCHANGED <<buffer, buffWritePosForReader, buffReadPos, reader, published, delivered>>

\* Copying one record takes several unordered stores; two are kept apart, the
\* part the reader copies out and the part it only points to.
CopyHeader(w) ==
  /\ writer[w].pc = "header"
  /\ buffer' = [buffer EXCEPT ![writer[w].wPos].hdr =
                  [rec    |-> writer[w].first + writer[w].copied,
                   module |-> writer[w].module,
                   shift  |-> writer[w].shift]]
  /\ writer' = [writer EXCEPT ![w].pc = "values"]
  /\ UNCHANGED <<buffWritePos, buffWritePosForReader, buffReadPos, timeOffsetMs, reader,
                 reserved, published, delivered, overrun>>

CopyValues(w) ==
  /\ writer[w].pc = "values"
  /\ buffer' = [buffer EXCEPT ![writer[w].wPos].vals = writer[w].first + writer[w].copied]
  /\ writer' = [writer EXCEPT ![w].wPos = Advance(@, 1),
                              ![w].copied = @ + 1,
                              ![w].pc = IF writer[w].copied + 1 = writer[w].cnt
                                        THEN "publish" ELSE "header"]
  /\ UNCHANGED <<buffWritePos, buffWritePosForReader, buffReadPos, timeOffsetMs, reader,
                 reserved, published, delivered, overrun>>

\* Bug: a thread publishes as soon as it has copied.
AnyTurn(w) == TRUE

\* All records reserved before those of w are published.
InTurn(w) == writer[w].wPosMem = buffWritePosForReader

\* One turn of the spin that finds its own position; the other turns change
\* nothing.
Publish(w) ==
  /\ writer[w].pc = "publish"
  /\ InTurn(w)
  /\ buffWritePosForReader' = Advance(buffWritePosForReader, writer[w].cnt)
  /\ published' = published + writer[w].cnt
  /\ writer' = [writer EXCEPT ![w] = IdleWriter]
  /\ UNCHANGED <<buffer, buffWritePos, buffReadPos, timeOffsetMs, reader, reserved,
                 delivered, overrun>>

-----------------------------------------------------------------------------
(* The update thread.                                                      *)

\* Bug: the reader takes what is reserved for what is published.
ReservedEnd == buffWritePos

\* Where the reader stops this time.
VisibleEnd == buffWritePosForReader

Snapshot ==
  /\ reader.pc = "idle"
  /\ reader' = [pc |-> "copy", end |-> VisibleEnd, out |-> <<>>]
  /\ UNCHANGED <<buffer, buffWritePos, buffWritePosForReader, buffReadPos, timeOffsetMs,
                 writer, reserved, published, delivered, overrun>>

\* The copy of a record is shallow: its values stay in the slot.
CopyOut ==
  /\ reader.pc = "copy"
  /\ buffReadPos # reader.end
  /\ reader' = [reader EXCEPT !.out = Append(@, [hdr |-> buffer[buffReadPos].hdr,
                                                 pos |-> buffReadPos])]
  /\ buffReadPos' = Advance(buffReadPos, 1)
  /\ UNCHANGED <<buffer, buffWritePos, buffWritePosForReader, timeOffsetMs, writer,
                 reserved, published, delivered, overrun>>

\* Bug: what was copied is not processed.
AlwaysIdle == "idle"

\* getDataByReadPos returns whether it copied anything.
AfterCopy == IF reader.out = <<>> THEN "idle" ELSE "use"

EndCopy ==
  /\ reader.pc = "copy"
  /\ buffReadPos = reader.end
  /\ reader' = [reader EXCEPT !.pc = AfterCopy]
  /\ UNCHANGED <<buffer, buffWritePos, buffWritePosForReader, buffReadPos, timeOffsetMs,
                 writer, reserved, published, delivered, overrun>>

\* ThreadUpdate::updateSignals takes the next copied record and reads its
\* values.
Use ==
  /\ reader.pc = "use"
  /\ delivered' = Append(delivered, [hdr  |-> Head(reader.out).hdr,
                                     vals |-> buffer[Head(reader.out).pos].vals])
  /\ reader' = [reader EXCEPT !.out = Tail(@),
                              !.pc = IF Len(reader.out) = 1 THEN "idle" ELSE "use"]
  /\ UNCHANGED <<buffer, buffWritePos, buffWritePosForReader, buffReadPos, timeOffsetMs,
                 writer, reserved, published, overrun>>

-----------------------------------------------------------------------------
WriterStep(w) == CopyHeader(w) \/ CopyValues(w) \/ Publish(w)

ReaderStep == Snapshot \/ CopyOut \/ EndCopy \/ Use

Next ==
  \/ \E w \in Writers, m \in Modules, packet \in 0 .. MaxPacket : Reserve(w, m, packet)
  \/ \E w \in Writers : WriterStep(w)
  \/ ReaderStep

\* Packets need not arrive; a thread that has one runs on, and so does the
\* update thread until the server is stopped.
Fairness ==
  /\ \A w \in Writers : WF_vars(WriterStep(w))
  /\ WF_vars(ReaderStep)

Spec == Init /\ [][Next]_vars /\ Fairness
-----------------------------------------------------------------------------
(* Properties.                                                             *)

WriterLocals == [pc : {"idle", "header", "values", "publish"}, first : Nat, cnt : 0 .. MaxBatch,
                 copied : Nat, wPos : Slots, wPosMem : Slots,
                 module : Modules \cup {NoEntry}, shift : Nat]

Copied == [hdr : Header, pos : Slots]

\* Every variable keeps to its range: in particular the three positions and
\* every slot number a thread holds stay inside the ring.
TypeOK ==
  /\ buffer \in [Slots -> [hdr : Header, vals : Nat]]
  /\ buffWritePos \in Slots
  /\ buffWritePosForReader \in Slots
  /\ buffReadPos \in Slots
  /\ timeOffsetMs \in [Modules -> Nat \cup {NoEntry}]
  /\ writer \in [Writers -> WriterLocals]
  /\ reader \in [pc : {"idle", "copy", "use"}, end : Slots, out : Seq(Copied)]
  /\ reader.pc = "use" => reader.out # <<>>
  /\ reserved \in Nat
  /\ published \in Nat
  /\ delivered \in Seq([hdr : Header, vals : Nat])
  /\ overrun \in BOOLEAN

InFlight(w) == writer[w].pc # "idle"

\* The slots that updateDataSignals fills for thread w, before it publishes.
Owned(w) == {Advance(writer[w].wPosMem, k) : k \in 0 .. writer[w].cnt - 1}

\* Two threads that copy at the same time, both outside the lock, never hold
\* the same slot, even when they lap the reader: a packet takes at most a
\* tenth of the ring, and there are at most ten threads.
WriterExclusion ==
  \A v, w \in Writers :
    v # w /\ InFlight(v) /\ InFlight(w) => Owned(v) \cap Owned(w) = {}

\* Until the buffer is overrun, the update thread processes every record once,
\* in the order of reservation, and never pairs the header of one record with
\* the values of another, although it reads values through a pointer into the
\* ring long after it left the lock.
IntactDelivery ==
  ~overrun => \A i \in DOMAIN delivered :
                delivered[i].hdr.rec = i /\ delivered[i].vals = i

\* The ring's promise, with the header reduced to its record number.
Promise == INSTANCE SignalQueue
             WITH Capacity  <- BufSz,
                  accepted  <- reserved,
                  delivered <- [i \in DOMAIN delivered |->
                                  [hdr  |-> delivered[i].hdr.rec,
                                   vals |-> delivered[i].vals]]

\* The ring implements the queue: in particular a record becomes visible only
\* together with all records reserved before it, whichever thread finishes
\* copying first.
ImplementsQueue == Promise!Spec

=============================================================================
