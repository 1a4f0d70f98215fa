-------------------------- MODULE BufferDataProofs --------------------------
(***************************************************************************)
(* Theorems about the server's signal buffer, for any number of receiving  *)
(* threads up to BatchShare, any ring size and any packet size.            *)
(*                                                                         *)
(* Positions wrap, record numbers do not: At(pos, n) ties the two.  The    *)
(* heart of the argument is WindowBound: every record between the position *)
(* for the reader and the write position is held by a thread (Covered),    *)
(* the threads are at most BatchShare and hold at most BufSz \div          *)
(* BatchShare records each (ReserveInv), so reserved - published never     *)
(* exceeds BufSz and no position is ambiguous.                             *)
(***************************************************************************)
EXTENDS BufferData, FiniteSetTheorems, SequenceTheorems, TLAPS

-----------------------------------------------------------------------------
(* Ring positions and record counts.                                       *)

\* Position pos is where a cursor stands that has advanced n times from 0.
At(pos, n) == pos = n % BufSz

\* Slot numbers, as the provers use them.
LEMMA SlotsFact == \A s : s \in Slots <=> s \in Nat /\ s < BufSz
BY BufferAssumption DEF Slots

\* The ring has a slot 0.
LEMMA ZeroSlot == 0 \in Slots
BY BufferAssumption DEF Slots

\* BatchShare packets of the most records taken fit into the ring.
LEMMA MaxBatchFact == MaxBatch \in Nat /\ MaxBatch * BatchShare <= BufSz /\ MaxBatch <= BufSz
BY BufferAssumption DEF MaxBatch

\* One conditional subtraction is enough to stay in the ring.
LEMMA AdvanceInSlots ==
  ASSUME NEW s \in Slots, NEW n \in 0 .. BufSz
  PROVE  Advance(s, n) \in Slots
BY BufferAssumption, SlotsFact DEF Advance

\* What a remainder is.
LEMMA ModUnique ==
  \A n, k, s \in Nat, b \in Nat \ {0} : s < b /\ n = k * b + s => s = n % b
OBVIOUS

\* A position and the number of whole turns determine the count, and
\* conversely.
LEMMA AtTurns ==
  ASSUME NEW s \in Slots, NEW n \in Nat
  PROVE  At(s, n) <=> \E k \in Nat : n = k * BufSz + s
<1>1. n = (n \div BufSz) * BufSz + (n % BufSz) /\ n \div BufSz \in Nat
  BY BufferAssumption
<1>2. ASSUME NEW k \in Nat, n = k * BufSz + s
      PROVE  s = n % BufSz
  BY <1>2, BufferAssumption, SlotsFact, ModUnique
<1>. QED BY <1>1, <1>2 DEF At

\* The conditional subtraction keeps a cursor where % would put it.
LEMMA AtAdvance ==
  ASSUME NEW s \in Slots, NEW p \in Nat, NEW n \in 0 .. BufSz, At(s, p)
  PROVE  At(Advance(s, n), p + n)
<1>1. PICK k \in Nat : p = k * BufSz + s
  BY AtTurns
<1>2. k * BufSz \in Nat /\ (k + 1) * BufSz = k * BufSz + BufSz
  BY BufferAssumption
<1>3. \E j \in Nat : p + n = j * BufSz + Advance(s, n)
  <2>1. CASE s + n >= BufSz
    <3>. p + n = (k + 1) * BufSz + (s + n - BufSz)
      BY <1>1, <1>2, BufferAssumption, SlotsFact
    <3>. QED BY <2>1 DEF Advance
  <2>2. CASE ~(s + n >= BufSz)
    <3>. p + n = k * BufSz + (s + n)
      BY <1>1, <1>2, BufferAssumption, SlotsFact
    <3>. QED BY <2>2 DEF Advance
  <2>. QED BY <2>1, <2>2
<1>. QED BY <1>3, AdvanceInSlots, AtTurns, p + n \in Nat

\* A cursor comes back to a position only after a whole turn.
LEMMA AtTurn ==
  ASSUME NEW s \in Slots, NEW p \in Nat, NEW q \in Nat, At(s, p), At(s, q), p < q
  PROVE  q - p >= BufSz
<1>1. PICK j \in Nat, k \in Nat : p = j * BufSz + s /\ q = k * BufSz + s
  BY AtTurns
<1>2. k > j
  BY <1>1, BufferAssumption, SlotsFact
<1>3. PICK d \in Nat : k = j + 1 + d
  <2>. k - j - 1 \in Nat /\ k = j + 1 + (k - j - 1)
    BY <1>2
  <2>. QED OBVIOUS
<1>4. k * BufSz = j * BufSz + BufSz + d * BufSz /\ d * BufSz \in Nat /\ j * BufSz \in Nat
  BY <1>3, BufferAssumption
<1>. QED BY <1>1, <1>4, BufferAssumption, SlotsFact
-----------------------------------------------------------------------------
(* Type correctness.                                                       *)

\* A time shift never becomes the NoEntry mark.
LEMMA NextShiftType ==
  ASSUME TypeOK, NEW m \in Modules
  PROVE  NextShift(m) \in Nat
BY BufferAssumption DEF NextShift, NoEntry, TypeOK

\* A packet takes between one and MaxBatch records.
LEMMA CountType ==
  ASSUME NEW packet \in 0 .. MaxPacket, TakeMin(packet, MaxBatch) > 0
  PROVE  TakeMin(packet, MaxBatch) \in 1 .. MaxBatch
BY MaxBatchFact, BufferAssumption DEF TakeMin

\* More than one record copied leaves one to process.
LEMMA TailNonEmpty ==
  ASSUME NEW S, NEW s \in Seq(S), s # <<>>, Len(s) # 1
  PROVE  Tail(s) # <<>>
<1>1. Len(Tail(s)) = Len(s) - 1 /\ Len(s) \in Nat \ {0}
  BY HeadTailProperties, EmptySeq
<1>2. Len(Tail(s)) # 0
  BY <1>1
<1>3. Len(<<>>) = 0
  OBVIOUS
<1>. QED BY <1>2, <1>3, Zenon

\* The locals of a thread outside updateDataSignals.
LEMMA IdleWriterType == IdleWriter \in WriterLocals
BY ZeroSlot, MaxBatchFact DEF IdleWriter, WriterLocals

\* What TypeOK says of one thread's locals.
LEMMA WriterType ==
  ASSUME TypeOK, NEW w \in Writers
  PROVE  /\ writer[w] \in WriterLocals
         /\ writer[w].cnt \in 0 .. BufSz
         /\ writer[w].cnt \in 0 .. MaxBatch
         /\ writer[w].first \in Nat
         /\ writer[w].copied \in Nat
         /\ writer[w].wPos \in Slots
         /\ writer[w].wPosMem \in Slots
<1>1. writer[w] \in WriterLocals
  BY DEF TypeOK
<1>2. /\ writer[w].cnt \in 0 .. MaxBatch
      /\ writer[w].first \in Nat
      /\ writer[w].copied \in Nat
      /\ writer[w].wPos \in Slots
      /\ writer[w].wPosMem \in Slots
  BY <1>1 DEF WriterLocals
<1>3. writer[w].cnt \in 0 .. BufSz
  BY <1>2, MaxBatchFact, BufferAssumption
<1>. QED BY <1>1, <1>2, <1>3

\* The constructor and init establish the ranges.
LEMMA InitType == Init => TypeOK
<1>. SUFFICES ASSUME Init PROVE TypeOK
  OBVIOUS
<1>1. [rec |-> 0, module |-> NoEntry, shift |-> 0] \in Header
  BY DEF Header
<1>2. buffer \in [Slots -> [hdr : Header, vals : Nat]]
  BY <1>1 DEF Init
<1>3. writer \in [Writers -> WriterLocals]
  BY IdleWriterType DEF Init
<1>4. reader \in [pc : {"idle", "copy", "use"}, end : Slots, out : Seq(Copied)]
  BY ZeroSlot DEF Init
<1>5. delivered \in Seq([hdr : Header, vals : Nat])
  BY DEF Init
<1>. QED BY <1>2, <1>3, <1>4, <1>5, ZeroSlot DEF Init, TypeOK

\* Every step keeps every variable in its range.
LEMMA NextType == TypeOK /\ [Next]_vars => TypeOK'
<1>. SUFFICES ASSUME TypeOK, [Next]_vars PROVE TypeOK'
  OBVIOUS
<1>1. ASSUME NEW w \in Writers, NEW m \in Modules, NEW packet \in 0 .. MaxPacket,
             Reserve(w, m, packet)
      PROVE  TypeOK'
  <2>. DEFINE cnt == TakeMin(packet, MaxBatch)
  <2>1. cnt \in Nat /\ cnt \in 0 .. BufSz /\ cnt \in 0 .. MaxBatch
    BY <1>1, CountType, MaxBatchFact, BufferAssumption DEF Reserve
  <2>2. Advance(buffWritePos, cnt) \in Slots
    BY <2>1, AdvanceInSlots DEF TypeOK
  <2>3. NextShift(m) \in Nat
    BY NextShiftType
  <2>4. [pc |-> "header", first |-> reserved + 1, cnt |-> cnt, copied |-> 0,
         wPos |-> buffWritePos, wPosMem |-> buffWritePos,
         module |-> m, shift |-> NextShift(m)] \in WriterLocals
    BY <2>1, <2>3 DEF TypeOK, WriterLocals
  <2>5. writer' \in [Writers -> WriterLocals]
    BY <1>1, <2>4 DEF Reserve, TypeOK
  <2>6. timeOffsetMs' \in [Modules -> Nat \cup {NoEntry}]
    BY <1>1, <2>3 DEF Reserve, TypeOK
  <2>7. reserved' \in Nat /\ overrun' \in BOOLEAN
    BY <1>1, <2>1 DEF Reserve, TypeOK
  <2>. QED BY <1>1, <2>2, <2>5, <2>6, <2>7 DEF Reserve, TypeOK
<1>2. ASSUME NEW w \in Writers, CopyHeader(w)
      PROVE  TypeOK'
  <2>1. [rec |-> writer[w].first + writer[w].copied, module |-> writer[w].module,
         shift |-> writer[w].shift] \in Header
    BY WriterType DEF WriterLocals, Header
  <2>2. buffer' \in [Slots -> [hdr : Header, vals : Nat]]
    BY <1>2, <2>1 DEF CopyHeader, TypeOK
  <2>3. [writer[w] EXCEPT !.pc = "values"] \in WriterLocals
    BY WriterType DEF WriterLocals
  <2>4. writer' \in [Writers -> WriterLocals]
    BY <1>2, <2>3 DEF CopyHeader, TypeOK
  <2>. QED BY <1>2, <2>2, <2>4 DEF CopyHeader, TypeOK
<1>3. ASSUME NEW w \in Writers, CopyValues(w)
      PROVE  TypeOK'
  <2>1. writer[w].first + writer[w].copied \in Nat /\ writer[w].copied + 1 \in Nat
    BY WriterType
  <2>2. buffer' \in [Slots -> [hdr : Header, vals : Nat]]
    BY <1>3, <2>1 DEF CopyValues, TypeOK
  <2>3. Advance(writer[w].wPos, 1) \in Slots
    BY AdvanceInSlots, BufferAssumption, WriterType
  <2>4. ASSUME NEW pc \in {"publish", "header"}
        PROVE  [writer[w] EXCEPT !.wPos = Advance(writer[w].wPos, 1),
                                 !.copied = writer[w].copied + 1,
                                 !.pc = pc] \in WriterLocals
    BY <2>1, <2>3, WriterType DEF WriterLocals
  <2>5. writer' \in [Writers -> WriterLocals]
    BY <1>3, <2>4 DEF CopyValues, TypeOK
  <2>. QED BY <1>3, <2>2, <2>5 DEF CopyValues, TypeOK
<1>4. ASSUME NEW w \in Writers, Publish(w)
      PROVE  TypeOK'
  <2>1. Advance(buffWritePosForReader, writer[w].cnt) \in Slots
    BY AdvanceInSlots, WriterType DEF TypeOK
  <2>2. writer' \in [Writers -> WriterLocals]
    BY <1>4, IdleWriterType DEF Publish, TypeOK
  <2>3. published' \in Nat
    BY <1>4, WriterType DEF Publish, TypeOK
  <2>. QED BY <1>4, <2>1, <2>2, <2>3 DEF Publish, TypeOK
<1>5. CASE Snapshot
  <2>1. reader' \in [pc : {"idle", "copy", "use"}, end : Slots, out : Seq(Copied)]
    BY <1>5 DEF Snapshot, VisibleEnd, TypeOK
  <2>. QED BY <1>5, <2>1 DEF Snapshot, TypeOK
<1>6. CASE CopyOut
  <2>1. [hdr |-> buffer[buffReadPos].hdr, pos |-> buffReadPos] \in Copied
    BY DEF Copied, TypeOK
  <2>2. Append(reader.out, [hdr |-> buffer[buffReadPos].hdr, pos |-> buffReadPos])
          \in Seq(Copied)
    BY <2>1 DEF TypeOK
  <2>3. reader' \in [pc : {"idle", "copy", "use"}, end : Slots, out : Seq(Copied)]
    BY <1>6, <2>2 DEF CopyOut, TypeOK
  <2>4. Advance(buffReadPos, 1) \in Slots
    BY AdvanceInSlots, BufferAssumption DEF TypeOK
  <2>. QED BY <1>6, <2>3, <2>4 DEF CopyOut, TypeOK
<1>7. CASE EndCopy
  <2>1. AfterCopy \in {"idle", "copy", "use"}
    BY DEF AfterCopy
  <2>2. reader' \in [pc : {"idle", "copy", "use"}, end : Slots, out : Seq(Copied)]
    BY <1>7, <2>1 DEF EndCopy, TypeOK
  <2>3. reader'.pc = "use" => reader'.out # <<>>
    BY <1>7 DEF EndCopy, AfterCopy, TypeOK
  <2>. QED BY <1>7, <2>2, <2>3 DEF EndCopy, TypeOK
<1>8. CASE Use
  <2>. DEFINE first == Head(reader.out)
  <2>1. reader.out \in Seq(Copied) /\ first \in Copied /\ Tail(reader.out) \in Seq(Copied)
    BY <1>8 DEF Use, TypeOK
  <2>2. [hdr |-> first.hdr, vals |-> buffer[first.pos].vals] \in [hdr : Header, vals : Nat]
    BY <2>1 DEF Copied, TypeOK
  <2>3. delivered' \in Seq([hdr : Header, vals : Nat])
    BY <1>8, <2>2 DEF Use, TypeOK
  <2>4. reader' \in [pc : {"idle", "copy", "use"}, end : Slots, out : Seq(Copied)]
    BY <1>8, <2>1 DEF Use, TypeOK
  <2>5. reader'.pc = "use" => reader'.out # <<>>
    <3>1. /\ reader'.out = Tail(reader.out)
          /\ reader'.pc = "use" => Len(reader.out) # 1
      BY <1>8 DEF Use, TypeOK
    <3>2. reader.out # <<>>
      BY <1>8 DEF Use, TypeOK
    <3>. QED BY <2>1, <3>1, <3>2, TailNonEmpty
  <2>. QED BY <1>8, <2>3, <2>4, <2>5 DEF Use, TypeOK
<1>9. CASE UNCHANGED vars
  BY <1>9 DEF vars, TypeOK
<1>. QED BY <1>1, <1>2, <1>3, <1>4, <1>5, <1>6, <1>7, <1>8, <1>9
         DEF Next, WriterStep, ReaderStep

\* The three positions and every slot number a thread of the server holds stay
\* inside the ring, however the threads interleave (buffer_data.cpp:62-129).
THEOREM TypeCorrect == Spec => []TypeOK
BY InitType, NextType, PTL DEF Spec

-----------------------------------------------------------------------------
(* The inductive invariant.  Records are named by their numbers; At ties   *)
(* numbers to ring positions.                                              *)

\* The write position stands after the last reserved record, the position for
\* the reader after the last published one.
Cursors ==
  /\ published <= reserved
  /\ At(buffWritePos, reserved)
  /\ At(buffWritePosForReader, published)

\* A thread in flight holds unpublished records and has copied the first of
\* them.
Holdings ==
  \A w \in Writers : InFlight(w) =>
    /\ writer[w].cnt >= 1
    /\ writer[w].first > published
    /\ writer[w].first + writer[w].cnt - 1 <= reserved
    /\ At(writer[w].wPosMem, writer[w].first - 1)
    /\ At(writer[w].wPos, writer[w].first - 1 + writer[w].copied)
    /\ writer[w].copied <= writer[w].cnt
    /\ writer[w].pc = "publish" <=> writer[w].copied = writer[w].cnt

Before(v, w) == writer[v].first + writer[v].cnt <= writer[w].first

Disjoint ==
  \A v, w \in Writers :
    v # w /\ InFlight(v) /\ InFlight(w) => Before(v, w) \/ Before(w, v)

\* Every record between the two positions is held by a thread.
Covered ==
  \A r \in published + 1 .. reserved : \E w \in Writers :
    InFlight(w) /\ writer[w].first <= r /\ r < writer[w].first + writer[w].cnt

HeaderIn(r) == \A s \in Slots : At(s, r - 1) => buffer[s].hdr.rec = r
Whole(r)    == HeaderIn(r) /\ \A s \in Slots : At(s, r - 1) => buffer[s].vals = r

\* Without an overrun, what is published and not processed is in the ring, and
\* so is what the threads in flight have copied so far.
Contents ==
  ~overrun =>
    /\ reserved - Len(delivered) < BufSz
    /\ \A r \in Len(delivered) + 1 .. published : Whole(r)
    /\ \A w \in Writers : InFlight(w) =>
         /\ \A r \in writer[w].first .. writer[w].first + writer[w].copied - 1 : Whole(r)
         /\ writer[w].pc = "values" => HeaderIn(writer[w].first + writer[w].copied)

\* Without an overrun, the reader has copied the next records to be processed,
\* and stops at a published one.
ReaderFollows ==
  /\ reader.pc = "idle" => reader.out = <<>>
  /\ ~overrun =>
       /\ Len(delivered) + Len(reader.out) <= published
       /\ At(buffReadPos, Len(delivered) + Len(reader.out))
       /\ reader.pc = "copy" =>
            \E e \in Len(delivered) + Len(reader.out) .. published : At(reader.end, e)
       /\ \A i \in 1 .. Len(reader.out) :
            /\ reader.out[i].hdr.rec = Len(delivered) + i
            /\ At(reader.out[i].pos, Len(delivered) + i - 1)

IInv ==
  /\ TypeOK
  /\ Cursors
  /\ Holdings
  /\ Disjoint
  /\ Covered
  /\ Contents
  /\ ReaderFollows
  /\ IntactDelivery

-----------------------------------------------------------------------------
(* The threads hold disjoint runs of at most MaxBatch records each, so all   *)
(* that is reserved and unpublished fits into the ring.                      *)

\* The number of records between two positions.
LEMMA IntervalSize ==
  ASSUME NEW p \in Nat, NEW r \in Nat, p <= r
  PROVE  Cardinality(p + 1 .. r) = r - p
<1>1. Cardinality(p + 1 .. r) = IF p + 1 > r THEN 0 ELSE r - (p + 1) + 1
  BY FS_Interval
<1>. QED BY <1>1

\* What is reserved and not yet published never exceeds the ring.
LEMMA WindowBound ==
  ASSUME TypeOK, Cursors, Holdings, Covered
  PROVE  reserved - published <= BufSz
<1>. DEFINE R        == published + 1 .. reserved
            Has(w, r) == /\ InFlight(w)
                         /\ writer[w].first <= r
                         /\ r < writer[w].first + writer[w].cnt
            own      == [r \in R |-> CHOOSE w \in Writers : Has(w, r)]
            P        == Writers \X (0 .. MaxBatch - 1)
            f        == [r \in R |-> <<own[r], r - writer[own[r]].first>>]
<1>1. \A r \in R : own[r] \in Writers /\ Has(own[r], r)
  BY DEF Covered
<1>2. ASSUME NEW r \in R PROVE f[r] \in P
  <2>1. own[r] \in Writers /\ Has(own[r], r)
    BY <1>1
  <2>2. r - writer[own[r]].first \in 0 .. MaxBatch - 1
    <3>1. /\ writer[own[r]].first \in Nat /\ writer[own[r]].cnt \in 0 .. MaxBatch
          /\ MaxBatch \in Nat
      BY <2>1, WriterType, MaxBatchFact
    <3>2. r \in Int
      BY DEF TypeOK
    <3>3. writer[own[r]].first <= r /\ r < writer[own[r]].first + writer[own[r]].cnt
      BY <2>1
    <3>. QED BY <3>1, <3>2, <3>3
  <2>. QED BY <2>1, <2>2
<1>3. ASSUME NEW q \in R, NEW r \in R, f[q] = f[r] PROVE q = r
  <2>1. <<own[q], q - writer[own[q]].first>> = <<own[r], r - writer[own[r]].first>>
    BY <1>3
  <2>2. own[q] = own[r] /\ q - writer[own[q]].first = r - writer[own[r]].first
    BY <2>1, Zenon
  <2>3. writer[own[q]].first \in Nat
    BY <1>1, WriterType
  <2>4. q \in Int /\ r \in Int
    BY DEF TypeOK
  <2>. HIDE DEF own
  <2>. QED BY <2>2, <2>3, <2>4
<1>4. f \in Injection(R, P)
  BY <1>2, <1>3 DEF Injection, IsInjective
<1>5. IsFiniteSet(0 .. MaxBatch - 1) /\ Cardinality(0 .. MaxBatch - 1) = MaxBatch
  BY FS_Interval, MaxBatchFact
<1>6. IsFiniteSet(P) /\ Cardinality(P) = Cardinality(Writers) * MaxBatch
  <2>1. IsFiniteSet(Writers)
    BY BufferAssumption
  <2>. QED BY <2>1, <1>5, FS_Product, Zenon
<1>7. Cardinality(R) <= Cardinality(P)
  <2>. HIDE DEF R, P, f
  <2>. QED BY <1>4, <1>6, FS_Injection
<1>8. Cardinality(R) = reserved - published
  BY IntervalSize DEF TypeOK, Cursors
<1>9. Cardinality(Writers) \in Nat
  BY FS_CardinalityType, BufferAssumption
<1>10. Cardinality(Writers) * MaxBatch <= MaxBatch * BatchShare
  BY <1>9, MaxBatchFact, BufferAssumption
<1>11. Cardinality(Writers) * MaxBatch \in Nat /\ MaxBatch * BatchShare \in Nat
  BY <1>9, MaxBatchFact, BufferAssumption
<1>12. reserved - published <= Cardinality(Writers) * MaxBatch
  BY <1>6, <1>7, <1>8
<1>. QED BY <1>10, <1>11, <1>12, MaxBatchFact, BufferAssumption DEF TypeOK

\* Within one turn of the ring a position names one record.
LEMMA SameRecord ==
  ASSUME NEW s \in Slots, NEW p \in Nat, NEW q \in Nat, At(s, p), At(s, q),
         p - q < BufSz, q - p < BufSz
  PROVE  p = q
<1>1. CASE p < q
  BY <1>1, AtTurn, BufferAssumption
<1>2. CASE q < p
  BY <1>2, AtTurn, BufferAssumption
<1>. QED BY <1>1, <1>2

\* What Holdings says of one thread in flight, in numbers.
LEMMA HoldingsOf ==
  ASSUME TypeOK, Cursors, Holdings, NEW w \in Writers, InFlight(w)
  PROVE  /\ writer[w].cnt \in Nat /\ writer[w].cnt >= 1
         /\ writer[w].first \in Nat /\ writer[w].first >= 1
         /\ writer[w].copied \in Nat /\ writer[w].copied <= writer[w].cnt
         /\ writer[w].first > published
         /\ writer[w].first + writer[w].cnt - 1 <= reserved
         /\ writer[w].first - 1 \in Nat
         /\ writer[w].wPos \in Slots /\ writer[w].wPosMem \in Slots
         /\ At(writer[w].wPosMem, writer[w].first - 1)
         /\ At(writer[w].wPos, writer[w].first - 1 + writer[w].copied)
         /\ writer[w].pc = "publish" <=> writer[w].copied = writer[w].cnt
<1>1. writer[w].cnt \in Nat
  BY WriterType, MaxBatchFact
<1>2. published \in Nat /\ reserved \in Nat
  BY DEF TypeOK
<1>. QED BY <1>1, <1>2, WriterType DEF Holdings

\* Disjoint runs of records lie in disjoint slots.
LEMMA ExclusionFromInv ==
  ASSUME TypeOK, Cursors, Holdings, Disjoint, Covered
  PROVE  WriterExclusion
<1>. SUFFICES ASSUME NEW v \in Writers, NEW w \in Writers, v # w, InFlight(v), InFlight(w),
                     NEW i \in 0 .. writer[v].cnt - 1, NEW j \in 0 .. writer[w].cnt - 1,
                     Advance(writer[v].wPosMem, i) = Advance(writer[w].wPosMem, j)
              PROVE  FALSE
  BY DEF WriterExclusion, Owned
<1>. DEFINE s == Advance(writer[v].wPosMem, i)
            p == writer[v].first - 1 + i
            q == writer[w].first - 1 + j
<1>1. i \in 0 .. BufSz /\ j \in 0 .. BufSz
  BY WriterType, MaxBatchFact, BufferAssumption
<1>2. s \in Slots
  BY <1>1, WriterType, AdvanceInSlots
<1>3. At(s, p) /\ At(s, q)
  BY <1>1, HoldingsOf, AtAdvance
<1>4. p \in Nat /\ q \in Nat /\ p # q
  BY HoldingsOf DEF Disjoint, Before
<1>5. p >= published /\ p < reserved /\ q >= published /\ q < reserved
  <2>1. published \in Nat /\ reserved \in Nat
    BY DEF TypeOK
  <2>2. p >= published /\ p < reserved
    BY <2>1, HoldingsOf
  <2>3. q >= published /\ q < reserved
    BY <2>1, HoldingsOf
  <2>. QED BY <2>2, <2>3
<1>. HIDE DEF s, p, q
<1>6. p - q < BufSz /\ q - p < BufSz
  <2>1. /\ published \in Nat /\ reserved \in Nat /\ BufSz \in Nat
        /\ reserved - published <= BufSz
    BY WindowBound, BufferAssumption DEF TypeOK
  <2>. QED BY <1>4, <1>5, <2>1
<1>. QED BY <1>2, <1>3, <1>4, <1>6, SameRecord

-----------------------------------------------------------------------------
(* Every action preserves the invariant.                                   *)

\* The empty ring satisfies the invariant.
LEMMA InitInv == Init => IInv
<1>. SUFFICES ASSUME Init PROVE IInv
  OBVIOUS
<1>1. At(0, 0)
  BY BufferAssumption DEF At
<1>2. \A w \in Writers : ~InFlight(w)
  BY DEF Init, InFlight, IdleWriter
<1>3. Len(<<>>) = 0
  OBVIOUS
<1>4. Cursors
  BY <1>1 DEF Init, Cursors
<1>5. Holdings /\ Disjoint
  BY <1>2 DEF Holdings, Disjoint
<1>6. Covered
  BY DEF Init, Covered
<1>7. Contents
  BY <1>2, <1>3, BufferAssumption DEF Init, Contents
<1>8. ReaderFollows
  BY <1>1, <1>3 DEF Init, ReaderFollows
<1>9. IntactDelivery
  BY DEF Init, IntactDelivery
<1>. QED BY <1>4, <1>5, <1>6, <1>7, <1>8, <1>9, InitType DEF IInv

\* The section under m_mtxWrite preserves the invariant.
LEMMA ReserveInv ==
  ASSUME IInv, TypeOK', NEW w \in Writers, NEW m \in Modules, NEW packet \in 0 .. MaxPacket,
         Reserve(w, m, packet)
  PROVE  IInv'
<1>. DEFINE cnt == TakeMin(packet, MaxBatch)
            new == [pc |-> "header", first |-> reserved + 1, cnt |-> cnt, copied |-> 0,
                    wPos |-> buffWritePos, wPosMem |-> buffWritePos,
                    module |-> m, shift |-> NextShift(m)]
<1>1. cnt \in Nat /\ cnt >= 1 /\ cnt \in 0 .. BufSz
  BY CountType, MaxBatchFact, BufferAssumption DEF Reserve
<1>2. /\ ~InFlight(w) /\ InFlight(w)'
      /\ writer'[w] = new
      /\ \A v \in Writers \ {w} : writer'[v] = writer[v] /\ (InFlight(v)' <=> InFlight(v))
  BY DEF Reserve, InFlight, IInv, TypeOK
<1>3. /\ reserved' = reserved + cnt
      /\ reserved \in Nat /\ published \in Nat /\ published <= reserved
      /\ UNCHANGED <<buffer, buffWritePosForReader, buffReadPos, reader, published, delivered>>
      /\ buffWritePos' = Advance(buffWritePos, cnt)
  BY DEF Reserve, IInv, TypeOK, Cursors
<1>. HIDE DEF cnt
<1>4. Cursors'
  <2>1. At(Advance(buffWritePos, cnt), reserved + cnt)
    BY <1>1, <1>3, AtAdvance DEF Cursors, IInv, TypeOK
  <2>2. At(buffWritePosForReader, published)
    BY DEF Cursors, IInv
  <2>3. published <= reserved + cnt
    BY <1>1, <1>3
  <2>. QED BY <1>3, <2>1, <2>2, <2>3 DEF Cursors, At
<1>5. Holdings'
  <2>. SUFFICES ASSUME NEW v \in Writers, InFlight(v)'
                PROVE  /\ writer'[v].cnt >= 1
                       /\ writer'[v].first > published
                       /\ writer'[v].first + writer'[v].cnt - 1 <= reserved'
                       /\ At(writer'[v].wPosMem, writer'[v].first - 1)
                       /\ At(writer'[v].wPos, writer'[v].first - 1 + writer'[v].copied)
                       /\ writer'[v].copied <= writer'[v].cnt
                       /\ writer'[v].pc = "publish" <=> writer'[v].copied = writer'[v].cnt
    BY <1>3 DEF Holdings, At
  <2>1. CASE v = w
    <3>1. reserved + 1 - 1 = reserved /\ reserved + 1 - 1 + 0 = reserved
      BY <1>3
    <3>2. At(buffWritePos, reserved)
      BY DEF IInv, Cursors
    <3>. QED BY <2>1, <1>1, <1>2, <1>3, <3>1, <3>2
  <2>2. CASE v # w
    BY <2>2, <1>1, <1>2, <1>3, HoldingsOf DEF IInv
  <2>. QED BY <2>1, <2>2
<1>6. Disjoint'
  <2>. SUFFICES ASSUME NEW u \in Writers, NEW v \in Writers, u # v, InFlight(u)', InFlight(v)'
                PROVE  Before(u, v)' \/ Before(v, u)'
    BY DEF Disjoint
  <2>1. ASSUME NEW x \in Writers, x # w, InFlight(x)'
        PROVE  Before(x, w)'
    BY <2>1, <1>2, <1>3, HoldingsOf DEF IInv, Before
  <2>2. CASE u # w /\ v # w
    BY <2>2, <1>2 DEF IInv, Disjoint, Before
  <2>. QED BY <2>1, <2>2
<1>7. Covered'
  <2>. SUFFICES ASSUME NEW r \in published + 1 .. reserved'
                PROVE  \E v \in Writers : /\ InFlight(v)'
                                          /\ writer'[v].first <= r
                                          /\ r < writer'[v].first + writer'[v].cnt
    BY <1>3 DEF Covered
  <2>1. CASE r > reserved
    BY <2>1, <1>1, <1>2, <1>3
  <2>2. CASE ~(r > reserved)
    <3>1. PICK v \in Writers : /\ InFlight(v)
                               /\ writer[v].first <= r
                               /\ r < writer[v].first + writer[v].cnt
      BY <2>2, <1>3 DEF IInv, Covered
    <3>. QED BY <3>1, <1>2
  <2>. QED BY <2>1, <2>2
<1>8. ~overrun' => ~overrun /\ reserved' - Len(delivered) < BufSz
  <2>. DEFINE backlog == reserved + cnt - Len(delivered)
  <2>1. overrun' = (overrun \/ backlog >= BufSz)
    BY DEF Reserve, cnt
  <2>2. Len(delivered) \in Nat
    BY DEF IInv, TypeOK
  <2>3. backlog \in Int
    BY <1>1, <1>3, <2>2
  <2>4. ~(backlog >= BufSz) => backlog < BufSz
    BY <2>3, BufferAssumption
  <2>5. reserved' - Len(delivered) = backlog
    BY <1>1, <1>3, <2>2
  <2>. HIDE DEF backlog
  <2>. QED BY <2>1, <2>4, <2>5, Zenon
<1>9. Contents'
  <2>. SUFFICES ASSUME ~overrun'
                PROVE  /\ reserved' - Len(delivered') < BufSz
                       /\ \A r \in Len(delivered') + 1 .. published' : Whole(r)'
                       /\ \A v \in Writers : InFlight(v)' =>
                            /\ \A r \in writer'[v].first ..
                                        writer'[v].first + writer'[v].copied - 1 : Whole(r)'
                            /\ writer'[v].pc = "values" =>
                                 HeaderIn(writer[v].first + writer[v].copied)'
    BY DEF Contents
  <2>1. \A r : (Whole(r)' <=> Whole(r)) /\ (HeaderIn(r)' <=> HeaderIn(r))
    BY <1>3 DEF Whole, HeaderIn, At
  <2>. QED BY <2>1, <1>2, <1>3, <1>8 DEF IInv, Contents
<1>10. ReaderFollows' /\ IntactDelivery'
  BY <1>3, <1>8 DEF IInv, ReaderFollows, IntactDelivery, At
<1>. QED BY <1>4, <1>5, <1>6, <1>7, <1>9, <1>10 DEF IInv

\* A store into the slot of record q leaves the other records of the window
\* alone.
LEMMA KeepRecord ==
  ASSUME TypeOK, TypeOK', NEW t \in Slots, NEW q \in Nat, q >= 1, At(t, q - 1),
         \A s \in Slots : s # t => buffer'[s] = buffer[s],
         NEW r \in Nat, r >= 1, r # q, r - q < BufSz, q - r < BufSz
  PROVE  /\ Whole(r) => Whole(r)'
         /\ HeaderIn(r) => HeaderIn(r)'
<1>1. ASSUME NEW s \in Slots, At(s, r - 1)
      PROVE  s # t
  <2>1. r - 1 \in Nat /\ q - 1 \in Nat /\ r - 1 # q - 1
    OBVIOUS
  <2>2. (r - 1) - (q - 1) < BufSz /\ (q - 1) - (r - 1) < BufSz
    BY BufferAssumption
  <2>. QED BY <1>1, <2>1, <2>2, SameRecord
<1>. QED BY <1>1 DEF Whole, HeaderIn, At

\* What the two copying steps have in common.
LEMMA CopyKeeps ==
  ASSUME IInv, TypeOK', NEW w \in Writers, InFlight(w), writer[w].copied < writer[w].cnt,
         ~overrun, \A s \in Slots : s # writer[w].wPos => buffer'[s] = buffer[s],
         NEW CONSTANT q, q = writer[w].first + writer[w].copied
  PROVE  /\ \A r \in Len(delivered) + 1 .. published : Whole(r)'
         /\ \A v \in Writers \ {w} : InFlight(v) =>
              /\ \A r \in writer[v].first .. writer[v].first + writer[v].copied - 1 : Whole(r)'
              /\ \A r : writer[v].pc = "values" /\ r = writer[v].first + writer[v].copied
                     => HeaderIn(r)'
         /\ \A r \in writer[w].first .. q - 1 : Whole(r)'
         /\ q \in Nat /\ q >= 1 /\ At(writer[w].wPos, q - 1)
<1>. DEFINE D == Len(delivered)
<1>1. D \in Nat /\ published \in Nat /\ reserved \in Nat
  BY DEF IInv, TypeOK
<1>2. D <= published /\ reserved - D < BufSz
  <2>1. Len(reader.out) \in Nat
    BY DEF IInv, TypeOK
  <2>. QED BY <1>1, <2>1 DEF IInv, Contents, ReaderFollows
<1>. HIDE DEF D
<1>3. q \in Nat /\ q > published /\ q <= reserved /\ At(writer[w].wPos, q - 1)
  BY <1>1, HoldingsOf DEF IInv
<1>4. ASSUME NEW r \in Nat, r > D, r <= reserved, r # q
      PROVE  (Whole(r) => Whole(r)') /\ (HeaderIn(r) => HeaderIn(r)')
  <2>1. r - q < BufSz /\ q - r < BufSz /\ r >= 1 /\ q >= 1
    BY <1>1, <1>2, <1>3, <1>4, BufferAssumption
  <2>2. writer[w].wPos \in Slots
    BY WriterType DEF IInv
  <2>. QED BY <1>3, <1>4, <2>1, <2>2, KeepRecord DEF IInv
<1>5. ASSUME NEW r \in D + 1 .. published
      PROVE  Whole(r)'
  <2>1. r \in Nat /\ r > D /\ r <= reserved /\ r # q
    BY <1>1, <1>3 DEF IInv, Cursors
  <2>2. Whole(r)
    BY DEF IInv, Contents, D
  <2>. QED BY <1>4, <2>1, <2>2
<1>6. ASSUME NEW v \in Writers \ {w}, InFlight(v)
      PROVE  /\ \A r \in writer[v].first .. writer[v].first + writer[v].copied - 1 : Whole(r)'
             /\ \A r : writer[v].pc = "values" /\ r = writer[v].first + writer[v].copied
                     => HeaderIn(r)'
  <2>1. \A r \in writer[v].first .. writer[v].first + writer[v].cnt - 1 :
          r \in Nat /\ r > D /\ r <= reserved /\ r # q
    <3>1. Before(v, w) \/ Before(w, v)
      BY <1>6 DEF IInv, Disjoint
    <3>2. /\ writer[v].first \in Nat /\ writer[v].cnt \in Nat /\ writer[v].first > published
          /\ writer[v].first + writer[v].cnt - 1 <= reserved
      BY <1>6, HoldingsOf DEF IInv
    <3>3. /\ writer[w].first \in Nat /\ writer[w].cnt \in Nat /\ writer[w].copied \in Nat
      BY HoldingsOf DEF IInv
    <3>. QED BY <1>1, <1>2, <3>1, <3>2, <3>3 DEF Before
  <2>2. ASSUME NEW r \in writer[v].first .. writer[v].first + writer[v].copied - 1
        PROVE  Whole(r)'
    <3>1. r \in writer[v].first .. writer[v].first + writer[v].cnt - 1
      BY <1>6, HoldingsOf DEF IInv
    <3>2. Whole(r)
      BY <1>6 DEF IInv, Contents
    <3>. QED BY <1>4, <2>1, <3>1, <3>2
  <2>3. ASSUME NEW r, writer[v].pc = "values", r = writer[v].first + writer[v].copied
        PROVE  HeaderIn(r)'
    <3>0. /\ writer[v].copied \in Nat /\ writer[v].cnt \in Nat /\ writer[v].first \in Nat
          /\ writer[v].copied <= writer[v].cnt
          /\ writer[v].copied # writer[v].cnt
      <4>1. v \in Writers /\ InFlight(v) /\ writer[v].pc # "publish"
        BY <1>6, <2>3
      <4>. QED BY <4>1, HoldingsOf DEF IInv
    <3>1. r \in writer[v].first .. writer[v].first + writer[v].cnt - 1
      <4>1. \A f, c, n \in Nat : c <= n /\ c # n => f + c \in f .. f + n - 1
        OBVIOUS
      <4>. QED BY <2>3, <3>0, <4>1
    <3>2. HeaderIn(r)
      BY <1>6, <2>3 DEF IInv, Contents
    <3>. QED BY <1>4, <2>1, <3>1, <3>2
  <2>. QED BY <2>2, <2>3
<1>7. ASSUME NEW r \in writer[w].first .. q - 1
      PROVE  Whole(r)'
  <2>1. /\ writer[w].first \in Nat /\ writer[w].first > published
        /\ writer[w].copied \in Nat
    BY HoldingsOf DEF IInv
  <2>2. r \in Nat /\ r > D /\ r <= reserved /\ r # q
    BY <1>1, <1>2, <1>3, <2>1
  <2>3. Whole(r)
    BY <2>1 DEF IInv, Contents
  <2>. QED BY <1>4, <2>2, <2>3
<1>. QED BY <1>3, <1>5, <1>6, <1>7, <1>1 DEF D

\* The conjuncts that speak of counts and positions only survive the copying
\* steps.
LEMMA CopyCounts ==
  ASSUME IInv, TypeOK', NEW w \in Writers, InFlight(w), InFlight(w)',
         \A v \in Writers \ {w} : writer'[v] = writer[v],
         writer'[w].first = writer[w].first, writer'[w].cnt = writer[w].cnt,
         writer'[w].wPosMem = writer[w].wPosMem, writer'[w].copied \in 0 .. writer[w].cnt,
         At(writer'[w].wPos, writer[w].first - 1 + writer'[w].copied),
         writer'[w].pc = "publish" <=> writer'[w].copied = writer[w].cnt,
         UNCHANGED <<buffWritePos, buffWritePosForReader, buffReadPos, reader, reserved,
                     published, delivered, overrun>>
  PROVE  /\ Cursors' /\ Holdings' /\ Disjoint' /\ Covered'
         /\ ReaderFollows' /\ IntactDelivery'
<1>1. \A v \in Writers : /\ InFlight(v)' <=> InFlight(v)
                         /\ writer'[v].first = writer[v].first
                         /\ writer'[v].cnt = writer[v].cnt
  BY DEF InFlight
<1>2. Cursors'
  BY DEF IInv, Cursors, At
<1>3. Holdings'
  <2>. SUFFICES ASSUME NEW v \in Writers, InFlight(v)'
                PROVE  /\ writer'[v].cnt >= 1
                       /\ writer'[v].first > published
                       /\ writer'[v].first + writer'[v].cnt - 1 <= reserved
                       /\ At(writer'[v].wPosMem, writer'[v].first - 1)
                       /\ At(writer'[v].wPos, writer'[v].first - 1 + writer'[v].copied)
                       /\ writer'[v].copied <= writer'[v].cnt
                       /\ writer'[v].pc = "publish" <=> writer'[v].copied = writer'[v].cnt
    BY DEF Holdings, At
  <2>1. CASE v = w
    BY <2>1, HoldingsOf DEF IInv
  <2>2. CASE v # w
    BY <2>2, <1>1, HoldingsOf DEF IInv
  <2>. QED BY <2>1, <2>2
<1>4. Disjoint'
  BY <1>1 DEF IInv, Disjoint, Before
<1>5. Covered'
  BY <1>1 DEF IInv, Covered
<1>6. ReaderFollows' /\ IntactDelivery'
  BY DEF IInv, ReaderFollows, IntactDelivery, At
<1>. QED BY <1>2, <1>3, <1>4, <1>5, <1>6

\* Storing the header of a record preserves the invariant.
LEMMA CopyHeaderInv ==
  ASSUME IInv, TypeOK', NEW w \in Writers, CopyHeader(w)
  PROVE  IInv'
<1>1. InFlight(w) /\ InFlight(w)' /\ writer[w].copied < writer[w].cnt
  <2>1. InFlight(w) /\ InFlight(w)' /\ writer[w].pc # "publish"
    BY DEF CopyHeader, InFlight, IInv, TypeOK
  <2>. QED BY <2>1, HoldingsOf DEF IInv
<1>2. /\ \A v \in Writers \ {w} : writer'[v] = writer[v]
      /\ writer'[w] = [writer[w] EXCEPT !.pc = "values"]
  BY DEF CopyHeader, IInv, TypeOK
<1>3. /\ writer'[w].first = writer[w].first /\ writer'[w].cnt = writer[w].cnt
      /\ writer'[w].wPosMem = writer[w].wPosMem /\ writer'[w].copied = writer[w].copied
      /\ writer'[w].wPos = writer[w].wPos /\ writer'[w].pc = "values"
  BY <1>2, WriterType DEF IInv, WriterLocals
<1>4. /\ writer'[w].copied \in 0 .. writer[w].cnt
      /\ At(writer'[w].wPos, writer[w].first - 1 + writer'[w].copied)
      /\ writer'[w].pc = "publish" <=> writer'[w].copied = writer[w].cnt
  BY <1>1, <1>3, HoldingsOf DEF IInv
<1>5. /\ Cursors' /\ Holdings' /\ Disjoint' /\ Covered'
      /\ ReaderFollows' /\ IntactDelivery'
  BY <1>1, <1>2, <1>3, <1>4, CopyCounts DEF CopyHeader
<1>6. Contents'
  <2>. SUFFICES ASSUME ~overrun
                PROVE  /\ reserved - Len(delivered) < BufSz
                       /\ \A r \in Len(delivered) + 1 .. published : Whole(r)'
                       /\ \A v \in Writers : InFlight(v)' =>
                            /\ \A r \in writer'[v].first ..
                                        writer'[v].first + writer'[v].copied - 1 : Whole(r)'
                            /\ \A r : writer'[v].pc = "values"
                                        /\ r = writer'[v].first + writer'[v].copied
                                      => HeaderIn(r)'
    BY DEF Contents, CopyHeader
  <2>. DEFINE q == writer[w].first + writer[w].copied
  <2>1. /\ \A s \in Slots : s # writer[w].wPos => buffer'[s] = buffer[s]
        /\ buffer'[writer[w].wPos].hdr.rec = q
    <3>1. writer[w].wPos \in Slots /\ buffer \in [Slots -> [hdr : Header, vals : Nat]]
      BY WriterType DEF IInv, TypeOK
    <3>2. buffer' = [buffer EXCEPT ![writer[w].wPos].hdr =
                       [rec    |-> q,
                        module |-> writer[w].module,
                        shift  |-> writer[w].shift]]
      BY DEF CopyHeader
    <3>. HIDE DEF q
    <3>. QED BY <3>1, <3>2
  <2>2. reserved - Len(delivered) < BufSz
    BY DEF IInv, Contents
  <2>3. PICK k : k = q
    OBVIOUS
  <2>4. /\ \A r \in Len(delivered) + 1 .. published : Whole(r)'
        /\ \A v \in Writers \ {w} : InFlight(v) =>
              /\ \A r \in writer[v].first .. writer[v].first + writer[v].copied - 1 : Whole(r)'
              /\ \A r : writer[v].pc = "values" /\ r = writer[v].first + writer[v].copied
                     => HeaderIn(r)'
        /\ \A r \in writer[w].first .. k - 1 : Whole(r)'
        /\ k \in Nat /\ k >= 1 /\ At(writer[w].wPos, k - 1)
    BY <1>1, <2>1, <2>3, CopyKeeps
  <2>5. HeaderIn(k)'
    <3>1. \A s \in Slots : At(s, k - 1) => s = writer[w].wPos
      BY <2>4 DEF At
    <3>2. \A s \in Slots : At(s, k - 1) => buffer'[s].hdr.rec = k
      BY <2>1, <2>3, <3>1
    <3>. QED BY <3>2 DEF HeaderIn, At
  <2>6. \A v \in Writers \ {w} : InFlight(v)' => InFlight(v) /\ writer'[v] = writer[v]
    BY <1>2 DEF InFlight
  <2>7. /\ writer'[w].first .. writer'[w].first + writer'[w].copied - 1 = writer[w].first .. k - 1
        /\ writer'[w].first + writer'[w].copied = k
    BY <1>1, <1>3, <2>3, HoldingsOf DEF IInv
  <2>. QED BY <2>2, <2>4, <2>5, <2>6, <2>7
<1>. QED BY <1>5, <1>6 DEF IInv

\* Storing the values of a record preserves the invariant.
LEMMA CopyValuesInv ==
  ASSUME IInv, TypeOK', NEW w \in Writers, CopyValues(w)
  PROVE  IInv'
<1>1. InFlight(w) /\ InFlight(w)' /\ writer[w].copied < writer[w].cnt
  <2>1. InFlight(w) /\ InFlight(w)' /\ writer[w].pc # "publish"
    BY DEF CopyValues, InFlight, IInv, TypeOK
  <2>. QED BY <2>1, HoldingsOf DEF IInv
<1>2. \A v \in Writers \ {w} : writer'[v] = writer[v]
  BY DEF CopyValues, IInv, TypeOK
<1>3. /\ writer'[w].first = writer[w].first /\ writer'[w].cnt = writer[w].cnt
      /\ writer'[w].wPosMem = writer[w].wPosMem /\ writer'[w].copied = writer[w].copied + 1
      /\ writer'[w].wPos = Advance(writer[w].wPos, 1)
      /\ writer'[w].pc = IF writer[w].copied + 1 = writer[w].cnt THEN "publish" ELSE "header"
  <2>1. writer[w] \in WriterLocals /\ writer \in [Writers -> WriterLocals]
    BY DEF IInv, TypeOK
  <2>. QED BY <2>1 DEF CopyValues, WriterLocals
<1>4. /\ writer'[w].copied \in 0 .. writer[w].cnt
      /\ At(writer'[w].wPos, writer[w].first - 1 + writer'[w].copied)
      /\ writer'[w].pc = "publish" <=> writer'[w].copied = writer[w].cnt
  <2>1. writer[w].first - 1 + writer[w].copied \in Nat
    BY <1>1, HoldingsOf DEF IInv
  <2>2. At(Advance(writer[w].wPos, 1), (writer[w].first - 1 + writer[w].copied) + 1)
    BY <1>1, <2>1, HoldingsOf, AtAdvance, BufferAssumption DEF IInv
  <2>3. (writer[w].first - 1 + writer[w].copied) + 1
          = writer[w].first - 1 + (writer[w].copied + 1)
    BY <1>1, HoldingsOf DEF IInv
  <2>. QED BY <1>1, <1>3, <2>2, <2>3, HoldingsOf DEF IInv
<1>5. /\ Cursors' /\ Holdings' /\ Disjoint' /\ Covered'
      /\ ReaderFollows' /\ IntactDelivery'
  BY <1>1, <1>2, <1>3, <1>4, CopyCounts DEF CopyValues
<1>6. Contents'
  <2>. SUFFICES ASSUME ~overrun
                PROVE  /\ reserved - Len(delivered) < BufSz
                       /\ \A r \in Len(delivered) + 1 .. published : Whole(r)'
                       /\ \A v \in Writers : InFlight(v)' =>
                            /\ \A r \in writer'[v].first ..
                                        writer'[v].first + writer'[v].copied - 1 : Whole(r)'
                            /\ \A r : writer'[v].pc = "values"
                                        /\ r = writer'[v].first + writer'[v].copied
                                      => HeaderIn(r)'
    BY DEF Contents, CopyValues
  <2>1. PICK k : k = writer[w].first + writer[w].copied
    OBVIOUS
  <2>2. /\ \A s \in Slots : s # writer[w].wPos => buffer'[s] = buffer[s]
        /\ buffer'[writer[w].wPos].hdr = buffer[writer[w].wPos].hdr
        /\ buffer'[writer[w].wPos].vals = k
    BY <2>1, WriterType DEF CopyValues, IInv, TypeOK
  <2>3. reserved - Len(delivered) < BufSz
    BY DEF IInv, Contents
  <2>4. /\ \A r \in Len(delivered) + 1 .. published : Whole(r)'
        /\ \A v \in Writers \ {w} : InFlight(v) =>
              /\ \A r \in writer[v].first .. writer[v].first + writer[v].copied - 1 : Whole(r)'
              /\ \A r : writer[v].pc = "values" /\ r = writer[v].first + writer[v].copied
                     => HeaderIn(r)'
        /\ \A r \in writer[w].first .. k - 1 : Whole(r)'
        /\ k \in Nat /\ k >= 1 /\ At(writer[w].wPos, k - 1)
    BY <1>1, <2>1, <2>2, CopyKeeps
  <2>5. Whole(k)'
    <3>1. \A s \in Slots : At(s, k - 1) => s = writer[w].wPos
      BY <2>4 DEF At
    <3>2. HeaderIn(k)
      BY <1>1, <2>1 DEF IInv, Contents, CopyValues
    <3>3. \A s \in Slots : At(s, k - 1) => buffer'[s].hdr.rec = k /\ buffer'[s].vals = k
      BY <2>2, <3>1, <3>2 DEF HeaderIn
    <3>. QED BY <3>3 DEF Whole, HeaderIn, At
  <2>6. \A r \in writer'[w].first .. writer'[w].first + writer'[w].copied - 1 : Whole(r)'
    <3>1. writer[w].first \in Nat /\ writer[w].copied \in Nat
      BY <1>1, HoldingsOf DEF IInv
    <3>2. \A r \in writer'[w].first .. writer'[w].first + writer'[w].copied - 1 :
            r = k \/ r \in writer[w].first .. k - 1
      BY <1>3, <2>1, <3>1
    <3>. QED BY <2>4, <2>5, <3>2
  <2>7. writer'[w].pc # "values"
    BY <1>3
  <2>. QED BY <1>1, <1>2, <2>3, <2>4, <2>6, <2>7 DEF InFlight
<1>. QED BY <1>5, <1>6 DEF IInv

\* The thread whose position the spin finds holds the first unpublished record:
\* equal positions mean equal record numbers because of WindowBound.
LEMMA TurnIsNext ==
  ASSUME IInv, NEW w \in Writers, writer[w].pc = "publish", InTurn(w)
  PROVE  /\ InFlight(w) /\ writer[w].first = published + 1
         /\ writer[w].copied = writer[w].cnt
<1>1. InFlight(w)
  BY DEF InFlight
<1>2. /\ writer[w].first - 1 \in Nat /\ published \in Nat /\ reserved \in Nat
      /\ writer[w].first > published
      /\ writer[w].first + writer[w].cnt - 1 <= reserved /\ writer[w].cnt >= 1
      /\ writer[w].cnt \in Nat /\ writer[w].first \in Nat
  BY <1>1, HoldingsOf DEF IInv, TypeOK
<1>3. reserved - published <= BufSz
  BY WindowBound DEF IInv
<1>4. /\ published - (writer[w].first - 1) < BufSz
      /\ (writer[w].first - 1) - published < BufSz
  BY <1>2, <1>3, BufferAssumption
<1>5. At(buffWritePosForReader, writer[w].first - 1) /\ At(buffWritePosForReader, published)
  BY <1>1, HoldingsOf DEF InTurn, IInv, Cursors
<1>6. writer[w].first - 1 = published
  BY <1>2, <1>4, <1>5, SameRecord DEF IInv, TypeOK
<1>. QED BY <1>1, <1>2, <1>6, HoldingsOf DEF IInv

\* Publishing under m_mtxRead preserves the invariant.
LEMMA PublishInv ==
  ASSUME IInv, TypeOK', NEW w \in Writers, Publish(w)
  PROVE  IInv'
<1>1. /\ InFlight(w) /\ ~InFlight(w)' /\ writer[w].first = published + 1
      /\ writer[w].copied = writer[w].cnt
      /\ \A v \in Writers \ {w} : writer'[v] = writer[v] /\ (InFlight(v)' <=> InFlight(v))
  <2>1. InFlight(w) /\ writer[w].first = published + 1 /\ writer[w].copied = writer[w].cnt
    BY TurnIsNext DEF Publish
  <2>2. writer'[w] = IdleWriter /\ \A v \in Writers \ {w} : writer'[v] = writer[v]
    BY DEF Publish, IInv, TypeOK
  <2>. QED BY <2>1, <2>2 DEF InFlight, IdleWriter
<1>2. /\ published' = published + writer[w].cnt
      /\ writer[w].cnt \in Nat /\ writer[w].cnt >= 1 /\ writer[w].cnt \in 0 .. BufSz
      /\ published \in Nat /\ reserved \in Nat
      /\ published + writer[w].cnt <= reserved
      /\ UNCHANGED <<buffer, buffWritePos, buffReadPos, reader, reserved, delivered, overrun>>
  <2>1. TypeOK /\ published \in Nat /\ reserved \in Nat
    BY DEF IInv, TypeOK
  <2>2. writer[w].cnt \in 0 .. BufSz
    BY <2>1, WriterType
  <2>3. /\ writer[w].cnt \in Nat /\ writer[w].cnt >= 1
        /\ writer[w].first + writer[w].cnt - 1 <= reserved
    BY <1>1, HoldingsOf DEF IInv
  <2>4. published + writer[w].cnt <= reserved
    BY <1>1, <2>1, <2>3
  <2>. QED BY <2>1, <2>2, <2>3, <2>4 DEF Publish
<1>3. Cursors'
  <2>1. At(Advance(buffWritePosForReader, writer[w].cnt), published + writer[w].cnt)
    BY <1>2, AtAdvance DEF IInv, TypeOK, Cursors
  <2>. QED BY <1>2, <2>1 DEF Cursors, Publish, At, IInv
<1>4. ASSUME NEW v \in Writers, InFlight(v)'
      PROVE  /\ v # w /\ InFlight(v) /\ writer'[v] = writer[v]
             /\ writer[v].first > published + writer[w].cnt
  <2>1. v # w /\ InFlight(v) /\ writer'[v] = writer[v]
    BY <1>1, <1>4
  <2>2. /\ writer[v].first \in Nat /\ writer[v].cnt \in Nat /\ writer[v].cnt >= 1
        /\ writer[v].first > published
    BY <2>1, HoldingsOf DEF IInv
  <2>3. Before(v, w) \/ Before(w, v)
    BY <1>1, <2>1 DEF IInv, Disjoint
  <2>. QED BY <1>1, <1>2, <2>1, <2>2, <2>3 DEF Before
<1>5. Holdings'
  <2>. SUFFICES ASSUME NEW v \in Writers, InFlight(v)'
                PROVE  /\ writer'[v].cnt >= 1
                       /\ writer'[v].first > published'
                       /\ writer'[v].first + writer'[v].cnt - 1 <= reserved
                       /\ At(writer'[v].wPosMem, writer'[v].first - 1)
                       /\ At(writer'[v].wPos, writer'[v].first - 1 + writer'[v].copied)
                       /\ writer'[v].copied <= writer'[v].cnt
                       /\ writer'[v].pc = "publish" <=> writer'[v].copied = writer'[v].cnt
    BY <1>2 DEF Holdings, At
  <2>. QED BY <1>2, <1>4, HoldingsOf DEF IInv
<1>6. Disjoint'
  BY <1>4 DEF IInv, Disjoint, Before
<1>7. Covered'
  <2>. SUFFICES ASSUME NEW r \in published' + 1 .. reserved
                PROVE  \E v \in Writers : /\ InFlight(v)'
                                          /\ writer'[v].first <= r
                                          /\ r < writer'[v].first + writer'[v].cnt
    BY <1>2 DEF Covered
  <2>1. PICK v \in Writers : /\ InFlight(v)
                             /\ writer[v].first <= r
                             /\ r < writer[v].first + writer[v].cnt
    BY <1>2 DEF IInv, Covered
  <2>2. v # w
    BY <1>1, <1>2, <2>1
  <2>. QED BY <1>1, <2>1, <2>2
<1>8. Contents'
  <2>. SUFFICES ASSUME ~overrun
                PROVE  /\ reserved - Len(delivered) < BufSz
                       /\ \A r \in Len(delivered) + 1 .. published' : Whole(r)'
                       /\ \A v \in Writers : InFlight(v)' =>
                            /\ \A r \in writer'[v].first ..
                                        writer'[v].first + writer'[v].copied - 1 : Whole(r)'
                            /\ \A r : writer'[v].pc = "values"
                                        /\ r = writer'[v].first + writer'[v].copied
                                      => HeaderIn(r)'
    BY <1>2 DEF Contents
  <2>1. \A r : (Whole(r)' <=> Whole(r)) /\ (HeaderIn(r)' <=> HeaderIn(r))
    BY <1>2 DEF Whole, HeaderIn, At
  <2>2. Contents
    BY DEF IInv
  <2>3. ASSUME NEW r \in Len(delivered) + 1 .. published'
        PROVE  Whole(r)
    <3>1. CASE r <= published
      BY <1>2, <2>2, <3>1 DEF Contents
    <3>2. CASE ~(r <= published)
      <4>1. Len(delivered) \in Nat /\ r \in Int
        BY <1>2 DEF IInv, TypeOK
      <4>2. published < r /\ r <= published + writer[w].cnt
        BY <1>2, <3>2, <4>1
      <4>3. writer[w].first = published + 1 /\ writer[w].copied = writer[w].cnt
        BY <1>1
      <4>4. published \in Nat /\ writer[w].cnt \in Nat
        BY <1>2
      <4>5. r \in published + 1 .. published + 1 + writer[w].cnt - 1
        BY <4>1, <4>2, <4>4
      <4>6. r \in writer[w].first .. writer[w].first + writer[w].copied - 1
        BY <4>3, <4>5
      <4>. QED BY <1>1, <2>2, <4>6 DEF Contents
    <3>. QED BY <3>1, <3>2
  <2>4. \A v \in Writers : InFlight(v)' =>
          /\ \A r \in writer'[v].first .. writer'[v].first + writer'[v].copied - 1 : Whole(r)
          /\ \A r : writer'[v].pc = "values" /\ r = writer'[v].first + writer'[v].copied
                    => HeaderIn(r)
    BY <1>4, <2>2 DEF Contents
  <2>. QED BY <2>1, <2>2, <2>3, <2>4 DEF Contents
<1>9. ReaderFollows'
  <2>1. Len(delivered) + Len(reader.out) \in Nat
    BY DEF IInv, TypeOK
  <2>2. \A e \in Len(delivered) + Len(reader.out) .. published :
          e \in Len(delivered) + Len(reader.out) .. published'
    BY <1>2, <2>1
  <2>3. Len(delivered) + Len(reader.out) <= published
          => Len(delivered) + Len(reader.out) <= published'
    BY <1>2, <2>1
  <2>4. ReaderFollows
    BY DEF IInv
  <2>. QED BY <1>2, <2>2, <2>3, <2>4 DEF ReaderFollows, At
<1>10. IntactDelivery'
  BY <1>2 DEF IInv, IntactDelivery
<1>. QED BY <1>3, <1>5, <1>6, <1>7, <1>8, <1>9, <1>10 DEF IInv

\* Taking the end position under m_mtxRead preserves the invariant.
LEMMA SnapshotInv ==
  ASSUME IInv, TypeOK', Snapshot
  PROVE  IInv'
<1>1. /\ reader.pc = "idle" /\ reader'.pc = "copy" /\ reader'.out = reader.out
      /\ reader'.end = buffWritePosForReader
      /\ UNCHANGED <<buffer, buffWritePos, buffWritePosForReader, buffReadPos, writer,
                     reserved, published, delivered, overrun>>
  BY DEF Snapshot, VisibleEnd, IInv, ReaderFollows
<1>2. ReaderFollows'
  <2>. DEFINE D == Len(delivered) + Len(reader.out)
  <2>1. D \in Nat /\ published \in Nat
    BY DEF IInv, TypeOK
  <2>2. ~overrun => D <= published
    BY DEF IInv, ReaderFollows
  <2>3. ~overrun => published \in D .. published /\ At(reader'.end, published)
    BY <1>1, <2>1, <2>2 DEF IInv, Cursors
  <2>. QED BY <1>1, <2>3 DEF IInv, ReaderFollows, At
<1>3. Cursors' /\ Holdings' /\ Disjoint' /\ Covered' /\ IntactDelivery'
  BY <1>1 DEF IInv, Cursors, Holdings, Disjoint, Covered, IntactDelivery, At, InFlight, Before
<1>4. Contents'
  BY <1>1 DEF IInv, Contents, Whole, HeaderIn, At, InFlight
<1>. QED BY <1>2, <1>3, <1>4 DEF IInv

\* Copying a published record out of the ring preserves the invariant.
LEMMA CopyOutInv ==
  ASSUME IInv, TypeOK', CopyOut
  PROVE  IInv'
<1>. DEFINE D == Len(delivered) + Len(reader.out)
            e == [hdr |-> buffer[buffReadPos].hdr, pos |-> buffReadPos]
<1>1. /\ reader.pc = "copy" /\ reader'.pc = "copy" /\ reader'.end = reader.end
      /\ reader'.out = Append(reader.out, e)
      /\ buffReadPos # reader.end
      /\ buffReadPos' = Advance(buffReadPos, 1)
      /\ UNCHANGED <<buffer, buffWritePos, buffWritePosForReader, writer,
                     reserved, published, delivered, overrun>>
  BY DEF CopyOut, IInv, TypeOK
<1>2. Cursors' /\ Holdings' /\ Disjoint' /\ Covered' /\ IntactDelivery'
  BY <1>1 DEF IInv, Cursors, Holdings, Disjoint, Covered, IntactDelivery, At, InFlight, Before
<1>3. Contents'
  BY <1>1 DEF IInv, Contents, Whole, HeaderIn, At, InFlight
<1>4. /\ Len(reader'.out) = Len(reader.out) + 1
      /\ \A i \in 1 .. Len(reader.out) : reader'.out[i] = reader.out[i]
      /\ reader'.out[Len(reader.out) + 1] = e
      /\ Len(reader.out) \in Nat /\ Len(delivered) \in Nat /\ published \in Nat
  <2>1. reader.out \in Seq(Copied)
    BY DEF IInv, TypeOK
  <2>2. e \in Copied
    BY DEF IInv, TypeOK, Copied
  <2>. HIDE DEF e
  <2>. QED BY <1>1, <2>1, <2>2 DEF IInv, TypeOK
<1>5. ASSUME ~overrun
      PROVE  /\ D + 1 <= published
             /\ At(buffReadPos', D + 1)
             /\ \E n \in D + 1 .. published : At(reader.end, n)
             /\ e.hdr.rec = D + 1
             /\ At(e.pos, D)
  <2>1. D \in Nat /\ At(buffReadPos, D) /\ buffReadPos \in Slots
    BY <1>4, <1>5 DEF IInv, ReaderFollows, TypeOK
  <2>2. PICK n \in D .. published : At(reader.end, n)
    BY <1>1, <1>5 DEF IInv, ReaderFollows
  <2>3. n # D
    BY <1>1, <2>1, <2>2 DEF At
  <2>4. n \in D + 1 .. published /\ D + 1 <= published
    <3>. HIDE DEF D
    <3>. QED BY <1>4, <2>1, <2>2, <2>3
  <2>5. At(buffReadPos', D + 1)
    BY <1>1, <2>1, AtAdvance, BufferAssumption
  <2>6. D + 1 \in Len(delivered) + 1 .. published
    BY <1>4, <2>4
  <2>7. HeaderIn(D + 1)
    BY <1>5, <2>6 DEF IInv, Contents, Whole
  <2>8. D + 1 - 1 = D
    BY <2>1
  <2>9. buffer[buffReadPos].hdr.rec = D + 1
    BY <2>1, <2>7, <2>8 DEF HeaderIn
  <2>. QED BY <2>1, <2>2, <2>4, <2>5, <2>9
<1>. HIDE DEF e
<1>6. ReaderFollows'
  <2>1. Len(delivered) + Len(reader'.out) = D + 1
    BY <1>4
  <2>2. ASSUME ~overrun, NEW i \in 1 .. Len(reader'.out)
        PROVE  /\ reader'.out[i].hdr.rec = Len(delivered) + i
               /\ At(reader'.out[i].pos, Len(delivered) + i - 1)
    <3>1. CASE i \in 1 .. Len(reader.out)
      BY <1>4, <2>2, <3>1 DEF IInv, ReaderFollows
    <3>2. CASE i = Len(reader.out) + 1
      <4>1. Len(delivered) + i = D + 1 /\ Len(delivered) + i - 1 = D
        BY <1>4, <3>2
      <4>. QED BY <1>4, <1>5, <2>2, <3>2, <4>1
    <3>. QED BY <1>4, <3>1, <3>2
  <2>3. reader'.pc # "idle"
    BY <1>1
  <2>. HIDE DEF D
  <2>. QED BY <1>1, <1>5, <2>1, <2>2, <2>3 DEF ReaderFollows, At
<1>. QED BY <1>2, <1>3, <1>6 DEF IInv

\* Returning from getDataByReadPos preserves the invariant.
LEMMA EndCopyInv ==
  ASSUME IInv, TypeOK', EndCopy
  PROVE  IInv'
<1>1. /\ reader'.pc # "copy" /\ reader'.out = reader.out
      /\ reader'.pc = "idle" => reader.out = <<>>
      /\ UNCHANGED <<buffer, buffWritePos, buffWritePosForReader, buffReadPos, writer,
                     reserved, published, delivered, overrun>>
  BY DEF EndCopy, AfterCopy, IInv, TypeOK
<1>2. Cursors' /\ Holdings' /\ Disjoint' /\ Covered' /\ IntactDelivery'
  BY <1>1 DEF IInv, Cursors, Holdings, Disjoint, Covered, IntactDelivery, At, InFlight, Before
<1>3. Contents'
  BY <1>1 DEF IInv, Contents, Whole, HeaderIn, At, InFlight
<1>4. ReaderFollows'
  BY <1>1 DEF IInv, ReaderFollows, At
<1>. QED BY <1>2, <1>3, <1>4 DEF IInv

\* Processing a copied record preserves the invariant: its values are still in
\* the slot it points to.
LEMMA UseInv ==
  ASSUME IInv, TypeOK', Use
  PROVE  IInv'
<1>. DEFINE first == Head(reader.out)
            rec   == [hdr |-> first.hdr, vals |-> buffer[first.pos].vals]
            D     == Len(delivered)
            L     == Len(reader.out)
<1>1. /\ reader'.pc # "copy" /\ reader'.out = Tail(reader.out)
      /\ reader'.pc = "idle" => L = 1
      /\ delivered' = Append(delivered, rec)
      /\ UNCHANGED <<buffer, buffWritePos, buffWritePosForReader, buffReadPos, writer,
                     reserved, published, overrun>>
  BY DEF Use, IInv, TypeOK
<1>2. /\ reader.out \in Seq(Copied) /\ reader.out # <<>>
      /\ delivered \in Seq([hdr : Header, vals : Nat])
      /\ reserved \in Nat /\ published \in Nat
  BY DEF Use, IInv, TypeOK
<1>3. /\ L \in Nat /\ L >= 1 /\ first = reader.out[1] /\ first \in Copied
      /\ Len(Tail(reader.out)) = L - 1
      /\ \A i \in 1 .. L - 1 : Tail(reader.out)[i] = reader.out[i + 1]
  BY <1>2, HeadTailProperties, EmptySeq
<1>4. rec \in [hdr : Header, vals : Nat]
  <2>1. first.hdr \in Header /\ first.pos \in Slots
    BY <1>3 DEF Copied
  <2>2. buffer[first.pos].vals \in Nat
    BY <2>1 DEF IInv, TypeOK
  <2>. QED BY <2>1, <2>2
<1>. HIDE DEF rec
<1>5. /\ D \in Nat /\ Len(delivered') = D + 1
      /\ \A i \in 1 .. D : delivered'[i] = delivered[i]
      /\ delivered'[D + 1] = rec
  BY <1>1, <1>2, <1>4
<1>. HIDE DEF first, D, L
<1>6. Cursors' /\ Holdings' /\ Disjoint' /\ Covered'
  BY <1>1 DEF IInv, Cursors, Holdings, Disjoint, Covered, At, InFlight, Before
<1>7. ASSUME ~overrun
      PROVE  /\ D + L <= published /\ At(buffReadPos, D + L)
             /\ \A i \in 1 .. L : /\ reader.out[i].hdr.rec = D + i
                                 /\ At(reader.out[i].pos, D + i - 1)
  BY <1>7 DEF IInv, ReaderFollows, D, L
<1>8. ASSUME ~overrun
      PROVE  rec.hdr.rec = D + 1 /\ rec.vals = D + 1
  <2>1. 1 \in 1 .. L /\ D + 1 \in D + 1 .. published
    BY <1>2, <1>3, <1>5, <1>7, <1>8
  <2>2. reader.out[1].hdr.rec = D + 1 /\ At(reader.out[1].pos, D + 1 - 1)
    BY <1>7, <1>8, <2>1
  <2>3. first.hdr.rec = D + 1 /\ At(first.pos, D + 1 - 1) /\ first.pos \in Slots
    BY <1>3, <2>2 DEF Copied
  <2>4. Whole(D + 1)
    BY <1>8, <2>1 DEF IInv, Contents, D
  <2>5. buffer[first.pos].vals = D + 1
    BY <1>5, <2>3, <2>4 DEF Whole
  <2>. QED BY <2>3, <2>5 DEF rec
<1>9. Contents'
  <2>. SUFFICES ASSUME ~overrun
                PROVE  /\ reserved - (D + 1) < BufSz
                       /\ \A r \in D + 1 + 1 .. published : Whole(r)
                       /\ \A v \in Writers : InFlight(v) =>
                            /\ \A r \in writer[v].first ..
                                        writer[v].first + writer[v].copied - 1 : Whole(r)
                            /\ writer[v].pc = "values" =>
                                 HeaderIn(writer[v].first + writer[v].copied)
    BY <1>1, <1>5 DEF Contents, Whole, HeaderIn, At, InFlight
  <2>1. reserved - D < BufSz /\ \A r \in D + 1 .. published : Whole(r)
    BY DEF IInv, Contents, D
  <2>2. reserved - (D + 1) < BufSz
    BY <1>2, <1>5, <2>1, BufferAssumption
  <2>3. \A r \in D + 1 + 1 .. published : r \in D + 1 .. published
    BY <1>2, <1>5
  <2>. QED BY <2>1, <2>2, <2>3 DEF IInv, Contents
<1>10. ReaderFollows'
  <2>1. Len(delivered') + Len(reader'.out) = D + L
    BY <1>1, <1>3, <1>5
  <2>2. ASSUME ~overrun, NEW i \in 1 .. Len(reader'.out)
        PROVE  /\ reader'.out[i].hdr.rec = Len(delivered') + i
               /\ At(reader'.out[i].pos, Len(delivered') + i - 1)
    <3>1. /\ i + 1 \in 1 .. L /\ i \in 1 .. L - 1
          /\ D + (i + 1) = Len(delivered') + i
          /\ D + (i + 1) - 1 = Len(delivered') + i - 1
      BY <1>1, <1>3, <1>5
    <3>2. reader'.out[i] = reader.out[i + 1]
      BY <1>1, <1>3, <3>1
    <3>3. reader.out[i + 1].hdr.rec = D + (i + 1) /\ At(reader.out[i + 1].pos, D + (i + 1) - 1)
      BY <1>7, <2>2, <3>1
    <3>. QED BY <3>1, <3>2, <3>3
  <2>3. reader'.pc = "idle" => reader'.out = <<>>
    <3>1. L = 1 => Len(Tail(reader.out)) = 0
      BY <1>3
    <3>2. Tail(reader.out) \in Seq(Copied)
      BY <1>2
    <3>. QED BY <1>1, <3>1, <3>2, EmptySeq
  <2>. QED BY <1>1, <1>7, <2>1, <2>2, <2>3 DEF ReaderFollows, At
<1>11. IntactDelivery'
  <2>. SUFFICES ASSUME ~overrun, NEW i \in 1 .. D + 1
                PROVE  delivered'[i].hdr.rec = i /\ delivered'[i].vals = i
    <3>1. DOMAIN delivered' = 1 .. D + 1
      BY <1>1, <1>2, <1>4, <1>5
    <3>. QED BY <1>1, <3>1 DEF IntactDelivery
  <2>1. CASE i \in 1 .. D
    <3>1. i \in DOMAIN delivered
      BY <1>2, <2>1 DEF D
    <3>2. delivered[i].hdr.rec = i /\ delivered[i].vals = i
      BY <3>1 DEF IInv, IntactDelivery
    <3>. QED BY <1>5, <2>1, <3>2
  <2>2. CASE i = D + 1
    BY <1>5, <1>8, <2>2
  <2>. QED BY <1>5, <2>1, <2>2
<1>. QED BY <1>6, <1>9, <1>10, <1>11 DEF IInv

\* Every step preserves the invariant.
LEMMA NextInv == IInv /\ [Next]_vars => IInv'
<1>. SUFFICES ASSUME IInv, [Next]_vars PROVE IInv'
  OBVIOUS
<1>1. TypeOK'
  BY NextType DEF IInv
<1>2. ASSUME NEW w \in Writers, NEW m \in Modules, NEW packet \in 0 .. MaxPacket,
             Reserve(w, m, packet)
      PROVE  IInv'
  BY <1>1, <1>2, ReserveInv
<1>3. ASSUME NEW w \in Writers, WriterStep(w)
      PROVE  IInv'
  BY <1>1, <1>3, CopyHeaderInv, CopyValuesInv, PublishInv DEF WriterStep
<1>4. CASE ReaderStep
  BY <1>1, <1>4, SnapshotInv, CopyOutInv, EndCopyInv, UseInv DEF ReaderStep
<1>5. CASE UNCHANGED vars
  <2>1. Cursors' /\ Holdings' /\ Disjoint' /\ Covered' /\ IntactDelivery'
    BY <1>5 DEF vars, IInv, Cursors, Holdings, Disjoint, Covered, IntactDelivery, At,
                InFlight, Before
  <2>2. Contents'
    BY <1>5 DEF vars, IInv, Contents, Whole, HeaderIn, At, InFlight
  <2>3. ReaderFollows'
    BY <1>5 DEF vars, IInv, ReaderFollows, At
  <2>. QED BY <1>1, <2>1, <2>2, <2>3 DEF IInv
<1>. QED BY <1>2, <1>3, <1>4, <1>5 DEF Next

\* The invariant holds in every state of the signal buffer.
THEOREM Invariance == Spec => []IInv
BY InitInv, NextInv, PTL DEF Spec

\* Two receiving threads that copy outside the lock never hold the same slot
\* (buffer_data.cpp:84-101), for any number of threads up to BatchShare.
THEOREM Exclusion == Spec => []WriterExclusion
<1>1. IInv => WriterExclusion
  BY ExclusionFromInv DEF IInv
<1>. QED BY <1>1, Invariance, PTL

\* Until the ring is overrun, updateSignals sees every record once, in order,
\* and with its own values (buffer_data.cpp:115-132, thread_update.cpp:106-155).
THEOREM Intact == Spec => []IntactDelivery
<1>1. IInv => IntactDelivery
  BY DEF IInv
<1>. QED BY <1>1, Invariance, PTL

-----------------------------------------------------------------------------
(* The ring implements the queue.                                          *)

\* The empty ring is the empty queue.
LEMMA InitMaps == Init => Promise!Init
BY DEF Init, Promise!Init

\* The processed records with their headers reduced to record numbers.
Reduced(d) == [i \in DOMAIN d |-> [hdr |-> d[i].hdr.rec, vals |-> d[i].vals]]

\* A reduced sequence is a sequence of the same length.
LEMMA ReducedType ==
  ASSUME NEW d \in Seq([hdr : Header, vals : Nat])
  PROVE  Reduced(d) \in Seq([hdr : Nat, vals : Nat]) /\ Len(Reduced(d)) = Len(d)
<1>. DEFINE S == [hdr : Header, vals : Nat]
            T == [hdr : Nat, vals : Nat]
            n == Len(d)
<1>1. n \in Nat /\ DOMAIN d = 1 .. n /\ \A i \in 1 .. n : d[i] \in S
  <2>1. \A U : d \in Seq(U) => n \in Nat /\ DOMAIN d = 1 .. n /\ \A i \in 1 .. n : d[i] \in U
    BY LenProperties, ElementOfSeq
  <2>. HIDE DEF S, n
  <2>2. d \in Seq(S)
    BY DEF S
  <2>. QED BY <2>1, <2>2, Zenon
<1>2. \A i \in 1 .. n : [hdr |-> d[i].hdr.rec, vals |-> d[i].vals] \in T
  <2>. HIDE DEF n
  <2>. QED BY <1>1 DEF Header
<1>. HIDE DEF n, T
<1>3. Reduced(d) \in [1 .. n -> T]
  BY <1>1, <1>2 DEF Reduced
<1>4. Reduced(d) \in Seq(T)
  BY <1>1, <1>3, SeqDef
<1>5. DOMAIN Reduced(d) = 1 .. n /\ DOMAIN Reduced(d) = 1 .. Len(Reduced(d))
      /\ Len(Reduced(d)) \in Nat
  BY <1>3, <1>4, LenProperties
<1>6. Len(Reduced(d)) = n
  BY <1>1, <1>5
<1>. QED BY <1>4, <1>6 DEF n, T

\* Reducing headers to record numbers commutes with Append.
LEMMA ReducedAppend ==
  ASSUME NEW d \in Seq([hdr : Header, vals : Nat]), NEW e \in [hdr : Header, vals : Nat]
  PROVE  /\ Len(Reduced(d)) = Len(d)
         /\ Reduced(Append(d, e)) = Append(Reduced(d), [hdr |-> e.hdr.rec, vals |-> e.vals])
<1>1. /\ Reduced(d) \in Seq([hdr : Nat, vals : Nat]) /\ Len(Reduced(d)) = Len(d)
      /\ [hdr |-> e.hdr.rec, vals |-> e.vals] \in [hdr : Nat, vals : Nat]
  BY ReducedType DEF Header
<1>2. /\ Append(d, e) \in Seq([hdr : Header, vals : Nat])
      /\ Len(Append(d, e)) = Len(d) + 1
      /\ \A i \in 1 .. Len(d) : Append(d, e)[i] = d[i]
      /\ Append(d, e)[Len(d) + 1] = e
  OBVIOUS
<1>3. /\ Reduced(Append(d, e)) \in Seq([hdr : Nat, vals : Nat])
      /\ Len(Reduced(Append(d, e))) = Len(d) + 1
  BY <1>2, ReducedType
<1>4. \A i \in 1 .. Len(d) + 1 :
        Reduced(Append(d, e))[i] = Append(Reduced(d), [hdr |-> e.hdr.rec, vals |-> e.vals])[i]
  BY <1>1, <1>2 DEF Reduced
<1>5. /\ Append(Reduced(d), [hdr |-> e.hdr.rec, vals |-> e.vals]) \in Seq([hdr : Nat, vals : Nat])
      /\ Len(Append(Reduced(d), [hdr |-> e.hdr.rec, vals |-> e.vals])) = Len(d) + 1
  BY <1>1
<1>. QED BY <1>1, <1>3, <1>4, <1>5, SeqEqual

\* Reserving room is accepting.
LEMMA ReserveMaps ==
  ASSUME IInv, NEW w \in Writers, NEW m \in Modules, NEW packet \in 0 .. MaxPacket,
         Reserve(w, m, packet)
  PROVE  Promise!Accept
<1>1. TakeMin(packet, MaxBatch) \in Nat /\ TakeMin(packet, MaxBatch) > 0
  BY CountType, MaxBatchFact DEF Reserve
<1>2. reserved' \in Nat /\ reserved' > reserved
  BY <1>1 DEF Reserve, IInv, TypeOK
<1>3. reserved' = reserved + TakeMin(packet, MaxBatch) /\ UNCHANGED <<published, delivered>>
  BY DEF Reserve
<1>4. Len(Reduced(delivered)) = Len(delivered)
  BY ReducedType DEF IInv, TypeOK
<1>5. overrun' = (overrun \/ reserved' - Len(Reduced(delivered)) >= BufSz)
  <2>1. reserved' - Len(Reduced(delivered))
          = reserved + TakeMin(packet, MaxBatch) - Len(delivered)
    <3>1. reserved \in Nat /\ Len(delivered) \in Nat
      BY DEF IInv, TypeOK
    <3>. QED BY <1>1, <1>3, <1>4, <3>1
  <2>2. overrun' = (overrun \/ reserved + TakeMin(packet, MaxBatch) - Len(delivered) >= BufSz)
    BY DEF Reserve
  <2>. QED BY <2>1, <2>2, Zenon
<1>. QED BY <1>2, <1>3, <1>5, Zenon DEF Promise!Accept, Reduced

\* Publishing a thread's records publishes the next records of the queue.
LEMMA PublishMaps ==
  ASSUME IInv, NEW w \in Writers, Publish(w)
  PROVE  Promise!Publish
<1>1. InFlight(w) /\ writer[w].first = published + 1
  BY TurnIsNext DEF Publish
<1>2. published \in Nat /\ reserved \in Nat
  BY DEF IInv, TypeOK
<1>3. /\ writer[w].cnt \in Nat /\ writer[w].cnt >= 1
      /\ writer[w].first + writer[w].cnt - 1 <= reserved
  BY <1>1, HoldingsOf DEF IInv
<1>4. /\ published' = published + writer[w].cnt
      /\ UNCHANGED <<reserved, delivered, overrun>>
  BY DEF Publish
<1>5. published' \in Nat /\ published' > published /\ published' <= reserved
  BY <1>1, <1>2, <1>3, <1>4
<1>. QED BY <1>4, <1>5 DEF Promise!Publish

\* Processing a record delivers the next one, or the ring has been overrun.
LEMMA UseMaps ==
  ASSUME IInv, TypeOK', Use
  PROVE  Promise!Deliver \/ Promise!Degraded
<1>. DEFINE rec == [hdr  |-> Head(reader.out).hdr,
                    vals |-> buffer[Head(reader.out).pos].vals]
            D   == Len(delivered)
<1>1. delivered' = Append(delivered, rec) /\ UNCHANGED <<reserved, published, overrun>>
  BY DEF Use
<1>2. CASE overrun
  BY <1>1, <1>2 DEF Promise!Degraded
<1>3. CASE ~overrun
  <2>1. /\ delivered \in Seq([hdr : Header, vals : Nat])
        /\ reader.out \in Seq(Copied) /\ reader.out # <<>>
    BY DEF Use, IInv, TypeOK
  <2>2. Head(reader.out) \in Copied
    BY <2>1
  <2>3. rec \in [hdr : Header, vals : Nat]
    <3>1. Head(reader.out).hdr \in Header /\ Head(reader.out).pos \in Slots
      BY <2>2 DEF Copied
    <3>. QED BY <3>1 DEF IInv, TypeOK
  <2>. HIDE DEF rec
  <2>4. IntactDelivery'
    BY UseInv DEF IInv
  <2>5. D \in Nat /\ D + 1 \in DOMAIN delivered' /\ delivered'[D + 1] = rec
    BY <1>1, <2>1, <2>3
  <2>6. rec.hdr.rec = D + 1 /\ rec.vals = D + 1
    BY <1>1, <1>3, <2>4, <2>5 DEF IntactDelivery
  <2>7. Reduced(delivered') = Append(Reduced(delivered), [hdr |-> D + 1, vals |-> D + 1])
    BY <1>1, <2>1, <2>3, <2>6, ReducedAppend
  <2>8. Len(Reduced(delivered)) = D
    BY <2>1, <2>3, ReducedAppend
  <2>9. D < published
    <3>1. Len(reader.out) \in Nat /\ Len(reader.out) # 0 /\ published \in Nat
      BY <2>1, EmptySeq DEF IInv, TypeOK
    <3>2. D + Len(reader.out) <= published
      BY <1>3 DEF IInv, ReaderFollows
    <3>. QED BY <2>5, <3>1, <3>2
  <2>10. Promise!Deliver
    BY <1>1, <2>7, <2>8, <2>9 DEF Promise!Deliver, Reduced
  <2>. QED BY <2>10
<1>. QED BY <1>2, <1>3

\* Every step of the ring is a step of the queue or changes nothing of it.
LEMMA StepMaps == IInv /\ IInv' /\ [Next]_vars => [Promise!Next]_(Promise!vars)
<1>. SUFFICES ASSUME IInv, IInv', [Next]_vars PROVE [Promise!Next]_(Promise!vars)
  OBVIOUS
<1>1. ASSUME UNCHANGED <<reserved, published, delivered, overrun>>
      PROVE  UNCHANGED Promise!vars
  BY <1>1 DEF Promise!vars
<1>2. ASSUME NEW w \in Writers, NEW m \in Modules, NEW packet \in 0 .. MaxPacket,
             Reserve(w, m, packet)
      PROVE  Promise!Next
  BY <1>2, ReserveMaps DEF Promise!Next
<1>3. ASSUME NEW w \in Writers, CopyHeader(w) \/ CopyValues(w)
      PROVE  UNCHANGED Promise!vars
  BY <1>1, <1>3 DEF CopyHeader, CopyValues
<1>4. ASSUME NEW w \in Writers, Publish(w)
      PROVE  Promise!Next
  BY <1>4, PublishMaps DEF Promise!Next
<1>5. CASE Snapshot \/ CopyOut \/ EndCopy
  BY <1>1, <1>5 DEF Snapshot, CopyOut, EndCopy
<1>6. CASE Use
  BY <1>6, UseMaps DEF Promise!Next, IInv
<1>7. CASE UNCHANGED vars
  BY <1>1, <1>7 DEF vars
<1>. QED BY <1>2, <1>3, <1>4, <1>5, <1>6, <1>7 DEF Next, WriterStep, ReaderStep

\* The ring, with its two mutexes and its copying outside them, implements the
\* queue of SignalQueue (buffer_data.cpp:52-132).
THEOREM Refinement == Spec => ImplementsQueue
BY InitMaps, StepMaps, Invariance, PTL DEF Spec, ImplementsQueue, Promise!Spec
=============================================================================
