------------------------- MODULE ThreadUpdateProofs -------------------------
(***************************************************************************)
(* Theorems about the update thread and the rings of the signals, for any  *)
(* signals and modules, sizes of ring and vector, and number of records.   *)
(*                                                                         *)
(* A ring is shown while the thread is between the halves of a record, and *)
(* is read by a scan that holds no lock.  So the invariant counts whole    *)
(* records (Whole): the window holds the last of them (Ring), and a scan   *)
(* is behind the thread by what is still to be read (Scanned), up to the   *)
(* second record that is stored after its start.                           *)
(***************************************************************************)
EXTENDS ThreadUpdate, SequenceTheorems, TLAPS

-----------------------------------------------------------------------------
(* The inductive invariant.                                                *)

\* The thread is between the two halves of storing a record of key k.
Mid(k) == update.pc = "values" /\ KeyOf[update.rec] = k

\* The number of whole records stored for key k.
Whole(k) == IF Mid(k) THEN signalData[k].lastData - 1 ELSE signalData[k].lastData

\* The record number n, whole.
Rec(n) == [time |-> n, vals |-> n]

\* The position i steps after p, and the number of steps from p to q.
Fwd(p, i)  == IF p + i < RingSz THEN p + i ELSE p + i - RingSz
Dist(p, q) == IF p <= q THEN q - p ELSE q - p + RingSz

\* The records in the window of a ring that was made d whole records ago.
Held(d) == IF d < RingSz THEN d ELSE RingSz - 1

\* The record in hand, and its key.
Thread ==
  /\ update.pc \in {"register", "store", "values"} => update.rec \in Signals
  /\ update.pc \in {"store", "values"} => KeyOf[update.rec] \in sref
  /\ update.pc = "values" => signalData[KeyOf[update.rec]].isBuffEnable

\* No more records are stored than were taken.
Counts ==
  /\ madeAt \in [Keys -> Nat]
  /\ update.pc \in {"register", "store"} => taken > 0
  /\ \A k \in Known :
       signalData[k].lastData + (IF update.pc \in {"register", "store"} THEN 1 ELSE 0) <= taken

\* A ring that is being made is not shown yet.
Enabling == enabling # Absent => ~signalData[enabling].isBuffEnable

\* Slots p to q of a vector hold the records that end with number n.
Holds(buff, p, q, n) ==
  \A i \in 0 .. Dist(p, q) - 1 : buff[Fwd(p, i)] = Rec(n - Dist(p, q) + 1 + i)

\* A ring that is shown, made at record m, with w whole records: its window,
\* its records, its least time, and the time of a record that is half stored.
Shown(sd, m, w) ==
  LET b == sd.buffBeginPos
      v == sd.buffValuePos
  IN  /\ m <= w
      /\ Dist(b, v) = Held(w - m)
      /\ Holds(sd.buffData, b, v, w)
      /\ b # v => sd.buffMinTime \in {w - Dist(b, v), w - Dist(b, v) + 1}
      /\ w < sd.lastData => sd.buffData[v].time = sd.lastData

\* The ring of a signal; until it is shown its positions are at the start.
RingOf(sd, m, w) ==
  /\ sd.buffBeginPos \in 0 .. RingSz - 1
  /\ sd.buffValuePos \in 0 .. RingSz - 1
  /\ ~sd.isBuffEnable => sd.buffBeginPos = 0 /\ sd.buffValuePos = 0
  /\ sd.isBuffEnable => Shown(sd, m, w)

Ring(k) == RingOf(signalData[k], madeAt[k], Whole(k))

\* While at most one more record is stored: what is left of the scan is still
\* in the ring, what was read is as promised, and the thread is where the scan
\* ends until the next record is whole.
OnTrack(sc, sd, w) ==
  /\ sc.out \in Seq([time : Nat, vals : Nat])
  /\ Holds(sd.buffData, sc.pos, sc.end, sc.at)
  /\ sc.first + Len(sc.out) = sc.at - Dist(sc.pos, sc.end) + 1
  /\ \A i \in DOMAIN sc.out : sc.out[i] = Rec(sc.first + i - 1)
  /\ sc.at = w => sd.buffValuePos = sc.end

ScanOf(sc, sd, w) ==
  /\ sd.isBuffEnable
  /\ sc.at \in Nat
  /\ sc.first \in Int
  /\ sc.at <= w
  /\ sc.end \in 0 .. RingSz - 1
  /\ AllocSz = RingSz /\ sd.lastData <= sc.at + 1 => OnTrack(sc, sd, w)

ScanType ==
  [key : Keys \cup {Absent}, pos : Slots, end : 0 .. RingSz - 1,
   out : Seq([time : Nat, vals : Nat]), at : Nat, first : Int]

Scanned ==
  scan.key # Absent =>
    scan.key \in Known /\ ScanOf(scan, signalData[scan.key], Whole(scan.key))

IInv ==
  /\ TypeOK
  /\ Thread
  /\ Counts
  /\ Enabling
  /\ scan \in ScanType
  /\ \A k \in Known : Ring(k)
  /\ Scanned

-----------------------------------------------------------------------------
(* Sizes, positions, windows.                                              *)

\* The thread's ring fits into the vector that signalBufferEna makes.
LEMMA SizeFacts == /\ RingSz \in Nat \ {0}
                   /\ AllocSz \in Nat \ {0}
                   /\ RingSz <= AllocSz
BY UpdateAssumption DEF RingSz, AllocSz

\* Positions of the ring are slots of the vector.
LEMMA PositionIsSlot == \A p \in 0 .. RingSz - 1 : p \in Slots
BY SizeFacts DEF Slots

\* Steps between positions.
LEMMA DistFacts ==
  ASSUME NEW p \in 0 .. RingSz - 1, NEW q \in 0 .. RingSz - 1
  PROVE  /\ Dist(p, q) \in 0 .. RingSz - 1
         /\ Dist(p, q) = 0 <=> p = q
         /\ Fwd(p, 0) = p
         /\ Fwd(p, Dist(p, q)) = q
         /\ \A i \in 0 .. Dist(p, q) - 1 : Fwd(p, i) \in 0 .. RingSz - 1 /\ Fwd(p, i) # q
BY SizeFacts DEF Dist, Fwd

\* The position behind another.
LEMMA NextFacts ==
  ASSUME NEW p \in 0 .. RingSz - 1, NEW q \in 0 .. RingSz - 1
  PROVE  /\ NextPos(p) \in 0 .. RingSz - 1
         /\ NextPos(q) # p => Dist(p, NextPos(q)) = Dist(p, q) + 1
         /\ NextPos(q) = p => Dist(p, q) = RingSz - 1
         /\ Dist(NextPos(p), p) = RingSz - 1
         /\ p # q => Dist(NextPos(p), q) = Dist(p, q) - 1
         /\ \A i \in 0 .. RingSz - 2 : Fwd(NextPos(p), i) = Fwd(p, i + 1)
BY SizeFacts DEF Dist, Fwd, NextPos

\* What a remainder is, below the divisor and one turn below zero.
LEMMA ModFacts ==
  /\ \A a \in Nat, b \in Nat \ {0} : a < b => a % b = a
  /\ \A a \in Nat, b \in Nat \ {0} : b <= a /\ a < 2 * b => a % b = a - b
  /\ \A a \in Int, b \in Nat \ {0} : a < 0 /\ 0 <= a + b => a % b = a + b
<1>1. \A a, r, k \in Int, b \in Nat \ {0} : 0 <= r /\ r < b /\ a = k * b + r => r = a % b
  OBVIOUS
<1>2. \A b \in Nat \ {0} : 0 * b = 0 /\ 1 * b = b /\ (-1) * b = -b
  OBVIOUS
<1>3. ASSUME NEW a \in Nat, NEW b \in Nat \ {0}, a < b
      PROVE  a % b = a
  <2>. a = 0 * b + a
    BY <1>2
  <2>. QED BY <1>1, <1>3
<1>4. ASSUME NEW a \in Nat, NEW b \in Nat \ {0}, b <= a, a < 2 * b
      PROVE  a % b = a - b
  <2>1. PICK r \in Int : r = a - b
    OBVIOUS
  <2>2. a = 1 * b + r /\ 0 <= r /\ r < b
    BY <1>2, <1>4, <2>1
  <2>3. 1 \in Int /\ a \in Int
    OBVIOUS
  <2>4. r = a % b
    BY <1>1, <2>2, <2>3, Zenon
  <2>. QED BY <2>1, <2>4
<1>5. ASSUME NEW a \in Int, NEW b \in Nat \ {0}, a < 0, 0 <= a + b
      PROVE  a % b = a + b
  <2>1. PICK r \in Int : r = a + b
    OBVIOUS
  <2>2. PICK k \in Int : k = -1
    OBVIOUS
  <2>3. a = k * b + r /\ 0 <= r /\ r < b
    BY <1>2, <1>5, <2>1, <2>2
  <2>4. r = a % b
    BY <1>1, <2>3, Zenon
  <2>. QED BY <2>1, <2>4
<1>. QED BY <1>3, <1>4, <1>5

\* The remainders of the code count the steps of the ring.
LEMMA WindowFacts ==
  ASSUME NEW sd, sd.buffBeginPos \in 0 .. RingSz - 1, sd.buffValuePos \in 0 .. RingSz - 1
  PROVE  /\ Window(sd) = Dist(sd.buffBeginPos, sd.buffValuePos)
         /\ \A i \in 0 .. RingSz - 1 : SlotAt(sd, i) = Fwd(sd.buffBeginPos, i)
<1>. DEFINE b == sd.buffBeginPos
            v == sd.buffValuePos
<1>1. b \in Nat /\ v \in Nat /\ b < RingSz /\ v < RingSz /\ RingSz \in Nat \ {0}
  BY SizeFacts
<1>. HIDE DEF b, v
<1>2. (v - b) % RingSz = Dist(b, v)
  <2>1. CASE b <= v
    <3>. v - b \in Nat /\ v - b < RingSz
      BY <1>1, <2>1
    <3>. QED BY <1>1, <2>1, ModFacts DEF Dist
  <2>2. CASE ~(b <= v)
    <3>. v - b \in Int /\ v - b < 0 /\ 0 <= v - b + RingSz
      BY <1>1, <2>2
    <3>. QED BY <1>1, <2>2, ModFacts DEF Dist
  <2>. QED BY <2>1, <2>2
<1>3. ASSUME NEW i \in 0 .. RingSz - 1
      PROVE  (b + i) % RingSz = Fwd(b, i)
  <2>1. CASE b + i < RingSz
    <3>. b + i \in Nat
      BY <1>1
    <3>. QED BY <1>1, <2>1, ModFacts DEF Fwd
  <2>2. CASE ~(b + i < RingSz)
    <3>1. PICK c \in Nat : c = b + i
      BY <1>1
    <3>2. RingSz <= c /\ c < 2 * RingSz
      BY <1>1, <2>2, <3>1
    <3>3. c % RingSz = c - RingSz
      BY <1>1, <3>2, ModFacts, Zenon
    <3>4. Fwd(b, i) = c - RingSz
      BY <1>1, <2>2, <3>1 DEF Fwd
    <3>. QED BY <3>1, <3>3, <3>4, Zenon
  <2>. QED BY <2>1, <2>2
<1>. QED BY <1>2, <1>3 DEF Window, SlotAt, b, v

BuffType == [Slots -> [time : Nat, vals : Nat]]

\* A ring is shown with an empty window.
LEMMA NewRing ==
  ASSUME NEW sd, NEW t, NEW w \in Nat, sd.lastData = w, NEW m, RingOf(sd, m, w),
         ~sd.isBuffEnable, t.lastData = w, t.buffBeginPos = sd.buffBeginPos,
         t.buffValuePos = sd.buffValuePos
  PROVE  RingOf(t, w, w)
BY SizeFacts DEF RingOf, Shown, Dist, Held, Holds

\* The time of the next record does not touch the window.
LEMMA HalfStored ==
  ASSUME NEW sd, NEW t, NEW m \in Nat, NEW w \in Nat, sd.buffData \in BuffType,
         RingOf(sd, m, w), sd.isBuffEnable, t.isBuffEnable, sd.lastData = w, t.lastData = w + 1,
         t.buffBeginPos = sd.buffBeginPos, t.buffValuePos = sd.buffValuePos,
         t.buffMinTime = sd.buffMinTime,
         t.buffData = [sd.buffData EXCEPT ![sd.buffValuePos].time = w + 1]
  PROVE  RingOf(t, m, w)
<1>. DEFINE b == sd.buffBeginPos
            v == sd.buffValuePos
<1>1. b \in 0 .. RingSz - 1 /\ v \in 0 .. RingSz - 1 /\ v \in Slots /\ Shown(sd, m, w)
  BY PositionIsSlot DEF RingOf
<1>2. t.buffData[v].time = w + 1
  BY <1>1 DEF BuffType
<1>3. Holds(t.buffData, b, v, w)
  BY <1>1, DistFacts DEF Holds, Shown
<1>. QED BY <1>1, <1>2, <1>3 DEF RingOf, Shown

\* The values, and the positions: the window moves to the next record.
LEMMA WholeStored ==
  ASSUME NEW sd, NEW t, NEW m \in Nat, NEW w \in Nat, sd.buffData \in BuffType,
         RingOf(sd, m, w), sd.isBuffEnable, t.isBuffEnable,
         sd.lastData = w + 1, t.lastData = w + 1,
         t.buffMinTime = sd.buffData[sd.buffBeginPos].time,
         t.buffValuePos = NextPos(sd.buffValuePos),
         t.buffBeginPos = NewBegin(sd.buffBeginPos, NextPos(sd.buffValuePos)),
         t.buffData = [sd.buffData EXCEPT ![sd.buffValuePos].vals = w + 1]
  PROVE  RingOf(t, m, w + 1)
<1>. DEFINE b == sd.buffBeginPos
            v == sd.buffValuePos
            D == Dist(b, v)
<1>1. b \in 0 .. RingSz - 1 /\ v \in 0 .. RingSz - 1 /\ v \in Slots /\ Shown(sd, m, w)
  BY PositionIsSlot DEF RingOf
<1>2. t.buffData[v] = Rec(w + 1)
  BY <1>1 DEF BuffType, Shown, Rec
<1>3. ASSUME NEW i \in 0 .. D - 1
      PROVE  t.buffData[Fwd(b, i)] = Rec(w - D + 1 + i)
  BY <1>1, DistFacts DEF Holds, Shown
<1>4. D \in 0 .. RingSz - 1 /\ D = Held(w - m) /\ m <= w
  BY <1>1, DistFacts DEF Shown
<1>. HIDE DEF D
<1>5. CASE NextPos(v) # b
  <2>1. t.buffBeginPos = b /\ Dist(b, NextPos(v)) = D + 1 /\ NextPos(v) \in 0 .. RingSz - 1
    BY <1>1, <1>5, NextFacts DEF NewBegin, D
  <2>2. D + 1 = Held(w + 1 - m)
    BY <1>4, <2>1, <1>1, DistFacts, SizeFacts DEF Held
  <2>3. Holds(t.buffData, b, NextPos(v), w + 1)
    <3>. SUFFICES ASSUME NEW i \in 0 .. D
                  PROVE  t.buffData[Fwd(b, i)] = Rec(w + 1 - (D + 1) + 1 + i)
      BY <1>4, <2>1 DEF Holds
    <3>1. CASE i = D
      BY <1>1, <1>2, <1>4, <3>1, DistFacts DEF D
    <3>2. CASE i # D
      <4>. i \in 0 .. D - 1 /\ w + 1 - (D + 1) + 1 + i = w - D + 1 + i
        BY <1>4, <3>2
      <4>. QED BY <1>3
    <3>. QED BY <3>1, <3>2
  <2>4. t.buffMinTime \in {w + 1 - (D + 1), w + 1 - (D + 1) + 1}
    <3>1. CASE D = 0
      BY <1>1, <3>1, <1>4, DistFacts DEF Shown, D
    <3>2. CASE D # 0
      <4>1. sd.buffData[Fwd(b, 0)] = Rec(w - D + 1 + 0) /\ Fwd(b, 0) = b
        BY <1>1, <1>4, <3>2, DistFacts DEF Shown, Holds, D
      <4>. QED BY <1>4, <4>1 DEF Rec
    <3>. QED BY <3>1, <3>2
  <2>. QED BY <1>1, <1>4, <2>1, <2>2, <2>3, <2>4 DEF RingOf, Shown
<1>6. CASE NextPos(v) = b
  <2>1. /\ t.buffBeginPos = NextPos(b) /\ Dist(NextPos(b), b) = D /\ D = RingSz - 1
        /\ NextPos(b) \in 0 .. RingSz - 1
    BY <1>1, <1>6, NextFacts DEF NewBegin, D
  <2>2. D = Held(w + 1 - m)
    BY <1>4, <2>1, SizeFacts DEF Held
  <2>3. Holds(t.buffData, NextPos(b), b, w + 1)
    <3>. SUFFICES ASSUME NEW i \in 0 .. D - 1
                  PROVE  t.buffData[Fwd(NextPos(b), i)] = Rec(w + 1 - D + 1 + i)
      BY <1>4, <2>1 DEF Holds
    <3>0. Fwd(NextPos(b), i) = Fwd(b, i + 1)
      BY <1>1, <1>4, <2>1, NextFacts, SizeFacts
    <3>1. CASE i + 1 = D
      <4>. Fwd(b, i + 1) = v /\ w + 1 - D + 1 + i = w + 1
        BY <1>1, <1>4, <3>1, DistFacts DEF D
      <4>. QED BY <1>2, <3>0
    <3>2. CASE i + 1 # D
      <4>. i + 1 \in 0 .. D - 1 /\ w + 1 - D + 1 + i = w - D + 1 + (i + 1)
        BY <1>4, <3>2
      <4>. QED BY <1>3, <3>0
    <3>. QED BY <3>1, <3>2
  <2>4. NextPos(b) # b => t.buffMinTime \in {w + 1 - D, w + 1 - D + 1}
    <3>1. CASE D = 0
      BY <1>1, <2>1, <3>1
    <3>2. CASE D # 0
      <4>1. sd.buffData[Fwd(b, 0)] = Rec(w - D + 1 + 0) /\ Fwd(b, 0) = b
        BY <1>1, <1>4, <3>2, DistFacts DEF Shown, Holds, D
      <4>. QED BY <1>4, <4>1 DEF Rec
    <3>. QED BY <3>1, <3>2
  <2>. QED BY <1>1, <1>4, <1>6, <2>1, <2>2, <2>3, <2>4 DEF RingOf, Shown
<1>. QED BY <1>5, <1>6

-----------------------------------------------------------------------------
(* Scans.                                                                  *)

\* A scan that begins has all of its window before it.
LEMMA ScanBegins ==
  ASSUME NEW sd, NEW sc, NEW m \in Nat, NEW w \in Nat, RingOf(sd, m, w), sd.isBuffEnable,
         sd.lastData = w, sc.pos = sd.buffBeginPos, sc.end = sd.buffValuePos, sc.out = <<>>,
         sc.at = w, sc.first = w - Window(sd) + 1
  PROVE  ScanOf(sc, sd, w)
<1>. DEFINE D == Dist(sd.buffBeginPos, sd.buffValuePos)
<1>1. D \in 0 .. RingSz - 1 /\ Window(sd) = D
  BY WindowFacts, DistFacts, ZenonT(60) DEF RingOf
<1>2. Holds(sd.buffData, sc.pos, sc.end, sc.at)
  BY DEF RingOf, Shown
<1>3. sc.out \in Seq([time : Nat, vals : Nat]) /\ Len(sc.out) = 0 /\ DOMAIN sc.out = {}
  OBVIOUS
<1>. QED BY <1>1, <1>2, <1>3, WindowFacts DEF ScanOf, OnTrack, RingOf

\* A scan that reads a slot has one record less before it.
LEMMA ScanReads ==
  ASSUME NEW sd, NEW sc, NEW tc, NEW w \in Nat, ScanOf(sc, sd, w), sd.buffData \in BuffType,
         sc.pos \in Slots, sc.pos # sc.end, tc.at = sc.at, tc.first = sc.first, tc.end = sc.end,
         tc.out = Append(sc.out, sd.buffData[sc.pos]),
         tc.pos = IF sc.pos + 1 >= AllocSz THEN 0 ELSE sc.pos + 1
  PROVE  ScanOf(tc, sd, w)
<1>. SUFFICES ASSUME AllocSz = RingSz, sd.lastData <= sc.at + 1, OnTrack(sc, sd, w)
              PROVE  OnTrack(tc, sd, w)
  BY DEF ScanOf
<1>0. PICK p \in 0 .. RingSz - 1, e \in 0 .. RingSz - 1 : p = sc.pos /\ e = sc.end
  BY DEF ScanOf, Slots
<1>1. tc.pos = NextPos(p) /\ tc.end = e /\ p # e
  BY <1>0 DEF NextPos
<1>2. sc.out \in Seq([time : Nat, vals : Nat]) /\ Len(sc.out) \in Nat
  BY DEF OnTrack
<1>3. PICK at \in Nat, f \in Int, l \in Nat, d \in 0 .. RingSz - 1 :
        at = sc.at /\ f = sc.first /\ l = Len(sc.out) /\ d = Dist(p, e)
  BY <1>2, DistFacts DEF ScanOf
<1>4. d # 0 /\ Fwd(p, 0) = p
  BY <1>1, <1>3, DistFacts
<1>5. Dist(NextPos(p), e) = d - 1
  BY <1>1, <1>3, NextFacts
<1>6. f + l = at - d + 1
  BY <1>0, <1>3 DEF OnTrack
<1>7. ASSUME NEW i \in 0 .. d - 1
      PROVE  sd.buffData[Fwd(p, i)] = Rec(at - d + 1 + i)
  BY <1>0, <1>3 DEF OnTrack, Holds
<1>8. ASSUME NEW i \in 0 .. (d - 1) - 1
      PROVE  sd.buffData[Fwd(NextPos(p), i)] = Rec(at - (d - 1) + 1 + i)
  <2>1. Fwd(NextPos(p), i) = Fwd(p, i + 1) /\ i + 1 \in 0 .. d - 1
    BY SizeFacts, NextFacts
  <2>2. at - d + 1 + (i + 1) = at - (d - 1) + 1 + i
    OBVIOUS
  <2>. QED BY <1>7, <2>1, <2>2
<1>9. sd.buffData[p] = Rec(f + l) /\ sd.buffData[p] \in [time : Nat, vals : Nat]
  <2>1. 0 \in 0 .. d - 1 /\ at - d + 1 + 0 = f + l
    BY <1>4, <1>6
  <2>. QED BY <1>0, <1>4, <1>7, <2>1 DEF BuffType
<1>10. /\ tc.out \in Seq([time : Nat, vals : Nat])
       /\ Len(tc.out) = l + 1
       /\ \A i \in 1 .. l : tc.out[i] = sc.out[i]
       /\ tc.out[l + 1] = sd.buffData[p]
  BY <1>0, <1>2, <1>3, <1>9, AppendProperties, SMTT(60)
<1>11. \A i \in DOMAIN tc.out : tc.out[i] = Rec(f + i - 1)
  <2>1. \A i \in 1 .. l : sc.out[i] = Rec(f + i - 1)
    <3>. DOMAIN sc.out = 1 .. l
      BY <1>2, <1>3
    <3>. QED BY <1>3 DEF OnTrack
  <2>2. f + (l + 1) - 1 = f + l
    OBVIOUS
  <2>3. ASSUME NEW i \in 1 .. l + 1
        PROVE  tc.out[i] = Rec(f + i - 1)
    <3>1. CASE i = l + 1
      BY <1>9, <1>10, <2>2, <3>1
    <3>2. CASE i # l + 1
      <4>. i \in 1 .. l
        BY <3>2
      <4>. QED BY <1>10, <2>1
    <3>. QED BY <3>1, <3>2
  <2>4. DOMAIN tc.out = 1 .. l + 1
    BY <1>10
  <2>. QED BY <2>3, <2>4
<1>12. Holds(sd.buffData, NextPos(p), e, at)
  BY <1>5, <1>8 DEF Holds
<1>13. f + (l + 1) = at - (d - 1) + 1
  BY <1>6
<1>14. tc.at = w => sd.buffValuePos = tc.end
  BY DEF OnTrack
<1>. QED BY <1>1, <1>3, <1>5, <1>10, <1>11, <1>12, <1>13, <1>14 DEF OnTrack

\* The thread writes behind the end of a scan, not inside it.
LEMMA ScanOutruns ==
  ASSUME NEW sd, NEW t, NEW sc, NEW w \in Nat, ScanOf(sc, sd, w), sc.pos \in Slots,
         AllocSz = RingSz, w + 1 <= sc.at + 1, sd.lastData \in {w, w + 1},
         \A p \in Slots : p # sd.buffValuePos => t.buffData[p] = sd.buffData[p]
  PROVE  /\ OnTrack(sc, sd, w) /\ sc.at = w /\ sd.buffValuePos = sc.end
         /\ Holds(t.buffData, sc.pos, sc.end, sc.at)
<1>1. sc.at = w /\ OnTrack(sc, sd, w) /\ sd.buffValuePos = sc.end
  BY DEF ScanOf, OnTrack
<1>2. PICK p \in 0 .. RingSz - 1, e \in 0 .. RingSz - 1 : p = sc.pos /\ e = sc.end
  BY DEF ScanOf, Slots
<1>3. Holds(t.buffData, p, e, sc.at)
  <2>. SUFFICES ASSUME NEW i \in 0 .. Dist(p, e) - 1
                PROVE  t.buffData[Fwd(p, i)] = Rec(sc.at - Dist(p, e) + 1 + i)
    BY DEF Holds
  <2>1. Fwd(p, i) \in Slots /\ Fwd(p, i) # e
    BY DistFacts, PositionIsSlot
  <2>2. sd.buffData[Fwd(p, i)] = Rec(sc.at - Dist(p, e) + 1 + i)
    BY <1>1, <1>2 DEF OnTrack, Holds
  <2>. QED BY <1>1, <1>2, <2>1, <2>2
<1>. QED BY <1>1, <1>2, <1>3

\* The first half of a record stored during a scan ...
LEMMA HalfOutruns ==
  ASSUME NEW sd, NEW t, NEW sc, NEW w \in Nat, ScanOf(sc, sd, w), sc.pos \in Slots,
         sd.lastData = w, t.lastData = w + 1, t.isBuffEnable, t.buffValuePos = sd.buffValuePos,
         \A p \in Slots : p # sd.buffValuePos => t.buffData[p] = sd.buffData[p]
  PROVE  ScanOf(sc, t, w)
<1>. SUFFICES ASSUME AllocSz = RingSz, w + 1 <= sc.at + 1
              PROVE  OnTrack(sc, t, w)
  BY DEF ScanOf
<1>1. /\ OnTrack(sc, sd, w) /\ sc.at = w /\ sd.buffValuePos = sc.end
      /\ Holds(t.buffData, sc.pos, sc.end, sc.at)
  BY ScanOutruns
<1>. QED BY <1>1 DEF OnTrack

\* ... and the second.
LEMMA WholeOutruns ==
  ASSUME NEW sd, NEW t, NEW sc, NEW w \in Nat, ScanOf(sc, sd, w), sc.pos \in Slots,
         sd.lastData = w + 1, t.lastData = w + 1, t.isBuffEnable,
         \A p \in Slots : p # sd.buffValuePos => t.buffData[p] = sd.buffData[p]
  PROVE  ScanOf(sc, t, w + 1)
<1>. SUFFICES ASSUME AllocSz = RingSz, w + 1 <= sc.at + 1
              PROVE  OnTrack(sc, t, w + 1)
  BY DEF ScanOf
<1>1. /\ OnTrack(sc, sd, w) /\ sc.at = w /\ sd.buffValuePos = sc.end
      /\ Holds(t.buffData, sc.pos, sc.end, sc.at)
  BY ScanOutruns
<1>. QED BY <1>1 DEF OnTrack

-----------------------------------------------------------------------------
(* The steps.                                                              *)

\* Keys and modules of the signals.
LEMMA NameFacts == /\ \A s \in Signals : KeyOf[s] \in Keys /\ ModuleOf(s) \in Modules
                   /\ ScriptKey \in Keys
                   /\ Virtual \in Modules
BY DEF Keys, Modules

\* The least position is a slot.
LEMMA ZeroFacts == 0 \in Slots /\ 0 \in 0 .. RingSz - 1 /\ 0 \in 0 .. MaxRecords /\ MaxRecords \in Nat
BY SizeFacts, UpdateAssumption DEF Slots

\* map[k] = v.
LEMMA PutFacts ==
  ASSUME NEW map, NEW k, NEW v
  PROVE  /\ DOMAIN Put(map, k, v) = DOMAIN map \cup {k}
         /\ Put(map, k, v)[k] = v
         /\ \A x \in DOMAIN map : x # k => Put(map, k, v)[x] = map[x]
BY DEF Put

\* A new signal is one, without a ring.
LEMMA NewSignalType ==
  ASSUME NEW m \in Modules
  PROVE  /\ NewSignal(m) \in SignalType
         /\ ~NewSignal(m).isBuffEnable
         /\ NewSignal(m).lastData = 0
         /\ NewSignal(m).buffBeginPos = 0 /\ NewSignal(m).buffValuePos = 0
<1>1. [p \in Slots |-> NoSlot] \in [Slots -> [time : 0 .. MaxRecords, vals : 0 .. MaxRecords]]
  BY ZeroFacts DEF NoSlot
<1>. QED BY <1>1, ZeroFacts DEF NewSignal, SignalType

\* A map with one more entry of its type.
LEMMA PutType ==
  ASSUME NEW S, NEW map, map \in [DOMAIN map -> S], NEW k, NEW v \in S
  PROVE  Put(map, k, v) \in [DOMAIN map \cup {k} -> S]
BY DEF Put

\* What the registry holds for a known key.
LEMMA KnownFacts ==
  ASSUME TypeOK, NEW k \in Known
  PROVE  /\ signalData[k] \in SignalType
         /\ signalData[k].buffData \in BuffType
         /\ signalData[k].lastData \in Nat
         /\ k \in Keys
BY ZeroFacts DEF TypeOK, SignalType, BuffType

\* Signals that agree in what concerns their rings.
Same(t, sd) ==
  /\ t.isBuffEnable = sd.isBuffEnable
  /\ t.lastData = sd.lastData
  /\ t.buffBeginPos = sd.buffBeginPos
  /\ t.buffValuePos = sd.buffValuePos
  /\ t.buffMinTime = sd.buffMinTime
  /\ t.buffData = sd.buffData

\* A step that leaves the rings alone: it may register a signal.
Quiet ==
  /\ Known \subseteq Known'
  /\ \A k \in Known : Same(signalData'[k], signalData[k])
  /\ \A k \in Known' \ Known :
       /\ ~signalData'[k].isBuffEnable
       /\ signalData'[k].buffBeginPos = 0 /\ signalData'[k].buffValuePos = 0
  /\ madeAt' = madeAt
  /\ update.pc = "values" \/ update'.pc = "values" => update' = update

\* Such a step keeps the rings as they should be.
LEMMA QuietRings ==
  ASSUME IInv, Quiet
  PROVE  (\A k \in Known : Ring(k))'
<1>. SUFFICES ASSUME NEW k \in Known' PROVE Ring(k)'
  OBVIOUS
<1>1. CASE k \in Known
  <2>1. Ring(k) /\ Whole(k)' = Whole(k)
    BY <1>1 DEF IInv, Quiet, Whole, Mid, Same
  <2>. QED BY <1>1, <2>1 DEF Quiet, Same, Ring, RingOf, Shown
<1>2. CASE k \notin Known
  BY <1>2, ZeroFacts DEF Quiet, Ring, RingOf
<1>. QED BY <1>1, <1>2

\* ... and a scan that goes on where it was.
LEMMA QuietScan ==
  ASSUME IInv, Quiet, scan' = scan
  PROVE  Scanned'
<1>. SUFFICES ASSUME scan.key # Absent
              PROVE  scan.key \in Known' /\ ScanOf(scan, signalData[scan.key], Whole(scan.key))'
  BY DEF Scanned
<1>1. PICK k : k = scan.key
  OBVIOUS
<1>2. k \in Known /\ k \in Known' /\ ScanOf(scan, signalData[k], Whole(k)) /\ Whole(k)' = Whole(k)
  BY <1>1 DEF IInv, Scanned, Quiet, Whole, Mid, Same
<1>. QED BY <1>1, <1>2 DEF Quiet, Same, ScanOf, OnTrack

\* Nothing is registered, nothing is stored.
LEMMA InitInv == Init => IInv
<1>. SUFFICES ASSUME Init PROVE IInv
  OBVIOUS
<1>1. Known = {} /\ DOMAIN moduleData = {} /\ DOMAIN signActive = {} /\ DOMAIN moduleActive = {}
  BY DEF Known, Init
<1>2. TypeOK
  BY <1>1, ZeroFacts DEF Known, Init, TypeOK, IdleScan
<1>3. scan \in ScanType
  BY ZeroFacts DEF Init, IdleScan, ScanType
<1>. QED BY <1>1, <1>2, <1>3 DEF Known, Init, IInv, Thread, Counts, Enabling, Scanned, IdleScan

\* The thread starts: it copies the maps.
LEMMA StartCycleInv == IInv /\ StartCycle => IInv'
<1>. SUFFICES ASSUME IInv, StartCycle PROVE IInv'
  OBVIOUS
<1>1. TypeOK'
  BY DEF Known, IInv, TypeOK, StartCycle
<1>2. Quiet
  BY DEF Known, Quiet, StartCycle, Same, IInv, TypeOK
<1>3. Thread' /\ Counts' /\ Enabling'
  BY DEF Known, IInv, Thread, Counts, Enabling, StartCycle, TypeOK
<1>. QED BY <1>1, <1>2, <1>3, QuietRings, QuietScan DEF Known, IInv, StartCycle

\* A record arrives.
LEMMA TakeInv == \A s \in Signals : IInv /\ Take(s) => IInv'
<1>. SUFFICES ASSUME NEW s \in Signals, IInv, Take(s) PROVE IInv'
  OBVIOUS
<1>1. TypeOK'
  BY ZeroFacts DEF Known, IInv, TypeOK, Take
<1>2. Quiet
  BY DEF Known, Quiet, Take, Same
<1>3. Thread' /\ Enabling'
  BY DEF Known, IInv, Thread, Enabling, Take
<1>4. Counts'
  BY KnownFacts DEF Known, IInv, Counts, Take, TypeOK
<1>. QED BY <1>1, <1>2, <1>3, <1>4, QuietRings, QuietScan DEF Known, IInv, Take

\* A new signal and its module are registered.
LEMMA RegisterInv == IInv /\ Register => IInv'
<1>. SUFFICES ASSUME IInv, Register PROVE IInv'
  OBVIOUS
<1>1. PICK k \in Keys, m \in Modules : k = KeyOf[update.rec] /\ m = ModuleOf(update.rec)
  BY NameFacts DEF IInv, Thread, Register
<1>2. /\ signalData' = IF k \in Known THEN signalData ELSE Put(signalData, k, NewSignal(m))
      /\ moduleData' = IF m \in DOMAIN moduleData THEN moduleData ELSE Put(moduleData, m, FALSE)
      /\ sref' = sref \cup {k} /\ mref' = mref \cup {m}
  BY <1>1 DEF Register, LookUp
<1>3. signalData \in [DOMAIN signalData -> SignalType] /\ moduleData \in [DOMAIN moduleData -> BOOLEAN]
  BY DEF IInv, TypeOK, Known
<1>4. /\ Known' = Known \cup {k}
      /\ signalData' \in [Known' -> SignalType]
      /\ \A x \in Known : signalData'[x] = signalData[x]
      /\ k \notin Known => signalData'[k] = NewSignal(m)
  <2>1. CASE k \in Known
    BY <1>2, <1>3, <2>1 DEF Known
  <2>2. CASE k \notin Known
    <3>1. PICK new : new = NewSignal(m) /\ new \in SignalType
      BY NewSignalType
    <3>2. signalData' = Put(signalData, k, new)
      BY <1>2, <2>2, <3>1
    <3>3. signalData' \in [DOMAIN signalData \cup {k} -> SignalType]
      BY <1>3, <3>1, <3>2, PutType
    <3>4. signalData'[k] = new /\ \A x \in DOMAIN signalData : x # k => signalData'[x] = signalData[x]
      BY <3>2 DEF Put
    <3>. QED BY <2>2, <3>1, <3>3, <3>4 DEF Known
  <2>. QED BY <2>1, <2>2
<1>5. /\ DOMAIN moduleData' = DOMAIN moduleData \cup {m}
      /\ moduleData' \in [DOMAIN moduleData' -> BOOLEAN]
  <2>1. CASE m \in DOMAIN moduleData
    BY <1>2, <1>3, <2>1
  <2>2. CASE m \notin DOMAIN moduleData
    BY <1>2, <1>3, <2>2, PutFacts, PutType
  <2>. QED BY <2>1, <2>2
<1>6. update' = [update EXCEPT !.pc = "store"] /\ update'.pc = "store" /\ update'.rec = update.rec
  BY DEF Register, IInv, TypeOK
<1>7. TypeOK'
  BY <1>1, <1>2, <1>4, <1>5, <1>6 DEF Register, IInv, TypeOK
<1>8. Quiet
  BY <1>4, <1>6, NewSignalType DEF Quiet, Register, Same
<1>9. Thread' /\ Enabling'
  BY <1>1, <1>2, <1>4, <1>6 DEF IInv, Thread, Enabling, Register, TypeOK
<1>10. Counts'
  <2>1. taken \in Nat /\ taken > 0
    BY UpdateAssumption DEF IInv, TypeOK, Counts, Register
  <2>. QED BY <1>4, <1>6, <2>1, KnownFacts, NewSignalType DEF IInv, Counts, Register
<1>. QED BY <1>7, <1>8, <1>9, <1>10, QuietRings, QuietScan DEF IInv, Register

\* The connections are checked.
LEMMA CheckInv == IInv /\ Check => IInv'
<1>. SUFFICES ASSUME IInv, Check PROVE IInv'
  OBVIOUS
<1>1. ASSUME NEW k \in Known
      PROVE  /\ signalData'[k] \in SignalType
             /\ Same(signalData'[k], signalData[k])
  <2>1. signalData[k] \in SignalType
    BY KnownFacts DEF IInv
  <2>2. CASE k \in DOMAIN signActive
    <3>1. signActive[k] \in BOOLEAN
      BY <2>2 DEF IInv, TypeOK
    <3>. QED BY <2>1, <2>2, <3>1 DEF Check, SignalType, Same
  <2>3. CASE k \notin DOMAIN signActive
    BY <2>1, <2>3 DEF Check, Same
  <2>. QED BY <2>2, <2>3
<1>2. Known' = Known
  BY DEF Check, Known
<1>3. signalData' \in [Known -> SignalType]
  BY <1>1 DEF Check
<1>4. /\ DOMAIN moduleData' = DOMAIN moduleData
      /\ moduleData' \in [DOMAIN moduleData -> BOOLEAN]
      /\ DOMAIN moduleActive' = DOMAIN moduleActive
      /\ moduleActive' \in [DOMAIN moduleActive -> BOOLEAN]
      /\ DOMAIN signActive' = DOMAIN signActive
      /\ signActive' \in [DOMAIN signActive -> BOOLEAN]
  BY DEF Check, Checked, TakeBackMarks, IInv, TypeOK
<1>5. update'.rec = update.rec /\ update.pc = "idle" /\ update'.pc \in {"idle", "null"}
      /\ update' \in [pc : {"idle", "null"}, rec : Signals \cup {NoRec}]
  BY DEF Check, IInv, TypeOK
<1>6. TypeOK'
  BY <1>2, <1>3, <1>4, <1>5 DEF Check, IInv, TypeOK
<1>7. Quiet
  BY <1>1, <1>2, <1>5 DEF Quiet, Check
<1>8. Thread' /\ Enabling'
  BY <1>1, <1>2, <1>5 DEF IInv, Thread, Enabling, Check, Same, TypeOK
<1>9. Counts'
  BY <1>1, <1>2, <1>5 DEF IInv, Counts, Check, Same
<1>. QED BY <1>6, <1>7, <1>8, <1>9, QuietRings, QuietScan DEF IInv, Check

\* A script makes its signal.
LEMMA AddVirtualInv == IInv /\ AddVirtual => IInv'
<1>. SUFFICES ASSUME IInv, AddVirtual PROVE IInv'
  OBVIOUS
<1>1. signalData \in [DOMAIN signalData -> SignalType] /\ moduleData \in [DOMAIN moduleData -> BOOLEAN]
  BY DEF IInv, TypeOK, Known
<1>2. /\ Known' = Known \cup {ScriptKey} /\ ScriptKey \notin Known
      /\ signalData' \in [Known' -> SignalType]
      /\ \A x \in Known : signalData'[x] = signalData[x]
      /\ signalData'[ScriptKey] = NewSignal(Virtual)
  <2>1. PICK new : new = NewSignal(Virtual) /\ new \in SignalType
    BY NewSignalType, NameFacts
  <2>2. signalData' = Put(signalData, ScriptKey, new) /\ ScriptKey \notin Known
    BY <2>1 DEF AddVirtual
  <2>3. signalData' \in [DOMAIN signalData \cup {ScriptKey} -> SignalType]
    BY <1>1, <2>1, <2>2, PutType
  <2>4. /\ signalData'[ScriptKey] = new
        /\ \A x \in DOMAIN signalData : x # ScriptKey => signalData'[x] = signalData[x]
    BY <2>2 DEF Put
  <2>. QED BY <2>1, <2>2, <2>3, <2>4 DEF Known
<1>3. /\ DOMAIN moduleData' = DOMAIN moduleData \cup {Virtual}
      /\ moduleData' \in [DOMAIN moduleData' -> BOOLEAN]
  BY <1>1, PutFacts, PutType DEF AddVirtual
<1>4. TypeOK'
  BY <1>2, <1>3, NameFacts DEF AddVirtual, IInv, TypeOK
<1>5. Quiet
  BY <1>2, NameFacts, NewSignalType DEF Quiet, AddVirtual, Same
<1>6. Thread' /\ Enabling'
  BY <1>2 DEF IInv, Thread, Enabling, AddVirtual, TypeOK
<1>7. Counts'
  <2>1. taken \in Nat
    BY UpdateAssumption DEF IInv, TypeOK
  <2>. QED BY <1>2, <2>1, NameFacts, NewSignalType DEF IInv, Counts, AddVirtual
<1>. QED BY <1>4, <1>5, <1>6, <1>7, QuietRings, QuietScan DEF IInv, AddVirtual

\* A ring is made ...
LEMMA MakeRingInv == \A k \in Keys : IInv /\ MakeRing(k) => IInv'
<1>. SUFFICES ASSUME NEW k \in Keys, IInv, MakeRing(k) PROVE IInv'
  OBVIOUS
<1>1. TypeOK' /\ Thread' /\ Counts' /\ Enabling'
  BY DEF Known, IInv, TypeOK, Thread, Counts, Enabling, MakeRing
<1>2. Quiet
  BY DEF Known, Quiet, MakeRing, Same
<1>. QED BY <1>1, <1>2, QuietRings, QuietScan DEF Known, IInv, MakeRing

\* ... and shown, empty.
LEMMA EnableRingInv == IInv /\ EnableRing => IInv'
<1>. SUFFICES ASSUME IInv, EnableRing PROVE IInv'
  OBVIOUS
<1>1. PICK k \in Known : k = enabling /\ ~signalData[k].isBuffEnable
  BY DEF IInv, TypeOK, Enabling, EnableRing
<1>2. /\ signalData' = [signalData EXCEPT ![k].isBuffEnable = TRUE]
      /\ madeAt' = [madeAt EXCEPT ![k] = signalData[k].lastData]
      /\ enabling' = Absent /\ update' = update /\ update.pc # "values" /\ taken' = taken
      /\ scan' = scan
  BY <1>1 DEF EnableRing, RWFree
<1>3. signalData \in [Known -> SignalType] /\ signalData[k] \in SignalType /\ k \in Keys
  BY KnownFacts DEF IInv, TypeOK
<1>4. /\ Known' = Known
      /\ \A x \in Known : x # k => signalData'[x] = signalData[x] /\ madeAt'[x] = madeAt[x]
      /\ signalData'[k] = [signalData[k] EXCEPT !.isBuffEnable = TRUE]
      /\ madeAt'[k] = signalData[k].lastData
  BY <1>2, <1>3, KnownFacts DEF Known, IInv, Counts, TypeOK
<1>5. PICK sd \in SignalType : sd = signalData[k]
  BY <1>3
<1>6. PICK t \in SignalType :
        /\ t = signalData'[k] /\ t.isBuffEnable /\ t.lastData = sd.lastData
        /\ t.buffBeginPos = sd.buffBeginPos /\ t.buffValuePos = sd.buffValuePos
        /\ t.buffData = sd.buffData
  BY <1>4, <1>5 DEF SignalType
<1>7. signalData' \in [Known -> SignalType]
  BY <1>2, <1>3, <1>4, <1>6
<1>8. TypeOK'
  BY <1>1, <1>2, <1>4, <1>7 DEF EnableRing, IInv, TypeOK
<1>9. Thread' /\ Enabling'
  BY <1>2, <1>4, <1>6 DEF IInv, Thread, Enabling, EnableRing
<1>10. Counts'
  BY <1>2, <1>3, <1>4, <1>5, <1>6, KnownFacts DEF IInv, Counts
<1>11. (\A x \in Known : Ring(x))'
  <2>. SUFFICES ASSUME NEW x \in Known PROVE Ring(x)'
    BY <1>4
  <2>1. Ring(x) /\ Whole(x) = signalData[x].lastData /\ Whole(x)' = signalData'[x].lastData
    BY <1>2 DEF IInv, Whole, Mid
  <2>2. CASE x = k
    <3>1. sd.lastData \in Nat /\ ~sd.isBuffEnable
      BY <1>1, <1>5, KnownFacts DEF IInv
    <3>2. RingOf(t, sd.lastData, sd.lastData)
      BY <1>1, <1>5, <1>6, <2>1, <2>2, <3>1, NewRing DEF Ring
    <3>. QED BY <1>4, <1>5, <1>6, <2>1, <2>2, <3>2 DEF Ring
  <2>3. CASE x # k
    BY <1>4, <2>1, <2>3 DEF Ring
  <2>. QED BY <2>2, <2>3
<1>12. Scanned'
  <2>1. ASSUME NEW x, x = scan.key, scan.key # Absent
        PROVE  x \in Known' /\ ScanOf(scan, signalData'[x], Whole(x)')
    <3>1. x \in Known /\ ScanOf(scan, signalData[x], Whole(x)) /\ Whole(x)' = Whole(x)
      BY <1>1, <1>2, <1>4, <2>1 DEF IInv, Scanned, ScanOf, Whole, Mid
    <3>2. x # k
      BY <1>1, <3>1 DEF ScanOf
    <3>. QED BY <1>4, <3>1, <3>2
  <2>. QED BY <1>2, <2>1 DEF Scanned
<1>. QED BY <1>2, <1>8, <1>9, <1>10, <1>11, <1>12 DEF IInv

\* The first half of storing a record.
LEMMA StoreTimeInv == IInv /\ StoreTime => IInv'
<1>. SUFFICES ASSUME IInv, StoreTime PROVE IInv'
  OBVIOUS
<1>1. PICK k \in Known : k = KeyOf[update.rec] /\ k \in sref
  BY DEF IInv, TypeOK, Thread, StoreTime
<1>2. PICK sd \in SignalType, w \in Nat : sd = signalData[k] /\ w = sd.lastData
  BY KnownFacts DEF IInv
<1>3. /\ update.pc = "store" /\ update' = [update EXCEPT !.pc = IF sd.isBuffEnable THEN "values" ELSE "idle"]
      /\ signActive' = Put(signActive, k, TRUE)
      /\ moduleActive' = Put(moduleActive, ModuleOf(update.rec), TRUE)
      /\ UNCHANGED <<moduleData, sref, mref, enabling, scan, madeAt, taken>>
      /\ signalData' = [signalData EXCEPT ![k].lastData = w + 1,
                                         ![k].buffData = IF sd.isBuffEnable
                           THEN [@ EXCEPT ![sd.buffValuePos].time = w + 1] ELSE @]
  BY <1>1, <1>2 DEF StoreTime
<1>4. sd.buffValuePos \in Slots /\ w + 1 \in 0 .. MaxRecords /\ sd.buffData \in BuffType
  <2>1. w + 1 <= taken /\ taken \in Nat /\ taken <= MaxRecords
    BY <1>2, <1>3, UpdateAssumption DEF IInv, Counts, TypeOK
  <2>. QED BY <1>2, <2>1, UpdateAssumption, KnownFacts DEF IInv, SignalType
<1>5. PICK buff \in [Slots -> [time : 0 .. MaxRecords, vals : 0 .. MaxRecords]] :
        buff = IF sd.isBuffEnable THEN [sd.buffData EXCEPT ![sd.buffValuePos].time = w + 1]
                                  ELSE sd.buffData
  BY <1>4 DEF SignalType
<1>6. PICK t \in SignalType :
        /\ t = [sd EXCEPT !.lastData = w + 1, !.buffData = buff]
        /\ t.lastData = w + 1 /\ t.isBuffEnable = sd.isBuffEnable /\ t.buffData = buff
        /\ t.buffBeginPos = sd.buffBeginPos /\ t.buffValuePos = sd.buffValuePos
        /\ t.buffMinTime = sd.buffMinTime
  <2>1. PICK n \in 0 .. MaxRecords : n = w + 1
    BY <1>4
  <2>2. [sd EXCEPT !.lastData = n, !.buffData = buff] \in SignalType
    BY DEF SignalType
  <2>3. PICK t : t = [sd EXCEPT !.lastData = n, !.buffData = buff]
    OBVIOUS
  <2>4. /\ t.lastData = n /\ t.isBuffEnable = sd.isBuffEnable /\ t.buffData = buff
        /\ t.buffBeginPos = sd.buffBeginPos /\ t.buffValuePos = sd.buffValuePos
        /\ t.buffMinTime = sd.buffMinTime
    BY <2>3 DEF SignalType
  <2>. QED BY <2>1, <2>2, <2>3, <2>4
<1>7. signalData \in [Known -> SignalType]
  BY DEF IInv, TypeOK
<1>8. /\ Known' = Known
      /\ signalData'[k] = t
      /\ \A x \in Known : x # k => signalData'[x] = signalData[x]
      /\ signalData' \in [Known -> SignalType]
  BY <1>2, <1>3, <1>5, <1>6, <1>7 DEF Known
<1>9. /\ update'.rec = update.rec
      /\ update'.pc = IF sd.isBuffEnable THEN "values" ELSE "idle"
      /\ update.rec \in Signals
      /\ update' \in [pc : {"values", "idle"}, rec : Signals]
  BY <1>3 DEF IInv, TypeOK, Thread
<1>10. /\ DOMAIN signActive' = DOMAIN signActive \cup {k}
       /\ signActive' \in [DOMAIN signActive' -> BOOLEAN]
       /\ DOMAIN moduleActive' = DOMAIN moduleActive \cup {ModuleOf(update.rec)}
       /\ moduleActive' \in [DOMAIN moduleActive' -> BOOLEAN]
       /\ ModuleOf(update.rec) \in Modules
  BY <1>3, <1>9, NameFacts DEF Put, IInv, TypeOK
<1>11. TypeOK'
  BY <1>1, <1>3, <1>8, <1>9, <1>10 DEF IInv, TypeOK
<1>12. Thread' /\ Enabling'
  BY <1>1, <1>2, <1>3, <1>6, <1>8, <1>9, ZenonT(60) DEF IInv, Thread, Enabling, TypeOK
<1>13. Counts'
  BY <1>2, <1>3, <1>6, <1>8, <1>9, KnownFacts DEF IInv, Counts, TypeOK
<1>14. /\ Whole(k) = w /\ Whole(k)' = IF sd.isBuffEnable THEN w ELSE w + 1
       /\ \A x \in Known : x # k => Whole(x)' = Whole(x)
  <2>1. (Mid(k)' <=> sd.isBuffEnable) /\ ~Mid(k) /\ \A x \in Known : x # k => ~Mid(x) /\ ~Mid(x)'
    BY <1>1, <1>3, <1>9 DEF Mid
  <2>. QED BY <1>2, <1>6, <1>8, <2>1 DEF Whole
<1>15. (\A x \in Known : Ring(x))'
  <2>. SUFFICES ASSUME NEW x \in Known PROVE Ring(x)'
    BY <1>8
  <2>1. Ring(x)
    BY DEF IInv
  <2>2. CASE x # k
    BY <1>3, <1>8, <1>14, <2>1, <2>2 DEF Ring
  <2>3. CASE x = k /\ ~sd.isBuffEnable
    BY <1>2, <1>6, <1>8, <2>1, <2>3 DEF Ring, RingOf
  <2>4. CASE x = k /\ sd.isBuffEnable
    <3>1. PICK m \in Nat : m = madeAt[k]
      BY <1>1, KnownFacts DEF IInv, Counts
    <3>2. RingOf(sd, m, w) /\ t.buffData = [sd.buffData EXCEPT ![sd.buffValuePos].time = w + 1]
      BY <1>2, <1>5, <1>6, <1>14, <2>1, <2>4, <3>1 DEF Ring
    <3>3. sd.isBuffEnable /\ t.isBuffEnable /\ sd.lastData = w
      BY <1>2, <1>6, <2>4
    <3>4. RingOf(t, m, w)
      BY <1>4, <1>6, <3>2, <3>3, HalfStored, Zenon, SMTT(60)
    <3>. QED BY <1>3, <1>8, <1>14, <2>4, <3>1, <3>4 DEF Ring
  <2>. QED BY <2>2, <2>3, <2>4
<1>16. Scanned'
  <2>1. ASSUME NEW x, x = scan.key, scan.key # Absent
        PROVE  x \in Known /\ ScanOf(scan, signalData'[x], Whole(x)')
    <3>1. x \in Known /\ ScanOf(scan, signalData[x], Whole(x)) /\ scan.pos \in Slots
      BY <2>1 DEF IInv, Scanned, TypeOK
    <3>2. CASE x # k
      BY <1>8, <1>14, <3>1, <3>2
    <3>3. CASE x = k
      <4>1. ScanOf(scan, sd, w) /\ sd.isBuffEnable /\ Whole(k)' = w
        BY <1>2, <1>14, <3>1, <3>3 DEF ScanOf
      <4>2. \A p \in Slots : p # sd.buffValuePos => t.buffData[p] = sd.buffData[p]
        BY <1>5, <1>6, <4>1 DEF SignalType
      <4>3. t.isBuffEnable /\ sd.lastData = w /\ t.lastData = w + 1
        BY <1>2, <1>6, <4>1
      <4>4. ScanOf(scan, t, w)
        BY <1>6, <3>1, <4>1, <4>2, <4>3, HalfOutruns, Zenon, ZenonT(60)
      <4>. QED BY <1>8, <3>3, <4>1, <4>4
    <3>. QED BY <3>1, <3>2, <3>3
  <2>. QED BY <1>3, <1>8, <2>1 DEF Scanned
<1>. QED BY <1>3, <1>11, <1>12, <1>13, <1>15, <1>16 DEF IInv

\* The second half: the record is whole.
LEMMA StoreValuesInv == IInv /\ StoreValues => IInv'
<1>. SUFFICES ASSUME IInv, StoreValues PROVE IInv'
  OBVIOUS
<1>1. PICK k \in Known : k = KeyOf[update.rec] /\ k \in sref /\ signalData[k].isBuffEnable
  BY DEF IInv, TypeOK, Thread, StoreValues
<1>2. PICK sd \in SignalType : sd = signalData[k] /\ sd.isBuffEnable
  BY <1>1, KnownFacts DEF IInv
<1>3. PICK m \in Nat : m = madeAt[k]
  BY <1>1, KnownFacts DEF IInv, Counts
<1>4. update.pc = "values" /\ Mid(k) /\ \A x \in Known : x # k => ~Mid(x)
  BY <1>1 DEF StoreValues, Mid
<1>5. Ring(k) /\ sd.lastData \in Nat /\ Whole(k) = sd.lastData - 1
  BY <1>2, <1>4, KnownFacts DEF IInv, Whole
<1>6. PICK w \in Nat : w = Whole(k) /\ sd.lastData = w + 1
  <2>. Whole(k) \in Int /\ Whole(k) >= m
    BY <1>2, <1>3, <1>5 DEF Ring, RingOf, Shown
  <2>. QED BY <1>5
<1>7. RingOf(sd, m, w) /\ sd.buffData \in BuffType /\ sd.buffData = signalData[k].buffData
  BY <1>2, <1>3, <1>5, <1>6, KnownFacts DEF Ring, IInv
<1>8. PICK b \in 0 .. RingSz - 1, v \in 0 .. RingSz - 1 : b = sd.buffBeginPos /\ v = sd.buffValuePos
  BY <1>7 DEF RingOf
<1>9. /\ update' = [update EXCEPT !.pc = "idle"]
      /\ UNCHANGED <<moduleData, sref, mref, signActive, moduleActive, enabling, scan, madeAt, taken>>
      /\ signalData' = [signalData EXCEPT ![k].buffData[v].vals = w + 1,
                                         ![k].buffMinTime = sd.buffData[b].time,
                                         ![k].buffValuePos = NextPos(v),
                                         ![k].buffBeginPos = NewBegin(b, NextPos(v))]
  BY <1>1, <1>2, <1>6, <1>8 DEF StoreValues
<1>10. /\ NextPos(v) \in 0 .. RingSz - 1 /\ NewBegin(b, NextPos(v)) \in 0 .. RingSz - 1
       /\ b \in Slots /\ v \in Slots
  BY NextFacts, PositionIsSlot DEF NewBegin
<1>11. PICK t : t = [sd EXCEPT !.buffData[v].vals = w + 1, !.buffMinTime = sd.buffData[b].time,
                              !.buffValuePos = NextPos(v), !.buffBeginPos = NewBegin(b, NextPos(v))]
  OBVIOUS
<1>12. /\ t \in SignalType
       /\ t.lastData = w + 1 /\ t.isBuffEnable /\ t.buffMinTime = sd.buffData[b].time
       /\ t.buffValuePos = NextPos(v) /\ t.buffBeginPos = NewBegin(b, NextPos(v))
       /\ t.buffData = [sd.buffData EXCEPT ![v].vals = w + 1]
  <2>1. NextPos(v) \in Slots /\ NewBegin(b, NextPos(v)) \in Slots
    BY <1>10, PositionIsSlot
  <2>2. w + 1 \in 0 .. MaxRecords
    BY <1>6 DEF SignalType
  <2>3. sd.buffData[b].time \in 0 .. MaxRecords
    BY <1>10 DEF SignalType
  <2>4. [sd.buffData EXCEPT ![v].vals = w + 1] \in [Slots -> [time : 0 .. MaxRecords, vals : 0 .. MaxRecords]]
    BY <1>10, <2>2 DEF SignalType
  <2>5. t.buffData = [sd.buffData EXCEPT ![v].vals = w + 1]
    BY <1>11 DEF SignalType
  <2>6. /\ t.lastData = w + 1 /\ t.isBuffEnable /\ t.buffMinTime = sd.buffData[b].time
        /\ t.buffValuePos = NextPos(v) /\ t.buffBeginPos = NewBegin(b, NextPos(v))
    BY <1>2, <1>6, <1>11 DEF SignalType
  <2>7. t \in SignalType
    BY <1>11, <2>1, <2>3, <2>4 DEF SignalType
  <2>. QED BY <2>5, <2>6, <2>7
<1>13. /\ Known' = Known
       /\ signalData'[k] = t
       /\ \A x \in Known : x # k => signalData'[x] = signalData[x]
       /\ signalData' \in [Known -> SignalType]
  <2>. signalData \in [Known -> SignalType]
    BY DEF IInv, TypeOK
  <2>. QED BY <1>2, <1>9, <1>11, <1>12 DEF Known
<1>14. update'.rec = update.rec /\ update'.pc = "idle"
       /\ update' \in [pc : {"idle"}, rec : Signals \cup {NoRec}]
  BY <1>9 DEF IInv, TypeOK
<1>15. TypeOK'
  BY <1>9, <1>13, <1>14 DEF IInv, TypeOK
<1>16. Thread' /\ Enabling'
  <2>1. Thread'
    BY <1>14 DEF Thread
  <2>2. enabling' = enabling /\ (enabling # Absent => enabling \in Known /\ enabling # k)
    BY <1>1, <1>9 DEF IInv, Enabling, TypeOK
  <2>. QED BY <1>13, <2>1, <2>2 DEF IInv, Enabling
<1>17. Counts'
  BY <1>2, <1>4, <1>6, <1>9, <1>12, <1>13, <1>14, SMTT(60) DEF IInv, Counts, TypeOK
<1>18. Whole(k)' = w + 1 /\ \A x \in Known : x # k => Whole(x)' = Whole(x)
  BY <1>4, <1>12, <1>13, <1>14 DEF Whole, Mid
<1>19. (\A x \in Known : Ring(x))'
  <2>. SUFFICES ASSUME NEW x \in Known PROVE Ring(x)'
    BY <1>13
  <2>1. CASE x # k
    BY <1>9, <1>13, <1>18, <2>1 DEF IInv, Ring
  <2>2. CASE x = k
    <3>1. RingOf(t, m, w + 1)
      BY <1>2, <1>6, <1>7, <1>8, <1>12, WholeStored, Zenon
    <3>. QED BY <1>3, <1>9, <1>13, <1>18, <2>2, <3>1 DEF Ring
  <2>. QED BY <2>1, <2>2
<1>20. Scanned'
  <2>1. ASSUME NEW x, x = scan.key, scan.key # Absent
        PROVE  x \in Known /\ ScanOf(scan, signalData'[x], Whole(x)')
    <3>1. x \in Known /\ ScanOf(scan, signalData[x], Whole(x)) /\ scan.pos \in Slots
      BY <2>1 DEF IInv, Scanned, TypeOK
    <3>2. CASE x # k
      BY <1>13, <1>18, <3>1, <3>2
    <3>3. CASE x = k
      <4>1. ScanOf(scan, sd, w)
        BY <1>2, <1>6, <3>1, <3>3
      <4>2. \A p \in Slots : p # sd.buffValuePos => t.buffData[p] = sd.buffData[p]
        BY <1>8, <1>12 DEF SignalType
      <4>3. ScanOf(scan, t, w + 1)
        BY <1>6, <1>12, <3>1, <4>1, <4>2, WholeOutruns, Zenon
      <4>. QED BY <1>13, <1>18, <3>3, <4>3
    <3>. QED BY <3>1, <3>2, <3>3
  <2>. QED BY <1>9, <1>13, <2>1 DEF Scanned
<1>. QED BY <1>9, <1>15, <1>16, <1>17, <1>19, <1>20 DEF IInv

\* A scan takes its bounds ...
LEMMA ScanStartInv == \A k \in Keys : IInv /\ ScanStart(k) => IInv'
<1>. SUFFICES ASSUME NEW k \in Keys, IInv, ScanStart(k) PROVE IInv'
  OBVIOUS
<1>1. /\ k \in Known /\ signalData[k].isBuffEnable /\ ~Mid(k)
      /\ UNCHANGED <<signalData, moduleData, sref, mref, signActive, moduleActive, update,
                     enabling, madeAt, taken>>
  BY DEF ScanStart, RWFree, Mid
<1>2. Ring(k) /\ Whole(k) = signalData[k].lastData /\ Whole(k) \in Nat /\ madeAt[k] \in Nat
      /\ Whole(k)' = Whole(k)
  BY <1>1, KnownFacts DEF IInv, Whole, Mid, Counts
<1>3. /\ scan'.key = k /\ scan'.pos = signalData[k].buffBeginPos
      /\ scan'.end = signalData[k].buffValuePos /\ scan'.out = <<>>
      /\ scan'.at = Whole(k) /\ scan'.first = Whole(k) - Window(signalData[k]) + 1
  BY <1>2 DEF ScanStart
<1>4. PICK sc : sc = scan'
  OBVIOUS
<1>5. ScanOf(sc, signalData[k], Whole(k))
  BY <1>1, <1>2, <1>3, <1>4, ScanBegins, Zenon DEF Ring
<1>6. scan'.pos \in Slots
  BY <1>2, <1>3, PositionIsSlot DEF Ring, RingOf
<1>7. TypeOK' /\ Thread' /\ Counts' /\ Enabling'
  BY <1>1, <1>6 DEF IInv, TypeOK, Thread, Counts, Enabling, Known
<1>8. Quiet
  BY <1>1 DEF Quiet, Same, Known
<1>9. Scanned'
  BY <1>1, <1>2, <1>3, <1>4, <1>5 DEF Scanned, Known
<1>10. scan' \in ScanType
  <2>1. Window(signalData[k]) \in Int
    BY <1>2, WindowFacts, DistFacts, SMTT(60) DEF Ring, RingOf
  <2>2. scan' = [key |-> k, pos |-> scan'.pos, end |-> scan'.end, out |-> <<>>, at |-> scan'.at,
                 first |-> scan'.first]
    BY <1>3 DEF ScanStart
  <2>3. scan'.end \in 0 .. RingSz - 1 /\ scan'.at \in Nat /\ scan'.first \in Int
    BY <1>2, <1>3, <2>1 DEF Ring, RingOf
  <2>4. <<>> \in Seq([time : Nat, vals : Nat])
    OBVIOUS
  <2>5. PICK p \in Slots, e \in 0 .. RingSz - 1, a \in Nat, f \in Int :
          scan' = [key |-> k, pos |-> p, end |-> e, out |-> <<>>, at |-> a, first |-> f]
    BY <1>6, <2>2, <2>3, Zenon
  <2>. QED BY <2>4, <2>5 DEF ScanType
<1>. QED BY <1>7, <1>8, <1>9, <1>10, QuietRings DEF IInv

\* ... reads slot after slot ...
LEMMA ScanSlotInv == IInv /\ ScanSlot => IInv'
<1>. SUFFICES ASSUME IInv, ScanSlot PROVE IInv'
  OBVIOUS
<1>1. UNCHANGED <<signalData, moduleData, sref, mref, signActive, moduleActive, update,
                  enabling, madeAt, taken>>
  BY DEF ScanSlot
<1>2. PICK k : k = scan.key
  OBVIOUS
<1>3. k \in Known /\ ScanOf(scan, signalData[k], Whole(k)) /\ Whole(k) \in Nat /\ Whole(k)' = Whole(k)
  <2>1. k \in Known /\ ScanOf(scan, signalData[k], Whole(k)) /\ Whole(k)' = Whole(k)
    BY <1>1, <1>2 DEF IInv, Scanned, ScanSlot, Whole, Mid
  <2>2. Whole(k) \in Int /\ Whole(k) >= scan.at /\ scan.at \in Nat
    BY <2>1, KnownFacts DEF IInv, ScanOf, Whole
  <2>. QED BY <2>1, <2>2
<1>4. PICK tc : tc = scan'
  OBVIOUS
<1>5. /\ tc.key = k /\ tc.at = scan.at /\ tc.first = scan.first /\ tc.end = scan.end
      /\ tc.out = Append(scan.out, signalData[k].buffData[scan.pos])
      /\ tc.pos = IF scan.pos + 1 >= AllocSz THEN 0 ELSE scan.pos + 1
      /\ tc = [scan EXCEPT !.out = tc.out, !.pos = tc.pos]
  BY <1>2, <1>4 DEF ScanSlot, IInv, ScanType
<1>6. scan.pos \in Slots /\ scan.pos # scan.end /\ signalData[k].buffData \in BuffType
  BY <1>2, <1>3, KnownFacts DEF IInv, TypeOK, ScanSlot
<1>7. ScanOf(tc, signalData[k], Whole(k))
  BY <1>3, <1>5, <1>6, ScanReads, Zenon
<1>8. tc.pos \in Slots /\ tc.out \in Seq([time : Nat, vals : Nat])
  <2>1. tc.pos \in Slots
    BY <1>5, <1>6, SizeFacts DEF Slots
  <2>2. scan.out \in Seq([time : Nat, vals : Nat]) /\ signalData[k].buffData[scan.pos] \in [time : Nat, vals : Nat]
    BY <1>6 DEF IInv, ScanType, BuffType
  <2>. QED BY <1>5, <2>1, <2>2, AppendProperties
<1>9. scan' \in ScanType
  BY <1>4, <1>5, <1>8 DEF IInv, ScanType
<1>10. TypeOK' /\ Thread' /\ Counts' /\ Enabling'
  BY <1>1, <1>4, <1>8 DEF IInv, TypeOK, Thread, Counts, Enabling, Known
<1>11. Quiet
  BY <1>1 DEF Quiet, Same, Known
<1>12. Scanned'
  BY <1>1, <1>3, <1>4, <1>5, <1>7 DEF Scanned, Known
<1>. QED BY <1>9, <1>10, <1>11, <1>12, QuietRings DEF IInv

\* ... and ends.
LEMMA ScanEndInv == IInv /\ ScanEnd => IInv'
<1>. SUFFICES ASSUME IInv, ScanEnd PROVE IInv'
  OBVIOUS
<1>1. TypeOK' /\ Thread' /\ Counts' /\ Enabling'
  BY ZeroFacts DEF IInv, TypeOK, Thread, Counts, Enabling, ScanEnd, Known, IdleScan
<1>2. Quiet
  BY DEF Quiet, ScanEnd, Same, Known
<1>3. scan' \in ScanType /\ Scanned'
  BY ZeroFacts DEF ScanEnd, IdleScan, ScanType, Scanned
<1>. QED BY <1>1, <1>2, <1>3, QuietRings DEF IInv

-----------------------------------------------------------------------------
(* The theorems.                                                           *)

\* The inductive invariant holds in every reachable state.
THEOREM Invariance == Spec => []IInv
<1>1. IInv /\ [Next]_vars => IInv'
  <2>. SUFFICES ASSUME IInv, [Next]_vars PROVE IInv'
    OBVIOUS
  <2>1. CASE \E s \in Signals : Take(s)
    BY <2>1, TakeInv
  <2>2. CASE UpdateStep
    BY <2>2, StartCycleInv, RegisterInv, StoreTimeInv, StoreValuesInv, CheckInv DEF UpdateStep
  <2>3. CASE UserStep
    BY <2>3, AddVirtualInv, MakeRingInv, ScanStartInv, EnableRingInv, ScanSlotInv, ScanEndInv
       DEF UserStep
  <2>4. CASE UNCHANGED vars
    <3>1. Quiet /\ scan' = scan
      BY <2>4 DEF vars, Quiet, Same, Known
    <3>2. TypeOK' /\ Thread' /\ Counts' /\ Enabling'
      BY <2>4 DEF vars, IInv, TypeOK, Thread, Counts, Enabling, Known
    <3>. QED BY <3>1, <3>2, QuietRings, QuietScan DEF IInv
  <2>. QED BY <2>1, <2>2, <2>3, <2>4 DEF Next
<1>. QED BY <1>1, InitInv, PTL DEF Spec

\* Every variable keeps to its range: the thread's positions stay inside the
\* vector that signalBufferEna made, whose size is computed in another place
\* (thread_update.cpp:130-150, server.cpp).
THEOREM TypeCorrect == Spec => []TypeOK
BY Invariance, PTL DEF IInv

\* A ring that is shown holds the last records, whole and in order
\* (thread_update.cpp).
THEOREM LatestRecords == Spec => []RingIsLatest
<1>1. IInv => RingIsLatest
  <2>. SUFFICES ASSUME IInv, NEW k \in Known, signalData[k].isBuffEnable, update.pc # "values"
                PROVE  LET sd == signalData[k]
                           n  == Window(sd)
                       IN  /\ n = IF sd.lastData - madeAt[k] < RingSz THEN sd.lastData - madeAt[k]
                                                                    ELSE RingSz - 1
                           /\ \A i \in 0 .. n - 1 :
                                sd.buffData[SlotAt(sd, i)] = [time |-> sd.lastData - n + 1 + i,
                                                              vals |-> sd.lastData - n + 1 + i]
                           /\ n > 0 => sd.buffMinTime \in {sd.lastData - n, sd.lastData - n + 1}
    BY DEF RingIsLatest
  <2>1. PICK sd \in SignalType, m \in Nat, w \in Nat :
          sd = signalData[k] /\ m = madeAt[k] /\ w = sd.lastData
    BY KnownFacts DEF IInv, Counts
  <2>2. RingOf(sd, m, w) /\ Shown(sd, m, w)
    BY <2>1 DEF IInv, Ring, RingOf, Whole, Mid
  <2>3. PICK b \in 0 .. RingSz - 1, v \in 0 .. RingSz - 1 : b = sd.buffBeginPos /\ v = sd.buffValuePos
    BY <2>2 DEF RingOf
  <2>4. PICK n \in 0 .. RingSz - 1 : n = Window(sd) /\ n = Dist(b, v)
    BY <2>3, WindowFacts, DistFacts
  <2>5. n = IF w - m < RingSz THEN w - m ELSE RingSz - 1
    BY <2>2, <2>3, <2>4 DEF Shown, Held
  <2>6. ASSUME NEW i \in 0 .. n - 1
        PROVE  sd.buffData[SlotAt(sd, i)] = Rec(w - n + 1 + i)
    <3>1. SlotAt(sd, i) = Fwd(b, i)
      <4>1. sd.buffBeginPos \in 0 .. RingSz - 1 /\ sd.buffValuePos \in 0 .. RingSz - 1
        BY <2>3
      <4>2. \A j \in 0 .. RingSz - 1 : SlotAt(sd, j) = Fwd(b, j)
        BY <2>3, <4>1, WindowFacts, Zenon
      <4>3. i \in 0 .. RingSz - 1
        BY <2>4, SizeFacts
      <4>. QED BY <4>2, <4>3, Zenon
    <3>2. \A j \in 0 .. n - 1 : sd.buffData[Fwd(b, j)] = Rec(w - n + 1 + j)
      BY <2>2, <2>3, <2>4, Zenon DEF Shown, Holds
    <3>. QED BY <3>1, <3>2
  <2>7. n > 0 => sd.buffMinTime \in {w - n, w - n + 1}
    <3>1. b # v => sd.buffMinTime \in {w - n, w - n + 1}
      BY <2>2, <2>3, <2>4, Zenon DEF Shown
    <3>2. n > 0 => b # v
      BY <2>4, DistFacts
    <3>. QED BY <3>1, <3>2
  <2>. QED BY <2>1, <2>4, <2>5, <2>6, <2>7 DEF Rec
<1>. QED BY <1>1, Invariance, PTL

\* A scan of a ring reads what it was promised, whole and in order, as long as
\* one more record is stored meanwhile at most (graph_widget.cpp reads without the lock).
THEOREM ScansInOrder == Spec => []ScanInOrder
<1>1. IInv => ScanInOrder
  BY DEF IInv, Scanned, ScanOf, OnTrack, ScanInOrder, Rec
<1>. QED BY <1>1, Invariance, PTL
=============================================================================
