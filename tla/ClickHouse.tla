----------------------------- MODULE ClickHouse -----------------------------
(***************************************************************************)
(* The database of the archive: the sink of the server                     *)
(* (SVServer/clickhouse_db.cpp, archive.cpp) and the loaders of the viewer *)
(* (SVViewer/clickhouse_loader.cpp, one per window).  Both are built with  *)
(* USE_ClickHouseDB only.                                                  *)
(*                                                                         *)
(* The sink is the record [ids, block, saver, loading, tblSignal,          *)
(* tblSData]: m_signals; the rows of m_signalBlock, or none; whether the   *)
(* thread that saves them is to come, and whether the one that reads the   *)
(* ids is; and the two tables, which outlive the process.  A row of        *)
(* tblSignal is <<id, name>>, one of tblSData is <<id, ts, value>>.        *)
(***************************************************************************)
EXTENDS Integers, Sequences, SequencesExt, FiniteSetsExt, Functions, Rounding

NoRows == <<>>

NewSink(tblSignal, tblSData) ==
  [ids |-> <<>>, block |-> NoRows, saver |-> FALSE, loading |-> TRUE,
   tblSignal |-> tblSignal, tblSData |-> tblSData]

\* The first row of a name counts, and of names that are known already none.
IdsOf(rows) ==
  [n \in {r[2] : r \in Range(rows)} |-> rows[SelectInSeq(rows, LAMBDA r : r[2] = n)][1]]

Extended(f, g) == [n \in DOMAIN f \cup DOMAIN g |-> IF n \in DOMAIN f THEN f[n] ELSE g[n]]

\* The thread of the constructor; ok is whether the database answers.
LoadIds(s, ok) ==
  [s EXCEPT !.loading = FALSE, !.ids = IF ok THEN Extended(@, IdsOf(s.tblSignal)) ELSE @]

\* The next id is the number of signals known.
AddDbSignal(s, name) ==
  LET id == Cardinality(DOMAIN s.ids)
  IN  IF name \in DOMAIN s.ids THEN s
      ELSE [s EXCEPT !.ids   = Extended(@, [n \in {name} |-> id]),
                     !.block = Append(@, <<id, name>>),
                     !.saver = @ \/ s.block = NoRows]

\* A second after the first of a block.  A block that cannot be inserted stays.
SaveSignals(s, ok) ==
  IF ok THEN [s EXCEPT !.saver = FALSE, !.tblSignal = @ \o s.block, !.block = NoRows]
  ELSE [s EXCEPT !.saver = FALSE]

\* The nearest float; an INT is stored as one.
Float32(x) ==
  LET unit == Min({u \in {1, 2, 4, 8, 16, 32, 64, 128} : Abs(x) \div u <= 16777216})
      q    == Abs(x) \div unit
      r    == Abs(x) % unit
      up   == IF 2 * r > unit \/ (2 * r = unit /\ q % 2 = 1) THEN 1 ELSE 0
  IN  IF x < 0 THEN -((q + up) * unit) ELSE (q + up) * unit

\* Every value of a record gets the time of the record.
RowsOf(id, recs) ==
  FlattenSeq([r \in DOMAIN recs |->
                [i \in DOMAIN recs[r].vals |-> <<id, recs[r].begin, Float32(recs[r].vals[i])>>]])

\* What the buffers hold of the signals that have an id; what is not inserted is lost.
SaveSData(s, order, sdata, ok) ==
  LET rows == FlattenSeq([i \in DOMAIN order |->
                            IF order[i] \in DOMAIN s.ids THEN RowsOf(s.ids[order[i]], sdata[order[i]])
                            ELSE <<>>])
  IN  IF ok THEN [s EXCEPT !.tblSData = @ \o rows] ELSE s

-----------------------------------------------------------------------------
(* When the archive has a sink, and when it uses it.  cfg is outDataBaseEna *)
(* of the archive, which setConfig does not take over.                     *)

ArchiveInit(ena) == [sink |-> ena, cfg |-> ena]
SetDbConfig(ar, ena) == [ar EXCEPT !.sink = @ \/ ena]
UsesSink(ar)      == ar.sink /\ ar.cfg

-----------------------------------------------------------------------------
(* The loader.  Of a signal all windows share [id, type, data, min, max,   *)
(* range]; each has of its own the last interval of every signal it has    *)
(* loaded.  packet, cycle and blockSize are SV_PACKETSZ, SV_CYCLESAVE_MS   *)
(* and the rows the database sends at a time.                              *)

\* The rows of an interval; 0 stands for a bound that is not given.
Selected(rows, id, from, to) ==
  SelectSeq(rows, LAMBDA r :
    /\ r[1] = id
    /\ from > 0 => from <= r[2]
    /\ to > 0   => IF from > 0 THEN r[2] <= to ELSE r[2] < to)

\* They arrive in the order of their times, if there is an interval, and in any
\* order that leaves.
MayArrive(arrived, rows, from, to) ==
  /\ \E p \in Permutations(DOMAIN rows) : arrived = [i \in DOMAIN rows |-> rows[p[i]]]
  /\ from > 0 \/ to > 0 => \A i, j \in DOMAIN arrived : i < j => arrived[i][2] <= arrived[j][2]

PutRow(st, row, packet) ==
  LET full == st.place + 1 = packet
  IN  IF st.pos > Len(st.data) THEN st
      ELSE [pos   |-> IF full THEN st.pos + 1 ELSE st.pos,
            place |-> IF full THEN 0 ELSE st.place + 1,
            data  |-> [st.data EXCEPT ![st.pos] =
                         [begin |-> row[2], vals |-> [@.vals EXCEPT ![st.place + 1] = row[3]]]]]

\* In each block the place in the record begins again.
Filled(data, arrived, blockSize, packet) ==
  LET blocks == [b \in 1 .. (Len(arrived) + blockSize - 1) \div blockSize |->
                   SubSeq(arrived, (b - 1) * blockSize + 1, Min({b * blockSize, Len(arrived)}))]
      put(st, block) == FoldLeft(LAMBDA q, row : PutRow(q, row, packet), [st EXCEPT !.place = 0], block)
  IN  FoldLeft(put, [pos |-> 1, place |-> 0, data |-> data], blocks).data

\* As many records as the rows can fill; those there were keep their times.
Resized(data, n, packet) ==
  [r \in 1 .. n |-> [begin |-> IF r <= Len(data) THEN data[r].begin ELSE 0,
                     vals  |-> [i \in 1 .. packet |-> 0]]]

LoadedRange(type, data) ==
  LET vals == UNION {Range(rec.vals) : rec \in Range(data)}
  IN  IF type = "BOOL" THEN <<2147483647, -2147483647>> ELSE <<Min(vals), Max(vals)>>

\* Without records the bounds of before stay.
WithData(sig, data, cycle) ==
  IF data = <<>> THEN [sig EXCEPT !.data = data]
  ELSE [sig EXCEPT !.data = data, !.min = data[1].begin, !.max = Last(data).begin + cycle,
                   !.range = LoadedRange(sig.type, data)]

\* memo is the interval this window has loaded, or <<>>; answer says how far the
\* database does: not at all, with the number of the rows, with the rows as well.
LoadSignalData(memo, sig, interval, answer, arrived, db) ==
  LET sized == Resized(sig.data, Len(arrived) \div db.packet, db.packet)
  IN  IF memo = interval THEN [memo |-> memo, sig |-> sig, done |-> TRUE]
      ELSE IF answer = "none" THEN [memo |-> memo, sig |-> sig, done |-> FALSE]
      ELSE IF answer = "count" THEN [memo |-> memo, sig |-> [sig EXCEPT !.data = sized], done |-> FALSE]
      ELSE [memo |-> interval, done |-> TRUE,
            sig  |-> WithData(sig, Filled(sized, arrived, db.blockSize, db.packet), db.cycle)]

\* The last row of a name counts.  Signals that are known keep all but their id.
LoadSignalNames(ids, rows) == Extended(IdsOf(Reverse(rows)), ids)

-----------------------------------------------------------------------------
(* What comes back out of the database, against what was put in.  TLC       *)
(* evaluates the assumptions in the run of MCArchive.                       *)

-----------------------------------------------------------------------------
(* Every way of five events of the sink.  The table knows a already.        *)

SinkEvents == {"load", "loadFails", "addA", "addB", "addC", "save", "saveFails", "restart"}

SinkStep(s, e) ==
  CASE e \in {"load", "loadFails"} -> IF s.loading THEN LoadIds(s, e = "load") ELSE s
    [] e \in {"save", "saveFails"} -> IF s.saver THEN SaveSignals(s, e = "save") ELSE s
    [] e = "restart" -> NewSink(s.tblSignal, s.tblSData)
    [] OTHER         -> AddDbSignal(s, e)

SinkRun(es) ==
  LET st[k \in 0 .. 5] == IF k = 0 THEN NewSink(<<<<0, "addA">>>>, <<>>) ELSE SinkStep(st[k - 1], es[k])
  IN  st

\* What can go wrong on the way.
Trouble(es) ==
  LET st == SinkRun(es)
  IN  {"loadFails" : k \in {i \in 1 .. 5 : es[i] = "loadFails"}}
      \cup {"early" : k \in {i \in 1 .. 5 : es[i] \in {"addA", "addB", "addC"} /\ st[i - 1].loading}}

\* No two names, of those in use or in the table, have one id, nor one name two.
IdsApart(s) ==
  LET pairs == Range(s.tblSignal) \cup {<<s.ids[n], n>> : n \in DOMAIN s.ids}
  IN  \A p, q \in pairs : p[1] = q[1] <=> p[2] = q[2]

\* An id is the number of signals known, not a free one: names keep apart as long
\* as the ids are read before the first signal comes, and no reading fails; a
\* restart, or a block that could not be inserted, does not mix names.
ASSUME SinkKeepsApart ==
  \A es \in [1 .. 5 -> SinkEvents] : Trouble(es) = {} => IdsApart(SinkRun(es)[5])

ASSUME EachTroubleMixes ==
  \A kind \in {"loadFails", "early"} :
    \E es \in [1 .. 5 -> SinkEvents] : kind \in Trouble(es) /\ ~IdsApart(SinkRun(es)[5])

\* Once a block could not be inserted no signal gets into the table before the next
\* start.
ASSUME FailedInsertIsLast ==
  \A es \in [1 .. 5 -> SinkEvents] :
    LET st == SinkRun(es)
    IN  \A i, j \in 1 .. 5 :
          (/\ i < j /\ es[i] = "saveFails" /\ st[i - 1].saver
           /\ \A k \in i .. j : es[k] # "restart") => st[j].tblSignal = st[i].tblSignal

\* Signals whose names were lost: what was written of one is read as another's.
ASSUME LostNameIsReused ==
  LET s1 == AddDbSignal(LoadIds(NewSink(<<>>, <<>>), TRUE), "b")
      s2 == SaveSData(s1, <<"b">>, [b |-> <<[begin |-> 1000, vals |-> <<7>>]>>], TRUE)
      s3 == SaveSignals(AddDbSignal(LoadIds(NewSink(s2.tblSignal, s2.tblSData), TRUE), "c"), TRUE)
  IN  Selected(s3.tblSData, LoadSignalNames(<<>>, s3.tblSignal)["c"], 0, 0) = <<<<0, 1000, 7>>>>

-----------------------------------------------------------------------------
(* From the buffers to the graph and back.                                  *)

Db(blockSize) == [blockSize |-> blockSize, packet |-> 2, cycle |-> 20]

Recs(n) == [r \in 1 .. n |-> [begin |-> 100 + 20 * r, vals |-> <<2 * r, 2 * r + 1>>]]

NewSig == [id |-> 0, type |-> "INT", data |-> <<>>, min |-> 0, max |-> 0, range |-> <<0, 0>>]

Loaded(sig, interval, rows, blockSize) ==
  LoadSignalData(<<>>, sig, interval, "rows", Selected(rows, 0, interval[1], interval[2]), Db(blockSize)).sig

\* Rows that come as they were written give the records they were made of, as long
\* as every block, but the last, ends with a record.
ASSUME RoundTrip ==
  \A n \in 1 .. 4, blockSize \in 1 .. 9 :
    LET sig == Loaded(NewSig, <<1, 1000>>, RowsOf(0, Recs(n)), blockSize)
    IN  sig.data = Recs(n) <=> blockSize % 2 = 0 \/ blockSize >= 2 * n

\* The rows of a record have one time, so the query does not say in which order
\* they come.
ASSUME OrderIsOpen ==
  LET rows  == RowsOf(0, Recs(2))
      other == <<rows[2], rows[1], rows[3], rows[4]>>
  IN  /\ MayArrive(other, rows, 1, 1000)
      /\ ~MayArrive(<<rows[3], rows[2], rows[1], rows[4]>>, rows, 1, 1000)
      /\ LoadSignalData(<<>>, NewSig, <<1, 1000>>, "rows", other, Db(8)).sig.data # Recs(2)

\* The records of an interval are those that begin in it, the ends included, unless
\* there is no beginning.
ASSUME IntervalIsOfBegins ==
  \A from \in {0, 110, 120, 130}, to \in {0, 130, 140, 150} :
    LET sig == Loaded(NewSig, <<from, to>>, RowsOf(0, Recs(4)), 100)
    IN  {rec.begin : rec \in Range(sig.data)}
          = {b \in {120, 140, 160, 180} : from <= b /\ (to > 0 => IF from > 0 THEN b <= to ELSE b < to)}

\* Whole numbers come back up to 2^24, and beyond if they are multiples.
ASSUME IntsAsFloats ==
  /\ \A x \in {0, 1, 12345, 16777215, 16777216, 16777218, 33554436, 1073741824} :
       Float32(x) = x /\ Float32(-x) = -x
  /\ Float32(16777217) = 16777216 /\ Float32(16777219) = 16777220 /\ Float32(33554434) = 33554432

\* A load that breaks off leaves records of nothing, and the window takes them for
\* the interval it had loaded before.
ASSUME BrokenLoadStays ==
  LET rows  == RowsOf(0, Recs(4))
      one   == LoadSignalData(<<>>, NewSig, <<110, 130>>, "rows", Selected(rows, 0, 110, 130), Db(8))
      two   == LoadSignalData(one.memo, one.sig, <<110, 170>>, "count", Selected(rows, 0, 110, 170), Db(8))
      again == LoadSignalData(two.memo, two.sig, <<110, 130>>, "rows", Selected(rows, 0, 110, 130), Db(8))
  IN  one.done /\ ~two.done /\ again.done /\ again.sig # one.sig

\* Two windows share the signal: what the second loads the first shows as its own.
ASSUME WindowsShare ==
  LET rows  == RowsOf(0, Recs(4))
      load(memo, sig, int) == LoadSignalData(memo, sig, int, "rows", Selected(rows, 0, int[1], int[2]), Db(8))
      first  == load(<<>>, NewSig, <<110, 130>>)
      second == load(<<>>, first.sig, <<150, 190>>)
      back   == load(first.memo, second.sig, <<110, 130>>)
  IN  back.done /\ back.sig = second.sig /\ back.sig # first.sig

\* A name with two rows: the sink writes under the first, the loader reads the last.
ASSUME DoubledNameIsLost ==
  LET table == <<<<0, "b">>, <<3, "b">>>>
      s     == SaveSData(LoadIds(NewSink(table, <<>>), TRUE), <<"b">>, [b |-> Recs(1)], TRUE)
  IN  Selected(s.tblSData, LoadSignalNames(<<>>, table)["b"], 0, 0) = <<>>

\* A database that is switched on while the server runs gets nothing; one that is
\* switched off goes on getting all.
ASSUME SwitchIsIgnored ==
  \A ena \in BOOLEAN : \A ways \in [1 .. 3 -> BOOLEAN] :
    UsesSink(FoldLeft(SetDbConfig, ArchiveInit(ena), ways)) = ena
=============================================================================
