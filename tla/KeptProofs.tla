----------------------------- MODULE KeptProofs -----------------------------
(***************************************************************************)
(* Theorems about what outlives a session of the monitor: what it keeps in *)
(* its database, for any signals, triggers, comments, colours and number   *)
(* of sessions, its settings and those of the viewer, for any texts and    *)
(* numbers, and the graphs on its panel, for any signals and any number of *)
(* graphs and sessions.                                                    *)
(*                                                                         *)
(* The database.  Of a signal the window has not seen yet, what the user   *)
(* left is in the tables (Unseen), of one it has seen, in memory (Seen).   *)
(* While the exit is saving, every datum is on its way from the one to the *)
(* other: either its statement is still to come or the table has it        *)
(* (SavingSignals); of the tables of triggers, which are emptied first,    *)
(* either all is to come, or the rows are those of the triggers whose      *)
(* statements are done, each once (SavingTriggers, SavingUsers).           *)
(*                                                                         *)
(* The panel.  Its lists have no repetition and name what there is         *)
(* (PanelOK), and the file has the plots that were left.  Loading is two   *)
(* recursive functions, over the lines and over the signals of a line: the *)
(* functions exist (LineEnds, LinesEnd), and after so many lines and so    *)
(* many signals the panel has that much of the file (Laid), each graph     *)
(* with its signals in the order in which they first stand in its line,    *)
(* the newest in front (Ordered).                                          *)
(***************************************************************************)
EXTENDS MonitorDb, Settings, GraphPanel, FiniteSetTheorems, SequenceTheorems, WellFoundedInduction, TLAPS

-----------------------------------------------------------------------------
(* The inductive invariant.                                                *)

Blanks     == {[name |-> NoName, signal |-> None, active |-> x] : x \in BOOLEAN}
MadeFor(n) == {Trigger(n, x) : x \in BOOLEAN}

\* A trigger that a name stands for in memory.
MeantBy(n) == IF n = OnName THEN Blanks ELSE MadeFor(n)

\* The names under which triggers are written.
RowNames == Triggers \cup {NoName}

\* A row is that of a trigger of its name.
Row == [name : RowNames, signal : Signals \cup {None}, active : BOOLEAN]
RowOK(r) == r \in Row /\ IF r.name = NoName THEN r \in Blanks ELSE r \in MadeFor(r.name)

\* Tables: no two rows of one name.
TablesOK ==
  /\ tSignal \in [Signals -> Comments \cup {None}]
  /\ tAttr \in [Signals -> Colours \cup {None}]
  /\ tTrigger \in Seq(Row) /\ \A i \in DOMAIN tTrigger : RowOK(tTrigger[i])
  /\ \A i, j \in DOMAIN tTrigger : tTrigger[i].name = tTrigger[j].name => i = j
  /\ tUser \in Seq(RowNames)
  /\ \A i, j \in DOMAIN tUser : tUser[i] = tUser[j] => i = j

MemoryOK ==
  /\ up \in {"runs", "saves", "down", "broken"}
  /\ session \in 1 .. MaxSessions
  /\ sref \subseteq Signals /\ signExist \subseteq sref \cup {OnName}
  /\ comment \in [Signals -> Comments]
  /\ signAttr \in [Signals -> Colours \cup {None}]
  /\ DOMAIN trgs \subseteq Triggers \cup {OnName}
  /\ \A n \in DOMAIN trgs : trgs[n] \in MeantBy(n)
  /\ DOMAIN lasting \subseteq Triggers
  /\ kept \in [Signals -> (Comments \X (Colours \cup {None}))]
  /\ up = "down" => FreshMemory

CommentIn(s) == IF tSignal[s] = None THEN Empty ELSE tSignal[s]

\* What the user left a trigger as is in the table.
LeftInTable(n) ==
  /\ n \in DOMAIN lasting <=> \E i \in DOMAIN tTrigger : tTrigger[i].name = n
  /\ \A i \in DOMAIN tTrigger : tTrigger[i].name = n => lasting[n] = tTrigger[i]

Unseen ==
  /\ \A s \in Signals \ signExist : comment[s] = Empty /\ signAttr[s] = None
  /\ \A n \in DOMAIN trgs \cap Triggers : Owner[n] \in signExist
  /\ up \in {"runs", "down"} =>
       /\ \A s \in Signals \ signExist : kept[s] = <<CommentIn(s), tAttr[s]>>
       /\ \A n \in Triggers : Owner[n] \notin signExist => LeftInTable(n)

LeftInMemory(n) ==
  /\ n \in DOMAIN lasting <=> n \in DOMAIN trgs
  /\ n \in DOMAIN lasting => trgs[n] = lasting[n]

Seen ==
  up \in {"runs", "saves"} =>
    /\ \A s \in signExist \cap Signals :
         kept[s] = <<comment[s], signAttr[s]>> /\ (signAttr[s] = None => tAttr[s] = None)
    /\ \A n \in Triggers : Owner[n] \in signExist => LeftInMemory(n)

-----------------------------------------------------------------------------
(* The statements of an exit.                                              *)

Deletes == {<<"delete triggers", None>>, <<"delete users", None>>}

Statement ==
  ({"signal"} \X sref) \cup ({"attr"} \X {s \in Signals : signAttr[s] # None})
    \cup Deletes \cup ({"trigger", "user"} \X DOMAIN trgs)

Coming(st) == \E i \in DOMAIN todo : todo[i] = st

\* Each once, and the tables of triggers are emptied before a row is written.
TodoOK ==
  /\ todo \in Seq(Statement)
  /\ \A i, j \in DOMAIN todo : todo[i] = todo[j] => i = j
  /\ \A i, j \in DOMAIN todo : todo[i] \in Deletes /\ todo[j][1] \in {"trigger", "user"} => i < j

SavingSignals ==
  \A s \in Signals :
    /\ s \in sref => Coming(<<"signal", s>>) \/ tSignal[s] = comment[s]
    /\ s \notin sref => kept[s][1] = CommentIn(s)
    /\ IF signAttr[s] # None THEN Coming(<<"attr", s>>) \/ tAttr[s] = signAttr[s]
                             ELSE kept[s][2] = tAttr[s]

SavingTriggers ==
  IF Coming(<<"delete triggers", None>>)
  THEN \A n \in DOMAIN trgs : Coming(<<"trigger", n>>)
  ELSE /\ \A i \in DOMAIN tTrigger : \E n \in DOMAIN trgs : tTrigger[i] = trgs[n]
       /\ \A n \in DOMAIN trgs :
            Coming(<<"trigger", n>>) <=> \A i \in DOMAIN tTrigger : tTrigger[i].name # NameOf(n)

SavingUsers ==
  ~Coming(<<"delete users", None>>) =>
    \A n \in DOMAIN trgs :
      Coming(<<"user", n>>) => \A i \in DOMAIN tUser : tUser[i] # NameOf(n)

Saving == up = "saves" => TodoOK /\ SavingSignals /\ SavingTriggers /\ SavingUsers

IInv == TablesOK /\ MemoryOK /\ Unseen /\ Seen /\ Saving

-----------------------------------------------------------------------------
(* Sequences without repetition, and lists of sets.                        *)

LEMMA Least ==
  ASSUME NEW T, T \subseteq Nat, T # {}
  PROVE  \E x \in T : \A y \in T : x <= y
<1> DEFINE Below == {ss \in Nat \X Nat : ss[1] < ss[2]}
<1>1. Below = OpToRel(<, Nat)
  BY DEF OpToRel
<1>2. IsWellFoundedOn(Below, Nat)
  BY <1>1, NatLessThanWellFounded
<1>3. PICK x \in T : \A y \in T : <<y, x>> \notin Below
  <2> HIDE DEF Below
  <2> QED BY <1>2, WFMin, Zenon
<1>4. ASSUME NEW y \in T PROVE x <= y
  <2>1. x \in Nat /\ y \in Nat /\ <<y, x>> \notin Below
    BY <1>3
  <2>2. y < x => <<y, x>> \in Below
    BY <2>1
  <2> QED BY <2>1, <2>2
<1> QED BY <1>4

\* What holds of 0, and with n of n + 1, holds of every number.
LEMMA FromZeroOn ==
  ASSUME NEW T, 0 \in T, \A n \in Nat : n \in T => n + 1 \in T
  PROVE  \A n \in Nat : n \in T
<1>1. SUFFICES ASSUME {n \in Nat : n \notin T} # {} PROVE FALSE
  OBVIOUS
<1>2. PICK x \in {n \in Nat : n \notin T} : \A y \in {n \in Nat : n \notin T} : x <= y
  <2>1. {n \in Nat : n \notin T} \subseteq Nat
    OBVIOUS
  <2>2. QED
    BY <1>1, <2>1, Least, Zenon
<1>3. x - 1 \in Nat /\ x - 1 \notin {n \in Nat : n \notin T}
  BY <1>2
<1>4. QED
  BY <1>2, <1>3

Distinct(q) == \A i, j \in DOMAIN q : q[i] = q[j] => i = j
In(q, st)   == \E i \in DOMAIN q : q[i] = st

LEMMA Joined ==
  ASSUME NEW S, NEW p \in Seq(S), NEW q \in Seq(S), Distinct(p), Distinct(q),
         \A i \in DOMAIN p, j \in DOMAIN q : p[i] # q[j]
  PROVE  /\ p \o q \in Seq(S) /\ Distinct(p \o q)
         /\ \A st : In(p \o q, st) <=> In(p, st) \/ In(q, st)
         /\ Len(p) \in Nat /\ DOMAIN (p \o q) \subseteq Nat
         /\ \A i \in DOMAIN (p \o q) : i <= Len(p) => i \in DOMAIN p /\ (p \o q)[i] = p[i]
         /\ \A i \in DOMAIN (p \o q) : i > Len(p) => \E j \in DOMAIN q : (p \o q)[i] = q[j]
<1>1. /\ p \o q \in Seq(S) /\ Len(p) \in Nat /\ Len(q) \in Nat
      /\ DOMAIN p = 1 .. Len(p) /\ DOMAIN q = 1 .. Len(q)
      /\ DOMAIN (p \o q) = 1 .. Len(p) + Len(q)
      /\ \A i \in 1 .. Len(p) + Len(q) : (p \o q)[i] = IF i <= Len(p) THEN p[i] ELSE q[i - Len(p)]
  OBVIOUS
<1>2. \A i \in DOMAIN p : i \in DOMAIN (p \o q) /\ (p \o q)[i] = p[i]
  BY <1>1
<1>3. \A j \in DOMAIN q : Len(p) + j \in DOMAIN (p \o q) /\ (p \o q)[Len(p) + j] = q[j]
  BY <1>1
<1>4. ASSUME NEW i \in DOMAIN (p \o q)
      PROVE  \/ i <= Len(p) /\ i \in DOMAIN p /\ (p \o q)[i] = p[i]
             \/ i > Len(p) /\ i - Len(p) \in DOMAIN q /\ (p \o q)[i] = q[i - Len(p)]
  BY <1>1
<1>5. Distinct(p \o q)
  <2> SUFFICES ASSUME NEW i \in DOMAIN (p \o q), NEW j \in DOMAIN (p \o q),
                      (p \o q)[i] = (p \o q)[j]
               PROVE  i = j
    BY DEF Distinct
  <2>1. CASE i <= Len(p) /\ j <= Len(p)
    BY <1>1, <1>4, <2>1 DEF Distinct
  <2>2. CASE i > Len(p) /\ j > Len(p)
    <3>1. q[i - Len(p)] = q[j - Len(p)] /\ i - Len(p) \in DOMAIN q /\ j - Len(p) \in DOMAIN q
      BY <1>1, <1>4, <2>2
    <3>2. i - Len(p) = j - Len(p)
      BY <3>1 DEF Distinct
    <3> QED BY <1>1, <3>2
  <2>3. CASE i <= Len(p) /\ j > Len(p)
    BY <1>1, <1>4, <2>3
  <2>4. CASE i > Len(p) /\ j <= Len(p)
    BY <1>1, <1>4, <2>4
  <2> QED BY <1>1, <2>1, <2>2, <2>3, <2>4
<1>6. ASSUME NEW st PROVE In(p \o q, st) <=> In(p, st) \/ In(q, st)
  <2>1. In(p, st) => In(p \o q, st)
    BY <1>2 DEF In
  <2>2. In(q, st) => In(p \o q, st)
    BY <1>3 DEF In
  <2>3. In(p \o q, st) => In(p, st) \/ In(q, st)
    BY <1>4 DEF In
  <2> QED BY <2>1, <2>2, <2>3
<1>7. DOMAIN (p \o q) \subseteq Nat
  BY <1>1
<1>8. \A i \in DOMAIN (p \o q) : i <= Len(p) => i \in DOMAIN p /\ (p \o q)[i] = p[i]
  BY <1>1
<1>9. \A i \in DOMAIN (p \o q) : i > Len(p) => \E j \in DOMAIN q : (p \o q)[i] = q[j]
  BY <1>1, <1>4
<1> QED BY <1>1, <1>5, <1>6, <1>7, <1>8, <1>9

LEMMA WiderSeq ==
  ASSUME NEW S, NEW T, S \subseteq T, NEW q \in Seq(S)
  PROVE  q \in Seq(T)
OBVIOUS

\* The list of a set has each of its members once.
LEMMA Listed ==
  ASSUME NEW S, IsFiniteSet(S)
  PROVE  /\ SetToSeq(S) \in Seq(S) /\ Len(SetToSeq(S)) \in Nat
         /\ DOMAIN SetToSeq(S) = 1 .. Len(SetToSeq(S))
         /\ Distinct(SetToSeq(S))
         /\ \A x \in S : In(SetToSeq(S), x)
<1> DEFINE n == Cardinality(S)
<1>1. n \in Nat /\ ExistsBijection(1 .. n, S)
  BY FS_CardinalityType
<1>2. PICK f : f \in [1 .. n -> S] /\ IsInjective(f)
  BY <1>1 DEF ExistsBijection, Bijection, Injection, IsInjective
<1>3. SetToSeq(S) \in [1 .. n -> S] /\ IsInjective(SetToSeq(S))
  BY <1>2 DEF SetToSeq
<1>4. PICK q : q = SetToSeq(S)
  OBVIOUS
<1>5. q \in Seq(S) /\ Len(q) = n /\ DOMAIN q = 1 .. n
  BY <1>1, <1>3, <1>4
<1>6. Distinct(q)
  BY <1>3, <1>4 DEF Distinct, IsInjective
<1>7. q \in Injection(1 .. n, S)
  BY <1>3, <1>4 DEF Injection, IsInjective
<1>8. IsFiniteSet(1 .. n) /\ Cardinality(1 .. n) = n
  BY <1>1, FS_Interval
<1>9. q \in Surjection(1 .. n, S)
  BY <1>7, <1>8, FS_Injection
<1>10. \A x \in S : In(q, x)
  BY <1>5, <1>9 DEF Surjection, In
<1> QED BY <1>1, <1>4, <1>5, <1>6, <1>10

LEMMA EachOnce ==
  ASSUME NEW S, IsFiniteSet(S), NEW kind
  PROVE  /\ Each(kind, S) \in Seq({kind} \X S) /\ Distinct(Each(kind, S))
         /\ \A x \in S : In(Each(kind, S), <<kind, x>>)
<1> DEFINE q == SetToSeq(S)
           e == [i \in DOMAIN q |-> <<kind, q[i]>>]
<1>1. /\ q \in Seq(S) /\ Len(q) \in Nat /\ DOMAIN q = 1 .. Len(q)
      /\ Distinct(q) /\ \A x \in S : In(q, x)
  BY Listed
<1>2. Each(kind, S) = e
  BY DEF Each
<1> HIDE DEF q
<1>3. e \in Seq({kind} \X S)
  BY <1>1
<1>4. Distinct(e)
  BY <1>1 DEF Distinct
<1>5. ASSUME NEW x \in S PROVE In(e, <<kind, x>>)
  <2>1. PICK i \in DOMAIN q : q[i] = x
    BY <1>1 DEF In
  <2>2. i \in DOMAIN e /\ e[i] = <<kind, x>>
    BY <2>1
  <2> QED BY <2>2 DEF In
<1> QED BY <1>2, <1>3, <1>4, <1>5

\* What is written of the triggers: of each its row and then its process.
Pairs(q) == [i \in 1 .. 2 * Len(q) |-> IF i % 2 = 1 THEN <<"trigger", q[(i + 1) \div 2]>>
                                                     ELSE <<"user", q[i \div 2]>>]

LEMMA PairsOnce ==
  ASSUME NEW S, NEW q \in Seq(S), Distinct(q), \A x \in S : In(q, x)
  PROVE  /\ Pairs(q) \in Seq({"trigger", "user"} \X S) /\ Distinct(Pairs(q))
         /\ \A x \in S : In(Pairs(q), <<"trigger", x>>) /\ In(Pairs(q), <<"user", x>>)
<1> DEFINE d == Pairs(q)
<1>1. Len(q) \in Nat /\ DOMAIN q = 1 .. Len(q)
  OBVIOUS
<1>2. ASSUME NEW i \in 1 .. 2 * Len(q)
      PROVE  \E k \in 1 .. Len(q) : \/ i = 2 * k - 1 /\ d[i] = <<"trigger", q[k]>>
                                    \/ i = 2 * k /\ d[i] = <<"user", q[k]>>
  <2>1. CASE i % 2 = 1
    <3>1. (i + 1) \div 2 \in 1 .. Len(q) /\ i = 2 * ((i + 1) \div 2) - 1
      BY <1>1, <2>1
    <3>2. d[i] = <<"trigger", q[(i + 1) \div 2]>>
      BY <2>1 DEF Pairs
    <3> QED BY <3>1, <3>2
  <2>2. CASE i % 2 # 1
    <3>1. i \div 2 \in 1 .. Len(q) /\ i = 2 * (i \div 2)
      BY <1>1, <2>2
    <3>2. d[i] = <<"user", q[i \div 2]>>
      BY <2>2 DEF Pairs
    <3> QED BY <3>1, <3>2
  <2> QED BY <2>1, <2>2
<1>3. DOMAIN d = 1 .. 2 * Len(q)
  BY DEF Pairs
<1>4. \A i \in 1 .. Len(q) : q[i] \in S
  OBVIOUS
<1>5. d \in Seq({"trigger", "user"} \X S)
  <2>1. ASSUME NEW i \in 1 .. 2 * Len(q) PROVE d[i] \in {"trigger", "user"} \X S
    <3> HIDE DEF d
    <3>1. PICK k \in 1 .. Len(q) : d[i] = <<"trigger", q[k]>> \/ d[i] = <<"user", q[k]>>
      BY <1>2
    <3>2. PICK x : x = q[k] /\ x \in S
      BY <1>4
    <3>3. d[i] = <<"trigger", x>> \/ d[i] = <<"user", x>>
      BY <3>1, <3>2
    <3>4. <<"trigger", x>> \in {"trigger", "user"} \X S /\ <<"user", x>> \in {"trigger", "user"} \X S
      BY <3>2
    <3> QED BY <3>3, <3>4, Zenon
  <2>2. d = [i \in 1 .. 2 * Len(q) |-> d[i]]
    BY DEF Pairs
  <2>3. 2 * Len(q) \in Nat
    BY <1>1
  <2> HIDE DEF d
  <2> QED BY <2>1, <2>2, <2>3
<1>6. Distinct(d)
  <2> HIDE DEF d
  <2> SUFFICES ASSUME NEW i \in 1 .. 2 * Len(q), NEW j \in 1 .. 2 * Len(q), d[i] = d[j]
               PROVE  i = j
    BY <1>3 DEF Distinct
  <2>1. PICK k \in 1 .. Len(q) : \/ i = 2 * k - 1 /\ d[i] = <<"trigger", q[k]>>
                                 \/ i = 2 * k /\ d[i] = <<"user", q[k]>>
    BY <1>2
  <2>2. PICK l \in 1 .. Len(q) : \/ j = 2 * l - 1 /\ d[j] = <<"trigger", q[l]>>
                                 \/ j = 2 * l /\ d[j] = <<"user", q[l]>>
    BY <1>2
  <2>3. q[k] = q[l] /\ (i = 2 * k <=> j = 2 * l)
    BY <1>1, <2>1, <2>2
  <2>4. k = l
    BY <1>1, <2>3 DEF Distinct
  <2> QED BY <2>1, <2>2, <2>3, <2>4
<1>7. ASSUME NEW x \in S PROVE In(d, <<"trigger", x>>) /\ In(d, <<"user", x>>)
  <2>1. PICK k \in 1 .. Len(q) : q[k] = x
    BY <1>1 DEF In
  <2>2. /\ 2 * k - 1 \in 1 .. 2 * Len(q) /\ 2 * k \in 1 .. 2 * Len(q)
        /\ (2 * k - 1) % 2 = 1 /\ ((2 * k - 1) + 1) \div 2 = k
        /\ (2 * k) % 2 = 0 /\ (2 * k) \div 2 = k
    BY <1>1, <2>1
  <2>3. d[2 * k - 1] = <<"trigger", x>> /\ d[2 * k] = <<"user", x>>
    BY <2>1, <2>2 DEF Pairs
  <2> QED BY <1>3, <2>2, <2>3 DEF In
<1> QED BY <1>5, <1>6, <1>7

-----------------------------------------------------------------------------
(* Triggers and their rows.                                                *)

\* What a name stands for can be written, under a name of its own.
LEMMA Nameable ==
  ASSUME NEW n \in Triggers \cup {OnName}, NEW t \in MeantBy(n)
  PROVE  /\ RowOK(t) /\ t.active \in BOOLEAN
         /\ t.name = IF n = OnName THEN NoName ELSE n
         /\ n \in Triggers => t = Trigger(n, t.active)
<1>1. CASE n = OnName
  <2>1. t \in Blanks
    BY <1>1 DEF MeantBy
  <2> QED BY <1>1, <2>1, DbAssumption DEF Blanks, RowOK, Row, RowNames
<1>2. CASE n # OnName
  <2>1. n \in Triggers /\ t \in MadeFor(n) /\ Owner[n] \in Signals /\ n # NoName
    BY <1>2, DbAssumption DEF MeantBy
  <2>2. /\ t = Trigger(n, t.active) /\ t.active \in BOOLEAN /\ t.name = n
        /\ t \in Row
    BY <2>1 DEF MadeFor, Trigger, Row, RowNames
  <2> QED BY <1>2, <2>1, <2>2 DEF RowOK
<1> QED BY <1>1, <1>2

LEMMA NamesApart ==
  ASSUME MemoryOK, NEW m \in DOMAIN trgs, NEW n \in DOMAIN trgs
  PROVE  /\ RowOK(trgs[n]) /\ NameOf(n) \in RowNames
         /\ NameOf(n) = (IF n = OnName THEN NoName ELSE n)
         /\ NameOf(m) = NameOf(n) => m = n
         /\ trgs[m].name = n /\ n \in Triggers => m = n
<1>1. m \in Triggers \cup {OnName} /\ trgs[m] \in MeantBy(m)
  BY DEF MemoryOK
<1>2. n \in Triggers \cup {OnName} /\ trgs[n] \in MeantBy(n)
  BY DEF MemoryOK
<1>3. RowOK(trgs[n]) /\ trgs[n].name = IF n = OnName THEN NoName ELSE n
  BY <1>2, Nameable
<1>4. trgs[m].name = IF m = OnName THEN NoName ELSE m
  BY <1>1, Nameable
<1> QED BY <1>1, <1>2, <1>3, <1>4, DbAssumption DEF NameOf, RowNames

\* A row of a signal is that of a trigger the user made for it.
LEMMA RowOfSignal ==
  ASSUME TablesOK, NEW i \in DOMAIN tTrigger
  PROVE  /\ tTrigger[i].name \in RowNames
         /\ tTrigger[i].signal \in Signals => tTrigger[i].name \in Triggers
         /\ tTrigger[i].name \in Triggers =>
              /\ tTrigger[i] \in MadeFor(tTrigger[i].name)
              /\ tTrigger[i].signal = Owner[tTrigger[i].name]
<1>1. PICK r : r = tTrigger[i] /\ RowOK(r)
  BY DEF TablesOK
<1>2. r.name \in RowNames /\ (r.name = NoName => r.signal = None)
  BY <1>1 DEF RowOK, Row, Blanks
<1>3. r.name # NoName => r \in MadeFor(r.name) /\ r.signal = Owner[r.name]
  BY <1>1 DEF RowOK, MadeFor, Trigger
<1> QED BY <1>1, <1>2, <1>3, DbAssumption DEF RowNames

\* The first row for which something holds, of those there are.
LEMMA FirstPlace ==
  ASSUME NEW P, P \subseteq Nat, P # {}
  PROVE  Min(P) \in P
BY Least DEF Min

-----------------------------------------------------------------------------
(* Steps of a session that write nothing.                                  *)

\* The tables and what the last session left of what is unseen stay.
LEMMA TablesStay ==
  ASSUME TablesOK, UNCHANGED tables
  PROVE  TablesOK'
BY DEF TablesOK, tables, RowOK, Row, RowNames

LEMMA AppearKeeps ==
  ASSUME IInv, NEW s \in Signals, Appear(s)
  PROVE  IInv'
<1>1. /\ up = "runs" /\ sref' = sref \cup {s}
      /\ UNCHANGED <<up, signExist, comment, signAttr, trgs, tables, todo, session, kept, lasting>>
  BY DEF Appear
<1>2. TablesOK'
  BY <1>1, TablesStay DEF IInv
<1>3. MemoryOK'
  BY <1>1 DEF IInv, MemoryOK
<1>4. Unseen' /\ Seen'
  BY <1>1 DEF IInv, Unseen, Seen, LeftInTable, LeftInMemory, CommentIn, tables
<1>5. Saving'
  BY <1>1 DEF Saving
<1> QED BY <1>2, <1>3, <1>4, <1>5 DEF IInv

\* What the window takes out of the table of triggers for signals it sees.
LEMMA WithStoredTriggers ==
  ASSUME TablesOK, MemoryOK, NEW new, new \subseteq Signals
  PROVE  /\ DOMAIN WithStored(new) \subseteq Triggers \cup {OnName}
         /\ \A n \in DOMAIN WithStored(new) : WithStored(new)[n] \in MeantBy(n)
         /\ \A n \in DOMAIN trgs : n \in DOMAIN WithStored(new) /\ WithStored(new)[n] = trgs[n]
         /\ \A n \in Triggers : n \notin DOMAIN trgs =>
              /\ n \in DOMAIN WithStored(new) <=>
                   Owner[n] \in new /\ \E i \in DOMAIN tTrigger : tTrigger[i].name = n
              /\ n \in DOMAIN WithStored(new) =>
                   \A i \in DOMAIN tTrigger : tTrigger[i].name = n => WithStored(new)[n] = tTrigger[i]
<1> DEFINE rows     == {i \in DOMAIN tTrigger : tTrigger[i].signal \in new}
           names    == {tTrigger[i].name : i \in rows}
           places(n) == {i \in 1 .. Len(tTrigger) : tTrigger[i].name = n /\ tTrigger[i].signal \in new}
           first(n) == IF places(n) # {} THEN Min(places(n)) ELSE 0
           w        == WithStored(new)
<1>1. w = [n \in DOMAIN trgs \cup names |-> IF n \in DOMAIN trgs THEN trgs[n] ELSE tTrigger[first(n)]]
  BY DEF WithStored, SelectInSeq
<1>2. DOMAIN w = DOMAIN trgs \cup names
      /\ \A n \in DOMAIN w : w[n] = IF n \in DOMAIN trgs THEN trgs[n] ELSE tTrigger[first(n)]
  <2> HIDE DEF w, names, first
  <2> QED BY <1>1
<1> HIDE DEF w
<1>3. DOMAIN tTrigger = 1 .. Len(tTrigger) /\ Len(tTrigger) \in Nat
  BY DEF TablesOK
<1>4. ASSUME NEW n \in names
      PROVE  /\ n \in Triggers /\ Owner[n] \in new
             /\ first(n) \in DOMAIN tTrigger /\ tTrigger[first(n)].name = n
  <2>1. PICK i \in rows : n = tTrigger[i].name
    OBVIOUS
  <2>2. i \in places(n)
    BY <1>3, <2>1
  <2>3. places(n) \subseteq Nat /\ places(n) # {}
    BY <1>3, <2>2
  <2>4. Min(places(n)) \in places(n)
    BY <2>3, FirstPlace
  <2>5. n \in Triggers /\ Owner[n] \in new
    BY <2>1, RowOfSignal
  <2> QED BY <1>3, <2>3, <2>4, <2>5
<1>5. \A i, j \in DOMAIN tTrigger : tTrigger[i].name = tTrigger[j].name => i = j
  BY DEF TablesOK
<1> HIDE DEF first, places
<1>6. ASSUME NEW n \in DOMAIN w
      PROVE  n \in Triggers \cup {OnName} /\ w[n] \in MeantBy(n)
  <2>1. CASE n \in DOMAIN trgs
    BY <1>2, <2>1 DEF MemoryOK
  <2>2. CASE n \notin DOMAIN trgs
    <3>1. n \in names /\ w[n] = tTrigger[first(n)]
      BY <1>2, <2>2
    <3>2. n \in Triggers /\ first(n) \in DOMAIN tTrigger /\ tTrigger[first(n)].name = n
      BY <1>4, <3>1
    <3>3. w[n] \in MadeFor(n) /\ n # OnName
      BY <3>1, <3>2, RowOfSignal, DbAssumption
    <3> QED BY <3>2, <3>3 DEF MeantBy
  <2> QED BY <2>1, <2>2
<1>7. \A n \in DOMAIN trgs : n \in DOMAIN w /\ w[n] = trgs[n]
  BY <1>2
<1>8. ASSUME NEW n \in Triggers, n \notin DOMAIN trgs
      PROVE  /\ n \in DOMAIN w <=> Owner[n] \in new /\ \E i \in DOMAIN tTrigger : tTrigger[i].name = n
             /\ n \in DOMAIN w =>
                  \A i \in DOMAIN tTrigger : tTrigger[i].name = n => w[n] = tTrigger[i]
  <2>1. n \in DOMAIN w <=> n \in names
    BY <1>2, <1>8
  <2>2. n \in names => /\ Owner[n] \in new
                       /\ first(n) \in DOMAIN tTrigger /\ tTrigger[first(n)].name = n
    BY <1>4
  <2>3. ASSUME Owner[n] \in new, NEW i \in DOMAIN tTrigger, tTrigger[i].name = n
        PROVE  n \in names
    <3>1. tTrigger[i].signal \in new
      BY <2>3, RowOfSignal
    <3> QED BY <2>3, <3>1
  <2>4. ASSUME n \in DOMAIN w, NEW i \in DOMAIN tTrigger, tTrigger[i].name = n
        PROVE  w[n] = tTrigger[i]
    <3>1. w[n] = tTrigger[first(n)]
      BY <1>2, <1>8, <2>4
    <3>2. first(n) = i
      BY <1>5, <2>1, <2>2, <2>4
    <3> QED BY <3>1, <3>2
  <2> HIDE DEF names
  <2> QED BY <2>1, <2>2, <2>3, <2>4
<1> QED BY <1>6, <1>7, <1>8 DEF w

LEMMA UpdateTblSignalKeeps ==
  ASSUME IInv, UpdateTblSignal
  PROVE  IInv'
<1> DEFINE new == sref \ signExist
<1>1. up = "runs" /\ UNCHANGED <<sref, tables, todo, session, kept, lasting>>
  BY DEF UpdateTblSignal
<1>2. TablesOK'
  BY <1>1, TablesStay DEF IInv
<1>3. CASE /\ signExist' = signExist \cup new
           /\ comment'  = [s \in Signals |-> IF s \in new THEN StoredComment(s) ELSE comment[s]]
           /\ signAttr' = [s \in Signals |-> IF s \in new /\ tAttr[s] # None THEN tAttr[s]
                                                                        ELSE signAttr[s]]
           /\ trgs' = WithStored(new)
           /\ UNCHANGED up
  <2>1. new \subseteq Signals /\ new \cap signExist = {}
    BY DEF IInv, MemoryOK
  <2> HIDE DEF new
  <2>2. PICK w : /\ w = trgs'
                 /\ DOMAIN w \subseteq Triggers \cup {OnName}
                 /\ \A n \in DOMAIN w : w[n] \in MeantBy(n)
                 /\ \A n \in DOMAIN trgs : n \in DOMAIN w /\ w[n] = trgs[n]
                 /\ \A n \in Triggers : n \notin DOMAIN trgs =>
                      /\ n \in DOMAIN w <=>
                           Owner[n] \in new /\ \E i \in DOMAIN tTrigger : tTrigger[i].name = n
                      /\ n \in DOMAIN w =>
                           \A i \in DOMAIN tTrigger : tTrigger[i].name = n => w[n] = tTrigger[i]
    <3>1. TablesOK /\ MemoryOK
      BY DEF IInv
    <3> QED BY <1>3, <2>1, <3>1, WithStoredTriggers
  <2>3. ASSUME NEW s \in Signals
        PROVE  /\ comment'[s] = IF s \in new THEN CommentIn(s) ELSE comment[s]
               /\ signAttr'[s] = IF s \in new THEN tAttr[s] ELSE signAttr[s]
               /\ CommentIn(s) \in Comments /\ tAttr[s] \in Colours \cup {None}
    <3>1. s \in new => comment[s] = Empty /\ signAttr[s] = None
      BY <2>1 DEF IInv, Unseen
    <3>2. StoredComment(s) = IF tSignal[s] = None THEN comment[s] ELSE tSignal[s]
      BY DEF StoredComment
    <3>3. comment'[s] = IF s \in new THEN StoredComment(s) ELSE comment[s]
      BY <1>3
    <3>4. signAttr'[s] = IF s \in new /\ tAttr[s] # None THEN tAttr[s] ELSE signAttr[s]
      BY <1>3
    <3>5. tSignal[s] \in Comments \cup {None} /\ tAttr[s] \in Colours \cup {None}
      BY DEF IInv, TablesOK
    <3> QED BY <3>1, <3>2, <3>3, <3>4, <3>5, DbAssumption DEF CommentIn
  <2>4. MemoryOK'
    <3>1. comment' \in [Signals -> Comments]
      BY <1>3, <2>3 DEF IInv, MemoryOK
    <3>2. signAttr' \in [Signals -> Colours \cup {None}]
      BY <1>3, <2>3 DEF IInv, MemoryOK
    <3>3. DOMAIN trgs' \subseteq Triggers \cup {OnName} /\ \A n \in DOMAIN trgs' : trgs'[n] \in MeantBy(n)
      BY <2>2
    <3>4. signExist' \subseteq sref' \cup {OnName}
      BY <1>1, <1>3 DEF IInv, MemoryOK, new
    <3> QED BY <1>1, <1>3, <3>1, <3>2, <3>3, <3>4 DEF IInv, MemoryOK, MeantBy, MadeFor, Blanks
  <2>5. ASSUME NEW n \in Triggers
        PROVE  /\ n \in DOMAIN trgs => Owner[n] \in signExist
               /\ Owner[n] \notin signExist => LeftInTable(n)
               /\ Owner[n] \in signExist => LeftInMemory(n)
    BY <1>1 DEF IInv, Unseen, Seen
  <2>6. Unseen'
    <3>1. ASSUME NEW s \in Signals, s \notin signExist'
          PROVE  /\ comment'[s] = Empty /\ signAttr'[s] = None
                 /\ kept'[s] = <<CommentIn(s), tAttr[s]>>
      <4>1. s \notin signExist /\ s \notin new
        BY <1>3, <3>1
      <4> QED BY <1>1, <2>3, <4>1 DEF IInv, Unseen
    <3>2. ASSUME NEW n \in DOMAIN trgs' \cap Triggers PROVE Owner[n] \in signExist'
      BY <1>3, <2>2, <2>5
    <3>3. ASSUME NEW n \in Triggers, Owner[n] \notin signExist' PROVE LeftInTable(n)'
      <4>1. LeftInTable(n)
        BY <1>3, <2>5, <3>3
      <4> QED BY <1>1, <4>1 DEF LeftInTable, tables
    <3> QED BY <1>1, <3>1, <3>2, <3>3 DEF Unseen, CommentIn, tables
  <2>7. Seen'
    <3>1. ASSUME NEW s \in Signals, s \in signExist'
          PROVE  /\ kept'[s] = <<comment'[s], signAttr'[s]>>
                 /\ signAttr'[s] = None => tAttr'[s] = None
      <4>1. CASE s \in new
        <5>1. kept[s] = <<CommentIn(s), tAttr[s]>>
          BY <1>1, <2>1, <4>1 DEF IInv, Unseen
        <5> QED BY <1>1, <2>3, <4>1, <5>1 DEF tables
      <4>2. CASE s \notin new
        <5>1. s \in signExist
          BY <1>3, <3>1, <4>2
        <5>2. kept[s] = <<comment[s], signAttr[s]>> /\ (signAttr[s] = None => tAttr[s] = None)
          BY <1>1, <5>1 DEF IInv, Seen
        <5> QED BY <1>1, <2>3, <4>2, <5>2 DEF tables
      <4> QED BY <4>1, <4>2
    <3>2. ASSUME NEW n \in Triggers, Owner[n] \in signExist' PROVE LeftInMemory(n)'
      <4>1. CASE Owner[n] \in signExist
        <5>1. LeftInMemory(n)
          BY <2>5, <4>1
        <5>2. Owner[n] \notin new
          BY <2>1, <4>1
        <5>3. n \in DOMAIN w <=> n \in DOMAIN trgs
          BY <2>2, <5>2
        <5> QED BY <1>1, <2>2, <5>1, <5>3 DEF LeftInMemory
      <4>2. CASE Owner[n] \notin signExist
        <5>1. LeftInTable(n) /\ n \notin DOMAIN trgs /\ Owner[n] \in new
          BY <1>3, <2>5, <3>2, <4>2
        <5>2. n \in DOMAIN w <=> n \in DOMAIN lasting
          BY <2>2, <5>1 DEF LeftInTable
        <5>3. n \in DOMAIN w => w[n] = lasting[n]
          BY <2>2, <5>1 DEF LeftInTable
        <5> QED BY <1>1, <2>2, <5>2, <5>3 DEF LeftInMemory
      <4> QED BY <4>1, <4>2
    <3> QED BY <1>1, <3>1, <3>2 DEF Seen
  <2>8. Saving'
    BY <1>1, <1>3 DEF Saving
  <2> QED BY <1>2, <2>4, <2>6, <2>7, <2>8 DEF IInv
<1>4. CASE up' = "broken" /\ UNCHANGED <<signExist, comment, signAttr, trgs>>
  <2>1. MemoryOK'
    BY <1>1, <1>4 DEF IInv, MemoryOK, MeantBy, MadeFor, Blanks
  <2>2. Unseen' /\ Seen' /\ Saving'
    BY <1>1, <1>4 DEF IInv, Unseen, Seen, Saving
  <2> QED BY <1>2, <2>1, <2>2 DEF IInv
<1> QED BY <1>3, <1>4 DEF UpdateTblSignal

LEMMA ModuleConnectKeeps ==
  ASSUME IInv, ModuleConnect
  PROVE  IInv'
<1>1. /\ up = "runs" /\ OnName \notin signExist /\ signExist' = signExist \cup {OnName}
      /\ UNCHANGED <<up, sref, comment, signAttr, tables, todo, session, kept, lasting>>
  BY DEF ModuleConnect
<1>2. PICK row : /\ row = SelectInSeq(tTrigger, LAMBDA r : r.name = OnName)
                 /\ trgs' = AddedTo(trgs, OnName, IF row = 0 THEN Blank ELSE tTrigger[row])
  BY DEF ModuleConnect
<1>3. row = 0
  <2>1. \A i \in DOMAIN tTrigger : tTrigger[i].name # OnName
    BY RowOfSignal, DbAssumption DEF IInv, RowNames
  <2>2. DOMAIN tTrigger = 1 .. Len(tTrigger)
    BY DEF IInv, TablesOK
  <2> QED BY <1>2, <2>1, <2>2 DEF SelectInSeq
<1>4. trgs' = IF OnName \in DOMAIN trgs THEN trgs
              ELSE [m \in DOMAIN trgs \cup {OnName} |-> IF m = OnName THEN Blank ELSE trgs[m]]
  BY <1>2, <1>3 DEF AddedTo, With
<1>5. /\ DOMAIN trgs' = DOMAIN trgs \cup {OnName}
      /\ \A n \in DOMAIN trgs' : trgs'[n] = IF n \in DOMAIN trgs THEN trgs[n] ELSE Blank
      /\ OnName \in DOMAIN trgs'
  <2>1. CASE OnName \in DOMAIN trgs
    BY <1>4, <2>1
  <2>2. CASE OnName \notin DOMAIN trgs
    <3>1. trgs' = [m \in DOMAIN trgs \cup {OnName} |-> IF m = OnName THEN Blank ELSE trgs[m]]
      BY <1>4, <2>2
    <3> QED BY <2>2, <3>1
  <2> QED BY <2>1, <2>2
<1>6. Blank \in MeantBy(OnName)
  BY DEF MeantBy, Blanks, Blank
<1>7. /\ \A n \in DOMAIN trgs' : trgs'[n] \in MeantBy(n)
      /\ DOMAIN trgs' \subseteq Triggers \cup {OnName}
  <2>1. \A n \in DOMAIN trgs : trgs[n] \in MeantBy(n)
    BY DEF IInv, MemoryOK
  <2>2. DOMAIN trgs \subseteq Triggers \cup {OnName}
    BY DEF IInv, MemoryOK
  <2> QED BY <1>4, <1>5, <1>6, <2>1, <2>2
<1>8. TablesOK'
  BY <1>1, TablesStay DEF IInv
<1>9. MemoryOK'
  <2>1. /\ sref' \subseteq Signals /\ signExist' \subseteq sref' \cup {OnName}
        /\ up' \in {"runs", "saves", "down", "broken"} /\ session' \in 1 .. MaxSessions
        /\ comment' \in [Signals -> Comments] /\ signAttr' \in [Signals -> Colours \cup {None}]
        /\ DOMAIN lasting' \subseteq Triggers
        /\ kept' \in [Signals -> (Comments \X (Colours \cup {None}))] /\ up' # "down"
    BY <1>1 DEF IInv, MemoryOK
  <2> QED BY <1>7, <2>1 DEF MemoryOK, MeantBy, MadeFor, Blanks
<1>10. OnName \notin Signals /\ OnName \notin Triggers /\ \A n \in Triggers : Owner[n] \in Signals
  BY DbAssumption
<1>11. \A n \in Triggers : Owner[n] \in signExist' <=> Owner[n] \in signExist
  BY <1>1, <1>10
<1>12. \A n \in Triggers : n \in DOMAIN trgs' <=> n \in DOMAIN trgs
  BY <1>5, <1>10
<1>13. Unseen'
  BY <1>1, <1>10, <1>11, <1>12 DEF IInv, Unseen, CommentIn, LeftInTable, tables
<1>14. Seen'
  <2>1. \A s \in signExist' \cap Signals : s \in signExist
    BY <1>1, <1>10
  <2>2. \A n \in Triggers : Owner[n] \in signExist => LeftInMemory(n)
    BY <1>1 DEF IInv, Seen
  <2>3. \A n \in Triggers \cap DOMAIN trgs : trgs'[n] = trgs[n]
    BY <1>4, <1>5, <1>10
  <2>4. ASSUME NEW n \in Triggers, Owner[n] \in signExist' PROVE LeftInMemory(n)'
    <3>1. LeftInMemory(n)
      BY <1>11, <2>2, <2>4
    <3> QED BY <1>1, <1>12, <2>3, <3>1 DEF LeftInMemory
  <2> QED BY <1>1, <2>1, <2>4 DEF IInv, Seen, tables
<1>15. Saving'
  BY <1>1 DEF Saving
<1> QED BY <1>8, <1>9, <1>13, <1>14, <1>15 DEF IInv

-----------------------------------------------------------------------------
(* The user.                                                               *)

\* What the user does to a signal that has been seen.
LEMMA SignalChanged ==
  ASSUME IInv, up = "runs", NEW s \in signExist \cap Signals,
         NEW c \in Comments, NEW a \in Colours \cup {None},
         comment' = [comment EXCEPT ![s] = c], signAttr' = [signAttr EXCEPT ![s] = a],
         kept' = [kept EXCEPT ![s] = <<c, a>>],
         tAttr' = tAttr \/ tAttr' = [tAttr EXCEPT ![s] = None],
         a = None => tAttr'[s] = None,
         UNCHANGED <<up, sref, signExist, trgs, tSignal, tTrigger, tUser, todo, session, lasting>>
  PROVE  IInv'
<1>1. TablesOK'
  <2>1. tAttr' \in [Signals -> Colours \cup {None}]
    BY DEF IInv, TablesOK
  <2> QED BY <2>1 DEF IInv, TablesOK, RowOK, Row, RowNames
<1>2. MemoryOK'
  <2>1. comment' \in [Signals -> Comments] /\ signAttr' \in [Signals -> Colours \cup {None}]
    BY DEF IInv, MemoryOK
  <2>2. kept' \in [Signals -> (Comments \X (Colours \cup {None}))]
    BY DEF IInv, MemoryOK
  <2> QED BY <2>1, <2>2 DEF IInv, MemoryOK, MeantBy, MadeFor, Blanks
<1>3. ASSUME NEW r \in Signals
      PROVE  /\ comment'[r] = IF r = s THEN c ELSE comment[r]
             /\ signAttr'[r] = IF r = s THEN a ELSE signAttr[r]
             /\ kept'[r] = IF r = s THEN <<c, a>> ELSE kept[r]
             /\ r # s => tAttr'[r] = tAttr[r]
  BY DEF IInv, MemoryOK, TablesOK
<1>4. Unseen'
  <2>1. ASSUME NEW r \in Signals, r \notin signExist
        PROVE  /\ comment'[r] = Empty /\ signAttr'[r] = None
               /\ kept'[r] = <<CommentIn(r), tAttr'[r]>>
    <3>1. comment[r] = Empty /\ signAttr[r] = None /\ kept[r] = <<CommentIn(r), tAttr[r]>>
      BY <2>1 DEF IInv, Unseen
    <3>2. r # s
      BY <2>1
    <3> QED BY <1>3, <3>1, <3>2
  <2> QED BY <2>1 DEF IInv, Unseen, CommentIn, LeftInTable
<1>5. Seen'
  <2>1. ASSUME NEW r \in Signals, r \in signExist
        PROVE  /\ kept'[r] = <<comment'[r], signAttr'[r]>>
               /\ signAttr'[r] = None => tAttr'[r] = None
    <3>1. CASE r = s
      BY <1>3, <3>1
    <3>2. CASE r # s
      <4>1. kept[r] = <<comment[r], signAttr[r]>> /\ (signAttr[r] = None => tAttr[r] = None)
        BY <2>1 DEF IInv, Seen
      <4> QED BY <1>3, <3>2, <4>1
    <3> QED BY <3>1, <3>2
  <2> QED BY <2>1 DEF IInv, Seen, LeftInMemory
<1>6. Saving'
  BY DEF Saving
<1> QED BY <1>1, <1>2, <1>4, <1>5, <1>6 DEF IInv

\* A signal that has been seen, and what memory and the user say of it.
LEMMA OfSeen ==
  ASSUME IInv, up = "runs", NEW s \in signExist \cap Signals
  PROVE  /\ comment \in [Signals -> Comments] /\ signAttr \in [Signals -> Colours \cup {None}]
         /\ kept \in [Signals -> (Comments \X (Colours \cup {None}))]
         /\ kept[s] = <<comment[s], signAttr[s]>>
         /\ signAttr[s] = None => tAttr[s] = None
         /\ comment[s] \in Comments /\ signAttr[s] \in Colours \cup {None}
BY DEF IInv, MemoryOK, Seen

LEMMA SetCommentKeeps ==
  ASSUME IInv, NEW s \in Signals, NEW c \in Comments, SetComment(s, c)
  PROVE  IInv'
<1>1. /\ up = "runs" /\ s \in signExist \cap Signals
      /\ comment' = [comment EXCEPT ![s] = c]
      /\ kept' = [kept EXCEPT ![s][1] = c]
      /\ UNCHANGED <<up, sref, signExist, signAttr, trgs, tables, todo, session, lasting>>
  BY DEF SetComment
<1>2. /\ comment \in [Signals -> Comments] /\ signAttr \in [Signals -> Colours \cup {None}]
      /\ kept \in [Signals -> (Comments \X (Colours \cup {None}))]
      /\ kept[s] = <<comment[s], signAttr[s]>>
      /\ signAttr[s] = None => tAttr[s] = None
      /\ comment[s] \in Comments /\ signAttr[s] \in Colours \cup {None}
  BY <1>1, OfSeen
<1>3. PICK k, a, b : k = kept[s] /\ a = signAttr[s] /\ b = comment[s] /\ k = <<b, a>>
  BY <1>2
<1>4. [k EXCEPT ![1] = c] = <<c, a>>
  BY <1>3
<1>5. kept' = [kept EXCEPT ![s] = <<c, a>>]
  BY <1>1, <1>2, <1>3, <1>4
<1>6. signAttr' = [signAttr EXCEPT ![s] = a]
  BY <1>1, <1>2, <1>3
<1>7. /\ tAttr' = tAttr /\ a \in Colours \cup {None} /\ (a = None => tAttr'[s] = None)
      /\ UNCHANGED <<up, sref, signExist, trgs, tSignal, tTrigger, tUser, todo, session, lasting>>
  BY <1>1, <1>2, <1>3 DEF tables
<1> QED BY <1>1, <1>5, <1>6, <1>7, SignalChanged

LEMMA SetColourKeeps ==
  ASSUME IInv, NEW s \in Signals, NEW c \in Colours, SetColour(s, c)
  PROVE  IInv'
<1>1. /\ up = "runs" /\ s \in signExist \cap Signals
      /\ signAttr' = [signAttr EXCEPT ![s] = c]
      /\ kept' = [kept EXCEPT ![s][2] = c]
      /\ UNCHANGED <<up, sref, signExist, comment, trgs, tables, todo, session, lasting>>
  BY DEF SetColour
<1>2. /\ comment \in [Signals -> Comments] /\ signAttr \in [Signals -> Colours \cup {None}]
      /\ kept \in [Signals -> (Comments \X (Colours \cup {None}))]
      /\ kept[s] = <<comment[s], signAttr[s]>>
      /\ comment[s] \in Comments /\ signAttr[s] \in Colours \cup {None}
  BY <1>1, OfSeen
<1>3. PICK k, a, b : k = kept[s] /\ a = signAttr[s] /\ b = comment[s] /\ k = <<b, a>>
  BY <1>2
<1>4. [k EXCEPT ![2] = c] = <<b, c>>
  BY <1>3
<1>5. kept' = [kept EXCEPT ![s] = <<b, c>>]
  BY <1>1, <1>2, <1>3, <1>4
<1>6. comment' = [comment EXCEPT ![s] = b] /\ b \in Comments
  BY <1>1, <1>2, <1>3
<1>7. /\ tAttr' = tAttr /\ c # None /\ c \in Colours \cup {None}
      /\ UNCHANGED <<up, sref, signExist, trgs, tSignal, tTrigger, tUser, todo, session, lasting>>
  BY <1>1, DbAssumption DEF tables
<1> QED BY <1>1, <1>5, <1>6, <1>7, SignalChanged

LEMMA ResetColourKeeps ==
  ASSUME IInv, NEW s \in Signals, ResetColour(s)
  PROVE  IInv'
<1>1. /\ up = "runs" /\ signAttr[s] # None
      /\ signAttr' = [signAttr EXCEPT ![s] = None]
      /\ tAttr' = [tAttr EXCEPT ![s] = None]
      /\ kept' = [kept EXCEPT ![s][2] = None]
      /\ UNCHANGED <<up, sref, signExist, comment, trgs, tSignal, tTrigger, tUser, todo,
                     session, lasting>>
  BY DEF ResetColour, AttrDeleted
<1>2. s \in signExist \cap Signals
  BY <1>1 DEF IInv, Unseen
<1>3. /\ comment \in [Signals -> Comments] /\ signAttr \in [Signals -> Colours \cup {None}]
      /\ kept \in [Signals -> (Comments \X (Colours \cup {None}))]
      /\ kept[s] = <<comment[s], signAttr[s]>>
      /\ comment[s] \in Comments /\ signAttr[s] \in Colours \cup {None}
  BY <1>1, <1>2, OfSeen
<1>4. PICK k, a, b : k = kept[s] /\ a = signAttr[s] /\ b = comment[s] /\ k = <<b, a>>
  BY <1>3
<1>5. [k EXCEPT ![2] = None] = <<b, None>>
  BY <1>4
<1>6. kept' = [kept EXCEPT ![s] = <<b, None>>]
  BY <1>1, <1>3, <1>4, <1>5
<1>7. comment' = [comment EXCEPT ![s] = b] /\ b \in Comments
  BY <1>1, <1>3, <1>4
<1>8. tAttr'[s] = None
  BY <1>1 DEF IInv, TablesOK
<1>9. None \in Colours \cup {None}
  OBVIOUS
<1> QED BY <1>1, <1>2, <1>6, <1>7, <1>8, <1>9, SignalChanged

\* What the user does to triggers.
LEMMA TriggerChanged ==
  ASSUME IInv, up = "runs",
         UNCHANGED <<up, sref, signExist, comment, signAttr, tables, todo, session, kept>>,
         DOMAIN trgs' \subseteq Triggers \cup {OnName},
         \A n \in DOMAIN trgs' : trgs'[n] \in MeantBy(n),
         \A n \in DOMAIN trgs' \cap Triggers : Owner[n] \in signExist,
         DOMAIN lasting' \subseteq Triggers,
         \A n \in Triggers : Owner[n] \in signExist => LeftInMemory(n)',
         \A n \in Triggers : Owner[n] \notin signExist =>
           /\ n \in DOMAIN lasting' <=> n \in DOMAIN lasting
           /\ n \in DOMAIN lasting => lasting'[n] = lasting[n]
  PROVE  IInv'
<1>1. TablesOK'
  BY TablesStay DEF IInv
<1>2. MemoryOK'
  <2>1. /\ sref' \subseteq Signals /\ signExist' \subseteq sref' \cup {OnName}
        /\ up' \in {"runs", "saves", "down", "broken"} /\ session' \in 1 .. MaxSessions
        /\ comment' \in [Signals -> Comments] /\ signAttr' \in [Signals -> Colours \cup {None}]
        /\ kept' \in [Signals -> (Comments \X (Colours \cup {None}))] /\ up' # "down"
    BY DEF IInv, MemoryOK
  <2> QED BY <2>1 DEF MemoryOK, MeantBy, MadeFor, Blanks
<1>3. ASSUME NEW n \in Triggers, Owner[n] \notin signExist PROVE LeftInTable(n)'
  <2>1. LeftInTable(n)
    BY <1>3 DEF IInv, Unseen
  <2> QED BY <1>3, <2>1 DEF LeftInTable, tables
<1>4. Unseen'
  BY <1>3 DEF IInv, Unseen, CommentIn, tables
<1>5. Seen'
  BY DEF IInv, Seen, tables
<1>6. Saving'
  BY DEF Saving
<1> QED BY <1>1, <1>2, <1>4, <1>5, <1>6 DEF IInv

LEMMA AddTriggerKeeps ==
  ASSUME IInv, NEW n \in Triggers, NEW active \in BOOLEAN, AddTrigger(n, active)
  PROVE  IInv'
<1>1. /\ up = "runs" /\ Owner[n] \in signExist /\ n \notin DOMAIN trgs
      /\ trgs' = With(trgs, n, Trigger(n, active)) /\ lasting' = With(lasting, n, Trigger(n, active))
      /\ UNCHANGED <<up, sref, signExist, comment, signAttr, tables, todo, session, kept>>
  BY DEF AddTrigger
<1>2. PICK t : t = Trigger(n, active) /\ t \in MeantBy(n)
  BY DbAssumption DEF MeantBy, MadeFor
<1>3. /\ DOMAIN trgs' = DOMAIN trgs \cup {n}
      /\ \A m \in DOMAIN trgs' : trgs'[m] = IF m = n THEN t ELSE trgs[m]
  BY <1>1, <1>2 DEF With
<1>4. /\ DOMAIN lasting' = DOMAIN lasting \cup {n}
      /\ \A m \in DOMAIN lasting' : lasting'[m] = IF m = n THEN t ELSE lasting[m]
  BY <1>1, <1>2 DEF With
<1>5. /\ DOMAIN trgs \subseteq Triggers \cup {OnName} /\ DOMAIN lasting \subseteq Triggers
      /\ \A m \in DOMAIN trgs : trgs[m] \in MeantBy(m)
      /\ \A m \in DOMAIN trgs \cap Triggers : Owner[m] \in signExist
      /\ \A m \in Triggers : Owner[m] \in signExist => LeftInMemory(m)
  BY <1>1 DEF IInv, MemoryOK, Unseen, Seen
<1>6. DOMAIN trgs' \subseteq Triggers \cup {OnName} /\ DOMAIN lasting' \subseteq Triggers
  BY <1>3, <1>4, <1>5
<1>7. \A m \in DOMAIN trgs' : trgs'[m] \in MeantBy(m)
  BY <1>2, <1>3, <1>5
<1>8. \A m \in DOMAIN trgs' \cap Triggers : Owner[m] \in signExist
  BY <1>1, <1>3, <1>5
<1>9. ASSUME NEW m \in Triggers, Owner[m] \in signExist PROVE LeftInMemory(m)'
  <2>1. LeftInMemory(m)
    BY <1>5, <1>9
  <2> QED BY <1>3, <1>4, <2>1 DEF LeftInMemory
<1>10. \A m \in Triggers : Owner[m] \notin signExist =>
         /\ m \in DOMAIN lasting' <=> m \in DOMAIN lasting
         /\ m \in DOMAIN lasting => lasting'[m] = lasting[m]
  BY <1>1, <1>4
<1> QED BY <1>1, <1>6, <1>7, <1>8, <1>9, <1>10, TriggerChanged

\* A trigger that is changed is active or not, and nothing else of it changes.
LEMMA Flipped ==
  ASSUME NEW n, NEW s, NEW x \in BOOLEAN
  PROVE  [[name |-> n, signal |-> s, active |-> x] EXCEPT !.active = ~@]
           = [name |-> n, signal |-> s, active |-> ~x]
<1>1. CASE x = TRUE
  BY <1>1
<1>2. CASE x = FALSE
  BY <1>2
<1> QED BY <1>1, <1>2

LEMMA ChangeTriggerKeeps ==
  ASSUME IInv, NEW n \in Triggers \cup {OnName}, ChangeTrigger(n)
  PROVE  IInv'
<1>1. /\ up = "runs" /\ n \in DOMAIN trgs
      /\ trgs' = [trgs EXCEPT ![n].active = ~@]
      /\ lasting' = IF n = OnName THEN lasting ELSE [lasting EXCEPT ![n].active = ~@]
      /\ UNCHANGED <<up, sref, signExist, comment, signAttr, tables, todo, session, kept>>
  BY DEF ChangeTrigger
<1>2. /\ DOMAIN trgs \subseteq Triggers \cup {OnName} /\ DOMAIN lasting \subseteq Triggers
      /\ \A m \in DOMAIN trgs : trgs[m] \in MeantBy(m)
      /\ \A m \in DOMAIN trgs \cap Triggers : Owner[m] \in signExist
      /\ \A m \in Triggers : Owner[m] \in signExist => LeftInMemory(m)
  BY <1>1 DEF IInv, MemoryOK, Unseen, Seen
<1>3. PICK t : t = trgs[n] /\ t \in MeantBy(n)
  BY <1>1, <1>2
<1>4. PICK u : u = [t EXCEPT !.active = ~@]
  OBVIOUS
<1>5. u \in MeantBy(n)
  <2>1. CASE n = OnName
    <3>1. PICK x \in BOOLEAN : t = [name |-> NoName, signal |-> None, active |-> x]
      BY <1>3, <2>1 DEF MeantBy, Blanks
    <3>2. u = [[name |-> NoName, signal |-> None, active |-> x] EXCEPT !.active = ~@]
      BY <1>4, <3>1, Zenon
    <3>3. u = [name |-> NoName, signal |-> None, active |-> ~x]
      BY <3>2, Flipped, Zenon
    <3>4. (~x) \in BOOLEAN
      OBVIOUS
    <3> QED BY <2>1, <3>3, <3>4 DEF MeantBy, Blanks
  <2>2. CASE n # OnName
    <3>1. PICK x \in BOOLEAN : t = [name |-> n, signal |-> Owner[n], active |-> x]
      BY <1>3, <2>2 DEF MeantBy, MadeFor, Trigger
    <3>2. u = [[name |-> n, signal |-> Owner[n], active |-> x] EXCEPT !.active = ~@]
      BY <1>4, <3>1, Zenon
    <3>3. u = [name |-> n, signal |-> Owner[n], active |-> ~x]
      BY <3>2, Flipped, Zenon
    <3>4. (~x) \in BOOLEAN
      OBVIOUS
    <3> QED BY <2>2, <3>3, <3>4 DEF MeantBy, MadeFor, Trigger
  <2> QED BY <2>1, <2>2
<1>6. /\ DOMAIN trgs' = DOMAIN trgs
      /\ \A m \in DOMAIN trgs' : trgs'[m] = IF m = n THEN u ELSE trgs[m]
  BY <1>1, <1>3, <1>4
<1>7. n # OnName => n \in DOMAIN lasting /\ lasting[n] = t
  BY <1>1, <1>2, <1>3 DEF LeftInMemory
<1>8. /\ DOMAIN lasting' = DOMAIN lasting
      /\ \A m \in DOMAIN lasting : lasting'[m] = IF m = n THEN u ELSE lasting[m]
  <2>1. CASE n = OnName
    BY <1>1, <1>2, <2>1, DbAssumption
  <2>2. CASE n # OnName
    BY <1>1, <1>4, <1>7, <2>2
  <2> QED BY <2>1, <2>2
<1>9. \A m \in DOMAIN trgs' : trgs'[m] \in MeantBy(m)
  BY <1>2, <1>5, <1>6
<1>10. ASSUME NEW m \in Triggers, Owner[m] \in signExist PROVE LeftInMemory(m)'
  <2>1. LeftInMemory(m)
    BY <1>2, <1>10
  <2> QED BY <1>6, <1>8, <2>1 DEF LeftInMemory
<1>11. \A m \in Triggers : Owner[m] \notin signExist =>
         /\ m \in DOMAIN lasting' <=> m \in DOMAIN lasting
         /\ m \in DOMAIN lasting => lasting'[m] = lasting[m]
  BY <1>1, <1>2, <1>8
<1> QED BY <1>1, <1>2, <1>6, <1>8, <1>9, <1>10, <1>11, TriggerChanged

LEMMA DelTriggerKeeps ==
  ASSUME IInv, NEW n \in Triggers, DelTrigger(n)
  PROVE  IInv'
<1>1. /\ up = "runs" /\ n \in DOMAIN trgs
      /\ trgs' = [m \in DOMAIN trgs \ {n} |-> trgs[m]]
      /\ lasting' = [m \in DOMAIN lasting \ {n} |-> lasting[m]]
      /\ UNCHANGED <<up, sref, signExist, comment, signAttr, tables, todo, session, kept>>
  BY DEF DelTrigger, Without
<1>2. /\ DOMAIN trgs \subseteq Triggers \cup {OnName} /\ DOMAIN lasting \subseteq Triggers
      /\ \A m \in DOMAIN trgs : trgs[m] \in MeantBy(m)
      /\ \A m \in DOMAIN trgs \cap Triggers : Owner[m] \in signExist
      /\ \A m \in Triggers : Owner[m] \in signExist => LeftInMemory(m)
  BY <1>1 DEF IInv, MemoryOK, Unseen, Seen
<1>3. DOMAIN trgs' = DOMAIN trgs \ {n} /\ \A m \in DOMAIN trgs' : trgs'[m] = trgs[m]
  BY <1>1
<1>4. DOMAIN lasting' = DOMAIN lasting \ {n} /\ \A m \in DOMAIN lasting' : lasting'[m] = lasting[m]
  BY <1>1
<1>5. Owner[n] \in signExist
  BY <1>1, <1>2
<1>6. ASSUME NEW m \in Triggers, Owner[m] \in signExist PROVE LeftInMemory(m)'
  <2>1. LeftInMemory(m)
    BY <1>2, <1>6
  <2> QED BY <1>3, <1>4, <2>1 DEF LeftInMemory
<1>7. \A m \in Triggers : Owner[m] \notin signExist =>
         /\ m \in DOMAIN lasting' <=> m \in DOMAIN lasting
         /\ m \in DOMAIN lasting => lasting'[m] = lasting[m]
  BY <1>4, <1>5
<1>8. /\ DOMAIN trgs' \subseteq Triggers \cup {OnName} /\ DOMAIN lasting' \subseteq Triggers
      /\ \A m \in DOMAIN trgs' : trgs'[m] \in MeantBy(m)
      /\ \A m \in DOMAIN trgs' \cap Triggers : Owner[m] \in signExist
  BY <1>2, <1>3, <1>4
<1> QED BY <1>1, <1>6, <1>7, <1>8, TriggerChanged

-----------------------------------------------------------------------------
(* The end of a session.                                                   *)

LEMMA OfDeletes ==
  \A st \in Deletes : /\ st[1] \in {"delete triggers", "delete users"}
                      /\ st[1] \notin {"trigger", "user", "signal", "attr"}
<1>1. <<"delete triggers", None>>[1] = "delete triggers" /\ <<"delete users", None>>[1] = "delete users"
  OBVIOUS
<1> QED BY <1>1 DEF Deletes

\* The exit's list: each statement once, the tables of triggers emptied first.
LEMMA StatementsOnce ==
  ASSUME MemoryOK
  PROVE  /\ Statements \in Seq(Statement) /\ Distinct(Statements)
         /\ \A st \in Statement : In(Statements, st)
         /\ \A i, j \in DOMAIN Statements :
              Statements[i] \in Deletes /\ Statements[j][1] \in {"trigger", "user"} => i < j
<1> DEFINE coloured == {s \in Signals : signAttr[s] # None}
           names    == SetToSeq(DOMAIN trgs)
           a == Each("signal", sref)
           b == Each("attr", coloured)
           d == <<<<"delete triggers", None>>, <<"delete users", None>>>>
           w == Pairs(names)
<1>1. Statements = ((a \o b) \o d) \o w
  BY DEF Statements, Pairs
<1>2. IsFiniteSet(sref) /\ IsFiniteSet(coloured) /\ IsFiniteSet(DOMAIN trgs)
  <2>1. IsFiniteSet(Signals) /\ IsFiniteSet(Triggers) /\ sref \subseteq Signals
    BY DbAssumption DEF MemoryOK
  <2>2. IsFiniteSet(Triggers \cup {OnName})
    BY <2>1, FS_AddElement
  <2>3. DOMAIN trgs \subseteq Triggers \cup {OnName} /\ coloured \subseteq Signals
    BY DEF MemoryOK
  <2> QED BY <2>1, <2>2, <2>3, FS_Subset
<1> HIDE DEF coloured
<1>3. /\ a \in Seq({"signal"} \X sref) /\ Distinct(a)
      /\ \A x \in sref : In(a, <<"signal", x>>)
  BY <1>2, EachOnce
<1>4. /\ b \in Seq({"attr"} \X coloured) /\ Distinct(b)
      /\ \A x \in coloured : In(b, <<"attr", x>>)
  BY <1>2, EachOnce
<1>5. /\ w \in Seq({"trigger", "user"} \X DOMAIN trgs) /\ Distinct(w)
      /\ \A x \in DOMAIN trgs : In(w, <<"trigger", x>>) /\ In(w, <<"user", x>>)
  <2>1. /\ names \in Seq(DOMAIN trgs) /\ Distinct(names)
        /\ \A x \in DOMAIN trgs : In(names, x)
    BY <1>2, Listed
  <2> HIDE DEF names
  <2> QED BY <2>1, PairsOnce
<1>6. /\ d \in Seq(Deletes) /\ Distinct(d) /\ \A st \in Deletes : In(d, st)
  <2>a. PICK x, y : x = <<"delete triggers", None>> /\ y = <<"delete users", None>> /\ d = <<x, y>>
    OBVIOUS
  <2> HIDE DEF d
  <2>b. x # y
    BY <2>a
  <2>c. Deletes = {x, y}
    BY <2>a, Zenon DEF Deletes
  <2>d. d = <<x, y>>
    BY <2>a
  <2>e. DOMAIN d = {1, 2} /\ d[1] = x /\ d[2] = y /\ d \in Seq({x, y})
    BY <2>d
  <2>1. DOMAIN d = {1, 2} /\ d[1] = x /\ d[2] = y /\ d[1] # d[2] /\ d \in Seq(Deletes)
    BY <2>b, <2>c, <2>e
  <2>2. Distinct(d)
    BY <2>1 DEF Distinct
  <2>3. \A st \in Deletes : In(d, st)
    BY <2>1, <2>c DEF In
  <2> QED BY <2>1, <2>2, <2>3
<1> HIDE DEF a, b, d, w, names
<1> DEFINE S == Statement
<1>7. S = ({"signal"} \X sref) \cup ({"attr"} \X coloured) \cup Deletes
             \cup ({"trigger", "user"} \X DOMAIN trgs)
  BY DEF Statement, coloured
<1> HIDE DEF S
<1>8. a \in Seq(S) /\ b \in Seq(S) /\ d \in Seq(S) /\ w \in Seq(S)
  BY <1>3, <1>4, <1>5, <1>6, <1>7, WiderSeq
<1>9. /\ \A i \in DOMAIN a : a[i][1] = "signal"
      /\ \A i \in DOMAIN b : b[i][1] = "attr"
      /\ \A i \in DOMAIN d : d[i] \in Deletes /\ d[i][1] \in {"delete triggers", "delete users"}
      /\ \A i \in DOMAIN w : w[i][1] \in {"trigger", "user"}
  <2>1. \A i \in DOMAIN a : a[i] \in {"signal"} \X sref
    BY <1>3
  <2>2. \A i \in DOMAIN b : b[i] \in {"attr"} \X coloured
    BY <1>4
  <2>3. \A i \in DOMAIN d : d[i] \in Deletes
    BY <1>6
  <2>4. \A i \in DOMAIN w : w[i] \in {"trigger", "user"} \X DOMAIN trgs
    BY <1>5
  <2>5. \A st \in {"signal"} \X sref : st[1] = "signal"
    OBVIOUS
  <2>6. \A st \in {"attr"} \X coloured : st[1] = "attr"
    OBVIOUS
  <2>7. \A st \in {"trigger", "user"} \X DOMAIN trgs : st[1] \in {"trigger", "user"}
    OBVIOUS
  <2> QED BY <2>1, <2>2, <2>3, <2>4, <2>5, <2>6, <2>7, OfDeletes
<1>10. PICK ab : ab = a \o b
  OBVIOUS
<1>11. /\ ab \in Seq(S) /\ Distinct(ab) /\ \A st : In(ab, st) <=> In(a, st) \/ In(b, st)
       /\ \A i \in DOMAIN ab : ab[i][1] \in {"signal", "attr"}
  <2>1. \A i \in DOMAIN a, j \in DOMAIN b : a[i] # b[j]
    BY <1>9
  <2>2. /\ ab \in Seq(S) /\ Distinct(ab) /\ \A st : In(ab, st) <=> In(a, st) \/ In(b, st)
    BY <1>3, <1>4, <1>8, <1>10, <2>1, Joined
  <2>3. \A i \in DOMAIN ab : In(ab, ab[i])
    BY DEF In
  <2>4. \A i \in DOMAIN ab : In(a, ab[i]) \/ In(b, ab[i])
    BY <2>2, <2>3
  <2>5. ASSUME NEW i \in DOMAIN ab PROVE ab[i][1] \in {"signal", "attr"}
    <3>1. CASE In(a, ab[i])
      BY <1>9, <3>1 DEF In
    <3>2. CASE In(b, ab[i])
      BY <1>9, <3>2 DEF In
    <3> QED BY <2>4, <3>1, <3>2
  <2> QED BY <2>2, <2>5
<1>12. PICK abd : abd = ab \o d
  OBVIOUS
<1>13. /\ abd \in Seq(S) /\ Distinct(abd) /\ \A st : In(abd, st) <=> In(ab, st) \/ In(d, st)
       /\ \A i \in DOMAIN abd : abd[i][1] \notin {"trigger", "user"}
  <2>1. \A i \in DOMAIN ab, j \in DOMAIN d : ab[i] # d[j]
    BY <1>9, <1>11
  <2>2. /\ abd \in Seq(S) /\ Distinct(abd) /\ \A st : In(abd, st) <=> In(ab, st) \/ In(d, st)
    BY <1>6, <1>8, <1>11, <1>12, <2>1, Joined
  <2>3. \A i \in DOMAIN abd : In(abd, abd[i])
    BY DEF In
  <2>4. \A i \in DOMAIN abd : In(ab, abd[i]) \/ In(d, abd[i])
    BY <2>2, <2>3
  <2>5. ASSUME NEW i \in DOMAIN abd PROVE abd[i][1] \notin {"trigger", "user"}
    <3>1. CASE In(ab, abd[i])
      BY <1>11, <3>1 DEF In
    <3>2. CASE In(d, abd[i])
      BY <1>9, <3>2 DEF In
    <3> QED BY <2>4, <3>1, <3>2
  <2> QED BY <2>2, <2>5
<1>14. PICK all : all = abd \o w
  OBVIOUS
<1>0. all = Statements
  BY <1>1, <1>10, <1>12, <1>14
<1>15. \A i \in DOMAIN abd, j \in DOMAIN w : abd[i] # w[j]
  BY <1>9, <1>13
<1>16. /\ all \in Seq(S) /\ Distinct(all) /\ \A st : In(all, st) <=> In(abd, st) \/ In(w, st)
       /\ Len(abd) \in Nat /\ DOMAIN all \subseteq Nat
       /\ \A i \in DOMAIN all : i <= Len(abd) => i \in DOMAIN abd /\ all[i] = abd[i]
       /\ \A i \in DOMAIN all : i > Len(abd) => \E j \in DOMAIN w : all[i] = w[j]
  <2>1. abd \in Seq(S) /\ w \in Seq(S) /\ Distinct(abd) /\ Distinct(w)
    BY <1>5, <1>8, <1>13
  <2> QED BY <1>14, <1>15, <2>1, Joined
<1>17. \A st \in S : In(all, st)
  <2>1. \A st : In(all, st) <=> In(a, st) \/ In(b, st) \/ In(d, st) \/ In(w, st)
    BY <1>11, <1>13, <1>16
  <2>2. \A st \in {"signal"} \X sref : In(a, st)
    BY <1>3
  <2>3. \A st \in {"attr"} \X coloured : In(b, st)
    BY <1>4
  <2>4. ASSUME NEW st \in {"trigger", "user"} \X DOMAIN trgs PROVE In(w, st)
    <3>1. PICK x \in DOMAIN trgs : st = <<"trigger", x>> \/ st = <<"user", x>>
      BY <2>4
    <3> QED BY <1>5, <3>1
  <2> QED BY <1>6, <1>7, <2>1, <2>2, <2>3, <2>4
<1>18. ASSUME NEW i \in DOMAIN all, NEW j \in DOMAIN all,
              all[i] \in Deletes, all[j][1] \in {"trigger", "user"}
       PROVE  i < j
  <2>1. all[i][1] \notin {"trigger", "user"}
    BY <1>18, OfDeletes
  <2>2. ~(i > Len(abd))
    BY <1>9, <1>16, <2>1
  <2>3. ~(j <= Len(abd))
    BY <1>13, <1>16, <1>18
  <2> QED BY <1>16, <2>2, <2>3
<1> QED BY <1>0, <1>16, <1>17, <1>18 DEF S

LEMMA ExitKeeps ==
  ASSUME IInv, Exit
  PROVE  IInv'
<1>1. /\ up = "runs" /\ up' = "saves" /\ todo' = Statements
      /\ UNCHANGED <<memory, tables, session, kept, lasting>>
  BY DEF Exit
<1>2. TablesOK'
  BY <1>1, TablesStay DEF IInv
<1>3. MemoryOK'
  BY <1>1 DEF IInv, MemoryOK, memory, MeantBy, MadeFor, Blanks
<1>4. Unseen' /\ Seen'
  BY <1>1 DEF IInv, Unseen, Seen, LeftInMemory, memory, tables
<1>5. /\ todo' \in Seq(Statement) /\ Distinct(todo')
      /\ \A st \in Statement : In(todo', st)
      /\ \A i, j \in DOMAIN todo' :
           todo'[i] \in Deletes /\ todo'[j][1] \in {"trigger", "user"} => i < j
  BY <1>1, StatementsOnce DEF IInv
<1>6. Statement' = Statement
  BY <1>1 DEF Statement, memory
<1>7. TodoOK'
  BY <1>5, <1>6 DEF TodoOK, Distinct
<1>8. ASSUME NEW st \in Statement PROVE Coming(st)'
  BY <1>5 DEF Coming, In
<1>9. ASSUME NEW s \in Signals
      PROVE  /\ s \in sref => Coming(<<"signal", s>>)'
             /\ s \notin sref => kept[s][1] = CommentIn(s)
             /\ IF signAttr[s] # None THEN Coming(<<"attr", s>>)' ELSE kept[s][2] = tAttr[s]
  <2>1. s \in sref => <<"signal", s>> \in Statement
    BY DEF Statement
  <2>2. signAttr[s] # None => <<"attr", s>> \in Statement
    BY DEF Statement
  <2>3. s \notin signExist => kept[s] = <<CommentIn(s), tAttr[s]>>
    BY <1>1 DEF IInv, Unseen
  <2>4. s \in signExist => kept[s] = <<comment[s], signAttr[s]>> /\ (signAttr[s] = None => tAttr[s] = None)
    BY <1>1 DEF IInv, Seen
  <2>5. s \in signExist => s \in sref
    BY DbAssumption DEF IInv, MemoryOK
  <2> QED BY <1>8, <2>1, <2>2, <2>3, <2>4, <2>5
<1>10. SavingSignals'
  BY <1>1, <1>9 DEF SavingSignals, CommentIn, memory, tables
<1>11. /\ Coming(<<"delete triggers", None>>)' /\ Coming(<<"delete users", None>>)'
       /\ \A n \in DOMAIN trgs : Coming(<<"trigger", n>>)'
  <2>1. <<"delete triggers", None>> \in Statement /\ <<"delete users", None>> \in Statement
    BY DEF Statement, Deletes
  <2>2. \A n \in DOMAIN trgs : <<"trigger", n>> \in Statement
    BY DEF Statement
  <2> QED BY <1>8, <2>1, <2>2
<1>12. SavingTriggers' /\ SavingUsers'
  BY <1>1, <1>11 DEF SavingTriggers, SavingUsers, memory
<1> QED BY <1>2, <1>3, <1>4, <1>7, <1>10, <1>12 DEF IInv, Saving

\* The statement that is next, and what is left after it.
LEMMA Rest ==
  ASSUME TodoOK, todo # <<>>, Statement' = Statement, todo' = Tail(todo)
  PROVE  /\ TodoOK' /\ todo[1] \in Statement /\ Coming(todo[1])
         /\ \A st : Coming(st)' <=> Coming(st) /\ st # todo[1]
         /\ todo[1][1] \in {"trigger", "user"} => \A st \in Deletes : ~Coming(st)
<1>1. PICK q : q = todo'
  OBVIOUS
<1>2. /\ todo \in Seq(Statement) /\ Distinct(todo)
      /\ \A i, j \in DOMAIN todo : todo[i] \in Deletes /\ todo[j][1] \in {"trigger", "user"} => i < j
  BY DEF TodoOK, Distinct
<1>3. /\ Len(todo) \in Nat /\ Len(todo) > 0 /\ DOMAIN todo = 1 .. Len(todo)
      /\ q \in Seq(Statement) /\ DOMAIN q = 1 .. Len(todo) - 1
      /\ \A i \in DOMAIN q : q[i] = todo[i + 1]
  BY <1>1, <1>2
<1>4. 1 \in DOMAIN todo /\ todo[1] \in Statement
  BY <1>2, <1>3
<1>5. \A i \in DOMAIN q : i \in Int /\ i + 1 \in DOMAIN todo /\ i + 1 # 1
  BY <1>3
<1>6. Distinct(q)
  BY <1>2, <1>3, <1>5 DEF Distinct
<1>7. ASSUME NEW i \in DOMAIN q, NEW j \in DOMAIN q, q[i] \in Deletes, q[j][1] \in {"trigger", "user"}
      PROVE  i < j
  <2>1. i + 1 < j + 1
    BY <1>2, <1>3, <1>5, <1>7
  <2> QED BY <1>5, <2>1
<1>8. TodoOK'
  <2>1. Deletes' = Deletes
    BY DEF Deletes
  <2> QED BY <1>1, <1>3, <1>6, <1>7, <2>1 DEF TodoOK, Distinct
<1>9. ASSUME NEW st PROVE Coming(st)' <=> Coming(st) /\ st # todo[1]
  <2>1. ASSUME NEW i \in DOMAIN q, q[i] = st PROVE Coming(st) /\ st # todo[1]
    BY <1>2, <1>3, <1>4, <1>5, <2>1 DEF Coming, Distinct
  <2>2. ASSUME NEW i \in DOMAIN todo, todo[i] = st, st # todo[1] PROVE \E j \in DOMAIN q : q[j] = st
    <3>1. i - 1 \in DOMAIN q /\ q[i - 1] = todo[i]
      BY <1>3, <2>2
    <3> QED BY <2>2, <3>1
  <2>3. Coming(st)' <=> \E i \in DOMAIN q : q[i] = st
    BY <1>1 DEF Coming
  <2> QED BY <2>1, <2>2, <2>3 DEF Coming
<1>10. ASSUME todo[1][1] \in {"trigger", "user"}, NEW st \in Deletes, Coming(st) PROVE FALSE
  <2>1. PICK i \in DOMAIN todo : todo[i] = st
    BY <1>10 DEF Coming
  <2>2. i < 1
    BY <1>2, <1>4, <1>10, <2>1
  <2> QED BY <1>3, <2>2
<1> QED BY <1>4, <1>8, <1>9, <1>10 DEF Coming

\* What each statement does to the tables.
LEMMA Written ==
  ASSUME Save, NEW kind, NEW x, todo[1][1] = kind, todo[1][2] = x
  PROVE  /\ tSignal' = IF kind = "signal" THEN [tSignal EXCEPT ![x] = comment[x]] ELSE tSignal
         /\ tAttr' = IF kind = "attr" THEN [tAttr EXCEPT ![x] = signAttr[x]] ELSE tAttr
         /\ kind = "delete triggers" => tTrigger' = <<>>
         /\ kind = "trigger" => tTrigger' = Append(tTrigger, trgs[x])
         /\ kind \notin {"delete triggers", "trigger"} => tTrigger' = tTrigger
         /\ kind = "delete users" => tUser' = <<>>
         /\ kind = "user" => tUser' = Append(tUser, NameOf(x))
         /\ kind \notin {"delete users", "user"} => tUser' = tUser
<1>1. tSignal' = IF kind = "signal" THEN [tSignal EXCEPT ![x] = comment[x]] ELSE tSignal
  BY DEF Save, Upsert
<1>2. tAttr' = IF kind = "attr" THEN [tAttr EXCEPT ![x] = signAttr[x]] ELSE tAttr
  BY DEF Save
<1>3. /\ kind = "delete triggers" => tTrigger' = <<>>
      /\ kind = "trigger" => tTrigger' = Append(tTrigger, trgs[x])
      /\ kind \notin {"delete triggers", "trigger"} => tTrigger' = tTrigger
  BY DEF Save, RowOf
<1>4. /\ kind = "delete users" => tUser' = <<>>
      /\ kind = "user" => tUser' = Append(tUser, NameOf(x))
      /\ kind \notin {"delete users", "user"} => tUser' = tUser
  BY DEF Save
<1> QED BY <1>1, <1>2, <1>3, <1>4

\* The row of a trigger that has none yet.
LEMMA RowAdded ==
  ASSUME TablesOK, NEW t, RowOK(t), tTrigger' = Append(tTrigger, t),
         \A i \in DOMAIN tTrigger : tTrigger[i].name # t.name,
         UNCHANGED <<tSignal, tAttr, tUser>>
  PROVE  /\ TablesOK'
         /\ \A i \in DOMAIN tTrigger' : tTrigger'[i] = t \/ \E j \in DOMAIN tTrigger : tTrigger'[i] = tTrigger[j]
         /\ \A nm : (\A i \in DOMAIN tTrigger' : tTrigger'[i].name # nm) <=>
                      nm # t.name /\ \A i \in DOMAIN tTrigger : tTrigger[i].name # nm
<1>1. t \in Row
  BY DEF RowOK
<1>2. PICK r : r = tTrigger' /\ r = Append(tTrigger, t)
  OBVIOUS
<1>3. PICK o : /\ o = tTrigger /\ o \in Seq(Row)
               /\ \A i \in DOMAIN o : RowOK(o[i]) /\ o[i].name # t.name
               /\ \A i, j \in DOMAIN o : o[i].name = o[j].name => i = j
  BY DEF TablesOK
<1>4. /\ r \in Seq(Row) /\ Len(o) \in Nat /\ DOMAIN o = 1 .. Len(o) /\ DOMAIN r = 1 .. Len(o) + 1
      /\ r[Len(o) + 1] = t /\ \A i \in 1 .. Len(o) : r[i] = o[i]
  BY <1>1, <1>2, <1>3
<1>5. \A i \in DOMAIN r : RowOK(r[i])
  BY <1>3, <1>4
<1>6. \A i, j \in DOMAIN r : r[i].name = r[j].name => i = j
  BY <1>3, <1>4
<1>7. TablesOK'
  BY <1>2, <1>4, <1>5, <1>6 DEF TablesOK, RowOK, Row, RowNames
<1>8. \A i \in DOMAIN r : r[i] = t \/ \E j \in DOMAIN o : r[i] = o[j]
  BY <1>4
<1>9. \A nm : (\A i \in DOMAIN r : r[i].name # nm) <=> nm # t.name /\ \A i \in DOMAIN o : o[i].name # nm
  BY <1>4
<1> QED BY <1>2, <1>3, <1>7, <1>8, <1>9

LEMMA UserAdded ==
  ASSUME TablesOK, NEW nm \in RowNames, tUser' = Append(tUser, nm),
         \A i \in DOMAIN tUser : tUser[i] # nm,
         UNCHANGED <<tSignal, tAttr, tTrigger>>
  PROVE  /\ TablesOK'
         /\ \A m : (\A i \in DOMAIN tUser' : tUser'[i] # m) <=>
                     m # nm /\ \A i \in DOMAIN tUser : tUser[i] # m
<1>1. PICK r : r = tUser' /\ r = Append(tUser, nm)
  OBVIOUS
<1>2. PICK o : /\ o = tUser /\ o \in Seq(RowNames) /\ \A i \in DOMAIN o : o[i] # nm
               /\ \A i, j \in DOMAIN o : o[i] = o[j] => i = j
  BY DEF TablesOK
<1>3. /\ r \in Seq(RowNames) /\ Len(o) \in Nat /\ DOMAIN o = 1 .. Len(o) /\ DOMAIN r = 1 .. Len(o) + 1
      /\ r[Len(o) + 1] = nm /\ \A i \in 1 .. Len(o) : r[i] = o[i]
  BY <1>1, <1>2
<1>4. \A i, j \in DOMAIN r : r[i] = r[j] => i = j
  BY <1>2, <1>3
<1>5. TablesOK'
  BY <1>1, <1>3, <1>4 DEF TablesOK, RowOK, Row, RowNames
<1>6. \A m : (\A i \in DOMAIN r : r[i] # m) <=> m # nm /\ \A i \in DOMAIN o : o[i] # m
  BY <1>3
<1> QED BY <1>1, <1>2, <1>5, <1>6

LEMMA Pair ==
  ASSUME NEW kind, NEW x, NEW st, st = <<kind, x>>
  PROVE  st[1] = kind /\ st[2] = x
OBVIOUS

\* Statements of different kinds, or of different things, are different.
LEMMA Kinds ==
  ASSUME NEW kind, NEW x
  PROVE  /\ <<kind, x>>[1] = kind
         /\ \A y : <<kind, x>> = <<kind, y>> => x = y
         /\ \A st : st[1] # kind => st # <<kind, x>>
OBVIOUS

LEMMA Emptied ==
  /\ \A S : <<>> \in Seq(S)
  /\ DOMAIN <<>> = {}
OBVIOUS

LEMMA SaveKeeps ==
  ASSUME IInv, Save
  PROVE  IInv'
<1> DEFINE h == todo[1]
<1>1. /\ up = "saves" /\ todo # <<>> /\ todo' = Tail(todo)
      /\ UNCHANGED <<up, memory, session, kept, lasting>>
  BY DEF Save
<1>2. TablesOK /\ MemoryOK /\ TodoOK /\ SavingSignals /\ SavingTriggers /\ SavingUsers
  BY <1>1 DEF IInv, Saving
<1>3. Statement' = Statement
  BY <1>1 DEF Statement, memory
<1>4. /\ TodoOK' /\ h \in Statement /\ Coming(h)
      /\ \A st : Coming(st)' <=> Coming(st) /\ st # h
      /\ h[1] \in {"trigger", "user"} => \A st \in Deletes : ~Coming(st)
  BY <1>1, <1>2, <1>3, Rest
<1>5. MemoryOK'
  BY <1>1, <1>2 DEF MemoryOK, memory, MeantBy, MadeFor, Blanks
<1>6. Unseen'
  BY <1>1 DEF IInv, Unseen, memory
<1>7. (\A s \in Signals : signAttr[s] = None => tAttr'[s] = tAttr[s]) => Seen'
  BY <1>1 DEF IInv, Seen, LeftInMemory, memory
<1> DEFINE SignalsDone ==
             \A s \in Signals :
               /\ tSignal'[s] = tSignal[s] \/ (h = <<"signal", s>> /\ s \in sref /\ tSignal'[s] = comment[s])
               /\ h = <<"signal", s>> => tSignal'[s] = comment[s]
               /\ tAttr'[s] = tAttr[s] \/ (h = <<"attr", s>> /\ signAttr[s] # None /\ tAttr'[s] = signAttr[s])
               /\ h = <<"attr", s>> => tAttr'[s] = signAttr[s]
<1>8. ASSUME SignalsDone PROVE SavingSignals' /\ Seen'
  <2>1. ASSUME NEW s \in Signals
        PROVE  /\ s \in sref => Coming(<<"signal", s>>)' \/ tSignal'[s] = comment[s]
               /\ s \notin sref => kept[s][1] = CommentIn(s)'
               /\ IF signAttr[s] # None THEN Coming(<<"attr", s>>)' \/ tAttr'[s] = signAttr[s]
                                        ELSE kept[s][2] = tAttr'[s]
    <3>1. /\ s \in sref => Coming(<<"signal", s>>) \/ tSignal[s] = comment[s]
          /\ s \notin sref => kept[s][1] = CommentIn(s)
          /\ IF signAttr[s] # None THEN Coming(<<"attr", s>>) \/ tAttr[s] = signAttr[s]
                                   ELSE kept[s][2] = tAttr[s]
      BY <1>2 DEF SavingSignals
    <3>2. /\ tSignal'[s] = tSignal[s] \/ (h = <<"signal", s>> /\ s \in sref /\ tSignal'[s] = comment[s])
          /\ h = <<"signal", s>> => tSignal'[s] = comment[s]
          /\ tAttr'[s] = tAttr[s] \/ (h = <<"attr", s>> /\ signAttr[s] # None /\ tAttr'[s] = signAttr[s])
          /\ h = <<"attr", s>> => tAttr'[s] = signAttr[s]
      BY <1>8
    <3>3. /\ Coming(<<"signal", s>>)' <=> Coming(<<"signal", s>>) /\ <<"signal", s>> # h
          /\ Coming(<<"attr", s>>)' <=> Coming(<<"attr", s>>) /\ <<"attr", s>> # h
      BY <1>4
    <3>4. s \notin sref => CommentIn(s)' = CommentIn(s)
      BY <3>2 DEF CommentIn
    <3> HIDE DEF h
    <3> QED BY <3>1, <3>2, <3>3, <3>4
  <2>2. SavingSignals'
    BY <1>1, <2>1 DEF SavingSignals, memory
  <2> QED BY <1>7, <1>8, <2>2
<1>9. ASSUME tTrigger' = tTrigger, h[1] \notin {"delete triggers", "trigger"} PROVE SavingTriggers'
  <2>1. \A n : Coming(<<"trigger", n>>)' <=> Coming(<<"trigger", n>>)
    <3> HIDE DEF h
    <3> QED BY <1>4, <1>9, Kinds
  <2>2. Coming(<<"delete triggers", None>>)' <=> Coming(<<"delete triggers", None>>)
    <3> HIDE DEF h
    <3> QED BY <1>4, <1>9, Kinds
  <2>3. DOMAIN trgs' = DOMAIN trgs /\ trgs' = trgs /\ \A n : NameOf(n)' = NameOf(n)
    BY <1>1 DEF memory, NameOf
  <2> QED BY <1>2, <1>9, <2>1, <2>2, <2>3 DEF SavingTriggers
<1>10. ASSUME tUser' = tUser, h[1] \notin {"delete users"} PROVE SavingUsers'
  <2>1. \A n : Coming(<<"user", n>>)' => Coming(<<"user", n>>)
    BY <1>4
  <2>2. Coming(<<"delete users", None>>)' <=> Coming(<<"delete users", None>>)
    <3> HIDE DEF h
    <3> QED BY <1>4, <1>10, Kinds
  <2>3. DOMAIN trgs' = DOMAIN trgs /\ \A n : NameOf(n)' = NameOf(n)
    BY <1>1 DEF memory, NameOf
  <2> QED BY <1>2, <1>10, <2>1, <2>2, <2>3 DEF SavingUsers
<1>11. \/ \E x \in sref : h = <<"signal", x>>
       \/ \E x \in Signals : signAttr[x] # None /\ h = <<"attr", x>>
       \/ h = <<"delete triggers", None>> \/ h = <<"delete users", None>>
       \/ \E x \in DOMAIN trgs : h = <<"trigger", x>>
       \/ \E x \in DOMAIN trgs : h = <<"user", x>>
  <2> HIDE DEF h
  <2>1. h \in Statement
    BY <1>4
  <2>2. ASSUME h \in {"signal"} \X sref PROVE \E x \in sref : h = <<"signal", x>>
    BY <2>2
  <2>3. ASSUME h \in {"attr"} \X {s \in Signals : signAttr[s] # None}
        PROVE  \E x \in Signals : signAttr[x] # None /\ h = <<"attr", x>>
    BY <2>3
  <2>4. ASSUME h \in Deletes PROVE h = <<"delete triggers", None>> \/ h = <<"delete users", None>>
    BY <2>4, Zenon DEF Deletes
  <2>5. ASSUME h \in {"trigger", "user"} \X DOMAIN trgs
        PROVE  \E x \in DOMAIN trgs : h = <<"trigger", x>> \/ h = <<"user", x>>
    BY <2>5
  <2>6. \/ h \in {"signal"} \X sref \/ h \in {"attr"} \X {s \in Signals : signAttr[s] # None}
        \/ h \in Deletes \/ h \in {"trigger", "user"} \X DOMAIN trgs
    BY <2>1, Zenon DEF Statement
  <2> QED BY <2>2, <2>3, <2>4, <2>5, <2>6, Zenon
<1>12. ASSUME NEW x \in sref, h = <<"signal", x>> PROVE IInv'
  <2>1. /\ tSignal' = [tSignal EXCEPT ![x] = comment[x]] /\ tAttr' = tAttr
        /\ tTrigger' = tTrigger /\ tUser' = tUser
    <3>1. h[1] = "signal" /\ h[2] = x
      BY <1>12, Pair
    <3> QED BY <3>1, Written
  <2>2. x \in Signals /\ comment[x] \in Comments
    BY <1>2 DEF MemoryOK
  <2>3. TablesOK'
    BY <1>2, <2>1, <2>2 DEF TablesOK, RowOK, Row, RowNames
  <2>4. \A s \in Signals : <<"signal", x>> = <<"signal", s>> => x = s
    OBVIOUS
  <2>5. SignalsDone
    <3>1. \A s \in Signals : h = <<"signal", s>> <=> s = x
      BY <1>12, <2>4
    <3>2. \A s : h # <<"attr", s>>
      BY <1>12, Kinds
    <3>3. \A s \in Signals : tSignal'[s] = IF s = x THEN comment[x] ELSE tSignal[s]
      BY <1>2, <2>1, <2>2 DEF TablesOK
    <3> HIDE DEF h
    <3> QED BY <1>12, <2>1, <3>1, <3>2, <3>3
  <2>6. SavingSignals' /\ Seen' /\ SavingTriggers' /\ SavingUsers'
    BY <1>8, <1>9, <1>10, <1>12, <2>1, <2>5
  <2> QED BY <1>4, <1>5, <1>6, <2>3, <2>6 DEF IInv, Saving
<1>13. ASSUME NEW x \in Signals, signAttr[x] # None, h = <<"attr", x>> PROVE IInv'
  <2>1. /\ tSignal' = tSignal /\ tAttr' = [tAttr EXCEPT ![x] = signAttr[x]]
        /\ tTrigger' = tTrigger /\ tUser' = tUser
    <3>1. h[1] = "attr" /\ h[2] = x
      BY <1>13, Pair
    <3> QED BY <3>1, Written
  <2>2. signAttr[x] \in Colours \cup {None}
    BY <1>2 DEF MemoryOK
  <2>3. TablesOK'
    BY <1>2, <2>1, <2>2 DEF TablesOK, RowOK, Row, RowNames
  <2>4. \A s \in Signals : <<"attr", x>> = <<"attr", s>> => x = s
    OBVIOUS
  <2>5. SignalsDone
    <3>1. \A s \in Signals : h = <<"attr", s>> <=> s = x
      BY <1>13, <2>4
    <3>2. \A s : h # <<"signal", s>>
      BY <1>13, Kinds
    <3>3. \A s \in Signals : tAttr'[s] = IF s = x THEN signAttr[x] ELSE tAttr[s]
      BY <1>2, <2>1, <2>2 DEF TablesOK
    <3> HIDE DEF h
    <3> QED BY <1>13, <2>1, <3>1, <3>2, <3>3
  <2>6. SavingSignals' /\ Seen' /\ SavingTriggers' /\ SavingUsers'
    BY <1>8, <1>9, <1>10, <1>13, <2>1, <2>5
  <2> QED BY <1>4, <1>5, <1>6, <2>3, <2>6 DEF IInv, Saving
<1>14. ASSUME h[1] \notin {"signal", "attr"}, tSignal' = tSignal, tAttr' = tAttr
       PROVE  SavingSignals' /\ Seen'
  <2>1. \A s : h # <<"signal", s>> /\ h # <<"attr", s>>
    BY <1>14, Kinds
  <2>2. SignalsDone
    <3> HIDE DEF h
    <3>1. ASSUME NEW s \in Signals
          PROVE  /\ tSignal'[s] = tSignal[s] /\ tAttr'[s] = tAttr[s]
                 /\ h # <<"signal", s>> /\ h # <<"attr", s>>
      BY <1>14, <2>1
    <3> QED BY <3>1
  <2> QED BY <1>8, <2>2
<1>15. CASE h = <<"delete triggers", None>>
  <2>0. h[1] = "delete triggers" /\ h[2] = None
    BY <1>15, Pair
  <2>1. /\ tSignal' = tSignal /\ tAttr' = tAttr /\ tTrigger' = <<>> /\ tUser' = tUser
    BY <2>0, Written
  <2>2. TablesOK'
    BY <1>2, <2>1, Emptied DEF TablesOK, RowOK, Row, RowNames
  <2>3. SavingTriggers'
    <3>1. ~Coming(<<"delete triggers", None>>)'
      BY <1>4, <1>15
    <3>2. \A n \in DOMAIN trgs : Coming(<<"trigger", n>>)'
      <4>1. \A n \in DOMAIN trgs : Coming(<<"trigger", n>>)
        BY <1>2, <1>4, <1>15 DEF SavingTriggers
      <4>2. \A n \in DOMAIN trgs : <<"trigger", n>> # h
        BY <2>0, Kinds
      <4> QED BY <1>4, <4>1, <4>2
    <3>3. trgs' = trgs /\ DOMAIN tTrigger' = {}
      BY <1>1, <2>1, Emptied DEF memory
    <3> QED BY <3>1, <3>2, <3>3 DEF SavingTriggers
  <2>4. SavingSignals' /\ Seen' /\ SavingUsers'
    BY <1>10, <1>14, <2>0, <2>1
  <2> QED BY <1>4, <1>5, <1>6, <2>2, <2>3, <2>4 DEF IInv, Saving
<1>16. CASE h = <<"delete users", None>>
  <2>0. h[1] = "delete users" /\ h[2] = None
    BY <1>16, Pair
  <2>1. /\ tSignal' = tSignal /\ tAttr' = tAttr /\ tTrigger' = tTrigger /\ tUser' = <<>>
    BY <2>0, Written
  <2>2. TablesOK'
    BY <1>2, <2>1, Emptied DEF TablesOK, RowOK, Row, RowNames
  <2>3. SavingUsers'
    BY <2>1, Emptied DEF SavingUsers
  <2>4. SavingSignals' /\ Seen' /\ SavingTriggers'
    BY <1>9, <1>14, <2>0, <2>1
  <2> QED BY <1>4, <1>5, <1>6, <2>2, <2>3, <2>4 DEF IInv, Saving
<1>17. ASSUME NEW x \in DOMAIN trgs, h = <<"trigger", x>> PROVE IInv'
  <2>0. h[1] = "trigger" /\ h[2] = x
    BY <1>17, Pair
  <2>1. /\ tSignal' = tSignal /\ tAttr' = tAttr /\ tUser' = tUser
        /\ tTrigger' = Append(tTrigger, trgs[x])
    BY <2>0, Written
  <2>2. ~Coming(<<"delete triggers", None>>)
    BY <1>4, <2>0 DEF Deletes
  <2>3. /\ \A i \in DOMAIN tTrigger : \E n \in DOMAIN trgs : tTrigger[i] = trgs[n]
        /\ \A n \in DOMAIN trgs :
             Coming(<<"trigger", n>>) <=> \A i \in DOMAIN tTrigger : tTrigger[i].name # NameOf(n)
    BY <1>2, <2>2 DEF SavingTriggers
  <2>4. PICK t : t = trgs[x] /\ t.name = NameOf(x)
    BY DEF NameOf
  <2>5. RowOK(t) /\ \A i \in DOMAIN tTrigger : tTrigger[i].name # t.name
    BY <1>2, <1>4, <1>17, <2>3, <2>4, NamesApart
  <2>6. /\ TablesOK'
        /\ \A i \in DOMAIN tTrigger' : tTrigger'[i] = t \/ \E j \in DOMAIN tTrigger : tTrigger'[i] = tTrigger[j]
        /\ \A nm : (\A i \in DOMAIN tTrigger' : tTrigger'[i].name # nm) <=>
                     nm # t.name /\ \A i \in DOMAIN tTrigger : tTrigger[i].name # nm
    BY <1>2, <2>1, <2>4, <2>5, RowAdded
  <2>7. SavingTriggers'
    <3>1. ~Coming(<<"delete triggers", None>>)'
      BY <1>4, <2>2
    <3>2. trgs' = trgs /\ \A n : NameOf(n)' = NameOf(n)
      BY <1>1 DEF memory, NameOf
    <3>3. \A i \in DOMAIN tTrigger' : \E n \in DOMAIN trgs : tTrigger'[i] = trgs[n]
      BY <2>3, <2>4, <2>6
    <3>4. ASSUME NEW n \in DOMAIN trgs
          PROVE  Coming(<<"trigger", n>>)' <=> \A i \in DOMAIN tTrigger' : tTrigger'[i].name # NameOf(n)
      <4>1. Coming(<<"trigger", n>>)' <=> Coming(<<"trigger", n>>) /\ n # x
        BY <1>4, <1>17
      <4>2. NameOf(n) = t.name <=> n = x
        BY <1>2, <2>4, NamesApart
      <4> QED BY <2>3, <2>6, <4>1, <4>2
    <3> QED BY <3>1, <3>2, <3>3, <3>4 DEF SavingTriggers
  <2>8. SavingSignals' /\ Seen' /\ SavingUsers'
    BY <1>10, <1>14, <2>0, <2>1
  <2> QED BY <1>4, <1>5, <1>6, <2>6, <2>7, <2>8 DEF IInv, Saving
<1>18. ASSUME NEW x \in DOMAIN trgs, h = <<"user", x>> PROVE IInv'
  <2>0. h[1] = "user" /\ h[2] = x
    BY <1>18, Pair
  <2>1. /\ tSignal' = tSignal /\ tAttr' = tAttr /\ tTrigger' = tTrigger
        /\ tUser' = Append(tUser, NameOf(x))
    BY <2>0, Written
  <2>2. ~Coming(<<"delete users", None>>)
    BY <1>4, <2>0 DEF Deletes
  <2>3. \A n \in DOMAIN trgs : Coming(<<"user", n>>) => \A i \in DOMAIN tUser : tUser[i] # NameOf(n)
    BY <1>2, <2>2 DEF SavingUsers
  <2>4. NameOf(x) \in RowNames /\ \A i \in DOMAIN tUser : tUser[i] # NameOf(x)
    BY <1>2, <1>4, <1>18, <2>3, NamesApart
  <2>5. /\ TablesOK'
        /\ \A m : (\A i \in DOMAIN tUser' : tUser'[i] # m) <=>
                    m # NameOf(x) /\ \A i \in DOMAIN tUser : tUser[i] # m
    BY <1>2, <2>1, <2>4, UserAdded
  <2>6. SavingUsers'
    <3>1. trgs' = trgs /\ \A n : NameOf(n)' = NameOf(n)
      BY <1>1 DEF memory, NameOf
    <3>2. ASSUME NEW n \in DOMAIN trgs, Coming(<<"user", n>>)'
          PROVE  \A i \in DOMAIN tUser' : tUser'[i] # NameOf(n)
      <4>1. Coming(<<"user", n>>) /\ n # x
        BY <1>4, <1>18, <3>2
      <4>2. NameOf(n) # NameOf(x)
        BY <1>2, <4>1, NamesApart
      <4> QED BY <2>3, <2>5, <4>1, <4>2
    <3> QED BY <3>1, <3>2 DEF SavingUsers
  <2>7. SavingSignals' /\ Seen' /\ SavingTriggers'
    BY <1>9, <1>14, <2>0, <2>1
  <2> QED BY <1>4, <1>5, <1>6, <2>5, <2>6, <2>7 DEF IInv, Saving
<1> QED BY <1>11, <1>12, <1>13, <1>15, <1>16, <1>17, <1>18

\* The memory of a process that has not started.
LEMMA Fresh ==
  ASSUME FreshMemory'
  PROVE  /\ sref' = {} /\ signExist' = {} /\ DOMAIN trgs' = {}
         /\ comment' \in [Signals -> Comments] /\ signAttr' \in [Signals -> Colours \cup {None}]
         /\ \A s \in Signals : comment'[s] = Empty /\ signAttr'[s] = None
BY DbAssumption, Emptied DEF FreshMemory

LEMMA SavedKeeps ==
  ASSUME IInv, Saved
  PROVE  IInv'
<1>1. /\ up = "saves" /\ todo = <<>> /\ up' = "down"
      /\ lasting' = [n \in DOMAIN lasting \cap DOMAIN trgs |-> lasting[n]]
      /\ kept' = [s \in Signals |-> IF s \in sref \ signExist THEN <<Empty, kept[s][2]>> ELSE kept[s]]
      /\ FreshMemory'
      /\ UNCHANGED <<tables, todo, session>>
  BY DEF Saved, Forget, FreshMemory
<1>2. TablesOK /\ MemoryOK /\ SavingSignals /\ SavingTriggers /\ \A st : ~Coming(st)
  BY <1>1, Emptied DEF IInv, Saving, Coming
<1>3. TablesOK'
  BY <1>1, <1>2, TablesStay
<1>4. ASSUME NEW s \in Signals
      PROVE  /\ kept'[s] \in Comments \X (Colours \cup {None})
             /\ kept'[s] = <<CommentIn(s), tAttr[s]>>
  <2>1. /\ s \in sref => tSignal[s] = comment[s]
        /\ s \notin sref => kept[s][1] = CommentIn(s)
        /\ IF signAttr[s] # None THEN tAttr[s] = signAttr[s] ELSE kept[s][2] = tAttr[s]
    BY <1>2 DEF SavingSignals
  <2>2. PICK b, c : b \in Comments /\ c \in Colours \cup {None} /\ kept[s] = <<b, c>>
    BY <1>2 DEF MemoryOK
  <2>3. comment[s] \in Comments /\ comment[s] # None /\ Empty \in Comments
    BY <1>2, DbAssumption DEF MemoryOK
  <2>4. s \notin signExist => comment[s] = Empty /\ signAttr[s] = None
    BY DEF IInv, Unseen
  <2>5. s \in signExist => s \in sref /\ kept[s] = <<comment[s], signAttr[s]>>
    BY <1>1, <1>2, DbAssumption DEF IInv, MemoryOK, Seen
  <2>6. kept'[s] = IF s \in sref \ signExist THEN <<Empty, c>> ELSE <<b, c>>
    BY <1>1, <2>2
  <2>7. CASE s \in sref \ signExist
    <3>1. CommentIn(s) = Empty /\ tAttr[s] = c
      BY <2>1, <2>2, <2>3, <2>4, <2>7 DEF CommentIn
    <3> QED BY <2>2, <2>3, <2>6, <2>7, <3>1
  <2>8. CASE s \in signExist
    <3>1. b = comment[s] /\ c = signAttr[s] /\ s \in sref
      BY <2>2, <2>5, <2>8
    <3>2. CommentIn(s) = b /\ tAttr[s] = c
      BY <2>1, <2>2, <2>3, <3>1 DEF CommentIn
    <3> QED BY <2>2, <2>6, <2>8, <3>2
  <2>9. CASE s \notin sref
    <3>1. s \notin signExist
      BY <2>5, <2>9
    <3>2. CommentIn(s) = b /\ tAttr[s] = c
      BY <2>1, <2>2, <2>4, <2>9, <3>1
    <3> QED BY <2>2, <2>6, <2>9, <3>2
  <2> QED BY <2>7, <2>8, <2>9
<1>5. DOMAIN lasting' = DOMAIN lasting \cap DOMAIN trgs /\ \A n \in DOMAIN lasting' : lasting'[n] = lasting[n]
  BY <1>1
<1>6. MemoryOK'
  BY <1>1, <1>2, <1>4, <1>5, Fresh DEF MemoryOK
<1>7. ASSUME NEW n \in Triggers PROVE LeftInTable(n)'
  <2>1. /\ \A i \in DOMAIN tTrigger : \E m \in DOMAIN trgs : tTrigger[i] = trgs[m]
        /\ \A m \in DOMAIN trgs : \E i \in DOMAIN tTrigger : tTrigger[i].name = NameOf(m)
    BY <1>2 DEF SavingTriggers
  <2>2. ASSUME NEW m \in DOMAIN trgs, trgs[m].name = n PROVE m = n
    <3>1. NameOf(m) = n /\ NameOf(m) = (IF m = OnName THEN NoName ELSE m)
      BY <1>2, <2>2, NamesApart DEF NameOf
    <3> QED BY <3>1, DbAssumption
  <2>3. \A i \in DOMAIN tTrigger : tTrigger[i].name = n => n \in DOMAIN trgs /\ tTrigger[i] = trgs[n]
    BY <2>1, <2>2
  <2>4. n \in DOMAIN trgs => n \in DOMAIN lasting /\ lasting[n] = trgs[n]
    BY <1>1 DEF IInv, Unseen, Seen, LeftInMemory
  <2>5. n \in DOMAIN trgs => NameOf(n) = n
    BY <1>2, NamesApart, DbAssumption
  <2> QED BY <1>1, <1>5, <2>1, <2>3, <2>4, <2>5 DEF LeftInTable, tables
<1>8. Unseen'
  BY <1>1, <1>4, <1>7, Fresh DEF Unseen, CommentIn, tables
<1>9. Seen' /\ Saving'
  BY <1>1 DEF Seen, Saving
<1> QED BY <1>3, <1>6, <1>8, <1>9 DEF IInv

LEMMA DieKeeps ==
  ASSUME IInv, Die
  PROVE  IInv'
<1> DEFINE names     == {tTrigger[i].name : i \in DOMAIN tTrigger} \ {NoName}
           places(n) == {i \in 1 .. Len(tTrigger) : tTrigger[i].name = n}
           place(n)  == IF places(n) # {} THEN Min(places(n)) ELSE 0
<1>1. /\ up' = "down"
      /\ kept' = [s \in Signals |-> <<CommentIn(s), tAttr[s]>>]
      /\ FreshMemory'
      /\ UNCHANGED <<tables, session>>
  BY DEF Die, Forget, FreshMemory, CommentIn
<1>2. lasting' = [n \in names |-> tTrigger[place(n)]]
  BY DEF Die, SelectInSeq
<1>3. TablesOK /\ MemoryOK
  BY DEF IInv
<1>4. TablesOK'
  BY <1>1, <1>3, TablesStay
<1>5. DOMAIN tTrigger = 1 .. Len(tTrigger) /\ Len(tTrigger) \in Nat
      /\ \A i, j \in DOMAIN tTrigger : tTrigger[i].name = tTrigger[j].name => i = j
  BY <1>3 DEF TablesOK
<1>6. names \subseteq Triggers
  BY <1>3, RowOfSignal DEF RowNames
<1>7. ASSUME NEW i \in DOMAIN tTrigger PROVE place(tTrigger[i].name) = i
  <2>1. places(tTrigger[i].name) \subseteq Nat /\ i \in places(tTrigger[i].name)
    BY <1>5
  <2>2. Min(places(tTrigger[i].name)) \in places(tTrigger[i].name)
    BY <2>1, FirstPlace
  <2> QED BY <1>5, <2>1, <2>2
<1> HIDE DEF place
<1>8. DOMAIN lasting' = names /\ \A n \in names : lasting'[n] = tTrigger[place(n)]
  <2> HIDE DEF names
  <2> QED BY <1>2
<1>9. ASSUME NEW s \in Signals PROVE CommentIn(s) \in Comments /\ tAttr[s] \in Colours \cup {None}
  BY <1>3, DbAssumption DEF TablesOK, CommentIn
<1>10. kept' \in [Signals -> (Comments \X (Colours \cup {None}))]
  BY <1>1, <1>9
<1>11. MemoryOK'
  BY <1>1, <1>3, <1>6, <1>8, <1>10, Fresh DEF MemoryOK
<1>12. ASSUME NEW n \in Triggers PROVE LeftInTable(n)'
  <2>1. n # NoName
    BY DbAssumption
  <2>2. n \in DOMAIN lasting' <=> \E i \in DOMAIN tTrigger : tTrigger[i].name = n
    BY <1>8, <2>1
  <2>3. \A i \in DOMAIN tTrigger : tTrigger[i].name = n => lasting'[n] = tTrigger[i]
    BY <1>7, <1>8, <2>1
  <2> QED BY <1>1, <2>2, <2>3 DEF LeftInTable, tables
<1>13. Unseen'
  BY <1>1, <1>12, Fresh DEF Unseen, CommentIn, tables
<1>14. Seen' /\ Saving'
  BY <1>1 DEF Seen, Saving
<1> QED BY <1>4, <1>11, <1>13, <1>14 DEF IInv

LEMMA StartKeeps ==
  ASSUME IInv, Start
  PROVE  IInv'
<1>1. /\ up = "down" /\ session < MaxSessions /\ up' = "runs" /\ session' = session + 1
      /\ UNCHANGED <<memory, tables, todo, kept, lasting>>
  BY DEF Start
<1>2. TablesOK'
  BY <1>1, TablesStay DEF IInv
<1>3. FreshMemory /\ session' \in 1 .. MaxSessions
  BY <1>1, DbAssumption DEF IInv, MemoryOK
<1>4. MemoryOK'
  BY <1>1, <1>3 DEF IInv, MemoryOK, memory, MeantBy, MadeFor, Blanks
<1>5. Unseen'
  BY <1>1 DEF IInv, Unseen, CommentIn, LeftInTable, memory, tables
<1>6. Seen' /\ Saving'
  <2>1. signExist' = {}
    BY <1>1, <1>3 DEF memory, FreshMemory
  <2>2. \A n \in Triggers : Owner[n] \notin signExist'
    BY <2>1
  <2> QED BY <1>1, <2>1, <2>2 DEF Seen, Saving
<1> QED BY <1>2, <1>4, <1>5, <1>6 DEF IInv

-----------------------------------------------------------------------------
(* The theorems.                                                           *)

LEMMA InitInv == Init => IInv
<1> SUFFICES ASSUME Init PROVE IInv
  OBVIOUS
<1>1. FreshMemory /\ up = "runs" /\ tTrigger = <<>> /\ tUser = <<>> /\ session = 1 /\ lasting = <<>>
      /\ tSignal = [s \in Signals |-> None] /\ tAttr = [s \in Signals |-> None]
      /\ kept = [s \in Signals |-> <<Empty, None>>]
  BY DEF Init
<1>2. TablesOK
  BY <1>1, Emptied DEF TablesOK
<1>3. /\ sref = {} /\ signExist = {} /\ DOMAIN trgs = {} /\ DOMAIN lasting = {} /\ DOMAIN tTrigger = {}
      /\ comment = [s \in Signals |-> Empty] /\ signAttr = [s \in Signals |-> None]
  BY <1>1, Emptied DEF FreshMemory
<1>4. MemoryOK
  BY <1>1, <1>3, DbAssumption DEF MemoryOK
<1>5. Unseen
  BY <1>1, <1>3 DEF Unseen, CommentIn, LeftInTable
<1>6. Seen /\ Saving
  BY <1>1, <1>3 DEF Seen, Saving
<1> QED BY <1>2, <1>4, <1>5, <1>6 DEF IInv

LEMMA StayKeeps ==
  ASSUME IInv, UNCHANGED vars
  PROVE  IInv'
<1>1. UNCHANGED <<up, memory, tables, todo, session, kept, lasting>>
  BY DEF vars
<1>2. TablesOK'
  BY <1>1, TablesStay DEF IInv
<1>3. MemoryOK'
  BY <1>1 DEF IInv, MemoryOK, memory, MeantBy, MadeFor, Blanks, FreshMemory
<1>4. Unseen'
  BY <1>1 DEF IInv, Unseen, CommentIn, LeftInTable, memory, tables
<1>5. Seen'
  BY <1>1 DEF IInv, Seen, LeftInMemory, memory, tables
<1>6. Saving'
  <2>1. UNCHANGED <<sref, signExist, comment, signAttr, trgs, tSignal, tAttr, tTrigger, tUser, todo, up, kept>>
    BY <1>1 DEF memory, tables
  <2>2. /\ Statement' = Statement /\ Deletes' = Deletes /\ \A st : Coming(st)' <=> Coming(st)
        /\ \A n : NameOf(n)' = NameOf(n) /\ \A s : CommentIn(s)' = CommentIn(s)
    BY <2>1 DEF Statement, Deletes, Coming, NameOf, CommentIn
  <2>3. CASE up = "saves"
    <3>1. TodoOK /\ SavingSignals /\ SavingTriggers /\ SavingUsers
      BY <2>3 DEF IInv, Saving
    <3>2. TodoOK'
      BY <2>1, <2>2, <3>1 DEF TodoOK
    <3>3. SavingSignals'
      BY <2>1, <2>2, <3>1 DEF SavingSignals
    <3>4. SavingTriggers'
      BY <2>1, <2>2, <3>1 DEF SavingTriggers
    <3>5. SavingUsers'
      BY <2>1, <2>2, <3>1 DEF SavingUsers
    <3> QED BY <3>2, <3>3, <3>4, <3>5 DEF Saving
  <2>4. CASE up # "saves"
    BY <2>1, <2>4 DEF Saving
  <2> QED BY <2>3, <2>4
<1> QED BY <1>2, <1>3, <1>4, <1>5, <1>6 DEF IInv

LEMMA NextKeeps == IInv /\ [Next]_vars => IInv'
<1> SUFFICES ASSUME IInv, [Next]_vars PROVE IInv'
  OBVIOUS
<1>1. CASE \E s \in Signals : Appear(s) \/ ResetColour(s)
  BY <1>1, AppearKeeps, ResetColourKeeps
<1>2. CASE UpdateTblSignal \/ ModuleConnect
  BY <1>2, UpdateTblSignalKeeps, ModuleConnectKeeps
<1>3. CASE \E s \in Signals, c \in Comments : SetComment(s, c)
  BY <1>3, SetCommentKeeps
<1>4. CASE \E s \in Signals, c \in Colours : SetColour(s, c)
  BY <1>4, SetColourKeeps
<1>5. CASE \E n \in Triggers, active \in BOOLEAN : AddTrigger(n, active)
  BY <1>5, AddTriggerKeeps
<1>6. CASE \E n \in Triggers \cup {OnName} : ChangeTrigger(n)
  BY <1>6, ChangeTriggerKeeps
<1>7. CASE \E n \in Triggers : DelTrigger(n)
  BY <1>7, DelTriggerKeeps
<1>8. CASE Exit \/ Save \/ Saved \/ Die \/ Start
  BY <1>8, ExitKeeps, SaveKeeps, SavedKeeps, DieKeeps, StartKeeps
<1>9. CASE UNCHANGED vars
  BY <1>9, StayKeeps
<1> QED BY <1>1, <1>2, <1>3, <1>4, <1>5, <1>6, <1>7, <1>8, <1>9 DEF Next

(* Through every session, orderly exit and death of the monitor, what the  *)
(* user left of a signal is in memory once it has been seen, in the tables *)
(* before, and between them at no point of saveSignals, saveAttrSignals    *)
(* and saveTriggers is it in neither.                                      *)
THEOREM DbInvariance == Spec => []IInv
BY InitInv, NextKeeps, PTL DEF Spec

LEMMA RowsCounted ==
  ASSUME TablesOK
  PROVE  Len(tTrigger) <= Cardinality(Triggers) + 1 /\ Len(tUser) <= Cardinality(Triggers) + 1
<1>1. IsFiniteSet(RowNames) /\ Cardinality(RowNames) = Cardinality(Triggers) + 1
  BY DbAssumption, FS_AddElement DEF RowNames
<1>2. ASSUME NEW k \in Nat, NEW f \in [1 .. k -> RowNames], \A i, j \in 1 .. k : f[i] = f[j] => i = j
      PROVE  k <= Cardinality(RowNames)
  <2>1. IsFiniteSet(1 .. k) /\ Cardinality(1 .. k) = k
    BY FS_Interval
  <2>2. Cardinality(RowNames) \in Nat
    BY <1>1, FS_CardinalityType
  <2>3. ~(Cardinality(RowNames) < Cardinality(1 .. k))
    BY <1>1, <1>2, <2>1, FS_PigeonHole
  <2> QED BY <2>1, <2>2, <2>3
<1>3. Len(tTrigger) <= Cardinality(RowNames)
  <2> DEFINE f == [i \in 1 .. Len(tTrigger) |-> tTrigger[i].name]
  <2>1. Len(tTrigger) \in Nat /\ DOMAIN tTrigger = 1 .. Len(tTrigger)
    BY DEF TablesOK
  <2>2. \A i \in 1 .. Len(tTrigger) : tTrigger[i].name \in RowNames
    BY <2>1, RowOfSignal
  <2>3. f \in [1 .. Len(tTrigger) -> RowNames] /\ \A i, j \in 1 .. Len(tTrigger) : f[i] = f[j] => i = j
    BY <2>1, <2>2 DEF TablesOK
  <2> HIDE DEF f
  <2> QED BY <1>2, <2>1, <2>3
<1>4. Len(tUser) <= Cardinality(RowNames)
  <2>1. /\ Len(tUser) \in Nat /\ tUser \in [1 .. Len(tUser) -> RowNames]
        /\ \A i, j \in 1 .. Len(tUser) : tUser[i] = tUser[j] => i = j
    BY DEF TablesOK
  <2> QED BY <1>2, <2>1
<1> QED BY <1>1, <1>3, <1>4

(* Memory and tables have their types, and no session writes a row that    *)
(* was there: there are never more rows than triggers and the one without  *)
(* a name.                                                                 *)
THEOREM DbTypeCorrect == Spec => []TypeOK
<1>1. IInv => TypeOK
  <2> SUFFICES ASSUME IInv PROVE TypeOK
    OBVIOUS
  <2>1. Len(tTrigger) <= Cardinality(Triggers) + 1 /\ Len(tUser) <= Cardinality(Triggers) + 1
    BY RowsCounted DEF IInv
  <2>2. ASSUME NEW n \in DOMAIN trgs
        PROVE  trgs[n] \in {[Blank EXCEPT !.active = x] : x \in BOOLEAN}
                             \cup {Trigger(m, x) : m \in Triggers, x \in BOOLEAN}
    <3>1. n \in Triggers \cup {OnName} /\ trgs[n] \in MeantBy(n)
      BY DEF IInv, MemoryOK
    <3>2. CASE n = OnName
      <4>1. PICK x \in BOOLEAN : trgs[n] = [name |-> NoName, signal |-> None, active |-> x]
        BY <3>1, <3>2 DEF MeantBy, Blanks
      <4>2. [Blank EXCEPT !.active = x] = [name |-> NoName, signal |-> None, active |-> x]
        BY DEF Blank
      <4> QED BY <4>1, <4>2
    <3>3. CASE n # OnName
      <4>1. PICK x \in BOOLEAN : trgs[n] = Trigger(n, x)
        BY <3>1, <3>3 DEF MeantBy, MadeFor
      <4> QED BY <3>1, <3>3, <4>1
    <3> QED BY <3>2, <3>3
  <2> QED BY <2>1, <2>2 DEF IInv, TablesOK, MemoryOK, TypeOK
<1> QED BY <1>1, DbInvariance, PTL

(* A signal that has been seen has the comment and the colour the user     *)
(* gave it last, however many sessions ago (saveSignals, saveAttrSignals,  *)
(* delAttrSignal, updateTblSignal).                                        *)
THEOREM UserDataIsKept == Spec => []UserDataKept
<1>1. IInv => UserDataKept
  BY DEF IInv, Seen, UserDataKept
<1> QED BY <1>1, DbInvariance, PTL

(* The triggers of a signal that has been seen are those the user left it  *)
(* with, as the user left them (saveTriggers, getTrigger).                 *)
THEOREM TriggersAreKept == Spec => []TriggersKept
<1>1. IInv => TriggersKept
  <2> SUFFICES ASSUME IInv, up = "runs", NEW n \in Triggers, Owner[n] \in signExist
               PROVE  IF n \in DOMAIN lasting THEN n \in DOMAIN trgs /\ trgs[n] = lasting[n]
                                              ELSE n \notin DOMAIN trgs
    BY DEF TriggersKept
  <2>1. LeftInMemory(n)
    BY DEF IInv, Seen
  <2> QED BY <2>1 DEF LeftInMemory
<1> QED BY <1>1, DbInvariance, PTL

-----------------------------------------------------------------------------
(* The settings: what of them outlives a restart, a visit to the dialog,   *)
(* and a change while the program runs.                                    *)

\* A text that QSettings reads as it was written.
Plain(t) == iniText[t] = t

\* Numbers as readSettings leaves them.
InRange(c) == \A k \in NumberFields : ReadNumber(k, c.numbers[k]) = c.numbers[k]

ReadBack(c) ==
  /\ \A k \in TextFields : Plain(c.texts[k])
  /\ Plain(c.archPath) /\ c.archPath # NoText /\ slashed[c.archPath] = c.archPath
  /\ Plain(c.dbPath) /\ c.dbPath # NoText
  /\ \A i \in DOMAIN c.ports : Plain(c.ports[i].name) /\ Plain(c.ports[i].speed)

\* Every port but the first has a name and a speed.
NoGap(ports) == \A i \in DOMAIN ports : i > 1 => ports[i].name # NoText /\ ports[i].speed # NoText

-----------------------------------------------------------------------------
(* A number that was read once is read again as it is.                              *)
LEMMA ReadAgain ==
  ASSUME NEW k \in NumberFields, NEW n \in Int
  PROVE  /\ ReadNumber(k, n) \in Int
         /\ ReadNumber(k, ReadNumber(k, n)) = ReadNumber(k, n)
  BY SMT DEF ReadNumber, AtLeast, LeastOf, FlagFields

(* Ports without a gap, of plain texts, are read as they were written.     *)
THEOREM PortsKept ==
  ASSUME NEW ports \in Seq(Port), NoGap(ports),
         \A i \in DOMAIN ports : Plain(ports[i].name) /\ Plain(ports[i].speed)
  PROVE  ReadPorts(ports) = ports
<1> DEFINE read == [i \in DOMAIN ports |-> IniPort(ports[i])]
<1>1. ASSUME NEW i \in DOMAIN ports PROVE IniPort(ports[i]) = ports[i]
  <2>1. ports[i] \in Port
    BY <1>1
  <2> QED BY <1>1, <2>1 DEF IniPort, Plain, Port
<1>2. read = ports
  BY <1>1
<1>3. {i \in DOMAIN read : i > 1 /\ (read[i].name = NoText \/ read[i].speed = NoText)} = {}
  BY <1>2 DEF NoGap
<1>4. ReadPorts(ports) = SubSeq(ports, 1, Len(ports))
  BY <1>2, <1>3 DEF ReadPorts
<1> QED BY <1>4

(* What readSettings reads of what writeSettings has written: everything,   *)
(* but the name and the hours of the archive, which are back at their       *)
(* defaults (main_win.cpp:237, :378).                                       *)
THEOREM RoundTrip ==
  ASSUME NEW c \in Configs, InRange(c), ReadBack(c), NoGap(c.ports),
         NEW home, NEW defaultDb, NEW svrec
  PROVE  ReadSettings(WriteSettings(c), home, defaultDb, svrec)
           = [texts |-> c.texts, numbers |-> c.numbers, archName |-> svrec, archHours |-> 2,
              archPath |-> c.archPath, dbPath |-> c.dbPath, ports |-> c.ports]
<1>1. [k \in TextFields |-> iniText[c.texts[k]]] = c.texts
  <2>1. c.texts \in [TextFields -> Texts]
    BY DEF Configs
  <2> QED BY <2>1 DEF ReadBack, Plain
<1>2. [k \in NumberFields |-> ReadNumber(k, c.numbers[k])] = c.numbers
  <2>1. c.numbers \in [NumberFields -> Int]
    BY DEF Configs
  <2> QED BY <2>1 DEF InRange
<1>3. slashed[OrElse(iniText[c.archPath], home)] = c.archPath
  BY DEF ReadBack, Plain, OrElse
<1>4. OrElse(iniText[c.dbPath], defaultDb) = c.dbPath
  BY DEF ReadBack, Plain, OrElse
<1>5. ReadPorts(c.ports) = c.ports
  <2>1. c.ports \in Seq(Port)
    BY DEF Configs
  <2> QED BY <2>1, PortsKept DEF ReadBack
<1> QED BY <1>1, <1>2, <1>3, <1>4, <1>5 DEF ReadSettings, WriteSettings

(* What the dialog shows of a configuration that was read, and the offset   *)
(* cut to whole seconds (settings_dialog.cpp:135).                          *)
LEMMA ShownNumbers ==
  ASSUME NEW c \in Configs, InRange(c),
         c.numbers["cycleRecMs"] <= 60000, c.numbers["packetSz"] <= 1000000,
         c.numbers["offsetMs"] < 1001000
  PROVE  /\ Bound(1, c.numbers["cycleRecMs"], 60000) = c.numbers["cycleRecMs"]
         /\ Bound(1, c.numbers["packetSz"], 1000000) = c.numbers["packetSz"]
         /\ Bound(0, c.numbers["offsetMs"] \div 1000, 1000) = c.numbers["offsetMs"] \div 1000
         /\ c.numbers["com_ena"] \in {0, 1}
<1>1. c.numbers \in [NumberFields -> Int]
  BY DEF Configs
<1>2. ASSUME NEW k \in DOMAIN LeastOf
      PROVE  c.numbers[k] \in Int /\ c.numbers[k] >= LeastOf[k]
  <2>1. k \in NumberFields /\ k \notin FlagFields /\ LeastOf[k] \in Int
    BY <1>2 DEF NumberFields, FlagFields, LeastOf
  <2> QED BY <1>1, <1>2, <2>1 DEF InRange, ReadNumber, AtLeast
<1>3. "com_ena" \in NumberFields /\ "com_ena" \in FlagFields
  BY DEF NumberFields, FlagFields
<1>4. c.numbers["com_ena"] \in {0, 1}
  BY <1>3 DEF InRange, ReadNumber
<1>5. /\ c.numbers["cycleRecMs"] \in Int /\ c.numbers["cycleRecMs"] >= 1
      /\ c.numbers["packetSz"] \in Int /\ c.numbers["packetSz"] >= 1
      /\ c.numbers["offsetMs"] \in Int /\ c.numbers["offsetMs"] >= 0
  BY <1>2 DEF LeastOf
<1> QED BY <1>4, <1>5 DEF Bound

(* The dialog shown for the first time and saved without a change: nothing  *)
(* changes but the offset.                                                  *)
THEOREM SaveUnchanged ==
  ASSUME NEW c \in Configs, InRange(c), slashed[c.archPath] = c.archPath,
         c.numbers["cycleRecMs"] <= 60000, c.numbers["packetSz"] <= 1000000,
         c.numbers["offsetMs"] < 1001000,
         \A i \in DOMAIN c.ports : c.ports[i].speed \in Speeds
  PROVE  SaveChange(ShowEvent(NewDialog(c), c), c)
           = [texts |-> c.texts,
              numbers |-> [c.numbers EXCEPT !["offsetMs"] = (@ \div 1000) * 1000],
              archName |-> c.archName, archPath |-> c.archPath, archHours |-> c.archHours,
              dbPath |-> c.dbPath, ports |-> c.ports]
<1> DEFINE new == NewDialog(c)
           d   == ShowEvent(new, c)
           n   == [c.numbers EXCEPT !["offsetMs"] = (@ \div 1000) * 1000]
<1>1. new.ports = c.ports
  <2>1. c.ports \in Seq(Port)
    BY DEF Configs
  <2>2. new.ports = [i \in DOMAIN c.ports |-> ShownPort(c.ports[i])]
    BY DEF NewDialog
  <2>3. ASSUME NEW i \in DOMAIN c.ports PROVE ShownPort(c.ports[i]) = c.ports[i]
    <3>1. c.ports[i] \in Port
      BY <2>1
    <3> QED BY <3>1 DEF ShownPort, ComboSpeed, Port
  <2> QED BY <2>1, <2>2, <2>3
<1>2. new.radio = "com"
  BY DEF NewDialog
<1> HIDE DEF new
<1>3. [k \in TextFields |-> IF k \in DialogTexts THEN d.texts[k] ELSE c.texts[k]] = c.texts
  <2>1. d.texts = [k \in DialogTexts |-> c.texts[k]]
    BY DEF ShowEvent
  <2>2. c.texts \in [TextFields -> Texts]
    BY DEF Configs
  <2> QED BY <2>1, <2>2
<1>4. [k \in NumberFields |-> SavedNumber(d, c, k)] = n
  <2>0. d.radio = IF c.numbers["com_ena"] = 0 THEN "ethernet" ELSE "com"
    BY <1>2 DEF ShowEvent
  <2>1. /\ d.numbers = [k \in DialogNumbers |-> c.numbers[k]]
        /\ d.cycleRecMs = c.numbers["cycleRecMs"]
        /\ d.packetSz = c.numbers["packetSz"]
        /\ d.offsetSec = c.numbers["offsetMs"] \div 1000
    BY ShownNumbers DEF ShowEvent
  <2>2. c.numbers \in [NumberFields -> Int] /\ c.numbers["com_ena"] \in {0, 1}
    BY ShownNumbers DEF Configs
  <2> HIDE DEF d
  <2>3. ASSUME NEW k \in NumberFields PROVE SavedNumber(d, c, k) = n[k]
    BY <2>0, <2>1, <2>2 DEF SavedNumber, DialogNumbers
  <2> QED BY <2>2, <2>3
<1>5. d.archPath = c.archPath /\ d.ports = c.ports
  BY <1>1 DEF ShowEvent
<1> HIDE DEF d
<1>6. SaveChange(d, c)
        = [texts |-> c.texts, numbers |-> n, archName |-> c.archName,
           archPath |-> c.archPath, archHours |-> c.archHours,
           dbPath |-> c.dbPath, ports |-> c.ports]
  BY <1>3, <1>4, <1>5 DEF SaveChange
<1> QED BY <1>6 DEF d, new

Dialogs ==
  [texts : [DialogTexts -> Texts], numbers : [DialogNumbers -> Int], archPath : Texts,
   cycleRecMs : Int, packetSz : Int, offsetSec : Int, radio : {"com", "ethernet"},
   changed : BOOLEAN, ports : Seq(Port)]

(* A user who has put the button on Ethernet and left the dialog without    *)
(* saving finds it there again, and with any later change saves it: the     *)
(* call setChecked(false) of showEvent does not put it back                 *)
(* (settings_dialog.cpp:124).                                               *)
THEOREM LeftRadioIsSaved ==
  ASSUME NEW c \in Configs, c.numbers["com_ena"] = 1, NEW d \in Dialogs
  PROVE  SaveChange(ShowEvent(SelectRadio(d, "ethernet"), c), c).numbers["com_ena"] = 0
<1> DEFINE gone == SelectRadio(d, "ethernet")
           seen == ShowEvent(gone, c)
<1>1. gone.radio = "ethernet"
  BY DEF SelectRadio, Dialogs
<1> HIDE DEF gone
<1>2. seen.radio = "ethernet"
  BY <1>1 DEF ShowEvent
<1> HIDE DEF seen
<1>3. SavedNumber(seen, c, "com_ena") = 0
  BY <1>2 DEF SavedNumber, DialogNumbers
<1>4. "com_ena" \in NumberFields
  BY DEF NumberFields, FlagFields
<1>5. SaveChange(seen, c).numbers["com_ena"] = 0
  BY <1>3, <1>4 DEF SaveChange
<1> QED BY <1>5 DEF seen, gone

(* Every control of the dialog of the graphs but that of the tolerance sets *)
(* the tolerance of the graphs to 1 (graph_setting_dialog.cpp:79), while    *)
(* the dialog goes on showing the user's.                                   *)
THEOREM ToleranceIsLost ==
  ASSUME NEW dlg \in [transparent : Int, lineWidth : Int, darkTheme : {0, 1},
                      signBoolOnTop : {0, 1}, gapTolerance : Int],
         NEW k \in {"transparent", "lineWidth", "darkTheme", "signBoolOnTop"}, NEW v \in Int
  PROVE  /\ MoveControl(dlg, k, v).graphs.gapTolerance = 1
         /\ MoveControl(dlg, k, v).dialog.gapTolerance = dlg.gapTolerance
<1> DEFINE moved == [dlg EXCEPT ![k] = v]
<1>1. moved.gapTolerance = dlg.gapTolerance /\ DOMAIN moved = DOMAIN dlg
  OBVIOUS
<1>2. "gapTolerance" \in DOMAIN moved
  BY <1>1
<1>3. [moved EXCEPT !.gapTolerance = 1].gapTolerance = 1
  BY <1>2
<1> HIDE DEF moved
<1>4. MoveControl(dlg, k, v) = [dialog |-> moved, graphs |-> [moved EXCEPT !.gapTolerance = 1]]
  BY DEF MoveControl, GraphSetting, moved
<1> QED BY <1>1, <1>3, <1>4

-----------------------------------------------------------------------------
(* Everything the window has started is stopped at its end, as long as the  *)
(* flags are what they were at the start (main_win.cpp:108, :157).          *)
THEOREM AllIsStopped ==
  ASSUME NEW c, NEW now, Services(now) = Services(c),
         now.numbers["com_ena"] = 1 <=> c.numbers["com_ena"] = 1
  PROVE  LET gone == Left(Started(c), now)
         IN  gone.tcp = FALSE /\ gone.services = {} /\ gone.com = {}
  BY DEF Left, Started

(* A change saved in the dialog is in force at once for the end of the      *)
(* window: with the connection changed from TCP to COM, the TCP server goes *)
(* on; with a service switched off, its server does                         *)
(* (main_win.cpp:1287, :157, :165).                                         *)
THEOREM ChangedIsLeft ==
  ASSUME NEW c, NEW new, UpdateConfig(c, new).window.numbers["com_ena"] = 1,
         c.numbers["com_ena"] = 0
  PROVE  LET gone == Left(Started(c), UpdateConfig(c, new).window)
         IN  gone.tcp = TRUE /\ gone.services = Services(c) \ Services(new)
  BY DEF Left, Started, UpdateConfig

(* A viewer reads what it has written, if its texts are plain.              *)
THEOREM ViewerRoundTrip ==
  ASSUME NEW c \in ViewerConfigs, \A k \in ViewerTexts : Plain(c.texts[k]),
         \A k \in ViewerNumbers : ViewerReadNumber(k, c.numbers[k]) = c.numbers[k]
  PROVE  ViewerRead(ViewerWrite(c)) = c
<1>1. [k \in ViewerTexts |-> iniText[c.texts[k]]] = c.texts
  BY DEF ViewerConfigs, Plain
<1>2. [k \in ViewerNumbers |-> ViewerReadNumber(k, c.numbers[k])] = c.numbers
  BY DEF ViewerConfigs
<1>3. c = [texts |-> c.texts, numbers |-> c.numbers]
  BY DEF ViewerConfigs
<1> QED BY <1>1, <1>2, <1>3 DEF ViewerRead, ViewerWrite

-----------------------------------------------------------------------------
(* The panel: lists without repetition.                                    *)

\* A part of a list.
LEMMA Part ==
  ASSUME NEW T, NEW s \in Seq(T), Distinct(s), NEW a \in Nat \ {0}, NEW b \in Nat,
         a <= b + 1, b <= Len(s)
  PROVE  /\ SubSeq(s, a, b) \in Seq(T) /\ Len(SubSeq(s, a, b)) = b + 1 - a
         /\ Distinct(SubSeq(s, a, b))
         /\ \A x : In(SubSeq(s, a, b), x) <=> \E j \in a .. b : s[j] = x
<1> DEFINE r == SubSeq(s, a, b)
<1>1. Len(s) \in Nat /\ DOMAIN s = 1 .. Len(s) /\ \A j \in 1 .. Len(s) : s[j] \in T
  BY LenProperties, ElementOfSeq
<1>2. \A j \in a .. b : s[j] \in T
  BY <1>1
<1>3. /\ r \in Seq(T) /\ Len(r) = IF a <= b THEN b - a + 1 ELSE 0
      /\ \A j \in 1 .. b - a + 1 : r[j] = s[a + j - 1]
  <2>1. a \in Int /\ b \in Int
    OBVIOUS
  <2> QED BY <1>2, <2>1, SubSeqProperties
<1>4. Len(r) = b + 1 - a /\ DOMAIN r = 1 .. b + 1 - a
  BY <1>3, LenProperties
<1> HIDE DEF r
<1>5. \A j \in DOMAIN r : a + j - 1 \in a .. b /\ r[j] = s[a + j - 1]
  BY <1>3, <1>4
<1>6. ASSUME NEW i \in DOMAIN r, NEW j \in DOMAIN r, r[i] = r[j] PROVE i = j
  <2>1. a + i - 1 \in DOMAIN s /\ a + j - 1 \in DOMAIN s /\ s[a + i - 1] = s[a + j - 1]
    BY <1>1, <1>4, <1>5, <1>6
  <2>2. a + i - 1 = a + j - 1
    BY <2>1 DEF Distinct
  <2> QED BY <1>4, <2>2
<1>7. Distinct(r)
  BY <1>6 DEF Distinct
<1>8. ASSUME NEW x PROVE In(r, x) <=> \E j \in a .. b : s[j] = x
  <2>1. In(r, x) => \E j \in a .. b : s[j] = x
    BY <1>5 DEF In
  <2>2. ASSUME NEW j \in a .. b, s[j] = x PROVE In(r, x)
    <3>1. PICK h \in 1 .. b - a + 1 : h = j + 1 - a /\ a + h - 1 = j
      <4>1. j + 1 - a \in 1 .. b - a + 1 /\ a + (j + 1 - a) - 1 = j
        OBVIOUS
      <4> QED BY <4>1
    <3>2. r[h] = x /\ h \in DOMAIN r
      BY <1>3, <1>4, <2>2, <3>1
    <3> QED BY <3>2 DEF In
  <2> QED BY <2>1, <2>2
<1> QED BY <1>3, <1>4, <1>7, <1>8 DEF r

\* A list without the place i.
LEMMA TakenOut ==
  ASSUME NEW T, NEW s \in Seq(T), Distinct(s), NEW i \in DOMAIN s
  PROVE  /\ RemoveAt(s, i) \in Seq(T) /\ Distinct(RemoveAt(s, i))
         /\ Len(RemoveAt(s, i)) = Len(s) - 1
         /\ \A x : In(RemoveAt(s, i), x) <=> In(s, x) /\ x # s[i]
<1> DEFINE a == SubSeq(s, 1, i - 1)
           b == SubSeq(s, i + 1, Len(s))
<1>1. Len(s) \in Nat /\ DOMAIN s = 1 .. Len(s) /\ i \in 1 .. Len(s)
  BY LenProperties
<1>2. /\ a \in Seq(T) /\ Len(a) = i - 1 /\ Distinct(a)
      /\ \A x : In(a, x) <=> \E j \in 1 .. i - 1 : s[j] = x
  <2>1. 1 \in Nat \ {0} /\ i - 1 \in Nat /\ 1 <= (i - 1) + 1 /\ i - 1 <= Len(s)
        /\ (i - 1) + 1 - 1 = i - 1
    BY <1>1
  <2> HIDE DEF a
  <2>2. /\ SubSeq(s, 1, i - 1) \in Seq(T) /\ Len(SubSeq(s, 1, i - 1)) = (i - 1) + 1 - 1
        /\ Distinct(SubSeq(s, 1, i - 1))
        /\ \A x : In(SubSeq(s, 1, i - 1), x) <=> \E j \in 1 .. i - 1 : s[j] = x
    BY <2>1, Part
  <2> QED BY <2>1, <2>2 DEF a
<1>3. /\ b \in Seq(T) /\ Len(b) = Len(s) - i /\ Distinct(b)
      /\ \A x : In(b, x) <=> \E j \in i + 1 .. Len(s) : s[j] = x
  <2>1. i + 1 \in Nat \ {0} /\ i + 1 <= Len(s) + 1 /\ Len(s) <= Len(s)
        /\ Len(s) + 1 - (i + 1) = Len(s) - i
    BY <1>1
  <2>2. /\ SubSeq(s, i + 1, Len(s)) \in Seq(T)
        /\ Len(SubSeq(s, i + 1, Len(s))) = Len(s) + 1 - (i + 1)
        /\ Distinct(SubSeq(s, i + 1, Len(s)))
        /\ \A x : In(SubSeq(s, i + 1, Len(s)), x) <=> \E j \in i + 1 .. Len(s) : s[j] = x
    BY <1>1, <2>1, Part
  <2> QED BY <2>1, <2>2 DEF b
<1>4. RemoveAt(s, i) = a \o b
  BY DEF RemoveAt
<1> HIDE DEF a, b
<1>5. \A j \in DOMAIN a, k \in DOMAIN b : a[j] # b[k]
  <2> SUFFICES ASSUME NEW j \in DOMAIN a, NEW k \in DOMAIN b, a[j] = b[k] PROVE FALSE
    OBVIOUS
  <2>1. In(a, a[j]) /\ In(b, a[j])
    BY DEF In
  <2>2. PICK l \in 1 .. i - 1, m \in i + 1 .. Len(s) : s[l] = a[j] /\ s[m] = a[j]
    BY <1>2, <1>3, <2>1
  <2> QED BY <1>1, <2>2 DEF Distinct
<1>6. /\ a \o b \in Seq(T) /\ Distinct(a \o b)
      /\ \A x : In(a \o b, x) <=> In(a, x) \/ In(b, x)
  BY <1>2, <1>3, <1>5, Joined
<1>7. Len(a \o b) = Len(s) - 1
  <2>1. Len(a \o b) = Len(a) + Len(b)
    BY <1>2, <1>3, ConcatProperties
  <2> QED BY <1>1, <1>2, <1>3, <2>1
<1>8. ASSUME NEW x PROVE In(a \o b, x) <=> In(s, x) /\ x # s[i]
  <2>1. In(a \o b, x) => In(s, x) /\ x # s[i]
    <3> SUFFICES ASSUME In(a \o b, x) PROVE In(s, x) /\ x # s[i]
      OBVIOUS
    <3>1. PICK j \in 1 .. i - 1 \cup i + 1 .. Len(s) : s[j] = x
      BY <1>2, <1>3, <1>6
    <3>2. j \in DOMAIN s /\ j # i
      BY <1>1
    <3> QED BY <3>1, <3>2 DEF In, Distinct
  <2>2. ASSUME In(s, x), x # s[i] PROVE In(a \o b, x)
    <3>1. PICK j \in 1 .. Len(s) : s[j] = x /\ j # i
      BY <1>1, <2>2 DEF In
    <3>2. j \in 1 .. i - 1 \/ j \in i + 1 .. Len(s)
      BY <1>1, <3>1
    <3> QED BY <1>2, <1>3, <1>6, <3>1, <3>2
  <2> QED BY <2>1, <2>2
<1> QED BY <1>4, <1>6, <1>7, <1>8

\* A list without a member.
LEMMA Removed ==
  ASSUME NEW T, NEW s \in Seq(T), Distinct(s), NEW e
  PROVE  /\ RemoveFirst(s, e) \in Seq(T) /\ Distinct(RemoveFirst(s, e))
         /\ In(s, e) => Len(RemoveFirst(s, e)) = Len(s) - 1
         /\ \A x : In(RemoveFirst(s, e), x) <=> In(s, x) /\ x # e
<1>1. Len(s) \in Nat /\ DOMAIN s = 1 .. Len(s)
  BY LenProperties
<1>2. CASE ~ In(s, e)
  <2>1. RemoveFirst(s, e) = s
    BY <1>1, <1>2 DEF RemoveFirst, In
  <2> QED BY <1>2, <2>1
<1>3. CASE In(s, e)
  <2> DEFINE I == {i \in 1 .. Len(s) : s[i] = e}
  <2>1. I \subseteq Nat /\ I # {}
    BY <1>1, <1>3 DEF In
  <2>2. RemoveFirst(s, e) = RemoveAt(s, Min(I))
    BY <2>1 DEF RemoveFirst, SelectInSeq
  <2>3. Min(I) \in I
    <3> HIDE DEF I
    <3> QED BY <2>1, Least DEF Min
  <2>4. PICK k \in DOMAIN s : k = Min(I) /\ s[k] = e
    BY <1>1, <2>3
  <2>5. RemoveFirst(s, e) = RemoveAt(s, k)
    BY <2>2, <2>4
  <2>6. s[k] = e
    BY <2>4
  <2> QED BY <1>3, <2>5, <2>6, TakenOut
<1> QED BY <1>2, <1>3

\* A list with a new member before the place i.
LEMMA Inserted ==
  ASSUME NEW T, NEW s \in Seq(T), Distinct(s), NEW e \in T, ~ In(s, e), NEW i \in 1 .. Len(s) + 1
  PROVE  /\ InsertAt(s, i, e) \in Seq(T) /\ Distinct(InsertAt(s, i, e))
         /\ \A x : In(InsertAt(s, i, e), x) <=> In(s, x) \/ x = e
<1> DEFINE a == SubSeq(s, 1, i - 1)
           b == SubSeq(s, i, Len(s))
           m == a \o <<e>>
<1>1. Len(s) \in Nat /\ DOMAIN s = 1 .. Len(s)
  BY LenProperties
<1>2. /\ a \in Seq(T) /\ Distinct(a)
      /\ \A x : In(a, x) <=> \E j \in 1 .. i - 1 : s[j] = x
  <2>1. 1 \in Nat \ {0} /\ i - 1 \in Nat /\ 1 <= (i - 1) + 1 /\ i - 1 <= Len(s)
    BY <1>1
  <2> QED BY <2>1, Part
<1>3. /\ b \in Seq(T) /\ Distinct(b)
      /\ \A x : In(b, x) <=> \E j \in i .. Len(s) : s[j] = x
  <2>1. i \in Nat \ {0} /\ i <= Len(s) + 1 /\ Len(s) <= Len(s)
    BY <1>1
  <2> QED BY <1>1, <2>1, Part
<1>4. InsertAt(s, i, e) = m \o b
  BY DEF InsertAt
<1> HIDE DEF a, b
<1>5. /\ <<e>> \in Seq(T) /\ DOMAIN <<e>> = {1} /\ <<e>>[1] = e
  OBVIOUS
<1>6. Distinct(<<e>>) /\ \A x : In(<<e>>, x) <=> x = e
  BY <1>5 DEF Distinct, In
<1>7. \A j \in DOMAIN a, k \in DOMAIN <<e>> : a[j] # <<e>>[k]
  <2> SUFFICES ASSUME NEW j \in DOMAIN a, a[j] = e PROVE FALSE
    BY <1>5
  <2>1. In(a, e)
    BY DEF In
  <2>2. PICK l \in 1 .. i - 1 : s[l] = e
    BY <1>2, <2>1
  <2>3. l \in DOMAIN s
    BY <1>1
  <2> QED BY <2>2, <2>3 DEF In
<1>8. m \in Seq(T) /\ Distinct(m) /\ \A x : In(m, x) <=> In(a, x) \/ x = e
  <2>1. /\ a \o <<e>> \in Seq(T) /\ Distinct(a \o <<e>>)
        /\ \A x : In(a \o <<e>>, x) <=> In(a, x) \/ In(<<e>>, x)
    BY <1>2, <1>5, <1>6, <1>7, Joined
  <2> QED BY <1>6, <2>1
<1> HIDE DEF m
<1>9. \A j \in DOMAIN m, k \in DOMAIN b : m[j] # b[k]
  <2> SUFFICES ASSUME NEW j \in DOMAIN m, NEW k \in DOMAIN b, m[j] = b[k] PROVE FALSE
    OBVIOUS
  <2>1. In(m, m[j]) /\ In(b, m[j])
    BY DEF In
  <2>2. PICK q \in i .. Len(s) : s[q] = m[j]
    BY <1>3, <2>1
  <2>3. m[j] # e
    BY <1>1, <2>2 DEF In
  <2>4. PICK l \in 1 .. i - 1 : s[l] = m[j]
    BY <1>2, <1>8, <2>1, <2>3
  <2> QED BY <1>1, <2>2, <2>4 DEF Distinct
<1>10. /\ m \o b \in Seq(T) /\ Distinct(m \o b)
       /\ \A x : In(m \o b, x) <=> In(m, x) \/ In(b, x)
  BY <1>3, <1>8, <1>9, Joined
<1>11. ASSUME NEW x PROVE In(m \o b, x) <=> In(s, x) \/ x = e
  <2>1. In(s, x) <=> In(a, x) \/ In(b, x)
    <3>1. \A j \in 1 .. Len(s) : j \in 1 .. i - 1 \/ j \in i .. Len(s)
      BY <1>1
    <3>2. 1 .. i - 1 \subseteq DOMAIN s /\ i .. Len(s) \subseteq DOMAIN s
      BY <1>1
    <3> QED BY <1>1, <1>2, <1>3, <3>1, <3>2 DEF In
  <2> QED BY <1>8, <1>10, <2>1
<1> QED BY <1>4, <1>10, <1>11

-----------------------------------------------------------------------------
(* The panel: its operations.                                              *)

Plots == [name : 0 .. MaxGraphs - 1, main : Seq(PanelSignals), alter : Seq(PanelSignals)]

\* A graph: a BOOL signal is never on the second axis.
PlotOK(q) ==
  /\ q \in Plots
  /\ Distinct(q.main) /\ Distinct(q.alter)
  /\ \A x \in BoolSignals : ~ In(q.alter, x)

\* Places of graphs.
PlacesOK(q, n) == q \in Seq(1 .. n) /\ Distinct(q)

PanelOK(p) ==
  /\ p \in [obj : Seq(Plots), graphObj : Seq(Nat), split : Seq(Nat), sel : Nat]
  /\ \A g \in DOMAIN p.obj : PlotOK(p.obj[g])
  /\ PlacesOK(p.graphObj, Len(p.obj)) /\ PlacesOK(p.split, Len(p.obj))
  /\ p.sel \in 0 .. Len(p.obj)
  /\ Len(p.graphObj) <= Len(p.obj) /\ Len(p.obj) <= MaxGraphs

\* r is p with q for the graph g.
Put(r, p, g, q) ==
  /\ r.obj = [p.obj EXCEPT ![g] = q]
  /\ r.graphObj = p.graphObj /\ r.split = p.split /\ r.sel = p.sel

LEMMA Domains ==
  ASSUME NEW p, PanelOK(p)
  PROVE  /\ Len(p.obj) \in Nat /\ DOMAIN p.obj = 1 .. Len(p.obj)
         /\ Len(p.graphObj) \in Nat /\ DOMAIN p.graphObj = 1 .. Len(p.graphObj)
         /\ Len(p.split) \in Nat /\ DOMAIN p.split = 1 .. Len(p.split)
BY LenProperties DEF PanelOK

LEMMA PlotPut ==
  ASSUME NEW p, PanelOK(p), NEW g \in DOMAIN p.obj, NEW q, PlotOK(q)
  PROVE  \E r : /\ r = [p EXCEPT !.obj[g] = q] /\ PanelOK(r) /\ Put(r, p, g, q)
                /\ Len(r.obj) = Len(p.obj)
<1> DEFINE o == [p.obj EXCEPT ![g] = q]
           r == [p EXCEPT !.obj = o]
<1>1. p.obj \in Seq(Plots) /\ q \in Plots
  BY DEF PanelOK, PlotOK
<1>2. o \in Seq(Plots) /\ Len(o) = Len(p.obj)
  BY <1>1
<1>3. \A h \in DOMAIN o : PlotOK(o[h])
  BY <1>1 DEF PanelOK
<1>4. /\ r.obj = o /\ r.graphObj = p.graphObj /\ r.split = p.split /\ r.sel = p.sel
      /\ r \in [obj : Seq(Plots), graphObj : Seq(Nat), split : Seq(Nat), sel : Nat]
  BY <1>2 DEF PanelOK
<1>5. [p EXCEPT !.obj[g] = q] = r
  OBVIOUS
<1> HIDE DEF r
<1>6. PanelOK(r)
  BY <1>2, <1>3, <1>4 DEF PanelOK
<1>7. Put(r, p, g, q)
  BY <1>4 DEF Put
<1> QED BY <1>2, <1>4, <1>5, <1>6, <1>7

LEMMA Pushed ==
  ASSUME NEW T, NEW m \in Seq(T), Distinct(m), NEW s \in T, ~ In(m, s)
  PROVE  /\ <<s>> \o m \in Seq(T) /\ Distinct(<<s>> \o m)
         /\ \A x : In(<<s>> \o m, x) <=> In(m, x) \/ x = s
<1>1. <<s>> \in Seq(T) /\ DOMAIN <<s>> = {1} /\ <<s>>[1] = s
  OBVIOUS
<1>2. Distinct(<<s>>) /\ \A x : In(<<s>>, x) <=> x = s
  BY <1>1 DEF Distinct, In
<1>3. \A i \in DOMAIN <<s>>, j \in DOMAIN m : <<s>>[i] # m[j]
  BY <1>1 DEF In
<1>4. /\ <<s>> \o m \in Seq(T) /\ Distinct(<<s>> \o m)
      /\ \A x : In(<<s>> \o m, x) <=> In(<<s>>, x) \/ In(m, x)
  BY <1>1, <1>2, <1>3, Joined
<1> QED BY <1>2, <1>4

LEMMA Has ==
  ASSUME NEW T, NEW m \in Seq(T), NEW s
  PROVE  Contains(m, s) <=> In(m, s)
BY LenProperties DEF Contains, In

\* The graph q is old with s in front of its first axis, if it is not there.
Pushes(q, old, s) ==
  /\ q.alter = old.alter /\ q.name = old.name
  /\ q.main = IF In(old.main, s) THEN old.main ELSE <<s>> \o old.main
  /\ \A x : In(q.main, x) <=> In(old.main, x) \/ x = s

LEMMA SignalPut ==
  ASSUME NEW p, PanelOK(p), NEW g \in DOMAIN p.obj, NEW s \in PanelSignals
  PROVE  \E q : /\ PlotOK(q) /\ WithSignal(p, g, s) = [p EXCEPT !.obj[g] = q]
                /\ Pushes(q, p.obj[g], s)
<1> DEFINE old == p.obj[g]
           m == IF In(old.main, s) THEN old.main ELSE <<s>> \o old.main
           q == [old EXCEPT !.main = m]
<1>1. PlotOK(old)
  BY DEF PanelOK
<1>2. Contains(old.main, s) <=> In(old.main, s)
  BY <1>1, Has DEF PlotOK, Plots
<1>3. WithSignal(p, g, s) = [p EXCEPT !.obj[g] = q]
  BY <1>2 DEF WithSignal
<1> HIDE DEF old
<1>7. m = IF In(old.main, s) THEN old.main ELSE <<s>> \o old.main
  OBVIOUS
<1>4. /\ m \in Seq(PanelSignals) /\ Distinct(m)
      /\ \A x : In(m, x) <=> In(old.main, x) \/ x = s
  BY <1>1, Pushed DEF PlotOK, Plots
<1> HIDE DEF m
<1>5. q.main = m /\ q.alter = old.alter /\ q.name = old.name /\ q \in Plots
  BY <1>1, <1>4 DEF PlotOK, Plots
<1>6. PlotOK(q)
  BY <1>1, <1>4, <1>5 DEF PlotOK
<1> HIDE DEF q
<1> QED BY <1>3, <1>4, <1>5, <1>6, <1>7 DEF old, Pushes

LEMMA AlterPut ==
  ASSUME NEW p, PanelOK(p), NEW g \in DOMAIN p.obj, NEW s \in PanelSignals
  PROVE  \E q : /\ PlotOK(q) /\ WithAlterSignal(p, g, s) = [p EXCEPT !.obj[g] = q]
                /\ q.main = p.obj[g].main
                /\ \A x : In(q.alter, x) <=> In(p.obj[g].alter, x) \/ (x = s /\ s \notin BoolSignals)
<1> DEFINE old == p.obj[g]
           m == IF s \in BoolSignals \/ In(old.alter, s) THEN old.alter ELSE <<s>> \o old.alter
           q == [old EXCEPT !.alter = m]
<1>1. PlotOK(old)
  BY DEF PanelOK
<1>2. Contains(old.alter, s) <=> In(old.alter, s)
  BY <1>1, Has DEF PlotOK, Plots
<1>3. WithAlterSignal(p, g, s) = [p EXCEPT !.obj[g] = q]
  BY <1>2 DEF WithAlterSignal
<1> HIDE DEF old
<1>4. /\ m \in Seq(PanelSignals) /\ Distinct(m)
      /\ \A x : In(m, x) <=> In(old.alter, x) \/ (x = s /\ s \notin BoolSignals)
  <2>1. old.alter \in Seq(PanelSignals) /\ Distinct(old.alter)
    BY <1>1 DEF PlotOK, Plots
  <2>2. CASE s \in BoolSignals \/ In(old.alter, s)
    <3>1. m = old.alter
      BY <2>2
    <3>2. \A x : x = s /\ s \notin BoolSignals => In(old.alter, x)
      BY <2>2
    <3> HIDE DEF m
    <3>3. \A x : In(m, x) <=> In(old.alter, x)
      BY <3>1
    <3> QED BY <2>1, <3>1, <3>2, <3>3
  <2>3. CASE s \notin BoolSignals /\ ~ In(old.alter, s)
    <3>1. m = <<s>> \o old.alter
      BY <2>3
    <3> QED BY <2>1, <2>3, <3>1, Pushed
  <2> QED BY <2>2, <2>3
<1> HIDE DEF m
<1>5. q.alter = m /\ q.main = old.main /\ q.name = old.name /\ q \in Plots
  BY <1>1, <1>4 DEF PlotOK, Plots
<1>6. PlotOK(q)
  BY <1>1, <1>4, <1>5 DEF PlotOK
<1> HIDE DEF q
<1> QED BY <1>3, <1>4, <1>5, <1>6 DEF old

LEMMA SignalTaken ==
  ASSUME NEW p, PanelOK(p), NEW g \in DOMAIN p.obj, NEW s
  PROVE  \E q : /\ PlotOK(q) /\ WithoutSignal(p, g, s) = [p EXCEPT !.obj[g] = q]
                /\ q.alter = p.obj[g].alter
                /\ \A x : In(q.main, x) <=> In(p.obj[g].main, x) /\ x # s
<1> DEFINE old == p.obj[g]
           m == RemoveFirst(old.main, s)
           q == [old EXCEPT !.main = m]
<1>1. PlotOK(old)
  BY DEF PanelOK
<1>2. WithoutSignal(p, g, s) = [p EXCEPT !.obj[g] = q]
  BY DEF WithoutSignal
<1> HIDE DEF old
<1>3. m \in Seq(PanelSignals) /\ Distinct(m) /\ \A x : In(m, x) <=> In(old.main, x) /\ x # s
  BY <1>1, Removed DEF PlotOK, Plots
<1> HIDE DEF m
<1>4. q.main = m /\ q.alter = old.alter /\ q.name = old.name /\ q \in Plots
  BY <1>1, <1>3 DEF PlotOK, Plots
<1>5. PlotOK(q)
  BY <1>1, <1>3, <1>4 DEF PlotOK
<1> HIDE DEF q
<1> QED BY <1>2, <1>3, <1>4, <1>5 DEF old

LEMMA AlterTaken ==
  ASSUME NEW p, PanelOK(p), NEW g \in DOMAIN p.obj, NEW s
  PROVE  \E q : /\ PlotOK(q) /\ WithoutAlterSignal(p, g, s) = [p EXCEPT !.obj[g] = q]
                /\ q.main = p.obj[g].main
                /\ \A x : In(q.alter, x) <=> In(p.obj[g].alter, x) /\ x # s
<1> DEFINE old == p.obj[g]
           m == RemoveFirst(old.alter, s)
           q == [old EXCEPT !.alter = m]
<1>1. PlotOK(old)
  BY DEF PanelOK
<1>2. WithoutAlterSignal(p, g, s) = [p EXCEPT !.obj[g] = q]
  BY DEF WithoutAlterSignal
<1> HIDE DEF old
<1>3. m \in Seq(PanelSignals) /\ Distinct(m) /\ \A x : In(m, x) <=> In(old.alter, x) /\ x # s
  BY <1>1, Removed DEF PlotOK, Plots
<1> HIDE DEF m
<1>4. q.alter = m /\ q.main = old.main /\ q.name = old.name /\ q \in Plots
  BY <1>1, <1>3 DEF PlotOK, Plots
<1>5. PlotOK(q)
  BY <1>1, <1>3, <1>4 DEF PlotOK
<1> HIDE DEF q
<1> QED BY <1>2, <1>3, <1>4, <1>5 DEF old

\* New places behind the others.
LEMMA PlacesAdded ==
  ASSUME NEW k \in Nat, NEW n \in Nat, NEW q, PlacesOK(q, k),
         NEW new \in Seq(Nat), Len(new) = n, \A i \in 1 .. n : new[i] = k + i
  PROVE  /\ PlacesOK(q \o new, k + n) /\ Len(q \o new) = Len(q) + n
         /\ \A i \in 1 .. Len(q) : (q \o new)[i] = q[i]
         /\ \A i \in 1 .. n : (q \o new)[Len(q) + i] = k + i
         /\ \A x : In(q \o new, x) <=> In(q, x) \/ x \in k + 1 .. k + n
<1>1. q \in Seq(1 .. k + n) /\ Distinct(q)
  <2>1. 1 .. k \subseteq 1 .. k + n
    OBVIOUS
  <2> HIDE DEF In
  <2> QED BY <2>1 DEF PlacesOK
<1>2. /\ new \in Seq(1 .. k + n) /\ Len(new) = n /\ DOMAIN new = 1 .. n
      /\ \A i \in 1 .. n : new[i] = k + i
  <2>1. DOMAIN new = 1 .. n /\ \A i \in 1 .. n : new[i] \in 1 .. k + n
    BY LenProperties
  <2> QED BY <2>1
<1>3. Distinct(new) /\ \A x : In(new, x) <=> x \in k + 1 .. k + n
  <2>1. Distinct(new)
    BY <1>2 DEF Distinct
  <2>2. ASSUME NEW x PROVE In(new, x) <=> x \in k + 1 .. k + n
    <3>1. In(new, x) => x \in k + 1 .. k + n
      BY <1>2 DEF In
    <3>2. ASSUME x \in k + 1 .. k + n PROVE In(new, x)
      <4>1. x - k \in 1 .. n /\ new[x - k] = x
        BY <1>2, <3>2
      <4> QED BY <1>2, <4>1 DEF In
    <3> QED BY <3>1, <3>2
  <2> QED BY <2>1, <2>2
<1>4. \A i \in DOMAIN q, j \in DOMAIN new : q[i] # new[j]
  <2>1. \A i \in DOMAIN q : q[i] \in 1 .. k
    BY DEF PlacesOK
  <2> QED BY <1>2, <2>1
<1>5. /\ q \o new \in Seq(1 .. k + n) /\ Distinct(q \o new)
      /\ \A x : In(q \o new, x) <=> In(q, x) \/ In(new, x)
  <2>1. PICK S : S = 1 .. k + n
    OBVIOUS
  <2>2. q \in Seq(S) /\ new \in Seq(S)
    BY <1>1, <1>2, <2>1
  <2>3. /\ q \o new \in Seq(S) /\ Distinct(q \o new)
        /\ \A x : In(q \o new, x) <=> In(q, x) \/ In(new, x)
    BY <1>1, <1>3, <1>4, <2>2, Joined
  <2> QED BY <2>1, <2>3
<1>6. /\ Len(q) \in Nat /\ Len(q \o new) = Len(q) + n
      /\ \A i \in 1 .. Len(q) : (q \o new)[i] = q[i]
      /\ \A i \in 1 .. n : (q \o new)[Len(q) + i] = k + i
  <2>1. Len(q) \in Nat
    BY <1>1
  <2>2. /\ Len(q \o new) = Len(q) + Len(new)
        /\ \A i \in 1 .. Len(q) + Len(new) :
             (q \o new)[i] = IF i <= Len(q) THEN q[i] ELSE new[i - Len(q)]
    BY <1>1, <1>2, ConcatProperties
  <2>3. \A i \in 1 .. Len(q) : (q \o new)[i] = q[i]
    BY <1>2, <2>1, <2>2
  <2>4. ASSUME NEW i \in 1 .. n PROVE (q \o new)[Len(q) + i] = k + i
    <3>1. Len(q) + i \in 1 .. Len(q) + Len(new) /\ ~(Len(q) + i <= Len(q)) /\ Len(q) + i - Len(q) = i
      BY <1>2, <2>1
    <3> QED BY <1>2, <2>2, <3>1
  <2> QED BY <1>2, <2>1, <2>2, <2>3, <2>4
<1> QED BY <1>3, <1>5, <1>6 DEF PlacesOK

\* r is p with n more graphs: they are empty, and behind the others.
Enlarged(r, p, n) ==
  LET k == Len(p.obj)
  IN  /\ Len(r.obj) = k + n /\ r.sel = k + n
      /\ \A g \in 1 .. k : r.obj[g] = p.obj[g]
      /\ \A g \in k + 1 .. k + n : r.obj[g].main = <<>> /\ r.obj[g].alter = <<>>
      /\ Len(r.graphObj) = Len(p.graphObj) + n /\ Len(r.split) = Len(p.split) + n
      /\ \A i \in 1 .. Len(p.graphObj) : r.graphObj[i] = p.graphObj[i]
      /\ \A i \in 1 .. Len(p.split) : r.split[i] = p.split[i]
      /\ \A i \in 1 .. n : /\ r.graphObj[Len(p.graphObj) + i] = k + i
                           /\ r.split[Len(p.split) + i] = k + i
      /\ \A x : In(r.split, x) <=> In(p.split, x) \/ x \in k + 1 .. k + n

LEMMA GraphsAdded ==
  ASSUME NEW p, PanelOK(p), NEW n \in Nat \ {0}, Len(p.obj) + n <= MaxGraphs
  PROVE  PanelOK(WithGraphs(p, n)) /\ Enlarged(WithGraphs(p, n), p, n)
<1> DEFINE k == Len(p.obj)
           new == [i \in 1 .. n |-> k + i]
           made == [i \in 1 .. n |-> [name |-> Len(p.graphObj) + i - 1, main |-> <<>>, alter |-> <<>>]]
           r == WithGraphs(p, n)
<1>1. /\ k \in Nat /\ n \in Nat /\ DOMAIN p.obj = 1 .. k /\ Len(p.graphObj) \in Nat
      /\ Len(p.split) \in Nat /\ MaxGraphs \in Nat
      /\ Len(p.graphObj) <= k /\ k + n <= MaxGraphs /\ p.obj \in Seq(Plots)
      /\ PlacesOK(p.graphObj, k) /\ PlacesOK(p.split, k)
      /\ \A g \in 1 .. k : PlotOK(p.obj[g])
  BY Domains, PanelAssumption DEF PanelOK, PanelAssumption
<1>2. r = [obj |-> p.obj \o made, graphObj |-> p.graphObj \o new, split |-> p.split \o new,
           sel |-> k + n]
  BY DEF WithGraphs
<1> HIDE DEF r
<1>16. new \in Seq(Nat) /\ Len(new) = n /\ \A i \in 1 .. n : new[i] = k + i
  <2> HIDE DEF k
  <2>1. new = [i \in 1 .. n |-> k + i] /\ \A i \in 1 .. n : k + i \in Nat
    BY <1>1
  <2> HIDE DEF new
  <2> QED BY <1>1, <2>1
<1>3. PICK m : m = made
  OBVIOUS
<1>4. \A i \in 1 .. n : m[i] \in Plots /\ m[i].main = <<>> /\ m[i].alter = <<>>
  <2> TAKE i \in 1 .. n
  <2>1. m[i] = [name |-> Len(p.graphObj) + i - 1, main |-> <<>>, alter |-> <<>>]
    BY <1>3
  <2>2. Len(p.graphObj) + i - 1 \in 0 .. MaxGraphs - 1
    BY <1>1
  <2>3. <<>> \in Seq(PanelSignals)
    OBVIOUS
  <2> QED BY <2>1, <2>2, <2>3 DEF Plots
<1>5. \A i \in 1 .. n : PlotOK(m[i])
  <2>1. Distinct(<<>>) /\ \A x : ~ In(<<>>, x)
    BY DEF Distinct, In
  <2> QED BY <1>4, <2>1 DEF PlotOK
<1>6. m \in Seq(Plots) /\ Len(m) = n
  <2>1. m = [i \in 1 .. n |-> m[i]]
    BY <1>3
  <2> HIDE DEF made
  <2> QED BY <1>1, <1>4, <2>1
<1>7. /\ p.obj \o m \in Seq(Plots) /\ Len(p.obj \o m) = k + n /\ DOMAIN (p.obj \o m) = 1 .. k + n
      /\ \A g \in 1 .. k : (p.obj \o m)[g] = p.obj[g]
      /\ \A g \in k + 1 .. k + n : g - k \in 1 .. n /\ (p.obj \o m)[g] = m[g - k]
  BY <1>1, <1>6
<1>8. \A g \in 1 .. k + n : PlotOK((p.obj \o m)[g])
  <2> TAKE g \in 1 .. k + n
  <2>1. g \in 1 .. k \/ g \in k + 1 .. k + n
    BY <1>1
  <2> QED BY <1>1, <1>5, <1>7, <2>1
<1>9. r.obj = p.obj \o m /\ r.graphObj = p.graphObj \o new /\ r.split = p.split \o new /\ r.sel = k + n
  BY <1>2, <1>3
<1>10. /\ PlacesOK(r.graphObj, k + n) /\ Len(r.graphObj) = Len(p.graphObj) + n
       /\ \A i \in 1 .. Len(p.graphObj) : r.graphObj[i] = p.graphObj[i]
       /\ \A i \in 1 .. n : r.graphObj[Len(p.graphObj) + i] = k + i
  <2> DEFINE q == p.graphObj
  <2> HIDE DEF k, new
  <2>1. k \in Nat /\ n \in Nat /\ PlacesOK(q, k)
    BY <1>1
  <2> HIDE DEF q
  <2>2. /\ PlacesOK(q \o new, k + n) /\ Len(q \o new) = Len(q) + n
        /\ \A i \in 1 .. Len(q) : (q \o new)[i] = q[i]
        /\ \A i \in 1 .. n : (q \o new)[Len(q) + i] = k + i
        /\ \A x : In(q \o new, x) <=> In(q, x) \/ x \in k + 1 .. k + n
    BY <1>16, <2>1, PlacesAdded
  <2> QED BY <1>9, <2>2 DEF q
<1>11. /\ PlacesOK(r.split, k + n) /\ Len(r.split) = Len(p.split) + n
       /\ \A i \in 1 .. Len(p.split) : r.split[i] = p.split[i]
       /\ \A i \in 1 .. n : r.split[Len(p.split) + i] = k + i
       /\ \A x : In(r.split, x) <=> In(p.split, x) \/ x \in k + 1 .. k + n
  <2> DEFINE q == p.split
  <2> HIDE DEF k, new
  <2>1. k \in Nat /\ n \in Nat /\ PlacesOK(q, k)
    BY <1>1
  <2> HIDE DEF q
  <2>2. /\ PlacesOK(q \o new, k + n) /\ Len(q \o new) = Len(q) + n
        /\ \A i \in 1 .. Len(q) : (q \o new)[i] = q[i]
        /\ \A i \in 1 .. n : (q \o new)[Len(q) + i] = k + i
        /\ \A x : In(q \o new, x) <=> In(q, x) \/ x \in k + 1 .. k + n
    BY <1>16, <2>1, PlacesAdded
  <2> QED BY <1>9, <2>2 DEF q
<1>12. r \in [obj : Seq(Plots), graphObj : Seq(Nat), split : Seq(Nat), sel : Nat]
  <2>1. r.graphObj \in Seq(Nat) /\ r.split \in Seq(Nat) /\ k + n \in Nat
    <3>1. 1 .. k + n \subseteq Nat
      OBVIOUS
    <3> QED BY <1>1, <1>10, <1>11, <3>1, SMTT(60) DEF PlacesOK
  <2>2. r = [obj |-> r.obj, graphObj |-> r.graphObj, split |-> r.split, sel |-> r.sel]
    BY <1>2
  <2> HIDE DEF k, made, new
  <2> QED BY <1>7, <1>9, <2>1, <2>2
<1> HIDE DEF k, new, made
<1>13. PanelOK(r)
  <2>1. Len(r.obj) = k + n /\ DOMAIN r.obj = 1 .. k + n /\ r.sel = k + n /\ k + n \in 0 .. k + n
    BY <1>1, <1>7, <1>9
  <2>2. Len(r.graphObj) <= Len(r.obj)
    BY <1>1, <1>10, <2>1
  <2> QED BY <1>1, <1>8, <1>9, <1>10, <1>11, <1>12, <2>1, <2>2 DEF PanelOK
<1>14. \A g \in k + 1 .. k + n : r.obj[g].main = <<>> /\ r.obj[g].alter = <<>>
  <2> TAKE g \in k + 1 .. k + n
  <2>1. g - k \in 1 .. n /\ r.obj[g] = m[g - k]
    BY <1>7, <1>9
  <2> QED BY <1>4, <2>1
<1>15. /\ Len(r.obj) = k + n /\ r.sel = k + n
       /\ \A g \in 1 .. k : r.obj[g] = p.obj[g]
  BY <1>7, <1>9
<1> QED BY <1>10, <1>11, <1>13, <1>14, <1>15 DEF k, r, Enlarged

\* x is shown on some graph of the splitter.
ShownIn(p, x) ==
  \E g : In(p.split, g) /\ (In(p.obj[g].main, x) \/ In(p.obj[g].alter, x))

LEMMA OfRange ==
  ASSUME NEW q, NEW x
  PROVE  x \in Range(q) <=> In(q, x)
BY DEF Range, In

LEMMA ShownIs ==
  ASSUME NEW p, NEW x
  PROVE  x \in Shown(p) <=> ShownIn(p, x)
<1>1. x \in Shown(p) <=>
        \E g \in Range(p.split) : \/ x \in Range(p.obj[g].main)
                                        \/ x \in Range(p.obj[g].alter)
  BY Zenon DEF Shown
<1>2. \A g : /\ x \in Range(p.obj[g].main) <=> In(p.obj[g].main, x)
             /\ x \in Range(p.obj[g].alter) <=> In(p.obj[g].alter, x)
             /\ g \in Range(p.split) <=> In(p.split, g)
  BY OfRange, Zenon
<1> QED BY <1>1, <1>2, Zenon DEF ShownIn

LEMMA InSplit ==
  ASSUME NEW p, PanelOK(p), NEW g, In(p.split, g) \/ In(p.graphObj, g)
  PROVE  g \in DOMAIN p.obj /\ g \in Nat
<1>1. \A i \in DOMAIN p.split : p.split[i] \in 1 .. Len(p.obj)
  BY DEF PanelOK, PlacesOK
<1>2. \A i \in DOMAIN p.graphObj : p.graphObj[i] \in 1 .. Len(p.obj)
  BY DEF PanelOK, PlacesOK
<1> QED BY <1>1, <1>2, Domains DEF In

\* What a graph shows is shown again when it is put on one of its axes.
LEMMA StillShown ==
  ASSUME NEW p, PanelOK(p), NEW r, r.split = p.split, NEW g \in DOMAIN p.obj,
         \A h \in DOMAIN p.obj \ {g} : r.obj[h] = p.obj[h],
         NEW x, ShownIn(p, x),
         In(p.obj[g].main, x) \/ In(p.obj[g].alter, x) =>
           In(r.obj[g].main, x) \/ In(r.obj[g].alter, x)
  PROVE  ShownIn(r, x)
<1>1. PICK h : In(p.split, h) /\ (In(p.obj[h].main, x) \/ In(p.obj[h].alter, x))
  BY DEF ShownIn
<1>2. h \in DOMAIN p.obj
  BY <1>1, InSplit
<1>3. In(r.obj[h].main, x) \/ In(r.obj[h].alter, x)
  BY <1>1, <1>2
<1>4. In(r.split, h)
  BY <1>1
<1> QED BY <1>3, <1>4 DEF ShownIn

\* What Put leaves.
LEMMA PutFacts ==
  ASSUME NEW p, PanelOK(p), NEW g \in DOMAIN p.obj, NEW q, NEW r, Put(r, p, g, q)
  PROVE  /\ r.obj[g] = q /\ DOMAIN r.obj = DOMAIN p.obj
         /\ \A h \in DOMAIN p.obj \ {g} : r.obj[h] = p.obj[h]
         /\ r.graphObj = p.graphObj /\ r.split = p.split /\ r.sel = p.sel
BY DEF Put

\* From one axis to the other.
LEMMA ToggledKeeps ==
  ASSUME NEW p, PanelOK(p), NEW g \in DOMAIN p.obj, NEW s \in PanelSignals
  PROVE  /\ PanelOK(Toggled(p, g, s))
         /\ \A x : ShownIn(p, x) => ShownIn(Toggled(p, g, s), x)
<1> DEFINE t == Toggled(p, g, s)
<1>1. Contains(p.obj[g].main, s) <=> In(p.obj[g].main, s)
  <2>1. p.obj[g].main \in Seq(PanelSignals)
    BY DEF PanelOK, PlotOK, Plots
  <2> QED BY <2>1, Has
<1>2. CASE In(p.obj[g].main, s) /\ s \in BoolSignals
  <2>1. t = p
    BY <1>1, <1>2 DEF Toggled
  <2> QED BY <2>1
<1>3. CASE In(p.obj[g].main, s) /\ s \notin BoolSignals
  <2>1. PICK q : /\ PlotOK(q) /\ WithoutSignal(p, g, s) = [p EXCEPT !.obj[g] = q]
                 /\ q.alter = p.obj[g].alter
                 /\ \A x : In(q.main, x) <=> In(p.obj[g].main, x) /\ x # s
    BY SignalTaken
  <2>2. PICK m : /\ m = WithoutSignal(p, g, s) /\ PanelOK(m) /\ Put(m, p, g, q)
    BY <2>1, PlotPut
  <2>3. /\ m.obj[g] = q /\ DOMAIN m.obj = DOMAIN p.obj /\ m.split = p.split
        /\ \A h \in DOMAIN p.obj \ {g} : m.obj[h] = p.obj[h]
    BY <2>2, PutFacts
  <2>4. PICK u : /\ PlotOK(u) /\ WithAlterSignal(m, g, s) = [m EXCEPT !.obj[g] = u]
                 /\ u.main = m.obj[g].main
                 /\ \A x : In(u.alter, x) <=> In(m.obj[g].alter, x) \/ (x = s /\ s \notin BoolSignals)
    <3>1. PanelOK(m) /\ g \in DOMAIN m.obj
      BY <2>2, <2>3
    <3> QED BY <3>1, AlterPut, Zenon
  <2>5. PICK r : /\ r = WithAlterSignal(m, g, s) /\ PanelOK(r) /\ Put(r, m, g, u)
    BY <2>2, <2>3, <2>4, PlotPut
  <2>6. /\ r.obj[g] = u /\ r.split = p.split
        /\ \A h \in DOMAIN p.obj \ {g} : r.obj[h] = p.obj[h]
    BY <2>2, <2>3, <2>5, PutFacts
  <2>7. t = r
    BY <1>1, <1>3, <2>2, <2>5 DEF Toggled
  <2>8. ASSUME NEW x PROVE In(p.obj[g].main, x) \/ In(p.obj[g].alter, x) =>
                             In(r.obj[g].main, x) \/ In(r.obj[g].alter, x)
    BY <1>3, <2>1, <2>3, <2>4, <2>6
  <2>9. \A x : ShownIn(p, x) => ShownIn(r, x)
    BY <2>6, <2>8, StillShown
  <2> QED BY <2>5, <2>7, <2>9
<1>4. CASE ~ In(p.obj[g].main, s)
  <2>1. PICK q : /\ PlotOK(q) /\ WithoutAlterSignal(p, g, s) = [p EXCEPT !.obj[g] = q]
                 /\ q.main = p.obj[g].main
                 /\ \A x : In(q.alter, x) <=> In(p.obj[g].alter, x) /\ x # s
    BY AlterTaken
  <2>2. PICK m : /\ m = WithoutAlterSignal(p, g, s) /\ PanelOK(m) /\ Put(m, p, g, q)
    BY <2>1, PlotPut
  <2>3. /\ m.obj[g] = q /\ DOMAIN m.obj = DOMAIN p.obj /\ m.split = p.split
        /\ \A h \in DOMAIN p.obj \ {g} : m.obj[h] = p.obj[h]
    BY <2>2, PutFacts
  <2>4. PICK u : /\ PlotOK(u) /\ WithSignal(m, g, s) = [m EXCEPT !.obj[g] = u]
                 /\ Pushes(u, m.obj[g], s)
    <3>1. PanelOK(m) /\ g \in DOMAIN m.obj
      BY <2>2, <2>3
    <3> QED BY <3>1, SignalPut, Zenon
  <2>5. PICK r : /\ r = WithSignal(m, g, s) /\ PanelOK(r) /\ Put(r, m, g, u)
    BY <2>2, <2>3, <2>4, PlotPut
  <2>6. /\ r.obj[g] = u /\ r.split = p.split
        /\ \A h \in DOMAIN p.obj \ {g} : r.obj[h] = p.obj[h]
    BY <2>2, <2>3, <2>5, PutFacts
  <2>7. t = r
    BY <1>1, <1>4, <2>2, <2>5 DEF Toggled
  <2>8. ASSUME NEW x PROVE In(p.obj[g].main, x) \/ In(p.obj[g].alter, x) =>
                             In(r.obj[g].main, x) \/ In(r.obj[g].alter, x)
    BY <1>4, <2>1, <2>3, <2>4, <2>6 DEF Pushes
  <2>9. \A x : ShownIn(p, x) => ShownIn(r, x)
    BY <2>6, <2>8, StillShown
  <2> QED BY <2>5, <2>7, <2>9
<1> QED BY <1>2, <1>3, <1>4

\* A label is taken off; whatever else its graph shows stays.
LEMMA OfLabelKeeps ==
  ASSUME NEW p, PanelOK(p), NEW g \in DOMAIN p.obj, NEW axis, NEW s
  PROVE  \E r : /\ r = OfLabel(p, g, axis, s) /\ PanelOK(r)
                /\ Len(r.obj) = Len(p.obj) /\ r.split = p.split
                /\ \A x : x # s /\ ShownIn(p, x) => ShownIn(r, x)
<1>1. CASE axis = "main"
  <2>1. PICK q : /\ PlotOK(q) /\ WithoutSignal(p, g, s) = [p EXCEPT !.obj[g] = q]
                 /\ q.alter = p.obj[g].alter
                 /\ \A x : In(q.main, x) <=> In(p.obj[g].main, x) /\ x # s
    BY SignalTaken
  <2>2. PICK r : /\ r = WithoutSignal(p, g, s) /\ PanelOK(r) /\ Put(r, p, g, q)
                 /\ Len(r.obj) = Len(p.obj)
    BY <2>1, PlotPut
  <2>3. r.obj[g] = q /\ r.split = p.split /\ \A h \in DOMAIN p.obj \ {g} : r.obj[h] = p.obj[h]
    BY <2>2, PutFacts
  <2>4. r = OfLabel(p, g, axis, s)
    BY <1>1, <2>2 DEF OfLabel
  <2>5. \A x : x # s /\ ShownIn(p, x) => ShownIn(r, x)
    BY <2>1, <2>3, StillShown
  <2> QED BY <2>2, <2>3, <2>4, <2>5
<1>2. CASE axis # "main"
  <2>1. PICK q : /\ PlotOK(q) /\ WithoutAlterSignal(p, g, s) = [p EXCEPT !.obj[g] = q]
                 /\ q.main = p.obj[g].main
                 /\ \A x : In(q.alter, x) <=> In(p.obj[g].alter, x) /\ x # s
    BY AlterTaken
  <2>2. PICK r : /\ r = WithoutAlterSignal(p, g, s) /\ PanelOK(r) /\ Put(r, p, g, q)
                 /\ Len(r.obj) = Len(p.obj)
    BY <2>1, PlotPut
  <2>3. r.obj[g] = q /\ r.split = p.split /\ \A h \in DOMAIN p.obj \ {g} : r.obj[h] = p.obj[h]
    BY <2>2, PutFacts
  <2>4. r = OfLabel(p, g, axis, s)
    BY <1>2, <2>2 DEF OfLabel
  <2>5. \A x : x # s /\ ShownIn(p, x) => ShownIn(r, x)
    BY <2>1, <2>3, StillShown
  <2> QED BY <2>2, <2>3, <2>4, <2>5
<1> QED BY <1>1, <1>2

\* A new graph with a signal.
LEMMA NewGraphKeeps ==
  ASSUME NEW p, PanelOK(p), Len(p.obj) + 1 <= MaxGraphs,
         NEW s \in PanelSignals, NEW q, q = WithGraph(p)
  PROVE  /\ PanelOK(WithSignal(q, q.sel, s))
         /\ ShownIn(WithSignal(q, q.sel, s), s)
         /\ \A x : ShownIn(p, x) => ShownIn(WithSignal(q, q.sel, s), x)
<1> DEFINE k == Len(p.obj)
<1>1. 1 \in Nat \ {0} /\ k \in Nat /\ DOMAIN p.obj = 1 .. k
  BY Domains
<1>2. /\ PanelOK(q) /\ Len(q.obj) = k + 1 /\ q.sel = k + 1
      /\ \A g \in 1 .. k : q.obj[g] = p.obj[g]
      /\ \A x : In(q.split, x) <=> In(p.split, x) \/ x \in k + 1 .. k + 1
  <2>1. q = WithGraphs(p, 1)
    BY DEF WithGraph
  <2>2. PanelOK(q) /\ Enlarged(q, p, 1)
    BY <1>1, <2>1, GraphsAdded
  <2> QED BY <2>2 DEF Enlarged
<1> HIDE DEF k
<1>3. q.sel \in DOMAIN q.obj /\ In(q.split, q.sel)
  BY <1>1, <1>2, Domains
<1>4. PICK u : /\ PlotOK(u) /\ WithSignal(q, q.sel, s) = [q EXCEPT !.obj[q.sel] = u]
               /\ Pushes(u, q.obj[q.sel], s)
  <2>1. PanelOK(q) /\ q.sel \in DOMAIN q.obj
    BY <1>2, <1>3
  <2> QED BY <2>1, SignalPut, Zenon
<1>5. PICK r : /\ r = WithSignal(q, q.sel, s) /\ PanelOK(r) /\ Put(r, q, q.sel, u)
  BY <1>2, <1>3, <1>4, PlotPut
<1>6. /\ r.obj[q.sel] = u /\ r.split = q.split
      /\ \A h \in DOMAIN q.obj \ {q.sel} : r.obj[h] = q.obj[h]
  BY <1>2, <1>3, <1>5, PutFacts
<1>7. ShownIn(r, s)
  BY <1>3, <1>4, <1>6 DEF ShownIn, Pushes
<1>8. ASSUME NEW x, ShownIn(p, x) PROVE ShownIn(r, x)
  <2>1. PICK h : In(p.split, h) /\ (In(p.obj[h].main, x) \/ In(p.obj[h].alter, x))
    BY <1>8 DEF ShownIn
  <2>2. h \in 1 .. k
    BY <1>1, <2>1, InSplit
  <2>3. h \in DOMAIN q.obj \ {q.sel} /\ q.obj[h] = p.obj[h] /\ In(r.split, h)
    BY <1>1, <1>2, <1>6, <2>1, <2>2, Domains
  <2>4. r.obj[h] = p.obj[h]
    BY <1>6, <2>3
  <2> QED BY <2>1, <2>3, <2>4 DEF ShownIn
<1> QED BY <1>5, <1>7, <1>8

\* The first graph of a name is found, if there is a graph of that name.
LEMMA NamePlace ==
  ASSUME NEW p, PanelOK(p), NEW g, In(p.graphObj, g)
  PROVE  OfName(p, p.obj[g].name) \in DOMAIN p.graphObj
<1> DEFINE I == {i \in 1 .. Len(p.graphObj) : p.obj[p.graphObj[i]].name = p.obj[g].name}
<1>1. Len(p.graphObj) \in Nat /\ DOMAIN p.graphObj = 1 .. Len(p.graphObj)
  BY Domains
<1>2. I \subseteq Nat /\ I # {}
  BY <1>1 DEF In
<1>3. OfName(p, p.obj[g].name) = Min(I)
  BY <1>2 DEF OfName, SelectInSeq
<1>4. Min(I) \in I
  <2> HIDE DEF I
  <2> QED BY <1>2, Least DEF Min
<1> QED BY <1>1, <1>3, <1>4

LEMMA FreedOK ==
  PlotOK(Freed)
<1>1. /\ Freed.name = 0 /\ Freed.main = <<>> /\ Freed.alter = <<>>
      /\ Freed \in [name : {0}, main : {<<>>}, alter : {<<>>}]
  BY DEF Freed
<1>2. 0 \in 0 .. MaxGraphs - 1 /\ <<>> \in Seq(PanelSignals)
  BY PanelAssumption DEF PanelAssumption
<1>3. Distinct(<<>>) /\ \A x : ~ In(<<>>, x)
  BY DEF Distinct, In
<1> QED BY <1>1, <1>2, <1>3 DEF PlotOK, Plots

LEMMA ClosedKeeps ==
  ASSUME NEW p, PanelOK(p), NEW g, In(p.graphObj, g), In(p.split, g)
  PROVE  PanelOK(Closed(p, g))
<1> DEFINE n == Len(p.obj)
           rest == RemoveAt(p.graphObj, OfName(p, p.obj[g].name))
           left1 == RemoveFirst(p.split, g)
           o == [p.obj EXCEPT ![g] = Freed]
           sel1 == SelAfter(p, g, rest)
           r == [p EXCEPT !.obj = o, !.graphObj = rest, !.split = left1, !.sel = sel1]
<1>1. Closed(p, g) = r
  BY DEF Closed
<1>2. /\ n \in Nat /\ DOMAIN p.obj = 1 .. n /\ g \in 1 .. n
      /\ p.obj \in Seq(Plots) /\ \A h \in 1 .. n : PlotOK(p.obj[h])
      /\ PlacesOK(p.graphObj, n) /\ PlacesOK(p.split, n) /\ p.sel \in 0 .. n
      /\ Len(p.graphObj) <= n /\ n <= MaxGraphs /\ Len(p.graphObj) \in Nat /\ MaxGraphs \in Nat
  BY Domains, InSplit, PanelAssumption DEF PanelOK, PanelAssumption
<1>3. PlacesOK(rest, n) /\ Len(rest) = Len(p.graphObj) - 1
  <2>1. OfName(p, p.obj[g].name) \in DOMAIN p.graphObj
    BY NamePlace
  <2>2. p.graphObj \in Seq(1 .. n) /\ Distinct(p.graphObj)
    BY <1>2 DEF PlacesOK
  <2> HIDE DEF n
  <2> QED BY <2>1, <2>2, TakenOut DEF PlacesOK
<1>4. PlacesOK(left1, n)
  <2>1. p.split \in Seq(1 .. n) /\ Distinct(p.split)
    BY <1>2 DEF PlacesOK
  <2> HIDE DEF n
  <2> QED BY <2>1, Removed DEF PlacesOK
<1>5. o \in Seq(Plots) /\ Len(o) = n /\ DOMAIN o = 1 .. n /\ \A h \in 1 .. n : PlotOK(o[h])
  <2>1. PlotOK(Freed) /\ Freed \in Plots
    BY FreedOK DEF PlotOK
  <2> QED BY <1>2, <2>1
<1> HIDE DEF rest, left1, o, n
<1>6. sel1 \in 0 .. n
  <2>1. Len(rest) > 1 => rest[1] \in 1 .. n
    <3>1. rest \in Seq(1 .. n) /\ Len(rest) \in Nat
      BY <1>2, <1>3 DEF PlacesOK
    <3>2. ASSUME Len(rest) > 1 PROVE 1 \in 1 .. Len(rest)
      BY <3>1, <3>2
    <3> QED BY <3>1, <3>2, ElementOfSeq
  <2> QED BY <1>2, <2>1 DEF SelAfter, NoGraph
<1> HIDE DEF sel1
<1>7. /\ r.obj = o /\ r.graphObj = rest /\ r.split = left1 /\ r.sel = sel1
      /\ r \in [obj : Seq(Plots), graphObj : Seq(Nat), split : Seq(Nat), sel : Nat]
  <2>1. rest \in Seq(Nat) /\ left1 \in Seq(Nat) /\ sel1 \in Nat
    <3>1. 1 .. n \subseteq Nat
      OBVIOUS
    <3> QED BY <1>2, <1>3, <1>4, <1>6, <3>1 DEF PlacesOK
  <2> QED BY <1>5, <2>1 DEF PanelOK
<1> HIDE DEF r
<1>8. PanelOK(r)
  BY <1>2, <1>3, <1>4, <1>5, <1>6, <1>7 DEF PanelOK
<1> QED BY <1>1, <1>8

LEMMA MovedKeeps ==
  ASSUME NEW p, PanelOK(p), NEW g, In(p.split, g), NEW index \in Int
  PROVE  PanelOK(Moved(p, g, index))
<1> DEFINE n == Len(p.obj)
           rest == RemoveFirst(p.split, g)
           at == IF index < 0 \/ index > Len(rest) THEN Len(rest) ELSE index
           new == InsertAt(rest, at + 1, g)
           r == [p EXCEPT !.split = new]
<1>1. Moved(p, g, index) = r
  BY DEF Moved
<1>2. n \in Nat /\ p.split \in Seq(1 .. n) /\ Distinct(p.split) /\ g \in 1 .. n
  BY Domains, InSplit DEF PanelOK, PlacesOK
<1>3. rest \in Seq(1 .. n) /\ Distinct(rest) /\ ~ In(rest, g)
  <2> HIDE DEF n
  <2> QED BY <1>2, Removed
<1>4. at + 1 \in 1 .. Len(rest) + 1
  <2>1. Len(rest) \in Nat
    BY <1>3, LenProperties
  <2> HIDE DEF rest
  <2> QED BY <2>1
<1> HIDE DEF rest, at
<1>5. new \in Seq(1 .. n) /\ Distinct(new)
  <2> HIDE DEF n
  <2> QED BY <1>2, <1>3, <1>4, Inserted
<1> HIDE DEF new
<1>6. new \in Seq(Nat)
  <2>1. 1 .. n \subseteq Nat
    OBVIOUS
  <2> QED BY <1>5, <2>1
<1>7. /\ r.obj = p.obj /\ r.graphObj = p.graphObj /\ r.split = new /\ r.sel = p.sel
      /\ r \in [obj : Seq(Plots), graphObj : Seq(Nat), split : Seq(Nat), sel : Nat]
  BY <1>6 DEF PanelOK
<1> HIDE DEF r
<1>8. PanelOK(r)
  BY <1>5, <1>7 DEF PanelOK, PlacesOK
<1> QED BY <1>1, <1>8

\* The index by name is a number, and that is enough.
LEMMA IndexIs ==
  ASSUME NEW p, PanelOK(p), NEW g
  PROVE  IndexByName(p, g) \in Int
<1> DEFINE I == {i \in 1 .. Len(p.split) : p.split[i] = p.graphObj[OfName(p, p.obj[g].name)]}
<1>1. IndexByName(p, g) = (IF I # {} THEN Min(I) ELSE 0) - 1
  BY DEF IndexByName, SelectInSeq
<1>2. I \subseteq Nat /\ (I # {} => Min(I) \in I)
  <2>1. I \subseteq Nat
    BY Domains
  <2> HIDE DEF I
  <2> QED BY <2>1, Least DEF Min
<1> HIDE DEF I
<1>3. CASE I = {}
  BY <1>1, <1>3
<1>4. CASE I # {}
  <2>1. Min(I) \in Nat
    BY <1>2, <1>4
  <2> QED BY <1>1, <1>4, <2>1
<1> QED BY <1>3, <1>4

LEMMA MovedBothKeeps ==
  ASSUME NEW p, PanelOK(p), NEW g, In(p.split, g)
  PROVE  PanelOK(MovedDn(p, g)) /\ PanelOK(MovedUp(p, g))
<1> DEFINE at == IndexByName(p, g)
<1>1. at \in Int
  BY IndexIs
<1> HIDE DEF at
<1>2. at - 1 \in Int /\ (IF at + 1 >= Len(p.graphObj) THEN 0 ELSE at + 1) \in Int
  BY <1>1
<1>3. MovedDn(p, g) = Moved(p, g, at - 1)
  BY DEF MovedDn, at
<1>4. MovedUp(p, g) =
        Moved(p, g, IF at + 1 >= Len(p.graphObj) THEN 0 ELSE at + 1)
  BY DEF MovedUp, at
<1> QED BY <1>2, <1>3, <1>4, MovedKeeps, Zenon

LEMMA SelectedKeeps ==
  ASSUME NEW p, PanelOK(p), NEW g, In(p.graphObj, g)
  PROVE  PanelOK([p EXCEPT !.sel = p.graphObj[OfName(p, p.obj[g].name)]])
<1> DEFINE h == p.graphObj[OfName(p, p.obj[g].name)]
           r == [p EXCEPT !.sel = h]
<1>1. h \in 0 .. Len(p.obj) /\ h \in Nat
  <2>1. OfName(p, p.obj[g].name) \in DOMAIN p.graphObj
    BY NamePlace
  <2>2. In(p.graphObj, h)
    BY <2>1 DEF In
  <2> HIDE DEF h
  <2>3. h \in DOMAIN p.obj /\ h \in Nat
    BY <2>2, InSplit, Zenon
  <2> QED BY <2>3, Domains
<1> HIDE DEF h
<1>2. /\ r.obj = p.obj /\ r.graphObj = p.graphObj /\ r.split = p.split /\ r.sel = h
      /\ r \in [obj : Seq(Plots), graphObj : Seq(Nat), split : Seq(Nat), sel : Nat]
  BY <1>1 DEF PanelOK
<1> HIDE DEF r
<1>3. PanelOK(r)
  BY <1>1, <1>2 DEF PanelOK
<1> QED BY <1>3 DEF r, h

-----------------------------------------------------------------------------
(* The panel: a layout is loaded.                                          *)

\* A panel that can have as many as top graphs, after d that were closed.
Fits(p, d, top) ==
  PanelOK(p) /\ Len(p.obj) = d + Len(p.graphObj) /\ Len(p.graphObj) <= top

LEMMA GrownFits ==
  ASSUME NEW d \in Nat, NEW top \in Nat, d + top <= MaxGraphs,
         NEW p, Fits(p, d, top), NEW section \in Nat, section < top
  PROVE  /\ Fits(Grown(p, section), d, top)
         /\ Len(Grown(p, section).graphObj) > section
<1>1. /\ PanelOK(p) /\ Len(p.obj) \in Nat /\ Len(p.graphObj) \in Nat
      /\ Len(p.obj) = d + Len(p.graphObj) /\ Len(p.graphObj) <= top /\ MaxGraphs \in Nat
  BY Domains, PanelAssumption DEF Fits, PanelAssumption
<1>2. CASE Len(p.graphObj) > section
  <2>1. Grown(p, section) = p
    BY <1>2 DEF Grown
  <2> QED BY <1>2, <2>1
<1>3. CASE ~(Len(p.graphObj) > section)
  <2> DEFINE n == section + 1 - Len(p.graphObj)
             q == WithGraphs(p, n)
  <2>1. n \in Nat \ {0} /\ Len(p.obj) + n <= MaxGraphs
    <3>1. PICK a \in Nat, b \in Nat : a = Len(p.obj) /\ b = Len(p.graphObj)
      BY <1>1
    <3>2. a = d + b /\ b <= section /\ n = section + 1 - b
      BY <1>1, <1>3, <3>1
    <3> HIDE DEF n
    <3>3. n \in Nat \ {0} /\ a + n <= d + top
      BY <3>2
    <3> QED BY <1>1, <3>1, <3>3
  <2> HIDE DEF n
  <2>2. PanelOK(q) /\ Enlarged(q, p, n)
    BY <1>1, <2>1, GraphsAdded
  <2>3. Grown(p, section) = q
    BY <1>3 DEF Grown, n
  <2> HIDE DEF q
  <2>4. Len(q.obj) = Len(p.obj) + n /\ Len(q.graphObj) = Len(p.graphObj) + n
    BY <2>2 DEF Enlarged
  <2>5. Len(p.graphObj) + n = section + 1
    BY <1>1 DEF n
  <2> QED BY <1>1, <2>1, <2>2, <2>3, <2>4, <2>5 DEF Fits
<1> QED BY <1>2, <1>3

LEMMA TargetIs ==
  ASSUME NEW p, PanelOK(p), NEW section \in Nat, Len(p.graphObj) > section
  PROVE  Target(p, section) \in DOMAIN p.obj /\ Target(p, section) \in Nat
<1>1. /\ Len(p.graphObj) \in Nat /\ DOMAIN p.graphObj = 1 .. Len(p.graphObj)
      /\ Len(p.obj) \in Nat /\ DOMAIN p.obj = 1 .. Len(p.obj)
      /\ p.sel \in 0 .. Len(p.obj)
  BY Domains DEF PanelOK
<1>2. section + 1 \in DOMAIN p.graphObj
  BY <1>1
<1>3. p.graphObj[section + 1] \in DOMAIN p.obj
  BY <1>2, InSplit DEF In
<1> QED BY <1>1, <1>3 DEF Target, NoGraph

\* A signal on a graph that is then selected.
PutOn(p, g, s) == [WithSignal(p, g, s) EXCEPT !.sel = g]

\* r is that.
OnIt(r, p, g, s) ==
  /\ PanelOK(r) /\ Len(r.obj) = Len(p.obj) /\ r.graphObj = p.graphObj
  /\ r.split = p.split /\ r.sel = g
  /\ \A h \in DOMAIN p.obj \ {g} : r.obj[h] = p.obj[h]
  /\ Pushes(r.obj[g], p.obj[g], s)

LEMMA PutAndSelected ==
  ASSUME NEW p, PanelOK(p), NEW g \in DOMAIN p.obj, NEW s \in PanelSignals
  PROVE  OnIt(PutOn(p, g, s), p, g, s)
<1> DEFINE r == PutOn(p, g, s)
<1>1. PICK q : /\ PlotOK(q) /\ WithSignal(p, g, s) = [p EXCEPT !.obj[g] = q]
               /\ Pushes(q, p.obj[g], s)
  BY SignalPut, Zenon
<1>2. PICK m : /\ m = WithSignal(p, g, s) /\ PanelOK(m) /\ Put(m, p, g, q)
               /\ Len(m.obj) = Len(p.obj)
  BY <1>1, PlotPut
<1>3. /\ m.obj[g] = q /\ DOMAIN m.obj = DOMAIN p.obj
      /\ \A h \in DOMAIN p.obj \ {g} : m.obj[h] = p.obj[h]
      /\ m.graphObj = p.graphObj /\ m.split = p.split
  BY <1>2, PutFacts
<1>4. g \in Nat /\ g \in 0 .. Len(m.obj)
  BY <1>2, Domains
<1>5. r = [m EXCEPT !.sel = g]
  BY <1>2 DEF PutOn
<1> HIDE DEF r
<1>6. /\ r.obj = m.obj /\ r.graphObj = m.graphObj /\ r.split = m.split /\ r.sel = g
      /\ r \in [obj : Seq(Plots), graphObj : Seq(Nat), split : Seq(Nat), sel : Nat]
  BY <1>2, <1>4, <1>5 DEF PanelOK
<1>7. PanelOK(r)
  BY <1>2, <1>4, <1>6 DEF PanelOK
<1>8. OnIt(r, p, g, s)
  BY <1>1, <1>2, <1>3, <1>6, <1>7 DEF OnIt
<1> QED BY <1>8 DEF r

LEMMA OnGraphFits ==
  ASSUME NEW d \in Nat, NEW top \in Nat, d + top <= MaxGraphs,
         NEW p, Fits(p, d, top), NEW section \in Nat, section < top,
         NEW s \in PanelSignals, NEW exist
  PROVE  Fits(WithSignalOnGraph(p, s, section, exist), d, top)
<1>1. CASE s \notin exist
  <2>1. WithSignalOnGraph(p, s, section, exist) = p
    BY <1>1 DEF WithSignalOnGraph
  <2> QED BY <2>1
<1>2. CASE s \in exist
  <2> DEFINE q == Grown(p, section)
             g == Target(q, section)
             r == PutOn(q, g, s)
  <2>1. WithSignalOnGraph(p, s, section, exist) = r
    BY <1>2, Zenon DEF WithSignalOnGraph, PutOn
  <2>2. Fits(q, d, top) /\ Len(q.graphObj) > section
    BY GrownFits
  <2> HIDE DEF q
  <2>3. PanelOK(q) /\ g \in DOMAIN q.obj
    BY <2>2, TargetIs DEF Fits
  <2> HIDE DEF g
  <2>4. OnIt(r, q, g, s)
    BY <2>3, PutAndSelected
  <2> HIDE DEF r
  <2> QED BY <2>1, <2>2, <2>4 DEF Fits, OnIt
<1> QED BY <1>1, <1>2

\* The signals of a line, one after the other.
LineAfter(p, line, section, exist) ==
  CHOOSE F : F = [j \in 0 .. Len(line) |->
    IF j = 0 THEN p ELSE WithSignalOnGraph(F[j - 1], line[j], section, exist)]

LEMMA LineEnds ==
  ASSUME NEW p, NEW line, Len(line) \in Nat, NEW section, NEW exist,
         NEW F, F = LineAfter(p, line, section, exist)
  PROVE  /\ F[0] = p
         /\ \A j \in 1 .. Len(line) :
              F[j] = WithSignalOnGraph(F[j - 1], line[j], section, exist)
         /\ WithLine(p, line, section, exist) = F[Len(line)]
<1> DEFINE Turn(G, j) == IF j = 0 THEN p ELSE WithSignalOnGraph(G[j - 1], line[j], section, exist)
           S == {k \in Nat : \E G : G = [j \in 0 .. k |-> Turn(G, j)]}
<1>1. 0 \in S
  <2>1. PICK G : G = [j \in 0 .. 0 |-> p]
    OBVIOUS
  <2>2. G = [j \in 0 .. 0 |-> Turn(G, j)]
    BY <2>1
  <2> QED BY <2>2
<1>2. ASSUME NEW k \in Nat, k \in S PROVE k + 1 \in S
  <2>1. PICK G : G = [j \in 0 .. k |-> Turn(G, j)]
    BY <1>2
  <2>2. PICK H : H = [j \in 0 .. k + 1 |-> IF j = k + 1 THEN Turn(G, k + 1) ELSE G[j]]
    OBVIOUS
  <2>3. ASSUME NEW j \in 0 .. k + 1 PROVE H[j] = Turn(H, j)
    <3>1. CASE j = 0
      BY <2>1, <2>2, <3>1
    <3>2. CASE j # 0
      <4>1. j - 1 \in 0 .. k /\ j - 1 # k + 1
        BY <3>2
      <4>2. H[j - 1] = G[j - 1]
        BY <2>2, <4>1
      <4>3. H[j] = Turn(G, j)
        BY <2>1, <2>2
      <4> QED BY <3>2, <4>2, <4>3
    <3> QED BY <3>1, <3>2
  <2>4. H = [j \in 0 .. k + 1 |-> Turn(H, j)]
    <3> HIDE DEF Turn
    <3> QED BY <2>2, <2>3
  <2> QED BY <2>4
<1>3. Len(line) \in S
  <2> HIDE DEF S
  <2> QED BY <1>1, <1>2, FromZeroOn, Zenon
<1>4. F = [j \in 0 .. Len(line) |-> Turn(F, j)]
  BY <1>3 DEF LineAfter
<1>5. WithLine(p, line, section, exist) = F[Len(line)]
  BY DEF WithLine, LineAfter
<1>6. F[0] = p
  BY <1>4
<1>7. \A j \in 1 .. Len(line) : F[j] = WithSignalOnGraph(F[j - 1], line[j], section, exist)
  BY <1>4
<1> QED BY <1>5, <1>6, <1>7

LEMMA LineFits ==
  ASSUME NEW d \in Nat, NEW top \in Nat, d + top <= MaxGraphs,
         NEW p, Fits(p, d, top), NEW section \in Nat, section < top,
         NEW line \in Seq(PanelSignals), NEW exist
  PROVE  Fits(WithLine(p, line, section, exist), d, top)
<1>1. PICK F : F = LineAfter(p, line, section, exist)
  OBVIOUS
<1>2. Len(line) \in Nat /\ \A j \in 1 .. Len(line) : line[j] \in PanelSignals
  BY LenProperties, ElementOfSeq
<1>3. /\ F[0] = p
      /\ \A j \in 1 .. Len(line) :
           F[j] = WithSignalOnGraph(F[j - 1], line[j], section, exist)
      /\ WithLine(p, line, section, exist) = F[Len(line)]
  <2>1. Len(line) \in Nat
    BY LenProperties
  <2> QED BY <1>1, <2>1, LineEnds, SMTT(60)
<1> DEFINE S == {k \in Nat : k <= Len(line) => Fits(F[k], d, top)}
<1>4. 0 \in S
  BY <1>3
<1>5. ASSUME NEW k \in Nat, k \in S PROVE k + 1 \in S
  <2> SUFFICES ASSUME k + 1 <= Len(line) PROVE Fits(F[k + 1], d, top)
    OBVIOUS
  <2>1. Fits(F[k], d, top) /\ k + 1 \in 1 .. Len(line) /\ (k + 1) - 1 = k
    BY <1>2, <1>5
  <2>2. F[k + 1] = WithSignalOnGraph(F[k], line[k + 1], section, exist)
    BY <1>3, <2>1
  <2> QED BY <1>2, <2>1, <2>2, OnGraphFits
<1>6. \A k \in Nat : k \in S
  <2> HIDE DEF S
  <2> QED BY <1>4, <1>5, FromZeroOn, Zenon
<1> QED BY <1>2, <1>3, <1>6

\* The lines, one after the other.
LinesAfter(p, f, exist) ==
  CHOOSE F : F = [i \in 0 .. Len(ReadableLines(f)) |->
    IF i = 0 THEN p ELSE WithLine(F[i - 1], ReadableLines(f)[i], i - 1, exist)]

\* F has the panel after each of the lines.
Lines(F, p, lines, exist) ==
  /\ F[0] = p
  /\ \A i \in 1 .. Len(lines) : F[i] = WithLine(F[i - 1], lines[i], i - 1, exist)

LEMMA LinesEnd ==
  ASSUME NEW p, NEW f, Len(ReadableLines(f)) \in Nat, NEW exist
  PROVE  \E F : Lines(F, p, ReadableLines(f), exist)
               /\ Loaded(p, f, exist) = F[Len(ReadableLines(f))]
<1> DEFINE lines == ReadableLines(f)
           F == LinesAfter(p, f, exist)
<1> DEFINE Turn(G, i) == IF i = 0 THEN p ELSE WithLine(G[i - 1], lines[i], i - 1, exist)
           S == {k \in Nat : \E G : G = [i \in 0 .. k |-> Turn(G, i)]}
<1>1. 0 \in S
  <2>1. PICK G : G = [i \in 0 .. 0 |-> p]
    OBVIOUS
  <2>2. G = [i \in 0 .. 0 |-> Turn(G, i)]
    BY <2>1
  <2> QED BY <2>2
<1>2. ASSUME NEW k \in Nat, k \in S PROVE k + 1 \in S
  <2>1. PICK G : G = [i \in 0 .. k |-> Turn(G, i)]
    BY <1>2
  <2>2. PICK H : H = [i \in 0 .. k + 1 |-> IF i = k + 1 THEN Turn(G, k + 1) ELSE G[i]]
    OBVIOUS
  <2>3. ASSUME NEW i \in 0 .. k + 1 PROVE H[i] = Turn(H, i)
    <3>1. CASE i = 0
      BY <2>1, <2>2, <3>1
    <3>2. CASE i # 0
      <4>1. i - 1 \in 0 .. k /\ i - 1 # k + 1
        BY <3>2
      <4>2. H[i - 1] = G[i - 1]
        BY <2>2, <4>1
      <4>3. H[i] = Turn(G, i)
        BY <2>1, <2>2
      <4> QED BY <3>2, <4>2, <4>3
    <3> QED BY <3>1, <3>2
  <2>4. H = [i \in 0 .. k + 1 |-> Turn(H, i)]
    <3> HIDE DEF Turn
    <3> QED BY <2>2, <2>3
  <2> QED BY <2>4
<1>3. Len(lines) \in S
  <2> HIDE DEF S
  <2> QED BY <1>1, <1>2, FromZeroOn, Zenon
<1>4. F = [i \in 0 .. Len(lines) |-> Turn(F, i)]
  BY <1>3 DEF LinesAfter
<1>5. Loaded(p, f, exist) = F[Len(lines)]
  BY DEF Loaded, LinesAfter
<1>6. F[0] = p
  BY <1>4
<1>7. \A i \in 1 .. Len(lines) : F[i] = WithLine(F[i - 1], lines[i], i - 1, exist)
  BY <1>4
<1> HIDE DEF F
<1> QED BY <1>5, <1>6, <1>7 DEF Lines

\* What is read of the file: all, or the lines before the first that is empty.
LEMMA ReadableIs ==
  ASSUME NEW f \in Seq(Seq(PanelSignals))
  PROVE  /\ ReadableLines(f) \in Seq(Seq(PanelSignals)) /\ Len(ReadableLines(f)) <= Len(f)
         /\ (\A i \in DOMAIN f : f[i] # <<>>) => ReadableLines(f) = f
<1> DEFINE I == {i \in 1 .. Len(f) : f[i] = <<>>}
           empty == IF I # {} THEN Min(I) ELSE 0
<1>1. ReadableLines(f) = IF empty = 0 THEN f ELSE SubSeq(f, 1, empty - 1)
  BY DEF ReadableLines, SelectInSeq
<1>2. Len(f) \in Nat /\ DOMAIN f = 1 .. Len(f) /\ \A i \in 1 .. Len(f) : f[i] \in Seq(PanelSignals)
  BY LenProperties, ElementOfSeq
<1>3. I \subseteq Nat /\ (I # {} => Min(I) \in I)
  <2>1. I \subseteq Nat
    BY <1>2
  <2> HIDE DEF I
  <2> QED BY <2>1, Least DEF Min
<1>4. CASE I = {}
  BY <1>1, <1>2, <1>4
<1>5. CASE I # {}
  <2>1. PICK e \in 1 .. Len(f) : e = empty /\ f[e] = <<>>
    BY <1>3, <1>5
  <2>2. ReadableLines(f) = SubSeq(f, 1, e - 1)
    <3> HIDE DEF empty
    <3> QED BY <1>1, <1>2, <2>1
  <2>3. /\ SubSeq(f, 1, e - 1) \in Seq(Seq(PanelSignals))
        /\ Len(SubSeq(f, 1, e - 1)) = IF 1 <= e - 1 THEN (e - 1) - 1 + 1 ELSE 0
    <3>1. 1 \in Int /\ e - 1 \in Int /\ \A i \in 1 .. e - 1 : f[i] \in Seq(PanelSignals)
      BY <1>2
    <3> QED BY <3>1, SubSeqProperties
  <2>4. e \in DOMAIN f /\ (IF 1 <= e - 1 THEN (e - 1) - 1 + 1 ELSE 0) <= Len(f)
    BY <1>2
  <2> HIDE DEF empty, I
  <2> QED BY <2>1, <2>2, <2>3, <2>4
<1> QED BY <1>4, <1>5

LEMMA LoadedFits ==
  ASSUME NEW p, PanelOK(p), NEW f \in Seq(Seq(PanelSignals)),
         Len(p.obj) + Len(f) <= MaxGraphs, NEW exist
  PROVE  PanelOK(Loaded(p, f, exist))
<1> DEFINE d == Len(p.obj) - Len(p.graphObj)
           top == Len(p.graphObj) + Len(f)
           lines == ReadableLines(f)
<1>1. lines \in Seq(Seq(PanelSignals)) /\ Len(lines) <= Len(f)
  BY ReadableIs
<1> HIDE DEF lines
<1>2. /\ Len(lines) \in Nat /\ \A i \in 1 .. Len(lines) : lines[i] \in Seq(PanelSignals)
      /\ Len(f) \in Nat
  BY <1>1, LenProperties, ElementOfSeq
<1>3. d \in Nat /\ top \in Nat /\ d + top <= MaxGraphs /\ Fits(p, d, top)
  BY <1>2, Domains DEF Fits, PanelOK
<1>4. \A i \in 1 .. Len(lines) : i - 1 \in Nat /\ i - 1 < top
  BY <1>1, <1>2, Domains, SMTT(60)
<1>5. PICK F : Lines(F, p, lines, exist) /\ Loaded(p, f, exist) = F[Len(lines)]
  BY <1>2, LinesEnd DEF lines
<1>6. /\ F[0] = p
      /\ \A i \in 1 .. Len(lines) : F[i] = WithLine(F[i - 1], lines[i], i - 1, exist)
      /\ Loaded(p, f, exist) = F[Len(lines)]
  BY <1>5 DEF Lines
<1> HIDE DEF d, top
<1> DEFINE S == {k \in Nat : k <= Len(lines) => Fits(F[k], d, top)}
<1>7. 0 \in S
  BY <1>3, <1>6
<1>8. ASSUME NEW k \in Nat, k \in S PROVE k + 1 \in S
  <2> SUFFICES ASSUME k + 1 <= Len(lines) PROVE Fits(F[k + 1], d, top)
    OBVIOUS
  <2>1. Fits(F[k], d, top) /\ k + 1 \in 1 .. Len(lines) /\ (k + 1) - 1 = k /\ k < top
    BY <1>2, <1>4, <1>8
  <2>2. F[k + 1] = WithLine(F[k], lines[k + 1], k, exist)
    BY <1>6, <2>1
  <2> QED BY <1>2, <1>3, <2>1, <2>2, LineFits
<1>9. \A k \in Nat : k \in S
  <2> HIDE DEF S
  <2> QED BY <1>7, <1>8, FromZeroOn, Zenon
<1> QED BY <1>2, <1>6, <1>9 DEF Fits

LEMMA ReversedSeq ==
  ASSUME NEW T, NEW s \in Seq(T)
  PROVE  /\ Reverse(s) \in Seq(T) /\ Len(Reverse(s)) = Len(s)
         /\ \A i \in 1 .. Len(s) : Reverse(s)[i] = s[Len(s) + 1 - i]
<1>1. Len(s) \in Nat /\ \A i \in 1 .. Len(s) : s[i] \in T
  BY LenProperties, ElementOfSeq
<1>2. Reverse(s) = [i \in 1 .. Len(s) |-> s[(Len(s) - i) + 1]]
  BY DEF Reverse
<1>3. \A i \in 1 .. Len(s) : (Len(s) - i) + 1 \in 1 .. Len(s) /\ (Len(s) - i) + 1 = Len(s) + 1 - i
  BY <1>1
<1> QED BY <1>1, <1>2, <1>3

-----------------------------------------------------------------------------
(* The panel: its invariant.                                               *)

\* The file has the plots of the last orderly exit.
PanelIInv ==
  /\ PanelOK(panel)
  /\ known \subseteq PanelSignals /\ pending \in BOOLEAN /\ panelSession \in 1 .. PanelSessions
  /\ left \in Seq(Plots) /\ \A i \in DOMAIN left : PlotOK(left[i])
  /\ ini \in Seq(Seq(PanelSignals)) /\ DOMAIN ini = DOMAIN left
  /\ \A i \in DOMAIN ini : ini[i] = Reverse(left[i].main \o left[i].alter)

\* A handler that changes the panel only.
LEMMA BecomesKeeps ==
  ASSUME PanelIInv, NEW p, PanelOK(p), Becomes(p), pending' \in BOOLEAN
  PROVE  PanelIInv'
<1>1. panel' = p /\ UNCHANGED <<known, ini, panelSession, left>>
  BY DEF Becomes
<1>2. PanelOK(panel')
  BY <1>1
<1> QED BY <1>1, <1>2 DEF PanelIInv

\* While the panel runs, it has the graphs that are shown.
LEMMA RunningHas ==
  ASSUME PanelIInv, Running, NEW g \in Graphs
  PROVE  In(panel.split, g) /\ In(panel.graphObj, g) /\ g \in DOMAIN panel.obj
<1>1. Range(panel.graphObj) = Range(panel.split) /\ g \in Range(panel.split)
  BY DEF Running, Dangling, Graphs
<1>2. In(panel.split, g) /\ In(panel.graphObj, g)
  BY <1>1, OfRange, Zenon
<1> QED BY <1>2, InSplit DEF PanelIInv

LEMMA LabelIs ==
  ASSUME PanelIInv, NEW g \in DOMAIN panel.obj, NEW l \in Labels(g)
  PROVE  l[2] \in PanelSignals
<1>1. PICK s : (s \in Range(panel.obj[g].main) \/ s \in Range(panel.obj[g].alter)) /\ l[2] = s
  BY DEF Labels
<1>2. In(panel.obj[g].main, s) \/ In(panel.obj[g].alter, s)
  BY <1>1, OfRange, Zenon
<1>3. panel.obj[g].main \in Seq(PanelSignals) /\ panel.obj[g].alter \in Seq(PanelSignals)
  BY DEF PanelIInv, PanelOK, PlotOK, Plots
<1> QED BY <1>1, <1>2, <1>3 DEF In

LEMMA ClickSignalInv ==
  ASSUME PanelIInv, NEW s, ClickSignal(s)
  PROVE  PanelIInv'
<1> DEFINE p == WithSignalOnGraph(panel, s, 0, known)
           d == Len(panel.obj) - Len(panel.graphObj)
           top == IF panel.graphObj = <<>> THEN 1 ELSE Len(panel.graphObj)
<1>1. /\ s \in PanelSignals /\ Becomes(p) /\ pending' \in BOOLEAN /\ PanelOK(panel)
      /\ panel.graphObj = <<>> => Len(panel.obj) < MaxGraphs
  BY DEF ClickSignal, Room, PanelIInv
<1>2. d \in Nat /\ top \in Nat /\ d + top <= MaxGraphs /\ Fits(panel, d, top) /\ 0 < top
  <2>1. /\ Len(panel.obj) \in Nat /\ Len(panel.graphObj) \in Nat /\ MaxGraphs \in Nat
        /\ Len(panel.graphObj) <= Len(panel.obj) /\ Len(panel.obj) <= MaxGraphs
    BY <1>1, Domains, PanelAssumption DEF PanelOK, PanelAssumption
  <2>2. panel.graphObj = <<>> <=> Len(panel.graphObj) = 0
    BY <1>1, EmptySeq DEF PanelOK, PlacesOK
  <2>3. CASE panel.graphObj = <<>>
    <3>1. top = 1 /\ d = Len(panel.obj) /\ d < MaxGraphs
      BY <1>1, <2>1, <2>2, <2>3
    <3>2. Len(panel.obj) = d + Len(panel.graphObj)
      BY <2>1, <2>2, <2>3, <3>1
    <3> HIDE DEF d, top
    <3> QED BY <1>1, <2>1, <2>2, <2>3, <3>1, <3>2 DEF Fits
  <2>4. CASE panel.graphObj # <<>>
    <3>1. top = Len(panel.graphObj) /\ Len(panel.obj) = d + top /\ d \in Nat
      BY <2>1, <2>4
    <3> HIDE DEF d, top
    <3> QED BY <1>1, <2>1, <2>2, <2>4, <3>1 DEF Fits
  <2> QED BY <2>3, <2>4
<1> HIDE DEF d, top
<1>3. Fits(p, d, top)
  BY <1>1, <1>2, OnGraphFits
<1> HIDE DEF p
<1> QED BY <1>1, <1>3, BecomesKeeps DEF Fits

LEMMA DropSignalOnPanelInv ==
  ASSUME PanelIInv, NEW s, DropSignalOnPanel(s)
  PROVE  PanelIInv'
<1> DEFINE q == WithGraph(panel)
           p == WithSignal(q, q.sel, s)
<1>1. /\ s \in PanelSignals /\ Becomes(p) /\ pending' \in BOOLEAN /\ PanelOK(panel)
      /\ Len(panel.obj) < MaxGraphs
  BY DEF DropSignalOnPanel, Room, PanelIInv
<1>2. Len(panel.obj) + 1 <= MaxGraphs
  BY <1>1, Domains, PanelAssumption DEF PanelAssumption
<1>3. PanelOK(p)
  BY <1>1, <1>2, NewGraphKeeps
<1> HIDE DEF p
<1> QED BY <1>1, <1>3, BecomesKeeps

LEMMA DropSignalOnGraphInv ==
  ASSUME PanelIInv, NEW s, NEW g \in Graphs, DropSignalOnGraph(s, g)
  PROVE  PanelIInv'
<1> DEFINE p == WithSignal(panel, g, s)
<1>1. s \in PanelSignals /\ Becomes(p) /\ pending' \in BOOLEAN /\ PanelOK(panel) /\ Running
  BY DEF DropSignalOnGraph, Working, PanelIInv
<1>2. g \in DOMAIN panel.obj
  BY <1>1, RunningHas
<1>3. PICK q : PlotOK(q) /\ p = [panel EXCEPT !.obj[g] = q]
  BY <1>1, <1>2, SignalPut
<1> HIDE DEF p
<1>4. PICK r : r = [panel EXCEPT !.obj[g] = q] /\ PanelOK(r)
  BY <1>1, <1>2, <1>3, PlotPut
<1>5. PanelOK(p)
  BY <1>3, <1>4
<1> QED BY <1>1, <1>5, BecomesKeeps

LEMMA DropLabelOnGraphKeeps ==
  ASSUME PanelIInv, NEW from \in Graphs, NEW g \in Graphs, NEW l \in Labels(from),
         DropLabelOnGraph(from, l, g)
  PROVE  PanelIInv' /\ Shown(panel) \subseteq Shown(panel')
<1> DEFINE p == Toggled(panel, g, l[2])
<1>1. Becomes(p) /\ pending' \in BOOLEAN /\ PanelOK(panel) /\ Running
  BY DEF DropLabelOnGraph, Working, PanelIInv
<1>2. g \in DOMAIN panel.obj /\ from \in DOMAIN panel.obj
  BY <1>1, RunningHas
<1>3. l[2] \in PanelSignals
  BY <1>2, LabelIs
<1>4. PanelOK(p) /\ \A x : ShownIn(panel, x) => ShownIn(p, x)
  BY <1>1, <1>2, <1>3, ToggledKeeps
<1> HIDE DEF p
<1>5. panel' = p
  BY <1>1 DEF Becomes
<1>6. ASSUME NEW x \in Shown(panel) PROVE x \in Shown(panel')
  <2>1. ShownIn(panel, x)
    BY <1>6, ShownIs
  <2>2. x \in Shown(p)
    BY <1>4, <2>1, ShownIs
  <2>3. Shown(p) = Shown(panel')
    BY <1>5
  <2> QED BY <2>2, <2>3
<1> QED BY <1>1, <1>4, <1>6, BecomesKeeps

LEMMA DropLabelOnPanelKeeps ==
  ASSUME PanelIInv, NEW from \in Graphs, NEW l \in Labels(from),
         DropLabelOnPanel(from, l)
  PROVE  PanelIInv' /\ Shown(panel) \subseteq Shown(panel')
<1> DEFINE o == OfLabel(panel, from, l[1], l[2])
           q == WithGraph(o)
           p == WithSignal(q, q.sel, l[2])
<1>1. /\ Becomes(p) /\ pending' \in BOOLEAN /\ PanelOK(panel) /\ Running
      /\ Len(panel.obj) < MaxGraphs
  BY DEF DropLabelOnPanel, Working, Room, PanelIInv
<1>2. from \in DOMAIN panel.obj
  BY <1>1, RunningHas
<1>3. l[2] \in PanelSignals
  BY <1>2, LabelIs
<1>4. /\ PanelOK(o) /\ Len(o.obj) = Len(panel.obj)
      /\ \A x : x # l[2] /\ ShownIn(panel, x) => ShownIn(o, x)
  BY <1>1, <1>2, OfLabelKeeps
<1>5. Len(o.obj) + 1 <= MaxGraphs
  BY <1>1, <1>4, Domains, PanelAssumption DEF PanelAssumption
<1> HIDE DEF o
<1>6. PanelOK(p) /\ ShownIn(p, l[2]) /\ \A x : ShownIn(o, x) => ShownIn(p, x)
  BY <1>3, <1>4, <1>5, NewGraphKeeps
<1> HIDE DEF p
<1>7. panel' = p
  BY <1>1 DEF Becomes
<1>8. ASSUME NEW x \in Shown(panel) PROVE x \in Shown(panel')
  <2>1. ShownIn(panel, x)
    BY <1>8, ShownIs
  <2>2. ShownIn(p, x)
    BY <1>4, <1>6, <2>1
  <2>3. x \in Shown(p)
    BY <2>2, ShownIs
  <2>4. Shown(p) = Shown(panel')
    BY <1>7
  <2> QED BY <2>3, <2>4
<1> QED BY <1>1, <1>6, <1>8, BecomesKeeps

LEMMA DelSignalInv ==
  ASSUME PanelIInv, NEW g \in Graphs, NEW l, DelSignal(g, l)
  PROVE  PanelIInv'
<1> DEFINE p == OfLabel(panel, g, l[1], l[2])
<1>1. Becomes(p) /\ pending' \in BOOLEAN /\ PanelOK(panel) /\ Running
  BY DEF DelSignal, Working, PanelIInv
<1>2. g \in DOMAIN panel.obj
  BY <1>1, RunningHas
<1>3. PanelOK(p)
  BY <1>1, <1>2, OfLabelKeeps
<1> HIDE DEF p
<1> QED BY <1>1, <1>3, BecomesKeeps

LEMMA OfGraphInv ==
  ASSUME PanelIInv, NEW g \in Graphs,
         \/ SelectGraph(g) \/ CloseGraph(g)
         \/ GraphToDn(g) \/ GraphToUp(g)
  PROVE  PanelIInv'
<1>1. PanelOK(panel) /\ Running /\ pending' \in BOOLEAN
  BY DEF SelectGraph, CloseGraph, GraphToDn, GraphToUp, Working,
         PanelIInv
<1>2. In(panel.split, g) /\ In(panel.graphObj, g)
  BY <1>1, RunningHas
<1>3. CASE SelectGraph(g)
  <2> DEFINE p == [panel EXCEPT !.sel = panel.graphObj[OfName(panel, panel.obj[g].name)]]
  <2>1. Becomes(p)
    BY <1>3 DEF SelectGraph
  <2>2. PanelOK(p)
    BY <1>1, <1>2, SelectedKeeps
  <2> HIDE DEF p
  <2> QED BY <1>1, <2>1, <2>2, BecomesKeeps
<1>4. CASE CloseGraph(g)
  <2>1. Becomes(Closed(panel, g))
    BY <1>4 DEF CloseGraph
  <2>2. PanelOK(Closed(panel, g))
    BY <1>1, <1>2, ClosedKeeps
  <2> QED BY <1>1, <2>1, <2>2, BecomesKeeps
<1>5. CASE GraphToDn(g)
  <2>1. Becomes(MovedDn(panel, g))
    BY <1>5 DEF GraphToDn
  <2>2. PanelOK(MovedDn(panel, g))
    BY <1>1, <1>2, MovedBothKeeps
  <2> QED BY <1>1, <2>1, <2>2, BecomesKeeps
<1>6. CASE GraphToUp(g)
  <2>1. Becomes(MovedUp(panel, g))
    BY <1>6 DEF GraphToUp
  <2>2. PanelOK(MovedUp(panel, g))
    BY <1>1, <1>2, MovedBothKeeps
  <2> QED BY <1>1, <2>1, <2>2, BecomesKeeps
<1> QED BY <1>3, <1>4, <1>5, <1>6

LEMMA LoadWinStateInv ==
  ASSUME PanelIInv, LoadWinState
  PROVE  PanelIInv'
<1>1. /\ Becomes(Loaded(panel, ini, known)) /\ pending' \in BOOLEAN
      /\ PanelOK(panel) /\ ini \in Seq(Seq(PanelSignals)) /\ Len(panel.obj) + Len(ini) <= MaxGraphs
  BY DEF LoadWinState, PanelIInv
<1>2. PanelOK(Loaded(panel, ini, known))
  BY <1>1, LoadedFits
<1> QED BY <1>1, <1>2, BecomesKeeps

LEMMA EmptyOK ==
  PanelOK(EmptyPanel)
<1> DEFINE e == EmptyPanel
<1>1. /\ e.obj = <<>> /\ e.graphObj = <<>> /\ e.split = <<>> /\ e.sel = 0
      /\ e \in [obj : Seq(Plots), graphObj : Seq(Nat), split : Seq(Nat), sel : Nat]
  BY DEF EmptyPanel, NoGraph
<1>2. /\ <<>> \in Seq(Plots) /\ <<>> \in Seq(Nat) /\ <<>> \in Seq(1 .. 0) /\ Len(<<>>) = 0
      /\ DOMAIN <<>> = {} /\ Distinct(<<>>)
  BY DEF Distinct
<1> HIDE DEF e
<1>3. 0 <= MaxGraphs
  BY PanelAssumption DEF PanelAssumption
<1>4. /\ Len(e.obj) = 0 /\ Len(e.graphObj) = 0 /\ DOMAIN e.obj = {} /\ DOMAIN e.split = {}
      /\ DOMAIN e.graphObj = {}
  BY <1>1, <1>2
<1>5. PlacesOK(e.graphObj, 0) /\ PlacesOK(e.split, 0)
  BY <1>1, <1>2 DEF PlacesOK
<1>6. PanelOK(e)
  BY <1>1, <1>2, <1>3, <1>4, <1>5 DEF PanelOK
<1> QED BY <1>6 DEF e

LEMMA NextSessionKeeps ==
  ASSUME PanelIInv, NextSession
  PROVE  /\ PanelOK(panel') /\ known' \subseteq PanelSignals /\ pending' \in BOOLEAN
         /\ panelSession' \in 1 .. PanelSessions
<1>1. /\ panel' = EmptyPanel /\ known' = {} /\ pending' = TRUE
      /\ panelSession' = panelSession + 1 /\ panelSession < PanelSessions /\ panelSession \in 1 .. PanelSessions
  BY DEF NextSession, PanelIInv
<1>2. PanelOK(panel')
  BY <1>1, EmptyOK
<1>3. panelSession' \in 1 .. PanelSessions
  BY <1>1, PanelAssumption DEF PanelAssumption
<1> QED BY <1>1, <1>2, <1>3

\* What is written, and what it is compared with.
LEMMA ExitInv ==
  ASSUME PanelIInv, PanelExit
  PROVE  PanelIInv'
<1> DEFINE plot(i) == panel.obj[panel.split[i]]
<1>1. /\ ini' = [i \in DOMAIN panel.split |-> Reverse(plot(i).main \o plot(i).alter)]
      /\ left' = [i \in DOMAIN panel.split |-> plot(i)]
      /\ NextSession
  BY DEF PanelExit, Sections
<1>2. PanelOK(panel) /\ Len(panel.split) \in Nat /\ DOMAIN panel.split = 1 .. Len(panel.split)
  BY Domains DEF PanelIInv
<1>3. ASSUME NEW i \in DOMAIN panel.split PROVE PlotOK(plot(i))
  <2>1. In(panel.split, panel.split[i])
    BY DEF In
  <2>2. panel.split[i] \in DOMAIN panel.obj
    BY <1>2, <2>1, InSplit
  <2> QED BY <1>2, <2>2 DEF PanelOK
<1>4. ASSUME NEW i \in DOMAIN panel.split
      PROVE  Reverse(plot(i).main \o plot(i).alter) \in Seq(PanelSignals)
  <2>1. plot(i).main \o plot(i).alter \in Seq(PanelSignals)
    BY <1>3 DEF PlotOK, Plots
  <2> HIDE DEF plot
  <2> QED BY <2>1, ReversedSeq
<1> HIDE DEF plot
<1>5. left' \in Seq(Plots) /\ \A i \in DOMAIN left' : PlotOK(left'[i])
  <2>1. \A i \in DOMAIN panel.split : plot(i) \in Plots
    BY <1>3 DEF PlotOK
  <2> QED BY <1>1, <1>2, <1>3, <2>1
<1>6. ini' \in Seq(Seq(PanelSignals)) /\ DOMAIN ini' = DOMAIN left'
  BY <1>1, <1>2, <1>4
<1>7. \A i \in DOMAIN ini' : ini'[i] = Reverse(left'[i].main \o left'[i].alter)
  BY <1>1
<1>8. /\ PanelOK(panel') /\ known' \subseteq PanelSignals /\ pending' \in BOOLEAN
      /\ panelSession' \in 1 .. PanelSessions
  BY <1>1, NextSessionKeeps
<1> QED BY <1>5, <1>6, <1>7, <1>8 DEF PanelIInv

LEMMA PanelBegins ==
  ASSUME PanelInit
  PROVE  PanelIInv
<1>1. /\ panel = EmptyPanel /\ known = {} /\ pending = TRUE /\ ini = <<>> /\ panelSession = 1
      /\ left = <<>>
  BY DEF PanelInit
<1>2. panelSession \in 1 .. PanelSessions
  BY <1>1, PanelAssumption DEF PanelAssumption
<1>3. ini \in Seq(Seq(PanelSignals)) /\ left \in Seq(Plots) /\ DOMAIN ini = {} /\ DOMAIN left = {}
  BY <1>1
<1> QED BY <1>1, <1>2, <1>3, EmptyOK DEF PanelIInv

LEMMA PanelStepKeeps ==
  ASSUME PanelIInv, [PanelNext]_panelVars
  PROVE  PanelIInv'
<1>1. ASSUME NEW s \in PanelSignals, ClickSignal(s) \/ DropSignalOnPanel(s)
      PROVE  PanelIInv'
  BY <1>1, ClickSignalInv, DropSignalOnPanelInv
<1>2. ASSUME NEW s \in PanelSignals, NEW g \in Graphs, DropSignalOnGraph(s, g)
      PROVE  PanelIInv'
  BY <1>2, DropSignalOnGraphInv
<1>3. ASSUME NEW from \in Graphs, NEW g \in Graphs, NEW l \in Labels(from),
             DropLabelOnGraph(from, l, g)
      PROVE  PanelIInv'
  BY <1>3, DropLabelOnGraphKeeps
<1>4. ASSUME NEW g \in Graphs, NEW l \in Labels(g),
             DropLabelOnPanel(g, l) \/ DelSignal(g, l)
      PROVE  PanelIInv'
  BY <1>4, DropLabelOnPanelKeeps, DelSignalInv
<1>5. ASSUME NEW g \in Graphs,
             \/ SelectGraph(g) \/ CloseGraph(g)
             \/ GraphToDn(g) \/ GraphToUp(g)
      PROVE  PanelIInv'
  BY <1>5, OfGraphInv
<1>6. ASSUME NEW s \in PanelSignals, SignalAppears(s) PROVE PanelIInv'
  BY <1>6 DEF SignalAppears, PanelIInv
<1>7. ASSUME LoadWinState PROVE PanelIInv'
  BY <1>7, LoadWinStateInv
<1>8. ASSUME PanelExit PROVE PanelIInv'
  BY <1>8, ExitInv
<1>9. ASSUME Crash PROVE PanelIInv'
  <2>1. NextSession /\ UNCHANGED <<ini, left>>
    BY <1>9 DEF Crash
  <2> QED BY <2>1, NextSessionKeeps DEF PanelIInv
<1>10. ASSUME UNCHANGED panelVars PROVE PanelIInv'
  BY <1>10 DEF panelVars, PanelIInv
<1> QED BY <1>1, <1>2, <1>3, <1>4, <1>5, <1>6, <1>7, <1>8, <1>9, <1>10 DEF PanelNext, UserStep

(* Whatever is clicked, dropped, moved and closed, loaded and left, for any *)
(* signals and any number of graphs and sessions: lists of signals and of   *)
(* graphs have no repetition and name what there is, and the file has the   *)
(* plots of the last orderly exit, each as the exit writes it.              *)
THEOREM PanelInvariance == PanelSpec => []PanelIInv
<1>1. PanelInit => PanelIInv
  BY PanelBegins
<1>2. PanelIInv /\ [PanelNext]_panelVars => PanelIInv'
  BY PanelStepKeeps
<1> QED BY <1>1, <1>2, PTL DEF PanelSpec

LEMMA DistinctIs ==
  ASSUME NEW q, Distinct(q) PROVE IsInjective(q)
BY DEF IsInjective, Distinct

(* The panel has its type: a signal is once on an axis, a BOOL signal never *)
(* on the second, a graph once in the list and once in the splitter.        *)
THEOREM PanelTypeCorrect == PanelSpec => []PanelTypeOK
<1>1. PanelIInv => PanelTypeOK
  <2> SUFFICES ASSUME PanelIInv PROVE PanelTypeOK
    OBVIOUS
  <2>1. PanelOK(panel) /\ DOMAIN panel.obj = 1 .. Len(panel.obj) /\ Len(panel.obj) \in Nat
    BY Domains DEF PanelIInv
  <2>2. ASSUME NEW q \in Seq(PanelSignals) PROVE Range(q) \subseteq PanelSignals
    BY DEF Range
  <2>3. ASSUME NEW g \in DOMAIN panel.obj
        PROVE  /\ panel.obj[g].name \in 0 .. MaxGraphs - 1
               /\ Lists(panel.obj[g].main) /\ Lists(panel.obj[g].alter)
               /\ Range(panel.obj[g].alter) \cap BoolSignals = {}
    <3>1. PlotOK(panel.obj[g])
      BY <2>1 DEF PanelOK
    <3>2. /\ panel.obj[g].name \in 0 .. MaxGraphs - 1
          /\ panel.obj[g].main \in Seq(PanelSignals) /\ panel.obj[g].alter \in Seq(PanelSignals)
          /\ Distinct(panel.obj[g].main) /\ Distinct(panel.obj[g].alter)
          /\ \A x \in BoolSignals : ~ In(panel.obj[g].alter, x)
      BY <3>1 DEF PlotOK, Plots
    <3>3. Lists(panel.obj[g].main) /\ Lists(panel.obj[g].alter)
      BY <2>2, <3>2, DistinctIs DEF Lists
    <3>4. Range(panel.obj[g].alter) \cap BoolSignals = {}
      BY <3>2, OfRange, Zenon
    <3> QED BY <3>2, <3>3, <3>4
  <2>4. /\ IsInjective(panel.graphObj) /\ Range(panel.graphObj) \subseteq DOMAIN panel.obj
        /\ IsInjective(panel.split) /\ Range(panel.split) \subseteq DOMAIN panel.obj
    <3>1. /\ panel.graphObj \in Seq(DOMAIN panel.obj) /\ Distinct(panel.graphObj)
          /\ panel.split \in Seq(DOMAIN panel.obj) /\ Distinct(panel.split)
      BY <2>1 DEF PanelOK, PlacesOK
    <3>2. \A D, q : q \in Seq(D) => Range(q) \subseteq D
      BY DEF Range
    <3> QED BY <3>1, <3>2, DistinctIs, Zenon
  <2>5. panel.sel \in DOMAIN panel.obj \cup {NoGraph}
    BY <2>1 DEF PanelOK, NoGraph
  <2>6. \A i \in DOMAIN ini : Range(ini[i]) \subseteq PanelSignals
    <3>1. \A i \in DOMAIN ini : ini[i] \in Seq(PanelSignals)
      BY LenProperties, ElementOfSeq DEF PanelIInv
    <3> QED BY <2>2, <3>1
  <2>7. Len(left) = Len(ini)
    BY LenProperties DEF PanelIInv
  <2> QED BY <2>3, <2>4, <2>5, <2>6, <2>7 DEF PanelTypeOK, PanelIInv
<1>2. PanelSpec => []PanelIInv
  BY PanelInvariance
<1> QED BY <1>1, <1>2, PTL

(* No label that is dragged, to another axis, another graph or beside the   *)
(* graphs, takes the last view of a signal away (GraphWidget::dropEvent,    *)
(* GraphPanelWidget::dropEvent).                                            *)
THEOREM MovingKeepsSignals == PanelSpec => MovingKeeps
<1>1. PanelIInv /\ [PanelNext]_panelVars =>
        [(\E from \in Graphs : \E l \in Labels(from) :
           DropLabelOnPanel(from, l) \/ \E g \in Graphs : DropLabelOnGraph(from, l, g))
         => Shown(panel) \subseteq Shown(panel')]_panelVars
  BY DropLabelOnPanelKeeps, DropLabelOnGraphKeeps
<1>2. PanelSpec => []PanelIInv
  BY PanelInvariance
<1>3. PanelSpec => [][(\E from \in Graphs : \E l \in Labels(from) :
        DropLabelOnPanel(from, l) \/ \E g \in Graphs : DropLabelOnGraph(from, l, g))
     => Shown(panel) \subseteq Shown(panel')]_panelVars
  BY <1>1, <1>2, PTL DEF PanelSpec
<1> QED BY <1>3 DEF MovingKeeps

-----------------------------------------------------------------------------
(* The panel: the order of the signals in a layout that is loaded.         *)

\* Among the first j of t there is x, and y not before it.
Came(t, j, x, y) == \E k \in 1 .. j : t[k] = x /\ \A i \in 1 .. k : t[i] # y

\* m has the first j of t, each once, the newest first.
Ordered(m, t, j) ==
  /\ m \in Seq(PanelSignals) /\ Distinct(m)
  /\ \A x : In(m, x) <=> \E k \in 1 .. j : t[k] = x
  /\ \A x, y : In(m, x) /\ In(m, y) /\ x # y => (Before(m, y, x) <=> Came(t, j, x, y))

\* One more in front of the others.
LEMMA InFront ==
  ASSUME NEW T, NEW m \in Seq(T), Distinct(m), NEW s \in T, ~ In(m, s)
  PROVE  /\ \A x, y : x # s /\ y # s =>
                        (Before(<<s>> \o m, x, y) <=> Before(m, x, y))
         /\ \A x : In(m, x) => Before(<<s>> \o m, s, x)
         /\ \A x : ~ Before(<<s>> \o m, x, s)
<1> DEFINE r == <<s>> \o m
<1>1. /\ Len(m) \in Nat /\ DOMAIN m = 1 .. Len(m) /\ DOMAIN r = 1 .. Len(m) + 1 /\ r[1] = s
      /\ \A i \in 1 .. Len(m) : r[i + 1] = m[i]
      /\ \A i \in 2 .. Len(m) + 1 : i - 1 \in 1 .. Len(m) /\ r[i] = m[i - 1]
  OBVIOUS
<1> HIDE DEF r
<1>2. ASSUME NEW x, NEW y, x # s, y # s
      PROVE  Before(r, x, y) <=> Before(m, x, y)
  <2>1. ASSUME Before(r, x, y) PROVE Before(m, x, y)
    <3>1. PICK i \in DOMAIN r, j \in DOMAIN r : i < j /\ r[i] = x /\ r[j] = y
      BY <2>1 DEF Before
    <3>2. i # 1 /\ j # 1
      BY <1>1, <1>2, <3>1
    <3>3. i - 1 \in DOMAIN m /\ j - 1 \in DOMAIN m /\ i - 1 < j - 1 /\ m[i - 1] = x /\ m[j - 1] = y
      BY <1>1, <3>1, <3>2
    <3> QED BY <3>3 DEF Before
  <2>2. ASSUME Before(m, x, y) PROVE Before(r, x, y)
    <3>1. PICK i \in DOMAIN m, j \in DOMAIN m : i < j /\ m[i] = x /\ m[j] = y
      BY <2>2 DEF Before
    <3>2. i + 1 \in DOMAIN r /\ j + 1 \in DOMAIN r /\ i + 1 < j + 1 /\ r[i + 1] = x /\ r[j + 1] = y
      BY <1>1, <3>1
    <3> QED BY <3>2 DEF Before
  <2> QED BY <2>1, <2>2
<1>3. ASSUME NEW x, In(m, x) PROVE Before(r, s, x)
  <2>1. PICK i \in DOMAIN m : m[i] = x
    BY <1>3 DEF In
  <2>2. 1 \in DOMAIN r /\ i + 1 \in DOMAIN r /\ 1 < i + 1 /\ r[1] = s /\ r[i + 1] = x
    BY <1>1, <2>1
  <2> QED BY <2>2 DEF Before
<1>4. ASSUME NEW x, Before(r, x, s) PROVE FALSE
  <2>1. PICK i \in DOMAIN r, j \in DOMAIN r : i < j /\ r[j] = s
    BY <1>4 DEF Before
  <2>2. j - 1 \in DOMAIN m /\ m[j - 1] = s
    BY <1>1, <2>1
  <2> QED BY <2>2 DEF In
<1> QED BY <1>2, <1>3, <1>4 DEF r

LEMMA OrderPushed ==
  ASSUME NEW t, NEW j \in Nat, NEW m, Ordered(m, t, j), t[j + 1] \in PanelSignals, NEW r,
         r = IF In(m, t[j + 1]) THEN m ELSE <<t[j + 1]>> \o m
  PROVE  Ordered(r, t, j + 1)
<1> DEFINE s == t[j + 1]
<1>1. /\ m \in Seq(PanelSignals) /\ Distinct(m) /\ s \in PanelSignals
      /\ \A x : In(m, x) <=> \E k \in 1 .. j : t[k] = x
      /\ \A x, y : In(m, x) /\ In(m, y) /\ x # y => (Before(m, y, x) <=> Came(t, j, x, y))
  BY DEF Ordered
<1>2. \A k : k \in 1 .. j + 1 <=> k \in 1 .. j \/ k = j + 1
  OBVIOUS
<1>3. s = t[j + 1]
  OBVIOUS
<1> HIDE DEF s
<1>4. ASSUME NEW x, NEW y, x # s \/ In(m, y) PROVE Came(t, j + 1, x, y) <=> Came(t, j, x, y)
  <2>1. Came(t, j, x, y) => Came(t, j + 1, x, y)
    BY <1>2 DEF Came
  <2>2. ASSUME Came(t, j + 1, x, y) PROVE Came(t, j, x, y)
    <3>1. PICK k \in 1 .. j + 1 : t[k] = x /\ \A i \in 1 .. k : t[i] # y
      BY <2>2 DEF Came
    <3>2. k # j + 1
      <4> SUFFICES ASSUME k = j + 1 PROVE FALSE
        OBVIOUS
      <4>1. x = s /\ In(m, y)
        BY <1>3, <1>4, <3>1
      <4>2. PICK i \in 1 .. j : t[i] = y
        BY <1>1, <4>1
      <4>3. i \in 1 .. k
        OBVIOUS
      <4> QED BY <3>1, <4>2, <4>3
    <3> QED BY <1>2, <3>1, <3>2 DEF Came
  <2> QED BY <2>1, <2>2
<1>5. CASE In(m, s)
  <2>1. r = m
    BY <1>3, <1>5
  <2>2. ASSUME NEW x PROVE In(m, x) <=> \E k \in 1 .. j + 1 : t[k] = x
    BY <1>1, <1>2, <1>3, <1>5
  <2>3. ASSUME NEW x, NEW y, In(m, x), In(m, y), x # y
        PROVE  Before(m, y, x) <=> Came(t, j + 1, x, y)
    BY <1>1, <1>4, <2>3
  <2> QED BY <1>1, <2>1, <2>2, <2>3 DEF Ordered
<1>6. CASE ~ In(m, s)
  <2>1. r = <<s>> \o m
    BY <1>3, <1>6
  <2>2. r \in Seq(PanelSignals) /\ Distinct(r) /\ \A x : In(r, x) <=> In(m, x) \/ x = s
    BY <1>1, <1>6, <2>1, Pushed
  <2>3. /\ \A x, y : x # s /\ y # s => (Before(r, x, y) <=> Before(m, x, y))
        /\ \A x : In(m, x) => Before(r, s, x)
        /\ \A x : ~ Before(r, x, s)
    BY <1>1, <1>6, <2>1, InFront
  <2>4. ASSUME NEW x PROVE In(r, x) <=> \E k \in 1 .. j + 1 : t[k] = x
    BY <1>1, <1>2, <1>3, <2>2
  <2>5. ASSUME NEW x, NEW y, In(r, x), In(r, y), x # y
        PROVE  Before(r, y, x) <=> Came(t, j + 1, x, y)
    <3>1. CASE x # s /\ y # s
      BY <1>1, <1>4, <2>2, <2>3, <2>5, <3>1
    <3>2. CASE y = s
      <4>1. In(m, x) /\ Before(r, y, x)
        BY <2>2, <2>3, <2>5, <3>2
      <4>2. PICK k \in 1 .. j : t[k] = x
        BY <1>1, <4>1
      <4>3. \A i \in 1 .. k : i \in 1 .. j
        OBVIOUS
      <4>4. \A i \in 1 .. k : t[i] # y
        BY <1>1, <1>6, <3>2, <4>3
      <4>5. Came(t, j + 1, x, y)
        BY <1>2, <4>2, <4>4 DEF Came
      <4> QED BY <4>1, <4>5
    <3>3. CASE x = s
      <4>1. In(m, y) /\ ~ Before(r, y, x)
        BY <2>2, <2>3, <2>5, <3>3
      <4>2. ~ Came(t, j, x, y)
        BY <1>1, <1>6, <3>3 DEF Came
      <4> QED BY <1>4, <4>1, <4>2
    <3> QED BY <3>1, <3>2, <3>3
  <2> QED BY <2>2, <2>4, <2>5 DEF Ordered
<1> QED BY <1>5, <1>6

\* Of two that are in t, the one whose first place is smaller came first.
LEMMA FirstOf ==
  ASSUME NEW t, NEW n \in Nat, NEW x, NEW y, NEW k \in 1 .. n, NEW l \in 1 .. n,
         t[k] = x, \A i \in 1 .. k - 1 : t[i] # x,
         t[l] = y, \A i \in 1 .. l - 1 : t[i] # y, x # y
  PROVE  Came(t, n, x, y) <=> k < l
<1>1. ASSUME k < l PROVE Came(t, n, x, y)
  <2>1. \A i \in 1 .. k : i \in 1 .. l - 1
    BY <1>1
  <2> QED BY <2>1 DEF Came
<1>2. ASSUME Came(t, n, x, y) PROVE k < l
  <2>1. PICK h \in 1 .. n : t[h] = x /\ \A i \in 1 .. h : t[i] # y
    BY <1>2 DEF Came
  <2>2. h \notin 1 .. k - 1 /\ l \notin 1 .. h
    BY <2>1
  <2> QED BY <2>2
<1> QED BY <1>1, <1>2

LEMMA PlaceOf ==
  ASSUME NEW q, Distinct(q), DOMAIN q \subseteq Nat, NEW i \in DOMAIN q, NEW j \in DOMAIN q
  PROVE  Before(q, q[i], q[j]) <=> i < j
BY DEF Before, Distinct

\* What comes out is the plot that was written.
LEMMA SamePlotIs ==
  ASSUME NEW l, PlotOK(l), NEW q,
         Ordered(q.main, Reverse(l.main \o l.alter), Len(Reverse(l.main \o l.alter))),
         q.alter = <<>>
  PROVE  SamePlot(q, l)
<1> DEFINE t == Reverse(l.main \o l.alter)
           a == Len(l.alter)
           b == Len(l.main)
           n == a + b
           own == Range(l.main) \ Range(l.alter)
           moved == Range(l.alter)
           m == q.main
<1>1. /\ l.main \in Seq(PanelSignals) /\ l.alter \in Seq(PanelSignals) /\ a \in Nat /\ b \in Nat /\ n \in Nat
      /\ DOMAIN l.main = 1 .. b /\ DOMAIN l.alter = 1 .. a
      /\ Distinct(l.main) /\ Distinct(l.alter) /\ Len(l.main) = b /\ Len(l.alter) = a
      /\ n = a + b
  BY LenProperties DEF PlotOK, Plots
<1> HIDE DEF n, a, b
<1>2. /\ Len(t) = n
      /\ \A i \in 1 .. a : a + 1 - i \in 1 .. a /\ t[i] = l.alter[a + 1 - i]
      /\ \A i \in a + 1 .. n : n + 1 - i \in 1 .. b /\ t[i] = l.main[n + 1 - i]
  <2> DEFINE j == l.main \o l.alter
  <2>1. /\ j \in Seq(PanelSignals) /\ Len(j) = n
        /\ \A i \in 1 .. n : j[i] = IF i <= b THEN l.main[i] ELSE l.alter[i - b]
    <3>1. /\ j \in Seq(PanelSignals) /\ Len(j) = Len(l.main) + Len(l.alter)
          /\ \A i \in 1 .. Len(l.main) + Len(l.alter) :
               j[i] = IF i <= Len(l.main) THEN l.main[i] ELSE l.alter[i - Len(l.main)]
      BY <1>1, ConcatProperties
    <3>2. Len(l.main) + Len(l.alter) = n
      BY <1>1
    <3> HIDE DEF j
    <3> QED BY <1>1, <3>1, <3>2
  <2>0. t = Reverse(j)
    OBVIOUS
  <2> HIDE DEF j, t
  <2>2. Len(t) = n /\ \A i \in 1 .. n : t[i] = j[n + 1 - i]
    BY <2>0, <2>1, ReversedSeq
  <2>3. ASSUME NEW i \in 1 .. a PROVE a + 1 - i \in 1 .. a /\ t[i] = l.alter[a + 1 - i]
    <3>1. PICK k \in 1 .. n, h \in 1 .. a : k = n + 1 - i /\ h = a + 1 - i /\ ~(k <= b) /\ k - b = h
      <4>1. n + 1 - i \in 1 .. n /\ a + 1 - i \in 1 .. a /\ ~(n + 1 - i <= b)
            /\ (n + 1 - i) - b = a + 1 - i
        BY <1>1
      <4> QED BY <4>1
    <3>2. i \in 1 .. n
      BY <1>1
    <3>3. t[i] = j[k]
      BY <2>2, <3>1, <3>2
    <3>4. j[k] = l.alter[h]
      BY <2>1, <3>1
    <3>5. t[i] = l.alter[h]
      BY <3>3, <3>4
    <3> QED BY <3>1, <3>5
  <2>4. ASSUME NEW i \in a + 1 .. n PROVE n + 1 - i \in 1 .. b /\ t[i] = l.main[n + 1 - i]
    <3>1. i \in 1 .. n /\ n + 1 - i \in 1 .. n /\ n + 1 - i <= b /\ n + 1 - i \in 1 .. b
      BY <1>1
    <3>2. t[i] = j[n + 1 - i]
      BY <2>2, <3>1
    <3> QED BY <2>1, <3>1, <3>2
  <2> QED BY <2>2, <2>3, <2>4
<1>3. Ordered(m, t, n)
  BY <1>1, <1>2
<1>4. \A x : x \in own \/ x \in moved <=> In(l.main, x) \/ In(l.alter, x)
  BY OfRange, Zenon
<1>5. /\ \A x \in own : In(l.main, x) /\ ~ In(l.alter, x)
      /\ \A x \in moved : In(l.alter, x)
  BY OfRange, Zenon
<1> HIDE DEF t, m, own, moved
\* Where a signal is written first.
<1>7. ASSUME NEW i \in DOMAIN l.main, l.main[i] \in own
      PROVE  /\ n + 1 - i \in a + 1 .. n /\ t[n + 1 - i] = l.main[i]
             /\ \A h \in 1 .. (n + 1 - i) - 1 : t[h] # l.main[i]
  <2>1. i \in 1 .. b /\ n + 1 - i \in a + 1 .. n /\ n + 1 - (n + 1 - i) = i
    BY <1>1, SMTT(60)
  <2>2. t[n + 1 - i] = l.main[i]
    BY <1>2, <2>1
  <2>3. ASSUME NEW h \in 1 .. (n + 1 - i) - 1 PROVE t[h] # l.main[i]
    <3>1. CASE h \in 1 .. a
      <4>1. In(l.alter, t[h])
        <5>1. a + 1 - h \in DOMAIN l.alter /\ l.alter[a + 1 - h] = t[h]
          BY <1>1, <1>2, <3>1
        <5> QED BY <5>1 DEF In
      <4> QED BY <1>5, <1>7, <4>1
    <3>2. CASE h \in a + 1 .. n
      <4>1. n + 1 - h \in DOMAIN l.main /\ t[h] = l.main[n + 1 - h] /\ n + 1 - h # i
        BY <1>1, <1>2, <2>1, <3>2, SMTT(60)
      <4> QED BY <1>1, <4>1 DEF Distinct
    <3> QED BY <1>1, <2>1, <3>1, <3>2
  <2> QED BY <2>1, <2>2, <2>3
<1>8. ASSUME NEW i \in DOMAIN l.alter
      PROVE  /\ a + 1 - i \in 1 .. a /\ t[a + 1 - i] = l.alter[i]
             /\ \A h \in 1 .. (a + 1 - i) - 1 : t[h] # l.alter[i]
  <2>1. i \in 1 .. a /\ a + 1 - i \in 1 .. a /\ a + 1 - (a + 1 - i) = i
    BY <1>1
  <2>2. t[a + 1 - i] = l.alter[i]
    BY <1>2, <2>1
  <2>3. ASSUME NEW h \in 1 .. (a + 1 - i) - 1 PROVE t[h] # l.alter[i]
    <3>1. h \in 1 .. a
      BY <1>1, <2>1
    <3>2. a + 1 - h \in DOMAIN l.alter /\ t[h] = l.alter[a + 1 - h]
      BY <1>1, <1>2, <3>1
    <3>3. a + 1 - h # i
      BY <1>1, <2>1, SMTT(60)
    <3> QED BY <1>1, <3>2, <3>3 DEF Distinct
  <2> QED BY <2>1, <2>2, <2>3
<1>9. \A i : i \in 1 .. n <=> i \in 1 .. a \/ i \in a + 1 .. n
  BY <1>1
<1>10. \A x : In(m, x) <=> x \in own \/ x \in moved
  <2>1. ASSUME NEW x, In(m, x) PROVE x \in own \/ x \in moved
    <3>1. PICK k \in 1 .. n : t[k] = x
      BY <1>3, <2>1 DEF Ordered
    <3>2. CASE k \in 1 .. a
      BY <1>1, <1>2, <1>4, <3>1, <3>2 DEF In
    <3>3. CASE k \in a + 1 .. n
      BY <1>1, <1>2, <1>4, <3>1, <3>3 DEF In
    <3> QED BY <1>9, <3>2, <3>3
  <2>2. ASSUME NEW x, x \in own \/ x \in moved PROVE In(m, x)
    <3>1. \E k \in 1 .. n : t[k] = x
      <4>1. CASE x \in own
        <5>1. PICK i \in DOMAIN l.main : l.main[i] = x
          BY <1>5, <4>1 DEF In
        <5> QED BY <1>7, <1>9, <4>1, <5>1
      <4>2. CASE x \in moved
        <5>1. PICK i \in DOMAIN l.alter : l.alter[i] = x
          BY <1>5, <4>2 DEF In
        <5> QED BY <1>8, <1>9, <5>1
      <4> QED BY <2>2, <4>1, <4>2
    <3> QED BY <1>3, <3>1 DEF Ordered
  <2> QED BY <2>1, <2>2
\* Which of two was written first.
<1>11. ASSUME NEW x, NEW y, x \in own \/ x \in moved, y \in own \/ y \in moved, x # y,
              NEW k \in 1 .. n, t[k] = x, \A h \in 1 .. k - 1 : t[h] # x,
              NEW h2 \in 1 .. n, t[h2] = y, \A h \in 1 .. h2 - 1 : t[h] # y
       PROVE  Before(m, y, x) <=> k < h2
  <2>1. Before(m, y, x) <=> Came(t, n, x, y)
    BY <1>3, <1>10, <1>11 DEF Ordered
  <2>2. Came(t, n, x, y) <=> k < h2
    BY <1>1, <1>11, FirstOf
  <2> QED BY <2>1, <2>2
<1>12. ASSUME NEW x PROVE ~ Before(m, x, x) /\ ~ Before(l.main, x, x)
                          /\ ~ Before(l.alter, x, x)
  <2>1. Distinct(m) /\ DOMAIN m \subseteq Nat
    BY <1>3, LenProperties DEF Ordered
  <2> QED BY <1>1, <2>1 DEF Before, Distinct
<1>13. ASSUME NEW x \in own, NEW y \in own
       PROVE  Before(m, x, y) <=> Before(l.main, x, y)
  <2>1. PICK i \in DOMAIN l.main, j \in DOMAIN l.main : l.main[i] = x /\ l.main[j] = y
    BY <1>5 DEF In
  <2>2. CASE x # y
    <3>1. /\ n + 1 - i \in 1 .. n /\ t[n + 1 - i] = x /\ \A h \in 1 .. (n + 1 - i) - 1 : t[h] # x
          /\ n + 1 - j \in 1 .. n /\ t[n + 1 - j] = y /\ \A h \in 1 .. (n + 1 - j) - 1 : t[h] # y
      BY <1>7, <1>9, <2>1
    <3>2. Before(m, x, y) <=> n + 1 - j < n + 1 - i
      BY <1>11, <2>2, <3>1
    <3>3. Before(l.main, x, y) <=> i < j
      BY <1>1, <2>1, PlaceOf
    <3> QED BY <1>1, <3>2, <3>3
  <2> QED BY <1>12, <2>2
<1>14. ASSUME NEW x \in moved, NEW y \in moved
       PROVE  Before(m, x, y) <=> Before(l.alter, x, y)
  <2>1. PICK i \in DOMAIN l.alter, j \in DOMAIN l.alter : l.alter[i] = x /\ l.alter[j] = y
    BY <1>5 DEF In
  <2>2. CASE x # y
    <3>1. /\ a + 1 - i \in 1 .. n /\ t[a + 1 - i] = x /\ \A h \in 1 .. (a + 1 - i) - 1 : t[h] # x
          /\ a + 1 - j \in 1 .. n /\ t[a + 1 - j] = y /\ \A h \in 1 .. (a + 1 - j) - 1 : t[h] # y
      BY <1>8, <1>9, <2>1
    <3>2. Before(m, x, y) <=> a + 1 - j < a + 1 - i
      BY <1>11, <2>2, <3>1
    <3>3. Before(l.alter, x, y) <=> i < j
      BY <1>1, <2>1, PlaceOf
    <3> QED BY <1>1, <3>2, <3>3
  <2> QED BY <1>12, <2>2
<1>15. ASSUME NEW x \in own, NEW y \in moved PROVE Before(m, x, y)
  <2>1. PICK i \in DOMAIN l.main, j \in DOMAIN l.alter : l.main[i] = x /\ l.alter[j] = y
    BY <1>5 DEF In
  <2>2. x # y
    BY <1>5
  <2>3. /\ n + 1 - i \in a + 1 .. n /\ t[n + 1 - i] = x /\ \A h \in 1 .. (n + 1 - i) - 1 : t[h] # x
        /\ a + 1 - j \in 1 .. a /\ t[a + 1 - j] = y /\ \A h \in 1 .. (a + 1 - j) - 1 : t[h] # y
    BY <1>7, <1>8, <2>1
  <2>4. Before(m, x, y) <=> a + 1 - j < n + 1 - i
    BY <1>9, <1>11, <2>2, <2>3
  <2>5. a + 1 - j < n + 1 - i
    BY <1>1, <2>3
  <2> QED BY <2>4, <2>5
<1>16. Range(m) = own \cup moved
  BY <1>10, OfRange
<1> QED BY <1>13, <1>14, <1>15, <1>16 DEF SamePlot, own, moved, m

\* The first n lines are on the panel, of the last its first j.
Laid(p, lines, n, j) ==
  /\ PanelOK(p)
  /\ Len(p.obj) = n /\ Len(p.graphObj) = n /\ Len(p.split) = n /\ p.sel = n
  /\ \A k \in 1 .. n :
       /\ p.split[k] = k /\ p.obj[k].alter = <<>>
       /\ Ordered(p.obj[k].main, lines[k], IF k = n THEN j ELSE Len(lines[k]))

\* A signal that has appeared goes to the graph of its line.
LEMMA PutInLine ==
  ASSUME NEW q, NEW s \in PanelSignals, NEW n \in Nat \ {0}, NEW j \in Nat,
         NEW lines, Laid(q, lines, n, j), lines[n][j + 1] = s
  PROVE  Laid(PutOn(q, n, s), lines, n, j + 1)
<1> DEFINE r == PutOn(q, n, s)
<1>1. PanelOK(q) /\ n \in DOMAIN q.obj /\ n \in 1 .. n
  BY Domains DEF Laid
<1>2. OnIt(r, q, n, s)
  BY <1>1, PutAndSelected
<1> HIDE DEF r
<1>3. /\ PanelOK(r) /\ Len(r.obj) = n /\ Len(r.graphObj) = n /\ Len(r.split) = n /\ r.sel = n
      /\ r.split = q.split
  BY <1>2 DEF OnIt, Laid
<1>4. ASSUME NEW k \in 1 .. n, k # n
      PROVE  r.obj[k].alter = <<>> /\ Ordered(r.obj[k].main, lines[k], Len(lines[k]))
  <2>1. DOMAIN q.obj = 1 .. n
    BY Domains DEF Laid
  <2>2. r.obj[k] = q.obj[k]
    BY <1>2, <1>4, <2>1 DEF OnIt
  <2> QED BY <1>4, <2>2 DEF Laid
<1>5. r.obj[n].alter = <<>> /\ Ordered(r.obj[n].main, lines[n], j + 1)
  <2>1. q.obj[n].alter = <<>> /\ Ordered(q.obj[n].main, lines[n], j)
    BY <1>1 DEF Laid
  <2>2. /\ r.obj[n].alter = q.obj[n].alter
        /\ r.obj[n].main = IF In(q.obj[n].main, s) THEN q.obj[n].main ELSE <<s>> \o q.obj[n].main
    BY <1>2 DEF OnIt, Pushes
  <2> QED BY <2>1, <2>2, OrderPushed
<1>6. \A k \in 1 .. n : r.split[k] = k
  BY <1>3 DEF Laid
<1>7. Laid(r, lines, n, j + 1)
  BY <1>3, <1>4, <1>5, <1>6 DEF Laid
<1> QED BY <1>7 DEF r

\* A line begins with a new graph.
LEMMA LineBegins ==
  ASSUME NEW i \in Nat, i + 1 <= MaxGraphs, NEW lines, NEW p,
         Laid(p, lines, i, Len(lines[i]))
  PROVE  Laid(Grown(p, i), lines, i + 1, 0)
<1> DEFINE q == Grown(p, i)
<1>1. PanelOK(p) /\ Len(p.obj) = i /\ Len(p.graphObj) = i /\ Len(p.split) = i /\ 1 \in Nat \ {0}
  BY DEF Laid
<1>2. q = WithGraphs(p, 1)
  <2>1. ~(Len(p.graphObj) > i) /\ i + 1 - Len(p.graphObj) = 1
    BY <1>1
  <2> QED BY <2>1 DEF Grown
<1> HIDE DEF q
<1>3. PanelOK(q) /\ Enlarged(q, p, 1)
  BY <1>1, <1>2, GraphsAdded
<1>4. /\ Len(q.obj) = i + 1 /\ q.sel = i + 1 /\ Len(q.graphObj) = i + 1 /\ Len(q.split) = i + 1
      /\ \A g \in 1 .. i : q.obj[g] = p.obj[g] /\ q.split[g] = p.split[g]
      /\ q.obj[i + 1].main = <<>> /\ q.obj[i + 1].alter = <<>> /\ q.split[i + 1] = i + 1
  BY <1>1, <1>3 DEF Enlarged
<1>5. ASSUME NEW k \in 1 .. i
      PROVE  /\ q.split[k] = k /\ q.obj[k].alter = <<>>
             /\ Ordered(q.obj[k].main, lines[k], Len(lines[k]))
  <2>1. /\ p.split[k] = k /\ p.obj[k].alter = <<>>
        /\ Ordered(p.obj[k].main, lines[k], Len(lines[k]))
    BY DEF Laid
  <2> QED BY <1>4, <2>1
<1>6. Ordered(q.obj[i + 1].main, lines[i + 1], 0)
  <2>1. <<>> \in Seq(PanelSignals) /\ DOMAIN <<>> = {}
    OBVIOUS
  <2>2. \A x : ~ In(<<>>, x)
    BY <2>1 DEF In
  <2>3. Distinct(<<>>)
    BY <2>1 DEF Distinct
  <2> QED BY <1>4, <2>1, <2>2, <2>3 DEF Ordered
<1>7. \A k \in 1 .. i + 1 : k \in 1 .. i \/ k = i + 1
  OBVIOUS
<1>8. \A k \in 1 .. i : k # i + 1
  OBVIOUS
<1>9. Laid(q, lines, i + 1, 0)
  BY <1>3, <1>4, <1>5, <1>6, <1>7, <1>8 DEF Laid
<1> QED BY <1>9 DEF q

\* A line, of which every signal has appeared.
LEMMA LineLaid ==
  ASSUME NEW i \in Nat, i + 1 <= MaxGraphs, NEW exist,
         NEW lines, lines[i + 1] \in Seq(PanelSignals), lines[i + 1] # <<>>,
         \A j \in DOMAIN lines[i + 1] : lines[i + 1][j] \in exist,
         NEW p, Laid(p, lines, i, Len(lines[i]))
  PROVE  Laid(WithLine(p, lines[i + 1], i, exist), lines, i + 1, Len(lines[i + 1]))
<1> DEFINE t == lines[i + 1]
<1>1. PICK F : F = LineAfter(p, t, i, exist)
  OBVIOUS
<1>2. /\ Len(t) \in Nat \ {0} /\ \A j \in 1 .. Len(t) : t[j] \in PanelSignals /\ t[j] \in exist
  BY LenProperties, ElementOfSeq, EmptySeq
<1>3. t = lines[i + 1]
  OBVIOUS
<1> HIDE DEF t
<1>4. /\ F[0] = p
      /\ \A j \in 1 .. Len(t) : F[j] = WithSignalOnGraph(F[j - 1], t[j], i, exist)
      /\ WithLine(p, t, i, exist) = F[Len(t)]
  BY <1>1, <1>2, LineEnds, SMTT(60)
\* What the panel is when a signal of the line comes to it.
<1>5. ASSUME NEW j \in Nat, j < Len(t), NEW o, Laid(Grown(o, i), lines, i + 1, j)
      PROVE  Laid(WithSignalOnGraph(o, t[j + 1], i, exist), lines, i + 1, j + 1)
  <2> DEFINE q == Grown(o, i)
             g == Target(q, i)
  <2>1. j + 1 \in 1 .. Len(t) /\ t[j + 1] \in PanelSignals /\ t[j + 1] \in exist
    BY <1>2, <1>5
  <2>2. WithSignalOnGraph(o, t[j + 1], i, exist) = PutOn(q, g, t[j + 1])
    BY <2>1, Zenon DEF WithSignalOnGraph, PutOn
  <2>3. Laid(q, lines, i + 1, j)
    BY <1>5
  <2> HIDE DEF q
  <2>4. g = i + 1
    BY <2>3 DEF Laid, Target, NoGraph
  <2> HIDE DEF g
  <2>5. i + 1 \in Nat \ {0} /\ lines[i + 1][j + 1] = t[j + 1]
    BY <1>3
  <2>6. Laid(PutOn(q, i + 1, t[j + 1]), lines, i + 1, j + 1)
    BY <2>1, <2>3, <2>5, PutInLine
  <2> QED BY <2>2, <2>4, <2>6
<1> DEFINE S == {k \in Nat : k + 1 <= Len(t) => Laid(F[k + 1], lines, i + 1, k + 1)}
<1>6. 0 \in S
  <2>1. Laid(Grown(p, i), lines, i + 1, 0)
    BY LineBegins
  <2>2. F[1] = WithSignalOnGraph(p, t[1], i, exist)
    BY <1>2, <1>4
  <2>3. Laid(WithSignalOnGraph(p, t[0 + 1], i, exist), lines, i + 1, 0 + 1)
    BY <1>2, <1>5, <2>1
  <2> QED BY <2>2, <2>3
<1>7. ASSUME NEW k \in Nat, k \in S PROVE k + 1 \in S
  <2> SUFFICES ASSUME (k + 1) + 1 <= Len(t)
               PROVE  Laid(F[(k + 1) + 1], lines, i + 1, (k + 1) + 1)
    OBVIOUS
  <2>1. /\ (k + 1) + 1 \in 1 .. Len(t) /\ ((k + 1) + 1) - 1 = k + 1 /\ k + 1 \in Nat /\ k + 1 < Len(t)
        /\ Laid(F[k + 1], lines, i + 1, k + 1)
    BY <1>2, <1>7
  <2>2. F[(k + 1) + 1] = WithSignalOnGraph(F[k + 1], t[(k + 1) + 1], i, exist)
    BY <1>4, <2>1
  <2>3. Grown(F[k + 1], i) = F[k + 1]
    <3>1. Len(F[k + 1].graphObj) = i + 1
      BY <2>1 DEF Laid
    <3> QED BY <3>1 DEF Grown
  <2>4. Laid(Grown(F[k + 1], i), lines, i + 1, k + 1)
    BY <2>1, <2>3
  <2> QED BY <1>5, <2>1, <2>2, <2>4
<1>8. \A k \in Nat : k \in S
  <2> HIDE DEF S
  <2> QED BY <1>6, <1>7, FromZeroOn, Zenon
<1>9. Len(t) - 1 \in Nat /\ (Len(t) - 1) + 1 = Len(t)
  BY <1>2
<1>10. Laid(F[Len(t)], lines, i + 1, Len(t))
  <2>1. Len(t) - 1 \in S
    BY <1>8, <1>9
  <2>2. Laid(F[(Len(t) - 1) + 1], lines, i + 1, (Len(t) - 1) + 1)
    BY <1>9, <2>1
  <2> QED BY <1>9, <2>2, Zenon
<1> QED BY <1>3, <1>4, <1>10

\* A file, every signal of which has appeared, on a panel nobody has touched.
LEMMA LoadedLaid ==
  ASSUME NEW f \in Seq(Seq(PanelSignals)), Len(f) <= MaxGraphs, NEW exist,
         \A i \in DOMAIN f : f[i] # <<>> /\ Range(f[i]) \subseteq exist
  PROVE  Laid(Loaded(EmptyPanel, f, exist), f, Len(f), Len(f[Len(f)]))
<1>1. /\ Len(f) \in Nat /\ DOMAIN f = 1 .. Len(f) /\ MaxGraphs \in Nat
      /\ \A i \in 1 .. Len(f) : f[i] \in Seq(PanelSignals)
  BY LenProperties, ElementOfSeq, PanelAssumption DEF PanelAssumption
<1>2. ReadableLines(f) = f
  BY ReadableIs
<1>3. PICK F : Lines(F, EmptyPanel, f, exist) /\ Loaded(EmptyPanel, f, exist) = F[Len(f)]
  BY <1>1, <1>2, LinesEnd
<1>4. /\ F[0] = EmptyPanel
      /\ \A i \in 1 .. Len(f) : F[i] = WithLine(F[i - 1], f[i], i - 1, exist)
  BY <1>3 DEF Lines
<1>5. Laid(EmptyPanel, f, 0, Len(f[0]))
  <2>1. PanelOK(EmptyPanel)
    BY EmptyOK
  <2>2. /\ Len(EmptyPanel.obj) = 0 /\ Len(EmptyPanel.graphObj) = 0
        /\ Len(EmptyPanel.split) = 0 /\ EmptyPanel.sel = 0
    BY DEF EmptyPanel, NoGraph
  <2>3. 1 .. 0 = {}
    OBVIOUS
  <2> QED BY <2>1, <2>2, <2>3 DEF Laid
<1> DEFINE S == {k \in Nat : k <= Len(f) => Laid(F[k], f, k, Len(f[k]))}
<1>6. 0 \in S
  BY <1>4, <1>5
<1>7. ASSUME NEW k \in Nat, k \in S PROVE k + 1 \in S
  <2> SUFFICES ASSUME k + 1 <= Len(f) PROVE Laid(F[k + 1], f, k + 1, Len(f[k + 1]))
    OBVIOUS
  <2>1. /\ Laid(F[k], f, k, Len(f[k])) /\ k + 1 \in 1 .. Len(f) /\ (k + 1) - 1 = k
        /\ k + 1 <= MaxGraphs
    BY <1>1, <1>7
  <2>2. F[k + 1] = WithLine(F[k], f[k + 1], k, exist)
    BY <1>4, <2>1
  <2>3. \A j \in DOMAIN f[k + 1] : f[k + 1][j] \in exist
    <3>1. Range(f[k + 1]) \subseteq exist
      BY <1>1, <2>1
    <3>2. \A j \in DOMAIN f[k + 1] : In(f[k + 1], f[k + 1][j])
      BY DEF In
    <3> QED BY <3>1, <3>2, OfRange, Zenon
  <2>4. f[k + 1] \in Seq(PanelSignals) /\ f[k + 1] # <<>>
    BY <1>1, <2>1
  <2> QED BY <2>1, <2>2, <2>3, <2>4, LineLaid
<1>8. \A k \in Nat : k \in S
  <2> HIDE DEF S
  <2> QED BY <1>6, <1>7, FromZeroOn, Zenon
<1> QED BY <1>1, <1>3, <1>8

-----------------------------------------------------------------------------
(* The panel: what comes back is what was left.                            *)

LEMMA LoadWinStateKeeps ==
  ASSUME PanelIInv, LoadWinState, panel = EmptyPanel,
         \A i \in DOMAIN ini : ini[i] # <<>> /\ Range(ini[i]) \subseteq known
  PROVE  /\ Len(panel'.split) = Len(left)
         /\ \A i \in DOMAIN left : SamePlot(panel'.obj[panel'.split[i]], left[i])
<1> DEFINE r == Loaded(EmptyPanel, ini, known)
<1>1. /\ panel' = r /\ ini \in Seq(Seq(PanelSignals)) /\ Len(ini) <= MaxGraphs
      /\ Len(ini) \in Nat /\ DOMAIN ini = 1 .. Len(ini) /\ DOMAIN ini = DOMAIN left
      /\ Len(left) = Len(ini)
  <2>1. panel' = r /\ Len(panel.obj) + Len(ini) <= MaxGraphs
    BY DEF LoadWinState, Becomes
  <2>2. Len(panel.obj) = 0
    BY DEF EmptyPanel
  <2>3. /\ ini \in Seq(Seq(PanelSignals)) /\ Len(ini) \in Nat /\ DOMAIN ini = 1 .. Len(ini)
        /\ Len(left) \in Nat /\ DOMAIN left = 1 .. Len(left) /\ DOMAIN ini = DOMAIN left
    BY LenProperties DEF PanelIInv
  <2>4. Len(left) = Len(ini)
    BY LenProperties DEF PanelIInv
  <2> QED BY <2>1, <2>2, <2>3, <2>4
<1>2. Laid(r, ini, Len(ini), Len(ini[Len(ini)]))
  BY <1>1, LoadedLaid
<1> HIDE DEF r
<1>3. ASSUME NEW i \in DOMAIN left PROVE SamePlot(r.obj[r.split[i]], left[i])
  <2> DEFINE q == r.obj[i]
             l == left[i]
  <2>1. i \in 1 .. Len(ini)
    BY <1>1
  <2>2. r.split[i] = i /\ q.alter = <<>> /\ Ordered(q.main, ini[i], Len(ini[i]))
    BY <1>2, <2>1 DEF Laid
  <2>3. PlotOK(l) /\ ini[i] = Reverse(l.main \o l.alter)
    BY <1>1 DEF PanelIInv
  <2> HIDE DEF q, l
  <2>4. SamePlot(q, l)
    BY <2>2, <2>3, SamePlotIs
  <2> QED BY <2>2, <2>4 DEF q, l
<1>4. Len(r.split) = Len(ini)
  BY <1>2 DEF Laid
<1> QED BY <1>1, <1>3, <1>4

(* Plots that were left in an orderly way, of signals that have appeared    *)
(* again, come back as they were, the signals of the second axis behind the *)
(* others, for any number of graphs and of signals on each, and whatever    *)
(* sessions died in between (writeSettings, readSettings' timer,            *)
(* addSignalOnGraph).                                                       *)
THEOREM LayoutIsKept == PanelSpec => LayoutKept
<1>1. PanelIInv /\ [PanelNext]_panelVars =>
        [(/\ LoadWinState /\ panel = EmptyPanel
          /\ \A i \in DOMAIN ini : ini[i] # <<>> /\ Range(ini[i]) \subseteq known)
         => /\ Len(panel'.split) = Len(left)
            /\ \A i \in DOMAIN left :
                 SamePlot(panel'.obj[panel'.split[i]], left[i])]_panelVars
  BY LoadWinStateKeeps
<1>2. PanelSpec => []PanelIInv
  BY PanelInvariance
<1>3. PanelSpec => [][(/\ LoadWinState /\ panel = EmptyPanel
          /\ \A i \in DOMAIN ini : ini[i] # <<>> /\ Range(ini[i]) \subseteq known)
         => /\ Len(panel'.split) = Len(left)
            /\ \A i \in DOMAIN left :
                 SamePlot(panel'.obj[panel'.split[i]], left[i])]_panelVars
  BY <1>1, <1>2, PTL DEF PanelSpec
<1> QED BY <1>3, PTL DEF LayoutKept
=============================================================================
