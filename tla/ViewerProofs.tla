---------------------------- MODULE ViewerProofs ----------------------------
(***************************************************************************)
(* What Scripts and Viewer state of the two parts of the archive viewer    *)
(* that keep state of their own - the dialog of the scripts, which the     *)
(* monitor has too, and the loader of the records - proved for every value *)
(* of the constants that ScriptsAssumption and ViewerAssumption allow.     *)
(*                                                                         *)
(* Of the scripts, the invariant IInv says of each pair of lists that the  *)
(* one tells of the other, by names and places rather than by RowOf and    *)
(* TabOf, which search the present lists: Tabbed the scripts and the tabs, *)
(* Listed the scripts and the names in the list of the active ones, OnDisk *)
(* the scripts and the files.  Running is CurrentIsRun with the cycle that *)
(* is under way, and Waits is what the window finds when it gets mtx_ in   *)
(* the middle of saveScript of the small dialog.                           *)
(*                                                                         *)
(* Of the viewer, the invariant ViewerInv says of a buffer that it is an   *)
(* ascending list of the records at certain places - a file, a block, a    *)
(* position - each once.  The list of what the loaded files held is one of *)
(* the same places, and two ascending lists of the same places are equal.  *)
(***************************************************************************)
EXTENDS Scripts, Viewer, FiniteSetTheorems, SequenceTheorems, WellFoundedInduction,
        TLAPS


(* The invariant.                                                          *)

AllTexts == Texts \cup {Stored, Empty}

ScriptType == [name : Names, text : AllTexts, isActive : BOOLEAN, isChange : BOOLEAN,
               tabInx : Nat]
TabType    == [name : Names, row : Nat, edit : AllTexts]

Types ==
  /\ scrState \in Seq(ScriptType) /\ tabs \in Seq(TabType) /\ active \in Seq(Names)
  /\ current \in 0 .. Len(tabs) /\ (current = 0 <=> tabs = <<>>)
  /\ files \in [DOMAIN files -> AllTexts]
  /\ mtx \in {"free", "runs", "skips"}
  /\ pos \in (IF Mode = "player" THEN {"start"} ELSE {"start", "past"})
  /\ sub \in [edit : AllTexts, isChange : BOOLEAN, pc : {"closed", "open", "activate"}]

\* A script's name and place, and the tabs, tell of each other.
Tabbed(scr, tbs) ==
  /\ \A r, q \in DOMAIN scr : scr[r].name = scr[q].name => r = q
  /\ \A r \in DOMAIN scr : scr[r].tabInx # 0 =>
       scr[r].tabInx \in DOMAIN tbs /\ tbs[scr[r].tabInx].name = scr[r].name
  /\ \A inx \in DOMAIN tbs : \E r \in DOMAIN scr :
       scr[r].name = tbs[inx].name /\ scr[r].tabInx = inx

\* The list of active scripts.
Listed(scr, act) ==
  /\ \A i \in DOMAIN act : \E r \in DOMAIN scr : scr[r].isActive /\ scr[r].name = act[i]
  /\ \A r \in DOMAIN scr : scr[r].isActive => \E i \in DOMAIN act : act[i] = scr[r].name
  /\ \A i, j \in DOMAIN act : act[i] = act[j] => i = j

\* The files and the texts the scripts run with.
OnDisk(scr, fls) ==
  /\ \A name \in DOMAIN fls : \E r \in DOMAIN scr : scr[r].name = name
  /\ \A r \in DOMAIN scr : scr[r].text # Empty =>
       scr[r].name \in DOMAIN fls /\ fls[scr[r].name] = scr[r].text

\* Every active script is one that the texts ld are of, or was load.lua.
IsRun(scr, ld, ex) ==
  \A r \in DOMAIN scr : (scr[r].isActive /\ scr[r].name # LoadLua) =>
     scr[r].name \in ex \/ scr[r].text \in ld

\* What is gone over, and what a cycle is going over, is with these texts.
Running == (pos # "start" \/ mtx = "runs") => IsRun(scrState, loaded, exLoad)

\* While the window waits for mtx_, the script stays and is not active.
Waits ==
  sub.pc = "activate" => \E r \in DOMAIN scrState :
     scrState[r].name = SubName /\ ~scrState[r].isActive

IInv ==
  /\ Types
  /\ Tabbed(scrState, tabs) /\ Listed(scrState, active) /\ OnDisk(scrState, files)
  /\ Running /\ Waits

-----------------------------------------------------------------------------
(* Lists.                                                                  *)

\* Every set of numbers that is not empty has a least one, which Min names.
LEMMA MinIsLeast ==
  ASSUME NEW T, T \subseteq Nat, T # {}
  PROVE  Min(T) \in T
<1> DEFINE Below == {ss \in Nat \X Nat : ss[1] < ss[2]}
<1>1. Below = OpToRel(<, Nat)
  BY DEF OpToRel
<1>2. IsWellFoundedOn(Below, Nat)
  BY <1>1, NatLessThanWellFounded
<1>3. PICK x \in T : \A y \in T : <<y, x>> \notin Below
  <2> HIDE DEF Below
  <2> QED BY <1>2, WFMin, Zenon
<1>4. \A y \in T : x <= y
  <2> TAKE y \in T
  <2>1. x \in Nat /\ y \in Nat /\ <<y, x>> \notin Below
    BY <1>3
  <2>2. y < x => <<y, x>> \in Below
    BY <2>1
  <2>3. QED
    BY <2>1, <2>2
<1>5. QED
  BY <1>4, Zenon DEF Min

\* A list without the place i.
LEMMA RemovedAt ==
  ASSUME NEW T, NEW s \in Seq(T), NEW i \in 1 .. Len(s)
  PROVE  /\ RemoveAt(s, i) \in Seq(T)
         /\ Len(RemoveAt(s, i)) = Len(s) - 1
         /\ DOMAIN RemoveAt(s, i) = 1 .. Len(s) - 1
         /\ \A j \in 1 .. Len(s) - 1 :
              RemoveAt(s, i)[j] = IF j < i THEN s[j] ELSE s[j + 1]
<1> DEFINE a == SubSeq(s, 1, i - 1)
           b == SubSeq(s, i + 1, Len(s))
<1>1. Len(s) \in Nat /\ \A j \in 1 .. Len(s) : s[j] \in T
  BY LenProperties, ElementOfSeq
<1>2. a \in Seq(T) /\ Len(a) = i - 1 /\ \A j \in 1 .. i - 1 : a[j] = s[j]
  <2>1. \A j \in 1 .. i - 1 : s[j] \in T
    BY <1>1
  <2>2. 1 \in Int /\ i - 1 \in Int
    BY <1>1
  <2>3. /\ a \in Seq(T) /\ Len(a) = IF 1 <= i - 1 THEN (i - 1) - 1 + 1 ELSE 0
        /\ \A j \in 1 .. (i - 1) - 1 + 1 : a[j] = s[1 + j - 1]
    BY <2>1, <2>2, SubSeqProperties
  <2>4. QED
    BY <1>1, <2>3
<1>3. b \in Seq(T) /\ Len(b) = Len(s) - i /\ \A j \in 1 .. Len(s) - i : b[j] = s[i + j]
  <2>1. \A j \in i + 1 .. Len(s) : s[j] \in T
    BY <1>1
  <2>2. i + 1 \in Int /\ Len(s) \in Int
    BY <1>1
  <2>3. /\ b \in Seq(T) /\ Len(b) = IF i + 1 <= Len(s) THEN Len(s) - (i + 1) + 1 ELSE 0
        /\ \A j \in 1 .. Len(s) - (i + 1) + 1 : b[j] = s[(i + 1) + j - 1]
    BY <2>1, <2>2, SubSeqProperties
  <2>4. QED
    BY <1>1, <2>3
<1>4. /\ a \o b \in Seq(T) /\ Len(a \o b) = Len(a) + Len(b)
      /\ \A j \in 1 .. Len(a) + Len(b) :
           (a \o b)[j] = IF j <= Len(a) THEN a[j] ELSE b[j - Len(a)]
  <2> HIDE DEF a, b
  <2> QED BY <1>2, <1>3, ConcatProperties
<1>5. RemoveAt(s, i) = a \o b
  BY DEF RemoveAt
<1> HIDE DEF a, b
<1>6. Len(a \o b) = Len(s) - 1
  BY <1>1, <1>2, <1>3, <1>4
<1>7. DOMAIN (a \o b) = 1 .. Len(s) - 1
  BY <1>4, <1>6, LenProperties
<1>8. ASSUME NEW j \in 1 .. Len(s) - 1
      PROVE  (a \o b)[j] = IF j < i THEN s[j] ELSE s[j + 1]
  <2>1. CASE j < i
    BY <1>1, <1>2, <1>3, <1>4, <2>1
  <2>2. CASE j >= i
    <3>1. PICK m \in 1 .. Len(s) - i : m = j - Len(a) /\ i + m = j + 1
      BY <1>1, <1>2, <2>2
    <3>2. (a \o b)[j] = b[m]
      BY <1>1, <1>2, <1>3, <1>4, <2>2, <3>1
    <3>3. b[m] = s[j + 1]
      BY <1>3, <3>1
    <3>4. ~(j < i)
      BY <1>1, <2>2
    <3>5. QED
      BY <3>2, <3>3, <3>4
  <2>3. j < i \/ j >= i
    BY <1>1
  <2>4. QED
    BY <2>1, <2>2, <2>3, Zenon
<1>9. QED
  BY <1>4, <1>5, <1>6, <1>7, <1>8

\* What is left has places of its own, in which it stands as before.
LEMMA RemovedPlaces ==
  ASSUME NEW T, NEW s \in Seq(T), NEW i \in DOMAIN s
  PROVE  \E n \in Seq(T) : n = RemoveAt(s, i) /\
           \E f \in [DOMAIN n -> DOMAIN s \ {i}] :
             /\ \A j \in DOMAIN n : n[j] = s[f[j]]
             /\ \A j, k \in DOMAIN n : f[j] = f[k] => j = k
             /\ \A x \in DOMAIN s \ {i} : \E j \in DOMAIN n : f[j] = x
<1>1. Len(s) \in Nat /\ DOMAIN s = 1 .. Len(s)
  BY LenProperties
<1>2. /\ RemoveAt(s, i) \in Seq(T)
      /\ DOMAIN RemoveAt(s, i) = 1 .. Len(s) - 1
      /\ \A j \in 1 .. Len(s) - 1 :
           RemoveAt(s, i)[j] = IF j < i THEN s[j] ELSE s[j + 1]
  BY <1>1, RemovedAt
<1> DEFINE n == RemoveAt(s, i)
           f == [j \in DOMAIN n |-> IF j < i THEN j ELSE j + 1]
<1> HIDE DEF n
<1>3. /\ n \in Seq(T) /\ DOMAIN n = 1 .. Len(s) - 1
      /\ \A j \in DOMAIN n : n[j] = IF j < i THEN s[j] ELSE s[j + 1]
  BY <1>2 DEF n
<1>4. f \in [DOMAIN n -> DOMAIN s \ {i}]
  BY <1>1, <1>3
<1>5. \A j \in DOMAIN n : n[j] = s[f[j]]
  BY <1>1, <1>3
<1>6. \A j, k \in DOMAIN n : f[j] = f[k] => j = k
  BY <1>1, <1>3
<1>7. ASSUME NEW x \in DOMAIN s \ {i}
      PROVE  \E j \in DOMAIN n : f[j] = x
  <2>1. CASE x < i
    <3>1. x \in DOMAIN n /\ f[x] = x
      BY <1>1, <1>3, <2>1
    <3>2. QED
      BY <3>1
  <2>2. CASE x > i
    <3>1. x - 1 \in DOMAIN n /\ f[x - 1] = x
      BY <1>1, <1>3, <2>2
    <3>2. QED
      BY <3>1
  <2>3. QED
    BY <1>1, <2>1, <2>2
<1> HIDE DEF f
<1>8. QED
  BY <1>3, <1>4, <1>5, <1>6, <1>7, ZenonT(60) DEF n

\* A name leaves a list in which it is once at most.
LEMMA RemovedFirst ==
  ASSUME NEW T, NEW s \in Seq(T), NEW e,
         \A i, j \in DOMAIN s : s[i] = s[j] => i = j
  PROVE  \E r \in Seq(T) :
           /\ r = RemoveFirst(s, e)
           /\ \A i \in DOMAIN r : \E j \in DOMAIN s : s[j] = r[i] /\ s[j] # e
           /\ \A j \in DOMAIN s : s[j] # e => \E i \in DOMAIN r : r[i] = s[j]
           /\ \A i, j \in DOMAIN r : r[i] = r[j] => i = j
<1>1. Len(s) \in Nat /\ DOMAIN s = 1 .. Len(s)
  BY LenProperties
<1>2. CASE ~ \E i \in 1 .. Len(s) : s[i] = e
  <2>1. RemoveFirst(s, e) = s
    BY <1>2 DEF RemoveFirst
  <2>2. QED
    BY <1>1, <1>2, <2>1
<1>3. CASE \E i \in 1 .. Len(s) : s[i] = e
  <2> DEFINE I == {i \in 1 .. Len(s) : s[i] = e}
  <2>1. SelectInSeq(s, LAMBDA v : v = e) = Min(I)
    BY <1>3 DEF SelectInSeq
  <2>2. I \subseteq Nat /\ I # {}
    BY <1>3
  <2>3. Min(I) \in I
    <3> HIDE DEF I
    <3> QED BY <2>2, MinIsLeast
  <2>4. PICK k \in DOMAIN s : k = Min(I) /\ s[k] = e
    BY <1>1, <2>3
  <2>5. RemoveFirst(s, e) = RemoveAt(s, k)
    BY <1>3, <2>1, <2>4 DEF RemoveFirst
  <2>6. PICK r \in Seq(T) : r = RemoveAt(s, k) /\
          \E f \in [DOMAIN r -> DOMAIN s \ {k}] :
             /\ \A j \in DOMAIN r : r[j] = s[f[j]]
             /\ \A i, j \in DOMAIN r : f[i] = f[j] => i = j
             /\ \A x \in DOMAIN s \ {k} : \E j \in DOMAIN r : f[j] = x
    BY RemovedPlaces
  <2>7. PICK f \in [DOMAIN r -> DOMAIN s \ {k}] :
             /\ \A j \in DOMAIN r : r[j] = s[f[j]]
             /\ \A i, j \in DOMAIN r : f[i] = f[j] => i = j
             /\ \A x \in DOMAIN s \ {k} : \E j \in DOMAIN r : f[j] = x
    BY <2>6
  <2>8. \A x \in DOMAIN s \ {k} : s[x] # e
    BY <2>4
  <2>9. RemoveFirst(s, e) = r
    BY <2>5, <2>6
  <2>10. \A i \in DOMAIN r : \E j \in DOMAIN s : s[j] = r[i] /\ s[j] # e
    BY <2>7, <2>8
  <2>11. \A j \in DOMAIN s : s[j] # e => \E i \in DOMAIN r : r[i] = s[j]
    BY <2>4, <2>7
  <2>12. \A i, j \in DOMAIN r : r[i] = r[j] => i = j
    BY <2>7
  <2>13. QED
    BY <2>6, <2>9, <2>10, <2>11, <2>12
<1>4. QED
  BY <1>2, <1>3

\* The row of a name, or 0.
LEMMA RowFacts ==
  ASSUME scrState \in Seq(ScriptType), NEW name
  PROVE  /\ RowOf(name) # 0 =>
              RowOf(name) \in DOMAIN scrState /\ scrState[RowOf(name)].name = name
         /\ RowOf(name) = 0 => \A r \in DOMAIN scrState : scrState[r].name # name
<1> DEFINE I == {r \in 1 .. Len(scrState) : scrState[r].name = name}
<1>1. Len(scrState) \in Nat /\ DOMAIN scrState = 1 .. Len(scrState)
  BY LenProperties
<1>2. RowOf(name) = IF I # {} THEN Min(I) ELSE 0
  BY DEF RowOf, SelectInSeq
<1>3. I \subseteq Nat /\ (I # {} => Min(I) \in I)
  <2>1. I \subseteq Nat
    OBVIOUS
  <2>2. QED
    <3> HIDE DEF I
    <3> QED BY <2>1, MinIsLeast
<1>4. QED
  BY <1>1, <1>2, <1>3

\* The tab of a name, or 0.
LEMMA TabFacts ==
  ASSUME tabs \in Seq(TabType), NEW name
  PROVE  /\ TabOf(name) # 0 => TabOf(name) \in DOMAIN tabs /\ tabs[TabOf(name)].name = name
         /\ TabOf(name) = 0 => \A t \in DOMAIN tabs : tabs[t].name # name
<1> DEFINE I == {t \in 1 .. Len(tabs) : tabs[t].name = name}
<1>1. Len(tabs) \in Nat /\ DOMAIN tabs = 1 .. Len(tabs)
  BY LenProperties
<1>2. TabOf(name) = IF I # {} THEN Min(I) ELSE 0
  BY DEF TabOf, SelectInSeq
<1>3. I \subseteq Nat /\ (I # {} => Min(I) \in I)
  <2>1. I \subseteq Nat
    OBVIOUS
  <2>2. QED
    <3> HIDE DEF I
    <3> QED BY <2>1, MinIsLeast
<1>4. QED
  BY <1>1, <1>2, <1>3

\* As long as the list is short, one of the new names is free.
LEMMA FreeName ==
  ASSUME scrState \in Seq(ScriptType), Len(scrState) < MaxScripts
  PROVE  LET name == NewNames[SelectInSeq(NewNames, LAMBDA n : ~HasName(n))]
         IN  name \in Names /\ \A r \in DOMAIN scrState : scrState[r].name # name
<1> DEFINE free == {i \in 1 .. Len(NewNames) : ~HasName(NewNames[i])}
<1>1. /\ Len(scrState) \in Nat /\ DOMAIN scrState = 1 .. Len(scrState)
      /\ Len(NewNames) \in Nat /\ DOMAIN NewNames = 1 .. Len(NewNames)
      /\ Len(scrState) < Len(NewNames)
  BY LenProperties, ScriptsAssumption
<1>2. free # {}
  <2> SUFFICES ASSUME free = {} PROVE FALSE
    OBVIOUS
  <2> DEFINE f == [i \in 1 .. Len(NewNames) |-> RowOf(NewNames[i])]
             S == 1 .. Len(NewNames)
             T == 1 .. Len(scrState)
  <2>1. \A i \in S : RowOf(NewNames[i]) \in T /\ scrState[RowOf(NewNames[i])].name = NewNames[i]
    BY <1>1, RowFacts DEF HasName
  <2>2. f \in [S -> T]
    BY <2>1
  <2>3. /\ IsFiniteSet(S) /\ Cardinality(S) = Len(NewNames)
        /\ IsFiniteSet(T) /\ Cardinality(T) = Len(scrState)
    <3>1. ASSUME NEW n \in Nat
          PROVE  IsFiniteSet(1 .. n) /\ Cardinality(1 .. n) = n
      <4>1. IsFiniteSet(1 .. n) /\ Cardinality(1 .. n) = IF 1 > n THEN 0 ELSE n - 1 + 1
        BY FS_Interval
      <4>2. QED
        BY <4>1
    <3>2. QED
      BY <1>1, <3>1
  <2>4. Cardinality(T) < Cardinality(S)
    BY <1>1, <2>3
  <2>5. \E x, y \in S : x # y /\ f[x] = f[y]
    <3> HIDE DEF S, T, f
    <3> QED BY <2>2, <2>3, <2>4, FS_PigeonHole
  <2>6. PICK x, y \in S : x # y /\ RowOf(NewNames[x]) = RowOf(NewNames[y])
    BY <2>5
  <2>7. NewNames[x] = NewNames[y]
    BY <2>1, <2>6
  <2>8. QED
    BY <1>1, <2>6, <2>7, ScriptsAssumption DEF IsInjective
<1>3. Min(free) \in free
  <2>1. free \subseteq Nat
    OBVIOUS
  <2>2. QED
    <3> HIDE DEF free
    <3> QED BY <1>2, <2>1, MinIsLeast
<1>4. SelectInSeq(NewNames, LAMBDA n : ~HasName(n)) = Min(free)
  BY <1>2 DEF SelectInSeq
<1>5. PICK k \in 1 .. Len(NewNames) : k = Min(free) /\ ~HasName(NewNames[k])
  BY <1>3
<1>6. NewNames[k] \in Names
  BY <1>1 DEF Names, Range
<1>7. \A r \in DOMAIN scrState : scrState[r].name # NewNames[k]
  BY <1>5, RowFacts DEF HasName
<1>8. QED
  BY <1>4, <1>5, <1>6, <1>7

-----------------------------------------------------------------------------
(* What the handlers do to the lists, for any lists.                       *)

\* The same names, places and marks of activity.
Alike(scr, new) ==
  /\ DOMAIN new = DOMAIN scr
  /\ \A r \in DOMAIN scr : /\ new[r].name = scr[r].name /\ new[r].tabInx = scr[r].tabInx
                           /\ new[r].isActive = scr[r].isActive

\* Marks and texts do not matter to the lists.
LEMMA AlikeLists ==
  ASSUME NEW scr, NEW new, Alike(scr, new),
         NEW tbs, NEW newTabs, DOMAIN newTabs = DOMAIN tbs,
         \A i \in DOMAIN tbs : newTabs[i].name = tbs[i].name,
         NEW act
  PROVE  /\ Tabbed(scr, tbs) => Tabbed(new, newTabs)
         /\ Listed(scr, act) => Listed(new, act)
<1>1. Tabbed(scr, tbs) => Tabbed(new, newTabs)
  BY DEF Alike, Tabbed
<1>2. Listed(scr, act) => Listed(new, act)
  BY DEF Alike, Listed
<1>. QED BY <1>1, <1>2

\* A script is added, with a name of its own and not active.
Longer(scr, new, st) ==
  /\ DOMAIN new = DOMAIN scr \cup {Len(scr) + 1} /\ Len(scr) + 1 \notin DOMAIN scr
  /\ new[Len(scr) + 1] = st
  /\ \A r \in DOMAIN scr : new[r] = scr[r]

\* Append adds a script.
LEMMA ScriptAdded ==
  ASSUME NEW scr \in Seq(ScriptType), NEW st \in ScriptType
  PROVE  Append(scr, st) \in Seq(ScriptType) /\ Longer(scr, Append(scr, st), st)
<1> DEFINE new == Append(scr, st)
<1>1. /\ Len(scr) \in Nat /\ DOMAIN scr = 1 .. Len(scr)
      /\ new \in Seq(ScriptType) /\ Len(new) = Len(scr) + 1
      /\ \A r \in 1 .. Len(scr) : new[r] = scr[r]
      /\ new[Len(scr) + 1] = st
  BY LenProperties, AppendProperties
<1> HIDE DEF new
<1>2. DOMAIN new = 1 .. Len(scr) + 1
  BY <1>1, LenProperties
<1>3. Longer(scr, new, st)
  BY <1>1, <1>2 DEF Longer
<1>. QED BY <1>1, <1>3 DEF new

\* A script that is not active may be added.
LEMMA LongerLists ==
  ASSUME NEW scr, NEW new, NEW st, Longer(scr, new, st),
         \A r \in DOMAIN scr : scr[r].name # st.name, ~st.isActive,
         NEW tbs, NEW act, NEW ld, NEW ex
  PROVE  /\ (st.tabInx = 0 /\ Tabbed(scr, tbs)) => Tabbed(new, tbs)
         /\ Listed(scr, act) => Listed(new, act)
         /\ IsRun(scr, ld, ex) => IsRun(new, ld, ex)
<1>1. PICK n : /\ DOMAIN new = DOMAIN scr \cup {n} /\ n \notin DOMAIN scr /\ new[n] = st
               /\ \A r \in DOMAIN scr : new[r] = scr[r]
  BY DEF Longer
<1>2. ASSUME st.tabInx = 0, Tabbed(scr, tbs)
      PROVE  Tabbed(new, tbs)
  BY <1>1, <1>2 DEF Tabbed
<1>3. ASSUME Listed(scr, act)
      PROVE  Listed(new, act)
  BY <1>1, <1>3 DEF Listed
<1>4. ASSUME IsRun(scr, ld, ex)
      PROVE  IsRun(new, ld, ex)
  BY <1>1, <1>4 DEF IsRun
<1>. QED BY <1>2, <1>3, <1>4

\* A tab is added for a script that had none.
Placed(scr, new, row, place) ==
  /\ DOMAIN new = DOMAIN scr /\ row \in DOMAIN scr
  /\ \A r \in DOMAIN scr : new[r].name = scr[r].name
  /\ \A r \in DOMAIN scr : r # row => new[r].tabInx = scr[r].tabInx
  /\ new[row].tabInx = place

\* A tab is opened at the end.
LEMMA TabAdded ==
  ASSUME NEW scr, NEW tbs \in Seq(TabType), Tabbed(scr, tbs),
         NEW row, NEW tab \in TabType, tab.name = scr[row].name,
         \A inx \in DOMAIN tbs : tbs[inx].name # tab.name,
         NEW new, Placed(scr, new, row, Len(tbs) + 1)
  PROVE  /\ Append(tbs, tab) \in Seq(TabType) /\ Len(Append(tbs, tab)) = Len(tbs) + 1
         /\ Tabbed(new, Append(tbs, tab))
<1> DEFINE newTabs == Append(tbs, tab)
<1>1. /\ Len(tbs) \in Nat /\ DOMAIN tbs = 1 .. Len(tbs)
      /\ newTabs \in Seq(TabType) /\ Len(newTabs) = Len(tbs) + 1
      /\ \A i \in 1 .. Len(tbs) : newTabs[i] = tbs[i]
      /\ newTabs[Len(tbs) + 1] = tab
  BY LenProperties, AppendProperties
<1> HIDE DEF newTabs
<1>2. PICK n \in Nat : n = Len(tbs) + 1
  BY <1>1
<1>3. /\ DOMAIN newTabs = DOMAIN tbs \cup {n} /\ n \notin DOMAIN tbs /\ n # 0
      /\ \A i \in DOMAIN tbs : newTabs[i] = tbs[i]
      /\ newTabs[n] = tab /\ new[row].tabInx = n
  <2>1. DOMAIN newTabs = 1 .. Len(tbs) + 1
    BY <1>1, LenProperties
  <2>. QED BY <1>1, <1>2, <2>1 DEF Placed
<1>4. \A r, q \in DOMAIN new : new[r].name = new[q].name => r = q
  BY DEF Tabbed, Placed
<1>5. \A r \in DOMAIN new : new[r].tabInx # 0 =>
        new[r].tabInx \in DOMAIN newTabs /\ newTabs[new[r].tabInx].name = new[r].name
  BY <1>3 DEF Tabbed, Placed
<1>6. \A inx \in DOMAIN newTabs : \E r \in DOMAIN new :
        new[r].name = newTabs[inx].name /\ new[r].tabInx = inx
  <2> TAKE inx \in DOMAIN newTabs
  <2>1. CASE inx = n
    BY <1>3, <2>1 DEF Placed
  <2>2. CASE inx \in DOMAIN tbs
    <3>1. PICK r \in DOMAIN scr : scr[r].name = tbs[inx].name /\ scr[r].tabInx = inx
      BY <2>2 DEF Tabbed
    <3>2. r # row
      BY <2>2, <3>1
    <3>. QED BY <1>3, <2>2, <3>1, <3>2 DEF Placed
  <2>. QED BY <1>3, <2>1, <2>2
<1>7. Tabbed(new, newTabs)
  BY <1>4, <1>5, <1>6 DEF Tabbed
<1>. QED BY <1>1, <1>7 DEF newTabs

\* A tab goes, and the places of those behind it move.
LEMMA TabTaken ==
  ASSUME NEW scr \in Seq(ScriptType), NEW tbs \in Seq(TabType), Tabbed(scr, tbs),
         NEW inx \in DOMAIN tbs
  PROVE  /\ TabGone(scr, inx) \in Seq(ScriptType)
         /\ RemoveAt(tbs, inx) \in Seq(TabType)
         /\ Len(RemoveAt(tbs, inx)) = Len(tbs) - 1
         /\ Tabbed(TabGone(scr, inx), RemoveAt(tbs, inx))
         /\ DOMAIN TabGone(scr, inx) = DOMAIN scr
         /\ \A r \in DOMAIN scr :
              /\ TabGone(scr, inx)[r].name = scr[r].name
              /\ TabGone(scr, inx)[r].text = scr[r].text
              /\ TabGone(scr, inx)[r].isActive = scr[r].isActive
              /\ scr[r].tabInx = inx => TabGone(scr, inx)[r].tabInx = 0
<1>1. /\ Len(tbs) \in Nat /\ DOMAIN tbs = 1 .. Len(tbs)
      /\ Len(scr) \in Nat /\ DOMAIN scr = 1 .. Len(scr)
      /\ \A r \in DOMAIN scr : scr[r] \in ScriptType
  BY LenProperties, ElementOfSeq
<1> DEFINE new == TabGone(scr, inx)
           newTabs == RemoveAt(tbs, inx)
<1>2. /\ newTabs \in Seq(TabType) /\ Len(newTabs) = Len(tbs) - 1
      /\ DOMAIN newTabs = 1 .. Len(tbs) - 1
      /\ \A i \in 1 .. Len(tbs) - 1 : newTabs[i] = IF i < inx THEN tbs[i] ELSE tbs[i + 1]
  BY <1>1, RemovedAt
<1>3. /\ DOMAIN new = DOMAIN scr
      /\ \A r \in DOMAIN scr :
           /\ new[r] \in ScriptType
           /\ new[r].name = scr[r].name /\ new[r].text = scr[r].text
           /\ new[r].isActive = scr[r].isActive
           /\ scr[r].tabInx = inx => new[r].tabInx = 0
           /\ scr[r].tabInx > inx => new[r].tabInx = scr[r].tabInx - 1
           /\ scr[r].tabInx < inx => new[r].tabInx = scr[r].tabInx
  <2>1. DOMAIN new = DOMAIN scr
    BY DEF TabGone
  <2>2. ASSUME NEW r \in DOMAIN scr
        PROVE  /\ new[r] \in ScriptType
               /\ new[r].name = scr[r].name /\ new[r].text = scr[r].text
               /\ new[r].isActive = scr[r].isActive
               /\ scr[r].tabInx = inx => new[r].tabInx = 0
               /\ scr[r].tabInx > inx => new[r].tabInx = scr[r].tabInx - 1
               /\ scr[r].tabInx < inx => new[r].tabInx = scr[r].tabInx
    <3>1. scr[r] \in ScriptType /\ scr[r].tabInx \in Nat /\ inx \in Nat
      BY <1>1 DEF ScriptType
    <3>2. CASE scr[r].tabInx = inx
      <4>1. new[r] = [scr[r] EXCEPT !.tabInx = 0]
        BY <3>2 DEF TabGone
      <4>. QED BY <3>1, <3>2, <4>1 DEF ScriptType
    <3>3. CASE scr[r].tabInx > inx
      <4>1. new[r] = [scr[r] EXCEPT !.tabInx = @ - 1]
        BY <3>1, <3>3 DEF TabGone
      <4>2. scr[r].tabInx - 1 \in Nat
        BY <3>1, <3>3
      <4>. QED BY <3>1, <3>3, <4>1, <4>2, SMTT(60) DEF ScriptType
    <3>4. CASE scr[r].tabInx < inx
      <4>1. new[r] = scr[r]
        BY <3>1, <3>4 DEF TabGone
      <4>. QED BY <3>1, <3>4, <4>1
    <3>. QED BY <3>1, <3>2, <3>3, <3>4
  <2>. QED BY <2>1, <2>2
<1> HIDE DEF new, newTabs
<1>4. new \in Seq(ScriptType)
  <2>1. new = [r \in DOMAIN scr |-> new[r]]
    BY DEF new, TabGone
  <2>2. new \in [1 .. Len(scr) -> ScriptType]
    BY <1>1, <1>3, <2>1
  <2>. QED BY <1>1, <2>2
<1>5. \A r \in DOMAIN scr : scr[r].tabInx \in Nat
  BY <1>1 DEF ScriptType
<1>6. \A r \in DOMAIN new : new[r].tabInx # 0 =>
        new[r].tabInx \in DOMAIN newTabs /\ newTabs[new[r].tabInx].name = new[r].name
  <2> SUFFICES ASSUME NEW r \in DOMAIN scr, new[r].tabInx # 0
               PROVE  new[r].tabInx \in DOMAIN newTabs
                      /\ newTabs[new[r].tabInx].name = new[r].name
    BY <1>3
  <2>1. PICK t \in Nat : t = scr[r].tabInx
    BY <1>5
  <2>2. PICK u \in Nat : u = new[r].tabInx
    BY <1>3 DEF ScriptType
  <2>3. (t > inx /\ u = t - 1) \/ (t < inx /\ u = t)
    BY <1>1, <1>3, <2>1, <2>2
  <2>4. t # 0
    BY <1>1, <2>2, <2>3
  <2>5. t \in 1 .. Len(tbs) /\ tbs[t].name = scr[r].name
    BY <1>1, <2>1, <2>4 DEF Tabbed
  <2>6. u \in 1 .. Len(tbs) - 1 /\ newTabs[u] = tbs[t]
    BY <1>1, <1>2, <2>2, <2>3, <2>5
  <2>. QED BY <1>2, <1>3, <2>2, <2>5, <2>6
<1>7. \A i \in DOMAIN newTabs : \E r \in DOMAIN new :
        new[r].name = newTabs[i].name /\ new[r].tabInx = i
  <2> TAKE i \in DOMAIN newTabs
  <2>1. PICK t \in 1 .. Len(tbs) :
          newTabs[i] = tbs[t] /\ ((t = i /\ i < inx) \/ (t = i + 1 /\ t > inx))
    <3>1. CASE i < inx
      <4>1. i \in 1 .. Len(tbs) /\ newTabs[i] = tbs[i]
        BY <1>1, <1>2, <3>1
      <4>. QED BY <3>1, <4>1
    <3>2. CASE ~(i < inx)
      <4>1. i + 1 \in 1 .. Len(tbs) /\ newTabs[i] = tbs[i + 1] /\ i + 1 > inx
        BY <1>1, <1>2, <3>2
      <4>. QED BY <4>1
    <3>. QED BY <3>1, <3>2
  <2>2. PICK r \in DOMAIN scr : scr[r].name = tbs[t].name /\ scr[r].tabInx = t
    BY <1>1 DEF Tabbed
  <2>3. i \in Nat
    BY <1>2
  <2>4. new[r].tabInx = i
    BY <1>3, <2>1, <2>2, <2>3
  <2>. QED BY <1>3, <2>1, <2>2, <2>4
<1>8. \A r, q \in DOMAIN new : new[r].name = new[q].name => r = q
  BY <1>3 DEF Tabbed
<1>9. Tabbed(new, newTabs)
  BY <1>6, <1>7, <1>8 DEF Tabbed
<1>. QED BY <1>2, <1>3, <1>4, <1>9 DEF new, newTabs

\* The list new is scr without its row.
OneLess(scr, row, new) ==
  \E f \in [DOMAIN new -> DOMAIN scr \ {row}] :
    /\ \A j \in DOMAIN new : new[j] = scr[f[j]]
    /\ \A j, k \in DOMAIN new : f[j] = f[k] => j = k
    /\ \A x \in DOMAIN scr \ {row} : \E j \in DOMAIN new : f[j] = x

\* A row of the list, and a name of the active ones, goes.
LEMMA RowTaken ==
  ASSUME NEW scr \in Seq(ScriptType), NEW row \in DOMAIN scr
  PROVE  \E new \in Seq(ScriptType) : new = RemoveAt(scr, row) /\ OneLess(scr, row, new)
BY RemovedPlaces, SMTT(60) DEF OneLess

\* A name is taken out of the active ones, if it is there.
LEMMA NameTaken ==
  ASSUME NEW act \in Seq(Names), NEW name,
         \A i, j \in DOMAIN act : act[i] = act[j] => i = j
  PROVE  \E new \in Seq(Names) :
           /\ new = RemoveFirst(act, name)
           /\ \A i \in DOMAIN new : \E j \in DOMAIN act : act[j] = new[i] /\ act[j] # name
           /\ \A j \in DOMAIN act : act[j] # name => \E i \in DOMAIN new : new[i] = act[j]
           /\ \A i, j \in DOMAIN new : new[i] = new[j] => i = j
BY RemovedFirst, SMTT(60)

\* The name at a place is taken out of the active ones.
LEMMA PlaceTaken ==
  ASSUME NEW act \in Seq(Names), NEW i \in DOMAIN act,
         \A j, k \in DOMAIN act : act[j] = act[k] => j = k
  PROVE  \E new \in Seq(Names) :
           /\ new = RemoveAt(act, i)
           /\ \A j \in DOMAIN new : \E x \in DOMAIN act : x # i /\ new[j] = act[x]
           /\ \A x \in DOMAIN act : x # i => \E j \in DOMAIN new : new[j] = act[x]
           /\ \A j, k \in DOMAIN new : new[j] = new[k] => j = k
<1>1. PICK new \in Seq(Names) : new = RemoveAt(act, i) /\
        \E f \in [DOMAIN new -> DOMAIN act \ {i}] :
             /\ \A j \in DOMAIN new : new[j] = act[f[j]]
             /\ \A j, k \in DOMAIN new : f[j] = f[k] => j = k
             /\ \A x \in DOMAIN act \ {i} : \E j \in DOMAIN new : f[j] = x
  BY RemovedPlaces, SMTT(60)
<1>2. PICK f \in [DOMAIN new -> DOMAIN act \ {i}] :
             /\ \A j \in DOMAIN new : new[j] = act[f[j]]
             /\ \A j, k \in DOMAIN new : f[j] = f[k] => j = k
             /\ \A x \in DOMAIN act \ {i} : \E j \in DOMAIN new : f[j] = x
  BY <1>1
<1>3. \A j \in DOMAIN new : \E x \in DOMAIN act : x # i /\ new[j] = act[x]
  BY <1>2
<1>4. \A x \in DOMAIN act : x # i => \E j \in DOMAIN new : new[j] = act[x]
  BY <1>2
<1>5. \A j, k \in DOMAIN new : new[j] = new[k] => j = k
  BY <1>2
<1>. QED BY <1>1, <1>3, <1>4, <1>5

\* A script that is in no tab goes, with its file and its place among the
\* active ones.
LEMMA ScriptTaken ==
  ASSUME NEW scr \in Seq(ScriptType), NEW row \in DOMAIN scr, scr[row].tabInx = 0,
         NEW tbs \in Seq(TabType), Tabbed(scr, tbs),
         NEW act \in Seq(Names), Listed(scr, act),
         NEW fls, OnDisk(scr, fls), NEW ld, NEW ex
  PROVE  /\ RemoveAt(scr, row) \in Seq(ScriptType)
         /\ Tabbed(RemoveAt(scr, row), tbs)
         /\ RemoveFirst(act, scr[row].name) \in Seq(Names)
         /\ Listed(RemoveAt(scr, row), RemoveFirst(act, scr[row].name))
         /\ OnDisk(RemoveAt(scr, row), Without(fls, scr[row].name))
         /\ IsRun(scr, ld, ex) => IsRun(RemoveAt(scr, row), ld, ex \ {scr[row].name})
<1>1. PICK new \in Seq(ScriptType) : new = RemoveAt(scr, row) /\ OneLess(scr, row, new)
  BY RowTaken
<1>2. PICK f \in [DOMAIN new -> DOMAIN scr \ {row}] :
             /\ \A j \in DOMAIN new : new[j] = scr[f[j]]
             /\ \A j, k \in DOMAIN new : f[j] = f[k] => j = k
             /\ \A x \in DOMAIN scr \ {row} : \E j \in DOMAIN new : f[j] = x
  BY <1>1 DEF OneLess
<1>3. \A r \in DOMAIN new : \E q \in DOMAIN scr \ {row} : new[r] = scr[q]
  BY <1>2
<1>4. \A q \in DOMAIN scr \ {row} : \E r \in DOMAIN new : new[r] = scr[q]
  BY <1>2
<1>5. \A q \in DOMAIN scr \ {row} : scr[q].name # scr[row].name
  BY DEF Tabbed
<1>6. Tabbed(new, tbs)
  <2>1. \A r, q \in DOMAIN new : new[r].name = new[q].name => r = q
    BY <1>2 DEF Tabbed
  <2>2. \A r \in DOMAIN new : new[r].tabInx # 0 =>
          new[r].tabInx \in DOMAIN tbs /\ tbs[new[r].tabInx].name = new[r].name
    BY <1>3 DEF Tabbed
  <2>3. \A inx \in DOMAIN tbs : \E r \in DOMAIN new :
          new[r].name = tbs[inx].name /\ new[r].tabInx = inx
    <3> TAKE inx \in DOMAIN tbs
    <3>1. inx # 0
      BY LenProperties
    <3>2. PICK q \in DOMAIN scr : scr[q].name = tbs[inx].name /\ scr[q].tabInx = inx
      BY DEF Tabbed
    <3>3. q # row
      BY <3>1, <3>2
    <3>. QED BY <1>4, <3>2, <3>3
  <2>. QED BY <2>1, <2>2, <2>3 DEF Tabbed
<1>7. PICK newAct \in Seq(Names) :
        /\ newAct = RemoveFirst(act, scr[row].name)
        /\ \A i \in DOMAIN newAct : \E j \in DOMAIN act :
             act[j] = newAct[i] /\ act[j] # scr[row].name
        /\ \A j \in DOMAIN act : act[j] # scr[row].name =>
             \E i \in DOMAIN newAct : newAct[i] = act[j]
        /\ \A i, j \in DOMAIN newAct : newAct[i] = newAct[j] => i = j
  <2>1. \A i, j \in DOMAIN act : act[i] = act[j] => i = j
    BY DEF Listed
  <2>. QED BY <2>1, NameTaken
<1>8. Listed(new, newAct)
  <2>1. \A i \in DOMAIN newAct : \E r \in DOMAIN new : new[r].isActive /\ new[r].name = newAct[i]
    <3> TAKE i \in DOMAIN newAct
    <3>1. PICK j \in DOMAIN act : act[j] = newAct[i] /\ act[j] # scr[row].name
      BY <1>7
    <3>2. PICK q \in DOMAIN scr : scr[q].isActive /\ scr[q].name = act[j]
      BY DEF Listed
    <3>. QED BY <1>4, <3>1, <3>2
  <2>2. \A r \in DOMAIN new : new[r].isActive => \E i \in DOMAIN newAct : newAct[i] = new[r].name
    <3> SUFFICES ASSUME NEW r \in DOMAIN new, new[r].isActive
                 PROVE  \E i \in DOMAIN newAct : newAct[i] = new[r].name
      OBVIOUS
    <3>1. PICK q \in DOMAIN scr \ {row} : new[r] = scr[q]
      BY <1>3
    <3>2. PICK j \in DOMAIN act : act[j] = scr[q].name
      BY <3>1 DEF Listed
    <3>3. act[j] # scr[row].name
      BY <1>5, <3>1, <3>2
    <3>4. PICK i \in DOMAIN newAct : newAct[i] = act[j]
      BY <1>7, <3>3
    <3>. QED BY <3>1, <3>2, <3>4
  <2>. QED BY <1>7, <2>1, <2>2 DEF Listed
<1>9. OnDisk(new, Without(fls, scr[row].name))
  <2>1. /\ DOMAIN Without(fls, scr[row].name) = DOMAIN fls \ {scr[row].name}
        /\ \A n \in DOMAIN fls \ {scr[row].name} : Without(fls, scr[row].name)[n] = fls[n]
    BY DEF Without
  <2>2. \A n \in DOMAIN fls \ {scr[row].name} : \E r \in DOMAIN new : new[r].name = n
    <3> TAKE n \in DOMAIN fls \ {scr[row].name}
    <3>1. PICK q \in DOMAIN scr : scr[q].name = n
      BY DEF OnDisk
    <3>. QED BY <1>4, <3>1
  <2>3. \A r \in DOMAIN new : new[r].text # Empty =>
          new[r].name \in DOMAIN fls \ {scr[row].name} /\ fls[new[r].name] = new[r].text
    BY <1>3, <1>5 DEF OnDisk
  <2>. QED BY <2>1, <2>2, <2>3 DEF OnDisk
<1>10. IsRun(scr, ld, ex) => IsRun(new, ld, ex \ {scr[row].name})
  BY <1>3, <1>5 DEF IsRun
<1>. QED BY <1>1, <1>6, <1>7, <1>8, <1>9, <1>10

\* One row is changed to st.
LEMMA RowSet ==
  ASSUME NEW scr \in Seq(ScriptType), NEW row \in DOMAIN scr, NEW st \in ScriptType
  PROVE  /\ [scr EXCEPT ![row] = st] \in Seq(ScriptType)
         /\ Len([scr EXCEPT ![row] = st]) = Len(scr)
         /\ DOMAIN [scr EXCEPT ![row] = st] = DOMAIN scr
         /\ [scr EXCEPT ![row] = st][row] = st
         /\ \A r \in DOMAIN scr : r # row => [scr EXCEPT ![row] = st][r] = scr[r]
<1>1. Len(scr) \in Nat /\ DOMAIN scr = 1 .. Len(scr) /\ scr \in [1 .. Len(scr) -> ScriptType]
  BY LenProperties
<1>2. [scr EXCEPT ![row] = st] \in Seq(ScriptType) /\ Len([scr EXCEPT ![row] = st]) = Len(scr)
  BY <1>1, ExceptSeq
<1>. QED BY <1>1, <1>2

\* A file is written.
LEMMA WithFacts ==
  ASSUME NEW f, NEW x, NEW v, f \in [DOMAIN f -> AllTexts], v \in AllTexts
  PROVE  /\ With(f, x, v) \in [DOMAIN With(f, x, v) -> AllTexts]
         /\ DOMAIN With(f, x, v) = DOMAIN f \cup {x}
         /\ With(f, x, v)[x] = v
         /\ \A y \in DOMAIN f : y # x => With(f, x, v)[y] = f[y]
BY DEF With

\* A file is removed.
LEMMA WithoutFacts ==
  ASSUME NEW f, NEW x, f \in [DOMAIN f -> AllTexts]
  PROVE  /\ Without(f, x) \in [DOMAIN Without(f, x) -> AllTexts]
         /\ DOMAIN Without(f, x) = DOMAIN f \ {x}
         /\ \A y \in DOMAIN f \ {x} : Without(f, x)[y] = f[y]
BY DEF Without

\* The same texts.
SameTexts(scr, new) == \A r \in DOMAIN scr : new[r].text = scr[r].text

\* With the same texts, files and runs stay right.
LEMMA AlikeTexts ==
  ASSUME NEW scr, NEW new, Alike(scr, new), SameTexts(scr, new),
         NEW fls, NEW ld, NEW ex
  PROVE  /\ OnDisk(scr, fls) => OnDisk(new, fls)
         /\ IsRun(scr, ld, ex) => IsRun(new, ld, ex)
<1>1. OnDisk(scr, fls) => OnDisk(new, fls)
  BY DEF Alike, SameTexts, OnDisk
<1>2. IsRun(scr, ld, ex) => IsRun(new, ld, ex)
  BY DEF Alike, SameTexts, IsRun
<1>. QED BY <1>1, <1>2

\* The mark of a change is set or taken away.
LEMMA MarkSet ==
  ASSUME NEW scr \in Seq(ScriptType), NEW row \in DOMAIN scr, NEW v \in BOOLEAN
  PROVE  /\ [scr EXCEPT ![row].isChange = v] \in Seq(ScriptType)
         /\ Alike(scr, [scr EXCEPT ![row].isChange = v])
         /\ SameTexts(scr, [scr EXCEPT ![row].isChange = v])
<1> DEFINE st == [scr[row] EXCEPT !.isChange = v]
           new == [scr EXCEPT ![row] = st]
<1>1. Len(scr) \in Nat /\ DOMAIN scr = 1 .. Len(scr) /\ scr[row] \in ScriptType
  BY LenProperties, ElementOfSeq
<1>2. /\ st \in ScriptType /\ st.name = scr[row].name /\ st.text = scr[row].text
      /\ st.isActive = scr[row].isActive /\ st.tabInx = scr[row].tabInx
  BY <1>1 DEF ScriptType
<1>3. [scr EXCEPT ![row].isChange = v] = new
  BY <1>1
<1> HIDE DEF st
<1>4. /\ new \in Seq(ScriptType) /\ DOMAIN new = DOMAIN scr /\ new[row] = st
      /\ \A r \in DOMAIN scr : r # row => new[r] = scr[r]
  BY <1>2, RowSet
<1> HIDE DEF new
<1>5. Alike(scr, new) /\ SameTexts(scr, new)
  BY <1>2, <1>4 DEF Alike, SameTexts
<1>. QED BY <1>3, <1>4, <1>5

\* textChanged changes a mark only, whatever row it has.
LEMMA MarkedFacts ==
  ASSUME NEW scr \in Seq(ScriptType), NEW row
  PROVE  Marked(scr, row) \in Seq(ScriptType) /\ Alike(scr, Marked(scr, row))
         /\ SameTexts(scr, Marked(scr, row))
<1>1. CASE row \in DOMAIN scr
  BY <1>1, MarkSet DEF Marked
<1>2. CASE row \notin DOMAIN scr
  <2>1. Alike(scr, scr) /\ SameTexts(scr, scr)
    BY DEF Alike, SameTexts
  <2>. QED BY <1>2, <2>1 DEF Marked
<1>. QED BY <1>1, <1>2

\* A text is saved to the list and to the file of the script's name.
LEMMA SavedFacts ==
  ASSUME scrState \in Seq(ScriptType), NEW row \in DOMAIN scrState, NEW text \in AllTexts,
         NEW tbs, Tabbed(scrState, tbs), NEW fls, OnDisk(scrState, fls)
  PROVE  /\ SavedToBoth(row, text) \in Seq(ScriptType)
         /\ Alike(scrState, SavedToBoth(row, text))
         /\ OnDisk(SavedToBoth(row, text), With(fls, scrState[row].name, text))
<1> DEFINE st == [scrState[row] EXCEPT !.isChange = FALSE, !.text = text]
           new == [scrState EXCEPT ![row] = st]
<1>1. /\ Len(scrState) \in Nat /\ DOMAIN scrState = 1 .. Len(scrState)
      /\ scrState[row] \in ScriptType
  BY LenProperties, ElementOfSeq
<1>2. /\ st \in ScriptType /\ st.name = scrState[row].name /\ st.text = text
      /\ st.isActive = scrState[row].isActive /\ st.tabInx = scrState[row].tabInx
  BY <1>1 DEF ScriptType
<1>3. SavedToBoth(row, text) = new
  BY <1>1 DEF SavedToBoth
<1> HIDE DEF st
<1>4. /\ new \in Seq(ScriptType) /\ DOMAIN new = DOMAIN scrState /\ new[row] = st
      /\ \A r \in DOMAIN scrState : r # row => new[r] = scrState[r]
  BY <1>2, RowSet
<1> HIDE DEF new
<1>5. Alike(scrState, new)
  BY <1>2, <1>4 DEF Alike
<1> DEFINE w == With(fls, scrState[row].name, text)
<1>6. /\ DOMAIN w = DOMAIN fls \cup {scrState[row].name} /\ w[scrState[row].name] = text
      /\ \A y \in DOMAIN fls : y # scrState[row].name => w[y] = fls[y]
  BY DEF With
<1> HIDE DEF w
<1>7. \A r \in DOMAIN scrState : r # row => scrState[r].name # scrState[row].name
  BY DEF Tabbed
<1>8. OnDisk(new, w)
  <2>1. \A y \in DOMAIN w : \E r \in DOMAIN new : new[r].name = y
    BY <1>5, <1>6 DEF Alike, OnDisk
  <2>2. \A r \in DOMAIN new : new[r].text # Empty =>
          new[r].name \in DOMAIN w /\ w[new[r].name] = new[r].text
    <3> SUFFICES ASSUME NEW r \in DOMAIN scrState, new[r].text # Empty
                 PROVE  new[r].name \in DOMAIN w /\ w[new[r].name] = new[r].text
      BY <1>4
    <3>1. CASE r = row
      BY <1>2, <1>4, <1>6, <3>1
    <3>2. CASE r # row
      BY <1>4, <1>6, <1>7, <3>2 DEF OnDisk
    <3>. QED BY <3>1, <3>2
  <2>. QED BY <2>1, <2>2 DEF OnDisk
<1>. QED BY <1>3, <1>4, <1>5, <1>8 DEF w

-----------------------------------------------------------------------------
(* The window's steps.                                                     *)

\* What the types say of rows and tabs.
LEMMA Elements ==
  ASSUME Types
  PROVE  /\ Len(scrState) \in Nat /\ DOMAIN scrState = 1 .. Len(scrState)
         /\ \A r \in DOMAIN scrState : scrState[r] \in ScriptType
         /\ Len(tabs) \in Nat /\ DOMAIN tabs = 1 .. Len(tabs)
         /\ \A t \in DOMAIN tabs : tabs[t] \in TabType
         /\ Len(active) \in Nat /\ DOMAIN active = 1 .. Len(active)
         /\ \A i \in DOMAIN active : active[i] \in Names
         /\ current # 0 => current \in DOMAIN tabs
<1>1. /\ Len(scrState) \in Nat /\ DOMAIN scrState = 1 .. Len(scrState)
      /\ \A r \in 1 .. Len(scrState) : scrState[r] \in ScriptType
  BY LenProperties, ElementOfSeq DEF Types
<1>2. /\ Len(tabs) \in Nat /\ DOMAIN tabs = 1 .. Len(tabs)
      /\ \A r \in 1 .. Len(tabs) : tabs[r] \in TabType
  BY LenProperties, ElementOfSeq DEF Types
<1>3. /\ Len(active) \in Nat /\ DOMAIN active = 1 .. Len(active)
      /\ \A r \in 1 .. Len(active) : active[r] \in Names
  BY LenProperties, ElementOfSeq DEF Types
<1>. QED BY <1>1, <1>2, <1>3 DEF Types

\* The fields of a script.
LEMMA Fields ==
  ASSUME NEW st \in ScriptType
  PROVE  /\ st.name \in Names /\ st.text \in AllTexts /\ st.tabInx \in Nat
         /\ st.isActive \in BOOLEAN
BY DEF ScriptType

\* Button New.
LEMMA AddScriptInv ==
  ASSUME IInv, AddScript
  PROVE  IInv'
<1> DEFINE name == NewNames[SelectInSeq(NewNames, LAMBDA n : ~HasName(n))]
<1>1. PICK n : n = name
  OBVIOUS
<1>2. n \in Names /\ \A r \in DOMAIN scrState : scrState[r].name # n
  BY <1>1, FreeName DEF AddScript, IInv, Types
<1> HIDE DEF name
<1>3. /\ tabs' = Append(tabs, [name |-> n, row |-> Len(scrState) + 1, edit |-> Empty])
      /\ scrState' = Append(scrState, Script(n, Empty, Len(tabs) + 1))
      /\ current' = Len(tabs) + 1 /\ mtx = "free" /\ sub.pc # "activate"
      /\ UNCHANGED <<mtx, loaded, active, files, pos, sub, exLoad>>
  BY <1>1 DEF AddScript, name, WindowFree, thread
<1>4. /\ scrState \in Seq(ScriptType) /\ tabs \in Seq(TabType)
      /\ Len(scrState) \in Nat /\ Len(tabs) \in Nat /\ Tabbed(scrState, tabs)
  BY Elements DEF IInv, Types
<1>5. ASSUME NEW place \in Nat
      PROVE  /\ Script(n, Empty, place) \in ScriptType
             /\ Script(n, Empty, place).name = n /\ ~Script(n, Empty, place).isActive
             /\ Script(n, Empty, place).text = Empty /\ Script(n, Empty, place).tabInx = place
  <2>1. Empty \in AllTexts
    BY DEF AllTexts
  <2>. QED BY <1>2, <2>1 DEF Script, ScriptType
<1>6. PICK st \in ScriptType : /\ st = Script(n, Empty, Len(tabs) + 1)
                               /\ st.name = n /\ ~st.isActive
                               /\ st.text = Empty /\ st.tabInx = Len(tabs) + 1
  <2>1. Len(tabs) + 1 \in Nat
    BY <1>4
  <2>. QED BY <1>5, <2>1
<1>7. PICK st0 \in ScriptType : st0.name = n /\ ~st0.isActive /\ st0.tabInx = 0
  BY <1>5
<1>8. PICK tab \in TabType : /\ tab = [name |-> n, row |-> Len(scrState) + 1, edit |-> Empty]
                             /\ tab.name = n
  <2> DEFINE tab == [name |-> n, row |-> Len(scrState) + 1, edit |-> Empty]
  <2>1. Empty \in AllTexts /\ Len(scrState) + 1 \in Nat
    BY <1>4 DEF AllTexts
  <2>2. tab \in TabType /\ tab.name = n
    BY <1>2, <2>1 DEF TabType
  <2>. QED BY <2>2
<1>9. PICK scr0 \in Seq(ScriptType) : Longer(scrState, scr0, st0) /\ Tabbed(scr0, tabs)
  <2>1. PICK scr0 \in Seq(ScriptType) : Longer(scrState, scr0, st0)
    BY <1>4, <1>7, ScriptAdded
  <2>2. Tabbed(scr0, tabs)
    BY <1>2, <1>4, <1>7, <2>1, LongerLists
  <2>. QED BY <2>1, <2>2
<1>10. PICK new \in Seq(ScriptType) :
        /\ new = Append(scrState, st) /\ Longer(scrState, new, st)
        /\ Listed(scrState, active) => Listed(new, active)
        /\ IsRun(scrState, loaded, exLoad) => IsRun(new, loaded, exLoad)
  <2>1. PICK new \in Seq(ScriptType) : new = Append(scrState, st) /\ Longer(scrState, new, st)
    BY <1>4, <1>6, ScriptAdded
  <2>2. \A r \in DOMAIN scrState : scrState[r].name # st.name
    BY <1>2, <1>6
  <2>3. Listed(scrState, active) => Listed(new, active)
    BY <1>6, <2>1, <2>2, LongerLists, SMTT(60)
  <2>4. IsRun(scrState, loaded, exLoad) => IsRun(new, loaded, exLoad)
    BY <1>6, <2>1, <2>2, LongerLists, SMTT(60)
  <2>. QED BY <2>1, <2>3, <2>4
<1>11. new = scrState'
  BY <1>3, <1>6, <1>10
<1>12. PICK newTabs \in Seq(TabType) : newTabs = Append(tabs, tab)
         /\ Len(newTabs) = Len(tabs) + 1 /\ Tabbed(new, newTabs)
  <2>1. PICK row \in DOMAIN scr0 : row = Len(scrState) + 1
    BY <1>9 DEF Longer
  <2>2. Placed(scr0, new, row, Len(tabs) + 1) /\ tab.name = scr0[row].name
    BY <1>6, <1>7, <1>8, <1>9, <1>10, <2>1 DEF Longer, Placed
  <2>3. \A inx \in DOMAIN tabs : tabs[inx].name # tab.name
    BY <1>2, <1>4, <1>8 DEF Tabbed
  <2>. QED BY <1>4, <1>9, <2>2, <2>3, TabAdded
<1>13. newTabs = tabs'
  BY <1>3, <1>8, <1>12
<1>14. Types'
  <2>1. Len(tabs') = Len(tabs) + 1 /\ current' = Len(tabs) + 1 /\ Len(tabs) \in Nat
    BY <1>3, <1>4, <1>12, <1>13
  <2>2. tabs' # <<>>
    BY <2>1
  <2>. QED BY <1>3, <1>10, <1>11, <1>12, <1>13, <2>1, <2>2 DEF IInv, Types
<1>15. OnDisk(new, files)
  <2>1. \A r \in DOMAIN new : (r \in DOMAIN scrState /\ new[r] = scrState[r]) \/ new[r] = st
    BY <1>10 DEF Longer
  <2>2. \A r \in DOMAIN scrState : r \in DOMAIN new /\ new[r] = scrState[r]
    BY <1>10 DEF Longer
  <2>3. OnDisk(scrState, files)
    BY DEF IInv
  <2>. QED BY <1>6, <2>1, <2>2, <2>3 DEF OnDisk
<1>. QED BY <1>3, <1>10, <1>11, <1>12, <1>13, <1>14, <1>15 DEF IInv, Running, Waits

\* A script of either list is opened.
LEMMA OpenTabInv ==
  ASSUME IInv, NEW row \in DOMAIN scrState, OpenTab(row)
  PROVE  IInv'
<1>1. /\ tabs' = Append(tabs, [name |-> scrState[row].name, row |-> row,
                               edit |-> scrState[row].text])
      /\ scrState' = [scrState EXCEPT ![row].tabInx = Len(tabs) + 1]
      /\ current' = Len(tabs) + 1 /\ sub.pc # "activate"
      /\ TabOf(scrState[row].name) = 0
      /\ UNCHANGED <<mtx, loaded, active, files, pos, sub, exLoad>>
  BY DEF OpenTab, WindowFree, thread
<1>2. /\ scrState \in Seq(ScriptType) /\ tabs \in Seq(TabType)
      /\ Len(scrState) \in Nat /\ Len(tabs) \in Nat /\ Tabbed(scrState, tabs)
      /\ scrState[row] \in ScriptType /\ row \in Nat
      /\ Types /\ Listed(scrState, active) /\ OnDisk(scrState, files) /\ Running
  BY Elements DEF IInv, Types
<1>3. PICK tab \in TabType : /\ tab = [name |-> scrState[row].name, row |-> row,
                                       edit |-> scrState[row].text]
                             /\ tab.name = scrState[row].name
  <2> DEFINE tab == [name |-> scrState[row].name, row |-> row, edit |-> scrState[row].text]
  <2>1. scrState[row].name \in Names /\ scrState[row].text \in AllTexts
    BY <1>2, Fields
  <2>2. tab \in TabType
    BY <1>2, <2>1 DEF TabType
  <2>3. tab.name = scrState[row].name
    OBVIOUS
  <2>. QED BY <2>2, <2>3
<1>4. PICK st \in ScriptType :
        /\ st = [scrState[row] EXCEPT !.tabInx = Len(tabs) + 1]
        /\ st.name = scrState[row].name /\ st.text = scrState[row].text
        /\ st.isActive = scrState[row].isActive /\ st.tabInx = Len(tabs) + 1
  <2> DEFINE st == [scrState[row] EXCEPT !.tabInx = Len(tabs) + 1]
  <2>1. Len(tabs) + 1 \in Nat /\ scrState[row] \in ScriptType
    BY <1>2
  <2>2. /\ st \in ScriptType /\ st.name = scrState[row].name /\ st.text = scrState[row].text
        /\ st.isActive = scrState[row].isActive /\ st.tabInx = Len(tabs) + 1
    BY <2>1 DEF ScriptType
  <2>. QED BY <2>2
<1>5. /\ scrState' \in Seq(ScriptType) /\ DOMAIN scrState' = DOMAIN scrState
      /\ scrState'[row] = st
      /\ \A r \in DOMAIN scrState : r # row => scrState'[r] = scrState[r]
  <2>1. scrState' = [scrState EXCEPT ![row] = st]
    BY <1>1, <1>4
  <2>. QED BY <1>2, <2>1, RowSet
<1>6. tabs' \in Seq(TabType) /\ Len(tabs') = Len(tabs) + 1 /\ Tabbed(scrState', tabs')
  <2>1. Placed(scrState, scrState', row, Len(tabs) + 1)
    BY <1>4, <1>5 DEF Placed
  <2>2. \A inx \in DOMAIN tabs : tabs[inx].name # tab.name
    BY <1>1, <1>2, <1>3, TabFacts
  <2>3. tabs' = Append(tabs, tab)
    BY <1>1, <1>3
  <2>. QED BY <1>2, <1>3, <2>1, <2>2, <2>3, TabAdded
<1>7. Types'
  <2>1. tabs' # <<>>
    BY <1>2, <1>6
  <2>. QED BY <1>1, <1>2, <1>5, <1>6, <2>1 DEF Types
<1>8. /\ Listed(scrState', active) /\ OnDisk(scrState', files)
      /\ IsRun(scrState, loaded, exLoad) => IsRun(scrState', loaded, exLoad)
  <2>1. \A r \in DOMAIN scrState : /\ scrState'[r].name = scrState[r].name
                                   /\ scrState'[r].isActive = scrState[r].isActive
                                   /\ scrState'[r].text = scrState[r].text
    BY <1>4, <1>5
  <2>2. Listed(scrState', active)
    BY <1>2, <1>5, <2>1, SMTT(60) DEF Listed
  <2>3. OnDisk(scrState', files)
    BY <1>2, <1>5, <2>1, SMTT(60) DEF OnDisk
  <2>4. IsRun(scrState, loaded, exLoad) => IsRun(scrState', loaded, exLoad)
    BY <1>5, <2>1 DEF IsRun
  <2>. QED BY <2>2, <2>3, <2>4
<1>. QED BY <1>1, <1>2, <1>6, <1>7, <1>8 DEF IInv, Running, Waits

\* Another tab is chosen.
LEMMA SelectTabInv ==
  ASSUME IInv, NEW inx \in DOMAIN tabs, SelectTab(inx)
  PROVE  IInv'
<1>1. inx \in 1 .. Len(tabs) /\ Len(tabs) \in Nat /\ tabs # <<>>
  BY Elements DEF IInv
<1>. QED BY <1>1 DEF SelectTab, thread, IInv, Types, Running, Waits

\* The text of the current tab is changed.
LEMMA EditInv ==
  ASSUME IInv, NEW text \in Texts, Edit(text)
  PROVE  IInv'
<1>1. /\ current # 0 /\ sub.pc # "activate"
      /\ tabs' = [tabs EXCEPT ![current].edit = text]
      /\ scrState' = Marked(scrState, tabs[current].row)
      /\ UNCHANGED <<mtx, loaded, current, active, files, pos, sub, exLoad>>
  BY DEF Edit, WindowFree, thread
<1>2. /\ scrState \in Seq(ScriptType) /\ Types /\ Tabbed(scrState, tabs)
      /\ Listed(scrState, active) /\ OnDisk(scrState, files) /\ Running
  BY DEF IInv, Types
<1>3. /\ Len(tabs) \in Nat /\ DOMAIN tabs = 1 .. Len(tabs) /\ current \in DOMAIN tabs
      /\ \A t \in DOMAIN tabs : tabs[t] \in TabType
  BY <1>1, <1>2, Elements
<1>4. /\ scrState' \in Seq(ScriptType) /\ Alike(scrState, scrState')
      /\ SameTexts(scrState, scrState')
  BY <1>1, <1>2, MarkedFacts
<1>5. /\ tabs' \in Seq(TabType) /\ Len(tabs') = Len(tabs) /\ DOMAIN tabs' = DOMAIN tabs
      /\ \A t \in DOMAIN tabs : tabs'[t].name = tabs[t].name
  <2>1. text \in AllTexts
    BY DEF AllTexts
  <2>2. /\ [tabs[current] EXCEPT !.edit = text] \in TabType
        /\ [tabs[current] EXCEPT !.edit = text].name = tabs[current].name
    BY <1>3, <2>1 DEF TabType
  <2>3. tabs' = [tabs EXCEPT ![current] = [tabs[current] EXCEPT !.edit = text]]
    BY <1>1
  <2>. QED BY <1>2, <1>3, <2>2, <2>3, ExceptSeq DEF Types
<1>6. Tabbed(scrState', tabs') /\ Listed(scrState', active)
  BY <1>2, <1>4, <1>5, AlikeLists
<1>7. /\ OnDisk(scrState', files)
      /\ IsRun(scrState, loaded, exLoad) => IsRun(scrState', loaded, exLoad)
  BY <1>2, <1>4, AlikeTexts
<1>8. Types'
  <2>1. tabs' # <<>> /\ tabs # <<>>
    BY <1>3, <1>5
  <2>. QED BY <1>1, <1>2, <1>4, <1>5, <2>1 DEF Types
<1>. QED BY <1>1, <1>2, <1>6, <1>7, <1>8 DEF IInv, Running, Waits

\* saveScript.
LEMMA SaveScriptInv ==
  ASSUME IInv, SaveScript
  PROVE  IInv'
<1> DEFINE row == RowOf(tabs[current].name)
<1>1. /\ current # 0 /\ row # 0 /\ mtx = "free" /\ sub.pc # "activate"
      /\ UNCHANGED <<mtx, loaded, tabs, current, active, sub>>
      /\ pos' = "start" /\ exLoad' = {}
      /\ \/ /\ scrState' = SavedToBoth(row, tabs[current].edit)
            /\ files' = With(files, tabs[current].name, tabs[current].edit)
         \/ UNCHANGED <<scrState, files>>
  BY DEF SaveScript, CanSave, HasName, WindowFree, thread
<1>2. /\ scrState \in Seq(ScriptType) /\ Types /\ Tabbed(scrState, tabs)
      /\ Listed(scrState, active) /\ OnDisk(scrState, files)
  BY DEF IInv, Types
<1>3. current \in DOMAIN tabs /\ tabs[current] \in TabType
  BY <1>1, <1>2, Elements
<1>4. PICK k \in DOMAIN scrState : k = row /\ scrState[k].name = tabs[current].name
  BY <1>1, <1>2, RowFacts
<1>5. PICK text \in AllTexts : text = tabs[current].edit
  BY <1>3 DEF TabType
<1>6. pos' \in {"start"} /\ ~(pos' # "start" \/ mtx' = "runs")
  BY <1>1
<1>7. CASE /\ scrState' = SavedToBoth(k, text)
           /\ files' = With(files, scrState[k].name, text)
  <2>1. /\ scrState' \in Seq(ScriptType) /\ Alike(scrState, scrState')
        /\ OnDisk(scrState', files')
    BY <1>2, <1>7, SavedFacts
  <2>2. Tabbed(scrState', tabs') /\ Listed(scrState', active')
    BY <1>1, <1>2, <2>1, AlikeLists
  <2>3. files' \in [DOMAIN files' -> AllTexts]
    BY <1>2, <1>7, WithFacts DEF Types
  <2>4. Types'
    BY <1>1, <1>2, <2>1, <2>3 DEF Types
  <2>. QED BY <1>1, <1>6, <2>1, <2>2, <2>4 DEF IInv, Running, Waits
<1>8. CASE UNCHANGED <<scrState, files>>
  <2>1. Types'
    BY <1>1, <1>2, <1>8 DEF Types
  <2>. QED BY <1>1, <1>2, <1>6, <1>8, <2>1 DEF IInv, Running, Waits
<1>. QED BY <1>1, <1>4, <1>5, <1>7, <1>8

\* The current tab, when one goes.
LEMMA CurrentFacts ==
  ASSUME Types, NEW inx \in DOMAIN tabs
  PROVE  /\ CurrentAfter(inx) \in 0 .. Len(tabs) - 1
         /\ CurrentAfter(inx) = 0 <=> Len(tabs) = 1
<1>1. /\ Len(tabs) \in Nat /\ inx \in 1 .. Len(tabs) /\ tabs # <<>> /\ current \in 1 .. Len(tabs)
  BY Elements DEF Types
<1>2. CASE inx < current \/ (inx = current /\ inx = Len(tabs))
  <2>1. CurrentAfter(inx) = current - 1
    BY <1>2 DEF CurrentAfter
  <2>2. PICK n \in Nat, c \in Nat, i \in Nat : n = Len(tabs) /\ c = current /\ i = inx
    BY <1>1
  <2>3. /\ i \in 1 .. n /\ c \in 1 .. n /\ (i < c \/ (i = c /\ i = n))
    BY <1>1, <1>2, <2>2
  <2>4. c - 1 \in 0 .. n - 1 /\ (c - 1 = 0 <=> n = 1)
    BY <2>3
  <2>. QED BY <2>1, <2>2, <2>4
<1>3. CASE ~(inx < current \/ (inx = current /\ inx = Len(tabs)))
  <2>1. CurrentAfter(inx) = current
    BY <1>3 DEF CurrentAfter
  <2>. QED BY <1>1, <1>3, <2>1
<1>. QED BY <1>2, <1>3

\* A tab is closed, saved or not.
LEMMA CloseTabInv ==
  ASSUME IInv, NEW inx \in DOMAIN tabs, NEW reply, NEW opens \in BOOLEAN,
         CloseTab(inx, reply, opens)
  PROVE  IInv'
<1> DEFINE row   == RowOf(tabs[inx].name)
           saves == scrState[row].isChange /\ reply = "save" /\ CanSave
           shown == RowOf(tabs[current].name)
           scr   == IF saves /\ opens THEN SavedToBoth(shown, tabs[current].edit) ELSE scrState
<1>1. /\ sub.pc # "activate"
      /\ scrState' = TabGone([scr EXCEPT ![row].isChange = FALSE], inx)
      /\ files' = IF saves /\ opens THEN With(files, tabs[current].name, tabs[current].edit)
                  ELSE files
      /\ pos' = IF saves THEN "start" ELSE pos
      /\ exLoad' = IF saves THEN {} ELSE exLoad
      /\ tabs' = RemoveAt(tabs, inx) /\ current' = CurrentAfter(inx)
      /\ UNCHANGED <<mtx, loaded, active, sub>>
  BY DEF CloseTab, WindowFree, thread
<1>2. /\ scrState \in Seq(ScriptType) /\ tabs \in Seq(TabType) /\ Types /\ Tabbed(scrState, tabs)
      /\ Listed(scrState, active) /\ OnDisk(scrState, files) /\ Running
  BY DEF IInv, Types
<1>3. /\ Len(tabs) \in Nat /\ DOMAIN tabs = 1 .. Len(tabs)
      /\ 0 \notin DOMAIN scrState /\ tabs[inx] \in TabType
  BY <1>2, Elements
<1>4. PICK k \in DOMAIN scrState : k = row
  <2>1. \E r \in DOMAIN scrState : scrState[r].name = tabs[inx].name
    BY <1>2 DEF Tabbed
  <2>. QED BY <1>2, <2>1, RowFacts
<1>5. /\ scr \in Seq(ScriptType) /\ Alike(scrState, scr)
      /\ OnDisk(scr, files') /\ files' \in [DOMAIN files' -> AllTexts]
      /\ saves \/ SameTexts(scrState, scr)
  <2>1. CASE saves /\ opens
    <3>1. current # 0 /\ shown # 0
      BY <2>1 DEF CanSave, HasName
    <3>2. current \in DOMAIN tabs /\ tabs[current] \in TabType
      BY <1>2, <3>1, Elements
    <3>3. PICK m \in DOMAIN scrState : m = shown /\ scrState[m].name = tabs[current].name
      BY <1>2, <3>1, RowFacts
    <3>4. PICK text \in AllTexts : text = tabs[current].edit
      BY <3>2 DEF TabType
    <3>5. scr = SavedToBoth(m, text) /\ files' = With(files, scrState[m].name, text)
      BY <1>1, <2>1, <3>3, <3>4
    <3> HIDE DEF scr, saves, shown
    <3>6. /\ SavedToBoth(m, text) \in Seq(ScriptType)
          /\ Alike(scrState, SavedToBoth(m, text))
          /\ OnDisk(SavedToBoth(m, text), With(files, scrState[m].name, text))
      BY <1>2, SavedFacts
    <3>7. files' \in [DOMAIN files' -> AllTexts]
      BY <1>2, <3>5, WithFacts DEF Types
    <3>. QED BY <2>1, <3>5, <3>6, <3>7
  <2>2. CASE ~(saves /\ opens)
    <3>1. scr = scrState /\ files' = files
      BY <1>1, <2>2
    <3>2. Alike(scrState, scrState) /\ SameTexts(scrState, scrState)
      BY DEF Alike, SameTexts
    <3> HIDE DEF scr, saves
    <3>. QED BY <1>2, <3>1, <3>2 DEF Types
  <2>. QED BY <2>1, <2>2
<1> HIDE DEF scr, saves, row
<1> DEFINE marked == [scr EXCEPT ![k].isChange = FALSE]
<1>6. marked \in Seq(ScriptType) /\ Alike(scr, marked) /\ SameTexts(scr, marked)
  <2>1. k \in DOMAIN scr
    BY <1>5 DEF Alike
  <2>. QED BY <1>5, <2>1, MarkSet
<1>7. scrState' = TabGone(marked, inx)
  BY <1>1, <1>4
<1> HIDE DEF marked
<1>8. Tabbed(marked, tabs) /\ Listed(marked, active)
  <2>1. Tabbed(scr, tabs) /\ Listed(scr, active)
    BY <1>2, <1>5, AlikeLists
  <2>. QED BY <1>6, <2>1, AlikeLists
<1>9. OnDisk(marked, files')
  BY <1>5, <1>6, AlikeTexts
<1>10. /\ scrState' \in Seq(ScriptType) /\ tabs' \in Seq(TabType)
       /\ Len(tabs') = Len(tabs) - 1 /\ Tabbed(scrState', tabs')
       /\ DOMAIN scrState' = DOMAIN marked
       /\ \A r \in DOMAIN marked : /\ scrState'[r].name = marked[r].name
                                   /\ scrState'[r].text = marked[r].text
                                   /\ scrState'[r].isActive = marked[r].isActive
  <2>1. /\ TabGone(marked, inx) \in Seq(ScriptType)
        /\ RemoveAt(tabs, inx) \in Seq(TabType)
        /\ Len(RemoveAt(tabs, inx)) = Len(tabs) - 1
        /\ Tabbed(TabGone(marked, inx), RemoveAt(tabs, inx))
        /\ DOMAIN TabGone(marked, inx) = DOMAIN marked
        /\ \A r \in DOMAIN marked :
              /\ TabGone(marked, inx)[r].name = marked[r].name
              /\ TabGone(marked, inx)[r].text = marked[r].text
              /\ TabGone(marked, inx)[r].isActive = marked[r].isActive
    BY <1>2, <1>6, <1>8, TabTaken
  <2>2. tabs' = RemoveAt(tabs, inx)
    BY <1>1
  <2>. QED BY <1>7, <2>1, <2>2
<1>11. Listed(scrState', active) /\ OnDisk(scrState', files')
  <2>1. Listed(scrState', active)
    BY <1>8, <1>10, SMTT(60) DEF Listed
  <2>2. OnDisk(scrState', files')
    BY <1>9, <1>10 DEF OnDisk
  <2>. QED BY <2>1, <2>2
<1>12. Types'
  <2>1. current' \in 0 .. Len(tabs') /\ (current' = 0 <=> tabs' = <<>>)
    <3>1. Len(tabs') \in Nat /\ (tabs' = <<>> <=> Len(tabs') = 0)
      BY <1>10, EmptySeq, LenProperties
    <3>. QED BY <1>1, <1>2, <1>3, <1>10, <3>1, CurrentFacts
  <2>2. pos' = "start" \/ pos' = pos
    BY <1>1
  <2>. QED BY <1>1, <1>2, <1>5, <1>10, <2>1, <2>2 DEF Types
<1>13. Running'
  <2>1. CASE saves
    <3>1. mtx = "free"
      BY <2>1 DEF saves, CanSave
    <3>. QED BY <1>1, <2>1, <3>1 DEF Running
  <2>2. CASE ~saves
    <3>1. pos' = pos /\ mtx' = mtx /\ loaded' = loaded /\ exLoad' = exLoad
      BY <1>1, <2>2
    <3>2. IsRun(scrState, loaded, exLoad) => IsRun(scr, loaded, exLoad)
      BY <1>5, <2>2, AlikeTexts
    <3>3. IsRun(scr, loaded, exLoad) => IsRun(marked, loaded, exLoad)
      BY <1>6, AlikeTexts
    <3>4. IsRun(marked, loaded, exLoad) => IsRun(scrState', loaded, exLoad)
      BY <1>10 DEF IsRun
    <3>. QED BY <1>2, <3>1, <3>2, <3>3, <3>4 DEF Running
  <2>. QED BY <2>1, <2>2
<1>. QED BY <1>1, <1>10, <1>11, <1>12, <1>13 DEF IInv, Waits

\* Item Delete.
LEMMA DeleteScriptInv ==
  ASSUME IInv, NEW row \in DOMAIN scrState, DeleteScript(row)
  PROVE  IInv'
<1> DEFINE name == scrState[row].name
           inx  == scrState[row].tabInx
<1>1. /\ mtx = "free" /\ sub.pc # "activate"
      /\ scrState' = RemoveAt(IF inx # 0 THEN TabGone(scrState, inx) ELSE scrState, row)
      /\ tabs' = IF inx # 0 THEN RemoveAt(tabs, inx) ELSE tabs
      /\ current' = IF inx # 0 THEN CurrentAfter(inx) ELSE current
      /\ active' = RemoveFirst(active, name)
      /\ files' = Without(files, name)
      /\ exLoad' = exLoad \ {name}
      /\ UNCHANGED <<mtx, loaded, pos, sub>>
  BY DEF DeleteScript, WindowFree, thread
<1>2. /\ scrState \in Seq(ScriptType) /\ tabs \in Seq(TabType) /\ active \in Seq(Names)
      /\ Types /\ Tabbed(scrState, tabs)
      /\ Listed(scrState, active) /\ OnDisk(scrState, files) /\ Running
  BY DEF IInv, Types
<1>3. Len(tabs) \in Nat /\ DOMAIN tabs = 1 .. Len(tabs)
  BY <1>2, Elements
<1>4. PICK scr \in Seq(ScriptType) :
        /\ scr = IF inx # 0 THEN TabGone(scrState, inx) ELSE scrState
        /\ DOMAIN scr = DOMAIN scrState /\ scr[row].tabInx = 0 /\ scr[row].name = name
        /\ Tabbed(scr, tabs') /\ Listed(scr, active) /\ OnDisk(scr, files)
        /\ IsRun(scrState, loaded, exLoad) => IsRun(scr, loaded, exLoad)
        /\ tabs' \in Seq(TabType)
        /\ current' \in 0 .. Len(tabs') /\ (current' = 0 <=> tabs' = <<>>)
  <2>1. CASE inx # 0
    <3>1. PICK i \in DOMAIN tabs : i = inx
      BY <1>2, <2>1 DEF Tabbed
    <3>2. PICK scr \in Seq(ScriptType) : scr = TabGone(scrState, i)
            /\ DOMAIN scr = DOMAIN scrState
            /\ \A r \in DOMAIN scrState :
                  /\ scr[r].name = scrState[r].name /\ scr[r].text = scrState[r].text
                  /\ scr[r].isActive = scrState[r].isActive
                  /\ scrState[r].tabInx = i => scr[r].tabInx = 0
      BY <1>2, TabTaken
    <3>3. /\ tabs' = RemoveAt(tabs, i) /\ tabs' \in Seq(TabType) /\ Len(tabs') = Len(tabs) - 1
          /\ Tabbed(scr, tabs') /\ current' = CurrentAfter(i)
      BY <1>1, <1>2, <2>1, <3>1, <3>2, TabTaken
    <3>4. Listed(scr, active)
      <4>1. \A r \in DOMAIN scr : /\ scr[r].name = scrState[r].name
                                  /\ scr[r].isActive = scrState[r].isActive
        BY <3>2
      <4>2. DOMAIN scr = DOMAIN scrState /\ Listed(scrState, active)
        BY <1>2, <3>2
      <4>. QED BY <4>1, <4>2, SMTT(60) DEF Listed
    <3>5. OnDisk(scr, files)
      BY <1>2, <3>2, SMTT(60) DEF OnDisk
    <3>6. IsRun(scrState, loaded, exLoad) => IsRun(scr, loaded, exLoad)
      BY <3>2 DEF IsRun
    <3>7. current' \in 0 .. Len(tabs') /\ (current' = 0 <=> tabs' = <<>>)
      <4>1. Len(tabs') \in Nat /\ (tabs' = <<>> <=> Len(tabs') = 0)
        BY <3>3, EmptySeq, LenProperties
      <4>. QED BY <1>2, <1>3, <3>3, <4>1, CurrentFacts
    <3>. QED BY <2>1, <3>1, <3>2, <3>3, <3>4, <3>5, <3>6, <3>7
  <2>2. CASE inx = 0
    BY <1>1, <1>2, <2>2 DEF Types
  <2>. QED BY <2>1, <2>2
<1>5. scrState' = RemoveAt(scr, row) /\ row \in DOMAIN scr
  BY <1>1, <1>4
<1>6. /\ scrState' \in Seq(ScriptType) /\ Tabbed(scrState', tabs')
      /\ active' \in Seq(Names) /\ Listed(scrState', active')
      /\ OnDisk(scrState', files')
      /\ IsRun(scr, loaded, exLoad) => IsRun(scrState', loaded, exLoad')
  <2> HIDE DEF inx
  <2>1. active' = RemoveFirst(active, scr[row].name) /\ files' = Without(files, scr[row].name)
        /\ exLoad' = exLoad \ {scr[row].name}
    BY <1>1, <1>4
  <2>. QED BY <1>2, <1>4, <1>5, <2>1, ScriptTaken
<1>7. files' \in [DOMAIN files' -> AllTexts]
  BY <1>1, <1>2, WithoutFacts DEF Types
<1>8. Types'
  BY <1>1, <1>2, <1>4, <1>6, <1>7 DEF Types
<1>9. Running'
  BY <1>1, <1>2, <1>4, <1>6 DEF Running
<1>. QED BY <1>1, <1>6, <1>8, <1>9 DEF IInv, Waits

\* nameScriptChange.
LEMMA RenameScriptInv ==
  ASSUME IInv, NEW row \in DOMAIN scrState, NEW name \in Names, RenameScript(row, name)
  PROVE  IInv'
<1>1. PICK old : old = scrState[row].name
  OBVIOUS
<1>2. PICK was \in BOOLEAN :
        was <=> ((exLoad \cap {old}) # {} \/ (old = LoadLua /\ scrState[row].isActive))
  OBVIOUS
<1>3. /\ sub.pc # "activate" /\ ~HasName(name)
      /\ tabs' = IF scrState[row].tabInx # 0
                 THEN [tabs EXCEPT ![scrState[row].tabInx].name = name] ELSE tabs
      /\ active' = [i \in DOMAIN active |-> IF active[i] = old THEN name ELSE active[i]]
      /\ files' = FileRenamed(old, name)
      /\ scrState' = [scrState EXCEPT ![row].name = name]
      /\ exLoad' = (exLoad \ {old}) \cup (IF was THEN {name} ELSE {})
      /\ UNCHANGED <<mtx, loaded, current, pos, sub>>
  BY <1>1, <1>2 DEF RenameScript, WindowFree, thread
<1>4. /\ scrState \in Seq(ScriptType) /\ tabs \in Seq(TabType) /\ active \in Seq(Names)
      /\ Types /\ Tabbed(scrState, tabs)
      /\ Listed(scrState, active) /\ OnDisk(scrState, files) /\ Running
  BY DEF IInv, Types
<1>5. \A r \in DOMAIN scrState : scrState[r].name # name
  BY <1>3, <1>4, RowFacts DEF HasName
<1>6. \A r \in DOMAIN scrState : r # row => scrState[r].name # old
  BY <1>1, <1>4 DEF Tabbed
<1>7. PICK st \in ScriptType :
        /\ st = [scrState[row] EXCEPT !.name = name]
        /\ st.name = name /\ st.text = scrState[row].text
        /\ st.isActive = scrState[row].isActive /\ st.tabInx = scrState[row].tabInx
  <2> DEFINE st == [scrState[row] EXCEPT !.name = name]
  <2>1. scrState[row] \in ScriptType
    BY <1>4, Elements
  <2>2. /\ st \in ScriptType /\ st.name = name /\ st.text = scrState[row].text
        /\ st.isActive = scrState[row].isActive /\ st.tabInx = scrState[row].tabInx
    BY <2>1 DEF ScriptType
  <2>. QED BY <2>2
<1>8. /\ scrState' \in Seq(ScriptType) /\ DOMAIN scrState' = DOMAIN scrState
      /\ scrState'[row] = st
      /\ \A r \in DOMAIN scrState : r # row => scrState'[r] = scrState[r]
  <2>1. scrState' = [scrState EXCEPT ![row] = st]
    BY <1>3, <1>7
  <2>. QED BY <1>4, <2>1, RowSet
<1>9. /\ Len(tabs) \in Nat /\ DOMAIN tabs = 1 .. Len(tabs)
      /\ \A t \in DOMAIN tabs : tabs[t] \in TabType
      /\ Len(active) \in Nat /\ DOMAIN active = 1 .. Len(active)
      /\ \A i \in DOMAIN active : active[i] \in Names
  BY <1>4, Elements
<1>10. /\ tabs' \in Seq(TabType) /\ Len(tabs') = Len(tabs) /\ DOMAIN tabs' = DOMAIN tabs
       /\ \A t \in DOMAIN tabs : t # st.tabInx => tabs'[t] = tabs[t]
       /\ st.tabInx # 0 => st.tabInx \in DOMAIN tabs /\ tabs'[st.tabInx].name = name
  <2>1. CASE st.tabInx # 0
    <3>1. PICK i \in DOMAIN tabs : i = st.tabInx
      BY <1>4, <1>7, <2>1 DEF Tabbed
    <3>2. [tabs[i] EXCEPT !.name = name] \in TabType /\ [tabs[i] EXCEPT !.name = name].name = name
      BY <1>9 DEF TabType
    <3>3. tabs' = [tabs EXCEPT ![i] = [tabs[i] EXCEPT !.name = name]]
      BY <1>3, <1>7, <2>1, <3>1
    <3>4. tabs' \in Seq(TabType) /\ Len(tabs') = Len(tabs) /\ DOMAIN tabs' = DOMAIN tabs
      BY <1>4, <1>9, <3>2, <3>3, ExceptSeq
    <3>5. \A t \in DOMAIN tabs : t # i => tabs'[t] = tabs[t]
      BY <1>9, <3>3
    <3>6. tabs'[i].name = name
      BY <1>9, <3>2, <3>3
    <3>. QED BY <3>1, <3>4, <3>5, <3>6
  <2>2. CASE st.tabInx = 0
    <3>1. tabs' = tabs
      BY <1>3, <1>7, <2>2
    <3>. QED BY <1>4, <2>2, <3>1
  <2>. QED BY <2>1, <2>2
<1>11. Tabbed(scrState', tabs')
  <2>1. \A r, q \in DOMAIN scrState' : scrState'[r].name = scrState'[q].name => r = q
    <3> TAKE r, q \in DOMAIN scrState'
    <3>1. \A x \in DOMAIN scrState : x # row => scrState'[x].name # scrState'[row].name
      BY <1>5, <1>7, <1>8
    <3>2. \A x, y \in DOMAIN scrState : (x # row /\ y # row /\ x # y) =>
            scrState'[x].name # scrState'[y].name
      BY <1>4, <1>8 DEF Tabbed
    <3>. QED BY <1>8, <3>1, <3>2
  <2>2. \A r \in DOMAIN scrState' : scrState'[r].tabInx # 0 =>
          scrState'[r].tabInx \in DOMAIN tabs' /\ tabs'[scrState'[r].tabInx].name = scrState'[r].name
    <3> SUFFICES ASSUME NEW r \in DOMAIN scrState, scrState'[r].tabInx # 0
                 PROVE  scrState'[r].tabInx \in DOMAIN tabs'
                        /\ tabs'[scrState'[r].tabInx].name = scrState'[r].name
      BY <1>8
    <3>1. CASE r = row
      BY <1>7, <1>8, <1>10, <3>1
    <3>2. CASE r # row
      <4>1. PICK t \in DOMAIN tabs : t = scrState[r].tabInx /\ tabs[t].name = scrState[r].name
        BY <1>4, <1>8, <3>2 DEF Tabbed
      <4>2. t # st.tabInx
        BY <1>1, <1>4, <1>6, <1>7, <3>2, <4>1 DEF Tabbed
      <4>. QED BY <1>8, <1>10, <3>2, <4>1, <4>2
    <3>. QED BY <3>1, <3>2
  <2>3. \A t \in DOMAIN tabs' : \E r \in DOMAIN scrState' :
          scrState'[r].name = tabs'[t].name /\ scrState'[r].tabInx = t
    <3> TAKE t \in DOMAIN tabs'
    <3>1. PICK r \in DOMAIN scrState : scrState[r].name = tabs[t].name /\ scrState[r].tabInx = t
      BY <1>4, <1>10 DEF Tabbed
    <3>2. t # 0
      BY <1>9, <1>10
    <3>3. CASE r = row
      BY <1>7, <1>8, <1>10, <3>1, <3>2, <3>3, ZenonT(60)
    <3>4. CASE r # row
      <4>1. t # st.tabInx
        BY <1>1, <1>4, <1>6, <1>7, <3>1, <3>2, <3>4 DEF Tabbed
      <4>. QED BY <1>8, <1>10, <3>1, <3>4, <4>1
    <3>. QED BY <3>3, <3>4
  <2>. QED BY <2>1, <2>2, <2>3 DEF Tabbed
<1>12. active' \in Seq(Names) /\ Listed(scrState', active')
  <2>1. active' \in [1 .. Len(active) -> Names] /\ DOMAIN active' = DOMAIN active
    BY <1>3, <1>9
  <2>2. active' \in Seq(Names)
    BY <1>9, <2>1
  <2>3. \A i \in DOMAIN active : active[i] # name
    BY <1>4, <1>5, SMTT(60) DEF Listed
  <2>4. \A i \in DOMAIN active : active'[i] = IF active[i] = old THEN name ELSE active[i]
    BY <1>3
  <2>5. \A i \in DOMAIN active' : \E r \in DOMAIN scrState' :
          scrState'[r].isActive /\ scrState'[r].name = active'[i]
    <3> TAKE i \in DOMAIN active'
    <3>1. PICK r \in DOMAIN scrState : scrState[r].isActive /\ scrState[r].name = active[i]
      BY <1>4, <2>1 DEF Listed
    <3>2. CASE r = row
      BY <1>1, <1>7, <1>8, <2>1, <2>4, <3>1, <3>2
    <3>3. CASE r # row
      BY <1>6, <1>8, <2>1, <2>4, <3>1, <3>3
    <3>. QED BY <3>2, <3>3
  <2>6. \A r \in DOMAIN scrState' : scrState'[r].isActive =>
          \E i \in DOMAIN active' : active'[i] = scrState'[r].name
    <3> SUFFICES ASSUME NEW r \in DOMAIN scrState, scrState'[r].isActive
                 PROVE  \E i \in DOMAIN active' : active'[i] = scrState'[r].name
      BY <1>8
    <3>1. scrState[r].isActive
      BY <1>7, <1>8
    <3>2. PICK i \in DOMAIN active : active[i] = scrState[r].name
      BY <1>4, <3>1 DEF Listed
    <3>3. CASE r = row
      BY <1>1, <1>7, <1>8, <2>1, <2>4, <3>2, <3>3
    <3>4. CASE r # row
      BY <1>6, <1>8, <2>1, <2>4, <3>2, <3>4
    <3>. QED BY <3>3, <3>4
  <2>7. \A i, j \in DOMAIN active' : active'[i] = active'[j] => i = j
    BY <1>4, <2>1, <2>3, <2>4 DEF Listed
  <2>. QED BY <2>2, <2>5, <2>6, <2>7 DEF Listed
<1>13. OnDisk(scrState', files') /\ files' \in [DOMAIN files' -> AllTexts]
  <2>1. name \notin DOMAIN files /\ files \in [DOMAIN files -> AllTexts]
    BY <1>4, <1>5 DEF OnDisk, Types
  <2>2. CASE old \in DOMAIN files
    <3>1. PICK rest : rest = Without(files, old) /\ files' = With(rest, name, files[old])
      BY <1>3, <2>1, <2>2 DEF FileRenamed
    <3>2. /\ rest \in [DOMAIN rest -> AllTexts]
          /\ DOMAIN rest = DOMAIN files \ {old}
          /\ \A y \in DOMAIN files \ {old} : rest[y] = files[y]
      BY <2>1, <3>1, WithoutFacts
    <3>3. /\ files' \in [DOMAIN files' -> AllTexts]
          /\ DOMAIN files' = (DOMAIN files \ {old}) \cup {name}
          /\ files'[name] = files[old]
          /\ \A y \in DOMAIN files \ {old} : files'[y] = files[y]
      <4>1. PICK v \in AllTexts : v = files[old]
        BY <2>1, <2>2
      <4>0. files' = With(rest, name, v)
        BY <3>1, <4>1
      <4>2. /\ files' \in [DOMAIN files' -> AllTexts]
            /\ DOMAIN files' = DOMAIN rest \cup {name}
            /\ files'[name] = v
            /\ \A y \in DOMAIN rest : y # name => files'[y] = rest[y]
        <5>1. /\ With(rest, name, v) \in [DOMAIN With(rest, name, v) -> AllTexts]
              /\ DOMAIN With(rest, name, v) = DOMAIN rest \cup {name}
              /\ With(rest, name, v)[name] = v
              /\ \A y \in DOMAIN rest : y # name => With(rest, name, v)[y] = rest[y]
          BY <3>2 DEF With
        <5>. QED BY <4>0, <5>1
      <4>. QED BY <2>1, <3>2, <4>1, <4>2
    <3>4. \A y \in DOMAIN files' : \E r \in DOMAIN scrState' : scrState'[r].name = y
      <4> TAKE y \in DOMAIN files'
      <4>1. CASE y = name
        BY <1>7, <1>8, <4>1
      <4>2. CASE y \in DOMAIN files \ {old}
        <5>1. PICK r \in DOMAIN scrState : scrState[r].name = y
          BY <1>4, <4>2 DEF OnDisk
        <5>. QED BY <1>1, <1>8, <4>2, <5>1
      <4>. QED BY <3>3, <4>1, <4>2
    <3>5. \A r \in DOMAIN scrState' : scrState'[r].text # Empty =>
            scrState'[r].name \in DOMAIN files' /\ files'[scrState'[r].name] = scrState'[r].text
      <4> SUFFICES ASSUME NEW r \in DOMAIN scrState, scrState'[r].text # Empty
                   PROVE  scrState'[r].name \in DOMAIN files'
                          /\ files'[scrState'[r].name] = scrState'[r].text
        BY <1>8
      <4>1. CASE r = row
        <5>1. files[old] = scrState[row].text
          BY <1>1, <1>4, <1>7, <1>8, <4>1 DEF OnDisk
        <5>. QED BY <1>7, <1>8, <3>3, <4>1, <5>1
      <4>2. CASE r # row
        <5>1. scrState[r].name \in DOMAIN files /\ files[scrState[r].name] = scrState[r].text
          BY <1>4, <1>8, <4>2 DEF OnDisk
        <5>. QED BY <1>6, <1>8, <3>3, <4>2, <5>1
      <4>. QED BY <4>1, <4>2
    <3>. QED BY <3>3, <3>4, <3>5 DEF OnDisk
  <2>3. CASE old \notin DOMAIN files
    <3>1. files' = files
      BY <1>3, <2>3 DEF FileRenamed
    <3>2. scrState[row].text = Empty
      BY <1>1, <1>4, <2>3 DEF OnDisk
    <3>3. \A y \in DOMAIN files : \E r \in DOMAIN scrState' : scrState'[r].name = y
      <4> TAKE y \in DOMAIN files
      <4>1. PICK r \in DOMAIN scrState : scrState[r].name = y
        BY <1>4 DEF OnDisk
      <4>. QED BY <1>1, <1>8, <2>3, <4>1
    <3>4. \A r \in DOMAIN scrState' : scrState'[r].text # Empty =>
            scrState'[r].name \in DOMAIN files /\ files[scrState'[r].name] = scrState'[r].text
      BY <1>4, <1>7, <1>8, <3>2 DEF OnDisk
    <3>. QED BY <2>1, <3>1, <3>3, <3>4 DEF OnDisk
  <2>. QED BY <2>2, <2>3
<1>14. IsRun(scrState, loaded, exLoad) => IsRun(scrState', loaded, exLoad')
  <2> SUFFICES ASSUME IsRun(scrState, loaded, exLoad), NEW r \in DOMAIN scrState,
                      scrState'[r].isActive, scrState'[r].name # LoadLua
               PROVE  scrState'[r].name \in exLoad' \/ scrState'[r].text \in loaded
    BY <1>8 DEF IsRun
  <2>1. CASE r = row
    <3>1. scrState[row].isActive /\ scrState'[r].name = name /\ scrState'[r].text = scrState[row].text
      BY <1>7, <1>8, <2>1
    <3>2. was \/ scrState[row].text \in loaded
      BY <1>1, <1>2, <3>1 DEF IsRun
    <3>3. was => name \in exLoad'
      BY <1>3
    <3>. QED BY <3>1, <3>2, <3>3
  <2>2. CASE r # row
    <3>1. scrState'[r] = scrState[r] /\ scrState[r].name # old
      BY <1>6, <1>8, <2>2
    <3>2. scrState[r].name \in exLoad \/ scrState[r].text \in loaded
      BY <3>1 DEF IsRun
    <3>3. exLoad \ {old} \subseteq exLoad'
      BY <1>3
    <3>. QED BY <3>1, <3>2, <3>3
  <2>. QED BY <2>1, <2>2
<1>15. Types'
  <2>1. tabs' = <<>> <=> tabs = <<>>
    <3>1. (tabs' = <<>> <=> Len(tabs') = 0) /\ (tabs = <<>> <=> Len(tabs) = 0)
      BY <1>4, <1>10, EmptySeq, LenProperties
    <3>. QED BY <1>10, <3>1
  <2>. QED BY <1>3, <1>4, <1>8, <1>10, <1>12, <1>13, <2>1 DEF Types
<1>16. Running'
  BY <1>3, <1>4, <1>14 DEF Running
<1>. QED BY <1>3, <1>11, <1>12, <1>13, <1>15, <1>16 DEF IInv, Waits

\* A script becomes active, and the data is gone over again.
LEMMA ActivatedInv ==
  ASSUME IInv, NEW row \in DOMAIN scrState, ~scrState[row].isActive,
         mtx = "free", Activated(row), UNCHANGED <<mtx, loaded, tabs, current, files>>,
         sub' \in [edit : AllTexts, isChange : BOOLEAN, pc : {"closed", "open", "activate"}],
         sub'.pc # "activate"
  PROVE  IInv'
<1>1. /\ scrState' = [scrState EXCEPT ![row].isActive = TRUE]
      /\ active' = Append(active, scrState[row].name)
      /\ pos' = "start" /\ exLoad' = {}
  BY DEF Activated, FromStart
<1>2. /\ scrState \in Seq(ScriptType) /\ active \in Seq(Names)
      /\ Types /\ Tabbed(scrState, tabs)
      /\ Listed(scrState, active) /\ OnDisk(scrState, files)
  BY DEF IInv, Types
<1>3. scrState[row] \in ScriptType /\ Len(active) \in Nat /\ DOMAIN active = 1 .. Len(active)
  BY <1>2, Elements
<1>4. PICK st \in ScriptType :
        /\ st = [scrState[row] EXCEPT !.isActive = TRUE]
        /\ st.name = scrState[row].name /\ st.text = scrState[row].text
        /\ st.isActive /\ st.tabInx = scrState[row].tabInx
  <2> DEFINE st == [scrState[row] EXCEPT !.isActive = TRUE]
  <2>1. /\ st \in ScriptType /\ st.name = scrState[row].name /\ st.text = scrState[row].text
        /\ st.isActive /\ st.tabInx = scrState[row].tabInx
    BY <1>3 DEF ScriptType
  <2>. QED BY <2>1
<1>5. /\ scrState' \in Seq(ScriptType) /\ DOMAIN scrState' = DOMAIN scrState
      /\ scrState'[row] = st
      /\ \A r \in DOMAIN scrState : r # row => scrState'[r] = scrState[r]
  <2>1. scrState' = [scrState EXCEPT ![row] = st]
    BY <1>1, <1>4
  <2>. QED BY <1>2, <2>1, RowSet
<1>6. \A r \in DOMAIN scrState : /\ scrState'[r].name = scrState[r].name
                                 /\ scrState'[r].text = scrState[r].text
                                 /\ scrState'[r].tabInx = scrState[r].tabInx
  BY <1>4, <1>5
<1>7. Tabbed(scrState', tabs) /\ OnDisk(scrState', files)
  <2>1. Tabbed(scrState', tabs)
    BY <1>2, <1>5, <1>6, SMTT(60) DEF Tabbed
  <2>2. OnDisk(scrState', files)
    BY <1>2, <1>5, <1>6, SMTT(60) DEF OnDisk
  <2>. QED BY <2>1, <2>2
<1>8. active' \in Seq(Names) /\ Listed(scrState', active')
  <2>1. PICK n \in Nat : n = Len(active) + 1
    BY <1>3
  <2>2. scrState[row].name \in Names
    BY <1>3, Fields
  <2>3. /\ active' \in Seq(Names) /\ Len(active') = Len(active) + 1
        /\ \A i \in 1 .. Len(active) : active'[i] = active[i]
        /\ active'[Len(active) + 1] = scrState[row].name
    BY <1>1, <1>2, <2>2, AppendProperties
  <2>4. DOMAIN active' = 1 .. Len(active) + 1
    BY <2>3, LenProperties
  <2>5. /\ DOMAIN active' = DOMAIN active \cup {n} /\ n \notin DOMAIN active
        /\ \A i \in DOMAIN active : active'[i] = active[i]
        /\ active'[n] = scrState[row].name
    BY <1>3, <2>1, <2>3, <2>4
  <2>6. \A i \in DOMAIN active : active[i] # scrState[row].name
    <3> SUFFICES ASSUME NEW i \in DOMAIN active, active[i] = scrState[row].name
                 PROVE  FALSE
      OBVIOUS
    <3>1. PICK r \in DOMAIN scrState : scrState[r].isActive /\ scrState[r].name = active[i]
      BY <1>2 DEF Listed
    <3>2. r = row
      BY <1>2, <3>1 DEF Tabbed
    <3>. QED BY <3>1, <3>2
  <2>7. \A i \in DOMAIN active' : \E r \in DOMAIN scrState' :
          scrState'[r].isActive /\ scrState'[r].name = active'[i]
    <3> TAKE i \in DOMAIN active'
    <3>1. CASE i = n
      BY <1>4, <1>5, <2>5, <3>1
    <3>2. CASE i \in DOMAIN active
      <4>1. PICK r \in DOMAIN scrState : scrState[r].isActive /\ scrState[r].name = active[i]
        BY <1>2, <3>2 DEF Listed
      <4>. QED BY <1>5, <2>5, <3>2, <4>1
    <3>. QED BY <2>5, <3>1, <3>2
  <2>8. \A r \in DOMAIN scrState' : scrState'[r].isActive =>
          \E i \in DOMAIN active' : active'[i] = scrState'[r].name
    <3> SUFFICES ASSUME NEW r \in DOMAIN scrState, scrState'[r].isActive
                 PROVE  \E i \in DOMAIN active' : active'[i] = scrState'[r].name
      BY <1>5
    <3>1. CASE r = row
      BY <1>4, <1>5, <2>5, <3>1
    <3>2. CASE r # row
      <4>1. PICK i \in DOMAIN active : active[i] = scrState[r].name
        BY <1>2, <1>5, <3>2 DEF Listed
      <4>. QED BY <1>5, <2>5, <3>2, <4>1
    <3>. QED BY <3>1, <3>2
  <2>9. \A i, j \in DOMAIN active' : active'[i] = active'[j] => i = j
    BY <1>2, <2>5, <2>6 DEF Listed
  <2>. QED BY <2>3, <2>7, <2>8, <2>9 DEF Listed
<1>9. Types'
  BY <1>1, <1>2, <1>5, <1>8 DEF Types
<1>. QED BY <1>1, <1>7, <1>8, <1>9 DEF IInv, Running, Waits

\* Button Set active.
LEMMA SetActiveInv ==
  ASSUME IInv, NEW row \in DOMAIN scrState, SetActive(row)
  PROVE  IInv'
<1>1. /\ sub.pc # "activate" /\ mtx = "free" /\ ~scrState[row].isActive /\ Activated(row)
      /\ UNCHANGED <<mtx, loaded, tabs, current, files>> /\ sub' = sub
  BY DEF SetActive, WindowFree, thread
<1>2. sub \in [edit : AllTexts, isChange : BOOLEAN, pc : {"closed", "open", "activate"}]
  BY DEF IInv, Types
<1>. QED BY <1>1, <1>2, ActivatedInv

\* activeScript, once the window has mtx_.
LEMMA SubActivateInv ==
  ASSUME IInv, SubActivate
  PROVE  IInv'
<1>1. /\ sub.pc = "activate" /\ mtx = "free" /\ Activated(RowOf(SubName))
      /\ UNCHANGED <<mtx, loaded, tabs, current, files>> /\ sub' = [sub EXCEPT !.pc = "open"]
  BY DEF SubActivate, thread
<1>2. sub \in [edit : AllTexts, isChange : BOOLEAN, pc : {"closed", "open", "activate"}]
  BY DEF IInv, Types
<1>3. /\ sub' \in [edit : AllTexts, isChange : BOOLEAN, pc : {"closed", "open", "activate"}]
      /\ sub'.pc # "activate"
  BY <1>1, <1>2
<1>4. PICK r \in DOMAIN scrState : scrState[r].name = SubName /\ ~scrState[r].isActive
  BY <1>1 DEF IInv, Waits
<1>5. r = RowOf(SubName)
  <2>1. RowOf(SubName) \in DOMAIN scrState /\ scrState[RowOf(SubName)].name = SubName
    BY <1>4, RowFacts DEF IInv, Types
  <2>. QED BY <1>4, <2>1 DEF IInv, Tabbed
<1>. QED BY <1>1, <1>3, <1>4, <1>5, ActivatedInv

\* Button Reset active.
LEMMA ResetActiveInv ==
  ASSUME IInv, NEW i \in DOMAIN active, ResetActive(i)
  PROVE  IInv'
<1>1. PICK name : name = active[i]
  OBVIOUS
<1>2. /\ sub.pc # "activate"
      /\ scrState' = [scrState EXCEPT ![RowOf(name)].isActive = FALSE]
      /\ active' = RemoveAt(active, i) /\ exLoad' = exLoad \ {name}
      /\ UNCHANGED <<mtx, loaded, tabs, current, files, pos, sub>>
  BY <1>1 DEF ResetActive, WindowFree, thread
<1>3. /\ scrState \in Seq(ScriptType) /\ active \in Seq(Names)
      /\ Types /\ Tabbed(scrState, tabs)
      /\ Listed(scrState, active) /\ OnDisk(scrState, files) /\ Running
  BY DEF IInv, Types
<1>4. PICK row \in DOMAIN scrState : row = RowOf(name) /\ scrState[row].name = name
  <2>1. \E r \in DOMAIN scrState : scrState[r].name = name
    BY <1>1, <1>3 DEF Listed
  <2>. QED BY <1>3, <2>1, RowFacts
<1>5. \A r \in DOMAIN scrState : r # row => scrState[r].name # name
  BY <1>3, <1>4 DEF Tabbed
<1>6. PICK st \in ScriptType :
        /\ st = [scrState[row] EXCEPT !.isActive = FALSE]
        /\ st.name = scrState[row].name /\ st.text = scrState[row].text
        /\ ~st.isActive /\ st.tabInx = scrState[row].tabInx
  <2> DEFINE st == [scrState[row] EXCEPT !.isActive = FALSE]
  <2>1. scrState[row] \in ScriptType
    BY <1>3, Elements
  <2>2. /\ st \in ScriptType /\ st.name = scrState[row].name /\ st.text = scrState[row].text
        /\ ~st.isActive /\ st.tabInx = scrState[row].tabInx
    BY <2>1 DEF ScriptType
  <2>. QED BY <2>2
<1>7. /\ scrState' \in Seq(ScriptType) /\ DOMAIN scrState' = DOMAIN scrState
      /\ scrState'[row] = st
      /\ \A r \in DOMAIN scrState : r # row => scrState'[r] = scrState[r]
  <2>1. scrState' = [scrState EXCEPT ![row] = st]
    BY <1>2, <1>4, <1>6
  <2>. QED BY <1>3, <2>1, RowSet
<1>8. \A r \in DOMAIN scrState : /\ scrState'[r].name = scrState[r].name
                                 /\ scrState'[r].text = scrState[r].text
                                 /\ scrState'[r].tabInx = scrState[r].tabInx
  BY <1>6, <1>7
<1>9. Tabbed(scrState', tabs) /\ OnDisk(scrState', files)
  <2>1. Tabbed(scrState', tabs)
    BY <1>3, <1>7, <1>8 DEF Tabbed
  <2>2. OnDisk(scrState', files)
    BY <1>3, <1>7, <1>8 DEF OnDisk
  <2>. QED BY <2>1, <2>2
<1>10. active' \in Seq(Names) /\ Listed(scrState', active')
  <2>1. PICK new \in Seq(Names) :
          /\ new = active'
          /\ \A j \in DOMAIN new : \E x \in DOMAIN active : x # i /\ new[j] = active[x]
          /\ \A x \in DOMAIN active : x # i => \E j \in DOMAIN new : new[j] = active[x]
          /\ \A j, k \in DOMAIN new : new[j] = new[k] => j = k
    BY <1>2, <1>3, PlaceTaken, SMTT(60) DEF Listed
  <2>2. \A x \in DOMAIN active : x # i => active[x] # name
    BY <1>1, <1>3 DEF Listed
  <2>3. \A j \in DOMAIN new : \E r \in DOMAIN scrState' :
          scrState'[r].isActive /\ scrState'[r].name = new[j]
    <3> TAKE j \in DOMAIN new
    <3>1. PICK x \in DOMAIN active : x # i /\ new[j] = active[x]
      BY <2>1
    <3>2. PICK r \in DOMAIN scrState : scrState[r].isActive /\ scrState[r].name = active[x]
      BY <1>3 DEF Listed
    <3>3. r # row
      BY <1>4, <2>2, <3>1, <3>2
    <3>. QED BY <1>7, <3>1, <3>2, <3>3
  <2>4. \A r \in DOMAIN scrState' : scrState'[r].isActive =>
          \E j \in DOMAIN new : new[j] = scrState'[r].name
    <3> SUFFICES ASSUME NEW r \in DOMAIN scrState, scrState'[r].isActive
                 PROVE  \E j \in DOMAIN new : new[j] = scrState'[r].name
      BY <1>7
    <3>1. r # row
      BY <1>6, <1>7
    <3>2. PICK x \in DOMAIN active : active[x] = scrState[r].name
      BY <1>3, <1>7, <3>1 DEF Listed
    <3>3. x # i
      BY <1>1, <1>5, <3>1, <3>2
    <3>. QED BY <1>7, <2>1, <3>1, <3>2, <3>3
  <2>5. Listed(scrState', new)
    BY <2>1, <2>3, <2>4 DEF Listed
  <2>. QED BY <2>1, <2>5
<1>11. IsRun(scrState, loaded, exLoad) => IsRun(scrState', loaded, exLoad')
  <2> SUFFICES ASSUME IsRun(scrState, loaded, exLoad), NEW r \in DOMAIN scrState,
                      scrState'[r].isActive, scrState'[r].name # LoadLua
               PROVE  scrState'[r].name \in exLoad' \/ scrState'[r].text \in loaded
    BY <1>7 DEF IsRun
  <2>1. r # row
    BY <1>6, <1>7
  <2>. QED BY <1>2, <1>5, <1>7, <2>1 DEF IsRun
<1>12. Types'
  BY <1>2, <1>3, <1>7, <1>10 DEF Types
<1>. QED BY <1>2, <1>3, <1>9, <1>10, <1>11, <1>12 DEF IInv, Running, Waits

-----------------------------------------------------------------------------
(* The small dialog's steps.                                               *)

SubType == [edit : AllTexts, isChange : BOOLEAN, pc : {"closed", "open", "activate"}]

\* A script of the signal that is not in the list is added to it.
LEMMA SubAdded ==
  ASSUME Types, ~HasName(SubName), NEW text \in AllTexts,
         NEW tbs, NEW act, NEW ld, NEW ex
  PROVE  \E new \in Seq(ScriptType), st \in ScriptType :
           /\ new = WithSub(text) /\ Longer(scrState, new, st)
           /\ st.name = SubName /\ st.text = text /\ ~st.isActive
           /\ Tabbed(scrState, tbs) => Tabbed(new, tbs)
           /\ Listed(scrState, act) => Listed(new, act)
           /\ IsRun(scrState, ld, ex) => IsRun(new, ld, ex)
<1>1. scrState \in Seq(ScriptType) /\ \A r \in DOMAIN scrState : scrState[r].name # SubName
  BY RowFacts DEF Types, HasName
<1>2. PICK st \in ScriptType : /\ st = Script(SubName, text, 0)
                               /\ st.name = SubName /\ ~st.isActive
                               /\ st.text = text /\ st.tabInx = 0
  <2> DEFINE st == Script(SubName, text, 0)
  <2>1. SubName \in Names
    BY DEF Names
  <2>2. /\ st \in ScriptType /\ st.name = SubName /\ ~st.isActive
        /\ st.text = text /\ st.tabInx = 0
    BY <2>1 DEF Script, ScriptType
  <2>. QED BY <2>2
<1>3. PICK new \in Seq(ScriptType) : new = Append(scrState, st) /\ Longer(scrState, new, st)
  BY <1>1, ScriptAdded
<1>4. /\ Tabbed(scrState, tbs) => Tabbed(new, tbs)
      /\ Listed(scrState, act) => Listed(new, act)
      /\ IsRun(scrState, ld, ex) => IsRun(new, ld, ex)
  BY <1>1, <1>2, <1>3, LongerLists
<1>5. new = WithSub(text)
  BY <1>2, <1>3 DEF WithSub
<1>. QED BY <1>2, <1>3, <1>4, <1>5

\* showSignScript.
LEMMA ShowSubInv ==
  ASSUME IInv, ShowSub
  PROVE  IInv'
<1> DEFINE txt == IF SubName \in DOMAIN files THEN files[SubName] ELSE Stored
<1>1. /\ Types /\ Tabbed(scrState, tabs) /\ Listed(scrState, active)
      /\ OnDisk(scrState, files) /\ Running
      /\ scrState \in Seq(ScriptType) /\ files \in [DOMAIN files -> AllTexts]
  BY DEF IInv, Types
<1>2. PICK text \in AllTexts : text = txt
  BY <1>1 DEF AllTexts
<1>3. /\ sub.pc # "activate"
      /\ files' = With(files, SubName, text) /\ scrState' = WithSub(text)
      /\ sub' = [edit |-> text, isChange |-> FALSE, pc |-> "open"]
      /\ UNCHANGED <<mtx, loaded, tabs, current, active, pos, exLoad>>
  BY <1>2 DEF ShowSub, WindowFree, thread
<1>4. sub' \in SubType /\ sub'.pc # "activate"
  BY <1>3 DEF SubType
<1>5. /\ files' \in [DOMAIN files' -> AllTexts]
      /\ DOMAIN files' = DOMAIN files \cup {SubName} /\ files'[SubName] = text
      /\ \A y \in DOMAIN files : y # SubName => files'[y] = files[y]
  <2>1. /\ With(files, SubName, text) \in [DOMAIN With(files, SubName, text) -> AllTexts]
        /\ DOMAIN With(files, SubName, text) = DOMAIN files \cup {SubName}
        /\ With(files, SubName, text)[SubName] = text
        /\ \A y \in DOMAIN files : y # SubName => With(files, SubName, text)[y] = files[y]
    BY <1>1 DEF With
  <2>. QED BY <1>3, <2>1
<1>6. \A y \in DOMAIN files : files'[y] = files[y]
  BY <1>2, <1>5
<1>7. CASE HasName(SubName)
  <2>1. scrState' = scrState
    BY <1>3, <1>7 DEF WithSub
  <2>2. PICK row \in DOMAIN scrState : scrState[row].name = SubName
    BY <1>1, <1>7, RowFacts DEF HasName
  <2>3. OnDisk(scrState', files')
    <3>1. \A y \in DOMAIN files' : \E r \in DOMAIN scrState : scrState[r].name = y
      BY <1>1, <1>5, <2>2 DEF OnDisk
    <3>2. \A r \in DOMAIN scrState : scrState[r].text # Empty =>
            scrState[r].name \in DOMAIN files' /\ files'[scrState[r].name] = scrState[r].text
      BY <1>1, <1>5, <1>6 DEF OnDisk
    <3>. QED BY <2>1, <3>1, <3>2 DEF OnDisk
  <2>4. Types'
    BY <1>1, <1>3, <1>4, <1>5, <2>1 DEF Types, SubType
  <2>. QED BY <1>1, <1>3, <1>4, <2>1, <2>3, <2>4 DEF IInv, Running, Waits
<1>8. CASE ~HasName(SubName)
  <2>1. PICK new \in Seq(ScriptType), st \in ScriptType :
           /\ new = WithSub(text) /\ Longer(scrState, new, st)
           /\ st.name = SubName /\ st.text = text /\ ~st.isActive
           /\ Tabbed(scrState, tabs) => Tabbed(new, tabs)
           /\ Listed(scrState, active) => Listed(new, active)
           /\ IsRun(scrState, loaded, exLoad) => IsRun(new, loaded, exLoad)
    BY <1>1, <1>8, SubAdded
  <2>2. scrState' = new
    BY <1>3, <2>1
  <2>3. /\ DOMAIN scrState' = DOMAIN scrState \cup {Len(scrState) + 1}
        /\ scrState'[Len(scrState) + 1] = st
        /\ \A r \in DOMAIN scrState : scrState'[r] = scrState[r]
    BY <2>1, <2>2 DEF Longer
  <2>4. OnDisk(scrState', files')
    <3>1. \A y \in DOMAIN files' : \E r \in DOMAIN scrState' : scrState'[r].name = y
      <4> TAKE y \in DOMAIN files'
      <4>1. CASE y = SubName
        BY <2>1, <2>3, <4>1
      <4>2. CASE y \in DOMAIN files
        <5>1. PICK r \in DOMAIN scrState : scrState[r].name = y
          BY <1>1, <4>2 DEF OnDisk
        <5>. QED BY <2>3, <5>1
      <4>. QED BY <1>5, <4>1, <4>2
    <3>2. \A r \in DOMAIN scrState' : scrState'[r].text # Empty =>
            scrState'[r].name \in DOMAIN files' /\ files'[scrState'[r].name] = scrState'[r].text
      <4> SUFFICES ASSUME NEW r \in DOMAIN scrState', scrState'[r].text # Empty
                   PROVE  scrState'[r].name \in DOMAIN files'
                          /\ files'[scrState'[r].name] = scrState'[r].text
        OBVIOUS
      <4>1. CASE r = Len(scrState) + 1
        BY <1>5, <2>1, <2>3, <4>1
      <4>2. CASE r \in DOMAIN scrState
        BY <1>1, <1>5, <1>6, <2>3, <4>2 DEF OnDisk
      <4>. QED BY <2>3, <4>1, <4>2
    <3>. QED BY <3>1, <3>2 DEF OnDisk
  <2>5. Types'
    BY <1>1, <1>3, <1>4, <1>5, <2>1, <2>2 DEF Types, SubType
  <2>. QED BY <1>1, <1>3, <1>4, <2>1, <2>2, <2>4, <2>5 DEF IInv, Running, Waits
<1>. QED BY <1>7, <1>8

\* The script of the signal is put off, and its text is set.
LEMMA RefreshedFacts ==
  ASSUME NEW scr \in Seq(ScriptType), NEW row \in DOMAIN scr, row = RowOf(SubName),
         NEW text \in AllTexts
  PROVE  /\ Refreshed(scr, text) \in Seq(ScriptType)
         /\ Alike(scr, Refreshed(scr, text)) /\ Refreshed(scr, text)[row].text = text
         /\ \A r \in DOMAIN scr : r # row => Refreshed(scr, text)[r].text = scr[r].text
<1> DEFINE mark == IF TabOf(SubName) # 0 THEN FALSE ELSE scr[row].isChange
           st   == [scr[row] EXCEPT !.text = text, !.isChange = mark]
           new  == [scr EXCEPT ![row] = st]
<1>1. Len(scr) \in Nat /\ DOMAIN scr = 1 .. Len(scr) /\ scr[row] \in ScriptType
  BY LenProperties, ElementOfSeq
<1>2. mark \in BOOLEAN
  BY <1>1 DEF ScriptType
<1>3. Refreshed(scr, text) = new
  BY <1>1 DEF Refreshed
<1> HIDE DEF mark
<1>4. /\ st \in ScriptType /\ st.name = scr[row].name /\ st.text = text
      /\ st.isActive = scr[row].isActive /\ st.tabInx = scr[row].tabInx
  BY <1>1, <1>2 DEF ScriptType
<1> HIDE DEF st
<1>5. /\ new \in Seq(ScriptType) /\ DOMAIN new = DOMAIN scr /\ new[row] = st
      /\ \A r \in DOMAIN scr : r # row => new[r] = scr[r]
  BY <1>4, RowSet
<1> HIDE DEF new
<1>6. Alike(scr, new)
  BY <1>4, <1>5 DEF Alike
<1>. QED BY <1>3, <1>4, <1>5, <1>6

\* A script is put off.
LEMMA PutOff ==
  ASSUME NEW scr \in Seq(ScriptType), NEW row \in DOMAIN scr
  PROVE  /\ [scr EXCEPT ![row].isActive = FALSE] \in Seq(ScriptType)
         /\ DOMAIN [scr EXCEPT ![row].isActive = FALSE] = DOMAIN scr
         /\ ~[scr EXCEPT ![row].isActive = FALSE][row].isActive
         /\ \A r \in DOMAIN scr :
              /\ [scr EXCEPT ![row].isActive = FALSE][r].name = scr[r].name
              /\ [scr EXCEPT ![row].isActive = FALSE][r].text = scr[r].text
              /\ [scr EXCEPT ![row].isActive = FALSE][r].tabInx = scr[r].tabInx
              /\ r # row => [scr EXCEPT ![row].isActive = FALSE][r].isActive = scr[r].isActive
<1> DEFINE st  == [scr[row] EXCEPT !.isActive = FALSE]
           new == [scr EXCEPT ![row] = st]
<1>1. Len(scr) \in Nat /\ DOMAIN scr = 1 .. Len(scr) /\ scr[row] \in ScriptType
  BY LenProperties, ElementOfSeq
<1>2. /\ st \in ScriptType /\ st.name = scr[row].name /\ st.text = scr[row].text
      /\ ~st.isActive /\ st.tabInx = scr[row].tabInx
  BY <1>1 DEF ScriptType
<1>3. [scr EXCEPT ![row].isActive = FALSE] = new
  BY <1>1
<1> HIDE DEF st
<1>4. /\ new \in Seq(ScriptType) /\ DOMAIN new = DOMAIN scr /\ new[row] = st
      /\ \A r \in DOMAIN scr : r # row => new[r] = scr[r]
  BY <1>2, RowSet
<1> HIDE DEF new
<1>. QED BY <1>2, <1>3, <1>4

\* The script of the signal is not active any more, its text is that of its
\* file: what this means for the lists.
LEMMA SubPutOff ==
  ASSUME NEW new, NEW row \in DOMAIN scrState, scrState[row].name = SubName,
         DOMAIN new = DOMAIN scrState, ~new[row].isActive,
         \A r \in DOMAIN scrState : /\ new[r].name = scrState[r].name
                                    /\ new[r].tabInx = scrState[r].tabInx,
         \A r \in DOMAIN scrState : r # row => /\ new[r].isActive = scrState[r].isActive
                                               /\ new[r].text = scrState[r].text,
         NEW tbs, Tabbed(scrState, tbs),
         NEW newTabs, DOMAIN newTabs = DOMAIN tbs,
         \A t \in DOMAIN tbs : newTabs[t].name = tbs[t].name,
         NEW act \in Seq(Names), Listed(scrState, act), NEW ld, NEW ex
  PROVE  /\ Tabbed(new, newTabs)
         /\ RemoveFirst(act, SubName) \in Seq(Names) /\ Listed(new, RemoveFirst(act, SubName))
         /\ IsRun(scrState, ld, ex) => IsRun(new, ld, ex \ {SubName})
<1>1. Tabbed(new, newTabs)
  BY DEF Tabbed
<1>2. \A r \in DOMAIN scrState : r # row => scrState[r].name # SubName
  BY DEF Tabbed
<1>3. PICK list \in Seq(Names) :
        /\ list = RemoveFirst(act, SubName)
        /\ \A i \in DOMAIN list : \E j \in DOMAIN act : act[j] = list[i] /\ act[j] # SubName
        /\ \A j \in DOMAIN act : act[j] # SubName => \E i \in DOMAIN list : list[i] = act[j]
        /\ \A i, j \in DOMAIN list : list[i] = list[j] => i = j
  <2>1. \A i, j \in DOMAIN act : act[i] = act[j] => i = j
    BY DEF Listed
  <2>. QED BY <2>1, NameTaken
<1>4. \A i \in DOMAIN list : \E r \in DOMAIN new : new[r].isActive /\ new[r].name = list[i]
  <2> TAKE i \in DOMAIN list
  <2>1. PICK j \in DOMAIN act : act[j] = list[i] /\ act[j] # SubName
    BY <1>3
  <2>2. PICK r \in DOMAIN scrState : scrState[r].isActive /\ scrState[r].name = act[j]
    BY DEF Listed
  <2>. QED BY <2>1, <2>2
<1>5. \A r \in DOMAIN new : new[r].isActive => \E i \in DOMAIN list : list[i] = new[r].name
  <2> SUFFICES ASSUME NEW r \in DOMAIN scrState, new[r].isActive
               PROVE  \E i \in DOMAIN list : list[i] = new[r].name
    OBVIOUS
  <2>1. r # row /\ scrState[r].isActive /\ scrState[r].name # SubName
    BY <1>2
  <2>2. PICK j \in DOMAIN act : act[j] = scrState[r].name
    BY <2>1 DEF Listed
  <2>3. PICK i \in DOMAIN list : list[i] = act[j]
    BY <1>3, <2>1, <2>2
  <2>. QED BY <2>2, <2>3
<1>6. Listed(new, list)
  BY <1>3, <1>4, <1>5 DEF Listed
<1>7. IsRun(scrState, ld, ex) => IsRun(new, ld, ex \ {SubName})
  BY <1>2 DEF IsRun
<1>. QED BY <1>1, <1>3, <1>6, <1>7

\* The text of a tab is set.
LEMMA EditSet ==
  ASSUME tabs \in Seq(TabType), NEW t \in DOMAIN tabs, NEW text \in AllTexts
  PROVE  /\ [tabs EXCEPT ![t].edit = text] \in Seq(TabType)
         /\ Len([tabs EXCEPT ![t].edit = text]) = Len(tabs)
         /\ DOMAIN [tabs EXCEPT ![t].edit = text] = DOMAIN tabs
         /\ \A i \in DOMAIN tabs : [tabs EXCEPT ![t].edit = text][i].name = tabs[i].name
<1>1. Len(tabs) \in Nat /\ DOMAIN tabs = 1 .. Len(tabs) /\ tabs[t] \in TabType
  BY LenProperties, ElementOfSeq
<1> DEFINE st == [tabs[t] EXCEPT !.edit = text]
           new == [tabs EXCEPT ![t] = st]
<1>2. st \in TabType /\ st.name = tabs[t].name
  BY <1>1 DEF TabType
<1>3. [tabs EXCEPT ![t].edit = text] = new
  BY <1>1
<1> HIDE DEF st
<1>4. new \in Seq(TabType) /\ Len(new) = Len(tabs)
  BY <1>1, <1>2, ExceptSeq
<1>5. DOMAIN new = DOMAIN tabs /\ \A i \in DOMAIN tabs : new[i].name = tabs[i].name
  BY <1>1, <1>2
<1> HIDE DEF new
<1>. QED BY <1>3, <1>4, <1>5

\* The tab of the script of the signal is written.
LEMMA TabMarkedFacts ==
  ASSUME scrState \in Seq(ScriptType)
  PROVE  /\ TabMarked \in Seq(ScriptType) /\ Alike(scrState, TabMarked)
         /\ SameTexts(scrState, TabMarked)
<1>1. CASE TabOf(SubName) # 0
  BY <1>1, MarkedFacts DEF TabMarked
<1>2. CASE TabOf(SubName) = 0
  <2>1. Alike(scrState, scrState) /\ SameTexts(scrState, scrState)
    BY DEF Alike, SameTexts
  <2>. QED BY <1>2, <2>1 DEF TabMarked
<1>. QED BY <1>1, <1>2

\* The text in the small dialog is changed.
LEMMA SubEditInv ==
  ASSUME IInv, NEW text \in Texts, SubEdit(text)
  PROVE  IInv'
<1>1. /\ sub.pc = "open" /\ sub' = [sub EXCEPT !.edit = text, !.isChange = TRUE]
      /\ UNCHANGED <<scrState, tabs, current, active, files, mtx, pos, loaded, exLoad>>
  BY DEF SubEdit, thread
<1>2. sub \in SubType /\ text \in AllTexts
  BY DEF IInv, Types, SubType, AllTexts
<1>3. sub' \in SubType /\ sub'.pc # "activate"
  BY <1>1, <1>2 DEF SubType
<1>4. Types'
  BY <1>1, <1>3 DEF IInv, Types, SubType
<1>. QED BY <1>1, <1>3, <1>4 DEF IInv, Running, Waits

\* What saveScript of the dialog leaves in the files, and the text that the
\* script then has.
SavedText(after) ==
  IF SubName \in DOMAIN after THEN after[SubName]
  ELSE IF RowOf(SubName) # 0 THEN scrState[RowOf(SubName)].text ELSE Empty

\* The text is the file's, if there is a file.
LEMMA SubSaved ==
  ASSUME Types, OnDisk(scrState, files), NEW opens, NEW after,
         after = IF opens THEN With(files, SubName, sub.edit) ELSE files
  PROVE  /\ after \in [DOMAIN after -> AllTexts] /\ SavedText(after) \in AllTexts
         /\ DOMAIN files \subseteq DOMAIN after
         /\ DOMAIN after \subseteq DOMAIN files \cup {SubName}
         /\ \A y \in DOMAIN files : y # SubName => after[y] = files[y]
         /\ SavedText(after) # Empty =>
              SubName \in DOMAIN after /\ after[SubName] = SavedText(after)
<1>1. /\ files \in [DOMAIN files -> AllTexts] /\ scrState \in Seq(ScriptType)
      /\ sub.edit \in AllTexts
  BY DEF Types
<1>2. CASE opens
  <2>1. /\ after \in [DOMAIN after -> AllTexts] /\ DOMAIN after = DOMAIN files \cup {SubName}
        /\ \A y \in DOMAIN files : y # SubName => after[y] = files[y]
    BY <1>1, <1>2 DEF With
  <2>2. SavedText(after) = after[SubName]
    BY <2>1 DEF SavedText
  <2>. QED BY <2>1, <2>2
<1>3. CASE ~opens
  <2>1. after = files
    BY <1>3
  <2>2. CASE SubName \in DOMAIN files
    BY <1>1, <2>1, <2>2 DEF SavedText
  <2>3. CASE SubName \notin DOMAIN files
    <3>1. CASE RowOf(SubName) = 0
      BY <1>1, <2>1, <2>3, <3>1 DEF SavedText, AllTexts
    <3>2. CASE RowOf(SubName) # 0
      <4>1. PICK k \in DOMAIN scrState : k = RowOf(SubName) /\ scrState[k].name = SubName
        BY <1>1, <3>2, RowFacts
      <4>2. SavedText(after) = scrState[k].text
        BY <2>1, <2>3, <3>2, <4>1 DEF SavedText
      <4>3. scrState[k].text \in AllTexts
        BY <4>1, Elements, Fields
      <4>4. scrState[k].text = Empty
        BY <2>3, <4>1 DEF OnDisk
      <4>. QED BY <1>1, <2>1, <4>2, <4>3, <4>4
    <3>. QED BY <3>1, <3>2
  <2>. QED BY <2>2, <2>3
<1>. QED BY <1>2, <1>3

\* saveScript of the small dialog.
LEMMA SubSaveInv ==
  ASSUME IInv, NEW opens \in BOOLEAN, SubSave(opens)
  PROVE  IInv'
<1>1. /\ Types /\ Tabbed(scrState, tabs) /\ Listed(scrState, active)
      /\ OnDisk(scrState, files) /\ Running
      /\ scrState \in Seq(ScriptType) /\ tabs \in Seq(TabType) /\ active \in Seq(Names)
      /\ sub \in SubType
  BY DEF IInv, Types, SubType
<1> DEFINE row   == RowOf(SubName)
           wasOn == row # 0 /\ scrState[row].isActive
<1>2. PICK after, text :
        /\ after = (IF opens THEN With(files, SubName, sub.edit) ELSE files)
        /\ text = SavedText(after)
  OBVIOUS
<1>3. /\ files' = after
      /\ scrState' = IF row = 0 THEN WithSub(text)
                     ELSE Refreshed(IF wasOn THEN [TabMarked EXCEPT ![row].isActive = FALSE]
                                    ELSE TabMarked, text)
      /\ tabs' = IF TabOf(SubName) # 0 THEN [tabs EXCEPT ![TabOf(SubName)].edit = text] ELSE tabs
      /\ active' = RemoveFirst(active, SubName) /\ exLoad' = exLoad \ {SubName}
      /\ sub' = [sub EXCEPT !.isChange = FALSE, !.pc = IF wasOn THEN "activate" ELSE "open"]
      /\ UNCHANGED <<mtx, loaded, current, pos>>
  BY <1>2 DEF SubSave, SavedText, thread
<1>4. /\ after \in [DOMAIN after -> AllTexts] /\ text \in AllTexts
      /\ DOMAIN files \subseteq DOMAIN after
      /\ DOMAIN after \subseteq DOMAIN files \cup {SubName}
      /\ \A y \in DOMAIN files : y # SubName => after[y] = files[y]
      /\ text # Empty => SubName \in DOMAIN after /\ after[SubName] = text
  BY <1>1, <1>2, SubSaved
<1>5. sub' \in SubType /\ (sub'.pc = "activate" => wasOn)
  BY <1>1, <1>3 DEF SubType
<1>6. /\ tabs' \in Seq(TabType) /\ Len(tabs') = Len(tabs) /\ DOMAIN tabs' = DOMAIN tabs
      /\ \A t \in DOMAIN tabs : tabs'[t].name = tabs[t].name
      /\ tabs' = <<>> <=> tabs = <<>>
  <2>1. CASE TabOf(SubName) = 0
    BY <1>1, <1>3, <2>1
  <2>2. CASE TabOf(SubName) # 0
    <3>1. PICK t \in DOMAIN tabs : t = TabOf(SubName)
      BY <1>1, <2>2, TabFacts
    <3>2. tabs' = [tabs EXCEPT ![t].edit = text]
      BY <1>3, <2>2, <3>1
    <3>3. /\ tabs' \in Seq(TabType) /\ Len(tabs') = Len(tabs) /\ DOMAIN tabs' = DOMAIN tabs
          /\ \A i \in DOMAIN tabs : tabs'[i].name = tabs[i].name
      BY <1>1, <1>4, <3>2, EditSet
    <3>4. tabs' # <<>> /\ tabs # <<>>
      BY <3>3
    <3>. QED BY <3>3, <3>4
  <2>. QED BY <2>1, <2>2
<1>7. CASE row # 0
  <2>1. PICK k \in DOMAIN scrState : k = row /\ scrState[k].name = SubName
    BY <1>1, <1>7, RowFacts
  <2>2. /\ TabMarked \in Seq(ScriptType) /\ Alike(scrState, TabMarked)
        /\ SameTexts(scrState, TabMarked)
    BY <1>1, TabMarkedFacts
  <2>3. PICK scr \in Seq(ScriptType) :
          /\ scr = (IF wasOn THEN [TabMarked EXCEPT ![k].isActive = FALSE] ELSE TabMarked)
          /\ DOMAIN scr = DOMAIN scrState /\ ~scr[k].isActive
          /\ \A r \in DOMAIN scrState : /\ scr[r].name = scrState[r].name
                                        /\ scr[r].text = scrState[r].text
                                        /\ scr[r].tabInx = scrState[r].tabInx
                                        /\ r # k => scr[r].isActive = scrState[r].isActive
    <3>1. CASE wasOn
      <4>1. PICK mk \in Seq(ScriptType) : mk = TabMarked
        BY <2>2
      <4>2. /\ DOMAIN mk = DOMAIN scrState
            /\ \A r \in DOMAIN scrState :
                 /\ mk[r].name = scrState[r].name /\ mk[r].tabInx = scrState[r].tabInx
                 /\ mk[r].isActive = scrState[r].isActive /\ mk[r].text = scrState[r].text
        BY <2>2, <4>1 DEF Alike, SameTexts
      <4>3. PICK scr : scr = [mk EXCEPT ![k].isActive = FALSE]
        OBVIOUS
      <4>4. /\ scr \in Seq(ScriptType) /\ DOMAIN scr = DOMAIN mk /\ ~scr[k].isActive
            /\ \A r \in DOMAIN mk : /\ scr[r].name = mk[r].name /\ scr[r].text = mk[r].text
                                    /\ scr[r].tabInx = mk[r].tabInx
                                    /\ r # k => scr[r].isActive = mk[r].isActive
        <5>1. k \in DOMAIN mk
          BY <4>2
        <5>2. /\ [mk EXCEPT ![k].isActive = FALSE] \in Seq(ScriptType)
              /\ DOMAIN [mk EXCEPT ![k].isActive = FALSE] = DOMAIN mk
              /\ ~[mk EXCEPT ![k].isActive = FALSE][k].isActive
              /\ \A r \in DOMAIN mk :
                   /\ [mk EXCEPT ![k].isActive = FALSE][r].name = mk[r].name
                   /\ [mk EXCEPT ![k].isActive = FALSE][r].text = mk[r].text
                   /\ [mk EXCEPT ![k].isActive = FALSE][r].tabInx = mk[r].tabInx
                   /\ r # k => [mk EXCEPT ![k].isActive = FALSE][r].isActive = mk[r].isActive
          BY <5>1, PutOff
        <5>. QED BY <4>3, <5>2
      <4>5. scr = (IF wasOn THEN [TabMarked EXCEPT ![k].isActive = FALSE] ELSE TabMarked)
        BY <3>1, <4>1, <4>3
      <4>6. /\ DOMAIN scr = DOMAIN scrState /\ ~scr[k].isActive
            /\ \A r \in DOMAIN scrState :
                 /\ scr[r].name = scrState[r].name /\ scr[r].text = scrState[r].text
                 /\ scr[r].tabInx = scrState[r].tabInx
                 /\ r # k => scr[r].isActive = scrState[r].isActive
        BY <4>2, <4>4
      <4>. QED BY <4>4, <4>5, <4>6
    <3>2. CASE ~wasOn
      <4>1. ~scrState[k].isActive
        BY <1>7, <2>1, <3>2
      <4>. QED BY <2>1, <2>2, <3>2, <4>1 DEF Alike, SameTexts
    <3>. QED BY <3>1, <3>2
  <2>4. scrState' = Refreshed(scr, text)
    BY <1>3, <1>7, <2>1, <2>3
  <2>5. /\ scrState' \in Seq(ScriptType) /\ Alike(scr, scrState') /\ scrState'[k].text = text
        /\ \A r \in DOMAIN scr : r # k => scrState'[r].text = scr[r].text
    <3>1. k \in DOMAIN scr /\ k = RowOf(SubName)
      BY <2>1, <2>3
    <3>2. /\ Refreshed(scr, text) \in Seq(ScriptType)
          /\ Alike(scr, Refreshed(scr, text)) /\ Refreshed(scr, text)[k].text = text
          /\ \A r \in DOMAIN scr : r # k => Refreshed(scr, text)[r].text = scr[r].text
      BY <1>4, <3>1, RefreshedFacts
    <3>. QED BY <2>4, <3>2
  <2>6. /\ DOMAIN scrState' = DOMAIN scrState /\ ~scrState'[k].isActive
        /\ \A r \in DOMAIN scrState : /\ scrState'[r].name = scrState[r].name
                                      /\ scrState'[r].tabInx = scrState[r].tabInx
        /\ \A r \in DOMAIN scrState : r # k =>
             /\ scrState'[r].isActive = scrState[r].isActive
             /\ scrState'[r].text = scrState[r].text
    BY <2>3, <2>5, ZenonT(60) DEF Alike
  <2>7. /\ Tabbed(scrState', tabs')
        /\ RemoveFirst(active, SubName) \in Seq(Names)
        /\ Listed(scrState', RemoveFirst(active, SubName))
        /\ IsRun(scrState, loaded, exLoad) => IsRun(scrState', loaded, exLoad \ {SubName})
    <3>1. PICK new, newTabs : new = scrState' /\ newTabs = tabs'
      OBVIOUS
    <3>. QED BY <1>1, <1>6, <2>1, <2>6, <3>1, SubPutOff
  <2>8. OnDisk(scrState', files')
    <3>1. \A r \in DOMAIN scrState : r # k => scrState[r].name # SubName
      BY <1>1, <2>1 DEF Tabbed
    <3>2. \A y \in DOMAIN files' : \E r \in DOMAIN scrState' : scrState'[r].name = y
      <4> TAKE y \in DOMAIN files'
      <4>1. CASE y = SubName
        BY <2>1, <2>6, <4>1
      <4>2. CASE y \in DOMAIN files
        <5>1. PICK r \in DOMAIN scrState : scrState[r].name = y
          BY <1>1, <4>2 DEF OnDisk
        <5>. QED BY <2>6, <5>1
      <4>. QED BY <1>3, <1>4, <4>1, <4>2
    <3>3. \A r \in DOMAIN scrState' : scrState'[r].text # Empty =>
            scrState'[r].name \in DOMAIN files' /\ files'[scrState'[r].name] = scrState'[r].text
      <4> SUFFICES ASSUME NEW r \in DOMAIN scrState, scrState'[r].text # Empty
                   PROVE  scrState'[r].name \in DOMAIN files'
                          /\ files'[scrState'[r].name] = scrState'[r].text
        BY <2>6
      <4>1. CASE r = k
        <5>1. text # Empty /\ scrState'[r].name = SubName /\ scrState'[r].text = text
          BY <2>1, <2>5, <2>6, <4>1
        <5>2. SubName \in DOMAIN after /\ after[SubName] = text
          BY <1>4, <5>1
        <5>. QED BY <1>3, <5>1, <5>2
      <4>2. CASE r # k
        <5>1. scrState[r].name \in DOMAIN files /\ files[scrState[r].name] = scrState[r].text
          BY <1>1, <2>6, <4>2 DEF OnDisk
        <5>. QED BY <1>3, <1>4, <2>6, <3>1, <4>2, <5>1, ZenonT(60)
      <4>. QED BY <4>1, <4>2
    <3>. QED BY <3>2, <3>3 DEF OnDisk
  <2>9. Types'
    BY <1>1, <1>3, <1>4, <1>5, <1>6, <2>5, <2>7 DEF Types, SubType
  <2>10. Waits'
    <3>1. scrState'[k].name = SubName /\ ~scrState'[k].isActive /\ k \in DOMAIN scrState'
      BY <2>1, <2>6
    <3>. QED BY <3>1 DEF Waits
  <2>11. Running'
    BY <1>1, <1>3, <2>7 DEF Running
  <2>. QED BY <1>3, <2>7, <2>8, <2>9, <2>10, <2>11 DEF IInv
<1>8. CASE row = 0
  <2>1. \A r \in DOMAIN scrState : scrState[r].name # SubName
    BY <1>1, <1>8, RowFacts
  <2>2. TabOf(SubName) = 0 /\ tabs' = tabs
    <3>1. TabOf(SubName) = 0
      <4> SUFFICES ASSUME TabOf(SubName) # 0 PROVE FALSE
        OBVIOUS
      <4>1. PICK t \in DOMAIN tabs : tabs[t].name = SubName
        BY <1>1, TabFacts
      <4>2. PICK r \in DOMAIN scrState : scrState[r].name = tabs[t].name
        BY <1>1 DEF Tabbed
      <4>. QED BY <2>1, <4>1, <4>2
    <3>. QED BY <1>3, <3>1
  <2>3. PICK list \in Seq(Names) : list = active' /\ Listed(scrState, list)
    <3>1. PICK list \in Seq(Names) :
        /\ list = RemoveFirst(active, SubName)
        /\ \A i \in DOMAIN list : \E j \in DOMAIN active : active[j] = list[i] /\ active[j] # SubName
        /\ \A j \in DOMAIN active : active[j] # SubName => \E i \in DOMAIN list : list[i] = active[j]
        /\ \A i, j \in DOMAIN list : list[i] = list[j] => i = j
      <4>1. \A i, j \in DOMAIN active : active[i] = active[j] => i = j
        BY <1>1 DEF Listed
      <4>. QED BY <1>1, <4>1, NameTaken
    <3>2. Listed(scrState, list)
      <4>1. \A i \in DOMAIN list : \E r \in DOMAIN scrState :
              scrState[r].isActive /\ scrState[r].name = list[i]
        <5> TAKE i \in DOMAIN list
        <5>1. PICK j \in DOMAIN active : active[j] = list[i]
          BY <3>1
        <5>. QED BY <1>1, <5>1 DEF Listed
      <4>2. \A r \in DOMAIN scrState : scrState[r].isActive =>
              \E i \in DOMAIN list : list[i] = scrState[r].name
        <5> SUFFICES ASSUME NEW r \in DOMAIN scrState, scrState[r].isActive
                     PROVE  \E i \in DOMAIN list : list[i] = scrState[r].name
          OBVIOUS
        <5>1. PICK j \in DOMAIN active : active[j] = scrState[r].name
          BY <1>1 DEF Listed
        <5>. QED BY <2>1, <3>1, <5>1
      <4>. QED BY <3>1, <4>1, <4>2 DEF Listed
    <3>. QED BY <1>3, <3>1, <3>2
  <2>4. IsRun(scrState, loaded, exLoad) => IsRun(scrState, loaded, exLoad')
    BY <1>3, <2>1 DEF IsRun
  <2>5. PICK ex : ex = exLoad'
    OBVIOUS
  <2>6. PICK new \in Seq(ScriptType), st \in ScriptType :
           /\ new = WithSub(text) /\ Longer(scrState, new, st)
           /\ st.name = SubName /\ st.text = text /\ ~st.isActive
           /\ Tabbed(scrState, tabs) => Tabbed(new, tabs)
           /\ Listed(scrState, list) => Listed(new, list)
           /\ IsRun(scrState, loaded, ex) => IsRun(new, loaded, ex)
    <3>1. ~HasName(SubName)
      BY <1>8 DEF HasName
    <3>. QED BY <1>1, <1>4, <3>1, SubAdded
  <2>7. scrState' = new
    BY <1>3, <1>8, <2>6
  <2>8. PICK n : /\ DOMAIN new = DOMAIN scrState \cup {n} /\ new[n] = st
                 /\ \A r \in DOMAIN scrState : new[r] = scrState[r]
    BY <2>6 DEF Longer
  <2>9. OnDisk(new, after)
    <3>1. \A y \in DOMAIN after : \E r \in DOMAIN new : new[r].name = y
      <4> TAKE y \in DOMAIN after
      <4>1. CASE y = SubName
        BY <2>6, <2>8, <4>1
      <4>2. CASE y \in DOMAIN files
        <5>1. PICK r \in DOMAIN scrState : scrState[r].name = y
          BY <1>1, <4>2 DEF OnDisk
        <5>. QED BY <2>8, <5>1
      <4>. QED BY <1>4, <4>1, <4>2
    <3>2. \A r \in DOMAIN new : new[r].text # Empty =>
            new[r].name \in DOMAIN after /\ after[new[r].name] = new[r].text
      <4> SUFFICES ASSUME NEW r \in DOMAIN new, new[r].text # Empty
                   PROVE  new[r].name \in DOMAIN after /\ after[new[r].name] = new[r].text
        OBVIOUS
      <4>1. CASE r = n
        BY <1>4, <2>6, <2>8, <4>1
      <4>2. CASE r \in DOMAIN scrState
        <5>1. scrState[r].name \in DOMAIN files /\ files[scrState[r].name] = scrState[r].text
          BY <1>1, <2>8, <4>2 DEF OnDisk
        <5>. QED BY <1>4, <2>1, <2>8, <4>2, <5>1
      <4>. QED BY <2>8, <4>1, <4>2
    <3>. QED BY <3>1, <3>2 DEF OnDisk
  <2>10. sub'.pc # "activate"
    BY <1>5, <1>8
  <2>11. Types'
    BY <1>1, <1>3, <1>4, <1>5, <1>6, <2>3, <2>6, <2>7 DEF Types, SubType
  <2>12. Running'
    BY <1>1, <1>3, <2>4, <2>5, <2>6, <2>7 DEF Running
  <2>. QED BY <1>1, <1>3, <2>2, <2>3, <2>6, <2>7, <2>9, <2>10, <2>11, <2>12 DEF IInv, Waits
<1>. QED BY <1>7, <1>8

\* Button Active of the small dialog.
LEMMA SubButtonInv ==
  ASSUME IInv, SubButton
  PROVE  IInv'
<1>1. /\ scrState \in Seq(ScriptType) /\ Types /\ Listed(scrState, active)
      /\ RowOf(SubName) # 0
  BY DEF IInv, Types, SubButton
<1>2. PICK row \in DOMAIN scrState : row = RowOf(SubName) /\ scrState[row].name = SubName
  BY <1>1, RowFacts
<1>3. CASE /\ scrState[row].isActive
           /\ ResetActive(SelectInSeq(active, LAMBDA n : n = SubName))
  <2> DEFINE I == {i \in 1 .. Len(active) : active[i] = SubName}
  <2>1. I # {} /\ I \subseteq Nat
    <3>1. DOMAIN active = 1 .. Len(active)
      BY <1>1, Elements
    <3>2. PICK i \in DOMAIN active : active[i] = SubName
      BY <1>1, <1>2, <1>3 DEF Listed
    <3>. QED BY <3>1, <3>2
  <2>2. SelectInSeq(active, LAMBDA n : n = SubName) = Min(I)
    BY <2>1 DEF SelectInSeq
  <2>3. Min(I) \in I
    <3> HIDE DEF I
    <3>. QED BY <2>1, MinIsLeast
  <2>4. PICK i \in DOMAIN active : i = Min(I)
    BY <1>1, <2>3, Elements
  <2>5. ResetActive(i)
    BY <1>3, <2>2, <2>4
  <2>. QED BY <2>5, ResetActiveInv
<1>4. CASE SetActive(row)
  BY <1>4, SetActiveInv
<1>. QED BY <1>2, <1>3, <1>4 DEF SubButton

\* The small dialog is closed.
LEMMA SubCloseInv ==
  ASSUME IInv, SubClose
  PROVE  IInv'
<1>1. /\ sub.pc = "open" /\ sub' = [sub EXCEPT !.pc = "closed", !.edit = Empty]
      /\ UNCHANGED <<scrState, tabs, current, active, files, mtx, pos, loaded, exLoad>>
  BY DEF SubClose, thread
<1>2. sub \in SubType
  BY DEF IInv, Types, SubType
<1>3. sub' \in SubType /\ sub'.pc # "activate"
  BY <1>1, <1>2 DEF SubType, AllTexts
<1>4. Types'
  BY <1>1, <1>3 DEF IInv, Types, SubType
<1>. QED BY <1>1, <1>3, <1>4 DEF IInv, Running, Waits

-----------------------------------------------------------------------------
(* The thread's steps.                                                     *)

\* A cycle that does not take the texts anew goes on from a place past the
\* start, and what it runs with is what was gone over before.
LEMMA CycleBeginInv ==
  ASSUME IInv, NEW grown \in BOOLEAN, NEW loadFails \in BOOLEAN,
         CycleBegin(grown, loadFails)
  PROVE  IInv'
<1> DEFINE from == IF Mode = "viewer" /\ grown THEN "start" ELSE pos
<1>1. PICK runs \in BOOLEAN :
        /\ mtx = "free" /\ mtx' = IF runs THEN "runs" ELSE "skips"
        /\ pos' = IF runs THEN from ELSE pos
        /\ loaded' = IF runs /\ Anew(from, grown) THEN {scrState[r].text : r \in Others} ELSE loaded
        /\ exLoad' = IF runs /\ Anew(from, grown) THEN {} ELSE exLoad
        /\ UNCHANGED <<scrState, tabs, current, active, files, sub>>
  <2> DEFINE rn == Others # {} /\ ~(/\ RowOf(LoadLua) # 0 /\ scrState[RowOf(LoadLua)].isActive
                                    /\ loadFails)
  <2>1. rn \in BOOLEAN
    OBVIOUS
  <2>. QED BY <2>1 DEF CycleBegin
<1>2. Types /\ Running
  BY DEF IInv
<1>3. Types'
  <2>1. pos' = pos \/ (Mode = "viewer" /\ pos' = "start")
    BY <1>1
  <2>2. pos' \in (IF Mode = "player" THEN {"start"} ELSE {"start", "past"})
    BY <1>2, <2>1 DEF Types
  <2>3. mtx' \in {"free", "runs", "skips"}
    BY <1>1
  <2>. QED BY <1>1, <1>2, <2>2, <2>3 DEF Types
<1>4. Running'
  <2>1. CASE ~runs
    BY <1>1, <1>2, <2>1 DEF Running
  <2>2. CASE runs /\ Anew(from, grown)
    BY <1>1, <2>2 DEF Running, IsRun, Others
  <2>3. CASE runs /\ ~Anew(from, grown)
    <3>1. pos # "start"
      BY <2>3 DEF Anew
    <3>. QED BY <1>1, <1>2, <2>3, <3>1 DEF Running
  <2>. QED BY <2>1, <2>2, <2>3
<1>. QED BY <1>1, <1>3, <1>4 DEF IInv, Waits

\* A cycle ends.
LEMMA CycleEndInv ==
  ASSUME IInv, NEW left \in BOOLEAN, CycleEnd(left)
  PROVE  IInv'
<1>1. /\ mtx # "free" /\ mtx' = "free"
      /\ pos' = IF mtx = "runs" /\ Mode = "viewer" /\ left THEN "past" ELSE pos
      /\ UNCHANGED <<scrState, tabs, current, active, files, sub, loaded, exLoad>>
  BY DEF CycleEnd
<1>2. Types /\ Running
  BY DEF IInv
<1>3. Types'
  BY <1>1, <1>2 DEF Types
<1>4. Running'
  BY <1>1, <1>2 DEF Running
<1>. QED BY <1>1, <1>3, <1>4 DEF IInv, Waits

-----------------------------------------------------------------------------
(* The start.                                                              *)

\* The files of the directory in an order: each of them once.
LEMMA FilesInOrder ==
  ASSUME NEW S, IsFiniteSet(S)
  PROVE  /\ Cardinality(S) \in Nat
         /\ SetToSeq(S) \in [1 .. Cardinality(S) -> S] /\ IsInjective(SetToSeq(S))
         /\ \A x \in S : \E r \in 1 .. Cardinality(S) : SetToSeq(S)[r] = x
<1>1. PICK n \in Nat : n = Cardinality(S)
  BY FS_CardinalityType
<1>2. PICK g : g \in Bijection(1 .. n, S)
  BY <1>1, FS_CardinalityType DEF ExistsBijection
<1>3. g \in [1 .. n -> S] /\ IsInjective(g)
  BY <1>2 DEF Bijection, Injection
<1>4. SetToSeq(S) \in [1 .. n -> S] /\ IsInjective(SetToSeq(S))
  BY <1>1, <1>3 DEF SetToSeq
<1>5. PICK f : f = SetToSeq(S)
  OBVIOUS
<1>6. f \in Injection(1 .. n, S)
  BY <1>4, <1>5 DEF Injection
<1>7. IsFiniteSet(1 .. n) /\ Cardinality(1 .. n) = n
  <2>1. IsFiniteSet(1 .. n) /\ Cardinality(1 .. n) = IF 1 > n THEN 0 ELSE n - 1 + 1
    BY FS_Interval
  <2>. QED BY <2>1
<1>8. f \in Surjection(1 .. n, S)
  BY <1>1, <1>6, <1>7, FS_Injection
<1>9. \A x \in S : \E r \in 1 .. n : f[r] = x
  BY <1>8 DEF Surjection
<1>. QED BY <1>1, <1>4, <1>5, <1>9

\* The start.
LEMMA InitInv ==
  ASSUME Init
  PROVE  IInv
<1>1. PICK S \in SUBSET {LoadLua, SubName} :
        /\ files = [n \in S |-> Stored]
        /\ scrState = [r \in 1 .. Cardinality(S) |-> Script(SetToSeq(S)[r], Stored, 0)]
  BY DEF Init
<1>2. IsFiniteSet(S)
  <2>1. IsFiniteSet({LoadLua, SubName})
    <3>1. IsFiniteSet({LoadLua}) /\ IsFiniteSet({SubName})
      BY FS_Singleton
    <3>2. IsFiniteSet({LoadLua} \cup {SubName})
      BY <3>1, FS_Union
    <3>3. {LoadLua, SubName} = {LoadLua} \cup {SubName}
      OBVIOUS
    <3>. QED BY <3>2, <3>3
  <2>. QED BY <2>1, FS_Subset
<1>3. PICK n, f :
        /\ n \in Nat /\ f \in [1 .. n -> S]
        /\ scrState = [r \in 1 .. n |-> Script(f[r], Stored, 0)]
        /\ \A r, q \in 1 .. n : f[r] = f[q] => r = q
        /\ \A x \in S : \E r \in 1 .. n : f[r] = x
  <2>1. /\ Cardinality(S) \in Nat
        /\ SetToSeq(S) \in [1 .. Cardinality(S) -> S] /\ IsInjective(SetToSeq(S))
        /\ \A x \in S : \E r \in 1 .. Cardinality(S) : SetToSeq(S)[r] = x
    BY <1>2, FilesInOrder
  <2>2. PICK n, f : n = Cardinality(S) /\ f = SetToSeq(S)
    OBVIOUS
  <2>3. \A r, q \in 1 .. n : f[r] = f[q] => r = q
    BY <2>1, <2>2 DEF IsInjective
  <2>4. scrState = [r \in 1 .. n |-> Script(f[r], Stored, 0)]
    BY <1>1, <2>2
  <2>. QED BY <2>1, <2>2, <2>3, <2>4
<1>4. S \subseteq Names
  BY DEF Names
<1>5. /\ DOMAIN scrState = 1 .. n
      /\ \A r \in 1 .. n : /\ scrState[r] \in ScriptType
                           /\ scrState[r].name = f[r] /\ scrState[r].text = Stored
                           /\ ~scrState[r].isActive /\ scrState[r].tabInx = 0
  BY <1>3, <1>4 DEF Script, ScriptType, AllTexts
<1>6. scrState \in Seq(ScriptType)
  <2>1. scrState \in [1 .. n -> ScriptType]
    BY <1>3, <1>5
  <2>. QED BY <1>3, <2>1, SeqDef
<1>7. /\ tabs = <<>> /\ active = <<>> /\ current = 0 /\ mtx = "free" /\ pos = "start"
      /\ sub = [edit |-> Empty, isChange |-> FALSE, pc |-> "closed"]
  BY DEF Init
<1>8. /\ tabs \in Seq(TabType) /\ DOMAIN tabs = {} /\ Len(tabs) = 0
      /\ active \in Seq(Names) /\ DOMAIN active = {}
  BY <1>7
<1>9. Tabbed(scrState, tabs) /\ Listed(scrState, active)
  BY <1>3, <1>5, <1>8 DEF Tabbed, Listed
<1>10. OnDisk(scrState, files) /\ files \in [DOMAIN files -> AllTexts]
  <2>1. DOMAIN files = S /\ \A x \in S : files[x] = Stored
    BY <1>1
  <2>2. files \in [DOMAIN files -> AllTexts]
    BY <1>1 DEF AllTexts
  <2>3. \A x \in DOMAIN files : \E r \in DOMAIN scrState : scrState[r].name = x
    BY <1>3, <1>5, <2>1
  <2>4. \A r \in DOMAIN scrState :
          scrState[r].name \in DOMAIN files /\ files[scrState[r].name] = scrState[r].text
    BY <1>3, <1>5, <2>1
  <2>. QED BY <2>2, <2>3, <2>4 DEF OnDisk
<1>11. sub \in SubType
  BY <1>7 DEF SubType, AllTexts
<1>12. Types
  BY <1>6, <1>7, <1>8, <1>10, <1>11 DEF Types, SubType
<1>. QED BY <1>7, <1>9, <1>10, <1>12 DEF IInv, Running, Waits

-----------------------------------------------------------------------------
(* The theorems.                                                           *)

\* Whatever the user and the thread do, in whatever order, the lists, the tabs,
\* the files and what has been gone over keep telling the same of each script
\* (the handlers of script_dialog_impl.cpp and subscript_dialog.cpp).
THEOREM Invariance == Spec => []IInv
<1>1. IInv /\ [Next]_vars => IInv'
  <2> SUFFICES ASSUME IInv, [Next]_vars
               PROVE  IInv'
    OBVIOUS
  <2>1. CASE AddScript
    BY <2>1, AddScriptInv
  <2>2. CASE SaveScript
    BY <2>2, SaveScriptInv
  <2>3. ASSUME NEW row \in DOMAIN scrState, OpenTab(row)
        PROVE  IInv'
    BY <2>3, OpenTabInv
  <2>4. ASSUME NEW row \in DOMAIN scrState, DeleteScript(row)
        PROVE  IInv'
    BY <2>4, DeleteScriptInv
  <2>5. ASSUME NEW row \in DOMAIN scrState, SetActive(row)
        PROVE  IInv'
    BY <2>5, SetActiveInv
  <2>6. ASSUME NEW row \in DOMAIN scrState, NEW name \in Names, RenameScript(row, name)
        PROVE  IInv'
    BY <2>6, RenameScriptInv
  <2>7. ASSUME NEW inx \in DOMAIN tabs, SelectTab(inx)
        PROVE  IInv'
    BY <2>7, SelectTabInv
  <2>8. ASSUME NEW inx \in DOMAIN tabs, NEW reply \in Answers, NEW opens \in BOOLEAN,
               CloseTab(inx, reply, opens)
        PROVE  IInv'
    BY <2>8, CloseTabInv
  <2>9. ASSUME NEW text \in Texts, Edit(text)
        PROVE  IInv'
    BY <2>9, EditInv
  <2>10. ASSUME NEW i \in DOMAIN active, ResetActive(i)
         PROVE  IInv'
    BY <2>10, ResetActiveInv
  <2>11. CASE Window
    BY <2>1, <2>2, <2>3, <2>4, <2>5, <2>6, <2>7, <2>8, <2>9, <2>10, <2>11 DEF Window
  <2>12. CASE SubWindow
    BY <2>12, ShowSubInv, SubEditInv, SubSaveInv, SubActivateInv, SubButtonInv, SubCloseInv
       DEF SubWindow
  <2>13. CASE Thread
    BY <2>13, CycleBeginInv, CycleEndInv DEF Thread
  <2>14. CASE UNCHANGED vars
    BY <2>14 DEF vars, IInv, Types, Running, Waits
  <2>. QED BY <2>11, <2>12, <2>13, <2>14 DEF Next
<1>. QED BY <1>1, InitInv, PTL DEF Spec

\* RowOf finds the row of a script by its name.
LEMMA RowIs ==
  ASSUME IInv
  PROVE  \A r \in DOMAIN scrState : RowOf(scrState[r].name) = r
<1> TAKE r \in DOMAIN scrState
<1>1. scrState \in Seq(ScriptType) /\ Tabbed(scrState, tabs)
  BY DEF IInv, Types
<1>2. /\ RowOf(scrState[r].name) \in DOMAIN scrState
      /\ scrState[RowOf(scrState[r].name)].name = scrState[r].name
  BY <1>1, RowFacts
<1>. QED BY <1>1, <1>2 DEF Tabbed

\* The lists hold what their types say and no name twice; the current tab is
\* one that there is (scrState_, tabWidget).
THEOREM TypeCorrect == Spec => []TypeOK
<1>1. IInv => TypeOK
  <2> SUFFICES ASSUME IInv
               PROVE  TypeOK
    OBVIOUS
  <2>1. \A r \in DOMAIN scrState :
          /\ scrState[r].name \in Names /\ scrState[r].text \in Texts \cup {Stored, Empty}
          /\ scrState[r].tabInx \in Nat
    BY Elements, Fields DEF IInv, AllTexts
  <2>2. /\ mtx \in {"free", "runs", "skips"}
        /\ pos \in (IF Mode = "player" THEN {"start"} ELSE {"start", "past"})
        /\ current \in 0 .. Len(tabs) /\ (current = 0 <=> tabs = <<>>)
        /\ sub.pc \in {"closed", "open", "activate"}
    BY DEF IInv, Types
  <2>. QED BY <2>1, <2>2, RowIs DEF TypeOK
<1>. QED BY <1>1, Invariance, PTL

\* The list of scripts, the tabs and the list of the active ones stay together
\* (saveScript, nameScriptChange, the handlers of Close, Delete and the menus).
THEOREM ListsStayTogether == Spec => []ListsAgree
<1>1. IInv => ListsAgree
  <2> SUFFICES ASSUME IInv
               PROVE  ListsAgree
    OBVIOUS
  <2>1. Tabbed(scrState, tabs) /\ Listed(scrState, active)
    BY DEF IInv
  <2>2. ASSUME NEW inx \in DOMAIN tabs
        PROVE  HasName(tabs[inx].name) /\ scrState[RowOf(tabs[inx].name)].tabInx = inx
    <3>1. PICK r \in DOMAIN scrState : scrState[r].name = tabs[inx].name /\ scrState[r].tabInx = inx
      BY <2>1 DEF Tabbed
    <3>2. RowOf(tabs[inx].name) = r
      BY <3>1, RowIs
    <3>3. r # 0
      BY Elements DEF IInv
    <3>. QED BY <3>1, <3>2, <3>3 DEF HasName
  <2>3. \A r \in DOMAIN scrState :
          scrState[r].tabInx # 0 => tabs[scrState[r].tabInx].name = scrState[r].name
    BY <2>1 DEF Tabbed
  <2>4. Range(active) = {scrState[r].name : r \in {q \in DOMAIN scrState : scrState[q].isActive}}
    BY <2>1 DEF Listed, Range
  <2>5. IsInjective(active)
    BY <2>1 DEF Listed, IsInjective
  <2>. QED BY <2>2, <2>3, <2>4, <2>5 DEF ListsAgree
<1>. QED BY <1>1, Invariance, PTL

\* What a script runs with is what its file has, and there is a script for
\* every file (saveScript of both dialogs, nameScriptChange, Delete).
THEOREM TextsOnDisk == Spec => []TextOnDisk
<1>1. IInv => TextOnDisk
  <2> SUFFICES ASSUME IInv
               PROVE  TextOnDisk
    OBVIOUS
  <2>1. OnDisk(scrState, files)
    BY DEF IInv
  <2>2. \A name \in DOMAIN files : HasName(name)
    <3> TAKE name \in DOMAIN files
    <3>1. PICK r \in DOMAIN scrState : scrState[r].name = name
      BY <2>1 DEF OnDisk
    <3>2. r # 0 /\ RowOf(name) = r
      BY <3>1, RowIs, Elements DEF IInv
    <3>. QED BY <3>2 DEF HasName
  <2>. QED BY <2>1, <2>2 DEF TextOnDisk, OnDisk
<1>. QED BY <1>1, Invariance, PTL

\* No record is counted as gone over with a text that an active script does not
\* have any more (setting buffCPos_ back in saveScript and activeScript, under
\* mtx_, against the cycle of the thread).
THEOREM RunWithPresentTexts == Spec => []CurrentIsRun
<1>1. IInv => CurrentIsRun
  BY DEF IInv, Running, IsRun, CurrentIsRun, Others
<1>. QED BY <1>1, Invariance, PTL

-----------------------------------------------------------------------------
(* The loader of the records (Viewer).                                     *)

LEMMA Least ==
  ASSUME NEW T, T \subseteq Nat, T # {}
  PROVE  \E x \in T : \A y \in T : x <= y
<1> DEFINE Below == {ss \in Nat \X Nat : ss[1] < ss[2]}
<1>1. Below = OpToRel(<, Nat)
  BY DEF OpToRel
<1>2. IsWellFoundedOn(Below, Nat)
  BY <1>1, NatLessThanWellFounded
<1>3. PICK x \in T : \A y \in T : <<y, x>> \notin Below
  <2> HIDE DEF Below
  <2> QED BY <1>2, WFMin, Zenon
<1>4. ASSUME NEW y \in T PROVE x <= y
  <2>1. x \in Nat /\ y \in Nat /\ <<y, x>> \notin Below
    BY <1>3
  <2>2. y < x => <<y, x>> \in Below
    BY <2>1
  <2> QED BY <2>1, <2>2
<1> QED BY <1>4

\* What holds of 0, and with n of n + 1, holds of every number.
LEMMA FromZeroOn ==
  ASSUME NEW T, 0 \in T, \A n \in Nat : n \in T => n + 1 \in T
  PROVE  \A n \in Nat : n \in T
<1>1. SUFFICES ASSUME {n \in Nat : n \notin T} # {} PROVE FALSE
  OBVIOUS
<1>2. PICK x \in {n \in Nat : n \notin T} : \A y \in {n \in Nat : n \notin T} : x <= y
  <2>1. {n \in Nat : n \notin T} \subseteq Nat
    OBVIOUS
  <2>2. QED
    BY <1>1, <2>1, Least, Zenon
<1>3. x - 1 \in Nat /\ x - 1 \notin {n \in Nat : n \notin T}
  BY <1>2
<1>4. QED
  BY <1>2, <1>3

-----------------------------------------------------------------------------
(* Lists as enumerations of places.                                        *)

\* q has what v has at each of the places P, once for each place.
Enum(q, P, v) ==
  /\ Len(q) \in Nat /\ DOMAIN q = 1 .. Len(q)
  /\ \E b \in [1 .. Len(q) -> P] :
       /\ \A i, j \in 1 .. Len(q) : b[i] = b[j] => i = j
       /\ \A x \in P : \E i \in 1 .. Len(q) : b[i] = x
       /\ \A i \in 1 .. Len(q) : q[i] = v[b[i]]

LEMMA NothingListed ==
  ASSUME NEW v
  PROVE  Enum(<<>>, {}, v)
<1>1. Len(<<>>) = 0 /\ DOMAIN <<>> = 1 .. 0 /\ 1 .. 0 = {}
  OBVIOUS
<1>2. PICK b : b = [i \in 1 .. 0 |-> 0]
  OBVIOUS
<1>3. b \in [1 .. 0 -> {}]
  BY <1>1, <1>2
<1> QED BY <1>1, <1>3 DEF Enum

LEMMA OneListed ==
  ASSUME NEW e, NEW x, NEW v, v[x] = e
  PROVE  Enum(<<e>>, {x}, v)
<1>1. Len(<<e>>) = 1 /\ DOMAIN <<e>> = 1 .. 1 /\ <<e>>[1] = e
  OBVIOUS
<1>2. PICK b : b = [i \in 1 .. 1 |-> x]
  OBVIOUS
<1>3. b \in [1 .. 1 -> {x}] /\ b[1] = x /\ \A i \in 1 .. 1 : i = 1
  BY <1>2
<1> QED BY <1>1, <1>3 DEF Enum

\* One list after another.
LEMMA ListedTogether ==
  ASSUME NEW T, NEW p \in Seq(T), NEW q \in Seq(T), NEW P, NEW Q, P \cap Q = {}, NEW v,
         Enum(p, P, v), Enum(q, Q, v)
  PROVE  Enum(p \o q, P \cup Q, v)
<1> DEFINE m == Len(p)
           n == Len(q)
           r == p \o q
<1>1. m \in Nat /\ n \in Nat
  BY LenProperties
<1>2. /\ Len(r) = m + n /\ DOMAIN r = 1 .. m + n
      /\ \A i \in 1 .. m + n : r[i] = IF i <= m THEN p[i] ELSE q[i - m]
  <2>1. r \in Seq(T) /\ Len(r) = m + n
    BY ConcatProperties
  <2>2. DOMAIN r = 1 .. m + n
    BY <2>1, LenProperties
  <2>3. \A i \in 1 .. m + n : r[i] = IF i <= m THEN p[i] ELSE q[i - m]
    BY ConcatProperties
  <2> QED BY <2>1, <2>2, <2>3
<1>3. PICK a \in [1 .. m -> P] :
        /\ \A i, j \in 1 .. m : a[i] = a[j] => i = j
        /\ \A x \in P : \E i \in 1 .. m : a[i] = x
        /\ \A i \in 1 .. m : p[i] = v[a[i]]
  BY DEF Enum
<1>4. PICK b \in [1 .. n -> Q] :
        /\ \A i, j \in 1 .. n : b[i] = b[j] => i = j
        /\ \A x \in Q : \E i \in 1 .. n : b[i] = x
        /\ \A i \in 1 .. n : q[i] = v[b[i]]
  BY DEF Enum
<1> HIDE DEF m, n, r
<1> DEFINE c == [i \in 1 .. m + n |-> IF i <= m THEN a[i] ELSE b[i - m]]
<1>5. \A i \in 1 .. m + n :
        /\ i <= m => i \in 1 .. m /\ c[i] = a[i] /\ c[i] \in P
        /\ ~ i <= m => i - m \in 1 .. n /\ c[i] = b[i - m] /\ c[i] \in Q
  BY <1>1, <1>3, <1>4
<1>6. c \in [1 .. m + n -> P \cup Q]
  BY <1>5
<1> HIDE DEF c
<1>7. ASSUME NEW i \in 1 .. m + n, NEW j \in 1 .. m + n, c[i] = c[j] PROVE i = j
  <2>1. i \in Int /\ j \in Int
    OBVIOUS
  <2>2. CASE i <= m /\ j <= m
    BY <1>3, <1>5, <1>7, <2>2
  <2>3. CASE ~ i <= m /\ ~ j <= m
    <3>1. i - m = j - m
      BY <1>4, <1>5, <1>7, <2>3
    <3> QED BY <1>1, <2>1, <3>1
  <2>4. (i <= m) <=> (j <= m)
    BY <1>5, <1>7
  <2> QED BY <2>2, <2>3, <2>4
<1>8. ASSUME NEW x \in P \cup Q PROVE \E i \in 1 .. m + n : c[i] = x
  <2>1. CASE x \in P
    <3>1. PICK i \in 1 .. m : a[i] = x
      BY <1>3, <2>1
    <3>2. i \in 1 .. m + n /\ i <= m
      BY <1>1
    <3> QED BY <1>5, <3>1, <3>2
  <2>2. CASE x \in Q
    <3>1. PICK i \in 1 .. n : b[i] = x
      BY <1>4, <2>2
    <3>2. m + i \in 1 .. m + n /\ ~ m + i <= m /\ (m + i) - m = i
      BY <1>1
    <3> QED BY <1>5, <3>1, <3>2
  <2> QED BY <2>1, <2>2
<1>9. ASSUME NEW i \in 1 .. m + n PROVE r[i] = v[c[i]]
  <2>1. CASE i <= m
    BY <1>2, <1>3, <1>5, <2>1
  <2>2. CASE ~ i <= m
    BY <1>2, <1>4, <1>5, <2>2
  <2> QED BY <2>1, <2>2
<1>10. Len(r) \in Nat /\ m + n = Len(r)
  BY <1>1, <1>2
<1>11. Enum(r, P \cup Q, v)
  <2>1. /\ \A i, j \in 1 .. Len(r) : c[i] = c[j] => i = j
        /\ \A x \in P \cup Q : \E i \in 1 .. Len(r) : c[i] = x
        /\ \A i \in 1 .. Len(r) : r[i] = v[c[i]]
    BY <1>7, <1>8, <1>9, <1>10
  <2>2. c \in [1 .. Len(r) -> P \cup Q] /\ DOMAIN r = 1 .. Len(r)
    BY <1>2, <1>6, <1>10
  <2> QED BY <1>10, <2>1, <2>2, Zenon DEF Enum
<1> QED BY <1>11 DEF r

\* A list of the places of another.
LEMMA ListedAgain ==
  ASSUME NEW q, NEW r, NEW P, NEW v, Enum(q, P, v), Enum(r, 1 .. Len(q), q)
  PROVE  Enum(r, P, v)
<1> DEFINE m == Len(q)
           n == Len(r)
<1>1. PICK a \in [1 .. m -> P] :
        /\ \A i, j \in 1 .. m : a[i] = a[j] => i = j
        /\ \A x \in P : \E i \in 1 .. m : a[i] = x
        /\ \A i \in 1 .. m : q[i] = v[a[i]]
  BY DEF Enum
<1>2. PICK b \in [1 .. n -> 1 .. m] :
        /\ \A i, j \in 1 .. n : b[i] = b[j] => i = j
        /\ \A x \in 1 .. m : \E i \in 1 .. n : b[i] = x
        /\ \A i \in 1 .. n : r[i] = q[b[i]]
  BY DEF Enum
<1>3. n \in Nat /\ DOMAIN r = 1 .. n
  BY DEF Enum
<1> HIDE DEF m, n
<1> DEFINE c == [i \in 1 .. n |-> a[b[i]]]
<1>4. c \in [1 .. n -> P] /\ \A i \in 1 .. n : c[i] = a[b[i]] /\ b[i] \in 1 .. m
  BY <1>1, <1>2
<1> HIDE DEF c
<1>5. \A i, j \in 1 .. n : c[i] = c[j] => i = j
  BY <1>1, <1>2, <1>4
<1>6. ASSUME NEW x \in P PROVE \E i \in 1 .. n : c[i] = x
  <2>1. PICK k \in 1 .. m : a[k] = x
    BY <1>1
  <2>2. PICK i \in 1 .. n : b[i] = k
    BY <1>2
  <2> QED BY <1>4, <2>1, <2>2
<1>7. \A i \in 1 .. n : r[i] = v[c[i]]
  BY <1>1, <1>2, <1>4
<1> QED BY <1>3, <1>4, <1>5, <1>6, <1>7, Zenon DEF Enum, n

-----------------------------------------------------------------------------
(* Lists of lists, one list after the other.                               *)

FlatOf(X) ==
  CHOOSE F : F = [i \in 1 .. Len(X) |-> IF i = 1 THEN X[i] ELSE F[i - 1] \o X[i]]

LEMMA FlatIs ==
  ASSUME NEW X, Len(X) \in Nat
  PROVE  FlatOf(X) = [i \in 1 .. Len(X) |-> IF i = 1 THEN X[i] ELSE FlatOf(X)[i - 1] \o X[i]]
<1> DEFINE Turn(G, i) == IF i = 1 THEN X[i] ELSE G[i - 1] \o X[i]
           S == {k \in Nat : \E G : G = [i \in 1 .. k |-> Turn(G, i)]}
<1>1. 0 \in S
  <2>1. PICK G : G = [i \in 1 .. 0 |-> <<>>]
    OBVIOUS
  <2>2. G = [i \in 1 .. 0 |-> Turn(G, i)]
    BY <2>1
  <2> QED BY <2>2
<1>2. ASSUME NEW k \in Nat, k \in S PROVE k + 1 \in S
  <2>1. PICK G : G = [i \in 1 .. k |-> Turn(G, i)]
    BY <1>2
  <2>2. PICK H : H = [i \in 1 .. k + 1 |-> IF i = k + 1 THEN Turn(G, k + 1) ELSE G[i]]
    OBVIOUS
  <2>3. ASSUME NEW i \in 1 .. k + 1 PROVE H[i] = Turn(H, i)
    <3>1. CASE i = 1
      BY <2>1, <2>2, <3>1
    <3>2. CASE i # 1
      <4>1. i - 1 \in 1 .. k /\ i - 1 \in 1 .. k + 1 /\ i - 1 # k + 1
        BY <3>2
      <4>2. H[i - 1] = G[i - 1]
        BY <2>2, <4>1
      <4>3. H[i] = Turn(G, i)
        <5> HIDE DEF Turn
        <5>1. H[i] = IF i = k + 1 THEN Turn(G, k + 1) ELSE G[i]
          BY <2>2, Zenon
        <5>2. CASE i = k + 1
          BY <5>1, <5>2, Zenon
        <5>3. CASE i # k + 1
          <6>1. i \in 1 .. k
            BY <5>3
          <6>2. G[i] = Turn(G, i)
            BY <2>1, <6>1, Zenon
          <6> QED BY <5>1, <5>3, <6>2, Zenon
        <5> QED BY <5>2, <5>3, Zenon
      <4>4. Turn(G, i) = Turn(H, i)
        BY <3>2, <4>2, Zenon
      <4> QED BY <4>3, <4>4, Zenon
    <3> QED BY <3>1, <3>2
  <2>4. H = [i \in 1 .. k + 1 |-> Turn(H, i)]
    <3> HIDE DEF Turn
    <3> QED BY <2>2, <2>3
  <2>5. k + 1 \in Nat
    OBVIOUS
  <2> HIDE DEF Turn
  <2> QED BY <2>4, <2>5, Zenon
<1>3. Len(X) \in S
  <2> HIDE DEF S
  <2> QED BY <1>1, <1>2, FromZeroOn, Zenon
<1>4. \E G : G = [i \in 1 .. Len(X) |-> Turn(G, i)]
  BY <1>3
<1> QED BY <1>4, Zenon DEF FlatOf

\* What stands before the k-th list, and with it.
LEMMA Flattened ==
  ASSUME NEW T, NEW X \in Seq(Seq(T))
  PROVE  \E F : /\ F[0] = <<>>
                /\ \A k \in 1 .. Len(X) : F[k] = F[k - 1] \o X[k]
                /\ \A k \in 0 .. Len(X) : F[k] \in Seq(T)
                /\ FlattenSeq(X) = F[Len(X)]
<1>1. Len(X) \in Nat /\ \A i \in 1 .. Len(X) : X[i] \in Seq(T)
  BY LenProperties, ElementOfSeq
<1>2. PICK G : G = FlatOf(X)
  OBVIOUS
<1>3. G = [i \in 1 .. Len(X) |-> IF i = 1 THEN X[i] ELSE G[i - 1] \o X[i]]
  BY <1>1, <1>2, FlatIs, Zenon
<1>4. FlattenSeq(X) = IF Len(X) = 0 THEN X ELSE G[Len(X)]
  BY <1>2 DEF FlattenSeq, FlatOf
<1>5. PICK F : F = [k \in 0 .. Len(X) |-> IF k = 0 THEN <<>> ELSE G[k]]
  OBVIOUS
<1>6. F[0] = <<>>
  BY <1>1, <1>5
<1>7. ASSUME NEW k \in 1 .. Len(X) PROVE F[k] = F[k - 1] \o X[k]
  <2>1. k \in 0 .. Len(X) /\ F[k] = G[k]
    BY <1>5
  <2>2. CASE k = 1
    <3>1. F[k - 1] = <<>> /\ F[k] = X[k]
      BY <1>3, <1>6, <2>1, <2>2
    <3>2. <<>> \o X[k] = X[k]
      BY <1>1, ConcatEmptySeq
    <3> QED BY <3>1, <3>2
  <2>3. CASE k # 1
    <3>1. k - 1 \in 0 .. Len(X) /\ k - 1 # 0
      BY <2>3
    <3>2. F[k - 1] = G[k - 1]
      BY <1>5, <3>1
    <3> QED BY <1>3, <2>1, <2>3, <3>2
  <2> QED BY <2>2, <2>3
<1> DEFINE S == {k \in Nat : k <= Len(X) => F[k] \in Seq(T)}
<1>8. 0 \in S
  <2>1. <<>> \in Seq(T)
    BY EmptySeq
  <2> QED BY <1>6, <2>1
<1>9. ASSUME NEW k \in Nat, k \in S PROVE k + 1 \in S
  <2> SUFFICES ASSUME k + 1 <= Len(X) PROVE F[k + 1] \in Seq(T)
    BY <1>9
  <2>1. k + 1 \in 1 .. Len(X) /\ (k + 1) - 1 = k /\ F[k] \in Seq(T)
    BY <1>1, <1>9
  <2>2. F[k + 1] = F[k] \o X[k + 1] /\ X[k + 1] \in Seq(T)
    BY <1>1, <1>7, <2>1
  <2> QED BY <2>1, <2>2, ConcatProperties
<1>10. \A k \in Nat : k \in S
  <2> HIDE DEF S
  <2> QED BY <1>8, <1>9, FromZeroOn, Zenon
<1>11. \A k \in 0 .. Len(X) : F[k] \in Seq(T)
  BY <1>10
<1>12. FlattenSeq(X) = F[Len(X)]
  <2>1. CASE Len(X) = 0
    <3>1. X = <<>>
      BY <2>1, EmptySeq
    <3> QED BY <1>4, <1>6, <2>1, <3>1
  <2>2. CASE Len(X) # 0
    BY <1>1, <1>4, <1>5, <2>2
  <2> QED BY <2>1, <2>2
<1> QED BY <1>6, <1>7, <1>11, <1>12

\* Lists of places that are apart.
LEMMA ListedFlat ==
  ASSUME NEW T, NEW q, Len(q) \in Nat, \A i, j \in 1 .. Len(q) : q[i] = q[j] => i = j,
         NEW X \in Seq(Seq(T)), Len(X) = Len(q), NEW P, NEW v,
         \A i, j \in 1 .. Len(q) : i # j => P[q[i]] \cap P[q[j]] = {},
         \A i \in 1 .. Len(q) : Enum(X[i], P[q[i]], v)
  PROVE  /\ Enum(FlattenSeq(X), UNION {P[q[i]] : i \in 1 .. Len(q)}, v)
         /\ FlattenSeq(X) \in Seq(T)
<1>1. PICK F : /\ F[0] = <<>>
               /\ \A k \in 1 .. Len(X) : F[k] = F[k - 1] \o X[k]
               /\ \A k \in 0 .. Len(X) : F[k] \in Seq(T)
               /\ FlattenSeq(X) = F[Len(X)]
  BY Flattened, Zenon
<1> DEFINE Upto(k) == UNION {P[q[i]] : i \in 1 .. k}
           S == {k \in Nat : k <= Len(q) => Enum(F[k], Upto(k), v)}
<1>2. 0 \in S
  <2>1. Upto(0) = {}
    OBVIOUS
  <2>2. Enum(F[0], {}, v)
    BY <1>1, NothingListed
  <2> QED BY <2>1, <2>2
<1>3. ASSUME NEW k \in Nat, k \in S PROVE k + 1 \in S
  <2> SUFFICES ASSUME k + 1 <= Len(q) PROVE Enum(F[k + 1], Upto(k + 1), v)
    OBVIOUS
  <2>1. /\ k + 1 \in 1 .. Len(q) /\ (k + 1) - 1 = k /\ k \in 0 .. Len(X) /\ k + 1 \in 1 .. Len(X)
        /\ Enum(F[k], Upto(k), v)
    BY <1>3
  <2>2. F[k + 1] = F[k] \o X[k + 1] /\ F[k] \in Seq(T) /\ X[k + 1] \in Seq(T)
    BY <1>1, <2>1, ElementOfSeq
  <2>3. Upto(k + 1) = Upto(k) \cup P[q[k + 1]]
    <3>1. 1 .. k + 1 = (1 .. k) \cup {k + 1}
      OBVIOUS
    <3> QED BY <3>1
  <2>4. Upto(k) \cap P[q[k + 1]] = {}
    <3>1. ASSUME NEW i \in 1 .. k PROVE P[q[i]] \cap P[q[k + 1]] = {}
      <4>1. i \in 1 .. Len(q) /\ i # k + 1
        BY <2>1
      <4> QED BY <2>1, <4>1, Zenon
    <3>2. ASSUME NEW x \in Upto(k), x \in P[q[k + 1]] PROVE FALSE
      <4>1. PICK i \in 1 .. k : x \in P[q[i]]
        OBVIOUS
      <4> QED BY <3>1, <3>2, <4>1
    <3> HIDE DEF Upto
    <3> QED BY <3>2
  <2>5. Enum(X[k + 1], P[q[k + 1]], v)
    BY <2>1
  <2> HIDE DEF Upto
  <2>6. Enum(F[k] \o X[k + 1], Upto(k) \cup P[q[k + 1]], v)
    BY <2>1, <2>2, <2>4, <2>5, ListedTogether
  <2> QED BY <2>2, <2>3, <2>6
<1>4. \A k \in Nat : k \in S
  <2> HIDE DEF S
  <2> QED BY <1>2, <1>3, FromZeroOn, Zenon
<1>5. Enum(F[Len(q)], Upto(Len(q)), v)
  <2>1. Len(q) \in S
    <3> HIDE DEF S
    <3> QED BY <1>4
  <2>2. Len(q) <= Len(q)
    OBVIOUS
  <2> HIDE DEF Upto
  <2> QED BY <2>1, <2>2
<1>6. F[Len(X)] \in Seq(T)
  BY <1>1
<1> QED BY <1>1, <1>5, <1>6


\* Those of a list that are in S.
LEMMA OnlyListed ==
  ASSUME NEW T, NEW way \in Seq(T), NEW S
  PROVE  /\ Only(way, S) \in Seq(T)
         /\ Enum(Only(way, S), {k \in 1 .. Len(way) : way[k] \in S}, way)
<1> DEFINE n == Len(way)
           q == [k \in 1 .. n |-> k]
           X == [k \in 1 .. n |-> IF way[k] \in S THEN <<way[k]>> ELSE <<>>]
           P == [k \in 1 .. n |-> IF way[k] \in S THEN {k} ELSE {}]
<1>1. n \in Nat /\ DOMAIN way = 1 .. n /\ \A k \in 1 .. n : way[k] \in T
  BY LenProperties, ElementOfSeq
<1>2. Len(q) = n /\ \A i \in 1 .. n : q[i] = i
  BY <1>1
<1>3. X \in Seq(Seq(T)) /\ Len(X) = n
  <2>1. \A k \in 1 .. n : (IF way[k] \in S THEN <<way[k]>> ELSE <<>>) \in Seq(T)
    BY <1>1
  <2>2. X \in [1 .. n -> Seq(T)]
    BY <2>1
  <2> QED BY <1>1, <2>2
<1>4. \A i \in 1 .. n : Enum(X[i], P[i], way)
  <2> SUFFICES ASSUME NEW i \in 1 .. n PROVE Enum(X[i], P[i], way)
    OBVIOUS
  <2>1. CASE way[i] \in S
    <3>1. X[i] = <<way[i]>> /\ P[i] = {i}
      BY <2>1
    <3> QED BY <3>1, OneListed
  <2>2. CASE way[i] \notin S
    <3>1. X[i] = <<>> /\ P[i] = {}
      BY <2>2
    <3> QED BY <3>1, NothingListed
  <2> QED BY <2>1, <2>2
<1>5. \A i, j \in 1 .. n : i # j => P[i] \cap P[j] = {}
  OBVIOUS
<1>6. UNION {P[i] : i \in 1 .. n} = {k \in 1 .. n : way[k] \in S}
  OBVIOUS
<1>7. Only(way, S) = FlattenSeq(X)
  BY <1>1 DEF Only
<1> HIDE DEF X, P, q, n
<1>8. /\ Enum(FlattenSeq(X), UNION {P[q[i]] : i \in 1 .. Len(q)}, way)
      /\ FlattenSeq(X) \in Seq(T)
  <2>1. Len(q) \in Nat /\ Len(X) = Len(q) /\ \A i, j \in 1 .. Len(q) : q[i] = q[j] => i = j
    BY <1>1, <1>2, <1>3
  <2>2. /\ \A i, j \in 1 .. Len(q) : i # j => P[q[i]] \cap P[q[j]] = {}
        /\ \A i \in 1 .. Len(q) : Enum(X[i], P[q[i]], way)
    BY <1>2, <1>4, <1>5
  <2> QED BY <1>3, <2>1, <2>2, ListedFlat
<1>9. {P[q[i]] : i \in 1 .. Len(q)} = {P[i] : i \in 1 .. n}
  BY <1>2
<1> QED BY <1>6, <1>7, <1>8, <1>9 DEF n

\* What Only leaves on the way.
LEMMA OnlyHas ==
  ASSUME NEW T, NEW way \in Seq(T), NEW S
  PROVE  /\ Range(Only(way, S)) = Range(way) \cap S
         /\ Only(way, S) = <<>> <=> Range(way) \cap S = {}
<1> DEFINE n == Len(way)
           r == Only(way, S)
           K == {k \in 1 .. n : way[k] \in S}
<1>1. n \in Nat /\ DOMAIN way = 1 .. n
  BY LenProperties
<1>2. r \in Seq(T) /\ Enum(r, K, way)
  BY OnlyListed
<1> HIDE DEF r
<1>3. Len(r) \in Nat /\ DOMAIN r = 1 .. Len(r)
  BY <1>2 DEF Enum
<1>4. PICK b \in [1 .. Len(r) -> K] :
        /\ \A x \in K : \E i \in 1 .. Len(r) : b[i] = x
        /\ \A i \in 1 .. Len(r) : r[i] = way[b[i]]
  BY <1>2 DEF Enum
<1>5. Range(way) = {way[k] : k \in 1 .. n} /\ Range(r) = {r[k] : k \in 1 .. Len(r)}
  BY <1>1, <1>3 DEF Range
<1> HIDE DEF n
<1>6. Range(r) = Range(way) \cap S
  <2>1. ASSUME NEW y \in Range(r) PROVE y \in Range(way) \cap S
    <3>1. PICK i \in 1 .. Len(r) : y = r[i]
      BY <1>5
    <3>2. b[i] \in K
      BY <1>4
    <3> QED BY <1>4, <1>5, <3>1, <3>2
  <2>2. ASSUME NEW y \in Range(way), y \in S PROVE y \in Range(r)
    <3>1. PICK k \in 1 .. n : y = way[k]
      BY <1>5
    <3>2. k \in K
      BY <2>2, <3>1
    <3>3. PICK i \in 1 .. Len(r) : b[i] = k
      BY <1>4, <3>2
    <3> QED BY <1>4, <1>5, <3>1, <3>3
  <2> QED BY <2>1, <2>2
<1>7. r = <<>> <=> Range(r) = {}
  <2>1. r = <<>> => Range(r) = {}
    BY DEF Range
  <2>2. Range(r) = {} => Len(r) = 0
    <3>1. ASSUME Range(r) = {}, Len(r) # 0 PROVE FALSE
      <4>1. 1 \in 1 .. Len(r)
        BY <1>3, <3>1
      <4>2. r[1] \in Range(r)
        BY <1>5, <4>1
      <4> QED BY <3>1, <4>2
    <3> QED BY <3>1
  <2>3. Len(r) = 0 => r = <<>>
    BY <1>2, EmptySeq
  <2> QED BY <2>1, <2>2, <2>3
<1> QED BY <1>6, <1>7 DEF r

\* A list and one more.
LEMMA OneMore ==
  ASSUME NEW T, NEW p \in Seq(T), NEW x \in T
  PROVE  /\ Len(p \o <<x>>) = Len(p) + 1
         /\ \A i \in 1 .. Len(p) + 1 :
              (p \o <<x>>)[i] = IF i <= Len(p) THEN p[i] ELSE <<x>>[i - Len(p)]
<1>1. <<x>> \in Seq(T) /\ Len(<<x>>) = 1
  OBVIOUS
<1> QED BY <1>1, ConcatProperties

\* When all are taken, the way is what it was.
LEMMA OnlyAll ==
  ASSUME NEW T, NEW way \in Seq(T), NEW S, \A k \in 1 .. Len(way) : way[k] \in S
  PROVE  Only(way, S) = way
<1> DEFINE n == Len(way)
           X == [k \in 1 .. n |-> <<way[k]>>]
<1>1. n \in Nat /\ DOMAIN way = 1 .. n /\ \A k \in 1 .. n : way[k] \in T
  BY LenProperties, ElementOfSeq
<1>2. Only(way, S) = FlattenSeq(X)
  <2>1. [k \in DOMAIN way |-> IF way[k] \in S THEN <<way[k]>> ELSE <<>>] = X
    BY <1>1
  <2> QED BY <2>1 DEF Only
<1>3. X \in Seq(Seq(T)) /\ Len(X) = n /\ \A k \in 1 .. n : X[k] = <<way[k]>>
  <2>1. \A k \in 1 .. n : <<way[k]>> \in Seq(T)
    BY <1>1
  <2>2. X \in [1 .. n -> Seq(T)]
    BY <2>1
  <2> QED BY <1>1, <2>2
<1> HIDE DEF X
<1>4. PICK F : /\ F[0] = <<>>
               /\ \A k \in 1 .. Len(X) : F[k] = F[k - 1] \o X[k]
               /\ \A k \in 0 .. Len(X) : F[k] \in Seq(T)
               /\ FlattenSeq(X) = F[Len(X)]
  BY <1>3, Flattened, Zenon
<1> DEFINE L == {k \in Nat : k <= n => Len(F[k]) = k /\ \A i \in 1 .. k : F[k][i] = way[i]}
<1>5. 0 \in L
  BY <1>4, EmptySeq
<1> HIDE DEF n
<1>6. ASSUME NEW k \in Nat, k \in L PROVE k + 1 \in L
  <2> SUFFICES ASSUME k + 1 <= n
               PROVE  Len(F[k + 1]) = k + 1 /\ \A i \in 1 .. k + 1 : F[k + 1][i] = way[i]
    OBVIOUS
  <2>1. k + 1 \in 1 .. n /\ k \in 0 .. n /\ (k + 1) - 1 = k /\ k <= n
    BY <1>1
  <2>2. F[k] \in Seq(T) /\ F[k + 1] = F[k] \o <<way[k + 1]>> /\ <<way[k + 1]>> \in Seq(T)
    <3>1. F[k] \in Seq(T)
      BY <1>3, <1>4, <2>1
    <3>2. k + 1 \in 1 .. Len(X)
      BY <1>3, <2>1
    <3>3. F[k + 1] = F[k] \o X[k + 1]
      BY <1>4, <2>1, <3>2
    <3>4. way[k + 1] \in T
      BY <1>1, <2>1
    <3>5. <<way[k + 1]>> \in Seq(T)
      BY <3>4
    <3>6. X[k + 1] = <<way[k + 1]>>
      BY <1>3, <2>1
    <3> QED BY <3>1, <3>3, <3>5, <3>6
  <2>3. Len(F[k]) = k /\ \A i \in 1 .. k : F[k][i] = way[i]
    BY <1>6, <2>1
  <2>4. Len(<<way[k + 1]>>) = 1 /\ <<way[k + 1]>>[1] = way[k + 1]
    OBVIOUS
  <2>5. /\ Len(F[k + 1]) = k + 1
        /\ \A i \in 1 .. k + 1 : F[k + 1][i] = IF i <= k THEN F[k][i] ELSE <<way[k + 1]>>[i - k]
    <3>1. F[k] \in Seq(T) /\ way[k + 1] \in T
      BY <1>1, <2>1, <2>2
    <3> QED BY <3>1, <2>2, <2>3, OneMore
  <2>6. ASSUME NEW i \in 1 .. k + 1 PROVE F[k + 1][i] = way[i]
    <3>1. CASE i <= k
      BY <2>3, <2>5, <3>1
    <3>2. CASE ~ i <= k
      <4>1. i = k + 1 /\ i - k = 1
        BY <3>2
      <4> QED BY <2>4, <2>5, <3>2, <4>1
    <3> QED BY <3>1, <3>2
  <2> QED BY <2>5, <2>6
<1>7. n \in L
  <2> HIDE DEF L
  <2> QED BY <1>1, <1>5, <1>6, FromZeroOn, Zenon
<1>8. Len(F[n]) = n /\ \A i \in 1 .. n : F[n][i] = way[i]
  BY <1>1, <1>7
<1>9. F[n] = way
  BY <1>1, <1>3, <1>4, <1>8, SeqEqual DEF n
<1> QED BY <1>2, <1>3, <1>4, <1>9

\* A list of a finite set.
LEMMA SetListed ==
  ASSUME NEW S, IsFiniteSet(S)
  PROVE  LET q == SetToSeq(S) IN
         /\ q \in Seq(S) /\ Len(q) \in Nat /\ DOMAIN q = 1 .. Len(q)
         /\ \A i, j \in 1 .. Len(q) : q[i] = q[j] => i = j
         /\ \A x \in S : \E i \in 1 .. Len(q) : q[i] = x
<1> DEFINE n == Cardinality(S)
           q == SetToSeq(S)
<1>1. n \in Nat /\ IsFiniteSet(1 .. n) /\ Cardinality(1 .. n) = n
  <2>1. n \in Nat
    BY FS_CardinalityType
  <2> QED BY <2>1, FS_Interval
<1> HIDE DEF n
<1>2. PICK f \in [1 .. n -> S] : IsInjective(f)
  <2>1. ExistsBijection(1 .. n, S)
    BY <1>1, FS_SameCardinalityBij DEF n
  <2>2. PICK f : f \in Bijection(1 .. n, S)
    BY <2>1 DEF ExistsBijection
  <2> QED BY <2>2 DEF Bijection, Injection
<1>3. q \in [1 .. n -> S] /\ IsInjective(q)
  BY <1>2 DEF SetToSeq, n
<1> HIDE DEF q
<1>4. q \in Seq(S) /\ Len(q) = n /\ DOMAIN q = 1 .. n
  BY <1>1, <1>3
<1>5. \A x \in S : \E i \in 1 .. n : q[i] = x
  <2>1. q \in Injection(1 .. n, S)
    BY <1>3 DEF Injection
  <2>2. q \in Surjection(1 .. n, S)
    BY <1>1, <2>1, FS_Injection DEF n
  <2> QED BY <2>2 DEF Surjection
<1>6. \A i, j \in 1 .. n : q[i] = q[j] => i = j
  BY <1>3, <1>4 DEF IsInjective
<1> QED BY <1>1, <1>4, <1>5, <1>6 DEF q

-----------------------------------------------------------------------------
(* The order of time.                                                      *)

Ascending(q) == \A i, j \in 1 .. Len(q) : i <= j => q[i] <= q[j]

LEMMA MinIs ==
  ASSUME NEW I, I \subseteq Nat, I # {}
  PROVE  Min(I) \in I /\ \A y \in I : Min(I) <= y
<1>1. \E x \in I : \A y \in I : x <= y
  BY Least, Zenon
<1> QED BY <1>1 DEF Min

\* One time among those in order.
LEMMA InsertedIs ==
  ASSUME NEW T, T \subseteq Int, NEW q \in Seq(T), NEW t \in T, Ascending(q),
         NEW P, NEW v, NEW x, x \notin P, v[x] = t, Enum(q, P, v)
  PROVE  /\ Inserted(q, t) \in Seq(T)
         /\ Ascending(Inserted(q, t))
         /\ Enum(Inserted(q, t), P \cup {x}, v)
<1> DEFINE n == Len(q)
           I == {i \in 1 .. Len(q) : q[i] > t}
           r == Inserted(q, t)
<1>1. n \in Nat /\ DOMAIN q = 1 .. n /\ \A i \in 1 .. n : q[i] \in T
  BY LenProperties, ElementOfSeq
<1>2. PICK later : later = SelectInSeq(q, LAMBDA u : u > t)
  OBVIOUS
<1>3. later = IF I # {} THEN Min(I) ELSE 0
  BY <1>2 DEF SelectInSeq
<1>4. r = IF later = 0 THEN Append(q, t) ELSE InsertAt(q, later, t)
  BY <1>2 DEF Inserted
<1> HIDE DEF r, n
<1>5. PICK k \in 1 .. n + 1 :
        /\ r \in Seq(T) /\ Len(r) = n + 1
        /\ \A i \in 1 .. n + 1 : r[i] = IF i < k THEN q[i] ELSE IF i = k THEN t ELSE q[i - 1]
        /\ \A i \in 1 .. n : i < k => q[i] <= t
        /\ \A i \in 1 .. n : i >= k => q[i] > t
  <2>1. CASE I = {}
    <3>1. r = Append(q, t)
      BY <1>3, <1>4, <2>1
    <3>2. /\ r \in Seq(T) /\ Len(r) = n + 1
          /\ \A i \in 1 .. n : r[i] = q[i]
          /\ r[n + 1] = t
      BY <3>1, AppendProperties DEF n
    <3>3. \A i \in 1 .. n : q[i] <= t
      <4>1. ASSUME NEW i \in 1 .. n, ~ q[i] <= t PROVE FALSE
        <5>1. q[i] \in Int /\ t \in Int
          BY <1>1
        <5>2. i \in I
          BY <4>1, <5>1 DEF n
        <5> QED BY <2>1, <5>2
      <4> QED BY <4>1
    <3>4. n + 1 \in 1 .. n + 1
      BY <1>1
    <3>5. \A i \in 1 .. n + 1 : r[i] = IF i < n + 1 THEN q[i] ELSE IF i = n + 1 THEN t ELSE q[i - 1]
      BY <1>1, <3>2
    <3>6. \A i \in 1 .. n : i < n + 1 /\ ~ i >= n + 1
      BY <1>1
    <3> QED BY <3>2, <3>3, <3>4, <3>5, <3>6
  <2>2. CASE I # {}
    <3>1. later \in I /\ \A y \in I : later <= y
      <4>1. I \subseteq Nat
        OBVIOUS
      <4> HIDE DEF I
      <4> QED BY <1>3, <2>2, <4>1, MinIs
    <3>2. later \in 1 .. n /\ q[later] > t /\ later # 0
      BY <3>1 DEF n
    <3>3. \A i \in 1 .. n : i < later => q[i] <= t
      <4>1. ASSUME NEW i \in 1 .. n, i < later, ~ q[i] <= t PROVE FALSE
        <5>1. q[i] \in Int /\ t \in Int
          BY <1>1
        <5>2. i \in I
          BY <4>1, <5>1 DEF n
        <5> QED BY <3>1, <3>2, <4>1, <5>2
      <4> QED BY <4>1
    <3>4. \A i \in 1 .. n : i >= later => q[i] > t
      <4>1. ASSUME NEW i \in 1 .. n, i >= later PROVE q[i] > t
        <5>1. q[later] <= q[i]
          BY <3>2, <4>1 DEF Ascending, n
        <5>2. q[i] \in Int /\ t \in Int /\ q[later] \in Int
          BY <1>1, <3>2
        <5> QED BY <3>2, <5>1, <5>2
      <4> QED BY <4>1
    <3> DEFINE fore == SubSeq(q, 1, later - 1)
               aft  == SubSeq(q, later, n)
    <3>5. /\ fore \in Seq(T) /\ Len(fore) = later - 1
          /\ \A i \in 1 .. later - 1 : fore[i] = q[i]
      <4>1. \A i \in 1 .. later - 1 : q[i] \in T /\ 1 + i - 1 = i
        BY <1>1, <3>2
      <4>2. 1 \in Int /\ later - 1 \in Int /\ (later - 1) - 1 + 1 = later - 1
        BY <3>2
      <4>3. /\ fore \in Seq(T) /\ Len(fore) = IF 1 <= later - 1 THEN (later - 1) - 1 + 1 ELSE 0
            /\ \A i \in 1 .. (later - 1) - 1 + 1 : fore[i] = q[1 + i - 1]
        BY <4>1, <4>2, SubSeqProperties
      <4> QED BY <3>2, <4>1, <4>2, <4>3
    <3>6. /\ aft \in Seq(T) /\ Len(aft) = n - later + 1
          /\ \A i \in 1 .. n - later + 1 : aft[i] = q[later + i - 1]
      <4>1. \A i \in later .. n : q[i] \in T
        BY <1>1, <3>2
      <4>2. later \in Int /\ n \in Int /\ later <= n
        BY <1>1, <3>2
      <4> QED BY <4>1, <4>2, SubSeqProperties
    <3>7. r = (fore \o <<t>>) \o aft
      BY <1>4, <3>2 DEF InsertAt, n
    <3> HIDE DEF fore, aft
    <3>8. <<t>> \in Seq(T) /\ Len(<<t>>) = 1 /\ <<t>>[1] = t
      OBVIOUS
    <3>9. /\ fore \o <<t>> \in Seq(T) /\ Len(fore \o <<t>>) = later
          /\ \A i \in 1 .. later : (fore \o <<t>>)[i] = IF i < later THEN q[i] ELSE t
      <4>1. /\ fore \o <<t>> \in Seq(T) /\ Len(fore \o <<t>>) = (later - 1) + 1
            /\ \A i \in 1 .. (later - 1) + 1 :
                 (fore \o <<t>>)[i] = IF i <= later - 1 THEN fore[i] ELSE <<t>>[i - (later - 1)]
        BY <3>5, <3>8, ConcatProperties
      <4>2. ASSUME NEW i \in 1 .. later
            PROVE  (fore \o <<t>>)[i] = IF i < later THEN q[i] ELSE t
        <5>1. i \in 1 .. (later - 1) + 1
          BY <3>2
        <5>2. CASE i < later
          BY <3>2, <3>5, <4>1, <5>1, <5>2
        <5>3. CASE ~ i < later
          <6>1. i - (later - 1) = 1 /\ ~ i <= later - 1
            BY <3>2, <5>3
          <6> QED BY <3>8, <4>1, <5>1, <5>3, <6>1
        <5> QED BY <5>2, <5>3
      <4> QED BY <3>2, <4>1, <4>2
    <3> DEFINE left == fore \o <<t>>
    <3> HIDE DEF left
    <3>10. left \in Seq(T) /\ Len(left) = later /\ r = left \o aft
           /\ \A i \in 1 .. later : left[i] = IF i < later THEN q[i] ELSE t
      BY <3>7, <3>9 DEF left
    <3>11. /\ r \in Seq(T) /\ Len(r) = later + (n - later + 1)
           /\ \A i \in 1 .. later + (n - later + 1) :
                r[i] = IF i <= later THEN left[i] ELSE aft[i - later]
      <4>1. /\ left \o aft \in Seq(T) /\ Len(left \o aft) = Len(left) + Len(aft)
            /\ \A i \in 1 .. Len(left) + Len(aft) :
                 (left \o aft)[i] = IF i <= Len(left) THEN left[i] ELSE aft[i - Len(left)]
        BY <3>6, <3>10, ConcatProperties
      <4>2. Len(left) = later /\ Len(aft) = n - later + 1 /\ left \o aft = r
        BY <3>6, <3>10
      <4> QED BY <4>1, <4>2
    <3>12. later + (n - later + 1) = n + 1 /\ later \in 1 .. n + 1
      BY <1>1, <3>2
    <3>13. ASSUME NEW i \in 1 .. n + 1
           PROVE r[i] = IF i < later THEN q[i] ELSE IF i = later THEN t ELSE q[i - 1]
      <4>1. CASE i <= later
        BY <3>2, <3>10, <3>11, <3>12, <4>1
      <4>2. CASE ~ i <= later
        <5>1. i - later \in 1 .. n - later + 1 /\ later + (i - later) - 1 = i - 1
          BY <1>1, <3>2, <4>2
        <5>2. r[i] = aft[i - later]
          BY <3>11, <3>12, <4>2
        <5>3. ~ i < later /\ i # later
          BY <3>2, <4>2
        <5> QED BY <3>6, <5>1, <5>2, <5>3
      <4> QED BY <4>1, <4>2
    <3> QED BY <3>3, <3>4, <3>11, <3>12, <3>13
  <2> QED BY <2>1, <2>2
<1>6. ASSUME NEW i \in 1 .. n + 1
      PROVE  /\ i < k => i \in 1 .. n /\ r[i] = q[i]
             /\ i = k => r[i] = t
             /\ i > k => i - 1 \in 1 .. n /\ i - 1 >= k /\ r[i] = q[i - 1]
  BY <1>1, <1>5
<1>7. Ascending(r)
  <2>1. ASSUME NEW i \in 1 .. n + 1, NEW j \in 1 .. n + 1, i <= j PROVE r[i] <= r[j]
    <3>1. k \in Int /\ i \in Int /\ j \in Int /\ t \in Int /\ \A m \in 1 .. n : q[m] \in Int
      <4>1. k \in Int /\ i \in Int /\ j \in Int
        BY <1>1
      <4>2. t \in Int
        OBVIOUS
      <4>3. \A m \in 1 .. n : q[m] \in Int
        BY <1>1
      <4> QED BY <4>1, <4>2, <4>3
    <3>2. \A a, b \in 1 .. n : a <= b => q[a] <= q[b]
      BY DEF Ascending, n
    <3>3. CASE j < k
      BY <1>6, <2>1, <3>1, <3>2, <3>3
    <3>4. CASE i < k /\ j = k
      BY <1>5, <1>6, <3>1, <3>4
    <3>5. CASE i < k /\ j > k
      <4>1. i <= j - 1 /\ i \in 1 .. n /\ j - 1 \in 1 .. n
        BY <1>6, <3>1, <3>5
      <4> QED BY <1>6, <3>2, <3>5, <4>1
    <3>6. CASE i = k /\ j = k
      BY <1>6, <3>1, <3>6
    <3>7. CASE i = k /\ j > k
      <4>1. r[i] = t /\ r[j] = q[j - 1] /\ q[j - 1] > t /\ q[j - 1] \in Int
        BY <1>5, <1>6, <3>1, <3>7
      <4> QED BY <3>1, <4>1
    <3>8. CASE i > k
      <4>1. j > k /\ i - 1 <= j - 1
        BY <2>1, <3>1, <3>8
      <4>2. r[i] = q[i - 1] /\ r[j] = q[j - 1] /\ i - 1 \in 1 .. n /\ j - 1 \in 1 .. n
        BY <1>6, <3>8, <4>1
      <4> QED BY <3>2, <4>1, <4>2
    <3> QED BY <2>1, <3>1, <3>3, <3>4, <3>5, <3>6, <3>7, <3>8
  <2> QED BY <1>5, <2>1 DEF Ascending
<1>8. PICK a \in [1 .. n -> P] :
        /\ \A i, j \in 1 .. n : a[i] = a[j] => i = j
        /\ \A y \in P : \E i \in 1 .. n : a[i] = y
        /\ \A i \in 1 .. n : q[i] = v[a[i]]
  BY DEF Enum, n
<1> DEFINE b == [i \in 1 .. n + 1 |-> IF i < k THEN a[i] ELSE IF i = k THEN x ELSE a[i - 1]]
<1>9. ASSUME NEW i \in 1 .. n + 1
      PROVE  /\ i < k => b[i] = a[i] /\ b[i] \in P
             /\ i = k => b[i] = x
             /\ i > k => b[i] = a[i - 1] /\ b[i] \in P
  BY <1>6, <1>8
<1> HIDE DEF b
<1>10. \A i \in 1 .. n + 1 : (b[i] = x <=> i = k) /\ (i < k \/ i = k \/ i > k) /\ i \in Int
  BY <1>9
<1>11. b \in [1 .. n + 1 -> P \cup {x}]
  <2>1. \A i \in 1 .. n + 1 : b[i] \in P \cup {x}
    BY <1>9, <1>10
  <2> QED BY <2>1 DEF b
<1>12. ASSUME NEW i \in 1 .. n + 1, NEW j \in 1 .. n + 1, b[i] = b[j] PROVE i = j
  <2>1. CASE i = k \/ j = k
    BY <1>10, <1>12, <2>1
  <2>2. CASE i < k /\ j < k
    BY <1>6, <1>8, <1>9, <1>12, <2>2
  <2>3. CASE i < k /\ j > k
    <3>1. i = j - 1 /\ k \in Int
      BY <1>6, <1>8, <1>9, <1>12, <2>3
    <3> QED BY <1>6, <2>3, <3>1
  <2>4. CASE i > k /\ j < k
    <3>1. i - 1 = j /\ k \in Int
      BY <1>6, <1>8, <1>9, <1>12, <2>4
    <3> QED BY <1>6, <2>4, <3>1
  <2>5. CASE i > k /\ j > k
    <3>1. i - 1 = j - 1
      BY <1>6, <1>8, <1>9, <1>12, <2>5
    <3> QED BY <3>1
  <2> QED BY <1>10, <2>1, <2>2, <2>3, <2>4, <2>5
<1>13. ASSUME NEW y \in P \cup {x} PROVE \E i \in 1 .. n + 1 : b[i] = y
  <2>1. CASE y = x
    BY <1>9, <2>1
  <2>2. CASE y \in P
    <3>1. PICK i \in 1 .. n : a[i] = y
      BY <1>8, <2>2
    <3>2. i \in 1 .. n + 1 /\ i + 1 \in 1 .. n + 1 /\ (i + 1) - 1 = i
      BY <1>1
    <3>3. CASE i < k
      BY <1>9, <3>1, <3>2, <3>3
    <3>4. CASE ~ i < k
      <4>1. i + 1 > k
        BY <3>4
      <4> QED BY <1>9, <3>1, <3>2, <4>1
    <3> QED BY <3>3, <3>4
  <2> QED BY <2>1, <2>2
<1>14. ASSUME NEW i \in 1 .. n + 1 PROVE r[i] = v[b[i]]
  BY <1>6, <1>8, <1>9, <1>10
<1>15. Len(r) = n + 1 /\ n + 1 \in Nat /\ DOMAIN r = 1 .. n + 1
  BY <1>1, <1>5, LenProperties
<1>16. Enum(r, P \cup {x}, v)
  BY <1>11, <1>12, <1>13, <1>14, <1>15 DEF Enum
<1> QED BY <1>5, <1>7, <1>16 DEF r

FirstOf(q) ==
  CHOOSE First : First = [n \in 0 .. Len(q) |-> IF n = 0 THEN <<>> ELSE Inserted(First[n - 1], q[n])]

LEMMA FirstIs ==
  ASSUME NEW q, Len(q) \in Nat
  PROVE  FirstOf(q) = [n \in 0 .. Len(q) |->
                         IF n = 0 THEN <<>> ELSE Inserted(FirstOf(q)[n - 1], q[n])]
<1> DEFINE Turn(G, n) == IF n = 0 THEN <<>> ELSE Inserted(G[n - 1], q[n])
           S == {k \in Nat : \E G : G = [n \in 0 .. k |-> Turn(G, n)]}
<1>1. 0 \in S
  <2>1. PICK G : G = [n \in 0 .. 0 |-> <<>>]
    OBVIOUS
  <2>2. G = [n \in 0 .. 0 |-> Turn(G, n)]
    <3>1. \A n \in 0 .. 0 : Turn(G, n) = <<>>
      OBVIOUS
    <3> HIDE DEF Turn
    <3> QED BY <2>1, <3>1
  <2> HIDE DEF Turn
  <2> QED BY <2>2
<1>2. ASSUME NEW k \in Nat, k \in S PROVE k + 1 \in S
  <2>1. PICK G : G = [n \in 0 .. k |-> Turn(G, n)]
    BY <1>2
  <2>2. PICK H : H = [n \in 0 .. k + 1 |-> IF n = k + 1 THEN Turn(G, k + 1) ELSE G[n]]
    OBVIOUS
  <2>3. ASSUME NEW n \in 0 .. k + 1 PROVE H[n] = Turn(H, n)
    <3>1. H[n] = Turn(G, n)
      <4> HIDE DEF Turn
      <4>1. H[n] = IF n = k + 1 THEN Turn(G, k + 1) ELSE G[n]
        BY <2>2, Zenon
      <4>2. CASE n = k + 1
        BY <4>1, <4>2, Zenon
      <4>3. CASE n # k + 1
        <5>1. n \in 0 .. k
          BY <4>3
        <5>2. G[n] = Turn(G, n)
          BY <2>1, <5>1, Zenon
        <5> QED BY <4>1, <4>3, <5>2, Zenon
      <4> QED BY <4>2, <4>3, Zenon
    <3>2. CASE n = 0
      <4>1. Turn(G, n) = Turn(H, n)
        BY <3>2, Zenon
      <4> QED BY <3>1, <4>1, Zenon
    <3>3. CASE n # 0
      <4>1. n - 1 \in 0 .. k + 1 /\ n - 1 # k + 1
        BY <3>3
      <4>2. H[n - 1] = G[n - 1]
        BY <2>2, <4>1
      <4>3. Turn(G, n) = Turn(H, n)
        BY <3>3, <4>2, Zenon
      <4> QED BY <3>1, <4>3, Zenon
    <3> QED BY <3>2, <3>3, Zenon
  <2>4. H = [n \in 0 .. k + 1 |-> Turn(H, n)]
    <3> HIDE DEF Turn
    <3> QED BY <2>2, <2>3
  <2>5. k + 1 \in Nat
    OBVIOUS
  <2> HIDE DEF Turn
  <2> QED BY <2>4, <2>5, Zenon
<1>3. Len(q) \in S
  <2> HIDE DEF S
  <2> QED BY <1>1, <1>2, FromZeroOn, Zenon
<1>4. \E G : G = [n \in 0 .. Len(q) |-> Turn(G, n)]
  BY <1>3
<1> QED BY <1>4, Zenon DEF FirstOf

\* std::sort keeps what it is given, and puts it in order.
LEMMA InOrderIs ==
  ASSUME NEW T, T \subseteq Int, NEW q \in Seq(T)
  PROVE  /\ InOrder(q) \in Seq(T)
         /\ Ascending(InOrder(q))
         /\ Enum(InOrder(q), 1 .. Len(q), q)
<1>1. Len(q) \in Nat /\ \A i \in 1 .. Len(q) : q[i] \in T
  BY LenProperties, ElementOfSeq
<1>2. PICK F : F = FirstOf(q)
  OBVIOUS
<1>3. F = [n \in 0 .. Len(q) |-> IF n = 0 THEN <<>> ELSE Inserted(F[n - 1], q[n])]
  BY <1>1, <1>2, FirstIs, Zenon
<1>4. InOrder(q) = F[Len(q)]
  BY <1>2 DEF InOrder, FirstOf
<1> DEFINE S == {k \in Nat : k <= Len(q) =>
                   F[k] \in Seq(T) /\ Ascending(F[k]) /\ Enum(F[k], 1 .. k, q)}
<1>5. 0 \in S
  <2>1. F[0] = <<>>
    BY <1>1, <1>3
  <2>2. <<>> \in Seq(T) /\ Ascending(<<>>)
    BY EmptySeq DEF Ascending
  <2>3. Enum(<<>>, 1 .. 0, q)
    <3>1. 1 .. 0 = {}
      OBVIOUS
    <3> QED BY <3>1, NothingListed
  <2> QED BY <2>1, <2>2, <2>3
<1>6. ASSUME NEW k \in Nat, k \in S PROVE k + 1 \in S
  <2> SUFFICES ASSUME k + 1 <= Len(q)
               PROVE  F[k + 1] \in Seq(T) /\ Ascending(F[k + 1]) /\ Enum(F[k + 1], 1 .. k + 1, q)
    OBVIOUS
  <2>1. k + 1 \in 1 .. Len(q) /\ k + 1 \in 0 .. Len(q) /\ (k + 1) - 1 = k /\ k + 1 # 0 /\ k <= Len(q)
    BY <1>1
  <2>2. F[k + 1] = Inserted(F[k], q[k + 1])
    BY <1>3, <2>1
  <2>3. F[k] \in Seq(T) /\ Ascending(F[k]) /\ Enum(F[k], 1 .. k, q)
    BY <1>6, <2>1
  <2>4. q[k + 1] \in T /\ k + 1 \notin 1 .. k
    BY <1>1, <2>1
  <2>5. 1 .. k + 1 = (1 .. k) \cup {k + 1}
    OBVIOUS
  <2>6. /\ Inserted(F[k], q[k + 1]) \in Seq(T)
        /\ Ascending(Inserted(F[k], q[k + 1]))
        /\ Enum(Inserted(F[k], q[k + 1]), (1 .. k) \cup {k + 1}, q)
    BY <2>3, <2>4, InsertedIs
  <2> QED BY <2>2, <2>5, <2>6
<1>7. Len(q) \in S
  <2> HIDE DEF S
  <2> QED BY <1>1, <1>5, <1>6, FromZeroOn, Zenon
<1>8. Len(q) <= Len(q)
  BY <1>1
<1> QED BY <1>4, <1>7, <1>8

\* Of two lists in order, the one is nowhere above the other.
LEMMA NotAbove ==
  ASSUME NEW p, NEW q, NEW n \in Nat, NEW m \in Nat, Len(p) = n, Len(q) = m,
         \A i \in 1 .. n : p[i] \in Int, \A i \in 1 .. m : q[i] \in Int,
         Ascending(p), Ascending(q),
         NEW c \in [1 .. n -> 1 .. m],
         \A i, j \in 1 .. n : c[i] = c[j] => i = j,
         \A i \in 1 .. n : p[i] = q[c[i]]
  PROVE  \A i \in 1 .. n : i <= m /\ q[i] <= p[i]
<1> SUFFICES ASSUME NEW i \in 1 .. n PROVE i <= m /\ q[i] <= p[i]
  OBVIOUS
<1>1. PICK j \in 1 .. i : c[j] >= i
  <2>1. SUFFICES ASSUME \A j \in 1 .. i : ~ c[j] >= i PROVE FALSE
    OBVIOUS
  <2>2. \A j \in 1 .. i : j \in 1 .. n /\ c[j] \in 1 .. i - 1
    <3>1. ASSUME NEW j \in 1 .. i PROVE j \in 1 .. n /\ c[j] \in 1 .. i - 1
      <4>1. j \in 1 .. n
        OBVIOUS
      <4>2. c[j] \in 1 .. m /\ ~ c[j] >= i
        BY <2>1, <4>1
      <4> QED BY <4>1, <4>2
    <3> QED BY <3>1
  <2>3. PICK d : d = [j \in 1 .. i |-> c[j]]
    OBVIOUS
  <2>4. d \in [1 .. i -> 1 .. i - 1]
    BY <2>2, <2>3
  <2>5. /\ IsFiniteSet(1 .. i) /\ Cardinality(1 .. i) = i
        /\ IsFiniteSet(1 .. i - 1) /\ Cardinality(1 .. i - 1) = i - 1
    <3>1. 1 \in Int /\ i \in Int /\ i - 1 \in Int /\ i >= 1
      OBVIOUS
    <3>2. IsFiniteSet(1 .. i) /\ Cardinality(1 .. i) = IF 1 > i THEN 0 ELSE i - 1 + 1
      BY <3>1, FS_Interval
    <3>3. IsFiniteSet(1 .. i - 1) /\ Cardinality(1 .. i - 1) = IF 1 > i - 1 THEN 0 ELSE (i - 1) - 1 + 1
      BY <3>1, FS_Interval
    <3> QED BY <3>1, <3>2, <3>3
  <2>6. Cardinality(1 .. i - 1) < Cardinality(1 .. i)
    BY <2>5
  <2>7. \E x, y \in 1 .. i : x # y /\ d[x] = d[y]
    <3> DEFINE A == 1 .. i
               B == 1 .. i - 1
    <3>1. d \in [A -> B] /\ IsFiniteSet(A) /\ IsFiniteSet(B) /\ Cardinality(B) < Cardinality(A)
      BY <2>4, <2>5, <2>6
    <3> HIDE DEF A, B
    <3>2. \E x, y \in A : x # y /\ d[x] = d[y]
      BY <3>1, FS_PigeonHole, SMTT(60)
    <3> QED BY <3>2 DEF A
  <2> QED BY <2>2, <2>3, <2>7
<1>2. j \in 1 .. n /\ j <= i
  OBVIOUS
<1>3. c[j] \in 1 .. m /\ c[j] >= i /\ i \in 1 .. m
  BY <1>1, <1>2
<1>4. q[i] <= q[c[j]] /\ q[c[j]] = p[j] /\ p[j] <= p[i]
  <2>1. q[i] <= q[c[j]]
    BY <1>3 DEF Ascending
  <2>2. p[j] <= p[i]
    BY <1>2 DEF Ascending
  <2> QED BY <1>2, <2>1, <2>2
<1>5. q[i] \in Int /\ p[j] \in Int /\ p[i] \in Int
  BY <1>2, <1>3
<1> QED BY <1>3, <1>4, <1>5

\* Each place of p has one of its own in q, with the same value.
Into(p, q) ==
  \E c \in [1 .. Len(p) -> 1 .. Len(q)] :
    /\ \A i, j \in 1 .. Len(p) : c[i] = c[j] => i = j
    /\ \A i \in 1 .. Len(p) : p[i] = q[c[i]]

\* From one list of the places to another.
LEMMA FromTo ==
  ASSUME NEW p, NEW q, NEW P, NEW v, Enum(p, P, v), Enum(q, P, v)
  PROVE  Into(p, q)
<1> DEFINE n == Len(p)
           m == Len(q)
<1>1. PICK a \in [1 .. n -> P] :
        /\ \A i, j \in 1 .. n : a[i] = a[j] => i = j
        /\ \A i \in 1 .. n : p[i] = v[a[i]]
  BY DEF Enum
<1>2. PICK b \in [1 .. m -> P] :
        /\ \A x \in P : \E i \in 1 .. m : b[i] = x
        /\ \A i \in 1 .. m : q[i] = v[b[i]]
  BY DEF Enum
<1> HIDE DEF n, m
<1> DEFINE c == [i \in 1 .. n |-> CHOOSE j \in 1 .. m : b[j] = a[i]]
<1>3. ASSUME NEW i \in 1 .. n PROVE c[i] \in 1 .. m /\ b[c[i]] = a[i]
  <2>1. \E j \in 1 .. m : b[j] = a[i]
    BY <1>1, <1>2
  <2>2. c[i] = CHOOSE j \in 1 .. m : b[j] = a[i]
    OBVIOUS
  <2> HIDE DEF c
  <2> QED BY <2>1, <2>2, Zenon
<1>4. c \in [1 .. n -> 1 .. m]
  BY <1>3
<1> HIDE DEF c
<1>5. \A i, j \in 1 .. n : c[i] = c[j] => i = j
  BY <1>1, <1>3
<1>6. \A i \in 1 .. n : p[i] = q[c[i]]
  BY <1>1, <1>2, <1>3
<1> QED BY <1>4, <1>5, <1>6, Zenon DEF Into, n, m

\* In order, there is one list of the same places.
LEMMA OneOrder ==
  ASSUME NEW p \in Seq(Int), NEW q \in Seq(Int), NEW P, NEW v,
         Enum(p, P, v), Enum(q, P, v), Ascending(p), Ascending(q)
  PROVE  p = q
<1> DEFINE n == Len(p)
           m == Len(q)
<1>1. /\ n \in Nat /\ m \in Nat
      /\ \A i \in 1 .. n : p[i] \in Int
      /\ \A i \in 1 .. m : q[i] \in Int
  BY LenProperties, ElementOfSeq
<1>2. PICK c \in [1 .. n -> 1 .. m] :
        /\ \A i, j \in 1 .. n : c[i] = c[j] => i = j
        /\ \A i \in 1 .. n : p[i] = q[c[i]]
  <2>1. Into(p, q)
    BY FromTo
  <2> QED BY <2>1, Zenon DEF Into
<1>3. PICK d \in [1 .. m -> 1 .. n] :
        /\ \A i, j \in 1 .. m : d[i] = d[j] => i = j
        /\ \A i \in 1 .. m : q[i] = p[d[i]]
  <2>1. Into(q, p)
    BY FromTo
  <2> QED BY <2>1, Zenon DEF Into
<1>4. \A i \in 1 .. n : i <= m /\ q[i] <= p[i]
  BY <1>1, <1>2, NotAbove
<1>5. \A i \in 1 .. m : i <= n /\ p[i] <= q[i]
  BY <1>1, <1>3, NotAbove, ZenonT(60)
<1>6. n = m
  <2>1. ~ n > m
    <3>1. n > m => n \in 1 .. n /\ ~ n <= m
      BY <1>1
    <3> QED BY <1>4, <3>1
  <2>2. ~ m > n
    <3>1. m > n => m \in 1 .. m /\ ~ m <= n
      BY <1>1
    <3> QED BY <1>5, <3>1
  <2> QED BY <1>1, <2>1, <2>2
<1>7. \A i \in 1 .. n : p[i] = q[i]
  BY <1>1, <1>4, <1>5, <1>6
<1> QED BY <1>6, <1>7, SeqEqual

-----------------------------------------------------------------------------
(* The records of a signal in the blocks of a file.                        *)

Times == {q \in Seq(Nat) : q # <<>> /\ \A i \in 1 .. Len(q) : q[i] >= FirstTime}

Block == UNION {[S -> Times] : S \in SUBSET Signals}

LEMMA BlockIs ==
  ASSUME NEW b \in Block
  PROVE  /\ DOMAIN b \subseteq Signals
         /\ \A s \in DOMAIN b : b[s] \in Times
BY DEF Block

LEMMA TimesAre ==
  ASSUME NEW q \in Times
  PROVE  /\ q \in Seq(Nat) /\ Len(q) \in Nat \ {0} /\ DOMAIN q = 1 .. Len(q)
         /\ \A i \in 1 .. Len(q) : q[i] \in Nat /\ q[i] >= FirstTime
<1>1. q \in Seq(Nat) /\ q # <<>> /\ \A i \in 1 .. Len(q) : q[i] >= FirstTime
  BY DEF Times
<1>2. Len(q) \in Nat \ {0} /\ DOMAIN q = 1 .. Len(q)
  BY <1>1, EmptySeq, LenProperties
<1>3. \A i \in 1 .. Len(q) : q[i] \in Nat
  BY <1>1, ElementOfSeq
<1> QED BY <1>1, <1>2, <1>3

\* The places of a signal's records in the blocks of a file.
Part(f, B, s, k) ==
  IF s \notin DOMAIN B[k] THEN {} ELSE {<<f, k, i>> : i \in 1 .. Len(B[k][s])}

Where(f, B, s) == UNION {Part(f, B, s, k) : k \in 1 .. Len(B)}

LEMMA PartListed ==
  ASSUME NEW f, NEW k, NEW T, NEW r \in Seq(T), NEW v,
         \A i \in 1 .. Len(r) : v[<<f, k, i>>] = r[i]
  PROVE  Enum(r, {<<f, k, i>> : i \in 1 .. Len(r)}, v)
<1> DEFINE b == [i \in 1 .. Len(r) |-> <<f, k, i>>]
           P == {<<f, k, i>> : i \in 1 .. Len(r)}
<1>1. Len(r) \in Nat /\ DOMAIN r = 1 .. Len(r)
  BY LenProperties
<1>2. b \in [1 .. Len(r) -> P] /\ \A i \in 1 .. Len(r) : b[i] = <<f, k, i>>
  OBVIOUS
<1>3. \A x \in P : \E i \in 1 .. Len(r) : b[i] = x
  OBVIOUS
<1>4. \A i, j \in 1 .. Len(r) : b[i] = b[j] => i = j
  <2> HIDE DEF b
  <2> QED BY <1>2
<1>5. \A i \in 1 .. Len(r) : r[i] = v[b[i]]
  BY <1>2
<1> HIDE DEF b, P
<1>6. Enum(r, P, v)
  BY <1>1, <1>2, <1>3, <1>4, <1>5 DEF Enum
<1> QED BY <1>6 DEF P

LEMMA PartsApart ==
  ASSUME NEW f, NEW B, NEW s, NEW k, NEW n, k # n
  PROVE  Part(f, B, s, k) \cap Part(f, B, s, n) = {}
<1>1. SUFFICES ASSUME NEW x \in Part(f, B, s, k), x \in Part(f, B, s, n) PROVE FALSE
  OBVIOUS
<1>2. x[2] = k
  BY <1>1 DEF Part
<1>3. x[2] = n
  BY <1>1 DEF Part
<1> QED BY <1>2, <1>3

\* Two files have no place in common.
LEMMA FilesApart ==
  ASSUME NEW f, NEW g, NEW B, NEW C, NEW s, f # g
  PROVE  Where(f, B, s) \cap Where(g, C, s) = {}
<1>1. SUFFICES ASSUME NEW x \in Where(f, B, s), x \in Where(g, C, s) PROVE FALSE
  OBVIOUS
<1>2. x[1] = f
  BY <1>1 DEF Where, Part
<1>3. x[1] = g
  BY <1>1 DEF Where, Part
<1> QED BY <1>2, <1>3

\* What a file held, by one list of each block.
LEMMA HeldListed ==
  ASSUME NEW f, NEW s, NEW B \in Seq(Block), NEW z \in Int, FirstTime + z >= 0, NEW v,
         \A k \in 1 .. Len(B) : s \in DOMAIN B[k] =>
           \A i \in 1 .. Len(B[k][s]) : v[<<f, k, i>>] = B[k][s][i] + z
  PROVE  LET H == FlattenSeq([k \in DOMAIN B |->
                    IF s \notin DOMAIN B[k] THEN <<>> ELSE [i \in DOMAIN B[k][s] |-> B[k][s][i] + z]])
         IN  H \in Seq(Nat) /\ Enum(H, Where(f, B, s), v)
<1> DEFINE n == Len(B)
           q == [k \in 1 .. n |-> k]
           Moved(k) == [i \in DOMAIN B[k][s] |-> B[k][s][i] + z]
           X == [k \in 1 .. n |-> IF s \notin DOMAIN B[k] THEN <<>> ELSE Moved(k)]
           P == [k \in 1 .. n |-> Part(f, B, s, k)]
<1>1. n \in Nat /\ DOMAIN B = 1 .. n /\ \A k \in 1 .. n : B[k] \in Block
  BY LenProperties, ElementOfSeq
<1>2. Len(q) = n /\ \A i \in 1 .. n : q[i] = i
  BY <1>1
<1>3. ASSUME NEW k \in 1 .. n
      PROVE  X[k] \in Seq(Nat) /\ Enum(X[k], P[k], v)
  <2>1. CASE s \notin DOMAIN B[k]
    <3>1. X[k] = <<>> /\ P[k] = {} /\ <<>> \in Seq(Nat)
      BY <2>1, EmptySeq DEF Part
    <3> QED BY <3>1, NothingListed
  <2>2. CASE s \in DOMAIN B[k]
    <3>1. B[k][s] \in Times
      BY <1>1, <2>2, BlockIs
    <3> DEFINE t == B[k][s]
    <3>2. /\ Len(t) \in Nat /\ DOMAIN t = 1 .. Len(t)
          /\ \A i \in 1 .. Len(t) : t[i] \in Nat /\ t[i] >= FirstTime
      BY <3>1, TimesAre
    <3>3. /\ Moved(k) \in Seq(Nat) /\ Len(Moved(k)) = Len(t)
          /\ \A i \in 1 .. Len(t) : Moved(k)[i] = t[i] + z
      <4>1. \A i \in 1 .. Len(t) : t[i] + z \in Nat
        BY <3>2 DEF FirstTime
      <4>2. Moved(k) = [i \in 1 .. Len(t) |-> t[i] + z]
        BY <3>2
      <4> HIDE DEF t, Moved
      <4>3. Moved(k) \in [1 .. Len(t) -> Nat]
        BY <4>1, <4>2
      <4> QED BY <3>2, <4>2, <4>3
    <3>4. \A i \in 1 .. Len(Moved(k)) : v[<<f, k, i>>] = Moved(k)[i]
      BY <2>2, <3>3
    <3>5. X[k] = Moved(k) /\ P[k] = {<<f, k, i>> : i \in 1 .. Len(Moved(k))}
      BY <2>2, <3>3 DEF Part
    <3> HIDE DEF Moved, X, P
    <3>6. Enum(Moved(k), {<<f, k, i>> : i \in 1 .. Len(Moved(k))}, v)
      BY <3>3, <3>4, PartListed
    <3> QED BY <3>3, <3>5, <3>6
  <2> QED BY <2>1, <2>2
<1>4. X \in Seq(Seq(Nat)) /\ Len(X) = n
  <2>1. X = [k \in 1 .. n |-> X[k]]
    OBVIOUS
  <2> HIDE DEF X
  <2>2. X \in [1 .. n -> Seq(Nat)]
    BY <1>3, <2>1
  <2> QED BY <1>1, <2>2
<1>5. \A i, j \in 1 .. n : i # j => P[i] \cap P[j] = {}
  BY PartsApart
<1>6. UNION {P[i] : i \in 1 .. n} = Where(f, B, s)
  BY DEF Where
<1>7. [k \in DOMAIN B |-> IF s \notin DOMAIN B[k] THEN <<>> ELSE [i \in DOMAIN B[k][s] |-> B[k][s][i] + z]]
        = X
  BY <1>1
<1> HIDE DEF X, P, q, n, Moved
<1>8. /\ Enum(FlattenSeq(X), UNION {P[q[i]] : i \in 1 .. Len(q)}, v)
      /\ FlattenSeq(X) \in Seq(Nat)
  <2>1. Len(q) \in Nat /\ Len(X) = Len(q) /\ \A i, j \in 1 .. Len(q) : q[i] = q[j] => i = j
    BY <1>1, <1>2, <1>4
  <2>2. /\ \A i, j \in 1 .. Len(q) : i # j => P[q[i]] \cap P[q[j]] = {}
        /\ \A i \in 1 .. Len(q) : Enum(X[i], P[q[i]], v)
    BY <1>2, <1>3, <1>5
  <2> QED BY <1>4, <2>1, <2>2, ListedFlat
<1>9. {P[q[i]] : i \in 1 .. Len(q)} = {P[i] : i \in 1 .. n}
  BY <1>2
<1> QED BY <1>6, <1>7, <1>8, <1>9

\* The index names the blocks that hold the signal, each once.
InOf(B, s) == Only([k \in DOMAIN B |-> k], {k \in DOMAIN B : s \in DOMAIN B[k]})

LEMMA InListed ==
  ASSUME NEW B \in Seq(Block), NEW s
  PROVE  LET in == InOf(B, s) IN
         /\ Len(in) \in Nat /\ DOMAIN in = 1 .. Len(in)
         /\ \A i \in 1 .. Len(in) : in[i] \in 1 .. Len(B) /\ s \in DOMAIN B[in[i]]
         /\ \A i, j \in 1 .. Len(in) : in[i] = in[j] => i = j
         /\ \A k \in 1 .. Len(B) : s \in DOMAIN B[k] => \E i \in 1 .. Len(in) : in[i] = k
<1> DEFINE n == Len(B)
           way == [k \in 1 .. n |-> k]
           S == {k \in 1 .. n : s \in DOMAIN B[k]}
           in == InOf(B, s)
<1>1. n \in Nat /\ DOMAIN B = 1 .. n
  BY LenProperties
<1>2. way \in Seq(Nat) /\ Len(way) = n /\ \A k \in 1 .. n : way[k] = k
  BY <1>1
<1>3. in = Only(way, S)
  BY <1>1 DEF InOf
<1>4. {k \in 1 .. Len(way) : way[k] \in S} = S
  BY <1>2
<1> HIDE DEF way, n, in
<1>5. Enum(in, S, way)
  BY <1>2, <1>3, <1>4, OnlyListed
<1>6. PICK b \in [1 .. Len(in) -> S] :
        /\ \A i, j \in 1 .. Len(in) : b[i] = b[j] => i = j
        /\ \A x \in S : \E i \in 1 .. Len(in) : b[i] = x
        /\ \A i \in 1 .. Len(in) : in[i] = way[b[i]]
  BY <1>5 DEF Enum
<1>7. Len(in) \in Nat /\ DOMAIN in = 1 .. Len(in)
  BY <1>5 DEF Enum
<1>8. \A i \in 1 .. Len(in) : in[i] = b[i] /\ b[i] \in 1 .. n /\ s \in DOMAIN B[b[i]]
  BY <1>2, <1>6
<1>9. \A k \in 1 .. n : s \in DOMAIN B[k] => \E i \in 1 .. Len(in) : in[i] = k
  BY <1>6, <1>8
<1>10. \A i, j \in 1 .. Len(in) : in[i] = in[j] => i = j
  BY <1>6, <1>8
<1> QED BY <1>7, <1>8, <1>9, <1>10 DEF n, in

\* What the index leads to is all that the file holds of the signal.
LEMMA RecordedListed ==
  ASSUME NEW f, NEW s, NEW B \in Seq(Block), NEW v,
         \A k \in 1 .. Len(B) : s \in DOMAIN B[k] =>
           \A i \in 1 .. Len(B[k][s]) : v[<<f, k, i>>] = B[k][s][i]
  PROVE  LET R == Recorded(B, InOf(B, s), s)
         IN  R \in Seq(Nat) /\ Enum(R, Where(f, B, s), v)
<1> DEFINE in == InOf(B, s)
           m == Len(in)
           X == [i \in 1 .. m |-> B[in[i]][s]]
           P == [k \in 1 .. Len(B) |-> Part(f, B, s, k)]
<1>1. /\ m \in Nat /\ DOMAIN in = 1 .. m
      /\ \A i \in 1 .. m : in[i] \in 1 .. Len(B) /\ s \in DOMAIN B[in[i]]
      /\ \A i, j \in 1 .. m : in[i] = in[j] => i = j
      /\ \A k \in 1 .. Len(B) : s \in DOMAIN B[k] => \E i \in 1 .. m : in[i] = k
  BY InListed
<1>2. \A k \in 1 .. Len(B) : B[k] \in Block
  BY ElementOfSeq
<1> HIDE DEF in, m
<1>3. ASSUME NEW i \in 1 .. m
      PROVE  X[i] \in Seq(Nat) /\ Enum(X[i], P[in[i]], v)
  <2>1. in[i] \in 1 .. Len(B) /\ s \in DOMAIN B[in[i]] /\ B[in[i]] \in Block
    BY <1>1, <1>2
  <2> DEFINE k == in[i]
             t == B[in[i]][s]
  <2>2. t \in Times /\ X[i] = t
    BY <2>1, BlockIs
  <2>3. t \in Seq(Nat)
    BY <2>2, TimesAre
  <2>4. \A j \in 1 .. Len(t) : v[<<f, k, j>>] = t[j]
    BY <2>1
  <2>5. P[k] = {<<f, k, j>> : j \in 1 .. Len(t)}
    BY <2>1 DEF Part
  <2> HIDE DEF X, P, k, t
  <2>6. Enum(t, {<<f, k, j>> : j \in 1 .. Len(t)}, v)
    BY <2>3, <2>4, PartListed
  <2> QED BY <2>2, <2>3, <2>5, <2>6 DEF k
<1>4. X \in Seq(Seq(Nat)) /\ Len(X) = m
  <2>1. X = [i \in 1 .. m |-> X[i]]
    OBVIOUS
  <2> HIDE DEF X
  <2>2. X \in [1 .. m -> Seq(Nat)]
    BY <1>3, <2>1
  <2> QED BY <1>1, <2>2
<1>5. \A i, j \in 1 .. m : i # j => P[in[i]] \cap P[in[j]] = {}
  <2> SUFFICES ASSUME NEW i \in 1 .. m, NEW j \in 1 .. m, i # j
               PROVE  P[in[i]] \cap P[in[j]] = {}
    OBVIOUS
  <2>1. in[i] # in[j] /\ in[i] \in 1 .. Len(B) /\ in[j] \in 1 .. Len(B)
    BY <1>1
  <2>2. P[in[i]] = Part(f, B, s, in[i]) /\ P[in[j]] = Part(f, B, s, in[j])
    BY <2>1
  <2> QED BY <2>1, <2>2, PartsApart
<1>6. UNION {P[in[i]] : i \in 1 .. m} = Where(f, B, s)
  <2>1. ASSUME NEW x, x \in UNION {P[in[i]] : i \in 1 .. m} PROVE x \in Where(f, B, s)
    <3>1. PICK i \in 1 .. m : x \in P[in[i]]
      BY <2>1
    <3>2. in[i] \in 1 .. Len(B) /\ x \in Part(f, B, s, in[i])
      BY <1>1, <3>1
    <3> QED BY <3>2 DEF Where
  <2>2. ASSUME NEW x, x \in Where(f, B, s) PROVE x \in UNION {P[in[i]] : i \in 1 .. m}
    <3>1. PICK k \in 1 .. Len(B) : x \in Part(f, B, s, k)
      BY <2>2 DEF Where
    <3>2. s \in DOMAIN B[k]
      BY <3>1 DEF Part
    <3>3. PICK i \in 1 .. m : in[i] = k
      BY <1>1, <3>2
    <3>4. x \in P[in[i]]
      BY <3>1, <3>3
    <3> QED BY <3>4
  <2> QED BY <2>1, <2>2
<1>7. Recorded(B, InOf(B, s), s) = FlattenSeq(X)
  BY <1>1 DEF Recorded, in
<1> HIDE DEF X, P
<1>8. /\ Enum(FlattenSeq(X), UNION {P[in[i]] : i \in 1 .. m}, v)
      /\ FlattenSeq(X) \in Seq(Nat)
  <2>1. m = Len(in)
    BY DEF m
  <2>2. Len(in) \in Nat /\ Len(X) = Len(in) /\ \A i, j \in 1 .. Len(in) : in[i] = in[j] => i = j
    BY <1>1, <1>4, <2>1
  <2>3. /\ \A i, j \in 1 .. Len(in) : i # j => P[in[i]] \cap P[in[j]] = {}
        /\ \A i \in 1 .. Len(in) : Enum(X[i], P[in[i]], v)
    BY <1>3, <1>5, <2>1
  <2>4. /\ Enum(FlattenSeq(X), UNION {P[in[i]] : i \in 1 .. Len(in)}, v)
        /\ FlattenSeq(X) \in Seq(Nat)
    BY <1>4, <2>2, <2>3, ListedFlat
  <2> QED BY <2>1, <2>4
<1> QED BY <1>6, <1>7, <1>8

-----------------------------------------------------------------------------
(* The invariant.                                                          *)

SignalsOf(B) == UNION {DOMAIN B[k] : k \in DOMAIN B}

\* What the index of blocks B says of a signal, until and after it is loaded.
Entry(B, s) ==
  [patchApos : {InOf(B, s)}, vlsCnt : {Len(Recorded(B, InOf(B, s), s))}, isLoad : BOOLEAN]

IndexIs(B, ref) ==
  DOMAIN ref = SignalsOf(B) /\ \A s \in DOMAIN ref : ref[s] \in Entry(B, s)

\* The blocks C begin with the blocks B.
Begins(B, C) == Len(B) <= Len(C) /\ \A k \in 1 .. Len(B) : B[k] = C[k]

\* The files whose records of a signal were loaded.
Loads(refs, s) == {f \in DOMAIN refs : s \in DOMAIN refs[f] /\ refs[f][s].isLoad}

Spots(held, fs, s) == UNION {Where(f, held[f], s) : f \in fs}

At(held, s) == [x \in Files \X Nat \X Nat |-> held[x[1]][x[2]][s][x[3]] + Shift[x[1]]]

DiskIs(dsk, time) ==
  /\ dsk \in [Files -> [blocks : Seq(Block), torn : Block, inReach : BOOLEAN]]
  /\ time \in Nat /\ time >= FirstTime

\* Of an opened file: what it held then, and the index made of that.
Indexed(dsk, refs, held) ==
  /\ DOMAIN refs \subseteq Files /\ DOMAIN held = DOMAIN refs
  /\ \A f \in DOMAIN refs :
       /\ held[f] \in Seq(Block)
       /\ Begins(held[f], dsk[f].blocks)
       /\ IndexIs(held[f], refs[f])

AllActive(refs, sigs) ==
  \A f \in DOMAIN refs : \A s \in DOMAIN refs[f] : s \in DOMAIN sigs /\ sigs[s].isActive

SignalType == [isActive : BOOLEAN, data : Seq(Nat), begin : {0}, value : Nat, min : Nat, max : Nat]

\* The buffer is in order, its bounds are those of its records.
Buffered(sd) ==
  /\ sd \in SignalType
  /\ Ascending(sd.data)
  /\ IF sd.data = <<>> THEN sd.value = 0
     ELSE /\ sd.value = Len(sd.data) - 1
          /\ sd.min = sd.data[1]
          /\ sd.max = sd.data[Len(sd.data)] + Cycle

\* The buffers, and what the files loaded for them held.
Read(refs, held, sigs) ==
  /\ DOMAIN sigs \subseteq Signals
  /\ \A s \in DOMAIN sigs :
       /\ Buffered(sigs[s])
       /\ Enum(sigs[s].data, Spots(held, Loads(refs, s), s), At(held, s))

ViewerInv ==
  /\ DiskIs(disk, now)
  /\ Indexed(disk, fileRef, openedAt)
  /\ AllActive(fileRef, signals)
  /\ Read(fileRef, openedAt, signals)
  /\ answer \in [Signals -> BOOLEAN]

-----------------------------------------------------------------------------
(* What several files held, and what is read of them.                      *)

LEMMA EnumHas ==
  ASSUME NEW q, NEW P, NEW v, Enum(q, P, v), NEW x \in P
  PROVE  Len(q) \in Nat \ {0} /\ q # <<>>
<1>1. Len(q) \in Nat /\ \E i \in 1 .. Len(q) : TRUE
  BY DEF Enum
<1>2. Len(q) # 0
  BY <1>1
<1>3. Len(<<>>) = 0
  OBVIOUS
<1> QED BY <1>1, <1>2, <1>3

LEMMA EnumSame ==
  ASSUME NEW q, NEW P, NEW v, NEW w, Enum(q, P, v), \A x \in P : v[x] = w[x]
  PROVE  Enum(q, P, w)
<1>1. PICK b \in [1 .. Len(q) -> P] :
        /\ \A i, j \in 1 .. Len(q) : b[i] = b[j] => i = j
        /\ \A x \in P : \E i \in 1 .. Len(q) : b[i] = x
        /\ \A i \in 1 .. Len(q) : q[i] = v[b[i]]
  BY DEF Enum
<1>2. \A i \in 1 .. Len(q) : q[i] = w[b[i]]
  BY <1>1
<1>3. Len(q) \in Nat /\ DOMAIN q = 1 .. Len(q)
  BY DEF Enum
<1> QED BY <1>1, <1>2, <1>3, Zenon DEF Enum

\* The lists g of some files, one after the other.
Queued(g, S) ==
  LET queue == SetToSeq(S) IN FlattenSeq([i \in DOMAIN queue |-> g[queue[i]]])

LEMMA QueueListed ==
  ASSUME NEW S, IsFiniteSet(S), NEW g, NEW P, NEW v,
         \A f \in S : g[f] \in Seq(Nat) /\ Enum(g[f], P[f], v),
         \A f, h \in S : f # h => P[f] \cap P[h] = {}
  PROVE  Queued(g, S) \in Seq(Nat) /\ Enum(Queued(g, S), UNION {P[f] : f \in S}, v)
<1> DEFINE q == SetToSeq(S)
           X == [i \in DOMAIN q |-> g[q[i]]]
<1>1. /\ q \in Seq(S) /\ Len(q) \in Nat /\ DOMAIN q = 1 .. Len(q)
      /\ \A i, j \in 1 .. Len(q) : q[i] = q[j] => i = j
      /\ \A x \in S : \E i \in 1 .. Len(q) : q[i] = x
  BY SetListed
<1> HIDE DEF q
<1>2. \A i \in 1 .. Len(q) : q[i] \in S
  BY <1>1, ElementOfSeq
<1>3. X \in Seq(Seq(Nat)) /\ Len(X) = Len(q)
  <2>1. X \in [1 .. Len(q) -> Seq(Nat)]
    BY <1>1, <1>2
  <2> QED BY <1>1, <2>1
<1>4. \A i \in 1 .. Len(q) : Enum(X[i], P[q[i]], v)
  BY <1>1, <1>2
<1>5. \A i, j \in 1 .. Len(q) : i # j => P[q[i]] \cap P[q[j]] = {}
  BY <1>1, <1>2
<1>6. {P[q[i]] : i \in 1 .. Len(q)} = {P[f] : f \in S}
  BY <1>1, <1>2
<1> HIDE DEF X
<1>7. /\ Enum(FlattenSeq(X), UNION {P[q[i]] : i \in 1 .. Len(q)}, v)
      /\ FlattenSeq(X) \in Seq(Nat)
  BY <1>1, <1>3, <1>4, <1>5, ListedFlat
<1> QED BY <1>6, <1>7 DEF Queued, X, q

\* The time of a record is found at its place.
LEMMA AtIs ==
  ASSUME NEW held, NEW f \in Files, held[f] \in Seq(Block), NEW s,
         NEW k \in 1 .. Len(held[f]), s \in DOMAIN held[f][k], NEW i \in 1 .. Len(held[f][k][s])
  PROVE  At(held, s)[<<f, k, i>>] = held[f][k][s][i] + Shift[f]
<1>1. held[f][k] \in Block
  BY ElementOfSeq
<1>2. Len(held[f]) \in Nat /\ Len(held[f][k][s]) \in Nat
  BY <1>1, BlockIs, TimesAre, LenProperties
<1>3. k \in Nat /\ i \in Nat
  BY <1>2
<1> QED BY <1>3 DEF At

LEMMA HeldByIs ==
  ASSUME Indexed(disk, fileRef, openedAt), NEW fs, fs \subseteq Opened, NEW s
  PROVE  /\ HeldBy(fs, s) \in Seq(Nat)
         /\ Ascending(HeldBy(fs, s))
         /\ Enum(HeldBy(fs, s), Spots(openedAt, fs, s), At(openedAt, s))
<1> DEFINE v == At(openedAt, s)
           g == [f \in fs |-> Held(f, s)]
           P == [f \in fs |-> Where(f, openedAt[f], s)]
           q == SetToSeq(fs)
           R == FlattenSeq([i \in DOMAIN q |-> g[q[i]]])
<1>1. IsFiniteSet(fs) /\ fs \subseteq Files
  BY ViewerAssumption, FS_Subset DEF Indexed, Opened
<1>2. ASSUME NEW f \in fs PROVE g[f] \in Seq(Nat) /\ Enum(g[f], P[f], v)
  <2>1. f \in Files /\ openedAt[f] \in Seq(Block) /\ Shift[f] \in Int /\ FirstTime + Shift[f] >= 0
    BY <1>1, ViewerAssumption DEF Indexed, Opened
  <2>2. \A k \in 1 .. Len(openedAt[f]) : s \in DOMAIN openedAt[f][k] =>
          \A i \in 1 .. Len(openedAt[f][k][s]) : v[<<f, k, i>>] = openedAt[f][k][s][i] + Shift[f]
    BY <2>1, AtIs
  <2> HIDE DEF v
  <2>3. Held(f, s) \in Seq(Nat) /\ Enum(Held(f, s), Where(f, openedAt[f], s), v)
    BY <2>1, <2>2, HeldListed DEF Held
  <2> QED BY <2>3
<1>3. \A f, h \in fs : f # h => P[f] \cap P[h] = {}
  BY FilesApart
<1>4. UNION {P[f] : f \in fs} = Spots(openedAt, fs, s)
  BY DEF Spots
<1>5. HeldBy(fs, s) = InOrder(R)
  <2>1. q \in Seq(fs) /\ DOMAIN q = 1 .. Len(q)
    BY <1>1, SetListed
  <2>2. \A i \in DOMAIN q : q[i] \in fs
    BY <2>1, ElementOfSeq
  <2>3. [i \in DOMAIN q |-> g[q[i]]] = [i \in DOMAIN q |-> Held(q[i], s)]
    BY <2>2
  <2> QED BY <2>3 DEF HeldBy
<1> HIDE DEF g, P
<1>6. R \in Seq(Nat) /\ Enum(R, UNION {P[f] : f \in fs}, v)
  <2> HIDE DEF v
  <2>1. \A f \in fs : g[f] \in Seq(Nat) /\ Enum(g[f], P[f], v)
    BY <1>2
  <2>2. Queued(g, fs) \in Seq(Nat) /\ Enum(Queued(g, fs), UNION {P[f] : f \in fs}, v)
    BY <1>1, <1>3, <2>1, QueueListed
  <2> QED BY <2>2 DEF Queued
<1> HIDE DEF R
<1>7. InOrder(R) \in Seq(Nat) /\ Ascending(InOrder(R)) /\ Enum(InOrder(R), 1 .. Len(R), R)
  BY <1>6, InOrderIs
<1>8. Enum(InOrder(R), UNION {P[f] : f \in fs}, v)
  BY <1>6, <1>7, ListedAgain
<1> QED BY <1>4, <1>5, <1>7, <1>8

\* The buffer made for the records of a file takes them all.
LEMMA FromFileIs ==
  ASSUME DiskIs(disk, now), Indexed(disk, fileRef, openedAt),
         NEW f \in Opened, NEW s \in DOMAIN fileRef[f]
  PROVE  /\ FromFile(f, s) \in Seq(Nat)
         /\ Enum(FromFile(f, s), Where(f, openedAt[f], s), At(openedAt, s))
<1> DEFINE B == openedAt[f]
           in == InOf(B, s)
           R == Recorded(B, in, s)
           z == Shift[f]
           v == At(openedAt, s)
           w == [x \in Where(f, B, s) |-> B[x[2]][s][x[3]]]
<1>1. /\ f \in Files /\ B \in Seq(Block) /\ Begins(B, disk[f].blocks)
      /\ fileRef[f][s] \in Entry(B, s)
      /\ z \in Int /\ FirstTime + z >= 0
  BY ViewerAssumption DEF Indexed, Opened, IndexIs
<1>2. fileRef[f][s].patchApos = in /\ fileRef[f][s].vlsCnt = Len(R)
  BY <1>1 DEF Entry
<1>3. Recorded(disk[f].blocks, in, s) = R
  <2>1. \A i \in DOMAIN in : in[i] \in 1 .. Len(B)
    BY <1>1, InListed
  <2>2. \A i \in DOMAIN in : disk[f].blocks[in[i]] = B[in[i]]
    BY <1>1, <2>1 DEF Begins
  <2>3. [i \in DOMAIN in |-> disk[f].blocks[in[i]][s]] = [i \in DOMAIN in |-> B[in[i]][s]]
    BY <2>2
  <2> QED BY <2>3 DEF Recorded
<1>4. ASSUME NEW k \in 1 .. Len(B), s \in DOMAIN B[k], NEW i \in 1 .. Len(B[k][s])
      PROVE  /\ <<f, k, i>> \in Where(f, B, s)
             /\ w[<<f, k, i>>] = B[k][s][i]
             /\ v[<<f, k, i>>] = B[k][s][i] + z
             /\ B[k][s][i] \in Nat /\ B[k][s][i] >= FirstTime
  <2>1. <<f, k, i>> \in Part(f, B, s, k)
    BY <1>4 DEF Part
  <2>2. <<f, k, i>> \in Where(f, B, s)
    BY <2>1 DEF Where
  <2>3. v[<<f, k, i>>] = B[k][s][i] + z
    BY <1>1, <1>4, AtIs
  <2>4. B[k][s] \in Times
    BY <1>1, <1>4, ElementOfSeq, BlockIs
  <2> QED BY <2>2, <2>3, <2>4, TimesAre
<1>5. R \in Seq(Nat) /\ Enum(R, Where(f, B, s), w)
  <2> HIDE DEF w, B
  <2> QED BY <1>1, <1>4, RecordedListed
<1>6. \A x \in Where(f, B, s) : v[x] = w[x] + z /\ w[x] \in Nat /\ w[x] + z \in Nat
  <2>1. ASSUME NEW x \in Where(f, B, s) PROVE v[x] = w[x] + z /\ w[x] \in Nat /\ w[x] + z \in Nat
    <3>1. PICK k \in 1 .. Len(B) : x \in Part(f, B, s, k)
      BY DEF Where
    <3>2. s \in DOMAIN B[k] /\ \E i \in 1 .. Len(B[k][s]) : x = <<f, k, i>>
      BY <3>1 DEF Part
    <3>3. PICK i \in 1 .. Len(B[k][s]) : x = <<f, k, i>>
      BY <3>2
    <3> HIDE DEF v, w, B, z
    <3>4. v[x] = w[x] + z /\ w[x] \in Nat /\ w[x] >= FirstTime
      BY <1>4, <3>2, <3>3
    <3> QED BY <1>1, <3>4 DEF FirstTime
  <2> QED BY <2>1
<1>7. PICK b \in [1 .. Len(R) -> Where(f, B, s)] :
        /\ \A i, j \in 1 .. Len(R) : b[i] = b[j] => i = j
        /\ \A x \in Where(f, B, s) : \E i \in 1 .. Len(R) : b[i] = x
        /\ \A i \in 1 .. Len(R) : R[i] = w[b[i]]
  BY <1>5 DEF Enum
<1>8. Len(R) \in Nat /\ DOMAIN R = 1 .. Len(R)
  BY <1>5 DEF Enum
<1> DEFINE A == FromFile(f, s)
<1>9. A = [i \in 1 .. Len(R) |-> R[i] + z]
  <2>1. A = [i \in 1 .. Len(R) |-> IF i \in DOMAIN R THEN R[i] + z ELSE 0]
    BY <1>2, <1>3 DEF FromFile
  <2> HIDE DEF A, R, z
  <2> QED BY <1>8, <2>1
<1> HIDE DEF A, R, z, v, w, B
<1>10. \A i \in 1 .. Len(R) : A[i] = v[b[i]] /\ A[i] \in Nat
  BY <1>6, <1>7, <1>9
<1>11. A \in Seq(Nat) /\ Len(A) = Len(R) /\ DOMAIN A = 1 .. Len(R)
  <2>1. A \in [1 .. Len(R) -> Nat]
    BY <1>9, <1>10
  <2> QED BY <1>8, <2>1
<1>12. Enum(A, Where(f, B, s), v)
  <2>1. Len(A) \in Nat /\ DOMAIN A = 1 .. Len(A) /\ Len(A) = Len(R)
    BY <1>8, <1>11
  <2>2. /\ b \in [1 .. Len(A) -> Where(f, B, s)]
        /\ \A i, j \in 1 .. Len(A) : b[i] = b[j] => i = j
        /\ \A x \in Where(f, B, s) : \E i \in 1 .. Len(A) : b[i] = x
        /\ \A i \in 1 .. Len(A) : A[i] = v[b[i]]
    BY <1>7, <1>10, <2>1
  <2> QED BY <2>1, <2>2, Zenon DEF Enum
<1> QED BY <1>11, <1>12 DEF A, B, v

LEMMA MoreIs ==
  ASSUME DiskIs(disk, now), Indexed(disk, fileRef, openedAt), NEW s,
         NEW fs, fs \subseteq Opened, \A f \in fs : s \in DOMAIN fileRef[f]
  PROVE  LET queue == SetToSeq(fs)
             more  == FlattenSeq([i \in DOMAIN queue |-> FromFile(queue[i], s)])
         IN  more \in Seq(Nat) /\ Enum(more, Spots(openedAt, fs, s), At(openedAt, s))
<1> DEFINE v == At(openedAt, s)
           g == [f \in fs |-> FromFile(f, s)]
           P == [f \in fs |-> Where(f, openedAt[f], s)]
           q == SetToSeq(fs)
<1>1. IsFiniteSet(fs)
  BY ViewerAssumption, FS_Subset DEF Indexed, Opened
<1>2. \A f \in fs : g[f] \in Seq(Nat) /\ Enum(g[f], P[f], v)
  BY FromFileIs
<1>3. \A f, h \in fs : f # h => P[f] \cap P[h] = {}
  BY FilesApart
<1>4. UNION {P[f] : f \in fs} = Spots(openedAt, fs, s)
  BY DEF Spots
<1>5. Queued(g, fs) = FlattenSeq([i \in DOMAIN q |-> FromFile(q[i], s)])
  <2>1. q \in Seq(fs) /\ DOMAIN q = 1 .. Len(q)
    BY <1>1, SetListed
  <2>2. \A i \in DOMAIN q : q[i] \in fs
    BY <2>1, ElementOfSeq
  <2>3. [i \in DOMAIN q |-> g[q[i]]] = [i \in DOMAIN q |-> FromFile(q[i], s)]
    BY <2>2
  <2> QED BY <2>3 DEF Queued
<1> HIDE DEF g, P
<1>6. Queued(g, fs) \in Seq(Nat) /\ Enum(Queued(g, fs), UNION {P[f] : f \in fs}, v)
  <2> HIDE DEF v
  <2> QED BY <1>1, <1>2, <1>3, QueueListed
<1> QED BY <1>4, <1>5, <1>6

\* A file with a signal in its index held a record of it.
LEMMA WhereHas ==
  ASSUME NEW f, NEW B \in Seq(Block), NEW s \in SignalsOf(B)
  PROVE  Where(f, B, s) # {}
<1>1. PICK k \in 1 .. Len(B) : s \in DOMAIN B[k]
  BY LenProperties DEF SignalsOf
<1>2. B[k][s] \in Times
  BY <1>1, ElementOfSeq, BlockIs
<1>3. 1 \in 1 .. Len(B[k][s])
  BY <1>2, TimesAre
<1>4. <<f, k, 1>> \in Part(f, B, s, k)
  BY <1>1, <1>3 DEF Part
<1> QED BY <1>4 DEF Where

LEMMA NewIs ==
  ASSUME NEW a \in BOOLEAN
  PROVE  Buffered(NewSignal(a)) /\ NewSignal(a).data = <<>> /\ NewSignal(a).isActive = a
<1>1. <<>> \in Seq(Nat) /\ Ascending(<<>>)
  BY EmptySeq DEF Ascending
<1> QED BY <1>1 DEF NewSignal, Buffered, SignalType

LEMMA ViewerInitOK == ViewerInit => ViewerInv
<1> SUFFICES ASSUME ViewerInit PROVE ViewerInv
  OBVIOUS
<1>1. DiskIs(disk, now)
  <2>1. <<>> \in Seq(Block)
    BY EmptySeq
  <2>2. NoBlock \in Block
    <3>1. NoBlock \in [{} -> Times] /\ {} \in SUBSET Signals
      BY DEF NoBlock
    <3> QED BY <3>1 DEF Block
  <2>3. now = 10 /\ disk = [f \in Files |-> [blocks |-> <<>>, torn |-> NoBlock, inReach |-> TRUE]]
    BY DEF ViewerInit, FirstTime
  <2> HIDE DEF NoBlock
  <2> QED BY <2>1, <2>2, <2>3 DEF DiskIs, FirstTime
<1>2. DOMAIN fileRef = {} /\ DOMAIN openedAt = {}
  BY DEF ViewerInit
<1>3. Indexed(disk, fileRef, openedAt) /\ AllActive(fileRef, signals)
  BY <1>2 DEF Indexed, AllActive
<1>4. PICK S \in SUBSET Signals : signals = [s \in S |-> NewSignal(FALSE)]
  BY DEF ViewerInit
<1>5. Read(fileRef, openedAt, signals)
  <2>1. DOMAIN signals \subseteq Signals
    BY <1>4
  <2>2. ASSUME NEW s \in DOMAIN signals
        PROVE  /\ Buffered(signals[s])
               /\ Enum(signals[s].data, Spots(openedAt, Loads(fileRef, s), s), At(openedAt, s))
    <3>1. signals[s] = NewSignal(FALSE)
      BY <1>4
    <3>2. Spots(openedAt, Loads(fileRef, s), s) = {}
      BY <1>2 DEF Spots, Loads
    <3> QED BY <3>1, <3>2, NewIs, NothingListed
  <2> QED BY <2>1, <2>2 DEF Read
<1>6. answer \in [Signals -> BOOLEAN]
  BY DEF ViewerInit
<1> QED BY <1>1, <1>3, <1>5, <1>6 DEF ViewerInv

\* The order of time, and what a load leaves in the buffer.
LEMMA LoadedIs ==
  ASSUME NEW sd, Buffered(sd), NEW more \in Seq(Nat), NEW P, NEW Q, P \cap Q = {}, NEW v,
         Enum(sd.data, P, v), Enum(more, Q, v), NEW x \in Q
  PROVE  /\ Buffered(Loaded(sd, more))
         /\ Enum(Loaded(sd, more).data, P \cup Q, v)
         /\ Loaded(sd, more).isActive = sd.isActive
<1> DEFINE both == sd.data \o more
           data == InOrder(both)
           new == Loaded(sd, more)
<1>1. sd \in SignalType /\ sd.data \in Seq(Nat)
  BY DEF Buffered, SignalType
<1>2. both \in Seq(Nat) /\ Enum(both, P \cup Q, v)
  BY <1>1, ConcatProperties, ListedTogether
<1> HIDE DEF both
<1>3. data \in Seq(Nat) /\ Ascending(data) /\ Enum(data, P \cup Q, v)
  <2>1. data \in Seq(Nat) /\ Ascending(data) /\ Enum(data, 1 .. Len(both), both)
    BY <1>2, InOrderIs
  <2> QED BY <1>2, <2>1, ListedAgain
<1>4. new = [sd EXCEPT !.data = data, !.value = Len(data) - 1,
                       !.min = data[1], !.max = data[Len(data)] + Cycle]
  BY DEF Loaded, both
<1> HIDE DEF data, new
<1>5. Len(data) \in Nat \ {0} /\ data # <<>>
  BY <1>3, EnumHas
<1>6. data[1] \in Nat /\ data[Len(data)] \in Nat /\ Cycle \in Nat
  <2>1. 1 \in 1 .. Len(data) /\ Len(data) \in 1 .. Len(data)
    BY <1>5
  <2> QED BY <1>3, <2>1, ElementOfSeq, ViewerAssumption
<1>7. /\ new \in SignalType
      /\ new.data = data /\ new.value = Len(data) - 1 /\ new.min = data[1]
      /\ new.max = data[Len(data)] + Cycle /\ new.isActive = sd.isActive
  <2> DEFINE last == Len(data) - 1
             first == data[1]
             end == data[Len(data)] + Cycle
  <2>1. last \in Nat /\ first \in Nat /\ end \in Nat
    BY <1>5, <1>6
  <2>2. new = [sd EXCEPT !.data = data, !.value = last, !.min = first, !.max = end]
    BY <1>4
  <2> HIDE DEF last, first, end
  <2>3. /\ new \in SignalType
        /\ new.data = data /\ new.value = last /\ new.min = first
        /\ new.max = end /\ new.isActive = sd.isActive
    BY <1>1, <1>3, <2>1, <2>2 DEF SignalType
  <2> QED BY <2>3 DEF last, first, end
<1>8. Buffered(new)
  BY <1>3, <1>5, <1>7 DEF Buffered
<1> QED BY <1>3, <1>7, <1>8 DEF new

LEMMA LoadOK ==
  ASSUME ViewerInv, NEW s \in Signals, LoadSignalData(s)
  PROVE  ViewerInv'
<1> DEFINE found == ToLoad(s)
           read == {f \in found : disk[f].inReach}
           queue == SetToSeq(read)
           more == FlattenSeq([i \in DOMAIN queue |-> FromFile(queue[i], s)])
           sd == IF read = {} THEN signals[s] ELSE Loaded(signals[s], more)
           v == At(openedAt, s)
           old == Spots(openedAt, Loads(fileRef, s), s)
           new == Spots(openedAt, read, s)
<1>1. /\ s \in DOMAIN signals
      /\ signals' = [signals EXCEPT ![s] = sd]
      /\ fileRef' = [f \in DOMAIN fileRef |->
                       IF f \in read THEN [fileRef[f] EXCEPT ![s].isLoad = TRUE] ELSE fileRef[f]]
      /\ answer' = [answer EXCEPT ![s] = AllRead(found) /\ sd.data # <<>>]
      /\ disk' = disk /\ now' = now /\ openedAt' = openedAt
  BY DEF LoadSignalData, Known, Opened
<1>2. /\ DiskIs(disk, now) /\ Indexed(disk, fileRef, openedAt)
      /\ AllActive(fileRef, signals) /\ Read(fileRef, openedAt, signals)
      /\ answer \in [Signals -> BOOLEAN]
  BY DEF ViewerInv
<1>3. /\ read \subseteq DOMAIN fileRef
      /\ \A f \in read : s \in DOMAIN fileRef[f] /\ ~fileRef[f][s].isLoad
  BY DEF ToLoad, Opened
<1>4. ASSUME NEW f \in DOMAIN fileRef, NEW t \in DOMAIN fileRef[f]
      PROVE  /\ fileRef[f][t] \in Entry(openedAt[f], t)
             /\ fileRef[f][t].isLoad \in BOOLEAN
  <2>1. fileRef[f][t] \in Entry(openedAt[f], t)
    BY <1>2 DEF Indexed, IndexIs
  <2> QED BY <2>1 DEF Entry
<1> HIDE DEF found, more, sd, v
<1>5. DOMAIN fileRef' = DOMAIN fileRef
  BY <1>1
<1>6. ASSUME NEW f \in DOMAIN fileRef
      PROVE  /\ DOMAIN fileRef'[f] = DOMAIN fileRef[f]
             /\ \A t \in DOMAIN fileRef[f] :
                  fileRef'[f][t] = IF f \in read /\ t = s THEN [fileRef[f][s] EXCEPT !.isLoad = TRUE]
                                   ELSE fileRef[f][t]
  <2> HIDE DEF read
  <2>1. CASE f \in read
    <3>1. fileRef'[f] = [fileRef[f] EXCEPT ![s].isLoad = TRUE]
      BY <1>1, <2>1
    <3>2. [fileRef[f] EXCEPT ![s].isLoad = TRUE] = [fileRef[f] EXCEPT ![s] = [fileRef[f][s] EXCEPT !.isLoad = TRUE]]
      BY <1>3, <2>1
    <3> QED BY <1>3, <2>1, <3>1, <3>2
  <2>2. CASE f \notin read
    <3>1. fileRef'[f] = fileRef[f]
      BY <1>1, <2>2
    <3> QED BY <2>2, <3>1
  <2> QED BY <2>1, <2>2
<1>7. ASSUME NEW f \in DOMAIN fileRef, NEW t \in DOMAIN fileRef[f]
      PROVE  /\ fileRef'[f][t] \in Entry(openedAt[f], t)
             /\ fileRef'[f][t].isLoad = (fileRef[f][t].isLoad \/ (f \in read /\ t = s))
  <2>1. CASE f \in read /\ t = s
    <3>1. [fileRef[f][t] EXCEPT !.isLoad = TRUE] \in Entry(openedAt[f], t)
      BY <1>4 DEF Entry
    <3>2. [fileRef[f][t] EXCEPT !.isLoad = TRUE].isLoad = TRUE
      BY <1>4 DEF Entry
    <3>3. fileRef'[f][t] = [fileRef[f][t] EXCEPT !.isLoad = TRUE]
      BY <1>6, <2>1
    <3> QED BY <2>1, <3>1, <3>2, <3>3
  <2>2. CASE ~(f \in read /\ t = s)
    <3>1. fileRef'[f][t] = fileRef[f][t]
      BY <1>6, <2>2
    <3> QED BY <1>4, <2>2, <3>1
  <2> QED BY <2>1, <2>2
<1>8. Indexed(disk, fileRef', openedAt)
  <2>1. DOMAIN fileRef' \subseteq Files /\ DOMAIN openedAt = DOMAIN fileRef'
    BY <1>2, <1>5 DEF Indexed
  <2>2. ASSUME NEW f \in DOMAIN fileRef'
        PROVE  /\ openedAt[f] \in Seq(Block)
               /\ Begins(openedAt[f], disk[f].blocks)
               /\ IndexIs(openedAt[f], fileRef'[f])
    <3>1. f \in DOMAIN fileRef
      BY <1>5
    <3>2. openedAt[f] \in Seq(Block) /\ Begins(openedAt[f], disk[f].blocks) /\ IndexIs(openedAt[f], fileRef[f])
      BY <1>2, <3>1 DEF Indexed
    <3>3. DOMAIN fileRef'[f] = SignalsOf(openedAt[f])
      BY <1>6, <3>1, <3>2 DEF IndexIs
    <3>4. \A t \in DOMAIN fileRef'[f] : fileRef'[f][t] \in Entry(openedAt[f], t)
      BY <1>6, <1>7, <3>1
    <3> QED BY <3>2, <3>3, <3>4 DEF IndexIs
  <2> QED BY <2>1, <2>2 DEF Indexed
<1>9. ASSUME NEW t
      PROVE  Loads(fileRef', t) = IF t = s THEN Loads(fileRef, s) \cup read ELSE Loads(fileRef, t)
  <2> HIDE DEF read
  <2>1. \A f \in DOMAIN fileRef :
          f \in Loads(fileRef', t) <=> f \in Loads(fileRef, t) \/ (f \in read /\ t = s)
    BY <1>3, <1>5, <1>6, <1>7 DEF Loads
  <2>2. Loads(fileRef', t) \subseteq DOMAIN fileRef /\ Loads(fileRef, t) \subseteq DOMAIN fileRef
    BY <1>5 DEF Loads
  <2> QED BY <1>3, <2>1, <2>2
<1>10. Buffered(signals[s]) /\ Enum(signals[s].data, old, v)
  BY <1>1, <1>2 DEF Read, v
<1>11. /\ Buffered(sd) /\ Enum(sd.data, old \cup new, v)
       /\ sd.isActive = signals[s].isActive
  <2>1. CASE read = {}
    <3>1. sd = signals[s]
      BY <2>1 DEF sd
    <3>2. new = {}
      <4> HIDE DEF read
      <4> QED BY <2>1 DEF Spots
    <3>3. old \cup new = old
      BY <3>2
    <3> HIDE DEF old, new
    <3> QED BY <1>10, <3>1, <3>3
  <2>2. CASE read # {}
    <3>1. sd = Loaded(signals[s], more)
      BY <2>2 DEF sd
    <3>2. more \in Seq(Nat) /\ Enum(more, new, v)
      <4>1. read \subseteq Opened /\ \A f \in read : s \in DOMAIN fileRef[f]
        BY <1>3 DEF Opened
      <4> HIDE DEF read
      <4> QED BY <1>2, <4>1, MoreIs DEF more, v
    <3>3. old \cap new = {}
      <4>1. SUFFICES ASSUME NEW x \in old, x \in new PROVE FALSE
        OBVIOUS
      <4>2. PICK f \in Loads(fileRef, s) : x \in Where(f, openedAt[f], s)
        BY DEF Spots
      <4>3. PICK g \in read : x \in Where(g, openedAt[g], s)
        BY <4>1 DEF Spots
      <4>4. f # g
        BY <1>3 DEF Loads
      <4> QED BY <4>2, <4>3, <4>4, FilesApart
    <3>4. PICK f \in read : TRUE
      BY <2>2
    <3>5. PICK x : x \in new
      <4>1. s \in SignalsOf(openedAt[f]) /\ openedAt[f] \in Seq(Block)
        BY <1>2, <1>3, <3>4 DEF Indexed, IndexIs
      <4>2. PICK x : x \in Where(f, openedAt[f], s)
        BY <4>1, WhereHas
      <4> HIDE DEF read
      <4> QED BY <3>4, <4>2 DEF Spots
    <3> HIDE DEF old, new, read
    <3> QED BY <1>10, <3>1, <3>2, <3>3, <3>5, LoadedIs
  <2> QED BY <2>1, <2>2
<1>12. DOMAIN signals' = DOMAIN signals /\ \A t \in DOMAIN signals : signals'[t] = IF t = s THEN sd ELSE signals[t]
  BY <1>1
<1>13. AllActive(fileRef', signals')
  <2>1. \A t \in DOMAIN signals : signals'[t].isActive = signals[t].isActive
    BY <1>11, <1>12
  <2>2. ASSUME NEW f \in DOMAIN fileRef', NEW t \in DOMAIN fileRef'[f]
        PROVE  t \in DOMAIN signals' /\ signals'[t].isActive
    <3>1. f \in DOMAIN fileRef /\ t \in DOMAIN fileRef[f]
      BY <1>5, <1>6
    <3>2. t \in DOMAIN signals /\ signals[t].isActive
      BY <1>2, <3>1 DEF AllActive
    <3> QED BY <1>12, <2>1, <3>2
  <2> QED BY <2>2 DEF AllActive
<1>14. Read(fileRef', openedAt, signals')
  <2>1. DOMAIN signals' \subseteq Signals
    BY <1>2, <1>12 DEF Read
  <2>2. ASSUME NEW t \in DOMAIN signals'
        PROVE  /\ Buffered(signals'[t])
               /\ Enum(signals'[t].data, Spots(openedAt, Loads(fileRef', t), t), At(openedAt, t))
    <3>1. CASE t = s
      <4>1. signals'[t] = sd
        BY <1>12, <2>2, <3>1
      <4>2. Spots(openedAt, Loads(fileRef', t), t) = old \cup new
        <5>1. Loads(fileRef', t) = Loads(fileRef, s) \cup read
          BY <1>9, <3>1
        <5> HIDE DEF read
        <5> QED BY <3>1, <5>1 DEF Spots
      <4> HIDE DEF old, new
      <4> QED BY <1>11, <3>1, <4>1, <4>2 DEF v
    <3>2. CASE t # s
      <4>1. t \in DOMAIN signals /\ signals'[t] = signals[t]
        BY <1>12, <2>2, <3>2
      <4>2. Loads(fileRef', t) = Loads(fileRef, t)
        BY <1>9, <3>2
      <4> QED BY <1>2, <4>1, <4>2 DEF Read
    <3> QED BY <3>1, <3>2
  <2> QED BY <2>1, <2>2 DEF Read
<1>15. answer' \in [Signals -> BOOLEAN]
  <2>1. (AllRead(found) /\ sd.data # <<>>) \in BOOLEAN
    OBVIOUS
  <2> QED BY <1>1, <1>2, <2>1
<1> QED BY <1>1, <1>2, <1>8, <1>13, <1>14, <1>15 DEF ViewerInv

LEMMA IndexOfIs ==
  ASSUME NEW B
  PROVE  IndexIs(B, IndexOf(B)) /\ \A s \in DOMAIN IndexOf(B) : IndexOf(B)[s].isLoad = FALSE
<1>1. DOMAIN IndexOf(B) = SignalsOf(B)
  BY DEF IndexOf, SignalsOf
<1>2. ASSUME NEW s \in SignalsOf(B)
      PROVE  IndexOf(B)[s] = [patchApos |-> InOf(B, s), vlsCnt |-> Len(Recorded(B, InOf(B, s), s)),
                              isLoad |-> FALSE]
  BY DEF IndexOf, SignalsOf, InOf
<1>3. \A s \in SignalsOf(B) : IndexOf(B)[s] \in Entry(B, s) /\ IndexOf(B)[s].isLoad = FALSE
  <2> SUFFICES ASSUME NEW s \in SignalsOf(B)
               PROVE  IndexOf(B)[s] \in Entry(B, s) /\ IndexOf(B)[s].isLoad = FALSE
    OBVIOUS
  <2> DEFINE e == IndexOf(B)[s]
             in == InOf(B, s)
             n == Len(Recorded(B, InOf(B, s), s))
  <2>1. e = [patchApos |-> in, vlsCnt |-> n, isLoad |-> FALSE]
    BY <1>2
  <2>2. Entry(B, s) = [patchApos : {in}, vlsCnt : {n}, isLoad : BOOLEAN]
    BY DEF Entry
  <2> HIDE DEF e, in, n
  <2>3. e \in [patchApos : {in}, vlsCnt : {n}, isLoad : BOOLEAN] /\ e.isLoad = FALSE
    BY <2>1
  <2> QED BY <2>2, <2>3 DEF e
<1> QED BY <1>1, <1>3 DEF IndexIs

LEMMA NothingIndexed == IndexIs(<<>>, <<>>) /\ DOMAIN <<>> = {}
BY DEF IndexIs, SignalsOf

LEMMA OpenOK ==
  ASSUME ViewerInv, NEW chosen \in SUBSET Files, OpenData(chosen)
  PROVE  ViewerInv'
<1> DEFINE fresh == {f \in chosen \ Opened : disk[f].inReach}
           B(f) == IF f \in OtherSizes THEN <<>> ELSE disk[f].blocks
           S == UNION {DOMAIN Index(f) : f \in fresh}
<1>1. /\ fileRef' = [f \in DOMAIN fileRef \cup fresh |->
                       IF f \in DOMAIN fileRef THEN fileRef[f] ELSE Index(f)]
      /\ signals' = WithSignals(signals, S)
      /\ openedAt' = [f \in DOMAIN fileRef \cup fresh |->
                        IF f \in DOMAIN fileRef THEN openedAt[f] ELSE B(f)]
      /\ disk' = disk /\ now' = now /\ answer' = answer
  BY DEF OpenData, Opened
<1>2. /\ DiskIs(disk, now) /\ Indexed(disk, fileRef, openedAt)
      /\ AllActive(fileRef, signals) /\ Read(fileRef, openedAt, signals)
      /\ answer \in [Signals -> BOOLEAN]
  BY DEF ViewerInv
<1>3. fresh \subseteq Files /\ \A f \in fresh : f \notin DOMAIN fileRef
  BY DEF Opened
<1>4. ASSUME NEW f \in fresh
      PROVE  /\ B(f) \in Seq(Block) /\ Begins(B(f), disk[f].blocks)
             /\ IndexIs(B(f), Index(f))
             /\ \A s \in DOMAIN Index(f) : Index(f)[s].isLoad = FALSE
  <2>1. disk[f].blocks \in Seq(Block) /\ Len(disk[f].blocks) \in Nat
    BY <1>2, <1>3, LenProperties DEF DiskIs
  <2>2. CASE f \in OtherSizes
    <3>1. B(f) = <<>> /\ Index(f) = <<>> /\ <<>> \in Seq(Block) /\ Len(<<>>) = 0
      BY <2>2, EmptySeq DEF Index
    <3>2. Begins(<<>>, disk[f].blocks)
      BY <2>1, <3>1 DEF Begins
    <3> HIDE DEF B
    <3> QED BY <3>1, <3>2, NothingIndexed
  <2>3. CASE f \notin OtherSizes
    <3>1. B(f) = disk[f].blocks /\ Index(f) = IndexOf(disk[f].blocks)
      BY <2>3 DEF Index
    <3>2. Begins(disk[f].blocks, disk[f].blocks)
      BY <2>1 DEF Begins
    <3> HIDE DEF B
    <3> QED BY <2>1, <3>1, <3>2, IndexOfIs
  <2> QED BY <2>2, <2>3
<1> HIDE DEF fresh, B
<1>5. DOMAIN fileRef' = DOMAIN fileRef \cup fresh /\ DOMAIN openedAt' = DOMAIN fileRef \cup fresh
  BY <1>1
<1>6. \A f \in DOMAIN fileRef : fileRef'[f] = fileRef[f] /\ openedAt'[f] = openedAt[f]
  BY <1>1
<1>7. \A f \in fresh : fileRef'[f] = Index(f) /\ openedAt'[f] = B(f)
  BY <1>1, <1>3
<1>8. Indexed(disk, fileRef', openedAt')
  <2>1. DOMAIN fileRef' \subseteq Files /\ DOMAIN openedAt' = DOMAIN fileRef'
    BY <1>2, <1>3, <1>5 DEF Indexed
  <2>2. ASSUME NEW f \in DOMAIN fileRef'
        PROVE  /\ openedAt'[f] \in Seq(Block)
               /\ Begins(openedAt'[f], disk[f].blocks)
               /\ IndexIs(openedAt'[f], fileRef'[f])
    <3>1. CASE f \in DOMAIN fileRef
      BY <1>2, <1>6, <3>1 DEF Indexed
    <3>2. CASE f \in fresh
      BY <1>4, <1>7, <3>2
    <3> QED BY <1>5, <3>1, <3>2
  <2> QED BY <2>1, <2>2 DEF Indexed
<1>9. \A t : Loads(fileRef', t) = Loads(fileRef, t)
  <2> SUFFICES ASSUME NEW t PROVE Loads(fileRef', t) = Loads(fileRef, t)
    OBVIOUS
  <2>1. \A f \in fresh : f \notin Loads(fileRef', t)
    BY <1>4, <1>7 DEF Loads
  <2>2. \A f \in DOMAIN fileRef : f \in Loads(fileRef', t) <=> f \in Loads(fileRef, t)
    BY <1>5, <1>6 DEF Loads
  <2>3. Loads(fileRef', t) \subseteq DOMAIN fileRef \cup fresh /\ Loads(fileRef, t) \subseteq DOMAIN fileRef
    BY <1>5 DEF Loads
  <2> QED BY <2>1, <2>2, <2>3
<1>10. S \subseteq Signals
  <2>1. ASSUME NEW f \in fresh, NEW s \in DOMAIN Index(f) PROVE s \in Signals
    <3>1. s \in SignalsOf(B(f)) /\ B(f) \in Seq(Block)
      BY <1>4 DEF IndexIs
    <3>2. PICK k \in 1 .. Len(B(f)) : s \in DOMAIN B(f)[k]
      BY <3>1, LenProperties DEF SignalsOf
    <3>3. B(f)[k] \in Block
      BY <3>1, <3>2, ElementOfSeq
    <3> QED BY <3>2, <3>3, BlockIs
  <2> QED BY <2>1
<1>11. /\ DOMAIN signals' = DOMAIN signals \cup S
       /\ \A s \in S : s \notin DOMAIN signals => signals'[s] = NewSignal(TRUE)
       /\ \A s \in DOMAIN signals :
            signals'[s] = IF s \in S THEN [signals[s] EXCEPT !.isActive = TRUE] ELSE signals[s]
  <2> HIDE DEF S
  <2>1. signals' = [s \in DOMAIN signals \cup S |->
                      IF s \notin DOMAIN signals THEN NewSignal(TRUE)
                      ELSE IF s \in S THEN [signals[s] EXCEPT !.isActive = TRUE] ELSE signals[s]]
    BY <1>1 DEF WithSignals
  <2> QED BY <2>1
<1>12. ASSUME NEW s \in DOMAIN signals
       PROVE  /\ Buffered(signals'[s]) /\ signals'[s].data = signals[s].data
              /\ signals'[s].isActive = (signals[s].isActive \/ s \in S)
  <2> HIDE DEF S
  <2>1. Buffered(signals[s]) /\ signals[s] \in SignalType
    BY <1>2 DEF Read, Buffered
  <2>2. CASE s \in S
    <3>1. signals'[s] = [signals[s] EXCEPT !.isActive = TRUE]
      BY <1>11, <2>2
    <3>2. /\ signals'[s] \in SignalType /\ signals'[s].isActive = TRUE
          /\ signals'[s].data = signals[s].data /\ signals'[s].value = signals[s].value
          /\ signals'[s].min = signals[s].min /\ signals'[s].max = signals[s].max
      BY <2>1, <3>1 DEF SignalType
    <3>3. Buffered(signals'[s])
      BY <2>1, <3>2 DEF Buffered
    <3> QED BY <2>2, <3>2, <3>3
  <2>3. CASE s \notin S
    <3>1. signals'[s] = signals[s] /\ signals[s].isActive \in BOOLEAN
      BY <1>11, <2>1, <2>3 DEF SignalType
    <3> QED BY <2>1, <2>3, <3>1
  <2> QED BY <2>2, <2>3
<1>13. AllActive(fileRef', signals')
  <2>1. ASSUME NEW f \in DOMAIN fileRef', NEW s \in DOMAIN fileRef'[f]
        PROVE  s \in DOMAIN signals' /\ signals'[s].isActive
    <3>1. CASE f \in DOMAIN fileRef
      <4>1. s \in DOMAIN signals /\ signals[s].isActive
        BY <1>2, <1>6, <2>1, <3>1 DEF AllActive
      <4> HIDE DEF S
      <4> QED BY <1>11, <1>12, <4>1
    <3>2. CASE f \in fresh
      <4>1. s \in S
        BY <1>7, <2>1, <3>2
      <4> HIDE DEF S
      <4>2. CASE s \in DOMAIN signals
        BY <1>11, <1>12, <4>1, <4>2
      <4>3. CASE s \notin DOMAIN signals
        BY <1>11, <4>1, <4>3, NewIs
      <4> QED BY <4>2, <4>3
    <3> QED BY <1>5, <3>1, <3>2
  <2> QED BY <2>1 DEF AllActive
<1>14. Read(fileRef', openedAt', signals')
  <2>1. DOMAIN signals' \subseteq Signals
    <3> HIDE DEF S
    <3> QED BY <1>2, <1>10, <1>11 DEF Read
  <2>2. ASSUME NEW s \in DOMAIN signals'
        PROVE  /\ Buffered(signals'[s])
               /\ Enum(signals'[s].data, Spots(openedAt', Loads(fileRef', s), s), At(openedAt', s))
    <3> HIDE DEF S
    <3>1. CASE s \in DOMAIN signals
      <4> DEFINE P == Spots(openedAt, Loads(fileRef, s), s)
      <4>1. Enum(signals[s].data, P, At(openedAt, s))
        BY <1>2, <3>1 DEF Read
      <4>2. Spots(openedAt', Loads(fileRef', s), s) = P
        <5>1. Loads(fileRef, s) \subseteq DOMAIN fileRef
          BY DEF Loads
        <5>2. \A f \in Loads(fileRef, s) : Where(f, openedAt'[f], s) = Where(f, openedAt[f], s)
          BY <1>6, <5>1
        <5> QED BY <1>9, <5>2 DEF Spots
      <4>3. ASSUME NEW x \in P PROVE At(openedAt, s)[x] = At(openedAt', s)[x]
        <5>1. PICK f \in Loads(fileRef, s) : x \in Where(f, openedAt[f], s)
          BY DEF Spots
        <5>2. f \in DOMAIN fileRef /\ f \in Files /\ openedAt[f] \in Seq(Block)
          BY <1>2 DEF Loads, Indexed
        <5>3. PICK k \in 1 .. Len(openedAt[f]) : x \in Part(f, openedAt[f], s, k)
          BY <5>1 DEF Where
        <5>4. s \in DOMAIN openedAt[f][k] /\ \E i \in 1 .. Len(openedAt[f][k][s]) : x = <<f, k, i>>
          BY <5>3 DEF Part
        <5>5. PICK i \in 1 .. Len(openedAt[f][k][s]) : x = <<f, k, i>>
          BY <5>4
        <5>6. openedAt'[f] = openedAt[f]
          BY <1>6, <5>2
        <5>7. At(openedAt, s)[<<f, k, i>>] = openedAt[f][k][s][i] + Shift[f]
          BY <5>2, <5>4, AtIs
        <5>8. k \in 1 .. Len(openedAt'[f]) /\ s \in DOMAIN openedAt'[f][k] /\ i \in 1 .. Len(openedAt'[f][k][s])
              /\ openedAt'[f] \in Seq(Block)
          BY <5>2, <5>4, <5>6
        <5>9. At(openedAt', s)[<<f, k, i>>] = openedAt'[f][k][s][i] + Shift[f]
          BY <5>2, <5>8, AtIs
        <5> QED BY <5>5, <5>6, <5>7, <5>9
      <4> HIDE DEF P
      <4>4. Enum(signals[s].data, P, At(openedAt', s))
        BY <4>1, <4>3, EnumSame
      <4> QED BY <1>12, <3>1, <4>2, <4>4
    <3>2. CASE s \notin DOMAIN signals
      <4>1. signals'[s] = NewSignal(TRUE)
        BY <1>11, <2>2, <3>2
      <4>2. Loads(fileRef, s) = {}
        BY <1>2, <3>2 DEF Loads, AllActive
      <4>3. Spots(openedAt', Loads(fileRef', s), s) = {}
        BY <1>9, <4>2 DEF Spots
      <4> QED BY <4>1, <4>3, NewIs, NothingListed
    <3> QED BY <3>1, <3>2
  <2> QED BY <2>1, <2>2 DEF Read
<1> QED BY <1>1, <1>2, <1>8, <1>13, <1>14 DEF ViewerInv

\* The monitor adds blocks; what a file held before is still there.
LEMMA MonitorOK ==
  ASSUME ViewerInv, UNCHANGED <<fileRef, signals, openedAt, answer>>, DiskIs(disk', now'),
         \A f \in Files : /\ Len(disk[f].blocks) <= Len(disk'[f].blocks)
                          /\ \A k \in 1 .. Len(disk[f].blocks) : disk'[f].blocks[k] = disk[f].blocks[k]
  PROVE  ViewerInv'
<1>1. ASSUME NEW f \in DOMAIN fileRef PROVE Begins(openedAt[f], disk'[f].blocks)
  <2>1. f \in Files /\ Begins(openedAt[f], disk[f].blocks) /\ openedAt[f] \in Seq(Block)
    BY DEF ViewerInv, Indexed
  <2>2. disk[f].blocks \in Seq(Block) /\ disk'[f].blocks \in Seq(Block)
    BY <2>1 DEF ViewerInv, DiskIs
  <2>3. Len(openedAt[f]) \in Nat /\ Len(disk[f].blocks) \in Nat /\ Len(disk'[f].blocks) \in Nat
    BY <2>1, <2>2, LenProperties
  <2>4. Len(openedAt[f]) <= Len(disk'[f].blocks)
    BY <2>1, <2>3 DEF Begins
  <2>5. \A k \in 1 .. Len(openedAt[f]) : k \in 1 .. Len(disk[f].blocks)
    BY <2>1, <2>3 DEF Begins
  <2>6. \A k \in 1 .. Len(openedAt[f]) : openedAt[f][k] = disk'[f].blocks[k]
    BY <2>1, <2>5 DEF Begins
  <2> QED BY <2>4, <2>6 DEF Begins
<1>2. Indexed(disk', fileRef, openedAt)
  BY <1>1 DEF ViewerInv, Indexed
<1> QED BY <1>2 DEF ViewerInv

LEMMA SaveBeginOK ==
  ASSUME ViewerInv, NEW f \in Files, NEW S \in SUBSET Signals, NEW n \in 1 .. MaxRecs,
         NEW step \in Steps, SaveBegin(f, S, n, step)
  PROVE  ViewerInv'
<1> DEFINE b == [s \in S |-> [i \in 1 .. n |-> now + i * step]]
           q == [i \in 1 .. n |-> now + i * step]
<1>1. /\ now' = now + n * step /\ disk' = [disk EXCEPT ![f].torn = b]
      /\ UNCHANGED <<fileRef, signals, openedAt, answer>>
  BY DEF SaveBegin
<1>2. DiskIs(disk, now)
  BY DEF ViewerInv
<1>3. now \in Nat /\ now >= FirstTime /\ n \in Nat \ {0} /\ step \in Nat
  BY <1>2, ViewerAssumption DEF DiskIs
<1>4. \A i \in Nat : i * step \in Nat
  BY <1>3
<1>5. q \in Times
  <2>1. \A i \in 1 .. n : now + i * step \in Nat /\ now + i * step >= FirstTime
    BY <1>3, <1>4 DEF FirstTime
  <2>2. q \in [1 .. n -> Nat] /\ \A i \in 1 .. n : q[i] >= FirstTime
    BY <2>1
  <2> HIDE DEF q
  <2>3. q \in Seq(Nat) /\ Len(q) = n
    BY <1>3, <2>2
  <2>4. q # <<>>
    BY <1>3, <2>3, EmptySeq
  <2> QED BY <2>2, <2>3, <2>4 DEF Times
<1>6. b \in Block
  <2>1. b = [s \in S |-> q]
    OBVIOUS
  <2> HIDE DEF b, q
  <2>2. b \in [S -> Times]
    BY <1>5, <2>1
  <2> QED BY <2>2 DEF Block
<1> HIDE DEF b, q
<1>7. now' \in Nat /\ now' >= FirstTime
  <2>1. n * step \in Nat
    BY <1>3, <1>4
  <2> QED BY <1>1, <1>3, <2>1 DEF FirstTime
<1>8. /\ disk' \in [Files -> [blocks : Seq(Block), torn : Block, inReach : BOOLEAN]]
      /\ \A g \in Files : disk'[g].blocks = disk[g].blocks
  BY <1>1, <1>2, <1>6 DEF DiskIs
<1>9. \A g \in Files : Len(disk[g].blocks) \in Nat
  BY <1>2, LenProperties DEF DiskIs
<1>10. \A g \in Files : Len(disk[g].blocks) <= Len(disk'[g].blocks)
  BY <1>8, <1>9
<1>11. DiskIs(disk', now')
  BY <1>7, <1>8 DEF DiskIs
<1> QED BY <1>1, <1>8, <1>10, <1>11, MonitorOK

LEMMA SaveEndOK ==
  ASSUME ViewerInv, NEW f \in Files, SaveEnd(f)
  PROVE  ViewerInv'
<1>1. /\ disk' = [disk EXCEPT ![f].blocks = Append(disk[f].blocks, disk[f].torn), ![f].torn = NoBlock]
      /\ UNCHANGED <<now, fileRef, signals, openedAt, answer>>
  <2>1. disk' = [disk EXCEPT ![f].blocks = Append(@, disk[f].torn), ![f].torn = NoBlock]
    BY DEF SaveEnd
  <2> QED BY <2>1 DEF SaveEnd
<1>2. DiskIs(disk, now)
  BY DEF ViewerInv
<1>3. NoBlock \in Block
  <2>1. NoBlock \in [{} -> Times] /\ {} \in SUBSET Signals
    BY DEF NoBlock
  <2> QED BY <2>1 DEF Block
<1>4. \A g \in Files : disk[g].blocks \in Seq(Block) /\ Len(disk[g].blocks) \in Nat /\ disk[g].torn \in Block
  BY <1>2, LenProperties DEF DiskIs
<1> DEFINE more == Append(disk[f].blocks, disk[f].torn)
<1>5. /\ more \in Seq(Block) /\ Len(more) = Len(disk[f].blocks) + 1
      /\ \A k \in 1 .. Len(disk[f].blocks) : more[k] = disk[f].blocks[k]
  BY <1>4, AppendProperties
<1> HIDE DEF more, NoBlock
<1>6. /\ disk' \in [Files -> [blocks : Seq(Block), torn : Block, inReach : BOOLEAN]]
      /\ \A g \in Files : disk'[g].blocks = IF g = f THEN more ELSE disk[g].blocks
  BY <1>1, <1>2, <1>3, <1>5 DEF DiskIs, more
<1>7. \A g \in Files : /\ Len(disk[g].blocks) <= Len(disk'[g].blocks)
                       /\ \A k \in 1 .. Len(disk[g].blocks) : disk'[g].blocks[k] = disk[g].blocks[k]
  BY <1>4, <1>5, <1>6
<1>8. DiskIs(disk', now')
  BY <1>1, <1>2, <1>6 DEF DiskIs
<1> QED BY <1>1, <1>7, <1>8, MonitorOK

LEMMA ReachOK ==
  ASSUME ViewerInv, NEW f \in Files, Reach(f)
  PROVE  ViewerInv'
<1>1. /\ disk' = [disk EXCEPT ![f].inReach = ~disk[f].inReach]
      /\ UNCHANGED <<now, fileRef, signals, openedAt, answer>>
  <2>1. disk' = [disk EXCEPT ![f].inReach = ~@]
    BY DEF Reach
  <2> QED BY <2>1 DEF Reach
<1>2. DiskIs(disk, now)
  BY DEF ViewerInv
<1>3. /\ disk' \in [Files -> [blocks : Seq(Block), torn : Block, inReach : BOOLEAN]]
      /\ \A g \in Files : disk'[g].blocks = disk[g].blocks
  BY <1>1, <1>2 DEF DiskIs
<1>4. \A g \in Files : Len(disk[g].blocks) \in Nat
  BY <1>2, LenProperties DEF DiskIs
<1>5. \A g \in Files : Len(disk[g].blocks) <= Len(disk'[g].blocks)
  BY <1>3, <1>4
<1>6. DiskIs(disk', now')
  BY <1>1, <1>2, <1>3 DEF DiskIs
<1> QED BY <1>1, <1>3, <1>5, <1>6, MonitorOK

LEMMA ViewerNextOK ==
  ASSUME ViewerInv, [ViewerNext]_viewerVars
  PROVE  ViewerInv'
<1>1. CASE UNCHANGED viewerVars
  BY <1>1 DEF viewerVars, ViewerInv
<1>2. CASE ViewerNext
  <2>1. ASSUME NEW chosen \in (SUBSET Files) \ {{}}, OpenData(chosen) PROVE ViewerInv'
    BY <2>1, OpenOK
  <2>2. ASSUME NEW s \in Signals, LoadSignalData(s) PROVE ViewerInv'
    BY <2>2, LoadOK
  <2>3. ASSUME NEW f \in Files \ OtherSizes, NEW S \in (SUBSET Signals) \ {{}},
               NEW n \in 1 .. MaxRecs, NEW step \in Steps, SaveBegin(f, S, n, step)
        PROVE  ViewerInv'
    BY <2>3, SaveBeginOK
  <2>4. ASSUME NEW f \in Files \ OtherSizes, SaveEnd(f) PROVE ViewerInv'
    BY <2>4, SaveEndOK
  <2>5. ASSUME NEW f \in Files \ OtherSizes, Reach(f) PROVE ViewerInv'
    BY <2>5, ReachOK
  <2> QED BY <1>2, <2>1, <2>2, <2>3, <2>4, <2>5 DEF ViewerNext
<1> QED BY <1>1, <1>2

-----------------------------------------------------------------------------
(* The theorems of the loaded data.                                        *)

\* A file's blocks, the index of an opened file and the buffer of a signal
\* agree, however opening, loading and the monitor's saves interleave.
THEOREM ViewerInvariance == ViewerSpec => []ViewerInv
<1>1. ViewerInit => ViewerInv
  BY ViewerInitOK
<1>2. ViewerInv /\ [ViewerNext]_viewerVars => ViewerInv'
  BY ViewerNextOK
<1> QED BY <1>1, <1>2, PTL DEF ViewerSpec

LEMMA ViewerTypes ==
  ASSUME ViewerInv
  PROVE  ViewerTypeOK
<1>1. /\ DiskIs(disk, now) /\ Indexed(disk, fileRef, openedAt)
      /\ AllActive(fileRef, signals) /\ Read(fileRef, openedAt, signals)
      /\ answer \in [Signals -> BOOLEAN]
  BY DEF ViewerInv
<1>2. Known \subseteq Signals
  BY <1>1 DEF Known, Read
<1>3. Opened \subseteq Files /\ DOMAIN openedAt = Opened
  BY <1>1 DEF Opened, Indexed
<1>4. ASSUME NEW f \in Opened, NEW s \in DOMAIN fileRef[f]
      PROVE  /\ s \in Known /\ signals[s].isActive
             /\ fileRef[f][s].vlsCnt \in Nat \ {0}
  <2>1. s \in Known /\ signals[s].isActive
    BY <1>1 DEF AllActive, Opened, Known
  <2> DEFINE B == openedAt[f]
             R == Recorded(B, InOf(B, s), s)
             w == [x \in Where(f, B, s) |-> B[x[2]][s][x[3]]]
  <2>2. B \in Seq(Block) /\ s \in SignalsOf(B) /\ fileRef[f][s] \in Entry(B, s)
    BY <1>1 DEF Indexed, IndexIs, Opened
  <2>3. fileRef[f][s].vlsCnt = Len(R)
    BY <2>2 DEF Entry
  <2> HIDE DEF B
  <2>4. ASSUME NEW k \in 1 .. Len(B), s \in DOMAIN B[k], NEW i \in 1 .. Len(B[k][s])
        PROVE  w[<<f, k, i>>] = B[k][s][i]
    <3>1. <<f, k, i>> \in Part(f, B, s, k)
      BY <2>4 DEF Part
    <3>2. <<f, k, i>> \in Where(f, B, s)
      BY <3>1 DEF Where
    <3> QED BY <3>2
  <2> HIDE DEF w
  <2>5. Enum(R, Where(f, B, s), w)
    BY <2>2, <2>4, RecordedListed
  <2>6. PICK x : x \in Where(f, B, s)
    BY <2>2, WhereHas
  <2> HIDE DEF R
  <2>7. Len(R) \in Nat \ {0}
    BY <2>5, <2>6, EnumHas
  <2> QED BY <2>1, <2>3, <2>7
<1>5. ASSUME NEW s \in Known
      PROVE  /\ signals[s].data \in Seq(Nat)
             /\ signals[s].begin = 0
             /\ signals[s].value \in 0 .. (IF signals[s].data = <<>> THEN 0 ELSE Len(signals[s].data) - 1)
  <2>1. Buffered(signals[s])
    BY <1>1 DEF Read, Known
  <2>2. signals[s].data \in Seq(Nat) /\ signals[s].begin = 0
    BY <2>1 DEF Buffered, SignalType
  <2>3. CASE signals[s].data = <<>>
    BY <2>1, <2>2, <2>3 DEF Buffered
  <2>4. CASE signals[s].data # <<>>
    <3>1. Len(signals[s].data) \in Nat \ {0}
      BY <2>2, <2>4, EmptySeq
    <3> QED BY <2>1, <2>2, <2>4, <3>1 DEF Buffered
  <2> QED BY <2>3, <2>4
<1> QED BY <1>1, <1>2, <1>3, <1>4, <1>5 DEF ViewerTypeOK

\* Only known signals are in an index, and active; there are records for every
\* signal of an index; the last place of a buffer is within it.
THEOREM ViewerTypeCorrect == ViewerSpec => []ViewerTypeOK
<1>1. ViewerInv => ViewerTypeOK
  BY ViewerTypes
<1> QED BY <1>1, ViewerInvariance, PTL

LEMMA BufferIsHeld ==
  ASSUME ViewerInv, NEW s \in DOMAIN signals, NEW fs, fs \subseteq Opened,
         Spots(openedAt, fs, s) = Spots(openedAt, Loads(fileRef, s), s)
  PROVE  signals[s].data = HeldBy(fs, s)
<1>1. /\ signals[s].data \in Seq(Nat) /\ Ascending(signals[s].data)
      /\ Enum(signals[s].data, Spots(openedAt, fs, s), At(openedAt, s))
  BY DEF ViewerInv, Read, Buffered, SignalType
<1>2. /\ HeldBy(fs, s) \in Seq(Nat) /\ Ascending(HeldBy(fs, s))
      /\ Enum(HeldBy(fs, s), Spots(openedAt, fs, s), At(openedAt, s))
  BY HeldByIs DEF ViewerInv
<1>3. signals[s].data \in Seq(Int) /\ HeldBy(fs, s) \in Seq(Int)
  BY <1>1, <1>2, SeqMonotonic
<1> QED BY <1>1, <1>2, <1>3, OneOrder

\* The buffer of a signal is, in the order of time, what the files loaded for
\* it held when they were opened: no record is there twice, and none is lost,
\* whatever the monitor adds to a file and however often a load is asked for.
THEOREM RecordsAreLoadedOnce == ViewerSpec => []LoadedOnce
<1>1. ViewerInv => LoadedOnce
  <2> SUFFICES ASSUME ViewerInv, NEW s \in Known
               PROVE  signals[s].data =
                        HeldBy({f \in Opened : s \in DOMAIN fileRef[f] /\ fileRef[f][s].isLoad}, s)
    BY DEF LoadedOnce
  <2> DEFINE L == {f \in Opened : s \in DOMAIN fileRef[f] /\ fileRef[f][s].isLoad}
  <2>1. L = Loads(fileRef, s) /\ L \subseteq Opened
    BY DEF Loads, Opened
  <2> HIDE DEF L
  <2>2. signals[s].data = HeldBy(L, s)
    BY <2>1, BufferIsHeld DEF Known
  <2> QED BY <2>2 DEF L
<1> QED BY <1>1, ViewerInvariance, PTL

LEMMA TrueLoad ==
  ASSUME ViewerInv, ViewerInv', NEW s \in Signals, LoadSignalData(s), answer'[s]
  PROVE  signals'[s].data = HeldBy(Opened, s)
<1> DEFINE found == ToLoad(s)
           read == {f \in found : disk[f].inReach}
<1>1. /\ s \in DOMAIN signals
      /\ fileRef' = [f \in DOMAIN fileRef |->
                       IF f \in read THEN [fileRef[f] EXCEPT ![s].isLoad = TRUE] ELSE fileRef[f]]
      /\ openedAt' = openedAt
      /\ signals' = [signals EXCEPT ![s] =
           LET queue == SetToSeq(read)
               more  == FlattenSeq([i \in DOMAIN queue |-> FromFile(queue[i], s)])
           IN  IF read = {} THEN signals[s] ELSE Loaded(signals[s], more)]
  BY DEF LoadSignalData, Known, Opened
<1>2. AllRead(found)
  <2>1. PICK ok \in BOOLEAN : answer' = [answer EXCEPT ![s] = AllRead(found) /\ ok]
    BY DEF LoadSignalData
  <2>2. answer \in [Signals -> BOOLEAN]
    BY DEF ViewerInv
  <2> HIDE DEF found
  <2> QED BY <2>1, <2>2
<1>3. read = found
  BY <1>2 DEF AllRead
<1>4. DOMAIN fileRef' = DOMAIN fileRef /\ s \in DOMAIN signals'
  BY <1>1
<1>5. ASSUME NEW f \in DOMAIN fileRef, s \in DOMAIN fileRef[f]
      PROVE  f \in Loads(fileRef', s)
  <2>1. fileRef[f][s] \in Entry(openedAt[f], s)
    BY <1>5 DEF ViewerInv, Indexed, IndexIs
  <2>2. CASE f \in found
    <3>1. fileRef'[f] = [fileRef[f] EXCEPT ![s].isLoad = TRUE]
      BY <1>1, <1>3, <2>2
    <3>2. s \in DOMAIN fileRef'[f] /\ fileRef'[f][s] = [fileRef[f][s] EXCEPT !.isLoad = TRUE]
      BY <1>5, <3>1
    <3>3. fileRef'[f][s].isLoad = TRUE
      BY <2>1, <3>2 DEF Entry
    <3> QED BY <1>4, <1>5, <3>2, <3>3 DEF Loads
  <2>3. CASE f \notin found
    <3>1. fileRef[f][s].isLoad
      BY <1>5, <2>3 DEF ToLoad, Opened
    <3>2. fileRef'[f] = fileRef[f]
      BY <1>1, <1>3, <1>5, <2>3
    <3> QED BY <1>4, <1>5, <3>1, <3>2 DEF Loads
  <2> QED BY <2>2, <2>3
<1>6. Spots(openedAt, Opened, s) = Spots(openedAt, Loads(fileRef', s), s)
  <2>1. \A f \in Loads(fileRef', s) : f \in Opened
    BY <1>4 DEF Loads, Opened
  <2>2. ASSUME NEW f \in Opened, NEW x \in Where(f, openedAt[f], s)
        PROVE  f \in Loads(fileRef', s)
    <3>1. PICK k \in 1 .. Len(openedAt[f]) : s \in DOMAIN openedAt[f][k]
      BY DEF Where, Part
    <3>2. openedAt[f] \in Seq(Block) /\ DOMAIN fileRef[f] = SignalsOf(openedAt[f]) /\ f \in DOMAIN fileRef
      BY DEF ViewerInv, Indexed, IndexIs, Opened
    <3>3. s \in DOMAIN fileRef[f]
      BY <3>1, <3>2, LenProperties DEF SignalsOf
    <3> QED BY <1>5, <3>2, <3>3
  <2>3. ASSUME NEW x \in Spots(openedAt, Opened, s) PROVE x \in Spots(openedAt, Loads(fileRef', s), s)
    <3>1. PICK f \in Opened : x \in Where(f, openedAt[f], s)
      BY DEF Spots
    <3>2. f \in Loads(fileRef', s)
      BY <2>2, <3>1
    <3> QED BY <3>1, <3>2 DEF Spots
  <2>4. ASSUME NEW x \in Spots(openedAt, Loads(fileRef', s), s) PROVE x \in Spots(openedAt, Opened, s)
    BY <2>1 DEF Spots
  <2> QED BY <2>3, <2>4
<1>7. /\ signals'[s].data \in Seq(Nat) /\ Ascending(signals'[s].data)
      /\ Enum(signals'[s].data, Spots(openedAt, Opened, s), At(openedAt, s))
  <2>1. Read(fileRef', openedAt', signals')
    BY DEF ViewerInv
  <2>2. /\ Buffered(signals'[s])
        /\ Enum(signals'[s].data, Spots(openedAt', Loads(fileRef', s), s), At(openedAt', s))
    BY <1>4, <2>1 DEF Read
  <2> QED BY <1>1, <1>6, <2>2 DEF Buffered, SignalType
<1>8. /\ HeldBy(Opened, s) \in Seq(Nat) /\ Ascending(HeldBy(Opened, s))
      /\ Enum(HeldBy(Opened, s), Spots(openedAt, Opened, s), At(openedAt, s))
  BY HeldByIs DEF ViewerInv
<1>9. signals'[s].data \in Seq(Int) /\ HeldBy(Opened, s) \in Seq(Int)
  BY <1>7, <1>8, SeqMonotonic
<1> QED BY <1>7, <1>8, <1>9, OneOrder

\* A load that returns true has left nothing out of what the opened files held
\* of the signal, also after some of them were out of reach.
THEOREM TrueLoadsAll == ViewerSpec => TrueIsAll
<1>1. ViewerInv /\ ViewerInv' /\ [ViewerNext]_viewerVars =>
        [\A s \in Signals :
           (LoadSignalData(s) /\ answer'[s]) => signals'[s].data = HeldBy(Opened, s)]_viewerVars
  BY TrueLoad
<1> QED BY <1>1, ViewerInvariance, PTL DEF ViewerSpec, TrueIsAll

-----------------------------------------------------------------------------
(* The readers of a loaded buffer.                                         *)

\* What a remainder is, below the divisor and one turn above it.
LEMMA Remainders ==
  /\ \A a \in Nat, b \in Nat \ {0} : a < b => a % b = a
  /\ \A a \in Nat, b \in Nat \ {0} : b <= a /\ a < 2 * b => a % b = a - b
<1>1. \A a, r, k \in Int, b \in Nat \ {0} : 0 <= r /\ r < b /\ a = k * b + r => r = a % b
  OBVIOUS
<1>2. \A b \in Nat \ {0} : 0 * b = 0 /\ 1 * b = b
  OBVIOUS
<1>3. ASSUME NEW a \in Nat, NEW b \in Nat \ {0}, a < b
      PROVE  a % b = a
  <2>1. a = 0 * b + a
    BY <1>2
  <2> QED BY <1>1, <1>3, <2>1
<1>4. ASSUME NEW a \in Nat, NEW b \in Nat \ {0}, b <= a, a < 2 * b
      PROVE  a % b = a - b
  <2>1. PICK r \in Int : r = a - b
    OBVIOUS
  <2>2. a = 1 * b + r /\ 0 <= r /\ r < b
    BY <1>2, <1>4, <2>1
  <2>3. 1 \in Int /\ a \in Int
    OBVIOUS
  <2>4. r = a % b
    BY <1>1, <2>2, <2>3, Zenon
  <2> QED BY <2>1, <2>4
<1> QED BY <1>3, <1>4

\* The n records of a loaded buffer, from place 0 on.
LEMMA ViewFacts ==
  ASSUME NEW sd, Buffered(sd), sd.data # <<>>, NEW n, n = Size(sd)
  PROVE  /\ n \in Nat \ {0} /\ DOMAIN sd.data = 1 .. n
         /\ Places(sd) = 0 .. n - 1
         /\ \A p \in 0 .. n - 1 : Time(sd, p) \in Nat
         /\ \A p, r \in 0 .. n - 1 : p <= r => Time(sd, p) <= Time(sd, r)
         /\ sd.begin = 0 /\ sd.value = n - 1
         /\ sd.min = Time(sd, 0) /\ sd.max = Time(sd, n - 1) + Cycle
         /\ sd.min \in Nat /\ sd.max \in Nat /\ Cycle \in Nat \ {0}
<1>1. sd \in SignalType /\ Ascending(sd.data) /\ sd.data \in Seq(Nat)
  BY DEF Buffered, SignalType
<1>2. n = Len(sd.data) /\ n \in Nat \ {0} /\ DOMAIN sd.data = 1 .. n
  BY <1>1, EmptySeq, LenProperties DEF Size
<1>3. \A p \in 0 .. n - 1 : p + 1 \in 1 .. Len(sd.data)
  BY <1>2
<1>4. \A p \in 0 .. n - 1 : Time(sd, p) \in Nat
  BY <1>1, <1>3, ElementOfSeq DEF Time
<1>5. \A p, r \in 0 .. n - 1 : p <= r => Time(sd, p) <= Time(sd, r)
  BY <1>1, <1>3 DEF Time, Ascending
<1>6. sd.begin = 0 /\ sd.min \in Nat /\ sd.max \in Nat
  BY <1>1 DEF SignalType
<1>7. sd.value = n - 1 /\ sd.min = sd.data[1] /\ sd.max = sd.data[n] + Cycle
  BY <1>2 DEF Buffered
<1>8. Time(sd, 0) = sd.data[1] /\ Time(sd, n - 1) = sd.data[n]
  BY <1>2 DEF Time
<1> QED BY <1>2, <1>4, <1>5, <1>6, <1>7, <1>8, ViewerAssumption DEF Places

\* The first of n places whose time is past the window; 0 if there is none.
FirstPast(u, n, hi, past) ==
  \/ past = 0 /\ \A i \in 1 .. n : u[i] < hi
  \/ past \in 1 .. n /\ u[past] >= hi /\ \A i \in 1 .. past - 1 : u[i] < hi

LEMMA FirstPastIs ==
  ASSUME NEW n \in Nat, NEW u, \A i \in 1 .. n : u[i] \in Int, NEW hi \in Int,
         NEW I, I = {i \in 1 .. n : u[i] >= hi}
  PROVE  FirstPast(u, n, hi, IF I # {} THEN Min(I) ELSE 0)
<1> DEFINE past == IF I # {} THEN Min(I) ELSE 0
<1>1. CASE I = {}
  <2>1. past = 0
    BY <1>1
  <2>2. ASSUME NEW i \in 1 .. n PROVE u[i] < hi
    <3>1. u[i] \in Int /\ i \notin I
      BY <1>1
    <3> QED BY <3>1
  <2> HIDE DEF past
  <2> QED BY <2>1, <2>2 DEF FirstPast
<1>2. CASE I # {}
  <2>1. past \in I /\ \A y \in I : past <= y
    <3>1. I \subseteq Nat /\ past = Min(I)
      BY <1>2
    <3> QED BY <1>2, <3>1, MinIs
  <2> HIDE DEF past
  <2>2. past \in 1 .. n /\ u[past] >= hi
    BY <2>1
  <2>3. ASSUME NEW i \in 1 .. past - 1 PROVE u[i] < hi
    <3>1. i \in 1 .. n /\ ~ past <= i
      BY <2>2
    <3>2. i \notin I
      BY <2>1, <3>1
    <3>3. u[i] \in Int
      BY <3>1
    <3> QED BY <3>1, <3>2, <3>3
  <2> QED BY <2>2, <2>3 DEF FirstPast, past
<1> QED BY <1>1, <1>2

Rising(u, n) ==
  /\ \A i \in 1 .. n : u[i] \in Int
  /\ \A i, j \in 1 .. n : i <= j => u[i] <= u[j]

CutAt(way, past) == IF past = 0 THEN way ELSE SubSeq(way, 1, past - 1)

\* Of places in the order of time, those before the first past the window.
LEMMA CutIs ==
  ASSUME NEW way \in Seq(Nat), NEW n, n = Len(way), NEW u, Rising(u, n), NEW hi \in Int,
         NEW past, FirstPast(u, n, hi, past)
  PROVE  /\ CutAt(way, past) \in Seq(Nat)
         /\ \A x : x \in Range(CutAt(way, past)) <=> \E i \in 1 .. n : u[i] < hi /\ x = way[i]
<1> DEFINE cut == CutAt(way, past)
<1>0. cut = IF past = 0 THEN way ELSE SubSeq(way, 1, past - 1)
  BY DEF CutAt
<1> HIDE DEF cut
<1>1. /\ n \in Nat /\ DOMAIN way = 1 .. n /\ \A i \in 1 .. n : way[i] \in Nat
      /\ \A i \in 1 .. n : u[i] \in Int
      /\ \A i, j \in 1 .. n : i <= j => u[i] <= u[j]
  BY LenProperties, ElementOfSeq DEF Rising
<1>2. CASE past = 0
  <2>1. cut = way /\ \A i \in 1 .. n : u[i] < hi
    BY <1>0, <1>2 DEF FirstPast
  <2>2. \A x : x \in Range(way) <=> \E i \in 1 .. n : x = way[i]
    BY <1>1 DEF Range
  <2>3. \A x : x \in Range(cut) <=> \E i \in 1 .. n : u[i] < hi /\ x = way[i]
    BY <2>1, <2>2
  <2> QED BY <2>1, <2>3 DEF cut
<1>3. CASE past # 0
  <2>1. past \in 1 .. n /\ u[past] >= hi /\ \A i \in 1 .. past - 1 : u[i] < hi
    BY <1>3 DEF FirstPast
  <2>2. ASSUME NEW i \in 1 .. n PROVE u[i] < hi <=> i \in 1 .. past - 1
    <3>1. ASSUME ~ i < past PROVE ~ u[i] < hi
      <4>1. u[past] <= u[i] /\ u[past] \in Int /\ u[i] \in Int
        BY <1>1, <2>1, <3>1
      <4> QED BY <2>1, <4>1
    <3>2. i < past <=> i \in 1 .. past - 1
      BY <1>1, <2>1
    <3> QED BY <2>1, <3>1, <3>2
  <2>3. cut = SubSeq(way, 1, past - 1)
    BY <1>0, <1>3
  <2>4. /\ cut \in Seq(Nat) /\ Len(cut) = past - 1
        /\ \A i \in 1 .. past - 1 : cut[i] = way[i]
    <3>1. \A i \in 1 .. past - 1 : way[i] \in Nat /\ 1 + i - 1 = i
      BY <1>1, <2>1
    <3>2. 1 \in Int /\ past - 1 \in Int /\ (past - 1) - 1 + 1 = past - 1
      BY <2>1
    <3>3. /\ SubSeq(way, 1, past - 1) \in Seq(Nat)
          /\ Len(SubSeq(way, 1, past - 1)) = IF 1 <= past - 1 THEN (past - 1) - 1 + 1 ELSE 0
          /\ \A i \in 1 .. (past - 1) - 1 + 1 : SubSeq(way, 1, past - 1)[i] = way[1 + i - 1]
      BY <3>1, <3>2, SubSeqProperties
    <3> QED BY <2>1, <2>3, <3>1, <3>2, <3>3
  <2>5. \A x : x \in Range(cut) <=> \E i \in 1 .. past - 1 : x = cut[i]
    BY <2>4, LenProperties DEF Range
  <2>6. \A i \in 1 .. past - 1 : i \in 1 .. n
    BY <1>1, <2>1
  <2>7. ASSUME NEW x PROVE x \in Range(cut) <=> \E i \in 1 .. n : u[i] < hi /\ x = way[i]
    <3>1. ASSUME x \in Range(cut) PROVE \E i \in 1 .. n : u[i] < hi /\ x = way[i]
      <4>1. PICK i \in 1 .. past - 1 : x = cut[i]
        BY <2>5, <3>1
      <4>2. i \in 1 .. n /\ u[i] < hi /\ x = way[i]
        BY <2>2, <2>4, <2>6, <4>1
      <4> QED BY <4>2
    <3>2. ASSUME NEW i \in 1 .. n, u[i] < hi, x = way[i] PROVE x \in Range(cut)
      <4>1. i \in 1 .. past - 1 /\ x = cut[i]
        BY <2>2, <2>4, <3>2
      <4> QED BY <2>5, <4>1
    <3> QED BY <3>1, <3>2
  <2> QED BY <2>4, <2>7 DEF cut
<1> QED BY <1>2, <1>3

\* Where the line begins: with the last record before the window, if any.
LEMMA StartIs ==
  ASSUME NEW sd, Buffered(sd), sd.data # <<>>, NEW n, n = Size(sd), NEW lo \in Int,
         NEW start, start = SelectBufStart(sd, "viewer", lo)
  PROVE  /\ start \in 0 .. n - 1
         /\ start = 0 \/ Time(sd, start) < lo
         /\ \A p \in 0 .. n - 1 : Time(sd, p) < lo => p <= start
<1>1. /\ n \in Nat \ {0}
      /\ \A p \in 0 .. n - 1 : Time(sd, p) \in Nat
      /\ \A p, r \in 0 .. n - 1 : p <= r => Time(sd, p) <= Time(sd, r)
      /\ sd.begin = 0 /\ sd.min = Time(sd, 0)
  BY ViewFacts
<1>2. start = ViewerStart(sd, lo)
  BY DEF SelectBufStart
<1>3. CASE ~ sd.min < lo
  <2>1. start = 0
    BY <1>1, <1>2, <1>3 DEF ViewerStart
  <2>2. \A p \in 0 .. n - 1 : Time(sd, 0) <= Time(sd, p) /\ Time(sd, p) \in Nat /\ Time(sd, 0) \in Nat
    BY <1>1
  <2> QED BY <1>1, <1>3, <2>1, <2>2
<1>4. CASE sd.min < lo
  <2> DEFINE reached == {p \in 0 .. n - 1 : Time(sd, p) >= lo}
             lower == LowerBound(sd, 0, n, lo)
  <2>1. lower = IF reached = {} THEN n ELSE CHOOSE p \in reached : \A q \in reached : p <= q
    BY DEF LowerBound
  <2>2. /\ lower \in 0 .. n
        /\ \A p \in 0 .. n - 1 : p < lower => Time(sd, p) < lo
        /\ \A p \in 0 .. n - 1 : p >= lower => Time(sd, p) >= lo
    <3>1. CASE reached = {}
      <4>1. lower = n
        BY <2>1, <3>1
      <4>2. \A p \in 0 .. n - 1 : Time(sd, p) < lo /\ p < n
        BY <1>1, <3>1
      <4> HIDE DEF lower
      <4> QED BY <1>1, <4>1, <4>2
    <3>2. CASE reached # {}
      <4>1. lower \in reached /\ \A q \in reached : lower <= q
        <5>1. reached \subseteq Nat
          OBVIOUS
        <5>2. lower = CHOOSE p \in reached : \A q \in reached : p <= q
          BY <2>1, <3>2
        <5> HIDE DEF reached, lower
        <5>3. \E p \in reached : \A q \in reached : p <= q
          BY <3>2, <5>1, Least, Zenon
        <5> QED BY <5>2, <5>3, Zenon
      <4> HIDE DEF lower
      <4>2. lower \in 0 .. n - 1 /\ Time(sd, lower) >= lo
        BY <4>1
      <4>3. ASSUME NEW p \in 0 .. n - 1, p < lower PROVE Time(sd, p) < lo
        <5>1. p \notin reached
          BY <4>1, <4>2, <4>3
        <5>2. Time(sd, p) \in Nat
          BY <1>1
        <5> QED BY <5>1, <5>2
      <4>4. ASSUME NEW p \in 0 .. n - 1, p >= lower PROVE Time(sd, p) >= lo
        <5>1. Time(sd, lower) <= Time(sd, p) /\ Time(sd, p) \in Nat /\ Time(sd, lower) \in Nat
          BY <1>1, <4>2, <4>4
        <5> QED BY <4>2, <5>1
      <4>5. lower \in 0 .. n
        BY <1>1, <4>2
      <4> QED BY <4>3, <4>4, <4>5
    <3> QED BY <3>1, <3>2
  <2>3. start = StepBack(lower, 0)
    BY <1>2, <1>4 DEF ViewerStart
  <2> HIDE DEF lower, reached
  <2>4. lower # 0
    <3>1. 0 \in 0 .. n - 1 /\ Time(sd, 0) \in Nat
      BY <1>1
    <3> QED BY <1>1, <1>4, <2>2, <3>1
  <2>5. start = lower - 1
    BY <2>3, <2>4 DEF StepBack
  <2>6. start \in 0 .. n - 1 /\ Time(sd, start) < lo
    <3>1. lower - 1 \in 0 .. n - 1 /\ lower - 1 < lower
      BY <1>1, <2>2, <2>4
    <3> QED BY <2>2, <2>5, <3>1
  <2>7. ASSUME NEW p \in 0 .. n - 1, Time(sd, p) < lo PROVE p <= start
    <3>1. ~ Time(sd, p) >= lo
      BY <1>1, <2>7
    <3>2. ~ p >= lower
      BY <2>2, <3>1
    <3> QED BY <2>2, <2>5, <3>2
  <2> QED BY <2>6, <2>7
<1> QED BY <1>3, <1>4

\* The records the statistics are made of.
LEMMA StatIs ==
  ASSUME NEW sd, Buffered(sd), sd.data # <<>>, NEW lo \in Int, NEW hi \in Int
  PROVE  Range(StatRecords(sd, TRUE, lo, hi)) = {p \in Places(sd) : Crosses(Time(sd, p), lo, hi)}
<1> DEFINE n == Size(sd)
           S == {p \in 0 .. n - 1 : Crosses(Time(sd, p), lo, hi)}
<1>1. /\ n \in Nat \ {0} /\ Places(sd) = 0 .. n - 1
      /\ \A p \in 0 .. n - 1 : Time(sd, p) \in Nat
      /\ \A p, r \in 0 .. n - 1 : p <= r => Time(sd, p) <= Time(sd, r)
      /\ sd.min = Time(sd, 0) /\ sd.max = Time(sd, n - 1) + Cycle /\ Cycle \in Nat \ {0}
  BY ViewFacts
<1> HIDE DEF n
<1>2. CASE Outside(sd, lo, hi)
  <2>1. StatRecords(sd, TRUE, lo, hi) = <<>>
    BY <1>2 DEF StatRecords
  <2>2. Range(<<>>) = {}
    BY DEF Range
  <2>3. sd.min >= hi \/ sd.max <= lo
    BY <1>2 DEF Outside
  <2>4. ASSUME NEW p \in 0 .. n - 1 PROVE ~ Crosses(Time(sd, p), lo, hi)
    <3>1. /\ Time(sd, 0) <= Time(sd, p) /\ Time(sd, p) <= Time(sd, n - 1)
          /\ Time(sd, 0) \in Nat /\ Time(sd, p) \in Nat /\ Time(sd, n - 1) \in Nat
      BY <1>1
    <3> QED BY <1>1, <2>3, <3>1 DEF Crosses
  <2> QED BY <1>1, <2>1, <2>2, <2>4
<1>3. CASE ~ Outside(sd, lo, hi)
  <2> DEFINE way == [k \in 1 .. n |-> k - 1]
             cut == StatWay(sd, hi)
             u == [k \in 1 .. n |-> Time(sd, k - 1)]
             I == {i \in 1 .. Len(way) : u[i] >= hi}
  <2>1. way \in Seq(Nat) /\ Len(way) = n /\ \A k \in 1 .. n : way[k] = k - 1 /\ k - 1 \in 0 .. n - 1
    <3>1. \A k \in 1 .. n : way[k] = k - 1 /\ k - 1 \in 0 .. n - 1 /\ k - 1 \in Nat
      BY <1>1
    <3>2. way = [k \in 1 .. n |-> way[k]]
      OBVIOUS
    <3> HIDE DEF way
    <3>3. way \in [1 .. n -> Nat]
      BY <3>1, <3>2
    <3>4. way \in Seq(Nat) /\ Len(way) = n
      BY <1>1, <3>3
    <3> QED BY <3>1, <3>4
  <2>2. PICK past : past = SelectInSeq(way, LAMBDA p : (IF p = 0 THEN sd.min ELSE Time(sd, p)) >= hi)
    OBVIOUS
  <2>3. cut = CutAt(way, past)
    BY <2>2 DEF StatWay, CutAt, n
  <2>4. FirstPast(u, n, hi, past)
    <3>1. {i \in 1 .. Len(way) : (IF way[i] = 0 THEN sd.min ELSE Time(sd, way[i])) >= hi} = I
      <4>1. \A i \in 1 .. Len(way) : (IF way[i] = 0 THEN sd.min ELSE Time(sd, way[i])) = u[i]
        BY <1>1, <2>1
      <4> HIDE DEF way, u
      <4> QED BY <4>1
    <3>2. past = IF I # {} THEN Min(I) ELSE 0
      BY <2>2, <3>1 DEF SelectInSeq
    <3>3. I = {i \in 1 .. n : u[i] >= hi} /\ \A i \in 1 .. n : u[i] \in Int
      <4>1. \A i \in 1 .. n : u[i] \in Nat
        BY <1>1, <2>1
      <4> HIDE DEF way, u
      <4> QED BY <2>1, <4>1
    <3> HIDE DEF I, u, way
    <3> QED BY <1>1, <3>2, <3>3, FirstPastIs
  <2>5. /\ \A i \in 1 .. n : u[i] \in Int
        /\ \A i, j \in 1 .. n : i <= j => u[i] <= u[j]
    <3>1. \A i \in 1 .. n : u[i] = Time(sd, i - 1) /\ u[i] \in Nat
      BY <1>1, <2>1
    <3>2. ASSUME NEW i \in 1 .. n, NEW j \in 1 .. n, i <= j PROVE u[i] <= u[j]
      <4>1. i - 1 \in 0 .. n - 1 /\ j - 1 \in 0 .. n - 1 /\ i - 1 <= j - 1
        BY <1>1, <3>2
      <4> QED BY <1>1, <3>1, <4>1
    <3> HIDE DEF u
    <3> QED BY <3>1, <3>2
  <2>6. \A k \in 1 .. n : u[k] = Time(sd, k - 1)
    OBVIOUS
  <2> HIDE DEF cut, way, u, I
  <2>7. /\ cut \in Seq(Nat)
        /\ \A x : x \in Range(cut) <=> \E i \in 1 .. n : u[i] < hi /\ x = way[i]
    <3>1. way \in Seq(Nat) /\ n = Len(way)
      BY <2>1
    <3>2. /\ CutAt(way, past) \in Seq(Nat)
          /\ \A x : x \in Range(CutAt(way, past)) <=> \E i \in 1 .. n : u[i] < hi /\ x = way[i]
      <4>1. Rising(u, n)
        BY <2>5 DEF Rising
      <4> QED BY <2>4, <3>1, <4>1, CutIs
    <3> QED BY <2>3, <3>2
  <2>8. Range(cut) = {p \in 0 .. n - 1 : Time(sd, p) < hi}
    <3>1. ASSUME NEW p \in Range(cut) PROVE p \in 0 .. n - 1 /\ Time(sd, p) < hi
      <4>1. PICK i \in 1 .. n : u[i] < hi /\ p = way[i]
        BY <2>7
      <4> QED BY <2>1, <2>6, <4>1
    <3>2. ASSUME NEW p \in 0 .. n - 1, Time(sd, p) < hi PROVE p \in Range(cut)
      <4>1. p + 1 \in 1 .. n /\ (p + 1) - 1 = p
        BY <1>1
      <4>2. way[p + 1] = p /\ u[p + 1] < hi /\ p + 1 \in 1 .. n
        BY <2>1, <2>6, <3>2, <4>1
      <4> QED BY <2>7, <4>2
    <3> QED BY <3>1, <3>2
  <2> DEFINE C == {p \in Range(cut) : Crosses(Time(sd, p), lo, hi)}
  <2>9. StatRecords(sd, TRUE, lo, hi) = Only(cut, C)
    BY <1>3 DEF StatRecords, InWindow, cut
  <2>10. Range(Only(cut, C)) = Range(cut) \cap C
    BY <2>7, OnlyHas
  <2>11. Range(cut) \cap C = S
    BY <2>8 DEF Crosses
  <2> QED BY <1>1, <2>9, <2>10, <2>11
<1> QED BY <1>2, <1>3

\* The way of the line, from start.
LineWay(n, start) ==
  [k \in 1 .. (IF start = n - 1 THEN n ELSE (n - 1 - start + n) % n) |-> (start + k - 1) % n]

LEMMA LineWayIs ==
  ASSUME NEW n \in Nat \ {0}, NEW start \in 0 .. n - 1
  PROVE  LET way == LineWay(n, start)
             m   == IF start = n - 1 THEN n ELSE n - 1 - start
         IN  /\ way \in Seq(Nat) /\ Len(way) = m /\ m \in Nat
             /\ \A k \in 1 .. m :
                  way[k] = IF start # n - 1 THEN start + k - 1 ELSE IF k = 1 THEN n - 1 ELSE k - 2
             /\ \A k \in 1 .. m : way[k] \in 0 .. n - 1
<1> DEFINE m == IF start = n - 1 THEN n ELSE n - 1 - start
           way == LineWay(n, start)
<1>1. m \in Nat
  OBVIOUS
<1>2. start # n - 1 => (n - 1 - start + n) % n = n - 1 - start
  <2> SUFFICES ASSUME start # n - 1 PROVE (n - 1 - start + n) % n = n - 1 - start
    OBVIOUS
  <2>1. PICK a \in Nat : a = n - 1 - start + n
    OBVIOUS
  <2>2. n <= a /\ a < 2 * n /\ a - n = n - 1 - start
    BY <2>1
  <2>3. a % n = a - n
    BY <2>2, Remainders
  <2> QED BY <2>1, <2>2, <2>3
<1>3. way = [k \in 1 .. m |-> (start + k - 1) % n]
  <2>1. (IF start = n - 1 THEN n ELSE (n - 1 - start + n) % n) = m
    BY <1>2
  <2> HIDE DEF m
  <2> QED BY <2>1 DEF LineWay
<1> HIDE DEF way
<1>4. ASSUME NEW k \in 1 .. m
      PROVE  /\ (start + k - 1) % n = IF start # n - 1 THEN start + k - 1 ELSE IF k = 1 THEN n - 1 ELSE k - 2
             /\ (start + k - 1) % n \in 0 .. n - 1
  <2>1. PICK a \in Nat : a = start + k - 1
    OBVIOUS
  <2>2. CASE start # n - 1
    <3>1. a < n
      BY <2>1, <2>2
    <3>2. a % n = a
      BY <3>1, Remainders
    <3> QED BY <2>1, <2>2, <3>1, <3>2
  <2>3. CASE start = n - 1 /\ k = 1
    <3>1. a < n /\ a = n - 1
      BY <2>1, <2>3
    <3>2. a % n = a
      BY <3>1, Remainders
    <3> QED BY <2>1, <2>3, <3>1, <3>2
  <2>4. CASE start = n - 1 /\ k # 1
    <3>1. n <= a /\ a < 2 * n /\ a - n = k - 2 /\ k - 2 \in 0 .. n - 1
      BY <2>1, <2>4
    <3>2. a % n = a - n
      BY <3>1, Remainders
    <3> QED BY <2>1, <2>4, <3>1, <3>2
  <2> QED BY <2>2, <2>3, <2>4
<1> HIDE DEF m
<1>5. \A k \in 1 .. m : way[k] = (start + k - 1) % n
  BY <1>3
<1>6. \A k \in 1 .. m : way[k] \in Nat /\ way[k] \in 0 .. n - 1
  BY <1>4, <1>5
<1>7. way \in Seq(Nat) /\ Len(way) = m
  <2>1. way = [k \in 1 .. m |-> way[k]]
    BY <1>3, <1>5
  <2>2. way \in [1 .. m -> Nat]
    BY <1>6, <2>1
  <2> QED BY <1>1, <2>2
<1>8. \A k \in 1 .. m : way[k] = IF start # n - 1 THEN start + k - 1 ELSE IF k = 1 THEN n - 1 ELSE k - 2
  BY <1>4, <1>5
<1> QED BY <1>1, <1>6, <1>7, <1>8 DEF m, way

\* The line from start: when it begins with the last record, all of the buffer
\* or, that record being past the window, nothing.
LEMMA LineIs ==
  ASSUME NEW sd, Buffered(sd), sd.data # <<>>, NEW n, n = Size(sd), NEW lo \in Int, NEW hi \in Int,
         ~ Outside(sd, lo, hi),
         NEW start, start = SelectBufStart(sd, "viewer", lo)
  PROVE  LET line == Range(Points(sd, "viewer", lo, hi)) IN
         /\ \A p \in line : p \in 0 .. n - 1 /\ Crosses(Time(sd, p), lo, hi)
         /\ \A p \in 0 .. n - 1 : Crosses(Time(sd, p), lo, hi) =>
              \/ p \in line
              \/ start # n - 1 /\ (p < start \/ p = n - 1)
              \/ start = n - 1 /\ Time(sd, n - 1) >= hi
<1> DEFINE way == LineWay(n, start)
           m == IF start = n - 1 THEN n ELSE n - 1 - start
           cut == Walk(sd, start, hi)
           u == [k \in 1 .. m |-> Time(sd, way[k])]
           I == {k \in 1 .. m : u[k] >= hi}
           line == Range(Points(sd, "viewer", lo, hi))
<1>1. /\ n \in Nat \ {0}
      /\ \A p \in 0 .. n - 1 : Time(sd, p) \in Nat
      /\ \A p, r \in 0 .. n - 1 : p <= r => Time(sd, p) <= Time(sd, r)
      /\ sd.value = n - 1
  BY ViewFacts
<1>2. start \in 0 .. n - 1
  BY StartIs
<1>3. /\ way \in Seq(Nat) /\ Len(way) = m /\ m \in Nat
      /\ \A k \in 1 .. m :
           way[k] = IF start # n - 1 THEN start + k - 1 ELSE IF k = 1 THEN n - 1 ELSE k - 2
      /\ \A k \in 1 .. m : way[k] \in 0 .. n - 1
  BY <1>1, <1>2, LineWayIs
<1>4. \A k \in 1 .. m : u[k] = Time(sd, way[k])
  OBVIOUS
<1>5. \A k \in 1 .. m : u[k] \in Int
  BY <1>1, <1>3, <1>4
<1>6. PICK past : past = SelectInSeq(way, LAMBDA p : Time(sd, p) >= hi)
  OBVIOUS
<1>7. cut = CutAt(way, past)
  <2>1. way = [k \in 1 .. (IF start = sd.value THEN Size(sd) ELSE (sd.value - start + Size(sd)) % Size(sd))
                 |-> (start + k - 1) % Size(sd)]
    BY <1>1 DEF LineWay
  <2> HIDE DEF way
  <2> QED BY <1>6, <2>1 DEF Walk, CutAt
<1> HIDE DEF way, cut, u, m
<1>8. FirstPast(u, m, hi, past)
  <2>1. {i \in 1 .. Len(way) : Time(sd, way[i]) >= hi} = I
    BY <1>3, <1>4
  <2>2. past = IF I # {} THEN Min(I) ELSE 0
    BY <1>6, <2>1 DEF SelectInSeq
  <2> DEFINE J == I
  <2>3. J = {k \in 1 .. m : u[k] >= hi} /\ past = IF J # {} THEN Min(J) ELSE 0
    BY <2>2
  <2> HIDE DEF J
  <2> QED BY <1>3, <1>5, <2>3, FirstPastIs
<1>9. /\ cut \in Seq(Nat)
      /\ \A p \in Range(cut) : p \in 0 .. n - 1
      /\ \A p \in 0 .. n - 1 : Time(sd, p) < hi =>
              \/ p \in Range(cut)
              \/ start # n - 1 /\ (p < start \/ p = n - 1)
              \/ start = n - 1 /\ Time(sd, n - 1) >= hi
  <2>1. CASE start # n - 1
    <3>1. m = n - 1 - start /\ \A k \in 1 .. m : way[k] = start + k - 1
      BY <1>3, <2>1 DEF m
    <3>2. ASSUME NEW i \in 1 .. m, NEW j \in 1 .. m, i <= j PROVE u[i] <= u[j]
      <4>1. way[i] <= way[j] /\ way[i] \in 0 .. n - 1 /\ way[j] \in 0 .. n - 1
        BY <1>2, <1>3, <3>1, <3>2
      <4> QED BY <1>1, <1>4, <4>1
    <3>3. /\ CutAt(way, past) \in Seq(Nat)
          /\ \A x : x \in Range(CutAt(way, past)) <=> \E i \in 1 .. m : u[i] < hi /\ x = way[i]
      <4>1. Rising(u, m)
        BY <1>5, <3>2 DEF Rising
      <4>2. way \in Seq(Nat) /\ m = Len(way)
        BY <1>3
      <4> QED BY <1>8, <4>1, <4>2, CutIs
    <3>4. cut \in Seq(Nat) /\ \A x : x \in Range(cut) <=> \E i \in 1 .. m : u[i] < hi /\ x = way[i]
      BY <1>7, <3>3
    <3>5. ASSUME NEW p \in 0 .. n - 1, Time(sd, p) < hi
          PROVE  p \in Range(cut) \/ p < start \/ p = n - 1
      <4>1. CASE ~ p < start /\ p # n - 1
        <5>1. PICK k \in 1 .. m : k = p - start + 1
          <6>1. p - start + 1 \in 1 .. n - 1 - start
            BY <1>1, <1>2, <4>1, SMTT(60)
          <6> QED BY <3>1, <6>1
        <5>2. way[k] = p
          BY <1>2, <3>1, <5>1
        <5> QED BY <1>4, <3>4, <3>5, <5>2
      <4> QED BY <4>1
    <3>6. \A p \in Range(cut) : p \in 0 .. n - 1
      BY <1>3, <3>4
    <3> QED BY <2>1, <3>4, <3>5, <3>6
  <2>2. CASE start = n - 1
    <3>1. m = n /\ 1 \in 1 .. m /\ way[1] = n - 1 /\ u[1] = Time(sd, n - 1)
      <4>1. m = n
        BY <2>2 DEF m
      <4> QED BY <1>1, <1>3, <1>4, <2>2, <4>1
    <3>2. DOMAIN way = 1 .. m /\ \A k \in 1 .. m : way[k] \in Nat
      BY <1>3, LenProperties
    <3>3. CASE Time(sd, n - 1) >= hi
      <4>1. ~ u[1] < hi
        BY <1>5, <3>1, <3>3
      <4>2. past # 0
        BY <1>8, <3>1, <4>1 DEF FirstPast
      <4>3. past \in 1 .. m /\ \A i \in 1 .. past - 1 : u[i] < hi
        BY <1>8, <4>2 DEF FirstPast
      <4>4. ~ past > 1
        <5>1. past > 1 => 1 \in 1 .. past - 1
          BY <4>3
        <5> QED BY <4>1, <4>3, <5>1
      <4>5. past = 1
        BY <4>3, <4>4
      <4>6. cut = SubSeq(way, 1, 0)
        BY <1>7, <4>5 DEF CutAt
      <4>7. cut = <<>>
        <5>1. 1 \in Int /\ 0 \in Int /\ 0 < 1
          OBVIOUS
        <5> QED BY <4>6, <5>1, SubSeqEmpty
      <4>8. cut \in Seq(Nat) /\ Range(cut) = {}
        BY <4>7, EmptySeq DEF Range
      <4> QED BY <2>2, <3>3, <4>8
    <3>4. CASE ~ Time(sd, n - 1) >= hi
      <4>1. ASSUME NEW k \in 1 .. m PROVE u[k] < hi
        <5>1. way[k] \in 0 .. n - 1 /\ n - 1 \in 0 .. n - 1 /\ way[k] <= n - 1
          BY <1>1, <1>3
        <5>2. Time(sd, way[k]) <= Time(sd, n - 1) /\ Time(sd, way[k]) \in Nat /\ Time(sd, n - 1) \in Nat
          BY <1>1, <5>1
        <5> QED BY <1>4, <3>4, <5>2
      <4>2. past = 0
        <5>1. past # 0 => past \in 1 .. m /\ u[past] >= hi /\ u[past] \in Int
          BY <1>5, <1>8 DEF FirstPast
        <5> QED BY <4>1, <5>1
      <4>3. cut = way
        BY <1>7, <4>2 DEF CutAt
      <4>4. \A x : x \in Range(cut) <=> \E k \in 1 .. m : x = way[k]
        BY <3>2, <4>3 DEF Range
      <4>5. ASSUME NEW p \in 0 .. n - 1 PROVE p \in Range(cut)
        <5>1. CASE p = n - 1
          BY <3>1, <4>4, <5>1
        <5>2. CASE p # n - 1
          <6>1. PICK k \in 1 .. m : k = p + 2
            BY <1>1, <3>1, <5>2
          <6>2. way[k] = p
            BY <1>3, <2>2, <6>1, SMTT(60)
          <6> QED BY <4>4, <6>2
        <5> QED BY <5>1, <5>2
      <4>6. \A p \in Range(cut) : p \in 0 .. n - 1
        BY <1>3, <4>4
      <4> QED BY <1>3, <4>3, <4>5, <4>6
    <3> QED BY <3>3, <3>4
  <2> QED BY <2>1, <2>2
<1> DEFINE C == {p \in Range(cut) : Crosses(Time(sd, p), lo, hi)}
<1>10. Points(sd, "viewer", lo, hi) = Only(cut, C)
  BY DEF Points, InWindow, cut
<1>11. Range(Only(cut, C)) = Range(cut) \cap C
  BY <1>9, OnlyHas
<1>12. line = C
  BY <1>10, <1>11
<1> HIDE DEF line
<1>13. ASSUME NEW p \in 0 .. n - 1, Crosses(Time(sd, p), lo, hi)
       PROVE  \/ p \in line
              \/ start # n - 1 /\ (p < start \/ p = n - 1)
              \/ start = n - 1 /\ Time(sd, n - 1) >= hi
  <2>1. Time(sd, p) < hi
    BY <1>13 DEF Crosses
  <2> QED BY <1>9, <1>12, <1>13, <2>1
<1>14. \A p \in line : p \in 0 .. n - 1 /\ Crosses(Time(sd, p), lo, hi)
  BY <1>9, <1>12
<1> QED BY <1>13, <1>14 DEF line

\* The export of all time, and of every value.
LEMMA ExportIs ==
  ASSUME NEW sd, Buffered(sd), sd.data # <<>>
  PROVE  Exported(sd, TRUE, 0, 0, TRUE, 1) = [k \in 1 .. Size(sd) - 1 |-> k - 1]
<1> DEFINE n == Size(sd)
           way == ExportWay(sd)
           all == [k \in 1 .. n - 1 |-> k - 1]
<1>1. n \in Nat \ {0} /\ sd.begin = 0 /\ sd.value = n - 1
  BY ViewFacts
<1>2. (n - 1 - 0 + n) % n = n - 1
  <2>1. PICK a \in Nat : a = n - 1 - 0 + n
    BY <1>1
  <2> HIDE DEF n
  <2>2. n <= a /\ a < 2 * n /\ a - n = n - 1
    BY <1>1, <2>1
  <2>3. a % n = a - n
    BY <1>1, <2>2, Remainders
  <2> QED BY <2>1, <2>2, <2>3
<1>3. ASSUME NEW k \in 1 .. n - 1 PROVE (0 + k - 1) % n = k - 1
  <2> HIDE DEF n
  <2>1. PICK a \in Nat : a = 0 + k - 1
    BY <1>1
  <2>2. a < n
    BY <1>1, <2>1
  <2>3. a % n = a
    BY <1>1, <2>2, Remainders
  <2> QED BY <2>1, <2>3
<1>4. way = all
  <2>1. way = [k \in 1 .. (n - 1 - 0 + n) % n |-> (0 + k - 1) % n]
    BY <1>1 DEF ExportWay
  <2> HIDE DEF n, way
  <2> QED BY <1>2, <1>3, <2>1
<1> HIDE DEF n, way
<1>5. way \in Seq(Nat) /\ Len(way) = n - 1
  <2>1. all \in [1 .. n - 1 -> Nat] /\ n - 1 \in Nat
    BY <1>1
  <2> QED BY <1>4, <2>1
<1>6. \A k \in 1 .. Len(way) : way[k] \in Range(way)
  BY <1>5, LenProperties DEF Range
<1> DEFINE C == {p \in Range(way) : /\ TRUE \/ (0 < Time(sd, p) /\ Time(sd, p) < 0)
                                    /\ TRUE \/ p % 1 = 0}
<1>7. Exported(sd, TRUE, 0, 0, TRUE, 1) = Only(way, C)
  BY DEF Exported, way
<1>8. \A k \in 1 .. Len(way) : way[k] \in C
  BY <1>6
<1> HIDE DEF C
<1>9. Only(way, C) = way
  BY <1>5, <1>8, OnlyAll
<1> QED BY <1>4, <1>7, <1>9 DEF n

\* The three readers agree about a loaded buffer.
LEMMA Agree ==
  ASSUME NEW sd, Buffered(sd), sd.data # <<>>, NEW lo \in Int, NEW hi \in Int, lo < hi
  PROVE  LET stat   == Range(StatRecords(sd, TRUE, lo, hi))
             line   == Range(Points(sd, "viewer", lo, hi))
             before == {p \in Places(sd) : Time(sd, p) < lo}
             last   == Size(sd) - 1
         IN  /\ stat = {p \in Places(sd) : Crosses(Time(sd, p), lo, hi)}
             /\ line \subseteq stat
             /\ \A p \in stat \ line : p = last \/ (p \in before /\ p < Max(before))
             /\ (line # {} /\ RangeOf(sd, "viewer", lo, hi) = <<>>) => (last = 0 \/ last \in before)
<1> DEFINE n == Size(sd)
           stat == Range(StatRecords(sd, TRUE, lo, hi))
           line == Range(Points(sd, "viewer", lo, hi))
           before == {p \in Places(sd) : Time(sd, p) < lo}
           last == Size(sd) - 1
           start == SelectBufStart(sd, "viewer", lo)
<1>1. /\ n \in Nat \ {0} /\ Places(sd) = 0 .. n - 1
      /\ \A p \in 0 .. n - 1 : Time(sd, p) \in Nat
      /\ \A p, r \in 0 .. n - 1 : p <= r => Time(sd, p) <= Time(sd, r)
      /\ sd.value = n - 1 /\ last = n - 1
  BY ViewFacts
<1>2. stat = {p \in 0 .. n - 1 : Crosses(Time(sd, p), lo, hi)}
  <2>1. stat = {p \in Places(sd) : Crosses(Time(sd, p), lo, hi)}
    BY StatIs, ZenonT(60)
  <2>2. Places(sd) = 0 .. n - 1
    BY <1>1
  <2> HIDE DEF stat, n
  <2> QED BY <2>1, <2>2
<1>3. /\ start \in 0 .. n - 1
      /\ start = 0 \/ Time(sd, start) < lo
      /\ \A p \in 0 .. n - 1 : Time(sd, p) < lo => p <= start
  BY StartIs
<1>4. before = {p \in 0 .. n - 1 : Time(sd, p) < lo}
  BY <1>1
<1>5. ASSUME Outside(sd, lo, hi) PROVE line = {} /\ stat = {}
  <2>1. Points(sd, "viewer", lo, hi) = <<>> /\ StatRecords(sd, TRUE, lo, hi) = <<>>
    BY <1>5 DEF Points, StatRecords
  <2>2. Range(<<>>) = {}
    BY DEF Range
  <2> QED BY <2>1, <2>2
<1>6. ASSUME ~ Outside(sd, lo, hi)
      PROVE  /\ \A p \in line : p \in 0 .. n - 1 /\ Crosses(Time(sd, p), lo, hi)
             /\ \A p \in 0 .. n - 1 : Crosses(Time(sd, p), lo, hi) =>
                  \/ p \in line
                  \/ start # n - 1 /\ (p < start \/ p = n - 1)
                  \/ start = n - 1 /\ Time(sd, n - 1) >= hi
  BY <1>6, LineIs
<1>7. Points(sd, "viewer", lo, hi) = <<>> => line = {}
  BY DEF Range
<1>8. RangeOf(sd, "viewer", lo, hi) = <<>> => line = {} \/ start = n - 1
  <2>1. RangeOf(sd, "viewer", lo, hi) =
          IF Outside(sd, lo, hi) \/ start = sd.value THEN <<>> ELSE Points(sd, "viewer", lo, hi)
    BY DEF RangeOf
  <2> QED BY <1>1, <1>5, <1>7, <2>1
<1> HIDE DEF n, stat, line, before, last, start
<1>9. line \subseteq stat
  BY <1>2, <1>5, <1>6
<1>10. ASSUME NEW p \in stat \ line PROVE p = last \/ (p \in before /\ p < Max(before))
  <2>1. ~ Outside(sd, lo, hi) /\ p \in 0 .. n - 1 /\ Crosses(Time(sd, p), lo, hi) /\ p \notin line
    BY <1>2, <1>5
  <2>2. CASE start # n - 1 /\ p < start
    <3>1. start # 0 /\ Time(sd, start) < lo
      BY <1>3, <2>1, <2>2
    <3>2. Time(sd, p) < lo
      <4>1. Time(sd, p) <= Time(sd, start) /\ Time(sd, p) \in Nat /\ Time(sd, start) \in Nat
        BY <1>1, <1>3, <2>1, <2>2
      <4> QED BY <3>1, <4>1
    <3>3. p \in before /\ start \in before /\ \A r \in before : start >= r
      BY <1>3, <1>4, <2>1, <3>1, <3>2
    <3>4. Max(before) \in before /\ \A r \in before : Max(before) >= r
      <4>1. \E x \in before : \A r \in before : x >= r
        BY <3>3
      <4> QED BY <4>1 DEF Max
    <3>5. Max(before) >= start /\ Max(before) \in 0 .. n - 1
      BY <1>4, <3>3, <3>4
    <3> QED BY <1>3, <2>1, <2>2, <3>3, <3>5
  <2>3. CASE p = n - 1
    BY <1>1, <2>3
  <2>4. CASE start = n - 1 /\ Time(sd, n - 1) >= hi
    <3>1. ~ Time(sd, start) < lo
      <4>1. Time(sd, n - 1) \in Nat
        BY <1>1
      <4> QED BY <2>4, <4>1
    <3>2. n - 1 = 0
      BY <1>3, <2>4, <3>1
    <3> QED BY <1>1, <2>1, <3>2
  <2> QED BY <1>6, <2>1, <2>2, <2>3, <2>4
<1>11. ASSUME line # {}, RangeOf(sd, "viewer", lo, hi) = <<>> PROVE last = 0 \/ last \in before
  <2>1. start = n - 1
    BY <1>8, <1>11
  <2>2. n - 1 = 0 \/ Time(sd, n - 1) < lo
    BY <1>3, <2>1
  <2> QED BY <1>1, <1>3, <1>4, <2>1, <2>2
<1>12. stat = {p \in Places(sd) : Crosses(Time(sd, p), lo, hi)}
  BY <1>1, <1>2
<1> QED BY <1>9, <1>10, <1>11, <1>12 DEF stat, line, before, last

\* Graph, statistics and export, which search the same buffer each in a way of
\* its own, take the same records of any window, but for the last record and
\* those before the one in which the window begins.
THEOREM ReadersAgree == ViewerSpec => []ViewsAgree
<1>1. ViewerInv => ViewsAgree
  <2> SUFFICES ASSUME ViewerInv, NEW s \in Known, signals[s].data # <<>>
               PROVE  LET sd == signals[s] IN
                        /\ Exported(sd, TRUE, 0, 0, TRUE, 1) = [k \in 1 .. Size(sd) - 1 |-> k - 1]
                        /\ \A lo, hi \in sd.min - 1 .. sd.max + 1 : lo < hi =>
                             LET stat   == Range(StatRecords(sd, TRUE, lo, hi))
                                 line   == Range(Points(sd, "viewer", lo, hi))
                                 before == {p \in Places(sd) : Time(sd, p) < lo}
                                 last   == Size(sd) - 1
                             IN  /\ stat = {p \in Places(sd) : Crosses(Time(sd, p), lo, hi)}
                                 /\ line \subseteq stat
                                 /\ \A p \in stat \ line : p = last \/ (p \in before /\ p < Max(before))
                                 /\ (line # {} /\ RangeOf(sd, "viewer", lo, hi) = <<>>) =>
                                      (last = 0 \/ last \in before)
    BY DEF ViewsAgree
  <2> DEFINE sd == signals[s]
  <2>1. Buffered(sd)
    BY DEF ViewerInv, Read, Known
  <2> HIDE DEF sd
  <2>2. Exported(sd, TRUE, 0, 0, TRUE, 1) = [k \in 1 .. Size(sd) - 1 |-> k - 1]
    BY <2>1, ExportIs DEF sd
  <2>3. ASSUME NEW lo \in sd.min - 1 .. sd.max + 1, NEW hi \in sd.min - 1 .. sd.max + 1, lo < hi
        PROVE  LET stat   == Range(StatRecords(sd, TRUE, lo, hi))
                   line   == Range(Points(sd, "viewer", lo, hi))
                   before == {p \in Places(sd) : Time(sd, p) < lo}
                   last   == Size(sd) - 1
               IN  /\ stat = {p \in Places(sd) : Crosses(Time(sd, p), lo, hi)}
                   /\ line \subseteq stat
                   /\ \A p \in stat \ line : p = last \/ (p \in before /\ p < Max(before))
                   /\ (line # {} /\ RangeOf(sd, "viewer", lo, hi) = <<>>) =>
                        (last = 0 \/ last \in before)
    <3>1. sd.min \in Int /\ sd.max \in Int
      BY <2>1 DEF Buffered, SignalType
    <3>2. lo \in Int /\ hi \in Int
      BY <3>1
    <3>3. sd.data # <<>>
      BY DEF sd
    <3> QED BY <2>1, <2>3, <3>2, <3>3, Agree
  <2> QED BY <2>2, <2>3 DEF sd
<1> QED BY <1>1, ViewerInvariance, PTL
=============================================================================
