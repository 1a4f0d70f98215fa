--------------------------- MODULE ReceiveProofs ---------------------------
(***************************************************************************)
(* Theorems about the receivers, for any clients, number of frames and     *)
(* size of a payload, with the TCP server or the COM reader.               *)
(*                                                                         *)
(* First what receiveData does to the data of a client: lemmas about the   *)
(* operators of Receive, no state among them.  The search, a recursion     *)
(* over the places in the data, is defined at every place (SearchEnds),    *)
(* and finds each frame that came whole and no two that overlap            *)
(* (FramesFound), whatever else is in the data: by induction over the      *)
(* places, from the last one down.  What is on its way are units in the    *)
(* order they were sent; a frame is found where all of it is, once, or     *)
(* stays (ServedStays), and without losses the frames are found in turn    *)
(* (InTurnStays).                                                          *)
(*                                                                         *)
(* The invariant says of the data of a client (ClientOK) that what is      *)
(* received and what is on the line are, one behind the other, units in    *)
(* the order they were sent, and that a frame of which nothing was lost is *)
(* stored and gone from there, or is all there as far as it was sent       *)
(* (Served); in a connection nothing is missing at all (Follows).  Each    *)
(* step of a client keeps that, by a lemma of its own.  Of the threads the *)
(* invariant says which places of the two go together (Paired) and what    *)
(* the flags of Server_m tell.                                             *)
(***************************************************************************)
EXTENDS Receive, WellFoundedInduction, SequenceTheorems, FiniteSetTheorems, TLAPS

-----------------------------------------------------------------------------
(* Induction.                                                              *)

\* Every set of numbers that is not empty has a least one.
LEMMA Least ==
  ASSUME NEW T, T \subseteq Nat, T # {}
  PROVE  \E x \in T : \A y \in T : x <= y
<1> DEFINE Below == {ss \in Nat \X Nat : ss[1] < ss[2]}
<1>1. Below = OpToRel(<, Nat)
  BY DEF OpToRel
<1>2. IsWellFoundedOn(Below, Nat)
  BY <1>1, NatLessThanWellFounded
<1>3. PICK x \in T : \A y \in T : <<y, x>> \notin Below
  <2> HIDE DEF Below
  <2> QED BY <1>2, WFMin, Zenon
<1>4. ASSUME NEW y \in T PROVE x <= y
  <2>1. x \in Nat /\ y \in Nat /\ <<y, x>> \notin Below
    BY <1>3
  <2>2. y < x => <<y, x>> \in Below
    BY <2>1
  <2>3. QED
    BY <2>1, <2>2
<1>5. QED
  BY <1>4

\* What holds of 0, and with n of n + 1, holds of every number.
LEMMA FromZeroOn ==
  ASSUME NEW T, 0 \in T, \A n \in Nat : n \in T => n + 1 \in T
  PROVE  \A n \in Nat : n \in T
<1>1. SUFFICES ASSUME {n \in Nat : n \notin T} # {} PROVE FALSE
  OBVIOUS
<1>2. PICK x \in {n \in Nat : n \notin T} : \A y \in {n \in Nat : n \notin T} : x <= y
  <2>1. {n \in Nat : n \notin T} \subseteq Nat
    OBVIOUS
  <2>2. QED
    BY <1>1, <2>1, Least, Zenon
<1>3. x - 1 \in Nat /\ x - 1 \notin {n \in Nat : n \notin T}
  BY <1>2
<1>4. QED
  BY <1>2, <1>3

\* The same from n down to 1.
LEMMA FromEndDown ==
  ASSUME NEW n \in Nat, NEW T,
         \A i \in 1 .. n : (\A j \in i + 1 .. n : j \in T) => i \in T
  PROVE  \A i \in 1 .. n : i \in T
<1> DEFINE S == {k \in Nat : \A i \in n + 1 - k .. n : i \in 1 .. n => i \in T}
<1>1. 0 \in S
  OBVIOUS
<1>2. ASSUME NEW k \in Nat, k \in S PROVE k + 1 \in S
  <2>1. SUFFICES ASSUME NEW i \in n + 1 - (k + 1) .. n, i \in 1 .. n PROVE i \in T
    OBVIOUS
  <2>2. CASE i = n - k
    <3>1. \A j \in i + 1 .. n : j \in T
      BY <1>2, <2>1, <2>2
    <3>2. QED
      BY <3>1, <2>1
  <2>3. CASE i # n - k
    BY <1>2, <2>1, <2>3
  <2>4. QED
    BY <2>2, <2>3
<1>3. \A k \in Nat : k \in S
  <2> HIDE DEF S
  <2> QED BY <1>1, <1>2, FromZeroOn, Zenon
<1>4. QED
  BY <1>3

-----------------------------------------------------------------------------
(* The search for frames.                                                  *)

BeginsAt(m, i) == m[i].kind = BeginMess[1] /\ m[i + 1].kind = BeginMess[2]

LEMMA Sizes ==
  /\ FrameLen \in Nat /\ FrameLen >= 5
  /\ FrameLen = PayloadLen + 4 /\ PayloadLen \in Nat \ {0}
  /\ Len(BeginMess) = 2
  /\ \A st \in Int : EndOf(st) = st + FrameLen - 1 /\ AfterBegin(st) = st + 2
<1>1. Len(BeginMess) = 2
  BY DEF BeginMess
<1>2. QED
  BY <1>1, ReceiveAssumption DEF FrameLen, EndOf, AfterBegin

\* inout.find finds the first begin mark, and 0 if there is none.
LEMMA FindsFirst ==
  ASSUME NEW m, NEW k \in Nat \ {0}, Len(m) \in Nat
  PROVE  \/ Find(m, k) = 0 /\ \A i \in k .. Len(m) - 1 : ~ BeginsAt(m, i)
         \/ /\ Find(m, k) \in k .. Len(m) - 1
            /\ BeginsAt(m, Find(m, k))
            /\ \A i \in k .. Find(m, k) - 1 : ~ BeginsAt(m, i)
<1> DEFINE at == {i \in k .. Len(m) - 1 : BeginsAt(m, i)}
<1>1. Find(m, k) = IF at = {} THEN 0 ELSE CHOOSE i \in at : \A j \in at : i <= j
  BY DEF Find, BeginsAt
<1>2. CASE at = {}
  BY <1>1, <1>2
<1>3. CASE at # {}
  <2>1. \E i \in at : \A j \in at : i <= j
    <3>1. at \subseteq Nat
      OBVIOUS
    <3>2. QED
      <4> HIDE DEF at
      <4> QED BY <1>3, <3>1, Least, Zenon
  <2>2. Find(m, k) \in at /\ \A j \in at : Find(m, k) <= j
    <3> HIDE DEF at
    <3> QED BY <1>1, <1>3, <2>1
  <2>3. PICK f : f = Find(m, k)
    OBVIOUS
  <2>4. f \in k .. Len(m) - 1 /\ BeginsAt(m, f) /\ \A i \in k .. f - 1 : ~ BeginsAt(m, i)
    BY <2>2, <2>3
  <2>5. QED
    BY <2>3, <2>4
<1>4. QED
  BY <1>2, <1>3

\* One turn of the search, g what the others find.
Turn(g, m, i) ==
  IF i = 0 \/ i + Len(BeginMess) + 1 > Len(m) THEN <<>>
  ELSE IF IsFrame(m, i) THEN <<i>> \o g[Find(m, EndOf(i) + 1)]
  ELSE g[Find(m, AfterBegin(i))]

Search(m) == CHOOSE g : g = [i \in 0 .. Len(m) |-> Turn(g, m, i)]

LEMMA FramesFromIs ==
  ASSUME NEW m, NEW st PROVE FramesFrom(m, st) = Search(m)[st]
BY DEF FramesFrom, Search, Turn

\* A turn looks behind its place only.
LEMMA TurnLooksBehind ==
  ASSUME NEW m, Len(m) \in Nat, NEW i \in 0 .. Len(m), NEW g, NEW h,
         \A j \in {0} \cup i + 1 .. Len(m) : g[j] = h[j]
  PROVE  Turn(g, m, i) = Turn(h, m, i)
<1>1. CASE i = 0
  BY <1>1 DEF Turn
<1>2. CASE i # 0
  <2>1. Find(m, EndOf(i) + 1) \in {0} \cup i + 1 .. Len(m)
    <3>1. EndOf(i) + 1 \in Nat \ {0} /\ EndOf(i) + 1 > i
      <4>1. i \in Nat /\ i \in Int
        OBVIOUS
      <4>2. EndOf(i) = i + FrameLen - 1 /\ FrameLen \in Nat /\ FrameLen >= 5
        BY Sizes, <4>1, Zenon
      <4>3. QED
        BY <4>1, <4>2
    <3>2. QED
      BY <3>1, FindsFirst
  <2>2. Find(m, AfterBegin(i)) \in {0} \cup i + 1 .. Len(m)
    <3>1. AfterBegin(i) \in Nat \ {0} /\ AfterBegin(i) > i
      <4>1. i \in Nat /\ i \in Int
        OBVIOUS
      <4>2. AfterBegin(i) = i + 2
        BY Sizes, <4>1, Zenon
      <4>3. QED
        BY <4>1, <4>2
    <3>2. QED
      BY <3>1, FindsFirst
  <2>3. QED
    BY <2>1, <2>2 DEF Turn
<1>3. QED
  BY <1>1, <1>2

\* So the search comes to an end, whatever is in the data.
LEMMA SearchEnds ==
  ASSUME NEW m, Len(m) \in Nat
  PROVE  Search(m) = [i \in 0 .. Len(m) |-> Turn(Search(m), m, i)]
<1> DEFINE n == Len(m)
<1> DEFINE Done(k) == {0} \cup n + 1 - k .. n
<1> DEFINE S == {k \in Nat : k <= n =>
                   \E h : h = [j \in 0 .. n |-> h[j]] /\ \A j \in Done(k) : h[j] = Turn(h, m, j)}
<1>1. 0 \in S
  <2>1. PICK h : h = [j \in 0 .. n |-> <<>>]
    OBVIOUS
  <2>2. h = [j \in 0 .. n |-> h[j]] /\ \A j \in Done(0) : h[j] = Turn(h, m, j)
    BY <2>1 DEF Turn
  <2>3. QED
    BY <2>2
<1>2. ASSUME NEW k \in Nat, k \in S PROVE k + 1 \in S
  <2>1. SUFFICES ASSUME k + 1 <= n
        PROVE \E h : h = [j \in 0 .. n |-> h[j]] /\ \A j \in Done(k + 1) : h[j] = Turn(h, m, j)
    OBVIOUS
  <2>2. PICK h : h = [j \in 0 .. n |-> h[j]] /\ \A j \in Done(k) : h[j] = Turn(h, m, j)
    BY <1>2, <2>1
  <2>3. PICK x \in 1 .. n : x = n - k
    BY <2>1
  <2>4. PICK g : g = [j \in 0 .. n |-> IF j = x THEN Turn(h, m, x) ELSE h[j]]
    OBVIOUS
  <2>5. \A j \in {0} \cup x + 1 .. n : g[j] = h[j]
    BY <2>3, <2>4
  <2>6. ASSUME NEW j \in Done(k + 1) PROVE Turn(g, m, j) = Turn(h, m, j)
    <3>1. CASE j = 0
      BY <3>1 DEF Turn
    <3>2. CASE j # 0
      <4>1. j \in 0 .. Len(m) /\ \A i \in {0} \cup j + 1 .. Len(m) : g[i] = h[i]
        BY <2>3, <2>5, <3>2
      <4>2. QED
        BY <4>1, TurnLooksBehind
    <3>3. QED
      BY <3>1, <3>2
  <2>7. \A j \in Done(k + 1) : g[j] = Turn(g, m, j)
    <3>1. SUFFICES ASSUME NEW j \in Done(k + 1) PROVE g[j] = Turn(h, m, j)
      BY <2>6
    <3>2. CASE j = x
      BY <2>4, <3>2
    <3>3. CASE j # x
      BY <2>2, <2>3, <2>4, <3>3
    <3>4. QED
      BY <3>2, <3>3
  <2>8. g = [j \in 0 .. n |-> g[j]]
    BY <2>4
  <2>9. QED
    BY <2>7, <2>8
<1>3. \A k \in Nat : k \in S
  <2> HIDE DEF S
  <2> QED BY <1>1, <1>2, FromZeroOn, Zenon
<1>4. PICK h : h = [j \in 0 .. n |-> h[j]] /\ \A j \in Done(n) : h[j] = Turn(h, m, j)
  BY <1>3
<1>5. h = [j \in 0 .. n |-> Turn(h, m, j)]
  BY <1>4
<1>6. QED
  BY <1>5 DEF Search

-----------------------------------------------------------------------------
(* What the search finds.                                                  *)

\* The kind of the unit at each place of a frame.
KindOf(j) ==
  CASE j <= 2       -> BeginMess[j]
    [] j = 3        -> "length"
    [] j = FrameLen -> EndMess
    [] OTHER        -> "piece"

LEMMA Kinds ==
  /\ KindOf(1) = BeginMess[1] /\ KindOf(2) = BeginMess[2]
  /\ KindOf(3) = "length" /\ KindOf(FrameLen) = EndMess
  /\ \A j \in 1 .. FrameLen : /\ KindOf(j) = BeginMess[1] => j = 1
                              /\ KindOf(j) = BeginMess[2] => j = 2
                              /\ KindOf(j) = EndMess => j = FrameLen
<1>1. BeginMess[1] = "=beg" /\ BeginMess[2] = "in=" /\ EndMess = "=end="
  BY DEF BeginMess, EndMess
<1>2. PICK n \in Nat : n = FrameLen /\ n >= 5
  BY Sizes
<1>3. ASSUME NEW j \in 1 .. n
      PROVE  KindOf(j) = IF j = 1 THEN "=beg" ELSE IF j = 2 THEN "in=" ELSE IF j = 3 THEN "length"
                         ELSE IF j = n THEN "=end=" ELSE "piece"
  <2>1. CASE j = 1
    <3>1. KindOf(1) = BeginMess[1]
      BY <1>2 DEF KindOf
    <3>2. QED
      BY <1>1, <2>1, <3>1
  <2>4. CASE j = 2
    <3>1. KindOf(2) = BeginMess[2]
      BY <1>2 DEF KindOf
    <3>2. QED
      BY <1>1, <2>4, <3>1
  <2>2. CASE ~ (j <= 2)
    BY <1>1, <1>2, <2>2 DEF KindOf
  <2>3. QED
    BY <2>1, <2>2, <2>4
<1>4. QED
  BY <1>1, <1>2, <1>3

\* A frame that came whole is at p.
WholeAt(m, p) == p + FrameLen - 1 <= Len(m) /\ \A j \in 1 .. FrameLen : m[p + j - 1].kind = KindOf(j)

\* fs are places of frames that do not overlap, from i on, and no frame that
\* came whole is missing.
Found(fs, m, i) ==
  /\ fs \in Seq(1 .. Len(m))
  /\ \A a \in DOMAIN fs : fs[a] >= i /\ BeginsAt(m, fs[a]) /\ IsFrame(m, fs[a])
  /\ \A a, b \in DOMAIN fs : a < b => EndOf(fs[a]) < fs[b]
  /\ \A p \in i .. Len(m) : WholeAt(m, p) => \E a \in DOMAIN fs : fs[a] = p

\* A frame that came whole begins as one does, and no other begins in it.
LEMMA WholeIsFrame ==
  ASSUME NEW m, Len(m) \in Nat, NEW p \in 1 .. Len(m), WholeAt(m, p)
  PROVE  /\ BeginsAt(m, p) /\ IsFrame(m, p) /\ p + 4 <= Len(m)
         /\ \A i \in 1 .. p : BeginsAt(m, i) => i = p \/ i + 2 <= p
         /\ \A i \in 1 .. p : IsFrame(m, i) => i = p \/ EndOf(i) < p
<1>1. PICK n \in Nat : n = FrameLen /\ n >= 5
  BY Sizes
<1>2. p \in Int /\ EndOf(p) = p + n - 1
  BY <1>1, Sizes
<1>3. p + n - 1 <= Len(m) /\ \A j \in 1 .. n : m[p + j - 1].kind = KindOf(j)
  BY <1>1 DEF WholeAt
<1>4. m[p].kind = KindOf(1) /\ m[p + 1].kind = KindOf(2) /\ m[p + 2].kind = KindOf(3)
        /\ m[p + n - 1].kind = KindOf(n)
  <2>1. p + 1 - 1 = p /\ p + 2 - 1 = p + 1 /\ p + 3 - 1 = p + 2
    OBVIOUS
  <2>2. 1 \in 1 .. n /\ 2 \in 1 .. n /\ 3 \in 1 .. n /\ n \in 1 .. n
    BY <1>1
  <2>3. QED
    BY <1>3, <2>1, <2>2
<1>5. BeginsAt(m, p) /\ IsFrame(m, p)
  BY <1>1, <1>2, <1>3, <1>4, Kinds DEF BeginsAt, IsFrame
<1>6. ASSUME NEW i \in 1 .. p, BeginsAt(m, i), i # p PROVE i + 2 <= p
  <2>1. m[i + 1].kind = BeginMess[2]
    BY <1>6 DEF BeginsAt
  <2>2. i + 1 # p
    <3>1. BeginMess[1] # BeginMess[2]
      BY DEF BeginMess
    <3>2. QED
      BY <2>1, <3>1, <1>4, Kinds
  <2>3. QED
    BY <1>6, <2>2
<1>7. ASSUME NEW i \in 1 .. p, IsFrame(m, i), i # p PROVE EndOf(i) < p
  <2>1. PICK e \in Int : e = EndOf(i) /\ e = i + n - 1
    BY <1>1, Sizes
  <2>2. m[e].kind = EndMess
    BY <1>7, <2>1 DEF IsFrame
  <2>3. SUFFICES ASSUME e >= p PROVE FALSE
    BY <2>1
  <2>4. PICK j \in 1 .. n : j = e - p + 1 /\ j < n
    BY <1>7, <2>1, <2>3
  <2>5. m[e].kind = KindOf(j)
    <3>1. p + j - 1 = e
      BY <2>4, <2>1
    <3>2. QED
      BY <1>3, <3>1
  <2>6. QED
    BY <1>1, <2>2, <2>4, <2>5, Kinds
<1>8. p + 4 <= Len(m)
  BY <1>1, <1>3
<1>9. QED
  BY <1>5, <1>6, <1>7, <1>8

\* Nothing is missed between a place and the next begin mark.
LEMMA FoundEarlier ==
  ASSUME NEW m, Len(m) \in Nat, NEW k \in Nat \ {0}, NEW i \in k .. Len(m), NEW fs,
         Found(fs, m, i), \A j \in k .. i - 1 : ~ WholeAt(m, j)
  PROVE  Found(fs, m, k)
<1>1. \A p \in k .. Len(m) : WholeAt(m, p) => p \in i .. Len(m)
  OBVIOUS
<1>2. \A a \in DOMAIN fs : fs[a] \in 1 .. Len(m) /\ fs[a] >= k
  <2>1. SUFFICES ASSUME NEW a \in DOMAIN fs PROVE fs[a] \in 1 .. Len(m) /\ fs[a] >= k
    OBVIOUS
  <2>2. fs[a] \in 1 .. Len(m) /\ fs[a] >= i
    BY ElementOfSeq DEF Found
  <2>3. QED
    BY <2>2
<1>3. QED
  BY <1>1, <1>2 DEF Found

LEMMA FoundFirst ==
  ASSUME NEW m, Len(m) \in Nat, NEW i \in 1 .. Len(m), NEW fs,
         Found(fs, m, EndOf(i) + 1), BeginsAt(m, i), IsFrame(m, i)
  PROVE  Found(<<i>> \o fs, m, i)
<1>1. PICK n \in Nat : n = FrameLen /\ n >= 5
  BY Sizes
<1>2. PICK e \in Int : e = EndOf(i) /\ e = i + n - 1
  BY <1>1, Sizes
<1>3. e <= Len(m)
  BY <1>2 DEF IsFrame
<1>4. PICK gs : gs = <<i>> \o fs
  OBVIOUS
<1>5. fs \in Seq(1 .. Len(m)) /\ <<i>> \in Seq(1 .. Len(m)) /\ Len(<<i>>) = 1
  BY DEF Found
<1>6. /\ gs \in Seq(1 .. Len(m)) /\ Len(gs) = Len(fs) + 1 /\ Len(fs) \in Nat
      /\ gs[1] = i /\ \A a \in 2 .. Len(fs) + 1 : gs[a] = fs[a - 1]
  BY <1>4, <1>5, ConcatProperties, LenProperties
<1>7. DOMAIN gs = 1 .. Len(fs) + 1 /\ DOMAIN fs = 1 .. Len(fs)
  BY <1>5, <1>6, LenProperties
<1>8. \A a \in DOMAIN fs : fs[a] \in 1 .. Len(m) /\ fs[a] >= e + 1 /\ BeginsAt(m, fs[a]) /\ IsFrame(m, fs[a])
  BY <1>2, <1>5, ElementOfSeq DEF Found
<1>9. ASSUME NEW a \in DOMAIN gs PROVE gs[a] >= i /\ BeginsAt(m, gs[a]) /\ IsFrame(m, gs[a])
  <2>1. CASE a = 1
    BY <1>6, <2>1
  <2>2. CASE a # 1
    <3>1. a - 1 \in DOMAIN fs /\ gs[a] = fs[a - 1]
      <4>1. a \in 2 .. Len(fs) + 1 /\ a - 1 \in 1 .. Len(fs)
        BY <1>6, <1>7, <2>2
      <4>2. QED
        BY <4>1, <1>6, <1>7
    <3>2. QED
      BY <1>2, <1>1, <1>8, <3>1
  <2>3. QED
    BY <2>1, <2>2
<1>10. ASSUME NEW a \in DOMAIN gs, NEW b \in DOMAIN gs, a < b PROVE EndOf(gs[a]) < gs[b]
  <2>1. b - 1 \in DOMAIN fs /\ gs[b] = fs[b - 1]
    BY <1>6, <1>7, <1>10
  <2>2. CASE a = 1
    <3>1. EndOf(gs[a]) = e /\ fs[b - 1] >= e + 1 /\ fs[b - 1] \in 1 .. Len(m)
      BY <1>2, <1>6, <1>8, <2>1, <2>2
    <3>2. QED
      BY <2>1, <3>1, <1>2
  <2>3. CASE a # 1
    <3>1. a - 1 \in DOMAIN fs /\ gs[a] = fs[a - 1] /\ a - 1 < b - 1
      <4>1. a \in 2 .. Len(fs) + 1 /\ a - 1 \in 1 .. Len(fs) /\ a - 1 < b - 1
        BY <1>6, <1>7, <1>10, <2>3
      <4>2. QED
        BY <4>1, <1>6, <1>7
    <3>2. QED
      BY <2>1, <3>1 DEF Found
  <2>4. QED
    BY <2>2, <2>3
<1>11. ASSUME NEW p \in i .. Len(m), WholeAt(m, p) PROVE \E a \in DOMAIN gs : gs[a] = p
  <2>1. CASE p = i
    BY <1>6, <1>7, <2>1
  <2>2. CASE p # i
    <3>1. e < p
      <4>1. p \in 1 .. Len(m) /\ i \in 1 .. p
        OBVIOUS
      <4>2. EndOf(i) < p
        BY <4>1, <1>11, <2>2, WholeIsFrame
      <4>3. QED
        BY <4>2, <1>2
    <3>2. p \in e + 1 .. Len(m)
      BY <1>2, <3>1
    <3>3. PICK a \in DOMAIN fs : fs[a] = p
      BY <1>2, <1>11, <3>2 DEF Found
    <3>4. a + 1 \in DOMAIN gs /\ gs[a + 1] = fs[a]
      <4>1. a + 1 \in 2 .. Len(fs) + 1 /\ (a + 1) - 1 = a
        BY <1>6, <1>7
      <4>2. QED
        BY <4>1, <1>6, <1>7
    <3>5. QED
      BY <3>3, <3>4
  <2>3. QED
    BY <2>1, <2>2
<1>12. QED
  BY <1>4, <1>6, <1>9, <1>10, <1>11 DEF Found

\* What is found from the begin mark that is next to a place.
LEMMA FoundNext ==
  ASSUME NEW m, Len(m) \in Nat, NEW k \in Nat \ {0},
         \A i \in k .. Len(m) - 1 : BeginsAt(m, i) => Found(Search(m)[i], m, i)
  PROVE  Found(Search(m)[Find(m, k)], m, k)
<1>1. CASE Find(m, k) = 0 /\ \A i \in k .. Len(m) - 1 : ~ BeginsAt(m, i)
  <2>1. Search(m)[0] = <<>>
    <3>1. 0 \in 0 .. Len(m)
      OBVIOUS
    <3>2. Search(m)[0] = Turn(Search(m), m, 0)
      BY <3>1, SearchEnds
    <3>3. QED
      BY <3>2 DEF Turn
  <2>2. ASSUME NEW p \in k .. Len(m), WholeAt(m, p) PROVE FALSE
    <3>1. p \in 1 .. Len(m)
      OBVIOUS
    <3>2. BeginsAt(m, p) /\ p + 4 <= Len(m)
      BY <2>2, <3>1, WholeIsFrame
    <3>3. QED
      BY <1>1, <3>2
  <2>3. <<>> \in Seq(1 .. Len(m)) /\ DOMAIN <<>> = {}
    OBVIOUS
  <2>4. QED
    BY <1>1, <2>1, <2>2, <2>3 DEF Found
<1>2. CASE /\ Find(m, k) \in k .. Len(m) - 1
           /\ BeginsAt(m, Find(m, k))
           /\ \A i \in k .. Find(m, k) - 1 : ~ BeginsAt(m, i)
  <2>1. PICK f \in k .. Len(m) - 1 : f = Find(m, k)
    BY <1>2
  <2>2. Found(Search(m)[f], m, f)
    BY <1>2, <2>1
  <2>3. ASSUME NEW j \in k .. f - 1 PROVE ~ WholeAt(m, j)
    <3>1. j \in 1 .. Len(m) /\ ~ BeginsAt(m, j)
      BY <1>2, <2>1
    <3>2. QED
      BY <3>1, WholeIsFrame
  <2>4. f \in k .. Len(m)
    OBVIOUS
  <2>5. QED
    BY <2>1, <2>2, <2>3, <2>4, FoundEarlier
<1>3. QED
  BY <1>1, <1>2, FindsFirst

LEMMA SearchFinds ==
  ASSUME NEW m, Len(m) \in Nat
  PROVE  \A i \in 1 .. Len(m) - 1 : BeginsAt(m, i) => Found(Search(m)[i], m, i)
<1> DEFINE n == Len(m) - 1
<1> DEFINE T == {i \in 1 .. n : BeginsAt(m, i) => Found(Search(m)[i], m, i)}
<1>1. ASSUME NEW i \in 1 .. n, \A j \in i + 1 .. n : j \in T
      PROVE  i \in T
  <2>1. SUFFICES ASSUME BeginsAt(m, i) PROVE Found(Search(m)[i], m, i)
    OBVIOUS
  <2>2. PICK s : s = Search(m)[i]
    OBVIOUS
  <2>3. s = Turn(Search(m), m, i)
    <3>1. i \in 0 .. Len(m)
      OBVIOUS
    <3>2. QED
      BY <2>2, <3>1, SearchEnds
  <2>4. \A k \in Nat \ {0} : k > i => Found(Search(m)[Find(m, k)], m, k)
    <3>1. SUFFICES ASSUME NEW k \in Nat \ {0}, k > i PROVE Found(Search(m)[Find(m, k)], m, k)
      OBVIOUS
    <3>2. \A j \in k .. Len(m) - 1 : BeginsAt(m, j) => Found(Search(m)[j], m, j)
      BY <1>1, <3>1
    <3>3. QED
      BY <3>2, FoundNext
  <2>5. EndOf(i) = i + FrameLen - 1 /\ AfterBegin(i) = i + 2 /\ FrameLen \in Nat /\ FrameLen >= 5
          /\ Len(BeginMess) = 2
    <3>1. i \in Int
      OBVIOUS
    <3>2. QED
      BY <3>1, Sizes, Zenon
  <2>6. CASE i + 3 > Len(m)
    <3>1. s = <<>>
      BY <2>3, <2>5, <2>6 DEF Turn
    <3>2. \A p \in i .. Len(m) : ~ WholeAt(m, p)
      BY <2>6, WholeIsFrame
    <3>3. <<>> \in Seq(1 .. Len(m)) /\ DOMAIN <<>> = {}
      OBVIOUS
    <3>4. QED
      BY <2>2, <3>1, <3>2, <3>3 DEF Found
  <2>7. CASE ~ (i + 3 > Len(m)) /\ IsFrame(m, i)
    <3>1. s = <<i>> \o Search(m)[Find(m, EndOf(i) + 1)]
      BY <2>3, <2>5, <2>7, SMTT(60) DEF Turn
    <3>2. EndOf(i) + 1 \in Nat \ {0} /\ EndOf(i) + 1 > i
      BY <2>5
    <3>3. Found(Search(m)[Find(m, EndOf(i) + 1)], m, EndOf(i) + 1)
      BY <2>4, <3>2
    <3>4. i \in 1 .. Len(m)
      OBVIOUS
    <3>5. QED
      BY <2>1, <2>2, <2>7, <3>1, <3>3, <3>4, FoundFirst
  <2>8. CASE ~ (i + 3 > Len(m)) /\ ~ IsFrame(m, i)
    <3>1. s = Search(m)[Find(m, i + 2)]
      BY <2>3, <2>5, <2>8 DEF Turn
    <3>2. Found(s, m, i + 2)
      <4>1. i + 2 \in Nat \ {0} /\ i + 2 > i
        OBVIOUS
      <4>2. QED
        BY <2>4, <3>1, <4>1
    <3>3. ASSUME NEW j \in i .. i + 1 PROVE ~ WholeAt(m, j)
      <4>1. j \in 1 .. Len(m) /\ i \in 1 .. j
        BY <2>8
      <4>2. QED
        BY <2>1, <2>8, <4>1, WholeIsFrame
    <3>4. i + 2 \in i .. Len(m) /\ i \in Nat \ {0}
      BY <2>8
    <3>5. \A j \in i .. (i + 2) - 1 : ~ WholeAt(m, j)
      BY <3>3
    <3>6. QED
      BY <2>2, <3>2, <3>4, <3>5, FoundEarlier
  <2>9. QED
    BY <2>6, <2>7, <2>8
<1>2. CASE n \in Nat
  <2>1. \A i \in 1 .. n : i \in T
    <3> HIDE DEF T, n
    <3> QED BY <1>1, <1>2, FromEndDown, Zenon
  <2>2. QED
    BY <2>1
<1>3. CASE n \notin Nat
  BY <1>3
<1>4. QED
  BY <1>2, <1>3

\* receiveData finds each frame that came whole, and no two that overlap.
LEMMA FramesFound ==
  ASSUME NEW m, Len(m) \in Nat PROVE Found(FramesIn(m), m, 1)
<1>1. \A i \in 1 .. Len(m) - 1 : BeginsAt(m, i) => Found(Search(m)[i], m, i)
  BY SearchFinds
<1>2. FramesIn(m) = Search(m)[Find(m, 1)]
  BY FramesFromIs DEF FramesIn
<1>3. 1 \in Nat \ {0}
  OBVIOUS
<1>4. QED
  BY <1>1, <1>2, <1>3, FoundNext

-----------------------------------------------------------------------------
(* What a device sends.                                                    *)

Places == 1 .. FrameLen

UnitAt(f, j) == [frame |-> f, place |-> j, kind |-> KindOf(j)]

Units == {UnitAt(f, j) : f \in 1 .. Frames, j \in Places}

\* Frames sent whole, and units sent of the next, after n units.
Whole(n) == n \div FrameLen
Part(n)  == n % FrameLen

LEMMA Quotients ==
  ASSUME NEW n \in Nat
  PROVE  /\ Whole(n) \in Nat /\ Part(n) \in 0 .. FrameLen - 1
         /\ n = Whole(n) * FrameLen + Part(n)
         /\ \A q \in Nat, r \in 0 .. FrameLen - 1 :
              n = q * FrameLen + r => q = Whole(n) /\ r = Part(n)
<1>1. PICK l \in Nat : l = FrameLen /\ l >= 5
  BY Sizes
<1>2. n \div l \in Nat /\ n % l \in 0 .. l - 1 /\ n = (n \div l) * l + (n % l)
  BY <1>1
<1>3. ASSUME NEW q \in Nat, NEW r \in 0 .. l - 1, n = q * l + r
      PROVE  q = n \div l /\ r = n % l
  BY <1>1, <1>3
<1>4. QED
  BY <1>1, <1>2, <1>3 DEF Whole, Part

\* The next unit, and what has been sent with it.
LEMMA NextUnit ==
  ASSUME NEW n \in Nat
  PROVE  /\ Unit(n + 1) = UnitAt(Whole(n) + 1, Part(n) + 1)
         /\ Part(n) + 1 \in Places
         /\ IF Part(n) + 1 = FrameLen
            THEN Whole(n + 1) = Whole(n) + 1 /\ Part(n + 1) = 0
            ELSE Whole(n + 1) = Whole(n) /\ Part(n + 1) = Part(n) + 1
<1>1. PICK l \in Nat : l = FrameLen /\ l >= 5
  BY Sizes
<1>2. PICK q \in Nat, r \in 0 .. l - 1 : q = Whole(n) /\ r = Part(n) /\ n = q * l + r
  BY <1>1, Quotients
<1>3. Unit(n + 1) = UnitAt(q + 1, r + 1)
  <2>1. (n + 1) - 1 = n
    OBVIOUS
  <2>2. Unit(n + 1) = [frame |-> q + 1, place |-> r + 1, kind |-> KindOf(r + 1)]
    BY <1>2, <2>1 DEF Unit, KindOf, Whole, Part
  <2>3. QED
    BY <2>2 DEF UnitAt
<1>4. CASE r + 1 = l
  <2>1. n + 1 = (q + 1) * l + 0 /\ q + 1 \in Nat /\ 0 \in 0 .. l - 1
    <3>1. (q + 1) * l = q * l + l /\ q * l \in Nat
      BY <1>1, <1>2
    <3>2. QED
      BY <1>1, <1>2, <1>4, <3>1
  <2>2. q + 1 = Whole(n + 1) /\ 0 = Part(n + 1)
    <3>1. n + 1 \in Nat
      OBVIOUS
    <3>2. QED
      BY <1>1, <2>1, <3>1, Quotients, Zenon
  <2>3. QED
    BY <1>1, <1>2, <1>3, <1>4, <2>2 DEF Places
<1>5. CASE r + 1 # l
  <2>1. n + 1 = q * l + (r + 1) /\ r + 1 \in 0 .. l - 1
    BY <1>1, <1>2, <1>5, SMTT(60)
  <2>2. q = Whole(n + 1) /\ r + 1 = Part(n + 1)
    <3>1. n + 1 \in Nat
      OBVIOUS
    <3>2. QED
      BY <1>1, <2>1, <3>1, Quotients, Zenon
  <2>3. QED
    BY <1>1, <1>2, <1>3, <1>5, <2>2 DEF Places
<1>6. QED
  BY <1>4, <1>5

\* How many units make how many frames.
LEMMA WholeFrames ==
  ASSUME NEW n \in Nat, NEW f \in Nat
  PROVE  /\ f <= Whole(n) <=> n >= f * FrameLen
         /\ n < f * FrameLen => Whole(n) < f
<1>1. PICK l \in Nat : l = FrameLen /\ l >= 5
  BY Sizes
<1>2. PICK q \in Nat, r \in 0 .. l - 1 : q = Whole(n) /\ r = Part(n) /\ n = q * l + r
  BY <1>1, Quotients
<1>3. CASE f <= q
  <2>1. PICK d \in Nat : q = f + d
    BY <1>3
  <2>2. q * l = f * l + d * l /\ d * l \in Nat /\ f * l \in Nat
    BY <2>1
  <2>3. QED
    BY <1>1, <1>2, <1>3, <2>2
<1>4. CASE ~ (f <= q)
  <2>1. PICK d \in Nat : f = q + 1 + d
    BY <1>4
  <2>2. f * l = q * l + l + d * l /\ d * l \in Nat /\ q * l \in Nat
    BY <2>1
  <2>3. QED
    BY <1>1, <1>2, <1>4, <2>2
<1>5. QED
  BY <1>3, <1>4

LEMMA UnitFacts ==
  /\ \A u \in Units : /\ u.frame \in 1 .. Frames /\ u.place \in Places
                      /\ u.kind = KindOf(u.place) /\ u = UnitAt(u.frame, u.place)
  /\ \A f, j : UnitAt(f, j).frame = f /\ UnitAt(f, j).place = j /\ UnitAt(f, j).kind = KindOf(j)
BY DEF Units, UnitAt

LEMMA SentIsUnit ==
  ASSUME NEW n \in Nat, n < Frames * FrameLen
  PROVE  Unit(n + 1) \in Units /\ Whole(n) + 1 \in 1 .. Frames
<1>1. Frames \in Nat
  BY ReceiveAssumption
<1>2. Whole(n) < Frames /\ Whole(n) \in Nat
  BY <1>1, WholeFrames, Quotients
<1>3. Whole(n) + 1 \in 1 .. Frames
  BY <1>1, <1>2
<1>4. QED
  BY <1>3, NextUnit DEF Units

-----------------------------------------------------------------------------
(* What is on its way, of which q frames and r units of the next were sent. *)

Upto(u, q, r) == u.frame <= q \/ (u.frame = q + 1 /\ u.place <= r)

Before(u, v) == u.frame < v.frame \/ (u.frame = v.frame /\ u.place < v.place)

\* Units in the order in which they were sent.
Stream(w, q, r) ==
  /\ w \in Seq(Units)
  /\ \A i \in DOMAIN w : Upto(w[i], q, r)
  /\ \A i, j \in DOMAIN w : i < j => Before(w[i], w[j])

\* Units sent of frame f.
Got(f, q, r) == IF f <= q THEN FrameLen ELSE IF f = q + 1 THEN r ELSE 0

\* The first g units of frame f, one behind the other, from p on.
BlockAt(w, f, g, p) == p + g - 1 <= Len(w) /\ \A j \in 1 .. g : w[p + j - 1] = UnitAt(f, j)

NoneOf(w, f) == \A i \in DOMAIN w : w[i].frame # f

Absent(st, f) == \A i \in DOMAIN st : st[i] # Payload(f)
OnceAt(st, f, i) == st[i] = Payload(f) /\ \A j \in DOMAIN st : st[j] = Payload(f) => j = i

\* A frame of which nothing was lost is stored, once, and gone; or it is not,
\* and all that was sent of it is there.
Served(w, q, r, st, br) ==
  \A f \in 1 .. Frames : f \notin br =>
    \/ f <= q /\ NoneOf(w, f) /\ \E i \in DOMAIN st : OnceAt(st, f, i)
    \/ Absent(st, f) /\ \E p \in Nat \ {0} : BlockAt(w, f, Got(f, q, r), p)

Payloads == [1 .. PayloadLen -> (1 .. Frames) \X Places]

LEMMA PayloadAtType ==
  ASSUME NEW m \in Seq(Units), NEW st \in 1 .. Len(m), IsFrame(m, st)
  PROVE  PayloadAt(m, st) \in Payloads
<1>1. EndOf(st) = st + 3 + PayloadLen /\ PayloadLen \in Nat
  BY Sizes
<1>2. \A i \in 1 .. PayloadLen : st + 2 + i \in 1 .. Len(m)
  BY <1>1 DEF IsFrame
<1>3. \A i \in 1 .. PayloadLen : m[st + 2 + i].frame \in 1 .. Frames /\ m[st + 2 + i].place \in Places
  BY <1>2, ElementOfSeq, UnitFacts
<1>4. QED
  BY <1>3 DEF PayloadAt, Payloads

\* A payload that is that of frame f was read where f is.
LEMMA PayloadTells ==
  ASSUME NEW m, NEW st \in Nat, NEW f, PayloadAt(m, st) = Payload(f)
  PROVE  m[st + 3].frame = f /\ m[st + 3].place = 4
<1>1. 1 \in 1 .. PayloadLen
  BY Sizes
<1>2. PayloadAt(m, st)[1] = <<m[st + 2 + 1].frame, m[st + 2 + 1].place>>
  BY <1>1 DEF PayloadAt
<1>3. Payload(f)[1] = <<f, 1 + 3>>
  BY <1>1 DEF Payload
<1>4. st + 2 + 1 = st + 3 /\ 1 + 3 = 4
  OBVIOUS
<1>5. QED
  BY <1>2, <1>3, <1>4

LEMMA PayloadsDiffer ==
  ASSUME NEW f, NEW g, Payload(f) = Payload(g) PROVE f = g
<1>1. 1 \in 1 .. PayloadLen
  BY Sizes
<1>2. Payload(f)[1] = <<f, 1 + 3>> /\ Payload(g)[1] = <<g, 1 + 3>>
  BY <1>1 DEF Payload
<1>3. QED
  BY <1>2

\* A unit is in a stream once.
LEMMA UnitOnce ==
  ASSUME NEW w, NEW q, NEW r, Stream(w, q, r), NEW i \in DOMAIN w, NEW j \in DOMAIN w,
         w[i].frame = w[j].frame, w[i].place = w[j].place
  PROVE  i = j
<1>1. DOMAIN w = 1 .. Len(w) /\ Len(w) \in Nat
  BY LenProperties DEF Stream
<1>2. w[i] \in Units /\ w[j] \in Units
  BY <1>1, ElementOfSeq DEF Stream
<1>3. w[i].frame \in Int /\ w[i].place \in Int
  BY <1>2, UnitFacts DEF Places
<1>4. i < j => FALSE
  BY <1>3 DEF Stream, Before
<1>5. j < i => FALSE
  BY <1>3 DEF Stream, Before
<1>6. QED
  BY <1>1, <1>4, <1>5

-----------------------------------------------------------------------------
(* What receiveData does to it: m the data received, the beginning of w.   *)

Begins(m, w) == m \in Seq(Units) /\ Len(m) <= Len(w) /\ \A i \in 1 .. Len(m) : m[i] = w[i]

\* Frame f, of which g units are there from p on, is in m up to its end.
AllIn(m, g, p) == g = FrameLen /\ p + FrameLen - 1 <= Len(m)

\* An end mark that is not the frame's own stands in front of it.
LEMMA EndIsBefore ==
  ASSUME NEW w, NEW m, NEW q \in Nat, NEW r \in 0 .. FrameLen - 1, NEW f \in 1 .. Frames,
         NEW p \in Nat \ {0}, NEW e \in 1 .. Len(m),
         Stream(w, q, r), Begins(m, w), BlockAt(w, f, Got(f, q, r), p), Got(f, q, r) > 0,
         m[e].kind = EndMess, ~ AllIn(m, Got(f, q, r), p)
  PROVE  e < p
<1>1. PICK l \in Nat : l = FrameLen /\ l >= 5
  BY Sizes
<1>2. PICK g \in 1 .. l : g = Got(f, q, r) /\ (f <= q => g = l) /\ (g < l => f = q + 1 /\ g = r)
  BY <1>1 DEF Got
<1>3. SUFFICES ASSUME e >= p PROVE FALSE
  OBVIOUS
<1>4. w \in Seq(Units) /\ DOMAIN w = 1 .. Len(w) /\ Len(w) \in Nat /\ Len(m) \in Nat
  BY LenProperties DEF Stream, Begins
<1>5. e \in DOMAIN w /\ w[e] = m[e] /\ w[e] \in Units
  BY <1>4, ElementOfSeq DEF Begins
<1>6. p + g - 1 <= Len(w) /\ \A j \in 1 .. g : w[p + j - 1] = UnitAt(f, j)
  BY <1>2 DEF BlockAt
<1>7. CASE e <= p + g - 1
  <2>1. PICK j \in 1 .. g : j = e - p + 1
    BY <1>3, <1>7
  <2>2. w[e] = UnitAt(f, j)
    <3>1. p + j - 1 = e
      BY <2>1
    <3>2. QED
      BY <1>6, <3>1
  <2>3. KindOf(j) = EndMess /\ j \in 1 .. l
    BY <1>5, <2>2, UnitFacts
  <2>4. j = l
    BY <1>1, <2>3, Kinds
  <2>5. g = l /\ p + l - 1 <= Len(m)
    BY <2>1, <2>4, <1>4
  <2>6. QED
    BY <1>1, <1>2, <2>5 DEF AllIn
<1>8. CASE e > p + g - 1
  <2>1. g < l
    <3>1. g = l => p + l - 1 <= Len(m)
      BY <1>4, <1>8
    <3>2. QED
      BY <1>1, <1>2, <3>1 DEF AllIn
  <2>2. f = q + 1 /\ g = r
    BY <1>2, <2>1
  <2>3. PICK x \in DOMAIN w : x = p + g - 1 /\ w[x] = UnitAt(f, g)
    BY <1>2, <1>4, <1>6
  <2>4. x < e
    BY <1>8, <2>3
  <2>5. Before(w[x], w[e]) /\ Upto(w[e], q, r)
    BY <1>5, <2>3, <2>4 DEF Stream
  <2>6. w[x].frame = f /\ w[x].place = g
    BY <2>3, UnitFacts
  <2>7. w[e].frame \in Int /\ w[e].place \in Int
    BY <1>5, UnitFacts DEF Places
  <2>8. QED
    BY <2>2, <2>5, <2>6, <2>7 DEF Before, Upto
<1>9. QED
  BY <1>4, <1>7, <1>8

\* What is taken for frame f is frame f, and all of it.
LEMMA TakenIsAllIn ==
  ASSUME NEW w, NEW m, NEW q \in Nat, NEW r \in 0 .. FrameLen - 1, NEW f \in 1 .. Frames,
         NEW p \in Nat \ {0}, NEW st \in 1 .. Len(m),
         Stream(w, q, r), Begins(m, w), BlockAt(w, f, Got(f, q, r), p),
         IsFrame(m, st), PayloadAt(m, st) = Payload(f)
  PROVE  st = p /\ AllIn(m, Got(f, q, r), p)
<1>1. PICK l \in Nat : l = FrameLen /\ l >= 5
  BY Sizes
<1>2. w \in Seq(Units) /\ DOMAIN w = 1 .. Len(w) /\ Len(w) \in Nat /\ Len(m) \in Nat
  BY LenProperties DEF Stream, Begins
<1>3. PICK e \in Nat : e = EndOf(st) /\ e = st + l - 1
  BY <1>1, <1>2, Sizes
<1>4. e \in 1 .. Len(m) /\ m[e].kind = EndMess
  BY <1>1, <1>2, <1>3 DEF IsFrame
<1>5. PICK k \in DOMAIN w : k = st + 3 /\ k \in 1 .. Len(m)
  BY <1>1, <1>2, <1>3, <1>4 DEF Begins
<1>6. w[k].frame = f /\ w[k].place = 4 /\ Upto(w[k], q, r)
  <2>1. m[k].frame = f /\ m[k].place = 4
    <3>1. st \in Nat
      BY <1>2
    <3>2. QED
      BY <1>5, <3>1, PayloadTells
  <2>2. QED
    BY <1>5, <2>1 DEF Begins, Stream
<1>7. PICK g \in 4 .. l : g = Got(f, q, r)
  BY <1>1, <1>6 DEF Got, Upto
<1>8. PICK x \in DOMAIN w : x = p + 3 /\ w[x] = UnitAt(f, 4)
  <2>1. p + 4 - 1 = p + 3 /\ 4 \in 1 .. g /\ p + g - 1 <= Len(w)
    BY <1>7 DEF BlockAt
  <2>2. QED
    BY <1>2, <1>7, <2>1 DEF BlockAt
<1>9. k = x
  BY <1>6, <1>8, UnitFacts, UnitOnce
<1>10. st = p
  BY <1>2, <1>5, <1>8, <1>9
<1>11. AllIn(m, Got(f, q, r), p)
  <2>1. SUFFICES ASSUME ~ AllIn(m, Got(f, q, r), p) PROVE FALSE
    OBVIOUS
  <2>2. Got(f, q, r) > 0
    BY <1>7
  <2>3. e < p
    BY <1>4, <2>1, <2>2, EndIsBefore
  <2>4. QED
    BY <1>1, <1>3, <1>10, <2>3
<1>12. QED
  BY <1>10, <1>11

\* A frame that is in m up to its end came whole, and its payload is its own.
LEMMA AllInIsWhole ==
  ASSUME NEW w, NEW m, NEW f \in 1 .. Frames, NEW g, NEW p \in Nat \ {0},
         Begins(m, w), BlockAt(w, f, g, p), AllIn(m, g, p), Len(w) \in Nat
  PROVE  p \in 1 .. Len(m) /\ WholeAt(m, p) /\ PayloadAt(m, p) = Payload(f)
<1>1. PICK l \in Nat : l = FrameLen /\ l >= 5 /\ l = PayloadLen + 4
  BY Sizes
<1>2. Len(m) \in Nat
  BY LenProperties DEF Begins
<1>3. g = l /\ p + l - 1 <= Len(m)
  BY <1>1 DEF AllIn
<1>4. ASSUME NEW j \in 1 .. l PROVE m[p + j - 1] = UnitAt(f, j)
  <2>1. p + j - 1 \in 1 .. Len(m)
    BY <1>2, <1>3
  <2>2. QED
    BY <1>3, <2>1 DEF Begins, BlockAt
<1>5. WholeAt(m, p)
  BY <1>1, <1>3, <1>4, UnitFacts, SMTT(60) DEF WholeAt
<1>6. ASSUME NEW i \in 1 .. PayloadLen PROVE m[p + 2 + i].frame = f /\ m[p + 2 + i].place = i + 3
  <2>1. i + 3 \in 1 .. l /\ p + (i + 3) - 1 = p + 2 + i
    BY <1>1, Sizes
  <2>2. m[p + 2 + i] = UnitAt(f, i + 3)
    BY <1>4, <2>1
  <2>3. QED
    BY <2>2, UnitFacts
<1>7. PayloadAt(m, p) = Payload(f)
  BY <1>6 DEF PayloadAt, Payload
<1>8. p \in 1 .. Len(m)
  BY <1>1, <1>2, <1>3
<1>9. QED
  BY <1>5, <1>7, <1>8

\* What is left begins behind the last frame.
Taken(fs) == IF fs = <<>> THEN 0 ELSE EndOf(Last(fs))

LEMMA RestIs ==
  ASSUME NEW m \in Seq(Units), NEW fs, Found(fs, m, 1)
  PROVE  /\ Taken(fs) \in 0 .. Len(m)
         /\ Taken(fs) > 0 => m[Taken(fs)].kind = EndMess
         /\ \A a \in DOMAIN fs : fs[a] \in 1 .. Len(m) /\ IsFrame(m, fs[a]) /\ EndOf(fs[a]) <= Taken(fs)
         /\ Rest(m, fs) \in Seq(Units)
         /\ Len(Rest(m, fs)) = Len(m) - Taken(fs)
         /\ \A i \in 1 .. Len(m) - Taken(fs) : Rest(m, fs)[i] = m[Taken(fs) + i]
<1>1. PICK l \in Nat : l = FrameLen /\ l >= 5
  BY Sizes
<1>2. fs \in Seq(1 .. Len(m)) /\ DOMAIN fs = 1 .. Len(fs) /\ Len(fs) \in Nat /\ Len(m) \in Nat
  BY LenProperties DEF Found
<1>3. \A a \in DOMAIN fs : fs[a] \in 1 .. Len(m) /\ IsFrame(m, fs[a])
  BY <1>2, ElementOfSeq DEF Found
<1>4. CASE fs = <<>>
  BY <1>2, <1>3, <1>4 DEF Taken, Rest
<1>5. CASE fs # <<>>
  <2>1. PICK z \in DOMAIN fs : z = Len(fs)
    BY <1>2, <1>5
  <2>2. PICK y \in 1 .. Len(m) : y = fs[z] /\ IsFrame(m, y)
    BY <1>3
  <2>9. PICK e \in Nat : e = EndOf(y) /\ e = y + l - 1
    <3>1. y \in Int /\ y \in Nat
      BY <1>2
    <3>2. EndOf(y) = y + FrameLen - 1
      BY <3>1, Sizes, Zenon
    <3>3. QED
      BY <1>1, <3>1, <3>2
  <2>3. Taken(fs) = e
    BY <1>5, <2>1, <2>2, <2>9 DEF Taken, Last
  <2>4. e \in 1 .. Len(m) /\ m[e].kind = EndMess
    BY <1>1, <1>2, <2>2, <2>9 DEF IsFrame
  <2>5. ASSUME NEW a \in DOMAIN fs PROVE EndOf(fs[a]) <= e
    <3>1. CASE a = z
      <4>1. fs[a] = y
        BY <2>2, <3>1
      <4>2. EndOf(fs[a]) = e
        BY <2>9, <4>1
      <4>3. QED
        BY <4>2
    <3>2. CASE a # z
      <4>1. a < z
        BY <1>2, <2>1, <3>2
      <4>2. EndOf(fs[a]) < y
        BY <2>2, <4>1 DEF Found
      <4>3. PICK x \in 1 .. Len(m) : x = fs[a]
        BY <1>3
      <4>4. EndOf(x) \in Int
        <5>1. x \in Int
          BY <1>2
        <5>2. EndOf(x) = x + FrameLen - 1
          BY <5>1, Sizes, Zenon
        <5>3. QED
          BY <1>1, <5>1, <5>2
      <4>5. QED
        BY <1>1, <1>2, <2>9, <4>2, <4>3, <4>4
    <3>3. QED
      BY <3>1, <3>2
  <2>6. Rest(m, fs) = SubSeq(m, e + 1, Len(m))
    BY <1>5, <2>3 DEF Rest, Taken
  <2>7. /\ Rest(m, fs) \in Seq(Units)
        /\ Len(Rest(m, fs)) = Len(m) - e
        /\ \A i \in 1 .. Len(m) - e : Rest(m, fs)[i] = m[e + i]
    <3>1. e + 1 \in 1 .. Len(m) + 1 /\ Len(m) \in e .. Len(m)
      BY <2>4
    <3>2. PICK x : x = SubSeq(m, e + 1, Len(m))
      OBVIOUS
    <3>3. x \in Seq(Units) /\ Len(x) = Len(m) - (e + 1) + 1 /\ \A i \in 1 .. Len(x) : x[i] = m[(e + 1) + i - 1]
      BY <1>2, <3>1, <3>2, SubSeqProperties
    <3>4. \A i \in 1 .. Len(m) - e : (e + 1) + i - 1 = e + i
      BY <1>2
    <3>5. Len(m) - (e + 1) + 1 = Len(m) - e
      BY <1>2
    <3>6. QED
      BY <2>6, <3>2, <3>3, <3>4, <3>5
  <2>8. QED
    BY <1>2, <1>3, <2>3, <2>4, <2>5, <2>7
<1>6. QED
  BY <1>4, <1>5

\* The payloads that are stored.
News(m, fs) == [i \in DOMAIN fs |-> PayloadAt(m, fs[i])]

LEMMA NewsAre ==
  ASSUME NEW m \in Seq(Units), NEW fs, Found(fs, m, 1), NEW st \in Seq(Payloads)
  PROVE  /\ News(m, fs) \in Seq(Payloads) /\ st \o News(m, fs) \in Seq(Payloads)
         /\ Len(st \o News(m, fs)) = Len(st) + Len(fs) /\ Len(st) \in Nat /\ Len(fs) \in Nat
         /\ \A i \in 1 .. Len(st) : (st \o News(m, fs))[i] = st[i]
         /\ \A a \in 1 .. Len(fs) : (st \o News(m, fs))[Len(st) + a] = PayloadAt(m, fs[a])
<1>1. fs \in Seq(1 .. Len(m)) /\ DOMAIN fs = 1 .. Len(fs) /\ Len(fs) \in Nat /\ Len(st) \in Nat
  BY LenProperties DEF Found
<1>2. \A a \in DOMAIN fs : PayloadAt(m, fs[a]) \in Payloads
  BY RestIs, PayloadAtType
<1>3. PICK ns : ns = News(m, fs)
  OBVIOUS
<1>4. ns \in Seq(Payloads) /\ Len(ns) = Len(fs) /\ \A a \in 1 .. Len(fs) : ns[a] = PayloadAt(m, fs[a])
  BY <1>1, <1>2, <1>3 DEF News
<1>5. /\ st \o ns \in Seq(Payloads) /\ Len(st \o ns) = Len(st) + Len(ns)
      /\ \A i \in 1 .. Len(st) + Len(ns) : (st \o ns)[i] = IF i <= Len(st) THEN st[i] ELSE ns[i - Len(st)]
  BY <1>4, ConcatProperties, ZenonT(60)
<1>6. ASSUME NEW a \in 1 .. Len(fs) PROVE (st \o ns)[Len(st) + a] = PayloadAt(m, fs[a])
  <2>1. PICK n \in Nat : n = Len(st)
    BY <1>1
  <2>2. n + a \in 1 .. n + Len(ns) /\ ~ (n + a <= n) /\ (n + a) - n = a
    BY <1>1, <1>4
  <2>3. QED
    BY <1>4, <1>5, <2>1, <2>2
<1>7. \A i \in 1 .. Len(st) : (st \o ns)[i] = st[i]
  BY <1>1, <1>4, <1>5
<1>8. QED
  BY <1>1, <1>3, <1>4, <1>5, <1>6, <1>7

\* w without its first e units.
CutBy(w, v, e) ==
  /\ v \in Seq(Units) /\ Len(v) = Len(w) - e
  /\ \A i \in 1 .. Len(w) - e : v[i] = w[e + i]

LEMMA CutStream ==
  ASSUME NEW w, NEW v, NEW q, NEW r, NEW e \in 0 .. Len(w), Stream(w, q, r), CutBy(w, v, e)
  PROVE  Stream(v, q, r)
<1>1. DOMAIN w = 1 .. Len(w) /\ Len(w) \in Nat /\ DOMAIN v = 1 .. Len(w) - e
  BY LenProperties DEF Stream, CutBy
<1>2. \A i \in DOMAIN v : e + i \in DOMAIN w /\ v[i] = w[e + i]
  BY <1>1, SMTT(60) DEF CutBy
<1>3. ASSUME NEW i \in DOMAIN v, NEW j \in DOMAIN v, i < j PROVE Before(v[i], v[j])
  <2>1. e + i < e + j
    BY <1>1, <1>3
  <2>2. QED
    BY <1>2, <2>1 DEF Stream
<1>4. QED
  BY <1>2, <1>3 DEF Stream, CutBy

\* Frame f, stored and gone before, is not stored again.
LEMMA StoredStays ==
  ASSUME NEW w, NEW m, NEW v, NEW fs, NEW st \in Seq(Payloads), NEW f \in 1 .. Frames,
         NEW i \in DOMAIN st, w \in Seq(Units),
         Begins(m, w), Found(fs, m, 1), CutBy(w, v, Taken(fs)), OnceAt(st, f, i), NoneOf(w, f)
  PROVE  /\ NoneOf(v, f)
         /\ i \in DOMAIN (st \o News(m, fs)) /\ OnceAt(st \o News(m, fs), f, i)
<1>1. m \in Seq(Units) /\ Len(m) \in Nat /\ Len(w) \in Nat /\ DOMAIN w = 1 .. Len(w) /\ Len(m) <= Len(w)
  BY LenProperties DEF Begins
<1>2. PICK e \in 0 .. Len(m) : e = Taken(fs)
  BY <1>1, RestIs
<1>3. NoneOf(v, f)
  <2>1. DOMAIN v = 1 .. Len(w) - e
    BY <1>2, LenProperties DEF CutBy
  <2>2. \A k \in 1 .. Len(w) - e : v[k] = w[e + k]
    BY <1>2 DEF CutBy
  <2>3. \A k \in 1 .. Len(w) - e : e + k \in 1 .. Len(w)
    BY <1>1, <1>2
  <2>4. QED
    BY <1>1, <2>1, <2>2, <2>3 DEF NoneOf
<1>4. ASSUME NEW a \in 1 .. Len(fs) PROVE PayloadAt(m, fs[a]) # Payload(f)
  <2>1. SUFFICES ASSUME PayloadAt(m, fs[a]) = Payload(f) PROVE FALSE
    OBVIOUS
  <2>2. PICK x \in 1 .. Len(m) : x = fs[a] /\ IsFrame(m, x)
    <3>1. a \in DOMAIN fs
      BY LenProperties DEF Found
    <3>2. QED
      BY <1>1, <3>1, RestIs
  <2>3. x \in Nat /\ x + 3 \in 1 .. Len(m)
    <3>1. x \in Int /\ x \in Nat
      BY <1>1
    <3>2. EndOf(x) = x + FrameLen - 1 /\ FrameLen \in Nat /\ FrameLen >= 5
      BY <3>1, Sizes, Zenon
    <3>3. EndOf(x) <= Len(m)
      BY <2>2 DEF IsFrame
    <3>4. QED
      BY <1>1, <3>1, <3>2, <3>3
  <2>4. m[x + 3].frame = f
    BY <2>1, <2>2, <2>3, PayloadTells
  <2>5. QED
    BY <1>1, <2>3, <2>4 DEF NoneOf, Begins
<1>5. PICK s : s = st \o News(m, fs)
  OBVIOUS
<1>6. /\ s \in Seq(Payloads) /\ Len(s) = Len(st) + Len(fs) /\ Len(st) \in Nat /\ Len(fs) \in Nat
      /\ \A k \in 1 .. Len(st) : s[k] = st[k]
      /\ \A a \in 1 .. Len(fs) : s[Len(st) + a] = PayloadAt(m, fs[a])
  BY <1>1, <1>5, NewsAre
<1>7. DOMAIN st = 1 .. Len(st) /\ DOMAIN s = 1 .. Len(st) + Len(fs)
  BY <1>6, LenProperties
<1>8. i \in DOMAIN s /\ s[i] = Payload(f)
  BY <1>6, <1>7 DEF OnceAt
<1>9. ASSUME NEW j \in DOMAIN s, s[j] = Payload(f) PROVE j = i
  <2>1. CASE j <= Len(st)
    BY <1>6, <1>7, <1>9, <2>1 DEF OnceAt
  <2>2. CASE ~ (j <= Len(st))
    <3>1. PICK a \in 1 .. Len(fs) : j = Len(st) + a
      <4>1. j - Len(st) \in 1 .. Len(fs) /\ j = Len(st) + (j - Len(st))
        BY <1>6, <1>7, <2>2
      <4>2. QED
        BY <4>1
    <3>2. QED
      BY <1>4, <1>6, <1>9, <3>1
  <2>3. QED
    BY <2>1, <2>2
<1>10. QED
  BY <1>3, <1>5, <1>8, <1>9 DEF OnceAt

\* Frame f, there up to its end, is stored and gone.
LEMMA AllInIsStored ==
  ASSUME NEW w, NEW m, NEW v, NEW fs, NEW st \in Seq(Payloads), NEW q \in Nat,
         NEW r \in 0 .. FrameLen - 1, NEW f \in 1 .. Frames, NEW p \in Nat \ {0},
         Stream(w, q, r), Begins(m, w), Found(fs, m, 1), CutBy(w, v, Taken(fs)), Absent(st, f),
         BlockAt(w, f, Got(f, q, r), p), AllIn(m, Got(f, q, r), p)
  PROVE  /\ f <= q /\ NoneOf(v, f)
         /\ \E i \in DOMAIN (st \o News(m, fs)) : OnceAt(st \o News(m, fs), f, i)
<1>1. /\ m \in Seq(Units) /\ w \in Seq(Units) /\ Len(m) \in Nat /\ Len(w) \in Nat
      /\ DOMAIN w = 1 .. Len(w) /\ Len(m) <= Len(w)
  BY LenProperties DEF Begins, Stream
<1>2. PICK l \in Nat : l = FrameLen /\ l >= 5
  BY Sizes
<1>3. Got(f, q, r) = l /\ p + l - 1 <= Len(m)
  BY <1>2 DEF AllIn
<1>4. f <= q
  BY <1>2, <1>3 DEF Got
<1>5. p \in 1 .. Len(m) /\ WholeAt(m, p) /\ PayloadAt(m, p) = Payload(f)
  <2>1. PICK g : g = Got(f, q, r)
    OBVIOUS
  <2>2. QED
    BY <1>1, <2>1, AllInIsWhole
<1>6. PICK a \in DOMAIN fs : fs[a] = p
  BY <1>5 DEF Found
<1>7. PICK e \in 0 .. Len(m) : e = Taken(fs) /\ p + l - 1 <= e
  <2>1. p \in Int /\ EndOf(p) = p + l - 1
    BY <1>2, Sizes
  <2>2. QED
    BY <1>1, <1>6, <2>1, RestIs
<1>8. NoneOf(v, f)
  <2>1. SUFFICES ASSUME NEW k \in DOMAIN v, v[k].frame = f PROVE FALSE
    BY DEF NoneOf
  <2>2. DOMAIN v = 1 .. Len(w) - e
    BY <1>7, LenProperties DEF CutBy
  <2>3. PICK y \in DOMAIN w : y = e + k /\ w[y].frame = f
    BY <1>1, <1>7, <2>1, <2>2, SMTT(60) DEF CutBy
  <2>4. PICK x \in DOMAIN w : x = p + l - 1 /\ w[x] = UnitAt(f, l)
    <3>1. l \in 1 .. l /\ p + l - 1 <= Len(w)
      BY <1>1, <1>2, <1>3
    <3>2. QED
      BY <1>1, <1>2, <1>3, <3>1 DEF BlockAt
  <2>5. x < y
    BY <1>7, <2>2, <2>3, <2>4, SMTT(60)
  <2>6. Before(w[x], w[y])
    BY <2>5 DEF Stream
  <2>7. w[y] \in Units /\ w[y].frame \in Int /\ w[y].place \in 1 .. l /\ w[x].frame = f /\ w[x].place = l
    BY <1>1, <1>2, <2>4, ElementOfSeq, UnitFacts, SMTT(60) DEF Places
  <2>8. QED
    BY <2>3, <2>6, <2>7 DEF Before
<1>9. PICK s : s = st \o News(m, fs)
  OBVIOUS
<1>10. /\ s \in Seq(Payloads) /\ Len(s) = Len(st) + Len(fs) /\ Len(st) \in Nat /\ Len(fs) \in Nat
       /\ \A k \in 1 .. Len(st) : s[k] = st[k]
       /\ \A b \in 1 .. Len(fs) : s[Len(st) + b] = PayloadAt(m, fs[b])
  BY <1>1, <1>9, NewsAre, SMTT(60)
<1>11. DOMAIN st = 1 .. Len(st) /\ DOMAIN s = 1 .. Len(st) + Len(fs) /\ DOMAIN fs = 1 .. Len(fs)
  BY <1>10, LenProperties DEF Found
<1>12. PICK i \in DOMAIN s : i = Len(st) + a /\ s[i] = Payload(f)
  BY <1>5, <1>6, <1>10, <1>11
<1>13. ASSUME NEW j \in DOMAIN s, s[j] = Payload(f) PROVE j = i
  <2>1. CASE j <= Len(st)
    BY <1>10, <1>11, <1>13, <2>1 DEF Absent
  <2>2. CASE ~ (j <= Len(st))
    <3>1. PICK b \in 1 .. Len(fs) : j = Len(st) + b
      <4>1. j - Len(st) \in 1 .. Len(fs) /\ j = Len(st) + (j - Len(st))
        BY <1>10, <1>11, <2>2, SMTT(60)
      <4>2. QED
        BY <4>1
    <3>2. PayloadAt(m, fs[b]) = Payload(f) /\ b \in DOMAIN fs
      BY <1>10, <1>11, <1>13, <3>1
    <3>3. PICK x \in 1 .. Len(m) : x = fs[b] /\ IsFrame(m, x)
      BY <1>1, <3>2, RestIs
    <3>4. x = p
      BY <3>2, <3>3, TakenIsAllIn
    <3>5. a < b => FALSE
      <4>1. a < b => EndOf(p) < p
        BY <1>6, <3>2, <3>3, <3>4 DEF Found
      <4>2. p \in Int /\ EndOf(p) = p + l - 1
        BY <1>2, Sizes
      <4>3. QED
        BY <1>2, <4>1, <4>2
    <3>6. b < a => FALSE
      <4>1. b < a => EndOf(p) < p
        BY <1>6, <3>2, <3>3, <3>4 DEF Found
      <4>2. p \in Int /\ EndOf(p) = p + l - 1
        BY <1>2, Sizes
      <4>3. QED
        BY <1>2, <4>1, <4>2
    <3>7. a = b
      BY <1>11, <1>10, <3>5, <3>6, SMTT(60)
    <3>8. QED
      BY <1>12, <3>1, <3>7
  <2>3. QED
    BY <2>1, <2>2, <1>10, <1>11
<1>14. QED
  BY <1>4, <1>8, <1>9, <1>12, <1>13 DEF OnceAt

\* Frame f, not there up to its end, stays.
LEMMA PartStays ==
  ASSUME NEW w, NEW m, NEW v, NEW fs, NEW st \in Seq(Payloads), NEW q \in Nat,
         NEW r \in 0 .. FrameLen - 1, NEW f \in 1 .. Frames, NEW p \in Nat \ {0},
         Stream(w, q, r), Begins(m, w), Found(fs, m, 1), CutBy(w, v, Taken(fs)), Absent(st, f),
         BlockAt(w, f, Got(f, q, r), p), ~ AllIn(m, Got(f, q, r), p)
  PROVE  /\ Absent(st \o News(m, fs), f)
         /\ \E k \in Nat \ {0} : BlockAt(v, f, Got(f, q, r), k)
<1>1. /\ m \in Seq(Units) /\ w \in Seq(Units) /\ Len(m) \in Nat /\ Len(w) \in Nat
      /\ DOMAIN w = 1 .. Len(w) /\ Len(m) <= Len(w)
  BY LenProperties DEF Begins, Stream
<1>2. PICK l \in Nat : l = FrameLen /\ l >= 5
  BY Sizes
<1>3. PICK g \in 0 .. l : g = Got(f, q, r)
  BY <1>2 DEF Got
<1>4. PICK e \in 0 .. Len(m) : e = Taken(fs) /\ (e > 0 => m[e].kind = EndMess)
  BY <1>1, RestIs
<1>5. Absent(st \o News(m, fs), f)
  <2>1. PICK s : s = st \o News(m, fs)
    OBVIOUS
  <2>2. /\ s \in Seq(Payloads) /\ Len(s) = Len(st) + Len(fs) /\ Len(st) \in Nat /\ Len(fs) \in Nat
        /\ \A k \in 1 .. Len(st) : s[k] = st[k]
        /\ \A b \in 1 .. Len(fs) : s[Len(st) + b] = PayloadAt(m, fs[b])
    BY <1>1, <2>1, NewsAre, SMTT(60)
  <2>3. DOMAIN st = 1 .. Len(st) /\ DOMAIN s = 1 .. Len(st) + Len(fs) /\ DOMAIN fs = 1 .. Len(fs)
    BY <2>2, LenProperties DEF Found
  <2>4. ASSUME NEW j \in DOMAIN s PROVE s[j] # Payload(f)
    <3>1. CASE j <= Len(st)
      BY <2>2, <2>3, <3>1 DEF Absent
    <3>2. CASE ~ (j <= Len(st))
      <4>1. PICK b \in 1 .. Len(fs) : j = Len(st) + b
        <5>1. j - Len(st) \in 1 .. Len(fs) /\ j = Len(st) + (j - Len(st))
          BY <2>2, <2>3, <3>2
        <5>2. QED
          BY <5>1
      <4>2. PICK x \in 1 .. Len(m) : x = fs[b] /\ IsFrame(m, x)
        BY <1>1, <2>3, <4>1, RestIs
      <4>3. PayloadAt(m, x) # Payload(f)
        BY <4>2, TakenIsAllIn
      <4>4. QED
        BY <2>2, <4>1, <4>2, <4>3
    <3>3. QED
      BY <3>1, <3>2
  <2>5. QED
    BY <2>1, <2>4 DEF Absent
<1>6. CASE g = 0
  <2>1. 1 + g - 1 <= Len(v) /\ 1 \in Nat \ {0}
    BY <1>1, <1>4, <1>6 DEF CutBy
  <2>2. BlockAt(v, f, g, 1)
    BY <1>6, <2>1 DEF BlockAt
  <2>3. QED
    BY <1>3, <1>5, <2>1, <2>2
<1>7. CASE g > 0
  <2>1. e < p
    <3>1. CASE e = 0
      BY <3>1
    <3>2. CASE e > 0
      <4>1. e \in 1 .. Len(m) /\ m[e].kind = EndMess /\ Got(f, q, r) > 0
        BY <1>3, <1>4, <1>7, <3>2
      <4>2. QED
        BY <4>1, EndIsBefore
    <3>3. QED
      BY <3>1, <3>2, <1>1
  <2>2. PICK k \in Nat \ {0} : k = p - e
    BY <1>1, <2>1
  <2>3. p + g - 1 <= Len(w) /\ \A j \in 1 .. g : w[p + j - 1] = UnitAt(f, j)
    BY <1>3 DEF BlockAt
  <2>4. Len(v) = Len(w) - e /\ \A i \in 1 .. Len(w) - e : v[i] = w[e + i]
    BY <1>4 DEF CutBy
  <2>5. ASSUME NEW j \in 1 .. g PROVE v[k + j - 1] = UnitAt(f, j)
    <3>1. k + j - 1 \in 1 .. Len(w) - e /\ e + (k + j - 1) = p + j - 1
      BY <1>1, <2>2, <2>3
    <3>2. QED
      BY <2>3, <2>4, <3>1
  <2>6. k + g - 1 <= Len(v)
    BY <1>1, <2>2, <2>3, <2>4, SMTT(60)
  <2>7. QED
    BY <1>3, <1>5, <2>5, <2>6 DEF BlockAt
<1>8. QED
  BY <1>6, <1>7

\* So receiveData keeps the promise.
LEMMA ServedStays ==
  ASSUME NEW w, NEW m, NEW v, NEW fs, NEW st \in Seq(Payloads), NEW br, NEW q \in Nat,
         NEW r \in 0 .. FrameLen - 1,
         Stream(w, q, r), Begins(m, w), Found(fs, m, 1), CutBy(w, v, Taken(fs)),
         Served(w, q, r, st, br)
  PROVE  Stream(v, q, r) /\ Served(v, q, r, st \o News(m, fs), br)
<1>1. w \in Seq(Units) /\ Taken(fs) \in 0 .. Len(w)
  <2>1. m \in Seq(Units) /\ Len(m) <= Len(w) /\ Len(m) \in Nat /\ Len(w) \in Nat
    BY LenProperties DEF Begins, Stream
  <2>2. Taken(fs) \in 0 .. Len(m)
    BY <2>1, RestIs
  <2>3. QED
    BY <2>1, <2>2 DEF Stream
<1>2. Stream(v, q, r)
  BY <1>1, CutStream
<1>3. ASSUME NEW f \in 1 .. Frames, f \notin br
      PROVE  \/ f <= q /\ NoneOf(v, f) /\ \E i \in DOMAIN (st \o News(m, fs)) : OnceAt(st \o News(m, fs), f, i)
             \/ Absent(st \o News(m, fs), f) /\ \E p \in Nat \ {0} : BlockAt(v, f, Got(f, q, r), p)
  <2>1. CASE f <= q /\ NoneOf(w, f) /\ \E i \in DOMAIN st : OnceAt(st, f, i)
    BY <1>1, <2>1, StoredStays
  <2>2. CASE Absent(st, f) /\ \E p \in Nat \ {0} : BlockAt(w, f, Got(f, q, r), p)
    <3>1. PICK p \in Nat \ {0} : BlockAt(w, f, Got(f, q, r), p)
      BY <2>2
    <3>2. CASE AllIn(m, Got(f, q, r), p)
      BY <2>2, <3>1, <3>2, AllInIsStored
    <3>3. CASE ~ AllIn(m, Got(f, q, r), p)
      BY <2>2, <3>1, <3>3, PartStays
    <3>4. QED
      BY <3>2, <3>3
  <2>3. QED
    BY <1>3, <2>1, <2>2 DEF Served
<1>4. QED
  BY <1>2, <1>3 DEF Served

-----------------------------------------------------------------------------
(* In one connection nothing is lost.                                      *)

\* w is what follows n whole frames, up to the s-th unit.
Follows(w, n, s) ==
  /\ n * FrameLen + Len(w) = s
  /\ \A i \in 1 .. Len(w) : w[i] = Unit(n * FrameLen + i)

InTurn(st) == \A i \in DOMAIN st : st[i] = Payload(i)

LEMMA UnitOfFrame ==
  ASSUME NEW n \in Nat, NEW k \in Nat, NEW j \in Places
  PROVE  Unit(n * FrameLen + (k * FrameLen + j)) = UnitAt(n + k + 1, j)
<1>1. PICK l \in Nat : l = FrameLen /\ l >= 5
  BY Sizes
<1>2. PICK x \in Nat : x = (n + k) * l + (j - 1)
  BY <1>1 DEF Places
<1>3. j - 1 \in 0 .. l - 1 /\ n + k \in Nat /\ j \in Nat
  BY <1>1 DEF Places
<1>4. n + k = Whole(x) /\ j - 1 = Part(x)
  <2>1. PICK a \in Nat : a = n + k
    BY <1>3
  <2>2. PICK b \in 0 .. FrameLen - 1 : b = j - 1
    BY <1>1, <1>3
  <2>3. x = a * FrameLen + b
    BY <1>1, <1>2, <2>1, <2>2
  <2>4. a = Whole(x) /\ b = Part(x)
    BY <2>3, Quotients, Zenon
  <2>5. QED
    BY <2>1, <2>2, <2>4
<1>5. n * l + (k * l + j) = x + 1
  <2>1. (n + k) * l = n * l + k * l /\ n * l \in Nat /\ k * l \in Nat
    OBVIOUS
  <2>2. QED
    BY <1>2, <1>3, <2>1
<1>6. Unit(x + 1) = UnitAt(Whole(x) + 1, Part(x) + 1)
  BY NextUnit
<1>7. Part(x) + 1 = j /\ Whole(x) + 1 = n + k + 1
  BY <1>3, <1>4
<1>8. QED
  BY <1>1, <1>5, <1>6, <1>7

\* The k-th frame is there, whole, as soon as its last unit is.
LEMMA FollowsWhole ==
  ASSUME NEW m \in Seq(Units), NEW n \in Nat, \A i \in 1 .. Len(m) : m[i] = Unit(n * FrameLen + i),
         NEW k \in Nat, k * FrameLen + FrameLen <= Len(m)
  PROVE  /\ k * FrameLen + 1 \in 1 .. Len(m) /\ WholeAt(m, k * FrameLen + 1)
         /\ PayloadAt(m, k * FrameLen + 1) = Payload(n + k + 1)
<1>1. PICK l \in Nat : l = FrameLen /\ l >= 5
  BY Sizes
<1>2. PICK x \in Nat : x = k * l /\ x + l <= Len(m)
  BY <1>1
<1>3. Len(m) \in Nat
  BY LenProperties
<1>4. ASSUME NEW j \in 1 .. l PROVE m[x + j] = UnitAt(n + k + 1, j)
  <2>1. x + j \in 1 .. Len(m)
    BY <1>2, <1>3
  <2>2. m[x + j] = Unit(n * l + (k * l + j))
    BY <1>1, <1>2, <2>1
  <2>3. QED
    BY <1>1, <2>2, UnitOfFrame DEF Places
<1>5. PICK p \in Nat \ {0} : p = x + 1 /\ p = k * FrameLen + 1
  BY <1>1, <1>2
<1>6. PICK f : f = n + k + 1
  OBVIOUS
<1>7. f \in 1 .. Frames
  <2>1. 1 \in 1 .. l /\ x + 1 \in 1 .. Len(m)
    BY <1>1, <1>2, <1>3
  <2>2. m[x + 1] \in Units /\ m[x + 1].frame = f
    BY <1>4, <1>6, <2>1, ElementOfSeq, UnitFacts
  <2>3. QED
    BY <2>2, UnitFacts
<1>8. BlockAt(m, f, l, p)
  <2>1. p + l - 1 <= Len(m)
    BY <1>2, <1>5
  <2>2. \A j \in 1 .. l : p + j - 1 = x + j
    BY <1>5
  <2>3. QED
    BY <1>4, <1>6, <2>1, <2>2 DEF BlockAt
<1>9. AllIn(m, l, p)
  BY <1>1, <1>2, <1>5 DEF AllIn
<1>10. Begins(m, m)
  BY <1>3 DEF Begins
<1>11. p \in 1 .. Len(m) /\ WholeAt(m, p) /\ PayloadAt(m, p) = Payload(f)
  BY <1>3, <1>7, <1>8, <1>9, <1>10, AllInIsWhole
<1>12. QED
  BY <1>5, <1>6, <1>11

LEMMA FramesFollow ==
  ASSUME NEW m \in Seq(Units), NEW n \in Nat, \A i \in 1 .. Len(m) : m[i] = Unit(n * FrameLen + i),
         NEW fs, Found(fs, m, 1)
  PROVE  /\ \A a \in 1 .. Len(fs) : PayloadAt(m, fs[a]) = Payload(n + a)
         /\ Taken(fs) = Len(fs) * FrameLen
<1>1. PICK l \in Nat : l = FrameLen /\ l >= 5
  BY Sizes
<1>2. Len(m) \in Nat /\ fs \in Seq(1 .. Len(m)) /\ DOMAIN fs = 1 .. Len(fs) /\ Len(fs) \in Nat
  BY LenProperties DEF Found
<1>3. ASSUME NEW a \in DOMAIN fs
      PROVE  \E k \in Nat : fs[a] = k * l + 1 /\ k * l + l <= Len(m)
  <2>1. PICK x \in 1 .. Len(m) : x = fs[a] /\ BeginsAt(m, x) /\ IsFrame(m, x)
    BY <1>2, RestIs DEF Found
  <2>2. PICK y \in Nat : y = x - 1
    BY <1>2
  <2>3. PICK k \in Nat, r \in 0 .. l - 1 : y = k * l + r
    BY <1>1, Quotients
  <2>4. r + 1 \in Places /\ x = k * l + (r + 1)
    <3>1. k * l \in Nat
      OBVIOUS
    <3>2. QED
      BY <1>1, <1>2, <2>2, <2>3, <3>1 DEF Places
  <2>5. m[x] = UnitAt(n + k + 1, r + 1)
    BY <1>1, <2>4, UnitOfFrame
  <2>6. KindOf(r + 1) = BeginMess[1]
    BY <2>1, <2>5, UnitFacts DEF BeginsAt
  <2>7. r + 1 = 1
    BY <2>4, <2>6, Kinds DEF Places
  <2>8. x = k * l + 1
    BY <2>4, <2>7
  <2>9. EndOf(x) <= Len(m)
    BY <2>1 DEF IsFrame
  <2>10. EndOf(x) = x + l - 1
    <3>1. x \in Int
      BY <1>2
    <3>2. QED
      BY <1>1, <3>1, Sizes, Zenon
  <2>11. k * l + l <= Len(m)
    <3>1. k * l \in Nat
      OBVIOUS
    <3>2. QED
      BY <1>1, <1>2, <2>8, <2>9, <2>10, <3>1
  <2>12. QED
    BY <2>1, <2>8, <2>11
<1>4. ASSUME NEW a \in DOMAIN fs, NEW b \in DOMAIN fs, a < b PROVE fs[a] + l <= fs[b]
  <2>1. PICK x \in 1 .. Len(m) : x = fs[a]
    BY <1>2, RestIs
  <2>2. PICK y \in 1 .. Len(m) : y = fs[b]
    BY <1>2, RestIs
  <2>3. EndOf(x) < y
    BY <1>4, <2>1, <2>2 DEF Found
  <2>4. EndOf(x) = x + l - 1
    <3>1. x \in Int
      BY <1>2
    <3>2. QED
      BY <1>1, <3>1, Sizes, Zenon
  <2>5. QED
    BY <1>1, <1>2, <2>1, <2>2, <2>3, <2>4
<1> DEFINE T == {k \in Nat : k + 1 <= Len(fs) => fs[k + 1] = k * l + 1}
\* None is found in front of the next that came whole.
<1>5. ASSUME NEW k \in Nat, k + 1 <= Len(fs), fs[k + 1] >= k * l + 1,
             \A a \in 1 .. k : fs[a] < k * l + 1
      PROVE  fs[k + 1] = k * l + 1
  <2>1. PICK z \in DOMAIN fs : z = k + 1
    BY <1>2, <1>5
  <2>2. PICK j \in Nat : fs[z] = j * l + 1 /\ j * l + l <= Len(m)
    BY <1>3
  <2>3. j >= k
    <3>1. SUFFICES ASSUME j < k PROVE FALSE
      OBVIOUS
    <3>2. PICK d \in Nat : k = j + 1 + d
      BY <3>1
    <3>3. k * l = j * l + l + d * l /\ d * l \in Nat /\ j * l \in Nat
      BY <3>2
    <3>4. QED
      BY <1>1, <1>5, <2>1, <2>2, <3>3
  <2>4. k * l + l <= Len(m)
    <3>1. PICK d \in Nat : j = k + d
      BY <2>3
    <3>2. PICK a \in Nat : a = k * l
      OBVIOUS
    <3>3. PICK b \in Nat : b = d * l
      OBVIOUS
    <3>4. j * l = a + b
      BY <3>1, <3>2, <3>3
    <3>5. a + b + l <= Len(m)
      BY <2>2, <3>4
    <3>6. a + l <= Len(m)
      BY <1>2, <3>5
    <3>7. QED
      BY <3>2, <3>6
  <2>5. k * FrameLen + FrameLen <= Len(m)
    BY <1>1, <2>4
  <2>6. k * FrameLen + 1 \in 1 .. Len(m) /\ WholeAt(m, k * FrameLen + 1)
    BY <2>5, FollowsWhole
  <2>7. PICK a \in DOMAIN fs : fs[a] = k * l + 1
    BY <1>1, <2>6 DEF Found
  <2>8. ~ (a <= k)
    <3>1. PICK x \in Nat : x = k * l + 1
      OBVIOUS
    <3>2. a <= k => fs[a] < x
      BY <1>2, <1>5, <3>1
    <3>3. QED
      BY <2>7, <3>1, <3>2
  <2>9. ~ (z < a)
    <3>1. PICK x \in Nat : x = k * l + 1
      OBVIOUS
    <3>2. z < a => fs[z] + l <= x
      BY <1>4, <2>7, <3>1
    <3>3. PICK y \in Nat : y = j * l + 1
      OBVIOUS
    <3>4. fs[z] = y /\ y >= x
      BY <1>5, <2>1, <2>2, <3>1, <3>3
    <3>5. QED
      BY <1>1, <3>2, <3>4
  <2>10. a = z
    BY <1>2, <2>1, <2>8, <2>9
  <2>11. QED
    BY <2>1, <2>7, <2>10
<1>6. 0 \in T
  <2>1. SUFFICES ASSUME 1 <= Len(fs) PROVE fs[0 + 1] = 0 * l + 1
    OBVIOUS
  <2>2. 0 * l = 0 /\ 0 + 1 = 1
    BY <1>1
  <2>3. 1 \in DOMAIN fs
    BY <1>2, <2>1
  <2>4. fs[1] >= 1
    BY <2>3 DEF Found
  <2>5. fs[0 + 1] >= 0 * l + 1 /\ \A a \in 1 .. 0 : fs[a] < 0 * l + 1
    BY <2>2, <2>4
  <2>6. 0 \in Nat /\ 0 + 1 <= Len(fs)
    BY <2>1
  <2>7. QED
    BY <1>5, <2>5, <2>6, Zenon
<1>7. ASSUME NEW k \in Nat, k \in T PROVE k + 1 \in T
  <2>1. SUFFICES ASSUME k + 2 <= Len(fs) PROVE fs[(k + 1) + 1] = (k + 1) * l + 1
    OBVIOUS
  <2>2. PICK x \in Nat : x = k * l + 1 /\ (k + 1) * l + 1 = x + l
    <3>1. (k + 1) * l = k * l + l /\ k * l \in Nat
      BY <1>1
    <3>2. QED
      BY <1>1, <3>1
  <2>3. PICK u \in DOMAIN fs : u = k + 1 /\ fs[u] = x
    BY <1>2, <1>7, <2>1, <2>2
  <2>4. PICK z \in DOMAIN fs : z = k + 2
    BY <1>2, <2>1
  <2>5. fs[z] >= x + l
    <3>1. u < z
      BY <2>3, <2>4
    <3>2. fs[u] + l <= fs[z]
      BY <1>4, <3>1
    <3>3. QED
      BY <1>1, <1>2, <2>3, <2>4, <3>2, RestIs
  <2>6. ASSUME NEW a \in 1 .. k + 1 PROVE fs[a] < x + l
    <3>1. a \in DOMAIN fs
      BY <1>2, <2>1
    <3>2. CASE a = u
      BY <1>1, <2>3, <3>2
    <3>3. CASE a # u
      <4>1. a < u
        BY <2>3, <3>3
      <4>2. fs[a] + l <= x
        BY <1>4, <2>3, <3>1, <4>1
      <4>3. fs[a] \in 1 .. Len(m)
        BY <1>2, <3>1, RestIs
      <4>4. QED
        BY <1>1, <1>2, <4>2, <4>3, SMTT(60)
    <3>4. QED
      BY <3>2, <3>3
  <2>7. (k + 1) + 1 = k + 2 /\ (k + 1) + 1 <= Len(fs) /\ k + 1 \in Nat
    BY <2>1
  <2>8. fs[(k + 1) + 1] >= (k + 1) * l + 1 /\ \A a \in 1 .. k + 1 : fs[a] < (k + 1) * l + 1
    BY <2>2, <2>4, <2>5, <2>6, <2>7
  <2>9. QED
    BY <1>5, <2>7, <2>8
<1>8. \A k \in Nat : k \in T
  <2> HIDE DEF T
  <2> QED BY <1>6, <1>7, FromZeroOn, Zenon
<1>9. ASSUME NEW a \in 1 .. Len(fs) PROVE fs[a] = (a - 1) * l + 1
  <2>1. PICK k \in Nat : a = k + 1
    <3>1. a - 1 \in Nat /\ a = (a - 1) + 1
      BY <1>2
    <3>2. QED
      BY <3>1
  <2>2. fs[k + 1] = k * l + 1
    BY <1>8, <2>1
  <2>3. a - 1 = k
    BY <2>1
  <2>4. QED
    BY <2>1, <2>2, <2>3
<1>10. ASSUME NEW a \in 1 .. Len(fs) PROVE PayloadAt(m, fs[a]) = Payload(n + a)
  <2>1. PICK k \in Nat : k = a - 1 /\ n + k + 1 = n + a
    BY <1>2
  <2>2. PICK j \in Nat : fs[a] = j * l + 1 /\ j * l + l <= Len(m)
    BY <1>2, <1>3
  <2>3. fs[a] = k * l + 1
    BY <1>9, <2>1
  <2>4. k * FrameLen + FrameLen <= Len(m)
    <3>1. j * l \in Nat /\ k * l \in Nat
      OBVIOUS
    <3>2. j * l = k * l
      BY <2>2, <2>3, <3>1
    <3>3. QED
      BY <1>1, <2>2, <3>2
  <2>5. PayloadAt(m, k * FrameLen + 1) = Payload(n + k + 1)
    BY <2>4, FollowsWhole
  <2>6. QED
    BY <1>1, <2>1, <2>3, <2>5
<1>11. Taken(fs) = Len(fs) * l
  <2>1. CASE fs = <<>>
    BY <1>1, <2>1 DEF Taken
  <2>2. CASE fs # <<>>
    <3>1. PICK z \in 1 .. Len(fs) : z = Len(fs)
      <4>1. Len(fs) # 0
        BY <1>2, <2>2, EmptySeq
      <4>2. PICK d \in Nat : d = Len(fs)
        BY <1>2
      <4>3. d \in 1 .. d
        BY <4>1, <4>2
      <4>4. QED
        BY <4>2, <4>3
    <3>2. PICK x \in Int : x = fs[z] /\ x = (z - 1) * l + 1
      BY <1>1, <1>2, <1>9
    <3>3. Taken(fs) = EndOf(x)
      BY <2>2, <3>1, <3>2 DEF Taken, Last
    <3>4. EndOf(x) = x + l - 1
      BY <1>1, Sizes, Zenon
    <3>5. (z - 1) * l + l = z * l /\ (z - 1) * l \in Int /\ z * l \in Int
      BY <1>1, <1>2
    <3>6. QED
      BY <1>1, <3>1, <3>2, <3>3, <3>4, <3>5
  <2>3. QED
    BY <2>1, <2>2
<1>12. QED
  BY <1>1, <1>10, <1>11

\* So receiveData stores the next payloads, in turn.
LEMMA InTurnStays ==
  ASSUME NEW w \in Seq(Units), NEW m, NEW v, NEW fs, NEW st \in Seq(Payloads), NEW s \in Nat,
         Begins(m, w), Found(fs, m, 1), CutBy(w, v, Taken(fs)), Follows(w, Len(st), s), InTurn(st)
  PROVE  InTurn(st \o News(m, fs)) /\ Follows(v, Len(st \o News(m, fs)), s)
<1>1. PICK l \in Nat : l = FrameLen /\ l >= 5
  BY Sizes
<1>2. PICK n \in Nat : n = Len(st)
  BY LenProperties
<1>3. PICK x : x = st \o News(m, fs)
  OBVIOUS
<1>4. m \in Seq(Units) /\ Len(m) \in Nat /\ Len(w) \in Nat /\ Len(m) <= Len(w)
  BY LenProperties DEF Begins
<1>5. \A i \in 1 .. Len(m) : m[i] = Unit(n * FrameLen + i)
  <2>1. \A i \in 1 .. Len(m) : i \in 1 .. Len(w)
    BY <1>4
  <2>2. QED
    BY <1>2, <2>1 DEF Begins, Follows
<1>6. PICK k \in Nat : k = Len(fs)
  BY LenProperties DEF Found
<1>7. (\A a \in 1 .. k : PayloadAt(m, fs[a]) = Payload(n + a)) /\ Taken(fs) = k * l
  <2>1. (\A a \in 1 .. Len(fs) : PayloadAt(m, fs[a]) = Payload(n + a)) /\ Taken(fs) = Len(fs) * FrameLen
    BY <1>4, <1>5, FramesFollow, Zenon
  <2>2. QED
    BY <1>1, <1>6, <2>1
<1>8. /\ x \in Seq(Payloads) /\ Len(x) = n + k
      /\ \A i \in 1 .. n : x[i] = st[i]
      /\ \A a \in 1 .. k : x[n + a] = PayloadAt(m, fs[a])
  BY <1>2, <1>3, <1>4, <1>6, NewsAre
<1>9. DOMAIN x = 1 .. n + k /\ DOMAIN st = 1 .. n
  BY <1>2, <1>8, LenProperties
<1>10. ASSUME NEW i \in DOMAIN x PROVE x[i] = Payload(i)
  <2>1. CASE i <= n
    BY <1>8, <1>9, <2>1 DEF InTurn
  <2>2. CASE ~ (i <= n)
    <3>1. PICK a \in 1 .. k : i = n + a
      <4>1. i - n \in 1 .. k /\ i = n + (i - n)
        BY <1>9, <2>2
      <4>2. QED
        BY <4>1
    <3>2. QED
      BY <1>7, <1>8, <3>1
  <2>3. QED
    BY <2>1, <2>2
<1>11. Follows(v, n + k, s)
  <2>1. PICK e \in 0 .. Len(m) : e = k * l /\ e = Taken(fs)
    BY <1>4, <1>7, RestIs
  <2>2. (n + k) * l = n * l + e /\ n * l \in Nat
    BY <2>1
  <2>3. Len(v) = Len(w) - e /\ \A i \in 1 .. Len(w) - e : v[i] = w[e + i]
    BY <2>1 DEF CutBy
  <2>4. n * l + Len(w) = s /\ \A i \in 1 .. Len(w) : w[i] = Unit(n * l + i)
    BY <1>1, <1>2 DEF Follows
  <2>5. ASSUME NEW i \in 1 .. Len(v) PROVE v[i] = Unit((n + k) * l + i)
    <3>1. PICK a \in Nat : a = n * l
      BY <2>2
    <3>2. (n + k) * l = a + e
      BY <2>2, <3>1
    <3>3. i \in 1 .. Len(w) - e /\ e + i \in 1 .. Len(w)
      BY <1>4, <2>3
    <3>4. a + (e + i) = (a + e) + i
      BY <1>4, <3>1, <3>3
    <3>5. v[i] = Unit(a + (e + i))
      BY <2>3, <2>4, <3>1, <3>3
    <3>6. QED
      BY <3>2, <3>4, <3>5
  <2>6. (n + k) * l + Len(v) = s
    BY <1>4, <2>1, <2>2, <2>3, <2>4, SMTT(60)
  <2>7. QED
    BY <1>1, <2>5, <2>6 DEF Follows
<1>12. QED
  BY <1>3, <1>8, <1>10, <1>11 DEF InTurn


-----------------------------------------------------------------------------
(* The inductive invariant: the data of a client ...                       *)

\* w is on its way to the store, st stored: nothing but the frames in br has
\* been lost, and nothing at all in a connection.
OnItsWay(md, s, w, cn, st, br) ==
  /\ cn \/ md = "com" => Stream(w, Whole(s), Part(s)) /\ Served(w, Whole(s), Part(s), st, br)
  /\ md = "tcp" => InTurn(st) /\ (cn => Follows(w, Len(st), s))

ClientOK(md, s, l, m, cn, st, br) ==
  /\ s \in 0 .. Frames * FrameLen
  /\ l \in Seq(Units) /\ m \in Seq(Units) /\ st \in Seq(Payloads)
  /\ br \subseteq 1 .. Frames
  /\ cn \in BOOLEAN
  /\ Len(l) + Len(m) <= s
  /\ s = 0 => st = <<>>
  /\ md = "tcp" /\ ~cn => m = <<>>
  /\ OnItsWay(md, s, m \o l, cn, st, br)

LEMMA Joined ==
  ASSUME NEW m \in Seq(Units), NEW l \in Seq(Units)
  PROVE  /\ m \o l \in Seq(Units) /\ Len(m \o l) = Len(m) + Len(l)
         /\ Len(m) \in Nat /\ Len(l) \in Nat /\ Len(m \o l) \in Nat
         /\ DOMAIN (m \o l) = 1 .. Len(m \o l)
         /\ \A i \in 1 .. Len(m) : (m \o l)[i] = m[i]
         /\ \A i \in 1 .. Len(l) : (m \o l)[Len(m) + i] = l[i]
<1>1. PICK w : w = m \o l
  OBVIOUS
<1>2. PICK a \in Nat : a = Len(m)
  BY LenProperties
<1>3. PICK b \in Nat : b = Len(l)
  BY LenProperties
<1>4. w \in Seq(Units) /\ Len(w) = a + b /\ \A i \in 1 .. a + b : w[i] = IF i <= a THEN m[i] ELSE l[i - a]
  BY <1>1, <1>2, <1>3, ConcatProperties
<1>5. ASSUME NEW i \in 1 .. b PROVE w[a + i] = l[i]
  <2>1. a + i \in 1 .. a + b /\ ~ (a + i <= a) /\ (a + i) - a = i
    OBVIOUS
  <2>2. QED
    BY <1>4, <2>1
<1>6. \A i \in 1 .. a : w[i] = m[i]
  BY <1>4
<1>7. DOMAIN w = 1 .. Len(w) /\ Len(w) \in Nat
  BY <1>4, LenProperties
<1>8. QED
  BY <1>1, <1>2, <1>3, <1>4, <1>5, <1>6, <1>7

LEMMA SentSoFar ==
  ASSUME NEW s \in 0 .. Frames * FrameLen
  PROVE  s \in Nat /\ Whole(s) \in Nat /\ Part(s) \in 0 .. FrameLen - 1
<1>1. PICK n \in Nat : n = Frames * FrameLen
  BY Sizes, ReceiveAssumption
<1>2. s \in Nat
  BY <1>1
<1>3. QED
  BY <1>2, Quotients

\* Nothing has been sent.
LEMMA NothingSent ==
  ASSUME NEW md, NEW cn \in BOOLEAN, NEW br, br \subseteq 1 .. Frames
  PROVE  ClientOK(md, 0, <<>>, <<>>, cn, <<>>, br)
<1>1. PICK l \in Nat : l = FrameLen /\ l >= 5
  BY Sizes
<1>2. Whole(0) = 0 /\ Part(0) = 0
  <2>1. 0 \in Nat /\ 0 \in 0 .. l - 1 /\ 0 = 0 * l + 0
    BY <1>1
  <2>2. QED
    BY <1>1, <2>1, Quotients, Zenon
<1>3. <<>> \in Seq(Units) /\ <<>> \in Seq(Payloads) /\ Len(<<>>) = 0 /\ DOMAIN <<>> = {}
  OBVIOUS
<1>4. Stream(<<>>, 0, 0)
  BY <1>3 DEF Stream
<1>5. Served(<<>>, 0, 0, <<>>, br)
  <2>1. ASSUME NEW f \in 1 .. Frames
        PROVE  Absent(<<>>, f) /\ \E p \in Nat \ {0} : BlockAt(<<>>, f, Got(f, 0, 0), p)
    <3>1. Got(f, 0, 0) = 0
      BY DEF Got
    <3>2. BlockAt(<<>>, f, 0, 1)
      BY <1>3 DEF BlockAt
    <3>3. QED
      BY <1>3, <3>1, <3>2 DEF Absent
  <2>2. QED
    BY <2>1 DEF Served
<1>6. InTurn(<<>>) /\ Follows(<<>>, 0, 0)
  <2>1. 0 * FrameLen = 0
    BY <1>1
  <2>2. QED
    BY <1>3, <2>1 DEF InTurn, Follows
<1>7. <<>> \o <<>> = <<>>
  OBVIOUS
<1>8. 0 \in 0 .. Frames * FrameLen
  <2>1. PICK n \in Nat : n = Frames * FrameLen
    BY Sizes, ReceiveAssumption
  <2>2. QED
    BY <2>1
<1>9. OnItsWay(md, 0, <<>>, cn, <<>>, br)
  BY <1>2, <1>3, <1>4, <1>5, <1>6 DEF OnItsWay
<1>10. QED
  BY <1>3, <1>7, <1>8, <1>9 DEF ClientOK

LEMMA Connected ==
  ASSUME NEW l, NEW m, NEW cn, NEW st, NEW br, ClientOK("tcp", 0, l, m, cn, st, br)
  PROVE  ClientOK("tcp", 0, l, m, TRUE, st, br)
<1>1. l \in Seq(Units) /\ m \in Seq(Units) /\ Len(l) + Len(m) <= 0 /\ st = <<>> /\ br \subseteq 1 .. Frames
  BY DEF ClientOK
<1>2. l = <<>> /\ m = <<>>
  BY <1>1, EmptySeq, LenProperties
<1>3. QED
  BY <1>1, <1>2, NothingSent

LEMMA Gone ==
  ASSUME NEW s, NEW l, NEW m, NEW cn, NEW st, NEW br, ClientOK("tcp", s, l, m, cn, st, br)
  PROVE  ClientOK("tcp", s, l, <<>>, FALSE, st, br)
<1>1. <<>> \in Seq(Units) /\ Len(<<>>) = 0
  OBVIOUS
<1>2. Len(l) + Len(<<>>) <= s
  <2>1. l \in Seq(Units) /\ m \in Seq(Units) /\ Len(l) + Len(m) <= s /\ s \in 0 .. Frames * FrameLen
    BY DEF ClientOK
  <2>2. s \in Nat /\ Len(l) \in Nat /\ Len(m) \in Nat
    BY <2>1, SentSoFar, LenProperties
  <2>3. QED
    BY <1>1, <2>1, <2>2
<1>3. QED
  BY <1>1, <1>2 DEF ClientOK, OnItsWay

\* The port of a COM line is open or not.
LEMMA OpenOrNot ==
  ASSUME NEW s, NEW l, NEW m, NEW cn, NEW st, NEW br, ClientOK("com", s, l, m, cn, st, br),
         NEW cm \in BOOLEAN
  PROVE  ClientOK("com", s, l, m, cm, st, br)
BY DEF ClientOK, OnItsWay

\* What was received is still on its way.
LEMMA Read ==
  ASSUME NEW md, NEW s, NEW l, NEW m, NEW cn, NEW st, NEW br, ClientOK(md, s, l, m, cn, st, br),
         cn \/ md = "com", NEW x \in Seq(Units), NEW y \in Seq(Units), l = x \o y
  PROVE  ClientOK(md, s, y, m \o x, cn, st, br)
<1>1. m \in Seq(Units) /\ l \in Seq(Units)
  BY DEF ClientOK
<1>2. (m \o x) \o y = m \o l
  BY <1>1, ConcatAssociative
<1>3. m \o x \in Seq(Units) /\ Len(y) + Len(m \o x) = Len(l) + Len(m)
  BY <1>1, Joined
<1>4. ~ (md = "tcp" /\ ~cn)
  OBVIOUS
<1>5. QED
  BY <1>2, <1>3, <1>4 DEF ClientOK

\* receiveData has looked at what was received.
LEMMA Parsed ==
  ASSUME NEW md, NEW s, NEW l, NEW m, NEW cn, NEW st, NEW br, ClientOK(md, s, l, m, cn, st, br),
         NEW fs, fs = FramesIn(m)
  PROVE  ClientOK(md, s, l, Rest(m, fs), cn, st \o News(m, fs), br)
<1>1. PICK w : w = m \o l
  OBVIOUS
<1>2. PICK v : v = Rest(m, fs) \o l
  OBVIOUS
<1>3. PICK x : x = st \o News(m, fs)
  OBVIOUS
<1>4. PICK y : y = Rest(m, fs)
  OBVIOUS
<1>5. /\ m \in Seq(Units) /\ l \in Seq(Units) /\ st \in Seq(Payloads) /\ s \in Nat
      /\ Whole(s) \in Nat /\ Part(s) \in 0 .. FrameLen - 1
  BY SentSoFar DEF ClientOK
<1>6. Len(m) \in Nat /\ Len(l) \in Nat /\ Len(st) \in Nat
  BY <1>5, LenProperties
<1>7. Found(fs, m, 1)
  BY <1>6, FramesFound
<1>8. PICK e \in 0 .. Len(m) : e = Taken(fs)
  BY <1>5, <1>7, RestIs
<1>9. y \in Seq(Units) /\ Len(y) = Len(m) - e /\ \A i \in 1 .. Len(m) - e : y[i] = m[e + i]
  BY <1>4, <1>5, <1>7, <1>8, RestIs
<1>10. x \in Seq(Payloads) /\ Len(x) = Len(st) + Len(fs) /\ Len(fs) \in Nat
  BY <1>3, <1>5, <1>7, NewsAre
<1>11. /\ w \in Seq(Units) /\ Len(w) = Len(m) + Len(l)
       /\ \A i \in 1 .. Len(m) : w[i] = m[i]
       /\ \A i \in 1 .. Len(l) : w[Len(m) + i] = l[i]
  BY <1>1, <1>5, Joined
<1>12. Begins(m, w)
  BY <1>5, <1>6, <1>11 DEF Begins
<1>13. CutBy(w, v, Taken(fs))
  <2>1. /\ v \in Seq(Units) /\ Len(v) = Len(y) + Len(l)
        /\ \A i \in 1 .. Len(y) : v[i] = y[i]
        /\ \A i \in 1 .. Len(l) : v[Len(y) + i] = l[i]
    <3>1. v = y \o l /\ y \in Seq(Units) /\ l \in Seq(Units)
      BY <1>2, <1>4, <1>5, <1>9
    <3>2. QED
      BY <3>1, Joined
  <2>2. Len(v) = Len(w) - e
    BY <1>6, <1>8, <1>9, <1>11, <2>1
  <2>3. ASSUME NEW i \in 1 .. Len(w) - e PROVE v[i] = w[e + i]
    <3>1. CASE i <= Len(m) - e
      <4>1. i \in 1 .. Len(y) /\ i \in 1 .. Len(m) - e /\ e + i \in 1 .. Len(m)
        BY <1>6, <1>8, <1>9, <3>1
      <4>2. QED
        BY <1>9, <1>11, <2>1, <4>1
    <3>2. CASE ~ (i <= Len(m) - e)
      <4>1. PICK j \in 1 .. Len(l) : i = Len(m) - e + j
        <5>1. PICK a \in Nat : a = Len(m) - e
          BY <1>6, <1>8
        <5>2. i \in 1 .. a + Len(l) /\ ~ (i <= a)
          BY <1>6, <1>8, <1>11, <3>2, <5>1
        <5>3. i - a \in 1 .. Len(l) /\ i = a + (i - a)
          BY <1>6, <5>1, <5>2
        <5>4. QED
          BY <5>1, <5>3
      <4>2. Len(y) + j = i /\ e + i = Len(m) + j
        BY <1>6, <1>8, <1>9, <4>1, SMTT(60)
      <4>3. QED
        BY <1>11, <2>1, <4>1, <4>2, ZenonT(60)
    <3>3. QED
      BY <3>1, <3>2
  <2>4. QED
    BY <1>8, <2>1, <2>2, <2>3 DEF CutBy
<1>14. Len(l) + Len(y) <= s
  <2>1. Len(l) + Len(m) <= s
    BY DEF ClientOK
  <2>2. QED
    BY <1>5, <1>6, <1>8, <1>9, <2>1
<1>15. ASSUME m = <<>> PROVE y = <<>> /\ x = st
  <2>1. Len(m) = 0
    BY <1>15
  <2>2. fs = <<>>
    <3>1. fs \in Seq({})
      BY <2>1, <1>7 DEF Found
    <3>2. ~ (Len(fs) >= 1)
      <4>1. SUFFICES ASSUME 1 \in 1 .. Len(fs) PROVE FALSE
        BY <1>10
      <4>2. fs[1] \in {}
        BY <3>1, <4>1, ElementOfSeq
      <4>3. QED
        BY <4>2
    <3>3. QED
      BY <1>10, <3>1, <3>2, EmptySeq
  <2>3. News(m, fs) = <<>>
    BY <2>2 DEF News
  <2>4. QED
    BY <1>3, <1>4, <1>5, <1>15, <2>2, <2>3, ConcatEmptySeq DEF Rest
<1>16. s = 0 => x = <<>>
  <2>1. SUFFICES ASSUME s = 0 PROVE x = <<>>
    OBVIOUS
  <2>2. Len(l) + Len(m) <= 0 /\ st = <<>>
    BY <2>1 DEF ClientOK
  <2>3. m = <<>>
    BY <1>5, <1>6, <2>2, EmptySeq
  <2>4. QED
    BY <1>15, <2>2, <2>3
<1>17. OnItsWay(md, s, w, cn, st, br)
  BY <1>1 DEF ClientOK
<1>18. ASSUME cn \/ md = "com"
       PROVE  Stream(v, Whole(s), Part(s)) /\ Served(v, Whole(s), Part(s), x, br)
  <2>1. Stream(w, Whole(s), Part(s)) /\ Served(w, Whole(s), Part(s), st, br)
    BY <1>17, <1>18 DEF OnItsWay
  <2>2. QED
    BY <1>3, <1>5, <1>7, <1>12, <1>13, <2>1, ServedStays
<1>19. ASSUME md = "tcp" PROVE InTurn(x) /\ (cn => Follows(v, Len(x), s))
  <2>1. CASE cn
    <3>1. InTurn(st) /\ Follows(w, Len(st), s)
      BY <1>17, <1>19, <2>1 DEF OnItsWay
    <3>2. QED
      BY <1>3, <1>5, <1>7, <1>11, <1>12, <1>13, <3>1, InTurnStays
  <2>2. CASE ~cn
    <3>1. m = <<>>
      BY <1>19, <2>2 DEF ClientOK
    <3>2. QED
      BY <1>15, <1>17, <1>19, <2>2, <3>1 DEF OnItsWay
  <2>3. QED
    BY <2>1, <2>2 DEF ClientOK
<1>20. OnItsWay(md, s, v, cn, x, br)
  BY <1>18, <1>19 DEF OnItsWay
<1>21. md = "tcp" /\ ~cn => y = <<>>
  BY <1>15 DEF ClientOK
<1>22. QED
  BY <1>2, <1>3, <1>4, <1>5, <1>9, <1>10, <1>14, <1>16, <1>20, <1>21 DEF ClientOK

\* What was not read from a closed port is lost.
LEMMA Dropped ==
  ASSUME NEW s, NEW l, NEW m, NEW cn, NEW st, NEW br, ClientOK("com", s, l, m, cn, st, br)
  PROVE  ClientOK("com", s, <<>>, m, cn, st, br \cup FramesOf(l))
<1>1. PICK w : w = m \o l
  OBVIOUS
<1>2. PICK bm : bm = br \cup FramesOf(l)
  OBVIOUS
<1>3. /\ m \in Seq(Units) /\ l \in Seq(Units) /\ st \in Seq(Payloads) /\ s \in Nat
      /\ br \subseteq 1 .. Frames /\ Len(l) + Len(m) <= s
  BY SentSoFar DEF ClientOK
<1>4. PICK q \in Nat : q = Whole(s)
  BY <1>3, Quotients
<1>5. PICK r \in 0 .. FrameLen - 1 : r = Part(s)
  BY <1>3, Quotients
<1>6. Stream(w, q, r) /\ Served(w, q, r, st, br)
  BY <1>1, <1>4, <1>5 DEF ClientOK, OnItsWay
<1>7. /\ w \in Seq(Units) /\ Len(w) = Len(m) + Len(l) /\ Len(m) \in Nat /\ Len(l) \in Nat
      /\ DOMAIN w = 1 .. Len(w) /\ DOMAIN m = 1 .. Len(m) /\ DOMAIN l = 1 .. Len(l)
      /\ \A i \in 1 .. Len(m) : w[i] = m[i]
      /\ \A i \in 1 .. Len(l) : w[Len(m) + i] = l[i]
  BY <1>1, <1>3, Joined, LenProperties
<1>8. Stream(m, q, r)
  <2>1. \A i \in DOMAIN m : i \in DOMAIN w /\ w[i] = m[i]
    BY <1>7
  <2>2. QED
    BY <1>3, <1>6, <2>1 DEF Stream
<1>9. ASSUME NEW f \in 1 .. Frames, f \notin bm
      PROVE  \/ f <= q /\ NoneOf(m, f) /\ \E i \in DOMAIN st : OnceAt(st, f, i)
             \/ Absent(st, f) /\ \E p \in Nat \ {0} : BlockAt(m, f, Got(f, q, r), p)
  <2>1. f \notin br /\ \A i \in DOMAIN l : l[i].frame # f
    BY <1>2, <1>9 DEF FramesOf
  <2>2. CASE f <= q /\ NoneOf(w, f) /\ \E i \in DOMAIN st : OnceAt(st, f, i)
    <3>1. \A i \in DOMAIN m : i \in DOMAIN w /\ w[i] = m[i]
      BY <1>7
    <3>2. QED
      BY <2>2, <3>1 DEF NoneOf
  <2>3. CASE Absent(st, f) /\ \E p \in Nat \ {0} : BlockAt(w, f, Got(f, q, r), p)
    <3>1. PICK p \in Nat \ {0} : BlockAt(w, f, Got(f, q, r), p)
      BY <2>3
    <3>2. PICK g \in Nat : g = Got(f, q, r)
      BY Sizes DEF Got
    <3>3. p + g - 1 <= Len(w) /\ \A j \in 1 .. g : w[p + j - 1] = UnitAt(f, j)
      BY <3>1, <3>2 DEF BlockAt
    <3>4. CASE g = 0
      <4>1. BlockAt(m, f, g, 1)
        BY <1>7, <3>4 DEF BlockAt
      <4>2. QED
        BY <2>3, <3>2, <4>1
    <3>5. CASE g > 0
      <4>1. p + g - 1 <= Len(m)
        <5>1. SUFFICES ASSUME p + g - 1 > Len(m) PROVE FALSE
          BY <1>7
        <5>2. PICK i \in 1 .. Len(l) : Len(m) + i = p + g - 1
          <6>1. (p + g - 1) - Len(m) \in 1 .. Len(l) /\ Len(m) + ((p + g - 1) - Len(m)) = p + g - 1
            BY <1>7, <3>3, <5>1
          <6>2. QED
            BY <6>1
        <5>3. g \in 1 .. g
          BY <3>5
        <5>4. l[i] = UnitAt(f, g)
          BY <1>7, <3>3, <5>2, <5>3
        <5>5. l[i].frame = f
          BY <5>4, UnitFacts
        <5>6. i \in DOMAIN l
          BY <1>7
        <5>7. QED
          BY <2>1, <5>5, <5>6
      <4>2. ASSUME NEW j \in 1 .. g PROVE m[p + j - 1] = UnitAt(f, j)
        <5>1. p + j - 1 \in 1 .. Len(m)
          BY <1>7, <4>1
        <5>2. QED
          BY <1>7, <3>3, <5>1
      <4>3. BlockAt(m, f, g, p)
        BY <4>1, <4>2 DEF BlockAt
      <4>4. QED
        BY <2>3, <3>2, <4>3
    <3>6. QED
      BY <3>4, <3>5
  <2>4. QED
    BY <1>6, <2>1, <2>2, <2>3 DEF Served
<1>10. Served(m, q, r, st, bm)
  BY <1>9 DEF Served
<1>11. bm \subseteq 1 .. Frames
  <2>1. \A i \in DOMAIN l : l[i].frame \in 1 .. Frames
    BY <1>3, <1>7, ElementOfSeq, UnitFacts
  <2>2. QED
    BY <1>2, <1>3, <2>1 DEF FramesOf
<1>12. <<>> \in Seq(Units) /\ Len(<<>>) = 0 /\ m \o <<>> = m
  BY <1>3, ConcatEmptySeq, EmptySeq
<1>13. Len(<<>>) + Len(m) <= s
  BY <1>3, <1>7, <1>12
<1>14. OnItsWay("com", s, m, cn, st, bm)
  BY <1>4, <1>5, <1>8, <1>10 DEF OnItsWay
<1>15. QED
  BY <1>2, <1>11, <1>12, <1>13, <1>14 DEF ClientOK

\* One unit more has been sent than q frames and r units.
After(q, r, a, b) == IF r + 1 = FrameLen THEN a = q + 1 /\ b = 0 ELSE a = q /\ b = r + 1

LEMMA GotAfter ==
  ASSUME NEW q \in Nat, NEW r \in 0 .. FrameLen - 1, NEW a, NEW b, After(q, r, a, b)
  PROVE  /\ a \in Nat /\ b \in 0 .. FrameLen - 1
         /\ \A f \in Nat : /\ f <= q => f <= a /\ Got(f, a, b) = Got(f, q, r)
                           /\ f = q + 1 => Got(f, q, r) = r /\ Got(f, a, b) = r + 1
                           /\ f > q + 1 => Got(f, a, b) = 0
         /\ \A u \in Units : Upto(u, q, r) => Upto(u, a, b)
         /\ Upto(UnitAt(q + 1, r + 1), a, b)
<1>1. PICK l \in Nat : l = FrameLen /\ l >= 5
  BY Sizes
<1>2. CASE r + 1 = l
  <2>1. a = q + 1 /\ b = 0
    BY <1>1, <1>2 DEF After
  <2>2. \A u \in Units : u.frame \in Nat /\ u.place \in 1 .. l
    BY <1>1, UnitFacts, ReceiveAssumption DEF Places
  <2>3. \A f \in Nat : /\ f <= q => f <= a /\ Got(f, a, b) = Got(f, q, r)
                       /\ f = q + 1 => Got(f, q, r) = r /\ Got(f, a, b) = r + 1
                       /\ f > q + 1 => Got(f, a, b) = 0
    BY <1>1, <1>2, <2>1 DEF Got
  <2>4. \A u \in Units : Upto(u, q, r) => Upto(u, a, b)
    BY <1>1, <1>2, <2>1, <2>2 DEF Upto
  <2>5. Upto(UnitAt(q + 1, r + 1), a, b)
    BY <2>1, UnitFacts DEF Upto
  <2>6. QED
    BY <1>1, <2>1, <2>3, <2>4, <2>5
<1>3. CASE r + 1 # l
  <2>1. a = q /\ b = r + 1
    BY <1>1, <1>3 DEF After
  <2>2. \A u \in Units : u.frame \in Nat /\ u.place \in 1 .. l
    BY <1>1, UnitFacts, ReceiveAssumption DEF Places
  <2>3. \A f \in Nat : /\ f <= q => f <= a /\ Got(f, a, b) = Got(f, q, r)
                       /\ f = q + 1 => Got(f, q, r) = r /\ Got(f, a, b) = r + 1
                       /\ f > q + 1 => Got(f, a, b) = 0
    BY <1>1, <1>3, <2>1 DEF Got
  <2>4. \A u \in Units : Upto(u, q, r) => Upto(u, a, b)
    BY <1>1, <1>3, <2>1, <2>2 DEF Upto
  <2>5. Upto(UnitAt(q + 1, r + 1), a, b)
    BY <2>1, UnitFacts DEF Upto
  <2>6. b \in 0 .. l - 1
    BY <1>1, <1>3, <2>1
  <2>7. QED
    BY <1>1, <2>1, <2>3, <2>4, <2>5, <2>6
<1>4. QED
  BY <1>2, <1>3

\* It is the last on its way ...
LEMMA Grows ==
  ASSUME NEW w, NEW v, NEW q \in Nat, NEW r \in 0 .. FrameLen - 1, NEW a, NEW b, NEW st, NEW br,
         Stream(w, q, r), Served(w, q, r, st, br), After(q, r, a, b),
         UnitAt(q + 1, r + 1) \in Units, v = Append(w, UnitAt(q + 1, r + 1))
  PROVE  Stream(v, a, b) /\ Served(v, a, b, st, br)
<1>1. PICK u \in Units : u = UnitAt(q + 1, r + 1)
  OBVIOUS
<1>2. w \in Seq(Units) /\ DOMAIN w = 1 .. Len(w)
  BY LenProperties DEF Stream
<1>3. PICK n \in Nat : n = Len(w)
  BY <1>2, LenProperties
<1>4. /\ v \in Seq(Units) /\ Len(v) = n + 1 /\ DOMAIN v = 1 .. n + 1
      /\ (\A i \in 1 .. n : v[i] = w[i]) /\ v[n + 1] = u
  <2>1. v = Append(w, u)
    BY <1>1
  <2>2. /\ v \in Seq(Units) /\ Len(v) = Len(w) + 1
        /\ (\A i \in 1 .. Len(w) : v[i] = w[i]) /\ v[Len(w) + 1] = u
    BY <1>2, <2>1, AppendProperties
  <2>3. DOMAIN v = 1 .. Len(v)
    BY <2>2, LenProperties
  <2>4. QED
    BY <1>3, <2>2, <2>3
<1>5. \A i \in 1 .. n : w[i] \in Units /\ Upto(w[i], q, r)
  BY <1>2, <1>3, ElementOfSeq DEF Stream
<1>6. u.frame = q + 1 /\ u.place = r + 1 /\ r \in Int
  BY <1>1, UnitFacts
<1>7. ASSUME NEW i \in 1 .. n PROVE Before(w[i], u)
  <2>1. w[i].frame \in Int /\ w[i].place \in Int
    BY <1>5, UnitFacts DEF Places
  <2>2. QED
    BY <1>5, <1>6, <2>1, SMTT(60) DEF Before, Upto
<1>8. Stream(v, a, b)
  <2>1. ASSUME NEW i \in DOMAIN v PROVE Upto(v[i], a, b)
    <3>1. CASE i = n + 1
      BY <1>1, <1>4, <3>1, GotAfter
    <3>2. CASE i # n + 1
      <4>1. i \in 1 .. n
        BY <1>4, <3>2
      <4>2. QED
        BY <1>4, <1>5, <4>1, GotAfter
    <3>3. QED
      BY <3>1, <3>2
  <2>2. ASSUME NEW i \in DOMAIN v, NEW j \in DOMAIN v, i < j PROVE Before(v[i], v[j])
    <3>1. i \in 1 .. n
      BY <1>4, <2>2
    <3>2. CASE j = n + 1
      BY <1>4, <1>7, <3>1, <3>2
    <3>3. CASE j # n + 1
      <4>1. j \in 1 .. n
        BY <1>4, <3>3
      <4>2. QED
        BY <1>2, <1>3, <1>4, <2>2, <3>1, <4>1 DEF Stream
    <3>4. QED
      BY <3>2, <3>3
  <2>3. QED
    BY <1>4, <2>1, <2>2 DEF Stream
<1>9. ASSUME NEW f, NEW g \in Nat, NEW p \in Nat \ {0}, BlockAt(w, f, g, p) PROVE BlockAt(v, f, g, p)
  <2>1. p + g - 1 <= n /\ \A j \in 1 .. g : w[p + j - 1] = UnitAt(f, j)
    BY <1>3, <1>9 DEF BlockAt
  <2>2. ASSUME NEW j \in 1 .. g PROVE v[p + j - 1] = UnitAt(f, j)
    <3>1. p + j - 1 \in 1 .. n
      BY <2>1
    <3>2. QED
      BY <1>4, <2>1, <3>1
  <2>3. p + g - 1 <= Len(v)
    BY <1>4, <2>1
  <2>4. QED
    BY <2>2, <2>3 DEF BlockAt
<1>10. ASSUME NEW f \in 1 .. Frames, f \notin br
       PROVE  \/ f <= a /\ NoneOf(v, f) /\ \E i \in DOMAIN st : OnceAt(st, f, i)
              \/ Absent(st, f) /\ \E p \in Nat \ {0} : BlockAt(v, f, Got(f, a, b), p)
  <2>1. f \in Nat
    BY ReceiveAssumption
  <2>2. CASE f <= q
    <3>1. f <= a /\ Got(f, a, b) = Got(f, q, r)
      BY <2>1, <2>2, GotAfter
    <3>2. CASE NoneOf(w, f) /\ \E i \in DOMAIN st : OnceAt(st, f, i)
      <4>1. ASSUME NEW i \in DOMAIN v PROVE v[i].frame # f
        <5>1. CASE i = n + 1
          BY <1>4, <1>6, <2>1, <2>2, <5>1
        <5>2. CASE i # n + 1
          <6>1. i \in 1 .. n
            BY <1>4, <5>2
          <6>2. QED
            BY <1>2, <1>3, <1>4, <3>2, <6>1 DEF NoneOf
        <5>3. QED
          BY <5>1, <5>2
      <4>2. QED
        BY <3>1, <3>2, <4>1 DEF NoneOf
    <3>3. CASE Absent(st, f) /\ \E p \in Nat \ {0} : BlockAt(w, f, Got(f, q, r), p)
      <4>1. PICK p \in Nat \ {0} : BlockAt(w, f, Got(f, q, r), p)
        BY <3>3
      <4>2. PICK g \in Nat : g = Got(f, q, r)
        BY <2>2, Sizes DEF Got
      <4>3. BlockAt(v, f, g, p)
        BY <1>9, <4>1, <4>2
      <4>4. QED
        BY <3>1, <3>3, <4>2, <4>3
    <3>4. QED
      BY <1>10, <3>2, <3>3 DEF Served
  <2>3. CASE f = q + 1
    <3>1. PICK g \in Nat : g = r /\ Got(f, q, r) = g /\ Got(f, a, b) = g + 1
      BY <2>1, <2>3, GotAfter
    <3>2. Absent(st, f) /\ \E p \in Nat \ {0} : BlockAt(w, f, g, p)
      BY <1>10, <2>3, <3>1 DEF Served
    <3>3. PICK p \in Nat \ {0} : p = n + 1 - g /\ BlockAt(w, f, g, p)
      <4>1. CASE g = 0
        <5>1. n + 1 \in Nat \ {0} /\ (n + 1) + g - 1 <= n
          BY <4>1
        <5>2. BlockAt(w, f, g, n + 1)
          BY <1>3, <4>1, <5>1 DEF BlockAt
        <5>3. QED
          BY <4>1, <5>1, <5>2
      <4>2. CASE g > 0
        <5>1. PICK p \in Nat \ {0} : BlockAt(w, f, g, p)
          BY <3>2
        <5>2. p + g - 1 <= n /\ \A j \in 1 .. g : w[p + j - 1] = UnitAt(f, j)
          BY <1>3, <5>1 DEF BlockAt
        <5>3. PICK x \in 1 .. n : x = p + g - 1 /\ w[x] = UnitAt(f, g)
          <6>1. g \in 1 .. g /\ p + g - 1 \in 1 .. n
            BY <4>2, <5>2
          <6>2. QED
            BY <5>2, <6>1
        <5>4. x = n
          <6>1. SUFFICES ASSUME x + 1 \in 1 .. n PROVE FALSE
            OBVIOUS
          <6>2. PICK y \in 1 .. n : y = x + 1
            BY <6>1
          <6>3. Before(w[x], w[y])
            BY <1>2, <1>3, <6>2, SMTT(60) DEF Stream
          <6>4. w[x].frame = q + 1 /\ w[x].place = r
            BY <2>3, <3>1, <5>3, UnitFacts
          <6>5. w[y].frame \in Int /\ w[y].place \in Int /\ Upto(w[y], q, r)
            BY <1>5, UnitFacts DEF Places
          <6>6. QED
            BY <6>3, <6>4, <6>5 DEF Before, Upto
        <5>5. p = n + 1 - g
          BY <5>3, <5>4
        <5>6. QED
          BY <5>1, <5>5
      <4>3. QED
        BY <4>1, <4>2
    <3>4. BlockAt(v, f, g, p)
      BY <1>9, <3>3
    <3>5. ASSUME NEW j \in 1 .. g + 1 PROVE v[p + j - 1] = UnitAt(f, j)
      <4>1. CASE j = g + 1
        <5>1. p + j - 1 = n + 1 /\ j = r + 1
          BY <3>1, <3>3, <4>1
        <5>2. QED
          BY <1>1, <1>4, <2>3, <5>1
      <4>2. CASE j # g + 1
        BY <3>4, <4>2 DEF BlockAt
      <4>3. QED
        BY <4>1, <4>2
    <3>6. p + (g + 1) - 1 <= Len(v)
      BY <1>4, <3>3
    <3>7. BlockAt(v, f, g + 1, p)
      BY <3>5, <3>6 DEF BlockAt
    <3>8. QED
      BY <3>1, <3>2, <3>7
  <2>4. CASE f > q + 1
    <3>1. Got(f, a, b) = 0
      BY <2>1, <2>4, GotAfter
    <3>2. Absent(st, f)
      BY <1>10, <2>1, <2>4 DEF Served
    <3>3. BlockAt(v, f, 0, 1)
      BY <1>4 DEF BlockAt
    <3>4. QED
      BY <3>1, <3>2, <3>3
  <2>5. QED
    BY <2>1, <2>2, <2>3, <2>4
<1>11. QED
  BY <1>8, <1>10 DEF Served

\* ... or its frame is broken.
LEMMA Breaks ==
  ASSUME NEW w, NEW q \in Nat, NEW r \in 0 .. FrameLen - 1, NEW a, NEW b, NEW st, NEW br,
         Stream(w, q, r), Served(w, q, r, st, br), After(q, r, a, b)
  PROVE  Stream(w, a, b) /\ Served(w, a, b, st, br \cup {q + 1})
<1>1. w \in Seq(Units) /\ DOMAIN w = 1 .. Len(w) /\ Len(w) \in Nat
  BY LenProperties DEF Stream
<1>2. \A i \in DOMAIN w : w[i] \in Units
  BY <1>1, ElementOfSeq
<1>3. Stream(w, a, b)
  BY <1>2, GotAfter DEF Stream
<1>4. ASSUME NEW f \in 1 .. Frames, f \notin br, f # q + 1
      PROVE  \/ f <= a /\ NoneOf(w, f) /\ \E i \in DOMAIN st : OnceAt(st, f, i)
             \/ Absent(st, f) /\ \E p \in Nat \ {0} : BlockAt(w, f, Got(f, a, b), p)
  <2>1. f \in Nat
    BY ReceiveAssumption
  <2>2. CASE f <= q
    <3>1. f <= a /\ Got(f, a, b) = Got(f, q, r)
      BY <2>1, <2>2, GotAfter
    <3>2. QED
      BY <1>4, <3>1 DEF Served
  <2>3. CASE f > q + 1
    <3>1. Got(f, a, b) = 0
      BY <2>1, <2>3, GotAfter
    <3>2. Absent(st, f)
      BY <1>4, <2>1, <2>3 DEF Served
    <3>3. BlockAt(w, f, 0, 1)
      BY <1>1 DEF BlockAt
    <3>4. QED
      BY <3>1, <3>2, <3>3
  <2>4. QED
    BY <1>4, <2>1, <2>2, <2>3
<1>5. QED
  BY <1>3, <1>4 DEF Served

LEMMA SentOne ==
  ASSUME NEW md, NEW s, NEW l, NEW m, NEW st, NEW br, ClientOK(md, s, l, m, TRUE, st, br),
         s < Frames * FrameLen
  PROVE  ClientOK(md, s + 1, Append(l, Unit(s + 1)), m, TRUE, st, br)
<1>1. PICK w : w = m \o l
  OBVIOUS
<1>2. /\ m \in Seq(Units) /\ l \in Seq(Units) /\ st \in Seq(Payloads) /\ s \in Nat
      /\ br \subseteq 1 .. Frames /\ Len(l) + Len(m) <= s /\ s + 1 \in Nat
  BY SentSoFar DEF ClientOK
<1>3. PICK q \in Nat : q = Whole(s)
  BY <1>2, Quotients
<1>4. PICK r \in 0 .. FrameLen - 1 : r = Part(s)
  BY <1>2, Quotients
<1>5. PICK u \in Units : u = Unit(s + 1) /\ u = UnitAt(q + 1, r + 1)
  BY <1>2, <1>3, <1>4, SentIsUnit, NextUnit
<1>6. After(q, r, Whole(s + 1), Part(s + 1))
  BY <1>2, <1>3, <1>4, NextUnit DEF After
<1>7. PICK k : k = Append(l, u)
  OBVIOUS
<1>8. k \in Seq(Units) /\ Len(k) = Len(l) + 1 /\ Len(l) \in Nat /\ Len(m) \in Nat
  BY <1>2, <1>7, AppendProperties, LenProperties
<1>9. PICK v : v = m \o k
  OBVIOUS
<1>10. w \in Seq(Units) /\ v = Append(w, u)
  <2>1. <<u>> \in Seq(Units)
    OBVIOUS
  <2>2. w \in Seq(Units)
    BY <1>1, <1>2, Joined
  <2>3. k = l \o <<u>> /\ Append(w, u) = w \o <<u>>
    BY <1>2, <1>7, <2>2, AppendIsConcat
  <2>4. (m \o l) \o <<u>> = m \o (l \o <<u>>)
    BY <1>2, <2>1, ConcatAssociative
  <2>5. QED
    BY <1>1, <1>9, <2>2, <2>3, <2>4
<1>11. OnItsWay(md, s, w, TRUE, st, br)
  BY <1>1 DEF ClientOK
<1>12. Stream(w, q, r) /\ Served(w, q, r, st, br)
  BY <1>3, <1>4, <1>11 DEF OnItsWay
<1>13. Stream(v, Whole(s + 1), Part(s + 1)) /\ Served(v, Whole(s + 1), Part(s + 1), st, br)
  <2>1. UnitAt(q + 1, r + 1) \in Units /\ v = Append(w, UnitAt(q + 1, r + 1))
    BY <1>5, <1>10
  <2>2. PICK a, b : a = Whole(s + 1) /\ b = Part(s + 1)
    OBVIOUS
  <2>3. After(q, r, a, b)
    BY <1>6, <2>2
  <2>4. Stream(v, a, b) /\ Served(v, a, b, st, br)
    BY <1>12, <2>1, <2>3, Grows
  <2>5. QED
    BY <2>2, <2>4
<1>14. ASSUME md = "tcp" PROVE InTurn(st) /\ Follows(v, Len(st), s + 1)
  <2>1. InTurn(st) /\ Follows(w, Len(st), s)
    BY <1>11, <1>14 DEF OnItsWay
  <2>2. PICK n \in Nat : n = Len(w)
    BY <1>10, LenProperties
  <2>3. Len(v) = n + 1 /\ (\A i \in 1 .. n : v[i] = w[i]) /\ v[n + 1] = u
    BY <1>10, <2>2, AppendProperties
  <2>4. PICK x \in Nat : x = Len(st) * FrameLen
    BY <1>2, Sizes, LenProperties
  <2>5. x + n = s /\ \A i \in 1 .. n : w[i] = Unit(x + i)
    BY <2>1, <2>2, <2>4 DEF Follows
  <2>6. ASSUME NEW i \in 1 .. n + 1 PROVE v[i] = Unit(x + i)
    <3>1. CASE i = n + 1
      <4>1. x + i = s + 1
        BY <2>5, <3>1
      <4>2. QED
        BY <1>5, <2>3, <3>1, <4>1
    <3>2. CASE i # n + 1
      <4>1. i \in 1 .. n
        BY <3>2
      <4>2. QED
        BY <2>3, <2>5, <4>1
    <3>3. QED
      BY <3>1, <3>2
  <2>7. x + Len(v) = s + 1
    BY <2>3, <2>5
  <2>8. QED
    BY <2>1, <2>3, <2>4, <2>6, <2>7 DEF Follows
<1>15. OnItsWay(md, s + 1, v, TRUE, st, br)
  BY <1>13, <1>14 DEF OnItsWay
<1>16. s + 1 \in 0 .. Frames * FrameLen
  <2>1. PICK n \in Nat : n = Frames * FrameLen
    BY Sizes, ReceiveAssumption
  <2>2. QED
    BY <1>2, <2>1
<1>17. Len(k) + Len(m) <= s + 1 /\ s + 1 # 0
  BY <1>2, <1>8
<1>18. QED
  BY <1>2, <1>5, <1>7, <1>8, <1>9, <1>15, <1>16, <1>17 DEF ClientOK

LEMMA LostOne ==
  ASSUME NEW s, NEW l, NEW m, NEW cn, NEW st, NEW br, ClientOK("com", s, l, m, cn, st, br),
         s < Frames * FrameLen
  PROVE  ClientOK("com", s + 1, l, m, cn, st, br \cup {Unit(s + 1).frame})
<1>1. /\ m \in Seq(Units) /\ l \in Seq(Units) /\ st \in Seq(Payloads) /\ s \in Nat
      /\ br \subseteq 1 .. Frames /\ Len(l) + Len(m) <= s /\ cn \in BOOLEAN
  BY SentSoFar DEF ClientOK
<1>2. PICK q \in Nat : q = Whole(s)
  BY <1>1, Quotients
<1>3. PICK r \in 0 .. FrameLen - 1 : r = Part(s)
  BY <1>1, Quotients
<1>4. Unit(s + 1).frame = q + 1 /\ q + 1 \in 1 .. Frames
  BY <1>1, <1>2, SentIsUnit, NextUnit, UnitFacts
<1>5. After(q, r, Whole(s + 1), Part(s + 1))
  BY <1>1, <1>2, <1>3, NextUnit DEF After
<1>6. PICK w : w = m \o l
  OBVIOUS
<1>7. Stream(w, q, r) /\ Served(w, q, r, st, br)
  BY <1>2, <1>3, <1>6 DEF ClientOK, OnItsWay
<1>8. Stream(w, Whole(s + 1), Part(s + 1)) /\ Served(w, Whole(s + 1), Part(s + 1), st, br \cup {q + 1})
  BY <1>5, <1>7, Breaks
<1>9. s + 1 \in 0 .. Frames * FrameLen
  <2>1. PICK n \in Nat : n = Frames * FrameLen
    BY Sizes, ReceiveAssumption
  <2>2. QED
    BY <1>1, <2>1
<1>10. Len(l) + Len(m) <= s + 1 /\ s + 1 # 0
  BY <1>1, LenProperties
<1>11. OnItsWay("com", s + 1, w, cn, st, br \cup {q + 1})
  BY <1>8 DEF OnItsWay
<1>12. br \cup {q + 1} \subseteq 1 .. Frames
  BY <1>1, <1>4
<1>13. QED
  BY <1>1, <1>4, <1>6, <1>9, <1>10, <1>11, <1>12 DEF ClientOK

-----------------------------------------------------------------------------
(* How often a payload is stored.                                          *)

LEMMA TimesOnce ==
  ASSUME NEW st, NEW f, NEW i \in DOMAIN st, OnceAt(st, f, i) PROVE Times(st, Payload(f)) = 1
<1>1. {j \in DOMAIN st : st[j] = Payload(f)} = {i}
  BY DEF OnceAt
<1>2. QED
  BY <1>1, FS_Singleton DEF Times

LEMMA TimesNone ==
  ASSUME NEW st, NEW f, Absent(st, f) PROVE Times(st, Payload(f)) = 0
<1>1. {j \in DOMAIN st : st[j] = Payload(f)} = {}
  BY DEF Absent
<1>2. QED
  BY <1>1, FS_EmptySet DEF Times

\* A frame that came whole is stored, or is among those that are found.
LEMMA StoredOrWaits ==
  ASSUME NEW md, NEW s, NEW l, NEW m, NEW cn, NEW st, NEW br, ClientOK(md, s, l, m, cn, st, br),
         cn \/ md = "com", NEW f \in 1 .. Frames, f \notin br, s >= f * FrameLen, f \notin FramesOf(l),
         NEW fs, fs = FramesIn(m)
  PROVE  Times(st, Payload(f)) + Times(News(m, fs), Payload(f)) = 1
<1>1. PICK w : w = m \o l
  OBVIOUS
<1>2. m \in Seq(Units) /\ l \in Seq(Units) /\ st \in Seq(Payloads) /\ s \in Nat
  BY SentSoFar DEF ClientOK
<1>3. PICK q \in Nat : q = Whole(s)
  BY <1>2, Quotients
<1>4. PICK r \in 0 .. FrameLen - 1 : r = Part(s)
  BY <1>2, Quotients
<1>5. Stream(w, q, r) /\ Served(w, q, r, st, br)
  BY <1>1, <1>3, <1>4 DEF ClientOK, OnItsWay
<1>6. f \in Nat /\ f <= q
  <2>1. f \in Nat
    BY ReceiveAssumption
  <2>2. QED
    BY <1>2, <1>3, <2>1, WholeFrames
<1>7. /\ w \in Seq(Units) /\ Len(w) = Len(m) + Len(l) /\ Len(m) \in Nat /\ Len(l) \in Nat
      /\ DOMAIN w = 1 .. Len(w) /\ DOMAIN l = 1 .. Len(l)
      /\ \A i \in 1 .. Len(m) : w[i] = m[i]
      /\ \A i \in 1 .. Len(l) : w[Len(m) + i] = l[i]
  BY <1>1, <1>2, Joined, LenProperties
<1>8. Begins(m, w)
  BY <1>2, <1>7 DEF Begins
<1>9. Found(fs, m, 1)
  BY <1>7, FramesFound
<1>10. DOMAIN News(m, fs) = DOMAIN fs /\ \A a \in DOMAIN fs : News(m, fs)[a] = PayloadAt(m, fs[a])
  BY DEF News
<1>11. CASE NoneOf(w, f) /\ \E i \in DOMAIN st : OnceAt(st, f, i)
  <2>1. ASSUME NEW a \in DOMAIN fs PROVE PayloadAt(m, fs[a]) # Payload(f)
    <3>1. SUFFICES ASSUME PayloadAt(m, fs[a]) = Payload(f) PROVE FALSE
      OBVIOUS
    <3>2. PICK x \in 1 .. Len(m) : x = fs[a] /\ IsFrame(m, x)
      BY <1>2, <1>9, RestIs
    <3>3. x \in Nat /\ x + 3 \in 1 .. Len(m)
      <4>1. x \in Int /\ x \in Nat
        BY <1>7
      <4>2. EndOf(x) = x + FrameLen - 1 /\ FrameLen \in Nat /\ FrameLen >= 5
        BY <4>1, Sizes, Zenon
      <4>3. EndOf(x) <= Len(m)
        BY <3>2 DEF IsFrame
      <4>4. QED
        BY <1>7, <4>1, <4>2, <4>3
    <3>4. m[x + 3].frame = f
      BY <3>1, <3>2, <3>3, PayloadTells
    <3>5. QED
      BY <1>7, <1>11, <3>3, <3>4 DEF NoneOf
  <2>2. Times(News(m, fs), Payload(f)) = 0
    BY <1>10, <2>1, TimesNone DEF Absent
  <2>3. Times(st, Payload(f)) = 1
    BY <1>11, TimesOnce
  <2>4. QED
    BY <2>2, <2>3
<1>12. CASE Absent(st, f) /\ \E p \in Nat \ {0} : BlockAt(w, f, Got(f, q, r), p)
  <2>1. PICK p \in Nat \ {0} : BlockAt(w, f, Got(f, q, r), p)
    BY <1>12
  <2>2. PICK n \in Nat : n = FrameLen /\ n >= 5
    BY Sizes
  <2>3. Got(f, q, r) = n
    BY <1>6, <2>2 DEF Got
  <2>4. p + n - 1 <= Len(w) /\ \A j \in 1 .. n : w[p + j - 1] = UnitAt(f, j)
    BY <2>1, <2>3 DEF BlockAt
  <2>5. p + n - 1 <= Len(m)
    <3>1. SUFFICES ASSUME p + n - 1 > Len(m) PROVE FALSE
      BY <1>7, <2>2
    <3>2. PICK i \in 1 .. Len(l) : Len(m) + i = p + n - 1
      <4>1. (p + n - 1) - Len(m) \in 1 .. Len(l) /\ Len(m) + ((p + n - 1) - Len(m)) = p + n - 1
        BY <1>7, <2>4, <3>1
      <4>2. QED
        BY <4>1
    <3>3. n \in 1 .. n
      BY <2>2
    <3>4. l[i] = UnitAt(f, n)
      BY <1>7, <2>4, <3>2, <3>3
    <3>5. l[i].frame = f /\ i \in DOMAIN l
      BY <1>7, <3>4, UnitFacts
    <3>6. QED
      BY <3>5 DEF FramesOf
  <2>6. AllIn(m, Got(f, q, r), p)
    BY <2>2, <2>3, <2>5 DEF AllIn
  <2>7. p \in 1 .. Len(m) /\ WholeAt(m, p) /\ PayloadAt(m, p) = Payload(f)
    <3>1. PICK g : g = Got(f, q, r)
      OBVIOUS
    <3>2. Len(w) \in Nat /\ BlockAt(w, f, g, p) /\ AllIn(m, g, p)
      BY <1>7, <2>1, <2>6, <3>1
    <3>3. QED
      BY <1>8, <3>2, AllInIsWhole
  <2>8. PICK a \in DOMAIN fs : fs[a] = p
    BY <1>9, <2>7 DEF Found
  <2>9. ASSUME NEW b \in DOMAIN fs, PayloadAt(m, fs[b]) = Payload(f) PROVE b = a
    <3>1. PICK x \in 1 .. Len(m) : x = fs[b] /\ IsFrame(m, x)
      BY <1>2, <1>9, RestIs
    <3>2. x = p
      BY <1>5, <1>8, <2>1, <2>9, <3>1, TakenIsAllIn
    <3>3. p \in Int /\ EndOf(p) = p + n - 1
      BY <2>2, Sizes
    <3>4. ~ (EndOf(p) < p)
      BY <2>2, <3>3
    <3>5. ~ (a < b) /\ ~ (b < a)
      BY <1>9, <2>8, <3>1, <3>2, <3>4 DEF Found
    <3>6. a \in Nat /\ b \in Nat
      BY <1>9, LenProperties DEF Found
    <3>7. QED
      BY <3>5, <3>6
  <2>10. OnceAt(News(m, fs), f, a)
    BY <1>10, <2>7, <2>8, <2>9 DEF OnceAt
  <2>11. Times(News(m, fs), Payload(f)) = 1
    BY <1>10, <2>10, TimesOnce
  <2>12. Times(st, Payload(f)) = 0
    BY <1>12, TimesNone
  <2>13. QED
    BY <2>11, <2>12
<1>13. QED
  BY <1>5, <1>11, <1>12 DEF Served

-----------------------------------------------------------------------------
(* ... and the threads.                                                    *)

Flags == {"u_loop", "stop_inited", "sends", "thr", "listen_ready", "error"}

InRange ==
  /\ mode \in {"com", "tcp"}
  /\ win \in {"start", "ready", "failed", "server", "cback", "run", "closing", "join",
              "stopping", "delete", "over"}
  /\ loop \in {"none", "init", "async", "listen", "run", "close", "ended"}
  /\ srv \in [Flags -> BOOLEAN]
  /\ running \in BOOLEAN /\ updater \in BOOLEAN
  /\ inside \in Clients \cup {Null}

\* The TCP server is there in its own mode only, and then as long as the window
\* is; the window waits for it at the start and at the end.
Paired ==
  /\ mode = "com" => loop = "none" /\ win \notin {"ready", "failed", "closing", "join"} /\ inside = Null
  /\ mode = "tcp" /\ loop = "none" => win = "start"
  /\ win = "start" => loop = "none"
  /\ loop \in {"init", "async", "listen"} => win = "ready" /\ ~srv.listen_ready
  /\ mode = "tcp" /\ win \in {"stopping", "delete", "over"} => loop = "ended"

\* What the flags of Server_m say of its thread.
FlagsTell ==
  /\ loop \in {"none", "init", "ended"} <=> ~srv.u_loop
  /\ loop \in {"none", "init", "async", "close", "ended"} => ~srv.stop_inited

\* The callback is called while the server is there.
CalledInTime ==
  /\ inside # Null => loop = "run" /\ running
  /\ running => updater
  /\ win \in {"start", "ready", "server", "delete", "over"} => ~running

Tables ==
  /\ DOMAIN sent = Clients /\ DOMAIN line = Clients /\ DOMAIN inMess = Clients
  /\ DOMAIN conn = Clients /\ DOMAIN stored = Clients /\ DOMAIN broken = Clients

Data == \A c \in Clients : ClientOK(mode, sent[c], line[c], inMess[c], conn[c], stored[c], broken[c])

Threads == InRange /\ Paired /\ FlagsTell /\ CalledInTime

IInv == Threads /\ Tables /\ Data

LEMMA InitInv == Init => IInv
<1> SUFFICES ASSUME Init PROVE IInv
  OBVIOUS
<1>1. InRange /\ Paired /\ FlagsTell /\ CalledInTime
  <2>1. srv \in [Flags -> BOOLEAN]
    <3>1. srv = [u_loop |-> FALSE, stop_inited |-> FALSE, sends |-> FALSE, thr |-> FALSE,
                 listen_ready |-> FALSE, error |-> FALSE]
      BY DEF Init
    <3>2. srv = [f \in Flags |-> srv[f]]
      BY <3>1, SMT DEF Flags
    <3>3. \A f \in Flags : srv[f] = FALSE
      <4>1. /\ srv["u_loop"] = FALSE /\ srv["stop_inited"] = FALSE /\ srv["sends"] = FALSE
            /\ srv["thr"] = FALSE /\ srv["listen_ready"] = FALSE /\ srv["error"] = FALSE
        BY <3>1
      <4>2. QED
        BY <4>1 DEF Flags
    <3>4. QED
      BY <3>2, <3>3
  <2>2. ~srv.u_loop /\ ~srv.stop_inited /\ ~srv.listen_ready
    BY DEF Init
  <2>3. mode \in {"com", "tcp"} /\ win = "start" /\ loop = "none" /\ inside = Null /\ ~running /\ ~updater
    BY ReceiveAssumption DEF Init
  <2>4. running \in BOOLEAN /\ updater \in BOOLEAN
    BY DEF Init
  <2>5. QED
    BY <2>1, <2>2, <2>3, <2>4 DEF InRange, Paired, FlagsTell, CalledInTime
<1>2. Tables
  BY DEF Init, Tables
<1>3. ASSUME NEW c \in Clients
      PROVE  ClientOK(mode, sent[c], line[c], inMess[c], conn[c], stored[c], broken[c])
  <2>1. sent[c] = 0 /\ line[c] = <<>> /\ inMess[c] = <<>> /\ conn[c] = FALSE /\ stored[c] = <<>> /\ broken[c] = {}
    BY DEF Init
  <2>2. QED
    BY <2>1, NothingSent
<1>4. QED
  BY <1>1, <1>2, <1>3 DEF IInv, Threads, Data

\* What a step of the threads leaves of the data.
LEMMA DataStays == ASSUME Tables, Data, UNCHANGED data, mode' = mode PROVE Tables' /\ Data'
BY DEF Tables, Data, data

ThreadStep ==
  TcpStart \/ TcpStarted \/ JoinFailed \/ StartServer \/ SetDataCBack \/ Exit \/ TcpStop \/ TcpJoin
    \/ StopServer \/ DeleteUpdater \/ LoopInit \/ AsyncInit \/ Listen \/ CloseLoop

LEMMA ThreadStepInv == IInv /\ ThreadStep => IInv'
<1> SUFFICES ASSUME IInv, ThreadStep PROVE IInv'
  OBVIOUS
<1> USE DEF IInv, Threads
<1>1. CASE TcpStart
  BY <1>1, DataStays DEF TcpStart, Goto, InRange, Paired, FlagsTell, CalledInTime, Flags, data
<1>2. CASE TcpStarted
  BY <1>2, DataStays DEF TcpStarted, Goto, InRange, Paired, FlagsTell, CalledInTime, Flags, data
<1>3. CASE JoinFailed
  BY <1>3, DataStays DEF JoinFailed, Goto, InRange, Paired, FlagsTell, CalledInTime, Flags, data
<1>4. CASE StartServer
  BY <1>4, DataStays DEF StartServer, Goto, InRange, Paired, FlagsTell, CalledInTime, Flags, data
<1>5. CASE SetDataCBack
  BY <1>5, DataStays DEF SetDataCBack, Goto, InRange, Paired, FlagsTell, CalledInTime, Flags, data
<1>6. CASE Exit
  BY <1>6, DataStays DEF Exit, ReceiversFirst, Goto, InRange, Paired, FlagsTell, CalledInTime, Flags, data
<1>7. CASE TcpStop
  BY <1>7, DataStays DEF TcpStop, NothingToStop, Goto, InRange, Paired, FlagsTell, CalledInTime, Flags, data
<1>8. CASE TcpJoin
  BY <1>8, DataStays DEF TcpJoin, Goto, InRange, Paired, FlagsTell, CalledInTime, Flags, data
<1>9. CASE StopServer
  BY <1>9, DataStays DEF StopServer, Goto, InRange, Paired, FlagsTell, CalledInTime, Flags, data
<1>10. CASE DeleteUpdater
  BY <1>10, DataStays DEF DeleteUpdater, Goto, InRange, Paired, FlagsTell, CalledInTime, Flags, data
<1>11. CASE LoopInit
  BY <1>11, DataStays DEF LoopInit, InRange, Paired, FlagsTell, CalledInTime, Flags, data
<1>12. CASE AsyncInit
  BY <1>12, DataStays, ZenonT(60) DEF AsyncInit, AsyncInited, InRange, Paired, FlagsTell, CalledInTime, Flags, data
<1>13. CASE Listen
  BY <1>13, DataStays, ZenonT(60) DEF Listen, InRange, Paired, FlagsTell, CalledInTime, Flags, data
<1>14. CASE CloseLoop
  BY <1>14, DataStays DEF CloseLoop, InRange, Paired, FlagsTell, CalledInTime, Flags, data
<1>15. QED
  BY <1>1, <1>2, <1>3, <1>4, <1>5, <1>6, <1>7, <1>8, <1>9, <1>10, <1>11, <1>12, <1>13, <1>14
     DEF ThreadStep

\* The ports open or do not.
LEMMA ComStartInv == IInv /\ ComStart => IInv'
<1> SUFFICES ASSUME IInv, ComStart PROVE IInv'
  OBVIOUS
<1>1. Threads'
  BY DEF IInv, Threads, ComStart, Goto, InRange, Paired, FlagsTell, CalledInTime
<1>2. PICK open \in SUBSET Clients : conn' = [c \in Clients |-> c \in open]
  BY DEF ComStart
<1>3. Tables'
  BY <1>2 DEF IInv, Tables, ComStart
<1>4. ASSUME NEW c \in Clients
      PROVE  ClientOK(mode', sent'[c], line'[c], inMess'[c], conn'[c], stored'[c], broken'[c])
  <2>1. ClientOK("com", sent[c], line[c], inMess[c], conn[c], stored[c], broken[c])
    BY DEF IInv, Data, ComStart
  <2>2. conn'[c] \in BOOLEAN
    BY <1>2
  <2>3. ClientOK("com", sent[c], line[c], inMess[c], conn'[c], stored[c], broken[c])
    BY <2>1, <2>2, OpenOrNot
  <2>4. QED
    BY <2>3 DEF ComStart
<1>5. QED
  BY <1>1, <1>3, <1>4 DEF IInv, Data

\* ... and are closed.
LEMMA ComStopInv == IInv /\ ComStop => IInv'
<1> SUFFICES ASSUME IInv, ComStop PROVE IInv'
  OBVIOUS
<1>1. Threads'
  BY DEF IInv, Threads, ComStop, Goto, InRange, Paired, FlagsTell, CalledInTime
<1>2. Tables'
  BY DEF IInv, Tables, ComStop
<1>3. ASSUME NEW c \in Clients
      PROVE  ClientOK(mode', sent'[c], line'[c], inMess'[c], conn'[c], stored'[c], broken'[c])
  <2>1. ClientOK("com", sent[c], line[c], inMess[c], conn[c], stored[c], broken[c])
    BY DEF IInv, Data, ComStop
  <2>2. ClientOK("com", sent[c], <<>>, inMess[c], conn[c], stored[c], broken[c] \cup FramesOf(line[c]))
    BY <2>1, Dropped
  <2>3. ClientOK("com", sent[c], <<>>, inMess[c], FALSE, stored[c], broken[c] \cup FramesOf(line[c]))
    BY <2>2, OpenOrNot
  <2>4. conn'[c] = FALSE /\ line'[c] = <<>> /\ broken'[c] = broken[c] \cup FramesOf(line[c])
    BY DEF ComStop
  <2>5. QED
    BY <2>3, <2>4 DEF ComStop
<1>4. QED
  BY <1>1, <1>2, <1>3 DEF IInv, Data

\* A device connects.
LEMMA OnConnectInv == \A c \in Clients : IInv /\ OnConnect(c) => IInv'
<1> SUFFICES ASSUME NEW c \in Clients, IInv, OnConnect(c) PROVE IInv'
  OBVIOUS
<1>1. Threads'
  BY DEF IInv, Threads, OnConnect, threads, InRange, Paired, FlagsTell, CalledInTime
<1>2. Tables'
  BY DEF IInv, Tables, OnConnect
<1>3. mode = "tcp" /\ mode' = mode
  BY DEF IInv, Threads, InRange, Paired, OnConnect, Listening, threads
<1>4. ASSUME NEW d \in Clients
      PROVE  ClientOK(mode', sent'[d], line'[d], inMess'[d], conn'[d], stored'[d], broken'[d])
  <2>1. ClientOK("tcp", sent[d], line[d], inMess[d], conn[d], stored[d], broken[d])
    BY <1>3 DEF IInv, Data
  <2>2. CASE d = c
    <3>1. sent[d] = 0 /\ conn'[d] = TRUE
      BY <2>2 DEF IInv, Tables, OnConnect
    <3>2. ClientOK("tcp", sent[d], line[d], inMess[d], TRUE, stored[d], broken[d])
      BY <2>1, <3>1, Connected
    <3>3. QED
      BY <1>3, <3>1, <3>2 DEF OnConnect
  <2>3. CASE d # c
    BY <1>3, <2>1, <2>3 DEF IInv, Tables, OnConnect
  <2>4. QED
    BY <2>2, <2>3
<1>5. QED
  BY <1>1, <1>2, <1>4 DEF IInv, Data

\* A part of what is on the line is read.
LEMMA OnReadInv == \A c \in Clients : \A n \in 1 .. Len(line[c]) : IInv /\ OnRead(c, n) => IInv'
<1> SUFFICES ASSUME NEW c \in Clients, NEW n \in 1 .. Len(line[c]), IInv, OnRead(c, n) PROVE IInv'
  OBVIOUS
<1>1. Threads'
  <2>1. inside' \in Clients \cup {Null} /\ (inside' # Null => loop = "run" /\ running)
    BY DEF OnRead, Listening
  <2>2. UNCHANGED threads /\ mode # "com"
    BY DEF IInv, Threads, InRange, Paired, OnRead, Listening
  <2>3. QED
    BY <2>1, <2>2 DEF IInv, Threads, threads, InRange, Paired, FlagsTell, CalledInTime
<1>2. Tables'
  BY DEF IInv, Tables, OnRead
<1>3. mode = "tcp" /\ mode' = mode
  BY DEF IInv, Threads, InRange, Paired, OnRead, Listening, threads
<1>4. ASSUME NEW d \in Clients
      PROVE  ClientOK(mode', sent'[d], line'[d], inMess'[d], conn'[d], stored'[d], broken'[d])
  <2>1. ClientOK("tcp", sent[d], line[d], inMess[d], conn[d], stored[d], broken[d])
    BY <1>3 DEF IInv, Data
  <2>2. CASE d = c
    <3>1. PICK l \in Seq(Units) : l = line[c] /\ n \in 1 .. Len(l) /\ Len(l) \in Nat
      BY <2>1, <2>2, LenProperties DEF ClientOK
    <3>2. PICK x : x = SubSeq(l, 1, n)
      OBVIOUS
    <3>3. PICK y : y = SubSeq(l, n + 1, Len(l))
      OBVIOUS
    <3>4. x \in Seq(Units) /\ y \in Seq(Units) /\ x \o y = l
      <4>1. x \o y = l
        <5>1. 1 \in 1 .. Len(l) + 1 /\ n \in 1 - 1 .. Len(l) /\ Len(l) \in n .. Len(l)
          BY <3>1
        <5>2. SubSeq(l, 1, n) \o SubSeq(l, n + 1, Len(l)) = SubSeq(l, 1, Len(l))
          BY <5>1, ConcatAdjacentSubSeq
        <5>3. QED
          BY <3>2, <3>3, <5>2, SubSeqFull
      <4>2. \A i \in 1 .. Len(l) : l[i] \in Units
        BY ElementOfSeq
      <4>3. x \in Seq(Units)
        BY <3>1, <3>2, <4>2, SubSeqProperties
      <4>4. y \in Seq(Units)
        <5>1. n + 1 \in Int /\ Len(l) \in Int /\ \A i \in n + 1 .. Len(l) : l[i] \in Units
          BY <3>1, <4>2
        <5>2. QED
          BY <3>3, <5>1, SubSeqProperties
      <4>5. QED
        BY <4>1, <4>3, <4>4
    <3>5. conn[d] /\ line'[d] = y /\ inMess'[d] = inMess[d] \o x
      BY <2>2, <3>1, <3>2, <3>3 DEF IInv, Tables, OnRead, Kept
    <3>6. ClientOK("tcp", sent[d], y, inMess[d] \o x, conn[d], stored[d], broken[d])
      <4>1. ClientOK("tcp", sent[d], l, inMess[d], conn[d], stored[d], broken[d])
        BY <2>1, <2>2, <3>1
      <4>2. QED
        BY <3>4, <3>5, <4>1, Read
    <3>7. QED
      BY <1>3, <3>5, <3>6 DEF OnRead
  <2>3. CASE d # c
    BY <1>3, <2>1, <2>3 DEF IInv, Tables, OnRead
  <2>4. QED
    BY <2>2, <2>3
<1>5. QED
  BY <1>1, <1>2, <1>4 DEF IInv, Data

\* The callback looks at what was received.
LEMMA ReceivedInv == \A c \in Clients : IInv /\ Received(c) => IInv'
<1> SUFFICES ASSUME NEW c \in Clients, IInv, Received(c) PROVE IInv'
  OBVIOUS
<1>1. Threads'
  BY DEF IInv, Threads, Received, threads, InRange, Paired, FlagsTell, CalledInTime
<1>2. Tables'
  BY DEF IInv, Tables, Received, ReceiveData
<1>3. mode' = mode
  BY DEF Received, threads
<1>4. ASSUME NEW d \in Clients
      PROVE  ClientOK(mode', sent'[d], line'[d], inMess'[d], conn'[d], stored'[d], broken'[d])
  <2>1. ClientOK(mode, sent[d], line[d], inMess[d], conn[d], stored[d], broken[d])
    BY DEF IInv, Data
  <2>2. CASE d = c
    <3>1. PICK fs : fs = FramesIn(inMess[c])
      OBVIOUS
    <3>2. inMess'[d] = Rest(inMess[d], fs) /\ stored'[d] = stored[d] \o News(inMess[d], fs)
      BY <2>2, <3>1 DEF IInv, Tables, Received, ReceiveData, News
    <3>3. ClientOK(mode, sent[d], line[d], Rest(inMess[d], fs), conn[d],
                   stored[d] \o News(inMess[d], fs), broken[d])
      BY <2>1, <2>2, <3>1, Parsed
    <3>4. QED
      BY <1>3, <3>2, <3>3 DEF Received
  <2>3. CASE d # c
    BY <1>3, <2>1, <2>3 DEF IInv, Tables, Received, ReceiveData
  <2>4. QED
    BY <2>2, <2>3
<1>5. QED
  BY <1>1, <1>2, <1>4 DEF IInv, Data

\* A client is gone.
LEMMA OnReadEndInv == \A c \in Clients : IInv /\ OnReadEnd(c) => IInv'
<1> SUFFICES ASSUME NEW c \in Clients, IInv, OnReadEnd(c) PROVE IInv'
  OBVIOUS
<1>1. Threads'
  BY DEF IInv, Threads, OnReadEnd, threads, InRange, Paired, FlagsTell, CalledInTime
<1>2. Tables'
  BY DEF IInv, Tables, OnReadEnd
<1>3. mode = "tcp" /\ mode' = mode
  BY DEF IInv, Threads, InRange, Paired, OnReadEnd, Listening, threads
<1>4. ASSUME NEW d \in Clients
      PROVE  ClientOK(mode', sent'[d], line'[d], inMess'[d], conn'[d], stored'[d], broken'[d])
  <2>1. ClientOK("tcp", sent[d], line[d], inMess[d], conn[d], stored[d], broken[d])
    BY <1>3 DEF IInv, Data
  <2>2. CASE d = c
    <3>1. conn'[d] = FALSE /\ inMess'[d] = <<>>
      BY <2>2 DEF IInv, Tables, OnReadEnd
    <3>2. ClientOK("tcp", sent[d], line[d], <<>>, FALSE, stored[d], broken[d])
      BY <2>1, Gone
    <3>3. QED
      BY <1>3, <3>1, <3>2 DEF OnReadEnd
  <2>3. CASE d # c
    BY <1>3, <2>1, <2>3 DEF IInv, Tables, OnReadEnd
  <2>4. QED
    BY <2>2, <2>3
<1>5. QED
  BY <1>1, <1>2, <1>4 DEF IInv, Data

\* All of them are closed.
LEMMA OnStopInv == IInv /\ OnStop => IInv'
<1> SUFFICES ASSUME IInv, OnStop PROVE IInv'
  OBVIOUS
<1>1. Threads'
  BY DEF IInv, Threads, OnStop, StopClosed, InRange, Paired, FlagsTell, CalledInTime, Flags
<1>2. Tables'
  BY DEF IInv, Tables, OnStop
<1>3. mode = "tcp" /\ mode' = mode
  BY DEF IInv, Threads, InRange, Paired, OnStop
<1>4. ASSUME NEW d \in Clients
      PROVE  ClientOK(mode', sent'[d], line'[d], inMess'[d], conn'[d], stored'[d], broken'[d])
  <2>1. ClientOK("tcp", sent[d], line[d], inMess[d], conn[d], stored[d], broken[d])
    BY <1>3 DEF IInv, Data
  <2>2. conn'[d] = FALSE /\ inMess'[d] = <<>>
    BY DEF OnStop
  <2>3. ClientOK("tcp", sent[d], line[d], <<>>, FALSE, stored[d], broken[d])
    BY <2>1, Gone
  <2>4. QED
    BY <1>3, <2>2, <2>3 DEF OnStop
<1>5. QED
  BY <1>1, <1>2, <1>4 DEF IInv, Data

\* The COM reader takes all that has come and looks at it.
LEMMA HReadDataInv == \A c \in Clients : IInv /\ HReadData(c) => IInv'
<1> SUFFICES ASSUME NEW c \in Clients, IInv, HReadData(c) PROVE IInv'
  OBVIOUS
<1>1. Threads'
  BY DEF IInv, Threads, HReadData, threads, InRange, Paired, FlagsTell, CalledInTime
<1>2. Tables'
  BY DEF IInv, Tables, HReadData, ReceiveData
<1>3. mode = "com" /\ mode' = mode
  BY DEF HReadData, threads
<1>4. ASSUME NEW d \in Clients
      PROVE  ClientOK(mode', sent'[d], line'[d], inMess'[d], conn'[d], stored'[d], broken'[d])
  <2>1. ClientOK("com", sent[d], line[d], inMess[d], conn[d], stored[d], broken[d])
    BY <1>3 DEF IInv, Data
  <2>2. CASE d = c
    <3>1. PICK m : m = inMess[c] \o line[c]
      OBVIOUS
    <3>2. PICK fs : fs = FramesIn(m)
      OBVIOUS
    <3>3. inMess'[d] = Rest(m, fs) /\ stored'[d] = stored[d] \o News(m, fs) /\ line'[d] = <<>>
      BY <2>2, <3>1, <3>2 DEF IInv, Tables, HReadData, ReceiveData, News
    <3>4. PICK l \in Seq(Units) : l = line[c]
      BY <2>1, <2>2 DEF ClientOK
    <3>5. <<>> \in Seq(Units) /\ l = l \o <<>>
      BY EmptySeq, ConcatEmptySeq
    <3>6. ClientOK("com", sent[d], <<>>, inMess[d] \o l, conn[d], stored[d], broken[d])
      BY <2>1, <2>2, <3>4, <3>5, Read
    <3>7. ClientOK("com", sent[d], <<>>, m, conn[d], stored[d], broken[d])
      BY <2>2, <3>1, <3>4, <3>6
    <3>8. ClientOK("com", sent[d], <<>>, Rest(m, fs), conn[d], stored[d] \o News(m, fs), broken[d])
      BY <3>2, <3>7, Parsed
    <3>9. QED
      BY <1>3, <3>3, <3>8 DEF HReadData
  <2>3. CASE d # c
    BY <1>3, <2>1, <2>3 DEF IInv, Tables, HReadData, ReceiveData
  <2>4. QED
    BY <2>2, <2>3
<1>5. QED
  BY <1>1, <1>2, <1>4 DEF IInv, Data

\* A port is closed, or opened again.
LEMMA CheckConnectInv == \A c \in Clients : IInv /\ CheckConnect(c) => IInv'
<1> SUFFICES ASSUME NEW c \in Clients, IInv, CheckConnect(c) PROVE IInv'
  OBVIOUS
<1>1. Threads'
  BY DEF IInv, Threads, CheckConnect, threads, InRange, Paired, FlagsTell, CalledInTime
<1>2. mode = "com" /\ mode' = mode
  BY DEF CheckConnect, threads
<1>3. UNCHANGED <<sent, inMess, stored>>
  BY DEF CheckConnect
<1>4. CASE UNCHANGED <<line, broken>> /\ \E ok \in BOOLEAN : conn' = [conn EXCEPT ![c] = ok]
  <2>1. Tables'
    BY <1>3, <1>4 DEF IInv, Tables
  <2>2. ASSUME NEW d \in Clients
        PROVE  ClientOK("com", sent'[d], line'[d], inMess'[d], conn'[d], stored'[d], broken'[d])
    <3>1. ClientOK("com", sent[d], line[d], inMess[d], conn[d], stored[d], broken[d])
      BY <1>2 DEF IInv, Data
    <3>2. conn[d] \in BOOLEAN
      BY <3>1 DEF ClientOK
    <3>3. conn'[d] \in BOOLEAN
      BY <1>4, <3>2 DEF IInv, Tables
    <3>4. ClientOK("com", sent[d], line[d], inMess[d], conn'[d], stored[d], broken[d])
      BY <3>1, <3>3, OpenOrNot
    <3>5. QED
      BY <1>3, <1>4, <3>4
  <2>3. QED
    BY <1>1, <1>2, <2>1, <2>2 DEF IInv, Data
<1>5. CASE /\ conn' = [conn EXCEPT ![c] = FALSE]
           /\ line' = [line EXCEPT ![c] = <<>>]
           /\ broken' = [broken EXCEPT ![c] = @ \cup FramesOf(line[c])]
  <2>1. Tables'
    BY <1>3, <1>5 DEF IInv, Tables
  <2>2. ASSUME NEW d \in Clients
        PROVE  ClientOK("com", sent'[d], line'[d], inMess'[d], conn'[d], stored'[d], broken'[d])
    <3>1. ClientOK("com", sent[d], line[d], inMess[d], conn[d], stored[d], broken[d])
      BY <1>2 DEF IInv, Data
    <3>2. CASE d = c
      <4>1. conn'[d] = FALSE /\ line'[d] = <<>> /\ broken'[d] = broken[d] \cup FramesOf(line[d])
        BY <1>5, <3>2 DEF IInv, Tables
      <4>2. ClientOK("com", sent[d], <<>>, inMess[d], conn[d], stored[d], broken[d] \cup FramesOf(line[d]))
        BY <3>1, Dropped
      <4>3. ClientOK("com", sent[d], <<>>, inMess[d], FALSE, stored[d], broken[d] \cup FramesOf(line[d]))
        BY <4>2, OpenOrNot
      <4>4. QED
        BY <1>3, <4>1, <4>3
    <3>3. CASE d # c
      BY <1>3, <1>5, <3>1, <3>3 DEF IInv, Tables
    <3>4. QED
      BY <3>2, <3>3
  <2>3. QED
    BY <1>1, <1>2, <2>1, <2>2 DEF IInv, Data
<1>6. CASE UNCHANGED <<conn, line, broken>>
  BY <1>1, <1>2, <1>3, <1>6 DEF IInv, Tables, Data
<1>7. QED
  BY <1>4, <1>5, <1>6 DEF CheckConnect

\* A device sends, and the line carries the unit or loses it.
LEMMA SendInv == \A c \in Clients : IInv /\ Send(c) => IInv'
<1> SUFFICES ASSUME NEW c \in Clients, IInv, Send(c) PROVE IInv'
  OBVIOUS
<1>1. Threads'
  BY DEF IInv, Threads, Send, threads, InRange, Paired, FlagsTell, CalledInTime
<1>2. Tables'
  BY DEF IInv, Tables, Send
<1>3. mode' = mode
  BY DEF Send, threads
<1>4. ASSUME NEW d \in Clients
      PROVE  ClientOK(mode', sent'[d], line'[d], inMess'[d], conn'[d], stored'[d], broken'[d])
  <2>1. ClientOK(mode, sent[d], line[d], inMess[d], conn[d], stored[d], broken[d])
    BY DEF IInv, Data
  <2>2. CASE d = c
    <3>1. conn[d] = TRUE /\ sent[d] < Frames * FrameLen
      <4>1. conn[d] /\ conn[d] \in BOOLEAN
        BY <2>1, <2>2 DEF Send, ClientOK
      <4>2. QED
        BY <2>2, <4>1 DEF Send
    <3>2. sent'[d] = sent[d] + 1 /\ line'[d] = Append(line[d], Unit(sent[d] + 1))
      BY <2>2 DEF IInv, Tables, Send
    <3>3. ClientOK(mode, sent[d], line[d], inMess[d], TRUE, stored[d], broken[d])
      BY <2>1, <3>1
    <3>4. ClientOK(mode, sent[d] + 1, Append(line[d], Unit(sent[d] + 1)), inMess[d], TRUE, stored[d], broken[d])
      BY <3>1, <3>3, SentOne
    <3>5. QED
      BY <1>3, <3>1, <3>2, <3>4 DEF Send
  <2>3. CASE d # c
    BY <1>3, <2>1, <2>3 DEF IInv, Tables, Send
  <2>4. QED
    BY <2>2, <2>3
<1>5. QED
  BY <1>1, <1>2, <1>4 DEF IInv, Data

LEMMA SendLostInv == \A c \in Clients : IInv /\ SendLost(c) => IInv'
<1> SUFFICES ASSUME NEW c \in Clients, IInv, SendLost(c) PROVE IInv'
  OBVIOUS
<1>1. Threads'
  BY DEF IInv, Threads, SendLost, threads, InRange, Paired, FlagsTell, CalledInTime
<1>2. Tables'
  BY DEF IInv, Tables, SendLost
<1>3. mode = "com" /\ mode' = mode
  BY DEF SendLost, threads
<1>4. ASSUME NEW d \in Clients
      PROVE  ClientOK(mode', sent'[d], line'[d], inMess'[d], conn'[d], stored'[d], broken'[d])
  <2>1. ClientOK("com", sent[d], line[d], inMess[d], conn[d], stored[d], broken[d])
    BY <1>3 DEF IInv, Data
  <2>2. CASE d = c
    <3>1. /\ sent[d] < Frames * FrameLen /\ sent'[d] = sent[d] + 1
          /\ broken'[d] = broken[d] \cup {Unit(sent[d] + 1).frame}
      BY <2>2 DEF IInv, Tables, SendLost
    <3>2. ClientOK("com", sent[d] + 1, line[d], inMess[d], conn[d], stored[d],
                   broken[d] \cup {Unit(sent[d] + 1).frame})
      BY <2>1, <3>1, LostOne
    <3>3. QED
      BY <1>3, <3>1, <3>2 DEF SendLost
  <2>3. CASE d # c
    BY <1>3, <2>1, <2>3 DEF IInv, Tables, SendLost
  <2>4. QED
    BY <2>2, <2>3
<1>5. QED
  BY <1>1, <1>2, <1>4 DEF IInv, Data

-----------------------------------------------------------------------------
(* Theorems.                                                               *)

\* The inductive invariant holds in every reachable state.
THEOREM Invariance == Spec => []IInv
<1>1. IInv /\ [Next]_vars => IInv'
  <2> SUFFICES ASSUME IInv, [Next]_vars PROVE IInv'
    OBVIOUS
  <2>1. CASE ThreadStep \/ ComStart \/ ComStop
    BY <2>1, ThreadStepInv, ComStartInv, ComStopInv
  <2>2. CASE OnStop \/ \E c \in Clients : Received(c)
    BY <2>2, OnStopInv, ReceivedInv
  <2>3. CASE \E c \in Clients : \/ OnConnect(c) \/ OnReadEnd(c) \/ HReadData(c)
                                \/ CheckConnect(c) \/ Send(c) \/ SendLost(c)
                                \/ \E n \in 1 .. Len(line[c]) : OnRead(c, n)
    BY <2>3, OnConnectInv, OnReadInv, OnReadEndInv, HReadDataInv, CheckConnectInv, SendInv, SendLostInv
  <2>4. CASE UNCHANGED vars
    <3>1. UNCHANGED data /\ mode' = mode /\ UNCHANGED threads /\ inside' = inside
      BY <2>4 DEF vars, data, threads
    <3>2. Threads'
      BY <3>1 DEF IInv, Threads, threads, InRange, Paired, FlagsTell, CalledInTime
    <3>3. QED
      BY <3>1, <3>2, DataStays DEF IInv
  <2>5. QED
    BY <2>1, <2>2, <2>3, <2>4 DEF Next, WindowStep, LoopStep, ThreadStep
<1>2. QED
  BY <1>1, InitInv, PTL DEF Spec

\* Every variable keeps to its range, and a TCP thread that has ended leaves a
\* Server_m that can be started again (tcp_server.cpp).
THEOREM TypeCorrect == Spec => []TypeOK
<1>1. IInv => TypeOK
  <2> SUFFICES ASSUME IInv PROVE TypeOK
    OBVIOUS
  <2>1. ASSUME NEW c \in Clients
        PROVE  /\ sent[c] \in 0 .. Frames * FrameLen
               /\ Len(line[c]) <= sent[c] /\ Len(inMess[c]) <= sent[c]
               /\ \A i \in DOMAIN stored[c] : Len(stored[c][i]) = PayloadLen
               /\ broken[c] \subseteq 1 .. Frames
    <3>1. /\ sent[c] \in 0 .. Frames * FrameLen /\ broken[c] \subseteq 1 .. Frames
          /\ line[c] \in Seq(Units) /\ inMess[c] \in Seq(Units) /\ stored[c] \in Seq(Payloads)
          /\ Len(line[c]) + Len(inMess[c]) <= sent[c]
      BY DEF IInv, Data, ClientOK
    <3>2. sent[c] \in Nat /\ Len(line[c]) \in Nat /\ Len(inMess[c]) \in Nat
      BY <3>1, SentSoFar, LenProperties
    <3>3. ASSUME NEW i \in DOMAIN stored[c] PROVE Len(stored[c][i]) = PayloadLen
      <4>1. stored[c][i] \in [1 .. PayloadLen -> (1 .. Frames) \X Places]
        BY <3>1, ElementOfSeq, LenProperties DEF Payloads
      <4>2. QED
        BY <4>1, ReceiveAssumption
    <3>4. Len(line[c]) <= sent[c] /\ Len(inMess[c]) <= sent[c]
      <4>1. PICK a, b, s \in Nat : a = Len(line[c]) /\ b = Len(inMess[c]) /\ s = sent[c]
        BY <3>2
      <4>2. a + b <= s
        BY <3>1, <4>1
      <4>3. a <= s /\ b <= s
        BY <4>2
      <4>4. QED
        BY <4>1, <4>3
    <3>5. QED
      BY <3>1, <3>3, <3>4
  <2>2. QED
    BY <2>1 DEF IInv, Threads, InRange, FlagsTell, Flags, TypeOK
<1>2. QED
  BY <1>1, Invariance, PTL

\* Who is past the test of m_isRunning stores into a server that is there
\* (server.cpp, receiveData and stopServer; main_win.cpp, the destructor).
THEOREM StoresOnlyIntoServer == Spec => []StoresIntoServer
<1>1. IInv => StoresIntoServer
  BY DEF IInv, Threads, CalledInTime, StoresIntoServer
<1>2. QED
  BY <1>1, Invariance, PTL

\* A frame that came whole is stored once, in whatever pieces it came and
\* whatever was lost before it, or it waits, whole, among the received data;
\* what comes in one connection is stored in the order it was sent
\* (server.cpp, receiveData; tcp_server.cpp, on_read; com_reader.cpp).
THEOREM FramesAreServed == Spec => []FramesServed
<1>1. IInv => FramesServed
  <2> SUFFICES ASSUME IInv, NEW c \in Clients
      PROVE  /\ \A f \in (1 .. Frames) \ broken[c] :
                  Past(c, f) /\ (conn[c] \/ mode = "com") =>
                    Times(stored[c], Payload(f)) +
                      Times([i \in DOMAIN FramesIn(inMess[c]) |->
                               PayloadAt(inMess[c], FramesIn(inMess[c])[i])], Payload(f)) = 1
             /\ mode = "tcp" => \A i \in DOMAIN stored[c] : stored[c][i] = Payload(i)
    BY DEF FramesServed
  <2>1. ClientOK(mode, sent[c], line[c], inMess[c], conn[c], stored[c], broken[c])
    BY DEF IInv, Data
  <2>2. ASSUME NEW f \in (1 .. Frames) \ broken[c], Past(c, f), conn[c] \/ mode = "com"
        PROVE  Times(stored[c], Payload(f)) +
                 Times([i \in DOMAIN FramesIn(inMess[c]) |->
                          PayloadAt(inMess[c], FramesIn(inMess[c])[i])], Payload(f)) = 1
    <3>1. PICK fs : fs = FramesIn(inMess[c])
      OBVIOUS
    <3>2. f \in 1 .. Frames /\ f \notin broken[c] /\ sent[c] >= f * FrameLen /\ f \notin FramesOf(line[c])
      BY <2>2 DEF Past
    <3>3. Times(stored[c], Payload(f)) + Times(News(inMess[c], fs), Payload(f)) = 1
      BY <2>1, <2>2, <3>1, <3>2, StoredOrWaits
    <3>4. QED
      BY <3>1, <3>3 DEF News
  <2>3. mode = "tcp" => \A i \in DOMAIN stored[c] : stored[c][i] = Payload(i)
    BY <2>1 DEF ClientOK, OnItsWay, InTurn
  <2>4. QED
    BY <2>2, <2>3
<1>2. QED
  BY <1>1, Invariance, PTL

=============================================================================
