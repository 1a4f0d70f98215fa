----------------------------- MODULE PlotChecks -----------------------------
(* What a graph paints and writes, against the samples it was made of.      *)
(* TLC evaluates the assumptions in the run of MCGraphPanel.                *)
EXTENDS Plot

\* Records of two samples, 10 ms apart.
Records(times, vals) == [r \in DOMAIN times |-> [begin |-> times[r], vals |-> <<vals[2 * r - 1], vals[2 * r]>>]]

NoGap  == <<100, 120, 140>>
OneGap == <<100, 120, 180>>

Vals == [1 .. 6 -> {0, 1, 3}]

Tm(first, second, width) == Between(NewAxisTime(0, width), first, second)

\* A pixel to a value, or only one to three of them.
Ax(perPixel) == WithValues(NewAxisValue(8), 0, 8 * perPixel)

Lines(times, vals, width, perPixel, tolerance) ==
  GetPoints("INT", Records(times, vals), Tm(100, 200, width), Ax(perPixel), 10, tolerance)

Samples(times, vals) ==
  {[t |-> times[r] + 10 * i, val |-> vals[2 * r - 1 + i]] : r \in DOMAIN times, i \in 0 .. 1}

Widths == {2, 3, 7, 20}

(* However few the columns, the lines reach as high and as low as the       *)
(* samples do, and the points go from left to right - in the first zone.    *)
ASSUME ExtremesAreDrawn ==
  \A vals \in Vals, width \in Widths, times \in {NoGap, OneGap} :
    LET zones == Lines(times, vals, width, 1, 1)
    IN  /\ GetSignPntsMaxMinValue(zones) = <<Min(Range(vals)), Max(Range(vals))>>
        /\ \A i \in 1 .. Len(zones[1]) - 1 : zones[1][i][1] <= zones[1][i + 1][1]
        /\ \A z \in DOMAIN zones : \A i \in 1 .. Len(zones[z]) - 1 :
             zones[z][i][1] > zones[z][i + 1][1] => z > 1 /\ i = 2

(* Lines break where records are missing for longer than is tolerated.      *)
ASSUME ZonesAreRuns ==
  \A times \in {<<x, x + d, x + d + e>> : x \in {100}, d \in 20 .. 61, e \in {20, 39, 40, 41}},
     tolerance \in 0 .. 2 :
    Len(Lines(times, <<1, 1, 1, 1, 1, 1>>, 10, 1, tolerance))
      = 1 + Cardinality({r \in 2 .. 3 : times[r] - times[r - 1] - 20 > 20 * tolerance})

(* Every sample is on the lines, or no further from them than a column.     *)
ASSUME SamplesAreDrawn ==
  \A vals \in Vals, width \in Widths, times \in {NoGap, OneGap} :
    LET zones == Lines(times, vals, width, 1, 0)
    IN  \A s \in Samples(times, vals) :
          \E z \in DOMAIN zones : \E i \in 1 .. Len(zones[z]) - 1 :
            LET p == zones[z][i]
                q == zones[z][i + 1]
                x == TimePnt(Tm(100, 200, width), s.t)
            IN  /\ Min({p[1], q[1]}) - 1 <= x /\ x <= Max({p[1], q[1]}) + 1
                /\ Min({p[2], q[2]}) <= s.val /\ s.val <= Max({p[2], q[2]})

(* The axis is fitted to within a pixel of what the samples are; the        *)
(* lowest and the highest of them are never outside by more.               *)
ASSUME FitsValues ==
  \A vals \in Vals, perPixel \in {1, 2, 3} :
    LET v == Ax(perPixel)
        w == ResizeByValue(v, {[type |-> "INT", zones |-> Lines(NoGap, vals, 10, perPixel, 1)],
                               [type |-> "BOOL", zones |-> <<<<<<0, 0>>, <<1, 1>>>>>>]})
    IN  \/ w.lo = w.hi - 2 * Tenth
        \/ /\ w.lo <= Min(Range(vals)) /\ Min(Range(vals)) < w.lo + perPixel
           /\ w.hi <= Max(Range(vals)) /\ Max(Range(vals)) < w.hi + perPixel

(* What the table says of a marker that is on a sample is the sample, as    *)
(* far as pixels can tell; on no line it says nothing.                      *)
ASSUME MarkerTellsSample ==
  \A vals \in Vals, perPixel \in {1, 2}, pos \in 0 .. 9 :
    LET zones == Lines(NoGap, vals, 10, perPixel, 1)
        at    == MarkerPoint(zones, pos)
    IN  IF pos \notin 0 .. 5 THEN at = <<>>
        ELSE vals[pos + 1] - PointValue(Ax(perPixel), "INT", at[2]) \in 0 .. perPixel - 1

(* Minimum and maximum between the markers are those of the samples there,  *)
(* and the order of the markers is of no matter.                            *)
ASSUME StatIsOfSamples ==
  \A vals \in Vals, m1, m2 \in -1 .. 6 :
    LET zones == Lines(NoGap, vals, 10, 1, 1)
        st    == GetStatParams(zones, Ax(1), "INT", m1, m2)
        in    == {vals[k] : k \in {n \in 1 .. 6 : Min({m1, m2}) < n /\ n <= Max({m1, m2}) + 1}}
    IN  /\ st = GetStatParams(zones, Ax(1), "INT", m2, m1)
        /\ IF in = {} THEN st.count = 0 /\ st.min > st.max
           ELSE st.min = Min(in) /\ st.max = Max(in)

(* A bar covers every point at which the BOOL is on, but for a last one;    *)
(* and it begins a point too early, except at the beginning of a zone.      *)
ASSUME BarsAreOn ==
  \A n \in 2 .. 6 : \A on \in [1 .. n -> 0 .. 1] :
    LET bars == Bars([i \in 1 .. n |-> <<i, on[i]>>])
        covered == UNION {b[1] .. b[2] : b \in Range(bars)}
    IN  /\ \A i \in 1 .. n - 1 : on[i] = 1 => i \in covered
        /\ \A i \in covered : on[i] = 1 \/ on[i + 1] = 1
        /\ n \notin covered

(* On top or below, every label begins in reach of its bar and no other.    *)
ASSUME LabelAtBar ==
  \A n \in 1 .. 5, onTop \in BOOLEAN, font \in 12 .. 15 : \A k, j \in 1 .. n :
    LET bar   == BarPlace(n, k, 200, onTop)
        label == LabelPlace(n, j, 200, onTop, font)
    IN  (label <= bar[1] + 1 /\ bar[2] <= label + 15) <=> (k = j)

(* The filling begins at the height of 0, as far as the plot reaches.       *)
ASSUME FillsFromZero ==
  \A lo \in -20 .. 20, perPixel \in 1 .. 3 :
    LET v    == WithValues(NewAxisValue(8), lo * perPixel, (lo + 8) * perPixel)
        zero == IF -lo < 0 THEN 0 ELSE IF -lo > 8 THEN 8 ELSE -lo
    IN  FillBase(v) = zero

\* Of lines of up to 1024 points each is filled under; of longer ones about as many.
ASSUME FillsMost ==
  /\ \A n \in {2, 3, 1000, 1024} : FillPoints(n) = 1 .. n
  /\ \A n \in {1025, 1500} : Cardinality(FillPoints(n)) \in 1000 .. 1024

(* The value at a marker is written inside a plot that is large enough, and *)
(* of no BOOL; the sample lies within the pixel it is of.                   *)
ASSUME TextInside ==
  \A vals \in Vals, pos \in 0 .. 9, w \in {2, 8} :
    LET zones == Lines(NoGap, vals, 10, 5, 1)
        texts == MarkerTexts({[sign |-> "x", type |-> "INT", zones |-> zones],
                              [sign |-> "y", type |-> "BOOL", zones |-> zones]},
                             Ax(5), pos, 20, 40, [width |-> w, height |-> 12])
    IN  /\ {t.sign : t \in texts} = IF pos \in 0 .. 5 THEN {"x"} ELSE {}
        /\ \A t \in texts : /\ t.at[1] \in 0 .. 20 - w /\ t.at[2] \in 0 .. 40 - 12
                            /\ vals[pos + 1] - t.val \in 0 .. 4

(* The first eight signals of a new graph differ in colour; the ninth looks *)
(* like the seventh.                                                        *)
ASSUME ColorsDiffer ==
  LET color(k) == NewColor(k, 30 + 30 * k)
  IN  /\ \A i, j \in 1 .. 8 : i # j => color(i) # color(j)
      /\ color(9) = color(7)

\* Other colours leave those alone that were chosen in the settings.
ASSUME GivenColorsStay ==
  \A n \in 1 .. 6 : \A given \in SUBSET (1 .. n) :
    LET old == [k \in 1 .. n |-> NewColor(k, 30 + 30 * k)]
        new == ColorUpdate(30 + 30 * n, old, given).colors
    IN  \A k \in 1 .. n : new[k] = old[k] <=> k \in given

(* The table is made before the other graphs follow: of those it shows the  *)
(* markers, or the lines, of before.                                        *)
ASSUME TableIsBehind ==
  \A g \in 1 .. 3 :
    LET names  == <<"graph_0", "graph_1", "graph_2">>
        before == [marks |-> [i \in 1 .. 3 |-> <<1, 5>>], seen |-> [i \in 1 .. 3 |-> <<0, 9>>],
                   table |-> <<>>]
        moved  == PanelMarkerChange([before EXCEPT !.marks[g] = <<2, 5>>], names, g)
        zoomed == PanelTimeChange(before, names, g, <<3, 6>>, TRUE)
    IN  /\ \A i \in 1 .. 3 : moved.marks[i] = <<2, 5>> /\ zoomed.seen[i] = <<3, 6>>
        /\ \A i \in 1 .. 3 : moved.table.marks[i] = moved.marks[i] <=> i = g
        /\ \A i \in 1 .. 3 : zoomed.table.seen[i] = zoomed.seen[i] <=> i = g
=============================================================================
