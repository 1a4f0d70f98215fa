----------------------------- MODULE WebChecks -----------------------------
(***************************************************************************)
(* What comes of messages cut into pieces, of polls that are not in step   *)
(* with the packets, and of answers that overtake each other or come late. *)
(***************************************************************************)
EXTENDS WebServer, WebPage

LOCAL Tok(kind, text) == [kind |-> kind, text |-> text]

LOCAL Registry ==
  [sig   |-> [k \in {"am", "bm"} |->
                [name |-> k, module |-> "m", active |-> TRUE,
                 last |-> [begin |-> 10, vals |-> IF k = "am" THEN <<1, 2>> ELSE <<3, 4>>]]],
   modul |-> [m \in {"m"} |-> TRUE],
   files |-> {<<"/index.html">>, <<"/app", ".js">>, <<"/allSignals">>}]

\* Addresses the page asks for, and what they are meant to be answered with.
LOCAL Addresses ==
  << <<Tok("segment", "/")>>,
     <<Tok("segment", "/app"), Tok("more", ".js")>>,
     <<Tok("segment", "/api"), Tok("segment", "/allSignals")>>,
     <<Tok("segment", "/api"), Tok("segment", "/allModules")>>,
     <<Tok("segment", "/api"), Tok("segment", "/lastSignalData"), Tok("ask", "?"),
       Tok("name", "am"), Tok("name", "none")>> >>

LOCAL Message(u) == <<Tok("get", "GET")>> \o u \o <<Tok("space", " "), Tok("end", "")>>

LOCAL Meant(u) == Response(Registry, Texts(u, {"segment", "more"}), Texts(u, {"name"}))

\* The answers to what arrives in these pieces.
LOCAL Told(pieces) ==
  FoldLeft(LAMBDA c, x : ReadData(Registry, c, x), NewConnection, pieces).answers

LOCAL Cut(s, at) == <<SubSeq(s, 1, at), SubSeq(s, at + 1, Len(s))>>

\* Requests that come one after the other, or together, or with a cut anywhere
\* but within an address, are answered in order, each with what it asked for
\* (web_server_impl.cpp:99-158): nothing of one is left over for the next.
ASSUME AnsweredInOrder ==
  /\ Meant(Addresses[1]).body = <<"/index.html">> /\ DOMAIN Meant(Addresses[5]).body = {"am"}
  /\ \A i, j \in DOMAIN Addresses :
       LET m == Message(Addresses[i])
           n == Message(Addresses[j])
           meant == <<Meant(Addresses[i]), Meant(Addresses[j])>>
       IN  /\ Told(<<m \o n>>) = meant
           /\ \A at \in {1, Len(m) - 1, Len(m), Len(m) + 1, Len(m \o n) - 1} :
                Told(Cut(m \o n, at)) = meant

\* An address that is cut, even at its very end, is not answered with what it
\* asked for: either its last part is taken for a whole address, or the
\* connection refuses that piece and every later request
\* (web_server_impl.cpp:103-108).
ASSUME CutAddressIsLost ==
  \A i, j \in DOMAIN Addresses : LET u == Addresses[i] IN
    \A at \in 2 .. Len(u) + 1 :
      LET pieces == Cut(Message(u), at)
          told   == Told(Append(pieces, Message(Addresses[j])))
          bad    == [status |-> 400, body |-> << >>]
      IN  IF at <= Len(u) /\ u[at].kind = "segment"
          THEN told = <<Response(Registry, Texts(SubSeq(u, at, Len(u)), {"segment", "more"}),
                                 Texts(SubSeq(u, at, Len(u)), {"name"})), Meant(Addresses[j])>>
          ELSE told = <<bad, bad>>

\* The agent answers a name with the signal's last value, and anything else,
\* two names that arrive together as well, as if the signal were 0
\* (zbx_server.cpp:54-85).
ASSUME OneNameOneValue ==
  /\ ZbxReadData(Registry, <<"am">>) = 2 /\ ZbxReadData(Registry, <<"bm">>) = 4
  /\ \A arrived \in {<<"none">>, <<"am", "bm">>, << >>} : ZbxReadData(Registry, arrived) = 0

-----------------------------------------------------------------------------

LOCAL PageCalls ==
  {[op |-> "graph"]} \cup [op : {"close"}, i : {1, 2}]
    \cup [op : {"add", "remove"}, i : {1, 2}, key : {"k", "l"}]

LOCAL Called(p, c) ==
  CASE c.op = "graph"  -> AddGraph(p)
    [] c.op = "close"  -> CloseGraph(p, c.i)
    [] c.op = "add"    -> AddSignalToGraph(p, c.i, c.key)
    [] c.op = "remove" -> RemoveSignal(p, c.i, c.key)

\* A signal is asked for exactly while it is on a graph, whatever has been
\* added, removed and closed (GraphPanel.tsx:34-78, App.tsx:63-87).
ASSUME AskedIsShown ==
  \A calls \in [1 .. 3 -> PageCalls] :
    LET both == AddSignalToGraph(AddSignalToGraph(AddGraph(NewPage({"k", "l"})), 1, "k"), 2, "k")
        p    == FoldLeft(Called, both, calls)
    IN  \A key \in {"k", "l"} :
          p.signals[key].ena <=> \E i \in DOMAIN p.graphs : Contains(p.graphs[i], key)

\* A row that is dropped is the signal it was, unless the name of its module
\* has a dot (Plot.tsx:836-843).
ASSUME DottedModuleIsLost ==
  LET names == {<<"n">>, <<"n", ".", "o">>}
  IN  /\ \A name \in names : Dropped(Dragged(name, <<"m">>)) = name \o <<"m">>
      /\ \A name \in names : Dropped(Dragged(name, <<"m", ".", "e">>)) # name \o <<"m", ".", "e">>

LOCAL Packet(n) == [begin |-> 10 * n, vals |-> [i \in 1 .. 10 |-> n]]
LOCAL LastAt(t) == [key \in {"k"} |-> Packet(t \div 10)]
LOCAL Shown     == AddSignalToGraph(NewPage({"k"}), 1, "k")
LOCAL Buff(p)   == p.signals["k"].buff

\* The page after n polls every nine cycles from a time on, each answered at
\* once.
LOCAL Polled(from, n) ==
  FoldLeft(LAMBDA p, i : Answer(Poll(p, LastAt(from + 9 * i)), 1), Shown, [i \in 1 .. n |-> i])

\* At nine tenths of a packet's time no packet is missed, none comes more than
\* twice, and they come in order (useTelemetry.ts:156).
ASSUME NoPacketMissed ==
  \A b \in {Buff(Polled(from, 14)) : from \in 10 .. 19} :
    /\ \A i \in 1 .. Len(b) - 1 : b[i + 1].begin - b[i].begin \in {0, 10}
    /\ \A i \in 1 .. Len(b) - 2 : b[i + 2].begin > b[i].begin

\* A packet that came twice is drawn once (Plot.tsx:152-154).
ASSUME TwiceIsDrawnOnce ==
  \A from \in {10, 13, 19}, lo \in {0, 25, 30}, hi \in {60, 75} :
    LET b  == Buff(Polled(from, 12))
        tm == [begin |-> lo, end |-> hi]
        unique == FoldLeft(
          LAMBDA u, x : IF u # << >> /\ Last(u) = x THEN u ELSE Append(u, x), << >>, b)
    IN  Zones(b, 10, tm) = Zones(unique, 10, tm)

\* Polls do not wait for each other: an answer that is overtaken puts an older
\* packet behind a newer one, which is not drawn, and the line breaks there
\* although nothing is missing (useTelemetry.ts:124-129, Plot.tsx:142-144).
ASSUME OvertakenBreaksLine ==
  LET two(p, t) == Poll(Poll(p, LastAt(t)), LastAt(t + 10))
      start     == Polled(11, 1)
      swapped   == Answer(Answer(two(start, 30), 2), 1)
      ordered   == Answer(Answer(two(start, 30), 1), 1)
      on(p)     == Zones(Buff(Answer(Poll(p, LastAt(60)), 1)), 10, [begin |-> 0, end |-> 100])
  IN  /\ Len(on(ordered)) = 1 /\ Len(on(swapped)) = 2
      /\ UNION ToSet(on(swapped)) \subseteq UNION ToSet(on(ordered))
      /\ \A pnt \in UNION ToSet(on(swapped)) : pnt.value # 3

\* An answer that comes after its signal has left the last graph fills the
\* buffer again, and is the first packet when the signal is shown anew
\* (reducers.ts:14-20).
ASSUME LateAnswerStays ==
  LET late == Answer(RemoveSignal(Poll(Shown, LastAt(10)), 1, "k"), 1)
      anew == Answer(Poll(AddSignalToGraph(late, 1, "k"), LastAt(90)), 1)
  IN  /\ ~late.signals["k"].ena /\ Buff(late) # << >>
      /\ CalcTimeInterval({Buff(anew)}, 10, [begin |-> 0, end |-> 0]) = [begin |-> 10, end |-> 100]

\* The window of the player after n answers.
LOCAL Window(from, n) ==
  FoldLeft(LAMBDA tm, i : Scrolled({Buff(Polled(from, i))}, 10, 20, tm),
           [begin |-> 20, end |-> 50], [i \in 1 .. n |-> i])

\* Each answer moves the window's begin on by a packet, each packet its end: a
\* packet that comes twice makes the window smaller, down to the least one
\* (Graph.tsx:206-213).
ASSUME WindowShrinks ==
  \A from \in {41, 45, 49} :
    LET length == [n \in 1 .. 10 |-> LET tm == Window(from, n) IN tm.end - tm.begin]
    IN  /\ \A n \in 1 .. 9 : length[n + 1] <= length[n]
        /\ length[1] = 30 /\ length[10] = 20

\* The full view cuts off the values of the very first packet, whose begin is
\* the view's own (Graph.tsx:181).
ASSUME FirstPacketOutOfRange ==
  \A n \in 2 .. 5 :
    LET b  == [i \in 1 .. n |-> Packet(i)]
        tm == CalcTimeInterval({b}, 10, [begin |-> 0, end |-> 0])
    IN  CalcValueInterval({b}, tm, [begin |-> 0, end |-> 0]) = [begin |-> 2, end |-> n]
=============================================================================
