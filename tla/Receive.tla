------------------------------ MODULE Receive ------------------------------
(***************************************************************************)
(* How packets get from a device into the server: the TCP server           *)
(* (SVMisc/src/tcp_server.cpp) or the COM port reader                      *)
(* (SVMonitor/src/com_reader.cpp), receiveData with its search for frames, *)
(* startServer and stopServer (SVServer/src/server.cpp), and the order in  *)
(* which the monitor's window starts and stops them                        *)
(* (SVMonitor/src/main_win.cpp).                                           *)
(*                                                                         *)
(* Bytes are counted in units: "=begin=" is two of them, a length, "=end=" *)
(* and a piece of a payload one each; the data of a client come cut        *)
(* between any two.  All frames of a device are of one size (svSetParam is *)
(* called once).  A piece of a payload that is read as a length is far     *)
(* larger than what is received.  Pieces carry the number of their frame,  *)
(* which the code does not see.                                            *)
(*                                                                         *)
(* The TCP loop is a thread beside the window's, the COM reader is run by  *)
(* the window's event loop.  start and stop of the TCP server are only     *)
(* called by the window, one after the other, so the tests of              *)
(* stop_requested in startImpl never succeed and are left out, and so is   *)
(* loop_dead, which a second start would test.  A record is stored by      *)
(* BufferData (module BufferData); the times it is given are left out.     *)
(***************************************************************************)
EXTENDS Integers, Sequences, SequencesExt, FiniteSets

CONSTANTS Clients,    \* connections a device makes, or COM ports
          Frames,     \* bound: frames a device sends on each
          PayloadLen, \* pieces of a payload
          Modes       \* bound: cng.com_ena: "com" or "tcp"

ASSUME ReceiveAssumption ==
  /\ Frames \in Nat \ {0}
  /\ PayloadLen \in Nat \ {0}
  /\ Modes \subseteq {"com", "tcp"}

VARIABLES mode,      \* com_ena
          win,       \* where the window's thread is
          loop,      \* where the TCP server's thread is
          srv,       \* Server_m
          dataCBack, \* receiveData has been passed to the TCP server or the port
          running,   \* m_isRunning
          updater,   \* the object m_pThrUpdSignal leads, or led, to is there
          sent,      \* units each device has sent
          line,      \* sent, and received neither yet
          inMess,    \* Client_m::inMess, readData_
          conn,      \* Client_m is there, or the COM port is open
          heard,     \* isConnect_ of a port
          inside,    \* the client whose data the TCP server's thread is at
          stored,    \* payloads stored, per client
          broken     \* frames of which a unit was lost

threads == <<mode, win, loop, srv, dataCBack, running, updater>>
data    == <<sent, line, inMess, conn, heard, inside, stored, broken>>
vars    == <<threads, data>>

-----------------------------------------------------------------------------
(* Frames.                                                                 *)

BeginMess == <<"=beg", "in=">>
EndMess   == "=end="
FrameLen  == Len(BeginMess) + 1 + PayloadLen + 1

\* What a device sends: one frame after the other.
Unit(k) ==
  LET i == ((k - 1) % FrameLen) + 1
  IN  [frame |-> ((k - 1) \div FrameLen) + 1,
       place |-> i,
       kind  |-> CASE i <= 2       -> BeginMess[i]
                   [] i = 3        -> "length"
                   [] i = FrameLen -> EndMess
                   [] OTHER        -> "piece"]

Payload(f) == [i \in 1 .. PayloadLen |-> <<f, i + 3>>]

\* inout.find(beginMess, from): the first place, or 0.
Find(m, from) ==
  LET at == {i \in from .. Len(m) - 1 : m[i].kind = BeginMess[1] /\ m[i + 1].kind = BeginMess[2]}
  IN  IF at = {} THEN 0 ELSE CHOOSE i \in at : \A j \in at : i <= j

\* Where the end mark of the frame that begins at st is, by its length.
EndOf(st) == st + Len(BeginMess) + 1 + PayloadLen

\* Bug: the frame that begins at st only has to fit.
FitsOnly(m, st) == m[st + 2].kind = "length" /\ EndOf(st) <= Len(m)

\* A frame begins at st: its length is there and the end mark where it says.
IsFrame(m, st) ==
  /\ m[st + 2].kind = "length"
  /\ EndOf(st) <= Len(m)
  /\ m[EndOf(st)].kind = EndMess

\* Where the search goes on after a begin mark that begins no frame.
AfterBegin(st) == st + Len(BeginMess)

\* Places of the frames in m, from the begin mark at st on.
FramesFrom(m, st) ==
  LET from[i \in 0 .. Len(m)] ==
        IF i = 0 \/ i + Len(BeginMess) + 1 > Len(m) THEN <<>>
        ELSE IF IsFrame(m, i) THEN <<i>> \o from[Find(m, EndOf(i) + 1)]
        ELSE from[Find(m, AfterBegin(i))]
  IN  from[st]

FramesIn(m) == FramesFrom(m, Find(m, 1))

\* What is left of inout: all of it unless there was a frame.
Rest(m, fs) == IF fs = <<>> THEN m ELSE SubSeq(m, EndOf(Last(fs)) + 1, Len(m))

PayloadAt(m, st) == [i \in 1 .. PayloadLen |-> <<m[st + 2 + i].frame, m[st + 2 + i].place>>]

\* receiveData of a client's data, past the test of m_isRunning.
ReceiveData(c, m) ==
  LET fs == FramesIn(m)
  IN  /\ stored' = [stored EXCEPT ![c] = @ \o [i \in DOMAIN fs |-> PayloadAt(m, fs[i])]]
      /\ inMess' = [inMess EXCEPT ![c] = Rest(m, fs)]

-----------------------------------------------------------------------------
Null == "none"

Init ==
  /\ mode \in Modes
  /\ win = "start"
  /\ loop = "none"
  /\ srv = [u_loop |-> FALSE, stop_inited |-> FALSE, sends |-> FALSE, thr |-> FALSE,
            listen_ready |-> FALSE, error |-> FALSE]
  /\ dataCBack = FALSE
  /\ running = FALSE
  /\ updater = FALSE
  /\ sent = [c \in Clients |-> 0]
  /\ line = [c \in Clients |-> <<>>]
  /\ inMess = [c \in Clients |-> <<>>]
  /\ conn = [c \in Clients |-> FALSE]
  /\ heard = [c \in Clients |-> FALSE]
  /\ inside = Null
  /\ stored = [c \in Clients |-> <<>>]
  /\ broken = [c \in Clients |-> {}]

-----------------------------------------------------------------------------
(* The window's thread: the constructor ...                                *)

Goto(pc) == win' = pc

\* TCPServer::start: makes the thread ...
TcpStart ==
  /\ mode = "tcp" /\ win = "start"
  /\ Goto("ready")
  /\ loop' = "init"
  /\ srv' = [srv EXCEPT !.thr = TRUE, !.error = FALSE, !.listen_ready = FALSE]
  /\ UNCHANGED <<mode, dataCBack, running, updater, data>>

\* ... and waits until it listens or has failed.
TcpStarted ==
  /\ win = "ready"
  /\ srv.listen_ready
  /\ Goto(IF srv.error THEN "failed" ELSE "server")
  /\ UNCHANGED <<mode, loop, srv, dataCBack, running, updater, data>>

\* joinWorkerIfExternal after a start that failed.
JoinFailed ==
  /\ win = "failed"
  /\ loop = "ended"
  /\ srv' = [srv EXCEPT !.thr = FALSE]
  /\ Goto("run")
  /\ UNCHANGED <<mode, loop, dataCBack, running, updater, data>>

\* SerialPortReader::start of each port, which may not open; the event loop is
\* not run before the constructor ends.
ComStart ==
  /\ mode = "com" /\ win = "start"
  /\ \E open \in SUBSET Clients :
       /\ conn' = [c \in Clients |-> c \in open]
       /\ heard' = [c \in Clients |-> c \in open]
  /\ Goto("server")
  /\ UNCHANGED <<mode, loop, srv, dataCBack, running, updater, sent, line, inMess, inside,
                 stored, broken>>

StartServer ==
  /\ win = "server"
  /\ updater' = TRUE
  /\ running' = TRUE
  /\ Goto("cback")
  /\ UNCHANGED <<mode, loop, srv, dataCBack, data>>

SetDataCBack ==
  /\ win = "cback"
  /\ dataCBack' = TRUE
  /\ Goto("run")
  /\ UNCHANGED <<mode, loop, srv, running, updater, data>>

(* ... and the destructor.                                                 *)

\* Bug: the server is stopped in front of its receivers.
ServerFirst == "stopping"

\* The receivers are stopped first.
ReceiversFirst == "closing"

\* The frames of which units are among us.
FramesOf(us) == {us[i].frame : i \in DOMAIN us}

\* The ports are closed; their reader is not called any more.
ComStop ==
  /\ mode = "com" /\ win = "run"
  /\ conn' = [c \in Clients |-> FALSE]
  /\ line' = [c \in Clients |-> <<>>]
  /\ broken' = [c \in Clients |-> broken[c] \cup FramesOf(line[c])]
  /\ Goto("stopping")
  /\ UNCHANGED <<mode, loop, srv, dataCBack, running, updater, sent, inMess, heard, inside, stored>>

Exit ==
  /\ mode = "tcp" /\ win = "run"
  /\ Goto(ReceiversFirst)
  /\ UNCHANGED <<mode, loop, srv, dataCBack, running, updater, data>>

\* TCPServer::stop has something to stop.
NothingToStop == ~srv.u_loop /\ ~srv.thr

TcpStop ==
  /\ win = "closing"
  /\ Goto(IF NothingToStop THEN "stopping" ELSE "join")
  /\ srv' = [srv EXCEPT !.sends = ~NothingToStop /\ srv.stop_inited]
  /\ UNCHANGED <<mode, loop, dataCBack, running, updater, data>>

TcpJoin ==
  /\ win = "join"
  /\ loop = "ended"
  /\ srv' = [srv EXCEPT !.thr = FALSE]
  /\ Goto("stopping")
  /\ UNCHANGED <<mode, loop, dataCBack, running, updater, data>>

\* stopServer: the flag and the pointer, and then the thread.
StopServer ==
  /\ win = "stopping"
  /\ running' = FALSE
  /\ Goto("delete")
  /\ UNCHANGED <<mode, loop, srv, dataCBack, updater, data>>

DeleteUpdater ==
  /\ win = "delete"
  /\ updater' = FALSE
  /\ Goto("over")
  /\ UNCHANGED <<mode, loop, srv, dataCBack, running, data>>

WindowStep ==
  \/ TcpStart \/ TcpStarted \/ JoinFailed \/ ComStart \/ StartServer \/ SetDataCBack
  \/ TcpStop \/ TcpJoin \/ StopServer \/ DeleteUpdater

-----------------------------------------------------------------------------
(* The TCP server's thread, startImpl.                                     *)

LoopInit ==
  /\ loop = "init"
  /\ \/ /\ loop' = "async"
        /\ srv' = [srv EXCEPT !.u_loop = TRUE]
     \/ /\ loop' = "ended"
        /\ srv' = [srv EXCEPT !.error = TRUE, !.listen_ready = TRUE]
  /\ UNCHANGED <<mode, win, dataCBack, running, updater, data>>

\* Bug: nobody can tell that the loop may be stopped.
AsyncUnknown(s) == s

\* The handle u_stop can be sent to.
AsyncInited(s) == [s EXCEPT !.stop_inited = TRUE]

\* A failure closes the loop before the window goes on: failAndClose.
AsyncInit ==
  /\ loop = "async"
  /\ \/ /\ loop' = "listen"
        /\ srv' = AsyncInited(srv)
     \/ /\ loop' = "ended"
        /\ srv' = [srv EXCEPT !.error = TRUE, !.u_loop = FALSE, !.listen_ready = TRUE]
  /\ UNCHANGED <<mode, win, dataCBack, running, updater, data>>

\* tcp_init, keepalive, address, bind, listen; a failure leaves the loop to be
\* run to its end by requestStopAndRun, which sends the stop itself.
Listen ==
  /\ loop = "listen"
  /\ loop' = "run"
  /\ \/ srv' = [srv EXCEPT !.listen_ready = TRUE]
     \/ srv' = [srv EXCEPT !.error = TRUE, !.listen_ready = TRUE, !.sends = TRUE]
  /\ UNCHANGED <<mode, win, dataCBack, running, updater, data>>

Listening == loop = "run" /\ ~srv.error

OnConnect(c) ==
  /\ Listening /\ inside = Null
  /\ sent[c] = 0 /\ ~conn[c]
  /\ conn' = [conn EXCEPT ![c] = TRUE]
  /\ UNCHANGED <<threads, sent, line, inMess, heard, inside, stored, broken>>

\* What was received and nobody has taken yet is kept.
Kept(m) == m

\* on_read: the data are appended, and the callback called if there is one;
\* receiveData tests m_isRunning first.
OnRead(c, n) ==
  /\ Listening /\ inside = Null
  /\ conn[c] /\ n \in 1 .. Len(line[c])
  /\ line' = [line EXCEPT ![c] = SubSeq(@, n + 1, Len(@))]
  /\ inMess' = [inMess EXCEPT ![c] = Kept(@ \o SubSeq(line[c], 1, n))]
  /\ inside' = IF dataCBack /\ running THEN c ELSE Null
  /\ UNCHANGED <<threads, sent, conn, heard, stored, broken>>

Received(c) ==
  /\ mode = "tcp"
  /\ inside = c
  /\ ReceiveData(c, inMess[c])
  /\ inside' = Null
  /\ UNCHANGED <<threads, sent, line, conn, heard, broken>>

\* The device is gone: closeClient, on_client_close.
OnReadEnd(c) ==
  /\ Listening /\ inside = Null
  /\ conn[c] /\ sent[c] > 0 /\ line[c] = <<>>
  /\ conn' = [conn EXCEPT ![c] = FALSE]
  /\ inMess' = [inMess EXCEPT ![c] = <<>>]
  /\ UNCHANGED <<threads, sent, line, heard, inside, stored, broken>>

\* Bug: u_stop is closed without a callback.
StillInited(s) == [s EXCEPT !.sends = FALSE]

\* walk_close of u_stop takes back stop_inited.
StopClosed(s) == [s EXCEPT !.stop_inited = FALSE, !.sends = FALSE]

\* on_stop_async: every handle is closed, and their callbacks called.
OnStop ==
  /\ loop = "run" /\ srv.sends /\ inside = Null
  /\ loop' = "close"
  /\ srv' = StopClosed(srv)
  /\ conn' = [c \in Clients |-> FALSE]
  /\ inMess' = [c \in Clients |-> <<>>]
  /\ UNCHANGED <<mode, win, dataCBack, running, updater, sent, line, heard, inside, stored, broken>>

CloseLoop ==
  /\ loop = "close"
  /\ loop' = "ended"
  /\ srv' = [srv EXCEPT !.u_loop = FALSE]
  /\ UNCHANGED <<mode, win, dataCBack, running, updater, data>>

LoopStep == LoopInit \/ AsyncInit \/ Listen \/ (\E c \in Clients : Received(c)) \/ OnStop \/ CloseLoop

-----------------------------------------------------------------------------
(* The COM reader, in the window's event loop.                             *)

\* hReadData: everything that has come.
HReadData(c) ==
  /\ mode = "com" /\ win = "run"
  /\ conn[c] /\ line[c] # <<>>
  /\ ReceiveData(c, inMess[c] \o line[c])
  /\ line' = [line EXCEPT ![c] = <<>>]
  /\ heard' = [heard EXCEPT ![c] = TRUE]
  /\ UNCHANGED <<threads, sent, conn, inside, broken>>

\* The timer: a port from which nothing came for a period is closed, and what
\* was not read from it is lost; a closed port is opened again, which may fail.
CheckConnect(c) ==
  /\ mode = "com" /\ win = "run"
  /\ IF ~conn[c]
     THEN \E ok \in BOOLEAN :
            /\ conn' = [conn EXCEPT ![c] = ok]
            /\ heard' = [heard EXCEPT ![c] = ok]
            /\ UNCHANGED <<line, broken>>
     ELSE IF ~heard[c]
     THEN /\ conn' = [conn EXCEPT ![c] = FALSE]
          /\ line' = [line EXCEPT ![c] = <<>>]
          /\ broken' = [broken EXCEPT ![c] = @ \cup FramesOf(line[c])]
          /\ UNCHANGED heard
     ELSE /\ heard' = [heard EXCEPT ![c] = FALSE]
          /\ UNCHANGED <<conn, line, broken>>
  /\ UNCHANGED <<threads, sent, inMess, inside, stored>>

-----------------------------------------------------------------------------
\* A device sends the next unit.
Send(c) ==
  /\ sent[c] < Frames * FrameLen
  /\ conn[c]
  /\ sent' = [sent EXCEPT ![c] = @ + 1]
  /\ line' = [line EXCEPT ![c] = Append(@, Unit(sent[c] + 1))]
  /\ UNCHANGED <<threads, inMess, conn, heard, inside, stored, broken>>

\* A serial line loses a unit, and a port that is closed every one.
SendLost(c) ==
  /\ mode = "com" /\ win = "run"
  /\ sent[c] < Frames * FrameLen
  /\ sent' = [sent EXCEPT ![c] = @ + 1]
  /\ broken' = [broken EXCEPT ![c] = @ \cup {Unit(sent[c] + 1).frame}]
  /\ UNCHANGED <<threads, line, inMess, conn, heard, inside, stored>>

Next ==
  \/ WindowStep
  \/ ComStop \/ Exit
  \/ LoopStep
  \/ \E c \in Clients : \/ OnConnect(c)
                        \/ OnReadEnd(c)
                        \/ HReadData(c)
                        \/ CheckConnect(c)
                        \/ Send(c)
                        \/ SendLost(c)
                        \/ \E n \in 1 .. Len(line[c]) : OnRead(c, n)

\* Both threads run on; nothing makes the user leave or a device send.
Spec == Init /\ [][Next]_vars /\ WF_vars(WindowStep) /\ WF_vars(LoopStep)
-----------------------------------------------------------------------------
(* Properties.                                                             *)

\* Every variable keeps to its range, and a TCP thread that has ended leaves a
\* Server_m that can be started again.
TypeOK ==
  /\ win \in {"start", "ready", "failed", "server", "cback", "run", "closing", "join",
              "stopping", "delete", "over"}
  /\ loop \in {"none", "init", "async", "listen", "run", "close", "ended"}
  /\ srv \in [{"u_loop", "stop_inited", "sends", "thr", "listen_ready", "error"} -> BOOLEAN]
  /\ loop = "ended" => ~srv.u_loop /\ ~srv.stop_inited
  /\ inside \in Clients \cup {Null}
  /\ \A c \in Clients :
       /\ sent[c] \in 0 .. Frames * FrameLen
       /\ Len(line[c]) <= sent[c] /\ Len(inMess[c]) <= sent[c]
       /\ \A i \in DOMAIN stored[c] : Len(stored[c][i]) = PayloadLen
       /\ broken[c] \subseteq 1 .. Frames

\* Whether all units of frame f have got past the line of c.
Past(c, f) == sent[c] >= f * FrameLen /\ f \notin FramesOf(line[c])

Times(s, x) == Cardinality({i \in DOMAIN s : s[i] = x})

\* A frame that came whole is stored once, in whatever pieces it came and
\* whatever was lost before it, or it waits, whole, among the received data of
\* its client: for the callback to be set, or for the thread to look at them.
\* What comes in one connection is stored in the order in which it was sent.
FramesServed ==
  \A c \in Clients :
    /\ \A f \in (1 .. Frames) \ broken[c] :
         Past(c, f) /\ (conn[c] \/ mode = "com") =>
           Times(stored[c], Payload(f)) +
             Times([i \in DOMAIN FramesIn(inMess[c]) |->
                      PayloadAt(inMess[c], FramesIn(inMess[c])[i])], Payload(f)) = 1
    /\ mode = "tcp" => \A i \in DOMAIN stored[c] : stored[c][i] = Payload(i)

\* Who is past the test of m_isRunning stores into a server that is there, and
\* the update thread is there to take the records.
StoresIntoServer == inside # Null => running /\ updater

\* The window closes: no order of a failing start, of connections and of the
\* stop leaves its thread waiting for the other.
ExitEnds == (win = "closing") ~> (win = "over")
=============================================================================
