------------------------------- MODULE Client -------------------------------
(***************************************************************************)
(* The client library (SVClient/src/client.cpp) over its one socket        *)
(* (SVMisc/src/tcp_client.cpp, the branch for Linux).                      *)
(*                                                                         *)
(* The user calls svConnect, svDisconnect and svAdd...Value; the send      *)
(* thread reconnects, takes a sample of every value each cycle, and sends  *)
(* a packet when the ring of PacketSz samples is full.  Both use the       *)
(* library's socket, a plain variable: connect is three steps of whoever   *)
(* runs it.  Sockets are numbers that the system hands out again, lowest   *)
(* first.                                                                  *)
(*                                                                         *)
(* A packet is the samples by name; how it is laid out, and the server,    *)
(* are left out.  svSetParam is called before the first svConnect, as in   *)
(* docs/en/client-pc.md:23.  samples, last and overlap are history.        *)
(***************************************************************************)
EXTENDS Integers, Sequences, FiniteSets

CONSTANTS Names,      \* names of values
          Fronts,     \* those added with onlyFront
          Vals,       \* bound: the values, 0 among them
          PacketSz,   \* SV_PACKETSZ
          MaxFd       \* sockets the process may have open

ASSUME ClientAssumption ==
  /\ Fronts \subseteq Names
  /\ 0 \in Vals
  /\ PacketSz \in Nat \ {0}
  /\ MaxFd \in Nat \ {0}

VARIABLES isConnect, thrStop, \* _isConnect, _thrStop
          thr,        \* _thr: "none", "running" or "ended", not yet joined
          socket,     \* _socket, 0 for -1
          fds,        \* what the system knows of each socket
          pc, res,    \* of the two threads: where, and what connect returned
          ret,        \* what svConnect returned last
          values, curCycle, \* _values, _curCycle
          data,       \* the packet the thread is about to send
          samples, last, overlap

connVars == <<isConnect, thrStop, thr, socket, fds, pc, res, ret, overlap>>
dataVars == <<values, curCycle, data, samples, last>>
vars     == <<connVars, dataVars>>

-----------------------------------------------------------------------------
Procs  == {"user", "thread"}
Fds    == 1 .. MaxFd
Cycles == 0 .. PacketSz - 1
NoFd   == 0
NoData == <<>>

Init ==
  /\ isConnect = FALSE /\ thrStop = FALSE
  /\ thr = "none"
  /\ socket = NoFd
  /\ fds = [f \in Fds |-> "free"]
  /\ pc = [user |-> "idle", thread |-> "top"]
  /\ res = [p \in Procs |-> FALSE]
  /\ ret = FALSE
  /\ values = <<>>
  /\ curCycle = 0
  /\ data = NoData
  /\ samples = <<>>
  /\ last = <<>>
  /\ overlap = FALSE

Goto(p, place) == pc' = [pc EXCEPT ![p] = place]

-----------------------------------------------------------------------------
(* TCPClient.                                                              *)

\* The socket leads to the server.
Works == socket # NoFd /\ fds[socket] = "open"

\* The sockets after closeSocket.
Closed == IF socket = NoFd THEN fds ELSE [fds EXCEPT ![socket] = "free"]

\* connect: an old socket is closed ...
CloseOld(p) ==
  /\ pc[p] = "close"
  /\ fds' = Closed
  /\ socket' = NoFd
  /\ Goto(p, "socket")
  /\ UNCHANGED <<isConnect, thrStop, thr, res, ret, overlap, dataVars>>

\* ... a new one is made, if there is one ...
MakeSocket(p) ==
  LET free == {f \in Fds : fds[f] = "free"}
  IN  /\ pc[p] = "socket"
      /\ IF free = {}
         THEN /\ socket' = NoFd
              /\ fds' = fds
              /\ res' = [res EXCEPT ![p] = FALSE]
              /\ Goto(p, "assign")
         ELSE \E f \in free :
                /\ \A g \in free : f <= g
                /\ socket' = f
                /\ fds' = [fds EXCEPT ![f] = "new"]
                /\ res' = res
                /\ Goto(p, "connect")
      /\ UNCHANGED <<isConnect, thrStop, thr, ret, overlap, dataVars>>

\* ... and connected: the server answers ...
ConnectOk(p) ==
  /\ pc[p] = "connect"
  /\ socket # NoFd
  /\ fds[socket] = "new"
  /\ fds' = [fds EXCEPT ![socket] = "open"]
  /\ res' = [res EXCEPT ![p] = TRUE]
  /\ Goto(p, "assign")
  /\ UNCHANGED <<isConnect, thrStop, thr, socket, ret, overlap, dataVars>>

\* ... or not, or the socket is gone or in use already.
ConnectFails(p) ==
  /\ pc[p] = "connect"
  /\ fds' = Closed
  /\ socket' = NoFd
  /\ res' = [res EXCEPT ![p] = FALSE]
  /\ Goto(p, "assign")
  /\ UNCHANGED <<isConnect, thrStop, thr, ret, overlap, dataVars>>

-----------------------------------------------------------------------------
(* The user's thread.                                                      *)

SvConnect ==
  /\ pc.user = "idle"
  /\ IF isConnect
     THEN /\ ret' = TRUE
          /\ UNCHANGED <<pc, overlap>>
     ELSE /\ Goto("user", "close")
          /\ ret' = FALSE
          /\ overlap' = (overlap \/ thr = "running")
  /\ UNCHANGED <<isConnect, thrStop, thr, socket, fds, res, dataVars>>

UserAssigns ==
  /\ pc.user = "assign"
  /\ isConnect' = res.user
  /\ res' = [res EXCEPT !.user = FALSE]
  /\ Goto("user", "begin")
  /\ UNCHANGED <<thrStop, thr, socket, fds, ret, overlap, dataVars>>

\* The order to the thread when there is a connection.
NewOrder == FALSE

\* The thread starts with the first connection, and stays.
BeginThread ==
  /\ pc.user = "begin"
  /\ IF isConnect
     THEN /\ thrStop' = NewOrder
          /\ IF thr = "none"
             THEN thr' = "running" /\ pc' = [user |-> "idle", thread |-> "top"]
             ELSE thr' = thr /\ Goto("user", "idle")
     ELSE UNCHANGED <<thrStop, thr>> /\ Goto("user", "idle")
  /\ ret' = isConnect
  /\ UNCHANGED <<isConnect, socket, fds, res, overlap, dataVars>>

SvDisconnect ==
  /\ pc.user = "idle"
  /\ thrStop' = TRUE
  /\ Goto("user", "join")
  /\ ret' = FALSE
  /\ UNCHANGED <<isConnect, thr, socket, fds, res, overlap, dataVars>>

\* Bug: the thread is not waited for.
NotJoined == TRUE

\* join returns, or there is nothing to join.
Joined == thr # "running"

Join ==
  /\ pc.user = "join"
  /\ Joined
  /\ thr' = "none"
  /\ Goto("user", "drop")
  /\ UNCHANGED <<isConnect, thrStop, socket, fds, res, ret, overlap, dataVars>>

Drop ==
  /\ pc.user = "drop"
  /\ IF isConnect
     THEN fds' = Closed /\ socket' = NoFd
     ELSE UNCHANGED <<fds, socket>>
  /\ isConnect' = FALSE
  /\ Goto("user", "idle")
  /\ UNCHANGED <<thrStop, thr, res, ret, overlap, dataVars>>

\* addValue, under _mtx.  A name that is not there is added with zeros.
AddValue(n, v) ==
  LET old == IF n \in DOMAIN values THEN values[n].vals ELSE [c \in Cycles |-> 0]
      new == [vals |-> [old EXCEPT ![curCycle] = v], isActive |-> TRUE]
      with(map, x) == [m \in DOMAIN map \cup {n} |-> IF m = n THEN x ELSE map[m]]
  IN  /\ values' = with(values, new)
      /\ last' = with(last, [val |-> v, fresh |-> TRUE])
      /\ samples' = IF n \in DOMAIN samples THEN samples
                    ELSE with(samples, [i \in 1 .. PacketSz |-> 0])
      /\ UNCHANGED <<connVars, curCycle, data>>

-----------------------------------------------------------------------------
(* The send thread.                                                        *)

\* Bug: the order to stop is looked at only without a connection.
StoppedIfLost == thrStop /\ ~isConnect

\* The thread sees the order to stop.
Stopped == thrStop

Top ==
  /\ thr = "running"
  /\ pc.thread = "top"
  /\ IF Stopped THEN thr' = "ended" /\ pc' = pc
                 ELSE thr' = thr /\ Goto("thread", IF isConnect THEN "cycle" ELSE "close")
  /\ UNCHANGED <<isConnect, thrStop, socket, fds, res, ret, overlap, dataVars>>

ThreadAssigns ==
  /\ pc.thread = "assign"
  /\ isConnect' = res.thread
  /\ res' = [res EXCEPT !.thread = FALSE]
  /\ Goto("thread", "cycle")
  /\ UNCHANGED <<thrStop, thr, socket, fds, ret, overlap, dataVars>>

\* Bug: in the first cycle of a packet the value before it is not found.
PrevCycFirst(c) == IF c = 0 THEN 0 ELSE c - 1

\* The cycle before c, round the ring.
PrevCyc(c) == IF c = 0 THEN PacketSz - 1 ELSE c - 1

\* Bug: the ring wraps one cycle late.
NextCycLate(c) == IF c < PacketSz THEN c + 1 ELSE 0

NextCyc(c) == IF c < PacketSz - 1 THEN c + 1 ELSE 0

\* The sample of a value: what was added in this cycle, or else what it was
\* before; a front lasts for one cycle.
Sampled(n) ==
  LET vr == values[n]
  IN  IF vr.isActive THEN vr.vals[curCycle]
      ELSE IF n \in Fronts THEN 0
      ELSE vr.vals[PrevCyc(curCycle)]

\* The part of a cycle under _mtx; prepareData copies the ring as it is.
TakeSample ==
  LET sampled == [n \in DOMAIN values |-> [values[n].vals EXCEPT ![curCycle] = Sampled(n)]]
      held(n) == IF last[n].fresh \/ n \notin Fronts THEN last[n].val ELSE 0
  IN  /\ pc.thread = "cycle"
      /\ values' = [n \in DOMAIN values |-> [vals |-> sampled[n], isActive |-> FALSE]]
      /\ curCycle' = NextCyc(curCycle)
      /\ data' = IF curCycle' = 0 /\ isConnect THEN sampled ELSE NoData
      /\ Goto("thread", "send")
      /\ samples' = [n \in DOMAIN samples |-> Append(Tail(samples[n]), held(n))]
      /\ last' = [n \in DOMAIN last |-> [last[n] EXCEPT !.fresh = FALSE]]
      /\ UNCHANGED <<isConnect, thrStop, thr, socket, fds, res, ret, overlap>>

\* Nothing to send, or nobody to send it to; then the thread sleeps.
NoSend ==
  /\ pc.thread = "send"
  /\ data = NoData \/ ~isConnect
  /\ data' = NoData
  /\ Goto("thread", "top")
  /\ UNCHANGED <<isConnect, thrStop, thr, socket, fds, res, ret, overlap, values, curCycle,
                 samples, last>>

Sending == pc.thread = "send" /\ data # NoData /\ isConnect

\* sendData returns true: the first time also if the server is gone.
SendOk ==
  /\ Sending
  /\ socket # NoFd
  /\ fds[socket] \in {"open", "lost"}
  /\ fds' = [fds EXCEPT ![socket] = IF @ = "lost" THEN "reset" ELSE @]
  /\ data' = NoData
  /\ Goto("thread", "top")
  /\ UNCHANGED <<isConnect, thrStop, thr, socket, res, ret, overlap, values, curCycle,
                 samples, last>>

\* sendData returns false and closes the socket.
SendFails ==
  /\ Sending
  /\ ~Works
  /\ fds' = Closed
  /\ socket' = NoFd
  /\ data' = NoData
  /\ Goto("thread", "notSent")
  /\ UNCHANGED <<isConnect, thrStop, thr, res, ret, overlap, values, curCycle, samples, last>>

\* Bug: the result of sendData is not kept.
StillConnected == isConnect

\* What _isConnect is after a packet was not sent.
AfterFailure == FALSE

NotSent ==
  /\ pc.thread = "notSent"
  /\ isConnect' = AfterFailure
  /\ Goto("thread", "top")
  /\ UNCHANGED <<thrStop, thr, socket, fds, res, ret, overlap, dataVars>>

\* The server, or the network, drops a connection.
Lose(f) ==
  /\ fds[f] = "open"
  /\ fds' = [fds EXCEPT ![f] = "lost"]
  /\ UNCHANGED <<isConnect, thrStop, thr, socket, pc, res, ret, overlap, dataVars>>

-----------------------------------------------------------------------------
ConnectStep(p) == CloseOld(p) \/ MakeSocket(p) \/ ConnectOk(p) \/ ConnectFails(p)

UserStep   == ConnectStep("user") \/ UserAssigns \/ BeginThread \/ Join \/ Drop
ThreadStep ==
  \/ Top
  \/ ConnectStep("thread")
  \/ ThreadAssigns
  \/ TakeSample
  \/ NoSend \/ SendOk \/ SendFails \/ NotSent

Next ==
  \/ SvConnect
  \/ SvDisconnect
  \/ \E n \in Names, v \in Vals : AddValue(n, v)
  \/ UserStep
  \/ ThreadStep
  \/ \E f \in Fds : Lose(f)

\* A call that has begun goes on, the thread runs; a server is reached if it
\* is asked again and again.
Spec ==
  /\ Init /\ [][Next]_vars
  /\ WF_vars(UserStep) /\ WF_vars(ThreadStep)
  /\ SF_vars(ConnectOk("thread"))
-----------------------------------------------------------------------------
(* Properties.                                                             *)

\* Every variable keeps to its range.
TypeOK ==
  /\ isConnect \in BOOLEAN /\ thrStop \in BOOLEAN /\ ret \in BOOLEAN /\ overlap \in BOOLEAN
  /\ thr \in {"none", "running", "ended"}
  /\ socket \in Fds \cup {NoFd}
  /\ fds \in [Fds -> {"free", "new", "open", "lost", "reset"}]
  /\ pc.user \in {"idle", "close", "socket", "connect", "assign", "begin", "join", "drop"}
  /\ pc.thread \in {"top", "close", "socket", "connect", "assign", "cycle", "send", "notSent"}
  /\ res \in [Procs -> BOOLEAN]
  /\ DOMAIN values \subseteq Names
  /\ values \in [DOMAIN values -> [vals : [Cycles -> Vals], isActive : BOOLEAN]]
  /\ curCycle \in Cycles

\* A packet holds, value by value, the samples of the last PacketSz cycles,
\* oldest first: the last value added in the cycle, or the one before, or for
\* a front nothing, and zeros from before the name was there.
PacketIsSamples ==
  data # NoData =>
    \A n \in DOMAIN data, c \in Cycles : data[n][c] = samples[n][c + 1]

\* Once svDisconnect has returned there is no thread and no open socket,
\* whatever the connection was at that moment, unless svConnect has been
\* called while the thread was connecting again.
Disconnected ==
  pc.user = "idle" /\ thr = "none" /\ ~overlap =>
    ~isConnect /\ socket = NoFd /\ \A f \in Fds : fds[f] = "free"

\* The thread has a connection that works or gets one, as long as there are
\* values to send, whatever was lost before.
Served ==
  thr = "running" /\ DOMAIN values # {} /\ ~overlap
    ~> Works \/ thrStop \/ overlap

\* svDisconnect returns.
DisconnectReturns == pc.user = "join" ~> pc.user = "idle"
=============================================================================
