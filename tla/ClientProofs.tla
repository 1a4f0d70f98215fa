---------------------------- MODULE ClientProofs ----------------------------
(***************************************************************************)
(* Theorems about the client library, for any names, values, size of a     *)
(* packet and number of sockets.                                           *)
(*                                                                         *)
(* The socket has no lock.  What keeps it whole is that the user's thread  *)
(* connects only while there is no send thread (Alone), so that it has one *)
(* owner at a time: then no socket is lost from sight (NoLeak), and there  *)
(* is one only while there is a connection or someone makes it (Idle).     *)
(* The packet is right because the ring, read from the cycle that is next, *)
(* is the list of the last samples (RingIsSamples).                        *)
(***************************************************************************)
EXTENDS Client, SequenceTheorems, TLAPS

-----------------------------------------------------------------------------
(* The inductive invariant.                                                *)

Places == {"idle", "top", "close", "socket", "connect", "assign", "begin", "join", "drop",
           "cycle", "send", "notSent"}

\* The places of connect, and of whoever called it.
InConnect == {"close", "socket", "connect", "assign"}

\* The thread that is not there is at its start; the user drops the connection
\* after the thread.
Ended ==
  /\ pc \in [Procs -> Places]
  /\ thr # "running" => pc.thread = "top"
  /\ pc.user = "drop" => thr = "none"

\* The user connects without the thread.
Alone == pc.user \in InConnect \cup {"begin"} => thr # "running"

\* Every socket the system has for the process is the one in hand.
NoLeak == \A f \in Fds : fds[f] # "free" => f = socket

\* There is no socket without a connection, but for the one being connected.
Idle ==
  /\ \A p \in Procs : pc[p] = "socket" => socket = NoFd
  /\ \A p \in Procs : pc[p] = "assign" /\ ~res[p] => socket = NoFd
  /\ pc.thread = "notSent" => socket = NoFd
  /\ ~isConnect /\ (\A p \in Procs : pc[p] \notin {"connect", "assign"}) => socket = NoFd
  /\ thr = "none" /\ pc.user \notin {"begin", "drop"} => ~isConnect

OneOwner == ~overlap => Alone /\ NoLeak /\ Idle

\* Where in the last samples slot c of the ring is, when slot cur is next.
SampleAt(c, cur) == IF c < cur THEN c - cur + 1 + PacketSz ELSE c - cur + 1

\* The ring holds the last samples, but for the value just added.
RingOf(n) ==
  LET vr == values[n]
      s  == samples[n]
      l  == last[n]
  IN  /\ s \in Seq(Vals) /\ Len(s) = PacketSz
      /\ l \in [val : Vals, fresh : BOOLEAN]
      /\ vr.isActive = l.fresh
      /\ \A c \in Cycles : c # curCycle \/ ~l.fresh => vr.vals[c] = s[SampleAt(c, curCycle)]
      /\ l.fresh => vr.vals[curCycle] = l.val
      /\ ~l.fresh /\ n \notin Fronts => s[PacketSz] = l.val

RingIsSamples ==
  /\ DOMAIN samples = DOMAIN values
  /\ DOMAIN last = DOMAIN values
  /\ \A n \in DOMAIN values : RingOf(n)

\* A packet is in hand only where it is sent.
InHand == data # NoData => pc.thread = "send" /\ DOMAIN data \subseteq DOMAIN samples

IInv ==
  /\ TypeOK
  /\ Ended
  /\ OneOwner
  /\ RingIsSamples
  /\ InHand
  /\ PacketIsSamples

-----------------------------------------------------------------------------
(* The connection.                                                         *)

\* What a step is that leaves the packet and the values alone.
LEMMA DataStays ==
  ASSUME IInv, UNCHANGED dataVars, pc'.thread = pc.thread \/ pc.thread # "send"
  PROVE  RingIsSamples' /\ InHand' /\ PacketIsSamples'
BY DEF IInv, dataVars, RingIsSamples, RingOf, SampleAt, InHand, PacketIsSamples

\* Numbers of sockets are not NoFd.
LEMMA FdFacts == NoFd \notin Fds
BY ClientAssumption DEF NoFd, Fds

\* After closeSocket there is no socket.
LEMMA ClosedFacts ==
  ASSUME TypeOK
  PROVE  /\ Closed \in [Fds -> {"free", "new", "open", "lost", "reset"}]
         /\ NoLeak => \A f \in Fds : Closed[f] = "free"
BY FdFacts DEF TypeOK, Closed, NoLeak

\* An old socket is closed.
LEMMA CloseOldInv == \A p \in Procs : IInv /\ CloseOld(p) => IInv'
<1>. SUFFICES ASSUME NEW p \in Procs, IInv, CloseOld(p) PROVE IInv'
  OBVIOUS
<1>1. TypeOK'
  BY ClosedFacts DEF IInv, Ended, TypeOK, CloseOld, Goto, Procs, dataVars
<1>2. Ended'
  BY DEF IInv, Ended, CloseOld, Goto, Procs, Places
<1>3. OneOwner'
  BY ClosedFacts DEF IInv, TypeOK, Ended, OneOwner, Alone, NoLeak, Idle, InConnect, CloseOld, Goto, Procs
<1>4. RingIsSamples' /\ InHand' /\ PacketIsSamples'
  BY DataStays DEF CloseOld, Goto, IInv, Ended, Procs
<1>. QED BY <1>1, <1>2, <1>3, <1>4 DEF IInv

\* A socket is made.
LEMMA MakeSocketInv == \A p \in Procs : IInv /\ MakeSocket(p) => IInv'
<1>. SUFFICES ASSUME NEW p \in Procs, IInv, MakeSocket(p) PROVE IInv'
  OBVIOUS
<1>1. TypeOK'
  BY ZenonT(60) DEF IInv, Ended, TypeOK, MakeSocket, Goto, Procs, dataVars
<1>2. Ended'
  BY DEF IInv, Ended, MakeSocket, Goto, Procs, Places
<1>3. OneOwner'
  BY FdFacts DEF IInv, TypeOK, Ended, OneOwner, Alone, NoLeak, Idle, InConnect, MakeSocket, Goto, Procs
<1>4. RingIsSamples' /\ InHand' /\ PacketIsSamples'
  BY DataStays DEF MakeSocket, Goto, IInv, Ended, Procs
<1>. QED BY <1>1, <1>2, <1>3, <1>4 DEF IInv

\* The server answers.
LEMMA ConnectOkInv == \A p \in Procs : IInv /\ ConnectOk(p) => IInv'
<1>. SUFFICES ASSUME NEW p \in Procs, IInv, ConnectOk(p) PROVE IInv'
  OBVIOUS
<1>1. TypeOK'
  BY DEF IInv, Ended, TypeOK, ConnectOk, Goto, Procs, dataVars
<1>2. Ended'
  BY DEF IInv, Ended, ConnectOk, Goto, Procs, Places
<1>3. OneOwner'
  BY FdFacts DEF IInv, TypeOK, Ended, OneOwner, Alone, NoLeak, Idle, InConnect, ConnectOk, Goto, Procs
<1>4. RingIsSamples' /\ InHand' /\ PacketIsSamples'
  BY DataStays DEF ConnectOk, Goto, IInv, Ended, Procs
<1>. QED BY <1>1, <1>2, <1>3, <1>4 DEF IInv

\* It does not.
LEMMA ConnectFailsInv == \A p \in Procs : IInv /\ ConnectFails(p) => IInv'
<1>. SUFFICES ASSUME NEW p \in Procs, IInv, ConnectFails(p) PROVE IInv'
  OBVIOUS
<1>1. TypeOK'
  BY ClosedFacts DEF IInv, Ended, TypeOK, ConnectFails, Goto, Procs, dataVars
<1>2. Ended'
  BY DEF IInv, Ended, ConnectFails, Goto, Procs, Places
<1>3. OneOwner'
  BY ClosedFacts DEF IInv, TypeOK, Ended, OneOwner, Alone, NoLeak, Idle, InConnect, ConnectFails, Goto, Procs
<1>4. RingIsSamples' /\ InHand' /\ PacketIsSamples'
  BY DataStays DEF ConnectFails, Goto, IInv, Ended, Procs
<1>. QED BY <1>1, <1>2, <1>3, <1>4 DEF IInv

\* The user connects, or is connected.
LEMMA SvConnectInv == IInv /\ SvConnect => IInv'
<1>. SUFFICES ASSUME IInv, SvConnect PROVE IInv'
  OBVIOUS
<1>1. TypeOK'
  BY ClientAssumption DEF IInv, Ended, TypeOK, SvConnect, Goto, Procs, dataVars
<1>2. Ended'
  BY DEF IInv, TypeOK, Ended, SvConnect, Goto, Procs, Places
<1>3. OneOwner'
  BY FdFacts DEF IInv, TypeOK, Ended, OneOwner, Alone, NoLeak, Idle, InConnect, SvConnect,
                  Goto, Procs
<1>4. RingIsSamples' /\ InHand' /\ PacketIsSamples'
  BY DataStays DEF SvConnect, Goto, IInv, TypeOK, Ended, Procs
<1>. QED BY <1>1, <1>2, <1>3, <1>4 DEF IInv

\* The user takes the result of connect.
LEMMA UserAssignsInv == IInv /\ UserAssigns => IInv'
<1>. SUFFICES ASSUME IInv, UserAssigns PROVE IInv'
  OBVIOUS
<1>1. TypeOK'
  BY ClientAssumption DEF IInv, Ended, TypeOK, UserAssigns, Goto, Procs, dataVars
<1>2. Ended'
  BY DEF IInv, TypeOK, Ended, UserAssigns, Goto, Procs, Places
<1>3. OneOwner'
  BY FdFacts DEF IInv, TypeOK, Ended, OneOwner, Alone, NoLeak, Idle, InConnect, UserAssigns,
                  Goto, Procs
<1>4. RingIsSamples' /\ InHand' /\ PacketIsSamples'
  BY DataStays DEF UserAssigns, Goto, IInv, TypeOK, Ended, Procs
<1>. QED BY <1>1, <1>2, <1>3, <1>4 DEF IInv

\* The thread begins with the first connection.
LEMMA BeginThreadInv == IInv /\ BeginThread => IInv'
<1>. SUFFICES ASSUME IInv, BeginThread PROVE IInv'
  OBVIOUS
<1>1. TypeOK'
  <2>1. pc'.user = "idle" /\ pc'.thread \in {pc.thread, "top"}
    BY DEF IInv, Ended, BeginThread, Goto, Procs
  <2>2. thrStop' \in BOOLEAN /\ thr' \in {"none", "running", "ended"} /\ ret' \in BOOLEAN
    BY DEF IInv, TypeOK, BeginThread, NewOrder
  <2>. QED BY <2>1, <2>2 DEF IInv, TypeOK, BeginThread, dataVars
<1>2. Ended'
  BY DEF IInv, TypeOK, Ended, BeginThread, NewOrder, Goto, Procs, Places
<1>3. OneOwner'
  BY FdFacts DEF IInv, TypeOK, Ended, OneOwner, Alone, NoLeak, Idle, InConnect, BeginThread, NewOrder,
                  Goto, Procs
<1>4. RingIsSamples' /\ InHand' /\ PacketIsSamples'
  BY DataStays DEF BeginThread, NewOrder, Goto, IInv, TypeOK, Ended, Procs
<1>. QED BY <1>1, <1>2, <1>3, <1>4 DEF IInv

\* The user asks the thread to stop ...
LEMMA SvDisconnectInv == IInv /\ SvDisconnect => IInv'
<1>. SUFFICES ASSUME IInv, SvDisconnect PROVE IInv'
  OBVIOUS
<1>1. TypeOK'
  BY ClientAssumption DEF IInv, Ended, TypeOK, SvDisconnect, Goto, Procs, dataVars
<1>2. Ended'
  BY DEF IInv, TypeOK, Ended, SvDisconnect, Goto, Procs, Places
<1>3. OneOwner'
  BY FdFacts DEF IInv, TypeOK, Ended, OneOwner, Alone, NoLeak, Idle, InConnect, SvDisconnect,
                  Goto, Procs
<1>4. RingIsSamples' /\ InHand' /\ PacketIsSamples'
  BY DataStays DEF SvDisconnect, Goto, IInv, TypeOK, Ended, Procs
<1>. QED BY <1>1, <1>2, <1>3, <1>4 DEF IInv

\* ... waits for it ...
LEMMA JoinInv == IInv /\ Join => IInv'
<1>. SUFFICES ASSUME IInv, Join PROVE IInv'
  OBVIOUS
<1>1. TypeOK'
  BY ClientAssumption DEF IInv, Ended, TypeOK, Join, Joined, Goto, Procs, dataVars
<1>2. Ended'
  BY DEF IInv, TypeOK, Ended, Join, Joined, Goto, Procs, Places
<1>3. OneOwner'
  BY FdFacts DEF IInv, TypeOK, Ended, OneOwner, Alone, NoLeak, Idle, InConnect, Join, Joined,
                  Goto, Procs
<1>4. RingIsSamples' /\ InHand' /\ PacketIsSamples'
  BY DataStays DEF Join, Joined, Goto, IInv, TypeOK, Ended, Procs
<1>. QED BY <1>1, <1>2, <1>3, <1>4 DEF IInv

\* ... and drops the connection.
LEMMA DropInv == IInv /\ Drop => IInv'
<1>. SUFFICES ASSUME IInv, Drop PROVE IInv'
  OBVIOUS
<1>1. TypeOK'
  BY ClosedFacts, ClientAssumption DEF IInv, Ended, TypeOK, Drop, Goto, Procs, dataVars
<1>2. Ended'
  BY DEF IInv, TypeOK, Ended, Drop, Goto, Procs, Places
<1>3. OneOwner'
  BY ClosedFacts, FdFacts DEF IInv, TypeOK, Ended, OneOwner, Alone, NoLeak, Idle, InConnect, Drop,
                  Goto, Procs
<1>4. RingIsSamples' /\ InHand' /\ PacketIsSamples'
  BY DataStays DEF Drop, Goto, IInv, TypeOK, Ended, Procs
<1>. QED BY <1>1, <1>2, <1>3, <1>4 DEF IInv

\* The thread looks at its order and the connection.
LEMMA TopInv == IInv /\ Top => IInv'
<1>. SUFFICES ASSUME IInv, Top PROVE IInv'
  OBVIOUS
<1>1. TypeOK'
  BY ClientAssumption DEF IInv, Ended, TypeOK, Top, Stopped, Goto, Procs, dataVars
<1>2. Ended'
  BY DEF IInv, TypeOK, Ended, Top, Stopped, Goto, Procs, Places
<1>3. OneOwner'
  BY FdFacts DEF IInv, TypeOK, Ended, OneOwner, Alone, NoLeak, Idle, InConnect, Top, Stopped,
                  Goto, Procs
<1>4. RingIsSamples' /\ InHand' /\ PacketIsSamples'
  BY DataStays DEF Top, Stopped, Goto, IInv, TypeOK, Ended, Procs
<1>. QED BY <1>1, <1>2, <1>3, <1>4 DEF IInv

\* The thread takes the result of connect.
LEMMA ThreadAssignsInv == IInv /\ ThreadAssigns => IInv'
<1>. SUFFICES ASSUME IInv, ThreadAssigns PROVE IInv'
  OBVIOUS
<1>1. TypeOK'
  BY ClientAssumption DEF IInv, Ended, TypeOK, ThreadAssigns, Goto, Procs, dataVars
<1>2. Ended'
  BY DEF IInv, TypeOK, Ended, ThreadAssigns, Goto, Procs, Places
<1>3. OneOwner'
  BY FdFacts DEF IInv, TypeOK, Ended, OneOwner, Alone, NoLeak, Idle, InConnect, ThreadAssigns,
                  Goto, Procs
<1>4. RingIsSamples' /\ InHand' /\ PacketIsSamples'
  BY DataStays DEF ThreadAssigns, Goto, IInv, TypeOK, Ended, Procs
<1>. QED BY <1>1, <1>2, <1>3, <1>4 DEF IInv

\* The thread learns that the packet was not sent.
LEMMA NotSentInv == IInv /\ NotSent => IInv'
<1>. SUFFICES ASSUME IInv, NotSent PROVE IInv'
  OBVIOUS
<1>1. TypeOK'
  BY ClientAssumption DEF IInv, Ended, TypeOK, NotSent, AfterFailure, Goto, Procs, dataVars
<1>2. Ended'
  BY DEF IInv, TypeOK, Ended, NotSent, AfterFailure, Goto, Procs, Places
<1>3. OneOwner'
  BY FdFacts DEF IInv, TypeOK, Ended, OneOwner, Alone, NoLeak, Idle, InConnect, NotSent, AfterFailure,
                  Goto, Procs
<1>4. RingIsSamples' /\ InHand' /\ PacketIsSamples'
  BY DataStays DEF NotSent, AfterFailure, Goto, IInv, TypeOK, Ended, Procs
<1>. QED BY <1>1, <1>2, <1>3, <1>4 DEF IInv

\* A connection is lost.
LEMMA LoseInv == \A f \in Fds : IInv /\ Lose(f) => IInv'
<1>. SUFFICES ASSUME NEW f \in Fds, IInv, Lose(f) PROVE IInv'
  OBVIOUS
<1>1. TypeOK' /\ Ended'
  BY DEF IInv, Ended, TypeOK, Lose, dataVars
<1>2. OneOwner'
  BY DEF IInv, TypeOK, OneOwner, Alone, NoLeak, Idle, InConnect, Lose
<1>3. RingIsSamples' /\ InHand' /\ PacketIsSamples'
  BY DataStays DEF Lose
<1>. QED BY <1>1, <1>2, <1>3 DEF IInv

-----------------------------------------------------------------------------
(* The values and the packet.                                              *)

\* Cycles, and the one before and after another.
LEMMA CycleFacts ==
  /\ 0 \in Cycles /\ PacketSz \in Nat \ {0}
  /\ \A c \in Cycles : c \in Nat /\ c < PacketSz /\ NextCyc(c) \in Cycles /\ PrevCyc(c) \in Cycles
BY ClientAssumption DEF Cycles, NextCyc, PrevCyc

\* A sample moves one place to the front when the next one is taken.
LEMMA SampleFacts ==
  ASSUME NEW cur \in Cycles, NEW c \in Cycles
  PROVE  /\ SampleAt(c, cur) \in 1 .. PacketSz
         /\ SampleAt(PrevCyc(cur), cur) = PacketSz
         /\ c # cur => /\ SampleAt(c, cur) - 1 \in 1 .. PacketSz - 1
                       /\ SampleAt(c, NextCyc(cur)) = SampleAt(c, cur) - 1
         /\ SampleAt(cur, NextCyc(cur)) = PacketSz
         /\ SampleAt(c, 0) = c + 1
BY ClientAssumption DEF Cycles, NextCyc, PrevCyc, SampleAt

\* A list of constant length that moves on by one.
LEMMA ShiftFacts ==
  ASSUME NEW V, NEW s \in Seq(V), NEW x \in V, Len(s) = PacketSz
  PROVE  LET t == Append(Tail(s), x)
         IN  /\ t \in Seq(V) /\ Len(t) = PacketSz
             /\ \A i \in 1 .. PacketSz - 1 : t[i] = s[i + 1]
             /\ t[PacketSz] = x
<1>1. /\ s # <<>> /\ PacketSz \in Nat \ {0}
  BY ClientAssumption
<1>2. /\ Tail(s) \in Seq(V) /\ Len(Tail(s)) = PacketSz - 1
      /\ \A i \in 1 .. PacketSz - 1 : Tail(s)[i] = s[i + 1]
  BY <1>1, HeadTailProperties
<1>. QED BY <1>1, <1>2, AppendProperties

\* A map with an entry set.
With(map, n, x) == [m \in DOMAIN map \cup {n} |-> IF m = n THEN x ELSE map[m]]

\* A value is added.
LEMMA AddValueInv == \A n \in Names, v \in Vals : IInv /\ AddValue(n, v) => IInv'
<1>. SUFFICES ASSUME NEW n \in Names, NEW v \in Vals, IInv, AddValue(n, v) PROVE IInv'
  OBVIOUS
<1>. DEFINE old == IF n \in DOMAIN values THEN values[n].vals ELSE [c \in Cycles |-> 0]
            new == [vals |-> [old EXCEPT ![curCycle] = v], isActive |-> TRUE]
<1>0. UNCHANGED connVars /\ curCycle' = curCycle /\ data' = data
  BY DEF AddValue
<1>1. /\ values' = With(values, n, new)
      /\ last' = With(last, n, [val |-> v, fresh |-> TRUE])
      /\ samples' = IF n \in DOMAIN samples THEN samples
                    ELSE With(samples, n, [i \in 1 .. PacketSz |-> 0])
  BY DEF AddValue, With
<1>2. old \in [Cycles -> Vals] /\ curCycle \in Cycles
  BY ClientAssumption DEF IInv, TypeOK
<1>. HIDE DEF old
<1>3. new.vals \in [Cycles -> Vals] /\ new.isActive = TRUE /\ new.vals[curCycle] = v
      /\ new \in [vals : [Cycles -> Vals], isActive : BOOLEAN]
      /\ \A c \in Cycles : c # curCycle => new.vals[c] = old[c]
  BY <1>2
<1>. HIDE DEF new
<1>4. /\ DOMAIN values' = DOMAIN values \cup {n} /\ values'[n] = new
      /\ \A m \in DOMAIN values : m # n => values'[m] = values[m]
      /\ DOMAIN last' = DOMAIN last \cup {n} /\ last'[n] = [val |-> v, fresh |-> TRUE]
      /\ \A m \in DOMAIN last : m # n => last'[m] = last[m]
  BY <1>1 DEF With
<1>5. /\ DOMAIN samples' = DOMAIN samples \cup {n}
      /\ \A m \in DOMAIN samples : samples'[m] = samples[m]
      /\ n \notin DOMAIN samples => samples'[n] = [i \in 1 .. PacketSz |-> 0]
  BY <1>1 DEF With
<1>6. values' \in [DOMAIN values' -> [vals : [Cycles -> Vals], isActive : BOOLEAN]]
  BY <1>1, <1>3, <1>4 DEF With, IInv, TypeOK
<1>7. TypeOK'
  BY <1>0, <1>4, <1>6 DEF connVars, IInv, TypeOK
<1>8. Ended' /\ OneOwner'
  BY <1>0 DEF connVars, IInv, Ended, OneOwner, Alone, NoLeak, Idle
<1>9. RingIsSamples'
  <2>. SUFFICES ASSUME NEW m \in DOMAIN values' PROVE RingOf(m)'
    BY <1>4, <1>5 DEF IInv, RingIsSamples
  <2>1. CASE m # n
    <3>1. RingOf(m) /\ m \in DOMAIN values /\ m \in DOMAIN samples /\ m \in DOMAIN last
      BY <1>4, <2>1 DEF IInv, RingIsSamples
    <3>2. values'[m] = values[m] /\ samples'[m] = samples[m] /\ last'[m] = last[m]
      BY <1>4, <1>5, <2>1, <3>1
    <3>. QED BY <1>0, <3>1, <3>2 DEF RingOf
  <2>2. CASE m = n /\ n \in DOMAIN values
    <3>1. RingOf(n) /\ n \in DOMAIN samples /\ old = values[n].vals
      BY <2>2 DEF IInv, RingIsSamples, old
    <3>2. /\ samples'[n] = samples[n] /\ values'[n].vals = new.vals /\ values'[n].isActive = TRUE
          /\ last'[n] = [val |-> v, fresh |-> TRUE]
      BY <1>3, <1>4, <1>5, <3>1
    <3>3. \A c \in Cycles : c # curCycle => new.vals[c] = samples[n][SampleAt(c, curCycle)]
      BY <1>3, <3>1 DEF RingOf
    <3>4. /\ last'[n].fresh = TRUE /\ last'[n].val = v /\ last'[n] \in [val : Vals, fresh : BOOLEAN]
          /\ values'[n].vals[curCycle] = v
      BY <1>3, <3>2
    <3>. QED BY <1>0, <2>2, <3>1, <3>2, <3>3, <3>4 DEF RingOf
  <2>3. CASE m = n /\ n \notin DOMAIN values
    <3>1. n \notin DOMAIN samples /\ \A c \in Cycles : old[c] = 0
      BY <2>3 DEF IInv, RingIsSamples, old
    <3>2. PICK s : s = [i \in 1 .. PacketSz |-> 0]
      OBVIOUS
    <3>3. s \in Seq(Vals) /\ Len(s) = PacketSz /\ \A i \in 1 .. PacketSz : s[i] = 0
      BY <3>2, CycleFacts, ClientAssumption
    <3>4. \A c \in Cycles : c # curCycle => new.vals[c] = s[SampleAt(c, curCycle)]
      BY <1>2, <1>3, <3>1, <3>3, SampleFacts
    <3>5. /\ samples'[n] = s /\ values'[n].vals = new.vals /\ values'[n].isActive = TRUE
          /\ last'[n] = [val |-> v, fresh |-> TRUE]
      BY <1>3, <1>4, <1>5, <3>1, <3>2
    <3>6. /\ last'[n].fresh = TRUE /\ last'[n].val = v /\ last'[n] \in [val : Vals, fresh : BOOLEAN]
          /\ values'[n].vals[curCycle] = v
      BY <1>3, <3>5
    <3>. QED BY <1>0, <2>3, <3>3, <3>4, <3>5, <3>6 DEF RingOf
  <2>. QED BY <2>1, <2>2, <2>3
<1>10. InHand' /\ PacketIsSamples'
  BY <1>0, <1>5 DEF connVars, IInv, InHand, PacketIsSamples
<1>. QED BY <1>7, <1>8, <1>9, <1>10 DEF IInv

\* A sample of every value is taken.
LEMMA TakeSampleInv == IInv /\ TakeSample => IInv'
<1>. SUFFICES ASSUME IInv, TakeSample PROVE IInv'
  OBVIOUS
<1>. DEFINE ring(n) == [values[n].vals EXCEPT ![curCycle] = Sampled(n)]
            held(n) == IF last[n].fresh \/ n \notin Fronts THEN last[n].val ELSE 0
<1>1. /\ pc.thread = "cycle" /\ Goto("thread", "send")
      /\ values' = [n \in DOMAIN values |-> [vals |-> ring(n), isActive |-> FALSE]]
      /\ curCycle' = NextCyc(curCycle)
      /\ samples' = [n \in DOMAIN samples |-> Append(Tail(samples[n]), held(n))]
      /\ last' = [n \in DOMAIN last |-> [last[n] EXCEPT !.fresh = FALSE]]
      /\ UNCHANGED <<isConnect, thrStop, thr, socket, fds, res, ret, overlap>>
  BY DEF TakeSample
<1>2. data' # NoData => /\ curCycle' = 0
                        /\ data' = [n \in DOMAIN values |-> ring(n)]
  BY DEF TakeSample
<1>3. curCycle \in Cycles /\ curCycle' \in Cycles
  BY <1>1, CycleFacts DEF IInv, TypeOK
<1>4. DOMAIN values' = DOMAIN values /\ DOMAIN samples' = DOMAIN values /\ DOMAIN last' = DOMAIN values
  BY <1>1 DEF IInv, RingIsSamples
<1>5. ASSUME NEW n \in DOMAIN values
      PROVE  /\ RingOf(n)'
             /\ values'[n] \in [vals : [Cycles -> Vals], isActive : BOOLEAN]
             /\ \A c \in Cycles : ring(n)[c] = samples'[n][SampleAt(c, curCycle')]
  <2>1. RingOf(n) /\ n \in DOMAIN samples /\ n \in DOMAIN last
    BY DEF IInv, RingIsSamples
  <2>2. PICK cur \in Cycles, s \in Seq(Vals), v \in Vals, fresh \in BOOLEAN, vals \in [Cycles -> Vals] :
          /\ cur = curCycle /\ s = samples[n] /\ vals = values[n].vals
          /\ v = last[n].val /\ fresh = last[n].fresh
          /\ values[n].isActive = fresh
    BY <1>3, <2>1 DEF RingOf, IInv, TypeOK
  <2>3. /\ Len(s) = PacketSz
        /\ \A c \in Cycles : c # cur \/ ~fresh => vals[c] = s[SampleAt(c, cur)]
        /\ fresh => vals[cur] = v
        /\ ~fresh /\ n \notin Fronts => s[PacketSz] = v
    BY <2>1, <2>2 DEF RingOf
  <2>4. PICK h \in Vals : h = held(n)
    BY <2>2, ClientAssumption
  <2>5. Sampled(n) = h
    <3>1. CASE fresh
      BY <2>2, <2>3, <2>4, <3>1 DEF Sampled
    <3>2. CASE ~fresh /\ n \in Fronts
      BY <2>2, <2>4, <3>2 DEF Sampled
    <3>3. CASE ~fresh /\ n \notin Fronts
      <4>1. PrevCyc(cur) \in Cycles /\ SampleAt(PrevCyc(cur), cur) = PacketSz
        BY CycleFacts, SampleFacts
      <4>2. vals[PrevCyc(cur)] = v
        BY <2>3, <3>3, <4>1
      <4>. QED BY <2>2, <2>4, <3>3, <4>2 DEF Sampled
    <3>. QED BY <3>1, <3>2, <3>3
  <2>6. PICK r \in [Cycles -> Vals] :
          r = ring(n) /\ r[cur] = h /\ \A c \in Cycles : c # cur => r[c] = vals[c]
    <3>1. ring(n) = [vals EXCEPT ![cur] = h]
      BY <2>2, <2>5
    <3>2. PICK r : r = [vals EXCEPT ![cur] = h]
      OBVIOUS
    <3>3. r \in [Cycles -> Vals] /\ r[cur] = h /\ \A c \in Cycles : c # cur => r[c] = vals[c]
      BY <3>2
    <3>. QED BY <3>1, <3>2, <3>3, Zenon
  <2>7. PICK t \in Seq(Vals) : t = samples'[n] /\ Len(t) = PacketSz
                              /\ (\A i \in 1 .. PacketSz - 1 : t[i] = s[i + 1]) /\ t[PacketSz] = h
    <3>1. samples'[n] = Append(Tail(s), h)
      BY <1>1, <2>1, <2>2, <2>4
    <3>. QED BY <2>3, <3>1, ShiftFacts
  <2>8. ASSUME NEW c \in Cycles
        PROVE  r[c] = t[SampleAt(c, NextCyc(cur))]
    <3>1. CASE c = cur
      BY <2>6, <2>7, <3>1, SampleFacts
    <3>2. CASE c # cur
      <4>1. PICK i \in 1 .. PacketSz - 1 : i = SampleAt(c, cur) - 1
        BY <3>2, SampleFacts
      <4>2. SampleAt(c, NextCyc(cur)) = i /\ SampleAt(c, cur) = i + 1
        BY <3>2, <4>1, SampleFacts
      <4>. QED BY <2>3, <2>6, <2>7, <3>2, <4>2
    <3>. QED BY <3>1, <3>2
  <2>9. /\ values'[n].vals = r /\ values'[n].isActive = FALSE /\ samples'[n] = t
        /\ last'[n].val = v /\ last'[n].fresh = FALSE
        /\ last'[n] \in [val : Vals, fresh : BOOLEAN]
        /\ curCycle' = NextCyc(cur)
        /\ values'[n] \in [vals : [Cycles -> Vals], isActive : BOOLEAN]
    BY <1>1, <2>1, <2>2, <2>6, <2>7 DEF RingOf
  <2>10. n \notin Fronts => t[PacketSz] = v
    BY <2>2, <2>4, <2>7
  <2>. QED BY <2>6, <2>7, <2>8, <2>9, <2>10 DEF RingOf
<1>6. RingIsSamples'
  BY <1>4, <1>5 DEF RingIsSamples
<1>7. pc' \in [Procs -> Places] /\ pc'.user = pc.user /\ pc'.thread = "send"
  BY <1>1 DEF Goto, IInv, Ended, Procs, Places
<1>8. TypeOK'
  <2>1. values' \in [DOMAIN values' -> [vals : [Cycles -> Vals], isActive : BOOLEAN]]
    BY <1>1, <1>4, <1>5
  <2>. QED BY <1>1, <1>3, <1>4, <1>7, <2>1 DEF IInv, TypeOK
<1>9. Ended' /\ OneOwner'
  BY <1>1, <1>7 DEF IInv, Ended, OneOwner, Alone, NoLeak, Idle, InConnect, Procs
<1>10. InHand'
  BY <1>2, <1>4, <1>7 DEF InHand
<1>11. PacketIsSamples'
  <2>. SUFFICES ASSUME data' # NoData, NEW n \in DOMAIN data', NEW c \in Cycles
                PROVE  data'[n][c] = samples'[n][c + 1]
    BY DEF PacketIsSamples
  <2>1. n \in DOMAIN values /\ data'[n] = ring(n) /\ curCycle' = 0
    BY <1>2
  <2>2. SampleAt(c, 0) = c + 1
    BY <1>3, SampleFacts
  <2>. QED BY <1>5, <2>1, <2>2
<1>. QED BY <1>6, <1>8, <1>9, <1>10, <1>11 DEF IInv

\* Nothing is sent ...
LEMMA NoSendInv == IInv /\ NoSend => IInv'
<1>. SUFFICES ASSUME IInv, NoSend PROVE IInv'
  OBVIOUS
<1>1. TypeOK'
  BY ClosedFacts DEF IInv, Ended, TypeOK, NoSend, Sending, Goto, Procs
<1>2. Ended' /\ OneOwner'
  BY ClosedFacts, FdFacts DEF IInv, TypeOK, Ended, OneOwner, Alone, NoLeak, Idle, InConnect, NoSend,
                  Sending, Goto, Procs, Places
<1>3. RingIsSamples' /\ InHand' /\ PacketIsSamples'
  BY DEF NoSend, IInv, RingIsSamples, RingOf, InHand, PacketIsSamples
<1>. QED BY <1>1, <1>2, <1>3 DEF IInv

\* ... or the packet is sent ...
LEMMA SendOkInv == IInv /\ SendOk => IInv'
<1>. SUFFICES ASSUME IInv, SendOk PROVE IInv'
  OBVIOUS
<1>1. TypeOK'
  BY ClosedFacts DEF IInv, Ended, TypeOK, SendOk, Sending, Goto, Procs
<1>2. Ended' /\ OneOwner'
  BY ClosedFacts, FdFacts DEF IInv, TypeOK, Ended, OneOwner, Alone, NoLeak, Idle, InConnect, SendOk,
                  Sending, Goto, Procs, Places
<1>3. RingIsSamples' /\ InHand' /\ PacketIsSamples'
  BY DEF SendOk, IInv, RingIsSamples, RingOf, InHand, PacketIsSamples
<1>. QED BY <1>1, <1>2, <1>3 DEF IInv

\* ... or it is not.
LEMMA SendFailsInv == IInv /\ SendFails => IInv'
<1>. SUFFICES ASSUME IInv, SendFails PROVE IInv'
  OBVIOUS
<1>1. TypeOK'
  BY ClosedFacts DEF IInv, Ended, TypeOK, SendFails, Sending, Goto, Procs
<1>2. Ended' /\ OneOwner'
  BY ClosedFacts, FdFacts DEF IInv, TypeOK, Ended, OneOwner, Alone, NoLeak, Idle, InConnect, SendFails,
                  Sending, Goto, Procs, Places
<1>3. RingIsSamples' /\ InHand' /\ PacketIsSamples'
  BY DEF SendFails, IInv, RingIsSamples, RingOf, InHand, PacketIsSamples
<1>. QED BY <1>1, <1>2, <1>3 DEF IInv

-----------------------------------------------------------------------------
(* The theorems.                                                           *)

\* Nothing is there.
LEMMA InitInv == Init => IInv
<1>. SUFFICES ASSUME Init PROVE IInv
  OBVIOUS
<1>1. DOMAIN values = {} /\ DOMAIN samples = {} /\ DOMAIN last = {}
  BY DEF Init
<1>2. TypeOK
  <2>1. pc.user = "idle" /\ pc.thread = "top"
    BY DEF Init
  <2>2. values \in [DOMAIN values -> [vals : [Cycles -> Vals], isActive : BOOLEAN]]
    BY <1>1 DEF Init
  <2>3. fds \in [Fds -> {"free", "new", "open", "lost", "reset"}] /\ res \in [Procs -> BOOLEAN]
    BY DEF Init
  <2>. QED BY <1>1, <2>1, <2>2, <2>3, CycleFacts DEF Init, TypeOK
<1>3. Ended /\ OneOwner
  BY DEF Init, Ended, OneOwner, Alone, NoLeak, Idle, InConnect, Procs, Places
<1>. QED BY <1>1, <1>2, <1>3 DEF Init, IInv, RingIsSamples, InHand, PacketIsSamples

\* The inductive invariant holds in every reachable state.
THEOREM Invariance == Spec => []IInv
<1>1. IInv /\ [Next]_vars => IInv'
  <2>. SUFFICES ASSUME IInv, [Next]_vars PROVE IInv'
    OBVIOUS
  <2>1. ASSUME NEW p \in Procs, ConnectStep(p)
        PROVE  IInv'
    BY <2>1, CloseOldInv, MakeSocketInv, ConnectOkInv, ConnectFailsInv DEF ConnectStep
  <2>2. CASE SvConnect \/ SvDisconnect
    BY <2>2, SvConnectInv, SvDisconnectInv
  <2>3. CASE \E n \in Names, v \in Vals : AddValue(n, v)
    BY <2>3, AddValueInv
  <2>4. CASE UserStep
    BY <2>1, <2>4, UserAssignsInv, BeginThreadInv, JoinInv, DropInv DEF UserStep, Procs
  <2>5. CASE ThreadStep
    BY <2>1, <2>5, TopInv, ThreadAssignsInv, TakeSampleInv, NoSendInv, SendOkInv, SendFailsInv,
       NotSentInv DEF ThreadStep, Procs
  <2>6. CASE \E f \in Fds : Lose(f)
    BY <2>6, LoseInv
  <2>7. CASE UNCHANGED vars
    <3>1. TypeOK' /\ Ended' /\ OneOwner'
      BY <2>7 DEF vars, connVars, dataVars, IInv, TypeOK, Ended, OneOwner, Alone, NoLeak, Idle
    <3>. QED BY <2>7, <3>1, DataStays DEF vars, connVars, IInv
  <2>. QED BY <2>2, <2>3, <2>4, <2>5, <2>6, <2>7 DEF Next
<1>. QED BY <1>1, InitInv, PTL DEF Spec

\* Every variable keeps to its range.
THEOREM TypeCorrect == Spec => []TypeOK
BY Invariance, PTL DEF IInv

\* Once svDisconnect has returned there is no thread and no open socket, if
\* svConnect was never called while the thread was connecting again
\* (client.cpp, tcp_client.cpp).
THEOREM AfterDisconnect == Spec => []Disconnected
<1>1. IInv => Disconnected
  <2>. SUFFICES ASSUME IInv, pc.user = "idle", thr = "none", ~overlap
                PROVE  ~isConnect /\ socket = NoFd /\ \A f \in Fds : fds[f] = "free"
    BY DEF Disconnected
  <2>1. ~isConnect /\ pc.thread = "top" /\ NoLeak
    BY DEF IInv, Ended, OneOwner, Idle
  <2>2. socket = NoFd
    BY <2>1 DEF IInv, Ended, OneOwner, Idle, Procs
  <2>. QED BY <2>1, <2>2, FdFacts DEF NoLeak
<1>. QED BY <1>1, Invariance, PTL

\* A packet holds the samples of the last PacketSz cycles, oldest first
\* (client.cpp, the send cycle and prepareData).
THEOREM PacketsAreSamples == Spec => []PacketIsSamples
BY Invariance, PTL DEF IInv
=============================================================================
