------------------------------- MODULE Logger -------------------------------
(***************************************************************************)
(* The log of the monitor (SVMisc/logger.h): a ring of messages, filled by *)
(* any thread and emptied by a thread of its own, which writes outside the *)
(* lock.                                                                   *)
(*                                                                         *)
(* Every section under mtx_ is a function of the logger's state, and so is *)
(* the writing between two sections; an interleaving is the order in which *)
(* they are applied.  A message is a number; the time in front of it is    *)
(* left out.  The paths are "" (none), which is where the logger begins    *)
(* without an argument, and others.                                        *)
(***************************************************************************)
EXTENDS Integers, Sequences, SequencesExt, FiniteSets

CONSTANT MaxMess        \* MAX_CNT_MESS

ASSUME LoggerAssumption == MaxMess \in Nat /\ MaxMess >= 2

Next1(pos) == (pos + 1) % MaxMess

\* A logger with this path: the thread waits, nothing is in a file.
NewLogger(path) ==
  [deqMess |-> [i \in 0 .. MaxMess - 1 |-> 0], readMess |-> 0, writeMess |-> 0,
   pathFile |-> path, fStop |-> FALSE,
   at |-> "wait", batch |-> << >>, path |-> "", stop |-> FALSE,
   files |-> [p \in {} |-> << >>]]

SetPathFile(l, path) == [l EXCEPT !.pathFile = path]

\* A ring that is full gives up its oldest message.
WriteLine(l, mess) ==
  LET nextWrite == Next1(l.writeMess)
  IN  [l EXCEPT !.readMess  = IF nextWrite = l.readMess THEN Next1(l.readMess) ELSE l.readMess,
                !.deqMess   = [l.deqMess EXCEPT ![l.writeMess] = mess],
                !.writeMess = nextWrite]

\* The first half of the destructor; the second is the wait for "ended".
Stop(l) == [l EXCEPT !.fStop = TRUE]

Waiting(l) == (l.writeMess - l.readMess) % MaxMess

\* What drainLocked takes, oldest first.
Drained(l) == [i \in 1 .. Waiting(l) |-> l.deqMess[(l.readMess + i - 1) % MaxMess]]

WriteBatch(files, path, mess) ==
  IF path = "" \/ mess = << >>
  THEN files
  ELSE LET had == IF path \in DOMAIN files THEN files[path] ELSE << >>
       IN  [p \in DOMAIN files \cup {path} |-> IF p = path THEN had \o mess ELSE files[p]]

Drain(l, next, stop) ==
  [l EXCEPT !.at = next, !.batch = Drained(l), !.readMess = l.writeMess,
            !.path = l.pathFile, !.stop = stop]

\* The next step of the thread, if it has one: the section in which it wakes,
\* the writing, and once more both after a stop.
WriteCycle(l) ==
  LET written == [l EXCEPT !.files = WriteBatch(l.files, l.path, l.batch), !.batch = << >>]
  IN  CASE l.at = "wait" /\ (l.fStop \/ l.readMess # l.writeMess) -> Drain(l, "batch", l.fStop)
        [] l.at = "batch" -> [written EXCEPT !.at = IF l.stop THEN "last" ELSE "wait"]
        [] l.at = "last"  -> Drain(l, "tail", TRUE)
        [] l.at = "tail"  -> [written EXCEPT !.at = "ended"]
        [] OTHER          -> l

-----------------------------------------------------------------------------
(***************************************************************************)
(* What the log promises, over all orders of HistoryLength calls and steps *)
(* of its thread.                                                          *)
(***************************************************************************)

HistoryLength == 8

\* A call of a thread of the program, the order to stop, a step of the thread.
\* The path is changed to "later"; once stopped nobody calls any more.
Calls == {"line", "path", "stop", "cycle"}

Histories == UNION {[1 .. n -> Calls] : n \in {HistoryLength - 2, HistoryLength}}

\* The state, the number of lines, and whether more of them ever waited than
\* the ring holds.
Applied(h, call) ==
  LET l == h.l
      k == h.lines + 1
  IN  CASE call = "line" /\ ~l.fStop -> [l |-> WriteLine(l, k), lines |-> k,
                                          lost |-> h.lost \/ Waiting(l) = MaxMess - 1]
        [] call = "path" /\ ~l.fStop -> [h EXCEPT !.l = SetPathFile(l, "later")]
        [] call = "stop"             -> [h EXCEPT !.l = Stop(l)]
        [] call = "cycle"            -> [h EXCEPT !.l = WriteCycle(l)]
        [] OTHER                     -> h

After(path, history) == FoldLeft(Applied, [l |-> NewLogger(path), lines |-> 0, lost |-> FALSE], history)

In(l, path) == IF path \in DOMAIN l.files THEN l.files[path] ELSE << >>

\* All that is in files, in the batch and in the ring.
AllThere(l) == In(l, "first") \o In(l, "later") \o l.batch \o Drained(l)

UpTo(n) == [i \in 1 .. n |-> i]

\* No line is lost, doubled or moved before an earlier one while the ring is
\* never full, whoever writes, changes the path or stops in between
\* (logger.h:63-74, 94-112).
ASSUME LinesKeptInOrder ==
  \A history \in Histories :
    LET h == After("first", history)
    IN  ~h.lost => AllThere(h.l) = UpTo(h.lines)

\* A ring that was full has lost oldest lines only: what waits are the newest
\* ones, and the order is still theirs (logger.h:67).
ASSUME NewestStay ==
  \A history \in Histories :
    LET h == After("first", history)
        k == AllThere(h.l)
        w == Drained(h.l)
    IN  /\ \A i, j \in DOMAIN k : i < j => k[i] < k[j]
        /\ \A i \in DOMAIN w : w[i] = h.lines - Len(w) + i

\* After the destructor's wait nothing is left in memory, even a line that was
\* written between the order to stop and the last section (logger.h:134-144).
ASSUME StopWritesAll ==
  \A history \in Histories :
    LET l == After("first", history).l
    IN  l.at = "ended" => l.batch = << >> /\ Waiting(l) = 0

\* Lines that are taken out before a path is set are in no file
\* (logger.h:104): the first section decides, not the setting.
ASSUME NoPathNoLine ==
  LET h == After("", << "line", "cycle", "path", "cycle", "line", "cycle", "cycle" >>)
  IN  In(h.l, "later") = <<2>> /\ ~h.lost
=============================================================================
