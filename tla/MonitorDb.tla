----------------------------- MODULE MonitorDb ------------------------------
(***************************************************************************)
(* What the monitor keeps in its database from one session to the next     *)
(* (SVMonitor/src/db_provider.cpp and its use in main_win.cpp): comments   *)
(* and colours of signals, triggers with their processes.                  *)
(*                                                                         *)
(* Signals are of one module.  The window's thread runs its handlers one   *)
(* after the other; at an orderly exit it writes statement by statement,   *)
(* each one a transaction of its own, and the process may die between any  *)
(* two.  A row that is read past the end of a result is undefined: the     *)
(* session is "broken".  The database can be opened (without it nothing    *)
(* here happens).  kept and lasting: history.                               *)
(***************************************************************************)
EXTENDS Integers, Sequences, SequencesExt, FiniteSets

CONSTANTS Signals, Triggers,
          Owner,       \* bound: the signal of each trigger the user makes
          OnName,      \* module + "On"; its trigger "Off" is treated alike
          Comments,    \* bound: comments, the first one empty
          Colours,     \* bound
          MaxSessions  \* bound: sessions

Empty  == "empty"
None   == "none"
NoName == "noname"
Blank  == [name |-> NoName, signal |-> None, active |-> FALSE]

ASSUME DbAssumption ==
  /\ IsFiniteSet(Signals) /\ IsFiniteSet(Triggers)
  /\ OnName \notin Triggers \cup Signals
  /\ NoName \notin Triggers \cup {OnName}
  /\ None \notin Signals \cup Colours \cup Comments
  /\ Empty \in Comments
  /\ Owner \in [Triggers -> Signals]
  /\ MaxSessions \in Nat \ {0}

VARIABLES up,        \* "runs", "saves", "down" or "broken"
          sref,      \* signals of the registry
          signExist, \* signExist_: what the window has seen; the module is OnName
          comment, signAttr, trgs,          \* in memory
          tSignal, tAttr, tTrigger, tUser,  \* Signal, AttrSignal, Trigger, UserEventData
          todo,      \* statements of the exit that are left
          session, kept, lasting

memory == <<sref, signExist, comment, signAttr, trgs>>
tables == <<tSignal, tAttr, tTrigger, tUser>>
vars   == <<up, memory, tables, todo, session, kept, lasting>>

FreshMemory ==
  /\ sref = {} /\ signExist = {}
  /\ comment  = [s \in Signals |-> Empty]
  /\ signAttr = [s \in Signals |-> None]
  /\ trgs = <<>>

Init ==
  /\ up = "runs" /\ FreshMemory
  /\ tSignal = [s \in Signals |-> None] /\ tAttr = [s \in Signals |-> None]
  /\ tTrigger = <<>> /\ tUser = <<>>
  /\ todo = <<>> /\ session = 1
  /\ kept = [s \in Signals |-> <<Empty, None>>]
  /\ lasting = <<>>

-----------------------------------------------------------------------------
With(f, n, t) == [m \in DOMAIN f \cup {n} |-> IF m = n THEN t ELSE f[m]]
Without(f, n) == [m \in DOMAIN f \ {n} |-> f[m]]

\* TriggerDialog::addTrigger: a name that is there is left alone.
AddedTo(f, n, t) == IF n \in DOMAIN f THEN f ELSE With(f, n, t)

\* getTrigger(signal, module).  The i-th trigger takes the i-th of the rows of its
\* own name, of which there is one.
RowsOf(s)  == SelectSeq(tTrigger, LAMBDA r : r.signal = s)
UserOf(n)  == SelectSeq(tUser, LAMBDA m : m = n)
Readable(rows) == \A i \in DOMAIN rows : i <= Len(UserOf(rows[i].name))

\* Bug: what is not in the table is taken from it.
AnyComment(s) == tSignal[s]

StoredComment(s) == IF tSignal[s] = None THEN comment[s] ELSE tSignal[s]

Appear(s) ==
  /\ up = "runs" /\ s \notin sref
  /\ sref' = sref \cup {s}
  /\ UNCHANGED <<up, signExist, comment, signAttr, trgs, tables, todo, session, kept,
                 lasting>>

\* The rows of the triggers of these signals; a name that is there is left alone.
WithStored(new) ==
  LET rows     == {i \in DOMAIN tTrigger : tTrigger[i].signal \in new}
      first(n) == SelectInSeq(tTrigger, LAMBDA r : r.name = n /\ r.signal \in new)
  IN  [n \in DOMAIN trgs \cup {tTrigger[i].name : i \in rows} |->
         IF n \in DOMAIN trgs THEN trgs[n] ELSE tTrigger[first(n)]]

\* updateTblSignal, for what has not been seen in this session.
UpdateTblSignal ==
  LET new == sref \ signExist
  IN  /\ up = "runs" /\ new # {}
      /\ IF \A s \in new : Readable(RowsOf(s))
         THEN /\ signExist' = signExist \cup new
              /\ comment'  = [s \in Signals |-> IF s \in new THEN StoredComment(s) ELSE comment[s]]
              /\ signAttr' = [s \in Signals |-> IF s \in new /\ tAttr[s] # None THEN tAttr[s]
                                                                           ELSE signAttr[s]]
              /\ trgs' = WithStored(new)
              /\ UNCHANGED up
         ELSE up' = "broken" /\ UNCHANGED <<signExist, comment, signAttr, trgs>>
      /\ UNCHANGED <<sref, tables, todo, session, kept, lasting>>

\* moduleConnect: getTrigger(name) makes a blank trigger where there is no row, so
\* the one that the window would make with a name and a type is never made.
ModuleConnect ==
  LET row == SelectInSeq(tTrigger, LAMBDA r : r.name = OnName)
  IN  /\ up = "runs" /\ OnName \notin signExist
      /\ signExist' = signExist \cup {OnName}
      /\ trgs' = AddedTo(trgs, OnName, IF row = 0 THEN Blank ELSE tTrigger[row])
      /\ UNCHANGED <<up, sref, comment, signAttr, tables, todo, session, kept, lasting>>

-----------------------------------------------------------------------------
(* The user.                                                               *)

SetComment(s, c) ==
  /\ up = "runs" /\ s \in signExist
  /\ comment' = [comment EXCEPT ![s] = c]
  /\ kept' = [kept EXCEPT ![s][1] = c]
  /\ UNCHANGED <<up, sref, signExist, signAttr, trgs, tables, todo, session, lasting>>

SetColour(s, c) ==
  /\ up = "runs" /\ s \in signExist
  /\ signAttr' = [signAttr EXCEPT ![s] = c]
  /\ kept' = [kept EXCEPT ![s][2] = c]
  /\ UNCHANGED <<up, sref, signExist, comment, trgs, tables, todo, session, lasting>>

\* Bug: the colour that is taken back stays in the table.
AttrStays(s) == tAttr

AttrDeleted(s) == [tAttr EXCEPT ![s] = None]

\* The only change that is written at once.
ResetColour(s) ==
  /\ up = "runs" /\ signAttr[s] # None
  /\ signAttr' = [signAttr EXCEPT ![s] = None]
  /\ tAttr' = AttrDeleted(s)
  /\ kept' = [kept EXCEPT ![s][2] = None]
  /\ UNCHANGED <<up, sref, signExist, comment, trgs, tSignal, tTrigger, tUser, todo,
                 session, lasting>>

Trigger(n, active) == [name |-> n, signal |-> Owner[n], active |-> active]

AddTrigger(n, active) ==
  /\ up = "runs" /\ Owner[n] \in signExist /\ n \notin DOMAIN trgs
  /\ trgs' = With(trgs, n, Trigger(n, active))
  /\ lasting' = With(lasting, n, Trigger(n, active))
  /\ UNCHANGED <<up, sref, signExist, comment, signAttr, tables, todo, session, kept>>

ChangeTrigger(n) ==
  /\ up = "runs" /\ n \in DOMAIN trgs
  /\ trgs' = [trgs EXCEPT ![n].active = ~@]
  /\ lasting' = IF n = OnName THEN lasting ELSE [lasting EXCEPT ![n].active = ~@]
  /\ UNCHANGED <<up, sref, signExist, comment, signAttr, tables, todo, session, kept>>

DelTrigger(n) ==
  /\ up = "runs" /\ n \in DOMAIN trgs
  /\ trgs' = Without(trgs, n)
  /\ lasting' = Without(lasting, n)
  /\ UNCHANGED <<up, sref, signExist, comment, signAttr, tables, todo, session, kept>>

-----------------------------------------------------------------------------
(* The end of a session.                                                   *)

Each(kind, S) == LET q == SetToSeq(S) IN [i \in DOMAIN q |-> <<kind, q[i]>>]

\* saveSignals, saveAttrSignals, saveTriggers.
Statements ==
  LET coloured == {s \in Signals : signAttr[s] # None}
      names    == SetToSeq(DOMAIN trgs)
      pairs    == [i \in 1 .. 2 * Len(names) |-> IF i % 2 = 1 THEN <<"trigger", names[(i + 1) \div 2]>>
                                                           ELSE <<"user", names[i \div 2]>>]
  IN  Each("signal", sref) \o Each("attr", coloured)
        \o <<<<"delete triggers", None>>, <<"delete users", None>>>> \o pairs

\* ~MainWin: what could change the data has been stopped before.
Exit ==
  /\ up = "runs"
  /\ up' = "saves"
  /\ todo' = Statements
  /\ UNCHANGED <<memory, tables, session, kept, lasting>>

Upsert(s) == [tSignal EXCEPT ![s] = comment[s]]

\* Bug: whether a trigger is active is not written.
RowInactive(n) == [trgs[n] EXCEPT !.active = FALSE]

RowOf(n) == trgs[n]

NameOf(n) == trgs[n].name

Save ==
  /\ up = "saves" /\ todo # <<>>
  /\ LET kind == todo[1][1]
         x    == todo[1][2]
     IN  /\ tSignal'  = IF kind = "signal" THEN Upsert(x) ELSE tSignal
         /\ tAttr'    = IF kind = "attr" THEN [tAttr EXCEPT ![x] = signAttr[x]] ELSE tAttr
         /\ tTrigger' = CASE kind = "delete triggers" -> <<>>
                          [] kind = "trigger" -> Append(tTrigger, RowOf(x))
                          [] OTHER -> tTrigger
         /\ tUser'    = CASE kind = "delete users" -> <<>>
                          [] kind = "user" -> Append(tUser, NameOf(x))
                          [] OTHER -> tUser
  /\ todo' = Tail(todo)
  /\ UNCHANGED <<up, memory, session, kept, lasting>>

\* The memory of the process is gone.
Forget ==
  /\ sref' = {} /\ signExist' = {}
  /\ comment'  = [s \in Signals |-> Empty]
  /\ signAttr' = [s \in Signals |-> None]
  /\ trgs' = <<>>

\* Given up: triggers of signals that have not appeared in the session, comments of
\* those that appeared when the window did not look any more.
Saved ==
  /\ up = "saves" /\ todo = <<>>
  /\ up' = "down"
  /\ lasting' = [n \in DOMAIN lasting \cap DOMAIN trgs |-> lasting[n]]
  /\ kept' = [s \in Signals |-> IF s \in sref \ signExist THEN <<Empty, kept[s][2]>> ELSE kept[s]]
  /\ Forget
  /\ UNCHANGED <<tables, todo, session>>

\* The process dies, or broke when it read a row that is not there.
Die ==
  /\ up \in {"runs", "saves", "broken"}
  /\ up' = "down"
  /\ todo' = <<>>
  /\ kept' = [s \in Signals |-> <<IF tSignal[s] = None THEN Empty ELSE tSignal[s], tAttr[s]>>]
  /\ lasting' = [n \in {tTrigger[i].name : i \in DOMAIN tTrigger} \ {NoName} |->
                   tTrigger[SelectInSeq(tTrigger, LAMBDA r : r.name = n)]]
  /\ Forget
  /\ UNCHANGED <<tables, session>>

Start ==
  /\ up = "down" /\ session < MaxSessions
  /\ up' = "runs" /\ session' = session + 1
  /\ UNCHANGED <<memory, tables, todo, kept, lasting>>

Next ==
  \/ \E s \in Signals : Appear(s) \/ ResetColour(s)
  \/ UpdateTblSignal \/ ModuleConnect
  \/ \E s \in Signals, c \in Comments : SetComment(s, c)
  \/ \E s \in Signals, c \in Colours : SetColour(s, c)
  \/ \E n \in Triggers, active \in BOOLEAN : AddTrigger(n, active)
  \/ \E n \in Triggers \cup {OnName} : ChangeTrigger(n)
  \/ \E n \in Triggers : DelTrigger(n)
  \/ Exit \/ Save \/ Saved \/ Die \/ Start

Spec == Init /\ [][Next]_vars

-----------------------------------------------------------------------------
TypeOK ==
  /\ up \in {"runs", "saves", "down", "broken"}
  /\ sref \subseteq Signals /\ signExist \subseteq sref \cup {OnName}
  /\ comment \in [Signals -> Comments] /\ signAttr \in [Signals -> Colours \cup {None}]
  /\ DOMAIN trgs \subseteq Triggers \cup {OnName}
  /\ \A n \in DOMAIN trgs : trgs[n] \in {[Blank EXCEPT !.active = x] : x \in BOOLEAN}
                                  \cup {Trigger(m, x) : m \in Triggers, x \in BOOLEAN}
  /\ tSignal \in [Signals -> Comments \cup {None}] /\ tAttr \in [Signals -> Colours \cup {None}]
  /\ Len(tTrigger) <= Cardinality(Triggers) + 1 /\ Len(tUser) <= Cardinality(Triggers) + 1
  /\ session \in 1 .. MaxSessions

\* A signal that has been seen carries the comment and the colour the user gave it
\* last, however many sessions ago and whether or not it appeared in those between;
\* what a session that died had not written is given up, and never half of it comes
\* back wrong (saveSignals, saveAttrSignals, delAttrSignal, updateTblSignal).
\* Saved names the case in which the code loses a comment.
UserDataKept ==
  up = "runs" => \A s \in signExist \cap Signals : <<comment[s], signAttr[s]>> = kept[s]

\* The triggers of a signal that has been seen are those the user left it with: one
\* that was deleted does not come back, one that was changed is as it was changed.
\* What an orderly exit drops is the triggers of signals that did not appear, what a
\* cut exit drops those that were not written yet (saveTriggers, getTrigger).
TriggersKept ==
  up = "runs" =>
    \A n \in Triggers : Owner[n] \in signExist =>
      IF n \in DOMAIN lasting THEN n \in DOMAIN trgs /\ trgs[n] = lasting[n]
                              ELSE n \notin DOMAIN trgs
=============================================================================
