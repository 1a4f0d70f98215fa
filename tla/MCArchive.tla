------------------------------ MODULE MCArchive ------------------------------
(***************************************************************************)
(* The archive for TLC.  What is kept in the database is checked by the    *)
(* assumptions of ClickHouse.                                              *)
(***************************************************************************)
EXTENDS Archive, ClickHouse

\* What has been handed over when a buffer is changed reaches the disk.
HandedOverIsSaved ==
  \A s \in Signals : \A n \in 1 .. MaxValues :
    (update = "handOver" /\ added[s] = n /\ faults = 0 /\ outArchiveEna.archive)
      ~> (Len(disk[s]) >= n \/ faults > 0 \/ update = "undefined")

\* What the documentation says, whether or not a save fails: a ten minute
\* buffer is flushed to disk (docs/en/archives.md:5, archive.cpp:56), so nothing
\* is stored past its end.
FlushedWhenFull == update # "undefined"
=============================================================================
