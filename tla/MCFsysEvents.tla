---------------------------- MODULE MCFsysEvents ----------------------------
(* FsysEvents for model checking, one scene at a time.                      *)
EXTENDS FsysEvents

CONSTANTS c1, c2, b1, b2, f1, f2

Scene(bufs, ofC1, ofC2, features, maxEvents) ==
    [buffers |-> bufs, features |-> features, maxEvents |-> maxEvents,
     fids |-> [c \in Clients |-> IF c = c1 THEN ofC1 ELSE ofC2]]

\* two clients contend for one event file, which one of them has opened twice;
\* one client uses the event files of two buffers
ContendScenes ==
    { Scene({b1}, {f1}, {f1}, {"concurrent_reads"}, 2),
      Scene({b1}, {f1, f2}, {f1}, {"concurrent_reads"}, 1),
      Scene({b1}, {f1, f2}, {}, {"concurrent_reads"}, 2) }
BuffersScene == Scene({b1, b2}, {f1, f2}, {}, {}, 1)
MCScenes     == ContendScenes \cup {BuffersScene}

\* scenes of the runs that show what does not hold
ConcurrentScenes == {Scene({b1}, {f1}, {}, {"concurrent_reads"}, 1)}
UnopenedScenes   == {Scene({b1}, {f1}, {}, {"unopened_reads"}, 1)}
StatScenes       == {Scene({b1}, {f1, f2}, {}, {}, 1)}
ScratchScenes    == {BuffersScene}
=============================================================================
