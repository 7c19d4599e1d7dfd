------------------------------ MODULE MCNinep ------------------------------
(* Instances of NinepClient for TLC. *)
EXTENDS NinepClient

\* One byte more than a write of MCMsize takes.
MCContent == [i \in 1..49 |-> 1]

MCChunks == {<<>>, <<7, 10>>}

P(q) == PathOf(q)

LibraryOps ==
    { <<"stat", P(TextFile)>>, <<"read", P(TextFile)>>, <<"lines", P(TextFile)>>, <<"chunks", P(TextFile)>>,
      <<"read_dir", P(QidRoot)>>, <<"write", P(SinkFile)>>, <<"create", P(Dir)>>, <<"remove", P(NewFile)>>,
      <<"walk", P(Dir)>>, <<"stat", P(Dir)>>, <<"lines", P(LogFile)>> }

\* A directory is listed, and then a file is created in it, through the fid that is open.
ListedOps == {<<"read_dir", P(Dir)>>, <<"create", P(Dir)>>}

\* A message to the tokio server may arrive in two parts.
SplitSpec ==
    /\ Init
    /\ [][Next \/ (SelectDropsRead /\ UNCHANGED clientVars)]_vars
    /\ Fairness
=============================================================================
