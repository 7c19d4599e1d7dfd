---------------------------- MODULE MCGapBuffer -----------------------------
(* Values for the runs of GapBuffer: a letter, a newline, and characters of  *)
(* two and three bytes.  ClearSpec also calls clear on its own.              *)
EXTENDS GapBuffer

MCStrs == {<<>>, <<10, 233>>, <<8364, 10, 97>>}

ClearSpec == Init /\ [][Next \/ DoClear]_vars
=============================================================================
