------------------------------ MODULE MCFsysLog -----------------------------
(* FsysLog for model checking.                                               *)
EXTENDS FsysLog
=============================================================================
