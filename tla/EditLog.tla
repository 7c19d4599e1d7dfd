------------------------------ MODULE EditLog -------------------------------
(***************************************************************************)
(* The undo log of a buffer (src/src/buffer/edit.rs): a stack of           *)
(* transactions of edits, a stack of undone transactions, and the flag     *)
(* that stops edits made by undo and redo from being recorded again.       *)
(*                                                                         *)
(* Positions in an edit count characters; the length that try_extend_insert*)
(* and try_extend_delete add to them is the length of a Rust String, which *)
(* counts bytes.  Utf8Len keeps the two apart.                             *)
(***************************************************************************)
EXTENDS Naturals, Sequences, SequencesExt

CONSTANTS
    Char,       \* the characters of the texts
    Utf8Len     \* the number of bytes each one is encoded in

ASSUME Utf8LenAssumption == Utf8Len \in [Char -> 1..4]

Edits == [kind : {"Insert", "Delete"}, cur : Nat, txt : Seq(Char), isChar : BOOLEAN]

Logs == [edits : Seq(Seq(Edits)), undone : Seq(Seq(Edits)), paused : BOOLEAN]

EmptyLog == [edits |-> <<>>, undone |-> <<>>, paused |-> FALSE]

NewEdit(kind, cur, txt, isChar) ==
    [kind |-> kind, cur |-> cur, txt |-> txt, isChar |-> isChar]

IntoUndo(e) == [e EXCEPT !.kind = IF @ = "Insert" THEN "Delete" ELSE "Insert"]

ByteLen(s) ==
    LET upTo[i \in 0..Len(s)] == IF i = 0 THEN 0 ELSE upTo[i - 1] + Utf8Len[s[i]]
    IN  upTo[Len(s)]

(* what the code takes for the extent of an edit's text *)
TxtLen(e) == IF e.isChar THEN 1 ELSE ByteLen(e.txt)

Append2(e, s)  == [e EXCEPT !.txt = @ \o s, !.isChar = FALSE]
Prepend2(e, s) == [e EXCEPT !.txt = s \o @, !.isChar = FALSE]

(* The three operators below return what stands in the log for an edit d   *)
(* followed by an edit e: one combined edit, or the two of them.           *)
TryExtendInsert(d, e) ==
    CASE e.cur = d.cur             -> <<Prepend2(d, e.txt)>>
      [] e.cur # d.cur /\ e.cur = d.cur + TxtLen(d) -> <<Append2(d, e.txt)>>
      [] OTHER                     -> <<d, e>>

(* mutant: text deleted before the earlier deletion is appended to it *)
TryExtendDeleteAtEnd(d, e) ==
    CASE e.cur = d.cur             -> <<Append2(d, e.txt)>>
      [] e.cur # d.cur /\ e.cur + TxtLen(e) = d.cur -> <<[Append2(d, e.txt) EXCEPT !.cur = e.cur]>>
      [] OTHER                     -> <<d, e>>

TryExtendDelete(d, e) ==
    CASE e.cur = d.cur             -> <<Append2(d, e.txt)>>
      [] e.cur # d.cur /\ e.cur + TxtLen(e) = d.cur -> <<[Prepend2(d, e.txt) EXCEPT !.cur = e.cur]>>
      [] OTHER                     -> <<d, e>>

TryCombine(d, e) ==
    CASE d.kind = "Insert" /\ e.kind = "Insert" -> TryExtendInsert(d, e)
      [] d.kind = "Delete" /\ e.kind = "Delete" -> TryExtendDelete(d, e)
      [] d.kind # e.kind                        -> <<d, e>>

(* extend the open transaction t by the edit e *)
Extend(t, e) == IF t = <<>> THEN <<e>> ELSE Front(t) \o TryCombine(Last(t), e)

LogPush(l, e) ==
    [l EXCEPT !.undone = <<>>,
              !.edits  = IF @ = <<>> THEN << <<e>> >>
                                     ELSE Append(Front(@), Extend(Last(@), e))]

LogRecord(l, e) == IF l.paused THEN l ELSE LogPush(l, e)

NewTransaction(l) ==
    IF l.edits # <<>> /\ Last(l.edits) = <<>>
    THEN l ELSE [l EXCEPT !.edits = Append(@, <<>>)]

(* index of the transaction that popping past the empty ones stops at, or 0 *)
LastNonEmpty(ts) == SelectLastInSeq(ts, LAMBDA t : t # <<>>)

(* undo() and redo() return the log after the call and the edits to apply; *)
(* no edits is the None of the code.                                       *)
LogUndo(l) ==
    LET i == LastNonEmpty(l.edits)
    IN  IF i = 0
        THEN [log |-> [l EXCEPT !.edits = <<>>], apply |-> <<>>]
        ELSE [log   |-> [l EXCEPT !.edits  = SubSeq(@, 1, i - 1),
                                  !.undone = Append(@, l.edits[i])],
              apply |-> [k \in 1..Len(l.edits[i]) |->
                            IntoUndo(l.edits[i][Len(l.edits[i]) + 1 - k])]]

(* when the undone transaction popped is empty, the loop goes on popping   *)
(* from edits, not from undone_edits                                       *)
LogRedo(l) ==
    LET i == LastNonEmpty(l.edits)
        t == Last(l.undone)
    IN  CASE l.undone = <<>> -> [log |-> l, apply |-> <<>>]
          [] l.undone # <<>> /\ t # <<>> ->
                [log |-> [l EXCEPT !.undone = Front(@), !.edits = Append(@, t)], apply |-> t]
          [] l.undone # <<>> /\ t = <<>> ->
                [log   |-> [l EXCEPT !.undone = Front(@), !.edits = SubSeq(@, 1, i)],
                 apply |-> IF i = 0 THEN <<>> ELSE l.edits[i]]
=============================================================================
