------------------------------ MODULE LspText ------------------------------
(***************************************************************************)
(* What is computed for language servers (src/src/lsp/): positions in the  *)
(* three encodings, the addresses that ranges stand for and how lists of   *)
(* edits are applied (capabilities.rs, messages/mod.rs), and the framing   *)
(* of messages (rpc.rs).                                                   *)
(*                                                                         *)
(* A text is a sequence of characters and indices are zero based, as in    *)
(* the code.                                                               *)
(***************************************************************************)
EXTENDS Dots, Sequences, SequencesExt, FiniteSets

CONSTANTS
    EOL,    \* the newline
    Units   \* how many code units a character takes in each encoding

Encodings == DOMAIN Units

----------------------------------------------------------------------------
(* Lines and columns.                                                       *)

Breaks(t, i) == Cardinality({ k \in 1 .. i : t[k] = EOL })
LineCount(t) == Breaks(t, Len(t)) + 1
StartOf(t, y) == CHOOSE i \in 0 .. Len(t) : Breaks(t, i) = y /\ (i = 0 \/ t[i] = EOL)
TextOfLine(t, y) ==      \* with its newline
    SubSeq(t, StartOf(t, y) + 1, IF y + 1 < LineCount(t) THEN StartOf(t, y + 1) ELSE Len(t))
LineIsBlank(t, y) == TextOfLine(t, y) \in {<<>>, <<EOL>>}

Pos(line, character) == [line |-> line, character |-> character]

UnitsIn(enc, s) == FoldLeft(LAMBDA n, c : n + Units[enc][c], 0, s)

LspPosition(enc, t, y, x) == Pos(y, UnitsIn(enc, SubSeq(t, StartOf(t, y) + 1, StartOf(t, y) + x)))

(* buffer_pos, of a cursor *)
BufferPos(enc, t, i) == LspPosition(enc, t, Breaks(t, i), i - StartOf(t, Breaks(t, i)))

(* the characters of s that the first n code units reach into *)
CharsWithin(enc, s, n) ==
    Cardinality({ k \in 1 .. Len(s) : UnitsIn(enc, SubSeq(s, 1, k - 1)) < n })

(* A line past the end is the last one, at the column that has as many      *)
(* characters before it as the text.  Bytes are counted on past the end of  *)
(* the line, UTF-16 up to it, and characters are taken as they are.         *)
ParseLspPosition(enc, t, pos) ==
    IF pos.line > LineCount(t) - 1 THEN <<LineCount(t) - 1, Len(t)>>
    ELSE LET start == StartOf(t, pos.line)
         IN  CASE enc = "Utf8"  -> <<pos.line, CharsWithin(enc, SubSeq(t, start + 1, Len(t)), pos.character)>>
               [] enc = "Utf16" -> <<pos.line, CharsWithin(enc, TextOfLine(t, pos.line), pos.character)>>
               [] enc = "Utf32" -> <<pos.line, pos.character>>

----------------------------------------------------------------------------
(* Edits: a range, [start, end), and the text that replaces it.             *)

IdxOf(t, yx) == StartOf(t, yx[1]) + yx[2]

(* Coords::as_addr, resolved by map_addr and clamped.  An insertion is a    *)
(* cursor; the end of anything else is inclusive, and the start of a line   *)
(* stands for the newline before it unless that line is blank.              *)
AsDot(enc, t, e) ==
    LET from == ParseLspPosition(enc, t, e.start)
        to   == ParseLspPosition(enc, t, e.end)
        last == IF to[2] = 0 /\ ~LineIsBlank(t, to[1])
                THEN LET y == SaturatingSub(to[1], 1) IN <<y, SaturatingSub(Len(TextOfLine(t, y)), 1)>>
                ELSE <<to[1], SaturatingSub(to[2], 1)>>
    IN  ClampIdx(CASE from = to -> Cur(IdxOf(t, from))
                   [] from # to /\ from[1] = to[1] /\ to[2] = from[2] + 1 ->
                        FromCursors(IdxOf(t, from), IdxOf(t, from))
                   [] OTHER -> FromCursors(IdxOf(t, from), IdxOf(t, last)), Len(t))

(* InsertString at a dot, which ends up behind what was inserted *)
InsertAtDot(b, s) ==
    LET end == IF IsCur(b.dot) THEN b.dot.start
               ELSE IF b.dot.end + 1 < Len(b.txt) THEN b.dot.end + 1 ELSE Len(b.txt)
        txt == SubSeq(b.txt, 1, b.dot.start) \o s \o SubSeq(b.txt, end + 1, Len(b.txt))
    IN  [txt |-> txt, dot |-> ClampIdx(Cur(b.dot.start + Len(s)), Len(txt)), xdot |-> ClampIdx(b.xdot, Len(txt))]

(* mutant: dot stays where it was *)
InsertAtXDotStays(b, s) ==
    LET new == InsertAtDot([b EXCEPT !.dot = b.xdot], s)
    IN  [new EXCEPT !.xdot = new.dot, !.dot = ClampIdx(b.dot, Len(new.txt))]

(* insert_xdot: dot moves with the text around it *)
InsertAtXDot(b, s) ==
    LET removed == IF IsCur(b.xdot) THEN 0 ELSE NChars(b.xdot)
        dot == CASE Intersects(b.dot, b.xdot) /\ b.xdot.start > b.dot.start /\ b.xdot.end >= b.dot.end ->
                        WithOffset(CollapseToFirst(b.xdot), 0, 1)
                 [] Intersects(b.dot, b.xdot) /\ ~(b.xdot.start > b.dot.start /\ b.xdot.end >= b.dot.end) ->
                        WithOffset(CollapseToFirst(b.xdot), Len(s), 0)
                 [] b.xdot.start > b.dot.end -> b.dot
                 [] OTHER -> WithOffset(b.dot, Len(s), removed)
        new == InsertAtDot([b EXCEPT !.dot = b.xdot], s)
    IN  [new EXCEPT !.xdot = new.dot, !.dot = ClampIdx(dot, Len(new.txt))]

PosBefore(p, q) == p.line < q.line \/ (p.line = q.line /\ p.character < q.character)
EditBefore(e, f) == PosBefore(e.start, f.start) \/ (e.start = f.start /\ PosBefore(e.end, f.end))

(* sort_by_key, which keeps the order of equal keys, and reverse *)
EditOrder(edits) ==
    SetToSortSeq(DOMAIN edits, LAMBDA i, j : EditBefore(edits[j], edits[i])
                                             \/ (~EditBefore(edits[i], edits[j]) /\ i > j))

(* edit_actions_as_editor_actions and what the buffer does with them: the   *)
(* edits of edits, by the xdot except for those that a completion makes     *)
ApplyEdits(enc, b, edits) ==
    FoldLeft(LAMBDA x, k :
                LET d == AsDot(enc, x.txt, edits[k])
                IN  IF edits[k].dot THEN InsertAtDot([x EXCEPT !.dot = d], edits[k].s)
                    ELSE InsertAtXDot([x EXCEPT !.xdot = d], edits[k].s),
             b, EditOrder(edits))

----------------------------------------------------------------------------
(* Frames.  A stream holds lines of headers and the bytes of bodies.        *)

Header(h, n) == [l |-> h, n |-> n, m |-> "none"]
Byte(m, i)   == [l |-> "byte", n |-> i, m |-> m]
Body(m, size) == [i \in 1 .. size |-> Byte(m, i)]

WriteMessage(m, size) == <<Header("length", size), Header("end", 0)>> \o Body(m, size)

NothingRead == [r |-> "none", m |-> "none", rest |-> <<>>]
BadMessage  == [r |-> "error", m |-> "none", rest |-> <<>>]

(* Message::read: headers up to an empty line, one of which is the length   *)
(* (the last one counts), and a body of that length                         *)
ReadMessage(s) ==
    LET ends    == { i \in 1 .. Len(s) : s[i].l = "end" /\ \A j \in 1 .. i - 1 : s[j].l \in {"length", "other"} }
        lengths == { i \in 1 .. Len(s) : s[i].l = "length" /\ \A j \in 1 .. i - 1 : s[j].l \in {"length", "other"} }
        at      == CHOOSE i \in ends : TRUE
        n       == s[CHOOSE i \in lengths : \A j \in lengths : j <= i].n
    IN  CASE \A i \in 1 .. Len(s) : s[i].l \in {"length", "other"} -> NothingRead
          [] ends = {} /\ ~\A i \in 1 .. Len(s) : s[i].l \in {"length", "other"} -> BadMessage
          [] ends # {} /\ (lengths = {} \/ at + n > Len(s)) -> BadMessage
          [] OTHER -> IF n > 0 /\ SubSeq(s, at + 1, at + n) = Body(s[at + 1].m, n)
                      THEN [r |-> "message", m |-> s[at + 1].m, rest |-> SubSeq(s, at + n + 1, Len(s))]
                      ELSE BadMessage

----------------------------------------------------------------------------
(* References.                                                              *)

TextEdit(t, enc, i, j, s, dot) == [start |-> BufferPos(enc, t, i), end |-> BufferPos(enc, t, j), s |-> s, dot |-> dot,
                               i |-> i, j |-> j]      \* what it means

(* ranges share no character; of two at one place only the later may remove *)
Disjoint(e, f) == e.j <= f.i \/ f.j <= e.i
WellFormed(edits) == \A k, l \in DOMAIN edits : k < l =>
    Disjoint(edits[k], edits[l]) /\ ~(edits[k].i = edits[l].i /\ edits[k].i < edits[k].j)

(* what a list of edits says: every one describes the original text, and    *)
(* insertions at one place are made in the order of the list                *)
Edited(t, edits) ==
    LET at(n) == FlattenSeq([k \in DOMAIN edits |-> IF edits[k].i = n THEN edits[k].s ELSE <<>>])
        removed(n) == \E k \in DOMAIN edits : edits[k].i < n /\ n <= edits[k].j
    IN  at(0) \o FlattenSeq([n \in 1 .. Len(t) |-> (IF removed(n) THEN <<>> ELSE <<t[n]>>) \o at(n)])

(* the start of a blank line, as the end of a range, is taken for what is   *)
(* before the end of that line, whether it was blank or the edits further   *)
(* down have made it                                                        *)
EndsAtBlank(t, edits, e) ==
    /\ e.i < e.j /\ e.end.character = 0
    /\ LineIsBlank(Edited(t, SelectSeq(edits, LAMBDA f : f.i >= e.j)), e.end.line)

(* where the text that a completion inserts ends *)
CursorAfter(edits, t) ==
    LET k == CHOOSE n \in DOMAIN edits : edits[n].dot
        before == SelectSeq(edits, LAMBDA e : e.i < edits[k].i)
    IN  edits[k].i + Len(edits[k].s) + FoldLeft(LAMBDA n, e : n + Len(e.s) - (e.j - e.i), 0, before)
=============================================================================
