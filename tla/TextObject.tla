----------------------------- MODULE TextObject -----------------------------
(***************************************************************************)
(* Vim-like text objects (src/src/dot/text_object.rs) and the searches for *)
(* simple patterns they are made of (src/src/dot/find.rs): how the user's  *)
(* selection is set, extended forward and extended backward.               *)
(*                                                                         *)
(* A selection here is a dot together with sa, the start_active flag of a  *)
(* Range: which of its ends the next movement moves.  A cursor counts as a *)
(* range whose end is active, as in Dot::as_range.  Subtraction wraps, as  *)
(* it does in a release build, to Huge.                                    *)
(***************************************************************************)
EXTENDS Buffer

CONSTANTS
    CharKind,   \* Word, Punctuation or Whitespace, for each character
    CharWidth,  \* the cells a character other than a tab takes on the screen
    Tab,        \* the tab character
    TabStop,    \* configured width of a tab
    Delimiters, \* pairs that a double click expands to, in order of preference
    FileChars,  \* what names of files are made of, the colon included
    Colon,      \* what separates a file's name from an address in it
    Files       \* the names of the files there are

ASSUME TextObjectAssumption ==
    /\ CharKind \in [Char -> {"Word", "Punctuation", "Whitespace"}]
    /\ CharWidth \in [Char -> 1..2]
    /\ TabStop \in 1..8

Huge == 1000000     \* 2^64 - 1, and what lies close to it

----------------------------------------------------------------------------
(* Lines and columns.                                                       *)

NewlinesBefore(t, i) == { k \in 0..i - 1 : t[k + 1] = NL }

LenLines(t) == Cardinality(NewlinesBefore(t, Len(t))) + 1

NoIdx == -1

(* try_char_to_line; the end of the text counts as part of the last line *)
CharToLine(t, i) == IF i > Len(t) THEN NoIdx ELSE Cardinality(NewlinesBefore(t, i))

LineToChar(t, y) ==
    CASE y >= LenLines(t)           -> NoIdx
      [] y = 0                      -> 0
      [] y > 0 /\ y < LenLines(t)   ->
            CHOOSE i \in 1..Len(t) : t[i] = NL /\ Cardinality(NewlinesBefore(t, i)) = y

LineStart(t, i) == LineToChar(t, CharToLine(t, i))

(* the line y, its newline included *)
LineOf(t, y) ==
    SubSeq(t, LineToChar(t, y) + 1,
           IF y + 1 < LenLines(t) THEN LineToChar(t, y + 1) ELSE Len(t))

AsYX(t, i) == [y |-> CharToLine(t, i), x |-> i - LineStart(t, i)]

FromYX(t, y, x) ==
    LET max == IF y < LenLines(t) - 1 THEN Len(LineOf(t, y)) - 1 ELSE Len(LineOf(t, y))
    IN  LineToChar(t, y) + (IF x <= max THEN x ELSE max)

(* the screen column after the character c that starts at column rx *)
NextRx(rx, c) ==
    (IF c = Tab THEN rx + (TabStop - 1) - (rx % TabStop) ELSE rx) + CharWidth[c]

RxFromX(t, y, x) ==
    IF y >= LenLines(t) THEN 0
    ELSE FoldLeft(NextRx, 0, SubSeq(LineOf(t, y), 1, IF x <= Len(LineOf(t, y)) THEN x ELSE Len(LineOf(t, y))))

(* the last column of line y that starts at or before the screen column rx *)
XFromRx(t, y, rx) ==
    LET line == SelectSeq(LineOf(t, y), LAMBDA c : c # NL)
        fit  == { n \in 1..Len(line) : FoldLeft(NextRx, 0, SubSeq(line, 1, n)) <= rx }
    IN  Cardinality(fit)

----------------------------------------------------------------------------
(* Cursor movements.  rx is the cached_rx of the buffer: the screen column  *)
(* of the cursor when it was last drawn.                                    *)

Arr(t, i, arrow, rx) ==
    LET y == CharToLine(t, i)
    IN  CASE arrow = "Up" ->
                IF y # 0 THEN LineToChar(t, y - 1) + XFromRx(t, y - 1, rx) ELSE i
          [] arrow = "Down" ->
                IF t # <<>> /\ y < LenLines(t) - 1
                THEN LineToChar(t, y + 1) + XFromRx(t, y + 1, rx) ELSE i
          [] arrow = "Left"  -> SaturatingSub(i, 1)
          [] arrow = "Right" -> IF i < Len(t) THEN i + 1 ELSE Len(t)

Flip(arrow) ==
    CASE arrow = "Up" -> "Down" [] arrow = "Down" -> "Up"
      [] arrow = "Left" -> "Right" [] arrow = "Right" -> "Left"

MoveToLineEnd(t, i) ==
    LET y == CharToLine(t, i)
        e == LineToChar(t, y) + Len(LineOf(t, y))
    IN  IF y < LenLines(t) - 1 THEN SaturatingSub(e, 1) ELSE e

----------------------------------------------------------------------------
(* Finders.  An iterator is the sequence of its (index, character) pairs;   *)
(* what is found is the pair of its ends, or nothing.                       *)

FwdIter(t, from, to) == [k \in 1..to - from |-> <<from + k - 1, t[from + k]>>]
RevIter(t, from, to) == Reverse(FwdIter(t, to, from))

Nothing == <<>>

(* a character: the first one *)
FindChar(c, it) ==
    LET k == SelectInSeq(it, LAMBDA p : p[2] = c)
    IN  IF k = 0 THEN Nothing ELSE <<it[k][1], it[k][1]>>

(* a string: a mismatch starts over at the next character, not at this one *)
FindStr(s, it) ==
    LET Step(st, p) ==
            IF st.found # Nothing THEN st
            ELSE IF p[2] # s[st.cix + 1] THEN [st EXCEPT !.cix = 0, !.start = 0]
            ELSE LET start == IF st.cix = 0 THEN p[1] ELSE st.start
                 IN  IF st.cix = Len(s) - 1 THEN [st EXCEPT !.found = <<start, p[1]>>]
                     ELSE [st EXCEPT !.cix = @ + 1, !.start = start]
    IN  FoldLeft(Step, [cix |-> 0, start |-> 0, found |-> Nothing], it).found

(* mutant: nested delimiters are not skipped *)
FindDelimitedFlat(l, r, rev, it) ==
    LET k == SelectInSeq(it, LAMBDA p : p[2] = (IF rev THEN l ELSE r))
        i == it[k][1]
    IN  IF k = 0 THEN Nothing
        ELSE IF rev THEN <<i + 1, i + 1>> ELSE IF i = 0 THEN <<Huge, Huge>> ELSE <<i - 1, i - 1>>

(* the closing delimiter, or the opening one backward, on the same level *)
FindDelimited(l, r, rev, it) ==
    LET target == IF rev THEN l ELSE r
        other  == IF rev THEN r ELSE l
        Inside(i) == IF rev THEN i + 1 ELSE IF i = 0 THEN Huge ELSE i - 1
        Step(st, p) ==
            CASE st.found # Nothing -> st
              [] st.found = Nothing /\ p[2] = other /\ target # other ->
                    [st EXCEPT !.skips = @ + 1]
              [] st.found = Nothing /\ p[2] = target /\ st.skips = 0 ->
                    [st EXCEPT !.found = <<Inside(p[1]), Inside(p[1])>>]
              [] st.found = Nothing /\ p[2] = target /\ st.skips # 0 /\ target # other ->
                    [st EXCEPT !.skips = @ - 1]
              [] OTHER -> st
    IN  FoldLeft(Step, [skips |-> 0, found |-> Nothing], it).found

(* an empty line, or wherever the text ends: position 0 if there is no text *)
FindParagraph(rev, it) ==
    LET empty == { k \in 2..Len(it) : it[k][2] = NL /\ it[k - 1][2] = NL }
        i == IF empty # {} THEN it[Min(empty)][1] + (IF rev THEN 1 ELSE 0)
             ELSE IF it = <<>> THEN 0 ELSE Last(it)[1]
    IN  <<i, i>>

(* the end of a word, or its start backward *)
FindWord(rev, it) ==
    LET K(k)   == CharKind[it[k][2]]
        skip   == IF ~rev /\ it # <<>> /\ K(1) # "Whitespace" THEN 1 ELSE 0
        Ends(k) == /\ K(k - 1) # K(k)
                   /\ K(k - 1) # "Whitespace"
        ends   == { k \in skip + 2..Len(it) : Ends(k) }
        i      == it[Min(ends)][1] + (IF rev THEN 1 ELSE -1)
    IN  IF ends = {} THEN Nothing ELSE <<i, i>>

TryFind(f, rev, it) ==
    CASE f.find = "char"      -> FindChar(f.ch, it)
      [] f.find = "str"       -> FindStr(IF rev THEN Reverse(f.s) ELSE f.s, it)
      [] f.find = "delimited" -> FindDelimited(f.l, f.r, rev, it)
      [] f.find = "paragraph" -> FindParagraph(rev, it)
      [] f.find = "word"      -> FindWord(rev, it)

FindForwardEnd(f, t, i) ==
    LET m == TryFind(f, FALSE, FwdIter(t, i, Len(t)))
    IN  IF m = Nothing THEN Len(t) ELSE IF m[1] >= m[2] THEN m[1] ELSE m[2]

(* the index of the character at a byte offset; inside a character it is    *)
(* the end of the line                                                      *)
ByteToChar(t, b) ==
    LET at   == { k \in 0..Len(t) : ByteLen(SubSeq(t, 1, k)) = b }
        ends == { k \in 0..Len(t) : (k = Len(t) \/ t[k + 1] = NL)
                                    /\ ByteLen(SubSeq(t, 1, k)) > b }
    IN  IF at # {} THEN Min(at) ELSE Min(ends)

(* rev_find_between takes the index of a character for a byte offset *)
FindBackwardStart(f, t, i) ==
    LET m == TryFind(f, TRUE, RevIter(t, ByteToChar(t, i), 0))
    IN  IF m = Nothing THEN 0 ELSE IF m[1] <= m[2] THEN m[1] ELSE m[2]

(* find_forward_wrapping, for the text of a load *)
FindForwardWrapping(t, d, s) ==
    LET after == FindStr(s, FwdIter(t, d.end, Len(t)))
    IN  IF after # Nothing THEN after ELSE FindStr(s, FwdIter(t, 0, d.end))

----------------------------------------------------------------------------
(* Selections.                                                              *)

Sel(d, sa) == [dot |-> d, sa |-> sa]
SelCur(i)  == Sel(Cur(i), FALSE)

(* Range::from_cursors, then collapse_null_range *)
SelBetween(i, j, iActive) ==
    IF i = j THEN SelCur(i) ELSE Sel(FromCursors(i, j), IF i <= j THEN iActive ELSE ~iActive)

ActiveCur(s) == IF s.sa THEN s.dot.start ELSE s.dot.end

(* Range::set_active_cursor *)
SetActiveCur(s, c) ==
    CASE IsCur(s.dot) -> SelCur(c)
      [] ~IsCur(s.dot) /\ c = s.dot.start /\ c = s.dot.end -> s
      [] ~IsCur(s.dot) /\ ~(c = s.dot.start /\ c = s.dot.end) /\ s.sa ->
            Sel(FromCursors(c, s.dot.end), c < s.dot.end)
      [] ~IsCur(s.dot) /\ ~(c = s.dot.start /\ c = s.dot.end) /\ ~s.sa ->
            Sel(FromCursors(s.dot.start, c), c <= s.dot.start)

FlipSel(s) == IF IsCur(s.dot) THEN s ELSE [s EXCEPT !.sa = ~@]

(* Find::expand: outward from both ends *)
Expand(f, t, s) ==
    SelBetween(FindBackwardStart(f, t, s.dot.start), FindForwardEnd(f, t, s.dot.end), s.sa)

(* FindWord::expand; its text is not empty *)
ExpandWord(t, s) ==
    LET max    == Len(t) - 1
        K(i)   == CharKind[t[i + 1]]
        start  == IF s.dot.start <= max THEN s.dot.start ELSE max
        end    == IF s.dot.end <= max THEN s.dot.end ELSE max
        blank  == { i \in start..max : \A j \in start..i : K(j) = "Whitespace" }
        hitEnd == start + Cardinality(blank) >= max
        start1 == CASE start = 0 -> 0
                    [] start > 0 /\ K(start) # "Whitespace" /\ K(start - 1) = "Whitespace" -> start
                    [] start > 0 /\ K(start) = "Whitespace" /\ start < max ->
                            IF hitEnd THEN max ELSE start + Cardinality(blank)
                    [] OTHER -> FindBackwardStart([find |-> "word"], t, start)
        end1   == IF start > 0 /\ K(start) = "Whitespace" /\ start < max /\ hitEnd THEN max ELSE end
        end2   == IF end1 >= max \/ (K(end1) # "Whitespace" /\ K(end1 + 1) = "Whitespace")
                  THEN end1 ELSE FindForwardEnd([find |-> "word"], t, end1)
    IN  SelBetween(start1, end2, s.sa)

(* TextObject::as_dot *)
AsDot(obj, t, s, rx) ==
    LET c == ActiveCur(s)
    IN  CASE obj.obj = "Arr"         -> SelCur(Arr(t, c, obj.arrow, rx))
          [] obj.obj = "BufferEnd"   -> SelCur(Len(t))
          [] obj.obj = "BufferStart" -> SelCur(0)
          [] obj.obj = "Character"   -> SelCur(Arr(t, c, "Right", rx))
          [] obj.obj = "FindChar"    -> SelCur(FindForwardEnd(obj.f, t, c))
          [] obj.obj = "Delimited"   -> Expand(obj.f, t, s)
          [] obj.obj = "LineEnd"     -> SelCur(MoveToLineEnd(t, c))
          [] obj.obj = "LineStart"   -> SelCur(LineStart(t, c))
          [] obj.obj = "Line"        ->
                SelBetween(LineStart(t, s.dot.start), MoveToLineEnd(t, s.dot.end), s.sa)
          [] obj.obj = "Paragraph"   -> Expand(obj.f, t, s)
          [] obj.obj = "Word"        -> ExpandWord(t, s)

(* the characters next to i in one direction that are all in S *)
RunForward(t, i, S)  == { k \in i..Len(t) - 1 : \A j \in i..k : t[j + 1] \in S }
RunBackward(t, i, S) == { k \in 0..i - 1 : \A j \in k..i - 1 : t[j + 1] \in S }

WordChars == { c \in Char : CharKind[c] = "Word" }

(* try_expand_known: the name of a file with the address after it, if there *)
(* is such a file.  No text of the model is a URL.                          *)
ExpandKnown(t, i) ==
    LET run    == RunForward(t, i, FileChars)
        colons == { k \in run : t[k + 1] = Colon }
        to     == IF colons # {} THEN Min(colons) ELSE Max({i} \cup run)
        back   == RunBackward(t, i, FileChars)
        from   == Min({i} \cup back)
        before == { k \in back : t[k + 1] = Colon }
        colon  == IF colons # {} THEN Min(colons) ELSE IF before # {} THEN Max(before) ELSE NoIdx
        addr   == RunForward(t, colon + 1, { c \in Char : CharKind[c] # "Whitespace" })
        end    == IF colon # NoIdx THEN colon + Cardinality(addr) ELSE to
        text   == SubSeq(t, from + 1, IF end < Len(t) THEN end + 1 ELSE Len(t))
        name   == SelectInSeq(text, LAMBDA c : c = Colon)
    IN  IF (IF name = 0 THEN text ELSE SubSeq(text, 1, name - 1)) \in Files
        THEN <<from, end>> ELSE Nothing

(* expand_cur_dot: a file, or else the alphanumeric characters on each side *)
ExpandCurDot(t, s) ==
    LET i == s.dot.start
        known == ExpandKnown(t, i)
    IN  CASE ~IsCur(s.dot) -> s
          [] IsCur(s.dot) /\ known # Nothing -> Sel(FromCursors(known[1], known[2]), FALSE)
          [] IsCur(s.dot) /\ known = Nothing ->
                Sel(FromCursors(Min({i} \cup RunBackward(t, i, WordChars)),
                                Max({i} \cup RunForward(t, i, WordChars))), FALSE)

(* try_expand_delimited: a double click next to a delimiter *)
ExpandDelimited(t, s) ==
    LET i == s.dot.start
        k == SelectInSeq(Delimiters, LAMBDA p : (i > 0 /\ t[i] = p[1])
                                                \/ (i + 1 < Len(t) /\ t[i + 2] = p[2]))
    IN  CASE ~IsCur(s.dot) -> s
          [] IsCur(s.dot) /\ k # 0 ->
                Expand([find |-> "delimited", l |-> Delimiters[k][1], r |-> Delimiters[k][2]], t, s)
          [] IsCur(s.dot) /\ k = 0 -> ExpandCurDot(t, s)

(* where extend_dot_forward moves an end to *)
Forward(obj, t, i, rx) ==
    CASE obj.obj = "Character" -> Arr(t, i, "Right", rx)
      [] obj.obj = "Line"      -> Arr(t, i, "Down", rx)
      [] obj.obj = "LineEnd"   -> MoveToLineEnd(t, i)
      [] obj.obj = "LineStart" -> LineStart(t, i)
      [] obj.obj \in {"FindChar", "Paragraph", "Word"} -> FindForwardEnd(obj.f, t, i)

Backward(obj, t, i, rx) ==
    CASE obj.obj = "Character" -> Arr(t, i, "Left", rx)
      [] obj.obj = "Line"      -> Arr(t, i, "Up", rx)
      [] obj.obj = "LineEnd"   -> MoveToLineEnd(t, i)
      [] obj.obj = "LineStart" -> LineStart(t, i)
      [] obj.obj \in {"FindChar", "Paragraph", "Word"} -> FindBackwardStart(obj.f, t, i)

ExtendDotForward(obj, t, s, rx) ==
    LET start == s.dot.start
        end   == s.dot.end
    IN  CASE obj.obj = "Arr"       -> SelBetween(start, Arr(t, end, obj.arrow, rx), s.sa)
          [] obj.obj = "BufferEnd" -> SelBetween(IF s.sa THEN end ELSE start, Len(t), s.sa)
          [] obj.obj \in {"BufferStart", "Delimited"} -> s
          [] OTHER -> IF s.sa THEN SelBetween(Forward(obj, t, start, rx), end, s.sa)
                              ELSE SelBetween(start, Forward(obj, t, end, rx), s.sa)

ExtendDotBackward(obj, t, s, rx) ==
    LET start == s.dot.start
        end   == s.dot.end
    IN  CASE obj.obj = "Arr" -> SelBetween(Arr(t, start, Flip(obj.arrow), rx), end, s.sa)
          [] obj.obj = "BufferStart" -> SelBetween(0, IF s.sa THEN end ELSE start, s.sa)
          [] obj.obj \in {"BufferEnd", "Delimited"} -> s
          [] OTHER -> IF s.sa THEN SelBetween(Backward(obj, t, start, rx), end, s.sa)
                              ELSE SelBetween(start, Backward(obj, t, end, rx), s.sa)
=============================================================================
