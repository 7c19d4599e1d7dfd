-------------------------------- MODULE Exec --------------------------------
(***************************************************************************)
(* Edit programs (src/src/exec/mod.rs) and the selection they start from:  *)
(* a buffer, in a window of Rows by Cols cells, whose user moves the       *)
(* selection with text objects, addresses, searches and clicks, undoes,    *)
(* and runs programs such as `,x/re/ c/text/`.                             *)
(*                                                                         *)
(* A program is an address, the pattern of its loop (none: the selection   *)
(* is the only match) and the actions on each match.  The engine that      *)
(* produces the matches is a library (structex); patterns are literal.     *)
(***************************************************************************)
EXTENDS Addr

CONSTANTS
    Objects,    \* the text objects
    Counts,     \* how often a movement is repeated
    Inputs,     \* what is typed as an address, letter by letter
    Needles,    \* the strings that are searched for
    Programs,   \* the edit programs
    Matched,    \* stands for the matched text, {0}, in a template
    PipeOut,    \* what a command makes of the text piped through it
    Rows, Cols, \* the cells of the window
    MaxRuns     \* bound: transactions in the log

ASSUME ExecAssumption ==
    /\ Matched \notin Char
    /\ Rows \in Nat \ {0}
    /\ Cols \in 5..100      \* MIN_DIM

VARIABLES
    sa,     \* start_active of the selection
    view    \* the View: the first row and column that are shown

evars == <<buf, disk, base, ahead, scene, sa, view>>

TheSel == Sel(buf.dot, sa)

----------------------------------------------------------------------------
(* Programs.                                                                *)

CharToByte(t, i) == ByteLen(SubSeq(t, 1, i))

(* external: the matches of a literal between two characters, left to right *)
Captures(t, from, to, pat) ==
    LET Step(acc, i) ==
            IF i >= acc.next /\ Occurs(t, pat, i) /\ i + Len(pat) <= to
            THEN [next |-> i + Len(pat),
                  ms   |-> Append(acc.ms, <<CharToByte(t, i), CharToByte(t, i + Len(pat))>>)]
            ELSE acc
    IN  IF pat = <<>> THEN << <<CharToByte(t, from), CharToByte(t, to)>> >>
        ELSE FoldLeft(Step, [next |-> from, ms |-> <<>>], [k \in 1..to - from + 1 |-> from + k - 1]).ms

Slice(t, cap) == SubSeq(t, ByteToChar(t, cap[1]) + 1, ByteToChar(t, cap[2]))

(* external: a template with {0} for the match *)
Render(arg, m) == FlattenSeq([k \in 1..Len(arg) |-> IF arg[k] = Matched THEN m ELSE <<arg[k]>>])

EdInsert(from, s)      == [ed |-> "Insert", from |-> from, to |-> from, s |-> s]
EdRemove(from, to)     == [ed |-> "Remove", from |-> from, to |-> to, s |-> <<>>]
EdReplace(from, to, s) == [ed |-> "Replace", from |-> from, to |-> to, s |-> s]

RunsCommand(act) == act.tag \in {"$", ">", "<", "|"}

(* the edits that an action makes of a match; p, $ and > only write output *)
EditsOf(t, cap, act) ==
    LET m == Slice(t, cap)
    IN  CASE act.tag \in {"p", "$", ">"} -> <<>>
          [] act.tag = "d" -> <<EdRemove(cap[1], cap[2])>>
          [] act.tag = "c" -> <<EdReplace(cap[1], cap[2], Render(act.arg, m))>>
          [] act.tag = "i" -> <<EdInsert(cap[1], Render(act.arg, m))>>
          [] act.tag = "a" -> <<EdInsert(cap[2], Render(act.arg, m))>>
          [] act.tag = "<" -> <<EdReplace(cap[1], cap[2], act.arg)>>
          [] act.tag = "|" -> <<EdReplace(cap[1], cap[2], PipeOut[m])>>

(* gather_actions: the command number fails, if any, ends it *)
Gather(t, caps, acts, fails) ==
    LET all   == FlattenSeq([k \in 1..Len(caps) |-> [j \in 1..Len(acts) |-> <<caps[k], acts[j]>>]])
        runs  == SelectSeq(all, LAMBDA p : RunsCommand(p[2]))
    IN  [ok    |-> fails = 0 \/ fails > Len(runs),
         edits |-> FlattenSeq([k \in 1..Len(all) |-> EditsOf(t, all[k][1], all[k][2])])]

(* the Edit trait of Buffer *)
BufInsert(b, i, s) == HandleInsert([b EXCEPT !.dot = Cur(i)], s, FALSE)
BufRemove(b, i, j) ==
    IF i = j THEN b
    ELSE HandleDelete([b EXCEPT !.dot = CollapseNullRange(FromCursors(i, SaturatingSub(j, 1)))])

ApplyRemove(b, e) == BufRemove(b, ByteToChar(b.txt, e.from), ByteToChar(b.txt, e.to))
ApplyInsert(b, e) == BufInsert(b, ByteToChar(b.txt, e.from), e.s)

(* EditAction::apply *)
Apply(b, e) ==
    CASE e.ed = "Insert"  -> ApplyInsert(b, e)
      [] e.ed = "Remove"  -> ApplyRemove(b, e)
      [] e.ed = "Replace" -> ApplyInsert(ApplyRemove(b, e), e)

(* what apply returns; the length of what is replaced is in bytes *)
Delta(b, e) ==
    CASE e.ed = "Insert"  -> Len(e.s)
      [] e.ed = "Remove"  -> ByteToChar(b.txt, e.from) - ByteToChar(b.txt, e.to)
      [] e.ed = "Replace" -> Len(e.s) - (e.to - e.from)

(* EditAction::as_dot *)
EditDot(b, e) ==
    LET from == ByteToChar(b.txt, e.from)
    IN  IF e.ed = "Remove" THEN FromCursors(from, from)
        ELSE FromCursors(from, Wrap(from + Len(e.s) - 1))

Min2(i, j) == IF i <= j THEN i ELSE j

(* the last edit, then the others backward with what they add up to *)
ApplyEdits(b, edits) ==
    LET Step(acc, e) == [buf |-> Apply(acc.buf, e), delta |-> acc.delta + Delta(acc.buf, e)]
    IN  FoldLeft(Step, [buf |-> Apply(b, Last(edits)), delta |-> 0], Reverse(Front(edits)))

NewTx(b) == [b EXCEPT !.log = NewTransaction(@)]

(* the selection after the edits: e, of the last one, moved by their sum *)
MovedDot(b, e, delta) ==
    FromCursors(Min2(Wrap(e.start + delta), Len(b.txt)), Min2(Wrap(e.end + delta), Len(b.txt)))

(* the part of execute after the actions have been gathered *)
EditProgram(b, d, edits) ==
    LET Done(r) == [NewTx(r.buf) EXCEPT !.dot = MovedDot(r.buf, EditDot(b, Last(edits)), r.delta)]
    IN  IF edits = <<>> THEN [NewTx(b) EXCEPT !.dot = MovedDot(b, d, 0)] ELSE Done(ApplyEdits(NewTx(b), edits))

(* the selection a program starts from, or an error of its address *)
DotOrError(a, t, s) ==
    CASE a.ok -> [ok |-> TRUE, sel |-> MapAddr(t, a.v, s)]
      [] ~a.ok /\ a.v = "NotAnAddress" -> [ok |-> TRUE, sel |-> s]
      [] ~a.ok /\ a.v # "NotAnAddress" -> [ok |-> FALSE, sel |-> s]
ProgramDot(prog, t, s) == DotOrError(ParseAddr(prog.in), t, s)

ProgramEdits(prog, t, d, fails) ==
    Gather(t, Captures(t, d.start, Min2(d.end + 1, Len(t)), prog.pat), prog.acts, fails)

Ran(b, s, ok) == [buf |-> b, sel |-> s, ok |-> ok]
RanTo(b)      == Ran(b, Sel(b.dot, FALSE), TRUE)

(* mutant: a failing command ends the program after the edits before it *)
ExecuteGatheredEager(b, s, d, g) ==
    [RanTo(EditProgram(b, d, g.edits)) EXCEPT !.ok = g.ok]

(* Program::execute: nothing is edited if a command failed *)
ExecuteGathered(b, s, d, g) ==
    IF g.ok THEN RanTo(EditProgram(b, d, g.edits)) ELSE Ran(b, s, FALSE)

ExecuteFrom(b, s, prog, p, fails) ==
    CASE ~p.ok -> Ran(b, s, FALSE)
      [] p.ok /\ prog.acts = <<>> -> Ran([b EXCEPT !.dot = p.sel.dot], p.sel, TRUE)
      [] p.ok /\ prog.acts # <<>> ->
            ExecuteGathered(b, s, p.sel.dot, ProgramEdits(prog, b.txt, p.sel.dot, fails))

(* execute_edit_command *)
Execute(b, s, prog, fails) == ExecuteFrom(b, s, prog, ProgramDot(prog, b.txt, s), fails)

----------------------------------------------------------------------------
(* The window.                                                              *)

NDigits(n) == IF n < 10 THEN 1 ELSE 2
SignCol(t) == NDigits(LenLines(t)) + 2

RxOf(t, i) == RxFromX(t, AsYX(t, i).y, AsYX(t, i).x)

(* View::clamp_scroll, for the active cursor i *)
ClampScroll(t, v, i) ==
    LET y  == AsYX(t, i).y
        rx == RxOf(t, i)
        r1 == IF y < v.row THEN y ELSE v.row
        c1 == IF rx < v.col THEN rx ELSE v.col
    IN  [row |-> IF y >= r1 + Rows THEN y + 1 - Rows ELSE r1,
         col |-> IF rx >= c1 + Cols - SignCol(t) THEN rx + SignCol(t) + 1 - Cols ELSE c1]

(* View::set_viewport *)
ViewPort(t, v, i, vp) ==
    LET y == AsYX(t, i).y
    IN  ClampScroll(t, [v EXCEPT !.row = CASE vp = "Top"    -> y
                                           [] vp = "Center" -> SaturatingSub(y, Rows \div 2)
                                           [] vp = "Bottom" -> SaturatingSub(y, Rows)], i)

(* View::ui_xy: the cell of the window that the cursor i is drawn in *)
UiXY(t, v, i) == [x |-> RxOf(t, i) - v.col + SignCol(t), y |-> AsYX(t, i).y - v.row]

(* cur_from_screen_coords: a click at (x, y), both counted from 1, in a     *)
(* window at the top left of the screen                                     *)
CurFromScreen(t, v, x, y) ==
    LET rx  == SaturatingSub(SaturatingSub(x, 1), SignCol(t))
        row == SaturatingSub(Min2(y + v.row, LenLines(t)), 1)
    IN  Min2(FromYX(t, row, IF t = <<>> THEN 0 ELSE XFromRx(t, row, rx)), Len(t))

----------------------------------------------------------------------------
(* Actions: the buffer becomes b with the selection s, and is drawn.        *)

Rendered(b, s) ==
    /\ Bounded(b)
    /\ buf' = [b EXCEPT !.dot = s.dot]
    /\ sa' = s.sa
    /\ view' = ClampScroll(b.txt, view, ActiveCur(s))

(* Buffer::set_dot: a selection ends where the text does *)
ClampSel(s) == Sel(ClampIdx(s.dot, Len(buf.txt)), s.sa)

Selected(s) ==
    /\ Rendered(buf, ClampSel(s))
    /\ UNCHANGED <<disk, base, ahead, scene>>

(* The column that a vertical movement keeps is the one of the last drawing.*)
CachedRx == RxOf(buf.txt, ActiveCur(TheSel))

(* Action::DotSet, DotExtendForward and DotExtendBackward with a count *)
DotSet(obj, n) ==
    /\ ~(obj.obj = "Word" /\ buf.txt = <<>>)
    /\ Selected(FoldLeft(LAMBDA s, k : AsDot(obj, buf.txt, s, CachedRx),
                         TheSel, [k \in 1..n |-> k]))
DotExtendForward(obj, n) ==
    Selected(FoldLeft(LAMBDA s, k : ExtendDotForward(obj, buf.txt, s, CachedRx),
                      TheSel, [k \in 1..n |-> k]))
DotExtendBackward(obj, n) ==
    Selected(FoldLeft(LAMBDA s, k : ExtendDotBackward(obj, buf.txt, s, CachedRx),
                      TheSel, [k \in 1..n |-> k]))

DotFlip        == Selected(FlipSel(TheSel))
DotCollapse(first) ==
    Selected(SelCur(IF first THEN buf.dot.start ELSE buf.dot.end))
ExpandDot      == Selected(ExpandCurDot(buf.txt, TheSel))
ExpandClick    == Selected(ExpandDelimited(buf.txt, TheSel))

(* a client writes the addr file, or a file is loaded at an address *)
SetAddrFrom(in) ==
    LET To(a) == a.ok /\ Selected(MapAddr(buf.txt, a.v, TheSel)) IN To(ParseAddr(in))

(* Buffer::find_forward *)
FindForward(s) ==
    LET To(m) == /\ m # Nothing
                 /\ Selected(IF m[1] = m[2] THEN SelCur(m[1]) ELSE SelFrom(m[1], m[2]))
    IN  To(FindForwardWrapping(buf.txt, buf.dot, s))

(* a press sets the selection, a drag its active end *)
Click(x, y) == Selected(SelCur(CurFromScreen(buf.txt, view, x, y)))
Drag(x, y)  == Selected(SetActiveCur(TheSel, CurFromScreen(buf.txt, view, x, y)))

SetViewPort(vp) ==
    /\ view' = ViewPort(buf.txt, view, ActiveCur(TheSel), vp)
    /\ UNCHANGED <<buf, disk, base, ahead, scene, sa>>

EditedTo(b, s) ==
    /\ Len(buf.log.edits) + Len(buf.log.undone) < MaxRuns
    /\ Rendered(b, s)
    /\ ahead' = IF b.log = buf.log THEN ahead ELSE b.txt
    /\ UNCHANGED <<disk, base, scene>>

UndoEdit ==
    LET To(b) == Rendered(b, Sel(b.dot, sa /\ ~IsCur(b.dot)))
    IN  /\ To(HandleUndo(buf))
        /\ UNCHANGED <<disk, base, ahead, scene>>

RunProgram(prog, fails) ==
    LET To(r) == EditedTo(r.buf, r.sel) IN To(Execute(buf, TheSel, prog, fails))

ExecInit ==
    /\ Init
    /\ sa = FALSE
    /\ view = [row |-> 0, col |-> 0]

ExecNext ==
    \/ \E obj \in Objects, n \in Counts : DotSet(obj, n)
    \/ \E obj \in Objects, n \in Counts : DotExtendForward(obj, n)
    \/ \E obj \in Objects, n \in Counts : DotExtendBackward(obj, n)
    \/ DotFlip
    \/ \E first \in BOOLEAN : DotCollapse(first)
    \/ ExpandDot
    \/ ExpandClick
    \/ \E in \in Inputs : SetAddrFrom(in)
    \/ \E s \in Needles : FindForward(s)
    \/ \E x \in 1..Cols, y \in 1..Rows : Click(x, y)
    \/ \E x \in 1..Cols, y \in 1..Rows : Drag(x, y)
    \/ \E vp \in {"Top", "Center", "Bottom"} : SetViewPort(vp)
    \/ UndoEdit
    \/ \E prog \in Programs, fails \in 0..1 : RunProgram(prog, fails)

(* what tells two states apart, but for what the log holds *)
ExecView == <<buf.txt, buf.dot, sa, view, Len(buf.log.edits), Len(buf.log.undone)>>

ExecSpec == ExecInit /\ [][ExecNext]_evars

----------------------------------------------------------------------------
(* The selection is one of the text: its ends are ordered and at most its   *)
(* length, whatever sequence of movements, clicks, addresses and programs   *)
(* made it, and a cursor has its end active.                                *)
SelectionOK ==
    /\ buf.dot \in DotType
    /\ InBounds(buf.dot, Len(buf.txt))
    /\ IsCur(buf.dot) => buf.dot.start = buf.dot.end /\ ~sa
    /\ view \in [row : Nat, col : Nat]

(* The active end of the selection is drawn: clamp_scroll after every       *)
(* action brings its line and its screen column into the window.            *)
CursorVisible ==
    LET i == ActiveCur(TheSel)
    IN  /\ AsYX(buf.txt, i).y \in view.row..view.row + Rows - 1
        /\ RxOf(buf.txt, i) \in view.col..view.col + Cols - SignCol(buf.txt) - 1

ClickBack(v) ==
    LET p == UiXY(buf.txt, v, ActiveCur(TheSel))
    IN  CurFromScreen(buf.txt, v, p.x + 1, p.y + 1) = ActiveCur(TheSel)
(* A click on the cell that the cursor is drawn in (View::ui_xy) leaves the *)
(* cursor where it is, tabs and wide characters included                    *)
(* (cur_from_screen_coords), in a window that is not scrolled sideways.     *)
ClickExact == view.col = 0 => ClickBack(view)

(* The same in any window.                                                  *)
ClickExactScrolled == ClickBack(view)

Extended(f, obj) ==
    IF f THEN ExtendDotForward(obj, buf.txt, TheSel, CachedRx)
         ELSE ExtendDotBackward(obj, buf.txt, TheSel, CachedRx)
Anchor(s) == IF s.sa THEN s.dot.end ELSE s.dot.start
(* Extending a selection moves its active end and keeps the other, which    *)
(* end that is before and after included (Range::from_cursors and           *)
(* set_active_cursor).                                                      *)
KeepsAnchor(objs) ==
    \A obj \in objs, f \in BOOLEAN :
        LET r == Extended(f, obj)
        IN  r.dot = Cur(Anchor(TheSel)) \/ (~IsCur(r.dot) /\ Anchor(r) = Anchor(TheSel))
            \/ r = TheSel
AnchorKept ==
    /\ KeepsAnchor({ o \in Objects : o.obj \notin {"Arr", "BufferEnd", "BufferStart"} })
    /\ ~IsCur(buf.dot) => \A c \in 0..Len(buf.txt) :
            LET r == SetActiveCur(TheSel, c)
            IN  c # Anchor(TheSel) => ActiveCur(r) = c /\ Anchor(r) = Anchor(TheSel)

(* The same for every text object.                                          *)
AnchorAlwaysKept == KeepsAnchor(Objects)

(* Extending forward never moves the active end back, nor backward forward. *)
Directed(objs) ==
    \A obj \in objs :
        /\ obj.obj \notin {"LineStart", "Arr"} =>
                ActiveCur(Extended(TRUE, obj)) >= ActiveCur(TheSel)
        /\ obj.obj \notin {"LineEnd", "Arr"} =>
                ActiveCur(Extended(FALSE, obj)) <= ActiveCur(TheSel)
ExtendsDirected ==
    Directed({ o \in Objects : o.obj \notin {"Paragraph", "BufferEnd", "BufferStart"} })

(* The same for paragraphs.                                                 *)
ParagraphsDirected == Directed({ o \in Objects : o.obj = "Paragraph" })

(* the word, or run of punctuation, around i *)
RunAround(t, i) ==
    LET S == { c \in Char : CharKind[c] = CharKind[t[i + 1]] }
    IN  SelBetween(Min({i} \cup RunBackward(t, i, S)), Max({i} \cup RunForward(t, i, S)), FALSE)
(* The word text object on a word selects that word, if a blank follows it  *)
(* and a blank or nothing precedes it (FindWord::expand).                   *)
WordExact ==
    \A i \in 0..Len(buf.txt) - 1 :
        LET r == RunAround(buf.txt, i)
            Blank(k) == k \in 0..Len(buf.txt) - 1 /\ CharKind[buf.txt[k + 1]] = "Whitespace"
        IN  (/\ CharKind[buf.txt[i + 1]] = "Word"
             /\ r.dot.start = 0 \/ Blank(r.dot.start - 1)
             /\ Blank(r.dot.end + 1))
            => ExpandWord(buf.txt, SelCur(i)) = r

Depth(t, l, r, i, j) ==
    Cardinality({ k \in i..j : t[k + 1] = l }) - Cardinality({ k \in i..j : t[k + 1] = r })
(* A delimited text object selects what is between the nearest delimiters   *)
(* around the cursor: inside, every closing delimiter has its opening one   *)
(* (FindDelimited::try_find).                                               *)
DelimitedInside ==
    \A obj \in { o \in Objects : o.obj = "Delimited" }, i \in 0..Len(buf.txt) - 1 :
        LET t == buf.txt
            d == Expand(obj.f, t, SelCur(i)).dot
        IN  (/\ obj.f.l # obj.f.r
             /\ t[i + 1] \notin {obj.f.l, obj.f.r}
             /\ d.start > 0
             /\ d.end < Len(t) - 1)
            => /\ t[d.start] = obj.f.l
               /\ t[d.end + 2] = obj.f.r
               /\ Depth(t, obj.f.l, obj.f.r, d.start, d.end) = 0

(* A search finds the text that is searched for (the &str finder).          *)
FindIsOccurrence ==
    \A s \in Needles :
        LET m == FindForwardWrapping(buf.txt, buf.dot, s)
        IN  m # Nothing => SubSeq(buf.txt, m[1] + 1, m[2] + 1) = s

(* Selecting is exact in every text and window that edits lead to: the      *)
(* selection stays in the text, its active end is drawn and is where a      *)
(* click on it goes, extending keeps the other end, and words, delimited    *)
(* text and searches select what they name.                                 *)
SelectionsExact ==
    /\ SelectionOK
    /\ CursorVisible
    /\ ClickExact
    /\ AnchorKept
    /\ ExtendsDirected
    /\ WordExact
    /\ DelimitedInside
    /\ FindIsOccurrence

(* A search finds the text if it is there.                                  *)
FindsEveryText ==
    \A s \in Needles :
        (\E i \in 0..Len(buf.txt) : Occurs(buf.txt, s, i))
        => FindForwardWrapping(buf.txt, buf.dot, s) # Nothing

----------------------------------------------------------------------------
(* What is read from the addr file of a buffer selects, written back to it, *)
(* the same text again: Dot::addr and Addr::from_dot count from 1 and from  *)
(* 0, the parser and map_addr go the other way.                             *)
AddrReadsBack ==
    \A d \in Dots(0..Len(buf.txt)) :
        /\ ParseAddr(DotAddr(buf.txt, d)) = Ok(FromDot(buf.txt, d), Len(DotAddr(buf.txt, d)) + 1)
        /\ MapAddr(buf.txt, FromDot(buf.txt, d), TheSel).dot = d

(* A line number selects that line with its newline (full_line).            *)
LineAddrs(ys) ==
    \A y \in ys :
        Content([buf EXCEPT !.dot = MapAddr(buf.txt, Simple(<<BaseN("Line", y)>>), TheSel).dot])
        = [k \in 0..Len(LineOf(buf.txt, y)) - 1 |-> LineOf(buf.txt, y)[k + 1]]
LineAddrExact == LineAddrs({ y \in 0..LenLines(buf.txt) - 1 : y < LenLines(buf.txt) - 1 })

(* So does the number of a last line that has no newline.                   *)
LastLineAddrExact == LineAddrs({ y \in 0..LenLines(buf.txt) - 1 : LineOf(buf.txt, y) # <<>> })

SearchAddrs(tag) ==
    { a \in { ParseAddr(in) : in \in Inputs } :
        a.ok /\ a.v.addr = "Simple" /\ a.v.a[1].base = tag /\ Len(a.v.a) = 1 }
(* An address that searches backward selects the last match that ends       *)
(* before the selection, and one that searches forward the first one from   *)
(* the last character of the selection on.                                  *)
SearchAddrExact ==
    /\ \A a \in SearchAddrs("RegexBack") :
          LET re == a.v.a[1].re
              d  == MapAddr(buf.txt, a.v, TheSel).dot
              before == { i \in 0..Len(buf.txt) :
                            Occurs(buf.txt, re, i) /\ i + Len(re) <= buf.dot.start }
          IN  before # {} => d.start = Max(before) /\ NChars(d) = Len(re)
    /\ \A a \in SearchAddrs("Regex") :
          LET re == a.v.a[1].re
              d  == MapAddr(buf.txt, a.v, TheSel).dot
              after == { i \in buf.dot.end..Len(buf.txt) : Occurs(buf.txt, re, i) }
          IN  after # {} => d.start = Min(after) /\ NChars(d) = Len(re)

(* An address means one text: it is printed and parsed back to itself, a    *)
(* line number is that line, and searching backward and forward goes to the *)
(* nearest match (Addr::parse, map_addr, Dot::addr).                        *)
AddrsExact ==
    /\ AddrReadsBack
    /\ LineAddrExact
    /\ SearchAddrExact

(* An address that counts characters back does not end up further on.       *)
BackIsBack ==
    \A in \in Inputs :
        LET a == ParseAddr(in)
        IN  (a.ok /\ a.v.addr = "Simple" /\ Len(a.v.a) = 1 /\ a.v.a[1].base = "RelativeChar"
             /\ a.v.a[1].n < 0)
            => MapAddr(buf.txt, a.v, TheSel).dot.start <= ActiveCur(TheSel)

----------------------------------------------------------------------------
Run(prog, fails) == Execute(buf, TheSel, prog, fails)
CapturesIn(prog, d) == Captures(buf.txt, d.start, Min2(d.end + 1, Len(buf.txt)), prog.pat)
CapturesOf(prog) == CapturesIn(prog, ProgramDot(prog, buf.txt, TheSel).sel.dot)
EditsFor(prog)   == Gather(buf.txt, CapturesOf(prog), prog.acts, 0).edits

Edits2(acts) == { k \in DOMAIN acts : acts[k].tag \in {"d", "c", "<", "|"} }
(* insertions before, one change, insertions after *)
Ordered(acts) ==
    /\ Cardinality(Edits2(acts)) <= 1
    /\ \A j, k \in DOMAIN acts :
            (acts[j].tag = "a" /\ acts[k].tag \in {"i", "d", "c", "<", "|"}) => k < j
    /\ \A j, k \in DOMAIN acts : (acts[j].tag = "i" /\ k \in Edits2(acts)) => j < k

Joined(acts, tag, m) ==
    FlattenSeq([k \in 1..Len(acts) |-> IF acts[k].tag = tag THEN Render(acts[k].arg, m) ELSE <<>>])
Changed(act, m) ==
    CASE act.tag = "d" -> <<>>
      [] act.tag = "c" -> Render(act.arg, m)
      [] act.tag = "<" -> act.arg
      [] act.tag = "|" -> PipeOut[m]
Substituted(acts, m) ==
    Joined(acts, "i", m)
    \o (IF Edits2(acts) = {} THEN m ELSE Changed(acts[Min(Edits2(acts))], m))
    \o Joined(acts, "a", m)

(* the text with every match replaced at once *)
AllSubstituted(t, caps, acts) ==
    LET Step(acc, cap) ==
            [pos |-> ByteToChar(t, cap[2]),
             txt |-> acc.txt \o SubSeq(t, acc.pos + 1, ByteToChar(t, cap[1]))
                     \o Substituted(acts, Slice(t, cap))]
        Rest(r) == r.txt \o SubSeq(t, r.pos + 1, Len(t))
    IN  Rest(FoldLeft(Step, [pos |-> 0, txt |-> <<>>], caps))

Substitutes(progs) ==
    LET Same(r, t) == r.ok => r.buf.txt = t
    IN  \A prog \in progs : Same(Run(prog, 0), AllSubstituted(buf.txt, CapturesOf(prog), prog.acts))
(* A program changes every match of the original text and nothing else: the *)
(* edits of later matches, made first, do not move the earlier ones         *)
(* (Program::execute applies the edits in reverse).                         *)
ProgramsSubstitute ==
    Substitutes({ prog \in Programs : prog.acts # <<>> /\ Ordered(prog.acts) })

(* So does one whose group of actions is in another order.                  *)
GroupsSubstitute ==
    Substitutes({ prog \in Programs : prog.acts # <<>> /\ Cardinality(Edits2(prog.acts)) <= 1 })

(* in the buffer b the selection is what the edit e of the old text put there *)
ShowsEdit(b, e) ==
    LET rest == SubSeq(buf.txt, ByteToChar(buf.txt, e.to) + 1, Len(buf.txt))
    IN  IF e.ed = "Remove" THEN SubSeq(b.txt, b.dot.start + 1, Len(b.txt)) = rest
        ELSE /\ b.dot.end < Len(b.txt)
             /\ SubSeq(b.txt, b.dot.start + 1, b.dot.end + 1) = e.s
             /\ SubSeq(b.txt, b.dot.end + 2, Len(b.txt)) = rest
SelectsLast(progs) ==
    \A prog \in progs : \A edits \in {EditsFor(prog)}, r \in {Run(prog, 0)} :
        (r.ok /\ edits # <<>> /\ (Last(edits).ed = "Remove" \/ Last(edits).s # <<>>))
        => ShowsEdit(r.buf, Last(edits))
(* After a program the selection is what its last edit put into the text,   *)
(* moved by what the other edits, made after it, add and remove             *)
(* (EditAction::as_dot and the cumulative delta).                           *)
ProgramsSelectLast == SelectsLast({ prog \in Programs : prog.acts # <<>> /\ Ordered(prog.acts) })

(* The selection after a program whose last edit puts nothing into the text *)
(* is a cursor, or the character that was next to it.                       *)
EmptyEditSelects ==
    \A prog \in Programs :
        LET r == Run(prog, 0)
            e == EditsFor(prog)
        IN  (r.ok /\ e # <<>> /\ Last(e).s = <<>>)
            => NChars(r.buf.dot) <= 2

(* One undo takes back a whole program and nothing that was typed before    *)
(* it, and one redo makes it again (begin_edit_transaction and              *)
(* end_edit_transaction around the edits).                                  *)
ProgramsUndoAtOnce ==
    LET Again(b, u) == u.txt = buf.txt /\ HandleRedo(u).txt = b.txt
        AtOnce(b)   == b.txt # buf.txt => Again(b, HandleUndo(b))
    IN  \A prog \in Programs : AtOnce(Run(prog, 0).buf)

(* A program one of whose commands fails leaves the buffer, its undo log    *)
(* and the selection as they were: all of its commands run before its first *)
(* edit is made (gather_actions).                                           *)
FailureChangesNothing ==
    LET Same(r) == ~r.ok => r.buf = buf
    IN  \A prog \in Programs : Same(Run(prog, 1))

(* A program is a transaction on the text that it was started on: it        *)
(* replaces the matches of that text and nothing else, selects its last     *)
(* edit, is undone and redone at once, and changes nothing when one of its  *)
(* commands fails (Program::execute).                                       *)
ProgramsExact ==
    /\ ProgramsSubstitute
    /\ ProgramsSelectLast
    /\ ProgramsUndoAtOnce
    /\ FailureChangesNothing
=============================================================================
