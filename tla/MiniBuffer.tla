----------------------------- MODULE MiniBuffer -----------------------------
(***************************************************************************)
(* The minibuffer (src/src/editor/minibuffer.rs): a line of input, and the *)
(* lines of a list that match it, one of which is selected.                *)
(*                                                                         *)
(* Lines and the input are sequences of characters.  The lines that match  *)
(* are the text of a buffer whose cursor, idx, decides which one of them   *)
(* is selected; that buffer is never drawn by a window, so that moving up  *)
(* and down goes to the first column.                                      *)
(***************************************************************************)
EXTENDS Integers, FiniteSets, SequencesExt

CONSTANTS
    Space, NewLine,     \* characters
    Lower,              \* the lower case of the characters that have one
    MaxHeight           \* minibuffer_lines of the configuration

ASSUME MaxHeightAssumption == MaxHeight \in Nat

ToLower(s) == [i \in 1 .. Len(s) |-> IF s[i] \in DOMAIN Lower THEN Lower[s[i]] ELSE s[i]]
IsLowercase(c) == c \in { Lower[u] : u \in DOMAIN Lower }

HasFragment(line, f) ==
    \E i \in 0 .. Len(line) - Len(f) : SubSeq(line, i + 1, i + Len(f)) = f

(* the words of the input *)
Fragments(input) ==
    { SubSeq(input, p[1], p[2]) : p \in
        { p \in (1 .. Len(input)) \X (1 .. Len(input)) :
            /\ p[1] <= p[2]
            /\ \A i \in p[1] .. p[2] : input[i] # Space
            /\ p[1] = 1 \/ input[p[1] - 1] = Space
            /\ p[2] = Len(input) \/ input[p[2] + 1] = Space } }

(* a word in lower case matches in any case *)
Matches(line, input) ==
    \A f \in Fragments(input) :
        HasFragment(IF \A i \in 1 .. Len(f) : IsLowercase(f[i]) THEN ToLower(line) ELSE line, f)

Join(lines) ==
    IF lines = <<>> THEN <<>>
    ELSE Tail(FlattenSeq([i \in 1 .. Len(lines) |-> <<NewLine>> \o lines[i]]))

NewlinesIn(t, i) == Cardinality({ k \in 1 .. i : t[k] = NewLine })
NLines(t) == NewlinesIn(t, Len(t)) + 1
LineAt(t, y) == CHOOSE i \in 0 .. Len(t) :
                    NewlinesIn(t, i) = y /\ (i = 0 \/ t[i] = NewLine)

MinOf(a, b) == IF a <= b THEN a ELSE b

(* What is shown: the lines that match, MaxHeight of them at most, among    *)
(* them the selected one.                                                   *)
UpdateState(mb) ==
    LET indices == SelectSeq([i \in 1 .. Len(mb.lines) |-> i],
                             LAMBDA i : Matches(mb.lines[i], mb.input))
        txt == Join([k \in 1 .. Len(indices) |-> mb.lines[indices[k]]])
        idx == MinOf(mb.idx, Len(txt))
        y   == NewlinesIn(txt, idx)
        n   == MinOf(Len(indices), MaxHeight)
    IN  [mb EXCEPT !.indices = indices, !.txt = txt, !.idx = idx, !.y = y, !.n = n,
                   !.sel = IF n = 0 THEN 0 ELSE y,
                   !.top = IF n # 0 /\ y >= n THEN y - n + 1 ELSE 0,
                   !.bottom = IF n = 0 THEN 0 ELSE IF y >= n THEN y ELSE n - 1]

NewMiniBuffer(lines, input) ==
    UpdateState([lines |-> lines, input |-> input, cur |-> Len(input), idx |-> 0, txt |-> <<>>,
                 indices |-> <<>>, y |-> 0, n |-> 0, sel |-> 0, top |-> 0, bottom |-> 0])

NoSelection == [s |-> "None"]
Cancelled == [s |-> "Cancelled"]
UserInput(input) == [s |-> "UserInput", input |-> input]

(* mutant: the index among the lines that are shown *)
LineSelectionShown(mb) ==
    LET from == LineAt(mb.txt, mb.y)
        to   == IF mb.y + 1 < NLines(mb.txt) THEN LineAt(mb.txt, mb.y + 1) ELSE Len(mb.txt)
    IN  [s |-> "Line", cy |-> mb.y + 1, line |-> SubSeq(mb.txt, from + 1, to)]

(* the text of a line ends with its newline *)
LineSelection(mb) ==
    LET from == LineAt(mb.txt, mb.y)
        to   == IF mb.y + 1 < NLines(mb.txt) THEN LineAt(mb.txt, mb.y + 1) ELSE Len(mb.txt)
    IN  [s |-> "Line", cy |-> mb.indices[mb.y + 1], line |-> SubSeq(mb.txt, from + 1, to)]

(* down from the last line is the first one *)
Down(mb) ==
    IF mb.sel = NLines(mb.txt) - 1 THEN [mb EXCEPT !.idx = 0]
    ELSE IF NewlinesIn(mb.txt, mb.idx) >= NLines(mb.txt) - 1 THEN mb
    ELSE [mb EXCEPT !.idx = LineAt(mb.txt, NewlinesIn(mb.txt, mb.idx) + 1)]

(* up from the first line is the last one *)
Up(mb) ==
    IF mb.sel = 0 THEN [mb EXCEPT !.idx = Len(mb.txt)]
    ELSE IF NewlinesIn(mb.txt, mb.idx) = 0 THEN mb
    ELSE [mb EXCEPT !.idx = LineAt(mb.txt, NewlinesIn(mb.txt, mb.idx) - 1)]

(* Backspace and delete both move left first, and delete at the first       *)
(* column what follows.                                                     *)
Backspace(mb) ==
    LET at == IF mb.cur = 0 THEN 0 ELSE mb.cur - 1
    IN  [mb EXCEPT !.cur = at,
                   !.input = IF at < Len(@) THEN RemoveAt(@, at + 1) ELSE @]

TypeChar(mb, c) ==
    [mb EXCEPT !.cur = @ + 1,
               !.input = SubSeq(@, 1, mb.cur) \o <<c>> \o SubSeq(@, mb.cur + 1, Len(@))]

(* A key: [k |-> "Char", c |-> c] or a key by its name. *)
HandleInput(mb, i) ==
    CASE i.k = "Char"      -> TypeChar(mb, i.c)
      [] i.k = "Backspace" -> Backspace(mb)
      [] i.k = "Left"      -> [mb EXCEPT !.cur = IF @ = 0 THEN 0 ELSE @ - 1]
      [] i.k = "Right"     -> [mb EXCEPT !.cur = MinOf(@ + 1, Len(mb.input))]
      [] i.k = "Up"        -> Up(mb)
      [] i.k = "Down"      -> Down(mb)
      [] OTHER             -> mb

Selected(mb, i) ==
    CASE i.k = "Esc"    -> Cancelled
      [] i.k = "Return" -> IF mb.indices = <<>> \/ mb.y >= NLines(mb.txt)
                           THEN UserInput(mb.input) ELSE LineSelection(mb)
      [] OTHER          -> NoSelection
=============================================================================
