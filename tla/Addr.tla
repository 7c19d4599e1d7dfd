-------------------------------- MODULE Addr --------------------------------
(***************************************************************************)
(* Sam style addresses (src/src/exec/addr.rs): their parser over the       *)
(* characters of an input (src/src/parse.rs), how an address is resolved   *)
(* to a selection of a buffer, and how a selection is written as an        *)
(* address.  The regular expression of an address is a literal string.     *)
(***************************************************************************)
EXTENDS TextObject

CONSTANT ReadChar   \* the character of a text that a letter of an input stands for

Digits == <<"0", "1", "2", "3", "4", "5", "6", "7", "8", "9">>
Digit  == { Digits[d] : d \in 1..10 }
DigitOf(c) == (CHOOSE d \in 1..10 : Digits[d] = c) - 1

Base(tag)       == [base |-> tag]
BaseN(tag, n)   == [base |-> tag, n |-> n]
BaseLC(l, c)    == [base |-> "LineAndColumn", line |-> l, col |-> c]
BaseRe(tag, re) == [base |-> tag, re |-> re]

IsValidSuffix(b) ==
    b.base \in {"Bol", "Eol", "CurrentLine", "RelativeLine", "RelativeChar", "Regex", "RegexBack"}

----------------------------------------------------------------------------
(* The parser.  It works on a sequence of letters from a position p on; a   *)
(* result holds what was read and the next position, or an error.           *)

Ok(v, p)  == [ok |-> TRUE, v |-> v, p |-> p]
Err(e, p) == [ok |-> FALSE, v |-> e, p |-> p]

Eof(in, p) == p > Len(in)

(* try_parse_num *)
NumEnd(in, p) == Max({ q \in p..Len(in) : \A k \in p..q : in[k] \in Digit }) + 1
Num(in, p)    == FoldLeft(LAMBDA n, c : 10 * n + DigitOf(c), 0, SubSeq(in, p, NumEnd(in, p) - 1))

(* parse_delimited_regex: up to the next slash that is not escaped *)
ParseRegex(in, p, dir) ==
    LET ends == { q \in p + 1..Len(in) : in[q] = "/" /\ (q = p + 1 \/ in[q - 1] # "\\") }
        q    == Min(ends)
        re   == [k \in 1..q - p - 1 |-> ReadChar[in[p + k]]]
    IN  IF ends = {} THEN Err("UnclosedDelimiter", Len(in) + 1)
        ELSE Ok(BaseRe(IF dir = "Bck" THEN "RegexBack" ELSE "Regex", re), q + 1)

(* the arms of parse_base that start with a number *)
ParseLine(in, p, dir) ==
    LET q    == NumEnd(in, p)
        line == Num(in, p)
    IN  CASE line = 0 -> Err("ZeroIndexedLineOrColumn", q)
          [] line > 0 /\ ~Eof(in, q) /\ in[q] = ":" ->
               (CASE dir # "None" \/ Eof(in, q + 1) -> Err("NotAnAddress", q)
                  [] dir = "None" /\ ~Eof(in, q + 1) /\ in[q + 1] \notin Digit ->
                        Err("UnexpectedCharacter", q + 1)
                  [] dir = "None" /\ ~Eof(in, q + 1) /\ in[q + 1] \in Digit ->
                        IF Num(in, q + 1) = 0
                        THEN Err("ZeroIndexedLineOrColumn", NumEnd(in, q + 1))
                        ELSE Ok(BaseLC(line - 1, Num(in, q + 1) - 1), NumEnd(in, q + 1)))
          [] line > 0 /\ (Eof(in, q) \/ in[q] # ":") ->
                CASE dir = "None" -> Ok(BaseN("Line", line - 1), q)
                  [] dir = "Fwd"  -> Ok(BaseN("RelativeLine", line), q)
                  [] dir = "Bck"  -> Ok(BaseN("RelativeLine", -line), q)

ParseChar(in, p, dir) ==
    IF Eof(in, p + 1) \/ in[p + 1] \notin Digit THEN Err("NotAnAddress", p + 1)
    ELSE LET n == Num(in, p + 1)
         IN  Ok(CASE dir = "None" -> BaseN("Char", n)
                  [] dir = "Fwd"  -> BaseN("RelativeChar", n)
                  [] dir = "Bck"  -> BaseN("RelativeChar", -n), NumEnd(in, p + 1))

(* parse_base, after the sign dir *)
ParseUnsigned(in, p, dir) ==
    LET c == in[p]
    IN  CASE c \in {".", "0", "$"} /\ dir # "None" -> Err("NotAnAddress", p)
          [] (c = "-" /\ dir = "Fwd") \/ (c = "+" /\ dir = "Bck") -> Ok(Base("CurrentLine"), p + 1)
          [] c = "." /\ dir = "None" -> Ok(Base("Current"), p + 1)
          [] c = "0" /\ dir = "None" -> Ok(Base("Bof"), p + 1)
          [] c = "$" /\ dir = "None" -> Ok(Base("Eof"), p + 1)
          [] c = "#" -> ParseChar(in, p, dir)
          [] c \in Digit \ {"0"} -> ParseLine(in, p, dir)
          [] c = "/" -> ParseRegex(in, p, dir)
          [] OTHER -> CASE dir = "Fwd"  -> Ok(Base("Eol"), p)
                        [] dir = "Bck"  -> Ok(Base("Bol"), p)
                        [] dir = "None" -> Err("NotAnAddress", p)

ParseBase(in, p) ==
    CASE Eof(in, p) -> Err("UnexpectedEof", p)
      [] ~Eof(in, p) /\ in[p] = "-" ->
            IF Eof(in, p + 1) THEN Ok(Base("Bol"), p + 1) ELSE ParseUnsigned(in, p + 1, "Bck")
      [] ~Eof(in, p) /\ in[p] = "+" ->
            IF Eof(in, p + 1) THEN Ok(Base("Eol"), p + 1) ELSE ParseUnsigned(in, p + 1, "Fwd")
      [] ~Eof(in, p) /\ in[p] \notin {"-", "+"} -> ParseUnsigned(in, p, "None")

(* parse_simple: a base and the suffixes after it *)
ParseSimple(in, p) ==
    LET More(r) == r.ok /\ ~Eof(in, r.p) /\ in[r.p] \in {"-", "+"}
        Push(r, b) ==
            IF ~b.ok THEN b
            ELSE IF ~IsValidSuffix(b.v) THEN Err("InvalidSuffix", b.p)
            ELSE Ok(Append(r.v, b.v), b.p)
        Step(r, k) == IF More(r) THEN Push(r, ParseBase(in, r.p)) ELSE r
        First(b)   == IF b.ok THEN Ok(<<b.v>>, b.p) ELSE b
    IN  FoldLeft(Step, First(ParseBase(in, p)), [k \in 1..Len(in) |-> k])

Simple(a)      == [addr |-> "Simple", a |-> a]
Compound(a, b) == [addr |-> "Compound", a |-> a, b |-> b]

(* the part of parse after the first simple address, or after none *)
ParseTo(from, end) == IF end.ok THEN Ok(Compound(from, end.v), end.p) ELSE end
ParseRest(in, start, p) ==
    CASE Eof(in, p) \/ in[p] = " " ->
            IF start = Nothing THEN Err("NotAnAddress", p) ELSE Ok(Simple(start), p)
      [] ~Eof(in, p) /\ in[p] = "," ->
            LET from == IF start = Nothing THEN <<Base("Bof")>> ELSE start
            IN  IF Eof(in, p + 1) \/ in[p + 1] = " " THEN Ok(Compound(from, <<Base("Eof")>>), p + 1)
                ELSE ParseTo(from, ParseSimple(in, p + 1))
      [] ~Eof(in, p) /\ in[p] \notin {" ", ","} -> Err("NotAnAddress", p)

(* Addr::parse *)
ParseFrom(in, start) ==
    CASE start.ok -> ParseRest(in, start.v, start.p)
      [] ~start.ok /\ start.p = 1 /\ in # <<>> /\ in[1] = "," -> ParseRest(in, Nothing, 1)
      [] OTHER -> start
ParseAddr(in) == ParseFrom(in, ParseSimple(in, 1))

----------------------------------------------------------------------------
(* Resolving an address.  NoSel is the None of the code.                    *)

NoSel == Sel([tag |-> "None", start |-> 0, end |-> 0], FALSE)

Wrap(i) == IF i < 0 THEN Huge + i ELSE i

(* the index after the newline of the line, but before the last character   *)
(* of the last line                                                         *)
CharToLineEnd(t, i) ==
    LET y == CharToLine(t, i)
    IN  CASE y = NoIdx -> NoIdx
          [] y # NoIdx /\ y + 1 < LenLines(t) -> LineToChar(t, y + 1)
          [] y # NoIdx /\ y + 1 >= LenLines(t) -> Wrap(Len(t) - 1)

CharToLineStart(t, i) == IF CharToLine(t, i) = NoIdx THEN NoIdx ELSE LineStart(t, i)

(* Dot::from_char_indices of two ends that both exist *)
SelFrom(i, j) == IF i = NoIdx \/ j = NoIdx THEN NoSel ELSE Sel(FromCursors(i, j), i > j)

FullLine(t, y) ==
    LET from == LineToChar(t, y)
    IN  IF from = NoIdx THEN NoSel
        ELSE SelFrom(from, SaturatingSub(CharToLineEnd(t, from), 1))

Occurs(t, re, i) == i + Len(re) <= Len(t) /\ SubSeq(t, i + 1, i + Len(re)) = re

(* find_from and find_rev_from (RegexVm) with a literal: the search starts  *)
(* at a byte offset                                                         *)
MatchFrom(t, re, b) ==
    { i \in 0..Len(t) : Occurs(t, re, i) /\ ByteLen(SubSeq(t, 1, i)) >= b }
MatchRevFrom(t, re, b) ==
    { i \in 0..Len(t) : Occurs(t, re, i) /\ ByteLen(SubSeq(t, 1, i + Len(re))) <= b }

MatchSel(m, re) == SelFrom(m, SaturatingSub(m + Len(re), 1))

(* the first match from the end of the selection on, which is taken for a   *)
(* byte offset, and the last one before its start                           *)
MapRegex(t, re, d) ==
    LET ms == MatchFrom(t, re, d.end)
    IN  IF ms = {} THEN NoSel ELSE MatchSel(Min(ms), re)

(* mutant: a search backward starts at the end of the selection *)
MapRegexBackFromEnd(t, re, d) ==
    LET ms == MatchRevFrom(t, re, d.end)
    IN  IF ms = {} THEN NoSel ELSE MatchSel(Max(ms), re)

MapRegexBack(t, re, d) ==
    LET ms == MatchRevFrom(t, re, d.start)
    IN  IF ms = {} THEN NoSel ELSE MatchSel(Max(ms), re)

(* map_addr_base, relative to the selection s *)
MapAddrBase(t, b, s) ==
    LET d      == s.dot
        active == ActiveCur(s)
        line   == CharToLine(t, active)
    IN  CASE b.base = "Current"       -> s
          [] b.base = "Bof"           -> SelCur(0)
          [] b.base = "Eof"           -> SelCur(Len(t))
          [] b.base = "Bol"           -> SelFrom(CharToLineStart(t, d.start), d.end)
          [] b.base = "Eol"           -> SelFrom(d.start, CharToLineEnd(t, d.end))
          [] b.base = "CurrentLine"   ->
                SelFrom(CharToLineStart(t, d.start), CharToLineEnd(t, d.end))
          [] b.base = "Line"          -> FullLine(t, b.n)
          [] b.base = "RelativeLine"  ->
                IF line = NoIdx THEN NoSel ELSE FullLine(t, Wrap(line + b.n))
          [] b.base = "Char"          -> SelCur(b.n)
          [] b.base = "RelativeChar"  -> SelCur(Wrap(active + b.n))
          [] b.base = "LineAndColumn" ->
                IF LineToChar(t, b.line) = NoIdx THEN NoSel
                ELSE SelCur(LineToChar(t, b.line) + b.col)
          [] b.base = "Regex"         -> MapRegex(t, b.re, d)
          [] b.base = "RegexBack"     -> MapRegexBack(t, b.re, d)

MapSimpleAddr(t, a, s) ==
    FoldLeft(LAMBDA r, b : IF r = NoSel THEN NoSel ELSE MapAddrBase(t, b, r), s, a)

SpanOf(from, to) == IF from = NoSel \/ to = NoSel THEN NoSel ELSE SelFrom(from.dot.start, to.dot.end)
MapCompoundAddr(t, a, b, s) == SpanOf(MapSimpleAddr(t, a, s), MapSimpleAddr(t, b, s))

(* map_addr: no dot is the start of the buffer *)
OrStart(t, r) == IF r = NoSel THEN SelCur(0) ELSE [r EXCEPT !.dot = ClampIdx(@, Len(t))]
MapAddr(t, a, s) ==
    OrStart(t, CASE a.addr = "Simple"   -> MapSimpleAddr(t, a.a, s)
                 [] a.addr = "Compound" -> MapCompoundAddr(t, a.a, a.b, s))

(* Dot::addr, what the addr file of a buffer holds *)
Numeral(n) == <<Digits[n + 1]>>

CurAddr(t, i) == Numeral(AsYX(t, i).y + 1) \o <<":">> \o Numeral(AsYX(t, i).x + 1)

DotAddr(t, d) ==
    IF IsCur(d) THEN CurAddr(t, d.start) ELSE CurAddr(t, d.start) \o <<",">> \o CurAddr(t, d.end)

(* Addr::from_dot *)
BaseOf(t, i) == <<BaseLC(AsYX(t, i).y, AsYX(t, i).x)>>
FromDot(t, d) ==
    IF IsCur(d) THEN Simple(BaseOf(t, d.start)) ELSE Compound(BaseOf(t, d.start), BaseOf(t, d.end))
=============================================================================
