----------------------------- MODULE GapBuffer -----------------------------
(***************************************************************************)
(* The gap buffer that holds the text of every buffer                      *)
(* (src/src/buffer/internal.rs): an array of bytes with a gap, the number  *)
(* of characters, the positions of the line endings and a cache of byte    *)
(* offsets.  A character is its code point and a byte a number below 256,  *)
(* so that utf-8 is what it is in the code: a character takes one to three *)
(* bytes here, and a read at the wrong offset decodes to something else.   *)
(* Offsets count from zero, as in the code.                                *)
(***************************************************************************)
EXTENDS Integers, Sequences, SequencesExt, FiniteSets

CONSTANTS
    Chars,      \* the code points that are typed and pasted
    Strs,       \* the strings that insert_str is called with
    MinGap,     \* MIN_GAP (32 in the code)
    MinGapGrow, \* MIN_GAP_GROW (64 in the code)
    MaxGapGrow, \* MAX_GAP_GROW (8192 in the code)
    MaxChars,   \* bound: the longest text
    MaxCached   \* bound: offsets in the cache

ASSUME GapAssumption ==
    /\ MinGap \in Nat \ {0}
    /\ MinGapGrow \in Nat /\ MinGapGrow >= MinGap
    /\ MaxGapGrow \in Nat /\ MaxGapGrow >= MinGapGrow

VARIABLES
    gb,   \* the gap buffer
    text  \* history: the characters the callers have been told are there

vars == <<gb, text>>

Newline == 10

Fewer(a, b) == IF a < b THEN a ELSE b
Greater(a, b) == IF a < b THEN b ELSE a

(***************************************************************************)
(* utf-8.                                                                  *)
(***************************************************************************)
LenUtf8(ch) == IF ch < 128 THEN 1 ELSE IF ch < 2048 THEN 2 ELSE 3

EncodeUtf8(ch) ==
    CASE LenUtf8(ch) = 1 -> <<ch>>
      [] LenUtf8(ch) = 2 -> <<192 + (ch \div 64), 128 + (ch % 64)>>
      [] OTHER -> <<224 + (ch \div 4096), 128 + ((ch \div 64) % 64), 128 + (ch % 64)>>

Encode(s) == FlattenSeq([i \in DOMAIN s |-> EncodeUtf8(s[i])])

LenBytes(s) == Len(Encode(s))

\* The bytes of a slice are a sequence: offset i is position i + 1.
DecodeCharAt(start, bytes) ==
    LET x == bytes[start + 1]
        y == bytes[start + 2]
        z == bytes[start + 3] IN
    CASE x < 128 -> x
      [] x >= 128 /\ x < 224 -> ((x % 32) * 64) + (y % 64)
      [] OTHER -> ((x % 32) * 4096) + ((y % 64) * 64) + (z % 64)

IsCont(byte) == byte \in 128 .. 191

DecodeCharEndingAt(end, bytes) ==
    LET w == bytes[end + 1]
        z == bytes[end]
        y == bytes[end - 1] IN
    CASE w < 128 -> w
      [] w >= 128 /\ ~IsCont(z) -> ((z % 32) * 64) + (w % 64)
      [] OTHER -> ((y % 16) * 4096) + ((z % 64) * 64) + (w % 64)

(***************************************************************************)
(* The gap and the raw offsets around it.                                  *)
(***************************************************************************)
Cap(g) == Len(g.data)
Gap(g) == g.gap_end - g.gap_start
ByteLen(g) == Cap(g) - Gap(g)

\* data[from..to]
Bytes(g, from, to) == SubSeq(g.data, from + 1, to)

AsByteSlices(g) == <<Bytes(g, 0, g.gap_start), Bytes(g, g.gap_end, Cap(g))>>

RawByteToByte(g, raw) == IF raw > g.gap_start THEN raw - Gap(g) ELSE raw

ByteToRawByte(g, byte) == IF byte > g.gap_start THEN byte + Gap(g) ELSE byte

ClampGapSize(len, min_gap) == Fewer(Greater(len \div 20, min_gap), MaxGapGrow)

\* The number of line endings whose raw offset is below x: partition_point.
EndingsBelow(le, x) == Cardinality({i \in DOMAIN le : le[i][1] < x})

\* The line endings at positions from+1..to with their bytes, or their
\* characters, moved by n.
ShiftBytes(le, from, to, n) ==
    [i \in DOMAIN le |-> IF i > from /\ i <= to THEN <<le[i][1] + n, le[i][2]>> ELSE le[i]]

ShiftChars(le, from, n) ==
    [i \in DOMAIN le |-> IF i > from THEN <<le[i][1], le[i][2] + n>> ELSE le[i]]

(***************************************************************************)
(* A slice: a region of the text on both sides of the gap.                 *)
(***************************************************************************)
NullSlice == [from |-> 0, left |-> <<>>, right |-> <<>>]

FromRawOffsets(g, from, upto) ==
    LET to == Fewer(upto, Cap(g)) IN
    IF to <= g.gap_start \/ from >= g.gap_end
    THEN [from |-> RawByteToByte(g, from), left |-> Bytes(g, from, to), right |-> <<>>]
    ELSE [from  |-> RawByteToByte(g, from),
          left  |-> Bytes(g, from, g.gap_start),
          right |-> Bytes(g, g.gap_end, to)]

SliceLen(s) == Len(s.left) + Len(s.right)

CurAndData(s, cur) ==
    IF cur < Len(s.left) THEN <<cur, s.left>> ELSE <<cur - Len(s.left), s.right>>

CharAtCur(s, cur) == LET cd == CurAndData(s, cur) IN DecodeCharAt(cd[1], cd[2])

\* The offsets in the slice at which Chars::next is when it has returned
\* each character, the first one being 0: the running value of cur.
CharCurs(s) ==
    LET after[n \in 0 .. SliceLen(s)] ==
            IF n = 0 THEN <<0>>
            ELSE LET prev == after[n - 1] IN
                 IF Last(prev) >= SliceLen(s) THEN prev
                 ELSE Append(prev, Last(prev) + LenUtf8(CharAtCur(s, Last(prev))))
    IN after[SliceLen(s)]

SliceChars(s) == [i \in 1 .. Len(CharCurs(s)) - 1 |-> CharAtCur(s, CharCurs(s)[i])]

\* RevChars: from the end, decoding backwards.
RevSliceChars(s) ==
    LET after[n \in 0 .. SliceLen(s)] ==
            IF n = 0 THEN [cur |-> SliceLen(s), out |-> <<>>]
            ELSE LET prev == after[n - 1]
                     cd == CurAndData(s, prev.cur - 1)
                     ch == DecodeCharEndingAt(cd[1], cd[2]) IN
                 IF prev.cur = 0 THEN prev
                 ELSE [cur |-> prev.cur - LenUtf8(ch), out |-> Append(prev.out, ch)]
    IN after[SliceLen(s)].out

SliceFromByteOffsets(g, from, to) ==
    IF from = to THEN NullSlice
    ELSE FromRawOffsets(g, ByteToRawByte(g, from), ByteToRawByte(g, to))

(***************************************************************************)
(* From characters to bytes.  Find is offset_char_to_raw_byte without the  *)
(* cache: byte_offset and char_offset name a position before the character *)
(* from which the search may start.                                        *)
(***************************************************************************)
LastCharOfOnlyLine(g) ==
    IF g.gap_end = Cap(g) /\ g.gap_start > 0
    THEN g.gap_start - LenUtf8(DecodeCharEndingAt(g.gap_start - 1, g.data))
    ELSE Cap(g) - LenUtf8(DecodeCharEndingAt(Cap(g) - 1, g.data))

\* Count the characters from the last line ending before the one wanted.
CountFromLine(g, char_idx, byte_offset, char_offset) ==
    LET line_from == EndingsBelow(g.line_endings, byte_offset)
        le        == SubSeq(g.line_endings, line_from + 1, Len(g.line_endings))
        i         == Cardinality({k \in DOMAIN le : le[k][2] < char_idx})
        start     == IF i > 0 THEN le[i] ELSE <<byte_offset, char_offset>>
        to        == IF i < Len(le) THEN le[i + 1][1] ELSE Cap(g)
        curs      == CharCurs(FromRawOffsets(g, start[1], to))
        n         == char_idx - start[2]
        cur       == start[1] + curs[Fewer(n + 1, Len(curs))]
        enclosed  == g.gap_start >= start[1] /\ g.gap_end <= to IN
    CASE i < Len(le) /\ le[i + 1][2] = char_idx -> le[i + 1][1]
      [] cur >= g.gap_start /\ (cur < g.gap_end \/ enclosed) -> cur + Gap(g)
      [] OTHER -> cur

Find(g, char_idx, byte_offset, char_offset) ==
    CASE g.n_chars = 0 -> g.gap_start
      [] g.n_chars > 0 /\ g.line_endings = <<>> /\ char_idx = g.n_chars - 1 -> LastCharOfOnlyLine(g)
      [] OTHER -> CountFromLine(g, char_idx, byte_offset, char_offset)

OffsetCharToRawByte(g, char_idx, byte_offset, char_offset) ==
    IF char_idx \in DOMAIN g.cache
    THEN g.cache[char_idx]
    ELSE Find(g, char_idx, byte_offset, char_offset)

CharToRawByte(g, char_idx) == OffsetCharToRawByte(g, char_idx, 0, 0)
CharToByte(g, char_idx) == RawByteToByte(g, CharToRawByte(g, char_idx))

\* The entry a lookup leaves in the cache; an empty buffer leaves none.
Remember(g, char_idx, raw) ==
    IF g.n_chars = 0 \/ char_idx \in DOMAIN g.cache THEN g
    ELSE [g EXCEPT !.cache = [c \in DOMAIN @ \cup {char_idx} |-> IF c = char_idx THEN raw ELSE @[c]]]

ClearCache(g) == [g EXCEPT !.cache = <<>>]

Slice(g, from, to) ==
    IF from = to THEN NullSlice
    ELSE LET raw_from == CharToRawByte(g, from) IN
         FromRawOffsets(g, raw_from, OffsetCharToRawByte(g, to, raw_from, from))

CharAtIdx(g, char_idx) == DecodeCharAt(CharToRawByte(g, char_idx), g.data)

\* char_at: the character at a byte offset.
CharAt(g, byte_idx) == DecodeCharAt(ByteToRawByte(g, byte_idx), g.data)

ByteToChar(g, byte_idx) ==
    LET raw    == ByteToRawByte(g, byte_idx)
        le     == g.line_endings
        before == EndingsBelow(le, raw)
        start  == IF before > 0 THEN le[before] ELSE <<0, 0>>
        to     == IF before < Len(le) THEN le[before + 1][1] ELSE Cap(g)
        curs   == CharCurs(FromRawOffsets(g, start[1], to))
        base   == RawByteToByte(g, start[1])
        hits   == {k \in 1 .. Len(curs) - 1 : base + curs[k] = byte_idx} IN
    CASE before < Len(le) /\ le[before + 1][1] = raw -> le[before + 1][2]
      [] hits # {} -> start[2] + (CHOOSE k \in hits : TRUE) - 1
      [] OTHER -> start[2] + Len(curs) - 1

(***************************************************************************)
(* Lines.                                                                  *)
(***************************************************************************)
LenLines(g) ==
    IF g.line_endings = <<>> THEN 1
    ELSE LET raw  == Last(g.line_endings)[1]
             byte == IF raw > g.gap_start THEN raw - g.gap_end ELSE raw IN
         IF byte < ByteLen(g) THEN Len(g.line_endings) + 1 ELSE Len(g.line_endings)

Line(g, line_idx) ==
    LET le   == g.line_endings
        to   == IF line_idx < Len(le) THEN le[line_idx + 1][1] + 1 ELSE Cap(g)
        from == IF line_idx = 0 THEN 0 ELSE le[line_idx][1] + 1 IN
    IF from = to THEN NullSlice ELSE FromRawOffsets(g, from, to)

\* A line without its newline.
TrimmedLine(g, line_idx) == SelectSeq(SliceChars(Line(g, line_idx)), LAMBDA c : c # Newline)

LineLenChars(g, line_idx) ==
    LET le   == g.line_endings
        to   == IF line_idx < Len(le) THEN le[line_idx + 1][2] + 1 ELSE g.n_chars
        from == IF line_idx = 0 THEN 0 ELSE le[line_idx][2] + 1 IN
    IF le = <<>> THEN g.n_chars ELSE to - from

CharToLine(g, char_idx) ==
    IF char_idx < g.n_chars
    THEN Cardinality({i \in DOMAIN g.line_endings : g.line_endings[i][2] < char_idx})
    ELSE LenLines(g) - 1

LineToChar(g, line_idx) == IF line_idx = 0 THEN 0 ELSE g.line_endings[line_idx][2] + 1

LineToByte(g, line_idx) ==
    RawByteToByte(g, IF line_idx = 0 THEN 0 ELSE g.line_endings[line_idx][1] + 1)

LineEndByte(g, line_idx) ==
    IF line_idx < Len(g.line_endings)
    THEN RawByteToByte(g, g.line_endings[line_idx + 1][1])
    ELSE ByteLen(g)

LinesBeforeByteOffset(g, byte) == EndingsBelow(g.line_endings, ByteToRawByte(g, byte))

HasTrailingNewline(g) ==
    LET lr == AsByteSlices(g)
        s  == IF lr[2] = <<>> THEN lr[1] ELSE lr[2] IN
    s # <<>> /\ Last(s) = Newline

(***************************************************************************)
(* What tree-sitter, the language server and the regular expressions read. *)
(***************************************************************************)
(* mutant: the first byte after the gap is looked up in the gap *)
MaximalSliceIntoGap(g, byte) ==
    LET i == ByteToRawByte(g, byte) IN
    CASE byte > ByteLen(g) -> <<>>
      [] byte <= ByteLen(g) /\ i <= g.gap_start -> Bytes(g, i, g.gap_start)
      [] OTHER -> Bytes(g, i, Cap(g))

MaximalSliceFromOffset(g, byte) ==
    LET i == ByteToRawByte(g, byte) IN
    CASE byte > ByteLen(g) -> <<>>
      [] byte <= ByteLen(g) /\ i < g.gap_start -> Bytes(g, i, g.gap_start)
      [] byte <= ByteLen(g) /\ i = g.gap_start -> Bytes(g, g.gap_end, Cap(g))
      [] OTHER -> Bytes(g, i, Cap(g))

\* count_chars
CountChars(bytes) == Len(CharCurs([NullSlice EXCEPT !.left = bytes])) - 1

CharsInRawRange(g, from, to) ==
    IF to <= g.gap_start \/ from >= g.gap_end
    THEN CountChars(Bytes(g, from, to))
    ELSE CountChars(Bytes(g, from, g.gap_start)) + CountChars(Bytes(g, g.gap_end, to))

\* iter_between and rev_iter_between of a haystack: characters with their
\* byte offsets, the latter counted down from the end of the range.
IterBetween(g, from, to) ==
    LET s == SliceFromByteOffsets(g, from, to) IN
    [i \in DOMAIN SliceChars(s) |-> <<from + CharCurs(s)[i], SliceChars(s)[i]>>]

RevIterBetween(g, from, to) ==
    LET rev == RevSliceChars(SliceFromByteOffsets(g, from, to)) IN
    [i \in DOMAIN rev |-> <<to - LenBytes(SubSeq(rev, 1, i)), rev[i]>>]

\* indexed_chars: characters with their character offsets, from either end.
IndexedChars(s, from, rev) ==
    LET n == CountChars(s.left) + CountChars(s.right) IN
    IF rev THEN [i \in DOMAIN RevSliceChars(s) |-> <<from + n - i, RevSliceChars(s)[i]>>]
    ELSE [i \in DOMAIN SliceChars(s) |-> <<from + i - 1, SliceChars(s)[i]>>]

(***************************************************************************)
(* Moving and growing the gap.                                             *)
(***************************************************************************)
\* data.copy_within(from..to, dest)
CopyWithin(data, from, to, dest) ==
    [i \in DOMAIN data |->
        IF i > dest /\ i <= dest + (to - from) THEN data[i - dest + from] ELSE data[i]]

MoveGapTo(g, byte_idx) ==
    LET gap   == Gap(g)
        le    == g.line_endings
        moved == [g EXCEPT !.gap_start = byte_idx, !.gap_end = byte_idx + gap, !.cache = <<>>] IN
    CASE byte_idx = g.gap_start -> g
      [] byte_idx < g.gap_start ->
           [moved EXCEPT
              !.data = CopyWithin(g.data, byte_idx, g.gap_start, byte_idx + gap),
              !.line_endings = ShiftBytes(le, EndingsBelow(le, byte_idx), EndingsBelow(le, g.gap_start + 1), gap)]
      [] OTHER ->
           [moved EXCEPT
              !.data = CopyWithin(g.data, g.gap_end, byte_idx + gap, g.gap_start),
              !.line_endings = ShiftBytes(le, EndingsBelow(le, g.gap_end), EndingsBelow(le, byte_idx + gap), -gap)]

\* The least power of two that is not below n.
NextPowerOfTwo(n) == CHOOSE p \in {2 ^ k : k \in 0 .. n} : p >= n /\ (p = 1 \/ p \div 2 < n)

GrowGap(g, n) ==
    LET next     == IF n >= g.next_gap THEN ClampGapSize(ByteLen(g) + n, NextPowerOfTwo(n)) ELSE g.next_gap
        increase == next + n
        le       == g.line_endings
        zeros    == [i \in 1 .. Gap(g) + increase |-> 0] IN
    [g EXCEPT
       !.data         = Bytes(g, 0, g.gap_start) \o zeros \o Bytes(g, g.gap_end, Cap(g)),
       !.line_endings = ShiftBytes(le, EndingsBelow(le, g.gap_start + 1), Len(le), increase),
       !.next_gap     = ClampGapSize(ByteLen(g), next * 2),
       !.gap_end      = @ + increase,
       !.cache        = <<>>]

(***************************************************************************)
(* Editing.                                                                *)
(***************************************************************************)
\* The newlines of s as line endings of a text that begins at byte b and
\* character c: compute_line_endings and the tail of insert_str.
EndingsOf(s, b, c) ==
    LET at == SetToSortSeq({i \in DOMAIN s : s[i] = Newline}, <) IN
    [k \in DOMAIN at |-> <<b + LenBytes(SubSeq(s, 1, at[k] - 1)), c + at[k] - 1>>]

AddLineEndings(le, byte_from, n_chars, new) ==
    LET idx == EndingsBelow(le, byte_from)
        moved == ShiftChars(le, idx, n_chars) IN
    SubSeq(moved, 1, idx) \o new \o SubSeq(moved, idx + 1, Len(moved))

RemoveLineEndings(g, byte_from, byte_to, n_chars) ==
    LET le == SelectSeq(g.line_endings, LAMBDA e : e[1] < g.gap_start \/ e[1] >= g.gap_end)
        line_from == EndingsBelow(le, byte_from)
        line_to   == EndingsBelow(le, byte_to)
        drop      == IF line_from = line_to
                     THEN IF le[line_from + 1][1] >= byte_from /\ le[line_from + 1][1] < byte_to THEN 1 ELSE 0
                     ELSE line_to - line_from
        left      == SubSeq(le, 1, line_from) \o SubSeq(le, line_from + drop + 1, Len(le)) IN
    IF le = <<>> \/ Last(le)[1] < byte_from
    THEN le
    ELSE ShiftChars(left, line_from, -n_chars)

InsertStr(g, char_idx, s) ==
    LET len   == LenBytes(s)
        grown == IF Greater(Gap(g) - len, 0) < MinGap THEN GrowGap(g, len) ELSE g
        idx   == CharToByte(grown, char_idx)
        moved == MoveGapTo(grown, idx) IN
    [moved EXCEPT
       !.data = [i \in DOMAIN @ |-> IF i > idx /\ i <= idx + len THEN Encode(s)[i - idx] ELSE @[i]],
       !.gap_start    = @ + len,
       !.n_chars      = @ + Len(s),
       !.line_endings = AddLineEndings(@, idx, Len(s), EndingsOf(s, idx, char_idx)),
       !.cache        = <<>>]

\* insert_char is insert_str for one character.
InsertChar(g, char_idx, ch) == InsertStr(g, char_idx, <<ch>>)

RemoveChar(g, char_idx) ==
    LET raw   == CharToRawByte(g, char_idx)
        idx   == RawByteToByte(g, raw)
        len   == LenUtf8(DecodeCharAt(raw, g.data))
        moved == MoveGapTo(g, idx)
        wider == [moved EXCEPT !.gap_end = @ + len, !.n_chars = @ - 1, !.cache = <<>>] IN
    [wider EXCEPT !.line_endings = RemoveLineEndings(wider, idx, idx + len, 1)]

RemoveRange(g, from, to) ==
    LET raw_from == CharToRawByte(g, from)
        b_from   == RawByteToByte(g, raw_from)
        b_to     == RawByteToByte(g, OffsetCharToRawByte(g, to, raw_from, from))
        moved    == MoveGapTo(g, b_from) IN
    IF from = to THEN g
    ELSE [moved EXCEPT
            !.line_endings = RemoveLineEndings(moved, b_from, ByteToRawByte(moved, b_to), to - from),
            !.gap_end = @ + (b_to - b_from),
            !.n_chars = @ - (to - from),
            !.cache   = <<>>]

(* mutant: the offsets of the old position of the gap stay in the cache *)
MakeContiguousKeepsCache(g) == [MoveGapTo(g, 0) EXCEPT !.cache = g.cache]

MakeContiguous(g) == MoveGapTo(g, 0)

\* clear: the cache is emptied only when the gap has to move.
Clear(g) == [MoveGapTo(g, 0) EXCEPT !.gap_end = Cap(g), !.line_endings = <<>>, !.n_chars = 0]

From(s) ==
    LET len      == LenBytes(s)
        next_gap == ClampGapSize(len, MinGapGrow) IN
    MoveGapTo([data         |-> Encode(s) \o [i \in 1 .. next_gap |-> 0],
               gap_start    |-> len,
               gap_end      |-> len + next_gap,
               next_gap     |-> next_gap,
               n_chars      |-> Len(s),
               line_endings |-> EndingsOf(s, 0, 0),
               cache        |-> <<>>], 0)
(***************************************************************************)
(* The operations, as the rest of the editor calls them.                   *)
(***************************************************************************)
TextWith(i, s) == SubSeq(text, 1, i) \o s \o SubSeq(text, i + 1, Len(text))
TextWithout(from, to) == SubSeq(text, 1, from) \o SubSeq(text, to + 1, Len(text))

Init ==
    /\ text \in {<<>>} \cup Strs
    /\ gb = From(text)

DoInsertChar(i, ch) ==
    /\ Len(text) < MaxChars
    /\ gb' = InsertChar(gb, i, ch)
    /\ text' = TextWith(i, <<ch>>)

DoInsertStr(i, s) ==
    /\ Len(text) + Len(s) <= MaxChars
    /\ gb' = InsertStr(gb, i, s)
    /\ text' = TextWith(i, s)

DoRemoveChar(i) ==
    /\ i < Len(text)
    /\ gb' = RemoveChar(gb, i)
    /\ text' = TextWithout(i, i + 1)

DoRemoveRange(from, to) ==
    /\ from <= to
    /\ gb' = RemoveRange(gb, from, to)
    /\ text' = TextWithout(from, to)

\* A read of a character or of a range leaves its offsets in the cache.
DoSlice(from, to) ==
    /\ from < to
    /\ Cardinality(DOMAIN gb.cache) + 2 <= MaxCached
    /\ LET raw_from == CharToRawByte(gb, from)
           raw_to   == OffsetCharToRawByte(gb, to, raw_from, from) IN
       gb' = Remember(Remember(gb, from, raw_from), to, raw_to)
    /\ UNCHANGED text

DoMakeContiguous ==
    /\ gb' = MakeContiguous(gb)
    /\ UNCHANGED text

\* The minibuffer clears its text and puts another one in its place.
DoReplace(s) ==
    /\ gb' = From(s)
    /\ text' = s

\* clear on its own; the editor never stops here, DoReplace follows.
DoClear ==
    /\ gb' = Clear(gb)
    /\ text' = <<>>

Next ==
    \/ \E i \in 0 .. Len(text), ch \in Chars : DoInsertChar(i, ch)
    \/ \E i \in 0 .. Len(text), s \in Strs : DoInsertStr(i, s)
    \/ \E i \in 0 .. Len(text) : DoRemoveChar(i)
    \/ \E from, to \in 0 .. Len(text) : DoRemoveRange(from, to)
    \/ \E from, to \in 0 .. Len(text) : DoSlice(from, to)
    \/ DoMakeContiguous
    \/ \E s \in Strs : DoReplace(s)

Spec == Init /\ [][Next]_vars

\* A view for model checking that leaves out what the gap holds: two states
\* that differ only there have the same text, offsets and line endings.
OutsideGap == <<[gb EXCEPT !.data = AsByteSlices(gb)], text>>

(***************************************************************************)
(* What the callers rely on.                                               *)
(***************************************************************************)
\* The structure of the array: the gap lies inside it and, after an edit,
\* there is always room to type (MIN_GAP), so that two raw offsets never
\* name one position.
TypeOK ==
    /\ \A i \in DOMAIN gb.data : gb.data[i] \in 0 .. 255
    /\ 0 <= gb.gap_start /\ gb.gap_start < gb.gap_end /\ gb.gap_end <= Cap(gb)
    /\ gb.next_gap \in 1 .. MaxGapGrow
    /\ gb.n_chars \in 0 .. MaxChars

\* The bytes outside the gap are the text: every insertion and removal, at
\* every position of the gap and across every growth of it, did to the bytes
\* what the caller asked for in characters.
ContentIsText ==
    /\ AsByteSlices(gb)[1] \o AsByteSlices(gb)[2] = Encode(text)
    /\ gb.n_chars = Len(text)

\* assert_line_endings: the tracked line endings are the newlines of the
\* text, with their raw byte offsets and their character offsets.
LineEndingsTracked ==
    gb.line_endings =
        [k \in DOMAIN EndingsOf(text, 0, 0) |->
            LET e == EndingsOf(text, 0, 0)[k] IN
            <<IF e[1] >= gb.gap_start THEN e[1] + Gap(gb) ELSE e[1], e[2]>>]

\* An offset in the cache is the one a search would find now: no edit and no
\* move of the gap leaves an old one behind.
CacheFresh ==
    \A i \in DOMAIN gb.cache :
        /\ i <= Len(text)
        /\ RawByteToByte(gb, gb.cache[i]) = LenBytes(SubSeq(text, 1, i))

\* What every edit, growth and move of the gap keeps: the bytes around the
\* gap are the text, the tracked line endings are its newlines and no
\* cached offset is an old one (insert_str, remove_range, move_gap_to,
\* grow_gap, make_contiguous).
GapInv ==
    /\ TypeOK
    /\ ContentIsText
    /\ LineEndingsTracked
    /\ CacheFresh

\* Characters, bytes and lines are converted into each other as in the text,
\* wherever the gap is.
OffsetsAgree ==
    /\ \A i \in 0 .. Len(text) :
          /\ CharToByte(gb, i) = LenBytes(SubSeq(text, 1, i))
          /\ ByteToChar(gb, CharToByte(gb, i)) = i
          /\ i < Len(text) => CharAtIdx(gb, i) = text[i + 1]
          /\ CharToLine(gb, i) = Cardinality({k \in 1 .. i : text[k] = Newline})
          /\ LinesBeforeByteOffset(gb, CharToByte(gb, i)) = CharToLine(gb, i)
    /\ \A n \in 0 .. LenLines(gb) - 1 :
          /\ CharToLine(gb, LineToChar(gb, n)) = n
          /\ LineToByte(gb, n) = CharToByte(gb, LineToChar(gb, n))
          /\ LineEndByte(gb, n) = CharToByte(gb, LineToChar(gb, n) + Len(TrimmedLine(gb, n)))

\* A slice holds the characters between its ends and reads the same from the
\* back; the lines are the text cut after each newline.
SlicesAgree ==
    /\ \A from, to \in 0 .. Len(text) : from <= to =>
          LET s == Slice(gb, from, to) IN
          /\ SliceChars(s) = SubSeq(text, from + 1, to)
          /\ RevSliceChars(s) = Reverse(SliceChars(s))
          /\ s = NullSlice \/ s.from = CharToByte(gb, from)
    /\ FlattenSeq([n \in 1 .. LenLines(gb) |-> SliceChars(Line(gb, n - 1))]) = text
    /\ \A n \in 0 .. LenLines(gb) - 1 : LineLenChars(gb, n) = Len(SliceChars(Line(gb, n)))
    /\ HasTrailingNewline(gb) <=> (text # <<>> /\ Last(text) = Newline)

\* The readers see the text too: the pieces handed to tree-sitter cover it
\* without a hole, and the iterators of a regular expression give the same
\* characters at the same offsets in both directions.
ReadersAgree ==
    /\ \A b \in 0 .. ByteLen(gb) :
          LET piece == MaximalSliceFromOffset(gb, b) IN
          /\ IsPrefix(piece, SubSeq(Encode(text), b + 1, ByteLen(gb)))
          /\ b < ByteLen(gb) => piece # <<>>
    /\ \A from, to \in 0 .. Len(text) : from < to =>
          LET it  == IterBetween(gb, CharToByte(gb, from), CharToByte(gb, to))
              s   == Slice(gb, from, to)
              raw == CharToRawByte(gb, from) IN
          /\ it = [i \in 1 .. to - from |-> <<CharToByte(gb, from + i - 1), text[from + i]>>]
          /\ RevIterBetween(gb, CharToByte(gb, from), CharToByte(gb, to)) = Reverse(it)
          /\ IndexedChars(s, from, TRUE) = Reverse(IndexedChars(s, from, FALSE))
          /\ CharsInRawRange(gb, raw, OffsetCharToRawByte(gb, to, raw, from)) = to - from

\* Whatever is read from a gap buffer is what would be read from the text,
\* wherever the gap lies: offsets, lines, slices and the iterators of tree-
\* sitter and of the regular expressions.
ReadsAgree ==
    /\ OffsetsAgree
    /\ SlicesAgree
    /\ ReadersAgree

\* The character at a byte offset is the one whose encoding begins there.
CharAtByte ==
    \A i \in 0 .. Len(text) - 1 :
        CharAt(gb, CharToByte(gb, i)) = text[i + 1]
=============================================================================
