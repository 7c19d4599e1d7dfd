-------------------------------- MODULE Dots --------------------------------
(***************************************************************************)
(* Selections ("dots") of an ad buffer: a cursor, or an inclusive range of *)
(* character indices (src/src/dot/).  Indices are zero based, as in the    *)
(* code, and the index equal to the number of characters is the end of the *)
(* buffer.  A cursor is kept as a record with equal ends, which is what    *)
(* Dot::as_range gives for it; which end of a range is the active one is   *)
(* not told apart by any property and is left out.                         *)
(***************************************************************************)
EXTENDS Integers

Cur(i) == [tag |-> "Cur", start |-> i, end |-> i]

FromCursors(i, j) ==
    [tag   |-> "Range",
     start |-> IF i <= j THEN i ELSE j,
     end   |-> IF i <= j THEN j ELSE i]

Dots(S) == { Cur(i) : i \in S } \cup { FromCursors(i, j) : i, j \in S }

DotType == [tag : {"Cur", "Range"}, start : Nat, end : Nat]

IsCur(d) == d.tag = "Cur"

NChars(d) == d.end - d.start + 1

CollapseToFirst(d) == Cur(d.start)

CollapseToLast(d) == Cur(d.end)

CollapseNullRange(d) == IF d.start = d.end THEN Cur(d.start) ELSE d

ClampIdx(d, n) ==
    [d EXCEPT !.start = IF @ <= n THEN @ ELSE n,
              !.end   = IF @ <= n THEN @ ELSE n]

SaturatingSub(i, k) == IF i >= k THEN i - k ELSE 0

WithOffset(d, grow, shrink) ==
    [d EXCEPT !.start = SaturatingSub(@ + grow, shrink),
              !.end   = SaturatingSub(@ + grow, shrink)]

Intersects(d, e) == d.start <= e.end /\ e.start <= d.end

InBounds(d, n) == d.start <= d.end /\ d.end <= n
=============================================================================
