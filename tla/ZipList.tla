------------------------------ MODULE ZipList -------------------------------
(***************************************************************************)
(* The ZipList container (src/src/ziplist.rs): a non-empty list with one   *)
(* focused element.  "up" holds the elements before the focus with the     *)
(* NEAREST one first, as the VecDeque of the code does, so that iterating  *)
(* the list reads "up" backwards.  Buffers keeps its buffers in one and    *)
(* Layout its columns and their windows.                                   *)
(***************************************************************************)
EXTENDS Integers, Sequences, SequencesExt, FiniteSetsExt

Z(up, focus, down) == [up |-> up, focus |-> focus, down |-> down]

Single(t) == Z(<<>>, t, <<>>)

ZLen(z) == Len(z.up) + Len(z.down) + 1

Flatten(z) == Reverse(z.up) \o <<z.focus>> \o z.down

Elems(z) == ToSet(z.up) \cup {z.focus} \cup ToSet(z.down)

ZMap(z, f(_)) ==
    Z([i \in 1..Len(z.up) |-> f(z.up[i])], f(z.focus),
        [i \in 1..Len(z.down) |-> f(z.down[i])])

(* mutant: wrapping upwards leaves the elements before the new focus in    *)
(* list order rather than nearest first                                    *)
FocusUpUnreversed(z) ==
    IF z.up # <<>> THEN Z(Tail(z.up), Head(z.up), <<z.focus>> \o z.down)
    ELSE IF z.down # <<>>
         THEN Z(<<z.focus>> \o Front(z.down), Last(z.down), <<>>)
    ELSE z

FocusUp(z) ==
    IF z.up # <<>> THEN Z(Tail(z.up), Head(z.up), <<z.focus>> \o z.down)
    ELSE IF z.down # <<>>
         THEN Z(Reverse(<<z.focus>> \o Front(z.down)), Last(z.down), <<>>)
    ELSE z

FocusDown(z) ==
    IF z.down # <<>> THEN Z(<<z.focus>> \o z.up, Head(z.down), Tail(z.down))
    ELSE IF z.up # <<>>
         THEN Z(<<>>, Last(z.up), Reverse(<<z.focus>> \o Front(z.up)))
    ELSE z

FocusHead(z) ==
    IF z.up = <<>> THEN z
    ELSE Z(<<>>, Last(z.up), Reverse(Front(z.up)) \o <<z.focus>> \o z.down)

FocusTail(z) ==
    IF z.down = <<>> THEN z
    ELSE Z(Reverse(Front(z.down)) \o <<z.focus>> \o z.up, Last(z.down), <<>>)

(* the same list with the focus on its i-th element                        *)
FocusedAt(z, i) ==
    LET all == Flatten(z)
    IN  Z(Reverse(SubSeq(all, 1, i - 1)), all[i], SubSeq(all, i + 1, Len(all)))

(* A predicate is given as the set of the elements for which it holds.     *)

(* the elements of a half that are in S, in their order (the retain of a   *)
(* VecDeque)                                                               *)
Kept(s, S) ==
    LET upTo[i \in 0 .. Len(s)] ==
            IF i = 0 THEN <<>>
            ELSE IF s[i] \in S THEN Append(upTo[i - 1], s[i]) ELSE upTo[i - 1]
    IN  upTo[Len(s)]

(* focus_element_by steps the focus down, with wrapping, until the         *)
(* predicate holds or every element has been tried                         *)
FocusBy(z, S) ==
    LET all   == Flatten(z)
        At(k) == ((Len(z.up) + k) % ZLen(z)) + 1    \* after k steps
        hits  == { k \in 0 .. ZLen(z) - 1 : all[At(k)] \in S }
    IN  IF hits = {} THEN z ELSE FocusedAt(z, At(Min(hits)))

Positions == {"Focus", "Before", "After", "Head", "Tail"}

InsertAtPos(z, pos, t) ==
    CASE pos = "Focus"  -> Z(z.up, t, <<z.focus>> \o z.down)
      [] pos = "Before" -> Z(<<t>> \o z.up, z.focus, z.down)
      [] pos = "After"  -> Z(z.up, z.focus, <<t>> \o z.down)
      [] pos = "Head"   -> Z(Append(z.up, t), z.focus, z.down)
      [] pos = "Tail"   -> Z(z.up, z.focus, Append(z.down, t))

Insert(z, t) == InsertAtPos(z, "Focus", t)

(* remove_focused_unchecked panics on a list of one element                *)
RemoveFocused(z) ==
    IF z.down # <<>> THEN Z(z.up, Head(z.down), Tail(z.down))
                     ELSE Z(Tail(z.up), Head(z.up), <<>>)

(* pop_where drops every matching element of "up", or if there is none,    *)
(* every matching element of "down"                                        *)
RemoveWhereWithDefault(z, S, default) ==
    IF ToSet(z.up) \cap S # {} THEN [z EXCEPT !.up = Kept(@, ToSet(@) \ S)]
    ELSE IF ToSet(z.down) \cap S # {} THEN [z EXCEPT !.down = Kept(@, ToSet(@) \ S)]
    ELSE IF z.focus \notin S THEN z
    ELSE IF ZLen(z) = 1 THEN Single(default)
    ELSE RemoveFocused(z)

FilterUnchecked(z, S) ==
    LET kept == Z(Kept(z.up, S), z.focus, Kept(z.down, S))
    IN  IF z.focus \in S THEN kept ELSE RemoveFocused(kept)

ZReverse(z) == Z(z.down, z.focus, z.up)

SwapUp(z) ==
    IF z.up # <<>> THEN Z(Tail(z.up), z.focus, <<Head(z.up)>> \o z.down)
                   ELSE Z(Reverse(z.down), z.focus, <<>>)

SwapDown(z) ==
    IF z.down # <<>> THEN Z(<<Head(z.down)>> \o z.up, z.focus, Tail(z.down))
                     ELSE Z(<<>>, z.focus, Reverse(z.up))

RotateUp(z) ==
    IF z.up # <<>> THEN Z(Front(z.up), z.focus, Append(z.down, Last(z.up)))
                   ELSE Z(Reverse(z.down), z.focus, <<>>)

RotateDown(z) ==
    IF z.down # <<>> THEN Z(Append(z.up, Last(z.down)), z.focus, Front(z.down))
                     ELSE Z(<<>>, z.focus, Reverse(z.up))

RotateFocusToHead(z) == Z(<<>>, z.focus, z.down \o Reverse(z.up))

SwapFocusAndHead(z) ==
    IF z.up = <<>> THEN z
    ELSE Z(<<>>, z.focus, Reverse(Front(z.up)) \o <<Last(z.up)>> \o z.down)
=============================================================================
