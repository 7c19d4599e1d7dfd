----------------------------- MODULE FocusList ------------------------------
(***************************************************************************)
(* What the documentation of ZipList promises, stated on the list its      *)
(* users see: a non-empty sequence of items and the position of the        *)
(* focused one.  "op" names the operation last performed, so that an       *)
(* implementation cannot pass one operation off as another.                *)
(***************************************************************************)
EXTENDS Integers, Sequences, SequencesExt, FiniteSetsExt

CONSTANTS Elem, MaxItems

VARIABLES items, pos, op

vars == <<items, pos, op>>

N == Len(items)

Wrap(i) == ((i - 1) % N) + 1

Places(name) ==
    CASE name = "Head" -> 1 [] name = "Tail" -> N + 1
      [] name = "After" -> pos + 1 [] OTHER -> pos

(* the items that are in S, in their order *)
Kept(s, S) ==
    LET upTo[i \in 0 .. Len(s)] ==
            IF i = 0 THEN <<>>
            ELSE IF s[i] \in S THEN Append(upTo[i - 1], s[i]) ELSE upTo[i - 1]
    IN  upTo[Len(s)]

(* focusing operations do not reorder the items *)
Focusing ==
    /\ UNCHANGED items
    /\ \/ op' = <<"focus_up">>   /\ pos' = Wrap(pos - 1)
       \/ op' = <<"focus_down">> /\ pos' = Wrap(pos + 1)
       \/ op' = <<"focus_head">> /\ pos' = 1
       \/ op' = <<"focus_tail">> /\ pos' = N
       \/ \E e \in Elem :
             LET hits == { k \in 0 .. N - 1 : items[Wrap(pos + k)] = e }
             IN  /\ op' = <<"focus_element_by", e>>
                 /\ pos' = IF hits = {} THEN pos ELSE Wrap(pos + Min(hits))

Inserting ==
    \E p \in {"Focus", "Before", "After", "Head", "Tail"}, t \in Elem :
        /\ N < MaxItems
        /\ op' = <<"insert_at", p, t>>
        /\ items' = InsertAt(items, Places(p), t)
        /\ pos' = IF p \in {"Before", "Head"} THEN pos + 1 ELSE pos

(* the focus moves to the item after the removed one, or to the item       *)
(* before it when there is none                                            *)
Removing ==
    \/ /\ N > 1
       /\ op' = <<"remove_focused">>
       /\ items' = RemoveAt(items, pos)
       /\ pos' = Min({pos, N - 1})
    \/ \E e, d \in Elem :
        /\ op' = <<"remove_where", e, d>>
        /\ IF e \notin ToSet(items) THEN UNCHANGED <<items, pos>>
           ELSE IF N = 1 THEN items' = <<d>> /\ pos' = 1
           ELSE \E i \in 1 .. N :
                    /\ items[i] = e
                    /\ items' = RemoveAt(items, i)
                    /\ pos' = IF i < pos THEN pos - 1 ELSE Min({pos, N - 1})

(* a focused item that is filtered out hands the focus on in the same way  *)
FilteredBy(S) ==
    /\ op' = <<"filter", S>>
    /\ items' = Kept(items, S)
    /\ items' # <<>>
    /\ pos' = Min({Len(Kept(SubSeq(items, 1, pos - 1), S)) + 1, Len(items')})

Filtering == \E S \in SUBSET Elem : FilteredBy(S)

(* the focus stays with the focused item while the order changes: a swap   *)
(* moves the item one place, with wrapping, a rotation moves all of them   *)
Reordering ==
    LET others   == RemoveAt(items, pos)
        At(i)    == items' = InsertAt(others, i, items[pos]) /\ pos' = i
        Turn(by) == /\ items' = [i \in 1 .. N |-> items[Wrap(i + by)]]
                    /\ pos' = Wrap(pos - by)
    IN  \/ op' = <<"swap_up">>   /\ At(Wrap(pos - 1))
        \/ op' = <<"swap_down">> /\ At(Wrap(pos + 1))
        \/ op' = <<"rotate_up">>   /\ Turn(1)
        \/ op' = <<"rotate_down">> /\ Turn(-1)
        \/ op' = <<"rotate_focus_to_head">> /\ Turn(pos - 1)
        \/ op' = <<"reverse">> /\ items' = Reverse(items) /\ pos' = N + 1 - pos
        \/ /\ op' = <<"swap_focus_and_head">>
           /\ items' = [items EXCEPT ![1] = items[pos], ![pos] = items[1]]
           /\ pos' = 1

Init == \E e \in Elem : items = <<e>> /\ pos = 1 /\ op = <<"new">>

Next == Focusing \/ Inserting \/ Removing \/ Filtering \/ Reordering

Spec == Init /\ [][Next]_vars
=============================================================================
