----------------------------- MODULE ZipListOps -----------------------------
(***************************************************************************)
(* A ZipList under every sequence of its operations, shown to implement    *)
(* FocusList.                                                              *)
(***************************************************************************)
EXTENDS ZipList

CONSTANTS
    Elem,        \* what the list holds
    MaxItems,    \* bound on the length of the list
    Duplicates   \* whether equal elements may be inserted

ASSUME ZipListAssumption == Duplicates \in BOOLEAN /\ MaxItems \in Nat \ {0}

VARIABLES z, op

vars == <<z, op>>

Init == \E e \in Elem : z = Single(e) /\ op = <<"new">>

Step(name, list) == op' = name /\ z' = list

FocusingUp == Step(<<"focus_up">>, FocusUp(z))

FocusingDown == Step(<<"focus_down">>, FocusDown(z))

FocusingHead == Step(<<"focus_head">>, FocusHead(z))

FocusingTail == Step(<<"focus_tail">>, FocusTail(z))

FocusingElement ==
    \E e \in Elem :
        Step(<<"focus_element_by", e>>, FocusBy(z, {e}))

Inserting ==
    \E p \in Positions, t \in Elem :
        /\ ZLen(z) < MaxItems
        /\ Duplicates \/ t \notin Elems(z)
        /\ Step(<<"insert_at", p, t>>, InsertAtPos(z, p, t))

RemovingFocused == ZLen(z) > 1 /\ Step(<<"remove_focused">>, RemoveFocused(z))

RemovingWhere ==
    \E e, d \in Elem :
        Step(<<"remove_where", e, d>>, RemoveWhereWithDefault(z, {e}, d))

Filtering ==
    \E S \in SUBSET Elem :
        /\ S \cap Elems(z) # {}
        /\ Step(<<"filter", S>>, FilterUnchecked(z, S))

Reordering ==
    \/ Step(<<"swap_up">>, SwapUp(z))
    \/ Step(<<"swap_down">>, SwapDown(z))
    \/ Step(<<"rotate_up">>, RotateUp(z))
    \/ Step(<<"rotate_down">>, RotateDown(z))
    \/ Step(<<"rotate_focus_to_head">>, RotateFocusToHead(z))
    \/ Step(<<"swap_focus_and_head">>, SwapFocusAndHead(z))
    \/ Step(<<"reverse">>, ZReverse(z))

Next ==
    \/ FocusingUp \/ FocusingDown \/ FocusingHead \/ FocusingTail
    \/ FocusingElement \/ Inserting \/ RemovingFocused \/ RemovingWhere
    \/ Filtering \/ Reordering

Spec == Init /\ [][Next]_vars

-----------------------------------------------------------------------------

List == INSTANCE FocusList WITH items <- Flatten(z), pos <- Len(z.up) + 1

(* Every operation of ZipList does to the list its users see what its      *)
(* documentation says: focusing never reorders the elements, removal hands *)
(* the focus to the next element or else the previous one, swaps and       *)
(* rotations keep the focused element (ziplist.rs, the doc comments of     *)
(* focus_up to rotate_down).                                               *)
ImplementsFocusList == List!Spec

(* "Remove the first element that matches the given predicate function":   *)
(* remove_where_with_default takes at most one element out of the list.    *)
RemovesAtMostOne == [][ZLen(z') >= ZLen(z) - 1 \/ op'[1] # "remove_where"]_vars
=============================================================================
