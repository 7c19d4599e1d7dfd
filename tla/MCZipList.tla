----------------------------- MODULE MCZipList ------------------------------
(* One ZipList under every operation, or the ZipLists of a layout with the  *)
(* sizes of their blocks.                                                   *)
EXTENDS ZipListOps, Sizes

CONSTANTS a, b1, b2

VARIABLE subject    \* "list" or "sizes", chosen at the start

allVars == <<vars, sizeVars, subject>>

Screen(rows, width) == [rows |-> rows, cols |-> width]
Terminal(first, later, maxOpen) == [first |-> first, later |-> later, maxOpen |-> maxOpen]

\* four windows on a screen of one size, three on one that grows
MCTerminals ==
    { Terminal(Screen(5, 9), {}, 4), Terminal(Screen(6, 9), {Screen(7, 12)}, 3) }
MCShrinking == {Terminal(Screen(7, 12), {Screen(6, 4)}, 3)}
MCGrowing   == {Terminal(Screen(6, 9), {Screen(7, 28)}, 3)}
MCOneSize   == {Terminal(Screen(6, 9), {}, 3)}
MCSmall     == {Terminal(Screen(3, 9), {}, 3)}
MCDeltas    == {-2, 1}

MCInit ==
    /\ Init
    /\ SizesInit
    /\ \/ subject = "list" /\ terminal = (CHOOSE t \in Terminals : TRUE)
       \/ subject = "sizes" /\ z = Single(a)

MCNext ==
    \/ subject = "list" /\ Next /\ UNCHANGED <<sizeVars, subject>>
    \/ subject = "sizes" /\ SizesNext /\ UNCHANGED <<vars, subject>>

MCSpec == MCInit /\ [][MCNext]_allVars
=============================================================================
