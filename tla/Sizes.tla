------------------------------- MODULE Sizes --------------------------------
(***************************************************************************)
(* The widths of the columns and the heights of the windows (Growable,     *)
(* calculate_dims and the callers of balance_columns and                   *)
(* balance_active_column in src/src/ui/layout.rs).  Blocks on a line are   *)
(* separated by one row or column of border, and are meant to fill it.     *)
(*                                                                         *)
(* Sizes are usize: a release build wraps around where a debug build       *)
(* panics.  The sizes here are those of the release build, and overflowed  *)
(* records that the debug build would have panicked.                       *)
(***************************************************************************)
EXTENDS ZipList

CONSTANTS
    Shown,          \* the buffers that windows show
    Terminals,      \* the screen size at first and those later, [rows, cols],
                    \* with a bound on the number of windows
    Deltas,         \* what blocks are resized by
    MinDim,         \* MIN_DIM, 5 in the code
    SizeLimit,      \* the number of values of a usize
    MaxCols,        \* bound: columns
    MaxWins         \* bound: windows in a column

ASSUME SizesAssumption ==
    /\ \A t \in Terminals :
           {t.first} \cup t.later \subseteq [rows : 1 .. SizeLimit - 1, cols : 1 .. SizeLimit - 1]
    /\ MinDim \in Nat /\ Deltas \subseteq Int

VARIABLES
    cols,       \* Layout.cols: columns of windows
    screen,     \* screen_rows and screen_cols
    overflowed, \* has an unsigned subtraction gone below zero?
    rescaled,   \* history: the ways the screen has changed, "up" and "down"
    terminal    \* the terminal, chosen at the start

sizeVars == <<cols, screen, overflowed, rescaled, terminal>>

Win(n, b) == [size |-> n, buf |-> b]

(* Column::new with one window *)
NewCol(b) == [size |-> screen.cols, wins |-> Single(Win(screen.rows, b))]

Buf0 == CHOOSE b \in Shown : TRUE

----------------------------------------------------------------------------
(* calculate_dims: n blocks on a line of t *)
DimsFit(t, n) == t + 1 >= n

CalculateDims(t, n) ==
    LET size == ((t + 1) \div n - 1) % SizeLimit
    IN  [size |-> size, slop |-> (t + 1 - n * (size + 1)) % SizeLimit]

(* every block gets f(block), and the first slop of them one more *)
Sized(z, f(_), slop) ==
    LET New(e, i) == [e EXCEPT !.size = (f(e) + (IF i <= slop THEN 1 ELSE 0)) % SizeLimit]
        at == Len(z.up) + 1
    IN  Z([i \in DOMAIN z.up |-> New(z.up[i], at - i)], New(z.focus, at),
          [i \in DOMAIN z.down |-> New(z.down[i], at + i)])

(* Column::balance_windows and balance_columns *)
Balanced(z, t) ==
    LET dims == CalculateDims(t, ZLen(z)) IN Sized(z, LAMBDA e : dims.size, dims.slop)

BalancedWins(c) == [c EXCEPT !.wins = Balanced(@, screen.rows)]

BalancedActive(cs) == [cs EXCEPT !.focus = BalancedWins(@)]

BalancedCols(cs) == Balanced(cs, screen.cols)

(* Growable::clamped_sub: the new size and what was taken *)
ClampedSub(size, delta) ==
    IF size - delta >= MinDim THEN [size |-> size - delta, actual |-> delta]
    ELSE [size |-> MinDim, actual |-> (size - MinDim) % SizeLimit]

(* the focused block and another one after the first has grown by delta *)
Grown(focus, other, delta) ==
    LET sub == ClampedSub(IF delta < 0 THEN focus.size ELSE other.size,
                          IF delta < 0 THEN -delta ELSE delta)
        Plus(e) == [e EXCEPT !.size = (@ + sub.actual) % SizeLimit]
        Less(e) == [e EXCEPT !.size = sub.size]
    IN  IF delta < 0 THEN [focus |-> Less(focus), other |-> Plus(other)]
        ELSE [focus |-> Plus(focus), other |-> Less(other)]

GrowAgainstNext(z, delta) ==
    IF z.down = <<>> THEN z
    ELSE LET g == Grown(z.focus, z.down[1], delta)
         IN  Z(z.up, g.focus, <<g.other>> \o Tail(z.down))

GrowFocus(z, delta) ==
    IF z.up = <<>> THEN GrowAgainstNext(z, delta)
    ELSE LET g == Grown(z.focus, z.up[1], delta)
         IN  Z(<<g.other>> \o Tail(z.up), g.focus, z.down)

Sizes(z) == [i \in 1 .. ZLen(z) |-> Flatten(z)[i].size]

Total(z) == FoldLeft(LAMBDA n, m : n + m, ZLen(z) - 1, Sizes(z))

(* mutant: the borders do not count towards the total *)
ScaleSizesNoBorders(z, old, new, low) ==
    LET Scaled(e) == (e.size * new) \div old - (IF e.size \in low THEN 1 ELSE 0)
    IN  Sized(z, Scaled, (new + ZLen(z) - 1 - Total(Sized(z, Scaled, 0))) % SizeLimit)

(* scale_sizes.  The ratio is a float: where the exact product is a whole  *)
(* number the computed one may be just below it, for the sizes in low.     *)
ScaleSizes(z, old, new, low) ==
    LET Scaled(e) == (e.size * new) \div old - (IF e.size \in low THEN 1 ELSE 0)
    IN  Sized(z, Scaled, (new - Total(Sized(z, Scaled, 0))) % SizeLimit)

ScaleFits(z, old, new, low) ==
    Total(Sized(z, LAMBDA e : (e.size * new) \div old - (IF e.size \in low THEN 1 ELSE 0), 0)) <= new

MayRoundDown(S, old, new) ==
    IF new % old = 0 THEN {} ELSE { n \in S : n * new > 0 /\ (n * new) % old = 0 }

----------------------------------------------------------------------------
SizesInit ==
    /\ terminal \in Terminals
    /\ screen = terminal.first
    /\ cols = Single(NewCol(Buf0))
    /\ overflowed = FALSE
    /\ rescaled = {}

(* the columns become cs; ok tells whether all subtractions were in range  *)
Arranged(cs, ok) ==
    /\ ~overflowed
    /\ ZLen(cs) <= MaxCols
    /\ \A c \in Elems(cs) : ZLen(c.wins) <= MaxWins
    /\ FoldLeft(LAMBDA n, c : n + ZLen(c.wins), 0, Flatten(cs)) <= terminal.maxOpen
    /\ cols' = cs
    /\ overflowed' = ~(ok /\ DimsFit(screen.cols, ZLen(cs))
                          /\ \A c \in Elems(cs) : DimsFit(screen.rows, ZLen(c.wins)))
    /\ UNCHANGED <<screen, rescaled, terminal>>

FocusedWin == cols.focus.wins.focus

Lone == ZLen(cols.focus.wins) = 1

SizedNewColumn ==
    Arranged(BalancedCols(FocusTail(InsertAtPos(cols, "Tail", NewCol(FocusedWin.buf)))), TRUE)

WithWindow(cs, w) ==
    BalancedActive([cs EXCEPT !.focus.wins = FocusTail(InsertAtPos(@, "Tail", w))])

SizedNewWindow == Arranged(WithWindow(cols, Win(0, FocusedWin.buf)), TRUE)

ShowBufferInNewWindow(b) ==
    Arranged(IF ZLen(cols) = 1 THEN BalancedCols(FocusTail(InsertAtPos(cols, "Tail", NewCol(b))))
             ELSE WithWindow(FocusTail(cols), Win(0, b)), TRUE)

ShowBufferInActiveWindow(b) == Arranged([cols EXCEPT !.focus.wins.focus.buf = b], TRUE)

CloseActiveColumn ==
    /\ ZLen(cols) > 1
    /\ Arranged(BalancedCols(RemoveFocused(cols)), TRUE)

Lifted == BalancedActive([cols EXCEPT !.focus.wins = RemoveFocused(@)])

CloseActiveWindow == IF Lone THEN CloseActiveColumn ELSE Arranged(Lifted, TRUE)

(* the windows on a closed buffer go, and the columns with no others *)
CloseBuffer(b) ==
    LET Others(c) == { w \in Elems(c.wins) : w.buf # b }
        left   == { c \in Elems(cols) : Others(c) # {} }
        kept   == FilterUnchecked(cols, left)
        placed == IF ZLen(kept) < ZLen(cols) THEN BalancedCols(kept) ELSE kept
        Closed(c) == IF Others(c) = Elems(c.wins) THEN c
                     ELSE BalancedWins([c EXCEPT !.wins = FilterUnchecked(@, Others(c))])
    IN  IF left = {} THEN \E o \in Shown \ {b} : Arranged(Single(NewCol(o)), TRUE)
        ELSE Arranged(ZMap(placed, Closed), TRUE)

PutInto(cs) == BalancedActive([cs EXCEPT !.focus.wins = Insert(@, FocusedWin)])

(* a window that is dragged out of its column keeps its height *)
OwnColumn == [NewCol(FocusedWin.buf) EXCEPT !.wins = Single(FocusedWin)]

SizedDragLeft ==
    /\ ZLen(cols) > 1 \/ ~Lone
    /\ Arranged(
        IF cols.up = <<>>
        THEN IF Lone THEN cols ELSE BalancedCols(FocusUp(InsertAtPos(Lifted, "Head", OwnColumn)))
        ELSE PutInto(FocusUp(
                 IF Lone THEN BalancedActive(BalancedCols(RemoveFocused(cols))) ELSE Lifted)), TRUE)

SizedDragRight ==
    /\ ZLen(cols) > 1 \/ ~Lone
    /\ Arranged(
        IF cols.down = <<>>
        THEN IF Lone THEN cols ELSE BalancedCols(FocusDown(InsertAtPos(Lifted, "Tail", OwnColumn)))
        ELSE IF Lone THEN BalancedCols(PutInto(RemoveFocused(cols)))
             ELSE PutInto(FocusDown(Lifted)), TRUE)

SizedDragUpDown ==
    \E wins \in {SwapUp(cols.focus.wins), SwapDown(cols.focus.wins)} :
        Arranged([cols EXCEPT !.focus.wins = wins], TRUE)

FocusOn(i, j) ==
    LET col == FocusedAt(cols, i)
    IN  /\ j <= ZLen(col.focus.wins)
        /\ Arranged([col EXCEPT !.focus.wins = FocusedAt(@, j)], TRUE)

(* the block that is made smaller is at least as large as the minimum *)
Roomy(z, other, delta) == (IF delta < 0 THEN z.focus.size ELSE other.size) >= MinDim

ResizeColumn(delta) ==
    /\ ZLen(cols) > 1
    /\ Arranged(GrowFocus(cols, delta),
                Roomy(cols, IF cols.up = <<>> THEN cols.down[1] ELSE cols.up[1], delta))

ResizeWindow(delta) ==
    LET wins == cols.focus.wins
    IN  /\ ~Lone
        /\ Arranged([cols EXCEPT !.focus.wins = GrowFocus(@, delta)],
                    Roomy(wins, IF wins.up = <<>> THEN wins.down[1] ELSE wins.up[1], delta))

(* dragging a border with the mouse *)
ResizeColumnAgainstNext(delta) ==
    /\ cols.down # <<>>
    /\ Arranged(GrowAgainstNext(cols, delta), Roomy(cols, cols.down[1], delta))

ResizeWindowAgainstNext(delta) ==
    LET wins == cols.focus.wins
    IN  /\ wins.down # <<>>
        /\ Arranged([cols EXCEPT !.focus.wins = GrowAgainstNext(@, delta)],
                    Roomy(wins, wins.down[1], delta))

BalanceActiveColumn == Arranged(BalancedActive(cols), TRUE)
BalanceColumns      == Arranged(BalancedCols(cols), TRUE)
BalanceWindows      == Arranged(ZMap(cols, BalancedWins), TRUE)
BalanceAll          == Arranged(ZMap(BalancedCols(cols), BalancedWins), TRUE)

(* the terminal has a new size *)
UpdateScreenSize(to) ==
    LET up      == to.rows >= screen.rows /\ to.cols >= screen.cols
        colSet  == ToSet(Sizes(cols))
        rowSet  == UNION { ToSet(Sizes(c.wins)) : c \in Elems(cols) }
    IN  /\ ~overflowed
        /\ to # screen
        /\ \E lowCols \in SUBSET MayRoundDown(colSet, screen.cols, to.cols),
              lowRows \in SUBSET MayRoundDown(rowSet, screen.rows, to.rows) :
             /\ cols' = ZMap(ScaleSizes(cols, screen.cols, to.cols, lowCols),
                             LAMBDA c : [c EXCEPT !.wins =
                                 ScaleSizes(@, screen.rows, to.rows, lowRows)])
             /\ overflowed' = ~(/\ ScaleFits(cols, screen.cols, to.cols, lowCols)
                                /\ \A c \in Elems(cols) :
                                       ScaleFits(c.wins, screen.rows, to.rows, lowRows))
        /\ screen' = to
        /\ UNCHANGED terminal
        /\ rescaled' = rescaled \cup {IF up THEN "up" ELSE "down"}

SizesNext ==
    \/ SizedNewColumn \/ SizedNewWindow \/ CloseActiveColumn \/ CloseActiveWindow
    \/ \E b \in Shown : ShowBufferInNewWindow(b) \/ ShowBufferInActiveWindow(b) \/ CloseBuffer(b)
    \/ SizedDragLeft \/ SizedDragRight \/ SizedDragUpDown
    \/ \E i \in 1 .. ZLen(cols), j \in 1 .. MaxWins : FocusOn(i, j)
    \/ \E delta \in Deltas :
           \/ ResizeColumn(delta) \/ ResizeColumnAgainstNext(delta)
           \/ ResizeWindow(delta) \/ ResizeWindowAgainstNext(delta)
    \/ BalanceActiveColumn \/ BalanceColumns \/ BalanceWindows \/ BalanceAll
    \/ \E to \in terminal.later : UpdateScreenSize(to)

----------------------------------------------------------------------------
(* Properties *)

(* The columns and their borders fill the width of the screen, and the     *)
(* windows of a column its height, after any sequence of new, closed,      *)
(* dragged and resized windows (calculate_dims: "t = n(size) + (n - 1) +   *)
(* slop").                                                                 *)
SizesAlwaysFill ==
    /\ Total(cols) = screen.cols
    /\ \A c \in Elems(cols) : Total(c.wins) = screen.rows

(* The columns also fill it when the terminal has grown ("Any existing     *)
(* layout customisation will be preserved as far as possible by converting *)
(* dimensions to be relative to the size of the full screen").             *)
SizesFillWhenGrown == "down" \notin rescaled => Total(cols) = screen.cols

(* They do while the terminal keeps its size, except that a window dragged *)
(* into a column of its own keeps its height there.                        *)
SizesFill ==
    rescaled = {} =>
        /\ Total(cols) = screen.cols
        /\ \A c \in Elems(cols) :
               IF ZLen(c.wins) > 1 THEN Total(c.wins) = screen.rows ELSE Total(c.wins) <= screen.rows

(* Nothing is drawn outside the screen: also after the terminal has grown, *)
(* when the rounding leaves a part of it empty, the blocks fit.            *)
SizesFit ==
    "down" \notin rescaled =>
        /\ Total(cols) <= screen.cols
        /\ \A c \in Elems(cols) : Total(c.wins) <= screen.rows

(* No subtraction goes below zero, and no block gets smaller than MIN_DIM, *)
(* on a screen that has room for the blocks and has not shrunk.            *)
SizesNeverUnderflow ==
    "down" \notin rescaled =>
        /\ ~overflowed
        /\ \A c \in Elems(cols) : c.size >= MinDim /\ \A w \in Elems(c.wins) : w.size >= MinDim

(* The blocks tile a screen that does not shrink: they fill it while it     *)
(* keeps its size, fit into it when it has grown, and are resized, split,   *)
(* dragged and removed without going below MIN_DIM or below zero            *)
(* (update_screen_size, balance, resize).                                   *)
SizesInv ==
    /\ SizesFill
    /\ SizesFit
    /\ SizesNeverUnderflow

(* No subtraction goes below zero when the terminal shrinks either.        *)
SizesSurviveShrinking == ~overflowed
=============================================================================
