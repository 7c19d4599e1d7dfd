------------------------------- MODULE Layout -------------------------------
(***************************************************************************)
(* Which buffers are open, which windows show them and which buffer is the *)
(* active one: Buffers (src/src/buffer/buffers.rs), Layout                 *)
(* (src/src/ui/layout.rs) and the editor actions that drive them           *)
(* (src/src/editor/), together with what the log events sent by those      *)
(* actions make the filesystem believe (src/src/fsys/buffer.rs).           *)
(*                                                                         *)
(* A buffer's text is kept as its length and its selection as one cursor.  *)
(* A window is its view: the buffer it shows and the cursor to restore     *)
(* when the window is focused again.  Sizes and scroll offsets are not     *)
(* kept.  Every action ends with the refresh that follows every event.     *)
(***************************************************************************)
EXTENDS ZipList, JumpList

CONSTANTS
    Files, Dirs,     \* paths of files and of directories
    Names,           \* names of virtual buffers
    Scenes,          \* what happens: features, paths, names, the lengths a
                     \* text may have, and a bound on the ids of buffers
    MaxWindows,      \* bound on the number of windows
    MaxViews         \* bound on the number of stored views

(* delete: buffers are deleted; status_click: the status line is clicked;  *)
(* shrink: texts get shorter; scratch: the scratch buffer is used; output: *)
(* commands write output                                                   *)
FeatureSet == {"delete", "status_click", "shrink", "scratch", "output"}

ASSUME LayoutAssumption ==
    \A sc \in Scenes :
        /\ sc.features \subseteq FeatureSet
        /\ sc.paths \subseteq Files \cup Dirs /\ sc.names \subseteq Names
        /\ 0 \in sc.lens /\ sc.lens \subseteq Nat /\ sc.maxId \in Nat

VARIABLES
    ed,     \* the editor: buffers, jump list, columns, stored views, scratch
    fsys,   \* the buffers and the current buffer the filesystem knows of
    scene   \* the scene, chosen at the start

vars == <<ed, fsys, scene>>

Buf(id, kind, name, n) == [id |-> id, kind |-> kind, name |-> name, len |-> n, dot |-> 0]

View(id) == [bufid |-> id, cur |-> 0]

Active(s) == s.bufs.focus

Ids(s) == { b.id : b \in Elems(s.bufs) }

AllWithId(s, id) == { b \in Elems(s.bufs) : b.id = id }

WithId(s, id) == CHOOSE b \in AllWithId(s, id) : TRUE

FocusedView(s) == s.cols.focus.focus

Windows(s) == UNION { Elems(c) : c \in Elems(s.cols) }

NOpenWindows(s) == FoldLeft(LAMBDA n, c : n + ZLen(c), 0, Flatten(s.cols))

Visible(s, id) == \E w \in Windows(s) : w.bufid = id

Unfocused(s) == [s EXCEPT !.scratch.focused = FALSE]

Panicked(s) == [s EXCEPT !.status = "panicked"]

-----------------------------------------------------------------------------
(* Buffers *)

RecordJump(s) == [s EXCEPT !.jl = JumpPush(@, [id |-> Active(s).id, cur |-> Active(s).dot])]

FocusIdSilent(s, id) == [s EXCEPT !.bufs = FocusBy(@, AllWithId(s, id))]

FocusId(s, id) ==
    IF id \notin Ids(s) \/ Active(s).id = id THEN s ELSE FocusIdSilent(RecordJump(s), id)

IsEmptySquirrel(s) ==
    ZLen(s.bufs) = 1 /\ Active(s).kind = "unnamed" /\ Active(s).len = 0

WithPath(s, p) ==
    { b \in Elems(s.bufs) : b.kind \in {"file", "dir"} /\ b.name = p }

Kind(p) == IF p \in Dirs THEN "dir" ELSE "file"

SetActive(s, b) == [s EXCEPT !.bufs.focus = b]

(* a text of length n whose cursor is clamped to it *)
Resized(b, n) == [b EXCEPT !.len = n, !.dot = IF @ <= n THEN @ ELSE n]

PushNew(s, b) ==
    [RecordJump(s) EXCEPT !.bufs = Insert(@, b), !.nextId = @ + 1]

(* open_or_focus of Buffers: n is the length of what is on disk *)
OpenOrFocus(s, p, n, retain) ==
    LET new == Buf(s.nextId, Kind(p), p, n)
    IN  IF Active(s).kind = "dir" /\ p \in Dirs
        THEN SetActive(s, [Active(s) EXCEPT !.name = p, !.len = n, !.dot = 0])
        ELSE IF WithPath(s, p) # {}
        THEN FocusIdSilent(RecordJump(s), (CHOOSE b \in WithPath(s, p) : TRUE).id)
        ELSE IF ~retain /\ IsEmptySquirrel(s)
        THEN [SetActive(s, new) EXCEPT !.nextId = @ + 1]
        ELSE PushNew(s, new)

VirtualWithName(s, name) ==
    { b \in Elems(s.bufs) : b.kind = "virtual" /\ b.name = name }

BufferOpenVirtual(s, name, n) ==
    IF VirtualWithName(s, name) = {} THEN PushNew(s, Buf(s.nextId, "virtual", name, n))
    ELSE LET focused == FocusId(s, (CHOOSE b \in VirtualWithName(s, name) : TRUE).id)
         IN  SetActive(focused, Resized(Active(focused), n))

BufferClose(s, id) ==
    [s EXCEPT !.bufs = RemoveWhereWithDefault(@, AllWithId(s, id),
                                              Buf(s.nextId, "unnamed", "", 0)),
              !.jl = JumpsClearedFor(@, id),
              !.nextId = @ + 1]

-----------------------------------------------------------------------------
(* Views and windows *)

StoredView(s, id) ==
    LET hits == { i \in DOMAIN s.views : s.views[i].bufid = id }
    IN  IF hits = {} THEN [view |-> View(id), rest |-> s.views]
        ELSE [view |-> s.views[Min(hits)], rest |-> RemoveAt(s.views, Min(hits))]

(* mutant: the view of a buffer that is gone is stored too                 *)
ShowInActiveKeepsAll(s, id) ==
    IF FocusedView(s).bufid = id THEN Unfocused(s)
    ELSE [Unfocused(s) EXCEPT !.cols.focus.focus = StoredView(s, id).view,
                              !.views = Append(StoredView(s, id).rest, FocusedView(s))]

ShowInActive(s, id) ==
    IF FocusedView(s).bufid = id THEN Unfocused(s)
    ELSE LET st  == StoredView(s, id)
             old == FocusedView(s)
         IN  [Unfocused(s) EXCEPT
                !.cols.focus.focus = st.view,
                !.views = IF old.bufid \in Ids(s) THEN Append(st.rest, old) ELSE st.rest]

ShowInNew(s, id) ==
    LET st   == IF FocusedView(s).bufid = id
                THEN [view |-> FocusedView(s), rest |-> s.views] ELSE StoredView(s, id)
        kept == [Unfocused(s) EXCEPT !.views = st.rest]
        tail == FocusTail(s.cols)
        shown == IF ZLen(s.cols) = 1
                 THEN FocusTail(InsertAtPos(s.cols, "Tail", Single(st.view)))
                 ELSE [tail EXCEPT !.focus = FocusTail(InsertAtPos(@, "Tail", st.view))]
    IN  FocusId([kept EXCEPT !.cols = shown], id)

FocusFirstWindow(s, id) ==
    LET shows == { w \in Windows(s) : w.bufid = id }
        cols  == FocusBy(s.cols, { c \in Elems(s.cols) : Elems(c) \cap shows # {} })
    IN  [Unfocused(s) EXCEPT !.cols = [cols EXCEPT !.focus = FocusBy(@, shows)]]

ShowOpened(s, newWindow) ==
    LET id == Active(s).id
    IN  IF Visible(s, id) THEN FocusFirstWindow(s, id)
        ELSE IF newWindow THEN ShowInNew(s, id) ELSE ShowInActive(s, id)

(* View::clamp_scroll: the view takes the cursor of the active buffer, and *)
(* converting a cursor beyond the end of the text to a line panics         *)
ClampView(s) ==
    IF Active(s).dot > Active(s).len THEN Panicked(s)
    ELSE [s EXCEPT !.cols.focus.focus.cur = Active(s).dot]

ForceCursor(s) == ClampView([s EXCEPT !.bufs.focus.dot = FocusedView(s).cur])

(* Layout::clamp_scroll, run by the refresh after every event: looking up  *)
(* the buffer of a window that shows an unknown one panics                 *)
Refresh(s) ==
    IF s.status # "running" THEN s
    ELSE IF ~({ w.bufid : w \in Windows(s) } \subseteq Ids(s)) THEN Panicked(s)
    ELSE ClampView(s)

(* mutant: the focus moves to another window and the active buffer stays   *)
FocusNothing(s) == s

FocusFocusedView(s) == FocusId(s, FocusedView(s).bufid)

(* mutant: the scratch buffer keeps the focus when it is hidden            *)
ScratchHidden(sc) ==
    [transient |-> sc.transient /\ ~sc.visible,
     visible |-> ~sc.visible, focused |-> TRUE]

ScratchToggled(sc) ==
    [transient |-> sc.transient /\ ~sc.visible,
     visible |-> ~sc.visible, focused |-> ~sc.visible]

(* mutant: only the columns that show nothing else are closed              *)
CloseActiveColumns(s) ==
    LET id     == Active(s).id
        closed == BufferClose([s EXCEPT !.views = SelectSeq(@, LAMBDA v : v.bufid # id)], id)
        others == { w \in Windows(s) : w.bufid # id }
    IN  [closed EXCEPT
            !.cols = IF others = {} THEN Single(Single(View(Active(closed).id)))
                     ELSE FilterUnchecked(@, { c \in Elems(@) : Elems(c) \cap others # {} })]

(* close_buffer of Layout, for the active buffer.  The stored view it      *)
(* looks for is the closed buffer's, which it has just dropped.            *)
CloseActive(s) ==
    LET id     == Active(s).id
        closed == BufferClose([s EXCEPT !.views = SelectSeq(@, LAMBDA v : v.bufid # id)], id)
        others == { w \in Windows(s) : w.bufid # id }
        cols   == FilterUnchecked(s.cols, { c \in Elems(s.cols) : Elems(c) \cap others # {} })
    IN  [closed EXCEPT
            !.cols = IF others = {} THEN Single(Single(View(Active(closed).id)))
                     ELSE ZMap(cols, LAMBDA c : FilterUnchecked(c, others))]

-----------------------------------------------------------------------------
(* What the log events make the filesystem believe *)

OpenEvent(f, id) == [f EXCEPT !.known = @ \cup {id}]

CloseEvent(f, id) == [f EXCEPT !.known = @ \ {id}]

FocusEvent(f, id) == [f EXCEPT !.current = id]

-----------------------------------------------------------------------------
(* Actions *)

Bounded(s) ==
    /\ s.nextId <= scene.maxId + 1
    /\ NOpenWindows(s) <= MaxWindows
    /\ Len(s.views) <= MaxViews

Handled(s, f) ==
    /\ ed.status = "running"
    /\ Bounded(s)
    /\ ed' = Refresh(s)
    /\ fsys' = f
    /\ UNCHANGED scene

(* texts get shorter only in runs with that feature *)
MayBecome(b, n) == n >= b.len \/ "shrink" \in scene.features

(* Editor::open_file when the path can be opened.  When the buffer already *)
(* existed and its file changed on disk the user may ask to reload it.     *)
OpenFile ==
    \E p \in scene.paths, n \in scene.lens, newWindow, reload \in BOOLEAN :
        LET new    == newWindow /\ ~IsEmptySquirrel(ed)
            opened == OpenOrFocus(ed, p, n, new \/ NOpenWindows(ed) > 1)
            shown  == ShowOpened(Unfocused(opened), new)
            fresh  == opened.nextId > ed.nextId
            closed == IF IsEmptySquirrel(ed) THEN CloseEvent(fsys, Active(ed).id) ELSE fsys
        IN  IF fresh
            THEN /\ ~reload
                 /\ Handled(shown, FocusEvent(OpenEvent(closed, ed.nextId), ed.nextId))
            ELSE /\ MayBecome(WithId(ed, Active(shown).id), n)
                 /\ Handled(IF reload THEN SetActive(shown, Resized(Active(shown), n)) ELSE shown,
                            IF Active(shown).id # Active(ed).id
                            THEN FocusEvent(fsys, Active(shown).id) ELSE fsys)

(* Editor::open_file when resolving the path fails, or reading the file    *)
OpenFileFails ==
    \E used \in {0, 1} : Handled([Unfocused(ed) EXCEPT !.nextId = @ + used], fsys)

EnsureFileIsOpen ==
    \E p \in scene.paths, n \in scene.lens :
        /\ WithPath(ed, p) = {}
        /\ Handled([ed EXCEPT !.nextId = @ + 1,
                              !.bufs = InsertAtPos(@, "Tail", Buf(ed.nextId, Kind(p), p, n))],
                   fsys)

OpenVirtual ==
    \E name \in scene.names, n \in scene.lens :
        /\ \A b \in VirtualWithName(ed, name) : MayBecome(b, n)
        /\ Handled(ShowOpened(BufferOpenVirtual(Unfocused(ed), name, n), TRUE), fsys)

(* AppendToOutputBuffer: one output buffer for all commands *)
WriteOutput ==
    \E n \in scene.lens :
        LET outs == { b \in Elems(ed.bufs) : b.kind = "output" }
            out  == IF outs = {} THEN Buf(ed.nextId, "output", "+output", n)
                    ELSE CHOOSE b \in outs : TRUE
            written == IF outs = {} THEN PushNew(ed, out)
                       ELSE [ed EXCEPT !.bufs = ZMap(@, LAMBDA b :
                                IF b.id = out.id THEN Resized(b, n) ELSE b)]
        IN  /\ "output" \in scene.features
            /\ n >= out.len
            /\ Handled(IF Visible(written, out.id) THEN written
                       ELSE ShowInNew(written, out.id), fsys)

(* Editor::delete_buffer, forced or of a clean buffer *)
DeleteBuffer ==
    /\ "delete" \in scene.features
    /\ Handled(IF ZLen(ed.bufs) = 1 THEN [Unfocused(ed) EXCEPT !.status = "stopped"]
               ELSE CloseActive(Unfocused(ed)),
               CloseEvent(fsys, Active(ed).id))

(* Editor::focus_buffer: a window that shows the buffer is preferred       *)
(* unless the active window is to be used.  A client can ask for any id.   *)
FocusBuffer ==
    \E id \in 0 .. scene.maxId, forceActive \in BOOLEAN :
        LET focused == FocusId(Unfocused(ed), id)
        IN  Handled(IF Active(focused).id = Active(ed).id THEN focused
                    ELSE IF ~forceActive /\ Visible(focused, id) THEN FocusFirstWindow(focused, id)
                    ELSE ShowInActive(focused, id),
                    FocusEvent(fsys, id))

FocusMoved(bufs) ==
    LET moved == [Unfocused(ed) EXCEPT !.bufs = bufs]
    IN  Handled(ShowInActive(moved, Active(moved).id), FocusEvent(fsys, Active(moved).id))

NextBuffer == FocusMoved(FocusDown(ed.bufs))

PreviousBuffer == FocusMoved(FocusUp(ed.bufs))

(* jump_forward and jump_backward of Layout; "r" is what the jump list     *)
(* returned.  Jumping to a buffer that is not open moves nothing.          *)
Jumped(r) ==
    LET listed == [ed EXCEPT !.jl = r.jl]
        found  == FocusIdSilent(listed, r.to[1].id)
        b      == Active(found)
        there  == IF b.id # r.to[1].id THEN found
                  ELSE SetActive(found, Resized([b EXCEPT !.dot = r.to[1].cur], b.len))
    IN  IF r.to = <<>> THEN Handled(listed, fsys)
        ELSE Handled(ShowInActive(there, b.id),
                     IF b.id = Active(ed).id THEN fsys ELSE FocusEvent(fsys, b.id))

JumpListForward == Jumped(JumpForward(ed.jl))

JumpListBack == Jumped(JumpBackward(ed.jl, [id |-> Active(ed).id, cur |-> Active(ed).dot]))

(* The focus moves to another window: its buffer becomes the active one    *)
(* and gets back the cursor it had in that window                          *)
WindowFocused(cols) ==
    LET s == FocusFocusedView([Unfocused(ed) EXCEPT !.cols = cols])
    IN  Handled(ForceCursor(s), FocusEvent(fsys, Active(s).id))

InColumn(wins) == [ed.cols EXCEPT !.focus = wins]

NextColumn == WindowFocused(FocusDown(ed.cols))

PreviousColumn == WindowFocused(FocusUp(ed.cols))

NextWindowInColumn == WindowFocused(InColumn(FocusDown(ed.cols.focus)))

PreviousWindowInColumn == WindowFocused(InColumn(FocusUp(ed.cols.focus)))

ScratchSwitched == Handled([ed EXCEPT !.scratch = ScratchToggled(@)], fsys)

(* Closing a column: the only one is not closed, the editor exits          *)
ColumnClosed ==
    IF ZLen(ed.cols) = 1 THEN Handled([ed EXCEPT !.status = "stopped"], fsys)
    ELSE Handled(FocusFocusedView([ed EXCEPT !.cols = RemoveFocused(@)]), fsys)

DeleteWindow ==
    IF ed.scratch.focused THEN ScratchSwitched
    ELSE IF ZLen(ed.cols.focus) = 1 THEN ColumnClosed
    ELSE Handled(FocusFocusedView([ed EXCEPT !.cols.focus = RemoveFocused(@)]), fsys)

DeleteColumn == IF ed.scratch.focused THEN ScratchSwitched ELSE ColumnClosed

NewColumn ==
    Handled([Unfocused(ed) EXCEPT
                !.cols = FocusTail(InsertAtPos(@, "Tail", Single(FocusedView(ed))))], fsys)

NewWindow ==
    Handled([Unfocused(ed) EXCEPT
                !.cols.focus = FocusTail(InsertAtPos(@, "Tail", FocusedView(ed)))], fsys)

Dragged(cols) == Handled([Unfocused(ed) EXCEPT !.cols = cols], fsys)

DragUp == Dragged(InColumn(SwapUp(ed.cols.focus)))

DragDown == Dragged(InColumn(SwapDown(ed.cols.focus)))

(* the columns with the focused window taken out of a larger column        *)
Lifted == InColumn(RemoveFocused(ed.cols.focus))

Dropped(cols) == [cols EXCEPT !.focus = Insert(@, FocusedView(ed))]

Alone == ZLen(ed.cols.focus) = 1

DragLeft ==
    Dragged(
        IF ed.cols.up = <<>>
        THEN IF Alone THEN ed.cols
             ELSE FocusUp(InsertAtPos(Lifted, "Head", Single(FocusedView(ed))))
        ELSE Dropped(FocusUp(IF Alone THEN RemoveFocused(ed.cols) ELSE Lifted)))

DragRight ==
    Dragged(
        IF ed.cols.down = <<>>
        THEN IF Alone THEN ed.cols
             ELSE FocusDown(InsertAtPos(Lifted, "Tail", Single(FocusedView(ed))))
        ELSE Dropped(IF Alone THEN RemoveFocused(ed.cols) ELSE FocusDown(Lifted)))

(* focus_buffer_for_screen_coords within a window: the window and its      *)
(* buffer take the focus.  A left click also places the cursor there; the  *)
(* other buttons tell the filesystem even when the buffer was active.      *)
Click ==
    \E i \in 1 .. ZLen(ed.cols) :
        LET col == FocusedAt(ed.cols, i)
        IN  \E j \in 1 .. ZLen(col.focus), left \in BOOLEAN :
                LET s  == FocusFocusedView([Unfocused(ed) EXCEPT
                              !.cols = [col EXCEPT !.focus = FocusedAt(@, j)]])
                    id == Active(s).id
                IN  \E c \in 0 .. Active(s).len :
                        /\ left \/ c = Active(s).dot
                        /\ Handled([s EXCEPT !.bufs.focus.dot = c],
                                   IF left /\ ~ed.scratch.focused /\ id = Active(ed).id
                                   THEN fsys ELSE FocusEvent(fsys, id))

(* the same below the last row of windows: the column takes the focus, its *)
(* head window too, and no buffer does                                     *)
StatusClick ==
    /\ "status_click" \in scene.features
    /\ \E i \in 1 .. ZLen(ed.cols), c \in 0 .. Active(ed).len :
            LET col == FocusedAt(ed.cols, i)
            IN  Handled([Unfocused(ed) EXCEPT
                            !.cols = [col EXCEPT !.focus = FocusHead(@)],
                            !.bufs.focus.dot = c],
                        IF ed.scratch.focused THEN FocusEvent(fsys, Active(ed).id) ELSE fsys)

(* pressing on the border after a column, or below a window                *)
BorderClick ==
    \E i \in 1 .. ZLen(ed.cols) :
        LET col  == FocusedAt(ed.cols, i)
            s    == [Unfocused(ed) EXCEPT !.cols = col]
            colS == FocusIdSilent(s, FocusedView(s).bufid)
        IN  \/ i < ZLen(ed.cols) /\ Handled(colS, fsys)
            \/ \E j \in 1 .. ZLen(col.focus) - 1 :
                   LET t == [colS EXCEPT !.cols.focus = FocusedAt(@, j)]
                   IN  Handled(FocusIdSilent(t, FocusedView(t).bufid), fsys)

ToggleScratch == "scratch" \in scene.features /\ ScratchSwitched

OpenTransientScratch ==
    /\ "scratch" \in scene.features
    /\ Handled([ed EXCEPT !.scratch =
                   [transient |-> TRUE, visible |-> TRUE, focused |-> TRUE]], fsys)

(* FocusBuffer with the id of the scratch buffer, or a click on it         *)
FocusScratch ==
    /\ "scratch" \in scene.features
    /\ Handled([ed EXCEPT !.scratch.visible = TRUE, !.scratch.focused = TRUE], fsys)

(* An edit of any buffer by the user or a client, or a cursor movement.    *)
(* Buffer keeps its own cursor within its text.                            *)
Edit ==
    \E id \in Ids(ed), n \in scene.lens :
        \E c \in 0 .. n :
            /\ MayBecome(WithId(ed, id), n)
            /\ Handled([ed EXCEPT !.bufs = ZMap(@, LAMBDA b :
                            IF b.id = id THEN [b EXCEPT !.len = n, !.dot = c] ELSE b)], fsys)

Init ==
    /\ ed = [bufs    |-> Single(Buf(0, "unnamed", "", 0)),
             nextId  |-> 1,
             jl      |-> NoJumps,
             cols    |-> Single(Single(View(0))),
             views   |-> <<>>,
             scratch |-> [transient |-> FALSE, visible |-> FALSE, focused |-> FALSE],
             status  |-> "running"]
    /\ fsys = [known |-> {0}, current |-> 0]
    /\ scene \in Scenes

Next ==
    \/ OpenFile \/ OpenFileFails \/ EnsureFileIsOpen \/ OpenVirtual \/ WriteOutput
    \/ DeleteBuffer \/ FocusBuffer \/ NextBuffer \/ PreviousBuffer
    \/ JumpListForward \/ JumpListBack
    \/ NextColumn \/ PreviousColumn \/ NextWindowInColumn \/ PreviousWindowInColumn
    \/ DeleteWindow \/ DeleteColumn \/ NewColumn \/ NewWindow
    \/ DragUp \/ DragDown \/ DragLeft \/ DragRight
    \/ Click \/ StatusClick \/ BorderClick
    \/ ToggleScratch \/ OpenTransientScratch \/ FocusScratch \/ Edit

Spec == Init /\ [][Next]_vars

-----------------------------------------------------------------------------
(* Properties *)

(* Types, and the ids of the open buffers are distinct and below the next  *)
(* one to be given out (buffers.rs: next_id is bumped by every operation   *)
(* that makes a buffer), on which every lookup by id relies.               *)
TypeOK ==
    /\ \A b \in Elems(ed.bufs) :
           /\ b.id \in 0 .. ed.nextId - 1
           /\ b.kind \in {"unnamed", "file", "dir", "virtual", "output"}
           /\ b.len \in scene.lens /\ b.dot \in 0 .. b.len
    /\ Cardinality(Ids(ed)) = ZLen(ed.bufs)
    /\ ed.jl.idx \in 0 .. Usize - 1 /\ Len(ed.jl.jumps) <= MaxJumps
    /\ ed.status \in {"running", "stopped", "panicked"}
    /\ fsys.known \subseteq Nat /\ fsys.current \in Nat /\ scene \in Scenes

(* Every window shows an open buffer, whatever is opened, closed, dragged  *)
(* or jumped to ("held unknown bufid" of assert_invariants); the editor    *)
(* panics on a window that does not.                                       *)
WindowsKnown == \A w \in Windows(ed) : w.bufid \in Ids(ed)

(* Every stored view is of an open buffer ("stored view held unknown       *)
(* bufid" of assert_invariants).                                           *)
ViewsKnown == \A i \in DOMAIN ed.views : ed.views[i].bufid \in Ids(ed)

(* The focused window shows the active buffer: keys go to the buffer the   *)
(* user sees under the cursor, and clamp_scroll, which applies the active  *)
(* buffer's cursor to the focused view, applies it to a view of it.        *)
FocusAlwaysMatches == ed.status = "running" => FocusedView(ed).bufid = Active(ed).id

(* It does unless a buffer is deleted or the status line clicked.          *)
FocusMatches == scene.features \cap {"delete", "status_click"} = {} => FocusAlwaysMatches

(* The cursor a window restores when it is focused is within the buffer it *)
(* shows (clamp_scroll: "ensure that all other views are within bounds for *)
(* the end of the buffer").                                                *)
CursorsInBounds ==
    \A w \in Windows(ed) : w.bufid \in Ids(ed) => w.cur <= WithId(ed, w.bufid).len

(* No sequence of editor actions panics in the refresh that follows or in  *)
(* restoring a window's cursor.                                            *)
NeverPanics == ed.status # "panicked"

(* What assert_invariants asserts and the handlers rely on, after any       *)
(* sequence of them: ids are unique, stored views are of open buffers, the  *)
(* cursors that windows restore are inside of the buffers they show, and    *)
(* the refresh after an action does not panic.                              *)
LayoutInv ==
    /\ TypeOK
    /\ ViewsKnown
    /\ CursorsInBounds
    /\ NeverPanics

(* The filesystem lists no buffer that is not open.                        *)
FsysKnowsOpenOnly == ed.status = "running" => fsys.known \subseteq Ids(ed)

(* A closed buffer is forgotten by everyone who knew it by its id: no       *)
(* window of any column shows it, and the filesystem does not list it       *)
(* (close_buffer, LogEvent::Close).                                         *)
ClosedForgotten ==
    /\ WindowsKnown
    /\ FsysKnowsOpenOnly

(* The filesystem lists every open buffer that is not virtual or output    *)
(* (fsys/mod.rs: "a listing of all of the currently open buffers").        *)
FsysKnowsAllOpen ==
    ed.status = "running" =>
        { b.id : b \in { x \in Elems(ed.bufs) : x.kind \in {"unnamed", "file", "dir"} } }
            \subseteq fsys.known

(* buffers/current names the active buffer (fsys/mod.rs: "the fsys         *)
(* filename of the current buffer").                                       *)
FsysCurrentIsActive == ed.status = "running" => fsys.current = Active(ed).id

(* A path is open at most once (open_or_focus: "we focus that buffer       *)
(* instead of opening a duplicate").                                       *)
NoDuplicatePaths == \A p \in scene.paths : Cardinality(WithPath(ed, p)) <= 1

(* Input never goes to a scratch buffer that is not on the screen, and a   *)
(* transient scratch buffer does not outlive its window (Scratch::toggle). *)
ScratchShown == (ed.scratch.focused \/ ed.scratch.transient) => ed.scratch.visible

(* The user sees what is typed: the focused window shows the active buffer  *)
(* and a focused scratch buffer is on the screen, also when the buffers     *)
(* they show are closed.                                                    *)
InputShown ==
    /\ FocusMatches
    /\ ScratchShown

(* The index of the jump list stays within it: jumping back from a         *)
(* position that is already marked must not step below the first one.      *)
JumpIndexInBounds == ed.jl.idx <= Len(ed.jl.jumps)

(* Dragging a window that is alone in its column to the left puts it in    *)
(* the next column to the left (drag_left).                                *)
DragLeftMovesOne ==
    [][DragLeft /\ Alone /\ ed.cols.up # <<>>
          => Len(ed'.cols.up) = Len(ed.cols.up) - 1]_vars
=============================================================================
