------------------------------- MODULE Buffer -------------------------------
(***************************************************************************)
(* A text buffer of ad (src/src/buffer/mod.rs): its text, the user's       *)
(* selection dot, the selection xdot that fsys clients use, the undo log,  *)
(* the dirty flag and the file behind it.  The buffer is one record, and   *)
(* each handler of the code is an operator from records to records, so     *)
(* that a handler that calls others is written as their composition.       *)
(*                                                                         *)
(* The user edits, moves, undoes and saves; other programs rewrite the     *)
(* file with the texts of ExternalTexts.  A scene says whether the buffer  *)
(* is a file and who else acts: "reload" is the user reloading the file,   *)
(* "clients" are fsys clients that use the addr, dot, xaddr, xdot and body *)
(* files.                                                                  *)
(***************************************************************************)
EXTENDS EditLog, Dots

CONSTANTS
    NL,             \* the newline character
    Strings,        \* the strings that are inserted, line endings normalised
    ExternalTexts,  \* what other programs write to the file
    Scenes          \* a buffer, who acts on it, and bounds: the longest text
                    \* and the size of the log

ASSUME BufferAssumption ==
    /\ NL \in Char
    /\ Strings \subseteq Seq(Char)
    /\ ExternalTexts \subseteq Seq(Char)
    /\ Scenes \subseteq [isFile : BOOLEAN, features : SUBSET {"clients", "reload"},
                          maxLen : Nat, maxLog : Nat]

VARIABLES
    buf,    \* the Buffer
    disk,   \* the file: its text, and whether it is newer than last_save
    base,   \* history: the text when the log was last empty of everything
    ahead,  \* history: the text that the last recorded edit left
    scene   \* the scene, chosen at the start

vars == <<buf, disk, base, ahead, scene>>

Buffers ==
    [txt : Seq(Char), dot : DotType, xdot : DotType, log : Logs,
     dirty : BOOLEAN, isFile : BOOLEAN, panicked : BOOLEAN]

----------------------------------------------------------------------------
(* Primitive edits of the text.                                             *)

(* mutant: an edit does not mark the buffer *)
MarkNothing(b) == b

MarkDirty(b) == [b EXCEPT !.dirty = b.isFile]

Panic(b) == [b EXCEPT !.panicked = TRUE]

(* GapBuffer::insert_str past the end inserts at the end, except that an    *)
(* empty buffer accepts no index above 1.                                   *)
TxtInsert(b, i, s) ==
    LET j == IF i <= Len(b.txt) THEN i ELSE Len(b.txt)
    IN  IF Len(b.txt) = 0 /\ i > 1 THEN Panic(b)
        ELSE [b EXCEPT !.txt = SubSeq(@, 1, j) \o s \o SubSeq(@, j + 1, Len(@))]

DeleteRange(b, d) ==
    LET to == IF d.end + 1 <= Len(b.txt) THEN d.end + 1 ELSE Len(b.txt)
        s  == SubSeq(b.txt, d.start + 1, to)
    IN  IF d.start > to THEN Panic(b)
        ELSE MarkDirty([b EXCEPT !.txt = SubSeq(@, 1, d.start) \o SubSeq(@, to + 1, Len(@)),
                                 !.log = LogRecord(@, NewEdit("Delete", d.start, s, FALSE))])

DeleteCur(b, i) ==
    IF i >= Len(b.txt) THEN b
    ELSE MarkDirty([b EXCEPT !.txt = RemoveAt(@, i + 1),
                             !.log = LogRecord(@, NewEdit("Delete", i, <<b.txt[i + 1]>>, TRUE))])

DeleteDot(b, d) == IF IsCur(d) THEN DeleteCur(b, d.start) ELSE DeleteRange(b, d)

(* insert_char (isChar) and insert_string: a range is deleted first, and an *)
(* empty string is not recorded                                             *)
Insert(b, d, s, isChar) ==
    LET b1 == IF IsCur(d) THEN b ELSE DeleteRange(b, d)
        b2 == IF s = <<>> THEN b1 ELSE TxtInsert(b1, d.start, s)
    IN  CASE b1.panicked -> b1
          [] ~b1.panicked /\ b2.panicked -> b2
          [] ~b1.panicked /\ ~b2.panicked ->
                MarkDirty(IF s = <<>> THEN b2
                          ELSE [b2 EXCEPT !.log = LogRecord(@, NewEdit("Insert", d.start, s, isChar))])

----------------------------------------------------------------------------
(* Handlers of Buffer::handle_action and of the fsys messages.              *)

ClampDots(b) ==
    [b EXCEPT !.dot = ClampIdx(@, Len(b.txt)), !.xdot = ClampIdx(@, Len(b.txt))]

(* Action::InsertChar and Action::InsertString *)
HandleInsert(b, s, isChar) ==
    ClampDots([Insert(b, b.dot, s, isChar) EXCEPT !.dot = Cur(b.dot.start + Len(s))])

(* Action::Delete *)
HandleDelete(b) == ClampDots([DeleteDot(b, b.dot) EXCEPT !.dot = Cur(b.dot.start)])

(* handle_raw_input: as HandleInsert, but nothing is clamped *)
HandleRawInput(b, s, isChar) ==
    [Insert(b, b.dot, s, isChar) EXCEPT !.dot = Cur(b.dot.start + Len(s))]

DotOfDeletedString(e) ==
    CollapseNullRange(FromCursors(e.cur, SaturatingSub(e.cur + Len(e.txt), 1)))

(* mutant: undoing an insertion leaves dot at the end of what it removed *)
ApplyEditDotAtEnd(b, e) ==
    CASE b.panicked -> b
      [] ~b.panicked /\ e.kind = "Insert" ->
            [Insert(b, Cur(e.cur), e.txt, e.isChar) EXCEPT !.dot = Cur(e.cur + Len(e.txt))]
      [] ~b.panicked /\ e.kind = "Delete" ->
            LET d == IF e.isChar THEN Cur(e.cur) ELSE DotOfDeletedString(e)
            IN  [DeleteDot(b, d) EXCEPT !.dot = Cur(d.end)]

ApplyEdit(b, e) ==
    CASE b.panicked -> b
      [] ~b.panicked /\ e.kind = "Insert" ->
            [Insert(b, Cur(e.cur), e.txt, e.isChar) EXCEPT !.dot = Cur(e.cur + Len(e.txt))]
      [] ~b.panicked /\ e.kind = "Delete" ->
            LET d == IF e.isChar THEN Cur(e.cur) ELSE DotOfDeletedString(e)
            IN  [DeleteDot(b, d) EXCEPT !.dot = Cur(d.start)]

(* apply the edits of a transaction with the log paused *)
ApplyAll(b, edits) ==
    LET after[i \in 0..Len(edits)] ==
            IF i = 0 THEN [b EXCEPT !.log.paused = TRUE] ELSE ApplyEdit(after[i - 1], edits[i])
    IN  [after[Len(edits)] EXCEPT !.log.paused = FALSE]

HandleUndo(b) ==
    LET r == LogUndo(b.log)
    IN  IF r.apply = <<>> THEN [b EXCEPT !.log = r.log]
        ELSE [ApplyAll([b EXCEPT !.log = r.log], r.apply) EXCEPT !.dirty = r.log.edits # <<>>]

HandleRedo(b) ==
    LET r == LogRedo(b.log)
    IN  IF r.apply = <<>> THEN [b EXCEPT !.log = r.log]
        ELSE [ApplyAll([b EXCEPT !.log = r.log], r.apply) EXCEPT !.dirty = TRUE]

(* mutant: a cursor counts as a removed character *)
DotAfterXInsertCur(b, s) ==
    LET overlapsEnd == b.xdot.start > b.dot.start /\ b.xdot.end >= b.dot.end
    IN  IF Intersects(b.dot, b.xdot)
        THEN IF overlapsEnd THEN WithOffset(CollapseToFirst(b.xdot), 0, 1)
                            ELSE WithOffset(CollapseToFirst(b.xdot), Len(s), 0)
        ELSE IF b.xdot.start > b.dot.end THEN b.dot
                                         ELSE WithOffset(b.dot, Len(s), NChars(b.xdot))

(* where insert_xdot puts dot: see the picture above Buffer::insert_xdot    *)
DotAfterXInsert(b, s) ==
    LET overlapsEnd == b.xdot.start > b.dot.start /\ b.xdot.end >= b.dot.end
        removed     == IF IsCur(b.xdot) THEN 0 ELSE NChars(b.xdot)
    IN  IF Intersects(b.dot, b.xdot)
        THEN IF overlapsEnd THEN WithOffset(CollapseToFirst(b.xdot), 0, 1)
                            ELSE WithOffset(CollapseToFirst(b.xdot), Len(s), 0)
        ELSE IF b.xdot.start > b.dot.end THEN b.dot
                                         ELSE WithOffset(b.dot, Len(s), removed)

HandleInsertXDot(b, s) ==
    LET b1 == HandleInsert([b EXCEPT !.dot = b.xdot], s, FALSE)
    IN  [b1 EXCEPT !.xdot = b1.dot, !.dot = ClampIdx(DotAfterXInsert(b, s), Len(b1.txt))]

HandleAppend(b, s) ==
    LET b1 == HandleInsert([ClampDots(b) EXCEPT !.dot = Cur(Len(b.txt))], s, FALSE)
    IN  ClampDots([b1 EXCEPT !.dot = b.dot])

HandleClear(b) ==
    HandleDelete([ClampDots(b) EXCEPT !.dot = CollapseNullRange(FromCursors(0, Len(b.txt)))])

(* save_to_disk_at adds a missing final newline before it looks at dirty    *)
WithFinalNewline(b) ==
    IF b.txt # <<>> /\ Last(b.txt) = NL THEN b ELSE Insert(b, Cur(Len(b.txt)), <<NL>>, TRUE)

----------------------------------------------------------------------------
(* transactions, edits and recorded characters of the log *)
LogSize(l) ==
    LET ts == l.edits \o l.undone
    IN  FoldLeft(LAMBDA n, e : n + 1 + Len(e.txt), Len(ts), FlattenSeq(ts))

Bounded(b) == Len(b.txt) <= scene.maxLen /\ LogSize(b.log) <= scene.maxLog

(* The buffer becomes b by an edit, or without one.                         *)
Edited(b) ==
    /\ ~buf.panicked
    /\ Bounded(b)
    /\ buf' = b
    /\ ahead' = IF b.log = buf.log THEN ahead ELSE b.txt
    /\ UNCHANGED <<disk, base, scene>>

Moved(b) ==
    /\ ~buf.panicked
    /\ Bounded(b)
    /\ buf' = b
    /\ UNCHANGED <<disk, base, ahead, scene>>

Init ==
    \E t \in ExternalTexts \cup {<<>>} :
        /\ scene \in Scenes
        /\ buf = [txt |-> t, dot |-> Cur(0), xdot |-> Cur(0), log |-> EmptyLog,
                  dirty |-> FALSE, isFile |-> scene.isFile, panicked |-> FALSE]
        /\ disk = [txt |-> t, newer |-> FALSE]
        /\ base = t
        /\ ahead = t

InsertChar(c)   == Edited(HandleInsert(buf, <<c>>, TRUE))
InsertString(s) == Edited(HandleInsert(buf, s, FALSE))
Delete          == Edited(HandleDelete(buf))
RawChar(c)      == Edited(HandleRawInput(buf, <<c>>, TRUE))
RawReturn(s)    == Edited(HandleRawInput(buf, <<NL>> \o s, FALSE))
Undo            == Moved(HandleUndo(buf))
Redo            == Moved(HandleRedo(buf))
NewEditLogTransaction == Moved([buf EXCEPT !.log = NewTransaction(@)])

(* text objects never leave a range whose ends are equal *)
SetDot(d)    == CollapseNullRange(d) = d /\ Moved(ClampDots([buf EXCEPT !.dot = d]))
CollapseDot(first) ==
    Moved([buf EXCEPT !.dot = IF first THEN CollapseToFirst(@) ELSE CollapseToLast(@)])

(* fsys clients; map_addr may return a range whose ends are equal *)
SetAddr(d)   == "clients" \in scene.features /\ Moved([buf EXCEPT !.dot = ClampIdx(d, Len(buf.txt))])
SetXAddr(d)  == "clients" \in scene.features /\ Moved([buf EXCEPT !.xdot = ClampIdx(d, Len(buf.txt))])
InsertXDot(s)== "clients" \in scene.features /\ Edited(HandleInsertXDot(buf, s))
AppendBody(s)== "clients" \in scene.features /\ Edited(HandleAppend(buf, s))
ClearBody    == "clients" \in scene.features /\ Edited(HandleClear(buf))

Save(force, writeFails) ==
    LET b1   == WithFinalNewline(buf)
        quit == ~b1.dirty \/ (~force /\ buf.isFile /\ disk.newer) \/ writeFails
        b2   == IF quit THEN b1 ELSE [b1 EXCEPT !.dirty = FALSE]
    IN  /\ ~buf.panicked
        /\ Bounded(b2)
        /\ buf' = b2
        /\ ahead' = IF b1.log = buf.log THEN ahead ELSE b1.txt
        /\ disk' = IF quit THEN disk ELSE [txt |-> b1.txt, newer |-> FALSE]
        /\ UNCHANGED <<base, scene>>

(* the dots are clamped to the length in bytes *)
ReloadFromDisk ==
    /\ "reload" \in scene.features
    /\ ~buf.panicked
    /\ buf.isFile
    /\ buf' = [buf EXCEPT !.txt   = disk.txt,
                          !.dot   = ClampIdx(@, ByteLen(disk.txt)),
                          !.xdot  = ClampIdx(@, ByteLen(disk.txt)),
                          !.log   = EmptyLog,
                          !.dirty = FALSE]
    /\ disk' = [disk EXCEPT !.newer = FALSE]
    /\ base' = disk.txt
    /\ ahead' = disk.txt
    /\ UNCHANGED scene

ExternalWrite(t) ==
    /\ ~buf.panicked
    /\ disk' = [txt |-> t, newer |-> TRUE]
    /\ UNCHANGED <<buf, base, ahead, scene>>

Next ==
    \/ \E c \in Char : InsertChar(c)
    \/ \E s \in Strings : InsertString(s)
    \/ Delete
    \/ \E c \in Char : RawChar(c)
    \/ \E s \in Strings : RawReturn(s)
    \/ Undo
    \/ Redo
    \/ NewEditLogTransaction
    \/ \E d \in Dots(0..Len(buf.txt)) : SetDot(d)
    \/ \E first \in BOOLEAN : CollapseDot(first)
    \/ \E d \in Dots(0..Len(buf.txt)) : SetAddr(d)
    \/ \E d \in Dots(0..Len(buf.txt)) : SetXAddr(d)
    \/ \E s \in Strings : InsertXDot(s)
    \/ \E s \in Strings : AppendBody(s)
    \/ ClearBody
    \/ \E force, writeFails \in BOOLEAN : Save(force, writeFails)
    \/ ReloadFromDisk
    \/ \E t \in ExternalTexts : ExternalWrite(t)

Spec == Init /\ [][Next]_vars

----------------------------------------------------------------------------
(* The fields of the buffer have their types; no index underflows.          *)
TypeOK ==
    /\ buf \in Buffers
    /\ disk \in [txt : Seq(Char), newer : BOOLEAN]
    /\ base \in Seq(Char)
    /\ ahead \in Seq(Char)
    /\ scene \in Scenes

(* nobody reloads the file and no client writes *)
UserAlone == scene.features = {}

(* the buffer once each of its transactions was undone *)
Unwound(b) ==
    LET after[i \in 0..Len(b.log.edits)] == IF i = 0 THEN b ELSE HandleUndo(after[i - 1])
    IN  after[Len(b.log.edits)]

(* Undoing everything in the log (EditLog::undo and Buffer::apply_edit)     *)
(* gives back the text the log started from, however the edits were         *)
(* combined and grouped, while the user edits alone: a reload, and a client *)
(* that selects an empty range, leave dots at which an empty deletion is    *)
(* recorded (reload_from_disk, map_addr), and redoing it removes text.      *)
Unwinds == UserAlone /\ ~buf.panicked => Unwound(buf).txt = base

(* the buffer once each of its undone transactions was redone *)
Rewound(b) ==
    LET after[i \in 0..Len(b.log.undone)] == IF i = 0 THEN b ELSE HandleRedo(after[i - 1])
    IN  after[Len(b.log.undone)]

(* Redoing everything that was undone gives back the text that the last     *)
(* recorded edit left (EditLog::redo, and push dropping what was undone).   *)
RewindsAlways == ~buf.panicked => Rewound(buf).txt = ahead

(* It does while the user edits alone.                                      *)
Rewinds == UserAlone => RewindsAlways

DotInText == InBounds(buf.dot, Len(buf.txt))
(* The user's selection lies inside the text after every handler, those     *)
(* that do not clamp it (handle_raw_input, undo, redo) included.            *)
DotInBounds == UserAlone => DotInText

(* So does the selection of the fsys clients, which undo, redo and          *)
(* handle_raw_input never look at.                                          *)
XDotInBounds == InBounds(buf.xdot, Len(buf.txt))

(* No handler slices or inserts outside the text (the panics of             *)
(* GapBuffer::slice, remove_range and insert_str), unless clients write to  *)
(* an xdot that undo has left outside the text (XDotInBounds).              *)
NeverPanics == UserAlone => ~buf.panicked

(* Every undone transaction has an edit to redo: EditLog::redo would go on  *)
(* with a transaction of the wrong stack if it popped an empty one.  The    *)
(* log is recording between handlers.                                       *)
UndoneNonEmpty ==
    /\ ~buf.log.paused
    /\ \A i \in DOMAIN buf.log.undone : buf.log.undone[i] # <<>>

(* A file buffer that is not marked dirty holds what its file held when the *)
(* buffer last read or wrote it (mark_dirty, undo, redo, save_to_disk_at).  *)
UnsavedIsDirty == buf.isFile /\ ~disk.newer /\ ~buf.dirty => buf.txt = disk.txt

(* The one way it can differ is that undo has emptied the log, some of it   *)
(* from before the save, and cleared the flag with it.                      *)
CleanUnlessUndone ==
    buf.isFile /\ ~disk.newer /\ ~buf.dirty /\ buf.txt # disk.txt
    => /\ \A i \in DOMAIN buf.log.edits : buf.log.edits[i] = <<>>
       /\ buf.log.undone # <<>>

(* Only files get marked as dirty, the comment on mark_dirty says.          *)
OnlyFilesDirty == buf.dirty => buf.isFile

(* the selected text *)
Content(b) == [i \in { i \in 0..b.dot.end - b.dot.start : b.dot.start + i < Len(b.txt) } |->
                 b.txt[b.dot.start + i + 1]]

(* A client that writes to xdot (insert_xdot), where xdot does not touch    *)
(* the user's selection, leaves the selected text selected.                 *)
SelectionPreserved ==
    ~buf.panicked /\ XDotInBounds /\ DotInText /\ ~Intersects(buf.dot, buf.xdot)
    => \A s \in Strings : Content(HandleInsertXDot(buf, s)) = Content(buf)

(* Undo and redo are exact, whatever edits were merged into the log:        *)
(* undoing everything gives the text the buffer was loaded with, and        *)
(* redoing what was undone the text before (EditLog::undo, redo,            *)
(* try_extend).                                                             *)
UndoRedoExact ==
    /\ Unwinds
    /\ Rewinds

(* What every handler finds and leaves: the parts of the buffer fit         *)
(* together, the selection is inside of the text also after undo and redo   *)
(* have set it, the log has no empty transaction to redo, and no edit is    *)
(* made outside of the text.                                                *)
BufferInv ==
    /\ TypeOK
    /\ UndoneNonEmpty
    /\ DotInBounds
    /\ NeverPanics
=============================================================================
