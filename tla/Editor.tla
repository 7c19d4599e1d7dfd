------------------------------- MODULE Editor -------------------------------
(***************************************************************************)
(* The editor thread (src/src/editor/mod.rs and actions.rs): one loop that *)
(* takes events from a channel and handles each of them to its end, except *)
(* that a prompt waits for keys inside of the handler that opened it and   *)
(* handles every other event while it waits.  Around it are the threads    *)
(* that it shares the channel with: clients of the filesystem, which wait  *)
(* for its answers with the filesystem's mutex held, the listener that     *)
(* passes a selection on to them (src/src/fsys/mod.rs), child processes    *)
(* (src/src/system.rs) and whatever else writes to the files being edited. *)
(*                                                                         *)
(* k is the call stack of the editor thread: its first item is what it     *)
(* does next, and it waits when that is a prompt or a process.  Strings    *)
(* that name commands and paths are looked up in constants.                *)
(***************************************************************************)
EXTENDS Keymap, MiniBuffer

CONSTANTS
    InputOf,        \* what key, in the minibuffer, each input is
    CommandOf,      \* the actions of each command, by its text
    PathOf,         \* the path that each text names
    Yes,            \* the texts that confirm
    Bindings,       \* default keymaps and overrides, for each scene
    Scenes,         \* what the actors around the editor do, and how often
    Clients, NoClient, Kids, NoKid, Paths, NoPath, BufIds,
    BufName,        \* how a buffer is listed
    BufLines,       \* the lines of a buffer, for the search prompt
    ClientText,     \* what a client writes to the minibuffer file
    KidClient,      \* the client that a command which is waited for acts as
    MaxTime, MaxEdits, MaxPrompts

ASSUME EditorAssumption ==
    /\ {MaxTime, MaxEdits, MaxPrompts} \subseteq Nat
    /\ NoClient \notin Clients /\ NoPath \notin Paths /\ NoKid \notin Kids

VARIABLES
    ed,         \* what the editor thread owns
    events,     \* the channel of events
    procs,      \* child processes
    disk,       \* what is in each file, and since when
    now,        \* the clock of the files
    fsys,       \* the mutex of the filesystem and its minibuffer file
    client,     \* what each client is doing
    used,       \* how often the user and the clients have acted
    scene

vars == <<ed, events, procs, disk, now, fsys, client, used, scene>>

NoProc == [st |-> "none", out |-> "none"]
FirstPath == CHOOSE p \in Paths : TRUE     \* the file of the named buffers
NoFile == [v |-> <<>>, mtime |-> -1]
PromptIds == 1 .. MaxPrompts
NoData == [d |-> FALSE]
Data(s) == [d |-> TRUE, s |-> s]

----------------------------------------------------------------------------
(* Starting up.                                                             *)

(* modes(): the overrides of a mode apply as a whole or not at all *)
Modes(b) ==
    << WithOverrides(Mode("NORMAL", TryFromIter(b.normal), "Normal"), TryFromIter(b.over)),
       Mode("INSERT", TryFromIter(b.insert), "Insert") >>

(* base: the text that was last read or written; saved: last_save; at: what *)
(* the file held when last_save was taken, which no step looks at           *)
NewBuffer(b, path) ==
    LET txt == IF path = NoPath THEN <<>> ELSE <<"file", path>>
    IN  [kind |-> path, dirty |-> FALSE, nl |-> path # NoPath, ver |-> 0, saved |-> 0,
         txt |-> txt, base |-> txt, at |-> [v |-> txt, mtime |-> 0]]

(* save: the path that a buffer is to be saved at; lost: contents of files  *)
(* that were overwritten unseen; exit: how the editor stopped; chose and    *)
(* done: what the user chose in a prompt of a client, and what a prompt was *)
(* about and was applied to                                                 *)
NewEditor(b) ==
    [binds |-> b, running |-> TRUE, modes |-> Modes(b), pending |-> <<>>, k |-> <<>>, active |-> 1,
     bufs |-> [i \in BufIds |-> NewBuffer(i, IF i = 1 THEN NoPath ELSE FirstPath)],
     kids |-> <<>>, crashed |-> FALSE, exit |-> "no", lost |-> {}, replied |-> {},
     chose |-> [p \in PromptIds |-> NoData], done |-> <<>>]

Idle == [pc |-> "idle", got |-> <<>>, p |-> 0]

Init ==
    /\ scene \in Scenes
    /\ \E b \in Bindings : b.for = scene.name /\ ed = NewEditor(b)
    /\ events = <<>>
    /\ procs = [c \in Kids |-> NoProc]
    /\ disk = [p \in Paths |-> IF p \in scene.files THEN [v |-> <<"file", p>>, mtime |-> 0] ELSE NoFile]
    /\ now = 0
    /\ fsys = [lock |-> NoClient, content |-> [s |-> "Data", d |-> <<>>],
               slot |-> [p \in PromptIds |-> NoData], subs |-> [p \in PromptIds |-> <<>>],
               listener |-> [p \in PromptIds |-> "none"], prompts |-> 0]
    /\ client = [c \in Clients |-> Idle]
    /\ used = [who \in Clients \cup {"user", "lsp"} |-> 0]

----------------------------------------------------------------------------
(* The call stack.                                                          *)

Push(e, item) == [e EXCEPT !.k = <<item>> \o @]

Acts(as)      == [t |-> "acts", as |-> as]
KeysItem(ks)  == [t |-> "keys", ks |-> ks]
Unmode        == [t |-> "unmode"]
Reply(c)      == [t |-> "reply", c |-> c]
Wait(c, then) == [t |-> "wait", c |-> c, then |-> then]
Spawn(c)      == [t |-> "spawn", c |-> c]
Rest(as)      == [t |-> "rest", as |-> as]
SaveItem(b, path, force, asked, ok) ==
    [t |-> "save", b |-> b, path |-> path, force |-> force, asked |-> asked, ok |-> ok,
     seen |-> NoFile]
WriteItem(i, seen) == [i EXCEPT !.t = "write", !.seen = seen]
WrittenItem(i) == [i EXCEPT !.t = "written"]
ReloadItem(b) == [t |-> "reload", b |-> b]
ReadItem(b, path) == [t |-> "read", b |-> b, path |-> path]

(* about is what the prompt was opened for, which its answer is applied to  *)
(* only as far as the editor is still in the same state                     *)
PromptItem(op, lines, about) ==
    [t |-> "prompt", op |-> op, mb |-> NewMiniBuffer(lines, <<>>), about |-> about]

(* command_mode, run_mode, sam_mode, lsp_rename *)
EphemeralPrompt(e, op) ==
    Push(Push([e EXCEPT !.modes = <<EphemeralMode(op)>> \o @], Unmode),
         PromptItem(op, <<>>, e.active))

SetMode(e, m) ==
    LET i == SelectInSeq(e.modes, LAMBDA x : x.name = m)
    IN  IF i = 0 THEN e
        ELSE [e EXCEPT !.modes = [j \in DOMAIN @ |-> IF j = 1 THEN @[i] ELSE IF j = i THEN @[1] ELSE @[j]]]

Open(e) == DOMAIN e.bufs

OneLine(x) == <<x>>

----------------------------------------------------------------------------
(* Saving.                                                                  *)

(* mutant: what was written since the buffer was opened is not looked at *)
StateChangedNever(b, d) == b.kind # NoPath /\ d[b.kind].mtime > MaxTime

StateChangedOnDisk(b, d) == b.kind # NoPath /\ d[b.kind].mtime > b.saved

(* get_buffer_save_path, after a path has been named: a file that exists is *)
(* only overwritten when the user says so                                   *)
SaveAt(e, path, force, asked, d) ==
    IF d[path] # NoFile
    THEN Push(e, PromptItem("confirm", <<>>, [path |-> path, force |-> force, asked |-> asked]))
    ELSE Push([e EXCEPT !.bufs[e.active].kind = path], SaveItem(e.active, path, force, asked, FALSE))

SaveCurrent(e, path, force, d) ==
    LET b == e.bufs[e.active]
    IN  IF path # NoPath THEN SaveAt(e, path, force, e.active, d)
        ELSE IF b.kind # NoPath THEN Push(e, SaveItem(e.active, b.kind, force, e.active, FALSE))
        ELSE Push(e, PromptItem("saveas", <<>>, [asked |-> e.active, force |-> force]))

(* save_all_buffers: what is dirty and has a path *)
SaveAll(e, force) ==
    LET ids == SelectSeq(SetToSortSeq(Open(e), <),
                         LAMBDA i : e.bufs[i].dirty /\ e.bufs[i].kind # NoPath)
    IN  [e EXCEPT !.k = [j \in 1 .. Len(ids) |->
                            SaveItem(ids[j], e.bufs[ids[j]].kind, force, ids[j], FALSE)] \o @]

WithNewline(b) ==
    IF b.nl THEN b ELSE [b EXCEPT !.nl = TRUE, !.dirty = TRUE, !.txt = Append(@, "nl")]

(* save_to_disk_at, up to the write: a final newline is added even when     *)
(* nothing is saved                                                         *)
CheckSave(e, i, d) ==
    LET b == WithNewline(e.bufs[i.b])
    IN  IF ~b.dirty \/ (~i.force /\ StateChangedOnDisk(b, d))
        THEN [e EXCEPT !.bufs[i.b] = b]
        ELSE Push([e EXCEPT !.bufs[i.b] = b], WriteItem(i, d[i.path]))

(* reload_from_disk begins; the disk is read in a step of its own *)
ReloadFromDisk(e, b) == IF e.bufs[b].kind = NoPath THEN e ELSE Push(e, ReloadItem(b))

----------------------------------------------------------------------------
(* Leaving.                                                                 *)

Exit(e, force) ==
    LET dirty == { b \in Open(e) : e.bufs[b].dirty }
    IN  IF dirty # {} /\ ~force
        THEN Push(e, PromptItem("exit", [j \in 1 .. Cardinality(dirty) |-> OneLine("d")], <<>>))
        ELSE [e EXCEPT !.running = FALSE, !.exit = IF force THEN "forced" ELSE "clean"]

DeleteBuffer(e, b, force) ==
    IF e.bufs[b].dirty /\ ~force THEN e
    ELSE IF Open(e) = {b}
    THEN [e EXCEPT !.running = FALSE, !.exit = IF force THEN "forced" ELSE "clean"]
    ELSE [e EXCEPT !.running = TRUE, !.active = CHOOSE x \in Open(e) \ {b} : TRUE,
                   !.bufs = [x \in Open(e) \ {b} |-> e.bufs[x]]]

FocusBuffer(e, b) == IF b \in Open(e) THEN [e EXCEPT !.active = b] ELSE e

----------------------------------------------------------------------------
(* Child processes.                                                         *)

(* mutant: only the first child with the id is waited for and forgotten *)
CleanupChildFirst(e, c) ==
    IF e.kids # <<>> /\ e.kids[1] = c THEN Push([e EXCEPT !.kids = Tail(@)], Wait(c, "none")) ELSE e

(* the child is waited for, and forgotten *)
CleanupChild(e, c) ==
    IF c \in ToSet(e.kids)
    THEN Push([e EXCEPT !.kids = SelectSeq(@, LAMBDA x : x # c)], Wait(c, "none"))
    ELSE e

(* an index that the list no longer has makes Vec::remove panic *)
KillChild(e, idx, shown) ==
    IF idx > Len(e.kids) THEN [e EXCEPT !.crashed = TRUE, !.running = FALSE]
    ELSE Push([e EXCEPT !.kids = RemoveAt(@, idx),
                        !.done = [op |-> "kill", on |-> shown[idx], to |-> e.kids[idx]]],
              [t |-> "kill", c |-> e.kids[idx]])

----------------------------------------------------------------------------
(* Actions.                                                                 *)

EditActive(e) ==
    IF e.bufs[e.active].ver < MaxEdits
    THEN [e EXCEPT !.bufs[e.active].dirty = TRUE, !.bufs[e.active].ver = @ + 1,
                   !.bufs[e.active].txt = <<"buffer", e.active, e.bufs[e.active].ver + 1>>]
    ELSE e

(* kill_running_child: the list as it is when the prompt opens *)
KillPrompt(e) == Push(e, PromptItem("kill", [j \in 1 .. Len(e.kids) |-> OneLine(e.kids[j])], e.kids))

(* open_file, of a file that is open already *)
OpenAgain(e, d) ==
    IF StateChangedOnDisk(e.bufs[e.active], d) THEN Push(e, PromptItem("reload", <<>>, e.active)) ELSE e

ReloadActive(e) == ReloadFromDisk(e, e.active)

(* Actions that change only what other modules model do nothing here.       *)
HandleAction(e, a, d) ==
    CASE a.a = "SetMode"      -> SetMode(e, a.m)
      [] a.a = "Prompt"       -> EphemeralPrompt(e, a.op)
      [] a.a = "Kill"         -> KillPrompt(e)
      [] a.a = "Search"       -> Push(e, PromptItem("search", BufLines[e.active], e.active))
      [] a.a = "SelectBuffer" ->
            LET ids == SetToSortSeq(Open(e), <)
            IN  Push(e, PromptItem("select", [j \in 1 .. Len(ids) |-> BufName[ids[j]]], ids))
      [] a.a = "MbSelect"     -> Push(e, PromptItem("mb", a.lines, a.as))
      [] a.a = "SaveBuffer"   -> SaveCurrent(e, a.path, a.force, d)
      [] a.a = "SaveAll"      -> SaveAll(e, a.force)
      [] a.a = "Reload"       -> ReloadActive(e)
      [] a.a = "OpenAgain"    -> OpenAgain(e, d)
      [] a.a = "Exit"         -> Exit(e, a.force)
      [] a.a = "DeleteBuffer" -> DeleteBuffer(e, e.active, a.force)
      [] a.a = "FocusBuffer"  -> FocusBuffer(e, a.b)
      [] a.a = "CleanupChild" -> CleanupChild(e, a.c)
      [] a.a = "ShellRun"     -> Push(e, Spawn("run"))
      [] a.a = "ShellReplace" -> Push(e, Spawn("replace"))
      [] a.a = "SendKeys"     -> Push(e, KeysItem(a.ks))
      [] a.a = "Edit"         -> EditActive(e)
      [] a.a = "RawInput"     -> IF e.modes[1].name = "INSERT" THEN EditActive(e) ELSE e
      [] OTHER                -> e

HandleKey(e, i) ==
    LET h == HandleKeys(e.modes[1], Append(e.pending, i))
    IN  Push([e EXCEPT !.pending = h.keys], Acts(h.actions))

(* a command that is not known only sets the status message *)
ParseCommand(text) == IF text \in DOMAIN CommandOf THEN CommandOf[text] ELSE <<>>

(* What a handler does with what was selected in its prompt.                *)
Answer(e, i, sel, d) ==
    LET Did(x) == [x EXCEPT !.done = [op |-> i.op, on |-> i.about, to |-> e.active]]
        typed == IF sel.s = "UserInput" THEN sel.input ELSE <<>>
    IN  CASE sel.s = "UserInput" /\ i.op = "COMMAND" -> Push(e, Acts(ParseCommand(typed)))
          [] sel.s = "UserInput" /\ i.op = "RUN"     -> Push(e, Spawn("run"))
          [] sel.s = "UserInput" /\ i.op = "EDIT"    -> Did(EditActive(e))
          [] sel.s = "UserInput" /\ i.op = "saveas" /\ typed \in DOMAIN PathOf ->
                SaveAt(e, PathOf[typed], i.about.force, i.about.asked, d)
          [] sel.s = "UserInput" /\ i.op = "confirm" /\ typed \in Yes ->
                Push([e EXCEPT !.bufs[e.active].kind = i.about.path],
                     SaveItem(e.active, i.about.path, i.about.force, i.about.asked, TRUE))
          [] sel.s = "UserInput" /\ i.op = "reload" /\ typed \in Yes ->
                Did(ReloadFromDisk(e, e.active))
          [] sel.s = "Line" /\ i.op = "kill"         -> KillChild(e, sel.cy, i.about)
          [] sel.s = "Line" /\ i.op = "search"       -> Did(e)
          [] sel.s = "Line" /\ i.op = "select"       -> FocusBuffer(e, i.about[sel.cy])
          [] sel.s = "Line" /\ i.op = "mb"           -> Push(e, Acts(i.about))
          [] i.op = "fsys" ->
                [e EXCEPT !.chose[i.about] =
                    Data(IF sel.s = "Line" THEN sel.line ELSE typed)]
          [] OTHER -> e

RECURSIVE Run(_, _)

(* The editor thread runs until its stack is empty or it waits: for a key,  *)
(* for a process or for the disk.  Prompts of an editor that has stopped    *)
(* are cancelled.                                                           *)
Run(e, d) ==
    IF e.k = <<>> \/ e.crashed THEN e
    ELSE LET i == Head(e.k)
             r == [e EXCEPT !.k = Tail(@)]
         IN  CASE i.t = "acts" ->
                    Run(IF i.as = <<>> THEN r
                        ELSE HandleAction(Push(r, Rest(Tail(i.as))), Head(i.as), d), d)
               [] i.t = "rest" ->
                    Run(IF i.as = <<>> \/ ~e.running THEN r ELSE Push(r, Acts(i.as)), d)
               [] i.t = "keys" ->
                    Run(IF i.ks = <<>> THEN r
                        ELSE HandleKey(Push(r, KeysItem(Tail(i.ks))), Head(i.ks)), d)
               [] i.t = "unmode" -> Run([r EXCEPT !.modes = Tail(@)], d)
               [] i.t = "reply"  -> Run([r EXCEPT !.replied = @ \cup {i.c}], d)
               [] i.t = "save"   -> Run(CheckSave(r, i, d), d)
               [] i.t = "prompt" -> IF e.running THEN e ELSE Run(Answer(r, i, Cancelled, d), d)
               [] OTHER          -> e

Top(e) == IF e.k = <<>> THEN [t |-> "idle"] ELSE Head(e.k)
InPrompt(e) == Top(e).t = "prompt"

(* text.split('\n'), and nothing when it is blank *)
SplitLines(raw) ==
    LET ends == SetToSortSeq({ i \in 1 .. Len(raw) : raw[i] = NewLine } \cup {Len(raw) + 1}, <)
    IN  IF \A i \in 1 .. Len(raw) : raw[i] \in {Space, NewLine} THEN <<>>
        ELSE [j \in 1 .. Len(ends) |-> SubSeq(raw, IF j = 1 THEN 1 ELSE ends[j - 1] + 1, ends[j] - 1)]

(* mutant: a client is told that its command is handled before it is *)
HandleMessageEarly(e, m) ==
    IF m.req = "ctl"
    THEN Push(e, Acts(ParseCommand(m.text)))
    ELSE Push(Push(e, PromptItem("fsys", SplitLines(m.text), m.p)), Reply(m.c))

(* the answer is sent when the message has been dealt with *)
HandleMessage(e, m) ==
    IF m.req = "ctl"
    THEN Push(Push(e, Reply(m.c)), Acts(ParseCommand(m.text)))
    ELSE Push(Push(e, Reply(m.c)), PromptItem("fsys", SplitLines(m.text), m.p))

(* a key for the prompt, or pasted characters *)
PromptKeys(e, ks, d) ==
    LET i   == Head(e.k)
        sel == Selected(i.mb, InputOf[ks[1]])
        new == FoldLeft(LAMBDA mb, key : HandleInput(mb, InputOf[key]), i.mb, ks)
    IN  IF sel # NoSelection THEN Answer([e EXCEPT !.k = Tail(@)], i, sel, d)
        ELSE [e EXCEPT !.k[1].mb = UpdateState(new)]

HandleEvent(e, ev, d) ==
    CASE ev.t = "Input" /\ InPrompt(e)  -> PromptKeys(e, <<ev.i>>, d)
      [] ev.t = "Input" /\ ~InPrompt(e) -> HandleKey(e, ev.i)
      [] ev.t = "Paste" /\ InPrompt(e)  -> PromptKeys(e, ev.ks, d)
      [] ev.t = "Paste" /\ ~InPrompt(e) -> Push(e, Acts(<<[a |-> "Edit"]>>))
      [] ev.t = "Action"                -> Push(e, Acts(<<ev.a>>))
      [] ev.t = "Message"               -> HandleMessage(e, ev)

----------------------------------------------------------------------------
(* Steps of the editor thread.                                              *)

TakeEvent ==
    /\ ed.running /\ ~ed.crashed /\ events # <<>>
    /\ ed.k = <<>> \/ InPrompt(ed)
    /\ ed' = Run(HandleEvent(ed, Head(events), disk), disk)
    /\ events' = Tail(events)
    /\ UNCHANGED <<procs, disk, now, fsys, client, used, scene>>

Popped == [ed EXCEPT !.k = Tail(@)]

(* run_command: the child is recorded; run_command_blocking: it is waited for *)
SpawnChild ==
    /\ Top(ed).t = "spawn" /\ ~ed.crashed
    /\ \E c \in Kids : procs[c] = NoProc
    /\ LET c == CHOOSE c \in Kids : procs[c] = NoProc
       IN  IF Top(ed).c = "run"
           THEN /\ procs' = [procs EXCEPT ![c] = [st |-> "run", out |-> "open"]]
                /\ ed' = Run([Popped EXCEPT !.kids = Append(@, c)], disk)
           ELSE /\ procs' = [procs EXCEPT ![c] = [st |-> "run", out |-> "none"]]
                /\ ed' = Push(Popped, Wait(c, "edit"))
    /\ UNCHANGED <<events, disk, now, fsys, client, used, scene>>

SpawnFails ==
    /\ Top(ed).t = "spawn" /\ ~ed.crashed
    /\ ed' = Run(Popped, disk)
    /\ UNCHANGED <<events, procs, disk, now, fsys, client, used, scene>>

(* wait() returns; what the command printed replaces the selection *)
WaitDone ==
    /\ Top(ed).t = "wait" /\ procs[Top(ed).c].st = "exited"
    /\ procs' = [procs EXCEPT ![Top(ed).c].st = "reaped"]
    /\ ed' = Run(IF Top(ed).then = "edit" THEN Push(Popped, Acts(<<[a |-> "Edit"]>>)) ELSE Popped,
                 disk)
    /\ UNCHANGED <<events, disk, now, fsys, client, used, scene>>

(* kill() and wait() *)
KillDone ==
    /\ Top(ed).t = "kill"
    /\ procs' = [procs EXCEPT ![Top(ed).c].st = "reaped"]
    /\ ed' = Run(Popped, disk)
    /\ UNCHANGED <<events, disk, now, fsys, client, used, scene>>

(* what the write does to the file that was there *)
Overwrites(e, i) ==
    LET b == e.bufs[i.b]
    IN  [e EXCEPT !.bufs[i.b].base = b.txt,
                  !.lost = IF disk[i.path] = NoFile \/ disk[i.path].v = b.base THEN @
                           ELSE @ \cup {[forced |-> i.force, ok |-> i.ok,
                                         raced |-> disk[i.path] # i.seen,
                                         tick |-> i.seen.mtime = b.saved,
                                         between |-> disk[i.path] = b.at]}]

(* fs::write.  The clock is read after it, and others may write until then. *)
WriteFile ==
    /\ Top(ed).t = "write"
    /\ LET i == Top(ed)
       IN  /\ disk' = [disk EXCEPT ![i.path] = [v |-> ed.bufs[i.b].txt, mtime |-> now]]
           /\ ed' = Push(Overwrites(Popped, i), WrittenItem(i))
    /\ UNCHANGED <<events, procs, now, fsys, client, used, scene>>

(* the buffer is clean as of now, whatever the file holds by now *)
Synced(e, b, path) ==
    [e EXCEPT !.bufs[b].dirty = FALSE, !.bufs[b].saved = now, !.bufs[b].at = disk[path]]

(* the rest of save_to_disk_at *)
Written ==
    /\ Top(ed).t = "written"
    /\ LET i == Top(ed)
       IN  ed' = Run([Synced(Popped, i.b, i.path) EXCEPT
                        !.done = [op |-> "save", on |-> i.asked, to |-> i.b]], disk)
    /\ UNCHANGED <<events, procs, disk, now, fsys, client, used, scene>>

WriteFails ==
    /\ Top(ed).t = "write"
    /\ ed' = Run(Popped, disk)
    /\ UNCHANGED <<events, procs, disk, now, fsys, client, used, scene>>

(* try_kind_and_content_from_path: a file that is not there reads as empty *)
ReadFile ==
    /\ Top(ed).t = "reload"
    /\ LET b == Top(ed).b
           path == ed.bufs[b].kind
       IN  ed' = [Push(Popped, ReadItem(b, path)) EXCEPT
                    !.bufs[b].txt = disk[path].v, !.bufs[b].base = disk[path].v,
                    !.bufs[b].nl = disk[path] # NoFile]
    /\ UNCHANGED <<events, procs, disk, now, fsys, client, used, scene>>

ReadFails ==
    /\ Top(ed).t = "reload"
    /\ ed' = Run(Popped, disk)
    /\ UNCHANGED <<events, procs, disk, now, fsys, client, used, scene>>

(* the rest of reload_from_disk *)
Reloaded ==
    /\ Top(ed).t = "read"
    /\ ed' = Run(Synced(Popped, Top(ed).b, Top(ed).path), disk)
    /\ UNCHANGED <<events, procs, disk, now, fsys, client, used, scene>>

----------------------------------------------------------------------------
(* The user, language servers, child processes and other programs.          *)

InputsWaiting == \E i \in 1 .. Len(events) : events[i].t \in {"Input", "Paste"}

(* one key at a time; a prompt can always be answered *)
Press(i) ==
    /\ ed.running /\ ~ed.crashed /\ ~InputsWaiting
    /\ \/ used["user"] < scene.maxKeys /\ i \in scene.keys
       \/ InPrompt(ed) /\ InputOf[i].k \in {"Esc", "Return"}
    /\ events' = Append(events, [t |-> "Input", i |-> i])
    /\ used' = [used EXCEPT !["user"] = IF @ < scene.maxKeys THEN @ + 1 ELSE @]
    /\ UNCHANGED <<ed, procs, disk, now, fsys, client, scene>>

Paste(ks) ==
    /\ ed.running /\ ~ed.crashed /\ ~InputsWaiting /\ used["user"] < scene.maxKeys
    /\ events' = Append(events, [t |-> "Paste", ks |-> ks])
    /\ used' = [used EXCEPT !["user"] = @ + 1]
    /\ UNCHANGED <<ed, procs, disk, now, fsys, client, scene>>

(* the answer of a language server *)
LspAction(a) ==
    /\ ed.running /\ ~ed.crashed /\ used["lsp"] < 1
    /\ events' = Append(events, [t |-> "Action", a |-> a])
    /\ used' = [used EXCEPT !["lsp"] = @ + 1]
    /\ UNCHANGED <<ed, procs, disk, now, fsys, client, scene>>

Waited(c) == Top(ed).t = "wait" /\ Top(ed).c = c /\ Top(ed).then = "edit"

(* a command that talks to the editor ends when it has been answered *)
ProcExits(c) ==
    /\ procs[c].st = "run"
    /\ IF Waited(c) /\ KidClient # NoClient
       THEN used[KidClient] > 0 /\ client[KidClient].pc = "idle" ELSE TRUE
    /\ procs' = [procs EXCEPT ![c].st = "exited"]
    /\ UNCHANGED <<ed, events, disk, now, fsys, client, used, scene>>

(* the thread that reads a child's output meets its end, which may be       *)
(* before the child exits                                                   *)
OutputEnds(c) ==
    /\ procs[c].out = "open"
    /\ procs' = [procs EXCEPT ![c].out = "sent"]
    /\ events' = Append(events, [t |-> "Action", a |-> [a |-> "CleanupChild", c |-> c]])
    /\ UNCHANGED <<ed, disk, now, fsys, client, used, scene>>

OtherProgramWrites(p) ==
    /\ disk' = [disk EXCEPT ![p] = [v |-> <<"other", now>>, mtime |-> now]]
    /\ UNCHANGED <<ed, events, procs, now, fsys, client, used, scene>>

Tick ==
    /\ now < MaxTime
    /\ now' = now + 1
    /\ UNCHANGED <<ed, events, procs, disk, fsys, client, used, scene>>

----------------------------------------------------------------------------
(* Clients of the filesystem.  Every request holds its mutex to the end.    *)

MayAsk(c) == client[c].pc = "idle" /\ fsys.lock = NoClient /\ used[c] < scene.maxOps

Count(c) == used' = [used EXCEPT ![c] = @ + 1]

Send(c, m) == events' = Append(events, m @@ [t |-> "Message", c |-> c, p |-> 0])

WriteCtl(c, text) ==
    /\ MayAsk(c) /\ Count(c)
    /\ fsys' = [fsys EXCEPT !.lock = c]
    /\ client' = [client EXCEPT ![c].pc = "sent"]
    /\ Send(c, [req |-> "ctl", text |-> text])
    /\ UNCHANGED <<ed, procs, disk, now, scene>>

(* buffers/current *)
SetActiveBuffer(c, b) ==
    /\ MayAsk(c) /\ Count(c)
    /\ events' = Append(events, [t |-> "Action", a |-> [a |-> "FocusBuffer", b |-> b]])
    /\ UNCHANGED <<ed, procs, disk, now, fsys, client, scene>>

MinibufferWrite(c) ==
    /\ MayAsk(c) /\ Count(c)
    /\ fsys' = [fsys EXCEPT !.content =
                    [s |-> "Buffering",
                     d |-> (IF @.s = "Buffering" THEN @.d ELSE <<>>) \o ClientText[c]]]
    /\ UNCHANGED <<ed, events, procs, disk, now, client, scene>>

(* the read that opens the prompt is the first to be registered for its result *)
ReadOpens(c) ==
    LET p == fsys.prompts + 1
    IN  /\ MayAsk(c) /\ Count(c) /\ fsys.content.s = "Buffering" /\ p <= MaxPrompts
        /\ fsys' = [fsys EXCEPT !.lock = c, !.prompts = p, !.content = [s |-> "Pending", p |-> p],
                                !.subs[p] = <<c>>, !.listener[p] = "recv"]
        /\ client' = [client EXCEPT ![c] = [pc |-> "opened", got |-> <<>>, p |-> p]]
        /\ Send(c, [req |-> "select", text |-> fsys.content.d, p |-> p])
        /\ UNCHANGED <<ed, procs, disk, now, scene>>

ReadData(c) ==
    /\ MayAsk(c) /\ Count(c) /\ fsys.content.s = "Data"
    /\ client' = [client EXCEPT ![c].got = fsys.content.d]
    /\ UNCHANGED <<ed, events, procs, disk, now, fsys, scene>>

(* try_recv: the result, or a registration that follows in a step of its own *)
ReadPending(c) ==
    /\ MayAsk(c) /\ Count(c) /\ fsys.content.s = "Pending"
    /\ LET p == fsys.content.p
       IN  IF fsys.slot[p].d
           THEN /\ fsys' = [fsys EXCEPT !.content = [s |-> "Data", d |-> fsys.slot[p].s],
                                        !.slot[p] = NoData]
                /\ client' = [client EXCEPT ![c] = [pc |-> "idle", got |-> fsys.slot[p].s, p |-> 0]]
           ELSE /\ fsys' = [fsys EXCEPT !.lock = c]
                /\ client' = [client EXCEPT ![c] = [pc |-> "register", got |-> <<>>, p |-> p]]
    /\ UNCHANGED <<ed, events, procs, disk, now, scene>>

(* when the listener has gone, the reply channel closes and the read is     *)
(* answered with nothing                                                    *)
Register(c) ==
    /\ client[c].pc = "register"
    /\ LET p == client[c].p
           gone == fsys.listener[p] = "gone"
       IN  /\ fsys' = [fsys EXCEPT !.lock = NoClient,
                                   !.subs[p] = IF gone THEN @ ELSE Append(@, c)]
           /\ client' = [client EXCEPT ![c].pc = IF gone THEN "idle" ELSE "blocked",
                                       ![c].p = IF gone THEN 0 ELSE @]
    /\ UNCHANGED <<ed, events, procs, disk, now, used, scene>>

(* Message::send returns, and with it the request *)
Replied(c) ==
    /\ c \in ed.replied
    /\ ed' = [ed EXCEPT !.replied = @ \ {c}]
    /\ fsys' = [fsys EXCEPT !.lock = NoClient]
    /\ client' = [client EXCEPT ![c].pc = IF @ = "opened" THEN "blocked" ELSE "idle"]
    /\ UNCHANGED <<events, procs, disk, now, used, scene>>

----------------------------------------------------------------------------
(* The listener of a prompt: first the result for reads to come, then the   *)
(* reads that have registered.                                              *)

ListenerPublish(p) ==
    /\ fsys.listener[p] = "recv" /\ ed.chose[p].d
    /\ fsys' = [fsys EXCEPT !.slot[p] = ed.chose[p], !.listener[p] = "drain"]
    /\ UNCHANGED <<ed, events, procs, disk, now, client, used, scene>>

(* mutant: of the reads that wait only the last is answered *)
ListenerAnswersOne(p) ==
    /\ fsys.listener[p] = "drain" /\ fsys.subs[p] # <<>>
    /\ client' = [client EXCEPT ![Last(fsys.subs[p])] = [pc |-> "idle", got |-> ed.chose[p].s, p |-> 0]]
    /\ fsys' = [fsys EXCEPT !.subs[p] = <<>>, !.listener[p] = "drain"]
    /\ UNCHANGED <<ed, events, procs, disk, now, used, scene>>

ListenerAnswers(p) ==
    /\ fsys.listener[p] = "drain" /\ fsys.subs[p] # <<>>
    /\ client[Head(fsys.subs[p])].pc = "blocked"
    /\ client' = [client EXCEPT ![Head(fsys.subs[p])] =
                    [pc |-> "idle", got |-> ed.chose[p].s, p |-> 0]]
    /\ fsys' = [fsys EXCEPT !.subs[p] = Tail(@)]
    /\ UNCHANGED <<ed, events, procs, disk, now, used, scene>>

ListenerLeaves(p) ==
    /\ fsys.listener[p] = "drain" /\ fsys.subs[p] = <<>>
    /\ fsys' = [fsys EXCEPT !.listener[p] = "gone"]
    /\ UNCHANGED <<ed, events, procs, disk, now, client, used, scene>>

----------------------------------------------------------------------------

EditorStep ==
    \/ TakeEvent \/ SpawnChild \/ SpawnFails \/ WaitDone \/ KillDone
    \/ WriteFile \/ WriteFails \/ Written \/ ReadFile \/ ReadFails \/ Reloaded

UserStep ==
    \/ \E i \in DOMAIN InputOf : Press(i)
    \/ \E ks \in scene.pastes : Paste(ks)

ClientAsks(c) ==
    \/ \E text \in scene.ctl : WriteCtl(c, text)
    \/ \E b \in scene.focus : SetActiveBuffer(c, b)
    \/ scene.minibuffer /\ (MinibufferWrite(c) \/ ReadOpens(c) \/ ReadData(c) \/ ReadPending(c))

Listener(p) == ListenerPublish(p) \/ ListenerAnswers(p) \/ ListenerLeaves(p)

Next ==
    \/ EditorStep
    \/ UserStep
    \/ \E a \in scene.lsp : LspAction(a)
    \/ \E c \in Kids : ProcExits(c) \/ OutputEnds(c)
    \/ \E p \in scene.others : OtherProgramWrites(p)
    \/ scene.others # {} /\ Tick
    \/ \E c \in scene.clients : ClientAsks(c) \/ Register(c) \/ Replied(c)
    \/ \E p \in PromptIds : Listener(p)

(* when a step of the editor thread is possible *)
EditorReady ==
    CASE Top(ed).t \in {"idle", "prompt"} -> ed.running /\ ~ed.crashed /\ events # <<>>
      [] Top(ed).t = "wait"               -> procs[Top(ed).c].st = "exited"
      [] OTHER                            -> ~ed.crashed

(* Threads run, commands end, and the user answers what is asked.  The      *)
(* first conjunct is the weak fairness of EditorStep with what enables it   *)
(* written out.                                                             *)
Fairness ==
    /\ []<>~EditorReady \/ []<><<EditorStep>>_vars
    /\ WF_vars(\E i \in DOMAIN InputOf : InputOf[i].k = "Esc" /\ Press(i))
    /\ \A c \in Kids : WF_vars(ProcExits(c)) /\ WF_vars(OutputEnds(c))
    /\ \A c \in Clients : WF_vars(Register(c)) /\ WF_vars(Replied(c))
    /\ \A p \in PromptIds : WF_vars(Listener(p))

Spec == Init /\ [][Next]_vars /\ Fairness

----------------------------------------------------------------------------
(* Properties.                                                              *)

TypeOK ==
    /\ ed.running \in BOOLEAN /\ ed.active \in Open(ed) /\ Open(ed) \subseteq BufIds
    /\ ToSet(ed.kids) \subseteq Kids /\ ed.replied \subseteq Clients
    /\ fsys.lock \in Clients \cup {NoClient}
    /\ fsys.content.s \in {"Data", "Buffering", "Pending"}
    /\ \A c \in Kids : procs[c].st \in {"none", "run", "exited", "reaped"}
    /\ \A c \in Clients : client[c].pc \in {"idle", "sent", "opened", "register", "blocked"}

Extends(p, q) == Len(p) < Len(q) /\ SubSeq(q, 1, Len(p)) = p

Consistent(pairs) ==
    \A i, j \in DOMAIN pairs : i # j =>
        pairs[i][1] # pairs[j][1] /\ ~Extends(pairs[i][1], pairs[j][1])

Effective(b) ==
    LET over == { p[1] : p \in ToSet(b.over) }
        all  == SelectSeq(b.normal, LAMBDA p : p[1] \notin over) \o b.over
    IN  IF Consistent(all) THEN all ELSE b.normal

(* The keymap of normal mode answers for every sequence of keys what its    *)
(* bindings say: bound, the start of a binding, or neither.  The bindings   *)
(* of the configuration win over the defaults, or are dropped together when *)
(* one of them would hide or be hidden by another (Trie::get,               *)
(* merge_overriding, modes).                                                *)
KeymapExact ==
    (scene.name = "keys" /\ ed.k = <<>>) =>
    LET pairs == ToSet(Effective(ed.binds))
        normal == CHOOSE m \in ToSet(ed.modes) : m.name = "NORMAL"
    IN  \A key \in UNION { [1 .. n -> {1, 2, 3}] : n \in 1 .. 3 } :
            Get(normal.keymap, key) =
                IF \E p \in pairs : p[1] = key THEN Val((CHOOSE p \in pairs : p[1] = key)[2])
                ELSE IF \E p \in pairs : Extends(key, p[1]) THEN Partial
                ELSE Missing

(* Whatever prompts are opened inside of each other, from the keyboard, by  *)
(* clients and by language servers, each takes the mode it brought with it: *)
(* below the modes of open prompts lie normal and insert mode.              *)
ModesRestored ==
    LET n == Len(SelectSeq(ed.k, LAMBDA i : i.t = "unmode"))
    IN  /\ Len(ed.modes) = n + 2
        /\ { ed.modes[j].name : j \in n + 1 .. n + 2 } = {"NORMAL", "INSERT"}

(* Keys that are pending are the start of some binding of the mode that     *)
(* will look at the next one, also after a prompt has come and gone.        *)
PendingIsPrefix ==
    (ed.k = <<>> /\ ed.pending # <<>>) => Get(ed.modes[1].keymap, ed.pending) = Partial

(* Keys mean what their bindings say, and no key is kept that can lead to   *)
(* no binding: over overriding configurations, half-typed sequences and     *)
(* prompts that come in between (Trie, handle_keys).                        *)
KeysExact ==
    /\ KeymapExact
    /\ PendingIsPrefix

Prompts == { i \in DOMAIN ed.k : ed.k[i].t = "prompt" }

(* Return selects the line that is highlighted, which is one of the list    *)
(* that matches the input, under the index it has in the whole list, and    *)
(* the lines that are drawn contain it.                                     *)
ReturnsHighlighted ==
    \A i \in Prompts :
        LET mb == ed.k[i].mb
            sel == Selected(mb, [k |-> "Return"])
            bare == SelectSeq(sel.line, LAMBDA c : c # NewLine)
        IN  sel.s = "Line" =>
                /\ mb.lines[sel.cy] = bare
                /\ \A f \in Fragments(mb.input) :
                        HasFragment(bare, f) \/ HasFragment(ToLower(bare), f)
                /\ MaxHeight > 0 => mb.sel \in mb.top .. mb.bottom /\ mb.bottom - mb.top < MaxHeight

(* Moving down goes through all of the lines that match and then starts     *)
(* over, moving up the other way around, also when the list is longer than  *)
(* what is drawn.                                                           *)
ArrowsCycle ==
    \A i \in Prompts :
        LET mb == ed.k[i].mb
            n  == Len(mb.indices)
        IN  (n > 0 /\ MaxHeight > 0) =>
                /\ UpdateState(Down(mb)).sel = (mb.sel + 1) % n
                /\ UpdateState(Up(mb)).sel = (mb.sel + n - 1) % n

(* Prompts nest and select exactly: each takes its mode with it when it     *)
(* ends, Return gives the line that is highlighted, and the arrows go       *)
(* through all lines that match, whatever was typed and however few lines   *)
(* are drawn.                                                               *)
PromptsExact ==
    /\ ModesRestored
    /\ ReturnsHighlighted
    /\ ArrowsCycle

(* While a client's prompt is open no other request of a client is being    *)
(* handled: prompts of clients are never nested in each other.              *)
OneClientAtATime ==
    /\ Cardinality({ i \in DOMAIN ed.k : ed.k[i].t = "reply" }) <= 1
    /\ Cardinality({ i \in Prompts : ed.k[i].op = "fsys" }) <= 1

(* The list of running children has every child that was started and has    *)
(* not been waited for, once, and no other, so that the count that is shown *)
(* and the list that is offered for killing are right.                      *)
ChildrenTracked ==
    ed.running =>
    /\ \A i, j \in DOMAIN ed.kids : ed.kids[i] = ed.kids[j] => i = j
    /\ \A c \in Kids : procs[c].out # "none" =>
            (c \in ToSet(ed.kids) \/ Top(ed) \in { [t |-> "kill", c |-> c], Wait(c, "none") })
                <=> procs[c].st \in {"run", "exited"}

(* The editor's bookkeeping of those it talks to: at most one client's      *)
(* request is handled at any time, prompts inside of prompts included, and  *)
(* the list of children is the children that run.                           *)
EditorInv ==
    /\ TypeOK
    /\ OneClientAtATime
    /\ ChildrenTracked

(* A save that was not forced overwrites what the buffer has never seen     *)
(* only after the user has said so, or if it was written in one of three    *)
(* moments: between the disk access of the last save or reload and the      *)
(* reading of the clock that follows it, in the same tick of the file's     *)
(* clock as that reading, or after the check of the file.                   *)
SaveLosesNothing ==
    \A l \in ed.lost : l.forced \/ l.ok \/ l.raced \/ l.tick \/ l.between

(* A buffer that counts as clean holds what it last read or wrote, so that  *)
(* leaving without force loses nothing: a failed, refused or cancelled save *)
(* before it (":wq") keeps the editor running.                              *)
ExitLosesNothing ==
    /\ \A b \in Open(ed) : ~ed.bufs[b].dirty => ed.bufs[b].txt = ed.bufs[b].base
    /\ (~ed.running /\ ed.exit = "clean") => \A b \in Open(ed) : ed.bufs[b].txt = ed.bufs[b].base

(* No text is lost without a word from the user: neither what another       *)
(* program wrote to a file, by a save, nor what was typed, by leaving       *)
(* (save_current_buffer, exit).                                             *)
NothingLost ==
    /\ SaveLosesNothing
    /\ ExitLosesNothing

(* Every request of a client is answered, also when prompts are open and    *)
(* others wait for the mutex, as long as the user answers prompts and the   *)
(* commands the editor waits for end.                                       *)
ClientsAnswered ==
    \A c \in Clients : client[c].pc # "idle" ~> (client[c].pc = "idle" \/ ~ed.running)

(* A child that has exited is eventually waited for. *)
ChildrenReaped ==
    \A c \in Kids : procs[c].st = "exited" ~> (procs[c].st = "reaped" \/ ~ed.running)

----------------------------------------------------------------------------
(* What does not hold.                                                      *)

(* The child that is killed is the one that was selected. *)
KillsChosen == (ed.done # <<>> /\ ed.done.op = "kill") => ed.done.on = ed.done.to

(* The editor does not panic. *)
NeverPanics == ~ed.crashed

(* What a prompt asked about one buffer is done to that buffer. *)
AppliedToAsked == (ed.done # <<>> /\ ed.done.op \in {"save", "search", "reload", "EDIT"}) => ed.done.on = ed.done.to

(* Nothing is ever overwritten unseen. *)
SaveLosesNothingEver == \A l \in ed.lost : l.forced \/ l.ok

(* Whoever reads a client's selection gets it. *)
EveryReaderAnswered ==
    \A p \in PromptIds : fsys.listener[p] = "gone" => \A c \in Clients : ~(client[c].pc = "register" /\ client[c].p = p)

(* A prompt offers the lines of one client. *)
OneClientPerPrompt ==
    \A i \in Prompts : ed.k[i].op = "fsys" =>
        \E c \in Clients : ed.k[i].mb.lines = SplitLines(ClientText[c])

(* An editor that was told to leave, and agreed, leaves. *)
StaysStopped == ed.exit # "no" => ~ed.running
=============================================================================
