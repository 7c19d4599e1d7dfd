# A TLA+ model of ad

`ad` is a text editor in the tradition of acme: the buffers, the selections and
the user's input are files of a 9p filesystem, and programs extend the editor by
reading and writing them. This directory holds TLA+ modules of the parts of the
editor whose correctness depends on long sequences of calls, on the order of
steps of several threads, or on arithmetic at the edges; TLC configurations that
check them on small instances; and TLAPS proofs, for every value of the constants, about
the buffer and its undo log, the log and event files of the filesystem, the 9p connections
that serve them, the manager of language servers, and the list that buffers and windows are kept in. `PROJECT.json`
maps every definition to the lines of `src/` that it models (about a third of the
implementation), and lists runs, hazards, mutants and theorems.

    tlc -workers 2 -config MCFsysLog_reads.cfg MCFsysLog     # a run
    tlapm FsysLogProofs.tla                                  # the proofs

## Parts of the system

| part | state | operations | talks to | what makes it correct | module |
|---|---|---|---|---|---|
| edit log, `buffer/edit.rs` | transactions done and undone, the open group | record (merging with the last edit), group, undo, redo | buffer | undoing everything gives the first text, redoing everything the last | `EditLog` |
| dots and text objects, `dot/` | none (values) | clamp, shift, set, extend, find | buffer | a selection stays inside its text and is what its name says | `Dots`, `TextObject` |
| buffer, `buffer/mod.rs` | text, `dot`, `xdot`, log, dirty flag, file | typed input, deletion, undo/redo, client writes, save, reload | edit log, gap buffer, disk | selections in range, no panic, unsaved text is marked | `Buffer` |
| gap buffer, `buffer/internal.rs` | bytes with a gap, line endings, offset cache | insert, remove, offsets, slices, iterators | buffer, regex | behaves like a sequence of characters | `GapBuffer` |
| buffer list and jumps, `buffer/buffers.rs` | open buffers with one active, jump list, next id | open or focus, close, jump | layout | unique ids and paths, index in range | `Layout`, `JumpList` |
| layout, `ui/layout.rs` | columns of windows with sizes, stored views, scratch window | show, focus, split, close, drag, resize, click, refresh | buffer list, editor | windows show open buffers, the focused one the active buffer, and they fill the screen | `Layout`, `Sizes` |
| ziplist, `ziplist.rs` | focused element, elements above (reversed) and below | insert, remove, filter, focus, swap | layout, buffer list | implements a list with a position | `ZipList`, `FocusList` |
| editor, `editor/` | modes, event queue, open prompts, child processes | one action at a time from keys, mouse, filesystem messages | everything | every prompt, client and child gets what is due to it; nothing is lost unasked | `Editor` |
| minibuffer, `editor/minibuffer.rs` | input, list, selected line | type, filter, move, select | editor | what is highlighted is what is returned | `MiniBuffer` |
| modes and keys, `mode/`, `trie.rs` | key tries, pending keys | build, override, look up | editor | a sequence of keys does what it is bound to | `Keymap` |
| programs and addresses, `exec/` | none between programs | parse, resolve, gather, apply | buffer, regex | all matches are replaced at once, or nothing is | `Addr`, `Exec` |
| regular expressions, `regex/` | program, threads, pool of submatches | parse, compile, search, iterate | gap buffer, exec | finds the match that the pattern means | `RegexSyntax`, `RegexVm` |
| fsys log, `fsys/log.rs` | a listener thread, blocked reads, a log per client | open, read, clunk, push | editor events | each client reads each event once, in order | `FsysLog` |
| fsys event files, `fsys/event.rs`, `fsys/mod.rs` | an input filter, a listener thread and a read lock per diverted buffer, all behind one `Mutex<State>` | attach, read, clear | editor, 9p sessions | a diverted buffer has exactly one reader that gets everything; no request keeps the mutex | `FsysEvents` |
| fsys minibuffer and ctl files, `fsys/mod.rs` | waiting reads, listener | write lines, read (asks the user), listen | editor | every read is answered | `Editor` |
| 9p server, `crates/ninep/` | per connection: version, attached or not, fids, blocked reads | version, attach, walk, open, read, write, create, clunk, stat | filesystem | fids denote files, every request is answered once, what is open is given back | `NinepServer`, `NinepWire` |
| 9p client, `crates/ninep/` | stream, cache of fids by path, both shared by clones | read, write, list, stat, iterate, create | server | gets what is in the files | `NinepClient` |
| lsp, `lsp/` | servers, pending requests by id, capabilities by file type | start, stop, request, response, notification | editor, child processes | answers meet their questions; servers have the text they are asked about | `Lsp`, `LspText` |
| plumbing, highlighting, terminal UI and input, configuration, `ad_client` and tools | | | | see *Not modelled* | |

**Threads and how they meet.** The editor is one thread that takes events from one
queue: keys, mouse, and the messages of the filesystem, each with a channel for
its reply. A prompt is a nested loop on the same queue. Every 9p connection has a
session thread (or tokio task), and all of them share one `Mutex<State>`; a request
holds it while it waits for the editor or for a listener thread. The log, every
input filter and every minibuffer prompt of a client have a listener thread of their own that only
receives from channels. Child processes have reader threads that send into the
editor's queue. The LSP manager is a thread with a queue of its own, fed by the
editor and by one reader thread per language server.

**What is hard.** The mutex that is held across a wait (deadlock, lost progress);
blocked 9p reads that are answered by a thread that is not the one that
registered them (a lost or doubled event); a prompt inside of a prompt, with
clients and children acting in between; state that three structures keep
independently (windows, buffer list, filesystem nodes); positions computed before
an edit, a prompt or an answer of a server and used after it; the merging of edits
in the undo log; lengths in bytes that meet positions in characters; unsigned
sizes; caches and pools that outlive the operation that filled them. `PROJECT.json`
lists these as hazards, each at its line.

## The modules

    EditLog Dots   TextObject Addr    ZipList JumpList   FsysLog         FsysEvents
        \   |         |       /       /  |  \    |
         Buffer -----Exec----  ZipListOps Sizes Layout
                                  |
    GapBuffer                 FocusList                  NinepWire - NinepServer - NinepClient
    RegexSyntax - RegexVm     Keymap, MiniBuffer - Editor             Lsp, LspText

    proofs:   FsysLogProofs    FsysEventsProofs
              DataInduction -- EditLogProofs -- BufferProofs
                          |\-- ZipListProofs
                          \--- NinepProofs
              LspProofs

An `MC` module for each state machine gives its constants their values. Where one
run covers several situations, a constant `Scenes` holds a record for each with the
actors and the bounds of it, and `Init` picks one.

**EditLog, Dots, Buffer** (`buffer/edit.rs`, `dot/`, `buffer/mod.rs`). The buffer is
one record: `txt`, `dot`, `xdot`, `log`, `dirty`, `isFile`, `panicked`. Every handler
is an operator from records to records, so that a handler that calls others is the
composition of their operators, and every action of `Next` is one whole handler with
the bookkeeping that `Editor::execute` adds (clamping, grouping of edits). `EditLog`
is pure: records, merges, groups, undoes and redoes. `disk` is the file, with
whether it is newer than the last save; `base` and `ahead` are history variables,
the texts that full undo and full redo must give. Characters have a length in
bytes, because the code mixes lengths in bytes with positions in characters.

**GapBuffer** (`buffer/internal.rs`). The array of bytes with its gap, the line endings with
raw offsets, the cache of offsets that lookups fill; `text` is the plain sequence of
characters that the same edits make. Utf-8 is encoded and decoded byte by byte, so that a
read at a wrong offset gives a wrong character; what an edit leaves in the gap stays there.

**TextObject, Addr, Exec** (`dot/text_object.rs`, `dot/find.rs`, `exec/`). `TextObject` is how a
selection with an active end is set and extended, `Addr` the parser of addresses and what they
select, `Exec` a user who does all of that in a window with scroll offsets, and runs
programs: the edits of all matches are gathered in the text as it is, a command may fail,
then they are applied from the last to the first as one transaction of the log of `Buffer`.
The engine that finds the matches is a library (structex) and is external here; patterns are literal.

**RegexSyntax, RegexVm** (`regex/`). The parser, the rewriting of the tree and the set of
leading literals are operators; the compiler makes the code's instructions; the machine takes
one character per step and keeps its threads, its pool of submatches and its free list from
one search to the next. A search that only asks for a match (`matches*`) returns from the middle of a
step (`Abandoned`): the threads that are on the next list by then stay there, and the next search
starts with them, which its history `stale` notes. `Ends` is the reference: a recursive definition of the matches
of a tree, in the order in which the pattern prefers them.

**ZipList, FocusList, ZipListOps, Sizes** (`ziplist.rs`, `ui/layout.rs`). `ZipList` has the operations on
the pair of half-lists, the upper one reversed as in the code; `ZipListOps` turns them
into actions; `FocusList` is the list with a position that the documentation
describes. The refinement mapping is `items = Flatten(z)`, `pos = Len(z.up) + 1`. A predicate
passed to an operation is the set of the elements for which it holds. `Sizes` has the columns
and windows as zippers of blocks with sizes, in unsigned arithmetic of `SizeLimit` values:
splitting, closing, dragging, resizing, balancing and a terminal that changes its size.

**JumpList, Layout** (`buffer/buffers.rs`, `ui/layout.rs`, `editor/`). `ed` is the
editor: buffers and columns (both zippers), stored views, jump list, scratch window,
next id, status. `fsys` is what the reported events make the filesystem believe. An
action is an `Action` of the editor with its refresh (`Handled`), which is where the
code panics if windows and buffers disagree. Texts are lengths and selections one
cursor. `usize` arithmetic of the jump list wraps at `Usize`.

**Keymap, MiniBuffer, Editor** (`trie.rs`, `mode/`, `editor/`, `fsys/mod.rs`, `system.rs`). `ed.k` is the call
stack of the editor thread: a prompt is an item of it, and what its caller does with the
answer is the item below. Every event that arrives while a prompt is open is handled on
top of it. Around it are clients (ctl and minibuffer files) that wait with the filesystem's
mutex held, the listeners that hand selections to them, children with their output readers,
other programs that write to the files, and a clock that moves on its own, since a save is refused when the file's
modification time is newer. Checking the file, writing or reading it (`WriteFile`, `ReadFile`) and taking the time
of that for `last_save` (`Written`, `Reloaded`) are steps of their own, and others may write between any two. Texts are numbers, commands and paths come from tables.

**FsysLog** (`fsys/log.rs`). The editor sends events to the listener, which answers the
blocked reads and then passes each event on to the request threads, which push it to
the log of each client when the next request comes. `lpc` is where the listener is. A read
that finds nothing is two steps: it takes in what has been passed on and sees its log empty
(`ReadBegins`), then it registers (`ReadBlocks`). It holds the mutex in between (`reading`), which keeps other
requests away and not the listener, who may answer and pass on any number of events there.
`from`, `got` and `raced` are history variables: when a client opened the file, what
it has read, and the largest number of events that were past answering, and not taken in,
when one of its reads registered.

**FsysEvents** (`fsys/event.rs`, `fsys/mod.rs`, `fsys/buffer.rs`, `ninep` sessions). A
read of `buffers/N/event` asks the editor to attach a filter, starts a listener and
locks the file; each of these is a step, and `req` is the request that holds the
mutex in between. Clunks, lost connections (`leaving`) and deleted buffers
(`closing`, the report that has not arrived yet) happen at any point the mutex
allows.

**NinepWire, NinepServer, NinepClient** (`crates/ninep/`). `NinepWire` encodes and decodes messages
as bytes from one table of their fields. `NinepServer` is a session with its fids and cache of
qids, its answers to every message, blocked reads, and the two loops that serve it: the threaded one, and the
tokio one, which selects between the next message and answers to blocked reads and
may drop half a message in doing so. The tree behind it is external. `NinepClient` is the connection and
who uses it: clones of the client library, whose coroutines hold the shared cache for an operation
while clunks and iterators do not, or a program that speaks 9p itself and sends any message at any time.

**Lsp, LspText** (`lsp/`). The editor (`ed`), the manager (`man`, with its queue `reqs`), a reader per server and
the servers (`srv`), which are external: they take messages in order, answer in any order,
crash, or send what is not a message. A document's content is a number, so that what a
server has and what it is asked about can be compared. A question's handler looks its server up twice, for the
question and for the change it reports first; it is two steps (`AskAbout`, then `AskEnds` or, after the prompt
of a rename, `LspRename`; `asking` is the question in between), and the manager may replace the server there. `LspText` has positions in three
encodings, the order in which lists of edits are applied, and the frames of the stream;
`MCLsp` samples texts, edits and streams for it.

## The runs

Twelve runs, all of which pass. A property is a conjunction where its parts make one claim;
the parts have names and comments of their own in the modules.

| run | properties | bounds |
|---|---|---|
| `buffer_edits` | `UndoRedoExact`, `BufferInv`, `SelectionPreserved`, `CleanUnlessUndone` | a user alone, on a file and without one: texts of 3 characters over a letter and a newline, 6 units of log, from an empty and from a two-character text (three merged edits, or two that are not, undone and redone); a user, clients, saves and outside writes: texts of 2, which has every relative position of two selections, and 3 units of log |
| `log_reads` | `LogExactUnlessRaced`, `LogInOrder`, `LogInv`, `BlockedReadAnswered` | two clients, 4 events, 4 reads: two blocked reads in a row for each, with events in every stage of the pipeline |
| `events_requests` | `FilterInv`, `EventsExclusive`, `MutexReleased`, `DeferredReadsClosed` | two clients with up to two fids contend for one file, one client has two buffers that share the scratch filter; 2 filters, so that one is attached after another has gone; up to 2 events each |
| `blocks` | `ImplementsFocusList`, `SizesInv` | lists of up to 4 of 4 elements, every operation; screens of 5 by 9 with 4 windows, and of 6 by 9 that grow to 7 by 12 with 3, `MinDim` 2, resizing by -2 and 1 |
| `layout_focus` | `FocusMatches`, `LayoutInv` | two windows, two buffers, texts that grow from 0 to 1 |
| `layout_close` | `ClosedForgotten`, `InputShown` | two windows, three ids (closing a buffer uses one up), buffers deleted, clicks anywhere; a directory, a virtual buffer, command output and the scratch buffer |
| `gap_buffer` | `GapInv`, `ReadsAgree` | texts of 3 characters of one and two bytes, strings with one of three, gaps of 1 to 8 bytes, 2 cached offsets |
| `ninep_session` | `MessagesExact`, `SessionInv`, `ClientExact`, `Progress` | both loops; two clones with two operations in all, on an msize that cuts files and directories in pieces; or 6 messages of a raw client; 2 answers to blocked reads |
| `regex_find` | `VmInv`, `FindsExact`, `IterAdvances` | all patterns of up to three of the symbols `a`, `b`, bar and star, and 24 longer ones with groups, classes, counts, anchors, lazy and nested repetitions; for seven of them two searches with the same `Regex`, of any two kinds; arithmetic that is checked for overflow; 8 texts; every kind of search, forwards, backwards, between offsets, iterated |
| `exec_edits` | `SelectionsExact`, `AddrsExact`, `ProgramsExact` | texts of up to 6 characters with tabs, wide characters, delimiters and newlines, a window of 2 by 7 cells, one transaction in the log; in every state every text object, address, search and program is tried |
| `editor_threads` | `KeysExact`, `PromptsExact`, `EditorInv`, `NothingLost`, `ClientsAnswered`, `ChildrenReaped` | five scenes (keymaps and overrides; prompts in prompts; two clients of the minibuffer file; two children; saves while others write); 2 prompts, 1 edit, 2 ticks of the clock |
| `lsp_servers` | `LspInv`, `AskedInSync`, `TextExact`, `LspProgress` | two servers, three documents of two types, six scenes with 2 to 4 operations of the user and up to 3 messages that servers send unasked; texts of 3 characters with one of four bytes, 2 edits |

Two windows are enough to have two columns, a split column, a stored view, and a
window to return to; a third matters for dragging and for sizes, which `blocks` has. The
largest runs have 614,654 (`events_requests`) and 468,692 states (`lsp_servers`).

`Features` of a scene turn on behaviour that is known to break some property, or that
another scene covers, so that the rest can be checked without it: `reload` and `clients` of
`Buffer`, `delete`, `shrink`, `status_click`, `scratch` and `output` of `Layout`,
`concurrent_reads` and `unopened_reads` of `FsysEvents`. What a run leaves out in this
way is in the table of disagreements below.

`CHECK_DEADLOCK FALSE` is set where the program may stop (the editor exits, has
panicked) or the bounds end the behaviour; progress is stated as a property instead.
`blocks` and `gap_buffer` have deadlock checking on. Views: in the layout runs what the filesystem
believes counts only as far as their properties are about it (`EditorView`); `gap_buffer` ignores the bytes
in the gap (`OutsideGap`), and `exec_edits` keeps of the undo log only how long it is (`ExecView`), since
`buffer_edits` checks what is in it.

**Fairness.** Only threads that loop on a channel or a mutex are fair, and users, clients and
servers only where it says so.
`FsysLog`: weak fairness of the listener, which loops on `recv` and never takes the mutex.
`FsysEvents`: weak fairness of the editor's serving a message (it takes messages off one
queue and does not wait for the filesystem), of the request that holds the mutex going on
and of each listener. Nothing is assumed of users, of clients or of connections.
`NinepClient`: weak fairness of the loops that read the connection; strong fairness of
each clone's sending and iterating, since it competes for two mutexes with the other (a
mutex that starves nobody). The filesystem's answer to a blocked read is not assumed.
`Editor`: the editor thread steps again and again while it has something to do; the user does at
some time answer a prompt, if only with Escape; commands that are waited for exit, and their
output ends; clients take their replies. Without the second and the third every client may
wait forever, as in the code.
`Lsp`: weak fairness of the manager and of the readers, and that servers take messages,
answer and exit when told to, which is an assumption about other programs. It is not
assumed of servers that have crashed.

## What disagrees with the code's own words

The passing runs state what holds. Where a comment, a name or a document promises more, the stronger
property is stated beside it, and TLC refutes it. Each row says which, and what to change in the
configuration of the run of that module to see it (a file, where there is one; "-" where
replacing the properties is enough).

| module | property | change | what happens | what the source says |
|---|---|---|---|---|
| `Buffer` | `Unwinds` | `MCBuffer_utf8.cfg` | lengths in bytes decide whether insertions are adjacent, so undo after typing multi-byte characters removes the wrong text | `buffer/edit.rs:137` "The log can be unwound, restoring the buffer to a previous state" |
| | `RewindsAlways` | `Scenes <- MCReloadScenes` | an empty deletion is recorded after a reload left dot beyond the text; redo removes text for it | `buffer/edit.rs:137` "rewound as long as no new edits have been made" |
| | `XDotInBounds` | `Scenes <- MCClientScenes`, `ExternalTexts <- MCNoTexts` | undo, redo and typed input leave `xdot` beyond the text | `buffer/mod.rs:1379` "xdot clamped as part of handling the insert" |
| | `UnsavedIsDirty` | `Scenes <- MCFileScenes` | undo past a save clears the dirty flag | `buffer/mod.rs:1121` "prompted for saving before being closed" |
| | `OnlyFilesDirty` | `Scenes <- MCScratchScenes`, `ExternalTexts <- MCNoTexts` | undo and redo mark buffers that are not files | `buffer/mod.rs:1121` "Only files get marked as dirty" |
| `GapBuffer` | `CharAtByte` | - | a read next to the gap decodes what earlier edits left in it | the name of `char_at` |
| | `CacheFresh` | `SPECIFICATION ClearSpec` | `clear` keeps the cache of offsets | the cache's invariant in every other operation |
| `Exec` | `ProgramsSelectLast` | `Utf8Len <- MCUtf8`, `ExternalTexts <- MCOddTexts`, `Programs <- MCWide` | the selection after a program is moved by bytes | `buffer_edits` has the same confusion |
| | `EmptyEditSelects` | `ExternalTexts <- MCOddTexts`, `Programs <- MCEmpty` | an edit that inserts nothing selects too much: its length less one wraps | |
| | `FindsEveryText` | `ExternalTexts <- MCOddTexts` | a text that is there is not found when characters before it have several bytes | |
| | `GroupsSubstitute` | `Programs <- MCGroup` | the edits of a group at one match come out in the order in which they are applied | |
| | `LastLineAddrExact` | - | the number of a last line without a newline does not select all of it | |
| | `BackIsBack` | - | counting characters back before the start of the text ends up behind its end | |
| | `AnchorAlwaysKept`, `ParagraphsDirected` | - | extending by some text objects moves the end that is to stay, or moves against its direction | |
| | `ClickExactScrolled` | - | a click in a window that is scrolled sideways goes to another character | |
| `RegexVm` | `FastStartSound` | - | a pattern with optional parts skips a match with the search for its leading literals | `fast_update_byte_offset`: a match cannot start before the literal |
| | `LocInOrder` | `Patterns <- MCStripped` | a match starts after it ends, which `Match::loc` asserts against | |
| | `ReuseExact` | - | `matches*` leaves threads and a count of them behind: after `ab*` has matched "ab", the next search finds a match where there is none, or takes that count below zero | `regex/vm.rs:876` "Make sure that the previous cached state for a given Regex doesn't cause any strange behaviour for future matches" |
| `ZipListOps` | `RemovesAtMostOne` | `Duplicates = TRUE`, `Elem = {a, b}`, `MaxItems = 3` | every match of one side is removed | `ziplist.rs:310` "Remove the first element" |
| `Sizes` | `SizesAlwaysFill` | `Terminals <- MCOneSize` | a window dragged into a column of its own keeps its height | `calculate_dims`: "t = n(size) + (n - 1) + slop" |
| | `SizesFillWhenGrown` | `Terminals <- MCGrowing` | scaling leaves columns unused | "relative to the size of the full screen" |
| | `SizesNeverUnderflow` | `Terminals <- MCSmall` | a screen too small for its blocks takes sizes below zero | |
| | `SizesSurviveShrinking` | `Terminals <- MCShrinking` | so does one that shrinks | |
| `Layout` | `NeverPanics` | `Scenes <- ShrinkScenes`, no `VIEW` | a text shrinks, another window of it restores a cursor beyond its end | `ui/layout.rs:987` "ensure that all other views are within bounds" |
| | `ViewsKnown` | `Scenes <- StaleScenes`, `MaxViews = 2`, `MaxWindows = 1` | a stored view outlives its buffer | `ui/layout.rs:54` "stored view held unknown bufid" |
| | `FocusAlwaysMatches` | `Scenes <- DeleteScenes` | closing a buffer leaves the focus on a window of another than the active one | `ui/layout.rs:987` "the Buffer it is displaying" |
| | `FocusAlwaysMatches` | `Scenes <- StatusClickScenes` | a click below the last window focuses a window and not its buffer | `ui/layout.rs:1256` "Set the active buffer and dot based on a mouse click." |
| | `JumpIndexInBounds` | `Scenes <- JumpScenes`, `MaxJumps = 2`, `MaxWindows = 1`, `Usize = 5` | jumping back from a marked position takes the index below zero | `buffer/buffers.rs:432` "move self.idx back after the push" |
| | `DragLeftMovesOne` | `Scenes <- DragScenes`, `MaxWindows = 3` | dragging left out of the last column skips a column | `ui/layout.rs:692` "in the column to the left" |
| | `NoDuplicatePaths` | `Scenes <- PathScenes` | a directory browsed in place becomes one that is already open | `buffer/buffers.rs:103` "instead of opening a duplicate" |
| | `FsysKnowsAllOpen` | `Scenes <- OutputScenes`, no `VIEW` | buffers opened in the background are not reported | `fsys/mod.rs:89` "all of the currently open buffers" |
| | `FsysCurrentIsActive` | `Scenes <- OutputScenes`, no `VIEW` | several actions change the active buffer and report nothing | `fsys/mod.rs:92` "the current buffer" |
| `Editor` | `ClientsAnswered` | `MCEditor_blocked.cfg` | a command that the editor waits for uses the filesystem, and both wait | |
| | `AppliedToAsked` | - | the answer to a prompt is applied to the buffer that is active by then | |
| | `KillsChosen` | - | a child ends while the user chooses, and another one is killed | `system.rs:36` "by its index in the list returned from" |
| | `SaveLosesNothingEver` | - | a file written in the tick of the last save, between the disk access of a save or reload and the reading of the clock that dates it, or after the check, is overwritten | |
| | `OneClientPerPrompt`, `EveryReaderAnswered` | - | a prompt offers the lines of two clients; a read that comes while the listener exits gets nothing | |
| | `StaysStopped`, `NeverPanics` | - | deleting a buffer after `exit` sets the editor running again; a selected line that holds a newline panics | |
| `FsysLog` | `LogExact` | `Clients = {c1}`, `MaxEvents = 3` | a read that registers with an event past answering, which it has not taken in, loses an event or sees one twice | `fsys/log.rs:89` "Event will have been sent from the listener so drop this one" |
| | `LogAlwaysInOrder` | `Clients = {c1}`, `MaxEvents = 3` | with two such events the read goes back to an older one: the first is lost, and the second comes after the third | |
| `FsysEvents` | `MutexAlwaysReleased` | `Scenes <- ConcurrentScenes`, `MaxFilters = 1` | a second read of an event file, while one is blocked, keeps the mutex until the user types | `fsys/event.rs:104` "either immediately handled if data is pending or a blocked read is returned" |
| | `FilterHasReader` | `Spec`, `Scenes <- UnopenedScenes`, `MaxFilters = 1` | a read through a fid that was not opened attaches a filter and then fails to lock the file | `ninep/src/sync/server.rs:425` "which must be opened for reading" |
| | `UnopenedClunkHarmless` | `Spec`, `Scenes <- StatScenes`, `MaxFilters = 1` | the clunk of a fid that was only walked to removes the filter of the reader | `ninep/src/sync/server.rs:115` "Clunk a currently open file." |
| | `ScratchFilterKept` | `Spec`, `Scenes <- ScratchScenes` | removing one buffer's filter removes the scratch filter of another | `ui/layout.rs:1371` "for the given buffer if one exists" |
| `NinepClient` | `RequestsAnswered` | `SplitSpec`, `Flavours = {"tokio"}`, `Drivers = {"raw"}` | the tokio loop drops half a message when a blocked read is answered | |
| | `VersionStartsOver` | `Drivers = {"raw"}` | a version message leaves the session attached and without a root | |
| | `OpenIsHeld` | `Drivers = {"library"}`, `Ops <- ListedOps` | a directory that was listed and then created in through the cached fid stays open: the fid becomes the new file's | `ninep/src/sync/server.rs:115` "Clunk a currently open file." |
| | `CacheExact`, `MsizeHonoured` | `Drivers = {"library"}` | a create leaves the new file's fid under the directory's path; a write is longer than the agreed size | |
| `Lsp` | `ManagerReturns` | `Scenes <- EncodingScenes` | a server that asks for an unknown encoding is stopped without being told to exit, and the manager waits for it | |
| | `CapsOfClients` | - | the capabilities of a server outlive it | `lsp/mod.rs:102` "None if there is no active client" |
| | `InSync` | - | a buffer is asked about that was never reported, or became clean unreported | `buffer/buffers.rs:151` "sufficient for maintaining document sync" |
| | `OpenedOnce`, `OneServerPerType` | -, `Scenes <- AutostartScenes` | a document is reported twice or not at all; two servers are started for one type | |
| | `OneServerAsked` | - | a server is replaced while a question's handler is between its two look-ups: the change goes to the new server and the question to the old one | |
| | `EditsHitAsked`, `BlankEditsExact` | - | edits are made to the active buffer; a range that ends at a blank line is misread | |

## What is proved

The theorems hold for every value of the constants that satisfies the assumptions of the
modules (`FsysLogAssumption`, `FsysEventsAssumption`, `BufferAssumption`,
`Utf8LenAssumption`, `ZipListAssumption`, `LspAssumption`, `ServerAssumption`, `ClientAssumption`: bounds are numbers, `None` is no
element, the documents are finitely many and a scene names no others, and so on; TLC
evaluates them in every run), with three further hypotheses named below, `OneByte`,
`~Duplicates` and `CreatesUnopened`, which the code needs as well.

| module | theorem | what it says |
|---|---|---|
| `FsysLogProofs` | `TypeCorrect`, `LogInvariant` | every event is in one place of the pipeline |
| | `LogReadOnceInOrder` | a client none of whose reads registered with an event past answering, which it had not taken in, reads each event once, in order |
| | `LogNeverDisordered` | with at most one such event for each read, nothing is read out of order or more than twice |
| `FsysEventsProofs` | `FilterStory` | filter, handle, listener and lock of an event file belong together |
| | `EventsToOneReader` | the events of a filter go to one client, each once, in order |
| `BufferProofs` | `BufferSteady` | every handler keeps the types; no transaction that was undone is empty |
| | `SelectionStays` | a client's write elsewhere leaves the same text selected |
| | `CleanMeansSaved` | a buffer that is not dirty holds what is in its file, unless undo cleared the mark |
| | `UndoIsExact`, `BufferFits` | undo and redo are exact, selections stay in the text, nothing panics (`OneByte`) |
| `ZipListProofs` | `ZipListIsFocusList` | `ZipListOps` implements `FocusList` (`~Duplicates`) |
| `NinepProofs` | `NinepSession` | fids have their files, what is open is held, the clones' locks exclude each other, every request is answered once (`CreatesUnopened`) |
| `LspProofs` | `LspInvariant` | answers meet the question they answer, progress its own title, the manager's maps fit together |
| | `LspAskedInSync` | a server that gets to a question has the text that the question was asked about, except of a buffer that was never reported, became clean without a report, or whose server was replaced between the handler's two look-ups |

**FsysLog.** What a client has
read says nothing about the next step, because the event it needs may be in either
channel, in the listener's hands, or already delivered but about to arrive a second
time. `LogInv` says where every event is. `PipeInv`: the two channels and the listener
hold consecutive events, from the last one pushed to the last one sent. `ReadingInv`: the read that holds the mutex has an
empty log, whatever the listener does meanwhile, since only a request pushes. `ClientInv`, for a client with
`raced` 0: if its log has events, what it has read followed by them is everything up
to the last push; if the log is pending and its read still blocked, it has read
everything and nothing is on its way to the log; if the log is pending and the read has been answered, it
has read one event more, which is on its way and will be dropped. That a blocked read
implies an empty channel to the logs is what fails when the listener has been at work since the read took in
what there was, hence `raced`. With `raced` 1 a client can have two blocked reads that will both reach it, and never
three (`AtMostTwo`); `OrderInv` says for none, one and two of them what can be on its way to
the logs, and how far beyond the last push what the client has read may reach: by one event, at
its end (`Nearly`). So an event comes twice at most, and none after a younger one. Both bounds are needed: with one event
in that window exactness fails, with two of them order does (`LogExact` and `LogAlwaysInOrder`, above).

**FsysEvents.** Both invariants hold between requests, and a request is many steps (the editor
attaches the filter, the session starts a listener, then locks the file), so the inductive
invariant has a part for each phase of `req`, saying which of filter, handle, listener
and lock exist in it and which do not yet, or no longer. `BuffersInv` covers buffers that the editor has
deleted and fsys has not been told of. `EventsExclusive` then needs that a filter has one
listener, that a listener's queue and the reads it has answered are of the client that
holds the lock, and that a filter number is used once. `FilterStory` is about scenes
without the feature `unopened_reads`: with it a clunk of a fid that was never opened takes the
filter of another client away, which is one of the disagreements above.

**Buffer.** `Follows` is what a handler may do to a buffer: its steps are edits of the text, and
the log grows by what they were. An edit is a step between two texts (`Step`), a
transaction a chain of steps (`Chain`), and the log a chain of transactions (`LogChain`,
for what was undone `RedoChain`). `Recorded` says that a handler leaves a log that leads to the text
that it leaves: the case that takes the work is an insertion or deletion that is merged into
the edit before it. The invariant of a user who edits alone (`AloneInv`) is that the log leads from the first text to
the present one and what was undone from there to the text before the first undo (`Exact`),
and that the selection lies in the text (`WellDot`); `SteadyInv` is what holds for
clients as well. `OneByte`, that every character is encoded in one byte, is a hypothesis of
`UndoIsExact` and `BufferFits` because the code adds lengths in bytes to positions in
characters where it merges; `MCBuffer_utf8.cfg` has TLC's counterexample without it. Chains
are about sequences of any length: the proofs go by induction over numbers, stated
with sets (`DataInduction`: a set with 0 in it and with every number the next has all
numbers in it), since the provers cannot instantiate a rule about an arbitrary predicate.

**ZipList.** The mapping reverses the upper half, and the operations take lists apart at both
ends, so each step is an equation between lists. `ZipListProofs` first shows the laws for
sequences, element by element, and what `Kept` keeps by induction over lists; then `Lists`, `Nil`, `One` and
`Cat` hide what a sequence is, and a lemma per operation
says what it does to `Flatten(z)` and to the position, with wrapping at both ends. The invariant is that the halves are
lists and that no two elements are equal. The latter is the hypothesis `~Duplicates`: `remove_where` takes every match
out of a half where its documentation promises the first (`RemovesAtMostOne`, above). The ids of
buffers, columns and windows, which the editor keeps in these lists, are distinct.

**9p.** `SessionInv` does not say why a request of the client cannot break it: that depends on
which requests are sent, and on what the server made of earlier ones. The inductive invariant
(`IInv` of `NinepProofs`) has four parts.

- `SessionOK`: fids lead to files that are in the cache, the cache holds what the filesystem says of a file,
  what is open is the file of a fid, and a session that is not attached has no fids.
- `LocksOK`: each clone is at a stage with the operation that the stage belongs to; it holds the state
  in the stages of a coroutine and the stream while it waits.
- `LibraryOK`, when the library uses the connection. `Places`: one message at most is between the client and
  the server, and it is a request, a blocked read, its answer on the channel, or a reply; nothing is if no clone
  holds the stream. `FidsOK`: every fid of the session, of the cache of paths and of the clones is one the client has
  given out (or the one that a walk under way asks for), so a walk never meets a fid that is in use;
  the root's fid stays the root; and only the path of the directory leads to its fid (`Leads`), whence the
  directory, if no operation opens it, is not open (`Dir \notin fs.open`) when a file is created in it.
- `RawOK`, when a client speaks 9p itself: each tag it waits for is in one of the four places, once,
  and what it has sent does not move a fid that is open (`Keeps`, from `Legal`, the rules of the protocol that the
  server does not check).

There is a lemma per handler of the session, which says what it keeps of `SessionOK`, that it opens and binds
no more than its message asks for, and that its reply can be encoded (`Served`): a walk is
followed name by name (`UptoTrail`, by induction over the names, `DataInduction`), and a reply that could not be
encoded would be dropped and its request never answered, which is why `ServerAssumption` lets a size field hold
the qids of a walk of two names. `HandledRaw` and `HandledLibrary` then move one message from a place to the next, counting
tags over sequences (`TagsAppend`, `TagsTail`). For the library there is a lemma per step of a clone.
`CreatesUnopened` is the hypothesis that no operation of the library opens the directory that another creates a
file in. 9p forbids a create through a fid that is open; neither the library nor the server checks it, and the cache of fids makes the
two meet: `ListedOps` (in the table above) has TLC's counterexample.

**Lsp.** `LspInv` speaks of the manager, and what it says can be broken by what is still in a
pipe, in a server or on the channel. So the inductive invariant has a part for each server `id` that follows
what is under way between it and the manager:

- `FreshAt`: a server that was not started has said nothing and is asked nothing, so an
  id that is given to a new server finds nothing old; `StartsIn` counts the starts that are still on the
  channel, so that the ids suffice.
- `MatchedAt`: a question in the pipe or the server, and an answer in the output or on the
  channel, carries the method, document and version that the manager keeps under its id, and ids given out so
  far are below the next one.
- `OnceAt`: an id is in at most one of these four places, and once in it, so an answer that is handled
  leaves none behind that would meet another question. `KeptAt`: what the manager keeps for a server it can hear is
  in one of them, so no question is lost.
- `TitledIn`: a report of progress, wherever it is, comes after its token
  began and before it ended, read across the output, the channel and the titles that the manager
  has. When the manager gets to it, the title is there and is that of the server.

`NextKeeps` has a case per action, and there is a lemma for each thing a server or its reader
does (`ServerAnswersKeeps`, `ReadKeeps`, ...), for each handler of the manager and for each operator of the
editor, which only puts wishes on the channel (`W`). A handler of the manager is a chain of operators on
one record (`Ctx`), and the lemmas about `Write`, `SendRequest`, `StopClient` and so on compose in
the same order.

`AskedInSync` speaks of a question that is already in a server's pipe, and says nothing about
what will be written there next: the notifications that decide it are still on the channel, or
have not been sent. `Sync`, inductive together with the invariant above, follows two
claims about a document, that the server has it open and that it has a given text. A notification makes or
breaks a claim, and the claim holds at a place in a queue if it was made and not broken before (`Holds`),
where the queue is the pipe of the server (`InSure`) or the channel after that pipe (`ReqSure`).

- `PipeSure`, `ReqsSure`: both claims hold where a question about a document is, in the pipe or on the channel.
- `EditorSure`: for a buffer that the editor reports to the server, the first claim holds at the end of the
  channel, so the next notification or question finds the document open; and so does the second,
  unless the buffer is dirty or is noted as `stale`: it became clean without a report.
- `Asking`: a question that was begun has its method and its server. `SendQuestionComplete` is about what follows:
  if the server is still the one of the buffer's type, the change, if there is one, and the question go to it in that order; if it
  was replaced, the question makes no claim (its text is -1), and the change goes to the new server.
- `Addressed`, `Starting`: what is sent to a server was sent when that server was running, and a question that
  starts one is its first, so `initialized` and the documents open at that time go ahead of everything
  else, and no server is told of a document before it is initialised.

A handler of the manager moves the head of the channel to the end of a pipe, which moves the claims with
it (`HoldsTail`), and an operator of the editor extends the channel by a change and then by the
question. The case that needs all of this is a server that starts while buffers are edited: the documents
sent with the start are those that were open when it was requested, and the editor reports to it only
when `caps` names it, which is after they were written to its pipe. A buffer that was opened in between is
noted as `unopened`, one that was changed and saved as `stale` (`ed` in `Lsp`; the code has no such notes).

**Only model-checked.** All liveness (`BlockedReadAnswered`, `MutexReleased`,
`DeferredReadsClosed`, `Progress`, `ClientsAnswered`, `ChildrenReaped`, `LspProgress`), which needs fairness and ENABLED; what the modules with
recursive operators compute (`RegexSyntax`, `RegexVm`, `Keymap`, `Editor`, `MCLsp` with
`LspText`), since the prover has no arithmetic in a module that reaches one; and, so far, the decoding and
the offsets of `GapBuffer`, the arithmetic of `Sizes`, `TextObject`, `Exec`,
`Layout`, and what the messages of 9p hold (`MessagesExact`, `ClientExact`): the fold over the entries of a directory
and the bytes of a message.

## Not modelled

- Whole parts: plumbing rules (no state outlives a match), syntax highlighting (derived data,
  largely in tree-sitter), rendering and terminal I/O, decoding of terminal input, parsing of the
  configuration, the clipboard, `ad_client` and the small tools on top of the 9p client.
- `Buffer`: syntax and indentation; a write to the disk and the check before it are one step
  here, and two in `Editor`.
- `GapBuffer`: characters of four bytes; the debug assertions.
- `Exec`: the structex engine; regular expressions in addresses and loops (literals here); scrolling with
  the wheel, chords, and what the other two buttons of the mouse do with what they select.
- `RegexVm`: the folding of word classes, searches over streams, `\b` in the reference.
- `Layout`: rendering; the jump that some edit commands record; the focus that executing text
  moves without telling anyone; the prompt for dirty buffers, which `Editor` has
  (`DeleteBuffer` is the case in which the buffer is deleted).
- `Editor`: help and log buffers, reloading the configuration, the scratch file; the names and arguments
  of commands are a table.
- `FsysLog`: the text of events, offsets of reads; a client that closes the file while its
  read is blocked is answered into nothing.
- `FsysEvents`: buffers opened later, a version message in mid-session (`NinepServer` has it), the order of replies
  on the wire. A client that connects again is another client, as in the code.
- `NinepServer`: authentication beyond its refusal; errors of a socket end the session.
- `Lsp`: the reload that `open_file` offers, the tables of error codes, the data of each request,
  writes to a pipe that is full; of the handlers that report several changes (saving, moving the focus,
  loading), the moments between their look-ups of the server.

## Plan

The modules of the plan exist; what is left is to prove. In this order:

1. `Layout`: `ClosedForgotten`, from the facts about filtering a zipper in `ZipListProofs`.
2. `NinepClient`: `CacheAgrees`, from the invariant of `NinepProofs`.
3. `Editor`: `OneClientAtATime` and `ChildrenTracked`, which need its recursive operators, and
   those of `Keymap`, in modules that the proofs do not reach.
4. `Sizes`: the arithmetic of `CalculateDims` and `ClampedSub` for every screen.
5. `GapBuffer`: that moving and growing the gap keep the bytes around it, before anything is decoded.
