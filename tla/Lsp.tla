-------------------------------- MODULE Lsp --------------------------------
(***************************************************************************)
(* The LSP manager (src/src/lsp/): a thread that starts and stops language *)
(* servers, writes what the editor asks of them to their standard input    *)
(* and turns their answers into actions of the editor.  It takes           *)
(* everything that it does from one channel, which the editor and a reader *)
(* thread for every server write to.  The editor looks up the server of a  *)
(* file type by itself, in a map that the manager writes.                  *)
(*                                                                         *)
(* The content of a document is a number.  Servers are external: they take *)
(* messages in order, answer requests in any order, and may crash or send  *)
(* what is not a message.  Status messages and logging are left out except *)
(* for the progress that servers report.                                   *)
(***************************************************************************)
EXTENDS Integers, Sequences, SequencesExt, FiniteSets

CONSTANTS
    Docs, NoDoc, Ftypes, FtypeOf,   \* documents and their types
    Servers,                        \* how many servers are started
    Tokens,                         \* of progress
    Scenes                          \* what happens, and how often

Ids == 0 .. Servers - 1
NoId == Servers

ASSUME LspAssumption ==
    /\ Servers \in Nat /\ NoDoc \notin Docs /\ FtypeOf \in [Docs -> Ftypes]
    /\ IsFiniteSet(Docs)
    /\ \A s \in Scenes : s.open \subseteq Docs /\ s.docs \subseteq Docs

VARIABLES
    ed,         \* the buffers of the editor
    asking,     \* the question that its handler is about to send
    reqs,       \* the channel that the manager takes requests from
    man,        \* the manager
    srv,        \* the servers and the threads that read from them
    events,     \* what the manager has sent to the editor
    scene

vars == <<ed, asking, reqs, man, srv, events, scene>>

(* functions with a value more, and with one less *)
Put(f, k, v)  == [i \in DOMAIN f \cup {k} |-> IF i = k THEN v ELSE f[i]]
Without(f, k) == [i \in DOMAIN f \ {k} |-> f[i]]

(* what is sent on the channel to the manager *)
Start(f, docs)        == [k |-> "start", f |-> f, docs |-> docs]
Stop(id)              == [k |-> "stop", id |-> id]
Request(id, m, d, v)  == [k |-> "request", id |-> id, m |-> m, d |-> d, v |-> v]
Notify(id, m, d, v)   == [k |-> "notify", id |-> id, m |-> m, d |-> d, v |-> v]
Incoming(id, msg)     == [k |-> "message", id |-> id, msg |-> msg]

----------------------------------------------------------------------------
(* The handle, which the editor thread calls.  w is the editor's state and  *)
(* w.sent what it has sent to the manager in this step.                     *)

Send(w, r) == [w EXCEPT !.sent = Append(@, r)]

(* lsp_id_and_encoding_for: whichever server recorded its capabilities last *)
ServerOf(d) == IF d = NoDoc THEN NoId ELSE man.caps[FtypeOf[d]]

(* start_req_for_buf: every buffer of the active buffer's type *)
OpenDocs(w, f) == [d \in { x \in w.open : FtypeOf[x] = f } |-> w.txt[d]]
StartClient(w) ==
    IF w.active = NoDoc THEN w
    ELSE Send(w, Start(FtypeOf[w.active], OpenDocs(w, FtypeOf[w.active])))

DocumentOpened(w) ==
    LET d == w.active
    IN  CASE d = NoDoc -> w
          [] d # NoDoc /\ ServerOf(d) # NoId ->
                [Send(w, Notify(ServerOf(d), "didOpen", d, w.txt[d])) EXCEPT
                    !.stale = @ \ {d}, !.unopened = @ \ {d}]
          [] d # NoDoc /\ ServerOf(d) = NoId /\ scene.autostart -> StartClient(w)
          [] OTHER -> w

DocumentClosed(w, d) ==
    IF ServerOf(d) = NoId THEN w ELSE Send(w, Notify(ServerOf(d), "didClose", d, w.txt[d]))

DocumentChanged(w, d) ==
    IF ServerOf(d) = NoId THEN w
    ELSE [Send(w, Notify(ServerOf(d), "didChange", d, w.txt[d])) EXCEPT !.stale = @ \ {d}]

DocumentSaved(w, d) ==
    IF ServerOf(d) = NoId THEN w ELSE Send(w, Notify(ServerOf(d), "didSave", d, w.txt[d]))

(* goto_definition and the other questions about the active buffer look up  *)
(* its server and, when there is one, begin to ask it                       *)
NoQuestion == [m |-> "none", id |-> NoId]
AskAbout(m) ==
    asking' = IF ServerOf(ed.active) = NoId THEN NoQuestion ELSE [m |-> m, id |-> ServerOf(ed.active)]

(* a request without a text is one that no claim is made about *)
Question(w, q) ==
    Request(q.id, q.m, w.active, IF ServerOf(w.active) = q.id THEN w.txt[w.active] ELSE -1)

(* mutant: the change is reported after the question is sent *)
SendQuestionFirst(w, q) ==
    LET asked == Send(w, Question(w, q))
    IN  IF w.dirty[w.active] THEN DocumentChanged(asked, w.active) ELSE asked

(* the rest of goto_definition and the others: the change is reported, to   *)
(* whichever server is there by now, and the question sent to the first one *)
SendQuestion(w, q) ==
    Send(IF w.dirty[w.active] THEN DocumentChanged(w, w.active) ELSE w, Question(w, q))

----------------------------------------------------------------------------
(* What the buffers do (src/src/buffer/buffers.rs), as far as it concerns   *)
(* servers.  An edit is a content that was not there before.                *)

NotifyIfDirty(w) ==
    IF w.active # NoDoc /\ w.dirty[w.active] THEN DocumentChanged(w, w.active) ELSE w

FocusOn(w, d) == [NotifyIfDirty(w) EXCEPT !.active = d]      \* next, previous, focus_id, jump

Load(w, d) ==       \* a new buffer of a file
    [w EXCEPT !.open = @ \cup {d}, !.txt[d] = w.disk[d], !.dirty[d] = FALSE, !.log[d] = <<>>]

OpenFile(w, d) ==
    IF d \in w.open THEN FocusOn(w, d)
    ELSE DocumentOpened([Load(w, d) EXCEPT !.active = d])

(* ensure_file_is_open reports the buffer that is active *)
EnsureOpen(w, d) ==
    IF d \in w.open THEN w
    ELSE [Load(DocumentOpened(w), d) EXCEPT !.unopened = @ \cup {d}]

EditBuffer(w) ==
    IF w.active = NoDoc THEN w
    ELSE LET d == w.active
         IN  [w EXCEPT !.log[d] = Append(@, w.txt[d]), !.txt[d] = w.fresh, !.fresh = @ + 1, !.dirty[d] = TRUE]

(* close_buffer; next is the buffer that takes the focus *)
CloseBuffer(w, d, next) ==
    [DocumentClosed([w EXCEPT !.open = @ \ {d}, !.active = next], d) EXCEPT
        !.stale = @ \ {d}, !.unopened = @ \ {d}]

UndoEdit(w) ==      \* undone to the start, the buffer is clean
    LET d == w.active
        log == Front(w.log[d])
    IN  [w EXCEPT !.txt[d] = Last(w.log[d]), !.log[d] = log, !.dirty[d] = log # <<>>,
                  !.stale = IF log = <<>> THEN @ \cup {d} ELSE @]

SaveBuffer(w) ==
    LET d == w.active
    IN  DocumentSaved(DocumentChanged([w EXCEPT !.disk[d] = w.txt[d], !.dirty[d] = FALSE], d), d)

(* reload_active_buffer reports nothing *)
ReloadBuffer(w) ==
    LET d == w.active
    IN  [w EXCEPT !.txt[d] = w.disk[d], !.dirty[d] = FALSE, !.log[d] = <<>>, !.stale = @ \cup {d}]

----------------------------------------------------------------------------
(* Messages to servers.  x.m is the manager, x.s the servers and x.ev what  *)
(* is sent to the editor.                                                   *)

ToServer(k, rid, m, d, v) == [k |-> k, rid |-> rid, m |-> m, d |-> d, v |-> v]
Pending(m, d, v, f, docs) == [m |-> m, d |-> d, v |-> v, f |-> f, docs |-> docs]

(* write fails when the server is gone *)
Write(x, id, msg) ==
    IF x.s[id].st = "up" THEN [x EXCEPT !.s[id].in = Append(@, msg)] ELSE x

Running(x, id) == id \in DOMAIN x.m.clients /\ x.m.clients[id].status = "Running"

(* mutant: ids are not used up *)
NextIdSame(x, id) == x

NextId(x, id) == [x EXCEPT !.m.clients[id].next = @ + 1]

(* a request that could not be written is forgotten, and its id used up *)
WriteRequest(x, id, m, d, v, p) ==
    LET rid == x.m.clients[id].next
        y   == Write(NextId(x, id), id, ToServer("request", rid, m, d, v))
    IN  IF x.s[id].st = "up" THEN [y EXCEPT !.m.pending = Put(@, <<id, rid>>, p)] ELSE y

SendRequest(x, id, m, d, v, p) == IF Running(x, id) THEN WriteRequest(x, id, m, d, v, p) ELSE x
SendNotification(x, id, m, d, v) ==
    IF Running(x, id) THEN Write(x, id, ToServer("notify", -1, m, d, v)) ELSE x

(* a notification about each of some documents *)
SendNotifications(x, id, m, docs) ==
    LET ds == SetToSeq(DOMAIN docs)
    IN  IF Running(x, id) /\ x.s[id].st = "up"
        THEN [x EXCEPT !.s[id].in = @ \o [i \in 1 .. Cardinality(DOMAIN docs) |->
                                            ToServer("notify", -1, m, ds[i], docs[ds[i]])]]
        ELSE x

(* start_client; a command that cannot be spawned uses up an id *)
HandleStart(x, f, docs, spawns) ==
    LET id == x.m.next
        y  == [x EXCEPT !.m.next = @ + 1]
    IN  IF ~spawns THEN y
        ELSE WriteRequest([y EXCEPT !.m.clients = Put(@, id, [status |-> "Initializing", enc |-> "Utf32", next |-> 0]),
                                    !.s[id].st = "up", !.s[id].reader = "up"],
                          id, "initialize", NoDoc, 0, Pending("initialize", NoDoc, 0, f, docs))

(* join waits for the threads of the server with the client removed *)
StopClient(x, id) ==
    LET y == SendNotification(SendRequest(x, id, "shutdown", NoDoc, 0, Pending("shutdown", NoDoc, 0, "none", <<>>)),
                              id, "exit", NoDoc, 0)
    IN  IF id \in DOMAIN y.m.clients THEN [y EXCEPT !.m.clients = Without(@, id), !.m.join = id] ELSE y

----------------------------------------------------------------------------
(* Answers.  A result is [r, d, enc, item]: whether there is one, the       *)
(* document it is about, the encoding (of initialize) and whether a         *)
(* completion has to be resolved.                                           *)

Tell(x, e) == [x EXCEPT !.ev = Append(@, e)]
Event(k, d, back, id) == [k |-> k, d |-> d, back |-> back, id |-> id]

(* Initialize::handle_res *)
Initialized(x, id, p, res) ==
    CASE res.enc = "unknown" -> StopClient(x, id)
      [] res.enc # "unknown" /\ id \notin DOMAIN x.m.clients -> x
      [] OTHER -> LET y == SendNotification(
                             [x EXCEPT !.m.clients[id].status = "Running", !.m.clients[id].enc = res.enc,
                                       !.m.caps[p.f] = id], id, "initialized", NoDoc, 0)
                  IN  SendNotifications(y, id, "didOpen", p.docs)

(* handle_res of the other requests.  Those that need the encoding of the   *)
(* server do nothing once its client is gone.                               *)
Found(x, id, res) == id \in DOMAIN x.m.clients /\ res.r = "some"

GotoRes(x, id, p, res)       == IF Found(x, id, res) THEN Tell(x, Event("open", res.d, NoDoc, id)) ELSE x
HoverRes(x, id, p, res)      == x       \* a scratch buffer, which no server knows of
ReferencesRes(x, id, p, res) == IF Found(x, id, res) THEN Tell(x, Event("references", res.d, NoDoc, id)) ELSE x
FormatRes(x, id, p, res)     == IF Found(x, id, res) THEN Tell(x, Event("edit", p.d, NoDoc, id)) ELSE x
CompletionRes(x, id, p, res) ==         \* an item with data is to be resolved
    IF Found(x, id, res) THEN Tell(x, Event(IF res.item THEN "resolve" ELSE "complete", p.d, NoDoc, id)) ELSE x
ResolveRes(x, id, p, res) ==
    IF id \in DOMAIN x.m.clients THEN Tell(x, Event("edit", p.d, NoDoc, id)) ELSE x
PrepareRenameRes(x, id, p, res) == IF res.r = "some" THEN Tell(x, Event("newName", p.d, NoDoc, id)) ELSE x
RenameRes(x, id, p, res)     == IF Found(x, id, res) THEN Tell(x, Event("rename", res.d, p.d, id)) ELSE x

HandleRes(x, id, p, res) ==
    CASE p.m = "initialize"    -> Initialized(x, id, p, res)
      [] p.m = "goto"          -> GotoRes(x, id, p, res)
      [] p.m = "hover"         -> HoverRes(x, id, p, res)
      [] p.m = "references"    -> ReferencesRes(x, id, p, res)
      [] p.m = "format"        -> FormatRes(x, id, p, res)
      [] p.m = "completion"    -> CompletionRes(x, id, p, res)
      [] p.m = "resolve"       -> ResolveRes(x, id, p, res)
      [] p.m = "prepareRename" -> PrepareRenameRes(x, id, p, res)
      [] p.m = "rename"        -> RenameRes(x, id, p, res)
      [] p.m = "shutdown"      -> x

HandleResponse(x, id, msg) ==
    LET key == <<id, msg.rid>>
    IN  IF key \notin DOMAIN x.m.pending THEN x
        ELSE LET y == [x EXCEPT !.m.pending = Without(@, key)]
             IN  IF msg.res.r = "error" THEN y ELSE HandleRes(y, id, x.m.pending[key], msg.res)

(* progress_tokens: every server has a map of its own *)
TokensOf(id) == id

NoTitle == NoId

(* WorkDoneProgressCreate, which is answered *)
CreateProgress(x, id, msg) ==
    LET y == [x EXCEPT !.m.titles[TokensOf(id)] = Put(@, msg.tok, NoTitle)]
    IN  IF id \in DOMAIN x.m.clients THEN Write(y, id, ToServer("response", msg.rid, "create", NoDoc, 0)) ELSE y

(* what a server does is shown under its title, which is the server's id *)
ShowProgress(x, id, msg) ==
    LET show(t) == [x EXCEPT !.m.status = [id |-> id, tok |-> msg.tok, title |-> t, of |-> msg.m]]
        titles  == x.m.titles[TokensOf(id)]
    IN  CASE msg.m = "begin"  -> [show(id) EXCEPT !.m.titles[TokensOf(id)] = Put(@, msg.tok, id)]
          [] msg.m = "report" -> show(IF msg.tok \in DOMAIN titles THEN titles[msg.tok] ELSE NoTitle)
          [] msg.m = "end"    -> [show(NoTitle) EXCEPT !.m.titles[TokensOf(id)] = Without(@, msg.tok)]

PublishDiagnostics(x, id, msg) ==
    IF id \in DOMAIN x.m.clients THEN [x EXCEPT !.m.diags[msg.d] = msg.v] ELSE x

HandleRequest(x, id, msg) == IF msg.m = "create" THEN CreateProgress(x, id, msg) ELSE x
HandleNotification(x, id, msg) ==
    CASE msg.m \in {"begin", "report", "end"} -> ShowProgress(x, id, msg)
      [] msg.m = "diagnostics" -> PublishDiagnostics(x, id, msg)
      [] OTHER -> x

----------------------------------------------------------------------------
(* Steps of the editor.  ed.stale and ed.unopened are not in the code: the  *)
(* documents whose server cannot know what is in them, because a buffer     *)
(* became clean without a report, or was never reported.                    *)

Questions == {"goto", "hover", "completion", "references", "format", "prepareRename", "rename"}

NewServer == [st |-> "none", in |-> <<>>, todo |-> {}, out |-> <<>>, reader |-> "none",
              has |-> [d \in Docs |-> -1], begun |-> {}, pushed |-> 0, known |-> TRUE]

Init ==
    /\ scene \in Scenes
    /\ ed = [open |-> scene.open, active |-> IF scene.open = {} THEN NoDoc ELSE CHOOSE d \in scene.open : TRUE, txt |-> [d \in Docs |-> 0], disk |-> [d \in Docs |-> 0],
             dirty |-> [d \in Docs |-> FALSE], log |-> [d \in Docs |-> <<>>], fresh |-> 1,
             stale |-> {}, unopened |-> {}, prompts |-> <<>>, asleep |-> FALSE, ops |-> 0]
    /\ asking = NoQuestion
    /\ reqs = <<>>
    /\ man = [clients |-> <<>>, pending |-> <<>>, titles |-> [i \in Ids |-> <<>>], next |-> 0, join |-> NoId,
              caps |-> [f \in Ftypes |-> NoId], diags |-> [d \in Docs |-> -1],
              status |-> [id |-> NoId, tok |-> NoId, title |-> NoId, of |-> "none"]]
    /\ srv = [i \in Ids |-> NewServer]
    /\ events = <<>>

Editing == Put(ed, "sent", <<>>)
Busy == ed.asleep \/ asking # NoQuestion     \* in the middle of a handler
StartsIn(s) == Cardinality({ i \in DOMAIN s : s[i].k = "start" })

(* no more than Servers servers are started *)
Commit(w) ==
    /\ man.next + StartsIn(reqs \o w.sent) <= Servers
    /\ ed' = Without(w, "sent")
    /\ reqs' = reqs \o
         [i \in DOMAIN w.sent |->
            IF w.sent[i].k = "request" /\ w.sent[i].d \in w.stale \cup w.unopened
            THEN [w.sent[i] EXCEPT !.v = -1] ELSE w.sent[i]]
    /\ UNCHANGED <<man, srv, scene>>

(* something that the user or a client of the filesystem does *)
Does(op, w) ==
    /\ op \in scene.ops /\ ed.ops < scene.maxOps /\ ~Busy
    /\ Commit([w EXCEPT !.ops = @ + 1])
    /\ UNCHANGED events

Open(d) == Does("open", OpenFile(Editing, d))
Close(d) == /\ d \in ed.open
            /\ \E next \in IF d # ed.active THEN {ed.active}
                           ELSE IF ed.open = {d} THEN {NoDoc} ELSE ed.open \ {d} :
                    Does("close", CloseBuffer(Editing, d, next))
Edit == ed.active # NoDoc /\ Does("edit", EditBuffer(Editing))
Undo == /\ ed.active # NoDoc /\ ed.log[ed.active] # <<>>
        /\ Does("undo", UndoEdit(Editing))
Save == ed.active # NoDoc /\ Does("save", SaveBuffer(Editing))
Reload == ed.active # NoDoc /\ Does("reload", ReloadBuffer(Editing))
Focus(d) == d \in ed.open /\ Does("focus", FocusOn(Editing, d))
Ask(m) == ed.active # NoDoc /\ Does(m, Editing) /\ AskAbout(m)
LspStart == Does("start", StartClient(Editing))
LspStop == /\ ServerOf(ed.active) # NoId
           /\ Does("stop", Send(Editing, Stop(ServerOf(ed.active))))

(* show_diagnostics: the editor sleeps for servers to catch up *)
ShowDiagnostics == Does("diagnostics", [NotifyIfDirty(Editing) EXCEPT
                                            !.asleep = TRUE])
Prompt(w, k, d, id) == [w EXCEPT !.prompts = Append(@, Event(k, d, NoDoc, id))]
Wake ==
    /\ ed.asleep
    /\ Commit(Prompt([Editing EXCEPT !.asleep = FALSE], "list", { d \in Docs : man.diags[d] # -1 }, NoId))
    /\ UNCHANGED <<asking, events>>

(* the handler of a question goes on *)
AskEnds ==
    /\ asking # NoQuestion /\ asking' = NoQuestion
    /\ Commit(SendQuestion(Editing, asking))
    /\ UNCHANGED events

(* the actions of an answer *)
Perform(w, e) ==
    CASE e.k = "open"       -> OpenFile(w, e.d)
      [] e.k = "references" -> Prompt(EnsureOpen(w, e.d), "references", e.d, e.id)
      [] e.k = "edit"       -> EditBuffer(w)
      [] e.k = "rename"     -> LET x == EditBuffer(OpenFile(w, e.d))
                               IN  IF e.back \in x.open /\ e.back # x.active THEN FocusOn(x, e.back) ELSE x
      [] OTHER              -> Prompt(w, e.k, e.d, e.id)

TakeEvent ==
    /\ events # <<>> /\ ~Busy
    /\ Commit(Perform(Editing, Head(events)))
    /\ events' = Tail(events)
    /\ UNCHANGED asking

(* what comes of the prompt that was opened last *)
ReferenceSelected(w, p)  == OpenFile(w, p.d)
DiagnosticSelected(w, d) == OpenFile(w, d)
CompletionSelected(w, p) ==
    IF p.k = "complete" THEN EditBuffer(w) ELSE Send(w, Request(p.id, "resolve", p.d, -1))
LspRename(w) == AskAbout("rename") /\ Commit(w)

Selected(w, p, d) ==
    CASE p.k = "references" -> ReferenceSelected(w, p)
      [] p.k = "list"       -> DiagnosticSelected(w, d)
      [] p.k \in {"complete", "resolve"} -> CompletionSelected(w, p)

Answer ==
    /\ ed.prompts # <<>> /\ ~Busy
    /\ LET p == Last(ed.prompts)
           w == [Editing EXCEPT !.prompts = Front(@)]
       IN  \/ Commit(w) /\ UNCHANGED asking     \* cancelled
           \/ /\ p.k # "newName" /\ UNCHANGED asking
              /\ \E d \in IF p.k = "list" THEN p.d ELSE {NoDoc} : Commit(Selected(w, p, d))
           \/ p.k = "newName" /\ LspRename(w)
    /\ UNCHANGED events

----------------------------------------------------------------------------
(* Steps of the manager.                                                    *)

HandleMessage(x, id, msg) ==
    CASE msg.k = "response" -> HandleResponse(x, id, msg)
      [] msg.k = "request"  -> HandleRequest(x, id, msg)
      [] msg.k = "notify"   -> HandleNotification(x, id, msg)

Handle(x, r, spawns) ==
    CASE r.k = "start"   -> HandleStart(x, r.f, r.docs, spawns)
      [] r.k = "stop"    -> StopClient(x, r.id)
      [] r.k = "request" -> SendRequest(x, r.id, r.m, r.d, r.v, Pending(r.m, r.d, r.v, "none", <<>>))
      [] r.k = "notify"  -> SendNotification(x, r.id, r.m, r.d, r.v)
      [] r.k = "message" -> HandleMessage(x, r.id, r.msg)

(* what a server that has just been initialised does not know *)
Overtaken(x) ==
    LET new    == { f \in Ftypes : x.m.caps[f] # man.caps[f] }
        told   == UNION { DOMAIN p.docs : p \in { man.pending[k] : k \in DOMAIN man.pending \ DOMAIN x.m.pending } }
        sentAs == [d \in told |-> (CHOOSE p \in { man.pending[k] : k \in DOMAIN man.pending \ DOMAIN x.m.pending } :
                                        d \in DOMAIN p.docs).docs[d]]
        ofNew  == { d \in ed.open : FtypeOf[d] \in new }
    IN  [ed EXCEPT !.unopened = (@ \ ofNew) \cup (ofNew \ told),
                   !.stale    = (@ \ ofNew) \cup { d \in ofNew \cap told : sentAs[d] # ed.txt[d] /\ ~ed.dirty[d] }]

ManagerStep ==
    /\ reqs # <<>> /\ man.join = NoId
    /\ \E spawns \in {TRUE} \cup (IF Head(reqs).k = "start" THEN scene.spawns ELSE {}) :
         \E x \in {Handle([m |-> man, s |-> srv, ev |-> <<>>], Head(reqs), spawns)} :
            /\ man' = x.m /\ srv' = x.s /\ events' = events \o x.ev
            /\ ed' = Overtaken(x)
    /\ reqs' = Tail(reqs)
    /\ UNCHANGED <<asking, scene>>

(* join: standard output and standard error have been closed *)
JoinEnds ==
    /\ man.join # NoId
    /\ srv[man.join].reader = "done" /\ srv[man.join].st = "exited"
    /\ man' = [man EXCEPT !.join = NoId]
    /\ UNCHANGED <<ed, asking, reqs, srv, events, scene>>

----------------------------------------------------------------------------
(* The thread that reads from a server, and the server.                     *)

Unchanged == UNCHANGED <<ed, asking, man, events, scene>>

(* mutant: the channel to the manager is bounded, and the thread waits *)
ReadBounded(id) ==
    /\ srv[id].reader = "up"
    /\ \/ /\ srv[id].out # <<>> /\ Head(srv[id].out).k # "garbage" /\ reqs = <<>>
          /\ srv' = [srv EXCEPT ![id].out = Tail(@)]
          /\ reqs' = Append(reqs, Incoming(id, Head(srv[id].out)))
       \/ /\ srv[id].out = <<>> /\ srv[id].st = "exited"
          /\ srv' = [srv EXCEPT ![id].reader = "done"]
          /\ UNCHANGED reqs
    /\ Unchanged

(* what is not a message ends the thread, as the end of the output does *)
Read(id) ==
    /\ srv[id].reader = "up"
    /\ \/ /\ srv[id].out # <<>> /\ Head(srv[id].out).k # "garbage"
          /\ srv' = [srv EXCEPT ![id].out = Tail(@)]
          /\ reqs' = Append(reqs, Incoming(id, Head(srv[id].out)))
       \/ /\ srv[id].out # <<>> /\ Head(srv[id].out).k = "garbage"
          /\ srv' = [srv EXCEPT ![id].out = <<>>, ![id].reader = "done"]
          /\ UNCHANGED reqs
       \/ /\ srv[id].out = <<>> /\ srv[id].st = "exited"
          /\ srv' = [srv EXCEPT ![id].reader = "done"]
          /\ UNCHANGED reqs
    /\ Unchanged

Result(r, d, enc, item) == [r |-> r, d |-> d, enc |-> enc, item |-> item]
FromServer(k, rid, m, tok, d, v, res) ==
    [k |-> k, rid |-> rid, m |-> m, tok |-> tok, d |-> d, v |-> v, res |-> res]
NoResult == Result("none", NoDoc, "none", FALSE)

(* external: a server takes what is written to it in order *)
ServerTakes(id) ==
    /\ srv[id].st = "up" /\ srv[id].in # <<>>
    /\ LET msg == Head(srv[id].in)
           s   == [srv[id] EXCEPT !.in = Tail(@)]
       IN  srv' = [srv EXCEPT ![id] =
             IF msg.k = "request" THEN [s EXCEPT !.todo = @ \cup {msg}]
             ELSE CASE msg.m = "exit" -> [s EXCEPT !.st = "exited", !.in = <<>>]
                    [] msg.m = "didOpen" -> [s EXCEPT !.has[msg.d] = msg.v, !.known = @ /\ s.has[msg.d] = -1]
                    [] msg.m = "didChange" -> [s EXCEPT !.has[msg.d] = IF @ = -1 THEN @ ELSE msg.v,
                                                        !.known = @ /\ s.has[msg.d] # -1]
                    [] msg.m = "didClose" -> [s EXCEPT !.has[msg.d] = -1, !.known = @ /\ s.has[msg.d] # -1]
                    [] OTHER -> s]
    /\ Unchanged /\ UNCHANGED reqs

Says(id, msg, s) ==
    srv' = [srv EXCEPT ![id] = IF s.reader = "up" THEN [s EXCEPT !.out = Append(@, msg)] ELSE s]

(* external: what it may answer, and it answers in any order *)
PlacesFound == { Result(x[1], x[2], "none", FALSE) : x \in scene.results \X scene.docs }
Results(q) ==
    CASE q.m = "initialize" -> { Result("some", NoDoc, enc, FALSE) : enc \in scene.encs }
      [] q.m \in {"goto", "references", "rename"} -> PlacesFound
      [] q.m = "completion" -> { Result(x[1], NoDoc, "none", x[2]) : x \in scene.results \X BOOLEAN }
      [] OTHER -> { Result(r, NoDoc, "none", FALSE) : r \in scene.results }

ServerAnswers(id) ==
    /\ srv[id].st = "up"
    /\ \E q \in srv[id].todo : \E res \in Results(q) :
          Says(id, FromServer("response", q.rid, q.m, NoId, q.d, q.v, res), [srv[id] EXCEPT !.todo = @ \ {q}])
    /\ Unchanged /\ UNCHANGED reqs

(* external: progress and diagnostics, and how many there were *)
Pushed == FoldFunction(LAMBDA s, n : s.pushed + n, 0, srv)

ServerPushes(id) ==
    /\ srv[id].st = "up" /\ Pushed < scene.pushes
    /\ LET s == [srv[id] EXCEPT !.pushed = @ + 1]
           notes(m, t, x) == m \in scene.says /\ Says(id, FromServer("notify", -1, m, t, NoDoc, 0, NoResult), x)
       IN  \/ \E t \in Tokens \ s.begun :
                \/ "create" \in scene.says /\ Says(id, FromServer("request", t, "create", t, NoDoc, 0, NoResult), s)
                \/ notes("begin", t, [s EXCEPT !.begun = @ \cup {t}])
           \/ \E t \in s.begun : notes("report", t, s) \/ notes("end", t, [s EXCEPT !.begun = @ \ {t}])
           \/ \E d \in { x \in Docs : s.has[x] # -1 } :
                /\ "diagnostics" \in scene.says
                /\ Says(id, FromServer("notify", -1, "diagnostics", NoId, d, s.has[d], NoResult), s)
    /\ Unchanged /\ UNCHANGED reqs

(* external: faults *)
ServerFails(id) ==
    /\ srv[id].st = "up"
    /\ \/ /\ "crash" \in scene.faults
          /\ srv' = [srv EXCEPT ![id].st = "exited", ![id].in = <<>>, ![id].todo = {}]
       \/ /\ "garbage" \in scene.faults /\ srv[id].reader = "up"
          /\ \A i \in DOMAIN srv[id].out : srv[id].out[i].k # "garbage"
          /\ srv' = [srv EXCEPT ![id].out = Append(@, [k |-> "garbage"])]
    /\ Unchanged /\ UNCHANGED reqs

EditorStep ==
    \/ /\ \/ \E d \in scene.docs : Open(d) \/ Close(d) \/ Focus(d)
          \/ Edit \/ Undo \/ Save \/ Reload \/ LspStart \/ LspStop \/ ShowDiagnostics
       /\ UNCHANGED asking
    \/ \E m \in Questions : Ask(m)

Next ==
    \/ EditorStep \/ Wake \/ AskEnds \/ TakeEvent \/ Answer
    \/ ManagerStep \/ JoinEnds
    \/ \E id \in Ids : Read(id) \/ ServerTakes(id) \/ ServerAnswers(id) \/ ServerPushes(id) \/ ServerFails(id)

(* the threads run, and servers answer what they are asked *)
Fairness ==
    /\ WF_vars(ManagerStep) /\ WF_vars(JoinEnds)
    /\ \A id \in Ids : WF_vars(Read(id)) /\ WF_vars(ServerTakes(id)) /\ WF_vars(ServerAnswers(id))

Spec == Init /\ [][Next]_vars /\ Fairness

----------------------------------------------------------------------------
(* Properties.                                                              *)

(* The manager's maps fit together: it waits only for a server that it no   *)
(* longer has a client of, and a client that is not initialised is in no    *)
(* use.                                                                     *)
TypeOK ==
    /\ ed.active \in ed.open \cup {NoDoc} /\ ed.open \subseteq Docs
    /\ man.next \in 0 .. Servers /\ man.join \in (0 .. man.next - 1) \cup {NoId}
    /\ man.join \notin DOMAIN man.clients
    /\ \A f \in Ftypes, id \in DOMAIN man.clients :
            man.caps[f] = id => man.clients[id].status = "Running"

(* where a request that was written to server id is *)
Holding(id, rid) ==
    Cardinality({ i \in DOMAIN srv[id].in : srv[id].in[i].k = "request" /\ srv[id].in[i].rid = rid })
    + Cardinality({ q \in srv[id].todo : q.rid = rid })
    + Cardinality({ i \in DOMAIN srv[id].out : srv[id].out[i].k = "response" /\ srv[id].out[i].rid = rid })
    + Cardinality({ i \in DOMAIN reqs : /\ reqs[i].k = "message" /\ reqs[i].id = id
                                        /\ reqs[i].msg.k = "response" /\ reqs[i].msg.rid = rid })

(* An answer that the manager will act on is the answer to the question it  *)
(* was kept for (handle_response finds it by server and id), and a question *)
(* to a server that is there is either still with it or answered, once.     *)
AnswersMatched ==
    /\ \A i \in DOMAIN reqs :
         (reqs[i].k = "message" /\ reqs[i].msg.k = "response") =>
            LET key == <<reqs[i].id, reqs[i].msg.rid>>
            IN  key \in DOMAIN man.pending =>
                  /\ man.pending[key].m = reqs[i].msg.m
                  /\ man.pending[key].d = reqs[i].msg.d /\ man.pending[key].v = reqs[i].msg.v
    /\ \A key \in DOMAIN man.pending :
         (srv[key[1]].st = "up" /\ srv[key[1]].reader = "up"
          /\ \A i \in DOMAIN srv[key[1]].out : srv[key[1]].out[i].k # "garbage")
            => Holding(key[1], key[2]) = 1

(* what server id will take d to contain when it gets to its kth message *)
ContentAt(id, d, k) ==
    LET told == { i \in 1 .. k - 1 : srv[id].in[i].m \in {"didOpen", "didChange", "didClose"} /\ srv[id].in[i].d = d }
    IN  IF told = {} THEN srv[id].has[d] ELSE srv[id].in[CHOOSE i \in told : \A j \in told : j <= i].v

(* When a server gets to a question about a document, it has the text that  *)
(* the question was asked about: the change is sent ahead of the question   *)
(* (goto_definition and the others), on focus changes and on saves.  Three  *)
(* kinds of questions are excepted: about a buffer that was never reported, *)
(* about one that became clean without a report, and those to a server that *)
(* was replaced between the two times that it is looked up, for the         *)
(* question and for the change.                                             *)
AskedInSync ==
    \A id \in Ids : \A k \in DOMAIN srv[id].in :
        LET msg == srv[id].in[k]
        IN  (msg.k = "request" /\ msg.m \in Questions /\ msg.v # -1) => ContentAt(id, msg.d, k) = msg.v

(* Progress is shown under the title that its own server began it with,     *)
(* whatever tokens the other servers use (progress_tokens).                 *)
ProgressTitled == man.status.of \in {"begin", "report"} => man.status.title = man.status.id

(* The manager's bookkeeping over servers that start, crash and are         *)
(* stopped: its maps fit together, answers reach the question with their id *)
(* and progress the title of its server.                                    *)
LspInv ==
    /\ TypeOK
    /\ AnswersMatched
    /\ ProgressTitled

(* The manager does not wait forever for a server that it stops: it has     *)
(* told the server to exit, and servers that are told to do (join).         *)
ManagerReturns == []<>(man.join = NoId)

(* Questions to servers that keep running are answered and their answers    *)
(* handled, whatever else the editor, the manager and other servers do: a   *)
(* run asks finitely many, so again and again none is left.                 *)
QuestionsAnswered ==
    []<>(\A key \in DOMAIN man.pending : srv[key[1]].st # "up" \/ srv[key[1]].reader # "up")

(* Nobody waits forever for the manager: it comes back from every server it *)
(* stops, and questions to servers that keep running are answered           *)
(* (stop_client, handle_response).                                          *)
LspProgress ==
    /\ ManagerReturns
    /\ QuestionsAnswered

(* What the comments say and the code does not do.                          *)

(* lsp_id_and_encoding_for: None "if there is no active client": the server *)
(* that is looked up has a client                                           *)
CapsOfClients == \A f \in Ftypes : man.caps[f] # NoId => man.caps[f] \in DOMAIN man.clients \cup {man.join}

(* document_opened starts a server "if one is not already running" *)
OneServerPerType ==
    \A i, j \in DOMAIN man.pending :
        (i # j /\ man.pending[i].m = "initialize" /\ man.pending[j].m = "initialize")
            => man.pending[i].f # man.pending[j].f

(* notify_lsp_changes_if_dirty: what is reported "is sufficient for         *)
(* maintaining document sync"                                               *)
InSync ==
    \A id \in Ids : \A k \in DOMAIN srv[id].in :
        LET msg == srv[id].in[k]
        IN  (msg.k = "request" /\ msg.m \in Questions) => msg.v # -1

(* the server that a question is for is the one the change is reported to *)
OneServerAsked == asking # NoQuestion => ServerOf(ed.active) = asking.id

(* a server is told of a document once before it is told of changes to it *)
OpenedOnce == \A id \in Ids : srv[id].known

(* the edits of an answer are made to the document that was asked about *)
EditsHitAsked == (events # <<>> /\ Head(events).k = "edit" /\ ~Busy) => ed.active = Head(events).d
=============================================================================
