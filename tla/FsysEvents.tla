----------------------------- MODULE FsysEvents -----------------------------
(***************************************************************************)
(* The event files of the fsys (src/src/fsys/event.rs, buffer.rs, mod.rs): *)
(* a client that reads buffers/N/event takes over the user's input to      *)
(* buffer N.  Its first read attaches an input filter to the buffer in the *)
(* editor and starts a listener thread; the filter sends events to the     *)
(* listener, which answers the reads.                                      *)
(*                                                                         *)
(*   9p request --Message--> editor --events--> listener --> blocked reads *)
(*       |                                         ^                       *)
(*       +--------------- InputRequest ------------+                       *)
(*                                                                         *)
(* A request holds the mutex around the fsys State while it waits for the  *)
(* editor or for the listener, so at most one request is under way: req.   *)
(* Filters are numbered as they are made, and so are the events of each.   *)
(***************************************************************************)
EXTENDS Integers, Sequences

CONSTANTS
    Clients,    \* 9p clients (ClientId)
    Buffers,    \* buffers
    Fids,       \* the fids of one client
    NoOne,      \* None, of a lock
    Scenes,     \* the buffers open when the clients connect, the fids each
                \* client uses, what the clients do ("unopened_reads",
                \* "concurrent_reads") and a bound on the events of one filter
    MaxFilters  \* bound: filters made

ASSUME FsysEventsAssumption ==
    /\ MaxFilters \in Nat
    /\ NoOne \notin Clients
    /\ Scenes \subseteq [buffers : SUBSET Buffers, fids : [Clients -> SUBSET Fids],
                         features : SUBSET {"unopened_reads", "concurrent_reads"},
                         maxEvents : Nat]

VARIABLES
    fids,       \* Attached.fids: per client, the event files it has walked to
    leaving,    \* clients whose connection is gone
    req,        \* the request that holds the State mutex
    known,      \* BufferNodes.known: the buffers fsys has a node for
    handle,     \* BufferNode.input_handle: the filter whose listener it talks to
    lock,       \* Cids.read_locked of the event files
    everOpened, \* the event files with an entry in open_cids
    open,       \* the editor's open buffers
    filter,     \* Buffer.input_filter
    scratch,    \* input_filter of the scratch buffer
    closing,    \* LogEvent::Close on its way to fsys
    made,       \* number of filters made
    listener,   \* per filter, the state of its listener
    requests,   \* per filter, fsys_rx of its listener: "read" and "shutdown"
    events,     \* per filter, event_rx of its listener
    sent,       \* history: per filter, the number of events sent
    got,        \* history: per filter, the events read, [by, evt]
    scene       \* the scene, chosen at the start

fsysVars     == <<known, handle, lock, everOpened>>
editorVars   == <<open, filter, scratch, closing>>
listenerVars == <<listener, requests, events, got>>
vars == <<fids, leaving, req, fsysVars, editorVars, made, listenerVars, sent, scene>>

None    == 0
Filters == 1 .. MaxFilters

Free         == [st |-> "free", buf |-> NoOne]
FidStates    == {Free} \cup [st : {"walked", "opened"}, buf : Buffers]
Listener(st) == [st |-> st, reader |-> NoOne]   \* reader: of the blocked read

Req(op, c, b, n) == [op |-> op, c |-> c, b |-> b, n |-> n]
NoReq == Req("none", NoOne, NoOne, None)

Init ==
    /\ fids = [c \in Clients |-> [f \in Fids |-> Free]]
    /\ leaving = {}
    /\ req = NoReq
    /\ scene \in Scenes
    /\ known = scene.buffers /\ open = scene.buffers
    /\ handle = [b \in Buffers |-> None]
    /\ lock = [b \in Buffers |-> NoOne]
    /\ everOpened = {}
    /\ filter = [b \in Buffers |-> None] /\ scratch = None
    /\ closing = <<>>
    /\ made = 0
    /\ listener = [n \in Filters |-> Listener("unborn")]
    /\ requests = [n \in Filters |-> <<>>]
    /\ events = [n \in Filters |-> <<>>]
    /\ sent = [n \in Filters |-> 0]
    /\ got = [n \in Filters |-> <<>>]

-----------------------------------------------------------------------------
(* The editor thread.                                                       *)

(* an edit, load or execute in a buffer, or in the scratch buffer, that has *)
(* an input filter (the notifiers of InputFilter)                                *)
Notify(n) ==
    /\ n # None
    /\ sent[n] < scene.maxEvents
    /\ sent' = [sent EXCEPT ![n] = @ + 1]
    /\ events' = [events EXCEPT ![n] = Append(@, sent[n] + 1)]
    /\ UNCHANGED <<fids, leaving, req, fsysVars, editorVars, made, listener, requests, got, scene>>

UserInput    == \E b \in open : Notify(filter[b])
ScratchInput == Notify(scratch)

(* mutant: the filter of the scratch buffer is left in place *)
ClearInputFilterOfBuffer(b) ==
    /\ filter' = [filter EXCEPT ![b] = None]
    /\ UNCHANGED scratch

(* Layout::clear_input_filter *)
ClearInputFilter(b) ==
    /\ filter' = [filter EXCEPT ![b] = None]
    /\ scratch' = None

DeleteBuffer(b) ==
    /\ b \in open
    /\ closing' = Append(closing, b)
    /\ ClearInputFilter(b)
    /\ open' = open \ {b}
    /\ UNCHANGED <<fids, leaving, req, fsysVars, made, listenerVars, sent, scene>>

(* Req::AddInputEventFilter, Layout::try_set_input_filter *)
EditorAdds ==
    /\ req.op = "attach"
    /\ IF req.b \in open /\ filter[req.b] = None
       THEN /\ req' = [req EXCEPT !.op = "attached"]
            /\ filter' = [filter EXCEPT ![req.b] = req.n]
            /\ scratch' = req.n
       ELSE /\ req' = NoReq              \* the request fails and is over
            /\ UNCHANGED <<filter, scratch>>
    /\ UNCHANGED <<fids, leaving, fsysVars, open, closing, made, listenerVars, sent, scene>>

(* Req::RemoveInputEventFilter *)
EditorRemoves ==
    /\ req.op \in {"clunk", "failed"}
    /\ ClearInputFilter(req.b)
    /\ req' = IF req.op = "clunk" THEN [req EXCEPT !.op = "clunked"] ELSE NoReq
    /\ UNCHANGED <<fids, leaving, fsysVars, open, closing, made, listenerVars, sent, scene>>

-----------------------------------------------------------------------------
(* The listener threads (run_threaded_input_listener).                      *)

Read(n, evts, c) == got' = [got EXCEPT ![n] =
                        @ \o [i \in 1 .. Len(evts) |-> [by |-> c, evt |-> evts[i]]]]

BlockedBy(c) == [st |-> "waiting", reader |-> c]

TakesRead(n) ==
    /\ listener[n].st = "idle"
    /\ requests[n] # <<>> /\ Head(requests[n]) = "read"
    /\ requests' = [requests EXCEPT ![n] = Tail(@)]
    /\ UNCHANGED <<fids, leaving, fsysVars, editorVars, made, sent, scene>>

(* the request that waits for the listener gets the events there are        *)
ListenerImmediate(n) ==
    /\ TakesRead(n)
    /\ events[n] # <<>>
    /\ Read(n, events[n], req.c)
    /\ events' = [events EXCEPT ![n] = <<>>]
    /\ req' = NoReq
    /\ UNCHANGED listener

(* mutant: the listener waits for an event before it answers the request *)
ListenerBlocksFirst(n) ==
    /\ TakesRead(n)
    /\ events[n] = <<>>
    /\ listener' = [listener EXCEPT ![n] = BlockedBy(req.c)]
    /\ UNCHANGED <<events, got, req>>

(* ... or, if there are none, a blocked read                                *)
ListenerBlocks(n) ==
    /\ TakesRead(n)
    /\ events[n] = <<>>
    /\ listener' = [listener EXCEPT ![n] = BlockedBy(req.c)]
    /\ req' = NoReq
    /\ UNCHANGED <<events, got>>

(* Shutdown, or nobody left to ask: BufferNode.input_handle is gone         *)
ListenerShutdown(n) ==
    /\ listener[n].st = "idle"
    /\ \/ requests[n] # <<>> /\ Head(requests[n]) = "shutdown"
       \/ requests[n] = <<>> /\ \A b \in Buffers : handle[b] # n
    /\ listener' = [listener EXCEPT ![n] = Listener("exited")]
    /\ UNCHANGED <<fids, leaving, req, fsysVars, editorVars, made, requests, events, sent, got, scene>>

(* the next event answers the blocked read *)
ListenerEvent(n) ==
    /\ listener[n].st = "waiting"
    /\ events[n] # <<>>
    /\ Read(n, <<Head(events[n])>>, listener[n].reader)
    /\ events' = [events EXCEPT ![n] = Tail(@)]
    /\ listener' = [listener EXCEPT ![n] = Listener("idle")]
    /\ UNCHANGED <<fids, leaving, req, fsysVars, editorVars, made, requests, sent, scene>>

(* every filter that sends to it is gone: the blocked read returns nothing  *)
ListenerGone(n) ==
    /\ listener[n].st = "waiting"
    /\ events[n] = <<>>
    /\ scratch # n /\ \A b \in Buffers : filter[b] # n
    /\ listener' = [listener EXCEPT ![n] = Listener("exited")]
    /\ UNCHANGED <<fids, leaving, req, fsysVars, editorVars, made, requests, events, sent, got, scene>>

ListenerStep(n) ==
    ListenerImmediate(n) \/ ListenerBlocks(n) \/ ListenerShutdown(n)
    \/ ListenerEvent(n) \/ ListenerGone(n)

-----------------------------------------------------------------------------
(* The 9p requests.  Every one but clunk first takes in the buffers that    *)
(* are reported closed so far (BufferNodes::update).                        *)

Update ==
    \E k \in 0 .. Len(closing) :
        LET gone == { closing[i] : i \in 1 .. k }
        IN  /\ closing' = SubSeq(closing, k + 1, Len(closing))
            /\ known' = known \ gone
            /\ handle' = [b \in Buffers |-> IF b \in gone THEN None ELSE handle[b]]

(* the session of a client that is still there starts a request *)
Starts(c) == req = NoReq /\ c \notin leaving

(* requests that only change fsys by taking in the closed buffers *)
OtherRequest ==
    /\ req = NoReq
    /\ Update
    /\ UNCHANGED <<fids, leaving, req, lock, everOpened, open, filter, scratch, made,
                   listenerVars, sent, scene>>

Walk(c, f) ==
    /\ Starts(c)
    /\ fids[c][f] = Free
    /\ Update
    /\ \E b \in known' : fids' = [fids EXCEPT ![c][f] = [st |-> "walked", buf |-> b]]
    /\ UNCHANGED <<leaving, req, lock, everOpened, open, filter, scratch, made,
                   listenerVars, sent, scene>>

Open(c, f) ==
    /\ Starts(c)
    /\ fids[c][f].st = "walked"
    /\ Update
    /\ fids[c][f].buf \in known'
    /\ fids' = [fids EXCEPT ![c][f].st = "opened"]
    /\ everOpened' = everOpened \cup {fids[c][f].buf}
    /\ UNCHANGED <<leaving, req, lock, open, filter, scratch, made, listenerVars, sent, scene>>

(* the read of an event file: what it may do depends on who holds its lock  *)
ReadsEvents(c, f) ==
    /\ Starts(c)
    /\ \/ fids[c][f].st = "opened"
       \/ fids[c][f].st = "walked" /\ "unopened_reads" \in scene.features
    /\ Update
    /\ fids[c][f].buf \in known'
    /\ UNCHANGED <<fids, leaving, lock, everOpened, open, filter, scratch, listener, events,
                   sent, got, scene>>

(* mutant: a read passes whoever holds the lock *)
MayReadAlways(c, b) == lock[b] # NoOne

MayRead(c, b) == lock[b] = c

(* BufferNode::attach_input_filter *)
ReadAttaches(c, f) ==
    LET b == fids[c][f].buf IN
    /\ ReadsEvents(c, f)
    /\ lock[b] = NoOne
    /\ made < MaxFilters
    /\ made' = made + 1
    /\ req' = Req("attach", c, b, made + 1)
    /\ UNCHANGED requests

(* BufferNode::pending_events *)
ReadPending(c, f) ==
    LET b == fids[c][f].buf
        n == handle'[b]
    IN  /\ ReadsEvents(c, f)
        /\ MayRead(c, b)
        /\ n # None
        /\ "concurrent_reads" \in scene.features \/ listener[n].st # "waiting"
        /\ IF listener[n].st = "exited"
           THEN req' = Req("fails", c, b, n) /\ UNCHANGED requests
           ELSE req' = Req("read", c, b, n) /\ requests' = [requests EXCEPT ![n] = Append(@, "read")]
        /\ UNCHANGED made

(* the editor has set the filter: fsys spawns the listener, locks the file  *)
(* if it has ever been opened, and asks the listener for events             *)
AttachedContinues ==
    LET b == req.b
        n == req.n
    IN  /\ req.op = "attached"
        /\ handle' = [handle EXCEPT ![b] = n]
        /\ listener' = [listener EXCEPT ![n] = Listener("idle")]
        /\ IF b \in everOpened
           THEN /\ lock' = [lock EXCEPT ![b] = req.c]
                /\ requests' = [requests EXCEPT ![n] = Append(@, "read")]
                /\ req' = [req EXCEPT !.op = "read"]
           ELSE /\ req' = NoReq
                /\ UNCHANGED <<lock, requests>>
        /\ UNCHANGED <<fids, leaving, known, everOpened, editorVars, made, events, sent, got, scene>>

(* BufferNode::clear_input_filter: Shutdown, then a message to the editor   *)
Shutdown(b) ==
    /\ requests' = [requests EXCEPT ![handle[b]] = Append(@, "shutdown")]
    /\ handle' = [handle EXCEPT ![b] = None]

(* pending_events fails: the listener has exited                            *)
ReadFails ==
    /\ \/ req.op = "fails"
       \/ req.op = "read" /\ listener[req.n].st = "exited"
    /\ Shutdown(req.b)
    /\ req' = [req EXCEPT !.op = "failed"]
    /\ UNCHANGED <<fids, leaving, known, lock, everOpened, editorVars, made, listener, events,
                   sent, got, scene>>

(* mutant: the filter stays with the buffer *)
HoldsFilterNever(c, b) == FALSE

HoldsFilter(c, b) == b \in known /\ lock[b] = c /\ handle[b] # None

Unlocked(c, b) == [lock EXCEPT ![b] = IF @ = c THEN NoOne ELSE @]

(* clunk of a fid, by the client or by the session of a client that left    *)
Clunk(c, f) ==
    LET b == fids[c][f].buf IN
    /\ req = NoReq
    /\ fids[c][f] # Free
    /\ fids' = [fids EXCEPT ![c][f] = Free]
    /\ IF HoldsFilter(c, b)
       THEN /\ Shutdown(b)
            /\ req' = Req("clunk", c, b, None)
            /\ UNCHANGED lock
       ELSE /\ lock' = Unlocked(c, b)
            /\ UNCHANGED <<handle, requests, req>>
    /\ UNCHANGED <<leaving, known, everOpened, editorVars, made, listener, events, sent, got, scene>>

(* remove_open_cid, once the editor has removed the filter                  *)
ClunkEnds ==
    /\ req.op = "clunked"
    /\ lock' = Unlocked(req.c, req.b)
    /\ req' = NoReq
    /\ UNCHANGED <<fids, leaving, known, handle, everOpened, editorVars, made, listenerVars, sent, scene>>

(* reading from the connection fails: what is left is clunk_and_clear       *)
Disconnect(c) ==
    /\ c \notin leaving
    /\ leaving' = leaving \cup {c}
    /\ UNCHANGED <<fids, req, fsysVars, editorVars, made, listenerVars, sent, scene>>

-----------------------------------------------------------------------------
Leave(c)     == c \in leaving /\ \E f \in Fids : Clunk(c, f)
Continue     == AttachedContinues \/ ReadFails \/ ClunkEnds
EditorServes == EditorAdds \/ EditorRemoves

Next ==
    \/ UserInput \/ ScratchInput \/ EditorServes \/ Continue \/ OtherRequest
    \/ \E b \in scene.buffers : DeleteBuffer(b)
    \/ \E n \in Filters : ListenerStep(n)
    \/ \E c \in Clients : (scene.fids[c] # {} /\ Disconnect(c)) \/ Leave(c)
    \/ \E c \in Clients : \E f \in scene.fids[c] :
           \/ Walk(c, f) \/ Open(c, f) \/ ReadAttaches(c, f) \/ ReadPending(c, f)
           \/ c \notin leaving /\ Clunk(c, f)

Spec == Init /\ [][Next]_vars

(* Threads run: the editor takes messages off its queue, a request that has *)
(* the mutex goes on, a listener takes what is there for it.  What clients  *)
(* ask and what the user types is up to them.                               *)
FairSpec ==
    /\ Spec
    /\ WF_vars(EditorServes)
    /\ WF_vars(Continue)
    /\ \A n \in Filters : WF_vars(ListenerStep(n))

-----------------------------------------------------------------------------
(* Properties *)

Reqs == {NoReq} \cup [op : {"attach", "attached", "read", "fails", "failed", "clunk", "clunked"},
                       c : Clients, b : Buffers, n : {None} \cup Filters]
Listeners == [st : {"unborn", "idle", "waiting", "exited"}, reader : {NoOne} \cup Clients]
Reads     == [by : Clients, evt : Nat]

(* The types of the variables; a request under way names what it is about.  *)
TypeOK ==
    /\ fids \in [Clients -> [Fids -> FidStates]]
    /\ leaving \subseteq Clients
    /\ req \in Reqs
    /\ known \subseteq Buffers /\ open \subseteq Buffers /\ everOpened \subseteq Buffers
    /\ handle \in [Buffers -> {None} \cup Filters]
    /\ filter \in [Buffers -> {None} \cup Filters]
    /\ scratch \in {None} \cup Filters
    /\ lock \in [Buffers -> {NoOne} \cup Clients]
    /\ closing \in Seq(Buffers)
    /\ made \in 0 .. MaxFilters
    /\ listener \in [Filters -> Listeners]
    /\ requests \in [Filters -> Seq({"read", "shutdown"})]
    /\ events \in [Filters -> Seq(Nat)]
    /\ sent \in [Filters -> Nat]
    /\ got \in [Filters -> Seq(Reads)]
    /\ scene \in Scenes

(* Between requests, a buffer whose input is diverted has a listener that   *)
(* takes it and a client that holds the lock on its event file, with a fid  *)
(* to give it up through: no clunk, lost connection, failed request or      *)
(* closed buffer leaves the user typing into a filter nobody reads.         *)
FilterHasReader ==
    req = NoReq =>
        \A b \in open :
            filter[b] # None =>
                /\ handle[b] = filter[b]
                /\ listener[filter[b]].st \in {"idle", "waiting"}
                /\ \E f \in Fids : lock[b] \in Clients /\ fids[lock[b]][f].buf = b

(* The converse: the client that holds the lock does get the input.         *)
ReaderHasFilter ==
    req = NoReq => \A b \in open : lock[b] # NoOne => filter[b] # None

(* Between requests the filter of a buffer, the lock on its event file, the *)
(* handle that the tree keeps and the listener thread tell the same story,  *)
(* after clunks, lost connections, failed requests and closed buffers       *)
(* (try_set_input_filter, clunk, clear_input_filter, QidCheck).             *)
FilterInv ==
    /\ TypeOK
    /\ FilterHasReader
    /\ ReaderHasFilter

(* The events of a filter go to one client, each once and in order, and     *)
(* none is lost while the filter is in place.                               *)
EventsExclusive ==
    \A n \in Filters :
        /\ \A i, j \in 1 .. Len(got[n]) : got[n][i].by = got[n][j].by
        /\ [i \in 1 .. Len(got[n]) |-> got[n][i].evt] \o events[n]
               = [i \in 1 .. sent[n] |-> i]

(* Filters are removed one by one: removing that of one buffer leaves the   *)
(* scratch buffer's alone if it is another's (Layout::clear_input_filter).  *)
ScratchFilterKept ==
    [][\A b \in Buffers :
          filter[b] # None /\ filter'[b] = filter[b] /\ scratch = filter[b]
              => scratch' # None]_vars

(* A fid that was only walked to, to stat the file for instance, is given   *)
(* back without disturbing the reader (Serve9p::clunk).                     *)
UnopenedClunkHarmless ==
    [][\A c \in Clients, f \in Fids :
          fids[c][f].st = "walked" /\ fids'[c][f] = Free /\ c \notin leaving
              => handle' = handle]_vars

(* No request keeps the mutex of the fsys to itself: the whole filesystem   *)
(* waits while one does.                                                    *)
MutexAlwaysReleased == []<>(req = NoReq)

(* That is so while a client reads an event file one read at a time.        *)
MutexReleased == []<>("concurrent_reads" \in scene.features \/ req = NoReq)

(* A blocked read of an event file ends once the filter behind it is        *)
(* removed, by a clunk or with the buffer (which filter that is, and that   *)
(* it is not set again, is fixed when the listener is made).                *)
DeferredReadsClosed ==
    \A n \in Filters :
        []<>(listener[n].st = "waiting" => \E b \in open : filter[b] = n)
=============================================================================
