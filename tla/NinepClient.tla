---------------------------- MODULE NinepClient ----------------------------
(***************************************************************************)
(* The 9p client (src/crates/ninep/src/sansio/client.rs, with the clones   *)
(* and the locks of sync/client.rs and tokio/client.rs) on a connection to *)
(* a server session.  Clones of a client share its state, a cache of the   *)
(* fid of every path that was walked to, behind one mutex, and the stream  *)
(* behind another.  An operation is a coroutine that holds the state for   *)
(* all of its messages; a clunk and the open of an iterator only hold the  *)
(* stream, so that they come between the messages of other clones.         *)
(*                                                                         *)
(* The connection is used either by this library or by a client that       *)
(* speaks 9p itself (RawSend), as the programs of plan9port do.            *)
(***************************************************************************)
EXTENDS NinepServer

CONSTANTS
    Clones,     \* the clones of the client, each on a thread of its own
    Drivers,    \* who may be at the other end: "library", "raw"
    Msize,      \* MSIZE (u16::MAX in the code)
    Content,    \* what is written to the file that takes writes
    Ops,        \* the operations that are used, with their paths
    MaxOps,     \* bound: operations
    NoClone

ASSUME ClientAssumption ==
    /\ Msize \in Nat /\ Msize > 16 /\ NoClone \notin Clones
    /\ \A o \in Ops: /\ o[1] \in {"walk", "stat", "read", "read_dir", "write", "create", "remove", "chunks", "lines"}
                     /\ o[2] \in Seq(Seq(0..255))

VARIABLES
    driver,     \* who uses the connection
    cl,         \* the shared state of the client
    state_lock, \* the clone that holds the state
    stream_lock,\* the clone that holds the stream
    th,         \* the operation that each clone runs
    began       \* number of operations begun

clientVars == <<driver, cl, state_lock, stream_lock, th, began>>
vars == <<serverVars, rawVars, clientVars>>

PathOf(q) == IF q = QidRoot THEN <<>> ELSE IF q = NewFile THEN <<NameOf(Dir), NameOf(q)>> ELSE <<NameOf(q)>>

Connecting == CHOOSE t \in Clones: TRUE

Idle == [op |-> "none", path |-> <<>>, stage |-> "idle", waiting |-> FALSE, fid |-> 0, offset |-> 0,
         buf |-> <<>>, items |-> <<>>, at_eof |-> FALSE, result |-> "none"]

ClientInit ==
    /\ driver \in Drivers
    /\ cl = [msize |-> Msize, fids |-> Bind(<<>>, <<>>, 0), next_fid |-> 1, connected |-> FALSE]
    /\ state_lock = IF driver = "library" THEN Connecting ELSE NoClone
    /\ stream_lock = NoClone
    /\ th = [t \in Clones |-> IF driver = "library" /\ t = Connecting
                               THEN [Idle EXCEPT !.op = "connect", !.stage = "version"] ELSE Idle]
    /\ began = 0

Init == ServerInit /\ outstanding = <<>> /\ sends = 0 /\ ClientInit

\* The stages of a coroutine, which holds the state; the others only hold the stream.
CoroStages == {"version", "attach", "walk", "stat", "open", "read", "write", "create", "remove", "read_count"}

SendStages == {"open_iter", "clunk"}

\* What an operation does with the fid of its path.
AfterWalk(op) ==
    CASE op = "walk" -> "done" [] op = "stat" -> "stat" [] op \in {"read", "read_dir"} -> "open"
      [] op = "write" -> "write" [] op = "create" -> "create" [] op = "remove" -> "remove"
      [] op \in {"chunks", "lines"} -> "open_iter"

(***************************************************************************)
(* The message that an operation yields next.  The header of a write is    *)
(* counted as fid, offset and length.                                      *)
(***************************************************************************)
WriteChunk(w) ==
    LET end == IF w.offset + (cl.msize - 16) < Len(Content) THEN w.offset + (cl.msize - 16) ELSE Len(Content)
    IN  SubSeq(Content, w.offset + 1, end)

Yielded(w) ==
    CASE w.stage = "version" -> T(NoTag, "Version", <<Msize, Supported>>)
      [] w.stage = "attach" -> T(0, "Attach", <<0, 9, <<>>, <<>>>>)
      [] w.stage = "walk" -> T(0, "Walk", <<0, cl.next_fid, w.path>>)
      [] w.stage = "stat" -> T(0, "Stat", <<w.fid>>)
      [] w.stage \in {"open", "open_iter"} -> T(0, "Open", <<w.fid, IF w.op = "read_dir" THEN 128 ELSE 0>>)
      [] w.stage \in {"read", "read_count"} -> T(0, "Read", <<w.fid, w.offset, cl.msize>>)
      [] w.stage = "write" -> T(0, "Write", <<w.fid, w.offset, WriteChunk(w)>>)
      [] w.stage = "create" -> T(0, "Create", <<w.fid, NameOf(NewFile), [lo |-> 511, hi |-> 0], 0>>)
      [] w.stage = "remove" -> T(0, "Remove", <<w.fid>>)
      [] w.stage = "clunk" -> T(0, "Clunk", <<w.fid>>)

(***************************************************************************)
(* What it does with the reply.                                            *)
(***************************************************************************)
Done(w, result) == [w EXCEPT !.stage = "idle", !.waiting = FALSE, !.result = result]

At(w, stage) == [w EXCEPT !.stage = stage, !.waiting = FALSE]

WalkedTo(w, fid) ==
    LET next == AfterWalk(w.op) IN
    [IF next = "done" THEN Done(w, "ok") ELSE At(w, next) EXCEPT !.fid = fid]

\* The stats in the bytes of a directory, up to the first that is cut off.
StatsIn(bytes) ==
    LET more(acc, p) == IF p.ok THEN [stats |-> Append(acc.stats, StatOf(p.val).val), rest |-> p.rest] ELSE acc
    IN  FoldLeft(LAMBDA acc, i: more(acc, ReadStat(acc.rest)),
                 [stats |-> <<>>, rest |-> bytes], [i \in 1..(Len(bytes) \div 41) |-> i]).stats

ReadOn(w, data) ==
    CASE data # <<>> -> [At(w, "read") EXCEPT !.buf = @ \o data, !.offset = @ + Len(data)]
      [] data = <<>> /\ w.op = "read" -> Done(w, "ok")
      [] data = <<>> /\ w.op = "read_dir" -> [Done(w, "ok") EXCEPT !.items = StatsIn(w.buf)]

\* handle_write takes what the server accepted off the content.
WroteOn(w, n) ==
    LET next == [w EXCEPT !.offset = @ + n] IN
    CASE n = 0 -> Done(w, "partial")
      [] n # 0 /\ next.offset < Len(Content) -> At(next, "write")
      [] OTHER -> Done(next, "ok")

(***************************************************************************)
(* The iterators.  A chunk is an item; a line ends at a newline (10) or at *)
(* the end of the file.                                                    *)
(***************************************************************************)
(* mutant: the end of the file is forgotten after the last line *)
IterateForever(w, data) ==
    CASE data # <<>> /\ w.op = "chunks" -> [At(w, "iter") EXCEPT !.items = Append(@, data), !.offset = @ + Len(data)]
      [] data # <<>> /\ w.op = "lines" -> [At(w, "iter") EXCEPT !.buf = @ \o data, !.offset = @ + Len(data)]
      [] data = <<>> /\ w.op = "chunks" -> [At(w, "clunk") EXCEPT !.at_eof = TRUE]
      [] data = <<>> /\ w.op = "lines" ->
            [At(w, "iter") EXCEPT !.items = IF w.buf = <<>> THEN @ ELSE Append(@, w.buf), !.buf = <<>>]

Iterate(w, data) ==
    CASE data # <<>> /\ w.op = "chunks" -> [At(w, "iter") EXCEPT !.items = Append(@, data), !.offset = @ + Len(data)]
      [] data # <<>> /\ w.op = "lines" -> [At(w, "iter") EXCEPT !.buf = @ \o data, !.offset = @ + Len(data)]
      [] data = <<>> /\ (w.op = "chunks" \/ w.buf = <<>>) -> [At(w, "clunk") EXCEPT !.at_eof = TRUE]
      [] data = <<>> /\ w.op = "lines" /\ w.buf # <<>> ->
            [At(w, "iter") EXCEPT !.at_eof = TRUE, !.items = Append(@, w.buf), !.buf = <<>>]

LineEnd(buf) == SelectInSeq(buf, LAMBDA b: b = 10)

\* ReadLineIter::next when a line is in the buffer
TakeLine(w) ==
    [w EXCEPT !.items = Append(@, SubSeq(w.buf, 1, LineEnd(w.buf) - 1)), !.buf = Drop(@, LineEnd(w.buf))]

Resume(w, r) ==
    CASE r.kind = "Error" -> Done(w, "error")
      [] r.kind # "Error" /\ w.stage = "version" ->
            IF r.kind = "Version" /\ r.content[2] = Supported THEN At(w, "attach") ELSE Done(w, "error")
      [] r.kind # "Error" /\ w.stage \in {"attach", "create", "remove"} -> Done(w, "ok")
      [] r.kind # "Error" /\ w.stage = "walk" -> WalkedTo(w, cl.next_fid)
      [] r.kind # "Error" /\ w.stage = "stat" -> [Done(w, "ok") EXCEPT !.items = <<StatOf(r.content[2]).val>>]
      [] r.kind # "Error" /\ w.stage = "open" -> At(w, "read")
      [] r.kind # "Error" /\ w.stage = "open_iter" -> At(w, "iter")
      [] r.kind # "Error" /\ w.stage = "read" -> ReadOn(w, r.content[1])
      [] r.kind # "Error" /\ w.stage = "read_count" -> Iterate(w, r.content[1])
      [] r.kind # "Error" /\ w.stage = "write" -> WroteOn(w, r.content[1])
      [] r.kind # "Error" /\ w.stage = "clunk" -> At(w, "retain")

(***************************************************************************)
(* A clone begins an operation.  A path in the cache is not walked to.     *)
(***************************************************************************)
Begin(t, op, path) ==
    /\ driver = "library" /\ cl.connected /\ began < MaxOps
    /\ th[t].stage = "idle" /\ state_lock = NoClone
    /\ LET w == [Idle EXCEPT !.op = op, !.path = path]
           now == IF path \in DOMAIN cl.fids THEN WalkedTo(w, cl.fids[path]) ELSE At(w, "walk") IN
       /\ th' = [th EXCEPT ![t] = now]
       /\ state_lock' = IF now.stage \in CoroStages THEN t ELSE NoClone
    /\ began' = began + 1
    /\ UNCHANGED <<serverVars, rawVars, driver, cl, stream_lock>>

\* clunk_path; a clunk of the root fid is ignored
ClunkPath(t, path) ==
    /\ driver = "library" /\ cl.connected /\ began < MaxOps
    /\ th[t].stage = "idle" /\ state_lock = NoClone
    /\ LET w == [Idle EXCEPT !.op = "clunk_path", !.path = path] IN
       th' = [th EXCEPT ![t] = IF path \in DOMAIN cl.fids /\ cl.fids[path] # 0
                                THEN [At(w, "clunk") EXCEPT !.fid = cl.fids[path]]
                                ELSE Done(w, "ok")]
    /\ began' = began + 1
    /\ UNCHANGED <<serverVars, rawVars, driver, cl, state_lock, stream_lock>>

\* The next item of an iterator: from the buffer, or with another read.
NextItem(t) ==
    /\ th[t].stage = "iter"
    /\ CASE th[t].at_eof -> th' = [th EXCEPT ![t] = At(@, "clunk")] /\ UNCHANGED state_lock
         [] ~th[t].at_eof /\ LineEnd(th[t].buf) # 0 -> th' = [th EXCEPT ![t] = TakeLine(@)] /\ UNCHANGED state_lock
         [] OTHER -> /\ state_lock = NoClone /\ state_lock' = t
                     /\ th' = [th EXCEPT ![t] = At(@, "read_count")]
    /\ UNCHANGED <<serverVars, rawVars, driver, cl, stream_lock, began>>

\* The stream is held from the request to its reply.
Send(t) ==
    /\ th[t].stage \in CoroStages \cup SendStages /\ ~th[t].waiting
    /\ stream_lock = NoClone /\ stream_lock' = t
    /\ toServer' = Append(toServer, Yielded(th[t]))
    /\ th' = [th EXCEPT ![t].waiting = TRUE]
    /\ UNCHANGED <<flavour, ss, fs, toClient, blocked, answered, deliveries, rawVars, driver, cl, state_lock, began>>

\* The number of a fid is used up by a walk that fails too.  (The size of a message is
\* stored after the attach, before which nothing uses it.)
ClientAfter(t, r) ==
    LET w == th[t] IN
    CASE w.stage = "walk" /\ r.kind = "Error" -> [cl EXCEPT !.next_fid = @ + 1]
      [] w.stage = "walk" /\ r.kind # "Error" ->
            [cl EXCEPT !.next_fid = @ + 1, !.fids = Bind(@, w.path, cl.next_fid)]
      [] w.stage = "attach" /\ r.kind # "Error" -> [cl EXCEPT !.connected = TRUE]
      [] w.stage = "version" /\ r.kind = "Version" -> [cl EXCEPT !.msize = r.content[1]]
      [] OTHER -> cl

Receive(t) ==
    /\ th[t].waiting /\ toClient # <<>>
    /\ toClient' = Tail(toClient)
    /\ stream_lock' = NoClone
    /\ LET now == Resume(th[t], Head(toClient)) IN
       /\ th' = [th EXCEPT ![t] = now]
       /\ cl' = ClientAfter(t, Head(toClient))
       /\ state_lock' = IF state_lock = t /\ now.stage \notin CoroStages THEN NoClone ELSE state_lock
    /\ UNCHANGED <<flavour, ss, fs, toServer, blocked, answered, deliveries, rawVars, driver, began>>

(* mutant: the cache keeps the fid *)
RetainAll(t) ==
    /\ th[t].stage = "retain" /\ state_lock = NoClone
    /\ th' = [th EXCEPT ![t] = Done(@, "ok")]
    /\ UNCHANGED <<serverVars, rawVars, driver, cl, state_lock, stream_lock, began>>

\* The paths of a fid leave the cache after the server has answered the clunk.
Retain(t) ==
    /\ th[t].stage = "retain" /\ state_lock = NoClone
    /\ cl' = [cl EXCEPT !.fids = Restrict(@, {p \in DOMAIN @: @[p] # th[t].fid})]
    /\ th' = [th EXCEPT ![t] = Done(@, "ok")]
    /\ UNCHANGED <<serverVars, rawVars, driver, state_lock, stream_lock, began>>

Server == ServerNext /\ UNCHANGED clientVars

Raw ==
    /\ driver = "raw"
    /\ \/ RawSend
       \/ RawReceive
       \/ Disconnected
    /\ UNCHANGED clientVars

Next ==
    \/ \E t \in Clones, o \in Ops: Begin(t, o[1], o[2])
    \/ \E t \in Clones, o \in Ops: ClunkPath(t, o[2])
    \/ \E t \in Clones: NextItem(t)
    \/ \E t \in Clones: Send(t)
    \/ \E t \in Clones: Receive(t)
    \/ \E t \in Clones: Retain(t)
    \/ Server
    \/ Raw

(***************************************************************************)
(* Fairness: a thread that can take a step takes it, the server's and the  *)
(* clones', and a lock that is free again and again is taken by a clone    *)
(* that waits for it.  Nothing makes the filesystem answer a blocked read, *)
(* and no client has to begin an operation.  A step of the server is told  *)
(* by the message that it takes, and so on, so that TLC can evaluate       *)
(* whether it is enabled without working out the reply.                    *)
(***************************************************************************)
ServerTakes == ss.phase # "ended" /\ toServer # <<>> /\ toServer' = Tail(toServer)

ServerSelects == ss.phase = "attached" /\ answered # <<>> /\ answered' = Tail(answered)

ClientTakes == toClient # <<>> /\ toClient' = Tail(toClient)

CloneSends(t) ==
    /\ th[t].stage \in CoroStages \cup SendStages /\ ~th[t].waiting
    /\ stream_lock = NoClone /\ stream_lock' = t

Fairness ==
    /\ WF_toServer(ServerTakes) /\ WF_answered(ServerSelects) /\ WF_toClient(ClientTakes)
    /\ \A t \in Clones: SF_stream_lock(CloneSends(t)) /\ SF_vars(NextItem(t) \/ Retain(t))

Spec == Init /\ [][Next]_vars /\ Fairness

(***************************************************************************)
(* Properties.                                                             *)
(***************************************************************************)
FidMap(fids) == DOMAIN fids \subseteq Nat /\ \A fid \in DOMAIN fids: fids[fid] \in Qids

(* The type invariant of the connection, with the locks: the clone that    *)
(* holds the state is inside a coroutine, and the one that holds the       *)
(* stream waits for a reply.                                               *)
TypeOK ==
    /\ FidMap(ss.fids) /\ DOMAIN ss.qids \subseteq Qids
    /\ fs.files \subseteq Qids /\ fs.open \subseteq Qids
    /\ \A t \in Clones: (state_lock = t) <=> (th[t].stage \in CoroStages)
    /\ \A t \in Clones: (stream_lock = t) <=> th[t].waiting

(* Every message on the connection is read back from its bytes as it was   *)
(* written, whatever follows it on the stream, and its bytes are as many   *)
(* as its size says (write_bytes, read_9p and n_bytes of protocol.rs).     *)
MessagesRoundTrip ==
    \A m \in Range(toServer) \cup Range(toClient):
        /\ Len(WriteMessage(m)) = MessageBytes(m)
        /\ ReadMessage(m.side, WriteMessage(m) \o <<1, 2, 3>>) = Parsed(m, <<1, 2, 3>>)

(* The size fields of a stat are the bytes that follow them: the one of    *)
(* the stat itself (fs.rs) and the one of the Rstat (handle_stat).         *)
StatSizes ==
    \A i \in DOMAIN toClient: toClient[i].kind = "Stat" =>
        /\ toClient[i].content[1] = Len(WriteStat(toClient[i].content[2]))
        /\ toClient[i].content[2].size = Len(WriteStat(toClient[i].content[2])) - 2

(* What one side sends is what the other side reads: every message         *)
(* survives its encoding, and the size fields inside of a stat are right   *)
(* (protocol.rs, fs.rs, handle_stat).                                      *)
MessagesExact ==
    /\ MessagesRoundTrip
    /\ StatSizes

(* A fid that a client may use always has its file in the cache of the     *)
(* session, whatever walks failed half-way before: try_file_meta only says *)
(* "unknown fid" of a fid that is not there.                               *)
FidsKnown == \A fid \in DOMAIN ss.fids: KnownFid(ss, fid)

(* What a session holds open is always held by one of its fids, so that    *)
(* the filesystem hears of the end of every open: at a clunk, at a version *)
(* message and when the client goes away.                                  *)
OpenIsHeld == fs.open \subseteq Range(ss.fids)

InFlight(tag) ==
    Cardinality({i \in DOMAIN toServer: toServer[i].tag = tag})
    + Cardinality({i \in DOMAIN toClient: toClient[i].tag = tag})
    + Cardinality({i \in DOMAIN answered: answered[i][1] = tag})
    + (IF tag \in blocked THEN 1 ELSE 0)

(* A request is answered once: a tag that the client waits for is in one   *)
(* place on its way to the server, to the filesystem or back, and no other *)
(* tag is anywhere.                                                        *)
AnsweredOnce ==
    driver = "raw" /\ ss.phase # "ended" =>
        \A tag \in RawTags: InFlight(tag) = IF tag \in DOMAIN outstanding THEN 1 ELSE 0

(* The server's side of a session: its fids have their files, what is open *)
(* is held by a fid, and every request is on its way or answered, once, in *)
(* both loops (handle_request, deferred reads, clunk_and_clear).           *)
SessionInv ==
    /\ TypeOK
    /\ FidsKnown
    /\ OpenIsHeld
    /\ AnsweredOnce

(* Every request gets its answer or waits for the filesystem, in both      *)
(* loops, unless the client goes away: again and again nothing but blocked *)
(* reads is unanswered.                                                    *)
RequestsAnswered == []<>(DOMAIN outstanding \subseteq blocked)

Clunked(fid) == \E t \in Clones: th[t].fid = fid /\ (th[t].stage = "retain" \/ (th[t].stage = "clunk" /\ th[t].waiting))

(* The cache of the client: a path leads to a fid that the server knows,   *)
(* unless a clunk of it is under way, and that fid is the file of the path *)
(* unless a file was created through it (the fid of a directory becomes    *)
(* the new file, and the cache still says directory).                      *)
CacheAgrees ==
    driver = "library" /\ cl.connected => \A p \in DOMAIN cl.fids:
        LET fid == cl.fids[p] IN
        \/ Clunked(fid)
        \/ /\ fid \in DOMAIN ss.fids
           /\ \/ PathOf(ss.fids[fid]) = p
              \/ p = PathOf(Dir) /\ ss.fids[fid] = NewFile

TextLines == <<<<1>>, <<2>>, <<3>>>>

(* What an operation of the client returns is what is in the files: all of *)
(* a file that is read in pieces, every entry of a directory that is read  *)
(* in pages, the stat that the server made; and what was written is there. *)
ResultsExact ==
    \A t \in Clones: LET w == th[t] IN w.result = "ok" =>
        /\ (w.op = "read" => w.buf = fs.text[TextFile])
        /\ (w.op = "read_dir" =>
               [i \in DOMAIN w.items |-> w.items[i].qid] = <<TextFile, Dir, LogFile, SinkFile>>)
        /\ (w.op = "stat" /\ w.path = PathOf(TextFile) => w.items = <<FsStat(fs, TextFile)>>)
        /\ (w.op = "write" => fs.text[SinkFile] = Content)

(* The lines of an iterator are the lines of the file, whole and in order, *)
(* wherever the reads cut it, and all of them once it clunks its fid; the  *)
(* chunks of one put together are a beginning of the file.                 *)
LinesWhole ==
    \A t \in Clones: LET w == th[t] IN
        /\ w.op = "lines" /\ w.path = PathOf(TextFile) =>
               /\ IsPrefix(w.items, TextLines)
               /\ w.stage = "clunk" => w.items = TextLines
        /\ w.op = "chunks" => IsPrefix(FlattenSeq(w.items), fs.text[TextFile])

(* The client's side: clones that share a connection and its cache of fids *)
(* get what is in the files, whole and in order, and the cache leads to    *)
(* the files it says it does (walk, Retain, read_all, the iterators).      *)
ClientExact ==
    /\ CacheAgrees
    /\ ResultsExact
    /\ LinesWhole

(* Every operation ends, with a result or an error, unless a read of some  *)
(* clone waits for the filesystem: it then holds the state and the stream, *)
(* and every clone waits with it.                                          *)
OperationsEnd == []<>(blocked # {} \/ \A t \in Clones: th[t].stage = "idle")

(* Neither side waits forever for the other: requests are answered and     *)
(* operations end, unless the filesystem keeps a read waiting.             *)
Progress ==
    /\ RequestsAnswered
    /\ OperationsEnd

(* No message is longer than the size that the two sides agreed on.  (Not  *)
(* what the code does: the chunks of handle_write leave no room for the    *)
(* size, type and tag of the message.)                                     *)
MsizeHonoured ==
    \A m \in Range(toServer): cl.connected => MessageBytes(m) <= cl.msize

(* A version message starts the session over.  (Not what the code does: it *)
(* frees the fids and the session stays attached, without a root and       *)
(* refusing another attach.)                                               *)
VersionStartsOver ==
    [][toServer # <<>> /\ toServer' = Tail(toServer) /\ Head(toServer).kind = "Version"
       => ss'.phase = "unattached"]_vars

(* The fid of a path is the file of the path.  (Not what the code does: a  *)
(* create makes the fid of the directory the one of the new file, and the  *)
(* cache is not told.)                                                     *)
CacheExact ==
    driver = "library" /\ cl.connected => \A p \in DOMAIN cl.fids:
        Clunked(cl.fids[p]) \/ PathOf(ss.fids[cl.fids[p]]) = p
=============================================================================
