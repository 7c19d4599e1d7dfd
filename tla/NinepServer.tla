---------------------------- MODULE NinepServer ----------------------------
(***************************************************************************)
(* One 9p connection as the server sees it: the state of the session       *)
(* (src/crates/ninep/src/sansio/server.rs) and the two loops that serve    *)
(* it, on a thread (sync/server.rs) and in a tokio task (tokio/server.rs). *)
(* The filesystem behind it is external: it is a small tree, modelled from *)
(* the way the sessions call it.  Reads of one file block until the        *)
(* filesystem has data for them, as the log and event files of ad do.      *)
(*                                                                         *)
(* Messages are those of NinepWire; error texts are single bytes.  Names   *)
(* are one byte long.                                                      *)
(***************************************************************************)
EXTENDS NinepWire, FiniteSets, Functions

CONSTANTS
    ServerMsize,    \* Server.msize (MAX_DATA_LEN in the code)
    MaxOffset,      \* the largest offset that is served (u32::MAX in the code)
    IoChunk,        \* the filesystem returns at most so many bytes of a file
    Chunks,         \* what the filesystem answers a blocked read with
    MaxDeliveries,  \* bound: answers to blocked reads
    MaxRaw,         \* bound: messages of a client that speaks 9p itself
    Flavours        \* the loops that may serve the connection

\* A field takes at least the qids of a walk of two names.
ASSUME ServerAssumption ==
    /\ IoChunk \in Nat \ {0} /\ Flavours \subseteq {"sync", "tokio"}
    /\ MaxSizeField >= 2 * QidBytes

VARIABLES
    flavour,    \* which of the two loops serves the connection
    ss,         \* the session
    fs,         \* the files behind it, and the ones a session holds open
    toServer,   \* messages on their way to the server
    toClient,   \* replies on their way to the client
    blocked,    \* tags of the reads that wait for the filesystem
    answered,   \* tokio: the channel of the answers to blocked reads
    deliveries, \* number of blocked reads that were answered
    outstanding,\* the client's view: tags it waits for, with the kind of the request
    sends       \* number of messages sent by a client that speaks 9p itself

serverVars == <<flavour, ss, fs, toServer, toClient, blocked, answered, deliveries>>
rawVars == <<outstanding, sends>>

(***************************************************************************)
(* The files: a tree of qids.  NewFile does not exist at first.            *)
(***************************************************************************)
QidRoot == 0
TextFile == 1
Dir == 2
NewFile == 3
LogFile == 4
SinkFile == 5

Qids == 0..5

FileType(q) == IF q \in {QidRoot, Dir} THEN "Directory" ELSE "Regular"

Parent(q) == IF q = NewFile THEN Dir ELSE QidRoot

NameOf(q) == <<97 + q>>

FileMeta(q) == [name |-> NameOf(q), ty |-> FileType(q), qid |-> q]

InitFs ==
    [ files |-> Qids \ {NewFile},
      text |-> [q \in Qids |-> IF q = TextFile THEN <<1, 10, 2, 10, 3>> ELSE <<>>],
      open |-> {} ]

Children(f, q) == {c \in f.files \ {QidRoot}: Parent(c) = q}

FileNamed(f, parent, name) == {c \in Children(f, parent): NameOf(c) = name}

FsStat(f, q) ==
    [ name |-> NameOf(q), ty |-> FileType(q), qid |-> q, perms |-> 511, accessed |-> 5,
      modified |-> 7, n_bytes |-> Len(f.text[q]), owner |-> <<>>, group |-> <<>>, muid |-> <<>> ]

FsRead(f, q, offset, count) ==
    LET n == IF count < IoChunk THEN count ELSE IoChunk
        end == IF offset + n < Len(f.text[q]) THEN offset + n ELSE Len(f.text[q])
    IN  SubSeq(f.text[q], offset + 1, end)

\* A write replaces what is there from the offset on.
FsWrite(f, q, offset, data) ==
    [f EXCEPT !.text[q] = SubSeq(@, 1, offset) \o data \o Drop(@, offset + Len(data))]

(***************************************************************************)
(* Messages.                                                               *)
(***************************************************************************)
Supported == <<57, 80>>
Unknown == <<117>>
NoTag == 65535

T(tag, kind, content) == [side |-> "T", tag |-> tag, kind |-> kind, content |-> content]
R(tag, kind, content) == [side |-> "R", tag |-> tag, kind |-> kind, content |-> content]

ENoVersionMessage == <<1>>
EUnattached == <<2>>
EAlreadyAttached == <<3>>
EAuthNotRequired == <<4>>
EDuplicateFid == <<5>>
EUnknownFid == <<6>>
EUnknownRoot == <<7>>
EWalkNonDir == <<8>>
ECreateNonDir == <<9>>
EInvalidOffset == <<10>>
EOffsetTooLarge == <<11>>
EFilesystem == <<12>>  \* whatever the filesystem says

(***************************************************************************)
(* A handler takes the session and the files to new ones, with a reply: a  *)
(* kind and its content, or no reply yet.                                  *)
(***************************************************************************)
Outcome(s, f, kind, content) == [ss |-> s, fs |-> f, kind |-> kind, content |-> content]

Refuse(s, f, ename) == Outcome(s, f, "Error", <<ename>>)

(***************************************************************************)
(* SessionState.                                                           *)
(***************************************************************************)
NewSession ==
    [ phase |-> "unattached", seen_version |-> FALSE, msize |-> ServerMsize,
      fids |-> <<>>, qids |-> [q \in {QidRoot} |-> FileMeta(QidRoot)] ]

Bind(fun, k, v) == [x \in (DOMAIN fun) \cup {k} |-> IF x = k THEN v ELSE fun[x]]

\* the first, and the second where the first says nothing
Joined(fun, gun) == [x \in (DOMAIN fun) \cup (DOMAIN gun) |-> IF x \in DOMAIN fun THEN fun[x] ELSE gun[x]]

Without(fun, k) == Restrict(fun, (DOMAIN fun) \ {k})

KnownFid(s, fid) == fid \in DOMAIN s.fids /\ s.fids[fid] \in DOMAIN s.qids

TryFileMeta(s, fid) == s.qids[s.fids[fid]]

HandleVersion(s, msize, version) ==
    << IF s.msize < msize THEN s.msize ELSE msize, IF version # Supported THEN Unknown ELSE Supported >>

HandleTmessageUnattached(s, f, m) ==
    LET c == m.content IN
    CASE m.kind = "Version" ->
            Outcome([s EXCEPT !.seen_version = (c[2] = Supported)], f, "Version", HandleVersion(s, c[1], c[2]))
      [] m.kind \in {"Auth", "Attach"} /\ ~s.seen_version -> Refuse(s, f, ENoVersionMessage)
      [] m.kind = "Auth" /\ s.seen_version -> Refuse(s, f, EAuthNotRequired)
      [] m.kind = "Attach" /\ s.seen_version ->
            IF c[4] # <<>> THEN Refuse(s, f, EUnknownRoot)
            ELSE Outcome([s EXCEPT !.phase = "attached", !.fids = Bind(<<>>, c[1], QidRoot)], f,
                         "Attach", <<AsQid(s.qids[QidRoot])>>)
      [] OTHER -> Refuse(s, f, EUnattached)

\* The qids that a walk reaches, up to the first name that the filesystem does not walk.
Walked(f, start, wnames) ==
    LET \* the qids of the longest prefix of wnames that the filesystem walks
        upto[i \in 0..Len(wnames)] ==
            IF i = 0 THEN <<start>>
            ELSE LET before == upto[i - 1] IN
                 IF Len(before) < i \/ FileNamed(f, before[i], wnames[i]) = {} THEN before
                 ELSE Append(before, CHOOSE c \in FileNamed(f, before[i], wnames[i]): TRUE)
    IN  Tail(upto[Len(wnames)])

\* The qids of the elements that were walked before one failed stay in the cache.
HandleWalk(s, f, fid, new_fid, wnames) ==
    LET start == TryFileMeta(s, fid).qid
        walked == Walked(f, start, wnames)
        cached == Joined([q \in Range(walked) |-> FileMeta(q)], s.qids) IN
    CASE new_fid # fid /\ new_fid \in DOMAIN s.fids -> Refuse(s, f, EDuplicateFid)
      [] (new_fid = fid \/ new_fid \notin DOMAIN s.fids) /\ ~KnownFid(s, fid) -> Refuse(s, f, EUnknownFid)
      [] OTHER ->
            CASE wnames = <<>> -> Outcome([s EXCEPT !.fids = Bind(@, new_fid, start)], f, "Walk", <<<<>>>>)
              [] wnames # <<>> /\ TryFileMeta(s, fid).ty = "Regular" -> Refuse(s, f, EWalkNonDir)
              [] wnames # <<>> /\ TryFileMeta(s, fid).ty # "Regular" ->
                    IF Len(walked) < Len(wnames) THEN Refuse([s EXCEPT !.qids = cached], f, EFilesystem)
                    ELSE Outcome([s EXCEPT !.qids = cached, !.fids = Bind(@, new_fid, Last(walked))], f,
                                 "Walk", <<[i \in DOMAIN walked |-> AsQid(FileMeta(walked[i]))]>>)

HandleClunk(s, f, fid) ==
    IF fid \notin DOMAIN s.fids THEN Refuse(s, f, EUnknownFid)
    ELSE Outcome([s EXCEPT !.fids = Without(@, fid)], [f EXCEPT !.open = @ \ {s.fids[fid]}], "Clunk", <<>>)

(* mutant: the size of the reply is the one in the stat *)
HandleStatInnerSize(s, f, fid) ==
    LET stat == RawStatOf(FsStat(f, TryFileMeta(s, fid).qid)) IN
    CASE ~KnownFid(s, fid) -> Refuse(s, f, EUnknownFid)
      [] KnownFid(s, fid) /\ TryFileMeta(s, fid).qid \notin f.files -> Refuse(s, f, EFilesystem)
      [] OTHER -> Outcome(s, f, "Stat", <<stat.size, stat>>)

HandleStat(s, f, fid) ==
    LET q == TryFileMeta(s, fid).qid
        stat == RawStatOf(FsStat(f, q)) IN
    CASE ~KnownFid(s, fid) -> Refuse(s, f, EUnknownFid)
      [] KnownFid(s, fid) /\ q \notin f.files -> Refuse(s, f, EFilesystem)
      [] OTHER -> Outcome(s, f, "Stat", <<stat.size + 2, stat>>)

\* A stat with no bytes truncates the file.
FsWriteStat(f, q, stat) ==
    IF stat.n_bytes = 0 /\ q \in f.files /\ FileType(q) = "Regular" THEN [f EXCEPT !.text[q] = <<>>] ELSE f

HandleWstat(s, f, fid, raw_stat) ==
    LET stat == StatOf(raw_stat) IN
    CASE ~stat.ok -> Refuse(s, f, EFilesystem)
      [] stat.ok /\ ~KnownFid(s, fid) -> Refuse(s, f, EUnknownFid)
      [] OTHER -> Outcome(s, FsWriteStat(f, TryFileMeta(s, fid).qid, stat.val), "Wstat", <<>>)

HandleOpen(s, f, fid, mode) ==
    LET q == TryFileMeta(s, fid).qid IN
    CASE ~KnownFid(s, fid) -> Refuse(s, f, EUnknownFid)
      [] KnownFid(s, fid) /\ q \notin f.files -> Refuse(s, f, EFilesystem)
      [] OTHER -> Outcome(s, [f EXCEPT !.open = @ \cup {q}], "Open", <<AsQid(TryFileMeta(s, fid)), 0>>)

\* The fid now denotes the new file, not the directory.
HandleCreate(s, f, fid, name, mode) ==
    LET q == TryFileMeta(s, fid).qid IN
    CASE ~KnownFid(s, fid) -> Refuse(s, f, EUnknownFid)
      [] KnownFid(s, fid) /\ TryFileMeta(s, fid).ty # "Directory" -> Refuse(s, f, ECreateNonDir)
      [] OTHER ->
            IF q # Dir \/ name # NameOf(NewFile) \/ NewFile \in f.files THEN Refuse(s, f, EFilesystem)
            ELSE Outcome([s EXCEPT !.fids = Bind(@, fid, NewFile), !.qids = Bind(@, NewFile, FileMeta(NewFile))],
                         [f EXCEPT !.files = @ \cup {NewFile}, !.open = @ \cup {NewFile}],
                         "Create", <<AsQid(FileMeta(NewFile)), 0>>)

\* One entry of a directory: skipped, taken, or the page is full.
PageEntry(p, bytes, count) ==
    CASE p.full \/ p.bad -> p
      [] ~p.full /\ ~p.bad /\ p.skip # 0 ->
            IF Len(bytes) > p.skip THEN [p EXCEPT !.bad = TRUE] ELSE [p EXCEPT !.skip = @ - Len(bytes)]
      [] OTHER -> IF Len(p.buf) + Len(bytes) > count THEN [p EXCEPT !.full = TRUE]
                  ELSE [p EXCEPT !.buf = @ \o bytes]

\* The entries of a directory from an offset on, as long as they fit in count bytes.
DirPage(stats, offset, count) ==
    FoldLeft(LAMBDA p, st: PageEntry(p, WriteStat(st), count),
             [skip |-> offset, buf |-> <<>>, full |-> FALSE, bad |-> FALSE], stats)

DirEntries(f, q) ==
    LET qs == SetToSortSeq(Children(f, q), LAMBDA a, b: a < b)
    IN  [i \in DOMAIN qs |-> RawStatOf(FsStat(f, qs[i]))]

HandleRead(s, f, fid, offset, count) ==
    LET fm == TryFileMeta(s, fid)
        q == fm.qid
        page == DirPage(DirEntries(f, q), offset, count)
        entries == [c \in Children(f, q) |-> FileMeta(c)] IN
    CASE ~KnownFid(s, fid) -> Refuse(s, f, EUnknownFid)
      [] KnownFid(s, fid) /\ offset > MaxOffset -> Refuse(s, f, EOffsetTooLarge)
      [] OTHER ->
            CASE q \notin f.files -> Refuse(s, f, EFilesystem)
              [] q \in f.files /\ fm.ty = "Directory" ->
                    IF page.bad THEN Refuse([s EXCEPT !.qids = Joined(@, entries)], f, EInvalidOffset)
                    ELSE Outcome([s EXCEPT !.qids = Joined(@, entries)], f, "Read", <<page.buf>>)
              [] q \in f.files /\ fm.ty # "Directory" ->
                    IF q = LogFile THEN Outcome(s, f, "Blocked", <<>>)
                    ELSE Outcome(s, f, "Read", <<FsRead(f, q, offset, count)>>)

FsWriteOutcome(s, f, q, offset, data) ==
    IF q # SinkFile \/ q \notin f.files THEN Refuse(s, f, EFilesystem)
    ELSE Outcome(s, FsWrite(f, q, offset, data), "Write", <<Len(data)>>)

HandleWrite(s, f, fid, offset, data) ==
    CASE ~KnownFid(s, fid) -> Refuse(s, f, EUnknownFid)
      [] KnownFid(s, fid) /\ offset > MaxOffset -> Refuse(s, f, EOffsetTooLarge)
      [] OTHER -> FsWriteOutcome(s, f, TryFileMeta(s, fid).qid, offset, data)

\* tokio: the offset is looked at first.
HandleWriteAsync(s, f, fid, offset, data) ==
    CASE offset > MaxOffset -> Refuse(s, f, EOffsetTooLarge)
      [] offset <= MaxOffset /\ ~KnownFid(s, fid) -> Refuse(s, f, EUnknownFid)
      [] OTHER -> FsWriteOutcome(s, f, TryFileMeta(s, fid).qid, offset, data)

\* The fid stays.
HandleRemove(s, f, fid) ==
    LET q == TryFileMeta(s, fid).qid IN
    CASE ~KnownFid(s, fid) -> Refuse(s, f, EUnknownFid)
      [] KnownFid(s, fid) /\ (q \notin f.files \/ q # NewFile) -> Refuse(s, f, EFilesystem)
      [] OTHER -> Outcome(s, [f EXCEPT !.files = @ \ {q}, !.text[q] = <<>>], "Remove", <<>>)

(* mutant: the fids are cleared and the filesystem is not told *)
ClunkAndClearSilently(s, f) == <<[s EXCEPT !.fids = <<>>], f>>

ClunkAndClear(s, f) == <<[s EXCEPT !.fids = <<>>], [f EXCEPT !.open = @ \ Range(s.fids)]>>

HandleTmessageAttached(s, f, m) ==
    LET c == m.content
        cleared == ClunkAndClear(s, f) IN
    CASE m.kind \in {"Auth", "Attach"} -> Refuse(s, f, EAlreadyAttached)
      [] m.kind = "Flush" -> Outcome(s, f, "Flush", <<>>)
      [] m.kind = "Version" -> Outcome(cleared[1], cleared[2], "Version", HandleVersion(s, c[1], c[2]))
      [] m.kind = "Walk" -> HandleWalk(s, f, c[1], c[2], c[3])
      [] m.kind = "Clunk" -> HandleClunk(s, f, c[1])
      [] m.kind = "Stat" -> HandleStat(s, f, c[1])
      [] m.kind = "Open" -> HandleOpen(s, f, c[1], c[2])
      [] m.kind = "Create" -> HandleCreate(s, f, c[1], c[2], c[4])
      [] m.kind = "Read" -> HandleRead(s, f, c[1], c[2], c[3])
      [] m.kind = "Write" -> HandleWrite(s, f, c[1], c[2], c[3])
      [] m.kind = "Remove" -> HandleRemove(s, f, c[1])
      [] m.kind = "Wstat" -> HandleWstat(s, f, c[1], c[3])

\* A reply that cannot be encoded is not sent, and the error is dropped.
Reply(sent, tag, kind, content) ==
    LET r == R(tag, kind, content) IN IF Encodable(r) THEN Append(sent, r) ELSE sent

(***************************************************************************)
(* The connection.                                                         *)
(***************************************************************************)
ServerInit ==
    /\ flavour \in Flavours
    /\ ss = NewSession
    /\ fs = InitFs
    /\ toServer = <<>> /\ toClient = <<>>
    /\ blocked = {} /\ answered = <<>>
    /\ deliveries = 0

\* handle_connection of an unattached session, where nothing blocks
HandleConnectionUnattached ==
    /\ ss.phase = "unattached" /\ toServer # <<>>
    /\ LET m == Head(toServer)
           out == HandleTmessageUnattached(ss, fs, m) IN
       /\ ss' = out.ss
       /\ toClient' = Reply(toClient, m.tag, out.kind, out.content)
    /\ toServer' = Tail(toServer)
    /\ UNCHANGED <<flavour, fs, blocked, answered, deliveries, rawVars>>

HandleMessage(out) ==
    /\ ss.phase = "attached" /\ toServer # <<>>
    /\ ss' = out.ss
    /\ fs' = out.fs
    /\ IF out.kind = "Blocked"
       THEN blocked' = blocked \cup {Head(toServer).tag} /\ UNCHANGED toClient
       ELSE toClient' = Reply(toClient, Head(toServer).tag, out.kind, out.content) /\ UNCHANGED blocked
    /\ toServer' = Tail(toServer)
    /\ UNCHANGED <<flavour, answered, deliveries, rawVars>>

\* one turn of the loop of an attached session, on a thread
HandleConnection ==
    /\ flavour = "sync" /\ toServer # <<>>
    /\ HandleMessage(HandleTmessageAttached(ss, fs, Head(toServer)))

\* ... and in a tokio task
HandleConnectionAsync ==
    /\ flavour = "tokio" /\ toServer # <<>>
    /\ LET m == Head(toServer) IN
       HandleMessage(IF m.kind = "Write" THEN HandleWriteAsync(ss, fs, m.content[1], m.content[2], m.content[3])
                     ELSE HandleTmessageAttached(ss, fs, m))

\* The thread spawned for a blocked read has its data, or finds the channel closed
\* (no data), and writes the reply itself.
AnswerBlocked(tag, data) ==
    /\ tag \in blocked /\ flavour = "sync"
    /\ deliveries < MaxDeliveries
    /\ deliveries' = deliveries + 1
    /\ blocked' = blocked \ {tag}
    /\ toClient' = IF ss.phase = "ended" THEN toClient ELSE Reply(toClient, tag, "Read", <<data>>)
    /\ UNCHANGED <<flavour, ss, fs, toServer, answered, rawVars>>

\* tokio: the spawned task hands its data to the loop, ...
SendBlocked(tag, data) ==
    /\ tag \in blocked /\ flavour = "tokio"
    /\ deliveries < MaxDeliveries
    /\ deliveries' = deliveries + 1
    /\ blocked' = blocked \ {tag}
    /\ answered' = IF ss.phase = "ended" THEN answered ELSE Append(answered, <<tag, data>>)
    /\ UNCHANGED <<flavour, ss, fs, toServer, toClient, rawVars>>

\* ... which selects it between two messages.
SelectBlocked ==
    /\ ss.phase = "attached" /\ answered # <<>>
    /\ toClient' = Reply(toClient, Head(answered)[1], "Read", <<Head(answered)[2]>>)
    /\ answered' = Tail(answered)
    /\ UNCHANGED <<flavour, ss, fs, toServer, blocked, deliveries, rawVars>>

\* tokio: a message that arrives in two parts is abandoned after its first bytes, its
\* size, when an answer is selected: the rest of it is read as the next message.
SelectDropsRead ==
    /\ ss.phase = "attached" /\ answered # <<>> /\ toServer # <<>> /\ flavour = "tokio"
    /\ toClient' = Reply(toClient, Head(answered)[1], "Read", <<Head(answered)[2]>>)
    /\ answered' = Tail(answered)
    /\ LET p == ReadMessage("T", Drop(WriteMessage(Head(toServer)), 4)) IN
       toServer' = (IF p.ok THEN <<p.val>> ELSE <<>>) \o Tail(toServer)
    /\ UNCHANGED <<flavour, ss, fs, blocked, deliveries, rawVars>>

\* The connection is closed: the session clunks what it holds.
Disconnected ==
    /\ ss.phase # "ended" /\ toServer = <<>>
    /\ LET cleared == ClunkAndClear(ss, fs) IN
       /\ ss' = [cleared[1] EXCEPT !.phase = "ended"]
       /\ fs' = cleared[2]
    /\ toClient' = <<>> /\ answered' = <<>>
    /\ UNCHANGED <<flavour, toServer, blocked, deliveries, sends>>
    /\ outstanding' = <<>>

ServerNext ==
    \/ HandleConnectionUnattached
    \/ HandleConnection
    \/ HandleConnectionAsync
    \/ \E tag \in blocked, data \in Chunks: AnswerBlocked(tag, data)
    \/ \E tag \in blocked, data \in Chunks: SendBlocked(tag, data)
    \/ SelectBlocked

(***************************************************************************)
(* A client that speaks 9p itself, one request at a time but for the reads *)
(* that block.  It keeps to the protocol where the server does not check:  *)
(* a fid that is open is not walked onto another file, and no two of its   *)
(* requests in flight have one tag.                                        *)
(***************************************************************************)
RawTags == {1, 2}

RawFids == {0, 1}

WalkPaths == {<<>>, <<NameOf(TextFile)>>, <<NameOf(Dir)>>, <<NameOf(Dir), NameOf(NewFile)>>,
              <<NameOf(LogFile)>>, <<NameOf(SinkFile)>>}

RawRequests(tag) ==
    {T(tag, "Version", <<64, v>>): v \in {Supported, Unknown}}
    \cup {T(tag, "Auth", <<9, <<>>, <<>>>>)}
    \cup {T(tag, "Attach", <<0, 9, <<>>, aname>>): aname \in {<<>>, <<1>>}}
    \cup {T(tag, "Flush", <<old>>): old \in RawTags \ {tag}}
    \cup {T(tag, "Walk", <<fid, 1, p>>): fid \in RawFids, p \in WalkPaths}
    \cup {T(tag, "Create", <<fid, NameOf(NewFile), [lo |-> 511, hi |-> 0], 0>>): fid \in RawFids}
    \cup {T(tag, "Read", <<fid, offset, 64>>): fid \in RawFids, offset \in {0, 3, 50, MaxOffset + 1}}
    \cup {T(tag, "Write", <<fid, offset, <<1, 1>>>>): fid \in RawFids, offset \in {0, MaxOffset + 1}}
    \cup {T(tag, "Open", <<fid, 0>>): fid \in RawFids}
    \cup {T(tag, "Wstat", <<fid, 0, RawStatOf([FsStat(InitFs, TextFile) EXCEPT !.n_bytes = n])>>): fid \in RawFids, n \in {0, 5}}
    \cup {T(tag, kind, <<fid>>): fid \in RawFids, kind \in {"Clunk", "Remove", "Stat"}}

Legal(m) ==
    ~ /\ m.kind = "Create" \/ (m.kind = "Walk" /\ m.content[1] = m.content[2])
      /\ m.content[1] \in DOMAIN ss.fids
      /\ ss.fids[m.content[1]] \in fs.open

RawSend ==
    /\ ss.phase # "ended" /\ sends < MaxRaw
    /\ toServer = <<>> /\ toClient = <<>>
    /\ \A tag \in DOMAIN outstanding: tag \in blocked \cup {answered[i][1]: i \in DOMAIN answered}
    /\ \E tag \in RawTags \ DOMAIN outstanding: \E m \in RawRequests(tag):
        /\ Legal(m)
        /\ toServer' = <<m>>
        /\ outstanding' = Bind(outstanding, tag, m.kind)
    /\ sends' = sends + 1
    /\ UNCHANGED <<flavour, ss, fs, toClient, blocked, answered, deliveries>>

RawReceive ==
    /\ toClient # <<>>
    /\ outstanding' = Without(outstanding, Head(toClient).tag)
    /\ toClient' = Tail(toClient)
    /\ UNCHANGED <<flavour, ss, fs, toServer, blocked, answered, deliveries, sends>>
=============================================================================
