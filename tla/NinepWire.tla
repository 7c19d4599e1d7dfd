----------------------------- MODULE NinepWire -----------------------------
(***************************************************************************)
(* The 9p wire format (src/crates/ninep/src/sansio/protocol.rs and fs.rs): *)
(* how numbers, strings, lists, data, qids, stats and messages become      *)
(* bytes and are read back.  A byte is a number below 256, a string is the *)
(* sequence of its bytes.  The table Format stands for the two macros that *)
(* stamp out the T and R messages.                                         *)
(***************************************************************************)
EXTENDS Integers, Sequences, SequencesExt

CONSTANTS
    MaxSizeField, \* MAX_SIZE_FIELD (u16::MAX in the code)
    MaxDataLen    \* MAX_DATA_LEN (32 MiB in the code)

ASSUME WireAssumption ==
    /\ MaxSizeField \in Nat /\ MaxSizeField < 65536
    /\ MaxDataLen \in Nat

(***************************************************************************)
(* Numbers, in little-endian order.                                        *)
(***************************************************************************)
ToLeBytes(n, width) ==
    LET rest[i \in 0..width] == IF i = 0 THEN n ELSE rest[i - 1] \div 256
    IN  [i \in 1..width |-> rest[i - 1] % 256]

FromLeBytes(bytes) == FoldRight(LAMBDA b, acc: acc * 256 + b, bytes, 0)

(***************************************************************************)
(* Number of bytes required to encode a value of a type.                   *)
(***************************************************************************)
Width == [u8 |-> 1, u16 |-> 2, u32 |-> 4, u64 |-> 8, mode |-> 4]

Total(s) == FoldLeft(LAMBDA acc, n: acc + n, 0, s)

QidBytes == 1 + 4 + 8

StringBytes(s) == 2 + Len(s)

StatBytes(st) ==
    41 + StringBytes(st.name) + StringBytes(st.uid) + StringBytes(st.gid) + StringBytes(st.muid)

NBytes(type, v) ==
    CASE type \in DOMAIN Width -> Width[type]
      [] type = "qid" -> QidBytes
      [] type = "str" -> StringBytes(v)
      [] type = "strs" -> 2 + Total([i \in DOMAIN v |-> StringBytes(v[i])])
      [] type = "qids" -> 2 + Len(v) * QidBytes
      [] type = "data" -> 4 + Len(v)
      [] type = "stat" -> StatBytes(v)

(***************************************************************************)
(* Serializing.  The strings and the lists of a message are the fields     *)
(* whose length is checked before they are written.                        *)
(***************************************************************************)
FieldFits(type, v) ==
    CASE type = "str" -> Len(v) <= MaxSizeField
      [] type \in {"strs", "qids"} ->
            /\ NBytes(type, v) - 2 <= MaxSizeField
            /\ type = "strs" => \A i \in DOMAIN v: Len(v[i]) <= MaxSizeField
      [] type = "stat" -> \A s \in {v.name, v.uid, v.gid, v.muid}: Len(s) <= MaxSizeField
      [] OTHER -> TRUE

\* The mode of a stat has flags above bit 16: it is kept as two halves.
WriteMode(md) == ToLeBytes(md.lo, 2) \o ToLeBytes(md.hi, 2)

WriteString(s) == ToLeBytes(Len(s), 2) \o s

WriteQid(q) == ToLeBytes(q.ty, 1) \o ToLeBytes(q.version, 4) \o ToLeBytes(q.path, 8)

WriteStat(st) ==
    ToLeBytes(st.size, 2) \o ToLeBytes(st.ty, 2) \o ToLeBytes(st.dev, 4) \o WriteQid(st.qid)
    \o WriteMode(st.mode) \o ToLeBytes(st.atime, 4) \o ToLeBytes(st.mtime, 4)
    \o ToLeBytes(st.length, 8) \o WriteString(st.name) \o WriteString(st.uid)
    \o WriteString(st.gid) \o WriteString(st.muid)

WriteBytes(type, v) ==
    CASE type = "mode" -> WriteMode(v)
      [] type \in (DOMAIN Width) \ {"mode"} -> ToLeBytes(v, Width[type])
      [] type = "qid" -> WriteQid(v)
      [] type = "str" -> WriteString(v)
      [] type = "strs" -> ToLeBytes(Len(v), 2) \o FlattenSeq([i \in DOMAIN v |-> WriteString(v[i])])
      [] type = "qids" -> ToLeBytes(Len(v), 2) \o FlattenSeq([i \in DOMAIN v |-> WriteQid(v[i])])
      [] type = "data" -> ToLeBytes(Len(v), 4) \o v
      [] type = "stat" -> WriteStat(v)

(***************************************************************************)
(* Parsing.  A parser takes the bytes that are left and gives a value and  *)
(* the bytes left after it, or fails.                                      *)
(***************************************************************************)
Fail(why) == [ok |-> FALSE, err |-> why]

Parsed(v, rest) == [ok |-> TRUE, val |-> v, rest |-> rest]

Drop(s, n) == SubSeq(s, n + 1, Len(s))

AndThen(p, Continue(_, _)) == IF p.ok THEN Continue(p.val, p.rest) ELSE p

\* as_slice_to panics when the buffer holds fewer bytes, read_exact fails.
Take(bytes, n) == IF Len(bytes) < n THEN Fail("eof") ELSE Parsed(SubSeq(bytes, 1, n), Drop(bytes, n))

ReadUint(bytes, width) == AndThen(Take(bytes, width), LAMBDA b, rest: Parsed(FromLeBytes(b), rest))

\* The strings of the model are ASCII: a byte above it is invalid utf-8.
ReadString(bytes) ==
    AndThen(ReadUint(bytes, 2), LAMBDA n, after:
        AndThen(Take(after, n), LAMBDA s, rest:
            IF \A i \in DOMAIN s: s[i] < 128 THEN Parsed(s, rest) ELSE Fail("utf8")))

ReadData(bytes) ==
    AndThen(ReadUint(bytes, 4), LAMBDA n, rest:
        IF n > MaxDataLen THEN Fail("data field too long") ELSE Take(rest, n))

QidFromBytes(b) ==
    [ty |-> b[1], version |-> FromLeBytes(SubSeq(b, 2, 5)), path |-> FromLeBytes(SubSeq(b, 6, 13))]

ReadQid(bytes) == AndThen(Take(bytes, QidBytes), LAMBDA b, rest: Parsed(QidFromBytes(b), rest))

ModeFromBytes(b) == [lo |-> FromLeBytes(SubSeq(b, 1, 2)), hi |-> FromLeBytes(SubSeq(b, 3, 4))]

ReadMode(bytes) == AndThen(Take(bytes, 4), LAMBDA b, rest: Parsed(ModeFromBytes(b), rest))

\* The elements of a list, or the fields of a message, one after the other.
ReadEach(n, bytes, Elem(_, _)) ==
    FoldLeft(LAMBDA acc, i: AndThen(acc, LAMBDA vs, rest:
                 AndThen(Elem(i, rest), LAMBDA v, left: Parsed(Append(vs, v), left))),
             Parsed(<<>>, bytes), [i \in 1..n |-> i])

ReadStrings(bytes) ==
    AndThen(ReadUint(bytes, 2), LAMBDA n, rest: ReadEach(n, rest, LAMBDA i, b: ReadString(b)))

ReadQids(bytes) ==
    AndThen(ReadUint(bytes, 2), LAMBDA n, rest: ReadEach(n, rest, LAMBDA i, b: ReadQid(b)))

\* The 41 bytes of fixed size in one block, then the four strings.
ReadStat(bytes) ==
    LET u(b, i, width) == FromLeBytes(SubSeq(b, i + 1, i + width)) IN
    AndThen(Take(bytes, 41), LAMBDA b, after:
        AndThen(ReadEach(4, after, LAMBDA i, left: ReadString(left)), LAMBDA strs, rest:
            Parsed([size |-> u(b, 0, 2), ty |-> u(b, 2, 2), dev |-> u(b, 4, 4),
                    qid |-> QidFromBytes(Drop(b, 8)), mode |-> ModeFromBytes(Drop(b, 21)),
                    atime |-> u(b, 25, 4), mtime |-> u(b, 29, 4), length |-> u(b, 33, 8),
                    name |-> strs[1], uid |-> strs[2], gid |-> strs[3], muid |-> strs[4]], rest)))

ReadType(type, bytes) ==
    CASE type = "mode" -> ReadMode(bytes)
      [] type \in (DOMAIN Width) \ {"mode"} -> ReadUint(bytes, Width[type])
      [] type = "qid" -> ReadQid(bytes)
      [] type = "str" -> ReadString(bytes)
      [] type = "strs" -> ReadStrings(bytes)
      [] type = "qids" -> ReadQids(bytes)
      [] type = "data" -> ReadData(bytes)
      [] type = "stat" -> ReadStat(bytes)

(***************************************************************************)
(* Messages.  The fields of each kind, in the order of the wire; content   *)
(* is the sequence of their values.                                        *)
(***************************************************************************)
TFormat == [
    Version |-> <<"u32", "str">>, Auth |-> <<"u32", "str", "str">>,
    Attach |-> <<"u32", "u32", "str", "str">>, Flush |-> <<"u16">>,
    Walk |-> <<"u32", "u32", "strs">>, Open |-> <<"u32", "u8">>,
    Create |-> <<"u32", "str", "mode", "u8">>, Read |-> <<"u32", "u64", "u32">>,
    Write |-> <<"u32", "u64", "data">>, Clunk |-> <<"u32">>, Remove |-> <<"u32">>,
    Stat |-> <<"u32">>, Wstat |-> <<"u32", "u16", "stat">> ]

RFormat == [
    Version |-> <<"u32", "str">>, Auth |-> <<"qid">>, Error |-> <<"str">>, Attach |-> <<"qid">>,
    Flush |-> <<>>, Walk |-> <<"qids">>, Open |-> <<"qid", "u32">>, Create |-> <<"qid", "u32">>,
    Read |-> <<"data">>, Write |-> <<"u32">>, Clunk |-> <<>>, Remove |-> <<>>,
    Stat |-> <<"u16", "stat">>, Wstat |-> <<>> ]

Format(side, kind) == IF side = "T" THEN TFormat[kind] ELSE RFormat[kind]

\* The T message of a kind; its R message is the next number.
TCode == [
    Version |-> 100, Auth |-> 102, Attach |-> 104, Error |-> 106, Flush |-> 108, Walk |-> 110,
    Open |-> 112, Create |-> 114, Read |-> 116, Write |-> 118, Clunk |-> 120, Remove |-> 122,
    Stat |-> 124, Wstat |-> 126 ]

MessageType(side, kind) == IF side = "T" THEN TCode[kind] ELSE TCode[kind] + 1

\* size[4] type[1] tag[2] | content[...]
MessageBytes(m) ==
    LET f == Format(m.side, m.kind) IN
    4 + 1 + 2 + Total([i \in DOMAIN f |-> NBytes(f[i], m.content[i])])

Encodable(m) ==
    \A i \in DOMAIN m.content: FieldFits(Format(m.side, m.kind)[i], m.content[i])

WriteMessage(m) ==
    LET f == Format(m.side, m.kind) IN
    ToLeBytes(MessageBytes(m), 4) \o ToLeBytes(MessageType(m.side, m.kind), 1) \o ToLeBytes(m.tag, 2)
    \o FlattenSeq([i \in DOMAIN f |-> WriteBytes(f[i], m.content[i])])

Kinds(side, code) ==
    {k \in IF side = "T" THEN DOMAIN TFormat ELSE DOMAIN RFormat: MessageType(side, k) = code}

\* The fields of a message, from the buffer that holds its bytes.
ReadContent(side, kind, tag, body, rest) ==
    AndThen(ReadEach(Len(Format(side, kind)), body, LAMBDA i, left: ReadType(Format(side, kind)[i], left)),
            LAMBDA content, extra: Parsed([side |-> side, tag |-> tag, kind |-> kind, content |-> content], rest))

\* The bytes of the whole message are requested up front (len - 4 of them).
ReadMessage(side, bytes) ==
    AndThen(ReadUint(bytes, 4), LAMBDA len, after:
        AndThen(Take(after, len - 4), LAMBDA body, rest:
            IF Kinds(side, body[1]) = {} THEN Fail("invalid message type")
            ELSE ReadContent(side, CHOOSE k \in Kinds(side, body[1]): TRUE,
                             FromLeBytes(SubSeq(body, 2, 3)), Drop(body, 3), rest)))

(***************************************************************************)
(* Files (fs.rs).  A file type is one bit of the mode byte of a qid, and   *)
(* the same bit of the high byte of the permissions.                       *)
(***************************************************************************)
FileTypes == {"Directory", "Regular", "AppendOnly", "Exclusive"}

ModeOf(ty) ==
    CASE ty = "Directory" -> 128 [] ty = "Regular" -> 0 [] ty = "AppendOnly" -> 64 [] ty = "Exclusive" -> 32

FileTypeOf(mode) ==
    IF \E ty \in FileTypes: ModeOf(ty) = mode
    THEN Parsed(CHOOSE ty \in FileTypes: ModeOf(ty) = mode, <<>>)
    ELSE Fail("invalid mode value")

PermOf(ty) == [lo |-> 0, hi |-> ModeOf(ty) * 256]

AsQid(fm) == [ty |-> ModeOf(fm.ty), version |-> 0, path |-> fm.qid]

SystimeAsU32(t) == IF t < 0 THEN 0 ELSE t

\* The permissions of a Stat are below bit 16 in the model, as they are for every
\* file that the fileservers of the repository serve.
RawStatOf(s) ==
    [ size |-> (2 + 4 * 4 + QidBytes + 8 + StringBytes(s.name) + StringBytes(s.owner)
                + StringBytes(s.group) + StringBytes(s.muid)) % 65536,
      ty |-> 0, dev |-> 0, qid |-> AsQid([ty |-> s.ty, qid |-> s.qid]),
      mode |-> [lo |-> s.perms, hi |-> PermOf(s.ty).hi],
      atime |-> SystimeAsU32(s.accessed), mtime |-> SystimeAsU32(s.modified), length |-> s.n_bytes,
      name |-> s.name, uid |-> s.owner, gid |-> s.group, muid |-> s.muid ]

StatOf(r) ==
    LET ty == FileTypeOf(r.qid.ty) IN
    IF ~ty.ok THEN ty
    ELSE Parsed([ name |-> r.name, ty |-> ty.val, qid |-> r.qid.path, perms |-> r.mode.lo,
                  accessed |-> r.atime, modified |-> r.mtime, n_bytes |-> r.length,
                  owner |-> r.uid, group |-> r.gid, muid |-> r.muid ], <<>>)
=============================================================================
