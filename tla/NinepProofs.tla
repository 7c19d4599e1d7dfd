----------------------------- MODULE NinepProofs -----------------------------
(***************************************************************************)
(* The server's side of a 9p connection (SessionInv), for any number of    *)
(* clones and any operations of the client library, or for a client that   *)
(* speaks 9p itself.  The inductive invariant has three parts.  The        *)
(* session and the files behind it fit together (SessionOK).  The clones   *)
(* share two locks, and what they know of fids is what the server made of  *)
(* their walks (LibraryOK): a fid number is used once.  And what a client  *)
(* sends itself is answered once (RawOK).                                  *)
(***************************************************************************)
EXTENDS NinepClient, DataInduction, FiniteSetTheorems

----------------------------------------------------------------------------
(* The inductive invariant.                                                 *)

IsSeq(q) == q \in Seq({ q[i] : i \in DOMAIN q })

(* The library does not keep a directory from being opened and then used to *)
(* create a file in it, which the protocol forbids: the fid becomes the new *)
(* file, and nothing holds the directory.  This says that it is not done.   *)
Opening == {"read", "read_dir", "chunks", "lines"}
CreatesUnopened == \A o \in Ops : o[1] \in Opening => o[2] # PathOf(Dir)

SessionFields == {"phase", "seen_version", "msize", "fids", "qids"}
FileFields == {"files", "text", "open"}
ClientFields == {"msize", "fids", "next_fid", "connected"}

(* A session and the files: every fid has its file in the cache.            *)
SessionOK(s, f) ==
    /\ DOMAIN s = SessionFields /\ DOMAIN f = FileFields
    /\ FidMap(s.fids) /\ DOMAIN s.qids \subseteq Qids /\ QidRoot \in DOMAIN s.qids
    /\ \A q \in DOMAIN s.qids : s.qids[q] = FileMeta(q)
    /\ \A fid \in DOMAIN s.fids : s.fids[fid] \in DOMAIN s.qids
    /\ f.files \subseteq Qids /\ f.open \subseteq Range(s.fids)
    /\ s.phase = "unattached" => s.fids = <<>>

Names == Seq(0..255)

(* what a client asks for *)
Asked(m) ==
    /\ m.kind \in DOMAIN TFormat
    /\ m.kind = "Attach" => m.content[1] \in Nat
    /\ m.kind = "Walk" => m.content[2] \in Nat /\ m.content[3] \in Seq(Names)

(* A fid that is open is not made another file.                             *)
Keeps(s, f, m) ==
    /\ m.kind = "Create" => ((m.content[1] \in DOMAIN s.fids /\ s.fids[m.content[1]] = Dir) => Dir \notin f.open)
    /\ (m.kind = "Walk" /\ m.content[1] = m.content[2] /\ m.content[1] \in DOMAIN s.fids) =>
         s.fids[m.content[1]] \notin f.open

(* The operation of a clone, and its stage.                                 *)
Threads == CoroStages \cup SendStages \cup {"idle", "iter", "retain"}
Named == {"walk", "stat", "open", "read", "write", "create", "remove", "open_iter", "iter", "read_count"}

ThreadOK(w) ==
    /\ DOMAIN w = DOMAIN Idle /\ w.stage \in Threads /\ w.waiting \in BOOLEAN
    /\ w.waiting => w.stage \in CoroStages \cup SendStages
    /\ w.stage \in Named => \E o \in Ops : w.op = o[1] /\ w.path = o[2]
    /\ w.stage \in {"open", "read"} => w.op \in {"read", "read_dir"}
    /\ w.stage \in {"open_iter", "iter", "read_count"} => w.op \in {"chunks", "lines"}

LocksOK ==
    /\ DOMAIN th = Clones /\ \A t \in Clones : ThreadOK(th[t])
    /\ \A t \in Clones : (state_lock = t) <=> (th[t].stage \in CoroStages)
    /\ \A t \in Clones : (stream_lock = t) <=> th[t].waiting

(* What is between the library and the server: nothing, or one request or   *)
(* its answer, in one place.                                                *)
Places ==
    /\ IsSeq(toServer) /\ IsSeq(toClient) /\ IsSeq(answered)
    /\ Len(toServer) <= 1 /\ Len(toClient) <= 1 /\ Len(answered) <= 1
    /\ \A tag, old \in blocked : tag = old
    /\ toServer # <<>> => toClient = <<>> /\ blocked = {} /\ answered = <<>>
    /\ toClient # <<>> => blocked = {} /\ answered = <<>>
    /\ blocked # {} => answered = <<>>
    /\ stream_lock = NoClone => toServer = <<>> /\ toClient = <<>> /\ blocked = {} /\ answered = <<>>

(* the request of a clone that waits for the answer *)
Sent(m, w) ==
    /\ Asked(m)
    /\ m.kind = "Attach" => m.content[1] = 0
    /\ m.kind = "Walk" => /\ w.stage = "walk" /\ m.content[1] = 0
                          /\ m.content[2] = cl.next_fid /\ m.content[3] = w.path
    /\ m.kind = "Open" => w.stage \in {"open", "open_iter"} /\ m.content[1] = w.fid

(* Only the path of the directory leads to it.                              *)
Leads(fid, path) == (fid \in DOMAIN ss.fids /\ ss.fids[fid] = Dir) => path = PathOf(Dir)

Walking(t) == th[t].waiting /\ th[t].stage = "walk"

FidsOK ==
    /\ DOMAIN cl = ClientFields /\ cl.next_fid \in Nat \ {0}
    /\ \A p \in DOMAIN cl.fids : cl.fids[p] \in 0 .. cl.next_fid - 1 /\ Leads(cl.fids[p], p)
    /\ \A t \in Clones : th[t].fid \in 0 .. cl.next_fid - 1 /\ Leads(th[t].fid, th[t].path)
    /\ \A t \in Clones : Walking(t) => Leads(cl.next_fid, th[t].path)
    /\ \A fid \in DOMAIN ss.fids :
         fid < cl.next_fid \/ (fid = cl.next_fid /\ \E t \in Clones : Walking(t))
    /\ 0 \in DOMAIN ss.fids => ss.fids[0] = QidRoot
    /\ Dir \notin fs.open

LibraryOK ==
    /\ Places /\ FidsOK
    /\ \A i \in DOMAIN toServer : \E t \in Clones : th[t].waiting /\ Sent(toServer[i], th[t])

(* a request of a client that speaks 9p itself *)
Short(m) == m.kind = "Walk" => Len(m.content[3]) <= 2
RawOK ==
    /\ IsSeq(toServer) /\ IsSeq(toClient) /\ IsSeq(answered) /\ Len(toServer) <= 1
    /\ \A i \in DOMAIN toServer : Asked(toServer[i]) /\ Short(toServer[i]) /\ Keeps(ss, fs, toServer[i])
    /\ \A t \in Clones : th[t].stage = "idle"
    /\ DOMAIN outstanding \subseteq RawTags
    /\ ss.phase # "ended" => \A tag \in RawTags : InFlight(tag) = IF tag \in DOMAIN outstanding THEN 1 ELSE 0

IInv ==
    /\ SessionOK(ss, fs) /\ LocksOK
    /\ driver = "library" => LibraryOK
    /\ driver # "library" => RawOK

----------------------------------------------------------------------------
(* Sequences.                                                               *)

(* A sequence has a length and values at the places up to it.               *)
LEMMA SeqFacts ==
  ASSUME NEW q, IsSeq(q)
  PROVE  Len(q) \in Nat /\ DOMAIN q = 1 .. Len(q) /\ (q # <<>> <=> Len(q) > 0)
BY DEF IsSeq

(* A sequence of any values is one of its own.                              *)
LEMMA SeqOfItself ==
  ASSUME NEW S, NEW q \in Seq(S)
  PROVE  IsSeq(q)
BY DEF IsSeq

(* One that is longer by a value.                                           *)
LEMMA SeqAppend ==
  ASSUME NEW q, IsSeq(q), NEW e
  PROVE  /\ IsSeq(Append(q, e)) /\ Len(q) \in Nat /\ Len(Append(q, e)) = Len(q) + 1
         /\ DOMAIN q = 1 .. Len(q) /\ DOMAIN Append(q, e) = 1 .. Len(q) + 1
         /\ \A i \in 1 .. Len(q) : Append(q, e)[i] = q[i]
         /\ Append(q, e)[Len(q) + 1] = e
<1> DEFINE S == { q[i] : i \in DOMAIN q } \cup {e}
           r == Append(q, e)
<1>1. q \in Seq(S) /\ e \in S
  BY DEF IsSeq
<1>2. Len(q) \in Nat /\ DOMAIN q = 1 .. Len(q)
  BY <1>1
<1>3. r \in Seq(S) /\ Len(r) = Len(q) + 1 /\ DOMAIN r = 1 .. Len(q) + 1
  BY <1>1
<1>4. (\A i \in 1 .. Len(q) : r[i] = q[i]) /\ r[Len(q) + 1] = e
  BY <1>1
<1>5. IsSeq(r)
  BY ONLY <1>3, SeqOfItself
<1> QED
  BY <1>2, <1>3, <1>4, <1>5

(* What follows the first value.                                            *)
LEMMA SeqTail ==
  ASSUME NEW q, IsSeq(q), q # <<>>
  PROVE  /\ IsSeq(Tail(q)) /\ Len(q) \in Nat \ {0} /\ Len(Tail(q)) = Len(q) - 1
         /\ DOMAIN q = 1 .. Len(q) /\ DOMAIN Tail(q) = 1 .. Len(q) - 1
         /\ \A i \in 1 .. Len(q) - 1 : Tail(q)[i] = q[i + 1] /\ i + 1 \in DOMAIN q
         /\ Head(q) = q[1] /\ 1 \in DOMAIN q
<1> DEFINE S == { q[i] : i \in DOMAIN q }
           r == Tail(q)
<1>1. q \in Seq(S)
  BY DEF IsSeq
<1>2. Len(q) \in Nat \ {0} /\ DOMAIN q = 1 .. Len(q) /\ Head(q) = q[1]
  BY <1>1
<1>3. r \in Seq(S) /\ Len(r) = Len(q) - 1 /\ DOMAIN r = 1 .. Len(q) - 1
  BY <1>1
<1>4. \A i \in 1 .. Len(q) - 1 : r[i] = q[i + 1]
  BY <1>1
<1>5. IsSeq(r)
  BY ONLY <1>3, SeqOfItself
<1> QED
  BY <1>2, <1>3, <1>4, <1>5

(* A sequence of one value at most.                                         *)
LEMMA SeqOne ==
  ASSUME NEW q, IsSeq(q), Len(q) <= 1, NEW e
  PROVE  /\ q # <<>> => Tail(q) = <<>> /\ Len(q) = 1 /\ q[1] = Head(q)
         /\ q = <<>> => Append(q, e) = <<e>> /\ Len(<<e>>) = 1 /\ <<e>>[1] = e /\ Head(<<e>>) = e
         /\ IsSeq(<<e>>) /\ DOMAIN <<e>> = {1} /\ IsSeq(<<>>) /\ Len(<<>>) = 0 /\ DOMAIN <<>> = {}
<1>3. IsSeq(<<e>>) /\ DOMAIN <<e>> = {1} /\ IsSeq(<<>>) /\ Len(<<>>) = 0 /\ DOMAIN <<>> = {}
      /\ Len(<<e>>) = 1 /\ <<e>>[1] = e /\ Head(<<e>>) = e /\ Append(<<>>, e) = <<e>>
  BY DEF IsSeq
<1>1. CASE q # <<>>
  <2>1. PICK r, n : r = Tail(q) /\ n = Len(q)
    OBVIOUS
  <2>2. IsSeq(r) /\ n \in Nat \ {0} /\ Len(r) = n - 1 /\ Head(q) = q[1]
    BY <1>1, <2>1, SeqTail
  <2>3. n = 1 /\ Len(r) = 0
    BY <2>1, <2>2
  <2>4. r = <<>>
    BY <2>2, <2>3, SeqFacts
  <2> QED
    BY ONLY <1>1, <1>3, <2>1, <2>2, <2>3, <2>4
<1>2. CASE q = <<>>
  BY ONLY <1>2, <1>3
<1> QED
  BY <1>1, <1>2

----------------------------------------------------------------------------
(* What a walk reaches.                                                     *)

(* the step from the file that a prefix of the names leads to               *)
Further(f, names, i, before) ==
    IF Len(before) < i \/ FileNamed(f, before[i], names[i]) = {} THEN before
    ELSE Append(before, CHOOSE c \in FileNamed(f, before[i], names[i]) : TRUE)

Upto(f, start, names) ==
    CHOOSE u : u = [i \in 0 .. Len(names) |-> IF i = 0 THEN <<start>>
                     ELSE IF Len(u[i - 1]) < i \/ FileNamed(f, u[i - 1][i], names[i]) = {} THEN u[i - 1]
                     ELSE Append(u[i - 1], CHOOSE c \in FileNamed(f, u[i - 1][i], names[i]) : TRUE)]

(* the files on the way: each is in the one before                          *)
Trail(f, start, names, u) ==
    /\ u \in Seq(Qids) /\ u # <<>> /\ u[1] = start
    /\ \A i \in 1 .. Len(u) - 1 : u[i + 1] \in FileNamed(f, u[i], names[i])

(* A step makes a way longer, or leaves it.                                 *)
LEMMA FurtherTrail ==
  ASSUME NEW f, f.files \subseteq Qids, NEW start \in Qids, NEW names, NEW n \in Nat, NEW u,
         Trail(f, start, names, u), Len(u) <= n, NEW v, v = Further(f, names, n, u)
  PROVE  Trail(f, start, names, v) /\ Len(v) <= n + 1
<1>1. u \in Seq(Qids) /\ Len(u) \in Nat \ {0} /\ DOMAIN u = 1 .. Len(u)
  BY DEF Trail
<1>2. CASE v = u
  BY <1>1, <1>2
<1>3. CASE v # u
  <2>1. PICK S : S = FileNamed(f, u[n], names[n])
    OBVIOUS
  <2>2. PICK c : c \in S /\ v = Append(u, c)
    BY <1>3, <2>1 DEF Further
  <2>3. ~ (Len(u) < n)
    BY <1>3 DEF Further
  <2>4. Len(u) = n
    <3>1. PICK k : k = Len(u)
      OBVIOUS
    <3>2. k \in Nat /\ k <= n /\ ~ (k < n)
      BY <1>1, <2>3, <3>1
    <3> QED
      BY ONLY <3>1, <3>2, n \in Nat
  <2>5. c \in Qids
    BY <2>1, <2>2 DEF FileNamed, Children
  <2>6. /\ v \in Seq(Qids) /\ v # <<>> /\ Len(v) = n + 1 /\ v[n + 1] = c
        /\ \A i \in 1 .. n : v[i] = u[i]
    BY <1>1, <2>2, <2>4, <2>5
  <2>7. v[1] = start
    BY <1>1, <2>4, <2>6 DEF Trail
  <2>8. ASSUME NEW i \in 1 .. Len(v) - 1 PROVE v[i + 1] \in FileNamed(f, v[i], names[i])
    <3>1. CASE i = n
      BY <1>1, <2>1, <2>2, <2>4, <2>6, <3>1
    <3>2. CASE i # n
      <4>1. i \in 1 .. n - 1 /\ i \in 1 .. n /\ i + 1 \in 1 .. n
        BY <2>6, <3>2
      <4>2. u[i + 1] \in FileNamed(f, u[i], names[i])
        BY <2>4, <4>1 DEF Trail
      <4> QED
        BY <2>6, <4>1, <4>2
    <3> QED
      BY <3>1, <3>2
  <2> QED
    BY <2>6, <2>7, <2>8 DEF Trail
<1> QED
  BY <1>2, <1>3

(* The recursion has a solution, and it ends in a way.                      *)
LEMMA UptoTrail ==
  ASSUME NEW f, f.files \subseteq Qids, NEW start \in Qids, NEW names, NEW n \in Nat, n = Len(names)
  PROVE  Trail(f, start, names, Upto(f, start, names)[n]) /\ Len(Upto(f, start, names)[n]) <= n + 1
<1> DEFINE W == Seq(Qids)
           D(u) == [i \in 0 .. n |-> IF i = 0 THEN <<start>>
                     ELSE IF Len(u[i - 1]) < i \/ FileNamed(f, u[i - 1][i], names[i]) = {} THEN u[i - 1]
                     ELSE Append(u[i - 1], CHOOSE c \in FileNamed(f, u[i - 1][i], names[i]) : TRUE)]
           F == [i \in 1 .. n |-> [u \in W |-> Further(f, names, i, u)]]
<1>1. ASSUME NEW i \in 1 .. n, NEW u \in W PROVE Further(f, names, i, u) \in W
  <2>1. PICK S : S = FileNamed(f, u[i], names[i])
    OBVIOUS
  <2>2. S \subseteq Qids
    BY <2>1 DEF FileNamed, Children
  <2>3. S # {} => (CHOOSE c \in S : TRUE) \in S
    OBVIOUS
  <2>4. Further(f, names, i, u) = IF Len(u) < i \/ S = {} THEN u ELSE Append(u, CHOOSE c \in S : TRUE)
    BY <2>1 DEF Further
  <2> QED
    BY ONLY <2>2, <2>3, <2>4, u \in W
<1>2. F \in [1 .. n -> [W -> W]]
  BY ONLY <1>1
<1>3. <<start>> \in W
  OBVIOUS
<1>4. PICK g \in [0 .. n -> W] : g[0] = <<start>> /\ \A k \in 1 .. n : g[k] = F[k][g[k - 1]]
  <2> HIDE DEF F, W
  <2>1. PICK X, v, G : X = W /\ v = <<start>> /\ G = F
    OBVIOUS
  <2>2. v \in X
    BY <1>3, <2>1
  <2>4. G \in [1 .. n -> [X -> X]]
    BY <1>2, <2>1
  <2>3. \E h \in [0 .. n -> X] : h[0] = v /\ \A k \in 1 .. n : h[k] = G[k][h[k - 1]]
    BY ONLY <2>2, <2>4, n \in Nat, RecursionExists, SMTT(30)
  <2> QED
    BY ONLY <2>1, <2>3
<1>5. ASSUME NEW k \in 1 .. n PROVE g[k] = Further(f, names, k, g[k - 1])
  <2> HIDE DEF F
  <2>3. k - 1 \in 0 .. n
    BY ONLY k \in 1 .. n, n \in Nat
  <2>1. g[k - 1] \in W
    BY ONLY <2>3, g \in [0 .. n -> W]
  <2> USE DEF F
  <2>2. F[k][g[k - 1]] = Further(f, names, k, g[k - 1])
    BY <2>1
  <2> QED
    BY <1>4, <2>2
<1>6. g = D(g)
  <2>1. \A k \in 0 .. n : k # 0 => k \in 1 .. n
    OBVIOUS
  <2>2. \A k \in 0 .. n : g[k] = IF k = 0 THEN <<start>> ELSE Further(f, names, k, g[k - 1])
    BY ONLY <1>4, <1>5, <2>1
  <2>3. g = [k \in 0 .. n |-> g[k]]
    BY <1>4
  <2>4. g = [k \in 0 .. n |-> IF k = 0 THEN <<start>> ELSE Further(f, names, k, g[k - 1])]
    BY ONLY <2>2, <2>3
  <2> QED
    BY ONLY <2>4 DEF Further
<1> DEFINE h == CHOOSE u : u = D(u)
<1>7. h = D(h)
  BY ONLY <1>6, ZenonT(40)
<1>8. Upto(f, start, names) = h
  BY DEF Upto
<1> HIDE DEF h
<1>9. h[0] = <<start>> /\ \A i \in 1 .. n : h[i] = Further(f, names, i, h[i - 1])
  <2>1. \A i \in 0 .. n : h[i] = D(h)[i]
    BY ONLY <1>7
  <2>2. 0 \in 0 .. n /\ \A i \in 1 .. n : i \in 0 .. n /\ i # 0
    OBVIOUS
  <2>3. h[0] = <<start>>
    BY ONLY <2>1, <2>2
  <2>4. ASSUME NEW i \in 1 .. n PROVE h[i] = Further(f, names, i, h[i - 1])
    BY ONLY <2>1, <2>2, i \in 1 .. n DEF Further
  <2> QED
    BY ONLY <2>3, <2>4
<1> DEFINE P == { i \in Nat : i <= n => Trail(f, start, names, h[i]) /\ Len(h[i]) <= i + 1 }
<1>10. 0 \in P
  <2>1. PICK u : u = <<start>>
    OBVIOUS
  <2>2. u \in Seq(Qids) /\ u # <<>> /\ Len(u) = 1 /\ u[1] = start
    BY <2>1
  <2>3. \A i \in 1 .. Len(u) - 1 : FALSE
    BY <2>2
  <2>4. Trail(f, start, names, u)
    BY ONLY <2>2, <2>3 DEF Trail
  <2>5. h[0] = u
    BY ONLY <1>9, <2>1
  <2>6. Len(u) <= 0 + 1
    BY ONLY <2>2
  <2> QED
    BY ONLY <2>4, <2>5, <2>6
<1>11. ASSUME NEW i \in Nat, i \in P PROVE i + 1 \in P
  <2>1. CASE i + 1 <= n
    <3>1. i + 1 \in 1 .. n /\ (i + 1) - 1 = i /\ i <= n
      BY <2>1
    <3>2. PICK u, v : u = h[i] /\ v = h[i + 1]
      OBVIOUS
    <3>3. Trail(f, start, names, u) /\ Len(u) <= i + 1
      BY <1>11, <3>1, <3>2
    <3>4. v = Further(f, names, i + 1, u)
      BY <1>9, <3>1, <3>2
    <3>5. PICK k \in Nat : k = i + 1
      OBVIOUS
    <3>6. Trail(f, start, names, v) /\ Len(v) <= k + 1
      BY ONLY <3>3, <3>4, <3>5, f.files \subseteq Qids, start \in Qids, FurtherTrail
    <3> QED
      BY <3>2, <3>5, <3>6
  <2> QED
    BY <2>1
<1>12. n \in P
  <2> HIDE DEF P
  <2>1. Nat \subseteq P
    BY ONLY <1>10, <1>11, SetInduction
  <2> QED
    BY <2>1
<1>13. Trail(f, start, names, h[n]) /\ Len(h[n]) <= n + 1
  BY ONLY <1>12, n \in Nat
<1> QED
  BY ONLY <1>8, <1>13

(* What is reached from the root is the directory by its own path only.     *)
LEMMA TrailEnd ==
  ASSUME NEW f, f.files \subseteq Qids, NEW start, NEW names \in Seq(Names), NEW u, Trail(f, start, names, u),
         start = QidRoot, NEW k \in Nat, Len(u) = k + 1, k = Len(names), u[k + 1] = Dir
  PROVE  names = PathOf(Dir)
<1>1. u \in Seq(Qids) /\ DOMAIN u = 1 .. k + 1 /\ u[1] = QidRoot
  BY DEF Trail
<1>2. k # 0
  BY <1>1 DEF QidRoot, Dir
<1>3. k \in 1 .. k /\ k \in 1 .. Len(u) - 1
  BY <1>2
<1>4. Dir \in FileNamed(f, u[k], names[k])
  BY <1>3 DEF Trail
<1>5. u[k] = QidRoot /\ names[k] = NameOf(Dir)
  BY <1>4 DEF FileNamed, Children, Parent, Dir, NewFile
<1>6. k = 1
  <2>1. SUFFICES ASSUME k # 1 PROVE FALSE
    OBVIOUS
  <2>2. PICK j : j = k - 1
    OBVIOUS
  <2>3. j \in 1 .. Len(u) - 1 /\ j + 1 = k
    BY <1>2, <2>1, <2>2
  <2>4. u[j + 1] \in FileNamed(f, u[j], names[j])
    BY <2>3 DEF Trail
  <2> QED
    BY <1>5, <2>3, <2>4 DEF FileNamed, Children
<1>7. names = <<NameOf(Dir)>>
  <2>1. Len(names) = 1 /\ names[1] = NameOf(Dir)
    BY <1>5, <1>6
  <2> QED
    BY <2>1
<1> QED
  BY <1>7 DEF PathOf, QidRoot, Dir, NewFile

(* The files that are walked, and what the walk ends at.                    *)
LEMMA WalkedFacts ==
  ASSUME NEW f, f.files \subseteq Qids, NEW start \in Qids, NEW names \in Seq(Names),
         NEW walked, walked = Walked(f, start, names)
  PROVE  /\ walked \in Seq(Qids) /\ Range(walked) \subseteq Qids /\ Len(walked) <= Len(names)
         /\ (names # <<>> /\ ~ (Len(walked) < Len(names))) =>
              /\ Last(walked) \in Range(walked) /\ Last(walked) \in Qids
              /\ (start = QidRoot /\ Last(walked) = Dir) => names = PathOf(Dir)
<1>1. PICK n, u : n = Len(names) /\ u = Upto(f, start, names)[n]
  OBVIOUS
<1>2. n \in Nat /\ (names # <<>> => n # 0)
  BY <1>1
<1>20. walked = Tail(u)
  BY <1>1 DEF Walked, Upto
<1>3. Trail(f, start, names, u) /\ Len(u) <= n + 1
  BY <1>1, <1>2, UptoTrail
<1>4. u \in Seq(Qids) /\ Len(u) \in Nat \ {0} /\ walked = Tail(u)
  BY <1>1, <1>3, <1>20 DEF Trail
<1>5. PICK k : k = Len(u) - 1
  OBVIOUS
<1>6. k \in Nat /\ Len(u) = k + 1 /\ k <= n
  BY ONLY <1>2, <1>3, <1>4, <1>5
<1>7. walked \in Seq(Qids) /\ Len(walked) = k /\ \A i \in 1 .. k : walked[i] = u[i + 1]
  BY ONLY <1>4, <1>6
<1>8. Range(walked) \subseteq Qids
  BY <1>7 DEF Range
<1>9. ASSUME names # <<>>, ~ (Len(walked) < Len(names))
      PROVE  /\ Last(walked) \in Range(walked) /\ Last(walked) \in Qids
             /\ (start = QidRoot /\ Last(walked) = Dir) => names = PathOf(Dir)
  <2>1. k = n /\ k \in 1 .. k
    BY ONLY <1>1, <1>2, <1>6, <1>7, <1>9
  <2>2. Last(walked) = walked[k] /\ k \in DOMAIN walked
    BY <1>7, <2>1 DEF Last
  <2>3. Last(walked) \in Range(walked)
    BY <2>2 DEF Range
  <2>4. ASSUME start = QidRoot, Last(walked) = Dir PROVE names = PathOf(Dir)
    <3>1. u[k + 1] = Dir
      BY <1>7, <2>1, <2>2, <2>4
    <3> QED
      BY <1>1, <1>3, <1>6, <2>1, <2>4, <3>1, TrailEnd
  <2> QED
    BY <1>8, <2>3, <2>4
<1> QED
  BY <1>1, <1>6, <1>7, <1>8, <1>9

----------------------------------------------------------------------------
(* What the handlers of a session do.                                       *)

(* the files that fids come to be                                           *)
Derived(s, s2, m) ==
    \A fid \in DOMAIN s2.fids :
        \/ fid \in DOMAIN s.fids /\ s2.fids[fid] = s.fids[fid]
        \/ fid \in DOMAIN s.fids /\ s2.fids[fid] = NewFile /\ s.fids[fid] = Dir
        \/ m.kind = "Attach" /\ fid = m.content[1] /\ s2.fids[fid] = QidRoot
        \/ /\ m.kind = "Walk" /\ fid = m.content[2] /\ m.content[1] \in DOMAIN s.fids
           /\ (s.fids[m.content[1]] = QidRoot /\ s2.fids[fid] = Dir) => m.content[3] = PathOf(Dir)

(* the directory that is opened                                             *)
OpensDir(s, m) == m.kind = "Open" /\ m.content[1] \in DOMAIN s.fids /\ s.fids[m.content[1]] = Dir

Served(s, f, m, o) ==
    /\ SessionOK(o.ss, o.fs) /\ Derived(s, o.ss, m)
    /\ Dir \in o.fs.open => Dir \in f.open \/ OpensDir(s, m)
    /\ (o.kind # "Blocked" /\ Short(m)) => \A tag : Encodable(R(tag, o.kind, o.content))

(* The cache knows what a fid is.                                           *)
LEMMA MetaFacts ==
  ASSUME NEW s, NEW f, SessionOK(s, f), NEW fid
  PROVE  /\ KnownFid(s, fid) <=> fid \in DOMAIN s.fids
         /\ fid \in DOMAIN s.fids => /\ TryFileMeta(s, fid) = FileMeta(s.fids[fid])
                                     /\ TryFileMeta(s, fid).qid = s.fids[fid] /\ s.fids[fid] \in Qids
                                     /\ fid \in Nat
BY DEF SessionOK, KnownFid, TryFileMeta, FileMeta, FidMap

(* What has no strings and no lists can be encoded, and an error can.       *)
LEMMA PlainReply ==
  ASSUME NEW kind \in {"Attach", "Auth", "Flush", "Open", "Create", "Read", "Write", "Clunk", "Remove", "Wstat"},
         NEW content, DOMAIN content \subseteq DOMAIN RFormat[kind], NEW tag
  PROVE  Encodable(R(tag, kind, content))
<1>1. \A i \in DOMAIN RFormat[kind] : RFormat[kind][i] \in {"qid", "u32", "data"}
  BY DEF RFormat
<1>2. R(tag, kind, content).content = content /\ \A i : Format("R", kind)[i] = RFormat[kind][i]
  BY DEF R, Format
<1> QED
  BY <1>1, <1>2 DEF Encodable, FieldFits, R, Format

(* An error has a text that fits.                                           *)
LEMMA ErrorReply ==
  ASSUME NEW ename, ename \in Seq(Nat), Len(ename) <= 2, NEW tag
  PROVE  Encodable(R(tag, "Error", <<ename>>)) /\ \A n : Encodable(R(tag, "Version", <<n, ename>>))
<1>1. RFormat["Error"] = <<"str">> /\ RFormat["Version"] = <<"u32", "str">>
  BY DEF RFormat
<1>2. MaxSizeField \in Nat /\ MaxSizeField >= 26
  BY WireAssumption, ServerAssumption DEF QidBytes
<1>3. FieldFits("str", ename) /\ \A n : FieldFits("u32", n)
  BY <1>2 DEF FieldFits
<1> QED
  BY <1>1, <1>3 DEF Encodable, R, Format

(* A handler that only does something to the files.                         *)
LEMMA SessionKept ==
  ASSUME NEW s, NEW f, SessionOK(s, f), NEW m, NEW o, o.ss = s, NEW f2, f2 = o.fs,
         DOMAIN f2 = FileFields, f2.files \subseteq Qids, f2.open \subseteq Range(s.fids),
         Dir \in f2.open => Dir \in f.open \/ OpensDir(s, m),
         (o.kind # "Blocked" /\ Short(m)) => \A tag : Encodable(R(tag, o.kind, o.content))
  PROVE  Served(s, f, m, o)
<1>1. SessionOK(o.ss, o.fs)
  BY DEF SessionOK
<1> QED
  BY <1>1 DEF Served, Derived

(* A request is refused.                                                    *)
LEMMA RefuseServed ==
  ASSUME NEW s, NEW f, SessionOK(s, f), NEW m, NEW e \in Seq(Nat), Len(e) <= 2, NEW o, o = Refuse(s, f, e)
  PROVE  Served(s, f, m, o)
<1>1. o.ss = s /\ o.fs = f /\ o.kind = "Error" /\ o.content = <<e>>
  BY DEF Refuse, Outcome
<1>2. DOMAIN f = FileFields /\ f.files \subseteq Qids /\ f.open \subseteq Range(s.fids)
  BY DEF SessionOK
<1>3. \A tag : Encodable(R(tag, o.kind, o.content))
  BY <1>1, ErrorReply
<1> QED
  BY <1>1, <1>2, <1>3, SessionKept

(* The texts of errors are short.                                           *)
LEMMA Errors ==
  ASSUME NEW e \in {ENoVersionMessage, EUnattached, EAlreadyAttached, EAuthNotRequired, EDuplicateFid, EUnknownFid,
                    EUnknownRoot, EWalkNonDir, ECreateNonDir, EInvalidOffset, EOffsetTooLarge, EFilesystem}
  PROVE  e \in Seq(Nat) /\ Len(e) <= 2
<1>1. \A n \in Nat : <<n>> \in Seq(Nat) /\ Len(<<n>>) <= 2
  OBVIOUS
<1>2. e \in { <<n>> : n \in 1 .. 12 }
  BY DEF ENoVersionMessage, EUnattached, EAlreadyAttached, EAuthNotRequired, EDuplicateFid, EUnknownFid,
         EUnknownRoot, EWalkNonDir, ECreateNonDir, EInvalidOffset, EOffsetTooLarge, EFilesystem
<1> QED
  BY <1>1, <1>2

(* A walk: the cache learns of the files on the way, and the fid is the     *)
(* last of them.                                                            *)
LEMMA WalkServed ==
  ASSUME NEW s, NEW f, SessionOK(s, f), NEW m, m.kind = "Walk", Asked(m), Keeps(s, f, m),
         NEW fid, fid = m.content[1], NEW new_fid, new_fid = m.content[2], NEW names, names = m.content[3],
         NEW o, o = HandleWalk(s, f, fid, new_fid, names)
  PROVE  Served(s, f, m, o)
<1>1. PICK start, walked : /\ start = TryFileMeta(s, fid).qid
                           /\ walked = Walked(f, start, names)
  OBVIOUS
<1>2. PICK cached : cached = Joined([q \in Range(walked) |-> FileMeta(q)], s.qids)
  OBVIOUS
<1>3. names \in Seq(Names) /\ new_fid \in Nat
  BY DEF Asked
<1>4. o =
    CASE new_fid # fid /\ new_fid \in DOMAIN s.fids -> Refuse(s, f, EDuplicateFid)
      [] (new_fid = fid \/ new_fid \notin DOMAIN s.fids) /\ ~KnownFid(s, fid) -> Refuse(s, f, EUnknownFid)
      [] OTHER ->
            CASE names = <<>> -> Outcome([s EXCEPT !.fids = Bind(@, new_fid, start)], f, "Walk", <<<<>>>>)
              [] names # <<>> /\ TryFileMeta(s, fid).ty = "Regular" -> Refuse(s, f, EWalkNonDir)
              [] names # <<>> /\ TryFileMeta(s, fid).ty # "Regular" ->
                    IF Len(walked) < Len(names) THEN Refuse([s EXCEPT !.qids = cached], f, EFilesystem)
                    ELSE Outcome([s EXCEPT !.qids = cached, !.fids = Bind(@, new_fid, Last(walked))], f,
                                 "Walk", <<[i \in DOMAIN walked |-> AsQid(FileMeta(walked[i]))]>>)
  BY ONLY o = HandleWalk(s, f, fid, new_fid, names), <1>1, <1>2 DEF HandleWalk
<1>5. /\ DOMAIN s = SessionFields /\ DOMAIN f = FileFields /\ f.files \subseteq Qids /\ f.open \subseteq Range(s.fids)
      /\ DOMAIN s.fids \subseteq Nat /\ \A x \in DOMAIN s.fids : s.fids[x] \in Qids /\ s.fids[x] \in DOMAIN s.qids
      /\ DOMAIN s.qids \subseteq Qids /\ QidRoot \in DOMAIN s.qids
      /\ \A q \in DOMAIN s.qids : s.qids[q] = FileMeta(q)
      /\ s.phase = "unattached" => s.fids = <<>>
  BY DEF SessionOK, FidMap
<1>6. o = Refuse(s, f, EDuplicateFid) \/ o = Refuse(s, f, EUnknownFid) \/ o = Refuse(s, f, EWalkNonDir)
        => Served(s, f, m, o)
  BY Errors, RefuseServed
<1>7. ASSUME fid \in DOMAIN s.fids, new_fid = fid \/ new_fid \notin DOMAIN s.fids,
             NEW q \in Qids, NEW h, DOMAIN h \subseteq Qids, q \in DOMAIN h, DOMAIN s.qids \subseteq DOMAIN h,
             \A x \in DOMAIN h : h[x] = FileMeta(x),
             NEW s2, s2 = [s EXCEPT !.qids = h, !.fids = Bind(@, new_fid, q)],
             (start = QidRoot /\ q = Dir) => names = PathOf(Dir)
      PROVE  SessionOK(s2, f) /\ Derived(s, s2, m)
  <2>1. PICK g : g = Bind(s.fids, new_fid, q)
    OBVIOUS
  <2>2. /\ DOMAIN s2 = SessionFields /\ s2.qids = h /\ s2.fids = g /\ s2.phase = s.phase
    BY <1>5, <1>7, <2>1 DEF SessionFields
  <2>3. /\ DOMAIN g = DOMAIN s.fids \cup {new_fid} /\ g[new_fid] = q
        /\ \A x \in DOMAIN s.fids : x # new_fid => g[x] = s.fids[x]
        /\ \A x \in DOMAIN g : (x = new_fid /\ g[x] = q) \/ (x # new_fid /\ x \in DOMAIN s.fids /\ g[x] = s.fids[x])
    <3>1. PICK old : old = s.fids
      OBVIOUS
    <3>2. g = Bind(old, new_fid, q)
      BY <2>1, <3>1
    <3>3. /\ DOMAIN g = DOMAIN old \cup {new_fid} /\ g[new_fid] = q
          /\ \A x \in DOMAIN old : x # new_fid => g[x] = old[x]
          /\ \A x \in DOMAIN g : (x = new_fid /\ g[x] = q) \/ (x # new_fid /\ x \in DOMAIN old /\ g[x] = old[x])
      BY ONLY <3>2 DEF Bind
    <3> QED
      BY ONLY <3>1, <3>3
  <2>4. f.open \subseteq Range(g)
    <3>1. ASSUME NEW x \in f.open PROVE x \in Range(g)
      <4>1. PICK y \in DOMAIN s.fids : s.fids[y] = x
        BY <1>5, <3>1 DEF Range
      <4>2. y # new_fid
        BY <1>7, <4>1, <3>1 DEF Keeps
      <4> QED
        BY <2>3, <4>1, <4>2 DEF Range
    <3> QED
      BY <3>1
  <2>5. FidMap(g) /\ \A x \in DOMAIN g : g[x] \in DOMAIN h
    BY <1>3, <1>5, <1>7, <2>3 DEF FidMap
  <2>6. s.phase # "unattached"
    <3>1. DOMAIN <<>> = {}
      OBVIOUS
    <3> QED
      BY <1>5, <1>7, <3>1
  <2>7. SessionOK(s2, f)
    BY <1>5, <1>7, <2>2, <2>4, <2>5, <2>6 DEF SessionOK
  <2>8. s.fids[fid] = start
    BY <1>1, <1>7, MetaFacts
  <2>9. Derived(s, s2, m)
    BY <1>7, <2>2, <2>3, <2>8 DEF Derived
  <2> QED
    BY <2>7, <2>9
<1>8. CASE fid \in DOMAIN s.fids /\ (new_fid = fid \/ new_fid \notin DOMAIN s.fids)
  <2>1. start \in Qids /\ start \in DOMAIN s.qids /\ KnownFid(s, fid)
    BY <1>1, <1>5, <1>8, MetaFacts
  <2>2. /\ walked \in Seq(Qids) /\ Range(walked) \subseteq Qids /\ Len(walked) <= Len(names)
        /\ (names # <<>> /\ ~ (Len(walked) < Len(names))) =>
              /\ Last(walked) \in Range(walked) /\ Last(walked) \in Qids
              /\ (start = QidRoot /\ Last(walked) = Dir) => names = PathOf(Dir)
    BY ONLY <1>1, <1>3, <1>5, <2>1, WalkedFacts
  <2>3. /\ DOMAIN cached = Range(walked) \cup DOMAIN s.qids /\ DOMAIN cached \subseteq Qids
        /\ \A q \in DOMAIN cached : cached[q] = FileMeta(q)
    <3>1. PICK h : h = [q \in Range(walked) |-> FileMeta(q)]
      OBVIOUS
    <3>2. DOMAIN h = Range(walked) /\ \A q \in DOMAIN h : h[q] = FileMeta(q)
      BY <3>1
    <3>3. PICK g : g = s.qids
      OBVIOUS
    <3>4. DOMAIN h \subseteq Qids
      BY <2>2, <3>2
    <3>5. DOMAIN g \subseteq Qids
      BY <1>5, <3>3
    <3>6. \A q \in DOMAIN g : g[q] = FileMeta(q)
      BY <1>5, <3>3
    <3>7. cached = Joined(h, g)
      BY <1>2, <3>1, <3>3
    <3>8. \A q \in DOMAIN h : h[q] = FileMeta(q)
      BY <3>2
    <3>9. /\ DOMAIN cached = DOMAIN h \cup DOMAIN g /\ DOMAIN cached \subseteq Qids
          /\ \A q \in DOMAIN cached : cached[q] = FileMeta(q)
      BY ONLY <3>4, <3>5, <3>6, <3>7, <3>8 DEF Joined
    <3> QED
      BY ONLY <3>2, <3>3, <3>9
  <2>4. CASE names = <<>>
    <3>1. o = Outcome([s EXCEPT !.fids = Bind(@, new_fid, start)], f, "Walk", <<<<>>>>)
      BY <1>4, <1>8, <2>1, <2>4
    <3>2. [s EXCEPT !.fids = Bind(@, new_fid, start)] = [s EXCEPT !.qids = s.qids, !.fids = Bind(@, new_fid, start)]
      BY <1>5 DEF SessionFields
    <3>3. (start = QidRoot /\ start = Dir) => names = PathOf(Dir)
      BY DEF QidRoot, Dir
    <3>4. PICK s2 : s2 = [s EXCEPT !.qids = s.qids, !.fids = Bind(@, new_fid, start)]
      OBVIOUS
    <3>5. SessionOK(s2, f) /\ Derived(s, s2, m)
      BY <1>5, <1>7, <1>8, <2>1, <3>3, <3>4
    <3>6. o.ss = s2 /\ o.fs = f /\ o.kind = "Walk" /\ o.content = <<<<>>>>
      BY <3>1, <3>2, <3>4 DEF Outcome
    <3>7. \A tag : Encodable(R(tag, "Walk", <<<<>>>>))
      <4>1. NBytes("qids", <<>>) - 2 <= MaxSizeField
        BY WireAssumption DEF NBytes, Width, QidBytes
      <4> QED
        BY <4>1 DEF Encodable, R, Format, RFormat, FieldFits
    <3> QED
      BY <3>5, <3>6, <3>7 DEF Served
  <2>5. CASE names # <<>> /\ TryFileMeta(s, fid).ty = "Regular"
    BY <1>4, <1>6, <1>8, <2>1, <2>5
  <2>6. CASE names # <<>> /\ TryFileMeta(s, fid).ty # "Regular" /\ Len(walked) < Len(names)
    <3>1. PICK s2 : s2 = [s EXCEPT !.qids = cached]
      OBVIOUS
    <3>2. o = Refuse(s2, f, EFilesystem)
      BY <1>4, <1>8, <2>1, <2>6, <3>1
    <3>3. DOMAIN s2 = SessionFields /\ s2.qids = cached /\ s2.fids = s.fids /\ s2.phase = s.phase
      BY <1>5, <3>1 DEF SessionFields
    <3>4. SessionOK(s2, f) /\ Derived(s, s2, m)
      BY <1>5, <2>3, <3>3 DEF SessionOK, FidMap, Derived
    <3>5. Served(s2, f, m, o)
      BY <3>2, <3>4, Errors, RefuseServed
    <3>6. o.ss = s2 /\ o.fs = f
      BY <3>2 DEF Refuse, Outcome
    <3> QED
      BY <3>4, <3>5, <3>6 DEF Served
  <2>7. CASE names # <<>> /\ TryFileMeta(s, fid).ty # "Regular" /\ ~ (Len(walked) < Len(names))
    <3>1. PICK s2, v : /\ s2 = [s EXCEPT !.qids = cached, !.fids = Bind(@, new_fid, Last(walked))]
                       /\ v = [i \in DOMAIN walked |-> AsQid(FileMeta(walked[i]))]
      OBVIOUS
    <3>2. o = Outcome(s2, f, "Walk", <<v>>)
      BY <1>4, <1>8, <2>1, <2>7, <3>1
    <3>3. SessionOK(s2, f) /\ Derived(s, s2, m)
      BY <1>7, <1>8, <2>2, <2>3, <2>7, <3>1
    <3>4. o.ss = s2 /\ o.fs = f /\ o.kind = "Walk" /\ o.content = <<v>>
      BY <3>2 DEF Outcome
    <3>5. ASSUME Short(m) PROVE \A tag : Encodable(R(tag, "Walk", <<v>>))
      <4>1. Len(names) <= 2
        BY <3>5 DEF Short
      <4>2. Len(v) = Len(walked) /\ Len(v) \in Nat
        BY <2>2, <3>1
      <4>3. Len(v) <= 2
        BY <1>3, <2>2, <4>1, <4>2
      <4>4. NBytes("qids", v) - 2 = Len(v) * 13
        BY <4>2 DEF NBytes, Width, QidBytes
      <4>5. NBytes("qids", v) - 2 <= MaxSizeField
        BY <4>2, <4>3, <4>4, WireAssumption, ServerAssumption DEF QidBytes
      <4> QED
        BY <4>5 DEF Encodable, R, Format, RFormat, FieldFits
    <3> QED
      BY <3>3, <3>4, <3>5 DEF Served
  <2> QED
    BY <2>4, <2>5, <2>6, <2>7
<1>9. CASE new_fid # fid /\ new_fid \in DOMAIN s.fids
  BY <1>4, <1>6, <1>9
<1>10. CASE (new_fid = fid \/ new_fid \notin DOMAIN s.fids) /\ fid \notin DOMAIN s.fids
  <2>1. ~ KnownFid(s, fid)
    BY <1>10, MetaFacts
  <2> QED
    BY <1>4, <1>6, <1>10, <2>1
<1> QED
  BY <1>8, <1>9, <1>10

(* A clunk: the fid goes, and what it held open with it.                    *)
LEMMA ClunkServed ==
  ASSUME NEW s, NEW f, SessionOK(s, f), NEW m, NEW fid, NEW o, o = HandleClunk(s, f, fid)
  PROVE  Served(s, f, m, o)
<1>1. CASE fid \notin DOMAIN s.fids
  <2>1. o = Refuse(s, f, EUnknownFid)
    BY <1>1 DEF HandleClunk
  <2> QED
    BY <2>1, Errors, RefuseServed
<1>2. CASE fid \in DOMAIN s.fids
  <2>1. PICK s2, f2, old, new : /\ s2 = [s EXCEPT !.fids = Without(@, fid)] /\ f2 = [f EXCEPT !.open = @ \ {s.fids[fid]}]
                                /\ old = s.fids /\ new = Without(old, fid)
    OBVIOUS
  <2>2. o.ss = s2 /\ o.fs = f2 /\ o.kind = "Clunk" /\ o.content = <<>>
    BY <1>2, <2>1 DEF HandleClunk, Outcome
  <2>3. DOMAIN new = DOMAIN old \ {fid} /\ \A x \in DOMAIN new : new[x] = old[x]
    BY ONLY <2>1 DEF Without, Restrict
  <2>4. DOMAIN s = SessionFields /\ DOMAIN f = FileFields
    BY DEF SessionOK
  <2>5. /\ DOMAIN s2 = SessionFields /\ s2.fids = new /\ s2.qids = s.qids /\ s2.phase = s.phase
        /\ DOMAIN f2 = FileFields /\ f2.files = f.files /\ f2.open = f.open \ {old[fid]}
    BY <2>1, <2>4 DEF SessionFields, FileFields
  <2>6. s.phase # "unattached"
    <3>1. DOMAIN <<>> = {}
      OBVIOUS
    <3> QED
      BY <1>2, <3>1 DEF SessionOK
  <2>7. f2.open \subseteq Range(new)
    <3>1. ASSUME NEW x \in f2.open PROVE x \in Range(new)
      <4>1. PICK y \in DOMAIN old : old[y] = x
        BY <2>1, <2>5, <3>1 DEF SessionOK, Range
      <4>2. y \in DOMAIN new
        BY <2>3, <2>5, <3>1, <4>1
      <4> QED
        BY <2>3, <4>1, <4>2 DEF Range
    <3> QED
      BY <3>1
  <2>8. FidMap(new) /\ \A x \in DOMAIN new : new[x] \in DOMAIN s.qids
    BY <2>1, <2>3 DEF SessionOK, FidMap
  <2>9. SessionOK(s2, f2)
    BY <2>5, <2>6, <2>7, <2>8 DEF SessionOK
  <2>10. Derived(s, s2, m) /\ (Dir \in f2.open => Dir \in f.open)
    BY <2>1, <2>3, <2>5 DEF Derived
  <2>11. \A tag : Encodable(R(tag, "Clunk", <<>>))
    <3>1. DOMAIN <<>> \subseteq DOMAIN RFormat["Clunk"]
      BY DEF RFormat
    <3> QED
      BY <3>1, PlainReply
  <2> QED
    BY <2>2, <2>9, <2>10, <2>11 DEF Served
<1> QED
  BY <1>1, <1>2

(* A stat is asked for: a name of one byte fits.                            *)
LEMMA StatServed ==
  ASSUME NEW s, NEW f, SessionOK(s, f), NEW m, NEW fid, NEW o, o = HandleStat(s, f, fid)
  PROVE  Served(s, f, m, o)
<1>1. PICK q, stat : q = TryFileMeta(s, fid).qid /\ stat = RawStatOf(FsStat(f, q))
  OBVIOUS
<1>2. \/ o = Refuse(s, f, EUnknownFid) \/ o = Refuse(s, f, EFilesystem)
      \/ KnownFid(s, fid) /\ o = Outcome(s, f, "Stat", <<stat.size + 2, stat>>)
  BY <1>1 DEF HandleStat
<1>3. CASE o = Refuse(s, f, EUnknownFid) \/ o = Refuse(s, f, EFilesystem)
  BY <1>3, Errors, RefuseServed
<1>4. CASE o = Outcome(s, f, "Stat", <<stat.size + 2, stat>>)
  <2>1. o.ss = s /\ o.fs = f /\ o.kind = "Stat" /\ o.content = <<stat.size + 2, stat>>
    BY <1>4 DEF Outcome
  <2>2. stat.name = <<97 + q>> /\ stat.uid = <<>> /\ stat.gid = <<>> /\ stat.muid = <<>>
    BY <1>1 DEF RawStatOf, FsStat, NameOf
  <2>3. MaxSizeField \in Nat /\ MaxSizeField >= 26
    BY WireAssumption, ServerAssumption DEF QidBytes
  <2>4. \A x \in {stat.name, stat.uid, stat.gid, stat.muid} : Len(x) <= MaxSizeField
    <3>1. Len(<<97 + q>>) = 1 /\ Len(<<>>) = 0
      OBVIOUS
    <3>2. \A x \in {stat.name, stat.uid, stat.gid, stat.muid} : Len(x) = 1 \/ Len(x) = 0
      BY ONLY <2>2, <3>1
    <3> QED
      BY ONLY <2>3, <3>2
  <2>5. FieldFits("stat", stat) /\ \A n : FieldFits("u16", n)
    BY <2>4 DEF FieldFits
  <2>6. \A tag : Encodable(R(tag, "Stat", <<stat.size + 2, stat>>))
    BY <2>5 DEF Encodable, R, Format, RFormat
  <2>7. DOMAIN f = FileFields /\ f.files \subseteq Qids /\ f.open \subseteq Range(s.fids)
    BY DEF SessionOK
  <2> QED
    BY <2>1, <2>6, <2>7, SessionKept
<1> QED
  BY <1>2, <1>3, <1>4

(* A stat is written: what it does, it does to the text of the file.        *)
LEMMA WstatServed ==
  ASSUME NEW s, NEW f, SessionOK(s, f), NEW m, NEW fid, NEW raw, NEW o, o = HandleWstat(s, f, fid, raw)
  PROVE  Served(s, f, m, o)
<1>1. PICK q, stat, f2 : q = TryFileMeta(s, fid).qid /\ stat = StatOf(raw) /\ f2 = FsWriteStat(f, q, stat.val)
  OBVIOUS
<1>2. \/ o = Refuse(s, f, EUnknownFid) \/ o = Refuse(s, f, EFilesystem)
      \/ o = Outcome(s, f2, "Wstat", <<>>)
  BY <1>1 DEF HandleWstat
<1>3. CASE o = Refuse(s, f, EUnknownFid) \/ o = Refuse(s, f, EFilesystem)
  BY <1>3, Errors, RefuseServed
<1>4. CASE o = Outcome(s, f2, "Wstat", <<>>)
  <2>1. o.ss = s /\ o.fs = f2 /\ o.kind = "Wstat" /\ o.content = <<>>
    BY <1>4 DEF Outcome
  <2>2. DOMAIN f = FileFields /\ f.files \subseteq Qids /\ f.open \subseteq Range(s.fids)
    BY DEF SessionOK
  <2>3. f2 = f \/ f2 = [f EXCEPT !.text[q] = <<>>]
    BY <1>1 DEF FsWriteStat
  <2>4. DOMAIN f2 = FileFields /\ f2.files = f.files /\ f2.open = f.open
    BY <2>2, <2>3 DEF FileFields
  <2>5. \A tag : Encodable(R(tag, "Wstat", <<>>))
    <3>1. DOMAIN <<>> \subseteq DOMAIN RFormat["Wstat"]
      BY DEF RFormat
    <3> QED
      BY <3>1, PlainReply
  <2> QED
    BY <2>1, <2>2, <2>4, <2>5, SessionKept
<1> QED
  BY <1>2, <1>3, <1>4

(* An open: the file is held by the fid.                                    *)
LEMMA OpenServed ==
  ASSUME NEW s, NEW f, SessionOK(s, f), NEW m, m.kind = "Open", NEW fid, fid = m.content[1], NEW mode,
         NEW o, o = HandleOpen(s, f, fid, mode)
  PROVE  Served(s, f, m, o)
<1>1. PICK q, f2, w : /\ q = TryFileMeta(s, fid).qid /\ f2 = [f EXCEPT !.open = @ \cup {q}]
                      /\ w = <<AsQid(TryFileMeta(s, fid)), 0>>
  OBVIOUS
<1>2. \/ o = Refuse(s, f, EUnknownFid) \/ o = Refuse(s, f, EFilesystem)
      \/ KnownFid(s, fid) /\ o = Outcome(s, f2, "Open", w)
  BY <1>1 DEF HandleOpen
<1>3. CASE o = Refuse(s, f, EUnknownFid) \/ o = Refuse(s, f, EFilesystem)
  BY <1>3, Errors, RefuseServed
<1>4. CASE KnownFid(s, fid) /\ o = Outcome(s, f2, "Open", w)
  <2>1. o.ss = s /\ o.fs = f2 /\ o.kind = "Open" /\ o.content = w
    BY <1>4 DEF Outcome
  <2>2. DOMAIN f = FileFields /\ f.files \subseteq Qids /\ f.open \subseteq Range(s.fids)
    BY DEF SessionOK
  <2>3. DOMAIN f2 = FileFields /\ f2.files = f.files /\ f2.open = f.open \cup {q}
    BY <1>1, <2>2 DEF FileFields
  <2>4. fid \in DOMAIN s.fids /\ s.fids[fid] = q
    BY <1>1, <1>4, MetaFacts
  <2>5. f2.open \subseteq Range(s.fids)
    BY <2>2, <2>3, <2>4 DEF Range
  <2>6. Dir \in f2.open => Dir \in f.open \/ OpensDir(s, m)
    BY <2>3, <2>4 DEF OpensDir
  <2>7. \A tag : Encodable(R(tag, "Open", w))
    <3>1. DOMAIN w \subseteq DOMAIN RFormat["Open"]
      BY <1>1 DEF RFormat
    <3> QED
      BY <3>1, PlainReply
  <2> QED
    BY <2>1, <2>2, <2>3, <2>5, <2>6, <2>7, SessionKept
<1> QED
  BY <1>2, <1>3, <1>4

(* The directory is made the new file: the fid denotes it.                  *)
LEMMA CreateServed ==
  ASSUME NEW s, NEW f, SessionOK(s, f), NEW m, m.kind = "Create", Keeps(s, f, m), NEW fid, fid = m.content[1],
         NEW name, NEW mode, NEW o, o = HandleCreate(s, f, fid, name, mode)
  PROVE  Served(s, f, m, o)
<1>1. PICK q, s2, f2, w, old, new, h, g :
         /\ q = TryFileMeta(s, fid).qid /\ w = <<AsQid(FileMeta(NewFile)), 0>>
         /\ s2 = [s EXCEPT !.fids = Bind(@, fid, NewFile), !.qids = Bind(@, NewFile, FileMeta(NewFile))]
         /\ f2 = [f EXCEPT !.files = @ \cup {NewFile}, !.open = @ \cup {NewFile}]
         /\ old = s.fids /\ new = Bind(old, fid, NewFile)
         /\ h = s.qids /\ g = Bind(h, NewFile, FileMeta(NewFile))
  OBVIOUS
<1>2. \/ o = Refuse(s, f, EUnknownFid) \/ o = Refuse(s, f, ECreateNonDir) \/ o = Refuse(s, f, EFilesystem)
      \/ KnownFid(s, fid) /\ q = Dir /\ o = Outcome(s2, f2, "Create", w)
  BY <1>1 DEF HandleCreate
<1>3. CASE o = Refuse(s, f, EUnknownFid) \/ o = Refuse(s, f, ECreateNonDir) \/ o = Refuse(s, f, EFilesystem)
  BY <1>3, Errors, RefuseServed
<1>4. CASE KnownFid(s, fid) /\ q = Dir /\ o = Outcome(s2, f2, "Create", w)
  <2>1. o.ss = s2 /\ o.fs = f2 /\ o.kind = "Create" /\ o.content = w
    BY <1>4 DEF Outcome
  <2>2. fid \in DOMAIN old /\ old[fid] = Dir /\ fid \in Nat
    BY <1>1, <1>4, MetaFacts
  <2>3. /\ DOMAIN new = DOMAIN old /\ new[fid] = NewFile /\ \A x \in DOMAIN old : x # fid => new[x] = old[x]
    BY ONLY <1>1, <2>2 DEF Bind
  <2>4. /\ DOMAIN g = DOMAIN h \cup {NewFile} /\ g[NewFile] = FileMeta(NewFile)
        /\ \A x \in DOMAIN h : x # NewFile => g[x] = h[x]
    BY ONLY <1>1 DEF Bind
  <2>5. DOMAIN s = SessionFields /\ DOMAIN f = FileFields
    BY DEF SessionOK
  <2>6. /\ DOMAIN s2 = SessionFields /\ s2.fids = new /\ s2.qids = g /\ s2.phase = s.phase
        /\ DOMAIN f2 = FileFields /\ f2.files = f.files \cup {NewFile} /\ f2.open = f.open \cup {NewFile}
    BY <1>1, <2>5 DEF SessionFields, FileFields
  <2>7. s.phase # "unattached"
    <3>1. DOMAIN <<>> = {}
      OBVIOUS
    <3> QED
      BY <1>1, <2>2, <3>1 DEF SessionOK
  <2>8. Dir \notin f.open
    BY <1>1, <2>2 DEF Keeps
  <2>9. f2.open \subseteq Range(new)
    <3>1. ASSUME NEW x \in f.open PROVE x \in Range(new)
      <4>1. PICK y \in DOMAIN old : old[y] = x
        BY <1>1, <3>1 DEF SessionOK, Range
      <4>2. y # fid
        BY <2>2, <2>8, <3>1, <4>1
      <4> QED
        BY <2>3, <4>1, <4>2 DEF Range
    <3>2. NewFile \in Range(new)
      BY <2>2, <2>3 DEF Range
    <3> QED
      BY <2>6, <3>1, <3>2
  <2>10. NewFile \in Qids /\ NewFile # Dir
    BY DEF NewFile, Qids, Dir
  <2>11. FidMap(old) /\ \A x \in DOMAIN old : old[x] \in DOMAIN h
    BY <1>1 DEF SessionOK
  <2>12. FidMap(new) /\ \A x \in DOMAIN new : new[x] \in DOMAIN g
    BY <2>3, <2>4, <2>10, <2>11 DEF FidMap
  <2>13. DOMAIN g \subseteq Qids /\ QidRoot \in DOMAIN g /\ \A x \in DOMAIN g : g[x] = FileMeta(x)
    <3>1. DOMAIN h \subseteq Qids /\ QidRoot \in DOMAIN h /\ \A x \in DOMAIN h : h[x] = FileMeta(x)
      BY <1>1 DEF SessionOK
    <3> QED
      BY ONLY <2>4, <2>10, <3>1
  <2>14. f2.files \subseteq Qids
    BY <2>6, <2>10 DEF SessionOK
  <2>15. SessionOK(s2, f2)
    BY <2>6, <2>7, <2>9, <2>12, <2>13, <2>14 DEF SessionOK
  <2>16. Derived(s, s2, m) /\ (Dir \in f2.open => Dir \in f.open)
    BY <1>1, <2>2, <2>3, <2>6, <2>10 DEF Derived
  <2>17. \A tag : Encodable(R(tag, "Create", w))
    <3>1. DOMAIN w \subseteq DOMAIN RFormat["Create"]
      BY <1>1 DEF RFormat
    <3> QED
      BY <3>1, PlainReply
  <2> QED
    BY <2>1, <2>15, <2>16, <2>17 DEF Served
<1> QED
  BY <1>2, <1>3, <1>4

(* A remove: the file goes, and the fid stays.                              *)
LEMMA RemoveServed ==
  ASSUME NEW s, NEW f, SessionOK(s, f), NEW m, NEW fid, NEW o, o = HandleRemove(s, f, fid)
  PROVE  Served(s, f, m, o)
<1>1. PICK q, f2 : q = TryFileMeta(s, fid).qid /\ f2 = [f EXCEPT !.files = @ \ {q}, !.text[q] = <<>>]
  OBVIOUS
<1>2. \/ o = Refuse(s, f, EUnknownFid) \/ o = Refuse(s, f, EFilesystem)
      \/ o = Outcome(s, f2, "Remove", <<>>)
  BY <1>1 DEF HandleRemove
<1>3. CASE o = Refuse(s, f, EUnknownFid) \/ o = Refuse(s, f, EFilesystem)
  BY <1>3, Errors, RefuseServed
<1>4. CASE o = Outcome(s, f2, "Remove", <<>>)
  <2>1. o.ss = s /\ o.fs = f2 /\ o.kind = "Remove" /\ o.content = <<>>
    BY <1>4 DEF Outcome
  <2>2. DOMAIN f = FileFields /\ f.files \subseteq Qids /\ f.open \subseteq Range(s.fids)
    BY DEF SessionOK
  <2>3. DOMAIN f2 = FileFields /\ f2.files = f.files \ {q} /\ f2.open = f.open
    BY <1>1, <2>2 DEF FileFields
  <2>4. f2.files \subseteq Qids
    BY <2>2, <2>3
  <2>5. \A tag : Encodable(R(tag, "Remove", <<>>))
    <3>1. DOMAIN <<>> \subseteq DOMAIN RFormat["Remove"]
      BY DEF RFormat
    <3> QED
      BY <3>1, PlainReply
  <2> QED
    BY <2>1, <2>2, <2>3, <2>4, <2>5, SessionKept
<1> QED
  BY <1>2, <1>3, <1>4

(* A write: the text of one file changes.                                   *)
LEMMA WriteOutcome ==
  ASSUME NEW s, NEW f, SessionOK(s, f), NEW m, NEW q, NEW offset, NEW data,
         NEW o, o = FsWriteOutcome(s, f, q, offset, data)
  PROVE  Served(s, f, m, o)
<1>1. PICK f2, text, w : f2 = FsWrite(f, q, offset, data) /\ w = <<Len(data)>>
                         /\ text = SubSeq(f.text[q], 1, offset) \o data \o Drop(f.text[q], offset + Len(data))
  OBVIOUS
<1>2. o = Refuse(s, f, EFilesystem) \/ o = Outcome(s, f2, "Write", w)
  BY <1>1 DEF FsWriteOutcome
<1>3. CASE o = Refuse(s, f, EFilesystem)
  BY <1>3, Errors, RefuseServed
<1>4. CASE o = Outcome(s, f2, "Write", w)
  <2>1. o.ss = s /\ o.fs = f2 /\ o.kind = "Write" /\ o.content = w
    BY <1>4 DEF Outcome
  <2>2. DOMAIN f = FileFields /\ f.files \subseteq Qids /\ f.open \subseteq Range(s.fids)
    BY DEF SessionOK
  <2>3. f2 = [f EXCEPT !.text[q] = SubSeq(@, 1, offset) \o data \o Drop(@, offset + Len(data))]
    BY <1>1 DEF FsWrite
  <2>4. DOMAIN f2 = FileFields /\ f2.files = f.files /\ f2.open = f.open
    BY <2>2, <2>3 DEF FileFields
  <2>5. \A tag : Encodable(R(tag, "Write", w))
    <3>1. DOMAIN w \subseteq DOMAIN RFormat["Write"]
      BY <1>1 DEF RFormat
    <3> QED
      BY <3>1, PlainReply
  <2> QED
    BY <2>1, <2>2, <2>4, <2>5, SessionKept
<1> QED
  BY <1>2, <1>3, <1>4

(* ... on a thread, and in a task.                                          *)
LEMMA WriteServed ==
  ASSUME NEW s, NEW f, SessionOK(s, f), NEW m, NEW fid, NEW offset, NEW data,
         NEW o, o = HandleWrite(s, f, fid, offset, data) \/ o = HandleWriteAsync(s, f, fid, offset, data)
  PROVE  Served(s, f, m, o)
<1>1. PICK q : q = TryFileMeta(s, fid).qid
  OBVIOUS
<1>2. \/ o = Refuse(s, f, EUnknownFid) \/ o = Refuse(s, f, EOffsetTooLarge)
      \/ o = FsWriteOutcome(s, f, q, offset, data)
  BY <1>1 DEF HandleWrite, HandleWriteAsync
<1>3. CASE o = Refuse(s, f, EUnknownFid) \/ o = Refuse(s, f, EOffsetTooLarge)
  BY <1>3, Errors, RefuseServed
<1>4. CASE o = FsWriteOutcome(s, f, q, offset, data)
  BY <1>4, WriteOutcome
<1> QED
  BY <1>2, <1>3, <1>4

(* A read: the entries of a directory are put in the cache.                 *)
LEMMA ReadServed ==
  ASSUME NEW s, NEW f, SessionOK(s, f), NEW m, NEW fid, NEW offset, NEW count,
         NEW o, o = HandleRead(s, f, fid, offset, count)
  PROVE  Served(s, f, m, o)
<1>1. PICK q, page, entries, s2, w, v :
         /\ q = TryFileMeta(s, fid).qid /\ page = DirPage(DirEntries(f, q), offset, count)
         /\ entries = [c \in Children(f, q) |-> FileMeta(c)] /\ s2 = [s EXCEPT !.qids = Joined(@, entries)]
         /\ w = <<FsRead(f, q, offset, count)>> /\ v = <<page.buf>>
  OBVIOUS
<1>2. \/ o = Refuse(s, f, EUnknownFid) \/ o = Refuse(s, f, EOffsetTooLarge) \/ o = Refuse(s, f, EFilesystem)
      \/ o = Outcome(s, f, "Blocked", <<>>) \/ o = Outcome(s, f, "Read", w)
      \/ o = Refuse(s2, f, EInvalidOffset) \/ o = Outcome(s2, f, "Read", v)
  BY <1>1 DEF HandleRead
<1>3. CASE o = Refuse(s, f, EUnknownFid) \/ o = Refuse(s, f, EOffsetTooLarge) \/ o = Refuse(s, f, EFilesystem)
  BY <1>3, Errors, RefuseServed
<1>4. DOMAIN f = FileFields /\ f.files \subseteq Qids /\ f.open \subseteq Range(s.fids)
  BY DEF SessionOK
<1>5. \A tag : Encodable(R(tag, "Read", w)) /\ Encodable(R(tag, "Read", v))
  <2>1. DOMAIN w \subseteq DOMAIN RFormat["Read"] /\ DOMAIN v \subseteq DOMAIN RFormat["Read"]
    BY <1>1 DEF RFormat
  <2> QED
    BY <2>1, PlainReply
<1>6. CASE o = Outcome(s, f, "Blocked", <<>>) \/ o = Outcome(s, f, "Read", w)
  <2>1. o.ss = s /\ o.fs = f /\ (o.kind # "Blocked" => o.kind = "Read" /\ o.content = w)
    BY <1>6 DEF Outcome
  <2> QED
    BY <1>4, <1>5, <2>1, SessionKept
<1>7. CASE o = Refuse(s2, f, EInvalidOffset) \/ o = Outcome(s2, f, "Read", v)
  <2>1. PICK h, g : h = s.qids /\ g = Joined(h, entries)
    OBVIOUS
  <2>2. DOMAIN entries \subseteq Qids /\ \A x \in DOMAIN entries : entries[x] = FileMeta(x)
    BY <1>1, <1>4 DEF Children
  <2>3. DOMAIN h \subseteq Qids /\ QidRoot \in DOMAIN h /\ \A x \in DOMAIN h : h[x] = FileMeta(x)
    BY <2>1 DEF SessionOK
  <2>4. DOMAIN g = DOMAIN h \cup DOMAIN entries /\ \A x \in DOMAIN g : g[x] = FileMeta(x)
    BY ONLY <2>1, <2>2, <2>3 DEF Joined
  <2>5. DOMAIN s = SessionFields
    BY DEF SessionOK
  <2>6. DOMAIN s2 = SessionFields /\ s2.fids = s.fids /\ s2.qids = g /\ s2.phase = s.phase
    BY <1>1, <2>1, <2>5 DEF SessionFields
  <2>7. \A x \in DOMAIN s.fids : s.fids[x] \in DOMAIN g
    BY <2>1, <2>4 DEF SessionOK
  <2>8. SessionOK(s2, f)
    BY <2>2, <2>3, <2>4, <2>6, <2>7 DEF SessionOK
  <2>9. Derived(s, s2, m)
    BY <2>6 DEF Derived
  <2>10. CASE o = Refuse(s2, f, EInvalidOffset)
    <3>1. Served(s2, f, m, o)
      BY <2>8, <2>10, Errors, RefuseServed
    <3>2. o.ss = s2 /\ o.fs = f
      BY <2>10 DEF Refuse, Outcome
    <3> QED
      BY <2>8, <2>9, <3>1, <3>2 DEF Served
  <2>11. CASE o = Outcome(s2, f, "Read", v)
    <3>1. o.ss = s2 /\ o.fs = f /\ o.kind = "Read" /\ o.content = v
      BY <2>11 DEF Outcome
    <3> QED
      BY <1>5, <2>8, <2>9, <3>1 DEF Served
  <2> QED
    BY <1>7, <2>10, <2>11
<1> QED
  BY <1>2, <1>3, <1>6, <1>7

(* A session that gives up its fids closes what they held.                  *)
LEMMA Cleared ==
  ASSUME NEW s, NEW f, SessionOK(s, f), NEW m, NEW s2, s2 = ClunkAndClear(s, f)[1], NEW f2, f2 = ClunkAndClear(s, f)[2]
  PROVE  /\ SessionOK(s2, f2) /\ Derived(s, s2, m) /\ f2.open = {} /\ f2.files = f.files
         /\ DOMAIN s2 = SessionFields /\ s2.fids = <<>> /\ s2.qids = s.qids /\ s2.phase = s.phase
         /\ DOMAIN f2 = FileFields
<1>1. DOMAIN s = SessionFields /\ DOMAIN f = FileFields
  BY DEF SessionOK
<1>2. s2 = [s EXCEPT !.fids = <<>>] /\ f2 = [f EXCEPT !.open = @ \ Range(s.fids)]
  BY DEF ClunkAndClear
<1>3. /\ DOMAIN s2 = SessionFields /\ s2.fids = <<>> /\ s2.qids = s.qids /\ s2.phase = s.phase
      /\ DOMAIN f2 = FileFields /\ f2.files = f.files /\ f2.open = f.open \ Range(s.fids)
  BY <1>1, <1>2 DEF SessionFields, FileFields
<1>4. f2.open = {}
  BY <1>3 DEF SessionOK
<1>5. DOMAIN <<>> = {}
  OBVIOUS
<1>6. SessionOK(s2, f2)
  BY <1>3, <1>4, <1>5 DEF SessionOK, FidMap
<1>7. Derived(s, s2, m)
  BY <1>3, <1>5 DEF Derived
<1> QED
  BY <1>3, <1>4, <1>6, <1>7

(* The reply to a version message fits.                                     *)
LEMMA VersionReply ==
  ASSUME NEW s, NEW msize, NEW version, NEW tag
  PROVE  Encodable(R(tag, "Version", HandleVersion(s, msize, version)))
<1>1. PICK n, e : n = (IF s.msize < msize THEN s.msize ELSE msize)
                  /\ e = (IF version # Supported THEN Unknown ELSE Supported)
  OBVIOUS
<1>2. HandleVersion(s, msize, version) = <<n, e>>
  BY <1>1 DEF HandleVersion
<1>3. <<57, 80>> \in Seq(Nat) /\ Len(<<57, 80>>) = 2 /\ <<117>> \in Seq(Nat) /\ Len(<<117>>) = 1
  OBVIOUS
<1>4. e \in Seq(Nat) /\ Len(e) <= 2
  BY <1>1, <1>3 DEF Unknown, Supported
<1> QED
  BY <1>2, <1>4, ErrorReply

(* Whatever a client asks for of an attached session, ...                   *)
LEMMA AttachedServed ==
  ASSUME NEW s, NEW f, SessionOK(s, f), NEW m, Asked(m), Keeps(s, f, m),
         NEW o, o = HandleTmessageAttached(s, f, m)
  PROVE  Served(s, f, m, o)
<1>1. PICK c : c = m.content
  OBVIOUS
<1>2. m.kind \in {"Version", "Auth", "Attach", "Flush", "Walk", "Open", "Create", "Read", "Write", "Clunk", "Remove",
                  "Stat", "Wstat"}
  BY DEF Asked, TFormat
<1>3. CASE m.kind \in {"Auth", "Attach"}
  <2>1. o = Refuse(s, f, EAlreadyAttached)
    BY <1>3 DEF HandleTmessageAttached
  <2> QED
    BY <2>1, Errors, RefuseServed
<1>4. CASE m.kind = "Flush"
  <2>1. o = Outcome(s, f, "Flush", <<>>)
    BY <1>4 DEF HandleTmessageAttached
  <2>2. o.ss = s /\ o.fs = f /\ o.kind = "Flush" /\ o.content = <<>>
    BY <2>1 DEF Outcome
  <2>3. DOMAIN f = FileFields /\ f.files \subseteq Qids /\ f.open \subseteq Range(s.fids)
    BY DEF SessionOK
  <2>4. \A tag : Encodable(R(tag, "Flush", <<>>))
    <3>1. DOMAIN <<>> \subseteq DOMAIN RFormat["Flush"]
      BY DEF RFormat
    <3> QED
      BY <3>1, PlainReply
  <2> QED
    BY <2>2, <2>3, <2>4, SessionKept
<1>5. CASE m.kind = "Version"
  <2>1. PICK s2, f2, w : s2 = ClunkAndClear(s, f)[1] /\ f2 = ClunkAndClear(s, f)[2] /\ w = HandleVersion(s, c[1], c[2])
    OBVIOUS
  <2>2. o = Outcome(s2, f2, "Version", w)
    BY <1>1, <1>5, <2>1 DEF HandleTmessageAttached
  <2>3. o.ss = s2 /\ o.fs = f2 /\ o.kind = "Version" /\ o.content = w
    BY <2>2 DEF Outcome
  <2>4. SessionOK(s2, f2) /\ Derived(s, s2, m) /\ f2.open = {}
    BY <2>1, Cleared
  <2>5. \A tag : Encodable(R(tag, "Version", w))
    BY <2>1, VersionReply
  <2> QED
    BY <2>3, <2>4, <2>5 DEF Served
<1>6. CASE m.kind = "Walk"
  <2>1. o = HandleWalk(s, f, c[1], c[2], c[3])
    BY <1>1, <1>6 DEF HandleTmessageAttached
  <2>2. PICK a, b, d : a = m.content[1] /\ b = m.content[2] /\ d = m.content[3]
    OBVIOUS
  <2>3. o = HandleWalk(s, f, a, b, d)
    BY <1>1, <2>1, <2>2
  <2> QED
    BY <1>6, <2>2, <2>3, WalkServed
<1>7. CASE m.kind = "Open"
  <2>1. o = HandleOpen(s, f, c[1], c[2])
    BY <1>1, <1>7 DEF HandleTmessageAttached
  <2>2. PICK a, b : a = m.content[1] /\ b = m.content[2]
    OBVIOUS
  <2>3. o = HandleOpen(s, f, a, b)
    BY <1>1, <2>1, <2>2
  <2> QED
    BY <1>7, <2>2, <2>3, OpenServed
<1>8. CASE m.kind = "Create"
  <2>1. o = HandleCreate(s, f, c[1], c[2], c[4])
    BY <1>1, <1>8 DEF HandleTmessageAttached
  <2>2. PICK a, b, d : a = m.content[1] /\ b = m.content[2] /\ d = m.content[4]
    OBVIOUS
  <2>3. o = HandleCreate(s, f, a, b, d)
    BY <1>1, <2>1, <2>2
  <2> QED
    BY <1>8, <2>2, <2>3, CreateServed
<1>9. CASE m.kind = "Read"
  <2>1. o = HandleRead(s, f, c[1], c[2], c[3])
    BY <1>1, <1>9 DEF HandleTmessageAttached
  <2> QED
    BY <2>1, ReadServed
<1>10. CASE m.kind = "Write"
  <2>1. o = HandleWrite(s, f, c[1], c[2], c[3])
    BY <1>1, <1>10 DEF HandleTmessageAttached
  <2> QED
    BY <2>1, WriteServed
<1>11. CASE m.kind = "Clunk"
  <2>1. o = HandleClunk(s, f, c[1])
    BY <1>1, <1>11 DEF HandleTmessageAttached
  <2> QED
    BY <2>1, ClunkServed
<1>12. CASE m.kind = "Remove"
  <2>1. o = HandleRemove(s, f, c[1])
    BY <1>1, <1>12 DEF HandleTmessageAttached
  <2> QED
    BY <2>1, RemoveServed
<1>13. CASE m.kind = "Stat"
  <2>1. o = HandleStat(s, f, c[1])
    BY <1>1, <1>13 DEF HandleTmessageAttached
  <2> QED
    BY <2>1, StatServed
<1>14. CASE m.kind = "Wstat"
  <2>1. o = HandleWstat(s, f, c[1], c[3])
    BY <1>1, <1>14 DEF HandleTmessageAttached
  <2> QED
    BY <2>1, WstatServed
<1> QED
  BY ONLY <1>2, <1>3, <1>4, <1>5, <1>6, <1>7, <1>8, <1>9, <1>10, <1>11, <1>12, <1>13, <1>14

(* ... and of one that is not attached, which the files do not hear of.     *)
LEMMA UnattachedServed ==
  ASSUME NEW s, NEW f, SessionOK(s, f), s.phase = "unattached", NEW m, Asked(m),
         NEW o, o = HandleTmessageUnattached(s, f, m)
  PROVE  Served(s, f, m, o) /\ o.fs = f /\ o.kind # "Blocked"
<1>1. PICK c, s2, s3, new, w, v :
         /\ c = m.content /\ s2 = [s EXCEPT !.seen_version = (c[2] = Supported)]
         /\ w = HandleVersion(s, c[1], c[2]) /\ new = Bind(<<>>, c[1], QidRoot)
         /\ s3 = [s EXCEPT !.phase = "attached", !.fids = Bind(<<>>, c[1], QidRoot)] /\ v = <<AsQid(s.qids[QidRoot])>>
  OBVIOUS
<1>2. \/ o = Outcome(s2, f, "Version", w)
      \/ o = Refuse(s, f, ENoVersionMessage) \/ o = Refuse(s, f, EAuthNotRequired)
      \/ o = Refuse(s, f, EUnknownRoot) \/ o = Refuse(s, f, EUnattached)
      \/ m.kind = "Attach" /\ o = Outcome(s3, f, "Attach", v)
  BY <1>1 DEF HandleTmessageUnattached
<1>3. CASE \/ o = Refuse(s, f, ENoVersionMessage) \/ o = Refuse(s, f, EAuthNotRequired)
           \/ o = Refuse(s, f, EUnknownRoot) \/ o = Refuse(s, f, EUnattached)
  <2>1. Served(s, f, m, o)
    BY <1>3, Errors, RefuseServed
  <2>2. o.fs = f /\ o.kind = "Error"
    BY <1>3 DEF Refuse, Outcome
  <2> QED
    BY <2>1, <2>2
<1>4. DOMAIN s = SessionFields /\ s.fids = <<>> /\ DOMAIN <<>> = {}
  BY DEF SessionOK
<1>5. CASE o = Outcome(s2, f, "Version", w)
  <2>1. o.ss = s2 /\ o.fs = f /\ o.kind = "Version" /\ o.content = w
    BY <1>5 DEF Outcome
  <2>2. DOMAIN s2 = SessionFields /\ s2.fids = s.fids /\ s2.qids = s.qids /\ s2.phase = s.phase
    BY <1>1, <1>4 DEF SessionFields
  <2>3. SessionOK(s2, f) /\ Derived(s, s2, m)
    BY <2>2 DEF SessionOK, Derived
  <2>4. \A tag : Encodable(R(tag, "Version", w))
    BY <1>1, VersionReply
  <2> QED
    BY <2>1, <2>3, <2>4 DEF Served
<1>6. CASE m.kind = "Attach" /\ o = Outcome(s3, f, "Attach", v)
  <2>1. o.ss = s3 /\ o.fs = f /\ o.kind = "Attach" /\ o.content = v
    BY <1>6 DEF Outcome
  <2>2. DOMAIN s3 = SessionFields /\ s3.fids = new /\ s3.qids = s.qids /\ s3.phase = "attached"
    BY <1>1, <1>4 DEF SessionFields
  <2>3. DOMAIN new = {c[1]} /\ new[c[1]] = QidRoot
    BY ONLY <1>1, <1>4 DEF Bind
  <2>4. c[1] \in Nat /\ QidRoot \in Qids
    BY <1>1, <1>6 DEF Asked, QidRoot, Qids
  <2>5. FidMap(new)
    BY <2>3, <2>4 DEF FidMap
  <2>6. f.open = {}
    BY <1>4 DEF SessionOK, Range
  <2>7. SessionOK(s3, f)
    BY <2>2, <2>3, <2>5, <2>6 DEF SessionOK
  <2>8. Derived(s, s3, m)
    BY <1>1, <1>6, <2>2, <2>3 DEF Derived
  <2>9. \A tag : Encodable(R(tag, "Attach", v))
    <3>1. DOMAIN v \subseteq DOMAIN RFormat["Attach"]
      BY <1>1 DEF RFormat
    <3> QED
      BY <3>1, PlainReply
  <2> QED
    BY <2>1, <2>7, <2>8, <2>9 DEF Served
<1> QED
  BY <1>2, <1>3, <1>5, <1>6

----------------------------------------------------------------------------
(* What the invariant says.                                                 *)

(* The parts of the session invariant are parts of it.                      *)
LEMMA SessionFollows ==
  ASSUME IInv
  PROVE  SessionInv
<1>1. /\ FidMap(ss.fids) /\ DOMAIN ss.qids \subseteq Qids /\ fs.files \subseteq Qids /\ fs.open \subseteq Range(ss.fids)
      /\ \A fid \in DOMAIN ss.fids : ss.fids[fid] \in DOMAIN ss.qids
  BY DEF IInv, SessionOK
<1>2. fs.open \subseteq Qids
  BY <1>1 DEF FidMap, Range
<1>3. TypeOK
  BY <1>1, <1>2 DEF TypeOK, IInv, LocksOK
<1>4. FidsKnown
  BY <1>1 DEF FidsKnown, KnownFid
<1>5. OpenIsHeld
  BY <1>1 DEF OpenIsHeld
<1>6. AnsweredOnce
  BY DEF AnsweredOnce, IInv, RawOK
<1> QED
  BY <1>3, <1>4, <1>5, <1>6 DEF SessionInv

----------------------------------------------------------------------------
(* Counting: how many values of a sequence have a tag.                      *)

(* a number for yes or no *)
One(b) == IF b THEN 1 ELSE 0

(* Places of a sequence are finitely many.                                  *)
LEMMA PlacesFinite ==
  ASSUME NEW n \in Nat, NEW A, A \subseteq 1 .. n
  PROVE  IsFiniteSet(A) /\ Cardinality(A) \in Nat
<1>1. IsFiniteSet(1 .. n)
  BY FS_Interval
<1>2. IsFiniteSet(A)
  BY <1>1, FS_Subset
<1> QED
  BY <1>2, FS_CardinalityType

(* A place more, ...                                                        *)
LEMMA CountAppend ==
  ASSUME NEW n \in Nat, NEW A, A \subseteq 1 .. n, NEW B, B \subseteq 1 .. n + 1,
         \A i \in 1 .. n : i \in B <=> i \in A
  PROVE  Cardinality(A) \in Nat /\ Cardinality(B) = Cardinality(A) + One(n + 1 \in B)
<1>1. IsFiniteSet(A) /\ Cardinality(A) \in Nat
  BY PlacesFinite
<1>4. (\A i \in 1 .. n + 1 : i = n + 1 \/ i \in 1 .. n) /\ (\A i \in 1 .. n : i \in 1 .. n + 1) /\ n + 1 \notin 1 .. n
  BY ONLY n \in Nat
<1>2. CASE n + 1 \in B
  <2>1. B = A \cup {n + 1} /\ n + 1 \notin A
    <3>1. PICK k, S : k = n + 1 /\ S = 1 .. n
      OBVIOUS
    <3>2. \A i \in B : i = k \/ i \in S
      BY <1>4, <3>1
    <3> QED
      BY <1>2, <1>4, <3>1, <3>2
  <2>2. Cardinality(A \cup {n + 1}) = Cardinality(A) + 1
    BY <1>1, <2>1, FS_AddElement
  <2> QED
    BY <1>1, <1>2, <2>1, <2>2 DEF One
<1>3. CASE n + 1 \notin B
  <2>1. B = A
    <3>1. \A i \in 1 .. n + 1 : i # n + 1 => i \in 1 .. n
      OBVIOUS
    <3>2. \A i \in 1 .. n : i \in 1 .. n + 1
      OBVIOUS
    <3> QED
      BY <1>3, <3>1, <3>2
  <2> QED
    BY <1>1, <1>3, <2>1 DEF One
<1> QED
  BY <1>2, <1>3

(* ... and the first place less.                                            *)
LEMMA CountTail ==
  ASSUME NEW n \in Nat \ {0}, NEW A, A \subseteq 1 .. n, NEW B, B \subseteq 1 .. n - 1,
         \A i \in 1 .. n - 1 : i \in B <=> i + 1 \in A
  PROVE  Cardinality(B) \in Nat /\ Cardinality(A) = Cardinality(B) + One(1 \in A)
<1> DEFINE C == A \ {1}
<1>1. n - 1 \in Nat
  OBVIOUS
<1>2. IsFiniteSet(A) /\ Cardinality(A) \in Nat /\ IsFiniteSet(B) /\ Cardinality(B) \in Nat
  BY <1>1, PlacesFinite
<1>3. Cardinality(C) = Cardinality(B) /\ IsFiniteSet(C)
  <2>1. PICK h : h = [i \in B |-> i + 1]
    OBVIOUS
  <2>2. \A i \in B : i \in 1 .. n - 1 /\ i + 1 \in A /\ i + 1 # 1
    OBVIOUS
  <2>3. h \in [B -> C]
    BY <2>1, <2>2
  <2>4. \A i, j \in B : h[i] = h[j] => i = j
    BY <2>1, <2>2
  <2>5. \A c \in C : c - 1 \in B /\ h[c - 1] = c
    <3>1. \A c \in C : c - 1 \in 1 .. n - 1 /\ (c - 1) + 1 = c
      OBVIOUS
    <3> QED
      BY <2>1, <3>1
  <2>6. h \in Bijection(B, C)
    BY <2>3, <2>4, <2>5 DEF Bijection, Injection, Surjection, IsInjective
  <2>7. ExistsBijection(B, C)
    BY <2>6 DEF ExistsBijection
  <2> QED
    BY <1>2, <2>7, FS_Bijection
<1>4. CASE 1 \in A
  <2>1. A = C \cup {1} /\ 1 \notin C
    BY <1>4
  <2>2. Cardinality(C \cup {1}) = Cardinality(C) + 1
    BY <1>3, <2>1, FS_AddElement
  <2>3. One(1 \in A) = 1
    BY <1>4 DEF One
  <2>4. Cardinality(A) = Cardinality(B) + 1
    BY ONLY <1>3, <2>1, <2>2
  <2> QED
    BY ONLY <1>2, <2>3, <2>4
<1>5. CASE 1 \notin A
  <2>1. A = C
    BY <1>5
  <2>2. One(1 \in A) = 0
    BY <1>5 DEF One
  <2>3. Cardinality(A) = Cardinality(B)
    BY ONLY <1>3, <2>1
  <2> QED
    BY ONLY <1>2, <2>2, <2>3
<1> QED
  BY <1>4, <1>5

(* The messages of a tag, and the answers to blocked reads.                 *)
TagsIn(q, tag) == Cardinality({i \in DOMAIN q : q[i].tag = tag})
FirstIn(q, tag) == Cardinality({i \in DOMAIN q : q[i][1] = tag})

(* What is in flight is in one of four places.                              *)
LEMMA InFlightParts ==
  ASSUME NEW tag
  PROVE  /\ InFlight(tag) = TagsIn(toServer, tag) + TagsIn(toClient, tag) + FirstIn(answered, tag) + One(tag \in blocked)
         /\ InFlight(tag)' = TagsIn(toServer', tag) + TagsIn(toClient', tag) + FirstIn(answered', tag) + One(tag \in blocked')
BY DEF InFlight, TagsIn, FirstIn, One

(* None in an empty sequence, ...                                           *)
LEMMA TagsEmpty ==
  ASSUME NEW tag
  PROVE  TagsIn(<<>>, tag) = 0 /\ FirstIn(<<>>, tag) = 0
<1>1. DOMAIN <<>> = {}
  OBVIOUS
<1>2. {i \in DOMAIN <<>> : <<>>[i].tag = tag} = {} /\ {i \in DOMAIN <<>> : <<>>[i][1] = tag} = {}
  BY <1>1
<1> QED
  BY <1>2, FS_EmptySet DEF TagsIn, FirstIn

(* ... one more at the end, ...                                             *)
LEMMA TagsAppend ==
  ASSUME NEW q, IsSeq(q), NEW e, NEW tag
  PROVE  /\ TagsIn(q, tag) \in Nat /\ TagsIn(Append(q, e), tag) = TagsIn(q, tag) + One(e.tag = tag)
         /\ FirstIn(q, tag) \in Nat /\ FirstIn(Append(q, e), tag) = FirstIn(q, tag) + One(e[1] = tag)
<1>1. PICK r, n : r = Append(q, e) /\ n = Len(q)
  OBVIOUS
<1>2. /\ n \in Nat /\ DOMAIN q = 1 .. n /\ DOMAIN r = 1 .. n + 1 /\ r[n + 1] = e
      /\ \A i \in 1 .. n : r[i] = q[i]
  BY <1>1, SeqAppend
<1>3. n + 1 \in 1 .. n + 1 /\ \A i \in 1 .. n : i \in 1 .. n + 1
  BY <1>2
<1>4. PICK A, B : A = {i \in DOMAIN q : q[i].tag = tag} /\ B = {i \in DOMAIN r : r[i].tag = tag}
  OBVIOUS
<1>5. /\ A \subseteq 1 .. n /\ B \subseteq 1 .. n + 1 /\ (n + 1 \in B <=> e.tag = tag)
      /\ \A i \in 1 .. n : i \in B <=> i \in A
  BY ONLY <1>2, <1>3, <1>4
<1>6. Cardinality(A) \in Nat /\ Cardinality(B) = Cardinality(A) + One(n + 1 \in B)
  <2>1. n \in Nat
    BY <1>2
  <2>2. A \subseteq 1 .. n
    BY <1>5
  <2>3. B \subseteq 1 .. n + 1
    BY <1>5
  <2>4. \A i \in 1 .. n : i \in B <=> i \in A
    BY <1>5
  <2> QED
    BY ONLY <2>1, <2>2, <2>3, <2>4, CountAppend
<1>7. PICK C, D : C = {i \in DOMAIN q : q[i][1] = tag} /\ D = {i \in DOMAIN r : r[i][1] = tag}
  OBVIOUS
<1>8. /\ C \subseteq 1 .. n /\ D \subseteq 1 .. n + 1 /\ (n + 1 \in D <=> e[1] = tag)
      /\ \A i \in 1 .. n : i \in D <=> i \in C
  BY ONLY <1>2, <1>3, <1>7
<1>9. Cardinality(C) \in Nat /\ Cardinality(D) = Cardinality(C) + One(n + 1 \in D)
  <2>1. n \in Nat
    BY <1>2
  <2>2. C \subseteq 1 .. n
    BY <1>8
  <2>3. D \subseteq 1 .. n + 1
    BY <1>8
  <2>4. \A i \in 1 .. n : i \in D <=> i \in C
    BY <1>8
  <2> QED
    BY ONLY <2>1, <2>2, <2>3, <2>4, CountAppend
<1> QED
  BY ONLY <1>1, <1>4, <1>5, <1>6, <1>7, <1>8, <1>9 DEF TagsIn, FirstIn, One

(* ... and one less at the front.                                           *)
LEMMA TagsTail ==
  ASSUME NEW q, IsSeq(q), q # <<>>, NEW tag
  PROVE  /\ TagsIn(Tail(q), tag) \in Nat /\ TagsIn(q, tag) = TagsIn(Tail(q), tag) + One(Head(q).tag = tag)
         /\ FirstIn(Tail(q), tag) \in Nat /\ FirstIn(q, tag) = FirstIn(Tail(q), tag) + One(Head(q)[1] = tag)
<1>1. PICK r, n, e : r = Tail(q) /\ n = Len(q) /\ e = Head(q)
  OBVIOUS
<1>2. /\ n \in Nat \ {0} /\ DOMAIN q = 1 .. n /\ DOMAIN r = 1 .. n - 1 /\ q[1] = e /\ 1 \in DOMAIN q
      /\ \A i \in 1 .. n - 1 : r[i] = q[i + 1] /\ i + 1 \in DOMAIN q
  BY <1>1, SeqTail
<1>4. PICK A, B : A = {i \in DOMAIN q : q[i].tag = tag} /\ B = {i \in DOMAIN r : r[i].tag = tag}
  OBVIOUS
<1>5. /\ A \subseteq 1 .. n /\ B \subseteq 1 .. n - 1 /\ (1 \in A <=> e.tag = tag)
      /\ \A i \in 1 .. n - 1 : i \in B <=> i + 1 \in A
  BY ONLY <1>2, <1>4
<1>6. Cardinality(B) \in Nat /\ Cardinality(A) = Cardinality(B) + One(1 \in A)
  <2>1. n \in Nat \ {0}
    BY <1>2
  <2>2. A \subseteq 1 .. n
    BY <1>5
  <2>3. B \subseteq 1 .. n - 1
    BY <1>5
  <2>4. \A i \in 1 .. n - 1 : i \in B <=> i + 1 \in A
    BY <1>5
  <2> QED
    BY ONLY <2>1, <2>2, <2>3, <2>4, CountTail
<1>7. PICK C, D : C = {i \in DOMAIN q : q[i][1] = tag} /\ D = {i \in DOMAIN r : r[i][1] = tag}
  OBVIOUS
<1>8. /\ C \subseteq 1 .. n /\ D \subseteq 1 .. n - 1 /\ (1 \in C <=> e[1] = tag)
      /\ \A i \in 1 .. n - 1 : i \in D <=> i + 1 \in C
  BY ONLY <1>2, <1>7
<1>9. Cardinality(D) \in Nat /\ Cardinality(C) = Cardinality(D) + One(1 \in C)
  <2>1. n \in Nat \ {0}
    BY <1>2
  <2>2. C \subseteq 1 .. n
    BY <1>8
  <2>3. D \subseteq 1 .. n - 1
    BY <1>8
  <2>4. \A i \in 1 .. n - 1 : i \in D <=> i + 1 \in C
    BY <1>8
  <2> QED
    BY ONLY <2>1, <2>2, <2>3, <2>4, CountTail
<1> QED
  BY ONLY <1>1, <1>4, <1>5, <1>6, <1>7, <1>8, <1>9 DEF TagsIn, FirstIn, One

----------------------------------------------------------------------------
(* A step of the server.                                                    *)

(* A message that came is served, at once or when the filesystem answers.   *)
Handled(o) ==
    /\ toServer # <<>> /\ ss.phase # "ended" /\ Served(ss, fs, Head(toServer), o)
    /\ ss' = o.ss /\ fs' = o.fs /\ toServer' = Tail(toServer)
    /\ \/ o.kind = "Blocked" /\ toClient' = toClient /\ blocked' = blocked \cup {Head(toServer).tag}
       \/ o.kind # "Blocked" /\ blocked' = blocked
          /\ toClient' = Reply(toClient, Head(toServer).tag, o.kind, o.content)
    /\ UNCHANGED <<answered, rawVars, clientVars>>

(* What the server finds was asked for by a client that keeps to the        *)
(* protocol.                                                                *)
LEMMA HeadAsked ==
  ASSUME IInv, toServer # <<>>
  PROVE  /\ Asked(Head(toServer)) /\ Keeps(ss, fs, Head(toServer)) /\ IsSeq(toServer)
         /\ driver # "library" => Short(Head(toServer))
<1>1. IsSeq(toServer)
  BY DEF IInv, LibraryOK, Places, RawOK
<1>2. PICK m : m = Head(toServer)
  OBVIOUS
<1>3. 1 \in DOMAIN toServer /\ toServer[1] = m
  BY <1>1, <1>2, SeqTail
<1>4. CASE driver = "library"
  <2>1. LibraryOK
    BY <1>4 DEF IInv
  <2>2. PICK t \in Clones : Sent(m, th[t])
    BY <1>3, <2>1 DEF LibraryOK
  <2>3. Asked(m)
    BY <2>2 DEF Sent
  <2>4. Dir \notin fs.open /\ cl.next_fid # 0
    BY <2>1 DEF LibraryOK, FidsOK
  <2>5. Keeps(ss, fs, m)
    BY <2>2, <2>4 DEF Keeps, Sent
  <2> QED
    BY <1>1, <1>2, <1>4, <2>3, <2>5
<1>5. CASE driver # "library"
  <2>1. RawOK
    BY <1>5 DEF IInv
  <2> QED
    BY <1>1, <1>2, <1>3, <2>1 DEF RawOK
<1> QED
  BY <1>4, <1>5

(* Each of the three loops serves a message.                                *)
LEMMA ServerHandles ==
  ASSUME IInv, HandleConnectionUnattached \/ HandleConnection \/ HandleConnectionAsync, UNCHANGED clientVars
  PROVE  \E o : Handled(o)
<1>1. toServer # <<>>
  BY DEF HandleConnectionUnattached, HandleConnection, HandleConnectionAsync
<1>2. PICK m, s, f : m = Head(toServer) /\ s = ss /\ f = fs
  OBVIOUS
<1>3. SessionOK(s, f) /\ Asked(m) /\ Keeps(s, f, m)
  BY <1>1, <1>2, HeadAsked DEF IInv
<1>4. CASE HandleConnectionUnattached
  <2>1. PICK o : o = HandleTmessageUnattached(s, f, m)
    OBVIOUS
  <2>2. s.phase = "unattached" /\ ss.phase # "ended"
    BY <1>2, <1>4 DEF HandleConnectionUnattached
  <2>3. Served(s, f, m, o) /\ o.fs = f /\ o.kind # "Blocked"
    BY ONLY <1>3, <2>1, <2>2, UnattachedServed
  <2>4. ss' = o.ss /\ toClient' = Reply(toClient, m.tag, o.kind, o.content)
    BY <1>2, <1>4, <2>1 DEF HandleConnectionUnattached
  <2>5. toServer' = Tail(toServer) /\ UNCHANGED <<fs, blocked, answered, rawVars>>
    BY <1>4 DEF HandleConnectionUnattached
  <2>6. Handled(o)
    BY <1>1, <1>2, <2>2, <2>3, <2>4, <2>5 DEF Handled
  <2> QED
    BY <2>6
<1>5. ASSUME NEW o, HandleMessage(o), Served(s, f, m, o) PROVE Handled(o)
  <2>1. ss.phase # "ended" /\ ss' = o.ss /\ fs' = o.fs /\ toServer' = Tail(toServer) /\ UNCHANGED <<answered, rawVars>>
    BY <1>5 DEF HandleMessage
  <2>2. \/ o.kind = "Blocked" /\ toClient' = toClient /\ blocked' = blocked \cup {m.tag}
        \/ o.kind # "Blocked" /\ blocked' = blocked /\ toClient' = Reply(toClient, m.tag, o.kind, o.content)
    BY <1>2, <1>5 DEF HandleMessage
  <2> QED
    BY <1>1, <1>2, <1>5, <2>1, <2>2 DEF Handled
<1>6. CASE HandleConnection
  <2>1. PICK o : o = HandleTmessageAttached(s, f, m)
    OBVIOUS
  <2>2. Served(s, f, m, o)
    BY ONLY <1>3, <2>1, AttachedServed
  <2>3. HandleMessage(o)
    BY <1>2, <1>6, <2>1 DEF HandleConnection
  <2> QED
    BY <1>5, <2>2, <2>3
<1>7. CASE HandleConnectionAsync
  <2>1. PICK a, b, c, o : /\ a = m.content[1] /\ b = m.content[2] /\ c = m.content[3]
                          /\ o = IF m.kind = "Write" THEN HandleWriteAsync(s, f, a, b, c)
                                 ELSE HandleTmessageAttached(s, f, m)
    OBVIOUS
  <2>2. Served(s, f, m, o)
    <3>1. CASE m.kind = "Write"
      <4>1. o = HandleWriteAsync(s, f, a, b, c)
        BY <2>1, <3>1
      <4> QED
        BY <1>3, <4>1, WriteServed
    <3>2. CASE m.kind # "Write"
      <4>1. o = HandleTmessageAttached(s, f, m)
        BY <2>1, <3>2
      <4> QED
        BY ONLY <1>3, <4>1, AttachedServed
    <3> QED
      BY <3>1, <3>2
  <2>3. HandleMessage(o)
    BY <1>2, <1>7, <2>1 DEF HandleConnectionAsync
  <2> QED
    BY <1>5, <2>2, <2>3
<1> QED
  BY <1>4, <1>6, <1>7

(* A reply that can be encoded is sent.                                     *)
LEMMA ReplyFacts ==
  ASSUME NEW q, IsSeq(q), NEW tag, NEW kind, NEW content, NEW q2, q2 = Reply(q, tag, kind, content)
  PROVE  /\ IsSeq(q2) /\ (q2 = q \/ q2 = Append(q, R(tag, kind, content)))
         /\ Encodable(R(tag, kind, content)) => q2 = Append(q, R(tag, kind, content))
         /\ R(tag, kind, content).tag = tag
BY SeqAppend DEF Reply, R

(* The data of a blocked read can be encoded.                               *)
LEMMA DataReply ==
  ASSUME NEW tag, NEW data
  PROVE  Encodable(R(tag, "Read", <<data>>))
<1>1. DOMAIN <<data>> \subseteq DOMAIN RFormat["Read"]
  BY DEF RFormat
<1> QED
  BY <1>1, PlainReply

----------------------------------------------------------------------------
(* A client that speaks 9p itself.                                          *)

(* What a step of the server does to the session, done to the invariant.    *)
LEMMA HandledSession ==
  ASSUME NEW o, Handled(o)
  PROVE  SessionOK(ss', fs')
BY DEF Handled, Served

(* The locks are those of the clones.                                       *)
LEMMA LocksKept ==
  ASSUME LocksOK, UNCHANGED clientVars
  PROVE  LocksOK'
BY DEF LocksOK, clientVars

(* A message more, seen from every tag.                                     *)
LEMMA LongerBy ==
  ASSUME NEW q, IsSeq(q), NEW e, NEW q2, q2 = Append(q, e)
  PROVE  /\ IsSeq(q2)
         /\ \A tag : TagsIn(q2, tag) = TagsIn(q, tag) + One(e.tag = tag) /\ FirstIn(q2, tag) = FirstIn(q, tag) + One(e[1] = tag)
<1>1. IsSeq(q2)
  BY SeqAppend
<1>2. ASSUME NEW tag
      PROVE  TagsIn(q2, tag) = TagsIn(q, tag) + One(e.tag = tag) /\ FirstIn(q2, tag) = FirstIn(q, tag) + One(e[1] = tag)
  BY TagsAppend
<1> QED
  BY <1>1, <1>2

(* A request that is handled is in one place still.                         *)
LEMMA HandledRaw ==
  ASSUME IInv, RawOK, driver # "library", NEW o, Handled(o)
  PROVE  RawOK'
<1>1. PICK m : m = Head(toServer)
  OBVIOUS
<1>2. /\ toServer # <<>> /\ ss.phase # "ended" /\ toServer' = Tail(toServer) /\ answered' = answered
      /\ outstanding' = outstanding /\ th' = th
  BY DEF Handled, rawVars, clientVars
<1>3. IsSeq(toServer) /\ Len(toServer) <= 1 /\ IsSeq(toClient) /\ IsSeq(answered)
  BY DEF RawOK
<1>4. toServer' = <<>>
  BY <1>2, <1>3, SeqOne
<1>5. IsSeq(<<>>) /\ Len(<<>>) = 0 /\ DOMAIN <<>> = {}
  BY DEF IsSeq
<1>6. \/ toClient' = toClient /\ blocked' = blocked \cup {m.tag}
      \/ blocked' = blocked /\ \E r : r.tag = m.tag /\ toClient' = Append(toClient, r)
  <2>1. CASE o.kind = "Blocked"
    BY <1>1, <2>1 DEF Handled
  <2>2. CASE o.kind # "Blocked"
    <3>1. blocked' = blocked /\ toClient' = Reply(toClient, m.tag, o.kind, o.content)
      BY <1>1, <2>2 DEF Handled
    <3>2. Short(m)
      BY <1>1, <1>2, HeadAsked
    <3>3. Encodable(R(m.tag, o.kind, o.content))
      BY <1>1, <2>2, <3>2 DEF Handled, Served
    <3>4. PICK e : e = R(m.tag, o.kind, o.content)
      OBVIOUS
    <3>5. toClient' = Append(toClient, e) /\ e.tag = m.tag
      BY <3>1, <3>3, <3>4 DEF Reply, R
    <3>6. \E r : r.tag = m.tag /\ toClient' = Append(toClient, r)
      BY ONLY <3>5, Zenon
    <3> QED
      BY ONLY <3>1, <3>6
  <2> QED
    BY <2>1, <2>2
<1>7. IsSeq(toClient')
  <2>1. ASSUME NEW r, toClient' = Append(toClient, r) PROVE IsSeq(toClient')
    BY <1>3, <2>1, LongerBy
  <2> QED
    BY <1>3, <1>6, <2>1
<1>8. ASSUME NEW tag \in RawTags PROVE InFlight(tag)' = InFlight(tag)
  <2>1. PICK a, b, c, d, b2, d2 :
          /\ a = TagsIn(toServer, tag) /\ b = TagsIn(toClient, tag) /\ c = FirstIn(answered, tag) /\ d = One(tag \in blocked)
          /\ b2 = TagsIn(toClient', tag) /\ d2 = One(tag \in blocked')
    OBVIOUS
  <2>2. a = One(m.tag = tag)
    <3>1. a = TagsIn(Tail(toServer), tag) + One(m.tag = tag)
      BY <1>1, <1>2, <1>3, <2>1, TagsTail
    <3>2. TagsIn(Tail(toServer), tag) = 0
      BY <1>2, <1>4, TagsEmpty
    <3>3. One(m.tag = tag) \in Nat
      BY DEF One
    <3> QED
      BY ONLY <3>1, <3>2, <3>3
  <2>3. InFlight(tag) = a + b + c + d /\ InFlight(tag)' = 0 + b2 + c + d2
    <3>1. TagsIn(toServer', tag) = 0
      BY <1>4, TagsEmpty
    <3> QED
      BY <1>2, <2>1, <3>1, InFlightParts
  <2>4. b \in Nat /\ c \in Nat /\ d \in Nat
    BY <1>3, <2>1, TagsAppend DEF One
  <2>5. InFlight(tag) <= 1
    BY <1>2 DEF RawOK
  <2>6. CASE toClient' = toClient /\ blocked' = blocked \cup {m.tag}
    <3>1. b2 = b
      BY <2>1, <2>6
    <3>2. m.tag = tag => d = 0
      BY <2>1, <2>2, <2>3, <2>4, <2>5 DEF One
    <3>3. d2 = d + a
      BY <2>1, <2>2, <2>6, <3>2 DEF One
    <3> QED
      BY <2>2, <2>3, <2>4, <3>1, <3>3 DEF One
  <2>7. CASE blocked' = blocked /\ \E r : r.tag = m.tag /\ toClient' = Append(toClient, r)
    <3>1. d2 = d
      BY <2>1, <2>7
    <3>2. PICK r : r.tag = m.tag /\ toClient' = Append(toClient, r)
      BY <2>7
    <3>3. b2 = b + One(r.tag = tag)
      <4>1. PICK q, q2 : q = toClient /\ q2 = toClient'
        OBVIOUS
      <4>2. IsSeq(q) /\ q2 = Append(q, r)
        BY <1>3, <3>2, <4>1
      <4>3. TagsIn(Append(q, r), tag) = TagsIn(q, tag) + One(r.tag = tag)
        BY ONLY <4>2, TagsAppend
      <4> QED
        BY ONLY <2>1, <4>1, <4>2, <4>3
    <3>4. r.tag = m.tag
      BY <3>2
    <3> QED
      BY ONLY <2>2, <2>3, <2>4, <3>1, <3>3, <3>4 DEF One
  <2> QED
    BY <1>6, <2>6, <2>7
<1>9. IsSeq(toServer') /\ Len(toServer') <= 1 /\ (\A i \in DOMAIN toServer' : FALSE)
  BY <1>4, <1>5
<1>10. /\ \A t \in Clones : th'[t].stage = "idle"
       /\ DOMAIN outstanding' \subseteq RawTags
       /\ \A tag \in RawTags : InFlight(tag)' = IF tag \in DOMAIN outstanding' THEN 1 ELSE 0
  BY <1>2, <1>8 DEF RawOK
<1>11. IsSeq(answered')
  BY <1>2, <1>3
<1> QED
  BY <1>7, <1>9, <1>10, <1>11 DEF RawOK

(* An answer of the filesystem takes the place of a read that waited.       *)
LEMMA AnswerRaw ==
  ASSUME RawOK, NEW tag, NEW data, AnswerBlocked(tag, data), UNCHANGED clientVars
  PROVE  RawOK'
<1>1. /\ tag \in blocked /\ blocked' = blocked \ {tag} /\ UNCHANGED <<ss, fs, toServer, answered, outstanding, th>>
  BY DEF AnswerBlocked, rawVars, clientVars
<1>2. IsSeq(toClient)
  BY DEF RawOK
<1>3. PICK r : r = R(tag, "Read", <<data>>)
  OBVIOUS
<1>4. r.tag = tag
  BY <1>3 DEF R
<1>5. toClient' = toClient \/ toClient' = Append(toClient, r)
  BY <1>2, <1>3, ReplyFacts DEF AnswerBlocked
<1>6. ss.phase # "ended" => toClient' = Append(toClient, r)
  <2>1. Encodable(r)
    BY <1>3, DataReply
  <2> QED
    BY <1>3, <2>1 DEF AnswerBlocked, Reply
<1>7. IsSeq(toClient')
  BY <1>2, <1>5, LongerBy
<1>8. ASSUME ss.phase # "ended", NEW x \in RawTags PROVE InFlight(x)' = InFlight(x)
  <2>1. PICK a, b, c, d, b2, d2 :
          /\ a = TagsIn(toServer, x) /\ b = TagsIn(toClient, x) /\ c = FirstIn(answered, x) /\ d = One(x \in blocked)
          /\ b2 = TagsIn(toClient', x) /\ d2 = One(x \in blocked')
    OBVIOUS
  <2>2. InFlight(x) = a + b + c + d /\ InFlight(x)' = a + b2 + c + d2
    BY <1>1, <2>1, InFlightParts
  <2>3. a \in Nat /\ b \in Nat /\ c \in Nat
    BY <2>1, TagsAppend DEF RawOK
  <2>4. b2 = b + One(tag = x)
    BY <1>2, <1>4, <1>6, <1>8, <2>1, LongerBy
  <2>5. d = d2 + One(tag = x) /\ d2 \in Nat
    BY <1>1, <2>1 DEF One
  <2> QED
    BY <2>2, <2>3, <2>4, <2>5 DEF One
<1> QED
  BY <1>1, <1>7, <1>8 DEF RawOK

(* ... tokio: it waits for the loop, ...                                    *)
LEMMA SendBlockedRaw ==
  ASSUME RawOK, NEW tag, NEW data, SendBlocked(tag, data), UNCHANGED clientVars
  PROVE  RawOK'
<1>1. /\ tag \in blocked /\ blocked' = blocked \ {tag} /\ UNCHANGED <<ss, fs, toServer, toClient, outstanding, th>>
  BY DEF SendBlocked, rawVars, clientVars
<1>2. IsSeq(answered)
  BY DEF RawOK
<1>3. PICK r : r = <<tag, data>>
  OBVIOUS
<1>4. r[1] = tag
  BY <1>3
<1>5. answered' = answered \/ answered' = Append(answered, r)
  BY <1>3 DEF SendBlocked
<1>6. ss.phase # "ended" => answered' = Append(answered, r)
  BY <1>3 DEF SendBlocked
<1>7. IsSeq(answered')
  BY <1>2, <1>5, LongerBy
<1>8. ASSUME ss.phase # "ended", NEW x \in RawTags PROVE InFlight(x)' = InFlight(x)
  <2>1. PICK a, b, c, d, c2, d2 :
          /\ a = TagsIn(toServer, x) /\ b = TagsIn(toClient, x) /\ c = FirstIn(answered, x) /\ d = One(x \in blocked)
          /\ c2 = FirstIn(answered', x) /\ d2 = One(x \in blocked')
    OBVIOUS
  <2>2. InFlight(x) = a + b + c + d /\ InFlight(x)' = a + b + c2 + d2
    BY <1>1, <2>1, InFlightParts
  <2>3. a \in Nat /\ b \in Nat /\ c \in Nat
    BY <2>1, TagsAppend DEF RawOK
  <2>4. c2 = c + One(tag = x)
    BY <1>2, <1>4, <1>6, <1>8, <2>1, LongerBy
  <2>5. d = d2 + One(tag = x) /\ d2 \in Nat
    BY <1>1, <2>1 DEF One
  <2> QED
    BY <2>2, <2>3, <2>4, <2>5 DEF One
<1> QED
  BY <1>1, <1>7, <1>8 DEF RawOK

(* ... which sends it.                                                      *)
LEMMA SelectRaw ==
  ASSUME RawOK, SelectBlocked, UNCHANGED clientVars
  PROVE  RawOK'
<1>1. /\ answered # <<>> /\ answered' = Tail(answered) /\ UNCHANGED <<ss, fs, toServer, blocked, outstanding, th>>
  BY DEF SelectBlocked, rawVars, clientVars
<1>2. IsSeq(toClient) /\ IsSeq(answered)
  BY DEF RawOK
<1>3. PICK tag, data, r : tag = Head(answered)[1] /\ data = Head(answered)[2] /\ r = R(tag, "Read", <<data>>)
  OBVIOUS
<1>4. r.tag = tag
  BY <1>3 DEF R
<1>5. toClient' = Append(toClient, r)
  <2>1. Encodable(r)
    BY <1>3, DataReply
  <2> QED
    BY <1>3, <2>1 DEF SelectBlocked, Reply
<1>6. IsSeq(toClient') /\ IsSeq(answered')
  BY <1>1, <1>2, <1>5, LongerBy, SeqTail
<1>7. ASSUME NEW x \in RawTags PROVE InFlight(x)' = InFlight(x)
  <2>1. PICK a, b, c, d, b2, c2 :
          /\ a = TagsIn(toServer, x) /\ b = TagsIn(toClient, x) /\ c = FirstIn(answered, x) /\ d = One(x \in blocked)
          /\ b2 = TagsIn(toClient', x) /\ c2 = FirstIn(answered', x)
    OBVIOUS
  <2>2. InFlight(x) = a + b + c + d /\ InFlight(x)' = a + b2 + c2 + d
    BY <1>1, <2>1, InFlightParts
  <2>3. a \in Nat /\ b \in Nat /\ d \in Nat
    BY <2>1, TagsAppend DEF RawOK, One
  <2>4. b2 = b + One(tag = x)
    <3>1. PICK q, q2 : q = toClient /\ q2 = toClient'
      OBVIOUS
    <3>2. IsSeq(q) /\ q2 = Append(q, r)
      BY <1>2, <1>5, <3>1
    <3>3. TagsIn(Append(q, r), x) = TagsIn(q, x) + One(r.tag = x)
      BY ONLY <3>2, TagsAppend
    <3> QED
      BY ONLY <1>4, <2>1, <3>1, <3>2, <3>3
  <2>5. c = c2 + One(tag = x) /\ c2 \in Nat
    BY <1>1, <1>2, <1>3, <2>1, TagsTail
  <2> QED
    BY <2>2, <2>3, <2>4, <2>5 DEF One
<1> QED
  BY <1>1, <1>2, <1>6, <1>7 DEF RawOK

(* A request is sent: under a tag that is nowhere.                          *)
LEMMA SendRaw ==
  ASSUME RawOK, driver = "raw", RawSend, UNCHANGED clientVars
  PROVE  RawOK'
<1>1. /\ ss.phase # "ended" /\ toServer = <<>> /\ toClient = <<>>
      /\ UNCHANGED <<ss, fs, toClient, blocked, answered, th>>
  BY DEF RawSend, clientVars
<1>2. PICK tag, m : /\ tag \in RawTags \ DOMAIN outstanding /\ m \in RawRequests(tag)
                    /\ Legal(m) /\ toServer' = <<m>> /\ outstanding' = Bind(outstanding, tag, m.kind)
  BY DEF RawSend
<1>3. m.tag = tag /\ Asked(m) /\ Short(m)
  <2>1. \/ /\ m.kind \in {"Version", "Auth", "Flush", "Create", "Read", "Write", "Open", "Wstat", "Clunk", "Remove", "Stat"}
           /\ m.tag = tag
        \/ \E aname \in {<<>>, <<1>>} : m = T(tag, "Attach", <<0, 9, <<>>, aname>>)
        \/ \E fid \in RawFids, p \in WalkPaths : m = T(tag, "Walk", <<fid, 1, p>>)
    BY <1>2 DEF RawRequests, T
  <2>2. CASE m.kind \in {"Version", "Auth", "Flush", "Create", "Read", "Write", "Open", "Wstat", "Clunk", "Remove", "Stat"}
             /\ m.tag = tag
    BY <2>2 DEF Asked, Short, TFormat
  <2>3. CASE \E aname \in {<<>>, <<1>>} : m = T(tag, "Attach", <<0, 9, <<>>, aname>>)
    <3>1. PICK aname, c : c = <<0, 9, <<>>, aname>> /\ m = T(tag, "Attach", c)
      BY <2>3
    <3>2. c[1] = 0
      BY <3>1
    <3>3. m.kind = "Attach" /\ m.tag = tag /\ m.content[1] = 0
      BY <3>1, <3>2 DEF T
    <3> QED
      BY <3>3 DEF Asked, Short, TFormat
  <2>4. CASE \E fid \in RawFids, p \in WalkPaths : m = T(tag, "Walk", <<fid, 1, p>>)
    <3>1. PICK fid, p, c : p \in WalkPaths /\ c = <<fid, 1, p>> /\ m = T(tag, "Walk", c)
      BY <2>4
    <3>2. c[2] = 1 /\ c[3] = p
      BY <3>1
    <3>3. m.kind = "Walk" /\ m.tag = tag /\ m.content[2] = 1 /\ m.content[3] = p
      BY <3>1, <3>2 DEF T
    <3>4. p \in Seq(Names) /\ Len(p) <= 2
      <4>1. \A q \in Qids : NameOf(q) \in Names
        BY DEF NameOf, Names, Qids
      <4>2. \A a, b \in Names : /\ <<>> \in Seq(Names) /\ Len(<<>>) <= 2
                                /\ <<a>> \in Seq(Names) /\ Len(<<a>>) <= 2
                                /\ <<a, b>> \in Seq(Names) /\ Len(<<a, b>>) <= 2
        OBVIOUS
      <4>3. \E a, b \in Names : p = <<>> \/ p = <<a>> \/ p = <<a, b>>
        <5>1. \A q \in {TextFile, Dir, NewFile, LogFile, SinkFile} : q \in Qids
          BY DEF TextFile, Dir, NewFile, LogFile, SinkFile, Qids
        <5>2. PICK a, b : a \in Names /\ b \in Names /\ (p = <<>> \/ p = <<a>> \/ p = <<a, b>>)
          BY <3>1, <4>1, <5>1 DEF WalkPaths
        <5> QED
          BY <5>2
      <4> QED
        BY <4>2, <4>3
    <3> QED
      BY <3>3, <3>4 DEF Asked, Short, TFormat
  <2> QED
    BY <2>1, <2>2, <2>3, <2>4
<1>4. Keeps(ss, fs, m)
  BY <1>2 DEF Legal, Keeps
<1>5. IsSeq(<<m>>) /\ Len(<<m>>) = 1 /\ DOMAIN <<m>> = {1} /\ <<m>>[1] = m
  BY DEF IsSeq
<1>6. /\ IsSeq(toServer') /\ Len(toServer') <= 1
      /\ \A i \in DOMAIN toServer' : Asked(toServer'[i]) /\ Short(toServer'[i]) /\ Keeps(ss', fs', toServer'[i])
  <2>1. \A i \in DOMAIN <<m>> : <<m>>[i] = m
    BY <1>5
  <2>2. ss' = ss /\ fs' = fs /\ toServer' = <<m>>
    BY <1>1, <1>2
  <2> QED
    BY ONLY <1>3, <1>4, <1>5, <2>1, <2>2
<1>7. DOMAIN outstanding' = DOMAIN outstanding \cup {tag}
  BY <1>2 DEF Bind
<1>8. ASSUME NEW x \in RawTags PROVE InFlight(x)' = IF x \in DOMAIN outstanding' THEN 1 ELSE 0
  <2>1. PICK a, b, c, d : /\ a = TagsIn(toServer, x) /\ b = TagsIn(toClient, x) /\ c = FirstIn(answered, x)
                          /\ d = One(x \in blocked)
    OBVIOUS
  <2>2. InFlight(x) = a + b + c + d /\ InFlight(x)' = TagsIn(<<m>>, x) + b + c + d
    BY <1>1, <1>2, <2>1, InFlightParts
  <2>3. a = 0 /\ b \in Nat /\ c \in Nat /\ d \in Nat
    BY <1>1, <2>1, TagsAppend, TagsEmpty DEF RawOK, One
  <2>4. TagsIn(<<m>>, x) = One(m.tag = x)
    <3>1. PICK q, r : q = <<>> /\ r = Append(q, m)
      OBVIOUS
    <3>2. IsSeq(q) /\ <<m>> = r
      BY <3>1 DEF IsSeq
    <3>3. TagsIn(Append(q, m), x) = TagsIn(q, x) + One(m.tag = x)
      BY ONLY <3>2, TagsAppend
    <3>4. TagsIn(r, x) = TagsIn(q, x) + One(m.tag = x)
      BY <3>1, <3>3
    <3>5. TagsIn(q, x) = 0 /\ One(m.tag = x) \in Nat
      BY <3>1, TagsEmpty DEF One
    <3> QED
      BY <3>2, <3>4, <3>5
  <2>5. InFlight(x) = IF x \in DOMAIN outstanding THEN 1 ELSE 0
    BY <1>1 DEF RawOK
  <2> QED
    BY ONLY <1>2, <1>3, <1>7, <2>2, <2>3, <2>4, <2>5 DEF One
<1>9. DOMAIN outstanding' \subseteq RawTags
  BY <1>2, <1>7 DEF RawOK
<1> QED
  BY <1>1, <1>6, <1>8, <1>9 DEF RawOK

(* A reply is received: its tag is free.                                    *)
LEMMA ReceiveRaw ==
  ASSUME RawOK, RawReceive, UNCHANGED clientVars
  PROVE  RawOK'
<1>1. /\ toClient # <<>> /\ toClient' = Tail(toClient)
      /\ UNCHANGED <<ss, fs, toServer, blocked, answered, th>>
  BY DEF RawReceive, clientVars
<1>2. PICK tag : tag = Head(toClient).tag
  OBVIOUS
<1>3. DOMAIN outstanding' = DOMAIN outstanding \ {tag}
  BY <1>2 DEF RawReceive, Without, Restrict
<1>4. IsSeq(toClient) /\ IsSeq(toClient')
  BY <1>1, SeqTail DEF RawOK
<1>5. ASSUME ss.phase # "ended", NEW x \in RawTags PROVE InFlight(x)' = IF x \in DOMAIN outstanding' THEN 1 ELSE 0
  <2>1. PICK a, b, c, d, b2 : /\ a = TagsIn(toServer, x) /\ b = TagsIn(toClient, x) /\ c = FirstIn(answered, x)
                              /\ d = One(x \in blocked) /\ b2 = TagsIn(toClient', x)
    OBVIOUS
  <2>2. InFlight(x) = a + b + c + d /\ InFlight(x)' = a + b2 + c + d
    BY <1>1, <2>1, InFlightParts
  <2>3. a \in Nat /\ c \in Nat /\ d \in Nat
    BY <2>1, TagsAppend DEF RawOK, One
  <2>4. b = b2 + One(tag = x) /\ b2 \in Nat
    BY <1>1, <1>2, <1>4, <2>1, TagsTail
  <2>5. InFlight(x) = IF x \in DOMAIN outstanding THEN 1 ELSE 0
    BY <1>5 DEF RawOK
  <2> QED
    BY ONLY <1>3, <2>2, <2>3, <2>4, <2>5 DEF One
<1>6. DOMAIN outstanding' \subseteq RawTags
  BY <1>3 DEF RawOK
<1> QED
  BY <1>1, <1>4, <1>5, <1>6 DEF RawOK

(* The connection is closed.                                                *)
LEMMA DisconnectedRaw ==
  ASSUME RawOK, SessionOK(ss, fs), Disconnected, UNCHANGED clientVars
  PROVE  RawOK' /\ SessionOK(ss', fs')
<1>1. PICK s2, f2 : s2 = ClunkAndClear(ss, fs)[1] /\ f2 = ClunkAndClear(ss, fs)[2]
  OBVIOUS
<1>2. /\ toServer = <<>> /\ toServer' = toServer /\ toClient' = <<>> /\ answered' = <<>> /\ outstanding' = <<>>
      /\ ss' = [s2 EXCEPT !.phase = "ended"] /\ fs' = f2 /\ th' = th
  BY <1>1 DEF Disconnected, clientVars
<1>3. PICK s, f, m : s = ss /\ f = fs /\ m = T(0, "Clunk", <<>>)
  OBVIOUS
<1>4. SessionOK(s, f) /\ s2 = ClunkAndClear(s, f)[1] /\ f2 = ClunkAndClear(s, f)[2]
  BY <1>1, <1>3
<1>5. SessionOK(s2, f2) /\ DOMAIN s2 = SessionFields
  BY ONLY <1>4, Cleared
<1>6. PICK s3 : s3 = ss'
  OBVIOUS
<1>7. DOMAIN s3 = SessionFields /\ s3.fids = s2.fids /\ s3.qids = s2.qids /\ s3.phase = "ended"
  BY <1>2, <1>5, <1>6 DEF SessionFields
<1>8. SessionOK(s3, f2)
  BY <1>5, <1>7 DEF SessionOK
<1>9. IsSeq(<<>>) /\ Len(<<>>) = 0 /\ DOMAIN <<>> = {}
  BY DEF IsSeq
<1>10. RawOK'
  BY <1>2, <1>6, <1>7, <1>9 DEF RawOK
<1> QED
  BY <1>2, <1>6, <1>8, <1>10

----------------------------------------------------------------------------
(* The library, in a step of the server.                                    *)

(* Only one clone waits.                                                    *)
LEMMA OneWaits ==
  ASSUME LocksOK, NEW t \in Clones, NEW u \in Clones, th[t].waiting, th[u].waiting
  PROVE  t = u /\ stream_lock = t /\ stream_lock # NoClone
BY ClientAssumption DEF LocksOK

(* A fid comes to be what the clone that waits has walked to.               *)
LEMMA HandledFids ==
  ASSUME CreatesUnopened, LocksOK, LibraryOK, NEW o, Handled(o)
  PROVE  FidsOK'
<1>1. PICK m, s2 : m = Head(toServer) /\ s2 = o.ss
  OBVIOUS
<1>2. /\ toServer # <<>> /\ ss' = s2 /\ fs' = o.fs /\ cl' = cl /\ th' = th
      /\ Derived(ss, s2, m) /\ (Dir \in o.fs.open => Dir \in fs.open \/ OpensDir(ss, m))
  BY <1>1 DEF Handled, Served, clientVars
<1>3. 1 \in DOMAIN toServer /\ toServer[1] = m
  BY <1>1, <1>2, SeqTail DEF LibraryOK, Places
<1>4. PICK t \in Clones : th[t].waiting /\ Sent(m, th[t])
  BY <1>3 DEF LibraryOK
<1>5. FidsOK
  BY DEF LibraryOK
<1>6. QidRoot # Dir /\ NewFile # Dir
  BY DEF QidRoot, Dir, NewFile
<1>7. PICK next : next = cl.next_fid
  OBVIOUS
<1>8. next \in Nat \ {0}
  BY <1>5, <1>7 DEF FidsOK
<1>9. ASSUME NEW fid \in DOMAIN s2.fids
      PROVE  \/ fid \in DOMAIN ss.fids /\ s2.fids[fid] = ss.fids[fid]
             \/ fid \in DOMAIN ss.fids /\ s2.fids[fid] = NewFile /\ ss.fids[fid] = Dir
             \/ fid = 0 /\ s2.fids[fid] = QidRoot
             \/ fid = next /\ Walking(t) /\ (s2.fids[fid] = Dir => th[t].path = PathOf(Dir))
  <2>1. \/ fid \in DOMAIN ss.fids /\ s2.fids[fid] = ss.fids[fid]
        \/ fid \in DOMAIN ss.fids /\ s2.fids[fid] = NewFile /\ ss.fids[fid] = Dir
        \/ m.kind = "Attach" /\ fid = m.content[1] /\ s2.fids[fid] = QidRoot
        \/ /\ m.kind = "Walk" /\ fid = m.content[2] /\ m.content[1] \in DOMAIN ss.fids
           /\ (ss.fids[m.content[1]] = QidRoot /\ s2.fids[fid] = Dir) => m.content[3] = PathOf(Dir)
    BY <1>2 DEF Derived
  <2>2. CASE m.kind = "Attach" /\ fid = m.content[1] /\ s2.fids[fid] = QidRoot
    BY <1>4, <2>2 DEF Sent
  <2>3. CASE /\ m.kind = "Walk" /\ fid = m.content[2] /\ m.content[1] \in DOMAIN ss.fids
             /\ (ss.fids[m.content[1]] = QidRoot /\ s2.fids[fid] = Dir) => m.content[3] = PathOf(Dir)
    <3>1. th[t].stage = "walk" /\ m.content[1] = 0 /\ fid = next /\ m.content[3] = th[t].path
      BY <1>4, <1>7, <2>3 DEF Sent
    <3>2. ss.fids[0] = QidRoot
      BY <1>5, <2>3, <3>1 DEF FidsOK
    <3> QED
      BY <1>4, <2>3, <3>1, <3>2 DEF Walking
  <2> QED
    BY <2>1, <2>2, <2>3
<1>10. ASSUME NEW fid, NEW path, fid # next, Leads(fid, path) PROVE Leads(fid, path)'
  BY <1>2, <1>6, <1>9, <1>10 DEF Leads
<1>11. \A p \in DOMAIN cl.fids : cl.fids[p] \in 0 .. next - 1 /\ Leads(cl.fids[p], p)'
  <2>1. ASSUME NEW p \in DOMAIN cl.fids PROVE cl.fids[p] \in 0 .. next - 1 /\ Leads(cl.fids[p], p)'
    <3>1. PICK fid : fid = cl.fids[p]
      OBVIOUS
    <3>2. fid \in 0 .. next - 1 /\ Leads(fid, p)
      BY <1>5, <1>7, <3>1 DEF FidsOK
    <3>3. fid # next
      BY <1>8, <3>2
    <3>4. Leads(fid, p)'
      BY <1>10, <3>2, <3>3
    <3>5. cl.fids[p] = fid /\ cl'.fids[p] = fid
      BY <1>2, <3>1
    <3> QED
      BY <1>2, <3>2, <3>4, <3>5 DEF Leads
  <2> QED
    BY <2>1
<1>12. \A u \in Clones : th[u].fid \in 0 .. next - 1 /\ Leads(th[u].fid, th[u].path)'
  <2>1. ASSUME NEW u \in Clones PROVE th[u].fid \in 0 .. next - 1 /\ Leads(th[u].fid, th[u].path)'
    <3>1. PICK fid, p : fid = th[u].fid /\ p = th[u].path
      OBVIOUS
    <3>2. fid \in 0 .. next - 1 /\ Leads(fid, p)
      BY <1>5, <1>7, <3>1 DEF FidsOK
    <3>3. fid # next
      BY <1>8, <3>2
    <3>4. Leads(fid, p)'
      BY <1>10, <3>2, <3>3
    <3> QED
      BY <1>2, <3>1, <3>2, <3>4 DEF Leads
  <2> QED
    BY <2>1
<1>13. \A u \in Clones : Walking(u) => Leads(next, th[u].path)'
  <2>1. ASSUME NEW u \in Clones, Walking(u), next \in DOMAIN s2.fids, s2.fids[next] = Dir PROVE th[u].path = PathOf(Dir)
    <3>1. u = t
      BY <1>4, <2>1, OneWaits DEF Walking
    <3>2. (next \in DOMAIN ss.fids /\ ss.fids[next] = Dir) => th[u].path = PathOf(Dir)
      BY <1>5, <1>7, <2>1 DEF FidsOK, Leads
    <3> QED
      BY <1>6, <1>8, <1>9, <2>1, <3>1, <3>2
  <2> QED
    BY <1>2, <2>1 DEF Leads
<1>14. \A fid \in DOMAIN s2.fids : fid < next \/ (fid = next /\ \E u \in Clones : Walking(u))
  <2>1. ASSUME NEW fid \in DOMAIN s2.fids PROVE fid < next \/ (fid = next /\ \E u \in Clones : Walking(u))
    <3>1. CASE fid \in DOMAIN ss.fids
      BY <1>5, <1>7, <3>1 DEF FidsOK
    <3>2. CASE fid = 0
      BY <1>8, <3>2
    <3>3. CASE fid = next /\ Walking(t)
      BY <3>3
    <3> QED
      BY <1>9, <3>1, <3>2, <3>3
  <2> QED
    BY <2>1
<1>15. 0 \in DOMAIN s2.fids => s2.fids[0] = QidRoot
  BY <1>5, <1>6, <1>8, <1>9 DEF FidsOK
<1>16. Dir \notin o.fs.open
  <2>1. SUFFICES ASSUME OpensDir(ss, m) PROVE FALSE
    BY <1>2, <1>5 DEF FidsOK
  <2>2. PICK w : w = th[t]
    OBVIOUS
  <2>3. w.stage \in {"open", "open_iter"} /\ m.content[1] = w.fid
    BY <1>4, <2>1, <2>2 DEF Sent, OpensDir
  <2>4. w.path = PathOf(Dir)
    BY <1>5, <2>1, <2>2, <2>3 DEF OpensDir, FidsOK, Leads
  <2>5. ThreadOK(w)
    BY <2>2 DEF LocksOK
  <2>6. PICK x \in Ops : w.op = x[1] /\ w.path = x[2]
    BY <2>3, <2>5 DEF ThreadOK, Named
  <2>7. w.op \in Opening
    BY <2>3, <2>5 DEF ThreadOK, Opening
  <2> QED
    BY <2>4, <2>6, <2>7 DEF CreatesUnopened
<1>17. Walking(t)' <=> Walking(t)
  BY <1>2 DEF Walking
<1>18. \A u \in Clones : Walking(u)' <=> Walking(u)
  BY <1>2 DEF Walking
<1>19. DOMAIN cl = ClientFields
  BY <1>5 DEF FidsOK
<1> QED
  BY <1>2, <1>7, <1>8, <1>11, <1>12, <1>13, <1>14, <1>15, <1>16, <1>18, <1>19 DEF FidsOK

(* A sequence of one value at most.                                         *)
LEMMA OneAtMost ==
  ASSUME NEW q, q = <<>> \/ \E r : q = <<r>>
  PROVE  IsSeq(q) /\ Len(q) <= 1
<1>1. CASE q = <<>>
  BY <1>1 DEF IsSeq
<1>2. CASE \E r : q = <<r>>
  BY <1>2 DEF IsSeq
<1> QED
  BY <1>1, <1>2

(* What is between the clone that waits and the server moves on.            *)
LEMMA HandledLibrary ==
  ASSUME CreatesUnopened, LocksOK, LibraryOK, NEW o, Handled(o)
  PROVE  LibraryOK'
<1>1. FidsOK'
  BY HandledFids
<1>2. PICK tag : tag = Head(toServer).tag
  OBVIOUS
<1>3. Places
  BY DEF LibraryOK
<1>4. /\ toServer # <<>> /\ toServer' = Tail(toServer) /\ answered' = answered /\ stream_lock' = stream_lock
  BY DEF Handled, clientVars
<1>5. toServer' = <<>>
  BY <1>3, <1>4, SeqOne DEF Places
<1>6. toClient = <<>> /\ blocked = {} /\ answered = <<>> /\ stream_lock # NoClone
  BY <1>3, <1>4 DEF Places
<1>7. IsSeq(<<>>) /\ Len(<<>>) = 0 /\ DOMAIN <<>> = {}
  BY DEF IsSeq
<1>8. \/ toClient' = toClient /\ blocked' = blocked \cup {tag}
      \/ blocked' = blocked /\ (toClient' = <<>> \/ \E r : toClient' = <<r>>)
  BY <1>2, <1>6 DEF Handled, Reply
<1>9. IsSeq(toClient') /\ Len(toClient') <= 1
  <2>1. toClient' = <<>> \/ \E r : toClient' = <<r>>
    BY <1>6, <1>8
  <2> QED
    BY ONLY <2>1, OneAtMost
<1>11. (\A x, y \in blocked' : x = y) /\ (toClient' # <<>> => blocked' = {})
  BY <1>6, <1>8
<1>12. answered' = <<>> /\ IsSeq(toServer') /\ Len(toServer') <= 1 /\ IsSeq(answered') /\ Len(answered') <= 1
  <2>1. answered' = <<>> /\ toServer' = <<>>
    BY <1>4, <1>5, <1>6
  <2>2. IsSeq(toServer') /\ Len(toServer') <= 1
    BY ONLY <2>1, OneAtMost
  <2>3. IsSeq(answered') /\ Len(answered') <= 1
    BY ONLY <2>1, OneAtMost
  <2> QED
    BY <2>1, <2>2, <2>3
<1>10. Places'
  BY <1>4, <1>5, <1>6, <1>9, <1>11, <1>12 DEF Places
<1> QED
  BY <1>1, <1>5, <1>7, <1>10 DEF LibraryOK

(* The fids are the library's and the session's: an answer of the           *)
(* filesystem leaves them alone.                                            *)
LEMMA FidsKept ==
  ASSUME FidsOK, UNCHANGED <<ss, fs, cl, th>>
  PROVE  FidsOK'
BY DEF FidsOK, Leads, Walking

(* The filesystem answers, ...                                              *)
LEMMA AnswerLibrary ==
  ASSUME LibraryOK, NEW tag, NEW data, AnswerBlocked(tag, data) \/ SendBlocked(tag, data), UNCHANGED clientVars
  PROVE  LibraryOK'
<1>1. /\ tag \in blocked /\ blocked' = blocked \ {tag} /\ UNCHANGED <<ss, fs, toServer, cl, th, stream_lock>>
  BY DEF AnswerBlocked, SendBlocked, clientVars
<1>2. Places /\ FidsOK
  BY DEF LibraryOK
<1>3. toServer = <<>> /\ toClient = <<>> /\ answered = <<>> /\ stream_lock # NoClone /\ blocked' = {}
  BY <1>1, <1>2 DEF Places
<1>4. IsSeq(<<>>) /\ Len(<<>>) = 0 /\ DOMAIN <<>> = {}
  BY DEF IsSeq
<1>5. \/ answered' = answered /\ (toClient' = toClient \/ \E r : toClient' = <<r>>)
      \/ toClient' = toClient /\ (answered' = answered \/ \E r : answered' = <<r>>)
  BY <1>3 DEF AnswerBlocked, SendBlocked, Reply
<1>6. /\ IsSeq(toClient') /\ Len(toClient') <= 1 /\ IsSeq(answered') /\ Len(answered') <= 1
      /\ toClient' # <<>> => answered' = <<>>
  <2>1. /\ toClient' = <<>> \/ \E r : toClient' = <<r>>
        /\ answered' = <<>> \/ \E r : answered' = <<r>>
        /\ toClient' # <<>> => answered' = <<>>
    BY <1>3, <1>5
  <2>2. IsSeq(toClient') /\ Len(toClient') <= 1
    BY ONLY <2>1, OneAtMost
  <2>3. IsSeq(answered') /\ Len(answered') <= 1
    BY ONLY <2>1, OneAtMost
  <2> QED
    BY <2>1, <2>2, <2>3
<1>7. Places'
  BY <1>1, <1>3, <1>4, <1>6 DEF Places
<1>8. FidsOK'
  BY <1>1, <1>2, FidsKept
<1> QED
  BY <1>1, <1>3, <1>4, <1>7, <1>8 DEF LibraryOK

(* ... and a task of the server selects the answer.                         *)
LEMMA SelectLibrary ==
  ASSUME LibraryOK, SelectBlocked, UNCHANGED clientVars
  PROVE  LibraryOK'
<1>1. /\ answered # <<>> /\ answered' = Tail(answered) /\ UNCHANGED <<ss, fs, toServer, blocked, cl, th, stream_lock>>
  BY DEF SelectBlocked, clientVars
<1>2. Places /\ FidsOK
  BY DEF LibraryOK
<1>3. toServer = <<>> /\ toClient = <<>> /\ blocked = {} /\ stream_lock # NoClone
  BY <1>1, <1>2 DEF Places
<1>4. IsSeq(<<>>) /\ Len(<<>>) = 0 /\ DOMAIN <<>> = {}
  BY DEF IsSeq
<1>5. answered' = <<>>
  BY <1>1, <1>2, SeqOne DEF Places
<1>6. toClient' = toClient \/ \E r : toClient' = <<r>>
  BY <1>3 DEF SelectBlocked, Reply
<1>7. IsSeq(toClient') /\ Len(toClient') <= 1
  <2>1. toClient' = <<>> \/ \E r : toClient' = <<r>>
    BY <1>3, <1>6
  <2> QED
    BY ONLY <2>1, OneAtMost
<1>10. /\ IsSeq(toServer') /\ Len(toServer') <= 1 /\ IsSeq(answered') /\ Len(answered') <= 1
       /\ toServer' = <<>> /\ blocked' = {} /\ answered' = <<>> /\ stream_lock' # NoClone
  <2>1. answered' = <<>> /\ toServer' = <<>>
    BY <1>1, <1>3, <1>5
  <2>2. IsSeq(toServer') /\ Len(toServer') <= 1
    BY ONLY <2>1, OneAtMost
  <2>3. IsSeq(answered') /\ Len(answered') <= 1
    BY ONLY <2>1, OneAtMost
  <2> QED
    BY <1>1, <1>3, <2>1, <2>2, <2>3
<1>8. Places'
  BY <1>7, <1>10 DEF Places
<1>9. FidsOK'
  BY <1>1, <1>2, FidsKept
<1> QED
  BY <1>1, <1>3, <1>4, <1>8, <1>9 DEF LibraryOK

----------------------------------------------------------------------------
(* The operation of a clone.                                                *)

ThreadFields == {"op", "path", "stage", "waiting", "fid", "offset", "buf", "items", "at_eof", "result"}

(* what the stages of an operation keep *)
Moves(w, now) ==
    /\ DOMAIN now = ThreadFields /\ now.op = w.op /\ now.path = w.path /\ now.waiting = FALSE

(* The fields of an operation.                                              *)
LEMMA IdleFacts == DOMAIN Idle = ThreadFields /\ Idle.stage = "idle" /\ Idle.waiting = FALSE /\ Idle.fid = 0
BY DEF Idle, ThreadFields

(* An operation that ends, or goes to a stage.                              *)
LEMMA DoneFacts ==
  ASSUME NEW w, DOMAIN w = ThreadFields, NEW result, NEW now, now = Done(w, result)
  PROVE  Moves(w, now) /\ now.stage = "idle" /\ now.fid = w.fid
BY DEF Done, Moves, ThreadFields

(* ... or that goes to another stage.                                      *)
LEMMA AtFacts ==
  ASSUME NEW w, DOMAIN w = ThreadFields, NEW stage, NEW now, now = At(w, stage)
  PROVE  Moves(w, now) /\ now.stage = stage /\ now.fid = w.fid
BY DEF At, Moves, ThreadFields

(* Where an operation may be.                                               *)
LEMMA ThreadAt ==
  ASSUME NEW w, NEW now, Moves(w, now), now.stage \in Threads,
         now.stage \in Named => \E o \in Ops : w.op = o[1] /\ w.path = o[2],
         now.stage \in {"open", "read"} => w.op \in {"read", "read_dir"},
         now.stage \in {"open_iter", "iter", "read_count"} => w.op \in {"chunks", "lines"}
  PROVE  ThreadOK(now)
BY IdleFacts DEF ThreadOK, Moves

(* What an operation does with the fid of its path.                         *)
LEMMA WalkedToFacts ==
  ASSUME NEW w, DOMAIN w = ThreadFields, \E o \in Ops : w.op = o[1] /\ w.path = o[2],
         NEW fid, NEW now, now = WalkedTo(w, fid)
  PROVE  Moves(w, now) /\ ThreadOK(now) /\ now.fid = fid
<1>1. w.op \in {"walk", "stat", "read", "read_dir", "write", "create", "remove", "chunks", "lines"}
  BY ClientAssumption
<1>2. PICK next, x : next = AfterWalk(w.op) /\ x = IF next = "done" THEN Done(w, "ok") ELSE At(w, next)
  OBVIOUS
<1>3. /\ next \in {"done", "stat", "open", "write", "create", "remove", "open_iter"}
      /\ next = "open" => w.op \in {"read", "read_dir"}
      /\ next = "open_iter" => w.op \in {"chunks", "lines"}
  BY <1>1, <1>2 DEF AfterWalk
<1>4. Moves(w, x) /\ x.stage = IF next = "done" THEN "idle" ELSE next
  BY <1>2, DoneFacts, AtFacts
<1>5. now = [x EXCEPT !.fid = fid]
  BY <1>2 DEF WalkedTo
<1>6. Moves(w, now) /\ now.stage = x.stage /\ now.fid = fid
  BY <1>4, <1>5 DEF Moves, ThreadFields
<1>7. now.stage \in Threads
  BY <1>3, <1>4, <1>6 DEF Threads, CoroStages, SendStages
<1>8. now.stage = "open" => w.op \in {"read", "read_dir"}
  BY <1>3, <1>4, <1>6
<1>9. now.stage = "open_iter" => w.op \in {"chunks", "lines"}
  BY <1>3, <1>4, <1>6
<1>10. now.stage \notin {"read", "iter", "read_count"}
  BY <1>3, <1>4, <1>6
<1> QED
  BY <1>6, <1>7, <1>8, <1>9, <1>10, ThreadAt

(* What an operation does with a reply.                                     *)
LEMMA ResumeFacts ==
  ASSUME NEW w, ThreadOK(w), w.waiting, NEW r, NEW now, now = Resume(w, r)
  PROVE  /\ Moves(w, now) /\ ThreadOK(now)
         /\ w.stage \in SendStages => now.stage \notin CoroStages
         /\ now.fid = IF w.stage = "walk" /\ r.kind # "Error" THEN cl.next_fid ELSE w.fid
<1>1. DOMAIN w = ThreadFields /\ w.stage \in CoroStages \cup SendStages
  BY IdleFacts DEF ThreadOK
<1>2. /\ w.stage \in Named => \E o \in Ops : w.op = o[1] /\ w.path = o[2]
      /\ w.stage \in {"open", "read"} => w.op \in {"read", "read_dir"}
      /\ w.stage \in {"open_iter", "iter", "read_count"} => w.op \in {"chunks", "lines"}
  BY DEF ThreadOK
<1>3. ASSUME Moves(w, now), now.stage = "idle", now.fid = w.fid, ~ (w.stage = "walk" /\ r.kind # "Error")
      PROVE  /\ Moves(w, now) /\ ThreadOK(now)
             /\ w.stage \in SendStages => now.stage \notin CoroStages
             /\ now.fid = IF w.stage = "walk" /\ r.kind # "Error" THEN cl.next_fid ELSE w.fid
  <2>1. now.stage \in Threads /\ now.stage \notin Named /\ now.stage \notin CoroStages
        /\ now.stage \notin {"open", "read"} /\ now.stage \notin {"open_iter", "iter", "read_count"}
    BY <1>3 DEF Threads, Named, CoroStages
  <2>2. ThreadOK(now)
    BY <1>3, <2>1, ThreadAt
  <2> QED
    BY <1>3, <2>1, <2>2
<1>4. CASE r.kind = "Error"
  <2>1. now = Done(w, "error")
    BY <1>4 DEF Resume
  <2> QED
    BY <1>1, <1>3, <1>4, <2>1, DoneFacts
<1>5. CASE r.kind # "Error" /\ w.stage = "version"
  <2>1. now = At(w, "attach") \/ now = Done(w, "error")
    BY <1>5 DEF Resume
  <2>2. CASE now = Done(w, "error")
    BY <1>1, <1>3, <1>5, <2>2, DoneFacts
  <2>3. CASE now = At(w, "attach")
    <3>1. Moves(w, now) /\ now.stage = "attach" /\ now.fid = w.fid
      BY <1>1, <2>3, AtFacts
    <3>2. ThreadOK(now)
      BY <3>1, ThreadAt DEF Threads, CoroStages, Named
    <3> QED
      BY <1>5, <3>1, <3>2 DEF SendStages
  <2> QED
    BY <2>1, <2>2, <2>3
<1>6. CASE r.kind # "Error" /\ w.stage \in {"attach", "create", "remove"}
  <2>1. now = Done(w, "ok")
    BY <1>6 DEF Resume
  <2> QED
    BY <1>1, <1>3, <1>6, <2>1, DoneFacts
<1>7. CASE r.kind # "Error" /\ w.stage = "walk"
  <2>1. now = WalkedTo(w, cl.next_fid)
    BY <1>7 DEF Resume
  <2>2. \E o \in Ops : w.op = o[1] /\ w.path = o[2]
    BY <1>2, <1>7 DEF Named
  <2>3. Moves(w, now) /\ ThreadOK(now) /\ now.fid = cl.next_fid
    BY <1>1, <2>1, <2>2, WalkedToFacts
  <2> QED
    BY <1>7, <2>3 DEF SendStages
<1>8. CASE r.kind # "Error" /\ w.stage = "stat"
  <2>1. PICK x, v : x = Done(w, "ok") /\ now = [x EXCEPT !.items = v]
    BY <1>8 DEF Resume
  <2>2. Moves(w, x) /\ x.stage = "idle" /\ x.fid = w.fid
    BY <1>1, <2>1, DoneFacts
  <2>3. Moves(w, now) /\ now.stage = "idle" /\ now.fid = w.fid
    BY <2>1, <2>2 DEF Moves, ThreadFields
  <2> QED
    BY <1>3, <1>8, <2>3
<1>9. CASE r.kind # "Error" /\ w.stage = "open"
  <2>1. now = At(w, "read")
    BY <1>9 DEF Resume
  <2>2. Moves(w, now) /\ now.stage = "read" /\ now.fid = w.fid
    BY <1>1, <2>1, AtFacts
  <2>3. ThreadOK(now)
    BY <1>2, <1>9, <2>2, ThreadAt DEF Threads, CoroStages, Named
  <2> QED
    BY <1>9, <2>2, <2>3 DEF SendStages
<1>10. CASE r.kind # "Error" /\ w.stage = "open_iter"
  <2>1. now = At(w, "iter")
    BY <1>10 DEF Resume
  <2>2. Moves(w, now) /\ now.stage = "iter" /\ now.fid = w.fid
    BY <1>1, <2>1, AtFacts
  <2>3. ThreadOK(now)
    BY <1>2, <1>10, <2>2, ThreadAt DEF Threads, Named
  <2> QED
    BY <1>10, <2>2, <2>3 DEF CoroStages
<1>11. CASE r.kind # "Error" /\ w.stage = "read"
  <2>1. PICK data : data = r.content[1]
    OBVIOUS
  <2>2. now = ReadOn(w, data)
    BY <1>11, <2>1 DEF Resume
  <2>3. w.op \in {"read", "read_dir"}
    BY <1>2, <1>11
  <2>4. CASE data # <<>>
    <3>5. PICK x : x = At(w, "read")
      OBVIOUS
    <3>6. PICK b, n : b = x.buf \o data /\ n = x.offset + Len(data)
      OBVIOUS
    <3>1. x = At(w, "read") /\ now = [x EXCEPT !.buf = b, !.offset = n]
      <4>1. now = [x EXCEPT !.buf = @ \o data, !.offset = @ + Len(data)]
        BY <2>2, <2>4, <3>5 DEF ReadOn
      <4> QED
        BY <3>5, <3>6, <4>1
    <3>2. Moves(w, x) /\ x.stage = "read" /\ x.fid = w.fid
      BY <1>1, <3>1, AtFacts
    <3>3. Moves(w, now) /\ now.stage = "read" /\ now.fid = w.fid
      BY <3>1, <3>2 DEF Moves, ThreadFields
    <3>4. ThreadOK(now)
      BY <1>2, <1>11, <3>3, ThreadAt DEF Threads, CoroStages, Named
    <3> QED
      BY <1>11, <3>3, <3>4 DEF SendStages
  <2>5. CASE data = <<>> /\ w.op = "read"
    <3>1. now = Done(w, "ok")
      BY <2>2, <2>5 DEF ReadOn
    <3> QED
      BY <1>1, <1>3, <1>11, <3>1, DoneFacts
  <2>6. CASE data = <<>> /\ w.op = "read_dir"
    <3>1. PICK x, v : x = Done(w, "ok") /\ now = [x EXCEPT !.items = v]
      BY <2>2, <2>6 DEF ReadOn
    <3>2. Moves(w, x) /\ x.stage = "idle" /\ x.fid = w.fid
      BY <1>1, <3>1, DoneFacts
    <3>3. Moves(w, now) /\ now.stage = "idle" /\ now.fid = w.fid
      BY <3>1, <3>2 DEF Moves, ThreadFields
    <3> QED
      BY <1>3, <1>11, <3>3
  <2> QED
    BY <2>3, <2>4, <2>5, <2>6
<1>12. CASE r.kind # "Error" /\ w.stage = "read_count"
  <2>1. PICK data : data = r.content[1]
    OBVIOUS
  <2>2. now = Iterate(w, data)
    BY <1>12, <2>1 DEF Resume
  <2>3. w.op \in {"chunks", "lines"}
    BY <1>2, <1>12
  <2>4. PICK y, z : y = At(w, "iter") /\ z = At(w, "clunk")
    OBVIOUS
  <2>5. PICK items, line, b, n : /\ items = Append(y.items, data) /\ line = Append(y.items, w.buf)
                                 /\ b = y.buf \o data /\ n = y.offset + Len(data)
    OBVIOUS
  <2>8. \/ now = [y EXCEPT !.items = items, !.offset = n] \/ now = [y EXCEPT !.buf = b, !.offset = n]
        \/ now = [z EXCEPT !.at_eof = TRUE] \/ now = [y EXCEPT !.at_eof = TRUE, !.items = line, !.buf = <<>>]
    <3>1. \/ now = [y EXCEPT !.items = Append(@, data), !.offset = @ + Len(data)]
          \/ now = [y EXCEPT !.buf = @ \o data, !.offset = @ + Len(data)]
          \/ now = [z EXCEPT !.at_eof = TRUE]
          \/ now = [y EXCEPT !.at_eof = TRUE, !.items = Append(@, w.buf), !.buf = <<>>]
      BY <2>2, <2>3, <2>4 DEF Iterate
    <3> QED
      BY <2>5, <3>1
  <2>9. /\ Moves(w, y) /\ y.stage = "iter" /\ y.fid = w.fid
        /\ Moves(w, z) /\ z.stage = "clunk" /\ z.fid = w.fid
    BY <1>1, <2>4, AtFacts
  <2>6. Moves(w, now) /\ now.stage \in {"iter", "clunk"} /\ now.fid = w.fid
    BY <2>8, <2>9 DEF Moves, ThreadFields
  <2>7. ThreadOK(now)
    BY <1>2, <1>12, <2>6, ThreadAt DEF Threads, CoroStages, SendStages, Named
  <2> QED
    BY <1>12, <2>6, <2>7 DEF SendStages
<1>13. CASE r.kind # "Error" /\ w.stage = "write"
  <2>1. PICK n, next : n = r.content[1] /\ next = [w EXCEPT !.offset = @ + n]
    OBVIOUS
  <2>2. now = WroteOn(w, n)
    BY <1>13, <2>1 DEF Resume
  <2>3. now = Done(w, "partial") \/ now = At(next, "write") \/ now = Done(next, "ok")
    BY <2>1, <2>2 DEF WroteOn
  <2>4. DOMAIN next = ThreadFields /\ next.op = w.op /\ next.path = w.path /\ next.fid = w.fid
    BY <1>1, <2>1 DEF ThreadFields
  <2>5. CASE now = Done(w, "partial")
    BY <1>1, <1>3, <1>13, <2>5, DoneFacts
  <2>6. CASE now = Done(next, "ok")
    <3>1. Moves(next, now) /\ now.stage = "idle" /\ now.fid = next.fid
      BY <2>4, <2>6, DoneFacts
    <3>2. Moves(w, now) /\ now.fid = w.fid
      BY <2>4, <3>1 DEF Moves
    <3> QED
      BY <1>3, <1>13, <3>1, <3>2
  <2>7. CASE now = At(next, "write")
    <3>1. Moves(next, now) /\ now.stage = "write" /\ now.fid = next.fid
      BY <2>4, <2>7, AtFacts
    <3>2. Moves(w, now) /\ now.fid = w.fid
      BY <2>4, <3>1 DEF Moves
    <3>3. ThreadOK(now)
      BY <1>2, <1>13, <3>1, <3>2, ThreadAt DEF Threads, CoroStages, Named
    <3> QED
      BY <1>13, <3>1, <3>2, <3>3 DEF SendStages
  <2> QED
    BY <2>3, <2>5, <2>6, <2>7
<1>14. CASE r.kind # "Error" /\ w.stage = "clunk"
  <2>1. now = At(w, "retain")
    BY <1>14 DEF Resume
  <2>2. Moves(w, now) /\ now.stage = "retain" /\ now.fid = w.fid
    BY <1>1, <2>1, AtFacts
  <2>3. ThreadOK(now)
    BY <2>2, ThreadAt DEF Threads, Named
  <2> QED
    BY <1>14, <2>2, <2>3 DEF CoroStages
<1> QED
  BY <1>1, <1>4, <1>5, <1>6, <1>7, <1>8, <1>9, <1>10, <1>11, <1>12, <1>13, <1>14 DEF CoroStages, SendStages

----------------------------------------------------------------------------
(* The steps of the clones.                                                 *)

(* the operation of one clone changes *)
Turn(t, now) == DOMAIN th' = Clones /\ th'[t] = now /\ \A u \in Clones : u # t => th'[u] = th[u]

(* The operation of a clone is changed.                                     *)
LEMMA TurnFacts ==
  ASSUME LocksOK, NEW t \in Clones, NEW now, th' = [th EXCEPT ![t] = now]
  PROVE  Turn(t, now)
BY DEF LocksOK, Turn

(* The thread of one clone changes, and the locks with it.                  *)
LEMMA StepLocks ==
  ASSUME LocksOK, NEW t \in Clones, NEW now, ThreadOK(now), Turn(t, now),
         (stream_lock' = t) <=> now.waiting, \A u \in Clones : u # t => ((stream_lock' = u) <=> (stream_lock = u)),
         (state_lock' = t) <=> (now.stage \in CoroStages),
         \A u \in Clones : u # t => ((state_lock' = u) <=> (state_lock = u))
  PROVE  LocksOK'
<1>2. DOMAIN th' = Clones /\ th'[t] = now /\ \A u \in Clones : u # t => th'[u] = th[u]
  BY DEF Turn
<1>3. \A u \in Clones : ThreadOK(th'[u])
  BY <1>2 DEF LocksOK
<1>4. \A u \in Clones : (state_lock' = u) <=> (th'[u].stage \in CoroStages)
  BY <1>2 DEF LocksOK
<1>5. \A u \in Clones : (stream_lock' = u) <=> th'[u].waiting
  BY <1>2 DEF LocksOK
<1>6. \A u \in Clones : ThreadOK(th[u])'
  BY <1>3 DEF ThreadOK
<1> QED
  BY <1>2, <1>4, <1>5, <1>6 DEF LocksOK

(* The fid of one clone changes, to one that the client has used.           *)
LEMMA StepFids ==
  ASSUME FidsOK, NEW t \in Clones, NEW now, Turn(t, now),
         UNCHANGED <<ss, fs>>, NEW c, c = cl', DOMAIN c = ClientFields, c.next_fid \in Nat \ {0},
         c.next_fid >= cl.next_fid,
         \A p \in DOMAIN c.fids : c.fids[p] \in 0 .. c.next_fid - 1 /\ Leads(c.fids[p], p),
         now.fid \in 0 .. c.next_fid - 1, Leads(now.fid, now.path),
         \A u \in Clones : (th'[u].waiting /\ th'[u].stage = "walk") => Leads(c.next_fid, th'[u].path),
         \A fid \in DOMAIN ss.fids : fid < c.next_fid
            \/ (fid = c.next_fid /\ \E u \in Clones : th'[u].waiting /\ th'[u].stage = "walk")
  PROVE  FidsOK'
<1>1. th'[t] = now /\ \A u \in Clones : u # t => th'[u] = th[u]
  BY DEF Turn
<1>2. PICK n, k : n = cl.next_fid /\ k = c.next_fid
  OBVIOUS
<1>3. n \in Nat \ {0} /\ k \in Nat \ {0} /\ n <= k /\ \A i \in 0 .. n - 1 : i \in 0 .. k - 1
  BY <1>2 DEF FidsOK
<1>4. \A u \in Clones : th'[u].fid \in 0 .. k - 1 /\ Leads(th'[u].fid, th'[u].path)
  <2>1. ASSUME NEW u \in Clones, u # t PROVE th'[u].fid \in 0 .. k - 1 /\ Leads(th'[u].fid, th'[u].path)
    <3>1. PICK w : w = th[u]
      OBVIOUS
    <3>2. w.fid \in 0 .. n - 1 /\ Leads(w.fid, w.path)
      BY <1>2, <3>1 DEF FidsOK
    <3> QED
      BY <1>1, <1>3, <2>1, <3>1, <3>2
  <2> QED
    BY <1>1, <1>2, <2>1
<1>5. \A fid, path : Leads(fid, path) => Leads(fid, path)'
  BY DEF Leads
<1>6. \A u \in Clones : th'[u].fid \in 0 .. k - 1 /\ ((th'[u].fid \in DOMAIN ss'.fids /\ ss'.fids[th'[u].fid] = Dir) => th'[u].path = PathOf(Dir))
  BY <1>4 DEF Leads
<1>7. \A p \in DOMAIN c.fids : c.fids[p] \in 0 .. k - 1 /\ ((c.fids[p] \in DOMAIN ss'.fids /\ ss'.fids[c.fids[p]] = Dir) => p = PathOf(Dir))
  BY <1>2 DEF Leads
<1>8. \A u \in Clones : Walking(u)' => ((k \in DOMAIN ss'.fids /\ ss'.fids[k] = Dir) => th'[u].path = PathOf(Dir))
  BY <1>2 DEF Leads, Walking
<1>9. \A fid \in DOMAIN ss'.fids : fid < k \/ (fid = k /\ \E u \in Clones : Walking(u)')
  BY <1>2 DEF Walking
<1>10. (0 \in DOMAIN ss'.fids => ss'.fids[0] = QidRoot) /\ Dir \notin fs'.open
  BY DEF FidsOK
<1> QED
  BY <1>2, <1>3, <1>6, <1>7, <1>8, <1>9, <1>10 DEF FidsOK, Leads

(* A step of a clone that does not wait, and says nothing to the server.    *)
LEMMA QuietStep ==
  ASSUME LocksOK, LibraryOK, NEW t \in Clones, NEW now, Turn(t, now), ~ th[t].waiting, ~ now.waiting,
         UNCHANGED <<serverVars, stream_lock>>, NEW c, c = cl', DOMAIN c = ClientFields, c.next_fid = cl.next_fid,
         \A p \in DOMAIN c.fids : p \in DOMAIN cl.fids /\ c.fids[p] = cl.fids[p],
         now.fid \in 0 .. cl.next_fid - 1, Leads(now.fid, now.path)
  PROVE  LibraryOK'
<1>1. Turn(t, now)
  OBVIOUS
<1>2. th'[t] = now /\ \A u \in Clones : u # t => th'[u] = th[u]
  BY DEF Turn
<1>3. UNCHANGED <<ss, fs, toServer, toClient, blocked, answered, stream_lock>>
  BY DEF serverVars
<1>4. Places'
  BY <1>3 DEF LibraryOK, Places
<1>5. PICK n : n = cl.next_fid
  OBVIOUS
<1>6. FidsOK /\ n \in Nat \ {0}
  BY <1>5 DEF LibraryOK, FidsOK
<1>7. \A u \in Clones : th'[u].waiting => u # t /\ th'[u] = th[u] /\ th[u].waiting
  BY <1>2
<1>8. \A u \in Clones : th[u].waiting => u # t /\ th'[u] = th[u]
  BY <1>2
<1>9. FidsOK'
  <2>0. c.next_fid = n
    BY <1>5
  <2>1. \A u \in Clones : (th'[u].waiting /\ th'[u].stage = "walk") => Leads(c.next_fid, th'[u].path)
    BY <1>5, <1>6, <1>7, <2>0 DEF FidsOK, Walking
  <2>2. \A fid \in DOMAIN ss.fids : fid < c.next_fid
            \/ (fid = c.next_fid /\ \E u \in Clones : th'[u].waiting /\ th'[u].stage = "walk")
    BY <1>5, <1>6, <1>8, <2>0 DEF FidsOK, Walking
  <2>3. \A p \in DOMAIN c.fids : c.fids[p] \in 0 .. c.next_fid - 1 /\ Leads(c.fids[p], p)
    BY <1>5, <1>6, <2>0 DEF FidsOK
  <2>4. c.next_fid \in Nat \ {0} /\ c.next_fid >= cl.next_fid
    BY <1>5, <1>6
  <2>5. now.fid \in 0 .. c.next_fid - 1
    OBVIOUS
  <2>6. UNCHANGED <<ss, fs>>
    BY <1>3
  <2> QED
    BY ONLY <1>1, <1>6, <2>1, <2>2, <2>3, <2>4, <2>5, <2>6, c = cl', DOMAIN c = ClientFields,
            Leads(now.fid, now.path), t \in Clones, StepFids
<1>10. \A i \in DOMAIN toServer' : \E u \in Clones : th'[u].waiting /\ Sent(toServer[i], th[u])'
  <2>1. ASSUME NEW i \in DOMAIN toServer PROVE \E u \in Clones : th'[u].waiting /\ Sent(toServer[i], th[u])'
    <3>1. PICK u \in Clones : th[u].waiting /\ Sent(toServer[i], th[u])
      BY <2>1 DEF LibraryOK
    <3>2. th'[u] = th[u] /\ toServer' = toServer
      BY <1>3, <1>8, <3>1
    <3>3. Sent(toServer[i], th[u])'
      BY <3>1, <3>2 DEF Sent
    <3> QED
      BY <3>1, <3>2, <3>3
  <2> QED
    BY <1>3, <2>1
<1> QED
  BY <1>4, <1>9, <1>10 DEF LibraryOK

(* A clone that is idle, or between the messages of an operation.           *)
LEMMA NotWaiting ==
  ASSUME LocksOK, NEW t \in Clones, th[t].stage \notin CoroStages \cup SendStages \/ stream_lock = NoClone
  PROVE  th[t].waiting = FALSE /\ ThreadOK(th[t]) /\ stream_lock # t
BY ClientAssumption DEF LocksOK, ThreadOK

(* A step that leaves the session alone keeps the invariant when it keeps   *)
(* the parts of the client.                                                 *)
LEMMA LibraryStep ==
  ASSUME IInv, driver = "library", driver' = driver, UNCHANGED <<ss, fs>>, LocksOK', LibraryOK'
  PROVE  IInv'
BY DEF IInv, SessionOK

(* Only the library has operations.                                         *)
LEMMA OnlyLibrary ==
  ASSUME IInv, NEW t \in Clones, th[t].stage # "idle"
  PROVE  driver = "library"
BY DEF IInv, RawOK

(* An operation begins.                                                     *)
LEMMA BeginStep ==
  ASSUME IInv, NEW t \in Clones, NEW o \in Ops, Begin(t, o[1], o[2])
  PROVE  IInv'
<1>1. PICK op, path, w : op = o[1] /\ path = o[2] /\ w = [Idle EXCEPT !.op = op, !.path = path]
  OBVIOUS
<1>2. PICK now : now = IF path \in DOMAIN cl.fids THEN WalkedTo(w, cl.fids[path]) ELSE At(w, "walk")
  OBVIOUS
<1>3. /\ driver = "library" /\ th[t].stage = "idle" /\ state_lock = NoClone
      /\ th' = [th EXCEPT ![t] = now] /\ state_lock' = IF now.stage \in CoroStages THEN t ELSE NoClone
      /\ UNCHANGED <<serverVars, driver, cl, stream_lock>>
  BY <1>1, <1>2 DEF Begin
<1>4. LocksOK /\ LibraryOK
  BY <1>3 DEF IInv
<1>5. th[t].stage \notin CoroStages \cup SendStages
  BY <1>3 DEF CoroStages, SendStages
<1>6. th[t].waiting = FALSE /\ stream_lock # t
  BY <1>4, <1>5, NotWaiting
<1>7. DOMAIN w = ThreadFields /\ w.op = op /\ w.path = path /\ w.fid = 0
  BY <1>1, IdleFacts DEF ThreadFields
<1>8. \E x \in Ops : w.op = x[1] /\ w.path = x[2]
  BY <1>1, <1>7
<1>9. FidsOK /\ 0 \in 0 .. cl.next_fid - 1 /\ Leads(0, path)
  BY <1>4 DEF LibraryOK, FidsOK, Leads, QidRoot, Dir
<1>10. Moves(w, now) /\ ThreadOK(now) /\ now.fid \in 0 .. cl.next_fid - 1 /\ Leads(now.fid, now.path)
  <2>1. CASE path \in DOMAIN cl.fids
    <3>1. PICK fid : fid = cl.fids[path]
      OBVIOUS
    <3>2. now = WalkedTo(w, fid)
      BY <1>2, <2>1, <3>1
    <3>3. Moves(w, now) /\ ThreadOK(now) /\ now.fid = fid
      BY <1>7, <1>8, <3>2, WalkedToFacts
    <3>4. now.path = path
      BY <1>7, <3>3 DEF Moves
    <3>5. fid \in 0 .. cl.next_fid - 1 /\ Leads(fid, path)
      BY <1>9, <2>1, <3>1 DEF FidsOK
    <3> QED
      BY <3>3, <3>4, <3>5
  <2>2. CASE path \notin DOMAIN cl.fids
    <3>1. now = At(w, "walk")
      BY <1>2, <2>2
    <3>2. Moves(w, now) /\ now.stage = "walk" /\ now.fid = w.fid
      BY <1>7, <3>1, AtFacts
    <3>3. ThreadOK(now)
      BY <1>8, <3>2, ThreadAt DEF Threads, CoroStages
    <3>4. now.path = path /\ now.fid = 0
      BY <1>7, <3>2 DEF Moves
    <3> QED
      BY <1>9, <3>2, <3>3, <3>4
  <2> QED
    BY <2>1, <2>2
<1>11. now.waiting = FALSE
  BY <1>10 DEF Moves
<1>12. Turn(t, now)
  BY <1>3, <1>4, TurnFacts
<1>13. LocksOK'
  <2>1. (stream_lock' = t) <=> now.waiting
    BY <1>3, <1>6, <1>11
  <2>2. \A u \in Clones : u # t => ((stream_lock' = u) <=> (stream_lock = u))
    BY <1>3
  <2>3. (state_lock' = t) <=> (now.stage \in CoroStages)
    BY <1>3, ClientAssumption
  <2>4. \A u \in Clones : u # t => ((state_lock' = u) <=> (state_lock = u))
    BY <1>3, ClientAssumption
  <2> QED
    BY ONLY <1>4, <1>10, <1>12, <2>1, <2>2, <2>3, <2>4, t \in Clones, StepLocks
<1>14. LibraryOK'
  <2>1. PICK c : c = cl'
    OBVIOUS
  <2>2. DOMAIN c = ClientFields /\ c.next_fid = cl.next_fid
    BY <1>3, <1>9, <2>1 DEF FidsOK
  <2>3. \A p \in DOMAIN c.fids : p \in DOMAIN cl.fids /\ c.fids[p] = cl.fids[p]
    BY <1>3, <2>1
  <2>4. UNCHANGED <<serverVars, stream_lock>> /\ ~ th[t].waiting /\ ~ now.waiting
    BY <1>3, <1>6, <1>11
  <2> QED
    BY ONLY <1>4, <1>10, <1>12, <2>1, <2>2, <2>3, <2>4, t \in Clones, QuietStep
<1>15. UNCHANGED <<ss, fs>>
  BY <1>3 DEF serverVars
<1> QED
  BY <1>3, <1>13, <1>14, <1>15, LibraryStep

(* A path is given up.                                                      *)
LEMMA ClunkPathStep ==
  ASSUME IInv, NEW t \in Clones, NEW path, ClunkPath(t, path)
  PROVE  IInv'
<1>1. PICK w, z : w = [Idle EXCEPT !.op = "clunk_path", !.path = path] /\ z = At(w, "clunk")
  OBVIOUS
<1>2. PICK now : now = IF path \in DOMAIN cl.fids /\ cl.fids[path] # 0 THEN [z EXCEPT !.fid = cl.fids[path]]
                       ELSE Done(w, "ok")
  OBVIOUS
<1>3. /\ driver = "library" /\ th[t].stage = "idle"
      /\ th' = [th EXCEPT ![t] = now] /\ UNCHANGED <<serverVars, driver, cl, stream_lock, state_lock>>
  BY <1>1, <1>2 DEF ClunkPath
<1>4. LocksOK /\ LibraryOK
  BY <1>3 DEF IInv
<1>5. th[t].stage \notin CoroStages \cup SendStages
  BY <1>3 DEF CoroStages, SendStages
<1>6. th[t].waiting = FALSE /\ stream_lock # t
  BY <1>4, <1>5, NotWaiting
<1>7. DOMAIN w = ThreadFields /\ w.path = path /\ w.fid = 0
  BY <1>1, IdleFacts DEF ThreadFields
<1>9. FidsOK /\ 0 \in 0 .. cl.next_fid - 1 /\ Leads(0, path)
  BY <1>4 DEF LibraryOK, FidsOK, Leads, QidRoot, Dir
<1>10. /\ Moves(w, now) /\ now.stage \in {"clunk", "idle"}
       /\ now.fid \in 0 .. cl.next_fid - 1 /\ Leads(now.fid, now.path)
  <2>1. CASE path \in DOMAIN cl.fids /\ cl.fids[path] # 0
    <3>1. PICK fid : fid = cl.fids[path]
      OBVIOUS
    <3>2. now = [z EXCEPT !.fid = fid]
      BY <1>2, <2>1, <3>1
    <3>6. z = At(w, "clunk")
      BY <1>1
    <3>3. Moves(w, z) /\ z.stage = "clunk"
      BY ONLY <1>7, <3>6, AtFacts
    <3>4. Moves(w, now) /\ now.stage = "clunk" /\ now.fid = fid /\ now.path = path
      BY <1>7, <3>2, <3>3 DEF Moves, ThreadFields
    <3>5. fid \in 0 .. cl.next_fid - 1 /\ Leads(fid, path)
      BY <1>9, <2>1, <3>1 DEF FidsOK
    <3> QED
      BY <3>4, <3>5
  <2>2. CASE ~ (path \in DOMAIN cl.fids /\ cl.fids[path] # 0)
    <3>1. now = Done(w, "ok")
      BY <1>2, <2>2
    <3>2. Moves(w, now) /\ now.stage = "idle" /\ now.fid = w.fid
      BY <1>7, <3>1, DoneFacts
    <3>3. now.path = path /\ now.fid = 0
      BY <1>7, <3>2 DEF Moves
    <3> QED
      BY <1>9, <3>2, <3>3
  <2> QED
    BY <2>1, <2>2
<1>11. now.waiting = FALSE
  BY <1>10 DEF Moves
<1>12. Turn(t, now)
  BY <1>3, <1>4, TurnFacts
<1>13. LocksOK'
  <2>1. (stream_lock' = t) <=> now.waiting
    BY <1>3, <1>6, <1>11
  <2>2. \A u \in Clones : u # t => ((stream_lock' = u) <=> (stream_lock = u))
    BY <1>3
  <2>3. (state_lock' = t) <=> (now.stage \in CoroStages)
    BY <1>3, <1>4, <1>5, <1>10 DEF LocksOK, CoroStages
  <2>4. \A u \in Clones : u # t => ((state_lock' = u) <=> (state_lock = u))
    BY <1>3
  <2>5. ThreadOK(now)
    BY <1>10, ThreadAt DEF Threads, SendStages, Named
  <2> QED
    BY ONLY <1>4, <1>12, <2>1, <2>2, <2>3, <2>4, <2>5, t \in Clones, StepLocks
<1>14. LibraryOK'
  <2>1. PICK c : c = cl'
    OBVIOUS
  <2>2. DOMAIN c = ClientFields /\ c.next_fid = cl.next_fid
    BY <1>3, <1>9, <2>1 DEF FidsOK
  <2>3. \A p \in DOMAIN c.fids : p \in DOMAIN cl.fids /\ c.fids[p] = cl.fids[p]
    BY <1>3, <2>1
  <2>4. UNCHANGED <<serverVars, stream_lock>> /\ ~ th[t].waiting /\ ~ now.waiting
    BY <1>3, <1>6, <1>11
  <2> QED
    BY ONLY <1>4, <1>10, <1>12, <2>1, <2>2, <2>3, <2>4, t \in Clones, QuietStep
<1>15. UNCHANGED <<ss, fs>>
  BY <1>3 DEF serverVars
<1> QED
  BY <1>3, <1>13, <1>14, <1>15, LibraryStep

(* The next item of an iterator.                                            *)
LEMMA NextItemStep ==
  ASSUME IInv, NEW t \in Clones, NextItem(t)
  PROVE  IInv'
<1>1. PICK w : w = th[t]
  OBVIOUS
<1>2. w.stage = "iter" /\ UNCHANGED <<serverVars, driver, cl, stream_lock>>
  BY <1>1 DEF NextItem
<1>3. driver = "library"
  BY <1>1, <1>2, OnlyLibrary
<1>4. LocksOK /\ LibraryOK /\ FidsOK
  BY <1>3 DEF IInv, LibraryOK
<1>5. th[t].stage \notin CoroStages \cup SendStages
  BY <1>1, <1>2 DEF CoroStages, SendStages
<1>6. w.waiting = FALSE /\ ThreadOK(w) /\ stream_lock # t
  BY <1>1, <1>4, <1>5, NotWaiting
<1>7. DOMAIN w = ThreadFields /\ w.op \in {"chunks", "lines"} /\ \E o \in Ops : w.op = o[1] /\ w.path = o[2]
  BY <1>2, <1>6, IdleFacts DEF ThreadOK, Named
<1>8. w.fid \in 0 .. cl.next_fid - 1 /\ Leads(w.fid, w.path)
  BY <1>1, <1>4 DEF FidsOK
<1>9. \E now : /\ th' = [th EXCEPT ![t] = now] /\ Moves(w, now) /\ now.fid = w.fid
               /\ \/ now.stage \in {"clunk", "iter"} /\ state_lock' = state_lock
                  \/ now.stage = "read_count" /\ state_lock = NoClone /\ state_lock' = t
  <2>1. CASE th[t].at_eof
    <3>1. PICK now : now = At(w, "clunk")
      OBVIOUS
    <3>2. th' = [th EXCEPT ![t] = now] /\ state_lock' = state_lock
      BY <1>1, <2>1, <3>1 DEF NextItem
    <3>3. Moves(w, now) /\ now.stage = "clunk" /\ now.fid = w.fid
      BY ONLY <1>7, <3>1, AtFacts
    <3> QED
      BY <3>2, <3>3
  <2>2. CASE ~ th[t].at_eof /\ LineEnd(th[t].buf) # 0
    <3>1. PICK now : now = TakeLine(w)
      OBVIOUS
    <3>2. th' = [th EXCEPT ![t] = now] /\ state_lock' = state_lock
      BY <1>1, <2>2, <3>1 DEF NextItem
    <3>3. now = [w EXCEPT !.items = Append(@, SubSeq(w.buf, 1, LineEnd(w.buf) - 1)), !.buf = Drop(@, LineEnd(w.buf))]
      BY <3>1 DEF TakeLine
    <3>4. PICK a, b : a = Append(w.items, SubSeq(w.buf, 1, LineEnd(w.buf) - 1)) /\ b = Drop(w.buf, LineEnd(w.buf))
      OBVIOUS
    <3>5. now = [w EXCEPT !.items = a, !.buf = b]
      BY <3>3, <3>4
    <3>6. Moves(w, now) /\ now.stage = "iter" /\ now.fid = w.fid
      BY ONLY <1>2, <1>6, <1>7, <3>5 DEF Moves, ThreadFields
    <3> QED
      BY <3>2, <3>6
  <2>3. CASE ~ th[t].at_eof /\ LineEnd(th[t].buf) = 0
    <3>1. PICK now : now = At(w, "read_count")
      OBVIOUS
    <3>2. th' = [th EXCEPT ![t] = now] /\ state_lock = NoClone /\ state_lock' = t
      BY <1>1, <2>3, <3>1 DEF NextItem
    <3>3. Moves(w, now) /\ now.stage = "read_count" /\ now.fid = w.fid
      BY ONLY <1>7, <3>1, AtFacts
    <3> QED
      BY <3>2, <3>3
  <2> QED
    BY <2>1, <2>2, <2>3
<1>10. PICK now : /\ th' = [th EXCEPT ![t] = now] /\ Moves(w, now) /\ now.fid = w.fid
                  /\ \/ now.stage \in {"clunk", "iter"} /\ state_lock' = state_lock
                     \/ now.stage = "read_count" /\ state_lock = NoClone /\ state_lock' = t
  BY <1>9
<1>11. now.waiting = FALSE /\ now.path = w.path /\ now.stage \in {"clunk", "iter", "read_count"}
  BY <1>10 DEF Moves
<1>12. Turn(t, now)
  BY <1>4, <1>10, TurnFacts
<1>13. ThreadOK(now)
  BY <1>7, <1>10, <1>11, ThreadAt DEF Threads, CoroStages, SendStages
<1>14. LocksOK'
  <2>1. (stream_lock' = t) <=> now.waiting
    BY <1>2, <1>6, <1>11
  <2>2. \A u \in Clones : u # t => ((stream_lock' = u) <=> (stream_lock = u))
    BY <1>2
  <2>3. (state_lock' = t) <=> (now.stage \in CoroStages)
    BY <1>4, <1>5, <1>10 DEF LocksOK, CoroStages
  <2>4. \A u \in Clones : u # t => ((state_lock' = u) <=> (state_lock = u))
    BY <1>10, ClientAssumption
  <2> QED
    BY ONLY <1>4, <1>12, <1>13, <2>1, <2>2, <2>3, <2>4, t \in Clones, StepLocks
<1>15. LibraryOK'
  <2>1. PICK c : c = cl'
    OBVIOUS
  <2>2. DOMAIN c = ClientFields /\ c.next_fid = cl.next_fid
    BY <1>2, <1>4, <2>1 DEF FidsOK
  <2>3. \A p \in DOMAIN c.fids : p \in DOMAIN cl.fids /\ c.fids[p] = cl.fids[p]
    BY <1>2, <2>1
  <2>4. UNCHANGED <<serverVars, stream_lock>> /\ ~ th[t].waiting /\ ~ now.waiting
    BY <1>1, <1>2, <1>6, <1>11
  <2>5. now.fid \in 0 .. cl.next_fid - 1 /\ Leads(now.fid, now.path)
    BY <1>8, <1>10, <1>11
  <2> QED
    BY ONLY <1>4, <1>12, <2>1, <2>2, <2>3, <2>4, <2>5, t \in Clones, QuietStep
<1>16. UNCHANGED <<ss, fs>> /\ driver' = driver
  BY <1>2 DEF serverVars
<1> QED
  BY <1>3, <1>14, <1>15, <1>16, LibraryStep

(* The paths of a fid that is clunked leave the cache.                      *)
LEMMA RetainStep ==
  ASSUME IInv, NEW t \in Clones, Retain(t)
  PROVE  IInv'
<1>1. PICK w, now : w = th[t] /\ now = Done(w, "ok")
  OBVIOUS
<1>2. /\ w.stage = "retain" /\ UNCHANGED <<serverVars, driver, stream_lock, state_lock>>
      /\ th' = [th EXCEPT ![t] = now]
      /\ cl' = [cl EXCEPT !.fids = Restrict(@, {p \in DOMAIN @: @[p] # th[t].fid})]
  BY <1>1 DEF Retain
<1>3. driver = "library"
  BY <1>1, <1>2, OnlyLibrary
<1>4. LocksOK /\ LibraryOK /\ FidsOK
  BY <1>3 DEF IInv, LibraryOK
<1>5. th[t].stage \notin CoroStages \cup SendStages
  BY <1>1, <1>2 DEF CoroStages, SendStages
<1>6. w.waiting = FALSE /\ ThreadOK(w) /\ stream_lock # t
  BY <1>1, <1>4, <1>5, NotWaiting
<1>7. DOMAIN w = ThreadFields
  BY <1>6, IdleFacts DEF ThreadOK
<1>8. w.fid \in 0 .. cl.next_fid - 1 /\ Leads(w.fid, w.path)
  BY <1>1, <1>4 DEF FidsOK
<1>20. now = Done(w, "ok")
  BY <1>1
<1>9. Moves(w, now) /\ now.stage = "idle" /\ now.fid = w.fid
  BY ONLY <1>7, <1>20, DoneFacts
<1>11. now.waiting = FALSE /\ now.path = w.path
  BY <1>9 DEF Moves
<1>12. Turn(t, now)
  BY <1>2, <1>4, TurnFacts
<1>13. ThreadOK(now)
  BY <1>9, ThreadAt DEF Threads, Named
<1>14. LocksOK'
  <2>1. (stream_lock' = t) <=> now.waiting
    BY <1>2, <1>6, <1>11
  <2>2. \A u \in Clones : u # t => ((stream_lock' = u) <=> (stream_lock = u))
    BY <1>2
  <2>3. (state_lock' = t) <=> (now.stage \in CoroStages)
    BY <1>2, <1>4, <1>5, <1>9 DEF LocksOK, CoroStages
  <2>4. \A u \in Clones : u # t => ((state_lock' = u) <=> (state_lock = u))
    BY <1>2
  <2> QED
    BY ONLY <1>4, <1>12, <1>13, <2>1, <2>2, <2>3, <2>4, t \in Clones, StepLocks
<1>15. LibraryOK'
  <2>1. PICK c, old, new : /\ c = cl' /\ old = cl.fids
                           /\ new = Restrict(old, {p \in DOMAIN old : old[p] # th[t].fid})
    OBVIOUS
  <2>2. DOMAIN cl = ClientFields
    BY <1>4 DEF FidsOK
  <2>3. DOMAIN c = ClientFields /\ c.next_fid = cl.next_fid /\ c.fids = new
    BY <1>2, <2>1, <2>2 DEF ClientFields
  <2>4. \A p \in DOMAIN new : p \in DOMAIN old /\ new[p] = old[p]
    BY ONLY <2>1 DEF Restrict
  <2>5. \A p \in DOMAIN c.fids : p \in DOMAIN cl.fids /\ c.fids[p] = cl.fids[p]
    BY <2>1, <2>3, <2>4
  <2>6. UNCHANGED <<serverVars, stream_lock>> /\ ~ th[t].waiting /\ ~ now.waiting
    BY <1>1, <1>2, <1>6, <1>11
  <2>7. now.fid \in 0 .. cl.next_fid - 1 /\ Leads(now.fid, now.path)
    BY <1>8, <1>9, <1>11
  <2>8. c = cl' /\ DOMAIN c = ClientFields /\ c.next_fid = cl.next_fid
    BY <2>1, <2>3
  <2> QED
    BY ONLY <1>4, <1>12, <2>5, <2>6, <2>7, <2>8, t \in Clones, QuietStep
<1>16. UNCHANGED <<ss, fs>> /\ driver' = driver
  BY <1>2 DEF serverVars
<1> QED
  BY <1>3, <1>14, <1>15, <1>16, LibraryStep

(* A clone sends its request, and waits.                                    *)
LEMMA SendStep ==
  ASSUME IInv, NEW t \in Clones, Send(t)
  PROVE  IInv'
<1>1. PICK w, now, m : w = th[t] /\ now = [w EXCEPT !.waiting = TRUE] /\ m = Yielded(w)
  OBVIOUS
<1>2. /\ w.stage \in CoroStages \cup SendStages /\ stream_lock = NoClone /\ stream_lock' = t
      /\ toServer' = Append(toServer, m) /\ th' = [th EXCEPT ![t] = now]
      /\ UNCHANGED <<ss, fs, toClient, blocked, answered, driver, cl, state_lock>>
  BY <1>1 DEF Send
<1>3. driver = "library"
  BY <1>1, <1>2, OnlyLibrary DEF CoroStages, SendStages
<1>4. LocksOK /\ LibraryOK /\ FidsOK /\ Places
  BY <1>3 DEF IInv, LibraryOK
<1>5. w.waiting = FALSE /\ ThreadOK(w)
  BY <1>1, <1>2, <1>4, NotWaiting
<1>6. \A u \in Clones : th[u].waiting = FALSE
  BY <1>2, <1>4, NotWaiting
<1>7. DOMAIN w = ThreadFields
  BY <1>5, IdleFacts DEF ThreadOK
<1>8. /\ DOMAIN now = ThreadFields /\ now.stage = w.stage /\ now.op = w.op /\ now.path = w.path /\ now.fid = w.fid
      /\ now.waiting = TRUE
  BY <1>1, <1>7 DEF ThreadFields
<1>9. ThreadOK(now)
  BY <1>2, <1>5, <1>7, <1>8 DEF ThreadOK
<1>10. Turn(t, now)
  BY <1>2, <1>4, TurnFacts
<1>11. th'[t] = now /\ \A u \in Clones : u # t => th'[u] = th[u]
  BY <1>10 DEF Turn
<1>12. LocksOK'
  <2>1. (stream_lock' = t) <=> now.waiting
    BY <1>2, <1>8
  <2>2. \A u \in Clones : u # t => ((stream_lock' = u) <=> (stream_lock = u))
    BY <1>2, ClientAssumption
  <2>3. (state_lock' = t) <=> (now.stage \in CoroStages)
    BY <1>1, <1>2, <1>4, <1>8 DEF LocksOK
  <2>4. \A u \in Clones : u # t => ((state_lock' = u) <=> (state_lock = u))
    BY <1>2
  <2> QED
    BY ONLY <1>4, <1>9, <1>10, <2>1, <2>2, <2>3, <2>4, t \in Clones, StepLocks
<1>13. w.stage = "walk" => w.path \in Seq(Names)
  <2>1. ASSUME w.stage = "walk" PROVE w.path \in Seq(Names)
    <3>1. PICK o \in Ops : w.path = o[2]
      BY <1>5, <2>1 DEF ThreadOK, Named
    <3> QED
      BY <3>1, ClientAssumption DEF Names
  <2> QED
    BY <2>1
<1>14. PICK next : next = cl.next_fid
  OBVIOUS
<1>15. next \in Nat \ {0}
  BY <1>4, <1>14 DEF FidsOK
<1>16. /\ m.kind \in DOMAIN TFormat
       /\ m.kind = "Attach" => m.content[1] = 0
       /\ m.kind = "Walk" => w.stage = "walk" /\ m.content[1] = 0 /\ m.content[2] = next /\ m.content[3] = w.path
       /\ m.kind = "Open" => w.stage \in {"open", "open_iter"} /\ m.content[1] = w.fid
  <2>1. CASE w.stage = "walk"
    <3>1. PICK c : c = <<0, next, w.path>>
      OBVIOUS
    <3>2. m = T(0, "Walk", c) /\ c[1] = 0 /\ c[2] = next /\ c[3] = w.path
      BY <1>1, <1>14, <2>1, <3>1 DEF Yielded
    <3>3. m.kind = "Walk" /\ m.content = c
      BY <3>2 DEF T
    <3> QED
      BY <2>1, <3>2, <3>3 DEF TFormat
  <2>2. CASE w.stage = "attach"
    <3>1. PICK c : c = <<0, 9, <<>>, <<>>>>
      OBVIOUS
    <3>2. m = T(0, "Attach", c) /\ c[1] = 0
      BY <1>1, <2>2, <3>1 DEF Yielded
    <3>3. m.kind = "Attach" /\ m.content = c
      BY <3>2 DEF T
    <3> QED
      BY <3>2, <3>3 DEF TFormat
  <2>3. CASE w.stage \in {"open", "open_iter"}
    <3>1. PICK c : c = <<w.fid, IF w.op = "read_dir" THEN 128 ELSE 0>>
      OBVIOUS
    <3>2. m = T(0, "Open", c) /\ c[1] = w.fid
      BY <1>1, <2>3, <3>1 DEF Yielded
    <3>3. m.kind = "Open" /\ m.content = c
      BY <3>2 DEF T
    <3> QED
      BY <2>3, <3>2, <3>3 DEF TFormat
  <2>4. CASE w.stage \in {"version", "stat", "read", "read_count", "write", "create", "remove", "clunk"}
    <3>1. m.kind \in {"Version", "Stat", "Read", "Write", "Create", "Remove", "Clunk"}
      BY <1>1, <2>4 DEF Yielded, T
    <3> QED
      BY <3>1 DEF TFormat
  <2> QED
    BY <1>2, <2>1, <2>2, <2>3, <2>4 DEF CoroStages, SendStages
<1>17. Sent(m, now)'
  <2>1. Asked(m)
    BY <1>13, <1>15, <1>16 DEF Asked
  <2>2. cl'.next_fid = next
    BY <1>2, <1>14
  <2> QED
    BY <1>8, <1>16, <2>1, <2>2 DEF Sent
<1>18. toServer = <<>> /\ toClient = <<>> /\ blocked = {} /\ answered = <<>>
  BY <1>2, <1>4 DEF Places
<1>19. toServer' = <<m>> /\ DOMAIN <<m>> = {1} /\ <<m>>[1] = m
  BY <1>2, <1>18
<1>20. IsSeq(toServer') /\ Len(toServer') <= 1
  <2>1. \E r : toServer' = <<r>>
    BY <1>19
  <2> QED
    BY ONLY <2>1, OneAtMost
<1>21. Places'
  <2>1. stream_lock' # NoClone
    BY <1>2, ClientAssumption
  <2>2. toClient' = <<>> /\ blocked' = {} /\ answered' = <<>>
    BY <1>2, <1>18
  <2>3. IsSeq(toClient') /\ Len(toClient') <= 1
    BY ONLY <2>2, OneAtMost
  <2>4. IsSeq(answered') /\ Len(answered') <= 1
    BY ONLY <2>2, OneAtMost
  <2> QED
    BY <1>20, <2>1, <2>2, <2>3, <2>4 DEF Places
<1>22. \A i \in DOMAIN toServer' : \E u \in Clones : th'[u].waiting /\ Sent(toServer[i], th[u])'
  <2>1. ASSUME NEW i \in DOMAIN toServer' PROVE th'[t].waiting /\ Sent(toServer[i], th[t])'
    <3>1. toServer'[i] = m
      BY <1>19, <2>1
    <3> QED
      BY <1>8, <1>11, <1>17, <3>1 DEF Sent
  <2> QED
    BY <2>1
<1>23. FidsOK'
  <2>1. PICK c : c = cl'
    OBVIOUS
  <2>2. c = cl' /\ DOMAIN c = ClientFields /\ c.next_fid = next /\ c.fids = cl.fids
    BY <1>2, <1>4, <1>14, <2>1 DEF FidsOK
  <2>3. c.next_fid \in Nat \ {0} /\ c.next_fid >= cl.next_fid
    BY <1>14, <1>15, <2>2
  <2>4. \A p \in DOMAIN c.fids : c.fids[p] \in 0 .. c.next_fid - 1 /\ Leads(c.fids[p], p)
    BY <1>4, <1>14, <2>2 DEF FidsOK
  <2>5. now.fid \in 0 .. c.next_fid - 1 /\ Leads(now.fid, now.path)
    BY <1>1, <1>4, <1>8, <1>14, <2>2 DEF FidsOK
  <2>6. \A fid \in DOMAIN ss.fids : fid < next
    BY <1>4, <1>6, <1>14 DEF FidsOK, Walking
  <2>7. next \notin DOMAIN ss.fids
    BY <1>15, <2>6
  <2>8. \A u \in Clones : (th'[u].waiting /\ th'[u].stage = "walk") => Leads(c.next_fid, th'[u].path)
    BY <2>2, <2>7 DEF Leads
  <2>9. \A fid \in DOMAIN ss.fids : fid < c.next_fid
            \/ (fid = c.next_fid /\ \E u \in Clones : th'[u].waiting /\ th'[u].stage = "walk")
    BY <2>2, <2>6
  <2>10. UNCHANGED <<ss, fs>>
    BY <1>2
  <2> QED
    BY ONLY <1>4, <1>10, <2>2, <2>3, <2>4, <2>5, <2>8, <2>9, <2>10, t \in Clones, StepFids
<1>24. LibraryOK'
  BY <1>21, <1>22, <1>23 DEF LibraryOK
<1> QED
  BY <1>2, <1>3, <1>12, <1>24, LibraryStep

(* A clone gets its reply, and the fid that it walked to is its own.        *)
LEMMA ReceiveStep ==
  ASSUME IInv, NEW t \in Clones, Receive(t)
  PROVE  IInv'
<1>1. PICK w, r, now, c : w = th[t] /\ r = Head(toClient) /\ now = Resume(w, r) /\ c = ClientAfter(t, r)
  OBVIOUS
<1>2. /\ w.waiting /\ toClient # <<>> /\ toClient' = Tail(toClient) /\ stream_lock' = NoClone
      /\ th' = [th EXCEPT ![t] = now] /\ cl' = c
      /\ state_lock' = IF state_lock = t /\ now.stage \notin CoroStages THEN NoClone ELSE state_lock
      /\ UNCHANGED <<ss, fs, toServer, blocked, answered, driver>>
  BY <1>1 DEF Receive
<1>3. ThreadOK(w)
  BY <1>1 DEF IInv, LocksOK
<1>4. w.stage \in CoroStages \cup SendStages
  BY <1>2, <1>3 DEF ThreadOK
<1>5. driver = "library"
  BY <1>1, <1>4, OnlyLibrary DEF CoroStages, SendStages
<1>6. LocksOK /\ LibraryOK /\ FidsOK /\ Places
  BY <1>5 DEF IInv, LibraryOK
<1>7. now = Resume(w, r)
  BY <1>1
<1>8. /\ Moves(w, now) /\ ThreadOK(now)
      /\ w.stage \in SendStages => now.stage \notin CoroStages
      /\ now.fid = IF w.stage = "walk" /\ r.kind # "Error" THEN cl.next_fid ELSE w.fid
  BY ONLY <1>2, <1>3, <1>7, ResumeFacts
<1>9. now.waiting = FALSE /\ now.path = w.path
  BY <1>8 DEF Moves
<1>10. Turn(t, now)
  BY <1>2, <1>6, TurnFacts
<1>11. th'[t] = now /\ \A u \in Clones : u # t => th'[u] = th[u]
  BY <1>10 DEF Turn
<1>12. stream_lock = t /\ \A u \in Clones : u # t => th[u].waiting = FALSE
  <2>1. stream_lock = t
    BY <1>1, <1>2, <1>6 DEF LocksOK
  <2> QED
    BY <1>6, <2>1 DEF LocksOK, ThreadOK
<1>13. LocksOK'
  <2>1. (stream_lock' = t) <=> now.waiting
    BY <1>2, <1>9, ClientAssumption
  <2>2. \A u \in Clones : u # t => ((stream_lock' = u) <=> (stream_lock = u))
    BY <1>2, <1>12, ClientAssumption
  <2>3. (state_lock' = t) <=> (now.stage \in CoroStages)
    <3>1. (state_lock = t) <=> (w.stage \in CoroStages)
      BY <1>1, <1>6 DEF LocksOK
    <3> QED
      BY <1>2, <1>4, <1>8, <3>1, ClientAssumption
  <2>4. \A u \in Clones : u # t => ((state_lock' = u) <=> (state_lock = u))
    BY <1>2, ClientAssumption
  <2> QED
    BY ONLY <1>6, <1>8, <1>10, <2>1, <2>2, <2>3, <2>4, t \in Clones, StepLocks
<1>14. toServer = <<>> /\ blocked = {} /\ answered = <<>>
  BY <1>2, <1>6 DEF Places
<1>15. toClient' = <<>>
  BY <1>2, <1>6, SeqOne DEF Places
<1>16. Places'
  <2>1. toServer' = <<>> /\ blocked' = {} /\ answered' = <<>>
    BY <1>2, <1>14
  <2>2. IsSeq(toClient') /\ Len(toClient') <= 1
    BY ONLY <1>15, OneAtMost
  <2>3. IsSeq(answered') /\ Len(answered') <= 1
    BY ONLY <2>1, OneAtMost
  <2>4. IsSeq(toServer') /\ Len(toServer') <= 1
    BY ONLY <2>1, OneAtMost
  <2> QED
    BY <1>15, <2>1, <2>2, <2>3, <2>4 DEF Places
<1>17. \A i \in DOMAIN toServer' : FALSE
  BY <1>2, <1>14
<1>18. PICK next, old : next = cl.next_fid /\ old = cl.fids
  OBVIOUS
<1>19. /\ DOMAIN cl = ClientFields /\ next \in Nat \ {0}
       /\ \A p \in DOMAIN old : old[p] \in 0 .. next - 1 /\ Leads(old[p], p)
       /\ w.fid \in 0 .. next - 1 /\ Leads(w.fid, w.path)
       /\ w.stage = "walk" => Leads(next, w.path)
       /\ \A fid \in DOMAIN ss.fids : fid < next \/ (fid = next /\ w.stage = "walk")
  <2>1. \A u \in Clones : Walking(u) => u = t /\ w.stage = "walk"
    BY <1>1, <1>12 DEF Walking
  <2> QED
    BY <1>1, <1>2, <1>6, <1>18, <2>1 DEF FidsOK, Walking
<1>20. FidsOK'
  <2>1. /\ DOMAIN c = ClientFields
        /\ c.next_fid = IF w.stage = "walk" THEN next + 1 ELSE next
        /\ c.fids = old \/ (w.stage = "walk" /\ r.kind # "Error" /\ c.fids = Bind(old, w.path, next))
    <3>1. \/ w.stage = "walk" /\ r.kind = "Error" /\ c = [cl EXCEPT !.next_fid = @ + 1]
          \/ w.stage = "walk" /\ r.kind # "Error"
             /\ c = [cl EXCEPT !.next_fid = @ + 1, !.fids = Bind(@, w.path, cl.next_fid)]
          \/ w.stage # "walk" /\ c = [cl EXCEPT !.connected = TRUE]
          \/ w.stage # "walk" /\ c = [cl EXCEPT !.msize = r.content[1]]
          \/ w.stage # "walk" /\ c = cl
      BY <1>1 DEF ClientAfter
    <3> QED
      BY <1>18, <1>19, <3>1 DEF ClientFields
  <2>2. PICK k : k = c.next_fid
    OBVIOUS
  <2>3. /\ k \in Nat \ {0} /\ k >= next /\ (\A i \in 0 .. next - 1 : i \in 0 .. k - 1)
        /\ w.stage = "walk" => next \in 0 .. k - 1 /\ k = next + 1
        /\ w.stage # "walk" => k = next
    BY <1>19, <2>1, <2>2
  <2>4. \A p \in DOMAIN c.fids : c.fids[p] \in 0 .. k - 1 /\ Leads(c.fids[p], p)
    <3>1. CASE c.fids = old
      BY <1>19, <2>3, <3>1
    <3>2. CASE w.stage = "walk" /\ r.kind # "Error" /\ c.fids = Bind(old, w.path, next)
      <4>1. PICK new, path : new = c.fids /\ path = w.path
        OBVIOUS
      <4>2. new = Bind(old, path, next)
        BY <3>2, <4>1
      <4>3. \A x \in DOMAIN new : (x = path /\ new[x] = next) \/ (x \in DOMAIN old /\ new[x] = old[x])
        BY ONLY <4>2 DEF Bind
      <4>4. Leads(next, path) /\ next \in 0 .. k - 1
        BY <1>19, <2>3, <3>2, <4>1
      <4>5. \A p \in DOMAIN new : new[p] \in 0 .. k - 1 /\ Leads(new[p], p)
        BY <1>19, <2>3, <4>3, <4>4
      <4> QED
        BY <4>1, <4>5
    <3> QED
      BY <2>1, <3>1, <3>2
  <2>5. now.fid \in 0 .. k - 1 /\ Leads(now.fid, now.path)
    BY <1>8, <1>9, <1>18, <1>19, <2>3
  <2>6. \A u \in Clones : (th'[u].waiting /\ th'[u].stage = "walk") => FALSE
    BY <1>9, <1>11, <1>12
  <2>7. \A fid \in DOMAIN ss.fids : fid < k
    <3>1. ASSUME NEW fid \in DOMAIN ss.fids PROVE fid < k
      <4>1. fid \in Nat
        BY DEF IInv, SessionOK, FidMap
      <4> QED
        BY <1>19, <2>3, <4>1
    <3> QED
      BY <3>1
  <2>8. \A fid \in DOMAIN ss.fids : fid < c.next_fid
            \/ (fid = c.next_fid /\ \E u \in Clones : th'[u].waiting /\ th'[u].stage = "walk")
    BY <2>2, <2>7
  <2>9. \A u \in Clones : (th'[u].waiting /\ th'[u].stage = "walk") => Leads(c.next_fid, th'[u].path)
    BY <2>6
  <2>10. c = cl' /\ DOMAIN c = ClientFields /\ c.next_fid \in Nat \ {0} /\ c.next_fid >= cl.next_fid
    BY <1>2, <1>18, <2>1, <2>2, <2>3
  <2>11. \A p \in DOMAIN c.fids : c.fids[p] \in 0 .. c.next_fid - 1 /\ Leads(c.fids[p], p)
    BY <2>2, <2>4
  <2>12. now.fid \in 0 .. c.next_fid - 1 /\ Leads(now.fid, now.path)
    BY <2>2, <2>5
  <2>13. UNCHANGED <<ss, fs>>
    BY <1>2
  <2> QED
    BY ONLY <1>6, <1>10, <2>8, <2>9, <2>10, <2>11, <2>12, <2>13, t \in Clones, StepFids
<1>21. LibraryOK'
  BY <1>16, <1>17, <1>20 DEF LibraryOK
<1> QED
  BY <1>2, <1>5, <1>13, <1>21, LibraryStep

----------------------------------------------------------------------------
(* The steps of the server, and of a client that speaks 9p itself.          *)

(* A request is handled.                                                    *)
LEMMA HandleStep ==
  ASSUME CreatesUnopened, IInv, HandleConnectionUnattached \/ HandleConnection \/ HandleConnectionAsync,
         UNCHANGED clientVars
  PROVE  IInv'
<1>1. PICK o : Handled(o)
  BY ServerHandles
<1>2. SessionOK(ss', fs')
  BY <1>1, HandledSession
<1>3. LocksOK /\ LocksOK'
  BY LocksKept DEF IInv
<1>4. driver' = driver
  BY DEF clientVars
<1>5. CASE driver = "library"
  <2>1. LibraryOK
    BY <1>5 DEF IInv
  <2>2. LibraryOK'
    BY <1>1, <1>3, <2>1, HandledLibrary
  <2> QED
    BY <1>2, <1>3, <1>4, <1>5, <2>2 DEF IInv
<1>6. CASE driver # "library"
  <2>1. RawOK
    BY <1>6 DEF IInv
  <2>2. RawOK'
    BY <1>1, <1>6, <2>1, HandledRaw
  <2> QED
    BY <1>2, <1>3, <1>4, <1>6, <2>2 DEF IInv
<1> QED
  BY <1>5, <1>6

(* A step that leaves the session and the clones alone.                     *)
LEMMA QuietServer ==
  ASSUME IInv, UNCHANGED <<ss, fs>>, UNCHANGED clientVars,
         driver = "library" => LibraryOK', driver # "library" => RawOK'
  PROVE  IInv'
<1>1. LocksOK'
  BY LocksKept DEF IInv
<1>2. driver' = driver
  BY DEF clientVars
<1> QED
  BY <1>1, <1>2 DEF IInv, SessionOK

(* The server takes a step.                                                 *)
LEMMA ServerStep ==
  ASSUME CreatesUnopened, IInv, Server
  PROVE  IInv'
<1>1. UNCHANGED clientVars
  BY DEF Server
<1>2. CASE HandleConnectionUnattached \/ HandleConnection \/ HandleConnectionAsync
  BY <1>1, <1>2, HandleStep
<1>3. ASSUME NEW tag, NEW data, AnswerBlocked(tag, data)
      PROVE  IInv'
  <2>1. UNCHANGED <<ss, fs>>
    BY <1>3 DEF AnswerBlocked
  <2>2. driver = "library" => LibraryOK'
    BY <1>1, <1>3, AnswerLibrary DEF IInv
  <2>3. driver # "library" => RawOK'
    BY <1>1, <1>3, AnswerRaw DEF IInv
  <2> QED
    BY <1>1, <2>1, <2>2, <2>3, QuietServer
<1>4. ASSUME NEW tag, NEW data, SendBlocked(tag, data)
      PROVE  IInv'
  <2>1. UNCHANGED <<ss, fs>>
    BY <1>4 DEF SendBlocked
  <2>2. driver = "library" => LibraryOK'
    BY <1>1, <1>4, AnswerLibrary DEF IInv
  <2>3. driver # "library" => RawOK'
    BY <1>1, <1>4, SendBlockedRaw DEF IInv
  <2> QED
    BY <1>1, <2>1, <2>2, <2>3, QuietServer
<1>5. CASE SelectBlocked
  <2>1. UNCHANGED <<ss, fs>>
    BY <1>5 DEF SelectBlocked
  <2>2. driver = "library" => LibraryOK'
    BY <1>1, <1>5, SelectLibrary DEF IInv
  <2>3. driver # "library" => RawOK'
    BY <1>1, <1>5, SelectRaw DEF IInv
  <2> QED
    BY <1>1, <2>1, <2>2, <2>3, QuietServer
<1> QED
  BY <1>2, <1>3, <1>4, <1>5 DEF Server, ServerNext

(* A client that speaks 9p itself takes a step.                             *)
LEMMA RawStep ==
  ASSUME IInv, Raw
  PROVE  IInv'
<1>1. UNCHANGED clientVars /\ driver = "raw" /\ driver # "library"
  BY DEF Raw
<1>2. RawOK /\ SessionOK(ss, fs) /\ LocksOK
  BY <1>1 DEF IInv
<1>3. CASE RawSend
  <2>1. UNCHANGED <<ss, fs>>
    BY <1>3 DEF RawSend
  <2>2. RawOK'
    BY <1>1, <1>2, <1>3, SendRaw
  <2> QED
    BY <1>1, <2>1, <2>2, QuietServer
<1>4. CASE RawReceive
  <2>1. UNCHANGED <<ss, fs>>
    BY <1>4 DEF RawReceive
  <2>2. RawOK'
    BY <1>1, <1>2, <1>4, ReceiveRaw
  <2> QED
    BY <1>1, <2>1, <2>2, QuietServer
<1>5. CASE Disconnected
  <2>1. RawOK' /\ SessionOK(ss', fs')
    BY <1>1, <1>2, <1>5, DisconnectedRaw
  <2>2. LocksOK'
    BY <1>1, <1>2, LocksKept
  <2>3. driver' # "library"
    BY <1>1 DEF clientVars
  <2> QED
    BY <2>1, <2>2, <2>3 DEF IInv
<1> QED
  BY <1>3, <1>4, <1>5 DEF Raw

(* Nothing happens.                                                         *)
LEMMA StutterStep ==
  ASSUME IInv, UNCHANGED vars
  PROVE  IInv'
<1>1. UNCHANGED serverVars /\ UNCHANGED rawVars /\ UNCHANGED clientVars
  BY DEF vars
<1>2. /\ UNCHANGED <<ss, fs, toServer, toClient, blocked, answered>> /\ UNCHANGED outstanding
      /\ UNCHANGED <<driver, cl, stream_lock, th>>
  BY <1>1 DEF serverVars, rawVars, clientVars
<1>3. ASSUME RawOK PROVE RawOK'
  BY <1>2, <1>3 DEF RawOK, InFlight
<1>4. ASSUME LibraryOK PROVE LibraryOK'
  <2>1. FidsOK'
    BY <1>2, <1>4, FidsKept DEF LibraryOK
  <2>2. Places'
    BY <1>2, <1>4 DEF LibraryOK, Places
  <2> QED
    BY <1>2, <1>4, <2>1, <2>2 DEF LibraryOK, Sent
<1> QED
  BY <1>1, <1>2, <1>3, <1>4, QuietServer DEF IInv

----------------------------------------------------------------------------
(* The theorem.                                                             *)

(* The invariant holds at first, ...                                        *)
LEMMA SessionInit ==
  ASSUME Init
  PROVE  IInv
<1>1. /\ ss = NewSession /\ fs = InitFs /\ toServer = <<>> /\ toClient = <<>> /\ blocked = {} /\ answered = <<>>
      /\ outstanding = <<>> /\ stream_lock = NoClone
  BY DEF Init, ServerInit, ClientInit
<1>2. IsSeq(<<>>) /\ Len(<<>>) = 0 /\ DOMAIN <<>> = {}
  BY DEF IsSeq
<1>3. /\ DOMAIN ss = SessionFields /\ ss.phase = "unattached" /\ ss.fids = <<>>
      /\ ss.qids = [q \in {QidRoot} |-> FileMeta(QidRoot)]
      /\ DOMAIN fs = FileFields /\ fs.files \subseteq Qids /\ fs.open = {}
  BY <1>1 DEF NewSession, InitFs, SessionFields, FileFields
<1>4. SessionOK(ss, fs)
  <2>1. DOMAIN ss.qids = {QidRoot} /\ ss.qids[QidRoot] = FileMeta(QidRoot) /\ QidRoot \in Qids
    BY <1>3 DEF QidRoot, Qids
  <2> QED
    BY <1>2, <1>3, <2>1 DEF SessionOK, FidMap
<1>5. LocksOK
  <2>1. \A t \in Clones : /\ ThreadOK(th[t]) /\ th[t].waiting = FALSE
                          /\ th[t].stage \in CoroStages <=> (driver = "library" /\ t = Connecting)
    <3>1. ASSUME NEW t \in Clones
          PROVE  /\ ThreadOK(th[t]) /\ th[t].waiting = FALSE
                 /\ th[t].stage \in CoroStages <=> (driver = "library" /\ t = Connecting)
      <4>1. PICK w : w = th[t]
        OBVIOUS
      <4>2. w = IF driver = "library" /\ t = Connecting THEN [Idle EXCEPT !.op = "connect", !.stage = "version"] ELSE Idle
        BY <4>1 DEF Init, ClientInit
      <4>3. /\ DOMAIN w = DOMAIN Idle /\ w.waiting = FALSE
            /\ w.stage = IF driver = "library" /\ t = Connecting THEN "version" ELSE "idle"
        BY <4>2, IdleFacts DEF ThreadFields
      <4> QED
        BY <4>1, <4>3 DEF ThreadOK, Threads, Named, CoroStages, SendStages
    <3> QED
      BY <3>1
  <2>2. DOMAIN th = Clones
    BY DEF Init, ClientInit
  <2>3. \A t \in Clones : (state_lock = t) <=> (driver = "library" /\ t = Connecting)
    BY ClientAssumption DEF Init, ClientInit
  <2>4. \A t \in Clones : stream_lock # t
    BY <1>1, ClientAssumption
  <2> QED
    BY <2>1, <2>2, <2>3, <2>4 DEF LocksOK
<1>6. LibraryOK
  <2>1. Places
    BY <1>1, <1>2 DEF Places
  <2>2. DOMAIN cl = ClientFields /\ cl.next_fid = 1 /\ cl.fids = Bind(<<>>, <<>>, 0)
    BY DEF Init, ClientInit, ClientFields
  <2>3. \A p \in DOMAIN cl.fids : cl.fids[p] = 0
    BY <1>2, <2>2 DEF Bind
  <2>4. \A t \in Clones : th[t].fid = 0 /\ ~ Walking(t)
    <3>1. ASSUME NEW t \in Clones PROVE th[t].fid = 0 /\ ~ Walking(t)
      <4>1. PICK w : w = th[t]
        OBVIOUS
      <4>2. w = IF driver = "library" /\ t = Connecting THEN [Idle EXCEPT !.op = "connect", !.stage = "version"] ELSE Idle
        BY <4>1 DEF Init, ClientInit
      <4>3. w.fid = 0 /\ w.waiting = FALSE
        BY <4>2, IdleFacts DEF ThreadFields
      <4> QED
        BY <4>1, <4>3 DEF Walking
    <3> QED
      BY <3>1
  <2>5. DOMAIN ss.fids = {}
    BY <1>2, <1>3
  <2>6. FidsOK
    BY <1>3, <2>2, <2>3, <2>4, <2>5 DEF FidsOK, Leads
  <2> QED
    BY <1>1, <1>2, <2>1, <2>6 DEF LibraryOK
<1>7. driver # "library" => RawOK
  <2>1. ASSUME NEW tag PROVE InFlight(tag) = 0
    BY <1>1, InFlightParts, TagsEmpty DEF One
  <2>2. driver # "library" => \A t \in Clones : th[t].stage = "idle"
    BY IdleFacts DEF Init, ClientInit
  <2> QED
    BY <1>1, <1>2, <2>1, <2>2 DEF RawOK
<1> QED
  BY <1>4, <1>5, <1>6, <1>7 DEF IInv

(* ... and every step keeps it.                                             *)
LEMMA SessionNext ==
  ASSUME CreatesUnopened, IInv, [Next]_vars
  PROVE  IInv'
<1>1. CASE \E t \in Clones, o \in Ops: Begin(t, o[1], o[2])
  BY <1>1, BeginStep
<1>2. CASE \E t \in Clones, o \in Ops: ClunkPath(t, o[2])
  BY <1>2, ClunkPathStep
<1>3. CASE \E t \in Clones: NextItem(t)
  BY <1>3, NextItemStep
<1>4. CASE \E t \in Clones: Send(t)
  BY <1>4, SendStep
<1>5. CASE \E t \in Clones: Receive(t)
  BY <1>5, ReceiveStep
<1>6. CASE \E t \in Clones: Retain(t)
  BY <1>6, RetainStep
<1>7. CASE Server
  BY <1>7, ServerStep
<1>8. CASE Raw
  BY <1>8, RawStep
<1>9. CASE UNCHANGED vars
  BY <1>9, StutterStep
<1> QED
  BY <1>1, <1>2, <1>3, <1>4, <1>5, <1>6, <1>7, <1>8, <1>9 DEF Next

(* SessionInv, for every number of clones, every set of operations that     *)
(* does not open the directory that it creates a file in, and every bound:  *)
(* handle_request, the deferred reads and clunk_and_clear keep every fid in *)
(* the cache of files and every open file held by a fid; the two locks of   *)
(* the clones exclude each other; and every request of a client is on its   *)
(* way, waits for the filesystem or is answered, and only once.             *)
THEOREM NinepSession ==
  ASSUME CreatesUnopened
  PROVE  Spec => []SessionInv
<1>1. Init => IInv
  BY SessionInit
<1>2. IInv /\ [Next]_vars => IInv'
  BY SessionNext
<1>3. IInv => SessionInv
  BY SessionFollows
<1> QED
  BY <1>1, <1>2, <1>3, PTL DEF Spec
=============================================================================
