------------------------------ MODULE LspProofs ------------------------------
(***************************************************************************)
(* The manager's bookkeeping (LspInv) for any number of servers, of        *)
(* documents and of tokens, and any scene.  The inductive invariant says   *)
(* what the channel, the servers' pipes and the manager's maps hold (Typed),*)
(* that a server which was not started has said nothing (Fresh), that a    *)
(* question that was written to a server is in one place with what the     *)
(* manager kept for it (Matched, Once, Kept), and that what a server says  *)
(* of its progress comes after it began and before it ended (Titled).      *)
(* The question that a handler is about to send was begun (Asking).        *)
(* Then, what the servers know of documents (AskedInSync): what was told   *)
(* and not yet taken back, along the channel and the pipes (Sync).         *)
(***************************************************************************)
EXTENDS Lsp, FiniteSetTheorems, TLAPS

----------------------------------------------------------------------------
(* The inductive invariant.  m is the manager, s the servers, rs the        *)
(* channel.                                                                 *)

IsSeq(q) == q \in Seq({ q[i] : i \in DOMAIN q })

Kinds == Questions \cup {"initialize", "resolve", "shutdown"}
Located == {"goto", "references", "rename"}

(* what a server says to its reader *)
Said(msg) ==
    /\ msg.k \in {"response", "request", "notify"}
    /\ (msg.k = "response" /\ msg.m \in Located) => msg.res.d \in Docs

(* what the editor asks for, and what is on the channel *)
Wish(r) ==
    /\ r.k \in {"start", "stop", "request", "notify"}
    /\ r.k = "start" => DOMAIN r.docs \subseteq Docs
    /\ r.k = "request" => /\ r.m \in Questions \cup {"resolve"}
                          /\ r = Request(r.id, r.m, r.d, r.v)
OnChannel(r) == Wish(r) \/ (r.k = "message" /\ r.id \in Ids /\ Said(r.msg))

(* what the manager sends to the editor, and what the user is asked *)
Action(e) ==
    /\ e.k \in {"open", "references", "edit", "rename", "resolve", "complete", "newName"}
    /\ e.k \in {"open", "references", "rename"} => e.d \in Docs
Menu(p) ==
    /\ p.k \in {"references", "list", "complete", "resolve", "newName"}
    /\ p.k = "references" => p.d \in Docs
    /\ p.k = "list" => p.d \subseteq Docs

EdFields == {"open", "active", "txt", "disk", "dirty", "log", "fresh", "stale", "unopened",
             "prompts", "asleep", "ops"}
Buffers(w) ==
    /\ w.open \subseteq Docs /\ w.active \in w.open \cup {NoDoc}
    /\ IsSeq(w.prompts) /\ \A i \in DOMAIN w.prompts : Menu(w.prompts[i])
EdTyped(w) == DOMAIN w = EdFields /\ Buffers(w)

SrvFields == {"st", "in", "todo", "out", "reader", "has", "begun", "pushed", "known"}
ServerTyped(sv) ==
    /\ DOMAIN sv = SrvFields
    /\ IsSeq(sv.in) /\ IsSeq(sv.out)
    /\ \A i \in DOMAIN sv.out : Said(sv.out[i]) \/ sv.out[i].k = "garbage"

ManFields == {"clients", "pending", "titles", "next", "join", "caps", "diags", "status"}
ManTyped(m) ==
    /\ DOMAIN m = ManFields
    /\ m.next \in 0 .. Servers
    /\ m.join \in (0 .. m.next - 1) \cup {NoId} /\ m.join \notin DOMAIN m.clients
    /\ DOMAIN m.clients \subseteq 0 .. m.next - 1
    /\ \A id \in DOMAIN m.clients : DOMAIN m.clients[id] = {"status", "enc", "next"} /\ m.clients[id].next \in Nat
    /\ m.caps \in [Ftypes -> (0 .. m.next - 1) \cup {NoId}]
    /\ \A f \in Ftypes, id \in DOMAIN m.clients : m.caps[f] = id => m.clients[id].status = "Running"
    /\ DOMAIN m.titles = Ids
    /\ DOMAIN m.pending \subseteq (0 .. m.next - 1) \X Nat
    /\ \A key \in DOMAIN m.pending :
         /\ m.pending[key].m \in Kinds
         /\ m.pending[key].m = "initialize" => DOMAIN m.pending[key].docs \subseteq Docs
    /\ m.status.of \in {"begin", "report"} => m.status.title = m.status.id

ReqsTyped(rs) == IsSeq(rs) /\ \A i \in DOMAIN rs : OnChannel(rs[i])
EventsTyped(es) == IsSeq(es) /\ \A i \in DOMAIN es : Action(es[i])

From(r, id) == r.k = "message" /\ r.id = id

(* servers that were not started *)
FreshAt(m, sv, rs, id) ==
    id >= m.next =>
        /\ sv.st # "up" /\ sv.in = <<>> /\ sv.todo = {} /\ sv.out = <<>> /\ sv.begun = {}
        /\ \A i \in DOMAIN rs : ~ From(rs[i], id)

(* a question, or an answer to it, is what the manager thinks it is *)
Matches(m, id, q) ==
    /\ q.rid \in Nat
    /\ id \in DOMAIN m.clients => q.rid < m.clients[id].next
    /\ <<id, q.rid>> \in DOMAIN m.pending =>
         LET p == m.pending[<<id, q.rid>>] IN p.m = q.m /\ p.d = q.d /\ p.v = q.v
IsAnswer(r, id) == From(r, id) /\ r.msg.k = "response"

MatchedAt(m, sv, rs, id) ==
    /\ \A i \in DOMAIN sv.in : sv.in[i].k = "request" => Matches(m, id, sv.in[i])
    /\ \A q \in sv.todo : Matches(m, id, q)
    /\ \A i \in DOMAIN sv.out : sv.out[i].k = "response" => Matches(m, id, sv.out[i])
    /\ \A i \in DOMAIN rs : IsAnswer(rs[i], id) => Matches(m, id, rs[i].msg)

(* the questions of a kind in a pipe, in a server and on the channel *)
Rids(q, k) == { q[i].rid : i \in { j \in DOMAIN q : q[j].k = k } }
TodoRids(todo) == { q.rid : q \in todo }
ReqRids(rs, id) == { rs[i].msg.rid : i \in { j \in DOMAIN rs : IsAnswer(rs[j], id) } }

NoTwice(q, k) == \A i, j \in DOMAIN q : (q[i].k = k /\ q[j].k = k /\ q[i].rid = q[j].rid) => i = j
NoTwiceTodo(todo) == \A p, q \in todo : p.rid = q.rid => p = q
NoTwiceReqs(rs, id) ==
    \A i, j \in DOMAIN rs : (IsAnswer(rs[i], id) /\ IsAnswer(rs[j], id) /\ rs[i].msg.rid = rs[j].msg.rid) => i = j

OnceAt(sv, rs, id) ==
    /\ NoTwice(sv.in, "request") /\ NoTwiceTodo(sv.todo) /\ NoTwice(sv.out, "response") /\ NoTwiceReqs(rs, id)
    /\ Rids(sv.in, "request") \cap TodoRids(sv.todo) = {}
    /\ Rids(sv.in, "request") \cap Rids(sv.out, "response") = {}
    /\ Rids(sv.in, "request") \cap ReqRids(rs, id) = {}
    /\ TodoRids(sv.todo) \cap Rids(sv.out, "response") = {}
    /\ TodoRids(sv.todo) \cap ReqRids(rs, id) = {}
    /\ Rids(sv.out, "response") \cap ReqRids(rs, id) = {}

Listens(sv) == sv.st = "up" /\ sv.reader = "up" /\ \A i \in DOMAIN sv.out : sv.out[i].k # "garbage"
Places(sv, rs, id) ==
    Rids(sv.in, "request") \cup TodoRids(sv.todo) \cup Rids(sv.out, "response") \cup ReqRids(rs, id)
KeptAt(m, sv, rs, id) ==
    Listens(sv) => \A key \in DOMAIN m.pending : key[1] = id => key[2] \in Places(sv, rs, id)

(* Where progress begins and ends.  It is open at n when it began before n  *)
(* and nothing has ended it since.                                          *)
Begins(msg, t) == msg.k = "notify" /\ msg.m = "begin" /\ msg.tok = t
Ends(msg, t)   == /\ (msg.k = "request" /\ msg.m = "create") \/ (msg.k = "notify" /\ msg.m = "end")
                  /\ msg.tok = t
Reports(msg)   == msg.k = "notify" /\ msg.m = "report"

OutBegins(out, t)     == { i \in DOMAIN out : Begins(out[i], t) }
OutEnds(out, t)       == { i \in DOMAIN out : Ends(out[i], t) }
ReqBegins(rs, id, t)  == { i \in DOMAIN rs : From(rs[i], id) /\ Begins(rs[i].msg, t) }
ReqEnds(rs, id, t)    == { i \in DOMAIN rs : From(rs[i], id) /\ Ends(rs[i].msg, t) }

BegunIn(B, E, n)  == \E i \in B : i < n /\ \A j \in E : i < j => n <= j
Untouched(E, n)   == \A j \in E : n <= j

TitledAt(m, id, t) == t \in DOMAIN m.titles[id] /\ m.titles[id][t] = id
OpenReqs(m, rs, id, t, n) ==
    \/ BegunIn(ReqBegins(rs, id, t), ReqEnds(rs, id, t), n)
    \/ TitledAt(m, id, t) /\ Untouched(ReqEnds(rs, id, t), n)
OpenOut(m, out, rs, id, t, n) ==
    \/ BegunIn(OutBegins(out, t), OutEnds(out, t), n)
    \/ OpenReqs(m, rs, id, t, Len(rs) + 1) /\ Untouched(OutEnds(out, t), n)

TitledIn(m, sv, rs, id) ==
    /\ \A k \in DOMAIN rs : (From(rs[k], id) /\ Reports(rs[k].msg)) => OpenReqs(m, rs, id, rs[k].msg.tok, k)
    /\ \A k \in DOMAIN sv.out : Reports(sv.out[k]) => OpenOut(m, sv.out, rs, id, sv.out[k].tok, k)
    /\ sv.reader = "up" => \A t \in sv.begun : OpenOut(m, sv.out, rs, id, t, Len(sv.out) + 1)

(* a server, with what is on the channel and what the manager knows of it *)
ServerOK(m, sv, rs, id) ==
    /\ ServerTyped(sv) /\ FreshAt(m, sv, rs, id)
    /\ MatchedAt(m, sv, rs, id) /\ OnceAt(sv, rs, id) /\ KeptAt(m, sv, rs, id)
    /\ TitledIn(m, sv, rs, id)

(* what the handlers of the manager keep *)
Kernel(m, s, rs) ==
    /\ ManTyped(m) /\ ReqsTyped(rs)
    /\ DOMAIN s = Ids /\ \A id \in Ids : ServerOK(m, s[id], rs, id)

IInv ==
    /\ Kernel(man, srv, reqs)
    /\ EdTyped(ed) /\ EventsTyped(events)
    /\ man.next + StartsIn(reqs) <= Servers
    /\ scene \in Scenes

----------------------------------------------------------------------------
(* Sequences.                                                               *)

(* A sequence has a length and values at the places up to it.               *)
LEMMA SeqFacts ==
  ASSUME NEW q, IsSeq(q)
  PROVE  Len(q) \in Nat /\ DOMAIN q = 1 .. Len(q) /\ (q # <<>> <=> Len(q) > 0)
BY DEF IsSeq

(* A sequence of any values is one of its own.                              *)
LEMMA SeqOfItself ==
  ASSUME NEW S, NEW q \in Seq(S)
  PROVE  IsSeq(q)
BY DEF IsSeq

(* One that is longer by a value.                                           *)
LEMMA SeqAppend ==
  ASSUME NEW q, IsSeq(q), NEW e
  PROVE  /\ IsSeq(Append(q, e)) /\ Len(q) \in Nat /\ Len(Append(q, e)) = Len(q) + 1
         /\ DOMAIN q = 1 .. Len(q) /\ DOMAIN Append(q, e) = 1 .. Len(q) + 1
         /\ \A i \in 1 .. Len(q) : Append(q, e)[i] = q[i]
         /\ Append(q, e)[Len(q) + 1] = e
<1> DEFINE S == { q[i] : i \in DOMAIN q } \cup {e}
           r == Append(q, e)
<1>1. q \in Seq(S) /\ e \in S
  BY DEF IsSeq
<1>2. Len(q) \in Nat /\ DOMAIN q = 1 .. Len(q)
  BY <1>1
<1>3. r \in Seq(S) /\ Len(r) = Len(q) + 1 /\ DOMAIN r = 1 .. Len(q) + 1
  BY <1>1
<1>4. (\A i \in 1 .. Len(q) : r[i] = q[i]) /\ r[Len(q) + 1] = e
  BY <1>1
<1>5. IsSeq(r)
  BY ONLY <1>3, SeqOfItself
<1> QED
  BY <1>2, <1>3, <1>4, <1>5

(* What follows the first value.                                            *)
LEMMA SeqTail ==
  ASSUME NEW q, IsSeq(q), q # <<>>
  PROVE  /\ IsSeq(Tail(q)) /\ Len(q) \in Nat \ {0} /\ Len(Tail(q)) = Len(q) - 1
         /\ DOMAIN q = 1 .. Len(q) /\ DOMAIN Tail(q) = 1 .. Len(q) - 1
         /\ \A i \in 1 .. Len(q) - 1 : Tail(q)[i] = q[i + 1] /\ i + 1 \in DOMAIN q
         /\ Head(q) = q[1] /\ 1 \in DOMAIN q
<1> DEFINE S == { q[i] : i \in DOMAIN q }
           r == Tail(q)
<1>1. q \in Seq(S)
  BY DEF IsSeq
<1>2. Len(q) \in Nat \ {0} /\ DOMAIN q = 1 .. Len(q) /\ Head(q) = q[1]
  BY <1>1
<1>3. r \in Seq(S) /\ Len(r) = Len(q) - 1 /\ DOMAIN r = 1 .. Len(q) - 1
  BY <1>1
<1>4. \A i \in 1 .. Len(q) - 1 : r[i] = q[i + 1]
  BY <1>1
<1>5. IsSeq(r)
  BY ONLY <1>3, SeqOfItself
<1> QED
  BY <1>2, <1>3, <1>4, <1>5

(* One sequence after another.                                              *)
LEMMA SeqConcat ==
  ASSUME NEW q, IsSeq(q), NEW t, IsSeq(t)
  PROVE  /\ IsSeq(q \o t) /\ Len(q) \in Nat /\ Len(t) \in Nat /\ Len(q \o t) = Len(q) + Len(t)
         /\ DOMAIN q = 1 .. Len(q) /\ DOMAIN t = 1 .. Len(t) /\ DOMAIN (q \o t) = 1 .. Len(q) + Len(t)
         /\ \A i \in 1 .. Len(q) : (q \o t)[i] = q[i]
         /\ \A i \in 1 .. Len(t) : (q \o t)[Len(q) + i] = t[i]
<1> DEFINE S == { q[i] : i \in DOMAIN q } \cup { t[i] : i \in DOMAIN t }
           r == q \o t
<1>1. q \in Seq(S) /\ t \in Seq(S)
  BY DEF IsSeq
<1>2. Len(q) \in Nat /\ DOMAIN q = 1 .. Len(q) /\ Len(t) \in Nat /\ DOMAIN t = 1 .. Len(t)
  BY <1>1
<1>3. r \in Seq(S) /\ Len(r) = Len(q) + Len(t) /\ DOMAIN r = 1 .. Len(q) + Len(t)
  BY <1>1
<1>4. (\A i \in 1 .. Len(q) : r[i] = q[i]) /\ \A i \in 1 .. Len(t) : r[Len(q) + i] = t[i]
  BY <1>1
<1>5. IsSeq(r)
  BY ONLY <1>3, SeqOfItself
<1> QED
  BY <1>2, <1>3, <1>4, <1>5

(* The empty one, and one that is given by its values.                      *)
LEMMA SeqMade ==
  /\ IsSeq(<<>>) /\ DOMAIN <<>> = {} /\ Len(<<>>) = 0
  /\ \A n \in Nat : \A f : DOMAIN f = 1 .. n /\ f = [i \in 1 .. n |-> f[i]] => IsSeq(f) /\ Len(f) = n
<1>1. IsSeq(<<>>)
  BY DEF IsSeq
<1>2. ASSUME NEW n \in Nat, NEW f, DOMAIN f = 1 .. n, f = [i \in 1 .. n |-> f[i]]
      PROVE  IsSeq(f) /\ Len(f) = n
  <2>1. f \in [1 .. n -> { f[i] : i \in DOMAIN f }]
    BY <1>2
  <2> QED
    BY <2>1, <1>2 DEF IsSeq
<1> QED
  BY <1>1, <1>2

(* Whatever holds of the values of a sequence and of one more holds of the  *)
(* longer one, and of what follows the first.                               *)
LEMMA ValuesAppend ==
  ASSUME NEW q, IsSeq(q), NEW e, NEW i \in DOMAIN Append(q, e)
  PROVE  (i \in DOMAIN q /\ Append(q, e)[i] = q[i]) \/ (i = Len(q) + 1 /\ Append(q, e)[i] = e)
BY SeqAppend

(* What follows the first value is at the next place of the sequence.       *)
LEMMA ValuesTail ==
  ASSUME NEW q, IsSeq(q), q # <<>>, NEW i \in DOMAIN Tail(q)
  PROVE  i \in Nat /\ i + 1 \in DOMAIN q /\ Tail(q)[i] = q[i + 1]
BY SeqTail

(* A value of two sequences is one of the first, or of the second.          *)
LEMMA ValuesConcat ==
  ASSUME NEW q, IsSeq(q), NEW t, IsSeq(t), NEW i \in DOMAIN (q \o t)
  PROVE  (i \in DOMAIN q /\ (q \o t)[i] = q[i])
         \/ (i - Len(q) \in DOMAIN t /\ (q \o t)[i] = t[i - Len(q)] /\ i > Len(q))
<1>1. CASE i \in DOMAIN q
  BY <1>1, SeqConcat
<1>2. CASE i \notin DOMAIN q
  <2>a. /\ Len(q) \in Nat /\ Len(t) \in Nat /\ DOMAIN q = 1 .. Len(q) /\ DOMAIN t = 1 .. Len(t)
        /\ i \in 1 .. Len(q) + Len(t)
        /\ \A j \in 1 .. Len(t) : (q \o t)[Len(q) + j] = t[j]
    BY SeqConcat
  <2>1. i \in Nat /\ i > Len(q) /\ i - Len(q) \in 1 .. Len(t) /\ i = Len(q) + (i - Len(q))
    BY ONLY <1>2, <2>a
  <2>2. (q \o t)[Len(q) + (i - Len(q))] = t[i - Len(q)]
    BY ONLY <2>1, <2>a
  <2> QED
    BY ONLY <2>1, <2>2, <2>a
<1> QED
  BY <1>1, <1>2

----------------------------------------------------------------------------
(* Where a question is.                                                     *)

(* A pipe that is longer by a message holds its question too.               *)
LEMMA RidsAppend ==
  ASSUME NEW q, IsSeq(q), NEW e, NEW k, NoTwice(q, k)
  PROVE  /\ e.k # k => Rids(Append(q, e), k) = Rids(q, k) /\ NoTwice(Append(q, e), k)
         /\ e.k = k => Rids(Append(q, e), k) = Rids(q, k) \cup {e.rid}
         /\ (e.k = k /\ e.rid \notin Rids(q, k)) => NoTwice(Append(q, e), k)
<1> DEFINE r == Append(q, e)
<1>1. /\ Len(q) \in Nat /\ DOMAIN q = 1 .. Len(q) /\ DOMAIN r = 1 .. Len(q) + 1
      /\ \A i \in 1 .. Len(q) : r[i] = q[i]
      /\ r[Len(q) + 1] = e
  BY SeqAppend
<1> HIDE DEF r
<1>2. DOMAIN r = DOMAIN q \cup {Len(q) + 1} /\ Len(q) + 1 \notin DOMAIN q
      /\ \A i \in DOMAIN q : r[i] = q[i]
  BY ONLY <1>1
<1>3. e.k # k => Rids(r, k) = Rids(q, k) /\ NoTwice(r, k)
  BY ONLY <1>1, <1>2, NoTwice(q, k) DEF Rids, NoTwice
<1>4. e.k = k => Rids(r, k) = Rids(q, k) \cup {e.rid}
  BY ONLY <1>1, <1>2 DEF Rids
<1>5. (e.k = k /\ e.rid \notin Rids(q, k)) => NoTwice(r, k)
  BY ONLY <1>1, <1>2, NoTwice(q, k) DEF Rids, NoTwice
<1> QED
  BY <1>3, <1>4, <1>5 DEF r

(* One without its first message holds the questions of the others.         *)
LEMMA RidsTail ==
  ASSUME NEW q, IsSeq(q), q # <<>>, NEW k, NoTwice(q, k)
  PROVE  /\ NoTwice(Tail(q), k)
         /\ Head(q).k # k => Rids(Tail(q), k) = Rids(q, k)
         /\ Head(q).k = k => /\ Rids(Tail(q), k) = Rids(q, k) \ {Head(q).rid}
                             /\ Head(q).rid \in Rids(q, k)
<1> DEFINE r == Tail(q)
           h == Head(q)
<1>1. /\ Len(q) \in Nat \ {0} /\ DOMAIN q = 1 .. Len(q) /\ DOMAIN r = 1 .. Len(q) - 1
      /\ \A i \in 1 .. Len(q) - 1 : r[i] = q[i + 1]
      /\ h = q[1]
  BY SeqTail
<1> HIDE DEF r, h
<1>2. /\ 1 \in DOMAIN q
      /\ \A i \in DOMAIN r : i \in Int /\ i + 1 \in DOMAIN q /\ i + 1 # 1 /\ r[i] = q[i + 1]
      /\ \A i \in DOMAIN q : i # 1 => i - 1 \in DOMAIN r /\ r[i - 1] = q[i]
  BY ONLY <1>1
<1>3. NoTwice(r, k)
  <2>1. ASSUME NEW i \in DOMAIN r, NEW j \in DOMAIN r, r[i].k = k, r[j].k = k, r[i].rid = r[j].rid
        PROVE  i = j
    <3>1. i + 1 = j + 1
      BY ONLY <1>2, <2>1, NoTwice(q, k) DEF NoTwice
    <3> QED
      BY ONLY <3>1, <1>2
  <2> QED
    BY ONLY <2>1 DEF NoTwice
<1>4. h.k # k => Rids(r, k) = Rids(q, k)
  BY ONLY <1>1, <1>2 DEF Rids
<1>5. h.k = k => h.rid \in Rids(q, k)
  BY ONLY <1>1, <1>2 DEF Rids
<1>6. ASSUME h.k = k PROVE Rids(r, k) = Rids(q, k) \ {h.rid}
  <2>1. ASSUME NEW x \in Rids(r, k) PROVE x \in Rids(q, k) /\ x # h.rid
    BY ONLY <1>1, <1>2, <1>6, <2>1, NoTwice(q, k) DEF Rids, NoTwice
  <2>2. ASSUME NEW x \in Rids(q, k), x # h.rid PROVE x \in Rids(r, k)
    BY ONLY <1>1, <1>2, <1>6, <2>2 DEF Rids
  <2> QED
    BY ONLY <2>1, <2>2
<1> QED
  BY <1>3, <1>4, <1>5, <1>6 DEF r, h

(* More messages of another kind hold no question.                          *)
LEMMA RidsConcat ==
  ASSUME NEW q, IsSeq(q), NEW t, IsSeq(t), NEW k, NoTwice(q, k), \A i \in DOMAIN t : t[i].k # k
  PROVE  Rids(q \o t, k) = Rids(q, k) /\ NoTwice(q \o t, k)
<1> DEFINE r == q \o t
<1>1. /\ DOMAIN q \subseteq DOMAIN r /\ \A i \in DOMAIN q : r[i] = q[i]
      /\ \A i \in DOMAIN r : i \notin DOMAIN q => r[i].k # k
  <2>1. ASSUME NEW i \in DOMAIN r, i \notin DOMAIN q PROVE r[i].k # k
    BY <2>1, ValuesConcat
  <2>2. DOMAIN q \subseteq DOMAIN r /\ \A i \in DOMAIN q : r[i] = q[i]
    <3>1. /\ Len(q) \in Nat /\ Len(t) \in Nat /\ DOMAIN q = 1 .. Len(q) /\ DOMAIN r = 1 .. Len(q) + Len(t)
          /\ \A i \in 1 .. Len(q) : r[i] = q[i]
      BY SeqConcat
    <3> QED
      BY ONLY <3>1
  <2> QED
    BY ONLY <2>1, <2>2
<1> HIDE DEF r
<1>2. Rids(r, k) = Rids(q, k) /\ NoTwice(r, k)
  BY ONLY <1>1, NoTwice(q, k) DEF Rids, NoTwice
<1> QED
  BY <1>2 DEF r

(* The channel: another answer, the first one taken, and what is not an     *)
(* answer.                                                                  *)
LEMMA ReqRidsAppend ==
  ASSUME NEW q, IsSeq(q), NEW e, NEW id, NoTwiceReqs(q, id)
  PROVE  /\ ~ IsAnswer(e, id) => ReqRids(Append(q, e), id) = ReqRids(q, id) /\ NoTwiceReqs(Append(q, e), id)
         /\ IsAnswer(e, id) => ReqRids(Append(q, e), id) = ReqRids(q, id) \cup {e.msg.rid}
         /\ (IsAnswer(e, id) /\ e.msg.rid \notin ReqRids(q, id)) => NoTwiceReqs(Append(q, e), id)
<1> DEFINE r == Append(q, e)
<1>1. /\ Len(q) \in Nat /\ DOMAIN q = 1 .. Len(q) /\ DOMAIN r = 1 .. Len(q) + 1
      /\ \A i \in 1 .. Len(q) : r[i] = q[i]
      /\ r[Len(q) + 1] = e
  BY SeqAppend
<1> HIDE DEF r
<1>2. DOMAIN r = DOMAIN q \cup {Len(q) + 1} /\ Len(q) + 1 \notin DOMAIN q
      /\ \A i \in DOMAIN q : r[i] = q[i]
  BY ONLY <1>1
<1>3. ~ IsAnswer(e, id) => ReqRids(r, id) = ReqRids(q, id) /\ NoTwiceReqs(r, id)
  BY ONLY <1>1, <1>2, NoTwiceReqs(q, id) DEF ReqRids, NoTwiceReqs
<1>4. IsAnswer(e, id) => ReqRids(r, id) = ReqRids(q, id) \cup {e.msg.rid}
  BY ONLY <1>1, <1>2 DEF ReqRids
<1>5. (IsAnswer(e, id) /\ e.msg.rid \notin ReqRids(q, id)) => NoTwiceReqs(r, id)
  BY ONLY <1>1, <1>2, NoTwiceReqs(q, id) DEF ReqRids, NoTwiceReqs
<1> QED
  BY <1>3, <1>4, <1>5 DEF r

(* The channel without its first message holds the answers of the others.   *)
LEMMA ReqRidsTail ==
  ASSUME NEW q, IsSeq(q), q # <<>>, NEW id, NoTwiceReqs(q, id)
  PROVE  /\ NoTwiceReqs(Tail(q), id)
         /\ ~ IsAnswer(Head(q), id) => ReqRids(Tail(q), id) = ReqRids(q, id)
         /\ IsAnswer(Head(q), id) => /\ ReqRids(Tail(q), id) = ReqRids(q, id) \ {Head(q).msg.rid}
                                     /\ Head(q).msg.rid \in ReqRids(q, id)
<1> DEFINE r == Tail(q)
           h == Head(q)
<1>1. /\ Len(q) \in Nat \ {0} /\ DOMAIN q = 1 .. Len(q) /\ DOMAIN r = 1 .. Len(q) - 1
      /\ \A i \in 1 .. Len(q) - 1 : r[i] = q[i + 1]
      /\ h = q[1]
  BY SeqTail
<1> HIDE DEF r, h
<1>2. /\ 1 \in DOMAIN q
      /\ \A i \in DOMAIN r : i \in Int /\ i + 1 \in DOMAIN q /\ i + 1 # 1 /\ r[i] = q[i + 1]
      /\ \A i \in DOMAIN q : i # 1 => i - 1 \in DOMAIN r /\ r[i - 1] = q[i]
  BY ONLY <1>1
<1>3. NoTwiceReqs(r, id)
  <2>1. ASSUME NEW i \in DOMAIN r, NEW j \in DOMAIN r, IsAnswer(r[i], id), IsAnswer(r[j], id),
               r[i].msg.rid = r[j].msg.rid
        PROVE  i = j
    <3>1. i + 1 = j + 1
      BY ONLY <1>2, <2>1, NoTwiceReqs(q, id) DEF NoTwiceReqs
    <3> QED
      BY ONLY <3>1, <1>2
  <2> QED
    BY ONLY <2>1 DEF NoTwiceReqs
<1>4. ~ IsAnswer(h, id) => ReqRids(r, id) = ReqRids(q, id)
  BY ONLY <1>1, <1>2 DEF ReqRids
<1>5. IsAnswer(h, id) => h.msg.rid \in ReqRids(q, id)
  BY ONLY <1>1, <1>2 DEF ReqRids
<1>6. ASSUME IsAnswer(h, id) PROVE ReqRids(r, id) = ReqRids(q, id) \ {h.msg.rid}
  <2>1. ASSUME NEW x \in ReqRids(r, id) PROVE x \in ReqRids(q, id) /\ x # h.msg.rid
    BY ONLY <1>1, <1>2, <1>6, <2>1, NoTwiceReqs(q, id) DEF ReqRids, NoTwiceReqs
  <2>2. ASSUME NEW x \in ReqRids(q, id), x # h.msg.rid PROVE x \in ReqRids(r, id)
    BY ONLY <1>1, <1>2, <1>6, <2>2 DEF ReqRids
  <2> QED
    BY ONLY <2>1, <2>2
<1> QED
  BY <1>3, <1>4, <1>5, <1>6 DEF r, h

(* More messages on the channel that answer nothing hold no answer.         *)
LEMMA ReqRidsConcat ==
  ASSUME NEW q, IsSeq(q), NEW t, IsSeq(t), NEW id, NoTwiceReqs(q, id),
         \A i \in DOMAIN t : ~ IsAnswer(t[i], id)
  PROVE  ReqRids(q \o t, id) = ReqRids(q, id) /\ NoTwiceReqs(q \o t, id)
<1> DEFINE r == q \o t
<1>1. /\ DOMAIN q \subseteq DOMAIN r /\ \A i \in DOMAIN q : r[i] = q[i]
      /\ \A i \in DOMAIN r : i \notin DOMAIN q => ~ IsAnswer(r[i], id)
  <2>1. ASSUME NEW i \in DOMAIN r, i \notin DOMAIN q PROVE ~ IsAnswer(r[i], id)
    BY <2>1, ValuesConcat
  <2>2. DOMAIN q \subseteq DOMAIN r /\ \A i \in DOMAIN q : r[i] = q[i]
    <3>1. /\ Len(q) \in Nat /\ Len(t) \in Nat /\ DOMAIN q = 1 .. Len(q) /\ DOMAIN r = 1 .. Len(q) + Len(t)
          /\ \A i \in 1 .. Len(q) : r[i] = q[i]
      BY SeqConcat
    <3> QED
      BY ONLY <3>1
  <2> QED
    BY ONLY <2>1, <2>2
<1> HIDE DEF r
<1>2. ReqRids(r, id) = ReqRids(q, id) /\ NoTwiceReqs(r, id)
  BY ONLY <1>1, NoTwiceReqs(q, id) DEF ReqRids, NoTwiceReqs
<1> QED
  BY <1>2 DEF r

(* A server that has taken a question holds it.                             *)
LEMMA TodoRidsFacts ==
  ASSUME NEW todo, NEW q
  PROVE  /\ TodoRids(todo \cup {q}) = TodoRids(todo) \cup {q.rid}
         /\ (NoTwiceTodo(todo) /\ q.rid \notin TodoRids(todo)) => NoTwiceTodo(todo \cup {q})
         /\ NoTwiceTodo(todo) => NoTwiceTodo(todo \ {q})
         /\ (NoTwiceTodo(todo) /\ q \in todo) => TodoRids(todo \ {q}) = TodoRids(todo) \ {q.rid}
         /\ q \in todo => q.rid \in TodoRids(todo)
BY DEF TodoRids, NoTwiceTodo

(* Nothing is held where there is nothing.                                  *)
LEMMA NoneHeld ==
  /\ TodoRids({}) = {} /\ NoTwiceTodo({})
  /\ \A k : Rids(<<>>, k) = {} /\ NoTwice(<<>>, k)
BY SeqMade DEF TodoRids, NoTwiceTodo, Rids, NoTwice

----------------------------------------------------------------------------
(* What progress is open.                                                   *)

(* positions that move down by one when the head of a sequence is taken *)
Down(S) == { i - 1 : i \in S \ {1} }

(* The first message is taken.                                              *)
LEMMA OpenDown ==
  ASSUME NEW B \in SUBSET (Nat \ {0}), NEW E \in SUBSET (Nat \ {0}), NEW n \in Nat, n >= 2
  PROVE  /\ BegunIn(B, E, n) => \/ BegunIn(Down(B), Down(E), n - 1)
                                \/ 1 \in B /\ Untouched(Down(E), n - 1)
         /\ Untouched(E, n) => Untouched(Down(E), n - 1) /\ 1 \notin E
<1>1. ASSUME NEW i \in B, i < n, \A j \in E : i < j => n <= j
      PROVE  BegunIn(Down(B), Down(E), n - 1) \/ (1 \in B /\ Untouched(Down(E), n - 1))
  <2>1. CASE i = 1
    BY <1>1, <2>1 DEF Untouched, Down
  <2>2. CASE i # 1
    <3>1. i - 1 \in Down(B) /\ i - 1 < n - 1
      BY <1>1, <2>2 DEF Down
    <3>2. ASSUME NEW j \in Down(E), i - 1 < j PROVE n - 1 <= j
      BY <1>1, <3>2 DEF Down
    <3> QED
      BY <3>1, <3>2 DEF BegunIn
  <2> QED
    BY <2>1, <2>2
<1>2. Untouched(E, n) => Untouched(Down(E), n - 1) /\ 1 \notin E
  BY DEF Untouched, Down
<1>3. SUFFICES ASSUME BegunIn(B, E, n)
               PROVE  BegunIn(Down(B), Down(E), n - 1) \/ (1 \in B /\ Untouched(Down(E), n - 1))
  BY <1>2
<1>4. PICK i \in B : i < n /\ \A j \in E : i < j => n <= j
  BY <1>3 DEF BegunIn
<1> QED
  BY <1>1, <1>4

(* Whether it is open at n depends on what comes before n.                  *)
LEMMA OpenBefore ==
  ASSUME NEW B \in SUBSET Nat, NEW E \in SUBSET Nat, NEW B2 \in SUBSET Nat, NEW E2 \in SUBSET Nat, NEW n \in Nat,
         \A i \in Nat : i < n => (i \in B <=> i \in B2) /\ (i \in E <=> i \in E2)
  PROVE  /\ BegunIn(B, E, n) => BegunIn(B2, E2, n)
         /\ Untouched(E, n) => Untouched(E2, n)
<1>1. ASSUME NEW i \in B, i < n, \A j \in E : i < j => n <= j
      PROVE  i \in B2 /\ \A j \in E2 : i < j => n <= j
  BY <1>1
<1>2. ASSUME Untouched(E, n) PROVE Untouched(E2, n)
  BY <1>2 DEF Untouched
<1>3. ASSUME BegunIn(B, E, n) PROVE BegunIn(B2, E2, n)
  BY <1>3, <1>1 DEF BegunIn
<1> QED
  BY <1>2, <1>3

(* It is open past what did not end it, and past what began it.             *)
LEMMA OpenPast ==
  ASSUME NEW B \in SUBSET Nat, NEW E \in SUBSET Nat, NEW n \in Nat
  PROVE  /\ (BegunIn(B, E, n) /\ n \notin E) => BegunIn(B, E, n + 1)
         /\ (Untouched(E, n) /\ n \notin E) => Untouched(E, n + 1)
         /\ n \in B => BegunIn(B, E, n + 1)
<1>1. (Untouched(E, n) /\ n \notin E) => Untouched(E, n + 1)
  BY DEF Untouched
<1>2. n \in B => BegunIn(B, E, n + 1)
  BY DEF BegunIn
<1>3. ASSUME BegunIn(B, E, n), n \notin E PROVE BegunIn(B, E, n + 1)
  <2>1. PICK i \in B : i < n /\ \A j \in E : i < j => n <= j
    BY <1>3 DEF BegunIn
  <2>2. i < n + 1 /\ \A j \in E : i < j => n + 1 <= j
    BY <1>3, <2>1
  <2> QED
    BY <2>1, <2>2 DEF BegunIn
<1> QED
  BY <1>1, <1>2, <1>3

(* The places of a pipe and of the channel.                                 *)
LEMMA PlacesAreNumbers ==
  ASSUME NEW q, IsSeq(q), NEW id, NEW t
  PROVE  /\ OutBegins(q, t) \in SUBSET (Nat \ {0}) /\ OutEnds(q, t) \in SUBSET (Nat \ {0})
         /\ ReqBegins(q, id, t) \in SUBSET (Nat \ {0}) /\ ReqEnds(q, id, t) \in SUBSET (Nat \ {0})
         /\ \A i \in OutBegins(q, t) \cup OutEnds(q, t) \cup ReqBegins(q, id, t) \cup ReqEnds(q, id, t) : i <= Len(q)
<1>1. Len(q) \in Nat /\ DOMAIN q = 1 .. Len(q)
  BY SeqFacts
<1> QED
  BY ONLY <1>1 DEF OutBegins, OutEnds, ReqBegins, ReqEnds

(* Without the first message, every place is one lower.                     *)
LEMMA PlacesDown ==
  ASSUME NEW q, IsSeq(q), q # <<>>, NEW id, NEW t
  PROVE  /\ OutBegins(Tail(q), t) = Down(OutBegins(q, t))
         /\ OutEnds(Tail(q), t) = Down(OutEnds(q, t))
         /\ ReqBegins(Tail(q), id, t) = Down(ReqBegins(q, id, t))
         /\ ReqEnds(Tail(q), id, t) = Down(ReqEnds(q, id, t))
<1> DEFINE r == Tail(q)
<1>1. /\ Len(q) \in Nat \ {0} /\ DOMAIN q = 1 .. Len(q) /\ DOMAIN r = 1 .. Len(q) - 1
      /\ \A i \in 1 .. Len(q) - 1 : r[i] = q[i + 1]
  BY SeqTail
<1> HIDE DEF r
<1>2. /\ \A i \in DOMAIN r : i \in Int /\ i + 1 \in DOMAIN q /\ i + 1 # 1 /\ r[i] = q[i + 1] /\ (i + 1) - 1 = i
      /\ \A i \in DOMAIN q : i # 1 => i - 1 \in DOMAIN r /\ r[i - 1] = q[i]
  BY ONLY <1>1
<1>3. OutBegins(r, t) = Down(OutBegins(q, t))
  BY ONLY <1>2 DEF OutBegins, Down
<1>4. OutEnds(r, t) = Down(OutEnds(q, t))
  BY ONLY <1>2 DEF OutEnds, Down
<1>5. ReqBegins(r, id, t) = Down(ReqBegins(q, id, t))
  BY ONLY <1>2 DEF ReqBegins, Down
<1>6. ReqEnds(r, id, t) = Down(ReqEnds(q, id, t))
  BY ONLY <1>2 DEF ReqEnds, Down
<1> QED
  BY <1>3, <1>4, <1>5, <1>6 DEF r

(* Messages that are added come after the others.                           *)
LEMMA PlacesAppend ==
  ASSUME NEW q, IsSeq(q), NEW t, IsSeq(t), NEW r, r = q \o t, NEW id, NEW x, NEW i \in Nat, i < Len(q) + 1
  PROVE  /\ i \in OutBegins(q, x) <=> i \in OutBegins(r, x)
         /\ i \in OutEnds(q, x) <=> i \in OutEnds(r, x)
         /\ i \in ReqBegins(q, id, x) <=> i \in ReqBegins(r, id, x)
         /\ i \in ReqEnds(q, id, x) <=> i \in ReqEnds(r, id, x)
<1>1. /\ Len(q) \in Nat /\ Len(t) \in Nat /\ DOMAIN q = 1 .. Len(q) /\ DOMAIN r = 1 .. Len(q) + Len(t)
      /\ \A j \in 1 .. Len(q) : r[j] = q[j]
  BY SeqConcat
<1>2. (i \in DOMAIN q <=> i \in DOMAIN r) /\ (i \in DOMAIN q => r[i] = q[i])
  BY ONLY <1>1, i \in Nat, i < Len(q) + 1
<1> QED
  BY ONLY <1>2 DEF OutBegins, OutEnds, ReqBegins, ReqEnds

(* A message that is added is a sequence that is added.                     *)
LEMMA OneMessage ==
  ASSUME NEW e, NEW s, s = <<e>>
  PROVE  IsSeq(s) /\ Len(s) = 1 /\ DOMAIN s = 1 .. 1 /\ s[1] = e
<1>1. s \in Seq({e})
  OBVIOUS
<1>2. IsSeq(s)
  BY ONLY <1>1, SeqOfItself
<1>3. Len(s) = 1 /\ DOMAIN s = 1 .. 1 /\ s[1] = e
  OBVIOUS
<1> QED
  BY <1>2, <1>3

(* A value that is added is a sequence of one that is added.                *)
LEMMA AppendIsConcat ==
  ASSUME NEW q, IsSeq(q), NEW e
  PROVE  Append(q, e) = q \o <<e>>
<1>1. q \in Seq({ q[i] : i \in DOMAIN q } \cup {e}) /\ e \in { q[i] : i \in DOMAIN q } \cup {e}
  BY DEF IsSeq
<1>2. Append(q, e) = q \o <<e>>
  BY ONLY <1>1
<1> QED
  BY <1>2

(* The same, with the sequence named.                                       *)
LEMMA AppendOne ==
  ASSUME NEW q, IsSeq(q), NEW e, NEW s, s = <<e>>
  PROVE  Append(q, e) = q \o s /\ IsSeq(s) /\ \A i \in DOMAIN s : s[i] = e
<1>1. Append(q, e) = q \o s
  BY AppendIsConcat
<1>2. IsSeq(s) /\ DOMAIN s = 1 .. 1 /\ s[1] = e
  BY OneMessage
<1>3. \A i \in 1 .. 1 : i = 1
  OBVIOUS
<1> QED
  BY ONLY <1>1, <1>2, <1>3

(* What the manager has to note of the first message of the channel.        *)
Noted(m, m2, r, id, t) ==
    /\ (From(r, id) /\ Begins(r.msg, t)) => TitledAt(m2, id, t)
    /\ (TitledAt(m, id, t) /\ ~ (From(r, id) /\ Ends(r.msg, t))) => TitledAt(m2, id, t)

(* Then what was open on the channel is open without the message.           *)
LEMMA OpenReqsTail ==
  ASSUME NEW m, NEW m2, NEW rs, IsSeq(rs), rs # <<>>, NEW id, NEW t, NEW n \in Nat, n >= 2,
         Noted(m, m2, Head(rs), id, t), OpenReqs(m, rs, id, t, n)
  PROVE  OpenReqs(m2, Tail(rs), id, t, n - 1)
<1> DEFINE B == ReqBegins(rs, id, t)
           E == ReqEnds(rs, id, t)
<1>1. B \in SUBSET (Nat \ {0}) /\ E \in SUBSET (Nat \ {0})
  BY PlacesAreNumbers
<1>2. ReqBegins(Tail(rs), id, t) = Down(B) /\ ReqEnds(Tail(rs), id, t) = Down(E)
  BY PlacesDown
<1>3. Head(rs) = rs[1] /\ 1 \in DOMAIN rs
  BY SeqTail
<1>4. /\ 1 \in B <=> (From(Head(rs), id) /\ Begins(Head(rs).msg, t))
      /\ 1 \in E <=> (From(Head(rs), id) /\ Ends(Head(rs).msg, t))
  BY ONLY <1>3 DEF ReqBegins, ReqEnds
<1> HIDE DEF B, E
<1>5. CASE BegunIn(B, E, n)
  <2>1. BegunIn(Down(B), Down(E), n - 1) \/ (1 \in B /\ Untouched(Down(E), n - 1))
    BY ONLY <1>1, <1>5, OpenDown, n \in Nat, n >= 2
  <2>2. 1 \in B => TitledAt(m2, id, t)
    BY ONLY <1>4, Noted(m, m2, Head(rs), id, t) DEF Noted
  <2> QED
    BY ONLY <2>1, <2>2, <1>2 DEF OpenReqs
<1>6. CASE TitledAt(m, id, t) /\ Untouched(E, n)
  <2>1. Untouched(Down(E), n - 1) /\ 1 \notin E
    BY ONLY <1>1, <1>6, OpenDown, n \in Nat, n >= 2
  <2>2. TitledAt(m2, id, t)
    BY ONLY <2>1, <1>4, <1>6, Noted(m, m2, Head(rs), id, t) DEF Noted
  <2> QED
    BY ONLY <2>1, <2>2, <1>2 DEF OpenReqs
<1> QED
  BY <1>5, <1>6 DEF OpenReqs, B, E

(* What is open stays open when the channel is longer.                      *)
LEMMA OpenReqsLonger ==
  ASSUME NEW m, NEW rs, IsSeq(rs), NEW more, IsSeq(more), NEW id, NEW t, NEW n \in Nat, n < Len(rs) + 2,
         OpenReqs(m, rs, id, t, n)
  PROVE  OpenReqs(m, rs \o more, id, t, n)
<1> DEFINE r == rs \o more
<1>1. /\ ReqBegins(rs, id, t) \in SUBSET Nat /\ ReqEnds(rs, id, t) \in SUBSET Nat
      /\ ReqBegins(r, id, t) \in SUBSET Nat /\ ReqEnds(r, id, t) \in SUBSET Nat
  <2>1. IsSeq(r)
    BY SeqConcat
  <2> QED
    BY <2>1, PlacesAreNumbers
<1>2. \A i \in Nat : i < n => /\ i \in ReqBegins(rs, id, t) <=> i \in ReqBegins(r, id, t)
                              /\ i \in ReqEnds(rs, id, t) <=> i \in ReqEnds(r, id, t)
  <2>1. ASSUME NEW i \in Nat, i < n PROVE i < Len(rs) + 1
    BY <2>1, SeqFacts
  <2> QED
    BY <2>1, PlacesAppend
<1> HIDE DEF r
<1>3. /\ BegunIn(ReqBegins(rs, id, t), ReqEnds(rs, id, t), n) => BegunIn(ReqBegins(r, id, t), ReqEnds(r, id, t), n)
      /\ Untouched(ReqEnds(rs, id, t), n) => Untouched(ReqEnds(r, id, t), n)
  BY ONLY <1>1, <1>2, OpenBefore, n \in Nat
<1>4. OpenReqs(m, r, id, t, n)
  BY <1>3 DEF OpenReqs
<1> QED
  BY <1>4 DEF r

(* At the end of the channel it is open past what does not end it, and past *)
(* what begins it.                                                          *)
LEMMA OpenReqsPast ==
  ASSUME NEW m, NEW rs, IsSeq(rs), NEW e, NEW id, NEW t,
         \/ OpenReqs(m, rs, id, t, Len(rs) + 1) /\ ~ (From(e, id) /\ Ends(e.msg, t))
         \/ From(e, id) /\ Begins(e.msg, t)
  PROVE  OpenReqs(m, Append(rs, e), id, t, Len(rs) + 2)
<1> DEFINE r == Append(rs, e)
           n == Len(rs) + 1
           B == ReqBegins(r, id, t)
           E == ReqEnds(r, id, t)
<1>1. IsSeq(r) /\ n \in Nat /\ n \in DOMAIN r /\ r[n] = e /\ n < Len(rs) + 2 /\ n + 1 = Len(rs) + 2
  BY SeqAppend
<1>2. B \in SUBSET Nat /\ E \in SUBSET Nat
  BY <1>1, PlacesAreNumbers
<1>3. /\ n \in B <=> (From(e, id) /\ Begins(e.msg, t))
      /\ n \in E <=> (From(e, id) /\ Ends(e.msg, t))
  BY <1>1 DEF ReqBegins, ReqEnds
<1>4. OpenReqs(m, rs, id, t, n) => OpenReqs(m, r, id, t, n)
  <2>1. r = rs \o <<e>> /\ IsSeq(<<e>>)
    BY AppendIsConcat, OneMessage
  <2> HIDE DEF r, n
  <2> SUFFICES ASSUME OpenReqs(m, rs, id, t, n) PROVE OpenReqs(m, r, id, t, n)
    OBVIOUS
  <2>2. OpenReqs(m, rs \o <<e>>, id, t, n)
    BY ONLY <1>1, <2>1, OpenReqs(m, rs, id, t, n), IsSeq(rs), OpenReqsLonger
  <2> QED
    BY ONLY <2>1, <2>2
<1> HIDE DEF r, n, B, E
<1>5. /\ (BegunIn(B, E, n) /\ n \notin E) => BegunIn(B, E, n + 1)
      /\ (Untouched(E, n) /\ n \notin E) => Untouched(E, n + 1)
      /\ n \in B => BegunIn(B, E, n + 1)
  BY ONLY <1>1, <1>2, OpenPast
<1>6. (OpenReqs(m, r, id, t, n) /\ n \notin E) \/ n \in B
  BY <1>3, <1>4 DEF n
<1>7. OpenReqs(m, r, id, t, n + 1)
  BY ONLY <1>5, <1>6 DEF OpenReqs, B, E
<1> QED
  BY <1>1, <1>7 DEF r

(* What is open at the end of a channel is open when what is added says     *)
(* nothing of the server.                                                   *)
LEMMA OpenReqsOthers ==
  ASSUME NEW m, NEW rs, IsSeq(rs), NEW more, IsSeq(more), NEW id, NEW t,
         \A i \in DOMAIN more : ~ From(more[i], id),
         OpenReqs(m, rs, id, t, Len(rs) + 1)
  PROVE  OpenReqs(m, rs \o more, id, t, Len(rs \o more) + 1)
<1> DEFINE r == rs \o more
           B == ReqBegins(rs, id, t)
           E == ReqEnds(rs, id, t)
<1>1. /\ Len(rs) \in Nat /\ Len(r) \in Nat /\ Len(rs) <= Len(r)
      /\ DOMAIN rs \subseteq DOMAIN r /\ \A i \in DOMAIN rs : r[i] = rs[i]
  <2>1. /\ Len(rs) \in Nat /\ Len(more) \in Nat /\ Len(r) = Len(rs) + Len(more)
        /\ DOMAIN rs = 1 .. Len(rs) /\ DOMAIN r = 1 .. Len(rs) + Len(more)
        /\ \A i \in 1 .. Len(rs) : r[i] = rs[i]
    BY SeqConcat
  <2> HIDE DEF r
  <2> QED
    BY ONLY <2>1
<1>2. ASSUME NEW i \in DOMAIN r, i \notin DOMAIN rs PROVE ~ From(r[i], id)
  BY <1>2, ValuesConcat
<1>3. B \in SUBSET Nat /\ E \in SUBSET Nat /\ \A i \in B \cup E : i <= Len(rs)
  BY PlacesAreNumbers
<1> HIDE DEF r
<1>4. ReqBegins(r, id, t) = B /\ ReqEnds(r, id, t) = E
  BY ONLY <1>1, <1>2 DEF ReqBegins, ReqEnds, B, E
<1>5. OpenReqs(m, rs, id, t, Len(rs) + 1) <=>
        BegunIn(B, E, Len(rs) + 1) \/ (TitledAt(m, id, t) /\ Untouched(E, Len(rs) + 1))
  BY DEF OpenReqs
<1> HIDE DEF B, E
<1>6. BegunIn(B, E, Len(rs) + 1) => BegunIn(B, E, Len(r) + 1)
  <2> SUFFICES ASSUME BegunIn(B, E, Len(rs) + 1) PROVE BegunIn(B, E, Len(r) + 1)
    OBVIOUS
  <2>1. PICK i \in B : i < Len(rs) + 1 /\ \A j \in E : i < j => Len(rs) + 1 <= j
    BY DEF BegunIn
  <2>2. i < Len(r) + 1 /\ \A j \in E : i < j => Len(r) + 1 <= j
    BY ONLY <1>1, <1>3, <2>1
  <2> QED
    BY <2>1, <2>2 DEF BegunIn
<1>7. Untouched(E, Len(rs) + 1) => Untouched(E, Len(r) + 1)
  BY ONLY <1>1, <1>3 DEF Untouched
<1>8. OpenReqs(m, r, id, t, Len(r) + 1)
  BY ONLY <1>4, <1>5, <1>6, <1>7, OpenReqs(m, rs, id, t, Len(rs) + 1) DEF OpenReqs
<1> QED
  BY <1>8 DEF r

(* A server says more.                                                      *)
LEMMA OpenOutSays ==
  ASSUME NEW m, NEW out, IsSeq(out), NEW msg, NEW rs, NEW id, NEW t
  PROVE  /\ \A n \in Nat : (n < Len(out) + 2 /\ OpenOut(m, out, rs, id, t, n))
                              => OpenOut(m, Append(out, msg), rs, id, t, n)
         /\ (\/ OpenOut(m, out, rs, id, t, Len(out) + 1) /\ ~ Ends(msg, t)
             \/ Begins(msg, t)) => OpenOut(m, Append(out, msg), rs, id, t, Len(out) + 2)
<1> DEFINE r == Append(out, msg)
           l == Len(out) + 1
           B == OutBegins(r, t)
           E == OutEnds(r, t)
<1>1. IsSeq(r) /\ l \in Nat /\ l \in DOMAIN r /\ r[l] = msg /\ l < Len(out) + 2 /\ l + 1 = Len(out) + 2
  BY SeqAppend
<1>2. /\ B \in SUBSET Nat /\ E \in SUBSET Nat
      /\ OutBegins(out, t) \in SUBSET Nat /\ OutEnds(out, t) \in SUBSET Nat
  BY <1>1, PlacesAreNumbers
<1>3. (l \in B <=> Begins(msg, t)) /\ (l \in E <=> Ends(msg, t))
  BY <1>1 DEF OutBegins, OutEnds
<1>4. ASSUME NEW n \in Nat, n < Len(out) + 2, OpenOut(m, out, rs, id, t, n)
      PROVE  OpenOut(m, r, rs, id, t, n)
  <2>1. r = out \o <<msg>> /\ IsSeq(<<msg>>)
    BY AppendIsConcat, OneMessage
  <2> HIDE DEF r, B, E, l
  <2>2. \A i \in Nat : i < n => i < Len(out) + 1
    BY <1>4, SeqFacts
  <2>3. \A i \in Nat : i < n => /\ i \in OutBegins(out, t) <=> i \in B
                                /\ i \in OutEnds(out, t) <=> i \in E
    BY <2>1, <2>2, PlacesAppend DEF B, E
  <2>4. /\ BegunIn(OutBegins(out, t), OutEnds(out, t), n) => BegunIn(B, E, n)
        /\ Untouched(OutEnds(out, t), n) => Untouched(E, n)
    BY ONLY <1>2, <2>3, n \in Nat, OpenBefore
  <2> QED
    BY ONLY <2>4, <1>4 DEF OpenOut, B, E
<1> HIDE DEF r, l, B, E
<1>5. /\ (BegunIn(B, E, l) /\ l \notin E) => BegunIn(B, E, l + 1)
      /\ (Untouched(E, l) /\ l \notin E) => Untouched(E, l + 1)
      /\ l \in B => BegunIn(B, E, l + 1)
  BY ONLY <1>1, <1>2, OpenPast
<1>6. (OpenOut(m, r, rs, id, t, l) /\ l \notin E) \/ l \in B => OpenOut(m, r, rs, id, t, l + 1)
  BY ONLY <1>5 DEF OpenOut, B, E
<1>7. (OpenOut(m, out, rs, id, t, l) /\ ~ Ends(msg, t)) \/ Begins(msg, t) => OpenOut(m, r, rs, id, t, l + 1)
  BY ONLY <1>1, <1>3, <1>4, <1>6
<1> QED
  BY ONLY <1>1, <1>4, <1>7 DEF r, l

(* The reader takes the first message to the channel.                       *)
LEMMA OpenOutRead ==
  ASSUME NEW m, NEW out, IsSeq(out), out # <<>>, NEW rs, IsSeq(rs), NEW id, NEW t
  PROVE  /\ \A n \in Nat : (n >= 2 /\ OpenOut(m, out, rs, id, t, n))
               => OpenOut(m, Tail(out), Append(rs, Incoming(id, Head(out))), id, t, n - 1)
         /\ OpenOut(m, out, rs, id, t, 1) => OpenReqs(m, rs, id, t, Len(rs) + 1)
<1> DEFINE B == OutBegins(out, t)
           E == OutEnds(out, t)
           h == Head(out)
           e == Incoming(id, h)
           r == Append(rs, e)
<1>1. B \in SUBSET (Nat \ {0}) /\ E \in SUBSET (Nat \ {0})
  BY PlacesAreNumbers
<1>2. OutBegins(Tail(out), t) = Down(B) /\ OutEnds(Tail(out), t) = Down(E)
  BY PlacesDown
<1>3. (1 \in B <=> Begins(h, t)) /\ (1 \in E <=> Ends(h, t))
  BY SeqTail DEF OutBegins, OutEnds
<1>4. From(e, id) /\ e.msg = h
  BY DEF Incoming, From
<1>5. Len(r) + 1 = Len(rs) + 2
  BY SeqAppend
<1> HIDE DEF e, h
<1>6. (OpenReqs(m, rs, id, t, Len(rs) + 1) /\ ~ Ends(h, t)) \/ Begins(h, t) => OpenReqs(m, r, id, t, Len(r) + 1)
  <2> SUFFICES ASSUME (OpenReqs(m, rs, id, t, Len(rs) + 1) /\ ~ Ends(h, t)) \/ Begins(h, t)
               PROVE  OpenReqs(m, r, id, t, Len(rs) + 2)
    BY <1>5
  <2> QED
    BY <1>4, OpenReqsPast
<1> HIDE DEF r
<1>7. ASSUME NEW n \in Nat, n >= 2, OpenOut(m, out, rs, id, t, n)
      PROVE  OpenOut(m, Tail(out), r, id, t, n - 1)
  <2>1. CASE BegunIn(B, E, n)
    <3>1. BegunIn(Down(B), Down(E), n - 1) \/ (1 \in B /\ Untouched(Down(E), n - 1))
      BY ONLY <1>1, <1>7, <2>1, OpenDown
    <3> QED
      BY ONLY <3>1, <1>2, <1>3, <1>6 DEF OpenOut
  <2>2. CASE OpenReqs(m, rs, id, t, Len(rs) + 1) /\ Untouched(E, n)
    <3>1. Untouched(Down(E), n - 1) /\ 1 \notin E
      BY ONLY <1>1, <1>7, <2>2, OpenDown
    <3> QED
      BY ONLY <3>1, <2>2, <1>2, <1>3, <1>6 DEF OpenOut
  <2> QED
    BY ONLY <1>7, <2>1, <2>2 DEF OpenOut, B, E
<1>8. ASSUME OpenOut(m, out, rs, id, t, 1) PROVE OpenReqs(m, rs, id, t, Len(rs) + 1)
  <2>1. ~ BegunIn(B, E, 1)
    BY ONLY <1>1 DEF BegunIn
  <2> QED
    BY ONLY <1>8, <2>1 DEF OpenOut, B, E
<1> QED
  BY ONLY <1>7, <1>8 DEF r, e, h

----------------------------------------------------------------------------
(* What happens to a server.                                                *)

(* The channel gets longer by what the server did not say.                  *)
LEMMA ChannelLonger ==
  ASSUME NEW m, NEW sv, NEW rs, NEW id, ServerOK(m, sv, rs, id), IsSeq(rs), NEW more, IsSeq(more),
         \A i \in DOMAIN more : ~ From(more[i], id)
  PROVE  ServerOK(m, sv, rs \o more, id)
<1> DEFINE r == rs \o more
<1>1. /\ DOMAIN rs \subseteq DOMAIN r /\ \A i \in DOMAIN rs : r[i] = rs[i]
      /\ \A i \in DOMAIN r : i \notin DOMAIN rs => ~ From(r[i], id)
      /\ \A i \in DOMAIN rs : i \in Nat /\ i < Len(rs) + 2
  <2>1. ASSUME NEW i \in DOMAIN r, i \notin DOMAIN rs PROVE ~ From(r[i], id)
    BY <2>1, ValuesConcat
  <2>2. /\ Len(rs) \in Nat /\ Len(more) \in Nat
        /\ DOMAIN rs = 1 .. Len(rs) /\ DOMAIN r = 1 .. Len(rs) + Len(more)
        /\ \A i \in 1 .. Len(rs) : r[i] = rs[i]
    BY SeqConcat
  <2> HIDE DEF r
  <2>3. DOMAIN rs \subseteq DOMAIN r /\ (\A i \in DOMAIN rs : r[i] = rs[i])
        /\ \A i \in DOMAIN rs : i \in Nat /\ i < Len(rs) + 2
    BY ONLY <2>2
  <2> QED
    BY ONLY <2>1, <2>3
<1>2. ReqRids(r, id) = ReqRids(rs, id) /\ NoTwiceReqs(r, id)
  BY ReqRidsConcat DEF ServerOK, OnceAt, IsAnswer
<1>3. ASSUME NEW t, NEW n \in DOMAIN rs, OpenReqs(m, rs, id, t, n) PROVE OpenReqs(m, r, id, t, n)
  BY <1>1, <1>3, OpenReqsLonger
<1>4. ASSUME NEW t, OpenReqs(m, rs, id, t, Len(rs) + 1) PROVE OpenReqs(m, r, id, t, Len(r) + 1)
  BY <1>4, OpenReqsOthers
<1> HIDE DEF r
<1>5. FreshAt(m, sv, r, id)
  BY <1>1 DEF FreshAt, ServerOK
<1>6. MatchedAt(m, sv, r, id)
  BY <1>1 DEF MatchedAt, ServerOK, IsAnswer
<1>7. OnceAt(sv, r, id) /\ KeptAt(m, sv, r, id)
  BY <1>2 DEF OnceAt, KeptAt, Places, ServerOK
<1>8. TitledIn(m, sv, r, id)
  <2>1. ASSUME NEW k \in DOMAIN r, From(r[k], id) /\ Reports(r[k].msg) PROVE OpenReqs(m, r, id, r[k].msg.tok, k)
    BY <1>1, <1>3, <2>1 DEF ServerOK, TitledIn
  <2>2. ASSUME NEW t, NEW n, OpenOut(m, sv.out, rs, id, t, n) PROVE OpenOut(m, sv.out, r, id, t, n)
    BY <1>4, <2>2 DEF OpenOut
  <2> QED
    BY <2>1, <2>2 DEF ServerOK, TitledIn
<1>9. ServerOK(m, sv, r, id)
  BY <1>5, <1>6, <1>7, <1>8 DEF ServerOK
<1> QED
  BY <1>9 DEF r

(* The manager takes the first message, and notes the progress that it is   *)
(* about.  A question that it answers is not kept.                          *)
LEMMA ChannelTaken ==
  ASSUME NEW m, NEW m2, NEW sv, NEW rs, NEW id, ServerOK(m, sv, rs, id), IsSeq(rs), rs # <<>>,
         m2.next = m.next, m2.clients = m.clients,
         \A t : Noted(m, m2, Head(rs), id, t),
         \A key \in DOMAIN m2.pending :
            /\ key \in DOMAIN m.pending /\ m2.pending[key] = m.pending[key]
            /\ key[1] = id => ~ (IsAnswer(Head(rs), id) /\ Head(rs).msg.rid = key[2])
  PROVE  ServerOK(m2, sv, Tail(rs), id)
<1> DEFINE r == Tail(rs)
           h == Head(rs)
<1>1. /\ \A i \in DOMAIN r : i \in Nat /\ i + 1 >= 2 /\ i + 1 \in DOMAIN rs /\ r[i] = rs[i + 1]
      /\ Len(r) + 1 = (Len(rs) + 1) - 1 /\ Len(rs) + 1 \in Nat /\ Len(rs) + 1 >= 2
  <2>1. /\ Len(rs) \in Nat \ {0} /\ Len(r) = Len(rs) - 1
        /\ DOMAIN rs = 1 .. Len(rs) /\ DOMAIN r = 1 .. Len(rs) - 1
        /\ \A i \in 1 .. Len(rs) - 1 : r[i] = rs[i + 1]
    BY SeqTail
  <2> HIDE DEF r
  <2> QED
    BY ONLY <2>1
<1>2. /\ NoTwiceReqs(r, id)
      /\ ~ IsAnswer(h, id) => ReqRids(r, id) = ReqRids(rs, id)
      /\ IsAnswer(h, id) => ReqRids(r, id) = ReqRids(rs, id) \ {h.msg.rid}
  BY ReqRidsTail DEF ServerOK, OnceAt
<1>3. ASSUME NEW t, NEW n \in Nat, n >= 2, OpenReqs(m, rs, id, t, n) PROVE OpenReqs(m2, r, id, t, n - 1)
  BY <1>3, OpenReqsTail
<1> HIDE DEF r, h
<1>4. FreshAt(m2, sv, r, id)
  BY <1>1 DEF FreshAt, ServerOK
<1>5. MatchedAt(m2, sv, r, id)
  <2>1. ASSUME NEW q, Matches(m, id, q) PROVE Matches(m2, id, q)
    BY <2>1 DEF Matches
  <2> QED
    BY <1>1, <2>1 DEF MatchedAt, ServerOK, IsAnswer
<1>6. OnceAt(sv, r, id)
  BY <1>2 DEF OnceAt, ServerOK
<1>7. KeptAt(m2, sv, r, id)
  BY <1>2 DEF KeptAt, ServerOK, Places, h
<1>8. TitledIn(m2, sv, r, id)
  <2>1. ASSUME NEW k \in DOMAIN r, From(r[k], id) /\ Reports(r[k].msg) PROVE OpenReqs(m2, r, id, r[k].msg.tok, k)
    <3>1. OpenReqs(m, rs, id, r[k].msg.tok, k + 1)
      BY <1>1, <2>1 DEF ServerOK, TitledIn
    <3>2. k \in Nat /\ k + 1 \in Nat /\ k + 1 >= 2 /\ (k + 1) - 1 = k
      BY <1>1
    <3> QED
      BY <1>3, <3>1, <3>2
  <2>2. ASSUME NEW t, NEW n, OpenOut(m, sv.out, rs, id, t, n) PROVE OpenOut(m2, sv.out, r, id, t, n)
    <3>1. OpenReqs(m, rs, id, t, Len(rs) + 1) => OpenReqs(m2, r, id, t, Len(r) + 1)
      BY <1>1, <1>3
    <3> QED
      BY <2>2, <3>1 DEF OpenOut
  <2> QED
    BY <2>1, <2>2 DEF ServerOK, TitledIn
<1>9. ServerOK(m2, sv, r, id)
  BY <1>4, <1>5, <1>6, <1>7, <1>8 DEF ServerOK
<1> QED
  BY <1>9 DEF r

(* The manager forgets, or uses up an id.                                   *)
Milder(m, m2, id) ==
    /\ m2.next >= m.next
    /\ id \in DOMAIN m2.clients => /\ id \in DOMAIN m.clients
                                   /\ m.clients[id].next \in Nat /\ m2.clients[id].next \in Nat
                                   /\ m.clients[id].next <= m2.clients[id].next
    /\ \A key \in DOMAIN m2.pending : key[1] = id => key \in DOMAIN m.pending /\ m2.pending[key] = m.pending[key]
    /\ m2.titles[id] = m.titles[id]

(* The manager changes what does not matter to a server.                    *)
LEMMA ManagerMilder ==
  ASSUME NEW m, NEW m2, NEW sv, NEW rs, NEW id \in Ids, ServerOK(m, sv, rs, id), Milder(m, m2, id),
         m.next \in Int, m2.next \in Int
  PROVE  ServerOK(m2, sv, rs, id)
<1>0. id \in Int
  BY LspAssumption DEF Ids
<1>1. FreshAt(m2, sv, rs, id)
  BY <1>0 DEF FreshAt, ServerOK, Milder
<1>2. MatchedAt(m2, sv, rs, id)
  <2>1. ASSUME NEW q, Matches(m, id, q) PROVE Matches(m2, id, q)
    <3>1. q.rid \in Nat /\ (id \in DOMAIN m2.clients => q.rid < m2.clients[id].next)
      BY <2>1 DEF Matches, Milder
    <3>2. <<id, q.rid>> \in DOMAIN m2.pending =>
            <<id, q.rid>> \in DOMAIN m.pending /\ m2.pending[<<id, q.rid>>] = m.pending[<<id, q.rid>>]
      <4>1. <<id, q.rid>>[1] = id
        OBVIOUS
      <4> QED
        BY <4>1 DEF Milder
    <3> QED
      BY <2>1, <3>1, <3>2 DEF Matches
  <2> QED
    BY <2>1 DEF MatchedAt, ServerOK
<1>3. KeptAt(m2, sv, rs, id)
  BY DEF KeptAt, ServerOK, Milder
<1>4. TitledIn(m2, sv, rs, id)
  <2>1. \A t, n : OpenReqs(m, rs, id, t, n) <=> OpenReqs(m2, rs, id, t, n)
    BY DEF Milder, OpenReqs, TitledAt
  <2>2. \A t, n : OpenOut(m, sv.out, rs, id, t, n) => OpenOut(m2, sv.out, rs, id, t, n)
    BY <2>1 DEF OpenOut
  <2> QED
    BY <2>1, <2>2 DEF TitledIn, ServerOK
<1> QED
  BY <1>1, <1>2, <1>3, <1>4 DEF ServerOK

(* It is told something, or asked nothing.                                  *)
LEMMA ServerTold ==
  ASSUME NEW m, NEW sv, NEW sv2, NEW rs, NEW id, ServerOK(m, sv, rs, id), sv.st = "up",
         NEW more, IsSeq(more), \A i \in DOMAIN more : more[i].k # "request",
         DOMAIN sv2 = SrvFields, sv2.in = sv.in \o more, sv2.st = sv.st, sv2.todo = sv.todo, sv2.out = sv.out,
         sv2.reader = sv.reader, sv2.begun = sv.begun
  PROVE  ServerOK(m, sv2, rs, id)
<1>1. IsSeq(sv.in) /\ IsSeq(sv2.in)
  BY SeqConcat DEF ServerOK, ServerTyped
<1>2. Rids(sv2.in, "request") = Rids(sv.in, "request") /\ NoTwice(sv2.in, "request")
  BY <1>1, RidsConcat DEF ServerOK, OnceAt
<1>3. ServerTyped(sv2) /\ FreshAt(m, sv2, rs, id)
  BY <1>1 DEF ServerTyped, FreshAt, ServerOK
<1>4. MatchedAt(m, sv2, rs, id)
  <2>1. ASSUME NEW i \in DOMAIN sv2.in, sv2.in[i].k = "request" PROVE Matches(m, id, sv2.in[i])
    <3>1. i \in DOMAIN sv.in /\ sv2.in[i] = sv.in[i]
      BY <1>1, <2>1, ValuesConcat
    <3> QED
      BY <2>1, <3>1 DEF ServerOK, MatchedAt
  <2> QED
    BY <2>1 DEF ServerOK, MatchedAt
<1>5. OnceAt(sv2, rs, id)
  BY <1>2 DEF OnceAt, ServerOK
<1>6. KeptAt(m, sv2, rs, id)
  BY <1>2 DEF KeptAt, ServerOK, Places, Listens
<1>7. TitledIn(m, sv2, rs, id)
  BY DEF TitledIn, ServerOK
<1> QED
  BY <1>3, <1>4, <1>5, <1>6, <1>7 DEF ServerOK

(* It is asked a question with an id that was not used.                     *)
LEMMA ServerAsked ==
  ASSUME NEW m, NEW m2, NEW sv, NEW sv2, NEW rs, NEW id \in Ids, ServerOK(m, sv, rs, id), sv.st = "up", NEW msg,
         msg.k = "request", msg.rid = m.clients[id].next, id \in DOMAIN m.clients, m.clients[id].next \in Nat,
         m2.next = m.next, id \in DOMAIN m2.clients, m2.clients[id].next = m.clients[id].next + 1,
         m2.titles = m.titles,
         DOMAIN m2.pending = DOMAIN m.pending \cup {<<id, msg.rid>>},
         \A key \in DOMAIN m.pending : key # <<id, msg.rid>> => m2.pending[key] = m.pending[key],
         \A key \in DOMAIN m.pending : key = <<key[1], key[2]>>,
         m2.pending[<<id, msg.rid>>].m = msg.m, m2.pending[<<id, msg.rid>>].d = msg.d,
         m2.pending[<<id, msg.rid>>].v = msg.v,
         DOMAIN sv2 = SrvFields, sv2.in = Append(sv.in, msg), sv2.st = sv.st, sv2.todo = sv.todo, sv2.out = sv.out,
         sv2.reader = sv.reader, sv2.begun = sv.begun
  PROVE  ServerOK(m2, sv2, rs, id)
<1> DEFINE rid == msg.rid
<1>0. rid \in Nat
  OBVIOUS
<1>1. IsSeq(sv.in) /\ IsSeq(sv2.in)
  BY SeqAppend DEF ServerOK, ServerTyped
<1>2. ASSUME NEW q, Matches(m, id, q) PROVE Matches(m2, id, q) /\ q.rid # rid
  <2>1. q.rid \in Nat /\ q.rid < rid
    BY <1>2 DEF Matches
  <2>2. q.rid # rid /\ q.rid < rid + 1
    BY <1>0, <2>1
  <2>3. <<id, q.rid>> # <<id, rid>>
    BY <2>2
  <2> QED
    BY <1>2, <2>1, <2>2, <2>3 DEF Matches
<1>3. /\ rid \notin Rids(sv.in, "request") /\ rid \notin TodoRids(sv.todo)
      /\ rid \notin Rids(sv.out, "response") /\ rid \notin ReqRids(rs, id)
  BY <1>2 DEF ServerOK, MatchedAt, Rids, TodoRids, ReqRids
<1>4. Rids(sv2.in, "request") = Rids(sv.in, "request") \cup {rid} /\ NoTwice(sv2.in, "request")
  BY <1>1, <1>3, RidsAppend DEF ServerOK, OnceAt
<1>5. ServerTyped(sv2) /\ FreshAt(m2, sv2, rs, id)
  BY <1>1 DEF ServerTyped, FreshAt, ServerOK
<1>6. MatchedAt(m2, sv2, rs, id)
  <2>1. ASSUME NEW i \in DOMAIN sv2.in, sv2.in[i].k = "request" PROVE Matches(m2, id, sv2.in[i])
    <3>1. (i \in DOMAIN sv.in /\ sv2.in[i] = sv.in[i]) \/ sv2.in[i] = msg
      BY <1>1, <2>1, ValuesAppend
    <3>2. Matches(m2, id, msg)
      BY <1>0 DEF Matches
    <3> QED
      BY <1>2, <2>1, <3>1, <3>2 DEF ServerOK, MatchedAt
  <2> QED
    BY <1>2, <2>1 DEF ServerOK, MatchedAt
<1>7. OnceAt(sv2, rs, id)
  BY <1>3, <1>4 DEF OnceAt, ServerOK
<1>8. KeptAt(m2, sv2, rs, id)
  <2>1. ASSUME NEW key \in DOMAIN m2.pending, key[1] = id, Listens(sv2) PROVE key[2] \in Places(sv2, rs, id)
    <3>1. CASE key \in DOMAIN m.pending
      <4>1. key[2] \in Places(sv, rs, id)
        BY <2>1, <3>1 DEF ServerOK, KeptAt, Listens
      <4> QED
        BY <1>4, <4>1 DEF Places
    <3>2. CASE key = <<id, rid>>
      BY <1>4, <3>2 DEF Places
    <3> QED
      BY <3>1, <3>2
  <2> QED
    BY <2>1 DEF KeptAt
<1>9. TitledIn(m2, sv2, rs, id)
  <2>1. \A t, n : OpenReqs(m, rs, id, t, n) <=> OpenReqs(m2, rs, id, t, n)
    BY DEF OpenReqs, TitledAt
  <2>2. \A t, n : OpenOut(m, sv.out, rs, id, t, n) => OpenOut(m2, sv.out, rs, id, t, n)
    BY <2>1 DEF OpenOut
  <2> QED
    BY <2>1, <2>2 DEF TitledIn, ServerOK
<1> QED
  BY <1>5, <1>6, <1>7, <1>8, <1>9 DEF ServerOK

(* It is started.                                                           *)
LEMMA ServerStarted ==
  ASSUME NEW m, NEW m2, NEW sv, NEW sv2, NEW rs, NEW id, ServerOK(m, sv, rs, id), id >= m.next, ~ (id >= m2.next),
         \A key \in DOMAIN m2.pending : key[1] # id,
         DOMAIN sv2 = SrvFields, sv2.in = sv.in, sv2.todo = sv.todo, sv2.out = sv.out, sv2.begun = sv.begun
  PROVE  ServerOK(m2, sv2, rs, id)
<1>1. /\ sv.in = <<>> /\ sv.todo = {} /\ sv.out = <<>> /\ sv.begun = {}
      /\ \A i \in DOMAIN rs : ~ From(rs[i], id)
  BY DEF ServerOK, FreshAt
<1>2. DOMAIN sv2.in = {} /\ DOMAIN sv2.out = {}
  BY <1>1, SeqMade
<1>3. ServerTyped(sv2) /\ FreshAt(m2, sv2, rs, id) /\ OnceAt(sv2, rs, id)
  BY DEF ServerOK, ServerTyped, FreshAt, OnceAt
<1>4. MatchedAt(m2, sv2, rs, id)
  BY <1>1, <1>2 DEF MatchedAt, IsAnswer
<1>5. KeptAt(m2, sv2, rs, id)
  BY DEF KeptAt
<1>6. TitledIn(m2, sv2, rs, id)
  BY <1>1, <1>2 DEF TitledIn
<1> QED
  BY <1>3, <1>4, <1>5, <1>6 DEF ServerOK

(* It is gone: nothing is left in it, and what it said can still be read.   *)
LEMMA ServerGone ==
  ASSUME NEW m, NEW sv, NEW sv2, NEW rs, NEW id, ServerOK(m, sv, rs, id), sv2.st # "up",
         DOMAIN sv2 = SrvFields, sv2.in = <<>>, sv2.todo \subseteq sv.todo, sv2.out = sv.out,
         sv2.reader = sv.reader, sv2.begun = sv.begun
  PROVE  ServerOK(m, sv2, rs, id)
<1>1. ServerTyped(sv2)
  BY SeqMade DEF ServerOK, ServerTyped
<1>2. FreshAt(m, sv2, rs, id)
  BY DEF ServerOK, FreshAt
<1>3. MatchedAt(m, sv2, rs, id)
  BY SeqMade DEF ServerOK, MatchedAt
<1>4. TodoRids(sv2.todo) \subseteq TodoRids(sv.todo) /\ (NoTwiceTodo(sv.todo) => NoTwiceTodo(sv2.todo))
  BY DEF TodoRids, NoTwiceTodo
<1>5. OnceAt(sv2, rs, id)
  BY <1>4, NoneHeld DEF ServerOK, OnceAt
<1>6. KeptAt(m, sv2, rs, id)
  BY DEF KeptAt, Listens
<1>7. TitledIn(m, sv2, rs, id)
  BY DEF TitledIn, ServerOK
<1> QED
  BY <1>1, <1>2, <1>3, <1>5, <1>6, <1>7 DEF ServerOK

(* It takes what it was told, or asked, first.                              *)
LEMMA ServerTakesFirst ==
  ASSUME NEW m, NEW sv, NEW sv2, NEW rs, NEW id, ServerOK(m, sv, rs, id), sv.in # <<>>, sv.st = "up",
         DOMAIN sv2 = SrvFields, sv2.in = Tail(sv.in),
         Head(sv.in).k = "request" => sv2.todo = sv.todo \cup {Head(sv.in)},
         Head(sv.in).k # "request" => sv2.todo = sv.todo,
         sv2.st = sv.st, sv2.out = sv.out, sv2.reader = sv.reader, sv2.begun = sv.begun
  PROVE  ServerOK(m, sv2, rs, id)
<1> DEFINE h == Head(sv.in)
<1>1. IsSeq(sv.in) /\ IsSeq(sv2.in)
  BY SeqTail DEF ServerOK, ServerTyped
<1>2. /\ NoTwice(sv2.in, "request")
      /\ h.k # "request" => Rids(sv2.in, "request") = Rids(sv.in, "request")
      /\ h.k = "request" => /\ Rids(sv2.in, "request") = Rids(sv.in, "request") \ {h.rid}
                            /\ h.rid \in Rids(sv.in, "request")
  BY <1>1, RidsTail DEF ServerOK, OnceAt
<1>3. h = sv.in[1] /\ 1 \in DOMAIN sv.in
  BY <1>1, SeqTail
<1>4. h.k = "request" => /\ TodoRids(sv2.todo) = TodoRids(sv.todo) \cup {h.rid}
                         /\ NoTwiceTodo(sv2.todo)
  BY <1>2, TodoRidsFacts DEF ServerOK, OnceAt
<1>5. ServerTyped(sv2) /\ FreshAt(m, sv2, rs, id)
  BY <1>1 DEF ServerTyped, FreshAt, ServerOK
<1>6. MatchedAt(m, sv2, rs, id)
  <2>1. ASSUME NEW i \in DOMAIN sv2.in, sv2.in[i].k = "request" PROVE Matches(m, id, sv2.in[i])
    <3>1. i + 1 \in DOMAIN sv.in /\ sv2.in[i] = sv.in[i + 1]
      BY <1>1, <2>1, ValuesTail
    <3> QED
      BY <2>1, <3>1 DEF ServerOK, MatchedAt
  <2>2. ASSUME NEW q \in sv2.todo PROVE Matches(m, id, q)
    BY <1>3, <2>2 DEF ServerOK, MatchedAt
  <2> QED
    BY <2>1, <2>2 DEF ServerOK, MatchedAt
<1> HIDE DEF h
<1>7. OnceAt(sv2, rs, id)
  <2>1. CASE h.k = "request"
    BY <1>2, <1>4, <2>1 DEF OnceAt, ServerOK
  <2>2. CASE h.k # "request"
    BY <1>2, <2>2 DEF OnceAt, ServerOK, h
  <2> QED
    BY <2>1, <2>2
<1>8. KeptAt(m, sv2, rs, id)
  <2>1. Places(sv, rs, id) \subseteq Places(sv2, rs, id)
    <3>1. CASE h.k = "request"
      BY <1>2, <1>4, <3>1 DEF Places
    <3>2. CASE h.k # "request"
      BY <1>2, <3>2 DEF Places, h
    <3> QED
      BY <3>1, <3>2
  <2> QED
    BY <2>1 DEF KeptAt, ServerOK, Listens
<1>9. TitledIn(m, sv2, rs, id)
  BY DEF TitledIn, ServerOK
<1> QED
  BY <1>5, <1>6, <1>7, <1>8, <1>9 DEF ServerOK

(* It says something that its reader will read: the answer to a question    *)
(* that it has, or something else, which reports of progress that has begun.*)
LEMMA ServerSays ==
  ASSUME NEW m, NEW sv, NEW sv2, NEW rs, NEW id, ServerOK(m, sv, rs, id), sv.reader = "up", sv.st = "up",
         NEW msg, Said(msg) \/ msg.k = "garbage",
         msg.k = "response" => \E q \in sv.todo : /\ sv2.todo = sv.todo \ {q} /\ msg.rid = q.rid
                                                 /\ msg.m = q.m /\ msg.d = q.d /\ msg.v = q.v,
         msg.k # "response" => sv2.todo = sv.todo,
         Reports(msg) => msg.tok \in sv.begun,
         \A t \in sv2.begun : (t \in sv.begun /\ ~ Ends(msg, t)) \/ Begins(msg, t),
         DOMAIN sv2 = SrvFields, sv2.in = sv.in, sv2.st = sv.st, sv2.out = Append(sv.out, msg), sv2.reader = sv.reader
  PROVE  ServerOK(m, sv2, rs, id)
<1>1. /\ IsSeq(sv.out) /\ IsSeq(sv2.out) /\ Len(sv2.out) = Len(sv.out) + 1 /\ Len(sv.out) \in Nat
      /\ \A i \in DOMAIN sv.out : i \in Nat /\ i < Len(sv.out) + 2 /\ i \in DOMAIN sv2.out /\ sv2.out[i] = sv.out[i]
      /\ \A i \in DOMAIN sv2.out : (i \in DOMAIN sv.out /\ sv2.out[i] = sv.out[i])
                                   \/ (i = Len(sv.out) + 1 /\ sv2.out[i] = msg)
  <2>1. IsSeq(sv.out)
    BY DEF ServerOK, ServerTyped
  <2>2. \A i \in DOMAIN sv.out : i \in Nat /\ i < Len(sv.out) + 2 /\ i \in DOMAIN sv2.out /\ sv2.out[i] = sv.out[i]
    BY <2>1, SeqAppend
  <2>3. \A i \in DOMAIN sv2.out : (i \in DOMAIN sv.out /\ sv2.out[i] = sv.out[i])
                                   \/ (i = Len(sv.out) + 1 /\ sv2.out[i] = msg)
    BY <2>1, ValuesAppend
  <2> QED
    BY <2>1, <2>2, <2>3, SeqAppend
<1>2. /\ msg.k # "response" => Rids(sv2.out, "response") = Rids(sv.out, "response") /\ NoTwice(sv2.out, "response")
      /\ msg.k = "response" => Rids(sv2.out, "response") = Rids(sv.out, "response") \cup {msg.rid}
      /\ (msg.k = "response" /\ msg.rid \notin Rids(sv.out, "response")) => NoTwice(sv2.out, "response")
  BY <1>1, RidsAppend DEF ServerOK, OnceAt
<1>3. msg.k = "response" => /\ TodoRids(sv2.todo) = TodoRids(sv.todo) \ {msg.rid} /\ msg.rid \in TodoRids(sv.todo)
                            /\ NoTwiceTodo(sv2.todo)
  <2> SUFFICES ASSUME msg.k = "response"
               PROVE  /\ TodoRids(sv2.todo) = TodoRids(sv.todo) \ {msg.rid} /\ msg.rid \in TodoRids(sv.todo)
                      /\ NoTwiceTodo(sv2.todo)
    OBVIOUS
  <2>1. PICK q \in sv.todo : sv2.todo = sv.todo \ {q} /\ msg.rid = q.rid
    OBVIOUS
  <2>2. NoTwiceTodo(sv.todo)
    BY DEF ServerOK, OnceAt
  <2> QED
    <3>1. /\ NoTwiceTodo(sv.todo \ {q}) /\ TodoRids(sv.todo \ {q}) = TodoRids(sv.todo) \ {q.rid}
          /\ q.rid \in TodoRids(sv.todo)
      BY ONLY <2>2, q \in sv.todo, TodoRidsFacts
    <3> QED
      BY ONLY <2>1, <3>1
<1>4. ServerTyped(sv2) /\ FreshAt(m, sv2, rs, id)
  BY <1>1 DEF ServerTyped, FreshAt, ServerOK
<1>5. MatchedAt(m, sv2, rs, id)
  <2>1. msg.k = "response" => Matches(m, id, msg)
    BY DEF ServerOK, MatchedAt, Matches
  <2>2. sv2.todo \subseteq sv.todo
    OBVIOUS
  <2> QED
    BY <1>1, <2>1, <2>2 DEF ServerOK, MatchedAt
<1>6. OnceAt(sv2, rs, id)
  <2>1. CASE msg.k = "response"
    BY <1>2, <1>3, <2>1 DEF OnceAt, ServerOK
  <2>2. CASE msg.k # "response"
    BY <1>2, <2>2 DEF OnceAt, ServerOK
  <2> QED
    BY <2>1, <2>2
<1>7. KeptAt(m, sv2, rs, id)
  <2>1. Places(sv, rs, id) \subseteq Places(sv2, rs, id)
    <3>1. CASE msg.k = "response"
      BY <1>2, <1>3, <3>1 DEF Places
    <3>2. CASE msg.k # "response"
      BY <1>2, <3>2 DEF Places
    <3> QED
      BY <3>1, <3>2
  <2>2. Listens(sv2) => Listens(sv)
    BY <1>1 DEF Listens
  <2> QED
    BY <2>1, <2>2 DEF KeptAt, ServerOK
<1>8. TitledIn(m, sv2, rs, id)
  <2>1. /\ \A t : \A n \in Nat : (n < Len(sv.out) + 2 /\ OpenOut(m, sv.out, rs, id, t, n))
                        => OpenOut(m, sv2.out, rs, id, t, n)
        /\ \A t : (\/ OpenOut(m, sv.out, rs, id, t, Len(sv.out) + 1) /\ ~ Ends(msg, t)
                   \/ Begins(msg, t)) => OpenOut(m, sv2.out, rs, id, t, Len(sv.out) + 2)
    BY <1>1, OpenOutSays
  <2>2. \A t \in sv.begun : OpenOut(m, sv.out, rs, id, t, Len(sv.out) + 1)
    BY DEF ServerOK, TitledIn
  <2>3. ASSUME NEW k \in DOMAIN sv2.out, Reports(sv2.out[k]) PROVE OpenOut(m, sv2.out, rs, id, sv2.out[k].tok, k)
    <3>1. CASE k \in DOMAIN sv.out /\ sv2.out[k] = sv.out[k]
      <4>1. OpenOut(m, sv.out, rs, id, sv2.out[k].tok, k)
        BY <2>3, <3>1 DEF ServerOK, TitledIn
      <4> QED
        BY <1>1, <2>1, <3>1, <4>1
    <3>2. CASE k = Len(sv.out) + 1 /\ sv2.out[k] = msg
      <4>1. OpenOut(m, sv.out, rs, id, msg.tok, Len(sv.out) + 1)
        BY <2>2, <2>3, <3>2
      <4>2. Len(sv.out) + 1 \in Nat /\ Len(sv.out) + 1 < Len(sv.out) + 2
        BY <1>1
      <4> QED
        BY <2>1, <3>2, <4>1, <4>2
    <3> QED
      BY <1>1, <3>1, <3>2
  <2>4. ASSUME NEW t \in sv2.begun PROVE OpenOut(m, sv2.out, rs, id, t, Len(sv2.out) + 1)
    <3>1. Len(sv2.out) + 1 = Len(sv.out) + 2
      BY <1>1
    <3>2. OpenOut(m, sv2.out, rs, id, t, Len(sv.out) + 2)
      BY <2>1, <2>2, <2>4
    <3> QED
      BY <3>1, <3>2
  <2> QED
    BY <2>3, <2>4 DEF ServerOK, TitledIn
<1> QED
  BY <1>4, <1>5, <1>6, <1>7, <1>8 DEF ServerOK

(* Nobody reads what it says.                                               *)
LEMMA ServerUnheard ==
  ASSUME NEW m, NEW sv, NEW sv2, NEW rs, NEW id, ServerOK(m, sv, rs, id), sv2.reader # "up", sv.st = "up",
         DOMAIN sv2 = SrvFields, sv2.in = sv.in, sv2.todo \subseteq sv.todo, sv2.out = sv.out, sv2.st = sv.st
  PROVE  ServerOK(m, sv2, rs, id)
<1>1. TodoRids(sv2.todo) \subseteq TodoRids(sv.todo) /\ (NoTwiceTodo(sv.todo) => NoTwiceTodo(sv2.todo))
  BY DEF TodoRids, NoTwiceTodo
<1>2. ServerTyped(sv2) /\ FreshAt(m, sv2, rs, id) /\ MatchedAt(m, sv2, rs, id)
  BY DEF ServerTyped, FreshAt, MatchedAt, ServerOK
<1>3. OnceAt(sv2, rs, id)
  BY <1>1 DEF OnceAt, ServerOK
<1>4. KeptAt(m, sv2, rs, id) /\ TitledIn(m, sv2, rs, id)
  BY DEF KeptAt, Listens, TitledIn, ServerOK
<1> QED
  BY <1>2, <1>3, <1>4 DEF ServerOK

(* Its reader ends, and what it has not read is lost.                       *)
LEMMA ReaderEnds ==
  ASSUME NEW m, NEW sv, NEW sv2, NEW rs, NEW id, ServerOK(m, sv, rs, id), sv2.reader # "up",
         DOMAIN sv2 = SrvFields, sv2.in = sv.in, sv2.todo = sv.todo, sv2.out = <<>>, sv2.st = sv.st,
         sv2.begun = sv.begun
  PROVE  ServerOK(m, sv2, rs, id)
<1>1. ServerTyped(sv2) /\ FreshAt(m, sv2, rs, id) /\ MatchedAt(m, sv2, rs, id)
  BY SeqMade DEF ServerTyped, FreshAt, MatchedAt, ServerOK
<1>2. OnceAt(sv2, rs, id)
  BY NoneHeld DEF OnceAt, ServerOK
<1>3. KeptAt(m, sv2, rs, id) /\ TitledIn(m, sv2, rs, id)
  BY SeqMade DEF KeptAt, Listens, TitledIn, ServerOK
<1> QED
  BY <1>1, <1>2, <1>3 DEF ServerOK

(* Its reader takes what it said first to the channel.                      *)
LEMMA ReaderReads ==
  ASSUME NEW m, NEW sv, NEW sv2, NEW rs, NEW id \in Ids, ServerOK(m, sv, rs, id), IsSeq(rs),
         sv.out # <<>>, Head(sv.out).k # "garbage",
         DOMAIN sv2 = SrvFields, sv2.in = sv.in, sv2.todo = sv.todo, sv2.out = Tail(sv.out), sv2.st = sv.st,
         sv2.begun = sv.begun, sv2.reader = sv.reader
  PROVE  ServerOK(m, sv2, Append(rs, Incoming(id, Head(sv.out))), id)
<1> DEFINE h == Head(sv.out)
           e == Incoming(id, h)
           r == Append(rs, e)
<1>1. From(e, id) /\ e.msg = h /\ (IsAnswer(e, id) <=> h.k = "response")
  BY DEF Incoming, From, IsAnswer
<1>2. /\ IsSeq(sv.out) /\ IsSeq(sv2.out) /\ h = sv.out[1] /\ 1 \in DOMAIN sv.out
      /\ \A i \in DOMAIN sv2.out : i \in Nat /\ i + 1 \in DOMAIN sv.out /\ sv2.out[i] = sv.out[i + 1]
      /\ \A i \in DOMAIN sv.out : i # 1 => \E j \in DOMAIN sv2.out : sv2.out[j] = sv.out[i]
      /\ Len(sv2.out) = Len(sv.out) - 1 /\ Len(sv.out) \in Nat \ {0}
  <2>1. IsSeq(sv.out)
    BY DEF ServerOK, ServerTyped
  <2>2. /\ IsSeq(sv2.out) /\ Len(sv.out) \in Nat \ {0} /\ Len(sv2.out) = Len(sv.out) - 1
        /\ DOMAIN sv.out = 1 .. Len(sv.out) /\ DOMAIN sv2.out = 1 .. Len(sv.out) - 1
        /\ \A i \in 1 .. Len(sv.out) - 1 : sv2.out[i] = sv.out[i + 1]
        /\ h = sv.out[1] /\ 1 \in DOMAIN sv.out
    BY <2>1, SeqTail
  <2>3. ASSUME NEW i \in DOMAIN sv.out, i # 1 PROVE \E j \in DOMAIN sv2.out : sv2.out[j] = sv.out[i]
    <3>1. i - 1 \in 1 .. Len(sv.out) - 1 /\ (i - 1) + 1 = i
      BY ONLY <2>2, <2>3
    <3>2. i - 1 \in DOMAIN sv2.out /\ sv2.out[i - 1] = sv.out[i]
      BY ONLY <2>2, <3>1
    <3> QED
      BY ONLY <3>2
  <2>4. \A i \in DOMAIN sv2.out : i \in Nat /\ i + 1 \in DOMAIN sv.out /\ sv2.out[i] = sv.out[i + 1]
    BY ONLY <2>2
  <2> QED
    BY ONLY <2>1, <2>2, <2>3, <2>4
<1>3. /\ \A i \in DOMAIN r : (i \in DOMAIN rs /\ r[i] = rs[i]) \/ (i = Len(rs) + 1 /\ r[i] = e)
      /\ Len(rs) \in Nat /\ Len(r) = Len(rs) + 1 /\ \A i \in DOMAIN rs : i \in Nat /\ i < Len(rs) + 2
  <2>1. \A i \in DOMAIN r : (i \in DOMAIN rs /\ r[i] = rs[i]) \/ (i = Len(rs) + 1 /\ r[i] = e)
    BY ValuesAppend
  <2> QED
    BY <2>1, SeqAppend
<1>4. /\ NoTwice(sv2.out, "response")
      /\ h.k # "response" => Rids(sv2.out, "response") = Rids(sv.out, "response")
      /\ h.k = "response" => /\ Rids(sv2.out, "response") = Rids(sv.out, "response") \ {h.rid}
                             /\ h.rid \in Rids(sv.out, "response")
  BY <1>2, RidsTail DEF ServerOK, OnceAt
<1>5. /\ h.k # "response" => ReqRids(r, id) = ReqRids(rs, id) /\ NoTwiceReqs(r, id)
      /\ h.k = "response" => ReqRids(r, id) = ReqRids(rs, id) \cup {h.rid}
      /\ (h.k = "response" /\ h.rid \notin ReqRids(rs, id)) => NoTwiceReqs(r, id)
  BY <1>1, ReqRidsAppend DEF ServerOK, OnceAt
<1>6. /\ \A t : \A n \in Nat : (n >= 2 /\ OpenOut(m, sv.out, rs, id, t, n)) => OpenOut(m, sv2.out, r, id, t, n - 1)
      /\ \A t : OpenOut(m, sv.out, rs, id, t, 1) => OpenReqs(m, rs, id, t, Len(rs) + 1)
  BY <1>2, OpenOutRead
<1>7. \A t : \A n \in Nat : (n < Len(rs) + 2 /\ OpenReqs(m, rs, id, t, n)) => OpenReqs(m, r, id, t, n)
  <2>1. r = rs \o <<e>> /\ IsSeq(<<e>>)
    BY AppendIsConcat, OneMessage
  <2> HIDE DEF r
  <2> QED
    BY <2>1, OpenReqsLonger
<1>8. Said(h)
  BY <1>2 DEF ServerOK, ServerTyped
<1> HIDE DEF h, e, r
<1>9. ServerTyped(sv2)
  BY <1>2 DEF ServerTyped, ServerOK
<1>10. FreshAt(m, sv2, r, id)
  <2>1. ~ (id >= m.next)
    BY DEF ServerOK, FreshAt
  <2> QED
    BY <2>1 DEF FreshAt
<1>11. MatchedAt(m, sv2, r, id)
  <2>1. h.k = "response" => Matches(m, id, h)
    BY <1>2 DEF ServerOK, MatchedAt
  <2>2. ASSUME NEW i \in DOMAIN r, IsAnswer(r[i], id) PROVE Matches(m, id, r[i].msg)
    BY <1>1, <1>3, <2>1, <2>2 DEF ServerOK, MatchedAt
  <2> QED
    BY <1>2, <2>2 DEF ServerOK, MatchedAt
<1>12. OnceAt(sv2, r, id)
  <2>1. CASE h.k = "response"
    BY <1>4, <1>5, <2>1 DEF OnceAt, ServerOK
  <2>2. CASE h.k # "response"
    BY <1>4, <1>5, <2>2 DEF OnceAt, ServerOK
  <2> QED
    BY <2>1, <2>2
<1>13. KeptAt(m, sv2, r, id)
  <2>1. Places(sv, rs, id) \subseteq Places(sv2, r, id)
    <3>1. CASE h.k = "response"
      BY <1>4, <1>5, <3>1 DEF Places
    <3>2. CASE h.k # "response"
      BY <1>4, <1>5, <3>2 DEF Places
    <3> QED
      BY <3>1, <3>2
  <2>2. Listens(sv2) => Listens(sv)
    <3>1. ASSUME NEW i \in DOMAIN sv.out, Listens(sv2) PROVE sv.out[i].k # "garbage"
      <4>1. CASE i = 1
        BY <1>2, <4>1 DEF h
      <4>2. CASE i # 1
        BY <1>2, <3>1, <4>2 DEF Listens
      <4> QED
        BY <4>1, <4>2
    <3> QED
      BY <3>1 DEF Listens
  <2> QED
    BY <2>1, <2>2 DEF KeptAt, ServerOK
<1>14. TitledIn(m, sv2, r, id)
  <2>1. ASSUME NEW k \in DOMAIN r, From(r[k], id) /\ Reports(r[k].msg) PROVE OpenReqs(m, r, id, r[k].msg.tok, k)
    <3>1. CASE k \in DOMAIN rs /\ r[k] = rs[k]
      <4>1. OpenReqs(m, rs, id, r[k].msg.tok, k)
        BY <2>1, <3>1 DEF ServerOK, TitledIn
      <4> QED
        BY <1>3, <1>7, <3>1, <4>1
    <3>2. CASE k = Len(rs) + 1 /\ r[k] = e
      <4>1. r[k].msg = sv.out[1] /\ r[k].msg = h
        BY <1>1, <1>2, <3>2
      <4>2. OpenOut(m, sv.out, rs, id, r[k].msg.tok, 1)
        BY <1>2, <2>1, <4>1 DEF ServerOK, TitledIn
      <4>3. OpenReqs(m, rs, id, r[k].msg.tok, k)
        BY <1>6, <3>2, <4>2
      <4>4. k \in Nat /\ k < Len(rs) + 2
        BY <1>3, <3>2
      <4> QED
        BY <1>7, <4>3, <4>4
    <3> QED
      BY <1>3, <3>1, <3>2
  <2>2. ASSUME NEW k \in DOMAIN sv2.out, Reports(sv2.out[k]) PROVE OpenOut(m, sv2.out, r, id, sv2.out[k].tok, k)
    <3>1. k \in Nat /\ k + 1 \in DOMAIN sv.out /\ sv2.out[k] = sv.out[k + 1]
      BY <1>2
    <3>2. k + 1 \in Nat /\ k + 1 >= 2 /\ (k + 1) - 1 = k
      <4>1. k >= 1
        BY <1>2, SeqFacts
      <4> QED
        BY <3>1, <4>1
    <3>3. OpenOut(m, sv.out, rs, id, sv2.out[k].tok, k + 1)
      BY <2>2, <3>1 DEF ServerOK, TitledIn
    <3> QED
      BY <1>6, <3>2, <3>3
  <2>3. ASSUME sv2.reader = "up", NEW t \in sv2.begun PROVE OpenOut(m, sv2.out, r, id, t, Len(sv2.out) + 1)
    <3>1. OpenOut(m, sv.out, rs, id, t, Len(sv.out) + 1)
      BY <2>3 DEF ServerOK, TitledIn
    <3>2. Len(sv.out) + 1 \in Nat /\ Len(sv.out) + 1 >= 2 /\ (Len(sv.out) + 1) - 1 = Len(sv2.out) + 1
      BY <1>2
    <3> QED
      BY <1>6, <3>1, <3>2
  <2> QED
    BY <2>1, <2>2, <2>3 DEF TitledIn
<1>15. ServerOK(m, sv2, r, id)
  BY <1>9, <1>10, <1>11, <1>12, <1>13, <1>14 DEF ServerOK
<1> QED
  BY <1>15 DEF r, e, h

----------------------------------------------------------------------------
(* What the handlers of the manager do, on a manager, its servers and what  *)
(* they send to the editor.                                                 *)

Ctx(x, rs) ==
    /\ DOMAIN x = {"m", "s", "ev"} /\ Kernel(x.m, x.s, rs) /\ EventsTyped(x.ev)

(* The parts of one, of its manager and of one of its servers.              *)
LEMMA CtxParts ==
  ASSUME NEW x, NEW rs, Ctx(x, rs)
  PROVE  /\ DOMAIN x = {"m", "s", "ev"} /\ DOMAIN x.m = ManFields /\ DOMAIN x.s = Ids
         /\ ManTyped(x.m) /\ ReqsTyped(rs) /\ EventsTyped(x.ev)
         /\ \A id \in Ids : ServerOK(x.m, x.s[id], rs, id) /\ DOMAIN x.s[id] = SrvFields
         /\ x.m.next \in Nat
         /\ DOMAIN x.m.clients \subseteq 0 .. x.m.next - 1 /\ DOMAIN x.m.clients \subseteq Ids
         /\ \A id \in DOMAIN x.m.clients : x.m.clients[id].next \in Nat
<1>1. Servers \in Nat
  BY LspAssumption
<1>2. ManTyped(x.m) /\ DOMAIN x.m = ManFields /\ x.m.next \in Nat /\ DOMAIN x.m.clients \subseteq 0 .. x.m.next - 1
      /\ x.m.next <= Servers /\ \A id \in DOMAIN x.m.clients : x.m.clients[id].next \in Nat
  BY <1>1 DEF Ctx, Kernel, ManTyped
<1>3. DOMAIN x.m.clients \subseteq Ids
  BY <1>1, <1>2 DEF Ids
<1>4. \A id \in Ids : ServerOK(x.m, x.s[id], rs, id) /\ DOMAIN x.s[id] = SrvFields
  BY DEF Ctx, Kernel, ServerOK, ServerTyped
<1> QED
  BY <1>2, <1>3, <1>4 DEF Ctx, Kernel

(* One server is changed.                                                   *)
LEMMA CtxServer ==
  ASSUME NEW x, NEW rs, Ctx(x, rs), NEW id \in Ids, NEW y,
         DOMAIN y = {"m", "s", "ev"}, y.m = x.m, y.ev = x.ev,
         DOMAIN y.s = Ids, \A j \in Ids \ {id} : y.s[j] = x.s[j], ServerOK(x.m, y.s[id], rs, id)
  PROVE  Ctx(y, rs)
BY DEF Ctx, Kernel

(* The manager is changed, in what its servers do not depend on.            *)
LEMMA CtxManager ==
  ASSUME NEW x, NEW rs, Ctx(x, rs), NEW y, DOMAIN y = {"m", "s", "ev"}, y.s = x.s, EventsTyped(y.ev),
         ManTyped(y.m), \A id \in Ids : Milder(x.m, y.m, id)
  PROVE  Ctx(y, rs)
<1>1. x.m.next \in Int /\ y.m.next \in Int
  BY LspAssumption DEF ManTyped, Ctx, Kernel
<1>2. \A id \in Ids : ServerOK(y.m, y.s[id], rs, id)
  BY <1>1, ManagerMilder DEF Ctx, Kernel
<1> QED
  BY <1>2 DEF Ctx, Kernel

(* The fields of one whose server's input is changed.                       *)
LEMMA SetInput ==
  ASSUME NEW x, DOMAIN x = {"m", "s", "ev"}, DOMAIN x.s = Ids, NEW id \in Ids, DOMAIN x.s[id] = SrvFields,
         NEW v, NEW y, y = [x EXCEPT !.s[id].in = v]
  PROVE  /\ DOMAIN y = {"m", "s", "ev"} /\ y.m = x.m /\ y.ev = x.ev /\ DOMAIN y.s = Ids
         /\ \A j \in Ids \ {id} : y.s[j] = x.s[j]
         /\ DOMAIN y.s[id] = SrvFields /\ y.s[id].in = v
         /\ y.s[id].st = x.s[id].st /\ y.s[id].todo = x.s[id].todo /\ y.s[id].out = x.s[id].out
         /\ y.s[id].reader = x.s[id].reader /\ y.s[id].begun = x.s[id].begun
         /\ y.s[id].has = x.s[id].has
BY DEF SrvFields

(* Servers are told.                                                        *)
LEMMA WriteKeeps ==
  ASSUME NEW x, NEW rs, Ctx(x, rs), NEW id \in Ids, NEW msg, msg.k # "request"
  PROVE  Ctx(Write(x, id, msg), rs) /\ Write(x, id, msg).m = x.m
<1> DEFINE y == [x EXCEPT !.s[id].in = Append(x.s[id].in, msg)]
           sv == x.s[id]
<1>1. CASE sv.st # "up"
  BY <1>1 DEF Write
<1>2. CASE sv.st = "up"
  <2>1. Write(x, id, msg) = y
    BY <1>2 DEF Write
  <2>2. IsSeq(sv.in) /\ ServerOK(x.m, sv, rs, id)
    BY CtxParts DEF ServerOK, ServerTyped
  <2>a. PICK one : one = <<msg>>
    OBVIOUS
  <2>3. Append(sv.in, msg) = sv.in \o one /\ IsSeq(one) /\ \A i \in DOMAIN one : one[i] = msg
    BY <2>2, <2>a, AppendOne
  <2>4. /\ DOMAIN y = {"m", "s", "ev"} /\ y.m = x.m /\ y.ev = x.ev /\ DOMAIN y.s = Ids
        /\ \A j \in Ids \ {id} : y.s[j] = x.s[j]
        /\ DOMAIN y.s[id] = SrvFields /\ y.s[id].in = Append(sv.in, msg)
        /\ y.s[id].st = sv.st /\ y.s[id].todo = sv.todo /\ y.s[id].out = sv.out
        /\ y.s[id].reader = sv.reader /\ y.s[id].begun = sv.begun
    BY CtxParts, SetInput
  <2> HIDE DEF y
  <2>5. ServerOK(x.m, y.s[id], rs, id)
    <3>1. y.s[id].in = sv.in \o one /\ \A i \in DOMAIN one : one[i].k # "request"
      BY ONLY <2>3, <2>4, msg.k # "request"
    <3> HIDE DEF sv
    <3> QED
      BY ONLY <1>2, <2>2, <2>3, <2>4, <3>1, ServerTold
  <2>6. Ctx(y, rs)
    BY ONLY <2>4, <2>5, Ctx(x, rs), id \in Ids, CtxServer
  <2> QED
    BY <2>1, <2>4, <2>6
<1> QED
  BY <1>1, <1>2

(* A server is told something, when it is running.                          *)
LEMMA SendNotificationKeeps ==
  ASSUME NEW x, NEW rs, Ctx(x, rs), NEW id, NEW k, NEW d, NEW v
  PROVE  Ctx(SendNotification(x, id, k, d, v), rs) /\ SendNotification(x, id, k, d, v).m = x.m
<1>1. Running(x, id) => id \in Ids
  BY CtxParts DEF Running
<1>2. ToServer("notify", -1, k, d, v).k # "request"
  BY DEF ToServer
<1> QED
  BY <1>1, <1>2, WriteKeeps DEF SendNotification

(* of documents, of which there are finitely many                           *)
LEMMA SendNotificationsKeeps ==
  ASSUME NEW x, NEW rs, Ctx(x, rs), NEW id, NEW k, NEW docs, DOMAIN docs \subseteq Docs
  PROVE  Ctx(SendNotifications(x, id, k, docs), rs) /\ SendNotifications(x, id, k, docs).m = x.m
<1> DEFINE ds == SetToSeq(DOMAIN docs)
           n == Cardinality(DOMAIN docs)
           more == [i \in 1 .. n |-> ToServer("notify", -1, k, ds[i], docs[ds[i]])]
           y == [x EXCEPT !.s[id].in = x.s[id].in \o more]
           sv == x.s[id]
<1>1. CASE ~ (Running(x, id) /\ sv.st = "up")
  BY <1>1 DEF SendNotifications
<1>2. CASE Running(x, id) /\ sv.st = "up"
  <2>1. SendNotifications(x, id, k, docs) = y
    BY <1>2 DEF SendNotifications
  <2>2. id \in Ids
    BY <1>2, CtxParts DEF Running
  <2>3. IsSeq(sv.in) /\ ServerOK(x.m, sv, rs, id)
    BY <2>2, CtxParts DEF ServerOK, ServerTyped
  <2>4. n \in Nat
    BY LspAssumption, FS_Subset, FS_CardinalityType
  <2>5. IsSeq(more) /\ \A i \in DOMAIN more : more[i].k # "request"
    <3>1. DOMAIN more = 1 .. n /\ more = [i \in 1 .. n |-> more[i]]
      OBVIOUS
    <3>2. \A i \in DOMAIN more : more[i].k # "request"
      BY DEF ToServer
    <3> HIDE DEF more, n
    <3> QED
      BY ONLY <2>4, <3>1, <3>2, SeqMade
  <2> HIDE DEF more
  <2>6. /\ DOMAIN y = {"m", "s", "ev"} /\ y.m = x.m /\ y.ev = x.ev /\ DOMAIN y.s = Ids
        /\ \A j \in Ids \ {id} : y.s[j] = x.s[j]
        /\ DOMAIN y.s[id] = SrvFields /\ y.s[id].in = sv.in \o more
        /\ y.s[id].st = sv.st /\ y.s[id].todo = sv.todo /\ y.s[id].out = sv.out
        /\ y.s[id].reader = sv.reader /\ y.s[id].begun = sv.begun
    BY <2>2, CtxParts, SetInput
  <2> HIDE DEF y, sv
  <2>7. ServerOK(x.m, y.s[id], rs, id)
    BY ONLY <1>2, <2>3, <2>5, <2>6, ServerTold
  <2>8. Ctx(y, rs)
    BY ONLY <2>2, <2>6, <2>7, Ctx(x, rs), CtxServer
  <2> QED
    BY <2>1, <2>6, <2>8
<1> QED
  BY <1>1, <1>2

(* An id is used up.                                                        *)
LEMMA NextIdFacts ==
  ASSUME NEW x, NEW rs, Ctx(x, rs), NEW id \in DOMAIN x.m.clients, NEW y, y = NextId(x, id)
  PROVE  /\ DOMAIN y = {"m", "s", "ev"} /\ y.s = x.s /\ y.ev = x.ev
         /\ DOMAIN y.m = ManFields
         /\ y.m.pending = x.m.pending /\ y.m.titles = x.m.titles /\ y.m.next = x.m.next /\ y.m.join = x.m.join
         /\ y.m.caps = x.m.caps /\ y.m.status = x.m.status
         /\ DOMAIN y.m.clients = DOMAIN x.m.clients /\ x.m.clients[id].next \in Nat
         /\ \A j \in DOMAIN x.m.clients \ {id} : y.m.clients[j] = x.m.clients[j]
         /\ DOMAIN y.m.clients[id] = {"status", "enc", "next"}
         /\ y.m.clients[id].status = x.m.clients[id].status
         /\ y.m.clients[id].next = x.m.clients[id].next + 1
         /\ ManTyped(y.m) /\ \A j \in Ids : Milder(x.m, y.m, j)
<1>1. DOMAIN x = {"m", "s", "ev"} /\ DOMAIN x.m = ManFields /\ ManTyped(x.m)
  BY CtxParts
<1>2. DOMAIN x.m.clients[id] = {"status", "enc", "next"} /\ x.m.clients[id].next \in Nat
  BY <1>1 DEF ManTyped
<1>3. /\ DOMAIN y = {"m", "s", "ev"} /\ y.s = x.s /\ y.ev = x.ev
      /\ DOMAIN y.m = ManFields
      /\ y.m.pending = x.m.pending /\ y.m.titles = x.m.titles /\ y.m.next = x.m.next /\ y.m.join = x.m.join
      /\ y.m.caps = x.m.caps /\ y.m.status = x.m.status
      /\ DOMAIN y.m.clients = DOMAIN x.m.clients
      /\ \A j \in DOMAIN x.m.clients \ {id} : y.m.clients[j] = x.m.clients[j]
      /\ DOMAIN y.m.clients[id] = {"status", "enc", "next"}
      /\ y.m.clients[id].status = x.m.clients[id].status
      /\ y.m.clients[id].next = x.m.clients[id].next + 1
  BY <1>1, <1>2 DEF NextId, ManFields
<1>4. ManTyped(y.m)
  <2>1. \A j \in DOMAIN y.m.clients : /\ DOMAIN y.m.clients[j] = {"status", "enc", "next"} /\ y.m.clients[j].next \in Nat
                                      /\ y.m.clients[j].status = x.m.clients[j].status
    BY <1>1, <1>2, <1>3 DEF ManTyped
  <2> QED
    BY <1>1, <1>3, <2>1 DEF ManTyped
<1>5. \A j \in Ids : Milder(x.m, y.m, j)
  <2>1. x.m.next \in Nat /\ \A j \in DOMAIN x.m.clients : x.m.clients[j].next \in Nat
    BY CtxParts
  <2> QED
    BY <1>2, <1>3, <2>1 DEF Milder
<1> QED
  BY <1>2, <1>3, <1>4, <1>5

(* A server is asked, and what it was asked is kept, or the server is gone. *)
LEMMA WriteRequestKeeps ==
  ASSUME NEW x, NEW rs, Ctx(x, rs), NEW id \in DOMAIN x.m.clients, NEW k \in Kinds, NEW d, NEW v,
         NEW p, p.m = k, p.d = d, p.v = v, k = "initialize" => DOMAIN p.docs \subseteq Docs
  PROVE  Ctx(WriteRequest(x, id, k, d, v, p), rs) /\ WriteRequest(x, id, k, d, v, p).m.next = x.m.next
<1> DEFINE rid == x.m.clients[id].next
           msg == ToServer("request", rid, k, d, v)
           key == <<id, rid>>
           sv == x.s[id]
<1>1. PICK w : w = NextId(x, id)
  OBVIOUS
<1>2. /\ DOMAIN w = {"m", "s", "ev"} /\ w.s = x.s /\ w.ev = x.ev
      /\ DOMAIN w.m = ManFields
      /\ w.m.pending = x.m.pending /\ w.m.titles = x.m.titles /\ w.m.next = x.m.next /\ w.m.join = x.m.join
      /\ w.m.caps = x.m.caps /\ w.m.status = x.m.status
      /\ DOMAIN w.m.clients = DOMAIN x.m.clients /\ rid \in Nat
      /\ \A j \in DOMAIN x.m.clients \ {id} : w.m.clients[j] = x.m.clients[j]
      /\ DOMAIN w.m.clients[id] = {"status", "enc", "next"}
      /\ w.m.clients[id].status = x.m.clients[id].status
      /\ w.m.clients[id].next = rid + 1
      /\ ManTyped(w.m) /\ \A j \in Ids : Milder(x.m, w.m, j)
  BY <1>1, NextIdFacts
<1>3. /\ id \in Ids /\ DOMAIN x.s = Ids /\ DOMAIN sv = SrvFields /\ EventsTyped(x.ev) /\ ManTyped(x.m)
      /\ ServerOK(x.m, sv, rs, id) /\ IsSeq(sv.in) /\ id \in 0 .. x.m.next - 1
  <2>1. /\ id \in Ids /\ DOMAIN x.s = Ids /\ DOMAIN sv = SrvFields /\ EventsTyped(x.ev) /\ ManTyped(x.m)
        /\ ServerOK(x.m, sv, rs, id) /\ id \in 0 .. x.m.next - 1
    BY CtxParts
  <2> QED
    BY <2>1 DEF ServerOK, ServerTyped
<1>4. CASE sv.st # "up"
  <2>1. WriteRequest(x, id, k, d, v, p) = w
    BY <1>1, <1>2, <1>4 DEF WriteRequest, Write
  <2>2. Ctx(w, rs)
    BY ONLY <1>2, <1>3, Ctx(x, rs), CtxManager
  <2> QED
    BY <1>2, <2>1, <2>2
<1>5. CASE sv.st = "up"
  <2>1. PICK y : y = [w EXCEPT !.s[id].in = Append(sv.in, msg)]
    OBVIOUS
  <2>2. PICK z : z = [y EXCEPT !.m.pending = Put(y.m.pending, key, p)]
    OBVIOUS
  <2>3. WriteRequest(x, id, k, d, v, p) = z
    BY <1>1, <1>2, <1>5, <2>1, <2>2 DEF WriteRequest, Write
  <2>4. /\ DOMAIN y = {"m", "s", "ev"} /\ y.m = w.m /\ y.ev = w.ev /\ DOMAIN y.s = Ids
        /\ \A j \in Ids \ {id} : y.s[j] = w.s[j]
        /\ DOMAIN y.s[id] = SrvFields /\ y.s[id].in = Append(sv.in, msg)
        /\ y.s[id].st = sv.st /\ y.s[id].todo = sv.todo /\ y.s[id].out = sv.out
        /\ y.s[id].reader = sv.reader /\ y.s[id].begun = sv.begun
    <3> HIDE DEF msg
    <3> QED
      BY <1>2, <1>3, <2>1, SetInput
  <2>5. /\ DOMAIN z = {"m", "s", "ev"} /\ z.s = y.s /\ z.ev = y.ev
        /\ DOMAIN z.m = ManFields
        /\ z.m.clients = w.m.clients /\ z.m.titles = w.m.titles /\ z.m.next = w.m.next /\ z.m.join = w.m.join
        /\ z.m.caps = w.m.caps /\ z.m.status = w.m.status
        /\ z.m.pending = Put(x.m.pending, key, p)
    BY <1>2, <2>2, <2>4 DEF ManFields
  <2>6. /\ DOMAIN z.m.pending = DOMAIN x.m.pending \cup {key}
        /\ z.m.pending[key] = p
        /\ \A i \in DOMAIN x.m.pending : i # key => z.m.pending[i] = x.m.pending[i]
    BY <2>5 DEF Put
  <2>7. /\ DOMAIN x.m.pending \subseteq (0 .. x.m.next - 1) \X Nat
        /\ \A i \in DOMAIN x.m.pending : i = <<i[1], i[2]>>
    BY <1>3 DEF ManTyped
  <2>8. ManTyped(z.m)
    <3>1. DOMAIN z.m.pending \subseteq (0 .. z.m.next - 1) \X Nat
      BY <1>2, <1>3, <2>5, <2>6, <2>7
    <3>2. \A i \in DOMAIN z.m.pending : /\ z.m.pending[i].m \in Kinds
                                        /\ z.m.pending[i].m = "initialize" => DOMAIN z.m.pending[i].docs \subseteq Docs
      BY <1>3, <2>6 DEF ManTyped
    <3>3. ManTyped(w.m)
      BY <1>2
    <3>4. PICK a, b : a = w.m /\ b = z.m
      OBVIOUS
    <3>5. /\ DOMAIN b = ManFields /\ b.clients = a.clients /\ b.titles = a.titles /\ b.next = a.next
          /\ b.join = a.join /\ b.caps = a.caps /\ b.status = a.status /\ ManTyped(a)
          /\ DOMAIN b.pending \subseteq (0 .. b.next - 1) \X Nat
          /\ \A i \in DOMAIN b.pending : /\ b.pending[i].m \in Kinds
                                         /\ b.pending[i].m = "initialize" => DOMAIN b.pending[i].docs \subseteq Docs
      BY ONLY <2>5, <3>1, <3>2, <3>3, <3>4
    <3>6. ManTyped(b)
      BY ONLY <3>5, SMTT(40) DEF ManTyped
    <3> QED
      BY ONLY <3>4, <3>6
  <2>9. msg.k = "request" /\ msg.rid = rid /\ msg.m = k /\ msg.d = d /\ msg.v = v
    BY DEF ToServer
  <2>10. ServerOK(z.m, z.s[id], rs, id)
    <3> HIDE DEF msg, sv
    <3>1. DOMAIN z.m.pending = DOMAIN x.m.pending \cup {<<id, msg.rid>>} /\ key = <<id, msg.rid>>
      BY ONLY <2>6, <2>9
    <3> HIDE DEF key
    <3>2. /\ id \in DOMAIN z.m.clients /\ z.m.clients[id].next = x.m.clients[id].next + 1
          /\ z.m.next = x.m.next /\ z.m.titles = x.m.titles /\ x.m.clients[id].next \in Nat
          /\ msg.rid = x.m.clients[id].next
      BY <1>2, <2>5, <2>9
    <3>3. /\ z.m.pending[<<id, msg.rid>>].m = msg.m /\ z.m.pending[<<id, msg.rid>>].d = msg.d
          /\ z.m.pending[<<id, msg.rid>>].v = msg.v
          /\ \A i \in DOMAIN x.m.pending : i # <<id, msg.rid>> => z.m.pending[i] = x.m.pending[i]
      BY <2>6, <2>9, <3>1
    <3>4. /\ DOMAIN z.s[id] = SrvFields /\ z.s[id].in = Append(sv.in, msg)
          /\ z.s[id].st = sv.st /\ z.s[id].todo = sv.todo /\ z.s[id].out = sv.out
          /\ z.s[id].reader = sv.reader /\ z.s[id].begun = sv.begun
      BY ONLY <2>4, <2>5
    <3>5. PICK m : m = x.m
      OBVIOUS
    <3>6. PICK m2 : m2 = z.m
      OBVIOUS
    <3>7. PICK sv2 : sv2 = z.s[id]
      OBVIOUS
    <3>8. /\ ServerOK(m, sv, rs, id) /\ sv.st = "up"
          /\ msg.k = "request" /\ msg.rid = m.clients[id].next /\ id \in DOMAIN m.clients /\ m.clients[id].next \in Nat
          /\ m2.next = m.next /\ id \in DOMAIN m2.clients /\ m2.clients[id].next = m.clients[id].next + 1
          /\ m2.titles = m.titles
      BY ONLY <1>3, <1>5, <2>9, <3>2, <3>5, <3>6, id \in DOMAIN x.m.clients
    <3>9. /\ DOMAIN m2.pending = DOMAIN m.pending \cup {<<id, msg.rid>>}
          /\ \A i \in DOMAIN m.pending : i # <<id, msg.rid>> => m2.pending[i] = m.pending[i]
          /\ \A i \in DOMAIN m.pending : i = <<i[1], i[2]>>
          /\ m2.pending[<<id, msg.rid>>].m = msg.m /\ m2.pending[<<id, msg.rid>>].d = msg.d
          /\ m2.pending[<<id, msg.rid>>].v = msg.v
      BY ONLY <2>7, <3>1, <3>3, <3>5, <3>6
    <3>10. /\ DOMAIN sv2 = SrvFields /\ sv2.in = Append(sv.in, msg) /\ sv2.st = sv.st /\ sv2.todo = sv.todo
           /\ sv2.out = sv.out /\ sv2.reader = sv.reader /\ sv2.begun = sv.begun
      BY ONLY <3>4, <3>7
    <3>11. ServerOK(m2, sv2, rs, id)
      BY ONLY <1>3, <3>8, <3>9, <3>10, ServerAsked
    <3> QED
      BY ONLY <3>6, <3>7, <3>11
  <2>11. ASSUME NEW j \in Ids, j # id PROVE ServerOK(z.m, z.s[j], rs, j)
    <3>1. z.s[j] = x.s[j] /\ ServerOK(x.m, x.s[j], rs, j)
      BY <1>2, <2>4, <2>5, <2>11, CtxParts
    <3>2. Milder(x.m, z.m, j)
      <4>1. \A i \in DOMAIN z.m.pending : i[1] = j => i \in DOMAIN x.m.pending /\ z.m.pending[i] = x.m.pending[i]
        BY <2>6, <2>11
      <4>2. Milder(x.m, w.m, j)
        BY <1>2
      <4> QED
        BY ONLY <4>1, <4>2, <2>5, <1>2 DEF Milder
    <3>3. x.m.next \in Int /\ z.m.next \in Int
      BY <1>2, <2>5, CtxParts
    <3> QED
      BY ONLY <2>11, <3>1, <3>2, <3>3, ManagerMilder
  <2>12. Ctx(z, rs)
    BY ONLY <1>2, <1>3, <2>4, <2>5, <2>8, <2>10, <2>11, Ctx(x, rs) DEF Ctx, Kernel
  <2> QED
    BY <1>2, <2>3, <2>5, <2>12
<1> QED
  BY <1>4, <1>5

(* A server is asked something, when it is running.                         *)
LEMMA SendRequestKeeps ==
  ASSUME NEW x, NEW rs, Ctx(x, rs), NEW id, NEW k \in Kinds, NEW d, NEW v,
         NEW p, p.m = k, p.d = d, p.v = v, k # "initialize"
  PROVE  Ctx(SendRequest(x, id, k, d, v, p), rs) /\ SendRequest(x, id, k, d, v, p).m.next = x.m.next
BY WriteRequestKeeps DEF SendRequest, Running

(* A server that has been started, before it is asked to initialise.        *)
Client == [status |-> "Initializing", enc |-> "Utf32", next |-> 0]
NextServer(x) == [x EXCEPT !.m.next = @ + 1]
Spawned(y, id) ==
    [y EXCEPT !.m.clients = Put(y.m.clients, id, Client), !.s[id].st = "up", !.s[id].reader = "up"]

(* It is the next one, and the manager has a client of it.                  *)
LEMMA SpawnedFacts ==
  ASSUME NEW x, NEW rs, Ctx(x, rs), x.m.next < Servers, NEW y, y = NextServer(x),
         NEW id, id = x.m.next, NEW z, z = Spawned(y, id)
  PROVE  /\ Ctx(y, rs) /\ Ctx(z, rs)
         /\ y.s = x.s /\ y.m.caps = x.m.caps /\ y.m.pending = x.m.pending /\ y.m.clients = x.m.clients
         /\ y.m.next = x.m.next + 1
         /\ id \in Ids /\ id \notin DOMAIN x.m.clients
         /\ z.m.caps = x.m.caps /\ z.m.pending = x.m.pending /\ z.m.next = x.m.next + 1
         /\ DOMAIN z.m.clients = DOMAIN x.m.clients \cup {id} /\ z.m.clients[id] = Client
         /\ \A j \in DOMAIN x.m.clients : z.m.clients[j] = x.m.clients[j]
         /\ \A j \in Ids \ {id} : z.s[j] = x.s[j]
         /\ z.s[id].in = x.s[id].in /\ z.s[id].has = x.s[id].has
<1> DEFINE sv == x.s[id]
<1>1. /\ DOMAIN x = {"m", "s", "ev"} /\ DOMAIN x.m = ManFields /\ DOMAIN x.s = Ids
      /\ ManTyped(x.m) /\ EventsTyped(x.ev) /\ ReqsTyped(rs) /\ Servers \in Nat
      /\ x.m.next \in Nat /\ DOMAIN x.m.clients \subseteq 0 .. x.m.next - 1
      /\ \A j \in Ids : ServerOK(x.m, x.s[j], rs, j) /\ DOMAIN x.s[j] = SrvFields
      /\ \A j \in DOMAIN x.m.clients : x.m.clients[j].next \in Nat
  BY CtxParts, LspAssumption
<1>2. id \in Ids /\ id \notin DOMAIN x.m.clients /\ id # NoId /\ id \in Nat /\ id + 1 \in 0 .. Servers
      /\ id \in 0 .. (id + 1) - 1 /\ 0 .. id - 1 \subseteq 0 .. (id + 1) - 1
  BY <1>1 DEF Ids, NoId
<1>3. /\ DOMAIN y = {"m", "s", "ev"} /\ y.s = x.s /\ y.ev = x.ev /\ DOMAIN y.m = ManFields
      /\ y.m.pending = x.m.pending /\ y.m.titles = x.m.titles /\ y.m.next = id + 1 /\ y.m.join = x.m.join
      /\ y.m.caps = x.m.caps /\ y.m.status = x.m.status /\ y.m.clients = x.m.clients
  BY <1>1 DEF ManFields, NextServer
<1>4. ManTyped(y.m)
  <2>1. /\ y.m.join \in (0 .. y.m.next - 1) \cup {NoId}
        /\ y.m.caps \in [Ftypes -> (0 .. y.m.next - 1) \cup {NoId}]
        /\ DOMAIN y.m.pending \subseteq (0 .. y.m.next - 1) \X Nat
        /\ DOMAIN y.m.clients \subseteq 0 .. y.m.next - 1
    BY <1>1, <1>2, <1>3 DEF ManTyped
  <2> QED
    BY <1>1, <1>2, <1>3, <2>1 DEF ManTyped
<1>5. Ctx(y, rs)
  <2>1. \A j \in Ids : Milder(x.m, y.m, j)
    BY <1>1, <1>2, <1>3 DEF Milder
  <2> QED
    BY ONLY <1>1, <1>3, <1>4, <2>1, Ctx(x, rs), CtxManager
<1>6. z = [y EXCEPT !.m.clients = Put(y.m.clients, id, Client), !.s[id].st = "up", !.s[id].reader = "up"]
  BY DEF Spawned
<1>7. /\ DOMAIN z = {"m", "s", "ev"} /\ z.ev = x.ev /\ DOMAIN z.m = ManFields
      /\ z.m.pending = x.m.pending /\ z.m.titles = x.m.titles /\ z.m.next = id + 1 /\ z.m.join = x.m.join
      /\ z.m.caps = x.m.caps /\ z.m.status = x.m.status
      /\ z.m.clients = Put(x.m.clients, id, Client)
  BY <1>3, <1>6 DEF ManFields
<1>8. /\ DOMAIN z.s = Ids /\ \A j \in Ids \ {id} : z.s[j] = x.s[j]
      /\ DOMAIN z.s[id] = SrvFields /\ z.s[id].in = sv.in
      /\ z.s[id].todo = sv.todo /\ z.s[id].out = sv.out /\ z.s[id].begun = sv.begun
      /\ z.s[id].has = sv.has
  <2>1. DOMAIN y.s[id] = SrvFields /\ DOMAIN y.s = Ids /\ y.s[id] = sv
    BY <1>1, <1>2, <1>3
  <2>2. z.s = [y.s EXCEPT ![id].st = "up", ![id].reader = "up"]
    BY <1>3, <1>6
  <2> HIDE DEF sv
  <2>3. /\ DOMAIN z.s = Ids /\ \A j \in Ids \ {id} : z.s[j] = y.s[j]
        /\ DOMAIN z.s[id] = SrvFields /\ z.s[id].in = y.s[id].in
        /\ z.s[id].todo = y.s[id].todo /\ z.s[id].out = y.s[id].out /\ z.s[id].begun = y.s[id].begun
        /\ z.s[id].has = y.s[id].has
    BY ONLY <1>2, <2>1, <2>2 DEF SrvFields
  <2> QED
    BY ONLY <1>3, <2>1, <2>3
<1>9. /\ DOMAIN z.m.clients = DOMAIN x.m.clients \cup {id} /\ z.m.clients[id] = Client
      /\ \A j \in DOMAIN x.m.clients : z.m.clients[j] = x.m.clients[j]
  BY <1>2, <1>7 DEF Put
<1>10. ManTyped(z.m)
  <2>1. /\ z.m.join \in (0 .. z.m.next - 1) \cup {NoId} /\ z.m.join \notin DOMAIN z.m.clients
        /\ z.m.caps \in [Ftypes -> (0 .. z.m.next - 1) \cup {NoId}]
        /\ DOMAIN z.m.pending \subseteq (0 .. z.m.next - 1) \X Nat
    <3>1. x.m.join \in (0 .. id - 1) \cup {NoId} /\ x.m.join \notin DOMAIN x.m.clients
      BY <1>1 DEF ManTyped
    <3>2. x.m.join # id
      BY ONLY <1>2, <3>1
    <3>3. y.m.join \in (0 .. y.m.next - 1) \cup {NoId}
          /\ y.m.caps \in [Ftypes -> (0 .. y.m.next - 1) \cup {NoId}]
          /\ DOMAIN y.m.pending \subseteq (0 .. y.m.next - 1) \X Nat
      BY <1>4 DEF ManTyped
    <3> QED
      BY ONLY <3>1, <3>2, <3>3, <1>3, <1>7, <1>9
  <2>2. DOMAIN z.m.clients \subseteq 0 .. z.m.next - 1
    BY <1>1, <1>2, <1>7, <1>9
  <2>3. \A j \in DOMAIN z.m.clients : DOMAIN z.m.clients[j] = {"status", "enc", "next"} /\ z.m.clients[j].next \in Nat
    BY <1>1, <1>9 DEF ManTyped, Client
  <2>4. \A t \in Ftypes : z.m.caps[t] # id
    <3>1. \A t \in Ftypes : x.m.caps[t] \in (0 .. id - 1) \cup {NoId}
      BY <1>1 DEF ManTyped
    <3> QED
      BY ONLY <1>2, <1>7, <3>1
  <2>5. \A t \in Ftypes, j \in DOMAIN z.m.clients : z.m.caps[t] = j => z.m.clients[j].status = "Running"
    BY <1>1, <1>7, <1>9, <2>4 DEF ManTyped
  <2> QED
    BY <1>1, <1>2, <1>7, <2>1, <2>2, <2>3, <2>5 DEF ManTyped
<1>11. ServerOK(z.m, z.s[id], rs, id)
  <2>1. ServerOK(x.m, sv, rs, id) /\ id >= x.m.next /\ ~ (id >= z.m.next)
    BY <1>1, <1>2, <1>7
  <2>2. \A key \in DOMAIN z.m.pending : key[1] # id
    BY <1>1, <1>2, <1>7 DEF ManTyped
  <2> HIDE DEF sv
  <2> QED
    BY ONLY <1>8, <2>1, <2>2, ServerStarted
<1>12. ASSUME NEW j \in Ids, j # id PROVE ServerOK(z.m, z.s[j], rs, j)
  <2>1. Milder(x.m, z.m, j)
    <3>1. z.m.next >= x.m.next
      BY <1>2, <1>7
    <3> QED
      BY <1>1, <1>7, <1>9, <1>12, <3>1 DEF Milder
  <2>2. z.s[j] = x.s[j] /\ ServerOK(x.m, x.s[j], rs, j)
    BY <1>1, <1>8, <1>12
  <2>3. x.m.next \in Int /\ z.m.next \in Int
    BY ONLY <1>1, <1>2, <1>7
  <2> QED
    BY ONLY <1>12, <2>1, <2>2, <2>3, ManagerMilder
<1>13. Ctx(z, rs)
  BY ONLY <1>1, <1>7, <1>8, <1>10, <1>11, <1>12 DEF Ctx, Kernel
<1> QED
  BY <1>2, <1>3, <1>5, <1>7, <1>8, <1>9, <1>13

(* A server is started, or its command cannot be.                           *)
LEMMA HandleStartKeeps ==
  ASSUME NEW x, NEW rs, Ctx(x, rs), x.m.next < Servers, NEW f, NEW docs, DOMAIN docs \subseteq Docs, NEW spawns
  PROVE  Ctx(HandleStart(x, f, docs, spawns), rs) /\ HandleStart(x, f, docs, spawns).m.next = x.m.next + 1
<1>1. PICK id, y, z, p : /\ id = x.m.next /\ y = NextServer(x) /\ z = Spawned(y, id)
                         /\ p = Pending("initialize", NoDoc, 0, f, docs)
  OBVIOUS
<1>2. /\ Ctx(y, rs) /\ Ctx(z, rs) /\ y.m.next = x.m.next + 1 /\ z.m.next = x.m.next + 1
      /\ id \in DOMAIN z.m.clients
  BY <1>1, SpawnedFacts
<1>3. HandleStart(x, f, docs, spawns) = IF ~ spawns THEN y ELSE WriteRequest(z, id, "initialize", NoDoc, 0, p)
  BY <1>1 DEF HandleStart, NextServer, Spawned, Client
<1>4. p.m = "initialize" /\ p.d = NoDoc /\ p.v = 0 /\ DOMAIN p.docs \subseteq Docs /\ "initialize" \in Kinds
  BY <1>1 DEF Pending, Kinds
<1>5. Ctx(WriteRequest(z, id, "initialize", NoDoc, 0, p), rs)
      /\ WriteRequest(z, id, "initialize", NoDoc, 0, p).m.next = z.m.next
  BY ONLY <1>2, <1>4, WriteRequestKeeps
<1> QED
  BY <1>2, <1>3, <1>5

(* A server is told to stop, and its client removed.                        *)
LEMMA StopClientKeeps ==
  ASSUME NEW x, NEW rs, Ctx(x, rs), NEW id
  PROVE  Ctx(StopClient(x, id), rs) /\ StopClient(x, id).m.next = x.m.next
<1>1. PICK p : p = Pending("shutdown", NoDoc, 0, "none", <<>>)
  OBVIOUS
<1>2. p.m = "shutdown" /\ p.d = NoDoc /\ p.v = 0 /\ "shutdown" \in Kinds
  BY <1>1 DEF Pending, Kinds
<1>3. PICK w : w = SendRequest(x, id, "shutdown", NoDoc, 0, p)
  OBVIOUS
<1>4. Ctx(w, rs) /\ w.m.next = x.m.next
  <2>1. "shutdown" # "initialize"
    OBVIOUS
  <2>2. Ctx(SendRequest(x, id, "shutdown", NoDoc, 0, p), rs)
        /\ SendRequest(x, id, "shutdown", NoDoc, 0, p).m.next = x.m.next
    BY ONLY <1>2, <2>1, Ctx(x, rs), SendRequestKeeps
  <2> QED
    BY ONLY <1>3, <2>2
<1>5. PICK y : y = SendNotification(w, id, "exit", NoDoc, 0)
  OBVIOUS
<1>6. Ctx(y, rs) /\ y.m.next = x.m.next
  BY <1>4, <1>5, SendNotificationKeeps
<1>7. StopClient(x, id) = IF id \in DOMAIN y.m.clients
                          THEN [y EXCEPT !.m.clients = Without(@, id), !.m.join = id] ELSE y
  BY <1>1, <1>3, <1>5 DEF StopClient
<1>8. CASE id \notin DOMAIN y.m.clients
  BY <1>6, <1>7, <1>8
<1>9. CASE id \in DOMAIN y.m.clients
  <2>1. PICK z : z = [y EXCEPT !.m.clients = Without(@, id), !.m.join = id]
    OBVIOUS
  <2>2. /\ DOMAIN y = {"m", "s", "ev"} /\ DOMAIN y.m = ManFields /\ ManTyped(y.m) /\ EventsTyped(y.ev)
        /\ DOMAIN y.m.clients \subseteq 0 .. y.m.next - 1 /\ y.m.next \in Nat
        /\ \A j \in DOMAIN y.m.clients : y.m.clients[j].next \in Nat
    BY <1>6, CtxParts
  <2>3. /\ DOMAIN z = {"m", "s", "ev"} /\ z.s = y.s /\ z.ev = y.ev /\ DOMAIN z.m = ManFields
        /\ z.m.pending = y.m.pending /\ z.m.titles = y.m.titles /\ z.m.next = y.m.next /\ z.m.join = id
        /\ z.m.caps = y.m.caps /\ z.m.status = y.m.status /\ z.m.clients = Without(y.m.clients, id)
    BY <2>1, <2>2 DEF ManFields
  <2>4. DOMAIN z.m.clients = DOMAIN y.m.clients \ {id} /\ \A j \in DOMAIN z.m.clients : z.m.clients[j] = y.m.clients[j]
    BY <2>3 DEF Without
  <2>5. ManTyped(z.m)
    <3>1. id \in 0 .. z.m.next - 1 /\ id \notin DOMAIN z.m.clients /\ DOMAIN z.m.clients \subseteq 0 .. z.m.next - 1
      BY <1>9, <2>2, <2>3, <2>4
    <3> QED
      BY <2>2, <2>3, <2>4, <3>1 DEF ManTyped
  <2>6. \A j \in Ids : Milder(y.m, z.m, j)
    BY <2>2, <2>3, <2>4 DEF Milder
  <2>7. Ctx(z, rs)
    BY ONLY <1>6, <2>2, <2>3, <2>5, <2>6, CtxManager
  <2> QED
    BY <1>6, <1>7, <1>9, <2>1, <2>3, <2>7
<1> QED
  BY <1>8, <1>9

(* the manager when a server is initialised, before it is told of documents *)
Ready(x, id, p, res) ==
    [x EXCEPT !.m.clients[id].status = "Running", !.m.clients[id].enc = res.enc, !.m.caps[p.f] = id]

(* It is in use then.                                                       *)
LEMMA ReadyFacts ==
  ASSUME NEW x, NEW rs, Ctx(x, rs), NEW id \in DOMAIN x.m.clients, NEW p, NEW res, NEW w, w = Ready(x, id, p, res)
  PROVE  /\ Ctx(w, rs) /\ w.s = x.s /\ w.m.pending = x.m.pending /\ w.m.next = x.m.next
         /\ \A f \in Ftypes : w.m.caps[f] = IF f = p.f THEN id ELSE x.m.caps[f]
         /\ DOMAIN w.m.clients = DOMAIN x.m.clients
         /\ \A j \in DOMAIN x.m.clients \ {id} : w.m.clients[j] = x.m.clients[j]
         /\ w.m.clients[id].status = "Running"
<1>1. /\ DOMAIN x = {"m", "s", "ev"} /\ DOMAIN x.m = ManFields /\ ManTyped(x.m) /\ EventsTyped(x.ev)
      /\ DOMAIN x.m.clients \subseteq 0 .. x.m.next - 1 /\ x.m.next \in Nat
      /\ \A j \in DOMAIN x.m.clients : x.m.clients[j].next \in Nat
  BY CtxParts
<1>2. DOMAIN x.m.clients[id] = {"status", "enc", "next"}
  BY <1>1 DEF ManTyped
<1>3. /\ DOMAIN w = {"m", "s", "ev"} /\ w.s = x.s /\ w.ev = x.ev /\ DOMAIN w.m = ManFields
      /\ w.m.pending = x.m.pending /\ w.m.titles = x.m.titles /\ w.m.next = x.m.next /\ w.m.join = x.m.join
      /\ w.m.status = x.m.status /\ w.m.caps = [x.m.caps EXCEPT ![p.f] = id]
      /\ DOMAIN w.m.clients = DOMAIN x.m.clients
      /\ \A j \in DOMAIN x.m.clients \ {id} : w.m.clients[j] = x.m.clients[j]
      /\ DOMAIN w.m.clients[id] = {"status", "enc", "next"} /\ w.m.clients[id].next = x.m.clients[id].next
      /\ w.m.clients[id].status = "Running"
  BY <1>1, <1>2, ZenonT(40) DEF ManFields, Ready
<1>4. ManTyped(w.m)
  <2>1. /\ x.m.caps \in [Ftypes -> (0 .. x.m.next - 1) \cup {NoId}] /\ id \in 0 .. x.m.next - 1
    BY <1>1 DEF ManTyped
  <2>2. w.m.caps \in [Ftypes -> (0 .. w.m.next - 1) \cup {NoId}]
        /\ \A f \in Ftypes : w.m.caps[f] = id \/ w.m.caps[f] = x.m.caps[f]
    BY ONLY <1>3, <2>1
  <2>3. \A f \in Ftypes, j \in DOMAIN w.m.clients : w.m.caps[f] = j => w.m.clients[j].status = "Running"
    BY <1>1, <1>3, <2>2 DEF ManTyped
  <2>4. \A j \in DOMAIN w.m.clients : DOMAIN w.m.clients[j] = {"status", "enc", "next"} /\ w.m.clients[j].next \in Nat
    BY <1>1, <1>3 DEF ManTyped
  <2> QED
    BY <1>1, <1>3, <2>2, <2>3, <2>4 DEF ManTyped
<1>5. \A j \in Ids : Milder(x.m, w.m, j)
  BY <1>1, <1>3 DEF Milder
<1>6. Ctx(w, rs)
  BY ONLY <1>1, <1>3, <1>4, <1>5, Ctx(x, rs), CtxManager
<1>7. \A f \in Ftypes : w.m.caps[f] = IF f = p.f THEN id ELSE x.m.caps[f]
  BY <1>1, <1>3 DEF ManTyped
<1> QED
  BY <1>3, <1>6, <1>7

(* A server has been initialised.                                           *)
LEMMA InitializedKeeps ==
  ASSUME NEW x, NEW rs, Ctx(x, rs), NEW id \in Ids, NEW p, DOMAIN p.docs \subseteq Docs, NEW res
  PROVE  Ctx(Initialized(x, id, p, res), rs) /\ Initialized(x, id, p, res).m.next = x.m.next
<1>1. CASE res.enc = "unknown"
  BY <1>1, StopClientKeeps DEF Initialized
<1>2. CASE res.enc # "unknown" /\ id \notin DOMAIN x.m.clients
  BY <1>2 DEF Initialized
<1>3. CASE res.enc # "unknown" /\ id \in DOMAIN x.m.clients
  <2>1. PICK w : w = Ready(x, id, p, res)
    OBVIOUS
  <2>2. Ctx(w, rs) /\ w.m.next = x.m.next
    <3>1. id \in DOMAIN x.m.clients
      BY <1>3
    <3> QED
      BY ONLY <2>1, <3>1, Ctx(x, rs), ReadyFacts
  <2>3. PICK y : y = SendNotification(w, id, "initialized", NoDoc, 0)
    OBVIOUS
  <2>4. Ctx(y, rs) /\ y.m = w.m
    BY <2>2, <2>3, SendNotificationKeeps
  <2>5. Initialized(x, id, p, res) = SendNotifications(y, id, "didOpen", p.docs)
    BY <1>3, <2>1, <2>3 DEF Initialized, Ready
  <2> QED
    BY <2>2, <2>4, <2>5, SendNotificationsKeeps
<1> QED
  BY <1>1, <1>2, <1>3

(* Something is sent to the editor.                                         *)
LEMMA TellKeeps ==
  ASSUME NEW x, NEW rs, Ctx(x, rs), NEW e, Action(e)
  PROVE  Ctx(Tell(x, e), rs) /\ Tell(x, e).m.next = x.m.next
<1>1. PICK y : y = Tell(x, e)
  OBVIOUS
<1>2. /\ DOMAIN x = {"m", "s", "ev"} /\ ManTyped(x.m) /\ EventsTyped(x.ev) /\ x.m.next \in Nat
      /\ \A j \in DOMAIN x.m.clients : x.m.clients[j].next \in Nat
  BY CtxParts
<1>3. DOMAIN y = {"m", "s", "ev"} /\ y.m = x.m /\ y.s = x.s /\ y.ev = Append(x.ev, e)
  BY <1>1, <1>2 DEF Tell
<1>4. EventsTyped(y.ev)
  <2>1. IsSeq(x.ev) /\ \A i \in DOMAIN x.ev : Action(x.ev[i])
    BY <1>2 DEF EventsTyped
  <2>2. IsSeq(Append(x.ev, e))
    BY <2>1, SeqAppend
  <2>3. ASSUME NEW i \in DOMAIN Append(x.ev, e) PROVE Action(Append(x.ev, e)[i])
    BY <2>1, ValuesAppend
  <2> QED
    BY <1>3, <2>2, <2>3 DEF EventsTyped
<1>5. \A j \in Ids : Milder(x.m, y.m, j)
  BY <1>2, <1>3 DEF Milder
<1>6. ManTyped(y.m)
  BY <1>2, <1>3
<1>7. Ctx(y, rs)
  BY ONLY <1>3, <1>4, <1>5, <1>6, Ctx(x, rs), CtxManager
<1> QED
  BY <1>1, <1>3, <1>7

(* An answer is acted on.                                                   *)
LEMMA HandleResKeeps ==
  ASSUME NEW x, NEW rs, Ctx(x, rs), NEW id \in Ids,
         NEW p, p.m \in Kinds, p.m = "initialize" => DOMAIN p.docs \subseteq Docs,
         NEW res, p.m \in Located => res.d \in Docs
  PROVE  Ctx(HandleRes(x, id, p, res), rs) /\ HandleRes(x, id, p, res).m.next = x.m.next
<1>1. CASE p.m = "initialize"
  <2>1. HandleRes(x, id, p, res) = Initialized(x, id, p, res)
    BY <1>1 DEF HandleRes
  <2> QED
    BY <1>1, <2>1, InitializedKeeps
<1>2. ASSUME NEW k, NEW d, NEW back, k \in {"open", "references", "edit", "rename", "resolve", "complete", "newName"},
             k \in {"open", "references", "rename"} => d \in Docs
      PROVE  Ctx(Tell(x, Event(k, d, back, id)), rs) /\ Tell(x, Event(k, d, back, id)).m.next = x.m.next
  <2>1. PICK e : e = Event(k, d, back, id)
    OBVIOUS
  <2>2. Action(e)
    BY <1>2, <2>1 DEF Action, Event
  <2> QED
    BY <2>1, <2>2, TellKeeps
<1>3. CASE p.m = "goto"
  <2>1. HandleRes(x, id, p, res) = x \/ HandleRes(x, id, p, res) = Tell(x, Event("open", res.d, NoDoc, id))
    BY <1>3 DEF HandleRes, GotoRes
  <2> QED
    BY <1>2, <1>3, <2>1 DEF Located
<1>4. CASE p.m = "references"
  <2>1. HandleRes(x, id, p, res) = x \/ HandleRes(x, id, p, res) = Tell(x, Event("references", res.d, NoDoc, id))
    BY <1>4 DEF HandleRes, ReferencesRes
  <2> QED
    BY <1>2, <1>4, <2>1 DEF Located
<1>5. CASE p.m = "rename"
  <2>1. HandleRes(x, id, p, res) = x \/ HandleRes(x, id, p, res) = Tell(x, Event("rename", res.d, p.d, id))
    BY <1>5 DEF HandleRes, RenameRes
  <2> QED
    BY <1>2, <1>5, <2>1 DEF Located
<1>6. CASE p.m \in {"format", "resolve"}
  <2>1. HandleRes(x, id, p, res) = x \/ HandleRes(x, id, p, res) = Tell(x, Event("edit", p.d, NoDoc, id))
    BY <1>6 DEF HandleRes, FormatRes, ResolveRes
  <2> QED
    BY <1>2, <2>1
<1>7. CASE p.m = "completion"
  <2>1. \/ HandleRes(x, id, p, res) = x \/ HandleRes(x, id, p, res) = Tell(x, Event("resolve", p.d, NoDoc, id))
        \/ HandleRes(x, id, p, res) = Tell(x, Event("complete", p.d, NoDoc, id))
    BY <1>7 DEF HandleRes, CompletionRes
  <2> QED
    BY <1>2, <2>1
<1>8. CASE p.m = "prepareRename"
  <2>1. HandleRes(x, id, p, res) = x \/ HandleRes(x, id, p, res) = Tell(x, Event("newName", p.d, NoDoc, id))
    BY <1>8 DEF HandleRes, PrepareRenameRes
  <2> QED
    BY <1>2, <2>1
<1>9. CASE p.m \in {"hover", "shutdown"}
  BY <1>9 DEF HandleRes, HoverRes
<1> QED
  BY <1>1, <1>3, <1>4, <1>5, <1>6, <1>7, <1>8, <1>9 DEF Kinds, Questions

(* The manager takes the first request from the channel and keeps its maps  *)
(* in step with it.                                                         *)
LEMMA CtxTaken ==
  ASSUME NEW x, NEW rs, Ctx(x, rs), rs # <<>>,
         NEW y, DOMAIN y = {"m", "s", "ev"}, y.s = x.s, y.ev = x.ev, ManTyped(y.m),
         y.m.next = x.m.next, y.m.clients = x.m.clients,
         \A id \in Ids : \A t : Noted(x.m, y.m, Head(rs), id, t),
         \A key \in DOMAIN y.m.pending :
            /\ key \in DOMAIN x.m.pending /\ y.m.pending[key] = x.m.pending[key]
            /\ ~ (IsAnswer(Head(rs), key[1]) /\ Head(rs).msg.rid = key[2])
  PROVE  Ctx(y, Tail(rs))
<1>1. IsSeq(rs) /\ \A i \in DOMAIN rs : OnChannel(rs[i])
  BY CtxParts DEF ReqsTyped
<1>2. ReqsTyped(Tail(rs))
  <2>1. IsSeq(Tail(rs))
    BY <1>1, SeqTail
  <2>2. ASSUME NEW i \in DOMAIN Tail(rs) PROVE OnChannel(Tail(rs)[i])
    BY <1>1, ValuesTail
  <2> QED
    BY <2>1, <2>2 DEF ReqsTyped
<1>3. ASSUME NEW id \in Ids PROVE ServerOK(y.m, y.s[id], Tail(rs), id)
  <2>1. PICK m : m = x.m
    OBVIOUS
  <2>2. PICK m2 : m2 = y.m
    OBVIOUS
  <2>3. PICK sv : sv = x.s[id]
    OBVIOUS
  <2>4. ServerOK(m, sv, rs, id) /\ y.s[id] = sv
    BY <2>1, <2>3, CtxParts
  <2>5. m2.next = m.next /\ m2.clients = m.clients /\ \A t : Noted(m, m2, Head(rs), id, t)
    BY <2>1, <2>2
  <2>6. \A key \in DOMAIN m2.pending :
          /\ key \in DOMAIN m.pending /\ m2.pending[key] = m.pending[key]
          /\ key[1] = id => ~ (IsAnswer(Head(rs), id) /\ Head(rs).msg.rid = key[2])
    BY <2>1, <2>2
  <2>7. ServerOK(m2, sv, Tail(rs), id)
    BY ONLY <1>1, <2>4, <2>5, <2>6, rs # <<>>, ChannelTaken
  <2> QED
    BY <2>2, <2>4, <2>7
<1>4. DOMAIN y.s = Ids /\ EventsTyped(y.ev)
  BY CtxParts
<1> QED
  BY <1>2, <1>3, <1>4 DEF Ctx, Kernel

(* A message that answers no question which was kept is taken: the titles   *)
(* and what is shown may change.                                            *)
LEMMA MessageTaken ==
  ASSUME NEW x, NEW rs, Ctx(x, rs), rs # <<>>,
         NEW y, DOMAIN y = {"m", "s", "ev"}, y.s = x.s, y.ev = x.ev, DOMAIN y.m = ManFields,
         y.m.clients = x.m.clients, y.m.pending = x.m.pending, y.m.next = x.m.next, y.m.join = x.m.join,
         y.m.caps = x.m.caps, DOMAIN y.m.titles = Ids,
         y.m.status.of \in {"begin", "report"} => y.m.status.title = y.m.status.id,
         \A j \in Ids : \A t : Noted(x.m, y.m, Head(rs), j, t),
         (Head(rs).k = "message" /\ Head(rs).msg.k = "response")
            => <<Head(rs).id, Head(rs).msg.rid>> \notin DOMAIN x.m.pending
  PROVE  Ctx(y, Tail(rs)) /\ y.m.next = x.m.next
<1>1. ManTyped(x.m)
  BY CtxParts
<1>2. ManTyped(y.m)
  BY <1>1 DEF ManTyped
<1>3. ASSUME NEW key \in DOMAIN y.m.pending
      PROVE  /\ key \in DOMAIN x.m.pending /\ y.m.pending[key] = x.m.pending[key]
             /\ ~ (IsAnswer(Head(rs), key[1]) /\ Head(rs).msg.rid = key[2])
  <2>1. key \in DOMAIN x.m.pending /\ key = <<key[1], key[2]>>
    BY <1>1 DEF ManTyped
  <2> QED
    BY <2>1 DEF IsAnswer, From
<1> QED
  BY <1>2, <1>3, CtxTaken

(* a record with the titles of a server, or the status, set *)
WithTitles(w, id, ts) == [w EXCEPT !.m.titles[id] = ts]
WithStatus(x, st)     == [x EXCEPT !.m.status = st]

(* The fields of one whose titles of a server are set.                      *)
LEMMA SetTitles ==
  ASSUME NEW w, DOMAIN w = {"m", "s", "ev"}, DOMAIN w.m = ManFields, DOMAIN w.m.titles = Ids,
         NEW id \in Ids, NEW ts, NEW y, y = WithTitles(w, id, ts)
  PROVE  /\ DOMAIN y = {"m", "s", "ev"} /\ y.s = w.s /\ y.ev = w.ev /\ DOMAIN y.m = ManFields
         /\ y.m.clients = w.m.clients /\ y.m.pending = w.m.pending /\ y.m.next = w.m.next
         /\ y.m.join = w.m.join /\ y.m.caps = w.m.caps /\ y.m.status = w.m.status
         /\ DOMAIN y.m.titles = Ids /\ y.m.titles[id] = ts
         /\ \A j \in Ids \ {id} : y.m.titles[j] = w.m.titles[j]
<1>1. PICK m : m = w.m
  OBVIOUS
<1>2. PICK m2 : m2 = [m EXCEPT !.titles[id] = ts]
  OBVIOUS
<1>3. DOMAIN y = {"m", "s", "ev"} /\ y.s = w.s /\ y.ev = w.ev /\ y.m = m2
  BY <1>1, <1>2 DEF WithTitles
<1>4. /\ DOMAIN m2 = ManFields /\ m2.clients = m.clients /\ m2.pending = m.pending /\ m2.next = m.next
      /\ m2.join = m.join /\ m2.caps = m.caps /\ m2.status = m.status
      /\ m2.titles = [m.titles EXCEPT ![id] = ts]
  BY ONLY <1>1, <1>2, DOMAIN w.m = ManFields DEF ManFields
<1>5. DOMAIN m.titles = Ids
  BY <1>1
<1>6. DOMAIN m2.titles = Ids /\ m2.titles[id] = ts /\ \A j \in Ids \ {id} : m2.titles[j] = m.titles[j]
  BY ONLY <1>4, <1>5, id \in Ids
<1> QED
  BY ONLY <1>1, <1>3, <1>4, <1>6

(* The fields of one whose status is set.                                   *)
LEMMA SetStatus ==
  ASSUME NEW x, NEW rs, Ctx(x, rs), NEW st, NEW w, w = WithStatus(x, st)
  PROVE  /\ DOMAIN w = {"m", "s", "ev"} /\ w.s = x.s /\ w.ev = x.ev /\ DOMAIN w.m = ManFields
         /\ w.m.clients = x.m.clients /\ w.m.pending = x.m.pending /\ w.m.next = x.m.next
         /\ w.m.join = x.m.join /\ w.m.caps = x.m.caps /\ w.m.titles = x.m.titles /\ w.m.status = st
<1>1. DOMAIN x = {"m", "s", "ev"} /\ DOMAIN x.m = ManFields
  BY CtxParts
<1> QED
  BY <1>1 DEF ManFields, WithStatus

(* A server says that it will report, begins, reports or ends.              *)
LEMMA ProgressKeeps ==
  ASSUME NEW x, NEW rs, Ctx(x, rs), rs # <<>>, NEW id \in Ids, NEW msg,
         Head(rs).k = "message", Head(rs).id = id, Head(rs).msg = msg
  PROVE  /\ (msg.k = "notify" /\ msg.m \in {"begin", "report", "end"})
               => Ctx(ShowProgress(x, id, msg), Tail(rs)) /\ ShowProgress(x, id, msg).m.next = x.m.next
         /\ (msg.k = "request" /\ msg.m = "create")
               => Ctx(CreateProgress(x, id, msg), Tail(rs)) /\ CreateProgress(x, id, msg).m.next = x.m.next
<1>1. /\ DOMAIN x = {"m", "s", "ev"} /\ DOMAIN x.m = ManFields /\ ManTyped(x.m)
      /\ DOMAIN x.m.titles = Ids /\ ReqsTyped(rs) /\ ServerOK(x.m, x.s[id], rs, id)
  BY CtxParts DEF ManTyped
<1>2. ASSUME NEW w, NEW ts, NEW y, msg.k # "response", w = x \/ \E st : w = WithStatus(x, st),
             y = WithTitles(w, id, ts),
             w.m.status.of \in {"begin", "report"} => w.m.status.title = w.m.status.id,
             \A t : Begins(msg, t) => t \in DOMAIN ts /\ ts[t] = id,
             \A t : (TitledAt(x.m, id, t) /\ ~ Ends(msg, t)) => t \in DOMAIN ts /\ ts[t] = id
      PROVE  Ctx(y, Tail(rs)) /\ y.m.next = x.m.next
  <2>0. /\ DOMAIN w = {"m", "s", "ev"} /\ w.s = x.s /\ w.ev = x.ev /\ DOMAIN w.m = ManFields
        /\ w.m.clients = x.m.clients /\ w.m.pending = x.m.pending /\ w.m.next = x.m.next
        /\ w.m.join = x.m.join /\ w.m.caps = x.m.caps /\ w.m.titles = x.m.titles
    <3>1. CASE w = x
      BY <1>1, <3>1
    <3>2. CASE \E st : w = WithStatus(x, st)
      <4>1. PICK st : w = WithStatus(x, st)
        BY <3>2
      <4> QED
        BY ONLY <4>1, Ctx(x, rs), SetStatus
    <3> QED
      BY <1>2, <3>1, <3>2
  <2>1. /\ DOMAIN y = {"m", "s", "ev"} /\ y.s = w.s /\ y.ev = w.ev /\ DOMAIN y.m = ManFields
        /\ y.m.clients = w.m.clients /\ y.m.pending = w.m.pending /\ y.m.next = w.m.next
        /\ y.m.join = w.m.join /\ y.m.caps = w.m.caps /\ y.m.status = w.m.status
        /\ DOMAIN y.m.titles = Ids /\ y.m.titles[id] = ts
        /\ \A j \in Ids \ {id} : y.m.titles[j] = w.m.titles[j]
    <3>1. DOMAIN w.m.titles = Ids /\ y = WithTitles(w, id, ts)
      BY <1>1, <1>2, <2>0
    <3> QED
      BY ONLY <2>0, <3>1, id \in Ids, SetTitles
  <2>2. ASSUME NEW j \in Ids, NEW t PROVE Noted(x.m, y.m, Head(rs), j, t)
    <3>1. CASE j = id
      BY <1>2, <2>0, <2>1, <3>1 DEF Noted, TitledAt, From
    <3>2. CASE j # id
      BY <2>0, <2>1, <3>2 DEF Noted, TitledAt, From
    <3> QED
      BY <3>1, <3>2
  <2>3. /\ y.s = x.s /\ y.ev = x.ev /\ y.m.clients = x.m.clients /\ y.m.pending = x.m.pending
        /\ y.m.next = x.m.next /\ y.m.join = x.m.join /\ y.m.caps = x.m.caps
        /\ y.m.status.of \in {"begin", "report"} => y.m.status.title = y.m.status.id
    BY <1>2, <2>0, <2>1
  <2>4. (Head(rs).k = "message" /\ Head(rs).msg.k = "response")
            => <<Head(rs).id, Head(rs).msg.rid>> \notin DOMAIN x.m.pending
    BY <1>2
  <2> QED
    BY ONLY Ctx(x, rs), rs # <<>>, <2>1, <2>2, <2>3, <2>4, MessageTaken
<1>3. CASE msg.k = "notify" /\ msg.m = "begin"
  <2>1. PICK st : st = [id |-> id, tok |-> msg.tok, title |-> id, of |-> msg.m]
    OBVIOUS
  <2>2. PICK ts : ts = Put(x.m.titles[id], msg.tok, id)
    OBVIOUS
  <2>7. PICK w : w = WithStatus(x, st)
    OBVIOUS
  <2>8. w.m.titles = x.m.titles /\ w.m.status = st
    BY <2>7, SetStatus
  <2>3. ShowProgress(x, id, msg) = WithTitles(w, id, ts)
    BY <1>3, <2>1, <2>2, <2>7, <2>8 DEF ShowProgress, TokensOf, WithTitles, WithStatus
  <2>4. \A t : Begins(msg, t) => t \in DOMAIN ts /\ ts[t] = id
    BY <2>2 DEF Begins, Put
  <2>5. \A t : TitledAt(x.m, id, t) => t \in DOMAIN ts /\ ts[t] = id
    BY <2>2 DEF TitledAt, Put
  <2>6. st.title = st.id
    BY <2>1
  <2> QED
    BY <1>2, <1>3, <2>3, <2>4, <2>5, <2>6, <2>7, <2>8
<1>4. CASE msg.k = "notify" /\ msg.m = "end"
  <2>1. PICK st : st = [id |-> id, tok |-> msg.tok, title |-> NoTitle, of |-> msg.m]
    OBVIOUS
  <2>2. PICK ts : ts = Without(x.m.titles[id], msg.tok)
    OBVIOUS
  <2>7. PICK w : w = WithStatus(x, st)
    OBVIOUS
  <2>8. w.m.titles = x.m.titles /\ w.m.status = st
    BY <2>7, SetStatus
  <2>3. ShowProgress(x, id, msg) = WithTitles(w, id, ts)
    BY <1>4, <2>1, <2>2, <2>7, <2>8 DEF ShowProgress, TokensOf, WithTitles, WithStatus
  <2>4. \A t : ~ Begins(msg, t)
    BY <1>4 DEF Begins
  <2>5. \A t : (TitledAt(x.m, id, t) /\ ~ Ends(msg, t)) => t \in DOMAIN ts /\ ts[t] = id
    BY <1>4, <2>2 DEF TitledAt, Without, Ends
  <2>6. st.of = "end"
    BY <1>4, <2>1
  <2> QED
    BY <1>2, <1>4, <2>3, <2>4, <2>5, <2>6, <2>7, <2>8
<1>5. CASE msg.k = "request" /\ msg.m = "create"
  <2>1. PICK ts : ts = Put(x.m.titles[id], msg.tok, NoTitle)
    OBVIOUS
  <2>2. PICK y : y = WithTitles(x, id, ts)
    OBVIOUS
  <2>3. \A t : ~ Begins(msg, t)
    BY <1>5 DEF Begins
  <2>4. \A t : (TitledAt(x.m, id, t) /\ ~ Ends(msg, t)) => t \in DOMAIN ts /\ ts[t] = id
    BY <1>5, <2>1 DEF TitledAt, Put, Ends
  <2>5. x.m.status.of \in {"begin", "report"} => x.m.status.title = x.m.status.id
    BY <1>1 DEF ManTyped
  <2>6. Ctx(y, Tail(rs)) /\ y.m.next = x.m.next
    BY <1>2, <1>5, <2>2, <2>3, <2>4, <2>5
  <2>7. PICK answer : answer = ToServer("response", msg.rid, "create", NoDoc, 0)
    OBVIOUS
  <2>8. CreateProgress(x, id, msg) = y \/ CreateProgress(x, id, msg) = Write(y, id, answer)
    BY <1>1, <2>1, <2>2, <2>7 DEF CreateProgress, TokensOf, WithTitles
  <2>9. answer.k # "request"
    BY <2>7 DEF ToServer
  <2>10. Ctx(Write(y, id, answer), Tail(rs)) /\ Write(y, id, answer).m = y.m
    BY ONLY <2>6, <2>9, id \in Ids, WriteKeeps
  <2> QED
    BY <1>5, <2>6, <2>8, <2>10
<1>6. CASE msg.k = "notify" /\ msg.m = "report"
  <2>1. TitledAt(x.m, id, msg.tok)
    <3>1. IsSeq(rs) /\ 1 \in DOMAIN rs /\ rs[1] = Head(rs)
      BY <1>1, SeqTail DEF ReqsTyped
    <3>2. OpenReqs(x.m, rs, id, msg.tok, 1)
      BY <1>1, <1>6, <3>1 DEF ServerOK, TitledIn, From, Reports
    <3>3. ReqBegins(rs, id, msg.tok) \in SUBSET (Nat \ {0})
      BY <3>1, PlacesAreNumbers
    <3> QED
      BY <3>2, <3>3 DEF OpenReqs, BegunIn
  <2>2. PICK st : st = [id |-> id, tok |-> msg.tok, title |-> id, of |-> msg.m]
    OBVIOUS
  <2>3. PICK y : y = [x EXCEPT !.m.status = st]
    OBVIOUS
  <2>4. ShowProgress(x, id, msg) = y
    BY <1>1, <1>6, <2>1, <2>2, <2>3 DEF ShowProgress, TokensOf, TitledAt
  <2>5. /\ DOMAIN y = {"m", "s", "ev"} /\ y.s = x.s /\ y.ev = x.ev /\ DOMAIN y.m = ManFields
        /\ y.m.clients = x.m.clients /\ y.m.pending = x.m.pending /\ y.m.next = x.m.next
        /\ y.m.join = x.m.join /\ y.m.caps = x.m.caps /\ y.m.status = st /\ y.m.titles = x.m.titles
    BY <1>1, <2>3 DEF ManFields
  <2>6. st.title = st.id
    BY <2>2
  <2>7. \A j \in Ids : \A t : Noted(x.m, y.m, Head(rs), j, t)
    BY <1>6, <2>5 DEF Noted, TitledAt, Begins
  <2>8. Ctx(y, Tail(rs)) /\ y.m.next = x.m.next
    BY <1>1, <1>6, <2>5, <2>6, <2>7, MessageTaken
  <2> QED
    BY <1>6, <2>4, <2>8
<1> QED
  BY <1>3, <1>4, <1>5, <1>6

(* the manager when it has taken a question from those that it keeps        *)
Answered(x, key) == [x EXCEPT !.m.pending = Without(@, key)]

(* That takes the answer from the channel.                                  *)
LEMMA AnsweredFacts ==
  ASSUME NEW x, NEW rs, Ctx(x, rs), rs # <<>>, NEW id \in Ids, NEW msg, msg.k = "response",
         Head(rs).k = "message", Head(rs).id = id, Head(rs).msg = msg,
         NEW key, key = <<id, msg.rid>>, NEW y, y = Answered(x, key)
  PROVE  /\ Ctx(y, Tail(rs)) /\ y.s = x.s
         /\ y.m.clients = x.m.clients /\ y.m.next = x.m.next /\ y.m.caps = x.m.caps
         /\ DOMAIN y.m.pending = DOMAIN x.m.pending \ {key}
         /\ \A k \in DOMAIN y.m.pending : y.m.pending[k] = x.m.pending[k]
<1>1. /\ DOMAIN x = {"m", "s", "ev"} /\ DOMAIN x.m = ManFields /\ ManTyped(x.m) /\ DOMAIN x.m.titles = Ids
  BY CtxParts DEF ManTyped
<1>2. \A m : (m.titles = x.m.titles) => \A j \in Ids : \A t : Noted(x.m, m, Head(rs), j, t)
  BY DEF Noted, TitledAt, Begins
<1>3. /\ DOMAIN y = {"m", "s", "ev"} /\ y.s = x.s /\ y.ev = x.ev /\ DOMAIN y.m = ManFields
      /\ y.m.clients = x.m.clients /\ y.m.titles = x.m.titles /\ y.m.next = x.m.next
      /\ y.m.join = x.m.join /\ y.m.caps = x.m.caps /\ y.m.status = x.m.status
      /\ y.m.pending = Without(x.m.pending, key)
  BY <1>1 DEF ManFields, Answered
<1>4. /\ DOMAIN y.m.pending = DOMAIN x.m.pending \ {key}
      /\ \A k \in DOMAIN y.m.pending : y.m.pending[k] = x.m.pending[k]
  BY <1>3 DEF Without
<1>5. ManTyped(y.m)
  <2>1. DOMAIN y.m.pending \subseteq DOMAIN x.m.pending
    BY <1>4
  <2> QED
    BY ONLY <1>1, <1>3, <1>4, <2>1 DEF ManTyped
<1>6. \A j \in Ids : \A t : Noted(x.m, y.m, Head(rs), j, t)
  BY <1>2, <1>3
<1>7. ASSUME NEW k \in DOMAIN y.m.pending
      PROVE  /\ k \in DOMAIN x.m.pending /\ y.m.pending[k] = x.m.pending[k]
             /\ ~ (IsAnswer(Head(rs), k[1]) /\ Head(rs).msg.rid = k[2])
  <2>1. k \in DOMAIN x.m.pending /\ k # key /\ y.m.pending[k] = x.m.pending[k]
    BY <1>4
  <2>2. DOMAIN x.m.pending \subseteq (0 .. x.m.next - 1) \X Nat
    BY <1>1 DEF ManTyped
  <2>3. k = <<k[1], k[2]>>
    BY ONLY <2>1, <2>2
  <2> QED
    BY <2>1, <2>3 DEF IsAnswer, From
<1>8. Ctx(y, Tail(rs))
  BY ONLY Ctx(x, rs), rs # <<>>, <1>3, <1>5, <1>6, <1>7, CtxTaken
<1> QED
  BY <1>3, <1>4, <1>8

(* The answer of a server is taken, with the question.                      *)
LEMMA HandleResponseKeeps ==
  ASSUME NEW x, NEW rs, Ctx(x, rs), rs # <<>>, NEW id \in Ids, NEW msg, Said(msg), msg.k = "response",
         Head(rs).k = "message", Head(rs).id = id, Head(rs).msg = msg
  PROVE  Ctx(HandleResponse(x, id, msg), Tail(rs)) /\ HandleResponse(x, id, msg).m.next = x.m.next
<1>1. /\ DOMAIN x = {"m", "s", "ev"} /\ DOMAIN x.m = ManFields /\ ManTyped(x.m)
      /\ DOMAIN x.m.titles = Ids /\ ReqsTyped(rs) /\ ServerOK(x.m, x.s[id], rs, id)
  BY CtxParts DEF ManTyped
<1>2. PICK key : key = <<id, msg.rid>>
  OBVIOUS
<1>3. \A m : (m.titles = x.m.titles) => \A j \in Ids : \A t : Noted(x.m, m, Head(rs), j, t)
  BY DEF Noted, TitledAt, Begins
<1>4. CASE key \notin DOMAIN x.m.pending
  <2>1. HandleResponse(x, id, msg) = x
    BY <1>2, <1>4 DEF HandleResponse
  <2>2. x.m.status.of \in {"begin", "report"} => x.m.status.title = x.m.status.id
    BY <1>1 DEF ManTyped
  <2>3. \A j \in Ids : \A t : Noted(x.m, x.m, Head(rs), j, t)
    BY <1>3
  <2>4. Ctx(x, Tail(rs))
    BY <1>1, <1>2, <1>4, <2>2, <2>3, MessageTaken
  <2> QED
    BY <2>1, <2>4
<1>5. CASE key \in DOMAIN x.m.pending
  <2>1. PICK y : y = Answered(x, key)
    OBVIOUS
  <2>2. PICK p : p = x.m.pending[key]
    OBVIOUS
  <2>3. HandleResponse(x, id, msg) = y \/ HandleResponse(x, id, msg) = HandleRes(y, id, p, msg.res)
    BY <1>2, <1>5, <2>1, <2>2 DEF HandleResponse, Answered
  <2>4. Ctx(y, Tail(rs)) /\ y.m.next = x.m.next
    BY ONLY Ctx(x, rs), rs # <<>>, id \in Ids, msg.k = "response", Head(rs).k = "message", Head(rs).id = id,
            Head(rs).msg = msg, <1>2, <2>1, AnsweredFacts
  <2>5. p.m \in Kinds /\ (p.m = "initialize" => DOMAIN p.docs \subseteq Docs)
    BY <1>1, <1>5, <2>2 DEF ManTyped
  <2>6. p.m = msg.m
    <3>1. IsSeq(rs) /\ 1 \in DOMAIN rs /\ rs[1] = Head(rs)
      BY <1>1, SeqTail DEF ReqsTyped
    <3>2. Matches(x.m, id, msg)
      BY <1>1, <3>1 DEF ServerOK, MatchedAt, IsAnswer, From
    <3> QED
      BY <1>2, <1>5, <2>2, <3>2 DEF Matches
  <2>7. p.m \in Located => msg.res.d \in Docs
    BY <2>6 DEF Said
  <2>8. PICK res : res = msg.res
    OBVIOUS
  <2>9. p.m \in Located => res.d \in Docs
    BY <2>7, <2>8
  <2>10. Ctx(HandleRes(y, id, p, res), Tail(rs)) /\ HandleRes(y, id, p, res).m.next = y.m.next
    <3>1. PICK rest : rest = Tail(rs)
      OBVIOUS
    <3>2. Ctx(y, rest)
      BY <2>4, <3>1
    <3>3. Ctx(HandleRes(y, id, p, res), rest) /\ HandleRes(y, id, p, res).m.next = y.m.next
      BY ONLY <3>2, <2>5, <2>9, id \in Ids, HandleResKeeps, SMTT(40)
    <3> QED
      BY <3>1, <3>3
  <2> QED
    BY <2>3, <2>4, <2>8, <2>10
<1> QED
  BY <1>4, <1>5

(* The manager handles a request.                                           *)
LEMMA HandleKeeps ==
  ASSUME NEW x, NEW rs, Ctx(x, rs), rs # <<>>, Head(rs).k = "start" => x.m.next < Servers, NEW spawns
  PROVE  /\ Ctx(Handle(x, Head(rs), spawns), Tail(rs))
         /\ Handle(x, Head(rs), spawns).m.next = x.m.next + (IF Head(rs).k = "start" THEN 1 ELSE 0)
<1>1. PICK r : r = Head(rs)
  OBVIOUS
<1>2. ManTyped(x.m) /\ x.m.next \in Nat
  BY CtxParts
<1>3. OnChannel(r)
  <2>1. IsSeq(rs) /\ \A i \in DOMAIN rs : OnChannel(rs[i])
    BY CtxParts DEF ReqsTyped
  <2>2. 1 \in DOMAIN rs /\ Head(rs) = rs[1]
    BY <2>1, SeqTail
  <2> QED
    BY <1>1, <2>1, <2>2
<1>4. ASSUME r.k # "message" PROVE Ctx(x, Tail(rs))
  <2>1. /\ DOMAIN x = {"m", "s", "ev"} /\ DOMAIN x.m = ManFields /\ DOMAIN x.m.titles = Ids
        /\ x.m.status.of \in {"begin", "report"} => x.m.status.title = x.m.status.id
    BY CtxParts DEF ManTyped
  <2>2. \A j \in Ids : \A t : Noted(x.m, x.m, Head(rs), j, t)
    BY <1>1, <1>4 DEF Noted, From
  <2>3. (Head(rs).k = "message" /\ Head(rs).msg.k = "response")
            => <<Head(rs).id, Head(rs).msg.rid>> \notin DOMAIN x.m.pending
    BY <1>1, <1>4
  <2> QED
    BY ONLY Ctx(x, rs), rs # <<>>, <2>1, <2>2, <2>3, MessageTaken
<1>5. CASE r.k = "start"
  <2>1. Handle(x, r, spawns) = HandleStart(x, r.f, r.docs, spawns)
    BY <1>5 DEF Handle
  <2>2. DOMAIN r.docs \subseteq Docs /\ x.m.next < Servers /\ Ctx(x, Tail(rs))
    BY <1>1, <1>3, <1>4, <1>5 DEF OnChannel, Wish
  <2>3. /\ Ctx(HandleStart(x, r.f, r.docs, spawns), Tail(rs))
        /\ HandleStart(x, r.f, r.docs, spawns).m.next = x.m.next + 1
    BY ONLY <2>2, HandleStartKeeps
  <2> QED
    BY ONLY <1>1, <1>5, <2>1, <2>3
<1>6. CASE r.k = "stop"
  <2>1. Handle(x, r, spawns) = StopClient(x, r.id)
    BY <1>6 DEF Handle
  <2>2. Ctx(StopClient(x, r.id), Tail(rs)) /\ StopClient(x, r.id).m.next = x.m.next
    BY <1>4, <1>6, StopClientKeeps
  <2>3. r.k # "start"
    BY <1>6
  <2> QED
    BY ONLY <1>1, <1>2, <2>1, <2>2, <2>3
<1>7. CASE r.k = "request"
  <2>1. PICK p : p = Pending(r.m, r.d, r.v, "none", <<>>)
    OBVIOUS
  <2>2. Handle(x, r, spawns) = SendRequest(x, r.id, r.m, r.d, r.v, p)
    BY <1>7, <2>1 DEF Handle
  <2>3. p.m = r.m /\ p.d = r.d /\ p.v = r.v
    BY <2>1 DEF Pending
  <2>4. r.m \in Kinds /\ r.m # "initialize"
    BY <1>3, <1>7 DEF OnChannel, Wish, Kinds, Questions
  <2>5. Ctx(x, Tail(rs))
    BY <1>4, <1>7
  <2>6. /\ Ctx(SendRequest(x, r.id, r.m, r.d, r.v, p), Tail(rs))
        /\ SendRequest(x, r.id, r.m, r.d, r.v, p).m.next = x.m.next
    <3>1. PICK id, m, d, v, rest : id = r.id /\ m = r.m /\ d = r.d /\ v = r.v /\ rest = Tail(rs)
      OBVIOUS
    <3>2. m \in Kinds /\ m # "initialize" /\ p.m = m /\ p.d = d /\ p.v = v /\ Ctx(x, rest)
      BY <2>3, <2>4, <2>5, <3>1
    <3>3. Ctx(SendRequest(x, id, m, d, v, p), rest) /\ SendRequest(x, id, m, d, v, p).m.next = x.m.next
      BY ONLY <3>2, SendRequestKeeps
    <3> QED
      BY ONLY <3>1, <3>3
  <2>7. r.k # "start"
    BY <1>7
  <2> QED
    BY ONLY <1>1, <1>2, <2>2, <2>6, <2>7
<1>8. CASE r.k = "notify"
  <2>1. Handle(x, r, spawns) = SendNotification(x, r.id, r.m, r.d, r.v)
    BY <1>8 DEF Handle
  <2>2. /\ Ctx(SendNotification(x, r.id, r.m, r.d, r.v), Tail(rs))
        /\ SendNotification(x, r.id, r.m, r.d, r.v).m = x.m
    BY <1>4, <1>8, SendNotificationKeeps
  <2>3. r.k # "start"
    BY <1>8
  <2> QED
    BY ONLY <1>1, <1>2, <2>1, <2>2, <2>3
<1>9. CASE r.k = "message"
  <2>1. PICK msg : msg = r.msg
    OBVIOUS
  <2>2. PICK id : id = r.id
    OBVIOUS
  <2>3. Handle(x, r, spawns) = HandleMessage(x, id, msg)
    BY <1>9, <2>1, <2>2 DEF Handle
  <2>4. id \in Ids /\ Said(msg) /\ msg.k \in {"response", "request", "notify"}
    BY <1>3, <1>9, <2>1, <2>2 DEF OnChannel, Wish, Said
  <2>5. Head(rs).k = "message" /\ Head(rs).id = id /\ Head(rs).msg = msg /\ r.k # "start"
    BY <1>1, <1>9, <2>1, <2>2
  <2>6. ASSUME NEW y, DOMAIN y = {"m", "s", "ev"}, y.s = x.s, y.ev = x.ev, DOMAIN y.m = ManFields,
               y.m.clients = x.m.clients, y.m.pending = x.m.pending, y.m.next = x.m.next, y.m.join = x.m.join,
               y.m.caps = x.m.caps, y.m.titles = x.m.titles, y.m.status = x.m.status,
               msg.k # "response", \A t : ~ Begins(msg, t)
        PROVE  Ctx(y, Tail(rs)) /\ y.m.next = x.m.next
    <3>1. DOMAIN y.m.titles = Ids /\ (y.m.status.of \in {"begin", "report"} => y.m.status.title = y.m.status.id)
      BY <1>2, <2>6 DEF ManTyped
    <3>2. \A j \in Ids : \A t : Noted(x.m, y.m, Head(rs), j, t)
      BY <2>5, <2>6 DEF Noted, TitledAt
    <3>3. (Head(rs).k = "message" /\ Head(rs).msg.k = "response")
              => <<Head(rs).id, Head(rs).msg.rid>> \notin DOMAIN x.m.pending
      BY <2>5, <2>6
    <3> QED
      BY ONLY Ctx(x, rs), rs # <<>>, <2>6, <3>1, <3>2, <3>3, MessageTaken
  <2>7. ASSUME msg.k # "response", \A t : ~ Begins(msg, t) PROVE Ctx(x, Tail(rs))
    <3>1. DOMAIN x = {"m", "s", "ev"} /\ DOMAIN x.m = ManFields
      BY CtxParts
    <3> QED
      BY <2>6, <2>7, <3>1
  <2>8. PICK y : y = HandleMessage(x, id, msg)
    OBVIOUS
  <2>9. Ctx(y, Tail(rs)) /\ y.m.next = x.m.next
    <3>1. CASE msg.k = "response"
      <4>1. y = HandleResponse(x, id, msg)
        BY <2>8, <3>1 DEF HandleMessage
      <4> QED
        BY <2>4, <2>5, <3>1, <4>1, HandleResponseKeeps
    <3>2. CASE msg.k = "request"
      <4>1. y = IF msg.m = "create" THEN CreateProgress(x, id, msg) ELSE x
        BY <2>8, <3>2 DEF HandleMessage, HandleRequest
      <4>2. CASE msg.m = "create"
        BY <2>4, <2>5, <3>2, <4>1, <4>2, ProgressKeeps
      <4>3. CASE msg.m # "create"
        BY <2>7, <3>2, <4>1, <4>3 DEF Begins
      <4> QED
        BY <4>2, <4>3
    <3>3. CASE msg.k = "notify" /\ msg.m \in {"begin", "report", "end"}
      <4>1. y = ShowProgress(x, id, msg)
        BY <2>8, <3>3 DEF HandleMessage, HandleNotification
      <4> QED
        BY <2>4, <2>5, <3>3, <4>1, ProgressKeeps
    <3>4. CASE msg.k = "notify" /\ msg.m \notin {"begin", "report", "end"}
      <4>1. msg.k # "response" /\ \A t : ~ Begins(msg, t)
        BY <3>4 DEF Begins
      <4>2. y = x \/ y = [x EXCEPT !.m.diags[msg.d] = msg.v]
        BY <2>8, <3>4 DEF HandleMessage, HandleNotification, PublishDiagnostics
      <4>3. CASE y = x
        BY <2>7, <4>1, <4>3
      <4>4. CASE y = [x EXCEPT !.m.diags[msg.d] = msg.v]
        <5>1. DOMAIN x = {"m", "s", "ev"} /\ DOMAIN x.m = ManFields
          BY CtxParts
        <5>2. /\ DOMAIN y = {"m", "s", "ev"} /\ y.s = x.s /\ y.ev = x.ev /\ DOMAIN y.m = ManFields
              /\ y.m.clients = x.m.clients /\ y.m.pending = x.m.pending /\ y.m.next = x.m.next
              /\ y.m.join = x.m.join /\ y.m.caps = x.m.caps /\ y.m.titles = x.m.titles
              /\ y.m.status = x.m.status
          BY ONLY <4>4, <5>1 DEF ManFields
        <5> QED
          BY <2>6, <4>1, <5>2
      <4> QED
        BY <4>2, <4>3, <4>4
    <3> QED
      BY <2>4, <3>1, <3>2, <3>3, <3>4
  <2> QED
    BY ONLY <1>1, <1>2, <2>3, <2>5, <2>8, <2>9
<1>10. r.k \in {"start", "stop", "request", "notify", "message"}
  BY <1>3 DEF OnChannel, Wish
<1> QED
  BY <1>5, <1>6, <1>7, <1>8, <1>9, <1>10

(* How many starts are left on the channel when the first request is taken. *)
LEMMA StartsTail ==
  ASSUME NEW rs, IsSeq(rs), rs # <<>>
  PROVE  /\ StartsIn(rs) \in Nat /\ StartsIn(Tail(rs)) \in Nat
         /\ StartsIn(rs) = StartsIn(Tail(rs)) + (IF Head(rs).k = "start" THEN 1 ELSE 0)
<1> DEFINE S == { i \in DOMAIN rs : rs[i].k = "start" }
           T == { i \in DOMAIN Tail(rs) : Tail(rs)[i].k = "start" }
<1>1. /\ Len(rs) \in Nat \ {0} /\ DOMAIN rs = 1 .. Len(rs) /\ DOMAIN Tail(rs) = 1 .. Len(rs) - 1
      /\ Head(rs) = rs[1] /\ \A i \in 1 .. Len(rs) - 1 : Tail(rs)[i] = rs[i + 1]
  BY SeqTail
<1>2. IsFiniteSet(S) /\ IsFiniteSet(T)
  <2>1. IsFiniteSet(1 .. Len(rs)) /\ IsFiniteSet(1 .. Len(rs) - 1)
    BY <1>1, FS_Interval
  <2> QED
    BY <1>1, <2>1, FS_Subset
<1>3. Cardinality(S \ {1}) = Cardinality(T)
  <2> DEFINE f == [i \in T |-> i + 1]
  <2>1. f \in [T -> S \ {1}]
    BY <1>1
  <2>2. \A i, j \in T : f[i] = f[j] => i = j
    BY <1>1
  <2>3. ASSUME NEW j \in S \ {1} PROVE \E i \in T : f[i] = j
    <3>1. j - 1 \in T /\ (j - 1) + 1 = j
      BY <1>1, <2>3
    <3> QED
      BY <3>1
  <2>4. f \in Bijection(T, S \ {1})
    BY <2>1, <2>2, <2>3 DEF Bijection, Injection, Surjection, IsInjective
  <2>5. ExistsBijection(T, S \ {1})
    BY <2>4 DEF ExistsBijection
  <2> QED
    BY <1>2, <2>5, FS_Bijection
<1>4. /\ Cardinality(S) \in Nat /\ Cardinality(T) \in Nat
      /\ Cardinality(S \ {1}) = IF 1 \in S THEN Cardinality(S) - 1 ELSE Cardinality(S)
  BY <1>2, FS_CardinalityType, FS_RemoveElement
<1>5. 1 \in S <=> Head(rs).k = "start"
  BY <1>1
<1>6. StartsIn(rs) = Cardinality(S) /\ StartsIn(Tail(rs)) = Cardinality(T)
  BY DEF StartsIn
<1> HIDE DEF S, T
<1> QED
  BY ONLY <1>3, <1>4, <1>5, <1>6

----------------------------------------------------------------------------
(* The steps of the editor.  W(w) is the editor in a step, with what it has *)
(* sent, and Quiet(w, y) that a step leaves the buffers as they are.        *)

W(w) ==
    /\ DOMAIN w = EdFields \cup {"sent"} /\ Buffers(w)
    /\ IsSeq(w.sent) /\ \A i \in DOMAIN w.sent : Wish(w.sent[i])
Quiet(w, y) == W(y) /\ y.open = w.open /\ y.active = w.active /\ y.prompts = w.prompts
Same(w, y) ==
    /\ DOMAIN y = DOMAIN w /\ y.open = w.open /\ y.active = w.active /\ y.prompts = w.prompts
    /\ y.sent = w.sent

(* Other fields may be set.                                                 *)
LEMMA SameIsQuiet ==
  ASSUME NEW w, W(w), NEW y, Same(w, y)
  PROVE  Quiet(w, y)
BY DEF W, Same, Quiet, Buffers

(* What a step does after one that is quiet.                                *)
LEMMA QuietTwice ==
  ASSUME NEW w, NEW y, NEW z, Quiet(w, y), Quiet(y, z)
  PROVE  Quiet(w, z)
BY DEF Quiet

(* Something is sent to the manager.                                        *)
LEMMA SendKeeps ==
  ASSUME NEW w, W(w), NEW r, Wish(r)
  PROVE  Quiet(w, Send(w, r))
<1>1. PICK y : y = Send(w, r)
  OBVIOUS
<1>2. DOMAIN w = EdFields \cup {"sent"} /\ Buffers(w) /\ IsSeq(w.sent) /\ \A i \in DOMAIN w.sent : Wish(w.sent[i])
  BY DEF W
<1>3. /\ DOMAIN y = EdFields \cup {"sent"} /\ y.open = w.open /\ y.active = w.active /\ y.prompts = w.prompts
      /\ y.sent = Append(w.sent, r)
  BY <1>1, <1>2 DEF Send, EdFields
<1>4. IsSeq(y.sent) /\ \A i \in DOMAIN y.sent : Wish(y.sent[i])
  <2>1. IsSeq(Append(w.sent, r))
    BY <1>2, SeqAppend
  <2>2. ASSUME NEW i \in DOMAIN Append(w.sent, r) PROVE Wish(Append(w.sent, r)[i])
    BY <1>2, ValuesAppend
  <2> QED
    BY <1>3, <2>1, <2>2
<1>5. Buffers(y)
  BY <1>2, <1>3 DEF Buffers
<1> QED
  BY <1>1, <1>3, <1>4, <1>5 DEF Quiet, W

(* It is told something about a document.                                   *)
LEMMA NotifyIsWish ==
  ASSUME NEW id, NEW m, NEW d, NEW v
  PROVE  Wish(Notify(id, m, d, v)) /\ (m \in Questions \cup {"resolve"} => Wish(Request(id, m, d, v)))
BY DEF Wish, Notify, Request

(* A server is to be started, with the buffers of the type.                 *)
LEMMA StartClientKeeps ==
  ASSUME NEW w, W(w)
  PROVE  Quiet(w, StartClient(w))
<1>1. PICK f : f = FtypeOf[w.active]
  OBVIOUS
<1>2. PICK r : r = Start(f, OpenDocs(w, f))
  OBVIOUS
<1>3. Wish(r)
  <2>1. DOMAIN OpenDocs(w, f) \subseteq Docs
    BY DEF OpenDocs, W, Buffers
  <2> QED
    BY <1>2, <2>1 DEF Start, Wish
<1>4. StartClient(w) = w \/ StartClient(w) = Send(w, r)
  BY <1>1, <1>2 DEF StartClient
<1>5. Same(w, w)
  BY DEF Same
<1> QED
  BY <1>3, <1>4, <1>5, SendKeeps, SameIsQuiet

(* the editor with the marks that a report changes set *)
WithStale(y, S)   == [y EXCEPT !.stale = S]
WithBoth(y, S, T) == [y EXCEPT !.stale = S, !.unopened = T]

(* What was reported is noted.                                              *)
LEMMA NotedQuietly ==
  ASSUME NEW w, NEW y, Quiet(w, y), NEW S, NEW T
  PROVE  Quiet(w, WithStale(y, S)) /\ Quiet(w, WithBoth(y, S, T))
<1>1. PICK z, u : z = WithStale(y, S) /\ u = WithBoth(y, S, T)
  OBVIOUS
<1>2. Same(y, z) /\ Same(y, u) /\ W(y)
  BY <1>1 DEF Same, Quiet, W, EdFields, WithStale, WithBoth
<1>3. Quiet(w, z) /\ Quiet(w, u)
  BY <1>2, SameIsQuiet, QuietTwice
<1> QED
  BY <1>1, <1>3

(* The reports of buffers.                                                  *)
LEMMA ReportsKeep ==
  ASSUME NEW w, W(w), NEW d
  PROVE  /\ Quiet(w, DocumentOpened(w)) /\ Quiet(w, DocumentClosed(w, d))
         /\ Quiet(w, DocumentChanged(w, d)) /\ Quiet(w, DocumentSaved(w, d))
         /\ Quiet(w, NotifyIfDirty(w))
<1>1. Quiet(w, w)
  BY SameIsQuiet DEF Same
<1>2. ASSUME NEW id, NEW m, NEW e, NEW v PROVE Quiet(w, Send(w, Notify(id, m, e, v)))
  <2>1. PICK r : r = Notify(id, m, e, v)
    OBVIOUS
  <2>2. Wish(r)
    BY <2>1, NotifyIsWish
  <2> QED
    BY <2>1, <2>2, SendKeeps
<1>4. ASSUME NEW e PROVE Quiet(w, DocumentChanged(w, e))
  <2>1. PICK y : y = Send(w, Notify(ServerOf(e), "didChange", e, w.txt[e]))
    OBVIOUS
  <2>2. DocumentChanged(w, e) = w \/ DocumentChanged(w, e) = WithStale(y, y.stale \ {e})
    BY <2>1 DEF DocumentChanged, WithStale
  <2>3. Quiet(w, y)
    BY <1>2, <2>1
  <2> QED
    BY <1>1, <2>2, <2>3, NotedQuietly
<1>5. Quiet(w, DocumentOpened(w))
  <2>1. PICK e : e = w.active
    OBVIOUS
  <2>2. PICK y : y = Send(w, Notify(ServerOf(e), "didOpen", e, w.txt[e]))
    OBVIOUS
  <2>3. \/ DocumentOpened(w) = w \/ DocumentOpened(w) = StartClient(w)
        \/ DocumentOpened(w) = WithBoth(y, y.stale \ {e}, y.unopened \ {e})
    BY <2>1, <2>2 DEF DocumentOpened, WithBoth
  <2>4. Quiet(w, y)
    BY <1>2, <2>2
  <2> QED
    BY <1>1, <2>3, <2>4, NotedQuietly, StartClientKeeps
<1>6. Quiet(w, DocumentClosed(w, d)) /\ Quiet(w, DocumentSaved(w, d))
  BY <1>1, <1>2 DEF DocumentClosed, DocumentSaved
<1>7. Quiet(w, NotifyIfDirty(w))
  BY <1>1, <1>4 DEF NotifyIfDirty
<1> QED
  BY <1>4, <1>5, <1>6, <1>7

(* A question that was begun is one.                                        *)
Asking == asking # NoQuestion => asking.m \in Questions /\ asking.id # NoId

LEMMA AskingKeeps ==
  ASSUME Asking, [Next]_vars
  PROVE  Asking'
<1>1. ASSUME NEW m \in Questions, AskAbout(m) PROVE Asking'
  BY <1>1 DEF AskAbout, Asking
<1>2. CASE UNCHANGED asking
  BY <1>2 DEF Asking
<1>3. CASE EditorStep
  BY <1>1, <1>2, <1>3 DEF EditorStep, Ask
<1>4. CASE AskEnds
  BY <1>4 DEF AskEnds, Asking
<1>5. CASE Answer
  <2>1. "rename" \in Questions
    BY DEF Questions
  <2> QED
    BY <1>1, <1>2, <1>5, <2>1 DEF Answer, LspRename
<1>6. CASE Wake \/ TakeEvent \/ ManagerStep \/ JoinEnds
  BY <1>2, <1>6 DEF Wake, TakeEvent, ManagerStep, JoinEnds
<1>7. ASSUME NEW id \in Ids, Read(id) \/ ServerTakes(id) \/ ServerAnswers(id) \/ ServerPushes(id) \/ ServerFails(id)
      PROVE  Asking'
  BY <1>2, <1>7 DEF Read, ServerTakes, ServerAnswers, ServerPushes, ServerFails, Unchanged
<1>8. CASE UNCHANGED vars
  BY <1>2, <1>8 DEF vars
<1> QED
  BY <1>3, <1>4, <1>5, <1>6, <1>7, <1>8 DEF Next

(* A question is asked, after what the server has to know.                  *)
LEMMA SendQuestionKeeps ==
  ASSUME NEW w, W(w), NEW q, q.m \in Questions
  PROVE  Quiet(w, SendQuestion(w, q))
<1>1. PICK r : r = Question(w, q)
  OBVIOUS
<1>2. PICK y : y = IF w.dirty[w.active] THEN DocumentChanged(w, w.active) ELSE w
  OBVIOUS
<1>3. SendQuestion(w, q) = Send(y, r)
  BY <1>1, <1>2 DEF SendQuestion
<1>4. Quiet(w, w)
  BY SameIsQuiet DEF Same
<1>5. Quiet(w, y) /\ W(y)
  BY <1>2, <1>4, ReportsKeep DEF Quiet
<1>6. Wish(r)
  BY <1>1, NotifyIsWish DEF Question
<1> QED
  BY <1>3, <1>5, <1>6, SendKeeps, QuietTwice

(* The buffers that are open, and the active one, may change.               *)
LEMMA BuffersSet ==
  ASSUME NEW w, W(w), NEW z, DOMAIN z = DOMAIN w, z.sent = w.sent, z.prompts = w.prompts,
         z.open \subseteq Docs, z.active \in z.open \cup {NoDoc}
  PROVE  W(z)
BY DEF W, Buffers

(* Another buffer gets the focus.                                           *)
LEMMA FocusOnKeeps ==
  ASSUME NEW w, W(w), NEW d \in w.open
  PROVE  W(FocusOn(w, d)) /\ FocusOn(w, d).open = w.open
<1>1. PICK y : y = NotifyIfDirty(w)
  OBVIOUS
<1>2. PICK z : z = FocusOn(w, d)
  OBVIOUS
<1>3. Quiet(w, y)
  BY <1>1, ReportsKeep
<1>4. W(y) /\ y.open = w.open /\ DOMAIN y = EdFields \cup {"sent"} /\ y.open \subseteq Docs
  BY <1>3 DEF Quiet, W, Buffers
<1>5. DOMAIN z = DOMAIN y /\ z.sent = y.sent /\ z.prompts = y.prompts /\ z.open = y.open /\ z.active = d
  BY <1>1, <1>2, <1>4 DEF FocusOn, EdFields
<1>6. W(z)
  BY <1>4, <1>5, BuffersSet
<1> QED
  BY <1>2, <1>4, <1>5, <1>6

(* A file is read.                                                          *)
LEMMA LoadKeeps ==
  ASSUME NEW w, W(w), NEW d \in Docs
  PROVE  /\ W(Load(w, d)) /\ Load(w, d).open = w.open \cup {d} /\ Load(w, d).active = w.active
         /\ Load(w, d).prompts = w.prompts /\ Load(w, d).sent = w.sent
<1>1. PICK z : z = Load(w, d)
  OBVIOUS
<1>2. DOMAIN w = EdFields \cup {"sent"} /\ w.open \subseteq Docs /\ w.active \in w.open \cup {NoDoc}
  BY DEF W, Buffers
<1>3. /\ DOMAIN z = DOMAIN w /\ z.sent = w.sent /\ z.prompts = w.prompts
      /\ z.open = w.open \cup {d} /\ z.active = w.active
  BY <1>1, <1>2 DEF Load, EdFields
<1>4. W(z)
  BY <1>2, <1>3, BuffersSet
<1> QED
  BY <1>1, <1>3, <1>4

(* A file is opened, and gets the focus.                                    *)
LEMMA OpenFileKeeps ==
  ASSUME NEW w, W(w), NEW d \in Docs
  PROVE  W(OpenFile(w, d))
<1>1. CASE d \in w.open
  BY <1>1, FocusOnKeeps DEF OpenFile
<1>2. CASE d \notin w.open
  <2>1. PICK y : y = Load(w, d)
    OBVIOUS
  <2>2. PICK z : z = [y EXCEPT !.active = d]
    OBVIOUS
  <2>3. W(y) /\ y.open = w.open \cup {d}
    BY <2>1, LoadKeeps
  <2>4. DOMAIN y = EdFields \cup {"sent"} /\ y.open \subseteq Docs
    BY <2>3 DEF W, Buffers
  <2>5. DOMAIN z = DOMAIN y /\ z.sent = y.sent /\ z.prompts = y.prompts /\ z.open = y.open /\ z.active = d
    BY <2>2, <2>4 DEF EdFields
  <2>6. W(z)
    BY <2>3, <2>4, <2>5, BuffersSet
  <2>7. OpenFile(w, d) = DocumentOpened(z)
    BY <1>2, <2>1, <2>2 DEF OpenFile
  <2> QED
    BY <2>6, <2>7, ReportsKeep DEF Quiet
<1> QED
  BY <1>1, <1>2

(* A file is opened, and the focus stays.                                   *)
LEMMA EnsureOpenKeeps ==
  ASSUME NEW w, W(w), NEW d \in Docs
  PROVE  W(EnsureOpen(w, d))
<1>1. PICK y : y = DocumentOpened(w)
  OBVIOUS
<1>2. W(y)
  BY <1>1, ReportsKeep DEF Quiet
<1>3. PICK z : z = Load(y, d)
  OBVIOUS
<1>4. W(z) /\ DOMAIN z = EdFields \cup {"sent"}
  BY <1>2, <1>3, LoadKeeps DEF W
<1>5. PICK u : u = [z EXCEPT !.unopened = @ \cup {d}]
  OBVIOUS
<1>6. Same(z, u)
  BY <1>4, <1>5 DEF Same, EdFields
<1>7. W(u)
  BY <1>4, <1>6, SameIsQuiet DEF Quiet
<1> QED
  BY <1>1, <1>3, <1>5, <1>7 DEF EnsureOpen

(* What is in buffers changes.                                              *)
LEMMA EditsKeep ==
  ASSUME NEW w, W(w)
  PROVE  Quiet(w, EditBuffer(w)) /\ Quiet(w, UndoEdit(w)) /\ Quiet(w, ReloadBuffer(w)) /\ Quiet(w, SaveBuffer(w))
<1>1. DOMAIN w = EdFields \cup {"sent"}
  BY DEF W
<1>2. Quiet(w, EditBuffer(w))
  <2>1. Same(w, EditBuffer(w))
    BY <1>1 DEF EditBuffer, Same, EdFields
  <2> QED
    BY <2>1, SameIsQuiet
<1>3. Quiet(w, UndoEdit(w))
  <2>1. Same(w, UndoEdit(w))
    BY <1>1 DEF UndoEdit, Same, EdFields
  <2> QED
    BY <2>1, SameIsQuiet
<1>4. Quiet(w, ReloadBuffer(w))
  <2>1. Same(w, ReloadBuffer(w))
    BY <1>1 DEF ReloadBuffer, Same, EdFields
  <2> QED
    BY <2>1, SameIsQuiet
<1>5. Quiet(w, SaveBuffer(w))
  <2>1. PICK d : d = w.active
    OBVIOUS
  <2>2. PICK y : y = [w EXCEPT !.disk[d] = w.txt[d], !.dirty[d] = FALSE]
    OBVIOUS
  <2>3. Same(w, y)
    BY <1>1, <2>2 DEF Same, EdFields
  <2>4. Quiet(w, y) /\ W(y)
    BY <2>3, SameIsQuiet DEF Quiet
  <2>5. PICK z : z = DocumentChanged(y, d)
    OBVIOUS
  <2>6. Quiet(y, z) /\ W(z)
    BY <2>4, <2>5, ReportsKeep DEF Quiet
  <2>7. Quiet(z, DocumentSaved(z, d))
    BY <2>6, ReportsKeep
  <2>8. SaveBuffer(w) = DocumentSaved(z, d)
    BY <2>1, <2>2, <2>5 DEF SaveBuffer
  <2> QED
    BY <2>4, <2>6, <2>7, <2>8, QuietTwice
<1> QED
  BY <1>2, <1>3, <1>4, <1>5

(* A buffer is closed.                                                      *)
LEMMA CloseBufferKeeps ==
  ASSUME NEW w, W(w), NEW d, NEW next, next \in (w.open \ {d}) \cup {NoDoc}
  PROVE  W(CloseBuffer(w, d, next))
<1>1. PICK y : y = [w EXCEPT !.open = @ \ {d}, !.active = next]
  OBVIOUS
<1>2. DOMAIN w = EdFields \cup {"sent"} /\ w.open \subseteq Docs
  BY DEF W, Buffers
<1>3. DOMAIN y = DOMAIN w /\ y.sent = w.sent /\ y.prompts = w.prompts /\ y.open = w.open \ {d} /\ y.active = next
  BY <1>1, <1>2 DEF EdFields
<1>4. W(y)
  BY <1>2, <1>3, BuffersSet
<1>5. PICK z : z = DocumentClosed(y, d)
  OBVIOUS
<1>6. Quiet(y, z)
  BY <1>4, <1>5, ReportsKeep
<1>7. CloseBuffer(w, d, next) = WithBoth(z, z.stale \ {d}, z.unopened \ {d})
  BY <1>1, <1>5 DEF CloseBuffer, WithBoth
<1> QED
  BY <1>6, <1>7, NotedQuietly DEF Quiet

(* The user is asked.                                                       *)
LEMMA PromptKeeps ==
  ASSUME NEW w, W(w), NEW k, NEW d, NEW id, Menu(Event(k, d, NoDoc, id))
  PROVE  W(Prompt(w, k, d, id))
<1>1. PICK p : p = Event(k, d, NoDoc, id)
  OBVIOUS
<1>2. PICK y : y = Prompt(w, k, d, id)
  OBVIOUS
<1>3. /\ DOMAIN w = EdFields \cup {"sent"} /\ w.open \subseteq Docs /\ w.active \in w.open \cup {NoDoc}
      /\ IsSeq(w.prompts) /\ (\A i \in DOMAIN w.prompts : Menu(w.prompts[i]))
      /\ IsSeq(w.sent) /\ (\A i \in DOMAIN w.sent : Wish(w.sent[i]))
  BY DEF W, Buffers
<1>4. /\ DOMAIN y = DOMAIN w /\ y.sent = w.sent /\ y.open = w.open /\ y.active = w.active
      /\ y.prompts = Append(w.prompts, p)
  BY <1>1, <1>2, <1>3 DEF Prompt, EdFields
<1>5. IsSeq(Append(w.prompts, p)) /\ Menu(p)
  BY <1>1, <1>3, SeqAppend
<1>6. ASSUME NEW i \in DOMAIN Append(w.prompts, p) PROVE Menu(Append(w.prompts, p)[i])
  BY <1>3, <1>5, ValuesAppend
<1> QED
  BY <1>2, <1>3, <1>4, <1>5, <1>6 DEF W, Buffers

(* The last of what a sequence holds, and what is before it.                *)
LEMMA FrontFacts ==
  ASSUME NEW q, IsSeq(q), q # <<>>
  PROVE  /\ IsSeq(Front(q)) /\ Len(q) \in DOMAIN q /\ Last(q) = q[Len(q)]
         /\ \A i \in DOMAIN Front(q) : i \in DOMAIN q /\ Front(q)[i] = q[i]
<1>1. Len(q) \in Nat \ {0} /\ DOMAIN q = 1 .. Len(q)
  BY SeqFacts
<1>2. PICK S : q \in Seq(S)
  BY DEF IsSeq
<1>3. Front(q) = SubSeq(q, 1, Len(q) - 1) /\ Last(q) = q[Len(q)]
  BY DEF Front, Last
<1>4. /\ SubSeq(q, 1, Len(q) - 1) \in Seq(S) /\ DOMAIN SubSeq(q, 1, Len(q) - 1) = 1 .. Len(q) - 1
      /\ \A i \in 1 .. Len(q) - 1 : SubSeq(q, 1, Len(q) - 1)[i] = q[i]
  BY <1>1, <1>2
<1>5. IsSeq(Front(q))
  BY <1>3, <1>4, SeqOfItself
<1> QED
  BY <1>1, <1>3, <1>4, <1>5

(* The actions of an answer.                                                *)
LEMMA PerformKeeps ==
  ASSUME NEW w, W(w), NEW e, Action(e)
  PROVE  W(Perform(w, e))
<1>1. CASE e.k = "open"
  BY <1>1, OpenFileKeeps DEF Perform, Action
<1>2. CASE e.k = "references"
  <2>1. PICK y : y = EnsureOpen(w, e.d)
    OBVIOUS
  <2>2. e.d \in Docs
    BY <1>2 DEF Action
  <2>3. W(y)
    BY <2>1, <2>2, EnsureOpenKeeps
  <2>4. Menu(Event("references", e.d, NoDoc, e.id))
    BY <2>2 DEF Menu, Event
  <2>5. Perform(w, e) = Prompt(y, "references", e.d, e.id)
    BY <1>2, <2>1 DEF Perform
  <2> QED
    BY <2>3, <2>4, <2>5, PromptKeeps
<1>3. CASE e.k = "edit"
  BY <1>3, EditsKeep DEF Perform, Quiet
<1>4. CASE e.k = "rename"
  <2>1. PICK y : y = OpenFile(w, e.d)
    OBVIOUS
  <2>2. PICK z : z = EditBuffer(y)
    OBVIOUS
  <2>3. W(y)
    BY <1>4, <2>1, OpenFileKeeps DEF Action
  <2>4. W(z)
    BY <2>2, <2>3, EditsKeep DEF Quiet
  <2>5. Perform(w, e) = IF e.back \in z.open /\ e.back # z.active THEN FocusOn(z, e.back) ELSE z
    BY <1>4, <2>1, <2>2 DEF Perform
  <2> QED
    BY <2>4, <2>5, FocusOnKeeps
<1>5. CASE e.k \in {"resolve", "complete", "newName"}
  <2>1. Perform(w, e) = Prompt(w, e.k, e.d, e.id)
    BY <1>5 DEF Perform
  <2>2. Menu(Event(e.k, e.d, NoDoc, e.id))
    BY <1>5 DEF Menu, Event
  <2> QED
    BY <2>1, <2>2, PromptKeeps
<1> QED
  BY <1>1, <1>2, <1>3, <1>4, <1>5 DEF Action

(* What the user chooses, but for a new name.                               *)
LEMMA SelectedKeeps ==
  ASSUME NEW w, W(w), NEW p, Menu(p), p.k # "newName", NEW d, p.k = "list" => d \in Docs
  PROVE  W(Selected(w, p, d))
<1>1. CASE p.k = "references"
  BY <1>1, OpenFileKeeps DEF Selected, ReferenceSelected, Menu
<1>2. CASE p.k = "list"
  BY <1>2, OpenFileKeeps DEF Selected, DiagnosticSelected
<1>3. CASE p.k \in {"complete", "resolve"}
  <2>1. PICK r : r = Request(p.id, "resolve", p.d, -1)
    OBVIOUS
  <2>2. Wish(r)
    BY <2>1, NotifyIsWish
  <2>3. Selected(w, p, d) = EditBuffer(w) \/ Selected(w, p, d) = Send(w, r)
    BY <1>3, <2>1 DEF Selected, CompletionSelected
  <2> QED
    BY <2>2, <2>3, EditsKeep, SendKeeps DEF Quiet
<1> QED
  BY <1>1, <1>2, <1>3 DEF Menu

(* What the editor has sent is put on the channel.                          *)
LEMMA CommitKeeps ==
  ASSUME IInv, NEW w, W(w), Commit(w), EventsTyped(events')
  PROVE  IInv'
<1> DEFINE missing(i) == w.sent[i].k = "request" /\ w.sent[i].d \in w.stale \cup w.unopened
<1>1. PICK added : added = [i \in DOMAIN w.sent |-> IF missing(i) THEN [w.sent[i] EXCEPT !.v = -1] ELSE w.sent[i]]
  OBVIOUS
<1>2. /\ ed' = Without(w, "sent") /\ reqs' = reqs \o added /\ man' = man /\ srv' = srv /\ scene' = scene
      /\ man.next + StartsIn(reqs \o w.sent) <= Servers
  BY <1>1 DEF Commit
<1>3. DOMAIN w = EdFields \cup {"sent"} /\ Buffers(w) /\ IsSeq(w.sent) /\ \A i \in DOMAIN w.sent : Wish(w.sent[i])
  BY DEF W
<1>4. EdTyped(ed')
  <2>1. /\ DOMAIN ed' = EdFields /\ ed'.open = w.open /\ ed'.active = w.active /\ ed'.prompts = w.prompts
    BY <1>2, <1>3 DEF Without, EdFields
  <2> QED
    BY <1>3, <2>1 DEF EdTyped, Buffers
<1>5. DOMAIN added = DOMAIN w.sent /\ IsSeq(added) /\ Len(added) = Len(w.sent)
  <2>1. Len(w.sent) \in Nat /\ DOMAIN w.sent = 1 .. Len(w.sent)
    BY <1>3, SeqFacts
  <2>2. DOMAIN added = 1 .. Len(w.sent) /\ added = [i \in 1 .. Len(w.sent) |-> added[i]]
    BY <1>1, <2>1
  <2> QED
    BY <2>1, <2>2, SeqMade
<1>6. ASSUME NEW i \in DOMAIN added PROVE Wish(added[i]) /\ added[i].k = w.sent[i].k /\ added[i].k # "message"
  <2>1. PICK r : r = w.sent[i]
    OBVIOUS
  <2>2. Wish(r)
    BY <1>3, <1>5, <2>1
  <2>3. CASE ~ missing(i)
    BY <1>1, <1>5, <1>6, <2>1, <2>2, <2>3 DEF Wish
  <2>4. CASE missing(i)
    <3>1. r.k = "request" /\ added[i] = [r EXCEPT !.v = -1]
      BY <1>1, <1>5, <1>6, <2>1, <2>4
    <3>2. r = Request(r.id, r.m, r.d, r.v) /\ r.m \in Questions \cup {"resolve"}
      BY <2>2, <3>1 DEF Wish
    <3>3. added[i] = Request(r.id, r.m, r.d, -1)
      BY <3>1, <3>2 DEF Request
    <3>4. Wish(Request(r.id, r.m, r.d, -1))
      BY <3>2, NotifyIsWish
    <3>5. Request(r.id, r.m, r.d, -1).k = "request"
      BY DEF Request
    <3> QED
      BY <2>1, <3>1, <3>3, <3>4, <3>5
  <2> QED
    BY <2>3, <2>4
<1>7. /\ ManTyped(man) /\ IsSeq(reqs) /\ (\A i \in DOMAIN reqs : OnChannel(reqs[i]))
      /\ DOMAIN srv = Ids /\ (\A id \in Ids : ServerOK(man, srv[id], reqs, id)) /\ scene \in Scenes
  BY DEF IInv, Kernel, ReqsTyped
<1>8. ReqsTyped(reqs \o added)
  <2>1. IsSeq(reqs \o added)
    BY <1>5, <1>7, SeqConcat
  <2>2. ASSUME NEW i \in DOMAIN (reqs \o added) PROVE OnChannel((reqs \o added)[i])
    BY <1>5, <1>6, <1>7, ValuesConcat DEF OnChannel
  <2> QED
    BY <2>1, <2>2 DEF ReqsTyped
<1>9. ASSUME NEW id \in Ids PROVE ServerOK(man, srv[id], reqs \o added, id)
  <2>1. PICK m, sv, rs : m = man /\ sv = srv[id] /\ rs = reqs
    OBVIOUS
  <2>2. ServerOK(m, sv, rs, id) /\ IsSeq(rs)
    BY <1>7, <2>1
  <2>3. \A i \in DOMAIN added : ~ From(added[i], id)
    BY <1>6 DEF From
  <2>4. ServerOK(m, sv, rs \o added, id)
    BY ONLY <1>5, <2>2, <2>3, ChannelLonger
  <2> QED
    BY <2>1, <2>4
<1>10. StartsIn(reqs \o added) = StartsIn(reqs \o w.sent)
  <2>1. PICK rs, s, p, q : rs = reqs /\ s = w.sent /\ p = reqs \o added /\ q = reqs \o w.sent
    OBVIOUS
  <2>0. /\ IsSeq(rs) /\ IsSeq(added) /\ IsSeq(s) /\ p = rs \o added /\ q = rs \o s
        /\ Len(s) = Len(added) /\ DOMAIN s = DOMAIN added
    BY <1>3, <1>5, <1>7, <2>1
  <2>5. /\ Len(rs) \in Nat /\ Len(added) \in Nat /\ DOMAIN added = 1 .. Len(added)
        /\ DOMAIN p = 1 .. Len(rs) + Len(added)
        /\ (\A j \in 1 .. Len(rs) : p[j] = rs[j])
        /\ \A j \in 1 .. Len(added) : p[Len(rs) + j] = added[j]
    BY ONLY <2>0, SeqConcat
  <2>7. IsSeq(rs) /\ IsSeq(s) /\ q = rs \o s
    BY ONLY <2>0
  <2>6. /\ DOMAIN q = 1 .. Len(rs) + Len(s) /\ DOMAIN s = 1 .. Len(s)
        /\ (\A j \in 1 .. Len(rs) : q[j] = rs[j])
        /\ \A j \in 1 .. Len(s) : q[Len(rs) + j] = s[j]
    BY ONLY <2>7, SeqConcat
  <2>2. DOMAIN p = DOMAIN q
    BY ONLY <2>0, <2>5, <2>6
  <2>3. ASSUME NEW i \in DOMAIN p PROVE p[i].k = q[i].k
    <3>1. /\ Len(rs) \in Nat /\ Len(added) \in Nat /\ DOMAIN added = 1 .. Len(added)
          /\ DOMAIN p = 1 .. Len(rs) + Len(added)
          /\ (\A j \in 1 .. Len(rs) : p[j] = rs[j] /\ q[j] = rs[j])
          /\ \A j \in 1 .. Len(added) : p[Len(rs) + j] = added[j] /\ q[Len(rs) + j] = s[j]
      BY ONLY <2>0, <2>5, <2>6
    <3>2. CASE i \in 1 .. Len(rs)
      BY <3>1, <3>2
    <3>3. CASE i \notin 1 .. Len(rs)
      <4>1. i - Len(rs) \in 1 .. Len(added) /\ Len(rs) + (i - Len(rs)) = i
        BY <2>3, <3>1, <3>3
      <4>2. PICK j : j = i - Len(rs)
        OBVIOUS
      <4>3. p[i] = added[j] /\ q[i] = w.sent[j] /\ j \in DOMAIN added
        BY <2>1, <3>1, <4>1, <4>2
      <4> QED
        BY <1>6, <4>3
    <3> QED
      BY <3>2, <3>3
  <2>4. { i \in DOMAIN p : p[i].k = "start" } = { i \in DOMAIN q : q[i].k = "start" }
    BY <2>2, <2>3
  <2> QED
    BY <2>1, <2>4 DEF StartsIn
<1> QED
  BY <1>2, <1>4, <1>7, <1>8, <1>9, <1>10 DEF IInv, Kernel

(* A step of the editor starts with what the editor holds, and nothing sent.*)
LEMMA EditingFacts ==
  ASSUME IInv
  PROVE  /\ W(Editing) /\ Editing.open = ed.open /\ Editing.active = ed.active /\ Editing.prompts = ed.prompts
         /\ ed.open \subseteq Docs /\ ed.active \in ed.open \cup {NoDoc} /\ EventsTyped(events)
         /\ IsSeq(ed.prompts) /\ (\A i \in DOMAIN ed.prompts : Menu(ed.prompts[i]))
         /\ scene.docs \subseteq Docs
<1>1. EdTyped(ed) /\ EventsTyped(events) /\ scene \in Scenes
  BY DEF IInv
<1>2. PICK e : e = Editing
  OBVIOUS
<1>3. /\ DOMAIN e = EdFields \cup {"sent"} /\ e.open = ed.open /\ e.active = ed.active
      /\ e.prompts = ed.prompts /\ e.sent = <<>>
  BY <1>1, <1>2 DEF Editing, Put, EdTyped, EdFields
<1>4. IsSeq(e.sent) /\ DOMAIN e.sent = {}
  BY <1>3, SeqMade
<1>5. W(e)
  BY <1>1, <1>3, <1>4 DEF W, EdTyped, Buffers
<1>6. scene.docs \subseteq Docs
  BY <1>1, LspAssumption
<1> QED
  BY <1>1, <1>2, <1>3, <1>5, <1>6 DEF EdTyped, Buffers

(* Something that the user does.                                            *)
LEMMA DoesKeeps ==
  ASSUME IInv, NEW op, NEW w, W(w), Does(op, w)
  PROVE  IInv'
<1>1. PICK y : y = [w EXCEPT !.ops = @ + 1]
  OBVIOUS
<1>2. Commit(y) /\ events' = events
  BY <1>1 DEF Does
<1>3. Same(w, y)
  BY <1>1 DEF W, Same, EdFields
<1>4. W(y)
  BY <1>3, SameIsQuiet DEF Quiet
<1>5. EventsTyped(events')
  BY <1>2, EditingFacts
<1> QED
  BY <1>2, <1>4, <1>5, CommitKeeps

(* A step of the editor.                                                    *)
LEMMA EditorStepKeeps ==
  ASSUME IInv, EditorStep
  PROVE  IInv'
<1>1. PICK e : e = Editing
  OBVIOUS
<1>2. /\ W(e) /\ e.open = ed.open /\ e.active = ed.active /\ ed.open \subseteq Docs
      /\ ed.active \in ed.open \cup {NoDoc} /\ scene.docs \subseteq Docs
  BY <1>1, EditingFacts
<1>3. ASSUME NEW d \in scene.docs, Open(d) PROVE IInv'
  <2>1. PICK w : w = OpenFile(e, d)
    OBVIOUS
  <2>2. Does("open", w)
    BY <1>1, <1>3, <2>1 DEF Open
  <2>3. W(w)
    BY <1>2, <2>1, OpenFileKeeps
  <2> QED
    BY <2>2, <2>3, DoesKeeps
<1>4. ASSUME NEW d \in scene.docs, Close(d) PROVE IInv'
  <2>1. PICK next : /\ next \in IF d # ed.active THEN {ed.active}
                                ELSE IF ed.open = {d} THEN {NoDoc} ELSE ed.open \ {d}
                    /\ Does("close", CloseBuffer(e, d, next))
    BY <1>1, <1>4 DEF Close
  <2>2. PICK w : w = CloseBuffer(e, d, next)
    OBVIOUS
  <2>3. next \in (e.open \ {d}) \cup {NoDoc}
    BY <1>2, <2>1
  <2>4. W(w)
    BY <1>2, <2>2, <2>3, CloseBufferKeeps
  <2> QED
    BY <2>1, <2>2, <2>4, DoesKeeps
<1>5. ASSUME NEW d \in scene.docs, Focus(d) PROVE IInv'
  <2>1. PICK w : w = FocusOn(e, d)
    OBVIOUS
  <2>2. Does("focus", w) /\ d \in e.open
    BY <1>1, <1>2, <1>5, <2>1 DEF Focus
  <2>3. W(w)
    BY <1>2, <2>1, <2>2, FocusOnKeeps
  <2> QED
    BY <2>2, <2>3, DoesKeeps
<1>6. ASSUME Edit PROVE IInv'
  <2>1. PICK w : w = EditBuffer(e)
    OBVIOUS
  <2>2. Does("edit", w)
    BY <1>1, <1>6, <2>1 DEF Edit
  <2>3. W(w)
    BY <1>2, <2>1, EditsKeep DEF Quiet
  <2> QED
    BY <2>2, <2>3, DoesKeeps
<1>7. ASSUME Undo PROVE IInv'
  <2>1. PICK w : w = UndoEdit(e)
    OBVIOUS
  <2>2. Does("undo", w)
    BY <1>1, <1>7, <2>1 DEF Undo
  <2>3. W(w)
    BY <1>2, <2>1, EditsKeep DEF Quiet
  <2> QED
    BY <2>2, <2>3, DoesKeeps
<1>8. ASSUME Save PROVE IInv'
  <2>1. PICK w : w = SaveBuffer(e)
    OBVIOUS
  <2>2. Does("save", w)
    BY <1>1, <1>8, <2>1 DEF Save
  <2>3. W(w)
    BY <1>2, <2>1, EditsKeep DEF Quiet
  <2> QED
    BY <2>2, <2>3, DoesKeeps
<1>9. ASSUME Reload PROVE IInv'
  <2>1. PICK w : w = ReloadBuffer(e)
    OBVIOUS
  <2>2. Does("reload", w)
    BY <1>1, <1>9, <2>1 DEF Reload
  <2>3. W(w)
    BY <1>2, <2>1, EditsKeep DEF Quiet
  <2> QED
    BY <2>2, <2>3, DoesKeeps
<1>10. ASSUME LspStart PROVE IInv'
  <2>1. PICK w : w = StartClient(e)
    OBVIOUS
  <2>2. Does("start", w)
    BY <1>1, <1>10, <2>1 DEF LspStart
  <2>3. W(w)
    BY <1>2, <2>1, StartClientKeeps DEF Quiet
  <2> QED
    BY <2>2, <2>3, DoesKeeps
<1>11. ASSUME LspStop PROVE IInv'
  <2>1. PICK r : r = Stop(ServerOf(ed.active))
    OBVIOUS
  <2>2. PICK w : w = Send(e, r)
    OBVIOUS
  <2>3. Does("stop", w)
    BY <1>1, <1>11, <2>1, <2>2 DEF LspStop
  <2>4. Wish(r)
    BY <2>1 DEF Wish, Stop
  <2>5. W(w)
    BY <1>2, <2>2, <2>4, SendKeeps DEF Quiet
  <2> QED
    BY <2>3, <2>5, DoesKeeps
<1>12. ASSUME ShowDiagnostics PROVE IInv'
  <2>1. PICK y : y = NotifyIfDirty(e)
    OBVIOUS
  <2>2. PICK w : w = [y EXCEPT !.asleep = TRUE]
    OBVIOUS
  <2>3. Does("diagnostics", w)
    BY <1>1, <1>12, <2>1, <2>2 DEF ShowDiagnostics
  <2>4. W(y)
    BY <1>2, <2>1, ReportsKeep DEF Quiet
  <2>5. Same(y, w)
    BY <2>2, <2>4 DEF Same, W, EdFields
  <2>6. W(w)
    BY <2>4, <2>5, SameIsQuiet DEF Quiet
  <2> QED
    BY <2>3, <2>6, DoesKeeps
<1>13. ASSUME NEW m \in Questions, Ask(m) PROVE IInv'
  <2>1. Does(m, e)
    BY <1>1, <1>13 DEF Ask
  <2> QED
    BY <1>2, <2>1, DoesKeeps
<1> QED
  BY <1>3, <1>4, <1>5, <1>6, <1>7, <1>8, <1>9, <1>10, <1>11, <1>12, <1>13 DEF EditorStep

(* The editor wakes up, goes on with a question, takes what the manager has *)
(* sent and does what the user chooses.                                     *)
LEMMA EditorActsKeeps ==
  ASSUME IInv, Asking, Wake \/ AskEnds \/ TakeEvent \/ Answer
  PROVE  IInv'
<1>1. PICK e : e = Editing
  OBVIOUS
<1>2. /\ W(e) /\ e.open = ed.open /\ e.active = ed.active /\ e.prompts = ed.prompts /\ EventsTyped(events)
      /\ IsSeq(ed.prompts) /\ (\A i \in DOMAIN ed.prompts : Menu(ed.prompts[i]))
  BY <1>1, EditingFacts
<1>3. ASSUME Wake PROVE IInv'
  <2>1. PICK y : y = [e EXCEPT !.asleep = FALSE]
    OBVIOUS
  <2>2. PICK ds : ds = { d \in Docs : man.diags[d] # -1 }
    OBVIOUS
  <2>3. PICK w : w = Prompt(y, "list", ds, NoId)
    OBVIOUS
  <2>4. Commit(w) /\ events' = events
    BY <1>1, <1>3, <2>1, <2>2, <2>3 DEF Wake
  <2>5. Same(e, y)
    BY <1>2, <2>1 DEF Same, W, EdFields
  <2>6. W(y)
    BY <1>2, <2>5, SameIsQuiet DEF Quiet
  <2>7. Menu(Event("list", ds, NoDoc, NoId))
    BY <2>2 DEF Menu, Event
  <2>8. W(w)
    BY <2>3, <2>6, <2>7, PromptKeeps
  <2> QED
    BY <1>2, <2>4, <2>8, CommitKeeps
<1>4. ASSUME TakeEvent PROVE IInv'
  <2>1. PICK a : a = Head(events)
    OBVIOUS
  <2>2. PICK w : w = Perform(e, a)
    OBVIOUS
  <2>3. Commit(w) /\ events' = Tail(events) /\ events # <<>>
    BY <1>1, <1>4, <2>1, <2>2 DEF TakeEvent
  <2>4. IsSeq(events) /\ \A i \in DOMAIN events : Action(events[i])
    BY <1>2 DEF EventsTyped
  <2>5. Action(a)
    BY <2>1, <2>3, <2>4, SeqTail
  <2>6. EventsTyped(Tail(events))
    <3>1. IsSeq(Tail(events))
      BY <2>3, <2>4, SeqTail
    <3>2. ASSUME NEW i \in DOMAIN Tail(events) PROVE Action(Tail(events)[i])
      BY <2>3, <2>4, ValuesTail
    <3> QED
      BY <3>1, <3>2 DEF EventsTyped
  <2>7. W(w)
    BY <1>2, <2>2, <2>5, PerformKeeps
  <2> QED
    BY <2>3, <2>6, <2>7, CommitKeeps
<1>5. ASSUME Answer PROVE IInv'
  <2>1. PICK p : p = Last(ed.prompts)
    OBVIOUS
  <2>2. PICK w : w = [e EXCEPT !.prompts = Front(@)]
    OBVIOUS
  <2>3. PICK q : q = ed.prompts
    OBVIOUS
  <2>4. /\ q # <<>> /\ events' = events
        /\ \/ Commit(w)
           \/ p.k # "newName" /\ \E d \in IF p.k = "list" THEN p.d ELSE {NoDoc} : Commit(Selected(w, p, d))
    BY <1>1, <1>5, <2>1, <2>2, <2>3 DEF Answer, LspRename
  <2>5. /\ IsSeq(Front(q)) /\ Len(q) \in DOMAIN q /\ p = q[Len(q)]
        /\ \A i \in DOMAIN Front(q) : i \in DOMAIN q /\ Front(q)[i] = q[i]
    BY <1>2, <2>1, <2>3, <2>4, FrontFacts
  <2>6. Menu(p)
    BY <1>2, <2>3, <2>5
  <2>7. W(w)
    <3>1. DOMAIN e = EdFields \cup {"sent"}
      BY <1>2 DEF W
    <3>2. /\ DOMAIN w = DOMAIN e /\ w.open = e.open /\ w.active = e.active /\ w.sent = e.sent
          /\ w.prompts = Front(q)
      BY <1>2, <2>2, <2>3, <3>1 DEF EdFields
    <3>3. \A i \in DOMAIN Front(q) : Menu(Front(q)[i])
      BY <1>2, <2>3, <2>5
    <3> QED
      BY <1>2, <2>5, <3>2, <3>3 DEF W, Buffers
  <2>8. CASE Commit(w)
    BY <1>2, <2>4, <2>7, <2>8, CommitKeeps
  <2>9. CASE p.k # "newName" /\ \E d \in IF p.k = "list" THEN p.d ELSE {NoDoc} : Commit(Selected(w, p, d))
    <3>1. PICK d \in IF p.k = "list" THEN p.d ELSE {NoDoc} : Commit(Selected(w, p, d))
      BY <2>9
    <3>2. PICK y : y = Selected(w, p, d)
      OBVIOUS
    <3>3. p.k = "list" => d \in Docs
      BY <2>6, <3>1 DEF Menu
    <3>4. W(y)
      BY <2>6, <2>7, <2>9, <3>2, <3>3, SelectedKeeps
    <3> QED
      BY <1>2, <2>4, <3>1, <3>2, <3>4, CommitKeeps
  <2> QED
    BY <2>4, <2>8, <2>9
<1>6. ASSUME AskEnds PROVE IInv'
  <2>1. PICK w : w = SendQuestion(e, asking)
    OBVIOUS
  <2>2. Commit(w) /\ events' = events /\ asking.m \in Questions
    BY <1>1, <1>6, <2>1 DEF AskEnds, Asking
  <2>3. W(w)
    BY <1>2, <2>1, <2>2, SendQuestionKeeps DEF Quiet
  <2> QED
    BY <1>2, <2>2, <2>3, CommitKeeps
<1> QED
  BY <1>3, <1>4, <1>5, <1>6

----------------------------------------------------------------------------
(* The steps of the manager, of the threads that read and of the servers.   *)

(* What the handlers start with, and what they leave.                       *)
LEMMA CtxOfState ==
  ASSUME IInv, NEW x, x = [m |-> man, s |-> srv, ev |-> <<>>]
  PROVE  Ctx(x, reqs)
<1>1. DOMAIN x = {"m", "s", "ev"} /\ x.m = man /\ x.s = srv /\ x.ev = <<>>
  OBVIOUS
<1>2. EventsTyped(x.ev)
  BY <1>1, SeqMade DEF EventsTyped
<1> QED
  BY <1>1, <1>2 DEF Ctx, IInv

(* The editor's notes of what servers cannot know are all that changes.     *)
LEMMA OvertakenKeeps ==
  ASSUME IInv, NEW x
  PROVE  EdTyped(Overtaken(x))
<1>1. EdTyped(ed)
  BY DEF IInv
<1>2. \E S, T : Overtaken(x) = [ed EXCEPT !.unopened = S, !.stale = T]
  BY DEF Overtaken
<1>3. PICK S, T : Overtaken(x) = [ed EXCEPT !.unopened = S, !.stale = T]
  BY <1>2
<1>4. PICK y : y = Overtaken(x)
  OBVIOUS
<1>5. DOMAIN y = EdFields /\ y.open = ed.open /\ y.active = ed.active /\ y.prompts = ed.prompts
  BY <1>1, <1>3, <1>4 DEF EdTyped, EdFields
<1> QED
  BY <1>1, <1>4, <1>5 DEF EdTyped, Buffers

(* The manager takes a request.                                             *)
LEMMA ManagerStepKeeps ==
  ASSUME IInv, ManagerStep
  PROVE  IInv'
<1>1. PICK x : x = [m |-> man, s |-> srv, ev |-> <<>>]
  OBVIOUS
<1>2. x.m = man /\ Ctx(x, reqs)
  BY <1>1, CtxOfState
<1>3. /\ IsSeq(reqs) /\ EventsTyped(events) /\ scene \in Scenes /\ man.next + StartsIn(reqs) <= Servers
      /\ man.next \in Nat
  <2>1. man.next \in Nat
    BY <1>2, CtxParts
  <2> QED
    BY <2>1 DEF IInv, Kernel, ReqsTyped
<1>4. PICK spawns, y : /\ y = Handle(x, Head(reqs), spawns)
                       /\ man' = y.m /\ srv' = y.s /\ events' = events \o y.ev
                       /\ ed' = Overtaken(y)
  BY <1>1 DEF ManagerStep
<1>5. reqs # <<>> /\ reqs' = Tail(reqs) /\ scene' = scene
  BY DEF ManagerStep
<1>6. /\ StartsIn(reqs) \in Nat /\ StartsIn(Tail(reqs)) \in Nat
      /\ StartsIn(reqs) = StartsIn(Tail(reqs)) + (IF Head(reqs).k = "start" THEN 1 ELSE 0)
  BY <1>3, <1>5, StartsTail
<1>7. Servers \in Nat
  BY LspAssumption
<1>8. Head(reqs).k = "start" => x.m.next < Servers
  BY <1>2, <1>3, <1>6, <1>7
<1>9. Ctx(y, Tail(reqs)) /\ y.m.next = man.next + (IF Head(reqs).k = "start" THEN 1 ELSE 0)
  BY <1>2, <1>4, <1>5, <1>8, HandleKeeps
<1>10. Kernel(y.m, y.s, Tail(reqs)) /\ EventsTyped(y.ev)
  BY <1>9 DEF Ctx
<1>11. EventsTyped(events \o y.ev)
  <2>1. PICK es, more : es = events /\ more = y.ev
    OBVIOUS
  <2>2. IsSeq(es) /\ IsSeq(more) /\ (\A i \in DOMAIN es : Action(es[i])) /\ \A i \in DOMAIN more : Action(more[i])
    BY <1>3, <1>10, <2>1 DEF EventsTyped
  <2>3. IsSeq(es \o more)
    BY <2>2, SeqConcat
  <2>4. ASSUME NEW i \in DOMAIN (es \o more) PROVE Action((es \o more)[i])
    BY <2>2, ValuesConcat
  <2> QED
    BY <2>1, <2>3, <2>4 DEF EventsTyped
<1>12. EdTyped(Overtaken(y))
  BY OvertakenKeeps
<1>13. y.m.next + StartsIn(Tail(reqs)) <= Servers
  BY <1>3, <1>6, <1>7, <1>9
<1> QED
  BY <1>3, <1>4, <1>5, <1>10, <1>11, <1>12, <1>13 DEF IInv

(* It has waited for the threads of a server.                               *)
LEMMA JoinEndsKeeps ==
  ASSUME IInv, JoinEnds
  PROVE  IInv'
<1>1. PICK x : x = [m |-> man, s |-> srv, ev |-> <<>>]
  OBVIOUS
<1>2. PICK y : y = [m |-> man', s |-> srv, ev |-> <<>>]
  OBVIOUS
<1>3. /\ x.m = man /\ x.s = srv /\ x.ev = <<>> /\ Ctx(x, reqs)
  BY <1>1, CtxOfState
<1>4. DOMAIN y = {"m", "s", "ev"} /\ y.m = man' /\ y.s = x.s /\ y.ev = x.ev
  BY <1>2, <1>3
<1>5. /\ DOMAIN man = ManFields /\ ManTyped(man) /\ man.next \in Nat /\ DOMAIN man.clients \subseteq 0 .. man.next - 1
      /\ (\A id \in DOMAIN man.clients : man.clients[id].next \in Nat) /\ EventsTyped(x.ev)
  BY <1>3, CtxParts
<1>6. /\ DOMAIN man' = ManFields /\ man'.clients = man.clients /\ man'.pending = man.pending
      /\ man'.titles = man.titles /\ man'.next = man.next /\ man'.join = NoId /\ man'.caps = man.caps
      /\ man'.status = man.status
  BY <1>5 DEF JoinEnds, ManFields
<1>7. man'.join \notin DOMAIN man'.clients
  <2>1. man.next <= Servers /\ Servers \in Nat
    BY <1>5, LspAssumption DEF ManTyped
  <2> QED
    BY <1>5, <1>6, <2>1 DEF NoId
<1>8. ManTyped(y.m)
  BY <1>4, <1>5, <1>6, <1>7 DEF ManTyped
<1>9. \A id \in Ids : Milder(x.m, y.m, id)
  BY <1>3, <1>4, <1>5, <1>6 DEF Milder
<1>10. Ctx(y, reqs)
  BY <1>3, <1>4, <1>5, <1>8, <1>9, CtxManager
<1>11. Kernel(man', srv, reqs)
  BY <1>2, <1>10 DEF Ctx
<1>12. ed' = ed /\ reqs' = reqs /\ srv' = srv /\ events' = events /\ scene' = scene
  BY DEF JoinEnds
<1> QED
  BY <1>6, <1>11, <1>12 DEF IInv

(* One server takes a step that the others do not see.                      *)
LEMMA ServerStepKeeps ==
  ASSUME IInv, NEW id \in Ids, NEW sv, srv' = [srv EXCEPT ![id] = sv], ServerOK(man, sv, reqs, id),
         UNCHANGED <<ed, man, events, scene, reqs>>
  PROVE  IInv'
<1>1. DOMAIN srv' = Ids /\ \A j \in Ids : ServerOK(man, srv'[j], reqs, j)
  BY DEF IInv, Kernel
<1> QED
  BY <1>1 DEF IInv, Kernel

(* The fields of a server, and what is known of it.                         *)
LEMMA ServerFacts ==
  ASSUME IInv, NEW id \in Ids
  PROVE  /\ DOMAIN srv = Ids /\ ServerOK(man, srv[id], reqs, id) /\ DOMAIN srv[id] = SrvFields
         /\ IsSeq(reqs) /\ (\A i \in DOMAIN reqs : OnChannel(reqs[i]))
         /\ IsSeq(srv[id].in) /\ IsSeq(srv[id].out)
         /\ \A i \in DOMAIN srv[id].out : Said(srv[id].out[i]) \/ srv[id].out[i].k = "garbage"
BY DEF IInv, Kernel, ServerOK, ServerTyped, ReqsTyped

(* A thread reads.                                                          *)
LEMMA ReadKeeps ==
  ASSUME IInv, NEW id \in Ids, Read(id)
  PROVE  IInv'
<1>1. PICK m, sv, rs : m = man /\ sv = srv[id] /\ rs = reqs
  OBVIOUS
<1>2. /\ DOMAIN srv = Ids /\ ServerOK(m, sv, rs, id) /\ DOMAIN sv = SrvFields /\ IsSeq(rs)
      /\ (\A i \in DOMAIN rs : OnChannel(rs[i])) /\ IsSeq(sv.out)
      /\ \A i \in DOMAIN sv.out : Said(sv.out[i]) \/ sv.out[i].k = "garbage"
  BY <1>1, ServerFacts
<1>3. /\ ed' = ed /\ man' = man /\ events' = events /\ scene' = scene /\ sv.reader = "up"
  BY <1>1 DEF Read, Unchanged
<1>4. ASSUME sv.out # <<>>, Head(sv.out).k # "garbage", srv' = [srv EXCEPT ![id].out = Tail(@)],
             reqs' = Append(reqs, Incoming(id, Head(srv[id].out)))
      PROVE  IInv'
  <2>1. PICK e : e = Incoming(id, Head(sv.out))
    OBVIOUS
  <2>2. PICK one : one = <<e>>
    OBVIOUS
  <2>3. PICK sv2 : sv2 = [sv EXCEPT !.out = Tail(@)]
    OBVIOUS
  <2>4. PICK rs2 : rs2 = Append(rs, e)
    OBVIOUS
  <2>5. reqs' = rs2 /\ srv' = [srv EXCEPT ![id] = sv2]
    BY <1>1, <1>4, <2>1, <2>3, <2>4
  <2>6. e.k = "message" /\ e.id = id /\ e.msg = Head(sv.out)
    BY <2>1 DEF Incoming
  <2>7. OnChannel(e)
    <3>1. Said(Head(sv.out))
      BY <1>2, <1>4, SeqTail
    <3> QED
      BY <2>6, <3>1 DEF OnChannel
  <2>8. ReqsTyped(rs2)
    <3>1. IsSeq(rs2)
      BY <1>2, <2>4, SeqAppend
    <3>2. ASSUME NEW i \in DOMAIN rs2 PROVE OnChannel(rs2[i])
      BY <1>2, <2>4, <2>7, ValuesAppend
    <3> QED
      BY <3>1, <3>2 DEF ReqsTyped
  <2>9. ServerOK(m, sv2, rs2, id)
    <3>1. /\ DOMAIN sv2 = SrvFields /\ sv2.in = sv.in /\ sv2.todo = sv.todo /\ sv2.out = Tail(sv.out)
          /\ sv2.st = sv.st /\ sv2.begun = sv.begun /\ sv2.reader = sv.reader
      BY <1>2, <2>3 DEF SrvFields
    <3>2. ServerOK(m, sv2, Append(rs, Incoming(id, Head(sv.out))), id)
      BY ONLY <1>2, <1>4, <3>1, id \in Ids, ReaderReads
    <3> QED
      BY <2>1, <2>4, <3>2
  <2>10. ASSUME NEW j \in Ids, j # id PROVE ServerOK(m, srv[j], rs2, j)
    <3>1. PICK s : s = srv[j]
      OBVIOUS
    <3>2. ServerOK(m, s, rs, j)
      BY <1>1, <3>1, ServerFacts
    <3>3. rs2 = rs \o one /\ IsSeq(one) /\ \A i \in DOMAIN one : one[i] = e
      BY <1>2, <2>2, <2>4, AppendOne
    <3>4. \A i \in DOMAIN one : ~ From(one[i], j)
      BY <2>6, <2>10, <3>3 DEF From
    <3>5. ServerOK(m, s, rs \o one, j)
      BY ONLY <1>2, <3>2, <3>3, <3>4, ChannelLonger
    <3> QED
      BY <3>1, <3>3, <3>5
  <2>11. StartsIn(rs2) = StartsIn(rs)
    <3>1. { i \in DOMAIN rs2 : rs2[i].k = "start" } = { i \in DOMAIN rs : rs[i].k = "start" }
      <4>1. /\ Len(rs) \in Nat /\ DOMAIN rs = 1 .. Len(rs) /\ DOMAIN rs2 = 1 .. Len(rs) + 1
            /\ (\A i \in 1 .. Len(rs) : rs2[i] = rs[i]) /\ rs2[Len(rs) + 1] = e
        BY <1>2, <2>4, SeqAppend
      <4> QED
        BY <2>6, <4>1
    <3> QED
      BY <3>1 DEF StartsIn
  <2>12. DOMAIN srv' = Ids /\ \A j \in Ids : ServerOK(man', srv'[j], reqs', j)
    <3>1. ASSUME NEW j \in Ids PROVE ServerOK(m, srv'[j], rs2, j)
      BY <1>2, <2>5, <2>9, <2>10
    <3> QED
      BY <1>1, <1>2, <1>3, <2>5, <3>1
  <2> QED
    BY <1>1, <1>3, <2>5, <2>8, <2>11, <2>12 DEF IInv, Kernel
<1>5. ASSUME NEW sv2, srv' = [srv EXCEPT ![id] = sv2], reqs' = reqs, sv2 = [sv EXCEPT !.out = <<>>, !.reader = "done"]
      PROVE  IInv'
  <2>1. /\ DOMAIN sv2 = SrvFields /\ sv2.in = sv.in /\ sv2.todo = sv.todo /\ sv2.out = <<>>
        /\ sv2.st = sv.st /\ sv2.begun = sv.begun /\ sv2.reader # "up"
    BY <1>2, <1>5 DEF SrvFields
  <2>2. ServerOK(m, sv2, rs, id)
    BY ONLY <1>2, <2>1, ReaderEnds
  <2> QED
    BY <1>1, <1>3, <1>5, <2>2, ServerStepKeeps
<1>6. ASSUME srv' = [srv EXCEPT ![id].out = <<>>, ![id].reader = "done"], reqs' = reqs PROVE IInv'
  <2>1. PICK sv2 : sv2 = [sv EXCEPT !.out = <<>>, !.reader = "done"]
    OBVIOUS
  <2>2. srv' = [srv EXCEPT ![id] = sv2]
    BY <1>1, <1>2, <1>6, <2>1
  <2> QED
    BY <1>5, <1>6, <2>1, <2>2
<1>7. ASSUME sv.out = <<>>, srv' = [srv EXCEPT ![id].reader = "done"], reqs' = reqs PROVE IInv'
  <2>1. PICK sv2 : sv2 = [sv EXCEPT !.reader = "done"]
    OBVIOUS
  <2>2. srv' = [srv EXCEPT ![id] = sv2]
    BY <1>1, <1>2, <1>7, <2>1
  <2>3. /\ DOMAIN sv2 = SrvFields /\ sv2.in = sv.in /\ sv2.todo = sv.todo /\ sv2.out = <<>>
        /\ sv2.st = sv.st /\ sv2.begun = sv.begun /\ sv2.reader # "up"
    BY <1>2, <1>7, <2>1 DEF SrvFields
  <2>4. ServerOK(m, sv2, rs, id)
    BY ONLY <1>2, <2>3, ReaderEnds
  <2> QED
    BY <1>1, <1>3, <1>7, <2>2, <2>4, ServerStepKeeps
<1> QED
  BY <1>1, <1>4, <1>6, <1>7 DEF Read

(* A server takes what was written to it.                                   *)
LEMMA ServerTakesKeeps ==
  ASSUME IInv, NEW id \in Ids, ServerTakes(id)
  PROVE  IInv'
<1>1. PICK m, sv, rs : m = man /\ sv = srv[id] /\ rs = reqs
  OBVIOUS
<1>2. ServerOK(m, sv, rs, id) /\ DOMAIN sv = SrvFields
  BY <1>1, ServerFacts
<1>3. PICK msg : msg = Head(sv.in)
  OBVIOUS
<1>4. PICK s : s = [sv EXCEPT !.in = Tail(@)]
  OBVIOUS
<1>5. PICK sv2 : sv2 =
             IF msg.k = "request" THEN [s EXCEPT !.todo = @ \cup {msg}]
             ELSE CASE msg.m = "exit" -> [s EXCEPT !.st = "exited", !.in = <<>>]
                    [] msg.m = "didOpen" -> [s EXCEPT !.has[msg.d] = msg.v, !.known = @ /\ s.has[msg.d] = -1]
                    [] msg.m = "didChange" -> [s EXCEPT !.has[msg.d] = IF @ = -1 THEN @ ELSE msg.v,
                                                        !.known = @ /\ s.has[msg.d] # -1]
                    [] msg.m = "didClose" -> [s EXCEPT !.has[msg.d] = -1, !.known = @ /\ s.has[msg.d] # -1]
                    [] OTHER -> s
  OBVIOUS
<1>6. /\ sv.st = "up" /\ sv.in # <<>> /\ srv' = [srv EXCEPT ![id] = sv2]
      /\ UNCHANGED <<ed, man, events, scene, reqs>>
  BY <1>1, <1>3, <1>4, <1>5 DEF ServerTakes, Unchanged
<1>7. /\ DOMAIN s = SrvFields /\ s.in = Tail(sv.in) /\ s.todo = sv.todo /\ s.st = sv.st /\ s.out = sv.out
      /\ s.reader = sv.reader /\ s.begun = sv.begun
  BY <1>2, <1>4 DEF SrvFields
<1>8. CASE msg.k = "request"
  <2>1. sv2 = [s EXCEPT !.todo = @ \cup {msg}]
    BY <1>5, <1>8
  <2>2. /\ DOMAIN sv2 = SrvFields /\ sv2.in = Tail(sv.in) /\ sv2.todo = sv.todo \cup {Head(sv.in)}
        /\ sv2.st = sv.st /\ sv2.out = sv.out /\ sv2.reader = sv.reader /\ sv2.begun = sv.begun
    BY <1>3, <1>7, <2>1 DEF SrvFields
  <2>3. Head(sv.in).k = "request"
    BY <1>3, <1>8
  <2>4. ServerOK(m, sv2, rs, id)
    BY ONLY <1>2, <1>6, <2>2, <2>3, ServerTakesFirst
  <2> QED
    BY <1>1, <1>6, <2>4, ServerStepKeeps
<1>9. CASE msg.k # "request" /\ msg.m = "exit"
  <2>1. sv2 = [s EXCEPT !.st = "exited", !.in = <<>>]
    BY <1>5, <1>9
  <2>2. /\ DOMAIN sv2 = SrvFields /\ sv2.in = <<>> /\ sv2.todo \subseteq sv.todo
        /\ sv2.st # "up" /\ sv2.out = sv.out /\ sv2.reader = sv.reader /\ sv2.begun = sv.begun
    BY <1>7, <2>1 DEF SrvFields
  <2>3. ServerOK(m, sv2, rs, id)
    BY ONLY <1>2, <2>2, ServerGone
  <2> QED
    BY <1>1, <1>6, <2>3, ServerStepKeeps
<1>10. CASE msg.k # "request" /\ msg.m # "exit"
  <2>1. /\ DOMAIN sv2 = SrvFields /\ sv2.in = s.in /\ sv2.todo = s.todo
        /\ sv2.st = s.st /\ sv2.out = s.out /\ sv2.reader = s.reader /\ sv2.begun = s.begun
    <3>1. CASE msg.m = "didOpen"
      <4>1. sv2 = [s EXCEPT !.has[msg.d] = msg.v, !.known = @ /\ s.has[msg.d] = -1]
        BY <1>5, <1>10, <3>1
      <4> QED
        BY ONLY <1>7, <4>1 DEF SrvFields
    <3>2. CASE msg.m = "didChange"
      <4>1. sv2 = [s EXCEPT !.has[msg.d] = IF @ = -1 THEN @ ELSE msg.v, !.known = @ /\ s.has[msg.d] # -1]
        BY <1>5, <1>10, <3>2
      <4> QED
        BY ONLY <1>7, <4>1 DEF SrvFields
    <3>3. CASE msg.m = "didClose"
      <4>1. sv2 = [s EXCEPT !.has[msg.d] = -1, !.known = @ /\ s.has[msg.d] # -1]
        BY <1>5, <1>10, <3>3
      <4> QED
        BY ONLY <1>7, <4>1 DEF SrvFields
    <3>4. CASE msg.m \notin {"didOpen", "didChange", "didClose"}
      <4>1. sv2 = s
        BY <1>5, <1>10, <3>4
      <4> QED
        BY ONLY <1>7, <4>1
    <3> QED
      BY <3>1, <3>2, <3>3, <3>4
  <2>2. /\ DOMAIN sv2 = SrvFields /\ sv2.in = Tail(sv.in) /\ sv2.todo = sv.todo
        /\ sv2.st = sv.st /\ sv2.out = sv.out /\ sv2.reader = sv.reader /\ sv2.begun = sv.begun
    BY ONLY <1>7, <2>1
  <2>3. Head(sv.in).k # "request"
    BY <1>3, <1>10
  <2>4. ServerOK(m, sv2, rs, id)
    BY ONLY <1>2, <1>6, <2>2, <2>3, ServerTakesFirst
  <2> QED
    BY <1>1, <1>6, <2>4, ServerStepKeeps
<1> QED
  BY <1>8, <1>9, <1>10

(* A server says something that its reader hears, or nobody does.           *)
LEMMA SaysKeeps ==
  ASSUME IInv, NEW id \in Ids, srv[id].st = "up", NEW msg, Said(msg), NEW s, Says(id, msg, s),
         UNCHANGED <<ed, man, events, scene, reqs>>,
         DOMAIN s = SrvFields, s.in = srv[id].in, s.st = srv[id].st, s.out = srv[id].out, s.reader = srv[id].reader,
         msg.k = "response" => \E q \in srv[id].todo : /\ s.todo = srv[id].todo \ {q} /\ msg.rid = q.rid
                                                       /\ msg.m = q.m /\ msg.d = q.d /\ msg.v = q.v,
         msg.k # "response" => s.todo = srv[id].todo,
         Reports(msg) => msg.tok \in srv[id].begun,
         \A t \in s.begun : (t \in srv[id].begun /\ ~ Ends(msg, t)) \/ Begins(msg, t)
  PROVE  IInv'
<1>1. PICK m, sv, rs : m = man /\ sv = srv[id] /\ rs = reqs
  OBVIOUS
<1>2. ServerOK(m, sv, rs, id) /\ sv.st = "up"
  BY <1>1, ServerFacts
<1>3. /\ s.in = sv.in /\ s.st = sv.st /\ s.out = sv.out /\ s.reader = sv.reader
      /\ (msg.k # "response" => s.todo = sv.todo)
      /\ (Reports(msg) => msg.tok \in sv.begun)
      /\ (\A t \in s.begun : (t \in sv.begun /\ ~ Ends(msg, t)) \/ Begins(msg, t))
      /\ (msg.k = "response" => \E q \in sv.todo : /\ s.todo = sv.todo \ {q} /\ msg.rid = q.rid
                                                  /\ msg.m = q.m /\ msg.d = q.d /\ msg.v = q.v)
  BY <1>1
<1>4. CASE sv.reader = "up"
  <2>1. PICK sv2 : sv2 = [s EXCEPT !.out = Append(@, msg)]
    OBVIOUS
  <2>2. srv' = [srv EXCEPT ![id] = sv2]
    BY <1>3, <1>4, <2>1 DEF Says
  <2>3. /\ DOMAIN sv2 = SrvFields /\ sv2.in = sv.in /\ sv2.st = sv.st /\ sv2.out = Append(sv.out, msg)
        /\ sv2.reader = sv.reader /\ sv2.todo = s.todo /\ sv2.begun = s.begun
    BY <1>3, <2>1 DEF SrvFields
  <2>4. /\ (msg.k # "response" => sv2.todo = sv.todo)
        /\ (\A t \in sv2.begun : (t \in sv.begun /\ ~ Ends(msg, t)) \/ Begins(msg, t))
        /\ (msg.k = "response" => \E q \in sv.todo : /\ sv2.todo = sv.todo \ {q} /\ msg.rid = q.rid
                                                    /\ msg.m = q.m /\ msg.d = q.d /\ msg.v = q.v)
    BY <1>3, <2>3
  <2>5. Said(msg) \/ msg.k = "garbage"
    OBVIOUS
  <2>6. ServerOK(m, sv2, rs, id)
    BY ONLY <1>2, <1>3, <1>4, <2>3, <2>4, <2>5, ServerSays
  <2> QED
    BY <1>1, <2>2, <2>6, ServerStepKeeps
<1>5. CASE sv.reader # "up"
  <2>1. srv' = [srv EXCEPT ![id] = s]
    BY <1>3, <1>5 DEF Says
  <2>2. s.reader # "up" /\ s.todo \subseteq sv.todo
    BY <1>3, <1>5
  <2>3. ServerOK(m, s, rs, id)
    BY ONLY <1>2, <1>3, <2>2, DOMAIN s = SrvFields, ServerUnheard
  <2> QED
    BY <1>1, <2>1, <2>3, ServerStepKeeps
<1> QED
  BY <1>4, <1>5

(* A server answers one of the questions that it has.                       *)
LEMMA ServerAnswersKeeps ==
  ASSUME IInv, NEW id \in Ids, ServerAnswers(id)
  PROVE  IInv'
<1>1. UNCHANGED <<ed, man, events, scene, reqs>> /\ srv[id].st = "up"
  BY DEF ServerAnswers, Unchanged
<1>2. PICK sv : sv = srv[id]
  OBVIOUS
<1>3. PICK q, res : /\ q \in sv.todo
                    /\ Says(id, FromServer("response", q.rid, q.m, NoId, q.d, q.v, res), [sv EXCEPT !.todo = @ \ {q}])
                    /\ q.m \in Located => res.d \in Docs
  <2>1. PICK q \in sv.todo : \E res \in Results(q) :
                Says(id, FromServer("response", q.rid, q.m, NoId, q.d, q.v, res), [sv EXCEPT !.todo = @ \ {q}])
    BY <1>2 DEF ServerAnswers
  <2>2. PICK res \in Results(q) :
                Says(id, FromServer("response", q.rid, q.m, NoId, q.d, q.v, res), [sv EXCEPT !.todo = @ \ {q}])
    BY <2>1
  <2>3. ASSUME q.m \in Located PROVE res.d \in Docs
    <3>1. res \in PlacesFound
      BY <2>2, <2>3 DEF Located, Results
    <3>2. PICK x \in scene.results \X scene.docs : res = Result(x[1], x[2], "none", FALSE)
      BY <3>1 DEF PlacesFound
    <3>3. x[2] \in scene.docs
      BY <3>2
    <3> QED
      BY <3>2, <3>3, EditingFacts DEF Result
  <2> QED
    BY <2>2, <2>3
<1>4. PICK msg : msg = FromServer("response", q.rid, q.m, NoId, q.d, q.v, res)
  OBVIOUS
<1>5. PICK s : s = [sv EXCEPT !.todo = @ \ {q}]
  OBVIOUS
<1>6. /\ msg.k = "response" /\ msg.rid = q.rid /\ msg.m = q.m /\ msg.d = q.d /\ msg.v = q.v /\ msg.res = res
  BY <1>4 DEF FromServer
<1>7. Said(msg)
  BY <1>3, <1>6 DEF Said
<1>8. /\ DOMAIN s = SrvFields /\ s.in = sv.in /\ s.st = sv.st /\ s.out = sv.out /\ s.reader = sv.reader
      /\ s.todo = sv.todo \ {q} /\ s.begun = sv.begun
  BY <1>2, <1>5, ServerFacts DEF SrvFields
<1>9. ~ Reports(msg) /\ \A t : ~ Ends(msg, t)
  BY <1>6 DEF Reports, Ends
<1>10. Says(id, msg, s)
  BY <1>3, <1>4, <1>5
<1> QED
  BY <1>1, <1>2, <1>3, <1>6, <1>7, <1>8, <1>9, <1>10, SaysKeeps

(* A server reports on its progress and on documents.                       *)
LEMMA ServerPushesKeeps ==
  ASSUME IInv, NEW id \in Ids, ServerPushes(id)
  PROVE  IInv'
<1>1. UNCHANGED <<ed, man, events, scene, reqs>> /\ srv[id].st = "up"
  BY DEF ServerPushes, Unchanged
<1>2. PICK sv : sv = srv[id]
  OBVIOUS
<1>3. DOMAIN sv = SrvFields
  BY <1>2, ServerFacts
<1>4. PICK s : s = [sv EXCEPT !.pushed = @ + 1]
  OBVIOUS
<1>5. /\ DOMAIN s = SrvFields /\ s.in = sv.in /\ s.st = sv.st /\ s.out = sv.out /\ s.reader = sv.reader
      /\ s.todo = sv.todo /\ s.begun = sv.begun
  BY <1>3, <1>4 DEF SrvFields
<1>6. ASSUME NEW b, NEW y, y = s \/ y = [s EXCEPT !.begun = b]
      PROVE  /\ DOMAIN y = SrvFields /\ y.in = sv.in /\ y.st = sv.st /\ y.out = sv.out /\ y.reader = sv.reader
             /\ y.todo = sv.todo /\ (y = [s EXCEPT !.begun = b] => y.begun = b) /\ (y = s => y.begun = sv.begun)
  BY <1>5, <1>6 DEF SrvFields
<1>7. ASSUME NEW k \in {"request", "notify"}, NEW rid, NEW mm, NEW t, NEW d, NEW v, NEW y,
             Says(id, FromServer(k, rid, mm, t, d, v, NoResult), y),
             DOMAIN y = SrvFields, y.in = sv.in, y.st = sv.st, y.out = sv.out, y.reader = sv.reader, y.todo = sv.todo,
             mm = "report" => t \in sv.begun,
             \A u \in y.begun : \/ u \in sv.begun /\ (mm \in {"create", "end"} => u # t)
                                \/ k = "notify" /\ mm = "begin" /\ u = t
      PROVE  IInv'
  <2>1. PICK msg : msg = FromServer(k, rid, mm, t, d, v, NoResult)
    OBVIOUS
  <2>2. msg.k = k /\ msg.m = mm /\ msg.tok = t
    BY <2>1 DEF FromServer
  <2>3. Said(msg)
    BY <1>7, <2>2 DEF Said
  <2>4. msg.k # "response" /\ (Reports(msg) => msg.tok \in sv.begun)
    BY <1>7, <2>2 DEF Reports
  <2>5. \A u \in y.begun : (u \in sv.begun /\ ~ Ends(msg, u)) \/ Begins(msg, u)
    BY <1>7, <2>2 DEF Ends, Begins
  <2>6. Says(id, msg, y)
    BY <1>7, <2>1
  <2> QED
    BY <1>1, <1>2, <1>7, <2>3, <2>4, <2>5, <2>6, SaysKeeps
<1>8. \/ \E t \in Tokens \ sv.begun :
           \/ Says(id, FromServer("request", t, "create", t, NoDoc, 0, NoResult), s)
           \/ Says(id, FromServer("notify", -1, "begin", t, NoDoc, 0, NoResult), [s EXCEPT !.begun = @ \cup {t}])
      \/ \E t \in sv.begun :
           \/ Says(id, FromServer("notify", -1, "report", t, NoDoc, 0, NoResult), s)
           \/ Says(id, FromServer("notify", -1, "end", t, NoDoc, 0, NoResult), [s EXCEPT !.begun = @ \ {t}])
      \/ \E d \in Docs : Says(id, FromServer("notify", -1, "diagnostics", NoId, d, s.has[d], NoResult), s)
  BY <1>2, <1>4, <1>5 DEF ServerPushes
<1>9. ASSUME NEW t \in Tokens \ sv.begun, Says(id, FromServer("request", t, "create", t, NoDoc, 0, NoResult), s)
      PROVE  IInv'
  BY <1>5, <1>7, <1>9
<1>10. ASSUME NEW t \in Tokens \ sv.begun,
              Says(id, FromServer("notify", -1, "begin", t, NoDoc, 0, NoResult), [s EXCEPT !.begun = @ \cup {t}])
       PROVE  IInv'
  <2>1. PICK y : y = [s EXCEPT !.begun = @ \cup {t}]
    OBVIOUS
  <2>2. /\ DOMAIN y = SrvFields /\ y.in = sv.in /\ y.st = sv.st /\ y.out = sv.out /\ y.reader = sv.reader
        /\ y.todo = sv.todo /\ y.begun = sv.begun \cup {t}
    BY <1>5, <2>1 DEF SrvFields
  <2>3. Says(id, FromServer("notify", -1, "begin", t, NoDoc, 0, NoResult), y)
    BY <1>10, <2>1
  <2> QED
    BY <1>7, <2>2, <2>3
<1>11. ASSUME NEW t \in sv.begun, Says(id, FromServer("notify", -1, "report", t, NoDoc, 0, NoResult), s)
       PROVE  IInv'
  BY <1>5, <1>7, <1>11
<1>12. ASSUME NEW t \in sv.begun,
              Says(id, FromServer("notify", -1, "end", t, NoDoc, 0, NoResult), [s EXCEPT !.begun = @ \ {t}])
       PROVE  IInv'
  <2>1. PICK y : y = [s EXCEPT !.begun = @ \ {t}]
    OBVIOUS
  <2>2. /\ DOMAIN y = SrvFields /\ y.in = sv.in /\ y.st = sv.st /\ y.out = sv.out /\ y.reader = sv.reader
        /\ y.todo = sv.todo /\ y.begun = sv.begun \ {t}
    BY <1>5, <2>1 DEF SrvFields
  <2>3. Says(id, FromServer("notify", -1, "end", t, NoDoc, 0, NoResult), y)
    BY <1>12, <2>1
  <2> QED
    BY <1>7, <2>2, <2>3
<1>13. ASSUME NEW d \in Docs, Says(id, FromServer("notify", -1, "diagnostics", NoId, d, s.has[d], NoResult), s)
       PROVE  IInv'
  BY <1>5, <1>7, <1>13
<1> QED
  BY <1>8, <1>9, <1>10, <1>11, <1>12, <1>13

(* A server crashes, or says what is not a message.                         *)
LEMMA ServerFailsKeeps ==
  ASSUME IInv, NEW id \in Ids, ServerFails(id)
  PROVE  IInv'
<1>1. PICK m, sv, rs : m = man /\ sv = srv[id] /\ rs = reqs
  OBVIOUS
<1>2. ServerOK(m, sv, rs, id) /\ DOMAIN sv = SrvFields /\ DOMAIN srv = Ids
  BY <1>1, ServerFacts
<1>3. UNCHANGED <<ed, man, events, scene, reqs>> /\ sv.st = "up"
  BY <1>1 DEF ServerFails, Unchanged
<1>4. ASSUME srv' = [srv EXCEPT ![id].st = "exited", ![id].in = <<>>, ![id].todo = {}] PROVE IInv'
  <2>1. PICK sv2 : sv2 = [sv EXCEPT !.st = "exited", !.in = <<>>, !.todo = {}]
    OBVIOUS
  <2>2. srv' = [srv EXCEPT ![id] = sv2]
    BY <1>1, <1>2, <1>4, <2>1
  <2>3. /\ DOMAIN sv2 = SrvFields /\ sv2.in = <<>> /\ sv2.todo \subseteq sv.todo
        /\ sv2.st # "up" /\ sv2.out = sv.out /\ sv2.reader = sv.reader /\ sv2.begun = sv.begun
    BY <1>2, <2>1 DEF SrvFields
  <2>4. ServerOK(m, sv2, rs, id)
    BY ONLY <1>2, <2>3, ServerGone
  <2> QED
    BY <1>1, <1>3, <2>2, <2>4, ServerStepKeeps
<1>5. ASSUME sv.reader = "up", srv' = [srv EXCEPT ![id].out = Append(@, [k |-> "garbage"])] PROVE IInv'
  <2>1. PICK msg : msg = [k |-> "garbage"]
    OBVIOUS
  <2>2. PICK sv2 : sv2 = [sv EXCEPT !.out = Append(@, msg)]
    OBVIOUS
  <2>3. srv' = [srv EXCEPT ![id] = sv2]
    BY <1>1, <1>2, <1>5, <2>1, <2>2
  <2>4. /\ DOMAIN sv2 = SrvFields /\ sv2.in = sv.in /\ sv2.st = sv.st /\ sv2.out = Append(sv.out, msg)
        /\ sv2.reader = sv.reader /\ sv2.todo = sv.todo /\ sv2.begun = sv.begun
    BY <1>2, <2>2 DEF SrvFields
  <2>5. msg.k = "garbage"
    BY <2>1
  <2>6. /\ msg.k # "response" /\ ~ Reports(msg) /\ (\A t : ~ Ends(msg, t)) /\ (Said(msg) \/ msg.k = "garbage")
    BY <2>5 DEF Reports, Ends
  <2>7. \A t \in sv2.begun : (t \in sv.begun /\ ~ Ends(msg, t)) \/ Begins(msg, t)
    BY <2>4, <2>6
  <2>8. ServerOK(m, sv2, rs, id)
    BY ONLY <1>2, <1>3, <1>5, <2>4, <2>6, <2>7, ServerSays
  <2> QED
    BY <1>1, <1>3, <2>3, <2>8, ServerStepKeeps
<1> QED
  BY <1>1, <1>4, <1>5 DEF ServerFails

----------------------------------------------------------------------------
(* The invariant, and what it gives.                                        *)

(* No server has been started, and nothing sent.                            *)
LEMMA InitKeeps == Init => IInv
<1> SUFFICES ASSUME Init PROVE IInv
  OBVIOUS
<1>1. /\ IsSeq(<<>>) /\ DOMAIN <<>> = {} /\ Servers \in Nat /\ NoId \in Nat
      /\ \A s \in Scenes : s.open \subseteq Docs /\ s.docs \subseteq Docs
  BY SeqMade, LspAssumption DEF NoId
<1>2. /\ scene \in Scenes /\ reqs = <<>> /\ events = <<>>
  BY DEF Init
<1>3. EdTyped(ed)
  <2>1. PICK a : a = IF scene.open = {} THEN NoDoc ELSE CHOOSE d \in scene.open : TRUE
    OBVIOUS
  <2>2. a \in scene.open \cup {NoDoc}
    BY <2>1
  <2>3. DOMAIN ed = EdFields /\ ed.open = scene.open /\ ed.active = a /\ ed.prompts = <<>>
    BY <2>1 DEF Init, EdFields
  <2> QED
    BY <1>1, <1>2, <2>2, <2>3 DEF EdTyped, Buffers
<1>4. /\ DOMAIN man = ManFields /\ man.clients = <<>> /\ man.pending = <<>> /\ man.titles = [i \in Ids |-> <<>>]
      /\ man.next = 0 /\ man.join = NoId /\ man.caps = [f \in Ftypes |-> NoId] /\ man.status.of = "none"
  BY DEF Init, ManFields
<1>5. ManTyped(man)
  BY <1>1, <1>4 DEF ManTyped
<1>6. DOMAIN srv = Ids /\ \A id \in Ids : srv[id] = NewServer
  BY DEF Init
<1>7. ASSUME NEW id \in Ids PROVE ServerOK(man, srv[id], reqs, id)
  <2>1. PICK sv : sv = srv[id]
    OBVIOUS
  <2>2. /\ DOMAIN sv = SrvFields /\ sv.st = "none" /\ sv.in = <<>> /\ sv.todo = {} /\ sv.out = <<>>
        /\ sv.reader = "none" /\ sv.begun = {}
    BY <1>6, <2>1 DEF NewServer, SrvFields
  <2>3. ServerTyped(sv)
    BY <1>1, <2>2 DEF ServerTyped
  <2>4. FreshAt(man, sv, reqs, id) /\ MatchedAt(man, sv, reqs, id)
    BY <1>1, <1>2, <2>2 DEF FreshAt, MatchedAt
  <2>5. OnceAt(sv, reqs, id)
    BY <1>1, <1>2, <2>2 DEF OnceAt, NoTwice, NoTwiceTodo, NoTwiceReqs, Rids, TodoRids, ReqRids
  <2>6. KeptAt(man, sv, reqs, id)
    BY <2>2 DEF KeptAt, Listens
  <2>7. TitledIn(man, sv, reqs, id)
    BY <1>1, <1>2, <2>2 DEF TitledIn
  <2> QED
    BY <2>1, <2>3, <2>4, <2>5, <2>6, <2>7 DEF ServerOK
<1>8. EventsTyped(events) /\ ReqsTyped(reqs)
  BY <1>1, <1>2 DEF EventsTyped, ReqsTyped
<1>9. StartsIn(reqs) = 0
  <2>1. { i \in DOMAIN reqs : reqs[i].k = "start" } = {}
    BY <1>1, <1>2
  <2> QED
    BY <2>1, FS_EmptySet DEF StartsIn
<1> QED
  BY <1>1, <1>2, <1>3, <1>4, <1>5, <1>6, <1>7, <1>8, <1>9 DEF IInv, Kernel

(* Every step keeps it.                                                     *)
LEMMA NextKeeps ==
  ASSUME IInv, Asking, [Next]_vars
  PROVE  IInv'
<1>1. CASE EditorStep
  BY <1>1, EditorStepKeeps
<1>2. CASE Wake \/ AskEnds \/ TakeEvent \/ Answer
  BY <1>2, EditorActsKeeps
<1>3. CASE ManagerStep
  BY <1>3, ManagerStepKeeps
<1>4. CASE JoinEnds
  BY <1>4, JoinEndsKeeps
<1>5. ASSUME NEW id \in Ids, Read(id) \/ ServerTakes(id) \/ ServerAnswers(id) \/ ServerPushes(id) \/ ServerFails(id)
      PROVE  IInv'
  BY <1>5, ReadKeeps, ServerTakesKeeps, ServerAnswersKeeps, ServerPushesKeeps, ServerFailsKeeps
<1>6. CASE UNCHANGED vars
  BY <1>6 DEF vars, IInv
<1> QED
  BY <1>1, <1>2, <1>3, <1>4, <1>5, <1>6 DEF Next

(* The messages of a kind with an id: none, or one.                         *)
LEMMA OneOfThem ==
  ASSUME NEW S, NEW b \in BOOLEAN, b <=> S # {}, \A i, j \in S : i = j
  PROVE  Cardinality(S) = IF b THEN 1 ELSE 0
<1>1. CASE S = {}
  BY <1>1, FS_EmptySet
<1>2. CASE S # {}
  <2>1. PICK i : S = {i}
    BY <1>2
  <2> QED
    BY <1>2, <2>1, FS_Singleton
<1> QED
  BY <1>1, <1>2

(* A question that was kept is in one place.                                *)
LEMMA HeldOnce ==
  ASSUME IInv, NEW key \in DOMAIN man.pending, NEW id, NEW rid, key = <<id, rid>>, Listens(srv[id])
  PROVE  Holding(id, rid) = 1
<1>1. id \in Ids
  <2>1. id \in 0 .. man.next - 1 /\ man.next \in 0 .. Servers /\ Servers \in Nat
    BY LspAssumption DEF IInv, Kernel, ManTyped
  <2> QED
    BY <2>1 DEF Ids
<1>2. PICK sv, rs : sv = srv[id] /\ rs = reqs
  OBVIOUS
<1>3. OnceAt(sv, rs, id) /\ KeptAt(man, sv, rs, id)
  BY <1>1, <1>2 DEF IInv, Kernel, ServerOK
<1>4. rid \in Places(sv, rs, id)
  BY <1>2, <1>3 DEF KeptAt
<1> DEFINE In    == { i \in DOMAIN sv.in : sv.in[i].k = "request" /\ sv.in[i].rid = rid }
           Todo  == { q \in sv.todo : q.rid = rid }
           Out   == { i \in DOMAIN sv.out : sv.out[i].k = "response" /\ sv.out[i].rid = rid }
           Ahead == { i \in DOMAIN rs : /\ rs[i].k = "message" /\ rs[i].id = id
                                        /\ rs[i].msg.k = "response" /\ rs[i].msg.rid = rid }
<1>5. /\ (rid \in Rids(sv.in, "request") <=> In # {}) /\ (\A i, j \in In : i = j)
      /\ (rid \in TodoRids(sv.todo) <=> Todo # {}) /\ (\A i, j \in Todo : i = j)
      /\ (rid \in Rids(sv.out, "response") <=> Out # {}) /\ (\A i, j \in Out : i = j)
      /\ (rid \in ReqRids(rs, id) <=> Ahead # {}) /\ (\A i, j \in Ahead : i = j)
  <2>1. (rid \in Rids(sv.in, "request") <=> In # {}) /\ (\A i, j \in In : i = j)
    BY <1>3 DEF OnceAt, NoTwice, Rids
  <2>2. (rid \in TodoRids(sv.todo) <=> Todo # {}) /\ (\A i, j \in Todo : i = j)
    BY <1>3 DEF OnceAt, NoTwiceTodo, TodoRids
  <2>3. (rid \in Rids(sv.out, "response") <=> Out # {}) /\ (\A i, j \in Out : i = j)
    BY <1>3 DEF OnceAt, NoTwice, Rids
  <2>4. (rid \in ReqRids(rs, id) <=> Ahead # {}) /\ (\A i, j \in Ahead : i = j)
    BY <1>3 DEF OnceAt, NoTwiceReqs, ReqRids, IsAnswer, From
  <2> QED
    BY <2>1, <2>2, <2>3, <2>4
<1>6. Holding(id, rid) = Cardinality(In) + Cardinality(Todo) + Cardinality(Out) + Cardinality(Ahead)
  BY <1>2 DEF Holding
<1> HIDE DEF In, Todo, Out, Ahead
<1>7. /\ Cardinality(In) = IF rid \in Rids(sv.in, "request") THEN 1 ELSE 0
      /\ Cardinality(Todo) = IF rid \in TodoRids(sv.todo) THEN 1 ELSE 0
      /\ Cardinality(Out) = IF rid \in Rids(sv.out, "response") THEN 1 ELSE 0
      /\ Cardinality(Ahead) = IF rid \in ReqRids(rs, id) THEN 1 ELSE 0
  BY <1>5, OneOfThem
<1>8. /\ \/ rid \in Rids(sv.in, "request") \/ rid \in TodoRids(sv.todo)
         \/ rid \in Rids(sv.out, "response") \/ rid \in ReqRids(rs, id)
      /\ ~ (rid \in Rids(sv.in, "request") /\ rid \in TodoRids(sv.todo))
      /\ ~ (rid \in Rids(sv.in, "request") /\ rid \in Rids(sv.out, "response"))
      /\ ~ (rid \in Rids(sv.in, "request") /\ rid \in ReqRids(rs, id))
      /\ ~ (rid \in TodoRids(sv.todo) /\ rid \in Rids(sv.out, "response"))
      /\ ~ (rid \in TodoRids(sv.todo) /\ rid \in ReqRids(rs, id))
      /\ ~ (rid \in Rids(sv.out, "response") /\ rid \in ReqRids(rs, id))
  BY <1>3, <1>4 DEF OnceAt, Places
<1> QED
  BY ONLY <1>6, <1>7, <1>8

(* The invariant gives the manager's bookkeeping.                           *)
LEMMA InvGives == IInv => LspInv
<1> SUFFICES ASSUME IInv PROVE LspInv
  OBVIOUS
<1>1. ManTyped(man) /\ EdTyped(ed) /\ ReqsTyped(reqs) /\ \A id \in Ids : ServerOK(man, srv[id], reqs, id)
  BY DEF IInv, Kernel
<1>2. TypeOK
  BY <1>1 DEF TypeOK, ManTyped, EdTyped, Buffers
<1>3. ASSUME NEW i \in DOMAIN reqs, reqs[i].k = "message", reqs[i].msg.k = "response",
             <<reqs[i].id, reqs[i].msg.rid>> \in DOMAIN man.pending
      PROVE  LET key == <<reqs[i].id, reqs[i].msg.rid>>
             IN  /\ man.pending[key].m = reqs[i].msg.m
                 /\ man.pending[key].d = reqs[i].msg.d /\ man.pending[key].v = reqs[i].msg.v
  <2>1. PICK id, msg : id = reqs[i].id /\ msg = reqs[i].msg
    OBVIOUS
  <2>2. id \in Ids
    BY <1>1, <1>3, <2>1 DEF ReqsTyped, OnChannel, Wish
  <2>3. Matches(man, id, msg)
    BY <1>1, <1>3, <2>1, <2>2 DEF ServerOK, MatchedAt, IsAnswer, From
  <2> QED
    BY <1>3, <2>1, <2>3 DEF Matches
<1>4. ASSUME NEW key \in DOMAIN man.pending, srv[key[1]].st = "up", srv[key[1]].reader = "up",
             \A i \in DOMAIN srv[key[1]].out : srv[key[1]].out[i].k # "garbage"
      PROVE  Holding(key[1], key[2]) = 1
  <2>1. key = <<key[1], key[2]>>
    BY <1>1 DEF ManTyped
  <2>2. Listens(srv[key[1]])
    BY <1>4 DEF Listens
  <2> QED
    BY <2>1, <2>2, HeldOnce
<1>5. AnswersMatched
  BY <1>3, <1>4 DEF AnswersMatched
<1>6. ProgressTitled
  BY <1>1 DEF ProgressTitled, ManTyped
<1> QED
  BY <1>2, <1>5, <1>6 DEF LspInv

(* The manager's bookkeeping over servers that start, crash and are stopped *)
(* (manager_proc): its maps fit together, an answer is acted on with the    *)
(* question that it answers, a question to a server that is there is in one *)
(* place, and progress is shown under the title of the server that made it. *)
THEOREM LspInvariant == Spec => []LspInv
<1>1. Init => IInv /\ Asking
  BY InitKeeps DEF Init, Asking
<1>2. IInv /\ Asking /\ [Next]_vars => IInv' /\ Asking'
  BY NextKeeps, AskingKeeps
<1>3. IInv => LspInv
  BY InvGives
<1> QED
  BY <1>1, <1>2, <1>3, PTL DEF Spec

----------------------------------------------------------------------------
(* What a server knows of documents.  A claim about a document is that the  *)
(* server has it open, or that it has a content: a message makes it or      *)
(* breaks it, the manager passes messages on in order, and so does the pipe.*)

SyncKinds == {"didOpen", "didChange", "didClose"}
Opened == -1

Makes(msg, d, c) ==
    /\ msg.d = d
    /\ IF c = Opened THEN msg.m = "didOpen" ELSE msg.m \in {"didOpen", "didChange"} /\ msg.v = c
Breaks(msg, d, c) == msg.d = d /\ IF c = Opened THEN msg.m = "didClose" ELSE msg.m \in SyncKinds

(* what is on the channel for a server, and NoId stands for a pipe, where   *)
(* everything is for its server                                             *)
For(r, id) == id = NoId \/ (r.k = "notify" /\ r.id = id)

MakesIn(q, id, d, c)  == { i \in DOMAIN q : For(q[i], id) /\ Makes(q[i], d, c) }
BreaksIn(q, id, d, c) == { i \in DOMAIN q : For(q[i], id) /\ Breaks(q[i], d, c) }

(* at n, a claim has been made and not broken; first says that it was so    *)
(* before q                                                                 *)
Holds(q, id, d, c, n, first) ==
    \/ BegunIn(MakesIn(q, id, d, c), BreaksIn(q, id, d, c), n)
    \/ first /\ Untouched(BreaksIn(q, id, d, c), n)

(* The places of what makes and breaks a claim.                             *)
LEMMA ClaimPlaces ==
  ASSUME NEW q, IsSeq(q), NEW id, NEW d, NEW c
  PROVE  /\ MakesIn(q, id, d, c) \in SUBSET (Nat \ {0}) /\ BreaksIn(q, id, d, c) \in SUBSET (Nat \ {0})
         /\ \A i \in MakesIn(q, id, d, c) \cup BreaksIn(q, id, d, c) : i <= Len(q)
<1>1. Len(q) \in Nat /\ DOMAIN q = 1 .. Len(q)
  BY SeqFacts
<1> QED
  BY ONLY <1>1 DEF MakesIn, BreaksIn

(* The first message is taken: it made the claim, or did not break it.      *)
LEMMA HoldsTail ==
  ASSUME NEW q, IsSeq(q), q # <<>>, NEW id, NEW d, NEW c, NEW n \in Nat, n >= 2,
         NEW b \in BOOLEAN, NEW b2 \in BOOLEAN, Holds(q, id, d, c, n, b),
         (For(Head(q), id) /\ Makes(Head(q), d, c)) => b2,
         (b /\ ~ (For(Head(q), id) /\ Breaks(Head(q), d, c))) => b2
  PROVE  Holds(Tail(q), id, d, c, n - 1, b2)
<1> DEFINE B == MakesIn(q, id, d, c)
           E == BreaksIn(q, id, d, c)
           r == Tail(q)
<1>1. B \in SUBSET (Nat \ {0}) /\ E \in SUBSET (Nat \ {0})
  BY ClaimPlaces
<1>2. /\ Len(q) \in Nat \ {0} /\ DOMAIN q = 1 .. Len(q) /\ DOMAIN r = 1 .. Len(q) - 1
      /\ \A i \in 1 .. Len(q) - 1 : r[i] = q[i + 1]
      /\ Head(q) = q[1] /\ 1 \in DOMAIN q
  BY SeqTail
<1> HIDE DEF r
<1>3. /\ \A i \in DOMAIN r : i \in Int /\ i + 1 \in DOMAIN q /\ i + 1 # 1 /\ r[i] = q[i + 1] /\ (i + 1) - 1 = i
      /\ \A i \in DOMAIN q : i # 1 => i - 1 \in DOMAIN r /\ r[i - 1] = q[i]
  BY ONLY <1>2
<1>4. MakesIn(r, id, d, c) = Down(B)
  BY ONLY <1>3 DEF MakesIn, Down
<1>5. BreaksIn(r, id, d, c) = Down(E)
  BY ONLY <1>3 DEF BreaksIn, Down
<1>6. /\ 1 \in B <=> (For(Head(q), id) /\ Makes(Head(q), d, c))
      /\ 1 \in E <=> (For(Head(q), id) /\ Breaks(Head(q), d, c))
  BY ONLY <1>2 DEF MakesIn, BreaksIn
<1>7. BegunIn(B, E, n) \/ (b /\ Untouched(E, n))
  BY DEF Holds
<1> HIDE DEF B, E
<1>8. CASE BegunIn(B, E, n)
  <2>1. BegunIn(Down(B), Down(E), n - 1) \/ (1 \in B /\ Untouched(Down(E), n - 1))
    BY ONLY <1>1, <1>8, OpenDown, n \in Nat, n >= 2
  <2> QED
    BY <2>1, <1>4, <1>5, <1>6 DEF Holds, r
<1>9. CASE b /\ Untouched(E, n)
  <2>1. Untouched(Down(E), n - 1) /\ 1 \notin E
    BY ONLY <1>1, <1>9, OpenDown, n \in Nat, n >= 2
  <2> QED
    BY <2>1, <1>9, <1>4, <1>5, <1>6 DEF Holds, r
<1> QED
  BY <1>7, <1>8, <1>9

(* The sequence is longer: what held at a place holds there.                *)
LEMMA HoldsLonger ==
  ASSUME NEW q, IsSeq(q), NEW more, IsSeq(more), NEW id, NEW d, NEW c, NEW n \in Nat, n < Len(q) + 2,
         NEW b \in BOOLEAN, NEW b2 \in BOOLEAN, Holds(q, id, d, c, n, b), b => b2
  PROVE  Holds(q \o more, id, d, c, n, b2)
<1> DEFINE r == q \o more
<1>1. /\ IsSeq(r) /\ Len(q) \in Nat /\ Len(more) \in Nat /\ DOMAIN q = 1 .. Len(q)
      /\ DOMAIN r = 1 .. Len(q) + Len(more) /\ \A j \in 1 .. Len(q) : r[j] = q[j]
  BY SeqConcat
<1>2. /\ MakesIn(q, id, d, c) \in SUBSET Nat /\ BreaksIn(q, id, d, c) \in SUBSET Nat
      /\ MakesIn(r, id, d, c) \in SUBSET Nat /\ BreaksIn(r, id, d, c) \in SUBSET Nat
  BY <1>1, ClaimPlaces
<1> HIDE DEF r
<1>3. \A i \in Nat : i < n => (i \in DOMAIN q <=> i \in DOMAIN r) /\ (i \in DOMAIN q => r[i] = q[i])
  BY ONLY <1>1, n \in Nat, n < Len(q) + 2
<1>4. \A i \in Nat : i < n => /\ i \in MakesIn(q, id, d, c) <=> i \in MakesIn(r, id, d, c)
                              /\ i \in BreaksIn(q, id, d, c) <=> i \in BreaksIn(r, id, d, c)
  BY ONLY <1>3 DEF MakesIn, BreaksIn
<1>5. /\ BegunIn(MakesIn(q, id, d, c), BreaksIn(q, id, d, c), n)
           => BegunIn(MakesIn(r, id, d, c), BreaksIn(r, id, d, c), n)
      /\ Untouched(BreaksIn(q, id, d, c), n) => Untouched(BreaksIn(r, id, d, c), n)
  BY ONLY <1>2, <1>4, OpenBefore, n \in Nat
<1> QED
  BY <1>5 DEF Holds, r

(* It holds past what does not break it, and past what makes it.            *)
LEMMA HoldsPast ==
  ASSUME NEW q, IsSeq(q), NEW e, NEW id, NEW d, NEW c, NEW b \in BOOLEAN,
         \/ Holds(q, id, d, c, Len(q) + 1, b) /\ ~ (For(e, id) /\ Breaks(e, d, c))
         \/ For(e, id) /\ Makes(e, d, c)
  PROVE  Holds(Append(q, e), id, d, c, Len(q) + 2, b)
<1> DEFINE r == Append(q, e)
           n == Len(q) + 1
           B == MakesIn(r, id, d, c)
           E == BreaksIn(r, id, d, c)
<1>1. IsSeq(r) /\ n \in Nat /\ n \in DOMAIN r /\ r[n] = e /\ n < Len(q) + 2 /\ n + 1 = Len(q) + 2
  BY SeqAppend
<1>2. B \in SUBSET Nat /\ E \in SUBSET Nat
  BY <1>1, ClaimPlaces
<1>3. /\ n \in B <=> (For(e, id) /\ Makes(e, d, c))
      /\ n \in E <=> (For(e, id) /\ Breaks(e, d, c))
  BY <1>1 DEF MakesIn, BreaksIn
<1>4. Holds(q, id, d, c, n, b) => Holds(r, id, d, c, n, b)
  <2>1. r = q \o <<e>> /\ IsSeq(<<e>>)
    BY AppendIsConcat, OneMessage
  <2> HIDE DEF r, n
  <2> SUFFICES ASSUME Holds(q, id, d, c, n, b) PROVE Holds(r, id, d, c, n, b)
    OBVIOUS
  <2>2. Holds(q \o <<e>>, id, d, c, n, b)
    BY ONLY <1>1, <2>1, Holds(q, id, d, c, n, b), IsSeq(q), b \in BOOLEAN, HoldsLonger
  <2> QED
    BY ONLY <2>1, <2>2
<1> HIDE DEF r, n, B, E
<1>5. /\ (BegunIn(B, E, n) /\ n \notin E) => BegunIn(B, E, n + 1)
      /\ (Untouched(E, n) /\ n \notin E) => Untouched(E, n + 1)
      /\ n \in B => BegunIn(B, E, n + 1)
  BY ONLY <1>1, <1>2, OpenPast
<1>6. (Holds(r, id, d, c, n, b) /\ n \notin E) \/ n \in B
  BY <1>3, <1>4 DEF n
<1>7. Holds(r, id, d, c, n + 1, b)
  BY ONLY <1>5, <1>6 DEF Holds, B, E
<1> QED
  BY <1>1, <1>7 DEF r

(* It holds past more that does not break it.                               *)
LEMMA HoldsPastAll ==
  ASSUME NEW q, IsSeq(q), NEW more, IsSeq(more), NEW id, NEW d, NEW c, NEW b \in BOOLEAN, NEW b2 \in BOOLEAN,
         Holds(q, id, d, c, Len(q) + 1, b), b => b2,
         \A i \in DOMAIN more : ~ (For(more[i], id) /\ Breaks(more[i], d, c))
  PROVE  Holds(q \o more, id, d, c, Len(q \o more) + 1, b2)
<1> DEFINE r == q \o more
           B == MakesIn(r, id, d, c)
           E == BreaksIn(r, id, d, c)
           n == Len(q) + 1
<1>1. Len(q) \in Nat /\ Len(r) \in Nat /\ Len(r) = Len(q) + Len(more) /\ IsSeq(r) /\ Len(more) \in Nat
  BY SeqConcat, SeqFacts
<1>2. Holds(r, id, d, c, n, b2)
  <2>1. n \in Nat /\ n < Len(q) + 2
    BY <1>1
  <2> QED
    BY <2>1, HoldsLonger
<1>3. ASSUME NEW i \in E PROVE i < n
  <2>1. i \in DOMAIN r /\ For(r[i], id) /\ Breaks(r[i], d, c)
    BY DEF BreaksIn
  <2>2. (i \in DOMAIN q /\ r[i] = q[i]) \/ (i - Len(q) \in DOMAIN more /\ r[i] = more[i - Len(q)] /\ i > Len(q))
    BY <2>1, ValuesConcat
  <2>3. i \in DOMAIN q
    BY <2>1, <2>2
  <2> QED
    BY <2>3, SeqFacts
<1>4. E \in SUBSET Nat /\ B \in SUBSET Nat
  BY <1>1, ClaimPlaces
<1> HIDE DEF r, B, E, n
<1>5. BegunIn(B, E, n) \/ (b2 /\ Untouched(E, n))
  BY <1>2 DEF Holds, B, E
<1>6. n \in Nat /\ Len(r) + 1 \in Nat /\ n <= Len(r) + 1
  BY ONLY <1>1 DEF n
<1>7. BegunIn(B, E, n) => BegunIn(B, E, Len(r) + 1)
  <2>1. SUFFICES ASSUME BegunIn(B, E, n) PROVE BegunIn(B, E, Len(r) + 1)
    OBVIOUS
  <2>2. PICK i \in B : i < n /\ \A j \in E : i < j => n <= j
    BY <2>1 DEF BegunIn
  <2>3. i < Len(r) + 1 /\ \A j \in E : i < j => Len(r) + 1 <= j
    BY <2>2, <1>3, <1>4, <1>6
  <2> QED
    BY <2>2, <2>3 DEF BegunIn
<1>8. Untouched(E, n) => Untouched(E, Len(r) + 1)
  BY <1>3, <1>4, <1>6 DEF Untouched
<1> QED
  BY <1>5, <1>7, <1>8 DEF Holds, r, B, E

(* Where nothing came before, it held first.                                *)
LEMMA HoldsAtOne ==
  ASSUME NEW q, IsSeq(q), NEW id, NEW d, NEW c, NEW b \in BOOLEAN, Holds(q, id, d, c, 1, b)
  PROVE  b
<1>1. MakesIn(q, id, d, c) \in SUBSET (Nat \ {0})
  BY ClaimPlaces
<1>2. ~ BegunIn(MakesIn(q, id, d, c), BreaksIn(q, id, d, c), 1)
  BY <1>1 DEF BegunIn
<1> QED
  BY <1>2 DEF Holds

(* It depends on what was first no more than that.                          *)
LEMMA HoldsFirst ==
  ASSUME NEW q, NEW id, NEW d, NEW c, NEW n, NEW b \in BOOLEAN, NEW b2 \in BOOLEAN, b => b2, Holds(q, id, d, c, n, b)
  PROVE  Holds(q, id, d, c, n, b2)
BY DEF Holds

(* a server has it so, in its pipe before the nth message, and so will it   *)
(* be when the manager gets to the nth message of the channel               *)
Has(sv, d, c) == IF c = Opened THEN sv.has[d] # -1 ELSE sv.has[d] = c
InSure(sv, d, n, c) == Holds(sv.in, NoId, d, c, n, Has(sv, d, c))
EndSure(sv, d, c)   == InSure(sv, d, Len(sv.in) + 1, c)
ReqSure(sv, rs, id, d, n, c) == Holds(rs, id, d, c, n, EndSure(sv, d, c))

(* These are claims.                                                        *)
LEMMA SureIsBoolean ==
  ASSUME NEW sv, NEW d, NEW c
  PROVE  Has(sv, d, c) \in BOOLEAN /\ EndSure(sv, d, c) \in BOOLEAN
BY DEF Has, EndSure, InSure, Holds

(* More is written to a server.                                             *)
LEMMA PipeLonger ==
  ASSUME NEW sv, IsSeq(sv.in), NEW more, IsSeq(more), NEW sv2, sv2.in = sv.in \o more, sv2.has = sv.has,
         NEW d, NEW c
  PROVE  /\ \A n \in Nat : (n < Len(sv.in) + 2 /\ InSure(sv, d, n, c)) => InSure(sv2, d, n, c)
         /\ (EndSure(sv, d, c) /\ \A i \in DOMAIN more : ~ Breaks(more[i], d, c)) => EndSure(sv2, d, c)
<1>1. Has(sv2, d, c) = Has(sv, d, c) /\ Has(sv, d, c) \in BOOLEAN
  BY DEF Has
<1>2. ASSUME NEW n \in Nat, n < Len(sv.in) + 2, InSure(sv, d, n, c)
      PROVE  InSure(sv2, d, n, c)
  <2>1. Holds(sv.in, NoId, d, c, n, Has(sv, d, c))
    BY <1>2 DEF InSure
  <2>2. Holds(sv.in \o more, NoId, d, c, n, Has(sv, d, c))
    BY ONLY <1>1, <1>2, <2>1, HoldsLonger, IsSeq(sv.in), IsSeq(more)
  <2> QED
    BY <2>2, <1>1 DEF InSure
<1>3. ASSUME EndSure(sv, d, c), \A i \in DOMAIN more : ~ Breaks(more[i], d, c)
      PROVE  EndSure(sv2, d, c)
  <2>1. Holds(sv.in, NoId, d, c, Len(sv.in) + 1, Has(sv, d, c))
    BY <1>3 DEF EndSure, InSure
  <2>2. Holds(sv.in \o more, NoId, d, c, Len(sv.in \o more) + 1, Has(sv, d, c))
    BY ONLY <1>1, <1>3, <2>1, HoldsPastAll, IsSeq(sv.in), IsSeq(more)
  <2> QED
    BY <2>2, <1>1 DEF InSure, EndSure
<1> QED
  BY <1>2, <1>3

(* A message is written to it that makes or does not break the claim.       *)
LEMMA PipeMessage ==
  ASSUME NEW sv, IsSeq(sv.in), NEW msg, NEW sv2, sv2.in = Append(sv.in, msg), sv2.has = sv.has, NEW d, NEW c,
         (EndSure(sv, d, c) /\ ~ Breaks(msg, d, c)) \/ Makes(msg, d, c)
  PROVE  EndSure(sv2, d, c)
<1>1. Has(sv2, d, c) = Has(sv, d, c) /\ Has(sv, d, c) \in BOOLEAN
  BY DEF Has
<1>2. For(msg, NoId)
  BY DEF For
<1>3. \/ Holds(sv.in, NoId, d, c, Len(sv.in) + 1, Has(sv, d, c)) /\ ~ (For(msg, NoId) /\ Breaks(msg, d, c))
      \/ For(msg, NoId) /\ Makes(msg, d, c)
  BY <1>2 DEF EndSure, InSure
<1>4. Holds(Append(sv.in, msg), NoId, d, c, Len(sv.in) + 2, Has(sv, d, c))
  BY ONLY <1>1, <1>3, HoldsPast, IsSeq(sv.in)
<1>5. Len(sv2.in) + 1 = Len(sv.in) + 2
  BY SeqAppend
<1> QED
  BY <1>1, <1>4, <1>5 DEF EndSure, InSure

(* The server takes the first message.                                      *)
LEMMA PipeTaken ==
  ASSUME NEW sv, IsSeq(sv.in), sv.in # <<>>, NEW sv2, sv2.in = Tail(sv.in), NEW d, NEW c, NEW n \in Nat, n >= 2,
         InSure(sv, d, n, c), Makes(Head(sv.in), d, c) => Has(sv2, d, c),
         (Has(sv, d, c) /\ ~ Breaks(Head(sv.in), d, c)) => Has(sv2, d, c)
  PROVE  InSure(sv2, d, n - 1, c)
<1>1. Has(sv2, d, c) \in BOOLEAN /\ Has(sv, d, c) \in BOOLEAN
  BY DEF Has
<1>2. For(Head(sv.in), NoId)
  BY DEF For
<1>3. Holds(sv.in, NoId, d, c, n, Has(sv, d, c))
  BY DEF InSure
<1>4. Holds(Tail(sv.in), NoId, d, c, n - 1, Has(sv2, d, c))
  <2>1. /\ (For(Head(sv.in), NoId) /\ Makes(Head(sv.in), d, c)) => Has(sv2, d, c)
        /\ (Has(sv, d, c) /\ ~ (For(Head(sv.in), NoId) /\ Breaks(Head(sv.in), d, c))) => Has(sv2, d, c)
    BY <1>2
  <2> QED
    BY ONLY <1>1, <1>3, <2>1, HoldsTail, IsSeq(sv.in), sv.in # <<>>, n \in Nat, n >= 2
<1> QED
  BY <1>4 DEF InSure

(* The channel is longer.                                                   *)
LEMMA ReqLonger ==
  ASSUME NEW sv, NEW rs, IsSeq(rs), NEW more, IsSeq(more), NEW id, NEW d, NEW c
  PROVE  /\ \A n \in Nat : (n < Len(rs) + 2 /\ ReqSure(sv, rs, id, d, n, c)) => ReqSure(sv, rs \o more, id, d, n, c)
         /\ (/\ ReqSure(sv, rs, id, d, Len(rs) + 1, c)
             /\ \A i \in DOMAIN more : ~ (For(more[i], id) /\ Breaks(more[i], d, c)))
              => ReqSure(sv, rs \o more, id, d, Len(rs \o more) + 1, c)
<1>1. EndSure(sv, d, c) \in BOOLEAN
  BY SureIsBoolean
<1>2. ASSUME NEW n \in Nat, n < Len(rs) + 2, ReqSure(sv, rs, id, d, n, c)
      PROVE  ReqSure(sv, rs \o more, id, d, n, c)
  <2>1. Holds(rs, id, d, c, n, EndSure(sv, d, c))
    BY <1>2 DEF ReqSure
  <2>2. Holds(rs \o more, id, d, c, n, EndSure(sv, d, c))
    BY ONLY <1>1, <1>2, <2>1, HoldsLonger, IsSeq(rs), IsSeq(more)
  <2> QED
    BY <2>2 DEF ReqSure
<1>3. ASSUME ReqSure(sv, rs, id, d, Len(rs) + 1, c),
             \A i \in DOMAIN more : ~ (For(more[i], id) /\ Breaks(more[i], d, c))
      PROVE  ReqSure(sv, rs \o more, id, d, Len(rs \o more) + 1, c)
  <2>1. Holds(rs, id, d, c, Len(rs) + 1, EndSure(sv, d, c))
    BY <1>3 DEF ReqSure
  <2>2. Holds(rs \o more, id, d, c, Len(rs \o more) + 1, EndSure(sv, d, c))
    BY ONLY <1>1, <1>3, <2>1, HoldsPastAll, IsSeq(rs), IsSeq(more)
  <2> QED
    BY <2>2 DEF ReqSure
<1> QED
  BY <1>2, <1>3

(* A message is put on it that makes or does not break the claim.           *)
LEMMA ReqMessage ==
  ASSUME NEW sv, NEW rs, IsSeq(rs), NEW e, NEW id, NEW d, NEW c,
         \/ ReqSure(sv, rs, id, d, Len(rs) + 1, c) /\ ~ (For(e, id) /\ Breaks(e, d, c))
         \/ For(e, id) /\ Makes(e, d, c)
  PROVE  ReqSure(sv, Append(rs, e), id, d, Len(Append(rs, e)) + 1, c)
<1>1. EndSure(sv, d, c) \in BOOLEAN
  BY SureIsBoolean
<1>2. \/ Holds(rs, id, d, c, Len(rs) + 1, EndSure(sv, d, c)) /\ ~ (For(e, id) /\ Breaks(e, d, c))
      \/ For(e, id) /\ Makes(e, d, c)
  BY DEF ReqSure
<1>3. Holds(Append(rs, e), id, d, c, Len(rs) + 2, EndSure(sv, d, c))
  BY ONLY <1>1, <1>2, HoldsPast, IsSeq(rs)
<1>4. Len(Append(rs, e)) + 1 = Len(rs) + 2
  BY SeqAppend
<1> QED
  BY <1>3, <1>4 DEF ReqSure

(* The manager takes the first message, and may have passed it on.          *)
LEMMA ReqTaken ==
  ASSUME NEW sv, NEW sv2, NEW rs, IsSeq(rs), rs # <<>>, NEW id, NEW d, NEW c, NEW n \in Nat, n >= 2,
         ReqSure(sv, rs, id, d, n, c), (For(Head(rs), id) /\ Makes(Head(rs), d, c)) => EndSure(sv2, d, c),
         (EndSure(sv, d, c) /\ ~ (For(Head(rs), id) /\ Breaks(Head(rs), d, c))) => EndSure(sv2, d, c)
  PROVE  ReqSure(sv2, Tail(rs), id, d, n - 1, c)
<1>1. EndSure(sv, d, c) \in BOOLEAN /\ EndSure(sv2, d, c) \in BOOLEAN
  BY SureIsBoolean
<1>2. Holds(rs, id, d, c, n, EndSure(sv, d, c))
  BY DEF ReqSure
<1>3. Holds(Tail(rs), id, d, c, n - 1, EndSure(sv2, d, c))
  BY ONLY <1>1, <1>2, HoldsTail, IsSeq(rs), rs # <<>>, n \in Nat, n >= 2,
          (For(Head(rs), id) /\ Makes(Head(rs), d, c)) => EndSure(sv2, d, c),
          (EndSure(sv, d, c) /\ ~ (For(Head(rs), id) /\ Breaks(Head(rs), d, c))) => EndSure(sv2, d, c)
<1> QED
  BY <1>3 DEF ReqSure

(* The server changes, and does not lose what it is sure of.                *)
LEMMA ReqServer ==
  ASSUME NEW sv, NEW sv2, NEW rs, NEW id, NEW d, NEW c, NEW n, ReqSure(sv, rs, id, d, n, c),
         EndSure(sv, d, c) => EndSure(sv2, d, c)
  PROVE  ReqSure(sv2, rs, id, d, n, c)
<1>1. EndSure(sv, d, c) \in BOOLEAN /\ EndSure(sv2, d, c) \in BOOLEAN
  BY SureIsBoolean
<1> QED
  BY <1>1, HoldsFirst DEF ReqSure

----------------------------------------------------------------------------
(* The invariant of what servers know.  A question finds its document open  *)
(* in the server, with the text that it was asked about, and so would one   *)
(* that is asked next, unless the editor has noted that it would not.       *)

Asks(msg)  == msg.k = "request" /\ msg.m \in Questions /\ msg.v # -1
Tells(msg) == msg.k = "notify" /\ msg.d \in Docs /\ msg.v \in Nat

PipeSure(sv) ==
    /\ sv.has \in [Docs -> Nat \cup {-1}]
    /\ \A k \in DOMAIN sv.in : sv.in[k].m \in SyncKinds => Tells(sv.in[k])
    /\ \A k \in DOMAIN sv.in : Asks(sv.in[k]) =>
         /\ sv.in[k].d \in Docs /\ sv.in[k].v \in Nat
         /\ InSure(sv, sv.in[k].d, k, Opened) /\ InSure(sv, sv.in[k].d, k, sv.in[k].v)

ReqsSure(sv, rs, id) ==
    \A k \in DOMAIN rs : (Asks(rs[k]) /\ rs[k].id = id) =>
        /\ rs[k].d \in Docs /\ rs[k].v \in Nat
        /\ ReqSure(sv, rs, id, rs[k].d, k, Opened) /\ ReqSure(sv, rs, id, rs[k].d, k, rs[k].v)

(* the buffers that the editor reports to a server *)
ReportedTo(m, w, id) == { d \in w.open \ w.unopened : m.caps[FtypeOf[d]] = id }
EditorSure(m, sv, rs, id, w) ==
    \A d \in ReportedTo(m, w, id) :
        /\ ReqSure(sv, rs, id, d, Len(rs) + 1, Opened)
        /\ (d \notin w.stale /\ ~ w.dirty[d]) => ReqSure(sv, rs, id, d, Len(rs) + 1, w.txt[d])

There(m, sv, id) == id \in DOMAIN m.clients /\ sv.st = "up"
SureAt(m, sv, rs, id, w) ==
    PipeSure(sv) /\ (There(m, sv, id) => ReqsSure(sv, rs, id) /\ EditorSure(m, sv, rs, id, w))

(* what is on the channel for a server was sent when the server was running,*)
(* and a server is not asked for anything before it is                      *)
Numbers(docs) == \A d \in DOMAIN docs : docs[d] \in Nat
Addressed(m, r) ==
    /\ r.k = "start" => r.f \in Ftypes /\ Numbers(r.docs)
    /\ r.k = "notify" => r.m \in SyncKinds \cup {"didSave"} /\ Tells(r)
    /\ (r.k = "notify" \/ Asks(r)) =>
         /\ r.id \in 0 .. m.next - 1
         /\ r.id \in DOMAIN m.clients => m.clients[r.id].status = "Running"

Starting(m) ==
    \A key \in DOMAIN m.pending : m.pending[key].m = "initialize" =>
        /\ key[2] = 0 /\ m.pending[key].f \in Ftypes /\ Numbers(m.pending[key].docs)
        /\ key[1] \in DOMAIN m.clients => m.clients[key[1]].status = "Initializing"

Contents(w) ==
    /\ w.txt \in [Docs -> Nat] /\ w.disk \in [Docs -> Nat] /\ w.fresh \in Nat
    /\ w.dirty \in [Docs -> BOOLEAN] /\ w.log \in [Docs -> Seq(Nat)]

Sync(m, s, rs, w) ==
    /\ \A id \in Ids : SureAt(m, s[id], rs, id, w)
    /\ \A k \in DOMAIN rs : Addressed(m, rs[k])
    /\ Starting(m) /\ Contents(w)

----------------------------------------------------------------------------
(* What a server is sure of.                                                *)

(* Servers are not NoId.                                                    *)
LEMMA IdsAreServers == NoId \notin Ids /\ \A id \in Ids : id # NoId
BY LspAssumption DEF Ids, NoId

(* More is written to a server that asks nothing.                           *)
LEMMA PipeSureMore ==
  ASSUME NEW sv, IsSeq(sv.in), PipeSure(sv), NEW more, IsSeq(more), NEW sv2, sv2.in = sv.in \o more, sv2.has = sv.has,
         \A i \in DOMAIN more : ~ Asks(more[i]) /\ (more[i].m \in SyncKinds => Tells(more[i]))
  PROVE  PipeSure(sv2)
<1>1. Len(sv.in) \in Nat /\ DOMAIN sv.in = 1 .. Len(sv.in)
  BY SeqFacts
<1>2. sv2.has \in [Docs -> Nat \cup {-1}]
  BY DEF PipeSure
<1>3. ASSUME NEW k \in DOMAIN sv2.in
      PROVE  (k \in DOMAIN sv.in /\ sv2.in[k] = sv.in[k])
             \/ (~ Asks(sv2.in[k]) /\ (sv2.in[k].m \in SyncKinds => Tells(sv2.in[k])))
  <2>1. (k \in DOMAIN sv.in /\ (sv.in \o more)[k] = sv.in[k])
        \/ (k - Len(sv.in) \in DOMAIN more /\ (sv.in \o more)[k] = more[k - Len(sv.in)] /\ k > Len(sv.in))
    BY ValuesConcat
  <2> QED
    BY <2>1
<1>4. \A k \in DOMAIN sv2.in : sv2.in[k].m \in SyncKinds => Tells(sv2.in[k])
  BY <1>3 DEF PipeSure
<1>5. ASSUME NEW k \in DOMAIN sv2.in, Asks(sv2.in[k])
      PROVE  /\ sv2.in[k].d \in Docs /\ sv2.in[k].v \in Nat
             /\ InSure(sv2, sv2.in[k].d, k, Opened) /\ InSure(sv2, sv2.in[k].d, k, sv2.in[k].v)
  <2>1. k \in DOMAIN sv.in /\ sv2.in[k] = sv.in[k]
    BY <1>3, <1>5
  <2>2. /\ sv.in[k].d \in Docs /\ sv.in[k].v \in Nat
        /\ InSure(sv, sv.in[k].d, k, Opened) /\ InSure(sv, sv.in[k].d, k, sv.in[k].v)
    BY <1>5, <2>1 DEF PipeSure
  <2>3. k \in Nat /\ k < Len(sv.in) + 2
    BY <1>1, <2>1
  <2>4. \A d, c : InSure(sv, d, k, c) => InSure(sv2, d, k, c)
    BY <2>3, PipeLonger
  <2> QED
    BY <2>1, <2>2, <2>4
<1> QED
  BY <1>2, <1>4, <1>5 DEF PipeSure

(* It is asked something that it is sure of.                                *)
LEMMA PipeSureAsked ==
  ASSUME NEW sv, IsSeq(sv.in), PipeSure(sv), NEW msg, NEW sv2, sv2.in = Append(sv.in, msg), sv2.has = sv.has,
         msg.m \notin SyncKinds,
         Asks(msg) => /\ msg.d \in Docs /\ msg.v \in Nat
                      /\ EndSure(sv, msg.d, Opened) /\ EndSure(sv, msg.d, msg.v)
  PROVE  PipeSure(sv2)
<1>1. Len(sv.in) \in Nat /\ DOMAIN sv.in = 1 .. Len(sv.in)
  BY SeqFacts
<1>2. sv2.has \in [Docs -> Nat \cup {-1}]
  BY DEF PipeSure
<1>3. \A k \in DOMAIN sv2.in : (k \in DOMAIN sv.in /\ sv2.in[k] = sv.in[k]) \/ (k = Len(sv.in) + 1 /\ sv2.in[k] = msg)
  BY ValuesAppend
<1>4. \A k \in DOMAIN sv2.in : sv2.in[k].m \in SyncKinds => Tells(sv2.in[k])
  BY <1>3 DEF PipeSure
<1>5. ASSUME NEW d, NEW c, NEW k \in Nat, k < Len(sv.in) + 2, InSure(sv, d, k, c) PROVE InSure(sv2, d, k, c)
  <2>1. PICK one : one = <<msg>>
    OBVIOUS
  <2>2. Append(sv.in, msg) = sv.in \o one /\ IsSeq(one)
    BY <2>1, AppendOne
  <2>3. sv2.in = sv.in \o one
    BY <2>2
  <2> QED
    BY <1>5, <2>2, <2>3, PipeLonger
<1>6. ASSUME NEW k \in DOMAIN sv2.in, Asks(sv2.in[k])
      PROVE  /\ sv2.in[k].d \in Docs /\ sv2.in[k].v \in Nat
             /\ InSure(sv2, sv2.in[k].d, k, Opened) /\ InSure(sv2, sv2.in[k].d, k, sv2.in[k].v)
  <2>1. /\ sv2.in[k].d \in Docs /\ sv2.in[k].v \in Nat
        /\ InSure(sv, sv2.in[k].d, k, Opened) /\ InSure(sv, sv2.in[k].d, k, sv2.in[k].v)
    BY <1>3, <1>6 DEF PipeSure, EndSure
  <2>2. k \in Nat /\ k < Len(sv.in) + 2
    BY <1>1, <1>3
  <2> QED
    BY <1>5, <2>1, <2>2
<1> QED
  BY <1>2, <1>4, <1>6 DEF PipeSure

(* what the request says of documents is passed on to server id *)
PassedOn(sv, sv2, r, id) ==
    \A d, c : /\ (For(r, id) /\ Makes(r, d, c)) => EndSure(sv2, d, c)
              /\ (EndSure(sv, d, c) /\ ~ (For(r, id) /\ Breaks(r, d, c))) => EndSure(sv2, d, c)

(* The manager takes a request from the channel, and passes on what tells   *)
(* of documents.                                                            *)
LEMMA SureTaken ==
  ASSUME NEW m, NEW m2, NEW sv, NEW sv2, NEW rs, IsSeq(rs), rs # <<>>, NEW id, NEW w, SureAt(m, sv, rs, id, w),
         PipeSure(sv2), There(m2, sv2, id) => There(m, sv, id), m2.caps = m.caps,
         There(m2, sv2, id) => PassedOn(sv, sv2, Head(rs), id)
  PROVE  SureAt(m2, sv2, Tail(rs), id, w)
<1> SUFFICES ASSUME There(m2, sv2, id)
             PROVE  ReqsSure(sv2, Tail(rs), id) /\ EditorSure(m2, sv2, Tail(rs), id, w)
  BY DEF SureAt
<1>1. ReqsSure(sv, rs, id) /\ EditorSure(m, sv, rs, id, w)
  BY DEF SureAt
<1>2. /\ Len(rs) \in Nat \ {0} /\ Len(Tail(rs)) = Len(rs) - 1 /\ DOMAIN rs = 1 .. Len(rs)
      /\ DOMAIN Tail(rs) = 1 .. Len(rs) - 1
      /\ \A k \in 1 .. Len(rs) - 1 : Tail(rs)[k] = rs[k + 1] /\ k + 1 \in DOMAIN rs
  BY SeqTail
<1>3. ASSUME NEW d, NEW c, NEW n \in Nat, n >= 2, ReqSure(sv, rs, id, d, n, c)
      PROVE  ReqSure(sv2, Tail(rs), id, d, n - 1, c)
  <2>1. /\ (For(Head(rs), id) /\ Makes(Head(rs), d, c)) => EndSure(sv2, d, c)
        /\ (EndSure(sv, d, c) /\ ~ (For(Head(rs), id) /\ Breaks(Head(rs), d, c))) => EndSure(sv2, d, c)
    BY DEF PassedOn
  <2> QED
    BY ONLY <1>3, <2>1, ReqTaken, IsSeq(rs), rs # <<>>
<1>4. ASSUME NEW k \in DOMAIN Tail(rs), Asks(Tail(rs)[k]), Tail(rs)[k].id = id
      PROVE  /\ Tail(rs)[k].d \in Docs /\ Tail(rs)[k].v \in Nat
             /\ ReqSure(sv2, Tail(rs), id, Tail(rs)[k].d, k, Opened)
             /\ ReqSure(sv2, Tail(rs), id, Tail(rs)[k].d, k, Tail(rs)[k].v)
  <2>1. PICK r : r = Tail(rs)[k]
    OBVIOUS
  <2>2. k + 1 \in DOMAIN rs /\ rs[k + 1] = r /\ k + 1 \in Nat /\ k + 1 >= 2 /\ (k + 1) - 1 = k
    BY ONLY <1>2, <2>1, k \in DOMAIN Tail(rs)
  <2>3. r.d \in Docs /\ r.v \in Nat /\ ReqSure(sv, rs, id, r.d, k + 1, Opened) /\ ReqSure(sv, rs, id, r.d, k + 1, r.v)
    BY ONLY <1>1, <1>4, <2>1, <2>2 DEF ReqsSure
  <2>4. ReqSure(sv2, Tail(rs), id, r.d, (k + 1) - 1, Opened) /\ ReqSure(sv2, Tail(rs), id, r.d, (k + 1) - 1, r.v)
    BY ONLY <1>3, <2>2, <2>3
  <2> QED
    BY ONLY <2>1, <2>2, <2>3, <2>4
<1>5. ReqsSure(sv2, Tail(rs), id)
  BY ONLY <1>4 DEF ReqsSure
<1>6. ASSUME NEW d \in ReportedTo(m2, w, id)
      PROVE  /\ ReqSure(sv2, Tail(rs), id, d, Len(Tail(rs)) + 1, Opened)
             /\ (d \notin w.stale /\ ~ w.dirty[d]) => ReqSure(sv2, Tail(rs), id, d, Len(Tail(rs)) + 1, w.txt[d])
  <2>1. d \in ReportedTo(m, w, id)
    BY <1>6 DEF ReportedTo
  <2>2. Len(rs) + 1 \in Nat /\ Len(rs) + 1 >= 2 /\ (Len(rs) + 1) - 1 = Len(Tail(rs)) + 1
    BY ONLY <1>2
  <2> QED
    BY ONLY <1>1, <1>3, <2>1, <2>2 DEF EditorSure
<1> QED
  BY <1>5, <1>6 DEF EditorSure

----------------------------------------------------------------------------
(* The manager.  A handler is calm when it tells servers nothing of         *)
(* documents and asks them nothing about any: no server is less sure, and   *)
(* the manager has no other clients.                                        *)

Keeps(sv, sv2) ==
    /\ PipeSure(sv) => PipeSure(sv2)
    /\ \A d, c : EndSure(sv, d, c) => EndSure(sv2, d, c)
    /\ sv2.st = sv.st
CalmMan(m, m2) ==
    /\ m2.caps = m.caps /\ m2.next = m.next
    /\ \A id \in DOMAIN m2.clients : id \in DOMAIN m.clients /\ m2.clients[id].status = m.clients[id].status
    /\ \A key \in DOMAIN m2.pending : m2.pending[key].m = "initialize" =>
         key \in DOMAIN m.pending /\ m2.pending[key] = m.pending[key]
Calm(x, y) == CalmMan(x.m, y.m) /\ \A id \in Ids : Keeps(x.s[id], y.s[id])

(* What does nothing is calm, and so is one calm step after another.        *)
LEMMA CalmSteps ==
  /\ \A x : Calm(x, x)
  /\ \A x, y, z : (Calm(x, y) /\ Calm(y, z)) => Calm(x, z)
<1>1. \A x : Calm(x, x)
  BY DEF Calm, CalmMan, Keeps
<1>2. ASSUME NEW x, NEW y, NEW z, Calm(x, y), Calm(y, z) PROVE Calm(x, z)
  <2>1. CalmMan(x.m, z.m)
    BY <1>2 DEF Calm, CalmMan
  <2>2. ASSUME NEW id \in Ids PROVE Keeps(x.s[id], z.s[id])
    BY <1>2 DEF Calm, Keeps
  <2> QED
    BY <2>1, <2>2 DEF Calm
<1> QED
  BY <1>1, <1>2

(* A server that is written something else.                                 *)
LEMMA PipeKeeps ==
  ASSUME NEW sv, IsSeq(sv.in), NEW msg, ~ Asks(msg), msg.m \notin SyncKinds,
         NEW sv2, sv2.in = Append(sv.in, msg), sv2.has = sv.has, sv2.st = sv.st
  PROVE  Keeps(sv, sv2)
<1>1. PipeSure(sv) => PipeSure(sv2)
  BY PipeSureAsked
<1>2. \A d, c : ~ Breaks(msg, d, c)
  BY DEF Breaks, SyncKinds
<1>3. \A d, c : EndSure(sv, d, c) => EndSure(sv2, d, c)
  BY <1>2, PipeMessage
<1> QED
  BY <1>1, <1>3 DEF Keeps

(* the handler's record when something was written to a server              *)
Written(x, id, msg, y) ==
    /\ DOMAIN y = {"m", "s", "ev"} /\ y.m = x.m /\ y.ev = x.ev /\ DOMAIN y.s = Ids
    /\ \A j \in Ids \ {id} : y.s[j] = x.s[j]
    /\ y.s[id].has = x.s[id].has /\ y.s[id].st = x.s[id].st /\ y.s[id].in = Append(x.s[id].in, msg)

Shaped(x) ==
    /\ DOMAIN x = {"m", "s", "ev"} /\ DOMAIN x.s = Ids
    /\ \A id \in Ids : DOMAIN x.s[id] = SrvFields /\ IsSeq(x.s[id].in)

(* The fields of a record of the handlers.                                  *)
LEMMA CtxShaped ==
  ASSUME NEW x, NEW rs, Ctx(x, rs)
  PROVE  Shaped(x)
<1>1. /\ DOMAIN x = {"m", "s", "ev"} /\ DOMAIN x.s = Ids
      /\ \A id \in Ids : ServerOK(x.m, x.s[id], rs, id) /\ DOMAIN x.s[id] = SrvFields
  BY CtxParts
<1> QED
  BY <1>1 DEF Shaped, ServerOK, ServerTyped

(* A server that is there is written to.                                    *)
LEMMA WriteFacts ==
  ASSUME NEW x, Shaped(x), NEW id \in Ids, NEW msg
  PROVE  /\ IsSeq(x.s[id].in)
         /\ x.s[id].st = "up" => Written(x, id, msg, Write(x, id, msg))
         /\ x.s[id].st # "up" => Write(x, id, msg) = x
<1>1. DOMAIN x = {"m", "s", "ev"} /\ DOMAIN x.s = Ids /\ DOMAIN x.s[id] = SrvFields /\ IsSeq(x.s[id].in)
  BY DEF Shaped
<1>2. x.s[id].st # "up" => Write(x, id, msg) = x
  BY DEF Write
<1>3. ASSUME x.s[id].st = "up" PROVE Written(x, id, msg, Write(x, id, msg))
  <2>1. PICK y : y = [x EXCEPT !.s[id].in = Append(x.s[id].in, msg)]
    OBVIOUS
  <2>2. Write(x, id, msg) = y
    BY <1>3, <2>1 DEF Write
  <2>3. /\ DOMAIN y = {"m", "s", "ev"} /\ y.m = x.m /\ y.ev = x.ev /\ DOMAIN y.s = Ids
        /\ \A j \in Ids \ {id} : y.s[j] = x.s[j]
        /\ DOMAIN y.s[id] = SrvFields /\ y.s[id].in = Append(x.s[id].in, msg)
        /\ y.s[id].st = x.s[id].st /\ y.s[id].todo = x.s[id].todo /\ y.s[id].out = x.s[id].out
        /\ y.s[id].reader = x.s[id].reader /\ y.s[id].begun = x.s[id].begun /\ y.s[id].has = x.s[id].has
    BY ONLY <1>1, <2>1, id \in Ids, SetInput
  <2> QED
    BY <2>2, <2>3 DEF Written
<1> QED
  BY <1>1, <1>2, <1>3

(* It is told something else.                                               *)
LEMMA WriteCalm ==
  ASSUME NEW x, Shaped(x), NEW id \in Ids, NEW msg, ~ Asks(msg), msg.m \notin SyncKinds
  PROVE  Calm(x, Write(x, id, msg))
<1>1. PICK y : y = Write(x, id, msg)
  OBVIOUS
<1>2. CASE y = x
  BY <1>1, <1>2, CalmSteps
<1>3. CASE Written(x, id, msg, y)
  <2>1. IsSeq(x.s[id].in)
    BY WriteFacts
  <2>2. Keeps(x.s[id], y.s[id])
    BY <1>3, <2>1, PipeKeeps DEF Written
  <2>3. \A j \in Ids \ {id} : Keeps(x.s[j], y.s[j])
    BY <1>3 DEF Written, Keeps
  <2>4. CalmMan(x.m, y.m)
    BY <1>3 DEF Written, CalmMan
  <2> QED
    BY <1>1, <2>2, <2>3, <2>4 DEF Calm
<1> QED
  BY <1>1, <1>2, <1>3, WriteFacts

(* the same, when it is running                                             *)
LEMMA SendNotificationCalm ==
  ASSUME NEW x, NEW rs, Ctx(x, rs), NEW id, NEW k, k \notin SyncKinds, NEW d, NEW v
  PROVE  Calm(x, SendNotification(x, id, k, d, v))
<1>1. Running(x, id) => id \in Ids
  BY CtxParts DEF Running
<1>2. PICK msg : msg = ToServer("notify", -1, k, d, v)
  OBVIOUS
<1>3. ~ Asks(msg) /\ msg.m \notin SyncKinds
  BY <1>2 DEF ToServer, Asks
<1>4. SendNotification(x, id, k, d, v) = IF Running(x, id) THEN Write(x, id, msg) ELSE x
  BY <1>2 DEF SendNotification
<1> QED
  BY <1>1, <1>3, <1>4, WriteCalm, CalmSteps, CtxShaped

(* A server is asked: the fields of what there is then.                     *)
LEMMA WriteRequestFacts ==
  ASSUME NEW x, NEW rs, Ctx(x, rs), NEW id \in DOMAIN x.m.clients, NEW k, NEW d, NEW v, NEW p,
         NEW z, z = WriteRequest(x, id, k, d, v, p), NEW rid, rid = x.m.clients[id].next,
         NEW msg, msg = ToServer("request", rid, k, d, v)
  PROVE  /\ DOMAIN z = {"m", "s", "ev"} /\ DOMAIN z.s = Ids /\ id \in Ids /\ IsSeq(x.s[id].in)
         /\ \A j \in Ids \ {id} : z.s[j] = x.s[j]
         /\ z.s[id].has = x.s[id].has /\ z.s[id].st = x.s[id].st
         /\ z.s[id].in = IF x.s[id].st = "up" THEN Append(x.s[id].in, msg) ELSE x.s[id].in
         /\ z.m.caps = x.m.caps /\ z.m.next = x.m.next
         /\ DOMAIN z.m.clients = DOMAIN x.m.clients
         /\ \A j \in DOMAIN x.m.clients : z.m.clients[j].status = x.m.clients[j].status
         /\ \A key \in DOMAIN z.m.pending : \/ key = <<id, rid>> /\ z.m.pending[key] = p
                                            \/ key \in DOMAIN x.m.pending /\ z.m.pending[key] = x.m.pending[key]
<1>1. PICK w : w = NextId(x, id)
  OBVIOUS
<1>2. /\ DOMAIN w = {"m", "s", "ev"} /\ w.s = x.s /\ DOMAIN w.m = ManFields
      /\ w.m.pending = x.m.pending /\ w.m.next = x.m.next /\ w.m.caps = x.m.caps
      /\ DOMAIN w.m.clients = DOMAIN x.m.clients
      /\ \A j \in DOMAIN x.m.clients : w.m.clients[j].status = x.m.clients[j].status
  BY <1>1, NextIdFacts
<1>3. /\ id \in Ids /\ DOMAIN x.s = Ids /\ DOMAIN x.s[id] = SrvFields /\ ServerOK(x.m, x.s[id], rs, id)
  BY CtxParts
<1>4. IsSeq(x.s[id].in)
  BY <1>3 DEF ServerOK, ServerTyped
<1>5. CASE x.s[id].st # "up"
  <2>1. z = w
    BY <1>1, <1>2, <1>5 DEF WriteRequest, Write
  <2> QED
    BY <1>2, <1>3, <1>4, <1>5, <2>1
<1>6. CASE x.s[id].st = "up"
  <2>1. PICK y : y = [w EXCEPT !.s[id].in = Append(x.s[id].in, msg)]
    OBVIOUS
  <2>2. PICK key : key = <<id, rid>>
    OBVIOUS
  <2>3. z = [y EXCEPT !.m.pending = Put(y.m.pending, key, p)]
    BY <1>1, <1>2, <1>6, <2>1, <2>2 DEF WriteRequest, Write
  <2>4. /\ DOMAIN y = {"m", "s", "ev"} /\ y.m = w.m /\ DOMAIN y.s = Ids
        /\ \A j \in Ids \ {id} : y.s[j] = w.s[j]
        /\ y.s[id].in = Append(x.s[id].in, msg) /\ y.s[id].st = w.s[id].st /\ y.s[id].has = w.s[id].has
    BY <1>2, <1>3, <2>1, SetInput
  <2>5. /\ DOMAIN z = {"m", "s", "ev"} /\ z.s = y.s /\ DOMAIN z.m = ManFields
        /\ z.m.clients = w.m.clients /\ z.m.next = w.m.next /\ z.m.caps = w.m.caps
        /\ z.m.pending = Put(x.m.pending, key, p)
    BY <1>2, <2>3, <2>4 DEF ManFields
  <2>6. \A i \in DOMAIN z.m.pending : \/ i = key /\ z.m.pending[i] = p
                                      \/ i \in DOMAIN x.m.pending /\ z.m.pending[i] = x.m.pending[i]
    BY <2>5 DEF Put
  <2> QED
    BY <1>2, <1>3, <1>4, <1>6, <2>2, <2>4, <2>5, <2>6, ZenonT(40)
<1> QED
  BY <1>5, <1>6

(* It is asked nothing about a document.                                    *)
LEMMA SendRequestCalm ==
  ASSUME NEW x, NEW rs, Ctx(x, rs), NEW id, NEW k, k \notin Questions, k \notin SyncKinds, NEW d, NEW v,
         NEW p, p.m # "initialize"
  PROVE  Calm(x, SendRequest(x, id, k, d, v, p))
<1>1. CASE ~ Running(x, id)
  BY <1>1, CalmSteps DEF SendRequest
<1>2. CASE Running(x, id)
  <2>1. id \in DOMAIN x.m.clients
    BY <1>2 DEF Running
  <2>2. PICK z, rid, msg : /\ z = WriteRequest(x, id, k, d, v, p) /\ rid = x.m.clients[id].next
                           /\ msg = ToServer("request", rid, k, d, v)
    OBVIOUS
  <2>3. /\ id \in Ids /\ IsSeq(x.s[id].in) /\ \A j \in Ids \ {id} : z.s[j] = x.s[j]
        /\ z.s[id].has = x.s[id].has /\ z.s[id].st = x.s[id].st
        /\ z.s[id].in = IF x.s[id].st = "up" THEN Append(x.s[id].in, msg) ELSE x.s[id].in
        /\ z.m.caps = x.m.caps /\ z.m.next = x.m.next
        /\ DOMAIN z.m.clients = DOMAIN x.m.clients
        /\ \A j \in DOMAIN x.m.clients : z.m.clients[j].status = x.m.clients[j].status
        /\ \A key \in DOMAIN z.m.pending : \/ key = <<id, rid>> /\ z.m.pending[key] = p
                                           \/ key \in DOMAIN x.m.pending /\ z.m.pending[key] = x.m.pending[key]
    BY ONLY Ctx(x, rs), <2>1, <2>2, WriteRequestFacts
  <2>4. ~ Asks(msg) /\ msg.m \notin SyncKinds
    BY <2>2 DEF ToServer, Asks
  <2>5. CalmMan(x.m, z.m)
    BY <2>3 DEF CalmMan
  <2>6. Keeps(x.s[id], z.s[id])
    <3>1. CASE x.s[id].st = "up"
      <4>1. z.s[id].in = Append(x.s[id].in, msg)
        BY <2>3, <3>1
      <4> QED
        BY ONLY <2>3, <2>4, <4>1, PipeKeeps
    <3>2. CASE x.s[id].st # "up"
      <4>1. z.s[id].in = x.s[id].in
        BY <2>3, <3>2
      <4> QED
        BY <2>3, <4>1 DEF Keeps, PipeSure, EndSure, InSure, Has
    <3> QED
      BY <3>1, <3>2
  <2>7. \A j \in Ids \ {id} : Keeps(x.s[j], z.s[j])
    BY <2>3 DEF Keeps
  <2>8. Calm(x, z)
    BY <2>5, <2>6, <2>7 DEF Calm
  <2> QED
    BY <1>2, <2>2, <2>8 DEF SendRequest
<1> QED
  BY <1>1, <1>2

(* Servers are left alone, and the manager keeps its clients.               *)
Left(x, y) ==
    /\ y.s = x.s /\ y.m.caps = x.m.caps /\ y.m.next = x.m.next
    /\ y.m.clients = x.m.clients /\ y.m.pending = x.m.pending

(* That is calm.                                                            *)
LEMMA AloneIsCalm ==
  ASSUME NEW x, NEW y, Left(x, y)
  PROVE  Calm(x, y)
BY DEF Left, Calm, CalmMan, Keeps

(* A server is told to stop.                                                *)
LEMMA StopClientCalm ==
  ASSUME NEW x, NEW rs, Ctx(x, rs), NEW id
  PROVE  Calm(x, StopClient(x, id))
<1>1. PICK p : p = Pending("shutdown", NoDoc, 0, "none", <<>>)
  OBVIOUS
<1>2. p.m = "shutdown" /\ p.d = NoDoc /\ p.v = 0 /\ "shutdown" \in Kinds
  BY <1>1 DEF Pending, Kinds
<1>3. PICK w : w = SendRequest(x, id, "shutdown", NoDoc, 0, p)
  OBVIOUS
<1>4. "shutdown" \notin Questions /\ "shutdown" \notin SyncKinds /\ "exit" \notin SyncKinds /\ p.m # "initialize"
      /\ "shutdown" # "initialize"
  BY <1>2 DEF Questions, SyncKinds
<1>5. Ctx(w, rs)
  BY ONLY Ctx(x, rs), <1>2, <1>3, <1>4, SendRequestKeeps
<1>6. Calm(x, w)
  BY ONLY Ctx(x, rs), <1>3, <1>4, SendRequestCalm
<1>7. PICK y : y = SendNotification(w, id, "exit", NoDoc, 0)
  OBVIOUS
<1>8. Calm(w, y)
  BY ONLY <1>4, <1>5, <1>7, SendNotificationCalm
<1>9. Ctx(y, rs)
  BY <1>5, <1>7, SendNotificationKeeps
<1>10. StopClient(x, id) = IF id \in DOMAIN y.m.clients
                           THEN [y EXCEPT !.m.clients = Without(@, id), !.m.join = id] ELSE y
  BY <1>1, <1>3, <1>7 DEF StopClient
<1>11. ASSUME NEW z, z = [y EXCEPT !.m.clients = Without(@, id), !.m.join = id] PROVE Calm(y, z)
  <2>1. DOMAIN y = {"m", "s", "ev"} /\ DOMAIN y.m = ManFields
    BY <1>9, CtxParts
  <2>2. /\ z.s = y.s /\ z.m.caps = y.m.caps /\ z.m.next = y.m.next /\ z.m.pending = y.m.pending
        /\ z.m.clients = Without(y.m.clients, id)
    BY <1>11, <2>1 DEF ManFields
  <2>3. \A j \in DOMAIN z.m.clients : j \in DOMAIN y.m.clients /\ z.m.clients[j] = y.m.clients[j]
    BY <2>2 DEF Without
  <2> QED
    BY <2>2, <2>3 DEF Calm, CalmMan, Keeps
<1>12. Calm(y, StopClient(x, id))
  BY <1>10, <1>11, CalmSteps
<1> QED
  BY <1>6, <1>8, <1>12, CalmSteps

(* An answer is acted on, which is not that of an initialisation.           *)
LEMMA HandleResCalm ==
  ASSUME NEW x, NEW rs, Ctx(x, rs), NEW id, NEW p, p.m \in Kinds, p.m # "initialize", NEW res
  PROVE  Calm(x, HandleRes(x, id, p, res))
<1>1. DOMAIN x = {"m", "s", "ev"}
  BY CtxParts
<1>2. ASSUME NEW e PROVE Calm(x, Tell(x, e))
  <2>1. PICK y : y = Tell(x, e)
    OBVIOUS
  <2>2. y.s = x.s /\ y.m = x.m
    BY <1>1, <2>1 DEF Tell
  <2> QED
    BY <2>1, <2>2, AloneIsCalm DEF Left
<1>3. Calm(x, x)
  BY CalmSteps
<1>4. CASE p.m = "goto"
  BY <1>2, <1>3, <1>4 DEF HandleRes, GotoRes
<1>5. CASE p.m = "references"
  BY <1>2, <1>3, <1>5 DEF HandleRes, ReferencesRes
<1>6. CASE p.m = "rename"
  BY <1>2, <1>3, <1>6 DEF HandleRes, RenameRes
<1>7. CASE p.m = "format"
  BY <1>2, <1>3, <1>7 DEF HandleRes, FormatRes
<1>8. CASE p.m = "resolve"
  BY <1>2, <1>3, <1>8 DEF HandleRes, ResolveRes
<1>9. CASE p.m = "completion"
  BY <1>2, <1>3, <1>9 DEF HandleRes, CompletionRes
<1>10. CASE p.m = "prepareRename"
  BY <1>2, <1>3, <1>10 DEF HandleRes, PrepareRenameRes
<1>11. CASE p.m \in {"hover", "shutdown"}
  BY <1>3, <1>11 DEF HandleRes, HoverRes
<1> QED
  BY <1>4, <1>5, <1>6, <1>7, <1>8, <1>9, <1>10, <1>11 DEF Kinds, Questions

(* What servers say without being asked is noted.                           *)
LEMMA SaidCalm ==
  ASSUME NEW x, NEW rs, Ctx(x, rs), NEW id \in Ids, NEW msg, Said(msg), msg.k # "response"
  PROVE  Calm(x, HandleMessage(x, id, msg))
<1>1. DOMAIN x = {"m", "s", "ev"} /\ DOMAIN x.m = ManFields /\ Shaped(x)
  BY CtxParts, CtxShaped
<1>2. PICK y : y = HandleMessage(x, id, msg)
  OBVIOUS
<1>3. Calm(x, x)
  BY CalmSteps
<1>4. ASSUME NEW ts, NEW st, NEW z, z = [x EXCEPT !.m.titles[id] = ts] \/ z = [x EXCEPT !.m.status = st]
                                        \/ z = [x EXCEPT !.m.status = st, !.m.titles[id] = ts]
      PROVE  Calm(x, z)
  <2>2. ASSUME z = [x EXCEPT !.m.titles[id] = ts] PROVE Left(x, z)
    BY ONLY <1>1, <2>2 DEF ManFields, Left
  <2>3. ASSUME z = [x EXCEPT !.m.status = st] PROVE Left(x, z)
    BY ONLY <1>1, <2>3 DEF ManFields, Left
  <2>4. ASSUME z = [x EXCEPT !.m.status = st, !.m.titles[id] = ts] PROVE Left(x, z)
    <3>1. PICK u : u = [x EXCEPT !.m.status = st]
      OBVIOUS
    <3>2. DOMAIN u = {"m", "s", "ev"} /\ DOMAIN u.m = ManFields /\ Left(x, u)
      BY ONLY <1>1, <3>1 DEF ManFields, Left
    <3>3. z = [u EXCEPT !.m.titles[id] = ts]
      BY <2>4, <3>1
    <3>4. Left(u, z)
      BY ONLY <3>2, <3>3 DEF ManFields, Left
    <3> QED
      BY <3>2, <3>4 DEF Left
  <2> QED
    BY <1>4, <2>2, <2>3, <2>4, AloneIsCalm DEF Left
<1>5. CASE msg.k = "request" /\ msg.m = "create"
  <2>1. PICK z : z = [x EXCEPT !.m.titles[id] = Put(x.m.titles[id], msg.tok, NoTitle)]
    OBVIOUS
  <2>2. PICK answer : answer = ToServer("response", msg.rid, "create", NoDoc, 0)
    OBVIOUS
  <2>3. y = IF id \in DOMAIN x.m.clients THEN Write(z, id, answer) ELSE z
    BY <1>2, <1>5, <2>1, <2>2 DEF HandleMessage, HandleRequest, CreateProgress, TokensOf
  <2>4. Calm(x, z)
    BY <1>4, <2>1
  <2>5. Shaped(z)
    <3>1. DOMAIN z = {"m", "s", "ev"} /\ z.s = x.s
      BY <1>1, <2>1
    <3> QED
      BY <1>1, <3>1 DEF Shaped
  <2>6. ~ Asks(answer) /\ answer.m \notin SyncKinds
    BY <2>2 DEF ToServer, Asks, SyncKinds
  <2>7. Calm(z, Write(z, id, answer))
    BY <2>5, <2>6, WriteCalm
  <2> QED
    BY <1>2, <2>3, <2>4, <2>7, CalmSteps
<1>6. CASE msg.k = "request" /\ msg.m # "create"
  BY <1>2, <1>3, <1>6 DEF HandleMessage, HandleRequest
<1>7. CASE msg.k = "notify" /\ msg.m \in {"begin", "report", "end"}
  <2>1. y = ShowProgress(x, id, msg)
    BY <1>2, <1>7 DEF HandleMessage, HandleNotification
  <2>2. \E ts, st : \/ y = [x EXCEPT !.m.titles[id] = ts] \/ y = [x EXCEPT !.m.status = st]
                    \/ y = [x EXCEPT !.m.status = st, !.m.titles[id] = ts]
    <3>1. CASE msg.m = "begin"
      <4>1. PICK st : st = [id |-> id, tok |-> msg.tok, title |-> id, of |-> msg.m]
        OBVIOUS
      <4>2. y = [[x EXCEPT !.m.status = st] EXCEPT !.m.titles[id] = Put(@, msg.tok, id)]
        BY <2>1, <3>1, <4>1 DEF ShowProgress, TokensOf
      <4> QED
        BY <1>1, <4>2
    <3>2. CASE msg.m = "report"
      BY <2>1, <3>2 DEF ShowProgress
    <3>3. CASE msg.m = "end"
      <4>1. PICK st : st = [id |-> id, tok |-> msg.tok, title |-> NoTitle, of |-> msg.m]
        OBVIOUS
      <4>2. y = [[x EXCEPT !.m.status = st] EXCEPT !.m.titles[id] = Without(@, msg.tok)]
        BY <2>1, <3>3, <4>1 DEF ShowProgress, TokensOf
      <4> QED
        BY <1>1, <4>2
    <3> QED
      BY <1>7, <3>1, <3>2, <3>3
  <2> QED
    BY <1>2, <1>4, <2>2
<1>8. CASE msg.k = "notify" /\ msg.m \notin {"begin", "report", "end"}
  <2>1. y = x \/ y = [x EXCEPT !.m.diags[msg.d] = msg.v]
    BY <1>2, <1>8 DEF HandleMessage, HandleNotification, PublishDiagnostics
  <2>2. y = x \/ (/\ y.s = x.s /\ y.m.caps = x.m.caps /\ y.m.next = x.m.next /\ y.m.clients = x.m.clients
                  /\ y.m.pending = x.m.pending)
    BY ONLY <1>1, <2>1 DEF ManFields
  <2> QED
    BY <1>2, <1>3, <2>2, AloneIsCalm DEF Left
<1> QED
  BY <1>5, <1>6, <1>7, <1>8 DEF Said

----------------------------------------------------------------------------
(* The manager takes a request.                                             *)

(* Servers know what they have to if it is passed on, and one that was      *)
(* started has to know nothing.                                             *)
LEMMA SyncTaken ==
  ASSUME NEW x, NEW y, NEW rs, IsSeq(rs), rs # <<>>, NEW w, w.open \subseteq Docs, Sync(x.m, x.s, rs, w),
         y.m.caps = x.m.caps, 0 .. x.m.next - 1 \subseteq 0 .. y.m.next - 1,
         \A id \in DOMAIN y.m.clients :
            \/ id \in DOMAIN x.m.clients /\ y.m.clients[id].status = x.m.clients[id].status
            \/ id \notin 0 .. x.m.next - 1,
         Starting(y.m),
         \A id \in Ids :
            /\ PipeSure(y.s[id])
            /\ There(y.m, y.s[id], id) =>
                  \/ There(x.m, x.s[id], id) /\ PassedOn(x.s[id], y.s[id], Head(rs), id)
                  \/ id \notin 0 .. x.m.next - 1 /\ \A f \in Ftypes : x.m.caps[f] # id
  PROVE  Sync(y.m, y.s, Tail(rs), w) /\ y.m.caps = x.m.caps
<1>1. /\ \A id \in Ids : SureAt(x.m, x.s[id], rs, id, w)
      /\ \A k \in DOMAIN rs : Addressed(x.m, rs[k])
      /\ Contents(w)
  BY DEF Sync
<1>2. \A k \in DOMAIN Tail(rs) : k + 1 \in DOMAIN rs /\ Tail(rs)[k] = rs[k + 1]
  BY ValuesTail
<1>3. ASSUME NEW k \in DOMAIN Tail(rs)
      PROVE  Addressed(x.m, Tail(rs)[k]) /\ Addressed(y.m, Tail(rs)[k])
  <2>1. PICK r : r = Tail(rs)[k]
    OBVIOUS
  <2>2. Addressed(x.m, r)
    BY <1>1, <1>2, <2>1
  <2>3. Addressed(y.m, r)
    BY <2>2 DEF Addressed
  <2> QED
    BY <2>1, <2>2, <2>3
<1>4. ASSUME NEW id \in Ids PROVE SureAt(y.m, y.s[id], Tail(rs), id, w)
  <2>1. PICK sv, sv2 : sv = x.s[id] /\ sv2 = y.s[id]
    OBVIOUS
  <2>2. SureAt(x.m, sv, rs, id, w) /\ PipeSure(sv2)
    BY <1>1, <2>1
  <2>3. CASE There(y.m, sv2, id) => There(x.m, sv, id) /\ PassedOn(sv, sv2, Head(rs), id)
    <3>1. PICK m, m2 : m = x.m /\ m2 = y.m
      OBVIOUS
    <3>2. /\ SureAt(m, sv, rs, id, w) /\ PipeSure(sv2) /\ m2.caps = m.caps
          /\ There(m2, sv2, id) => There(m, sv, id)
          /\ There(m2, sv2, id) => PassedOn(sv, sv2, Head(rs), id)
      BY <2>2, <2>3, <3>1
    <3>3. SureAt(m2, sv2, Tail(rs), id, w)
      BY ONLY <3>2, SureTaken, IsSeq(rs), rs # <<>>
    <3> QED
      BY ONLY <2>1, <3>1, <3>3
  <2>4. CASE id \notin 0 .. x.m.next - 1 /\ \A f \in Ftypes : x.m.caps[f] # id
    <3>1. ASSUME NEW k \in DOMAIN Tail(rs), Asks(Tail(rs)[k]), Tail(rs)[k].id = id PROVE FALSE
      <4>1. PICK r : r = Tail(rs)[k]
        OBVIOUS
      <4>2. Addressed(x.m, r) /\ Asks(r) /\ r.id = id
        BY <1>3, <3>1, <4>1
      <4> QED
        BY <2>4, <4>2 DEF Addressed, Asks
    <3>2. ReqsSure(sv2, Tail(rs), id)
      BY <3>1 DEF ReqsSure
    <3>3. \A d \in w.open : x.m.caps[FtypeOf[d]] # id
      BY <2>4, LspAssumption
    <3>4. EditorSure(y.m, sv2, Tail(rs), id, w)
      BY <3>3 DEF EditorSure, ReportedTo
    <3> QED
      BY <2>1, <2>2, <3>2, <3>4 DEF SureAt
  <2> QED
    BY <2>1, <2>3, <2>4
<1> QED
  BY <1>1, <1>3, <1>4 DEF Sync

(* A calm handler starts no server.                                         *)
LEMMA CalmStarts ==
  ASSUME NEW m, NEW m2, CalmMan(m, m2), Starting(m)
  PROVE  Starting(m2)
<1> SUFFICES ASSUME NEW key \in DOMAIN m2.pending, m2.pending[key].m = "initialize"
             PROVE  /\ key[2] = 0 /\ m2.pending[key].f \in Ftypes /\ Numbers(m2.pending[key].docs)
                    /\ key[1] \in DOMAIN m2.clients => m2.clients[key[1]].status = "Initializing"
  BY DEF Starting
<1>1. key \in DOMAIN m.pending /\ m2.pending[key] = m.pending[key] /\ m.pending[key].m = "initialize"
  BY DEF CalmMan
<1>2. /\ key[2] = 0 /\ m.pending[key].f \in Ftypes /\ Numbers(m.pending[key].docs)
      /\ key[1] \in DOMAIN m.clients => m.clients[key[1]].status = "Initializing"
  BY <1>1 DEF Starting
<1>3. key[1] \in DOMAIN m2.clients =>
        key[1] \in DOMAIN m.clients /\ m2.clients[key[1]].status = m.clients[key[1]].status
  BY DEF CalmMan
<1> QED
  BY ONLY <1>1, <1>2, <1>3

(* A request is handled without starting a server, and passed on.           *)
LEMMA PassedTaken ==
  ASSUME NEW x, NEW y, NEW rs, IsSeq(rs), rs # <<>>, NEW w, w.open \subseteq Docs, Sync(x.m, x.s, rs, w),
         CalmMan(x.m, y.m),
         \A id \in Ids : /\ PipeSure(y.s[id]) /\ y.s[id].st = x.s[id].st
                         /\ There(y.m, y.s[id], id) => PassedOn(x.s[id], y.s[id], Head(rs), id)
  PROVE  Sync(y.m, y.s, Tail(rs), w) /\ y.m.caps = x.m.caps
<1>1. Starting(x.m)
  BY DEF Sync
<1>2. Starting(y.m)
  BY <1>1, CalmStarts
<1>3. /\ y.m.caps = x.m.caps /\ y.m.next = x.m.next
      /\ \A id \in DOMAIN y.m.clients : id \in DOMAIN x.m.clients /\ y.m.clients[id].status = x.m.clients[id].status
  BY DEF CalmMan
<1>4. \A id \in Ids : There(y.m, y.s[id], id) => There(x.m, x.s[id], id)
  BY <1>3 DEF There
<1> QED
  BY ONLY <1>2, <1>3, <1>4, SyncTaken, IsSeq(rs), rs # <<>>, w.open \subseteq Docs, Sync(x.m, x.s, rs, w),
     \A id \in Ids : /\ PipeSure(y.s[id]) /\ y.s[id].st = x.s[id].st
                     /\ There(y.m, y.s[id], id) => PassedOn(x.s[id], y.s[id], Head(rs), id)

(* One that tells no server that is there of a document is handled calmly.  *)
LEMMA CalmTaken ==
  ASSUME NEW x, NEW y, NEW rs, IsSeq(rs), rs # <<>>, NEW w, w.open \subseteq Docs, Sync(x.m, x.s, rs, w), Calm(x, y),
         \A id \in Ids : There(y.m, y.s[id], id) => ~ For(Head(rs), id)
  PROVE  Sync(y.m, y.s, Tail(rs), w) /\ y.m.caps = x.m.caps
<1>1. CalmMan(x.m, y.m) /\ \A id \in Ids : Keeps(x.s[id], y.s[id])
  BY DEF Calm
<1>2. ASSUME NEW id \in Ids
      PROVE  /\ PipeSure(y.s[id]) /\ y.s[id].st = x.s[id].st
             /\ There(y.m, y.s[id], id) => PassedOn(x.s[id], y.s[id], Head(rs), id)
  <2>1. PipeSure(x.s[id])
    BY DEF Sync, SureAt
  <2>2. Keeps(x.s[id], y.s[id])
    BY <1>1
  <2> QED
    BY <2>1, <2>2 DEF Keeps, PassedOn
<1> QED
  BY ONLY <1>1, <1>2, PassedTaken, IsSeq(rs), rs # <<>>, w.open \subseteq Docs, Sync(x.m, x.s, rs, w)

(* What is on the channel first.                                            *)
LEMMA HeadAddressed ==
  ASSUME NEW m, NEW s, NEW rs, IsSeq(rs), rs # <<>>, NEW w, Sync(m, s, rs, w)
  PROVE  Addressed(m, Head(rs))
<1>1. 1 \in DOMAIN rs /\ Head(rs) = rs[1]
  BY SeqTail
<1> QED
  BY <1>1 DEF Sync

(* A server is told of a document.                                          *)
LEMMA NotifyTaken ==
  ASSUME NEW x, NEW rs, Ctx(x, rs), rs # <<>>, NEW w, w.open \subseteq Docs, Sync(x.m, x.s, rs, w),
         NEW r, r = Head(rs), r.k = "notify", NEW y, y = SendNotification(x, r.id, r.m, r.d, r.v)
  PROVE  Sync(y.m, y.s, Tail(rs), w) /\ y.m.caps = x.m.caps
<1>1. PICK id, msg : id = r.id /\ msg = ToServer("notify", -1, r.m, r.d, r.v)
  OBVIOUS
<1>2. IsSeq(rs) /\ Shaped(x) /\ x.m.next \in Nat /\ x.m.next <= Servers
  BY CtxParts, CtxShaped DEF ReqsTyped, ManTyped
<1>3. Addressed(x.m, r)
  BY <1>2, HeadAddressed
<1>4. /\ Tells(r) /\ id \in 0 .. x.m.next - 1
      /\ id \in DOMAIN x.m.clients => x.m.clients[id].status = "Running"
  BY <1>1, <1>3 DEF Addressed
<1>5. id \in Ids
  BY <1>2, <1>4, LspAssumption DEF Ids
<1>6. /\ msg.k = "notify" /\ Tells(msg) /\ ~ Asks(msg)
      /\ \A d, c : (Makes(msg, d, c) <=> Makes(r, d, c)) /\ (Breaks(msg, d, c) <=> Breaks(r, d, c))
  <2>1. msg.k = "notify" /\ msg.m = r.m /\ msg.d = r.d /\ msg.v = r.v
    BY <1>1 DEF ToServer
  <2> QED
    BY <1>4, <2>1 DEF Tells, Asks, Makes, Breaks
<1>7. For(r, id) /\ \A j \in Ids \ {id} : ~ For(r, j)
  BY <1>1, IdsAreServers DEF For
<1>8. \A j \in Ids : PipeSure(x.s[j])
  BY DEF Sync, SureAt
<1>9. y = IF Running(x, id) THEN Write(x, id, msg) ELSE x
  BY <1>1 DEF SendNotification
<1>10. CASE Running(x, id) /\ x.s[id].st = "up"
  <2>1. Written(x, id, msg, y) /\ IsSeq(x.s[id].in)
    BY <1>2, <1>5, <1>9, <1>10, WriteFacts
  <2>2. /\ y.m = x.m /\ \A j \in Ids \ {id} : y.s[j] = x.s[j]
        /\ y.s[id].has = x.s[id].has /\ y.s[id].st = x.s[id].st /\ y.s[id].in = Append(x.s[id].in, msg)
    BY <2>1 DEF Written
  <2>3. PipeSure(y.s[id])
    <3>1. PICK one : one = <<msg>>
      OBVIOUS
    <3>2. Append(x.s[id].in, msg) = x.s[id].in \o one /\ IsSeq(one) /\ \A i \in DOMAIN one : one[i] = msg
      BY <2>1, <3>1, AppendOne
    <3>3. y.s[id].in = x.s[id].in \o one
      BY <2>2, <3>2
    <3>4. \A i \in DOMAIN one : ~ Asks(one[i]) /\ (one[i].m \in SyncKinds => Tells(one[i]))
      BY <1>6, <3>2
    <3>5. PICK sv, sv2 : sv = x.s[id] /\ sv2 = y.s[id]
      OBVIOUS
    <3>6. IsSeq(sv.in) /\ PipeSure(sv) /\ sv2.in = sv.in \o one /\ sv2.has = sv.has
      BY <1>5, <1>8, <2>1, <2>2, <3>3, <3>5
    <3>7. PipeSure(sv2)
      BY ONLY <3>2, <3>4, <3>6, PipeSureMore
    <3> QED
      BY <3>5, <3>7
  <2>4. PassedOn(x.s[id], y.s[id], r, id)
    <3>1. PICK sv, sv2 : sv = x.s[id] /\ sv2 = y.s[id]
      OBVIOUS
    <3>2. IsSeq(sv.in) /\ sv2.in = Append(sv.in, msg) /\ sv2.has = sv.has
      BY <2>1, <2>2, <3>1
    <3>3. ASSUME NEW d, NEW c, (EndSure(sv, d, c) /\ ~ Breaks(msg, d, c)) \/ Makes(msg, d, c)
          PROVE  EndSure(sv2, d, c)
      BY ONLY <3>2, <3>3, PipeMessage
    <3> QED
      BY <1>6, <1>7, <3>1, <3>3 DEF PassedOn
  <2>5. \A j \in Ids \ {id} : PassedOn(x.s[j], y.s[j], r, j)
    BY <1>7, <2>2 DEF PassedOn
  <2>6. CalmMan(x.m, y.m)
    BY <2>2 DEF CalmMan
  <2>7. \A j \in Ids : /\ PipeSure(y.s[j]) /\ y.s[j].st = x.s[j].st
                       /\ There(y.m, y.s[j], j) => PassedOn(x.s[j], y.s[j], Head(rs), j)
    BY <1>8, <2>2, <2>3, <2>4, <2>5
  <2> QED
    BY ONLY <1>2, <2>6, <2>7, PassedTaken, rs # <<>>, w.open \subseteq Docs, Sync(x.m, x.s, rs, w)
<1>11. CASE ~ (Running(x, id) /\ x.s[id].st = "up")
  <2>1. y = x
    BY <1>2, <1>5, <1>9, <1>11, WriteFacts
  <2>2. ~ There(x.m, x.s[id], id)
    BY <1>4, <1>11 DEF There, Running
  <2>3. \A j \in Ids : There(y.m, y.s[j], j) => ~ For(Head(rs), j)
    BY <1>7, <2>1, <2>2
  <2>4. Calm(x, y)
    BY <2>1, CalmSteps
  <2> QED
    BY ONLY <1>2, <2>3, <2>4, CalmTaken, rs # <<>>, w.open \subseteq Docs, Sync(x.m, x.s, rs, w)
<1> QED
  BY <1>10, <1>11

(* A server is asked something.                                             *)
LEMMA RequestTaken ==
  ASSUME NEW x, NEW rs, Ctx(x, rs), rs # <<>>, NEW w, w.open \subseteq Docs, Sync(x.m, x.s, rs, w),
         NEW r, r = Head(rs), r.k = "request", r.m \in Questions \cup {"resolve"}, NEW p, p.m = r.m,
         NEW y, y = SendRequest(x, r.id, r.m, r.d, r.v, p)
  PROVE  Sync(y.m, y.s, Tail(rs), w) /\ y.m.caps = x.m.caps
<1>1. IsSeq(rs) /\ \A j \in Ids : ~ For(r, j)
  BY CtxParts, IdsAreServers DEF ReqsTyped, For
<1>2. "resolve" \notin Questions /\ "initialize" \notin Questions /\ Questions \cap SyncKinds = {}
      /\ "resolve" \notin SyncKinds
  BY DEF Questions, SyncKinds
<1>3. ASSUME Calm(x, y) PROVE Sync(y.m, y.s, Tail(rs), w) /\ y.m.caps = x.m.caps
  BY ONLY <1>1, <1>3, CalmTaken, rs # <<>>, w.open \subseteq Docs, Sync(x.m, x.s, rs, w), r = Head(rs)
<1>4. CASE r.m = "resolve"
  <2>1. Calm(x, y)
    BY <1>2, <1>4, SendRequestCalm
  <2> QED
    BY <1>3, <2>1
<1>5. CASE r.m \in Questions /\ ~ Running(x, r.id)
  <2>1. Calm(x, y)
    BY <1>5, CalmSteps DEF SendRequest
  <2> QED
    BY <1>3, <2>1
<1>6. CASE r.m \in Questions /\ Running(x, r.id)
  <2>1. PICK id, rid, k, d, v : id = r.id /\ rid = x.m.clients[id].next /\ k = r.m /\ d = r.d /\ v = r.v
    OBVIOUS
  <2>2. PICK msg : msg = ToServer("request", rid, k, d, v)
    OBVIOUS
  <2>3. id \in DOMAIN x.m.clients /\ y = WriteRequest(x, id, k, d, v, p)
    BY <1>6, <2>1 DEF SendRequest, Running
  <2>4. /\ id \in Ids /\ IsSeq(x.s[id].in) /\ \A j \in Ids \ {id} : y.s[j] = x.s[j]
        /\ y.s[id].has = x.s[id].has /\ y.s[id].st = x.s[id].st
        /\ y.s[id].in = IF x.s[id].st = "up" THEN Append(x.s[id].in, msg) ELSE x.s[id].in
        /\ y.m.caps = x.m.caps /\ y.m.next = x.m.next
        /\ DOMAIN y.m.clients = DOMAIN x.m.clients
        /\ \A j \in DOMAIN x.m.clients : y.m.clients[j].status = x.m.clients[j].status
        /\ \A key \in DOMAIN y.m.pending : \/ key = <<id, rid>> /\ y.m.pending[key] = p
                                           \/ key \in DOMAIN x.m.pending /\ y.m.pending[key] = x.m.pending[key]
    BY ONLY Ctx(x, rs), <2>1, <2>2, <2>3, WriteRequestFacts
  <2>5. CalmMan(x.m, y.m)
    <3>1. p.m # "initialize"
      BY <1>2, <1>6
    <3>2. \A key \in DOMAIN y.m.pending : y.m.pending[key].m = "initialize" =>
             key \in DOMAIN x.m.pending /\ y.m.pending[key] = x.m.pending[key]
      BY ONLY <2>4, <3>1
    <3> QED
      BY ONLY <2>4, <3>2 DEF CalmMan
  <2>6. PICK sv, sv2 : sv = x.s[id] /\ sv2 = y.s[id]
    OBVIOUS
  <2>7. IsSeq(sv.in) /\ sv2.has = sv.has /\ sv2.st = sv.st /\ PipeSure(sv) /\ SureAt(x.m, sv, rs, id, w)
        /\ sv2.in = IF sv.st = "up" THEN Append(sv.in, msg) ELSE sv.in
    BY <2>4, <2>6 DEF Sync, SureAt
  <2>8. CASE sv.st # "up"
    <3>1. sv2.in = sv.in
      BY <2>7, <2>8
    <3>2. Keeps(sv, sv2)
      BY <2>7, <3>1 DEF Keeps, PipeSure, EndSure, InSure, Has
    <3>3. \A j \in Ids \ {id} : Keeps(x.s[j], y.s[j])
      BY <2>4 DEF Keeps
    <3>4. Calm(x, y)
      BY <2>5, <2>6, <3>2, <3>3 DEF Calm
    <3> QED
      BY <1>3, <3>4
  <2>9. CASE sv.st = "up"
    <3>1. sv2.in = Append(sv.in, msg) /\ There(x.m, sv, id)
      BY <2>3, <2>7, <2>9 DEF There
    <3>2. msg.k = "request" /\ msg.m = k /\ msg.d = d /\ msg.v = v /\ msg.m \notin SyncKinds
      BY <1>2, <1>6, <2>1, <2>2 DEF ToServer
    <3>3. ASSUME Asks(msg)
          PROVE  msg.d \in Docs /\ msg.v \in Nat /\ EndSure(sv, msg.d, Opened) /\ EndSure(sv, msg.d, msg.v)
      <4>1. 1 \in DOMAIN rs /\ rs[1] = r
        BY <1>1, SeqTail
      <4>2. Asks(r) /\ r.id = id /\ r.d = d /\ r.v = v
        BY <2>1, <3>2, <3>3 DEF Asks
      <4>3. ReqsSure(sv, rs, id)
        BY <2>7, <3>1 DEF SureAt
      <4>4. /\ d \in Docs /\ v \in Nat
            /\ ReqSure(sv, rs, id, d, 1, Opened) /\ ReqSure(sv, rs, id, d, 1, v)
        BY <4>1, <4>2, <4>3 DEF ReqsSure
      <4>5. \A c : ReqSure(sv, rs, id, d, 1, c) => EndSure(sv, d, c)
        BY <1>1, SureIsBoolean, HoldsAtOne DEF ReqSure
      <4> QED
        BY <3>2, <4>4, <4>5
    <3>4. PipeSure(sv2)
      BY ONLY <2>7, <3>1, <3>2, <3>3, PipeSureAsked
    <3>5. ASSUME NEW e, NEW c, EndSure(sv, e, c) PROVE EndSure(sv2, e, c)
      <4>1. ~ Breaks(msg, e, c)
        BY <3>2 DEF Breaks, SyncKinds
      <4> QED
        BY ONLY <2>7, <3>1, <3>5, <4>1, PipeMessage
    <3>6. PassedOn(sv, sv2, r, id)
      BY <1>1, <2>4, <3>5 DEF PassedOn
    <3>7. \A j \in Ids \ {id} : PassedOn(x.s[j], y.s[j], r, j)
      BY <1>1, <2>4 DEF PassedOn
    <3>8. \A j \in Ids : /\ PipeSure(y.s[j]) /\ y.s[j].st = x.s[j].st
                         /\ There(y.m, y.s[j], j) => PassedOn(x.s[j], y.s[j], Head(rs), j)
      <4>1. \A j \in Ids : PipeSure(x.s[j])
        BY DEF Sync, SureAt
      <4>2. ASSUME NEW j \in Ids, j # id
            PROVE  PipeSure(y.s[j]) /\ y.s[j].st = x.s[j].st /\ PassedOn(x.s[j], y.s[j], Head(rs), j)
        <5>1. y.s[j] = x.s[j]
          BY <2>4, <4>2
        <5>2. PassedOn(x.s[j], y.s[j], Head(rs), j)
          BY <1>1, <3>7, <4>2
        <5> QED
          BY ONLY j \in Ids, <4>1, <5>1, <5>2
      <4>3. PipeSure(y.s[id]) /\ y.s[id].st = x.s[id].st
        BY <2>4, <2>6, <2>7, <3>4
      <4>4. PassedOn(x.s[id], y.s[id], Head(rs), id)
        BY <1>1, <2>4, <2>6, <3>6
      <4> QED
        BY ONLY <4>2, <4>3, <4>4
    <3> QED
      BY ONLY <1>1, <2>5, <3>8, PassedTaken, rs # <<>>, w.open \subseteq Docs, Sync(x.m, x.s, rs, w)
  <2> QED
    BY <2>8, <2>9
<1> QED
  BY <1>4, <1>5, <1>6

(* A server is to be started.                                               *)
LEMMA StartTaken ==
  ASSUME NEW x, NEW rs, Ctx(x, rs), rs # <<>>, x.m.next < Servers, NEW w, w.open \subseteq Docs,
         Sync(x.m, x.s, rs, w), NEW r, r = Head(rs), r.k = "start",
         NEW spawns, NEW y, y = HandleStart(x, r.f, r.docs, spawns)
  PROVE  Sync(y.m, y.s, Tail(rs), w) /\ y.m.caps = x.m.caps
<1>1. PICK id, b, z, p : /\ id = x.m.next /\ b = NextServer(x) /\ z = Spawned(b, id)
                         /\ p = Pending("initialize", NoDoc, 0, r.f, r.docs)
  OBVIOUS
<1>2. /\ Ctx(z, rs)
      /\ b.s = x.s /\ b.m.caps = x.m.caps /\ b.m.pending = x.m.pending /\ b.m.clients = x.m.clients
      /\ b.m.next = x.m.next + 1
      /\ id \in Ids /\ id \notin DOMAIN x.m.clients
      /\ z.m.caps = x.m.caps /\ z.m.pending = x.m.pending /\ z.m.next = x.m.next + 1
      /\ DOMAIN z.m.clients = DOMAIN x.m.clients \cup {id} /\ z.m.clients[id] = Client
      /\ \A j \in DOMAIN x.m.clients : z.m.clients[j] = x.m.clients[j]
      /\ \A j \in Ids \ {id} : z.s[j] = x.s[j]
      /\ z.s[id].in = x.s[id].in /\ z.s[id].has = x.s[id].has
  BY ONLY <1>1, Ctx(x, rs), x.m.next < Servers, SpawnedFacts
<1>3. y = IF ~ spawns THEN b ELSE WriteRequest(z, id, "initialize", NoDoc, 0, p)
  BY <1>1 DEF HandleStart, NextServer, Spawned, Client
<1>4. /\ IsSeq(rs) /\ (\A j \in Ids : ~ For(r, j)) /\ x.m.next \in Nat
      /\ 0 .. x.m.next - 1 \subseteq 0 .. (x.m.next + 1) - 1 /\ x.m.next \notin 0 .. x.m.next - 1
  BY CtxParts, IdsAreServers DEF ReqsTyped, For
<1>5. /\ x.m.caps \in [Ftypes -> (0 .. x.m.next - 1) \cup {NoId}]
      /\ DOMAIN x.m.pending \subseteq (0 .. x.m.next - 1) \X Nat
      /\ DOMAIN x.m.clients \subseteq 0 .. x.m.next - 1
  BY CtxParts DEF ManTyped
<1>6. /\ \A f \in Ftypes : x.m.caps[f] # id
      /\ \A key \in DOMAIN x.m.pending : key[1] # id
  BY ONLY <1>1, <1>2, <1>4, <1>5, IdsAreServers
<1>7. Starting(x.m) /\ (\A j \in Ids : PipeSure(x.s[j])) /\ Addressed(x.m, r)
  BY <1>4, HeadAddressed DEF Sync, SureAt
<1>8. \A j \in Ids : PassedOn(x.s[j], x.s[j], r, j)
  BY <1>4 DEF PassedOn
<1>9. CASE ~ spawns
  <2>1. y = b
    BY <1>3, <1>9
  <2>2. Starting(y.m)
    BY <1>2, <1>7, <2>1 DEF Starting
  <2>3. /\ y.m.caps = x.m.caps /\ 0 .. x.m.next - 1 \subseteq 0 .. y.m.next - 1
        /\ \A j \in DOMAIN y.m.clients : j \in DOMAIN x.m.clients /\ y.m.clients[j].status = x.m.clients[j].status
    BY <1>2, <1>4, <2>1
  <2>4. \A j \in Ids : /\ PipeSure(y.s[j])
                       /\ There(y.m, y.s[j], j) => /\ There(x.m, x.s[j], j)
                                                   /\ PassedOn(x.s[j], y.s[j], Head(rs), j)
    BY <1>2, <1>7, <1>8, <2>1 DEF There
  <2> QED
    BY ONLY <1>4, <2>2, <2>3, <2>4, SyncTaken, rs # <<>>, w.open \subseteq Docs, Sync(x.m, x.s, rs, w)
<1>10. CASE spawns
  <2>1. PICK rid, k, d, v, msg : /\ rid = z.m.clients[id].next /\ k = "initialize" /\ d = NoDoc /\ v = 0
                                 /\ msg = ToServer("request", rid, k, d, v)
    OBVIOUS
  <2>2. y = WriteRequest(z, id, k, d, v, p) /\ id \in DOMAIN z.m.clients
    BY <1>2, <1>3, <1>10, <2>1
  <2>3. /\ IsSeq(z.s[id].in)
        /\ \A j \in Ids \ {id} : y.s[j] = z.s[j]
        /\ y.s[id].has = z.s[id].has
        /\ y.s[id].in = IF z.s[id].st = "up" THEN Append(z.s[id].in, msg) ELSE z.s[id].in
        /\ y.m.caps = z.m.caps /\ y.m.next = z.m.next
        /\ DOMAIN y.m.clients = DOMAIN z.m.clients
        /\ \A j \in DOMAIN z.m.clients : y.m.clients[j].status = z.m.clients[j].status
        /\ \A key \in DOMAIN y.m.pending : \/ key = <<id, rid>> /\ y.m.pending[key] = p
                                           \/ key \in DOMAIN z.m.pending /\ y.m.pending[key] = z.m.pending[key]
    BY ONLY <1>2, <2>1, <2>2, WriteRequestFacts
  <2>4. rid = 0 /\ z.m.clients[id].status = "Initializing"
    BY <1>2, <2>1 DEF Client
  <2>5. Starting(y.m)
    <3> SUFFICES ASSUME NEW key \in DOMAIN y.m.pending, y.m.pending[key].m = "initialize"
                 PROVE  /\ key[2] = 0 /\ y.m.pending[key].f \in Ftypes /\ Numbers(y.m.pending[key].docs)
                        /\ key[1] \in DOMAIN y.m.clients => y.m.clients[key[1]].status = "Initializing"
      BY DEF Starting
    <3>1. CASE key = <<id, rid>> /\ y.m.pending[key] = p
      <4>1. key[1] = id /\ key[2] = 0
        BY <2>4, <3>1
      <4>2. p.f \in Ftypes /\ Numbers(p.docs)
        BY <1>1, <1>7 DEF Addressed, Pending
      <4>3. y.m.clients[id].status = "Initializing"
        BY <1>2, <2>3, <2>4
      <4> QED
        BY <3>1, <4>1, <4>2, <4>3
    <3>2. CASE key \in DOMAIN z.m.pending /\ y.m.pending[key] = z.m.pending[key]
      <4>1. key \in DOMAIN x.m.pending /\ y.m.pending[key] = x.m.pending[key] /\ key[1] # id
        BY <1>2, <1>6, <3>2
      <4>2. /\ key[2] = 0 /\ y.m.pending[key].f \in Ftypes /\ Numbers(y.m.pending[key].docs)
            /\ key[1] \in DOMAIN x.m.clients => x.m.clients[key[1]].status = "Initializing"
        BY <1>7, <4>1 DEF Starting
      <4>3. PICK j : j = key[1]
        OBVIOUS
      <4>4. j \in DOMAIN y.m.clients => j \in DOMAIN x.m.clients /\ y.m.clients[j].status = x.m.clients[j].status
        BY ONLY <1>2, <2>3, <4>1, <4>3
      <4> QED
        BY ONLY <4>1, <4>2, <4>3, <4>4
    <3> QED
      BY <2>3, <3>1, <3>2
  <2>6. PipeSure(y.s[id])
    <3>1. PICK sv, sv1, sv2 : sv = x.s[id] /\ sv1 = z.s[id] /\ sv2 = y.s[id]
      OBVIOUS
    <3>2. sv1.in = sv.in /\ sv1.has = sv.has /\ PipeSure(sv)
      BY <1>2, <1>7, <3>1
    <3>3. PipeSure(sv1)
      BY ONLY <3>2 DEF PipeSure, InSure, Has
    <3>4. msg.m \notin SyncKinds /\ ~ Asks(msg)
      BY <2>1 DEF ToServer, Asks, Questions, SyncKinds
    <3>5. IsSeq(sv1.in) /\ sv2.has = sv1.has /\ (sv2.in = Append(sv1.in, msg) \/ sv2.in = sv1.in)
      BY <2>3, <3>1
    <3>6. CASE sv2.in = Append(sv1.in, msg)
      BY ONLY <3>1, <3>3, <3>4, <3>5, <3>6, PipeSureAsked
    <3>7. CASE sv2.in = sv1.in
      BY ONLY <3>1, <3>3, <3>5, <3>7 DEF PipeSure, InSure, Has
    <3> QED
      BY <3>5, <3>6, <3>7
  <2>7. /\ y.m.caps = x.m.caps /\ 0 .. x.m.next - 1 \subseteq 0 .. y.m.next - 1
        /\ \A j \in DOMAIN y.m.clients : \/ j \in DOMAIN x.m.clients /\ y.m.clients[j].status = x.m.clients[j].status
                                         \/ j \notin 0 .. x.m.next - 1
    <3>1. DOMAIN y.m.clients = DOMAIN x.m.clients \cup {id} /\ id \notin 0 .. x.m.next - 1
      BY <1>1, <1>2, <1>4, <2>3
    <3>2. ASSUME NEW j \in DOMAIN x.m.clients PROVE y.m.clients[j].status = x.m.clients[j].status
      <4>1. j \in DOMAIN z.m.clients /\ z.m.clients[j] = x.m.clients[j]
        BY ONLY <1>2, <3>2
      <4>2. y.m.clients[j].status = z.m.clients[j].status
        BY ONLY <2>3, <4>1
      <4> QED
        BY ONLY <4>1, <4>2
    <3>3. y.m.caps = x.m.caps /\ y.m.next = x.m.next + 1
      BY <1>2, <2>3
    <3> QED
      BY ONLY <1>4, <3>1, <3>2, <3>3
  <2>8. \A j \in Ids : /\ PipeSure(y.s[j])
                       /\ There(y.m, y.s[j], j) =>
                             \/ There(x.m, x.s[j], j) /\ PassedOn(x.s[j], y.s[j], Head(rs), j)
                             \/ j \notin 0 .. x.m.next - 1 /\ \A f \in Ftypes : x.m.caps[f] # j
    <3>1. ASSUME NEW j \in Ids, j # id
          PROVE  /\ PipeSure(y.s[j])
                 /\ There(y.m, y.s[j], j) => There(x.m, x.s[j], j) /\ PassedOn(x.s[j], y.s[j], Head(rs), j)
      <4>1. y.s[j] = x.s[j]
        BY <1>2, <2>3, <3>1, ZenonT(40)
      <4>2. j \in DOMAIN y.m.clients => j \in DOMAIN x.m.clients
        BY <1>2, <2>3, <3>1
      <4> QED
        BY <1>7, <1>8, <4>1, <4>2 DEF There
    <3> QED
      BY <1>1, <1>4, <1>6, <2>6, <3>1
  <2> QED
    BY ONLY <1>4, <2>5, <2>7, <2>8, SyncTaken, rs # <<>>, w.open \subseteq Docs, Sync(x.m, x.s, rs, w)
<1> QED
  BY <1>9, <1>10

(* A sequence of the elements of a set has each of them once.               *)
LEMMA SetToSeqFacts ==
  ASSUME NEW S, IsFiniteSet(S), NEW q, q = SetToSeq(S), NEW n, n = Cardinality(S)
  PROVE  /\ n \in Nat /\ q \in [1 .. n -> S]
         /\ \A i, j \in 1 .. n : q[i] = q[j] => i = j
         /\ \A e \in S : \E i \in 1 .. n : q[i] = e
<1>1. n \in Nat /\ ExistsBijection(1 .. n, S)
  BY FS_CardinalityType
<1>2. \E f \in [1 .. n -> S] : IsInjective(f)
  BY <1>1 DEF ExistsBijection, Bijection, Injection
<1>3. q \in [1 .. n -> S] /\ IsInjective(q)
  BY <1>2 DEF SetToSeq
<1>4. q \in Injection(1 .. n, S)
  BY <1>3 DEF Injection
<1>5. IsFiniteSet(1 .. n) /\ Cardinality(1 .. n) = n
  BY <1>1, FS_Interval
<1>6. q \in Surjection(1 .. n, S)
  BY <1>4, <1>5, FS_Injection
<1> QED
  BY <1>1, <1>3, <1>6 DEF IsInjective, Surjection

(* Something is written that makes a claim which the rest does not break.   *)
LEMMA PipeMakes ==
  ASSUME NEW sv, IsSeq(sv.in), NEW more, IsSeq(more), NEW sv2, sv2.in = sv.in \o more,
         NEW i \in DOMAIN more, NEW d, NEW c, Makes(more[i], d, c),
         \A j \in DOMAIN more : i < j => ~ Breaks(more[j], d, c)
  PROVE  EndSure(sv2, d, c)
<1>1. PICK q, l : q = sv2.in /\ l = Len(sv.in)
  OBVIOUS
<1>2. /\ IsSeq(q) /\ l \in Nat /\ Len(more) \in Nat /\ Len(q) = l + Len(more)
      /\ DOMAIN more = 1 .. Len(more) /\ DOMAIN q = 1 .. l + Len(more)
      /\ \A j \in 1 .. Len(more) : q[l + j] = more[j]
  <2>1. PICK p : p = sv.in
    OBVIOUS
  <2>2. q = p \o more /\ l = Len(p) /\ IsSeq(p)
    BY <1>1, <2>1
  <2> QED
    BY ONLY <2>2, IsSeq(more), SeqConcat
<1>3. l + i \in DOMAIN q /\ q[l + i] = more[i] /\ l + i < Len(q) + 1
  BY <1>2
<1>4. l + i \in MakesIn(q, NoId, d, c)
  BY <1>3 DEF MakesIn, For
<1>5. ASSUME NEW j \in BreaksIn(q, NoId, d, c), l + i < j PROVE FALSE
  <2>1. j \in DOMAIN q /\ Breaks(q[j], d, c)
    BY <1>5 DEF BreaksIn
  <2>2. PICK k : k = j - l
    OBVIOUS
  <2>3. k \in DOMAIN more /\ i < k /\ j = l + k
    BY ONLY <1>2, <1>5, <2>1, <2>2, i \in DOMAIN more
  <2>4. q[j] = more[k]
    BY ONLY <1>2, <2>3
  <2> QED
    BY <2>1, <2>3, <2>4
<1>6. BegunIn(MakesIn(q, NoId, d, c), BreaksIn(q, NoId, d, c), Len(q) + 1)
  BY <1>3, <1>4, <1>5 DEF BegunIn
<1> QED
  BY <1>1, <1>6 DEF EndSure, InSure, Holds

(* A server is told of the documents that it was started with.              *)
LEMMA OpensFacts ==
  ASSUME NEW x, NEW rs, Ctx(x, rs), NEW id \in Ids, Running(x, id), NEW docs, DOMAIN docs \subseteq Docs, Numbers(docs),
         PipeSure(x.s[id]), NEW y, y = SendNotifications(x, id, "didOpen", docs)
  PROVE  /\ y.m = x.m /\ \A j \in Ids \ {id} : y.s[j] = x.s[j]
         /\ PipeSure(y.s[id]) /\ y.s[id].st = x.s[id].st
         /\ y.s[id].st = "up" =>
              \A d \in DOMAIN docs : EndSure(y.s[id], d, Opened) /\ EndSure(y.s[id], d, docs[d])
<1> DEFINE ds == SetToSeq(DOMAIN docs)
           n == Cardinality(DOMAIN docs)
           more == [i \in 1 .. n |-> ToServer("notify", -1, "didOpen", ds[i], docs[ds[i]])]
<1>1. /\ DOMAIN x = {"m", "s", "ev"} /\ DOMAIN x.s = Ids /\ DOMAIN x.s[id] = SrvFields /\ IsSeq(x.s[id].in)
  BY CtxShaped DEF Shaped
<1>2. CASE x.s[id].st # "up"
  <2>1. y = x
    BY <1>2 DEF SendNotifications
  <2> QED
    BY <1>2, <2>1
<1>3. CASE x.s[id].st = "up"
  <2>1. y = [x EXCEPT !.s[id].in = x.s[id].in \o more]
    BY <1>3 DEF SendNotifications
  <2>2. IsFiniteSet(DOMAIN docs)
    BY LspAssumption, FS_Subset
  <2>3. /\ n \in Nat /\ ds \in [1 .. n -> DOMAIN docs]
        /\ \A i, j \in 1 .. n : ds[i] = ds[j] => i = j
        /\ \A e \in DOMAIN docs : \E i \in 1 .. n : ds[i] = e
    BY <2>2, SetToSeqFacts
  <2> HIDE DEF n, ds
  <2>4. ASSUME NEW i \in 1 .. n
        PROVE  /\ more[i].k = "notify" /\ more[i].m = "didOpen" /\ more[i].d = ds[i] /\ more[i].v = docs[ds[i]]
               /\ ds[i] \in DOMAIN docs
    BY <2>3 DEF ToServer
  <2>5. DOMAIN more = 1 .. n /\ IsSeq(more)
    <3>1. DOMAIN more = 1 .. n /\ more = [i \in 1 .. n |-> more[i]]
      OBVIOUS
    <3> HIDE DEF more
    <3> QED
      BY ONLY <2>3, <3>1, SeqMade
  <2> HIDE DEF more
  <2>6. PICK v, sv, sv2 : v = x.s[id].in \o more /\ sv = x.s[id] /\ sv2 = y.s[id]
    OBVIOUS
  <2>7. /\ y.m = x.m /\ \A j \in Ids \ {id} : y.s[j] = x.s[j]
        /\ y.s[id].in = v /\ y.s[id].st = x.s[id].st /\ y.s[id].has = x.s[id].has
    BY ONLY <1>1, <2>1, <2>6, id \in Ids, SetInput
  <2>8. sv2.in = sv.in \o more /\ sv2.st = sv.st /\ sv2.has = sv.has /\ IsSeq(sv.in) /\ PipeSure(sv)
    BY <1>1, <2>6, <2>7
  <2>9. \A i \in DOMAIN more : ~ Asks(more[i]) /\ Tells(more[i])
    <3> SUFFICES ASSUME NEW i \in 1 .. n PROVE ~ Asks(more[i]) /\ Tells(more[i])
      BY <2>5
    <3>1. docs[ds[i]] \in Nat /\ ds[i] \in Docs
      BY <2>4 DEF Numbers
    <3> QED
      BY <2>4, <3>1 DEF Asks, Tells
  <2>10. PipeSure(sv2)
    BY ONLY <2>5, <2>8, <2>9, PipeSureMore
  <2>11. ASSUME NEW d \in DOMAIN docs PROVE EndSure(sv2, d, Opened) /\ EndSure(sv2, d, docs[d])
    <3>1. PICK i \in 1 .. n : ds[i] = d
      BY <2>3
    <3>2. \A c : (c = Opened \/ c = docs[d]) => Makes(more[i], d, c)
      BY <2>4, <3>1 DEF Makes
    <3>3. \A j \in DOMAIN more : i < j => more[j].d # d
      BY <2>3, <2>4, <2>5, <3>1
    <3>4. \A j \in DOMAIN more : i < j => \A c : ~ Breaks(more[j], d, c)
      BY <3>3 DEF Breaks
    <3>5. i \in DOMAIN more
      BY <2>5
    <3>6. ASSUME NEW c, c = Opened \/ c = docs[d] PROVE EndSure(sv2, d, c)
      <4>1. Makes(more[i], d, c) /\ \A j \in DOMAIN more : i < j => ~ Breaks(more[j], d, c)
        BY <3>2, <3>4, <3>6
      <4> QED
        BY ONLY <2>5, <2>8, <3>5, <4>1, PipeMakes
    <3> QED
      BY <3>6
  <2> QED
    BY <2>6, <2>7, <2>10, <2>11
<1> QED
  BY <1>2, <1>3

(* What the editor notes when the manager has handled a request: its        *)
(* buffers stay as they are.                                                *)
LEMMA OvertakenFacts ==
  ASSUME DOMAIN ed = EdFields, NEW x, NEW w, w = Overtaken(x)
  PROVE  /\ w.open = ed.open /\ w.txt = ed.txt /\ w.disk = ed.disk /\ w.dirty = ed.dirty
         /\ w.log = ed.log /\ w.fresh = ed.fresh
         /\ x.m.caps = man.caps => w.unopened = ed.unopened /\ w.stale = ed.stale
         /\ \A d \in w.open : (x.m.caps[FtypeOf[d]] = man.caps[FtypeOf[d]]) =>
              (d \notin w.unopened => d \notin ed.unopened) /\ (d \notin w.stale => d \notin ed.stale)
<1> DEFINE new    == { f \in Ftypes : x.m.caps[f] # man.caps[f] }
           told   == UNION { DOMAIN p.docs : p \in { man.pending[k] : k \in DOMAIN man.pending \ DOMAIN x.m.pending } }
           sentAs == [d \in told |-> (CHOOSE p \in { man.pending[k] : k \in DOMAIN man.pending \ DOMAIN x.m.pending } :
                                           d \in DOMAIN p.docs).docs[d]]
           ofNew  == { d \in ed.open : FtypeOf[d] \in new }
           behind == { d \in ofNew \cap told : sentAs[d] # ed.txt[d] /\ ~ed.dirty[d] }
<1>1. w = [ed EXCEPT !.unopened = (@ \ ofNew) \cup (ofNew \ told), !.stale = (@ \ ofNew) \cup behind]
  BY DEF Overtaken
<1>2. \A d : d \in ofNew => x.m.caps[FtypeOf[d]] # man.caps[FtypeOf[d]]
  OBVIOUS
<1>3. behind \subseteq ofNew
  OBVIOUS
<1> HIDE DEF new, told, sentAs, ofNew, behind
<1>4. /\ w.open = ed.open /\ w.txt = ed.txt /\ w.disk = ed.disk /\ w.dirty = ed.dirty
      /\ w.log = ed.log /\ w.fresh = ed.fresh
      /\ w.unopened = (ed.unopened \ ofNew) \cup (ofNew \ told) /\ w.stale = (ed.stale \ ofNew) \cup behind
  BY ONLY <1>1, DOMAIN ed = EdFields DEF EdFields
<1>5. ASSUME x.m.caps = man.caps PROVE w.unopened = ed.unopened /\ w.stale = ed.stale
  <2>1. ofNew = {} /\ behind = {}
    BY <1>2, <1>3, <1>5
  <2> QED
    BY ONLY <1>4, <2>1
<1> QED
  BY <1>2, <1>4, <1>5

(* A server was initialised: what it was told of is noted.                  *)
LEMMA OvertakenInitialised ==
  ASSUME DOMAIN ed = EdFields, NEW x, NEW w, w = Overtaken(x), NEW key \in DOMAIN man.pending,
         DOMAIN x.m.pending = DOMAIN man.pending \ {key}, NEW p, p = man.pending[key],
         NEW d \in ed.open, FtypeOf[d] \in Ftypes, x.m.caps[FtypeOf[d]] # man.caps[FtypeOf[d]], d \notin w.unopened
  PROVE  /\ d \in DOMAIN p.docs
         /\ (d \notin w.stale /\ ~ ed.dirty[d]) => p.docs[d] = ed.txt[d]
<1> DEFINE new    == { f \in Ftypes : x.m.caps[f] # man.caps[f] }
           kept   == { man.pending[k] : k \in DOMAIN man.pending \ DOMAIN x.m.pending }
           told   == UNION { DOMAIN q.docs : q \in kept }
           sentAs == [e \in told |-> (CHOOSE q \in kept : e \in DOMAIN q.docs).docs[e]]
           ofNew  == { e \in ed.open : FtypeOf[e] \in new }
           behind == { e \in ofNew \cap told : sentAs[e] # ed.txt[e] /\ ~ed.dirty[e] }
<1>1. w = [ed EXCEPT !.unopened = (@ \ ofNew) \cup (ofNew \ told), !.stale = (@ \ ofNew) \cup behind]
  BY DEF Overtaken
<1>2. d \in ofNew
  OBVIOUS
<1>3. kept = {p}
  OBVIOUS
<1>4. d \in told => d \in DOMAIN p.docs /\ sentAs[d] = p.docs[d]
  <2>1. ASSUME d \in told PROVE d \in DOMAIN p.docs
    BY <1>3, <2>1
  <2>2. ASSUME d \in told PROVE sentAs[d] = p.docs[d]
    <3>1. (CHOOSE q \in kept : d \in DOMAIN q.docs) = p
      BY <1>3, <2>1, <2>2
    <3> QED
      BY <2>2, <3>1
  <2> QED
    BY <2>1, <2>2
<1>5. (d \in ofNew \cap told /\ sentAs[d] # ed.txt[d] /\ ~ed.dirty[d]) => d \in behind
  OBVIOUS
<1> HIDE DEF new, kept, told, sentAs, ofNew, behind
<1>6. w.unopened = (ed.unopened \ ofNew) \cup (ofNew \ told) /\ w.stale = (ed.stale \ ofNew) \cup behind
  BY ONLY <1>1, DOMAIN ed = EdFields DEF EdFields
<1> QED
  BY <1>2, <1>4, <1>5, <1>6

(* the first on the channel is the answer of server id to a question p that *)
(* initialises it                                                           *)
Initialises(x, rs, id, key, p) ==
    /\ id \in DOMAIN x.m.clients /\ rs # <<>>
    /\ Head(rs).k = "message" /\ Head(rs).id = id /\ Head(rs).msg.k = "response"
    /\ key = <<id, Head(rs).msg.rid>> /\ key \in DOMAIN x.m.pending
    /\ p = x.m.pending[key] /\ p.m = "initialize"

(* An answer that initialises a server is taken: the server is in use, and  *)
(* is told of the buffers that it was started with.                         *)
LEMMA ReadyTaken ==
  ASSUME NEW x, NEW rs, Ctx(x, rs), NEW w, w.open \subseteq Docs, Sync(x.m, x.s, rs, w),
         NEW id, NEW key, NEW p, Initialises(x, rs, id, key, p),
         NEW res, res.enc # "unknown", NEW y, y = Initialized(Answered(x, key), id, p, res)
  PROVE  /\ id \in Ids /\ p.f \in Ftypes /\ DOMAIN p.docs \subseteq Docs /\ Numbers(p.docs)
         /\ y.m.next = x.m.next
         /\ \A f \in Ftypes : y.m.caps[f] = IF f = p.f THEN id ELSE x.m.caps[f]
         /\ \A f \in Ftypes : x.m.caps[f] # id
         /\ DOMAIN y.m.clients = DOMAIN x.m.clients /\ x.m.clients[id].status = "Initializing"
         /\ \A j \in DOMAIN x.m.clients \ {id} : y.m.clients[j] = x.m.clients[j]
         /\ y.m.clients[id].status = "Running"
         /\ DOMAIN y.m.pending = DOMAIN x.m.pending \ {key}
         /\ \A k \in DOMAIN y.m.pending : y.m.pending[k] = x.m.pending[k]
         /\ \A j \in Ids \ {id} : y.s[j] = x.s[j]
         /\ PipeSure(y.s[id])
         /\ y.s[id].st = "up" =>
              \A d \in DOMAIN p.docs : EndSure(y.s[id], d, Opened) /\ EndSure(y.s[id], d, p.docs[d])
<1>0. /\ id \in DOMAIN x.m.clients /\ rs # <<>>
      /\ Head(rs).k = "message" /\ Head(rs).id = id /\ Head(rs).msg.k = "response"
      /\ key = <<id, Head(rs).msg.rid>> /\ key \in DOMAIN x.m.pending
      /\ p = x.m.pending[key] /\ p.m = "initialize"
  BY DEF Initialises
<1>1. /\ ManTyped(x.m) /\ DOMAIN x.m.clients \subseteq Ids
  BY CtxParts
<1>2. id \in Ids
  BY <1>0, <1>1
<1>3. Starting(x.m) /\ \A j \in Ids : PipeSure(x.s[j])
  BY DEF Sync, SureAt
<1>4. /\ p.f \in Ftypes /\ Numbers(p.docs) /\ DOMAIN p.docs \subseteq Docs
      /\ x.m.clients[id].status = "Initializing"
  <2>1. key[1] = id
    BY <1>0
  <2> QED
    BY <1>0, <1>1, <1>3, <2>1 DEF Starting, ManTyped
<1>5. \A f \in Ftypes : x.m.caps[f] # id
  BY <1>0, <1>1, <1>4 DEF ManTyped
<1>6. PICK u, msg : u = Answered(x, key) /\ msg = Head(rs).msg
  OBVIOUS
<1>7. /\ Ctx(u, Tail(rs)) /\ u.s = x.s
      /\ u.m.clients = x.m.clients /\ u.m.next = x.m.next /\ u.m.caps = x.m.caps
      /\ DOMAIN u.m.pending = DOMAIN x.m.pending \ {key}
      /\ \A k \in DOMAIN u.m.pending : u.m.pending[k] = x.m.pending[k]
  <2>1. /\ rs # <<>> /\ Head(rs).k = "message" /\ Head(rs).id = id /\ Head(rs).msg = msg /\ msg.k = "response"
        /\ key = <<id, msg.rid>>
    BY <1>0, <1>6
  <2> QED
    BY ONLY Ctx(x, rs), <1>2, <1>6, <2>1, AnsweredFacts
<1>8. PICK z, rest : z = Ready(u, id, p, res) /\ rest = Tail(rs)
  OBVIOUS
<1>9. Ctx(u, rest) /\ id \in DOMAIN u.m.clients
  BY <1>0, <1>7, <1>8
<1>10. /\ Ctx(z, rest) /\ z.s = u.s /\ z.m.pending = u.m.pending /\ z.m.next = u.m.next
       /\ \A f \in Ftypes : z.m.caps[f] = IF f = p.f THEN id ELSE u.m.caps[f]
       /\ DOMAIN z.m.clients = DOMAIN u.m.clients
       /\ \A j \in DOMAIN u.m.clients \ {id} : z.m.clients[j] = u.m.clients[j]
       /\ z.m.clients[id].status = "Running"
  BY ONLY <1>8, <1>9, ReadyFacts
<1>11. PICK v : v = SendNotification(z, id, "initialized", NoDoc, 0)
  OBVIOUS
<1>12. Ctx(v, rest) /\ v.m = z.m
  BY ONLY <1>10, <1>11, SendNotificationKeeps
<1>13. "initialized" \notin SyncKinds
  BY DEF SyncKinds
<1>14. Calm(z, v)
  BY ONLY <1>10, <1>11, <1>13, SendNotificationCalm
<1>15. /\ PipeSure(v.s[id]) /\ \A j \in Ids \ {id} : v.s[j] = z.s[j]
  <2>1. PipeSure(z.s[id])
    BY <1>2, <1>3, <1>7, <1>10
  <2>2. Keeps(z.s[id], v.s[id])
    BY <1>2, <1>14 DEF Calm
  <2>3. PICK note : note = ToServer("notify", -1, "initialized", NoDoc, 0)
    OBVIOUS
  <2>4. v = z \/ v = Write(z, id, note)
    BY <1>11, <2>3 DEF SendNotification
  <2>5. Shaped(z)
    BY <1>10, CtxShaped
  <2>6. v = z \/ Written(z, id, note, v)
    BY <1>2, <2>4, <2>5, WriteFacts
  <2> QED
    BY <2>1, <2>2, <2>6 DEF Keeps, Written
<1>16. y = SendNotifications(v, id, "didOpen", p.docs)
  BY <1>6, <1>8, <1>9, <1>11 DEF Initialized, Ready
<1>17. Running(v, id)
  BY <1>9, <1>10, <1>12 DEF Running
<1>18. PICK docs : docs = p.docs
  OBVIOUS
<1>19. /\ DOMAIN docs \subseteq Docs /\ Numbers(docs) /\ y = SendNotifications(v, id, "didOpen", docs) /\ PipeSure(v.s[id])
  BY <1>4, <1>15, <1>16, <1>18
<1>20. /\ y.m = v.m /\ \A j \in Ids \ {id} : y.s[j] = v.s[j]
       /\ PipeSure(y.s[id]) /\ y.s[id].st = v.s[id].st
       /\ y.s[id].st = "up" =>
            \A d \in DOMAIN docs : EndSure(y.s[id], d, Opened) /\ EndSure(y.s[id], d, docs[d])
  BY ONLY <1>2, <1>12, <1>17, <1>19, OpensFacts
<1>21. /\ y.m.next = x.m.next
       /\ \A f \in Ftypes : y.m.caps[f] = IF f = p.f THEN id ELSE x.m.caps[f]
       /\ DOMAIN y.m.clients = DOMAIN x.m.clients
       /\ \A j \in DOMAIN x.m.clients \ {id} : y.m.clients[j] = x.m.clients[j]
       /\ y.m.clients[id].status = "Running"
       /\ DOMAIN y.m.pending = DOMAIN x.m.pending \ {key}
       /\ \A k \in DOMAIN y.m.pending : y.m.pending[k] = x.m.pending[k]
       /\ \A j \in Ids \ {id} : y.s[j] = x.s[j]
  <2>1. y.m = z.m
    BY ONLY <1>12, <1>20
  <2> QED
    BY ONLY <1>7, <1>10, <1>15, <1>20, <2>1
<1> QED
  BY ONLY <1>2, <1>4, <1>5, <1>18, <1>20, <1>21

(* What is on the channel for a server that is not running asks it nothing. *)
LEMMA NothingAddressed ==
  ASSUME NEW m, NEW rs, \A k \in DOMAIN rs : Addressed(m, rs[k]), NEW id \in DOMAIN m.clients,
         m.clients[id].status # "Running"
  PROVE  \A k \in DOMAIN rs : /\ ~ (Asks(rs[k]) /\ rs[k].id = id)
                              /\ id # NoId => ~ For(rs[k], id)
<1> SUFFICES ASSUME NEW k \in DOMAIN rs
             PROVE  ~ (Asks(rs[k]) /\ rs[k].id = id) /\ (id # NoId => ~ For(rs[k], id))
  OBVIOUS
<1>1. PICK r : r = rs[k]
  OBVIOUS
<1>2. Addressed(m, r)
  BY <1>1
<1>3. ~ (Asks(r) /\ r.id = id) /\ (id # NoId => ~ For(r, id))
  BY <1>2 DEF Addressed, Asks, For
<1> QED
  BY <1>1, <1>3

(* The first is taken from the channel, and other buffers are noted: what   *)
(* the other servers have to know is not more.                              *)
LEMMA SureNoted ==
  ASSUME NEW m, NEW m2, NEW sv, NEW rs, NEW id, NEW w, NEW w2, SureAt(m, sv, rs, id, w),
         There(m2, sv, id) => There(m, sv, id), w2.txt = w.txt, w2.dirty = w.dirty,
         \A d \in ReportedTo(m2, w2, id) : d \in ReportedTo(m, w, id) /\ (d \notin w2.stale => d \notin w.stale)
  PROVE  SureAt(m2, sv, rs, id, w2)
<1> SUFFICES ASSUME There(m2, sv, id) PROVE ReqsSure(sv, rs, id) /\ EditorSure(m2, sv, rs, id, w2)
  BY DEF SureAt
<1>1. ReqsSure(sv, rs, id) /\ EditorSure(m, sv, rs, id, w)
  BY DEF SureAt
<1>0. w2.txt = w.txt /\ w2.dirty = w.dirty
      /\ \A d \in ReportedTo(m2, w2, id) : d \in ReportedTo(m, w, id) /\ (d \notin w2.stale => d \notin w.stale)
  OBVIOUS
<1>2. ASSUME NEW d \in ReportedTo(m2, w2, id)
      PROVE  /\ ReqSure(sv, rs, id, d, Len(rs) + 1, Opened)
             /\ (d \notin w2.stale /\ ~ w2.dirty[d]) => ReqSure(sv, rs, id, d, Len(rs) + 1, w2.txt[d])
  BY ONLY <1>0, <1>1, <1>2 DEF EditorSure
<1> QED
  BY ONLY <1>1, <1>2 DEF EditorSure

(* A server was initialised, and what it does not know is noted.            *)
LEMMA InitialTaken ==
  ASSUME DOMAIN ed = EdFields, ed.open \subseteq Docs,
         NEW x, x.m = man, NEW rs, Ctx(x, rs), Sync(x.m, x.s, rs, ed),
         NEW id, NEW key, NEW p, Initialises(x, rs, id, key, p),
         NEW res, res.enc # "unknown", NEW y, y = Initialized(Answered(x, key), id, p, res),
         NEW w, w = Overtaken(y)
  PROVE  Sync(y.m, y.s, Tail(rs), w)
<1>1. /\ id \in Ids /\ p.f \in Ftypes /\ DOMAIN p.docs \subseteq Docs /\ Numbers(p.docs)
      /\ y.m.next = x.m.next
      /\ \A f \in Ftypes : y.m.caps[f] = IF f = p.f THEN id ELSE x.m.caps[f]
      /\ \A f \in Ftypes : x.m.caps[f] # id
      /\ DOMAIN y.m.clients = DOMAIN x.m.clients /\ x.m.clients[id].status = "Initializing"
      /\ \A j \in DOMAIN x.m.clients \ {id} : y.m.clients[j] = x.m.clients[j]
      /\ y.m.clients[id].status = "Running"
      /\ DOMAIN y.m.pending = DOMAIN x.m.pending \ {key}
      /\ \A k \in DOMAIN y.m.pending : y.m.pending[k] = x.m.pending[k]
      /\ \A j \in Ids \ {id} : y.s[j] = x.s[j]
      /\ PipeSure(y.s[id])
      /\ y.s[id].st = "up" =>
           \A d \in DOMAIN p.docs : EndSure(y.s[id], d, Opened) /\ EndSure(y.s[id], d, p.docs[d])
  BY ONLY Ctx(x, rs), ed.open \subseteq Docs, Sync(x.m, x.s, rs, ed), Initialises(x, rs, id, key, p),
          res.enc # "unknown", y = Initialized(Answered(x, key), id, p, res), ReadyTaken
<1>0. /\ id \in DOMAIN x.m.clients /\ rs # <<>>
      /\ Head(rs).k = "message" /\ Head(rs).id = id /\ Head(rs).msg.k = "response"
      /\ key = <<id, Head(rs).msg.rid>> /\ key \in DOMAIN x.m.pending
      /\ p = x.m.pending[key] /\ p.m = "initialize"
  BY DEF Initialises
<1>2. PICK rest : rest = Tail(rs)
  OBVIOUS
<1>3. /\ IsSeq(rs) /\ ManTyped(x.m) /\ IsSeq(rest) /\ Len(rest) \in Nat
      /\ \A k \in DOMAIN rest : k + 1 \in DOMAIN rs /\ rest[k] = rs[k + 1]
  <2>1. IsSeq(rs) /\ ManTyped(x.m)
    BY CtxParts DEF ReqsTyped
  <2>2. IsSeq(rest)
    BY <1>0, <1>2, <2>1, SeqTail
  <2>3. Len(rest) \in Nat
    BY <2>2, SeqFacts
  <2> QED
    BY <1>0, <1>2, <2>1, <2>2, <2>3, ValuesTail
<1>4. /\ \A k \in DOMAIN rest : Addressed(x.m, rest[k])
      /\ \A j \in Ids : SureAt(x.m, x.s[j], rs, j, ed)
      /\ Starting(x.m) /\ Contents(ed)
  BY <1>3 DEF Sync
<1>5. /\ w.open = ed.open /\ w.txt = ed.txt /\ w.disk = ed.disk /\ w.dirty = ed.dirty
      /\ w.log = ed.log /\ w.fresh = ed.fresh
      /\ \A d \in w.open : (y.m.caps[FtypeOf[d]] = x.m.caps[FtypeOf[d]]) =>
           (d \notin w.unopened => d \notin ed.unopened) /\ (d \notin w.stale => d \notin ed.stale)
  <2>1. PICK z : z = y
    OBVIOUS
  <2>2. w = Overtaken(z)
    BY <2>1
  <2> QED
    BY ONLY DOMAIN ed = EdFields, x.m = man, <2>1, <2>2, OvertakenFacts
<1>6. ASSUME NEW d \in ed.open, y.m.caps[FtypeOf[d]] = id, d \notin w.unopened
      PROVE  d \in DOMAIN p.docs /\ ((d \notin w.stale /\ ~ ed.dirty[d]) => p.docs[d] = ed.txt[d])
  <2>1. FtypeOf[d] \in Ftypes
    BY LspAssumption
  <2>2. y.m.caps[FtypeOf[d]] # man.caps[FtypeOf[d]]
    BY ONLY <1>1, <1>6, <2>1, x.m = man
  <2>3. key \in DOMAIN man.pending /\ DOMAIN y.m.pending = DOMAIN man.pending \ {key} /\ p = man.pending[key]
    BY ONLY <1>0, <1>1, x.m = man
  <2> QED
    BY ONLY DOMAIN ed = EdFields, w = Overtaken(y), <1>6, <2>1, <2>2, <2>3, OvertakenInitialised
<1>7. \A k \in DOMAIN rest : ~ (Asks(rest[k]) /\ rest[k].id = id) /\ ~ For(rest[k], id)
  <2>1. x.m.clients[id].status # "Running"
    BY <1>1
  <2>2. id # NoId
    BY <1>1, IdsAreServers
  <2> QED
    BY ONLY <1>0, <1>4, <2>1, <2>2, NothingAddressed
<1>8. SureAt(y.m, y.s[id], rest, id, w)
  <2> SUFFICES ASSUME There(y.m, y.s[id], id)
               PROVE  ReqsSure(y.s[id], rest, id) /\ EditorSure(y.m, y.s[id], rest, id, w)
    BY <1>1 DEF SureAt
  <2>1. ReqsSure(y.s[id], rest, id)
    BY <1>7 DEF ReqsSure
  <2>2. ASSUME NEW d, NEW c, EndSure(y.s[id], d, c) PROVE ReqSure(y.s[id], rest, id, d, Len(rest) + 1, c)
    <3>1. BreaksIn(rest, id, d, c) = {}
      BY <1>7 DEF BreaksIn
    <3> QED
      BY <2>2, <3>1 DEF ReqSure, Holds, Untouched
  <2>3. ASSUME NEW d \in ReportedTo(y.m, w, id)
        PROVE  /\ ReqSure(y.s[id], rest, id, d, Len(rest) + 1, Opened)
               /\ (d \notin w.stale /\ ~ w.dirty[d]) => ReqSure(y.s[id], rest, id, d, Len(rest) + 1, w.txt[d])
    <3>1. d \in ed.open /\ y.m.caps[FtypeOf[d]] = id /\ d \notin w.unopened
      BY <1>5, <2>3 DEF ReportedTo
    <3>2. d \in DOMAIN p.docs /\ ((d \notin w.stale /\ ~ ed.dirty[d]) => p.docs[d] = ed.txt[d])
      BY <1>6, <3>1
    <3>3. EndSure(y.s[id], d, Opened) /\ EndSure(y.s[id], d, p.docs[d])
      BY <1>1, <3>2 DEF There
    <3> QED
      BY <1>5, <2>2, <3>2, <3>3
  <2> QED
    BY <2>1, <2>3 DEF EditorSure
<1>9. ASSUME NEW j \in Ids, j # id PROVE SureAt(y.m, y.s[j], rest, j, w)
  <2>1. PICK sv, m, m2 : sv = x.s[j] /\ m = x.m /\ m2 = y.m
    OBVIOUS
  <2>2. SureAt(m, sv, rs, j, ed) /\ PipeSure(sv)
    BY <1>4, <2>1 DEF SureAt
  <2>3. ~ For(Head(rs), j)
    BY <1>0, IdsAreServers DEF For
  <2>4. PassedOn(sv, sv, Head(rs), j)
    BY <2>3 DEF PassedOn
  <2>5. SureAt(m, sv, Tail(rs), j, ed)
    BY ONLY <1>0, <1>3, <2>2, <2>4, SureTaken
  <2>6. There(m2, sv, j) => There(m, sv, j)
    BY <1>1, <2>1 DEF There
  <2>7. ASSUME NEW d \in ReportedTo(m2, w, j)
        PROVE  d \in ReportedTo(m, ed, j) /\ (d \notin w.stale => d \notin ed.stale)
    <3>1. d \in ed.open /\ d \notin w.unopened /\ y.m.caps[FtypeOf[d]] = j /\ FtypeOf[d] \in Ftypes
      BY <1>5, <2>1, <2>7, LspAssumption DEF ReportedTo
    <3>2. y.m.caps[FtypeOf[d]] = x.m.caps[FtypeOf[d]]
      BY <1>1, <1>9, <3>1
    <3> QED
      BY <1>5, <2>1, <3>1, <3>2 DEF ReportedTo
  <2>8. SureAt(m2, sv, rest, j, w)
    BY ONLY <1>2, <1>5, <2>5, <2>6, <2>7, SureNoted
  <2> QED
    BY ONLY <1>1, <1>9, <2>1, <2>8
<1>10. ASSUME NEW k \in DOMAIN rest PROVE Addressed(y.m, rest[k])
  <2>1. PICK r : r = rest[k]
    OBVIOUS
  <2>2. Addressed(x.m, r)
    BY <1>4, <2>1
  <2>3. Addressed(y.m, r)
    BY ONLY <1>1, <2>2 DEF Addressed
  <2> QED
    BY <2>1, <2>3
<1>11. Starting(y.m)
  <2> SUFFICES ASSUME NEW i \in DOMAIN y.m.pending, y.m.pending[i].m = "initialize"
               PROVE  /\ i[2] = 0 /\ y.m.pending[i].f \in Ftypes /\ Numbers(y.m.pending[i].docs)
                      /\ i[1] \in DOMAIN y.m.clients => y.m.clients[i[1]].status = "Initializing"
    BY DEF Starting
  <2>1. i \in DOMAIN x.m.pending /\ i # key /\ y.m.pending[i] = x.m.pending[i]
    BY <1>1
  <2>2. /\ i[2] = 0 /\ x.m.pending[i].f \in Ftypes /\ Numbers(x.m.pending[i].docs)
        /\ i[1] \in DOMAIN x.m.clients => x.m.clients[i[1]].status = "Initializing"
    BY <1>4, <2>1 DEF Starting
  <2>3. key[2] = 0 /\ key[1] = id
    BY <1>0, <1>4 DEF Starting
  <2>4. i = <<i[1], i[2]>>
    BY <1>3, <2>1 DEF ManTyped
  <2>5. i[1] # id
    <3>1. key = <<key[1], key[2]>>
      BY ONLY <1>0
    <3> QED
      BY ONLY <2>1, <2>2, <2>3, <2>4, <3>1
  <2>6. PICK j : j = i[1]
    OBVIOUS
  <2>7. j \in DOMAIN y.m.clients => j \in DOMAIN x.m.clients /\ y.m.clients[j] = x.m.clients[j]
    BY ONLY <1>1, <2>5, <2>6
  <2> QED
    BY ONLY <2>1, <2>2, <2>6, <2>7
<1>12. Contents(w)
  BY <1>4, <1>5 DEF Contents
<1> QED
  BY ONLY <1>2, <1>8, <1>9, <1>10, <1>11, <1>12 DEF Sync

(* What servers and the editor know does not depend on where the focus is.  *)
SameBuffers(w, w2) ==
    /\ w2.open = w.open /\ w2.unopened = w.unopened /\ w2.stale = w.stale /\ w2.dirty = w.dirty
    /\ w2.txt = w.txt /\ w2.disk = w.disk /\ w2.fresh = w.fresh /\ w2.log = w.log

(* So it stays when only that changes.                                      *)
LEMMA SyncSame ==
  ASSUME NEW m, NEW s, NEW rs, NEW w, NEW w2, SameBuffers(w, w2), Sync(m, s, rs, w)
  PROVE  Sync(m, s, rs, w2)
<1>1. /\ w2.open = w.open /\ w2.unopened = w.unopened /\ w2.stale = w.stale /\ w2.dirty = w.dirty
      /\ w2.txt = w.txt /\ w2.disk = w.disk /\ w2.fresh = w.fresh /\ w2.log = w.log
  BY DEF SameBuffers
<1>2. Contents(w2)
  BY <1>1 DEF Sync, Contents
<1>3. \A id : ReportedTo(m, w2, id) = ReportedTo(m, w, id)
  BY ONLY <1>1 DEF ReportedTo
<1>4. ASSUME NEW id \in Ids PROVE SureAt(m, s[id], rs, id, w2)
  <2>1. SureAt(m, s[id], rs, id, w)
    BY DEF Sync
  <2> QED
    BY ONLY <1>1, <1>3, <2>1 DEF SureAt, EditorSure
<1> QED
  BY <1>2, <1>4 DEF Sync

(* The manager takes a message of a server.                                 *)
LEMMA SaidTaken ==
  ASSUME NEW x, NEW rs, Ctx(x, rs), rs # <<>>, NEW w, w.open \subseteq Docs, Sync(x.m, x.s, rs, w),
         NEW id \in Ids, NEW msg, Said(msg), Head(rs).k = "message", Head(rs).id = id, Head(rs).msg = msg,
         NEW y, y = HandleMessage(x, id, msg)
  PROVE  \/ Sync(y.m, y.s, Tail(rs), w) /\ y.m.caps = x.m.caps
         \/ \E key, p, res : /\ Initialises(x, rs, id, key, p) /\ res.enc # "unknown"
                             /\ y = Initialized(Answered(x, key), id, p, res)
<1>1. /\ ManTyped(x.m) /\ IsSeq(rs) /\ ServerOK(x.m, x.s[id], rs, id)
  BY CtxParts DEF ReqsTyped
<1>2. \A j \in Ids : ~ For(Head(rs), j)
  BY IdsAreServers DEF For
<1>3. ASSUME Calm(x, y) PROVE Sync(y.m, y.s, Tail(rs), w) /\ y.m.caps = x.m.caps
  BY ONLY <1>1, <1>2, <1>3, CalmTaken, rs # <<>>, w.open \subseteq Docs, Sync(x.m, x.s, rs, w)
<1>4. CASE msg.k # "response"
  <2>1. Calm(x, y)
    BY <1>4, SaidCalm
  <2> QED
    BY <1>3, <2>1
<1>5. CASE msg.k = "response"
  <2>1. PICK key : key = <<id, msg.rid>>
    OBVIOUS
  <2>2. CASE key \notin DOMAIN x.m.pending
    <3>1. y = x
      BY <1>5, <2>1, <2>2 DEF HandleMessage, HandleResponse
    <3> QED
      BY <1>3, <3>1, CalmSteps
  <2>3. CASE key \in DOMAIN x.m.pending
    <3>1. PICK p, u, res : p = x.m.pending[key] /\ u = Answered(x, key) /\ res = msg.res
      OBVIOUS
    <3>2. y = u \/ y = HandleRes(u, id, p, res)
      BY <1>5, <2>1, <2>3, <3>1 DEF HandleMessage, HandleResponse, Answered
    <3>3. /\ Ctx(u, Tail(rs)) /\ u.s = x.s
          /\ u.m.clients = x.m.clients /\ u.m.next = x.m.next /\ u.m.caps = x.m.caps
          /\ DOMAIN u.m.pending = DOMAIN x.m.pending \ {key}
          /\ \A k \in DOMAIN u.m.pending : u.m.pending[k] = x.m.pending[k]
      BY ONLY Ctx(x, rs), rs # <<>>, id \in Ids, <1>5, <2>1, <3>1, Head(rs).k = "message", Head(rs).id = id,
              Head(rs).msg = msg, AnsweredFacts
    <3>4. Calm(x, u)
      BY <3>3 DEF Calm, CalmMan, Keeps
    <3>5. p.m \in Kinds
      BY <1>1, <2>3, <3>1 DEF ManTyped
    <3>6. PICK rest : rest = Tail(rs)
      OBVIOUS
    <3>7. Ctx(u, rest)
      BY <3>3, <3>6
    <3>8. CASE y = u
      BY <1>3, <3>4, <3>8
    <3>9. CASE y = HandleRes(u, id, p, res) /\ p.m # "initialize"
      <4>1. Calm(u, y)
        BY ONLY <3>5, <3>7, <3>9, HandleResCalm
      <4> QED
        BY <1>3, <3>4, <4>1, CalmSteps
    <3>10. CASE y = HandleRes(u, id, p, res) /\ p.m = "initialize"
      <4>1. y = Initialized(u, id, p, res)
        BY <3>10 DEF HandleRes
      <4>2. CASE res.enc = "unknown"
        <5>1. y = StopClient(u, id)
          BY <4>1, <4>2 DEF Initialized
        <5>2. Calm(u, y)
          BY ONLY <3>7, <5>1, StopClientCalm
        <5> QED
          BY <1>3, <3>4, <5>2, CalmSteps
      <4>3. CASE res.enc # "unknown" /\ id \notin DOMAIN u.m.clients
        <5>1. y = u
          BY <4>1, <4>3 DEF Initialized
        <5> QED
          BY <1>3, <3>4, <5>1
      <4>4. CASE res.enc # "unknown" /\ id \in DOMAIN u.m.clients
        <5>1. Initialises(x, rs, id, key, p)
          BY <1>5, <2>1, <2>3, <3>1, <3>3, <3>10, <4>4 DEF Initialises
        <5> QED
          BY <3>1, <4>1, <4>4, <5>1
      <4> QED
        BY <4>2, <4>3, <4>4
    <3> QED
      BY <3>2, <3>8, <3>9, <3>10
  <2> QED
    BY <2>2, <2>3
<1> QED
  BY <1>4, <1>5

(* The manager handles a request.                                           *)
LEMMA HandleTaken ==
  ASSUME NEW x, NEW rs, Ctx(x, rs), rs # <<>>, Head(rs).k = "start" => x.m.next < Servers,
         NEW w, w.open \subseteq Docs, Sync(x.m, x.s, rs, w), NEW spawns, NEW y, y = Handle(x, Head(rs), spawns)
  PROVE  \/ Sync(y.m, y.s, Tail(rs), w) /\ y.m.caps = x.m.caps
         \/ \E id, key, p, res : /\ Initialises(x, rs, id, key, p) /\ res.enc # "unknown"
                                 /\ y = Initialized(Answered(x, key), id, p, res)
<1>1. PICK r : r = Head(rs)
  OBVIOUS
<1>2. IsSeq(rs) /\ OnChannel(r)
  <2>1. IsSeq(rs) /\ \A i \in DOMAIN rs : OnChannel(rs[i])
    BY CtxParts DEF ReqsTyped
  <2> QED
    BY <1>1, <2>1, SeqTail
<1>3. CASE r.k = "start"
  <2>1. y = HandleStart(x, r.f, r.docs, spawns)
    BY <1>1, <1>3 DEF Handle
  <2>2. x.m.next < Servers
    BY <1>1, <1>3
  <2>3. Sync(y.m, y.s, Tail(rs), w) /\ y.m.caps = x.m.caps
    BY ONLY Ctx(x, rs), rs # <<>>, w.open \subseteq Docs, Sync(x.m, x.s, rs, w), <1>1, <1>3, <2>1, <2>2, StartTaken, SMTT(30)
  <2> QED
    BY <2>3
<1>4. CASE r.k = "stop"
  <2>1. y = StopClient(x, r.id)
    BY <1>1, <1>4 DEF Handle
  <2>2. Calm(x, y)
    BY <2>1, StopClientCalm
  <2>3. \A j \in Ids : ~ For(Head(rs), j)
    BY <1>1, <1>4, IdsAreServers DEF For
  <2> QED
    BY ONLY <1>2, <2>2, <2>3, CalmTaken, rs # <<>>, w.open \subseteq Docs, Sync(x.m, x.s, rs, w)
<1>5. CASE r.k = "request"
  <2>1. PICK p : p = Pending(r.m, r.d, r.v, "none", <<>>)
    OBVIOUS
  <2>2. y = SendRequest(x, r.id, r.m, r.d, r.v, p) /\ p.m = r.m
    BY <1>1, <1>5, <2>1 DEF Handle, Pending
  <2>3. r.m \in Questions \cup {"resolve"}
    BY <1>2, <1>5 DEF OnChannel, Wish
  <2> QED
    BY ONLY Ctx(x, rs), rs # <<>>, w.open \subseteq Docs, Sync(x.m, x.s, rs, w), <1>1, <1>5, <2>2, <2>3, RequestTaken
<1>6. CASE r.k = "notify"
  <2>1. y = SendNotification(x, r.id, r.m, r.d, r.v)
    BY <1>1, <1>6 DEF Handle
  <2> QED
    BY ONLY Ctx(x, rs), rs # <<>>, w.open \subseteq Docs, Sync(x.m, x.s, rs, w), <1>1, <1>6, <2>1, NotifyTaken
<1>7. CASE r.k = "message"
  <2>1. PICK id, msg : id = r.id /\ msg = r.msg
    OBVIOUS
  <2>2. y = HandleMessage(x, id, msg)
    BY <1>1, <1>7, <2>1 DEF Handle
  <2>3. id \in Ids /\ Said(msg)
    BY <1>2, <1>7, <2>1 DEF OnChannel, Wish
  <2>4. Head(rs).k = "message" /\ Head(rs).id = id /\ Head(rs).msg = msg
    BY <1>1, <1>7, <2>1
  <2>5. \/ Sync(y.m, y.s, Tail(rs), w) /\ y.m.caps = x.m.caps
        \/ \E key, p, res : /\ Initialises(x, rs, id, key, p) /\ res.enc # "unknown"
                            /\ y = Initialized(Answered(x, key), id, p, res)
    BY ONLY Ctx(x, rs), rs # <<>>, w.open \subseteq Docs, Sync(x.m, x.s, rs, w), <2>2, <2>3, <2>4, SaidTaken
  <2>6. CASE Sync(y.m, y.s, Tail(rs), w) /\ y.m.caps = x.m.caps
    BY ONLY <2>6
  <2>7. ASSUME NEW key, NEW p, NEW res, Initialises(x, rs, id, key, p), res.enc # "unknown",
               y = Initialized(Answered(x, key), id, p, res)
        PROVE  \E i, k, q, e : Initialises(x, rs, i, k, q) /\ e.enc # "unknown" /\ y = Initialized(Answered(x, k), i, q, e)
    BY ONLY <2>7
  <2> QED
    BY ONLY <2>5, <2>6, <2>7
<1> QED
  BY <1>2, <1>3, <1>4, <1>5, <1>6, <1>7 DEF OnChannel, Wish

(* The manager takes a request, and the editor notes what it left behind.   *)
LEMMA ManagerStepSync ==
  ASSUME IInv, Sync(man, srv, reqs, ed), ManagerStep
  PROVE  Sync(man, srv, reqs, ed)'
<1>1. PICK spawns, y : /\ y = Handle([m |-> man, s |-> srv, ev |-> <<>>], Head(reqs), spawns)
                       /\ man' = y.m /\ srv' = y.s /\ ed' = Overtaken(y)
                       /\ reqs # <<>> /\ reqs' = Tail(reqs)
  BY DEF ManagerStep
<1>2. PICK x : x = [m |-> man, s |-> srv, ev |-> <<>>]
  OBVIOUS
<1>3. Ctx(x, reqs)
  BY <1>2, CtxOfState
<1>4. DOMAIN ed = EdFields /\ ed.open \subseteq Docs
  BY DEF IInv, EdTyped, Buffers
<1>5. x.m = man /\ x.s = srv /\ Sync(x.m, x.s, reqs, ed)
  BY <1>2
<1>6. Head(reqs).k = "start" => x.m.next < Servers
  <2>1. IsSeq(reqs) /\ man.next + StartsIn(reqs) <= Servers /\ ManTyped(man)
    BY DEF IInv, Kernel, ReqsTyped
  <2>2. /\ StartsIn(reqs) \in Nat /\ StartsIn(Tail(reqs)) \in Nat
        /\ StartsIn(reqs) = StartsIn(Tail(reqs)) + (IF Head(reqs).k = "start" THEN 1 ELSE 0)
    BY <1>1, <2>1, StartsTail
  <2>3. man.next \in Nat /\ Servers \in Nat
    BY <2>1, LspAssumption DEF ManTyped
  <2> QED
    BY ONLY <1>5, <2>1, <2>2, <2>3
<1>7. y = Handle(x, Head(reqs), spawns)
  BY <1>1, <1>2
<1>8. \/ Sync(y.m, y.s, Tail(reqs), ed) /\ y.m.caps = x.m.caps
      \/ \E id, key, p, res : /\ Initialises(x, reqs, id, key, p) /\ res.enc # "unknown"
                              /\ y = Initialized(Answered(x, key), id, p, res)
  <2>1. reqs # <<>>
    BY <1>1
  <2> QED
    BY ONLY <1>3, <1>4, <1>5, <1>6, <1>7, <2>1, HandleTaken
<1>9. PICK w, rest : w = Overtaken(y) /\ rest = Tail(reqs)
  OBVIOUS
<1>10. Sync(y.m, y.s, rest, w)
  <2>1. CASE Sync(y.m, y.s, rest, ed) /\ y.m.caps = x.m.caps
    <3>1. SameBuffers(ed, w)
      BY ONLY <1>4, <1>5, <1>9, <2>1, OvertakenFacts DEF SameBuffers
    <3> QED
      BY ONLY <2>1, <3>1, SyncSame
  <2>2. ASSUME NEW id, NEW key, NEW p, NEW res, Initialises(x, reqs, id, key, p), res.enc # "unknown",
               y = Initialized(Answered(x, key), id, p, res)
        PROVE  Sync(y.m, y.s, rest, w)
    <3>1. Sync(y.m, y.s, Tail(reqs), w)
      BY ONLY <1>3, <1>4, <1>5, <1>9, <2>2, InitialTaken
    <3> QED
      BY <1>9, <3>1
  <2> QED
    BY <1>8, <1>9, <2>1, <2>2
<1>11. man' = y.m /\ srv' = y.s /\ reqs' = rest /\ ed' = w
  BY <1>1, <1>9
<1> QED
  BY ONLY <1>10, <1>11

----------------------------------------------------------------------------
(* The servers and the threads that read from them.                         *)

(* A server that has a document open does not forget what it knows of it.   *)
NotLess(sv, sv2) ==
    \A d \in Docs : EndSure(sv, d, Opened) =>
        /\ EndSure(sv2, d, Opened)
        /\ \A v \in Nat : EndSure(sv, d, v) => EndSure(sv2, d, v)

(* So does what is on the channel with it.                                  *)
LEMMA ReqNotLess ==
  ASSUME NEW sv, NEW sv2, NotLess(sv, sv2), NEW rs, IsSeq(rs), NEW id, NEW d \in Docs, NEW n \in Nat,
         ReqSure(sv, rs, id, d, n, Opened)
  PROVE  /\ ReqSure(sv2, rs, id, d, n, Opened)
         /\ \A v \in Nat : ReqSure(sv, rs, id, d, n, v) => ReqSure(sv2, rs, id, d, n, v)
<1>1. ReqSure(sv2, rs, id, d, n, Opened)
  BY ReqServer DEF NotLess
<1>2. ASSUME NEW v \in Nat, ReqSure(sv, rs, id, d, n, v) PROVE ReqSure(sv2, rs, id, d, n, v)
  <2>1. \/ BegunIn(MakesIn(rs, id, d, v), BreaksIn(rs, id, d, v), n)
        \/ EndSure(sv, d, v) /\ Untouched(BreaksIn(rs, id, d, v), n)
    BY <1>2 DEF ReqSure, Holds
  <2>2. CASE BegunIn(MakesIn(rs, id, d, v), BreaksIn(rs, id, d, v), n)
    BY <2>2 DEF ReqSure, Holds
  <2>3. CASE EndSure(sv, d, v) /\ Untouched(BreaksIn(rs, id, d, v), n)
    <3>1. v # Opened
      BY DEF Opened
    <3>2. MakesIn(rs, id, d, Opened) \subseteq BreaksIn(rs, id, d, v)
      BY <3>1 DEF MakesIn, BreaksIn, Makes, Breaks, SyncKinds
    <3>3. ~ BegunIn(MakesIn(rs, id, d, Opened), BreaksIn(rs, id, d, Opened), n)
      <4> SUFFICES ASSUME NEW i \in MakesIn(rs, id, d, Opened), i < n PROVE FALSE
        BY DEF BegunIn
      <4>1. i \in DOMAIN rs /\ i \in BreaksIn(rs, id, d, v)
        BY <3>2 DEF MakesIn
      <4>2. n <= i
        BY <2>3, <4>1 DEF Untouched
      <4>3. i \in Nat
        BY <4>1, SeqFacts
      <4> QED
        BY ONLY <4>2, <4>3, i < n, n \in Nat
    <3>4. EndSure(sv, d, Opened)
      BY <3>3 DEF ReqSure, Holds
    <3>5. EndSure(sv2, d, v)
      BY <2>3, <3>4 DEF NotLess
    <3> QED
      BY <2>3, <3>5 DEF ReqSure, Holds
  <2> QED
    BY <2>1, <2>2, <2>3
<1> QED
  BY <1>1, <1>2

(* One server changes, and does not forget.                                 *)
LEMMA ServerSync ==
  ASSUME NEW m, NEW s, NEW s2, NEW rs, IsSeq(rs), NEW w, w.open \subseteq Docs, Sync(m, s, rs, w),
         NEW id \in Ids,
         \A j \in Ids \ {id} : s2[j] = s[j], PipeSure(s2[id]),
         s2[id].st = "up" => s[id].st = "up" /\ NotLess(s[id], s2[id])
  PROVE  Sync(m, s2, rs, w)
<1>1. Contents(w) /\ \A j \in Ids : SureAt(m, s[j], rs, j, w)
  BY DEF Sync
<1>2. PICK sv, sv2 : sv = s[id] /\ sv2 = s2[id]
  OBVIOUS
<1>3. SureAt(m, sv, rs, id, w) /\ PipeSure(sv2) /\ (sv2.st = "up" => sv.st = "up" /\ NotLess(sv, sv2))
  BY <1>1, <1>2
<1>4. SureAt(m, sv2, rs, id, w)
  <2> SUFFICES ASSUME There(m, sv2, id) PROVE ReqsSure(sv2, rs, id) /\ EditorSure(m, sv2, rs, id, w)
    BY <1>3 DEF SureAt
  <2>1. NotLess(sv, sv2) /\ ReqsSure(sv, rs, id) /\ EditorSure(m, sv, rs, id, w)
    BY <1>3 DEF SureAt, There
  <2>2. ASSUME NEW d \in Docs, NEW n \in Nat, ReqSure(sv, rs, id, d, n, Opened)
        PROVE  /\ ReqSure(sv2, rs, id, d, n, Opened)
               /\ \A v \in Nat : ReqSure(sv, rs, id, d, n, v) => ReqSure(sv2, rs, id, d, n, v)
    BY ONLY <2>1, <2>2, IsSeq(rs), ReqNotLess
  <2>3. ReqsSure(sv2, rs, id)
    <3>1. \A k \in DOMAIN rs : k \in Nat
      BY SeqFacts
    <3> QED
      BY ONLY <2>1, <2>2, <3>1 DEF ReqsSure
  <2>4. \A d \in ReportedTo(m, w, id) : d \in Docs /\ w.txt[d] \in Nat
    BY <1>1 DEF ReportedTo, Contents
  <2>5. EditorSure(m, sv2, rs, id, w)
    <3>1. Len(rs) + 1 \in Nat
      BY SeqFacts
    <3> QED
      BY ONLY <2>1, <2>2, <2>4, <3>1 DEF EditorSure
  <2> QED
    BY <2>3, <2>5
<1>5. \A j \in Ids : SureAt(m, s2[j], rs, j, w)
  <2>1. ASSUME NEW j \in Ids, j # id PROVE SureAt(m, s2[j], rs, j, w)
    <3>1. s2[j] = s[j]
      BY <2>1
    <3> QED
      BY <1>1, <3>1
  <2> QED
    BY <1>2, <1>4, <2>1
<1> QED
  BY <1>5 DEF Sync

(* A message that is not for a server is put on the channel.                *)
LEMMA SyncLonger ==
  ASSUME NEW m, NEW s, NEW rs, IsSeq(rs), NEW w, Sync(m, s, rs, w), NEW e, e.k = "message"
  PROVE  Sync(m, s, Append(rs, e), w)
<1>1. PICK q : q = Append(rs, e)
  OBVIOUS
<1>2. /\ IsSeq(q) /\ Len(rs) \in Nat /\ DOMAIN rs = 1 .. Len(rs)
      /\ \A k \in DOMAIN q : (k \in DOMAIN rs /\ q[k] = rs[k]) \/ (k = Len(rs) + 1 /\ q[k] = e)
  BY <1>1, SeqAppend, ValuesAppend
<1>3. ~ Asks(e) /\ Addressed(m, e) /\ \A id \in Ids : ~ For(e, id)
  BY IdsAreServers DEF Asks, Addressed, For
<1>4. PICK one : one = <<e>>
  OBVIOUS
<1>5. q = rs \o one /\ IsSeq(one)
  BY <1>1, <1>4, AppendOne
<1>6. ASSUME NEW id \in Ids, NEW sv, NEW d, NEW c
      PROVE  /\ \A n \in Nat : (n < Len(rs) + 2 /\ ReqSure(sv, rs, id, d, n, c)) => ReqSure(sv, q, id, d, n, c)
             /\ ReqSure(sv, rs, id, d, Len(rs) + 1, c) => ReqSure(sv, q, id, d, Len(q) + 1, c)
  <2>1. \A n \in Nat : (n < Len(rs) + 2 /\ ReqSure(sv, rs, id, d, n, c)) => ReqSure(sv, rs \o one, id, d, n, c)
    BY ONLY <1>5, IsSeq(rs), ReqLonger
  <2>2. ReqSure(sv, rs, id, d, Len(rs) + 1, c) => ReqSure(sv, Append(rs, e), id, d, Len(Append(rs, e)) + 1, c)
    BY ONLY <1>3, <1>6, IsSeq(rs), ReqMessage
  <2> QED
    BY <1>1, <1>5, <2>1, <2>2
<1>7. ASSUME NEW id \in Ids PROVE SureAt(m, s[id], q, id, w)
  <2>1. PICK sv : sv = s[id]
    OBVIOUS
  <2>2. SureAt(m, sv, rs, id, w)
    BY <2>1 DEF Sync
  <2>3. ReqsSure(sv, rs, id) => ReqsSure(sv, q, id)
    <3> SUFFICES ASSUME ReqsSure(sv, rs, id), NEW k \in DOMAIN q, Asks(q[k]), q[k].id = id
                 PROVE  /\ q[k].d \in Docs /\ q[k].v \in Nat
                        /\ ReqSure(sv, q, id, q[k].d, k, Opened) /\ ReqSure(sv, q, id, q[k].d, k, q[k].v)
      BY DEF ReqsSure
    <3>1. k \in DOMAIN rs /\ q[k] = rs[k] /\ k \in Nat /\ k < Len(rs) + 2
      BY <1>2, <1>3
    <3>2. /\ rs[k].d \in Docs /\ rs[k].v \in Nat
          /\ ReqSure(sv, rs, id, rs[k].d, k, Opened) /\ ReqSure(sv, rs, id, rs[k].d, k, rs[k].v)
      BY <3>1 DEF ReqsSure
    <3> QED
      BY <1>6, <3>1, <3>2
  <2>4. EditorSure(m, sv, rs, id, w) => EditorSure(m, sv, q, id, w)
    BY <1>6 DEF EditorSure
  <2> QED
    BY <2>1, <2>2, <2>3, <2>4 DEF SureAt
<1>8. \A k \in DOMAIN q : Addressed(m, q[k])
  BY <1>2, <1>3 DEF Sync
<1> QED
  BY <1>1, <1>7, <1>8 DEF Sync

(* A server that is left as it is knows what it knew.                       *)
LEMMA SameServer ==
  ASSUME NEW sv, PipeSure(sv), NEW sv2, sv2.in = sv.in, sv2.has = sv.has
  PROVE  PipeSure(sv2) /\ NotLess(sv, sv2)
BY DEF PipeSure, NotLess, EndSure, InSure, Has

(* A thread reads.                                                          *)
LEMMA ReadSync ==
  ASSUME IInv, Sync(man, srv, reqs, ed), NEW id \in Ids, Read(id)
  PROVE  Sync(man, srv, reqs, ed)'
<1>1. /\ DOMAIN srv = Ids /\ DOMAIN srv[id] = SrvFields /\ IsSeq(reqs)
  BY ServerFacts
<1>2. PICK sv : /\ srv' = [srv EXCEPT ![id] = sv] /\ sv.in = srv[id].in /\ sv.has = srv[id].has /\ sv.st = srv[id].st
                /\ reqs' = reqs \/ (\E msg : reqs' = Append(reqs, Incoming(id, msg)))
  <2>1. PICK out, reader :
           /\ srv' = [srv EXCEPT ![id] = [srv[id] EXCEPT !.out = out, !.reader = reader]]
           /\ reqs' = reqs \/ (\E msg : reqs' = Append(reqs, Incoming(id, msg)))
    <3>3. \/ srv' = [srv EXCEPT ![id].out = Tail(@)] /\ \E msg : reqs' = Append(reqs, Incoming(id, msg))
          \/ srv' = [srv EXCEPT ![id].out = <<>>, ![id].reader = "done"] /\ reqs' = reqs
          \/ srv' = [srv EXCEPT ![id].reader = "done"] /\ reqs' = reqs
      BY DEF Read
    <3>4. CASE srv' = [srv EXCEPT ![id].out = Tail(@)] /\ \E msg : reqs' = Append(reqs, Incoming(id, msg))
      <4>1. srv' = [srv EXCEPT ![id] = [srv[id] EXCEPT !.out = Tail(srv[id].out), !.reader = srv[id].reader]]
        BY ONLY <1>1, <3>4 DEF SrvFields
      <4> QED
        BY <3>4, <4>1
    <3>5. CASE srv' = [srv EXCEPT ![id].out = <<>>, ![id].reader = "done"] /\ reqs' = reqs
      <4>1. srv' = [srv EXCEPT ![id] = [srv[id] EXCEPT !.out = <<>>, !.reader = "done"]]
        BY ONLY <1>1, <3>5 DEF SrvFields
      <4> QED
        BY <3>5, <4>1
    <3>6. CASE srv' = [srv EXCEPT ![id].reader = "done"] /\ reqs' = reqs
      <4>1. srv' = [srv EXCEPT ![id] = [srv[id] EXCEPT !.out = srv[id].out, !.reader = "done"]]
        BY ONLY <1>1, <3>6 DEF SrvFields
      <4> QED
        BY <3>6, <4>1
    <3> QED
      BY <3>3, <3>4, <3>5, <3>6
  <2>2. PICK sv : sv = [srv[id] EXCEPT !.out = out, !.reader = reader]
    OBVIOUS
  <2>3. sv.in = srv[id].in /\ sv.has = srv[id].has /\ sv.st = srv[id].st
    BY ONLY <1>1, <2>2 DEF SrvFields
  <2> QED
    BY <2>1, <2>2, <2>3
<1>3. ed' = ed /\ man' = man
  BY DEF Read, Unchanged
<1>4. PICK s2 : s2 = srv'
  OBVIOUS
<1>5. s2[id] = sv /\ \A j \in Ids \ {id} : s2[j] = srv[j]
  BY <1>1, <1>2, <1>4
<1>6. PipeSure(sv) /\ NotLess(srv[id], sv)
  <2>1. PipeSure(srv[id])
    BY DEF Sync, SureAt
  <2>2. PICK old : old = srv[id]
    OBVIOUS
  <2>3. PipeSure(old) /\ sv.in = old.in /\ sv.has = old.has
    BY <1>2, <2>1, <2>2
  <2> QED
    BY ONLY <2>2, <2>3, SameServer
<1>7. ed.open \subseteq Docs
  BY DEF IInv, EdTyped, Buffers
<1>8. Sync(man, s2, reqs, ed)
  BY <1>1, <1>2, <1>5, <1>6, <1>7, ServerSync
<1>9. Sync(man, s2, reqs', ed)
  <2>1. CASE reqs' = reqs
    BY <1>8, <2>1
  <2>2. ASSUME NEW msg, reqs' = Append(reqs, Incoming(id, msg)) PROVE Sync(man, s2, reqs', ed)
    <3>1. PICK e : e = Incoming(id, msg)
      OBVIOUS
    <3>2. e.k = "message" /\ reqs' = Append(reqs, e)
      BY <2>2, <3>1 DEF Incoming
    <3> QED
      BY ONLY <1>1, <1>8, <3>2, SyncLonger
  <2> QED
    BY <1>2, <2>1, <2>2
<1> QED
  BY ONLY <1>3, <1>4, <1>9

(* The manager has waited for the threads of a server.                      *)
LEMMA JoinEndsSync ==
  ASSUME IInv, Sync(man, srv, reqs, ed), JoinEnds
  PROVE  Sync(man, srv, reqs, ed)'
<1>1. DOMAIN man = ManFields
  BY DEF IInv, Kernel, ManTyped
<1>2. PICK m : m = man'
  OBVIOUS
<1>3. /\ m.clients = man.clients /\ m.pending = man.pending /\ m.next = man.next /\ m.caps = man.caps
      /\ srv' = srv /\ reqs' = reqs /\ ed' = ed
  BY <1>1, <1>2 DEF JoinEnds, ManFields
<1>4. Sync(m, srv, reqs, ed)
  <2>1. \A k \in DOMAIN reqs : Addressed(m, reqs[k])
    BY <1>3 DEF Sync, Addressed
  <2>2. Starting(m) /\ Contents(ed)
    BY <1>3 DEF Sync, Starting
  <2>3. \A id \in Ids : SureAt(m, srv[id], reqs, id, ed)
    BY <1>3 DEF Sync, SureAt, There, EditorSure, ReportedTo
  <2> QED
    BY <2>1, <2>2, <2>3 DEF Sync
<1> QED
  BY <1>2, <1>3, <1>4

(* What a server that takes a message has then.                             *)
Took(sv, sv2) ==
    /\ sv2.in = Tail(sv.in) /\ sv2.has \in [Docs -> Nat \cup {-1}]
    /\ \A d \in Docs :
         sv2.has[d] = IF Head(sv.in).d = d /\ Head(sv.in).k # "request"
                      THEN CASE Head(sv.in).m = "didOpen" -> Head(sv.in).v
                             [] Head(sv.in).m = "didChange" -> IF sv.has[d] = -1 THEN -1 ELSE Head(sv.in).v
                             [] Head(sv.in).m = "didClose" -> -1
                             [] OTHER -> sv.has[d]
                      ELSE sv.has[d]

(* A question that comes later finds its document as it would have: one     *)
(* that is changed was open, or is opened after.                            *)
LEMMA SureTook ==
  ASSUME NEW sv, IsSeq(sv.in), sv.in # <<>>, PipeSure(sv), NEW sv2, Took(sv, sv2),
         NEW d \in Docs, NEW n \in Nat, n >= 2, InSure(sv, d, n, Opened)
  PROVE  /\ InSure(sv2, d, n - 1, Opened)
         /\ \A v \in Nat : InSure(sv, d, n, v) => InSure(sv2, d, n - 1, v)
<1>1. PICK msg : msg = Head(sv.in)
  OBVIOUS
<1>2. /\ msg.m \in SyncKinds => msg.k = "notify" /\ msg.d \in Docs /\ msg.v \in Nat
      /\ sv.has \in [Docs -> Nat \cup {-1}]
  <2>1. 1 \in DOMAIN sv.in /\ msg = sv.in[1]
    BY <1>1, SeqTail
  <2> QED
    BY <2>1 DEF PipeSure, Tells
<1>3. /\ sv2.in = Tail(sv.in) /\ sv2.has \in [Docs -> Nat \cup {-1}]
      /\ sv2.has[d] = IF msg.d = d /\ msg.k # "request"
                      THEN CASE msg.m = "didOpen" -> msg.v
                             [] msg.m = "didChange" -> IF sv.has[d] = -1 THEN -1 ELSE msg.v
                             [] msg.m = "didClose" -> -1
                             [] OTHER -> sv.has[d]
                      ELSE sv.has[d]
  BY <1>1 DEF Took
<1>4. /\ msg.d = d /\ msg.m = "didOpen" => sv2.has[d] = msg.v /\ msg.v \in Nat
      /\ msg.d = d /\ msg.m = "didChange" => sv2.has[d] = (IF sv.has[d] = -1 THEN -1 ELSE msg.v) /\ msg.v \in Nat
      /\ msg.d # d \/ msg.m \notin SyncKinds => sv2.has[d] = sv.has[d]
  BY <1>2, <1>3 DEF SyncKinds
<1>5. InSure(sv2, d, n - 1, Opened)
  <2>1. Makes(msg, d, Opened) => Has(sv2, d, Opened)
    BY <1>4 DEF Makes, Has
  <2>2. (Has(sv, d, Opened) /\ ~ Breaks(msg, d, Opened)) => Has(sv2, d, Opened)
    BY <1>4 DEF Breaks, Has, SyncKinds, Opened
  <2> QED
    BY ONLY <1>1, <1>3, <2>1, <2>2, IsSeq(sv.in), sv.in # <<>>, n \in Nat, n >= 2, InSure(sv, d, n, Opened), PipeTaken
<1>6. ASSUME NEW v \in Nat, InSure(sv, d, n, v) PROVE InSure(sv2, d, n - 1, v)
  <2>1. v # Opened
    BY DEF Opened
  <2>2. (Has(sv, d, v) /\ ~ Breaks(msg, d, v)) => Has(sv2, d, v)
    BY <1>4, <2>1 DEF Breaks, Has
  <2>3. CASE Makes(msg, d, v) => Has(sv2, d, v)
    BY ONLY <1>1, <1>3, <1>6, <2>2, <2>3, IsSeq(sv.in), sv.in # <<>>, n \in Nat, n >= 2, PipeTaken
  <2>4. CASE Makes(msg, d, v) /\ ~ Has(sv2, d, v)
    <3>1. msg.m = "didChange" /\ sv.has[d] = -1
      BY <1>4, <2>1, <2>4 DEF Makes, Has
    <3>2. PICK q, r : q = sv.in /\ r = Tail(sv.in)
      OBVIOUS
    <3>3. /\ IsSeq(q) /\ q # <<>> /\ r = Tail(q) /\ Head(q) = msg
          /\ Holds(q, NoId, d, Opened, n, FALSE) /\ Holds(q, NoId, d, v, n, TRUE)
      <4>1. Has(sv, d, Opened) = FALSE
        BY <3>1 DEF Has
      <4>2. Holds(q, NoId, d, Opened, n, Has(sv, d, Opened))
        BY <3>2 DEF InSure
      <4>3. Holds(q, NoId, d, v, n, Has(sv, d, v))
        BY <1>6, <3>2 DEF InSure
      <4>4. Holds(q, NoId, d, v, n, TRUE)
        BY <4>3 DEF Holds
      <4>5. Holds(q, NoId, d, Opened, n, FALSE)
        BY ONLY <4>1, <4>2 DEF Holds
      <4> QED
        BY <1>1, <3>2, <4>4, <4>5
    <3>4. ~ Makes(msg, d, Opened)
      BY <3>1 DEF Makes
    <3>5. Holds(r, NoId, d, Opened, n - 1, FALSE)
      BY ONLY <3>3, <3>4, n \in Nat, n >= 2, HoldsTail
    <3>6. Holds(r, NoId, d, v, n - 1, TRUE)
      BY ONLY <3>3, n \in Nat, n >= 2, HoldsTail
    <3>7. IsSeq(r)
      BY <3>3, SeqTail
    <3>8. PICK i \in MakesIn(r, NoId, d, Opened) : i < n - 1
      BY <3>5 DEF Holds, BegunIn
    <3>9. i \in BreaksIn(r, NoId, d, v) /\ i \in Nat
      <4>1. i \in DOMAIN r
        BY <3>8 DEF MakesIn
      <4>2. i \in Nat
        BY <3>7, <4>1, SeqFacts
      <4> QED
        BY <2>1, <3>8, <4>2 DEF MakesIn, BreaksIn, Makes, Breaks, SyncKinds
    <3>10. ~ Untouched(BreaksIn(r, NoId, d, v), n - 1)
      BY ONLY <3>8, <3>9, n \in Nat DEF Untouched
    <3>11. Holds(r, NoId, d, v, n - 1, Has(sv2, d, v))
      BY <3>6, <3>10 DEF Holds
    <3> QED
      BY <1>3, <3>2, <3>11 DEF InSure
  <2> QED
    BY <2>3, <2>4
<1> QED
  BY <1>5, <1>6

(* So it is with all of them, and with what a question that is asked next   *)
(* would find.                                                              *)
LEMMA PipeSureTook ==
  ASSUME NEW sv, IsSeq(sv.in), sv.in # <<>>, PipeSure(sv), NEW sv2, Took(sv, sv2)
  PROVE  /\ PipeSure(sv2)
         /\ \A d \in Docs : EndSure(sv, d, Opened) =>
              /\ EndSure(sv2, d, Opened)
              /\ \A v \in Nat : EndSure(sv, d, v) => EndSure(sv2, d, v)
<1>1. /\ Len(sv.in) \in Nat \ {0} /\ Len(Tail(sv.in)) = Len(sv.in) - 1
      /\ DOMAIN sv.in = 1 .. Len(sv.in) /\ DOMAIN Tail(sv.in) = 1 .. Len(sv.in) - 1
      /\ \A k \in 1 .. Len(sv.in) - 1 : Tail(sv.in)[k] = sv.in[k + 1] /\ k + 1 \in DOMAIN sv.in
  BY SeqTail
<1>2. sv2.in = Tail(sv.in) /\ sv2.has \in [Docs -> Nat \cup {-1}]
  BY DEF Took
<1>3. ASSUME NEW d \in Docs, NEW n \in Nat, n >= 2, InSure(sv, d, n, Opened)
      PROVE  /\ InSure(sv2, d, n - 1, Opened)
             /\ \A v \in Nat : InSure(sv, d, n, v) => InSure(sv2, d, n - 1, v)
  BY <1>3, SureTook
<1>4. ASSUME NEW k \in DOMAIN sv2.in
      PROVE  /\ sv2.in[k].m \in SyncKinds => Tells(sv2.in[k])
             /\ Asks(sv2.in[k]) =>
                  /\ sv2.in[k].d \in Docs /\ sv2.in[k].v \in Nat
                  /\ InSure(sv2, sv2.in[k].d, k, Opened) /\ InSure(sv2, sv2.in[k].d, k, sv2.in[k].v)
  <2>1. PICK msg : msg = sv2.in[k]
    OBVIOUS
  <2>2. k + 1 \in DOMAIN sv.in /\ sv.in[k + 1] = msg /\ k + 1 \in Nat /\ k + 1 >= 2 /\ (k + 1) - 1 = k
    BY ONLY <1>1, <1>2, <1>4, <2>1
  <2>3. /\ msg.m \in SyncKinds => Tells(msg)
        /\ Asks(msg) => /\ msg.d \in Docs /\ msg.v \in Nat
                        /\ InSure(sv, msg.d, k + 1, Opened) /\ InSure(sv, msg.d, k + 1, msg.v)
    BY ONLY <2>2, PipeSure(sv) DEF PipeSure
  <2>4. Asks(msg) => InSure(sv2, msg.d, (k + 1) - 1, Opened) /\ InSure(sv2, msg.d, (k + 1) - 1, msg.v)
    BY ONLY <1>3, <2>2, <2>3
  <2> QED
    BY ONLY <2>1, <2>2, <2>3, <2>4
<1>5. PipeSure(sv2)
  BY ONLY <1>2, <1>4 DEF PipeSure
<1>6. ASSUME NEW d \in Docs, EndSure(sv, d, Opened)
      PROVE  /\ EndSure(sv2, d, Opened)
             /\ \A v \in Nat : EndSure(sv, d, v) => EndSure(sv2, d, v)
  <2>1. PICK n : n = Len(sv.in) + 1
    OBVIOUS
  <2>2. n \in Nat /\ n >= 2 /\ Len(sv2.in) + 1 = n - 1
    BY <1>1, <1>2, <2>1
  <2>3. \A c : (EndSure(sv, d, c) <=> InSure(sv, d, n, c)) /\ (EndSure(sv2, d, c) <=> InSure(sv2, d, n - 1, c))
    BY <2>1, <2>2 DEF EndSure
  <2> QED
    BY ONLY <1>3, <1>6, <2>2, <2>3
<1> QED
  BY <1>5, <1>6

(* One server takes a step that the others do not see.                      *)
LEMMA ServerStepSync ==
  ASSUME IInv, Sync(man, srv, reqs, ed), NEW id \in Ids, NEW sv, srv' = [srv EXCEPT ![id] = sv],
         UNCHANGED <<ed, man, events, scene, reqs>>, PipeSure(sv),
         sv.st = "up" => srv[id].st = "up" /\ NotLess(srv[id], sv)
  PROVE  Sync(man, srv, reqs, ed)'
<1>1. DOMAIN srv = Ids /\ IsSeq(reqs) /\ ed.open \subseteq Docs
  BY ServerFacts DEF IInv, EdTyped, Buffers
<1>2. PICK s2 : s2 = srv'
  OBVIOUS
<1>3. s2[id] = sv /\ \A j \in Ids \ {id} : s2[j] = srv[j]
  BY <1>1, <1>2
<1>4. Sync(man, s2, reqs, ed)
  BY <1>1, <1>3, ServerSync
<1> QED
  BY <1>2, <1>4

(* A server takes what was written to it.                                   *)
LEMMA ServerTakesSync ==
  ASSUME IInv, Sync(man, srv, reqs, ed), NEW id \in Ids, ServerTakes(id)
  PROVE  Sync(man, srv, reqs, ed)'
<1>1. PICK sv, msg : sv = srv[id] /\ msg = Head(sv.in)
  OBVIOUS
<1>2. DOMAIN sv = SrvFields /\ IsSeq(sv.in)
  BY <1>1, ServerFacts
<1>3. PICK s : s = [sv EXCEPT !.in = Tail(@)]
  OBVIOUS
<1>4. PICK sv2 : sv2 =
             IF msg.k = "request" THEN [s EXCEPT !.todo = @ \cup {msg}]
             ELSE CASE msg.m = "exit" -> [s EXCEPT !.st = "exited", !.in = <<>>]
                    [] msg.m = "didOpen" -> [s EXCEPT !.has[msg.d] = msg.v, !.known = @ /\ s.has[msg.d] = -1]
                    [] msg.m = "didChange" -> [s EXCEPT !.has[msg.d] = IF @ = -1 THEN @ ELSE msg.v,
                                                        !.known = @ /\ s.has[msg.d] # -1]
                    [] msg.m = "didClose" -> [s EXCEPT !.has[msg.d] = -1, !.known = @ /\ s.has[msg.d] # -1]
                    [] OTHER -> s
  OBVIOUS
<1>5. /\ sv.st = "up" /\ sv.in # <<>> /\ srv' = [srv EXCEPT ![id] = sv2]
      /\ UNCHANGED <<ed, man, events, scene, reqs>>
  BY <1>1, <1>3, <1>4 DEF ServerTakes, Unchanged
<1>6. /\ DOMAIN s = SrvFields /\ s.in = Tail(sv.in) /\ s.todo = sv.todo /\ s.st = sv.st /\ s.has = sv.has
      /\ s.known = sv.known
  BY <1>2, <1>3 DEF SrvFields
<1>7. PipeSure(sv)
  BY <1>1 DEF Sync, SureAt
<1>8. /\ msg.m \in SyncKinds => msg.k = "notify" /\ msg.d \in Docs /\ msg.v \in Nat
      /\ sv.has \in [Docs -> Nat \cup {-1}]
  <2>1. 1 \in DOMAIN sv.in /\ msg = sv.in[1]
    BY <1>1, <1>2, <1>5, SeqTail
  <2> QED
    BY <1>7, <2>1 DEF PipeSure, Tells
<1>9. CASE msg.k # "request" /\ msg.m = "exit"
  <2>1. sv2 = [s EXCEPT !.st = "exited", !.in = <<>>]
    BY <1>4, <1>9
  <2>2. sv2.in = <<>> /\ sv2.st # "up" /\ sv2.has = sv.has
    BY <1>6, <2>1 DEF SrvFields
  <2>3. PipeSure(sv2)
    BY <1>8, <2>2 DEF PipeSure
  <2> QED
    BY <1>5, <2>2, <2>3, ServerStepSync
<1>10. CASE msg.k = "request" \/ msg.m # "exit"
  <2>1. Took(sv, sv2)
    <3>1. CASE msg.k = "request"
      <4>1. sv2 = [s EXCEPT !.todo = @ \cup {msg}]
        BY <1>4, <3>1
      <4>2. sv2.in = Tail(sv.in) /\ sv2.has = sv.has
        BY <1>6, <4>1 DEF SrvFields
      <4> QED
        BY <1>1, <1>8, <3>1, <4>2 DEF Took
    <3>2. CASE msg.k # "request" /\ msg.m = "didOpen"
      <4>1. sv2 = [s EXCEPT !.has[msg.d] = msg.v, !.known = @ /\ s.has[msg.d] = -1]
        BY <1>4, <1>10, <3>2
      <4>2. sv2.in = Tail(sv.in) /\ sv2.has = [sv.has EXCEPT ![msg.d] = msg.v]
        BY ONLY <1>6, <4>1 DEF SrvFields
      <4>3. msg.d \in Docs /\ msg.v \in Nat
        BY <1>8, <3>2 DEF SyncKinds
      <4>4. sv2.has \in [Docs -> Nat \cup {-1}] /\ \A d \in Docs : sv2.has[d] = IF msg.d = d THEN msg.v ELSE sv.has[d]
        BY ONLY <1>8, <4>2, <4>3
      <4> QED
        BY ONLY <1>1, <3>2, <4>2, <4>4 DEF Took
    <3>3. CASE msg.k # "request" /\ msg.m = "didChange"
      <4>1. sv2 = [s EXCEPT !.has[msg.d] = IF @ = -1 THEN @ ELSE msg.v, !.known = @ /\ s.has[msg.d] # -1]
        BY <1>4, <1>10, <3>3
      <4>2. sv2.in = Tail(sv.in) /\ sv2.has = [sv.has EXCEPT ![msg.d] = IF @ = -1 THEN @ ELSE msg.v]
        BY ONLY <1>6, <4>1 DEF SrvFields
      <4>3. msg.d \in Docs /\ msg.v \in Nat
        BY <1>8, <3>3 DEF SyncKinds
      <4>4. /\ sv2.has \in [Docs -> Nat \cup {-1}]
            /\ \A d \in Docs : sv2.has[d] = IF msg.d = d THEN (IF sv.has[d] = -1 THEN -1 ELSE msg.v) ELSE sv.has[d]
        BY ONLY <1>8, <4>2, <4>3
      <4> QED
        BY ONLY <1>1, <3>3, <4>2, <4>4 DEF Took
    <3>4. CASE msg.k # "request" /\ msg.m = "didClose"
      <4>1. sv2 = [s EXCEPT !.has[msg.d] = -1, !.known = @ /\ s.has[msg.d] # -1]
        BY <1>4, <1>10, <3>4
      <4>2. sv2.in = Tail(sv.in) /\ sv2.has = [sv.has EXCEPT ![msg.d] = -1]
        BY ONLY <1>6, <4>1 DEF SrvFields
      <4>3. msg.d \in Docs
        BY <1>8, <3>4 DEF SyncKinds
      <4>4. sv2.has \in [Docs -> Nat \cup {-1}] /\ \A d \in Docs : sv2.has[d] = IF msg.d = d THEN -1 ELSE sv.has[d]
        BY ONLY <1>8, <4>2, <4>3
      <4> QED
        BY ONLY <1>1, <3>4, <4>2, <4>4 DEF Took
    <3>5. CASE msg.k # "request" /\ msg.m \notin SyncKinds
      <4>1. sv2 = s
        BY <1>4, <1>10, <3>5 DEF SyncKinds
      <4> QED
        BY <1>1, <1>6, <1>8, <3>5, <4>1 DEF Took, SyncKinds
    <3> QED
      BY <3>1, <3>2, <3>3, <3>4, <3>5 DEF SyncKinds
  <2>2. /\ PipeSure(sv2)
        /\ \A d \in Docs : EndSure(sv, d, Opened) =>
             /\ EndSure(sv2, d, Opened)
             /\ \A v \in Nat : EndSure(sv, d, v) => EndSure(sv2, d, v)
    BY ONLY <1>2, <1>5, <1>7, <2>1, PipeSureTook
  <2>3. NotLess(sv, sv2)
    BY ONLY <2>2 DEF NotLess
  <2> QED
    BY <1>1, <1>5, <2>2, <2>3, ServerStepSync
<1> QED
  BY <1>9, <1>10

(* A server that only says something knows what it knew.                    *)
LEMMA SaysSync ==
  ASSUME IInv, Sync(man, srv, reqs, ed), NEW id \in Ids, NEW msg, NEW s, Says(id, msg, s),
         UNCHANGED <<ed, man, events, scene, reqs>>,
         DOMAIN s = SrvFields, s.in = srv[id].in, s.has = srv[id].has, s.st = srv[id].st
  PROVE  Sync(man, srv, reqs, ed)'
<1>1. PICK sv : sv = IF s.reader = "up" THEN [s EXCEPT !.out = Append(@, msg)] ELSE s
  OBVIOUS
<1>2. srv' = [srv EXCEPT ![id] = sv]
  BY <1>1 DEF Says
<1>3. sv.in = s.in /\ sv.has = s.has /\ sv.st = s.st
  BY <1>1 DEF SrvFields
<1>4. PICK old : old = srv[id]
  OBVIOUS
<1>5. PipeSure(old) /\ sv.in = old.in /\ sv.has = old.has /\ sv.st = old.st
  BY <1>3, <1>4 DEF Sync, SureAt
<1>6. PipeSure(sv) /\ NotLess(old, sv)
  BY ONLY <1>5, SameServer
<1> QED
  BY <1>2, <1>4, <1>5, <1>6, ServerStepSync

(* A server answers one of the questions that it has.                       *)
LEMMA ServerAnswersSync ==
  ASSUME IInv, Sync(man, srv, reqs, ed), NEW id \in Ids, ServerAnswers(id)
  PROVE  Sync(man, srv, reqs, ed)'
<1>1. PICK msg, todo : Says(id, msg, [srv[id] EXCEPT !.todo = todo]) /\ UNCHANGED <<ed, man, events, scene, reqs>>
  <2>1. PICK q \in srv[id].todo :
          /\ \E res \in Results(q) :
               Says(id, FromServer("response", q.rid, q.m, NoId, q.d, q.v, res), [srv[id] EXCEPT !.todo = @ \ {q}])
          /\ UNCHANGED <<ed, man, events, scene, reqs>>
    BY DEF ServerAnswers, Unchanged
  <2>2. PICK res : Says(id, FromServer("response", q.rid, q.m, NoId, q.d, q.v, res), [srv[id] EXCEPT !.todo = @ \ {q}])
    BY <2>1
  <2>3. PICK msg : msg = FromServer("response", q.rid, q.m, NoId, q.d, q.v, res)
    OBVIOUS
  <2>4. PICK todo : todo = srv[id].todo \ {q}
    OBVIOUS
  <2>5. Says(id, msg, [srv[id] EXCEPT !.todo = todo])
    BY <2>2, <2>3, <2>4
  <2> QED
    BY <2>1, <2>5
<1>2. PICK s : s = [srv[id] EXCEPT !.todo = todo]
  OBVIOUS
<1>3. DOMAIN srv[id] = SrvFields
  BY ServerFacts
<1>4. DOMAIN s = SrvFields /\ s.in = srv[id].in /\ s.has = srv[id].has /\ s.st = srv[id].st
  BY ONLY <1>2, <1>3 DEF SrvFields
<1> QED
  BY <1>1, <1>2, <1>4, SaysSync

(* A server reports on its progress and on documents.                       *)
LEMMA ServerPushesSync ==
  ASSUME IInv, Sync(man, srv, reqs, ed), NEW id \in Ids, ServerPushes(id)
  PROVE  Sync(man, srv, reqs, ed)'
<1>1. DOMAIN srv[id] = SrvFields
  BY ServerFacts
<1>2. UNCHANGED <<ed, man, events, scene, reqs>>
  BY DEF ServerPushes, Unchanged
<1>3. PICK s : s = [srv[id] EXCEPT !.pushed = @ + 1]
  OBVIOUS
<1>4. DOMAIN s = SrvFields /\ s.in = srv[id].in /\ s.has = srv[id].has /\ s.st = srv[id].st
  BY ONLY <1>1, <1>3 DEF SrvFields
<1>5. \E msg, begun : Says(id, msg, s) \/ Says(id, msg, [s EXCEPT !.begun = begun])
  BY <1>3 DEF ServerPushes
<1>6. PICK msg, begun : Says(id, msg, s) \/ Says(id, msg, [s EXCEPT !.begun = begun])
  BY <1>5
<1>7. PICK z : z = [s EXCEPT !.begun = begun]
  OBVIOUS
<1>8. DOMAIN z = SrvFields /\ z.in = s.in /\ z.has = s.has /\ z.st = s.st
  BY ONLY <1>4, <1>7 DEF SrvFields
<1>9. CASE Says(id, msg, s)
  BY <1>2, <1>4, <1>9, SaysSync
<1>10. CASE Says(id, msg, z)
  BY <1>2, <1>4, <1>8, <1>10, SaysSync
<1> QED
  BY <1>6, <1>7, <1>9, <1>10

(* A server crashes, or says what is not a message.                         *)
LEMMA ServerFailsSync ==
  ASSUME IInv, Sync(man, srv, reqs, ed), NEW id \in Ids, ServerFails(id)
  PROVE  Sync(man, srv, reqs, ed)'
<1>1. DOMAIN srv = Ids /\ DOMAIN srv[id] = SrvFields
  BY ServerFacts
<1>2. UNCHANGED <<ed, man, events, scene, reqs>> /\ srv[id].st = "up"
  BY DEF ServerFails, Unchanged
<1>3. PICK old : old = srv[id]
  OBVIOUS
<1>4. PipeSure(old) /\ DOMAIN old = SrvFields /\ old.st = "up"
  BY <1>1, <1>2, <1>3 DEF Sync, SureAt
<1>5. \/ srv' = [srv EXCEPT ![id].st = "exited", ![id].in = <<>>, ![id].todo = {}]
      \/ srv' = [srv EXCEPT ![id].out = Append(@, [k |-> "garbage"])]
  BY DEF ServerFails
<1>6. CASE srv' = [srv EXCEPT ![id].st = "exited", ![id].in = <<>>, ![id].todo = {}]
  <2>1. PICK sv : sv = [old EXCEPT !.st = "exited", !.in = <<>>, !.todo = {}]
    OBVIOUS
  <2>2. srv' = [srv EXCEPT ![id] = sv]
    BY ONLY <1>1, <1>3, <1>6, <2>1
  <2>3. sv.in = <<>> /\ sv.st # "up" /\ sv.has = old.has
    BY ONLY <1>4, <2>1 DEF SrvFields
  <2>4. PipeSure(sv)
    BY <1>4, <2>3 DEF PipeSure
  <2> QED
    BY <1>2, <2>2, <2>3, <2>4, ServerStepSync
<1>7. CASE srv' = [srv EXCEPT ![id].out = Append(@, [k |-> "garbage"])]
  <2>1. PICK sv : sv = [old EXCEPT !.out = Append(@, [k |-> "garbage"])]
    OBVIOUS
  <2>2. srv' = [srv EXCEPT ![id] = sv]
    BY ONLY <1>1, <1>3, <1>7, <2>1
  <2>3. sv.in = old.in /\ sv.st = old.st /\ sv.has = old.has
    BY ONLY <1>4, <2>1 DEF SrvFields
  <2>4. PipeSure(sv) /\ NotLess(old, sv)
    BY ONLY <1>4, <2>3, SameServer
  <2> QED
    BY <1>2, <1>3, <2>2, <2>3, <2>4, ServerStepSync
<1> QED
  BY <1>5, <1>6, <1>7

----------------------------------------------------------------------------
(* The steps of the editor: what it has sent so far, and has not, is put on *)
(* the channel when the step ends.  Fewer says that a step left it with no  *)
(* more to account for, but for documents that a message is then about: S   *)
(* those that a server may not have open and T those that it may not have   *)
(* as they are.                                                             *)

Fewer(m, w, w2, S, T) ==
    \A d \in w2.open \ w2.unopened : m.caps[FtypeOf[d]] # NoId =>
        /\ d \notin S => d \in w.open \ w.unopened
        /\ (d \notin T /\ d \notin w2.stale /\ ~ w2.dirty[d]) =>
              d \notin w.stale /\ ~ w.dirty[d] /\ w2.txt[d] = w.txt[d]

(* the message accounts for what S and T leave open *)
Heard(m, e, w2, S, T) ==
    \A id \in Ids : \A d \in ReportedTo(m, w2, id) :
        /\ IF d \in S THEN For(e, id) /\ Makes(e, d, Opened) ELSE ~ (For(e, id) /\ Breaks(e, d, Opened))
        /\ (d \notin w2.stale /\ ~ w2.dirty[d]) =>
              IF d \in T THEN For(e, id) /\ Makes(e, d, w2.txt[d])
              ELSE ~ (For(e, id) /\ Breaks(e, d, w2.txt[d]))

(* Nothing is sent.                                                         *)
LEMMA NoteSync ==
  ASSUME NEW m, NEW s, NEW rs, NEW w, Sync(m, s, rs, w), NEW w2, Contents(w2), Fewer(m, w, w2, {}, {})
  PROVE  Sync(m, s, rs, w2)
<1>1. \A id \in Ids : SureAt(m, s[id], rs, id, w)
  BY DEF Sync
<1>2. ASSUME NEW id \in Ids PROVE SureAt(m, s[id], rs, id, w2)
  <2>1. PICK sv : sv = s[id]
    OBVIOUS
  <2>2. SureAt(m, sv, rs, id, w)
    BY <1>1, <2>1
  <2>3. ASSUME EditorSure(m, sv, rs, id, w) PROVE EditorSure(m, sv, rs, id, w2)
    <3> SUFFICES ASSUME NEW d \in ReportedTo(m, w2, id)
                 PROVE  /\ ReqSure(sv, rs, id, d, Len(rs) + 1, Opened)
                        /\ (d \notin w2.stale /\ ~ w2.dirty[d]) => ReqSure(sv, rs, id, d, Len(rs) + 1, w2.txt[d])
      BY DEF EditorSure
    <3>1. d \in w2.open \ w2.unopened /\ m.caps[FtypeOf[d]] = id /\ m.caps[FtypeOf[d]] # NoId
      BY IdsAreServers DEF ReportedTo
    <3>2. /\ d \in ReportedTo(m, w, id)
          /\ (d \notin w2.stale /\ ~ w2.dirty[d]) => d \notin w.stale /\ ~ w.dirty[d] /\ w2.txt[d] = w.txt[d]
      BY <3>1 DEF Fewer, ReportedTo
    <3> QED
      BY ONLY <2>3, <3>2 DEF EditorSure
  <2> QED
    BY <2>1, <2>2, <2>3 DEF SureAt
<1> QED
  BY <1>2 DEF Sync

(* A message is put on the channel.                                         *)
LEMMA TellSync ==
  ASSUME NEW m, NEW s, NEW rs, IsSeq(rs), NEW w, Sync(m, s, rs, w), NEW w2, Contents(w2),
         NEW e, Addressed(m, e), NEW S, NEW T, S \subseteq T, Fewer(m, w, w2, S, T), Heard(m, e, w2, S, T),
         (Asks(e) /\ e.id \in Ids /\ There(m, s[e.id], e.id)) =>
             /\ e.d \in Docs /\ e.v \in Nat
             /\ ReqSure(s[e.id], rs, e.id, e.d, Len(rs) + 1, Opened)
             /\ ReqSure(s[e.id], rs, e.id, e.d, Len(rs) + 1, e.v)
  PROVE  Sync(m, s, Append(rs, e), w2)
<1>1. PICK q, l : q = Append(rs, e) /\ l = Len(rs) + 1
  OBVIOUS
<1>2. /\ IsSeq(q) /\ Len(rs) \in Nat /\ DOMAIN rs = 1 .. Len(rs) /\ l \in Nat /\ l < Len(rs) + 2
      /\ \A k \in DOMAIN q : (k \in DOMAIN rs /\ q[k] = rs[k]) \/ (k = l /\ q[k] = e)
  BY <1>1, SeqAppend, ValuesAppend
<1>3. PICK one : one = <<e>>
  OBVIOUS
<1>4. q = rs \o one /\ IsSeq(one)
  BY <1>1, <1>3, AppendOne
<1>5. ASSUME NEW id, NEW sv, NEW d, NEW c, NEW n \in Nat, n < Len(rs) + 2, ReqSure(sv, rs, id, d, n, c)
      PROVE  ReqSure(sv, q, id, d, n, c)
  <2>1. ReqSure(sv, rs \o one, id, d, n, c)
    BY ONLY <1>4, <1>5, IsSeq(rs), ReqLonger
  <2> QED
    BY <1>4, <2>1
<1>6. ASSUME NEW id, NEW sv, NEW d, NEW c,
             \/ ReqSure(sv, rs, id, d, Len(rs) + 1, c) /\ ~ (For(e, id) /\ Breaks(e, d, c))
             \/ For(e, id) /\ Makes(e, d, c)
      PROVE  ReqSure(sv, q, id, d, Len(q) + 1, c)
  <2>1. ReqSure(sv, Append(rs, e), id, d, Len(Append(rs, e)) + 1, c)
    BY ONLY <1>6, IsSeq(rs), ReqMessage
  <2> QED
    BY <1>1, <2>1
<1>7. ASSUME NEW id \in Ids PROVE SureAt(m, s[id], q, id, w2)
  <2>1. PICK sv : sv = s[id]
    OBVIOUS
  <2>2. SureAt(m, sv, rs, id, w)
    BY <2>1 DEF Sync
  <2> SUFFICES ASSUME There(m, sv, id) PROVE ReqsSure(sv, q, id) /\ EditorSure(m, sv, q, id, w2)
    BY <2>1, <2>2 DEF SureAt
  <2>3. ReqsSure(sv, rs, id) /\ EditorSure(m, sv, rs, id, w)
    BY <2>2 DEF SureAt
  <2>4. ReqsSure(sv, q, id)
    <3> SUFFICES ASSUME NEW k \in DOMAIN q, Asks(q[k]), q[k].id = id
                 PROVE  /\ q[k].d \in Docs /\ q[k].v \in Nat
                        /\ ReqSure(sv, q, id, q[k].d, k, Opened) /\ ReqSure(sv, q, id, q[k].d, k, q[k].v)
      BY DEF ReqsSure
    <3>1. CASE k \in DOMAIN rs /\ q[k] = rs[k]
      <4>1. k \in Nat /\ k < Len(rs) + 2
        BY <1>2, <3>1
      <4>2. /\ rs[k].d \in Docs /\ rs[k].v \in Nat
            /\ ReqSure(sv, rs, id, rs[k].d, k, Opened) /\ ReqSure(sv, rs, id, rs[k].d, k, rs[k].v)
        BY <2>3, <3>1 DEF ReqsSure
      <4> QED
        BY <1>5, <3>1, <4>1, <4>2
    <3>2. CASE k = l /\ q[k] = e
      <4>1. Asks(e) /\ e.id = id
        BY <3>2
      <4>2. e.d \in Docs /\ e.v \in Nat /\ ReqSure(sv, rs, id, e.d, l, Opened) /\ ReqSure(sv, rs, id, e.d, l, e.v)
        BY <1>1, <2>1, <4>1
      <4>3. ReqSure(sv, q, id, e.d, l, Opened) /\ ReqSure(sv, q, id, e.d, l, e.v)
        BY ONLY <1>2, <1>5, <4>2
      <4> QED
        BY ONLY <3>2, <4>2, <4>3
    <3> QED
      BY <1>2, <3>1, <3>2
  <2>5. EditorSure(m, sv, q, id, w2)
    <3> SUFFICES ASSUME NEW d \in ReportedTo(m, w2, id)
                 PROVE  /\ ReqSure(sv, q, id, d, Len(q) + 1, Opened)
                        /\ (d \notin w2.stale /\ ~ w2.dirty[d]) => ReqSure(sv, q, id, d, Len(q) + 1, w2.txt[d])
      BY DEF EditorSure
    <3>1. d \in w2.open \ w2.unopened /\ m.caps[FtypeOf[d]] = id /\ m.caps[FtypeOf[d]] # NoId
      BY IdsAreServers DEF ReportedTo
    <3>2. /\ d \notin S => d \in ReportedTo(m, w, id)
          /\ (d \notin T /\ d \notin w2.stale /\ ~ w2.dirty[d]) =>
                d \notin w.stale /\ ~ w.dirty[d] /\ w2.txt[d] = w.txt[d]
      BY <3>1 DEF Fewer, ReportedTo
    <3>3. /\ IF d \in S THEN For(e, id) /\ Makes(e, d, Opened) ELSE ~ (For(e, id) /\ Breaks(e, d, Opened))
          /\ (d \notin w2.stale /\ ~ w2.dirty[d]) =>
                IF d \in T THEN For(e, id) /\ Makes(e, d, w2.txt[d])
                ELSE ~ (For(e, id) /\ Breaks(e, d, w2.txt[d]))
      BY DEF Heard
    <3>4. /\ d \notin S => ReqSure(sv, rs, id, d, Len(rs) + 1, Opened)
          /\ (d \notin T /\ d \notin w2.stale /\ ~ w2.dirty[d]) => ReqSure(sv, rs, id, d, Len(rs) + 1, w2.txt[d])
      BY ONLY <2>3, <3>2, S \subseteq T DEF EditorSure
    <3>5. ReqSure(sv, q, id, d, Len(q) + 1, Opened)
      BY ONLY <1>6, <3>3, <3>4
    <3>6. ASSUME d \notin w2.stale /\ ~ w2.dirty[d] PROVE ReqSure(sv, q, id, d, Len(q) + 1, w2.txt[d])
      BY ONLY <1>6, <3>3, <3>4, <3>6
    <3> QED
      BY <3>5, <3>6
  <2> QED
    BY <2>4, <2>5
<1>8. \A k \in DOMAIN q : Addressed(m, q[k])
  BY <1>2 DEF Sync
<1> QED
  BY <1>1, <1>7, <1>8 DEF Sync

(* What is appended to the second sequence is appended to both.             *)
LEMMA ConcatAppend ==
  ASSUME NEW q, IsSeq(q), NEW t, IsSeq(t), NEW e
  PROVE  q \o Append(t, e) = Append(q \o t, e)
<1>1. PICK u, v : u = Append(t, e) /\ v = q \o t
  OBVIOUS
<1>2. /\ IsSeq(v) /\ Len(q) \in Nat /\ Len(t) \in Nat /\ Len(v) = Len(q) + Len(t)
      /\ DOMAIN q = 1 .. Len(q) /\ DOMAIN t = 1 .. Len(t)
      /\ \A i \in 1 .. Len(q) : v[i] = q[i]
      /\ \A i \in 1 .. Len(t) : v[Len(q) + i] = t[i]
  BY <1>1, SeqConcat
<1>3. /\ IsSeq(u) /\ Len(u) = Len(t) + 1 /\ DOMAIN u = 1 .. Len(t) + 1
      /\ \A i \in 1 .. Len(t) : u[i] = t[i]
      /\ u[Len(t) + 1] = e
  BY <1>1, SeqAppend
<1>4. PICK x, y : x = q \o u /\ y = Append(v, e)
  OBVIOUS
<1>41. IsSeq(q) /\ IsSeq(u)
  BY <1>3
<1>5. /\ IsSeq(x) /\ DOMAIN x = 1 .. Len(q) + Len(u)
      /\ \A i \in 1 .. Len(q) : x[i] = q[i]
      /\ \A i \in 1 .. Len(u) : x[Len(q) + i] = u[i]
  BY ONLY <1>4, <1>41, SeqConcat
<1>6. /\ IsSeq(y) /\ DOMAIN y = 1 .. Len(v) + 1
      /\ \A i \in 1 .. Len(v) : y[i] = v[i]
      /\ y[Len(v) + 1] = e
  BY <1>2, <1>4, SeqAppend, SMTT(30)
<1>7. DOMAIN x = DOMAIN y
  BY ONLY <1>2, <1>3, <1>5, <1>6
<1>8. ASSUME NEW i \in DOMAIN x PROVE x[i] = y[i]
  <2>1. CASE i \in 1 .. Len(q)
    BY ONLY <1>2, <1>5, <1>6, <2>1
  <2>2. CASE i \notin 1 .. Len(q)
    <3>1. PICK j : j = i - Len(q)
      OBVIOUS
    <3>2. j \in 1 .. Len(t) + 1 /\ i = Len(q) + j
      BY ONLY <1>2, <1>3, <1>5, <1>8, <2>2, <3>1
    <3> QED
      BY ONLY <1>2, <1>3, <1>5, <1>6, <3>2, SMTT(30)
  <2> QED
    BY <2>1, <2>2
<1>9. x = y
  <2>1. x = [i \in DOMAIN x |-> x[i]] /\ y = [i \in DOMAIN y |-> y[i]]
    BY ONLY <1>5, <1>6 DEF IsSeq
  <2> QED
    BY ONLY <1>7, <1>8, <2>1
<1> QED
  BY <1>1, <1>4, <1>9

(* The same, with the sequences named.                                      *)
LEMMA ConcatLonger ==
  ASSUME NEW q, IsSeq(q), NEW t, IsSeq(t), NEW e, NEW u, u = Append(t, e), NEW v, v = q \o t
  PROVE  q \o u = Append(v, e) /\ IsSeq(v)
<1>1. q \o Append(t, e) = Append(q \o t, e)
  BY ConcatAppend
<1>2. IsSeq(q \o t)
  BY SeqConcat
<1> QED
  BY <1>1, <1>2, Zenon

(* Nothing is appended.                                                     *)
LEMMA ConcatNothing ==
  ASSUME NEW q, IsSeq(q), NEW a, a = <<>>
  PROVE  q \o a = q
<1>1. IsSeq(a) /\ Len(a) = 0 /\ Len(q) \in Nat /\ DOMAIN q = 1 .. Len(q)
  BY SeqMade, SeqFacts
<1>2. PICK b : b = q \o a
  OBVIOUS
<1>3. IsSeq(b) /\ DOMAIN b = 1 .. Len(q) + Len(a) /\ \A i \in 1 .. Len(q) : b[i] = q[i]
  BY <1>1, <1>2, SeqConcat
<1>4. DOMAIN b = DOMAIN q /\ \A i \in DOMAIN q : b[i] = q[i]
  BY ONLY <1>1, <1>3
<1>5. b = [i \in DOMAIN b |-> b[i]] /\ q = [i \in DOMAIN q |-> q[i]]
  BY ONLY <1>3, IsSeq(q) DEF IsSeq
<1> QED
  BY ONLY <1>2, <1>4, <1>5

Told(w) ==
    /\ W(w) /\ Sync(man, srv, reqs \o w.sent, w)
    /\ \A i \in DOMAIN w.sent : ~ Asks(w.sent[i])

(* The editor does what it does not tell of.                                *)
LEMMA NoteTold ==
  ASSUME NEW w, Told(w), NEW w2, W(w2), w2.sent = w.sent, Contents(w2), Fewer(man, w, w2, {}, {})
  PROVE  Told(w2)
<1>1. Sync(man, srv, reqs \o w.sent, w2)
  BY NoteSync DEF Told
<1> QED
  BY <1>1 DEF Told

(* It does what it tells of.                                                *)
LEMMA TellTold ==
  ASSUME IInv, NEW w, Told(w), NEW w2, W(w2), NEW e, w2.sent = Append(w.sent, e), Contents(w2),
         Addressed(man, e), ~ Asks(e), NEW S, NEW T, S \subseteq T, Fewer(man, w, w2, S, T), Heard(man, e, w2, S, T)
  PROVE  Told(w2)
<1>1. IsSeq(reqs) /\ IsSeq(w.sent)
  BY DEF IInv, Kernel, ReqsTyped, Told, W
<1>2. PICK rs : rs = reqs \o w.sent
  OBVIOUS
<1>21. PICK t : t = w.sent
  OBVIOUS
<1>22. PICK q, u : q = reqs /\ u = w2.sent
  OBVIOUS
<1>23. IsSeq(q) /\ IsSeq(t) /\ rs = q \o t /\ u = Append(t, e)
  BY <1>1, <1>2, <1>21, <1>22
<1>24. q \o u = Append(rs, e) /\ IsSeq(rs)
  <2>1. IsSeq(q) /\ IsSeq(t)
    BY <1>23
  <2>2. u = Append(t, e)
    BY <1>23
  <2>3. rs = q \o t
    BY <1>23
  <2>4. q \o u = Append(rs, e)
    BY ONLY <2>1, <2>2, <2>3, ConcatLonger
  <2>5. IsSeq(rs)
    BY ONLY <2>1, <2>2, <2>3, ConcatLonger
  <2> QED
    BY <2>4, <2>5
<1>3. IsSeq(rs) /\ reqs \o w2.sent = Append(rs, e)
  BY ONLY <1>22, <1>24
<1>4. Sync(man, srv, rs, w)
  BY <1>2 DEF Told
<1>5. Sync(man, srv, Append(rs, e), w2)
  BY ONLY <1>3, <1>4, Contents(w2), Addressed(man, e), ~ Asks(e), S \subseteq T, Fewer(man, w, w2, S, T),
          Heard(man, e, w2, S, T), TellSync
<1>6. \A i \in DOMAIN w2.sent : ~ Asks(w2.sent[i])
  BY <1>1, ValuesAppend DEF Told
<1> QED
  BY <1>3, <1>5, <1>6 DEF Told

(* What is only seen by the user changes.                                   *)
LEMMA LikeTold ==
  ASSUME NEW w, Told(w), NEW w2, W(w2), w2.sent = w.sent, SameBuffers(w, w2)
  PROVE  Told(w2)
<1>1. Sync(man, srv, reqs \o w.sent, w2)
  BY SyncSame DEF Told
<1> QED
  BY <1>1 DEF Told

(* What the editor has told, it holds.                                      *)
LEMMA ToldFacts ==
  ASSUME NEW w, Told(w)
  PROVE  /\ W(w) /\ Contents(w) /\ DOMAIN w = EdFields \cup {"sent"} /\ w.open \subseteq Docs
         /\ w.active \in w.open \cup {NoDoc}
BY DEF Told, Sync, W, Buffers

(* The server that a document is reported to.                               *)
LEMMA ServerOfFacts ==
  ASSUME IInv, NEW d \in Docs
  PROVE  /\ ServerOf(d) = man.caps[FtypeOf[d]]
         /\ ServerOf(d) # NoId => ServerOf(d) \in 0 .. man.next - 1
         /\ ServerOf(d) \in DOMAIN man.clients => man.clients[ServerOf(d)].status = "Running"
         /\ d # NoDoc /\ FtypeOf[d] \in Ftypes
<1>1. ManTyped(man)
  BY DEF IInv, Kernel
<1>2. /\ man.caps \in [Ftypes -> (0 .. man.next - 1) \cup {NoId}]
      /\ \A f \in Ftypes, id \in DOMAIN man.clients : man.caps[f] = id => man.clients[id].status = "Running"
  BY ONLY <1>1 DEF ManTyped
<1>3. d # NoDoc /\ FtypeOf[d] \in Ftypes
  BY LspAssumption
<1>4. ServerOf(d) = man.caps[FtypeOf[d]]
  BY <1>3 DEF ServerOf
<1> QED
  BY ONLY <1>2, <1>3, <1>4

(* A report is addressed to a server that runs, and asks nothing.           *)
LEMMA ReportAddressed ==
  ASSUME IInv, NEW d \in Docs, ServerOf(d) # NoId, NEW k \in SyncKinds \cup {"didSave"}, NEW v \in Nat,
         NEW e, e = Notify(ServerOf(d), k, d, v)
  PROVE  /\ Addressed(man, e) /\ ~ Asks(e) /\ e.k = "notify" /\ e.m = k /\ e.d = d /\ e.v = v
         /\ \A id \in Ids : For(e, id) <=> man.caps[FtypeOf[d]] = id
<1>1. e.k = "notify" /\ e.id = ServerOf(d) /\ e.m = k /\ e.d = d /\ e.v = v
  BY DEF Notify
<1>2. Addressed(man, e)
  BY <1>1, ServerOfFacts DEF Addressed, Tells
<1>3. \A id \in Ids : For(e, id) <=> man.caps[FtypeOf[d]] = id
  BY <1>1, ServerOfFacts, IdsAreServers DEF For
<1> QED
  BY <1>1, <1>2, <1>3 DEF Asks

(* What it tells of.                                                        *)
LEMMA ReportHeard ==
  ASSUME IInv, NEW d \in Docs, ServerOf(d) # NoId, NEW k \in SyncKinds \cup {"didSave"}, NEW v \in Nat,
         NEW e, e = Notify(ServerOf(d), k, d, v), NEW w, Contents(w), w.open \subseteq Docs
  PROVE  /\ (k = "didOpen" /\ v = w.txt[d]) => Heard(man, e, w, {d}, {d})
         /\ (k = "didChange" /\ v = w.txt[d]) => Heard(man, e, w, {}, {d})
         /\ (k = "didSave" \/ d \notin w.open) => Heard(man, e, w, {}, {})
<1>1. /\ e.k = "notify" /\ e.m = k /\ e.d = d /\ e.v = v
      /\ \A id \in Ids : For(e, id) <=> man.caps[FtypeOf[d]] = id
  BY ReportAddressed
<1>2. \A x \in w.open : w.txt[x] # Opened
  BY DEF Contents, Opened
<1>3. \A id \in Ids : \A x \in ReportedTo(man, w, id) :
        x \in w.open /\ man.caps[FtypeOf[x]] = id /\ w.txt[x] # Opened
  BY <1>2 DEF ReportedTo
<1>4. ASSUME k = "didOpen", v = w.txt[d] PROVE Heard(man, e, w, {d}, {d})
  BY ONLY <1>1, <1>3, <1>4 DEF Heard, Makes, Breaks
<1>5. ASSUME k = "didChange", v = w.txt[d] PROVE Heard(man, e, w, {}, {d})
  BY ONLY <1>1, <1>3, <1>5 DEF Heard, Makes, Breaks
<1>6. ASSUME k = "didSave" \/ d \notin w.open PROVE Heard(man, e, w, {}, {})
  BY ONLY <1>1, <1>3, <1>6 DEF Heard, Makes, Breaks, SyncKinds
<1> QED
  BY <1>4, <1>5, <1>6

(* What is sent, with nothing else changed.                                 *)
LEMMA SendFacts ==
  ASSUME NEW w, DOMAIN w = EdFields \cup {"sent"}, NEW r, NEW y, y = Send(w, r)
  PROVE  /\ DOMAIN y = DOMAIN w /\ SameBuffers(w, y) /\ y.active = w.active /\ y.prompts = w.prompts
         /\ y.asleep = w.asleep /\ y.sent = Append(w.sent, r)
BY DEF Send, EdFields, SameBuffers

(* What is not a report, and asks nothing.                                  *)
LEMMA SendTold ==
  ASSUME IInv, NEW w, Told(w), NEW r, Wish(r), Addressed(man, r), r.k # "notify", ~ Asks(r)
  PROVE  Told(Send(w, r))
<1>1. PICK y : y = Send(w, r)
  OBVIOUS
<1>2. /\ SameBuffers(w, y) /\ y.sent = Append(w.sent, r) /\ W(w) /\ Contents(w)
  BY <1>1, ToldFacts, SendFacts
<1>3. W(y)
  BY <1>1, <1>2, SendKeeps DEF Quiet
<1>4. Contents(y)
  BY ONLY <1>2 DEF Contents, SameBuffers
<1>5. Fewer(man, w, y, {}, {})
  BY ONLY <1>2 DEF Fewer, SameBuffers
<1>6. Heard(man, r, y, {}, {})
  BY r.k # "notify", IdsAreServers DEF Heard, For
<1>7. Told(y)
  BY ONLY IInv, Told(w), <1>2, <1>3, <1>4, <1>5, <1>6, Addressed(man, r), ~ Asks(r), TellTold
<1> QED
  BY <1>1, <1>7

(* A server is to be started.                                               *)
LEMMA StartTold ==
  ASSUME IInv, NEW w, Told(w)
  PROVE  Told(StartClient(w))
<1>1. CASE w.active = NoDoc
  BY <1>1 DEF StartClient
<1>2. CASE w.active # NoDoc
  <2>1. PICK f, docs : f = FtypeOf[w.active] /\ docs = OpenDocs(w, f)
    OBVIOUS
  <2>2. PICK r : r = Start(f, docs)
    OBVIOUS
  <2>3. w.active \in Docs /\ w.open \subseteq Docs /\ Contents(w)
    BY <1>2, ToldFacts
  <2>4. f \in Ftypes /\ DOMAIN docs \subseteq Docs /\ Numbers(docs)
    BY <2>1, <2>3, LspAssumption DEF OpenDocs, Numbers, Contents
  <2>5. r.k = "start" /\ r.f = f /\ r.docs = docs
    BY <2>2 DEF Start
  <2>6. Wish(r) /\ Addressed(man, r) /\ ~ Asks(r)
    BY <2>4, <2>5 DEF Wish, Addressed, Asks
  <2>7. StartClient(w) = Send(w, r)
    BY <1>2, <2>1, <2>2 DEF StartClient
  <2> QED
    BY <2>5, <2>6, <2>7, SendTold
<1> QED
  BY <1>1, <1>2

(* A report that is put on the channel, with the marks that it clears.      *)
Reported(w, y, r, S, T) ==
    /\ y.open = w.open /\ y.dirty = w.dirty /\ y.txt = w.txt /\ y.disk = w.disk
    /\ y.fresh = w.fresh /\ y.log = w.log /\ y.active = w.active
    /\ y.stale = w.stale \ S /\ y.unopened = w.unopened \ T /\ y.sent = Append(w.sent, r)

(* A change is put there, and the buffer is not stale any more.             *)
LEMMA ChangedFacts ==
  ASSUME NEW w, DOMAIN w = EdFields \cup {"sent"}, NEW d, ServerOf(d) # NoId, NEW y, y = DocumentChanged(w, d),
         NEW r, r = Notify(ServerOf(d), "didChange", d, w.txt[d])
  PROVE  Reported(w, y, r, {d}, {})
<1>2. PICK s : s = Send(w, r)
  OBVIOUS
<1>3. DOMAIN s = DOMAIN w /\ SameBuffers(w, s) /\ s.active = w.active /\ s.sent = Append(w.sent, r)
  BY ONLY DOMAIN w = EdFields \cup {"sent"}, <1>2, SendFacts
<1>4. y = [s EXCEPT !.stale = @ \ {d}]
  BY <1>2 DEF DocumentChanged
<1>5. /\ y.open = s.open /\ y.unopened = s.unopened /\ y.dirty = s.dirty /\ y.txt = s.txt /\ y.disk = s.disk
      /\ y.fresh = s.fresh /\ y.log = s.log /\ y.active = s.active /\ y.stale = s.stale \ {d} /\ y.sent = s.sent
  BY ONLY <1>3, <1>4, DOMAIN w = EdFields \cup {"sent"} DEF EdFields
<1> QED
  BY ONLY <1>3, <1>5 DEF SameBuffers, Reported

(* The active buffer is reported as opened.                                 *)
LEMMA OpenedFacts ==
  ASSUME NEW w, DOMAIN w = EdFields \cup {"sent"}, NEW d, d = w.active, d # NoDoc, ServerOf(d) # NoId,
         NEW y, y = DocumentOpened(w),
         NEW r, r = Notify(ServerOf(d), "didOpen", d, w.txt[d])
  PROVE  Reported(w, y, r, {d}, {d})
<1>2. PICK s : s = Send(w, r)
  OBVIOUS
<1>3. DOMAIN s = DOMAIN w /\ SameBuffers(w, s) /\ s.active = w.active /\ s.sent = Append(w.sent, r)
  BY ONLY DOMAIN w = EdFields \cup {"sent"}, <1>2, SendFacts
<1>4. y = [s EXCEPT !.stale = @ \ {d}, !.unopened = @ \ {d}]
  BY <1>2 DEF DocumentOpened
<1>5. /\ y.open = s.open /\ y.unopened = s.unopened \ {d} /\ y.dirty = s.dirty /\ y.txt = s.txt /\ y.disk = s.disk
      /\ y.fresh = s.fresh /\ y.log = s.log /\ y.active = s.active /\ y.stale = s.stale \ {d} /\ y.sent = s.sent
  BY ONLY <1>3, <1>4, DOMAIN w = EdFields \cup {"sent"} DEF EdFields
<1> QED
  BY ONLY <1>3, <1>5 DEF SameBuffers, Reported

(* A change is reported, which what came before may have left open.         *)
LEMMA ChangedTold ==
  ASSUME IInv, NEW u, Told(u), NEW w, W(w), Contents(w), w.sent = u.sent, NEW d \in Docs,
         Fewer(man, u, w, {}, {d})
  PROVE  Told(DocumentChanged(w, d))
<1>1. CASE ServerOf(d) = NoId
  <2>1. Fewer(man, u, w, {}, {})
    BY <1>1, ServerOfFacts DEF Fewer
  <2> QED
    BY <1>1, <2>1, NoteTold DEF DocumentChanged
<1>2. CASE ServerOf(d) # NoId
  <2>1. PICK y : y = DocumentChanged(w, d)
    OBVIOUS
  <2>2. PICK v : v = w.txt[d]
    OBVIOUS
  <2>3. PICK e : e = Notify(ServerOf(d), "didChange", d, v)
    OBVIOUS
  <2>4. /\ y.open = w.open /\ y.unopened = w.unopened /\ y.dirty = w.dirty /\ y.txt = w.txt /\ y.disk = w.disk
        /\ y.fresh = w.fresh /\ y.log = w.log /\ y.active = w.active /\ y.stale = w.stale \ {d}
        /\ y.sent = Append(w.sent, e)
    <3>1. DOMAIN w = EdFields \cup {"sent"}
      BY DEF W
    <3>2. e = Notify(ServerOf(d), "didChange", d, w.txt[d])
      BY <2>2, <2>3
    <3>3. Reported(w, y, e, {d}, {})
      BY ONLY <1>2, <2>1, <3>1, <3>2, ChangedFacts
    <3> QED
      BY ONLY <3>3 DEF Reported
  <2>5. W(y)
    BY <2>1, ReportsKeep DEF Quiet
  <2>6. Contents(y) /\ v \in Nat /\ v = y.txt[d] /\ y.open \subseteq Docs
    BY <2>2, <2>4 DEF Contents, W, Buffers
  <2>7. "didChange" \in SyncKinds \cup {"didSave"}
    BY DEF SyncKinds
  <2>8. Addressed(man, e) /\ ~ Asks(e)
    BY <1>2, <2>3, <2>6, <2>7, ReportAddressed
  <2>9. Heard(man, e, y, {}, {d})
    BY <1>2, <2>3, <2>6, <2>7, ReportHeard
  <2>10. Fewer(man, u, y, {}, {d})
    BY ONLY <2>4, Fewer(man, u, w, {}, {d}) DEF Fewer
  <2>11. y.sent = Append(u.sent, e) /\ {} \subseteq {d}
    BY <2>4
  <2>12. Told(y)
    BY ONLY IInv, Told(u), <2>5, <2>6, <2>8, <2>9, <2>10, <2>11, TellTold
  <2> QED
    BY <2>1, <2>12
<1> QED
  BY <1>1, <1>2

(* The active buffer is opened.                                             *)
LEMMA OpenedTold ==
  ASSUME IInv, NEW u, Told(u), NEW w, W(w), Contents(w), w.sent = u.sent,
         Fewer(man, u, w, {w.active}, {w.active})
  PROVE  Told(DocumentOpened(w))
<1>1. PICK d : d = w.active
  OBVIOUS
<1>2. w.open \subseteq Docs /\ d \in w.open \cup {NoDoc}
  BY <1>1 DEF W, Buffers
<1>3. CASE d = NoDoc
  <2>1. Fewer(man, u, w, {}, {})
    BY <1>1, <1>2, <1>3, LspAssumption DEF Fewer
  <2>2. DocumentOpened(w) = w
    BY <1>1, <1>3 DEF DocumentOpened
  <2> QED
    BY <2>1, <2>2, NoteTold
<1>4. CASE d # NoDoc /\ ServerOf(d) = NoId
  <2>1. d \in Docs
    BY <1>2, <1>4
  <2>2. Fewer(man, u, w, {}, {})
    BY <1>1, <1>4, <2>1, ServerOfFacts DEF Fewer
  <2>3. Told(w)
    BY <2>2, NoteTold
  <2>4. DocumentOpened(w) = w \/ DocumentOpened(w) = StartClient(w)
    BY <1>1, <1>4 DEF DocumentOpened
  <2> QED
    BY <2>3, <2>4, StartTold
<1>5. CASE d # NoDoc /\ ServerOf(d) # NoId
  <2>1. PICK y : y = DocumentOpened(w)
    OBVIOUS
  <2>2. PICK v : v = w.txt[d]
    OBVIOUS
  <2>3. PICK e : e = Notify(ServerOf(d), "didOpen", d, v)
    OBVIOUS
  <2>4. /\ y.open = w.open /\ y.unopened = w.unopened \ {d} /\ y.dirty = w.dirty /\ y.txt = w.txt /\ y.disk = w.disk
        /\ y.fresh = w.fresh /\ y.log = w.log /\ y.active = w.active /\ y.stale = w.stale \ {d}
        /\ y.sent = Append(w.sent, e)
    <3>1. DOMAIN w = EdFields \cup {"sent"}
      BY DEF W
    <3>2. e = Notify(ServerOf(d), "didOpen", d, w.txt[d])
      BY <2>2, <2>3
    <3>3. Reported(w, y, e, {d}, {d})
      BY ONLY <1>1, <1>5, <2>1, <3>1, <3>2, OpenedFacts
    <3> QED
      BY ONLY <3>3 DEF Reported
  <2>5. W(y)
    BY <2>1, ReportsKeep DEF Quiet
  <2>6. Contents(y) /\ d \in Docs /\ v \in Nat /\ v = y.txt[d] /\ y.open \subseteq Docs
    BY <1>2, <1>5, <2>2, <2>4 DEF Contents
  <2>7. "didOpen" \in SyncKinds \cup {"didSave"}
    BY DEF SyncKinds
  <2>8. Addressed(man, e) /\ ~ Asks(e)
    BY <1>5, <2>3, <2>6, <2>7, ReportAddressed
  <2>9. Heard(man, e, y, {d}, {d})
    BY <1>5, <2>3, <2>6, <2>7, ReportHeard
  <2>10. Fewer(man, u, w, {d}, {d})
    BY <1>1
  <2>11. Fewer(man, u, y, {d}, {d})
    BY ONLY <2>4, <2>10 DEF Fewer
  <2>12. y.sent = Append(u.sent, e)
    BY <2>4
  <2>13. Told(y)
    BY ONLY IInv, Told(u), <2>5, <2>6, <2>8, <2>9, <2>11, <2>12, TellTold
  <2> QED
    BY <2>1, <2>13
<1> QED
  BY <1>3, <1>4, <1>5

(* A document is saved.                                                     *)
LEMMA SavedTold ==
  ASSUME IInv, NEW w, Told(w), NEW d \in Docs
  PROVE  Told(DocumentSaved(w, d))
<1>1. CASE ServerOf(d) = NoId
  BY <1>1 DEF DocumentSaved
<1>2. CASE ServerOf(d) # NoId
  <2>1. PICK y : y = DocumentSaved(w, d)
    OBVIOUS
  <2>2. PICK v : v = w.txt[d]
    OBVIOUS
  <2>3. PICK e : e = Notify(ServerOf(d), "didSave", d, v)
    OBVIOUS
  <2>4. y = Send(w, e)
    BY <1>2, <2>1, <2>2, <2>3 DEF DocumentSaved
  <2>5. SameBuffers(w, y) /\ y.sent = Append(w.sent, e) /\ W(w) /\ Contents(w) /\ w.open \subseteq Docs
    BY <2>4, ToldFacts, SendFacts
  <2>6. W(y)
    BY <2>1, <2>5, ReportsKeep DEF Quiet
  <2>7. Contents(y) /\ Fewer(man, w, y, {}, {}) /\ y.open \subseteq Docs
    BY ONLY <2>5 DEF Contents, SameBuffers, Fewer
  <2>8. v \in Nat
    BY <2>2, <2>5 DEF Contents
  <2>9. Addressed(man, e) /\ ~ Asks(e)
    BY <1>2, <2>3, <2>8, ReportAddressed
  <2>10. Heard(man, e, y, {}, {})
    BY <1>2, <2>3, <2>7, <2>8, ReportHeard
  <2>11. Told(y)
    BY ONLY IInv, Told(w), <2>5, <2>6, <2>7, <2>9, <2>10, TellTold
  <2> QED
    BY <2>1, <2>11
<1> QED
  BY <1>1, <1>2

(* The focus moves.                                                         *)
LEMMA FocusTold ==
  ASSUME IInv, NEW w, Told(w)
  PROVE  Told(NotifyIfDirty(w)) /\ \A d \in w.open : Told(FocusOn(w, d))
<1>1. PICK y : y = NotifyIfDirty(w)
  OBVIOUS
<1>2. /\ W(w) /\ Contents(w) /\ w.open \subseteq Docs /\ w.active \in w.open \cup {NoDoc}
      /\ \A d : Fewer(man, w, w, {}, {d})
  BY ToldFacts DEF Fewer
<1>3. Told(y)
  <2>1. CASE y = w
    BY <2>1
  <2>2. CASE y # w
    <3>1. PICK d : d = w.active
      OBVIOUS
    <3>2. d \in Docs /\ y = DocumentChanged(w, d)
      BY <1>1, <1>2, <2>2, <3>1 DEF NotifyIfDirty
    <3> QED
      BY ONLY IInv, Told(w), <1>2, <3>2, ChangedTold
  <2> QED
    BY <2>1, <2>2
<1>4. ASSUME NEW d \in w.open PROVE Told(FocusOn(w, d))
  <2>1. PICK z : z = FocusOn(w, d)
    OBVIOUS
  <2>2. W(z)
    BY <1>2, <2>1, FocusOnKeeps
  <2>3. z = [y EXCEPT !.active = d] /\ DOMAIN y = EdFields \cup {"sent"}
    BY <1>1, <1>3, <2>1, ToldFacts DEF FocusOn
  <2>4. z.sent = y.sent /\ SameBuffers(y, z)
    BY ONLY <2>3 DEF EdFields, SameBuffers
  <2>5. Told(z)
    BY ONLY <1>3, <2>2, <2>4, LikeTold
  <2> QED
    BY <2>1, <2>5
<1> QED
  BY <1>1, <1>3, <1>4

(* A file is read, of which the server knows nothing.                       *)
Loaded(m, w, y, d) ==
    /\ DOMAIN y = DOMAIN w /\ Contents(y) /\ y.open = w.open \cup {d}
    /\ y.sent = w.sent /\ y.unopened = w.unopened /\ Fewer(m, w, y, {d}, {d})

(* That is what Load does.                                                  *)
LEMMA LoadFacts ==
  ASSUME NEW w, DOMAIN w = EdFields \cup {"sent"}, Contents(w), NEW d \in Docs, NEW y, y = Load(w, d), NEW m
  PROVE  Loaded(m, w, y, d)
<1>1. /\ DOMAIN y = DOMAIN w /\ y.open = w.open \cup {d} /\ y.active = w.active /\ y.sent = w.sent
      /\ y.unopened = w.unopened /\ y.stale = w.stale /\ y.disk = w.disk /\ y.fresh = w.fresh
      /\ y.txt = [w.txt EXCEPT ![d] = w.disk[d]] /\ y.dirty = [w.dirty EXCEPT ![d] = FALSE]
      /\ y.log = [w.log EXCEPT ![d] = <<>>]
  BY DEF Load, EdFields
<1>2. /\ w.txt \in [Docs -> Nat] /\ w.disk \in [Docs -> Nat] /\ w.fresh \in Nat
      /\ w.dirty \in [Docs -> BOOLEAN] /\ w.log \in [Docs -> Seq(Nat)]
  BY DEF Contents
<1>3. w.disk[d] \in Nat /\ <<>> \in Seq(Nat)
  BY <1>2
<1>4. Contents(y)
  BY ONLY <1>1, <1>2, <1>3 DEF Contents
<1>5. \A x \in Docs : x # d => y.txt[x] = w.txt[x] /\ y.dirty[x] = w.dirty[x]
  BY ONLY <1>1, <1>2
<1>6. Fewer(m, w, y, {d}, {d})
  <2>1. \A x : x # d => y.txt[x] = w.txt[x] /\ y.dirty[x] = w.dirty[x]
    BY ONLY <1>1, <1>2
  <2> QED
    BY ONLY <1>1, <2>1 DEF Fewer
<1> QED
  BY <1>1, <1>4, <1>6 DEF Loaded

(* A file is opened.                                                        *)
LEMMA OpenFileTold ==
  ASSUME IInv, NEW w, Told(w), NEW d \in Docs
  PROVE  Told(OpenFile(w, d))
<1>1. CASE d \in w.open
  BY <1>1, FocusTold DEF OpenFile
<1>2. CASE d \notin w.open
  <2>1. PICK y : y = Load(w, d)
    OBVIOUS
  <2>2. PICK z : z = [y EXCEPT !.active = d]
    OBVIOUS
  <2>3. W(w) /\ Contents(w) /\ DOMAIN w = EdFields \cup {"sent"}
    BY ToldFacts
  <2>4. /\ DOMAIN y = DOMAIN w /\ Contents(y) /\ y.open = w.open \cup {d}
        /\ y.sent = w.sent /\ y.unopened = w.unopened /\ Fewer(man, w, y, {d}, {d})
    <3>1. Loaded(man, w, y, d)
      BY ONLY d \in Docs, <2>1, <2>3, LoadFacts
    <3> QED
      BY ONLY <3>1 DEF Loaded
  <2>5. W(y) /\ y.open \subseteq Docs
    BY <2>1, <2>3, LoadKeeps DEF W, Buffers
  <2>6. /\ DOMAIN z = DOMAIN y /\ z.sent = y.sent /\ z.prompts = y.prompts /\ z.open = y.open /\ z.active = d
        /\ SameBuffers(y, z)
    BY ONLY <2>2, <2>3, <2>4 DEF EdFields, SameBuffers
  <2>7. z.open \subseteq Docs /\ z.active \in z.open \cup {NoDoc}
    BY <2>4, <2>5, <2>6
  <2>8. W(z)
    BY ONLY <2>5, <2>6, <2>7, BuffersSet
  <2>9. Contents(z) /\ Fewer(man, w, z, {z.active}, {z.active}) /\ z.sent = w.sent
    BY ONLY <2>4, <2>6 DEF Contents, SameBuffers, Fewer
  <2>10. Told(DocumentOpened(z))
    BY ONLY IInv, Told(w), <2>8, <2>9, OpenedTold
  <2>11. OpenFile(w, d) = DocumentOpened(z)
    BY <1>2, <2>1, <2>2 DEF OpenFile
  <2> QED
    BY <2>10, <2>11
<1> QED
  BY <1>1, <1>2

(* A file is opened, and the active buffer is reported.                     *)
LEMMA EnsureOpenTold ==
  ASSUME IInv, NEW w, Told(w), NEW d \in Docs
  PROVE  Told(EnsureOpen(w, d))
<1>1. CASE d \in w.open
  BY <1>1 DEF EnsureOpen
<1>2. CASE d \notin w.open
  <2>1. PICK y : y = DocumentOpened(w)
    OBVIOUS
  <2>2. W(w) /\ Contents(w) /\ \A S : Fewer(man, w, w, S, S)
    BY ToldFacts DEF Fewer
  <2>3. Told(y)
    BY ONLY IInv, Told(w), <2>1, <2>2, OpenedTold
  <2>4. PICK z : z = Load(y, d)
    OBVIOUS
  <2>5. W(y) /\ Contents(y) /\ DOMAIN y = EdFields \cup {"sent"}
    BY <2>3, ToldFacts
  <2>6. /\ DOMAIN z = DOMAIN y /\ Contents(z) /\ z.open = y.open \cup {d}
        /\ z.sent = y.sent /\ z.unopened = y.unopened /\ Fewer(man, y, z, {d}, {d})
    <3>1. Loaded(man, y, z, d)
      BY ONLY d \in Docs, <2>4, <2>5, LoadFacts
    <3> QED
      BY ONLY <3>1 DEF Loaded
  <2>7. PICK u : u = EnsureOpen(w, d)
    OBVIOUS
  <2>8. u = [z EXCEPT !.unopened = @ \cup {d}]
    BY <1>2, <2>1, <2>4, <2>7 DEF EnsureOpen
  <2>9. /\ u.open = z.open /\ u.unopened = z.unopened \cup {d} /\ u.stale = z.stale /\ u.dirty = z.dirty
        /\ u.txt = z.txt /\ u.disk = z.disk /\ u.fresh = z.fresh /\ u.log = z.log /\ u.sent = z.sent
    BY ONLY <2>5, <2>6, <2>8 DEF EdFields
  <2>10. W(u)
    BY <2>2, <2>7, EnsureOpenKeeps
  <2>11. Contents(u) /\ Fewer(man, y, u, {}, {}) /\ u.sent = y.sent
    BY ONLY <2>6, <2>9 DEF Contents, Fewer
  <2>12. Told(u)
    BY ONLY <2>3, <2>10, <2>11, NoteTold
  <2> QED
    BY <2>7, <2>12
<1> QED
  BY <1>1, <1>2

(* What is in the active buffer changes.                                    *)
LEMMA EditTold ==
  ASSUME NEW w, Told(w)
  PROVE  Told(EditBuffer(w))
<1>1. CASE w.active = NoDoc
  BY <1>1 DEF EditBuffer
<1>2. CASE w.active # NoDoc
  <2>1. PICK d, y : d = w.active /\ y = EditBuffer(w)
    OBVIOUS
  <2>2. W(w) /\ Contents(w) /\ DOMAIN w = EdFields \cup {"sent"} /\ d \in Docs
    BY <1>2, <2>1, ToldFacts
  <2>3. W(y)
    BY <2>1, <2>2, EditsKeep DEF Quiet
  <2>4. y = [w EXCEPT !.log[d] = Append(@, w.txt[d]), !.txt[d] = w.fresh, !.fresh = @ + 1, !.dirty[d] = TRUE]
    BY <1>2, <2>1 DEF EditBuffer
  <2>5. /\ y.open = w.open /\ y.unopened = w.unopened /\ y.stale = w.stale /\ y.disk = w.disk /\ y.sent = w.sent
        /\ y.fresh = w.fresh + 1 /\ y.txt = [w.txt EXCEPT ![d] = w.fresh]
        /\ y.dirty = [w.dirty EXCEPT ![d] = TRUE] /\ y.log = [w.log EXCEPT ![d] = Append(@, w.txt[d])]
    BY ONLY <2>2, <2>4 DEF EdFields
  <2>6. /\ w.txt \in [Docs -> Nat] /\ w.disk \in [Docs -> Nat] /\ w.fresh \in Nat
        /\ w.dirty \in [Docs -> BOOLEAN] /\ w.log \in [Docs -> Seq(Nat)]
    BY <2>2 DEF Contents
  <2>7. w.fresh + 1 \in Nat /\ Append(w.log[d], w.txt[d]) \in Seq(Nat)
    BY ONLY <2>2, <2>6
  <2>8. Contents(y)
    BY ONLY <2>2, <2>5, <2>6, <2>7 DEF Contents
  <2>9. \A x : x # d => y.txt[x] = w.txt[x] /\ y.dirty[x] = w.dirty[x]
    BY ONLY <2>5, <2>6
  <2>10. y.dirty[d]
    BY ONLY <2>2, <2>5, <2>6
  <2>11. Fewer(man, w, y, {}, {})
    BY ONLY <2>5, <2>9, <2>10 DEF Fewer
  <2>12. Told(y)
    BY ONLY Told(w), <2>3, <2>5, <2>8, <2>11, NoteTold
  <2> QED
    BY <2>1, <2>12
<1> QED
  BY <1>1, <1>2

(* An edit is undone.                                                       *)
LEMMA UndoTold ==
  ASSUME NEW w, Told(w), w.active # NoDoc, w.log[w.active] # <<>>
  PROVE  Told(UndoEdit(w))
<1>1. PICK d, y : d = w.active /\ y = UndoEdit(w)
  OBVIOUS
<1>2. W(w) /\ Contents(w) /\ DOMAIN w = EdFields \cup {"sent"} /\ d \in Docs
  BY <1>1, ToldFacts
<1>3. W(y)
  BY <1>1, <1>2, EditsKeep DEF Quiet
<1>4. PICK g, t, s : /\ g = Front(w.log[d]) /\ t = Last(w.log[d])
                     /\ s = IF g = <<>> THEN w.stale \cup {d} ELSE w.stale
  OBVIOUS
<1>5. y = [w EXCEPT !.txt[d] = t, !.log[d] = g, !.dirty[d] = (g # <<>>), !.stale = s]
  BY <1>1, <1>4 DEF UndoEdit
<1>6. /\ y.open = w.open /\ y.unopened = w.unopened /\ y.stale = s /\ y.disk = w.disk /\ y.sent = w.sent
      /\ y.fresh = w.fresh /\ y.txt = [w.txt EXCEPT ![d] = t]
      /\ y.dirty = [w.dirty EXCEPT ![d] = (g # <<>>)] /\ y.log = [w.log EXCEPT ![d] = g]
  BY ONLY <1>2, <1>5 DEF EdFields
<1>7. /\ w.txt \in [Docs -> Nat] /\ w.disk \in [Docs -> Nat] /\ w.fresh \in Nat
      /\ w.dirty \in [Docs -> BOOLEAN] /\ w.log \in [Docs -> Seq(Nat)]
  BY <1>2 DEF Contents
<1>8. t \in Nat /\ g \in Seq(Nat)
  <2>1. PICK q : q = w.log[d]
    OBVIOUS
  <2>2. q \in Seq(Nat) /\ q # <<>>
    BY <1>1, <1>2, <1>7, <2>1
  <2>3. g = SubSeq(q, 1, Len(q) - 1) /\ t = q[Len(q)]
    BY <1>4, <2>1 DEF Front, Last
  <2> QED
    BY ONLY <2>2, <2>3
<1>9. Contents(y)
  BY ONLY <1>2, <1>6, <1>7, <1>8 DEF Contents
<1>10. \A x : x # d => y.txt[x] = w.txt[x] /\ y.dirty[x] = w.dirty[x]
  BY ONLY <1>6, <1>7
<1>11. (y.dirty[d] <=> g # <<>>) /\ (g = <<>> => d \in s) /\ w.stale \subseteq s
  BY ONLY <1>2, <1>4, <1>6, <1>7
<1>12. Fewer(man, w, y, {}, {})
  BY ONLY <1>6, <1>10, <1>11 DEF Fewer
<1>13. Told(y)
  BY ONLY Told(w), <1>3, <1>6, <1>9, <1>12, NoteTold
<1> QED
  BY <1>1, <1>13

(* A buffer is saved.                                                       *)
LEMMA SaveTold ==
  ASSUME IInv, NEW w, Told(w), w.active # NoDoc
  PROVE  Told(SaveBuffer(w))
<1>1. PICK d : d = w.active
  OBVIOUS
<1>2. PICK y : y = [w EXCEPT !.disk[d] = w.txt[d], !.dirty[d] = FALSE]
  OBVIOUS
<1>3. W(w) /\ Contents(w) /\ DOMAIN w = EdFields \cup {"sent"} /\ d \in Docs
  BY <1>1, ToldFacts
<1>4. /\ y.open = w.open /\ y.unopened = w.unopened /\ y.stale = w.stale /\ y.txt = w.txt /\ y.sent = w.sent
      /\ y.fresh = w.fresh /\ y.log = w.log /\ y.disk = [w.disk EXCEPT ![d] = w.txt[d]]
      /\ y.dirty = [w.dirty EXCEPT ![d] = FALSE] /\ Same(w, y)
  BY ONLY <1>2, <1>3 DEF EdFields, Same
<1>5. W(y)
  BY <1>3, <1>4, SameIsQuiet DEF Quiet
<1>6. /\ w.txt \in [Docs -> Nat] /\ w.disk \in [Docs -> Nat] /\ w.fresh \in Nat
      /\ w.dirty \in [Docs -> BOOLEAN] /\ w.log \in [Docs -> Seq(Nat)]
  BY <1>3 DEF Contents
<1>7. Contents(y)
  BY ONLY <1>3, <1>4, <1>6 DEF Contents
<1>8. \A x : x # d => y.dirty[x] = w.dirty[x]
  BY ONLY <1>4, <1>6
<1>9. Fewer(man, w, y, {}, {d})
  BY ONLY <1>4, <1>8 DEF Fewer
<1>10. PICK z : z = DocumentChanged(y, d)
  OBVIOUS
<1>11. Told(z)
  BY ONLY IInv, Told(w), <1>3, <1>4, <1>5, <1>7, <1>9, <1>10, ChangedTold
<1>12. SaveBuffer(w) = DocumentSaved(z, d)
  BY <1>1, <1>2, <1>10 DEF SaveBuffer
<1> QED
  BY <1>3, <1>11, <1>12, SavedTold

(* It is read again.                                                        *)
LEMMA ReloadTold ==
  ASSUME NEW w, Told(w), w.active # NoDoc
  PROVE  Told(ReloadBuffer(w))
<1>1. PICK d, y : d = w.active /\ y = ReloadBuffer(w)
  OBVIOUS
<1>2. W(w) /\ Contents(w) /\ DOMAIN w = EdFields \cup {"sent"} /\ d \in Docs
  BY <1>1, ToldFacts
<1>3. W(y)
  BY <1>1, <1>2, EditsKeep DEF Quiet
<1>4. y = [w EXCEPT !.txt[d] = w.disk[d], !.dirty[d] = FALSE, !.log[d] = <<>>, !.stale = @ \cup {d}]
  BY <1>1 DEF ReloadBuffer
<1>5. /\ y.open = w.open /\ y.unopened = w.unopened /\ y.stale = w.stale \cup {d} /\ y.disk = w.disk
      /\ y.sent = w.sent /\ y.fresh = w.fresh /\ y.txt = [w.txt EXCEPT ![d] = w.disk[d]]
      /\ y.dirty = [w.dirty EXCEPT ![d] = FALSE] /\ y.log = [w.log EXCEPT ![d] = <<>>]
  BY ONLY <1>2, <1>4 DEF EdFields
<1>6. /\ w.txt \in [Docs -> Nat] /\ w.disk \in [Docs -> Nat] /\ w.fresh \in Nat
      /\ w.dirty \in [Docs -> BOOLEAN] /\ w.log \in [Docs -> Seq(Nat)] /\ <<>> \in Seq(Nat)
  BY <1>2 DEF Contents
<1>7. Contents(y)
  BY ONLY <1>2, <1>5, <1>6 DEF Contents
<1>8. \A x : x # d => y.txt[x] = w.txt[x] /\ y.dirty[x] = w.dirty[x]
  BY ONLY <1>5, <1>6
<1>9. Fewer(man, w, y, {}, {})
  BY ONLY <1>5, <1>8 DEF Fewer
<1>10. Told(y)
  BY ONLY Told(w), <1>3, <1>5, <1>7, <1>9, NoteTold
<1> QED
  BY <1>1, <1>10

(* A buffer is closed.                                                      *)
LEMMA CloseTold ==
  ASSUME IInv, NEW w, Told(w), NEW d \in Docs, NEW next, next \in (w.open \ {d}) \cup {NoDoc}
  PROVE  Told(CloseBuffer(w, d, next))
<1>1. PICK y : y = [w EXCEPT !.open = @ \ {d}, !.active = next]
  OBVIOUS
<1>2. PICK z : z = DocumentClosed(y, d)
  OBVIOUS
<1>3. PICK u : u = CloseBuffer(w, d, next)
  OBVIOUS
<1>4. W(w) /\ Contents(w) /\ DOMAIN w = EdFields \cup {"sent"} /\ w.open \subseteq Docs
  BY ToldFacts
<1>5. W(u)
  BY <1>3, <1>4, CloseBufferKeeps
<1>6. /\ DOMAIN y = EdFields \cup {"sent"} /\ y.open = w.open \ {d} /\ y.unopened = w.unopened /\ y.stale = w.stale
      /\ y.dirty = w.dirty /\ y.txt = w.txt /\ y.disk = w.disk /\ y.fresh = w.fresh /\ y.log = w.log
      /\ y.sent = w.sent
  BY ONLY <1>1, <1>4 DEF EdFields
<1>7. PICK v : v = w.txt[d]
  OBVIOUS
<1>8. PICK e : e = Notify(ServerOf(d), "didClose", d, v)
  OBVIOUS
<1>9. /\ ServerOf(d) = NoId => z = y
      /\ ServerOf(d) # NoId => z = Send(y, e)
  BY <1>2, <1>6, <1>7, <1>8 DEF DocumentClosed
<1>10. /\ DOMAIN z = EdFields \cup {"sent"} /\ SameBuffers(y, z)
       /\ z.sent = IF ServerOf(d) = NoId THEN w.sent ELSE Append(w.sent, e)
  <2>1. CASE ServerOf(d) = NoId
    BY ONLY <1>6, <1>9, <2>1 DEF SameBuffers
  <2>2. CASE ServerOf(d) # NoId
    <3>1. DOMAIN z = DOMAIN y /\ SameBuffers(y, z) /\ z.sent = Append(y.sent, e)
      BY ONLY <1>6, <1>9, <2>2, SendFacts
    <3> QED
      BY ONLY <1>6, <2>2, <3>1
  <2> QED
    BY ONLY <2>1, <2>2
<1>11. u = [z EXCEPT !.stale = @ \ {d}, !.unopened = @ \ {d}]
  BY <1>1, <1>2, <1>3 DEF CloseBuffer
<1>12. /\ u.open = z.open /\ u.unopened = z.unopened \ {d} /\ u.stale = z.stale \ {d}
       /\ u.dirty = z.dirty /\ u.txt = z.txt /\ u.disk = z.disk /\ u.fresh = z.fresh /\ u.log = z.log
       /\ u.sent = z.sent
  BY ONLY <1>10, <1>11 DEF EdFields
<1>13. /\ u.open = w.open \ {d} /\ u.unopened = w.unopened \ {d} /\ u.stale = w.stale \ {d}
       /\ u.dirty = w.dirty /\ u.txt = w.txt /\ u.disk = w.disk /\ u.fresh = w.fresh /\ u.log = w.log
  BY ONLY <1>6, <1>10, <1>12 DEF SameBuffers
<1>14. Contents(u) /\ u.open \subseteq Docs /\ d \notin u.open
  BY ONLY <1>4, <1>13 DEF Contents
<1>15. Fewer(man, w, u, {}, {})
  BY ONLY <1>13 DEF Fewer
<1>16. CASE ServerOf(d) = NoId
  <2>1. u.sent = w.sent
    BY ONLY <1>10, <1>12, <1>16
  <2>2. Told(u)
    BY ONLY Told(w), <1>5, <1>14, <1>15, <2>1, NoteTold
  <2> QED
    BY <1>3, <2>2
<1>17. CASE ServerOf(d) # NoId
  <2>1. u.sent = Append(w.sent, e)
    BY ONLY <1>10, <1>12, <1>17
  <2>2. v \in Nat
    BY <1>4, <1>7 DEF Contents
  <2>3. "didClose" \in SyncKinds \cup {"didSave"}
    BY DEF SyncKinds
  <2>4. Addressed(man, e) /\ ~ Asks(e)
    BY <1>8, <1>17, <2>2, <2>3, ReportAddressed
  <2>5. Heard(man, e, u, {}, {})
    BY <1>8, <1>14, <1>17, <2>2, <2>3, ReportHeard
  <2>6. Told(u)
    BY ONLY IInv, Told(w), <1>5, <1>14, <1>15, <2>1, <2>4, <2>5, TellTold
  <2> QED
    BY <1>3, <2>6
<1> QED
  BY <1>16, <1>17

(* The user is asked.                                                       *)
LEMMA PromptTold ==
  ASSUME NEW w, Told(w), NEW k, NEW d, NEW id, Menu(Event(k, d, NoDoc, id))
  PROVE  Told(Prompt(w, k, d, id))
<1>1. PICK y : y = Prompt(w, k, d, id)
  OBVIOUS
<1>2. W(w) /\ DOMAIN w = EdFields \cup {"sent"}
  BY ToldFacts
<1>3. W(y)
  BY <1>1, <1>2, PromptKeeps
<1>4. y.sent = w.sent /\ SameBuffers(w, y)
  BY ONLY <1>1, <1>2 DEF Prompt, EdFields, SameBuffers
<1> QED
  BY <1>1, <1>3, <1>4, LikeTold

(* The actions of an answer.                                                *)
LEMMA PerformTold ==
  ASSUME IInv, NEW w, Told(w), NEW e, Action(e)
  PROVE  Told(Perform(w, e))
<1>1. CASE e.k = "open"
  BY <1>1, OpenFileTold DEF Perform, Action
<1>2. CASE e.k = "references"
  <2>1. PICK y : y = EnsureOpen(w, e.d)
    OBVIOUS
  <2>2. e.d \in Docs
    BY <1>2 DEF Action
  <2>3. Told(y)
    BY <2>1, <2>2, EnsureOpenTold
  <2>4. Menu(Event("references", e.d, NoDoc, e.id))
    BY <2>2 DEF Menu, Event
  <2>5. Perform(w, e) = Prompt(y, "references", e.d, e.id)
    BY <1>2, <2>1 DEF Perform
  <2> QED
    BY <2>3, <2>4, <2>5, PromptTold
<1>3. CASE e.k = "edit"
  BY <1>3, EditTold DEF Perform
<1>4. CASE e.k = "rename"
  <2>1. PICK y : y = OpenFile(w, e.d)
    OBVIOUS
  <2>2. PICK z : z = EditBuffer(y)
    OBVIOUS
  <2>3. Told(y)
    BY <1>4, <2>1, OpenFileTold DEF Action
  <2>4. Told(z)
    BY <2>2, <2>3, EditTold
  <2>5. Perform(w, e) = IF e.back \in z.open /\ e.back # z.active THEN FocusOn(z, e.back) ELSE z
    BY <1>4, <2>1, <2>2 DEF Perform
  <2> QED
    BY <2>4, <2>5, FocusTold
<1>5. CASE e.k \in {"resolve", "complete", "newName"}
  <2>1. Perform(w, e) = Prompt(w, e.k, e.d, e.id)
    BY <1>5 DEF Perform
  <2>2. Menu(Event(e.k, e.d, NoDoc, e.id))
    BY <1>5 DEF Menu, Event
  <2> QED
    BY <2>1, <2>2, PromptTold
<1> QED
  BY <1>1, <1>2, <1>3, <1>4, <1>5 DEF Action

(* What the user chooses, but for a new name.                               *)
LEMMA SelectedTold ==
  ASSUME IInv, NEW w, Told(w), NEW p, Menu(p), p.k # "newName", NEW d, p.k = "list" => d \in Docs
  PROVE  Told(Selected(w, p, d))
<1>1. CASE p.k = "references"
  BY <1>1, OpenFileTold DEF Selected, ReferenceSelected, Menu
<1>2. CASE p.k = "list"
  BY <1>2, OpenFileTold DEF Selected, DiagnosticSelected
<1>3. CASE p.k \in {"complete", "resolve"}
  <2>1. PICK r : r = Request(p.id, "resolve", p.d, -1)
    OBVIOUS
  <2>2. r.k = "request" /\ r.m = "resolve"
    BY <2>1 DEF Request
  <2>3. Wish(r)
    BY <2>1, NotifyIsWish
  <2>4. Addressed(man, r) /\ ~ Asks(r)
    BY <2>2 DEF Addressed, Asks, Questions
  <2>5. Selected(w, p, d) = EditBuffer(w) \/ Selected(w, p, d) = Send(w, r)
    BY <1>3, <2>1 DEF Selected, CompletionSelected
  <2> QED
    BY <2>2, <2>3, <2>4, <2>5, EditTold, SendTold
<1> QED
  BY <1>1, <1>2, <1>3 DEF Menu

----------------------------------------------------------------------------
(* What the editor has sent is put on the channel at the end of a step, the *)
(* questions about what a server cannot know marked.                        *)

Missing(w, r) == r.k = "request" /\ r.d \in w.stale \cup w.unopened
Mark(w, r)    == IF Missing(w, r) THEN [r EXCEPT !.v = -1] ELSE r
Marked(w)     == [i \in DOMAIN w.sent |-> Mark(w, w.sent[i])]
Complete(w)   == W(w) /\ Sync(man, srv, reqs \o Marked(w), w)

(* A question that is marked is a question, and asks nothing.               *)
LEMMA MarkFacts ==
  ASSUME NEW w, NEW r, Wish(r)
  PROVE  \/ Mark(w, r) = r
         \/ /\ r.k = "request" /\ Mark(w, r).k = "request" /\ ~ Asks(Mark(w, r))
            /\ \A m : Addressed(m, r) => Addressed(m, Mark(w, r))
<1>1. CASE Missing(w, r)
  <2>1. PICK e : e = Mark(w, r)
    OBVIOUS
  <2>2. r.k = "request" /\ e = [r EXCEPT !.v = -1] /\ r = Request(r.id, r.m, r.d, r.v)
    BY <1>1, <2>1 DEF Mark, Missing, Wish
  <2>3. PICK a, k, d, v : r = [k |-> "request", id |-> a, m |-> k, d |-> d, v |-> v]
    BY <2>2 DEF Request
  <2>4. e.k = "request" /\ e.id = r.id /\ e.m = r.m /\ e.d = r.d /\ e.v = -1
    BY ONLY <2>2, <2>3
  <2>5. ~ Asks(e) /\ \A m : Addressed(m, r) => Addressed(m, e)
    BY ONLY <2>2, <2>4 DEF Asks, Addressed
  <2> QED
    BY <2>1, <2>2, <2>4, <2>5
<1>2. CASE ~ Missing(w, r)
  BY <1>2 DEF Mark
<1> QED
  BY <1>1, <1>2

(* They are as many as were sent.                                           *)
LEMMA MarkedFacts ==
  ASSUME NEW w, IsSeq(w.sent)
  PROVE  /\ IsSeq(Marked(w)) /\ Len(Marked(w)) = Len(w.sent) /\ DOMAIN Marked(w) = DOMAIN w.sent
         /\ \A i \in DOMAIN w.sent : Marked(w)[i] = Mark(w, w.sent[i])
<1>1. PICK q : q = Marked(w)
  OBVIOUS
<1>2. Len(w.sent) \in Nat /\ DOMAIN w.sent = 1 .. Len(w.sent)
  BY SeqFacts
<1>3. /\ DOMAIN q = 1 .. Len(w.sent) /\ q = [i \in 1 .. Len(w.sent) |-> q[i]]
      /\ \A i \in DOMAIN w.sent : q[i] = Mark(w, w.sent[i])
  BY <1>1, <1>2 DEF Marked
<1>4. IsSeq(q) /\ Len(q) = Len(w.sent)
  BY <1>2, <1>3, SeqMade
<1> QED
  BY <1>1, <1>2, <1>3, <1>4

(* What is asked and not for a server to be told may be marked.             *)
LEMMA MarkedSync ==
  ASSUME NEW m, NEW s, NEW rs, NEW w, Sync(m, s, rs, w), NEW rs2, DOMAIN rs2 = DOMAIN rs, Len(rs2) = Len(rs),
         \A k \in DOMAIN rs : \/ rs2[k] = rs[k]
                              \/ /\ rs[k].k # "notify" /\ rs2[k].k # "notify" /\ ~ Asks(rs2[k])
                                 /\ Addressed(m, rs2[k])
  PROVE  Sync(m, s, rs2, w)
<1>1. \A k \in DOMAIN rs : \/ rs2[k] = rs[k]
                           \/ /\ rs[k].k # "notify" /\ rs2[k].k # "notify" /\ ~ Asks(rs2[k])
                              /\ Addressed(m, rs2[k])
  OBVIOUS
<1>2. ASSUME NEW id \in Ids, NEW sv, NEW d, NEW n, NEW c PROVE ReqSure(sv, rs2, id, d, n, c) <=> ReqSure(sv, rs, id, d, n, c)
  <2>1. id # NoId
    BY IdsAreServers
  <2>2. MakesIn(rs2, id, d, c) = MakesIn(rs, id, d, c) /\ BreaksIn(rs2, id, d, c) = BreaksIn(rs, id, d, c)
    BY ONLY <1>1, <2>1, DOMAIN rs2 = DOMAIN rs DEF MakesIn, BreaksIn, For
  <2> QED
    BY ONLY <2>2 DEF ReqSure, Holds
<1>3. ASSUME NEW id \in Ids PROVE SureAt(m, s[id], rs2, id, w)
  <2>1. PICK sv : sv = s[id]
    OBVIOUS
  <2>2. SureAt(m, sv, rs, id, w)
    BY <2>1 DEF Sync
  <2>3. ASSUME ReqsSure(sv, rs, id) PROVE ReqsSure(sv, rs2, id)
    <3> SUFFICES ASSUME NEW k \in DOMAIN rs2, Asks(rs2[k]), rs2[k].id = id
                 PROVE  /\ rs2[k].d \in Docs /\ rs2[k].v \in Nat
                        /\ ReqSure(sv, rs2, id, rs2[k].d, k, Opened) /\ ReqSure(sv, rs2, id, rs2[k].d, k, rs2[k].v)
      BY DEF ReqsSure
    <3>1. k \in DOMAIN rs /\ rs2[k] = rs[k]
      BY ONLY <1>1, DOMAIN rs2 = DOMAIN rs, k \in DOMAIN rs2, Asks(rs2[k])
    <3>2. /\ rs[k].d \in Docs /\ rs[k].v \in Nat
          /\ ReqSure(sv, rs, id, rs[k].d, k, Opened) /\ ReqSure(sv, rs, id, rs[k].d, k, rs[k].v)
      BY <2>3, <3>1 DEF ReqsSure
    <3> QED
      BY <1>2, <3>1, <3>2
  <2>4. ASSUME EditorSure(m, sv, rs, id, w) PROVE EditorSure(m, sv, rs2, id, w)
    BY ONLY <1>2, <2>4, Len(rs2) = Len(rs), id \in Ids DEF EditorSure
  <2> QED
    BY <2>1, <2>2, <2>3, <2>4 DEF SureAt
<1>4. ASSUME NEW k \in DOMAIN rs2 PROVE Addressed(m, rs2[k])
  BY <1>1 DEF Sync
<1> QED
  BY <1>3, <1>4 DEF Sync

(* What the editor has told is complete.                                    *)
LEMMA ToldComplete ==
  ASSUME IInv, NEW w, Told(w)
  PROVE  Complete(w)
<1>1. PICK t, q : t = w.sent /\ q = Marked(w)
  OBVIOUS
<1>2. W(w) /\ IsSeq(t) /\ (\A i \in DOMAIN t : Wish(t[i])) /\ IsSeq(reqs)
  BY <1>1 DEF IInv, Kernel, ReqsTyped, Told, W
<1>3. IsSeq(q) /\ Len(q) = Len(t) /\ DOMAIN q = DOMAIN t /\ \A i \in DOMAIN t : q[i] = Mark(w, t[i])
  BY <1>1, <1>2, MarkedFacts
<1>4. PICK p, rs, rs2 : p = reqs /\ rs = p \o t /\ rs2 = p \o q
  OBVIOUS
<1>5. IsSeq(p)
  BY <1>2, <1>4
<1>6. /\ Len(p) \in Nat /\ Len(rs) = Len(p) + Len(t) /\ DOMAIN rs = 1 .. Len(p) + Len(t)
      /\ DOMAIN p = 1 .. Len(p) /\ DOMAIN t = 1 .. Len(t) /\ Len(t) \in Nat
      /\ (\A i \in 1 .. Len(p) : rs[i] = p[i]) /\ \A i \in 1 .. Len(t) : rs[Len(p) + i] = t[i]
  BY ONLY <1>2, <1>4, <1>5, SeqConcat
<1>7. /\ Len(rs2) = Len(p) + Len(q) /\ DOMAIN rs2 = 1 .. Len(p) + Len(q)
      /\ (\A i \in 1 .. Len(p) : rs2[i] = p[i]) /\ \A i \in 1 .. Len(q) : rs2[Len(p) + i] = q[i]
  <2>1. IsSeq(q)
    BY <1>3
  <2>2. rs2 = p \o q
    BY <1>4
  <2>3. Len(p \o q) = Len(p) + Len(q) /\ DOMAIN (p \o q) = 1 .. Len(p) + Len(q)
    BY ONLY <1>5, <2>1, SeqConcat
  <2>4. \A i \in 1 .. Len(p) : (p \o q)[i] = p[i]
    BY ONLY <1>5, <2>1, SeqConcat
  <2>5. \A i \in 1 .. Len(q) : (p \o q)[Len(p) + i] = q[i]
    BY ONLY <1>5, <2>1, SeqConcat
  <2> QED
    BY ONLY <2>2, <2>3, <2>4, <2>5
<1>8. Sync(man, srv, rs, w)
  BY <1>1, <1>4 DEF Told
<1>9. ASSUME NEW k \in DOMAIN rs
      PROVE  \/ rs2[k] = rs[k]
             \/ /\ rs[k].k # "notify" /\ rs2[k].k # "notify" /\ ~ Asks(rs2[k])
                /\ Addressed(man, rs2[k])
  <2>1. CASE k \in 1 .. Len(p)
    BY ONLY <1>6, <1>7, <2>1
  <2>2. CASE k \notin 1 .. Len(p)
    <3>1. PICK i : i = k - Len(p)
      OBVIOUS
    <3>2. i \in 1 .. Len(t) /\ k = Len(p) + i
      BY ONLY <1>6, <1>9, <2>2, <3>1
    <3>3. rs[k] = t[i] /\ rs2[k] = Mark(w, t[i]) /\ Wish(t[i])
      BY ONLY <1>2, <1>3, <1>6, <1>7, <3>2
    <3>4. Addressed(man, rs[k])
      BY <1>8, <1>9 DEF Sync
    <3> QED
      BY ONLY <3>3, <3>4, MarkFacts
  <2> QED
    BY <2>1, <2>2
<1>10. DOMAIN rs2 = DOMAIN rs /\ Len(rs2) = Len(rs)
  BY ONLY <1>3, <1>6, <1>7
<1>11. Sync(man, srv, rs2, w)
  BY ONLY <1>8, <1>9, <1>10, MarkedSync
<1> QED
  BY <1>1, <1>2, <1>4, <1>11 DEF Complete

(* A question is asked about what the server has been told.                 *)
LEMMA AskedComplete ==
  ASSUME IInv, NEW z, Told(z), NEW d \in z.open, ~ z.dirty[d], ServerOf(d) # NoId, NEW k \in Questions,
         NEW r, r = Request(ServerOf(d), k, d, z.txt[d]),
         NEW w, W(w), Contents(w), w.sent = Append(z.sent, r), w.stale = z.stale, w.unopened = z.unopened,
         Fewer(man, z, w, {}, {})
  PROVE  Complete(w)
<1>1. PICK q, n, e : q = Marked(z) /\ n = Marked(w) /\ e = Mark(w, r)
  OBVIOUS
<1>2. IsSeq(z.sent) /\ IsSeq(reqs) /\ z.open \subseteq Docs /\ Contents(z)
  BY ToldFacts DEF IInv, Kernel, ReqsTyped, Told, W
<1>3. \A x : Mark(w, x) = Mark(z, x)
  BY DEF Mark, Missing
<1>4. IsSeq(q) /\ Len(q) = Len(z.sent) /\ DOMAIN q = DOMAIN z.sent /\ \A i \in DOMAIN z.sent : q[i] = Mark(w, z.sent[i])
  BY <1>1, <1>2, <1>3, MarkedFacts
<1>5. n = Append(q, e)
  <2>1. PICK t, u : t = z.sent /\ u = Append(t, r)
    OBVIOUS
  <2>2. u = w.sent /\ IsSeq(t)
    BY <1>2, <2>1
  <2>21. u = Append(t, r)
    BY <2>1
  <2>22. IsSeq(t)
    BY <2>2
  <2>3. /\ IsSeq(u) /\ DOMAIN t = 1 .. Len(t) /\ DOMAIN u = 1 .. Len(t) + 1 /\ Len(t) \in Nat
        /\ \A i \in 1 .. Len(t) : u[i] = t[i]
        /\ u[Len(t) + 1] = r
    BY ONLY <2>21, <2>22, SeqAppend
  <2>4. n = [i \in DOMAIN u |-> Mark(w, u[i])]
    BY <1>1, <2>2 DEF Marked
  <2>5. PICK y : y = Append(q, e)
    OBVIOUS
  <2>6. IsSeq(q)
    BY <1>4
  <2>7. IsSeq(y) /\ DOMAIN y = 1 .. Len(q) + 1 /\ (\A i \in 1 .. Len(q) : y[i] = q[i]) /\ y[Len(q) + 1] = e
    BY ONLY <2>5, <2>6, SeqAppend
  <2>8. y = [i \in DOMAIN y |-> y[i]]
    BY ONLY <2>7 DEF IsSeq
  <2>9. DOMAIN y = DOMAIN u
    BY ONLY <1>4, <2>1, <2>3, <2>7
  <2>10. ASSUME NEW i \in DOMAIN u PROVE y[i] = Mark(w, u[i])
    <3>1. CASE i = Len(t) + 1
      BY ONLY <1>1, <1>4, <2>1, <2>3, <2>7, <3>1
    <3>2. CASE i # Len(t) + 1
      <4>1. i \in 1 .. Len(t)
        BY ONLY <2>3, <2>10, <3>2
      <4> QED
        BY ONLY <1>4, <2>1, <2>3, <2>7, <4>1
    <3> QED
      BY <3>1, <3>2
  <2> QED
    BY ONLY <2>4, <2>5, <2>8, <2>9, <2>10
<1>6. PICK p, rs : p = reqs /\ rs = p \o q
  OBVIOUS
<1>7. IsSeq(p) /\ IsSeq(q)
  BY <1>2, <1>4, <1>6
<1>8. p \o n = Append(rs, e) /\ IsSeq(rs)
  <2>1. IsSeq(p) /\ IsSeq(q)
    BY <1>7
  <2>2. n = Append(q, e)
    BY <1>5
  <2>3. rs = p \o q
    BY <1>6
  <2>4. p \o n = Append(rs, e)
    BY ONLY <2>1, <2>2, <2>3, ConcatLonger
  <2>5. IsSeq(rs)
    BY ONLY <2>1, <2>2, <2>3, ConcatLonger
  <2> QED
    BY <2>4, <2>5
<1>9. Sync(man, srv, rs, z)
  BY <1>1, <1>6, ToldComplete DEF Complete
<1>10. PICK v, a : v = z.txt[d] /\ a = ServerOf(d)
  OBVIOUS
<1>11. /\ r = Request(a, k, d, v) /\ d \in Docs /\ v \in Nat /\ a = man.caps[FtypeOf[d]] /\ a \in 0 .. man.next - 1
       /\ a \in DOMAIN man.clients => man.clients[a].status = "Running"
  BY <1>2, <1>10, ServerOfFacts DEF Contents
<1>12. r.k = "request" /\ r.id = a /\ r.m = k /\ r.d = d /\ r.v = v
  BY ONLY <1>11 DEF Request
<1>13. Addressed(man, r) /\ Wish(r)
  BY <1>11, <1>12, NotifyIsWish DEF Addressed
<1>14. Addressed(man, e) /\ e.k = "request" /\ (Asks(e) => e = r /\ ~ Missing(w, r))
  <2>1. CASE Missing(w, r)
    <3>1. e # r \/ ~ Asks(r)
      <4>1. e = [r EXCEPT !.v = -1]
        BY ONLY <1>1, <2>1 DEF Mark
      <4>2. e.v = -1
        BY ONLY <1>11, <4>1 DEF Request
      <4> QED
        BY ONLY <4>2 DEF Asks
    <3> QED
      BY ONLY <1>1, <1>12, <1>13, <3>1, MarkFacts
  <2>2. CASE ~ Missing(w, r)
    BY ONLY <1>1, <1>12, <1>13, <2>2 DEF Mark
  <2> QED
    BY <2>1, <2>2
<1>15. ASSUME Asks(e), e.id \in Ids, There(man, srv[e.id], e.id)
       PROVE  /\ e.d \in Docs /\ e.v \in Nat
              /\ ReqSure(srv[e.id], rs, e.id, e.d, Len(rs) + 1, Opened)
              /\ ReqSure(srv[e.id], rs, e.id, e.d, Len(rs) + 1, e.v)
  <2>1. e.id = a /\ e.d = d /\ e.v = v /\ d \notin z.stale \cup z.unopened
    BY <1>12, <1>14, <1>15 DEF Missing
  <2>2. PICK sv : sv = srv[a]
    OBVIOUS
  <2>3. SureAt(man, sv, rs, a, z) /\ There(man, sv, a)
    BY <1>9, <1>15, <2>1, <2>2 DEF Sync
  <2>4. EditorSure(man, sv, rs, a, z)
    BY <2>3 DEF SureAt
  <2>5. d \in ReportedTo(man, z, a)
    BY <1>11, <2>1 DEF ReportedTo
  <2>6. ReqSure(sv, rs, a, d, Len(rs) + 1, Opened) /\ ReqSure(sv, rs, a, d, Len(rs) + 1, v)
    BY ONLY <1>10, <2>1, <2>4, <2>5, ~ z.dirty[d] DEF EditorSure
  <2> QED
    BY <1>11, <2>1, <2>2, <2>6
<1>16. Heard(man, e, w, {}, {})
  BY <1>14, IdsAreServers DEF Heard, For
<1>17. Sync(man, srv, Append(rs, e), w)
  BY ONLY <1>8, <1>9, Contents(w), <1>14, Fewer(man, z, w, {}, {}), <1>16, <1>15, TellSync
<1> QED
  BY <1>1, <1>6, <1>8, <1>17 DEF Complete

(* A question about the active buffer, which is reported first when it may  *)
(* not be what its server has: then it is as if it were clean.  One to a    *)
(* server that was replaced in between asks nothing that is claimed.        *)
LEMMA SendQuestionComplete ==
  ASSUME IInv, NEW w, Told(w), NEW q, q.m \in Questions, q.id # NoId
  PROVE  Complete(SendQuestion(w, q))
<1>1. PICK d, k, y : d = w.active /\ k = q.m /\ y = SendQuestion(w, q)
  OBVIOUS
<1>2. W(w) /\ Contents(w) /\ DOMAIN w = EdFields \cup {"sent"} /\ w.open \subseteq Docs /\ d \in w.open \cup {NoDoc}
  BY <1>1, ToldFacts
<1>3. CASE ServerOf(d) # q.id
  <2>1. PICK r : r = Request(q.id, q.m, d, -1)
    OBVIOUS
  <2>2. r.k = "request" /\ r.v = -1
    BY <2>1 DEF Request
  <2>3. Wish(r) /\ Addressed(man, r) /\ ~ Asks(r)
    BY <2>1, <2>2, NotifyIsWish DEF Addressed, Asks
  <2>4. Told(DocumentChanged(w, d))
    <3>1. CASE d = NoDoc
      BY <3>1 DEF DocumentChanged, ServerOf
    <3>2. CASE d # NoDoc
      <4>1. Fewer(man, w, w, {}, {d}) /\ d \in Docs
        BY <1>2, <3>2 DEF Fewer
      <4> QED
        BY <1>2, <4>1, ChangedTold
    <3> QED
      BY <3>1, <3>2
  <2>5. y = Send(w, r) \/ y = Send(DocumentChanged(w, d), r)
    BY <1>1, <1>3, <2>1 DEF SendQuestion, Question
  <2> QED
    BY <1>1, <2>2, <2>3, <2>4, <2>5, SendTold, ToldComplete
<1>4. CASE ServerOf(d) = q.id
  <2> k \in Questions /\ ServerOf(d) # NoId
    BY <1>1, <1>4
  <2>1. d \in w.open /\ d \in Docs
    BY <1>2 DEF ServerOf
  <2>2. PICK v : v = w.txt[d]
    OBVIOUS
  <2>3. PICK r : r = Request(ServerOf(d), k, d, v)
    OBVIOUS
  <2>4. W(y)
    BY <1>1, <1>2, SendQuestionKeeps DEF Quiet
  <2>5. CASE ~ w.dirty[d]
    <3>1. y = Send(w, r)
      BY <1>1, <1>4, <2>2, <2>3, <2>5 DEF SendQuestion, Question
    <3>2. SameBuffers(w, y) /\ y.sent = Append(w.sent, r)
      BY ONLY <1>2, <3>1, SendFacts
    <3>3. Contents(y) /\ Fewer(man, w, y, {}, {}) /\ y.stale = w.stale /\ y.unopened = w.unopened
      BY ONLY <1>2, <3>2 DEF Contents, SameBuffers, Fewer
    <3>4. r = Request(ServerOf(d), k, d, w.txt[d])
      BY <2>2, <2>3
    <3>5. Complete(y)
      BY ONLY IInv, Told(w), k \in Questions, ServerOf(d) # NoId, <2>1, <2>4, <2>5, <3>2, <3>3, <3>4, AskedComplete
    <3> QED
      BY <1>1, <3>5
  <2>6. CASE w.dirty[d]
    <3>1. PICK x : x = [w EXCEPT !.dirty[d] = FALSE]
      OBVIOUS
    <3>2. /\ x.open = w.open /\ x.unopened = w.unopened /\ x.stale = w.stale /\ x.txt = w.txt /\ x.sent = w.sent
          /\ x.fresh = w.fresh /\ x.log = w.log /\ x.disk = w.disk /\ x.active = w.active
          /\ x.dirty = [w.dirty EXCEPT ![d] = FALSE] /\ Same(w, x) /\ DOMAIN x = EdFields \cup {"sent"}
      BY ONLY <1>2, <3>1 DEF EdFields, Same
    <3>3. W(x)
      BY <1>2, <3>2, SameIsQuiet DEF Quiet
    <3>4. /\ w.txt \in [Docs -> Nat] /\ w.disk \in [Docs -> Nat] /\ w.fresh \in Nat
          /\ w.dirty \in [Docs -> BOOLEAN] /\ w.log \in [Docs -> Seq(Nat)]
      BY <1>2 DEF Contents
    <3>5. Contents(x)
      BY ONLY <2>1, <3>2, <3>4 DEF Contents
    <3>6. (\A a : a # d => x.dirty[a] = w.dirty[a]) /\ ~ x.dirty[d]
      BY ONLY <2>1, <3>2, <3>4
    <3>7. Fewer(man, w, x, {}, {d})
      BY ONLY <3>2, <3>6 DEF Fewer
    <3>8. PICK z, c : z = DocumentChanged(x, d) /\ c = DocumentChanged(w, d)
      OBVIOUS
    <3>9. Told(z)
      BY ONLY IInv, Told(w), <2>1, <3>2, <3>3, <3>5, <3>7, <3>8, ChangedTold
    <3>10. PICK e : e = Notify(ServerOf(d), "didChange", d, v)
      OBVIOUS
    <3>11. e = Notify(ServerOf(d), "didChange", d, w.txt[d]) /\ e = Notify(ServerOf(d), "didChange", d, x.txt[d])
      BY <2>2, <3>2, <3>10
    <3>12. Reported(x, z, e, {d}, {})
      <4>1. z = DocumentChanged(x, d)
        BY <3>8
      <4> QED
        BY ONLY ServerOf(d) # NoId, <3>2, <3>11, <4>1, ChangedFacts
    <3>13. Reported(w, c, e, {d}, {})
      <4>1. c = DocumentChanged(w, d)
        BY <3>8
      <4> QED
        BY ONLY <1>2, ServerOf(d) # NoId, <3>11, <4>1, ChangedFacts
    <3>14. y = Send(c, r) /\ W(c)
      BY <1>1, <1>2, <1>4, <2>2, <2>3, <2>6, <3>8, ReportsKeep DEF SendQuestion, Question, Quiet
    <3>15. SameBuffers(c, y) /\ y.sent = Append(c.sent, r)
      <4>1. DOMAIN c = EdFields \cup {"sent"}
        BY <3>14 DEF W
      <4> QED
        BY ONLY <3>14, <4>1, SendFacts
    <3>16. /\ y.open = z.open /\ y.txt = z.txt /\ y.stale = z.stale /\ y.unopened = z.unopened
           /\ y.sent = Append(z.sent, r) /\ y.dirty = w.dirty /\ z.dirty = x.dirty /\ z.open = w.open /\ z.txt = w.txt
           /\ y.disk = w.disk /\ y.fresh = w.fresh /\ y.log = w.log
      BY ONLY <3>2, <3>12, <3>13, <3>15 DEF Reported, SameBuffers
    <3>17. Contents(y)
      BY ONLY <3>4, <3>16 DEF Contents
    <3>18. Fewer(man, z, y, {}, {})
      BY ONLY <2>6, <3>6, <3>16 DEF Fewer
    <3>19. ~ z.dirty[d] /\ d \in z.open /\ r = Request(ServerOf(d), k, d, z.txt[d])
      BY <2>1, <2>2, <2>3, <3>6, <3>16
    <3>20. Complete(y)
      BY ONLY IInv, k \in Questions, ServerOf(d) # NoId, <2>1, <2>4, <3>9, <3>16, <3>17, <3>18, <3>19, AskedComplete
    <3> QED
      BY <1>1, <3>20
  <2> QED
    BY <2>5, <2>6
<1> QED
  BY <1>3, <1>4

(* What the user sees may change.                                           *)
LEMMA LikeComplete ==
  ASSUME NEW w, Complete(w), NEW y, W(y), y.sent = w.sent, SameBuffers(w, y)
  PROVE  Complete(y)
<1>1. \A r : Mark(y, r) = Mark(w, r)
  BY DEF SameBuffers, Mark, Missing
<1>2. Marked(y) = Marked(w)
  BY <1>1 DEF Marked
<1>3. Sync(man, srv, reqs \o Marked(w), y)
  BY SyncSame DEF Complete
<1> QED
  BY <1>2, <1>3 DEF Complete

(* The step ends.                                                           *)
LEMMA CommitSync ==
  ASSUME NEW w, Complete(w), Commit(w)
  PROVE  Sync(man, srv, reqs, ed)'
<1>1. /\ ed' = Without(w, "sent") /\ man' = man /\ srv' = srv
      /\ reqs' = reqs \o Marked(w)
  BY DEF Commit, Marked, Mark, Missing
<1>2. DOMAIN w = EdFields \cup {"sent"}
  BY DEF Complete, W
<1>3. PICK y : y = ed'
  OBVIOUS
<1>4. SameBuffers(w, y)
  BY ONLY <1>1, <1>2, <1>3 DEF Without, EdFields, SameBuffers
<1>5. Sync(man, srv, reqs \o Marked(w), y)
  BY <1>4, SyncSame DEF Complete
<1> QED
  BY <1>1, <1>3, <1>5

(* Something that the user does.                                            *)
LEMMA DoesSync ==
  ASSUME NEW op, NEW w, Complete(w), Does(op, w)
  PROVE  Sync(man, srv, reqs, ed)'
<1>1. PICK y : y = [w EXCEPT !.ops = @ + 1]
  OBVIOUS
<1>2. Commit(y)
  BY <1>1 DEF Does
<1>3. W(w) /\ DOMAIN w = EdFields \cup {"sent"}
  BY DEF Complete, W
<1>4. Same(w, y) /\ y.sent = w.sent /\ SameBuffers(w, y)
  BY ONLY <1>1, <1>3 DEF Same, EdFields, SameBuffers
<1>5. W(y)
  BY <1>3, <1>4, SameIsQuiet DEF Quiet
<1>6. Complete(y)
  BY ONLY Complete(w), <1>4, <1>5, LikeComplete
<1> QED
  BY <1>2, <1>6, CommitSync

(* A step of the editor starts with what servers were told before.          *)
LEMMA EditingTold ==
  ASSUME IInv, Sync(man, srv, reqs, ed), NEW e, e = Editing
  PROVE  Told(e) /\ SameBuffers(ed, e)
<1>1. EdTyped(ed) /\ IsSeq(reqs)
  BY DEF IInv, Kernel, ReqsTyped
<1>2. /\ e.open = ed.open /\ e.unopened = ed.unopened /\ e.stale = ed.stale /\ e.dirty = ed.dirty
      /\ e.txt = ed.txt /\ e.disk = ed.disk /\ e.fresh = ed.fresh /\ e.log = ed.log /\ e.sent = <<>>
  BY <1>1 DEF Editing, Put, EdTyped, EdFields
<1>3. SameBuffers(ed, e)
  BY ONLY <1>2 DEF SameBuffers
<1>4. Sync(man, srv, reqs, e)
  BY ONLY <1>3, Sync(man, srv, reqs, ed), SyncSame
<1>5. PICK q, a : q = reqs /\ a = e.sent
  OBVIOUS
<1>6. IsSeq(q) /\ a = <<>>
  BY <1>1, <1>2, <1>5
<1>7. q \o a = q
  BY ONLY <1>6, ConcatNothing
<1>8. DOMAIN e.sent = {}
  BY <1>2
<1>9. W(e)
  BY EditingFacts
<1> QED
  BY <1>3, <1>4, <1>5, <1>7, <1>8, <1>9 DEF Told

(* A step of the editor.                                                    *)
LEMMA EditorStepSync ==
  ASSUME IInv, Sync(man, srv, reqs, ed), EditorStep
  PROVE  Sync(man, srv, reqs, ed)'
<1>1. PICK e : e = Editing
  OBVIOUS
<1>2. /\ W(e) /\ e.open = ed.open /\ e.active = ed.active /\ ed.open \subseteq Docs
      /\ ed.active \in ed.open \cup {NoDoc} /\ scene.docs \subseteq Docs
  BY <1>1, EditingFacts
<1>3. Told(e) /\ e.log = ed.log
  BY <1>1, EditingTold DEF SameBuffers
<1>4. ASSUME NEW op, NEW w, Told(w), Does(op, w) PROVE Sync(man, srv, reqs, ed)'
  BY <1>4, ToldComplete, DoesSync
<1>5. ASSUME NEW d \in scene.docs, Open(d) PROVE Sync(man, srv, reqs, ed)'
  <2>1. Does("open", OpenFile(e, d)) /\ d \in Docs
    BY <1>1, <1>2, <1>5 DEF Open
  <2> QED
    BY <1>3, <1>4, <2>1, OpenFileTold
<1>6. ASSUME NEW d \in scene.docs, Close(d) PROVE Sync(man, srv, reqs, ed)'
  <2>1. PICK next : /\ next \in IF d # ed.active THEN {ed.active}
                                ELSE IF ed.open = {d} THEN {NoDoc} ELSE ed.open \ {d}
                    /\ Does("close", CloseBuffer(e, d, next))
    BY <1>1, <1>6 DEF Close
  <2>2. next \in (e.open \ {d}) \cup {NoDoc} /\ d \in Docs
    BY <1>2, <2>1
  <2> QED
    BY <1>3, <1>4, <2>1, <2>2, CloseTold
<1>7. ASSUME NEW d \in scene.docs, Focus(d) PROVE Sync(man, srv, reqs, ed)'
  <2>1. Does("focus", FocusOn(e, d)) /\ d \in e.open
    BY <1>1, <1>2, <1>7 DEF Focus
  <2> QED
    BY <1>3, <1>4, <2>1, FocusTold
<1>8. ASSUME Edit PROVE Sync(man, srv, reqs, ed)'
  BY <1>1, <1>3, <1>4, <1>8, EditTold DEF Edit
<1>9. ASSUME Undo PROVE Sync(man, srv, reqs, ed)'
  <2>1. Does("undo", UndoEdit(e)) /\ e.active # NoDoc /\ e.log[e.active] # <<>>
    BY <1>1, <1>2, <1>3, <1>9 DEF Undo
  <2> QED
    BY <1>3, <1>4, <2>1, UndoTold
<1>10. ASSUME Save PROVE Sync(man, srv, reqs, ed)'
  <2>1. Does("save", SaveBuffer(e)) /\ e.active # NoDoc
    BY <1>1, <1>2, <1>10 DEF Save
  <2> QED
    BY <1>3, <1>4, <2>1, SaveTold
<1>11. ASSUME Reload PROVE Sync(man, srv, reqs, ed)'
  <2>1. Does("reload", ReloadBuffer(e)) /\ e.active # NoDoc
    BY <1>1, <1>2, <1>11 DEF Reload
  <2> QED
    BY <1>3, <1>4, <2>1, ReloadTold
<1>12. ASSUME LspStart PROVE Sync(man, srv, reqs, ed)'
  BY <1>1, <1>3, <1>4, <1>12, StartTold DEF LspStart
<1>13. ASSUME LspStop PROVE Sync(man, srv, reqs, ed)'
  <2>1. PICK r : r = Stop(ServerOf(ed.active))
    OBVIOUS
  <2>2. Does("stop", Send(e, r))
    BY <1>1, <1>13, <2>1 DEF LspStop
  <2>3. r.k = "stop"
    BY <2>1 DEF Stop
  <2>4. Wish(r) /\ Addressed(man, r) /\ ~ Asks(r)
    BY <2>3 DEF Wish, Addressed, Asks
  <2>5. Told(Send(e, r))
    BY <1>3, <2>3, <2>4, SendTold
  <2> QED
    BY <1>4, <2>2, <2>5
<1>14. ASSUME ShowDiagnostics PROVE Sync(man, srv, reqs, ed)'
  <2>1. PICK y : y = NotifyIfDirty(e)
    OBVIOUS
  <2>2. PICK w : w = [y EXCEPT !.asleep = TRUE]
    OBVIOUS
  <2>3. Does("diagnostics", w)
    BY <1>1, <1>14, <2>1, <2>2 DEF ShowDiagnostics
  <2>4. Told(y)
    BY <1>3, <2>1, FocusTold
  <2>5. W(y) /\ DOMAIN y = EdFields \cup {"sent"}
    BY <2>4, ToldFacts
  <2>6. Same(y, w) /\ w.sent = y.sent /\ SameBuffers(y, w)
    BY ONLY <2>2, <2>5 DEF Same, EdFields, SameBuffers
  <2>7. W(w)
    BY <2>5, <2>6, SameIsQuiet DEF Quiet
  <2>8. Told(w)
    BY ONLY <2>4, <2>6, <2>7, LikeTold
  <2> QED
    BY <1>4, <2>3, <2>8
<1>15. ASSUME NEW m \in Questions, Ask(m) PROVE Sync(man, srv, reqs, ed)'
  <2>1. Does(m, e)
    BY <1>1, <1>15 DEF Ask
  <2> QED
    BY <1>3, <1>4, <2>1
<1> QED
  BY <1>5, <1>6, <1>7, <1>8, <1>9, <1>10, <1>11, <1>12, <1>13, <1>14, <1>15 DEF EditorStep

(* The editor wakes up, goes on with a question, takes what the manager has *)
(* sent and does what the user chooses.                                     *)
LEMMA EditorActsSync ==
  ASSUME IInv, Asking, Sync(man, srv, reqs, ed), Wake \/ AskEnds \/ TakeEvent \/ Answer
  PROVE  Sync(man, srv, reqs, ed)'
<1>1. PICK e : e = Editing
  OBVIOUS
<1>2. /\ W(e) /\ e.prompts = ed.prompts /\ EventsTyped(events)
      /\ IsSeq(ed.prompts) /\ (\A i \in DOMAIN ed.prompts : Menu(ed.prompts[i]))
  BY <1>1, EditingFacts
<1>3. Told(e) /\ DOMAIN e = EdFields \cup {"sent"}
  BY <1>1, EditingTold, ToldFacts
<1>4. ASSUME NEW w, Told(w), Commit(w) PROVE Sync(man, srv, reqs, ed)'
  BY <1>4, ToldComplete, CommitSync
<1>5. ASSUME Wake PROVE Sync(man, srv, reqs, ed)'
  <2>1. PICK y : y = [e EXCEPT !.asleep = FALSE]
    OBVIOUS
  <2>2. PICK ds : ds = { d \in Docs : man.diags[d] # -1 }
    OBVIOUS
  <2>3. Commit(Prompt(y, "list", ds, NoId))
    BY <1>1, <1>5, <2>1, <2>2 DEF Wake
  <2>4. Same(e, y) /\ y.sent = e.sent /\ SameBuffers(e, y)
    BY ONLY <1>3, <2>1 DEF Same, EdFields, SameBuffers
  <2>5. W(y)
    BY <1>2, <2>4, SameIsQuiet DEF Quiet
  <2>6. Told(y)
    BY ONLY <1>3, <2>4, <2>5, LikeTold
  <2>7. Menu(Event("list", ds, NoDoc, NoId))
    BY <2>2 DEF Menu, Event
  <2> QED
    BY <1>4, <2>3, <2>6, <2>7, PromptTold
<1>6. ASSUME TakeEvent PROVE Sync(man, srv, reqs, ed)'
  <2>1. PICK a : a = Head(events)
    OBVIOUS
  <2>2. Commit(Perform(e, a)) /\ events # <<>>
    BY <1>1, <1>6, <2>1 DEF TakeEvent
  <2>3. IsSeq(events) /\ \A i \in DOMAIN events : Action(events[i])
    BY <1>2 DEF EventsTyped
  <2>4. Action(a)
    BY <2>1, <2>2, <2>3, SeqTail
  <2> QED
    BY <1>3, <1>4, <2>2, <2>4, PerformTold
<1>7. ASSUME Answer PROVE Sync(man, srv, reqs, ed)'
  <2>1. PICK p : p = Last(ed.prompts)
    OBVIOUS
  <2>2. PICK w : w = [e EXCEPT !.prompts = Front(@)]
    OBVIOUS
  <2>3. PICK q : q = ed.prompts
    OBVIOUS
  <2>4. /\ q # <<>>
        /\ \/ Commit(w)
           \/ p.k # "newName" /\ \E d \in IF p.k = "list" THEN p.d ELSE {NoDoc} : Commit(Selected(w, p, d))
    BY <1>1, <1>7, <2>1, <2>2, <2>3 DEF Answer, LspRename
  <2>5. /\ IsSeq(Front(q)) /\ Len(q) \in DOMAIN q /\ p = q[Len(q)]
        /\ \A i \in DOMAIN Front(q) : i \in DOMAIN q /\ Front(q)[i] = q[i]
    BY <1>2, <2>1, <2>3, <2>4, FrontFacts
  <2>6. Menu(p)
    BY <1>2, <2>3, <2>5
  <2>7. /\ DOMAIN w = DOMAIN e /\ w.open = e.open /\ w.active = e.active /\ w.sent = e.sent
        /\ w.prompts = Front(e.prompts) /\ SameBuffers(e, w)
    BY ONLY <1>3, <2>2 DEF EdFields, SameBuffers
  <2>8. W(w)
    <3>1. \A i \in DOMAIN Front(q) : Menu(Front(q)[i])
      BY <1>2, <2>3, <2>5
    <3>2. w.prompts = Front(q)
      BY <1>2, <2>3, <2>7
    <3> QED
      BY <1>2, <2>5, <2>7, <3>1, <3>2 DEF W, Buffers
  <2>9. Told(w)
    BY ONLY <1>3, <2>7, <2>8, LikeTold
  <2>10. CASE Commit(w)
    BY <1>4, <2>9, <2>10
  <2>11. CASE p.k # "newName" /\ \E d \in IF p.k = "list" THEN p.d ELSE {NoDoc} : Commit(Selected(w, p, d))
    <3>1. PICK d \in IF p.k = "list" THEN p.d ELSE {NoDoc} : Commit(Selected(w, p, d))
      BY <2>11
    <3>2. p.k = "list" => d \in Docs
      BY <2>6, <3>1 DEF Menu
    <3> QED
      BY <1>4, <2>6, <2>9, <2>11, <3>1, <3>2, SelectedTold
  <2> QED
    BY <2>4, <2>10, <2>11
<1>8. ASSUME AskEnds PROVE Sync(man, srv, reqs, ed)'
  <2>1. PICK w : w = SendQuestion(e, asking)
    OBVIOUS
  <2>2. Commit(w) /\ asking.m \in Questions /\ asking.id # NoId
    BY <1>1, <1>8, <2>1 DEF AskEnds, Asking
  <2>3. Complete(w)
    BY <1>3, <2>1, <2>2, SendQuestionComplete
  <2> QED
    BY <2>2, <2>3, CommitSync
<1> QED
  BY <1>5, <1>6, <1>7, <1>8

----------------------------------------------------------------------------
(* Nothing is asked at first.                                               *)
LEMMA InitSync == Init => Sync(man, srv, reqs, ed)
<1> SUFFICES ASSUME Init PROVE Sync(man, srv, reqs, ed)
  OBVIOUS
<1>1. DOMAIN <<>> = {} /\ <<>> \in Seq(Nat)
  BY SeqMade
<1>2. reqs = <<>> /\ man.clients = <<>> /\ man.pending = <<>>
  BY DEF Init
<1>3. \A id \in Ids : srv[id] = NewServer
  BY DEF Init
<1>4. ASSUME NEW id \in Ids PROVE SureAt(man, srv[id], reqs, id, ed)
  <2>1. PICK sv : sv = srv[id]
    OBVIOUS
  <2>2. sv.in = <<>> /\ sv.has = [d \in Docs |-> -1]
    BY <1>3, <2>1 DEF NewServer
  <2>3. PipeSure(sv)
    <3>1. sv.has \in [Docs -> Nat \cup {-1}]
      BY <2>2
    <3>2. \A k \in DOMAIN sv.in : FALSE
      BY <1>1, <2>2
    <3> QED
      BY ONLY <3>1, <3>2 DEF PipeSure
  <2>4. ~ There(man, sv, id)
    BY <1>1, <1>2 DEF There
  <2> QED
    BY <2>1, <2>3, <2>4 DEF SureAt
<1>5. \A k \in DOMAIN reqs : Addressed(man, reqs[k])
  BY <1>1, <1>2
<1>6. Starting(man)
  BY <1>1, <1>2 DEF Starting
<1>7. Contents(ed)
  <2>1. /\ ed.txt = [d \in Docs |-> 0] /\ ed.disk = [d \in Docs |-> 0] /\ ed.fresh = 1
        /\ ed.dirty = [d \in Docs |-> FALSE] /\ ed.log = [d \in Docs |-> <<>>]
    BY DEF Init
  <2> QED
    BY ONLY <1>1, <2>1 DEF Contents
<1> QED
  BY <1>4, <1>5, <1>6, <1>7 DEF Sync

(* Every step keeps what servers know.                                      *)
LEMMA NextSync ==
  ASSUME IInv, Asking, Sync(man, srv, reqs, ed), [Next]_vars
  PROVE  Sync(man, srv, reqs, ed)'
<1>1. CASE EditorStep
  BY <1>1, EditorStepSync
<1>2. CASE Wake \/ AskEnds \/ TakeEvent \/ Answer
  BY <1>2, EditorActsSync
<1>3. CASE ManagerStep
  BY <1>3, ManagerStepSync
<1>4. CASE JoinEnds
  BY <1>4, JoinEndsSync
<1>5. ASSUME NEW id \in Ids, Read(id) \/ ServerTakes(id) \/ ServerAnswers(id) \/ ServerPushes(id) \/ ServerFails(id)
      PROVE  Sync(man, srv, reqs, ed)'
  BY <1>5, ReadSync, ServerTakesSync, ServerAnswersSync, ServerPushesSync, ServerFailsSync
<1>6. CASE UNCHANGED vars
  BY <1>6 DEF vars
<1> QED
  BY <1>1, <1>2, <1>3, <1>4, <1>5, <1>6 DEF Next

(* What holds of the content of a document at a place of a pipe is what the *)
(* server will take it to be.                                               *)
LEMMA SureContent ==
  ASSUME NEW id, IsSeq(srv[id].in), NEW d, NEW k \in DOMAIN srv[id].in, NEW c \in Nat, InSure(srv[id], d, k, c)
  PROVE  ContentAt(id, d, k) = c
<1>1. PICK sv, q : sv = srv[id] /\ q = sv.in
  OBVIOUS
<1>2. DOMAIN q = 1 .. Len(q) /\ Len(q) \in Nat /\ k \in 1 .. Len(q)
  BY <1>1, SeqFacts
<1>3. c # Opened /\ \A i : For(q[i], NoId)
  BY DEF Opened, For
<1>4. PICK B, E : B = MakesIn(q, NoId, d, c) /\ E = BreaksIn(q, NoId, d, c)
  OBVIOUS
<1>5. B = { i \in DOMAIN q : q[i].d = d /\ q[i].m \in {"didOpen", "didChange"} /\ q[i].v = c }
  BY ONLY <1>3, <1>4 DEF MakesIn, Makes
<1>6. E = { i \in DOMAIN q : q[i].d = d /\ q[i].m \in {"didOpen", "didChange", "didClose"} }
  BY ONLY <1>3, <1>4 DEF BreaksIn, Breaks, SyncKinds
<1>7. PICK told : told = { i \in 1 .. k - 1 : q[i].m \in {"didOpen", "didChange", "didClose"} /\ q[i].d = d }
  OBVIOUS
<1>8. ContentAt(id, d, k) = IF told = {} THEN sv.has[d] ELSE q[CHOOSE i \in told : \A j \in told : j <= i].v
  BY <1>1, <1>7 DEF ContentAt
<1>9. \A i : i \in told <=> (i \in E /\ i < k)
  BY ONLY <1>2, <1>6, <1>7
<1>10. BegunIn(B, E, k) \/ (sv.has[d] = c /\ Untouched(E, k))
  BY <1>1, <1>3, <1>4 DEF InSure, Holds, Has
<1>11. CASE BegunIn(B, E, k)
  <2>1. PICK i \in B : i < k /\ \A j \in E : i < j => k <= j
    BY <1>11 DEF BegunIn
  <2>2. i \in told /\ q[i].v = c
    BY ONLY <1>5, <1>6, <1>9, <2>1
  <2>3. told \subseteq Nat /\ E \subseteq Nat
    BY ONLY <1>2, <1>6, <1>7
  <2>4. \A j \in told : j <= i
    BY ONLY <1>2, <1>9, <2>1, <2>2, <2>3
  <2>5. \A x \in told : (\A j \in told : j <= x) => x = i
    BY ONLY <2>2, <2>3, <2>4
  <2>6. (CHOOSE x \in told : \A j \in told : j <= x) = i
    BY ONLY <2>2, <2>4, <2>5
  <2> QED
    BY <1>8, <2>2, <2>6
<1>12. CASE sv.has[d] = c /\ Untouched(E, k)
  <2>1. E \subseteq Nat
    BY ONLY <1>2, <1>6
  <2>2. told = {}
    <3>1. \A j \in E : k <= j
      BY <1>12 DEF Untouched
    <3>2. ASSUME NEW i \in told PROVE FALSE
      <4>1. i \in E /\ i < k
        BY <1>9
      <4>2. i \in Nat /\ k \in Nat /\ k <= i
        BY <1>2, <2>1, <3>1, <4>1
      <4> QED
        BY ONLY <4>1, <4>2
    <3> QED
      BY <3>2
  <2> QED
    BY <1>8, <1>12, <2>2
<1> QED
  BY <1>10, <1>11, <1>12

(* A server that gets to a question has the text.                           *)
LEMMA SyncGives ==
  ASSUME IInv, Sync(man, srv, reqs, ed)
  PROVE  AskedInSync
<1> SUFFICES ASSUME NEW id \in Ids, NEW k \in DOMAIN srv[id].in, srv[id].in[k].k = "request",
                    srv[id].in[k].m \in Questions, srv[id].in[k].v # -1
             PROVE  ContentAt(id, srv[id].in[k].d, k) = srv[id].in[k].v
  BY DEF AskedInSync
<1>1. PICK sv, msg : sv = srv[id] /\ msg = srv[id].in[k]
  OBVIOUS
<1>2. PipeSure(sv) /\ IsSeq(sv.in)
  BY <1>1, ServerFacts DEF Sync, SureAt
<1>3. k \in DOMAIN sv.in /\ sv.in[k] = msg /\ Asks(msg)
  BY <1>1 DEF Asks
<1>4. msg.v \in Nat /\ InSure(sv, msg.d, k, msg.v)
  BY ONLY <1>2, <1>3 DEF PipeSure
<1> QED
  BY <1>1, <1>2, <1>3, <1>4, SureContent

(* A server that gets to a question about a document has the text that it   *)
(* was asked about (goto_definition and the others), whatever the editor,   *)
(* the manager and the servers do between the question and its arrival.     *)
(* Excepted are buffers that were never reported, those that became clean   *)
(* without a report, and servers that were replaced between the two times   *)
(* that a handler looks them up.                                            *)
THEOREM LspAskedInSync == Spec => []AskedInSync
<1>1. Init => IInv /\ Asking /\ Sync(man, srv, reqs, ed)
  BY InitKeeps, InitSync DEF Init, Asking
<1>2. IInv /\ Asking /\ Sync(man, srv, reqs, ed) /\ [Next]_vars => IInv' /\ Asking' /\ Sync(man, srv, reqs, ed)'
  BY NextKeeps, NextSync, AskingKeeps
<1>3. IInv /\ Sync(man, srv, reqs, ed) => AskedInSync
  BY SyncGives
<1> QED
  BY <1>1, <1>2, <1>3, PTL DEF Spec

=============================================================================
