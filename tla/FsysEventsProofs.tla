------------------------- MODULE FsysEventsProofs ---------------------------
(***************************************************************************)
(* Proofs about the event files, for any clients, buffers and fids and any *)
(* number of filters: FilterInv and EventsExclusive of FsysEvents.         *)
(*                                                                         *)
(* Both hold between requests only, so the inductive invariant says for    *)
(* every phase of the request under way which of the filter, the handle,   *)
(* the listener and the lock are in place.                                 *)
(***************************************************************************)
EXTENDS FsysEvents, SequenceTheorems, TLAPS

(* A request that makes a filter, and one that takes the filter of b away.  *)
Attaching   == req.op \in {"attach", "attached"}
Clunking(b) == req.op \in {"clunk", "clunked"} /\ req.b = b

(* Client c has a fid on the event file of buffer b. *)
HasFid(c, b) == \E f \in Fids : fids[c][f] # Free /\ fids[c][f].buf = b

MayBeUnopened == "unopened_reads" \in scene.features

(* What the editor and fsys know of the buffers. *)
BuffersInv ==
    /\ open \subseteq known
    /\ \A i \in 1 .. Len(closing) : closing[i] \notin open
    /\ \A b \in Buffers : b \notin open => filter[b] = None
    /\ \A b \in Buffers : b \notin known => handle[b] = None

(* A filter whose listener has not been spawned is unused. *)
UnbornAt(n) ==
    /\ n > made => listener[n].st = "unborn"
    /\ listener[n].st = "unborn" =>
           /\ requests[n] = <<>> /\ got[n] = <<>>
           /\ \A b \in Buffers : handle[b] # n

NumbersInv ==
    /\ \A n \in Filters : UnbornAt(n)
    /\ \A a, b \in Buffers : handle[a] = handle[b] /\ handle[a] # None => a = b

(* How far the request under way has got. *)
RequestInv ==
    req.op # "none" =>
        /\ req.b \in known
        /\ Attaching =>
               /\ req.n \in Filters /\ req.n <= made /\ listener[req.n].st = "unborn"
               /\ lock[req.b] = NoOne
               /\ HasFid(req.c, req.b)
               /\ MayBeUnopened \/ req.b \in everOpened
        /\ req.op = "attached" /\ req.b \in open => filter[req.b] = req.n
        /\ ~Attaching => lock[req.b] = req.c
        /\ req.op \in {"read", "fails"} => req.n \in Filters /\ handle[req.b] = req.n
        /\ req.op = "fails" => listener[req.n].st = "exited"
        /\ req.op \in {"failed", "clunk", "clunked"} => handle[req.b] = None
        /\ req.op = "failed" => req.b \notin open
        /\ req.op = "clunked" => filter[req.b] = None

(* A filter has its handle, except for a moment while it comes and goes;    *)
(* the handle of an open buffer has its filter and a listener that runs.    *)
HandleAt(b) ==
    /\ filter[b] # None =>
           \/ handle[b] = filter[b]
           \/ req.op \in {"attached", "clunk"} /\ req.b = b
    /\ b \in open /\ handle[b] # None =>
           filter[b] = handle[b] /\ listener[handle[b]].st \in {"idle", "waiting"}

HandleInv == \A b \in Buffers : HandleAt(b)

(* A lock is held through a fid and with a filter, and a filter is locked.  *)
LockAt(b) ==
    /\ lock[b] # NoOne => Clunking(b) \/ HasFid(lock[b], b)
    /\ b \in open /\ lock[b] # NoOne => Clunking(b) \/ handle[b] # None
    /\ handle[b] # None => MayBeUnopened \/ lock[b] # NoOne

LockInv ==
    /\ \A b \in Buffers : LockAt(b)
    /\ \A c \in Clients, f \in Fids :
           fids[c][f].st = "opened" => fids[c][f].buf \in everOpened

(* A listener that runs has at most one request to answer. *)
QueueAt(n) ==
    \/ listener[n].st = "exited"
    \/ requests[n] = <<>>
    \/ requests[n] = <<"read">> /\ req.op = "read" /\ req.n = n
    \/ requests[n] = <<"shutdown">> /\ \A b \in Buffers : handle[b] # n

QueueInv == \A n \in Filters : QueueAt(n)

(* All of what was read was read by c. *)
AllBy(g, c) == \A i \in 1 .. Len(g) : g[i].by = c

(* The reads of a filter are those of the client that holds the lock. *)
OwnerAt(n) ==
    /\ listener[n].st = "waiting" =>
           listener[n].reader \in Clients /\ AllBy(got[n], listener[n].reader)
    /\ \A b \in Buffers : handle[b] = n =>
           /\ listener[n].st = "waiting" => listener[n].reader = lock[b]
           /\ AllBy(got[n], lock[b])
    /\ \E c : AllBy(got[n], c)

OwnerInv == \A n \in Filters : OwnerAt(n)

(* Of k events the first were read, and the others are waiting in order. *)
InOrder(g, e, k) ==
    /\ k = Len(g) + Len(e)
    /\ \A i \in 1 .. Len(g) : g[i].evt = i
    /\ \A i \in 1 .. Len(e) : e[i] = Len(g) + i

OrderInv == \A n \in Filters : InOrder(got[n], events[n], sent[n])

IInv ==
    /\ TypeOK /\ BuffersInv /\ NumbersInv /\ RequestInv /\ HandleInv /\ LockInv
    /\ QueueInv /\ OwnerInv /\ OrderInv

-----------------------------------------------------------------------------
(* The records of the model. *)

ReqOps == {"attach", "attached", "read", "fails", "failed", "clunk", "clunked"}

LEMMA ReqType ==
    ASSUME req \in Reqs
    PROVE  /\ req.op \in {"none"} \cup ReqOps
           /\ req = NoReq <=> req.op = "none"
           /\ req.op # "none" => req.c \in Clients /\ req.b \in Buffers /\ req.n \in {None} \cup Filters
  BY DEF Reqs, NoReq, Req, ReqOps

LEMMA ReqMade ==
    ASSUME NEW op \in ReqOps, NEW c \in Clients, NEW b \in Buffers, NEW n \in {None} \cup Filters
    PROVE  /\ Req(op, c, b, n) \in Reqs
           /\ Req(op, c, b, n).op = op /\ Req(op, c, b, n).c = c
           /\ Req(op, c, b, n).b = b /\ Req(op, c, b, n).n = n
  BY DEF Reqs, Req, ReqOps

LEMMA ReqMoved ==
    ASSUME req \in Reqs, req.op # "none", NEW op \in ReqOps, req' = [req EXCEPT !.op = op]
    PROVE  /\ req' \in Reqs /\ req'.op = op
           /\ req'.c = req.c /\ req'.b = req.b /\ req'.n = req.n
  BY DEF Reqs, Req, ReqOps, NoReq

LEMMA ReqOver ==
    NoReq \in Reqs /\ NoReq.op = "none"
  BY DEF Reqs, NoReq, Req

LEMMA ListenerMade ==
    /\ \A st \in {"unborn", "idle", "exited"} :
           Listener(st) \in Listeners /\ Listener(st).st = st
    /\ \A c \in Clients :
           BlockedBy(c) \in Listeners /\ BlockedBy(c).st = "waiting" /\ BlockedBy(c).reader = c
  BY DEF Listeners, Listener, BlockedBy

LEMMA ListenerType ==
    ASSUME TypeOK, NEW n \in Filters
    PROVE  listener[n].st \in {"unborn", "idle", "waiting", "exited"}
  <1>1. listener[n] \in Listeners
    BY DEF TypeOK
  <1>2. QED
    BY <1>1 DEF Listeners

LEMMA NoneIsNoFilter == None \notin Filters
  BY FsysEventsAssumption DEF None, Filters

LEMMA SceneType ==
    ASSUME TypeOK
    PROVE  scene.buffers \subseteq Buffers /\ \A c \in Clients : scene.fids[c] \subseteq Fids
  <1>1. scene \in Scenes
    BY DEF TypeOK
  <1>2. scene \in [buffers : SUBSET Buffers, fids : [Clients -> SUBSET Fids],
                         features : SUBSET {"unopened_reads", "concurrent_reads"},
                         maxEvents : Nat]
    BY <1>1, FsysEventsAssumption
  <1>3. QED
    BY <1>2

(* BufferNodes::update forgets closed buffers only. *)
LEMMA UpdateFacts ==
    ASSUME TypeOK, BuffersInv, Update
    PROVE  /\ closing' \in Seq(Buffers)
           /\ known' \subseteq known /\ open \subseteq known'
           /\ \A i \in 1 .. Len(closing') : closing'[i] \notin open
           /\ handle' \in [Buffers -> {None} \cup Filters]
           /\ \A b \in Buffers : handle'[b] = None \/ handle'[b] = handle[b]
           /\ \A b \in open : handle'[b] = handle[b]
           /\ \A b \in Buffers : b \notin known' => handle'[b] = None
  <1>1. PICK k \in 0 .. Len(closing) :
            /\ closing' = SubSeq(closing, k + 1, Len(closing))
            /\ known' = known \ { closing[i] : i \in 1 .. k }
            /\ handle' = [b \in Buffers |->
                             IF b \in { closing[i] : i \in 1 .. k } THEN None ELSE handle[b]]
    BY DEF Update
  <1>2. closing \in Seq(Buffers)
    BY DEF TypeOK
  <1>3. /\ closing' \in Seq(Buffers)
        /\ \A i \in 1 .. Len(closing') : closing'[i] = closing[i + k] /\ i + k \in 1 .. Len(closing)
    BY <1>1, <1>2
  <1>4. \A b \in open : b \notin { closing[i] : i \in 1 .. k }
    BY <1>1, <1>2 DEF BuffersInv
  <1>5. QED
    BY <1>1, <1>3, <1>4 DEF BuffersInv, TypeOK


(* What a listener hands to client c. *)
Given(evts, c) == [i \in 1 .. Len(evts) |-> [by |-> c, evt |-> evts[i]]]

LEMMA GivenType ==
    ASSUME NEW evts \in Seq(Nat), NEW c \in Clients
    PROVE  Given(evts, c) \in Seq(Reads) /\ Len(Given(evts, c)) = Len(evts)
  <1>1. \A i \in 1 .. Len(evts) : [by |-> c, evt |-> evts[i]] \in Reads
    BY DEF Reads
  <1>2. Len(evts) \in Nat
    OBVIOUS
  <1>3. QED
    BY <1>1, <1>2 DEF Given

LEMMA ConcatFacts ==
    ASSUME NEW s \in Seq(Reads), NEW t \in Seq(Reads)
    PROVE  /\ s \o t \in Seq(Reads)
           /\ Len(s \o t) = Len(s) + Len(t) /\ Len(s) \in Nat /\ Len(t) \in Nat
           /\ \A i \in 1 .. Len(s) : (s \o t)[i] = s[i]
           /\ \A i \in Len(s) + 1 .. Len(s) + Len(t) : (s \o t)[i] = t[i - Len(s)]
  OBVIOUS

LEMMA GivenBy ==
    ASSUME NEW g \in Seq(Reads), NEW evts \in Seq(Nat), NEW c \in Clients, AllBy(g, c)
    PROVE  AllBy(g \o Given(evts, c), c)
  <1>1. Given(evts, c) \in Seq(Reads) /\ Len(Given(evts, c)) = Len(evts)
    BY GivenType
  <1>2. \A i \in 1 .. Len(evts) : Given(evts, c)[i].by = c
    BY DEF Given
  <1>3. SUFFICES ASSUME NEW i \in 1 .. Len(g) + Len(evts)
                 PROVE  (g \o Given(evts, c))[i].by = c
    BY <1>1, ConcatFacts DEF AllBy
  <1>4. CASE i \in 1 .. Len(g)
    BY <1>1, <1>4, ConcatFacts DEF AllBy
  <1>5. CASE i \in Len(g) + 1 .. Len(g) + Len(evts)
    BY <1>1, <1>2, <1>5, ConcatFacts
  <1>6. QED
    BY <1>1, <1>4, <1>5, ConcatFacts

(* A new event goes to the end. *)
LEMMA OrderSent ==
    ASSUME NEW g \in Seq(Reads), NEW e \in Seq(Nat), NEW k, InOrder(g, e, k)
    PROVE  InOrder(g, Append(e, k + 1), k + 1)
  <1>1. Len(g) \in Nat /\ Len(e) \in Nat /\ k = Len(g) + Len(e)
    BY DEF InOrder
  <1>2. /\ Len(Append(e, k + 1)) = Len(e) + 1
        /\ \A i \in 1 .. Len(e) : Append(e, k + 1)[i] = e[i]
        /\ Append(e, k + 1)[Len(e) + 1] = k + 1
    BY <1>1
  <1>3. QED
    BY <1>1, <1>2 DEF InOrder

(* Reading the first of the events that are waiting leaves the others. *)
LEMMA OrderRead ==
    ASSUME NEW g \in Seq(Reads), NEW e \in Seq(Nat), NEW rest \in Seq(Nat), NEW c \in Clients,
           NEW k, InOrder(g, e \o rest, k)
    PROVE  InOrder(g \o Given(e, c), rest, k)
  <1>1. /\ Given(e, c) \in Seq(Reads) /\ Len(Given(e, c)) = Len(e)
        /\ \A i \in 1 .. Len(e) : Given(e, c)[i].evt = e[i]
    BY GivenType DEF Given
  <1>2. /\ Len(e) \in Nat /\ Len(rest) \in Nat /\ Len(g) \in Nat
        /\ Len(e \o rest) = Len(e) + Len(rest)
        /\ \A i \in 1 .. Len(e) : (e \o rest)[i] = e[i]
        /\ \A i \in 1 .. Len(rest) : (e \o rest)[Len(e) + i] = rest[i]
    OBVIOUS
  <1>3. Len(e) \in Nat /\ Len(g) \in Nat
    OBVIOUS
  <1>4. Len(g \o Given(e, c)) = Len(g) + Len(e)
    BY <1>1, ConcatFacts
  <1>5. k = Len(g \o Given(e, c)) + Len(rest)
    BY <1>2, <1>4 DEF InOrder
  <1>6. \A i \in 1 .. Len(g) + Len(e) : (g \o Given(e, c))[i].evt = i
    <2> TAKE i \in 1 .. Len(g) + Len(e)
    <2>1. CASE i \in 1 .. Len(g)
      BY <1>1, <2>1, ConcatFacts DEF InOrder
    <2>2. CASE i \in Len(g) + 1 .. Len(g) + Len(e)
      <3>1. i - Len(g) \in 1 .. Len(e) /\ i - Len(g) \in 1 .. Len(e \o rest)
        BY <1>2, <2>2
      <3>2. (g \o Given(e, c))[i] = Given(e, c)[i - Len(g)]
        BY <1>1, <2>2, ConcatFacts
      <3>3. e[i - Len(g)] = Len(g) + (i - Len(g))
        BY <1>2, <3>1 DEF InOrder
      <3>4. Len(g) + (i - Len(g)) = i
        BY <1>3
      <3>5. QED
        BY <1>1, <3>1, <3>2, <3>3, <3>4
    <2>3. i \in 1 .. Len(g) \/ i \in Len(g) + 1 .. Len(g) + Len(e)
      BY <1>3
    <2>4. QED
      BY <2>1, <2>2, <2>3
  <1>7. \A i \in 1 .. Len(rest) : rest[i] = (Len(g) + Len(e)) + i
    <2> TAKE i \in 1 .. Len(rest)
    <2>1. Len(e) + i \in 1 .. Len(e \o rest) /\ (e \o rest)[Len(e) + i] = rest[i]
      BY <1>2
    <2>2. (e \o rest)[Len(e) + i] = Len(g) + (Len(e) + i)
      BY <2>1 DEF InOrder
    <2>3. QED
      BY <1>2, <2>1, <2>2
  <1>8. QED
    BY <1>4, <1>5, <1>6, <1>7 DEF InOrder

LEMMA OrderWhole ==
    ASSUME NEW g \in Seq(Reads), NEW e \in Seq(Nat), NEW k, InOrder(g, e, k)
    PROVE  [i \in 1 .. Len(g) |-> g[i].evt] \o e = [i \in 1 .. k |-> i]
  <1> DEFINE s == [i \in 1 .. Len(g) |-> g[i].evt]
             t == [i \in 1 .. k |-> i]
  <1>1. Len(g) \in Nat /\ Len(e) \in Nat /\ k = Len(g) + Len(e) /\ k \in Nat
    BY DEF InOrder
  <1>2. s \in Seq(Nat) /\ Len(s) = Len(g) /\ \A i \in 1 .. Len(g) : s[i] = i
    BY <1>1 DEF InOrder
  <1>3. t \in Seq(Nat) /\ Len(t) = k /\ \A i \in 1 .. k : t[i] = i
    BY <1>1
  <1>4. \A i \in 1 .. Len(e) : e[i] = Len(g) + i
    BY DEF InOrder
  <1> HIDE DEF s, t
  <1>5. s \o e \in Seq(Nat) /\ Len(s \o e) = k
    <2>1. \A u, v \in Seq(Nat) : u \o v \in Seq(Nat) /\ Len(u \o v) = Len(u) + Len(v)
      OBVIOUS
    <2>2. QED
      BY <1>1, <1>2, <2>1
  <1>6. \A i \in 1 .. k : (s \o e)[i] = i
    <2> TAKE i \in 1 .. k
    <2>1. CASE i \in 1 .. Len(g)
      BY <1>1, <1>2, <2>1
    <2>2. CASE i \in Len(g) + 1 .. k
      <3>1. i - Len(g) \in 1 .. Len(e) /\ Len(g) + (i - Len(g)) = i
        BY <1>1, <2>2
      <3>2. (s \o e)[i] = e[i - Len(g)]
        BY <1>1, <1>2, <2>2
      <3>3. QED
        BY <1>4, <3>1, <3>2
    <2>3. i \in 1 .. Len(g) \/ i \in Len(g) + 1 .. k
      BY <1>1
    <2>4. QED
      BY <2>1, <2>2, <2>3
  <1>7. s \o e = t
    <2>1. Len(s \o e) = Len(t) /\ \A i \in 1 .. Len(s \o e) : (s \o e)[i] = t[i]
      BY <1>3, <1>5, <1>6
    <2>2. QED
      BY <1>3, <1>5, <2>1, SeqEqual
  <1>8. QED
    BY <1>7 DEF s, t

-----------------------------------------------------------------------------
(* The editor's steps. *)

LEMMA NotifyStep ==
    ASSUME IInv, NEW n \in Filters, Notify(n)
    PROVE  IInv'
  <1> USE DEF IInv, Notify, fsysVars, editorVars
  <1>1. TypeOK'
    BY DEF TypeOK
  <1>2. BuffersInv' /\ NumbersInv' /\ RequestInv'
    BY DEF BuffersInv, NumbersInv, UnbornAt, RequestInv, Attaching, HasFid, MayBeUnopened
  <1>3. HandleInv' /\ LockInv'
    BY DEF HandleInv, HandleAt, LockInv, LockAt, Clunking, HasFid, MayBeUnopened
  <1>4. QueueInv' /\ OwnerInv'
    BY DEF QueueInv, QueueAt, OwnerInv, OwnerAt
  <1>5. OrderInv'
    <2> SUFFICES ASSUME NEW m \in Filters PROVE InOrder(got'[m], events'[m], sent'[m])
      BY DEF OrderInv
    <2>1. InOrder(got[m], events[m], sent[m]) /\ events[m] \in Seq(Nat) /\ got[m] \in Seq(Reads)
      BY DEF OrderInv, TypeOK
    <2>2. got' = got
      OBVIOUS
    <2>3. CASE m # n
      <3>1. events'[m] = events[m] /\ sent'[m] = sent[m]
        BY <2>3 DEF TypeOK
      <3>2. QED
        BY <2>1, <2>2, <3>1
    <2>4. CASE m = n
      <3>1. events'[m] = Append(events[m], sent[m] + 1) /\ sent'[m] = sent[m] + 1
        BY <2>4 DEF TypeOK
      <3>2. QED
        BY <2>1, <2>2, <3>1, OrderSent
    <2>5. QED
      BY <2>3, <2>4
  <1>6. QED
    BY <1>1, <1>2, <1>3, <1>4, <1>5

LEMMA DeleteBufferStep ==
    ASSUME IInv, NEW d \in Buffers, DeleteBuffer(d)
    PROVE  IInv'
  <1> USE DEF IInv, DeleteBuffer, ClearInputFilter, fsysVars, listenerVars
  <1>1. TypeOK'
    BY DEF TypeOK
  <1>2. BuffersInv'
    <2>1. \A i \in 1 .. Len(closing') : closing'[i] \notin open'
      BY DEF TypeOK, BuffersInv
    <2>2. QED
      BY <2>1 DEF TypeOK, BuffersInv
  <1>3. NumbersInv'
    BY DEF NumbersInv, UnbornAt
  <1>4. RequestInv'
    BY ReqType DEF RequestInv, Attaching, HasFid, MayBeUnopened, TypeOK
  <1>5. HandleInv'
    BY DEF HandleInv, HandleAt, TypeOK
  <1>6. LockInv'
    BY DEF LockInv, LockAt, Clunking, HasFid, MayBeUnopened
  <1>7. QueueInv' /\ OwnerInv'
    BY DEF QueueInv, QueueAt, OwnerInv, OwnerAt
  <1>8. OrderInv'
    BY DEF OrderInv
  <1>9. QED
    BY <1>1, <1>2, <1>3, <1>4, <1>5, <1>6, <1>7, <1>8

LEMMA EditorAddsStep ==
    ASSUME IInv, EditorAdds
    PROVE  IInv'
  <1> USE DEF IInv, EditorAdds, fsysVars, listenerVars
  <1>1. req.op = "attach" /\ req.b \in Buffers /\ req.n \in Filters /\ req \in Reqs
    BY ReqType DEF TypeOK, RequestInv, Attaching
  <1>2. BuffersInv' /\ NumbersInv'
    BY <1>1 DEF BuffersInv, NumbersInv, UnbornAt, TypeOK
  <1>3. OwnerInv' /\ OrderInv'
    <2>1. OwnerInv'
      BY DEF OwnerInv, OwnerAt
    <2>2. OrderInv'
      BY DEF OrderInv
    <2>3. QED
      BY <2>1, <2>2
  <1>4. CASE req.b \in open /\ filter[req.b] = None
    <2>1. /\ req' \in Reqs /\ req'.op = "attached" /\ req'.c = req.c
          /\ req'.b = req.b /\ req'.n = req.n
      BY <1>1, <1>4, ReqMoved DEF ReqOps
    <2>2. filter' = [filter EXCEPT ![req.b] = req.n] /\ scratch' = req.n
      BY <1>4
    <2>3. TypeOK'
      BY <1>1, <2>1, <2>2 DEF TypeOK
    <2>4. RequestInv'
      BY <1>1, <2>1, <2>2 DEF RequestInv, Attaching, HasFid, MayBeUnopened, TypeOK
    <2>5. HandleInv'
      BY <1>1, <1>4, <2>1, <2>2 DEF HandleInv, HandleAt, TypeOK
    <2>6. LockInv' /\ QueueInv'
      BY <1>1, <2>1 DEF LockInv, LockAt, Clunking, HasFid, MayBeUnopened, QueueInv, QueueAt
    <2>7. QED
      BY <1>2, <1>3, <2>3, <2>4, <2>5, <2>6
  <1>5. CASE ~(req.b \in open /\ filter[req.b] = None)
    <2>1. req' \in Reqs /\ req'.op = "none" /\ filter' = filter /\ scratch' = scratch
      BY <1>5, ReqOver
    <2>2. TypeOK' /\ RequestInv' /\ HandleInv'
      BY <1>1, <2>1 DEF TypeOK, RequestInv, HandleInv, HandleAt
    <2>3. LockInv' /\ QueueInv'
      BY <1>1, <2>1 DEF LockInv, LockAt, Clunking, HasFid, MayBeUnopened, QueueInv, QueueAt
    <2>4. QED
      BY <1>2, <1>3, <2>2, <2>3
  <1>6. QED
    BY <1>4, <1>5

LEMMA EditorRemovesStep ==
    ASSUME IInv, EditorRemoves
    PROVE  IInv'
  <1> USE DEF IInv, EditorRemoves, ClearInputFilter, fsysVars, listenerVars
  <1>1. /\ req \in Reqs /\ req.op \in {"clunk", "failed"} /\ req.b \in Buffers
        /\ handle[req.b] = None /\ lock[req.b] = req.c
    BY ReqType DEF TypeOK, RequestInv, Attaching
  <1>2. /\ req' \in Reqs
        /\ req'.op = IF req.op = "clunk" THEN "clunked" ELSE "none"
        /\ req.op = "clunk" => req'.c = req.c /\ req'.b = req.b
    BY <1>1, ReqMoved, ReqOver DEF ReqOps
  <1>3. TypeOK'
    BY <1>1, <1>2 DEF TypeOK
  <1>4. BuffersInv' /\ NumbersInv'
    BY <1>1 DEF BuffersInv, NumbersInv, UnbornAt, TypeOK
  <1>5. RequestInv'
    BY <1>1, <1>2 DEF RequestInv, Attaching, TypeOK
  <1>6. HandleInv'
    BY <1>1, <1>2 DEF HandleInv, HandleAt, TypeOK
  <1>7. LockInv'
    BY <1>1, <1>2 DEF LockInv, LockAt, Clunking, HasFid, MayBeUnopened, RequestInv, Attaching
  <1>8. QueueInv' /\ OwnerInv' /\ OrderInv'
    <2>1. QueueInv'
      BY <1>1, <1>2 DEF QueueInv, QueueAt
    <2>2. OwnerInv'
      BY DEF OwnerInv, OwnerAt
    <2>3. OrderInv'
      BY DEF OrderInv
    <2>4. QED
      BY <2>1, <2>2, <2>3
  <1>9. QED
    BY <1>3, <1>4, <1>5, <1>6, <1>7, <1>8

-----------------------------------------------------------------------------
(* The listener's steps. *)

(* The request that the listener answers is the one under way. *)
LEMMA TakesReadFacts ==
    ASSUME IInv, NEW n \in Filters, TakesRead(n)
    PROVE  /\ req \in Reqs /\ req.op = "read" /\ req.n = n /\ req.c \in Clients
           /\ req.b \in Buffers
           /\ lock[req.b] = req.c /\ handle[req.b] = n
           /\ requests[n] = <<"read">>
           /\ listener[n].st = "idle"
           /\ requests' = [requests EXCEPT ![n] = <<>>]
  <1>1. requests[n] \in Seq({"read", "shutdown"}) /\ requests[n] # <<>> /\ Head(requests[n]) = "read"
    BY DEF IInv, TypeOK, TakesRead
  <1>2. requests[n] = <<"read">> /\ req.op = "read" /\ req.n = n
    BY <1>1 DEF IInv, QueueInv, QueueAt, TakesRead
  <1>3. Tail(<<"read">>) = <<>>
    OBVIOUS
  <1>4. requests' = [requests EXCEPT ![n] = <<>>]
    BY <1>2, <1>3 DEF TakesRead
  <1>5. QED
    BY <1>2, <1>4, ReqType DEF IInv, TypeOK, RequestInv, Attaching, TakesRead

LEMMA ListenerBlocksStep ==
    ASSUME IInv, NEW n \in Filters, ListenerBlocks(n)
    PROVE  IInv'
  <1> USE DEF IInv, ListenerBlocks, TakesRead, fsysVars, editorVars
  <1>1. /\ req.op = "read" /\ req.n = n /\ req.c \in Clients /\ req.b \in Buffers
        /\ lock[req.b] = req.c /\ handle[req.b] = n
        /\ listener[n].st = "idle"
        /\ requests' = [requests EXCEPT ![n] = <<>>]
    BY TakesReadFacts
  <1>2. req' \in Reqs /\ req'.op = "none"
    BY ReqOver
  <1>3. /\ listener' \in [Filters -> Listeners]
        /\ listener'[n].st = "waiting" /\ listener'[n].reader = req.c
        /\ \A m \in Filters \ {n} : listener'[m] = listener[m]
    BY <1>1, ListenerMade DEF TypeOK
  <1>4. /\ requests' \in [Filters -> Seq({"read", "shutdown"})] /\ requests'[n] = <<>>
        /\ \A m \in Filters \ {n} : requests'[m] = requests[m]
    BY <1>1 DEF TypeOK
  <1>5. TypeOK'
    BY <1>2, <1>3, <1>4 DEF TypeOK
  <1>6. BuffersInv' /\ RequestInv'
    BY <1>2 DEF BuffersInv, RequestInv
  <1>7. NumbersInv'
    BY <1>1, <1>3, <1>4 DEF NumbersInv, UnbornAt
  <1>8. HandleInv'
    BY <1>1, <1>2, <1>3, NoneIsNoFilter DEF HandleInv, HandleAt, TypeOK
  <1>9. LockInv'
    BY <1>1, <1>2 DEF LockInv, LockAt, Clunking, HasFid, MayBeUnopened
  <1>10. QueueInv'
    BY <1>1, <1>3, <1>4 DEF QueueInv, QueueAt
  <1>11. OwnerInv'
    <2> SUFFICES ASSUME NEW m \in Filters PROVE OwnerAt(m)'
      BY DEF OwnerInv
    <2>1. OwnerAt(m)
      BY DEF OwnerInv
    <2>2. CASE m # n
      BY <1>3, <2>1, <2>2 DEF OwnerAt
    <2>3. CASE m = n
      <3>1. \A b \in Buffers : handle[b] = n => b = req.b
        BY <1>1, NoneIsNoFilter DEF NumbersInv
      <3>2. AllBy(got[n], req.c)
        BY <1>1, <2>1, <2>3 DEF OwnerAt
      <3>3. QED
        BY <1>1, <1>3, <2>1, <2>3, <3>1, <3>2 DEF OwnerAt
    <2>4. QED
      BY <2>2, <2>3
  <1>12. OrderInv'
    BY DEF OrderInv
  <1>13. QED
    BY <1>5, <1>6, <1>7, <1>8, <1>9, <1>10, <1>11, <1>12

(* The listener gives the first of the events that wait to client c. *)
LEMMA ReadFacts ==
    ASSUME IInv, NEW n \in Filters, NEW c \in Clients, NEW evts \in Seq(Nat), NEW rest \in Seq(Nat),
           AllBy(got[n], c), events[n] = evts \o rest,
           Read(n, evts, c), events' = [events EXCEPT ![n] = rest], sent' = sent
    PROVE  /\ got' \in [Filters -> Seq(Reads)] /\ events' \in [Filters -> Seq(Nat)]
           /\ AllBy(got'[n], c) /\ \A m \in Filters \ {n} : got'[m] = got[m]
           /\ OrderInv'
  <1>1. /\ got \in [Filters -> Seq(Reads)] /\ got[n] \in Seq(Reads)
        /\ events \in [Filters -> Seq(Nat)]
    BY DEF IInv, TypeOK
  <1>2. got' = [got EXCEPT ![n] = got[n] \o Given(evts, c)]
    BY DEF Read, Given
  <1>3. got[n] \o Given(evts, c) \in Seq(Reads)
    BY <1>1, GivenType, ConcatFacts
  <1>4. got' \in [Filters -> Seq(Reads)] /\ got'[n] = got[n] \o Given(evts, c)
    BY <1>1, <1>2, <1>3
  <1>5. events' \in [Filters -> Seq(Nat)] /\ events'[n] = rest
    BY <1>1
  <1>6. \A m \in Filters \ {n} : got'[m] = got[m] /\ events'[m] = events[m]
    BY <1>1, <1>2
  <1>7. AllBy(got'[n], c)
    BY <1>1, <1>4, GivenBy
  <1>8. InOrder(got'[n], events'[n], sent'[n])
    <2>1. InOrder(got[n], evts \o rest, sent[n])
      BY DEF IInv, OrderInv
    <2>2. QED
      BY <1>1, <1>4, <1>5, <2>1, OrderRead
  <1>9. \A m \in Filters \ {n} : InOrder(got'[m], events'[m], sent'[m])
    BY <1>6 DEF IInv, OrderInv
  <1>10. QED
    BY <1>4, <1>5, <1>6, <1>7, <1>8, <1>9 DEF OrderInv

LEMMA ListenerImmediateStep ==
    ASSUME IInv, NEW n \in Filters, ListenerImmediate(n)
    PROVE  IInv'
  <1> USE DEF IInv
  <1>1. /\ req.op = "read" /\ req.n = n /\ req.c \in Clients /\ req.b \in Buffers
        /\ lock[req.b] = req.c /\ handle[req.b] = n
        /\ listener[n].st = "idle"
        /\ requests' = [requests EXCEPT ![n] = <<>>]
    BY TakesReadFacts DEF ListenerImmediate
  <1>2. req' \in Reqs /\ req'.op = "none"
    BY ReqOver DEF ListenerImmediate
  <1>3. UNCHANGED <<fids, leaving, known, handle, lock, everOpened, open, filter, scratch,
                    closing, made, listener, sent, scene>>
    BY DEF ListenerImmediate, TakesRead, fsysVars, editorVars
  <1>4. /\ requests' \in [Filters -> Seq({"read", "shutdown"})] /\ requests'[n] = <<>>
        /\ \A m \in Filters \ {n} : requests'[m] = requests[m]
    BY <1>1 DEF TypeOK
  <1>5. AllBy(got[n], req.c)
    BY <1>1 DEF OwnerInv, OwnerAt
  <1>6. /\ got' \in [Filters -> Seq(Reads)] /\ events' \in [Filters -> Seq(Nat)]
        /\ AllBy(got'[n], req.c) /\ \A m \in Filters \ {n} : got'[m] = got[m]
        /\ OrderInv'
    <2>1. events[n] \in Seq(Nat) /\ <<>> \in Seq(Nat)
      BY DEF TypeOK
    <2>2. events[n] = events[n] \o <<>>
      BY <2>1
    <2>3. Read(n, events[n], req.c) /\ events' = [events EXCEPT ![n] = <<>>]
      BY DEF ListenerImmediate
    <2>4. QED
      BY <1>1, <1>3, <1>5, <2>1, <2>2, <2>3, ReadFacts
  <1>7. TypeOK'
    BY <1>2, <1>3, <1>4, <1>6 DEF TypeOK
  <1>8. BuffersInv' /\ RequestInv'
    BY <1>2, <1>3 DEF BuffersInv, RequestInv
  <1>9. NumbersInv'
    BY <1>1, <1>3, <1>4, <1>6 DEF NumbersInv, UnbornAt
  <1>10. HandleInv' /\ LockInv'
    BY <1>1, <1>2, <1>3 DEF HandleInv, HandleAt, LockInv, LockAt, Clunking, HasFid, MayBeUnopened
  <1>11. QueueInv'
    BY <1>1, <1>3, <1>4 DEF QueueInv, QueueAt
  <1>12. OwnerInv'
    <2>1. \A b \in Buffers : handle[b] = n => b = req.b
      BY <1>1, NoneIsNoFilter DEF NumbersInv
    <2>2. QED
      BY <1>1, <1>3, <1>6, <2>1 DEF OwnerInv, OwnerAt
  <1>13. QED
    BY <1>6, <1>7, <1>8, <1>9, <1>10, <1>11, <1>12

LEMMA ListenerEventStep ==
    ASSUME IInv, NEW n \in Filters, ListenerEvent(n)
    PROVE  IInv'
  <1> USE DEF IInv
  <1> DEFINE c == listener[n].reader
  <1>1. listener[n].st = "waiting" /\ c \in Clients /\ AllBy(got[n], c)
    BY DEF ListenerEvent, OwnerInv, OwnerAt
  <1>2. UNCHANGED <<fids, leaving, req, known, handle, lock, everOpened, open, filter, scratch,
                    closing, made, requests, sent, scene>>
    BY DEF ListenerEvent, fsysVars, editorVars
  <1>3. /\ listener' \in [Filters -> Listeners] /\ listener'[n].st = "idle"
        /\ \A m \in Filters \ {n} : listener'[m] = listener[m]
    BY ListenerMade DEF TypeOK, ListenerEvent
  <1>4. /\ got' \in [Filters -> Seq(Reads)] /\ events' \in [Filters -> Seq(Nat)]
        /\ AllBy(got'[n], c) /\ \A m \in Filters \ {n} : got'[m] = got[m]
        /\ OrderInv'
    <2>1. events[n] \in Seq(Nat) /\ events[n] # <<>>
      BY DEF TypeOK, ListenerEvent
    <2>2. <<Head(events[n])>> \in Seq(Nat) /\ Tail(events[n]) \in Seq(Nat)
      BY <2>1
    <2>3. events[n] = <<Head(events[n])>> \o Tail(events[n])
      BY <2>1
    <2>4. Read(n, <<Head(events[n])>>, c) /\ events' = [events EXCEPT ![n] = Tail(events[n])]
      BY DEF ListenerEvent
    <2>5. QED
      BY <1>1, <1>2, <2>2, <2>3, <2>4, ReadFacts
  <1>5. TypeOK'
    BY <1>2, <1>3, <1>4 DEF TypeOK
  <1>6. BuffersInv' /\ LockInv'
    BY <1>2 DEF BuffersInv, LockInv, LockAt, Clunking, HasFid, MayBeUnopened
  <1>7. NumbersInv'
    <2>1. ASSUME NEW m \in Filters
          PROVE  UnbornAt(m)'
      BY <1>1, <1>2, <1>3, <1>4 DEF NumbersInv, UnbornAt
    <2>2. QED
      BY <1>2, <2>1 DEF NumbersInv
  <1>8. RequestInv'
    BY <1>1, <1>2, <1>3 DEF RequestInv, Attaching, HasFid, MayBeUnopened
  <1>9. HandleInv'
    <2>1. ASSUME NEW b \in Buffers
          PROVE  HandleAt(b)'
      <3>1. HandleAt(b) /\ handle[b] \in {None} \cup Filters
        BY DEF HandleInv, TypeOK
      <3>2. QED
        BY <1>2, <1>3, <3>1 DEF HandleAt
    <2>2. QED
      BY <2>1 DEF HandleInv
  <1>10. QueueInv'
    BY <1>1, <1>2, <1>3 DEF QueueInv, QueueAt
  <1>11. OwnerInv'
    BY <1>1, <1>2, <1>3, <1>4, ZenonT(60) DEF OwnerInv, OwnerAt
  <1>12. QED
    BY <1>4, <1>5, <1>6, <1>7, <1>8, <1>9, <1>10, <1>11

(* A listener does not stop while fsys has a handle on it and the buffer is *)
(* open: nobody has asked it to, and the filter is still there.             *)
LEMMA ListenerStops ==
    ASSUME IInv, NEW n \in Filters, ListenerShutdown(n) \/ ListenerGone(n)
    PROVE  IInv'
  <1> USE DEF IInv, ListenerShutdown, ListenerGone, fsysVars, editorVars
  <1>1. /\ listener[n].st \in {"idle", "waiting"}
        /\ listener' \in [Filters -> Listeners]
        /\ listener'[n].st = "exited"
        /\ \A m \in Filters \ {n} : listener'[m] = listener[m]
    BY ListenerMade DEF TypeOK
  <1>2. UNCHANGED <<fids, leaving, req, known, handle, lock, everOpened, open, filter, scratch,
                    closing, made, requests, events, sent, got, scene>>
    OBVIOUS
  <1>3. \A b \in open : handle[b] # n
    <2> SUFFICES ASSUME NEW b \in open, handle[b] = n PROVE FALSE
      OBVIOUS
    <2>1. b \in Buffers /\ filter[b] = n
      BY NoneIsNoFilter DEF HandleInv, HandleAt, TypeOK
    <2>2. CASE ListenerShutdown(n)
      BY <2>1, <2>2 DEF QueueInv, QueueAt
    <2>3. QED
      BY <2>1, <2>2
  <1> HIDE DEF ListenerShutdown, ListenerGone
  <1>4. TypeOK'
    BY <1>1, <1>2 DEF TypeOK
  <1>5. BuffersInv' /\ LockInv'
    BY <1>2 DEF BuffersInv, LockInv, LockAt, Clunking, HasFid, MayBeUnopened
  <1>6. NumbersInv'
    BY <1>1, <1>2 DEF NumbersInv, UnbornAt
  <1>7. RequestInv'
    BY <1>1, <1>2 DEF RequestInv, Attaching, HasFid, MayBeUnopened
  <1>8. HandleInv'
    BY <1>1, <1>2, <1>3, NoneIsNoFilter DEF HandleInv, HandleAt, TypeOK
  <1>9. QueueInv'
    BY <1>1, <1>2 DEF QueueInv, QueueAt
  <1>10. OwnerInv'
    BY <1>1, <1>2 DEF OwnerInv, OwnerAt
  <1>11. OrderInv'
    BY <1>2 DEF OrderInv
  <1>12. QED
    BY <1>4, <1>5, <1>6, <1>7, <1>8, <1>9, <1>10, <1>11
-----------------------------------------------------------------------------
(* The requests.  None of them is under way when another one starts. *)

(* Taking in the closed buffers leaves the rest of the story as it was. *)
LEMMA UpdateKeeps ==
    ASSUME IInv, Update, req.op = "none",
           UNCHANGED <<lock, open, filter, listener, scene>>
    PROVE  /\ BuffersInv'
           /\ \A n \in Filters : \A b \in Buffers : handle'[b] = n => handle[b] = n
           /\ \A a, b \in Buffers : handle'[a] = handle'[b] /\ handle'[a] # None => a = b
           /\ \A b \in Buffers :
                  /\ filter'[b] # None => handle'[b] = filter'[b]
                  /\ b \in open' /\ handle'[b] # None =>
                         filter'[b] = handle'[b] /\ listener'[handle'[b]].st \in {"idle", "waiting"}
                  /\ b \in open' /\ lock'[b] # NoOne => handle'[b] # None
                  /\ handle'[b] # None => MayBeUnopened' \/ lock'[b] # NoOne
  <1> USE DEF IInv
  <1>1. /\ open \subseteq known' /\ open \subseteq Buffers
        /\ \A i \in 1 .. Len(closing') : closing'[i] \notin open
        /\ \A b \in Buffers : handle'[b] = None \/ handle'[b] = handle[b]
        /\ \A b \in open : handle'[b] = handle[b]
        /\ \A b \in Buffers : b \notin known' => handle'[b] = None
    BY UpdateFacts DEF TypeOK
  <1>2. BuffersInv'
    BY <1>1 DEF BuffersInv
  <1>3. \A n \in Filters : \A b \in Buffers : handle'[b] = n => handle[b] = n
    BY <1>1, NoneIsNoFilter
  <1>4. \A a, b \in Buffers : handle'[a] = handle'[b] /\ handle'[a] # None => a = b
    BY <1>1 DEF NumbersInv
  <1>5. ASSUME NEW b \in Buffers
        PROVE  /\ filter'[b] # None => handle'[b] = filter'[b]
               /\ b \in open' /\ handle'[b] # None =>
                      filter'[b] = handle'[b] /\ listener'[handle'[b]].st \in {"idle", "waiting"}
    <2>1. HandleAt(b) /\ (b \notin open => filter[b] = None)
      BY DEF HandleInv, BuffersInv
    <2>2. QED
      BY <1>1, <2>1 DEF HandleAt
  <1>6. ASSUME NEW b \in Buffers
        PROVE  /\ b \in open' /\ lock'[b] # NoOne => handle'[b] # None
               /\ handle'[b] # None => MayBeUnopened' \/ lock'[b] # NoOne
    <2>1. LockAt(b)
      BY DEF LockInv
    <2>2. QED
      BY <1>1, <2>1 DEF LockAt, Clunking, MayBeUnopened
  <1>7. QED
    BY <1>2, <1>3, <1>4, <1>5, <1>6

LEMMA OtherRequestStep ==
    ASSUME IInv, OtherRequest
    PROVE  IInv'
  <1> USE DEF IInv
  <1>1. /\ req.op = "none" /\ Update
        /\ UNCHANGED <<fids, leaving, req, lock, everOpened, open, filter, scratch, made,
                       listener, requests, events, got, sent, scene>>
    BY ReqType DEF OtherRequest, listenerVars, TypeOK
  <1>2. TypeOK'
    BY <1>1, UpdateFacts DEF TypeOK
  <1>3. BuffersInv'
    BY <1>1, UpdateKeeps
  <1>4. NumbersInv'
    BY <1>1, UpdateKeeps DEF NumbersInv, UnbornAt
  <1>5. RequestInv'
    BY <1>1 DEF RequestInv
  <1>6. HandleInv'
    BY <1>1, UpdateKeeps DEF HandleInv, HandleAt
  <1>7. LockInv'
    BY <1>1, UpdateKeeps DEF LockInv, LockAt, Clunking, HasFid
  <1>8. QueueInv'
    BY <1>1, UpdateKeeps DEF QueueInv, QueueAt
  <1>9. OwnerInv'
    BY <1>1, UpdateKeeps DEF OwnerInv, OwnerAt
  <1>10. OrderInv'
    BY <1>1 DEF OrderInv
  <1>11. QED
    BY <1>2, <1>3, <1>4, <1>5, <1>6, <1>7, <1>8, <1>9, <1>10

LEMMA WalkStep ==
    ASSUME IInv, NEW c \in Clients, NEW f \in Fids, Walk(c, f)
    PROVE  IInv'
  <1> USE DEF IInv
  <1>1. /\ req.op = "none" /\ Update /\ fids[c][f] = Free
        /\ UNCHANGED <<leaving, req, lock, everOpened, open, filter, scratch, made,
                       listener, requests, events, got, sent, scene>>
    BY ReqType DEF Walk, Starts, listenerVars, TypeOK
  <1>2. PICK b \in known' : fids' = [fids EXCEPT ![c][f] = [st |-> "walked", buf |-> b]]
    BY DEF Walk
  <1>3. [st |-> "walked", buf |-> b] \in FidStates /\ [st |-> "walked", buf |-> b].st = "walked"
    BY <1>1, UpdateFacts DEF FidStates, TypeOK
  <1>4. fids' \in [Clients -> [Fids -> FidStates]]
    BY <1>2, <1>3 DEF TypeOK
  <1>5. \A d \in Clients, g \in Fids :
            IF d = c /\ g = f THEN fids'[d][g] = [st |-> "walked", buf |-> b]
                              ELSE fids'[d][g] = fids[d][g]
    BY <1>2 DEF TypeOK
  <1>6. TypeOK'
    BY <1>1, <1>4, UpdateFacts DEF TypeOK
  <1>7. BuffersInv' /\ RequestInv'
    BY <1>1, UpdateKeeps DEF RequestInv
  <1>8. NumbersInv'
    BY <1>1, UpdateKeeps DEF NumbersInv, UnbornAt
  <1>9. HandleInv'
    BY <1>1, UpdateKeeps DEF HandleInv, HandleAt
  <1>10. LockInv'
    <2>1. \A d \in Clients, a \in Buffers : HasFid(d, a) => HasFid(d, a)'
      BY <1>1, <1>5 DEF HasFid
    <2>2. \A a \in Buffers : LockAt(a)'
      BY <1>1, <2>1, UpdateKeeps DEF LockInv, LockAt, Clunking, TypeOK
    <2>3. \A d \in Clients, g \in Fids :
              fids'[d][g].st = "opened" => fids'[d][g].buf \in everOpened'
      BY <1>1, <1>3, <1>5 DEF LockInv
    <2>4. QED
      BY <2>2, <2>3 DEF LockInv
  <1>11. QueueInv'
    BY <1>1, UpdateKeeps DEF QueueInv, QueueAt
  <1>12. OwnerInv'
    BY <1>1, UpdateKeeps DEF OwnerInv, OwnerAt
  <1>13. OrderInv'
    BY <1>1 DEF OrderInv
  <1>14. QED
    BY <1>6, <1>7, <1>8, <1>9, <1>10, <1>11, <1>12, <1>13

LEMMA OpenStep ==
    ASSUME IInv, NEW c \in Clients, NEW f \in Fids, Open(c, f)
    PROVE  IInv'
  <1> USE DEF IInv
  <1>1. /\ req.op = "none" /\ Update /\ fids[c][f].st = "walked"
        /\ fids' = [fids EXCEPT ![c][f].st = "opened"]
        /\ everOpened' = everOpened \cup {fids[c][f].buf}
        /\ UNCHANGED <<leaving, req, lock, open, filter, scratch, made,
                       listener, requests, events, got, sent, scene>>
    BY ReqType DEF Open, Starts, listenerVars, TypeOK
  <1>2. fids[c][f] \in [st : {"walked", "opened"}, buf : Buffers]
    BY <1>1 DEF TypeOK, FidStates, Free
  <1> DEFINE new == [fids[c][f] EXCEPT !.st = "opened"]
  <1>3. new \in FidStates /\ new # Free /\ new.st = "opened" /\ new.buf = fids[c][f].buf
    BY <1>2 DEF FidStates, Free
  <1>4. fids' = [fids EXCEPT ![c][f] = new]
    BY <1>1
  <1> HIDE DEF new
  <1>5. fids' \in [Clients -> [Fids -> FidStates]]
    BY <1>3, <1>4 DEF TypeOK
  <1>6. \A d \in Clients, g \in Fids :
            IF d = c /\ g = f THEN fids'[d][g] = new ELSE fids'[d][g] = fids[d][g]
    BY <1>4 DEF TypeOK
  <1>7. TypeOK'
    BY <1>1, <1>2, <1>5, UpdateFacts DEF TypeOK
  <1>8. BuffersInv' /\ RequestInv'
    BY <1>1, UpdateKeeps DEF RequestInv
  <1>9. NumbersInv'
    BY <1>1, UpdateKeeps DEF NumbersInv, UnbornAt
  <1>10. HandleInv'
    BY <1>1, UpdateKeeps DEF HandleInv, HandleAt
  <1>11. LockInv'
    <2>1. \A d \in Clients, a \in Buffers : HasFid(d, a) => HasFid(d, a)'
      BY <1>3, <1>6 DEF HasFid
    <2>2. \A a \in Buffers : LockAt(a)'
      BY <1>1, <2>1, UpdateKeeps DEF LockInv, LockAt, Clunking, TypeOK
    <2>3. \A d \in Clients, g \in Fids :
              fids'[d][g].st = "opened" => fids'[d][g].buf \in everOpened'
      BY <1>1, <1>3, <1>6 DEF LockInv
    <2>4. QED
      BY <2>2, <2>3 DEF LockInv
  <1>12. QueueInv'
    BY <1>1, UpdateKeeps DEF QueueInv, QueueAt
  <1>13. OwnerInv'
    BY <1>1, UpdateKeeps DEF OwnerInv, OwnerAt
  <1>14. OrderInv'
    BY <1>1 DEF OrderInv
  <1>15. QED
    BY <1>7, <1>8, <1>9, <1>10, <1>11, <1>12, <1>13, <1>14

LEMMA ReadAttachesStep ==
    ASSUME IInv, NEW c \in Clients, NEW f \in Fids, ReadAttaches(c, f)
    PROVE  IInv'
  <1> USE DEF IInv
  <1>0. PICK b, n : b = fids[c][f].buf /\ n = made + 1
    OBVIOUS
  <1>1. /\ req.op = "none" /\ Update /\ b \in known' /\ lock[b] = NoOne
        /\ fids[c][f].st = "opened" \/ (fids[c][f].st = "walked" /\ MayBeUnopened)
        /\ made < MaxFilters /\ made' = n /\ req' = Req("attach", c, b, n)
        /\ UNCHANGED <<fids, leaving, lock, everOpened, open, filter, scratch, requests, listener,
                       events, sent, got, scene>>
    BY <1>0, ReqType DEF ReadAttaches, ReadsEvents, Starts, MayBeUnopened, TypeOK
  <1>2. b \in Buffers /\ n \in Filters /\ made' \in 0 .. MaxFilters
    <2>1. b \in Buffers
      BY <1>1, UpdateFacts DEF TypeOK
    <2>2. made \in 0 .. MaxFilters /\ MaxFilters \in Nat
      BY FsysEventsAssumption DEF TypeOK
    <2>3. QED
      BY <1>0, <1>1, <2>1, <2>2 DEF Filters
  <1>3. req' \in Reqs /\ req'.op = "attach" /\ req'.c = c /\ req'.b = b /\ req'.n = n
    BY <1>1, <1>2, ReqMade DEF ReqOps
  <1>4. TypeOK'
    BY <1>1, <1>2, <1>3, UpdateFacts DEF TypeOK
  <1>5. BuffersInv'
    BY <1>1, UpdateKeeps
  <1>6. NumbersInv'
    <2>1. \A m \in Filters : m > n => m > made
      BY <1>0 DEF TypeOK, Filters
    <2>2. QED
      BY <1>1, <2>1, UpdateKeeps DEF NumbersInv, UnbornAt
  <1>7. RequestInv'
    <2>1. n > made /\ listener[n].st = "unborn"
      BY <1>0, <1>2 DEF NumbersInv, UnbornAt, TypeOK
    <2>2. HasFid(c, b)
      BY <1>0, <1>1 DEF HasFid, Free
    <2>3. MayBeUnopened \/ b \in everOpened
      BY <1>0, <1>1 DEF LockInv
    <2>4. HasFid(c, b)' /\ (MayBeUnopened \/ b \in everOpened)'
      BY <1>1, <2>2, <2>3 DEF HasFid, MayBeUnopened
    <2>5. Attaching' /\ (req.op = "attach")'
      BY <1>3 DEF Attaching
    <2>6. HasFid(req.c, req.b)' /\ (MayBeUnopened \/ req.b \in everOpened)'
      BY <1>1, <1>3, <2>4 DEF HasFid
    <2>7. n <= made'
      BY <1>0, <1>1 DEF TypeOK
    <2>8. QED
      BY <1>1, <1>2, <1>3, <2>1, <2>5, <2>6, <2>7 DEF RequestInv
  <1>8. HandleInv'
    BY <1>1, UpdateKeeps DEF HandleInv, HandleAt
  <1>9. LockInv'
    BY <1>1, UpdateKeeps DEF LockInv, LockAt, Clunking, HasFid
  <1>10. QueueInv'
    BY <1>1, UpdateKeeps DEF QueueInv, QueueAt
  <1>11. OwnerInv'
    BY <1>1, UpdateKeeps DEF OwnerInv, OwnerAt
  <1>12. OrderInv'
    BY <1>1 DEF OrderInv
  <1>13. QED
    BY <1>4, <1>5, <1>6, <1>7, <1>8, <1>9, <1>10, <1>11, <1>12

LEMMA ReadPendingStep ==
    ASSUME IInv, NEW c \in Clients, NEW f \in Fids, ReadPending(c, f)
    PROVE  IInv'
  <1> USE DEF IInv
  <1>0. PICK b, n : b = fids[c][f].buf /\ n = handle'[b]
    OBVIOUS
  <1> DEFINE exited == listener[n].st = "exited"
  <1>1. /\ req.op = "none" /\ Update /\ b \in known' /\ lock[b] = c /\ n # None
        /\ req' = Req(IF exited THEN "fails" ELSE "read", c, b, n)
        /\ requests' = IF exited THEN requests
                       ELSE [requests EXCEPT ![n] = Append(requests[n], "read")]
        /\ UNCHANGED <<fids, leaving, lock, everOpened, open, filter, scratch, made, listener,
                       events, sent, got, scene>>
    BY <1>0, ReqType DEF ReadPending, ReadsEvents, Starts, MayRead, TypeOK
  <1>2. b \in Buffers /\ n \in Filters /\ handle[b] = n
    BY <1>0, <1>1, UpdateFacts DEF TypeOK
  <1>3. /\ req' \in Reqs /\ req'.op = (IF exited THEN "fails" ELSE "read")
        /\ req'.c = c /\ req'.b = b /\ req'.n = n
    BY <1>1, <1>2, ReqMade DEF ReqOps
  <1>4. listener[n].st # "unborn"
    BY <1>2 DEF NumbersInv, UnbornAt
  <1>5. ~exited => requests[n] = <<>>
    BY <1>1, <1>2 DEF QueueInv, QueueAt
  <1>6. /\ requests' \in [Filters -> Seq({"read", "shutdown"})]
        /\ ~exited => requests'[n] = <<"read">>
        /\ \A m \in Filters \ {n} : requests'[m] = requests[m]
    <2>1. Append(<<>>, "read") = <<"read">> /\ <<"read">> \in Seq({"read", "shutdown"})
      OBVIOUS
    <2>2. requests \in [Filters -> Seq({"read", "shutdown"})]
      BY DEF TypeOK
    <2>3. QED
      BY <1>1, <1>2, <1>5, <2>1, <2>2
  <1>7. TypeOK'
    BY <1>1, <1>3, <1>6, UpdateFacts DEF TypeOK
  <1>8. BuffersInv'
    BY <1>1, UpdateKeeps
  <1>9. NumbersInv'
    BY <1>1, <1>4, <1>6, UpdateKeeps DEF NumbersInv, UnbornAt
  <1>10. RequestInv'
    BY <1>0, <1>1, <1>2, <1>3 DEF RequestInv, Attaching
  <1>11. HandleInv'
    BY <1>1, UpdateKeeps DEF HandleInv, HandleAt
  <1>12. LockInv'
    BY <1>1, UpdateKeeps DEF LockInv, LockAt, Clunking, HasFid
  <1>13. QueueInv'
    <2>1. \A m \in Filters \ {n} : QueueAt(m)'
      BY <1>1, <1>6, UpdateKeeps DEF QueueInv, QueueAt
    <2>2. QueueAt(n)'
      BY <1>1, <1>3, <1>6 DEF QueueAt
    <2>3. QED
      BY <2>1, <2>2 DEF QueueInv
  <1>14. OwnerInv'
    BY <1>1, UpdateKeeps DEF OwnerInv, OwnerAt
  <1>15. OrderInv'
    BY <1>1 DEF OrderInv
  <1>16. QED
    BY <1>7, <1>8, <1>9, <1>10, <1>11, <1>12, <1>13, <1>14, <1>15

(* The filter is set: handle, listener and lock join it in one step. *)
LEMMA AttachedContinuesStep ==
    ASSUME IInv, AttachedContinues
    PROVE  IInv'
  <1> USE DEF IInv
  <1>0. PICK b, n : b = req.b /\ n = req.n
    OBVIOUS
  <1> DEFINE locks == b \in everOpened
  <1>1. /\ req \in Reqs /\ req.op = "attached" /\ req.c \in Clients /\ b \in Buffers /\ n \in Filters
        /\ b \in known /\ n <= made /\ listener[n].st = "unborn" /\ lock[b] = NoOne /\ HasFid(req.c, b)
        /\ MayBeUnopened \/ locks
        /\ b \in open => filter[b] = n
    BY <1>0, ReqType DEF AttachedContinues, RequestInv, Attaching, TypeOK
  <1>2. /\ handle' = [handle EXCEPT ![b] = n]
        /\ listener' = [listener EXCEPT ![n] = Listener("idle")]
        /\ lock' = IF locks THEN [lock EXCEPT ![b] = req.c] ELSE lock
        /\ requests' = IF locks THEN [requests EXCEPT ![n] = Append(requests[n], "read")] ELSE requests
        /\ req' = IF locks THEN [req EXCEPT !.op = "read"] ELSE NoReq
        /\ UNCHANGED <<fids, leaving, known, everOpened, open, filter, scratch, closing, made,
                       events, sent, got, scene>>
    BY <1>0 DEF AttachedContinues, editorVars
  <1>3. /\ req' \in Reqs
        /\ locks => req'.op = "read" /\ req'.c = req.c /\ req'.b = b /\ req'.n = n
        /\ ~locks => req'.op = "none"
    BY <1>0, <1>1, <1>2, ReqMoved, ReqOver DEF ReqOps
  <1>4. requests[n] = <<>> /\ got[n] = <<>> /\ \A a \in Buffers : handle[a] # n
    BY <1>1 DEF NumbersInv, UnbornAt
  <1>5. /\ handle' \in [Buffers -> {None} \cup Filters] /\ handle'[b] = n
        /\ \A a \in Buffers \ {b} : handle'[a] = handle[a]
    BY <1>1, <1>2 DEF TypeOK
  <1>6. /\ listener' \in [Filters -> Listeners] /\ listener'[n].st = "idle"
        /\ \A m \in Filters \ {n} : listener'[m] = listener[m]
    BY <1>1, <1>2, ListenerMade DEF TypeOK
  <1>7. /\ lock' \in [Buffers -> {NoOne} \cup Clients]
        /\ lock'[b] = IF locks THEN req.c ELSE NoOne
        /\ \A a \in Buffers \ {b} : lock'[a] = lock[a]
    BY <1>1, <1>2 DEF TypeOK
  <1>8. /\ requests' \in [Filters -> Seq({"read", "shutdown"})]
        /\ requests'[n] = IF locks THEN <<"read">> ELSE <<>>
        /\ \A m \in Filters \ {n} : requests'[m] = requests[m]
    <2>1. Append(<<>>, "read") = <<"read">> /\ <<"read">> \in Seq({"read", "shutdown"})
      OBVIOUS
    <2>2. requests \in [Filters -> Seq({"read", "shutdown"})]
      BY DEF TypeOK
    <2>3. QED
      BY <1>1, <1>2, <1>4, <2>1, <2>2
  <1>9. TypeOK'
    BY <1>2, <1>3, <1>5, <1>6, <1>7, <1>8 DEF TypeOK
  <1>10. BuffersInv'
    BY <1>1, <1>2, <1>5 DEF BuffersInv
  <1>11. NumbersInv'
    <2>1. ASSUME NEW m \in Filters
          PROVE  UnbornAt(m)'
      <3>1. CASE m = n
        <4>1. ~(m > made')
          BY <1>1, <1>2, <3>1 DEF TypeOK, Filters
        <4>2. QED
          BY <1>6, <3>1, <4>1 DEF UnbornAt
      <3>2. CASE m # n
        BY <1>2, <1>5, <1>6, <1>8, <3>2 DEF NumbersInv, UnbornAt
      <3>3. QED
        BY <3>1, <3>2
    <2>2. \A a, d \in Buffers : handle'[a] = handle'[d] /\ handle'[a] # None => a = d
      BY <1>4, <1>5 DEF NumbersInv
    <2>3. QED
      BY <2>1, <2>2 DEF NumbersInv
  <1>12. RequestInv'
    BY <1>0, <1>1, <1>2, <1>3, <1>5, <1>7 DEF RequestInv, Attaching
  <1>13. HandleInv'
    <2>1. HandleAt(b)'
      BY <1>1, <1>2, <1>5, <1>6 DEF HandleAt, BuffersInv
    <2>2. ASSUME NEW a \in Buffers \ {b}
          PROVE  HandleAt(a)'
      <3>1. HandleAt(a) /\ handle[a] \in {None} \cup Filters /\ handle[a] # n
        BY <1>4 DEF HandleInv, TypeOK
      <3>2. QED
        BY <1>0, <1>1, <1>2, <1>5, <1>6, <3>1 DEF HandleAt
    <2>3. QED
      BY <2>1, <2>2 DEF HandleInv
  <1>14. LockInv'
    <2>1. LockAt(b)'
      BY <1>1, <1>2, <1>5, <1>7, NoneIsNoFilter, FsysEventsAssumption
         DEF LockAt, HasFid, MayBeUnopened
    <2>2. \A a \in Buffers \ {b} : LockAt(a)'
      BY <1>1, <1>2, <1>5, <1>7 DEF LockInv, LockAt, Clunking, HasFid, MayBeUnopened
    <2>3. QED
      BY <1>2, <2>1, <2>2 DEF LockInv
  <1>15. QueueInv'
    <2>1. QueueAt(n)'
      BY <1>3, <1>8 DEF QueueAt
    <2>2. ASSUME NEW m \in Filters \ {n}
          PROVE  QueueAt(m)'
      <3>1. QueueAt(m) /\ req.op # "read"
        BY <1>1 DEF QueueInv
      <3>2. \A a \in Buffers : handle[a] # m => handle'[a] # m
        BY <1>5
      <3>3. QED
        BY <1>6, <1>8, <3>1, <3>2 DEF QueueAt
    <2>3. QED
      BY <2>1, <2>2 DEF QueueInv
  <1>16. OwnerInv'
    <2>1. OwnerAt(n)'
      BY <1>2, <1>4, <1>6 DEF OwnerAt, AllBy
    <2>2. ASSUME NEW m \in Filters \ {n}
          PROVE  OwnerAt(m)'
      BY <1>2, <1>5, <1>6, <1>7 DEF OwnerInv, OwnerAt
    <2>3. QED
      BY <2>1, <2>2 DEF OwnerInv
  <1>17. OrderInv'
    BY <1>2 DEF OrderInv
  <1>18. QED
    BY <1>9, <1>10, <1>11, <1>12, <1>13, <1>14, <1>15, <1>16, <1>17

(* The listener of the buffer has exited, so the buffer is closed. *)
LEMMA ReadFailsStep ==
    ASSUME IInv, ReadFails
    PROVE  IInv'
  <1> USE DEF IInv
  <1>0. PICK b, n : b = req.b /\ n = req.n
    OBVIOUS
  <1>1. /\ req \in Reqs /\ req.op \in {"read", "fails"} /\ b \in Buffers /\ n \in Filters
        /\ b \in known /\ lock[b] = req.c /\ handle[b] = n /\ listener[n].st = "exited"
    BY <1>0, ReqType DEF ReadFails, RequestInv, Attaching, TypeOK
  <1>2. /\ requests' = [requests EXCEPT ![n] = Append(requests[n], "shutdown")]
        /\ handle' = [handle EXCEPT ![b] = None]
        /\ req' = [req EXCEPT !.op = "failed"]
        /\ UNCHANGED <<fids, leaving, known, lock, everOpened, open, filter, scratch, closing, made,
                       listener, events, sent, got, scene>>
    BY <1>0, <1>1 DEF ReadFails, Shutdown, editorVars
  <1>3. req' \in Reqs /\ req'.op = "failed" /\ req'.c = req.c /\ req'.b = b /\ req'.n = n
    BY <1>0, <1>1, <1>2, ReqMoved DEF ReqOps
  <1>4. b \notin open
    BY <1>1, NoneIsNoFilter DEF HandleInv, HandleAt
  <1>5. /\ handle' \in [Buffers -> {None} \cup Filters] /\ handle'[b] = None
        /\ \A a \in Buffers \ {b} : handle'[a] = handle[a]
    BY <1>1, <1>2 DEF TypeOK
  <1>6. /\ requests' \in [Filters -> Seq({"read", "shutdown"})]
        /\ \A m \in Filters \ {n} : requests'[m] = requests[m]
    <2>1. requests \in [Filters -> Seq({"read", "shutdown"})]
      BY DEF TypeOK
    <2>2. Append(requests[n], "shutdown") \in Seq({"read", "shutdown"})
      BY <1>1, <2>1
    <2>3. QED
      BY <1>1, <1>2, <2>1, <2>2
  <1>7. TypeOK'
    BY <1>2, <1>3, <1>5, <1>6 DEF TypeOK
  <1>8. BuffersInv'
    BY <1>2, <1>5 DEF BuffersInv
  <1>9. NumbersInv'
    <2>1. ASSUME NEW m \in Filters
          PROVE  UnbornAt(m)'
      <3>1. UnbornAt(m)
        BY DEF NumbersInv
      <3>2. \A a \in Buffers : handle[a] # m => handle'[a] # m
        BY <1>5, NoneIsNoFilter
      <3>3. QED
        BY <1>1, <1>2, <1>6, <3>1, <3>2 DEF UnbornAt
    <2>2. \A a, d \in Buffers : handle'[a] = handle'[d] /\ handle'[a] # None => a = d
      BY <1>5 DEF NumbersInv
    <2>3. QED
      BY <2>1, <2>2 DEF NumbersInv
  <1>10. RequestInv'
    BY <1>1, <1>2, <1>3, <1>4, <1>5 DEF RequestInv, Attaching
  <1>11. HandleInv'
    <2>1. HandleAt(b)'
      BY <1>1, <1>2, <1>4, <1>5 DEF HandleAt, BuffersInv
    <2>2. ASSUME NEW a \in Buffers \ {b}
          PROVE  HandleAt(a)'
      BY <1>0, <1>1, <1>2, <1>5 DEF HandleInv, HandleAt
    <2>3. QED
      BY <2>1, <2>2 DEF HandleInv
  <1>12. LockInv'
    <2>1. ASSUME NEW a \in Buffers
          PROVE  LockAt(a)'
      <3>1. LockAt(a) /\ ~Clunking(a) /\ lock[a] \in {NoOne} \cup Clients
        BY <1>1 DEF LockInv, Clunking, TypeOK
      <3>2. HasFid(lock[a], a) => HasFid(lock[a], a)'
        BY <1>2 DEF HasFid
      <3>3. CASE a = b
        BY <1>2, <1>4, <1>5, <3>1, <3>2, <3>3 DEF LockAt
      <3>4. CASE a # b
        BY <1>2, <1>5, <3>1, <3>2, <3>4 DEF LockAt, MayBeUnopened
      <3>5. QED
        BY <3>3, <3>4
    <2>2. QED
      BY <1>2, <2>1 DEF LockInv
  <1>13. QueueInv'
    <2>1. ASSUME NEW m \in Filters
          PROVE  QueueAt(m)'
      <3>1. QueueAt(m)
        BY DEF QueueInv
      <3>2. \A a \in Buffers : handle[a] # m => handle'[a] # m
        BY <1>5, NoneIsNoFilter
      <3>3. CASE m = n
        BY <1>1, <1>2, <3>3 DEF QueueAt
      <3>4. CASE m # n
        BY <1>0, <1>2, <1>6, <3>1, <3>2, <3>4 DEF QueueAt
      <3>5. QED
        BY <3>3, <3>4
    <2>2. QED
      BY <2>1 DEF QueueInv
  <1>14. OwnerInv'
    <2>1. \A m \in Filters : \A a \in Buffers : handle'[a] = m => handle[a] = m
      BY <1>5, NoneIsNoFilter
    <2>2. QED
      BY <1>2, <2>1 DEF OwnerInv, OwnerAt
  <1>15. OrderInv'
    BY <1>2 DEF OrderInv
  <1>16. QED
    BY <1>7, <1>8, <1>9, <1>10, <1>11, <1>12, <1>13, <1>14, <1>15

(* A fid is given back.  Either its client held the filter, which is on its *)
(* way out now, or all that the fid was worth is the lock.                  *)
LEMMA ClunkStep ==
    ASSUME IInv, NEW c \in Clients, NEW f \in Fids, Clunk(c, f)
    PROVE  IInv'
  <1> USE DEF IInv
  <1>0. PICK b, n : b = fids[c][f].buf /\ n = handle[b]
    OBVIOUS
  <1>1. /\ req.op = "none" /\ fids[c][f] # Free /\ fids' = [fids EXCEPT ![c][f] = Free]
        /\ UNCHANGED <<leaving, known, everOpened, open, filter, scratch, closing, made,
                       listener, events, sent, got, scene>>
    BY ReqType DEF Clunk, editorVars, TypeOK
  <1>2. b \in Buffers
    BY <1>0, <1>1 DEF TypeOK, FidStates, Free
  <1>3. /\ fids' \in [Clients -> [Fids -> FidStates]]
        /\ \A d \in Clients, g \in Fids :
               IF d = c /\ g = f THEN fids'[d][g] = Free ELSE fids'[d][g] = fids[d][g]
    BY <1>1 DEF TypeOK, FidStates
  <1>4. \A d \in Clients, g \in Fids :
            fids'[d][g].st = "opened" => fids'[d][g].buf \in everOpened'
    <2>1. Free.st # "opened"
      BY DEF Free
    <2>2. QED
      BY <1>1, <1>3, <2>1 DEF LockInv
  <1>5. OrderInv'
    BY <1>1 DEF OrderInv
  <1>6. CASE HoldsFilter(c, b)
    <2>1. /\ requests' = [requests EXCEPT ![n] = Append(requests[n], "shutdown")]
          /\ handle' = [handle EXCEPT ![b] = None]
          /\ req' = Req("clunk", c, b, None) /\ lock' = lock
      BY <1>0, <1>6 DEF Clunk, Shutdown
    <2>2. b \in known /\ lock[b] = c /\ n # None /\ n \in Filters /\ handle[b] = n
      BY <1>0, <1>2, <1>6 DEF HoldsFilter, TypeOK
    <2>3. req' \in Reqs /\ req'.op = "clunk" /\ req'.c = c /\ req'.b = b
      BY <1>2, <2>1, ReqMade DEF ReqOps
    <2>4. /\ handle' \in [Buffers -> {None} \cup Filters] /\ handle'[b] = None
          /\ \A a \in Buffers \ {b} : handle'[a] = handle[a] /\ handle[a] # n
      BY <1>2, <2>1, <2>2 DEF TypeOK, NumbersInv
    <2>5. listener[n].st # "unborn" /\ (listener[n].st = "exited" \/ requests[n] = <<>>)
      BY <1>1, <1>2, <2>2 DEF NumbersInv, UnbornAt, QueueInv, QueueAt
    <2>6. /\ requests' \in [Filters -> Seq({"read", "shutdown"})]
          /\ listener[n].st = "exited" \/ requests'[n] = <<"shutdown">>
          /\ \A m \in Filters \ {n} : requests'[m] = requests[m]
      <3>1. requests \in [Filters -> Seq({"read", "shutdown"})]
        BY DEF TypeOK
      <3>2. Append(requests[n], "shutdown") \in Seq({"read", "shutdown"})
        BY <2>2, <3>1
      <3>3. Append(<<>>, "shutdown") = <<"shutdown">>
        OBVIOUS
      <3>4. QED
        BY <2>1, <2>2, <2>5, <3>1, <3>2, <3>3
    <2>7. TypeOK'
      BY <1>1, <1>3, <2>1, <2>3, <2>4, <2>6 DEF TypeOK
    <2>8. BuffersInv'
      BY <1>1, <2>4 DEF BuffersInv
    <2>9. \A m \in Filters : \A a \in Buffers : handle'[a] = m => handle[a] = m
      BY <2>4, NoneIsNoFilter
    <2>10. NumbersInv'
      <3>1. ASSUME NEW m \in Filters
            PROVE  UnbornAt(m)'
        <4>1. UnbornAt(m)
          BY DEF NumbersInv
        <4>2. QED
          BY <1>1, <2>5, <2>6, <2>9, <4>1 DEF UnbornAt
      <3>2. \A a, d \in Buffers : handle'[a] = handle'[d] /\ handle'[a] # None => a = d
        BY <2>4 DEF NumbersInv
      <3>3. QED
        BY <3>1, <3>2 DEF NumbersInv
    <2>11. RequestInv'
      BY <1>1, <2>1, <2>2, <2>3, <2>4 DEF RequestInv, Attaching
    <2>12. HandleInv'
      <3>1. HandleAt(b)'
        BY <2>3, <2>4 DEF HandleAt
      <3>2. \A a \in Buffers \ {b} : HandleAt(a)'
        BY <1>1, <2>4 DEF HandleInv, HandleAt
      <3>3. QED
        BY <3>1, <3>2 DEF HandleInv
    <2>13. LockInv'
      <3>1. LockAt(b)'
        BY <2>3, <2>4 DEF LockAt, Clunking
      <3>2. ASSUME NEW a \in Buffers \ {b}
            PROVE  LockAt(a)'
        <4>1. LockAt(a) /\ ~Clunking(a) /\ lock[a] \in {NoOne} \cup Clients
          BY <1>1 DEF LockInv, Clunking, TypeOK
        <4>2. lock[a] # NoOne =>
                  \E g \in Fids : fids'[lock[a]][g] # Free /\ fids'[lock[a]][g].buf = a
          BY <1>0, <1>3, <4>1 DEF LockAt, HasFid
        <4>3. lock[a] # NoOne => HasFid(lock[a], a)'
          BY <2>1, <4>2 DEF HasFid
        <4>4. QED
          BY <1>1, <2>1, <2>4, <4>1, <4>3 DEF LockAt, MayBeUnopened
      <3>3. QED
        BY <1>4, <3>1, <3>2 DEF LockInv
    <2>14. QueueInv'
      <3>1. QueueAt(n)'
        BY <1>1, <2>4, <2>6, NoneIsNoFilter, <2>2 DEF QueueAt
      <3>2. \A m \in Filters \ {n} : QueueAt(m)'
        BY <1>1, <2>6, <2>9 DEF QueueInv, QueueAt
      <3>3. QED
        BY <3>1, <3>2 DEF QueueInv
    <2>15. OwnerInv'
      BY <1>1, <2>1, <2>9 DEF OwnerInv, OwnerAt
    <2>16. QED
      BY <1>5, <2>7, <2>8, <2>10, <2>11, <2>12, <2>13, <2>14, <2>15
  <1>7. CASE ~HoldsFilter(c, b)
    <2>1. lock' = Unlocked(c, b) /\ handle' = handle /\ requests' = requests /\ req' = req
      BY <1>0, <1>7 DEF Clunk
    <2>2. lock[b] = c => handle[b] = None
      BY <1>2, <1>7 DEF HoldsFilter, BuffersInv
    <2>3. /\ lock' \in [Buffers -> {NoOne} \cup Clients]
          /\ lock'[b] = IF lock[b] = c THEN NoOne ELSE lock[b]
          /\ \A a \in Buffers \ {b} : lock'[a] = lock[a]
      BY <1>2, <2>1 DEF TypeOK, Unlocked
    <2>4. TypeOK'
      BY <1>1, <1>3, <2>1, <2>3 DEF TypeOK
    <2>5. BuffersInv' /\ NumbersInv'
      BY <1>1, <2>1 DEF BuffersInv, NumbersInv, UnbornAt
    <2>6. RequestInv' /\ HandleInv'
      BY <1>1, <2>1 DEF RequestInv, HandleInv, HandleAt
    <2>7. LockInv'
      <3>1. ASSUME NEW a \in Buffers
            PROVE  LockAt(a)'
        <4>1. LockAt(a) /\ ~Clunking(a) /\ lock[a] \in {NoOne} \cup Clients
          BY <1>1 DEF LockInv, Clunking, TypeOK
        <4>2. CASE lock'[a] = NoOne
          BY <1>1, <2>1, <2>2, <2>3, <4>1, <4>2 DEF LockAt, MayBeUnopened
        <4>3. CASE lock'[a] # NoOne
          <5>1. lock'[a] = lock[a] /\ lock[a] \in Clients /\ (lock[a] # c \/ a # b)
            BY <2>3, <4>1, <4>3
          <5>2. HasFid(lock[a], a)
            BY <4>1, <5>1, FsysEventsAssumption DEF LockAt
          <5>3. \E g \in Fids : fids'[lock[a]][g] # Free /\ fids'[lock[a]][g].buf = a
            BY <1>0, <1>3, <5>1, <5>2 DEF HasFid
          <5>4. HasFid(lock[a], a)'
            BY <5>1, <5>3 DEF HasFid
          <5>5. QED
            BY <1>1, <2>1, <4>1, <5>1, <5>4 DEF LockAt, MayBeUnopened
        <4>4. QED
          BY <4>2, <4>3
      <3>2. QED
        BY <1>4, <3>1 DEF LockInv
    <2>8. QueueInv'
      BY <1>1, <2>1 DEF QueueInv, QueueAt
    <2>9. OwnerInv'
      <3>1. \A m \in Filters : \A a \in Buffers : handle[a] = m => lock'[a] = lock[a]
        BY <2>2, <2>3, NoneIsNoFilter
      <3>2. QED
        BY <1>1, <2>1, <3>1 DEF OwnerInv, OwnerAt
    <2>10. QED
      BY <1>5, <2>4, <2>5, <2>6, <2>7, <2>8, <2>9
  <1>8. QED
    BY <1>6, <1>7

LEMMA ClunkEndsStep ==
    ASSUME IInv, ClunkEnds
    PROVE  IInv'
  <1> USE DEF IInv
  <1>0. PICK b, c : b = req.b /\ c = req.c
    OBVIOUS
  <1>1. /\ req.op = "clunked" /\ b \in Buffers /\ c \in Clients
        /\ lock[b] = c /\ handle[b] = None /\ filter[b] = None
    BY <1>0, ReqType DEF ClunkEnds, RequestInv, Attaching, TypeOK
  <1>2. /\ req' \in Reqs /\ req'.op = "none"
        /\ lock' = Unlocked(c, b)
        /\ UNCHANGED <<fids, leaving, known, handle, everOpened, open, filter, scratch, closing, made,
                       listener, requests, events, got, sent, scene>>
    BY <1>0, ReqOver DEF ClunkEnds, editorVars, listenerVars
  <1>3. /\ lock' \in [Buffers -> {NoOne} \cup Clients] /\ lock'[b] = NoOne
        /\ \A a \in Buffers \ {b} : lock'[a] = lock[a]
    BY <1>1, <1>2 DEF TypeOK, Unlocked
  <1>4. TypeOK'
    BY <1>2, <1>3 DEF TypeOK
  <1>5. BuffersInv' /\ NumbersInv' /\ RequestInv'
    BY <1>2 DEF BuffersInv, NumbersInv, UnbornAt, RequestInv
  <1>6. HandleInv'
    BY <1>1, <1>2 DEF HandleInv, HandleAt
  <1>7. LockInv'
    <2>1. ASSUME NEW a \in Buffers
          PROVE  LockAt(a)'
      <3>1. CASE a = b
        BY <1>1, <1>2, <1>3, <3>1 DEF LockAt
      <3>2. CASE a # b
        <4>1. LockAt(a) /\ ~Clunking(a)
          BY <1>0, <3>2 DEF LockInv, Clunking
        <4>2. QED
          BY <1>2, <1>3, <3>2, <4>1 DEF LockAt, HasFid, MayBeUnopened
      <3>3. QED
        BY <3>1, <3>2
    <2>2. QED
      BY <1>2, <2>1 DEF LockInv
  <1>8. QueueInv'
    BY <1>1, <1>2 DEF QueueInv, QueueAt
  <1>9. OwnerInv'
    <2>1. \A m \in Filters : \A a \in Buffers : handle[a] = m => lock'[a] = lock[a]
      BY <1>1, <1>3, NoneIsNoFilter
    <2>2. QED
      BY <1>2, <2>1 DEF OwnerInv, OwnerAt
  <1>10. OrderInv'
    BY <1>2 DEF OrderInv
  <1>11. QED
    BY <1>4, <1>5, <1>6, <1>7, <1>8, <1>9, <1>10

(* Nothing but who is leaving changes, or nothing at all. *)
LEMMA FrameStep ==
    ASSUME IInv, leaving' \subseteq Clients,
           UNCHANGED <<fids, req, fsysVars, editorVars, made, listenerVars, sent, scene>>
    PROVE  IInv'
  <1> USE DEF IInv
  <1>1. UNCHANGED <<fids, req, known, handle, lock, everOpened, open, filter, scratch, closing, made,
                    listener, requests, events, got, sent, scene>>
    BY DEF fsysVars, editorVars, listenerVars
  <1>2. TypeOK'
    BY <1>1 DEF TypeOK
  <1>3. BuffersInv' /\ NumbersInv'
    BY <1>1 DEF BuffersInv, NumbersInv, UnbornAt
  <1>4. RequestInv' /\ HandleInv'
    BY <1>1 DEF RequestInv, Attaching, HasFid, MayBeUnopened, HandleInv, HandleAt
  <1>5. LockInv' /\ QueueInv'
    BY <1>1 DEF LockInv, LockAt, Clunking, HasFid, MayBeUnopened, QueueInv, QueueAt
  <1>6. OwnerInv' /\ OrderInv'
    <2>1. OwnerInv'
      BY <1>1 DEF OwnerInv, OwnerAt
    <2>2. OrderInv'
      BY <1>1 DEF OrderInv
    <2>3. QED
      BY <2>1, <2>2
  <1>7. QED
    BY <1>2, <1>3, <1>4, <1>5, <1>6

-----------------------------------------------------------------------------
(* The invariant holds at first, and every step keeps it. *)
LEMMA InitIInv == Init => IInv
  <1> SUFFICES ASSUME Init PROVE IInv
    OBVIOUS
  <1>1. scene.buffers \subseteq Buffers
    BY FsysEventsAssumption DEF Init
  <1>2. req \in Reqs /\ req.op = "none"
    BY ReqOver DEF Init
  <1>3. Free \in FidStates /\ Free.st # "opened"
    BY DEF Free, FidStates
  <1>4. TypeOK
    <2>1. /\ listener \in [Filters -> Listeners]
          /\ fids \in [Clients -> [Fids -> FidStates]]
      BY <1>3, ListenerMade DEF Init
    <2>2. QED
      BY <1>1, <1>2, <2>1, FsysEventsAssumption DEF Init, TypeOK
  <1>5. BuffersInv
    BY DEF Init, BuffersInv
  <1>6. NumbersInv
    BY ListenerMade, NoneIsNoFilter DEF Init, NumbersInv, UnbornAt
  <1>7. RequestInv
    BY <1>2 DEF RequestInv
  <1>8. HandleInv
    BY DEF Init, HandleInv, HandleAt
  <1>9. LockInv
    BY <1>3 DEF Init, LockInv, LockAt
  <1>10. QueueInv
    BY DEF Init, QueueInv, QueueAt
  <1>11. OwnerInv
    BY ListenerMade, NoneIsNoFilter DEF Init, OwnerInv, OwnerAt, AllBy
  <1>12. OrderInv
    BY DEF Init, OrderInv, InOrder
  <1>13. QED
    BY <1>4, <1>5, <1>6, <1>7, <1>8, <1>9, <1>10, <1>11, <1>12 DEF IInv

LEMMA NextIInv == IInv /\ [Next]_vars => IInv'
  <1> SUFFICES ASSUME IInv, [Next]_vars PROVE IInv'
    OBVIOUS
  <1>0. TypeOK /\ \A b \in Buffers : filter[b] \in {None} \cup Filters
    BY DEF IInv, TypeOK
  <1>1. CASE UserInput
    <2>1. PICK b \in Buffers : Notify(filter[b])
      BY <1>1 DEF UserInput, IInv, TypeOK
    <2>2. filter[b] \in Filters
      BY <1>0, <2>1 DEF Notify
    <2>3. QED
      BY <2>1, <2>2, NotifyStep
  <1>2. CASE ScratchInput
    <2>1. scratch \in Filters
      BY <1>2 DEF ScratchInput, Notify, IInv, TypeOK
    <2>2. QED
      BY <1>2, <2>1, NotifyStep DEF ScratchInput
  <1>3. CASE EditorServes
    BY <1>3, EditorAddsStep, EditorRemovesStep DEF EditorServes
  <1>4. CASE Continue
    BY <1>4, AttachedContinuesStep, ReadFailsStep, ClunkEndsStep DEF Continue
  <1>5. CASE OtherRequest
    BY <1>5, OtherRequestStep
  <1>6. ASSUME NEW b \in scene.buffers, DeleteBuffer(b) PROVE IInv'
    BY <1>0, <1>6, SceneType, DeleteBufferStep
  <1>7. ASSUME NEW n \in Filters, ListenerStep(n) PROVE IInv'
    BY <1>7, ListenerImmediateStep, ListenerBlocksStep, ListenerEventStep, ListenerStops
       DEF ListenerStep
  <1>8. ASSUME NEW c \in Clients, Disconnect(c) PROVE IInv'
    <2>1. leaving' \subseteq Clients
      BY <1>0, <1>8 DEF Disconnect, TypeOK
    <2>2. QED
      BY <1>8, <2>1, FrameStep DEF Disconnect
  <1>9. ASSUME NEW c \in Clients, Leave(c) PROVE IInv'
    BY <1>9, ClunkStep DEF Leave
  <1>10. ASSUME NEW c \in Clients, NEW f \in scene.fids[c],
                Walk(c, f) \/ Open(c, f) \/ ReadAttaches(c, f) \/ ReadPending(c, f) \/ Clunk(c, f)
         PROVE  IInv'
    <2>1. f \in Fids
      BY <1>0, SceneType
    <2>2. QED
      BY <1>10, <2>1, WalkStep, OpenStep, ReadAttachesStep, ReadPendingStep, ClunkStep
  <1>11. CASE UNCHANGED vars
    <2>1. leaving' \subseteq Clients
      BY <1>0, <1>11 DEF vars, TypeOK
    <2>2. QED
      BY <1>11, <2>1, FrameStep DEF vars
  <1>12. QED
    BY <1>1, <1>2, <1>3, <1>4, <1>5, <1>6, <1>7, <1>8, <1>9, <1>10, <1>11 DEF Next

LEMMA SpecIInv == Spec => []IInv
  BY InitIInv, NextIInv, PTL DEF Spec

(* Between requests the filter of every buffer, the handle, the listener    *)
(* and the lock on the event file tell the same story, whatever clients,    *)
(* buffers and listeners do in whatever order: a read that attaches while   *)
(* the buffer is closed, a clunk or a lost connection at any point of it.   *)
(* Clients that read an event file without opening it are left out: nobody  *)
(* holds the lock on what they attach (QidCheck, attach_input_filter).      *)
THEOREM FilterStory == Spec => []("unopened_reads" \notin scene.features => FilterInv)
  <1>1. IInv => ("unopened_reads" \notin scene.features => FilterInv)
    <2> SUFFICES ASSUME IInv, "unopened_reads" \notin scene.features
                 PROVE  FilterInv
      OBVIOUS
    <2> USE DEF IInv
    <2>1. req = NoReq => req.op = "none"
      BY ReqOver
    <2>2. FilterHasReader
      <3> SUFFICES ASSUME req = NoReq, NEW b \in open, filter[b] # None
                   PROVE  /\ handle[b] = filter[b]
                          /\ listener[filter[b]].st \in {"idle", "waiting"}
                          /\ \E f \in Fids : lock[b] \in Clients /\ fids[lock[b]][f].buf = b
        BY DEF FilterHasReader
      <3>1. b \in Buffers /\ HandleAt(b) /\ LockAt(b) /\ lock[b] \in {NoOne} \cup Clients
        BY DEF TypeOK, HandleInv, LockInv
      <3>2. handle[b] = filter[b]
        BY <2>1, <3>1 DEF HandleAt
      <3>3. lock[b] # NoOne /\ HasFid(lock[b], b)
        BY <2>1, <3>1, <3>2 DEF LockAt, Clunking, MayBeUnopened
      <3>4. QED
        BY <3>1, <3>2, <3>3 DEF HandleAt, HasFid
    <2>3. ReaderHasFilter
      BY <2>1 DEF ReaderHasFilter, HandleInv, HandleAt, LockInv, LockAt, Clunking, TypeOK
    <2>4. QED
      BY <2>2, <2>3 DEF FilterInv
  <1>2. QED
    BY <1>1, SpecIInv, PTL

(* The events of a filter go to one client, each once and in order, however *)
(* clients contend for the file and whichever of the two ways of answering  *)
(* a read the listener takes (run_threaded_input_listener, Cids).           *)
THEOREM EventsToOneReader == Spec => []EventsExclusive
  <1>1. IInv => EventsExclusive
    <2> SUFFICES ASSUME IInv, NEW n \in Filters
                 PROVE  /\ \A i, j \in 1 .. Len(got[n]) : got[n][i].by = got[n][j].by
                        /\ [i \in 1 .. Len(got[n]) |-> got[n][i].evt] \o events[n]
                               = [i \in 1 .. sent[n] |-> i]
      BY DEF EventsExclusive
    <2>1. \A i, j \in 1 .. Len(got[n]) : got[n][i].by = got[n][j].by
      BY DEF IInv, OwnerInv, OwnerAt, AllBy
    <2>2. /\ InOrder(got[n], events[n], sent[n])
          /\ got[n] \in Seq(Reads) /\ events[n] \in Seq(Nat)
      BY DEF IInv, OrderInv, TypeOK
    <2>3. QED
      BY <2>1, <2>2, OrderWhole
  <1>2. QED
    BY <1>1, SpecIInv, PTL

=============================================================================
