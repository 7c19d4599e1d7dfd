------------------------------- MODULE FsysLog ------------------------------
(***************************************************************************)
(* The log file of the fsys (src/src/fsys/log.rs): every event the editor  *)
(* reports is to be read once, in order, by every client that holds the    *)
(* file open.  Three kinds of thread take part:                            *)
(*                                                                         *)
(*   editor   --toListener-->  listener  --toFsys-->  9p request threads   *)
(*                                ^                         |              *)
(*                                +-------- pending --------+              *)
(*                                                                         *)
(* A read that finds nothing to return registers a channel in pending and  *)
(* blocks; the listener answers it with the next event, straight from the  *)
(* editor.  Requests run one at a time under the mutex around the fsys     *)
(* State, and every one except clunk first takes in what the listener has  *)
(* passed on.  The listener does not take that mutex: it runs on between a *)
(* read's taking in and its registering, which are two steps here.  In the *)
(* other requests nothing it does in between can be told from its doing it *)
(* after them.  Events are numbered in the order the editor sends them.    *)
(***************************************************************************)
EXTENDS Integers, Sequences, SequencesExt

CONSTANTS
    Clients,    \* 9p clients (ClientId)
    NoClient,   \* holder of the mutex between two requests
    MaxEvents,  \* bound: events the editor sends
    MaxReads,   \* bound: events one client reads before it opens the file again
    MaxPending  \* bound: blocked reads that the listener has not answered

ASSUME FsysLogAssumption ==
    /\ NoClient \notin Clients
    /\ MaxEvents \in Nat /\ MaxReads \in Nat /\ MaxPending \in Nat

VARIABLES
    sent,       \* number of events the editor has sent
    toListener, \* log_event_rx of the listener thread
    lpc, held,  \* where the listener is, and the event it is handling
    pending,    \* pending_rx: the blocked reads, [cid, live]
    toFsys,     \* brx of BufferNodes
    clog,       \* Log.events: per client, closed, a list of events, or pending
    reading,    \* the client that holds the mutex: its read has found nothing
                \* to return and has yet to register
    pushed,     \* history: number of events fsys has taken in
    from,       \* history: pushed when the client opened the file
    got,        \* history: what the client has read since it opened the file
    raced       \* history: the most events that were past answering, and not
                \* taken in, when a read of the client registered

vars == <<sent, toListener, lpc, held, pending, toFsys, clog, reading, pushed, from, got, raced>>
listenerVars == <<toListener, lpc, held>>
clientVars   == <<clog, reading, pushed, from, raced>>

ClientLogs == [st : {"closed", "events", "pending"}, evs : Seq(Nat)]
Closed     == [st |-> "closed", evs |-> <<>>]
Pending    == [st |-> "pending", evs |-> <<>>]
Events(s)  == [st |-> "events", evs |-> s]

Reads == [cid : Clients, live : BOOLEAN]

Init ==
    /\ sent = 0
    /\ toListener = <<>>
    /\ lpc = "recv"
    /\ held = 0
    /\ pending = <<>>
    /\ toFsys = <<>>
    /\ clog = [c \in Clients |-> Closed]
    /\ reading = NoClient
    /\ pushed = 0
    /\ from = [c \in Clients |-> 0]
    /\ got = [c \in Clients |-> <<>>]
    /\ raced = [c \in Clients |-> 0]

----------------------------------------------------------------------------
(* The editor thread.                                                       *)

EditorSend ==
    /\ sent < MaxEvents
    /\ sent' = sent + 1
    /\ toListener' = Append(toListener, sent + 1)
    /\ UNCHANGED <<lpc, held, pending, toFsys, got, clientVars>>

----------------------------------------------------------------------------
(* The listener thread (spawn_log_listener).                                *)

ListenerRecv ==
    /\ lpc = "recv"
    /\ toListener # <<>>
    /\ held' = Head(toListener)
    /\ toListener' = Tail(toListener)
    /\ lpc' = "drain"
    /\ UNCHANGED <<sent, pending, toFsys, got, clientVars>>

(* one turn of the loop over pending_rx.try_iter() *)
ListenerAnswer ==
    /\ lpc = "drain"
    /\ pending # <<>>
    /\ got' = LET p == Head(pending)
              IN  IF p.live THEN [got EXCEPT ![p.cid] = Append(@, held)] ELSE got
    /\ pending' = Tail(pending)
    /\ UNCHANGED <<sent, listenerVars, toFsys, clientVars>>

(* mutant: the listener passes the event on without answering every read *)
ListenerDrainedEarly ==
    /\ lpc = "drain"
    /\ lpc' = "forward"
    /\ UNCHANGED <<sent, toListener, held, pending, toFsys, got, clientVars>>

(* try_iter finds the channel empty *)
ListenerDrained ==
    /\ lpc = "drain"
    /\ pending = <<>>
    /\ lpc' = "forward"
    /\ UNCHANGED <<sent, toListener, held, pending, toFsys, got, clientVars>>

ListenerForward ==
    /\ lpc = "forward"
    /\ toFsys' = Append(toFsys, held)
    /\ lpc' = "recv"
    /\ UNCHANGED <<sent, toListener, held, pending, got, clientVars>>

Listener == ListenerRecv \/ ListenerAnswer \/ ListenerDrained \/ ListenerForward

----------------------------------------------------------------------------
(* The 9p requests.                                                         *)

(* mutants: nothing is dropped; new events go before the old ones *)
PushAllKeep(cl, evs) ==
    IF cl.st = "closed" \/ evs = <<>> THEN cl ELSE Events(cl.evs \o evs)

PushAllFront(cl, evs) ==
    IF cl.st = "closed" \/ evs = <<>> THEN cl
    ELSE Events(IF cl.st = "pending" THEN Tail(evs) ELSE evs \o cl.evs)

(* Log::push of every event of a sequence: a pending log drops the first    *)
(* one and stores the rest                                                  *)
PushAll(cl, evs) ==
    IF cl.st = "closed" \/ evs = <<>> THEN cl
    ELSE Events(IF cl.st = "pending" THEN Tail(evs) ELSE cl.evs \o evs)

(* BufferNodes::update, as far as it concerns the log: what the log is      *)
(* afterwards                                                               *)
Updated == [c \in Clients |-> PushAll(clog[c], toFsys)]

(* a request that finds the mutex free, and takes in what has been passed on *)
Update ==
    /\ reading = NoClient
    /\ toFsys' = <<>>
    /\ pushed' = pushed + Len(toFsys)

(* the channel of a blocked read outlives the fid it was made through *)
Orphan(c) == [i \in 1..Len(pending) |->
                 [cid |-> pending[i].cid, live |-> pending[i].live /\ pending[i].cid # c]]

Open(c) ==
    /\ Update
    /\ clog' = [Updated EXCEPT ![c] = Events(<<>>)]
    /\ from' = [from EXCEPT ![c] = pushed']
    /\ got' = [got EXCEPT ![c] = <<>>]
    /\ raced' = [raced EXCEPT ![c] = 0]
    /\ pending' = Orphan(c)
    /\ UNCHANGED <<sent, listenerVars, reading>>

Clunk(c) ==
    /\ reading = NoClient
    /\ clog[c].st # "closed"
    /\ clog' = [clog EXCEPT ![c] = Closed]
    /\ pending' = Orphan(c)
    /\ UNCHANGED <<sent, listenerVars, toFsys, reading, pushed, from, got, raced>>

(* a read takes in what has been passed on, and finds nothing to return ... *)
ReadBegins(c) ==
    /\ Update
    /\ Updated[c] = Events(<<>>)
    /\ Len(pending) < MaxPending
    /\ clog' = Updated
    /\ reading' = c
    /\ UNCHANGED <<sent, listenerVars, pending, from, got, raced>>

(* the events that blocked reads have been answered with and fsys has not   *)
(* taken in                                                                 *)
OnTheirWay == Len(toFsys) + IF lpc = "forward" THEN 1 ELSE 0

(* ... and registers, whatever the listener has done since                  *)
ReadBlocks(c) ==
    /\ reading = c
    /\ reading' = NoClient
    /\ pending' = Append(pending, [cid |-> c, live |-> TRUE])
    /\ clog' = [clog EXCEPT ![c] = Pending]
    /\ raced' = [raced EXCEPT ![c] = IF @ < OnTheirWay THEN OnTheirWay ELSE @]
    /\ UNCHANGED <<sent, listenerVars, toFsys, pushed, from, got>>

ReadImmediate(c) ==
    /\ Update
    /\ Updated[c].st = "events"
    /\ Updated[c].evs # <<>>
    /\ Len(got[c]) < MaxReads
    /\ clog' = [Updated EXCEPT ![c] = Events(<<>>)]
    /\ got' = [got EXCEPT ![c] = @ \o Updated[c].evs]
    /\ UNCHANGED <<sent, listenerVars, reading, pending, from, raced>>

(* a read while one is blocked, and every request for another file *)
OtherRequest ==
    /\ Update
    /\ clog' = Updated
    /\ UNCHANGED <<sent, listenerVars, reading, pending, from, got, raced>>

Request == \/ \E c \in Clients : \/ Open(c) \/ Clunk(c)
                              \/ ReadBegins(c) \/ ReadBlocks(c) \/ ReadImmediate(c)
           \/ OtherRequest

Next == EditorSend \/ Listener \/ Request

Spec == Init /\ [][Next]_vars

(* The listener is a thread that only ever waits for an event.              *)
FairSpec == Spec /\ WF_vars(Listener)

----------------------------------------------------------------------------
(* The channels carry event numbers and every client has a log, of the      *)
(* three shapes of the code: closed, with events, or pending.               *)
TypeOK ==
    /\ sent \in Nat
    /\ toListener \in Seq(Nat)
    /\ lpc \in {"recv", "drain", "forward"}
    /\ held \in Nat
    /\ pending \in Seq(Reads)
    /\ toFsys \in Seq(Nat)
    /\ clog \in [Clients -> ClientLogs]
    /\ reading \in Clients \cup {NoClient}
    /\ pushed \in Nat
    /\ from \in [Clients -> Nat]
    /\ got \in [Clients -> Seq(Nat)]
    /\ raced \in [Clients -> Nat]

(* the events after the f-th, up to the g-th *)
Run(f, g) == [i \in 1..(g - f) |-> f + i]

(* what client c has read, and what fsys keeps for it, is every event since *)
(* it opened the log, once and in order                                     *)
ExactFor(c) ==
    LET s == got[c] \o clog[c].evs
    IN  clog[c].st # "closed" => s = Run(from[c], from[c] + Len(s))

(* Every client reads every event since it opened the log, once and in      *)
(* order: what Log::push's dropping of an event is for.                     *)
LogExact == \A c \in Clients : ExactFor(c)

(* ... and it does, for every client whose reads all registered with no     *)
(* event past answering but not taken in.                                   *)
LogExactUnlessRaced == \A c \in Clients : raced[c] = 0 => ExactFor(c)

(* what client c reads never goes back to an older event, starts after its  *)
(* open, and has no event more than twice                                   *)
InOrderFor(c) ==
    clog[c].st # "closed" =>
        LET s == got[c] \o clog[c].evs
        IN  /\ \A i \in 1..Len(s) : s[i] > from[c]
            /\ \A i \in 1..Len(s) - 1 : s[i] <= s[i + 1]
            /\ \A i \in 1..Len(s) - 2 : s[i] < s[i + 2]

(* The log file is read in the order of the events: what a reader of the    *)
(* file takes for granted.                                                  *)
LogAlwaysInOrder == \A c \in Clients : InOrderFor(c)

(* ... and it is, as long as no read registered past more than one event:   *)
(* a single event in that window costs one event and repeats another.       *)
LogInOrder == \A c \in Clients : raced[c] <= 1 => InOrderFor(c)

Blocked(c) == \E i \in 1..Len(pending) : pending[i].cid = c /\ pending[i].live
(* A read that Log::events_since_last_read blocked, and that has an event   *)
(* coming, is answered (or its file closed).                                *)
BlockedReadAnswered ==
    \A c \in Clients : Blocked(c) /\ toListener # <<>> ~> ~Blocked(c)

----------------------------------------------------------------------------
(* The inductive invariant behind LogExactUnlessRaced.                      *)

(* the last event the listener has passed on, and the last it has taken *)
Forwarded == pushed + Len(toFsys)
Taken     == IF lpc = "recv" THEN Forwarded ELSE Forwarded + 1

(* the channels and the listener hold consecutive events *)
PipeInv ==
    /\ toFsys = Run(pushed, Forwarded)
    /\ lpc # "recv" => held = Taken
    /\ Taken <= sent
    /\ toListener = Run(Taken, sent)

(* the read that holds the mutex has found its log empty *)
ReadingInv == reading # NoClient => clog[reading] = Events(<<>>)

(* a live blocked read belongs to a pending log, and is its only one *)
LiveInv(c) ==
    \A i \in 1..Len(pending) :
        pending[i].cid = c /\ pending[i].live =>
            /\ clog[c].st = "pending"
            /\ \A j \in 1..Len(pending) : pending[j].cid = c /\ pending[j].live => j = i

(* where the events up to the last one pushed are; while a read is blocked  *)
(* nothing is on its way to fsys, and once it has been answered the answer  *)
(* is on its way and will be dropped there                                  *)
WhereInv(c) ==
    /\ from[c] <= pushed
    /\ clog[c].st = "events" =>
          got[c] \o clog[c].evs = Run(from[c], pushed)
    /\ clog[c].st = "pending" => clog[c].evs = <<>>
    /\ clog[c].st = "pending" /\ Blocked(c) =>
          /\ got[c] = Run(from[c], pushed)
          /\ toFsys = <<>>
          /\ lpc # "forward"
    /\ clog[c].st = "pending" /\ ~Blocked(c) =>
          /\ got[c] = Run(from[c], pushed + 1)
          /\ toFsys # <<>> \/ lpc # "recv"

ClientInv == \A c \in Clients : raced[c] = 0 => LiveInv(c) /\ WhereInv(c)

(* Every event is in one place, or on its way to a log that will drop it.   *)
LogInv == PipeInv /\ ReadingInv /\ ClientInv
=============================================================================
