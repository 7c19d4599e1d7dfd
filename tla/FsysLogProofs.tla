--------------------------- MODULE FsysLogProofs ----------------------------
(***************************************************************************)
(* Proofs about the log file of the fsys, for any set of clients and any   *)
(* bounds: the types, that a client whose reads all registered with no      *)
(* event past answering reads every event once and in order, and that with *)
(* at most one such event none is read out of order or more than twice.    *)
(***************************************************************************)
EXTENDS FsysLog, TLAPS

(* Facts about runs of consecutive event numbers. *)

LEMMA RunType ==
    ASSUME NEW f \in Nat, NEW g \in Nat, f <= g
    PROVE  /\ Run(f, g) \in Seq(Nat)
           /\ Len(Run(f, g)) = g - f
           /\ Run(f, g) = <<>> <=> f = g
  <1>1. Run(f, g) \in Seq(Nat) /\ Len(Run(f, g)) = g - f
    BY DEF Run
  <1>2. QED
    BY <1>1 DEF Run

LEMMA RunAppend ==
    ASSUME NEW f \in Nat, NEW g \in Nat, f <= g
    PROVE  Append(Run(f, g), g + 1) = Run(f, g + 1)
  BY DEF Run

LEMMA RunConcat ==
    ASSUME NEW f \in Nat, NEW g \in Nat, NEW h \in Nat, f <= g, g <= h
    PROVE  Run(f, g) \o Run(g, h) = Run(f, h)
  BY DEF Run

LEMMA RunConcatNext ==
    ASSUME NEW f \in Nat, NEW g \in Nat, NEW h \in Nat, f <= g, g < h
    PROVE  Run(f, g + 1) \o Run(g + 1, h) = Run(f, h)
  <1>1. g + 1 \in Nat /\ f <= g + 1 /\ g + 1 <= h
    OBVIOUS
  <1>2. QED
    BY <1>1, RunConcat

LEMMA RunTail ==
    ASSUME NEW f \in Nat, NEW g \in Nat, f < g
    PROVE  /\ Head(Run(f, g)) = f + 1
           /\ Tail(Run(f, g)) = Run(f + 1, g)
  <1> DEFINE r == Run(f, g)
  <1>1. r \in Seq(Nat) /\ Len(r) = g - f /\ \A i \in 1..(g - f) : r[i] = f + i
    BY RunType DEF Run
  <1>2. Tail(r) \in Seq(Nat) /\ Len(Tail(r)) = g - (f + 1)
    BY <1>1
  <1>3. \A i \in 1..(g - (f + 1)) : Tail(r)[i] = (f + 1) + i
    BY <1>1
  <1>4. Tail(r) = Run(f + 1, g)
    BY <1>2, <1>3 DEF Run
  <1>5. QED
    BY <1>1, <1>4

LEMMA ConcatAssoc ==
    ASSUME NEW r \in Seq(Nat), NEW s \in Seq(Nat), NEW t \in Seq(Nat)
    PROVE  r \o (s \o t) = (r \o s) \o t
  BY SMTT(30)

LEMMA ConcatEmpty ==
    ASSUME NEW s \in Seq(Nat)
    PROVE  s \o <<>> = s
  OBVIOUS

(* What the helpers of the actions return. *)

LEMMA PushAllType ==
    ASSUME NEW cl \in ClientLogs, NEW evs \in Seq(Nat)
    PROVE  PushAll(cl, evs) \in ClientLogs
  BY DEF PushAll, ClientLogs, Events

LEMMA UpdatedType ==
    ASSUME TypeOK
    PROVE  Updated \in [Clients -> ClientLogs]
  BY PushAllType DEF Updated, TypeOK

LEMMA OrphanType ==
    ASSUME TypeOK, NEW c
    PROVE  /\ Orphan(c) \in Seq(Reads)
           /\ Len(Orphan(c)) = Len(pending)
           /\ \A i \in 1..Len(pending) :
                 /\ Orphan(c)[i].cid = pending[i].cid
                 /\ Orphan(c)[i].live <=> (pending[i].live /\ pending[i].cid # c)
  <1>1. Len(pending) \in Nat /\ \A i \in 1..Len(pending) : pending[i] \in Reads
    BY DEF TypeOK
  <1>2. \A i \in 1..Len(pending) :
           [cid |-> pending[i].cid, live |-> pending[i].live /\ pending[i].cid # c] \in Reads
    BY <1>1 DEF Reads
  <1>3. Orphan(c) \in Seq(Reads) /\ Len(Orphan(c)) = Len(pending)
    BY <1>1, <1>2 DEF Orphan
  <1>4. QED
    BY <1>1, <1>3 DEF Orphan

(* Every variable keeps its type: what the channels of the fsys carry, and  *)
(* the state of every client's log.                                         *)
THEOREM TypeCorrect == Spec => []TypeOK
  <1>1. Init => TypeOK
    BY DEF Init, TypeOK, ClientLogs, Closed
  <1>2. TypeOK /\ [Next]_vars => TypeOK'
    <2> SUFFICES ASSUME TypeOK, [Next]_vars
                 PROVE  TypeOK'
      OBVIOUS
    <2> USE DEF TypeOK, listenerVars, clientVars
    <2>1. CASE EditorSend
      BY <2>1 DEF EditorSend
    <2>2. CASE ListenerRecv
      BY <2>2 DEF ListenerRecv
    <2>3. CASE ListenerAnswer
      <3>1. Head(pending) \in Reads /\ Tail(pending) \in Seq(Reads)
        BY <2>3 DEF ListenerAnswer
      <3>2. got' \in [Clients -> Seq(Nat)]
        BY <2>3, <3>1, SMTT(30) DEF ListenerAnswer, Reads
      <3>3. QED
        BY <2>3, <3>1, <3>2 DEF ListenerAnswer
    <2>4. CASE ListenerDrained
      BY <2>4 DEF ListenerDrained
    <2>5. CASE ListenerForward
      BY <2>5 DEF ListenerForward
    <2>6. ASSUME NEW c \in Clients, Open(c)
          PROVE  TypeOK'
      BY <2>6, UpdatedType, OrphanType, SMTT(30) DEF Open, Update, Events, ClientLogs
    <2>7. ASSUME NEW c \in Clients, Clunk(c)
          PROVE  TypeOK'
      BY <2>7, OrphanType DEF Clunk, Closed, ClientLogs
    <2>8a. ASSUME NEW c \in Clients, ReadBegins(c)
           PROVE  TypeOK'
      BY <2>8a, UpdatedType DEF ReadBegins, Update
    <2>8b. ASSUME NEW c \in Clients, ReadBlocks(c)
           PROVE  TypeOK'
      <3>1. OnTheirWay \in Nat
        BY DEF OnTheirWay
      <3>2. raced' \in [Clients -> Nat]
        BY <2>8b, <3>1 DEF ReadBlocks
      <3>3. QED
        BY <2>8b, <3>2 DEF ReadBlocks, Pending, ClientLogs, Reads
    <2>9. ASSUME NEW c \in Clients, ReadImmediate(c)
          PROVE  TypeOK'
      BY <2>9, UpdatedType, SMTT(30) DEF ReadImmediate, Update, Events, ClientLogs
    <2>10. CASE OtherRequest
      BY <2>10, UpdatedType DEF OtherRequest, Update
    <2>11. CASE UNCHANGED vars
      BY <2>11 DEF vars
    <2>12. QED
      BY <2>1, <2>2, <2>3, <2>4, <2>5, <2>6, <2>7, <2>8a, <2>8b, <2>9, <2>10, <2>11
         DEF Next, Listener, Request
  <1>3. QED
    BY <1>1, <1>2, PTL DEF Spec

----------------------------------------------------------------------------
(* The invariant is inductive: first the channels ...                       *)

LEMMA PipeFacts ==
    ASSUME TypeOK
    PROVE  /\ pushed \in Nat /\ sent \in Nat /\ Len(toFsys) \in Nat
           /\ Forwarded \in Nat /\ Taken \in Nat /\ pushed <= Forwarded
           /\ toFsys = <<>> <=> Forwarded = pushed
  <1>1. pushed \in Nat /\ sent \in Nat /\ Len(toFsys) \in Nat /\ (toFsys = <<>> <=> Len(toFsys) = 0)
    BY DEF TypeOK
  <1>2. QED
    BY <1>1 DEF Forwarded, Taken

LEMMA PipeStep ==
    ASSUME TypeOK, PipeInv, [Next]_vars
    PROVE  PipeInv'
  <1> USE DEF listenerVars, clientVars
  <1>1. CASE EditorSend
    <2>1. UNCHANGED <<Forwarded, Taken, toFsys, pushed, lpc, held>> /\ sent' = sent + 1
      BY <1>1 DEF EditorSend, Forwarded, Taken
    <2>2. toListener' = Run(Taken, sent + 1)
      BY <1>1, PipeFacts, RunAppend DEF EditorSend, PipeInv
    <2>3. QED
      BY <2>1, <2>2, PipeFacts DEF PipeInv
  <1>2. CASE ListenerRecv
    <2>1. /\ UNCHANGED <<Forwarded, toFsys, pushed, sent>>
          /\ Taken = Forwarded /\ Taken' = Taken + 1
      BY <1>2 DEF ListenerRecv, Forwarded, Taken
    <2>2. Taken < sent
      BY <1>2, PipeFacts, RunType DEF ListenerRecv, PipeInv
    <2>3. held' = Taken + 1 /\ toListener' = Run(Taken + 1, sent)
      BY <1>2, <2>2, PipeFacts, RunTail DEF ListenerRecv, PipeInv
    <2>4. QED
      BY <2>1, <2>2, <2>3, PipeFacts DEF PipeInv
  <1>3. CASE ListenerAnswer
    BY <1>3 DEF ListenerAnswer, PipeInv, Forwarded, Taken
  <1>4. CASE ListenerDrained
    BY <1>4 DEF ListenerDrained, PipeInv, Forwarded, Taken
  <1>5. CASE ListenerForward
    <2>1. /\ lpc = "forward" /\ lpc' = "recv"
          /\ UNCHANGED <<pushed, sent, toListener, held>>
          /\ Taken = Forwarded + 1
      BY <1>5 DEF ListenerForward, Taken
    <2>2. Forwarded' = Forwarded + 1 /\ Taken' = Taken
      BY <1>5, <2>1, PipeFacts DEF ListenerForward, Taken, Forwarded, TypeOK
    <2>3. toFsys' = Run(pushed, Forwarded + 1)
      <3>1. toFsys' = Append(toFsys, held)
        BY <1>5 DEF ListenerForward
      <3>2. toFsys = Run(pushed, Forwarded) /\ held = Forwarded + 1
        BY <2>1 DEF PipeInv
      <3>3. Append(Run(pushed, Forwarded), Forwarded + 1) = Run(pushed, Forwarded + 1)
        BY PipeFacts, RunAppend
      <3>4. QED
        BY ONLY <3>1, <3>2, <3>3
    <2>4. QED
      BY <2>1, <2>2, <2>3, PipeFacts DEF PipeInv
  <1>6. CASE Update /\ UNCHANGED <<sent, toListener, lpc, held>>
    <2>1. Forwarded' = Forwarded /\ Taken' = Taken /\ pushed' = Forwarded /\ toFsys' = <<>>
      BY <1>6, PipeFacts DEF Update, Forwarded, Taken
    <2>2. Run(Forwarded, Forwarded) = <<>>
      BY PipeFacts, RunType
    <2>3. QED
      BY <1>6, <2>1, <2>2 DEF PipeInv
  <1>7. ASSUME NEW c \in Clients, Clunk(c)
        PROVE  PipeInv'
    BY <1>7 DEF Clunk, PipeInv, Forwarded, Taken
  <1>8. ASSUME NEW c \in Clients, ReadBlocks(c)
        PROVE  PipeInv'
    BY <1>8 DEF ReadBlocks, PipeInv, Forwarded, Taken
  <1>9. CASE UNCHANGED vars
    BY <1>9 DEF vars, PipeInv, Forwarded, Taken
  <1>10. QED
    BY <1>1, <1>2, <1>3, <1>4, <1>5, <1>6, <1>7, <1>8, <1>9
       DEF Next, Listener, Request, Open, ReadBegins, ReadImmediate, OtherRequest

LEMMA ReadingStep ==
    ASSUME TypeOK, ReadingInv, [Next]_vars
    PROVE  ReadingInv'
  <1> USE DEF listenerVars, clientVars
  <1>1. ASSUME UNCHANGED <<clog, reading>> PROVE ReadingInv'
    BY <1>1 DEF ReadingInv
  <1>2. ASSUME NEW c \in Clients, ReadBegins(c) PROVE ReadingInv'
    BY <1>2 DEF ReadBegins, ReadingInv
  <1>3. ASSUME NEW c \in Clients, ReadBlocks(c) PROVE ReadingInv'
    BY <1>3 DEF ReadBlocks, ReadingInv
  <1>4. ASSUME reading' = NoClient PROVE ReadingInv'
    BY <1>4 DEF ReadingInv
  <1>5. QED
    BY <1>1, <1>2, <1>3, <1>4
       DEF Next, Listener, Request, EditorSend, ListenerRecv, ListenerAnswer, ListenerDrained,
           ListenerForward, Open, Update, Clunk, ReadImmediate, OtherRequest, vars

(* ... then the logs.  What a request finds after it has taken in what the  *)
(* listener passed on:                                                      *)
LEMMA UpdateFinds ==
    ASSUME TypeOK, PipeInv, NEW c \in Clients, LiveInv(c), WhereInv(c)
    PROVE  /\ from[c] <= Forwarded
           /\ Updated[c].st = "events" =>
                 got[c] \o Updated[c].evs = Run(from[c], Forwarded)
           /\ Updated[c].st = "pending" => toFsys = <<>> /\ Updated[c] = clog[c]
           /\ Blocked(c) => Updated[c].st = "pending"
  <1>0. /\ from[c] \in Nat /\ from[c] <= pushed /\ from[c] <= Forwarded
        /\ toFsys \in Seq(Nat) /\ toFsys = Run(pushed, Forwarded)
    BY PipeFacts DEF TypeOK, WhereInv, PipeInv
  <1>1. /\ clog[c].st \in {"closed", "events", "pending"}
        /\ clog[c].evs \in Seq(Nat) /\ got[c] \in Seq(Nat)
    BY DEF TypeOK, ClientLogs
  <1>2. Updated[c] = PushAll(clog[c], toFsys)
    BY DEF Updated
  <1>3. Blocked(c) => clog[c].st = "pending" /\ toFsys = <<>>
    BY DEF Blocked, LiveInv, WhereInv
  <1>4. CASE toFsys = <<>>
    <2>1. Updated[c] = clog[c] /\ Forwarded = pushed
      BY <1>2, <1>4, PipeFacts DEF PushAll
    <2>2. QED
      BY <1>0, <1>3, <1>4, <2>1 DEF WhereInv
  <1>5. CASE clog[c].st = "closed"
    <2>1. Updated[c] = clog[c]
      BY <1>2, <1>5 DEF PushAll
    <2>2. QED
      BY <1>0, <1>3, <1>5, <2>1
  <1>6. CASE clog[c].st = "events" /\ toFsys # <<>>
    <2>1. Updated[c].st = "events" /\ Updated[c].evs = clog[c].evs \o toFsys
      BY <1>2, <1>6 DEF PushAll, Events
    <2>2. got[c] \o (clog[c].evs \o toFsys) = (got[c] \o clog[c].evs) \o toFsys
      BY <1>0, <1>1, ConcatAssoc
    <2>3. got[c] \o clog[c].evs = Run(from[c], pushed)
      BY <1>6 DEF WhereInv
    <2>4. Run(from[c], pushed) \o Run(pushed, Forwarded) = Run(from[c], Forwarded)
      <3>1. from[c] \in Nat /\ pushed \in Nat /\ Forwarded \in Nat /\ from[c] <= pushed /\ pushed <= Forwarded
        BY <1>0, PipeFacts
      <3>2. QED
        BY ONLY <3>1, RunConcat
    <2>5. QED
      BY <1>0, <1>3, <1>6, <2>1, <2>2, <2>3, <2>4
  <1>7. CASE clog[c].st = "pending" /\ toFsys # <<>>
    <2>1. Updated[c].st = "events" /\ Updated[c].evs = Tail(toFsys)
      BY <1>2, <1>7 DEF PushAll, Events
    <2>2. pushed < Forwarded
      BY <1>7, PipeFacts
    <2>3. Tail(toFsys) = Run(pushed + 1, Forwarded)
      BY <1>0, <2>2, PipeFacts, RunTail
    <2>4. got[c] = Run(from[c], pushed + 1)
      BY <1>3, <1>7 DEF WhereInv
    <2>5. Run(from[c], pushed + 1) \o Run(pushed + 1, Forwarded) = Run(from[c], Forwarded)
      <3>1. from[c] \in Nat /\ pushed \in Nat /\ Forwarded \in Nat /\ from[c] <= pushed
        BY <1>0, PipeFacts
      <3>2. QED
        BY ONLY <3>1, <2>2, RunConcatNext
    <2>6. QED
      BY <1>0, <1>3, <1>7, <2>1, <2>3, <2>4, <2>5
  <1>8. QED
    BY <1>1, <1>4, <1>5, <1>6, <1>7

LEMMA ClientStep ==
    ASSUME TypeOK, LogInv, [Next]_vars, NEW c \in Clients, raced'[c] = 0
    PROVE  LiveInv(c)' /\ WhereInv(c)'
  <1> USE DEF listenerVars, clientVars
  <1>0. /\ PipeInv /\ ReadingInv
        /\ raced[c] = 0 => LiveInv(c) /\ WhereInv(c)
    BY DEF LogInv, ClientInv
  <1>k. raced' = raced => LiveInv(c) /\ WhereInv(c)
    BY <1>0
  (* a step that moves nothing on its way to the logs *)
  <1>s. ASSUME UNCHANGED <<lpc, pending, toFsys, got, clog, pushed, from, raced>>
        PROVE  LiveInv(c)' /\ WhereInv(c)'
    <2>1. LiveInv(c) /\ WhereInv(c)
      BY <1>k, <1>s
    <2>2. (Blocked(c)' <=> Blocked(c)) /\ LiveInv(c)'
      BY ONLY <1>s, <2>1 DEF LiveInv, Blocked
    <2>3. WhereInv(c)'
      BY ONLY <1>s, <2>1, <2>2 DEF WhereInv
    <2>4. QED
      BY <2>2, <2>3
  (* a request that takes in what was passed on and adds nothing *)
  <1>u. ASSUME clog' = Updated, toFsys' = <<>>, pushed' = Forwarded,
               UNCHANGED <<lpc, from, raced, pending, got>>
        PROVE  LiveInv(c)' /\ WhereInv(c)'
    <2>1. Updated[c] = clog'[c]
      BY <1>u
    <2>2. LiveInv(c) /\ WhereInv(c)
      BY <1>k, <1>u
    <2>3. Blocked(c)' <=> Blocked(c)
      BY <1>u DEF Blocked
    <2>4. LiveInv(c)'
      <3>1. Blocked(c) => clog'[c].st = "pending"
        BY <1>0, <2>1, <2>2, UpdateFinds
      <3>2. pending' = pending
        BY <1>u
      <3>3. QED
        BY ONLY <2>2, <3>1, <3>2 DEF LiveInv, Blocked
    <2>5. WhereInv(c)'
      BY <1>0, <1>u, <2>2, <2>3, PipeFacts, UpdateFinds DEF WhereInv
    <2>6. QED
      BY <2>4, <2>5
  <1>1. CASE EditorSend
    BY <1>s, <1>1 DEF EditorSend
  <1>2. CASE ListenerRecv
    <2>1. UNCHANGED <<pending, toFsys, got, clog, pushed, from, raced>> /\ lpc' = "drain"
      BY <1>2 DEF ListenerRecv
    <2>2. LiveInv(c) /\ WhereInv(c)
      BY <1>k, <2>1
    <2>3. (Blocked(c)' <=> Blocked(c)) /\ LiveInv(c)'
      BY ONLY <2>1, <2>2 DEF LiveInv, Blocked
    <2>4. QED
      BY ONLY <2>1, <2>2, <2>3 DEF WhereInv
  <1>3. CASE ListenerAnswer
    <2>1. /\ lpc = "drain" /\ pending # <<>> /\ pending' = Tail(pending)
          /\ UNCHANGED <<lpc, toFsys, clog, pushed, from, raced>>
      BY <1>3 DEF ListenerAnswer
    <2>2. /\ Len(pending) \in Nat \ {0} /\ Len(pending') = Len(pending) - 1
          /\ \A i \in 1..Len(pending') : i + 1 \in 1..Len(pending) /\ pending'[i] = pending[i + 1]
      BY <2>1 DEF TypeOK
    <2>3. LiveInv(c) /\ WhereInv(c)
      BY <1>0, <2>1
    <2>4. LiveInv(c)'
      BY <2>1, <2>2, <2>3 DEF LiveInv
    <2>5. CASE pending[1].cid = c /\ pending[1].live
      <3>1. clog[c].st = "pending" /\ Blocked(c)
        BY <2>2, <2>3, <2>5 DEF LiveInv, Blocked
      <3>2. ~Blocked(c)'
        BY <2>2, <2>3, <2>5 DEF LiveInv, Blocked
      <3>3. got[c] = Run(from[c], pushed) /\ toFsys = <<>> /\ from[c] <= pushed
        BY <2>3, <3>1 DEF WhereInv
      <3>4. held = pushed + 1
        BY <1>0, <2>1, <3>3, PipeFacts DEF PipeInv, Taken
      <3>5. got'[c] = Append(got[c], held)
        BY <1>3, <2>2, <2>5, SMTT(30) DEF ListenerAnswer, TypeOK
      <3>6. got'[c] = Run(from[c], pushed + 1)
        <4>1. from[c] \in Nat /\ pushed \in Nat /\ Append(Run(from[c], pushed), pushed + 1) = Run(from[c], pushed + 1)
          BY <3>3, PipeFacts, RunAppend DEF TypeOK
        <4>2. QED
          BY ONLY <3>3, <3>4, <3>5, <4>1
      <3>7. WhereInv(c)'
        BY <2>1, <2>3, <3>1, <3>2, <3>6, PipeFacts DEF WhereInv
      <3>8. QED
        BY <2>4, <3>7
    <2>6. CASE ~(pending[1].cid = c /\ pending[1].live)
      <3>1. got'[c] = got[c]
        BY <1>3, <2>2, <2>6 DEF ListenerAnswer, TypeOK
      <3>2. Blocked(c)' <=> Blocked(c)
        <4>1. Blocked(c)' => Blocked(c)
          BY <2>2 DEF Blocked
        <4>2. ASSUME NEW i \in 1..Len(pending), pending[i].cid = c, pending[i].live
              PROVE  Blocked(c)'
          <5>1. i # 1
            BY <2>6, <4>2
          <5>2. i - 1 \in 1..Len(pending') /\ pending'[i - 1] = pending[i]
            BY <2>2, <5>1
          <5>3. QED
            BY <4>2, <5>2 DEF Blocked
        <4>3. QED
          BY <4>1, <4>2 DEF Blocked
      <3>3. QED
        BY <2>1, <2>3, <2>4, <3>1, <3>2 DEF WhereInv
    <2>7. QED
      BY <2>5, <2>6
  <1>4. CASE ListenerDrained
    <2>1. /\ pending = <<>> /\ lpc' = "forward"
          /\ UNCHANGED <<pending, toFsys, got, clog, pushed, from, raced>>
      BY <1>4 DEF ListenerDrained
    <2>2. ~Blocked(c) /\ ~Blocked(c)'
      BY <2>1 DEF Blocked
    <2>3. LiveInv(c)' /\ WhereInv(c)
      BY <1>0, <2>1 DEF LiveInv
    <2>4. QED
      BY <2>1, <2>2, <2>3 DEF WhereInv
  <1>5. CASE ListenerForward
    <2>1. /\ lpc = "forward" /\ toFsys' = Append(toFsys, held) /\ lpc' = "recv"
          /\ UNCHANGED <<pending, got, clog, pushed, from, raced>>
      BY <1>5 DEF ListenerForward
    <2>2. toFsys' # <<>>
      <3>1. toFsys \in Seq(Nat) /\ held \in Nat
        BY DEF TypeOK
      <3>2. Len(toFsys') = Len(toFsys) + 1
        BY <2>1, <3>1
      <3>3. QED
        BY <3>1, <3>2
    <2>3. LiveInv(c) /\ WhereInv(c)
      BY <1>0, <2>1
    <2>4. LiveInv(c)' /\ (Blocked(c)' <=> Blocked(c))
      BY <2>1, <2>3 DEF LiveInv, Blocked
    <2>5. ~Blocked(c)
      BY <2>1, <2>3 DEF LiveInv, WhereInv, Blocked
    <2>6. QED
      BY <2>1, <2>2, <2>3, <2>4, <2>5 DEF WhereInv
  <1>6. ASSUME NEW d \in Clients, Open(d)
        PROVE  LiveInv(c)' /\ WhereInv(c)'
    <2>1. /\ toFsys' = <<>> /\ pushed' = Forwarded /\ pending' = Orphan(d) /\ lpc' = lpc
      BY <1>6 DEF Open, Update, Forwarded
    <2>2. CASE c = d
      <3>1. ~Blocked(c)' /\ LiveInv(c)'
        BY <2>1, <2>2, OrphanType DEF Blocked, LiveInv
      <3>2. clog'[c] = Events(<<>>) /\ from'[c] = pushed' /\ got'[c] = <<>>
        BY <1>6, <2>2 DEF Open, TypeOK, Updated
      <3>3. Run(pushed', pushed') = <<>>
        BY <2>1, PipeFacts, RunType
      <3>4. QED
        BY <2>1, <3>1, <3>2, <3>3, PipeFacts DEF WhereInv, Events
    <2>3. CASE c # d
      <3>1. clog'[c] = Updated[c] /\ UNCHANGED <<from[c], got[c], raced[c]>>
        BY <1>6, <2>3 DEF Open, TypeOK, Updated
      <3>2. LiveInv(c) /\ WhereInv(c)
        BY <1>0, <3>1
      <3>3. \A i \in 1..Len(pending) : (pending'[i].cid = c /\ pending'[i].live) <=> (pending[i].cid = c /\ pending[i].live)
        BY <2>1, <2>3, OrphanType
      <3>4. Blocked(c)' <=> Blocked(c)
        BY <2>1, <3>3, OrphanType DEF Blocked
      <3>5. LiveInv(c)'
        <4>1. Blocked(c) => clog'[c].st = "pending"
          BY <1>0, <3>1, <3>2, UpdateFinds
        <4>2. Len(pending') = Len(pending)
          BY <2>1, OrphanType
        <4>3. QED
          BY <3>2, <3>3, <3>4, <4>1, <4>2 DEF LiveInv, Blocked
      <3>6. WhereInv(c)'
        BY <1>0, <2>1, <3>1, <3>2, <3>4, PipeFacts, UpdateFinds DEF WhereInv
      <3>7. QED
        BY <3>5, <3>6
    <2>4. QED
      BY <2>2, <2>3
  <1>7. ASSUME NEW d \in Clients, Clunk(d)
        PROVE  LiveInv(c)' /\ WhereInv(c)'
    <2>1. pending' = Orphan(d) /\ UNCHANGED <<lpc, toFsys, pushed, from, got, raced>>
      BY <1>7 DEF Clunk
    <2>2. LiveInv(c) /\ WhereInv(c)
      BY <1>0, <2>1
    <2>3. CASE c = d
      <3>1. ~Blocked(c)' /\ LiveInv(c)'
        BY <2>1, <2>3, OrphanType DEF Blocked, LiveInv
      <3>2. clog'[c] = Closed
        BY <1>7, <2>3 DEF Clunk, TypeOK
      <3>3. QED
        BY <2>1, <2>2, <3>1, <3>2 DEF WhereInv, Closed
    <2>4. CASE c # d
      <3>1. clog'[c] = clog[c]
        BY <1>7, <2>4 DEF Clunk, TypeOK
      <3>2. \A i \in 1..Len(pending) : (pending'[i].cid = c /\ pending'[i].live) <=> (pending[i].cid = c /\ pending[i].live)
        BY <2>1, <2>4, OrphanType
      <3>3. (Blocked(c)' <=> Blocked(c)) /\ LiveInv(c)'
        BY <2>1, <2>2, <3>1, <3>2, OrphanType DEF Blocked, LiveInv
      <3>4. QED
        BY <2>1, <2>2, <3>1, <3>3 DEF WhereInv
    <2>5. QED
      BY <2>3, <2>4
  <1>8a. ASSUME NEW d \in Clients, ReadBegins(d)
         PROVE  LiveInv(c)' /\ WhereInv(c)'
    BY <1>u, <1>8a DEF ReadBegins, Update, Forwarded
  <1>8. ASSUME NEW d \in Clients, ReadBlocks(d)
        PROVE  LiveInv(c)' /\ WhereInv(c)'
    <2>1. /\ UNCHANGED <<toFsys, pushed, lpc, from, got>>
          /\ pending' = Append(pending, [cid |-> d, live |-> TRUE])
          /\ clog[d] = Events(<<>>)
      <3>1. reading = d /\ d # NoClient
        BY <1>8, FsysLogAssumption DEF ReadBlocks
      <3>2. QED
        BY <1>0, <1>8, <3>1 DEF ReadBlocks, ReadingInv
    <2>r. raced[c] = 0 /\ (c = d => OnTheirWay = 0)
      <3>1. raced[c] \in Nat /\ OnTheirWay \in Nat
        BY DEF TypeOK, OnTheirWay
      <3>2. raced'[c] = IF c = d /\ raced[c] < OnTheirWay THEN OnTheirWay ELSE raced[c]
        BY <1>8 DEF ReadBlocks, TypeOK
      <3>3. QED
        BY <3>1, <3>2
    <2>2. LiveInv(c) /\ WhereInv(c)
      BY <1>0, <2>r
    <2>3. /\ Len(pending) \in Nat /\ Len(pending') = Len(pending) + 1
          /\ \A i \in 1..Len(pending) : pending'[i] = pending[i]
          /\ pending'[Len(pending) + 1] = [cid |-> d, live |-> TRUE]
      BY <2>1 DEF TypeOK
    <2>4. CASE c = d
      <3>1. lpc # "forward" /\ toFsys = <<>>
        BY <2>4, <2>r DEF OnTheirWay, TypeOK
      <3>2. clog'[c] = Pending
        BY <1>8, <2>4 DEF ReadBlocks, TypeOK
      <3>3. clog[c].st = "events" /\ clog[c].evs = <<>> /\ ~Blocked(c)
        <4>1. clog[c].st = "events" /\ clog[c].evs = <<>>
          BY <2>1, <2>4 DEF Events
        <4>2. QED
          BY <2>2, <4>1 DEF LiveInv, Blocked
      <3>4. LiveInv(c)' /\ Blocked(c)'
        BY <2>3, <2>4, <3>2, <3>3 DEF LiveInv, Blocked, Pending
      <3>5. got[c] = Run(from[c], pushed) /\ from[c] <= pushed
        <4>1. got[c] \o <<>> = Run(from[c], pushed) /\ from[c] <= pushed
          BY <2>2, <3>3 DEF WhereInv
        <4>2. got[c] \in Seq(Nat)
          BY DEF TypeOK
        <4>3. QED
          BY <4>1, <4>2, ConcatEmpty
      <3>6. QED
        BY <2>1, <3>1, <3>2, <3>4, <3>5 DEF WhereInv, Pending
    <2>5. CASE c # d
      <3>1. clog'[c] = clog[c]
        BY <1>8, <2>5 DEF ReadBlocks, TypeOK
      <3>2. Blocked(c)' <=> Blocked(c)
        BY <2>3, <2>5 DEF Blocked
      <3>3. LiveInv(c)'
        <4>1. \A i \in 1..Len(pending') :
                 pending'[i].cid = c => i \in 1..Len(pending) /\ pending'[i] = pending[i]
          BY <2>3, <2>5
        <4>2. QED
          BY <2>2, <3>1, <4>1 DEF LiveInv
      <3>4. WhereInv(c)'
        BY <2>1, <2>2, <3>1, <3>2 DEF WhereInv
      <3>5. QED
        BY <3>3, <3>4
    <2>6. QED
      BY <2>4, <2>5
  <1>9. ASSUME NEW d \in Clients, ReadImmediate(d)
        PROVE  LiveInv(c)' /\ WhereInv(c)'
    <2>1. /\ toFsys' = <<>> /\ pushed' = Forwarded
          /\ UNCHANGED <<lpc, from, raced, pending>>
          /\ Updated[d].st = "events"
      BY <1>9 DEF ReadImmediate, Update, Forwarded
    <2>2. LiveInv(c) /\ WhereInv(c)
      BY <1>0, <2>1
    <2>3. Blocked(c)' <=> Blocked(c)
      BY <2>1 DEF Blocked
    <2>4. CASE c = d
      <3>1. clog'[c] = Events(<<>>) /\ got'[c] = got[c] \o Updated[c].evs
        BY <1>9, <2>4 DEF ReadImmediate, TypeOK, Updated
      <3>2. ~Blocked(c) /\ got'[c] = Run(from[c], Forwarded) /\ from[c] <= Forwarded
        BY <1>0, <2>1, <2>2, <2>4, <3>1, UpdateFinds
      <3>3. got'[c] \o <<>> = got'[c]
        <4>1. from[c] \in Nat
          BY DEF TypeOK
        <4>2. got'[c] \in Seq(Nat)
          BY <3>2, <4>1, PipeFacts, RunType
        <4>3. QED
          BY <4>2, ConcatEmpty
      <3>4. LiveInv(c)'
        BY <2>1, <2>3, <3>2 DEF LiveInv, Blocked
      <3>5. QED
        BY <2>1, <2>3, <3>1, <3>2, <3>3, <3>4 DEF WhereInv, Events
    <2>5. CASE c # d
      <3>1. clog'[c] = Updated[c] /\ got'[c] = got[c]
        BY <1>9, <2>5 DEF ReadImmediate, TypeOK, Updated
      <3>2. LiveInv(c)'
        <4>1. Blocked(c) => clog'[c].st = "pending"
          BY <1>0, <2>2, <3>1, UpdateFinds
        <4>2. QED
          BY ONLY <2>1, <2>2, <4>1 DEF LiveInv, Blocked
      <3>3. WhereInv(c)'
        BY <1>0, <2>1, <2>2, <2>3, <3>1, PipeFacts, UpdateFinds DEF WhereInv
      <3>4. QED
        BY <3>2, <3>3
    <2>6. QED
      BY <2>4, <2>5
  <1>10. CASE OtherRequest
    BY <1>u, <1>10 DEF OtherRequest, Update, Forwarded
  <1>11. CASE UNCHANGED vars
    BY <1>s, <1>11 DEF vars
  <1>12. QED
    BY <1>1, <1>2, <1>3, <1>4, <1>5, <1>6, <1>7, <1>8a, <1>8, <1>9, <1>10, <1>11
       DEF Next, Listener, Request

(* The invariant that relates what a client has read to what is still on    *)
(* its way, through the two channels and the listener, holds always.        *)
THEOREM LogInvariant == Spec => []LogInv
  <1>1. Init => LogInv
    <2> SUFFICES ASSUME Init PROVE LogInv
      OBVIOUS
    <2>1. Run(0, 0) = <<>>
      BY RunType
    <2>2. PipeInv
      BY <2>1 DEF Init, PipeInv, Forwarded, Taken
    <2>3. ClientInv
      BY <2>1 DEF Init, ClientInv, LiveInv, WhereInv, Closed
    <2>4. ReadingInv
      BY DEF Init, ReadingInv
    <2>5. QED
      BY <2>2, <2>3, <2>4 DEF LogInv
  <1>2. TypeOK /\ LogInv /\ [Next]_vars => LogInv'
    <2> SUFFICES ASSUME TypeOK, LogInv, [Next]_vars
                 PROVE  LogInv'
      OBVIOUS
    <2>1. PipeInv'
      BY PipeStep DEF LogInv
    <2>2. ClientInv'
      BY ClientStep DEF ClientInv
    <2>3. ReadingInv'
      BY ReadingStep DEF LogInv
    <2>4. QED
      BY <2>1, <2>2, <2>3 DEF LogInv
  <1>3. QED
    BY <1>1, <1>2, TypeCorrect, PTL DEF Spec

(* A client whose reads all registered with no event past answering but not *)
(* taken in has read every event since it opened the log, once and in order.*)
THEOREM LogReadOnceInOrder == Spec => []LogExactUnlessRaced
  <1>1. TypeOK /\ LogInv => LogExactUnlessRaced
    <2> SUFFICES ASSUME TypeOK, LogInv, NEW c \in Clients, raced[c] = 0, clog[c].st # "closed"
                 PROVE  LET s == got[c] \o clog[c].evs
                        IN  s = Run(from[c], from[c] + Len(s))
      BY DEF LogExactUnlessRaced, ExactFor
    <2>0. /\ from[c] \in Nat /\ pushed \in Nat /\ got[c] \in Seq(Nat)
          /\ clog[c].st \in {"closed", "events", "pending"}
      BY DEF TypeOK, ClientLogs
    <2>1. WhereInv(c)
      BY DEF LogInv, ClientInv
    <2>2. \E g \in Nat : from[c] <= g /\ got[c] \o clog[c].evs = Run(from[c], g)
      <3>1. CASE clog[c].st = "events"
        BY <2>0, <2>1, <3>1 DEF WhereInv
      <3>2. CASE clog[c].st = "pending"
        <4>1. got[c] \o clog[c].evs = got[c]
          <5>1. clog[c].evs = <<>>
            BY <2>1, <3>2 DEF WhereInv
          <5>2. QED
            BY <2>0, <5>1, ConcatEmpty
        <4>2. \/ got[c] = Run(from[c], pushed) /\ from[c] <= pushed
              \/ got[c] = Run(from[c], pushed + 1) /\ from[c] <= pushed + 1
          BY <2>0, <2>1, <3>2 DEF WhereInv
        <4>3. pushed + 1 \in Nat
          BY <2>0
        <4>4. QED
          BY <2>0, <4>1, <4>2, <4>3
      <3>3. QED
        BY <2>0, <3>1, <3>2
    <2>3. PICK g \in Nat : from[c] <= g /\ got[c] \o clog[c].evs = Run(from[c], g)
      BY <2>2
    <2>4. Len(got[c] \o clog[c].evs) = g - from[c]
      BY <2>0, <2>3, RunType
    <2>5. from[c] + (g - from[c]) = g
      BY <2>0, <2>3
    <2>6. QED
      BY <2>3, <2>4, <2>5
  <1>2. QED
    BY <1>1, TypeCorrect, LogInvariant, PTL

----------------------------------------------------------------------------
(* Order: a read that registered past one event makes the client miss that  *)
(* event and meet the next one twice, and no more.                          *)

(* the numbers of s are all greater than f, and none occurs more than twice *)
Rises(s, f) ==
    /\ \A i \in 1..Len(s) : s[i] > f
    /\ \A i \in 1..Len(s) - 1 : s[i] <= s[i + 1]
    /\ \A i \in 1..Len(s) - 2 : s[i] < s[i + 2]

(* nothing in s is after event p; or only its last element is, by one *)
Under(s, p)  == \A i \in 1..Len(s) : s[i] <= p
Nearly(s, p) == \A i \in 1..Len(s) : s[i] <= IF i = Len(s) THEN p + 1 ELSE p

(* the i-th blocked read will reach client c; c has two of these; never three *)
LiveAt(c, i) == i \in 1..Len(pending) /\ pending[i].cid = c /\ pending[i].live
Twice(c) == \E i, j \in Nat : i < j /\ LiveAt(c, i) /\ LiveAt(c, j)
AtMostTwo(c) ==
    \A i, j, k \in Nat : i < j /\ j < k /\ LiveAt(c, i) /\ LiveAt(c, j) => ~LiveAt(c, k)

Lives(c) == IF Twice(c) THEN 2 ELSE IF Blocked(c) THEN 1 ELSE 0

(* What can be on its way to fsys while a client has k blocked reads, its   *)
(* log being cl, the channel tf, the listener at pc.                        *)
ReadsOf(cl, tf, pc, k) ==
    \/ k = 0
    \/ /\ cl.st = "pending"
       /\ tf = <<>> \/ (Len(tf) = 1 /\ pc # "forward" /\ k = 1)
       /\ k = 2 => pc # "forward"
    \/ /\ cl = Events(<<>>)
       /\ tf = <<>> /\ pc # "forward" /\ k = 1

(* How far what the client has read (g) and what is kept for it reach, when *)
(* fsys has taken in p events, the client reads since event f and has k     *)
(* blocked reads.                                                           *)
OrderOf(g, cl, f, p, k) ==
    /\ f <= p
    /\ Rises(g \o cl.evs, f)
    /\ cl.st = "pending" => cl.evs = <<>> /\ Nearly(g, p + 1)
    /\ cl.st = "pending" /\ k = 1 => Nearly(g, p)
    /\ cl.st = "pending" /\ k = 2 => Under(g, p)
    /\ cl.st = "events" => Nearly(g \o cl.evs, p)
    /\ cl.st = "events" /\ k # 0 => Under(g \o cl.evs, p)

OrderInv(c) ==
    /\ AtMostTwo(c)
    /\ ReadsOf(clog[c], toFsys, lpc, Lives(c))
    /\ clog[c].st # "closed" => OrderOf(got[c], clog[c], from[c], pushed, Lives(c))

(* Facts about bounded, rising sequences of event numbers. *)

LEMMA UnderNearly ==
    ASSUME NEW s \in Seq(Nat), NEW p \in Nat
    PROVE  /\ Under(s, p) => Nearly(s, p)
           /\ Nearly(s, p) => Under(s, p + 1)
  <1>1. Len(s) \in Nat /\ \A i \in 1..Len(s) : s[i] \in Nat
    OBVIOUS
  <1>2. QED
    BY <1>1 DEF Under, Nearly

LEMMA RisesAppend ==
    ASSUME NEW s \in Seq(Nat), NEW f \in Nat, NEW p \in Nat, f <= p, Rises(s, f), Nearly(s, p)
    PROVE  /\ Rises(Append(s, p + 1), f)
           /\ Under(Append(s, p + 1), p + 1)
           /\ Under(s, p) => Nearly(Append(s, p + 1), p)
  <1> DEFINE n == Len(s)
             r == Append(s, p + 1)
  <1>1. /\ n \in Nat /\ Len(r) = n + 1
        /\ \A i \in 1..n : s[i] \in Nat /\ r[i] = s[i]
        /\ r[n + 1] = p + 1
    OBVIOUS
  <1> HIDE DEF n, r
  <1>2. /\ \A i \in 1..n : s[i] > f /\ s[i] <= p + 1
        /\ \A i \in 1..n : i # n => s[i] <= p
        /\ \A i \in 1..n - 1 : s[i] <= s[i + 1]
        /\ \A i \in 1..n - 2 : s[i] < s[i + 2]
    BY <1>1 DEF Rises, Nearly, n
  <1>3. ASSUME NEW i \in 1..n + 1 PROVE r[i] > f /\ r[i] <= p + 1
    <2>1. CASE i = n + 1
      BY <1>1, <2>1
    <2>2. CASE i # n + 1
      <3>1. i \in 1..n
        BY <1>1, <2>2
      <3>2. QED
        BY <1>1, <1>2, <3>1
    <2>3. QED
      BY <2>1, <2>2
  <1>4. ASSUME NEW i \in 1..n PROVE r[i] <= r[i + 1]
    <2>1. CASE i = n
      BY <1>1, <1>2, <2>1
    <2>2. CASE i # n
      <3>1. i \in 1..n - 1 /\ i + 1 \in 1..n
        BY <1>1, <2>2
      <3>2. QED
        BY <1>1, <1>2, <3>1
    <2>3. QED
      BY <2>1, <2>2
  <1>5. ASSUME NEW i \in 1..n - 1 PROVE r[i] < r[i + 2]
    <2>0. i \in 1..n /\ i # n
      BY <1>1
    <2>1. CASE i = n - 1
      <3>1. i + 2 = n + 1 /\ r[i + 2] = p + 1
        BY <1>1, <2>1
      <3>2. r[i] = s[i] /\ s[i] \in Nat /\ s[i] <= p
        BY <1>1, <1>2, <2>0
      <3>3. QED
        BY <3>1, <3>2
    <2>2. CASE i # n - 1
      <3>1. i \in 1..n - 2 /\ i + 2 \in 1..n
        BY <1>1, <2>2
      <3>2. QED
        BY <1>1, <1>2, <2>0, <3>1
    <2>3. QED
      BY <2>1, <2>2
  <1>6. Rises(r, f) /\ Under(r, p + 1)
    BY <1>1, <1>3, <1>4, <1>5 DEF Rises, Under
  <1>7. ASSUME Under(s, p) PROVE Nearly(r, p)
    <2>1. \A i \in 1..n : r[i] <= p
      BY <1>1, <1>7 DEF Under, n
    <2>2. \A i \in 1..n + 1 : (i \in 1..n /\ i # n + 1) \/ i = n + 1
      BY <1>1
    <2>3. QED
      BY <1>1, <2>1, <2>2 DEF Nearly
  <1>8. QED
    BY <1>6, <1>7 DEF r

LEMMA RisesRun ==
    ASSUME NEW s \in Seq(Nat), NEW f \in Nat, NEW p \in Nat, NEW q \in Nat,
           f <= p, p < q, Rises(s, f), Nearly(s, p)
    PROVE  /\ Rises(s \o Run(p, q), f)
           /\ Under(s \o Run(p, q), q)
  <1> DEFINE n == Len(s)
             m == n + (q - p)
             r == s \o Run(p, q)
  <1>1. /\ n \in Nat /\ m \in Nat /\ Len(r) = m /\ m > n
        /\ \A i \in 1..n : s[i] \in Nat /\ r[i] = s[i]
        /\ \A i \in n + 1..m : r[i] = p + (i - n)
    BY RunType DEF Run
  <1> HIDE DEF r
  <1>2. /\ \A i \in 1..n : s[i] > f /\ s[i] <= p + 1
        /\ \A i \in 1..n : i # n => s[i] <= p
        /\ \A i \in 1..n - 1 : s[i] <= s[i + 1]
        /\ \A i \in 1..n - 2 : s[i] < s[i + 2]
    BY <1>1, SMTT(30) DEF Rises, Nearly
  <1>p. m = n + (q - p)
    OBVIOUS
  <1> HIDE DEF n, m
  <1>3. ASSUME NEW i \in 1..m PROVE r[i] > f /\ r[i] <= q
    <2>1. CASE i \in 1..n
      BY <1>1, <1>2, <2>1, SMTT(30)
    <2>2. CASE i \in n + 1..m
      <3>1. r[i] = p + (i - n)
        BY <1>1, <2>2
      <3>2. QED
        BY <1>1, <1>p, <2>2, <3>1
    <2>3. QED
      BY <1>1, <2>1, <2>2
  <1>4. ASSUME NEW i \in 1..m - 1 PROVE r[i] <= r[i + 1]
    <2>1. CASE i < n
      <3>1. i \in 1..n - 1 /\ i \in 1..n /\ i + 1 \in 1..n
        BY <1>1, <2>1
      <3>2. QED
        BY <1>1, <1>2, <3>1
    <2>2. CASE i = n
      <3>1. i \in 1..n /\ i + 1 \in n + 1..m
        BY <1>1, <2>2
      <3>2. r[i + 1] = p + 1 /\ r[i] = s[i]
        BY <1>1, <2>2, <3>1
      <3>3. QED
        BY <1>2, <3>1, <3>2
    <2>3. CASE i > n
      <3>1. i \in n + 1..m /\ i + 1 \in n + 1..m
        BY <1>1, <2>3
      <3>2. r[i] = p + (i - n) /\ r[i + 1] = p + ((i + 1) - n)
        BY <1>1, <3>1
      <3>3. QED
        BY <1>1, <3>2
    <2>4. QED
      BY <1>1, <2>1, <2>2, <2>3
  <1>5. ASSUME NEW i \in 1..m - 2 PROVE r[i] < r[i + 2]
    <2>1. CASE i + 2 <= n
      <3>1. i \in 1..n - 2 /\ i \in 1..n /\ i + 2 \in 1..n
        BY <1>1, <2>1
      <3>2. QED
        BY <1>1, <1>2, <3>1
    <2>2. CASE i + 1 = n
      <3>1. i \in 1..n /\ i # n /\ i + 2 \in n + 1..m /\ i + 2 = n + 1
        BY <1>1, <2>2
      <3>2. r[i + 2] = p + 1 /\ r[i] = s[i] /\ s[i] \in Nat /\ s[i] <= p
        BY <1>1, <1>2, <3>1
      <3>3. QED
        BY <3>2
    <2>3. CASE i = n
      <3>1. i \in 1..n /\ i + 2 \in n + 1..m
        BY <1>1, <2>3
      <3>2. r[i + 2] = p + 2 /\ r[i] = s[i] /\ s[i] \in Nat /\ s[i] <= p + 1
        BY <1>1, <1>2, <2>3, <3>1
      <3>3. QED
        BY <3>2
    <2>4. CASE i > n
      <3>1. i \in n + 1..m /\ i + 2 \in n + 1..m
        BY <1>1, <2>4
      <3>2. r[i] = p + (i - n) /\ r[i + 2] = p + ((i + 2) - n)
        BY <1>1, <3>1
      <3>3. QED
        BY <1>1, <3>2
    <2>5. QED
      BY <1>1, <2>1, <2>2, <2>3, <2>4
  <1>6. QED
    BY <1>1, <1>3, <1>4, <1>5 DEF Rises, Under, r

(* What taking in the channel, answering a read and blocking one do to the  *)
(* order of one client's events.                                            *)

LEMMA OrderUpdate ==
    ASSUME NEW g \in Seq(Nat), NEW cl \in ClientLogs, NEW f \in Nat, NEW p \in Nat, NEW q \in Nat,
           p <= q, NEW pc, NEW k \in 0..2, cl.st # "closed",
           ReadsOf(cl, Run(p, q), pc, k), OrderOf(g, cl, f, p, k)
    PROVE  LET u == PushAll(cl, Run(p, q))
           IN  /\ ReadsOf(u, <<>>, pc, k)
               /\ OrderOf(g, u, f, q, k)
               /\ u.st # "closed"
  <1> DEFINE u == PushAll(cl, Run(p, q))
  <1>0. /\ Run(p, q) \in Seq(Nat) /\ Len(Run(p, q)) = q - p
        /\ Run(p, q) = <<>> <=> p = q
        /\ cl.evs \in Seq(Nat) /\ cl.st \in {"events", "pending"}
        /\ f <= p
    BY RunType DEF ClientLogs, OrderOf
  <1>1. CASE p = q
    BY <1>0, <1>1 DEF PushAll
  <1>2. CASE p < q /\ cl.st = "events"
    <2>1. u.st = "events" /\ u.evs = cl.evs \o Run(p, q)
      BY <1>0, <1>2 DEF PushAll, Events
    <2>2. k = 0
      BY <1>0, <1>2 DEF ReadsOf
    <2>3. g \o u.evs = (g \o cl.evs) \o Run(p, q)
      <3>1. g \o (cl.evs \o Run(p, q)) = (g \o cl.evs) \o Run(p, q)
        BY <1>0, ConcatAssoc
      <3>2. QED
        BY <2>1, <3>1
    <2>4. g \o cl.evs \in Seq(Nat) /\ Rises(g \o cl.evs, f) /\ Nearly(g \o cl.evs, p)
      BY <1>0, <1>2 DEF OrderOf
    <2>5. Rises(g \o u.evs, f) /\ Under(g \o u.evs, q)
      BY <1>0, <1>2, <2>3, <2>4, RisesRun
    <2>6. g \o u.evs \in Seq(Nat)
      BY <1>0, <2>1
    <2>7. Nearly(g \o u.evs, q)
      BY <2>5, <2>6, UnderNearly
    <2>8. QED
      BY <1>0, <1>2, <2>1, <2>2, <2>5, <2>7 DEF OrderOf, ReadsOf
  <1>3. CASE p < q /\ cl.st = "pending"
    <2>1. u.st = "events" /\ u.evs = Run(p + 1, q)
      <3>1. u = Events(Tail(Run(p, q)))
        BY <1>0, <1>3 DEF PushAll
      <3>2. Tail(Run(p, q)) = Run(p + 1, q)
        BY <1>3, RunTail
      <3>3. QED
        BY <3>1, <3>2 DEF Events
    <2>2. cl.evs = <<>> /\ g \o cl.evs = g /\ Rises(g, f) /\ Nearly(g, p + 1)
      <3>1. cl.evs = <<>> /\ Rises(g \o cl.evs, f) /\ Nearly(g, p + 1)
        BY <1>3 DEF OrderOf
      <3>2. QED
        BY <3>1, ConcatEmpty
    <2>3. CASE q = p + 1
      <3>1. Run(p + 1, q) = <<>>
        BY <2>3, RunType
      <3>2. u = Events(<<>>) /\ g \o u.evs = g
        BY <1>0, <1>3, <2>1, <3>1, RunTail, SMTT(30) DEF PushAll, Events
      <3>3. k # 0 => Under(g, q)
        <4>1. k # 0 => Nearly(g, p)
          BY <1>3, UnderNearly DEF OrderOf
        <4>2. QED
          BY <2>3, <4>1, UnderNearly
      <3>4. k # 0 => pc # "forward" /\ k = 1
        BY <1>0, <1>3 DEF ReadsOf, Events
      <3>5. f <= q
        BY <1>0, <2>3 DEF ReadsOf
      <3>6. QED
        BY <2>1, <2>2, <2>3, <3>2, <3>3, <3>4, <3>5 DEF OrderOf, ReadsOf, Events
    <2>4. CASE q # p + 1
      <3>1. k = 0
        <4>1. Len(Run(p, q)) # 1 /\ Run(p, q) # <<>>
          BY <1>0, <1>3, <2>4
        <4>2. QED
          BY <1>3, <4>1 DEF ReadsOf, Events
      <3>2. p + 1 \in Nat /\ f <= p + 1 /\ p + 1 < q
        BY <1>0, <1>3, <2>4
      <3>3. Rises(g \o u.evs, f) /\ Under(g \o u.evs, q)
        BY <2>1, <2>2, <3>2, RisesRun
      <3>4. u.evs \in Seq(Nat)
        BY <2>1, <3>2, RunType
      <3>5. Nearly(g \o u.evs, q)
        <4>1. g \o u.evs \in Seq(Nat)
          BY <3>4
        <4>2. QED
          BY <3>3, <4>1, UnderNearly
      <3>6. f <= q
        BY <3>2
      <3>7. QED
        BY <2>1, <3>1, <3>3, <3>5, <3>6 DEF OrderOf, ReadsOf
    <2>5. QED
      BY <2>3, <2>4
  <1>4. QED
    BY <1>0, <1>1, <1>2, <1>3

LEMMA OrderAnswer ==
    ASSUME NEW g \in Seq(Nat), NEW cl \in ClientLogs, NEW f \in Nat, NEW p \in Nat, NEW tf \in Seq(Nat),
           NEW pc, NEW k \in {1, 2}, cl.st # "closed",
           ReadsOf(cl, tf, pc, k), OrderOf(g, cl, f, p, k)
    PROVE  /\ ReadsOf(cl, tf, pc, k - 1)
           /\ OrderOf(Append(g, p + Len(tf) + 1), cl, f, p, k - 1)
  <1> DEFINE h == Append(g, p + Len(tf) + 1)
  <1>0. /\ cl.st \in {"events", "pending"} /\ f <= p /\ cl.evs = <<>>
        /\ g \o <<>> = g /\ Rises(g, f)
        /\ p + Len(tf) + 1 \in Nat /\ h \in Seq(Nat) /\ h \o <<>> = h
        /\ p + 1 \in Nat
    <2>1. /\ cl.st \in {"events", "pending"} /\ f <= p /\ cl.evs = <<>>
          /\ Rises(g \o cl.evs, f)
      BY DEF ClientLogs, OrderOf, ReadsOf, Events
    <2>2. p + Len(tf) + 1 \in Nat /\ p + 1 \in Nat
      OBVIOUS
    <2>3. h \in Seq(Nat)
      BY <2>2
    <2>4. g \o <<>> = g /\ h \o <<>> = h
      BY <2>3, ConcatEmpty
    <2>5. QED
      BY <2>1, <2>2, <2>3, <2>4
  <1>1. ReadsOf(cl, tf, pc, k - 1)
    BY DEF ReadsOf
  <1>2. CASE cl.st = "events"
    <2>1. tf = <<>> /\ k = 1 /\ p + Len(tf) + 1 = p + 1
      BY <1>0, <1>2 DEF ReadsOf
    <2>2. Under(g, p) /\ Nearly(g, p)
      BY <1>0, <1>2, UnderNearly DEF OrderOf
    <2>3. Rises(h, f) /\ Nearly(h, p)
      BY <1>0, <2>1, <2>2, RisesAppend
    <2>4. QED
      BY <1>0, <1>1, <1>2, <2>1, <2>3 DEF OrderOf
  <1>3. CASE cl.st = "pending" /\ tf = <<>>
    <2>1. p + Len(tf) + 1 = p + 1
      BY <1>3
    <2>2. Nearly(g, p) /\ (k = 2 => Under(g, p))
      BY <1>3, UnderNearly DEF OrderOf
    <2>3. Rises(h, f) /\ Under(h, p + 1) /\ (k = 2 => Nearly(h, p))
      BY <1>0, <2>1, <2>2, RisesAppend
    <2>4. Nearly(h, p + 1)
      BY <1>0, <2>3, UnderNearly
    <2>5. QED
      BY <1>0, <1>1, <1>3, <2>3, <2>4 DEF OrderOf
  <1>4. CASE cl.st = "pending" /\ tf # <<>>
    <2>1. Len(tf) = 1 /\ k = 1 /\ p + Len(tf) + 1 = (p + 1) + 1
      <3>1. Len(tf) = 1 /\ k = 1
        BY <1>4 DEF ReadsOf
      <3>2. QED
        BY <3>1
    <2>2. Under(g, p + 1) /\ Nearly(g, p + 1)
      BY <1>0, <1>4, UnderNearly DEF OrderOf
    <2>3. f <= p + 1
      BY <1>0
    <2>4. Rises(h, f) /\ Nearly(h, p + 1)
      BY <1>0, <2>1, <2>2, <2>3, RisesAppend
    <2>5. QED
      BY <1>0, <1>1, <1>4, <2>1, <2>4 DEF OrderOf
  <1>5. QED
    BY <1>0, <1>2, <1>3, <1>4

LEMMA OrderBlocks ==
    ASSUME NEW g \in Seq(Nat), NEW f \in Nat, NEW p \in Nat, NEW tf \in Seq(Nat),
           NEW pc, NEW k \in 0..2, Len(tf) + (IF pc = "forward" THEN 1 ELSE 0) <= 1,
           ReadsOf(Events(<<>>), tf, pc, k), OrderOf(g, Events(<<>>), f, p, k)
    PROVE  /\ ReadsOf(Pending, tf, pc, k + 1)
           /\ OrderOf(g, Pending, f, p, k + 1)
           /\ k \in {0, 1}
  <1>1. /\ f <= p /\ g \o <<>> = g /\ Rises(g, f) /\ Nearly(g, p)
        /\ k # 0 => Under(g, p) /\ pc # "forward" /\ tf = <<>>
        /\ k \in {0, 1}
    BY DEF OrderOf, ReadsOf, Events
  <1>2. tf = <<>> \/ (Len(tf) = 1 /\ pc # "forward")
    <2>1. Len(tf) \in Nat /\ (Len(tf) = 0 => tf = <<>>)
      OBVIOUS
    <2>2. CASE pc = "forward"
      <3>1. Len(tf) + 1 <= 1
        BY <2>2
      <3>2. QED
        BY ONLY <2>1, <3>1
    <2>3. CASE pc # "forward"
      <3>1. Len(tf) + 0 <= 1
        BY <2>3
      <3>2. \A n \in Nat : n + 0 <= 1 => n = 0 \/ n = 1
        OBVIOUS
      <3>3. Len(tf) = 0 \/ Len(tf) = 1
        BY ONLY <2>1, <3>1, <3>2
      <3>4. QED
        BY ONLY <2>1, <2>3, <3>3
    <2>4. QED
      BY <2>2, <2>3
  <1>3. Nearly(g, p + 1)
    BY <1>1, UnderNearly
  <1>4. QED
    BY <1>1, <1>2, <1>3 DEF OrderOf, ReadsOf, Pending

(* How the requests and the listener change which blocked reads are live. *)

LEMMA LiveType ==
    ASSUME NEW c
    PROVE  /\ Blocked(c) \in BOOLEAN /\ Twice(c) \in BOOLEAN
           /\ Blocked(c) <=> \E i \in Nat : LiveAt(c, i)
           /\ Twice(c) => Blocked(c)
  <1>1. Blocked(c) <=> \E i \in Nat : LiveAt(c, i)
    BY DEF Blocked, LiveAt
  <1>2. QED
    BY <1>1 DEF Blocked, Twice

LEMMA LivesType ==
    ASSUME NEW c
    PROVE  /\ Lives(c) \in 0..2
           /\ Lives(c) = 0 <=> ~Blocked(c)
           /\ Lives(c) = 2 <=> Twice(c)
  BY LiveType DEF Lives

LEMMA LiveSame ==
    ASSUME NEW c, AtMostTwo(c), \A i \in Nat : LiveAt(c, i)' <=> LiveAt(c, i)
    PROVE  Lives(c)' = Lives(c) /\ AtMostTwo(c)'
  <1>1. Blocked(c)' <=> \E i \in Nat : LiveAt(c, i)'
    BY DEF Blocked, LiveAt
  <1>2. Blocked(c)' <=> Blocked(c)
    BY <1>1, LiveType
  <1>3. Twice(c)' <=> Twice(c)
    BY DEF Twice
  <1>4. AtMostTwo(c)'
    BY DEF AtMostTwo
  <1>5. QED
    BY <1>2, <1>3, <1>4 DEF Lives

LEMMA LiveNone ==
    ASSUME NEW c, \A i \in Nat : ~LiveAt(c, i)'
    PROVE  Lives(c)' = 0 /\ AtMostTwo(c)'
  <1>1. Blocked(c)' <=> \E i \in Nat : LiveAt(c, i)'
    BY DEF Blocked, LiveAt
  <1>2. QED
    BY <1>1 DEF Twice, AtMostTwo, Lives

LEMMA LiveTail ==
    ASSUME TypeOK, NEW c, AtMostTwo(c), pending # <<>>, pending' = Tail(pending)
    PROVE  /\ LiveAt(c, 1)  => Lives(c) \in {1, 2} /\ Lives(c)' = Lives(c) - 1
           /\ ~LiveAt(c, 1) => Lives(c)' = Lives(c)
           /\ AtMostTwo(c)'
  <1>1. /\ Len(pending) \in Nat /\ Len(pending') = Len(pending) - 1
        /\ \A i \in 1..Len(pending') : pending'[i] = pending[i + 1]
    BY DEF TypeOK
  <1>2. \A i \in Nat : LiveAt(c, i)' <=> i # 0 /\ LiveAt(c, i + 1)
    <2> SUFFICES ASSUME NEW i \in Nat PROVE LiveAt(c, i)' <=> i # 0 /\ LiveAt(c, i + 1)
      OBVIOUS
    <2>1. i \in 1..Len(pending') <=> i # 0 /\ i + 1 \in 1..Len(pending)
      BY <1>1
    <2>2. QED
      BY <1>1, <2>1 DEF LiveAt
  <1>3. \A j \in Nat : LiveAt(c, j) => j # 0 /\ j - 1 \in Nat /\ (j - 1) + 1 = j
    BY <1>1 DEF LiveAt
  <1>4. Blocked(c)' <=> \E i \in Nat : i # 0 /\ LiveAt(c, i + 1)
    BY <1>2 DEF Blocked, LiveAt
  <1>5. Twice(c)' <=> \E i, j \in Nat : i # 0 /\ i < j /\ LiveAt(c, i + 1) /\ LiveAt(c, j + 1)
    <2>1. \A i, j \in Nat : i < j => j # 0
      OBVIOUS
    <2>2. \A i, j \in Nat : i < j /\ LiveAt(c, i)' /\ LiveAt(c, j)' <=>
                            i # 0 /\ i < j /\ LiveAt(c, i + 1) /\ LiveAt(c, j + 1)
      BY <1>2, <2>1
    <2>3. QED
      BY <2>2 DEF Twice
  <1>6. AtMostTwo(c)'
    <2> SUFFICES ASSUME NEW i \in Nat, NEW j \in Nat, NEW k \in Nat, i < j, j < k,
                        LiveAt(c, i)', LiveAt(c, j)', LiveAt(c, k)'
                 PROVE  FALSE
      BY DEF AtMostTwo
    <2>1. LiveAt(c, i + 1) /\ LiveAt(c, j + 1) /\ LiveAt(c, k + 1)
      BY <1>2
    <2>2. i + 1 \in Nat /\ j + 1 \in Nat /\ k + 1 \in Nat /\ i + 1 < j + 1 /\ j + 1 < k + 1
      OBVIOUS
    <2>3. QED
      BY <2>1, <2>2 DEF AtMostTwo
  <1>7. ASSUME LiveAt(c, 1) PROVE (Blocked(c)' <=> Twice(c)) /\ ~Twice(c)'
    <2>1. ASSUME NEW i \in Nat, i # 0, LiveAt(c, i + 1) PROVE Twice(c)
      BY <1>7, <2>1 DEF Twice
    <2>2. ASSUME NEW i \in Nat, NEW j \in Nat, i < j, LiveAt(c, i), LiveAt(c, j) PROVE Blocked(c)'
      <3>1. j - 1 \in Nat /\ j - 1 # 0 /\ LiveAt(c, (j - 1) + 1)
        BY <1>3, <2>2
      <3>2. QED
        BY <1>4, <3>1
    <2>3. ASSUME NEW i \in Nat, NEW j \in Nat, i # 0, i < j, LiveAt(c, i + 1), LiveAt(c, j + 1)
          PROVE  FALSE
      <3>1. 1 < i + 1 /\ i + 1 < j + 1 /\ i + 1 \in Nat /\ j + 1 \in Nat
        BY <2>3
      <3>2. QED
        BY <1>7, <2>3, <3>1 DEF AtMostTwo
    <2>4. QED
      BY <1>4, <1>5, <2>1, <2>2, <2>3 DEF Twice
  <1>8. ASSUME ~LiveAt(c, 1) PROVE (Blocked(c)' <=> Blocked(c)) /\ (Twice(c)' <=> Twice(c))
    <2>1. \A j \in Nat : LiveAt(c, j) => j - 1 \in Nat /\ j - 1 # 0 /\ LiveAt(c, (j - 1) + 1)
      BY <1>3, <1>8
    <2>2. Blocked(c)' <=> Blocked(c)
      <3>1. ASSUME NEW i \in Nat, i # 0, LiveAt(c, i + 1) PROVE Blocked(c)
        <4>1. i + 1 \in Nat
          OBVIOUS
        <4>2. QED
          BY <3>1, <4>1, LiveType
      <3>2. ASSUME NEW i \in Nat, LiveAt(c, i) PROVE Blocked(c)'
        BY <1>4, <2>1, <3>2
      <3>3. QED
        BY <1>4, <3>1, <3>2, LiveType
    <2>3. Twice(c)' => Twice(c)
      <3>1. \A i \in Nat : i + 1 \in Nat
        OBVIOUS
      <3>2. \A i, j \in Nat : i < j => i + 1 < j + 1
        OBVIOUS
      <3>3. QED
        BY <1>5, <3>1, <3>2 DEF Twice
    <2>4. ASSUME NEW i \in Nat, NEW j \in Nat, i < j, LiveAt(c, i), LiveAt(c, j) PROVE Twice(c)'
      <3>1. /\ i - 1 \in Nat /\ i - 1 # 0 /\ LiveAt(c, (i - 1) + 1)
            /\ j - 1 \in Nat /\ LiveAt(c, (j - 1) + 1) /\ i - 1 < j - 1
        BY <2>1, <2>4
      <3>2. QED
        BY <1>5, <3>1
    <2>5. QED
      BY <2>2, <2>3, <2>4 DEF Twice
  <1>9. QED
    <2>1. LiveAt(c, 1) => Blocked(c)
      BY LiveType
    <2>2. QED
      BY <1>6, <1>7, <1>8, <2>1, LiveType DEF Lives

LEMMA LiveAppend ==
    ASSUME TypeOK, NEW c, ~Twice(c), pending' = Append(pending, [cid |-> c, live |-> TRUE])
    PROVE  Lives(c)' = Lives(c) + 1 /\ AtMostTwo(c)'
  <1>n. PICK n : n = Len(pending) + 1
    OBVIOUS
  <1>1. /\ Len(pending) \in Nat /\ Len(pending') = n
        /\ \A i \in 1..Len(pending) : pending'[i] = pending[i]
        /\ pending'[n] = [cid |-> c, live |-> TRUE]
    BY <1>n DEF TypeOK
  <1>2. /\ n \in Nat /\ LiveAt(c, n)'
        /\ \A i \in Nat : LiveAt(c, i) => i < n /\ LiveAt(c, i)'
        /\ \A i \in Nat : LiveAt(c, i)' => i <= n
        /\ \A i \in Nat : LiveAt(c, i)' /\ i # n => LiveAt(c, i)
    <2>1. n \in Nat /\ n \in 1..Len(pending') /\ pending'[n].cid = c /\ pending'[n].live
      BY <1>n, <1>1
    <2>2. LiveAt(c, n)'
      BY <2>1 DEF LiveAt
    <2>3. ASSUME NEW i \in Nat
          PROVE  /\ i \in 1..Len(pending) => i < n /\ i \in 1..Len(pending') /\ pending'[i] = pending[i]
                 /\ i \in 1..Len(pending') => i <= n /\ (i # n => i \in 1..Len(pending))
      BY <1>n, <1>1
    <2>4. QED
      BY <2>1, <2>2, <2>3 DEF LiveAt
  <1>3. Blocked(c)'
    BY <1>2 DEF Blocked, LiveAt
  <1>4. Twice(c)' => Blocked(c)
    <2> SUFFICES ASSUME NEW i \in Nat, NEW j \in Nat, i < j, LiveAt(c, i)', LiveAt(c, j)'
                 PROVE  Blocked(c)
      BY DEF Twice
    <2>1. i # n
      BY <1>2
    <2>2. QED
      BY <1>2, <2>1, LiveType
  <1>5. Blocked(c) => Twice(c)'
    <2> SUFFICES ASSUME NEW i \in Nat, LiveAt(c, i) PROVE Twice(c)'
      BY LiveType
    <2>1. i < n /\ LiveAt(c, i)' /\ LiveAt(c, n)' /\ n \in Nat
      BY <1>2
    <2>2. QED
      BY <2>1 DEF Twice
  <1>6. AtMostTwo(c)'
    <2> SUFFICES ASSUME NEW i \in Nat, NEW j \in Nat, NEW k \in Nat, i < j, j < k,
                        LiveAt(c, i)', LiveAt(c, j)', LiveAt(c, k)'
                 PROVE  FALSE
      BY DEF AtMostTwo
    <2>1. k <= n /\ i # n /\ j # n
      BY <1>2
    <2>2. LiveAt(c, i) /\ LiveAt(c, j)
      BY <1>2, <2>1
    <2>3. QED
      BY <2>2 DEF Twice
  <1>7. QED
    BY <1>3, <1>4, <1>5, <1>6 DEF Lives

LEMMA UpdatedOrder ==
    ASSUME TypeOK, PipeInv, NEW c \in Clients, OrderInv(c)
    PROVE  /\ Updated[c].st = "closed" <=> clog[c].st = "closed"
           /\ ReadsOf(Updated[c], <<>>, lpc, Lives(c))
           /\ clog[c].st # "closed" =>
                 OrderOf(got[c], Updated[c], from[c], Forwarded, Lives(c))
  <1>1. /\ got[c] \in Seq(Nat) /\ clog[c] \in ClientLogs /\ from[c] \in Nat
        /\ pushed \in Nat /\ Forwarded \in Nat /\ pushed <= Forwarded
        /\ toFsys = Run(pushed, Forwarded)
        /\ Lives(c) \in 0..2
    BY LivesType DEF TypeOK, PipeInv, Forwarded
  <1>2. Updated[c] = PushAll(clog[c], Run(pushed, Forwarded))
    BY <1>1 DEF Updated
  <1>3. ReadsOf(clog[c], Run(pushed, Forwarded), lpc, Lives(c))
    BY <1>1 DEF OrderInv
  <1>4. CASE clog[c].st = "closed"
    <2>1. Updated[c] = clog[c]
      BY <1>2, <1>4 DEF PushAll
    <2>2. Lives(c) = 0
      BY <1>3, <1>4 DEF ReadsOf, Events
    <2>3. QED
      BY <1>4, <2>1, <2>2 DEF ReadsOf
  <1>5. CASE clog[c].st # "closed"
    <2>1. OrderOf(got[c], clog[c], from[c], pushed, Lives(c))
      BY <1>5 DEF OrderInv
    <2>2. QED
      BY <1>1, <1>2, <1>3, <1>5, <2>1, OrderUpdate
  <1>6. QED
    BY <1>4, <1>5

(* an open starts the client's history, whatever was before *)
LEMMA OrderOpen ==
    ASSUME TypeOK, NEW c \in Clients, Open(c)
    PROVE  OrderInv(c)'
  <1> USE DEF listenerVars, clientVars
  <1>1. toFsys' = <<>> /\ pushed' = Forwarded /\ pending' = Orphan(c)
    BY DEF Open, Update, Forwarded
  <1>2. \A i \in Nat : ~LiveAt(c, i)'
    BY <1>1, OrphanType DEF LiveAt
  <1>3. Lives(c)' = 0 /\ AtMostTwo(c)'
    BY <1>2, LiveNone
  <1>4. clog'[c] = Events(<<>>) /\ from'[c] = pushed' /\ got'[c] = <<>>
    BY DEF Open, TypeOK, Updated
  <1>5. <<>> \o <<>> = <<>> /\ pushed' \in Nat /\ pushed' <= pushed'
    BY <1>1, PipeFacts
  <1>6. Rises(<<>>, pushed') /\ Nearly(<<>>, pushed')
    BY DEF Rises, Nearly
  <1>7. OrderOf(got'[c], clog'[c], from'[c], pushed', Lives(c)')
    BY <1>3, <1>4, <1>5, <1>6 DEF OrderOf, Events
  <1>8. QED
    BY <1>3, <1>7 DEF OrderInv, ReadsOf

LEMMA OrderStep ==
    ASSUME TypeOK, PipeInv, ReadingInv, [Next]_vars, NEW c \in Clients,
           OrderInv(c), raced'[c] <= 1
    PROVE  OrderInv(c)'
  <1> USE DEF listenerVars, clientVars
  <1>0. /\ AtMostTwo(c)
        /\ ReadsOf(clog[c], toFsys, lpc, Lives(c))
        /\ clog[c].st # "closed" => OrderOf(got[c], clog[c], from[c], pushed, Lives(c))
    BY DEF OrderInv
  <1>t. /\ got[c] \in Seq(Nat) /\ clog[c] \in ClientLogs /\ from[c] \in Nat /\ pushed \in Nat
        /\ toFsys \in Seq(Nat) /\ Lives(c) \in 0..2
    BY LivesType DEF TypeOK
  <1>l. ASSUME \A i \in Nat : LiveAt(c, i)' <=> LiveAt(c, i),
               clog'[c] = clog[c], got'[c] = got[c], from'[c] = from[c],
               pushed' = pushed, toFsys' = toFsys, lpc' = "forward" => lpc = "forward"
        PROVE  OrderInv(c)'
    <2>1. Lives(c)' = Lives(c) /\ AtMostTwo(c)'
      BY <1>0, <1>l, LiveSame
    <2>2. ReadsOf(clog'[c], toFsys', lpc', Lives(c)')
      BY <1>0, <1>l, <2>1 DEF ReadsOf
    <2>3. clog'[c].st # "closed" => OrderOf(got'[c], clog'[c], from'[c], pushed', Lives(c)')
      BY <1>0, <1>l, <2>1 DEF OrderOf
    <2>4. QED
      BY <2>1, <2>2, <2>3 DEF OrderInv
  <1>u. ASSUME \A i \in Nat : LiveAt(c, i)' <=> LiveAt(c, i),
               clog'[c] = Updated[c], got'[c] = got[c], from'[c] = from[c],
               pushed' = Forwarded, toFsys' = <<>>, lpc' = lpc
        PROVE  OrderInv(c)'
    <2>1. Lives(c)' = Lives(c) /\ AtMostTwo(c)'
      BY <1>0, <1>u, LiveSame
    <2>2. ReadsOf(clog'[c], toFsys', lpc', Lives(c)')
      BY <1>u, <2>1, UpdatedOrder DEF ReadsOf
    <2>3. clog'[c].st # "closed" => OrderOf(got'[c], clog'[c], from'[c], pushed', Lives(c)')
      <3>1. clog'[c].st # "closed" => OrderOf(got[c], Updated[c], from[c], Forwarded, Lives(c))
        BY <1>u, UpdatedOrder
      <3>2. QED
        BY <1>u, <2>1, <3>1 DEF OrderOf
    <2>4. QED
      BY <2>1, <2>2, <2>3 DEF OrderInv
  <1>n. ASSUME \A i \in Nat : ~LiveAt(c, i)', clog'[c] = Closed
        PROVE  OrderInv(c)'
    BY <1>n, LiveNone DEF OrderInv, ReadsOf, Closed
  <1>1. CASE EditorSend
    <2>1. UNCHANGED <<lpc, pending, toFsys, got, clog, pushed, from>>
      BY <1>1 DEF EditorSend
    <2>2. QED
      BY <1>l, <2>1 DEF LiveAt
  <1>2. CASE ListenerRecv
    <2>1. UNCHANGED <<pending, toFsys, got, clog, pushed, from>> /\ lpc' = "drain"
      BY <1>2 DEF ListenerRecv
    <2>2. QED
      BY <1>l, <2>1 DEF LiveAt
  <1>3. CASE ListenerAnswer
    <2>1. /\ lpc = "drain" /\ pending # <<>> /\ pending' = Tail(pending)
          /\ UNCHANGED <<lpc, toFsys, clog, pushed, from>>
      BY <1>3 DEF ListenerAnswer
    <2>2. Len(pending) \in Nat \ {0}
      BY <2>1 DEF TypeOK
    <2>3. CASE LiveAt(c, 1)
      <3>1. Lives(c) \in {1, 2} /\ Lives(c)' = Lives(c) - 1 /\ AtMostTwo(c)'
        BY <1>0, <2>1, <2>3, LiveTail
      <3>2. held = pushed + Len(toFsys) + 1
        BY <2>1 DEF PipeInv, Taken, Forwarded
      <3>3. got'[c] = Append(got[c], pushed + Len(toFsys) + 1)
        <4>1. got'[c] = Append(got[c], held)
          <5>1. Head(pending) = pending[1] /\ pending[1].cid = c /\ pending[1].live
            BY <2>2, <2>3 DEF LiveAt
          <5>2. got' = [got EXCEPT ![c] = Append(@, held)]
            BY <1>3, <5>1 DEF ListenerAnswer
          <5>3. QED
            BY <5>2 DEF TypeOK
        <4>2. QED
          BY <3>2, <4>1
      <3>4. clog[c].st # "closed"
        BY <1>0, <3>1 DEF ReadsOf, Events
      <3>5. /\ ReadsOf(clog[c], toFsys, lpc, Lives(c) - 1)
            /\ OrderOf(got'[c], clog[c], from[c], pushed, Lives(c) - 1)
        BY <1>0, <1>t, <3>1, <3>3, <3>4, OrderAnswer
      <3>6. QED
        BY <2>1, <3>1, <3>5 DEF OrderInv
    <2>4. CASE ~LiveAt(c, 1)
      <3>1. Lives(c)' = Lives(c) /\ AtMostTwo(c)'
        BY <1>0, <2>1, <2>4, LiveTail
      <3>2. got'[c] = got[c]
        BY <1>3, <2>2, <2>4 DEF ListenerAnswer, TypeOK, LiveAt
      <3>3. ReadsOf(clog'[c], toFsys', lpc', Lives(c)')
        BY <1>0, <2>1, <3>1 DEF ReadsOf
      <3>4. clog'[c].st # "closed" => OrderOf(got'[c], clog'[c], from'[c], pushed', Lives(c)')
        BY <1>0, <2>1, <3>1, <3>2 DEF OrderOf
      <3>5. QED
        BY <3>1, <3>3, <3>4 DEF OrderInv
    <2>5. QED
      BY <2>3, <2>4
  <1>4. CASE ListenerDrained
    <2>1. /\ pending = <<>> /\ UNCHANGED <<pending, toFsys, got, clog, pushed, from>>
      BY <1>4 DEF ListenerDrained
    <2>2. \A i \in Nat : ~LiveAt(c, i) /\ ~LiveAt(c, i)'
      BY <2>1 DEF LiveAt
    <2>3. Lives(c) = 0 /\ Lives(c)' = 0 /\ AtMostTwo(c)'
      BY <2>2, LiveNone, LiveType, LivesType
    <2>4. clog[c].st # "closed" => OrderOf(got'[c], clog'[c], from'[c], pushed', Lives(c)')
      BY <1>0, <2>1, <2>3 DEF OrderOf
    <2>5. QED
      BY <2>1, <2>3, <2>4 DEF OrderInv, ReadsOf
  <1>5. CASE ListenerForward
    <2>1. /\ lpc = "forward" /\ toFsys' = Append(toFsys, held) /\ lpc' = "recv"
          /\ UNCHANGED <<pending, got, clog, pushed, from>>
      BY <1>5 DEF ListenerForward
    <2>2. Lives(c)' = Lives(c) /\ AtMostTwo(c)'
      <3>1. \A i \in Nat : LiveAt(c, i)' <=> LiveAt(c, i)
        BY <2>1 DEF LiveAt
      <3>2. QED
        BY <1>0, <3>1, LiveSame
    <2>3. Lives(c) # 0 => clog[c].st = "pending" /\ toFsys = <<>> /\ Lives(c) = 1
      BY <1>0, <1>t, <2>1 DEF ReadsOf, Events
    <2>4. toFsys = <<>> => Len(toFsys') = 1
      <3>1. held \in Nat
        BY DEF TypeOK
      <3>2. QED
        BY <2>1, <3>1
    <2>5. ReadsOf(clog'[c], toFsys', lpc', Lives(c)')
      BY <2>1, <2>2, <2>3, <2>4 DEF ReadsOf
    <2>6. clog'[c].st # "closed" => OrderOf(got'[c], clog'[c], from'[c], pushed', Lives(c)')
      BY <1>0, <2>1, <2>2 DEF OrderOf
    <2>7. QED
      BY <2>2, <2>5, <2>6 DEF OrderInv
  <1>6. ASSUME NEW d \in Clients, Open(d) PROVE OrderInv(c)'
    <2>1. /\ toFsys' = <<>> /\ pushed' = Forwarded /\ pending' = Orphan(d) /\ lpc' = lpc
      BY <1>6 DEF Open, Update, Forwarded
    <2>2. CASE c = d
      BY <1>6, <2>2, OrderOpen
    <2>3. CASE c # d
      <3>1. clog'[c] = Updated[c] /\ UNCHANGED <<from[c], got[c]>>
        BY <1>6, <2>3 DEF Open, TypeOK, Updated
      <3>2. \A i \in Nat : LiveAt(c, i)' <=> LiveAt(c, i)
        BY <2>1, <2>3, OrphanType DEF LiveAt
      <3>3. QED
        BY <1>u, <2>1, <3>1, <3>2
    <2>4. QED
      BY <2>2, <2>3
  <1>7. ASSUME NEW d \in Clients, Clunk(d) PROVE OrderInv(c)'
    <2>1. pending' = Orphan(d) /\ UNCHANGED <<lpc, toFsys, pushed, from, got>>
      BY <1>7 DEF Clunk
    <2>2. CASE c = d
      <3>1. \A i \in Nat : ~LiveAt(c, i)'
        BY <2>1, <2>2, OrphanType DEF LiveAt
      <3>2. clog'[c] = Closed
        BY <1>7, <2>2 DEF Clunk, TypeOK
      <3>3. QED
        BY <1>n, <3>1, <3>2
    <2>3. CASE c # d
      <3>1. clog'[c] = clog[c]
        BY <1>7, <2>3 DEF Clunk, TypeOK
      <3>2. \A i \in Nat : LiveAt(c, i)' <=> LiveAt(c, i)
        BY <2>1, <2>3, OrphanType DEF LiveAt
      <3>3. QED
        BY <1>l, <2>1, <3>1, <3>2
    <2>4. QED
      BY <2>2, <2>3
  <1>8a. ASSUME NEW d \in Clients, ReadBegins(d) PROVE OrderInv(c)'
    <2>1. /\ toFsys' = <<>> /\ pushed' = Forwarded /\ clog' = Updated
          /\ UNCHANGED <<lpc, from, pending, got>>
      BY <1>8a DEF ReadBegins, Update, Forwarded
    <2>2. \A i \in Nat : LiveAt(c, i)' <=> LiveAt(c, i)
      BY <2>1 DEF LiveAt
    <2>3. QED
      BY <1>u, <2>1, <2>2
  <1>8. ASSUME NEW d \in Clients, ReadBlocks(d) PROVE OrderInv(c)'
    <2>1. /\ UNCHANGED <<toFsys, pushed, lpc, from, got>>
          /\ pending' = Append(pending, [cid |-> d, live |-> TRUE])
          /\ clog[d] = Events(<<>>)
      <3>1. reading = d /\ d # NoClient
        BY <1>8, FsysLogAssumption DEF ReadBlocks
      <3>2. QED
        BY <1>8, <3>1 DEF ReadBlocks, ReadingInv
    <2>2. CASE c = d
      <3>1. clog'[c] = Pending /\ clog[c] = Events(<<>>) /\ clog[c].st # "closed"
        BY <1>8, <2>1, <2>2 DEF ReadBlocks, TypeOK, Events
      <3>2. Len(toFsys) + (IF lpc = "forward" THEN 1 ELSE 0) <= 1
        <4>1. raced[c] \in Nat /\ OnTheirWay \in Nat
          BY DEF TypeOK, OnTheirWay
        <4>2. raced'[c] = IF raced[c] < OnTheirWay THEN OnTheirWay ELSE raced[c]
          BY <1>8, <2>2 DEF ReadBlocks, TypeOK
        <4>3. OnTheirWay <= 1
          BY <4>1, <4>2
        <4>4. QED
          BY <4>3 DEF OnTheirWay
      <3>3. ReadsOf(Events(<<>>), toFsys, lpc, Lives(c)) /\ OrderOf(got[c], Events(<<>>), from[c], pushed, Lives(c))
        BY <1>0, <3>1
      <3>4. /\ ReadsOf(Pending, toFsys, lpc, Lives(c) + 1)
            /\ OrderOf(got[c], Pending, from[c], pushed, Lives(c) + 1)
            /\ Lives(c) \in {0, 1}
        BY <1>t, <3>2, <3>3, OrderBlocks
      <3>5. Lives(c)' = Lives(c) + 1 /\ AtMostTwo(c)'
        BY <2>1, <2>2, <3>4, LiveAppend, LivesType
      <3>6. QED
        BY <2>1, <3>1, <3>4, <3>5 DEF OrderInv
    <2>3. CASE c # d
      <3>1. clog'[c] = clog[c]
        BY <1>8, <2>3 DEF ReadBlocks, TypeOK
      <3>2. \A i \in Nat : LiveAt(c, i)' <=> LiveAt(c, i)
        <4>1. /\ Len(pending) \in Nat /\ Len(pending') = Len(pending) + 1
              /\ \A i \in 1..Len(pending) : pending'[i] = pending[i]
              /\ pending'[Len(pending) + 1] = [cid |-> d, live |-> TRUE]
          BY <2>1 DEF TypeOK
        <4>2. \A i \in 1..Len(pending') : i \in 1..Len(pending) \/ i = Len(pending) + 1
          BY <4>1
        <4>3. \A i \in 1..Len(pending) : i \in 1..Len(pending')
          BY <4>1
        <4>4. pending'[Len(pending) + 1].cid # c
          BY <2>3, <4>1
        <4>5. QED
          BY <4>1, <4>2, <4>3, <4>4 DEF LiveAt
      <3>3. QED
        BY <1>l, <2>1, <3>1, <3>2
    <2>4. QED
      BY <2>2, <2>3
  <1>9. ASSUME NEW d \in Clients, ReadImmediate(d) PROVE OrderInv(c)'
    <2>1. /\ toFsys' = <<>> /\ pushed' = Forwarded
          /\ UNCHANGED <<lpc, from, pending>>
          /\ Updated[d].st = "events" /\ Updated[d].evs # <<>>
      BY <1>9 DEF ReadImmediate, Update, Forwarded
    <2>2. \A i \in Nat : LiveAt(c, i)' <=> LiveAt(c, i)
      BY <2>1 DEF LiveAt
    <2>3. CASE c = d
      <3>1. clog'[c] = Events(<<>>) /\ got'[c] = got[c] \o Updated[c].evs
        BY <1>9, <2>3 DEF ReadImmediate, TypeOK, Updated
      <3>2. Lives(c) = 0 /\ clog[c].st # "closed"
        BY <2>1, <2>3, UpdatedOrder DEF ReadsOf, Events
      <3>3. Lives(c)' = 0 /\ AtMostTwo(c)'
        BY <1>0, <2>2, <3>2, LiveSame
      <3>4. /\ from[c] <= Forwarded /\ Rises(got'[c], from[c]) /\ Nearly(got'[c], Forwarded)
        BY <2>1, <2>3, <3>1, <3>2, UpdatedOrder DEF OrderOf
      <3>5. got'[c] \o <<>> = got'[c]
        <4>1. Updated[c] \in ClientLogs
          BY UpdatedType
        <4>2. got'[c] \in Seq(Nat)
          BY <1>t, <3>1, <4>1 DEF ClientLogs
        <4>3. QED
          BY <4>2, ConcatEmpty
      <3>6. OrderOf(got'[c], clog'[c], from'[c], pushed', Lives(c)')
        BY <2>1, <3>1, <3>3, <3>4, <3>5 DEF OrderOf, Events
      <3>7. QED
        BY <3>3, <3>6 DEF OrderInv, ReadsOf
    <2>4. CASE c # d
      <3>1. clog'[c] = Updated[c] /\ got'[c] = got[c]
        BY <1>9, <2>4 DEF ReadImmediate, TypeOK, Updated
      <3>2. QED
        BY <1>u, <2>1, <2>2, <3>1
    <2>5. QED
      BY <2>3, <2>4
  <1>10. CASE OtherRequest
    <2>1. /\ toFsys' = <<>> /\ pushed' = Forwarded /\ clog' = Updated
          /\ UNCHANGED <<lpc, from, pending, got>>
      BY <1>10 DEF OtherRequest, Update, Forwarded
    <2>2. \A i \in Nat : LiveAt(c, i)' <=> LiveAt(c, i)
      BY <2>1 DEF LiveAt
    <2>3. QED
      BY <1>u, <2>1, <2>2
  <1>11. CASE UNCHANGED vars
    <2>1. UNCHANGED <<lpc, pending, toFsys, got, clog, pushed, from>>
      BY <1>11 DEF vars
    <2>2. QED
      BY <1>l, <2>1 DEF LiveAt
  <1>12. QED
    BY <1>1, <1>2, <1>3, <1>4, <1>5, <1>6, <1>7, <1>8a, <1>8, <1>9, <1>10, <1>11
       DEF Next, Listener, Request

(* A client whose reads each registered past one event at most reads no     *)
(* event of the log out of order, none from before its open, and none more  *)
(* than twice: what Log::push drops and what the listener hands out at once *)
(* disagree by one event.                                                   *)
THEOREM LogNeverDisordered == Spec => []LogInOrder
  <1> DEFINE OInv == \A c \in Clients : raced[c] <= 1 => OrderInv(c)
  <1>1. Init => OInv
    <2> SUFFICES ASSUME Init, NEW c \in Clients PROVE OrderInv(c)
      OBVIOUS
    <2>1. \A i \in Nat : ~LiveAt(c, i)
      BY DEF Init, LiveAt
    <2>2. Lives(c) = 0 /\ AtMostTwo(c)
      BY <2>1, LiveType, LivesType DEF AtMostTwo
    <2>3. clog[c].st = "closed"
      BY DEF Init, Closed
    <2>4. QED
      BY <2>2, <2>3 DEF OrderInv, ReadsOf
  <1>2. TypeOK /\ LogInv /\ OInv /\ [Next]_vars => OInv'
    <2> SUFFICES ASSUME TypeOK, LogInv, OInv, [Next]_vars, NEW c \in Clients, raced'[c] <= 1
                 PROVE  OrderInv(c)'
      OBVIOUS
    <2>1. CASE Open(c)
      BY <2>1, OrderOpen
    <2>2. CASE ~Open(c)
      <3>1. raced[c] <= 1
        <4>1. raced[c] \in Nat /\ OnTheirWay \in Nat
          BY DEF TypeOK, OnTheirWay
        <4>2. ASSUME NEW d \in Clients, Open(d) PROVE raced'[c] = raced[c]
          BY <2>2, <4>2 DEF Open, TypeOK
        <4>3. ASSUME NEW d \in Clients, ReadBlocks(d)
              PROVE  raced'[c] = raced[c] \/ (raced[c] < OnTheirWay /\ raced'[c] = OnTheirWay)
          BY <4>3 DEF ReadBlocks, TypeOK
        <4>4. raced'[c] = raced[c] \/ (raced[c] < OnTheirWay /\ raced'[c] = OnTheirWay)
          BY <4>2, <4>3
             DEF Next, Listener, Request, EditorSend, ListenerRecv, ListenerAnswer, ListenerDrained,
                 ListenerForward, Clunk, ReadBegins, ReadImmediate, OtherRequest, vars, clientVars
        <4>5. QED
          BY <4>1, <4>4
      <3>2. PipeInv /\ ReadingInv /\ OrderInv(c)
        BY <3>1 DEF LogInv
      <3>3. QED
        BY <3>2, OrderStep
    <2>3. QED
      BY <2>1, <2>2
  <1>3. OInv => LogInOrder
    <2> SUFFICES ASSUME OInv, NEW c \in Clients, raced[c] <= 1, clog[c].st # "closed"
                 PROVE  Rises(got[c] \o clog[c].evs, from[c])
      BY DEF LogInOrder, InOrderFor, Rises
    <2>1. QED
      BY DEF OrderInv, OrderOf
  <1> HIDE DEF OInv
  <1>4. QED
    BY <1>1, <1>2, <1>3, TypeCorrect, LogInvariant, PTL DEF Spec
=============================================================================
