------------------------------ MODULE RegexVm ------------------------------
(***************************************************************************)
(* The regex engine: the compiler of src/regex/compile.rs and the virtual  *)
(* machine of src/regex/vm.rs.  One regular expression is compiled and     *)
(* then used for several searches, one character per step: the machine     *)
(* keeps its lists of threads, its pool of submatches and the list of free *)
(* entries of that pool from one search to the next.  A search that only   *)
(* asks whether there is a match returns in the middle of a step, and what *)
(* that step has put on the list of new threads stays for the next search. *)
(*                                                                         *)
(* Instructions and threads are numbered from 0 as in the code; a text is  *)
(* a sequence of characters and positions in it are offsets of bytes.  The *)
(* generation that the code bumps to forget which instructions have been   *)
(* visited is the set `seen`, emptied where the code bumps it.             *)
(***************************************************************************)
EXTENDS RegexSyntax, Integers

CONSTANTS Patterns,     \* the patterns a Regex may be compiled from
          Texts,        \* the haystacks it may search
          NSlots,       \* N_SLOTS: positions kept per thread
          MaxSearches,  \* bound: searches and iterators started with one Regex
          Reused,       \* bound: the other patterns are used for one search
          OverflowChecks \* whether the build checks subtractions

ASSUME NSlotsAssumption == NSlots \in Nat /\ NSlots >= 2
ASSUME SearchesAssumption == MaxSearches \in Nat \ {0} /\ OverflowChecks \in BOOLEAN

VARIABLES
    re,         \* the Regex: its tree, program, literals and direction
    search,     \* the search under way: what it reads and how it was asked for
    vm,         \* clist, nlist, sms, free, best ... of RegexInner
    pos,        \* how many characters the search has read
    last,       \* the last search, when it has ended, and what it returned
    iter,       \* the MatchIter in use
    searches    \* how many searches were started

vars == <<re, search, vm, pos, last, iter, searches>>

(***************************************************************************)
(* Compiling: Ast::into_ops and the helpers it calls.  saves is how many   *)
(* submatches have been numbered so far.                                   *)
(***************************************************************************)
Split(a, b) == [op |-> "split", l1 |-> a, l2 |-> b]
Jump(a) == [op |-> "jump", l1 |-> a]
Save(s, rev) == [op |-> IF rev THEN "rsave" ELSE "save", s |-> s]
MatchOp == [op |-> "match"]

\* how many submatches are numbered inside a node
RECURSIVE Captures(_)
Captures(ast) ==
    FoldLeft(LAMBDA n, k : n + Captures(k),
             IF ast.op = "sub" /\ ast.kind # "nonCapturing" THEN 1 ELSE 0,
             Kids(ast))

RECURSIVE IntoOps(_, _, _, _)

\* the operations of a list of nodes, one after the other
RECURSIVE ConcatOps(_, _, _, _)
ConcatOps(nodes, offset, saves, rev) ==
    IF nodes = <<>> THEN <<>>
    ELSE IntoOps(Head(nodes), offset, saves, rev)
           \o ConcatOps(Tail(nodes), offset + OpLen(Head(nodes)),
                        saves + Captures(Head(nodes)), rev)

RECURSIVE AltOps(_, _, _, _, _)
AltOps(nodes, offset, end, saves, rev) ==
    IF Len(nodes) = 1 THEN IntoOps(nodes[1], offset, saves, rev)
    ELSE LET len == OpLen(nodes[1])
         IN  <<Split(offset + 1, offset + 2 + len)>>
               \o IntoOps(nodes[1], offset + 1, saves, rev)
               \o <<Jump(end)>>
               \o AltOps(Tail(nodes), offset + 2 + len, end,
                         saves + Captures(nodes[1]), rev)

SubmatchOps(ast, offset, saves, rev) ==
    LET s == 2 * (saves + 1)
    IN  IF ast.kind = "nonCapturing" THEN IntoOps(ast.node, offset, saves, rev)
        ELSE <<Save(IF rev THEN s + 1 ELSE s, rev)>>
               \o IntoOps(ast.node, offset + 1, saves + 1, rev)
               \o <<Save(IF rev THEN s ELSE s + 1, rev)>>

\* a lazy repetition prefers to leave
Prefer(lazy, a, b) == IF lazy THEN Split(b, a) ELSE Split(a, b)

RepOps(ast, offset, saves, rev) ==
    LET len == OpLen(ast.node)
    IN  CASE ast.r = "quest" ->
                <<Prefer(ast.lazy, offset + 1, offset + 1 + len)>>
                  \o IntoOps(ast.node, offset + 1, saves, rev)
          [] ast.r = "star" ->
                <<Prefer(ast.lazy, offset + 1, offset + 2 + len)>>
                  \o IntoOps(ast.node, offset + 1, saves, rev)
                  \o <<Jump(offset)>>
          [] ast.r = "plus" ->
                IntoOps(ast.node, offset, saves, rev)
                  \o <<Prefer(ast.lazy, offset, offset + 1 + len)>>

IntoOps(ast, offset, saves, rev) ==
    CASE ast.op \in {"comp", "assert"} -> <<ast>>
      [] ast.op = "alt" ->
            AltOps(ast.nodes, offset, offset + OpLen(ast), saves, rev)
      [] ast.op = "concat" -> ConcatOps(ast.nodes, offset, saves, rev)
      [] ast.op = "sub" -> SubmatchOps(ast, offset, saves, rev)
      [] ast.op = "rep" -> RepOps(ast, offset, saves, rev)

\* compile_ast: the prefix is "@*?" and moves every target by four
Moved(op) ==
    CASE op.op = "jump" -> Jump(op.l1 + 4)
      [] op.op = "split" -> Split(op.l1 + 4, op.l2 + 4)
      [] OTHER -> op

CompileAst(ast, rev) ==
    <<Split(3, 1), Comp([k |-> "trueAny"]), Split(3, 1),
      Save(IF rev THEN 1 ELSE 0, rev)>>
      \o LET ops == IntoOps(IF rev THEN ReverseAst(ast) ELSE ast, 0, 0, rev)
         IN  [k \in DOMAIN ops |-> Moved(ops[k])]
      \o <<Save(IF rev THEN 0 ELSE 1, rev), MatchOp>>

(***************************************************************************)
(* compile::optimise: jumps to jumps, to splits and to the end are inlined *)
(* until nothing changes, then what nothing reaches is removed.            *)
(***************************************************************************)
Target(ops, l) == ops[l + 1]
Through(ops, l) == IF Target(ops, l).op = "jump" THEN Target(ops, l).l1 ELSE l

\* inline_jumps
InlineJumps(ops, i) ==
    LET op == ops[i]
    IN  IF op.op = "jump" /\ Target(ops, op.l1).op \in {"jump", "split", "match"}
        THEN [ops EXCEPT ![i] = Target(ops, op.l1)]
        ELSE IF op.op # "split" THEN ops
        ELSE IF Target(ops, op.l1).op = "match" /\ Target(ops, op.l2).op = "match"
        THEN [ops EXCEPT ![i] = MatchOp]
        ELSE [ops EXCEPT ![i] = Split(Through(ops, op.l1), Through(ops, op.l2))]

RECURSIVE InlineAll(_)
InlineAll(ops) ==
    LET once == FoldLeft(InlineJumps, ops, [k \in 1 .. Len(ops) |-> k])
    IN  IF once = ops THEN ops ELSE InlineAll(once)

\* the targets of the program when stripping starts, with where they stand
ToFrom(ops) ==
    FlattenSeq([k \in DOMAIN ops |->
        CASE ops[k].op = "jump" -> <<<<ops[k].l1, k - 1>>>>
          [] ops[k].op = "split" -> <<<<ops[k].l1, k - 1>>, <<ops[k].l2, k - 1>>>>
          [] OTHER -> <<>>])

\* One entry of to_from when the instruction i is about to be removed.  The
\* first target of a split is the one that moves whenever it is above i, for
\* the entry of the second target too.
ShiftTarget(ops, e, i) ==
    LET op == Target(ops, e[2])
        k == e[2] + 1
    IN  IF e[1] <= i THEN ops
        ELSE CASE op.op = "jump" -> [ops EXCEPT ![k] = Jump(op.l1 - 1)]
               [] op.op = "split" ->
                    IF op.l1 > i THEN [ops EXCEPT ![k] = Split(op.l1 - 1, op.l2)]
                    ELSE IF op.l2 > i
                         THEN [ops EXCEPT ![k] = Split(op.l1, op.l2 - 1)]
                         ELSE ops
               [] OTHER -> ops

\* strip_unreachable_instructions, from the last instruction to the second;
\* jumps holds the targets as they were before anything was removed
RECURSIVE StripFrom(_, _, _, _)
StripFrom(ops, i, toFrom, jumps) ==
    IF i < 1 THEN ops
    ELSE IF \/ Target(ops, i - 1).op \notin {"jump", "split", "match"}
            \/ i \in jumps
    THEN StripFrom(ops, i - 1, toFrom, jumps)
    ELSE StripFrom(
            RemoveAt(FoldLeft(LAMBDA o, e : ShiftTarget(o, e, i), ops, toFrom),
                     i + 1),
            i - 1,
            [k \in DOMAIN toFrom |->
                <<toFrom[k][1], IF toFrom[k][2] > i THEN toFrom[k][2] - 1
                                                    ELSE toFrom[k][2]>>],
            jumps)

Strip(ops, toFrom) ==
    StripFrom(ops, Len(ops) - 2, toFrom, {e[1] : e \in ToSet(toFrom)})

OptimiseOps(ops) ==
    LET inlined == InlineAll(ops) IN Strip(inlined, ToFrom(inlined))

(***************************************************************************)
(* Regex::compile and RevRegex::compile.  Only a forward search has        *)
(* literals to start from.                                                 *)
(***************************************************************************)
CompileTree(ast, rev) ==
    [ast |-> ast, rev |-> rev, n |-> Captures(ast),
     prog |-> OptimiseOps(CompileAst(ast, rev)),
     fast |-> IF rev THEN {} ELSE LeadingLiterals(ast)]

Compile(p, rev) == CompileTree(Optimise(Parse(p).ast), rev)

(***************************************************************************)
(* The machine.  e is the search with the characters around the step:      *)
(* [prog, track, sp, ch, prev, next, initial]; m is the machine.  Counts   *)
(* of references below zero stand for what they are modulo 2^64.           *)
(***************************************************************************)
Inst(prog, t) == prog[t.pc + 1]
Thread(pc, sm, a) == [pc |-> pc, sm |-> sm, a |-> a]
NoSlots == [s \in 0 .. NSlots - 1 |-> 0]

SmDecRef(e, m, i) ==
    IF ~e.track THEN m
    ELSE [m EXCEPT !.sms[i].refs = @ - 1,
                   !.panic = @ \/ (OverflowChecks /\ m.sms[i].refs = 0),
                   !.free = IF m.sms[i].refs = 1 THEN Append(@, i) ELSE @]

\* mutant: the positions of a submatch are updated in place, shared or not
SmUpdateShared(e, m, i, s, sp) ==
    IF ~e.track \/ s >= NSlots THEN [m |-> m, sm |-> i]
    ELSE [sm |-> i, m |-> [m EXCEPT !.sms[i].slots[s] = sp]]

\* swap_remove(0): the last free entry takes the place of the first
SwapRemoveFirst(free) ==
    IF Len(free) = 1 THEN <<>> ELSE Front([free EXCEPT ![1] = Last(free)])

\* sm_update: copy on write of the positions a thread has saved
SmUpdate(e, m, i, s, sp) ==
    IF ~e.track \/ s >= NSlots THEN [m |-> m, sm |-> i]
    ELSE IF m.sms[i].refs = 1
    THEN [sm |-> i, m |-> [m EXCEPT !.sms[i].slots[s] = sp]]
    ELSE IF SmDecRef(e, m, i).free = <<>>
    THEN [sm |-> i, m |-> [m EXCEPT !.panic = TRUE]]
    ELSE LET j == SmDecRef(e, m, i).free[1]
             slots == [m.sms[i].slots EXCEPT ![s] = sp]
         IN  [sm |-> j,
              m |-> [SmDecRef(e, m, i) EXCEPT !.sms[j] = [refs |-> 1, slots |-> slots],
                                              !.free = SwapRemoveFirst(@)]]

RECURSIVE AddThread(_, _, _)

\* handle_save: a start keeps the assertion for the next comparison, an end
\* checks it where it stands
HandleSave(e, m, t, s, rev) ==
    LET at == e.sp + (IF ~e.initial /\ ~rev THEN LenUtf8(e.ch) ELSE 0)
        u == SmUpdate(e, m, t.sm, s, at)
    IN  IF (s % 2 = 0) # rev
        THEN AddThread(e, u.m, Thread(t.pc + 1, u.sm, t.a))
        ELSE IF t.a # "" /\ ~HoldsFor(t.a, e.prev, e.ch, e.next)
        THEN SmDecRef(e, m, t.sm)
        ELSE AddThread(e, u.m, Thread(t.pc + 1, u.sm, ""))

\* add_thread: the jumps, splits, saves and assertions that lead to the next
\* comparison, each instruction once for every character
AddThread(e, m, t) ==
    IF t.pc \in m.seen THEN SmDecRef(e, m, t.sm)
    ELSE LET op == Inst(e.prog, t)
             v == [m EXCEPT !.seen = @ \cup {t.pc}]
         IN  CASE op.op = "jump" -> AddThread(e, v, Thread(op.l1, t.sm, t.a))
               [] op.op = "split" ->
                    AddThread(e,
                        AddThread(e, [v EXCEPT !.sms[t.sm].refs = @ + 1],
                                  Thread(op.l1, t.sm, t.a)),
                        Thread(op.l2, t.sm, t.a))
               [] op.op = "assert" ->
                    AddThread(e, v, Thread(t.pc + 1, t.sm, op.a))
               [] op.op \in {"save", "rsave"} ->
                    HandleSave(e, v, t, op.s, op.op = "rsave")
               [] OTHER -> IF Len(v.nlist) = Len(e.prog) THEN [v EXCEPT !.panic = TRUE]
                           ELSE [v EXCEPT !.nlist = Append(@, t)]

\* the threads from i on end: their references are given back
EndLower(e, m, i) ==
    [FoldLeft(LAMBDA v, t : SmDecRef(e, v, t.sm), m,
              SubSeq(m.clist, i, Len(m.clist)))
        EXCEPT !.stop = TRUE]

\* step_thread, for the thread i of clist, and what run_vm does with its result
StepThread(e, m, i) ==
    LET t == m.clist[i]
        op == Inst(e.prog, t)
    IN  IF m.stop THEN m
        ELSE IF op.op = "match"
        THEN EndLower(e, [m EXCEPT !.matched = TRUE,
                                   !.best = m.sms[t.sm].slots], i)
        ELSE IF /\ op.op = "comp" /\ CompMatches(op.comp, e.ch)
                /\ (t.a = "" \/ HoldsFor(t.a, e.prev, e.ch, e.next))
        THEN AddThread(e, m, Thread(t.pc + 1, t.sm, ""))
        ELSE SmDecRef(e, m, t.sm)

\* the loop over clist
StepList(e, m) ==
    FoldLeft(LAMBDA x, i : StepThread(e, x, i), m, [k \in 1 .. Len(m.clist) |-> k])

\* the swap of the lists, with the characters and the generation moved on
Swapped(m, prev) ==
    [m EXCEPT !.clist = m.nlist, !.nlist = <<>>, !.seen = {}, !.stop = FALSE,
              !.prev = prev, !.next = ""]

\* the return from the middle of the loop, when only a match is asked for:
\* self.p, and so what is on nlist, and the characters are left as they are
Abandoned(e, m) ==
    [m EXCEPT !.seen = {}, !.stop = FALSE, !.prev = e.prev, !.next = e.next]

\* Regex::new: the machine of a regex that has not been used
NewVm(prog) ==
    [clist |-> <<>>, nlist |-> <<>>, seen |-> {}, stop |-> FALSE,
     sms |-> [i \in 0 .. Len(prog) - 1 |-> [refs |-> 0, slots |-> NoSlots]],
     free |-> [i \in 1 .. Len(prog) - 1 |-> i], prev |-> "", next |-> "",
     matched |-> FALSE, best |-> NoSlots, panic |-> FALSE]

\* The start of run_vm: the first thread has entry 0 of the pool, and the
\* other entries are as the last search left them.  So is nlist: threads that
\* an abandoned step put there come before the first ones of this search.
Fresh(e, m) ==
    Swapped(AddThread(e, [m EXCEPT !.matched = FALSE,
                                   !.sms[0] = [refs |-> 1, slots |-> NoSlots],
                                   !.free = [i \in 1 .. Len(e.prog) - 1 |-> i],
                                   !.best = NoSlots],
                      Thread(0, 0, "")),
            "")

\* the check of the last list, when the input has ended: the first thread at
\* the match instruction, if its end is not before the one already found
Final(prog, m) ==
    LET done(t) == /\ Inst(prog, t).op = "match"
                   /\ m.sms[t.sm].slots[1] >= m.best[1]
        i == SelectInSeq(m.clist, done)
    IN  IF i = 0 THEN m
        ELSE [m EXCEPT !.matched = TRUE, !.best = m.sms[m.clist[i].sm].slots]

(***************************************************************************)
(* Haystacks.  Byte(t, k) is the offset of the character after the first k.*)
(* A search reads a sequence of [at, ch].                                  *)
(***************************************************************************)
Byte(t, k) == FoldLeft(LAMBDA n, c : n + LenUtf8(c), 0, SubSeq(t, 1, k))
LenBytes(t) == Byte(t, Len(t))
Offsets(t) == {Byte(t, k) : k \in 0 .. Len(t)}
CharIndex(t, b) == CHOOSE k \in 0 .. Len(t) : Byte(t, k) = b

\* iter_from, iter_between and rev_iter_between
Between(t, from, to) ==
    [k \in 1 .. CharIndex(t, to) - CharIndex(t, from) |->
        [at |-> Byte(t, CharIndex(t, from) + k - 1), ch |-> t[CharIndex(t, from) + k]]]

\* The aho-corasick searcher with its default kind of match: it reports the
\* literal that ends first, and of those the longest.
Occurrences(lits, t, from) ==
    {<<i, i + Len(l)>> : i \in from .. Len(t), l \in lits} \cap
    UNION {{<<i, i + Len(l)>> : i \in {j \in from .. Len(t) :
                j + Len(l) <= Len(t) /\ SubSeq(t, j + 1, j + Len(l)) = l}} : l \in lits}
FirstEnding(occ) ==
    CHOOSE o \in occ : \A q \in occ : o[2] < q[2] \/ (o[2] = q[2] /\ o[1] <= q[1])

\* mutant: the search starts after the literal
FastOffsetAfter(lits, t, from) ==
    LET occ == Occurrences(lits, t, CharIndex(t, from))
    IN  IF lits = {} \/ occ = {} THEN from ELSE Byte(t, FirstEnding(occ)[2])

\* fast_update_byte_offset, for a contiguous haystack
FastOffset(lits, t, from) ==
    LET occ == Occurrences(lits, t, CharIndex(t, from))
    IN  IF lits = {} \/ occ = {} THEN from ELSE Byte(t, FirstEnding(occ)[1])

(***************************************************************************)
(* The searches.  q is [kind, text, from, to, contiguous, track], and      *)
(* stale: a history of whether it began with what another left over.       *)
(***************************************************************************)
None == [some |-> FALSE, slots |-> NoSlots]
Idle == [kind |-> "idle", text |-> <<>>, asked |-> 0, from |-> 0, to |-> 0,
         contiguous |-> FALSE, track |-> TRUE, stale |-> FALSE, input |-> <<>>]
NoResult == [q |-> Idle, res |-> None]
NoIter == [on |-> FALSE, text |-> <<>>, contiguous |-> FALSE, from |-> 0,
           prev |-> <<-1, 0>>]

Init ==
    /\ \E p \in Patterns, rev \in BOOLEAN :
          /\ Parse(p).st = "ok" /\ re = Compile(p, rev)
          /\ searches = IF p \in Reused THEN 0 ELSE MaxSearches - 1
    /\ vm = NewVm(re.prog)
    /\ search = Idle /\ pos = 0
    /\ last = NoResult
    /\ iter = NoIter

\* what step i of the search sees; the first threads see the characters that
\* the last search left
Env(q, i, initial) ==
    [prog |-> re.prog, track |-> q.track, initial |-> initial,
     sp |-> IF initial THEN q.from ELSE q.input[i].at,
     ch |-> IF initial THEN "" ELSE q.input[i].ch,
     prev |-> vm.prev,
     next |-> IF initial THEN vm.next ELSE IF i = Len(q.input) THEN "" ELSE q.input[i + 1].ch]

LeftOver == vm.nlist # <<>> \/ vm.prev # "" \/ vm.next # ""

Start(q) ==
    /\ search' = [q EXCEPT !.stale = LeftOver] /\ pos' = 0
    /\ vm' = Fresh(Env(q, 0, TRUE), vm)
    /\ last' = NoResult

\* a search that ends before the machine runs
StartNone(q) ==
    /\ last' = [q |-> q, res |-> None]
    /\ UNCHANGED <<search, pos, vm>>

\* the Regex is not in use; an iterator borrows it for itself, so that another
\* search means that the iterator has been dropped
CanStart ==
    /\ search.kind = "idle" /\ ~vm.panic
    /\ searches < MaxSearches
    /\ searches' = searches + 1 /\ UNCHANGED re

Query(kind, t, from, to, contiguous, track) ==
    [kind |-> kind, text |-> t, asked |-> from, from |-> from, to |-> to,
     contiguous |-> contiguous, track |-> track, stale |-> FALSE,
     input |-> Between(t, from, to)]

\* find, find_from, matches and matches_from
MatchFrom(kind, t, offset, contiguous, track) ==
    LET from == IF contiguous THEN FastOffset(re.fast, t, offset) ELSE offset
        q == Query(kind, t, from, LenBytes(t), contiguous, track)
    IN  IF from >= LenBytes(t) THEN StartNone([q EXCEPT !.asked = offset])
        ELSE Start([q EXCEPT !.asked = offset])

FindFrom(t, offset, contiguous, track) ==
    /\ CanStart /\ ~re.rev
    /\ MatchFrom("from", t, offset, contiguous, track)
    /\ iter' = NoIter

\* find_between and matches_between
FindBetween(t, from, to, contiguous, track) ==
    LET new == IF contiguous THEN FastOffset(re.fast, t, from) ELSE from
    IN  /\ CanStart /\ ~re.rev /\ from < to
        /\ IF new > to
           THEN StartNone(Query("between", t, from, to, contiguous, track))
           ELSE Start([Query("between", t, new, to, contiguous, track) EXCEPT
                          !.asked = from])
        /\ iter' = NoIter

\* RevRegex::find_rev_from: the characters before the offset, last first
FindRevFrom(t, offset) ==
    /\ CanStart /\ re.rev
    /\ Start([Query("rev", t, 0, offset, FALSE, TRUE) EXCEPT
                 !.from = offset, !.input = Reverse(@)])
    /\ iter' = NoIter

\* find_iter and MatchIter::next
FindIter(t, contiguous) ==
    /\ CanStart /\ ~re.rev /\ ~iter.on
    /\ iter' = [NoIter EXCEPT !.on = TRUE, !.text = t, !.contiguous = contiguous]
    /\ MatchFrom("iter", t, 0, contiguous, TRUE)
IterNext ==
    /\ search.kind = "idle" /\ ~vm.panic /\ iter.on
    /\ MatchFrom("iter", iter.text, iter.from, iter.contiguous, TRUE)
    /\ UNCHANGED <<re, iter, searches>>

\* mutant: a match of nothing does not move the iterator on
AfterMatchStays(it, start, end) ==
    [it EXCEPT !.prev = <<start, end>>, !.from = end]

\* MatchIter::next, when it has a match: a match of nothing moves it by a
\* character
AfterMatch(it, start, end) ==
    [it EXCEPT !.prev = <<start, end>>,
               !.from = IF end # it.from THEN end
                        ELSE @ + LenUtf8(it.text[CharIndex(it.text, @) + 1])]

\* the search ends with the machine m; clist is not read again
End(m) ==
    LET res == [some |-> m.matched, slots |-> m.best]
    IN  /\ last' = [q |-> search, res |-> res]
        /\ search' = Idle /\ pos' = 0
        /\ vm' = [m EXCEPT !.clist = <<>>, !.matched = FALSE, !.best = NoSlots]
        /\ iter' = IF search.kind # "iter" THEN iter
                   ELSE IF ~m.matched \/ m.best[0] > m.best[1] THEN NoIter
                   ELSE AfterMatch(iter, m.best[0], m.best[1])
        /\ UNCHANGED <<re, searches>>

\* one character of the main loop of run_vm
Step ==
    /\ search.kind # "idle" /\ ~vm.panic
    /\ pos < Len(search.input) /\ vm.clist # <<>>
    /\ LET e == Env(search, pos + 1, FALSE)
           m == StepList(e, vm)
       IN  IF m.matched /\ ~search.track /\ ~m.panic THEN End(Abandoned(e, m))
           ELSE /\ vm' = Swapped(m, e.ch) /\ pos' = pos + 1
                /\ UNCHANGED <<re, search, last, iter, searches>>

\* the end of run_vm
Finish ==
    /\ search.kind # "idle" /\ ~vm.panic
    /\ pos = Len(search.input) \/ vm.clist = <<>>
    /\ End([Final(re.prog, vm) EXCEPT !.prev = "", !.next = ""])

Next ==
    \/ \E t \in Texts, c, track \in BOOLEAN :
          \/ \E o \in Offsets(t) : FindFrom(t, o, c, track)
          \/ \E f, o \in Offsets(t) : FindBetween(t, f, o, c, track)
    \/ \E t \in Texts : \E o \in Offsets(t) : FindRevFrom(t, o)
    \/ \E t \in Texts, c \in BOOLEAN : FindIter(t, c)
    \/ IterNext
    \/ Step
    \/ Finish

Spec == Init /\ [][Next]_vars

(***************************************************************************)
(* What a pattern means: the ends of its matches that start after the      *)
(* first i characters of a text, the preferred one first.  A repetition    *)
(* does not repeat a match of nothing.                                     *)
(***************************************************************************)
Distinct(s) == FoldLeft(LAMBDA acc, x : IF x \in ToSet(acc) THEN acc ELSE Append(acc, x),
                        <<>>, s)
LineStartAt(t, i) == i = 0 \/ t[i] = NewLine
LineEndAt(t, i) == i = Len(t) \/ t[i + 1] = NewLine

RECURSIVE Ends(_, _, _), EndsOfSeq(_, _, _), EndsOfStar(_, _, _), EndsOfPlus(_, _, _)
EndsOfSeq(nodes, t, i) ==
    IF nodes = <<>> THEN <<i>>
    ELSE LET heads == Ends(Head(nodes), t, i)
         IN  Distinct(FlattenSeq([k \in DOMAIN heads |->
                                     EndsOfSeq(Tail(nodes), t, heads[k])]))
Leave(lazy, more, i) == IF lazy THEN <<i>> \o more ELSE Append(more, i)
EndsOfStar(r, t, i) ==
    LET once == SelectSeq(Ends(r.node, t, i), LAMBDA e : e # i)
    IN  Distinct(Leave(r.lazy,
                       FlattenSeq([k \in DOMAIN once |-> EndsOfStar(r, t, once[k])]), i))
EndsOfPlus(r, t, i) ==
    LET once == Ends(r.node, t, i)
    IN  Distinct(FlattenSeq([k \in DOMAIN once |->
            Leave(r.lazy, IF once[k] = i THEN <<>> ELSE EndsOfPlus(r, t, once[k]),
                  once[k])]))
Ends(ast, t, i) ==
    CASE ast.op = "comp" ->
            IF i < Len(t) /\ CompMatches(ast.comp, t[i + 1]) THEN <<i + 1>> ELSE <<>>
      [] ast.op = "assert" ->
            IF (ast.a = "lineStart" /\ LineStartAt(t, i)) \/ (ast.a = "lineEnd" /\ LineEndAt(t, i))
            THEN <<i>> ELSE <<>>
      [] ast.op = "sub" -> Ends(ast.node, t, i)
      [] ast.op = "concat" -> EndsOfSeq(ast.nodes, t, i)
      [] ast.op = "alt" -> Distinct(FlattenSeq([k \in DOMAIN ast.nodes |->
                                                  Ends(ast.nodes[k], t, i)]))
      [] ast.op = "rep" ->
            CASE ast.r = "star" -> EndsOfStar(ast, t, i)
              [] ast.r = "plus" -> EndsOfPlus(ast, t, i)
              [] ast.r = "quest" -> Distinct(Leave(ast.lazy, Ends(ast.node, t, i), i))

\* the characters a search was asked to look at
Asked(q) == SubSeq(q.text, CharIndex(q.text, q.asked) + 1, CharIndex(q.text, q.to))
Starts(ast, t) == {i \in 0 .. Len(t) : Ends(ast, t, i) # <<>>}
Leftmost(S) == CHOOSE i \in S : \A j \in S : i <= j

\* the result of q is the leftmost match, and at its start the preferred one
Exact(q, res) ==
    LET t == Asked(q)
        starts == Starts(re.ast, t)
        s == Leftmost(starts)
    IN  IF t = <<>> THEN ~res.some \/ q.kind = "between"
        ELSE /\ res.some = (starts # {})
             /\ res.some /\ q.track =>
                   /\ res.slots[0] = q.asked + Byte(t, s)
                   /\ res.slots[1] = q.asked + Byte(t, Ends(re.ast, t, s)[1])

\* every node of a tree satisfies P
RECURSIVE AllNodes(_, _)
AllNodes(ast, ops) == /\ ast.op \in ops
                      /\ \A k \in DOMAIN Kids(ast) : AllNodes(Kids(ast)[k], ops)
RECURSIVE NoOptional(_)
NoOptional(ast) == /\ ast.op # "alt"
                   /\ ~(ast.op = "rep" /\ ast.r \in {"quest", "star"})
                   /\ \A k \in DOMAIN Kids(ast) : NoOptional(Kids(ast)[k])

(***************************************************************************)
(* Properties.                                                             *)
(***************************************************************************)
(* The threads and the pool of submatches are well formed; threads wait on *)
(* nlist only between searches.                                            *)
TypeOK ==
    /\ pos \in 0 .. Len(search.input)
    /\ vm.seen = {} /\ ~vm.stop
    /\ search.kind # "idle" => vm.nlist = <<>>
    /\ \A k \in DOMAIN vm.clist :
          /\ vm.clist[k].pc \in 0 .. Len(re.prog) - 1
          /\ vm.clist[k].sm \in DOMAIN vm.sms
          /\ Inst(re.prog, vm.clist[k]).op \in {"comp", "match"}
    /\ ~search.stale =>
          \A i, j \in DOMAIN vm.clist : vm.clist[i].pc = vm.clist[j].pc => i = j

(* Between two characters every entry of the pool of submatches is either  *)
(* free, once, or counts exactly the threads that use it: the reference    *)
(* counts of sm_dec_ref and sm_update neither leak an entry nor give one   *)
(* away that a thread still writes to, and the pool never runs out.  Not so *)
(* in a search that began with threads of an earlier one.                  *)
RefsCounted ==
    ~search.stale =>
    /\ ~vm.panic
    /\ search.kind # "idle" /\ search.track =>
          \A i \in DOMAIN vm.sms :
             LET users == {k \in DOMAIN vm.clist : vm.clist[k].sm = i}
                 frees == {k \in DOMAIN vm.free : vm.free[k] = i}
             IN  IF users = {} THEN Cardinality(frees) = 1
                 ELSE frees = {} /\ vm.sms[i].refs = Cardinality(users)

(* A search of a haystack that is not contiguous, from an offset or between *)
(* two, returns the leftmost match and at its start the one its pattern     *)
(* prefers, with the offsets of its bytes; matches* says whether there is   *)
(* one.  The optimised program means what the pattern means.                *)
FoundExact ==
    ~last.q.stale /\ last.q.kind \in {"from", "between", "iter"} /\ ~last.q.contiguous
        => Exact(last.q, last.res)

(* The literals that a search of a contiguous haystack skips to never make  *)
(* it miss the leftmost match, for a pattern without alternatives and       *)
(* without parts that may be absent.                                        *)
FastStartExact ==
    ~last.q.stale /\ last.q.kind \in {"from", "iter"} /\ last.q.contiguous /\ NoOptional(re.ast)
        => Exact(last.q, last.res)

(* A search backwards finds a match exactly when there is one before the    *)
(* offset, what it finds is a match of the pattern, and none ends later.    *)
RevFindsLast ==
    ~last.q.stale /\ last.q.kind = "rev" /\ AllNodes(re.ast, {"comp", "concat", "alt", "rep", "sub"}) =>
        LET t == SubSeq(last.q.text, 1, CharIndex(last.q.text, last.q.to))
            found == {<<i, j>> \in (0 .. Len(t)) \X (0 .. Len(t)) :
                         j \in ToSet(Ends(re.ast, t, i))}
        IN  /\ last.res.some = (found # {})
            /\ last.res.some =>
                 /\ \E f \in found : /\ Byte(t, f[1]) = last.res.slots[0]
                                     /\ Byte(t, f[2]) = last.res.slots[1]
                 /\ \A f \in found : Byte(t, f[2]) <= last.res.slots[1]

(* The submatches of a match lie inside it and their starts are not after   *)
(* their ends, which Match::loc and Match::sub_loc assert.                  *)
SubmatchesInside ==
    last.res.some /\ ~last.q.stale /\ last.q.track =>
        \A n \in 0 .. re.n : 2 * n + 1 < NSlots =>
            LET s == last.res.slots[2 * n]
                e == last.res.slots[2 * n + 1]
            IN  /\ s <= e
                /\ <<s, e>> = <<0, 0>> \/ (last.res.slots[0] <= s /\ e <= last.res.slots[1])

(* The machine between two characters: its threads are at distinct          *)
(* instructions, the pool of submatches is counted exactly, and the         *)
(* submatches of what it found lie in order inside of the match (sm_update, *)
(* sm_dec_ref, Match::loc).  A Regex may have been used before, in every    *)
(* way but one: a search that only asked for a match, found it in the       *)
(* middle of a step and left the threads or characters of that step.        *)
VmInv ==
    /\ TypeOK
    /\ RefsCounted
    /\ SubmatchesInside

(* The matches of an iterator are in order and do not overlap, and no match *)
(* is returned twice.                                                       *)
IterAdvances ==
    [][ iter.on /\ iter' # iter /\ iter'.on =>
          /\ iter.prev[2] <= iter'.prev[1]
          /\ iter'.prev # iter.prev /\ iter'.from > iter.from ]_vars

(* The pattern of a tree parses to that tree: repetitions, groups, classes  *)
(* and alternatives bind as they are written.                               *)
ParsesBack == Parse(Unparse(re.ast)).ast = re.ast

(* A pattern finds what it means: parsed, compiled, optimised and run,      *)
(* forwards from an offset, with the literals of a fast start, backwards or *)
(* between two offsets, it gives the match that the reference semantics     *)
(* gives, also after other searches with the same Regex, unless the one     *)
(* just before only asked for a match and left something in the machine.    *)
FindsExact ==
    /\ FoundExact
    /\ FastStartExact
    /\ RevFindsLast
    /\ ParsesBack

(* What the test repeated_match_works says: the state that earlier searches *)
(* leave in a Regex does not change what the next one finds.                *)
ReuseExact ==
    /\ ~vm.panic
    /\ last.q.kind \in {"from", "between"} /\ ~last.q.contiguous
          => Exact(last.q, last.res)

(* What the comment in fast_update_byte_offset says: a match cannot start   *)
(* before the first literal that was found.                                 *)
FastStartSound ==
    last.q.kind \in {"from", "iter"} /\ last.q.contiguous /\ ~re.rev
        => Exact(last.q, last.res)

(* What Match::loc asserts of every match.                                  *)
LocInOrder == last.res.some /\ last.q.track => last.res.slots[0] <= last.res.slots[1]

=============================================================================
