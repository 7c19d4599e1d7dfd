---------------------------- MODULE RegexSyntax ----------------------------
(***************************************************************************)
(* The front end of the regex engine: src/regex/ast.rs and the classes and *)
(* escapes of src/regex/mod.rs.  A pattern is a sequence of characters; a  *)
(* character is a one letter string.  The parser returns a record          *)
(* [st, i, nodes]: what stopped it, where it stopped and the nodes it has  *)
(* built, and the tree it builds is made of records with a field "op".     *)
(*                                                                         *)
(* This module is made of recursive operators and is only model checked.   *)
(***************************************************************************)
EXTENDS Naturals, Sequences, FiniteSets, SequencesExt

(***************************************************************************)
(* Characters.  "w" stands for a character of two bytes.                   *)
(***************************************************************************)
NewLine == "\n"
Digits == <<"0", "1", "2", "3", "4", "5", "6", "7", "8", "9">>
Letters == <<"a", "b", "c", "w">>
IsDigit(c) == c \in ToSet(Digits)
IsWord(c) == IsDigit(c) \/ c \in ToSet(Letters) \/ c = "_"
IsSpace(c) == c \in {" ", NewLine}
LenUtf8(c) == IF c = "w" THEN 2 ELSE 1
\* the code points of the characters that can be the ends of a range
Code(c) == IF IsDigit(c) THEN 48 + SelectInSeq(Digits, LAMBDA d : d = c)
           ELSE IF c \in ToSet(Letters)
                THEN 97 + SelectInSeq(Letters, LAMBDA d : d = c)
                ELSE 32

(***************************************************************************)
(* Nodes.                                                                  *)
(***************************************************************************)
Comp(k) == [op |-> "comp", comp |-> k]
Char(c) == Comp([k |-> "char", c |-> c])
Assertion(a) == [op |-> "assert", a |-> a]
Rep(r, lazy, n) == [op |-> "rep", r |-> r, lazy |-> lazy, node |-> n]
SubMatch(kind, n) == [op |-> "sub", kind |-> kind, node |-> n]
Alt(ns) == [op |-> "alt", nodes |-> ns]
Concat(ns) == [op |-> "concat", nodes |-> ns]
ConcatOrNode(ns) == IF Len(ns) = 1 THEN ns[1] ELSE Concat(ns)

(***************************************************************************)
(* next_char: the next character of the pattern and whether it was escaped.*)
(***************************************************************************)
Escapes == {"*", "+", "?", ".", "@", "(", ")", "[", "]", "{", "}", "|", "\\",
            "^", "$", "-", "b", "B", "d", "D", "w", "W", "s", "S"}

NextChar(s, i) ==
    IF i > Len(s) THEN [st |-> "none", ch |-> "", esc |-> FALSE, i |-> i]
    ELSE IF s[i] # "\\"
         THEN [st |-> "some", ch |-> s[i], esc |-> FALSE, i |-> i + 1]
    ELSE IF i < Len(s) /\ s[i + 1] \in Escapes \cup {"n"}
         THEN [st |-> "some", esc |-> TRUE, i |-> i + 2,
               ch |-> IF s[i + 1] = "n" THEN NewLine ELSE s[i + 1]]
         ELSE [st |-> "error", ch |-> "", esc |-> FALSE, i |-> i]

\* the parser at position i with the nodes it has read
Go(i, nodes) == [st |-> "go", i |-> i, nodes |-> nodes]
Fail(e) == [st |-> e, i |-> 0, nodes |-> <<>>]
Ended(p) == p.st \in {"rparen", "eof"}
Failed(p) == p.st \notin {"go", "rparen", "eof"}

(***************************************************************************)
(* CharClass::try_parse, after the "[".                                    *)
(***************************************************************************)
RECURSIVE ClassRest(_, _, _)
ClassRest(s, n, cls) ==
    IF n.st # "some" THEN [st |-> "InvalidClass", i |-> 0, cls |-> cls]
    ELSE IF n.ch = "]" /\ ~n.esc THEN [st |-> "go", i |-> n.i, cls |-> cls]
    ELSE IF n.ch = "-" /\ ~n.esc
    THEN LET end == NextChar(s, n.i)
             start == Last(cls.chars)
         IN  IF \/ cls.chars = <<>> \/ end.st # "some"
                \/ Code(start) >= Code(end.ch)
             THEN [st |-> "InvalidClass", i |-> 0, cls |-> cls]
             ELSE ClassRest(s, NextChar(s, end.i),
                            [cls EXCEPT !.chars = Front(@),
                                        !.ranges = @ \cup {<<start, end.ch>>}])
    ELSE ClassRest(s, NextChar(s, n.i), [cls EXCEPT !.chars = Append(@, n.ch)])

ParseClass(s, i) ==
    LET first == NextChar(s, i)
        negated == first.ch = "^"
        n == IF negated THEN NextChar(s, first.i) ELSE first
    IN  IF n.st # "some" THEN [st |-> "InvalidClass", i |-> 0, cls |-> <<>>]
        ELSE ClassRest(s, NextChar(s, n.i),
                       [k |-> "class", negated |-> negated,
                        chars |-> <<n.ch>>, ranges |-> {}])

(***************************************************************************)
(* {n}, {n,} and {n,m}: try_parse_counted_repetition and parse_num, after  *)
(* the "{".                                                                *)
(***************************************************************************)
RECURSIVE ParseNum(_, _, _)
ParseNum(s, i, acc) ==
    IF i <= Len(s) /\ IsDigit(s[i])
    THEN ParseNum(s, i + 1, 10 * acc + (Code(s[i]) - 49))
    ELSE [n |-> acc, i |-> i]

At(s, i, c) == i <= Len(s) /\ s[i] = c
DigitAt(s, i) == i <= Len(s) /\ IsDigit(s[i])

ParseCounted(s, i) ==
    LET bad == [st |-> "InvalidRepetition", i |-> 0, n |-> 0, m |-> 0]
        n == ParseNum(s, i, 0)
        m == ParseNum(s, n.i + 1, 0)
    IN  IF ~DigitAt(s, i) \/ n.n = 0 THEN bad
        ELSE IF At(s, n.i, "}")
             THEN [st |-> "exactly", i |-> n.i + 1, n |-> n.n, m |-> 0]
        ELSE IF ~At(s, n.i, ",") THEN bad
        ELSE IF At(s, n.i + 1, "}")
             THEN [st |-> "atLeast", i |-> n.i + 2, n |-> n.n, m |-> 0]
        ELSE IF DigitAt(s, n.i + 1) /\ m.n # 0 /\ At(s, m.i, "}")
             THEN [st |-> "between", i |-> m.i + 1, n |-> n.n, m |-> m.n]
             ELSE bad

\* Counted::apply.  m - n is unsigned: {2,1} is a panic of the program.
ApplyCounted(c, i, nodes) ==
    IF nodes = <<>> THEN Fail("InvalidRepetition")
    ELSE LET last == Last(nodes)
             copies(k) == [j \in 1 .. k |-> last]
         IN  CASE c.st = "exactly" -> Go(i, Front(nodes) \o copies(c.n))
               [] c.st = "atLeast" ->
                    Go(i, Front(nodes) \o copies(c.n - 1)
                             \o <<Rep("plus", FALSE, last)>>)
               [] c.m < c.n -> Fail("panic")
               [] OTHER ->
                    Go(i, Front(nodes) \o copies(c.n)
                       \o [j \in 1 .. (c.m - c.n) |-> Rep("quest", FALSE, last)])

\* Rep::apply: a question mark after a repetition makes it lazy
ApplyRep(r, i, nodes) ==
    IF nodes = <<>> THEN Fail("InvalidRepetition")
    ELSE LET last == Last(nodes)
         IN  IF r = "quest" /\ last.op = "rep"
             THEN Go(i, Append(Front(nodes), Rep(last.r, TRUE, last.node)))
             ELSE Go(i, Append(Front(nodes), Rep(r, FALSE, last)))

HandleEscaped(ch) ==
    CASE ch = "b" -> Assertion("wordBoundary")
      [] ch = "B" -> Assertion("nonWordBoundary")
      [] ch \in {"d", "D", "w", "W", "s", "S"} -> Comp([k |-> ch])
      [] OTHER -> Char(ch)

(***************************************************************************)
(* parse1, parse_many, handle_char, handle_subexp and handle_alt.          *)
(***************************************************************************)
RECURSIVE ParseMany(_, _, _), AltRest(_, _, _, _)

\* the name of a group, up to and with the ">"
RECURSIVE NameEnd(_, _)
NameEnd(s, i) == IF i > Len(s) THEN i
                 ELSE IF s[i] = ">" THEN i + 1 ELSE NameEnd(s, i + 1)

SubexpKind(s, i) ==
    LET kind(st, j, k) == [st |-> st, i |-> j, kind |-> k]
        end == NameEnd(s, i + 2)
    IN  IF ~At(s, i, "?") THEN kind("go", i, "normal")
        ELSE IF At(s, i + 1, ":") THEN kind("go", i + 2, "nonCapturing")
        ELSE IF i + 1 > Len(s) THEN kind("UnbalancedParens", 0, "")
        ELSE IF ~At(s, i + 1, "<") THEN kind("UnknownGroupQualifier", 0, "")
        ELSE IF end > Len(s) THEN kind("UnclosedGroupName", 0, "")
        ELSE kind("go", end, "named")

\* buf.clear() between two alternatives
NextBuffer(p) == <<>>

SubexpNode(kind, sub, root) ==
    IF Failed(sub) THEN sub
    ELSE IF sub.st = "eof" THEN Fail("UnbalancedParens")
    ELSE IF sub.nodes = <<>> THEN Fail("EmptyParens")
    ELSE Go(sub.i, Append(root, SubMatch(kind, ConcatOrNode(sub.nodes))))
SubexpBody(s, k, root) ==
    IF k.st # "go" THEN Fail(k.st)
    ELSE SubexpNode(k.kind, ParseMany(s, k.i, <<>>), root)
HandleSubexp(s, i, root) == SubexpBody(s, SubexpKind(s, i), root)

CountedRep(c, root) ==
    IF c.st = "InvalidRepetition" THEN Fail(c.st) ELSE ApplyCounted(c, c.i, root)
ClassComp(c, root) ==
    IF c.st # "go" THEN Fail(c.st) ELSE Go(c.i, Append(root, Comp(c.cls)))

HandleChar(s, ch, i, root) ==
    CASE ch = "|" -> IF root = <<>> THEN Fail("UnbalancedAlt")
                     ELSE AltRest(s, i, <<ConcatOrNode(root)>>, <<>>)
      [] ch = "(" -> HandleSubexp(s, i, root)
      [] ch = ")" -> [st |-> "rparen", i |-> i, nodes |-> root]
      [] ch = "?" -> ApplyRep("quest", i, root)
      [] ch = "*" -> ApplyRep("star", i, root)
      [] ch = "+" -> ApplyRep("plus", i, root)
      [] ch = "{" -> CountedRep(ParseCounted(s, i), root)
      [] ch = "^" -> Go(i, Append(root, Assertion("lineStart")))
      [] ch = "$" -> Go(i, Append(root, Assertion("lineEnd")))
      [] ch = "[" -> ClassComp(ParseClass(s, i), root)
      [] ch = "." -> Go(i, Append(root, Comp([k |-> "any"])))
      [] ch = "@" -> Go(i, Append(root, Comp([k |-> "trueAny"])))
      [] OTHER -> Go(i, Append(root, Char(ch)))

ParseFrom(s, n, root) ==
    CASE n.st = "error" -> Fail("InvalidEscape")
      [] n.st = "none" -> [st |-> "eof", i |-> n.i, nodes |-> root]
      [] n.esc -> Go(n.i, Append(root, HandleEscaped(n.ch)))
      [] OTHER -> HandleChar(s, n.ch, n.i, root)
ParseOne(s, i, root) == ParseFrom(s, NextChar(s, i), root)

\* the loop of handle_alt, after parse1 has left the parser at p: p.nodes is
\* what the current alternative has read
AltStep(s, p, alts) ==
    IF Failed(p) THEN p
    ELSE IF Ended(p)
    THEN IF p.nodes = <<>> THEN Fail("UnbalancedAlt")
         ELSE Go(p.i, <<Alt(Append(alts, ConcatOrNode(p.nodes)))>>)
    ELSE IF At(s, p.i, "|")
    THEN AltRest(s, p.i + 1, Append(alts, ConcatOrNode(p.nodes)), NextBuffer(p))
    ELSE IF At(s, p.i, ")")
    THEN Go(p.i, <<Alt(Append(alts, ConcatOrNode(p.nodes)))>>)
    ELSE AltRest(s, p.i, alts, p.nodes)
AltRest(s, i, alts, buf) == AltStep(s, ParseOne(s, i, buf), alts)

ManyStep(s, p) == IF p.st = "go" THEN ParseMany(s, p.i, p.nodes) ELSE p
ParseMany(s, i, root) == ManyStep(s, ParseOne(s, i, root))

Kids(ast) == CASE ast.op \in {"alt", "concat"} -> ast.nodes
               [] ast.op \in {"rep", "sub"} -> <<ast.node>>
               [] OTHER -> <<>>

RECURSIVE ContainsNamed(_)
ContainsNamed(ast) ==
    \/ ast.op = "sub" /\ ast.kind = "named"
    \/ \E k \in DOMAIN Kids(ast) : ContainsNamed(Kids(ast)[k])

\* the tree with F applied to every node under it
WithKids(ast, kids) ==
    CASE ast.op \in {"alt", "concat"} -> [ast EXCEPT !.nodes = kids]
      [] ast.op \in {"rep", "sub"} -> [ast EXCEPT !.node = kids[1]]
      [] OTHER -> ast

RECURSIVE NamedSubmatchOnly(_)
NamedSubmatchOnly(ast) ==
    LET inner == WithKids(ast, [k \in DOMAIN Kids(ast) |->
                                    NamedSubmatchOnly(Kids(ast)[k])])
    IN  IF inner.op = "sub" /\ inner.kind = "normal"
        THEN [inner EXCEPT !.kind = "nonCapturing"] ELSE inner

\* parse: a ")" with no "(" ends the pattern and what follows is not read
NamedOrAll(root) == IF ContainsNamed(root) THEN NamedSubmatchOnly(root) ELSE root
ParseResult(p) ==
    [st |-> IF Failed(p) THEN p.st
            ELSE IF p.nodes = <<>> THEN "EmptyRegex" ELSE "ok",
     ast |-> IF p.nodes = <<>> THEN Concat(<<>>)
             ELSE NamedOrAll(ConcatOrNode(p.nodes))]
Parse(s) == ParseResult(ParseMany(s, 1, <<>>))

(***************************************************************************)
(* The pattern of a tree: what the parser is checked against.              *)
(***************************************************************************)
RepSymbol(r) == CASE r = "quest" -> "?" [] r = "star" -> "*" [] r = "plus" -> "+"
CompText(k) ==
    CASE k.k = "char" -> IF k.c \in Escapes \ {"b", "w", "d", "s", "-"}
                         THEN <<"\\", k.c>> ELSE <<k.c>>
      [] k.k = "any" -> <<".">>
      [] k.k = "trueAny" -> <<"@">>
      [] k.k = "class" ->
            <<"[">> \o (IF k.negated THEN <<"^">> ELSE <<>>)
               \o FlattenSeq([r \in 1 .. Cardinality(k.ranges) |->
                                <<SetToSeq(k.ranges)[r][1], "-",
                                  SetToSeq(k.ranges)[r][2]>>])
               \o k.chars \o <<"]">>
      [] OTHER -> <<"\\", k.k>>
AssertionText(a) ==
    CASE a = "lineStart" -> <<"^">> [] a = "lineEnd" -> <<"$">>
      [] a = "wordBoundary" -> <<"\\", "b">>
      [] a = "nonWordBoundary" -> <<"\\", "B">>

RECURSIVE Unparse(_)
Unparse(ast) ==
    CASE ast.op = "comp" -> CompText(ast.comp)
      [] ast.op = "assert" -> AssertionText(ast.a)
      [] ast.op = "rep" -> Append(Unparse(ast.node), RepSymbol(ast.r))
                              \o (IF ast.lazy THEN <<"?">> ELSE <<>>)
      [] ast.op = "sub" ->
            <<"(">> \o (CASE ast.kind = "normal" -> <<>>
                          [] ast.kind = "named" -> <<"?", "<", "x", ">">>
                          [] OTHER -> <<"?", ":">>)
               \o Unparse(ast.node) \o <<")">>
      [] ast.op = "concat" ->
            FlattenSeq([k \in DOMAIN ast.nodes |-> Unparse(ast.nodes[k])])
      [] ast.op = "alt" ->
            Tail(FlattenSeq([k \in DOMAIN ast.nodes |->
                                <<"|">> \o Unparse(ast.nodes[k])]))

(***************************************************************************)
(* Ast::optimise: nested concatenations of the root are flattened and the  *)
(* classes of digits become \d and \D.                                     *)
(***************************************************************************)
RECURSIVE CompressCats(_)
CompressCats(nodes) ==
    LET flat == FlattenSeq([k \in DOMAIN nodes |->
                    IF nodes[k].op = "concat" THEN nodes[k].nodes
                    ELSE <<nodes[k]>>])
    IN  IF flat = nodes THEN nodes ELSE CompressCats(flat)

ReplaceCommonClasses(k) ==
    IF k.k = "class" /\ k.chars = <<>> /\ k.ranges = {<<"0", "9">>}
    THEN [k |-> IF k.negated THEN "D" ELSE "d"] ELSE k

Optimise(ast) ==
    CASE ast.op = "comp" -> Comp(ReplaceCommonClasses(ast.comp))
      [] ast.op = "concat" -> Concat(CompressCats(ast.nodes))
      [] OTHER -> ast

\* Ast::reverse: the alternatives of an Alt are reversed too
RECURSIVE ReverseAst(_)
ReverseAst(ast) ==
    IF ast = Assertion("lineStart") THEN Assertion("lineEnd")
    ELSE IF ast = Assertion("lineEnd") THEN Assertion("lineStart")
    ELSE WithKids(ast, Reverse([k \in DOMAIN Kids(ast) |->
                                    ReverseAst(Kids(ast)[k])]))

\* Ast::op_len and Rep::op_len: how many instructions a node compiles to
RECURSIVE OpLen(_)
OpLen(ast) ==
    LET lens == FoldLeft(LAMBDA n, k : n + OpLen(k), 0, Kids(ast))
    IN  CASE ast.op \in {"comp", "assert"} -> 1
          [] ast.op = "alt" -> lens + 2 * (Len(ast.nodes) - 1)
          [] ast.op = "concat" -> lens
          [] ast.op = "sub" -> IF ast.kind = "nonCapturing" THEN lens ELSE lens + 2
          [] ast.op = "rep" -> IF ast.r = "star" THEN lens + 2 ELSE lens + 1

(***************************************************************************)
(* Comp::matches and Assertion::holds_for.  prev and next are "" at the    *)
(* ends of the input.                                                      *)
(***************************************************************************)
ClassMatches(k, ch) ==
    LET in == \/ ch \in ToSet(k.chars)
              \/ \E r \in k.ranges : Code(r[1]) <= Code(ch) /\ Code(ch) <= Code(r[2])
    IN  IF k.negated THEN ch # NewLine /\ ~in ELSE in

CompMatches(k, ch) ==
    CASE k.k = "char" -> k.c = ch
      [] k.k = "class" -> ClassMatches(k, ch)
      [] k.k = "any" -> ch # NewLine
      [] k.k = "trueAny" -> TRUE
      [] k.k = "d" -> IsDigit(ch)
      [] k.k = "D" -> ~IsDigit(ch)
      [] k.k = "w" -> IsWord(ch) /\ ch # "w"
      [] k.k = "W" -> ~(IsWord(ch) /\ ch # "w")
      [] k.k = "s" -> IsSpace(ch)
      [] k.k = "S" -> ~IsSpace(ch)

CharKind(ch) == IF IsWord(ch) THEN "word" ELSE IF IsSpace(ch) THEN "space"
                                              ELSE "punct"
IsWordBoundary(p, ch) == CharKind(p) # CharKind(ch)

HoldsFor(a, prev, ch, next) ==
    CASE a = "lineStart" -> prev \in {"", NewLine}
      [] a = "lineEnd" -> next \in {"", NewLine}
      [] a = "wordBoundary" ->
            prev = "" \/ next = "" \/ IsWordBoundary(prev, ch)
                                   \/ IsWordBoundary(ch, next)
      [] a = "nonWordBoundary" ->
            ~(prev = "" \/ next = "" \/ IsWordBoundary(prev, ch)
                                     \/ IsWordBoundary(ch, next))

(***************************************************************************)
(* Ast::leading_literals: the strings a match can start with, as far as    *)
(* the code works them out; <<>> is the empty string.                      *)
(***************************************************************************)
CONSTANT MaxLeadingLiterals
ASSUME MaxLiteralsAssumption == MaxLeadingLiterals \in Nat

Combine(lits, more) == {l \o m : l \in lits, m \in more}
Capped(lits, ongoing) ==
    IF Cardinality(lits) > MaxLeadingLiterals
    THEN [lits |-> {}, on |-> FALSE] ELSE [lits |-> lits, on |-> ongoing]

RangeChars(r) == {c \in ToSet(Digits) \cup ToSet(Letters) :
                    Code(r[1]) <= Code(c) /\ Code(c) <= Code(r[2])}
CompLiterals(k) ==
    CASE k.k = "char" -> [lits |-> {<<k.c>>}, on |-> TRUE]
      [] k.k = "d" -> [lits |-> {<<d>> : d \in ToSet(Digits)}, on |-> TRUE]
      [] k.k = "class" /\ ~k.negated ->
            LET ranged == UNION {RangeChars(r) : r \in k.ranges}
            IN  IF Len(k.chars) + Cardinality(ranged) <= MaxLeadingLiterals
                THEN [lits |-> {<<c>> : c \in ToSet(k.chars) \cup ranged},
                      on |-> TRUE]
                ELSE [lits |-> {}, on |-> FALSE]
      [] OTHER -> [lits |-> {}, on |-> FALSE]

RECURSIVE Literals(_), ConcatLiterals(_, _, _)

Literals(ast) ==
    CASE ast.op = "comp" -> CompLiterals(ast.comp)
      [] ast.op = "assert" -> [lits |-> {}, on |-> FALSE]
      [] ast.op = "sub" -> Literals(ast.node)
      [] ast.op = "concat" -> ConcatLiterals(ast.nodes, {<<>>}, TRUE)
      [] ast.op = "alt" ->
            Capped(UNION {Literals(ast.nodes[k]).lits \ {<<>>} :
                             k \in DOMAIN ast.nodes}, TRUE)
      [] ast.op = "rep" ->
            LET lits == Literals(ast.node).lits \ {<<>>}
            IN  [on |-> FALSE,
                 lits |-> IF ast.r \in {"quest", "star"} /\ lits # {}
                          THEN lits \cup {<<>>} ELSE lits]

\* leading_literals_for_concat
ConcatLiterals(nodes, lits, ongoing) ==
    IF nodes = <<>> \/ ~ongoing THEN [lits |-> lits, on |-> ongoing]
    ELSE LET n == Head(nodes)
             own == Literals(n)
             both == Combine(lits, own.lits)
         IN  CASE n.op = "assert" -> [lits |-> lits, on |-> FALSE]
               [] n.op = "rep" /\ n.r = "plus" -> Capped(both, own.on)
               [] n.op = "rep" /\ n.r = "star" ->
                    LET with == IF own.lits = {} THEN lits
                                ELSE both \cup Combine(lits,
                                        ConcatLiterals(Tail(nodes), {<<>>}, TRUE).lits)
                        capped == Capped(with, own.on)
                    IN  [capped EXCEPT !.lits = @ \ {<<>>}]
               [] OTHER -> LET c == Capped(both, own.on)
                           IN  IF c.lits # both THEN c
                               ELSE ConcatLiterals(Tail(nodes), c.lits, own.on)

LeadingLiterals(ast) == Literals(ast).lits \ {<<>>}
=============================================================================
