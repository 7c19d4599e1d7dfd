------------------------------- MODULE Keymap -------------------------------
(***************************************************************************)
(* The tries that map sequences of keys to what they do (src/src/trie.rs)  *)
(* and how a mode looks up the keys that are pending (src/src/mode/).      *)
(*                                                                         *)
(* A trie is built as a forest of nodes and then flattened into one array  *)
(* in which the children of a node are adjacent and in the order of their  *)
(* keys.  Keys are numbers; a value is whatever is bound.                  *)
(***************************************************************************)
EXTENDS Integers, FiniteSets, SequencesExt

EmptyTrie == [nodes |-> <<>>, values |-> <<>>, roots |-> 0]

Failed == [ok |-> FALSE, nodes |-> <<>>]
Built(nodes) == [ok |-> TRUE, nodes |-> nodes]

BuildLeaf(k, v) == [k |-> k, leaf |-> TRUE, v |-> v, kids |-> <<>>]
BuildInternal(k, kids) == [k |-> k, leaf |-> FALSE, v |-> 0, kids |-> kids]

RECURSIVE Insert(_, _, _)

(* a key may neither be there already nor extend, nor be extended by, another *)
Insert(key, v, current) ==
    LET at == SelectInSeq(current, LAMBDA n : n.k = Head(key))
    IN  IF at # 0
        THEN IF Len(key) <= 1 \/ current[at].leaf THEN Failed
             ELSE LET sub == Insert(Tail(key), v, current[at].kids)
                  IN  IF sub.ok THEN Built([current EXCEPT ![at].kids = sub.nodes]) ELSE Failed
        ELSE IF Len(key) = 1 THEN Built(Append(current, BuildLeaf(key[1], v)))
        ELSE Built(Append(current, BuildInternal(key[1], Insert(Tail(key), v, <<>>).nodes)))

RECURSIVE Flatten(_, _, _)

(* The roots go to the end of the array, then the children of each inner one, *)
(* which then learns where its children start.                                *)
Flatten(roots, nodes, values) ==
    LET sorted == SortSeq(roots, LAMBDA l, r : l.k < r.k)
        Push(acc, n) ==
            IF n.leaf
            THEN [acc EXCEPT !.nodes = Append(@, [key |-> n.k, leaf |-> TRUE,
                                                  i |-> Len(acc.values) + 1, n |-> 0]),
                             !.values = Append(@, n.v)]
            ELSE [acc EXCEPT !.nodes = Append(@, [key |-> n.k, leaf |-> FALSE, i |-> 0,
                                                  n |-> Len(n.kids)]),
                             !.stack = Append(@, [at |-> Len(acc.nodes) + 1, kids |-> n.kids])]
        pushed == FoldLeft(Push, [nodes |-> nodes, values |-> values, stack |-> <<>>], sorted)
        Fill(acc, s) ==
            LET sub == Flatten(s.kids, acc.nodes, acc.values)
            IN  [nodes |-> [sub.nodes EXCEPT ![s.at].i = sub.start], values |-> sub.values]
        filled == FoldLeft(Fill, [nodes |-> pushed.nodes, values |-> pushed.values], pushed.stack)
    IN  [nodes |-> filled.nodes, values |-> filled.values, start |-> Len(nodes) + 1]

NoTrie == [nodes |-> <<>>, values |-> <<>>, roots |-> -1]

(* NoTrie stands for the error *)
TryFromIter(pairs) ==
    LET Add(acc, p) == IF acc.ok THEN Insert(p[1], p[2], acc.nodes) ELSE acc
        Finish(built) ==
            LET flat == Flatten(built.nodes, <<>>, <<>>)
            IN  IF ~built.ok THEN NoTrie
                ELSE [nodes |-> flat.nodes, values |-> flat.values, roots |-> Len(built.nodes)]
    IN  Finish(FoldLeft(Add, Built(<<>>), pairs))

RECURSIVE ExtractPairs(_, _, _)

ExtractPairs(t, key, indices) ==
    FlattenSeq([k \in 1 .. Len(indices) |->
        LET n == t.nodes[indices[k]]
        IN  IF n.leaf THEN << <<Append(key, n.key), t.values[n.i]>> >>
            ELSE ExtractPairs(t, Append(key, n.key), [j \in 1 .. n.n |-> n.i + j - 1])])

Pairs(t) == ExtractPairs(t, <<>>, [j \in 1 .. t.roots |-> j])

Merge(t, other) ==
    IF t.nodes = <<>> THEN other
    ELSE IF other.nodes = <<>> THEN t
    ELSE TryFromIter(Pairs(t) \o Pairs(other))

(* the bindings of other replace those of t with the same keys *)
MergeOverriding(t, other) ==
    LET theirs == { p[1] : p \in ToSet(Pairs(other)) }
    IN  IF t.nodes = <<>> THEN other
        ELSE IF other.nodes = <<>> THEN t
        ELSE TryFromIter(SelectSeq(Pairs(t), LAMBDA p : p[1] \notin theirs) \o Pairs(other))

Missing == [t |-> "Missing"]
Partial == [t |-> "Partial"]
Val(v)  == [t |-> "Val", v |-> v]

(* level by level; a greater key ends the search of a level *)
Get(t, key) ==
    LET RECURSIVE Level(_, _, _)
        Level(at, first, n) ==
            IF at > Len(key) THEN Partial
            ELSE LET stop == { i \in first .. first + n - 1 : t.nodes[i].key >= key[at] }
                     i == CHOOSE i \in stop : \A j \in stop : i <= j
                 IN  IF stop = {} \/ t.nodes[i].key # key[at] THEN Missing
                     ELSE IF ~t.nodes[i].leaf THEN Level(at + 1, t.nodes[i].i, t.nodes[i].n)
                     ELSE IF at = Len(key) THEN Val(t.values[t.nodes[i].i]) ELSE Missing
    IN  IF key = <<>> THEN Missing ELSE Level(1, 1, t.roots)

NLeaves(t) == Len(SelectSeq(t.nodes, LAMBDA n : n.leaf))

----------------------------------------------------------------------------
(* Modes.  expired says what becomes of keys that are bound to nothing:     *)
(* dropped, passed on when they are one raw key (normal mode) or passed on  *)
(* one by one (insert mode).                                                *)

NoActions == <<>>

RawInput(i) == [a |-> "RawInput", i |-> i]

CONSTANT RawKeys    \* the arrows, the page keys and the mouse

HandleExpired(expired, keys) ==
    CASE expired = "None"   -> NoActions
      [] expired = "Normal" ->
            IF Len(keys) = 1 /\ keys[1] \in RawKeys THEN <<RawInput(keys[1])>> ELSE NoActions
      [] expired = "Insert" -> [k \in 1 .. Len(keys) |-> RawInput(keys[k])]

Mode(name, keymap, expired) == [name |-> name, keymap |-> keymap, expired |-> expired]

EphemeralMode(name) == Mode(name, EmptyTrie, "None")

(* overrides that cannot be merged leave the mode as it was *)
WithOverrides(m, overrides) ==
    LET merged == MergeOverriding(m.keymap, overrides)
    IN  IF merged = NoTrie THEN m ELSE [m EXCEPT !.keymap = merged]

(* mutant: keys that are bound to nothing stay pending *)
HandleKeysKept(m, keys) ==
    LET found == Get(m.keymap, keys)
    IN  CASE found.t = "Val"     -> [keys |-> <<>>, actions |-> found.v]
          [] found.t = "Partial" -> [keys |-> keys, actions |-> NoActions]
          [] found.t = "Missing" -> [keys |-> keys, actions |-> HandleExpired(m.expired, keys)]

HandleKeys(m, keys) ==
    LET found == Get(m.keymap, keys)
    IN  CASE found.t = "Val"     -> [keys |-> <<>>, actions |-> found.v]
          [] found.t = "Partial" -> [keys |-> keys, actions |-> NoActions]
          [] found.t = "Missing" -> [keys |-> <<>>, actions |-> HandleExpired(m.expired, keys)]
=============================================================================
