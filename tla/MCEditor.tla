------------------------------ MODULE MCEditor ------------------------------
(***************************************************************************)
(* What the actors around the editor do, one scene at a time.              *)
(***************************************************************************)
EXTENDS Editor

MCInputOf == << [k |-> "Char", c |-> "a"], [k |-> "Char", c |-> "b"], [k |-> "Esc"],
                [k |-> "Return"], [k |-> "Down"], [k |-> "Up"], [k |-> "Backspace"] >>

MCLower == [c \in {"A"} |-> "a"]

Act(name) == [a |-> name]
Ask(op) == [a |-> "Prompt", op |-> op]
Save(p, force) == [a |-> "SaveBuffer", path |-> p, force |-> force]
Quit(force) == [a |-> "Exit", force |-> force]
ToMode(m) == [a |-> "SetMode", m |-> m]

\* commands: "a" is quit, "b" is kill, "ab" is delete-buffer
MCCommandOf == (<<"a">> :> <<Quit(FALSE)>>) @@ (<<"b">> :> <<Act("Kill")>>)
               @@ (<<"a", "b">> :> <<[a |-> "DeleteBuffer", force |-> FALSE]>>)
MCPathOf == (<<"a">> :> "p1") @@ (<<"b">> :> "p2")
MCYes == {<<"b">>}

MCBufName == << <<"a">>, <<"b", "A">> >>
MCBufLines == << << <<"a">>, <<"A", "b">> >>, << <<"b">> >> >>
MCClientText == [c1 |-> <<"a", "b", NewLine, "A">>, c2 |-> <<"b", NewLine>>]

----------------------------------------------------------------------------
\* all small keymaps and overrides of them
KeySeqs == UNION { [1 .. n -> {1, 2}] : n \in 1 .. 2 } \cup {<<1, 2, 1>>, <<2, 1, 1>>}
Value(n) == << [a |-> "Noop", n |-> n] >>
SmallMaps(n) == {<<>>} \cup { << <<k, Value(n)>> >> : k \in KeySeqs }
                \cup { << <<k[1], Value(n)>>, <<k[2], Value(n + 1)>> >> : k \in KeySeqs \X KeySeqs }
Sound(n) == { m \in SmallMaps(n) : Consistent(m) }
MCKeyBindings == { [for |-> "keys", normal |-> d, over |-> o, insert |-> <<>>] : d \in Sound(1), o \in Sound(3) }

ModesBinding ==
    [for |-> "modes", over |-> <<>>, insert |-> << <<<<3>>, <<ToMode("NORMAL")>>>> >>,
     normal |-> << <<<<1>>, <<Ask("COMMAND")>>>>, <<<<2, 1>>, <<Act("SelectBuffer")>>>>,
                   <<<<2, 2>>, <<ToMode("INSERT"), Act("Search")>>>>,
                   <<<<5>>, <<[a |-> "SendKeys", ks |-> <<6, 7>>]>>>>, <<<<6>>, <<Quit(FALSE)>>>>,
                   <<<<7>>, <<[a |-> "DeleteBuffer", force |-> FALSE]>>>> >>]
FsysBinding ==
    [for |-> "fsys", over |-> <<>>, insert |-> <<>>, normal |-> << <<<<1>>, <<Ask("COMMAND")>>>> >>]
KidsBinding ==
    [for |-> "kids", over |-> <<>>, insert |-> <<>>,
     normal |-> << <<<<1>>, <<Ask("RUN")>>>>, <<<<2>>, <<Act("Kill")>>>>,
                   <<<<5>>, <<Act("ShellReplace")>>>> >>]
SaveBinding ==
    [for |-> "save", over |-> <<>>, insert |-> <<>>,
     normal |-> << <<<<1>>, <<Act("Edit")>>>>, <<<<3>>, <<Act("Reload")>>>>, <<<<2>>, <<Save(NoPath, FALSE), Quit(FALSE)>>>>,
                   <<<<5>>, <<Act("OpenAgain")>>>>, <<<<6>>, <<[a |-> "SaveAll", force |-> FALSE]>>>>,
                   <<<<7>>, <<Save("p2", FALSE)>>>> >>]

MCBindings == MCKeyBindings \cup {ModesBinding, FsysBinding, KidsBinding, SaveBinding}

Quiet == [name |-> "none", keys |-> {}, pastes |-> {}, ctl |-> {}, focus |-> {}, minibuffer |-> FALSE,
          lsp |-> {}, others |-> {}, files |-> {"p1"}, maxKeys |-> 4, maxOps |-> 2, clients |-> Clients]

KeysScene  == [Quiet EXCEPT !.name = "keys"]
ModesScene == [Quiet EXCEPT !.name = "modes", !.keys = {1, 2, 3, 5}, !.ctl = {<<"a", "b">>, <<"b">>},
                            !.pastes = {<<1, 2>>}, !.maxKeys = 3, !.maxOps = 1,
                            !.lsp = {[a |-> "MbSelect", lines |-> << <<"a">>, <<"b">> >>,
                                      as |-> <<Ask("EDIT")>>]}]
FsysScene  == [Quiet EXCEPT !.name = "fsys", !.keys = {2, 5}, !.minibuffer = TRUE]
KidsScene  == [Quiet EXCEPT !.name = "kids", !.keys = {1, 2, 5}, !.maxKeys = 5, !.ctl = {<<"b", "b">>},
                            !.clients = {"c1"}, !.maxOps = 1]
SaveScene  == [Quiet EXCEPT !.name = "save", !.keys = {1, 2, 3, 5, 6, 7}, !.others = {"p1"}, !.maxKeys = 4, 
                            !.focus = {2}, !.clients = {"c1"}, !.maxOps = 1]

MCScenes == {KeysScene, ModesScene, FsysScene, KidsScene, SaveScene}
=============================================================================
