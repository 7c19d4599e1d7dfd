------------------------------- MODULE MCExec -------------------------------
(* Texts, text objects, addresses and programs for the runs of Exec.         *)
EXTENDS Exec

(* "a" and "b" are letters, "p" and "q" are parentheses, "s" is a space, "t" *)
(* a tab, "n" a newline, "c" a colon and "w" a wide letter                   *)
MCKind  == [c \in Char |-> CASE c \in {"a", "b", "w"} -> "Word"
                             [] c \in {"p", "q", "c"} -> "Punctuation"
                             [] c \in {"s", "t", "n"} -> "Whitespace"]
MCWidth == [c \in Char |-> IF c = "w" THEN 2 ELSE 1]
MCAscii == [c \in Char |-> 1]
MCUtf8  == [c \in Char |-> IF c = "w" THEN 3 ELSE 1]

MCObjects ==
    { [obj |-> "Arr", arrow |-> ar] : ar \in {"Up", "Down", "Left", "Right"} }
    \cup { [obj |-> o] : o \in {"BufferEnd", "BufferStart", "Character", "LineEnd", "LineStart", "Line"} }
    \cup { [obj |-> "FindChar", f |-> [find |-> "char", ch |-> "b"]],
           [obj |-> "Delimited", f |-> [find |-> "delimited", l |-> "p", r |-> "q"]],
           [obj |-> "Paragraph", f |-> [find |-> "paragraph"]],
           [obj |-> "Word", f |-> [find |-> "word"]] }

MCDelimiters == << <<"n", "n">>, <<"p", "q">>, <<"s", "s">> >>
MCFileChars  == {"a", "b", "w", "c"}
MCFiles      == { <<"a", "b">> }
MCReadChar   == [l \in {"a", "b"} |-> l]

MCInputs ==
    { <<".">>, <<"-">>, <<"+">>, <<"-", "+">>, <<"$">>, <<"2">>, <<"+", "1">>, <<"-", "1">>,
      <<"#", "3">>, <<"+", "#", "1">>, <<"-", "#", "2">>, <<"2", ":", "2">>,
      <<"/", "a", "/">>, <<"-", "/", "a", "b", "/">>, <<",">>, <<"1", ",", "2">>,
      <<"/", "b", "/", "+">>, <<"-", "/", "a", "/", "+", "#", "1", ",", "$">>, <<"3", ":">>, <<"/", "a">> }
MCNeedles == { <<"b">>, <<"a", "a", "b">>, <<"n", "a">> }

Act(tag, arg) == [tag |-> tag, arg |-> arg]
Prog(in, pat, acts) == [in |-> in, pat |-> pat, acts |-> acts]
MCPrograms ==
    { Prog(<<",">>, <<"a">>, <<Act("c", <<"b", "b">>)>>),
      Prog(<<",">>, <<"a">>, <<Act("d", <<>>)>>),
      Prog(<<",">>, <<"b">>, <<Act("i", <<"a", Matched>>)>>),
      Prog(<<",">>, <<"a">>, <<Act("i", <<"p">>), Act("c", <<Matched, Matched>>), Act("a", <<"q">>)>>),
      Prog(<<"x">>, <<"a">>, <<Act("|", <<>>), Act("a", <<"s">>)>>),
      Prog(<<"1">>, <<>>, <<Act("<", <<"b">>)>>),
      Prog(<<"2">>, <<>>, <<Act("p", <<Matched>>)>>),
      Prog(<<"/", "b", "/">>, <<>>, <<>>),
      Prog(<<"#", "1", "2">>, <<>>, <<Act("i", <<"b">>)>>),
      Prog(<<"3", ":", "0">>, <<>>, <<Act("d", <<>>)>>) }
MCGroup == { Prog(<<",">>, <<"a">>, <<Act("a", <<"q">>), Act("i", <<"p">>)>>) }
MCEmpty == { Prog(<<",">>, <<"a">>, <<Act("c", <<>>)>>) }
MCPipe  == [m \in UNION { [1..n -> Char] : n \in 0..1 } |-> m \o m]

MCTexts ==
    { <<"a", "b", "n", "s", "a">>, <<"p", "a", "p", "b", "q", "q">>, <<"t", "a", "n", "n", "w">> }
MCOddTexts == { <<"a", "a", "a", "b">>, <<"a", "b", "b", "b">>, <<"w", "b", "w">> }
MCWide     == { Prog(<<",">>, <<"w">>, <<Act("c", <<"a">>)>>) }
MCStrings == { <<"a">> }

(* a user alone on a file *)
MCScenes == {[isFile |-> TRUE, features |-> {}, maxLen |-> 6, maxLog |-> 20]}
=============================================================================
