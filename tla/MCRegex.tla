------------------------------ MODULE MCRegex ------------------------------
(***************************************************************************)
(* Patterns and texts for the regex engine.                                *)
(***************************************************************************)
EXTENDS RegexVm

MCTexts == {<<"a">>, <<"b">>, <<"a", "b">>, <<"b", "a">>, <<"a", "a", "b">>,
            <<"b", "a", "b">>, <<"b", "w", "a">>, <<"a", NewLine, "b">>}

\* all patterns of up to three of these symbols
MCShort == UNION {[1 .. n -> {"a", "b", "|", "*"}] : n \in 1 .. 3}

\* patterns that need more: groups, classes, counts, anchors, lazy and nested
\* repetitions
MCLong == {<<"(", "a", "|", "b", ")", "*", "a">>,
           <<"(", "a", "*", ")", "*", "b">>,
           <<"(", "a", "b", "?", ")", "+">>,
           <<"a", "+", "?", "b", "?">>,
           <<"a", "*", "?", "b">>, <<"a", "?", "b">>, <<".", "*", "b">>,
           <<"a", ".">>, <<"a", "b">>, <<"b", "+">>,
           <<"a", "{", "2", "}">>, <<"a", "{", "1", ",", "}", "b">>,
           <<"a", "{", "1", ",", "2", "}">>,
           <<"^", "a">>, <<"^", "(", "a", "|", "b", ")", "+">>, <<"b", "$">>,
           <<"[", "a", "-", "b", "]", "w">>, <<"[", "^", "a", "]">>,
           <<"(", "?", "<", "x", ">", "a", ")", "(", "b", ")", "?">>,
           <<"(", "a", ")", "|", "(", "b", ")">>,
           <<"(", "?", ":", "a", "|", "b", "a", ")", "@">>,
           <<"(", "(", "a", ")", "b", "?", ")", "*">>,
           <<"a", "|", "b", "|", "a", "b">>,
           <<"\\", "w", "+", "\\", "s">>}
MCPatterns == MCShort \cup MCLong

\* the patterns that one Regex is used for twice with
MCReused == {<<"a", "b", "*">>, <<"a", "*", "b">>, <<"a", "|", "b">>,
             <<"(", "a", "*", ")", "*", "b">>, <<"(", "a", "b", "?", ")", "+">>,
             <<"b", "$">>, <<"(", "a", ")", "|", "(", "b", ")">>}

\* alternatives that end in a star, before another repetition
MCStripped == {<<"c", "a", "*", "|", "a", "b", "*">>}
=============================================================================
