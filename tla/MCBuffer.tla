------------------------------ MODULE MCBuffer ------------------------------
(* Model values for the runs of Buffer.                                      *)
EXTENDS Buffer

CONSTANTS a, e2     \* a letter, and (in the runs that have it) a two-byte one

MCAscii == [c \in Char |-> 1]
MCUtf8  == [c \in Char |-> IF c = e2 THEN 2 ELSE 1]

MCStrings == {<<>>, <<a, NL>>}
MCUtf8Strings == {<<e2>>, <<a>>}
MCTexts == {<<a, NL>>}
MCNoTexts == {}

----------------------------------------------------------------------------
Scene(isFile, features, maxLen, maxLog) ==
    [isFile |-> isFile, features |-> features, maxLen |-> maxLen, maxLog |-> maxLog]

\* the user alone, who makes longer histories, and everybody on one file
MCScenes ==
    { Scene(TRUE, {}, 3, 6), Scene(FALSE, {}, 3, 6), Scene(TRUE, {"clients", "reload"}, 2, 3) }

\* for the runs that show what does not hold
MCFileScenes    == {Scene(TRUE, {}, 3, 5)}
MCScratchScenes == {Scene(FALSE, {}, 3, 5)}
MCUtf8Scenes    == {Scene(FALSE, {}, 3, 7)}
MCReloadScenes  == {Scene(TRUE, {"reload"}, 3, 5)}
MCClientScenes  == {Scene(FALSE, {"clients"}, 3, 5)}
=============================================================================
