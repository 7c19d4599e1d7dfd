------------------------------- MODULE MCLsp -------------------------------
(* What the editor and the servers do, one scene at a time, and samples of *)
(* texts, edits and streams.                                               *)
EXTENDS Lsp, LspText, TLC

CONSTANTS MaxText, MaxEdits

VARIABLE sample    \* what LspText is checked with

MCFtypeOf == "d1" :> "f1" @@ "d2" :> "f1" @@ "d3" :> "f2"

Scene(docs, open, autostart, ops, maxOps, encs, results, pushes, says, faults, spawns) ==
    [docs |-> docs, open |-> open, autostart |-> autostart, ops |-> ops, maxOps |-> maxOps, encs |-> encs,
     results |-> results, pushes |-> pushes, says |-> says, faults |-> faults, spawns |-> spawns]

SyncScene == Scene({"d1", "d2"}, {}, TRUE, {"open", "close", "edit", "undo", "save", "reload", "focus", "hover"}, 4,
                   {"Utf16"}, {"none"}, 0, {}, {}, {})
FaultScene == Scene({"d1"}, {"d1"}, FALSE, {"start", "stop", "hover"}, 4, {"Utf8"}, {"none", "error"}, 0, {},
                    {"crash", "garbage"}, {FALSE})
AnswerScene == Scene({"d1", "d2"}, {}, TRUE, {"open", "goto", "references", "completion", "format", "prepareRename"}, 3,
                     {"Utf16"}, {"some"}, 0, {}, {}, {})
ProgressScene == Scene({"d1", "d3"}, {}, TRUE, {"open"}, 2, {"Utf16"}, {"none"}, 3, {"begin", "report", "end"}, {}, {})
DiagnosticsScene == Scene({"d1"}, {}, TRUE, {"open", "edit", "diagnostics"}, 3, {"Utf32"}, {"none"}, 2,
                          {"create", "diagnostics"}, {}, {})

(* nothing happens but that a sample is looked at *)
TextScene == Scene({}, {}, FALSE, {}, 0, {}, {}, 0, {}, {}, {})

MCScenes == {SyncScene, FaultScene, AnswerScene, ProgressScene, DiagnosticsScene, TextScene}

(* a server that wants an encoding that nobody offered, and servers that    *)
(* are started only because files are opened                                *)
EncodingScenes == {Scene({"d1"}, {"d1"}, FALSE, {"start"}, 1, {"unknown"}, {"none"}, 0, {}, {}, {})}
AutostartScenes == {SyncScene}

----------------------------------------------------------------------------
(* Samples.                                                                 *)

(* a letter, and a character of four bytes and two UTF-16 code units *)
MCUnits == [enc \in {"Utf8", "Utf16", "Utf32"} |->
              [c \in {"a", "g", "n"} |-> IF c # "g" \/ enc = "Utf32" THEN 1 ELSE IF enc = "Utf8" THEN 4 ELSE 2]]

Texts == UNION { [1 .. n -> {"a", "g", "n"}] : n \in 0 .. MaxText }
NoSample == [k |-> "none"]

EditsOf(t, enc, dot) ==
    { TextEdit(t, enc, r[1], r[2], s, dot) :
        r \in { q \in (0 .. Len(t)) \X (0 .. Len(t)) : q[1] <= q[2] }, s \in {<<>>, <<"a">>, <<"g", "n">>} }

Sample(k, t, enc) == [k |-> k, text |-> t, enc |-> enc, edits |-> <<>>]

(* two messages, with headers of other kinds around the length, cut off *)
FrameSamples ==
    LET other == Header("other", 0)
        framed(before, after, m, n) ==
            [i \in 1 .. before |-> other] \o <<Header("length", n)>> \o [i \in 1 .. after |-> other]
              \o Tail(WriteMessage(m, n))
    IN  UNION { { [k |-> "frames", cut |-> c, s |-> s] : c \in 0 .. Len(s) } :
                s \in { framed(b, a, "m1", n) \o framed(a, b, "m2", 3 - n) :
                            a, b \in 0 .. 1, n \in 1 .. 2 } }

MCInit ==
    /\ Init
    /\ IF scene = TextScene
       THEN sample \in { Sample(k, t, enc) : k \in {"edits", "completion"}, t \in Texts, enc \in Encodings }
                         \cup FrameSamples
       ELSE sample = NoSample

(* edits are added one by one; the first of a completion is the one that    *)
(* was picked, and the other is not at the same place (the protocol says). *)
AddEdit ==
    /\ sample.k \in {"edits", "completion"} /\ Len(sample.edits) < MaxEdits
    /\ \E e \in EditsOf(sample.text, sample.enc, sample.k = "completion" /\ sample.edits = <<>>) :
         /\ WellFormed(Append(sample.edits, e))
         /\ sample.k = "completion" => \A i \in DOMAIN sample.edits : sample.edits[i].i # e.i
         /\ sample' = [sample EXCEPT !.edits = Append(@, e)]
    /\ UNCHANGED vars

MCNext == (Next /\ UNCHANGED sample) \/ AddEdit
MCSpec == MCInit /\ [][MCNext]_<<vars, sample>> /\ Fairness

----------------------------------------------------------------------------
(* Properties of LspText.                                                   *)

(* A position that is sent to a server and comes back is the cursor it was  *)
(* taken from, in every encoding (lsp_position, parse_lsp_position).        *)
PositionsRoundTrip ==
    sample.k = "edits" =>
        \A i \in 0 .. Len(sample.text) :
            IdxOf(sample.text, ParseLspPosition(sample.enc, sample.text, BufferPos(sample.enc, sample.text, i))) = i

Applied == ApplyEdits(sample.enc, [txt |-> sample.text, dot |-> Cur(0), xdot |-> Cur(0)], sample.edits)

(* A list of edits makes of a text what the protocol says it does, although *)
(* it is carried out one edit at a time on a text that changes              *)
(* (edit_actions_as_editor_actions, as_addr, insert_xdot).                  *)
EditsExact ==
    (sample.k = "edits" /\ \A n \in DOMAIN sample.edits : ~EndsAtBlank(sample.text, sample.edits, sample.edits[n]))
        => Applied.txt = Edited(sample.text, sample.edits)

(* A completion with an additional edit elsewhere makes of the text what    *)
(* both say, and leaves the cursor behind what was completed: the           *)
(* additional edit is made by the xdot, and moves the dot along.            *)
CompletionExact ==
    (sample.k = "completion" /\ sample.edits # <<>> /\ \A n \in DOMAIN sample.edits : ~EndsAtBlank(sample.text, sample.edits, sample.edits[n]))
        => /\ Applied.txt = Edited(sample.text, sample.edits)
           /\ Applied.dot = Cur(CursorAfter(sample.edits, sample.text))

(* the messages of a stream, and whether it ended well *)
RECURSIVE ReadAll(_)
ReadAll(s) ==
    LET got == ReadMessage(s)
    IN  IF got.r # "message" THEN [ms |-> <<>>, r |-> got.r]
        ELSE LET rest == ReadAll(got.rest) IN [rest EXCEPT !.ms = <<got.m>> \o @]

(* A stream is read back as the messages that were written to it; one that  *)
(* is cut off gives the messages that are whole, and nothing in their place *)
(* (Message::read, Message::write).                                         *)
FramesExact ==
    sample.k = "frames" =>
        LET got == ReadAll(SubSeq(sample.s, 1, sample.cut))
        IN  /\ IsPrefix(got.ms, <<"m1", "m2">>)
            /\ sample.cut = Len(sample.s) => got.ms = <<"m1", "m2">> /\ got.r = "none"

(* What the editor and a server say about a text arrives as it was meant:   *)
(* positions in every encoding, lists of edits, completions with additional *)
(* edits, and the frames of the stream.                                     *)
TextExact ==
    /\ PositionsRoundTrip
    /\ EditsExact
    /\ CompletionExact
    /\ FramesExact

(* the end of a range at the start of a blank line is meant as such *)
BlankEditsExact ==
    sample.k = "edits" => Applied.txt = Edited(sample.text, sample.edits)
=============================================================================
