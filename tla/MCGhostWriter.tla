---------------------------- MODULE MCGhostWriter ----------------------------
(***************************************************************************)
(* Instances of GhostWriter for TLC: windows, commands and answers.        *)
(***************************************************************************)
EXTENDS GhostWriter, TLC

CONSTANTS w1, w2, w3, w4, w5, w6, w7, w8, c1, c2, c3

TwoWindows == {w1, w2}
EightWindows == {w1, w2, w3, w4, w5, w6, w7, w8}
None == {}
TheLast == {w8}
OneCommand == {c1}
ThreeCommands == {c1, c2, c3}
Modes == c1 :> "write" @@ c2 :> "report" @@ c3 :> "track"
Writing == c1 :> "write"

PlainTwice == w1 :> "plain" @@ w2 :> "plain"
PlainAndMarkdown == w1 :> "plain" @@ w2 :> "md"
OneOfEach == w1 :> "plain" @@ w2 :> "code" @@ w3 :> "txt" @@ w4 :> "md"
             @@ w5 :> "docx" @@ w6 :> "xlsx" @@ w7 :> "pptx"
             @@ w8 :> "docx"

Text(clean, valid, form) == [clean |-> clean, valid |-> valid, form |-> form]
Good == Text(TRUE, TRUE, "prose")
\* Something for each decision: a good text, operations, a leak, a text the
\* validator refuses, nothing.
AllAnswers ==
    {Good, Text(TRUE, TRUE, "ops"), Text(FALSE, TRUE, "ops"),
     Text(TRUE, FALSE, "prose"), Empty}
GoodAnswers == {Good}
GoodOrBad == {Good, Text(TRUE, FALSE, "prose")}
=============================================================================
