------------------------------ MODULE MCEditor ------------------------------
(* Two lines of text in two runs, the second run starting with a mark that   *)
(* joins the emoji before it; what others insert may join as well.           *)
EXTENDS Editor

MCBase == <<"newline", "emoji", "mark">>
MCTexts == {<<"letter", "emoji">>}
MCCompositions == {<<"letter", "mark">>}
MCPeerTexts == {"mark"}
MCReplicas == <<1, 3>>
=============================================================================
