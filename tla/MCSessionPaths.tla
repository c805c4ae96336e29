--------------------------- MODULE MCSessionPaths ---------------------------
(* Session ids of up to three letters, underscores among them, some of which   *)
(* look like the prefix of Playwright ids; texts of four letters besides.      *)
EXTENDS SessionPaths

TextsOver(chars, lengths) == UNION {[1..n -> chars] : n \in lengths}

MCChar == {"r", "t", "a", "p", "_", "/", ".mp4", ".log"}
MCPrefix == <<"r">>
MCPw == <<"p", "_">>
MCArtifactSuffix == [e \in {"video", "logs"} |-> IF e = "video" THEN <<".mp4">> ELSE <<".log">>]
MCTokens == {<<"t">>, <<"t", "a">>, <<"a">>}
MCConfigured == {<<"t">>, <<"t", "a">>}
MCUpstreams == TextsOver({"a", "p", "_"}, 1..3)
MCRests == {<<>>, <<"/">>, <<"/", "a">>, <<"/", "_", "a">>}
MCTexts == {<<>>, <<"r", "_", "t", "_", "/", "a">>} \cup TextsOver({"r", "t", "_"}, 4..4)
=============================================================================
