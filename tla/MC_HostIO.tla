----------------------------- MODULE MC_HostIO -----------------------------
(* HostIO with a few characters: a plain char, the escape letters x, r, h *)
(* and C-a, in chunks that split an escape across two reads.               *)
EXTENDS HostIO

CA == "C-a"
MC_Chunks == {<<"a">>, <<CA>>, <<"h", "a">>, <<CA, CA>>, <<"a", CA, "r">>}
MC_EscapeChunks == {<<"a">>, <<CA>>, <<"x">>}
MC_ExitCodes == {0, 1}
====
