---------------------------- MODULE MC_BlockAsync ----------------------------
(* Two heads on a 2-slot ring whose indices wrap at 4, with an            *)
(* asynchronous backend holding at most two I/Os.                         *)
EXTENDS BlockAsync

CONSTANTS h1, h2

MC_Heads == {h1, h2}
MC_Kinds == {"req"}
====
