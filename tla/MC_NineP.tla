------------------------------- MODULE MC_NineP -------------------------------
(* The 9P device with two fids, a pool of three FSFiles (two bound and one *)
(* being created), every request kind, and at most two opens outstanding.  *)
EXTENDS NineP, TLC

CONSTANTS f1, f2, f3, fidA, fidB

MC_Files == {f1, f2, f3}
MC_Fids  == {fidA, fidB}
MC_Ops   == {"attach", "walk", "clunk", "lopen", "read", "other"}

MC_Symmetry == Permutations(MC_Files) \cup Permutations(MC_Fids)
====
