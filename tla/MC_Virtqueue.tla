----------------------------- MODULE MC_Virtqueue -----------------------------
(* Two heads on a ring of two slots whose indices wrap at 4: the driver    *)
(* can fill the ring, and both rings wrap within a few requests.          *)
EXTENDS Virtqueue

CONSTANTS h1, h2

MC_Heads == {h1, h2}
====
