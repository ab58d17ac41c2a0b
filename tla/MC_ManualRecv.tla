--------------------------- MODULE MC_ManualRecv ---------------------------
(* Instantiates ManualRecv for TLC: the net rx, mouse, keyboard and       *)
(* console rx queues, two buffers each on a 2-slot ring whose indices wrap *)
(* at 4.                                                                   *)
EXTENDS ManualRecv

MC_Devs == {"net", "mouse", "kbd", "console"}
MC_Bufs == {"b1", "b2"}
MC_Mouse == {"mouse"}
====
