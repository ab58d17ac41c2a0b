--------------------------- MODULE MC_NotifyWorker ---------------------------
(* Two devices with two queues each: enough for a notify of one device to  *)
(* race the worker draining the other, and for the drain loop to move past *)
(* the last device.                                                        *)
EXTENDS NotifyWorker

MC_Queues == 0 .. 1
====
