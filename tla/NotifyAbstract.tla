--------------------------- MODULE NotifyAbstract ---------------------------
(***************************************************************************)
(* What the queue-notification path of src/src/virtio.c promises: a guest *)
(* write to QueueNotify marks (device, queue) pending; the worker thread   *)
(* calls queue_notify for a pending (device, queue) and so clears it; once *)
(* a stop is requested the worker may exit, and after that nothing is     *)
(* served.  Notifications of the same queue coalesce.  Every pending       *)
(* queue is served unless the worker exits first, and a requested stop    *)
(* makes the worker exit.                                                  *)
(***************************************************************************)
CONSTANTS Devices, Queues

VARIABLES pending, stopReq, exited
avars == <<pending, stopReq, exited>>

Init ==
  /\ pending = [d \in Devices |-> {}]
  /\ stopReq = FALSE
  /\ exited = FALSE

Notify(d, q) ==
  /\ pending' = [pending EXCEPT ![d] = @ \cup {q}]
  /\ UNCHANGED <<stopReq, exited>>

Serve(d, q) ==
  /\ ~exited
  /\ q \in pending[d]
  /\ pending' = [pending EXCEPT ![d] = @ \ {q}]
  /\ UNCHANGED <<stopReq, exited>>

RequestStop ==
  /\ ~stopReq
  /\ stopReq' = TRUE
  /\ UNCHANGED <<pending, exited>>

Exit ==
  /\ stopReq /\ ~exited
  /\ exited' = TRUE
  /\ UNCHANGED <<pending, stopReq>>

Next ==
  \/ \E d \in Devices, q \in Queues : Notify(d, q) \/ Serve(d, q)
  \/ RequestStop
  \/ Exit

Spec ==
  /\ Init /\ [][Next]_avars
  /\ WF_avars(Exit)
  /\ \A d \in Devices, q \in Queues : WF_avars(Serve(d, q))
====
