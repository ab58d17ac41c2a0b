---------------------------- MODULE NotifyWorker ----------------------------
(***************************************************************************)
(* The queue-notification path of src/src/virtio.c (lines 2893-2979):     *)
(* async_queue_notify, run by the dispatcher thread on a guest write to    *)
(* QueueNotify, pending_notify_worker, the "VirtIO queues" thread, and     *)
(* virtio_stop_pending_notify_thread.                                      *)
(*                                                                         *)
(* Shared state: the per-device atomic bitset pending_queue_notify, and    *)
(* the flags pending_notify and pending_notify_stop guarded by             *)
(* pending_notify_lock, with the condition variable pending_notify_cond.   *)
(* Every critical section of pending_notify_lock is one step here: the     *)
(* flags are only touched under the lock, so its sections are atomic with  *)
(* respect to each other.  pthread_cond_wait releases the lock and blocks  *)
(* in one step, and a woken waiter takes the lock again in a later step.   *)
(* The atomic fetch_or and exchange on pending_queue_notify are steps of   *)
(* their own, outside the lock, as in the code.                            *)
(***************************************************************************)
EXTENDS Naturals, FiniteSets, FiniteSetsExt

CONSTANTS
  NumDevices,   \* the n devices handed to the worker, ps[0 .. n-1]
  Queues,       \* queue indices a guest may notify (< MAX_QUEUE)
  MaxNotify     \* bound on the number of QueueNotify writes

Devices == 1 .. NumDevices

VARIABLES
  pendingQueueNotify,  \* device -> set of queue bits (pending_queue_notify)
  pendingNotify,       \* pending_notify
  pendingNotifyStop,   \* pending_notify_stop
  wpc,                 \* worker: "lock" | "wait" | "exchange" | "serve" | "exited"
  wDev,                \* worker: device index i of the drain loop
  wBits,               \* worker: its local copy `notify` of the device's bits
  dpc,                 \* dispatcher in async_queue_notify: "idle" | "wake"
  notifies,            \* QueueNotify writes so far
  stopCalled           \* virtio_stop_pending_notify_thread has run

vars == <<pendingQueueNotify, pendingNotify, pendingNotifyStop, wpc, wDev,
          wBits, dpc, notifies, stopCalled>>

Init ==
  /\ pendingQueueNotify = [d \in Devices |-> {}]
  /\ pendingNotify = FALSE
  /\ pendingNotifyStop = FALSE
  /\ wpc = "lock"
  /\ wDev = 1
  /\ wBits = {}
  /\ dpc = "idle"
  /\ notifies = 0
  /\ stopCalled = FALSE

(* pthread_cond_signal: wakes the waiting worker, if it waits. *)
Signal == wpc' = IF wpc = "wait" THEN "lock" ELSE wpc

-----------------------------------------------------------------------------
(* Dispatcher thread: async_queue_notify(s, queue_idx). *)

(* atomic_fetch_or(&s->pending_queue_notify, 1 << queue_idx) *)
NotifyFetchOr(d, q) ==
  /\ dpc = "idle"
  /\ notifies < MaxNotify
  /\ pendingQueueNotify' = [pendingQueueNotify EXCEPT ![d] = @ \cup {q}]
  /\ notifies' = notifies + 1
  /\ dpc' = "wake"
  /\ UNCHANGED <<pendingNotify, pendingNotifyStop, wpc, wDev, wBits, stopCalled>>

NotifyWakeNoFlag ==
  /\ dpc = "wake"
  /\ Signal
  /\ dpc' = "idle"
  /\ UNCHANGED <<pendingQueueNotify, pendingNotify, pendingNotifyStop, wDev,
                 wBits, notifies, stopCalled>>

(* lock; pending_notify = 1; cond_signal; unlock *)
NotifyWake ==
  /\ dpc = "wake"
  /\ pendingNotify' = TRUE
  /\ Signal
  /\ dpc' = "idle"
  /\ UNCHANGED <<pendingQueueNotify, pendingNotifyStop, wDev, wBits, notifies,
                 stopCalled>>

(* virtio_stop_pending_notify_thread, from stop_io on any thread. *)
Stop ==
  /\ ~stopCalled
  /\ stopCalled' = TRUE
  /\ pendingNotify' = TRUE
  /\ pendingNotifyStop' = TRUE
  /\ Signal
  /\ UNCHANGED <<pendingQueueNotify, wDev, wBits, dpc, notifies>>

-----------------------------------------------------------------------------
(* Worker thread: pending_notify_worker. *)

(* lock; while (!pending_notify) pthread_cond_wait(...) *)
WorkerWait ==
  /\ wpc = "lock"
  /\ ~pendingNotify
  /\ wpc' = "wait"
  /\ UNCHANGED <<pendingQueueNotify, pendingNotify, pendingNotifyStop, wDev,
                 wBits, dpc, notifies, stopCalled>>

(* A waiter may return from pthread_cond_wait without a signal. *)
WorkerSpuriousWakeup ==
  /\ wpc = "wait"
  /\ wpc' = "lock"
  /\ UNCHANGED <<pendingQueueNotify, pendingNotify, pendingNotifyStop, wDev,
                 wBits, dpc, notifies, stopCalled>>

(* if (pending_notify_stop) { pending_notify_stop = 0; unlock; return; } *)
WorkerExit ==
  /\ wpc = "lock"
  /\ pendingNotify
  /\ pendingNotifyStop
  /\ pendingNotifyStop' = FALSE
  /\ wpc' = "exited"
  /\ UNCHANGED <<pendingQueueNotify, pendingNotify, wDev, wBits, dpc, notifies,
                 stopCalled>>

(* pending_notify = 0; unlock; then the loop over the devices *)
WorkerTakeWork ==
  /\ wpc = "lock"
  /\ pendingNotify
  /\ ~pendingNotifyStop
  /\ pendingNotify' = FALSE
  /\ wpc' = "exchange"
  /\ wDev' = 1
  /\ UNCHANGED <<pendingQueueNotify, pendingNotifyStop, wBits, dpc, notifies,
                 stopCalled>>

(* notify = atomic_exchange(&s->pending_queue_notify, 0) *)
WorkerExchange ==
  /\ wpc = "exchange"
  /\ wBits' = pendingQueueNotify[wDev]
  /\ pendingQueueNotify' = [pendingQueueNotify EXCEPT ![wDev] = {}]
  /\ wpc' = "serve"
  /\ UNCHANGED <<pendingNotify, pendingNotifyStop, wDev, dpc, notifies, stopCalled>>

(* the lowest set bit j: queue_notify(s, j); notify &= ~(1u << j) *)
WorkerServe ==
  /\ wpc = "serve"
  /\ wBits # {}
  /\ wBits' = wBits \ {Min(wBits)}
  /\ UNCHANGED <<pendingQueueNotify, pendingNotify, pendingNotifyStop, wpc, wDev,
                 dpc, notifies, stopCalled>>

WorkerNextDeviceSkipLast ==
  /\ wpc = "serve"
  /\ wBits = {}
  /\ IF wDev < NumDevices - 1
       THEN wpc' = "exchange" /\ wDev' = wDev + 1
       ELSE wpc' = "lock" /\ UNCHANGED wDev
  /\ UNCHANGED <<pendingQueueNotify, pendingNotify, pendingNotifyStop, wBits,
                 dpc, notifies, stopCalled>>

WorkerNextDeviceOverrun ==
  /\ wpc = "serve"
  /\ wBits = {}
  /\ IF wDev <= NumDevices
       THEN wpc' = "exchange" /\ wDev' = wDev + 1
       ELSE wpc' = "lock" /\ UNCHANGED wDev
  /\ UNCHANGED <<pendingQueueNotify, pendingNotify, pendingNotifyStop, wBits,
                 dpc, notifies, stopCalled>>

(* end of the bit loop: next device, or back to the lock after ps[n-1] *)
WorkerNextDevice ==
  /\ wpc = "serve"
  /\ wBits = {}
  /\ IF wDev < NumDevices
       THEN wpc' = "exchange" /\ wDev' = wDev + 1
       ELSE wpc' = "lock" /\ UNCHANGED wDev
  /\ UNCHANGED <<pendingQueueNotify, pendingNotify, pendingNotifyStop, wBits,
                 dpc, notifies, stopCalled>>

-----------------------------------------------------------------------------
Dispatcher ==
  \/ \E d \in Devices, q \in Queues : NotifyFetchOr(d, q)
  \/ NotifyWake

Worker ==
  \/ WorkerWait \/ WorkerExit \/ WorkerTakeWork
  \/ WorkerExchange \/ WorkerServe \/ WorkerNextDevice

Next == Dispatcher \/ Stop \/ Worker \/ WorkerSpuriousWakeup

(* Both threads are scheduled by the host OS: a runnable thread runs.  The *)
(* guest's notifications and the stop request are the environment and get *)
(* no fairness; a spurious wakeup need never happen.                       *)
Fairness == WF_vars(NotifyWake) /\ WF_vars(Worker)

Spec == Init /\ [][Next]_vars /\ Fairness

-----------------------------------------------------------------------------
TypeOK ==
  /\ pendingQueueNotify \in [Devices -> SUBSET Queues]
  /\ pendingNotify \in BOOLEAN /\ pendingNotifyStop \in BOOLEAN
  /\ wpc \in {"lock", "wait", "exchange", "serve", "exited"}
  /\ wDev \in Devices /\ wBits \in SUBSET Queues
  /\ dpc \in {"idle", "wake"}
  /\ notifies \in 0 .. MaxNotify /\ stopCalled \in BOOLEAN

(* The worker never sleeps on the condition variable while a queue bit is *)
(* set and no wakeup is on its way: a bit set by async_queue_notify's      *)
(* fetch_or is always followed by pending_notify = 1 that the worker has   *)
(* not yet consumed, so the bit cannot be stranded (the ordering the       *)
(* comment above the atomic_exchange in pending_notify_worker relies on).  *)
NoLostWakeup ==
  wpc = "wait" =>
    \A d \in Devices : pendingQueueNotify[d] = {} \/ dpc = "wake"

(* The queues still owed a queue_notify call: set bits, and the bits the   *)
(* worker has taken from the device it is draining and not yet served.     *)
PendingView ==
  [d \in Devices |->
     pendingQueueNotify[d] \cup (IF wpc = "serve" /\ wDev = d THEN wBits ELSE {})]

Abstract == INSTANCE NotifyAbstract
              WITH Devices <- Devices, Queues <- Queues,
                   pending <- PendingView, stopReq <- stopCalled,
                   exited <- (wpc = "exited")

(* The worker implements NotifyAbstract: queue_notify is only called for a *)
(* notified queue, every notified queue is eventually served unless the    *)
(* worker has exited, and a stop request makes the worker exit.            *)
ImplementsNotifyAbstract == Abstract!Spec
====
