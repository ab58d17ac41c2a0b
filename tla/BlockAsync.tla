----------------------------- MODULE BlockAsync -----------------------------
(***************************************************************************)
(* The block device's queue when the backend completes asynchronously      *)
(* (src/src/virtio.c): read_async / write_async return > 0, and the        *)
(* backend's completion thread later calls virtio_block_req_cb, which      *)
(* finishes the request with virtio_block_req_end, clears req_in_progress  *)
(* and runs queue_notify itself.  Two threads then run queue_notify on the *)
(* same queue: the "VirtIO queues" worker (W) after a kick, and the        *)
(* backend's completion thread (B).  They share last_avail_idx,            *)
(* req_in_progress, s1->req and the used ring, with no lock.               *)
(*                                                                         *)
(* The guest driver is the environment: it posts heads, kicks, and takes   *)
(* used entries.  The interrupt path is Virtqueue's and is left out here.  *)
(* A chain is abstracted to its kind as in Virtqueue.  A step of           *)
(* queue_notify reads the head at last_avail_idx and runs recv up to the   *)
(* backend call; `last_avail_idx++` after recv returns is a step of its    *)
(* own, because the other thread can run in between.                       *)
(***************************************************************************)
EXTENDS Naturals, FiniteSets, Functions

CONSTANTS
  Heads,         \* descriptor heads the driver can post
  Num,           \* qs->num, a power of two
  IdxMod,        \* 2^16 for the uint16 ring indices, a multiple of Num
  Kinds,         \* chain kinds the driver posts: "req", "short", "rwerr"
  MaxIO          \* bound on I/Os outstanding at the backend

ASSUME Cardinality(Heads) <= Num /\ IdxMod % Num = 0

Threads == {"W", "B"}
NoHead  == "none"

VARIABLES
  availRing, availIdx, usedRing, usedIdx, kind, resp,  \* guest memory
  posted, drvLast, kickDue,                            \* guest driver
  notifyPending,                                       \* the worker's bit
  lastAvail, reqInProgress, req,                       \* QueueState, VIRTIOBlockDevice
  io,                                                  \* I/Os the backend has yet to complete
  pc, avail, head, used, ret                           \* per-thread locals

memVars == <<availRing, availIdx, usedRing, usedIdx, kind, resp>>
drvVars == <<posted, drvLast, kickDue>>
devVars == <<notifyPending, lastAvail, reqInProgress, req, io>>
tVars   == <<pc, avail, head, used, ret>>
vars    == <<memVars, drvVars, devVars, tVars>>

Slot(i) == i % Num
Inc(i) == (i + 1) % IdxMod
Pending == (usedIdx - drvLast + IdxMod) % IdxMod
UsedWindow == [k \in 0 .. Pending - 1 |-> usedRing[Slot(drvLast + k)]]

Init ==
  /\ availRing = [s \in 0 .. Num - 1 |-> NoHead]
  /\ usedRing = [s \in 0 .. Num - 1 |-> NoHead]
  /\ availIdx = 0 /\ usedIdx = 0
  /\ kind = [h \in Heads |-> "req"] /\ resp = [h \in Heads |-> FALSE]
  /\ posted = [h \in Heads |-> FALSE] /\ drvLast = 0 /\ kickDue = FALSE
  /\ notifyPending = FALSE
  /\ lastAvail = 0 /\ reqInProgress = FALSE /\ req = NoHead /\ io = 0
  /\ pc = [t \in Threads |-> "idle"]
  /\ avail = [t \in Threads |-> 0]
  /\ head = [t \in Threads |-> NoHead]
  /\ used = [t \in Threads |-> 0]
  /\ ret = [t \in Threads |-> "inc"]

-----------------------------------------------------------------------------
(* Guest driver. *)
Submit(h, k) ==
  /\ ~posted[h]
  /\ availRing' = [availRing EXCEPT ![Slot(availIdx)] = h]
  /\ availIdx' = Inc(availIdx)
  /\ kind' = [kind EXCEPT ![h] = k]
  /\ resp' = [resp EXCEPT ![h] = FALSE]
  /\ posted' = [posted EXCEPT ![h] = TRUE]
  /\ kickDue' = TRUE
  /\ UNCHANGED <<usedRing, usedIdx, drvLast, devVars, tVars>>

Kick ==
  /\ kickDue
  /\ kickDue' = FALSE /\ notifyPending' = TRUE
  /\ UNCHANGED <<memVars, posted, drvLast, lastAvail, reqInProgress, req, io, tVars>>

Reclaim ==
  /\ Pending > 0
  /\ posted' = [h \in Heads |-> IF h \in Range(UsedWindow) THEN FALSE ELSE posted[h]]
  /\ drvLast' = usedIdx
  /\ UNCHANGED <<memVars, kickDue, devVars, tVars>>

Driver == (\E h \in Heads, k \in Kinds : Submit(h, k)) \/ Kick \/ Reclaim

-----------------------------------------------------------------------------
(***************************************************************************)
(* queue_notify(s, 0), run by thread t.                                    *)
(***************************************************************************)
Goto(t, l) == pc' = [pc EXCEPT ![t] = l]

(* avail_idx = virtio_read16(avail_addr + 2): W after taking its bit, B    *)
(* at the end of virtio_block_req_cb.                                      *)
QueueNotifyStart(t) ==
  /\ \/ t = "W" /\ pc[t] = "idle" /\ notifyPending /\ notifyPending' = FALSE
     \/ t = "B" /\ pc[t] = "notify" /\ UNCHANGED notifyPending
  /\ avail' = [avail EXCEPT ![t] = availIdx]
  /\ Goto(t, "loop")
  /\ UNCHANGED <<memVars, drvVars, lastAvail, reqInProgress, req, io, head, used, ret>>

(* while (qs->last_avail_idx != avail_idx) ends *)
QueueNotifyDone(t) ==
  /\ pc[t] = "loop" /\ lastAvail = avail[t]
  /\ Goto(t, "idle")
  /\ UNCHANGED <<memVars, drvVars, devVars, avail, head, used, ret>>

(* One turn of the drain loop up to the backend call: the head at          *)
(* last_avail_idx; get_desc_rw_size failing skips it; then                 *)
(* virtio_block_recv_request: req_in_progress makes it return -1 (break),  *)
(* a short header returns 0, a request is recorded in s1->req and either   *)
(* completes synchronously (virtio_block_req_end: status byte, then        *)
(* consume) or is handed to the backend, which returns > 0.                *)
Recv(t) ==
  /\ pc[t] = "loop" /\ lastAvail # avail[t]
  /\ LET h == availRing[Slot(lastAvail)] IN
       CASE kind[h] = "rwerr" ->
              Goto(t, "inc") /\ UNCHANGED <<resp, req, io, head, ret>>
         [] reqInProgress ->
              Goto(t, "idle") /\ UNCHANGED <<resp, req, io, head, ret>>
         [] kind[h] = "short" ->
              Goto(t, "inc") /\ UNCHANGED <<resp, req, io, head, ret>>
         [] OTHER ->
              /\ req' = h
              /\ \/ /\ resp' = [resp EXCEPT ![h] = TRUE]
                    /\ head' = [head EXCEPT ![t] = h]
                    /\ ret' = [ret EXCEPT ![t] = "inc"]
                    /\ Goto(t, "elem") /\ UNCHANGED io
                 \/ /\ io < MaxIO /\ io' = io + 1
                    /\ Goto(t, "setprog") /\ UNCHANGED <<resp, head, ret>>
  /\ UNCHANGED <<availRing, availIdx, usedRing, usedIdx, kind, drvVars,
                 notifyPending, lastAvail, reqInProgress, avail, used>>

(* read_async / write_async returned > 0: s1->req_in_progress = TRUE. *)
SetInProgress(t) ==
  /\ pc[t] = "setprog"
  /\ reqInProgress' = TRUE
  /\ Goto(t, "inc")
  /\ UNCHANGED <<memVars, drvVars, notifyPending, lastAvail, req, io, avail,
                 head, used, ret>>

(* recv returned 0: qs->last_avail_idx++ *)
IncLastAvail(t) ==
  /\ pc[t] = "inc"
  /\ lastAvail' = Inc(lastAvail)
  /\ Goto(t, "loop")
  /\ UNCHANGED <<memVars, drvVars, notifyPending, reqInProgress, req, io, avail,
                 head, used, ret>>

(* virtio_consume_desc: load used.idx and write the element, then publish *)
(* used.idx + 1.                                                           *)
ConsumeWriteElem(t) ==
  /\ pc[t] = "elem"
  /\ used' = [used EXCEPT ![t] = usedIdx]
  /\ usedRing' = [usedRing EXCEPT ![Slot(usedIdx)] = head[t]]
  /\ Goto(t, "publish")
  /\ UNCHANGED <<availRing, availIdx, usedIdx, kind, resp, drvVars, devVars,
                 avail, head, ret>>

ConsumePublish(t) ==
  /\ pc[t] = "publish"
  /\ usedIdx' = Inc(used[t])
  /\ Goto(t, ret[t])
  /\ UNCHANGED <<availRing, availIdx, usedRing, kind, resp, drvVars, devVars,
                 avail, head, used, ret>>

(***************************************************************************)
(* The backend's completion thread: virtio_block_req_cb.                   *)
(***************************************************************************)
(* virtio_block_req_end(s, ret) for s1->req: the status byte (OK or IOERR) *)
(* and the IN payload are copied into the chain, then consume.             *)
ReqCallback ==
  /\ pc["B"] = "idle" /\ io > 0
  /\ io' = io - 1
  /\ resp' = [resp EXCEPT ![req] = TRUE]
  /\ head' = [head EXCEPT !["B"] = req]
  /\ ret' = [ret EXCEPT !["B"] = "clear"]
  /\ Goto("B", "elem")
  /\ UNCHANGED <<availRing, availIdx, usedRing, usedIdx, kind, drvVars,
                 notifyPending, lastAvail, reqInProgress, req, avail, used>>

(* s1->req_in_progress = FALSE, then queue_notify(s, s1->req.queue_idx) *)
ReqCallbackClear ==
  /\ pc["B"] = "clear"
  /\ reqInProgress' = FALSE
  /\ Goto("B", "notify")
  /\ UNCHANGED <<memVars, drvVars, notifyPending, lastAvail, req, io, avail,
                 head, used, ret>>

Thread(t) ==
  \/ QueueNotifyStart(t) \/ QueueNotifyDone(t) \/ Recv(t)
  \/ SetInProgress(t) \/ IncLastAvail(t) \/ ConsumeWriteElem(t) \/ ConsumePublish(t)

Backend == ReqCallback \/ ReqCallbackClear

Next == Driver \/ (\E t \in Threads : Thread(t)) \/ Backend

(* Both threads are host threads; an I/O handed to the backend completes. *)
(* The guest's kick and its reclaim are fair once due; new requests are  *)
(* its choice.                                                            *)
Spec == Init /\ [][Next]_vars
          /\ \A t \in Threads : WF_vars(Thread(t))
          /\ WF_vars(Backend) /\ WF_vars(Kick) /\ WF_vars(Reclaim)

-----------------------------------------------------------------------------
(* Every used entry the driver has yet to take names a head it posted and *)
(* still owns, names it once, and carries its status byte: the two        *)
(* threads' drains and the callback's virtio_block_req_end must complete  *)
(* each request exactly once.                                             *)
UsedEntriesValid ==
  /\ Pending <= Num
  /\ IsInjective(UsedWindow)
  /\ \A k \in DOMAIN UsedWindow :
       LET h == UsedWindow[k] IN h \in Heads /\ posted[h] /\ resp[h]
====
