----------------------------- MODULE ManualRecv -----------------------------
(***************************************************************************)
(* Receive queue 0 of the manual_recv devices of src/src/virtio.c: the     *)
(* network device's rx queue, which virtio_net_write_packet fills from the *)
(* network backend, and the input device's event queue, which              *)
(* virtio_input_queue_event fills from the host's mouse events.            *)
(* queue_notify on such a queue only caches the guest's avail.idx in       *)
(* qs->avail_idx; the device side takes buffers when the host has data,    *)
(* on the backend's thread.                                                *)
(*                                                                         *)
(* The guest driver is the environment: it posts buffers, kicks, sets      *)
(* QUEUE_READY and reclaims used buffers.  The interrupt path is left out  *)
(* (Virtqueue checks it): reclaiming takes every published used entry.     *)
(* Sizes are abstracted to small numbers: a packet's length includes the   *)
(* 12-byte virtio-net header, a buffer's capacity is its writable size.    *)
(* The two devices share no state and run on different backend threads,  *)
(* so a behaviour runs one of them (dev), chosen in Init.                  *)
(***************************************************************************)
EXTENDS Integers, FiniteSets, Functions

CONSTANTS
  Devs,         \* subset of {"net", "mouse", "kbd", "console"}: whose queue 0 is modelled
  Bufs,         \* buffer (descriptor head) ids the guest posts, per device
  Num,          \* qs->num, a power of two
  IdxMod,       \* 2^16 for the uint16 ring indices, a multiple of Num
  NetPackets,   \* packet lengths the network backend delivers
  NetBufCaps,   \* writable sizes of the rx buffers the guest may post
  ConsoleData,  \* byte counts the console backend has to deliver
  Buttons,      \* indices into buttons_list[] the host reports
  MaxCalls      \* bound on host calls (write_packet, send_mouse_event)

ASSUME Cardinality(Bufs) <= Num /\ IdxMod % Num = 0

RwErr   == -1          \* a chain get_desc_rw_size rejects
EventLen == 8          \* sizeof the virtio_input_event written per event
NoBuf   == "none"

VARIABLES
  availRing, availIdx, posted, cap,   \* guest memory and driver ownership
  usedRing, usedIdx, drvLast,         \* the used ring and the driver's cursor
  kickDue, notifyPending,             \* QueueNotify and the worker's pending bit
  ready, cachedAvail, lastAvail,      \* QueueState: ready, avail_idx, last_avail_idx
  calls,                              \* host calls so far
  buttonsState,                       \* VIRTIOInputDevice.buttons_state
  mpc, mArg, mRel, mi,                \* the host call in progress
  cLen,                               \* console: the length it will write
  keyFold, lastSyn,                   \* history: queued button state, SYN last
  dev                                 \* the device this behaviour runs

guestVars == <<availRing, availIdx, posted, cap, drvLast, kickDue>>
queueVars == <<usedRing, usedIdx, notifyPending, ready, cachedAvail, lastAvail>>
callVars == <<buttonsState, mpc, mArg, mRel, mi, keyFold, lastSyn, cLen>>
vars      == <<guestVars, queueVars, calls, callVars, dev>>

Slot(i) == i % Num
Inc(i)  == (i + 1) % IdxMod
Pending(d) == (usedIdx[d] - drvLast[d] + IdxMod) % IdxMod
UsedWindow(d) ==
  [k \in 0 .. Pending(d) - 1 |-> usedRing[d][Slot(drvLast[d] + k)]]

Init ==
  /\ availRing = [d \in Devs |-> [s \in 0 .. Num - 1 |-> NoBuf]]
  /\ availIdx = [d \in Devs |-> 0]
  /\ posted = [d \in Devs |-> [b \in Bufs |-> FALSE]]
  /\ cap = [d \in Devs |-> [b \in Bufs |-> 0]]
  /\ usedRing = [d \in Devs |-> [s \in 0 .. Num - 1 |-> [buf |-> NoBuf, len |-> 0]]]
  /\ usedIdx = [d \in Devs |-> 0] /\ drvLast = [d \in Devs |-> 0]
  /\ kickDue = [d \in Devs |-> FALSE] /\ notifyPending = [d \in Devs |-> FALSE]
  /\ ready = [d \in Devs |-> FALSE]
  /\ cachedAvail = [d \in Devs |-> 0] /\ lastAvail = [d \in Devs |-> 0]
  /\ calls = 0
  /\ buttonsState = {} /\ mpc = "idle" /\ mArg = {} /\ mRel = 0 /\ mi = 0
  /\ keyFold = {} /\ lastSyn = FALSE
  /\ cLen = 0 /\ dev \in Devs

-----------------------------------------------------------------------------
(* Guest driver. *)

(* The driver's rx buffers: the network and console drivers post buffers  *)
(* of the sizes in NetBufCaps or a malformed chain; the input driver posts *)
(* 8-byte event buffers.                                                   *)
BufKinds(d) == CASE d \in {"net", "console"} -> NetBufCaps \cup {RwErr}
                [] OTHER                     -> {EventLen}

Post(d, b, c) ==
  /\ ~posted[d][b]
  /\ availRing' = [availRing EXCEPT ![d][Slot(availIdx[d])] = b]
  /\ availIdx' = [availIdx EXCEPT ![d] = Inc(@)]
  /\ posted' = [posted EXCEPT ![d][b] = TRUE]
  /\ cap' = [cap EXCEPT ![d][b] = c]
  /\ kickDue' = [kickDue EXCEPT ![d] = TRUE]
  /\ UNCHANGED <<drvLast, queueVars, calls, callVars>>

(* The QueueNotify write. *)
Kick(d) ==
  /\ kickDue[d]
  /\ kickDue' = [kickDue EXCEPT ![d] = FALSE]
  /\ notifyPending' = [notifyPending EXCEPT ![d] = TRUE]
  /\ UNCHANGED <<availRing, availIdx, posted, cap, drvLast, usedRing, usedIdx,
                 ready, cachedAvail, lastAvail, calls, callVars>>

(* The QueueReady write of the driver's queue setup. *)
SetReady(d) ==
  /\ ~ready[d]
  /\ ready' = [ready EXCEPT ![d] = TRUE]
  /\ UNCHANGED <<guestVars, usedRing, usedIdx, notifyPending, cachedAvail,
                 lastAvail, calls, callVars>>

(* The interrupt handler's scan: every published used buffer is taken. *)
Reclaim(d) ==
  /\ Pending(d) > 0
  /\ posted' = [posted EXCEPT ![d] = [b \in Bufs |->
                  IF \E k \in DOMAIN UsedWindow(d) : UsedWindow(d)[k].buf = b
                    THEN FALSE ELSE @[b]]]
  /\ drvLast' = [drvLast EXCEPT ![d] = usedIdx[d]]
  /\ UNCHANGED <<availRing, availIdx, cap, kickDue, queueVars, calls, callVars>>

Guest ==
  \E d \in {dev} :
    \/ \E b \in Bufs, c \in BufKinds(d) : Post(d, b, c)
    \/ Kick(d) \/ SetReady(d) \/ Reclaim(d)

-----------------------------------------------------------------------------
(* The notification worker: queue_notify on a manual_recv queue reads      *)
(* avail.idx into qs->avail_idx and returns.                               *)
QueueNotifyManual(d) ==
  /\ notifyPending[d]
  /\ notifyPending' = [notifyPending EXCEPT ![d] = FALSE]
  /\ cachedAvail' = [cachedAvail EXCEPT ![d] = availIdx[d]]
  /\ UNCHANGED <<guestVars, usedRing, usedIdx, ready, lastAvail, calls, callVars>>

Worker == \E d \in {dev} : QueueNotifyManual(d)

-----------------------------------------------------------------------------
(***************************************************************************)
(* The device side, on the backend's thread.  A host call takes the head   *)
(* buffer only if the queue is ready and last_avail_idx differs from the   *)
(* cached qs->avail_idx.                                                   *)
(***************************************************************************)
CanTake(d) == ready[d] /\ lastAvail[d] # cachedAvail[d]

(* desc_idx = read16(avail_addr + 4 + (last_avail_idx & (num - 1)) * 2) *)
HeadBuf(d) == availRing[d][Slot(lastAvail[d])]

(* virtio_consume_desc(s, 0, desc_idx, len) and then last_avail_idx++.     *)
(* The int_status / set_irq steps are those of Virtqueue.                  *)
Consume(d, len) ==
  /\ usedRing' = [usedRing EXCEPT ![d][Slot(usedIdx[d])] = [buf |-> HeadBuf(d), len |-> len]]
  /\ usedIdx' = [usedIdx EXCEPT ![d] = Inc(@)]
  /\ lastAvail' = [lastAvail EXCEPT ![d] = Inc(@)]

(* virtio_net_can_write_packet *)
NetCanWritePacket == CanTake("net")

(* virtio_net_write_packet without the `len > write_size` check. *)
NetWritePacketNoFit(p) ==
  /\ calls < MaxCalls /\ NetCanWritePacket
  /\ calls' = calls + 1
  /\ IF cap["net"][HeadBuf("net")] = RwErr
       THEN UNCHANGED <<usedRing, usedIdx, lastAvail>>
       ELSE Consume("net", p)
  /\ UNCHANGED <<guestVars, notifyPending, ready, cachedAvail, callVars>>

(* The network backend, once virtio_net_can_write_packet says yes, hands a *)
(* packet to virtio_net_write_packet: a chain get_desc_rw_size rejects, or *)
(* one whose writable size is below header + packet, makes it return: the *)
(* packet is dropped and the buffer stays at the head of the queue.        *)
NetWritePacket(p) ==
  /\ calls < MaxCalls /\ NetCanWritePacket
  /\ calls' = calls + 1
  /\ IF cap["net"][HeadBuf("net")] = RwErr \/ p > cap["net"][HeadBuf("net")]
       THEN UNCHANGED <<usedRing, usedIdx, lastAvail>>
       ELSE Consume("net", p)
  /\ UNCHANGED <<guestVars, notifyPending, ready, cachedAvail, callVars>>

(* virtio_input_send_mouse_event(s, dx, dy, dz, buttons) on a mouse: each  *)
(* virtio_input_queue_event either takes the head buffer or returns -1,    *)
(* and a failure returns from the call at once.                            *)
MouseCall(b, dz) ==
  /\ mpc = "idle" /\ calls < MaxCalls
  /\ calls' = calls + 1
  /\ mArg' = b /\ mRel' = 2 + dz /\ mi' = 0
  /\ mpc' = "rel"
  /\ UNCHANGED <<guestVars, queueVars, buttonsState, keyFold, lastSyn, cLen>>

(* REL_X, REL_Y and, if dz != 0, REL_WHEEL; then the button loop if        *)
(* buttons != buttons_state, else the SYN.                                 *)
MouseRel ==
  /\ mpc = "rel"
  /\ IF CanTake("mouse")
       THEN /\ Consume("mouse", EventLen)
            /\ mRel' = mRel - 1 /\ lastSyn' = FALSE
            /\ mpc' = CASE mRel > 1              -> "rel"
                        [] mArg # buttonsState -> "btn"
                        [] OTHER               -> "syn"
       ELSE mpc' = "idle" /\ UNCHANGED <<usedRing, usedIdx, lastAvail, mRel, lastSyn>>
  /\ UNCHANGED <<guestVars, notifyPending, ready, cachedAvail, calls, buttonsState,
                 mArg, mi, keyFold, cLen>>

ButtonsListLen == 3   \* countof(buttons_list): BTN_LEFT, BTN_RIGHT, BTN_MIDDLE

ButtonDiffers(i) == (i \in mArg) # (i \in buttonsState)

(* The button loop with `i <= countof(buttons_list)`. *)
MouseButtonOverrun ==
  /\ mpc = "btn"
  /\ IF mi > ButtonsListLen
       THEN mpc' = "syn" /\ buttonsState' = mArg
            /\ UNCHANGED <<usedRing, usedIdx, lastAvail, mi, keyFold, lastSyn>>
       ELSE IF ~ButtonDiffers(mi)
       THEN mi' = mi + 1 /\ UNCHANGED <<usedRing, usedIdx, lastAvail, mpc, buttonsState, keyFold, lastSyn>>
       ELSE IF CanTake("mouse")
       THEN /\ Consume("mouse", EventLen) /\ mi' = mi + 1
            /\ keyFold' = IF mi \in mArg THEN keyFold \cup {mi} ELSE keyFold \ {mi}
            /\ lastSyn' = FALSE
            /\ UNCHANGED <<mpc, buttonsState>>
       ELSE mpc' = "idle" /\ UNCHANGED <<usedRing, usedIdx, lastAvail, mi, buttonsState, keyFold, lastSyn>>
  /\ UNCHANGED <<guestVars, notifyPending, ready, cachedAvail, calls, mArg, mRel, cLen>>

(* One iteration of the button loop: an EV_KEY event for each button whose *)
(* bit differs from buttons_state; after the loop buttons_state = buttons. *)
MouseButton ==
  /\ mpc = "btn"
  /\ IF mi = ButtonsListLen
       THEN mpc' = "syn" /\ buttonsState' = mArg
            /\ UNCHANGED <<usedRing, usedIdx, lastAvail, mi, keyFold, lastSyn>>
       ELSE IF ~ButtonDiffers(mi)
       THEN mi' = mi + 1 /\ UNCHANGED <<usedRing, usedIdx, lastAvail, mpc, buttonsState, keyFold, lastSyn>>
       ELSE IF CanTake("mouse")
       THEN /\ Consume("mouse", EventLen) /\ mi' = mi + 1
            /\ keyFold' = IF mi \in mArg THEN keyFold \cup {mi} ELSE keyFold \ {mi}
            /\ lastSyn' = FALSE
            /\ UNCHANGED <<mpc, buttonsState>>
       ELSE mpc' = "idle" /\ UNCHANGED <<usedRing, usedIdx, lastAvail, mi, buttonsState, keyFold, lastSyn>>
  /\ UNCHANGED <<guestVars, notifyPending, ready, cachedAvail, calls, mArg, mRel, cLen>>

(* The closing EV_SYN; the call returns whether or not it was queued. *)
MouseSyn ==
  /\ mpc = "syn"
  /\ mpc' = "idle"
  /\ IF CanTake("mouse")
       THEN Consume("mouse", EventLen) /\ lastSyn' = TRUE
       ELSE UNCHANGED <<usedRing, usedIdx, lastAvail, lastSyn>>
  /\ UNCHANGED <<guestVars, notifyPending, ready, cachedAvail, calls, buttonsState,
                 mArg, mRel, mi, keyFold, cLen>>

(* virtio_input_send_key_event on a keyboard: the EV_KEY event, then,     *)
(* if it was queued, the EV_SYN.                                           *)
KeyCall ==
  /\ mpc = "idle" /\ calls < MaxCalls
  /\ calls' = calls + 1 /\ mpc' = "key"
  /\ UNCHANGED <<guestVars, queueVars, buttonsState, mArg, mRel, mi, keyFold,
                 lastSyn, cLen>>

KeyEvent ==
  /\ mpc \in {"key", "ksyn"}
  /\ IF CanTake("kbd")
       THEN Consume("kbd", EventLen) /\ mpc' = IF mpc = "key" THEN "ksyn" ELSE "idle"
       ELSE mpc' = "idle" /\ UNCHANGED <<usedRing, usedIdx, lastAvail>>
  /\ UNCHANGED <<guestVars, notifyPending, ready, cachedAvail, calls, buttonsState,
                 mArg, mRel, mi, keyFold, lastSyn, cLen>>

(* virtio_console_get_write_len: the head chain's writable size, or 0 when *)
(* the queue is not ready, empty, or the chain is rejected.                *)
ConsoleGetWriteLen ==
  IF ~CanTake("console") \/ cap["console"][HeadBuf("console")] = RwErr
    THEN 0 ELSE cap["console"][HeadBuf("console")]

(* The console backend with n bytes to deliver: when                       *)
(* virtio_console_can_write_data says yes it asks virtio_console_get_write_len *)
(* and writes at most that many bytes in a later call.                     *)
ConsoleCall(n) ==
  /\ mpc = "idle" /\ calls < MaxCalls /\ CanTake("console")
  /\ calls' = calls + 1
  /\ IF ConsoleGetWriteLen = 0
       THEN UNCHANGED <<mpc, cLen>>
       ELSE mpc' = "cwrite" /\ cLen' = IF n < ConsoleGetWriteLen THEN n ELSE ConsoleGetWriteLen
  /\ UNCHANGED <<guestVars, queueVars, buttonsState, mArg, mRel, mi, keyFold, lastSyn>>

(* virtio_console_write_data(s, buf, cLen): consumes the head buffer with  *)
(* buf_len, whatever memcpy_to_queue did.                                  *)
ConsoleWriteData ==
  /\ mpc = "cwrite"
  /\ mpc' = "idle"
  /\ IF CanTake("console")
       THEN Consume("console", cLen)
       ELSE UNCHANGED <<usedRing, usedIdx, lastAvail>>
  /\ UNCHANGED <<guestVars, notifyPending, ready, cachedAvail, calls, buttonsState,
                 mArg, mRel, mi, keyFold, lastSyn, cLen>>

Host ==
  \/ dev = "net" /\ \E p \in NetPackets : NetWritePacket(p)
  \/ dev = "mouse" /\
       \/ \E b \in SUBSET Buttons, dz \in {0, 1} : MouseCall(b, dz)
       \/ MouseRel \/ MouseButton \/ MouseSyn
  \/ dev = "kbd" /\ (KeyCall \/ KeyEvent)
  \/ dev = "console" /\ (\E n \in ConsoleData : ConsoleCall(n) \/ ConsoleWriteData)

Next == (Guest \/ Worker \/ Host) /\ UNCHANGED dev

Spec == Init /\ [][Next]_vars

-----------------------------------------------------------------------------
TypeOK ==
  /\ \A d \in Devs :
       /\ {availIdx[d], usedIdx[d], drvLast[d], cachedAvail[d], lastAvail[d]}
            \subseteq 0 .. IdxMod - 1
       /\ availRing[d] \in [0 .. Num - 1 -> Bufs \cup {NoBuf}]
  /\ mpc \in {"idle", "rel", "btn", "syn", "key", "ksyn", "cwrite"}
  /\ mi \in 0 .. ButtonsListLen
  /\ buttonsState \subseteq Buttons /\ keyFold \subseteq Buttons

(* Every used entry the driver has yet to take names a buffer it posted   *)
(* and still owns, names it once, and claims no more bytes than the       *)
(* buffer's writable size: virtio_net_write_packet's size and rw checks,  *)
(* and last_avail_idx advancing only with a consumed buffer, on a queue   *)
(* whose avail_idx is the worker's cached copy.                           *)
RxUsedValid ==
  \A d \in Devs :
    /\ Pending(d) <= Num
    /\ IsInjective([k \in DOMAIN UsedWindow(d) |-> UsedWindow(d)[k].buf])
    /\ \A k \in DOMAIN UsedWindow(d) :
         LET e == UsedWindow(d)[k] IN
           /\ e.buf \in Bufs /\ posted[d][e.buf]
           /\ cap[d][e.buf] # RwErr /\ e.len <= cap[d][e.buf]

(* When the last event queued on the mouse's event queue is an EV_SYN, the *)
(* button state the guest builds from the EV_KEY events queued so far is  *)
(* the state the host recorded in buttons_state: send_mouse_event's early  *)
(* returns must not let the two drift apart.                              *)
ButtonsAgree == lastSyn => keyFold = buttonsState
====
