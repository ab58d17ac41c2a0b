------------------------------ MODULE Virtqueue ------------------------------
(***************************************************************************)
(* One split virtqueue of a VirtIO device (src/src/virtio.c) that drains  *)
(* its queue in queue_notify: the block device, the network device's tx  *)
(* queue 1, the console's tx queue 1 or the entropy device's queue 0     *)
(* (dev, fixed in Init: they share the engine and differ in their        *)
(* device_recv callback), with                                           *)
(* the three parties that touch it:                                        *)
(*   - the guest driver (the environment): it fills a descriptor chain,    *)
(*     puts its head in the available ring, kicks QueueNotify, and in its  *)
(*     interrupt handler reads InterruptStatus, acks it and scans the      *)
(*     used ring;                                                          *)
(*   - the "VirtIO queues" worker thread running queue_notify, which       *)
(*     drains the available ring through the device's recv_request and    *)
(*     publishes completions with virtio_consume_desc;                     *)
(*   - the dispatcher thread running virtio_mmio_write(INTERRUPT_ACK).     *)
(* The QueueNotify path is the abstract NotifyAbstract (notifyPending is   *)
(* its pending bit for this queue); NotifyWorker is checked to implement   *)
(* it.  The block backend here completes synchronously (read_async and    *)
(* write_async return 0 or -1); VirtqueueAsync adds the asynchronous case. *)
(*                                                                         *)
(* Ring indices are uint16 in the code; here they wrap at IdxMod, a        *)
(* multiple of the queue size Num, which keeps `idx & (num - 1)` and the   *)
(* `!=` comparisons exact.  Descriptor chains are abstracted to their      *)
(* kind: what virtio_block_recv_request and get_desc_rw_size make of them. *)
(***************************************************************************)
EXTENDS Naturals, FiniteSets, Functions

CONSTANTS
  Heads,         \* descriptor heads the driver can post (at most Num of them)
  Num,           \* qs->num, a power of two
  IdxMod,        \* 2^16 for the code's uint16 ring indices
  MaxBadChains,  \* bound on malformed chains the driver posts
  Devs           \* subset of {"block", "net", "console", "entropy"}

ASSUME Cardinality(Heads) <= Num /\ IdxMod % Num = 0

(* "req": a well-formed request; of a known type (IN, OUT, FLUSH, GET_ID)  *)
(* it completes through virtio_block_req_end, of an unknown one through   *)
(* the UNSUPP status byte, the same way; "rwerr": a readable descriptor    *)
(* after a writable one, so                                                *)
(* get_desc_rw_size returns -1; "short": fewer than 16 readable bytes, so  *)
(* the header memcpy_from_queue fails and recv returns 0 (block, and net  *)
(* tx with its 12-byte header).  Console and entropy read no header: a   *)
(* short chain is, to them, a "req", so the driver only posts "short"     *)
(* chains to the devices that drop them.                                  *)
Kinds     == {"req", "rwerr", "short"}
GoodKinds == {"req"}
NoHead    == "none"
(* The devices whose recv_request returns early, without consuming, when *)
(* the header does not fit.                                               *)
DropsShort == {"block", "net"}

VARIABLES
  \* guest memory: the rings and the chains' contents
  availRing, availIdx, usedRing, usedIdx, kind, resp,
  \* guest driver
  posted, kickDue, drvLastUsed, dpc, dStatus, badPosted,
  \* device: QueueState, int_status and the interrupt line
  lastAvail, intStatus, irqLine, dev,
  \* NotifyAbstract's pending bit for this queue
  notifyPending,
  \* worker thread locals
  wpc, wAvail, wHead, wUsed, wInt,
  \* dispatcher thread locals in virtio_mmio_write(INTERRUPT_ACK)
  apc, aVal, aTmp

memVars == <<availRing, availIdx, usedRing, usedIdx, kind, resp>>
drvVars == <<posted, kickDue, drvLastUsed, dpc, dStatus, badPosted>>
devVars == <<lastAvail, intStatus, irqLine, notifyPending, dev>>
wVars   == <<wpc, wAvail, wHead, wUsed, wInt>>
aVars   == <<apc, aVal, aTmp>>
vars    == <<memVars, drvVars, devVars, wVars, aVars>>

Slot(i) == i % Num
Inc(i)  == (i + 1) % IdxMod
(* Entries published and not yet seen by the driver. *)
Pending(hi, lo) == (hi - lo + IdxMod) % IdxMod

Init ==
  /\ availRing = [s \in 0 .. Num - 1 |-> NoHead]
  /\ usedRing  = [s \in 0 .. Num - 1 |-> NoHead]
  /\ availIdx = 0 /\ usedIdx = 0
  /\ kind = [h \in Heads |-> "req"]
  /\ resp = [h \in Heads |-> FALSE]
  /\ posted = [h \in Heads |-> FALSE]
  /\ kickDue = FALSE /\ drvLastUsed = 0 /\ dpc = "idle" /\ dStatus = {}
  /\ badPosted = 0
  /\ lastAvail = 0 /\ intStatus = {} /\ irqLine = FALSE
  /\ dev \in Devs
  /\ notifyPending = FALSE
  /\ wpc = "idle" /\ wAvail = 0 /\ wHead = NoHead /\ wUsed = 0 /\ wInt = {}
  /\ apc = "idle" /\ aVal = {} /\ aTmp = {}

-----------------------------------------------------------------------------
(***************************************************************************)
(* Guest driver.  It owns a head from Submit until its interrupt handler   *)
(* finds the head in the used ring.                                        *)
(***************************************************************************)
Submit(h, k) ==
  /\ ~posted[h]
  /\ k \notin GoodKinds => badPosted < MaxBadChains
  /\ k = "short" => dev \in DropsShort
  /\ availRing' = [availRing EXCEPT ![Slot(availIdx)] = h]
  /\ availIdx' = Inc(availIdx)
  /\ kind' = [kind EXCEPT ![h] = k]
  /\ resp' = [resp EXCEPT ![h] = FALSE]
  /\ posted' = [posted EXCEPT ![h] = TRUE]
  /\ kickDue' = TRUE
  /\ badPosted' = IF k \in GoodKinds THEN badPosted ELSE badPosted + 1
  /\ UNCHANGED <<dev, usedRing, usedIdx, drvLastUsed, dpc, dStatus>>
  /\ UNCHANGED <<devVars, wVars, aVars>>

(* The QueueNotify write; the dispatcher is single threaded, so it is      *)
(* served between two steps of an interrupt ack, never inside one.        *)
Kick ==
  /\ kickDue /\ apc = "idle"
  /\ kickDue' = FALSE
  /\ notifyPending' = TRUE
  /\ UNCHANGED <<dev, memVars, posted, drvLastUsed, dpc, dStatus, badPosted>>
  /\ UNCHANGED <<dev, lastAvail, intStatus, irqLine, wVars, aVars>>

(* vm_interrupt: status = readl(INTERRUPT_STATUS) while the line is high. *)
IsrReadStatus ==
  /\ dpc = "idle" /\ irqLine /\ apc = "idle"
  /\ dStatus' = intStatus
  /\ dpc' = "ack"
  /\ UNCHANGED <<dev, memVars, posted, kickDue, drvLastUsed, badPosted>>
  /\ UNCHANGED <<devVars, wVars, aVars>>

(* writel(status, INTERRUPT_ACK): the dispatcher takes the write and     *)
(* loads int_status for `s->int_status &= ~val`.                          *)
IsrWriteAck ==
  /\ dpc = "ack" /\ apc = "idle"
  /\ aVal' = dStatus
  /\ aTmp' = intStatus
  /\ apc' = "store"
  /\ dpc' = "scan"
  /\ UNCHANGED <<dev, memVars, posted, kickDue, drvLastUsed, dStatus, badPosted>>
  /\ UNCHANGED <<devVars, wVars>>

(* Once the write has completed: if the vring bit was read, take every    *)
(* used entry up to used.idx (vring_interrupt, virtqueue_get_buf).        *)
UsedWindow ==
  [k \in 0 .. Pending(usedIdx, drvLastUsed) - 1 |-> usedRing[Slot(drvLastUsed + k)]]

IsrScan ==
  /\ dpc = "scan" /\ apc = "idle"
  /\ IF "vring" \in dStatus
       THEN /\ posted' = [h \in Heads |->
                            IF h \in Range(UsedWindow) THEN FALSE ELSE posted[h]]
            /\ drvLastUsed' = usedIdx
       ELSE UNCHANGED <<dev, posted, drvLastUsed>>
  /\ dpc' = "idle"
  /\ UNCHANGED <<memVars, kickDue, dStatus, badPosted, devVars, wVars, aVars>>

Driver ==
  \/ \E h \in Heads, k \in Kinds : Submit(h, k)
  \/ Kick \/ IsrReadStatus \/ IsrWriteAck \/ IsrScan

-----------------------------------------------------------------------------
(***************************************************************************)
(* Worker thread: queue_notify(s, queue_idx) for the block device.         *)
(***************************************************************************)

QueueNotifyStartCached ==
  /\ wpc = "idle" /\ notifyPending
  /\ notifyPending' = FALSE
  /\ wpc' = "loop"
  /\ UNCHANGED <<dev, memVars, drvVars, lastAvail, intStatus, irqLine, wAvail, wHead,
                 wUsed, wInt, aVars>>

(* NotifyAbstract's Serve: the bit is taken, then                          *)
(* avail_idx = virtio_read16(avail_addr + 2), with the acquire fence.      *)
QueueNotifyStart ==
  /\ wpc = "idle" /\ notifyPending
  /\ notifyPending' = FALSE
  /\ wAvail' = availIdx
  /\ wpc' = "loop"
  /\ UNCHANGED <<dev, memVars, drvVars, lastAvail, intStatus, irqLine, wHead, wUsed,
                 wInt, aVars>>

(* while (qs->last_avail_idx != avail_idx) ends *)
QueueNotifyDone ==
  /\ wpc = "loop" /\ lastAvail = wAvail
  /\ wpc' = "idle"
  /\ UNCHANGED <<memVars, drvVars, devVars, wAvail, wHead, wUsed, wInt, aVars>>

(* desc_idx = virtio_read16(avail_addr + 4 + (last_avail_idx & (num-1))*2) *)
AvailHead == availRing[Slot(lastAvail)]

(* get_desc_rw_size returns -1: the chain is skipped, last_avail_idx++. *)
SkipBadChain ==
  /\ wpc = "loop" /\ lastAvail # wAvail
  /\ kind[AvailHead] = "rwerr"
  /\ lastAvail' = Inc(lastAvail)
  /\ UNCHANGED <<dev, memVars, drvVars, intStatus, irqLine, notifyPending, wVars, aVars>>

(* virtio_block_recv_request: the header copy fails, return 0. *)
DropShortHeader ==
  /\ wpc = "loop" /\ lastAvail # wAvail /\ dev = "block"
  /\ kind[AvailHead] = "short"
  /\ lastAvail' = Inc(lastAvail)
  /\ UNCHANGED <<dev, memVars, drvVars, intStatus, irqLine, notifyPending, wVars, aVars>>

(* virtio_block_recv_request on a well-formed chain: the header is read,  *)
(* the backend runs and returns 0 or -1 synchronously, and               *)
(* virtio_block_req_end copies the status byte OK or IOERR (and an IN     *)
(* payload) into the chain with memcpy_to_queue before                    *)
(* virtio_consume_desc; an unknown type gets the UNSUPP byte the same    *)
(* way.  resp records that the status byte was written: its value does   *)
(* not change what happens next.                                          *)
RecvRequest ==
  /\ wpc = "loop" /\ lastAvail # wAvail /\ dev = "block"
  /\ kind[AvailHead] \in GoodKinds
  /\ resp' = [resp EXCEPT ![AvailHead] = TRUE]
  /\ wHead' = AvailHead
  /\ wpc' = "elem"
  /\ UNCHANGED <<availRing, availIdx, usedRing, usedIdx, kind, drvVars, devVars,
                 wAvail, wUsed, wInt, aVars>>

(* The recv_request steps of the other devices: the device is done with  *)
(* the chain's buffers (resp) and goes on to virtio_consume_desc.         *)
RecvAndConsume ==
  /\ resp' = [resp EXCEPT ![AvailHead] = TRUE]
  /\ wHead' = AvailHead
  /\ wpc' = "elem"
  /\ UNCHANGED <<availRing, availIdx, usedRing, usedIdx, kind, drvVars, devVars,
                 wAvail, wUsed, wInt, aVars>>

(* virtio_net_recv_request, queue 1: the s1->header_size bytes of the     *)
(* virtio-net header do not fit the readable part, return 0 without a    *)
(* virtio_consume_desc.                                                   *)
NetDropShortHeader ==
  /\ wpc = "loop" /\ lastAvail # wAvail /\ dev = "net"
  /\ kind[AvailHead] = "short"
  /\ lastAvail' = Inc(lastAvail)
  /\ UNCHANGED <<memVars, drvVars, intStatus, irqLine, notifyPending, dev, wVars, aVars>>

(* virtio_net_recv_request, queue 1: the packet after the header is       *)
(* copied out, es->write_packet sends it, virtio_consume_desc(.., 0).     *)
NetRecvTx ==
  /\ wpc = "loop" /\ lastAvail # wAvail /\ dev = "net"
  /\ kind[AvailHead] = "req"
  /\ RecvAndConsume

(* virtio_console_recv_request, queue 1: read_size bytes are copied into  *)
(* a zeroed buffer, whether or not memcpy_from_queue succeeds, handed to *)
(* cs->write_data, and the chain is consumed with length 0.               *)
ConsoleRecvTx ==
  /\ wpc = "loop" /\ lastAvail # wAvail /\ dev = "console"
  /\ kind[AvailHead] = "req"
  /\ RecvAndConsume

(* virtio_entropy_recv_request, queue 0: getrandom fills the write part   *)
(* in blocks of at most 256 bytes (abort() if it fails, which it does not *)
(* for such sizes), memcpy_to_queue copies each, and the chain is         *)
(* consumed with write_size; a chain with no write part completes empty. *)
EntropyRecv ==
  /\ wpc = "loop" /\ lastAvail # wAvail /\ dev = "entropy"
  /\ kind[AvailHead] = "req"
  /\ RecvAndConsume

(* virtio_consume_desc: used_idx = read16(used_addr + 2), and the element *)
(* at used_idx & (num - 1) is written.                                     *)
ConsumeWriteElem ==
  /\ wpc = "elem"
  /\ wUsed' = usedIdx
  /\ usedRing' = [usedRing EXCEPT ![Slot(usedIdx)] = wHead]
  /\ wpc' = "publish"
  /\ UNCHANGED <<availRing, availIdx, usedIdx, kind, resp, drvVars, devVars,
                 wAvail, wHead, wInt, aVars>>

ConsumePublishNoWrap ==
  /\ wpc = "publish"
  /\ usedIdx' = wUsed + 1
  /\ wpc' = "intload"
  /\ UNCHANGED <<availRing, availIdx, usedRing, kind, resp, drvVars, devVars,
                 wAvail, wHead, wUsed, wInt, aVars>>

(* release fence; write16(used_addr + 2, used_idx + 1) *)
ConsumePublish ==
  /\ wpc = "publish"
  /\ usedIdx' = Inc(wUsed)
  /\ wpc' = "intload"
  /\ UNCHANGED <<availRing, availIdx, usedRing, kind, resp, drvVars, devVars,
                 wAvail, wHead, wUsed, wInt, aVars>>

(* s->int_status |= 1 is a plain load and store, racing the ack. *)
ConsumeIntLoad ==
  /\ wpc = "intload"
  /\ wInt' = intStatus
  /\ wpc' = "intstore"
  /\ UNCHANGED <<memVars, drvVars, devVars, wAvail, wHead, wUsed, aVars>>

ConsumeIntStore ==
  /\ wpc = "intstore"
  /\ intStatus' = wInt \cup {"vring"}
  /\ wpc' = "irq"
  /\ UNCHANGED <<dev, memVars, drvVars, lastAvail, irqLine, notifyPending,
                 wAvail, wHead, wUsed, wInt, aVars>>

ConsumeSetIrqNoAdvance ==
  /\ wpc = "irq"
  /\ irqLine' = TRUE
  /\ wpc' = "loop"
  /\ UNCHANGED <<dev, memVars, drvVars, lastAvail, intStatus, notifyPending,
                 wAvail, wHead, wUsed, wInt, aVars>>

(* set_irq(s->irq, 1); recv returns 0 and queue_notify does             *)
(* last_avail_idx++.                                                      *)
ConsumeSetIrq ==
  /\ wpc = "irq"
  /\ irqLine' = TRUE
  /\ lastAvail' = Inc(lastAvail)
  /\ wpc' = "loop"
  /\ UNCHANGED <<dev, memVars, drvVars, intStatus, notifyPending,
                 wAvail, wHead, wUsed, wInt, aVars>>

Worker ==
  \/ QueueNotifyStart \/ QueueNotifyDone \/ SkipBadChain \/ DropShortHeader
  \/ RecvRequest \/ NetDropShortHeader \/ NetRecvTx \/ ConsoleRecvTx \/ EntropyRecv
  \/ ConsumeWriteElem \/ ConsumePublish
  \/ ConsumeIntLoad \/ ConsumeIntStore \/ ConsumeSetIrq

-----------------------------------------------------------------------------
(***************************************************************************)
(* Dispatcher thread: virtio_mmio_write(INTERRUPT_ACK, val).               *)
(* `s->int_status &= ~val; if (s->int_status == 0) set_irq(s->irq, 0);`    *)
(* The test races the worker's store: the build may test the value it      *)
(* just stored or load int_status again, so both are possible.             *)
(***************************************************************************)
AckStore ==
  /\ apc = "store"
  /\ intStatus' = aTmp \ aVal
  /\ aTmp' = aTmp \ aVal
  /\ apc' = "check"
  /\ UNCHANGED <<dev, memVars, drvVars, lastAvail, irqLine, notifyPending, wVars, aVal>>

AckCheck ==
  /\ apc = "check"
  /\ \E v \in {aTmp, intStatus} : apc' = IF v = {} THEN "lower" ELSE "idle"
  /\ UNCHANGED <<memVars, drvVars, devVars, wVars, aVal, aTmp>>

(* set_irq(s->irq, 0): irq_clear_levels on the FPGA interrupt register. *)
AckLower ==
  /\ apc = "lower"
  /\ irqLine' = FALSE
  /\ apc' = "idle"
  /\ UNCHANGED <<dev, memVars, drvVars, lastAvail, intStatus, notifyPending, wVars,
                 aVal, aTmp>>

Dispatcher == AckStore \/ AckCheck \/ AckLower

-----------------------------------------------------------------------------
Next == Driver \/ Worker \/ Dispatcher

(* The worker and the dispatcher are host threads the OS keeps running;   *)
(* the guest CPU runs its kick and its interrupt handler once it has      *)
(* started them.  Submitting new requests is the guest's choice.          *)
Fairness ==
  /\ WF_vars(Worker) /\ WF_vars(Dispatcher)
  /\ WF_vars(Kick \/ IsrReadStatus \/ IsrWriteAck \/ IsrScan)

Spec == Init /\ [][Next]_vars /\ Fairness

-----------------------------------------------------------------------------
TypeOK ==
  /\ availRing \in [0 .. Num - 1 -> Heads \cup {NoHead}]
  /\ usedRing \in [0 .. Num - 1 -> Heads \cup {NoHead}]
  /\ {availIdx, usedIdx, drvLastUsed, lastAvail, wAvail, wUsed} \subseteq 0 .. IdxMod - 1
  /\ kind \in [Heads -> Kinds]
  /\ resp \in [Heads -> BOOLEAN]
  /\ posted \in [Heads -> BOOLEAN]
  /\ {intStatus, dStatus, wInt, aVal, aTmp} \subseteq SUBSET {"vring"}
  /\ wpc \in {"idle", "loop", "elem", "publish", "intload", "intstore", "irq"}
  /\ apc \in {"idle", "store", "check", "lower"}
  /\ dpc \in {"idle", "ack", "scan"}
  /\ badPosted \in 0 .. MaxBadChains
  /\ dev \in Devs

(* Every used-ring entry the driver has yet to take names a head the      *)
(* driver posted and still owns, names it once, and the device was done  *)
(* with its buffers (the block status byte written, the net or console    *)
(* payload read, the random bytes written) before used.idx made the       *)
(* entry visible.  Broken by a chain     *)
(* processed twice (queue_notify's last_avail_idx bookkeeping), an entry  *)
(* written to the wrong slot, or a completion published before its data  *)
(* (virtio_consume_desc's write order).                                   *)
UsedEntriesValid ==
  /\ Pending(usedIdx, drvLastUsed) <= Num
  /\ IsInjective(UsedWindow)
  /\ \A k \in DOMAIN UsedWindow :
       LET h == UsedWindow[k] IN h \in Heads /\ posted[h] /\ resp[h]

(* Every chain the device's recv_request completes is eventually          *)
(* completed: the kick reaches queue_notify, the drain loop gets to the   *)
(* chain past any malformed or dropped one before it, and the chain's     *)
(* head is published in the used ring.                                    *)
CompletionPublished ==
  \A h \in Heads :
    (posted[h] /\ kind[h] \in GoodKinds) ~> (~posted[h] \/ h \in Range(UsedWindow))

(* Every well-formed request the driver posts is eventually seen complete *)
(* by its interrupt handler: the kick reaches queue_notify, the chain is  *)
(* completed, and the int_status / set_irq updates of virtio_consume_desc *)
(* survive the racing INTERRUPT_ACK read-modify-write so that an          *)
(* interrupt, or the handler's scan after its ack, finds the entry.       *)
CompletionSeen ==
  \A h \in Heads : (posted[h] /\ kind[h] \in GoodKinds) ~> ~posted[h]
====
