----------------------------- MODULE VirtioMMIO -----------------------------
(***************************************************************************)
(* The register file of one VirtIO MMIO device (src/src/virtio.c):         *)
(* virtio_reset, virtio_config_read/write, virtio_mmio_read/write and      *)
(* set_low32/set_high32.  The dispatcher thread is the only caller, one    *)
(* access at a time, so each access is one step.  It always passes        *)
(* size_log2 = 2 (fpga.cpp emulated_mmio_respond); register accesses of    *)
(* another size are ignored by the code and left out, config accesses keep *)
(* the size as a parameter.                                                *)
(*                                                                         *)
(* Data: a 64-bit feature word is the set of its bit numbers, a 32-bit     *)
(* value written to a feature register the set of its bit numbers 0..31,  *)
(* the status register the set of its flag names, a queue address the pair *)
(* <<low word, high word>>.  A QueueNotify write is recorded in `notified` *)
(* (what async_queue_notify hands to the worker, see NotifyWorker).        *)
(***************************************************************************)
EXTENDS Naturals, FiniteSets

CONSTANTS
  DeviceFeatures,  \* s->device_features, as bit numbers 0..63
  ConfigSize,      \* s->config_space_size, from the device's virtio_init call
  MaxQueue,        \* MAX_QUEUE
  MaxQueueNum,     \* MAX_QUEUE_NUM
  AccessSizes,     \* size_log2 values the bus passes to config accesses
  ConfigOffsets,   \* config offsets (offset - VIRTIO_MMIO_CONFIG) accessed
  SelVals,         \* values written to the *_SEL registers
  WordVals,        \* values (sets of bits 0..31) written to DriverFeatures
  StatusVals,      \* values written to Status
  QueueNumVals,    \* values written to QueueNum
  AddrVals,        \* values written to the queue address words
  AckVals          \* values written to InterruptAck

VERSION_1 == 32                                   \* VIRTIO_F_VERSION_1 = BIT(32)
StatusFlags == {"ACK", "DRIVER", "DRIVER_OK", "FEATURES_OK", "NEEDS_RESET", "FAILED"}
IntBits == {"vring", "config"}                    \* int_status bits 1 and 2
Queues == 0 .. MaxQueue - 1
AddrFields == {"desc", "avail", "used"}

(* The 32-bit windows of a 64-bit feature word: `f >> 0` and `f >> 32`    *)
(* truncated to 32 bits, and `(uint64_t)v << 32`.                          *)
Low32(f)  == {b \in f : b < 32}
High32(f) == {b - 32 : b \in {c \in f : c >= 32}}
Shl32(v)  == {b + 32 : b \in v}

(* uint32_t subtraction.  A wrapped result is 2^32 - (b - a), larger than  *)
(* every config offset the 4 KiB MMIO window can carry; U32Top stands for  *)
(* it (TLC's integers are 32-bit signed).                                  *)
U32Top == 2147483647
U32Sub(a, b) == IF a >= b THEN a - b ELSE U32Top

(* (2^31 is also a power of two in uint32_t; no model value reaches it.) *)
IsPow2(v) == \E k \in 0 .. 30 : 2^k = v

VARIABLES
  status, deviceFeaturesSel, driverFeaturesSel, driverFeatures,
  negotiated, queueSel, queue, intStatus, irqLine, notified,
  cfgTouched,   \* history: the config_space bytes the last config access touched
  requested,    \* history: feature bits the driver has written since the last reset
  reqSel,       \* history: the last DriverFeaturesSel the driver wrote since reset
  fokReq        \* history: `requested` when FEATURES_OK was last committed

devVars == <<status, deviceFeaturesSel, driverFeaturesSel, driverFeatures,
             negotiated, queueSel, queue, intStatus, irqLine, notified>>
histVars == <<cfgTouched, requested, reqSel, fokReq>>
vars == <<devVars, histVars>>

(* The queue state virtio_reset leaves: ready 0, num MAX_QUEUE_NUM,        *)
(* addresses 0, last_avail_idx 0.                                          *)
ResetQueue == [ready |-> 0, num |-> MaxQueueNum, lastAvail |-> 0,
               addr |-> [f \in AddrFields |-> <<0, 0>>]]

(* virtio_reset, as called from virtio_init (post-construction) and on a   *)
(* Status write of 0 (which also lowers the irq line).                     *)
ResetState ==
  [status |-> {}, deviceFeaturesSel |-> 0, driverFeaturesSel |-> 0,
   driverFeatures |-> {}, negotiated |-> {}, queueSel |-> 0,
   queue |-> [q \in Queues |-> ResetQueue], intStatus |-> {}]

Init ==
  /\ status = ResetState.status
  /\ deviceFeaturesSel = 0 /\ driverFeaturesSel = 0
  /\ driverFeatures = {} /\ negotiated = {}
  /\ queueSel = 0 /\ queue = ResetState.queue
  /\ intStatus = {} /\ irqLine = FALSE /\ notified = {}
  /\ cfgTouched = {} /\ requested = {} /\ reqSel = 0 /\ fokReq = {}

-----------------------------------------------------------------------------
(***************************************************************************)
(* Config space.  The access covers 2^sz bytes at offset when the bound    *)
(* check passes; the check is computed in uint32_t.                        *)
(***************************************************************************)
ConfigBoundOffByOne(off, sz) ==
  CASE sz = 0 -> off < ConfigSize
    [] sz = 1 -> off < ConfigSize
    [] sz = 2 -> off < ConfigSize

ConfigBound(off, sz) ==
  CASE sz = 0 -> off < ConfigSize
    [] sz = 1 -> off < U32Sub(ConfigSize, 1)
    [] sz = 2 -> off < U32Sub(ConfigSize, 3)

Bytes(off, sz) == off .. off + 2^sz - 1

(* virtio_config_read: the bytes read, or none (value 0). *)
ConfigRead(off, sz) ==
  /\ cfgTouched' = IF ConfigBound(off, sz) THEN Bytes(off, sz) ELSE {}
  /\ UNCHANGED <<devVars, requested, reqSel, fokReq>>

(* virtio_config_write: the bytes written, then s->config_write(s); the    *)
(* callback's effect on device state is not part of this module.          *)
ConfigWrite(off, sz) ==
  /\ cfgTouched' = IF ConfigBound(off, sz) THEN Bytes(off, sz) ELSE {}
  /\ UNCHANGED <<devVars, requested, reqSel, fokReq>>

-----------------------------------------------------------------------------
(***************************************************************************)
(* virtio_mmio_write of a register (offset < VIRTIO_MMIO_CONFIG), one      *)
(* action per case of its switch.                                          *)
(***************************************************************************)
WriteDeviceFeaturesSel(v) ==
  /\ deviceFeaturesSel' = v
  /\ UNCHANGED <<status, driverFeaturesSel, driverFeatures, negotiated, queueSel,
                 queue, intStatus, irqLine, notified, histVars>>

WriteDriverFeaturesSel(v) ==
  /\ driverFeaturesSel' = v
  /\ reqSel' = v
  /\ UNCHANGED <<status, deviceFeaturesSel, driverFeatures, negotiated, queueSel,
                 queue, intStatus, irqLine, notified, cfgTouched, requested, fokReq>>

(* driver_features |= val << 0 or << 32 by driver_features_sel; other      *)
(* selectors are ignored.  The driver's own record: the same, by the       *)
(* selector it wrote.                                                      *)
WriteDriverFeatures(v) ==
  /\ driverFeatures' = CASE driverFeaturesSel = 0 -> driverFeatures \cup v
                         [] driverFeaturesSel = 1 -> driverFeatures \cup Shl32(v)
                         [] OTHER -> driverFeatures
  /\ requested' = CASE reqSel = 0 -> requested \cup v
                    [] reqSel = 1 -> requested \cup Shl32(v)
                    [] OTHER -> requested
  /\ UNCHANGED <<status, deviceFeaturesSel, driverFeaturesSel, negotiated,
                 queueSel, queue, intStatus, irqLine, notified, cfgTouched,
                 reqSel, fokReq>>

WriteQueueSel(v) ==
  /\ queueSel' = IF v < MaxQueue THEN v ELSE queueSel
  /\ UNCHANGED <<status, deviceFeaturesSel, driverFeaturesSel, driverFeatures,
                 negotiated, queue, intStatus, irqLine, notified, histVars>>

(* ((val & (val - 1)) == 0 && val > 0): a power of two, with no upper bound. *)
QueueNumAcceptsZero(v) == IsPow2(v) \/ v = 0

QueueNumAccepts(v) == IsPow2(v) /\ v > 0

WriteQueueNum(v) ==
  /\ queue' = IF QueueNumAccepts(v)
                THEN [queue EXCEPT ![queueSel].num = v] ELSE queue
  /\ UNCHANGED <<status, deviceFeaturesSel, driverFeaturesSel, driverFeatures,
                 negotiated, queueSel, intStatus, irqLine, notified, histVars>>

(* set_low32 / set_high32 on desc_addr, avail_addr or used_addr. *)
WriteQueueAddr(f, half, v) ==
  /\ queue' = [queue EXCEPT ![queueSel].addr[f] =
                 IF half = "low" THEN <<v, @[2]>> ELSE <<@[1], v>>]
  /\ UNCHANGED <<status, deviceFeaturesSel, driverFeaturesSel, driverFeatures,
                 negotiated, queueSel, intStatus, irqLine, notified, histVars>>

WriteQueueReady(v) ==
  /\ queue' = [queue EXCEPT ![queueSel].ready = v % 2]
  /\ UNCHANGED <<status, deviceFeaturesSel, driverFeaturesSel, driverFeatures,
                 negotiated, queueSel, intStatus, irqLine, notified, histVars>>

(* if (val < MAX_QUEUE) async_queue_notify(s, val) *)
WriteQueueNotify(v) ==
  /\ notified' = IF v < MaxQueue THEN notified \cup {v} ELSE notified
  /\ UNCHANGED <<status, deviceFeaturesSel, driverFeaturesSel, driverFeatures,
                 negotiated, queueSel, queue, intStatus, irqLine, histVars>>

(* int_status &= ~val; if (int_status == 0) set_irq(irq, 0) *)
WriteInterruptAck(v) ==
  /\ intStatus' = intStatus \ v
  /\ irqLine' = (irqLine /\ intStatus' # {})
  /\ UNCHANGED <<status, deviceFeaturesSel, driverFeaturesSel, driverFeatures,
                 negotiated, queueSel, queue, notified, histVars>>

(* The FEATURES_OK gate: on a write that sets FEATURES_OK while it is      *)
(* clear, neg = driver_features & device_features is accepted iff it       *)
(* equals driver_features and has VERSION_1; else FEATURES_OK is removed   *)
(* from val (val ^ FEATURES_OK).                                           *)
Gate(v) == "FEATURES_OK" \notin status /\ "FEATURES_OK" \in v

Accepted == driverFeatures \cap DeviceFeatures = driverFeatures
            /\ VERSION_1 \in driverFeatures \cap DeviceFeatures

(* virtio_reset that forgets driver_features. *)
ResetKeepsDriverFeatures(v) ==
  /\ status' = {} /\ irqLine' = FALSE
  /\ deviceFeaturesSel' = 0 /\ driverFeaturesSel' = 0
  /\ negotiated' = {} /\ queueSel' = 0 /\ intStatus' = {}
  /\ queue' = [q \in Queues |-> ResetQueue]
  /\ UNCHANGED driverFeatures

(* s->status = 0; set_irq(s->irq, 0); virtio_reset(s) *)
StatusReset(v) ==
  /\ status' = {} /\ irqLine' = FALSE
  /\ deviceFeaturesSel' = 0 /\ driverFeaturesSel' = 0
  /\ driverFeatures' = {} /\ negotiated' = {}
  /\ queueSel' = 0 /\ intStatus' = {}
  /\ queue' = [q \in Queues |-> ResetQueue]

(* s->status = val, after the gate; nothing else changes unless val is 0. *)
StatusCommit(v) ==
  LET w == IF Gate(v) /\ ~Accepted THEN v \ {"FEATURES_OK"} ELSE v
  IN  /\ status' = w
      /\ negotiated' = IF Gate(v) /\ Accepted
                         THEN driverFeatures \cap DeviceFeatures ELSE negotiated
      /\ UNCHANGED <<deviceFeaturesSel, driverFeaturesSel, driverFeatures,
                     queueSel, queue, intStatus, irqLine>>

WriteStatus(v) ==
  /\ IF v = {} THEN StatusReset(v) ELSE StatusCommit(v)
  /\ requested' = IF v = {} THEN {} ELSE requested
  /\ reqSel' = IF v = {} THEN 0 ELSE reqSel
  /\ fokReq' = IF "FEATURES_OK" \notin status /\ "FEATURES_OK" \in status'
                 THEN requested ELSE fokReq
  /\ UNCHANGED <<notified, cfgTouched>>

(* The device side of int_status: virtio_consume_desc (bit 1) and         *)
(* virtio_config_change_notify (bit 2) do int_status |= bit;              *)
(* set_irq(irq, 1).  Their race with INTERRUPT_ACK is in Virtqueue.        *)
RaiseInterrupt(b) ==
  /\ intStatus' = intStatus \cup {b}
  /\ irqLine' = TRUE
  /\ UNCHANGED <<status, deviceFeaturesSel, driverFeaturesSel, driverFeatures,
                 negotiated, queueSel, queue, notified, histVars>>

(* virtio_mmio_read of the registers a driver reads (size_log2 = 2). *)
MmioRead(reg) ==
  CASE reg = "MagicValue"      -> "virt"
    [] reg = "Version"         -> 2
    [] reg = "DeviceFeatures"  -> CASE deviceFeaturesSel = 0 -> Low32(DeviceFeatures)
                                    [] deviceFeaturesSel = 1 -> High32(DeviceFeatures)
                                    [] OTHER -> {}
    [] reg = "QueueNumMax"     -> MaxQueueNum
    [] reg = "QueueReady"      -> queue[queueSel].ready
    [] reg = "InterruptStatus" -> intStatus
    [] reg = "Status"          -> status

-----------------------------------------------------------------------------
(***************************************************************************)
(* Any guest: every access, with values from the small sets above.         *)
(***************************************************************************)
Access ==
  \/ \E off \in ConfigOffsets, sz \in AccessSizes :
       ConfigRead(off, sz) \/ ConfigWrite(off, sz)
  \/ \E v \in SelVals : WriteDeviceFeaturesSel(v) \/ WriteDriverFeaturesSel(v)
                        \/ WriteQueueSel(v) \/ WriteQueueNotify(v)
  \/ \E v \in WordVals : WriteDriverFeatures(v)
  \/ \E v \in QueueNumVals : WriteQueueNum(v)
  \/ \E f \in AddrFields, h \in {"low", "high"}, v \in AddrVals :
       WriteQueueAddr(f, h, v)
  \/ \E v \in 0 .. 1 : WriteQueueReady(v)
  \/ \E v \in AckVals : WriteInterruptAck(v)
  \/ \E v \in StatusVals : WriteStatus(v)
  \/ \E b \in IntBits : RaiseInterrupt(b)

Next == Access

Spec == Init /\ [][Next]_vars

-----------------------------------------------------------------------------
TypeOK ==
  /\ status \subseteq StatusFlags
  /\ driverFeatures \subseteq 0 .. 63 /\ negotiated \subseteq DeviceFeatures
  /\ queueSel \in Queues
  /\ \A q \in Queues : /\ queue[q].ready \in 0 .. 1
                       /\ IsPow2(queue[q].num)
  /\ intStatus \subseteq IntBits /\ irqLine \in BOOLEAN
  /\ notified \subseteq Queues

(* The FEATURES_OK gate (spec section 8): while Status holds FEATURES_OK,  *)
(* the features the driver has written since the last reset are offered   *)
(* by the device and include VERSION_1, and negotiated_features is exactly *)
(* them.  It needs the driver_features accumulation, the selector, the     *)
(* gate and virtio_reset to agree over any sequence of writes.             *)
FeaturesOkSound ==
  "FEATURES_OK" \in status =>
    /\ fokReq \subseteq DeviceFeatures
    /\ VERSION_1 \in fokReq
    /\ negotiated = fokReq

(* A config access by virtio_config_read/write touches only bytes of the   *)
(* device's config space, 0 .. config_space_size - 1, whatever offset and  *)
(* size the guest uses.                                                    *)
ConfigAccessInBounds == cfgTouched \subseteq 0 .. ConfigSize - 1
====
