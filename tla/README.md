# TLA+ models of tinyemu-virtio

This directory is a TLC model-checking project for the host-side VirtIO
emulator in `src/src/virtio.c`, and for the FPGA glue in
`src/unnamed/part_000` (`fpga.cpp`). The models keep the control of the
code: every state change, guard, early return and the order of steps that
other threads can observe. They abstract the data to what the properties
tell apart.

## The system

A RISC-V guest on an FPGA accesses the VirtIO MMIO windows. The FPGA
captures each access. The host's **dispatcher thread**
(`FPGA_io::emulated_mmio_respond`) classifies it as a VirtIO device, HTIF
tohost/fromhost, sifive_test, ROM or a stray address. It then calls
`virtio_mmio_read` / `virtio_mmio_write`, which update the device's
register file:
- status and feature negotiation;
- queue configuration;
- `int_status`, through `INTERRUPT_ACK`.

A write to `QueueNotify` does not process the queue on the dispatcher.
`async_queue_notify` sets a bit in the device's atomic
`pending_queue_notify` and wakes the **"VirtIO queues" worker thread**
(`pending_notify_worker`) through a mutex and condition variable. The
worker drains every device's bits and calls `queue_notify` for each queue.

`queue_notify` is the virtqueue engine. It reads the available ring from
guest memory (DMA), and for each new head it does the following:
1. It sizes the chain with `get_desc_rw_size`.
2. It hands the chain to the device's `recv` handler.
3. It advances `last_avail_idx`.

A handler copies data with `memcpy_to_from_queue` and publishes the
completion with `virtio_consume_desc`. That function writes the used
element, then `used.idx` (after a release fence). It then does
`int_status |= 1` and `set_irq(1)`, which goes to the FPGA interrupt
register. The guest's interrupt handler reads `InterruptStatus`, writes it
back to `InterruptAck`, and scans the used ring.

Other threads:
- **Backend completion threads.** Block asynchronous I/O calls
  `virtio_block_req_cb`, which completes the request and calls
  `queue_notify` again. Net and console receive call `manual_recv` queues.
- **The stdin thread.** It feeds the HTIF fromhost queue and may call
  `stop_io`.

### Inventory

| Part | State | Operations | Hard behaviour |
|---|---|---|---|
| Descriptor walks (`get_desc_rw_size`, `memcpy_to_from_queue`) | descriptor table in guest memory | pure functions | guest-controlled `next` cycles, read/write split, offsets at boundaries |
| Notify worker | `pending_queue_notify`, `pending_notify`, `pending_notify_stop`, mutex, condvar | `async_queue_notify`, worker loop, stop | lost wakeup, bit set during a drain, spurious wakeups, stop while busy |
| Virtqueue engine | `last_avail_idx`, `avail_idx`, guest rings | `queue_notify`, `virtio_consume_desc` | uint16 wrap, publication order, malformed chains |
| Interrupts | `int_status`, FPGA irq levels | consume (`|= 1`), config change (`|= 2`), `INTERRUPT_ACK` (`&= ~val`) | non-atomic read-modify-write on two threads |
| MMIO register file | status, features, queue config, config space | `virtio_mmio_read/write`, `virtio_reset` | FEATURES_OK gate, reset while the worker drains |
| Block device | `req_in_progress`, `req` | `virtio_block_recv_request`, `req_end`, `req_cb` | asynchronous callback re-entering `queue_notify` |
| Net / console / input / entropy | manual_recv queues, `buttons_state`, config | backend rx calls, `send_key_event`, `send_mouse_event` | rx racing the guest's refill, a multi-event call failing midway |
| 9P | fid table, `req_in_progress` | 9P ops, async `lopen` | fid rebinding, async open |
| Dispatcher (fpga.cpp) | HTIF addresses, stdin queue, `exit_code` | `emulated_mmio_respond`, `enqueue/dequeue_stdin` | byte enables, lane shifts, stdin mutex |
| Host I/O threads (fpga.cpp) | stop pipe, console pipe, `ctrla_seen` | `start_io`, `process_stdin`, `stop_io`, `join_io` | thread start order, blocking writes, stop from two threads |

## Modules

### `DescChain` and `MC_DescChain`

Descriptor-chain walks.
- **Model:** a descriptor table is a function from index to
  `[len, write, next, nxt]`. There are three walks, all `RECURSIVE`
  operators:
  - `RwWalk`/`RwSize` is `get_desc_rw_size`;
  - `SkipToWrite`, `FindOffset` and `CopyFrom` are the three loops of
    `memcpy_to_from_queue`;
  - `MemcpyToFromQueue` is the whole function.
- **Fuel:** each walk carries a fuel argument. A walk that runs out of fuel
  has repeated a (descriptor, phase) pair, so the C loop never ends (`"hang"`).
- **References:** the reference definitions (`Chain`, `SplitOK`,
  `RefRwSize`, `RegionBytes`) say what spec.md §8 promises.
- **Check:** `MC_DescChain` enumerates every table of 3 descriptors with
  lengths 0..2, every head, offset 0..2, count 0..3 and direction. Its next
  state relation is `UNCHANGED`, so each input is checked once.

### `NotifyAbstract`, `NotifyWorker` and `MC_NotifyWorker`

The notification path.
- **`NotifyAbstract` is the promise.**
  - A notify adds (device, queue) to `pending`; coalescing is allowed.
  - `Serve` removes a pending pair.
  - A stop request lets the worker `Exit`.
  - Weak fairness on `Serve` and `Exit`.
- **`NotifyWorker` is the code.**
  - The dispatcher does `NotifyFetchOr` (the atomic fetch_or, outside the
    lock), then `NotifyWake` (the locked section: set `pending_notify`,
    then signal).
  - The worker does `WorkerWait`, `WorkerExit`, `WorkerTakeWork`,
    `WorkerExchange`, `WorkerServe` (lowest set bit first) and
    `WorkerNextDevice`.
  - `WorkerSpuriousWakeup` stands for `pthread_cond_wait` returning without
    a signal.
  - `Stop` is `virtio_stop_pending_notify_thread`.
  - Each critical section is one step, and `pthread_cond_wait` releases the
    lock in the step that blocks.
- **Refinement mapping:**
  - `pending` is the set bits plus the bits the worker has exchanged and
    not yet served;
  - `stopReq` is "stop called";
  - `exited` is the worker's exit.

### `Virtqueue` and `MC_Virtqueue`

One queue of a device that consumes the guest's chains: the block
device, or (the constant `Devs`, one chosen in `Init` as `dev`) net tx
(queue 1), console tx (queue 1) or entropy (queue 0).
- **Guest driver (environment):**
  - `Submit` fills a chain and puts its head in the available ring;
  - `Kick` is the QueueNotify write;
  - `IsrReadStatus`, `IsrWriteAck` and `IsrScan` are the handler: read
    `InterruptStatus`, ack it, and if the vring bit was set take every used
    entry.
- **Worker (`queue_notify`):**
  - `QueueNotifyStart` is NotifyAbstract's `Serve` plus the `avail.idx`
    read.
  - `QueueNotifyDone` ends the drain.
  - `SkipBadChain` is `get_desc_rw_size` failing.
  - `DropShortHeader` is the header copy failing.
  - `RecvRequest` is the request with the backend returning 0 or -1. Its
    status byte is copied before consume.
  - `NetDropShortHeader` and `NetRecvTx` are `virtio_net_recv_request`:
    a chain shorter than the net header returns 0 without a consume, as
    the block device's does, and the head leaks; any other chain is
    consumed. `ConsoleRecvTx` and `EntropyRecv` consume every chain.
    `RecvAndConsume` is the copy-then-consume they share.
  - The steps of `virtio_consume_desc`: `ConsumeWriteElem`,
    `ConsumePublish`, `ConsumeIntLoad`, `ConsumeIntStore` and
    `ConsumeSetIrq`. The last also does `last_avail_idx++`.
- **Dispatcher (`INTERRUPT_ACK`):** `AckStore`, `AckCheck` and `AckLower`.
  The load of `int_status` is part of `IsrWriteAck`. `AckCheck` may test
  the value just stored or reload `int_status`, because the race makes
  either possible in the build.
- **What is abstracted:**
  - A chain is abstracted to its kind: well formed (`req`), a read-write
    split error (`rwerr`), or a header shorter than 16 bytes (`short`).
    Only the block and net devices read a header (`DropsShort`); for
    console and entropy a short chain behaves as a `req`, so the guest
    posts `short` chains only to those two.
  - The status byte is a flag: its value (OK / IOERR / UNSUPP) does not
    change what happens next.
  - Ring indices wrap at `IdxMod`, which stands for 2^16.

### `BlockReq` (checked by `MC_DescChain`)

One block request as a pure function of the descriptor table, the request
header and the backend's result.
- **Model:** `BlockRecvRequest` is `virtio_block_recv_request` after the
  `req_in_progress` test: the header copy (`MemcpyToFromQueue`), then
  `BlockIn`, `BlockOut`, `BlockFlush`, `BlockGetId` or the UNSUPP byte.
  `ReqEndBuf` and `ReqEndByte` are the two shapes of
  `virtio_block_req_end`. `MemcpyToQueue` maps every writable byte of the
  chain to what the request wrote there, or `"guest"` where the copy
  missed it.
- **Bytes** are abstracted to their origin: `"data"` (disk), `"junk"`
  (fresh `malloc`), `"zero"` (`calloc`), `"id"`, and the status values.
- **Outcome:** an assert abort, a store outside the host buffer (`oob`),
  whether the chain is consumed, the used length, the chain's writable
  bytes and the sectors asked of the backend.
- An asynchronous completion calls `virtio_block_req_end` with the
  callback's ret, so `ret \in {0, -1}` covers it.

### `NinePWire` (checked by `MC_DescChain`)

The 9P device's wire layer, as pure operators over a descriptor table and
the guest's bytes.
- **Model:** `MarshallFrom`/`Marshall` is `marshall` (each field asserts
  it fits before `buf_end`; `FieldBytes` is what one case writes);
  `UnmarshallFrom`/`Unmarshall` is `unmarshall`, one `memcpy_from_queue`
  (`ReadQueue`) per field, a string's length then its bytes, `-1` on the
  first failed copy. `RecvHeader` is the 7-byte header read at the top of
  `virtio_9p_recv_request`; `ParseRequest` adds the case's body
  `unmarshall` and the `protocol_error` path. `SendReply` and `SendError`
  are `virtio_9p_send_reply` and `virtio_9p_send_error`; `WalkReply` is the
  walk case's reply, one `marshall` per qid into the room left.
- **Bytes** are integers 0..255; `PutLE`/`GetLE` are `put_le*`/`get_le*`
  (in `cutils.h`, outside the repository, so modelled from spec.md §9
  "Byte-ordering").
- **Reference:** `MC_DescChain` writes the 9P2000.L encoding a second,
  independent way (`WireField`, `WireBytes`, `Frame`: the fields
  concatenated, integers as base-256 digits).

### `VirtioMMIO` and `MC_VirtioMMIO`

The register file of one device. The dispatcher is its only caller, so each
access is one step.
- **State:** `status`, the feature selectors, `driver_features`,
  `negotiated_features`, `queue_sel`, each queue's `num`, `ready` and
  addresses, `int_status`, the irq line. Feature words are sets of bit
  numbers, so the `<< 32` and `>> 32` of the code are set maps.
- **Actions:** one per register of `virtio_mmio_write` (`WriteStatus` splits
  into `StatusReset`, which is `virtio_reset`, and `StatusCommit`, the
  FEATURES_OK gate), `MmioRead`, and `ConfigRead`/`ConfigWrite` with the code's
  uint32 bound checks (`U32Sub` is the subtraction modulo 2^32).
- **History:** `requested` (what the driver wrote since the last reset) and
  `cfgTouched` (config bytes accessed) let the properties speak about the
  past.

### `HostIO` and `MC_HostIO`

The host threads of `fpga.cpp` around console input and shutdown.
- **Stdin thread:** `StdinSelect`, `StdinRead` (a chunk through
  `enqueue_stdin`'s C-a escape rules, the `RECURSIVE` `EscapeFrom`),
  `StdinPipeWrite` (one `::write` of the partial-write loop, at most the room
  in the pipe; a chunk is at most 128 bytes, below `PIPE_BUF`, so the real
  blocking write is all or nothing and the model's partial writes
  over-approximate it), `StdinPipeWriteUnset` (the write before `start_io` made the
  pipe: lost, or `abort()`), `StdinBreak`.
- **Main thread:** `StartPipe` (the rest of `start_io`), `GuestFinish` (the
  HTIF and SiFive finish writes, which call `StopIo`), `GuestReadFromhost`
  (`dequeue_stdin`), `LeaveLoop`, `JoinStdin`, `JoinDevices`.
- **Environment:** `ConsoleRead` (the console backend draining the pipe) and
  `WorkerExit`; `virtio_devices` and the main loop are outside `src/` and are
  modelled from spec.md section 5 (`spec_modelled` in the map).
- `console` (whether there is a virtio console) is chosen in `Init`, so one
  run covers both configurations.

### `ManualRecv` and `MC_ManualRecv`

Queue 0 of the `manual_recv` devices: net rx, console rx, and the input
event queue of a mouse or keyboard.
- **Guest (environment):** `Post`, `Kick`, `SetReady`, `Reclaim`.
- **Worker:** `QueueNotifyManual` is `queue_notify` on a `manual_recv`
  queue: it caches `avail.idx` in `qs->avail_idx` and returns.
- **Host calls:** `NetWritePacket` (every early return of
  `virtio_net_write_packet`); `MouseCall`, `MouseRel`, `MouseButton`,
  `MouseSyn` (the steps of `virtio_input_send_mouse_event`, each
  `virtio_input_queue_event` either taking the head buffer or returning);
  `KeyCall`, `KeyEvent` (`send_key_event`); `ConsoleCall`,
  `ConsoleWriteData` (the console backend asks `get_write_len`, then
  writes at most that much; the backend is modelled from spec.md 4.5).
- The devices share no state and run on different backend threads, so each
  behaviour runs one of them (`dev`, chosen in `Init`).
- **History:** `keyFold` is the button state the guest builds from the KEY
  events queued so far, `lastSyn` says the last queued event was a SYN.

### `BlockAsync` and `MC_BlockAsync`

The block queue when the backend completes asynchronously. Two threads
run `queue_notify` on it: the worker `W` after a kick, and the backend's
completion thread `B` at the end of `virtio_block_req_cb`.
- **Guest (environment):** `Submit`, `Kick`, `Reclaim`.
- **Per thread:** `QueueNotifyStart`, `QueueNotifyDone`, `Recv` (the head
  at `last_avail_idx` up to the backend call: skipped, `-1` on
  `req_in_progress`, completed at once, or handed to the backend),
  `SetInProgress` (`req_in_progress = TRUE` after `read_async` returns),
  `IncLastAvail` (line 600), `ConsumeWriteElem` and `ConsumePublish`.
- **Backend:** `ReqCallback` (`virtio_block_req_end` for `s1->req`) and
  `ReqCallbackClear` (`req_in_progress = FALSE`, then the re-drain).
- `pc`, `avail`, `head`, `used` and `ret` are the threads' locals; no lock
  protects `last_avail_idx`, `req_in_progress` or `req`, as in the code.

### `NineP` and `MC_NineP`

The 9P device's queue 0 and fid table.
- **State:** `fidList` is `s->fid_list` as a sequence, head first (so
  `list_add` is a prepend and `fid_find1` takes the first match). `live` is
  the set of FSFiles the backend holds, drawn from a pool so that a freed
  file can be handed out again. `opening` holds the FSFiles of outstanding
  `fs_open` calls.
- **Helpers:** `FidFind1`, `FidFind`, `FidSet` (deletes the old FSFile when
  it rebinds), `FidDelete`.
- **Requests:** `Attach`, `Walk` (a partial walk still binds `newfid`),
  `Clunk` and `Lopen` by their code. A `read` request is split at its
  backend call: `FileOpLookup` is `fid_find` (or the fid_not_found reply)
  and records the FSFile in `using`; `FileOpUse` is the `fs_read` call and
  the reply. It stands for every synchronous case that passes the fid's
  FSFile to the backend (write, getattr, readdir, ...). Every other case
  leaves the table alone and is `OtherOp`. A slot the driver never wrote is a malformed
  request (`Junk`).
- **Threads:** the drain is `BlockAsync`'s, with `virtio_9p_open_cb`
  (`OpenCb`, `OpenCbClear`) as the completion thread's entry. A request is
  handled in one step up to its backend call, so `fid_set`'s `fid_find1`
  and its `list_add` or `fs_delete` are one step.
- **History:** `overlapped` becomes true once both threads are inside a
  drain at the same time. Only then can two `fid_set` calls interleave, so
  `FidTableSound` is stated for the histories where it is false. The
  overlap itself is the race that `nine_open_uaf` shows.
- The ring indices wrap, because the duplicate-increment race lets
  `last_avail_idx` pass `avail_idx` and the drain then runs on over stale
  slots, as the uint16 loop in the code does.

## Runs

| Run | Expect | Checks | Shows |
|---|---|---|---|
| `dc_pass` | pass | `RwSizeMatchesReference`, `ScatterGatherTotality`, `BlockRequestServed`, `NinePRequestAnswered`, `NinePReplyFramed` | On acyclic chains, `get_desc_rw_size` computes the reference sizes and errs exactly on a mixed chain. `memcpy_to_from_queue` copies exactly the requested bytes of its region and fails exactly when they are not there. Every block request a conforming driver may send (any split of header, data and status over the chain) is consumed with `used.len = write_size`, its status in the last writable byte, and on success no stale host or guest byte in what the guest reads. Every 9P request (clunk, walk, read, attach) is read as exactly the id, tag and fields the guest wrote, whatever the split; one the chain truncates is answered by an Rlerror with its tag (0 if the header is cut) and EPROTO; every reply built by `marshall` (attach, lopen, walk, write, clunk) reaches the guest as a well-formed message with the request's id + 1 and tag. |
| `nw_pass` | pass | `TypeOK`, `NoLostWakeup`, `ImplementsNotifyAbstract` | The worker never sleeps while a bit is set with no wakeup on its way, and it implements the abstract notify service, liveness included. |
| `vq_pass` | pass | `TypeOK`, `UsedEntriesValid`, `CompletionPublished` | For block, net tx, console tx and entropy, the used ring shows only posted heads, once each and after their data, across index wrap and malformed chains. Every well-formed chain is eventually published. |
| `vq_lost_irq` | violation | `CompletionSeen` | The ack's read-modify-write erases the worker's `int_status` bit and lowers the line, so a published completion is never seen. |
| `mmio_gate` | pass | `TypeOK`, `FeaturesOkSound`, `ConfigAccessInBounds` | For any sequence of register writes to the block device, resets included, FEATURES_OK is held only with features the driver requested since the last reset, all offered and with VERSION_1; config accesses of every size stay inside the 16 config bytes. |
| `hio_pass` | pass | `InputDelivered` | Typed chars, in chunks that split C-a escapes, reach the guest in order and filtered by the escape rules; through the HTIF queue all of them, through the console pipe all but those typed before the pipe existed; the loop never duplicates or skips a char, even under partial writes the kernel would not make. |
| `hio_hang` | violation | `JoinReturns` | A stop while the pump is blocked on a full console pipe leaves `join_io` waiting for ever. |
| `rx_pass` | pass | `TypeOK`, `RxUsedValid` | On each manual_recv queue, host calls racing the guest's posts, kicks and reclaims publish only posted buffers, once each, within their writable size. |
| `rx_stuck_button` | violation | `ButtonsAgree` | With two buttons, a button loop that fails midway leaves `buttons_state` stale and the guest with a button held. |
| `blk_async_dup` | violation | `UsedEntriesValid` | With an asynchronous block backend, the callback's re-drain and the worker's drain handle the same head, and the used ring names it twice. |
| `nine_pass` | pass | `TypeOK`, `FidTableSound` | Across attach, walk, clunk, lopen, read (two steps) and the other requests, drained by the worker and the open callback with wrapping indices, each fid is bound once, no FSFile is shared, and the backend holds exactly the FSFiles the list binds, as long as the two drains have never run at once. |
| `nine_open_uaf` | violation | `FilesInUseLive` | In the window before `req_in_progress = TRUE`, or during a read's synchronous backend call, the other drain thread rebinds or clunks the fid and frees the FSFile the backend is working on. |

The project keeps to twelve runs, one per question. Questions that share a
model and a bound are checked together in one pass run. Two defects found
by reading the code, a cyclic chain hanging `get_desc_rw_size` and the
entropy device's config bound wrapping, need no search. They are single
inputs a unit test reaches, and are listed as hazards rather than given
runs (see the findings).

### Bounds and why they suffice

- **`dc_pass`:**
  - 3 descriptors give chains of 1 to 3 elements with every flag
    combination, including both split directions and cycles of length 1 to 3.
  - Lengths 0..2 include empty descriptors and boundaries.
  - Offsets 0..2 and counts 0..3 reach past the end of every region.
  - For `BlockRequestServed`, `SectorSize = 2`, `HdrSize = 1` and
    `IdSize = 2` stand for 512, 16 and 20: chains of up to 6 bytes then
    hold a header, one or two sectors and a status byte in every split,
    and `write_size` values below, at and between the sector multiples.
    Each request type, sector 0 and 1, and ret 0 and -1 are tried.
  - For the 9P checks, each state whose table uses only descriptors 0 and
    1 (descriptor 2 unused, offset and count 0, read direction) is also a
    wire input: the same table with every length times 6 (`WireUnit`).
    Lengths 0, 6 and 12 put descriptor boundaries inside the header's tag
    and inside body fields, give readable parts of 6 to 24 bytes (the
    requests are 11 to 24 bytes, so each both fits and is truncated, attach
    exactly at 24) and writable parts that hold the 11-byte error and the
    replies of 7 to 24 bytes or not. Tags 1 and 513 and values such as 258
    tell byte orders apart. Integers stay below 2^24 so the reference can
    compute their bytes directly.
- **`nw_pass`:** 2 devices × 2 queues and 3 notifications. This is enough
  for a notify to land on the device being drained, on the other device,
  and on an already-set bit, and for the drain loop to reach the last device.
- **`vq_pass`:**
  - 2 heads on a 2-slot ring whose indices wrap at 4: both rings wrap after
    4 requests, and the ring can be full.
  - At most one malformed chain (`MaxBadChains`) is posted, so a leaked
    head never takes the whole ring.
  - All four devices are initial states of the one run (2.9M states,
    about 2.5 minutes).
- **`mmio_gate`:** selectors 0..2 (both windows and one ignored), feature
  words with an offered bit, VERSION_1 and an unoffered bit, status values
  with and without FEATURES_OK and 0 (reset), queue sizes 0, 3, 4 and 32
  (zero, not a power of two, valid, too large), config offsets inside, at and
  past the end of the 16 bytes and at the end of the window, every access
  size.
- **`hio_pass`:** 3 reads from five chunks (a plain char, a lone C-a, a
  split escape, C-a C-a, an escape inside a chunk), a 2-char pipe (so the
  pump can block on a full pipe; the model also lets a write be partial), one guest finish racing C-a r, both console modes.
- **`rx_pass`:** 2 buffers on a 2-slot ring wrapping at 4 (so the ring is
  full and indices wrap), packet and buffer sizes 1..2 plus a malformed chain
  (a packet that fits, one that does not, a rejected chain), 4 host calls
  (a mouse call with a wheel event takes 4 buffers).

- **`blk_async_dup`:** 2 heads on a 2-slot ring wrapping at 4, at most two
  I/Os at the backend. One asynchronous request and one more kick are
  enough for the two drains to meet.
- **`nine_pass`:** 2 fids and 3 FSFiles (two bound and one being created,
  so rebinding and reuse of a freed file both happen), every request kind,
  4 requests on a 4-slot ring wrapping at 4, at most two opens outstanding.
  A read against a fid bound by an earlier attach, with a clunk or
  rebinding after it, fits in the 4 requests.
  A request names `newfid` only for walk, the one case that reads it.
  FSFiles and fids are symmetric model values.

### Fairness

- The worker and the dispatcher are host threads, so each gets weak
  fairness: a runnable thread eventually runs.
- `NotifyWake` is fair, because a thread inside `async_queue_notify`
  finishes it.
- The guest's handler steps and its kick are fair once begun.
- In `HostIO` the stdin thread, the main thread and the devices' exit are
  weakly fair. The stdin thread's fairness leaves out `select()` returning
  for typed input (`SelectForInput`). Typing, the guest's finish and the
  console's reading are the environment's and have no fairness. `hio_hang` therefore shows a hang that needs
  no unfair scheduling: every thread that can run does.
- `rx_pass`, `nine_pass` and the violation runs of `BlockAsync` and `NineP`
  state only safety. Their specifications give the threads and the
  backend's completion weak fairness (an I/O handed to the backend
  completes), but no liveness property is checked.
- New requests and the stop request are the environment's choice and have
  no fairness. A spurious wakeup is never forced.

### Deadlock

No pass run checks deadlock. In each, a bounded environment that stops
(no more requests, input, host calls or buffers) leaves the threads blocked
in the program's idle state: the worker on its condition variable, the stdin
thread in `select()`, the backend waiting for data. In `vq_pass` the lost
interrupt of `vq_lost_irq` can also leave the driver waiting with nothing
else enabled. In `nine_pass` the drain ends when the posted requests are
handled and no open is outstanding.

## Findings

1. **Cyclic chains hang the worker** (hazard, `virtio.c:547`).
   `get_desc_rw_size` follows `next` without a bound, so a read-only
   descriptor whose `next` is itself makes `queue_notify` never return;
   `DescChain` computes `Hang` for it. The same holds for
   `memcpy_to_from_queue`. spec §8 says a malformed chain gives an error.
2. **Lost completion interrupt** (`vq_lost_irq`, `virtio.c:884`). The
   sequence is:
   1. An ack and the worker's `|= 1` / `set_irq(1)` interleave so that the
      line is high while `int_status` is 0.
   2. The next handler reads 0 and acks 0.
   3. That ack's load sees 0.
   4. The worker publishes a completion and stores bit 0.
   5. The ack stores 0 over it and lowers the line.
   6. The handler does not scan, because it read 0.

   The completion sits in the used ring until some later interrupt. spec §5
   calls the race benign, but re-reading the status would not help, because
   the bit is gone.
3. **Entropy config access out of bounds** (hazard, `virtio.c:656`; with
   `ConfigSize = 0`, `ConfigAccessInBounds` fails at the first access). `config_space_size - 3` wraps to 0xFFFFFFFD for the
   entropy device, so every 32-bit config access passes the check and
   touches memory past the device's config array. The entropy device also
   offers no VERSION_1, which a VirtIO 1.0 driver requires (a hazard, not a
   run: the outcome depends on the driver).
4. **Console input lost at start** (hazard, `fpga.cpp:451`). The
   stdin thread is created before `pipe(virtio_stdio_pipe)`, and the
   descriptor is never initialised. `HostIO` models the window, and
   `InputDelivered` allows for the chars typed in it.
5. **`join_io` hangs** (`hio_hang`, `fpga.cpp:353`). The pump's blocking
   write on a full console pipe never returns once the console stops reading,
   and the pump only sees the stop pipe in `select()`.
6. **Stuck mouse button** (`rx_stuck_button`, `virtio.c:1745`).
   `buttons_state = buttons` runs only after every KEY event of the loop is
   queued. The counterexample: buttons {left, right} are pressed, the left
   KEY is queued, the right one fails for lack of a buffer; the next call
   reports no buttons, which equals the stale `buttons_state`, so it sends
   only a SYN. The guest keeps the left button pressed.

7. **Duplicate block completion** (`blk_async_dup`, `virtio.c:1203`). The
   worker hands a request to the backend. Before its `last_avail_idx++`,
   the callback completes it, clears `req_in_progress` and re-drains. The
   completion thread reads the same `last_avail_idx` and handles that head
   again, so it is consumed twice and the two increments then skip the
   next head. The same window also lets the callback clear the flag before
   the worker sets it, leaving `req_in_progress` set for good. TLC finds
   this too (a hazard, with no run of its own).
8. **9P open races a free** (`nine_open_uaf`, `virtio.c:2368`). The
   counterexample has three steps:
   1. One thread's `fs_open(f1)` returns > 0.
   2. Before it stores `req_in_progress = TRUE`, the other thread, which
      drained the same lopen through the race of finding 7, moves on to an
      attach of the same fid.
   3. `fid_set` calls `fs_delete(f1)` while the open is outstanding, so
      the completion uses a freed FSFile.

   The synchronous requests have the same window and no flag at all: while
   one thread is in `fs_read(f1)` (`virtio.c:2800`; also write, getattr,
   readdir, ...), the other thread's walk rebinding that fid frees `f1`.
   TLC finds this with the open path removed from the property.
9. **Block requests a guest can break** (hazards, `virtio.c:1159`,
   `1269`). `BlockRequestServed` holds for every request a conforming
   driver sends; outside that set the code misbehaves:
   - a failed `read_async`, an IN whose data size is not a sector
     multiple, and a FLUSH with more than one writable byte copy unfilled
     `malloc` memory to the guest (host heap disclosure);
   - an IN with no writable byte stores its status at `buf[-1]`;
   - OUT with no writable byte, FLUSH with a nonzero sector, and GET_ID
     with fewer than 21 writable bytes fail an `assert` and abort the
     host, where spec §7 says a protocol error gives an error status.
10. **Net tx leaks short chains** (hazard, `virtio.c:1367`). Like the block
    device, `virtio_net_recv_request` returns 0 without a consume for a
    chain shorter than the header, and `queue_notify` moves past it, so
    the head is never returned; `CompletionPublished` is stated for
    well-formed chains only.
11. **9P walk reply overflow** (hazard, `virtio.c:2778`). A walk of 79 or
    more names fails `marshall`'s buffer assert and aborts the host.
    `WalkReply` models the reply; a conforming client sends at most 16
    names.
12. **9P replies larger than the chain** (hazard, `virtio.c:2227`).
    `virtio_9p_send_reply` consumes with the full length even when
    `memcpy_to_queue` failed, so the guest is told of bytes never written.
    `SendReply` keeps this; `NinePReplyFramed` is stated for chains that
    hold the reply.
13. **Error replies and spec.md's wording.** spec.md §4.5 says the error
    reply has "id `6`" and §8 scenario 6 a payload of "`-P9_EPROTO`". The
    code sends `send_reply(..., 6, ...)`, which writes id byte 7 (Rlerror,
    as 9P2000.L defines it), and the payload `-err` = `P9_EPROTO`, a
    positive errno. `NinePRequestAnswered` checks the code's (and the
    protocol's) form.

## Not modelled yet, and why

- **Reset on `STATUS = 0` during a drain.** `VirtioMMIO` models the reset,
  `Virtqueue` the drain; they are not composed. A reset actor would be a
  third writer of `last_avail_idx` and `int_status` in a run that already
  takes over two minutes, and the effect of a reset under a running drain
  needs a violation run of its own.
- **Config-change interrupts (`virtio_config_change_notify`).** Its callers
  are the console's `resize_event`, which nothing in the repository calls,
  and `set_carrier`, which the ethernet backend outside `src/` calls. Its
  `int_status |= 2` is the same read-modify-write race that `vq_lost_irq`
  shows for bit 1.
- **9P message contents beyond the wire layer.** `msize` (set by version,
  used only in reply payloads) and the payloads of the cases whose replies
  `NinePWire`'s checks do not build (statfs, getattr, readdir, ...): they
  are the backend's data put through the same `marshall`. `NineP` handles
  a request in one step, so a list update torn between the two drain
  threads is below its grain.
- **Block request sizes in the queue model.** `Virtqueue` keeps a chain's
  kind only; the sizes, the status byte's index and the bytes returned are
  `BlockReq`'s, checked per request in `dc_pass`.
- **Console resize, the tablet and the input device's `config_write`
  table.** They write config bytes only.
- **The dispatcher's lane shift and byte enables.** This is listed as a
  hazard. The FPGA core decides what a narrow store puts in the other byte
  lanes, not this code, and `VirtioMMIO` abstracts the config byte values.
- **Out of scope:** the PCI transport, which this host does not use;
  message marshalling and formatting; the ELF/ROM setup; the backends
  outside `src/`.
