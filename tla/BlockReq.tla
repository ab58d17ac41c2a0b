------------------------------ MODULE BlockReq ------------------------------
(***************************************************************************)
(* One request of the VirtIO block device (src/src/virtio.c):              *)
(* virtio_block_recv_request and virtio_block_req_end, as a pure function  *)
(* of the descriptor table, the request header and the backend's result.   *)
(* The copies in and out of the chain are DescChain's memcpy_to_from_queue;*)
(* what a request does to the queue's indices is Virtqueue's business.     *)
(*                                                                         *)
(* Bytes are abstracted to where they came from: the guest ("guest"), the  *)
(* disk ("data"), fresh malloc memory ("junk"), calloc or strncpy padding  *)
(* ("zero"), the device ID ("id") and the status byte ("ok", "ioerr",      *)
(* "unsupp").  A backend call that returns > 0 completes later through     *)
(* virtio_block_req_cb, which calls virtio_block_req_end with the          *)
(* callback's ret: the request's effect on the chain is the same as a      *)
(* synchronous return of that ret, so ret ranges over {0, -1}.            *)
(***************************************************************************)
EXTENDS DescChain

CONSTANTS
  SectorSize,   \* SECTOR_SIZE (512)
  HdrSize,      \* sizeof(BlockRequestHeader) (16)
  IdSize        \* the 20 bytes strncpy copies for GET_ID

ReqTypes == {"IN", "OUT", "FLUSH", "FLUSH_OUT", "GET_ID", "OTHER"}

(* C's `/` on int truncates towards zero; \div floors. *)
CDiv(a, b) == IF a < 0 THEN -((-a) \div b) ELSE a \div b

Malloc(n) == [i \in 1 .. n |-> "junk"]
Calloc(n) == [i \in 1 .. n |-> "zero"]

StatusByte(ret) == IF ret < 0 THEN "ioerr" ELSE "ok"

(* memcpy_to_queue(s, queue_idx, desc_idx, off, src, Len(src)), the one   *)
(* copy into the chain a request makes: the k-th byte of the copies it     *)
(* issues gets src[k], the writable bytes it misses keep what the guest    *)
(* left there.  Its result is ignored by every caller here.                *)
MemcpyToQueue(t, head, off, src) ==
  LET addrs == SegBytes(MemcpyToFromQueue(t, head, off, Len(src), TRUE).segs)
  IN  [a \in {<<d, o>> \in Desc \X (0 .. Max(Lens)) : t[d].write /\ o < t[d].len}
         |-> IF \E k \in 1 .. Len(addrs) : addrs[k] = a
               THEN src[CHOOSE k \in 1 .. Len(addrs) : addrs[k] = a]
               ELSE "guest"]

(* What the request did: aborted on an assert, wrote outside its host      *)
(* buffer (oob), consumed the chain with used length usedLen, the chain's  *)
(* writable bytes afterwards, and the sectors asked of the backend.        *)
Outcome(abort, oob, consumed, usedLen, mem, nsect) ==
  [abort |-> abort, oob |-> oob, consumed |-> consumed, usedLen |-> usedLen,
   mem |-> mem, nsect |-> nsect]

(* virtio_block_req_end for a request whose status goes in the last byte   *)
(* of the host buffer (IN, FLUSH, GET_ID): buf[write_size - 1] = status,   *)
(* memcpy_to_queue of the whole buffer, consume_desc(write_size).  With    *)
(* write_size 0 the store lands at buf[-1], outside the allocation.        *)
ReqEndBufStatusFirst(t, head, buf, w, ret, nsect) ==
  LET b == IF w >= 1 THEN [buf EXCEPT ![1] = StatusByte(ret)] ELSE buf
  IN  Outcome(FALSE, w < 1, TRUE, w, MemcpyToQueue(t, head, 0, b), nsect)

ReqEndBuf(t, head, buf, w, ret, nsect) ==
  LET b == IF w >= 1 THEN [buf EXCEPT ![w] = StatusByte(ret)] ELSE buf
  IN  Outcome(FALSE, w < 1, TRUE, w, MemcpyToQueue(t, head, 0, b),
              nsect)

(* The one-byte status of an OUT request (virtio_block_req_end) or of an   *)
(* unsupported type (virtio_block_recv_request), consume_desc(1).          *)
ReqEndByte(t, head, status, nsect) ==
  Outcome(FALSE, FALSE, TRUE, 1,
          MemcpyToQueue(t, head, 0, <<status>>), nsect)

Aborted == Outcome(TRUE, FALSE, FALSE, 0, <<>>, 0)

(* IN: malloc(write_size), read_async of (write_size - 1) / SECTOR_SIZE    *)
(* sectors into it; a failed read leaves the buffer as it was.             *)
BlockIn(t, head, w, ret) ==
  LET n   == CDiv(w - 1, SectorSize)
      buf == [i \in 1 .. w |->
                IF ret >= 0 /\ i <= n * SectorSize THEN "data" ELSE Malloc(w)[i]]
  IN  ReqEndBuf(t, head, buf, w, ret, n)

(* OUT: assert(write_size >= 1), read_size - sizeof(h) bytes gathered and *)
(* written as len / SECTOR_SIZE sectors.                                   *)
BlockOut(t, head, r, w, ret) ==
  IF w < 1 THEN Aborted
  ELSE ReqEndByte(t, head, StatusByte(ret), CDiv(r - HdrSize, SectorSize))

(* FLUSH, FLUSH_OUT: assert(sector_num == 0), assert(write_size >= 1),     *)
(* malloc(write_size), ret = 0.                                            *)
BlockFlush(t, head, w, sector) ==
  IF sector # 0 \/ w < 1 THEN Aborted
  ELSE ReqEndBuf(t, head, Malloc(w), w, 0, 0)

(* GET_ID: assert(write_size >= 21), calloc(write_size, 1), strncpy of the *)
(* 20-byte ID field, ret = 0.                                              *)
BlockGetId(t, head, w) ==
  IF w < IdSize + 1 THEN Aborted
  ELSE ReqEndBuf(t, head,
                 [i \in 1 .. w |-> IF i <= IdSize THEN "id" ELSE Calloc(w)[i]], w, 0, 0)

(* virtio_block_recv_request after the req_in_progress test: the header    *)
(* copy fails and the request returns 0 without consuming, or the switch   *)
(* on h.type runs.                                                         *)
BlockRecvRequest(t, head, r, w, type, sector, ret) ==
  IF MemcpyToFromQueue(t, head, 0, HdrSize, FALSE).res # Ok
    THEN Outcome(FALSE, FALSE, FALSE, 0, MemcpyToQueue(t, head, 0, <<>>), 0)
  ELSE CASE type = "IN"                   -> BlockIn(t, head, w, ret)
         [] type = "OUT"                  -> BlockOut(t, head, r, w, ret)
         [] type \in {"FLUSH", "FLUSH_OUT"} -> BlockFlush(t, head, w, sector)
         [] type = "GET_ID"               -> BlockGetId(t, head, w)
         [] OTHER                         -> ReqEndByte(t, head, "unsupp", 0)
====
