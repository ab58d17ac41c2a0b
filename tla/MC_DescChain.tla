---------------------------- MODULE MC_DescChain ----------------------------
(***************************************************************************)
(* Checks the descriptor-chain walks of DescChain against their reference  *)
(* definitions over every descriptor table of NumDesc entries, every head, *)
(* offset, count and direction, and BlockReq's block requests on every    *)
(* such chain.  The state is the input; Next leaves it    *)
(* unchanged, so each state is one input checked by the invariants.        *)
(* NinePWire's wire layer needs longer descriptors: a state whose table    *)
(* uses only its first WireNumDesc entries is also a wire input, the same  *)
(* table with every length times WireUnit.                                *)
(***************************************************************************)
EXTENDS BlockReq, NinePWire

CONSTANTS MaxOffset, MaxCount, WireNumDesc, WireUnit

ASSUME WireNumDesc < NumDesc

VARIABLES t, head, off, cnt, toQueue
vars == <<t, head, off, cnt, toQueue>>

Init ==
  /\ t \in [Desc -> DescRec]
  /\ head \in Desc
  /\ off \in 0 .. MaxOffset
  /\ cnt \in 0 .. MaxCount
  /\ toQueue \in BOOLEAN

Next == UNCHANGED vars

Spec == Init /\ [][Next]_vars

TypeOK ==
  /\ t \in [Desc -> DescRec]
  /\ head \in Desc
  /\ off \in 0 .. MaxOffset /\ cnt \in 0 .. MaxCount /\ toQueue \in BOOLEAN

(* get_desc_rw_size on a chain without a cycle returns the sums of the     *)
(* readable and of the writable lengths when every readable descriptor     *)
(* precedes every writable one, and -1 otherwise (spec.md section 8,       *)
(* "Chain split").                                                         *)
RwSizeMatchesReference ==
  ~Cyclic(t, head) =>
    LET code == RwSize(t, head)
        ref  == RefRwSize(t, head)
    IN  /\ code.res = ref.res
        /\ ref.res = Ok => code.r = ref.r /\ code.w = ref.w

(* memcpy_to_from_queue on a well-formed chain without a cycle succeeds    *)
(* exactly when [off, off + cnt) lies inside the chain's writable          *)
(* (toQueue) or readable region, and then copies exactly those bytes of    *)
(* the region, in order (spec.md section 8, "Scatter/gather totality").    *)
ScatterGatherTotality ==
  (~Cyclic(t, head) /\ SplitOK(t, head)) =>
    LET m     == MemcpyToFromQueue(t, head, off, cnt, toQueue)
        bytes == RegionBytes(t, head, toQueue)
    IN  /\ (m.res = Ok) <=> (cnt = 0 \/ off + cnt <= Len(bytes))
        /\ m.res = Ok => SegBytes(m.segs) = SubSeq(bytes, off + 1, off + cnt)

(* What the virtio-blk specification asks of a driver's request: a        *)
(* readable header, a writable status byte last, IN data a whole number   *)
(* of sectors, OUT data likewise with only the status writable, FLUSH on  *)
(* sector 0 with no data, GET_ID with a 20-byte ID buffer.                *)
Conforming(r, w, type, sector) ==
  /\ r >= HdrSize /\ w >= 1
  /\ type = "IN" => (w - 1) % SectorSize = 0
  /\ type = "OUT" => w = 1 /\ (r - HdrSize) % SectorSize = 0
  /\ type \in {"FLUSH", "FLUSH_OUT"} => sector = 0 /\ w = 1
  /\ type = "GET_ID" => w = IdSize + 1
  /\ type = "OTHER" => w = 1

(* Every request a conforming driver sends on a chain, whatever the chain's *)
(* split into descriptors, is served by virtio_block_recv_request and       *)
(* virtio_block_req_end without an assert or a store outside the host       *)
(* buffer; the chain is consumed with used length write_size; the last used *)
(* byte is the status (UNSUPP for an unknown type, IOERR for a failed read  *)
(* or write, OK otherwise); after a successful backend call every used byte *)
(* was produced by the device, none left over from malloc or from the       *)
(* guest; and the backend is asked for exactly the sectors of the data.     *)
(* Evaluated once per table and head, for every type, sector and result.    *)
BlockRequestServed ==
  (off = 0 /\ cnt = 0 /\ ~toQueue /\ ~Cyclic(t, head) /\ SplitOK(t, head)) =>
    LET rw     == RwSize(t, head)
        region == RegionBytes(t, head, TRUE)
    IN  \A type \in ReqTypes, sector \in {0, 1}, ret \in {0, -1} :
          Conforming(rw.r, rw.w, type, sector) =>
            LET o == BlockRecvRequest(t, head, rw.r, rw.w, type, sector, ret)
                status == IF type = "OTHER" THEN "unsupp"
                          ELSE IF type \in {"IN", "OUT"} /\ ret < 0 THEN "ioerr"
                          ELSE "ok"
            IN  /\ ~o.abort /\ ~o.oob /\ o.consumed
                /\ o.usedLen = rw.w
                /\ o.mem[region[o.usedLen]] = status
                /\ ret = 0 => \A i \in 1 .. o.usedLen :
                                o.mem[region[i]] \notin {"junk", "guest"}
                /\ type = "IN" /\ ret = 0 => o.nsect * SectorSize = rw.w - 1
                /\ type = "OUT" => o.nsect * SectorSize = rw.r - HdrSize

-----------------------------------------------------------------------------
(* The 9P2000.L wire format (spec.md section 4.5, "9P filesystem"), as the  *)
(* reference for NinePWire: the fields in turn, integers little-endian in  *)
(* 1, 2, 4 or 8 bytes, a string as its 16-bit length and its bytes, a qid  *)
(* as type[1] version[4] path[8].  Integers here are below 2^24.           *)
LEInt(v, n) == [i \in 1 .. n |-> IF i <= 4 THEN (v \div 256^(i - 1)) % 256 ELSE 0]

WireField(c, v) ==
  CASE c = "b" -> LEInt(v, 1)
    [] c = "h" -> LEInt(v, 2)
    [] c = "w" -> LEInt(v, 4)
    [] c = "d" -> LEInt(v, 8)
    [] c = "s" -> LEInt(Len(v), 2) \o v
    [] c = "Q" -> LEInt(v.type, 1) \o LEInt(v.version, 4) \o LEInt(v.path, 8)

WireBytes(fmt, vals) == FlattenSeq([i \in 1 .. Len(fmt) |-> WireField(fmt[i], vals[i])])

(* A whole message: size[4] id[1] tag[2] and the body. *)
Frame(id, tag, fmt, vals) ==
  LET body == WireBytes(fmt, vals)
  IN  WireBytes(<<"w", "b", "h">>, <<Len(body) + 7, id, tag>>) \o body

WireDesc == 0 .. WireNumDesc - 1
Unused   == [len |-> 0, write |-> FALSE, next |-> FALSE, nxt |-> 0]

(* The state is a wire input: offset, count and direction at their first  *)
(* values, a head and links inside WireDesc, the other entries unused.    *)
WireInput ==
  /\ off = 0 /\ cnt = 0 /\ ~toQueue /\ head \in WireDesc
  /\ \A d \in WireDesc : t[d].nxt \in WireDesc
  /\ \A d \in Desc \ WireDesc : t[d] = Unused

WireTable == [d \in WireDesc |-> [t[d] EXCEPT !.len = @ * WireUnit]]

WireChainOK == ~Cyclic(WireTable, head) /\ SplitOK(WireTable, head)
Tags == {1, 513}
Qid  == [type |-> 128, version |-> 1, path |-> 258]

(* Requests of the cases the device serves, with the body formats their   *)
(* unmarshall calls read (walk's names follow its "wwh").                 *)
Requests ==
  { [id |-> 120, fmt |-> <<"w">>, vals |-> <<3>>],                      \* clunk
    [id |-> 110, fmt |-> <<"w", "w", "h", "s">>, vals |-> <<1, 2, 1, <<46, 46>>>>], \* walk
    [id |-> 116, fmt |-> <<"w", "d", "w">>, vals |-> <<1, 258, 4096>>],  \* read
    [id |-> 104, fmt |-> <<"w", "w", "s", "s", "w">>,
     vals |-> <<1, 0, <<114>>, <<>>, 0>>] }                             \* attach

(* The guest's readable bytes: the message laid out in the readable part  *)
(* of the chain in order, zeros after it.                                 *)
GuestMem(rin, msg) ==
  [a \in ToSet(rin) |-> LET k == CHOOSE k \in 1 .. Len(rin) : rin[k] = a
                        IN  IF k <= Len(msg) THEN msg[k] ELSE 0]

(* Every request, however the chain splits it over descriptors, is read   *)
(* by virtio_9p_recv_request's header read and its case's unmarshall as    *)
(* exactly the id, tag and fields the guest wrote, ending at the message's *)
(* end; a request truncated by the chain (spec.md section 8, scenario 6)   *)
(* is answered instead by an Rlerror carrying the request's tag (0 if even *)
(* the header is cut) and P9_EPROTO, consumed with the error's length and  *)
(* written in full when the writable part holds it.                        *)
NinePRequestAnswered ==
  WireInput /\ WireChainOK => \A r \in Requests, tag \in Tags :
    LET rin  == RegionBytes(WireTable, head, FALSE)
        rout == RegionBytes(WireTable, head, TRUE)
        msg  == Frame(r.id, tag, r.fmt, r.vals)
        p    == ParseRequest(WireTable, head, GuestMem(rin, msg), r.fmt)
        err  == Frame(7, IF Len(rin) >= 7 THEN tag ELSE 0, <<"w">>, <<P9_EPROTO>>)
    IN  IF Len(msg) <= Len(rin)
          THEN p.ok /\ p.id = r.id /\ p.tag = tag /\ p.vals = r.vals
               /\ p.off = Len(msg)
        ELSE /\ ~p.ok /\ p.reply.usedLen = Len(err)
             /\ Len(err) <= Len(rout) =>
                  \A k \in 1 .. Len(err) : p.reply.mem[rout[k]] = err[k]

(* Replies the cases build with marshall into buf[1024]: attach's qid,     *)
(* the open callback's qid and iounit, walk's count and qids, write's      *)
(* count, clunk's empty body.                                              *)
Replies ==
  { [id |-> 104, fmt |-> <<"Q">>, vals |-> <<Qid>>,
     out |-> Marshall(ReplyBufSize, <<"Q">>, <<Qid>>)],
    [id |-> 12, fmt |-> <<"Q", "w">>, vals |-> <<Qid, 8168>>,
     out |-> Marshall(ReplyBufSize, <<"Q", "w">>, <<Qid, 8168>>)],
    [id |-> 110, fmt |-> <<"h", "Q">>, vals |-> <<1, Qid>>,
     out |-> WalkReply(<<Qid>>)],
    [id |-> 118, fmt |-> <<"w">>, vals |-> <<4096>>,
     out |-> Marshall(ReplyBufSize, <<"w">>, <<4096>>)],
    [id |-> 120, fmt |-> <<>>, vals |-> <<>>,
     out |-> Marshall(ReplyBufSize, <<>>, <<>>)] }

(* Every reply the device builds reaches the guest as a 9P message: the   *)
(* used length is the message's size, and when the chain's writable part  *)
(* holds it, the guest reads size, the request's id + 1, the tag and the  *)
(* fields in the wire format, whatever the split of the writable part.    *)
NinePReplyFramed ==
  WireInput /\ WireChainOK => \A r \in Replies, tag \in Tags :
    LET rout  == RegionBytes(WireTable, head, TRUE)
        frame == Frame(r.id + 1, tag, r.fmt, r.vals)
        o     == SendReply(WireTable, head, r.id, tag, r.out.bytes)
    IN  /\ ~r.out.abort /\ o.usedLen = Len(frame)
        /\ Len(frame) <= Len(rout) =>
             \A k \in 1 .. Len(frame) : o.mem[rout[k]] = frame[k]
====
