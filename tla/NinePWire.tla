----------------------------- MODULE NinePWire -----------------------------
(***************************************************************************)
(* The 9P device's wire layer (src/src/virtio.c): marshall, unmarshall,    *)
(* the request header read at the top of virtio_9p_recv_request,           *)
(* virtio_9p_send_reply and virtio_9p_send_error, as pure operators over   *)
(* a descriptor table.  The reads and writes of the chain are DescChain's  *)
(* memcpy_to_from_queue; guest memory is a function from the chain's byte  *)
(* addresses <<descriptor, offset>> to byte values 0 .. 255.               *)
(*                                                                         *)
(* A format is a sequence of the format characters "b", "h", "w", "d",    *)
(* "s", "Q"; the values are integers, a byte sequence for "s" and a        *)
(* record [type, version, path] for "Q" (an FSQID).                        *)
(***************************************************************************)
EXTENDS DescChain

CONSTANT P9_EPROTO   \* the errno a protocol error replies with (fs.h)

ReplyBufSize == 1024  \* uint8_t buf[1024] of virtio_9p_recv_request

(* put_le16 / put_le32 / put_le64: the n bytes of v, least significant     *)
(* first.  % and \div floor, so a negative int gives its two's complement  *)
(* bytes, as the C conversion to an unsigned field does.                   *)
RECURSIVE PutLE(_, _)
PutLE(v, n) == IF n = 0 THEN <<>> ELSE <<v % 256>> \o PutLE(v \div 256, n - 1)

(* get_le16 / get_le32 / get_le64 *)
RECURSIVE GetLE(_)
GetLE(bs) == IF bs = <<>> THEN 0 ELSE Head(bs) + 256 * GetLE(Tail(bs))

(* The fixed-size integer fields and their widths in bytes. *)
Width == [b |-> 1, h |-> 2, w |-> 4, d |-> 8]

(* What one case of marshall's switch writes at buf: an integer in its     *)
(* width, a string as put_le16(len) and its bytes, a qid as its type byte, *)
(* put_le32(version) and put_le64(path).                                    *)
FieldBytes(c, v) ==
  CASE c \in DOMAIN Width -> PutLE(v, Width[c])
    [] c = "s"            -> PutLE(Len(v), 2) \o v
    [] c = "Q"            -> <<v.type % 256>> \o PutLE(v.version, 4)
                               \o PutLE(v.path, 8)

(* marshall(s, buf1, max_len, fmt, ...): each field asserts that it ends   *)
(* at or before buf_end (a string also that len <= 65535), then is         *)
(* written; the result is the bytes written (buf - buf1), or an abort.     *)
RECURSIVE MarshallFrom(_, _, _, _)
MarshallFrom(fmt, vals, room, buf) ==
  IF fmt = <<>> THEN [abort |-> FALSE, bytes |-> buf]
  ELSE LET f == FieldBytes(Head(fmt), Head(vals))
       IN  IF Len(f) > room \/ (Head(fmt) = "s" /\ Len(Head(vals)) > 65535)
             THEN [abort |-> TRUE, bytes |-> buf]
           ELSE MarshallFrom(Tail(fmt), Tail(vals), room - Len(f), buf \o f)

Marshall(maxLen, fmt, vals) == MarshallFrom(fmt, vals, maxLen, <<>>)

(* memcpy_from_queue(s1, buf, queue_idx, desc_idx, off, n): whether it      *)
(* returned 0, and the guest bytes it copied.                              *)
ReadQueue(t, head, mem, off, n) ==
  LET m  == MemcpyToFromQueue(t, head, off, n, FALSE)
      at == SegBytes(m.segs)
  IN  [ok |-> m.res = Ok, bytes |-> [k \in 1 .. Len(at) |-> mem[at[k]]]]

(* unmarshall(s, queue_idx, desc_idx, &offset, fmt, ...): each field is a  *)
(* memcpy_from_queue at offset; a string reads its 2-byte length, then     *)
(* that many bytes.  Any failed copy returns -1 and leaves *poffset alone; *)
(* success stores the advanced offset.                                     *)
RECURSIVE UnmarshallFrom(_, _, _, _, _, _)
UnmarshallFrom(t, head, mem, off, fmt, vals) ==
  IF fmt = <<>> THEN [res |-> 0, off |-> off, vals |-> vals]
  ELSE IF Head(fmt) = "s" THEN
    LET l   == ReadQueue(t, head, mem, off, 2)
        len == GetLE(l.bytes)
        str == ReadQueue(t, head, mem, off + 2, len)
    IN  IF ~l.ok \/ ~str.ok THEN [res |-> -1]
        ELSE UnmarshallFrom(t, head, mem, off + 2 + len, Tail(fmt),
                            Append(vals, str.bytes))
  ELSE
    LET n == Width[Head(fmt)]
        r == ReadQueue(t, head, mem, off, n)
    IN  IF ~r.ok THEN [res |-> -1]
        ELSE UnmarshallFrom(t, head, mem, off + n, Tail(fmt),
                            Append(vals, GetLE(r.bytes)))

Unmarshall(t, head, mem, off, fmt) == UnmarshallFrom(t, head, mem, off, fmt, <<>>)

(* virtio_9p_recv_request before its switch: the 7-byte header (size, id,  *)
(* tag) is read at offset 0; id is its byte 4, tag get_le16 of bytes 5-6,  *)
(* and the body starts at offset 7.  A chain too short for the header     *)
(* takes protocol_error with tag 0.                                        *)
RecvHeaderTagShifted(t, head, mem) ==
  LET h == ReadQueue(t, head, mem, 0, 7)
  IN  IF ~h.ok THEN [ok |-> FALSE, tag |-> 0]
      ELSE [ok |-> TRUE, id |-> h.bytes[5], tag |-> GetLE(SubSeq(h.bytes, 5, 6)),
            off |-> 7]

RecvHeader(t, head, mem) ==
  LET h == ReadQueue(t, head, mem, 0, 7)
  IN  IF ~h.ok THEN [ok |-> FALSE, tag |-> 0]
      ELSE [ok |-> TRUE, id |-> h.bytes[5], tag |-> GetLE(SubSeq(h.bytes, 6, 7)),
            off |-> 7]

(* virtio_9p_send_reply: len = buf_len + 7; buf1 is put_le32(len), id + 1  *)
(* (a uint8), put_le16(tag) and the payload; memcpy_to_queue of len bytes  *)
(* at offset 0, its result ignored; virtio_consume_desc(len).  The result  *)
(* is the writable bytes the copy reached, with their values, and the used *)
(* length.                                                                 *)
SendReplyIdUnchanged(t, head, id, tag, payload) ==
  LET len  == Len(payload) + 7
      buf1 == PutLE(len, 4) \o <<id % 256>> \o PutLE(tag, 2) \o payload
      at   == SegBytes(MemcpyToFromQueue(t, head, 0, len, TRUE).segs)
  IN  [mem     |-> [a \in ToSet(at) |->
                      buf1[CHOOSE k \in 1 .. Len(at) : at[k] = a]],
       usedLen |-> len]

SendReply(t, head, id, tag, payload) ==
  LET len  == Len(payload) + 7
      buf1 == PutLE(len, 4) \o <<(id + 1) % 256>> \o PutLE(tag, 2) \o payload
      at   == SegBytes(MemcpyToFromQueue(t, head, 0, len, TRUE).segs)
  IN  [mem     |-> [a \in ToSet(at) |->
                      buf1[CHOOSE k \in 1 .. Len(at) : at[k] = a]],
       usedLen |-> len]

(* virtio_9p_send_error: marshall "w" of -error into a 4-byte buffer and   *)
(* send_reply with id 6 (Tlerror, so the reply's id byte is Rlerror, 7).   *)
SendError(t, head, tag, err) ==
  SendReply(t, head, 6, tag, Marshall(4, <<"w">>, <<-err>>).bytes)

(* The start of each case of virtio_9p_recv_request: the header, then    *)
(* unmarshall of the case's body format at offset 7.  A failed read of     *)
(* either goes to protocol_error, err = -P9_EPROTO, send_error with the   *)
(* tag read so far.                                                        *)
ParseRequest(t, head, mem, fmt) ==
  LET h == RecvHeader(t, head, mem)
      b == Unmarshall(t, head, mem, 7, fmt)
  IN  IF ~h.ok THEN [ok |-> FALSE, reply |-> SendError(t, head, 0, -P9_EPROTO)]
      ELSE IF b.res # 0
        THEN [ok |-> FALSE, reply |-> SendError(t, head, h.tag, -P9_EPROTO)]
      ELSE [ok |-> TRUE, id |-> h.id, tag |-> h.tag, vals |-> b.vals, off |-> b.off]

(* The walk case's reply: marshall "h" of the qid count into buf, then one *)
(* marshall "Q" per qid at buf + buf_len with sizeof(buf) - buf_len left.  *)
RECURSIVE WalkQids(_, _)
WalkQids(qids, buf) ==
  IF qids = <<>> THEN [abort |-> FALSE, bytes |-> buf]
  ELSE LET q == Marshall(ReplyBufSize - Len(buf), <<"Q">>, <<Head(qids)>>)
       IN  IF q.abort THEN q ELSE WalkQids(Tail(qids), buf \o q.bytes)

WalkReply(qids) ==
  WalkQids(qids, Marshall(ReplyBufSize, <<"h">>, <<Len(qids)>>).bytes)

====
