----------------------------- MODULE DescChain -----------------------------
(***************************************************************************)
(* The descriptor-chain walks of the virtqueue engine (src/src/virtio.c):  *)
(* get_desc_rw_size, which sums the readable and the writable part of a    *)
(* chain, and memcpy_to_from_queue, which gathers from / scatters into a   *)
(* chain at a linear offset.  Both are pure functions of the descriptor    *)
(* table in guest memory, so they are operators here.                      *)
(*                                                                         *)
(* A descriptor table is a function from descriptor index to a record      *)
(* [len, write, next, nxt]: write and next are the VRING_DESC_F_WRITE and  *)
(* VRING_DESC_F_NEXT flag bits, nxt the `next` field.  The C loops follow  *)
(* `next` without a bound; the operators carry a fuel argument, and running *)
(* out of fuel stands for the loop that never ends ("hang").               *)
(***************************************************************************)
EXTENDS Naturals, Sequences, SequencesExt

CONSTANTS
  NumDesc,   \* size of the descriptor table
  Lens       \* the descriptor lengths (bytes) a table may hold

Desc == 0 .. NumDesc - 1

(* nxt is only read when next is set; a descriptor without NEXT has nxt 0. *)
DescRec == {x \in [len: Lens, write: BOOLEAN, next: BOOLEAN, nxt: Desc] :
              ~x.next => x.nxt = 0}

(* How a walk ends: returned 0, returned -1, or loops for ever. *)
Ok   == "ok"
Err  == "err"
Hang == "hang"

(* A walk that visits more than 2 * NumDesc + 1 descriptors has repeated a  *)
(* (descriptor, phase) pair, so the C loop is in a cycle it never leaves.  *)
Fuel == 2 * NumDesc + 2

MinOf(a, b) == IF a < b THEN a ELSE b

-----------------------------------------------------------------------------
(***************************************************************************)
(* get_desc_rw_size: the first loop adds readable lengths until the first  *)
(* writable descriptor, the second adds writable lengths and fails on a    *)
(* readable one.  inW says which loop the walk is in.                      *)
(***************************************************************************)
RECURSIVE RwWalkNoSplitCheck(_, _, _, _, _, _)
RwWalkNoSplitCheck(t, d, r, w, inW, fuel) ==
  IF fuel = 0 THEN [res |-> Hang, r |-> r, w |-> w]
  ELSE IF ~t[d].write /\ ~inW
       THEN IF ~t[d].next THEN [res |-> Ok, r |-> r + t[d].len, w |-> w]
            ELSE RwWalkNoSplitCheck(t, t[d].nxt, r + t[d].len, w, FALSE, fuel - 1)
       ELSE IF ~t[d].next THEN [res |-> Ok, r |-> r, w |-> w + t[d].len]
            ELSE RwWalkNoSplitCheck(t, t[d].nxt, r, w + t[d].len, TRUE, fuel - 1)

RECURSIVE RwWalk(_, _, _, _, _, _)
RwWalk(t, d, r, w, inW, fuel) ==
  IF fuel = 0 THEN [res |-> Hang, r |-> r, w |-> w]
  ELSE IF ~t[d].write /\ ~inW
       THEN IF ~t[d].next THEN [res |-> Ok, r |-> r + t[d].len, w |-> w]
            ELSE RwWalk(t, t[d].nxt, r + t[d].len, w, FALSE, fuel - 1)
       ELSE IF ~t[d].write THEN [res |-> Err, r |-> r, w |-> w]
       ELSE IF ~t[d].next THEN [res |-> Ok, r |-> r, w |-> w + t[d].len]
            ELSE RwWalk(t, t[d].nxt, r, w + t[d].len, TRUE, fuel - 1)

(* res, and read_size / write_size in r / w (meaningful when res = Ok). *)
RwSize(t, head) == RwWalk(t, head, 0, 0, FALSE, Fuel)

-----------------------------------------------------------------------------
(***************************************************************************)
(* memcpy_to_from_queue.  Its result is the list of DMA copies it issues,  *)
(* <<descriptor, offset in it, length>>, and whether it returned 0 ("ok"), *)
(* -1 ("err") or never returned ("hang").  A copy that fails half way has *)
(* already issued the copies before the failure: they are kept.            *)
(***************************************************************************)
RECURSIVE SkipToWrite(_, _, _)
SkipToWrite(t, d, fuel) ==
  IF fuel = 0 THEN [res |-> Hang, d |-> d, off |-> 0]
  ELSE IF t[d].write THEN [res |-> Ok, d |-> d, off |-> 0]
  ELSE IF ~t[d].next THEN [res |-> Err, d |-> d, off |-> 0]
  ELSE SkipToWrite(t, t[d].nxt, fuel - 1)

RECURSIVE FindOffset(_, _, _, _, _)
FindOffset(t, d, off, fw, fuel) ==
  IF fuel = 0 THEN [res |-> Hang, d |-> d, off |-> off]
  ELSE IF t[d].write # fw THEN [res |-> Err, d |-> d, off |-> off]
  ELSE IF off < t[d].len THEN [res |-> Ok, d |-> d, off |-> off]
  ELSE IF ~t[d].next THEN [res |-> Err, d |-> d, off |-> off]
  ELSE FindOffset(t, t[d].nxt, off - t[d].len, fw, fuel - 1)

RECURSIVE CopyFromNoDirCheck(_, _, _, _, _, _, _)
CopyFromNoDirCheck(t, d, off, cnt, fw, fuel, segs) ==
  LET l    == MinOf(cnt, t[d].len - off)
      done == Append(segs, <<d, off, l>>)
  IN  IF cnt - l = 0 THEN [res |-> Ok, segs |-> done]
      ELSE IF ~t[d].next THEN [res |-> Err, segs |-> done]
      ELSE IF fuel = 0 THEN [res |-> Hang, segs |-> done]
      ELSE CopyFromNoDirCheck(t, t[d].nxt, 0, cnt - l, fw, fuel - 1, done)

RECURSIVE CopyFrom(_, _, _, _, _, _, _)
CopyFrom(t, d, off, cnt, fw, fuel, segs) ==
  LET l    == MinOf(cnt, t[d].len - off)
      done == Append(segs, <<d, off, l>>)
  IN  IF cnt - l = 0 THEN [res |-> Ok, segs |-> done]
      ELSE IF ~t[d].next THEN [res |-> Err, segs |-> done]
      ELSE IF fuel = 0 THEN [res |-> Hang, segs |-> done]
      ELSE IF t[t[d].nxt].write # fw THEN [res |-> Err, segs |-> done]
      ELSE CopyFrom(t, t[d].nxt, 0, cnt - l, fw, fuel - 1, done)

MemcpyToFromQueue(t, head, off, cnt, toQueue) ==
  LET start == IF toQueue THEN SkipToWrite(t, head, Fuel)
               ELSE [res |-> Ok, d |-> head, off |-> 0]
      at    == FindOffset(t, start.d, off, toQueue, Fuel)
  IN  IF cnt = 0 THEN [res |-> Ok, segs |-> <<>>]
      ELSE IF start.res # Ok THEN [res |-> start.res, segs |-> <<>>]
      ELSE IF at.res # Ok THEN [res |-> at.res, segs |-> <<>>]
      ELSE CopyFrom(t, at.d, at.off, cnt, toQueue, Fuel, <<>>)

-----------------------------------------------------------------------------
(***************************************************************************)
(* Reference definitions, from what spec.md section 8 says the walks do.   *)
(***************************************************************************)

(* The descriptors of the chain starting at head, in order, stopping at the *)
(* first one without NEXT or at the first repeated one.                     *)
RECURSIVE ChainFrom(_, _, _)
ChainFrom(t, d, seen) ==
  IF d \in ToSet(seen) THEN seen
  ELSE IF ~t[d].next THEN Append(seen, d)
  ELSE ChainFrom(t, t[d].nxt, Append(seen, d))

Chain(t, head) == ChainFrom(t, head, <<>>)

Cyclic(t, head) ==
  LET c == Chain(t, head) IN t[c[Len(c)]].next

(* All readable descriptors precede all writable ones. *)
SplitOK(t, head) ==
  LET c == Chain(t, head)
  IN  \A i, j \in 1 .. Len(c) : i < j /\ t[c[i]].write => t[c[j]].write

LenSum(t, s) == FoldLeft(LAMBDA acc, d : acc + t[d].len, 0, s)

RefRwSize(t, head) ==
  LET c == Chain(t, head)
  IN  IF ~SplitOK(t, head) THEN [res |-> Err]
      ELSE [res |-> Ok,
            r   |-> LenSum(t, SelectSeq(c, LAMBDA d : ~t[d].write)),
            w   |-> LenSum(t, SelectSeq(c, LAMBDA d : t[d].write))]

(* The bytes of the readable (toQueue = FALSE) or writable region, as      *)
(* <<descriptor, offset>> pairs in linear order.                           *)
RegionBytes(t, head, toQueue) ==
  LET ds == SelectSeq(Chain(t, head), LAMBDA d : t[d].write = toQueue)
  IN  FlattenSeq([i \in 1 .. Len(ds) |->
                    [k \in 1 .. t[ds[i]].len |-> <<ds[i], k - 1>>]])

SegBytes(segs) ==
  FlattenSeq([i \in 1 .. Len(segs) |->
                [k \in 1 .. segs[i][3] |-> <<segs[i][1], segs[i][2] + k - 1>>]])

====
