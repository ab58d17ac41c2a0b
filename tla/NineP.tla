-------------------------------- MODULE NineP --------------------------------
(***************************************************************************)
(* The virtio-9p device's fid table and request handling                   *)
(* (src/src/virtio.c, virtio_9p_recv_request and its helpers).             *)
(*                                                                         *)
(* s->fid_list is an intrusive list of FIDDesc {fid, fd}, new entries      *)
(* added at its head; an FSFile is created by the backend's fs_attach or   *)
(* fs_walk and freed by its fs_delete, which fid_set calls when it         *)
(* rebinds a fid and fid_delete calls on clunk.  `live` is the set of      *)
(* FSFiles the backend holds, drawn from a small pool so that a freed one  *)
(* can be handed out again, as malloc does.                                *)
(*                                                                         *)
(* lopen is the one asynchronous request: fs_open may return > 0 and call  *)
(* virtio_9p_open_cb later from the backend's completion thread, which     *)
(* replies, clears req_in_progress and runs queue_notify itself.  The      *)
(* drain of queue 0 is therefore run by two threads, the "VirtIO queues"   *)
(* worker (W) and the completion thread (B), as in BlockAsync.  A request  *)
(* is handled in one step up to its backend call; `last_avail_idx++` and   *)
(* `req_in_progress = TRUE` after fs_open are steps of their own, and so   *)
(* is the synchronous backend call of a request that uses the FSFile a fid *)
(* is bound to (read and its kin), which holds that FSFile meanwhile.  An  *)
(* avail-ring slot holds the request of the chain it names; a slot never   *)
(* written names a chain of zeroed memory, a malformed request.  Replies   *)
(* (marshall, send_reply, send_error) are abstracted away: they touch the  *)
(* used ring only, which Virtqueue and BlockAsync model.                   *)
(***************************************************************************)
EXTENDS Naturals, Sequences, SequencesExt, FiniteSets

CONSTANTS
  Fids,          \* fid numbers the driver uses
  Files,         \* the backend's FSFile pool
  Ops,           \* request kinds the driver posts
  MaxReqs,       \* bound on requests posted
  Num,           \* qs->num, a power of two, at least MaxReqs
  IdxMod,        \* 2^16 for the uint16 ring indices, a multiple of Num
  MaxIO          \* bound on opens outstanding at the backend

Threads == {"W", "B"}
NoFile  == "nofile"

ASSUME MaxReqs <= Num /\ IdxMod % Num = 0

(* A request: its op and the fids it names; only walk reads newfid. *)
Request == {r \in [op : Ops, fid : Fids, newfid : Fids] : r.op # "walk" => r.newfid = r.fid}

(* The request read from a slot the driver never wrote. *)
Junk == LET x == CHOOSE x \in Fids : TRUE IN [op |-> "other", fid |-> x, newfid |-> x]

Slot(i) == i % Num
IncNoWrap(i) == i + 1
Inc(i) == (i + 1) % IdxMod

VARIABLES
  ring,           \* the request each avail-ring slot of queue 0 names
  availIdx,       \* avail->idx
  nPosted,        \* requests the driver has posted
  notifyPending,  \* the worker's bit for queue 0
  lastAvail,      \* qs->last_avail_idx
  reqInProgress,  \* s->req_in_progress
  fidList,        \* s->fid_list, head first
  live,           \* FSFiles the backend has created and not deleted
  opening,        \* FSFiles of the fs_open calls the backend has yet to complete
  pc, avail,      \* per-thread locals of queue_notify
  using,          \* per thread, the FSFile its request's backend call works on
  overlapped      \* history: both threads have been inside a drain at once

devVars == <<notifyPending, lastAvail, reqInProgress>>
fsVars  == <<fidList, live, opening>>
vars    == <<ring, availIdx, nPosted, devVars, fsVars, pc, avail, using, overlapped>>

Init ==
  /\ ring = [s \in 0 .. Num - 1 |-> Junk] /\ availIdx = 0 /\ nPosted = 0
  /\ notifyPending = FALSE /\ lastAvail = 0 /\ reqInProgress = FALSE
  /\ fidList = <<>> /\ live = {} /\ opening = <<>>
  /\ pc = [t \in Threads |-> "idle"]
  /\ avail = [t \in Threads |-> 0]
  /\ using = [t \in Threads |-> NoFile]
  /\ overlapped = FALSE

-----------------------------------------------------------------------------
(* fid_find1: the index of the first FIDDesc for fid, 0 if none. *)
FidFind1(fid) ==
  IF \E i \in 1 .. Len(fidList) : fidList[i].fid = fid
  THEN CHOOSE i \in 1 .. Len(fidList) :
         fidList[i].fid = fid /\ \A j \in 1 .. i - 1 : fidList[j].fid # fid
  ELSE 0

(* fid_find: the FSFile bound to fid, NoFile if none. *)
FidFind(fid) == IF FidFind1(fid) = 0 THEN NoFile ELSE fidList[FidFind1(fid)].fd

FidSetNoDelete(fid, fd) ==
  LET i == FidFind1(fid) IN
  /\ live' = live \cup {fd}
  /\ fidList' = IF i # 0 THEN [fidList EXCEPT ![i].fd = fd]
                 ELSE <<[fid |-> fid, fd |-> fd]>> \o fidList

(* fid_set(s, fid, fd) after the backend created fd: an entry for fid has  *)
(* its old FSFile deleted and fd stored in it; otherwise a new FIDDesc is  *)
(* list_add'ed at the head.                                                *)
FidSet(fid, fd) ==
  LET i == FidFind1(fid) IN
  IF i # 0
  THEN /\ live' = (live \cup {fd}) \ {fidList[i].fd}
       /\ fidList' = [fidList EXCEPT ![i].fd = fd]
  ELSE /\ live' = live \cup {fd}
       /\ fidList' = <<[fid |-> fid, fd |-> fd]>> \o fidList

(* fid_delete: fs_delete the FSFile and unlink the FIDDesc, if any. *)
FidDelete(fid) ==
  LET i == FidFind1(fid) IN
  IF i # 0
  THEN /\ live' = live \ {fidList[i].fd}
       /\ fidList' = RemoveAt(fidList, i)
  ELSE UNCHANGED <<fidList, live>>

(* A request whose handling fails leaves the fid table alone. *)
Fail == UNCHANGED <<fidList, live>>

(* An FSFile the backend can hand out: one it does not hold. *)
FreshFile == Files \ live

-----------------------------------------------------------------------------
(* The cases of virtio_9p_recv_request's switch, for request r, once its  *)
(* header and arguments are read.  Each leaves `opening` alone but lopen. *)

(* attach: fs_attach, an error reply if it fails, else fid_set(fid, f). *)
Attach(r) == Fail \/ \E f \in FreshFile : FidSet(r.fid, f)

(* walk: fid_find(fid) or fid_not_found; fs_walk creates f from it, a      *)
(* negative result is an error reply, any other (a partial walk included)  *)
(* does fid_set(newfid, f).                                                *)
Walk(r) ==
  IF FidFind(r.fid) = NoFile THEN Fail
  ELSE Fail \/ \E f \in FreshFile : FidSet(r.newfid, f)

(* clunk: fid_delete(fid), whether or not fid is bound. *)
Clunk(r) == FidDelete(r.fid)

(* Every other case (statfs, lcreate, symlink, mknod, readlink, getattr,  *)
(* setattr, xattrwalk, readdir, fsync, lock, getlock, link, mkdir,         *)
(* renameat, unlinkat, version, flush, an unknown id or a malformed        *)
(* request) in one step: it replies, and the fid table is unchanged.  The  *)
(* "read" request below splits such a case at its backend call.            *)
OtherOp(r) == Fail

Goto(t, l) == pc' = [pc EXCEPT ![t] = l]

(* A request that is not lopen: handled, then last_avail_idx++. *)
SyncRequest(t, r) ==
  /\ r.op \notin {"lopen", "read"}
  /\ CASE r.op = "attach" -> Attach(r)
       [] r.op = "walk"   -> Walk(r)
       [] r.op = "clunk"  -> Clunk(r)
       [] OTHER           -> OtherOp(r)
  /\ Goto(t, "inc")
  /\ UNCHANGED <<opening, using>>

(* read (and write, lcreate, symlink, mknod, readlink, getattr, setattr,  *)
(* readdir, lock, getlock, link, mkdir, renameat, unlinkat): f =          *)
(* fid_find(fid), fid_not_found's error reply if none, else the backend   *)
(* call on f comes next.                                                   *)
FileOpLookup(t, r) ==
  /\ r.op = "read"
  /\ UNCHANGED fsVars
  /\ LET f == FidFind(r.fid) IN
       IF f = NoFile THEN Goto(t, "inc") /\ UNCHANGED using
       ELSE Goto(t, "fsread") /\ using' = [using EXCEPT ![t] = f]

(* fs_read(fs, f, offs, buf + 4, count) returns; an error reply if n < 0, *)
(* else the data reply.                                                    *)
FileOpUse(t) ==
  /\ pc[t] = "fsread"
  /\ using' = [using EXCEPT ![t] = NoFile]
  /\ Goto(t, "inc")
  /\ UNCHANGED <<ring, availIdx, nPosted, devVars, fsVars, avail>>

(* lopen: fid_find(fid) or fid_not_found; fs_open(f) replies at once when  *)
(* it returns <= 0, else the open is outstanding and req_in_progress is    *)
(* set next.                                                               *)
Lopen(t, r) ==
  /\ r.op = "lopen"
  /\ UNCHANGED <<fidList, live, using>>
  /\ LET f == FidFind(r.fid) IN
       \/ Goto(t, "inc") /\ UNCHANGED opening
       \/ /\ f # NoFile /\ Len(opening) < MaxIO
          /\ opening' = Append(opening, f)
          /\ Goto(t, "setprog")

-----------------------------------------------------------------------------
(* Guest driver: post a request and kick. *)
Post(r) ==
  /\ nPosted < MaxReqs
  /\ ring' = [ring EXCEPT ![Slot(availIdx)] = r]
  /\ availIdx' = Inc(availIdx) /\ nPosted' = nPosted + 1
  /\ notifyPending' = TRUE
  /\ UNCHANGED <<using, lastAvail, reqInProgress, fsVars, pc, avail>>

(* queue_notify(s, 0): W after taking its bit, B at the end of open_cb. *)
QueueNotifyStart(t) ==
  /\ \/ t = "W" /\ pc[t] = "idle" /\ notifyPending /\ notifyPending' = FALSE
     \/ t = "B" /\ pc[t] = "notify" /\ UNCHANGED notifyPending
  /\ avail' = [avail EXCEPT ![t] = availIdx]
  /\ Goto(t, "loop")
  /\ UNCHANGED <<using, ring, availIdx, nPosted, lastAvail, reqInProgress, fsVars>>

QueueNotifyDone(t) ==
  /\ pc[t] = "loop" /\ lastAvail = avail[t]
  /\ Goto(t, "idle")
  /\ UNCHANGED <<using, ring, availIdx, nPosted, devVars, fsVars, avail>>

(* virtio_9p_recv_request for the request at last_avail_idx:             *)
(* req_in_progress returns -1 and ends the drain.                        *)
Recv(t) ==
  /\ pc[t] = "loop" /\ lastAvail # avail[t]
  /\ LET r == ring[Slot(lastAvail)] IN
       \/ reqInProgress /\ Goto(t, "idle") /\ UNCHANGED <<fsVars, using>>
       \/ ~reqInProgress /\ (SyncRequest(t, r) \/ Lopen(t, r) \/ FileOpLookup(t, r))
  /\ UNCHANGED <<ring, availIdx, nPosted, devVars, avail>>

(* fs_open returned > 0: s->req_in_progress = TRUE. *)
SetInProgress(t) ==
  /\ pc[t] = "setprog"
  /\ reqInProgress' = TRUE
  /\ Goto(t, "inc")
  /\ UNCHANGED <<using, ring, availIdx, nPosted, notifyPending, lastAvail, fsVars, avail>>

IncLastAvail(t) ==
  /\ pc[t] = "inc"
  /\ lastAvail' = Inc(lastAvail)
  /\ Goto(t, "loop")
  /\ UNCHANGED <<using, ring, availIdx, nPosted, notifyPending, reqInProgress, fsVars, avail>>

(* virtio_9p_open_cb for an outstanding open: open_reply, then            *)
(* req_in_progress = FALSE, then queue_notify.                            *)
OpenCb ==
  /\ pc["B"] = "idle" /\ opening # <<>>
  /\ \E i \in 1 .. Len(opening) : opening' = RemoveAt(opening, i)
  /\ Goto("B", "clear")
  /\ UNCHANGED <<using, ring, availIdx, nPosted, devVars, fidList, live, avail>>

OpenCbClear ==
  /\ pc["B"] = "clear"
  /\ reqInProgress' = FALSE
  /\ Goto("B", "notify")
  /\ UNCHANGED <<using, ring, availIdx, nPosted, notifyPending, lastAvail, fsVars, avail>>

Thread(t) ==
  \/ QueueNotifyStart(t) \/ QueueNotifyDone(t) \/ Recv(t)
  \/ SetInProgress(t) \/ IncLastAvail(t) \/ FileOpUse(t)

(* The steps of a thread between queue_notify's start and its return. *)
DrainPcs == {"loop", "setprog", "inc", "fsread"}

Step ==
  \/ \E r \in Request : Post(r)
  \/ \E t \in Threads : Thread(t)
  \/ OpenCb \/ OpenCbClear

Next ==
  /\ Step
  /\ overlapped' = (overlapped \/ \A t \in Threads : pc'[t] \in DrainPcs)

Spec == Init /\ [][Next]_vars
          /\ \A t \in Threads : WF_vars(Thread(t))
          /\ WF_vars(OpenCb \/ OpenCbClear)

-----------------------------------------------------------------------------
TypeOK ==
  /\ \A i \in 1 .. Len(fidList) : fidList[i].fid \in Fids /\ fidList[i].fd \in Files
  /\ live \subseteq Files
  /\ lastAvail \in 0 .. IdxMod - 1 /\ nPosted <= MaxReqs
  /\ using \in [Threads -> Files \cup {NoFile}]

(* The fid table and the backend agree across any sequence of attach,    *)
(* walk, clunk, lopen and open callbacks in which the worker's drain and  *)
(* the open callback's drain have never run at the same time: each fid   *)
(* is in s->fid_list once, no two fids share an FSFile, and the FSFiles   *)
(* the backend holds are exactly those the list binds -- fid_set's        *)
(* rebinding and fid_delete free what they unbind, and nothing bound is   *)
(* freed.  While one drain runs, fid_set's fid_find1 and its list update  *)
(* are not interleaved with another fid_set, so the model's one-step      *)
(* FidSet is exact there; once both drains have run at once, the race     *)
(* that run nine_open_uaf shows can also tear fid_set, which this model   *)
(* does not split.                                                        *)
FidTableSound ==
  LET fids == [i \in 1 .. Len(fidList) |-> fidList[i].fid]
      fds  == [i \in 1 .. Len(fidList) |-> fidList[i].fd]
  IN ~overlapped =>
       /\ IsInjective(fids) /\ IsInjective(fds)
       /\ ToSet(fds) = live

(* An FSFile handed to fs_open stays allocated until its open completes:  *)
(* req_in_progress keeps every other request, clunk and a rebinding walk  *)
(* or attach included, from freeing the file the backend is opening.      *)
OpenFileLive == \A i \in 1 .. Len(opening) : opening[i] \in live

(* No FSFile is freed while the backend works on it: neither the file of  *)
(* an outstanding fs_open nor the file a read (or write, getattr, ...) on *)
(* either drain thread is passing to its synchronous backend call; the    *)
(* one drain at a time that req_in_progress stands for keeps a clunk or a *)
(* rebinding off a file in use.                                            *)
FilesInUseLive ==
  /\ OpenFileLive
  /\ \A t \in Threads : using[t] # NoFile => using[t] \in live
====
