------------------------------- MODULE HostIO -------------------------------
(***************************************************************************)
(* The host side of fpga.cpp (src/unnamed/part_000) around guest console   *)
(* input and shutdown:                                                     *)
(*  - the "Console input" thread (process_stdin): select on stdin and the  *)
(*    stop pipe, read a chunk, enqueue_stdin it (C-a escapes; then either  *)
(*    the virtio console pipe or the HTIF stdin_queue under stdin_mutex);  *)
(*  - the dispatcher (emulated_mmio_respond): the guest's HTIF fromhost    *)
(*    read pops stdin_queue; a SiFive-test or HTIF finish write calls      *)
(*    stop_io; after that the main loop ends and calls join_io;            *)
(*  - stop_io from either thread: exit_code, one byte into                 *)
(*    stop_stdin_pipe[1], close it, virtio_devices.stop().                 *)
(* virtio_devices (virtiodevices.cpp) and the main loop are not in src/:   *)
(* their stop/join and the console reader are modelled from spec.md 5.     *)
(***************************************************************************)
EXTENDS Naturals, Sequences, SequencesExt

CONSTANTS
  Chunks,       \* the chunks one read() of stdin may return (sequences of Chars)
  CtrlA,        \* the byte 1 (C-a)
  MaxReads,     \* bound on the reads of stdin
  ExitCodes,    \* codes a guest finish write passes to stop_io
  MaxFinish,    \* bound on the guest's finish writes
  ConsoleModes, \* the values has_virtio_console_device() may have
  PipeCap       \* capacity of virtio_stdio_pipe (64 KiB), in chars

None == -1                     \* no stop_io yet (exit_code is unset)
ResetCode == -2                \* EXIT_CODE_RESET (defined outside src/)

VARIABLES
  typed,        \* history: every char read from stdin, in order
  ctrlaSeen,    \* FPGA::ctrla_seen
  stdinQueue,   \* FPGA::stdin_queue
  pipe,         \* chars in virtio_stdio_pipe
  delivered,    \* history: chars the guest has received, in order
  sp,           \* the stdin thread's step
  pend,         \* chars enqueue_stdin still has to write to the pipe
  dp,           \* the dispatcher / main thread's step
  reads,        \* stdin reads so far
  finishes,     \* guest finish writes so far
  exitCode,     \* FPGA::exit_code (None before the first stop_io)
  stopBytes,    \* bytes in stop_stdin_pipe
  stopW,        \* stop_stdin_pipe[1] is open
  stopR,        \* stop_stdin_pipe[0] is open
  devStopped,   \* virtio_devices.stop() has been called
  workerExited, \* the devices' threads have exited
  readerOn,     \* the console backend still reads virtio_stdio_pipe
  pipeMade,     \* pipe(virtio_stdio_pipe) has been called
  console       \* virtio_devices.has_virtio_console_device(), fixed at start

vars == <<typed, ctrlaSeen, stdinQueue, pipe, delivered, sp, pend, dp, reads,
          finishes, exitCode, stopBytes, stopW, stopR, devStopped,
          workerExited, readerOn, pipeMade, console>>

(* start_io up to pthread_create: the stop pipe exists and the stdin       *)
(* thread runs; with a console, the main thread has yet to make its pipe.  *)
Init ==
  /\ typed = <<>> /\ ctrlaSeen = FALSE
  /\ stdinQueue = <<>> /\ pipe = <<>> /\ delivered = <<>>
  /\ sp = "select" /\ pend = <<>> /\ console \in ConsoleModes
  /\ dp = IF console THEN "start_pipe" ELSE "serve"
  /\ reads = 0 /\ finishes = 0 /\ exitCode = None
  /\ stopBytes = 0 /\ stopW = TRUE /\ stopR = TRUE
  /\ devStopped = FALSE /\ workerExited = FALSE /\ readerOn = FALSE
  /\ pipeMade = FALSE

-----------------------------------------------------------------------------
(***************************************************************************)
(* The C-a loop of enqueue_stdin over one chunk.  Result: the chars kept   *)
(* (buf[0 .. j-1]), the new ctrla_seen, and the stop_io code of a C-a x or *)
(* C-a r, which returns at once (None if the loop ran to the end).         *)
(***************************************************************************)
RECURSIVE EscapeFrom(_, _, _, _)
EscapeFrom(buf, i, seen, out) ==
  IF i > Len(buf) THEN [out |-> out, seen |-> seen, stop |-> None]
  ELSE LET c == buf[i] IN
    IF seen THEN
      CASE c = "x" -> [out |-> out, seen |-> FALSE, stop |-> 0]
        [] c = "r" -> [out |-> out, seen |-> FALSE, stop |-> ResetCode]
        [] c = "h" -> EscapeFrom(buf, i + 1, FALSE, out)
        [] OTHER   -> EscapeFrom(buf, i + 1, FALSE, Append(out, c))
    ELSE IF c = CtrlA THEN EscapeFrom(buf, i + 1, TRUE, out)
    ELSE EscapeFrom(buf, i + 1, FALSE, Append(out, c))

(* ctrla_seen as a local of each call. *)
EnqueueEscapesLocal(buf, seen) == EscapeFrom(buf, 1, FALSE, <<>>)

EnqueueEscapes(buf, seen) == EscapeFrom(buf, 1, seen, <<>>)

(* The chars that reach the guest from a whole input stream, by the help   *)
(* text of enqueue_stdin: C-a C-a sends C-a, C-a h prints help, C-a x and  *)
(* C-a r end the run, C-a before any other char is dropped.                *)
RECURSIVE Filtered(_)
Filtered(s) ==
  IF s = <<>> THEN <<>>
  ELSE IF Head(s) # CtrlA THEN <<Head(s)>> \o Filtered(Tail(s))
  ELSE IF Len(s) = 1 THEN <<>>
  ELSE IF s[2] \in {"x", "r", "h"} THEN Filtered(Tail(Tail(s)))
  ELSE <<s[2]>> \o Filtered(Tail(Tail(s)))

(* The stream ends inside an escape: a C-a not yet followed by a char. *)
RECURSIVE OpenEscape(_)
OpenEscape(s) ==
  IF s = <<>> THEN FALSE
  ELSE IF Head(s) # CtrlA THEN OpenEscape(Tail(s))
  ELSE IF Len(s) = 1 THEN TRUE
  ELSE OpenEscape(Tail(Tail(s)))

-----------------------------------------------------------------------------
(***************************************************************************)
(* stop_io(code), on thread t whose step variable is sp or dp.  The code   *)
(* is stored by the step that calls stop_io; then write, close, stop.      *)
(***************************************************************************)
StopReadable == stopBytes > 0 \/ ~stopW      \* a byte, or EOF

(* ::write(stop_stdin_pipe[1], &dummy, 1), result ignored *)
StopWriteEffect ==
  stopBytes' = IF stopW /\ stopR THEN 1 ELSE stopBytes

(* close(stop_stdin_pipe[1]) *)
StopCloseEffect == stopW' = FALSE

(* virtio_devices.stop(): the notify worker is told to stop and the        *)
(* console backend stops reading its pipe (spec.md 5).                     *)
DevicesStop ==
  /\ devStopped' = TRUE
  /\ readerOn' = FALSE

StopIo(pc, t, ret) ==
  \/ /\ pc = "stop_write" /\ StopWriteEffect /\ t' = "stop_close"
     /\ UNCHANGED <<stopW, stopR, devStopped, readerOn>>
  \/ /\ pc = "stop_close" /\ StopCloseEffect /\ t' = "stop_devices"
     /\ UNCHANGED <<stopBytes, stopR, devStopped, readerOn>>
  \/ /\ pc = "stop_devices" /\ DevicesStop /\ t' = ret
     /\ UNCHANGED <<stopBytes, stopW, stopR>>

-----------------------------------------------------------------------------
(* The stdin thread: process_stdin. *)

(* select() returns: the stop pipe wins if readable, else stdin has data. *)
StdinSelect ==
  /\ sp = "select"
  /\ StopReadable \/ reads < MaxReads
  /\ sp' = IF StopReadable THEN "break" ELSE "read"
  /\ UNCHANGED <<typed, ctrlaSeen, stdinQueue, pipe, delivered, pend, dp, reads,
                 finishes, exitCode, stopBytes, stopW, stopR,
                 devStopped, workerExited, readerOn, pipeMade, console>>

(* read() of a chunk and enqueue_stdin: the escapes, then a C-a x / C-a r  *)
(* calls stop_io and returns; else the chars go to the console pipe or,    *)
(* under stdin_mutex, to stdin_queue.                                      *)
StdinRead(c) ==
  LET e == EnqueueEscapes(c, ctrlaSeen) IN
  /\ sp = "read"
  /\ typed' = typed \o c
  /\ reads' = reads + 1
  /\ ctrlaSeen' = e.seen
  /\ IF e.stop # None
       THEN exitCode' = e.stop /\ sp' = "stop_write" /\ UNCHANGED <<stdinQueue, pend>>
       ELSE /\ UNCHANGED exitCode
            /\ IF console
                 THEN /\ pend' = e.out /\ UNCHANGED stdinQueue
                      /\ sp' = IF e.out = <<>> THEN "select" ELSE "write"
                 ELSE stdinQueue' = stdinQueue \o e.out /\ sp' = "select"
                      /\ UNCHANGED pend
  /\ UNCHANGED <<pipe, delivered, dp, finishes, stopBytes, stopW, stopR,
                 devStopped, workerExited, readerOn, pipeMade, console>>

(* The pump loop without "buf += sent": a partial write is followed by    *)
(* the same chars again.                                                   *)
StdinPipeWriteNoAdvance ==
  /\ sp = "write" /\ pipeMade
  /\ Len(pipe) < PipeCap
  /\ \E n \in 1 .. Len(pend) :
       /\ n <= PipeCap - Len(pipe)
       /\ pipe' = pipe \o SubSeq(pend, 1, n)
       /\ pend' = SubSeq(pend, 1, Len(pend) - n)
       /\ sp' = IF n = Len(pend) THEN "select" ELSE "write"
  /\ UNCHANGED <<typed, ctrlaSeen, stdinQueue, delivered, dp, reads, finishes,
                 exitCode, stopBytes, stopW, stopR, devStopped,
                 workerExited, readerOn, pipeMade, console>>

(* ::write(virtio_stdio_pipe[1], buf, num_chars) in its loop: it blocks    *)
(* while the pipe is full.  Writing part of buf over-approximates: a chunk  *)
(* of at most 128 bytes is below PIPE_BUF, so the kernel writes it whole.   *)
StdinPipeWrite ==
  /\ sp = "write" /\ pipeMade
  /\ Len(pipe) < PipeCap
  /\ \E n \in 1 .. Len(pend) :
       /\ n <= PipeCap - Len(pipe)
       /\ pipe' = pipe \o SubSeq(pend, 1, n)
       /\ pend' = SubSeq(pend, n + 1, Len(pend))
       /\ sp' = IF n = Len(pend) THEN "select" ELSE "write"
  /\ UNCHANGED <<typed, ctrlaSeen, stdinQueue, delivered, dp, reads, finishes,
                 exitCode, stopBytes, stopW, stopR, devStopped,
                 workerExited, readerOn, pipeMade, console>>

(* The same write before start_io has made the pipe: virtio_stdio_pipe[1] *)
(* is not yet set (the constructor leaves it uninitialised), so the write  *)
(* goes to whatever descriptor the field holds, or fails and aborts().     *)
StdinPipeWriteUnset ==
  /\ sp = "write" /\ ~pipeMade
  /\ \/ pend' = <<>> /\ sp' = "select"
     \/ sp' = "aborted" /\ UNCHANGED pend
  /\ UNCHANGED <<typed, ctrlaSeen, stdinQueue, pipe, delivered, dp, reads, finishes,
                 exitCode, stopBytes, stopW, stopR, devStopped,
                 workerExited, readerOn, pipeMade, console>>

(* break; close(stop_fd); close(virtio_stdio_pipe[1]); the thread returns. *)
StdinBreak ==
  /\ sp = "break"
  /\ stopR' = FALSE
  /\ sp' = "exited"
  /\ UNCHANGED <<typed, ctrlaSeen, stdinQueue, pipe, delivered, pend, dp, reads,
                 finishes, exitCode, stopBytes, stopW, devStopped,
                 workerExited, readerOn, pipeMade, console>>

StdinThread ==
  \/ StdinSelect \/ (\E c \in Chunks : StdinRead(c)) \/ StdinPipeWrite \/ StdinPipeWriteUnset
  \/ StdinBreak
  \/ StopIo(sp, sp, "select")
     /\ UNCHANGED <<typed, ctrlaSeen, stdinQueue, pipe, delivered, pend, dp, reads,
                    finishes, exitCode, workerExited, pipeMade, console>>

-----------------------------------------------------------------------------
(* The dispatcher thread, then the main thread's join_io. *)

(* The rest of start_io, after pthread_create: pipe(virtio_stdio_pipe),   *)
(* set_virtio_stdin_fd and virtio_devices.start(), which starts the        *)
(* console backend's reader.                                               *)
StartPipe ==
  /\ dp = "start_pipe"
  /\ pipeMade' = TRUE
  /\ readerOn' = ~devStopped
  /\ dp' = "serve"
  /\ UNCHANGED <<typed, ctrlaSeen, stdinQueue, pipe, delivered, sp, pend, reads,
                 finishes, exitCode, stopBytes, stopW, stopR,
                 devStopped, workerExited, console>>

(* A SiFive-test or HTIF finish write: stop_io(code). *)
GuestFinish(code) ==
  /\ dp = "serve"
  /\ finishes < MaxFinish
  /\ finishes' = finishes + 1
  /\ exitCode' = code
  /\ dp' = "stop_write"
  /\ UNCHANGED <<typed, ctrlaSeen, stdinQueue, pipe, delivered, sp, pend, reads,
                 stopBytes, stopW, stopR, devStopped, workerExited,
                 readerOn, pipeMade, console>>

(* An HTIF fromhost read: dequeue_stdin under stdin_mutex.  An empty queue *)
(* answers 0 and changes nothing.                                          *)
GuestReadFromhost ==
  /\ dp = "serve"
  /\ stdinQueue # <<>>
  /\ delivered' = Append(delivered, Head(stdinQueue))
  /\ stdinQueue' = Tail(stdinQueue)
  /\ UNCHANGED <<typed, ctrlaSeen, pipe, sp, pend, dp, reads, finishes, exitCode,
                 stopBytes, stopW, stopR, devStopped, workerExited,
                 readerOn, pipeMade, console>>

(* The main loop stops polling once stop_io has been called (main.cpp, not *)
(* in src/; spec.md 4.6 and 5), and calls join_io.                         *)
LeaveLoop ==
  /\ dp = "serve"
  /\ exitCode # None
  /\ dp' = "join_stdin"
  /\ UNCHANGED <<typed, ctrlaSeen, stdinQueue, pipe, delivered, sp, pend, reads,
                 finishes, exitCode, stopBytes, stopW, stopR,
                 devStopped, workerExited, readerOn, pipeMade, console>>

(* join_io: pthread_join(stdin_thread), then virtio_devices.join(). *)
JoinStdin ==
  /\ dp = "join_stdin" /\ sp = "exited"
  /\ dp' = "join_devices"
  /\ UNCHANGED <<typed, ctrlaSeen, stdinQueue, pipe, delivered, sp, pend, reads,
                 finishes, exitCode, stopBytes, stopW, stopR,
                 devStopped, workerExited, readerOn, pipeMade, console>>

JoinDevices ==
  /\ dp = "join_devices" /\ workerExited
  /\ dp' = "joined"
  /\ UNCHANGED <<typed, ctrlaSeen, stdinQueue, pipe, delivered, sp, pend, reads,
                 finishes, exitCode, stopBytes, stopW, stopR,
                 devStopped, workerExited, readerOn, pipeMade, console>>

MainThread ==
  \/ StopIo(dp, dp, "serve")
     /\ UNCHANGED <<typed, ctrlaSeen, stdinQueue, pipe, delivered, sp, pend, reads,
                    finishes, exitCode, workerExited, pipeMade, console>>
  \/ StartPipe \/ LeaveLoop \/ JoinStdin \/ JoinDevices

Guest == (\E code \in ExitCodes : GuestFinish(code)) \/ GuestReadFromhost

(* The devices' threads exit once stopped (NotifyWorker: a stop request    *)
(* makes the worker exit).                                                 *)
WorkerExit ==
  /\ devStopped /\ ~workerExited
  /\ workerExited' = TRUE
  /\ UNCHANGED <<typed, ctrlaSeen, stdinQueue, pipe, delivered, sp, pend, dp,
                 reads, finishes, exitCode, stopBytes, stopW, stopR,
                 devStopped, readerOn, pipeMade, console>>

(* The console backend reads the pipe into the guest's receive buffers,    *)
(* when the guest has posted some.                                         *)
ConsoleRead ==
  /\ readerOn /\ pipe # <<>>
  /\ delivered' = Append(delivered, Head(pipe))
  /\ pipe' = Tail(pipe)
  /\ UNCHANGED <<typed, ctrlaSeen, stdinQueue, sp, pend, dp, reads, finishes,
                 exitCode, stopBytes, stopW, stopR, devStopped,
                 workerExited, readerOn, pipeMade, console>>

(* abort() in the pump ends the whole process. *)
Next ==
  /\ sp # "aborted"
  /\ StdinThread \/ MainThread \/ Guest \/ WorkerExit \/ ConsoleRead

(* Host threads run when runnable; the guest's reads and finish writes,    *)
(* and its posting of console receive buffers, are its own choice.         *)
(* select() returning because stdin has data is the user's typing. *)
SelectForInput == sp = "select" /\ ~StopReadable

Spec == Init /\ [][Next]_vars
          /\ WF_vars(StdinThread /\ ~SelectForInput)
          /\ WF_vars(MainThread) /\ WF_vars(WorkerExit)

-----------------------------------------------------------------------------
(* What the guest has received or has queued for it, in order. *)
Seen == delivered \o stdinQueue \o pipe \o pend

(* Once stop_io has been called, by a guest finish write or by C-a x / C-a *)
(* r on stdin, join_io eventually returns: the stdin thread leaves its     *)
(* loop and the devices' threads exit (or the process has aborted).       *)
JoinReturns == exitCode # None ~> (dp = "joined" \/ sp = "aborted")

(* Until a stop, the chars typed reach the guest in order and filtered by  *)
(* the C-a escapes, however read() splits them into chunks (ctrla_seen     *)
(* says whether an escape is open); with the HTIF queue all of them, with  *)
(* a console pipe all but a lost beginning: enqueue_stdin's partial-write  *)
(* loop never duplicates, reorders or skips a char once the pipe exists.   *)
InputDelivered ==
  exitCode = None =>
    /\ ctrlaSeen = OpenEscape(typed)
    /\ IsSuffix(Seen, Filtered(typed))
    /\ ~console => Seen = Filtered(typed)
====
