--------------------------- MODULE RecorderThread ---------------------------
(***************************************************************************)
(* The thread that writes a recording: eFilePushThreadRecorder             *)
(* (lib/dvb/filepush.cpp) with the ring of asynchronous writes of          *)
(* eDVBRecordFileThread (lib/dvb/demux.cpp) and the message pump through   *)
(* which it tells the main thread how it fares.                            *)
(*                                                                         *)
(* A block is what one read of the demux device delivers; blocks are       *)
(* numbered.  The main thread's part (start, stop) is in RecordService.    *)
(***************************************************************************)
EXTENDS Integers, Sequences

CONSTANTS
  Buffers,     \* the size of m_aio
  MaxBlocks,   \* bound: blocks the demux delivers to one recorder
  Env          \* what disks, demuxes and tuners do in this instance

ASSUME BuffersAssumption == Buffers \in Nat \ {0}
ASSUME BlocksAssumption == MaxBlocks \in Nat

Ring == 0 .. Buffers - 1

VARIABLES
  rpc,      \* where the thread is
  mstop,    \* m_stop
  source,   \* m_source_fd is open
  dest,     \* m_fd_dest: the number of the file, 0 for -1
  aio,      \* per buffer: no request, or how it fares
  holds,    \* per buffer: the block in it
  cur,      \* m_current_buffer
  flushed,  \* the buffer flush looks at
  offset,   \* m_current_offset, in blocks
  lost,     \* the blocks the disk did not take, while the file was open
  msgs,     \* m_messagepump
  file,     \* the recording on disk: which file the name means, and its blocks
  fds       \* the target files that are open

thread == <<rpc, mstop, cur, flushed, offset, holds, msgs>>

Requests == {"none", "busy", "ok", "failed"}
Pcs == {"none", "check", "call", "read", "write", "poll", "wait", "flush", "ended"}
Messages == {"readError", "writeError", "stopped"}

Following(b) == IF b = Buffers - 1 THEN 0 ELSE b + 1

-----------------------------------------------------------------------------
(* The loop of eFilePushThreadRecorder::thread *)

\* while (!m_stop): otherwise flush.
Check ==
  /\ rpc = "check"
  /\ rpc' = IF mstop THEN "flush" ELSE "call"
  /\ flushed' = 0
  /\ UNCHANGED <<mstop, source, dest, aio, holds, cur, offset, lost, msgs, file, fds>>

\* sendEvent, and out of the loop.
Fail(message) ==
  /\ msgs' = Append(msgs, message)
  /\ rpc' = "flush"
  /\ flushed' = 0

\* ::read: on a descriptor that stop has closed already it fails at once.
CallRead ==
  /\ rpc = "call"
  /\ IF source THEN rpc' = "read" /\ UNCHANGED <<msgs, flushed>> ELSE Fail("readError")
  /\ UNCHANGED <<mstop, source, dest, aio, holds, cur, offset, lost, file, fds>>

\* The demux delivers data into m_buffer.
ReadData ==
  /\ rpc = "read" /\ source /\ offset < MaxBlocks
  /\ holds' = [holds EXCEPT ![cur] = offset + 1]
  /\ rpc' = "write"
  /\ UNCHANGED <<mstop, source, dest, aio, cur, flushed, offset, lost, msgs, file, fds>>

\* EOVERFLOW, EBUSY, EAGAIN: try again.
ReadAgain ==
  /\ rpc = "read" /\ source
  /\ rpc' = "check"
  /\ UNCHANGED <<mstop, source, dest, aio, holds, cur, flushed, offset, lost, msgs, file, fds>>

ReadError ==
  /\ rpc = "read" /\ source /\ "readerror" \in Env
  /\ Fail("readError")
  /\ UNCHANGED <<mstop, source, dest, aio, holds, cur, offset, lost, file, fds>>

-----------------------------------------------------------------------------
(* eDVBRecordFileThread: writeData, flush *)

\* asyncWrite: aio_write takes the request ...
Submit ==
  /\ rpc = "write"
  /\ aio' = [aio EXCEPT ![cur] = "busy"]
  /\ offset' = offset + 1
  /\ rpc' = "poll"
  /\ UNCHANGED <<mstop, source, dest, holds, cur, flushed, lost, msgs, file, fds>>

\* ... or refuses it.
Refuse ==
  /\ rpc = "write" /\ "refuse" \in Env
  /\ Fail("writeError")
  /\ UNCHANGED <<mstop, source, dest, aio, holds, cur, offset, lost, file, fds>>

\* A request ends.  Only a file that is open can be written; one that is closed is no
\* fault of the disk.
Complete(b, result) ==
  /\ aio[b] = "busy"
  /\ result = "ok" => dest \in fds
  /\ result = "failed" => dest \notin fds \/ "diskfull" \in Env
  /\ aio' = [aio EXCEPT ![b] = result]
  /\ lost' = IF result = "failed" /\ dest \in fds THEN lost \cup {holds[b]} ELSE lost
  /\ file' = IF result = "ok" /\ file.id = dest
             THEN [file EXCEPT !.blocks = @ \cup {holds[b]}] ELSE file
  /\ UNCHANGED <<rpc, mstop, source, dest, holds, cur, flushed, offset, msgs, fds>>

\* The buffers the polling loop looks at: backwards from the current one, as far as
\* the first one that is not busy.
Back(n) == IF cur >= n THEN cur - n ELSE cur - n + Buffers
Polled == {Back(n) : n \in {m \in Ring : \A k \in 0 .. m - 1 : aio[Back(k)] = "busy"}}
Done == {b \in Polled : aio[b] # "busy"}

\* The rest of asyncWrite: count the busy buffers, go on to the next.  A failure that
\* the first poll reports is overlooked; one of a later poll ends the loop.
Poll ==
  /\ rpc = "poll"
  /\ aio' = [b \in Ring |-> IF b \in Done THEN "none" ELSE aio[b]]
  /\ IF \E b \in Done : b # cur /\ aio[b] = "failed"
     THEN Fail("writeError") /\ UNCHANGED cur
     ELSE rpc' = "wait" /\ cur' = Following(cur) /\ UNCHANGED <<msgs, flushed>>
  /\ UNCHANGED <<mstop, source, dest, holds, offset, lost, file, fds>>

\* Mutant of WaitForBuffer: writeData does not wait.
GoOn ==
  /\ rpc = "wait"
  /\ aio' = [aio EXCEPT ![cur] = "none"]
  /\ rpc' = "check"
  /\ UNCHANGED <<mstop, source, dest, holds, cur, flushed, offset, lost, msgs, file, fds>>

\* writeData: wait for the request that used the next buffer before.
WaitForBuffer ==
  /\ rpc = "wait" /\ aio[cur] # "busy"
  /\ aio' = [aio EXCEPT ![cur] = "none"]
  /\ IF aio[cur] = "failed" THEN Fail("writeError")
     ELSE rpc' = "check" /\ UNCHANGED <<msgs, flushed>>
  /\ UNCHANGED <<mstop, source, dest, holds, cur, offset, lost, file, fds>>

\* flush waits for one buffer after the other, whatever their results.
Flush ==
  /\ rpc = "flush" /\ flushed \in Ring
  /\ aio[flushed] # "busy"
  /\ aio' = [aio EXCEPT ![flushed] = "none"]
  /\ flushed' = flushed + 1
  /\ UNCHANGED <<rpc, mstop, source, dest, holds, cur, offset, lost, msgs, file, fds>>

\* sendEvent(evtStopped); the thread ends.
EndThread ==
  /\ rpc = "flush" /\ flushed = Buffers
  /\ msgs' = Append(msgs, "stopped")
  /\ rpc' = "ended"
  /\ UNCHANGED <<mstop, source, dest, aio, holds, cur, flushed, offset, lost, file, fds>>

\* SIGUSR1 interrupts a read, and aio_suspend: the wait for a buffer then returns -1,
\* which writeData reports as a failed write and flush ignores.
Interrupted ==
  CASE rpc = "read" -> rpc' = "check" /\ UNCHANGED <<msgs, flushed>>
    [] rpc = "wait" /\ aio[cur] = "busy" -> Fail("writeError")
    [] rpc = "flush" /\ flushed \in Ring /\ aio[flushed] = "busy" ->
         flushed' = flushed + 1 /\ UNCHANGED <<rpc, msgs>>
    [] OTHER -> UNCHANGED <<rpc, msgs, flushed>>

ThreadStep == \/ Check \/ CallRead \/ Submit \/ Refuse \/ Poll \/ WaitForBuffer
              \/ Flush \/ EndThread

\* The demux and the disk.
Device == \/ ReadData \/ ReadAgain \/ ReadError
          \/ \E b \in Ring : Complete(b, "ok") \/ Complete(b, "failed")
=============================================================================
