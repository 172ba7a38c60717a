---------------------------- MODULE ReadPipeline ----------------------------
(***************************************************************************)
(* read_through: one tape file read on a worker thread and delivered to a  *)
(* sink on the calling thread, through the pool's bounded queue.  The      *)
(* worker runs TapeDevice::read_file_streaming, which writes each tape     *)
(* block it reads to a PipeWriter; that packs the bytes into buffers and   *)
(* queues each one as it fills.  One pool serves every read of the store.  *)
(***************************************************************************)
EXTENDS BufferPool

CONSTANTS MaxLen, MaxReads

ASSUME MaxLenAssumption == MaxLen \in Nat
ASSUME MaxReadsAssumption == MaxReads \in Nat

VARIABLES
    file,       \* the tape file: see Files
    got,        \* bytes the device has read and handed to the PipeWriter
    pend,       \* of those, bytes not yet copied into a buffer
    fill,       \* bytes in the buffer being filled; 0 when there is none
    queue,      \* worker to caller: blocks [from, n]
    ended,      \* the End message is behind them
    produced,   \* what the device's read came to
    consumer,   \* where the calling thread is
    delivered,  \* bytes the sink took
    sink,       \* the sink has not failed
    reads       \* files read so far

workerVars == <<got, pend, fill, produced>>
callerVars == <<consumer, delivered, sink>>
vars == <<poolVars, workerVars, queue, ended, callerVars, file, reads>>

(***************************************************************************)
(* A tape file holds len bytes to its filemark, of which the drive reads   *)
(* stop before its read ends.                                              *)
(***************************************************************************)
Files == {f \in [len : 0 .. MaxLen, stop : 0 .. MaxLen] : f.stop <= f.len}

Block == [from : Nat, n : Nat]

\* The calling thread holds the queue's receiver and the way back.
SinkOpen == consumer \in {"recv", "drop"}

-----------------------------------------------------------------------------
Init ==
    /\ PoolInit
    /\ producer = "done"
    /\ file = [len |-> 0, stop |-> 0]
    /\ got = 0 /\ pend = 0 /\ fill = 0
    /\ queue = <<>> /\ ended = FALSE /\ produced = "none"
    /\ consumer = "idle" /\ delivered = 0 /\ sink = TRUE
    /\ reads = 0

StartRead(f) ==
    /\ consumer = "idle"
    /\ reads < MaxReads
    /\ reads' = reads + 1
    /\ file' = f
    /\ producer' = "read"
    /\ got' = 0 /\ pend' = 0 /\ fill' = 0
    /\ queue' = <<>> /\ ended' = FALSE /\ produced' = "none"
    /\ consumer' = "recv" /\ delivered' = 0 /\ sink' = TRUE
    /\ UNCHANGED <<allocated, free, returned>>

-----------------------------------------------------------------------------
\* The worker: the device's read loop and PipeWriter::write

\* A tape block of n bytes, handed to the PipeWriter.
DeviceBlock(n) ==
    /\ producer = "read" /\ got + n <= file.stop
    /\ got' = got + n /\ pend' = n
    /\ producer' = IF fill > 0 THEN "fill" ELSE "take"
    /\ UNCHANGED <<allocated, free, returned, fill, produced, queue, ended,
                   callerVars, file, reads>>

\* The filemark, after the whole file; or, there or before it, the drive's
\* error or the end of the medium (ENOSPC), which is no error of the read.
DeviceEnd ==
    /\ producer = "read" /\ got = file.stop
    /\ \/ produced' = "filemark" /\ file.stop = file.len
       \/ produced' \in {"endOfMedium", "error"}
    /\ producer' = "finish"
    /\ UNCHANGED <<allocated, free, returned, got, pend, fill, queue, ended,
                   callerVars, file, reads>>

\* A take that finds the caller gone fails the write, and the read with it.
Stopped == produced' = IF producer' = "done" THEN "stopped" ELSE produced

WorkerTake ==
    /\ Take(SinkOpen) /\ Stopped
    /\ UNCHANGED <<got, pend, fill, queue, ended, callerVars, file, reads>>
WorkerGrow ==
    /\ Grow(SinkOpen) /\ Stopped
    /\ UNCHANGED <<got, pend, fill, queue, ended, callerVars, file, reads>>

(***************************************************************************)
(* Copy what fits; a buffer that is full is queued.  With the caller gone  *)
(* the send drops it and the device's read fails.                          *)
(***************************************************************************)
WorkerFill ==
    /\ producer = "fill"
    /\ LET n == Least(Chunk - fill, pend)
           full == fill + n = Chunk
       IN  /\ pend' = pend - n
           /\ fill' = IF full THEN 0 ELSE fill + n
           /\ queue' = IF full /\ SinkOpen
                       THEN Append(queue, [from |-> got - pend - fill, n |-> Chunk])
                       ELSE queue
           /\ producer' = IF full /\ ~SinkOpen THEN "done"
                          ELSE IF pend > n THEN "take" ELSE "read"
           /\ Stopped
    /\ UNCHANGED <<allocated, free, returned, got, ended, callerVars, file, reads>>

\* Mutant: the last, partly filled buffer is not queued.
FinishPartForgotten ==
    /\ producer = "finish" /\ fill > 0
    /\ fill' = 0
    /\ producer' = "finish"
    /\ UNCHANGED <<allocated, free, returned, got, pend, produced, queue, ended,
                   callerVars, file, reads>>

\* PipeWriter::finish: the last, partly filled buffer ...
FinishPart ==
    /\ producer = "finish" /\ fill > 0
    /\ fill' = 0
    /\ queue' = IF SinkOpen THEN Append(queue, [from |-> got - fill, n |-> fill])
                            ELSE queue
    /\ producer' = IF SinkOpen THEN "finish" ELSE "done"
    /\ UNCHANGED <<allocated, free, returned, got, pend, produced, ended,
                   callerVars, file, reads>>

\* ... and the End.
FinishEnd ==
    /\ producer = "finish" /\ fill = 0
    /\ ended' = SinkOpen
    /\ producer' = "done"
    /\ UNCHANGED <<allocated, free, returned, workerVars, queue,
                   callerVars, file, reads>>

-----------------------------------------------------------------------------
\* The calling thread

\* The next block, taken by the sink; its buffer goes back.
Deliver ==
    /\ consumer = "recv" /\ queue # <<>>
    /\ queue' = Tail(queue)
    /\ delivered' = delivered + Head(queue).n
    /\ returned' = returned + 1
    /\ UNCHANGED <<allocated, free, producer, workerVars, ended, consumer, sink,
                   file, reads>>

\* The sink fails on it: the buffer is dropped and the loop is left.
SinkFails ==
    /\ consumer = "recv" /\ queue # <<>>
    /\ queue' = Tail(queue)
    /\ sink' = FALSE /\ consumer' = "drop"
    /\ UNCHANGED <<poolVars, workerVars, ended, delivered, file, reads>>

\* Mutant: End is acted on before the blocks ahead of it.
MeetEndEarly ==
    /\ consumer = "recv" /\ ended
    /\ consumer' = "drop"
    /\ UNCHANGED <<poolVars, workerVars, queue, ended, delivered, sink, file, reads>>

MeetEnd ==
    /\ consumer = "recv" /\ queue = <<>> /\ ended
    /\ consumer' = "drop"
    /\ UNCHANGED <<poolVars, workerVars, queue, ended, delivered, sink, file, reads>>

\* Mutant: the ends are kept until the worker is joined.
DropEndsLate ==
    /\ consumer = "drop" /\ producer = "done"
    /\ consumer' = "join"
    /\ queue' = <<>> /\ ended' = FALSE
    /\ UNCHANGED <<poolVars, workerVars, delivered, sink, file, reads>>

DropEnds ==
    /\ consumer = "drop"
    /\ consumer' = "join"
    /\ queue' = <<>> /\ ended' = FALSE
    /\ UNCHANGED <<poolVars, workerVars, delivered, sink, file, reads>>

\* The worker joined and the pool settled.
Join ==
    /\ consumer = "join" /\ producer = "done"
    /\ consumer' = "idle"
    /\ Settle
    /\ UNCHANGED <<producer, workerVars, queue, ended, delivered, sink, file, reads>>

-----------------------------------------------------------------------------
Worker == \/ \E n \in 1 .. Chunk : DeviceBlock(n)
          \/ DeviceEnd \/ WorkerTake \/ WorkerGrow \/ WorkerFill
          \/ FinishPart \/ FinishEnd
Caller == Deliver \/ MeetEnd \/ DropEnds \/ Join

Next ==
    \/ \E f \in Files : StartRead(f)
    \/ Worker \/ Caller \/ SinkFails

Spec == Init /\ [][Next]_vars

\* Two operating-system threads; a failing sink and a next read are not owed.
FairSpec == Spec /\ WF_vars(Worker) /\ WF_vars(Caller)

-----------------------------------------------------------------------------
TypeOK ==
    /\ allocated \in Nat /\ free \in Nat /\ returned \in Nat
    /\ producer \in {"read", "take", "grow", "fill", "finish", "done"}
    /\ file \in Files
    /\ got \in Nat /\ pend \in 0 .. Chunk /\ fill \in 0 .. Chunk - 1
    /\ queue \in Seq(Block)
    /\ ended \in BOOLEAN /\ sink \in BOOLEAN
    /\ produced \in {"none", "filemark", "endOfMedium", "error", "stopped"}
    /\ consumer \in {"idle", "recv", "drop", "join"}
    /\ delivered \in Nat /\ reads \in Nat

\* Buffers there are; one the worker has begun to fill stays with it.
Live == free + returned + Len(queue)
        + (IF producer = "fill" \/ fill > 0 THEN 1 ELSE 0)

(***************************************************************************)
(* The read runs ahead of the sink by at most the pool's capacity          *)
(* (read_through): no more buffers exist than the pool counts, and it      *)
(* never counts more than its bound.                                       *)
(***************************************************************************)
MemoryBound == Live <= allocated /\ allocated <= MaxBuffers

(***************************************************************************)
(* What the sink has is a prefix of the file and what is on its way        *)
(* continues it without a gap: the queue, then the buffer being filled,    *)
(* then the bytes of the block in hand (PipeWriter::write).                *)
(***************************************************************************)
DeliveredInOrder ==
    consumer = "recv" =>
        /\ \A i \in DOMAIN queue :
               queue[i].from = IF i = 1 THEN delivered
                               ELSE queue[i - 1].from + queue[i - 1].n
        /\ got - pend - fill = IF queue = <<>> THEN delivered
                               ELSE queue[Len(queue)].from + queue[Len(queue)].n

(***************************************************************************)
(* A read that ended with the sink sound delivered every byte the drive    *)
(* read, the partly filled last buffer and what came before an error or    *)
(* the end of the medium included; and the device's read is stopped only   *)
(* by a sink that failed, so its result tells how far the tape moved       *)
(* (read_through, issue #389).                                             *)
(***************************************************************************)
NothingLost ==
    consumer = "idle" /\ reads > 0 =>
        (sink => produced # "stopped" /\ delivered = file.stop)

(***************************************************************************)
(* Every read ends: whichever thread stops first, the other stops as well  *)
(* and is joined, and the worker waits for no buffer that will not come.   *)
(***************************************************************************)
EveryReadEnds == consumer = "recv" ~> consumer = "idle"
=============================================================================
