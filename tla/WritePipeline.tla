--------------------------- MODULE WritePipeline ---------------------------
(***************************************************************************)
(* write_verified: a staged file streamed to the store by three threads.   *)
(* The reader fills buffers from the file, the hasher hashes them in order *)
(* and passes them on, and the store's execute runs on the calling thread, *)
(* reading them back.  The hasher keeps the file's last block until the    *)
(* hash is known, so a file that does not match its recorded sha256 never  *)
(* reaches its filemark.  One pool serves the files of a run in turn.      *)
(*                                                                         *)
(* Bytes are counted, not kept: a block is where its bytes come from in    *)
(* the file and how many they are.  A channel is the blocks in it and the  *)
(* message that ends it, since no stage sends anything after that one.     *)
(***************************************************************************)
EXTENDS BufferPool

CONSTANTS MaxLen, MaxFiles

ASSUME MaxLenAssumption == MaxLen \in Nat
ASSUME MaxFilesAssumption == MaxFiles \in Nat

VARIABLES
    src,       \* the file: see Sources
    at,        \* bytes the reader has sent
    readQ,     \* reader to hasher
    hasher,    \* where the hasher is
    hashed,    \* bytes hashed
    sha,       \* the hash against the recorded one, once finished
    hashQ,     \* hasher to store
    writer,    \* where the calling thread is
    current,   \* the block being drained; n = 0 for none
    taken,     \* bytes handed to the store
    withheld,  \* the store met the withheld block
    store,     \* how execute ended
    verdict,   \* what the file came to
    files      \* files streamed so far

readVars == <<at, readQ>>
hashVars == <<hasher, hashed, sha, hashQ>>
storeVars == <<writer, current, taken, withheld, store>>
fileVars == <<src, verdict, files>>
vars == <<poolVars, readVars, hashVars, storeVars, fileVars>>

(***************************************************************************)
(* A file of declared length len delivers stop bytes and then, if that is  *)
(* short of len, ends or fails.  good: all len bytes match the recorded    *)
(* sha256 (never, when none is recorded).                                  *)
(***************************************************************************)
Sources == {s \in [len : 0 .. MaxLen, stop : 0 .. MaxLen,
                   fate : {"end", "fail"}, good : BOOLEAN] : s.stop <= s.len}

Block == [from : Nat, n : Nat]
NoBlock == [from |-> 0, n |-> 0]
Channel == [data : Seq(Block), last : {"open", "end", "fail", "withheld"}]
Empty == [data |-> <<>>, last |-> "open"]

Send(ch, b) == [ch EXCEPT !.data = Append(@, b)]
Shift(ch) == [ch EXCEPT !.data = Tail(@)]
Close(ch, how) == [ch EXCEPT !.last = how]

\* The calling thread holds the hashed blocks' receiver and the way back.
PipeOpen == writer \in {"execute", "drop"}

-----------------------------------------------------------------------------
Init ==
    /\ PoolInit
    /\ producer = "done"
    /\ src = [len |-> 0, stop |-> 0, fate |-> "end", good |-> TRUE]
    /\ at = 0 /\ readQ = Empty
    /\ hasher = "done" /\ hashed = 0 /\ sha = "none" /\ hashQ = Empty
    /\ writer = "idle" /\ current = NoBlock /\ taken = 0
    /\ withheld = FALSE /\ store = "none"
    /\ verdict = "none" /\ files = 0

(***************************************************************************)
(* The write session goes on to another file after one written, and after  *)
(* one the drive refused, to re-send it (the retry of run_entries).        *)
(***************************************************************************)
StartFile(s) ==
    /\ writer = "idle"
    /\ files < MaxFiles
    /\ verdict \in {"none", "written"} \/ (verdict = "failed" /\ store = "own")
    /\ files' = files + 1
    /\ src' = s /\ verdict' = "none"
    /\ producer' = IF s.len = 0 THEN "end" ELSE "take"
    /\ at' = 0 /\ readQ' = Empty
    /\ hasher' = "recv" /\ hashed' = 0 /\ sha' = "none" /\ hashQ' = Empty
    /\ writer' = "execute" /\ current' = NoBlock /\ taken' = 0
    /\ withheld' = FALSE /\ store' = "none"
    /\ UNCHANGED <<allocated, free, returned>>

-----------------------------------------------------------------------------
\* read_stage

ReadTake == Take(PipeOpen) /\ UNCHANGED <<readVars, hashVars, storeVars, fileVars>>
ReadGrow == Grow(PipeOpen) /\ UNCHANGED <<readVars, hashVars, storeVars, fileVars>>

(***************************************************************************)
(* The file has nothing more, short of len, on a block boundary.  At its   *)
(* end the buffer goes back to the pool; on an error it is dropped.        *)
(***************************************************************************)
ReadNothing ==
    /\ producer = "fill" /\ src.stop = at
    /\ producer' = src.fate
    /\ free' = IF src.fate = "end" THEN free + 1 ELSE free
    /\ UNCHANGED <<allocated, returned, readVars, hashVars, storeVars, fileVars>>

(***************************************************************************)
(* A block, whole or cut short by the end or the error, sent on; a send    *)
(* with the hasher gone drops the buffer and stops the reader.             *)
(***************************************************************************)
ReadBlock ==
    /\ producer = "fill" /\ at < src.stop
    /\ LET want == Least(src.len - at, Chunk)
           got == Least(want, src.stop - at)
       IN  IF hasher = "done"
           THEN producer' = "done" /\ UNCHANGED readVars
           ELSE /\ at' = at + got
                /\ readQ' = Send(readQ, [from |-> at, n |-> got])
                /\ producer' = IF got < want THEN src.fate
                               ELSE IF at + got < src.len THEN "take" ELSE "end"
    /\ UNCHANGED <<allocated, free, returned, hashVars, storeVars, fileVars>>

\* The closing End or Fail.
ReadClose ==
    /\ producer \in {"end", "fail"}
    /\ producer' = "done"
    /\ readQ' = IF hasher = "done" THEN readQ ELSE Close(readQ, producer)
    /\ UNCHANGED <<allocated, free, returned, at, hashVars, storeVars, fileVars>>

-----------------------------------------------------------------------------
\* hash_stage.  When it returns, its ends go: blocks still queued are dropped.

Forward(msg, next) ==
    /\ hashQ' = IF PipeOpen THEN msg ELSE hashQ
    /\ hasher' = IF PipeOpen THEN next ELSE "done"
    /\ readQ' = IF PipeOpen /\ next # "done" THEN Shift(readQ) ELSE Empty

HashBlock ==
    /\ hasher = "recv" /\ readQ.data # <<>>
    /\ hashed + Head(readQ.data).n < src.len
    /\ hashed' = hashed + Head(readQ.data).n
    /\ Forward(Send(hashQ, Head(readQ.data)), "recv")
    /\ UNCHANGED <<poolVars, at, sha, storeVars, fileVars>>

\* Mutant: the last block goes on before the hash is compared.
HashLastBlockForwarded ==
    /\ hasher = "recv" /\ readQ.data # <<>>
    /\ hashed + Head(readQ.data).n = src.len
    /\ hashed' = src.len
    /\ sha' = IF src.good THEN "match" ELSE "differs"
    /\ Forward(Send(hashQ, Head(readQ.data)), "end")
    /\ UNCHANGED <<poolVars, at, storeVars, fileVars>>

\* The last block: the hash is finished before it goes on.
HashLastBlock ==
    /\ hasher = "recv" /\ readQ.data # <<>>
    /\ hashed + Head(readQ.data).n = src.len
    /\ hashed' = src.len
    /\ sha' = IF src.good THEN "match" ELSE "differs"
    /\ IF src.good THEN Forward(Send(hashQ, Head(readQ.data)), "end")
                   ELSE Forward(Close(hashQ, "withheld"), "done")
    /\ UNCHANGED <<poolVars, at, storeVars, fileVars>>

\* Mutant: the hasher returns after the last block, telling the store nothing.
HashEndSilent ==
    /\ hasher = "end"
    /\ hasher' = "done" /\ readQ' = Empty
    /\ UNCHANGED <<poolVars, at, hashed, sha, hashQ, storeVars, fileVars>>

HashEnd ==
    /\ hasher = "end"
    /\ Forward(Close(hashQ, "end"), "done")
    /\ UNCHANGED <<poolVars, at, hashed, sha, storeVars, fileVars>>

\* The reader's End or Fail passed on; the hash is whole only for no bytes.
HashClose ==
    /\ hasher = "recv" /\ readQ.data = <<>> /\ readQ.last # "open"
    /\ Forward(Close(hashQ, readQ.last), "done")
    /\ sha' = IF readQ.last # "end" \/ hashed # src.len THEN "none"
              ELSE IF src.good THEN "match" ELSE "differs"
    /\ UNCHANGED <<poolVars, at, hashed, storeVars, fileVars>>

\* The reader went without an End: it found the store gone.
HashOrphaned ==
    /\ hasher = "recv" /\ readQ = Empty /\ producer = "done"
    /\ hasher' = "done"
    /\ UNCHANGED <<poolVars, readVars, hashed, sha, hashQ, storeVars, fileVars>>

-----------------------------------------------------------------------------
\* PipeReader::read and the store's execute, on the calling thread

StoreReceive ==
    /\ writer = "execute" /\ taken < src.len /\ current = NoBlock
    /\ hashQ.data # <<>>
    /\ current' = Head(hashQ.data)
    /\ hashQ' = Shift(hashQ)
    /\ UNCHANGED <<poolVars, readVars, hasher, hashed, sha,
                   writer, taken, withheld, store, fileVars>>

\* Mutant: a read that takes part of a block does not advance in it.
StoreDrainUnmoved(w) ==
    /\ writer = "execute" /\ current # NoBlock
    /\ LET n == Least(w, current.n)
       IN  /\ taken' = taken + n
           /\ IF n < current.n
              THEN /\ current' = [from |-> current.from, n |-> current.n - n]
                   /\ UNCHANGED returned
              ELSE /\ current' = NoBlock
                   /\ returned' = returned + 1
    /\ UNCHANGED <<allocated, free, producer, readVars, hashVars,
                   writer, withheld, store, fileVars>>

\* A read of w bytes; a drained buffer goes back to the reader.
StoreDrain(w) ==
    /\ writer = "execute" /\ current # NoBlock
    /\ LET n == Least(w, current.n)
       IN  /\ taken' = taken + n
           /\ IF n < current.n
              THEN /\ current' = [from |-> current.from + n, n |-> current.n - n]
                   /\ UNCHANGED returned
              ELSE /\ current' = NoBlock
                   /\ returned' = returned + 1
    /\ UNCHANGED <<allocated, free, producer, readVars, hashVars,
                   writer, withheld, store, fileVars>>

(***************************************************************************)
(* The stream ends short of the declared length: at an End the store finds *)
(* its source exhausted, at a Fail or Withheld its read fails.             *)
(***************************************************************************)
StoreMeetsEnd ==
    /\ writer = "execute" /\ taken < src.len /\ current = NoBlock
    /\ hashQ.data = <<>> /\ hashQ.last # "open"
    /\ store' = "source" /\ writer' = "drop"
    /\ withheld' = (hashQ.last = "withheld")
    /\ UNCHANGED <<poolVars, readVars, hashVars, current, taken, fileVars>>

\* A full medium, a refused block, a drive error: the store's own reason.
StoreFails ==
    /\ writer = "execute"
    /\ store' = "own" /\ writer' = "drop"
    /\ UNCHANGED <<poolVars, readVars, hashVars, current, taken, withheld, fileVars>>

\* All the bytes, and the filemark after them.
StoreFinishes ==
    /\ writer = "execute" /\ taken = src.len
    /\ store' = "ok" /\ writer' = "drop"
    /\ UNCHANGED <<poolVars, readVars, hashVars, current, taken, withheld, fileVars>>

\* Mutant: the ends are kept until the stages are joined.
DropPipeLate ==
    /\ writer = "drop" /\ producer = "done" /\ hasher = "done"
    /\ writer' = "join" /\ current' = NoBlock /\ hashQ' = Empty
    /\ UNCHANGED <<poolVars, readVars, hasher, hashed, sha,
                   taken, withheld, store, fileVars>>

DropPipe ==
    /\ writer = "drop"
    /\ writer' = "join" /\ current' = NoBlock /\ hashQ' = Empty
    /\ UNCHANGED <<poolVars, readVars, hasher, hashed, sha,
                   taken, withheld, store, fileVars>>

\* Mutant: the hash outranks the store's own error.
VerdictByHash(held, st, hash) ==
    CASE held \/ hash = "differs" -> "mismatch"
      [] ~held /\ hash = "match" -> "written"
      [] OTHER -> "failed"

\* Streamed::verdict
Verdict(held, st, hash) ==
    CASE held -> "mismatch"
      [] ~held /\ st # "ok" -> "failed"
      [] ~held /\ st = "ok" /\ hash = "match" -> "written"
      [] ~held /\ st = "ok" /\ hash = "differs" -> "mismatch"
      [] OTHER -> "failed"

\* The stages joined, the pool settled, the file judged.
Join ==
    /\ writer = "join" /\ producer = "done" /\ hasher = "done"
    /\ writer' = "idle"
    /\ verdict' = Verdict(withheld, store, sha)
    /\ Settle
    /\ UNCHANGED <<producer, readVars, hashVars, current, taken, withheld,
                   store, src, files>>

-----------------------------------------------------------------------------
Reader == ReadTake \/ ReadGrow \/ ReadNothing \/ ReadBlock \/ ReadClose
Hasher == HashBlock \/ HashLastBlock \/ HashEnd \/ HashClose \/ HashOrphaned
Storing == \/ StoreReceive \/ StoreMeetsEnd \/ StoreFinishes \/ DropPipe \/ Join
           \/ \E w \in 1 .. Chunk : StoreDrain(w)

Next ==
    \/ \E s \in Sources : StartFile(s)
    \/ Reader \/ Hasher \/ Storing \/ StoreFails

Spec == Init /\ [][Next]_vars

(***************************************************************************)
(* Three operating-system threads: each goes on when it can.  The store's  *)
(* own failure is never owed, nor is a next file.                          *)
(***************************************************************************)
FairSpec == Spec /\ WF_vars(Reader) /\ WF_vars(Hasher) /\ WF_vars(Storing)

-----------------------------------------------------------------------------
TypeOK ==
    /\ allocated \in Nat /\ free \in Nat /\ returned \in Nat
    /\ producer \in {"take", "grow", "fill", "end", "fail", "done"}
    /\ src \in Sources
    /\ at \in Nat /\ hashed \in Nat /\ taken \in Nat /\ files \in Nat
    /\ readQ \in Channel /\ hashQ \in Channel
    /\ hasher \in {"recv", "end", "done"}
    /\ sha \in {"none", "match", "differs"}
    /\ writer \in {"idle", "execute", "drop", "join"}
    /\ current \in Block
    /\ withheld \in BOOLEAN
    /\ store \in {"none", "ok", "source", "own"}
    /\ verdict \in {"none", "written", "mismatch", "failed"}

\* Buffers there are: in the pool, on their way back, at a stage or queued.
Live == free + returned + (IF producer = "fill" THEN 1 ELSE 0)
        + Len(readQ.data) + Len(hashQ.data) + (IF current = NoBlock THEN 0 ELSE 1)

(***************************************************************************)
(* The pool's capacity is the pipeline's memory bound, whichever thread    *)
(* runs ahead and whichever stops early: no more buffers exist than the    *)
(* pool counts, and it never counts more than its bound (BufferPool,       *)
(* Producer::take).                                                        *)
(***************************************************************************)
MemoryBound == Live <= allocated /\ allocated <= MaxBuffers

(***************************************************************************)
(* Between two files the pool's count is exact: a buffer that went with a  *)
(* stage that stopped is not counted for the next file (settle).           *)
(***************************************************************************)
PoolCounted == writer = "idle" => allocated = Live

\* The blocks of s follow one another from offset a, with no gap or overlap.
Linked(s, a) ==
    \A i \in DOMAIN s :
        /\ s[i].n > 0
        /\ s[i].from = IF i = 1 THEN a ELSE s[i - 1].from + s[i - 1].n

EndOf(s, a) == IF s = <<>> THEN a ELSE s[Len(s)].from + s[Len(s)].n

(***************************************************************************)
(* execute sees the bytes it would have read from the file directly, the   *)
(* same bytes in the same order (write_verified): what is on its way to    *)
(* the store and to the hasher continues, without a gap, what each has.    *)
(***************************************************************************)
StreamInOrder ==
    writer = "execute" =>
        /\ current # NoBlock => current.from = taken
        /\ Linked(hashQ.data, taken + current.n)
        /\ sha # "differs" => EndOf(hashQ.data, taken + current.n) = hashed
        /\ hasher # "done" => /\ Linked(readQ.data, hashed)
                              /\ EndOf(readQ.data, hashed) = at

(***************************************************************************)
(* A file that does not match its recorded sha256 never reaches its        *)
(* filemark, and no byte of its last block reaches the store, however far  *)
(* the threads have run apart (hash_stage).                                *)
(***************************************************************************)
MismatchNeverMarked ==
    (~src.good /\ src.len > 0) => /\ store # "ok"
                                 /\ taken + current.n < src.len

(***************************************************************************)
(* What a file comes to is what happened to it (Streamed::verdict).        *)
(* Written: the whole file, and it matches.  Mismatch: the whole file was  *)
(* hashed and it differs, never a source that ended short or failed.       *)
(* Failed: the store's own failure or such a source, so in particular a    *)
(* store that took the whole file always finds the hash finished.          *)
(***************************************************************************)
VerdictJustified ==
    /\ verdict = "written" => src.good /\ src.stop = src.len /\ taken = src.len
    /\ verdict = "mismatch" => ~src.good /\ src.stop = src.len
    /\ verdict = "failed" => store = "own" \/ src.stop < src.len

(***************************************************************************)
(* While the store runs, no stage goes without saying so: the read error   *)
(* "the write pipeline stopped before the end of the file"                 *)
(* (PipeReader::next on a closed channel) needs a stage that panicked.     *)
(***************************************************************************)
NoSilentEnd ==
    (writer = "execute" /\ hasher = "done") => hashQ.last # "open"

(***************************************************************************)
(* Every file that is started is judged: whichever stage stops first, for  *)
(* whatever reason, the other two stop as well and are joined, and no      *)
(* stage waits for a buffer that will not come (write_verified).           *)
(***************************************************************************)
EveryFileJudged == writer = "execute" ~> writer = "idle"
=============================================================================
