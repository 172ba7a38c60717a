----------------------------- MODULE TapeCursor -----------------------------
(***************************************************************************)
(* TapeStore's file cursor: which tape file the store believes the head is *)
(* at, so that a read moves the tape no more than it must, against where   *)
(* the head is.  A cursor wrong by one reads file N+1 as file N, and the   *)
(* chain walk would then hold a sound cartridge to be bad.                 *)
(*                                                                         *)
(* A tape is its files' lengths in blocks, each closed by a filemark, and  *)
(* a tail of blocks after the last one, which a power loss can leave.  A   *)
(* write session has just opened the drive, which rewinds, or repositions  *)
(* before it writes, so no write begins inside a file.                     *)
(***************************************************************************)
EXTENDS Integers, Sequences

CONSTANTS MaxFiles, MaxBlocks

ASSUME MaxFilesAssumption == MaxFiles \in Nat
ASSUME MaxBlocksAssumption == MaxBlocks \in Nat

VARIABLES
    files,   \* blocks in each closed file
    tail,    \* blocks after the last filemark
    head,    \* where the head is: in file, before block
    st,      \* the driver's own count, or -1s when it has lost track
    cursor,  \* what the store believes
    read     \* the last read: the file asked for, and where it began

vars == <<files, tail, head, st, cursor, read>>

Positions == 0 .. MaxFiles
Spot == [file : Nat, block : Nat]
Lost == [file |-> -1, block |-> -1]
StartOf(n) == [file |-> n, block |-> 0]
EndOfData == [file |-> Len(files), block |-> tail]

Unknown == [is |-> "unknown", n |-> 0]
AtStart(n) == [is |-> "start", n |-> n]
Within(n) == [is |-> "within", n |-> n]
Cursor == [is : {"unknown", "start", "within"}, n : Nat]

\* External: the st driver counts what the drive reports, or knows it does not.
Counted == st' \in {head', Lost}

-----------------------------------------------------------------------------
AgreesWith(c, s) ==
    CASE c.is = "unknown" -> FALSE
      [] c.is = "start" -> s = StartOf(c.n)
      [] c.is = "within" -> s.file = c.n

\* Mutant: the driver is not asked.
TrustedUnasked == cursor

\* The cursor if st's count agrees with it.
TrustedCursor == IF AgreesWith(cursor, st) THEN cursor ELSE Unknown

(***************************************************************************)
(* FileCursor::plan and the motion it asks for: stay; space forward over   *)
(* filemarks, from wherever the head is; or rewind and space from there.   *)
(***************************************************************************)
Destination(c, target) ==
    IF c.is = "start" /\ c.n = target THEN head
    ELSE IF c.is # "unknown" /\ target > c.n
         THEN StartOf(head.file + (target - c.n))
         ELSE StartOf(target)

\* Mutant: a read that returned nothing is taken to have met a filemark.
AfterReadAnyMark(p, n, end) ==
    CASE end = "filemark" -> AtStart(p + 1)
      [] end = "stopped" -> Within(p)
      [] OTHER -> Unknown

(***************************************************************************)
(* Where a read of file p left the head: only one that delivered blocks    *)
(* and met a filemark is certain to be at the next file.                   *)
(***************************************************************************)
AfterRead(p, n, end) ==
    CASE end = "filemark" /\ n > 0 -> AtStart(p + 1)
      [] end = "stopped" -> Within(p)
      [] OTHER -> Unknown

-----------------------------------------------------------------------------
Init ==
    /\ files \in UNION {[1 .. n -> 0 .. MaxBlocks] : n \in 0 .. MaxFiles}
    /\ tail \in 0 .. MaxBlocks
    /\ head = StartOf(0) /\ st = StartOf(0)
    /\ cursor = AtStart(0)
    /\ read = [asked |-> 0, from |-> StartOf(0)]

\* locate reached file p; blocks and the end of a read of all of it.
Located(p) == Destination(TrustedCursor, p).file <= Len(files)

LeaveHead(h) == head' = h /\ Counted

\* Spacing stops at end of data, or breaks off anywhere.
LocateFails(p) ==
    /\ \E h \in {EndOfData} \cup {StartOf(n) : n \in 0 .. Len(files)} : LeaveHead(h)
    /\ cursor' = Unknown
    /\ UNCHANGED <<files, tail, read>>

\* The head after a whole read begun at h, the blocks read and how it ended.
\* At end of data st returns 0, as at a filemark, and leaves the head there.
WholeRead(h) ==
    IF h.file < Len(files)
    THEN [head |-> StartOf(h.file + 1), n |-> files[h.file + 1] - h.block]
    ELSE [head |-> EndOfData, n |-> tail - h.block]

\* read_file: locate, then every block to the filemark.
ReadFile(p) ==
    /\ Located(p)
    /\ LET h == Destination(TrustedCursor, p)
           r == WholeRead(h)
       IN  /\ read' = [asked |-> p, from |-> h]
           /\ LeaveHead(r.head)
           /\ cursor' = AfterRead(p, r.n, "filemark")
    /\ UNCHANGED <<files, tail>>

\* A drive error, end of medium, or a sink that stopped the read inside the file.
ReadBreaksOff(p) ==
    /\ Located(p)
    /\ LET h == Destination(TrustedCursor, p)
       IN  /\ read' = [asked |-> p, from |-> h]
           /\ \E k \in 0 .. WholeRead(h).n :
                  LeaveHead([file |-> h.file, block |-> h.block + k])
           /\ cursor' = AfterRead(p, 0, "error")
    /\ UNCHANGED <<files, tail>>

\* read_file_head: up to k blocks, without reading on to the filemark.
ReadFileHead(p, k) ==
    /\ Located(p)
    /\ LET h == Destination(TrustedCursor, p)
           r == WholeRead(h)
           stops == k <= r.n
       IN  /\ read' = [asked |-> p, from |-> h]
           /\ LeaveHead(IF stops THEN [file |-> h.file, block |-> h.block + k]
                                 ELSE r.head)
           /\ cursor' = AfterRead(p, r.n, IF stops THEN "stopped" ELSE "filemark")
    /\ UNCHANGED <<files, tail>>

\* Mutant: the cursor counts the filemark before the file, not the file.
RepositionShort(n) ==
    /\ n <= Len(files)
    /\ LeaveHead(StartOf(n))
    /\ cursor' = AtStart(n - 1)
    /\ UNCHANGED <<files, tail, read>>

\* reposition_for_resume, where the tape has that many files.
RepositionForResume(n) ==
    /\ n <= Len(files)
    /\ LeaveHead(StartOf(n))
    /\ cursor' = AtStart(n)
    /\ UNCHANGED <<files, tail, read>>

\* reposition_at_most: file n, or the start of what follows the last whole one.
RepositionAtMost(n) == RepositionForResume(IF n <= Len(files) THEN n ELSE Len(files))

\* blank_at_bot: rewind, and space over one filemark if there is one.
BlankAtBot ==
    /\ LeaveHead(IF files = <<>> THEN EndOfData ELSE StartOf(1))
    /\ cursor' = Unknown
    /\ UNCHANGED <<files, tail, read>>

\* execute: n blocks and a filemark where the head is; what followed is gone.
Execute(n) ==
    /\ head.file < MaxFiles /\ head.block = 0
    /\ files' = Append(SubSeq(files, 1, head.file), n)
    /\ tail' = 0
    /\ LeaveHead(StartOf(head.file + 1))
    /\ cursor' = Unknown
    /\ UNCHANGED read

\* A write that fails leaves the blocks that landed, with no filemark.
ExecuteFails(n) ==
    /\ head.block = 0
    /\ files' = SubSeq(files, 1, head.file)
    /\ tail' = n
    /\ LeaveHead(EndOfData')
    /\ cursor' = Unknown
    /\ UNCHANGED read

\* erase: short leaves a filemark at BOT and the head after it; long, nothing.
Erase(mode) ==
    /\ files' = IF mode = "short" THEN <<0>> ELSE <<>>
    /\ tail' = 0
    /\ LeaveHead(StartOf(Len(files')))
    /\ cursor' = Unknown
    /\ UNCHANGED read

Next ==
    \/ \E p \in Positions : \/ LocateFails(p) \/ ReadFile(p) \/ ReadBreaksOff(p)
                            \/ RepositionForResume(p) \/ RepositionAtMost(p)
                            \/ \E k \in 1 .. MaxBlocks : ReadFileHead(p, k)
    \/ BlankAtBot
    \/ \E n \in 0 .. MaxBlocks : Execute(n) \/ ExecuteFails(n)
    \/ \E mode \in {"short", "long"} : Erase(mode)

Spec == Init /\ [][Next]_vars

-----------------------------------------------------------------------------
TypeOK ==
    /\ files \in Seq(Nat) /\ tail \in Nat
    /\ head \in Spot /\ st \in Spot \cup {Lost}
    /\ cursor \in Cursor
    /\ read \in [asked : Nat, from : Spot]

(***************************************************************************)
(* A read of file n begins at the first block of file n, whatever was      *)
(* read, written, erased or interrupted before it, and however little the  *)
(* tape was moved to get there (TapeStore::locate, trusted_cursor).        *)
(***************************************************************************)
ReadsFileAsked == read.from = StartOf(read.asked)

(***************************************************************************)
(* A cursor that is known says where the head is, without the driver's     *)
(* count being asked, unless the head ran out of a file that has no        *)
(* filemark: the driver answers that as it answers a filemark              *)
(* (FileCursor::after_read, locate).                                       *)
(***************************************************************************)
CursorHonest ==
    cursor.is # "unknown" => \/ AgreesWith(cursor, head)
                             \/ head = EndOfData /\ tail > 0
=============================================================================
