-------------------------- MODULE TapeCursorProofs --------------------------
(***************************************************************************)
(* ReadsFileAsked and CursorHonest, for tapes of any number of files of    *)
(* any length.  Neither is inductive alone: that a read begins at its file *)
(* needs the driver's count to be the head's or lost, and that a motion    *)
(* stays on the tape.                                                      *)
(***************************************************************************)
EXTENDS TapeCursor, SequenceTheorems, TLAPS

OnTape == head.file <= Len(files)

IInv == /\ TypeOK
        /\ st \in {head, Lost}
        /\ OnTape
        /\ ReadsFileAsked
        /\ CursorHonest

-----------------------------------------------------------------------------
\* agrees_with: a cursor at the start of file n agrees with a head there.
LEMMA AtStartAgrees ==
    ASSUME NEW n
    PROVE  AgreesWith(AtStart(n), StartOf(n))
  BY DEF AgreesWith, AtStart

\* trusted_cursor: a cursor the driver's count agrees with is where the head is.
LEMMA TrustedIsTrue ==
    ASSUME IInv, TrustedCursor.is # "unknown"
    PROVE  TrustedCursor = cursor /\ AgreesWith(cursor, head)
<1>1. TrustedCursor = cursor /\ AgreesWith(cursor, st)
  BY DEF TrustedCursor, Unknown
<1>2. st.file = cursor.n
  <2>1. cursor.is \in {"start", "within"}
    BY <1>1 DEF IInv, TypeOK, Cursor
  <2>2. CASE cursor.is = "start"
    <3>1. st = StartOf(cursor.n)
      BY <1>1, <2>2 DEF AgreesWith
    <3> QED
      BY <3>1 DEF StartOf
  <2>3. CASE cursor.is = "within"
    BY <1>1, <2>3 DEF AgreesWith
  <2> QED
    BY <2>1, <2>2, <2>3
<1>3. st = head
  BY <1>2 DEF IInv, TypeOK, Cursor, Lost
<1> QED
  BY <1>1, <1>3

\* locate: whichever motion plan chooses, it ends at the file asked for.
LEMMA DestinationRight ==
    ASSUME IInv, NEW p \in Nat
    PROVE  Destination(TrustedCursor, p) = StartOf(p)
<1>1. CASE TrustedCursor.is = "unknown"
  BY <1>1 DEF Destination
<1>2. CASE TrustedCursor.is = "start"
  <2>1. TrustedCursor = cursor /\ head = StartOf(cursor.n) /\ cursor.n \in Nat
    BY <1>2, TrustedIsTrue DEF AgreesWith, IInv, TypeOK, Cursor
  <2>2. head.file = cursor.n
    BY <2>1 DEF StartOf
  <2> QED
    BY <1>2, <2>1, <2>2 DEF Destination
<1>3. CASE TrustedCursor.is = "within"
  <2>1. TrustedCursor = cursor /\ head.file = cursor.n /\ cursor.n \in Nat
    BY <1>3, TrustedIsTrue DEF AgreesWith, IInv, TypeOK, Cursor
  <2> QED
    BY <1>3, <2>1 DEF Destination
<1>4. TrustedCursor \in Cursor
  BY DEF TrustedCursor, Unknown, Cursor, IInv, TypeOK
<1> QED
  BY <1>1, <1>2, <1>3, <1>4 DEF Cursor

\* Where a whole read begun at the start of file p leaves the head.
LEMMA WholeReadFields ==
    ASSUME IInv, NEW p \in Nat, p <= Len(files)
    PROVE  /\ WholeRead(StartOf(p)).n \in Nat
           /\ p < Len(files) => WholeRead(StartOf(p)).head = StartOf(p + 1)
           /\ p = Len(files) => /\ WholeRead(StartOf(p)).head = EndOfData
                                /\ WholeRead(StartOf(p)).n = tail
<1>1. files \in Seq(Nat) /\ tail \in Nat /\ Len(files) \in Nat
  BY DEF IInv, TypeOK
<1>2. CASE p < Len(files)
  <2>1. files[p + 1] \in Nat
    BY <1>1, <1>2
  <2>2. WholeRead(StartOf(p)) = [head |-> StartOf(p + 1), n |-> files[p + 1] - 0]
    BY <1>2 DEF WholeRead, StartOf
  <2> QED
    BY <1>2, <2>1, <2>2
<1>3. CASE p = Len(files)
  <2>1. WholeRead(StartOf(p)) = [head |-> EndOfData, n |-> tail - 0]
    BY <1>3, <1>1 DEF WholeRead, StartOf
  <2> QED
    BY <1>1, <1>3, <2>1
<1> QED
  BY <1>1, <1>2, <1>3

\* after_read, after a whole read of file p: the cursor is honest.
LEMMA WholeReadHonest ==
    ASSUME IInv, NEW p \in Nat, p <= Len(files), UNCHANGED <<files, tail>>,
           head' = WholeRead(StartOf(p)).head,
           cursor' = AfterRead(p, WholeRead(StartOf(p)).n, "filemark")
    PROVE  /\ head' \in Spot /\ OnTape'
           /\ cursor' \in Cursor
           /\ CursorHonest'
<1>1. files \in Seq(Nat) /\ tail \in Nat /\ Len(files) \in Nat
  BY DEF IInv, TypeOK
<1>2. cursor' = AtStart(p + 1) \/ cursor' = Unknown
  BY DEF AfterRead
<1>3. cursor' \in Cursor
  BY <1>2 DEF AtStart, Unknown, Cursor
<1>4. CASE p < Len(files)
  <2>1. head' = StartOf(p + 1)
    BY <1>4, WholeReadFields
  <2>2. cursor'.is # "unknown" => AgreesWith(cursor', head')
    <3>1. cursor' = AtStart(p + 1) => AgreesWith(cursor', head')
      BY <2>1, AtStartAgrees
    <3> QED
      BY <1>2, <3>1 DEF Unknown
  <2>3. head' \in Spot /\ head'.file = p + 1
    BY <2>1 DEF StartOf, Spot
  <2> QED
    BY <1>1, <1>3, <1>4, <2>2, <2>3 DEF CursorHonest, OnTape
<1>5. CASE p = Len(files)
  <2>1. head' = EndOfData /\ WholeRead(StartOf(p)).n = tail
    BY <1>5, WholeReadFields
  <2>2. head' = EndOfData'
    BY <2>1 DEF EndOfData
  <2>3. tail = 0 => cursor' = Unknown
    BY <2>1 DEF AfterRead
  <2>4. cursor'.is # "unknown" => tail' > 0
    BY <1>1, <2>3 DEF Unknown
  <2> QED
    BY <1>1, <1>3, <2>1, <2>2, <2>4 DEF CursorHonest, OnTape, EndOfData, Spot
<1> QED
  BY <1>1, <1>4, <1>5

-----------------------------------------------------------------------------
\* read_file, to the filemark or to the end of the data.
LEMMA ReadFileInv ==
    ASSUME IInv, NEW p \in Nat, ReadFile(p)
    PROVE  IInv'
<1>1. Destination(TrustedCursor, p) = StartOf(p) /\ StartOf(p) \in Spot
  BY DestinationRight DEF StartOf, Spot
<1>2. p <= Len(files)
  BY <1>1 DEF ReadFile, Located, StartOf
<1>3. /\ head' = WholeRead(StartOf(p)).head
      /\ cursor' = AfterRead(p, WholeRead(StartOf(p)).n, "filemark")
      /\ read' = [asked |-> p, from |-> StartOf(p)]
      /\ st' \in {head', Lost}
      /\ UNCHANGED <<files, tail>>
  BY <1>1 DEF ReadFile, LeaveHead, Counted
<1>4. head' \in Spot /\ OnTape' /\ cursor' \in Cursor /\ CursorHonest'
  BY <1>2, <1>3, WholeReadHonest
<1>5. read'.from = StartOf(read'.asked) /\ read' \in [asked : Nat, from : Spot]
  BY <1>1, <1>3
<1> QED
  BY <1>3, <1>4, <1>5 DEF IInv, TypeOK, ReadsFileAsked

\* A read of file p that breaks off: the cursor is unknown.
LEMMA ReadBreaksOffInv ==
    ASSUME IInv, NEW p \in Nat, ReadBreaksOff(p)
    PROVE  IInv'
<1>1. Destination(TrustedCursor, p) = StartOf(p) /\ StartOf(p) \in Spot
  BY DestinationRight DEF StartOf, Spot
<1>2. p <= Len(files)
  BY <1>1 DEF ReadBreaksOff, Located, StartOf
<1>3. PICK k \in 0 .. WholeRead(StartOf(p)).n :
          LeaveHead([file |-> StartOf(p).file, block |-> StartOf(p).block + k])
  BY <1>1 DEF ReadBreaksOff
<1>4. k \in Nat
  BY <1>2, WholeReadFields
<1>5. head' = [file |-> p, block |-> k] /\ st' \in {head', Lost}
  BY <1>3, <1>4 DEF LeaveHead, Counted, StartOf
<1>6. /\ read' = [asked |-> p, from |-> StartOf(p)]
      /\ cursor' = Unknown
      /\ UNCHANGED <<files, tail>>
  BY <1>1 DEF ReadBreaksOff, AfterRead
<1>7. read'.from = StartOf(read'.asked) /\ read' \in [asked : Nat, from : Spot]
  BY <1>1, <1>6
<1>8. head' \in Spot /\ OnTape' /\ cursor' \in Cursor /\ CursorHonest'
  BY <1>2, <1>4, <1>5, <1>6 DEF Spot, OnTape, Unknown, Cursor, CursorHonest
<1> QED
  BY <1>5, <1>6, <1>7, <1>8 DEF IInv, TypeOK, ReadsFileAsked

\* read_file_head: it stops inside file p, or has read all of it.
LEMMA ReadFileHeadInv ==
    ASSUME IInv, NEW p \in Nat, NEW k \in Nat, ReadFileHead(p, k)
    PROVE  IInv'
<1>1. Destination(TrustedCursor, p) = StartOf(p) /\ StartOf(p) \in Spot
  BY DestinationRight DEF StartOf, Spot
<1>2. p <= Len(files)
  BY <1>1 DEF ReadFileHead, Located, StartOf
<1>3. /\ read' = [asked |-> p, from |-> StartOf(p)]
      /\ st' \in {head', Lost}
      /\ UNCHANGED <<files, tail>>
  BY <1>1 DEF ReadFileHead, LeaveHead, Counted
<1>4. read'.from = StartOf(read'.asked) /\ read' \in [asked : Nat, from : Spot]
  BY <1>1, <1>3
<1>5. head' \in Spot /\ OnTape' /\ cursor' \in Cursor /\ CursorHonest'
  <2>1. CASE k <= WholeRead(StartOf(p)).n
    <3>1. head' = [file |-> p, block |-> k] /\ cursor' = Within(p)
      BY <1>1, <2>1 DEF ReadFileHead, LeaveHead, StartOf, AfterRead
    <3>2. AgreesWith(cursor', head')
      BY <3>1 DEF AgreesWith, Within
    <3> QED
      BY <1>2, <1>3, <3>1, <3>2 DEF Spot, OnTape, Within, Cursor, CursorHonest
  <2>2. CASE ~(k <= WholeRead(StartOf(p)).n)
    <3>1. /\ head' = WholeRead(StartOf(p)).head
          /\ cursor' = AfterRead(p, WholeRead(StartOf(p)).n, "filemark")
      BY <1>1, <2>2 DEF ReadFileHead, LeaveHead
    <3> QED
      BY <1>2, <1>3, <3>1, WholeReadHonest
  <2> QED
    BY <2>1, <2>2
<1> QED
  BY <1>3, <1>4, <1>5 DEF IInv, TypeOK, ReadsFileAsked

\* A motion, write or erase that leaves the cursor unknown reads nothing.
LEMMA UnknownInv ==
    ASSUME IInv, cursor' = Unknown, UNCHANGED read, st' \in {head', Lost},
           files' \in Seq(Nat), tail' \in Nat, head' \in Spot, OnTape'
    PROVE  IInv'
  BY DEF IInv, TypeOK, Unknown, Cursor, CursorHonest, ReadsFileAsked

\* locate failing on its way to a file.
LEMMA LocateFailsInv ==
    ASSUME IInv, NEW p, LocateFails(p)
    PROVE  IInv'
<1>1. files \in Seq(Nat) /\ tail \in Nat /\ Len(files) \in Nat
  BY DEF IInv, TypeOK
<1>2. PICK h \in {EndOfData} \cup {StartOf(n) : n \in 0 .. Len(files)} : LeaveHead(h)
  BY DEF LocateFails
<1>3. h \in Spot /\ h.file <= Len(files)
  BY <1>1 DEF EndOfData, StartOf, Spot
<1>4. head' \in Spot /\ OnTape' /\ st' \in {head', Lost}
  BY <1>2, <1>3 DEF LeaveHead, Counted, OnTape, LocateFails
<1> QED
  BY <1>1, <1>4, UnknownInv DEF LocateFails

\* reposition_for_resume and reposition_at_most: at the start of a file.
LEMMA RepositionInv ==
    ASSUME IInv, NEW n \in Nat, RepositionForResume(n)
    PROVE  IInv'
<1>1. /\ head' = StartOf(n) /\ cursor' = AtStart(n) /\ st' \in {head', Lost}
      /\ n <= Len(files) /\ UNCHANGED <<files, tail, read>>
  BY DEF RepositionForResume, LeaveHead, Counted
<1>2. AgreesWith(cursor', head')
  BY <1>1, AtStartAgrees
<1>3. head' \in Spot /\ OnTape' /\ cursor' \in Cursor
  BY <1>1 DEF StartOf, AtStart, Spot, Cursor, OnTape
<1> QED
  BY <1>1, <1>2, <1>3 DEF IInv, TypeOK, CursorHonest, ReadsFileAsked

\* blank_at_bot.
LEMMA BlankAtBotInv ==
    ASSUME IInv, BlankAtBot
    PROVE  IInv'
<1>1. files \in Seq(Nat) /\ tail \in Nat /\ Len(files) \in Nat
  BY DEF IInv, TypeOK
<1>2. files = <<>> \/ Len(files) >= 1
  BY <1>1
<1>3. head' \in Spot /\ OnTape' /\ st' \in {head', Lost}
  BY <1>1, <1>2 DEF BlankAtBot, LeaveHead, Counted, OnTape, Spot, EndOfData, StartOf
<1> QED
  BY <1>1, <1>3, UnknownInv DEF BlankAtBot

\* execute, whole or failing: what was before the head stays.
LEMMA ExecuteInv ==
    ASSUME IInv, NEW n \in Nat, Execute(n) \/ ExecuteFails(n)
    PROVE  IInv'
<1> DEFINE kept == SubSeq(files, 1, head.file)
<1>1. head.file \in Nat /\ head.file <= Len(files) /\ files \in Seq(Nat)
  BY DEF IInv, TypeOK, Spot, OnTape
<1>2. kept \in Seq(Nat) /\ Len(kept) = head.file
  <2>1. 1 \in 1 .. Len(files) + 1 /\ head.file \in 1 - 1 .. Len(files)
    BY <1>1
  <2> QED
    BY <1>1, <2>1, SubSeqProperties
<1> HIDE DEF kept
<1>3. CASE Execute(n)
  <2>1. files' = Append(kept, n) /\ tail' = 0 /\ head' = StartOf(head.file + 1)
    BY <1>3 DEF Execute, LeaveHead, kept
  <2>2. files' \in Seq(Nat) /\ Len(files') = head.file + 1
    BY <1>2, <2>1
  <2>3. head' \in Spot /\ OnTape' /\ st' \in {head', Lost}
    BY <1>1, <1>3, <2>1, <2>2 DEF Execute, LeaveHead, Counted, StartOf, Spot, OnTape
  <2> QED
    BY <1>3, <2>1, <2>2, <2>3, UnknownInv DEF Execute
<1>4. CASE ExecuteFails(n)
  <2>1. files' = kept /\ tail' = n /\ head' = EndOfData'
    BY <1>4 DEF ExecuteFails, LeaveHead, kept
  <2>2. head' \in Spot /\ OnTape' /\ st' \in {head', Lost}
    BY <1>1, <1>2, <1>4, <2>1 DEF ExecuteFails, LeaveHead, Counted, EndOfData, Spot, OnTape
  <2> QED
    BY <1>2, <1>4, <2>1, <2>2, UnknownInv DEF ExecuteFails
<1> QED
  BY <1>3, <1>4

\* erase, short or long.
LEMMA EraseInv ==
    ASSUME IInv, NEW mode, Erase(mode)
    PROVE  IInv'
<1>1. files' \in Seq(Nat) /\ Len(files') \in Nat /\ tail' = 0
  BY DEF Erase
<1>2. head' \in Spot /\ OnTape' /\ st' \in {head', Lost}
  BY <1>1 DEF Erase, LeaveHead, Counted, StartOf, Spot, OnTape
<1> QED
  BY <1>1, <1>2, UnknownInv DEF Erase

-----------------------------------------------------------------------------
(***************************************************************************)
(* The invariant behind both properties: the store's cursor and the        *)
(* driver's count against the head, whatever the store is asked to do.     *)
(***************************************************************************)
THEOREM CursorInvariant == Spec => []IInv
<1>1. Init => IInv
  <2> SUFFICES ASSUME Init PROVE IInv
    OBVIOUS
  <2>1. PICK n \in 0 .. MaxFiles : files \in [1 .. n -> 0 .. MaxBlocks]
    BY DEF Init
  <2>2. files \in Seq(Nat) /\ Len(files) \in Nat
    BY <2>1, MaxFilesAssumption, MaxBlocksAssumption
  <2>3. AgreesWith(cursor, head)
    BY AtStartAgrees DEF Init
  <2> QED
    BY <2>2, <2>3, MaxBlocksAssumption
    DEF Init, IInv, TypeOK, OnTape, ReadsFileAsked, CursorHonest, StartOf, AtStart,
        Spot, Cursor
<1>2. IInv /\ [Next]_vars => IInv'
  <2> SUFFICES ASSUME IInv, [Next]_vars PROVE IInv'
    OBVIOUS
  <2>1. ASSUME NEW p \in Positions, LocateFails(p) PROVE IInv'
    BY <2>1, LocateFailsInv
  <2>2. ASSUME NEW p \in Positions, ReadFile(p) PROVE IInv'
    BY <2>2, ReadFileInv, MaxFilesAssumption DEF Positions
  <2>3. ASSUME NEW p \in Positions, ReadBreaksOff(p) PROVE IInv'
    BY <2>3, ReadBreaksOffInv, MaxFilesAssumption DEF Positions
  <2>4. ASSUME NEW p \in Positions, RepositionForResume(p) PROVE IInv'
    BY <2>4, RepositionInv, MaxFilesAssumption DEF Positions
  <2>5. ASSUME NEW p \in Positions, RepositionAtMost(p) PROVE IInv'
    <3>1. p \in Nat /\ Len(files) \in Nat
      BY MaxFilesAssumption DEF Positions, IInv, TypeOK
    <3> QED
      BY <2>5, <3>1, RepositionInv DEF RepositionAtMost
  <2>6. ASSUME NEW p \in Positions, NEW k \in 1 .. MaxBlocks, ReadFileHead(p, k)
        PROVE IInv'
    <3>1. p \in Nat /\ k \in Nat
      BY MaxFilesAssumption, MaxBlocksAssumption DEF Positions
    <3> QED
      BY <2>6, <3>1, ReadFileHeadInv
  <2>7. CASE BlankAtBot
    BY <2>7, BlankAtBotInv
  <2>8. ASSUME NEW n \in 0 .. MaxBlocks, Execute(n) \/ ExecuteFails(n) PROVE IInv'
    BY <2>8, ExecuteInv, MaxBlocksAssumption
  <2>9. ASSUME NEW mode \in {"short", "long"}, Erase(mode) PROVE IInv'
    BY <2>9, EraseInv
  <2>10. CASE UNCHANGED vars
    BY <2>10 DEF vars, IInv, TypeOK, OnTape, ReadsFileAsked, CursorHonest, EndOfData
  <2> QED
    BY <2>1, <2>2, <2>3, <2>4, <2>5, <2>6, <2>7, <2>8, <2>9, <2>10 DEF Next
<1> QED
  BY <1>1, <1>2, PTL DEF Spec

(***************************************************************************)
(* A read of file n begins at the first block of file n, on a tape of any  *)
(* number of files of any length (TapeStore::locate).                      *)
(***************************************************************************)
THEOREM ReadsAreRight == Spec => []ReadsFileAsked
<1>1. IInv => ReadsFileAsked
  BY DEF IInv
<1> QED
  BY <1>1, CursorInvariant, PTL

(***************************************************************************)
(* A known cursor says where the head is, but for a head that ran out of a *)
(* file without a filemark (FileCursor::after_read).                       *)
(***************************************************************************)
THEOREM CursorIsHonest == Spec => []CursorHonest
<1>1. IInv => CursorHonest
  BY DEF IInv
<1> QED
  BY <1>1, CursorInvariant, PTL
=============================================================================
