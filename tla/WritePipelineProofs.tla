------------------------ MODULE WritePipelineProofs ------------------------
(***************************************************************************)
(* The safety properties of WritePipeline for files of any length, blocks  *)
(* of any size, and a pool of any size.  They rest on one inductive        *)
(* invariant in five parts: what the pool counts (PoolSide), and what each *)
(* of the three threads has done with the file (ReadSide, HashSide,        *)
(* StoreSide), each related to the thread before it, and what the file     *)
(* came to (VerdictSide).                                                  *)
(***************************************************************************)
EXTENDS WritePipeline, SequenceTheorems, TLAPS

-----------------------------------------------------------------------------
\* Blocks of s end at m or before it.
Inside(s, m) == \A i \in DOMAIN s : s[i].from + s[i].n <= m

\* A block queued behind others that lead up to it.
LEMMA LinkedAppend ==
    ASSUME NEW s \in Seq(Block), NEW a \in Nat, Linked(s, a),
           NEW b \in Block, b.n > 0, b.from = EndOf(s, a)
    PROVE  /\ Append(s, b) \in Seq(Block)
           /\ Linked(Append(s, b), a)
           /\ EndOf(Append(s, b), a) = b.from + b.n
<1> DEFINE t == Append(s, b)
<1>1. t \in Seq(Block) /\ Len(t) = Len(s) + 1 /\ Len(s) \in Nat
  OBVIOUS
<1>2. \A i \in 1 .. Len(s) : t[i] = s[i]
  OBVIOUS
<1>3. t[Len(s) + 1] = b /\ t # <<>>
  OBVIOUS
<1> HIDE DEF t
<1>4. ASSUME NEW i \in DOMAIN t
      PROVE  t[i].n > 0 /\ t[i].from = IF i = 1 THEN a ELSE t[i - 1].from + t[i - 1].n
  <2>1. i \in 1 .. Len(s) + 1
    BY <1>1
  <2>2. CASE i \in 1 .. Len(s)
    <3>1. i \in DOMAIN s /\ t[i] = s[i] /\ (i # 1 => t[i - 1] = s[i - 1])
      BY <1>2, <2>2
    <3> QED
      BY <3>1 DEF Linked
  <2>3. CASE i = Len(s) + 1
    <3>1. t[i] = b
      BY <1>3, <2>3
    <3>2. CASE s = <<>>
      BY <1>1, <2>3, <3>1, <3>2 DEF EndOf
    <3>3. CASE s # <<>>
      <4>1. Len(s) \in 1 .. Len(s) /\ i # 1 /\ i - 1 = Len(s)
        BY <1>1, <2>3, <3>3
      <4>2. t[i - 1] = s[Len(s)]
        BY <1>2, <4>1
      <4> QED
        BY <3>1, <3>3, <4>1, <4>2 DEF EndOf
    <3> QED
      BY <3>2, <3>3
  <2> QED
    BY <2>1, <2>2, <2>3
<1>5. EndOf(t, a) = b.from + b.n
  BY <1>1, <1>3 DEF EndOf
<1> QED
  BY <1>1, <1>4, <1>5 DEF Linked, t

\* The first of the queued blocks taken away.
LEMMA LinkedTail ==
    ASSUME NEW s \in Seq(Block), NEW a \in Nat, Linked(s, a), s # <<>>
    PROVE  /\ Head(s) \in Block /\ Head(s).from = a /\ Head(s).n > 0
           /\ Tail(s) \in Seq(Block)
           /\ Linked(Tail(s), a + Head(s).n)
           /\ EndOf(Tail(s), a + Head(s).n) = EndOf(s, a)
<1>1. Len(s) \in Nat /\ Len(s) >= 1 /\ 1 \in DOMAIN s /\ Head(s) = s[1] /\ s[1] \in Block
  OBVIOUS
<1>2. s[1].from = a /\ s[1].n > 0 /\ s[1].n \in Nat
  BY <1>1 DEF Linked, Block
<1> DEFINE t == Tail(s)
<1>3. t \in Seq(Block) /\ Len(t) = Len(s) - 1 /\ \A i \in 1 .. Len(t) : t[i] = s[i + 1]
  BY <1>1
<1> HIDE DEF t
<1>4. ASSUME NEW i \in DOMAIN t
      PROVE  /\ t[i].n > 0
             /\ t[i].from = IF i = 1 THEN a + s[1].n ELSE t[i - 1].from + t[i - 1].n
  <2>1. i \in 1 .. Len(t) /\ i + 1 \in DOMAIN s /\ i + 1 # 1 /\ (i + 1) - 1 = i
    BY <1>1, <1>3
  <2>2. s[i + 1].n > 0 /\ s[i + 1].from = s[i].from + s[i].n
    BY <2>1 DEF Linked
  <2>3. CASE i = 1
    BY <1>2, <1>3, <2>1, <2>2, <2>3
  <2>4. CASE i # 1
    <3>1. i - 1 \in 1 .. Len(t) /\ (i - 1) + 1 = i
      BY <2>1, <2>4
    <3> QED
      BY <1>3, <2>1, <2>2, <2>4, <3>1
  <2> QED
    BY <2>3, <2>4
<1>5. EndOf(t, a + s[1].n) = EndOf(s, a)
  <2>1. CASE Len(s) = 1
    <3>1. t = <<>>
      BY <1>3, <2>1
    <3> QED
      BY <1>1, <1>2, <2>1, <3>1 DEF EndOf
  <2>2. CASE Len(s) # 1
    <3>1. t # <<>> /\ Len(t) \in 1 .. Len(t) /\ Len(t) + 1 = Len(s)
      BY <1>1, <1>3, <2>2
    <3>2. t[Len(t)] = s[Len(s)]
      BY <1>3, <3>1
    <3> QED
      BY <3>1, <3>2 DEF EndOf
  <2> QED
    BY <2>1, <2>2
<1> QED
  BY <1>1, <1>2, <1>3, <1>4, <1>5 DEF Linked, t

\* Inside, for a queue with a block more or a block less.
LEMMA InsideQueue ==
    ASSUME NEW s \in Seq(Block), NEW m \in Int, Inside(s, m)
    PROVE  /\ \A b \in Block : b.from + b.n <= m => Inside(Append(s, b), m)
           /\ s # <<>> => Inside(Tail(s), m) /\ Head(s).from + Head(s).n <= m
           /\ \A k \in Int : k >= m => Inside(s, k)
<1>1. ASSUME NEW b \in Block, b.from + b.n <= m
      PROVE  Inside(Append(s, b), m)
  BY <1>1 DEF Inside
<1>2. ASSUME s # <<>>
      PROVE  Inside(Tail(s), m) /\ Head(s).from + Head(s).n <= m
  <2>1. Len(s) \in Nat /\ Len(s) >= 1 /\ Head(s) = s[1] /\ 1 \in DOMAIN s
    BY <1>2
  <2>2. ASSUME NEW i \in DOMAIN Tail(s)
        PROVE  Tail(s)[i].from + Tail(s)[i].n <= m
    <3>1. Tail(s)[i] = s[i + 1] /\ i + 1 \in DOMAIN s
      BY <1>2, <2>1
    <3> QED
      BY <3>1 DEF Inside
  <2> QED
    BY <2>1, <2>2 DEF Inside
<1>3. ASSUME NEW k \in Int, k >= m PROVE Inside(s, k)
  <2>1. ASSUME NEW i \in DOMAIN s PROVE s[i].from + s[i].n <= k
    <3>1. s[i] \in Block /\ s[i].from + s[i].n <= m
      BY DEF Inside
    <3> QED
      BY <1>3, <3>1 DEF Block
  <2> QED
    BY <2>1 DEF Inside
<1> QED
  BY <1>1, <1>2, <1>3

-----------------------------------------------------------------------------
\* The pool's count, and where no buffer is.
PoolSide ==
    /\ MemoryBound
    /\ PoolCounted
    /\ writer \in {"idle", "join"} => hashQ = Empty /\ current = NoBlock
    /\ hasher = "done" => readQ = Empty
    /\ writer = "idle" => producer = "done" /\ hasher = "done"
    /\ current # NoBlock => current.n > 0

\* The reader: what it sent is what the file delivers, and it closes in time.
ReadSide ==
    /\ at <= src.stop
    /\ producer \in {"take", "grow", "fill"} => at < src.len
    /\ producer \in {"end", "fail"} => at = src.stop
    /\ src.len = 0 => producer \in {"end", "done"} /\ readQ.last \in {"open", "end"}
    /\ readQ.last \in {"open", "end", "fail"}
    /\ readQ.last # "open" => at = src.stop
    /\ hasher # "done" =>
           /\ Linked(readQ.data, hashed)
           /\ EndOf(readQ.data, hashed) = at
           /\ Inside(readQ.data, src.stop)
           /\ (producer = "done" /\ (PipeOpen \/ src.len = 0)) => readQ.last # "open"

\* The hasher: how far it is, what it knows of the hash and what it has said.
HashSide ==
    /\ hashed <= src.stop
    /\ hasher = "recv" => sha = "none"
    /\ hasher = "end" => sha = "match"
    /\ sha = "none" => hashed < src.len \/ src.len = 0
    /\ sha # "none" => hashed = src.len
    /\ sha = "match" => src.good
    /\ sha = "differs" => ~src.good
    /\ (hasher = "done" /\ src.len = 0 /\ writer # "idle") => sha # "none"
    /\ (hasher = "done" /\ PipeOpen) => hashQ.last # "open"
    /\ hashQ.last # "open" => hasher = "done"
    /\ hashQ.last \in {"end", "fail"} => hashed = src.stop
    /\ (hashQ.last \in {"end", "fail"} /\ sha = "differs") => src.len = 0
    /\ hashQ.last = "withheld" => sha = "differs"

\* The store: it has what was hashed, and never the end of a file that differs.
StoreSide ==
    /\ StreamInOrder
    /\ writer = "execute" => Inside(hashQ.data, hashed)
    /\ (writer = "execute" /\ ~src.good /\ src.len > 0)
           => Inside(hashQ.data, src.len - 1)
    /\ taken + current.n <= hashed
    /\ MismatchNeverMarked
    /\ store = "ok" => taken = src.len
    /\ (store = "source" /\ ~withheld) => src.stop < src.len
    /\ withheld => sha = "differs"
    /\ writer = "execute" => store = "none" /\ ~withheld
    /\ writer \in {"drop", "join"} => store # "none"

VerdictSide ==
    /\ VerdictJustified
    /\ writer # "idle" => verdict = "none"

IInv == TypeOK /\ PoolSide /\ ReadSide /\ HashSide /\ StoreSide /\ VerdictSide

-----------------------------------------------------------------------------
\* A channel with a block more, a block less, or its closing message.
LEMMA ChannelFields ==
    ASSUME NEW ch \in Channel
    PROVE  /\ ch.data \in Seq(Block)
           /\ \A b : Send(ch, b).data = Append(ch.data, b) /\ Send(ch, b).last = ch.last
           /\ Shift(ch).data = Tail(ch.data) /\ Shift(ch).last = ch.last
           /\ \A how : Close(ch, how).data = ch.data /\ Close(ch, how).last = how
           /\ \A b \in Block : Send(ch, b) \in Channel
           /\ ch.data # <<>> => Shift(ch) \in Channel
           /\ \A how \in {"open", "end", "fail", "withheld"} : Close(ch, how) \in Channel
<1>1. ch.data \in Seq(Block) /\ ch.last \in {"open", "end", "fail", "withheld"}
  BY DEF Channel
<1>0. \A d : [ch EXCEPT !.data = d] = [data |-> d, last |-> ch.last]
  BY DEF Channel
<1>2. \A b : Send(ch, b) = [data |-> Append(ch.data, b), last |-> ch.last]
  BY <1>0 DEF Send
<1>3. Shift(ch) = [data |-> Tail(ch.data), last |-> ch.last]
  BY <1>0, Zenon DEF Shift
<1>4. \A how : Close(ch, how) = [data |-> ch.data, last |-> how]
  BY DEF Channel, Close
<1>5. \A b \in Block : Append(ch.data, b) \in Seq(Block)
  BY <1>1
<1>6. ch.data # <<>> => Tail(ch.data) \in Seq(Block)
  BY <1>1
<1>7. \A b \in Block : Send(ch, b) \in Channel
  BY <1>1, <1>2, <1>5 DEF Channel
<1>8. ch.data # <<>> => Shift(ch) \in Channel
  BY <1>1, <1>3, <1>6 DEF Channel
<1>9. \A how \in {"open", "end", "fail", "withheld"} : Close(ch, how) \in Channel
  BY <1>1, <1>4 DEF Channel
<1> QED
  BY <1>1, <1>2, <1>3, <1>4, <1>7, <1>8, <1>9

\* An empty channel, no block, and the sources.
LEMMA Basics ==
    /\ Empty \in Channel /\ Empty.data = <<>> /\ Empty.last = "open" /\ Len(Empty.data) = 0
    /\ NoBlock \in Block /\ NoBlock.n = 0 /\ NoBlock.from = 0
    /\ \A s \in Sources : /\ s.len \in Nat /\ s.stop \in Nat /\ s.stop <= s.len
                          /\ s.fate \in {"end", "fail"} /\ s.good \in BOOLEAN
  BY MaxLenAssumption DEF Empty, Channel, NoBlock, Block, Sources

\* Steps that leave a thread's part of the invariant alone.
LEMMA HashSame ==
    ASSUME HashSide, UNCHANGED <<hashVars, writer, src>>
    PROVE  HashSide'
  BY DEF HashSide, hashVars, PipeOpen

\* The store's part needs what the hasher is sent to stay in order.
LEMMA StoreSame ==
    ASSUME StoreSide, UNCHANGED <<storeVars, hashed, sha, hashQ, src>>,
           writer = "execute" =>
               (hasher' # "done" =>
                   Linked(readQ'.data, hashed') /\ EndOf(readQ'.data, hashed') = at')
    PROVE  StoreSide'
  BY DEF StoreSide, StreamInOrder, MismatchNeverMarked, storeVars

\* A step that judges nothing.
LEMMA VerdictSame ==
    ASSUME VerdictSide, UNCHANGED <<writer, verdict, store, taken, src>>
    PROVE  VerdictSide'
  BY DEF VerdictSide, VerdictJustified

-----------------------------------------------------------------------------
\* What the actions' proofs use of the types.
LEMMA Facts ==
    ASSUME TypeOK
    PROVE  /\ Len(readQ.data) \in Nat /\ Len(hashQ.data) \in Nat
           /\ readQ.data \in Seq(Block) /\ hashQ.data \in Seq(Block)
           /\ current.n \in Nat /\ current.from \in Nat
           /\ src.len \in Nat /\ src.stop \in Nat /\ src.stop <= src.len
           /\ src.fate \in {"end", "fail"} /\ src.good \in BOOLEAN
           /\ Len(readQ.data) = 0 => readQ.data = <<>>
<1>1. readQ.data \in Seq(Block) /\ hashQ.data \in Seq(Block)
  BY DEF TypeOK, Channel
<1>2. current.n \in Nat /\ current.from \in Nat
  BY DEF TypeOK, Block
<1>3. /\ src.len \in Nat /\ src.stop \in Nat /\ src.stop <= src.len
      /\ src.fate \in {"end", "fail"} /\ src.good \in BOOLEAN
  BY Basics DEF TypeOK
<1> QED
  BY <1>1, <1>2, <1>3

\* Buffers by where they are.
Filling == IF producer = "fill" THEN 1 ELSE 0
ReadLen == Len(readQ.data)
HashLen == Len(hashQ.data)
Holding == IF current = NoBlock THEN 0 ELSE 1

\* The buffers Live counts, by where they are.
LEMMA LiveSum ==
    ASSUME TypeOK
    PROVE  /\ Filling \in Nat /\ ReadLen \in Nat /\ HashLen \in Nat /\ Holding \in Nat
           /\ Live = free + returned + Filling + ReadLen + HashLen + Holding
<1>1. Holding \in Nat /\ Filling \in Nat
  BY DEF Holding, Filling
<1>2. Live = free + returned + Filling + ReadLen + HashLen + Holding
  BY Zenon DEF Live, Filling, ReadLen, HashLen, Holding
<1>3. ReadLen \in Nat /\ HashLen \in Nat
  BY Facts DEF ReadLen, HashLen
<1> QED
  BY <1>1, <1>2, <1>3

\* The same after a step.
LEMMA LiveSumPrimed ==
    ASSUME TypeOK'
    PROVE  (/\ Filling \in Nat /\ ReadLen \in Nat /\ HashLen \in Nat /\ Holding \in Nat
            /\ Live = free + returned + Filling + ReadLen + HashLen + Holding)'
  BY LiveSum, PTL

\* Blocks in a channel with a block more or a block less.
LEMMA ChannelLens ==
    ASSUME NEW ch \in Channel
    PROVE  /\ Len(ch.data) \in Nat
           /\ \A b \in Block : Len(Send(ch, b).data) = Len(ch.data) + 1
           /\ ch.data # <<>> => Len(Shift(ch).data) = Len(ch.data) - 1 /\ Len(ch.data) > 0
           /\ \A how : Len(Close(ch, how).data) = Len(ch.data)
<1>1. ch.data \in Seq(Block)
  BY ChannelFields
<1>2. \A b \in Block : Len(Append(ch.data, b)) = Len(ch.data) + 1
  BY <1>1
<1>3. ch.data # <<>> => Len(Tail(ch.data)) = Len(ch.data) - 1 /\ Len(ch.data) > 0
  BY <1>1
<1>4. Len(ch.data) \in Nat
  BY <1>1
<1>5. ASSUME NEW b \in Block PROVE Len(Send(ch, b).data) = Len(ch.data) + 1
  <2>1. Send(ch, b).data = Append(ch.data, b)
    BY ChannelFields
  <2> QED
    BY <1>2, <2>1, Zenon
<1>6. Shift(ch).data = Tail(ch.data) /\ \A how : Close(ch, how).data = ch.data
  BY ChannelFields
<1> QED
  BY <1>3, <1>4, <1>5, <1>6, Zenon

\* read_stage takes a buffer: of the pool, or one handed back.
LEMMA ReadTakeKeeps ==
    ASSUME IInv, ReadTake
    PROVE  IInv'
<1> USE DEF IInv
<1>1. TypeOK'
  BY DEF TypeOK, ReadTake, Take, readVars, hashVars, storeVars, fileVars
<1>2. PoolSide'
  <2>1. UNCHANGED <<readQ, hashQ, current, writer, hasher>>
    BY DEF ReadTake, readVars, hashVars, storeVars
  <2>2. UNCHANGED <<ReadLen, HashLen, Holding>>
    BY <2>1 DEF ReadLen, HashLen, Holding
  <2>3. MemoryBound'
    BY <1>1, <2>2, LiveSum, LiveSumPrimed
       DEF TypeOK, PoolSide, MemoryBound, Filling, ReadTake, Take
  <2> QED
    BY <2>1, <2>3 DEF PoolSide, PoolCounted, ReadTake, Take
<1>3. ReadSide'
  BY Facts DEF TypeOK, ReadSide, PipeOpen,
               ReadTake, Take, readVars, hashVars, storeVars, fileVars
<1>4. HashSide' /\ StoreSide' /\ VerdictSide'
  BY HashSame, StoreSame, VerdictSame
     DEF StoreSide, StreamInOrder, ReadTake, readVars, hashVars, storeVars, fileVars
<1> QED
  BY <1>1, <1>2, <1>3, <1>4

\* read_stage allocates a buffer, or waits for one.
LEMMA ReadGrowKeeps ==
    ASSUME IInv, ReadGrow
    PROVE  IInv'
<1> USE DEF IInv
<1>1. TypeOK'
  BY DEF TypeOK, ReadGrow, Grow, readVars, hashVars, storeVars, fileVars
<1>2. PoolSide'
  <2>1. UNCHANGED <<readQ, hashQ, current, writer, hasher>>
    BY DEF ReadGrow, readVars, hashVars, storeVars
  <2>2. UNCHANGED <<ReadLen, HashLen, Holding>>
    BY <2>1 DEF ReadLen, HashLen, Holding
  <2>3. MemoryBound'
    BY <1>1, <2>2, LiveSum, LiveSumPrimed, MaxBuffersAssumption
       DEF TypeOK, PoolSide, MemoryBound, Filling, ReadGrow, Grow
  <2> QED
    BY <2>1, <2>3 DEF PoolSide, PoolCounted, ReadGrow, Grow
<1>3. ReadSide'
  BY Facts DEF TypeOK, ReadSide, PipeOpen,
               ReadGrow, Grow, readVars, hashVars, storeVars, fileVars
<1>4. HashSide' /\ StoreSide' /\ VerdictSide'
  BY HashSame, StoreSame, VerdictSame
     DEF StoreSide, StreamInOrder, ReadGrow, readVars, hashVars, storeVars, fileVars
<1> QED
  BY <1>1, <1>2, <1>3, <1>4

\* read_stage finds the file at its end, or failing, on a block boundary.
LEMMA ReadNothingKeeps ==
    ASSUME IInv, ReadNothing
    PROVE  IInv'
<1> USE DEF IInv
<1>1. TypeOK'
  BY Facts DEF TypeOK, ReadNothing, readVars, hashVars, storeVars, fileVars
<1>2. PoolSide'
  <2>1. UNCHANGED <<readQ, hashQ, current, writer, hasher>>
    BY DEF ReadNothing, readVars, hashVars, storeVars
  <2>2. UNCHANGED <<ReadLen, HashLen, Holding>>
    BY <2>1 DEF ReadLen, HashLen, Holding
  <2>3. /\ Filling = 1 /\ Filling' = 0 /\ free' \in {free, free + 1}
        /\ UNCHANGED <<allocated, returned>>
    BY Facts DEF ReadNothing, Filling
  <2>4. MemoryBound'
    BY <1>1, <2>2, <2>3, LiveSum, LiveSumPrimed DEF TypeOK, PoolSide, MemoryBound
  <2> QED
    BY <2>1, <2>4 DEF PoolSide, PoolCounted, ReadNothing
<1>3. ReadSide'
  BY Facts DEF TypeOK, ReadSide, PipeOpen,
               ReadNothing, readVars, hashVars, storeVars, fileVars
<1>4. HashSide' /\ StoreSide' /\ VerdictSide'
  BY HashSame, StoreSame, VerdictSame
     DEF StoreSide, StreamInOrder, ReadNothing, readVars, hashVars, storeVars, fileVars
<1> QED
  BY <1>1, <1>2, <1>3, <1>4

\* A block read: it begins where the last one ended, and is not empty.
LEMMA BlockRead ==
    ASSUME IInv, ReadBlock, NEW want, NEW got,
           want = Least(src.len - at, Chunk), got = Least(want, src.stop - at)
    PROVE  /\ got \in Nat /\ got > 0 /\ at + got <= src.stop
           /\ [from |-> at, n |-> got] \in Block
           /\ got < want => at + got = src.stop
           /\ (~(got < want) /\ ~(at + got < src.len)) => at + got = src.stop
<1>1. at \in Nat /\ at < src.stop /\ src.stop \in Nat /\ src.len \in Nat /\ src.stop <= src.len
  BY Facts DEF IInv, TypeOK, ReadBlock
<1>2. Chunk \in Nat /\ Chunk > 0
  BY ChunkAssumption
<1>3. got \in Nat /\ got > 0 /\ at + got <= src.stop
      /\ (got < want => at + got = src.stop)
      /\ ((~(got < want) /\ ~(at + got < src.len)) => at + got = src.stop)
  BY <1>1, <1>2 DEF Least
<1> QED
  BY <1>1, <1>3 DEF Block

\* read_stage sends a block on, or finds the hasher gone.
LEMMA ReadBlockKeeps ==
    ASSUME IInv, ReadBlock
    PROVE  IInv'
<1> USE DEF IInv
<1> DEFINE want == Least(src.len - at, Chunk)
           got == Least(want, src.stop - at)
           b == [from |-> at, n |-> got]
<1>1. /\ got \in Nat /\ got > 0 /\ at + got <= src.stop /\ b \in Block
      /\ got < want => at + got = src.stop
      /\ (~(got < want) /\ ~(at + got < src.len)) => at + got = src.stop
  BY BlockRead
<1>2. /\ producer = "fill" /\ at < src.stop /\ writer # "idle"
      /\ UNCHANGED <<allocated, free, returned, hashVars, storeVars, fileVars>>
  BY DEF ReadBlock, PoolSide
<1>3. hasher = "done" => producer' = "done" /\ UNCHANGED readVars
  BY DEF ReadBlock
<1>4. hasher # "done" =>
          /\ at' = at + got /\ readQ' = Send(readQ, b)
          /\ producer' = IF got < want THEN src.fate
                         ELSE IF at + got < src.len THEN "take" ELSE "end"
  BY DEF ReadBlock
<1>5. b.from = at /\ b.n = got
  OBVIOUS
<1> HIDE DEF want, got, b
<1>6. readQ \in Channel /\ at \in Nat /\ hashed \in Nat
  BY DEF TypeOK
<1>7. TypeOK'
  BY <1>1, <1>2, <1>3, <1>4, <1>6, Facts, ChannelFields
     DEF TypeOK, readVars, hashVars, storeVars, fileVars
<1>8. PoolSide'
  <2>1. UNCHANGED <<hashQ, current, writer, hasher, allocated, free, returned>>
    BY <1>2 DEF hashVars, storeVars
  <2>2. UNCHANGED <<HashLen, Holding>> /\ Filling = 1 /\ Filling' = 0
    BY <1>2, <1>3, <1>4, <2>1, Facts DEF HashLen, Holding, Filling
  <2>3. ReadLen' = ReadLen \/ ReadLen' = ReadLen + 1
    BY <1>1, <1>3, <1>4, <1>6, ChannelLens DEF ReadLen, readVars
  <2>4. MemoryBound'
    BY <1>7, <2>1, <2>2, <2>3, LiveSum, LiveSumPrimed DEF TypeOK, PoolSide, MemoryBound
  <2> QED
    BY <1>2, <1>3, <2>1, <2>4 DEF PoolSide, PoolCounted, readVars
<1>9. ReadSide'
  <2>1. UNCHANGED <<src, hasher, hashed, writer>>
    BY <1>2 DEF hashVars, storeVars, fileVars
  <2>2. CASE hasher = "done"
    BY <1>2, <1>3, <1>6, <2>1, <2>2, Facts DEF ReadSide, readVars
  <2>3. CASE hasher # "done"
    <3>1. /\ readQ.data \in Seq(Block) /\ Linked(readQ.data, hashed)
          /\ EndOf(readQ.data, hashed) = at /\ Inside(readQ.data, src.stop)
          /\ readQ.last = "open" /\ src.len # 0
      BY <1>2, <1>6, <2>3, Facts DEF ReadSide
    <3>2. readQ'.data = Append(readQ.data, b) /\ readQ'.last = "open"
      BY <1>4, <1>6, <2>3, <3>1, ChannelFields
    <3>3. /\ Linked(readQ'.data, hashed) /\ EndOf(readQ'.data, hashed) = at + got
      BY <1>1, <1>5, <1>6, <3>1, <3>2, LinkedAppend
    <3>4. Inside(readQ'.data, src.stop)
      BY <1>1, <1>5, <1>6, <3>1, <3>2, InsideQueue, Facts
    <3>5. at' = at + got /\ at' <= src.stop
      BY <1>1, <1>4, <2>3
    <3>6. /\ producer' \in {"take", "end", "fail"}
          /\ producer' = "take" => at' < src.len
          /\ producer' # "take" => at' = src.stop
      BY <1>1, <1>4, <2>3, Facts
    <3> QED
      BY <2>1, <3>1, <3>2, <3>3, <3>4, <3>5, <3>6 DEF ReadSide
  <2> QED
    BY <2>2, <2>3
<1>10. HashSide' /\ VerdictSide'
  BY <1>2, HashSame, VerdictSame DEF hashVars, storeVars, fileVars
<1>11. StoreSide'
  BY <1>2, <1>9, StoreSame DEF ReadSide, hashVars, storeVars, fileVars
<1> QED
  BY <1>7, <1>8, <1>9, <1>10, <1>11

\* read_stage's End or Fail.
LEMMA ReadCloseKeeps ==
    ASSUME IInv, ReadClose
    PROVE  IInv'
<1> USE DEF IInv
<1>1. /\ producer \in {"end", "fail"} /\ producer' = "done" /\ writer # "idle" /\ at = src.stop
      /\ readQ' = IF hasher = "done" THEN readQ ELSE Close(readQ, producer)
      /\ UNCHANGED <<allocated, free, returned, at, hashVars, storeVars, fileVars>>
  BY DEF ReadClose, PoolSide, ReadSide
<1>2. readQ \in Channel /\ readQ'.data = readQ.data
      /\ readQ'.last = IF hasher = "done" THEN readQ.last ELSE producer
  BY <1>1, ChannelFields DEF TypeOK
<1>3. TypeOK'
  BY <1>1, <1>2, ChannelFields DEF TypeOK, hashVars, storeVars, fileVars
<1>4. PoolSide'
  <2>1. UNCHANGED <<hashQ, current, writer, hasher, allocated, free, returned>>
    BY <1>1 DEF hashVars, storeVars
  <2>2. UNCHANGED <<ReadLen, HashLen, Holding, Filling>>
    BY <1>1, <1>2, <2>1 DEF ReadLen, HashLen, Holding, Filling
  <2>3. MemoryBound'
    BY <1>3, <2>1, <2>2, LiveSum, LiveSumPrimed DEF TypeOK, PoolSide, MemoryBound
  <2> QED
    BY <1>1, <2>1, <2>3 DEF PoolSide, PoolCounted
<1>5. ReadSide'
  BY <1>1, <1>2, Facts DEF ReadSide, PipeOpen, hashVars, storeVars, fileVars
<1>6. HashSide' /\ VerdictSide'
  BY <1>1, HashSame, VerdictSame DEF hashVars, storeVars, fileVars
<1>7. StoreSide'
  BY <1>1, <1>5, StoreSame DEF ReadSide, hashVars, storeVars, fileVars
<1> QED
  BY <1>3, <1>4, <1>5, <1>6, <1>7

-----------------------------------------------------------------------------
\* The block the hasher takes: it begins where the hash stands, and is delivered.
LEMMA BlockHashed ==
    ASSUME IInv, hasher = "recv", readQ.data # <<>>
    PROVE  /\ Head(readQ.data) \in Block /\ Head(readQ.data).n \in Nat
           /\ Head(readQ.data).from = hashed /\ Head(readQ.data).n > 0
           /\ hashed + Head(readQ.data).n <= src.stop
           /\ Tail(readQ.data) \in Seq(Block)
           /\ Linked(Tail(readQ.data), hashed + Head(readQ.data).n)
           /\ EndOf(Tail(readQ.data), hashed + Head(readQ.data).n) = at
           /\ Inside(Tail(readQ.data), src.stop)
           /\ sha = "none" /\ hashQ.last = "open" /\ writer # "idle"
<1>1. /\ readQ.data \in Seq(Block) /\ hashed \in Nat /\ Linked(readQ.data, hashed)
      /\ EndOf(readQ.data, hashed) = at /\ Inside(readQ.data, src.stop)
      /\ src.stop \in Nat
  BY Facts DEF IInv, TypeOK, ReadSide
<1>2. /\ Head(readQ.data) \in Block
      /\ Head(readQ.data).from = hashed /\ Head(readQ.data).n > 0
      /\ Tail(readQ.data) \in Seq(Block)
      /\ Linked(Tail(readQ.data), hashed + Head(readQ.data).n)
      /\ EndOf(Tail(readQ.data), hashed + Head(readQ.data).n) = at
  BY <1>1, LinkedTail
<1>3. /\ Inside(Tail(readQ.data), src.stop)
      /\ Head(readQ.data).from + Head(readQ.data).n <= src.stop
  BY <1>1, InsideQueue
<1>4. sha = "none" /\ hashQ.last = "open" /\ writer # "idle"
  BY DEF IInv, HashSide, PoolSide
<1>5. Head(readQ.data).n \in Nat
  BY <1>2 DEF Block
<1> QED
  BY <1>2, <1>3, <1>4, <1>5

\* The buffers past the reader.
Past == ReadLen + HashLen + Holding

\* The buffers past the reader, and all there are.
LEMMA PastSum ==
    ASSUME TypeOK
    PROVE  Past \in Nat /\ Live = free + returned + Filling + Past /\ Live \in Nat
<1>1. /\ Filling \in Nat /\ ReadLen \in Nat /\ HashLen \in Nat /\ Holding \in Nat
      /\ Live = free + returned + Filling + ReadLen + HashLen + Holding
  BY LiveSum
<1>2. free \in Nat /\ returned \in Nat
  BY DEF TypeOK
<1> QED
  BY <1>1, <1>2 DEF Past

\* The same after a step.
LEMMA PastSumPrimed ==
    ASSUME TypeOK'
    PROVE  (Past \in Nat /\ Live = free + returned + Filling + Past /\ Live \in Nat)'
  BY PastSum, PTL

\* Blocks moved on, and k dropped: no more buffers than before.
LEMMA NoMoreLive ==
    ASSUME TypeOK, TypeOK', MemoryBound, UNCHANGED <<allocated, free, returned>>,
           Filling' = Filling, NEW k \in Nat, Past = Past' + k
    PROVE  MemoryBound'
<1>1. Past \in Nat /\ Live = free + returned + Filling + Past /\ Live \in Nat
  BY PastSum
<1>2. Past' \in Nat /\ Live' = free + returned + Filling + Past' /\ Live' \in Nat
  BY PastSumPrimed
<1>3. free \in Nat /\ returned \in Nat /\ allocated \in Nat /\ Filling \in Nat
  BY LiveSum DEF TypeOK
<1>4. Live = Live' + k
  BY <1>1, <1>2, <1>3
<1>5. \A x, y, z \in Nat : (x = y + k /\ x <= z) => y <= z
  OBVIOUS
<1>6. Live' <= allocated
  BY <1>1, <1>2, <1>3, <1>4, <1>5, Zenon DEF MemoryBound
<1> QED
  BY <1>6, Zenon DEF MemoryBound

\* Forward never adds a buffer, and takes the queue with it when it stops.
LEMMA ForwardPool ==
    ASSUME IInv, TypeOK', NEW msg, NEW next, Forward(msg, next), hasher # "done",
           UNCHANGED <<poolVars, storeVars>>,
           \/ msg.data = hashQ.data /\ next = "done"
           \/ /\ readQ.data # <<>> /\ next # "done"
              /\ Len(msg.data) = Len(hashQ.data) + 1
    PROVE  PoolSide'
<1> USE DEF IInv
<1>1. readQ \in Channel /\ hashQ \in Channel /\ writer # "idle"
  BY DEF TypeOK, PoolSide
<1>2. UNCHANGED <<allocated, free, returned, producer, current, writer>>
  BY DEF poolVars, storeVars
<1>3. UNCHANGED <<Filling, Holding>>
  BY <1>2 DEF Filling, Holding
<1>4. /\ hashQ' = IF PipeOpen THEN msg ELSE hashQ
      /\ hasher' = IF PipeOpen THEN next ELSE "done"
      /\ readQ' = IF PipeOpen /\ next # "done" THEN Shift(readQ) ELSE Empty
  BY DEF Forward
<1>5. PICK k \in Nat : Past = Past' + k
  <2>1. /\ ReadLen \in Nat /\ HashLen \in Nat /\ Holding \in Nat
        /\ ReadLen' \in Nat /\ HashLen' \in Nat /\ Holding' = Holding
    BY <1>3, LiveSum, LiveSumPrimed
  <2>2. CASE msg.data = hashQ.data /\ next = "done"
    <3>1. HashLen' = HashLen
      BY <1>4, <2>2 DEF HashLen
    <3>2. ReadLen' = 0
      BY <1>4, <2>2, Basics DEF ReadLen
    <3>3. Past = Past' + ReadLen
      BY <2>1, <3>1, <3>2 DEF Past
    <3> QED
      BY <2>1, <3>3
  <2>3. CASE readQ.data # <<>> /\ next # "done" /\ Len(msg.data) = Len(hashQ.data) + 1
    <3>1. CASE PipeOpen
      <4>1. HashLen' = HashLen + 1
        BY <1>4, <2>3, <3>1 DEF HashLen
      <4>2. ReadLen' = ReadLen - 1
        BY <1>1, <1>4, <2>3, <3>1, ChannelLens DEF ReadLen
      <4>3. Past = Past' + 0
        BY <2>1, <4>1, <4>2 DEF Past
      <4> QED
        BY <4>3
    <3>2. CASE ~PipeOpen
      <4>1. HashLen' = HashLen
        BY <1>4, <3>2 DEF HashLen
      <4>2. ReadLen' = 0
        BY <1>4, <3>2, Basics DEF ReadLen
      <4>3. Past = Past' + ReadLen
        BY <2>1, <4>1, <4>2 DEF Past
      <4> QED
        BY <2>1, <4>3
    <3> QED
      BY <3>1, <3>2
  <2> QED
    BY <2>2, <2>3
<1>6. MemoryBound'
  BY <1>2, <1>3, <1>5, NoMoreLive DEF PoolSide
<1> QED
  BY <1>1, <1>2, <1>4, <1>6 DEF PoolSide, PoolCounted, PipeOpen

\* The hasher gone with its queue.
LEMMA DroppedPool ==
    ASSUME IInv, TypeOK', UNCHANGED <<poolVars, storeVars>>, hasher # "done",
           hashQ' = hashQ, hasher' = "done", readQ' = Empty
    PROVE  PoolSide'
<1> USE DEF IInv
<1>1. UNCHANGED <<allocated, free, returned, producer, current, writer>> /\ writer # "idle"
  BY DEF poolVars, storeVars, PoolSide
<1>2. UNCHANGED <<Filling, Holding, HashLen>> /\ ReadLen' = 0
  BY <1>1, Basics DEF Filling, Holding, HashLen, ReadLen
<1>3. ReadLen \in Nat /\ HashLen \in Nat /\ Holding \in Nat
  BY LiveSum
<1>4. Past = Past' + ReadLen
  BY <1>2, <1>3 DEF Past
<1>5. MemoryBound'
  BY <1>1, <1>2, <1>3, <1>4, NoMoreLive DEF PoolSide
<1> QED
  BY <1>1, <1>5 DEF PoolSide, PoolCounted

\* The hashed block sent on continues what the store has.
LEMMA BlockPassed ==
    ASSUME IInv, hasher = "recv", readQ.data # <<>>, writer = "execute",
           NEW b, b = Head(readQ.data)
    PROVE  /\ Linked(Append(hashQ.data, b), taken + current.n)
           /\ EndOf(Append(hashQ.data, b), taken + current.n) = hashed + b.n
           /\ Inside(Append(hashQ.data, b), hashed + b.n)
<1>1. /\ b \in Block /\ b.n \in Nat /\ b.from = hashed /\ b.n > 0 /\ sha = "none"
  BY BlockHashed
<1>2. /\ hashQ.data \in Seq(Block) /\ taken \in Nat /\ current.n \in Nat /\ hashed \in Nat
  BY Facts DEF IInv, TypeOK
<1>3. /\ Linked(hashQ.data, taken + current.n) /\ Inside(hashQ.data, hashed)
      /\ EndOf(hashQ.data, taken + current.n) = hashed
  BY <1>1 DEF IInv, StoreSide, StreamInOrder
<1>4. taken + current.n \in Nat
  BY <1>2
<1>5. /\ Linked(Append(hashQ.data, b), taken + current.n)
      /\ EndOf(Append(hashQ.data, b), taken + current.n) = hashed + b.n
  BY <1>1, <1>2, <1>3, <1>4, LinkedAppend
<1>6. Inside(hashQ.data, hashed + b.n)
  <2>1. hashed + b.n \in Int /\ hashed + b.n >= hashed /\ hashed \in Int
    BY <1>1, <1>2
  <2>2. \A k \in Int : k >= hashed => Inside(hashQ.data, k)
    BY <1>2, <1>3, <2>1, InsideQueue
  <2> QED
    BY <2>1, <2>2
<1>7. Inside(Append(hashQ.data, b), hashed + b.n)
  BY <1>1, <1>2, <1>6, InsideQueue
<1> QED
  BY <1>5, <1>7

\* hash_stage passes a block on, or finds the store gone.
LEMMA HashBlockKeeps ==
    ASSUME IInv, HashBlock
    PROVE  IInv'
<1> USE DEF IInv
<1> DEFINE b == Head(readQ.data)
<1>1. /\ hasher = "recv" /\ readQ.data # <<>>
      /\ hashed + b.n < src.len /\ hashed' = hashed + b.n
      /\ Forward(Send(hashQ, b), "recv")
      /\ UNCHANGED <<allocated, free, returned, producer, at, sha, src, verdict, files>>
      /\ UNCHANGED <<poolVars, storeVars>>
      /\ UNCHANGED <<writer, current, taken, withheld, store>>
  BY DEF HashBlock, poolVars, fileVars, storeVars
<1>2. /\ b \in Block /\ b.n \in Nat /\ b.from = hashed /\ b.n > 0
      /\ hashed + b.n <= src.stop
      /\ Tail(readQ.data) \in Seq(Block)
      /\ Linked(Tail(readQ.data), hashed + b.n)
      /\ EndOf(Tail(readQ.data), hashed + b.n) = at
      /\ Inside(Tail(readQ.data), src.stop)
      /\ sha = "none" /\ hashQ.last = "open" /\ writer # "idle"
  BY <1>1, BlockHashed
<1>3. /\ readQ \in Channel /\ hashQ \in Channel /\ hashed \in Nat
  BY DEF TypeOK
<1>4. /\ Send(hashQ, b) \in Channel /\ Send(hashQ, b).data = Append(hashQ.data, b)
      /\ Send(hashQ, b).last = "open" /\ Len(Send(hashQ, b).data) = Len(hashQ.data) + 1
      /\ Shift(readQ) \in Channel /\ Shift(readQ).data = Tail(readQ.data)
      /\ Shift(readQ).last = readQ.last
  BY <1>1, <1>2, <1>3, ChannelFields, ChannelLens
<1>5. CASE PipeOpen
  <2>1. hashQ' = Send(hashQ, b) /\ hasher' = "recv" /\ readQ' = Shift(readQ)
    BY <1>1, <1>5 DEF Forward
  <2>2. TypeOK'
    BY <1>1, <1>2, <1>3, <1>4, <2>1 DEF TypeOK
  <2>3. PoolSide'
    BY <1>1, <1>4, <2>2, ForwardPool
  <2>4. ReadSide'
    BY <1>1, <1>2, <1>4, <2>1 DEF ReadSide, PipeOpen
  <2>5. HashSide'
    BY <1>1, <1>2, <1>4, <2>1 DEF HashSide
  <2>6. StoreSide'
    <3>1. writer = "execute" =>
             /\ Linked(hashQ'.data, taken + current.n)
             /\ EndOf(hashQ'.data, taken + current.n) = hashed'
             /\ Inside(hashQ'.data, hashed')
      BY <1>1, <1>4, <2>1, BlockPassed
    <3>2. /\ hashQ'.data \in Seq(Block) /\ src.len \in Nat /\ hashed' \in Nat
          /\ taken \in Nat /\ current.n \in Nat
      BY <1>1, <1>2, <1>3, <2>2, Facts DEF TypeOK, Channel
    <3>3. hashed' <= src.len - 1 /\ taken + current.n <= hashed'
      BY <1>1, <1>2, <1>3, <3>2 DEF StoreSide
    <3>4. writer = "execute" => Inside(hashQ'.data, src.len - 1)
      BY <3>1, <3>2, <3>3, InsideQueue
    <3>5. StreamInOrder'
      BY <1>1, <2>1, <2>4, <3>1 DEF StoreSide, StreamInOrder, ReadSide
    <3> QED
      BY <1>1, <3>1, <3>3, <3>4, <3>5 DEF StoreSide, MismatchNeverMarked
  <2> QED
    BY <1>1, <2>2, <2>3, <2>4, <2>5, <2>6, VerdictSame
<1>6. CASE ~PipeOpen
  <2>1. hashQ' = hashQ /\ hasher' = "done" /\ readQ' = Empty /\ writer # "execute"
    BY <1>1, <1>6 DEF Forward, PipeOpen
  <2>2. TypeOK'
    BY <1>1, <1>2, <1>3, <2>1, Basics DEF TypeOK
  <2>3. PoolSide'
    BY <1>1, <1>4, <2>2, ForwardPool
  <2>4. ReadSide'
    BY <1>1, <2>1, Basics DEF ReadSide
  <2>5. HashSide'
    <3>1. src.len # 0
      BY <1>1, <1>2, <1>3
    <3> HIDE DEF b
    <3> QED
      BY <1>1, <1>2, <1>6, <2>1, <3>1 DEF HashSide, PipeOpen
  <2>6. StoreSide'
    BY <1>1, <1>2, <1>3, <2>1, Facts DEF StoreSide, StreamInOrder, MismatchNeverMarked, TypeOK
  <2> QED
    BY <1>1, <2>2, <2>3, <2>4, <2>5, <2>6, VerdictSame
<1> QED
  BY <1>5, <1>6

\* hash_stage finishes the hash: the last block goes on, or is withheld.
LEMMA HashLastBlockKeeps ==
    ASSUME IInv, HashLastBlock
    PROVE  IInv'
<1> USE DEF IInv
<1> DEFINE b == Head(readQ.data)
<1>1. /\ hasher = "recv" /\ readQ.data # <<>>
      /\ hashed + b.n = src.len /\ hashed' = src.len
      /\ sha' = IF src.good THEN "match" ELSE "differs"
      /\ UNCHANGED <<allocated, free, returned, producer, at, src, verdict, files>>
      /\ UNCHANGED <<poolVars, storeVars>>
      /\ UNCHANGED <<writer, current, taken, withheld, store>>
  BY DEF HashLastBlock, poolVars, fileVars, storeVars
<1>2. /\ b \in Block /\ b.n \in Nat /\ b.from = hashed /\ b.n > 0
      /\ hashed + b.n <= src.stop
      /\ Tail(readQ.data) \in Seq(Block)
      /\ Linked(Tail(readQ.data), hashed + b.n)
      /\ EndOf(Tail(readQ.data), hashed + b.n) = at
      /\ Inside(Tail(readQ.data), src.stop)
      /\ sha = "none" /\ hashQ.last = "open" /\ writer # "idle"
  BY <1>1, BlockHashed
<1>3. /\ readQ \in Channel /\ hashQ \in Channel /\ hashed \in Nat
      /\ src.len \in Nat /\ src.stop \in Nat /\ src.good \in BOOLEAN
      /\ taken \in Nat /\ current.n \in Nat /\ hashQ.data \in Seq(Block)
  BY Facts DEF TypeOK
<1>4. src.stop = src.len /\ src.len # 0 /\ hashed <= src.len
  BY <1>1, <1>2, <1>3, Facts
<1>5. taken + current.n <= src.len
  <2>1. taken + current.n <= hashed
    BY DEF StoreSide
  <2> QED
    BY <1>3, <1>4, <2>1
<1>6. CASE src.good /\ PipeOpen
  <2>1. Forward(Send(hashQ, b), "end")
    BY <1>6 DEF HashLastBlock
  <2>2. hashQ' = Send(hashQ, b) /\ hasher' = "end" /\ readQ' = Shift(readQ) /\ sha' = "match"
    BY <1>1, <1>6, <2>1 DEF Forward
  <2>3. /\ Send(hashQ, b) \in Channel /\ Send(hashQ, b).data = Append(hashQ.data, b)
        /\ Send(hashQ, b).last = "open" /\ Len(Send(hashQ, b).data) = Len(hashQ.data) + 1
        /\ Shift(readQ) \in Channel /\ Shift(readQ).data = Tail(readQ.data)
        /\ Shift(readQ).last = readQ.last
    BY <1>1, <1>2, <1>3, ChannelFields, ChannelLens
  <2>4. TypeOK'
    BY <1>1, <1>3, <2>2, <2>3 DEF TypeOK
  <2>5. PoolSide'
    BY <1>1, <2>1, <2>3, <2>4, ForwardPool
  <2>6. ReadSide'
    BY <1>1, <1>2, <2>2, <2>3 DEF ReadSide, PipeOpen
  <2>7. HashSide'
    BY <1>1, <1>2, <1>4, <1>6, <2>2, <2>3 DEF HashSide
  <2>8. StoreSide'
    <3>1. writer = "execute" =>
             /\ Linked(hashQ'.data, taken + current.n)
             /\ EndOf(hashQ'.data, taken + current.n) = hashed'
             /\ Inside(hashQ'.data, hashed')
      BY <1>1, <2>2, <2>3, BlockPassed
    <3>2. StreamInOrder'
      BY <1>1, <2>2, <2>6, <3>1 DEF StoreSide, StreamInOrder, ReadSide
    <3> QED
      BY <1>1, <1>2, <1>5, <1>6, <3>1, <3>2 DEF StoreSide, MismatchNeverMarked
  <2> QED
    BY <1>1, <2>4, <2>5, <2>6, <2>7, <2>8, VerdictSame
<1>7. CASE ~src.good /\ PipeOpen
  <2>1. Forward(Close(hashQ, "withheld"), "done")
    BY <1>7 DEF HashLastBlock
  <2>2. hashQ' = Close(hashQ, "withheld") /\ hasher' = "done" /\ readQ' = Empty
        /\ sha' = "differs"
    BY <1>1, <1>7, <2>1 DEF Forward
  <2>3. /\ Close(hashQ, "withheld") \in Channel
        /\ Close(hashQ, "withheld").data = hashQ.data
        /\ Close(hashQ, "withheld").last = "withheld"
    BY <1>3, ChannelFields
  <2>4. TypeOK'
    BY <1>1, <1>3, <2>2, <2>3, Basics DEF TypeOK
  <2>5. PoolSide'
    BY <1>1, <2>1, <2>3, <2>4, ForwardPool
  <2>6. ReadSide'
    BY <1>1, <2>2, Basics DEF ReadSide
  <2>7. HashSide'
    BY <1>1, <1>3, <1>4, <1>7, <2>2, <2>3 DEF HashSide
  <2>8. StoreSide'
    <3>1. writer = "execute" => Inside(hashQ'.data, hashed')
      <4>1. writer = "execute" => Inside(hashQ.data, hashed)
        BY DEF StoreSide
      <4>2. hashed \in Int /\ src.len \in Int /\ src.len >= hashed
        BY <1>3, <1>4
      <4> QED
        BY <1>1, <1>3, <2>2, <2>3, <4>1, <4>2, InsideQueue
    <3>2. StreamInOrder'
      BY <1>1, <2>2, <2>3 DEF StoreSide, StreamInOrder
    <3> QED
      BY <1>1, <1>2, <1>5, <2>2, <2>3, <3>1, <3>2 DEF StoreSide, MismatchNeverMarked
  <2> QED
    BY <1>1, <2>4, <2>5, <2>6, <2>7, <2>8, VerdictSame
<1>8. CASE ~PipeOpen
  <2>1. hashQ' = hashQ /\ hasher' = "done" /\ readQ' = Empty /\ writer # "execute"
        /\ sha' \in {"match", "differs"}
    BY <1>1, <1>8 DEF HashLastBlock, Forward, PipeOpen
  <2>2. TypeOK'
    BY <1>1, <1>3, <2>1, Basics DEF TypeOK
  <2>3. PoolSide'
    BY <1>1, <1>2, <1>8, <2>1, <2>2, DroppedPool
  <2>4. ReadSide'
    BY <1>1, <2>1, Basics DEF ReadSide
  <2>5. HashSide'
    BY <1>1, <1>2, <1>3, <1>4, <1>8, <2>1 DEF HashSide, PipeOpen
  <2>6. StoreSide'
    BY <1>1, <1>2, <1>5, <2>1 DEF StoreSide, StreamInOrder, MismatchNeverMarked
  <2> QED
    BY <1>1, <2>2, <2>3, <2>4, <2>5, <2>6, VerdictSame
<1> QED
  BY <1>6, <1>7, <1>8

\* hash_stage's End after a last block that matched.
LEMMA HashEndKeeps ==
    ASSUME IInv, HashEnd
    PROVE  IInv'
<1> USE DEF IInv
<1>1. /\ hasher = "end" /\ Forward(Close(hashQ, "end"), "done")
      /\ UNCHANGED <<allocated, free, returned, producer, at, hashed, sha, src, verdict, files>>
      /\ UNCHANGED <<poolVars, storeVars>>
      /\ UNCHANGED <<writer, current, taken, withheld, store>>
  BY DEF HashEnd, poolVars, fileVars, storeVars
<1>2. /\ hashQ' = IF PipeOpen THEN Close(hashQ, "end") ELSE hashQ
      /\ hasher' = "done" /\ readQ' = Empty
  BY <1>1 DEF Forward
<1>3. /\ hashQ \in Channel /\ hashed \in Nat /\ src.len \in Nat /\ src.stop \in Nat
      /\ src.stop <= src.len
  BY Facts DEF TypeOK
<1>4. /\ Close(hashQ, "end") \in Channel /\ Close(hashQ, "end").data = hashQ.data
      /\ Close(hashQ, "end").last = "end"
  BY <1>3, ChannelFields
<1>5. sha = "match" /\ hashed = src.len /\ hashed = src.stop /\ hashQ.last = "open"
      /\ writer # "idle"
  BY <1>1, <1>3 DEF HashSide, PoolSide
<1>6. TypeOK'
  BY <1>1, <1>2, <1>3, <1>4, Basics DEF TypeOK
<1>7. PoolSide'
  BY <1>1, <1>4, <1>6, ForwardPool
<1>8. ReadSide'
  BY <1>1, <1>2, Basics DEF ReadSide
<1>9. HashSide'
  BY <1>1, <1>2, <1>3, <1>4, <1>5 DEF HashSide, PipeOpen
<1>10. StoreSide'
  <2>1. hashQ'.data = hashQ.data
    BY <1>2, <1>4
  <2> QED
    BY <1>1, <1>2, <2>1 DEF StoreSide, StreamInOrder, MismatchNeverMarked
<1> QED
  BY <1>1, <1>6, <1>7, <1>8, <1>9, <1>10, VerdictSame

\* hash_stage passes on the reader's End or Fail.
LEMMA HashCloseKeeps ==
    ASSUME IInv, HashClose
    PROVE  IInv'
<1> USE DEF IInv
<1>1. /\ hasher = "recv" /\ readQ.data = <<>> /\ readQ.last # "open"
      /\ Forward(Close(hashQ, readQ.last), "done")
      /\ sha' = IF readQ.last # "end" \/ hashed # src.len THEN "none"
                ELSE IF src.good THEN "match" ELSE "differs"
      /\ UNCHANGED <<allocated, free, returned, producer, at, hashed, src, verdict, files>>
      /\ UNCHANGED <<poolVars, storeVars>>
      /\ UNCHANGED <<writer, current, taken, withheld, store>>
  BY DEF HashClose, poolVars, fileVars, storeVars
<1>2. /\ hashQ' = IF PipeOpen THEN Close(hashQ, readQ.last) ELSE hashQ
      /\ hasher' = "done" /\ readQ' = Empty
  BY <1>1 DEF Forward
<1>3. /\ hashQ \in Channel /\ hashed \in Nat /\ src.len \in Nat /\ src.stop \in Nat
      /\ src.stop <= src.len /\ src.good \in BOOLEAN
  BY Facts DEF TypeOK
<1>4. readQ.last \in {"end", "fail"} /\ hashed = src.stop /\ (src.len = 0 => readQ.last = "end")
  <2>1. EndOf(readQ.data, hashed) = at /\ at = src.stop
    BY <1>1 DEF ReadSide
  <2>2. EndOf(readQ.data, hashed) = hashed
    BY <1>1 DEF EndOf
  <2> QED
    BY <1>1, <2>1, <2>2 DEF ReadSide
<1>5. /\ Close(hashQ, readQ.last) \in Channel /\ Close(hashQ, readQ.last).data = hashQ.data
      /\ Close(hashQ, readQ.last).last = readQ.last
  BY <1>3, <1>4, ChannelFields
<1>6. /\ sha = "none" /\ hashQ.last = "open" /\ writer # "idle"
      /\ hashed < src.len \/ src.len = 0
  BY <1>1 DEF HashSide, PoolSide
<1>7. /\ sha' \in {"none", "match", "differs"}
      /\ sha' # "none" => src.len = 0 /\ hashed = src.len
      /\ sha' = "match" => src.good
      /\ sha' = "differs" => ~src.good
      /\ src.len = 0 => sha' # "none"
  BY <1>1, <1>3, <1>4, <1>6
<1>8. TypeOK'
  BY <1>1, <1>2, <1>3, <1>5, <1>7, Basics DEF TypeOK
<1>9. PoolSide'
  BY <1>1, <1>5, <1>8, ForwardPool
<1>10. ReadSide'
  BY <1>1, <1>2, Basics DEF ReadSide
<1>11. HashSide'
  BY <1>1, <1>2, <1>3, <1>4, <1>5, <1>6, <1>7 DEF HashSide, PipeOpen
<1>12. StoreSide'
  <2>1. hashQ'.data = hashQ.data
    BY <1>2, <1>5
  <2> QED
    BY <1>1, <1>2, <1>6, <2>1 DEF StoreSide, StreamInOrder, MismatchNeverMarked
<1> QED
  BY <1>1, <1>8, <1>9, <1>10, <1>11, <1>12, VerdictSame

\* hash_stage finds the reader gone: only after the store has gone.
LEMMA HashOrphanedKeeps ==
    ASSUME IInv, HashOrphaned
    PROVE  IInv'
<1> USE DEF IInv
<1>1. /\ hasher = "recv" /\ readQ = Empty /\ producer = "done" /\ hasher' = "done"
      /\ UNCHANGED <<allocated, free, returned, producer, at, readQ, hashed, sha, hashQ,
                     src, verdict, files>>
      /\ UNCHANGED <<poolVars, storeVars>>
      /\ UNCHANGED <<writer, current, taken, withheld, store>>
  BY DEF HashOrphaned, poolVars, readVars, fileVars, storeVars
<1>2. ~PipeOpen /\ src.len # 0
  BY <1>1, Basics DEF ReadSide
<1>3. TypeOK'
  BY <1>1 DEF TypeOK
<1>4. PoolSide'
  BY <1>1, <1>3, DroppedPool
<1>5. ReadSide'
  BY <1>1 DEF ReadSide
<1>6. HashSide'
  BY <1>1, <1>2 DEF HashSide, PipeOpen
<1>7. StoreSide'
  BY <1>1 DEF StoreSide, StreamInOrder, MismatchNeverMarked
<1> QED
  BY <1>1, <1>3, <1>4, <1>5, <1>6, <1>7, VerdictSame

-----------------------------------------------------------------------------
\* PipeReader takes the next hashed block.
LEMMA StoreReceiveKeeps ==
    ASSUME IInv, StoreReceive
    PROVE  IInv'
<1> USE DEF IInv
<1> DEFINE b == Head(hashQ.data)
<1>1. /\ writer = "execute" /\ taken < src.len /\ current = NoBlock /\ hashQ.data # <<>>
      /\ current' = b /\ hashQ' = Shift(hashQ)
      /\ UNCHANGED <<allocated, free, returned, producer, at, readQ, hasher, hashed, sha,
                     writer, taken, withheld, store, src, verdict, files>>
  BY DEF StoreReceive, poolVars, readVars, fileVars
<1>2. /\ hashQ \in Channel /\ hashQ.data \in Seq(Block) /\ taken \in Nat /\ hashed \in Nat
      /\ src.len \in Nat /\ current.n = 0
  BY <1>1, Facts, Basics DEF TypeOK
<1>3. /\ Linked(hashQ.data, taken) /\ Inside(hashQ.data, hashed)
      /\ sha # "differs" => EndOf(hashQ.data, taken) = hashed
      /\ (~src.good /\ src.len > 0) => Inside(hashQ.data, src.len - 1)
  <2>1. taken + current.n = taken
    BY <1>2
  <2> QED
    BY <1>1, <2>1 DEF StoreSide, StreamInOrder
<1>4. /\ b \in Block /\ b.from = taken /\ b.n > 0 /\ Linked(Tail(hashQ.data), taken + b.n)
      /\ EndOf(Tail(hashQ.data), taken + b.n) = EndOf(hashQ.data, taken)
  BY <1>1, <1>2, <1>3, LinkedTail
<1>5. Inside(Tail(hashQ.data), hashed) /\ b.from + b.n <= hashed
  BY <1>1, <1>2, <1>3, InsideQueue
<1>6. (~src.good /\ src.len > 0) =>
          Inside(Tail(hashQ.data), src.len - 1) /\ b.from + b.n <= src.len - 1
  <2>1. src.len - 1 \in Int
    BY <1>2
  <2> QED
    BY <1>1, <1>2, <1>3, <2>1, InsideQueue
<1>7. /\ Shift(hashQ) \in Channel /\ Shift(hashQ).data = Tail(hashQ.data)
      /\ Shift(hashQ).last = hashQ.last /\ Len(Shift(hashQ).data) = Len(hashQ.data) - 1
      /\ Len(hashQ.data) > 0
  BY <1>1, <1>2, ChannelFields, ChannelLens
<1>8. b.n \in Nat /\ b # NoBlock
  BY <1>4, Basics DEF Block
<1> HIDE DEF b
<1>9. TypeOK'
  BY <1>1, <1>4, <1>7 DEF TypeOK
<1>10. PoolSide'
  <2>1. UNCHANGED <<Filling, ReadLen>> /\ Holding = 0 /\ Holding' = 1
    BY <1>1, <1>8 DEF Filling, ReadLen, Holding
  <2>2. HashLen' = HashLen - 1
    BY <1>1, <1>7 DEF HashLen
  <2>3. ReadLen \in Nat /\ HashLen \in Nat
    BY LiveSum
  <2>4. Past = Past' + 0
    BY <2>1, <2>2, <2>3 DEF Past
  <2>5. MemoryBound'
    BY <1>1, <1>9, <2>1, <2>4, NoMoreLive DEF PoolSide
  <2> QED
    BY <1>1, <1>4, <2>5 DEF PoolSide, PoolCounted
<1>11. ReadSide'
  BY <1>1 DEF ReadSide, PipeOpen
<1>12. HashSide'
  BY <1>1, <1>7 DEF HashSide, PipeOpen
<1>13. StoreSide'
  <2>1. StreamInOrder'
    BY <1>1, <1>3, <1>4, <1>7 DEF StoreSide, StreamInOrder
  <2>2. MismatchNeverMarked'
    BY <1>1, <1>2, <1>4, <1>6, <1>8 DEF StoreSide, MismatchNeverMarked
  <2> QED
    BY <1>1, <1>4, <1>5, <1>6, <1>7, <2>1, <2>2 DEF StoreSide
<1> QED
  BY <1>1, <1>9, <1>10, <1>11, <1>12, <1>13, VerdictSame

\* PipeReader hands bytes to the store, and the drained buffer back.
LEMMA StoreDrainKeeps ==
    ASSUME IInv, NEW w \in 1 .. Chunk, StoreDrain(w)
    PROVE  IInv'
<1> USE DEF IInv
<1> DEFINE n == Least(w, current.n)
<1>1. /\ writer = "execute" /\ current # NoBlock /\ taken' = taken + n
      /\ UNCHANGED <<allocated, free, producer, at, readQ, hasher, hashed, sha, hashQ,
                     writer, withheld, store, src, verdict, files>>
      /\ \/ /\ n < current.n
            /\ current' = [from |-> current.from + n, n |-> current.n - n]
            /\ returned' = returned
         \/ /\ ~(n < current.n) /\ current' = NoBlock /\ returned' = returned + 1
  BY DEF StoreDrain, readVars, hashVars, fileVars
<1>2. /\ taken \in Nat /\ current.n \in Nat /\ current.n > 0 /\ current.from = taken
      /\ current.from \in Nat /\ w \in Nat /\ w > 0 /\ returned \in Nat
  <2>1. Chunk \in Nat
    BY ChunkAssumption
  <2>2. w \in Nat /\ w > 0
    BY <2>1
  <2> QED
    BY <1>1, <2>2, Facts DEF TypeOK, PoolSide, StoreSide, StreamInOrder
<1>3. n \in Nat /\ n > 0 /\ n <= current.n
  BY <1>2 DEF Least
<1> HIDE DEF n
<1>4. /\ current' \in Block /\ taken' \in Nat /\ returned' \in Nat
      /\ taken' + current'.n = taken + current.n
      /\ current' # NoBlock => current'.n > 0 /\ current'.from = taken'
  <2>1. CASE n < current.n
    <3>1. current' = [from |-> current.from + n, n |-> current.n - n]
      BY <1>1, <2>1
    <3>2. current'.from = taken + n /\ current'.n = current.n - n
      BY <1>2, <3>1
    <3>3. current' \in Block
      BY <1>2, <1>3, <2>1, <3>1 DEF Block
    <3> QED
      BY <1>1, <1>2, <1>3, <2>1, <3>2, <3>3
  <2>2. CASE ~(n < current.n)
    <3>1. current' = NoBlock /\ n = current.n
      BY <1>1, <1>2, <1>3, <2>2
    <3> QED
      BY <1>1, <1>2, <1>3, <3>1, Basics
  <2> QED
    BY <2>1, <2>2
<1>5. TypeOK'
  BY <1>1, <1>4 DEF TypeOK
<1>6. PoolSide'
  <2>1. UNCHANGED <<Filling, ReadLen, HashLen>> /\ Holding = 1
    BY <1>1 DEF Filling, ReadLen, HashLen, Holding
  <2>2. \/ returned' = returned /\ Holding' = 1
        \/ returned' = returned + 1 /\ Holding' = 0
    <3>1. CASE n < current.n
      <4>1. returned' = returned /\ current'.n = current.n - n
        BY <1>1, <1>2, <3>1
      <4>2. current' # NoBlock
        BY <1>2, <1>3, <3>1, <4>1, Basics
      <4> QED
        BY <4>1, <4>2 DEF Holding
    <3>2. CASE ~(n < current.n)
      BY <1>1, <3>2 DEF Holding
    <3> QED
      BY <3>1, <3>2
  <2>3. Live' = Live
    <3>1. /\ Filling \in Nat /\ ReadLen \in Nat /\ HashLen \in Nat
          /\ free \in Nat /\ returned \in Nat
          /\ Live = free + returned + Filling + ReadLen + HashLen + 1
      BY <2>1, LiveSum DEF TypeOK
    <3>2. Live' = free + returned' + Filling + ReadLen + HashLen + Holding'
      BY <1>1, <1>5, <2>1, LiveSumPrimed
    <3> QED
      BY <2>2, <3>1, <3>2
  <2>4. MemoryBound'
    BY <1>1, <2>3 DEF PoolSide, MemoryBound
  <2> QED
    BY <1>1, <1>4, <2>4 DEF PoolSide, PoolCounted
<1>7. ReadSide'
  BY <1>1 DEF ReadSide, PipeOpen
<1>8. HashSide'
  BY <1>1 DEF HashSide, PipeOpen
<1>9. StoreSide'
  <2>1. StreamInOrder'
    BY <1>1, <1>4 DEF StoreSide, StreamInOrder
  <2>2. MismatchNeverMarked'
    BY <1>1, <1>4 DEF StoreSide, MismatchNeverMarked
  <2> QED
    BY <1>1, <1>4, <2>1, <2>2 DEF StoreSide
<1>10. VerdictSide'
  BY <1>1 DEF VerdictSide, VerdictJustified
<1> QED
  BY <1>5, <1>6, <1>7, <1>8, <1>9, <1>10

\* The three ways execute ends.
LEMMA StoreEndsKeep ==
    ASSUME IInv, StoreMeetsEnd \/ StoreFails \/ StoreFinishes
    PROVE  IInv'
<1> USE DEF IInv
<1>1. /\ writer = "execute" /\ writer' = "drop"
      /\ UNCHANGED <<allocated, free, returned, producer, at, readQ, hasher, hashed, sha,
                     hashQ, current, taken, src, verdict, files>>
  BY DEF StoreMeetsEnd, StoreFails, StoreFinishes, poolVars, readVars, hashVars, fileVars
<1>2. store = "none" /\ ~withheld /\ verdict = "none"
  BY <1>1 DEF StoreSide, VerdictSide
<1>3. /\ store' \in {"source", "own", "ok"} /\ withheld' \in BOOLEAN
      /\ withheld' => sha = "differs"
      /\ store' = "ok" => taken = src.len
      /\ (store' = "source" /\ ~withheld') => src.stop < src.len
  <2>1. CASE StoreMeetsEnd
    <3>1. /\ taken < src.len /\ current = NoBlock /\ hashQ.data = <<>>
          /\ hashQ.last # "open" /\ store' = "source"
          /\ withheld' = (hashQ.last = "withheld")
      BY <2>1 DEF StoreMeetsEnd
    <3>2. taken \in Nat /\ src.len \in Nat /\ taken + current.n = taken
      BY <3>1, Facts, Basics DEF TypeOK
    <3>3. EndOf(hashQ.data, taken + current.n) = taken
      BY <3>1, <3>2 DEF EndOf
    <3>4. hashQ.last = "withheld" => sha = "differs"
      BY DEF HashSide
    <3>5. ASSUME hashQ.last # "withheld" PROVE src.stop < src.len
      <4>1. hashQ.last \in {"end", "fail"}
        BY <3>1, <3>5 DEF TypeOK, Channel
      <4>2. sha # "differs" /\ hashed = src.stop
        BY <3>1, <3>2, <4>1 DEF HashSide
      <4>3. hashed = taken
        BY <1>1, <3>3, <4>2 DEF StoreSide, StreamInOrder
      <4> QED
        BY <3>1, <4>2, <4>3
    <3> QED
      BY <3>1, <3>4, <3>5
  <2>2. CASE StoreFails
    <3>1. store' = "own" /\ withheld' = withheld /\ withheld \in BOOLEAN
      BY <2>2 DEF StoreFails, TypeOK
    <3> QED
      BY <1>2, <3>1
  <2>3. CASE StoreFinishes
    <3>1. store' = "ok" /\ taken = src.len /\ withheld' = withheld /\ withheld \in BOOLEAN
      BY <2>3 DEF StoreFinishes, TypeOK
    <3> QED
      BY <1>2, <3>1
  <2> QED
    BY <2>1, <2>2, <2>3
<1>4. TypeOK'
  BY <1>1, <1>3 DEF TypeOK
<1>5. PoolSide'
  BY <1>1 DEF PoolSide, MemoryBound, PoolCounted, Live
<1>6. ReadSide'
  BY <1>1 DEF ReadSide, PipeOpen
<1>7. HashSide'
  BY <1>1 DEF HashSide, PipeOpen
<1>8. StoreSide'
  <2>1. (~src.good /\ src.len > 0) => taken + current.n < src.len
    BY DEF StoreSide, MismatchNeverMarked
  <2>2. (~src.good /\ src.len > 0) => taken # src.len
    BY <2>1, Facts DEF TypeOK
  <2>3. MismatchNeverMarked'
    BY <1>1, <1>3, <2>1, <2>2 DEF MismatchNeverMarked
  <2> QED
    BY <1>1, <1>3, <2>3 DEF StoreSide, StreamInOrder
<1>9. VerdictSide'
  BY <1>1, <1>2 DEF VerdictSide, VerdictJustified
<1> QED
  BY <1>4, <1>5, <1>6, <1>7, <1>8, <1>9

\* write_verified lets go of its ends, and of what was queued.
LEMMA DropPipeKeeps ==
    ASSUME IInv, DropPipe
    PROVE  IInv'
<1> USE DEF IInv
<1>1. /\ writer = "drop" /\ writer' = "join" /\ current' = NoBlock /\ hashQ' = Empty
      /\ UNCHANGED <<allocated, free, returned, producer, at, readQ, hasher, hashed, sha,
                     taken, withheld, store, src, verdict, files>>
  BY DEF DropPipe, poolVars, readVars, fileVars
<1>2. /\ taken \in Nat /\ current.n \in Nat /\ current'.n = 0 /\ taken + current'.n = taken
      /\ hashed \in Nat /\ src.len \in Nat
  BY <1>1, Facts, Basics DEF TypeOK
<1>3. TypeOK'
  BY <1>1, Basics DEF TypeOK
<1>4. PoolSide'
  <2>1. UNCHANGED <<Filling, ReadLen>> /\ HashLen' = 0 /\ Holding' = 0
    BY <1>1, Basics DEF Filling, ReadLen, HashLen, Holding
  <2>2. ReadLen \in Nat /\ HashLen \in Nat /\ Holding \in Nat
    BY LiveSum
  <2>3. Past = Past' + (HashLen + Holding) /\ HashLen + Holding \in Nat
    BY <2>1, <2>2 DEF Past
  <2>4. MemoryBound'
    BY <1>1, <1>3, <2>1, <2>3, NoMoreLive DEF PoolSide
  <2> QED
    BY <1>1, <2>4 DEF PoolSide, PoolCounted
<1>5. ReadSide'
  BY <1>1 DEF ReadSide, PipeOpen
<1>6. HashSide'
  BY <1>1, Basics DEF HashSide, PipeOpen
<1>7. StoreSide'
  <2>1. taken <= hashed
    BY <1>2 DEF StoreSide
  <2>2. MismatchNeverMarked'
    BY <1>1, <1>2 DEF StoreSide, MismatchNeverMarked
  <2> QED
    BY <1>1, <1>2, <2>1, <2>2 DEF StoreSide, StreamInOrder
<1>8. VerdictSide'
  BY <1>1 DEF VerdictSide, VerdictJustified
<1> QED
  BY <1>3, <1>4, <1>5, <1>6, <1>7, <1>8

\* Streamed::verdict, on what the invariant says of a file whose stages ended.
LEMMA JoinedVerdict ==
    ASSUME IInv, writer = "join", hasher = "done",
           NEW v, v = Verdict(withheld, store, sha)
    PROVE  /\ v \in {"none", "written", "mismatch", "failed"}
           /\ v = "written" => src.good /\ src.stop = src.len /\ taken = src.len
           /\ v = "mismatch" => ~src.good /\ src.stop = src.len
           /\ v = "failed" => store = "own" \/ src.stop < src.len
<1> USE DEF IInv
<1>1. /\ src.len \in Nat /\ src.stop \in Nat /\ src.stop <= src.len /\ hashed \in Nat
      /\ taken \in Nat /\ current.n \in Nat
  BY Facts DEF TypeOK
<1>2. sha # "none" => src.stop = src.len
  BY <1>1 DEF HashSide
<1>3. (sha = "match" => src.good) /\ (sha = "differs" => ~src.good)
  BY DEF HashSide
<1>4. /\ store = "ok" => taken = src.len
      /\ (store = "source" /\ ~withheld) => src.stop < src.len
      /\ withheld => sha = "differs"
      /\ store \in {"ok", "source", "own"}
  BY DEF StoreSide, TypeOK
<1>5. store = "ok" => sha # "none"
  <2>1. taken <= hashed
    BY <1>1 DEF StoreSide
  <2> QED
    BY <1>1, <1>4, <2>1 DEF HashSide
<1>6. withheld \in BOOLEAN /\ sha \in {"none", "match", "differs"}
  BY DEF TypeOK
<1>7. CASE withheld
  <2>1. v = "mismatch"
    BY <1>7 DEF Verdict
  <2> QED
    BY <1>2, <1>3, <1>4, <1>7, <2>1
<1>8. CASE ~withheld /\ store # "ok"
  <2>1. v = "failed"
    BY <1>8 DEF Verdict
  <2> QED
    BY <1>4, <1>8, <2>1
<1>9. CASE ~withheld /\ store = "ok" /\ sha = "match"
  <2>1. v = "written"
    BY <1>9 DEF Verdict
  <2> QED
    BY <1>2, <1>3, <1>4, <1>9, <2>1
<1>10. CASE ~withheld /\ store = "ok" /\ sha = "differs"
  <2>1. v = "mismatch"
    BY <1>10 DEF Verdict
  <2> QED
    BY <1>2, <1>3, <1>10, <2>1
<1> QED
  BY <1>5, <1>6, <1>7, <1>8, <1>9, <1>10

\* write_verified joins the stages, settles the pool and judges the file.
LEMMA JoinKeeps ==
    ASSUME IInv, Join
    PROVE  IInv'
<1> USE DEF IInv
<1>1. /\ writer = "join" /\ producer = "done" /\ hasher = "done" /\ writer' = "idle"
      /\ verdict' = Verdict(withheld, store, sha)
      /\ free' = free + returned /\ returned' = 0 /\ allocated' = free + returned
      /\ UNCHANGED <<producer, at, readQ, hasher, hashed, sha, hashQ, current, taken,
                     withheld, store, src, files>>
  BY DEF Join, Settle, readVars, hashVars
<1>2. /\ verdict' \in {"none", "written", "mismatch", "failed"}
      /\ verdict' = "written" => src.good /\ src.stop = src.len /\ taken = src.len
      /\ verdict' = "mismatch" => ~src.good /\ src.stop = src.len
      /\ verdict' = "failed" => store = "own" \/ src.stop < src.len
  BY <1>1, JoinedVerdict
<1>3. TypeOK'
  BY <1>1, <1>2 DEF TypeOK
<1>4. PoolSide'
  <2>1. readQ = Empty /\ hashQ = Empty /\ current = NoBlock
    BY <1>1 DEF PoolSide
  <2>2. /\ Filling = 0 /\ ReadLen = 0 /\ HashLen = 0 /\ Holding = 0
        /\ UNCHANGED <<Filling, ReadLen, HashLen, Holding>>
    BY <1>1, <2>1, Basics DEF Filling, ReadLen, HashLen, Holding
  <2>3. free \in Nat /\ returned \in Nat /\ allocated \in Nat
    BY DEF TypeOK
  <2>4. Live = free + returned
    BY <2>2, <2>3, LiveSum
  <2>5. Live' = free + returned
    BY <1>1, <1>3, <2>2, <2>3, LiveSumPrimed
  <2>6. free + returned <= MaxBuffers
    BY <2>3, <2>4, MaxBuffersAssumption DEF PoolSide, MemoryBound
  <2>7. MemoryBound' /\ PoolCounted'
    BY <1>1, <2>3, <2>5, <2>6 DEF MemoryBound, PoolCounted
  <2> QED
    BY <1>1, <2>1, <2>7 DEF PoolSide
<1>5. ReadSide'
  BY <1>1 DEF ReadSide
<1>6. HashSide'
  BY <1>1 DEF HashSide, PipeOpen
<1>7. StoreSide'
  BY <1>1 DEF StoreSide, StreamInOrder, MismatchNeverMarked
<1>8. VerdictSide'
  BY <1>1, <1>2 DEF VerdictSide, VerdictJustified
<1> QED
  BY <1>3, <1>4, <1>5, <1>6, <1>7, <1>8

\* write_verified starts on a file, with the pool the last one left.
LEMMA StartFileKeeps ==
    ASSUME IInv, NEW s \in Sources, StartFile(s)
    PROVE  IInv'
<1> USE DEF IInv
<1>1. /\ writer = "idle" /\ files' = files + 1 /\ src' = s /\ verdict' = "none"
      /\ producer' = IF s.len = 0 THEN "end" ELSE "take"
      /\ at' = 0 /\ readQ' = Empty /\ hasher' = "recv" /\ hashed' = 0 /\ sha' = "none"
      /\ hashQ' = Empty /\ writer' = "execute" /\ current' = NoBlock /\ taken' = 0
      /\ withheld' = FALSE /\ store' = "none"
      /\ UNCHANGED <<allocated, free, returned>>
  BY DEF StartFile
<1>2. s.len \in Nat /\ s.stop \in Nat /\ s.stop <= s.len
  BY Basics
<1>3. TypeOK'
  <2>1. withheld' \in BOOLEAN
    BY <1>1, Zenon
  <2>2. /\ producer' \in {"take", "end"} /\ files' \in Nat
        /\ readQ' \in Channel /\ hashQ' \in Channel /\ current' \in Block
        /\ allocated' \in Nat /\ free' \in Nat /\ returned' \in Nat
    BY <1>1, Basics DEF TypeOK
  <2>3. /\ src' = s /\ verdict' = "none" /\ at' = 0 /\ hasher' = "recv" /\ hashed' = 0
        /\ sha' = "none" /\ writer' = "execute" /\ taken' = 0 /\ store' = "none"
    BY <1>1
  <2> QED
    BY <2>1, <2>2, <2>3 DEF TypeOK
<1>4. PoolSide'
  <2>1. readQ = Empty /\ hashQ = Empty /\ current = NoBlock /\ producer = "done"
    BY <1>1 DEF PoolSide
  <2>2. UNCHANGED <<Filling, ReadLen, HashLen, Holding>>
    BY <1>1, <2>1 DEF Filling, ReadLen, HashLen, Holding
  <2>3. Live' = Live
    BY <1>1, <1>3, <2>2, LiveSum, LiveSumPrimed
  <2>4. MemoryBound'
    BY <1>1, <2>3 DEF PoolSide, MemoryBound
  <2> QED
    BY <1>1, <2>4 DEF PoolSide, PoolCounted
<1>5. Linked(<<>>, 0) /\ EndOf(<<>>, 0) = 0 /\ \A m : Inside(<<>>, m)
  BY DEF Linked, EndOf, Inside
<1>6. ReadSide'
  BY <1>1, <1>2, <1>5, Basics DEF ReadSide
<1>7. HashSide'
  BY <1>1, <1>2, Basics DEF HashSide
<1>8. StoreSide'
  <2>1. readQ'.data = <<>> /\ hashQ'.data = <<>> /\ taken' + current'.n = 0
    BY <1>1, Basics
  <2>2. StreamInOrder'
    BY <1>1, <1>5, <2>1 DEF StreamInOrder
  <2> QED
    BY <1>1, <1>2, <1>5, <2>1, <2>2 DEF StoreSide, MismatchNeverMarked
<1>9. VerdictSide'
  BY <1>1 DEF VerdictSide, VerdictJustified
<1> QED
  BY <1>3, <1>4, <1>6, <1>7, <1>8, <1>9

-----------------------------------------------------------------------------
\* Nothing streamed yet: the pool is empty and no stage runs.
LEMMA InitHolds == Init => IInv
<1> SUFFICES ASSUME Init
             PROVE  IInv
  OBVIOUS
<1>1. /\ allocated = 0 /\ free = 0 /\ returned = 0 /\ producer = "done"
      /\ src.len = 0 /\ src.stop = 0 /\ src.good = TRUE
      /\ at = 0 /\ readQ = Empty /\ hasher = "done" /\ hashed = 0 /\ sha = "none"
      /\ hashQ = Empty /\ writer = "idle" /\ current = NoBlock /\ taken = 0
      /\ store = "none" /\ verdict = "none" /\ files = 0
  BY DEF Init, PoolInit
<1>2. withheld = FALSE
  BY DEF Init
<1>3. TypeOK
  <2>1. src \in Sources
    BY MaxLenAssumption DEF Init, Sources
  <2>2. withheld \in BOOLEAN
    BY <1>2, Zenon
  <2> QED
    BY <1>1, <2>1, <2>2, Basics DEF TypeOK
<1>4. PoolSide
  <2>1. Filling = 0 /\ ReadLen = 0 /\ HashLen = 0 /\ Holding = 0
    BY <1>1, Basics DEF Filling, ReadLen, HashLen, Holding
  <2>2. Live = 0
    BY <1>1, <1>3, <2>1, LiveSum
  <2> QED
    BY <1>1, <2>2, MaxBuffersAssumption DEF PoolSide, MemoryBound, PoolCounted
<1>5. ReadSide
  BY <1>1, Basics DEF ReadSide
<1>6. HashSide
  BY <1>1, Basics DEF HashSide, PipeOpen
<1>7. StoreSide
  BY <1>1, <1>2, Basics DEF StoreSide, StreamInOrder, MismatchNeverMarked
<1>8. VerdictSide
  BY <1>1 DEF VerdictSide, VerdictJustified
<1> QED
  BY <1>3, <1>4, <1>5, <1>6, <1>7, <1>8 DEF IInv

\* Every step of the three threads, and of the session that starts a file.
LEMMA NextHolds == IInv /\ [Next]_vars => IInv'
<1> SUFFICES ASSUME IInv, [Next]_vars
             PROVE  IInv'
  OBVIOUS
<1>1. CASE \E s \in Sources : StartFile(s)
  BY <1>1, StartFileKeeps
<1>2. CASE Reader
  BY <1>2, ReadTakeKeeps, ReadGrowKeeps, ReadNothingKeeps, ReadBlockKeeps, ReadCloseKeeps
     DEF Reader
<1>3. CASE Hasher
  BY <1>3, HashBlockKeeps, HashLastBlockKeeps, HashEndKeeps, HashCloseKeeps,
     HashOrphanedKeeps DEF Hasher
<1>4. CASE Storing
  BY <1>4, StoreReceiveKeeps, StoreDrainKeeps, StoreEndsKeep, DropPipeKeeps, JoinKeeps
     DEF Storing
<1>5. CASE StoreFails
  BY <1>5, StoreEndsKeep
<1>6. CASE UNCHANGED vars
  <2>1. UNCHANGED <<poolVars, readVars, hashVars, storeVars, fileVars>>
    BY <1>6 DEF vars
  <2>2. TypeOK'
    BY <2>1 DEF IInv, TypeOK, poolVars, readVars, hashVars, storeVars, fileVars
  <2>3. PoolSide'
    BY <2>1 DEF IInv, PoolSide, MemoryBound, PoolCounted, Live,
                poolVars, readVars, hashVars, storeVars
  <2>4. ReadSide'
    BY <2>1 DEF IInv, ReadSide, PipeOpen, poolVars, readVars, hashVars, storeVars, fileVars
  <2>5. HashSide' /\ VerdictSide'
    BY <2>1, HashSame, VerdictSame DEF IInv, storeVars, fileVars
  <2>6. StoreSide'
    BY <2>1, <2>4, StoreSame DEF IInv, ReadSide, hashVars, storeVars, fileVars
  <2> QED
    BY <2>2, <2>3, <2>4, <2>5, <2>6 DEF IInv
<1> QED
  BY <1>1, <1>2, <1>3, <1>4, <1>5, <1>6 DEF Next

(***************************************************************************)
(* The invariant holds however the three threads of write_verified         *)
(* interleave, for any file, block size and pool bound.                    *)
(***************************************************************************)
THEOREM PipelineInvariant == Spec => []IInv
<1>1. Init => IInv
  BY InitHolds
<1>2. IInv /\ [Next]_vars => IInv'
  BY NextHolds
<1> QED
  BY <1>1, <1>2, PTL DEF Spec

(***************************************************************************)
(* Producer::take: the buffers that exist never outnumber the pool's       *)
(* bound.                                                                  *)
(***************************************************************************)
THEOREM MemoryIsBounded == Spec => []MemoryBound
<1>1. IInv => MemoryBound
  BY DEF IInv, PoolSide
<1> QED
  BY <1>1, PipelineInvariant, PTL

(***************************************************************************)
(* settle: between two files the pool counts exactly the buffers it has.   *)
(***************************************************************************)
THEOREM PoolIsCounted == Spec => []PoolCounted
<1>1. IInv => PoolCounted
  BY DEF IInv, PoolSide
<1> QED
  BY <1>1, PipelineInvariant, PTL

(***************************************************************************)
(* write_verified: execute sees the file's bytes in order, none lost and   *)
(* none twice.                                                             *)
(***************************************************************************)
THEOREM BytesStayInOrder == Spec => []StreamInOrder
<1>1. IInv => StreamInOrder
  BY DEF IInv, StoreSide
<1> QED
  BY <1>1, PipelineInvariant, PTL

(***************************************************************************)
(* hash_stage: a file that differs from its recorded sha256 never reaches  *)
(* its filemark, nor its last block the store.                             *)
(***************************************************************************)
THEOREM MismatchIsNeverMarked == Spec => []MismatchNeverMarked
<1>1. IInv => MismatchNeverMarked
  BY DEF IInv, StoreSide
<1> QED
  BY <1>1, PipelineInvariant, PTL

(***************************************************************************)
(* Streamed::verdict: a file is judged by what happened to it.             *)
(***************************************************************************)
THEOREM VerdictIsJustified == Spec => []VerdictJustified
<1>1. IInv => VerdictJustified
  BY DEF IInv, VerdictSide
<1> QED
  BY <1>1, PipelineInvariant, PTL

(***************************************************************************)
(* PipeReader::next: no stage ends silently under a running store.         *)
(***************************************************************************)
THEOREM NoStageEndsSilently == Spec => []NoSilentEnd
<1>1. IInv => NoSilentEnd
  BY DEF IInv, HashSide, PipeOpen, NoSilentEnd
<1> QED
  BY <1>1, PipelineInvariant, PTL
=============================================================================
