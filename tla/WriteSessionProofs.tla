------------------------- MODULE WriteSessionProofs -------------------------
(***************************************************************************)
(* Theorems about WriteSession for every value of its constants: its type  *)
(* invariant and three of its action properties, from one inductive        *)
(* invariant.                                                              *)
(***************************************************************************)
EXTENDS WriteSession, SequenceTheorems, FiniteSetTheorems, TLAPS

(***************************************************************************)
(* Where the drive's head may be.  Every write starts at a position the    *)
(* tape already reaches, so a tape stays a sequence of files.              *)
(***************************************************************************)
HeadOK ==
    /\ run.pc \in {"entries", "resend"} =>
          run.first <= run.idx /\ run.idx <= Len(tape[loaded])
    /\ run.pc = "resend" => run.idx <= run.ending
    /\ run.pc = "wrote" =>
          /\ run.first <= run.idx
          /\ run.verdict \in {"written", "warned"} => run.idx < Len(tape[loaded])
          /\ run.verdict = "refused" =>
                /\ run.first <= run.refused /\ run.refused <= run.idx
                /\ run.refused <= Len(tape[loaded])
    /\ run.pc = "seal" =>
          run.first <= run.ending + 1 /\ run.ending + 1 <= Len(tape[loaded])

\* A session that may still write has no seal in the catalog.
Writing == {"planned", "entries", "wrote", "seal", "resend", "sealed"}
SealOwed == run.pc \in Writing => sealed = FALSE

\* A writing session holds no aborted row; a confirming one only with the
\* seal recorded and a full verify since the abort.
SessionRows ==
    /\ run.pc \in Writing => \A u \in run.sess : rows[u] # "aborted"
    /\ run.pc \in {"confirm", "reading"} =>
          \A u \in run.sess : rows[u] = "aborted" => sealed = TRUE /\ aborted = "verified"

IInv == TypeOK /\ HeadOK /\ SealOwed /\ SessionRows

-----------------------------------------------------------------------------
(***************************************************************************)
(* Tapes: what a write at a position the tape reaches leaves.              *)
(***************************************************************************)

(* What is kept of a tape up to one of its positions (Keep) is a tape.     *)
LEMMA KeepIsTape ==
    ASSUME NEW t \in Seq(File), NEW n \in Nat, n <= Len(t)
    PROVE  Keep(t, n) \in Seq(File) /\ Len(Keep(t, n)) = n
<1>1. 1 \in 1 .. Len(t) + 1 /\ n \in 1 - 1 .. Len(t)
  BY LenProperties
<1>2. SubSeq(t, 1, n) \in Seq(File)
  BY <1>1, SubSeqProperties
<1>3. Len(SubSeq(t, 1, n)) = n
  BY <1>1, SubSeqProperties
<1> QED BY <1>2, <1>3 DEF Keep

(* The files the model writes are files.                                   *)
LEMMA FilesAreFiles ==
    ASSUME NEW l \in Layouts, NEW k \in Nat
    PROVE  {Whole(l), Part(l), Bad(l), Seal(l, k)} \subseteq File
BY DEF Whole, Part, Bad, Seal, File

(* A file written at a position the tape reaches (Store::execute) is the   *)
(* tape's last.                                                            *)
LEMMA OverwriteIsTape ==
    ASSUME NEW t \in Seq(File), NEW n \in Nat, n <= Len(t), NEW f \in File
    PROVE  Overwrite(t, n, f) \in Seq(File) /\ Len(Overwrite(t, n, f)) = n + 1
<1>1. Keep(t, n) \in Seq(File) /\ Len(Keep(t, n)) = n
  BY KeepIsTape
<1> QED BY <1>1, AppendProperties DEF Overwrite

(* A write that does not finish leaves a tape that reaches its position.   *)
LEMMA TornIsTape ==
    ASSUME NEW t \in Seq(File), NEW n \in Nat, n <= Len(t), NEW l \in Layouts,
           NEW r \in Torn(t, n, l)
    PROVE  r \in Seq(File) /\ n <= Len(r)
<1>1. Part(l) \in File
  BY FilesAreFiles
<1>2. Overwrite(t, n, Part(l)) \in Seq(File) /\ Len(Overwrite(t, n, Part(l))) = n + 1
  BY <1>1, OverwriteIsTape
<1>3. Keep(t, n) \in Seq(File) /\ Len(Keep(t, n)) = n
  BY KeepIsTape
<1> QED BY <1>2, <1>3 DEF Torn

(* The records a command starts from are records of a command.             *)
LEMMA RunsAreRuns ==
    ASSUME NEW S \in SUBSET Units, NEW i \in Nat, NEW k \in Nat, NEW w \in BOOLEAN
    PROVE  {Idle, Session(S), Entries(S, i), Sealing(S, i, k, w), Confirming(S, k, w)}
             \subseteq Run
<1>1. Idle \in Run
  BY DEF Idle, Run, RowStatus
<1>2. Session(S) \in Run
  BY <1>1 DEF Session, Run
<1>3. Entries(S, i) \in Run
  BY <1>1 DEF Entries, Run
<1>4. Sealing(S, i, k, w) \in Run
  BY <1>1 DEF Sealing, Run
<1>5. Confirming(S, k, w) \in Run
  BY <1>1 DEF Confirming, Run
<1> QED BY <1>1, <1>2, <1>3, <1>4, <1>5

(* Marking rows (mark_writes) keeps them rows.                             *)
LEMMA MarkIsRows ==
    ASSUME NEW S, NEW st \in RowStatus, rows \in [Units -> RowStatus]
    PROVE  MarkWrites(S, st) \in [Units -> RowStatus]
BY DEF MarkWrites

(* Recording one position, or demoting the later ones, keeps them          *)
(* positions.                                                              *)
LEMMA PositionsArePositions ==
    ASSUME NEW P, NEW w \in [Positions -> P], wp \in [Positions -> P], "pending" \in P,
           NEW S, NEW n \in Nat, NEW st \in P
    PROVE  /\ DemotePositionsFrom(w, S, n) \in [Positions -> P]
           /\ SetPosition(n, st) \in [Positions -> P]
BY DEF DemotePositionsFrom, SetPosition

(* Every layout ends after its front zone.                                 *)
LEMMA SealPositions ==
    /\ First \in Nat /\ First >= 1 /\ FrontIndex \in Nat
    /\ \A l \in Layouts : SealAt[l] \in Nat /\ SealAt[l] > First /\ SealAt[l] - 1 \in Nat
<1>1. First \in Nat /\ First >= 1 /\ FrontIndex \in Nat
  BY FirstAssumption DEF FrontIndex
<1> QED BY <1>1, SealAtAssumption

(* Before the first write the invariant holds.                             *)
LEMMA InitIInv == Init => IInv
<1> SUFFICES ASSUME Init PROVE IInv
  OBVIOUS
<1>1. Idle \in Run /\ Idle.pc = "idle"
  BY RunsAreRuns DEF Idle
<1>2. 0 \in Layouts
  BY MaxAttemptAssumption DEF Layouts
<1>3. TypeOK
  BY <1>1, <1>2, FoundAssumption DEF Init, TypeOK, NoEnd, RowStatus
<1> QED BY <1>1, <1>3 DEF Init, IInv, HeadOK, SealOwed, SessionRows, Writing

-----------------------------------------------------------------------------
(***************************************************************************)
(* run_entries: the four things that can happen to a file.                 *)
(***************************************************************************)

(* The tape after the drive wrote (Drive) a tape t into the loaded         *)
(* cartridge.                                                              *)
LEMMA DriveIsTapes ==
    ASSUME TypeOK, NEW t \in Seq(File), Drive(t)
    PROVE  tape' \in [Carts -> Seq(File)] /\ tape'[loaded] = t
BY DEF TypeOK, Drive

(* A file written whole, or wrong, keeps the invariant.                    *)
LEMMA EntryWrittenIInv == IInv /\ EntryWritten => IInv'
<1> SUFFICES ASSUME IInv, EntryWritten PROVE IInv'
  OBVIOUS
<1> USE DEF IInv
<1>1. PICK f \in {Whole(att), Bad(att)}, v \in {"written", "warned"} :
         Drive(Overwrite(tape[loaded], run.idx, f)) /\ run' = Verdict(v)
  BY DEF EntryWritten
<1>2. f \in File /\ tape[loaded] \in Seq(File) /\ run.idx \in Nat
      /\ run.idx <= Len(tape[loaded])
  BY FilesAreFiles DEF TypeOK, Run, HeadOK, EntryWritten
<1>3. /\ Overwrite(tape[loaded], run.idx, f) \in Seq(File)
      /\ Len(Overwrite(tape[loaded], run.idx, f)) = run.idx + 1
  BY <1>2, OverwriteIsTape
<1>4. /\ tape' \in [Carts -> Seq(File)]
      /\ tape'[loaded] = Overwrite(tape[loaded], run.idx, f)
  BY <1>1, <1>3, DriveIsTapes
<1>5. /\ run' \in Run /\ run'.pc = "wrote" /\ run'.verdict \in {"written", "warned"}
      /\ run'.first = run.first /\ run'.idx = run.idx /\ run'.sess = run.sess
  BY <1>1 DEF Verdict, TypeOK, Run
<1>6. TypeOK'
  BY <1>4, <1>5 DEF EntryWritten, TypeOK, volVars, rowVars, eventVars
<1>7. HeadOK'
  BY <1>2, <1>3, <1>4, <1>5 DEF HeadOK, EntryWritten
<1>8. SealOwed' /\ SessionRows'
  BY <1>5 DEF SealOwed, SessionRows, Writing, EntryWritten, volVars, rowVars, eventVars
<1> QED BY <1>6, <1>7, <1>8

(* A file that fails (a mismatch, a full medium, an error) keeps it.       *)
LEMMA EntryFailsIInv == IInv /\ EntryFails => IInv'
<1> SUFFICES ASSUME IInv, EntryFails PROVE IInv'
  OBVIOUS
<1> USE DEF IInv
<1>1. PICK t \in Torn(tape[loaded], run.idx, att) \cup {tape[loaded]},
           v \in {"mismatch", "full", "failed"} :
         Drive(t) /\ run' = Verdict(v)
  <2>1. CASE UNCHANGED tape /\ run' = Verdict("failed")
    BY <2>1 DEF Drive, TypeOK
  <2>2. CASE \E t \in Torn(tape[loaded], run.idx, att), v \in {"mismatch", "full", "failed"} :
               Drive(t) /\ run' = Verdict(v)
    BY <2>2
  <2> QED BY <2>1, <2>2 DEF EntryFails
<1>2. /\ tape[loaded] \in Seq(File) /\ run.idx \in Nat /\ att \in Layouts
      /\ run.idx <= Len(tape[loaded]) /\ run.first <= run.idx
  BY DEF TypeOK, Run, HeadOK, EntryFails
<1>3. t \in Seq(File)
  BY <1>1, <1>2, TornIsTape
<1>4. tape' \in [Carts -> Seq(File)]
  BY <1>1, <1>3, DriveIsTapes
<1>5. /\ run' \in Run /\ run'.pc = "wrote" /\ run'.verdict \in {"mismatch", "full", "failed"}
      /\ run'.first = run.first /\ run'.idx = run.idx /\ run'.sess = run.sess
  BY <1>1 DEF Verdict, TypeOK, Run
<1>6. TypeOK'
  BY <1>4, <1>5 DEF EntryFails, TypeOK, volVars, rowVars, eventVars
<1>7. HeadOK'
  BY <1>2, <1>5 DEF HeadOK
<1>8. SealOwed' /\ SessionRows'
  BY <1>5 DEF SealOwed, SessionRows, Writing, EntryFails, volVars, rowVars, eventVars
<1> QED BY <1>6, <1>7, <1>8

(* A refused block, of this file or of one this run sent before it, keeps  *)
(* it: the tape still reaches the file that was refused.                   *)
LEMMA EntryRefusedIInv == IInv /\ EntryRefused => IInv'
<1> SUFFICES ASSUME IInv, EntryRefused PROVE IInv'
  OBVIOUS
<1> USE DEF IInv
<1>1. PICK f \in run.first .. run.idx : \E t \in Torn(tape[loaded], f, att) :
         Drive(t) /\ run' = [Verdict("refused") EXCEPT !.refused = f]
  BY DEF EntryRefused
<1>2. PICK t \in Torn(tape[loaded], f, att) :
         Drive(t) /\ run' = [Verdict("refused") EXCEPT !.refused = f]
  BY <1>1
<1>3. /\ tape[loaded] \in Seq(File) /\ run.idx \in Nat /\ run.first \in Nat /\ att \in Layouts
      /\ run.idx <= Len(tape[loaded])
  BY DEF TypeOK, Run, HeadOK, EntryRefused
<1>4. f \in Nat /\ f <= Len(tape[loaded]) /\ run.first <= f /\ f <= run.idx
  BY <1>3, LenProperties
<1>5. t \in Seq(File) /\ f <= Len(t)
  BY <1>3, <1>4, TornIsTape
<1>6. tape' \in [Carts -> Seq(File)] /\ tape'[loaded] = t
  BY <1>2, <1>5, DriveIsTapes
<1>7. /\ run' \in Run /\ run'.pc = "wrote" /\ run'.verdict = "refused" /\ run'.refused = f
      /\ run'.first = run.first /\ run'.idx = run.idx /\ run'.sess = run.sess
  BY <1>2, <1>4 DEF Verdict, TypeOK, Run
<1>8. TypeOK'
  BY <1>6, <1>7 DEF EntryRefused, TypeOK, volVars, rowVars, eventVars
<1>9. HeadOK'
  BY <1>3, <1>4, <1>5, <1>6, <1>7 DEF HeadOK, EntryRefused
<1>10. SealOwed' /\ SessionRows'
  BY <1>7 DEF SealOwed, SessionRows, Writing, EntryRefused, volVars, rowVars, eventVars
<1> QED BY <1>8, <1>9, <1>10

(* A command that ends without a word about seal, tape or verify leaves    *)
(* the invariant to the types of what it recorded.                         *)
LEMMA EndsIInv ==
    ASSUME TypeOK', run' = Idle
    PROVE  IInv'
BY DEF IInv, HeadOK, SealOwed, SessionRows, Writing, Idle

(* Rows marked interrupted, perhaps not all of them, are rows.             *)
LEMMA InterruptIsRows ==
    ASSUME TypeOK, InterruptRows
    PROVE  rows' \in [Units -> RowStatus]
BY MarkIsRows DEF InterruptRows, TypeOK, RowStatus

(* Rows marked aborted, perhaps not all of them, are rows.                 *)
LEMMA AbortIsRows ==
    ASSUME TypeOK, NEW S, AbortRows(S)
    PROVE  rows' \in [Units -> RowStatus] /\ aborted' \in {"no", "recorded", "verified"}
BY MarkIsRows DEF AbortRows, TypeOK, RowStatus

(* A signal between two files keeps it.                                    *)
LEMMA SignalIInv == IInv /\ SignalInEntries => IInv'
<1> SUFFICES ASSUME IInv, SignalInEntries PROVE IInv'
  OBVIOUS
<1>1. rows' \in [Units -> RowStatus] /\ Idle \in Run
  BY InterruptIsRows, RunsAreRuns DEF SignalInEntries, IInv
<1>2. TypeOK'
  BY <1>1 DEF SignalInEntries, IInv, TypeOK, tapeVars, volVars, eventVars
<1> QED BY <1>2, EndsIInv DEF SignalInEntries

-----------------------------------------------------------------------------
(***************************************************************************)
(* run_entries: what the catalog records of a file.                        *)
(***************************************************************************)

(* The status of a slice recorded (SetPosition) is a position's status.    *)
LEMMA RecordedPosition ==
    ASSUME TypeOK, NEW st \in {"pending", "written", "failed"}
    PROVE  SetPosition(run.idx, st) \in [Positions -> {"none", "pending", "written", "failed"}]
BY DEF TypeOK, SetPosition

(* The panic of a slice without a row keeps it.                            *)
LEMMA RecordPanicsIInv == IInv /\ RecordPanics => IInv'
<1> SUFFICES ASSUME IInv, RecordPanics PROVE IInv'
  OBVIOUS
<1>1. Idle \in Run
  BY RunsAreRuns
<1>2. TypeOK'
  BY <1>1 DEF RecordPanics, IInv, TypeOK, tapeVars, volVars, rowVars
<1> QED BY <1>2, EndsIInv DEF RecordPanics

\* The command's next record: the seal, the next file, the file of a retry.
SealingShort(S, i, k, rt) == [Sealing(S, i, k, TRUE) EXCEPT !.retried = rt]
SealingFull(S, i, k, rt) == [Sealing(S, i, k, FALSE) EXCEPT !.retried = rt]
FileAt(q, i) == [q EXCEPT !.pc = "entries", !.idx = i, !.verdict = "none", !.refused = 0]
RetryAt(q, i, b) == [q EXCEPT !.pc = "entries", !.idx = i, !.verdict = "none",
                              !.refused = 0, !.retried = "loop", !.surfaced = b]

(* What the record of a command about to seal holds.                       *)
LEMMA SealingRun ==
    ASSUME NEW S \in SUBSET Units, NEW i \in Nat, NEW k \in Nat,
           NEW rt \in {"no", "loop", "seal"},
           NEW r \in {SealingShort(S, i, k, rt), SealingFull(S, i, k, rt)}
    PROVE  r \in Run /\ r.pc = "seal" /\ r.sess = S /\ r.first = i /\ r.ending = k
<1>1. PICK q \in {Sealing(S, i, k, TRUE), Sealing(S, i, k, FALSE)} :
         r = [q EXCEPT !.retried = rt]
  BY DEF SealingShort, SealingFull
<1>2. q \in Run
  BY RunsAreRuns
<1>3. q.pc = "seal" /\ q.sess = S /\ q.first = i /\ q.ending = k
  BY DEF Sealing, Idle
<1> QED BY <1>1, <1>2, <1>3 DEF Run

(* What the record of a command going on to file i holds.                  *)
LEMMA NextRun ==
    ASSUME NEW q \in Run, NEW i \in Nat
    PROVE  /\ FileAt(q, i) \in Run
           /\ FileAt(q, i).pc = "entries"
           /\ FileAt(q, i).idx = i
           /\ FileAt(q, i).sess = q.sess
           /\ FileAt(q, i).first = q.first
BY DEF Run, FileAt

(* What the record of a command that retries from file i holds.            *)
LEMMA RetryRun ==
    ASSUME NEW q \in Run, NEW i \in Nat, NEW b \in Nat
    PROVE  /\ RetryAt(q, i, b) \in Run
           /\ RetryAt(q, i, b).pc = "entries"
           /\ RetryAt(q, i, b).idx = i
           /\ RetryAt(q, i, b).sess = q.sess
           /\ RetryAt(q, i, b).first = q.first
BY DEF Run, RetryAt

(* A file recorded written, whether the next file, the planned seal or the *)
(* early warning's seal comes next, keeps it.                              *)
LEMMA RecordWrittenIInv == IInv /\ RecordWritten => IInv'
<1> SUFFICES ASSUME IInv, RecordWritten PROVE IInv'
  OBVIOUS
<1> USE DEF IInv
<1>1. /\ run \in Run /\ run.first \in Nat /\ run.idx \in Nat /\ run.sess \in SUBSET Units
      /\ run.retried \in {"no", "loop", "seal"} /\ warn \in Nat
  BY DEF TypeOK, Run
<1>2. /\ run.pc = "wrote" /\ run.first <= run.idx /\ run.idx < Len(tape[loaded])
      /\ Len(tape[loaded]) \in Nat
  BY LenProperties DEF RecordWritten, Recording, HeadOK, TypeOK
<1>3. /\ run' \in Run /\ warn' \in Nat /\ run'.sess = run.sess /\ run'.first = run.first
      /\ \/ run'.pc = "seal" /\ run'.ending = run.idx
         \/ run'.pc = "entries" /\ run'.idx = run.idx + 1
  <2>1. CASE WarningNow
    <3>1. /\ run' = SealingShort(run.sess, run.first, run.idx, run.retried)
          /\ warn' = run.idx
      BY <2>1 DEF RecordWritten, SealingShort
    <3>2. /\ run' \in Run /\ run'.pc = "seal" /\ run'.ending = run.idx
          /\ run'.sess = run.sess /\ run'.first = run.first
      BY <1>1, <3>1, SealingRun
    <3> QED BY <1>1, <3>1, <3>2
  <2>2. CASE ~WarningNow /\ run.idx + 1 = SealAt[att]
    <3>1. run' = Next1(run.idx + 1) /\ warn' = warn
      BY <2>2 DEF RecordWritten
    <3>2. Next1(run.idx + 1)
            = SealingFull(run.sess, run.first, (run.idx + 1) - 1, run.retried)
      BY <2>2, Zenon DEF Next1, SealingFull
    <3>3. (run.idx + 1) - 1 = run.idx
      BY <1>1
    <3>4. run' = SealingFull(run.sess, run.first, run.idx, run.retried)
      BY <3>1, <3>2, <3>3, Zenon
    <3>5. /\ run' \in Run /\ run'.pc = "seal" /\ run'.ending = run.idx
          /\ run'.sess = run.sess /\ run'.first = run.first
      BY <1>1, <3>4, SealingRun
    <3> QED BY <1>1, <3>1, <3>5
  <2>3. CASE ~WarningNow /\ run.idx + 1 # SealAt[att]
    <3>1. run' = Next1(run.idx + 1) /\ warn' = warn
      BY <2>3 DEF RecordWritten
    <3>2. run' = FileAt(run, run.idx + 1)
      BY <2>3, <3>1, Zenon DEF Next1, FileAt
    <3>3. run \in Run /\ run.idx + 1 \in Nat
      BY <1>1
    <3>4. /\ run' \in Run /\ run'.pc = "entries" /\ run'.idx = run.idx + 1
          /\ run'.sess = run.sess /\ run'.first = run.first
      BY <3>2, <3>3, NextRun
    <3> QED BY <1>1, <3>1, <3>4
  <2> QED BY <2>1, <2>2, <2>3
<1>4. TypeOK'
  BY <1>3, RecordedPosition DEF RecordWritten, TypeOK, tapeVars, volVars
<1>5. HeadOK'
  BY <1>1, <1>2, <1>3 DEF HeadOK, RecordWritten, tapeVars
<1>6. SealOwed' /\ SessionRows'
  BY <1>2, <1>3 DEF SealOwed, SessionRows, Writing, RecordWritten, volVars
<1> QED BY <1>4, <1>5, <1>6

(* The abort of a session in its files keeps it.                           *)
LEMMA RecordAbortedIInv == IInv /\ RecordAborted => IInv'
<1> SUFFICES ASSUME IInv, RecordAborted PROVE IInv'
  OBVIOUS
<1>1. /\ rows' \in [Units -> RowStatus] /\ aborted' \in {"no", "recorded", "verified"}
      /\ Idle \in Run
  BY AbortIsRows, RunsAreRuns DEF RecordAborted, IInv
<1>2. wp' \in [Positions -> {"none", "pending", "written", "failed"}]
  BY RecordedPosition DEF RecordAborted, IInv, TypeOK
<1>3. TypeOK'
  BY <1>1, <1>2 DEF RecordAborted, IInv, TypeOK, tapeVars, volVars
<1> QED BY <1>3, EndsIInv DEF RecordAborted

(* A session stopped by an error, resumable, keeps it.                     *)
LEMMA RecordInterruptedIInv == IInv /\ RecordInterrupted => IInv'
<1> SUFFICES ASSUME IInv, RecordInterrupted PROVE IInv'
  OBVIOUS
<1>1. rows' \in [Units -> RowStatus] /\ Idle \in Run
  BY InterruptIsRows, RunsAreRuns DEF RecordInterrupted, IInv
<1>2. TypeOK'
  BY <1>1, RecordedPosition DEF RecordInterrupted, IInv, TypeOK, tapeVars, volVars, eventVars
<1> QED BY <1>2, EndsIInv DEF RecordInterrupted

(* The one retry returns to a file the tape still reaches.                 *)
LEMMA RecordRetryIInv == IInv /\ RecordRetry => IInv'
<1> SUFFICES ASSUME IInv, RecordRetry PROVE IInv'
  OBVIOUS
<1> USE DEF IInv
<1>1. /\ run \in Run /\ run.pc = "wrote" /\ run.refused \in Nat /\ run.idx \in Nat
      /\ run.first <= run.refused /\ run.refused <= Len(tape[loaded])
  BY DEF RecordRetry, Recording, HeadOK, TypeOK, Run
<1>2. /\ run' \in Run /\ run'.pc = "entries" /\ run'.idx = run.refused
      /\ run'.first = run.first /\ run'.sess = run.sess
  <2>1. PICK before \in {0, run.idx + 1} :
           run' = RetryAt(run, run.refused, before)
    BY DEF RecordRetry, RetryAt
  <2>2. before \in Nat
    BY <1>1
  <2>3. run \in Run /\ run.refused \in Nat
    BY <1>1
  <2> QED BY <2>1, <2>2, <2>3, RetryRun
<1>3. wp' \in [Positions -> {"none", "pending", "written", "failed"}]
  BY <1>1, RecordedPosition DEF RecordRetry, TypeOK, DemotePositionsFrom
<1>4. TypeOK'
  BY <1>2, <1>3 DEF RecordRetry, TypeOK, tapeVars, volVars
<1>5. HeadOK'
  BY <1>1, <1>2 DEF HeadOK, RecordRetry, tapeVars
<1>6. SealOwed' /\ SessionRows'
  BY <1>1, <1>2 DEF SealOwed, SessionRows, Writing, RecordRetry, volVars
<1> QED BY <1>4, <1>5, <1>6

(* A refusal that is not retried keeps it.                                 *)
LEMMA RecordRefusedIInv == IInv /\ RecordRefused => IInv'
<1> SUFFICES ASSUME IInv, RecordRefused PROVE IInv'
  OBVIOUS
<1>1. rows' \in [Units -> RowStatus] /\ Idle \in Run
  BY InterruptIsRows, RunsAreRuns DEF RecordRefused, IInv
<1>2. wp' \in [Positions -> {"none", "pending", "written", "failed"}]
  BY RecordedPosition DEF RecordRefused, IInv, TypeOK, DemotePositionsFrom
<1>3. TypeOK'
  BY <1>1, <1>2 DEF RecordRefused, IInv, TypeOK, tapeVars, volVars
<1> QED BY <1>3, EndsIInv DEF RecordRefused

-----------------------------------------------------------------------------
(***************************************************************************)
(* The seal, and the files sent again before it.                           *)
(***************************************************************************)

(* A write that did not finish at a position the tape reaches leaves tapes *)
(* that reach it.                                                          *)
LEMMA TornDrive ==
    ASSUME TypeOK, NEW n \in Nat, n <= Len(tape[loaded]),
           NEW t \in Torn(tape[loaded], n, att), Drive(t)
    PROVE  /\ tape' \in [Carts -> Seq(File)] /\ tape'[loaded] \in Seq(File)
           /\ n <= Len(tape'[loaded])
<1>1. tape[loaded] \in Seq(File) /\ att \in Layouts
  BY DEF TypeOK
<1>2. t \in Seq(File) /\ n <= Len(t)
  BY <1>1, TornIsTape
<1>3. tape' \in [Carts -> Seq(File)] /\ tape'[loaded] = t
  BY <1>2, DriveIsTapes
<1> QED BY <1>2, <1>3

(* The types of what a command about to seal, or sending files again,      *)
(* works with.                                                             *)
LEMMA SealTypes ==
    ASSUME IInv
    PROVE  /\ run \in Run /\ run.first \in Nat /\ run.idx \in Nat /\ run.ending \in Nat
           /\ run.ending + 1 \in Nat /\ run.idx + 1 \in Nat
           /\ tape[loaded] \in Seq(File) /\ att \in Layouts /\ loaded \in Carts
           /\ Len(tape[loaded]) \in Nat
BY LenProperties DEF IInv, TypeOK, Run

(* The seal written keeps it.                                              *)
LEMMA SealWrittenIInv == IInv /\ SealWritten => IInv'
<1> SUFFICES ASSUME IInv, SealWritten PROVE IInv'
  OBVIOUS
<1>1. run.pc = "seal" /\ run.ending + 1 <= Len(tape[loaded])
  BY DEF IInv, HeadOK, SealWritten
<1>2. Seal(att, run.ending) \in File
  BY SealTypes, FilesAreFiles
<1>3. Overwrite(tape[loaded], run.ending + 1, Seal(att, run.ending)) \in Seq(File)
  BY <1>1, <1>2, SealTypes, OverwriteIsTape
<1>4. tape' \in [Carts -> Seq(File)]
  BY <1>3, DriveIsTapes DEF SealWritten, IInv
<1>5. run' \in Run /\ run'.pc = "sealed" /\ run'.sess = run.sess
  BY SealTypes DEF SealWritten, Run
<1>6. TypeOK'
  BY <1>4, <1>5 DEF SealWritten, IInv, TypeOK, volVars, rowVars, eventVars
<1>7. HeadOK'
  BY <1>5 DEF HeadOK
<1>8. SealOwed' /\ SessionRows'
  BY <1>1, <1>5 DEF IInv, SealOwed, SessionRows, Writing, SealWritten, volVars, rowVars, eventVars
<1> QED BY <1>6, <1>7, <1>8 DEF IInv

(* A seal that fails, perhaps whole on the tape, keeps it.                 *)
LEMMA SealFailsIInv == IInv /\ SealFails => IInv'
<1> SUFFICES ASSUME IInv, SealFails PROVE IInv'
  OBVIOUS
<1>1. run.ending + 1 <= Len(tape[loaded])
  BY DEF IInv, HeadOK, SealFails
<1>2. PICK t \in Torn(tape[loaded], run.ending + 1, att)
                   \cup {Overwrite(tape[loaded], run.ending + 1, Seal(att, run.ending))} :
         Drive(t)
  BY DEF SealFails
<1>3. Seal(att, run.ending) \in File
  BY SealTypes, FilesAreFiles
<1>4. Overwrite(tape[loaded], run.ending + 1, Seal(att, run.ending)) \in Seq(File)
  BY <1>1, <1>3, SealTypes, OverwriteIsTape
<1>5. t \in Seq(File)
  BY <1>1, <1>2, <1>4, SealTypes, TornIsTape
<1>6. tape' \in [Carts -> Seq(File)] /\ Idle \in Run
  BY <1>2, <1>5, DriveIsTapes, RunsAreRuns DEF IInv
<1>7. TypeOK'
  BY <1>6 DEF SealFails, IInv, TypeOK, volVars, rowVars, eventVars
<1> QED BY <1>7, EndsIInv DEF SealFails

(* A medium without room for the seal keeps it.                            *)
LEMMA SealFullIInv == IInv /\ SealFull => IInv'
<1> SUFFICES ASSUME IInv, SealFull PROVE IInv'
  OBVIOUS
<1>1. tape' \in [Carts -> Seq(File)]
  <2>1. CASE run.pc = "seal" /\ \E t \in Torn(tape[loaded], run.ending + 1, att) : Drive(t)
    <3>1. run.ending + 1 <= Len(tape[loaded])
      BY <2>1 DEF IInv, HeadOK
    <3> QED BY <2>1, <3>1, SealTypes, TornDrive DEF IInv
  <2>2. CASE run.pc = "resend" /\ \E t \in Torn(tape[loaded], run.idx, att) : Drive(t)
    <3>1. run.idx <= Len(tape[loaded])
      BY <2>2 DEF IInv, HeadOK
    <3> QED BY <2>2, <3>1, SealTypes, TornDrive DEF IInv
  <2> QED BY <2>1, <2>2 DEF SealFull
<1>2. rows' \in [Units -> RowStatus] /\ Idle \in Run
  BY MarkIsRows, RunsAreRuns DEF SealFull, IInv, TypeOK, RowStatus
<1>3. aborted' \in {"no", "recorded", "verified"}
  BY DEF SealFull, IInv, TypeOK
<1>4. TypeOK'
  BY <1>1, <1>2, <1>3 DEF SealFull, IInv, TypeOK, volVars
<1> QED BY <1>4, EndsIInv DEF SealFull

\* The command's record when it goes back to file f from the seal, and when
\* it has sent file i again.
BackTo(q, f) == [q EXCEPT !.retried = "seal", !.idx = f,
                          !.pc = IF f <= q.ending THEN "resend" ELSE "seal"]
SentAgain(q) == [q EXCEPT !.idx = q.idx + 1,
                          !.pc = IF q.idx < q.ending THEN "resend" ELSE "seal"]

(* What the record of a command that goes back holds.                      *)
LEMMA BackToRun ==
    ASSUME NEW q \in Run, NEW f \in Nat
    PROVE  /\ BackTo(q, f) \in Run /\ BackTo(q, f).idx = f /\ BackTo(q, f).sess = q.sess
           /\ BackTo(q, f).first = q.first /\ BackTo(q, f).ending = q.ending
           /\ BackTo(q, f).pc = IF f <= q.ending THEN "resend" ELSE "seal"
BY DEF Run, BackTo

(* What the record of a command that has sent a file again holds.          *)
LEMMA SentAgainRun ==
    ASSUME NEW q \in Run
    PROVE  /\ SentAgain(q) \in Run /\ SentAgain(q).idx = q.idx + 1 /\ SentAgain(q).sess = q.sess
           /\ SentAgain(q).first = q.first /\ SentAgain(q).ending = q.ending
           /\ SentAgain(q).pc = IF q.idx < q.ending THEN "resend" ELSE "seal"
<1>1. q.idx + 1 \in Nat
  BY DEF Run
<1>2. PICK i \in Nat : i = q.idx + 1
  BY <1>1
<1>3. PICK pc \in {"resend", "seal"} : pc = IF q.idx < q.ending THEN "resend" ELSE "seal"
  OBVIOUS
<1>4. SentAgain(q) = [q EXCEPT !.idx = i, !.pc = pc]
  BY <1>2, <1>3, Zenon DEF SentAgain
<1>5. /\ SentAgain(q) \in Run /\ SentAgain(q).idx = i /\ SentAgain(q).sess = q.sess
      /\ SentAgain(q).first = q.first /\ SentAgain(q).ending = q.ending
      /\ SentAgain(q).pc = pc
  BY <1>4 DEF Run
<1> QED BY <1>2, <1>3, <1>5

(* A refusal at the seal keeps it: a retry returns to a file the tape      *)
(* reaches.                                                                *)
LEMMA SealRefusedIInv == IInv /\ SealRefused => IInv'
<1> SUFFICES ASSUME IInv, SealRefused PROVE IInv'
  OBVIOUS
<1>1. PICK f \in run.first .. run.ending + 1 :
         /\ \E t \in Torn(tape[loaded], f, att) : Drive(t)
         /\ \/ /\ \E S : wp' = DemotePositionsFrom(wp, S, f)
               /\ run' = Idle
            \/ /\ wp' = DemotePositionsFrom(wp, run.sess, f)
               /\ run' = BackTo(run, f)
  BY DEF SealRefused, BackTo
<1>2. run.pc = "seal" /\ run.first <= run.ending + 1 /\ run.ending + 1 <= Len(tape[loaded])
  BY DEF IInv, HeadOK, SealRefused
<1>3. f \in Nat /\ run.first <= f /\ f <= run.ending + 1 /\ f <= Len(tape[loaded])
  BY <1>2, SealTypes
<1>4. /\ tape' \in [Carts -> Seq(File)] /\ tape'[loaded] \in Seq(File)
      /\ f <= Len(tape'[loaded])
  BY <1>1, <1>3, TornDrive DEF IInv
<1>5. wp' \in [Positions -> {"none", "pending", "written", "failed"}]
  BY <1>1, <1>3 DEF IInv, TypeOK, DemotePositionsFrom
<1>6. lbp' \in BOOLEAN
  BY DEF SealRefused, IInv, TypeOK
<1>7. CASE run' = Idle
  <2>1. Idle \in Run
    BY RunsAreRuns
  <2>2. TypeOK'
    BY <1>4, <1>5, <1>6, <1>7, <2>1 DEF SealRefused, IInv, TypeOK, volVars
  <2> QED BY <1>7, <2>2, EndsIInv
<1>8. CASE run' = BackTo(run, f)
  <2>1. /\ run' \in Run /\ run'.idx = f /\ run'.sess = run.sess /\ run'.first = run.first
        /\ run'.ending = run.ending
        /\ run'.pc = IF f <= run.ending THEN "resend" ELSE "seal"
    BY <1>3, <1>8, SealTypes, BackToRun
  <2>2. TypeOK'
    BY <1>4, <1>5, <1>6, <2>1 DEF SealRefused, IInv, TypeOK, volVars
  <2>3. loaded' = loaded /\ sealed' = sealed /\ rows' = rows
    BY DEF SealRefused, volVars
  <2>4. ~(f <= run.ending) => f = run.ending + 1
    BY <1>3, SealTypes
  <2>5. HeadOK'
    BY <1>3, <1>4, <2>1, <2>3, <2>4, SealTypes DEF HeadOK
  <2>6. SealOwed' /\ SessionRows'
    BY <1>2, <2>1, <2>3 DEF IInv, SealOwed, SessionRows, Writing
  <2> QED BY <2>2, <2>5, <2>6 DEF IInv
<1> QED BY <1>1, <1>7, <1>8

(* A file sent again keeps it.                                             *)
LEMMA ResendWrittenIInv == IInv /\ ResendWritten => IInv'
<1> SUFFICES ASSUME IInv, ResendWritten PROVE IInv'
  OBVIOUS
<1>1. PICK f \in {Whole(att), Bad(att)} : Drive(Overwrite(tape[loaded], run.idx, f))
  BY DEF ResendWritten
<1>2. /\ run.pc = "resend" /\ run.first <= run.idx /\ run.idx <= Len(tape[loaded])
      /\ run.idx <= run.ending
  BY DEF IInv, HeadOK, ResendWritten
<1>3. f \in File
  BY SealTypes, FilesAreFiles
<1>4. /\ Overwrite(tape[loaded], run.idx, f) \in Seq(File)
      /\ Len(Overwrite(tape[loaded], run.idx, f)) = run.idx + 1
  BY <1>2, <1>3, SealTypes, OverwriteIsTape
<1>5. /\ tape' \in [Carts -> Seq(File)] /\ Len(tape'[loaded]) = run.idx + 1
  BY <1>1, <1>4, DriveIsTapes DEF IInv
<1>6. run' = SentAgain(run)
  BY DEF ResendWritten, SentAgain
<1>7. /\ run' \in Run /\ run'.idx = run.idx + 1 /\ run'.sess = run.sess
      /\ run'.first = run.first /\ run'.ending = run.ending
      /\ run'.pc = IF run.idx < run.ending THEN "resend" ELSE "seal"
  BY <1>6, SealTypes, SentAgainRun
<1>8. wp' \in [Positions -> {"none", "pending", "written", "failed"}]
  BY RecordedPosition DEF ResendWritten, IInv, TypeOK
<1>9. TypeOK'
  BY <1>5, <1>7, <1>8 DEF ResendWritten, IInv, TypeOK, volVars, eventVars
<1>10. loaded' = loaded /\ sealed' = sealed /\ rows' = rows
  BY DEF ResendWritten, volVars
<1>11. HeadOK'
  BY <1>2, <1>5, <1>7, <1>10, SealTypes DEF HeadOK
<1>12. SealOwed' /\ SessionRows'
  BY <1>2, <1>7, <1>10 DEF IInv, SealOwed, SessionRows, Writing
<1> QED BY <1>9, <1>11, <1>12 DEF IInv

(* A file that cannot be sent again keeps it.                              *)
LEMMA ResendFailsIInv == IInv /\ ResendFails => IInv'
<1> SUFFICES ASSUME IInv, ResendFails PROVE IInv'
  OBVIOUS
<1>1. run.first <= run.idx /\ run.idx <= Len(tape[loaded])
  BY DEF IInv, HeadOK, ResendFails
<1>2. PICK f \in run.first .. run.idx : \E t \in Torn(tape[loaded], f, att) : Drive(t)
  BY <1>1, SealTypes DEF ResendFails
<1>3. f \in Nat /\ f <= Len(tape[loaded])
  BY <1>1, SealTypes
<1>4. tape' \in [Carts -> Seq(File)] /\ Idle \in Run
  BY <1>2, <1>3, TornDrive, RunsAreRuns DEF IInv
<1>5. lbp' \in BOOLEAN
  BY DEF ResendFails, IInv, TypeOK
<1>6. TypeOK'
  BY <1>4, <1>5 DEF ResendFails, IInv, TypeOK, volVars, rowVars
<1> QED BY <1>6, EndsIInv DEF ResendFails

-----------------------------------------------------------------------------
(***************************************************************************)
(* The confirm.                                                            *)
(***************************************************************************)

(* What the record of a command about to confirm holds.                    *)
LEMMA ConfirmingRun ==
    ASSUME NEW S \in SUBSET Units, NEW k \in Nat, NEW w \in BOOLEAN
    PROVE  /\ Confirming(S, k, w) \in Run /\ Confirming(S, k, w).pc = "confirm"
           /\ Confirming(S, k, w).sess = S
<1>1. Confirming(S, k, w) \in Run
  BY RunsAreRuns
<1> QED BY <1>1 DEF Confirming, Idle

(* The endings the catalog records (COALESCE) are positions.               *)
LEMMA EndingsAreNat ==
    ASSUME TypeOK, NEW k \in Nat
    PROVE  /\ RecordedEndedAfter(att, k) \in Nat
           /\ Coalesce(RecordedEndedAfter(att, k), ended) \in Nat
           /\ RecordedEnding \in Nat
<1>1. SealAt[att] - 1 \in Nat
  BY SealPositions DEF TypeOK
<1> QED BY <1>1 DEF RecordedEndedAfter, Coalesce, RecordedEnding, NoEnd, TypeOK

(* A session that goes on to the confirm, or ends, keeps the invariant.    *)
LEMMA ConfirmsIInv ==
    ASSUME TypeOK', run'.pc \in {"confirm", "reading"},
           \A u \in run'.sess : rows'[u] = "aborted" => sealed' = TRUE /\ aborted' = "verified"
    PROVE  IInv'
<1>1. HeadOK'
  BY DEF HeadOK
<1>2. SealOwed'
  BY DEF SealOwed, Writing
<1>3. SessionRows'
  BY DEF SessionRows, Writing
<1> QED BY <1>1, <1>2, <1>3 DEF IInv

(* The seal recorded keeps it.                                             *)
LEMMA RecordSealIInv == IInv /\ RecordSeal => IInv'
<1> SUFFICES ASSUME IInv, RecordSeal PROVE IInv'
  OBVIOUS
<1>1. ended' \in Nat
  BY SealTypes, EndingsAreNat DEF RecordSeal, IInv
<1>2. CASE run' = Confirming(run.sess, run.ending, run.warned) /\ UNCHANGED rows
  <2>1. run.sess \in SUBSET Units /\ run.ending \in Nat /\ run.warned \in BOOLEAN
    BY DEF IInv, TypeOK, Run
  <2>2. run' \in Run /\ run'.pc = "confirm" /\ run'.sess = run.sess
    BY <1>2, <2>1, ConfirmingRun
  <2>3. TypeOK'
    BY <1>1, <1>2, <2>2 DEF RecordSeal, IInv, TypeOK, tapeVars, eventVars
  <2>4. \A u \in run.sess : rows[u] # "aborted"
    BY DEF RecordSeal, IInv, SessionRows, Writing
  <2> QED BY <1>2, <2>2, <2>3, <2>4, ConfirmsIInv
<1>3. CASE run' = Idle /\ InterruptRows
  <2>1. rows' \in [Units -> RowStatus] /\ Idle \in Run
    BY <1>3, InterruptIsRows, RunsAreRuns DEF IInv
  <2>2. TypeOK'
    BY <1>1, <1>3, <2>1 DEF RecordSeal, IInv, TypeOK, tapeVars, eventVars
  <2> QED BY <1>3, <2>2, EndsIInv
<1> QED BY <1>2, <1>3 DEF RecordSeal

(* The statuses read before the readback keep it.                          *)
LEMMA ConfirmStartsIInv == IInv /\ ConfirmStarts => IInv'
<1> SUFFICES ASSUME IInv, ConfirmStarts PROVE IInv'
  OBVIOUS
<1>1. run' \in Run /\ run'.pc = "reading" /\ run'.sess = run.sess
  BY DEF IInv, TypeOK, Run, ConfirmStarts
<1>2. TypeOK'
  BY <1>1 DEF ConfirmStarts, IInv, TypeOK, tapeVars, volVars, rowVars, eventVars
<1>3. \A u \in run.sess : rows[u] = "aborted" => sealed = TRUE /\ aborted = "verified"
  BY DEF ConfirmStarts, IInv, SessionRows
<1> QED BY <1>1, <1>2, <1>3, ConfirmsIInv DEF ConfirmStarts, volVars, rowVars, eventVars

(* The verdict of the confirm, one transaction, keeps it.                  *)
LEMMA ConfirmPassesIInv == IInv /\ ConfirmPasses => IInv'
<1> SUFFICES ASSUME IInv, ConfirmPasses PROVE IInv'
  OBVIOUS
<1>1. \A u \in Units : Split(u, run.ending) \in RowStatus
  BY DEF Split, SpanSplit, RowStatus
<1>2. rows' \in [Units -> RowStatus]
  BY <1>1 DEF ConfirmPasses, IInv, TypeOK
<1>3. vrf' \in [Units -> BOOLEAN]
  BY DEF ConfirmPasses, IInv, TypeOK
<1>4. wp' \in [Positions -> {"none", "pending", "written", "failed"}]
  BY DEF ConfirmPasses, IInv, TypeOK
<1>5. ended' \in Nat /\ Idle \in Run
  BY SealTypes, EndingsAreNat, RunsAreRuns DEF ConfirmPasses, IInv
<1>6. TypeOK'
  BY <1>2, <1>3, <1>4, <1>5 DEF ConfirmPasses, IInv, TypeOK, tapeVars, eventVars
<1> QED BY <1>6, EndsIInv DEF ConfirmPasses

(* A confirm that is rolled back, finds the medium bad, or learns nothing  *)
(* keeps it.                                                               *)
LEMMA ConfirmEndsIInv ==
    IInv /\ (ConfirmRollsBack \/ ConfirmQuarantines \/ ConfirmInconclusive) => IInv'
<1> SUFFICES ASSUME IInv, ConfirmRollsBack \/ ConfirmQuarantines \/ ConfirmInconclusive
             PROVE  IInv'
  OBVIOUS
<1>1. Idle \in Run
  BY RunsAreRuns
<1>2. CASE ConfirmRollsBack
  <2>1. TypeOK'
    BY <1>1, <1>2 DEF ConfirmRollsBack, IInv, TypeOK, tapeVars, volVars, rowVars, eventVars
  <2> QED BY <1>2, <2>1, EndsIInv DEF ConfirmRollsBack
<1>3. CASE ConfirmQuarantines
  <2>1. rows' \in [Units -> RowStatus]
    BY <1>3, MarkIsRows DEF ConfirmQuarantines, IInv, TypeOK, RowStatus
  <2>2. TypeOK'
    BY <1>1, <1>3, <2>1 DEF ConfirmQuarantines, IInv, TypeOK, tapeVars
  <2> QED BY <1>3, <2>2, EndsIInv DEF ConfirmQuarantines
<1>4. CASE ConfirmInconclusive
  <2>1. rows' \in [Units -> RowStatus]
    BY <1>4, InterruptIsRows DEF ConfirmInconclusive, IInv
  <2>2. TypeOK'
    BY <1>1, <1>4, <2>1 DEF ConfirmInconclusive, IInv, TypeOK, tapeVars, volVars, eventVars
  <2> QED BY <1>4, <2>2, EndsIInv DEF ConfirmInconclusive
<1> QED BY <1>2, <1>3, <1>4

-----------------------------------------------------------------------------
(***************************************************************************)
(* volume write up to its first file, and volume resume.                   *)
(***************************************************************************)

(* The plan keeps it: its rows are all planned, and no seal is recorded.   *)
LEMMA PlanIInv == IInv /\ Plan => IInv'
<1> SUFFICES ASSUME IInv, Plan PROVE IInv'
  OBVIOUS
<1> DEFINE S == {u \in Units : Slices(att + 1, u) # {}}
<1>1. /\ run' = Session(S)
      /\ rows' = [u \in Units |-> IF u \in S THEN "planned" ELSE "none"]
      /\ wp' = [p \in Positions |->
                  IF p \in SlicePositions(att + 1) THEN "pending" ELSE "none"]
      /\ att' = att + 1
  BY DEF Plan
<1>2. Session(S) \in Run
  BY RunsAreRuns
<1>3. Session(S).pc = "planned" /\ Session(S).sess = S
  BY DEF Session, Idle
<1>4. att' \in Layouts
  BY <1>1, MaxAttemptAssumption DEF Plan, IInv, TypeOK, Layouts
<1>5. bound' \in Carts \cup {NoCart}
  BY DEF Plan, IInv, TypeOK
<1>6. rows' \in [Units -> RowStatus]
  BY <1>1 DEF RowStatus
<1>7. wp' \in [Positions -> {"none", "pending", "written", "failed"}]
  BY <1>1
<1>8. vrf' \in [Units -> BOOLEAN] /\ warn' \in Nat /\ peek' \in BOOLEAN
  BY DEF Plan, NoEnd
<1>9. TypeOK'
  BY <1>1, <1>2, <1>4, <1>5, <1>6, <1>7, <1>8 DEF Plan, IInv, TypeOK, tapeVars
<1>10. HeadOK'
  BY <1>1, <1>3 DEF HeadOK
<1>11. sealed' = FALSE
  BY DEF Plan, PrecontactRefusal, IInv, TypeOK
<1>12. \A u \in S : rows'[u] # "aborted"
  BY <1>1
<1>13. SealOwed' /\ SessionRows'
  BY <1>1, <1>3, <1>11, <1>12 DEF SealOwed, SessionRows
<1> QED BY <1>9, <1>10, <1>13 DEF IInv

(* What the record of a command about to write from file i holds.          *)
LEMMA EntriesRun ==
    ASSUME NEW S \in SUBSET Units, NEW i \in Nat
    PROVE  /\ Entries(S, i) \in Run /\ Entries(S, i).pc = "entries" /\ Entries(S, i).sess = S
           /\ Entries(S, i).first = i /\ Entries(S, i).idx = i
<1>1. Entries(S, i) \in Run
  BY RunsAreRuns
<1> QED BY <1>1 DEF Entries, Idle

(* The rows marked in_progress, or kept because a unit of theirs is        *)
(* recorded, are not aborted.                                              *)
LEMMA StartedRows ==
    ASSUME NEW S \in SUBSET Units, rows \in [Units -> RowStatus],
           rows' = MarkWrites(S, "in_progress")
    PROVE  rows' \in [Units -> RowStatus] /\ \A u \in S : rows'[u] # "aborted"
BY DEF MarkWrites, RowStatus

(* A command that starts to write keeps it, where the tape reaches.        *)
LEMMA StartsIInv ==
    ASSUME TypeOK', sealed' = FALSE, \A u \in run'.sess : rows'[u] # "aborted",
           \/ /\ run'.pc = "entries" /\ run'.first = run'.idx
              /\ run'.idx \in Nat /\ run'.idx <= Len(tape'[loaded'])
           \/ /\ run'.pc = "seal" /\ run'.first = run'.ending + 1
              /\ run'.ending \in Nat /\ run'.first <= Len(tape'[loaded'])
    PROVE  IInv'
<1>1. HeadOK'
  BY DEF HeadOK
<1>2. SealOwed' /\ SessionRows'
  BY DEF SealOwed, SessionRows
<1> QED BY <1>1, <1>2 DEF IInv

(* The planned session begins at the beginning of the tape.                *)
LEMMA ExecuteIInv == IInv /\ Execute => IInv'
<1> SUFFICES ASSUME IInv, Execute PROVE IInv'
  OBVIOUS
<1>1. run.sess \in SUBSET Units /\ rows \in [Units -> RowStatus]
  BY DEF IInv, TypeOK, Run
<1>2. /\ run' \in Run /\ run'.pc = "entries" /\ run'.sess = run.sess
      /\ run'.first = 0 /\ run'.idx = 0
  BY <1>1, EntriesRun DEF Execute
<1>3. rows' \in [Units -> RowStatus] /\ \A u \in run.sess : rows'[u] # "aborted"
  BY <1>1, StartedRows DEF Execute
<1>4. TypeOK'
  BY <1>2, <1>3 DEF Execute, IInv, TypeOK, tapeVars, volVars, eventVars
<1>5. sealed' = FALSE
  BY DEF Execute, IInv, SealOwed, Writing, volVars
<1>6. 0 <= Len(tape'[loaded'])
  BY SealTypes DEF Execute, tapeVars
<1>7. /\ run'.pc = "entries" /\ run'.first = run'.idx
      /\ run'.idx \in Nat /\ run'.idx <= Len(tape'[loaded'])
  BY <1>2, <1>6
<1>8. \A u \in run'.sess : rows'[u] # "aborted"
  BY <1>2, <1>3
<1> QED BY <1>4, <1>5, <1>7, <1>8, StartsIInv

(* The rows a resume takes over: aborted ones only after a clean verify of *)
(* a sealed tape, and none when it is to write.                            *)
LEMMA AdoptedRows ==
    ASSUME IInv, NEW S \in SUBSET Units, NEW adopted \in BOOLEAN, Adopts(S, adopted)
    PROVE  /\ \A u \in S : rows[u] = "aborted" => sealed = TRUE /\ aborted = "verified"
           /\ run.pc = "idle"
BY DEF Adopts, AbortedAdoption, RowsIn, IInv, TypeOK

(* A resume of a recorded seal keeps it.                                   *)
LEMMA ResumeConfirmsIInv == IInv /\ ResumeConfirms => IInv'
<1> SUFFICES ASSUME IInv, ResumeConfirms PROVE IInv'
  OBVIOUS
<1>1. PICK S \in SUBSET Units, adopted \in BOOLEAN :
         Adopts(S, adopted) /\ run' = Confirming(S, RecordedEnding, warn # NoEnd)
  BY DEF ResumeConfirms
<1>2. RecordedEnding \in Nat /\ (warn # NoEnd) \in BOOLEAN
  BY EndingsAreNat DEF IInv
<1>3. run' \in Run /\ run'.pc = "confirm" /\ run'.sess = S
  BY <1>1, <1>2, ConfirmingRun
<1>4. TypeOK'
  BY <1>3 DEF ResumeConfirms, IInv, TypeOK, tapeVars, volVars, rowVars, eventVars
<1>5. \A u \in S : rows[u] = "aborted" => sealed = TRUE /\ aborted = "verified"
  BY <1>1, AdoptedRows
<1>6. rows' = rows /\ sealed' = sealed /\ aborted' = aborted
  BY DEF ResumeConfirms, volVars, rowVars, eventVars
<1> QED BY <1>3, <1>4, <1>5, <1>6, ConfirmsIInv

(* The ending a seal found at contact states is a position: File 0 is no   *)
(* seal, so the seal is after it.                                          *)
LEMMA ReconfirmEndingsAreNat ==
    ASSUME NEW t \in Seq(File), NEW l \in Layouts, NEW k \in ReconfirmEndings(t, l)
    PROVE  k \in Nat
<1>1. Len(t) \in Nat /\ SealAt[l] \in Nat
  BY LenProperties, SealPositions
<1> DEFINE s == LocateSeal(t, SealAt[l], TRUE).at
<1>2. Len(t) # 0 /\ At(t, 0).kind = "whole" /\ k = s - 1 /\ At(t, s).kind = "seal"
  BY DEF ReconfirmEndings
<1>3. s = IF Len(t) > SealAt[l] THEN SealAt[l] ELSE Len(t) - 1
  BY <1>1, <1>2 DEF LocateSeal
<1> HIDE DEF s
<1>4. s \in Nat
  BY <1>1, <1>2, <1>3
<1>5. s # 0
  BY <1>2
<1> QED BY <1>2, <1>4, <1>5

(* A resume that finds its own seal on the tape keeps it.                  *)
LEMMA ResumeFindsSealIInv == IInv /\ ResumeFindsSeal => IInv'
<1> SUFFICES ASSUME IInv, ResumeFindsSeal PROVE IInv'
  OBVIOUS
<1>1. PICK S \in SUBSET Units, adopted \in BOOLEAN,
           k \in ReconfirmEndings(tape[loaded], att) :
         /\ Adopts(S, adopted) /\ run' = Confirming(S, k, warn # NoEnd)
         /\ ended' = Coalesce(RecordedEndedAfter(att, k), ended)
  BY DEF ResumeFindsSeal
<1>2. k \in Nat /\ (warn # NoEnd) \in BOOLEAN
  BY SealTypes, ReconfirmEndingsAreNat
<1>3. run' \in Run /\ run'.pc = "confirm" /\ run'.sess = S
  BY <1>1, <1>2, ConfirmingRun
<1>4. ended' \in Nat
  BY <1>1, <1>2, EndingsAreNat DEF IInv
<1>5. TypeOK'
  BY <1>3, <1>4 DEF ResumeFindsSeal, IInv, TypeOK, tapeVars, rowVars, eventVars
<1>6. \A u \in S : rows[u] = "aborted" => sealed = TRUE /\ aborted = "verified"
  BY <1>1, AdoptedRows
<1>7. rows' = rows /\ sealed' = TRUE /\ aborted' = aborted
  BY DEF ResumeFindsSeal, rowVars, eventVars
<1> QED BY <1>3, <1>5, <1>6, <1>7, ConfirmsIInv

(* A command that leaves the lock free keeps the invariant.                *)
LEMMA StaysIdleIInv ==
    ASSUME TypeOK', run' = run, run.pc = "idle"
    PROVE  IInv'
BY DEF IInv, HeadOK, SealOwed, SessionRows, Writing

(* A resume that quarantines keeps it.                                     *)
LEMMA ResumeQuarantinesIInv == IInv /\ ResumeQuarantines => IInv'
<1> SUFFICES ASSUME IInv, ResumeQuarantines PROVE IInv'
  OBVIOUS
<1>1. PICK S \in SUBSET Units, adopted \in BOOLEAN :
         Adopts(S, adopted) /\ rows' = MarkWrites(S, "aborted")
  BY DEF ResumeQuarantines
<1>2. rows' \in [Units -> RowStatus]
  BY <1>1, MarkIsRows DEF IInv, TypeOK, RowStatus
<1>3. TypeOK'
  BY <1>2 DEF ResumeQuarantines, IInv, TypeOK, tapeVars
<1>4. run.pc = "idle" /\ run' = run
  BY <1>1, AdoptedRows DEF ResumeQuarantines
<1> QED BY <1>3, <1>4, StaysIdleIInv

(* The cursor a resume computes is a position.                             *)
LEMMA CursorIsNat ==
    ASSUME TypeOK, NEW S \in SUBSET Units
    PROVE  ResumeCursor(S) \in Nat
<1>1. First \in Int /\ SealAt[att] - 1 \in Int
  BY SealPositions DEF TypeOK
<1>2. IsFiniteSet(SlicePositions(att))
  BY <1>1, FS_Interval DEF SlicePositions
<1>3. {p \in SlicePositions(att) : wp[p] = "written" /\ UnitOf[att][p] \in S}
        \in SUBSET SlicePositions(att)
  OBVIOUS
<1>4. IsFiniteSet({p \in SlicePositions(att) : wp[p] = "written" /\ UnitOf[att][p] \in S})
  BY <1>2, <1>3, FS_Subset
<1>5. CountWrittenSlices(S) \in Nat
  BY <1>4, FS_CardinalityType DEF CountWrittenSlices
<1> QED BY <1>5, SealPositions DEF ResumeCursor

(* Repositioning (reposition_at_most) stays on the tape.                   *)
LEMMA RepositionIsReached ==
    ASSUME NEW t \in Seq(File), NEW n \in Nat
    PROVE  RepositionAtMost(t, n) \in Nat /\ RepositionAtMost(t, n) <= Len(t)
BY LenProperties DEF RepositionAtMost

(* A restarted session keeps it where it starts within the tape; a kill    *)
(* while the rows are marked ends it.                                      *)
LEMMA RestartIInv ==
    ASSUME IInv, NEW S \in SUBSET Units, NEW started, Restart(S, started), started \in Run,
           started.sess = S, sealed' = FALSE,
           rows' \in [Units -> RowStatus] /\ run' \in Run => TypeOK',
           \/ /\ started.pc = "entries" /\ started.first = started.idx
              /\ started.idx \in Nat /\ started.idx <= Len(tape'[loaded'])
           \/ /\ started.pc = "seal" /\ started.first = started.ending + 1
              /\ started.ending \in Nat /\ started.first <= Len(tape'[loaded'])
    PROVE  IInv'
<1>1. PICK M \in MarkedOf(S) :
         rows' = MarkWrites(M, "in_progress") /\ run' = IF M = S THEN started ELSE Idle
  BY DEF Restart
<1>2. rows' \in [Units -> RowStatus]
  BY <1>1, MarkIsRows DEF IInv, TypeOK, RowStatus
<1>3. TypeOK'
  BY <1>1, <1>2, RunsAreRuns
<1>4. CASE M = S
  <2>1. run' = started
    BY <1>1, <1>4
  <2>2. \A u \in S : rows'[u] # "aborted"
    BY <1>1, <1>4, StartedRows DEF IInv, TypeOK
  <2> QED BY <1>3, <2>1, <2>2, StartsIInv
<1>5. CASE M # S
  BY <1>1, <1>3, <1>5, EndsIInv
<1> QED BY <1>4, <1>5

(* What the record of a resumed command about to seal holds.               *)
LEMMA ResealingRun ==
    ASSUME NEW S \in SUBSET Units, NEW i \in Nat, i - 1 \in Nat,
           NEW r \in {Sealing(S, i, i - 1, TRUE), Sealing(S, i, i - 1, FALSE)}
    PROVE  /\ r \in Run /\ r.pc = "seal" /\ r.sess = S /\ r.first = i
           /\ r.first = r.ending + 1 /\ r.ending \in Nat
<1>1. r \in Run
  BY RunsAreRuns
<1>2. r.pc = "seal" /\ r.sess = S /\ r.first = i /\ r.ending = i - 1
  BY DEF Sealing, Idle
<1> QED BY <1>1, <1>2

(* A resume that may have to demote positions keeps them positions, and    *)
(* restarts the session or, killed in between, leaves rows and lock alone. *)
LEMMA DemotesThenRestarts ==
    ASSUME IInv, NEW S, NEW from, NEW started,
           DemoteAndRestart(S, from, started) \/ (Restart(S, started) /\ UNCHANGED wp)
    PROVE  /\ wp' \in [Positions -> {"none", "pending", "written", "failed"}]
           /\ Restart(S, started) \/ (rows' = rows /\ run' = run)
<1>1. CASE DemoteAndRestart(S, from, started)
  <2>1. PICK D \in MarkedOf(S) :
           /\ wp' = DemotePositionsFrom(wp, D, from)
           /\ Restart(S, started) \/ (rows' = rows /\ run' = run)
    BY <1>1 DEF DemoteAndRestart
  <2>2. wp' \in [Positions -> {"none", "pending", "written", "failed"}]
    BY <2>1 DEF IInv, TypeOK, DemotePositionsFrom
  <2> QED BY <2>1, <2>2
<1>2. CASE Restart(S, started) /\ UNCHANGED wp
  BY <1>2 DEF IInv, TypeOK
<1> QED BY <1>1, <1>2

(* A resume that writes on from its cursor keeps it.                       *)
LEMMA ResumeWritesIInv == IInv /\ ResumeWrites => IInv'
<1> SUFFICES ASSUME IInv, ResumeWrites PROVE IInv'
  OBVIOUS
<1>1. PICK S \in SUBSET Units :
         LET start == RepositionAtMost(tape[loaded], ResumeCursor(S))
             started == IF start = SealAt[att] THEN Sealing(S, start, start - 1, FALSE)
                        ELSE Entries(S, start)
         IN  /\ ResumeMayWrite(S)
             /\ DemoteAndRestart(S, start, started) \/ (Restart(S, started) /\ UNCHANGED wp)
  BY DEF ResumeWrites
<1> DEFINE start == RepositionAtMost(tape[loaded], ResumeCursor(S))
<1> DEFINE started == IF start = SealAt[att] THEN Sealing(S, start, start - 1, FALSE)
                      ELSE Entries(S, start)
<1>2. start \in Nat /\ start <= Len(tape[loaded])
  BY SealTypes, CursorIsNat, RepositionIsReached DEF IInv
<1>3. DemoteAndRestart(S, start, started) \/ (Restart(S, started) /\ UNCHANGED wp)
  BY <1>1
<1>4. /\ wp' \in [Positions -> {"none", "pending", "written", "failed"}]
      /\ Restart(S, started) \/ (rows' = rows /\ run' = run)
  <2> HIDE DEF start, started
  <2> QED BY <1>3, DemotesThenRestarts
<1>5. sealed' = FALSE
  BY <1>1 DEF ResumeWrites, ResumeMayWrite, volVars, IInv, TypeOK
<1>6. tape' = tape /\ loaded' = loaded
  BY DEF ResumeWrites, tapeVars
<1>7. rows' \in [Units -> RowStatus] /\ run' \in Run => TypeOK'
  BY <1>4 DEF ResumeWrites, IInv, TypeOK, tapeVars, volVars, eventVars
<1> HIDE DEF start
<1>8. CASE rows' = rows /\ run' = run
  <2>1. run.pc = "idle"
    BY <1>1 DEF ResumeMayWrite, Adopts
  <2>2. TypeOK'
    BY <1>7, <1>8 DEF IInv, TypeOK
  <2> QED BY <1>8, <2>1, <2>2, StaysIdleIInv
<1>9. CASE Restart(S, started) /\ start = SealAt[att]
  <2>1. start - 1 \in Nat
    BY <1>2, <1>9, SealPositions, SealTypes
  <2>2. started \in {Sealing(S, start, start - 1, TRUE), Sealing(S, start, start - 1, FALSE)}
    BY <1>9
  <2> HIDE DEF started
  <2>3. /\ started \in Run /\ started.pc = "seal" /\ started.sess = S /\ started.first = start
        /\ started.first = started.ending + 1 /\ started.ending \in Nat
    BY <1>2, <2>1, <2>2, ResealingRun
  <2> QED BY <1>2, <1>5, <1>6, <1>7, <1>9, <2>3, RestartIInv
<1>10. CASE Restart(S, started) /\ start # SealAt[att]
  <2>1. started = Entries(S, start)
    BY <1>10
  <2> HIDE DEF started
  <2>2. /\ started \in Run /\ started.pc = "entries" /\ started.sess = S
        /\ started.first = start /\ started.idx = start
    BY <1>2, <2>1, EntriesRun
  <2> QED BY <1>2, <1>5, <1>6, <1>7, <1>10, <2>2, RestartIInv
<1> QED BY <1>4, <1>8, <1>9, <1>10

(* A resume after a recorded warning keeps it.                             *)
LEMMA ResumeSealsIInv == IInv /\ ResumeSeals => IInv'
<1> SUFFICES ASSUME IInv, ResumeSeals PROVE IInv'
  OBVIOUS
<1>1. PICK S \in SUBSET Units :
         LET sealAt == RepositionAtMost(tape[loaded], warn + 1)
         IN  /\ ResumeMayWrite(S)
             /\ IF sealAt > First
                THEN /\ \/ DemoteAndRestart(S, sealAt, Sealing(S, sealAt, sealAt - 1, TRUE))
                        \/ Restart(S, Sealing(S, sealAt, sealAt - 1, TRUE)) /\ UNCHANGED wp
                     /\ UNCHANGED aborted
                ELSE AbortRows(S) /\ UNCHANGED <<wp, run>>
  BY DEF ResumeSeals
<1> DEFINE sealAt == RepositionAtMost(tape[loaded], warn + 1)
<1>2. sealAt \in Nat /\ sealAt <= Len(tape[loaded])
  <2>1. warn + 1 \in Nat
    BY DEF IInv, TypeOK
  <2> QED BY <2>1, SealTypes, RepositionIsReached
<1>3. sealed' = FALSE
  BY <1>1 DEF ResumeSeals, ResumeMayWrite, volVars, IInv, TypeOK
<1>4. tape' = tape /\ loaded' = loaded
  BY DEF ResumeSeals, tapeVars
<1>5. CASE sealAt > First
  <2> DEFINE started == Sealing(S, sealAt, sealAt - 1, TRUE)
  <2>1. /\ DemoteAndRestart(S, sealAt, started) \/ (Restart(S, started) /\ UNCHANGED wp)
        /\ aborted' = aborted
    BY <1>1, <1>5
  <2>2. /\ wp' \in [Positions -> {"none", "pending", "written", "failed"}]
        /\ Restart(S, started) \/ (rows' = rows /\ run' = run)
    <3> HIDE DEF sealAt, started
    <3> QED BY <2>1, DemotesThenRestarts
  <2>3. rows' \in [Units -> RowStatus] /\ run' \in Run => TypeOK'
    BY <2>1, <2>2 DEF ResumeSeals, IInv, TypeOK, tapeVars, volVars
  <2>4. sealAt - 1 \in Nat
    BY <1>2, <1>5, SealPositions
  <2> HIDE DEF sealAt
  <2>5. started \in {Sealing(S, sealAt, sealAt - 1, TRUE), Sealing(S, sealAt, sealAt - 1, FALSE)}
    OBVIOUS
  <2> HIDE DEF started
  <2>6. /\ started \in Run /\ started.pc = "seal" /\ started.sess = S /\ started.first = sealAt
        /\ started.first = started.ending + 1 /\ started.ending \in Nat
    BY <1>2, <2>4, <2>5, ResealingRun
  <2>7. CASE Restart(S, started)
    BY <1>2, <1>3, <1>4, <2>3, <2>6, <2>7, RestartIInv
  <2>8. CASE rows' = rows /\ run' = run
    <3>1. run.pc = "idle"
      BY <1>1 DEF ResumeMayWrite, Adopts
    <3>2. TypeOK'
      BY <2>3, <2>8 DEF IInv, TypeOK
    <3> QED BY <2>8, <3>1, <3>2, StaysIdleIInv
  <2> QED BY <2>2, <2>7, <2>8
<1>6. CASE ~(sealAt > First)
  <2>1. AbortRows(S) /\ wp' = wp /\ run' = run
    BY <1>1, <1>6
  <2>2. rows' \in [Units -> RowStatus] /\ aborted' \in {"no", "recorded", "verified"}
    BY <2>1, AbortIsRows DEF IInv
  <2>3. TypeOK'
    BY <2>1, <2>2 DEF ResumeSeals, IInv, TypeOK, tapeVars, volVars
  <2>4. run.pc = "idle"
    BY <1>1 DEF ResumeMayWrite, Adopts
  <2> QED BY <2>1, <2>3, <2>4, StaysIdleIInv
<1> QED BY <1>5, <1>6

-----------------------------------------------------------------------------
(***************************************************************************)
(* The other commands, the sweep and the ends of processes.                *)
(***************************************************************************)

(* A command that reads the volume row, and one that changes nothing at    *)
(* all, keep it.                                                           *)
LEMMA ReadsIInv == IInv /\ (ReadTarget \/ UNCHANGED vars) => IInv'
<1> SUFFICES ASSUME IInv, ReadTarget \/ UNCHANGED vars PROVE IInv'
  OBVIOUS
<1>1. /\ tape' = tape /\ loaded' = loaded /\ bound' = bound /\ status' = status /\ cond' = cond
      /\ sealed' = sealed /\ ended' = ended /\ att' = att /\ rows' = rows /\ vrf' = vrf
      /\ wp' = wp /\ warn' = warn /\ lbp' = lbp /\ aborted' = aborted
      /\ peek' \in {peek, TRUE} /\ probed' = probed /\ run' = run
  BY DEF ReadTarget, vars, tapeVars, volVars, rowVars, eventVars
<1>2. TypeOK'
  BY <1>1 DEF IInv, TypeOK
<1>3. HeadOK' /\ SealOwed' /\ SessionRows'
  BY <1>1 DEF IInv, HeadOK, SealOwed, SessionRows
<1> QED BY <1>2, <1>3 DEF IInv

(* volume abort, verify and retire, and a cartridge loaded, keep it.       *)
LEMMA IdleCommandsIInv ==
    IInv /\ (VolumeAbort \/ VerifyPasses \/ VerifyQuarantines \/ VolumeRetire \/ LoadCartridge)
      => IInv'
<1> SUFFICES ASSUME IInv, VolumeAbort \/ VerifyPasses \/ VerifyQuarantines
                            \/ VolumeRetire \/ LoadCartridge
             PROVE  IInv'
  OBVIOUS
<1>1. CASE VolumeAbort
  <2>1. rows' \in [Units -> RowStatus]
    BY <1>1, MarkIsRows DEF VolumeAbort, IInv, TypeOK, RowStatus
  <2>2. TypeOK'
    BY <1>1, <2>1 DEF VolumeAbort, IInv, TypeOK, tapeVars, volVars
  <2> QED BY <1>1, <2>2, StaysIdleIInv DEF VolumeAbort
<1>2. CASE VerifyPasses
  <2>1. vrf' \in [Units -> BOOLEAN]
    BY <1>2 DEF VerifyPasses, IInv, TypeOK
  <2>2. aborted' \in {"no", "recorded", "verified"}
    BY <1>2 DEF VerifyPasses
  <2>3. TypeOK'
    BY <1>2, <2>1, <2>2 DEF VerifyPasses, IInv, TypeOK, tapeVars
  <2> QED BY <1>2, <2>3, StaysIdleIInv DEF VerifyPasses
<1>3. CASE VerifyQuarantines
  <2>1. TypeOK'
    BY <1>3 DEF VerifyQuarantines, IInv, TypeOK, tapeVars, rowVars, eventVars
  <2> QED BY <1>3, <2>1, StaysIdleIInv DEF VerifyQuarantines
<1>4. CASE VolumeRetire
  <2>1. TypeOK'
    BY <1>4 DEF VolumeRetire, IInv, TypeOK, tapeVars, rowVars, eventVars
  <2> QED BY <1>4, <2>1, StaysIdleIInv DEF VolumeRetire
<1>5. CASE LoadCartridge
  <2>1. TypeOK'
    BY <1>5 DEF LoadCartridge, IInv, TypeOK, volVars, rowVars, eventVars
  <2> QED BY <1>5, <2>1, StaysIdleIInv DEF LoadCartridge
<1> QED BY <1>1, <1>2, <1>3, <1>4, <1>5

(* A process that dies keeps it, also when what the drive buffered is      *)
(* lost.                                                                   *)
LEMMA DiesIInv == IInv /\ (Crash \/ PowerLoss) => IInv'
<1> SUFFICES ASSUME IInv, Crash \/ PowerLoss PROVE IInv'
  OBVIOUS
<1>1. Idle \in Run
  BY RunsAreRuns
<1>2. CASE Crash
  <2>1. TypeOK'
    BY <1>1, <1>2 DEF Crash, IInv, TypeOK, tapeVars, volVars, rowVars, eventVars
  <2> QED BY <1>2, <2>1, EndsIInv DEF Crash
<1>3. CASE PowerLoss
  <2>1. PICK n \in run.first .. LastSent :
           n < Len(tape[loaded]) /\ Drive(Keep(tape[loaded], n))
    BY <1>3 DEF PowerLoss
  <2>2. n \in Nat /\ n <= Len(tape[loaded])
    BY <2>1, SealTypes
  <2>3. Keep(tape[loaded], n) \in Seq(File)
    BY <2>2, SealTypes, KeepIsTape
  <2>4. tape' \in [Carts -> Seq(File)]
    BY <2>1, <2>3, DriveIsTapes DEF IInv
  <2>5. TypeOK'
    BY <1>1, <1>3, <2>4 DEF PowerLoss, IInv, TypeOK, volVars, rowVars, eventVars
  <2> QED BY <1>3, <2>5, EndsIInv DEF PowerLoss
<1> QED BY <1>2, <1>3

(* The sweep, also one that marks late, under a running command, keeps it: *)
(* it makes no row aborted.                                                *)
LEMMA SweepsIInv == IInv /\ (Sweep \/ SweepProbes \/ SweepMarksLate) => IInv'
<1> SUFFICES ASSUME IInv, Sweep \/ SweepProbes \/ SweepMarksLate PROVE IInv'
  OBVIOUS
<1>1. /\ tape' = tape /\ loaded' = loaded /\ bound' = bound /\ status' = status /\ cond' = cond
      /\ sealed' = sealed /\ ended' = ended /\ att' = att /\ rows' \in {rows, Swept} /\ vrf' = vrf
      /\ wp' = wp /\ warn' = warn /\ lbp' = lbp /\ aborted' = aborted
      /\ peek' = peek /\ probed' \in {probed, TRUE, FALSE} /\ run' = run
  BY DEF Sweep, SweepProbes, SweepMarksLate, tapeVars, volVars, rowVars, eventVars
<1>2. /\ rows' \in [Units -> RowStatus]
      /\ \A u \in Units : rows'[u] = "aborted" => rows[u] = "aborted"
  BY <1>1 DEF Swept, IInv, TypeOK, RowStatus
<1>3. TypeOK'
  BY <1>1, <1>2 DEF IInv, TypeOK
<1>4. HeadOK' /\ SealOwed'
  BY <1>1 DEF IInv, HeadOK, SealOwed
<1>5. run.sess \subseteq Units
  BY DEF IInv, TypeOK, Run
<1>6. SessionRows'
  BY <1>1, <1>2, <1>5 DEF IInv, SessionRows
<1> QED BY <1>3, <1>4, <1>6 DEF IInv

-----------------------------------------------------------------------------
(***************************************************************************)
(* The theorems.                                                           *)
(***************************************************************************)

(* Every step keeps the invariant.                                         *)
LEMMA NextIInv == IInv /\ [Next]_vars => IInv'
<1> SUFFICES ASSUME IInv, [Next]_vars PROVE IInv'
  OBVIOUS
<1>1. CASE SessionStep
  <2>1. CASE EntrySteps
    BY <2>1, EntryWrittenIInv, EntryFailsIInv, EntryRefusedIInv, SignalIInv DEF EntrySteps
  <2>2. CASE RecordSteps
    BY <2>2, RecordWrittenIInv, RecordAbortedIInv, RecordInterruptedIInv, RecordRetryIInv,
       RecordRefusedIInv, RecordPanicsIInv DEF RecordSteps
  <2>3. CASE SealSteps
    BY <2>3, SealWrittenIInv, SealFailsIInv, SealFullIInv, SealRefusedIInv,
       ResendWrittenIInv, ResendFailsIInv, RecordSealIInv DEF SealSteps
  <2>4. CASE ConfirmSteps
    BY <2>4, ConfirmStartsIInv, ConfirmPassesIInv, ConfirmEndsIInv DEF ConfirmSteps
  <2> QED BY <1>1, <2>1, <2>2, <2>3, <2>4, ExecuteIInv DEF SessionStep
<1>2. CASE Commands
  <2>1. CASE ResumeSteps
    BY <2>1, ResumeConfirmsIInv, ResumeFindsSealIInv, ResumeQuarantinesIInv,
       ResumeWritesIInv, ResumeSealsIInv DEF ResumeSteps
  <2> QED BY <1>2, <2>1, PlanIInv, ReadsIInv, IdleCommandsIInv DEF Commands
<1>3. CASE Environment
  BY <1>3, DiesIInv, SweepsIInv DEF Environment
<1> QED BY <1>1, <1>2, <1>3, ReadsIInv DEF Next

(* The inductive invariant holds in every state of every write session, of *)
(* whatever number of files, units, attempts and cartridges.               *)
THEOREM InductiveInvariant == Spec => []IInv
BY InitIInv, NextIInv, PTL DEF Spec

(* Type correctness: catalog rows, tape and command record stay what the   *)
(* schema, the medium and the session structs allow.                       *)
THEOREM TypeCorrect == Spec => []TypeOK
<1>1. IInv => TypeOK
  BY DEF IInv
<1> QED BY <1>1, InductiveInvariant, PTL

(* The steps that write the tape are those of a session that still owes    *)
(* the catalog its seal.                                                   *)
LEMMA OnlySessionsWrite ==
    ASSUME IInv, [Next]_vars, tape' # tape
    PROVE  run.pc \in Writing
<1>1. CASE SessionStep
  BY <1>1 DEF SessionStep, EntrySteps, RecordSteps, SealSteps, ConfirmSteps, Writing, tapeVars,
     Execute, EntryWritten, EntryFails, EntryRefused, SignalInEntries, RecordWritten,
     RecordAborted, RecordInterrupted, RecordRetry, RecordRefused, RecordPanics, SealWritten,
     SealFails, SealFull, SealRefused, ResendWritten, ResendFails, RecordSeal, ConfirmStarts,
     ConfirmPasses, ConfirmRollsBack, ConfirmQuarantines, ConfirmInconclusive
<1>2. CASE Commands
  BY <1>2 DEF Commands, ResumeSteps, tapeVars, ReadTarget, Plan, VolumeAbort, VerifyPasses,
     VerifyQuarantines, VolumeRetire, LoadCartridge, ResumeConfirms, ResumeFindsSeal,
     ResumeQuarantines, ResumeWrites, ResumeSeals
<1>3. CASE Environment
  BY <1>3 DEF Environment, Crash, PowerLoss, Sweep, SweepProbes, SweepMarksLate, Writing, tapeVars
<1>4. CASE UNCHANGED vars
  BY <1>4 DEF vars, tapeVars
<1> QED BY <1>1, <1>2, <1>3, <1>4 DEF Next

(* Once finish_session, or a resume that found the seal, has recorded      *)
(* sealed_at, no command and no crash changes a tape.                      *)
THEOREM SealRecordedIsFinal == Spec => NoWriteAfterSealRecorded
<1>1. IInv /\ [Next]_vars => [sealed => tape' = tape]_vars
  <2> SUFFICES ASSUME IInv, [Next]_vars, sealed PROVE tape' = tape
    OBVIOUS
  <2>1. ~(run.pc \in Writing)
    BY DEF IInv, SealOwed
  <2> QED BY <2>1, OnlySessionsWrite
<1> QED BY <1>1, InductiveInvariant, PTL DEF Spec, NoWriteAfterSealRecorded

(* No step takes a volume out of retirement: the confirm asks for the      *)
(* status again in the transaction that would set it.                      *)
THEOREM RetirementIsFinal == Spec => RetiredStaysRetired
<1>1. [Next]_vars => [status = "retired" => status' = "retired"]_vars
  <2> SUFFICES ASSUME [Next]_vars, status = "retired" PROVE status' = "retired"
    OBVIOUS
  <2>1. CASE SessionStep
    BY <2>1 DEF SessionStep, EntrySteps, RecordSteps, SealSteps, ConfirmSteps, volVars,
       Execute, EntryWritten, EntryFails, EntryRefused, SignalInEntries, RecordWritten,
       RecordAborted, RecordInterrupted, RecordRetry, RecordRefused, RecordPanics, SealWritten,
       SealFails, SealFull, SealRefused, ResendWritten, ResendFails, RecordSeal, ConfirmStarts,
       ConfirmPasses, ConfirmMayCommit, ConfirmRollsBack, ConfirmQuarantines, ConfirmInconclusive
  <2>2. CASE Commands
    BY <2>2 DEF Commands, ResumeSteps, volVars, ReadTarget, Plan, VolumeAbort, VerifyPasses,
       VerifyQuarantines, VolumeRetire, LoadCartridge, ResumeConfirms, ResumeFindsSeal,
       ResumeQuarantines, ResumeWrites, ResumeSeals
  <2>3. CASE Environment
    BY <2>3 DEF Environment, Crash, PowerLoss, Sweep, SweepProbes, SweepMarksLate, volVars
  <2>4. CASE UNCHANGED vars
    BY <2>4 DEF vars, volVars
  <2> QED BY <2>1, <2>2, <2>3, <2>4 DEF Next
<1> QED BY <1>1, PTL DEF Spec, RetiredStaysRetired

(* A row marking that moves an aborted row moved one of the session's.     *)
LEMMA MarkedAborted ==
    ASSUME NEW S, NEW M \in MarkedOf(S), NEW st, rows' = MarkWrites(M, st),
           NEW u \in Units, rows[u] = "aborted", rows'[u] # "aborted"
    PROVE  u \in S /\ st # "aborted"
<1>1. M \subseteq S
  BY DEF MarkedOf
<1>2. rows'[u] = IF u \in M /\ rows[u] \notin {"cut", "range"} THEN st ELSE rows[u]
  BY DEF MarkWrites
<1> QED BY <1>1, <1>2

(* Interrupting a session moves an aborted row only of a confirm that may  *)
(* have adopted it.                                                        *)
LEMMA InterruptedAborted ==
    ASSUME IInv, run.pc \in Writing \cup {"reading"}, InterruptRows,
           NEW u \in Units, rows[u] = "aborted", rows'[u] # "aborted"
    PROVE  sealed = TRUE /\ aborted = "verified"
<1>1. u \in run.sess
  BY MarkedAborted DEF InterruptRows
<1> QED BY <1>1 DEF IInv, SessionRows, Writing

(* A session's own steps move an aborted row only under those terms.       *)
LEMMA SessionAborted ==
    ASSUME IInv, SessionStep, NEW u \in Units, rows[u] = "aborted", rows'[u] # "aborted"
    PROVE  sealed = TRUE /\ aborted = "verified"
<1>1. CASE Execute
  <2>1. u \in run.sess
    BY <1>1 DEF Execute, MarkWrites
  <2> QED BY <1>1, <2>1 DEF Execute, IInv, SessionRows, Writing
<1>2. CASE SignalInEntries \/ RecordInterrupted \/ RecordRefused \/ ConfirmInconclusive
  BY <1>2, InterruptedAborted DEF SignalInEntries, RecordInterrupted, RecordRefused, Recording,
     ConfirmInconclusive, Writing
<1>3. CASE RecordAborted
  BY <1>3, MarkedAborted DEF RecordAborted, AbortRows
<1>4. CASE SealFull \/ ConfirmQuarantines
  BY <1>4 DEF SealFull, ConfirmQuarantines, MarkWrites
<1>5. CASE RecordSeal
  BY <1>5, InterruptedAborted DEF RecordSeal, Writing
<1>6. CASE ConfirmPasses
  <2>1. u \in run.sess
    BY <1>6 DEF ConfirmPasses
  <2> QED BY <1>6, <2>1 DEF ConfirmPasses, IInv, SessionRows, Writing
<1>7. CASE UNCHANGED rows
  BY <1>7
<1> QED
  BY <1>1, <1>2, <1>3, <1>4, <1>5, <1>6, <1>7 DEF SessionStep, EntrySteps, RecordSteps,
     SealSteps, ConfirmSteps, rowVars, EntryWritten, EntryFails, EntryRefused, RecordWritten,
     RecordRetry, RecordPanics, SealWritten, SealFails, SealRefused, ResendWritten,
     ResendFails, ConfirmStarts, ConfirmRollsBack

(* Nor does a resume move one: the rows it restarts are interrupted ones.  *)
LEMMA ResumeAborted ==
    ASSUME IInv, ResumeSteps, NEW u \in Units, rows[u] = "aborted"
    PROVE  rows'[u] = "aborted"
<1>1. CASE ResumeConfirms \/ ResumeFindsSeal
  BY <1>1 DEF ResumeConfirms, ResumeFindsSeal, rowVars
<1>2. CASE ResumeQuarantines
  BY <1>2 DEF ResumeQuarantines, MarkWrites
<1>3. ASSUME NEW S \in SUBSET Units, ResumeMayWrite(S), NEW st,
             NEW M \in MarkedOf(S), rows' = MarkWrites(M, st)
      PROVE  rows'[u] = "aborted"
  <2>1. ~(u \in S)
    BY <1>3 DEF ResumeMayWrite, Adopts, RowsIn
  <2> QED BY <1>3, <2>1, MarkedAborted
<1>4. CASE ResumeWrites
  <2>1. PICK S \in SUBSET Units :
           ResumeMayWrite(S) /\ (UNCHANGED rows \/ \E st : Restart(S, st))
    BY <1>4 DEF ResumeWrites, DemoteAndRestart
  <2> QED BY <1>3, <2>1 DEF Restart
<1>5. CASE ResumeSeals
  <2>1. PICK S \in SUBSET Units :
           /\ ResumeMayWrite(S)
           /\ UNCHANGED rows \/ AbortRows(S) \/ \E st : Restart(S, st)
    BY <1>5 DEF ResumeSeals, DemoteAndRestart
  <2> QED BY <1>3, <2>1 DEF Restart, AbortRows
<1> QED BY <1>1, <1>2, <1>4, <1>5 DEF ResumeSteps

(* An aborted row leaves that state only in the session that replaces the  *)
(* attempt, or under a confirm that adopted it with the seal recorded and  *)
(* a clean full verify since (aborted_adoption).                           *)
THEOREM AbortedIsFinal == Spec => AbortedStaysUnlessVerified
<1>1. IInv /\ [Next]_vars =>
        [\A u \in Units : rows[u] = "aborted" /\ rows'[u] # "aborted" =>
           att' = att + 1 \/ (sealed /\ aborted = "verified")]_vars
  <2> SUFFICES ASSUME IInv, [Next]_vars, NEW u \in Units,
                      rows[u] = "aborted", rows'[u] # "aborted"
               PROVE  att' = att + 1 \/ (sealed /\ aborted = "verified")
    OBVIOUS
  <2>1. CASE SessionStep
    BY <2>1, SessionAborted
  <2>2. CASE Commands
    BY <2>2, ResumeAborted DEF Commands, ReadTarget, Plan, VolumeAbort, VerifyPasses,
       VerifyQuarantines, VolumeRetire, LoadCartridge, rowVars, MarkWrites
  <2>3. CASE Environment
    BY <2>3 DEF Environment, Crash, PowerLoss, Sweep, SweepProbes, SweepMarksLate, Swept, rowVars
  <2>4. CASE UNCHANGED vars
    BY <2>4 DEF vars, rowVars
  <2> QED BY <2>1, <2>2, <2>3, <2>4 DEF Next
<1> QED BY <1>1, InductiveInvariant, PTL DEF Spec, AbortedStaysUnlessVerified
=============================================================================
