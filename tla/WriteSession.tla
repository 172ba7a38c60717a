---------------------------- MODULE WriteSession ----------------------------
(***************************************************************************)
(* The write session of one volume: plan, execute, seal, confirm, resume,  *)
(* abort, verify and retire, run by processes that die at any point, over  *)
(* a catalog that survives them and cartridges an operator loads.          *)
(*                                                                         *)
(* The catalog and the tape are two records of the same session and        *)
(* neither is written together with the other.  Every command takes the    *)
(* volume's session lock; run is the command that holds it, and run.pc =   *)
(* "idle" says the lock is free.  A kill loses run and nothing else.       *)
(***************************************************************************)
EXTENDS Tape

CONSTANTS
    Carts,    \* cartridges the operator may load
    NoCart,   \* the volume is bound to no cartridge
    ChipReads,\* whether the drive reads a cartridge's chip serial: {TRUE},
              \* {FALSE}, or BOOLEAN where it does so now and then
    Found,    \* what a cartridge may hold before the first write
    NumUnits, \* units (one writes row each), in the order of their slices
    UnitOf,   \* UnitOf[a][p]: the unit whose slice is at p in layout a
    MaySpan,  \* units whose write may span tapes (writes.may_span)
    Elsewhere,\* of those, the ones whose stage set has slices no layout here lists
    Windows   \* the narrow windows a kill may also land in

Units == 1 .. NumUnits
NoEnd == 0  \* SQL NULL for ended_after and for the early warning
SlicePositions(a) == First .. SealAt[a] - 1
Slices(a, u) == {p \in SlicePositions(a) : UnitOf[a][p] = u}
Positions == UNION {SlicePositions(a) : a \in Attempts}

ASSUME NumUnitsAssumption == NumUnits \in Nat
ASSUME UnitOfAssumption ==
    \A a \in Attempts : UnitOf[a] \in [SlicePositions(a) -> Units]
ASSUME FoundAssumption == Found \subseteq Seq(File)
ASSUME CartsAssumption == NoCart \notin Carts /\ ChipReads \subseteq BOOLEAN
ASSUME SetsAssumption == /\ MaySpan \subseteq Units /\ Elsewhere \subseteq MaySpan
                         /\ Windows \subseteq {"refusal", "marking", "opened"}

VARIABLES
    tape,     \* tape[c]: the files on cartridge c
    loaded,   \* the cartridge in the drive
    bound,    \* the cartridge of the volume's open cartridge_volumes row
    status,   \* volumes.status
    cond,     \* volumes.observed_condition
    sealed,   \* volumes.sealed_at is set
    ended,    \* volumes.ended_after
    att,      \* the layout of the latest write session, 0 before the first
    rows,     \* writes.status of each unit's row
    vrf,      \* writes.write_verified
    wp,       \* write_positions.status of each slice position
    warn,     \* the session's write_early_warning event, or NoEnd
    lbp,      \* a write_lbp_refusal event is on the volume
    aborted,  \* the latest recorded abort, and whether a full verify passed since
    peek,     \* some command read that the volume is a write target
    probed,   \* some sweep found the lock free and has yet to mark
    run       \* the command holding the session lock

tapeVars == <<tape, loaded>>
volVars == <<bound, status, cond, sealed, ended>>
rowVars == <<att, rows, vrf, wp>>
eventVars == <<warn, lbp, aborted>>
vars == <<tapeVars, volVars, rowVars, eventVars, peek, probed, run>>

RowStatus == {"none", "planned", "in_progress", "interrupted", "aborted",
              "completed", "cut", "range"}
Unresolved == {"planned", "in_progress", "interrupted"}
Recorded == {"completed", "cut", "range"}

Run == [pc : {"idle", "planned", "entries", "wrote", "seal", "resend", "sealed",
              "confirm", "reading"},
        sess : SUBSET Units,  \* the rows the session loaded (write_ids)
        first : Nat,          \* run_first_position
        idx : Nat,            \* the file being written
        verdict : {"none", "written", "warned", "mismatch", "full", "failed", "refused"},
        refused : Nat,        \* the file holding the first block refused
        surfaced : Nat,       \* resending: one more than the file it surfaced in
        retried : {"no", "loop", "seal"},
        ending : Nat,         \* the position the tape ends after
        warned : BOOLEAN,     \* warning_in_data
        entered : [Units -> RowStatus]]  \* entry_statuses of the confirm

Idle == [pc |-> "idle", sess |-> {}, first |-> 0, idx |-> 0, verdict |-> "none",
         refused |-> 0, surfaced |-> 0, retried |-> "no", ending |-> 0, warned |-> FALSE,
         entered |-> [u \in Units |-> "none"]]

Session(S) == [Idle EXCEPT !.pc = "planned", !.sess = S]
Entries(S, i) == [Idle EXCEPT !.pc = "entries", !.sess = S, !.first = i, !.idx = i]
Sealing(S, i, k, w) == [Idle EXCEPT !.pc = "seal", !.sess = S, !.first = i,
                                    !.ending = k, !.warned = w]
Confirming(S, k, w) == [Idle EXCEPT !.pc = "confirm", !.sess = S, !.ending = k,
                                    !.warned = w]

TypeOK ==
    /\ tape \in [Carts -> Seq(File)] /\ loaded \in Carts
    /\ bound \in Carts \cup {NoCart}
    /\ status \in {"initialized", "sealed", "retired"}
    /\ cond \in {"ok", "quarantined"} /\ sealed \in BOOLEAN /\ ended \in Nat
    /\ att \in Layouts
    /\ rows \in [Units -> RowStatus] /\ vrf \in [Units -> BOOLEAN]
    /\ wp \in [Positions -> {"none", "pending", "written", "failed"}]
    /\ warn \in Nat /\ lbp \in BOOLEAN /\ aborted \in {"no", "recorded", "verified"}
    /\ peek \in BOOLEAN /\ probed \in BOOLEAN /\ run \in Run

Init ==
    /\ tape \in [Carts -> Found] /\ loaded \in Carts
    /\ bound \in Carts \cup {NoCart}  \* volume init read the chip, or could not
    /\ status = "initialized" /\ cond = "ok" /\ sealed = FALSE /\ ended = NoEnd
    /\ att = 0 /\ rows = [u \in Units |-> "none"] /\ vrf = [u \in Units |-> FALSE]
    /\ wp = [p \in Positions |-> "none"]
    /\ warn = NoEnd /\ lbp = FALSE /\ aborted = "no"
    /\ peek = FALSE /\ probed = FALSE /\ run = Idle

-----------------------------------------------------------------------------
(***************************************************************************)
(* Helpers: rows, positions and endings.                                   *)
(***************************************************************************)
RowsIn(S) == {u \in Units : rows[u] \in S}
MarkWrites(S, st) ==
    [u \in Units |-> IF u \in S /\ rows[u] \notin {"cut", "range"} THEN st ELSE rows[u]]
(***************************************************************************)
(* mark_writes is one autocommitted UPDATE per row, in row order: a kill   *)
(* can leave only the first few marked.                                    *)
(***************************************************************************)
MarkedOf(S) == IF "marking" \in Windows
               THEN {S \cap (1 .. n) : n \in 0 .. NumUnits} ELSE {S}

\* demote_positions_from is such a loop too, and may not be reached at all.
DemotedOf(S) == {{}} \cup MarkedOf(S)
DemotePositionsFrom(w, S, from) ==
    [p \in Positions |-> IF /\ p >= from /\ w[p] # "none"
                            /\ UnitOf[att][p] \in S
                         THEN "pending" ELSE w[p]]

CountWrittenSlices(S) ==
    Cardinality({p \in SlicePositions(att) : wp[p] = "written" /\ UnitOf[att][p] \in S})

\* COALESCE(ended_after of ending k, what the row holds): a full ending is NULL.
RecordedEndedAfter(a, k) == IF k = SealAt[a] - 1 THEN NoEnd ELSE k
Coalesce(new, old) == IF new = NoEnd THEN old ELSE new
RecordedEnding == IF ended = NoEnd THEN SealAt[att] - 1 ELSE ended
HasCompletedWrite == RowsIn(Recorded) # {}

\* Mutant: the chip's serial is not compared.
CorroboratesAnything(serial) == TRUE

(***************************************************************************)
(* corroborate_contact: a serial read off the chip must be the one of the  *)
(* cartridge the volume is bound to.  What cannot be read contradicts      *)
(* nothing.                                                                *)
(***************************************************************************)
Corroborates(serial) == serial /\ bound # NoCart => loaded = bound

IsWriteTarget == status = "initialized" /\ cond = "ok"

(***************************************************************************)
(* A command reads the volume row before it takes the lock, and judges     *)
(* is_write_target on what it read.                                        *)
(***************************************************************************)
ReadTarget ==
    /\ IsWriteTarget /\ ~peek
    /\ peek' = TRUE
    /\ UNCHANGED <<tapeVars, volVars, rowVars, eventVars, probed, run>>

-----------------------------------------------------------------------------
(***************************************************************************)
(* volume write: the gates, the contact, and plan's one transaction, which *)
(* replaces the rows of an abandoned unsealed attempt.                     *)
(***************************************************************************)
PrecontactRefusal == RowsIn(Unresolved) # {} \/ sealed

FreshContactOk(a) ==
    \E r0, rs \in BOOLEAN :
        Contact(tape[loaded], SealAt[a], r0, rs) \in {"blank", "matches"}

Plan ==
    /\ run.pc = "idle" /\ peek
    /\ ~HasCompletedWrite /\ ~PrecontactRefusal
    /\ att < MaxAttempt /\ FreshContactOk(att + 1)
    /\ \E serial \in ChipReads :  \* bind_late
          /\ Corroborates(serial)
          /\ bound' = IF serial /\ bound = NoCart THEN loaded ELSE bound
    /\ LET a == att + 1
           S == {u \in Units : Slices(a, u) # {}}
       IN  /\ att' = a
           /\ rows' = [u \in Units |-> IF u \in S THEN "planned" ELSE "none"]
           /\ wp' = [p \in Positions |-> IF p \in SlicePositions(a) THEN "pending" ELSE "none"]
           /\ run' = Session(S)
    /\ vrf' = [u \in Units |-> FALSE] /\ warn' = NoEnd /\ peek' = FALSE
    /\ UNCHANGED <<tapeVars, status, cond, sealed, ended, lbp, aborted, probed>>

Execute ==
    /\ run.pc = "planned"
    /\ rows' = MarkWrites(run.sess, "in_progress")
    /\ run' = Entries(run.sess, 0)
    /\ UNCHANGED <<tapeVars, volVars, att, vrf, wp, eventVars, peek, probed>>

-----------------------------------------------------------------------------
(***************************************************************************)
(* run_entries, one file: the bytes reach the tape, then the catalog.      *)
(***************************************************************************)
Drive(t) == tape' = [tape EXCEPT ![loaded] = t]
Verdict(v) == [run EXCEPT !.pc = "wrote", !.verdict = v]

EntryWritten ==
    /\ run.pc = "entries"
    /\ \E f \in {Whole(att), Bad(att)}, v \in {"written", "warned"} :
          /\ Drive(Overwrite(tape[loaded], run.idx, f))
          /\ run' = Verdict(v)
    /\ UNCHANGED <<loaded, volVars, rowVars, eventVars, peek, probed>>

\* A staged file that no longer hashes to its row, whose last block is held
\* back; a full medium; an I/O error; a source that cannot be opened.
EntryFails ==
    /\ run.pc = "entries"
    /\ \/ \E t \in Torn(tape[loaded], run.idx, att), v \in {"mismatch", "full", "failed"} :
             Drive(t) /\ run' = Verdict(v)
       \/ UNCHANGED tape /\ run' = Verdict("failed")
    /\ UNCHANGED <<loaded, volVars, rowVars, eventVars, peek, probed>>

(***************************************************************************)
(* The drive refuses a block under Logical Block Protection.  It writes    *)
(* behind, so the block may be of an earlier file this run sent.           *)
(***************************************************************************)
EntryRefused ==
    /\ run.pc = "entries"
    /\ \E f \in run.first .. run.idx :
          /\ \E t \in Torn(tape[loaded], f, att) : Drive(t)
          /\ run' = [Verdict("refused") EXCEPT !.refused = f]
    /\ UNCHANGED <<loaded, volVars, rowVars, eventVars, peek, probed>>

Recording(v) == run.pc = "wrote" /\ run.verdict \in v
HasRow(p) == p >= First => UnitOf[att][p] \in run.sess
SetPosition(p, st) == IF p >= First THEN [wp EXCEPT ![p] = st] ELSE wp

(***************************************************************************)
(* A slice none of the session's rows owns: slice_write_id has no entry    *)
(* and the process panics, the refusal's event already recorded.           *)
(***************************************************************************)
RecordPanics ==
    /\ run.pc = "wrote" /\ ~HasRow(run.idx)
    /\ lbp' = (lbp \/ run.verdict = "refused")
    /\ run' = Idle
    /\ UNCHANGED <<tapeVars, volVars, rowVars, warn, aborted, peek, probed>>

\* The early warning counts, unless it is the one already seen when the
\* refusal came and the file it surfaced in is not yet sent again.
WarningNow == \/ run.verdict = "warned"
              \/ run.surfaced > 0 /\ run.idx + 1 >= run.surfaced

Next1(i) == IF i = SealAt[att]
            THEN [Sealing(run.sess, run.first, i - 1, FALSE) EXCEPT !.retried = run.retried]
            ELSE [run EXCEPT !.pc = "entries", !.idx = i, !.verdict = "none", !.refused = 0]

RecordWritten ==
    /\ Recording({"written", "warned"}) /\ HasRow(run.idx)
    /\ \/ ~WarningNow
       \/ WarningNow /\ run.idx >= First
    /\ wp' = SetPosition(run.idx, "written")
    /\ IF WarningNow
       THEN /\ warn' = run.idx
            /\ run' = [Sealing(run.sess, run.first, run.idx, TRUE)
                         EXCEPT !.retried = run.retried]
       ELSE run' = Next1(run.idx + 1) /\ UNCHANGED warn
    /\ UNCHANGED <<tapeVars, volVars, att, rows, vrf, lbp, aborted, peek, probed>>

(***************************************************************************)
(* The session ends aborted: a full medium, a mismatch, or a warning       *)
(* before the first slice.  The write_aborted event follows the marking.   *)
(***************************************************************************)
AbortRows(S) ==
    \E M \in MarkedOf(S) :
        /\ rows' = MarkWrites(M, "aborted")
        /\ \/ M = S /\ aborted' = "recorded"
           \/ "marking" \in Windows /\ UNCHANGED aborted

RecordAborted ==
    /\ run.pc = "wrote" /\ HasRow(run.idx)
    /\ \/ /\ Recording({"mismatch", "full"})
          /\ wp' = SetPosition(run.idx, "failed")
       \/ /\ Recording({"written", "warned"}) /\ WarningNow /\ run.idx < First
          /\ UNCHANGED wp
    /\ AbortRows(run.sess) /\ run' = Idle
    /\ UNCHANGED <<tapeVars, volVars, att, vrf, warn, lbp, peek, probed>>

InterruptRows ==
    \E S \in MarkedOf(run.sess) : rows' = MarkWrites(S, "interrupted")

RecordInterrupted ==
    /\ Recording({"failed"}) /\ HasRow(run.idx)
    /\ wp' = SetPosition(run.idx, "pending")
    /\ InterruptRows /\ run' = Idle
    /\ UNCHANGED <<tapeVars, volVars, att, vrf, eventVars, peek, probed>>

\* A signal is looked for before each file.
SignalInEntries ==
    /\ run.pc = "entries"
    /\ InterruptRows /\ run' = Idle
    /\ UNCHANGED <<tapeVars, volVars, att, vrf, wp, eventVars, peek, probed>>

\* Mutant: the retry does not ask whether it was spent.
RecordRetryAgain ==
    /\ Recording({"refused"}) /\ HasRow(run.idx)
    /\ lbp' = TRUE
    /\ wp' = DemotePositionsFrom(SetPosition(run.idx, "pending"), run.sess, run.refused)
    /\ run' = [run EXCEPT !.pc = "entries", !.idx = run.refused, !.verdict = "none",
                          !.refused = 0, !.retried = "loop"]
    /\ UNCHANGED <<tapeVars, volVars, att, rows, vrf, warn, aborted, peek, probed>>

(***************************************************************************)
(* A refusal is an event first.  The run's one retry returns to the file   *)
(* the drive's position names; without that position, or a second time,    *)
(* the session stops; so it does when the retry's own updates fail, or are *)
(* cut off.                                                                *)
(***************************************************************************)
RecordRetry ==
    /\ Recording({"refused"}) /\ HasRow(run.idx) /\ run.retried = "no"
    /\ lbp' = TRUE
    /\ wp' = DemotePositionsFrom(SetPosition(run.idx, "pending"), run.sess, run.refused)
    /\ \E before \in {0, run.idx + 1} :  \* the store had seen a warning
          run' = [run EXCEPT !.pc = "entries", !.idx = run.refused, !.verdict = "none",
                             !.refused = 0, !.retried = "loop", !.surfaced = before]
    /\ UNCHANGED <<tapeVars, volVars, att, rows, vrf, warn, aborted, peek, probed>>

RecordRefused ==
    /\ Recording({"refused"}) /\ HasRow(run.idx)
    /\ lbp' = TRUE
    /\ LET w == SetPosition(run.idx, "pending")
       IN  \E S \in DemotedOf(run.sess) : wp' = DemotePositionsFrom(w, S, run.refused)
    /\ InterruptRows /\ run' = Idle
    /\ UNCHANGED <<tapeVars, volVars, att, vrf, warn, aborted, peek, probed>>

-----------------------------------------------------------------------------
(***************************************************************************)
(* seal_with_retry: the seal marker and its synchronous filemark.          *)
(***************************************************************************)
SealWritten ==
    /\ run.pc = "seal"
    /\ Drive(Overwrite(tape[loaded], run.ending + 1, Seal(att, run.ending)))
    /\ run' = [run EXCEPT !.pc = "sealed"]
    /\ UNCHANGED <<loaded, volVars, rowVars, eventVars, peek, probed>>

\* An error, or a kill, inside the seal: the marker may be whole on the tape
\* although nobody was told.  The rows stay in_progress.
SealFails ==
    /\ run.pc = "seal"
    /\ \E t \in Torn(tape[loaded], run.ending + 1, att)
              \cup {Overwrite(tape[loaded], run.ending + 1, Seal(att, run.ending))} : Drive(t)
    /\ run' = Idle
    /\ UNCHANGED <<loaded, volVars, rowVars, eventVars, peek, probed>>

(***************************************************************************)
(* abort_unsealed_session: no room for the seal, or for a file sent again  *)
(* before it.  One UPDATE of every unresolved row, then the event.         *)
(***************************************************************************)
SealFull ==
    /\ \/ run.pc = "seal" /\ \E t \in Torn(tape[loaded], run.ending + 1, att) : Drive(t)
       \/ run.pc = "resend" /\ \E t \in Torn(tape[loaded], run.idx, att) : Drive(t)
    /\ rows' = MarkWrites(RowsIn(Unresolved), "aborted")
    /\ aborted' \in {"recorded"} \cup (IF "marking" \in Windows THEN {aborted} ELSE {})
    /\ run' = Idle
    /\ UNCHANGED <<loaded, volVars, att, vrf, wp, warn, lbp, peek, probed>>

(***************************************************************************)
(* A refusal at the seal's filemark, of the seal or of a file before it.   *)
(* The run's one retry, if unspent and if the drive says where it stopped, *)
(* returns to that file.                                                   *)
(***************************************************************************)
SealRefused ==
    /\ run.pc = "seal"
    /\ \E f \in run.first .. run.ending + 1 :
          /\ \E t \in Torn(tape[loaded], f, att) : Drive(t)
          /\ \/ /\ \E S \in IF run.retried = "loop" THEN {{}} ELSE DemotedOf(run.sess) :
                       wp' = DemotePositionsFrom(wp, S, f)
                /\ run' = Idle
             \/ /\ run.retried = "no"
                /\ wp' = DemotePositionsFrom(wp, run.sess, f)
                /\ run' = [run EXCEPT !.retried = "seal", !.idx = f,
                             !.pc = IF f <= run.ending THEN "resend" ELSE "seal"]
    /\ \/ lbp' = TRUE
       \/ "refusal" \in Windows /\ run' = Idle /\ UNCHANGED <<lbp, wp>>
    /\ UNCHANGED <<loaded, volVars, att, rows, vrf, warn, aborted, peek, probed>>

\* Mutant: a file sent again is not recorded written again.
ResendUnrecorded ==
    /\ run.pc = "resend"
    /\ \E f \in {Whole(att), Bad(att)} : Drive(Overwrite(tape[loaded], run.idx, f))
    /\ run' = [run EXCEPT !.idx = run.idx + 1,
                          !.pc = IF run.idx < run.ending THEN "resend" ELSE "seal"]
    /\ UNCHANGED <<loaded, volVars, rowVars, eventVars, peek, probed>>

\* resend_entries: the files before the seal again, each recorded written.
ResendWritten ==
    /\ run.pc = "resend"
    /\ \E f \in {Whole(att), Bad(att)} : Drive(Overwrite(tape[loaded], run.idx, f))
    /\ wp' = IF HasRow(run.idx) THEN SetPosition(run.idx, "written") ELSE wp
    /\ run' = [run EXCEPT !.idx = run.idx + 1,
                          !.pc = IF run.idx < run.ending THEN "resend" ELSE "seal"]
    /\ UNCHANGED <<loaded, volVars, att, rows, vrf, eventVars, peek, probed>>

\* A failure, a mismatch or a second refusal while sending again.
ResendFails ==
    /\ run.pc = "resend"
    /\ \/ /\ \E t \in Torn(tape[loaded], run.idx, att) : Drive(t)
          /\ UNCHANGED lbp
       \/ /\ \E f \in run.first .. run.idx :
                \E t \in Torn(tape[loaded], f, att) : Drive(t)
          /\ lbp' = TRUE
    /\ run' = Idle
    /\ UNCHANGED <<loaded, volVars, rowVars, warn, aborted, peek, probed>>

\* finish_session: the seal is recorded, COALESCE, and then confirmed unless
\* a signal came.
RecordSeal ==
    /\ run.pc = "sealed"
    /\ sealed' = TRUE
    /\ ended' = Coalesce(RecordedEndedAfter(att, run.ending), ended)
    /\ \/ run' = Confirming(run.sess, run.ending, run.warned) /\ UNCHANGED rows
       \/ run' = Idle /\ InterruptRows
    /\ UNCHANGED <<tapeVars, bound, status, cond, att, vrf, wp, eventVars, peek, probed>>

-----------------------------------------------------------------------------
(***************************************************************************)
(* confirm_under_default_interval: the statuses are read, the tape is read *)
(* back for hours, and the verdict is recorded in one transaction that     *)
(* finds every row as it was.                                              *)
(***************************************************************************)
ConfirmStarts ==
    /\ run.pc = "confirm"
    /\ run' = [run EXCEPT !.pc = "reading", !.entered = rows]
    /\ UNCHANGED <<tapeVars, volVars, rowVars, eventVars, peek, probed>>

\* Mutant: the recorded refusal is not looked at.
TierAsAsked(asked) == asked

\* tier_after_lbp_refusals
Tier(asked) == IF lbp THEN "full" ELSE asked
Readback(tier) ==
    ChainWalk(tape[loaded], att, run.ending, ContentRead(tier, run.ending, run.warned))

\* span_split: of every slice of the unit's stage set, those written here.
SpanSplit(u, k) ==
    LET held == {p \in Slices(att, u) : wp[p] = "written" /\ p <= k}
    IN  IF held = Slices(att, u) /\ u \notin Elsewhere THEN "completed"
        ELSE IF held # {} THEN "range" ELSE "cut"

\* Mutant: a unit the tape does not reach is recorded failed.
SplitOrFailed(u, k) ==
    IF u \in MaySpan THEN SpanSplit(u, k)
    ELSE IF \A p \in Slices(att, u) : p <= k THEN "completed" ELSE "failed"

Split(u, k) ==
    IF u \in MaySpan THEN SpanSplit(u, k)
    ELSE IF \A p \in Slices(att, u) : p <= k THEN "completed" ELSE "cut"

\* Mutant: the volume's status is not asked again.
ConfirmMayCommitAnyStatus == \A u \in run.sess : rows[u] = run.entered[u]

\* The transaction's own conditions: no row and no status moved meanwhile.
ConfirmMayCommit ==
    /\ status = "initialized"
    /\ \A u \in run.sess : rows[u] = run.entered[u]

ConfirmPasses ==
    /\ run.pc = "reading" /\ ConfirmMayCommit
    /\ \E asked \in {"quick", "full"} :
          /\ Readback(Tier(asked)) = "passed"
          /\ vrf' = [u \in Units |->
                       IF u \in run.sess /\ Split(u, run.ending) # "cut"
                       THEN Tier(asked) = "full" ELSE vrf[u]]
    /\ rows' = [u \in Units |-> IF u \in run.sess THEN Split(u, run.ending) ELSE rows[u]]
    /\ wp' = [p \in Positions |->
                IF /\ wp[p] = "written" /\ p > run.ending
                   /\ UnitOf[att][p] \in run.sess
                   /\ Split(UnitOf[att][p], run.ending) = "range"
                THEN "pending" ELSE wp[p]]
    /\ status' = "sealed" /\ ended' = RecordedEndedAfter(att, run.ending)
    /\ run' = Idle
    /\ UNCHANGED <<tapeVars, bound, cond, sealed, att, eventVars, peek, probed>>

\* The readback passed and the transaction rolled back.
ConfirmRollsBack ==
    /\ run.pc = "reading" /\ ~ConfirmMayCommit
    /\ \E asked \in {"quick", "full"} : Readback(Tier(asked)) = "passed"
    /\ run' = Idle
    /\ UNCHANGED <<tapeVars, volVars, rowVars, eventVars, peek, probed>>

ConfirmQuarantines ==
    /\ run.pc = "reading"
    /\ \E asked \in {"quick", "full"} : Readback(Tier(asked)) = "mediumBad"
    /\ cond' = "quarantined" /\ rows' = MarkWrites(run.sess, "aborted")
    /\ aborted' = "recorded" /\ run' = Idle
    /\ UNCHANGED <<tapeVars, bound, status, sealed, ended, att, vrf, wp, warn, lbp, peek, probed>>

\* A drive or transport error is always possible, and proves nothing.
ConfirmInconclusive ==
    /\ run.pc = "reading"
    /\ InterruptRows /\ run' = Idle
    /\ UNCHANGED <<tapeVars, volVars, att, vrf, wp, eventVars, peek, probed>>

-----------------------------------------------------------------------------
\* Mutant: a good condition is taken for the verify.
AbortedAdoptionUnverified ==
    /\ status = "initialized" /\ sealed /\ cond = "ok"
    /\ RowsIn(Unresolved) = {}

(***************************************************************************)
(* volume resume: the interrupted rows, or, when no row is unresolved, the *)
(* aborted ones of a sealed session a full verify has cleared since.  The  *)
(* command's own open has swept the in_progress rows, unless their process *)
(* died only after that open.                                              *)
(***************************************************************************)
AbortedAdoption ==
    /\ status = "initialized" /\ sealed /\ cond = "ok" /\ aborted = "verified"
    /\ RowsIn(Unresolved) = {}

Adopts(S, adopted) ==
    /\ run.pc = "idle" /\ peek /\ ~HasCompletedWrite
    /\ S # {} /\ \E serial \in ChipReads : Corroborates(serial)
    /\ IF adopted
       THEN AbortedAdoption /\ S = RowsIn({"aborted"})
       ELSE /\ S = RowsIn({"interrupted"})
            /\ RowsIn({"in_progress"}) # {} => "opened" \in Windows

\* The contact of the loaded cartridge, the drive reading what it will.
ContactIs(outcomes, reads0) ==
    \E readsSeal \in BOOLEAN :
        Contact(tape[loaded], SealAt[att], reads0, readsSeal) \in outcomes

\* The seal is recorded: nothing but the confirm is left to do.
ResumeConfirms ==
    /\ sealed
    /\ \E S \in SUBSET Units, adopted, reads0 \in BOOLEAN :
          /\ Adopts(S, adopted)
          /\ ContactIs({"blank", "matches", "fileZeroUnreadable", "sealUnreadable"}, reads0)
          /\ run' = Confirming(S, RecordedEnding, warn # NoEnd)
    /\ peek' = FALSE
    /\ UNCHANGED <<tapeVars, volVars, rowVars, eventVars, probed>>

\* The tape is sealed, and by this session as far as File 0 and the seal tell.
ResumeFindsSeal ==
    /\ ContactIs({"alreadySealed"}, TRUE)
    /\ \E S \in SUBSET Units, adopted \in BOOLEAN,
          k \in ReconfirmEndings(tape[loaded], att) :
          /\ Adopts(S, adopted)
          /\ ended' = Coalesce(RecordedEndedAfter(att, k), ended)
          /\ run' = Confirming(S, k, warn # NoEnd)
    /\ sealed' = TRUE /\ peek' = FALSE
    /\ UNCHANGED <<tapeVars, bound, status, cond, rowVars, eventVars, probed>>

ResumeQuarantines ==
    /\ \/ ContactIs({"identityMismatch"}, TRUE)
       \/ ContactIs({"alreadySealed"}, TRUE) /\ ReconfirmEndings(tape[loaded], att) = {}
       \/ ContactIs({"alreadySealed"}, FALSE)
    /\ \E S \in SUBSET Units, adopted \in BOOLEAN :
          /\ Adopts(S, adopted)
          /\ rows' = MarkWrites(S, "aborted")
    /\ cond' = "quarantined" /\ aborted' = "recorded" /\ peek' = FALSE
    /\ UNCHANGED <<tapeVars, bound, status, sealed, ended, att, vrf, wp, warn, lbp, probed, run>>

\* The rows go back in_progress one UPDATE at a time.
Restart(S, started) ==
    \E M \in MarkedOf(S) :
        /\ rows' = MarkWrites(M, "in_progress")
        /\ run' = IF M = S THEN started ELSE Idle

\* The positions from one file on are demoted, row by row, and then the rows
\* are marked: a kill in the first loop leaves every row unmarked.
DemoteAndRestart(S, from, started) ==
    \E D \in MarkedOf(S) :
        /\ wp' = DemotePositionsFrom(wp, D, from)
        /\ \/ D = S /\ Restart(S, started)
           \/ D # S /\ UNCHANGED <<rows, run>>

\* Mutant: the recorded seal is not asked for.
ResumeMayWriteSealed(S) ==
    /\ Adopts(S, FALSE)
    /\ \E reads0 \in BOOLEAN : ContactIs({"blank", "matches"}, reads0)

ResumeMayWrite(S) ==
    /\ Adopts(S, FALSE) /\ ~sealed
    /\ \E reads0 \in BOOLEAN : ContactIs({"blank", "matches"}, reads0)

(***************************************************************************)
(* No warning recorded: the first file not recorded written, or the end of *)
(* what the tape holds.  With no slice written, the beginning.             *)
(***************************************************************************)
ResumeCursor(S) == LET n == CountWrittenSlices(S) IN IF n = 0 THEN 0 ELSE First + n

\* Mutant: the recorded warning is not asked for.
ResumeWritesOn ==
    /\ \E S \in SUBSET Units :
          /\ ResumeMayWrite(S)
          /\ LET cursor == ResumeCursor(S)
                 start == RepositionAtMost(tape[loaded], cursor)
                 started == IF start = SealAt[att] THEN Sealing(S, start, start - 1, FALSE)
                            ELSE Entries(S, start)
             IN  IF start < cursor THEN DemoteAndRestart(S, start, started)
                 ELSE Restart(S, started) /\ UNCHANGED wp
    /\ peek' = FALSE
    /\ UNCHANGED <<tapeVars, volVars, att, vrf, eventVars, probed>>

ResumeWrites ==
    /\ warn = NoEnd
    /\ \E S \in SUBSET Units :
          /\ ResumeMayWrite(S)
          /\ LET cursor == ResumeCursor(S)
                 start == RepositionAtMost(tape[loaded], cursor)
                 started == IF start = SealAt[att] THEN Sealing(S, start, start - 1, FALSE)
                            ELSE Entries(S, start)
             IN  IF start < cursor THEN DemoteAndRestart(S, start, started)
                 ELSE Restart(S, started) /\ UNCHANGED wp
    /\ peek' = FALSE
    /\ UNCHANGED <<tapeVars, volVars, att, vrf, eventVars, probed>>

\* seal_after_recorded_warning: no further slice, straight to the seal.
ResumeSeals ==
    /\ warn # NoEnd
    /\ \E S \in SUBSET Units :
          /\ ResumeMayWrite(S)
          /\ LET sealAt == RepositionAtMost(tape[loaded], warn + 1)
             IN  IF sealAt > First
                 THEN /\ IF sealAt <= warn
                         THEN DemoteAndRestart(S, sealAt, Sealing(S, sealAt, sealAt - 1, TRUE))
                         ELSE Restart(S, Sealing(S, sealAt, sealAt - 1, TRUE)) /\ UNCHANGED wp
                      /\ UNCHANGED aborted
                 ELSE AbortRows(S) /\ UNCHANGED <<wp, run>>
    /\ peek' = FALSE
    /\ UNCHANGED <<tapeVars, volVars, att, vrf, warn, lbp, probed>>

-----------------------------------------------------------------------------
(***************************************************************************)
(* The other commands, each under the lock, and what happens to processes. *)
(***************************************************************************)
VolumeAbort ==
    /\ run.pc = "idle"
    /\ RowsIn(Unresolved) # {} /\ RowsIn({"in_progress"}) = {}
    /\ rows' = MarkWrites(RowsIn(Unresolved), "aborted")
    /\ aborted' = "recorded"
    /\ UNCHANGED <<tapeVars, volVars, att, vrf, wp, warn, lbp, peek, probed, run>>

(***************************************************************************)
(* volume verify walks the layout of the tape's own front index, to the    *)
(* ending the catalog records.                                             *)
(***************************************************************************)
VerifyFinds(tier) ==
    LET t == tape[loaded]
        fi == At(t, FrontIndex)
        k == IF ended = NoEnd THEN SealAt[fi.lay] - 1 ELSE ended
    IN  IF \/ Len(t) < First
           \/ \A serial \in ChipReads : ~Corroborates(serial)
           \/ At(t, 0) = Whole(Foreign)
           \/ fi.kind \notin {"whole", "bad"}
        THEN "refused"
        ELSE ChainWalk(t, fi.lay, k, ContentRead(tier, k, FALSE))

VerifyPasses ==
    /\ run.pc = "idle" /\ VerifyFinds("full") = "passed"
    /\ cond' = "ok"
    /\ aborted' = IF aborted = "no" THEN "no" ELSE "verified"
    /\ vrf' = [u \in Units |-> vrf[u] \/ rows[u] \in {"completed", "range"}]
    /\ UNCHANGED <<tapeVars, bound, status, sealed, ended, att, rows, wp, warn, lbp, peek, probed, run>>

VerifyQuarantines ==
    /\ run.pc = "idle"
    /\ \E tier \in {"quick", "full"} : VerifyFinds(tier) = "mediumBad"
    /\ cond' = "quarantined"
    /\ UNCHANGED <<tapeVars, bound, status, sealed, ended, rowVars, eventVars, peek, probed, run>>

VolumeRetire ==
    /\ run.pc = "idle" /\ status # "retired"
    /\ status' = "retired"
    /\ UNCHANGED <<tapeVars, bound, cond, sealed, ended, rowVars, eventVars, peek, probed, run>>

LoadCartridge ==
    /\ run.pc = "idle"
    /\ \E c \in Carts \ {loaded} : loaded' = c
    /\ UNCHANGED <<tape, volVars, rowVars, eventVars, peek, probed, run>>

\* Unless the window is open, a refusal and its event are not parted.
MayDie == run.pc = "wrote" /\ run.verdict = "refused" => "refusal" \in Windows

\* The process dies; the kernel closes the device and the lock is free.
Crash ==
    /\ run.pc # "idle" /\ MayDie
    /\ run' = Idle
    /\ UNCHANGED <<tapeVars, volVars, rowVars, eventVars, peek, probed>>

\* The last file this run has sent that no synchronous filemark follows.
LastSent == CASE run.pc = "entries" -> run.idx - 1
              [] run.pc = "wrote" -> IF run.verdict = "failed" THEN run.idx - 1 ELSE run.idx
              [] run.pc = "resend" -> run.idx - 1
              [] run.pc = "seal" -> run.ending

\* Power fails: what the drive still buffered is lost with the process.
PowerLoss ==
    /\ run.pc \in {"entries", "wrote", "resend", "seal"} /\ MayDie
    /\ \E n \in run.first .. LastSent :
          n < Len(tape[loaded]) /\ Drive(Keep(tape[loaded], n))
    /\ run' = Idle
    /\ UNCHANGED <<loaded, volVars, rowVars, eventVars, peek, probed>>

\* Mutant: the sweep marks one row.
SweptOne == [u \in Units |-> IF rows[u] = "in_progress" /\ u = 1 THEN "interrupted" ELSE rows[u]]

(***************************************************************************)
(* recover_orphaned_sessions, at every open of the catalog: probe the lock *)
(* and mark.  The two are not one act: a probe that found the lock free    *)
(* may mark after another command has taken it.                            *)
(***************************************************************************)
Swept == [u \in Units |-> IF rows[u] = "in_progress" THEN "interrupted" ELSE rows[u]]

Sweep ==
    /\ run.pc = "idle" /\ RowsIn({"in_progress"}) # {}
    /\ rows' = Swept
    /\ UNCHANGED <<tapeVars, volVars, att, vrf, wp, eventVars, peek, probed, run>>

SweepProbes ==
    /\ run.pc = "idle" /\ RowsIn({"in_progress"}) # {} /\ ~probed
    /\ probed' = TRUE
    /\ UNCHANGED <<tapeVars, volVars, rowVars, eventVars, peek, run>>

SweepMarksLate ==
    /\ probed
    /\ probed' = FALSE /\ rows' = Swept
    /\ UNCHANGED <<tapeVars, volVars, att, vrf, wp, eventVars, peek, run>>

-----------------------------------------------------------------------------
EntrySteps == EntryWritten \/ EntryFails \/ EntryRefused \/ SignalInEntries
RecordSteps == RecordWritten \/ RecordAborted \/ RecordInterrupted \/ RecordRetry
                   \/ RecordRefused \/ RecordPanics
SealSteps == SealWritten \/ SealFails \/ SealFull \/ SealRefused \/ ResendWritten
                 \/ ResendFails \/ RecordSeal
ConfirmSteps == ConfirmStarts \/ ConfirmPasses \/ ConfirmRollsBack
                    \/ ConfirmQuarantines \/ ConfirmInconclusive
SessionStep == Execute \/ EntrySteps \/ RecordSteps \/ SealSteps \/ ConfirmSteps
ResumeSteps == ResumeConfirms \/ ResumeFindsSeal \/ ResumeQuarantines
                   \/ ResumeWrites \/ ResumeSeals
Commands == ReadTarget \/ Plan \/ ResumeSteps \/ VolumeAbort \/ VerifyPasses
                \/ VerifyQuarantines \/ VolumeRetire \/ LoadCartridge
Environment == Crash \/ PowerLoss \/ Sweep \/ SweepProbes \/ SweepMarksLate

Next == SessionStep \/ Commands \/ Environment
Spec == Init /\ [][Next]_vars

\* A live process keeps taking steps, and the catalog keeps being opened.
FairSpec == Spec /\ WF_vars(SessionStep) /\ SF_vars(Sweep)

-----------------------------------------------------------------------------
(***************************************************************************)
(* What the system promises.                                               *)
(***************************************************************************)

(***************************************************************************)
(* A volume the catalog counts as sealed is on a cartridge, complete: the  *)
(* session's front index, every file up to the recorded ending, all of     *)
(* them this session's and none cut off, and right after them the seal     *)
(* that states that ending.  The catalog and the tape are never written    *)
(* together; confirm's readback, the resume cursor and the full tier after *)
(* a refusal are what make it so.                                          *)
(***************************************************************************)
HoldsSession(t) ==
    LET k == RecordedEnding
    IN  /\ Len(t) = k + 2
        /\ At(t, k + 1) = Seal(att, k)
        /\ At(t, FrontIndex) = Whole(att)
        /\ \A p \in 0 .. k : At(t, p).lay = att /\ At(t, p).kind \in {"whole", "bad"}
SealedMeansOnTape == status = "sealed" => \E c \in Carts : HoldsSession(tape[c])

(***************************************************************************)
(* A position recorded written, of a unit recorded held here, is one the   *)
(* sealed tape reaches, and every one it reaches is recorded: no crash,    *)
(* retry, short seal or re-send leaves the two apart.                      *)
(***************************************************************************)
WrittenIffReached ==
    \A u \in RowsIn({"completed", "range"}) :
        \A p \in Slices(att, u) : wp[p] = "written" <=> p <= RecordedEnding

(***************************************************************************)
(* A unit marked write_verified has every slice the tape reaches whole on  *)
(* a cartridge.  Only a full readback sets the mark.                       *)
(***************************************************************************)
VerifiedMeansIntact ==
    \A u \in RowsIn({"completed", "range"}) : vrf[u] =>
        \E c \in Carts : \A p \in Slices(att, u) :
            p <= RecordedEnding => p < Len(tape[c]) /\ At(tape[c], p) = Whole(att)

(***************************************************************************)
(* After a recorded early warning no further slice goes to the tape, also  *)
(* when the process died and another one resumed.                          *)
(***************************************************************************)
NoSliceAfterWarning ==
    warn # NoEnd =>
        \A c \in Carts : \A p \in warn + 1 .. Len(tape[c]) - 1 :
            At(tape[c], p).lay = att => At(tape[c], p).kind \in {"seal", "part"}

(***************************************************************************)
(* A finished tape, anybody's, is never written again, whatever the drive  *)
(* can or cannot read at the moment (ADR-0003).                            *)
(***************************************************************************)
Finished(t) == /\ Len(t) > First
               /\ At(t, 0).kind = "whole"
               /\ t[Len(t)].kind = "seal" /\ t[Len(t)].lay = At(t, 0).lay
SealedTapeNeverRewritten ==
    [][\A c \in Carts : Finished(tape[c]) => tape'[c] = tape[c]]_vars

(***************************************************************************)
(* Once the catalog records the seal, no command writes the tape.          *)
(***************************************************************************)
NoWriteAfterSealRecorded == [][sealed => tape' = tape]_vars

(***************************************************************************)
(* A retired volume stays retired, also under a confirm that was admitted  *)
(* on what it read before the retirement.                                  *)
(***************************************************************************)
RetiredStaysRetired == [][status = "retired" => status' = "retired"]_vars

(***************************************************************************)
(* An aborted row leaves that state only in the session that replaces the  *)
(* attempt, or to be confirmed: with its seal recorded and a clean full    *)
(* verify since the abort.                                                 *)
(***************************************************************************)
AbortedStaysUnlessVerified ==
    [][\A u \in Units : rows[u] = "aborted" /\ rows'[u] # "aborted" =>
          att' = att + 1 \/ (sealed /\ aborted = "verified")]_vars

(***************************************************************************)
(* Every command ends: the one retry of a refusal cannot be spent twice.   *)
(***************************************************************************)
EveryCommandEnds == run.pc # "idle" ~> run.pc = "idle"

(***************************************************************************)
(* The rows of a dead process do not stay in_progress.                     *)
(***************************************************************************)
OrphansAreSwept ==
    RowsIn({"in_progress"}) # {} ~> RowsIn({"in_progress"}) = {}
-----------------------------------------------------------------------------
(***************************************************************************)
(* What comments and assertions of the code say, and some run refutes.     *)
(***************************************************************************)

(***************************************************************************)
(* A slice a session has written belongs to a unit whose write row the     *)
(* session holds: the expect in run_entries.                               *)
(***************************************************************************)
EverySliceHasItsRow == run.pc = "wrote" => HasRow(run.idx)

(***************************************************************************)
(* Nothing writes a volume that is no write target: the check made before  *)
(* the session lock keeps a closed volume closed.                          *)
(***************************************************************************)
OnlyTargetsAreWritten ==
    run.pc \in {"planned", "entries", "wrote", "seal", "resend"} => IsWriteTarget

(***************************************************************************)
(* The files before the one a session writes next are whole, unless the    *)
(* session met a refusal: what the user is told of an interrupted session. *)
(***************************************************************************)
FilesBeforeCursorWhole ==
    run.pc = "entries" /\ ~lbp =>
        \A p \in 0 .. run.idx - 1 : At(tape[loaded], p).kind # "part"

(***************************************************************************)
(* A session in which the drive refused a write is confirmed in full, so a *)
(* file the refusal cut off is never under a seal the catalog believes.    *)
(***************************************************************************)
NoCutFileSealed ==
    status = "sealed" => \E c \in Carts : /\ Len(tape[c]) > RecordedEnding
        /\ \A p \in 0 .. RecordedEnding : At(tape[c], p).kind # "part"
=============================================================================
