-------------------------------- MODULE Tape --------------------------------
(***************************************************************************)
(* The medium, and what the program can learn of it by reading it: the     *)
(* files between filemarks, where a seal is looked for (locate_seal),      *)
(* whose tape it is (contact_report), and the keyless readback that        *)
(* confirms a tape (chain_walk).                                           *)
(*                                                                         *)
(* A tape is a sequence of files; tape file p is its (p+1)-th element.     *)
(* Positions 0 .. First-1 are the front zone (File 0, guide, RESTORE.sh,   *)
(* the front index and the envelopes, all written before the first slice), *)
(* First .. SealAt[l]-1 the data slices of layout l, SealAt[l] its planned *)
(* seal.  File 0 is the first file and the front index the last of the     *)
(* front zone.  A file is the layout (the frozen build) its bytes belong   *)
(* to, what became of them, and, for a seal, the ended_after it states.    *)
(***************************************************************************)
EXTENDS Integers, Sequences, FiniteSets

CONSTANTS
    First,      \* position of the first data slice
    MaxAttempt, \* write sessions planned on the volume, at most
    SealAt,     \* planned seal position of each layout
    Shape       \* the types and sizes a layout lists, up to equality

(***************************************************************************)
(* Layout 0 is some other volume's; layout a, for a in 1 .. MaxAttempt, is *)
(* the one the a-th write session of this volume froze.                    *)
(***************************************************************************)
Foreign == 0
Attempts == 1 .. MaxAttempt
Layouts == 0 .. MaxAttempt
FrontIndex == First - 1

ASSUME FirstAssumption == First \in Nat \ {0}
ASSUME MaxAttemptAssumption == MaxAttempt \in Nat
ASSUME SealAtAssumption == /\ SealAt \in [Layouts -> Nat]
                           /\ \A l \in Layouts : SealAt[l] > First

File == [lay : Layouts, kind : {"whole", "part", "bad", "seal"}, ended : Nat]

Whole(l) == [lay |-> l, kind |-> "whole", ended |-> 0]
\* Some of the file's blocks, closed by the filemark st writes on close.
Part(l) == [lay |-> l, kind |-> "part", ended |-> 0]
\* The right number of bytes, not the bytes that were hashed.
Bad(l) == [lay |-> l, kind |-> "bad", ended |-> 0]
Seal(l, k) == [lay |-> l, kind |-> "seal", ended |-> k]

At(t, p) == t[p + 1]
Keep(t, n) == SubSeq(t, 1, n)

(***************************************************************************)
(* Writing at position p ends the recorded data there.  A write that does  *)
(* not finish leaves the files before p, and perhaps part of file p.       *)
(***************************************************************************)
Overwrite(t, p, f) == Append(Keep(t, p), f)
Torn(t, p, l) == {Keep(t, p), Overwrite(t, p, Part(l))}

\* reposition_at_most: the file asked for, or the count of files if fewer.
RepositionAtMost(t, n) == IF Len(t) < n THEN Len(t) ELSE n

-----------------------------------------------------------------------------
(***************************************************************************)
(* locate_seal: the file at the planned position; on a tape that ends at   *)
(* or before it, the last file.  reads says whether the drive reads the    *)
(* file it is asked for.                                                   *)
(***************************************************************************)
LocateSeal(t, planned, reads) ==
    LET at == IF Len(t) > planned THEN planned ELSE Len(t) - 1
    IN  CASE Len(t) = 0 -> [found |-> "absent", at |-> 0]
          [] Len(t) > 0 /\ reads -> [found |-> "file", at |-> at]
          [] Len(t) > 0 /\ ~reads -> [found |-> "unreadable", at |-> at]

\* ContactFacts::probe_seal: a file that is no seal marker is no seal.
ProbeSeal(t, planned, reads) ==
    LET l == LocateSeal(t, planned, reads)
    IN  IF l.found = "file"
        THEN IF At(t, l.at).kind = "seal" THEN "parses" ELSE "absent"
        ELSE l.found

\* Mutant: a seal that cannot be read is no seal.
ProbedUnreadableIsAbsent(probe, otherwise) ==
    IF probe = "parses" THEN "alreadySealed" ELSE otherwise

Probed(probe, otherwise) ==
    CASE probe = "parses" -> "alreadySealed"
      [] probe = "unreadable" -> "sealUnreadable"
      [] probe = "absent" -> otherwise

(***************************************************************************)
(* contact_report: File 0 first.  Where it reads, the tape's OWN seal      *)
(* pointer is probed before the identity is judged, so a sealed tape is    *)
(* found whoever's it is; then the position the caller planned.  reads0    *)
(* and readsSeal say whether the drive reads File 0 and the seal.          *)
(***************************************************************************)
Contact(t, planned, reads0, readsSeal) ==
    LET own == ProbeSeal(t, planned, readsSeal)
    IN  IF Len(t) = 0 THEN "blank"
        ELSE IF ~reads0 THEN Probed(own, "fileZeroUnreadable")
        ELSE IF At(t, 0).kind # "whole" THEN "identityMismatch"
        ELSE Probed(ProbeSeal(t, SealAt[At(t, 0).lay], readsSeal),
                    IF At(t, 0).lay = Foreign THEN "identityMismatch"
                    ELSE Probed(own, "matches"))

(***************************************************************************)
(* resume_reconfirm_eligible: the ending the seal found at contact states, *)
(* when identity, the tape's own pointer and the seal's place agree with   *)
(* the session's layout l; the empty set when they do not.                 *)
(***************************************************************************)
ReconfirmEndings(t, l) ==
    IF Len(t) = 0 \/ At(t, 0).kind # "whole" THEN {}
    ELSE LET s == LocateSeal(t, SealAt[l], TRUE).at
         IN  {k \in {s - 1} : /\ At(t, 0).lay # Foreign
                              /\ SealAt[At(t, 0).lay] = SealAt[l]
                              /\ At(t, s).kind = "seal"
                              /\ s = SealAt[l] \/ At(t, s).ended = s - 1}

-----------------------------------------------------------------------------
(***************************************************************************)
(* chain_walk and judge, on a tape every file of which reads: what the     *)
(* walk of layout l, expected to end after position k, finds.  content is  *)
(* the set of positions read back in full.  A seal that is missing or does *)
(* not parse, a short file and a disagreement about where the tape ended   *)
(* are no evidence against the medium; wrong bytes are.  Every seal here   *)
(* requires short-seal, a full one too (frozen_requires), so read_seal     *)
(* takes it for a seal before the planned position as well.                *)
(***************************************************************************)
ChainWalk(t, l, k, content) ==
    IF Len(t) <= k + 1 \/ Len(t) <= FrontIndex THEN "inconclusive"
    ELSE
    LET s  == At(t, k + 1)
        fi == At(t, FrontIndex)
        read == content \ {FrontIndex}
        short == fi.kind = "part" \/ \E p \in read : At(t, p).kind = "part"
        wrong == \/ fi.kind = "bad"
                 \/ fi.kind = "whole" /\ (fi.lay # s.lay \/ Shape[fi.lay] # Shape[l])
                 \/ fi.kind = "whole" /\ \E p \in read :
                        /\ At(t, p).kind # "part"
                        /\ At(t, p) # Whole(fi.lay)
    IN  CASE s.kind # "seal" \/ s.ended # k -> "inconclusive"
          [] s.kind = "seal" /\ s.ended = k /\ wrong -> "mediumBad"
          [] s.kind = "seal" /\ s.ended = k /\ ~wrong /\ short -> "inconclusive"
          [] OTHER -> "passed"

\* Mutant: the full tier stops one file short.
ContentReadShort(tier, k, warned) ==
    IF tier = "full" THEN 0 .. k - 1 ELSE IF warned THEN {k} ELSE {}

\* What each tier reads back besides the seal and the front index: every
\* file at the full tier; at the quick one, the slice the warning came in.
ContentRead(tier, k, warned) ==
    IF tier = "full" THEN 0 .. k ELSE IF warned THEN {k} ELSE {}
=============================================================================
