--------------------------- MODULE MCWriteSession ---------------------------
(***************************************************************************)
(* Small instances of WriteSession for TLC.                                *)
(***************************************************************************)
EXTENDS WriteSession, TLC

CONSTANTS c1, c2

(***************************************************************************)
(* One cartridge: two units in the first attempt (one slice, then two) and *)
(* one unit of two slices in the second; File 0 apart from the index.      *)
(***************************************************************************)
OneSealAt == 0 :> 3 @@ 1 :> 5 @@ 2 :> 4
OneShape == 0 :> 0 @@ 1 :> 1 @@ 2 :> 2
OneUnitOf == 1 :> (2 :> 1 @@ 3 :> 2 @@ 4 :> 2) @@ 2 :> (2 :> 1 @@ 3 :> 1)

ForeignFront == [p \in 1 .. First + 1 |-> Whole(Foreign)]
MCFound == {<<>>, ForeignFront, Append(ForeignFront, Seal(Foreign, First))}

(***************************************************************************)
(* Liveness: one attempt of two units on a blank cartridge.                *)
(***************************************************************************)
LiveSealAt == 0 :> 2 @@ 1 :> 3
LiveShape == 0 :> 0 @@ 1 :> 1
LiveUnitOf == 1 :> (1 :> 1 @@ 2 :> 2)
Blank == {<<>>}

(***************************************************************************)
(* Two cartridges: one unit of one slice, all attempts of one size.        *)
(***************************************************************************)
TinySealAt == [l \in Layouts |-> 2]
TinyShape == [l \in Layouts |-> l]
TinyUnitOf == [a \in Attempts |-> 1 :> 1]
=============================================================================
