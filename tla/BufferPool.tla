----------------------------- MODULE BufferPool -----------------------------
(***************************************************************************)
(* The pool of block buffers one pipeline at a time streams through, and   *)
(* how the stage that fills buffers gets one (Producer::take).  A buffer   *)
(* is never named: Rust moves it from one owner to the next, so what       *)
(* matters is how many there are and where.                                *)
(***************************************************************************)
EXTENDS Integers, Sequences

CONSTANTS
    Chunk,      \* bytes in a buffer: one tape block
    MaxBuffers  \* the pool's bound

ASSUME ChunkAssumption == Chunk \in Nat \ {0}
ASSUME MaxBuffersAssumption == MaxBuffers \in Nat /\ MaxBuffers >= 2

VARIABLES
    allocated,  \* the pool's count of the buffers that exist
    free,       \* buffers waiting in the pool
    returned,   \* buffers the consumer sent back and the producer has not taken
    producer    \* where the producing stage is; it holds a buffer at "fill"

poolVars == <<allocated, free, returned, producer>>

Least(a, b) == IF a < b THEN a ELSE b

PoolInit == allocated = 0 /\ free = 0 /\ returned = 0

\* Mutant: a returned buffer is taken without looking whether there is one.
TakeUnchecked(open) ==
    /\ producer = "take"
    /\ returned' = returned - 1
    /\ producer' = "fill"
    /\ UNCHANGED <<allocated, free>>

(***************************************************************************)
(* take, up to the first look at the returned buffers: a buffer of the     *)
(* pool, a returned one, nothing when the consumer has gone; otherwise on  *)
(* to Grow.  open says whether the consumer still holds its ends.          *)
(***************************************************************************)
Take(open) ==
    /\ producer = "take"
    /\ \/ /\ free > 0
          /\ free' = free - 1
          /\ producer' = "fill"
          /\ UNCHANGED returned
       \/ /\ free = 0 /\ returned > 0
          /\ returned' = returned - 1
          /\ producer' = "fill"
          /\ UNCHANGED free
       \/ /\ free = 0 /\ returned = 0
          /\ producer' = IF open THEN "grow" ELSE "done"
          /\ UNCHANGED <<free, returned>>
    /\ UNCHANGED allocated

\* Mutant: the bound is tested one too late.
GrowPastBound(open) ==
    /\ producer = "grow"
    /\ allocated <= MaxBuffers
    /\ allocated' = allocated + 1
    /\ producer' = "fill"
    /\ UNCHANGED <<free, returned>>

(***************************************************************************)
(* The rest of take: a new buffer while the pool has room, else wait for   *)
(* the consumer to hand one back or to go.                                 *)
(***************************************************************************)
Grow(open) ==
    /\ producer = "grow"
    /\ \/ /\ allocated < MaxBuffers
          /\ allocated' = allocated + 1
          /\ producer' = "fill"
          /\ UNCHANGED returned
       \/ /\ allocated >= MaxBuffers /\ returned > 0
          /\ returned' = returned - 1
          /\ producer' = "fill"
          /\ UNCHANGED allocated
       \/ /\ allocated >= MaxBuffers /\ returned = 0 /\ ~open
          /\ producer' = "done"
          /\ UNCHANGED <<allocated, returned>>
    /\ UNCHANGED free

\* Mutant: the count keeps the buffers that went with a stopped stage.
SettleUncounted ==
    /\ free' = free + returned
    /\ returned' = 0
    /\ UNCHANGED allocated

\* settle: take back what came back, and count what is left.
Settle ==
    /\ free' = free + returned
    /\ returned' = 0
    /\ allocated' = free + returned
=============================================================================
