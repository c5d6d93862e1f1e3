----------------------------- MODULE BumpAlloc -----------------------------
(***************************************************************************)
(* What a shelf heap promises its callers (spec section 4.1): allocation   *)
(* is one indivisible step that carves the next need bytes off the data    *)
(* area, [kMetadataSize, kMetadataSize + HeapSize), or fails when they do  *)
(* not fit.  There is no free list: Free gives nothing back.               *)
(*                                                                         *)
(* blocks is the history of successful allocations, <<id, offset, len>>,   *)
(* where id numbers the allocation calls.                                  *)
(***************************************************************************)
EXTENDS Naturals

CONSTANTS
    HeaderSize,   \* kMetadataSize, the smallest valid offset
    HeapSize,     \* capacity of the data area in bytes
    Needs,        \* the rounded request sizes callers can make
    Ids           \* allocation call numbers

VARIABLES next_free, blocks

vars == <<next_free, blocks>>

Init ==
    /\ next_free = HeaderSize
    /\ blocks = {}

\* Allocation id of need bytes succeeds when they fit in the data area.
Alloc(id, need) ==
    /\ next_free + need <= HeaderSize + HeapSize
    /\ next_free' = next_free + need
    /\ blocks' = blocks \union {<<id, next_free, need>>}

Next == \E id \in Ids, need \in Needs : Alloc(id, need)

Spec == Init /\ [][Next]_vars

=============================================================================
