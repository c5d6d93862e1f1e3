----------------------------- MODULE ShelfHeap -----------------------------
(***************************************************************************)
(* The lock-free bump allocator of a shelf heap: NvHeapLayout::Alloc and   *)
(* NvHeapLayout::IsValid in src/src/shelf_usage/shelf_heap.h.              *)
(*                                                                         *)
(* Every thread of every process that maps the shelf shares the persistent *)
(* cursor next_free; the only synchronisation is fam_atomic_u64_read and   *)
(* fam_atomic_u64_compare_and_store on it.  A call of Alloc is three steps *)
(* of its thread: the call itself, the load of next_free with the bound    *)
(* check (label retry), and the CAS, which on failure goes back to retry.  *)
(*                                                                         *)
(* Offsets are 64-bit unsigned in the code; here they are Width-bit        *)
(* unsigned, so that the wrap-around of expected + round_up(size) and of   *)
(* desired - kMetadataSize is kept.                                        *)
(***************************************************************************)
EXTENDS Naturals, FiniteSets

CONSTANTS
    Threads,      \* the threads (of one or more processes) calling Alloc
    CacheLine,    \* kCacheLineSize
    HeapSize,     \* heap_size, the capacity fixed at NvHeapLayout::Create
    Width,        \* bits of Offset and size_t
    Sizes,        \* the request sizes passed to Alloc
    MaxAllocs     \* bound on the number of Alloc calls

ASSUME CacheLine > 0 /\ HeapSize > 0 /\ Width > 0 /\ MaxAllocs > 0

Modulus == 2^Width

ASSUME 3 * CacheLine + HeapSize < Modulus /\ Sizes \subseteq 0..(Modulus - 1)

\* Unsigned Width-bit addition and subtraction.
Plus(a, b) == (a + b) % Modulus
Minus(a, b) == (a - b) % Modulus

\* kMetadataSize: magic_num, heap_size and next_free, one cache line each.
kMetadataSize == 3 * CacheLine

\* round_up(size, kCacheLineSize), in size_t arithmetic.
round_up(n, b) == (((n + b - 1) % Modulus) \div b) * b

\* NvHeapLayout::IsValid: the offset lies in the data area.
IsValid(offset) ==
    /\ offset >= kMetadataSize
    /\ Minus(offset, kMetadataSize) < HeapSize

VARIABLES
    next_free,    \* the persistent cursor
    pc,           \* per thread: "idle", "retry" (about to load) or "cas"
    req,          \* per thread: the size argument of its current call
    expected,     \* per thread: expected_next_free read at retry
    nallocs,      \* number of Alloc calls made so far
    callid,       \* per thread: the number of its current call
    blocks        \* history: <<id, offset, round_up(size)>> of every success

vars == <<next_free, pc, req, expected, nallocs, callid, blocks>>

\* Mutant of Need: the request is not rounded up to a cache line.
NeedUnrounded(t) == req[t]

Need(t) == round_up(req[t], CacheLine)

Desired(t) == Plus(expected[t], Need(t))

TypeOK ==
    /\ next_free \in kMetadataSize..(kMetadataSize + HeapSize)
    /\ pc \in [Threads -> {"idle", "retry", "cas"}]
    /\ req \in [Threads -> Sizes \union {0}]
    /\ expected \in [Threads -> 0..(Modulus - 1)]
    /\ nallocs \in 0..MaxAllocs
    /\ callid \in [Threads -> 0..MaxAllocs]
    /\ blocks \subseteq (1..MaxAllocs) \X (0..(Modulus - 1)) \X (0..(Modulus - 1))

\* The state NvHeapLayout::Create leaves: next_free = kMetadataSize.
Init ==
    /\ next_free = kMetadataSize
    /\ pc = [t \in Threads |-> "idle"]
    /\ req = [t \in Threads |-> 0]
    /\ expected = [t \in Threads |-> 0]
    /\ nallocs = 0
    /\ callid = [t \in Threads |-> 0]
    /\ blocks = {}

\* Thread t calls Alloc(size).
Call(t, size) ==
    /\ pc[t] = "idle"
    /\ nallocs < MaxAllocs
    /\ nallocs' = nallocs + 1
    /\ callid' = [callid EXCEPT ![t] = nallocs + 1]
    /\ req' = [req EXCEPT ![t] = size]
    /\ pc' = [pc EXCEPT ![t] = "retry"]
    /\ UNCHANGED <<next_free, expected, blocks>>

\* Mutant of GetNextFree: the bound is checked on the cursor read, not on
\* the end of the new block.
GetNextFreeChecksOld(t) ==
    /\ pc[t] = "retry"
    /\ expected' = [expected EXCEPT ![t] = next_free]
    /\ pc' = [pc EXCEPT ![t] =
                 IF Minus(next_free, kMetadataSize) > HeapSize THEN "idle" ELSE "cas"]
    /\ UNCHANGED <<next_free, req, nallocs, callid, blocks>>

\* retry: expected_next_free = GetNextFree(); desired = expected + need;
\* if desired - kMetadataSize > heap_size the call returns 0.
GetNextFree(t) ==
    LET desired == Plus(next_free, Need(t)) IN
    /\ pc[t] = "retry"
    /\ expected' = [expected EXCEPT ![t] = next_free]
    /\ pc' = [pc EXCEPT ![t] =
                 IF Minus(desired, kMetadataSize) > HeapSize THEN "idle" ELSE "cas"]
    /\ UNCHANGED <<next_free, req, nallocs, callid, blocks>>

\* Mutant of CASNextFree: a plain store of desired instead of a CAS.
CASNextFreeStore(t) ==
    /\ pc[t] = "cas"
    /\ next_free' = Desired(t)
    /\ blocks' = blocks \union {<<callid[t], expected[t], Need(t)>>}
    /\ pc' = [pc EXCEPT ![t] = "idle"]
    /\ UNCHANGED <<req, expected, nallocs, callid>>

\* Mutant of CASNextFree: a failed CAS is retried with the stale expected
\* value instead of going back to retry and reloading next_free.
CASNextFreeNoReload(t) ==
    /\ pc[t] = "cas"
    /\ IF next_free = expected[t]
         THEN /\ next_free' = Desired(t)
              /\ blocks' = blocks \union {<<callid[t], expected[t], Need(t)>>}
              /\ pc' = [pc EXCEPT ![t] = "idle"]
         ELSE UNCHANGED <<pc, next_free, blocks>>
    /\ UNCHANGED <<req, expected, nallocs, callid>>

\* CASNextFree(&next_free, expected, desired): on success Alloc returns
\* expected; on failure it goes back to retry.
CASNextFree(t) ==
    /\ pc[t] = "cas"
    /\ IF next_free = expected[t]
         THEN /\ next_free' = Desired(t)
              /\ blocks' = blocks \union {<<callid[t], expected[t], Need(t)>>}
              /\ pc' = [pc EXCEPT ![t] = "idle"]
         ELSE /\ pc' = [pc EXCEPT ![t] = "retry"]
              /\ UNCHANGED <<next_free, blocks>>
    /\ UNCHANGED <<req, expected, nallocs, callid>>

Next ==
    \/ \E t \in Threads, size \in Sizes : Call(t, size)
    \/ \E t \in Threads : GetNextFree(t)
    \/ \E t \in Threads : CASNextFree(t)

\* Threads are OS threads: once in Alloc a thread keeps being scheduled.
Fairness == \A t \in Threads : WF_vars(GetNextFree(t)) /\ WF_vars(CASNextFree(t))

Spec == Init /\ [][Next]_vars

FairSpec == Spec /\ Fairness

-----------------------------------------------------------------------------
(* Properties *)

\* Blocks returned by concurrent Alloc calls never overlap: no two threads
\* are handed the same bytes, whatever order their loads and CASes of
\* next_free interleave in.
BlocksDisjoint ==
    \A b1, b2 \in blocks :
        b1[1] /= b2[1] /\ b1[3] > 0 /\ b2[3] > 0 =>
            \/ b1[2] + b1[3] <= b2[2]
            \/ b2[2] + b2[3] <= b1[2]

\* Every offset Alloc returns is 0 or a valid offset (spec 4.1: "returns a
\* valid offset or 0"), i.e. IsValid holds of every successful result.
ReturnedOffsetsValid == \A b \in blocks : IsValid(b[2])

\* The CAS loop of Alloc implements the atomic bump allocator: each
\* successful call takes effect at its CAS as one step of BumpAlloc, and
\* the cursor never leaves the data area.
Abstract == INSTANCE BumpAlloc WITH
    HeaderSize <- kMetadataSize,
    Needs <- {round_up(s, CacheLine) : s \in Sizes},
    Ids <- 1..MaxAllocs

BumpAllocRefined == Abstract!Spec

\* Every call of Alloc eventually returns (the loop of retries ends), given
\* that each thread keeps being scheduled.
AllocReturns == \A t \in Threads : pc[t] /= "idle" ~> pc[t] = "idle"

=============================================================================
