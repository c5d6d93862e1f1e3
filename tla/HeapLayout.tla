----------------------------- MODULE HeapLayout -----------------------------
(***************************************************************************)
(* Crash consistency of the persistent shelf-heap header: NvHeapLayout's   *)
(* Create, Destroy, Verify and Alloc in src/src/shelf_usage/shelf_heap.h.  *)
(*                                                                         *)
(* The header is magic_num, heap_size and next_free, one cache line each,  *)
(* then the data area.  mem is what the process sees (the CPU cache), pm   *)
(* what non-volatile memory holds.  A plain store changes mem only; a     *)
(* dirty line may be written back to pm at any moment (Evict), and         *)
(* pmem_persist(addr, len) writes back the lines of [addr, addr + len).    *)
(* The fam_atomic operations on next_free go straight to memory.  A crash  *)
(* loses mem; the restarted process sees pm and calls Verify: if the magic *)
(* is there it uses the heap, otherwise it creates it again.               *)
(*                                                                         *)
(* Each data cache line is abstracted to whether it holds "zero" or       *)
(* "user" bytes.                                                           *)
(***************************************************************************)
EXTENDS Naturals

CONSTANTS
    HeapSize      \* the capacity passed to Create, in cache lines

ASSUME HeapSize \in Nat \ {0}

kMagicNum == 684327

\* One cache line per header field, so offsets here count cache lines.
kMetadataSize == 3

DataLines == 1..HeapSize

HeaderLines == {"magic", "heap_size", "next_free"}

Zeroed == [l \in DataLines |-> "zero"]

Image == [magic : {0, kMagicNum}, heap_size : {0, HeapSize},
          next_free : 0..(kMetadataSize + HeapSize),
          data : [DataLines -> {"zero", "user"}]]

VARIABLES
    mem,          \* the header and data as the running process sees them
    pm,           \* the header and data as persistent memory holds them
    pc,           \* where the process is: "none", "ready", "recover" or a step
    fresh,        \* history: Create has returned, no Alloc or Destroy since
    destroyed,    \* history: Destroy has returned and Create not been called since
    destroying    \* history: Destroy has begun and Create not been called since

vars == <<mem, pm, pc, fresh, destroyed, destroying>>

Steps == {"none", "ready", "recover",
          "c_persist", "c_magic", "c_persist_magic",
          "d_store", "d_persist", "d_magic", "d_persist_magic"}

TypeOK ==
    /\ mem \in Image
    /\ pm \in Image
    /\ pc \in Steps
    /\ fresh \in BOOLEAN
    /\ destroyed \in BOOLEAN
    /\ destroying \in BOOLEAN

\* A new shelf file reads as zeros.
Init ==
    /\ mem = [magic |-> 0, heap_size |-> 0, next_free |-> 0, data |-> Zeroed]
    /\ pm = mem
    /\ pc = "none"
    /\ fresh = FALSE
    /\ destroyed = FALSE
    /\ destroying = FALSE

\* The lines pmem_persist(&heap_size, kCacheLineSize*2 + n) writes back:
\* the heap_size and next_free lines and the first n lines of data.
PersistedBy(n) == [hdr |-> {"heap_size", "next_free"}, data |-> 1..n]

\* Write back the header lines lines.hdr and the data lines lines.data.
Persist(lines) ==
    pm' = [f \in DOMAIN pm |->
             IF f = "data"
               THEN [l \in DataLines |-> IF l \in lines.data THEN mem.data[l] ELSE pm.data[l]]
               ELSE IF f \in lines.hdr THEN mem[f] ELSE pm[f]]

-----------------------------------------------------------------------------
(* NvHeapLayout::Create *)

\* next_free = kMetadataSize; heap_size = heap_size; memset(data, 0).
CreateStore ==
    /\ pc = "none"
    /\ mem' = [mem EXCEPT !.next_free = kMetadataSize, !.heap_size = HeapSize,
                          !.data = Zeroed]
    /\ pc' = "c_persist"
    /\ destroyed' = FALSE
    /\ destroying' = FALSE
    /\ UNCHANGED <<pm, fresh>>

\* Mutant of CreatePersist: nothing is written back before the magic.
CreateNoPersist ==
    /\ pc = "c_persist"
    /\ pc' = "c_magic"
    /\ UNCHANGED <<mem, pm, fresh, destroyed, destroying>>

\* Mutant of CreatePersist: only the two header lines are written back.
CreatePersistHeader ==
    /\ pc = "c_persist"
    /\ Persist(PersistedBy(0))
    /\ pc' = "c_magic"
    /\ UNCHANGED <<mem, fresh, destroyed, destroying>>

\* pmem_persist(&heap_size, kCacheLineSize*2 + heap_size)
CreatePersist ==
    /\ pc = "c_persist"
    /\ Persist(PersistedBy(mem.heap_size))
    /\ pc' = "c_magic"
    /\ UNCHANGED <<mem, fresh, destroyed, destroying>>

\* magic_num = kMagicNum
CreateMagic ==
    /\ pc = "c_magic"
    /\ mem' = [mem EXCEPT !.magic = kMagicNum]
    /\ pc' = "c_persist_magic"
    /\ UNCHANGED <<pm, fresh, destroyed, destroying>>

\* pmem_persist(&magic_num, kCacheLineSize); Create returns.
CreatePersistMagic ==
    /\ pc = "c_persist_magic"
    /\ Persist([hdr |-> {"magic"}, data |-> {}])
    /\ pc' = "ready"
    /\ fresh' = TRUE
    /\ UNCHANGED <<mem, destroyed, destroying>>

-----------------------------------------------------------------------------
(* NvHeapLayout::Destroy *)

\* heap_size is read into a local and the magic asserted.
DestroyBegin ==
    /\ pc = "ready"
    /\ mem.magic = kMagicNum
    /\ pc' = "d_store"
    /\ fresh' = FALSE
    /\ destroying' = TRUE
    /\ UNCHANGED <<mem, pm, destroyed>>

\* next_free = 0; heap_size = 0; memset(data, 0, local heap_size).
DestroyStore ==
    /\ pc = "d_store"
    /\ mem' = [mem EXCEPT !.next_free = 0, !.heap_size = 0, !.data = Zeroed]
    /\ pc' = "d_persist"
    /\ UNCHANGED <<pm, fresh, destroyed, destroying>>

\* pmem_persist(&heap_size, kCacheLineSize*2 + layout->heap_size), with
\* layout->heap_size already 0.
DestroyPersist ==
    /\ pc = "d_persist"
    /\ Persist(PersistedBy(mem.heap_size))
    /\ pc' = "d_magic"
    /\ UNCHANGED <<mem, fresh, destroyed, destroying>>

\* magic_num = 0
DestroyMagic ==
    /\ pc = "d_magic"
    /\ mem' = [mem EXCEPT !.magic = 0]
    /\ pc' = "d_persist_magic"
    /\ UNCHANGED <<pm, fresh, destroyed, destroying>>

\* pmem_persist(&magic_num, kCacheLineSize); Destroy returns.
DestroyPersistMagic ==
    /\ pc = "d_persist_magic"
    /\ Persist([hdr |-> {"magic"}, data |-> {}])
    /\ pc' = "none"
    /\ destroyed' = TRUE
    /\ UNCHANGED <<mem, fresh, destroying>>

-----------------------------------------------------------------------------
(* Use of the heap, write-back, crash and restart. *)

\* Mutant of Alloc: the bound check is dropped.
AllocNoBound ==
    /\ pc = "ready"
    /\ mem' = [mem EXCEPT !.next_free = @ + 1]
    /\ pm' = [pm EXCEPT !.next_free = mem.next_free + 1]
    /\ fresh' = FALSE
    /\ UNCHANGED <<pc, destroyed, destroying>>

\* Alloc of one cache line: the CAS on next_free, if the line fits below
\* kMetadataSize + heap_size, goes straight to memory.
Alloc ==
    /\ pc = "ready"
    /\ mem.next_free + 1 <= kMetadataSize + mem.heap_size
    /\ mem' = [mem EXCEPT !.next_free = @ + 1]
    /\ pm' = [pm EXCEPT !.next_free = mem.next_free + 1]
    /\ fresh' = FALSE
    /\ UNCHANGED <<pc, destroyed, destroying>>

\* The client stores into data line l of a block it allocated.
UserWrite(l) ==
    /\ pc = "ready"
    /\ kMetadataSize + l <= mem.next_free
    /\ mem' = [mem EXCEPT !.data[l] = "user"]
    /\ UNCHANGED <<pm, pc, fresh, destroyed, destroying>>

\* The cache writes a dirty header line back on its own.
Evict(f) ==
    /\ mem[f] /= pm[f]
    /\ pm' = [pm EXCEPT ![f] = mem[f]]
    /\ UNCHANGED <<mem, pc, fresh, destroyed, destroying>>

\* The cache writes a dirty data line back on its own.
EvictData(l) ==
    /\ mem.data[l] /= pm.data[l]
    /\ pm' = [pm EXCEPT !.data[l] = mem.data[l]]
    /\ UNCHANGED <<mem, pc, fresh, destroyed, destroying>>

\* The process dies; what was not written back is lost.
Crash ==
    /\ pc /= "recover"
    /\ mem' = pm
    /\ pc' = "recover"
    /\ UNCHANGED <<pm, fresh, destroyed, destroying>>

\* The restarted process calls Verify: fam_atomic_u64_read(&magic_num).
Verify ==
    /\ pc = "recover"
    /\ pc' = IF mem.magic = kMagicNum THEN "ready" ELSE "none"
    /\ UNCHANGED <<mem, pm, fresh, destroyed, destroying>>

\* The life of a heap up to its destruction.
NextLive ==
    \/ CreateStore \/ CreatePersist \/ CreateMagic \/ CreatePersistMagic
    \/ Alloc \/ Crash \/ Verify
    \/ \E l \in DataLines : UserWrite(l) \/ EvictData(l)
    \/ \E f \in HeaderLines : Evict(f)

Next ==
    \/ NextLive
    \/ DestroyBegin \/ DestroyStore \/ DestroyPersist \/ DestroyMagic
    \/ DestroyPersistMagic

Spec == Init /\ [][Next]_vars

-----------------------------------------------------------------------------
(* Properties *)

\* Whenever the process can die, a restart that finds the magic in
\* persistent memory finds a formatted header behind it: heap_size is the
\* capacity and next_free lies in the data area.  This is what Create's
\* "magic last, after a persist" order is for.
RecoveredHeapFormatted ==
    pm.magic = kMagicNum =>
        /\ pm.heap_size = HeapSize
        /\ pm.next_free \in kMetadataSize..(kMetadataSize + HeapSize)

\* Create is crash-safe: until a Destroy begins, a restart that finds the
\* magic finds a formatted header, also when Create formats the remains of
\* a destroyed heap.
CreateCrashSafe == ~destroying => RecoveredHeapFormatted

\* Create yields a fresh, empty heap in persistent memory, even over the
\* remains of a destroyed one: until the first Alloc, a crash finds the
\* magic, the capacity, next_free = kMetadataSize and a zeroed data area.
FreshAfterCreate ==
    fresh => pm = [magic |-> kMagicNum, heap_size |-> HeapSize,
                   next_free |-> kMetadataSize, data |-> Zeroed]

\* Destroy zeroes the data area durably (spec 4.1, "then zeroes the rest").
DestroyZeroesData == destroyed => pm.data = Zeroed

=============================================================================
