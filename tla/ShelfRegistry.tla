---------------------------- MODULE ShelfRegistry ----------------------------
(***************************************************************************)
(* ShelfFile::Map(addr_hint, &addr) and ShelfFile::Unmap(addr, unregister) *)
(* in src/src/shelf_mgmt/shelf_file.cc: the threads of one process share   *)
(* one mapping of a shelf through ShelfManager's registry, which they      *)
(* reach under ShelfManager::Lock.  Each thread owns an open ShelfFile of  *)
(* the shelf.  The inner Map(..., true) and Unmap(..., length, true) are   *)
(* modelled by their outcomes.                                              *)
(*                                                                         *)
(* A mapping is named by a fresh number (mmap may in fact reuse an         *)
(* address).  ShelfManager is not in the repository: the registry is one   *)
(* entry per shelf, which LookupShelf reads, RegisterShelf sets and         *)
(* UnregisterShelf clears.                                                  *)
(***************************************************************************)
EXTENDS Naturals

CONSTANTS
    Threads,          \* threads of the process, each with its ShelfFile
    MaxMaps,          \* bound on the mmap calls made
    UnregisterModes,  \* the values callers pass as Unmap's unregister
    Failures          \* calls that may fail: "mmap", "register", "munmap"

ASSUME /\ MaxMaps \in Nat \ {0}
       /\ UnregisterModes \subseteq BOOLEAN /\ UnregisterModes /= {}
       /\ Failures \subseteq {"mmap", "register", "munmap"}

NoOwner == "none"   \* ShelfManager's lock is free
None == 0           \* no address: NULL, or an empty registry entry

VARIABLES
    lock,     \* the thread holding ShelfManager's lock, or NoOwner
    reg,      \* the registry entry of the shelf
    mmaps,    \* the live mappings of the shelf in the process
    nmaps,    \* mappings made so far (they are 1..nmaps)
    pc,       \* per thread: "idle", "map_mmap" or "unmap_munmap"
    held,     \* per thread: the address its caller got from Map, or None
    ret,      \* per thread: what its last call returned
    aborted   \* an assert failed and the process is gone

vars == <<lock, reg, mmaps, nmaps, pc, held, ret, aborted>>

Outcomes(c) == IF c \in Failures THEN BOOLEAN ELSE {TRUE}

TypeOK ==
    /\ lock \in Threads \union {NoOwner}
    /\ reg \in 0..nmaps
    /\ mmaps \subseteq 1..nmaps
    /\ nmaps \in 0..MaxMaps
    /\ pc \in [Threads -> {"idle", "map_mmap", "unmap_munmap"}]
    /\ held \in [Threads -> 0..nmaps]
    /\ ret \in [Threads -> {"NO_ERROR", "SHELF_FILE_MAP_FAILED", "SHELF_FILE_UNMAP_FAILED"}]
    /\ aborted \in BOOLEAN

Init ==
    /\ lock = NoOwner
    /\ reg = None
    /\ mmaps = {}
    /\ nmaps = 0
    /\ pc = [t \in Threads |-> "idle"]
    /\ held = [t \in Threads |-> None]
    /\ ret = [t \in Threads |-> "NO_ERROR"]
    /\ aborted = FALSE

\* A step of thread t: it is at step s and the process is alive.
At(t, s) == pc[t] = s /\ ~aborted

-----------------------------------------------------------------------------
(* Map(addr_hint, &mapped_addr) *)

\* Mutant of MapLookup: the registry is read without ShelfManager::Lock.
MapLookupUnlocked(t) ==
    /\ At(t, "idle") /\ held[t] = None
    /\ IF reg /= None
         THEN held' = [held EXCEPT ![t] = reg] /\ ret' = [ret EXCEPT ![t] = "NO_ERROR"]
              /\ UNCHANGED pc
         ELSE nmaps < MaxMaps /\ pc' = [pc EXCEPT ![t] = "map_mmap"] /\ UNCHANGED <<held, ret>>
    /\ UNCHANGED <<lock, reg, mmaps, nmaps, aborted>>

\* ShelfManager::Lock(); addr = LookupShelf(shelf_id_): a registered
\* mapping is returned (and the lock released); otherwise go on, holding
\* the lock.  (Calls past the bound on mmaps are not made.)
MapLookup(t) ==
    /\ At(t, "idle") /\ held[t] = None
    /\ lock = NoOwner
    /\ IF reg /= None
         THEN held' = [held EXCEPT ![t] = reg] /\ ret' = [ret EXCEPT ![t] = "NO_ERROR"]
              /\ UNCHANGED <<lock, pc>>
         ELSE /\ nmaps < MaxMaps
              /\ lock' = t /\ pc' = [pc EXCEPT ![t] = "map_mmap"]
              /\ UNCHANGED <<held, ret>>
    /\ UNCHANGED <<reg, mmaps, nmaps, aborted>>

\* The effect on mmaps of Map(hint, length, prot, flags, 0, &addr, true):
\* mmap, then fam_atomic_register_region; if registering fails it returns
\* an error and the mapping stays.
Mmapped(mapped) == mmaps' = IF mapped THEN mmaps \union {nmaps + 1} ELSE mmaps

\* Mutant of MapMmap: *mapped_addr is set even when mmap failed.
MapMmapReturnsFailedAddr(t) ==
    /\ At(t, "map_mmap")
    /\ \E mapped \in Outcomes("mmap"), registered \in Outcomes("register") :
          /\ Mmapped(mapped)
          /\ nmaps' = IF mapped THEN nmaps + 1 ELSE nmaps
          /\ held' = [held EXCEPT ![t] = nmaps + 1]
          /\ reg' = IF mapped /\ registered THEN nmaps + 1 ELSE reg
          /\ ret' = [ret EXCEPT ![t] = IF mapped /\ registered THEN "NO_ERROR"
                                                          ELSE "SHELF_FILE_MAP_FAILED"]
    /\ lock' = NoOwner
    /\ pc' = [pc EXCEPT ![t] = "idle"]
    /\ UNCHANGED aborted

\* length = Size(); ret = Map(..., &addr, true); on NO_ERROR
\* RegisterShelf(shelf_id_, addr, length) and Unlock, else Unlock and
\* return SHELF_FILE_MAP_FAILED.
MapMmap(t) ==
    /\ At(t, "map_mmap")
    /\ \E mapped \in Outcomes("mmap"), registered \in Outcomes("register") :
          /\ Mmapped(mapped)
          /\ nmaps' = IF mapped THEN nmaps + 1 ELSE nmaps
          /\ IF mapped /\ registered
               THEN /\ reg' = nmaps + 1
                    /\ held' = [held EXCEPT ![t] = nmaps + 1]
                    /\ ret' = [ret EXCEPT ![t] = "NO_ERROR"]
               ELSE /\ ret' = [ret EXCEPT ![t] = "SHELF_FILE_MAP_FAILED"]
                    /\ UNCHANGED <<reg, held>>
    /\ lock' = NoOwner
    /\ pc' = [pc EXCEPT ![t] = "idle"]
    /\ UNCHANGED aborted

-----------------------------------------------------------------------------
(* Unmap(mapped_addr, unregister) *)

\* Mutant of UnmapLock: UnregisterShelf is left out.
UnmapLockKeepsEntry(t) ==
    /\ At(t, "idle") /\ held[t] /= None
    /\ lock = NoOwner
    /\ \E unregister \in UnregisterModes :
          CASE reg /= held[t] -> aborted' = TRUE /\ UNCHANGED <<pc, held, ret>>
            [] unregister -> pc' = [pc EXCEPT ![t] = "unmap_munmap"] /\ UNCHANGED <<held, ret, aborted>>
            [] OTHER -> /\ held' = [held EXCEPT ![t] = None]
                        /\ ret' = [ret EXCEPT ![t] = "NO_ERROR"]
                        /\ UNCHANGED <<pc, aborted>>
    /\ UNCHANGED <<lock, reg, mmaps, nmaps>>

\* Under ShelfManager's lock: LookupShelf, assert(addr == mapped_addr); if
\* unregister, UnregisterShelf and go on to unmap after Unlock; else return
\* NO_ERROR.  The caller gives the address it got from Map.
UnmapLock(t) ==
    /\ At(t, "idle") /\ held[t] /= None
    /\ lock = NoOwner
    /\ \E unregister \in UnregisterModes :
          CASE reg /= held[t] -> aborted' = TRUE /\ UNCHANGED <<reg, pc, held, ret>>
            [] unregister -> /\ reg' = None
                             /\ pc' = [pc EXCEPT ![t] = "unmap_munmap"]
                             /\ UNCHANGED <<held, ret, aborted>>
            [] OTHER -> /\ held' = [held EXCEPT ![t] = None]
                        /\ ret' = [ret EXCEPT ![t] = "NO_ERROR"]
                        /\ UNCHANGED <<reg, pc, aborted>>
    /\ UNCHANGED <<lock, mmaps, nmaps>>

\* The effect on mmaps of Unmap(addr, length, true): the fam-atomic region
\* is unregistered, then munmap removes the mapping unless it fails.
Munmapped(addr, ok) == mmaps' = IF ok THEN mmaps \ {addr} ELSE mmaps

\* size = Size(); Unmap(mapped_addr, size, true): fam_atomic_unregister_region,
\* then munmap, whose failure returns SHELF_FILE_UNMAP_FAILED.
UnmapMunmap(t) ==
    /\ At(t, "unmap_munmap")
    /\ \E ok \in Outcomes("munmap") :
          /\ Munmapped(held[t], ok)
          /\ ret' = [ret EXCEPT ![t] = IF ok THEN "NO_ERROR" ELSE "SHELF_FILE_UNMAP_FAILED"]
    /\ held' = [held EXCEPT ![t] = None]
    /\ pc' = [pc EXCEPT ![t] = "idle"]
    /\ UNCHANGED <<lock, reg, nmaps, aborted>>

Next ==
    \E t \in Threads :
        MapLookup(t) \/ MapMmap(t) \/ UnmapLock(t) \/ UnmapMunmap(t)

Spec == Init /\ [][Next]_vars

-----------------------------------------------------------------------------
(* Properties *)

\* Threads unmapping between UnregisterShelf and munmap.
Unmapping == {held[t] : t \in {u \in Threads : pc[u] = "unmap_munmap"}}

\* Every live mapping of the shelf is the registered one, or one a thread
\* is about to munmap: Map's lookup-then-register under the lock never
\* leaves a second mapping of the shelf that nothing will unmap.
NoOrphanMapping == mmaps \subseteq {reg} \union Unmapping

\* The registry never names a mapping that was unmapped, so Map never
\* hands a thread an address that is gone.
RegistryMapped == reg /= None => reg \in mmaps

\* No ShelfFile::Unmap fails its assert(addr == mapped_addr).
UnmapNeverAsserts == ~aborted

=============================================================================
